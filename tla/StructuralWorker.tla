-------------------------- MODULE StructuralWorker --------------------------
(***************************************************************************)
(* The supervised worker of structural search (structural/supervisor.py,   *)
(* structural/cache.py).  Callers run one job at a time under a lock on    *)
(* one lazily started child process; the process is replaced after a       *)
(* number of jobs, above a memory limit and after every failure; a caller  *)
(* may be cancelled at any await and the supervisor closed at any time.    *)
(* An action is what happens between two awaits.  Equal extractions share  *)
(* a task (TaskShare); here every caller has its own.                      *)
(***************************************************************************)
EXTENDS Naturals, Sequences, SequencesExt, FiniteSets

CONSTANTS
    Clients,       \* coroutines that ask for jobs
    Contents,      \* inputs of an extraction; the number is the size of its answer
    MaxJobs,       \* budget.max_completed_jobs
    CacheEntries,  \* budget.lru_entries
    CacheBytes,    \* budget.lru_bytes
    MaxSpawns,     \* bound: processes started
    MaxAsked       \* bound: jobs asked for

VARIABLES
    worker,   \* _proc: pid (0 for none), how it answered the ping, completed jobs, exited
    living,   \* pids of worker processes that run, the strays aside
    stray,    \* pids of those that still run after their termination was cut off
    spawned,  \* processes started so far: _worker_epoch
    holder,   \* holder of _lock: a client, "close" or "none"
    job,      \* what each client does
    cache,    \* MemoryCache._entries, least recently used first
    closing,  \* aclose: "no", "draining", "abandoned", "again", "stopping", "settling", "closed"
    asked

vars == <<worker, living, stray, spawned, holder, job, cache, closing, asked>>

NoWorker == [pid |-> 0, pong |-> "none", jobs |-> 0, exited |-> FALSE]
NoJob == [pc |-> "idle", op |-> "none", input |-> 0, attempt |-> 0, victim |-> 0,
          then |-> "none", got |-> "none"]

Init ==
    /\ worker = NoWorker
    /\ living = {} /\ stray = {}
    /\ spawned = 0
    /\ holder = "none"
    /\ job = [c \in Clients |-> NoJob]
    /\ cache = <<>>
    /\ closing = "no"
    /\ asked = 0

Closed == closing # "no"

----------------------------------------------------------------------------
(* MemoryCache.                                                            *)

CacheSize(s) == FoldSeq(LAMBDA x, n : x + n, 0, s)
Cached(x) == x \in ToSet(cache)
Touched(x) == Append(SelectSeq(cache, LAMBDA y : y # x), x)

\* put: an answer above the limit is not kept; otherwise it is the newest, and
\* the oldest go until both limits hold.
CachePut(x) ==
    IF x > CacheBytes THEN cache
    ELSE LET s == Touched(x)
             fits(k) == LET rest == SubSeq(s, k + 1, Len(s)) IN
                        Len(rest) <= CacheEntries /\ CacheSize(rest) <= CacheBytes
             n == CHOOSE k \in 0..Len(s) : fits(k) /\ \A j \in 0..(k - 1) : ~fits(j) IN
         SubSeq(s, n + 1, Len(s))

----------------------------------------------------------------------------
(* Helpers.                                                                *)

Ended(c, got) == [NoJob EXCEPT !.pc = "done", !.op = job[c].op, !.got = got]
To(c, pc) == [job EXCEPT ![c].pc = pc]

\* A client leaves _extract_once or _structural_once and with it the lock.
Leave(c, got) ==
    /\ holder' = "none"
    /\ job' = [job EXCEPT ![c] = Ended(c, got)]

\* _replace up to its await: the process is no longer the worker's; it is being
\* terminated and, if it does not go, killed.
Replace(c, then) ==
    /\ worker' = NoWorker
    /\ job' = [job EXCEPT ![c].pc = "stopping", ![c].victim = worker.pid, ![c].then = then]

\* _ensure_worker: the process that runs, a new one, or a new one after the
\* remains of the one that exited.
Ensure(c, j) ==
    /\ job' = [job EXCEPT ![c] =
                 IF worker.pid = 0 THEN [j EXCEPT !.pc = "spawn"]
                 ELSE IF worker.exited
                 THEN [j EXCEPT !.pc = "stopping", !.victim = worker.pid, !.then = "spawn"]
                 ELSE [j EXCEPT !.pc = "recycle"]]
    /\ worker' = IF worker.exited THEN NoWorker ELSE worker

\* WorkerUnavailableError in _extract_once or _structural_once: one retry, unless
\* the supervisor has been closed.
Unavailable(c) ==
    IF job[c].attempt = 1 /\ ~Closed
    THEN Ensure(c, [job[c] EXCEPT !.attempt = 2, !.then = "none"]) /\ UNCHANGED holder
    ELSE Leave(c, "unavailable") /\ UNCHANGED worker

----------------------------------------------------------------------------
(* Jobs.                                                                   *)

\* extract: from the cache, or in the queue for the lock.
Extract(c, x) ==
    /\ job[c].pc = "idle"
    /\ asked < MaxAsked
    /\ asked' = asked + 1
    /\ job' = [job EXCEPT ![c] =
                 IF Closed THEN [NoJob EXCEPT !.pc = "done", !.op = "extract", !.got = "unavailable"]
                 ELSE IF Cached(x) THEN [NoJob EXCEPT !.pc = "done", !.op = "extract", !.got = "result"]
                 ELSE [NoJob EXCEPT !.pc = "queued", !.op = "extract", !.input = x, !.attempt = 1]]
    /\ cache' = IF ~Closed /\ Cached(x) THEN Touched(x) ELSE cache
    /\ UNCHANGED <<stray, worker, living, spawned, holder, closing>>

\* structural: never cached.
Structural(c) ==
    /\ job[c].pc = "idle"
    /\ asked < MaxAsked
    /\ asked' = asked + 1
    /\ job' = [job EXCEPT ![c] =
                 IF Closed THEN [NoJob EXCEPT !.pc = "done", !.op = "structural", !.got = "unavailable"]
                 ELSE [NoJob EXCEPT !.pc = "queued", !.op = "structural", !.attempt = 1]]
    /\ UNCHANGED <<stray, worker, living, spawned, holder, cache, closing>>

\* _extract_once and _structural_once with the lock.
Begin(c) ==
    /\ job[c].pc = "queued"
    /\ holder = "none"
    /\ IF Closed
       THEN Leave(c, "unavailable") /\ UNCHANGED worker
       ELSE holder' = c /\ Ensure(c, job[c])
    /\ UNCHANGED <<stray, living, spawned, cache, closing, asked>>

\* _spawn_and_handshake: the process is there and the ping is on its way.
Spawned(c) ==
    /\ job[c].pc = "spawn"
    /\ spawned < MaxSpawns
    /\ spawned' = spawned + 1
    /\ worker' = [NoWorker EXCEPT !.pid = spawned + 1]
    /\ living' = living \cup {spawned + 1}
    /\ job' = To(c, "ping")
    /\ UNCHANGED <<stray, holder, cache, closing, asked>>

\* create_subprocess_exec fails.  While a worker is provisioned after a job the
\* error is suppressed.
SpawnFails(c) ==
    /\ job[c].pc = "spawn"
    /\ CASE job[c].then = "provision" -> job' = To(c, "send") /\ UNCHANGED <<worker, holder>>
         [] job[c].then = "answered" -> Leave(c, "result") /\ UNCHANGED worker
         [] OTHER -> Unavailable(c)
    /\ UNCHANGED <<stray, living, spawned, cache, closing, asked>>

\* The identity that the ping asks for is the expected one.
Pong(c) ==
    /\ job[c].pc = "ping"
    /\ ~worker.exited
    /\ worker' = [worker EXCEPT !.pong = "identity"]
    /\ CASE job[c].then = "provision" -> job' = To(c, "send") /\ UNCHANGED holder
         [] job[c].then = "answered" -> Leave(c, "result")
         [] OTHER -> job' = To(c, "recycle") /\ UNCHANGED holder
    /\ UNCHANGED <<stray, living, spawned, cache, closing, asked>>

\* The ping is answered with an error of the worker's: WorkerJobError, which nothing
\* on the way out takes for an unavailable worker.  The job ends with it, one that has
\* its answer and waits for the next process too, and the process stays the worker.
PongError(c) ==
    /\ job[c].pc = "ping"
    /\ ~worker.exited
    /\ worker' = [worker EXCEPT !.pong = "error"]
    /\ Leave(c, "job_error")
    /\ UNCHANGED <<stray, living, spawned, cache, closing, asked>>

\* Another identity, no answer in time, or an answer that is none.
PongFails(c) ==
    /\ job[c].pc = "ping"
    /\ Replace(c, CASE job[c].then = "provision" -> "provision-failed"
                    [] job[c].then = "answered" -> "answered-failed"
                    [] OTHER -> "unavailable")
    /\ UNCHANGED <<stray, living, spawned, holder, cache, closing, asked>>

\* _recycle_if_needed.
Recycle(c) ==
    /\ job[c].pc = "recycle"
    /\ IF worker.jobs >= MaxJobs THEN Replace(c, "provision")
       ELSE job' = To(c, "send") /\ UNCHANGED worker
    /\ UNCHANGED <<stray, living, spawned, holder, cache, closing, asked>>

\* _roundtrip up to its await; without a process the worker is unavailable.
Send(c) ==
    /\ job[c].pc = "send"
    /\ IF worker.pid = 0 THEN Unavailable(c)
       ELSE job' = To(c, "wait") /\ UNCHANGED <<worker, holder>>
    /\ UNCHANGED <<stray, living, spawned, cache, closing, asked>>

\* The request is larger than a frame may be: nothing is written.
TooLarge(c) ==
    /\ job[c].pc = "send"
    /\ worker.pid # 0
    /\ Leave(c, "too_large")
    /\ UNCHANGED <<stray, worker, living, spawned, cache, closing, asked>>

\* The answer with the id of the request: the job counts; above the memory limit
\* the worker of an extraction is replaced before the result is given out.
Answer(c, heavy) ==
    /\ job[c].pc = "wait"
    /\ ~worker.exited
    /\ heavy => job[c].op = "extract"
    /\ IF heavy
       THEN Replace(c, "answered") /\ UNCHANGED holder
       ELSE worker' = [worker EXCEPT !.jobs = @ + 1] /\ Leave(c, "result")
    /\ cache' = IF ~heavy /\ job[c].op = "extract" THEN CachePut(job[c].input) ELSE cache
    /\ UNCHANGED <<stray, living, spawned, closing, asked>>

\* An error of the job: the worker stays, and the job does not count.
JobError(c) ==
    /\ job[c].pc = "wait"
    /\ ~worker.exited
    /\ Leave(c, "job_error")
    /\ UNCHANGED <<stray, worker, living, spawned, cache, closing, asked>>

\* The deadline, the end of the stream, a malformed frame or another id.
Lost(c) ==
    /\ job[c].pc = "wait"
    /\ Replace(c, "unavailable")
    /\ UNCHANGED <<stray, living, spawned, holder, cache, closing, asked>>

\* _terminate_owned_process has returned: the whole process group is gone.
Stopped(c) ==
    /\ job[c].pc = "stopping"
    /\ living' = living \ {job[c].victim}
    /\ CASE job[c].then \in {"cancelled", "settling"} -> Leave(c, "cancelled") /\ UNCHANGED worker
         [] job[c].then = "unavailable" -> Unavailable(c)
         [] job[c].then = "provision-failed" -> job' = To(c, "send") /\ UNCHANGED <<worker, holder>>
         [] job[c].then = "answered-failed" -> Leave(c, "result") /\ UNCHANGED worker
         [] job[c].then = "answered" /\ Closed -> Leave(c, "result") /\ UNCHANGED worker
         [] job[c].then = "provision" /\ Closed -> job' = To(c, "send") /\ UNCHANGED <<worker, holder>>
         [] OTHER -> job' = [job EXCEPT ![c].pc = "spawn", ![c].victim = 0]
                     /\ UNCHANGED <<worker, holder>>
    /\ cache' = IF job'[c].got = "result" /\ job[c].op = "extract" THEN CachePut(job[c].input)
                ELSE cache
    /\ UNCHANGED <<stray, spawned, closing, asked>>

\* A cancellation during the spawn waits for the process and terminates it.  None
\* comes when the exec fails, or when a second cancellation ends the wait: asyncio
\* kills what it has started.
SpawnCancelled(c) ==
    \/ /\ spawned' = spawned + 1
       /\ living' = living \cup {spawned + 1}
       /\ job' = [job EXCEPT ![c].pc = "stopping", ![c].victim = spawned + 1, ![c].then = "cancelled"]
       /\ UNCHANGED <<worker, holder>>
    \/ Leave(c, "cancelled") /\ UNCHANGED <<worker, living, spawned>>

\* _terminate_owned_process shields the termination from a first cancellation and then
\* awaits it as it is.  A second one ends the termination too, wherever it is: a
\* process that has not gone by itself is not killed any more.
CutOff(c) ==
    /\ Leave(c, "cancelled")
    /\ living' = living \ {job[c].victim}
    /\ stray' = stray \cup (living \cap {job[c].victim})

\* The client or aclose cancels the task, at any of its awaits, again and again.
Cancel(c) ==
    /\ CASE job[c].pc = "queued" ->
              /\ job' = [job EXCEPT ![c] = Ended(c, "cancelled")]
              /\ UNCHANGED <<worker, living, stray, spawned, holder>>
         [] job[c].pc = "spawn" -> spawned < MaxSpawns /\ SpawnCancelled(c) /\ UNCHANGED stray
         [] job[c].pc \in {"ping", "wait"} ->
              Replace(c, "cancelled") /\ UNCHANGED <<living, stray, spawned, holder>>
         [] job[c].pc = "stopping" /\ job[c].then # "settling" ->
              /\ job' = [job EXCEPT ![c].then = "settling"]
              /\ UNCHANGED <<worker, living, stray, spawned, holder>>
         [] job[c].pc = "stopping" /\ job[c].then = "settling" ->
              CutOff(c) /\ UNCHANGED <<worker, spawned>>
         [] OTHER -> FALSE
    /\ UNCHANGED <<cache, closing, asked>>

\* The client is done with its outcome.
Forget(c) ==
    /\ job[c].pc = "done"
    /\ job' = [job EXCEPT ![c] = NoJob]
    /\ UNCHANGED <<stray, worker, living, spawned, holder, cache, closing, asked>>

\* The process exits by itself.
Exit ==
    /\ worker.pid \in living
    /\ worker' = [worker EXCEPT !.exited = TRUE]
    /\ living' = living \ {worker.pid}
    /\ UNCHANGED <<stray, spawned, holder, job, cache, closing, asked>>

\* A stray does what the termination asked of it after all.
StrayExits(p) ==
    /\ p \in stray
    /\ stray' = stray \ {p}
    /\ UNCHANGED <<worker, living, spawned, holder, job, cache, closing, asked>>

----------------------------------------------------------------------------
(* aclose; after one that was cancelled it may be called again.            *)

CloseBegins ==
    /\ closing \in {"no", "abandoned"}
    /\ closing' = IF closing = "no" THEN "draining" ELSE "again"
    /\ UNCHANGED <<worker, living, stray, spawned, holder, job, cache, asked>>

\* cancel_all has returned: every task is done.  The registry of the second call is
\* empty: it waits for no task.  Then the lock and the process.
CloseDrained ==
    /\ closing \in {"draining", "again"}
    /\ closing = "draining" => \A c \in Clients : job[c].pc \in {"idle", "done"}
    /\ holder = "none"
    /\ closing' = "stopping"
    /\ cache' = <<>>
    /\ holder' = "close"
    /\ UNCHANGED <<worker, living, stray, spawned, job, asked>>

CloseEnds ==
    /\ closing \in {"stopping", "settling"}
    /\ closing' = "closed"
    /\ worker' = NoWorker
    /\ living' = living \ {worker.pid}
    /\ holder' = "none"
    /\ UNCHANGED <<stray, spawned, job, cache, asked>>

\* aclose is cancelled: while it waits for the tasks or the lock it gives up; the
\* termination is shielded once.
CloseCancelled ==
    /\ \/ /\ closing \in {"draining", "again"}
          /\ closing' = "abandoned"
          /\ UNCHANGED <<worker, living, stray, holder>>
       \/ /\ closing = "stopping" /\ worker.pid # 0
          /\ closing' = "settling"
          /\ UNCHANGED <<worker, living, stray, holder>>
       \/ /\ closing = "settling"
          /\ closing' = "closed"
          /\ worker' = NoWorker
          /\ living' = living \ {worker.pid}
          /\ stray' = stray \cup (living \cap {worker.pid})
          /\ holder' = "none"
    /\ UNCHANGED <<spawned, job, cache, asked>>

Next ==
    \/ \E c \in Clients :
          \/ \E x \in Contents : Extract(c, x)
          \/ Structural(c) \/ Begin(c) \/ Spawned(c) \/ SpawnFails(c) \/ Pong(c) \/ PongError(c)
          \/ PongFails(c) \/ Recycle(c) \/ Send(c) \/ TooLarge(c) \/ JobError(c) \/ Lost(c)
          \/ Stopped(c) \/ Cancel(c) \/ Forget(c)
          \/ \E heavy \in BOOLEAN : Answer(c, heavy)
    \/ Exit \/ \E p \in stray : StrayExits(p)
    \/ CloseBegins \/ CloseDrained \/ CloseEnds \/ CloseCancelled

Spec == Init /\ [][Next]_vars

----------------------------------------------------------------------------
\* Every process that runs is the supervisor's worker or is being stopped by
\* someone who waits for its end; when aclose has returned none is left,
\* wherever the calls were when it began.
Owned ==
    /\ living \subseteq {worker.pid} \cup {job[c].victim : c \in Clients}
    /\ closing = "closed" => living = {}

\* The one exception: a process whose termination was itself cut off, which takes
\* two cancellations of one task; it is never the worker again.
ProcessesAreOwned == Owned /\ worker.pid \notin stray

\* A job runs only on a process that has answered its ping, with the expected identity
\* or with an error, which the code lets pass, and that has served fewer jobs than the
\* budget allows; and on one process at a time.
ServedByAnsweringWorker ==
    \A c \in Clients : job[c].pc = "wait" =>
        worker.pid # 0 /\ worker.pong # "none" /\ worker.jobs < MaxJobs /\ holder = c

\* The invariant that explains them.
Workers == [pid : Nat, pong : {"none", "identity", "error"}, jobs : Nat, exited : BOOLEAN]
Busy == {"spawn", "ping", "recycle", "send", "wait", "stopping"}
Thens == {"none", "spawn", "provision", "answered", "provision-failed", "answered-failed",
          "unavailable", "cancelled", "settling"}
Jobs == [pc : Busy \cup {"idle", "queued", "done"}, op : {"none", "extract", "structural"},
         input : Contents \cup {0}, attempt : 0 .. 2, victim : Nat, then : Thens,
         got : {"none", "result", "unavailable", "job_error", "too_large", "cancelled"}]

\* The worker, the lock and the jobs have their shape; processes are numbered.
TypeOK ==
    /\ spawned \in Nat /\ living \subseteq 1 .. spawned
    /\ worker \in Workers /\ worker.pid <= spawned
    /\ holder \in Clients \cup {"none", "close"}
    /\ job \in [Clients -> Jobs] /\ \A c \in Clients : job[c].victim <= spawned
    /\ closing \in {"no", "draining", "abandoned", "again", "stopping", "settling", "closed"}

\* What a job knows of the worker: r is the job, w the worker, P the processes.
Serves(w) == w.pid # 0 /\ w.pong # "none" /\ w.jobs < MaxJobs
Fits(r, w, P) ==
    /\ r.pc # "stopping" => r.victim \notin P
    /\ r.pc \in {"spawn", "stopping"} => w.pid = 0
    /\ r.pc = "ping" => w.pid # 0 /\ w.jobs = 0
    /\ r.pc = "recycle" => w.pid # 0 /\ w.pong # "none"
    /\ r.pc = "send" => w.pid = 0 \/ Serves(w)
    /\ r.pc = "wait" => Serves(w)

WorkerInv ==
    /\ TypeOK
    /\ \A c \in Clients : (job[c].pc \in Busy <=> holder = c) /\ Fits(job[c], worker, living)
    /\ holder \in {"none", "close"} => worker.pid = 0 \/ worker.pong # "none"
    /\ closing \in {"stopping", "settling"} <=> holder = "close"
    /\ closing = "closed" => \A c \in Clients : job[c].pc \notin Busy
    /\ Owned

\* What it leaves behind is a process that was started, and not the worker.
StrayInv == stray \subseteq 1 .. spawned /\ worker.pid \notin stray
=============================================================================
