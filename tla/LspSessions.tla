----------------------------- MODULE LspSessions -----------------------------
(***************************************************************************)
(* Language server sessions (lsp/sessions.py, lsp/generation.py and the    *)
(* resolver's use of them in lsp/resolvers.py).  A call captures the files *)
(* it is about, prepares the session of its project for exactly those      *)
(* contents, asks the server and gives its answer out as computed from     *)
(* them.  Sessions are started lazily, one process per key, and a new      *)
(* process gets a new epoch.  A caller that is cancelled while it shuts a  *)
(* process down leaves it running, known to nobody; and a server that      *)
(* stops reading its input blocks whoever writes to it, for no write has a *)
(* time limit.                                                             *)
(*                                                                         *)
(* The key of a session is its project configuration: the content of the   *)
(* control file.  A generation is its key, epoch, requested file and the   *)
(* contents of all files (the fingerprint of those).                       *)
(***************************************************************************)
EXTENDS Naturals, FiniteSets

CONSTANTS
    Files,
    Contents,     \* contents of a file, numbers above 0
    Keys,         \* configurations of the project
    Tasks,        \* concurrent calls
    Admin,        \* the restart tool, as the holder of a lock
    None,
    Watched,      \* the server registered for didChangeWatchedFiles
    SyncNone,     \* the server's text document sync is None
    MaxCalls,     \* bound: calls made
    MaxEdits,     \* bound: edits of files and of the configuration
    MaxFaults     \* bound: failed starts and requests, cancellations, stalls and restarts

VARIABLES
    disk,    \* content of each file
    config,  \* the configuration on disk
    epochs,  \* LspSessionManager._epochs
    record,  \* _records: epoch, documents the server has open, generations
    lock,    \* _session_locks: holder
    alive,   \* processes: <<key, epoch>>
    left,    \* those of them that no record and no shutdown in progress holds
    stalled, \* those that read no input, with the pipe to them full
    task,    \* state of each call
    count    \* calls, edits, faults

vars == <<disk, config, epochs, record, lock, alive, left, stalled, task, count>>

IdleTask == [pc |-> "idle", file |-> None, key |-> None, bundle |-> None, epoch |-> 0,
             attempt |-> 0, todo |-> {}]

Init ==
    /\ disk = [f \in Files |-> CHOOSE c \in Contents : \A d \in Contents : c <= d]
    /\ config = CHOOSE k \in Keys : TRUE
    /\ epochs = [k \in Keys |-> 0]
    /\ record = [k \in Keys |-> None]
    /\ lock = [k \in Keys |-> None]
    /\ alive = {}
    /\ left = {}
    /\ stalled = {}
    /\ task = [t \in Tasks |-> IdleTask]
    /\ count = [calls |-> 0, edits |-> 0, faults |-> 0]

Fault == count.faults < MaxFaults /\ count' = [count EXCEPT !.faults = @ + 1]

\* _generation_fingerprint over everything the generation was captured from:
\* equal exactly for equal epochs and contents.
Fingerprint(epoch, bundle) == [epoch |-> epoch, bundle |-> bundle]
\* SemanticGenerationBarrier.capture.
Generation(t) == Fingerprint(task[t].epoch, task[t].bundle)

\* Files and the configuration change at any time.
Edit(f, c) ==
    /\ count.edits < MaxEdits
    /\ disk[f] # c
    /\ disk' = [disk EXCEPT ![f] = c]
    /\ count' = [count EXCEPT !.edits = @ + 1]
    /\ UNCHANGED <<config, epochs, record, lock, alive, left, stalled, task>>

EditConfig(k) ==
    /\ count.edits < MaxEdits
    /\ config # k
    /\ config' = k
    /\ count' = [count EXCEPT !.edits = @ + 1]
    /\ UNCHANGED <<disk, epochs, record, lock, alive, left, stalled, task>>

----------------------------------------------------------------------------
(* A call up to its session.                                               *)

Superseded(k) == {o \in Keys \ {k} : record[o] # None}

\* navigate or execute_capability: the bundle, the session key and, at the
\* epoch of the moment, the generation; prepare then looks for sessions of
\* other configurations of the project.
Call(t, f) ==
    /\ task[t].pc = "idle"
    /\ count.calls < MaxCalls
    /\ task' = [task EXCEPT ![t] = [pc |-> "retire", file |-> f, key |-> config, bundle |-> disk,
                                    epoch |-> epochs[config], attempt |-> 1,
                                    todo |-> Superseded(config)]]
    /\ count' = [count EXCEPT !.calls = @ + 1]
    /\ UNCHANGED <<disk, config, epochs, record, lock, alive, left, stalled>>

\* The processes of a key that somebody answers for.
Own(k) == {p \in alive \ left : p[1] = k}

\* A write to the process of a session returns: drain waits, without a limit,
\* while the pipe is full.
Reads(k, epoch) == <<k, epoch>> \notin stalled

\* broker.shutdown, which first asks the server to shut down, has come to its
\* end: the process was terminated and reaped.
Reaped(k) ==
    /\ Own(k) \cap stalled = {}
    /\ alive' = alive \ Own(k)
    /\ UNCHANGED <<left, stalled>>

\* _restart_unlocked: the record is gone and the epoch advances at once; the
\* process is shut down before the lock is released.
Advanced(k) == [epochs EXCEPT ![k] = (IF record[k] = None THEN @ ELSE record[k].epoch) + 1]

\* shutdown of a broker cancels the futures of the calls that wait on it: they
\* end with a cancellation nobody asked for.
Cancelled(k) ==
    {t \in Tasks : /\ task[t].pc = "wait" /\ task[t].key = k
                   /\ record[k] # None /\ task[t].epoch = record[k].epoch}

RestartUnlocked(k, next) ==
    /\ epochs' = Advanced(k)
    /\ record' = [record EXCEPT ![k] = None]
    /\ task' = [t \in Tasks |->
                  IF t \in Cancelled(k) THEN IdleTask
                  ELSE next[t]]

\* _retire_superseded_project_sessions: the lock of each, one after the other.
Retire(t, k) ==
    /\ task[t].pc = "retire"
    /\ k \in task[t].todo
    /\ lock[k] = None
    /\ IF record[k] # None
       THEN /\ RestartUnlocked(k, [task EXCEPT ![t].pc = "retiring", ![t].todo = {k} \cup @])
            /\ lock' = [lock EXCEPT ![k] = t]
       ELSE /\ task' = [task EXCEPT ![t].todo = @ \ {k}]
            /\ UNCHANGED <<epochs, record, lock>>
    /\ UNCHANGED <<disk, config, alive, left, stalled, count>>

RetireClosed(t) ==
    /\ task[t].pc = "retiring"
    /\ \E k \in Keys :
          /\ lock[k] = t
          /\ Reaped(k)
          /\ lock' = [lock EXCEPT ![k] = None]
          /\ task' = [task EXCEPT ![t].pc = "retire", ![t].todo = @ \ {k}]
    /\ UNCHANGED <<disk, config, epochs, record, count>>

\* The caller is cancelled while it shuts down the process of a key: the
\* cancellation passes the handler of shutdown, or ends its wait before the
\* kill.  The record is gone, the lock is released, and the process stays.
CutOff(t) ==
    /\ task[t].pc \in {"retiring", "closing", "failing"}
    /\ Fault
    /\ \E k \in Keys :
          /\ lock[k] = t
          /\ left' = left \cup Own(k)
          /\ lock' = [lock EXCEPT ![k] = None]
    /\ task' = [task EXCEPT ![t] = IdleTask]
    /\ UNCHANGED <<disk, config, epochs, record, alive, stalled>>

\* Such a process may exit of itself.
LeftExits(p) ==
    /\ p \in left
    /\ alive' = alive \ {p}
    /\ left' = left \ {p}
    /\ stalled' = stalled \ {p}
    /\ UNCHANGED <<disk, config, epochs, record, lock, task, count>>

\* A server stops reading, or goes on.
Stalls(p) ==
    /\ p \in alive \ (left \cup stalled)
    /\ Fault
    /\ stalled' = stalled \cup {p}
    /\ UNCHANGED <<disk, config, epochs, record, lock, alive, left, task>>

ReadsOn(p) ==
    /\ p \in stalled
    /\ stalled' = stalled \ {p}
    /\ UNCHANGED <<disk, config, epochs, record, lock, alive, left, task, count>>

\* prepare returned None: after the second attempt the call is given up as
\* partial ("could not stabilize after provider restart").
NextAttempt(t) ==
    IF task[t].attempt = 2 THEN IdleTask
    ELSE [task[t] EXCEPT !.pc = "again", !.attempt = 2]

\* The caller resumes: the second attempt has the epoch of now and looks for
\* superseded sessions again.
Retry(t) ==
    /\ task[t].pc = "again"
    /\ task' = [task EXCEPT ![t].pc = "retire", ![t].epoch = epochs[task[t].key],
                            ![t].todo = Superseded(task[t].key)]
    /\ UNCHANGED <<disk, config, epochs, record, lock, alive, left, stalled, count>>

\* _acquire: the session that runs, or a start.
Acquired(k) == IF record[k] = None THEN "start" ELSE "reconcile"

\* _prepare_once takes the session lock and leaves if the epoch has moved.
Lock(t) ==
    /\ task[t].pc = "retire"
    /\ task[t].todo = {}
    /\ lock[task[t].key] = None
    /\ IF task[t].epoch # epochs[task[t].key]
       THEN /\ task' = [task EXCEPT ![t] = NextAttempt(t)]
            /\ UNCHANGED lock
       ELSE /\ lock' = [lock EXCEPT ![task[t].key] = t]
            /\ task' = [task EXCEPT ![t].pc = Acquired(task[t].key)]
    /\ UNCHANGED <<disk, config, epochs, record, alive, left, stalled, count>>

\* _start_broker, after the back-off that failures before it ask for.
StartOk(t) ==
    /\ task[t].pc = "start"
    /\ LET k == task[t].key IN
       /\ record' = [record EXCEPT ![k] = [epoch |-> task[t].epoch, open |-> {},
                                           gens |-> [f \in Files |-> None]]]
       /\ alive' = alive \cup {<<k, task[t].epoch>>}
    /\ task' = [task EXCEPT ![t].pc = "reconcile"]
    /\ UNCHANGED <<disk, config, epochs, lock, left, stalled, count>>

\* Mutant: a start that fails leaves the lock taken.
StartFailsLocked(t) ==
    /\ task[t].pc = "start"
    /\ Fault
    /\ epochs' = [epochs EXCEPT ![task[t].key] = task[t].epoch + 1]
    /\ task' = [task EXCEPT ![t] = IdleTask]
    /\ UNCHANGED <<disk, config, record, lock, alive, left, stalled>>

\* The start fails: the epoch advances, the process is shut down, and the call
\* ends as partial.  A start that is cancelled while the process is spawned
\* shuts nothing down: the shared start task, which is shielded, goes on, and
\* the process it spawns is nobody's.
StartFails(t) ==
    /\ task[t].pc = "start"
    /\ Fault
    /\ epochs' = [epochs EXCEPT ![task[t].key] = task[t].epoch + 1]
    /\ \E P \in SUBSET {<<task[t].key, task[t].epoch>>} :
          /\ alive' = alive \cup P
          /\ left' = left \cup P
    /\ lock' = [lock EXCEPT ![task[t].key] = None]
    /\ task' = [task EXCEPT ![t] = IdleTask]
    /\ UNCHANGED <<disk, config, record, stalled>>

----------------------------------------------------------------------------
(* Reconciliation, under the lock.                                         *)

\* _changed_paths of the inputs (the requested file and its dependencies).
Changed(before, after) == {f \in Files : before.bundle[f] # after.bundle[f]}

\* plan_reconciliation, and the loop over its actions, which restarts instead
\* of a didChange when the server takes none.  The control hashes and the
\* identity are equal for equal keys and epochs.
Restarts(r, before, after) ==
    LET changed == Changed(before, after) IN
    \/ changed \ r.open # {} /\ ~Watched
    \/ changed \cap r.open # {} /\ SyncNone

RestartFirst(t) ==
    LET r == record[task[t].key]
        before == r.gens[task[t].file] IN
    before # None /\ Restarts(r, before, Generation(t))

\* Otherwise the server is told of the changes (LspDocuments has what it makes
\* of them), the requested file is opened unless it is open, and the generation
\* is recorded for it.
Reconcile(t) ==
    /\ task[t].pc = "reconcile"
    /\ ~RestartFirst(t)
    /\ Reads(task[t].key, task[t].epoch)
    /\ LET k == task[t].key
           f == task[t].file IN
       /\ record' = [record EXCEPT ![k].open = @ \cup {f}, ![k].gens[f] = Generation(t)]
       /\ lock' = [lock EXCEPT ![k] = None]
    /\ task' = [task EXCEPT ![t].pc = "send"]
    /\ UNCHANGED <<disk, config, epochs, alive, left, stalled, count>>

ReconcileRestarts(t) ==
    /\ task[t].pc = "reconcile"
    /\ RestartFirst(t)
    /\ RestartUnlocked(task[t].key, [task EXCEPT ![t].pc = "closing"])
    /\ UNCHANGED <<disk, config, lock, alive, left, stalled, count>>

\* The old process is gone; the lock is released; prepare returned None.
Closed(t) ==
    /\ task[t].pc = "closing"
    /\ LET k == task[t].key IN
       /\ Reaped(k)
       /\ lock' = [lock EXCEPT ![k] = None]
       /\ task' = [task EXCEPT ![t] = NextAttempt(t)]
    /\ UNCHANGED <<disk, config, epochs, record, count>>

----------------------------------------------------------------------------
(* The request.                                                            *)

\* The broker this call was given is still a session of the manager.
IsSession(t) == LET r == record[task[t].key] IN r # None /\ r.epoch = task[t].epoch

\* request: the broker refuses once it is shut down.
Send(t) ==
    /\ task[t].pc = "send"
    /\ Reads(task[t].key, task[t].epoch)
    /\ task' = [task EXCEPT ![t] =
                  [@ EXCEPT !.pc = IF IsSession(t) THEN "wait" ELSE "error"]]
    /\ UNCHANGED <<disk, config, epochs, record, lock, alive, left, stalled, count>>

Answer(t) ==
    /\ task[t].pc = "wait"
    /\ task' = [task EXCEPT ![t].pc = "answered"]
    /\ UNCHANGED <<disk, config, epochs, record, lock, alive, left, stalled, count>>

\* The request times out, which the server is told, or the process is gone.
RequestFails(t) ==
    /\ task[t].pc = "wait"
    /\ Reads(task[t].key, task[t].epoch)
    /\ Fault
    /\ task' = [task EXCEPT ![t].pc = "error"]
    /\ UNCHANGED <<disk, config, epochs, record, lock, alive, left, stalled>>

\* _assert_current_generation when the caller resumes: a session with another
\* generation of the file refuses the answer; a broker that is no session of
\* the manager any more refuses nothing.
Accepts(t) == IsSession(t) => record[task[t].key].gens[task[t].file] = Generation(t)

Resume(t) ==
    /\ task[t].pc = "answered"
    /\ task' = [task EXCEPT ![t] = IF Accepts(t) THEN [@ EXCEPT !.pc = "done"]
                                   ELSE [@ EXCEPT !.pc = "error"]]
    /\ UNCHANGED <<disk, config, epochs, record, lock, alive, left, stalled, count>>

\* The answer is given out.
Done(t) ==
    /\ task[t].pc = "done"
    /\ task' = [task EXCEPT ![t] = IdleTask]
    /\ UNCHANGED <<disk, config, epochs, record, lock, alive, left, stalled, count>>

\* Mutant: the lock is released before the old process has been shut down.
RestartUnheld(t) ==
    /\ task[t].pc = "error"
    /\ lock[task[t].key] = None
    /\ RestartUnlocked(task[t].key, [task EXCEPT ![t].pc = "failing"])
    /\ UNCHANGED <<disk, config, lock, alive, left, stalled, count>>

\* A failure restarts the session of the key, whichever process runs it now.
Restart(t) ==
    /\ task[t].pc = "error"
    /\ lock[task[t].key] = None
    /\ RestartUnlocked(task[t].key, [task EXCEPT ![t].pc = "failing"])
    /\ lock' = [lock EXCEPT ![task[t].key] = t]
    /\ UNCHANGED <<disk, config, alive, left, stalled, count>>

RestartClosed(t) ==
    /\ task[t].pc = "failing"
    /\ Reaped(task[t].key)
    /\ lock' = [lock EXCEPT ![task[t].key] = None]
    /\ task' = [task EXCEPT ![t] = IdleTask]
    /\ UNCHANGED <<disk, config, epochs, record, count>>

\* restart_selected and restart_if_running.
AdminRestart(k) ==
    /\ lock[k] = None
    /\ record[k] # None
    /\ Fault
    /\ RestartUnlocked(k, task)
    /\ lock' = [lock EXCEPT ![k] = Admin]
    /\ UNCHANGED <<disk, config, alive, left, stalled>>

\* The tool is cancelled while the process is shut down.
AdminCutOff(k) ==
    /\ lock[k] = Admin
    /\ Fault
    /\ left' = left \cup Own(k)
    /\ lock' = [lock EXCEPT ![k] = None]
    /\ UNCHANGED <<disk, config, epochs, record, alive, stalled, task>>

AdminClosed(k) ==
    /\ lock[k] = Admin
    /\ Reaped(k)
    /\ lock' = [lock EXCEPT ![k] = None]
    /\ UNCHANGED <<disk, config, epochs, record, task, count>>

----------------------------------------------------------------------------
Step(t) ==
    \/ \E k \in Keys : Retire(t, k)
    \/ RetireClosed(t) \/ Retry(t) \/ Lock(t) \/ StartOk(t) \/ Reconcile(t) \/ ReconcileRestarts(t)
    \/ Closed(t) \/ Send(t) \/ Answer(t) \/ Resume(t) \/ Done(t) \/ Restart(t)
    \/ RestartClosed(t)

Next ==
    \/ \E f \in Files, c \in Contents : Edit(f, c)
    \/ \E k \in Keys : EditConfig(k) \/ AdminRestart(k) \/ AdminCutOff(k) \/ AdminClosed(k)
    \/ \E t \in Tasks : \/ \E f \in Files : Call(t, f)
                        \/ Step(t) \/ StartFails(t) \/ RequestFails(t) \/ CutOff(t)
    \/ \E p \in alive : LeftExits(p) \/ Stalls(p) \/ ReadsOn(p)

Spec == Init /\ [][Next]_vars

\* Locks are granted in the order of arrival, processes die when they are
\* killed, and a request that is not answered times out, which ends its call
\* when the server reads.  A server owes nobody that it does.
Fairness ==
    /\ \A t \in Tasks :
          SF_vars(Step(t) /\ (task[t].pc = "wait" => Reads(task[t].key, task[t].epoch)))
    /\ \A k \in Keys : WF_vars(AdminClosed(k))
FairSpec == Spec /\ Fairness

----------------------------------------------------------------------------
\* The record of a session is always of the current epoch of its key: an old
\* process is never reached under a new epoch, nor a new one under an old.
\* That holds also of the processes that cancellations left running: each of
\* them is of an epoch that is over.
RecordIsCurrent ==
    /\ \A k \in Keys : record[k] # None =>
          record[k].epoch = epochs[k] /\ <<k, epochs[k]>> \in alive \ left
    /\ \A p \in left : p[2] < epochs[p[1]]

\* One process per key besides those: the next one is started only after the
\* one before it has been reaped, or left by a cancellation of its shutdown.
OneProcessPerKey == \A p, q \in alive \ left : p[1] = q[1] => p = q

\* The invariant that explains both.  A task holds at most one lock, the one of
\* its own session unless it retires another; the session it starts is not
\* there, the one it reconciles is; whoever holds the lock to shut a process
\* down has taken its record away; without a record and such a holder the key
\* has no process but those left behind; and a process is of the epoch of now
\* only while there is a record of it.
Bundles == [Files -> Contents]
Captures == [epoch : Nat, bundle : Bundles]
Sessions == [epoch : Nat, open : SUBSET Files, gens : [Files -> Captures \cup {None}]]
Holding == {"start", "reconcile", "closing", "failing"}
Calls ==
    [pc : Holding \cup {"idle", "retire", "retiring", "again", "send", "wait", "answered", "done",
                        "error"},
     file : Files \cup {None}, key : Keys \cup {None}, bundle : Bundles \cup {None},
     epoch : Nat, attempt : Nat, todo : SUBSET Keys]

\* Sessions, epochs and calls have their shape.
TypeOK ==
    /\ disk \in Bundles /\ config \in Keys
    /\ epochs \in [Keys -> Nat]
    /\ record \in [Keys -> Sessions \cup {None}]
    /\ lock \in [Keys -> Tasks \cup {Admin, None}]
    /\ alive \subseteq Keys \X Nat
    /\ left \subseteq alive
    /\ stalled \subseteq alive
    /\ task \in [Tasks -> Calls]

Closer(k) ==
    \/ lock[k] = Admin
    \/ lock[k] \in Tasks /\ task[lock[k]].pc \in {"retiring", "closing", "failing"}

Processes(k) == {p \in alive : p[1] = k}
KeyInv(k) ==
    /\ lock[k] \in Tasks =>
          \/ task[lock[k]].pc = "retiring"
          \/ task[lock[k]].pc \in Holding /\ task[lock[k]].key = k
    /\ Closer(k) => record[k] = None
    /\ record[k] # None => record[k].epoch = epochs[k] /\ Own(k) = {<<k, epochs[k]>>}
    /\ record[k] = None => Closer(k) \/ Own(k) = {}
    /\ \A p \in Processes(k) :
          p[2] < epochs[k] \/ (record[k] # None /\ p = <<k, epochs[k]>>)
    /\ \A p, q \in Own(k) : p = q

TaskInv(t) ==
    /\ task[t].pc # "idle" =>
          task[t].file \in Files /\ task[t].key \in Keys /\ task[t].bundle \in Bundles
    /\ task[t].pc \in Holding => lock[task[t].key] = t
    /\ task[t].pc = "start" =>
          record[task[t].key] = None /\ task[t].epoch = epochs[task[t].key]
    /\ task[t].pc = "reconcile" => record[task[t].key] # None

SessionInv ==
    /\ TypeOK
    /\ \A k \in Keys : KeyInv(k)
    /\ \A t \in Tasks : TaskInv(t)
    /\ \A j, k \in Keys : lock[j] \in Tasks /\ lock[j] = lock[k] => j = k

\* Every call ends, although calls for different configurations retire each
\* other's sessions and wait for each other's locks, as long as no server
\* stops reading for good.
CallsEnd == <>[](stalled = {}) => \A t \in Tasks : task[t].pc # "idle" ~> task[t].pc = "idle"
=============================================================================
