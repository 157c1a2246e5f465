------------------------------ MODULE LspBroker ------------------------------
(***************************************************************************)
(* One language server process and the JSON-RPC traffic with it            *)
(* (lsp/broker.py): the start shared by every caller, requests that await  *)
(* a future, the reader that resolves it, time outs, responses that come   *)
(* late, dynamic registrations and the shutdown.  A write waits, without a *)
(* limit, while the pipe to the server is full.  Everything runs on one    *)
(* event loop: an action is what happens between two awaits.               *)
(***************************************************************************)
EXTENDS Naturals, Sequences, SequencesExt, FiniteSets

CONSTANTS
    Callers,        \* coroutines that start the broker and make requests
    Ids,            \* identifiers of dynamic registrations
    MaxRequests,    \* bound: requests made
    MaxTombstones   \* MAX_LATE_RESPONSE_TOMBSTONES

VARIABLES
    state,    \* LspBroker._state
    proc,     \* "none", "alive" or "exited": the process the broker holds
    reader,   \* the read loop is running
    full,     \* the server reads no input and the pipe to it is full
    lastId,   \* _request_id
    pending,  \* _pending: request id -> "open", "result", "error", "cancelled"
    wire,     \* requests the server has received and not answered
    call,     \* what each caller does
    tomb,     \* _late_response_tombstones, oldest first
    late,     \* _late_response_count
    regs      \* _registrations: the method of each registered id

vars == <<state, proc, reader, full, lastId, pending, wire, call, tomb, late, regs>>

Idle == [pc |-> "idle", id |-> 0, got |-> "none"]
Methods == {"diagnostic", "watched"}

\* Slots, tombstones and calls have their shape.
TypeOK ==
    /\ state \in {"idle", "initializing", "initialized", "shutting_down", "shutdown", "dead"}
    /\ proc \in {"none", "alive", "exited"}
    /\ full \in BOOLEAN
    /\ lastId \in 0..MaxRequests
    /\ DOMAIN pending \subseteq 1..lastId
    /\ \A c \in Callers : call[c].id \in 0..lastId
    /\ Len(tomb) <= MaxTombstones

Init ==
    /\ state = "idle"
    /\ proc = "none"
    /\ reader = FALSE
    /\ full = FALSE
    /\ lastId = 0
    /\ pending = <<>>
    /\ wire = {}
    /\ call = [c \in Callers |-> Idle]
    /\ tomb = <<>>
    /\ late = 0
    /\ regs = <<>>

Without(f, S) == [x \in DOMAIN f \ S |-> f[x]]
With(f, x, v) == [y \in DOMAIN f \cup {x} |-> IF y = x THEN v ELSE f[y]]
Futures == {i \in DOMAIN pending : pending[i] = "open"}
Ended(c, got) == [call EXCEPT ![c] = [pc |-> "done", id |-> @.id, got |-> got]]

----------------------------------------------------------------------------
(* Start.                                                                  *)

\* _spawn: the process and the tasks that read it; the caller awaits the
\* shared start task.
Spawned(c) ==
    /\ call' = [call EXCEPT ![c].pc = "starting"]
    /\ proc' = "alive"
    /\ reader' = TRUE

\* start: one task for all callers; any state but idle and initialized with no
\* task refuses.  _spawn may fail: nothing is left running, and the failed task is
\* what later callers await.
Start(c) ==
    /\ call[c].pc = "idle"
    /\ CASE state = "initialized" ->
              /\ call' = [call EXCEPT ![c].pc = "ready"]
              /\ UNCHANGED <<state, proc, reader>>
         [] state = "initializing" /\ proc = "none" ->
              /\ call' = Ended(c, "unavailable")
              /\ UNCHANGED <<state, proc, reader>>
         [] state = "initializing" /\ proc # "none" ->
              /\ call' = [call EXCEPT ![c].pc = "starting"]
              /\ UNCHANGED <<state, proc, reader>>
         [] state = "idle" ->
              \/ Spawned(c) /\ state' = "initializing"
              \/ /\ call' = Ended(c, "unavailable")
                 /\ state' = "initializing"
                 /\ UNCHANGED <<proc, reader>>
         [] OTHER -> /\ call' = Ended(c, "error")
                     /\ UNCHANGED <<state, proc, reader>>
    /\ UNCHANGED <<full, lastId, pending, wire, tomb, late, regs>>

\* The answer to initialize, then the two notifications; every caller that
\* awaits the shared task goes on.
Initialized ==
    /\ state = "initializing"
    /\ proc = "alive"
    /\ ~full
    /\ state' = "initialized"
    /\ call' = [c \in Callers |-> IF call[c].pc = "starting" THEN [call[c] EXCEPT !.pc = "ready"]
                                  ELSE call[c]]
    /\ UNCHANGED <<proc, reader, full, lastId, pending, wire, tomb, late, regs>>

\* _kill and _drain_background_tasks: terminate, kill after a grace period,
\* reap, and end the tasks of the streams.
Killed ==
    /\ proc' = "none"
    /\ reader' = FALSE
    /\ full' = FALSE

\* initialize fails, times out or the process exits: the process is killed.
InitializeFails ==
    /\ state = "initializing"
    /\ ~full
    /\ \E c \in Callers : call[c].pc = "starting"
    /\ state' = "dead"
    /\ Killed
    /\ call' = [c \in Callers |-> IF call[c].pc = "starting"
                                  THEN [call[c] EXCEPT !.pc = "done", !.got = "error"]
                                  ELSE call[c]]
    /\ UNCHANGED <<lastId, pending, wire, tomb, late, regs>>

----------------------------------------------------------------------------
(* Requests.                                                               *)

\* A server stops reading its input until the pipe is full, or reads on.
Fills ==
    /\ proc = "alive"
    /\ full' = ~full
    /\ UNCHANGED <<state, proc, reader, lastId, pending, wire, call, tomb, late, regs>>

\* request and _request up to the await: refused unless initialized; a fresh
\* id, a slot, and the message written.
Request(c) ==
    /\ call[c].pc = "ready"
    /\ lastId < MaxRequests
    /\ IF state # "initialized" \/ proc = "none"
       THEN call' = Ended(c, "error") /\ UNCHANGED <<lastId, pending>>
       ELSE /\ lastId' = lastId + 1
            /\ pending' = With(pending, lastId + 1, "open")
            /\ call' = [call EXCEPT ![c] = [pc |-> "writing", id |-> lastId + 1, got |-> "none"]]
    /\ UNCHANGED <<state, proc, reader, full, wire, tomb, late, regs>>

\* _write_message returns: the server has the request, and the wait with its
\* time out begins.  A future that a shutdown cancelled meanwhile is met there.
Written(c) ==
    /\ call[c].pc = "writing"
    /\ proc # "none" /\ ~full
    /\ wire' = IF proc = "alive" THEN wire \cup {call[c].id} ELSE wire
    /\ call' = [call EXCEPT ![c] =
                  IF @.id \in DOMAIN pending THEN [@ EXCEPT !.pc = "waiting"]
                  ELSE [@ EXCEPT !.pc = "resolved", !.got = "cancelled"]]
    /\ UNCHANGED <<state, proc, reader, full, lastId, pending, tomb, late, regs>>

\* _write_message raises: the process is gone.
WriteFails(c) ==
    /\ call[c].pc = "writing"
    /\ proc # "alive"
    /\ pending' = Without(pending, {call[c].id})
    /\ call' = Ended(c, "unavailable")
    /\ UNCHANGED <<state, proc, reader, full, lastId, wire, tomb, late, regs>>

\* _consume_tombstone: an answer to an abandoned request is counted once.
Consumed(id) ==
    IF id \in ToSet(tomb)
    THEN tomb' = SelectSeq(tomb, LAMBDA x : x # id) /\ late' = late + 1
    ELSE UNCHANGED <<tomb, late>>

\* The server answers; _dispatch, _resolve_response and _resolve_error take the
\* slot and resolve the future.  got is what its waiter will see.
Answer(id, got) ==
    /\ reader
    /\ proc = "alive"
    /\ id \in wire
    /\ wire' = wire \ {id}
    /\ IF id \in DOMAIN pending
       THEN /\ pending' = Without(pending, {id})
            /\ call' = [c \in Callers |-> IF call[c].pc = "waiting" /\ call[c].id = id
                                             /\ pending[id] = "open"
                                          THEN [call[c] EXCEPT !.pc = "resolved", !.got = got]
                                          ELSE call[c]]
            /\ UNCHANGED <<tomb, late>>
       ELSE Consumed(id) /\ UNCHANGED <<pending, call>>
    /\ UNCHANGED <<state, proc, reader, full, lastId, regs>>

\* The future is done and its waiter resumes.
Resume(c) ==
    /\ call[c].pc = "resolved"
    /\ call' = Ended(c, call[c].got)
    /\ UNCHANGED <<state, proc, reader, full, lastId, pending, wire, tomb, late, regs>>

\* _record_tombstone: the newest MAX_LATE_RESPONSE_TOMBSTONES stay (the time
\* to live of 60 seconds only forgets more of them).
Recorded(id) == LET s == Append(tomb, id) IN
    IF Len(s) > MaxTombstones THEN Tail(s) ELSE s

\* _abandon_request without its pop, a mutant: the slot stays.
TimeoutKeepsSlot(c) ==
    /\ call[c].pc \in {"waiting", "resolved"}
    /\ tomb' = IF call[c].id \in DOMAIN pending THEN Recorded(call[c].id) ELSE tomb
    /\ call' = Ended(c, "timeout")
    /\ UNCHANGED <<state, proc, reader, full, lastId, pending, wire, late, regs>>

\* _abandon_request takes the slot, records the tombstone and tells the server,
\* which is a write as well.
Abandoned(c, got) ==
    /\ IF call[c].id \in DOMAIN pending
       THEN /\ pending' = Without(pending, {call[c].id})
            /\ tomb' = Recorded(call[c].id)
            /\ call' = [call EXCEPT ![c].pc = "telling", ![c].got = got]
       ELSE call' = Ended(c, got) /\ UNCHANGED <<pending, tomb>>
    /\ UNCHANGED <<state, proc, reader, full, lastId, wire, late, regs>>

\* The time out, also one that fires between the answer and the resumption.
Timeout(c) ==
    /\ call[c].pc \in {"waiting", "resolved"}
    /\ Abandoned(c, "timeout")

\* The caller is cancelled, while the request is still written too; a second
\* cancellation would end the write that tells the server.
GivenUp(c) ==
    /\ call[c].pc \in {"writing", "waiting"}
    /\ Abandoned(c, "cancelled")

\* The server is told, or its process is gone and the caller gets that error.
Cancel(c) ==
    /\ call[c].pc = "telling"
    /\ ~full
    /\ call' = Ended(c, IF proc = "alive" THEN call[c].got ELSE "unavailable")
    /\ UNCHANGED <<state, proc, reader, full, lastId, pending, wire, tomb, late, regs>>

\* A caller that has its outcome makes another call.
Again(c) ==
    /\ call[c].pc = "done"
    /\ lastId < MaxRequests
    /\ call' = [call EXCEPT ![c] = Idle]
    /\ UNCHANGED <<state, proc, reader, full, lastId, pending, wire, tomb, late, regs>>

----------------------------------------------------------------------------
(* The end of the process.                                                 *)

\* The read loop meets the end of the stream: futures that are open get an
\* error; their waiters' except clause takes the slots.  Writes fail then.
StreamClosed ==
    /\ reader
    /\ proc = "alive"
    /\ proc' = "exited"
    /\ reader' = FALSE
    /\ full' = FALSE
    /\ wire' = {}
    /\ call' = [c \in Callers |-> IF call[c].pc \in {"writing", "waiting"} /\ call[c].id \in Futures
                                  THEN [call[c] EXCEPT !.pc = "failing", !.got = "unavailable"]
                                  ELSE call[c]]
    /\ pending' = [i \in DOMAIN pending |-> IF pending[i] = "open" THEN "error" ELSE pending[i]]
    /\ UNCHANGED <<state, lastId, tomb, late, regs>>

\* except BaseException in _request.
Fails(c) ==
    /\ call[c].pc = "failing"
    /\ pending' = Without(pending, {call[c].id})
    /\ call' = Ended(c, call[c].got)
    /\ UNCHANGED <<state, proc, reader, full, lastId, wire, tomb, late, regs>>

\* shutdown up to its first await: pending futures are cancelled, so that their
\* waiters end with a cancellation they did not ask for.
ShutdownBegins ==
    /\ state \in {"initializing", "initialized", "dead"}
    /\ state' = "shutting_down"
    /\ call' = [c \in Callers |-> IF call[c].pc = "waiting" /\ call[c].id \in Futures
                                  THEN [call[c] EXCEPT !.pc = "resolved", !.got = "cancelled"]
                                  ELSE IF call[c].pc = "starting"
                                  THEN [call[c] EXCEPT !.pc = "done", !.got = "cancelled"]
                                  ELSE call[c]]
    /\ pending' = <<>>
    /\ UNCHANGED <<proc, reader, full, lastId, wire, tomb, late, regs>>

\* The shutdown request, which only an initialized server gets, is written and
\* answered or times out, the process is terminated and reaped, the background
\* tasks are gathered and the tables cleared.
ShutdownEnds ==
    /\ state = "shutting_down"
    /\ state' = "dead"
    /\ Killed
    /\ wire' = {}
    /\ regs' = <<>>
    /\ tomb' = <<>>
    /\ UNCHANGED <<lastId, pending, call, late>>

----------------------------------------------------------------------------
(* Requests of the server.                                                 *)

\* _handle_register: all the registrations of a request or none of them.
Register(batch) ==
    /\ reader
    /\ LET ids == {batch[i].id : i \in DOMAIN batch} IN
       IF Cardinality(ids) # Len(batch) \/ ids \cap DOMAIN regs # {}
       THEN UNCHANGED regs
       ELSE regs' = [x \in DOMAIN regs \cup ids |->
                       IF x \in ids THEN (CHOOSE b \in ToSet(batch) : b.id = x).method
                       ELSE regs[x]]
    /\ UNCHANGED <<state, proc, reader, full, lastId, pending, wire, call, tomb, late>>

\* _handle_unregister: every id must be there with its method.  An id named
\* twice passes the check and fails in the loop that removes.
Unregister(batch) ==
    /\ reader
    /\ LET ids == {batch[i].id : i \in DOMAIN batch} IN
       IF \E i \in DOMAIN batch : \/ batch[i].id \notin DOMAIN regs
                                  \/ regs[batch[i].id] # batch[i].method
       THEN UNCHANGED regs
       ELSE regs' = Without(regs, ids)
    /\ UNCHANGED <<state, proc, reader, full, lastId, pending, wire, call, tomb, late>>

----------------------------------------------------------------------------
Entries == [id : Ids, method : Methods]
Batches == {<<a>> : a \in Entries} \cup {<<a, b>> : a \in Entries, b \in Entries}

\* What a request in progress goes on with.
Outstanding(c) ==
    \/ Written(c) \/ WriteFails(c) \/ Resume(c) \/ Timeout(c) \/ Cancel(c) \/ Fails(c)

Next ==
    \/ \E c \in Callers : Start(c) \/ Request(c) \/ Outstanding(c) \/ GivenUp(c) \/ Again(c)
    \/ \E id \in 1..MaxRequests, got \in {"result", "error", "timeout"} : Answer(id, got)
    \/ Initialized \/ InitializeFails \/ StreamClosed \/ ShutdownBegins \/ ShutdownEnds
    \/ \E b \in Batches : Register(b) \/ Unregister(b)
    \/ Fills

\* Timers fire and the loop runs what is ready, writes included when the pipe
\* has room; the server owes nothing, not even that it reads.
Fairness ==
    /\ \A c \in Callers : WF_vars(Outstanding(c))
    /\ WF_vars(InitializeFails)
    /\ WF_vars(~full /\ ShutdownEnds)

Spec == Init /\ [][Next]_vars
FairSpec == Spec /\ Fairness

----------------------------------------------------------------------------
\* A response slot is held only for a caller that still writes that very request
\* or waits for its answer: no path out of _request (result, error, time out,
\* failed write, cancellation, end of the stream, shutdown) leaves one behind.
SlotsAreOwned ==
    \A i \in DOMAIN pending :
        \E c \in Callers : call[c].id = i /\ call[c].pc \in {"writing", "waiting", "failing"}

\* The invariant that explains it: a slot is open while its caller writes the
\* request or waits for the answer, and holds the error of the stream until its
\* caller, which has been woken by that error, takes it away.
Calling == [pc : {"idle", "starting", "ready", "writing", "waiting", "telling", "resolved",
                  "failing", "done"},
            id : Nat,
            got : {"none", "result", "error", "timeout", "unavailable", "cancelled"}]
Owns(c, i) ==
    /\ call[c].id = i
    /\ call[c].pc \in IF pending[i] = "open" THEN {"writing", "waiting"} ELSE {"failing"}
SlotInv ==
    /\ lastId \in Nat
    /\ call \in [Callers -> Calling]
    /\ \A i \in DOMAIN pending : pending[i] \in {"open", "error"} /\ \E c \in Callers : Owns(c, i)

\* No caller waits for ever, whatever the server answers or leaves out, and
\* also when the process goes or the broker is shut down under it, unless the
\* server stops reading for good: no write has a time limit.
CallsEnd ==
    <>[]~full =>
        \A c \in Callers :
            call[c].pc \in {"starting", "writing", "waiting", "telling", "resolved", "failing"} ~>
                call[c].pc \in {"ready", "done"}
=============================================================================
