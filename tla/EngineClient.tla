---------------------------- MODULE EngineClient ----------------------------
(***************************************************************************)
(* The client of a long-lived JSONL worker (structural/engines.py,         *)
(* _JsonlWorkerClient): one request at a time under a lock.  A cancelled   *)
(* request leaves the process running with its answer still to come.       *)
(***************************************************************************)
EXTENDS Naturals, Sequences

CONSTANTS
    Askers,      \* coroutines that make requests
    MaxId        \* bound: requests and pings made

VARIABLES
    process,  \* _process: "none", "new" (not yet proven), "ready" or "exited"
    lastId,   \* _request_id
    inbox,    \* requests the worker has not answered
    outbox,   \* frames the worker has written and nobody has read
    owner,    \* holder of _lock
    ask       \* what each coroutine does: pc, id of its request, id it was given

vars == <<process, lastId, inbox, outbox, owner, ask>>

NoAsk == [pc |-> "idle", id |-> 0, got |-> 0]

Init ==
    /\ process = "none"
    /\ lastId = 0
    /\ inbox = <<>>
    /\ outbox = <<>>
    /\ owner = "none"
    /\ ask = [a \in Askers |-> NoAsk]

\* Frames written to and by a process go with it.
Gone ==
    /\ inbox' = <<>>
    /\ outbox' = <<>>

\* _roundtrip up to its read: the next id, and the frame is written.
Written(a, pc) ==
    /\ lastId < MaxId
    /\ lastId' = lastId + 1
    /\ ask' = [ask EXCEPT ![a] = [pc |-> pc, id |-> lastId + 1, got |-> 0]]

\* request with the lock; _ensure starts a process, whose first frames are its
\* greeting (0) and the answer to the ping.
Request(a) ==
    /\ ask[a].pc = "idle"
    /\ owner = "none"
    /\ owner' = a
    /\ IF process = "ready"
       THEN /\ Written(a, "reading")
            /\ inbox' = Append(inbox, lastId + 1)
            /\ UNCHANGED <<process, outbox>>
       ELSE /\ Written(a, "ping")
            /\ process' = "new"
            /\ inbox' = <<lastId + 1>>
            /\ outbox' = <<0>>

\* create_subprocess_exec fails.
StartFails(a) ==
    /\ ask[a].pc = "idle"
    /\ owner = "none"
    /\ process \notin {"new", "ready"}
    /\ process' = "none"
    /\ Gone
    /\ UNCHANGED <<lastId, owner, ask>>

\* The worker answers in order.
Work ==
    /\ process \in {"new", "ready"}
    /\ inbox # <<>>
    /\ outbox' = Append(outbox, Head(inbox))
    /\ inbox' = Tail(inbox)
    /\ UNCHANGED <<process, lastId, owner, ask>>

\* Mutant: the next frame is taken for the answer.
ReadAny(a) ==
    /\ ask[a].pc \in {"ping", "reading"}
    /\ outbox # <<>>
    /\ outbox' = Tail(outbox)
    /\ IF Head(outbox) = 0 THEN UNCHANGED <<process, owner, ask>>
       ELSE IF ask[a].pc = "ping"
       THEN process' = "ready" /\ ask' = [ask EXCEPT ![a].pc = "proven"] /\ UNCHANGED owner
       ELSE /\ ask' = [ask EXCEPT ![a].pc = "done", ![a].got = Head(outbox)]
            /\ owner' = "none"
            /\ UNCHANGED process
    /\ UNCHANGED <<lastId, inbox>>

\* _read_frame in the loop of _roundtrip: frames with another id are skipped,
\* the greeting too while the process is new.
Read(a) ==
    /\ ask[a].pc \in {"ping", "reading"}
    /\ outbox # <<>>
    /\ outbox' = Tail(outbox)
    /\ IF Head(outbox) # ask[a].id THEN UNCHANGED <<process, owner, ask>>
       ELSE IF ask[a].pc = "ping"
       THEN process' = "ready" /\ ask' = [ask EXCEPT ![a].pc = "proven"] /\ UNCHANGED owner
       ELSE /\ ask' = [ask EXCEPT ![a].pc = "done", ![a].got = Head(outbox)]
            /\ owner' = "none"
            /\ UNCHANGED process
    /\ UNCHANGED <<lastId, inbox>>

\* The process is proven: the request itself.
Go(a) ==
    /\ ask[a].pc = "proven"
    /\ Written(a, "reading")
    /\ inbox' = Append(inbox, lastId + 1)
    /\ UNCHANGED <<process, outbox, owner>>

\* The deadline, a broken pipe, a frame that is not one, or the wrong
\* identity: aclose kills and reaps the process.
Fails(a) ==
    /\ ask[a].pc \in {"ping", "reading"}
    /\ process' = "none"
    /\ Gone
    /\ owner' = "none"
    /\ ask' = [ask EXCEPT ![a] = [NoAsk EXCEPT !.pc = "done"]]
    /\ UNCHANGED lastId

\* The end of the stream while reading: the error leaves the process as it is
\* unless it was the ping that failed.
Eof(a) ==
    /\ ask[a].pc \in {"ping", "reading"}
    /\ process = "exited"
    /\ outbox = <<>>
    /\ process' = IF ask[a].pc = "ping" THEN "none" ELSE process
    /\ owner' = "none"
    /\ ask' = [ask EXCEPT ![a] = [NoAsk EXCEPT !.pc = "done"]]
    /\ UNCHANGED <<lastId, inbox, outbox>>

\* The caller is cancelled: in the ping the process goes, in a request it stays.
Cancel(a) ==
    /\ ask[a].pc \in {"ping", "reading"}
    /\ IF ask[a].pc = "ping" THEN process' = "none" /\ Gone
       ELSE UNCHANGED <<process, inbox, outbox>>
    /\ owner' = "none"
    /\ ask' = [ask EXCEPT ![a] = NoAsk]
    /\ UNCHANGED lastId

Forget(a) ==
    /\ ask[a].pc = "done"
    /\ ask' = [ask EXCEPT ![a] = NoAsk]
    /\ UNCHANGED <<process, lastId, inbox, outbox, owner>>

Exit ==
    /\ process \in {"new", "ready"}
    /\ process' = "exited"
    /\ inbox' = <<>>
    /\ UNCHANGED <<lastId, outbox, owner, ask>>

Next ==
    \/ \E a \in Askers : \/ Request(a) \/ StartFails(a) \/ Read(a) \/ Go(a) \/ Fails(a) \/ Eof(a)
                         \/ Cancel(a) \/ Forget(a)
    \/ Work \/ Exit

Spec == Init /\ [][Next]_vars

----------------------------------------------------------------------------
\* A caller is given the answer to its own request, although a cancelled one
\* leaves its answer on the stream of the process that the next one reads.
AnswerIsMine == \A a \in Askers : ask[a].got \in {0, ask[a].id}

\* What the coroutines do has its shape.
Asks == [pc : {"idle", "ping", "proven", "reading", "done"}, id : Nat, got : Nat]
TypeOK == lastId \in Nat /\ ask \in [Askers -> Asks]

AskInv == TypeOK /\ AnswerIsMine
=============================================================================
