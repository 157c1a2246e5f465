---------------------------- MODULE EditingProofs ----------------------------
(***************************************************************************)
(* Theorems about the machines of MCEditing: the response slots of a       *)
(* language server broker, the sessions of the session manager, and the    *)
(* application of previews.                                                *)
(***************************************************************************)
EXTENDS MCEditing, SequenceTheorems, TLAPS

----------------------------------------------------------------------------
(* Response slots (lsp/broker.py).                                         *)

BrokerVars == <<state, proc, reader, full, lastId, pending, wire, call, tomb, late, regs>>

\* At the start no request was made.
LEMMA SlotsStart == B!Init => B!SlotInv
BY DEF B!Init, B!SlotInv, B!Idle, B!Calling

\* A step that moves callers that hold no slot and touches no slot.
LEMMA SlotsKeep ==
    ASSUME B!SlotInv, lastId' = lastId, pending' = pending,
           call' \in [Callers -> B!Calling],
           \A c \in Callers :
              call[c].pc \in {"writing", "waiting", "failing"} => call'[c] = call[c]
    PROVE  B!SlotInv'
<1> SUFFICES ASSUME NEW i \in DOMAIN pending PROVE \E c \in Callers : B!Owns(c, i)'
    BY DEF B!SlotInv
<1> PICK c \in Callers : B!Owns(c, i)
    BY DEF B!SlotInv
<1> QED
    BY DEF B!Owns

\* A caller that starts the broker holds no slot.
LEMMA SlotsAtStart ==
    ASSUME B!SlotInv, NEW c \in Callers, B!Start(c)
    PROVE  B!SlotInv'
<1>1. lastId' = lastId /\ pending' = pending /\ call \in [Callers -> B!Calling] /\ call[c].pc = "idle"
    BY DEF B!Start, B!SlotInv
<1>2. call[c].id \in Nat
    BY <1>1 DEF B!Calling
<1>3. \/ call' = [call EXCEPT ![c].pc = "ready"]
      \/ call' = [call EXCEPT ![c].pc = "starting"]
      \/ call' = [call EXCEPT ![c] = [pc |-> "done", id |-> call[c].id, got |-> "unavailable"]]
      \/ call' = [call EXCEPT ![c] = [pc |-> "done", id |-> call[c].id, got |-> "error"]]
    BY DEF B!Start, B!Spawned, B!Ended
<1>4. call' \in [Callers -> B!Calling] /\ \A d \in Callers \ {c} : call'[d] = call[d]
    BY <1>1, <1>2, <1>3 DEF B!Calling
<1> QED
    BY <1>1, <1>4, SlotsKeep

\* The start succeeds or fails for the callers that await it.
LEMMA SlotsInitialized ==
    ASSUME B!SlotInv, B!Initialized \/ B!InitializeFails
    PROVE  B!SlotInv'
<1>1. lastId' = lastId /\ pending' = pending /\ call \in [Callers -> B!Calling]
    BY DEF B!Initialized, B!InitializeFails, B!SlotInv
<1>2. \A r \in B!Calling : /\ [r EXCEPT !.pc = "ready"] \in B!Calling
                            /\ [r EXCEPT !.pc = "done", !.got = "error"] \in B!Calling
    BY DEF B!Calling
<1>3. call' \in [Callers -> B!Calling]
    BY <1>1, <1>2 DEF B!Initialized, B!InitializeFails
<1>4. \A c \in Callers :
         call[c].pc \in {"writing", "waiting", "failing"} => call'[c] = call[c]
    BY DEF B!Initialized, B!InitializeFails
<1> QED
    BY <1>1, <1>3, <1>4, SlotsKeep

\* A request gets a slot of its own.
LEMMA SlotsRequest ==
    ASSUME B!SlotInv, NEW c \in Callers, B!Request(c)
    PROVE  B!SlotInv'
<1>1. call \in [Callers -> B!Calling] /\ lastId \in Nat /\ call[c].pc = "ready"
      /\ call[c].id \in Nat
    BY DEF B!Request, B!SlotInv, B!Calling
<1>2. CASE state # "initialized" \/ proc = "none"
  <2>1. /\ lastId' = lastId /\ pending' = pending
        /\ call' = [call EXCEPT ![c] = [pc |-> "done", id |-> call[c].id, got |-> "error"]]
    BY <1>2 DEF B!Request, B!Ended
  <2>2. call' \in [Callers -> B!Calling] /\ \A d \in Callers \ {c} : call'[d] = call[d]
    BY <1>1, <2>1 DEF B!Calling
  <2> QED
    BY <1>1, <2>1, <2>2, SlotsKeep
<1>3. CASE ~(state # "initialized" \/ proc = "none")
  <2> DEFINE n == lastId + 1
  <2>1. /\ lastId' = n
        /\ pending' = [i \in DOMAIN pending \cup {n} |-> IF i = n THEN "open" ELSE pending[i]]
        /\ call' = [call EXCEPT ![c] = [pc |-> "writing", id |-> n, got |-> "none"]]
    BY <1>3 DEF B!Request, B!With
  <2>2. n \in Nat
    BY <1>1
  <2> HIDE DEF n
  <2>3. /\ call' \in [Callers -> B!Calling]
        /\ call'[c] = [pc |-> "writing", id |-> n, got |-> "none"]
        /\ \A d \in Callers \ {c} : call'[d] = call[d]
    BY <1>1, <2>1, <2>2 DEF B!Calling
  <2>4. /\ DOMAIN pending' = DOMAIN pending \cup {n} /\ pending'[n] = "open"
        /\ \A i \in DOMAIN pending \ {n} : pending'[i] = pending[i]
    BY <2>1
  <2>5. ASSUME NEW i \in DOMAIN pending'
        PROVE  pending'[i] \in {"open", "error"} /\ \E d \in Callers : B!Owns(d, i)'
    <3>1. CASE i = n
      BY <3>1, <2>3, <2>4 DEF B!Owns
    <3>2. CASE i # n
      <4>1. i \in DOMAIN pending /\ pending'[i] = pending[i] /\ pending[i] \in {"open", "error"}
        BY <3>2, <2>4 DEF B!SlotInv
      <4>2. PICK d \in Callers : B!Owns(d, i)
        BY <4>1 DEF B!SlotInv
      <4>3. d # c
        BY <4>2, <1>1 DEF B!Owns
      <4> QED
        BY <4>1, <4>2, <4>3, <2>3 DEF B!Owns
    <3> QED
      BY <3>1, <3>2
  <2> QED
    BY <2>1, <2>2, <2>3, <2>5 DEF B!SlotInv
<1> QED
    BY <1>2, <1>3

\* A caller that goes on without the slot it had, if it had one.
LEMMA SlotsEnd ==
    ASSUME B!SlotInv, NEW c \in Callers, NEW r \in B!Calling,
           call' = [call EXCEPT ![c] = r],
           lastId' = lastId,
           DOMAIN pending' \subseteq DOMAIN pending,
           \A i \in DOMAIN pending' : pending'[i] = pending[i],
           call[c].pc \in {"writing", "waiting", "failing"} => call[c].id \notin DOMAIN pending'
    PROVE  B!SlotInv'
<1>1. call \in [Callers -> B!Calling] /\ lastId \in Nat
    BY DEF B!SlotInv
<1>2. call' \in [Callers -> B!Calling] /\ \A d \in Callers \ {c} : call'[d] = call[d]
    BY <1>1
<1>3. ASSUME NEW i \in DOMAIN pending'
      PROVE  pending'[i] \in {"open", "error"} /\ \E d \in Callers : B!Owns(d, i)'
  <2>1. PICK d \in Callers : B!Owns(d, i)
    BY DEF B!SlotInv
  <2>2. d # c
    BY <2>1 DEF B!Owns
  <2> QED
    BY <2>1, <2>2, <1>2 DEF B!Owns, B!SlotInv
<1> QED
    BY <1>1, <1>2, <1>3 DEF B!SlotInv

\* A call that comes to its end or tells the server that it gives up.
LEMMA CallEnds ==
    ASSUME NEW r \in B!Calling,
           NEW got \in {"none", "result", "error", "timeout", "unavailable", "cancelled"}
    PROVE  /\ [pc |-> "done", id |-> r.id, got |-> got] \in B!Calling
           /\ [r EXCEPT !.pc = "telling", !.got = got] \in B!Calling
           /\ r.got \in {"none", "result", "error", "timeout", "unavailable", "cancelled"}
BY DEF B!Calling

\* The time out, the failed write, the error of the stream, and the answer.
LEMMA SlotsLeave ==
    ASSUME B!SlotInv, NEW c \in Callers,
           \/ B!Timeout(c) \/ B!GivenUp(c)
           \/ B!WriteFails(c) \/ B!Fails(c) \/ B!Cancel(c) \/ B!Resume(c)
    PROVE  B!SlotInv'
<1>1. call[c] \in B!Calling /\ lastId' = lastId
    BY DEF B!SlotInv, B!Timeout, B!GivenUp, B!Abandoned, B!WriteFails, B!Fails, B!Cancel, B!Resume
<1>2. \E r \in B!Calling : call' = [call EXCEPT ![c] = r]
  <2> DEFINE Outcomes == {"none", "result", "error", "timeout", "unavailable", "cancelled"}
             Done(got) == [pc |-> "done", id |-> call[c].id, got |-> got]
             Telling(got) == [call[c] EXCEPT !.pc = "telling", !.got = got]
  <2>1. \E got \in Outcomes : \/ call' = [call EXCEPT ![c] = Done(got)]
                              \/ call' = [call EXCEPT ![c] = Telling(got)]
    <3>1. call[c].got \in Outcomes
      BY <1>1, CallEnds
    <3> QED
      BY <3>1 DEF B!Timeout, B!GivenUp, B!Abandoned, B!WriteFails, B!Fails, B!Cancel, B!Resume,
                  B!Ended
  <2>2. \A got \in Outcomes : Telling(got) \in B!Calling /\ Done(got) \in B!Calling
    BY <1>1, CallEnds
  <2> QED
    BY <2>1, <2>2
<1>3. /\ DOMAIN pending' \subseteq DOMAIN pending
      /\ \A i \in DOMAIN pending' : pending'[i] = pending[i]
      /\ call[c].pc \in {"writing", "waiting", "failing"} => call[c].id \notin DOMAIN pending'
  <2>1. CASE B!Timeout(c) \/ B!GivenUp(c)
    <3>1. pending' = IF call[c].id \in DOMAIN pending THEN B!Without(pending, {call[c].id})
                     ELSE pending
      BY <2>1 DEF B!Timeout, B!GivenUp, B!Abandoned
    <3> QED
      BY <3>1 DEF B!Without
  <2>2. CASE B!WriteFails(c) \/ B!Fails(c)
    <3>1. pending' = B!Without(pending, {call[c].id})
      BY <2>2 DEF B!WriteFails, B!Fails
    <3> QED
      BY <3>1 DEF B!Without
  <2>3. CASE B!Cancel(c) \/ B!Resume(c)
    BY <2>3 DEF B!Cancel, B!Resume
  <2> QED
    BY <2>1, <2>2, <2>3
<1> QED
    BY <1>1, <1>2, <1>3, SlotsEnd

\* The write returns: its caller waits, or finds that its slot was taken.
LEMMA SlotsWritten ==
    ASSUME B!SlotInv, NEW c \in Callers, B!Written(c)
    PROVE  B!SlotInv'
<1>1. /\ lastId' = lastId /\ pending' = pending /\ lastId \in Nat
      /\ call \in [Callers -> B!Calling] /\ call[c] \in B!Calling /\ call[c].pc = "writing"
    BY DEF B!Written, B!SlotInv
<1>2. CASE call[c].id \notin DOMAIN pending
  <2> DEFINE r == [call[c] EXCEPT !.pc = "resolved", !.got = "cancelled"]
  <2>1. r \in B!Calling
    BY <1>1 DEF B!Calling
  <2>2. call' = [call EXCEPT ![c] = r]
    BY <1>2 DEF B!Written
  <2> HIDE DEF r
  <2> QED
    BY <1>1, <1>2, <2>1, <2>2, SlotsEnd
<1>3. CASE call[c].id \in DOMAIN pending
  <2> DEFINE r == [call[c] EXCEPT !.pc = "waiting"]
  <2>1. r \in B!Calling /\ r.pc = "waiting" /\ r.id = call[c].id
    BY <1>1 DEF B!Calling
  <2>2. call' = [call EXCEPT ![c] = r]
    BY <1>3 DEF B!Written
  <2> HIDE DEF r
  <2>3. /\ call' \in [Callers -> B!Calling] /\ call'[c] = r
        /\ \A d \in Callers \ {c} : call'[d] = call[d]
    BY <1>1, <2>1, <2>2
  <2>4. ASSUME NEW i \in DOMAIN pending
        PROVE  pending[i] \in {"open", "error"} /\ \E d \in Callers : B!Owns(d, i)'
    <3>1. PICK d \in Callers : B!Owns(d, i)
      BY DEF B!SlotInv
    <3>2. B!Owns(d, i)'
      BY <1>1, <2>1, <2>3, <3>1 DEF B!Owns
    <3> QED
      BY <3>2 DEF B!SlotInv
  <2> QED
    BY <1>1, <2>3, <2>4 DEF B!SlotInv
<1> QED
    BY <1>2, <1>3

\* A caller that has its outcome makes another call.
LEMMA SlotsAgain ==
    ASSUME B!SlotInv, NEW c \in Callers, B!Again(c)
    PROVE  B!SlotInv'
<1>1. /\ call[c].pc = "done" /\ call' = [call EXCEPT ![c] = B!Idle]
      /\ lastId' = lastId /\ pending' = pending /\ call \in [Callers -> B!Calling]
    BY DEF B!Again, B!SlotInv
<1>2. call' \in [Callers -> B!Calling] /\ \A d \in Callers \ {c} : call'[d] = call[d]
    BY <1>1 DEF B!Calling, B!Idle
<1> QED
    BY <1>1, <1>2, SlotsKeep

\* An answer takes the slot of its request, and a waiting caller of that
\* request is resolved; an answer without a slot touches none.
LEMMA SlotsAnswer ==
    ASSUME B!SlotInv, NEW id, NEW got \in {"result", "error", "timeout"}, B!Answer(id, got)
    PROVE  B!SlotInv'
<1>1. lastId' = lastId /\ call \in [Callers -> B!Calling] /\ lastId \in Nat
    BY DEF B!Answer, B!SlotInv
<1>2. CASE id \notin DOMAIN pending
  <2>1. pending' = pending /\ call' = call
    BY <1>2 DEF B!Answer
  <2> QED
    BY <1>1, <2>1, SlotsKeep
<1>3. CASE id \in DOMAIN pending
  <2>1. /\ pending' = B!Without(pending, {id})
        /\ call' = [c \in Callers |-> IF call[c].pc = "waiting" /\ call[c].id = id
                                         /\ pending[id] = "open"
                                      THEN [call[c] EXCEPT !.pc = "resolved", !.got = got]
                                      ELSE call[c]]
    BY <1>3 DEF B!Answer
  <2>2. \A r \in B!Calling : [r EXCEPT !.pc = "resolved", !.got = got] \in B!Calling
    BY DEF B!Calling
  <2>3. /\ call' \in [Callers -> B!Calling]
        /\ \A c \in Callers : call[c].id # id => call'[c] = call[c]
    BY <1>1, <2>1, <2>2
  <2>4. DOMAIN pending' = DOMAIN pending \ {id} /\ \A i \in DOMAIN pending' : pending'[i] = pending[i]
    BY <2>1 DEF B!Without
  <2>5. ASSUME NEW i \in DOMAIN pending'
        PROVE  pending'[i] \in {"open", "error"} /\ \E d \in Callers : B!Owns(d, i)'
    <3>1. PICK d \in Callers : B!Owns(d, i)
      BY <2>4 DEF B!SlotInv
    <3> QED
      BY <3>1, <2>3, <2>4 DEF B!Owns, B!SlotInv
  <2> QED
    BY <1>1, <2>3, <2>5 DEF B!SlotInv
<1> QED
    BY <1>2, <1>3

\* The end of the stream wakes the owner of every open slot with an error.
LEMMA SlotsStreamClosed ==
    ASSUME B!SlotInv, B!StreamClosed
    PROVE  B!SlotInv'
<1>1. /\ lastId' = lastId /\ call \in [Callers -> B!Calling] /\ lastId \in Nat
      /\ call' = [c \in Callers |-> IF call[c].pc \in {"writing", "waiting"}
                                       /\ call[c].id \in B!Futures
                                    THEN [call[c] EXCEPT !.pc = "failing", !.got = "unavailable"]
                                    ELSE call[c]]
      /\ pending' = [i \in DOMAIN pending |-> IF pending[i] = "open" THEN "error" ELSE pending[i]]
    BY DEF B!StreamClosed, B!SlotInv
<1>2. \A r \in B!Calling :
         LET e == [r EXCEPT !.pc = "failing", !.got = "unavailable"] IN
         e \in B!Calling /\ e.pc = "failing" /\ e.id = r.id
    BY DEF B!Calling
<1>3. call' \in [Callers -> B!Calling]
    BY <1>1, <1>2
<1>4. ASSUME NEW i \in DOMAIN pending'
      PROVE  pending'[i] \in {"open", "error"} /\ \E d \in Callers : B!Owns(d, i)'
  <2>1. i \in DOMAIN pending /\ pending[i] \in {"open", "error"} /\ pending'[i] = "error"
    BY <1>1 DEF B!SlotInv
  <2>2. PICK d \in Callers : B!Owns(d, i)
    BY <2>1 DEF B!SlotInv
  <2>3. CASE pending[i] = "open"
    <3>1. call[d].id = i /\ call[d].pc \in {"writing", "waiting"} /\ call[d].id \in B!Futures
      BY <2>1, <2>2, <2>3 DEF B!Owns, B!Futures
    <3>2. call'[d].pc = "failing" /\ call'[d].id = i
      BY <1>1, <1>2, <3>1
    <3> QED
      BY <2>1, <3>2 DEF B!Owns
  <2>4. CASE pending[i] # "open"
    <3>1. call[d].id = i /\ call[d].pc = "failing"
      BY <2>2, <2>4 DEF B!Owns
    <3>2. call'[d] = call[d]
      BY <1>1, <3>1
    <3> QED
      BY <2>1, <3>1, <3>2 DEF B!Owns
  <2> QED
    BY <2>3, <2>4
<1> QED
    BY <1>1, <1>3, <1>4 DEF B!SlotInv

\* A shutdown leaves no slot.
LEMMA SlotsShutdown ==
    ASSUME B!SlotInv, B!ShutdownBegins
    PROVE  B!SlotInv'
<1>1. /\ lastId' = lastId /\ call \in [Callers -> B!Calling] /\ lastId \in Nat
      /\ DOMAIN pending' = {}
  <2>1. pending' = << >>
    BY DEF B!ShutdownBegins
  <2>2. DOMAIN << >> = {}
    OBVIOUS
  <2> QED
    BY <2>1, <2>2 DEF B!ShutdownBegins, B!SlotInv
<1>2. \A r \in B!Calling : /\ [r EXCEPT !.pc = "resolved", !.got = "cancelled"] \in B!Calling
                            /\ [r EXCEPT !.pc = "done", !.got = "cancelled"] \in B!Calling
    BY DEF B!Calling
<1>3. call' \in [Callers -> B!Calling]
    BY <1>1, <1>2 DEF B!ShutdownBegins
<1> QED
    BY <1>1, <1>3 DEF B!SlotInv

\* Every step of a broker keeps its invariant.
LEMMA SlotsStep ==
    ASSUME B!SlotInv, B!Next \/ UNCHANGED BrokerVars
    PROVE  B!SlotInv'
<1>1. ASSUME NEW c \in Callers,
             B!Start(c) \/ B!Request(c) \/ B!Outstanding(c) \/ B!GivenUp(c) \/ B!Again(c)
      PROVE  B!SlotInv'
    BY <1>1, SlotsAtStart, SlotsRequest, SlotsWritten, SlotsLeave, SlotsAgain DEF B!Outstanding
<1>2. ASSUME NEW id \in 1..MaxRequests, NEW got \in {"result", "error", "timeout"}, B!Answer(id, got)
      PROVE  B!SlotInv'
    BY <1>2, SlotsAnswer
<1>3. CASE B!Initialized \/ B!InitializeFails \/ B!StreamClosed \/ B!ShutdownBegins
    BY <1>3, SlotsInitialized, SlotsStreamClosed, SlotsShutdown
<1>4. ASSUME lastId' = lastId, pending' = pending, call' = call
      PROVE  B!SlotInv'
    BY <1>4, SlotsKeep DEF B!SlotInv
<1>5. CASE B!ShutdownEnds \/ B!Fills \/ UNCHANGED BrokerVars
    BY <1>4, <1>5 DEF B!ShutdownEnds, B!Fills, BrokerVars
<1>6. ASSUME NEW b \in B!Batches, B!Register(b) \/ B!Unregister(b)
      PROVE  B!SlotInv'
    BY <1>4, <1>6 DEF B!Register, B!Unregister
<1> QED
    BY <1>1, <1>2, <1>3, <1>5, <1>6 DEF B!Next

\* LspBroker._pending: a response slot is held only for a caller that still
\* writes that very request or waits for its answer, or that was woken by the
\* end of the stream and takes it away.
THEOREM SlotsHaveOwners == Spec => []SlotsAreOwned
<1>1. Init => B!SlotInv
    BY SlotsStart DEF Init
<1>2. B!SlotInv /\ [Next]_vars => B!SlotInv'
  <2> SUFFICES ASSUME B!SlotInv, [Next]_vars
               PROVE  B!Next \/ UNCHANGED BrokerVars
      BY SlotsStep
  <2> QED
      BY DEF Next, BrokerRuns, SessionsRun, EditorRuns, vars, brokerVars, BrokerVars
<1>3. B!SlotInv => SlotsAreOwned
    BY DEF B!SlotInv, B!Owns, SlotsAreOwned, B!SlotsAreOwned
<1> QED
    BY <1>1, <1>2, <1>3, PTL DEF Spec

----------------------------------------------------------------------------
(* Sessions (lsp/sessions.py).                                             *)

SessionVars == <<disk, config, epochs, record, lock, alive, left, stalled, task, count>>

\* At the start there is no session, no process and no call.
LEMMA SessionsStart == S!Init => S!SessionInv
<1> SUFFICES ASSUME S!Init PROVE S!SessionInv
    OBVIOUS
<1>1. /\ disk \in S!Bundles /\ config \in Keys
      /\ lock = [k \in Keys |-> None] /\ record = [k \in Keys |-> None]
      /\ epochs = [k \in Keys |-> 0] /\ alive = {} /\ left = {} /\ stalled = {}
    BY EditingAssumption DEF S!Init, S!Bundles
<1>2. /\ task = [t \in Tasks |-> S!IdleTask]
      /\ S!IdleTask \in S!Calls /\ S!IdleTask.pc = "idle"
    BY DEF S!Init, S!IdleTask, S!Calls
<1>3. S!TypeOK
    BY <1>1, <1>2 DEF S!TypeOK
<1>4. \A k \in Keys : S!KeyInv(k)
    BY <1>1, EditingAssumption DEF S!KeyInv, S!Closer, S!Processes, S!Own
<1>5. \A t \in Tasks : S!TaskInv(t)
    BY <1>2 DEF S!TaskInv, S!Holding
<1>6. \A j, k \in Keys : lock[j] \notin Tasks
    BY <1>1, EditingAssumption
<1> QED
    BY <1>3, <1>4, <1>5, <1>6 DEF S!SessionInv

\* Another call, or the restart tool, has no business with a key.
Untouched(k) ==
    /\ lock'[k] = lock[k] /\ record'[k] = record[k] /\ epochs'[k] = epochs[k]
    /\ S!Processes(k)' = S!Processes(k) /\ S!Own(k)' = S!Own(k)

\* A call that is left alone, or one that a shutdown cancels while it waits.
Spared(u) == task'[u] = task[u] \/ (task[u].pc = "wait" /\ task'[u] = S!IdleTask)

\* A step of who on the key k, whose lock is free or who's own.
LEMMA SessionsOneKey ==
    ASSUME S!SessionInv, S!TypeOK', NEW k \in Keys, NEW who \in Tasks \cup {Admin},
           lock[k] \in {None, who}, lock'[k] \in {None, who},
           \A j \in Keys \ {k} : Untouched(j) /\ (who \in Tasks => lock[j] # who),
           \A u \in Tasks \ {who} : Spared(u),
           S!KeyInv(k)', who \in Tasks => S!TaskInv(who)'
    PROVE  S!SessionInv'
<1>0. who # None /\ None \notin Tasks /\ Admin \notin Tasks
    BY EditingAssumption
<1>1. ASSUME NEW j \in Keys \ {k} PROVE S!KeyInv(j)'
  <2>1. Untouched(j) /\ S!KeyInv(j) /\ (who \in Tasks => lock[j] # who)
    BY DEF S!SessionInv
  <2>2. ASSUME lock[j] \in Tasks
        PROVE  task'[lock[j]] = task[lock[j]]
    <3>1. Spared(lock[j])
      BY <1>0, <2>1, <2>2
    <3>2. task[lock[j]].pc # "wait"
      BY <2>1, <2>2 DEF S!KeyInv, S!Holding
    <3> QED
      BY <3>1, <3>2 DEF Spared
  <2>3. S!Closer(j)' <=> S!Closer(j)
    BY <2>1, <2>2 DEF S!Closer, Untouched
  <2> QED
    BY <2>1, <2>2, <2>3 DEF S!KeyInv, Untouched
<1>2. ASSUME NEW u \in Tasks \ {who} PROVE S!TaskInv(u)'
  <2>1. S!TaskInv(u) /\ Spared(u)
    BY DEF S!SessionInv
  <2>2. CASE task'[u] = S!IdleTask
    BY <2>2 DEF S!TaskInv, S!IdleTask, S!Holding
  <2>3. CASE task'[u] = task[u]
    <3>1. CASE task[u].pc \in S!Holding
      <4>1. task[u].key \in Keys /\ lock[task[u].key] = u
        BY <3>1, <2>1 DEF S!TaskInv, S!Holding
      <4>2. task[u].key # k
        BY <4>1, <1>0
      <4>3. Untouched(task[u].key)
        BY <4>1, <4>2
      <4> QED
        BY <2>1, <2>3, <4>3 DEF S!TaskInv, Untouched
    <3>2. CASE task[u].pc \notin S!Holding
      BY <2>1, <2>3, <3>2 DEF S!TaskInv, S!Holding
    <3> QED
      BY <3>1, <3>2
  <2> QED
    BY <2>1, <2>2, <2>3 DEF Spared
<1>3. ASSUME NEW i \in Keys, NEW j \in Keys, lock'[i] \in Tasks, lock'[i] = lock'[j]
      PROVE  i = j
  <2>1. CASE i # k /\ j # k
    BY <1>3, <2>1 DEF Untouched, S!SessionInv
  <2>2. CASE i = k /\ j # k
    BY <1>0, <1>3, <2>2 DEF Untouched
  <2>3. CASE j = k /\ i # k
    BY <1>0, <1>3, <2>3 DEF Untouched
  <2> QED
    BY <2>1, <2>2, <2>3
<1>4. \A i \in Keys : S!KeyInv(i)'
    BY <1>1
<1>5. \A u \in Tasks : S!TaskInv(u)'
    BY <1>2
<1> QED
    BY <1>3, <1>4, <1>5 DEF S!SessionInv

\* A call that holds no lock before a step and none after it moves on; keys
\* and sessions are left alone.
LEMMA SessionsNoKey ==
    ASSUME S!SessionInv, S!TypeOK', NEW t \in Tasks,
           lock' = lock, record' = record, epochs' = epochs, alive' = alive, left' = left,
           \A u \in Tasks \ {t} : task'[u] = task[u],
           task[t].pc \notin S!Holding \cup {"retiring"}, task'[t].pc \notin S!Holding,
           S!TaskInv(t)'
    PROVE  S!SessionInv'
<1>1. ASSUME NEW j \in Keys PROVE S!KeyInv(j)'
  <2>1. S!KeyInv(j)
    BY DEF S!SessionInv
  <2>2. lock[j] \in Tasks => lock[j] # t
    BY <2>1 DEF S!KeyInv
  <2>3. S!Closer(j)' <=> S!Closer(j)
    BY <2>2 DEF S!Closer
  <2>4. S!Processes(j)' = S!Processes(j) /\ S!Own(j)' = S!Own(j)
    BY DEF S!Processes, S!Own
  <2> QED
    BY <2>1, <2>2, <2>3, <2>4 DEF S!KeyInv
<1>2. ASSUME NEW u \in Tasks \ {t} PROVE S!TaskInv(u)'
    BY DEF S!TaskInv, S!SessionInv
<1>4. \A i \in Keys : S!KeyInv(i)'
    BY <1>1
<1>5. \A u \in Tasks : S!TaskInv(u)'
    BY <1>2
<1> QED
    BY <1>4, <1>5 DEF S!SessionInv

\* A call goes on to r without a lock before or after.
LEMMA SessionsMovesOn ==
    ASSUME S!SessionInv, NEW t \in Tasks, NEW r \in S!Calls,
           task' = [task EXCEPT ![t] = r],
           UNCHANGED <<disk, config, epochs, record, lock, alive, left, stalled>>,
           task[t].pc \notin S!Holding \cup {"retiring"}, r.pc \notin S!Holding,
           r.pc # "idle" => r.file \in SessionFiles /\ r.key \in Keys /\ r.bundle \in S!Bundles
    PROVE  S!SessionInv'
<1>1. task \in [Tasks -> S!Calls] /\ S!TypeOK
    BY DEF S!SessionInv, S!TypeOK
<1>2. task' \in [Tasks -> S!Calls] /\ task'[t] = r /\ \A u \in Tasks \ {t} : task'[u] = task[u]
    BY <1>1
<1>3. S!TypeOK'
    BY <1>1, <1>2 DEF S!TypeOK
<1>4. S!TaskInv(t)'
    BY <1>2 DEF S!TaskInv, S!Holding
<1> QED
    BY <1>2, <1>3, <1>4, SessionsNoKey

\* A step that changes the files, the configuration, the counts or who reads.
LEMMA SessionsOutside ==
    ASSUME S!SessionInv, disk' \in S!Bundles, config' \in Keys, stalled' \subseteq alive,
           UNCHANGED <<epochs, record, lock, alive, left, task>>
    PROVE  S!SessionInv'
BY DEF S!SessionInv, S!TypeOK, S!KeyInv, S!TaskInv, S!Closer, S!Processes, S!Own

\* A process that was left behind exits.
LEMMA SessionsLeftExits ==
    ASSUME S!SessionInv, NEW p, S!LeftExits(p)
    PROVE  S!SessionInv'
<1>1. /\ p \in left /\ alive' = alive \ {p} /\ left' = left \ {p} /\ stalled' = stalled \ {p}
      /\ UNCHANGED <<disk, config, epochs, record, lock, task>>
    BY DEF S!LeftExits
<1>2. S!TypeOK'
    BY <1>1 DEF S!SessionInv, S!TypeOK
<1>3. \A k \in Keys : S!Own(k)' = S!Own(k) /\ S!Processes(k)' \subseteq S!Processes(k)
    BY <1>1 DEF S!Own, S!Processes
<1>4. \A k \in Keys : S!Closer(k)' <=> S!Closer(k)
    BY <1>1 DEF S!Closer
<1>5. \A k \in Keys : S!KeyInv(k)'
    BY <1>1, <1>3, <1>4 DEF S!SessionInv, S!KeyInv
<1>6. \A t \in Tasks : S!TaskInv(t)'
    BY <1>1 DEF S!SessionInv, S!TaskInv
<1> QED
    BY <1>1, <1>2, <1>5, <1>6 DEF S!SessionInv

\* The fields of a call, one at a time.
LEMMA CallFields ==
    ASSUME NEW r \in S!Calls
    PROVE  /\ r.pc \in S!Holding \cup {"idle", "retire", "retiring", "again", "send", "wait",
                                       "answered", "done", "error"}
           /\ r.file \in SessionFiles \cup {None} /\ r.key \in Keys \cup {None}
           /\ r.bundle \in S!Bundles \cup {None} /\ r.epoch \in Nat /\ r.todo \subseteq Keys
           /\ \A pc \in S!Holding \cup {"idle", "retire", "retiring", "again", "send", "wait",
                                        "answered", "done", "error"} :
                 LET e == [r EXCEPT !.pc = pc] IN
                 /\ e \in S!Calls /\ e.pc = pc
                 /\ e.file = r.file /\ e.key = r.key /\ e.bundle = r.bundle /\ e.epoch = r.epoch
BY DEF S!Calls

\* A call that makes its second attempt.
Second(r) == [r EXCEPT !.pc = "again", !.attempt = 2]
Retried(r, n, todo) == [r EXCEPT !.pc = "retire", !.epoch = n, !.todo = todo]

LEMMA CallSecond ==
    ASSUME NEW r \in S!Calls
    PROVE  /\ Second(r) \in S!Calls /\ Second(r).pc = "again"
           /\ Second(r).file = r.file /\ Second(r).key = r.key /\ Second(r).bundle = r.bundle
BY DEF S!Calls, Second

LEMMA CallRetried ==
    ASSUME NEW r \in S!Calls, NEW n \in Nat, NEW todo \in SUBSET Keys
    PROVE  /\ Retried(r, n, todo) \in S!Calls /\ Retried(r, n, todo).pc = "retire"
           /\ Retried(r, n, todo).file = r.file /\ Retried(r, n, todo).key = r.key
           /\ Retried(r, n, todo).bundle = r.bundle
BY DEF S!Calls, Retried

\* The call of a restart, and the second attempt or the end of a call.
LEMMA CallIdle == S!IdleTask \in S!Calls /\ S!IdleTask.pc = "idle"
BY DEF S!IdleTask, S!Calls

LEMMA CallNextAttempt ==
    ASSUME S!SessionInv, NEW t \in Tasks, task[t].pc # "idle",
           NEW r, r = S!NextAttempt(t)
    PROVE  /\ r \in S!Calls /\ r.pc \in {"idle", "again"}
           /\ r.pc # "idle" => r.file \in SessionFiles /\ r.key \in Keys /\ r.bundle \in S!Bundles
<1>1. /\ task[t] \in S!Calls
      /\ task[t].file \in SessionFiles /\ task[t].key \in Keys /\ task[t].bundle \in S!Bundles
    BY DEF S!SessionInv, S!TypeOK, S!TaskInv
<1>2. CASE task[t].attempt = 2
    BY <1>2, CallIdle DEF S!NextAttempt
<1>3. CASE task[t].attempt # 2
  <2>1. r = Second(task[t])
    BY <1>3 DEF S!NextAttempt, Second
  <2> QED
    BY <1>1, <2>1, CallSecond
<1> QED
    BY <1>2, <1>3

\* The second attempt has the epoch and the superseded sessions of its moment.
LEMMA SessionsRetry ==
    ASSUME S!SessionInv, NEW t \in Tasks, S!Retry(t)
    PROVE  S!SessionInv'
<1> DEFINE c == task[t]
           n == epochs[c.key]
           todo == S!Superseded(c.key)
           r == Retried(c, n, todo)
<1>1. c.pc = "again" /\ UNCHANGED <<disk, config, epochs, record, lock, alive, left, stalled>>
    BY DEF S!Retry
<1>2. /\ c \in S!Calls /\ n \in Nat
      /\ c.file \in SessionFiles /\ c.key \in Keys /\ c.bundle \in S!Bundles
    BY <1>1 DEF S!SessionInv, S!TypeOK, S!TaskInv
<1>3. todo \in SUBSET Keys
    BY DEF S!Superseded
<1>4. task' = [task EXCEPT ![t] = r]
    BY Zenon DEF S!Retry, Retried
<1>5. /\ r \in S!Calls /\ r.pc = "retire"
      /\ r.file = c.file /\ r.key = c.key /\ r.bundle = c.bundle
    BY <1>2, <1>3, CallRetried
<1> HIDE DEF r
<1> QED
    BY <1>1, <1>2, <1>4, <1>5, SessionsMovesOn DEF S!Holding

\* A call begins at the configuration, the files and the epoch of the moment.
LEMMA SessionsCall ==
    ASSUME S!SessionInv, NEW t \in Tasks, NEW f \in SessionFiles, S!Call(t, f)
    PROVE  S!SessionInv'
<1>1. /\ disk \in S!Bundles /\ config \in Keys /\ epochs[config] \in Nat
      /\ task[t].pc = "idle"
      /\ UNCHANGED <<disk, config, epochs, record, lock, alive, left, stalled>>
    BY DEF S!Call, S!SessionInv, S!TypeOK
<1>2. S!Superseded(config) \subseteq Keys
    BY DEF S!Superseded
<1> DEFINE r == [pc |-> "retire", file |-> f, key |-> config, bundle |-> disk,
                 epoch |-> epochs[config], attempt |-> 1, todo |-> S!Superseded(config)]
<1>3. task' = [task EXCEPT ![t] = r]
    BY DEF S!Call
<1>4. /\ r \in S!Calls /\ r.pc = "retire" /\ r.file \in SessionFiles /\ r.key \in Keys
      /\ r.bundle \in S!Bundles
    BY <1>1, <1>2 DEF S!Calls
<1> HIDE DEF r
<1> QED
    BY <1>1, <1>3, <1>4, SessionsMovesOn DEF S!Holding

\* The request is sent, answered or fails, and its answer is given out or
\* refused.
LEMMA SessionsRequest ==
    ASSUME S!SessionInv, NEW t \in Tasks,
           \/ S!Send(t) \/ S!Answer(t) \/ S!RequestFails(t) \/ S!Resume(t) \/ S!Done(t)
    PROVE  S!SessionInv'
<1> DEFINE c == task[t]
<1>1. /\ UNCHANGED <<disk, config, epochs, record, lock, alive, left, stalled>>
      /\ c.pc \in {"send", "wait", "answered", "done"}
    BY DEF S!Send, S!Answer, S!RequestFails, S!Resume, S!Done
<1>2. /\ c \in S!Calls /\ record \in [Keys -> S!Sessions \cup {None}]
      /\ c.file \in SessionFiles /\ c.key \in Keys /\ c.bundle \in S!Bundles
    BY <1>1 DEF S!SessionInv, S!TypeOK, S!TaskInv
<1>3. PICK r \in S!Calls :
         /\ task' = [task EXCEPT ![t] = r]
         /\ r.pc \in {"wait", "error", "answered", "done", "idle"}
         /\ r.pc # "idle" => r.file = c.file /\ r.key = c.key /\ r.bundle = c.bundle
  <2>1. CASE S!Done(t)
    BY <2>1, CallIdle DEF S!Done
  <2>2. CASE S!Answer(t) \/ S!RequestFails(t) \/ S!Resume(t) \/ S!Send(t)
    <3>1. PICK pc \in {"wait", "answered", "error", "done"} :
             task' = [task EXCEPT ![t] = [c EXCEPT !.pc = pc]]
      BY <2>2, Zenon DEF S!Answer, S!RequestFails, S!Resume, S!Send
    <3> DEFINE e == [c EXCEPT !.pc = pc]
    <3>2. /\ e \in S!Calls /\ e.pc = pc
          /\ e.file = c.file /\ e.key = c.key /\ e.bundle = c.bundle
      BY <1>2, CallFields
    <3> QED
      BY <3>1, <3>2
  <2> QED
    BY <2>1, <2>2
<1> QED
    BY <1>1, <1>2, <1>3, SessionsMovesOn DEF S!Holding

\* A shutdown of the session of a key takes its record away under the lock of
\* the key, and cancels calls that wait.
LEMMA SessionsRestart ==
    ASSUME S!SessionInv, NEW k \in Keys, NEW who \in Tasks \cup {Admin},
           NEW next \in [Tasks -> S!Calls], S!RestartUnlocked(k, next),
           lock[k] \in {None, who}, lock' = [lock EXCEPT ![k] = who],
           UNCHANGED <<disk, config, alive, left, stalled>>,
           \A u \in Tasks \ {who} : next[u] = task[u],
           who \in Tasks =>
              /\ \A j \in Keys \ {k} : lock[j] # who
              /\ task[who].pc \notin {"idle", "wait"}
              /\ next[who].file = task[who].file /\ next[who].key = task[who].key
              /\ next[who].bundle = task[who].bundle
              /\ \/ next[who].pc = "retiring"
                 \/ next[who].pc \in {"closing", "failing"} /\ next[who].key = k
    PROVE  S!SessionInv'
<1>0. who # None /\ None \notin Tasks /\ Admin \notin Tasks
    BY EditingAssumption
<1>1. /\ S!TypeOK /\ S!KeyInv(k)
      /\ epochs \in [Keys -> Nat] /\ record \in [Keys -> S!Sessions \cup {None}]
      /\ lock \in [Keys -> Tasks \cup {Admin, None}] /\ task \in [Tasks -> S!Calls]
    BY DEF S!SessionInv, S!TypeOK
<1>2. /\ task' \in [Tasks -> S!Calls]
      /\ \A u \in Tasks : \/ task'[u] = next[u]
                          \/ task[u].pc = "wait" /\ task'[u] = S!IdleTask
      /\ who \in Tasks => task'[who] = next[who]
    BY <1>1, CallIdle DEF S!RestartUnlocked, S!Cancelled
<1>3. /\ epochs' \in [Keys -> Nat] /\ epochs'[k] = epochs[k] + 1 /\ epochs[k] \in Nat
      /\ \A j \in Keys \ {k} : epochs'[j] = epochs[j]
  <2>1. /\ epochs[k] \in Nat /\ epochs[k] + 1 \in Nat
        /\ (IF record[k] = None THEN epochs[k] ELSE record[k].epoch) = epochs[k]
    BY <1>1 DEF S!KeyInv
  <2>2. epochs' = [epochs EXCEPT ![k] = epochs[k] + 1]
    BY <2>1 DEF S!RestartUnlocked, S!Advanced
  <2> QED
    BY <1>1, <2>1, <2>2
<1>4. /\ record' \in [Keys -> S!Sessions \cup {None}] /\ record'[k] = None
      /\ \A j \in Keys \ {k} : record'[j] = record[j]
    BY <1>1 DEF S!RestartUnlocked
<1>5. /\ lock' \in [Keys -> Tasks \cup {Admin, None}] /\ lock'[k] = who
      /\ \A j \in Keys \ {k} : lock'[j] = lock[j]
    BY <1>1
<1>6. S!TypeOK'
    BY <1>1, <1>2, <1>3, <1>4, <1>5 DEF S!TypeOK
<1>7. \A j \in Keys : S!Processes(j)' = S!Processes(j) /\ S!Own(j)' = S!Own(j)
    BY DEF S!Processes, S!Own
<1>8. S!KeyInv(k)'
  <2>0. \A p \in S!Processes(k) : p[2] < epochs'[k]
    <3> SUFFICES ASSUME NEW p \in S!Processes(k) PROVE p[2] < epochs'[k]
      OBVIOUS
    <3>1. p[2] \in Nat
      BY <1>1 DEF S!TypeOK, S!Processes
    <3>2. p[2] < epochs[k] \/ p[2] = epochs[k]
      BY <1>1 DEF S!KeyInv
    <3> QED
      BY <1>3, <3>1, <3>2
  <2>1. S!Closer(k)'
    BY <1>2, <1>5 DEF S!Closer
  <2>2. lock'[k] \in Tasks => \/ task'[lock'[k]].pc = "retiring"
                              \/ task'[lock'[k]].pc \in S!Holding /\ task'[lock'[k]].key = k
    BY <1>2, <1>5 DEF S!Holding
  <2> QED
    BY <1>1, <1>4, <1>7, <2>0, <2>1, <2>2 DEF S!KeyInv
<1>9. who \in Tasks => S!TaskInv(who)'
  <2> SUFFICES ASSUME who \in Tasks PROVE S!TaskInv(who)'
    OBVIOUS
  <2>1. S!TaskInv(who)
    BY DEF S!SessionInv
  <2> QED
    BY <2>1, <1>2, <1>5 DEF S!TaskInv, S!Holding
<1>10. \A u \in Tasks \ {who} : Spared(u)
    BY <1>2 DEF Spared
<1>11. \A j \in Keys \ {k} : Untouched(j) /\ (who \in Tasks => lock[j] # who)
    BY <1>3, <1>4, <1>5, <1>7 DEF Untouched
<1> QED
    BY <1>5, <1>6, <1>8, <1>9, <1>10, <1>11, SessionsOneKey

\* The process is gone, or left behind, and the lock is free; a call goes on
\* to r.
Abandoned(k) == left' = left \cup S!Own(k) /\ UNCHANGED <<alive, stalled>>

LEMMA SessionsReaped ==
    ASSUME S!SessionInv, NEW k \in Keys, NEW who \in Tasks \cup {Admin},
           lock[k] = who, S!Closer(k),
           S!Reaped(k) \/ Abandoned(k), lock' = [lock EXCEPT ![k] = None],
           UNCHANGED <<disk, config, epochs, record>>,
           NEW r \in S!Calls, r.pc \notin S!Holding,
           r.pc # "idle" => r.file \in SessionFiles /\ r.key \in Keys /\ r.bundle \in S!Bundles,
           task' = IF who \in Tasks THEN [task EXCEPT ![who] = r] ELSE task
    PROVE  S!SessionInv'
<1>0. who # None /\ None \notin Tasks /\ Admin \notin Tasks
    BY EditingAssumption
<1>1. /\ S!TypeOK /\ S!KeyInv(k)
      /\ alive \subseteq Keys \X Nat /\ left \subseteq alive /\ stalled \subseteq alive
      /\ lock \in [Keys -> Tasks \cup {Admin, None}] /\ task \in [Tasks -> S!Calls]
    BY DEF S!SessionInv, S!TypeOK
<1>2. /\ task' \in [Tasks -> S!Calls] /\ \A u \in Tasks \ {who} : task'[u] = task[u]
      /\ who \in Tasks => task'[who] = r
    BY <1>1
<1>3. /\ lock' \in [Keys -> Tasks \cup {Admin, None}] /\ lock'[k] = None
      /\ \A j \in Keys \ {k} : lock'[j] = lock[j]
    BY <1>1
<1>p. alive' \subseteq alive /\ left' \subseteq alive' /\ stalled' \subseteq alive'
    BY <1>1 DEF S!Reaped, Abandoned, S!Own
<1>4. S!TypeOK'
    BY <1>1, <1>2, <1>3, <1>p DEF S!TypeOK
<1>5. /\ S!Own(k)' = {} /\ S!Processes(k)' \subseteq S!Processes(k)
      /\ \A j \in Keys \ {k} : S!Processes(j)' = S!Processes(j) /\ S!Own(j)' = S!Own(j)
    BY DEF S!Reaped, Abandoned, S!Processes, S!Own
<1>6. S!KeyInv(k)'
  <2>1. record'[k] = None
    BY <1>1 DEF S!KeyInv
  <2> QED
    BY <1>0, <1>1, <1>3, <1>5, <2>1, EditingAssumption DEF S!KeyInv, S!Closer
<1>7. who \in Tasks => S!TaskInv(who)'
    BY <1>2 DEF S!TaskInv, S!Holding
<1>8. \A u \in Tasks \ {who} : Spared(u)
    BY <1>2 DEF Spared
<1>9. \A j \in Keys \ {k} : Untouched(j) /\ (who \in Tasks => lock[j] # who)
    BY <1>3, <1>5 DEF Untouched, S!SessionInv
<1> QED
    BY <1>3, <1>4, <1>6, <1>7, <1>8, <1>9, SessionsOneKey

\* What holds of the call of a step and its key.
LEMMA SessionsOfTask ==
    ASSUME S!SessionInv, NEW t \in Tasks, task[t].pc # "idle"
    PROVE  /\ task \in [Tasks -> S!Calls] /\ task[t] \in S!Calls /\ S!TaskInv(t)
           /\ task[t].file \in SessionFiles /\ task[t].key \in Keys /\ task[t].bundle \in S!Bundles
           /\ task[t].epoch \in Nat
           /\ S!KeyInv(task[t].key)
BY DEF S!SessionInv, S!TypeOK, S!TaskInv, S!Calls

\* A call that holds the lock of a key holds no other.
LEMMA SessionsHoldsOne ==
    ASSUME S!SessionInv, NEW t \in Tasks, NEW k \in Keys
    PROVE  /\ lock[k] = t => \A j \in Keys \ {k} : lock[j] # t
           /\ task[t].pc \notin S!Holding \cup {"retiring"} => \A j \in Keys : lock[j] # t
BY DEF S!SessionInv, S!KeyInv

\* A session of another configuration is retired, or was gone.
LEMMA SessionsRetire ==
    ASSUME S!SessionInv, NEW t \in Tasks, NEW k \in Keys, S!Retire(t, k)
    PROVE  S!SessionInv'
<1>1. /\ task[t].pc = "retire" /\ lock[k] = None
      /\ UNCHANGED <<disk, config, alive, left, stalled>>
    BY DEF S!Retire
<1>2. /\ task \in [Tasks -> S!Calls] /\ task[t] \in S!Calls /\ task[t].todo \subseteq Keys
      /\ task[t].file \in SessionFiles /\ task[t].key \in Keys /\ task[t].bundle \in S!Bundles
    BY <1>1, SessionsOfTask DEF S!Calls
<1>3. CASE record[k] = None
  <2> DEFINE r == [task[t] EXCEPT !.todo = task[t].todo \ {k}]
  <2>1. task' = [task EXCEPT ![t] = r] /\ UNCHANGED <<epochs, record, lock>>
    BY <1>3, <1>2 DEF S!Retire
  <2>2. /\ r \in S!Calls /\ r.pc = "retire" /\ r.file = task[t].file /\ r.key = task[t].key
        /\ r.bundle = task[t].bundle
    BY <1>1, <1>2 DEF S!Calls
  <2> HIDE DEF r
  <2> QED
    BY <1>1, <1>2, <2>1, <2>2, SessionsMovesOn DEF S!Holding
<1>4. CASE record[k] # None
  <2> DEFINE next == [task EXCEPT ![t].pc = "retiring", ![t].todo = {k} \cup @]
  <2>1. S!RestartUnlocked(k, next) /\ lock' = [lock EXCEPT ![k] = t]
    BY <1>4 DEF S!Retire
  <2>2. /\ next \in [Tasks -> S!Calls] /\ next[t].pc = "retiring"
        /\ next[t].file = task[t].file /\ next[t].key = task[t].key
        /\ next[t].bundle = task[t].bundle
        /\ \A u \in Tasks \ {t} : next[u] = task[u]
    BY <1>2 DEF S!Calls
  <2>3. \A j \in Keys : lock[j] # t
    BY <1>1, SessionsHoldsOne DEF S!Holding
  <2> HIDE DEF next
  <2> QED
    BY <1>1, <2>1, <2>2, <2>3, SessionsRestart
<1> QED
    BY <1>3, <1>4

\* The retired process is gone.
LEMMA SessionsRetireClosed ==
    ASSUME S!SessionInv, NEW t \in Tasks, S!RetireClosed(t)
    PROVE  S!SessionInv'
<1>1. PICK k \in Keys :
        /\ lock[k] = t
        /\ S!Reaped(k)
        /\ lock' = [lock EXCEPT ![k] = None]
        /\ task' = [task EXCEPT ![t].pc = "retire", ![t].todo = @ \ {k}]
    BY Zenon DEF S!RetireClosed
<1>2. task[t].pc = "retiring" /\ UNCHANGED <<disk, config, epochs, record>>
    BY DEF S!RetireClosed
<1>3. /\ task \in [Tasks -> S!Calls] /\ task[t] \in S!Calls /\ task[t].todo \subseteq Keys
      /\ task[t].file \in SessionFiles /\ task[t].key \in Keys /\ task[t].bundle \in S!Bundles
    BY <1>2, SessionsOfTask DEF S!Calls
<1> DEFINE r == task'[t]
<1>4. task' = [task EXCEPT ![t] = r]
    BY <1>1, <1>3
<1>5. /\ r \in S!Calls /\ r.pc = "retire" /\ r.file = task[t].file /\ r.key = task[t].key
      /\ r.bundle = task[t].bundle
    BY <1>1, <1>3 DEF S!Calls
<1>6. S!Closer(k)
    BY <1>1, <1>2 DEF S!Closer
<1> PICK q \in S!Calls : q = r
    BY <1>5
<1> QED
    BY <1>1, <1>2, <1>3, <1>4, <1>5, <1>6, SessionsReaped DEF S!Holding

\* A cancellation of whoever shuts a process down leaves it running.
LEMMA SessionsCutOff ==
    ASSUME S!SessionInv, NEW t \in Tasks, S!CutOff(t)
    PROVE  S!SessionInv'
<1>1. /\ task[t].pc \in {"retiring", "closing", "failing"}
      /\ UNCHANGED <<disk, config, epochs, record, alive, stalled>>
      /\ task' = [task EXCEPT ![t] = S!IdleTask]
    BY DEF S!CutOff
<1>2. PICK k \in Keys : lock[k] = t /\ Abandoned(k) /\ lock' = [lock EXCEPT ![k] = None]
    BY <1>1 DEF S!CutOff, Abandoned
<1>3. S!Closer(k)
    BY <1>1, <1>2 DEF S!Closer
<1>4. S!IdleTask.pc \notin S!Holding
    BY CallIdle DEF S!Holding
<1> QED
    BY <1>1, <1>2, <1>3, <1>4, CallIdle, SessionsReaped

\* A step of a call under the lock of its own key, which it has, takes or
\* gives back; nothing else is touched.
LEMMA SessionsUnderLock ==
    ASSUME S!SessionInv, S!TypeOK', NEW t \in Tasks, NEW k \in Keys, k = task[t].key,
           task[t].pc # "idle",
           lock[k] = t \/ (lock[k] = None /\ \A j \in Keys : lock[j] # t),
           lock'[k] \in {None, t},
           \A j \in Keys \ {k} : Untouched(j),
           \A u \in Tasks \ {t} : task'[u] = task[u],
           S!KeyInv(k)', S!TaskInv(t)'
    PROVE  S!SessionInv'
<1>1. \A j \in Keys \ {k} : Untouched(j) /\ (t \in Tasks => lock[j] # t)
    BY SessionsHoldsOne
<1>2. \A u \in Tasks \ {t} : Spared(u)
    BY DEF Spared
<1> QED
    BY <1>1, <1>2, SessionsOneKey

\* prepare takes the lock and finds the session or none; or the epoch has moved.
LEMMA SessionsLock ==
    ASSUME S!SessionInv, NEW t \in Tasks, S!Lock(t)
    PROVE  S!SessionInv'
<1> PICK k : k = task[t].key
    OBVIOUS
<1>1. /\ task[t].pc = "retire" /\ lock[k] = None
      /\ UNCHANGED <<disk, config, epochs, record, alive, left, stalled>>
    BY DEF S!Lock
<1>2. /\ task \in [Tasks -> S!Calls] /\ task[t] \in S!Calls /\ k \in Keys /\ S!KeyInv(k)
      /\ task[t].file \in SessionFiles /\ task[t].key \in Keys /\ task[t].bundle \in S!Bundles
      /\ S!TypeOK /\ epochs[k] \in Nat
    BY <1>1, SessionsOfTask DEF S!SessionInv, S!TypeOK
<1>3. CASE task[t].epoch # epochs[k]
  <2>1. task' = [task EXCEPT ![t] = S!NextAttempt(t)] /\ lock' = lock
    BY <1>3 DEF S!Lock
  <2> DEFINE r == S!NextAttempt(t)
  <2>2. /\ r \in S!Calls /\ r.pc \in {"idle", "again"}
        /\ r.pc # "idle" => r.file \in SessionFiles /\ r.key \in Keys /\ r.bundle \in S!Bundles
    BY <1>1, <1>2, CallNextAttempt
  <2> HIDE DEF r
  <2> QED
    BY <1>1, <2>1, <2>2, SessionsMovesOn DEF S!Holding, r
<1>4. CASE task[t].epoch = epochs[k]
  <2> PICK pc \in {"start", "reconcile"} : pc = IF record[k] = None THEN "start" ELSE "reconcile"
    OBVIOUS
  <2> DEFINE r == [task[t] EXCEPT !.pc = pc]
  <2>1. lock' = [lock EXCEPT ![k] = t] /\ task' = [task EXCEPT ![t] = r]
    BY <1>4, Zenon DEF S!Lock, S!Acquired
  <2>h. pc \in S!Holding
    BY DEF S!Holding
  <2>r. /\ r \in S!Calls /\ r.pc = pc /\ r.file = task[t].file /\ r.key = task[t].key
        /\ r.bundle = task[t].bundle /\ r.epoch = task[t].epoch
    BY <1>2, <2>h, CallFields
  <2>2. /\ r \in S!Calls /\ r.pc = pc /\ r.file = task[t].file /\ r.key = k
        /\ r.bundle = task[t].bundle /\ r.epoch = epochs[k] /\ pc \in S!Holding
    BY <1>4, <2>h, <2>r
  <2> HIDE DEF r
  <2>3. task' \in [Tasks -> S!Calls] /\ task'[t] = r /\ \A u \in Tasks \ {t} : task'[u] = task[u]
    BY <1>2, <2>1, <2>2
  <2>4. /\ lock' \in [Keys -> Tasks \cup {Admin, None}] /\ lock'[k] = t
        /\ \A j \in Keys \ {k} : lock'[j] = lock[j]
    BY <1>2, <2>1 DEF S!TypeOK
  <2>5. S!TypeOK'
    BY <1>1, <1>2, <2>3, <2>4 DEF S!TypeOK
  <2>6. \A j \in Keys : S!Processes(j)' = S!Processes(j) /\ S!Own(j)' = S!Own(j)
    BY <1>1 DEF S!Processes, S!Own
  <2>7. ~S!Closer(k)
    BY <1>1, EditingAssumption DEF S!Closer
  <2>8. S!KeyInv(k)'
    <3>1. ~S!Closer(k)'
      BY <2>2, <2>3, <2>4, EditingAssumption DEF S!Closer
    <3>2. task'[lock'[k]].pc \in S!Holding /\ task'[lock'[k]].key = k
      BY <2>2, <2>3, <2>4
    <3> QED
      BY <1>1, <1>2, <2>6, <2>7, <3>1, <3>2 DEF S!KeyInv
  <2>9. S!TaskInv(t)'
    BY <1>1, <1>2, <2>2, <2>3, <2>4 DEF S!TaskInv
  <2>10. \A j \in Keys \ {k} : Untouched(j)
    BY <1>1, <2>4, <2>6 DEF Untouched
  <2>11. \A j \in Keys : lock[j] # t
    BY <1>1, SessionsHoldsOne DEF S!Holding
  <2> QED
    BY <1>1, <1>2, <2>3, <2>4, <2>5, <2>8, <2>9, <2>10, <2>11, SessionsUnderLock
<1> QED
    BY <1>3, <1>4

\* A process starts where there was none.
LEMMA SessionsStartOk ==
    ASSUME S!SessionInv, NEW t \in Tasks, S!StartOk(t)
    PROVE  S!SessionInv'
<1> PICK k : k = task[t].key
    OBVIOUS
<1> DEFINE s == [epoch |-> task[t].epoch, open |-> {},
                 gens |-> [f \in SessionFiles |-> None]]
           r == [task[t] EXCEPT !.pc = "reconcile"]
<1>1. /\ task[t].pc = "start" /\ UNCHANGED <<disk, config, epochs, lock, left, stalled>>
      /\ record' = [record EXCEPT ![k] = s]
      /\ alive' = alive \cup {<<k, task[t].epoch>>}
      /\ task' = [task EXCEPT ![t] = r]
    BY DEF S!StartOk
<1>2. /\ task \in [Tasks -> S!Calls] /\ task[t] \in S!Calls /\ k \in Keys /\ S!KeyInv(k)
      /\ task[t].file \in SessionFiles /\ task[t].bundle \in S!Bundles
      /\ task[t].epoch \in Nat
      /\ S!TypeOK /\ S!TaskInv(t)
    BY <1>1, SessionsOfTask DEF S!SessionInv
<1>3. lock[k] = t /\ record[k] = None /\ task[t].epoch = epochs[k]
    BY <1>1, <1>2 DEF S!TaskInv, S!Holding
<1>4. s \in S!Sessions /\ s # None /\ s.epoch = epochs[k]
    BY <1>2, <1>3, EditingAssumption DEF S!Sessions
<1>5. /\ r \in S!Calls /\ r.pc = "reconcile" /\ r.file = task[t].file /\ r.key = k
      /\ r.bundle = task[t].bundle
    BY <1>2, CallFields DEF S!Holding
<1> HIDE DEF s, r
<1>6. task' \in [Tasks -> S!Calls] /\ task'[t] = r /\ \A u \in Tasks \ {t} : task'[u] = task[u]
    BY <1>1, <1>2, <1>5
<1>7. /\ record' \in [Keys -> S!Sessions \cup {None}] /\ record'[k] = s
      /\ \A j \in Keys \ {k} : record'[j] = record[j]
    BY <1>1, <1>2, <1>4 DEF S!TypeOK
<1>8. alive' \subseteq Keys \X Nat /\ left' \subseteq alive' /\ stalled' \subseteq alive'
    BY <1>1, <1>2 DEF S!TypeOK
<1>9. S!TypeOK'
    BY <1>1, <1>2, <1>6, <1>7, <1>8 DEF S!TypeOK
<1>10. ~S!Closer(k) /\ ~S!Closer(k)'
    BY <1>1, <1>3, <1>5, <1>6, EditingAssumption DEF S!Closer
<1>11. S!Own(k) = {} /\ \A p \in S!Processes(k) : p[2] < epochs[k]
    BY <1>2, <1>3, <1>10 DEF S!KeyInv
<1>12. /\ S!Own(k)' = {<<k, epochs[k]>>}
       /\ S!Processes(k)' = S!Processes(k) \cup {<<k, epochs[k]>>}
  <2>1. S!Processes(k)' = S!Processes(k) \cup {<<k, epochs[k]>>}
    BY <1>1, <1>3 DEF S!Processes
  <2>2. <<k, epochs[k]>> \notin left
    <3> SUFFICES ASSUME <<k, epochs[k]>> \in left PROVE FALSE
      OBVIOUS
    <3>1. <<k, epochs[k]>> \in S!Processes(k)
      BY <1>2 DEF S!TypeOK, S!Processes
    <3>2. <<k, epochs[k]>>[2] = epochs[k] /\ epochs[k] \in Nat
      BY <1>2 DEF S!TypeOK
    <3>3. <<k, epochs[k]>>[2] < epochs[k]
      BY <1>11, <3>1
    <3> QED
      BY <3>2, <3>3
  <2>3. S!Own(k)' = S!Own(k) \cup {<<k, epochs[k]>>}
    BY <1>1, <1>3, <2>2 DEF S!Own
  <2> QED
    BY <1>11, <2>1, <2>3
<1>13. \A j \in Keys \ {k} : S!Processes(j)' = S!Processes(j) /\ S!Own(j)' = S!Own(j)
    BY <1>1 DEF S!Processes, S!Own
<1>14. S!KeyInv(k)'
  <2>1. task'[lock'[k]].pc \in S!Holding /\ task'[lock'[k]].key = k
    BY <1>1, <1>3, <1>5, <1>6 DEF S!Holding
  <2> QED
    BY <1>1, <1>4, <1>7, <1>10, <1>11, <1>12, <2>1 DEF S!KeyInv
<1>15. S!TaskInv(t)'
    BY <1>1, <1>2, <1>3, <1>4, <1>5, <1>6, <1>7 DEF S!TaskInv
<1>16. \A j \in Keys \ {k} : Untouched(j)
    BY <1>1, <1>7, <1>13 DEF Untouched
<1> QED
    BY <1>1, <1>2, <1>3, <1>6, <1>9, <1>14, <1>15, <1>16, SessionsUnderLock

\* A start that fails, or is cancelled and leaves the process it spawns behind;
\* the epoch advances.
LEMMA SessionsStartFails ==
    ASSUME S!SessionInv, NEW t \in Tasks, S!StartFails(t)
    PROVE  S!SessionInv'
<1> PICK k : k = task[t].key
    OBVIOUS
<1>0. PICK P \in SUBSET {<<k, task[t].epoch>>} : alive' = alive \cup P /\ left' = left \cup P
    BY DEF S!StartFails
<1>1. /\ task[t].pc = "start" /\ UNCHANGED <<disk, config, record, stalled>>
      /\ epochs' = [epochs EXCEPT ![k] = task[t].epoch + 1]
      /\ lock' = [lock EXCEPT ![k] = None]
      /\ task' = [task EXCEPT ![t] = S!IdleTask]
    BY DEF S!StartFails
<1>2. /\ task \in [Tasks -> S!Calls] /\ k \in Keys /\ S!KeyInv(k)
      /\ task[t].epoch \in Nat /\ task[t].epoch + 1 \in Nat /\ S!TypeOK /\ S!TaskInv(t)
    BY <1>1, SessionsOfTask DEF S!SessionInv
<1>3. lock[k] = t /\ record[k] = None /\ task[t].epoch = epochs[k]
    BY <1>1, <1>2 DEF S!TaskInv, S!Holding
<1>6. /\ task' \in [Tasks -> S!Calls] /\ task'[t] = S!IdleTask
      /\ \A u \in Tasks \ {t} : task'[u] = task[u]
    BY <1>1, <1>2, CallIdle
<1>7. /\ lock' \in [Keys -> Tasks \cup {Admin, None}] /\ lock'[k] = None
      /\ epochs' \in [Keys -> Nat] /\ epochs'[k] = epochs[k] + 1 /\ epochs[k] \in Nat
      /\ \A j \in Keys \ {k} : lock'[j] = lock[j] /\ epochs'[j] = epochs[j]
    BY <1>1, <1>2, <1>3 DEF S!TypeOK
<1>8. alive' \subseteq Keys \X Nat /\ left' \subseteq alive' /\ stalled' \subseteq alive'
    BY <1>0, <1>1, <1>2 DEF S!TypeOK
<1>9. S!TypeOK'
    BY <1>1, <1>2, <1>6, <1>7, <1>8 DEF S!TypeOK
<1>10. ~S!Closer(k)
    BY <1>1, <1>3, EditingAssumption DEF S!Closer
<1>11. S!Own(k) = {} /\ \A p \in S!Processes(k) : p[2] < epochs[k]
    BY <1>2, <1>3, <1>10 DEF S!KeyInv
<1>12. /\ S!Own(k)' = {} /\ S!Processes(k)' \subseteq S!Processes(k) \cup {<<k, epochs[k]>>}
       /\ \A j \in Keys \ {k} : S!Processes(j)' = S!Processes(j) /\ S!Own(j)' = S!Own(j)
    BY <1>0, <1>3, <1>11 DEF S!Processes, S!Own
<1>13. \A p \in S!Processes(k)' : p[2] < epochs'[k]
  <2> SUFFICES ASSUME NEW p \in S!Processes(k)' PROVE p[2] < epochs'[k]
    OBVIOUS
  <2>1. p[2] \in Nat
    BY <1>8 DEF S!Processes
  <2>2. p[2] < epochs[k] \/ p = <<k, epochs[k]>>
    BY <1>11, <1>12
  <2>3. <<k, epochs[k]>>[2] = epochs[k]
    OBVIOUS
  <2> QED
    BY <1>7, <2>1, <2>2, <2>3
<1>14. S!KeyInv(k)'
    BY <1>1, <1>3, <1>7, <1>12, <1>13, EditingAssumption DEF S!KeyInv, S!Closer
<1>15. S!TaskInv(t)'
    BY <1>6, CallIdle DEF S!TaskInv, S!Holding
<1>16. \A j \in Keys \ {k} : Untouched(j)
    BY <1>1, <1>7, <1>12 DEF Untouched
<1> QED
    BY <1>1, <1>2, <1>3, <1>6, <1>7, <1>9, <1>14, <1>15, <1>16, SessionsUnderLock

\* A session with another document and its generation.
Reconciled(s, f, g) == [s EXCEPT !.open = @ \cup {f}, !.gens[f] = g]

LEMMA SessionReconciled ==
    ASSUME NEW s \in S!Sessions, NEW f \in SessionFiles, NEW g \in S!Captures
    PROVE  Reconciled(s, f, g) \in S!Sessions /\ Reconciled(s, f, g).epoch = s.epoch
BY DEF S!Sessions, Reconciled

\* The document is open, and the generation is recorded.
LEMMA SessionsReconcile ==
    ASSUME S!SessionInv, NEW t \in Tasks, S!Reconcile(t)
    PROVE  S!SessionInv'
<1> PICK k : k = task[t].key
    OBVIOUS
<1> PICK f : f = task[t].file
    OBVIOUS
<1> DEFINE s == Reconciled(record[k], f, S!Generation(t))
           r == [task[t] EXCEPT !.pc = "send"]
<1>1. /\ task[t].pc = "reconcile" /\ UNCHANGED <<disk, config, epochs, alive, left, stalled>>
      /\ record' = [record EXCEPT ![k].open = @ \cup {f}, ![k].gens[f] = S!Generation(t)]
      /\ lock' = [lock EXCEPT ![k] = None]
      /\ task' = [task EXCEPT ![t] = r]
    BY DEF S!Reconcile
<1>2. /\ task \in [Tasks -> S!Calls] /\ task[t] \in S!Calls /\ k \in Keys /\ S!KeyInv(k)
      /\ f \in SessionFiles /\ task[t].bundle \in S!Bundles
      /\ task[t].epoch \in Nat
      /\ S!TypeOK /\ S!TaskInv(t)
    BY <1>1, SessionsOfTask DEF S!SessionInv
<1>3. lock[k] = t /\ record[k] # None /\ record[k] \in S!Sessions
    BY <1>1, <1>2 DEF S!TaskInv, S!Holding, S!TypeOK
<1>6. S!Generation(t) \in S!Captures
    BY <1>2 DEF S!Generation, S!Fingerprint, S!Captures
<1>7. s \in S!Sessions /\ s # None /\ s.epoch = record[k].epoch
  <2>1. s \in S!Sessions /\ s.epoch = record[k].epoch
    BY <1>2, <1>3, <1>6, SessionReconciled
  <2> QED
    BY <2>1, EditingAssumption
<1>8. record' = [record EXCEPT ![k] = s]
  <2>1. record \in [Keys -> S!Sessions \cup {None}]
    BY <1>2 DEF S!TypeOK
  <2> QED
    BY <1>1, <1>2, <2>1 DEF Reconciled
<1>9. /\ r \in S!Calls /\ r.pc = "send" /\ r.file = f /\ r.key = k
      /\ r.bundle = task[t].bundle
    BY <1>2, CallFields DEF S!Holding
<1> HIDE DEF s, r
<1>10. task' \in [Tasks -> S!Calls] /\ task'[t] = r /\ \A u \in Tasks \ {t} : task'[u] = task[u]
    BY <1>1, <1>2, <1>9
<1>11. /\ record' \in [Keys -> S!Sessions \cup {None}] /\ record'[k] = s
       /\ \A j \in Keys \ {k} : record'[j] = record[j]
    BY <1>2, <1>7, <1>8 DEF S!TypeOK
<1>12. /\ lock' \in [Keys -> Tasks \cup {Admin, None}] /\ lock'[k] = None
       /\ \A j \in Keys \ {k} : lock'[j] = lock[j]
    BY <1>1, <1>2 DEF S!TypeOK
<1>13. S!TypeOK'
    BY <1>1, <1>2, <1>10, <1>11, <1>12 DEF S!TypeOK
<1>14. \A j \in Keys : S!Processes(j)' = S!Processes(j) /\ S!Own(j)' = S!Own(j)
    BY <1>1 DEF S!Processes, S!Own
<1>15. S!KeyInv(k)'
    BY <1>1, <1>2, <1>3, <1>7, <1>11, <1>12, <1>14, EditingAssumption DEF S!KeyInv, S!Closer
<1>16. S!TaskInv(t)'
    BY <1>2, <1>9, <1>10 DEF S!TaskInv, S!Holding
<1>17. \A j \in Keys \ {k} : Untouched(j)
    BY <1>1, <1>11, <1>12, <1>14 DEF Untouched
<1> QED
    BY <1>1, <1>2, <1>3, <1>10, <1>12, <1>13, <1>15, <1>16, <1>17, SessionsUnderLock

\* The reconciliation restarts the session, and a failed request does.
LEMMA SessionsRestarts ==
    ASSUME S!SessionInv, NEW t \in Tasks, S!ReconcileRestarts(t) \/ S!Restart(t)
    PROVE  S!SessionInv'
<1> PICK k : k = task[t].key
    OBVIOUS
<1> DEFINE Shuts(pc) ==
        /\ S!RestartUnlocked(k, [task EXCEPT ![t].pc = pc])
        /\ \/ lock' = lock /\ task[t].pc = "reconcile"
           \/ lock' = [lock EXCEPT ![k] = t] /\ task[t].pc = "error" /\ lock[k] = None
<1>0. \E pc \in {"closing", "failing"} : Shuts(pc)
  <2>1. S!ReconcileRestarts(t) => Shuts("closing")
    BY DEF S!ReconcileRestarts
  <2>2. S!Restart(t) => Shuts("failing")
    BY DEF S!Restart
  <2> HIDE DEF Shuts
  <2> QED
    BY <2>1, <2>2
<1> PICK pc \in {"closing", "failing"} : Shuts(pc)
    BY <1>0
<1>1. UNCHANGED <<disk, config, alive, left, stalled>> /\ task[t].pc \in {"reconcile", "error"}
    BY DEF S!ReconcileRestarts, S!Restart
<1>2. /\ task \in [Tasks -> S!Calls] /\ task[t] \in S!Calls /\ k \in Keys /\ S!TaskInv(t)
      /\ S!TypeOK
    BY <1>1, SessionsOfTask DEF S!SessionInv
<1>3. task[t].pc = "reconcile" => lock[k] = t
    BY <1>2 DEF S!TaskInv, S!Holding
<1>4. lock' = [lock EXCEPT ![k] = t] /\ lock[k] \in {None, t}
    BY <1>2, <1>3 DEF S!TypeOK
<1>5. \A j \in Keys \ {k} : lock[j] # t
    BY <1>1, <1>2, <1>3, SessionsHoldsOne DEF S!Holding
<1> DEFINE next == [task EXCEPT ![t].pc = pc]
           r == [task[t] EXCEPT !.pc = pc]
<1>6. /\ r \in S!Calls /\ r.pc = pc /\ r.file = task[t].file /\ r.key = k
      /\ r.bundle = task[t].bundle
    BY <1>2, CallFields DEF S!Holding
<1>7. next = [task EXCEPT ![t] = r]
    OBVIOUS
<1> HIDE DEF r
<1>8. next \in [Tasks -> S!Calls] /\ next[t] = r /\ \A u \in Tasks \ {t} : next[u] = task[u]
    BY <1>2, <1>6, <1>7
<1>9. S!RestartUnlocked(k, next)
    OBVIOUS
<1> HIDE DEF next
<1> QED
    BY <1>1, <1>2, <1>4, <1>5, <1>6, <1>8, <1>9, SessionsRestart

\* The process of the call's own session is gone.
LEMMA SessionsClosed ==
    ASSUME S!SessionInv, NEW t \in Tasks, S!Closed(t) \/ S!RestartClosed(t)
    PROVE  S!SessionInv'
<1> PICK k : k = task[t].key
    OBVIOUS
<1>1. /\ UNCHANGED <<disk, config, epochs, record>> /\ task[t].pc \in {"closing", "failing"}
      /\ S!Reaped(k)
      /\ lock' = [lock EXCEPT ![k] = None]
    BY DEF S!Closed, S!RestartClosed
<1>2. /\ task \in [Tasks -> S!Calls] /\ task[t] \in S!Calls /\ k \in Keys /\ S!TaskInv(t)
      /\ epochs[k] \in Nat
    BY <1>1, SessionsOfTask DEF S!SessionInv, S!TypeOK
<1>3. lock[k] = t /\ S!Closer(k)
    BY <1>1, <1>2 DEF S!TaskInv, S!Holding, S!Closer
<1>4. PICK r \in S!Calls :
        /\ task' = [task EXCEPT ![t] = r] /\ r.pc \in {"idle", "again"}
        /\ r.pc # "idle" => r.file \in SessionFiles /\ r.key \in Keys /\ r.bundle \in S!Bundles
  <2>1. CASE S!Closed(t)
    <3> DEFINE r == S!NextAttempt(t)
    <3>1. task' = [task EXCEPT ![t] = r]
      BY <2>1, Zenon DEF S!Closed
    <3>2. /\ r \in S!Calls /\ r.pc \in {"idle", "again"}
          /\ r.pc # "idle" => r.file \in SessionFiles /\ r.key \in Keys /\ r.bundle \in S!Bundles
      BY <1>1, <1>2, CallNextAttempt
    <3> HIDE DEF r
    <3> QED
      BY <3>1, <3>2
  <2>2. CASE S!RestartClosed(t)
    BY <2>2, CallIdle DEF S!RestartClosed
  <2> QED
    BY <2>1, <2>2
<1> QED
    BY <1>1, <1>2, <1>3, <1>4, SessionsReaped DEF S!Holding

\* The restart tool.
LEMMA SessionsAdmin ==
    ASSUME S!SessionInv, NEW k \in Keys, S!AdminRestart(k) \/ S!AdminClosed(k) \/ S!AdminCutOff(k)
    PROVE  S!SessionInv'
<1>0. Admin \notin Tasks /\ task \in [Tasks -> S!Calls]
    BY EditingAssumption DEF S!SessionInv, S!TypeOK
<1>1. CASE S!AdminRestart(k)
  <2>1. /\ S!RestartUnlocked(k, task) /\ lock[k] = None
        /\ lock' = [lock EXCEPT ![k] = Admin] /\ UNCHANGED <<disk, config, alive, left, stalled>>
    BY <1>1 DEF S!AdminRestart
  <2> QED
    BY <1>0, <2>1, SessionsRestart
<1>2. CASE S!AdminClosed(k) \/ S!AdminCutOff(k)
  <2>1. /\ lock[k] = Admin /\ (S!Reaped(k) \/ Abandoned(k))
        /\ lock' = [lock EXCEPT ![k] = None]
        /\ UNCHANGED <<disk, config, epochs, record, task>>
    BY <1>2 DEF S!AdminClosed, S!AdminCutOff, Abandoned
  <2>2. S!Closer(k)
    BY <2>1 DEF S!Closer
  <2>3. S!IdleTask.pc \notin S!Holding
    BY CallIdle DEF S!Holding
  <2> QED
    BY <1>0, <2>1, <2>2, <2>3, CallIdle, SessionsReaped
<1> QED
    BY <1>1, <1>2

\* Every step of the sessions keeps their invariant.
LEMMA SessionsStep ==
    ASSUME S!SessionInv, S!Next \/ UNCHANGED SessionVars
    PROVE  S!SessionInv'
<1>0. disk \in S!Bundles /\ config \in Keys /\ stalled \subseteq alive
    BY DEF S!SessionInv, S!TypeOK
<1>1. ASSUME NEW f \in SessionFiles, NEW c \in Contents, S!Edit(f, c)
      PROVE  S!SessionInv'
  <2>1. disk' \in S!Bundles
    BY <1>0, <1>1 DEF S!Edit, S!Bundles
  <2> QED
    BY <1>0, <1>1, <2>1, SessionsOutside DEF S!Edit
<1>2. ASSUME NEW k \in Keys,
             S!EditConfig(k) \/ S!AdminRestart(k) \/ S!AdminCutOff(k) \/ S!AdminClosed(k)
      PROVE  S!SessionInv'
    BY <1>0, <1>2, SessionsOutside, SessionsAdmin DEF S!EditConfig
<1>3. ASSUME NEW t \in Tasks, NEW f \in SessionFiles, S!Call(t, f)
      PROVE  S!SessionInv'
    BY <1>3, SessionsCall
<1>4. ASSUME NEW t \in Tasks, S!Step(t) \/ S!StartFails(t) \/ S!RequestFails(t) \/ S!CutOff(t)
      PROVE  S!SessionInv'
  <2>1. ASSUME NEW k \in Keys, S!Retire(t, k)
        PROVE  S!SessionInv'
    BY <2>1, SessionsRetire
  <2> QED
    BY <1>4, <2>1, SessionsRetireClosed, SessionsCutOff, SessionsRetry, SessionsLock, SessionsStartOk, SessionsStartFails,
       SessionsReconcile, SessionsRestarts, SessionsClosed, SessionsRequest
       DEF S!Step
<1>5. CASE UNCHANGED SessionVars
    BY <1>0, <1>5, SessionsOutside DEF SessionVars
<1>6. ASSUME NEW p \in alive, S!LeftExits(p) \/ S!Stalls(p) \/ S!ReadsOn(p)
      PROVE  S!SessionInv'
    BY <1>0, <1>6, SessionsOutside, SessionsLeftExits DEF S!Stalls, S!ReadsOn
<1> QED
    BY <1>1, <1>2, <1>3, <1>4, <1>5, <1>6 DEF S!Next

\* LspSessionManager: the record of a session is of the current epoch of its
\* key, and its process is the only one of that key but those that a
\* cancellation left running, which are of earlier epochs, whatever restarts,
\* retirements, failed starts and cancellations there are: a process is reaped
\* under the lock of its key before the next one starts, or left with the epoch
\* advanced.
THEOREM SessionsAreProcesses == Spec => []SessionIsTheProcess
<1>1. Init => S!SessionInv
    BY SessionsStart DEF Init
<1>2. S!SessionInv /\ [Next]_vars => S!SessionInv'
  <2> SUFFICES ASSUME S!SessionInv, [Next]_vars
               PROVE  S!Next \/ UNCHANGED SessionVars
      BY SessionsStep
  <2> QED
      BY DEF Next, BrokerRuns, SessionsRun, EditorRuns, vars, sessionVars, SessionVars
<1>3. S!SessionInv => SessionIsTheProcess
  <2> SUFFICES ASSUME S!SessionInv PROVE SessionIsTheProcess
    OBVIOUS
  <2>1. S!RecordIsCurrent
    <3>1. ASSUME NEW k \in Keys, record[k] # None
          PROVE  record[k].epoch = epochs[k] /\ <<k, epochs[k]>> \in alive \ left
      BY <3>1 DEF S!SessionInv, S!KeyInv, S!Own
    <3>2. ASSUME NEW p \in left PROVE p[2] < epochs[p[1]]
      <4>1. p \in alive /\ p[1] \in Keys /\ p \in S!Processes(p[1])
        BY DEF S!SessionInv, S!TypeOK, S!Processes
      <4>2. record[p[1]] # None => p # <<p[1], epochs[p[1]]>>
        BY <3>1, <4>1
      <4> QED
        BY <4>1, <4>2 DEF S!SessionInv, S!KeyInv
    <3> QED
      BY <3>1, <3>2 DEF S!RecordIsCurrent
  <2>2. S!OneProcessPerKey
    <3> SUFFICES ASSUME NEW p \in alive \ left, NEW q \in alive \ left, p[1] = q[1] PROVE p = q
      BY DEF S!OneProcessPerKey
    <3>1. p[1] \in Keys
      BY DEF S!SessionInv, S!TypeOK
    <3> QED
      BY <3>1 DEF S!SessionInv, S!KeyInv, S!Own
  <2> QED
    BY <2>1, <2>2 DEF SessionIsTheProcess
<1> QED
    BY <1>1, <1>2, <1>3, PTL DEF Spec

----------------------------------------------------------------------------
(* Applying previews (editor/apply.py, editor/preview.py).                 *)

EditorVars == <<content, node, moved, captured, previews, consumed, expired, epoch, job, result,
                dirty, acts>>
Targets == <<f1, f2>>

\* The files in the order of an apply.
LEMMA EditorFiles ==
    /\ DOMAIN Targets = 1..2 /\ Len(Targets) = 2 /\ E!Files = {Targets[i] : i \in DOMAIN Targets}
    /\ \A j \in E!Jobs : j.i \in 1..2 /\ Targets[j.i] \in E!Files
<1>1. DOMAIN Targets = 1..2 /\ Len(Targets) = 2 /\ E!Files = {Targets[i] : i \in DOMAIN Targets}
    BY DEF Targets, E!Files
<1>2. \A j \in E!Jobs : j.i \in DOMAIN Targets
    BY DEF E!Jobs, Targets
<1> QED
    BY <1>1, <1>2

\* An edit is added to a text.
Mark(s, p) == \E n \in DOMAIN s : s[n] = p
Under(s, p) == \E n \in DOMAIN s : s[n] = p /\ n + 1 \in DOMAIN s /\ s[n + 1] = 0

LEMMA EditorAppend ==
    ASSUME NEW s \in E!Texts, NEW x \in Previews \cup {0}
    PROVE  /\ Append(s, x) \in E!Texts
           /\ \A p : Mark(Append(s, x), p) <=> (p = x \/ Mark(s, p))
           /\ \A p : Under(s, p) => Under(Append(s, x), p)
           /\ x # 0 => \A p : Under(Append(s, x), p) => Under(s, p)
           /\ DOMAIN s \subseteq DOMAIN Append(s, x)
           /\ \A n \in DOMAIN s : Append(s, x)[n] = s[n]
           /\ \A n \in DOMAIN Append(s, x) : n \notin DOMAIN s => Append(s, x)[n] = x
<1>1. /\ Append(s, x) \in E!Texts
      /\ Len(Append(s, x)) = Len(s) + 1 /\ Len(s) \in Nat
      /\ DOMAIN s = 1..Len(s) /\ DOMAIN Append(s, x) = 1..(Len(s) + 1)
      /\ \A n \in 1..Len(s) : Append(s, x)[n] = s[n]
      /\ Append(s, x)[Len(s) + 1] = x
    BY DEF E!Texts
<1>2. \A p : Mark(Append(s, x), p) <=> (p = x \/ Mark(s, p))
    BY <1>1 DEF Mark
<1>3. \A p : Under(s, p) => Under(Append(s, x), p)
    BY <1>1 DEF Under
<1>4. ASSUME x # 0, NEW p, Under(Append(s, x), p)
      PROVE  Under(s, p)
  <2> PICK n \in 1..(Len(s) + 1) :
             /\ Append(s, x)[n] = p /\ n + 1 \in 1..(Len(s) + 1) /\ Append(s, x)[n + 1] = 0
    BY <1>1, <1>4 DEF Under
  <2>1. n + 1 # Len(s) + 1
    BY <1>1, <1>4
  <2>2. n \in 1..Len(s) /\ n + 1 \in 1..Len(s)
    BY <1>1, <2>1
  <2> QED
    BY <1>1, <2>2 DEF Under
<1> QED
    BY <1>1, <1>2, <1>3, <1>4

\* What another program writes right after an edit lies over it.
LEMMA EditorBuries ==
    ASSUME NEW s \in E!Texts, NEW p \in Previews
    PROVE  Under(Append(Append(s, p), 0), p)
<1>1. /\ Len(s) \in Nat
      /\ DOMAIN Append(Append(s, p), 0) = 1..(Len(s) + 2)
      /\ Append(Append(s, p), 0)[Len(s) + 1] = p
      /\ Append(Append(s, p), 0)[Len(s) + 2] = 0
    BY DEF E!Texts
<1>2. Len(s) + 1 \in 1..(Len(s) + 2) /\ (Len(s) + 1) + 1 = Len(s) + 2
      /\ Len(s) + 2 \in 1..(Len(s) + 2)
    BY <1>1
<1> QED
    BY <1>1, <1>2 DEF Under

\* The apply that ends early, drops a file, goes through one, and rolls one back.
Failed(r, why, conflict, some, applied) ==
    [r EXCEPT !.pc = "undo", !.why = why, !.conflict = conflict, !.some = some,
              !.applied = applied]
DroppedTo(r, applied, clean) == [r EXCEPT !.applied = applied, !.pc = "undo", !.clean = clean]
AdvancedTo(r, applied, pc, i) == [r EXCEPT !.applied = applied, !.pc = pc, !.i = i]
StagedAt(r, pc) == [r EXCEPT !.pc = pc]
UndoneTo(r, pc, bound) == [[r EXCEPT !.pc = pc] EXCEPT !.bound = bound]

LEMMA JobFailed ==
    ASSUME NEW r \in E!Jobs, NEW why \in {"drift", "cancelled", "error"}, NEW c \in BOOLEAN,
           NEW s \in BOOLEAN, NEW a \in Seq(E!Files)
    PROVE  LET e == Failed(r, why, c, s, a) IN
           /\ e \in E!Jobs /\ e.id = r.id /\ e.pc = "undo" /\ e.why = why /\ e.applied = a
           /\ e.i = r.i /\ e.pre = r.pre /\ e.post = r.post
BY DEF E!Jobs, Failed

LEMMA JobDropped ==
    ASSUME NEW r \in E!Jobs, NEW a \in Seq(E!Files), NEW c \in BOOLEAN
    PROVE  LET e == DroppedTo(r, a, c) IN
           /\ e \in E!Jobs /\ e.id = r.id /\ e.pc = "undo" /\ e.why = r.why /\ e.applied = a
           /\ e.clean = c /\ e.i = r.i /\ e.pre = r.pre /\ e.post = r.post
BY DEF E!Jobs, DroppedTo

LEMMA JobAdvanced ==
    ASSUME NEW r \in E!Jobs, NEW a \in Seq(E!Files), NEW pc \in {"check", "finish"},
           NEW i \in DOMAIN Targets
    PROVE  LET e == AdvancedTo(r, a, pc, i) IN
           /\ e \in E!Jobs /\ e.id = r.id /\ e.pc = pc /\ e.why = r.why /\ e.applied = a
           /\ e.i = i /\ e.pre = r.pre /\ e.post = r.post
BY DEF E!Jobs, AdvancedTo, Targets

LEMMA JobUndone ==
    ASSUME NEW r \in E!Jobs, NEW pc \in {"finish", "restore"}, NEW b \in BOOLEAN
    PROVE  LET e == UndoneTo(r, pc, b) IN
           /\ e \in E!Jobs /\ e.id = r.id /\ e.pc = pc /\ e.why = r.why /\ e.applied = r.applied
           /\ e.clean = r.clean /\ e.i = r.i /\ e.pre = r.pre /\ e.post = r.post
BY DEF E!Jobs, UndoneTo

LEMMA JobStage ==
    ASSUME NEW r \in E!Jobs, NEW pc \in {"rename", "verify", "restored"}
    PROVE  LET e == StagedAt(r, pc) IN
           /\ e \in E!Jobs /\ e.id = r.id /\ e.pc = pc /\ e.why = r.why /\ e.applied = r.applied
           /\ e.i = r.i /\ e.clean = r.clean /\ e.pre = r.pre /\ e.post = r.post
BY DEF E!Jobs, StagedAt

\* At the start no preview was issued and no edit made.
LEMMA EditorStart == E!Init => E!ApplyInv
<1> SUFFICES ASSUME E!Init PROVE E!ApplyInv
    OBVIOUS
<1>1. /\ content = [f \in E!Files |-> << >>] /\ node = [f \in E!Files |-> <<"first", 0>>]
      /\ previews = {} /\ epoch = 1 /\ job = None /\ dirty = {}
      /\ captured = [p \in Previews |-> None] /\ result = [p \in Previews |-> None]
    BY DEF E!Init
<1>2. << >> \in E!Texts /\ DOMAIN << >> = {}
    BY DEF E!Texts
<1>3. E!TypeOK
    BY <1>1, <1>2 DEF E!TypeOK, E!Trees, E!Nodes
<1>4. E!Issued
    BY <1>1 DEF E!Issued, E!Known
<1>5. E!Edits
  <2>1. None \notin {"applied", "rolled_back", "conflicted"}
    BY EditingAssumption DEF E!Results
  <2>2. \A p \in Previews : \A f \in E!Files : ~E!Has(f, p) /\ result[p] = None
    BY <1>1, <1>2 DEF E!Has
  <2> QED
    BY <2>1, <2>2 DEF E!Edits
<1> QED
    BY <1>1, <1>3, <1>4, <1>5 DEF E!ApplyInv

\* Edits, of the applies, the files to be recaptured, an outcome and texts.
Alone(c, p) == \A f, g \in E!Files : Mark(c[f], p) /\ Mark(c[g], p) => f = g /\ Under(c[f], p)
EditOf(id, d, out, c, p, f) ==
    /\ out = "applied" => Mark(c[f], p)
    /\ out = None /\ p # id => ~Mark(c[f], p)
    /\ out \in {"rolled_back", "conflicted"} => Alone(c, p)
    /\ Mark(c[f], p) /\ p # id => f \in d

Holder == IF job = None THEN 0 ELSE job.id

LEMMA EditorEdits ==
    /\ E!Edits <=> \A p \in Previews : \A f \in E!Files :
                      EditOf(Holder, dirty, result[p], content, p, f)
    /\ E!Edits' <=> \A p \in Previews : \A f \in E!Files :
                       EditOf(Holder', dirty', result'[p], content', p, f)
<1>1. \A p \in Previews : (E!Settled(p) <=> p # Holder) /\ (E!Settled(p)' <=> p # Holder')
    BY EditingAssumption DEF E!Settled, Holder
<1>2. \A p \in Previews : /\ (E!OnlyBuried(p) <=> Alone(content, p))
                         /\ (E!OnlyBuried(p)' <=> Alone(content', p))
    BY DEF E!OnlyBuried, Alone, E!Has, E!Buried, Mark, Under
<1>3. E!Edits <=> \A p \in Previews : \A f \in E!Files :
                     EditOf(Holder, dirty, result[p], content, p, f)
    BY <1>1, <1>2, Zenon DEF E!Edits, EditOf, E!Has, Mark
<1>4. E!Edits' <=> \A p \in Previews : \A f \in E!Files :
                      EditOf(Holder', dirty', result'[p], content', p, f)
    BY <1>1, <1>2, Zenon DEF E!Edits, EditOf, E!Has, Mark
<1> QED
    BY <1>3, <1>4

\* Through, of an apply, texts and inodes.
Posted(j, c, n, f) == n[f] = <<"post", j.id>> /\ c[f] = j.post[f]
Final(j) == j.applied[Len(j.applied)]
Entered(j, c, f) ==
    \/ Mark(j.applied, f)
    \/ f = Targets[j.i] /\ (j.pc = "verify" \/ (j.pc \notin E!Committing /\ Under(c[f], j.id)))
HasGone(j, c, n) ==
    /\ \A f \in E!Files : ~Mark(j.pre[f], j.id) /\ j.post[f] = Append(j.pre[f], j.id)
    /\ j.pc \in E!Committing =>
          /\ j.why = "none"
          /\ \A i \in DOMAIN Targets : i < j.i => Mark(c[Targets[i]], j.id)
    /\ j.pc = "rename" => c[Targets[j.i]] = j.pre[Targets[j.i]]
    /\ j.pc = "verify" => Posted(j, c, n, Targets[j.i]) \/ Under(c[Targets[j.i]], j.id)
    /\ j.pc \in {"undo", "restore", "restored"} => j.why # "none"
    /\ j.pc = "restore" => j.applied # << >> /\ Posted(j, c, n, Final(j))
    /\ j.pc = "restored" => j.applied # << >> /\ ~Mark(c[Final(j)], j.id)
    /\ j.pc = "finish" => IF j.why = "none" THEN \A f \in E!Files : Mark(c[f], j.id)
                         ELSE j.applied = << >>
    /\ j.pc \in E!Committing \/ (j.why # "none" /\ j.clean) =>
          \A f \in E!Files :
             Mark(c[f], j.id) => Entered(j, c, f)

LEMMA EditorThrough ==
    /\ E!Through <=> HasGone(job, content, node)
    /\ E!Through' <=> HasGone(job', content', node')
    /\ \A f : E!IsPostimage(f) <=> Posted(job, content, node, f)
    /\ E!File = Targets[job.i] /\ E!Last(job.applied) = Final(job)
<1>1. /\ E!Through <=> HasGone(job, content, node)
      /\ \A f : E!IsPostimage(f) <=> Posted(job, content, node, f)
      /\ E!File = Targets[job.i] /\ E!Last(job.applied) = Final(job)
  BY Zenon DEF E!Through, HasGone, Entered, Posted, Final, Mark, Under, E!Has, E!Buried,
         E!IsPostimage, E!PostNode, E!File, Targets, E!Last
<1>2. E!Through' <=> HasGone(job', content', node')
  BY Zenon DEF E!Through, HasGone, Entered, Posted, Final, Mark, Under, E!Has, E!Buried,
         E!IsPostimage, E!PostNode, E!File, Targets, E!Last
<1> QED
  BY <1>1, <1>2

\* A step of the registry, which touches no file and no apply.
LEMMA EditorRegistry ==
    ASSUME E!ApplyInv, UNCHANGED <<content, node, job, result, dirty>>,
           captured' \in [Previews -> {None, Spent} \cup [bytes : E!Trees, epoch : Nat]],
           epoch' \in Nat, \A r \in previews' : r.id \in Previews /\ r.pre \in E!Trees,
           E!Issued'
    PROVE  E!ApplyInv'
<1>1. E!TypeOK'
    BY DEF E!ApplyInv, E!TypeOK
<1>2. E!Edits'
    BY EditorEdits DEF E!ApplyInv, Holder
<1>3. job' # None => E!Through'
    BY EditorThrough DEF E!ApplyInv
<1> QED
    BY <1>1, <1>2, <1>3 DEF E!ApplyInv

\* A step of an apply that keeps its preview and changes no edit but its own.
LEMMA EditorGoesOn ==
    ASSUME E!ApplyInv, job # None, NEW j \in E!Jobs, job' = j, j.id = job.id,
           content' \in E!Trees, node' \in E!Nodes,
           UNCHANGED <<captured, previews, consumed, epoch, result, dirty>>,
           \A p \in Previews \ {job.id} : \A f \in E!Files :
              /\ Mark(content'[f], p) <=> Mark(content[f], p)
              /\ Under(content[f], p) => Under(content'[f], p),
           E!Through'
    PROVE  E!ApplyInv'
<1>1. j # None
    BY EditingAssumption
<1>2. E!TypeOK'
    BY DEF E!ApplyInv, E!TypeOK
<1>3. E!Issued'
    BY <1>1 DEF E!ApplyInv, E!Issued, E!Known
<1>4. E!Edits'
  <2> SUFFICES ASSUME NEW p \in Previews, NEW f \in E!Files
               PROVE  EditOf(job.id, dirty, result[p], content', p, f)
    BY <1>1, EditorEdits DEF Holder
  <2>1. \A g \in E!Files : EditOf(job.id, dirty, result[p], content, p, g)
    BY EditorEdits DEF E!ApplyInv, Holder
  <2>2. result[job.id] = None /\ None \notin {"applied", "rolled_back", "conflicted"}
    BY EditingAssumption DEF E!ApplyInv, E!Issued, E!TypeOK, E!Jobs, E!Results
  <2> QED
    BY <2>1, <2>2 DEF EditOf, Alone
<1> QED
    BY <1>2, <1>3, <1>4 DEF E!ApplyInv

\* Another program adds to a file that is not between a check and its rename.
LEMMA EditorOutsideWrite ==
    ASSUME E!ApplyInv, NEW f \in E!Files, E!OutsideWrite(f)
    PROVE  E!ApplyInv'
<1>1. /\ content' = [content EXCEPT ![f] = Append(content[f], 0)] /\ ~E!Window(f)
      /\ UNCHANGED <<node, captured, previews, consumed, epoch, job, result, dirty>>
    BY DEF E!OutsideWrite
<1>2. content \in [E!Files -> E!Texts] /\ E!TypeOK
    BY DEF E!ApplyInv, E!TypeOK, E!Trees
<1>3. /\ Append(content[f], 0) \in E!Texts
      /\ \A p \in Previews :
            /\ Mark(Append(content[f], 0), p) <=> Mark(content[f], p)
            /\ Under(content[f], p) => Under(Append(content[f], 0), p)
    BY <1>2, EditorAppend, EditingAssumption
<1>4. /\ content' \in [E!Files -> E!Texts]
      /\ \A g \in E!Files \ {f} : content'[g] = content[g]
      /\ \A p \in Previews : \A g \in E!Files :
            /\ Mark(content'[g], p) <=> Mark(content[g], p)
            /\ Under(content[g], p) => Under(content'[g], p)
    BY <1>1, <1>2, <1>3
<1>5. CASE job = None
  <2>1. E!TypeOK' /\ E!Issued'
    BY <1>1, <1>2, <1>4 DEF E!ApplyInv, E!TypeOK, E!Trees, E!Issued, E!Known
  <2>2. E!Edits'
    <3>1. \A p \in Previews : \A g \in E!Files : EditOf(Holder, dirty, result[p], content, p, g)
      BY EditorEdits DEF E!ApplyInv
    <3>2. Holder' = Holder /\ dirty' = dirty /\ result' = result
      BY <1>1 DEF Holder
    <3>3. \A p \in Previews : \A g \in E!Files : EditOf(Holder, dirty, result[p], content', p, g)
      BY <1>4, <3>1 DEF EditOf, Alone
    <3> QED
      BY <3>2, <3>3, EditorEdits
  <2> QED
    BY <1>1, <1>5, <2>1, <2>2 DEF E!ApplyInv
<1>6. CASE job # None
  <2> PICK j \in E!Jobs : j = job
    BY <1>2, <1>6 DEF E!TypeOK
  <2>1. HasGone(j, content, node)
    BY <1>6, EditorThrough DEF E!ApplyInv
  <2>2. /\ j.id \in Previews /\ j.i \in DOMAIN Targets /\ Targets[j.i] \in E!Files
        /\ \A i \in DOMAIN Targets : Targets[i] \in E!Files
        /\ j.applied \in Seq(E!Files) /\ j.pre \in E!Trees
    BY EditorFiles DEF E!Jobs
  <2>3. j.pc = "rename" => content'[Targets[j.i]] = content[Targets[j.i]]
    BY <1>1, <1>4, <1>6, <2>2 DEF E!Window, Targets
  <2>4. j.pc = "restore" => content'[Final(j)] = content[Final(j)]
    <3>1. j.pc = "restore" => Final(j) # f
      BY <1>1, <1>6, EditorThrough DEF E!Window
    <3> QED
      BY <1>1, <1>2, <3>1
  <2>5. j.pc = "verify" => Posted(j, content', node', Targets[j.i]) \/ Under(content'[Targets[j.i]], j.id)
    <3> PICK g \in E!Files : g = Targets[j.i]
      BY <2>2
    <3>1. CASE Under(content[g], j.id)
      BY <1>4, <2>2, <3>1
    <3>2. CASE g # f
      BY <1>1, <1>4, <2>1, <3>2 DEF HasGone, Posted
    <3>3. CASE g = f /\ Posted(j, content, node, g)
      <4>1. content[f] = Append(j.pre[f], j.id) /\ j.pre[f] \in E!Texts
        BY <2>1, <2>2, <3>3 DEF HasGone, Posted, E!Trees
      <4>2. content'[f] = Append(Append(j.pre[f], j.id), 0)
        BY <1>1, <1>2, <4>1
      <4> QED
        BY <2>2, <3>3, <4>1, <4>2, EditorBuries
    <3> QED
      BY <2>1, <3>1, <3>2, <3>3 DEF HasGone
  <2>6. j.pc = "restored" => ~Mark(content'[Final(j)], j.id)
    <3>1. j.pc = "restored" => Final(j) \in E!Files
      BY <2>1, <2>2 DEF HasGone, Final
    <3> QED
      BY <1>4, <2>1, <2>2, <3>1 DEF HasGone
  <2>7. \A g \in E!Files : Entered(j, content, g) => Entered(j, content', g)
    BY <1>4, <2>2 DEF Entered
  <2>8. HasGone(j, content', node)
    <3>1. j.pc = "restore" => Posted(j, content', node, Final(j))
      BY <2>1, <2>4 DEF HasGone, Posted
    <3> QED
      BY <1>1, <1>4, <2>1, <2>2, <2>3, <2>5, <2>6, <2>7, <3>1 DEF HasGone
  <2>9. E!Through'
    BY <1>1, <2>8, EditorThrough
  <2> QED
    BY <1>1, <1>2, <1>4, <1>6, <2>9, EditorGoesOn DEF E!TypeOK, E!Trees
<1> QED
    BY <1>5, <1>6

\* Steps that leave the registry and the applies alone, or spend a preview.
LEMMA EditorAside ==
    ASSUME E!ApplyInv,
           \/ \E d \in E!Dirs : E!OutsideMove(d)
           \/ \E p \in Previews : E!PreviewFails(p) \/ E!Expire(p)
           \/ E!RestartServer
           \/ UNCHANGED EditorVars
    PROVE  E!ApplyInv'
<1>1. /\ UNCHANGED <<content, node, job, result, dirty, previews, consumed>>
      /\ epoch' \in Nat
      /\ captured' = captured \/ \E p \in Previews : captured' = [captured EXCEPT ![p] = Spent]
    BY DEF E!OutsideMove, E!PreviewFails, E!Expire, E!RestartServer, EditorVars, E!ApplyInv, E!TypeOK
<1>2. /\ captured \in [Previews -> {None, Spent} \cup [bytes : E!Trees, epoch : Nat]]
      /\ \A r \in previews : r.id \in Previews /\ r.pre \in E!Trees
    BY DEF E!ApplyInv, E!TypeOK
<1>3. /\ captured' \in [Previews -> {None, Spent} \cup [bytes : E!Trees, epoch : Nat]]
      /\ \A p \in Previews : captured[p] = Spent => captured'[p] = Spent
    BY <1>1, <1>2
<1>4. E!Issued'
    BY <1>1, <1>3 DEF E!ApplyInv, E!Issued, E!Known
<1> QED
    BY <1>1, <1>2, <1>3, <1>4, EditorRegistry

\* A preview captures the files.
LEMMA EditorBeginPreview ==
    ASSUME E!ApplyInv, NEW p \in Previews, E!BeginPreview(p)
    PROVE  E!ApplyInv'
<1> DEFINE r == [bytes |-> content, epoch |-> epoch]
<1>1. /\ captured[p] = None /\ captured' = [captured EXCEPT ![p] = r]
      /\ UNCHANGED <<content, node, job, result, dirty, previews, consumed, epoch>>
    BY DEF E!BeginPreview
<1>2. /\ captured \in [Previews -> {None, Spent} \cup [bytes : E!Trees, epoch : Nat]]
      /\ \A q \in previews : q.id \in Previews /\ q.pre \in E!Trees
      /\ r \in [bytes : E!Trees, epoch : Nat] /\ epoch \in Nat
    BY DEF E!ApplyInv, E!TypeOK
<1> HIDE DEF r
<1>3. /\ captured' \in [Previews -> {None, Spent} \cup [bytes : E!Trees, epoch : Nat]]
      /\ \A q \in Previews : captured[q] = Spent => captured'[q] = Spent
    BY <1>1, <1>2, EditingAssumption
<1>4. E!Issued'
    BY <1>1, <1>3 DEF E!ApplyInv, E!Issued, E!Known
<1> QED
    BY <1>1, <1>2, <1>3, <1>4, EditorRegistry

\* A preview is issued once: it was neither known nor applied before.
LEMMA EditorIssue ==
    ASSUME E!ApplyInv, NEW p \in Previews, NEW origin, E!Issue(p, origin)
    PROVE  E!ApplyInv'
<1> DEFINE no == E!NextNo
           at == IF origin = "lsp" THEN captured[p].epoch ELSE 0
           r == [no |-> no, id |-> p, origin |-> origin, pre |-> captured[p].bytes, epoch |-> at]
           kept == E!Bounded(E!Pruned \cup {r})
           ids == {q.id : q \in kept}
<1>1. /\ captured[p] \notin {None, Spent}
      /\ previews' = kept /\ consumed' = consumed \cap ids
      /\ captured' = [captured EXCEPT ![p] = Spent]
      /\ UNCHANGED <<content, node, job, result, dirty, epoch>>
    BY Zenon DEF E!Issue
<1>2. /\ captured \in [Previews -> {None, Spent} \cup [bytes : E!Trees, epoch : Nat]]
      /\ \A q \in previews : q.id \in Previews /\ q.pre \in E!Trees
      /\ epoch \in Nat
    BY DEF E!ApplyInv, E!TypeOK
<1> HIDE DEF no, at
<1>3. r.id = p /\ r.pre \in E!Trees
    BY <1>1, <1>2
<1> HIDE DEF r
<1>4. kept \subseteq previews \cup {r}
    BY DEF E!Bounded, E!Pruned
<1> HIDE DEF kept
<1>5. \A q \in kept : q.id \in Previews /\ q.pre \in E!Trees
    BY <1>2, <1>3, <1>4
<1>6. /\ captured' \in [Previews -> {None, Spent} \cup [bytes : E!Trees, epoch : Nat]]
      /\ captured'[p] = Spent /\ \A q \in Previews \ {p} : captured'[q] = captured[q]
    BY <1>1, <1>2
<1>7. E!Issued'
  <2> SUFFICES ASSUME NEW q \in Previews
               PROVE  /\ (\E s \in kept : s.id = q) => captured'[q] = Spent
                      /\ result[q] # None \/ (job # None /\ job.id = q) =>
                            captured'[q] = Spent /\ ((\E s \in kept : s.id = q) => q \in consumed')
                      /\ job # None /\ job.id = q => result[q] = None
    BY <1>1 DEF E!Issued, E!Known
  <2>1. /\ (\E s \in previews : s.id = q) => captured[q] = Spent
        /\ result[q] # None \/ (job # None /\ job.id = q) =>
              captured[q] = Spent /\ ((\E s \in previews : s.id = q) => q \in consumed)
        /\ job # None /\ job.id = q => result[q] = None
    BY DEF E!ApplyInv, E!Issued, E!Known
  <2>2. CASE q = p
    BY <1>1, <1>6, <2>1, <2>2
  <2>3. CASE q # p
    <3>1. (\E s \in kept : s.id = q) => (\E s \in previews : s.id = q) /\ q \in ids
      BY <1>3, <1>4, <2>3
    <3> HIDE DEF ids
    <3> QED
      BY <1>1, <1>6, <2>1, <2>3, <3>1
  <2> QED
    BY <2>2, <2>3
<1> QED
    BY <1>1, <1>2, <1>5, <1>6, <1>7, EditorRegistry

\* An expired preview is dropped.
LEMMA EditorRefuseApply ==
    ASSUME E!ApplyInv, NEW p \in Previews, E!RefuseApply(p)
    PROVE  E!ApplyInv'
<1>1. /\ previews' = {r \in previews : r.id # p} /\ consumed' = consumed \ {p}
      /\ UNCHANGED <<content, node, job, result, dirty, captured, epoch>>
    BY DEF E!RefuseApply
<1>2. /\ captured \in [Previews -> {None, Spent} \cup [bytes : E!Trees, epoch : Nat]]
      /\ \A q \in previews : q.id \in Previews /\ q.pre \in E!Trees
      /\ epoch \in Nat
    BY DEF E!ApplyInv, E!TypeOK
<1>3. E!Issued'
    BY <1>1 DEF E!ApplyInv, E!Issued, E!Known
<1> QED
    BY <1>1, <1>2, <1>3, EditorRegistry

\* A preview is claimed: its files are as it captured them, or it conflicts.
LEMMA EditorBeginApply ==
    ASSUME E!ApplyInv, NEW p \in Previews, E!BeginApply(p)
    PROVE  E!ApplyInv'
<1>1. /\ job = None /\ consumed' = consumed \cup {p} /\ E!Known(p) /\ p \notin consumed
      /\ UNCHANGED <<content, node, captured, previews, epoch>>
    BY DEF E!BeginApply, E!Claimable
<1>2. /\ E!TypeOK /\ E!Issued /\ E!Edits
      /\ \A g \in E!Files : content[g] \in E!Texts
    BY DEF E!ApplyInv, E!TypeOK, E!Trees
<1>3. captured[p] = Spent /\ result[p] = None
    BY <1>1, <1>2 DEF E!Issued
<1>a. \A q \in Previews : \A f \in E!Files : EditOf(0, dirty, result[q], content, q, f)
    BY <1>1, <1>2, EditorEdits DEF Holder
<1>4. \A f \in E!Files : ~Mark(content[f], p)
    BY <1>3, <1>a, EditingAssumption DEF EditOf
<1>b. "conflicted" # None /\ "conflicted" # "applied"
    BY EditingAssumption DEF E!Results
<1>5. CASE ~E!Bindable(p)
  <2>1. /\ job' = None /\ result' = [result EXCEPT ![p] = "conflicted"] /\ dirty' = E!Files
    BY <1>5 DEF E!BeginApply
  <2>2. result' \in [Previews -> E!Results \cup {None}] /\ result'[p] = "conflicted"
        /\ \A q \in Previews \ {p} : result'[q] = result[q]
    BY <1>2, <2>1 DEF E!TypeOK, E!Results
  <2>3. E!TypeOK'
    BY <1>1, <1>2, <2>1, <2>2 DEF E!TypeOK
  <2>4. E!Issued'
    BY <1>1, <1>2, <1>3, <2>1, <2>2 DEF E!Issued, E!Known
  <2>5. E!Edits'
    <3>1. \A q \in Previews : \A f \in E!Files : EditOf(0, E!Files, result'[q], content, q, f)
      BY <1>4, <1>a, <1>b, <2>2 DEF EditOf, Alone
    <3>2. Holder' = 0 /\ dirty' = E!Files /\ content' = content
      BY <1>1, <2>1 DEF Holder
    <3> QED
      BY <3>1, <3>2, EditorEdits
  <2> QED
    BY <2>1, <2>3, <2>4, <2>5 DEF E!ApplyInv
<1>6. CASE E!Bindable(p)
  <2> DEFINE pre == E!Record(p).pre
             post == [f \in E!Files |-> E!Post(p, f)]
             applied == << >>
             j == [id |-> p, pc |-> "check", i |-> 1, applied |-> applied, nodes |-> node,
                   pre |-> pre, post |-> post,
                   why |-> "none", conflict |-> FALSE, some |-> FALSE, clean |-> TRUE,
                   bound |-> TRUE]
  <2>1. job' = j /\ result' = result /\ dirty' = dirty
    BY <1>6, Zenon DEF E!BeginApply
  <2>2. E!Record(p) \in previews
    BY <1>1 DEF E!Record, E!Known
  <2>3. pre \in E!Trees /\ \A f \in E!Files : pre[f] = content[f]
    BY <1>2, <1>6, <2>2 DEF E!TypeOK, E!Bindable
  <2>4. /\ post \in E!Trees /\ \A f \in E!Files : post[f] = Append(pre[f], p)
    <3>1. \A f \in E!Files : E!Post(p, f) = Append(pre[f], p) /\ Append(pre[f], p) \in E!Texts
      BY <2>3, EditorAppend DEF E!Post, E!Trees
    <3> QED
      BY <3>1 DEF E!Trees
  <2>5. applied \in Seq(E!Files) /\ node \in E!Nodes /\ DOMAIN applied = {}
    BY <1>2 DEF E!TypeOK
  <2> HIDE DEF pre, post, applied
  <2>6. j \in E!Jobs
    BY <2>3, <2>4, <2>5, EditorFiles DEF E!Jobs, Targets
  <2>7. /\ j.id = p /\ j.pc = "check" /\ j.i = 1 /\ j.pre = pre /\ j.post = post /\ j.why = "none"
        /\ j.applied = applied
    OBVIOUS
  <2> HIDE DEF j
  <2>8. j # None
    BY <2>6, EditingAssumption
  <2>9. HasGone(j, content, node)
    BY <1>4, <2>3, <2>4, <2>7, EditorFiles DEF HasGone, E!Committing
  <2>10. E!TypeOK' /\ E!Issued'
    BY <1>1, <1>2, <1>3, <2>1, <2>6, <2>7, <2>8 DEF E!TypeOK, E!Issued, E!Known
  <2>11. E!Edits'
    <3>1. \A q \in Previews : \A f \in E!Files : EditOf(p, dirty, result[q], content, q, f)
      BY <1>4, <1>a, EditingAssumption DEF EditOf
    <3>2. Holder' = p /\ dirty' = dirty /\ content' = content /\ result' = result
      BY <1>1, <2>1, <2>7, <2>8 DEF Holder
    <3> QED
      BY <3>1, <3>2, EditorEdits
  <2>12. E!Through'
    BY <1>1, <2>1, <2>9, EditorThrough
  <2> QED
    BY <2>10, <2>11, <2>12 DEF E!ApplyInv
<1> QED
    BY <1>5, <1>6

\* The files an apply has gone through: one more, and all but the last.
LEMMA AppliedAppend ==
    ASSUME NEW s \in Seq(E!Files), NEW x \in E!Files
    PROVE  Append(s, x) \in Seq(E!Files) /\ \A f : Mark(Append(s, x), f) <=> (f = x \/ Mark(s, f))
<1>1. /\ Append(s, x) \in Seq(E!Files)
      /\ Len(Append(s, x)) = Len(s) + 1 /\ Len(s) \in Nat
      /\ DOMAIN s = 1..Len(s) /\ DOMAIN Append(s, x) = 1..(Len(s) + 1)
      /\ \A n \in 1..Len(s) : Append(s, x)[n] = s[n]
      /\ Append(s, x)[Len(s) + 1] = x
    OBVIOUS
<1> QED
    BY <1>1 DEF Mark

LEMMA AppliedFront ==
    ASSUME NEW s \in Seq(E!Files), s # << >>
    PROVE  /\ E!Front(s) \in Seq(E!Files) /\ s[Len(s)] \in E!Files
           /\ \A f : Mark(s, f) => f = s[Len(s)] \/ Mark(E!Front(s), f)
<1>1. Len(s) \in Nat /\ Len(s) >= 1 /\ DOMAIN s = 1..Len(s)
    OBVIOUS
<1>2. E!Front(s) = SubSeq(s, 1, Len(s) - 1)
    BY DEF E!Front
<1>3. /\ E!Front(s) \in Seq(E!Files) /\ Len(E!Front(s)) = Len(s) - 1
      /\ DOMAIN E!Front(s) = 1..(Len(s) - 1)
      /\ \A n \in 1..(Len(s) - 1) : E!Front(s)[n] = s[n]
    BY <1>1, <1>2
<1>4. s[Len(s)] \in E!Files
    BY <1>1
<1> QED
    BY <1>1, <1>3, <1>4 DEF Mark

\* What holds of the apply in progress.
LEMMA EditorOfJob ==
    ASSUME E!ApplyInv, job # None
    PROVE  /\ job \in E!Jobs /\ HasGone(job, content, node)
           /\ content \in E!Trees /\ node \in E!Nodes
           /\ job.id \in Previews /\ job.id # 0 /\ job.i \in DOMAIN Targets
           /\ Targets[job.i] \in E!Files /\ job.applied \in Seq(E!Files)
           /\ job.pre \in E!Trees /\ job.post \in E!Trees
           /\ job.clean \in BOOLEAN /\ job.conflict \in BOOLEAN
<1>1. job \in E!Jobs /\ content \in E!Trees /\ node \in E!Nodes
    BY DEF E!ApplyInv, E!TypeOK
<1>2. HasGone(job, content, node)
    BY EditorThrough DEF E!ApplyInv
<1> QED
    BY <1>1, <1>2, EditorFiles, EditingAssumption DEF E!Jobs, Targets

\* A step of an apply that leaves the files alone.
LEMMA EditorJobStep ==
    ASSUME E!ApplyInv, job # None, NEW j \in E!Jobs, job' = j, j.id = job.id,
           UNCHANGED <<content, node, captured, previews, consumed, epoch, result, dirty>>,
           HasGone(j, content, node)
    PROVE  E!ApplyInv'
<1>1. E!Through'
    BY EditorThrough
<1> QED
    BY <1>1, EditorOfJob, EditorGoesOn

\* The commit ends early: the file is among the applied ones if it has the edit.
LEMMA EditorFails ==
    ASSUME E!ApplyInv, job # None, job.pc \in E!Committing,
           NEW why \in {"drift", "cancelled", "error"}, job' = E!Fail(why),
           UNCHANGED <<content, node, captured, previews, consumed, epoch, result, dirty>>
    PROVE  E!ApplyInv'
<1> DEFINE file == Targets[job.i]
           applied == IF Posted(job, content, node, file) THEN Append(job.applied, file)
                      ELSE job.applied
           conflict == ((f1 :> d1) @@ (f2 :> d2))[file] \in moved
           some == job.applied # << >> \/ Posted(job, content, node, file)
<1>0. conflict \in BOOLEAN /\ some \in BOOLEAN
    OBVIOUS
<1> HIDE DEF conflict, some
<1> PICK b \in BOOLEAN : b = conflict
    BY <1>0
<1> PICK s \in BOOLEAN : s = some
    BY <1>0
<1> DEFINE j == Failed(job, why, b, s, applied)
<1>1. /\ job \in E!Jobs /\ HasGone(job, content, node) /\ file \in E!Files
      /\ job.applied \in Seq(E!Files)
    BY EditorOfJob
<1>2. E!Fail(why) = j
  <2>1. E!IsPostimage(E!File) <=> Posted(job, content, node, file)
    BY EditorThrough
  <2>2. E!File = file
    BY EditorThrough
  <2> QED
    BY <2>1, <2>2 DEF E!Fail, Failed, conflict, some
<1>3. applied \in Seq(E!Files) /\ \A f : Mark(job.applied, f) => Mark(applied, f)
    BY <1>1, AppliedAppend
<1>4. Posted(job, content, node, file) => Mark(applied, file)
    BY <1>1, AppliedAppend
<1> HIDE DEF applied
<1>j. j = Failed(job, why, b, s, applied)
    OBVIOUS
<1> HIDE DEF j
<1>6. /\ j \in E!Jobs /\ j.id = job.id /\ j.pc = "undo" /\ j.why = why /\ j.applied = applied
      /\ j.i = job.i /\ j.pre = job.pre /\ j.post = job.post
  <2>1. LET e == Failed(job, why, b, s, applied) IN
        /\ e \in E!Jobs /\ e.id = job.id /\ e.pc = "undo" /\ e.why = why /\ e.applied = applied
        /\ e.i = job.i /\ e.pre = job.pre /\ e.post = job.post
    <3>1. job \in E!Jobs
      BY <1>1
    <3>2. applied \in Seq(E!Files)
      BY <1>3
    <3>3. why \in {"drift", "cancelled", "error"} /\ b \in BOOLEAN /\ s \in BOOLEAN
      OBVIOUS
    <3> QED
      BY <3>1, <3>2, <3>3, JobFailed
  <2> QED
    BY <1>j, <2>1
<1>7. HasGone(j, content, node)
  <2>1. \A f \in E!Files : Mark(content[f], job.id) => Entered(job, content, f)
    BY <1>1 DEF HasGone
  <2>2. job.pc = "verify" => Posted(job, content, node, file) \/ Under(content[file], job.id)
    BY <1>1 DEF HasGone
  <2>3. \A f \in E!Files : Entered(job, content, f) => Entered(j, content, f)
    BY <1>3, <1>4, <1>6, <2>2 DEF Entered, E!Committing
  <2>4. \A f \in E!Files : ~Mark(j.pre[f], j.id) /\ j.post[f] = Append(j.pre[f], j.id)
    BY <1>1, <1>6 DEF HasGone
  <2> QED
    BY <1>6, <2>1, <2>3, <2>4 DEF HasGone, E!Committing
<1> QED
    BY <1>2, <1>6, <1>7, EditorJobStep

\* A stage of a commit: the check before the rename.
LEMMA EditorCheck ==
    ASSUME E!ApplyInv, E!Check
    PROVE  E!ApplyInv'
<1>1. /\ job # None /\ job.pc = "check"
      /\ UNCHANGED <<content, node, captured, previews, consumed, epoch, result, dirty>>
    BY DEF E!Check
<1>2. CASE E!CheckTarget
  <2> DEFINE j == StagedAt(job, "rename")
  <2>1. job' = j
    BY <1>2 DEF E!Check, StagedAt
  <2>2. job \in E!Jobs /\ HasGone(job, content, node)
    BY <1>1, EditorOfJob
  <2>3. /\ j \in E!Jobs /\ j.id = job.id /\ j.pc = "rename" /\ j.why = job.why
        /\ j.applied = job.applied /\ j.i = job.i /\ j.pre = job.pre /\ j.post = job.post
    BY <2>2, JobStage
  <2> HIDE DEF j
  <2>4. content[Targets[job.i]] = job.pre[Targets[job.i]]
    BY <1>2, EditorThrough DEF E!CheckTarget
  <2>5. HasGone(j, content, node)
    BY <1>1, <2>2, <2>3, <2>4 DEF HasGone, Entered, E!Committing
  <2> QED
    BY <1>1, <2>1, <2>3, <2>5, EditorJobStep
<1>3. CASE ~E!CheckTarget
  <2>1. job' = E!Fail("drift")
    BY <1>3 DEF E!Check
  <2>2. job.pc \in E!Committing
    BY <1>1 DEF E!Committing
  <2> QED
    BY <1>1, <2>1, <2>2, EditorFails
<1> QED
    BY <1>2, <1>3

\* A rename that raises, and a cancellation.
LEMMA EditorFault ==
    ASSUME E!ApplyInv, E!Fault
    PROVE  E!ApplyInv'
<1>1. /\ job # None /\ job.pc \in E!Committing
      /\ job' = E!Fail("cancelled") \/ job' = E!Fail("error")
      /\ UNCHANGED <<content, node, captured, previews, consumed, epoch, result, dirty>>
    BY DEF E!Fault, E!Committing
<1> QED
    BY <1>1, EditorFails

\* The postimage and the directory once more; then the next file, or the end.
LEMMA EditorVerify ==
    ASSUME E!ApplyInv, E!Verify
    PROVE  E!ApplyInv'
<1>1. /\ job # None /\ job.pc = "verify"
      /\ UNCHANGED <<content, node, captured, previews, consumed, epoch, result, dirty>>
    BY DEF E!Verify
<1> DEFINE file == Targets[job.i]
           lost == ~E!IsPostimage(E!File) \/ ((f1 :> d1) @@ (f2 :> d2))[E!File] \in moved
<1>2. CASE lost
  <2>1. job' = E!Fail("drift")
    BY <1>2 DEF E!Verify
  <2>2. job.pc \in E!Committing
    BY <1>1 DEF E!Committing
  <2> QED
    BY <1>1, <2>1, <2>2, EditorFails
<1>3. CASE ~lost
  <2> PICK pc \in {"check", "finish"} : pc = IF job.i = 2 THEN "finish" ELSE "check"
    OBVIOUS
  <2> PICK i : i = IF job.i = 2 THEN job.i ELSE job.i + 1
    OBVIOUS
  <2> DEFINE applied == Append(job.applied, file)
             j == AdvancedTo(job, applied, pc, i)
  <2>1. job' = j
    BY <1>3, EditorThrough, EditorFiles DEF E!Verify, AdvancedTo, Targets
  <2>2. /\ job \in E!Jobs /\ HasGone(job, content, node) /\ file \in E!Files
        /\ job.applied \in Seq(E!Files) /\ job.i \in DOMAIN Targets
        /\ job.post[file] = Append(job.pre[file], job.id)
        /\ job.pre[file] \in E!Texts /\ job.id \in Previews
    BY <1>1, EditorOfJob DEF HasGone, E!Trees
  <2>3. i \in DOMAIN Targets
    BY <2>2, EditorFiles
  <2>4. applied \in Seq(E!Files) /\ \A f : Mark(applied, f) <=> (f = file \/ Mark(job.applied, f))
    BY <2>2, AppliedAppend
  <2> HIDE DEF applied
  <2>5. /\ j \in E!Jobs /\ j.id = job.id /\ j.pc = pc /\ j.why = job.why
        /\ j.applied = applied /\ j.i = i /\ j.pre = job.pre /\ j.post = job.post
    <3>1. job \in E!Jobs /\ applied \in Seq(E!Files)
      BY <2>2, <2>4
    <3> QED
      BY <3>1, <2>3, JobAdvanced
  <2> HIDE DEF j
  <2>6. Mark(content[file], job.id)
    <3>1. content[file] = job.post[file]
      BY <1>3, EditorThrough DEF Posted
    <3> QED
      BY <2>2, <3>1, EditorAppend
  <2>7. \A k \in DOMAIN Targets : k < job.i \/ k = job.i => Mark(content[Targets[k]], job.id)
    BY <1>1, <2>2, <2>6 DEF HasGone, E!Committing
  <2>8. HasGone(j, content, node)
    <3>1. job.why = "none"
      BY <1>1, <2>2 DEF HasGone, E!Committing
    <3>2. j.pc = "check" => \A k \in DOMAIN Targets : k < j.i => Mark(content[Targets[k]], j.id)
      BY <2>2, <2>5, <2>7, EditorFiles
    <3>3. j.pc = "finish" => \A f \in E!Files : Mark(content[f], j.id)
      BY <2>2, <2>5, <2>7, EditorFiles
    <3>4. \A f \in E!Files : Mark(content[f], j.id) => Mark(j.applied, f)
      BY <1>1, <2>2, <2>4, <2>5 DEF HasGone, Entered, E!Committing
    <3>5. \A f \in E!Files : ~Mark(j.pre[f], j.id) /\ j.post[f] = Append(j.pre[f], j.id)
      BY <2>2, <2>5 DEF HasGone
    <3> QED
      BY <2>5, <3>1, <3>2, <3>3, <3>4, <3>5 DEF HasGone, Entered, E!Committing
  <2> QED
    BY <1>1, <2>1, <2>5, <2>8, EditorJobStep
<1> QED
    BY <1>2, <1>3

\* The rename: the file has the edit on top of what it had.
LEMMA EditorRename ==
    ASSUME E!ApplyInv, E!Rename
    PROVE  E!ApplyInv'
<1> PICK file : file = Targets[job.i]
    OBVIOUS
<1> DEFINE j == StagedAt(job, "verify")
<1>1. /\ job # None /\ job.pc = "rename" /\ job' = j
      /\ content' = [content EXCEPT ![file] = job.post[file]]
      /\ node' = [node EXCEPT ![file] = <<"post", job.id>>]
      /\ UNCHANGED <<captured, previews, consumed, epoch, result, dirty>>
    BY EditorThrough DEF E!Rename, StagedAt, E!PostNode
<1>2. /\ job \in E!Jobs /\ HasGone(job, content, node) /\ file \in E!Files
      /\ content \in [E!Files -> E!Texts] /\ node \in E!Nodes /\ job.id \in Previews
      /\ job.post[file] = Append(job.pre[file], job.id) /\ job.post[file] \in E!Texts
      /\ job.pre[file] \in E!Texts /\ content[file] = job.pre[file]
    BY <1>1, EditorOfJob DEF HasGone, E!Trees
<1>3. /\ j \in E!Jobs /\ j.id = job.id /\ j.pc = "verify" /\ j.why = job.why
      /\ j.applied = job.applied /\ j.i = job.i /\ j.pre = job.pre /\ j.post = job.post
    BY <1>2, JobStage
<1> HIDE DEF j
<1>4. /\ content' \in [E!Files -> E!Texts] /\ content'[file] = job.post[file]
      /\ \A g \in E!Files \ {file} : content'[g] = content[g]
    BY <1>1, <1>2
<1>5. node' \in E!Nodes /\ node'[file] = <<"post", job.id>>
    BY <1>1, <1>2 DEF E!Nodes
<1>6. \A p :
         /\ Mark(job.post[file], p) <=> (p = job.id \/ Mark(content[file], p))
         /\ Under(content[file], p) => Under(job.post[file], p)
    BY <1>2, EditorAppend
<1>7. \A p \in Previews \ {job.id} : \A g \in E!Files :
         /\ Mark(content'[g], p) <=> Mark(content[g], p)
         /\ Under(content[g], p) => Under(content'[g], p)
    BY <1>4, <1>6
<1>8. HasGone(j, content', node')
  <2>1. \A k \in DOMAIN Targets : k < job.i => Mark(content'[Targets[k]], job.id)
    <3>1. \A g \in E!Files : Mark(content[g], job.id) => Mark(content'[g], job.id)
      BY <1>4, <1>6
    <3>2. \A k \in DOMAIN Targets : k < job.i => Mark(content[Targets[k]], job.id)
      BY <1>1, <1>2 DEF HasGone, E!Committing
    <3> QED
      BY <3>1, <3>2, EditorFiles
  <2>2. \A f \in E!Files : Mark(content'[f], j.id) => Mark(j.applied, f) \/ f = file
    BY <1>1, <1>2, <1>3, <1>4 DEF HasGone, Entered, E!Committing
  <2>3. Posted(j, content', node', file)
    BY <1>3, <1>4, <1>5 DEF Posted
  <2>4. \A f \in E!Files : ~Mark(j.pre[f], j.id) /\ j.post[f] = Append(j.pre[f], j.id)
    BY <1>2, <1>3 DEF HasGone
  <2>5. job.why = "none"
    BY <1>1, <1>2 DEF HasGone, E!Committing
  <2> QED
    BY <1>3, <2>1, <2>2, <2>3, <2>4, <2>5 DEF HasGone, Entered, E!Committing
<1>9. E!Through'
    BY <1>1, <1>8, EditorThrough
<1>10. content' \in E!Trees
    BY <1>4 DEF E!Trees
<1> QED
    BY <1>1, <1>3, <1>5, <1>7, <1>9, <1>10, EditorGoesOn

\* A file is dropped from the rollback.
LEMMA EditorDropped ==
    ASSUME E!ApplyInv, job # None, job.applied # << >>,
           NEW b \in BOOLEAN, NEW j, j = DroppedTo(job, E!Front(job.applied), job.clean /\ b)
    PROVE  /\ j \in E!Jobs /\ j.id = job.id /\ j.pc = "undo" /\ j.why = job.why
           /\ j.applied = E!Front(job.applied) /\ j.clean = (job.clean /\ b)
           /\ j.i = job.i /\ j.pre = job.pre /\ j.post = job.post
<1>1. job \in E!Jobs /\ job.applied \in Seq(E!Files) /\ job.clean \in BOOLEAN
    BY EditorOfJob
<1>2. E!Front(job.applied) \in Seq(E!Files)
    BY <1>1, AppliedFront
<1> PICK c \in BOOLEAN : c = (job.clean /\ b)
    BY <1>1
<1>3. j = DroppedTo(job, E!Front(job.applied), c)
    OBVIOUS
<1>4. LET e == DroppedTo(job, E!Front(job.applied), c) IN
      /\ e \in E!Jobs /\ e.id = job.id /\ e.pc = "undo" /\ e.why = job.why
      /\ e.applied = E!Front(job.applied)
      /\ e.clean = c /\ e.i = job.i /\ e.pre = job.pre /\ e.post = job.post
  <2> PICK a \in Seq(E!Files) : a = E!Front(job.applied)
    BY <1>2
  <2>1. job \in E!Jobs
    BY <1>1
  <2>2. LET e == DroppedTo(job, a, c) IN
        /\ e \in E!Jobs /\ e.id = job.id /\ e.pc = "undo" /\ e.why = job.why /\ e.applied = a
        /\ e.clean = c /\ e.i = job.i /\ e.pre = job.pre /\ e.post = job.post
    BY ONLY <2>1, a \in Seq(E!Files), c \in BOOLEAN, JobDropped
  <2> QED
    BY <2>2
<1> QED
    BY <1>3, <1>4

\* The next file of the rollback: it is restored, left alone, or there is none.
LEMMA EditorRestore ==
    ASSUME E!ApplyInv, E!Restore
    PROVE  E!ApplyInv'
<1>1. /\ job # None /\ job.pc = "undo"
      /\ UNCHANGED <<content, node, captured, previews, consumed, epoch, result, dirty>>
    BY DEF E!Restore
<1>2. job \in E!Jobs /\ HasGone(job, content, node)
    BY <1>1, EditorOfJob
<1>3. CASE job.applied # << >> /\ ~Posted(job, content, node, Final(job))
  <2> PICK no \in BOOLEAN : no = FALSE
    OBVIOUS
  <2> DEFINE j == DroppedTo(job, E!Front(job.applied), job.clean /\ no)
  <2>1. job' = j
    BY <1>3, EditorThrough DEF E!Restore, E!Dropped, DroppedTo
  <2>2. /\ j \in E!Jobs /\ j.id = job.id /\ j.pc = "undo" /\ j.why = job.why
        /\ j.applied = E!Front(job.applied) /\ j.clean = (job.clean /\ no)
        /\ j.i = job.i /\ j.pre = job.pre /\ j.post = job.post
    BY <1>1, <1>3, EditorDropped
  <2> HIDE DEF j
  <2>3. HasGone(j, content, node)
    BY <1>1, <1>2, <2>2 DEF HasGone, E!Committing
  <2> QED
    BY <1>1, <2>1, <2>2, <2>3, EditorJobStep
<1>4. CASE ~(job.applied # << >> /\ ~Posted(job, content, node, Final(job)))
  <2> DEFINE bound == job.applied # << >>
                      /\ ((f1 :> d1) @@ (f2 :> d2))[E!Last(job.applied)] \notin moved
  <2>0. bound \in BOOLEAN
    OBVIOUS
  <2> HIDE DEF bound
  <2> PICK b \in BOOLEAN : b = bound
    BY <2>0
  <2> PICK pc \in {"finish", "restore"} : pc = IF job.applied = << >> THEN "finish" ELSE "restore"
    OBVIOUS
  <2> DEFINE j == UndoneTo(job, pc, b)
  <2>1. job' = j
    BY <1>4, EditorThrough DEF E!Restore, E!Undo, UndoneTo, bound
  <2>2. /\ j \in E!Jobs /\ j.id = job.id /\ j.pc = pc /\ j.why = job.why
        /\ j.applied = job.applied /\ j.clean = job.clean /\ j.i = job.i
        /\ j.pre = job.pre /\ j.post = job.post
    <3>1. job \in E!Jobs
      BY <1>2
    <3> QED
      BY <3>1, JobUndone
  <2> HIDE DEF j
  <2>3. Final(j) = Final(job)
    BY <2>2 DEF Final
  <2>4. pc = "restore" => Posted(j, content, node, Final(j))
    BY <1>4, <2>2, <2>3 DEF Posted
  <2>5. HasGone(j, content, node)
    BY <1>1, <1>2, <2>2, <2>4 DEF HasGone, Entered, E!Committing
  <2> QED
    BY <1>1, <2>1, <2>2, <2>5, EditorJobStep
<1> QED
    BY <1>3, <1>4

\* The rename of the preimage takes the edit off again.
LEMMA EditorRestoreRename ==
    ASSUME E!ApplyInv, E!RestoreRename
    PROVE  E!ApplyInv'
<1> PICK file : file = Final(job)
    OBVIOUS
<1> DEFINE j == StagedAt(job, "restored")
<1>1. /\ job # None /\ job.pc = "restore" /\ job' = j
      /\ content' = [content EXCEPT ![file] = job.pre[file]]
      /\ node' = [node EXCEPT ![file] = <<"pre", job.id>>]
      /\ UNCHANGED <<captured, previews, consumed, epoch, result, dirty>>
    BY EditorThrough DEF E!RestoreRename, StagedAt, E!PreNode
<1>2. /\ job \in E!Jobs /\ HasGone(job, content, node) /\ job.applied \in Seq(E!Files)
      /\ content \in [E!Files -> E!Texts] /\ node \in E!Nodes /\ job.id \in Previews
      /\ job.applied # << >> /\ Posted(job, content, node, file) /\ job.pre \in E!Trees
      /\ job.id # 0
    BY <1>1, EditorOfJob DEF HasGone, E!Trees
<1>3. file \in E!Files
    BY <1>2, AppliedFront DEF Final
<1>4. /\ job.pre[file] \in E!Texts /\ content[file] = Append(job.pre[file], job.id)
      /\ ~Mark(job.pre[file], job.id)
    BY <1>2, <1>3 DEF HasGone, Posted, E!Trees
<1>5. /\ j \in E!Jobs /\ j.id = job.id /\ j.pc = "restored" /\ j.why = job.why
      /\ j.applied = job.applied /\ j.i = job.i /\ j.clean = job.clean
      /\ j.pre = job.pre /\ j.post = job.post
    BY <1>2, JobStage
<1> HIDE DEF j
<1>6. /\ content' \in [E!Files -> E!Texts] /\ content'[file] = job.pre[file]
      /\ \A g \in E!Files \ {file} : content'[g] = content[g]
    BY <1>1, <1>2, <1>3, <1>4
<1>7. node' \in E!Nodes
    BY <1>1, <1>2, <1>3 DEF E!Nodes
<1>8. \A p :
         /\ Mark(content[file], p) <=> (p = job.id \/ Mark(job.pre[file], p))
         /\ Under(content[file], p) => Under(job.pre[file], p)
    BY <1>2, <1>4, EditorAppend
<1>9. \A p \in Previews \ {job.id} : \A g \in E!Files :
         /\ Mark(content'[g], p) <=> Mark(content[g], p)
         /\ Under(content[g], p) => Under(content'[g], p)
    BY <1>6, <1>8
<1>10. HasGone(j, content', node')
  <2>1. job.why # "none"
    BY <1>1, <1>2 DEF HasGone
  <2>2. job.clean => \A f \in E!Files : Mark(content[f], job.id) => Entered(job, content, f)
    BY <1>1, <1>2, <2>1 DEF HasGone
  <2>3. j.clean => \A f \in E!Files : Mark(content'[f], job.id) => Entered(j, content', f)
    BY <1>1, <1>4, <1>5, <1>6, <2>2 DEF Entered, E!Committing
  <2>4. \A f \in E!Files : ~Mark(j.pre[f], j.id) /\ j.post[f] = Append(j.pre[f], j.id)
    BY <1>2, <1>5 DEF HasGone
  <2>5. j.applied # << >> /\ Final(j) = file
    BY <1>2, <1>5 DEF Final
  <2>6. ~Mark(content'[Final(j)], j.id)
    BY <1>4, <1>5, <1>6, <2>5
  <2> QED
    BY <1>5, <2>1, <2>3, <2>4, <2>5, <2>6 DEF HasGone, E!Committing
<1>11. E!Through'
    BY <1>1, <1>10, EditorThrough
<1>12. content' \in E!Trees
    BY <1>6 DEF E!Trees
<1> QED
    BY <1>1, <1>5, <1>7, <1>9, <1>11, <1>12, EditorGoesOn

\* The restored file once more: it has no edit of this apply, whoever wrote it.
LEMMA EditorRestoreVerify ==
    ASSUME E!ApplyInv, E!RestoreVerify
    PROVE  E!ApplyInv'
<1> PICK file : file = Final(job)
    OBVIOUS
<1> DEFINE fit == /\ node[file] = <<"pre", job.id>> /\ content[file] = job.pre[file]
                  /\ job.conflict \/ (job.bound /\ ((f1 :> d1) @@ (f2 :> d2))[file] \notin moved)
<1>0. fit \in BOOLEAN
    OBVIOUS
<1> HIDE DEF fit
<1> PICK b \in BOOLEAN : b = fit
    BY <1>0
<1> DEFINE j == DroppedTo(job, E!Front(job.applied), job.clean /\ b)
<1>1. /\ job # None /\ job.pc = "restored" /\ job' = j
      /\ UNCHANGED <<content, node, captured, previews, consumed, epoch, result, dirty>>
    BY EditorThrough DEF E!RestoreVerify, E!Dropped, DroppedTo, E!PreNode, fit
<1>2. /\ job \in E!Jobs /\ HasGone(job, content, node) /\ job.applied \in Seq(E!Files)
      /\ job.applied # << >> /\ ~Mark(content[file], job.id) /\ job.clean \in BOOLEAN
    BY <1>1, EditorOfJob DEF HasGone
<1>3. \A f : Mark(job.applied, f) => f = file \/ Mark(E!Front(job.applied), f)
    BY <1>2, AppliedFront DEF Final
<1>4. /\ j \in E!Jobs /\ j.id = job.id /\ j.pc = "undo" /\ j.why = job.why
      /\ j.applied = E!Front(job.applied) /\ j.clean = (job.clean /\ b)
      /\ j.i = job.i /\ j.pre = job.pre /\ j.post = job.post
    BY <1>1, <1>2, EditorDropped
<1> HIDE DEF j
<1>5. HasGone(j, content, node)
  <2>1. job.why # "none"
    BY <1>1, <1>2 DEF HasGone
  <2>2. job.clean => \A f \in E!Files : Mark(content[f], job.id) => Entered(job, content, f)
    BY <1>1, <1>2, <2>1 DEF HasGone
  <2>3. j.clean => \A f \in E!Files : Mark(content[f], job.id) => Entered(j, content, f)
    BY <1>1, <1>2, <1>3, <1>4, <2>2 DEF Entered, E!Committing
  <2>4. \A f \in E!Files : ~Mark(j.pre[f], j.id) /\ j.post[f] = Append(j.pre[f], j.id)
    BY <1>2, <1>4 DEF HasGone
  <2> QED
    BY <1>4, <2>1, <2>3, <2>4 DEF HasGone, E!Committing
<1> QED
    BY <1>1, <1>4, <1>5, EditorJobStep

\* The rename of the preimage fails: the file keeps its edit, and the rollback
\* is not clean.
LEMMA EditorRestoreFault ==
    ASSUME E!ApplyInv, E!RestoreFault
    PROVE  E!ApplyInv'
<1> PICK no \in BOOLEAN : no = FALSE
    OBVIOUS
<1> DEFINE j == DroppedTo(job, E!Front(job.applied), job.clean /\ no)
<1>1. /\ job # None /\ job.pc = "restore" /\ job' = j
      /\ UNCHANGED <<content, node, captured, previews, consumed, epoch, result, dirty>>
    BY DEF E!RestoreFault, E!Dropped, DroppedTo
<1>2. job \in E!Jobs /\ HasGone(job, content, node) /\ job.applied # << >>
    BY <1>1, EditorOfJob DEF HasGone
<1>3. /\ j \in E!Jobs /\ j.id = job.id /\ j.pc = "undo" /\ j.why = job.why
      /\ j.applied = E!Front(job.applied) /\ j.clean = (job.clean /\ no)
      /\ j.i = job.i /\ j.pre = job.pre /\ j.post = job.post
    BY <1>1, <1>2, EditorDropped
<1> HIDE DEF j
<1>4. HasGone(j, content, node)
    BY <1>1, <1>2, <1>3 DEF HasGone, E!Committing
<1> QED
    BY <1>1, <1>3, <1>4, EditorJobStep

\* The outcome says what became of the files.
LEMMA EditorOutcome ==
    ASSUME E!ApplyInv, job # None, job.pc = "finish"
    PROVE  /\ E!Outcome \in E!Results
           /\ E!Outcome = "applied" => \A f \in E!Files : Mark(content[f], job.id)
           /\ E!Outcome \in {"rolled_back", "conflicted"} => Alone(content, job.id)
<1>1. HasGone(job, content, node) /\ job \in E!Jobs
    BY EditorOfJob
<1>2. DOMAIN << >> = {}
    OBVIOUS
<1>3. job.why = "none" => \A f \in E!Files : Mark(content[f], job.id)
    BY <1>1 DEF HasGone
<1>4. job.why # "none" /\ job.clean => Alone(content, job.id)
  <2> SUFFICES ASSUME job.why # "none", job.clean, NEW f \in E!Files, Mark(content[f], job.id)
               PROVE  f = Targets[job.i] /\ Under(content[f], job.id)
    BY DEF Alone
  <2>1. job.applied = << >> /\ Entered(job, content, f)
    BY <1>1 DEF HasGone
  <2> QED
    BY <1>2, <2>1 DEF Entered, Mark
<1>5. /\ E!Outcome \in E!Results
      /\ E!Outcome = "applied" => job.why = "none"
      /\ E!Outcome \in {"rolled_back", "conflicted"} => job.why # "none" /\ job.clean
    BY DEF E!Outcome, E!Results
<1> QED
    BY <1>3, <1>4, <1>5

\* The apply is over.
LEMMA EditorFinish ==
    ASSUME E!ApplyInv, E!Finish
    PROVE  E!ApplyInv'
<1> PICK id : id = job.id
    OBVIOUS
<1> PICK r : r = E!Outcome
    OBVIOUS
<1>1. /\ job # None /\ job.pc = "finish" /\ job' = None
      /\ result' = [result EXCEPT ![id] = r] /\ dirty' = E!Files
      /\ UNCHANGED <<content, node, captured, previews, consumed, epoch>>
    BY DEF E!Finish
<1>2. /\ r \in E!Results
      /\ r = "applied" => \A f \in E!Files : Mark(content[f], id)
      /\ r \in {"rolled_back", "conflicted"} => Alone(content, id)
    BY <1>1, EditorOutcome
<1>3. E!TypeOK /\ E!Issued /\ E!Edits /\ id \in Previews
    BY <1>1, EditorOfJob DEF E!ApplyInv
<1>4. /\ result' \in [Previews -> E!Results \cup {None}] /\ result'[id] = r
      /\ \A q \in Previews \ {id} : result'[q] = result[q]
    BY <1>1, <1>2, <1>3 DEF E!TypeOK
<1>5. E!TypeOK'
    BY <1>1, <1>3, <1>4 DEF E!TypeOK
<1>6. captured[id] = Spent /\ (E!Known(id) => id \in consumed)
    BY <1>1, <1>3 DEF E!Issued
<1>7. E!Issued'
    BY <1>1, <1>3, <1>4, <1>6 DEF E!Issued, E!Known
<1>8. r # None
    BY <1>2, EditingAssumption
<1>9. E!Edits'
  <2> SUFFICES ASSUME NEW p \in Previews, NEW f \in E!Files
               PROVE  EditOf(0, E!Files, result'[p], content, p, f)
    BY <1>1, EditorEdits DEF Holder
  <2>1. CASE p = id
    BY <1>2, <1>4, <1>8, <2>1 DEF EditOf
  <2>2. CASE p # id
    <3>1. EditOf(id, dirty, result[p], content, p, f)
      BY <1>1, <1>3, EditorEdits DEF Holder
    <3> QED
      BY <1>4, <2>2, <3>1 DEF EditOf
  <2> QED
    BY <2>1, <2>2
<1> QED
    BY <1>1, <1>5, <1>7, <1>9 DEF E!ApplyInv

\* Every step of the editor keeps its invariant.
LEMMA EditorStep ==
    ASSUME E!ApplyInv, E!Next \/ UNCHANGED EditorVars
    PROVE  E!ApplyInv'
<1>1. CASE E!ApplyStep
    BY <1>1, EditorCheck, EditorRename, EditorVerify, EditorRestore, EditorRestoreRename,
       EditorRestoreVerify, EditorFinish DEF E!ApplyStep
<1>2. CASE E!Fault \/ E!RestoreFault
    BY <1>2, EditorFault, EditorRestoreFault
<1>3. ASSUME NEW p \in Previews,
             \/ E!BeginPreview(p) \/ E!PreviewFails(p) \/ E!Expire(p)
             \/ E!BeginApply(p) \/ E!RefuseApply(p)
             \/ \E o \in {"lsp", "structural"} : E!Issue(p, o)
      PROVE  E!ApplyInv'
    BY <1>3, EditorBeginPreview, EditorAside, EditorBeginApply, EditorRefuseApply, EditorIssue
<1>4. CASE \E f \in E!Files : E!OutsideWrite(f)
    BY <1>4, EditorOutsideWrite
<1>5. CASE E!RestartServer \/ (\E d \in E!Dirs : E!OutsideMove(d)) \/ UNCHANGED EditorVars
    BY <1>5, EditorAside
<1> QED
    BY <1>1, <1>2, <1>3, <1>4, <1>5 DEF E!Next

LEMMA EditorInductive == Spec => []E!ApplyInv
<1>1. Init => E!ApplyInv
    BY EditorStart DEF Init
<1>2. E!ApplyInv /\ [Next]_vars => E!ApplyInv'
  <2> SUFFICES ASSUME E!ApplyInv, [Next]_vars
               PROVE  E!Next \/ UNCHANGED EditorVars
      BY EditorStep
  <2> QED
      BY DEF Next, BrokerRuns, SessionsRun, EditorRuns, vars, editorVars, EditorVars
<1> QED
    BY <1>1, <1>2, PTL DEF Spec

\* editor/apply.py, "Exact outcome of one preview application attempt":
\* applied means that every file has the edit, rolled back or conflicted that
\* none has, whichever rename fails, except at most one file which another
\* program wrote between its rename and the check of it; and a file that has an
\* edit was marked dirty.
THEOREM OutcomesAreExact == Spec => []OutcomeIsExact
<1>1. E!ApplyInv => OutcomeIsExact
  <2> SUFFICES ASSUME E!ApplyInv, job = None PROVE OutcomeIsExact
    BY DEF OutcomeIsExact, E!OutcomeIsExact, E!ChangedFilesAreDirty
  <2>1. E!Edits /\ Targets[1] \in E!Files
    BY EditorFiles DEF E!ApplyInv
  <2> QED
    BY <2>1, Zenon DEF E!Edits, E!Settled, OutcomeIsExact, E!OutcomeIsExact,
           E!ChangedFilesAreDirty
<1> QED
    BY <1>1, EditorInductive, PTL


\* A text grows at its end or loses its last edit, which is never another
\* program's.
LEMMA EditorTexts ==
    ASSUME E!ApplyInv, E!Next \/ UNCHANGED EditorVars
    PROVE  \/ content' = content
           \/ \E f \in E!Files, x \in Previews \cup {0} :
                 content' = [content EXCEPT ![f] = Append(content[f], x)]
           \/ \E f \in E!Files, s \in E!Texts, x \in Previews :
                 content[f] = Append(s, x) /\ content' = [content EXCEPT ![f] = s]
<1>1. CASE E!Rename
  <2>1. /\ job # None /\ job.pc = "rename"
        /\ content' = [content EXCEPT ![Targets[job.i]] = job.post[Targets[job.i]]]
    BY <1>1, EditorThrough DEF E!Rename
  <2>2. /\ Targets[job.i] \in E!Files /\ job.id \in Previews
        /\ content[Targets[job.i]] = job.pre[Targets[job.i]]
        /\ job.post[Targets[job.i]] = Append(job.pre[Targets[job.i]], job.id)
    BY <2>1, EditorOfJob DEF HasGone
  <2> QED
    BY <2>1, <2>2
<1>2. CASE E!RestoreRename
  <2>1. /\ job # None /\ job.pc = "restore"
        /\ content' = [content EXCEPT ![Final(job)] = job.pre[Final(job)]]
    BY <1>2, EditorThrough DEF E!RestoreRename
  <2>2. /\ HasGone(job, content, node) /\ job.applied \in Seq(E!Files) /\ job.id \in Previews
        /\ job.pre \in E!Trees
    BY <2>1, EditorOfJob
  <2>3. job.applied # << >> /\ Posted(job, content, node, Final(job))
    BY <2>1, <2>2 DEF HasGone
  <2>4. Final(job) \in E!Files
    BY <2>2, <2>3, AppliedFront DEF Final
  <2> PICK f \in E!Files : f = Final(job)
    BY <2>4
  <2>5. /\ job.pre[f] \in E!Texts /\ content[f] = Append(job.pre[f], job.id)
        /\ content' = [content EXCEPT ![f] = job.pre[f]]
    BY <2>1, <2>2, <2>3 DEF HasGone, Posted, E!Trees
  <2> PICK s \in E!Texts, x \in Previews : s = job.pre[f] /\ x = job.id
    BY <2>2, <2>5
  <2>6. content[f] = Append(s, x) /\ content' = [content EXCEPT ![f] = s]
    BY <2>5
  <2> QED
    BY <2>6
<1>3. CASE \E f \in E!Files : E!OutsideWrite(f)
    BY <1>3 DEF E!OutsideWrite
<1>4. CASE \/ \E d \in E!Dirs : E!OutsideMove(d)
           \/ \E p \in Previews : \/ E!BeginPreview(p) \/ E!PreviewFails(p) \/ E!Expire(p)
                                  \/ E!BeginApply(p) \/ E!RefuseApply(p)
                                  \/ \E o \in {"lsp", "structural"} : E!Issue(p, o)
           \/ E!RestartServer \/ E!Check \/ E!Verify \/ E!Restore \/ E!RestoreVerify
           \/ E!Finish \/ E!Fault \/ E!RestoreFault \/ UNCHANGED EditorVars
    BY <1>4 DEF E!OutsideMove, E!BeginPreview, E!PreviewFails, E!Expire, E!BeginApply,
                E!RefuseApply, E!Issue, E!RestartServer, E!Check, E!Verify, E!Restore,
                E!RestoreVerify, E!Finish, E!Fault, E!RestoreFault, EditorVars
<1> QED
    BY <1>1, <1>2, <1>3, <1>4 DEF E!Next, E!ApplyStep

LEMMA EditorKeeps ==
    ASSUME E!ApplyInv, E!Next \/ UNCHANGED EditorVars
    PROVE  E!OutsideIsKept
<1> SUFFICES ASSUME NEW f \in E!Files, NEW n \in DOMAIN content[f], content[f][n] = 0
             PROVE  n \in DOMAIN content'[f] /\ content'[f][n] = 0
    BY DEF E!OutsideIsKept
<1>1. content \in [E!Files -> E!Texts] /\ 0 \notin Previews
    BY EditingAssumption DEF E!ApplyInv, E!TypeOK, E!Trees
<1>2. CASE content' = content
    BY <1>2
<1>3. ASSUME NEW g \in E!Files, NEW x \in Previews \cup {0},
             content' = [content EXCEPT ![g] = Append(content[g], x)]
      PROVE  n \in DOMAIN content'[f] /\ content'[f][n] = 0
  <2>1. content[f] \in E!Texts
    BY <1>1
  <2>2. n \in DOMAIN Append(content[f], x) /\ Append(content[f], x)[n] = 0
    BY <2>1, EditorAppend
  <2> QED
    BY <1>1, <1>3, <2>2
<1>4. ASSUME NEW g \in E!Files, NEW s \in E!Texts, NEW x \in Previews,
             content[g] = Append(s, x), content' = [content EXCEPT ![g] = s]
      PROVE  n \in DOMAIN content'[f] /\ content'[f][n] = 0
  <2> PICK t : t = Append(s, x)
    OBVIOUS
  <2>0. \A k \in DOMAIN t : k \notin DOMAIN s => t[k] = x
    BY EditorAppend
  <2>a. DOMAIN s \subseteq DOMAIN t /\ \A k \in DOMAIN s : t[k] = s[k]
    BY EditorAppend
  <2>1. f = g => n \in DOMAIN s /\ s[n] = 0
    BY <1>1, <1>4, <2>0, <2>a
  <2> QED
    BY <1>1, <1>4, <2>1
<1> QED
    BY <1>2, <1>3, <1>4, EditorTexts

\* An outcome is final: a preview that has one is not claimed again.
LEMMA EditorStays ==
    ASSUME E!ApplyInv, E!Next \/ UNCHANGED EditorVars
    PROVE  E!OutcomeStays
<1>1. result \in [Previews -> E!Results \cup {None}] /\ E!Issued
    BY DEF E!ApplyInv, E!TypeOK
<1>2. CASE UNCHANGED result
    BY <1>2 DEF E!OutcomeStays
<1>3. CASE E!Finish
  <2>1. result' = [result EXCEPT ![job.id] = E!Outcome] /\ job # None
    BY <1>3 DEF E!Finish
  <2>2. job.id \in Previews /\ result[job.id] = None
    BY <1>1, <2>1, EditorOfJob DEF E!Issued
  <2> QED
    BY <1>1, <2>1, <2>2 DEF E!OutcomeStays
<1>4. ASSUME NEW p \in Previews, E!BeginApply(p)
      PROVE  E!OutcomeStays
  <2>1. result[p] = None
    BY <1>1, <1>4 DEF E!BeginApply, E!Claimable, E!Issued
  <2>2. result' = result \/ result' = [result EXCEPT ![p] = "conflicted"]
    BY <1>4 DEF E!BeginApply
  <2> QED
    BY <1>1, <2>1, <2>2 DEF E!OutcomeStays
<1>5. CASE \/ \E f \in E!Files : E!OutsideWrite(f)
           \/ \E d \in E!Dirs : E!OutsideMove(d)
           \/ \E p \in Previews : \/ E!BeginPreview(p) \/ E!PreviewFails(p) \/ E!Expire(p)
                                  \/ E!RefuseApply(p)
                                  \/ \E o \in {"lsp", "structural"} : E!Issue(p, o)
           \/ E!RestartServer \/ E!Check \/ E!Rename \/ E!Verify \/ E!Restore
           \/ E!RestoreRename \/ E!RestoreVerify \/ E!Fault \/ E!RestoreFault \/ UNCHANGED EditorVars
  <2>1. UNCHANGED result
    BY <1>5 DEF E!OutsideWrite, E!OutsideMove, E!BeginPreview, E!PreviewFails, E!Expire,
                E!RefuseApply, E!Issue, E!RestartServer, E!Check, E!Rename, E!Verify, E!Restore,
                E!RestoreRename, E!RestoreVerify, E!Fault, E!RestoreFault, EditorVars
  <2> QED
    BY <1>2, <2>1
<1> QED
    BY <1>3, <1>4, <1>5 DEF E!Next, E!ApplyStep

\* editor/apply.py: what another program wrote stays where it was, whatever is
\* applied or rolled back later, and a preview has one outcome, also across
\* eviction, expiry and restarts of the server.
THEOREM OutsideWritesAreKept == Spec => OutsideWritesSurvive
<1>1. E!ApplyInv /\ [Next]_vars => [E!OutsideIsKept /\ E!OutcomeStays]_vars
  <2> SUFFICES ASSUME E!ApplyInv, [Next]_vars
               PROVE  E!Next \/ UNCHANGED EditorVars
      BY EditorKeeps, EditorStays
  <2> QED
      BY DEF Next, BrokerRuns, SessionsRun, EditorRuns, vars, editorVars, EditorVars
<1> QED
    BY <1>1, EditorInductive, PTL DEF Spec, OutsideWritesSurvive
=============================================================================
