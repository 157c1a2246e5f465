------------------------ MODULE SessionHistoryProofs ------------------------
(* Proofs about SessionHistory, for any sessions, connections and bounds. *)
EXTENDS SessionHistory, TLAPS

HandlerStates == {Idle} \cup Refusals \cup Forks \cup Transitions \cup Appends
                 \cup Acks \cup MessageRequests

\* What a handler record says of itself by its op.
LEMMA HandlerKinds ==
    ASSUME NEW r \in HandlerStates
    PROVE  /\ r.op = "fork" => r \in Forks
           /\ r.op = "transition" => r \in Transitions
           /\ r.op \in {"append", "put"} => r \in Appends
           /\ r.op = "acked" => r \in Acks
           /\ r.op = "message" => r \in MessageRequests
  BY DEF HandlerStates, Idle, Refusals, Forks, Transitions, Appends, Acks, MessageRequests

\* The updates of session rows and of append requests keep their types.
LEMMA RowUpdates ==
    /\ \A row \in SessionRows, to \in {"active", "archived"}, n \in Nat :
          [row EXCEPT !.state = to, !.rev = n] \in SessionRows
    /\ \A row \in SessionRows : TombstonedSession(row) \in SessionRows
    /\ \A r \in Appends : r.tries + 1 < MaxAttempts => Retrying(r) \in Appends
<1>1. ASSUME NEW row \in SessionRows, NEW to \in {"active", "archived"}, NEW n \in Nat
      PROVE  [row EXCEPT !.state = to, !.rev = n] \in SessionRows
  BY DEF SessionRows
<1>2. ASSUME NEW row \in SessionRows PROVE TombstonedSession(row) \in SessionRows
  <2>1. row.rev + 1 \in Nat
    BY DEF SessionRows
  <2> QED BY <2>1 DEF TombstonedSession, SessionRows, Status
<1>3. ASSUME NEW r \in Appends, r.tries + 1 < MaxAttempts PROVE Retrying(r) \in Appends
  <2>1. r.tries + 1 \in 0 .. MaxAttempts - 1
    BY <1>3, SessionConstants DEF SessionConstants, Appends
  <2> QED BY <2>1 DEF Retrying, Appends
<1> QED BY <1>1, <1>2, <1>3

\* Every step keeps the types of rows, requests and replies.
LEMMA TypeStep == ASSUME TypeOK, [Next]_vars PROVE TypeOK'
<1> USE SessionConstants DEF SessionConstants
<1>t. /\ session \in [Sessions -> SessionRows]
      /\ turns \in [Sessions -> [Ordinals -> TurnRows]]
      /\ messages \in [Sessions -> [Ordinals -> Status]]
      /\ handler \in [Handlers -> HandlerStates]
  BY DEF TypeOK, HandlerStates
<1>idle. Idle \in HandlerStates
  BY DEF HandlerStates
<1> DEFINE Good == TypeOK'
<1> SUFFICES Good
  OBVIOUS
<1>0. ASSUME /\ session' \in [Sessions -> SessionRows]
             /\ turns' \in [Sessions -> [Ordinals -> TurnRows]]
             /\ messages' \in [Sessions -> [Ordinals -> Status]]
             /\ handler' \in [Handlers -> HandlerStates]
      PROVE  Good
  BY <1>0 DEF TypeOK, HandlerStates
<1>new. ASSUME NEW s \in Sessions, NEW p \in Sessions \cup {NoSession},
               NEW q \in Sessions \cup {NoSession}, NEW n \in Natives \cup {NoNative},
               NewSession(s, p, q, n)
        PROVE  session' \in [Sessions -> SessionRows]
  <2>1. [st |-> "live", state |-> "active", rev |-> 1, parent |-> p, root |-> q,
         native |-> n] \in SessionRows
    BY DEF SessionRows, Status
  <2> QED BY <1>t, <1>new, <2>1 DEF NewSession
<1> HIDE DEF Good
<1>1. ASSUME NEW h \in Handlers, NEW s \in Sessions, NEW n \in Natives \cup {NoNative},
             CreateSession(h, s, n)
      PROVE Good
  BY <1>0, <1>1, <1>t, <1>idle, <1>new DEF CreateSession
<1>2. ASSUME NEW h \in Handlers, NEW n \in Natives, CreateNativeAgain(h, n) PROVE Good
  <2>1. [op |-> "refused", native |-> n] \in HandlerStates
    BY DEF HandlerStates, Refusals
  <2> QED BY <1>0, <1>2, <1>t, <2>1 DEF CreateNativeAgain
<1>3. ASSUME NEW h \in Handlers, NEW s \in Sessions, BeginFork(h, s) PROVE Good
  <2>1. session[s].root \in Sessions \cup {NoSession}
    BY <1>t DEF SessionRows
  <2>2. [op |-> "fork", session |-> s, root |-> session[s].root] \in HandlerStates
    BY <2>1 DEF HandlerStates, Forks
  <2> QED BY <1>0, <1>3, <1>t, <2>2 DEF BeginFork
<1>4. ASSUME NEW h \in Handlers, NEW s \in Sessions, PutFork(h, s) PROVE Good
  <2>1. handler[h] \in Forks
    BY <1>4, <1>t, HandlerKinds DEF PutFork
  <2>2. handler[h].session \in Sessions /\ handler[h].root \in Sessions \cup {NoSession}
    BY <2>1 DEF Forks
  <2> QED BY <1>0, <1>4, <1>t, <1>idle, <1>new, <2>2 DEF PutFork
<1>5. ASSUME NEW h \in Handlers, NEW s \in Sessions, NEW to \in {"active", "archived"},
             BeginTransition(h, s, to)
      PROVE Good
  <2>1. [op |-> "transition", session |-> s, to |-> to, rev |-> session[s].rev] \in HandlerStates
    BY <1>t DEF HandlerStates, Transitions, SessionRows
  <2> QED BY <1>0, <1>5, <1>t, <2>1 DEF BeginTransition
<1>6. ASSUME NEW h \in Handlers, PutTransition(h) PROVE Good
  <2> DEFINE r == handler[h]
  <2>1. r.session \in Sessions /\ r.to \in {"active", "archived"} /\ r.rev \in Nat
    BY <1>6, <1>t, HandlerKinds DEF PutTransition, Transitions
  <2>2. session[r.session] \in SessionRows
    BY <1>t, <2>1
  <2>3. [session[r.session] EXCEPT !.state = r.to, !.rev = r.rev + 1] \in SessionRows
    <3>1. r.rev + 1 \in Nat
      BY <2>1
    <3> HIDE DEF r
    <3> QED BY <2>1, <2>2, <3>1, RowUpdates
  <2>4. session' \in [Sessions -> SessionRows]
    BY <1>6, <1>t, <2>1, <2>3 DEF PutTransition
  <2> QED BY <1>0, <1>6, <1>t, <1>idle, <2>4 DEF PutTransition
<1>7. ASSUME NEW h \in Handlers, NEW s \in Sessions, NEW c \in Contents, BeginAppend(h, s, c)
      PROVE Good
  <2>1. [op |-> "append", session |-> s, content |-> c, ordinal |-> 0, tries |-> 0]
          \in HandlerStates
    BY DEF HandlerStates, Appends, Ordinals
  <2> QED BY <1>0, <1>7, <1>t, <2>1 DEF BeginAppend
<1>8. ASSUME NEW h \in Handlers, NEW n \in Ordinals, ReadOrdinal(h, n) PROVE Good
  <2>1. handler[h] \in Appends
    BY <1>8, <1>t, HandlerKinds DEF ReadOrdinal
  <2>2. [handler[h] EXCEPT !.op = "put", !.ordinal = n] \in HandlerStates
    BY <2>1 DEF HandlerStates, Appends
  <2> QED BY <1>0, <1>8, <1>t, <2>2 DEF ReadOrdinal
<1>a. ASSUME NEW h \in Handlers, handler[h].op = "put"
      PROVE  handler[h] \in Appends /\ Acked(handler[h]) \in HandlerStates
  <2>1. handler[h] \in Appends
    BY <1>a, <1>t, HandlerKinds
  <2> QED BY <2>1 DEF Acked, Acks, HandlerStates, Appends
<1>9. ASSUME NEW h \in Handlers, PutTurnReplayed(h) PROVE Good
  BY <1>0, <1>9, <1>t, <1>a DEF PutTurnReplayed
<1>10. ASSUME NEW h \in Handlers, PutTurnCollided(h) PROVE Good
  <2>1. handler[h] \in Appends
    BY <1>10, <1>a DEF PutTurnCollided
  <2>2. handler[h].tries + 1 < MaxAttempts => Retrying(handler[h]) \in HandlerStates
    BY <2>1, RowUpdates DEF HandlerStates
  <2>3. handler' \in [Handlers -> HandlerStates]
    BY <1>10, <1>t, <1>idle, <2>2 DEF PutTurnCollided
  <2> QED BY <1>0, <1>10, <1>t, <2>3 DEF PutTurnCollided
<1>11. ASSUME NEW h \in Handlers, PutTurnInserted(h) PROVE Good
  <2>1. handler[h] \in Appends /\ Acked(handler[h]) \in HandlerStates
    BY <1>11, <1>a DEF PutTurnInserted
  <2>2. [st |-> "live", content |-> handler[h].content] \in TurnRows
    BY <2>1 DEF Appends, TurnRows, Status
  <2>3. handler[h].session \in Sessions /\ handler[h].ordinal \in Ordinals
    BY <2>1 DEF Appends
  <2>4. turns' \in [Sessions -> [Ordinals -> TurnRows]]
    BY <1>11, <1>t, <2>2, <2>3 DEF PutTurnInserted
  <2> QED BY <1>0, <1>11, <1>t, <2>1, <2>4 DEF PutTurnInserted
<1>12. ASSUME NEW h \in Handlers, PutTurnOrphaned(h) PROVE Good
  BY <1>0, <1>12, <1>t, <1>idle DEF PutTurnOrphaned
<1>13. ASSUME NEW h \in Handlers, NEW s \in Sessions, NEW o \in Ordinals, BeginMessage(h, s, o)
       PROVE Good
  <2>1. [op |-> "message", session |-> s, ordinal |-> o] \in HandlerStates
    BY DEF HandlerStates, MessageRequests
  <2> QED BY <1>0, <1>13, <1>t, <2>1 DEF BeginMessage
<1>14. ASSUME NEW h \in Handlers, PutMessage(h) PROVE Good
  <2>1. handler[h] \in MessageRequests
    BY <1>14, <1>t, HandlerKinds DEF PutMessage
  <2>2. messages' \in [Sessions -> [Ordinals -> Status]]
    BY <1>14, <1>t, <2>1 DEF PutMessage, MessageRequests, Status
  <2> QED BY <1>0, <1>14, <1>t, <1>idle, <2>2 DEF PutMessage
<1>15. ASSUME NEW s \in Sessions, RetainSession(s) PROVE Good
  <2>1. session[s] \in SessionRows
    BY <1>t
  <2>2. TombstonedSession(session[s]) \in SessionRows
    BY <2>1, RowUpdates
  <2> QED BY <1>0, <1>15, <1>t, <2>2 DEF RetainSession
<1>16. ASSUME NEW s \in Sessions, NEW o \in Ordinals, RetainTurn(s, o) PROVE Good
  <2>1. turns[s][o] \in TurnRows
    BY <1>t
  <2>2. [turns[s][o] EXCEPT !.st = "dead"] \in TurnRows
    BY <2>1 DEF TurnRows, Status
  <2>3. turns' \in [Sessions -> [Ordinals -> TurnRows]]
    BY <1>16, <1>t, <2>2 DEF RetainTurn
  <2> QED BY <1>0, <1>16, <1>t, <2>3 DEF RetainTurn
<1>17. ASSUME NEW s \in Sessions, NEW o \in Ordinals, RetainMessage(s, o) PROVE Good
  BY <1>0, <1>17, <1>t DEF RetainMessage, Status
<1>18. ASSUME Restart PROVE Good
  BY <1>0, <1>18, <1>t, <1>idle DEF Restart
<1>19. ASSUME UNCHANGED vars PROVE Good
  BY <1>0, <1>19, <1>t DEF vars
<1> QED
  BY <1>1, <1>2, <1>3, <1>4, <1>5, <1>6, <1>7, <1>8, <1>9, <1>10, <1>11, <1>12, <1>13,
     <1>14, <1>15, <1>16, <1>17, <1>18, <1>19
     DEF Next, Sessioning, Appending

\* An empty store with idle connections has the types.
LEMMA TypeInit == Init => TypeOK
<1>1. NoTurn \in TurnRows /\ AbsentSession \in SessionRows
  BY SessionConstants DEF SessionConstants, NoTurn, TurnRows, AbsentSession, SessionRows, Status
<1> QED BY <1>1 DEF Init, TypeOK, Status

\* Rows, requests and replies of the session service keep their types, for any
\* sessions, connections, contents and attempts.
THEOREM TypeCorrect == Spec => []TypeOK
<1>1. Init => TypeOK
  BY TypeInit
<1>2. TypeOK /\ [Next]_vars => TypeOK'
  BY TypeStep
<1> QED BY <1>1, <1>2, PTL DEF Spec

-----------------------------------------------------------------------------
(* Turns *)

\* How a step may change what the append request of connection g is doing.
Begun(g) == handler'[g].op = "append" /\ handler'[g].tries = 0
Read(g) ==
    /\ handler[g].op = "append" /\ handler'[g].op = "put"
    /\ handler'[g].session = handler[g].session
    /\ handler'[g].ordinal \in Ordinals
    /\ IsNextOrdinal(handler[g].session, handler'[g].ordinal)
    /\ turns' = turns
Collided(g) ==
    /\ handler[g].op = "put" /\ Collides(handler[g])
    /\ handler'[g] = Retrying(handler[g])
    /\ turns' = turns
Replayed(g) ==
    /\ handler[g].op = "put" /\ Replays(handler[g])
    /\ handler'[g] = Acked(handler[g])
    /\ turns' = turns

\* A step that leaves g with an append request, or with the reply to one, is one
\* of the steps of append_turn, or g was so before.
LEMMA HandlerMoves ==
    ASSUME TypeOK, [Next]_vars, NEW g \in Handlers
    PROVE  \/ handler'[g] = handler[g]
           \/ handler'[g].op \notin {"append", "put", "acked"}
           \/ Begun(g) \/ Read(g) \/ Collided(g) \/ Replayed(g)
           \/ PutTurnInserted(g) /\ handler'[g] = Acked(handler[g])
<1> DEFINE Moves == \/ handler'[g] = handler[g]
                    \/ handler'[g].op \notin {"append", "put", "acked"}
                    \/ Begun(g) \/ Read(g) \/ Collided(g) \/ Replayed(g)
                    \/ PutTurnInserted(g) /\ handler'[g] = Acked(handler[g])
<1> SUFFICES Moves
  OBVIOUS
<1>t. handler \in [Handlers -> HandlerStates]
  BY DEF TypeOK, HandlerStates
<1>0. ASSUME handler'[g] = handler[g] \/ handler'[g].op \notin {"append", "put", "acked"}
      PROVE  Moves
  BY <1>0
<1>b. ASSUME Begun(g) \/ Read(g) \/ Collided(g) \/ Replayed(g) PROVE Moves
  BY <1>b
<1>c. ASSUME PutTurnInserted(g) /\ handler'[g] = Acked(handler[g]) PROVE Moves
  BY <1>c
<1> HIDE DEF Moves
<1>1. ASSUME NEW h \in Handlers, Sessioning(h) PROVE Moves
  BY <1>1, <1>0, <1>t DEF Sessioning, CreateSession, CreateNativeAgain, BeginFork, PutFork,
     BeginTransition, PutTransition, Idle
<1>2. ASSUME NEW h \in Handlers, NEW s \in Sessions, NEW c \in Contents, BeginAppend(h, s, c)
      PROVE Moves
  BY <1>2, <1>0, <1>b, <1>t DEF BeginAppend, Begun
<1>3. ASSUME NEW h \in Handlers, NEW n \in Ordinals, ReadOrdinal(h, n) PROVE Moves
  <2>1. handler[h] \in Appends
    BY <1>3, <1>t, HandlerKinds DEF ReadOrdinal
  <2>2. CASE h = g
    <3>1. /\ handler'[g] = [handler[g] EXCEPT !.op = "put", !.ordinal = n]
          /\ turns' = turns
      BY <1>3, <1>t, <2>2 DEF ReadOrdinal
    <3>2. /\ handler'[g].op = "put" /\ handler'[g].ordinal = n
          /\ handler'[g].session = handler[g].session
      BY <2>1, <2>2, <3>1 DEF Appends
    <3>3. Read(g)
      BY <1>3, <2>2, <3>1, <3>2 DEF ReadOrdinal, Read
    <3> QED BY <3>3, <1>b
  <2>3. CASE h # g
    BY <1>3, <1>0, <1>t, <2>3 DEF ReadOrdinal
  <2> QED BY <2>2, <2>3
<1>4. ASSUME NEW h \in Handlers, PutTurnReplayed(h) PROVE Moves
  BY <1>4, <1>0, <1>b, <1>t DEF PutTurnReplayed, Replayed
<1>5. ASSUME NEW h \in Handlers, PutTurnCollided(h) PROVE Moves
  BY <1>5, <1>0, <1>b, <1>t DEF PutTurnCollided, Collided, Idle
<1>6. ASSUME NEW h \in Handlers, PutTurnInserted(h) PROVE Moves
  BY <1>6, <1>0, <1>c, <1>t DEF PutTurnInserted
<1>7. ASSUME NEW h \in Handlers,
             \/ PutTurnOrphaned(h) \/ PutMessage(h)
             \/ \E s \in Sessions, o \in Ordinals : BeginMessage(h, s, o)
      PROVE  Moves
  BY <1>7, <1>0, <1>t DEF PutTurnOrphaned, PutMessage, BeginMessage, Idle
<1>8. ASSUME \/ \E s \in Sessions : RetainSession(s)
             \/ \E s \in Sessions, o \in Ordinals : RetainTurn(s, o) \/ RetainMessage(s, o)
             \/ UNCHANGED vars
      PROVE  Moves
  BY <1>8, <1>0 DEF RetainSession, RetainTurn, RetainMessage, vars
<1>9. ASSUME Restart PROVE Moves
  BY <1>9, <1>0 DEF Restart, Idle
<1> QED
  BY <1>1, <1>2, <1>3, <1>4, <1>5, <1>6, <1>7, <1>8, <1>9 DEF Next, Appending

\* Turns change in two ways only: one is inserted at a free ordinal, or the
\* oldest live one is tombstoned.
LEMMA TurnMoves ==
    ASSUME TypeOK, [Next]_vars
    PROVE  \/ turns' = turns
           \/ \E h \in Handlers : PutTurnInserted(h)
           \/ \E s \in Sessions, o \in Ordinals : RetainTurn(s, o)
  BY DEF Next, vars, Sessioning, Appending, CreateSession, CreateNativeAgain, BeginFork, PutFork,
     BeginTransition, PutTransition, BeginAppend, ReadOrdinal, PutTurnReplayed, PutTurnCollided,
     PutTurnOrphaned, BeginMessage, PutMessage, RetainSession, RetainMessage, Restart

\* No step removes a turn, rewrites it or revives it.
LEMMA TurnsStay ==
    ASSUME TypeOK, [Next]_vars, NEW s \in Sessions, NEW o \in Ordinals,
           turns[s][o].st # "none"
    PROVE  /\ turns'[s][o].st # "none"
           /\ turns'[s][o].content = turns[s][o].content
           /\ turns[s][o].st = "dead" => turns'[s][o] = turns[s][o]
           /\ ~Retention => turns'[s][o] = turns[s][o]
<1>t. turns \in [Sessions -> [Ordinals -> TurnRows]] /\ handler \in [Handlers -> HandlerStates]
  BY DEF TypeOK, HandlerStates
<1>1. CASE turns' = turns
  BY <1>1
<1>2. ASSUME NEW h \in Handlers, PutTurnInserted(h)
      PROVE  turns'[s][o] = turns[s][o]
  <2>1. handler[h] \in Appends
    BY <1>2, <1>t, HandlerKinds DEF PutTurnInserted
  <2>2. handler[h].session \in Sessions /\ handler[h].ordinal \in Ordinals
    BY <2>1 DEF Appends
  <2>3. turns[handler[h].session][handler[h].ordinal].st = "none"
    BY <1>2 DEF PutTurnInserted, Collides
  <2>4. ~(handler[h].session = s /\ handler[h].ordinal = o)
    BY <2>3
  <2>5. turns' = [turns EXCEPT ![handler[h].session][handler[h].ordinal] =
                    [st |-> "live", content |-> handler[h].content]]
    BY <1>2 DEF PutTurnInserted
  <2> QED BY <1>t, <2>2, <2>4, <2>5
<1>3. ASSUME NEW q \in Sessions, NEW p \in Ordinals, RetainTurn(q, p)
      PROVE  /\ turns'[s][o].st # "none" /\ turns'[s][o].content = turns[s][o].content
             /\ turns[s][o].st = "dead" => turns'[s][o] = turns[s][o]
             /\ Retention
  <2>0. Retention /\ turns[q][p].st = "live" /\ turns' = [turns EXCEPT ![q][p].st = "dead"]
    BY <1>3 DEF RetainTurn
  <2>1. CASE q = s /\ p = o
    <3>1. turns'[s][o] = [turns[s][o] EXCEPT !.st = "dead"]
      BY <1>t, <2>0, <2>1
    <3>2. turns[s][o] \in TurnRows
      BY <1>t
    <3>3. turns'[s][o].st = "dead" /\ turns'[s][o].content = turns[s][o].content
      BY <3>1, <3>2 DEF TurnRows
    <3> QED BY <2>0, <2>1, <3>3
  <2>2. CASE ~(q = s /\ p = o)
    <3>1. turns'[s][o] = turns[s][o]
      BY <1>t, <2>0, <2>2
    <3> QED BY <2>0, <3>1
  <2> QED BY <2>1, <2>2
<1> QED BY <1>1, <1>2, <1>3, TurnMoves

\* A turn appears only by the put of a request that holds its ordinal.
LEMMA NewTurn ==
    ASSUME TypeOK, [Next]_vars, NEW s \in Sessions, NEW o \in Ordinals,
           turns[s][o].st = "none", turns'[s][o].st # "none"
    PROVE  \E h \in Handlers : /\ handler[h].op = "put"
                               /\ handler[h].session = s /\ handler[h].ordinal = o
<1>t. turns \in [Sessions -> [Ordinals -> TurnRows]] /\ handler \in [Handlers -> HandlerStates]
  BY DEF TypeOK, HandlerStates
<1>1. ASSUME NEW h \in Handlers, PutTurnInserted(h)
      PROVE  handler[h].op = "put" /\ handler[h].session = s /\ handler[h].ordinal = o
  <2>1. handler[h].op = "put" /\ handler[h] \in Appends
    BY <1>1, <1>t, HandlerKinds DEF PutTurnInserted
  <2>2. handler[h].session \in Sessions /\ handler[h].ordinal \in Ordinals
    BY <2>1 DEF Appends
  <2>3. turns' = [turns EXCEPT ![handler[h].session][handler[h].ordinal] =
                    [st |-> "live", content |-> handler[h].content]]
    BY <1>1 DEF PutTurnInserted
  <2> QED BY <1>t, <2>1, <2>2, <2>3
<1>2. ASSUME NEW q \in Sessions, NEW p \in Ordinals, RetainTurn(q, p)
      PROVE  FALSE
  <2>1. turns[q][p].st = "live" /\ turns' = [turns EXCEPT ![q][p].st = "dead"]
    BY <1>2 DEF RetainTurn
  <2>2. ~(q = s /\ p = o)
    BY <2>1
  <2>3. turns'[s][o] = turns[s][o]
    BY <1>t, <2>1, <2>2
  <2> QED BY <2>3
<1> QED BY <1>1, <1>2, TurnMoves

\* The request that is about to put a turn has read its ordinal when the turn
\* before it was there.
PutAfterTurn ==
    \A h \in Handlers : (handler[h].op = "put" /\ handler[h].ordinal # 0) =>
        turns[handler[h].session][handler[h].ordinal - 1].st # "none"

\* Together these two are kept by every step: a turn that appears at o has the
\* turn o - 1 before it, and below that one there is no gap.
LEMMA DenseStep ==
    ASSUME TypeOK, TypeOK', PutAfterTurn, DenseOrdinals, [Next]_vars
    PROVE  PutAfterTurn' /\ DenseOrdinals'
<1>t. handler \in [Handlers -> HandlerStates] /\ handler' \in [Handlers -> HandlerStates]
  BY DEF TypeOK, HandlerStates
<1>n. ASSUME NEW o \in Ordinals, o # 0 PROVE o - 1 \in Ordinals
  BY <1>n, SessionConstants DEF Ordinals, SessionConstants
<1>1. ASSUME NEW g \in Handlers, handler'[g].op = "put", handler'[g].ordinal # 0
      PROVE  turns'[handler'[g].session][handler'[g].ordinal - 1].st # "none"
  <2>1. handler'[g] \in Appends
    BY <1>1, <1>t, HandlerKinds
  <2>2. /\ handler'[g].session \in Sessions /\ handler'[g].ordinal \in Ordinals
        /\ handler'[g].ordinal - 1 \in Ordinals
    BY <1>1, <1>n, <2>1 DEF Appends
  <2>3. ASSUME turns[handler'[g].session][handler'[g].ordinal - 1].st # "none"
        PROVE  turns'[handler'[g].session][handler'[g].ordinal - 1].st # "none"
    BY <2>2, <2>3, TurnsStay
  <2>4. CASE handler'[g] = handler[g]
    <3>1. turns[handler[g].session][handler[g].ordinal - 1].st # "none"
      BY <1>1, <2>4 DEF PutAfterTurn
    <3> QED BY <2>3, <2>4, <3>1
  <2>5. CASE Read(g)
    <3>1. turns[handler'[g].session][handler'[g].ordinal - 1].st = "live"
      BY <1>1, <2>5 DEF Read, IsNextOrdinal
    <3> QED BY <2>3, <3>1
  <2>6. ~Begun(g) /\ ~Replayed(g) /\ handler'[g] # Acked(handler[g])
    BY <1>1 DEF Begun, Replayed, Acked
  <2>7. ASSUME Collided(g) PROVE FALSE
    <3>1. handler[g] \in Appends
      BY <1>t, <2>7, HandlerKinds DEF Collided
    <3>2. Retrying(handler[g]).op = "append"
      BY <3>1 DEF Retrying, Appends
    <3> QED BY <1>1, <2>7, <3>2 DEF Collided
  <2> QED BY <1>1, <2>4, <2>5, <2>6, <2>7, HandlerMoves
<1>2. ASSUME NEW s \in Sessions, NEW o \in Ordinals, NEW p \in Ordinals,
             turns'[s][o].st # "none", p < o
      PROVE  turns'[s][p].st # "none"
  <2>1. ASSUME turns[s][p].st # "none" PROVE turns'[s][p].st # "none"
    BY <2>1, TurnsStay
  <2>2. CASE turns[s][o].st # "none"
    BY <1>2, <2>1, <2>2 DEF DenseOrdinals
  <2>3. CASE turns[s][o].st = "none"
    <3>1. PICK h \in Handlers : /\ handler[h].op = "put"
                                /\ handler[h].session = s /\ handler[h].ordinal = o
      BY <1>2, <2>3, NewTurn
    <3>2. o # 0 /\ o - 1 \in Ordinals /\ (p = o - 1 \/ p < o - 1)
      BY <1>2, <1>n, SessionConstants DEF Ordinals, SessionConstants
    <3>3. turns[s][o - 1].st # "none"
      BY <3>1, <3>2 DEF PutAfterTurn
    <3> QED BY <2>1, <3>2, <3>3 DEF DenseOrdinals
  <2> QED BY <2>2, <2>3
<1> QED BY <1>1, <1>2 DEF PutAfterTurn, DenseOrdinals

\* next_turn_ordinal and the collision of keys leave no gap in the ordinals of a
\* session, for any number of connections that append at once and with
\* retention at any moment.
THEOREM Dense == Spec => []DenseOrdinals
<1>1. Init => TypeOK /\ PutAfterTurn /\ DenseOrdinals
  <2>1. Init => PutAfterTurn /\ DenseOrdinals
    BY DEF Init, PutAfterTurn, DenseOrdinals, Idle, NoTurn
  <2> QED BY <2>1, TypeInit
<1>2. TypeOK /\ PutAfterTurn /\ DenseOrdinals /\ [Next]_vars
        => (TypeOK /\ PutAfterTurn /\ DenseOrdinals)'
  BY TypeStep, DenseStep
<1> QED BY <1>1, <1>2, PTL DEF Spec

\* A turn is inserted above every live turn of its session.  Without gaps its
\* ordinal, which was free, cannot be below another turn.
THEOREM AtEnd == Spec => AppendsAtEnd
<1> DEFINE Step == \A s \in Sessions : \A o, p \in Ordinals :
                      (/\ turns[s][o].st # "live" /\ turns'[s][o].st = "live"
                       /\ turns[s][p].st = "live")
                         => p < o
<1>1. TypeOK /\ DenseOrdinals /\ [Next]_vars => Step
  <2> SUFFICES ASSUME TypeOK, DenseOrdinals, [Next]_vars,
                      NEW s \in Sessions, NEW o \in Ordinals, NEW p \in Ordinals,
                      turns[s][o].st # "live", turns'[s][o].st = "live", turns[s][p].st = "live"
               PROVE  p < o
    OBVIOUS
  <2>1. turns[s][o] \in TurnRows
    BY DEF TypeOK
  <2>2. turns[s][o].st = "none"
    BY <2>1, TurnsStay DEF TurnRows, Status
  <2>3. o \in Nat /\ p \in Nat /\ o # p
    BY <2>2, SessionConstants DEF Ordinals, SessionConstants
  <2>4. ~(o < p)
    BY <2>2 DEF DenseOrdinals
  <2> QED BY <2>3, <2>4
<1>2. TypeOK /\ DenseOrdinals /\ [Next]_vars => [Step]_vars
  BY <1>1
<1> QED BY <1>2, TypeCorrect, Dense, PTL DEF Spec, AppendsAtEnd

\* A step that answers an append leaves its turn under the ordinal of the
\* answer, and no later step takes it away.
LEMMA OwnStep ==
    ASSUME TypeOK, TypeOK', AckedTurnIsOwn, [Next]_vars
    PROVE  AckedTurnIsOwn'
<1>t. /\ handler \in [Handlers -> HandlerStates] /\ handler' \in [Handlers -> HandlerStates]
      /\ turns \in [Sessions -> [Ordinals -> TurnRows]]
  BY DEF TypeOK, HandlerStates
<1> SUFFICES ASSUME NEW g \in Handlers, handler'[g].op = "acked"
             PROVE  /\ turns'[handler'[g].session][handler'[g].ordinal].st # "none"
                    /\ turns'[handler'[g].session][handler'[g].ordinal].content = handler'[g].content
  BY DEF AckedTurnIsOwn
<1>1. CASE handler'[g] = handler[g]
  <2>1. handler[g] \in Acks
    BY <1>1, <1>t, HandlerKinds
  <2>2. handler[g].session \in Sessions /\ handler[g].ordinal \in Ordinals
    BY <2>1 DEF Acks
  <2>3. /\ turns[handler[g].session][handler[g].ordinal].st # "none"
        /\ turns[handler[g].session][handler[g].ordinal].content = handler[g].content
    BY <1>1 DEF AckedTurnIsOwn
  <2>4. /\ turns'[handler[g].session][handler[g].ordinal].st # "none"
        /\ turns'[handler[g].session][handler[g].ordinal].content
             = turns[handler[g].session][handler[g].ordinal].content
    BY <2>2, <2>3, TurnsStay
  <2> QED BY <1>1, <2>3, <2>4
<1>2. CASE Replayed(g)
  BY <1>2 DEF Replayed, Replays, Acked
<1>3. CASE PutTurnInserted(g) /\ handler'[g] = Acked(handler[g])
  <2>1. handler[g] \in Appends
    BY <1>3, <1>t, HandlerKinds DEF PutTurnInserted
  <2>2. handler[g].session \in Sessions /\ handler[g].ordinal \in Ordinals
    BY <2>1 DEF Appends
  <2>3. turns'[handler[g].session][handler[g].ordinal]
          = [st |-> "live", content |-> handler[g].content]
    BY <1>3, <1>t, <2>2 DEF PutTurnInserted
  <2> QED BY <1>3, <2>3 DEF Acked
<1>4. ~Begun(g) /\ ~Read(g)
  BY DEF Begun, Read
<1>5. ASSUME Collided(g) PROVE FALSE
  <2>1. handler[g] \in Appends
    BY <1>t, <1>5, HandlerKinds DEF Collided
  <2>2. Retrying(handler[g]).op = "append"
    BY <2>1 DEF Retrying, Appends
  <2> QED BY <1>5, <2>2 DEF Collided
<1> QED BY <1>1, <1>2, <1>3, <1>4, <1>5, HandlerMoves

\* The ordinal a caller of append_turn is told holds what the caller said, also
\* when the put found the key taken and was answered as a replay.
THEOREM Own == Spec => []AckedTurnIsOwn
<1>1. Init => AckedTurnIsOwn
  BY DEF Init, AckedTurnIsOwn, Idle
<1>2. TypeOK /\ TypeOK' /\ AckedTurnIsOwn /\ [Next]_vars => AckedTurnIsOwn'
  BY OwnStep
<1> QED BY <1>1, <1>2, TypeCorrect, PTL DEF Spec

\* Without retention: turns are live, and a request that tries again was stopped
\* by one.
StoppedByTurn ==
    /\ \A s \in Sessions : \A o \in Ordinals : turns[s][o].st # "dead"
    /\ \A h \in Handlers : (handler[h].op = "append" /\ handler[h].tries > 0)
          => turns[handler[h].session][handler[h].ordinal].st = "live"

\* Every step keeps the turns live and the cause of each retry in place.
LEMMA StoppedStep ==
    ASSUME ~Retention, TypeOK, TypeOK', StoppedByTurn, [Next]_vars
    PROVE  StoppedByTurn'
<1>t. /\ handler \in [Handlers -> HandlerStates] /\ handler' \in [Handlers -> HandlerStates]
      /\ turns \in [Sessions -> [Ordinals -> TurnRows]]
  BY DEF TypeOK, HandlerStates
<1>1. ASSUME NEW s \in Sessions, NEW o \in Ordinals PROVE turns'[s][o].st # "dead"
  <2>1. CASE turns' = turns
    BY <2>1 DEF StoppedByTurn
  <2>2. ASSUME NEW h \in Handlers, PutTurnInserted(h) PROVE turns'[s][o].st # "dead"
    <3>1. handler[h] \in Appends
      BY <2>2, <1>t, HandlerKinds DEF PutTurnInserted
    <3>2. handler[h].session \in Sessions /\ handler[h].ordinal \in Ordinals
      BY <3>1 DEF Appends
    <3>3. turns' = [turns EXCEPT ![handler[h].session][handler[h].ordinal] =
                      [st |-> "live", content |-> handler[h].content]]
      BY <2>2 DEF PutTurnInserted
    <3>4. \/ turns'[s][o] = turns[s][o]
          \/ turns'[s][o] = [st |-> "live", content |-> handler[h].content]
      BY <1>t, <3>2, <3>3
    <3> QED BY <3>4 DEF StoppedByTurn
  <2>3. ~ \E q \in Sessions, p \in Ordinals : RetainTurn(q, p)
    BY DEF RetainTurn
  <2> QED BY <2>1, <2>2, <2>3, TurnMoves
<1>2. ASSUME NEW g \in Handlers, handler'[g].op = "append", handler'[g].tries > 0
      PROVE  turns'[handler'[g].session][handler'[g].ordinal].st = "live"
  <2>1. handler'[g].session \in Sessions /\ handler'[g].ordinal \in Ordinals
    BY <1>2, <1>t, HandlerKinds DEF Appends
  <2>2. ASSUME turns[handler'[g].session][handler'[g].ordinal].st = "live"
        PROVE  turns'[handler'[g].session][handler'[g].ordinal].st = "live"
    BY <2>1, <2>2, TurnsStay
  <2>3. CASE handler'[g] = handler[g]
    <3>1. turns[handler[g].session][handler[g].ordinal].st = "live"
      BY <1>2, <2>3 DEF StoppedByTurn
    <3> QED BY <2>2, <2>3, <3>1
  <2>4. CASE Collided(g)
    <3>1. handler[g] \in Appends
      BY <1>t, <2>4, HandlerKinds DEF Collided
    <3>2. handler'[g].session = handler[g].session /\ handler'[g].ordinal = handler[g].ordinal
      BY <2>4, <3>1 DEF Collided, Retrying, Appends
    <3>3. turns[handler[g].session][handler[g].ordinal] \in TurnRows
      BY <1>t, <2>1, <3>2
    <3>4. turns[handler[g].session][handler[g].ordinal].st = "live"
      BY <2>1, <2>4, <3>2, <3>3 DEF Collided, Collides, StoppedByTurn, TurnRows, Status
    <3> QED BY <2>2, <3>2, <3>4
  <2>5. ~Begun(g) /\ ~Read(g) /\ ~Replayed(g) /\ handler'[g] # Acked(handler[g])
    BY <1>2 DEF Begun, Read, Replayed, Acked
  <2> QED BY <1>2, <2>3, <2>4, <2>5, HandlerMoves
<1> QED BY <1>1, <1>2 DEF StoppedByTurn

\* As long as nothing is tombstoned, an append that collides reads a higher
\* ordinal when it tries again: every lost attempt is another append's turn.
THEOREM Retries == ~Retention /\ Spec => []RetriesAdvance
<1> SUFFICES ASSUME ~Retention PROVE Spec => []RetriesAdvance
  OBVIOUS
<1>1. Init => StoppedByTurn
  BY DEF Init, StoppedByTurn, Idle, NoTurn
<1>2. TypeOK /\ TypeOK' /\ StoppedByTurn /\ [Next]_vars => StoppedByTurn'
  BY StoppedStep
<1>3. TypeOK /\ StoppedByTurn => RetriesAdvance
  <2> SUFFICES ASSUME TypeOK, StoppedByTurn, NEW h \in Handlers, NEW n \in Ordinals,
                      handler[h].op = "append", handler[h].tries > 0,
                      IsNextOrdinal(handler[h].session, n)
               PROVE  n > handler[h].ordinal
    BY DEF RetriesAdvance
  <2>1. handler[h] \in Appends
    BY HandlerKinds DEF TypeOK, HandlerStates
  <2>2. handler[h].ordinal \in Ordinals /\ handler[h].ordinal \in Nat /\ n \in Nat
    BY <2>1, SessionConstants DEF Appends, Ordinals, SessionConstants
  <2>3. handler[h].ordinal < n
    BY <2>2 DEF StoppedByTurn, IsNextOrdinal
  <2> QED BY <2>2, <2>3
<1> QED BY <1>1, <1>2, <1>3, TypeCorrect, PTL DEF Spec

-----------------------------------------------------------------------------
(* Lineage *)

\* A fork in flight carries the root of a session that exists.
ForkInv ==
    \A h \in Handlers : handler[h].op = "fork" =>
        /\ session[handler[h].session].st # "none"
        /\ handler[h].root = session[handler[h].session].root

\* A session that exists keeps its parent and root.
LEMMA SessionsStay ==
    ASSUME TypeOK, [Next]_vars, NEW s \in Sessions, session[s].st # "none"
    PROVE  /\ session'[s].st # "none"
           /\ session'[s].parent = session[s].parent
           /\ session'[s].root = session[s].root
<1> DEFINE Stays == /\ session'[s].st # "none"
                    /\ session'[s].parent = session[s].parent
                    /\ session'[s].root = session[s].root
<1> SUFFICES Stays
  OBVIOUS
<1>t. session \in [Sessions -> SessionRows] /\ handler \in [Handlers -> HandlerStates]
  BY DEF TypeOK, HandlerStates
<1>0. ASSUME session'[s] = session[s] PROVE Stays
  BY <1>0
<1>n. ASSUME NEW q \in Sessions, NEW a, NEW b, NEW c, NewSession(q, a, b, c) PROVE Stays
  <2>1. q # s
    BY <1>n DEF NewSession
  <2> QED BY <1>0, <1>n, <1>t, <2>1 DEF NewSession
<1>1. ASSUME NEW h \in Handlers, PutTransition(h) PROVE Stays
  <2> DEFINE r == handler[h]
  <2>1. r \in Transitions
    BY <1>1, <1>t, HandlerKinds DEF PutTransition
  <2>2. CASE session' = session
    BY <2>2, <1>0
  <2>3. ASSUME session[r.session].st = "live",
               session' = [session EXCEPT ![r.session] =
                             [session[r.session] EXCEPT !.state = r.to, !.rev = r.rev + 1]]
        PROVE  Stays
    <3>1. CASE r.session # s
      BY <1>0, <1>t, <2>3, <3>1
    <3>2. CASE r.session = s
      <4>1. session'[s] = [session[s] EXCEPT !.state = r.to, !.rev = r.rev + 1]
        BY <1>t, <2>3, <3>2
      <4>2. session[s] \in SessionRows
        BY <1>t
      <4> QED BY <2>3, <3>2, <4>1, <4>2 DEF SessionRows
    <3> QED BY <3>1, <3>2
  <2> HIDE DEF Stays
  <2> QED BY <1>1, <2>2, <2>3 DEF PutTransition, Live
<1>2. ASSUME NEW q \in Sessions, RetainSession(q) PROVE Stays
  <2>1. session' = [session EXCEPT ![q] = TombstonedSession(session[q])]
    BY <1>2 DEF RetainSession
  <2>2. CASE q # s
    BY <1>0, <1>t, <2>1, <2>2
  <2>3. CASE q = s
    <3>1. session'[s] = TombstonedSession(session[s]) /\ session[s] \in SessionRows
      BY <1>t, <2>1, <2>3
    <3> QED BY <3>1 DEF TombstonedSession, SessionRows
  <2> QED BY <2>2, <2>3
<1>3. ASSUME NEW h \in Handlers, NEW q \in Sessions, NEW n \in Natives \cup {NoNative},
             CreateSession(h, q, n)
      PROVE Stays
  BY <1>3, <1>n DEF CreateSession
<1>4. ASSUME NEW h \in Handlers, NEW q \in Sessions, PutFork(h, q) PROVE Stays
  BY <1>4, <1>n DEF PutFork
<1> HIDE DEF Stays
<1>5. ASSUME session' = session PROVE Stays
  BY <1>5, <1>0
<1> QED
  BY <1>1, <1>2, <1>3, <1>4, <1>5 DEF Next, vars, Sessioning, Appending, CreateNativeAgain,
     BeginFork, BeginTransition, BeginAppend, ReadOrdinal, PutTurnReplayed, PutTurnCollided,
     PutTurnInserted, PutTurnOrphaned, BeginMessage, PutMessage, RetainTurn, RetainMessage, Restart

\* A session appears as its own root, or as the fork of the request that puts it.
LEMMA NewSessions ==
    ASSUME TypeOK, [Next]_vars, NEW s \in Sessions,
           session[s].st = "none", session'[s].st # "none"
    PROVE  \/ session'[s].parent = NoSession /\ session'[s].root = s
           \/ \E h \in Handlers : /\ handler[h].op = "fork"
                                  /\ session'[s].parent = handler[h].session
                                  /\ session'[s].root = handler[h].root
<1> DEFINE Made == \/ session'[s].parent = NoSession /\ session'[s].root = s
                   \/ \E h \in Handlers : /\ handler[h].op = "fork"
                                          /\ session'[s].parent = handler[h].session
                                          /\ session'[s].root = handler[h].root
<1> SUFFICES Made
  OBVIOUS
<1>t. session \in [Sessions -> SessionRows] /\ handler \in [Handlers -> HandlerStates]
  BY DEF TypeOK, HandlerStates
<1>n. ASSUME NEW q \in Sessions, NEW a, NEW b, NEW c, NewSession(q, a, b, c)
      PROVE  q = s /\ session'[s].parent = a /\ session'[s].root = b
  BY <1>n, <1>t DEF NewSession
<1>1. ASSUME NEW h \in Handlers, NEW q \in Sessions, NEW n \in Natives \cup {NoNative},
             CreateSession(h, q, n)
      PROVE Made
  BY <1>1, <1>n DEF CreateSession
<1>2. ASSUME NEW h \in Handlers, NEW q \in Sessions, PutFork(h, q) PROVE Made
  BY <1>2, <1>n DEF PutFork
<1>3. ASSUME NEW h \in Handlers, PutTransition(h) PROVE session'[s] = session[s]
  BY <1>3, <1>t DEF PutTransition, Live
<1>4. ASSUME NEW q \in Sessions, RetainSession(q) PROVE session'[s] = session[s]
  BY <1>4, <1>t DEF RetainSession, Live
<1>5. ASSUME session'[s] = session[s] PROVE Made
  BY <1>5
<1> HIDE DEF Made
<1>6. ASSUME session' = session PROVE Made
  BY <1>6, <1>5
<1> QED
  BY <1>1, <1>2, <1>3, <1>4, <1>5, <1>6 DEF Next, vars, Sessioning, Appending, CreateNativeAgain,
     BeginFork, BeginTransition, BeginAppend, ReadOrdinal, PutTurnReplayed, PutTurnCollided,
     PutTurnInserted, PutTurnOrphaned, BeginMessage, PutMessage, RetainTurn, RetainMessage, Restart

\* A request becomes a fork only by reading a live session and its root.
LEMMA NewForks ==
    ASSUME TypeOK, [Next]_vars, NEW g \in Handlers, handler'[g].op = "fork"
    PROVE  \/ handler'[g] = handler[g]
           \/ \E s \in Sessions :
                 /\ session[s].st = "live"
                 /\ handler'[g].session = s /\ handler'[g].root = session[s].root
<1> DEFINE Made == \/ handler'[g] = handler[g]
                   \/ \E s \in Sessions :
                         /\ session[s].st = "live"
                         /\ handler'[g].session = s /\ handler'[g].root = session[s].root
<1> SUFFICES Made
  OBVIOUS
<1>t. handler \in [Handlers -> HandlerStates]
  BY DEF TypeOK, HandlerStates
<1>0. ASSUME handler'[g] = handler[g] PROVE Made
  BY <1>0
<1>1. ASSUME NEW h \in Handlers, NEW s \in Sessions, BeginFork(h, s) PROVE Made
  BY <1>1, <1>t DEF BeginFork, Live
<1> HIDE DEF Made
<1>2. ASSUME NEW h \in Handlers,
             \/ \E s \in Sessions, n \in Natives \cup {NoNative} : CreateSession(h, s, n)
             \/ \E n \in Natives : CreateNativeAgain(h, n)
             \/ \E s \in Sessions : PutFork(h, s)
             \/ \E s \in Sessions, to \in {"active", "archived"} : BeginTransition(h, s, to)
             \/ PutTransition(h)
      PROVE  Made
  BY <1>2, <1>0, <1>t DEF CreateSession, CreateNativeAgain, PutFork, BeginTransition,
     PutTransition, Idle
<1>3. ASSUME NEW h \in Handlers, Appending(h) PROVE Made
  <2>1. ASSUME NEW r \in Appends, NEW n PROVE [r EXCEPT !.op = "put", !.ordinal = n].op = "put"
    BY DEF Appends
  <2>2. ASSUME NEW r \in Appends PROVE Retrying(r).op = "append"
    BY DEF Retrying, Appends
  <2>3. handler[h].op \in {"append", "put"} => handler[h] \in Appends
    BY <1>t, HandlerKinds
  <2>4. ASSUME handler' = [handler EXCEPT ![h] = handler'[h]],
               handler'[h].op # "fork"
        PROVE  Made
    BY <1>0, <1>t, <2>4
  <2>5. ASSUME NEW n \in Ordinals, ReadOrdinal(h, n) PROVE Made
    <3>1. handler' = [handler EXCEPT ![h] = [handler[h] EXCEPT !.op = "put", !.ordinal = n]]
      BY <2>5 DEF ReadOrdinal
    <3>2. handler'[h] = [handler[h] EXCEPT !.op = "put", !.ordinal = n]
      BY <1>t, <3>1
    <3> QED BY <2>1, <2>3, <2>4, <2>5, <3>1, <3>2 DEF ReadOrdinal
  <2>6. ASSUME PutTurnCollided(h) PROVE Made
    <3>1. \/ handler' = [handler EXCEPT ![h] = Retrying(handler[h])]
          \/ handler' = [handler EXCEPT ![h] = Idle]
      BY <2>6 DEF PutTurnCollided
    <3>2. Retrying(handler[h]).op # "fork" /\ Idle.op # "fork"
      BY <2>2, <2>3, <2>6 DEF PutTurnCollided, Idle
    <3> QED BY <1>t, <2>4, <3>1, <3>2
  <2>7. ASSUME PutTurnReplayed(h) \/ PutTurnInserted(h) PROVE Made
    BY <1>0, <1>t, <2>7 DEF PutTurnReplayed, PutTurnInserted, Acked
  <2>8. ASSUME \/ \E s \in Sessions, c \in Contents : BeginAppend(h, s, c)
               \/ \E s \in Sessions, o \in Ordinals : BeginMessage(h, s, o)
               \/ PutTurnOrphaned(h) \/ PutMessage(h)
        PROVE  Made
    BY <1>0, <1>t, <2>8 DEF BeginAppend, BeginMessage, PutTurnOrphaned, PutMessage, Idle
  <2> QED BY <1>3, <2>5, <2>6, <2>7, <2>8 DEF Appending
<1>4. ASSUME \/ \E s \in Sessions : RetainSession(s)
             \/ \E s \in Sessions, o \in Ordinals : RetainTurn(s, o) \/ RetainMessage(s, o)
             \/ UNCHANGED vars
      PROVE  Made
  BY <1>4, <1>0 DEF RetainSession, RetainTurn, RetainMessage, vars
<1>5. ~Restart
  BY DEF Restart, Idle
<1> QED BY <1>1, <1>2, <1>3, <1>4, <1>5 DEF Next, Sessioning

\* Every step keeps the lineage and the forks in flight.
LEMMA LineageStep ==
    ASSUME TypeOK, TypeOK', ForkInv, LineageKeepsRoot, [Next]_vars
    PROVE  ForkInv' /\ LineageKeepsRoot'
<1>t. handler \in [Handlers -> HandlerStates] /\ NoSession \notin Sessions
  BY SessionConstants DEF TypeOK, HandlerStates, SessionConstants
<1>1. ASSUME NEW g \in Handlers, handler'[g].op = "fork"
      PROVE  /\ session'[handler'[g].session].st # "none"
             /\ handler'[g].root = session'[handler'[g].session].root
  <2>1. ASSUME NEW s \in Sessions, session[s].st # "none",
               handler'[g].session = s, handler'[g].root = session[s].root
        PROVE  /\ session'[handler'[g].session].st # "none"
               /\ handler'[g].root = session'[handler'[g].session].root
    BY <2>1, SessionsStay
  <2>2. CASE handler'[g] = handler[g]
    <3>1. handler[g].session \in Sessions
      BY <1>1, <1>t, <2>2, HandlerKinds DEF Forks
    <3> QED BY <1>1, <2>1, <2>2, <3>1 DEF ForkInv
  <2> QED BY <1>1, <2>1, <2>2, NewForks
<1>2. ASSUME NEW s \in Sessions, session'[s].st # "none"
      PROVE  \/ session'[s].parent = NoSession /\ session'[s].root = s
             \/ /\ session'[s].parent \in Sessions \ {s}
                /\ session'[session'[s].parent].st # "none"
                /\ session'[s].root = session'[session'[s].parent].root
  <2>1. CASE session[s].st # "none"
    <3>1. session'[s].parent = session[s].parent /\ session'[s].root = session[s].root
      BY <2>1, SessionsStay
    <3>2. CASE session[s].parent = NoSession /\ session[s].root = s
      BY <3>1, <3>2
    <3>3. ASSUME NEW q \in Sessions \ {s}, session[s].parent = q, session[q].st # "none",
                 session[s].root = session[q].root
          PROVE  session'[q].st # "none" /\ session'[s].root = session'[q].root
      BY <3>1, <3>3, SessionsStay
    <3> QED BY <2>1, <3>1, <3>2, <3>3 DEF LineageKeepsRoot
  <2>2. CASE session[s].st = "none"
    <3>1. CASE session'[s].parent = NoSession /\ session'[s].root = s
      BY <3>1
    <3>2. ASSUME NEW h \in Handlers, handler[h].op = "fork",
                 session'[s].parent = handler[h].session, session'[s].root = handler[h].root
          PROVE  /\ session'[s].parent \in Sessions \ {s}
                 /\ session'[session'[s].parent].st # "none"
                 /\ session'[s].root = session'[session'[s].parent].root
      <4>1. handler[h].session \in Sessions
        BY <1>t, <3>2, HandlerKinds DEF Forks
      <4>2. /\ session[handler[h].session].st # "none"
            /\ handler[h].root = session[handler[h].session].root
        BY <3>2 DEF ForkInv
      <4>3. /\ session'[handler[h].session].st # "none"
            /\ session'[handler[h].session].root = session[handler[h].session].root
        BY <4>1, <4>2, SessionsStay
      <4> QED BY <2>2, <3>2, <4>1, <4>2, <4>3
    <3> QED BY <1>2, <2>2, <3>1, <3>2, NewSessions
  <2> QED BY <2>1, <2>2
<1> QED BY <1>1, <1>2 DEF ForkInv, LineageKeepsRoot

\* fork_session reads its source and puts the fork later: a fork still refers to
\* a session that exists and has that session's root, for any number of sessions
\* and of forks in flight.
THEOREM Lineage == Spec => []LineageKeepsRoot
<1>1. Init => ForkInv /\ LineageKeepsRoot
  BY DEF Init, ForkInv, LineageKeepsRoot, Idle, AbsentSession
<1>2. TypeOK /\ TypeOK' /\ ForkInv /\ LineageKeepsRoot /\ [Next]_vars
        => (ForkInv /\ LineageKeepsRoot)'
  BY LineageStep
<1> QED BY <1>1, <1>2, TypeCorrect, PTL DEF Spec

=============================================================================
