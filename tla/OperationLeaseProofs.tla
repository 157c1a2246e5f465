------------------------ MODULE OperationLeaseProofs ------------------------
(* Proofs about the operation leases, for all constants. *)
EXTENDS MCOperationLease, TLAPS

\* The constants that stand for SQL NULLs have the types of the fields.
LEMMA NullTypes == AbsentRow \in Rows /\ NoGrant \in Grants
  BY LeaseConstants DEF AbsentRow, Rows, NoGrant, Grants, States, Times

\* Every step keeps the types, given that results are where RowInv says.
LEMMA TypeStep == ASSUME TypeOK, RowInv, [Next]_vars PROVE TypeOK'
<1> USE LeaseConstants DEF TypeOK
<1>1. ASSUME NEW w \in Workers, NEW k \in Keys, NEW q \in Requests, NEW ttl \in Ttls,
             Acquired(w, k, q, ttl)
      PROVE TypeOK'
  <2>1. now + ttl \in Times /\ op[k].attempt + 1 \in 0 .. MaxAttempt
    BY <1>1 DEF Acquired, Times, Rows
  <2>2. [state |-> "leased", request |-> q, owner |-> w,
         attempt |-> op[k].attempt + 1, expires |-> now + ttl,
         result |-> NoResult] \in Rows
    BY <2>1 DEF Rows, States
  <2>3. [lease |-> op[k].attempt + 1, request |-> q, expires |-> now + ttl] \in Grants
    BY <2>1 DEF Grants
  <2>4. op' \in [Keys -> Rows]
    BY <1>1, <2>2 DEF Acquired
  <2>5. held' \in [Workers -> [Keys -> Grants]]
    BY <1>1, <2>3 DEF Acquired
  <2>6. trail' \in [Keys -> Seq(States)]
    BY <1>1 DEF Acquired, States
  <2> QED BY <1>1, <2>4, <2>5, <2>6 DEF Acquired
<1>2. ASSUME NEW w \in Workers, NEW k \in Keys, NEW q \in Requests, Replayed(w, k, q)
      PROVE TypeOK'
  <2>1. op[k].result \in Results
    BY <1>2 DEF Replayed, Rows, RowInv
  <2> QED BY <1>2, <2>1 DEF Replayed
<1>3. ASSUME NEW w \in Workers, NEW k \in Keys, NEW ttl \in Ttls, Renewed(w, k, ttl)
      PROVE TypeOK'
  <2>1. now + ttl \in Times
    BY <1>3 DEF Renewed, Times
  <2>2. op' \in [Keys -> Rows]
    BY <1>3, <2>1 DEF Renewed, Rows
  <2>3. held' \in [Workers -> [Keys -> Grants]]
    <3>1. [held[w][k] EXCEPT !.expires = now + ttl] \in Grants
      <4>1. held[w][k] \in Grants
        OBVIOUS
      <4> QED BY <2>1, <4>1 DEF Grants
    <3> QED BY <1>3, <3>1 DEF Renewed
  <2> QED BY <1>3, <2>2, <2>3 DEF Renewed
<1>4. ASSUME NEW w \in Workers, NEW k \in Keys,
             NEW end \in {"completed", "failed", "cancelled"}, NEW told \in BOOLEAN,
             Ended(w, k, end, told)
      PROVE TypeOK'
  <2> DEFINE r == [request |-> held[w][k].request, lease |-> held[w][k].lease]
  <2>1. r \in Results
    <3>1. held[w][k] \in Grants /\ op[k] \in Rows
      OBVIOUS
    <3>2. held[w][k].lease # 0 /\ held[w][k].request = op[k].request
          /\ op[k].request # NoRequest
      BY <1>4 DEF Ended, RowInv
    <3> QED BY <3>1, <3>2 DEF Grants, Results, Rows
  <2>2. op' \in [Keys -> Rows]
    <3>1. op[k] \in Rows /\ 0 \in Times /\ end \in States
      BY DEF States, Times
    <3>2. [op[k] EXCEPT !.state = end, !.expires = 0,
             !.result = IF end = "completed" THEN r ELSE NoResult] \in Rows
      BY <2>1, <3>1 DEF Rows
    <3> QED BY <1>4, <3>2 DEF Ended
  <2>3. learned' \in [Workers -> [Keys -> SUBSET Results]]
    BY <1>4, <2>1 DEF Ended
  <2>4. held' \in [Workers -> [Keys -> Grants]]
    BY <1>4, NullTypes DEF Ended
  <2>5. trail' \in [Keys -> Seq(States)]
    BY <1>4 DEF Ended, States
  <2> QED BY <1>4, <2>2, <2>3, <2>4, <2>5 DEF Ended
<1>5. ASSUME NEW w \in Workers, NEW k \in Keys, Refused(w, k)
      PROVE TypeOK'
  BY <1>5, NullTypes DEF Refused
<1>6. ASSUME NEW cutoff \in Times, NEW B \in SUBSET Keys, Recovered(cutoff, B)
      PROVE TypeOK'
  <2>1. 0 \in Times
    BY DEF Times
  <2>2. op' \in [Keys -> Rows]
    <3>1. ASSUME NEW j \in Keys
          PROVE [op[j] EXCEPT !.state = "abandoned", !.expires = 0] \in Rows
      <4>1. op[j] \in Rows
        OBVIOUS
      <4> QED BY <2>1, <4>1 DEF Rows, States
    <3> QED BY <1>6, <3>1 DEF Recovered
  <2>3. trail' \in [Keys -> Seq(States)]
    <3>1. ASSUME NEW j \in Keys PROVE Append(trail[j], "abandoned") \in Seq(States)
      <4>1. trail[j] \in Seq(States) /\ "abandoned" \in States
        BY DEF States
      <4> QED BY <4>1
    <3> QED BY <1>6, <3>1 DEF Recovered
  <2> QED BY <1>6, <2>2, <2>3 DEF Recovered
<1>7. ASSUME NEW w \in Workers, Crash(w)
      PROVE TypeOK'
  BY <1>7, NullTypes DEF Crash
<1>8. ASSUME NEW t \in Times, ClockStep(t)
      PROVE TypeOK'
  BY <1>8 DEF ClockStep
<1>9. CASE UNCHANGED vars
  BY <1>9 DEF vars
<1> QED BY <1>1, <1>2, <1>3, <1>4, <1>5, <1>6, <1>7, <1>8, <1>9 DEF Next

\* Every step keeps rows, grants and told results together.
LEMMA RowStep == ASSUME TypeOK, RowInv, [Next]_vars PROVE RowInv'
<1> USE DEF RowInv
<1>a. \A k \in Keys : op[k] \in Rows
  BY DEF TypeOK
<1>b. \A w \in Workers, k \in Keys : held[w][k] \in Grants
  BY DEF TypeOK
<1>1. ASSUME NEW w \in Workers, NEW k \in Keys, NEW q \in Requests, NEW ttl \in Ttls,
             Acquired(w, k, q, ttl)
      PROVE RowInv'
  <2>1. op[k].result = NoResult
    BY <1>1 DEF Acquired, Leasable
  <2>2. /\ op' = [op EXCEPT ![k] =
                [state |-> "leased", request |-> q, owner |-> w,
                 attempt |-> op[k].attempt + 1, expires |-> now + ttl,
                 result |-> NoResult]]
        /\ learned' = learned
    BY <1>1 DEF Acquired
  <2>3. ASSUME NEW j \in Keys, NEW v \in Workers
        PROVE /\ held'[v][j] # NoGrant =>
                    /\ op'[j].state # "absent"
                    /\ held'[v][j].request = op'[j].request
                    /\ held'[v][j].lease # 0
              /\ \A r \in learned'[v][j] : op'[j].result = r
    <3>1. CASE j = k /\ v = w
      <4>1. held'[v][j] = [lease |-> op[k].attempt + 1, request |-> q, expires |-> now + ttl]
        BY <1>1, <3>1 DEF Acquired, TypeOK
      <4>2. op[k].attempt + 1 # 0
        BY <1>a, LeaseConstants DEF Rows
      <4>3. op'[j].request = q /\ op'[j].state = "leased" /\ op'[j].result = NoResult
        BY <2>2, <3>1 DEF TypeOK
      <4>4. \A r \in learned'[v][j] : r = NoResult
        BY <2>1, <2>2, <3>1
      <4> HIDE DEF RowInv
      <4> QED BY <4>1, <4>2, <4>3, <4>4
    <3>2. CASE ~(j = k /\ v = w)
      <4>1. held'[v][j] = held[v][j]
        BY <1>1, <3>2 DEF Acquired, TypeOK
      <4>2. op'[j] = op[j] \/ (j = k /\ op'[j].request = q /\ op'[j].state = "leased"
                               /\ op'[j].result = op[j].result)
        BY <2>1, <2>2 DEF TypeOK
      <4>3. j = k /\ op[j].state # "absent" => q = op[j].request
        BY <1>1 DEF Acquired, SameRequest
      <4>4. /\ held[v][j] # NoGrant => /\ op[j].state # "absent"
                                        /\ held[v][j].request = op[j].request
                                        /\ held[v][j].lease # 0
            /\ \A r \in learned[v][j] : op[j].result = r
        OBVIOUS
      <4>5. op'[j].result = op[j].result
        BY <4>2
      <4>6. held[v][j] # NoGrant => op'[j].state # "absent" /\ op'[j].request = op[j].request
        BY <4>2, <4>3, <4>4
      <4> HIDE DEF RowInv
      <4> QED BY <4>1, <4>4, <4>5, <4>6, <2>2
    <3> QED BY <3>1, <3>2
  <2>4. ASSUME NEW j \in Keys
        PROVE /\ op'[j].state = "absent" <=> op'[j].request = NoRequest
              /\ op'[j].state = "completed" <=> op'[j].result # NoResult
              /\ op'[j].result # NoResult =>
                   op'[j].result = [request |-> op'[j].request, lease |-> op'[j].attempt]
    BY <2>2, LeaseConstants DEF TypeOK
  <2> QED BY <2>3, <2>4
<1>2. ASSUME NEW w \in Workers, NEW k \in Keys, NEW q \in Requests, Replayed(w, k, q)
      PROVE RowInv'
  BY <1>2 DEF Replayed, TypeOK
<1>3. ASSUME NEW w \in Workers, NEW k \in Keys, NEW ttl \in Ttls, Renewed(w, k, ttl)
      PROVE RowInv'
  <2>1. op' = [op EXCEPT ![k].expires = now + ttl] /\ learned' = learned
    BY <1>3 DEF Renewed
  <2>2. \A j \in Keys : /\ op'[j].state = op[j].state /\ op'[j].request = op[j].request
                         /\ op'[j].result = op[j].result /\ op'[j].attempt = op[j].attempt
    BY <2>1, <1>a DEF TypeOK, Rows
  <2>3. ASSUME NEW j \in Keys, NEW v \in Workers
        PROVE held'[v][j] = held[v][j]
              \/ (/\ held[v][j] # NoGrant
                  /\ held'[v][j].request = held[v][j].request
                  /\ held'[v][j].lease = held[v][j].lease)
    BY <1>3, <1>b DEF Renewed, TypeOK, Grants
  <2> QED BY <2>1, <2>2, <2>3
<1>4. ASSUME NEW w \in Workers, NEW k \in Keys,
             NEW end \in {"completed", "failed", "cancelled"}, NEW told \in BOOLEAN,
             Ended(w, k, end, told)
      PROVE RowInv'
  <2> DEFINE r == [request |-> held[w][k].request, lease |-> held[w][k].lease]
  <2>1. /\ op' = [op EXCEPT ![k] = [op[k] EXCEPT !.state = end, !.expires = 0,
                     !.result = IF end = "completed" THEN r ELSE NoResult]]
        /\ held' = [held EXCEPT ![w][k] = NoGrant]
        /\ learned' = IF end = "completed" /\ told
                      THEN [learned EXCEPT ![w][k] = learned[w][k] \cup {r}] ELSE learned
    BY <1>4 DEF Ended
  <2>2. /\ op[k].state = "leased" /\ op[k].attempt = held[w][k].lease
        /\ op[k].request = held[w][k].request
    BY <1>4 DEF Ended, OwnsLiveLease
  <2>3. op[k].result = NoResult
    BY <2>2
  <2>4. \A v \in Workers : learned[v][k] = {}
    <3> SUFFICES ASSUME NEW v \in Workers, NEW x \in learned[v][k] PROVE FALSE
      BY DEF TypeOK
    <3>1. x \in Results /\ op[k].result = x
      BY DEF TypeOK
    <3> QED BY <3>1, <2>3, NoResultAssumption
  <2>5. r # NoResult /\ r = [request |-> op[k].request, lease |-> op[k].attempt]
    <3>1. r \in Results
      <4>1. held[w][k].lease # 0 /\ op[k].request # NoRequest
        BY <1>4, <2>2 DEF Ended
      <4> QED BY <4>1, <2>2, <1>a, <1>b, LeaseConstants DEF Results, Grants, Rows
    <3> QED BY <3>1, <2>2, NoResultAssumption
  <2>6. ASSUME NEW j \in Keys, j # k
        PROVE op'[j] = op[j] /\ \A v \in Workers : held'[v][j] = held[v][j]
                                                   /\ learned'[v][j] = learned[v][j]
    BY <2>1, <2>6 DEF TypeOK
  <2>7. op[k] \in Rows /\ op'[k] = [op[k] EXCEPT !.state = end, !.expires = 0,
                     !.result = IF end = "completed" THEN r ELSE NoResult]
    BY <2>1, <1>a DEF TypeOK
  <2>8. /\ op'[k].state = end /\ op'[k].request = op[k].request
        /\ op'[k].attempt = op[k].attempt
        /\ op'[k].result = IF end = "completed" THEN r ELSE NoResult
    BY <2>7 DEF Rows
  <2>9. \A v \in Workers : /\ held'[v][k] = NoGrant \/ held'[v][k] = held[v][k]
                           /\ \A x \in learned'[v][k] : end = "completed" /\ x = r
    BY <2>1, <2>4 DEF TypeOK
  <2>10. \A j \in Keys :
        /\ op'[j].state = "absent" <=> op'[j].request = NoRequest
        /\ op'[j].state = "completed" <=> op'[j].result # NoResult
        /\ op'[j].result # NoResult =>
              op'[j].result = [request |-> op'[j].request, lease |-> op'[j].attempt]
    <3> SUFFICES ASSUME NEW j \in Keys
                 PROVE /\ op'[j].state = "absent" <=> op'[j].request = NoRequest
                       /\ op'[j].state = "completed" <=> op'[j].result # NoResult
                       /\ op'[j].result # NoResult =>
                            op'[j].result = [request |-> op'[j].request, lease |-> op'[j].attempt]
      OBVIOUS
    <3>1. CASE j # k
      BY <2>6, <3>1
    <3>2. CASE j = k
      <4>1. op[k].request # NoRequest
        BY <2>2
      <4> HIDE DEF RowInv
      <4> QED BY <3>2, <2>5, <2>8, <4>1
    <3> QED BY <3>1, <3>2
  <2>11. \A j \in Keys : \A v \in Workers :
              /\ held'[v][j] # NoGrant =>
                    /\ op'[j].state # "absent"
                    /\ held'[v][j].request = op'[j].request
                    /\ held'[v][j].lease # 0
              /\ \A x \in learned'[v][j] : op'[j].result = x
    <3> SUFFICES ASSUME NEW j \in Keys, NEW v \in Workers
                 PROVE /\ held'[v][j] # NoGrant =>
                            /\ op'[j].state # "absent"
                            /\ held'[v][j].request = op'[j].request
                            /\ held'[v][j].lease # 0
                       /\ \A x \in learned'[v][j] : op'[j].result = x
      OBVIOUS
    <3>1. CASE j # k
      <4>1. op'[j] = op[j] /\ held'[v][j] = held[v][j] /\ learned'[v][j] = learned[v][j]
        BY <2>6, <3>1
      <4>2. /\ held[v][j] # NoGrant => /\ op[j].state # "absent"
                                        /\ held[v][j].request = op[j].request
                                        /\ held[v][j].lease # 0
            /\ \A x \in learned[v][j] : op[j].result = x
        OBVIOUS
      <4> HIDE DEF RowInv, r
      <4> QED BY <4>1, <4>2
    <3>2. CASE j = k
      <4>1. held[v][k] # NoGrant => /\ held[v][k].request = op[k].request
                                    /\ held[v][k].lease # 0
        OBVIOUS
      <4> HIDE DEF RowInv, r
      <4>2. \A x \in learned'[v][k] : op'[k].result = x
        BY <2>8, <2>9
      <4>3. held'[v][k] # NoGrant => /\ op'[k].state # "absent"
                                     /\ held'[v][k].request = op'[k].request
                                     /\ held'[v][k].lease # 0
        BY <2>8, <2>9, <4>1
      <4> QED BY <3>2, <4>2, <4>3
    <3> QED BY <3>1, <3>2
  <2> QED BY <2>10, <2>11
<1>5. ASSUME NEW w \in Workers, NEW k \in Keys, Refused(w, k)
      PROVE RowInv'
  <2>1. \A v \in Workers, j \in Keys : held'[v][j] = NoGrant \/ held'[v][j] = held[v][j]
    BY <1>5 DEF Refused, TypeOK
  <2> QED BY <1>5, <2>1 DEF Refused
<1>6. ASSUME NEW cutoff \in Times, NEW B \in SUBSET Keys, Recovered(cutoff, B)
      PROVE RowInv'
  <2>1. ASSUME NEW j \in Keys
        PROVE /\ op'[j].request = op[j].request /\ op'[j].attempt = op[j].attempt
              /\ op'[j].result = op[j].result
              /\ op'[j].state = op[j].state \/ (op[j].state = "leased" /\ op'[j].state = "abandoned")
    <3>1. j \in B => op[j].state = "leased"
      BY <1>6 DEF Recovered, Batch, ExpiredAt
    <3> QED BY <1>6, <1>a, <3>1 DEF Recovered, Rows
  <2>2. held' = held /\ learned' = learned
    BY <1>6 DEF Recovered
  <2>3. ASSUME NEW j \in Keys
        PROVE /\ op'[j].state = "absent" <=> op'[j].request = NoRequest
              /\ op'[j].state = "completed" <=> op'[j].result # NoResult
              /\ op'[j].result # NoResult =>
                   op'[j].result = [request |-> op'[j].request, lease |-> op'[j].attempt]
    BY <2>1
  <2>4. ASSUME NEW j \in Keys, NEW v \in Workers
        PROVE /\ held'[v][j] # NoGrant =>
                    /\ op'[j].state # "absent"
                    /\ held'[v][j].request = op'[j].request
                    /\ held'[v][j].lease # 0
              /\ \A r \in learned'[v][j] : op'[j].result = r
    BY <2>1, <2>2
  <2> QED BY <2>3, <2>4
<1>7. ASSUME NEW w \in Workers, Crash(w)
      PROVE RowInv'
  <2>1. \A v \in Workers, j \in Keys : held'[v][j] = NoGrant \/ held'[v][j] = held[v][j]
    BY <1>7 DEF Crash, TypeOK
  <2> QED BY <1>7, <2>1 DEF Crash
<1>8. ASSUME NEW t \in Times, ClockStep(t)
      PROVE RowInv'
  BY <1>8 DEF ClockStep
<1>9. CASE UNCHANGED vars
  BY <1>9 DEF vars
<1> QED BY <1>1, <1>2, <1>3, <1>4, <1>5, <1>6, <1>7, <1>8, <1>9 DEF Next

\* The tables start empty.
LEMMA LeaseStart == Init => LeaseInv
<1> SUFFICES ASSUME Init PROVE TypeOK /\ RowInv
  BY DEF LeaseInv
<1>1. TypeOK
  BY NullTypes DEF Init, TypeOK
<1>2. RowInv
  BY NoResultAssumption DEF Init, RowInv, AbsentRow
<1> QED BY <1>1, <1>2

\* Types and row consistency hold in every reachable state.
LEMMA Inductive == Spec => []LeaseInv
<1>1. Init => LeaseInv
  BY LeaseStart
<1>2. LeaseInv /\ [Next]_vars => LeaseInv'
  BY TypeStep, RowStep DEF LeaseInv
<1> QED BY <1>1, <1>2, PTL DEF Spec

\* Types are kept in every reachable state.
THEOREM TypeCorrect == Spec => []TypeOK
  BY Inductive, PTL DEF LeaseInv

\* transition_operation's check fences stale holders: a completed row carries
\* the result of its last lease and of the request it was reserved for.
THEOREM Fenced == Spec => []FencedResult
<1>1. LeaseInv => FencedResult
  BY DEF LeaseInv, RowInv, FencedResult
<1> QED BY <1>1, Inductive, PTL

\* Whoever is given a result for a key, by completing it or by a replay, is
\* given the one result of the key's request.
THEOREM Agreement == Spec => []ResultAgreement
<1>1. LeaseInv => ResultAgreement
  <2> SUFFICES ASSUME LeaseInv, NEW k \in Keys, NEW w \in Workers, NEW r \in learned[w][k]
               PROVE /\ op[k].state = "completed" /\ op[k].result = r
                     /\ r.request = op[k].request
    BY DEF ResultAgreement
  <2>1. op[k].result = r /\ r \in Results
    BY DEF LeaseInv, RowInv, TypeOK
  <2>2. op[k].result # NoResult
    BY <2>1, NoResultAssumption
  <2>3. op[k].state = "completed"
        /\ op[k].result = [request |-> op[k].request, lease |-> op[k].attempt]
    BY <2>2 DEF LeaseInv, RowInv
  <2> QED BY <2>1, <2>3
<1> QED BY <1>1, Inductive, PTL

\* A completed row is never written again, and a reserved key keeps its request.
THEOREM Final == Spec => RowsAreFinal
<1>1. LeaseInv /\ [Next]_vars =>
        [\A k \in Keys :
          /\ op[k].state = "completed" => op'[k] = op[k]
          /\ op[k].state # "absent" => op'[k].request = op[k].request
          /\ op'[k].attempt >= op[k].attempt]_vars
  <2> SUFFICES ASSUME TypeOK, [Next]_vars, NEW j \in Keys
               PROVE /\ op[j].state = "completed" => op'[j] = op[j]
                     /\ op[j].state # "absent" => op'[j].request = op[j].request
                     /\ op'[j].attempt >= op[j].attempt
    BY DEF LeaseInv
  <2>0. op[j] \in Rows /\ op[j].attempt \in Nat
    BY LeaseConstants DEF TypeOK, Rows
  <2>1. ASSUME NEW w \in Workers, NEW k \in Keys, NEW q \in Requests, NEW ttl \in Ttls,
               Acquired(w, k, q, ttl)
        PROVE /\ op[j].state = "completed" => op'[j] = op[j]
              /\ op[j].state # "absent" => op'[j].request = op[j].request
              /\ op'[j].attempt >= op[j].attempt
    BY <2>0, <2>1 DEF Acquired, Leasable, SameRequest, TypeOK
  <2>2. ASSUME NEW w \in Workers, NEW k \in Keys, NEW ttl \in Ttls, Renewed(w, k, ttl)
        PROVE /\ op[j].state = "completed" => op'[j] = op[j]
              /\ op[j].state # "absent" => op'[j].request = op[j].request
              /\ op'[j].attempt >= op[j].attempt
    BY <2>0, <2>2 DEF Renewed, RenewMatches, OwnsLiveLease, TypeOK, Rows
  <2>3. ASSUME NEW w \in Workers, NEW k \in Keys,
               NEW end \in {"completed", "failed", "cancelled"}, NEW told \in BOOLEAN,
               Ended(w, k, end, told)
        PROVE /\ op[j].state = "completed" => op'[j] = op[j]
              /\ op[j].state # "absent" => op'[j].request = op[j].request
              /\ op'[j].attempt >= op[j].attempt
    BY <2>0, <2>3 DEF Ended, OwnsLiveLease, TypeOK, Rows
  <2>4. ASSUME NEW cutoff \in Times, NEW B \in SUBSET Keys, Recovered(cutoff, B)
        PROVE /\ op[j].state = "completed" => op'[j] = op[j]
              /\ op[j].state # "absent" => op'[j].request = op[j].request
              /\ op'[j].attempt >= op[j].attempt
    <3>1. j \in B => op[j].state = "leased"
      BY <2>4 DEF Recovered, Batch, ExpiredAt
    <3>2. op'[j] = IF j \in B THEN [op[j] EXCEPT !.state = "abandoned", !.expires = 0]
                   ELSE op[j]
      BY <2>4 DEF Recovered
    <3> QED BY <2>0, <3>1, <3>2 DEF Rows
  <2>5. CASE UNCHANGED op
    BY <2>0, <2>5
  <2> QED
    BY <2>1, <2>2, <2>3, <2>4, <2>5
    DEF Next, vars, Replayed, Refused, Crash, ClockStep
<1> QED BY <1>1, Inductive, PTL DEF Spec, RowsAreFinal

\* What a step may do to one key's audit trail: nothing, while the state stays,
\* or append the event of the state it gives to a row that is not completed.
Audited(j) ==
    \/ trail'[j] = trail[j] /\ op'[j].state = op[j].state
    \/ /\ op[j].state # "completed" /\ op'[j].state # "absent"
       /\ trail'[j] = Append(trail[j], op'[j].state)

\* Every transaction that changes the state of a row appends its event.
LEMMA StepsAreAudited ==
    ASSUME TypeOK, [Next]_vars, NEW j \in Keys PROVE Audited(j)
<1>0. op[j] \in Rows /\ trail[j] \in Seq(States)
  BY DEF TypeOK
<1>1. ASSUME NEW w \in Workers, NEW k \in Keys, NEW q \in Requests, NEW ttl \in Ttls,
             Acquired(w, k, q, ttl)
      PROVE Audited(j)
  BY <1>1 DEF Acquired, Leasable, TypeOK, Audited
<1>2. ASSUME NEW w \in Workers, NEW k \in Keys, NEW ttl \in Ttls, Renewed(w, k, ttl)
      PROVE Audited(j)
  BY <1>0, <1>2 DEF Renewed, TypeOK, Audited, Rows
<1>3. ASSUME NEW w \in Workers, NEW k \in Keys,
             NEW end \in {"completed", "failed", "cancelled"}, NEW told \in BOOLEAN,
             Ended(w, k, end, told)
      PROVE Audited(j)
  BY <1>0, <1>3 DEF Ended, OwnsLiveLease, TypeOK, Audited, Rows
<1>4. ASSUME NEW cutoff \in Times, NEW B \in SUBSET Keys, Recovered(cutoff, B)
      PROVE Audited(j)
  <2>1. j \in B => op[j].state = "leased"
    BY <1>4 DEF Recovered, Batch, ExpiredAt
  <2> QED BY <1>0, <1>4, <2>1 DEF Recovered, Audited, Rows
<1>5. CASE UNCHANGED <<op, trail>>
  BY <1>5 DEF Audited
<1> QED
  BY <1>1, <1>2, <1>3, <1>4, <1>5 DEF Next, vars, Replayed, Refused, Crash, ClockStep

\* The audit trail of a key ends with the event of the row's state, and no event
\* follows a completion.
THEOREM Audit == Spec => []TrailFaithful
<1>1. Init => TrailFaithful
  BY DEF Init, TrailFaithful, AbsentRow
<1>2. TypeOK /\ TrailFaithful /\ [Next]_vars => TrailFaithful'
  <2> SUFFICES ASSUME TypeOK, TrailFaithful, [Next]_vars, NEW j \in Keys
               PROVE /\ trail'[j] = <<>> <=> op'[j].state = "absent"
                     /\ trail'[j] # <<>> => trail'[j][Len(trail'[j])] = op'[j].state
                     /\ \A i \in 1 .. Len(trail'[j]) :
                           trail'[j][i] = "completed" => i = Len(trail'[j])
    BY DEF TrailFaithful
  <2>0. trail[j] \in Seq(States) /\ op[j] \in Rows
    BY DEF TypeOK
  <2>1. /\ trail[j] = <<>> <=> op[j].state = "absent"
        /\ trail[j] # <<>> => trail[j][Len(trail[j])] = op[j].state
        /\ \A i \in 1 .. Len(trail[j]) : trail[j][i] = "completed" => i = Len(trail[j])
    BY DEF TrailFaithful
  <2>2. Audited(j)
    BY StepsAreAudited
  <2>3. CASE trail'[j] = trail[j] /\ op'[j].state = op[j].state
    BY <2>1, <2>3
  <2>4. CASE /\ op[j].state # "completed" /\ op'[j].state # "absent"
             /\ trail'[j] = Append(trail[j], op'[j].state)
    <3>1. /\ Len(trail'[j]) = Len(trail[j]) + 1
          /\ trail'[j][Len(trail'[j])] = op'[j].state
          /\ \A i \in 1 .. Len(trail[j]) : trail'[j][i] = trail[j][i]
      BY <2>0, <2>4
    <3>2. trail'[j] # <<>>
      BY <2>0, <2>4
    <3>3. \A i \in 1 .. Len(trail[j]) : trail[j][i] # "completed"
      BY <2>0, <2>1, <2>4
    <3> QED BY <2>0, <2>4, <3>1, <3>2, <3>3
  <2> QED BY <2>2, <2>3, <2>4 DEF Audited
<1> QED BY <1>1, <1>2, TypeCorrect, PTL DEF Spec

\* The steps under a clock that only advances.
MonotoneNext ==
    /\ Next
    /\ \/ \E w \in Workers, k \in Keys, q \in Requests, ttl \in Ttls : Acquired(w, k, q, ttl)
       \/ \E w \in Workers, k \in Keys, q \in Requests : Replayed(w, k, q)
       \/ \E w \in Workers, k \in Keys, ttl \in Ttls : Renewed(w, k, ttl)
       \/ \E w \in Workers, k \in Keys, end \in {"completed", "failed", "cancelled"},
             told \in BOOLEAN : Ended(w, k, end, told)
       \/ \E w \in Workers, k \in Keys : Refused(w, k)
       \/ \E cutoff \in Times, B \in SUBSET Keys : Recovered(cutoff, B) /\ cutoff <= now
       \/ \E w \in Workers : Crash(w)
       \/ \E t \in Times : ClockStep(t) /\ t > now

\* They are the steps of the instance whose clock does not step back, and all
\* the steps there are when ClockMayStepBack is FALSE.
LEMMA MonotoneSteps == /\ Monotone!Next => MonotoneNext
                       /\ ~ClockMayStepBack /\ Next => MonotoneNext
<1>1. \A w \in Workers, k \in Keys, q \in Requests, ttl \in Ttls :
        Monotone!Acquired(w, k, q, ttl) => Acquired(w, k, q, ttl)
  <2>1. \A k \in Keys : Monotone!Leasable(k) => Leasable(k)
    BY Zenon DEF Monotone!Leasable, Leasable, Monotone!LeaseIsLive, LeaseIsLive
  <2>2. ASSUME NEW w \in Workers, NEW k \in Keys, NEW q \in Requests, NEW ttl \in Ttls,
               Monotone!Acquired(w, k, q, ttl)
        PROVE Acquired(w, k, q, ttl)
    BY <2>1, <2>2 DEF Monotone!Acquired, Acquired, Monotone!SameRequest, SameRequest
  <2> QED BY <2>2
<1>2. \A w \in Workers, k \in Keys, q \in Requests :
        Monotone!Replayed(w, k, q) => Replayed(w, k, q)
  BY Zenon DEF Monotone!Replayed, Replayed, Monotone!SameRequest, SameRequest
<1>3. \A w \in Workers, k \in Keys, ttl \in Ttls : Monotone!Renewed(w, k, ttl) => Renewed(w, k, ttl)
  BY Zenon DEF Monotone!Renewed, Renewed, Monotone!RenewMatches, RenewMatches,
         Monotone!OwnsLiveLease, OwnsLiveLease, Monotone!NoGrant, NoGrant
<1>4. \A w \in Workers, k \in Keys, end \in {"completed", "failed", "cancelled"},
            told \in BOOLEAN : Monotone!Ended(w, k, end, told) => Ended(w, k, end, told)
  <2>1. \A w \in Workers, k \in Keys : Monotone!OwnsLiveLease(w, k) => OwnsLiveLease(w, k)
    BY Zenon DEF Monotone!OwnsLiveLease, OwnsLiveLease
  <2>2. Monotone!NoGrant = NoGrant
    BY Zenon DEF Monotone!NoGrant, NoGrant
  <2>3. ASSUME NEW w \in Workers, NEW k \in Keys,
               NEW end \in {"completed", "failed", "cancelled"}, NEW told \in BOOLEAN,
               Monotone!Ended(w, k, end, told)
        PROVE Ended(w, k, end, told)
    BY <2>1, <2>2, <2>3 DEF Monotone!Ended, Ended
  <2> QED BY <2>3
<1>5. \A w \in Workers, k \in Keys : Monotone!Refused(w, k) => Refused(w, k)
  BY Zenon DEF Monotone!Refused, Refused, Monotone!OwnsLiveLease, OwnsLiveLease,
         Monotone!NoGrant, NoGrant
<1>6. \A w \in Workers : Monotone!Crash(w) => Crash(w)
  BY Zenon DEF Monotone!Crash, Crash, Monotone!NoGrant, NoGrant
<1>7. \A cutoff \in Times, B \in SUBSET Keys :
        Monotone!Recovered(cutoff, B) => Recovered(cutoff, B) /\ cutoff <= now
  BY Zenon DEF Monotone!Recovered, Recovered, Monotone!Batch, Batch, Monotone!ExpiredAt, ExpiredAt,
         Monotone!Cardinality, Cardinality
<1>8. \A t \in Times : Monotone!ClockStep(t) => ClockStep(t) /\ t > now
  BY Zenon DEF Monotone!ClockStep, ClockStep
<1>9. Monotone!Next => MonotoneNext
  BY <1>1, <1>2, <1>3, <1>4, <1>5, <1>6, <1>7, <1>8, Zenon
  DEF Monotone!Next, MonotoneNext, Next, Monotone!Times, Times
<1>10. ASSUME ~ClockMayStepBack, Next PROVE MonotoneNext
  <2>1. \A cutoff \in Times, B \in SUBSET Keys : Recovered(cutoff, B) => cutoff <= now
    BY <1>10, Zenon DEF Recovered
  <2>2. \A t \in Times : ClockStep(t) => t > now
    BY <1>10, Zenon DEF ClockStep
  <2> QED BY <1>10, <2>1, <2>2, Zenon DEF Next, MonotoneNext
<1> QED BY <1>9, <1>10

\* As long as the clock does not step back, a live grant stays its row's: the
\* row cannot be leased to another worker, recovered or ended by another.
LEMMA HolderStep == ASSUME TypeOK, HolderInv, [MonotoneNext]_vars PROVE HolderInv'
<1> SUFFICES ASSUME TypeOK, HolderInv, [MonotoneNext]_vars, NEW j \in Keys, NEW v \in Workers,
                    held'[v][j].expires > now'
             PROVE /\ op'[j].state = "leased" /\ op'[j].owner = v
                   /\ op'[j].attempt = held'[v][j].lease
                   /\ op'[j].expires = held'[v][j].expires
  BY DEF LeaseInv, HolderInv
<1> DEFINE Goal == /\ op'[j].state = "leased" /\ op'[j].owner = v
                   /\ op'[j].attempt = held'[v][j].lease
                   /\ op'[j].expires = held'[v][j].expires
<1>0. /\ op[j] \in Rows /\ held[v][j] \in Grants
      /\ now \in Nat /\ held[v][j].expires \in Nat /\ op[j].expires \in Nat
  BY LeaseConstants DEF TypeOK, Rows, Grants, Times
<1>n. held[v][j].expires > now =>
        /\ op[j].state = "leased" /\ op[j].owner = v
        /\ op[j].attempt = held[v][j].lease
        /\ op[j].expires = held[v][j].expires
  BY DEF HolderInv
<1>1. ASSUME NEW w \in Workers, NEW k \in Keys, NEW q \in Requests, NEW ttl \in Ttls,
             Acquired(w, k, q, ttl)
      PROVE Goal
  <2>1. CASE j # k
    BY <1>1, <1>n, <2>1 DEF Acquired, TypeOK
  <2>2. CASE j = k /\ v = w
    BY <1>1, <2>2 DEF Acquired, TypeOK
  <2>3. CASE j = k /\ v # w
    <3>1. held'[v][j] = held[v][j] /\ now' = now
      BY <1>1, <2>3 DEF Acquired, TypeOK
    <3>2. op[j].state = "leased" /\ op[j].expires > now
      BY <3>1, <1>n
    <3> QED BY <1>1, <2>3, <3>2 DEF Acquired, Leasable, LeaseIsLive
  <2> QED BY <2>1, <2>2, <2>3
<1>2. ASSUME NEW w \in Workers, NEW k \in Keys, NEW ttl \in Ttls, Renewed(w, k, ttl)
      PROVE Goal
  <2>1. op' = [op EXCEPT ![k].expires = now + ttl] /\ now' = now
        /\ held' = [held EXCEPT ![w][k] = [held[w][k] EXCEPT !.expires = now + ttl]]
        /\ OwnsLiveLease(w, k)
    BY <1>2 DEF Renewed, RenewMatches
  <2>2. CASE j # k
    BY <2>1, <1>n, <2>2 DEF TypeOK
  <2>3. CASE j = k /\ v = w
    <3>1. /\ held'[v][j] = [held[w][k] EXCEPT !.expires = now + ttl]
          /\ op'[j] = [op[k] EXCEPT !.expires = now + ttl]
      BY <2>1, <2>3 DEF TypeOK
    <3> QED BY <3>1, <2>1, <2>3, <1>0 DEF OwnsLiveLease, Rows, Grants
  <2>4. CASE j = k /\ v # w
    <3>1. held'[v][j] = held[v][j]
      BY <2>1, <2>4 DEF TypeOK
    <3> QED BY <3>1, <2>1, <2>4, <1>n DEF OwnsLiveLease
  <2> QED BY <2>2, <2>3, <2>4
<1>3. ASSUME NEW w \in Workers, NEW k \in Keys,
             NEW end \in {"completed", "failed", "cancelled"}, NEW told \in BOOLEAN,
             Ended(w, k, end, told)
      PROVE Goal
  <2>1. OwnsLiveLease(w, k) /\ held' = [held EXCEPT ![w][k] = NoGrant] /\ now' = now
    BY <1>3 DEF Ended
  <2>2. CASE j # k
    BY <1>3, <1>n, <2>2 DEF Ended, TypeOK
  <2>3. CASE j = k /\ v = w
    BY <2>1, <2>3, <1>0 DEF TypeOK, NoGrant
  <2>4. CASE j = k /\ v # w
    BY <2>1, <2>4, <1>n DEF TypeOK, OwnsLiveLease
  <2> QED BY <2>2, <2>3, <2>4
<1>4. ASSUME NEW cutoff \in Times, NEW B \in SUBSET Keys, Recovered(cutoff, B), cutoff <= now
      PROVE Goal
  <2>1. cutoff <= now /\ cutoff \in Nat /\ held' = held /\ now' = now
    <3>1. cutoff <= now /\ held' = held /\ now' = now
      BY <1>4, Zenon DEF Recovered
    <3> QED BY <3>1, LeaseConstants DEF Times
  <2>2. j \notin B
    <3>1. B \subseteq {k \in Keys : op[k].state = "leased" /\ op[k].expires <= cutoff}
      BY <1>4 DEF Recovered, Batch, ExpiredAt
    <3>2. op[j].expires > now
      BY <2>1, <1>n
    <3> QED BY <3>1, <3>2, <2>1, <1>0
  <2> QED BY <1>4, <1>n, <2>1, <2>2 DEF Recovered
<1>5. ASSUME NEW w \in Workers, (\E k \in Keys : Refused(w, k)) \/ Crash(w)
      PROVE Goal
  <2>1. op' = op /\ now' = now /\ (held'[v][j] = held[v][j] \/ held'[v][j] = NoGrant)
    <3>1. ASSUME NEW k \in Keys, Refused(w, k)
          PROVE op' = op /\ now' = now /\ (held'[v][j] = held[v][j] \/ held'[v][j] = NoGrant)
      BY <3>1 DEF Refused, TypeOK
    <3>2. ASSUME Crash(w)
          PROVE op' = op /\ now' = now /\ (held'[v][j] = held[v][j] \/ held'[v][j] = NoGrant)
      BY <3>2 DEF Crash, TypeOK
    <3> QED BY <1>5, <3>1, <3>2
  <2> QED BY <2>1, <1>0, <1>n DEF NoGrant
<1>6. ASSUME NEW t \in Times, ClockStep(t), t > now
      PROVE Goal
  <2>1. op' = op /\ held' = held /\ now' = t /\ t > now /\ t \in Nat
    BY <1>6, LeaseConstants DEF ClockStep, Times
  <2> QED BY <2>1, <1>0, <1>n
<1>7. ASSUME UNCHANGED <<op, held, now>>
      PROVE Goal
  BY <1>7, <1>n
<1> QED BY <1>1, <1>2, <1>3, <1>4, <1>5, <1>6, <1>7
  DEF MonotoneNext, vars, Replayed

\* No two workers hold live grants of one key when the grants are their rows'.
LEMMA HoldersAreExclusive == ASSUME TypeOK, HolderInv PROVE LeaseExclusive
<1> SUFFICES ASSUME NEW k \in Keys, NEW v \in Workers, NEW w \in Workers,
                    v # w, held[v][k].expires > now
             PROVE held[w][k].expires <= now
  BY DEF LeaseExclusive
<1>1. now \in Nat /\ held[w][k].expires \in Nat
  BY LeaseConstants DEF TypeOK, Grants, Times
<1> QED BY <1>1 DEF HolderInv

\* With a clock that does not step back, at most one worker believes that it
\* holds an unexpired lease on a key.
THEOREM Exclusive == ASSUME ~ClockMayStepBack PROVE Spec => []LeaseExclusive
<1>1. Init => HolderInv
  BY DEF Init, HolderInv, NoGrant, Times
<1>2. LeaseInv /\ HolderInv /\ [Next]_vars => HolderInv'
  BY HolderStep, MonotoneSteps, Zenon DEF LeaseInv
<1>3. LeaseInv /\ HolderInv => LeaseExclusive
  BY HoldersAreExclusive DEF LeaseInv
<1> QED BY <1>1, <1>2, <1>3, Inductive, PTL DEF Spec

\* The same of the run's two instances: the one whose clock only advances keeps
\* live leases exclusive.
THEOREM MonotoneExclusive == MCSpec => []MonotoneLeasesAreExclusive
<1> DEFINE Inv == LeaseInv /\ (instance = "monotone" => HolderInv)
<1>1. MCInit => Inv
  <2>1. Init => LeaseInv /\ HolderInv
    BY LeaseStart DEF Init, HolderInv, NoGrant, Times
  <2> QED BY <2>1 DEF MCInit
<1>2. Inv /\ [MCNext]_<<instance, vars>> => Inv'
  <2> SUFFICES ASSUME Inv, [MCNext]_<<instance, vars>> PROVE Inv'
    OBVIOUS
  <2>1. [Next]_vars /\ instance' = instance /\ (instance = "monotone" => [MonotoneNext]_vars)
    BY MonotoneSteps, Zenon DEF MCNext, MonotoneNext
  <2>2. LeaseInv'
    BY <2>1, TypeStep, RowStep DEF LeaseInv
  <2>3. instance = "monotone" => HolderInv'
    BY <2>1, HolderStep DEF LeaseInv
  <2> QED BY <2>1, <2>2, <2>3
<1>3. Inv => MonotoneLeasesAreExclusive
  BY HoldersAreExclusive DEF LeaseInv, MonotoneLeasesAreExclusive
<1> QED BY <1>1, <1>2, <1>3, PTL DEF MCSpec

\* The leases implement OperationOutcome, whatever the clock does: a key is
\* decided at most once and callers are told only what was decided.
THEOREM Refinement == Spec => ImplementsOutcome
<1> DEFINE decided == [k \in Keys |-> op[k].result]
<1>1. Init => Outcome!AInit
  BY DEF Init, Outcome!AInit, AbsentRow
<1>2. LeaseInv /\ [Next]_vars => [Outcome!ANext]_(Outcome!avars)
  <2> SUFFICES ASSUME TypeOK, RowInv, [Next]_vars
               PROVE Outcome!ANext \/ (decided' = decided /\ learned' = learned)
    BY DEF LeaseInv, Outcome!avars
  <2>0. \A k \in Keys : op[k] \in Rows
    BY DEF TypeOK
  <2>1. ASSUME NEW w \in Workers, NEW k \in Keys, NEW q \in Requests, NEW ttl \in Ttls,
               Acquired(w, k, q, ttl)
        PROVE decided' = decided /\ learned' = learned
    <3>1. op[k].result = NoResult
      BY <2>1 DEF Acquired, Leasable, RowInv
    <3>2. \A j \in Keys : op'[j].result = op[j].result
      BY <2>1, <3>1 DEF Acquired, TypeOK
    <3> QED BY <2>1, <3>2 DEF Acquired
  <2>2. ASSUME NEW w \in Workers, NEW k \in Keys, NEW q \in Requests, Replayed(w, k, q)
        PROVE Outcome!Learn(w, k)
    <3>1. decided[k] # NoResult /\ decided[k] = op[k].result
      BY <2>2 DEF Replayed, RowInv
    <3>2. learned' = [learned EXCEPT ![w][k] = @ \cup {decided[k]}] /\ decided' = decided
      BY <2>2, <3>1 DEF Replayed
    <3> QED BY <3>1, <3>2 DEF Outcome!Learn
  <2>3. ASSUME NEW w \in Workers, NEW k \in Keys, NEW ttl \in Ttls, Renewed(w, k, ttl)
        PROVE decided' = decided /\ learned' = learned
    <3>1. \A j \in Keys : op'[j].result = op[j].result
      BY <2>0, <2>3 DEF Renewed, TypeOK, Rows
    <3> QED BY <2>3, <3>1 DEF Renewed
  <2>4. ASSUME NEW w \in Workers, NEW k \in Keys,
               NEW end \in {"failed", "cancelled"}, NEW told \in BOOLEAN,
               Ended(w, k, end, told)
        PROVE decided' = decided /\ learned' = learned
    <3>1. op[k].result = NoResult
      BY <2>4 DEF Ended, OwnsLiveLease, RowInv
    <3>2. \A j \in Keys : op'[j].result = op[j].result
      BY <2>0, <2>4, <3>1 DEF Ended, TypeOK, Rows
    <3> QED BY <2>4, <3>2 DEF Ended
  <2>5. ASSUME NEW w \in Workers, NEW k \in Keys, NEW told \in BOOLEAN,
               Ended(w, k, "completed", told)
        PROVE \E r \in Results : Outcome!Decide(k, r)
    <3> DEFINE r == [request |-> held[w][k].request, lease |-> held[w][k].lease]
    <3>1. r \in Results
      <4>1. held[w][k] \in Grants /\ op[k] \in Rows
        BY DEF TypeOK
      <4>2. held[w][k].lease # 0 /\ held[w][k].request = op[k].request
            /\ op[k].request # NoRequest
        BY <2>5 DEF Ended, RowInv
      <4> QED BY <4>1, <4>2, LeaseConstants DEF Grants, Results, Rows
    <3>2. decided[k] = NoResult
      BY <2>5 DEF Ended, OwnsLiveLease, RowInv
    <3>3. \A j \in Keys : op'[j].result = IF j = k THEN r ELSE op[j].result
      BY <2>0, <2>5 DEF Ended, TypeOK, Rows
    <3>4. decided' = [decided EXCEPT ![k] = r]
      BY <3>3
    <3>5. \/ UNCHANGED learned
          \/ learned' = [learned EXCEPT ![w][k] = @ \cup {r}]
      BY <2>5 DEF Ended
    <3> QED BY <3>1, <3>2, <3>4, <3>5 DEF Outcome!Decide
  <2>6. ASSUME NEW cutoff \in Times, NEW B \in SUBSET Keys, Recovered(cutoff, B)
        PROVE decided' = decided /\ learned' = learned
    <3>1. \A j \in Keys : op'[j].result = op[j].result
      BY <2>0, <2>6 DEF Recovered, Rows
    <3> QED BY <2>6, <3>1 DEF Recovered
  <2>7. CASE UNCHANGED <<op, learned>>
    BY <2>7
  <2> QED
    BY <2>1, <2>2, <2>3, <2>4, <2>5, <2>6, <2>7
    DEF Next, vars, Refused, Crash, ClockStep, Outcome!ANext
<1> QED BY <1>1, <1>2, Inductive, PTL DEF Spec, ImplementsOutcome, Outcome!ASpec
=============================================================================
