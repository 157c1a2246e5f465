--------------------------- MODULE OperationLease ---------------------------
(***************************************************************************)
(* Operation leases of the canonical state store                           *)
(* (native/daemon/state/src/database.rs).  Every operation of this module  *)
(* is one IMMEDIATE transaction run by the single writer thread, so it is  *)
(* one action.  What interleaves is the callers: a worker keeps the lease  *)
(* it was granted while time passes, other workers acquire, recovery runs, *)
(* and the worker itself may crash and come back under the same owner id.  *)
(*                                                                         *)
(* A lease id is a fresh Uuid at each of the two places that mint one, and *)
(* each of them also increments `attempt`, so a lease is named here by the *)
(* attempt that minted it.  A NULL expiration is 0.                        *)
(***************************************************************************)
EXTENDS Naturals, Sequences, FiniteSets

CONSTANTS Keys,              \* operation keys
          Workers,           \* callers; a worker's owner_id is its name
          Requests,          \* request hashes
          Ttls,              \* lease lifetimes a caller may ask for
          RecoverLimit,      \* batch limit of recover_expired_operations
          ClockMayStepBack,  \* TRUE: unix_ms() is a wall clock that may be set back
          MaxTime,           \* bound: clock values 0 .. MaxTime
          MaxAttempt,        \* bound: leases granted per key
          NoRequest, NoWorker, NoResult

ASSUME LeaseConstants ==
    /\ Ttls \subseteq (Nat \ {0})
    /\ RecoverLimit \in Nat
    /\ ClockMayStepBack \in BOOLEAN
    /\ MaxTime \in Nat /\ MaxAttempt \in Nat
    /\ NoRequest \notin Requests
    /\ NoWorker \notin Workers

VARIABLES op,       \* the operation_leases table, one row per key
          held,     \* held[w][k]: the lease worker w believes it holds
          learned,  \* learned[w][k]: the results w has been given for k
          trail,    \* trail[k]: audit events appended for k
          now       \* unix_ms()

vars == <<op, held, learned, trail, now>>

Times == 0 .. MaxTime
States == {"absent", "leased", "completed", "failed", "cancelled", "abandoned"}
Results == [request : Requests, lease : 1 .. MaxAttempt]

ASSUME NoResultAssumption == NoResult \notin Results

Rows == [state : States, request : Requests \cup {NoRequest},
         owner : Workers \cup {NoWorker}, attempt : 0 .. MaxAttempt, expires : Times,
         result : Results \cup {NoResult}]
Grants == [lease : 0 .. MaxAttempt, request : Requests \cup {NoRequest}, expires : Times]

AbsentRow == [state |-> "absent", request |-> NoRequest, owner |-> NoWorker,
              attempt |-> 0, expires |-> 0, result |-> NoResult]
NoGrant == [lease |-> 0, request |-> NoRequest, expires |-> 0]

Init ==
    /\ op = [k \in Keys |-> AbsentRow]
    /\ held = [w \in Workers |-> [k \in Keys |-> NoGrant]]
    /\ learned = [w \in Workers |-> [k \in Keys |-> {}]]
    /\ trail = [k \in Keys |-> <<>>]
    /\ now \in Times

-----------------------------------------------------------------------------
(* acquire_operation *)

\* The request hash of an existing row must be the caller's; otherwise the
\* call is an "operation key collision" and changes nothing.
SameRequest(k, q) == op[k].state # "absent" => op[k].request = q

\* Mutant: a lease is taken over one tick before it expires.
LeaseIsLiveEarly(k) == op[k].state = "leased" /\ op[k].expires > now + 1

LeaseIsLive(k) == op[k].state = "leased" /\ op[k].expires > now

\* Mutant: a completed operation is leased again.
LeasableAgain(k) == op[k].state # "leased" \/ ~LeaseIsLive(k)

\* A new row, or one whose lease has expired or which ended without a result,
\* is leased to the caller under a new lease id.
Leasable(k) ==
    \/ op[k].state \in {"absent", "abandoned", "failed", "cancelled"}
    \/ op[k].state = "leased" /\ ~LeaseIsLive(k)

Acquired(w, k, q, ttl) ==
    /\ SameRequest(k, q)
    /\ Leasable(k)
    /\ op[k].attempt < MaxAttempt
    /\ now + ttl <= MaxTime
    /\ op' = [op EXCEPT ![k] =
                [state |-> "leased", request |-> q, owner |-> w,
                 attempt |-> @.attempt + 1, expires |-> now + ttl,
                 result |-> NoResult]]
    /\ held' = [held EXCEPT ![w][k] =
                  [lease |-> op[k].attempt + 1, request |-> q, expires |-> now + ttl]]
    /\ trail' = [trail EXCEPT ![k] = Append(@, "leased")]
    /\ UNCHANGED <<learned, now>>

\* A completed operation is not run again: its stored result is replayed.
Replayed(w, k, q) ==
    /\ SameRequest(k, q)
    /\ op[k].state = "completed"
    /\ learned' = [learned EXCEPT ![w][k] = @ \cup {op[k].result}]
    /\ UNCHANGED <<op, held, trail, now>>

-----------------------------------------------------------------------------
(* renew_operation, complete / fail / cancel_operation *)

\* Mutant: any live lease will do.
OwnsSomeLiveLease(w, k) == op[k].state = "leased" /\ op[k].expires > now

\* The check every lease holder's write passes: the row is leased under the
\* caller's lease id and owner, and has not expired.
OwnsLiveLease(w, k) ==
    /\ op[k].state = "leased"
    /\ op[k].attempt = held[w][k].lease
    /\ op[k].owner = w
    /\ op[k].expires > now

\* The same condition as the WHERE clause of the renewal's UPDATE.
RenewMatches(w, k) == OwnsLiveLease(w, k)

Renewed(w, k, ttl) ==
    /\ held[w][k] # NoGrant
    /\ RenewMatches(w, k)
    /\ now + ttl <= MaxTime
    /\ op' = [op EXCEPT ![k].expires = now + ttl]
    /\ held' = [held EXCEPT ![w][k] = [@ EXCEPT !.expires = now + ttl]]
    /\ UNCHANGED <<learned, trail, now>>

\* The holder ends its lease.  Only a completion carries a result.  The
\* process may die after the commit and before the reply: told = FALSE.
Ended(w, k, end, told) ==
    /\ held[w][k] # NoGrant
    /\ OwnsLiveLease(w, k)
    /\ LET r == [request |-> held[w][k].request, lease |-> held[w][k].lease]
       IN /\ op' = [op EXCEPT ![k] =
                      [@ EXCEPT !.state = end, !.expires = 0,
                                !.result = IF end = "completed" THEN r ELSE NoResult]]
          /\ learned' = IF end = "completed" /\ told
                        THEN [learned EXCEPT ![w][k] = @ \cup {r}]
                        ELSE learned
    /\ held' = [held EXCEPT ![w][k] = NoGrant]
    /\ trail' = [trail EXCEPT ![k] = Append(@, end)]
    /\ UNCHANGED now

\* A renewal or an ending that fails the check is an error; the worker gives
\* its lease up and the row is as it was.
Refused(w, k) ==
    /\ held[w][k] # NoGrant
    /\ ~OwnsLiveLease(w, k)
    /\ held' = [held EXCEPT ![w][k] = NoGrant]
    /\ UNCHANGED <<op, learned, trail, now>>

-----------------------------------------------------------------------------
(* recover_expired_operations *)

ExpiredAt(cutoff) == {k \in Keys : op[k].state = "leased" /\ op[k].expires <= cutoff}

\* The keys one batch recovers: the first RecoverLimit expired ones by
\* expiration (the order of equal expirations is left open).
Batch(cutoff, B) ==
    /\ B \subseteq ExpiredAt(cutoff)
    /\ Cardinality(B) <= RecoverLimit
    /\ B # ExpiredAt(cutoff) => Cardinality(B) = RecoverLimit
    /\ \A k \in B : \A j \in ExpiredAt(cutoff) \ B : op[k].expires <= op[j].expires

\* Mutant: recovery leaves no audit event.
RecoveredSilently(cutoff, B) ==
    /\ ClockMayStepBack \/ cutoff <= now
    /\ B # {}
    /\ Batch(cutoff, B)
    /\ op' = [k \in Keys |->
                IF k \in B THEN [op[k] EXCEPT !.state = "abandoned", !.expires = 0]
                           ELSE op[k]]
    /\ UNCHANGED <<held, learned, trail, now>>

\* The caller passes the clock it read before it sent the command, which is
\* not later than the writer's clock unless the clock was set back between.
Recovered(cutoff, B) ==
    /\ ClockMayStepBack \/ cutoff <= now
    /\ B # {}
    /\ Batch(cutoff, B)
    /\ op' = [k \in Keys |->
                IF k \in B THEN [op[k] EXCEPT !.state = "abandoned", !.expires = 0]
                           ELSE op[k]]
    /\ trail' = [k \in Keys |->
                   IF k \in B THEN Append(trail[k], "abandoned") ELSE trail[k]]
    /\ UNCHANGED <<held, learned, now>>

-----------------------------------------------------------------------------
(* The environment *)

\* A worker process dies and forgets its leases; its owner id stays in the rows.
Crash(w) ==
    /\ \E k \in Keys : held[w][k] # NoGrant
    /\ held' = [held EXCEPT ![w] = [k \in Keys |-> NoGrant]]
    /\ UNCHANGED <<op, learned, trail, now>>

ClockStep(t) ==
    /\ t # now
    /\ ClockMayStepBack \/ t > now
    /\ now' = t
    /\ UNCHANGED <<op, held, learned, trail>>

Next ==
    \/ \E w \in Workers, k \in Keys, q \in Requests, ttl \in Ttls : Acquired(w, k, q, ttl)
    \/ \E w \in Workers, k \in Keys, q \in Requests : Replayed(w, k, q)
    \/ \E w \in Workers, k \in Keys, ttl \in Ttls : Renewed(w, k, ttl)
    \/ \E w \in Workers, k \in Keys, end \in {"completed", "failed", "cancelled"},
          told \in BOOLEAN : Ended(w, k, end, told)
    \/ \E w \in Workers, k \in Keys : Refused(w, k)
    \/ \E cutoff \in Times, B \in SUBSET Keys : Recovered(cutoff, B)
    \/ \E w \in Workers : Crash(w)
    \/ \E t \in Times : ClockStep(t)

Spec == Init /\ [][Next]_vars

-----------------------------------------------------------------------------
(* Properties *)

\* Rows, grants and trails have their shape.
TypeOK ==
    /\ op \in [Keys -> Rows]
    /\ held \in [Workers -> [Keys -> Grants]]
    /\ learned \in [Workers -> [Keys -> SUBSET Results]]
    /\ trail \in [Keys -> Seq(States)]
    /\ now \in Times

\* Two workers never both believe they hold an unexpired lease on one key: an
\* unexpired lease is InFlight for everybody else, and recovery abandons only
\* leases that have expired.  It needs a clock that does not step back.
LeaseExclusive ==
    \A k \in Keys : \A v, w \in Workers :
        (v # w /\ held[v][k].expires > now) => held[w][k].expires <= now

\* A result is recorded only under the lease that is current when it is
\* recorded: a worker whose lease was taken over cannot end the operation,
\* even when the clock steps back and its lease looks alive again.
FencedResult ==
    \A k \in Keys : op[k].state = "completed" =>
        op[k].result = [request |-> op[k].request, lease |-> op[k].attempt]

\* All callers that are given a result for a key are given the same one, and
\* it is the result of the request the key was reserved for.
ResultAgreement ==
    \A k \in Keys : \A w \in Workers : \A r \in learned[w][k] :
        /\ op[k].state = "completed"
        /\ op[k].result = r
        /\ r.request = op[k].request

\* The audit trail of a key ends with the event of its current state, and a
\* completion is never followed by another event: acquire_operation and
\* transition_operation append their event in the transaction that they audit.
TrailFaithful ==
    \A k \in Keys :
        /\ trail[k] = <<>> <=> op[k].state = "absent"
        /\ trail[k] # <<>> => trail[k][Len(trail[k])] = op[k].state
        /\ \A i \in 1 .. Len(trail[k]) : trail[k][i] = "completed" => i = Len(trail[k])

\* Once an operation is completed, no call of any worker and no recovery
\* changes its row again, and once a key is reserved for a request it stays
\* reserved for that request.
RowsAreFinal ==
    [][\A k \in Keys :
          /\ op[k].state = "completed" => op'[k] = op[k]
          /\ op[k].state # "absent" => op'[k].request = op[k].request
          /\ op'[k].attempt >= op[k].attempt]_vars

-----------------------------------------------------------------------------
(* Inductive invariants of the proofs *)

\* Rows and grants fit together, whatever the clock does: a result exists
\* exactly in completed rows, under their last lease; a grant is for the row's
\* request and names one of the leases the row has issued.
RowInv ==
    \A k \in Keys :
        /\ op[k].state = "absent" <=> op[k].request = NoRequest
        /\ op[k].state = "completed" <=> op[k].result # NoResult
        /\ op[k].result # NoResult =>
              op[k].result = [request |-> op[k].request, lease |-> op[k].attempt]
        /\ \A w \in Workers :
              /\ held[w][k] # NoGrant =>
                    /\ op[k].state # "absent"
                    /\ held[w][k].request = op[k].request
                    /\ held[w][k].lease # 0
              /\ \A r \in learned[w][k] : op[k].result = r

LeaseInv == TypeOK /\ RowInv

\* With a monotone clock, a grant its worker believes alive is the row's.
HolderInv ==
    \A k \in Keys : \A w \in Workers : held[w][k].expires > now =>
        /\ op[k].state = "leased"
        /\ op[k].owner = w
        /\ op[k].attempt = held[w][k].lease
        /\ op[k].expires = held[w][k].expires

-----------------------------------------------------------------------------
\* The leases implement the promise to the callers (module OperationOutcome).
Outcome == INSTANCE OperationOutcome WITH
             decided <- [k \in Keys |-> op[k].result],
             learned <- learned
ImplementsOutcome == Outcome!ASpec
=============================================================================
