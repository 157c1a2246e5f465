-------------------------- MODULE OperationOutcome --------------------------
(***************************************************************************)
(* What an idempotent operation promises its callers, whatever happens to  *)
(* leases, clocks and crashed workers: at most one result is ever decided  *)
(* for a key, and every caller that is told a result is told that one, and *)
(* only if the key was decided for the request the caller made.            *)
(***************************************************************************)
CONSTANTS Keys,      \* operation keys
          Workers,   \* callers of the state store
          Results,   \* the results an operation can end with
          NoResult   \* the key is not decided

VARIABLES decided,   \* [Keys -> Results \cup {NoResult}]
          learned    \* [Workers -> [Keys -> SUBSET Results]], what callers were told

avars == <<decided, learned>>

AInit ==
    /\ decided = [k \in Keys |-> NoResult]
    /\ learned = [w \in Workers |-> [k \in Keys |-> {}]]

\* The first completion decides the key; its caller may crash before it hears.
Decide(k, r) ==
    /\ decided[k] = NoResult
    /\ decided' = [decided EXCEPT ![k] = r]
    /\ \/ UNCHANGED learned
       \/ \E w \in Workers :
             learned' = [learned EXCEPT ![w][k] = @ \cup {r}]

\* Any caller may be told the decided result, as often as it asks.
Learn(w, k) ==
    /\ decided[k] # NoResult
    /\ learned' = [learned EXCEPT ![w][k] = @ \cup {decided[k]}]
    /\ UNCHANGED decided

ANext ==
    \/ \E k \in Keys, r \in Results : Decide(k, r)
    \/ \E w \in Workers, k \in Keys : Learn(w, k)

ASpec == AInit /\ [][ANext]_avars
=============================================================================
