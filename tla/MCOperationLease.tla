-------------------------- MODULE MCOperationLease --------------------------
(***************************************************************************)
(* OperationLease under the clock the cfg allows, which may be set back,   *)
(* and under one that only advances.                                       *)
(***************************************************************************)
EXTENDS OperationLease

CONSTANTS k1, w1, w2, q1, q2

VARIABLE instance

MCKeys == {k1}
MCWorkers == {w1, w2}
MCRequests == {q1, q2}

Monotone == INSTANCE OperationLease WITH ClockMayStepBack <- FALSE

MCInit == Init /\ instance \in {"skewed", "monotone"}

MCNext ==
    /\ UNCHANGED instance
    /\ \/ instance = "skewed" /\ Next
       \/ instance = "monotone" /\ Monotone!Next

MCSpec == MCInit /\ [][MCNext]_<<instance, vars>>

\* acquire_operation and its relatives: as long as the clock does not step
\* back, no two workers hold live leases of one key, through crashes,
\* renewals, expirations and recoveries.
MonotoneLeasesAreExclusive == instance = "monotone" => LeaseExclusive
=============================================================================
