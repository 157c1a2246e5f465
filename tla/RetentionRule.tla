--------------------------- MODULE RetentionRule ---------------------------
(***************************************************************************)
(* What one batch of apply_retention (native/daemon/state/src/database.rs) *)
(* does to the registry, without the loop that does it.  Module            *)
(* RetentionBatch has the loop and checks it against this rule; module     *)
(* WorkspaceRegistry uses the rule.                                        *)
(***************************************************************************)
EXTENDS Naturals, FiniteSets

\* The batch tombstones the workspaces W, clients C and bindings P, given the
\* bindings that are live and the candidates CW, CC and CP.  A candidate
\* workspace or client is tombstoned with all its live bindings or, when that
\* exceeds the limit, only some of its bindings are.  Either the limit is
\* reached or every candidate is tombstoned.
RetentionOutcome(limit, live, CW, CC, CP, W, C, P) ==
    /\ W \subseteq CW /\ C \subseteq CC
    /\ P \subseteq {p \in live : p \in CP \/ p[1] \in CC \/ p[2] \in CW}
    /\ {p \in live : p[1] \in C \/ p[2] \in W} \subseteq P
    /\ LET size == Cardinality(W) + Cardinality(C) + Cardinality(P)
       IN /\ size <= limit
          /\ size = limit \/ (W = CW /\ C = CC /\ CP \subseteq P)
=============================================================================
