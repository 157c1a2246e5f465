-------------------------- MODULE MCSessionHistory --------------------------
(***************************************************************************)
(* SessionHistory over two sessions, in two ways: Contention, where two    *)
(* connections create, fork, archive and append to both but nothing ages,  *)
(* and Aging(s), where one session grows longer and retention runs.        *)
(***************************************************************************)
EXTENDS SessionHistory, TLC

CONSTANTS s1, s2, n1, h1, h2, c1, c2

VARIABLE instance

MCOneSession == {s1}
MCSessions == {s1, s2}
MCNatives == {n1}
MCOneHandler == {h1}
MCHandlers == {h1, h2}
MCOneContent == {c1}
MCContents == {c1, c2}
MCSymmetry ==
    Permutations(MCHandlers) \cup Permutations(MCContents) \cup Permutations(MCSessions)

Contention == INSTANCE SessionHistory WITH Retention <- FALSE, MaxOrdinal <- 1, MaxRev <- 2
Aging(s) == INSTANCE SessionHistory WITH Sessions <- {s}, Natives <- {}

MCInit == Init /\ instance \in {"contention"} \cup Sessions

MCNext ==
    /\ UNCHANGED instance
    /\ \/ instance = "contention" /\ Contention!Next
       \/ \E s \in Sessions : instance = s /\ Aging(s)!Next

MCSpec == MCInit /\ [][MCNext]_<<instance, vars>>
=============================================================================
