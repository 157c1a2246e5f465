------------------------ MODULE MCWorkspaceRegistry ------------------------
(***************************************************************************)
(* Three instances of WorkspaceRegistry, over one client and one           *)
(* workspace.  The one the cfg describes has a CLI client, one connection  *)
(* and retention commands that wait in the writer's queue while the clock  *)
(* goes on; rows are purged and created again.  Receipts: an external tool *)
(* with versions and receipts, and daemon restarts.  Lifecycle: a CLI      *)
(* client whose rows are purged and created again while two connections    *)
(* serve requests.                                                         *)
(***************************************************************************)
EXTENDS WorkspaceRegistry, TLC

CONSTANTS c1, p1, h1, h2, v1, v2

VARIABLE instance

MCClients == {c1}
MCWorkspaces == {p1}
MCHandlers == {h1}
MCVersions == {v1}
MCHandlerSymmetry == Permutations({h1, h2})

Receipted == INSTANCE WorkspaceRegistry WITH
    CliClients <- {}, Versions <- {v1, v2}, Listed <- {v1}, Ttls <- {2}, QueueLag <- 0,
    MaxRev <- 3, MaxId <- 1, MaxReceipts <- 1

Lifecycle == INSTANCE WorkspaceRegistry WITH
    Handlers <- {h1, h2}, QueueLag <- 0

MCInit ==
    \/ instance = "queued" /\ Init
    \/ instance = "receipts" /\ Receipted!Init
    \/ instance = "lifecycle" /\ Lifecycle!Init

MCNext ==
    /\ UNCHANGED instance
    /\ \/ instance = "queued" /\ Next
       \/ instance = "receipts" /\ Receipted!Next
       \/ instance = "lifecycle" /\ Lifecycle!Next

MCSpec == MCInit /\ [][MCNext]_<<instance, vars>>
=============================================================================
