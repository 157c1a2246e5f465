----------------------------- MODULE MCPlatform -----------------------------
(***************************************************************************)
(* The machines whose properties are all about safety, one after another:  *)
(* Init picks one of them, and the fourteen variables are its state (those *)
(* it does not need stay None).  The constants of the machines there are   *)
(* theorems about (PlatformProofs, ExchangeProofs) have their values in    *)
(* the .cfg, the bounds of the others are given where a machine is         *)
(* instantiated.                                                           *)
(***************************************************************************)
EXTENDS Naturals, Sequences, FiniteSets, TLC

CONSTANTS
    Machines,    \* the machines that are checked
    None,
    a1, a2, a3, f1, f2, g1, g2, unbound,
    Uris, Contents, MaxDocuments, MaxOpenBytes, MaxVersion, MaxPushes, MaxPrepared, \* of LspDocuments
    Waiters, MaxWork,                                                \* of TaskShare
    Paths, Sizes, Binary, MaxFiles, MaxBytes, MaxFileBytes, MaxWrites, \* of Snapshotter
    Stores, Fingerprints, RetainedGenerations, MaxDiskSize, AutoStores, \* of DiskGenerations
    Callers, MaxId, MaxSpawns,                                       \* of the child processes
    MaxJobs, CacheEntries, CacheBytes, MaxAsked,                     \* of StructuralWorker
    Runtimes, MaxFaults,                                             \* of NodeRuntime
    Backends, Config, Setups, Fronts, Rejections, MaxInspected, MaxChanges, \* of McpGateway
    Hosts, Initially, Plan, Route, MaxApplies, MaxAborts,            \* of Provisioning
    Pagers, Query, Tool, Required, Limit, Totals, RowBytes,          \* of CursorPaging
    TargetBytes, MaxPageBytes, TtlTicks, MaxStates, MaxRevision, MaxClock, MaxEpoch, MaxStarts,
    Clients, Workspaces, BatchLimit                                  \* of RetentionBatch

ASSUME PlatformAssumption ==
    /\ IsFiniteSet(Waiters) /\ MaxWork \in Nat
    /\ IsFiniteSet(Paths) /\ Paths \subseteq Nat
    /\ Sizes \subseteq Nat \ {0} /\ MaxFiles \in Nat /\ MaxBytes \in Nat /\ MaxFileBytes \in Nat
    /\ None \notin Nat
    /\ Callers \cap {"none", "close"} = {} /\ MaxJobs \in Nat \ {0}

FingerprintSymmetry == Permutations({g1, g2})

VARIABLES machine, v1, v2, v3, v4, v5, v6, v7, v8, v9, v10, v11, v12, v13, v14

vars == <<machine, v1, v2, v3, v4, v5, v6, v7, v8, v9, v10, v11, v12, v13, v14>>

----------------------------------------------------------------------------
(* Language server documents, shared tasks, captures.                      *)

Documents == INSTANCE LspDocuments WITH
    MaxBytes <- MaxOpenBytes,
    docs <- v1, binding <- v2, kept <- v3, pushed <- v4, waiter <- v5, closed <- v6,
    recorded <- v7, opened <- v8, prep <- v9, pull <- v10, prepared <- v11

\* At least one document is allowed (contracts/budget.py).
ASSUME DocumentsAssumption ==
    /\ \A u \in Uris : Contents[u] \subseteq Nat
    /\ MaxDocuments \in Nat \ {0} /\ MaxOpenBytes \in Nat
    /\ None \notin Documents!Generations /\ None \notin Documents!States /\ None \notin Documents!Waits
    /\ None \notin Documents!Bindings /\ None \notin Documents!Preparations
    /\ None \notin Documents!Pulls

OneAndTwo == (f1 :> {1, 2}) @@ (f2 :> {1})

Tasks == INSTANCE TaskShare WITH
    entry <- v1, work <- v2, waiter <- v3, swept <- v4

Captures == INSTANCE Snapshotter WITH
    tree <- v1, writes <- v2, cap <- v3, settled <- v4

----------------------------------------------------------------------------
(* Child processes: the structural worker, the engine, Node.js analysers   *)
(* and the backends of the MCP gateway.                                    *)

Worker == INSTANCE StructuralWorker WITH
    Clients <- Callers, Contents <- {1, 2},
    worker <- v1, living <- v2, spawned <- v3, holder <- v4, job <- v5,
    cache <- v6, closing <- v7, asked <- v8, stray <- v9

Engine == INSTANCE EngineClient WITH
    Askers <- Callers,
    process <- v1, lastId <- v2, inbox <- v3, outbox <- v4, owner <- v5, ask <- v6

Node == INSTANCE NodeRuntime WITH
    prefix <- v1, closed <- v2, lock <- v3, child <- v4, live <- v5, pipe <- v6, asked <- v7,
    nextId <- v8, request <- v9, got <- v10, spawns <- v11, faults <- v12, runtime <- v13

Gateway == INSTANCE McpGateway WITH
    secret <- v1, tracker <- v2, probe <- v3, reaping <- v4, everOk <- v5, snapshot <- v6,
    procs <- v7, front <- v8, cache <- v9, shared <- v10, call <- v11, calls <- v12,
    changes <- v13, setup <- v14

\* contracts/config.py: only HTTP backends are shared.
ASSUME GatewayAssumption ==
    /\ None \notin Gateway!Processes
    /\ \A b \in Backends : Config[b].lifecycle = "shared" => ~Config[b].stdio

\* The backends of the .cfg: calls of two clients; and rounds of probes.
Backend(stdio, lifecycle, auth, secrets) ==
    [stdio |-> stdio, lifecycle |-> lifecycle, auth |-> auth, secrets |-> secrets]
BackendConfig ==
    [pipe |-> Backend(TRUE, "session", "none", FALSE),
     once |-> Backend(TRUE, "on_demand", "none", FALSE),
     web |-> Backend(FALSE, "shared", "oauth", TRUE),
     head |-> Backend(FALSE, "on_demand", "none", TRUE)]
CallsAndProbes ==
    {[enabled |-> {"pipe", "once", "web"}, fronts |-> {a1, a2}, calls |-> 4, rounds |-> 0],
     [enabled |-> {"pipe", "web", "head"}, fronts |-> {}, calls |-> 0, rounds |-> 2]}

----------------------------------------------------------------------------
(* Cursors, provisioning, disk generations, retention.                     *)

Paging == INSTANCE CursorPaging WITH
    published <- v1, cursors <- v2, clock <- v3, epoch <- v4, pager <- v5, starts <- v6

ASSUME PagingAssumption ==
    /\ Totals \subseteq Nat /\ Limit \in Nat \ {0} /\ TtlTicks \in Nat
    /\ MaxStates \in Nat \ {0} /\ MaxRevision \in Nat

\* Two clients that ask something else, by other operations; and two with the
\* same search.
OwnQueries == (a1 :> "q1") @@ (a2 :> "q2")
OwnTools == (a1 :> "ownership") @@ (a2 :> "search")
SharedQuery == (a1 :> "q1") @@ (a2 :> "q1")
SharedTool == (a1 :> "search") @@ (a2 :> "search")
FourRows == <<1, 3, 1, 1>>

User == [valid |-> TRUE, user |-> TRUE, entry |-> "none", policy |-> FALSE, block |-> "none"]
UserFiles ==
    [codex |-> {None, User, [User EXCEPT !.entry = "other"], [User EXCEPT !.valid = FALSE]},
     guide |-> {None, User, [User EXCEPT !.block = "unpaired"]},
     claude |-> {None, User}, toml |-> {None, User}]
CommandPlan ==
    [adopt |-> <<"codex", "guide">>, attach |-> <<"codex", "toml">>, policy |-> <<"codex", "claude">>]
FileRoute ==
    [codex |-> <<"missing", "file">>, guide |-> <<"file">>, claude |-> <<"file">>, toml |-> <<"file">>]

Provision == INSTANCE Provisioning WITH
    disk <- v1, original <- v2, manifest <- v3, job <- v4, applies <- v5, aborts <- v6, reverted <- v7

ASSUME ProvisioningAssumption ==
    /\ None \notin Provision!Content /\ None \notin Provision!ApplyJobs /\ None \notin Provision!RevertJobs
    /\ \A h \in Hosts : Initially[h] \subseteq Provision!Content \cup {None}
    /\ Plan \in [Provision!Commands -> Seq(Hosts)]

\* Two bounds: files that are removed and created again; processes that crash.
Disk == INSTANCE DiskGenerations WITH
    Bounds <- {[crashes |-> 0, made |-> 2], [crashes |-> 1, made |-> 1]}, Unbound <- unbound,
    db <- v1, lease <- v2, made <- v3, store <- v4, pc <- v5, gc <- v6, crashes <- v7, bounds <- v8

Retention == INSTANCE RetentionBatch WITH
    Limit <- BatchLimit,
    live <- v1, due <- v2, id <- v3, batch <- v4

\* The database is finite.
ASSUME RetentionAssumption == IsFiniteSet(Retention!Entities) /\ BatchLimit \in Nat

----------------------------------------------------------------------------
\* The variables a machine with n of them leaves alone.
Unused(n) ==
    /\ n < 5 => v5 = None
    /\ n < 6 => v6 = None
    /\ n < 7 => v7 = None
    /\ n < 8 => v8 = None
    /\ n < 9 => v9 = None
    /\ n < 10 => v10 = None
    /\ n < 11 => v11 = None
    /\ n < 13 => v12 = None /\ v13 = None
    /\ n < 14 => v14 = None

Init ==
    /\ machine \in Machines
    /\ CASE machine = "documents" -> Documents!Init /\ Unused(11)
         [] machine = "tasks" -> Tasks!Init /\ Unused(4)
         [] machine = "captures" -> Captures!Init /\ Unused(4)
         [] machine = "worker" -> Worker!Init /\ Unused(9)
         [] machine = "engine" -> Engine!Init /\ Unused(6)
         [] machine = "node" -> Node!Init /\ Unused(13)
         [] machine = "gateway" -> Gateway!Init
         [] machine = "paging" -> Paging!Init /\ Unused(6)
         [] machine = "provisioning" -> Provision!Init /\ Unused(7)
         [] machine = "disk" -> Disk!Init /\ Unused(8)
         [] machine = "retention" -> Retention!Init /\ Unused(4)

Keeps5 == UNCHANGED <<v5, v6, v7, v8, v9, v10, v11, v12, v13, v14>>
Keeps7 == UNCHANGED <<v7, v8, v9, v10, v11, v12, v13, v14>>
Keeps8 == UNCHANGED <<v8, v9, v10, v11, v12, v13, v14>>

Next ==
    /\ UNCHANGED machine
    /\ \/ machine = "documents" /\ Documents!Next /\ UNCHANGED <<v12, v13, v14>>
       \/ machine = "tasks" /\ Tasks!Next /\ Keeps5
       \/ machine = "captures" /\ Captures!Next /\ Keeps5
       \/ machine = "worker" /\ Worker!Next /\ UNCHANGED <<v10, v11, v12, v13, v14>>
       \/ machine = "engine" /\ Engine!Next /\ Keeps7
       \/ machine = "node" /\ Node!Next /\ UNCHANGED v14
       \/ machine = "gateway" /\ Gateway!Next
       \/ machine = "paging" /\ Paging!Next /\ Keeps7
       \/ machine = "provisioning" /\ Provision!Next /\ Keeps8
       \/ machine = "disk" /\ Disk!Next /\ UNCHANGED <<v9, v10, v11, v12, v13, v14>>
       \/ machine = "retention" /\ Retention!Next /\ Keeps5

Spec == Init /\ [][Next]_vars

----------------------------------------------------------------------------
\* Child processes (structural/supervisor.py, gateway.py,
\* mcp_health.py, postgresql and typescript/node_runtime.py): whatever
\* is cancelled, times out, fails or closes in between, every process that runs
\* has somebody who will end it, and none is left after close; but for a structural
\* worker whose termination was itself cut off by a second cancellation.
ProcessesAreOwned ==
    /\ machine = "worker" => Worker!ProcessesAreOwned
    /\ machine = "node" => Node!OneChild
    /\ machine = "gateway" => Gateway!ChildrenAreOwned

\* Pipes to a child (structural/engines.py, the Node.js runtimes, the
\* supervisor): a caller is given the answer to its own request, although a
\* cancelled request leaves its answer on the pipe and the child writes late,
\* twice or unasked; and a job is served by a process that has answered its ping.
AnswersAreOwn ==
    /\ machine = "engine" => Engine!AnswerIsMine
    /\ machine = "node" => Node!AnswersOwnRequest
    /\ machine = "worker" => Worker!ServedByAnsweringWorker

\* mcp_health.py: the health that is reported tells an outage from a
\* regression, after any order of successes, failures, refused
\* authentication and missing secrets.
HealthIsHonest == machine = "gateway" => Gateway!HealthIsHonest

\* lsp/broker.py and diagnostics.py: the open documents stay within the
\* budget, and diagnostics a waiter receives are of the content it asked
\* about, however preparations, pushes, pulls and waits interleave; but for documents
\* that were closed, and diagnostics stored while text, binding and record were apart.
DocumentsAreCoherent ==
    machine = "documents" => Documents!WithinBudget /\ Documents!DiagnosticsAreOfTheContent

\* analysis/task_registry.py: work that callers share is never taken from one that
\* still awaits it, and never runs on with nobody waiting for it or its end.
SharedWorkSurvives == machine = "tasks" => Tasks!SharedWorkSurvives /\ Tasks!NoOrphanWork

\* structural/snapshot.py: a capture that is not flagged as changed is one
\* consistent cut of the tree, and no capture exceeds its limits.
CapturesAreConsistent ==
    machine = "captures" => Captures!UnflaggedIsConsistent /\ Captures!WithinLimits

\* analysis/service.py: a client that follows its cursors reads the rows of
\* one publication, each once; a change in between ends the walk with an error.
PagesTileOnePublication == machine = "paging" => Paging!PagesTileOnePublication

\* provisioning/backup.py and adopt.py: after a revert every file the user had
\* is as the user left it, wherever the commands before it were cut off.
RevertRestoresUserFiles ==
    machine = "provisioning" => Provision!RevertRestoresUserFiles

\* catalog/store.py: a connected store holds the lease of its generation and
\* nobody collects a generation under the lease file somebody else holds.
LocksAreExclusive == machine = "disk" => Disk!LocksAreExclusive

\* The loop of apply_retention (native/daemon/state): whatever the order of the ids, it does
\* what RetentionRule says, and every batch advances.
RetentionMeetsRule == machine = "retention" => Retention!LoopMeetsRule /\ Retention!BatchesAdvance

----------------------------------------------------------------------------
\* provisioning/backup.py: "a path created by an early apply and backed up by
\* a later one must end absent, matching the pre-adoption state".
RevertRestoresEverything ==
    machine = "provisioning" => Provision!RevertRestoresEverything
=============================================================================
