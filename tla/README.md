# Soleaux: a TLA+ verification project

TLA+ models of Soleaux, the TLC runs that check them on small instances, and
TLAPS proofs of what matters most, for every instance.
`PROJECT.json` is the index: components, runs, mutants, the map from definitions
to source lines, findings, hazards and theorems.

The repository holds two programs: the Python implementation (`src/soleaux`, an
MCP server that indexes repositories, answers questions about them and previews
and applies edits) and the native daemon (`native/daemon`, Rust). Paths below are
relative to these two directories; it is clear from the suffix which is meant.

## 1. The system

### The Python implementation

```
   MCP clients                                    other MCP servers
      |  stdio / HTTP                                   ^
   server.py, surface.py                          gateway.py, mcp_health.py
      |
   analysis/service.py     cursors, context packets, limits, previews
      |          |                  |                     |
   analysis/   catalog/          lsp/resolvers.py      editor/preview.py
   frame.py    indexer.py           |                  editor/apply.py
      |          |               lsp/sessions.py          |
      |       catalog/store.py   lsp/broker.py         the user's files
      |       (SQLite, one file     |
      |        per fingerprint)  language server process
   structural/{snapshot,supervisor,worker,engines}.py, typescript and
   postgresql/node_runtime.py: capture, child processes, answers on pipes
```

Everything but the child processes runs on one asyncio event loop. The rule
that shapes the models: **what lies between two awaits is one step; every await
is a point where any other task may run, time out, be cancelled, or find the
files changed.**

| Component | State | Operations | What makes it correct | Hard behaviour |
|---|---|---|---|---|
| Catalog generations (`analysis/frame.py`, `catalog/generation.py`, `catalog/store.py`) | hot and active generation, extracted facts for each file, projection in SQLite | capture, build, update, structural pass, TypeScript analysis, publish, restart | a generation has the facts of one state of the tree; it settles on the current one | edits during a pass, late TypeScript answers, failed and truncated passes, restart |
| Catalog indexer (`catalog/indexer.py`) | publications, profile, reconcile loop, waiters | start, refresh, promote, wait, close | a promotion publishes everywhere or nowhere; waiters return | failure in the middle, cancellation, close |
| Disk generations (`catalog/store.py`) | database and lease files, flocks | open, bind, publish, load, collect, close | nobody collects what somebody uses | names against inodes, crashes between unlinks |
| Reads and search (`catalog/store.py`, `search.py`, `analysis/hydration.py`) | none | rank, relate, bound, hydrate | what is cut is marked; a hit leads back to its fact | limits in the middle of a layer, names that contain separators |
| Editor (`editor/`) | previews, journal of one apply, the files | preview, apply, roll back | all files or none, other programs' bytes survive, one outcome | writes between check and rename, failing renames, eviction and restart |
| Language server broker, documents, sessions (`lsp/`) | process, pending slots, tombstones, open documents, diagnostics, records for each key | start, request, time out, sync, push, retire, restart | slots and processes are owned, answers are of the text asked about, calls end | late answers, two configurations retiring each other, eviction, a full pipe, cancellation during a start or a shutdown |
| Structural worker, engines, Node.js runtimes | child, lock, pipe, caches | spawn, prove, ask, recycle, close | a process has an owner, an answer its request | cancellation at any await, a second one during a termination, stray frames, an error for a ping |
| Capture (`structural/snapshot.py`) | read set under construction | stat, read, verify | one consistent cut, or flagged | writes while reading |
| Service (`analysis/service.py`, `task_registry.py`) | cursor table, shared tasks | page, shrink, cover, share, cancel | pages tile one publication; limits are reported | publications between pages, equal tokens, last waiter |
| Semantic answers (`lsp/resolvers.py`), governance, relations, projects, Next.js routes | none | pure functions of captured facts | agree with a definition that has no loop | ambiguity, truncation, order |
| Provisioning (`provisioning/`) | user files, backups, manifest | adopt, attach, policy, revert | revert restores what the user had | a command cut off between two files |
| Gateway and health (`gateway.py`, `mcp_health.py`) | clients, children, probe records | call, probe, reap, close | children are ended; health tells outage from regression | cancelled probes, missing secrets |
| Log redaction (`postgresql/runtime.py`) | files | redact | no secret is kept | a secret across two chunks |

### The native daemon

```
 CLI, adapters, editors                    MCP clients
        |  Unix socket, one task per            |  stdio / HTTP
        |  connection (ipc/src/unix.rs)         |
   ipc/src/{registry,admission,session,    mcp/src/{lib,gateway,editor,
            memory,service,server}.rs           materializer,provisioning}.rs
        |  reads: own connection                |
        |  writes: command -> reply             |  storage/src/lib.rs
   state/src/store.rs  ----- one writer thread  |  (index, reservations,
        |                    per database       |   previews, event chain)
   state/src/database.rs (SQLite, one IMMEDIATE transaction per command)
```

The rule that shapes the native models: **a write is one command, run alone by the
writer thread in one transaction; a handler that reads first and then sends a
command is at least two steps**, and the handlers of all other connections may
run between them. Reads use their own connection and see committed state only.

| Component | State | Operations | What makes it correct | Hard behaviour |
|---|---|---|---|---|
| Operation leases (`state/src/database.rs:2018-2357`) | `operation_leases` rows: state, request hash, owner, lease id, attempt, expiration, result | acquire, renew, complete, fail, cancel, recover expired | one result for each key, told to everybody; only the current lease ends an operation; one live lease | lease expiry against a late worker, worker restart under the same owner id, wall clock set back, recovery with the caller's clock |
| Workspace and client registry (`ipc/src/registry.rs`, `database.rs:1029-1414`) | rows of three kinds: workspace, client registration, binding | register, heartbeat, bind, unbind, disconnect, forget | live bindings belong to live parents and expire with them; write access is justified when it is written; no lost registration | read, decide, write across an unlock; receipts that expire in between; rows purged and created again under the same native id |
| Admission and compatibility (`ipc/src/admission.rs`, `compatibility.rs`) | receipts (signed, outside the store), the capability matrix of the build | issue and verify a receipt, evaluate a client | a receipt elevates one client and workspace until it expires | receipt verified before, used after; a daemon restart with another version |
| Retention and purge (`database.rs:1608-2005`) | policies, tombstones, `purged_at` | put policy, apply retention, purge tombstones | batches respect the limit, take children before parents, finish | batches smaller than a cascade, foreign keys, callers' clocks |
| Sessions, turns, messages (`ipc/src/session.rs`) | entity rows; session state, parent and root; turn ordinals | create, fork, archive, resume, append turn, append message | dense ordinals, an acknowledged turn is the caller's, lineage ends at its root | ordinals read and then claimed; equal concurrent payloads; tombstoned keys; archive between check and write |
| Canonical entity store (`database.rs:262-1028`) | `canonical_entities`, links, cursors, artifacts | put, native upsert, link, cursor | idempotency keys, revisions, parents | replays of lost replies |
| Memory claims (`ipc/src/memory.rs`) | claims and evidence | propose, validate, correct, supersede, tombstone, import | a claim is superseded by one live claim; tombstoned claims are not served | several puts for one request |
| Audit, backup, restore, repair (`database.rs:2368-2900`) | hash chain, database files | append, verify, backup, restore | the chain verifies; a crash leaves a usable database | two renames of restore |
| IPC server (`ipc/src/unix.rs`, `server.rs`, `client.rs`) | listener, connection tasks, shutdown flag, pid file | accept, serve, shut down | shutdown ends; one daemon for each endpoint | shutdown with idle connections |
| Vault, key ring, policy (`vault/src`) | key ring file, sealed records | seal, open, rotate, decide | every record stays readable after a rotation | crash in a rotation |
| Storage (`storage/src/lib.rs`) | reservations, previews, events | reserve, finish, replay | one run for each operation key | reservation without expiry |
| Editor (`mcp/src/editor.rs`) | previews, backups, files | preview, apply, roll back | all files or none; stale previews refused | crash between file replacements |
| Materializer, provisioning (`mcp/src`) | generated files and their manifests | plan, apply, roll back | as the editor | as the editor |
| MCP server and gateway (`mcp/src`) | request dispatch | calls | responses fit their schema | none of its own |
| Intelligence (`intelligence/src`) | index, LSP sessions | index, query, analyse | mostly pure analysis | LSP process life cycle |
| Adapters (`adapters`) | event cursors | read events | each event is applied once | lost and repeated events |
| CLI, telemetry, structural search worker | | | | see section 8 |

The hazards these behaviours amount to are listed in `PROJECT.json`, each at the
line where it bites, with the properties that would catch it.

## 2. Modules

| Module | Models | Run |
|---|---|---|
| `OperationOutcome` | abstract: what an idempotent operation promises its callers | `lease` |
| `OperationLease`, `OperationLeaseProofs` | operation leases, workers, recovery, clock; implements `OperationOutcome` | `lease` |
| `RetentionRule` | abstract: the outcome of one retention batch as a relation | `registry`, `platform` |
| `RetentionBatch` | the loop of `apply_retention` against that relation | `platform` |
| `WorkspaceRegistry`, `WorkspaceRegistryProofs` | registry, bindings, receipts, retention, purge | `registry` |
| `SessionHistory`, `SessionHistoryProofs` | sessions, forks, turns, messages over the entity store | `session` |
| `CatalogGenerations`, `CatalogGenerationsProofs` | one workspace's generations, their enrichment and projection | `catalog` |
| `CatalogIndexer`, `CatalogIndexerProofs` | reconcile loop, promotion, waiters, close | `indexer` |
| `LspBroker`, `LspSessions`, `EditorApply`, `EditingProofs` | one language server process; the sessions of a workspace; previews and their application | `editing` |
| `LspDocuments`, `TaskShare`, `Snapshotter` | open documents and diagnostics; shared tasks; capture | `platform` |
| `StructuralWorker`, `EngineClient`, `NodeRuntime`, `McpGateway` | child processes, their pipes, backends and probes | `platform` |
| `CursorPaging`, `Provisioning`, `DiskGenerations` | cursors; commands and revert; catalog files of two processes | `platform` |
| `PlatformProofs` | theorems about shared tasks, disk generations, captures, provisioning and the retention loop | `platform` |
| `ExchangeProofs` | theorems about the child processes and their pipes, cursors and open documents | `platform` |
| `CatalogReads`, `SearchHydration` | chunks, derived facts, publication plans, bounded reads; keys, excerpts, ranking | `algorithms` |
| `TextEdits` | positions and edits | `algorithms` |
| `StructuralSearch`, `SemanticResolver`, `ServiceResponses` | jobs, rules and scans, path patterns as automata; semantic requests and provider choice; shrinking, coverage, ownership of responses | `algorithms` |
| `Governance`, `RelationGraph` | policies, bindings, owners; table plans, module resolution, impact, cycles | `algorithms` |
| `ProjectFacts`, `NextRoutes` | manifests, TypeScript requests and merges; Next.js projects and routes | `algorithms` |
| `LogRedaction` | redaction in chunks | `algorithms` |
| `MC...` | instances for TLC; `MCEditing`, `MCPlatform` and `MCAlgorithms` instantiate several modules | |

`MCEditing` and `MCPlatform` hold machines that share no state. `Init` picks one
and only that one moves, so that the state space is their sum and not their
product; each property speaks of the machines it names. `MCAlgorithms` picks one
input of one algorithm, and its invariants compare the result with a reference.

### CatalogGenerations

`files` is the working tree, `cap` the captured bundle, `job` and `tsJob` what a
pass and an analysis have read before their awaits. `CatalogBundle` validates the hot generation against a capture and
rebuilds or updates it; `Extract`, `ExtractFails` and `CommitPass` are the
structural pass, which runs under the catalog lock over the files `Needed` asks
for, at most `MaxPerPass` at a time; `FinishTypeScript` ends an analysis that ran
outside the lock and commits to the generation it began with. `Published` writes
the projection, incrementally when the stored rows are of a known generation.
`Restart` loses everything but SQLite. The facts of a file are its digest: a fact
that belongs to another state of the tree shows as another digest. Lock files,
build output and minified scripts (`Excluded`), contents of more than 4 MiB
(`Large`) and empty SQL files (`Empty`) get no chunks; `WellCut` says which files
have which chunks.

### CatalogIndexer

The loop wakes, takes the lock, bundles, builds and publishes, each its own
action since each awaits; a promotion retains what is published, prepares and
publishes workspace by workspace and puts everything back when one fails. The
allowed workspaces are the numbers 1 to `Count`, in their order. The frame builder
is reduced to what the indexer sees of it.

### EditorApply, LspBroker, LspSessions

The content of a file is the sequence of edits made to it, so that equal bytes of
different origin can be told apart. `BeginApply`, `Check`, `Rename`, `Verify`,
`Restore`, `RestoreRename`, `RestoreVerify` and `Finish` are steps of one apply;
another program writes or moves directories in between. With `Racy = FALSE` it does
not act between a check and the rename that the check guards: the file system has no
compare-and-rename, and the code claims none. It does act between a rename and the
check of what was renamed. Then the outcome is a conflict although the edit is still
in that file, under the other program's write (`Buried`); `OnlyBuried` says that this
is the only file and the only way. Previews are numbered as they are issued, so that the oldest, which
is evicted first, is the one with the smallest number. The broker's caller, reader and time out are separate actions, and
the wire may deliver an answer after its time out. A write is an action of its own
that waits, without a limit, while the pipe is `full`: the request is written before
its time out starts, and the cancellation that follows a time out is a write too. A
caller may be cancelled while it writes or waits (`GivenUp`). Notifications have no
slot and are left out.

In `LspSessions` a call
captures, retires the sessions of other configurations, starts or joins its own,
asks, and checks the generation of its answer; `Retry` prepares again after a
generation error and retires again. A call, or the restart tool, may be cancelled
while it shuts a process down or starts one (`CutOff`, `AdminCutOff`, `StartFails`): the record
is gone or not yet made, and the process goes on, in `left`. A server may stop
reading (`stalled`), which blocks who writes to it, with the session lock held.

### Processes and pipes

`StructuralWorker`, `EngineClient`, `NodeRuntime` and `McpGateway` keep the set of
living children apart from what the code knows of them; a cancellation may come
at each await. In `StructuralWorker` a second cancellation during a termination
takes the escalation to SIGKILL away, and the process goes on in `stray`; a ping that
is answered with the right id and an error, or with too large a frame, leaves the
worker in place (`PongError`, `TooLarge`), and it is given jobs. A pipe is a sequence of frames. In `EngineClient` and `NodeRuntime`
the child may answer late, twice or unasked. What differs between the two Node.js
runtimes, and between a gateway under calls and one under rounds of probes, is
chosen by `Init` and kept in a variable (`runtime`, `setup`), so that one
instance of the module covers both.

### LspDocuments

`docs` is the broker's table, the least recently used document first; its bytes are
a set of numbered bytes, so that the budget is a cardinality. `binding` and `kept`
are the bindings and states of the diagnostics store, `recorded` and `opened` the
generations and documents of the session's record, `pushed` what the server has
sent and the reader has not seen, `waiter` one call of `wait`. A preparation (`prep`)
is several steps under the session lock: `PrepareBegins` binds the new generation,
`PrepareChanges` tells the server about one changed document after the other,
`PrepareOpens` opens or updates the requested one, `PrepareEnds` records the
generation; it may fail or be cancelled at each await (`PrepareFails`). A diagnostic
request (`pull`) is `PullAsks`, then `PullFull` or `PullUnchanged`, which check the
recorded generation and stamp the answer with the generation that is bound. A push
names the version of the document when the server sent it, and may arrive after an
edit or an eviction. `apart` marks diagnostics that were stamped while what was bound,
what was recorded and what the server had been told were not the same; the property
about contents makes that exception (section 6).

### CursorPaging, Provisioning, DiskGenerations

A cursor token is what the code derives it from; the publication it belongs to is
kept in a bounded table that expires. The page of an ownership answer is found by
`Round`, one turn of the binary search, iterated by the function `Rounds`. A provisioning job writes its files in the
order of its plan and may end at any step; a batch of backups is a function from
files to contents, and `original` remembers what the user had. In `DiskGenerations` a name and the inode behind it are different
things, as for `flock`.

### The pure algorithms

Each module has the code's operators, in the code's order of steps, and at its
end the properties, which are written without that order: a relation closed under
edges instead of a traversal, a simultaneous substitution instead of a loop from
the back, an existential over matchings instead of two automata, "the requests
the whole workspace would give" instead of a capture by path. Texts, names and
rows are small sets; conversions (UTF-8, UTF-16, keys joined by colons, patterns)
are modelled by what they do to lengths, parts and order.

### OperationLease

`op[k]` is the row of key `k`; `held[w][k]` the lease that worker `w` believes it
has; `learned[w][k]` the results `w` was told; `trail[k]` the audit events of
`k`; `now` the clock. A lease id is minted exactly where `attempt` is
incremented, so a lease is named by its attempt. Calls that are refused and
change nothing (a collision, a lease in flight) are stutters and not written
down; `Refused` is the failed renewal or ending, after which the worker gives
up. `Ended(.., told = FALSE)` is a committed ending whose reply was lost.
`Crash(w)` forgets the worker's leases: it comes back under the same owner id.
`ClockMayStepBack` chooses between a monotone clock and `SystemTime` that may be
set back; then recovery's cutoff, which is the caller's reading, may also be
ahead of the writer's clock.

### RetentionRule, RetentionBatch

`apply_retention` collects candidates, sorts them by id and walks them; a
workspace or client takes its bindings with it, as far as the limit allows.
In `RetentionBatch` every turn of that loop is a step (`RetainNext`), over every
order of ids (`id` ranks them), every set of rows that are due and every choice of
candidates among them. `RetentionRule` states
the result without a loop: which sets of workspaces, clients and bindings can be
tombstoned by a batch. `LoopMeetsRule` and `BatchesAdvance` connect the two
(`RetentionMeetsRule`), and the registry model uses only the rule.

### WorkspaceRegistry

Three tables keyed by native identity, the receipts that verify, one request per
connection, the version of the running daemon, the clock, and a history variable
`declared` (the version of each client's last registration). `heartbeat` and
`bind` are two to four actions: `HeartbeatRead` then `HeartbeatWrite`; `BindRead`,
`BindRevalidate`, `BindVerify`, `BindWrite`. Each client write refreshes the
client's bindings in the same action, as `refresh_client_bindings_tx` does in the
same transaction. `id` tells a revived row from one created after a purge. `Restart`
is a restart of the daemon, possibly as another version: requests in flight are gone.
`QueueLag` is how far a clock that a caller read may lag behind the writer's
when the command runs. `orphans` are binding rows whose workspace has been purged
before them: the foreign key of a binding is its client.

### SessionHistory

`turns[s][o]` and `messages[s][o]` are the rows of session `s`; a turn's
idempotency key is made of `s` and `o`, so that a taken key is a row, live or
tombstoned. `append_turn` is `BeginAppend` (the check that the session is
active), `ReadOrdinal` (a read), and one of the four outcomes of `put_entity`:
replayed, collided (which retries up to `MaxAttempts`), inserted, or refused
because the session is gone. `fork_session` and the archive and resume
transitions read in one action and write in another. Retention tombstones one
row at a time, the least recently updated turn first; it is the batch with limit
1, and larger batches are sequences of it. `IsNextOrdinal(s, n)` is a predicate
and not a maximum, which keeps the module free of recursion and `CHOOSE`.

Abstractions: a turn's `content` is its payload without the ordinal; a message
has a native id of its turn's; workspaces are registered; validation of text and
JSON sizes is left out, since a request that fails it changes nothing.

## 3. Runs

| Run | Instance | Shows |
|---|---|---|
| `lease` | 1 key, 2 workers, 2 requests, ttl 1 and 2, 3 attempts; a clock that may be set back and a monotone one | fencing, audit trail, refinement of `OperationOutcome`; exclusive leases under the monotone clock |
| `registry` | 1 client, 1 workspace; a CLI client with 1 connection, 2 ids for each native id and a `QueueLag` of 1; an external tool with 2 versions, a receipt and restarts; a CLI client with 2 connections and 2 ids | bindings belong to and follow their rows, no lost registration, a purge is blocked and a binding outlives its workspace only through a retention that waited in the queue |
| `session` | 2 connections, 2 contents, 2 attempts; 2 sessions with forks and archives, or 1 with retention and 3 ordinals | dense ordinals, acknowledged turns are the caller's, insertion at the end |
| `catalog` | a manifest, a code file that gets no chunks, an SQL file, 3 digests of which one is of a large content and one of the empty, 1 edit, 1 restart, 1 failure, passes of 1 file | no mixed generation or projection; the catalog settles |
| `indexer` | 2 workspaces, 1 waiter, both start profiles, 1 edit, 2 failures, 1 promotion | atomic publication; waiters return; reconciliation settles |
| `editing` | 2 callers with 2 requests, 1 tombstone; 2 tasks, 2 keys, 1 edit, 2 faults; 2 previews of 2 files, 1 outside act, 1 restart | slots owned, sessions are of their processes, outcomes exact, outside writes survive, calls end unless a server stops reading, applies end |
| `platform` | eleven machines; bounds in the .cfg and beside the `INSTANCE`s of `MCPlatform` | owned processes, own answers by workers that answered a ping, honest health, coherent documents, shared tasks, consistent captures, pages of one publication, revert, exclusive locks, retention |
| `algorithms` | every input of the sets in `MCAlgorithms`, about 390000 | the algorithms meet their references |
| `cycles`, `provisioning_revert`, `cursor_shared`, `session_free` | the machine or algorithm concerned | findings, section 6 |

**Why the bounds are enough.** Leases: two workers are what fencing, takeover and
restart need; the third attempt lets a lease be lost, taken over and looked at
again by its first holder; times up to 3 hold before, at and after an expiration.
Registry: two ids for a native id give one purge and rebirth; a lag of 1 is enough
for a retention to run behind a later write and to tombstone as if before it; three
revisions (with receipts) let a registration pass a request in flight twice; one receipt can be of this daemon
or of the last one, in date or expired, for the client's version or for another.
Sessions: two connections with two
attempts make one request lose both; ordinals 0 to 2 hold a tombstoned, a live
and a new turn. Catalog: one edit against every point of a build, a pass, an
analysis and a restart is the race in question, and a pass of one file leaves
another file to a second pass; the three digests are one of every class that the
chunker tells apart. Indexer: a promotion over two workspaces fails at
the second after publishing the first, the smallest case of a rollback; a second
failure hits the rollback's neighbourhood. Editing: two files are one replaced
and one failing; two keys and two tasks are what retiring each other needs; one
tombstone puts the table at its limit; of two faults the second can be a stall or a
cancellation after a first one. Platform: each machine has two (shared
tasks: three) actors, a table, budget or retention at its limit, and one fault
more than is needed to reach the recovery path; with three preparations a document is
opened, changed while a request for it is out, and prepared again or evicted.
Algorithms: sequences up to
length 3 to 6 over alphabets that hold one member of every class the code tells
apart, with limits below the largest input.

The named bounds (`Max...`) only cut behaviours off: at a bound the action that
would exceed it is disabled. This leaves states without a step in every run, and
so all say `CHECK_DEADLOCK FALSE`; that nothing waits for ever is what
`WaitersReturn`, `CallsEnd`, `ApplyEnds` and the two settling properties are for.

**Symmetry** is used in `registry` (connections), `session` (connections,
contents, sessions) and `platform` (fingerprints), where no liveness is checked.

**Queue lag.** `apply_retention` takes a clock that its caller read before the
command queued for the writer (`state/src/store.rs:633`). With a lag of 1, a retention
that waited behind an unbind gives a client an earlier tombstone time than its
binding has. A purge with a cutoff between the two then fails on the foreign key,
until a later purge; and one that waited behind an unbind can leave the binding row
behind its purged workspace. The properties say exactly this: a purge is refused, or
a binding outlives its workspace, only if a binding's tombstone is later than the
cutoff or than the workspace's, by no more than the lag (`PurgeBlockedOnlyByLag`,
`OrphansOnlyByLag`); for a lag of 0 they say that
neither happens. No document excludes it, so it is a hazard and not a finding.

**Mutants.** Every property of a passing run has a mutant: a definition, kept
beside the original and marked `Mutant`, that changes it as a plausible bug would
(a dropped check, an off-by-one, a rollback of the last item only, a wrong
order). With the mutant in place the run reports that property violated.

## 4. Fairness

- `CatalogGenerations`: strong fairness of `CatalogBundle` on the current files
  (the reconcile loop validates the catalog every two seconds, so it comes again
  each time the lock is free), weak fairness of the passes and of the end of a
  TypeScript analysis (each is awaited with a deadline and ends with an answer or
  a failure). Edits, failures and restarts are not fair and bounded.
- `CatalogIndexer`: strong fairness of taking the lock (an asyncio lock is first
  in, first out), weak fairness of every step after it and of waiters.
- `LspBroker`: weak fairness of time outs, of the resumption of a caller whose
  slot is filled or whose write has room, and of shutdown.
- `LspSessions`: strong fairness of each task's steps (first in, first out again),
  for a task that waits for an answer only while its server reads, and weak fairness
  of the closing of a session by the restart tool.
- Nothing is asked of the servers: they may answer or not, and may stop reading for
  good. Since no write has a time limit, `CallsEnd` has the opposite as its premise
  (`<>[]~full`, `<>[](stalled = {})`), and says nothing of calls to a server that
  stops.
- `EditorApply`: weak fairness of the steps of an apply that runs.
- The native models have none: nothing in the daemon schedules recovery,
  retention or purge, and no progress is claimed for it.

In `MCEditing` the fairness of a machine asks nothing of its initial state, so
that it does not constrain the behaviours in which another machine runs.

## 5. Proofs

All proofs are checked by tlapm with Z3, Zenon and LS4. They hold for all values
of the constants that satisfy the named assumptions; TLC evaluates each of these in
the run whose module declares it. The assumptions say that bounds are naturals, that
the model values for NULL are not ordinary values, and four things the code fixes:
the manifest is not a catalog language and PostgreSQL files are no other language's
(`CatalogAssumption`), there is a workspace and a fingerprint is retained
(`IndexerAssumption`), there is a language server configuration and files have
contents (`EditingAssumption`), and only HTTP backends are shared
(`GatewayAssumption`, `contracts/config.py:241`). `ProvisioningAssumption` says that a
plan lists host files and that absence is no content, `PagingAssumption` and
`DocumentsAssumption` that page and table limits are positive, `RetentionAssumption`
that the database is finite. The bounds (`Max...`) are among
the constants, so a theorem holds however large they are.

Two modules fix something for the theorems too. `MCEditing` applies previews of
two files and keeps one preview (`MaxPreviews`), with `Racy = FALSE`; `MCPlatform`
gives the structural worker answers of sizes 1 and 2. All else (callers, keys, tasks,
sessions, previews, stores, backends, paths, sizes, limits, faults) is arbitrary.

### The native daemon

**OperationLeaseProofs.** The inductive invariant is `LeaseInv`: the types, and
`RowInv`, which ties rows to grants (a result exists exactly in completed rows,
under their last lease; a grant is for the row's request; what callers learned is
the row's result). `FencedResult` and `ResultAgreement` alone are not inductive:
an ending writes the request of the *grant*, so the proof needs that grants and
rows agree on it. From `LeaseInv`: `TypeCorrect`, `Fenced`, `Agreement`, `Final`
and `Refinement` (every step is a step of `OperationOutcome` or leaves its state
alone), whatever the clock does. `Audit` rests on `StepsAreAudited`: a transaction
that changes the state of a row appends that state's event, every other step leaves
both alone, and a completed row has no further step. `Exclusive` and
`MonotoneExclusive` also need a monotone clock and `HolderInv`: a grant that its
worker believes alive is the row's own. `Exclusive` has the clock as its hypothesis,
`MonotoneExclusive` is about the run's specification with its two instances.

**WorkspaceRegistryProofs.** `BindingsFit` proves three invariants at once as one
predicate on each binding (`Fits`): anchored to the ids of live parents, read-write
only on a trusted workspace, expiring with the client. They are not separable: the
refresh that keeps one of them relies on the others. `RegistrationKept` needs an
invariant on requests in flight: a request whose revision is still current has
read the version that was declared last. `WritesJustified` is an action property:
each write that leaves a binding read-write is justified by the state in which it
is made, not by what the handler read. `BindingsFollow` and `PurgeProceeds` hold for
every `QueueLag` (see section 3). Their invariant orders the tombstones (`Buried`): a
dead binding was tombstoned no later than a dead row it refers to, or by at most the
lag later, and so was an orphan (`OrphansBuried`); a purge whose cutoff takes the row
takes the binding first, unless the cutoff falls into the lag.

**SessionHistoryProofs.** `Dense` uses `DenseOrdinals` together with
`PutAfterTurn`: a request about to put a turn at `n > 0` read `n` when `n - 1` was
there, and turns do not go away. That covers the stale read: the ordinal may be
old when it is put, but it is never beyond the end. `AtEnd` follows from `Dense`:
a free ordinal below a live turn would be a gap. `Own` shows that the reply as a
replay is no lie to its caller. `Retries` holds without retention only
(`~Retention` is its hypothesis), with the invariant `StoppedByTurn`; with
retention the code retries at an ordinal that stays taken, see `session_free`.
`Lineage` needs `ForkInv`: a fork in flight carries the root of a session that
exists, which it goes on doing because roots never change.

### The Python implementation

**CatalogGenerationsProofs.** `NoMixedSources` and `ProjectionsAreOwn` come from one
invariant, `CatalogInv`: not only the hot generation but *everything that may become
it* mixes no sources (`Sound`): what a pass has read before its await, what a
TypeScript analysis began with, and every projection in SQLite, from which a
restart builds. What the builder has extracted is, while a pass runs, of the
pass's own generation; this is where the catalog lock is needed. The lemmas on
incremental updates say that replacing the chunks and facts of the changed files
in a sound generation gives the sound generation of the new snapshot.

**CatalogIndexerProofs.** `PromotionIsAtomic` speaks of the states between
promotions. In the middle of one the workspaces do differ, so the invariant
(`IndexerInv`) counts: the workspaces before `prom.i` are FULL, the others are as
they were retained, and what was retained has one profile. A rollback then puts
back exactly that, whichever step failed. The proof holds for any number of
workspaces; the run has two. A memory catalog needs `Mirrored` in addition: its
one database says what was published last.

**EditingProofs.** `SlotsHaveOwners`: a slot is open while its caller writes the
request or waits, and has the stream's error until that caller takes it away (`SlotInv`), and request ids
are not used twice. `SessionsAreProcesses` (`SessionInv`): a key's lock is held by
the task that starts, reconciles or shuts down its session; without a record and
without such a holder the key has no process but those that cancellations left, which
is why a start makes the only other one; and those are of epochs that are over.
`OutcomesAreExact` (`ApplyInv`): while an apply runs, its edit is in the files
up to `job.i` and in no other, the journal names the files that have it, and a
rollback shortens both together unless another program has changed the file; then
the outcome is a conflict, and the edit is in at most that one file, buried under the
other program's write. `OutsideWritesAreKept` is an action property: the check
before each rename compares the bytes, so a rename replaces what `ApplyInv` says is
there.

**PlatformProofs.** `TasksSurvive` (`ShareInv`): the counter of a shared task is the
number of its waiters, any finite number of them, and who cancels the task is the
last of them. `LocksExclude` (`LockInv`): the lease file's *inode* is what is
locked; a store that opens or has opened a generation holds the inode its path had
when it opened it. `CapturesAreCuts` (`CaptureInv`): signatures and contents that a
verification finds unchanged were on disk together at the verification, for any
tree and any number of writes.

`UserFilesAreRestored` (`RevertInv`): at every moment a file of the user can be
brought back, since the *oldest* copy of it in the manifest is the original, or there
is none and the disk still has it (`UserFilesKept`); a command writes over a user's
file only after the file was copied (`CopiedFirst`), which is where the three
commands differ; and what a revert has yet to write ends, for each file, with the
original (`RestoresOriginal`), because it walks the batches from the newest back.
`OneCommand` is for the claim about a single command. Host files, their contents,
the plans and the numbers of commands and failures are arbitrary.

`BatchesMeetRule` (`BatchInv`): what the loop has emitted was live, is a candidate or
a binding of one, and is within the limit; a parent it emitted took its bindings
along; and a candidate it has passed is emitted unless the limit is reached. The
theorem then needs that a set of rows is as large as its workspaces, clients and
bindings together, which the rule counts (`RowsAreCounted`).

**ExchangeProofs.** The machines that own child processes, one invariant each
(`ChildInv` puts them together), for `ChildrenHaveOwners`, `AnswersBelong` and
`HealthIsTold`. `WorkerInv`: exactly the holder of the lock is between admission
and release, the worker's process is nobody's victim, and a process that is neither
the worker nor a victim is not alive; `close` gets the lock only when every job
has let go. A process whose termination was cut off is neither (`StrayInv`): it was
started, and is not the worker again. `AnswersBelong` says of the
worker that a job goes to a process that answered its ping, with a pong or an error.
`AskInv`: what a caller has been given is the answer to the id it asked
with, since the read loop drops every other frame. `NodeInv`: at most one
child lives, and a frame that answers an id was written for it. `GatewayInv`: a
child belongs to the probe that connects, to the reaping of one, to a cached
client of a connection that has not closed, or to the call of an open one; and
`HealthIsHonest` is inductive once probes are known to be of configured backends.

`WalksReadOnePublication` (`PagingInv`): the cursor of an open walk continues after
its last page, and an entry of the table for that cursor names the publication of
the walk's first page (`OpenWalks`); so a walk continues in its own publication or
ends with the drift error. Its hypothesis is `QueriesDiffer`, no two clients ask the
same: without it the theorem is false, which is the finding of `cursor_shared`. That
a page found by the binary search makes progress is proved by the least-number
principle: a first round after which `best` is outside of its interval cannot exist.

`DiagnosticsFitDocuments` (`DocumentsInv`): while a document has not been evicted,
what is kept, pushed, pulled or waited for with a version is of the content of the
generation it is stamped with, unless it was stamped `apart` (`KeptTells`,
`PushedTells`, `PullTells`, `WaiterTells`); what is kept is of what is bound
(`KeptIsBound`). The budget holds because an eviction removes the least number of
documents that is enough, and the empty table always fits what is opened. Like the
property, the theorem is about diagnostics that name a version and were not stamped
apart, of a document that was not evicted (its versions start over, see section 6).

### What is proved and what is only checked

| Property of a run | Theorem |
|---|---|
| `FencedResult`, `ImplementsOutcome`, `TrailFaithful`, `MonotoneLeasesAreExclusive` | `Fenced`, `Refinement`, `Audit`, `MonotoneExclusive` |
| `LiveBindingAnchored`, `NoLostRegistration`, `BindingsFollowTheirRows`, `PurgeBlockedOnlyByLag` | `BindingsFit`, `RegistrationKept`, `BindingsFollow`, `PurgeProceeds` |
| `DenseOrdinals`, `AppendsAtEnd`, `AckedTurnIsOwn` | `Dense`, `AtEnd`, `Own` |
| `FactsMatchSnapshot`, `ProjectionMatchesFingerprint` | `NoMixedSources`, `ProjectionsAreOwn` |
| `PublicationIsAtomic` | `PromotionIsAtomic` |
| `SlotsAreOwned`, `SessionIsTheProcess`, `OutcomeIsExact`, `OutsideWritesSurvive` | `SlotsHaveOwners`, `SessionsAreProcesses`, `OutcomesAreExact`, `OutsideWritesAreKept` |
| `SharedWorkSurvives`, `LocksAreExclusive`, `CapturesAreConsistent` | `TasksSurvive`, `LocksExclude`, `CapturesAreCuts` |
| `RevertRestoresUserFiles`, `RetentionMeetsRule` | `UserFilesAreRestored`, `BatchesMeetRule` |
| `PagesTileOnePublication`, `DocumentsAreCoherent` | `WalksReadOnePublication` (queries differ), `DiagnosticsFitDocuments` |
| `ProcessesAreOwned`, `AnswersAreOwn`, `HealthIsHonest` | `ChildrenHaveOwners`, `AnswersBelong`, `HealthIsTold` |

`TypeCorrect`, `Agreement`, `Final`, `Exclusive`, `WritesJustified`,
`Retries` and `Lineage` stand on their proofs alone.

Only model-checked:

- Liveness (`CatalogSettles`, `WaitersReturn`, `ReconciliationSettles`, `CallsEnd`,
  `ApplyEnds`) is out of the prover's reach.
- The properties of `MCAlgorithms`: the algorithms are folds and `RECURSIVE`
  operators over texts, rows and graphs; a module with such an operator cannot be
  used from a module with a theorem, and what a fold computes for every input needs
  an induction over data that the provers cannot instantiate. The induction over
  numbers that `WalksReadOnePublication` and `DiagnosticsFitDocuments` need is not of
  that kind: a non-empty set of naturals has a least member, and both are written so
  that this suffices.

## 6. Findings

Four runs state what a comment, a message or a docstring of the repository says
and end with a counterexample.

- `session_free` (`session.rs`): "this loop re-reads the next free ordinal". When
  the last turns of a session are tombstoned, the next ordinal is one of theirs and
  its key is taken: all attempts of every append collide until a purge.
- `cycles` (`relations/materializer.py:215`): "strongly connected components". A
  node is marked when it is pushed, not when it is entered; an acyclic triangle is
  reported as a cycle. That every real cycle is found holds (`RelationsAreExact`).
- `provisioning_revert` (`provisioning/backup.py:620`): "a path created by an early
  apply and backed up by a later one must end absent". A later command writes the
  manifest without the creations of the earlier one.
- `cursor_shared` (`analysis/service.py:678`): a continuation after a publication is
  refused, but for two clients that ask the same, who share a token.

Seen while modelling, without a run of their own:

- `session.rs`: two concurrent appends with equal payload are answered as one turn;
  an archive between check and put does not stop a turn; a repeated native create
  has a new id and is refused. `SessionHistory` states the three
  (`AppendsAreDistinct`, `ArchivedRejectsTurns`, `NativeCreateIsIdempotent`).
- When a receipt expires nothing runs: the stored access mode of a binding stays
  read-write until the client's row is written again.
  `ClientBindingAdmission::admits_write_at` is what a reader must ask.
- `catalog/store.py:456`: the lease file is unlinked with its database; a process
  that has the old inode open holds a lock that protects nothing.
- `analysis/frame.py:1762`: a late TypeScript analysis commits its older generation
  over a newer one; the next validation replaces it (`CatalogSettles`).
- `lsp/sessions.py:474`: an answer is accepted when a restart has removed the
  record it would be compared with. `lsp/broker.py:565`: versions of a document
  start again at 1 after its eviction.
- `structural/path_patterns.py:227`: a pattern that is only `**` matches nothing.
  `structural/workspace_rules.py`: rule directories above the limit are dropped
  silently; `SearchIsFaithful` is about files and findings.
- `lsp/broker.py:764`, `structural/supervisor.py:407`: writes to a pipe have no time
  limit. A child that stops reading blocks its caller for good, in a session with the
  lock held, and everyone who waits for it.
- `lsp/sessions.py:513`, `lsp/broker.py:878`: a call that is cancelled in a shutdown
  has taken the record away and does not kill the process (the broker catches
  `Exception`, which a cancellation is not); the next call starts another. A start
  cancelled after its spawn leaves one too. `LspSessions` keeps them in `left`.
- `structural/supervisor.py:512`: a termination is shielded from the first
  cancellation only; a second leaves a worker that ignores SIGTERM.
  `supervisor.py:434`: an error for the ping is not caught where the worker is started
  (382), and the worker that gave it serves the next job (338).
- `editor/apply.py:566`: a write between a rename and its check is a conflict, and the
  edit stays in that file under it: the journal has not the file yet (189, 263).
- `lsp/sessions.py:294`: a generation is bound before the awaits of its preparation and
  recorded after them (339). A diagnostic answer that comes in between passes the
  check of the old generation and is stamped with the new. `lsp/sessions.py:367`: a
  preparation updates other documents without binding them; one that fails after that
  leaves them ahead of their binding, and a later preparation with the recorded
  generation sends no change. Opening a document that the broker has keeps the old
  text. `LspDocuments` marks what is stamped then (`apart`).
- `typescript/node_runtime.py:289`: after a stray frame all later requests fail
  until the child is replaced.
- `catalog/search.py:204`, `analysis/hydration.py:199`: a dependency in two scopes
  gives two documents with one key; task ids with a colon are not found again.
- `relations/materializer.py:377`: `materialize` drops the truncation mark of an
  impact that `impact` itself reports.
- `catalog/typescript.py:80`: a request is cut at its budget without a mark.
  `catalog/projects.py:745` says the TypeScript worker replaces the configuration
  closure; the merge keeps the manifest's (`catalog/typescript.py:336`).
  `catalog/projects.py:688`: in a turbo command tasks after a flag are not seen.
- `frameworks/nextjs.py:967`: `pages/api/index` is no route handler and is dropped as
  the reserved name `/api`.

## 7. Plan

Done: leases with abstraction and refinement, registry with admission, retention
rule and loop, sessions; the Python implementation: catalog, indexer, editing,
processes, service, algorithms; theorems for every safety property
of the runs but those of the algorithms.

Next:

1. An abstract atomic replacement of several files, refined by `EditorApply`; an
   abstract catalog (one tree, one generation) refined by `CatalogGenerations`.
2. `PurgeOrder`: purge of kinds that are not the registry's (`database.rs:1963`); a
   session tombstoned before its turns is deleted first, which the key refuses.
3. `MemoryLifecycle` (`memory.rs:434`: several puts for one `supersede_claim`),
   `BackupRestore` (`database.rs:2557`: two renames), `OperationReservation`
   (`storage/src/lib.rs:952`: no expiry), `IpcServer` (`unix.rs:57`: shutdown with
   idle connections), the native editor (`editor.rs:267`: a crash between files).

## 8. Not modelled

- Cryptography and key stores: a receipt or a cursor of the model is one whose MAC
  verifies.
- Text: JSON shapes, validation of sizes and characters, messages. A request that
  fails validation changes nothing.
- SQLite: a transaction is atomic and commits survive a crash.
- Syntax: what a parser finds in a file is an input (`structural/projections.py`,
  `structural/python.py`, `catalog/postgresql.py`, `postgresql/analyzer.py`, the
  analysis of `next.config`, Markdown and TOML of governance records). These are
  functions of source text, out of TLC's reach; what is done with their rows is
  modelled. Of Next.js also versions and metadata files are left out.
- The dispatch of tools (`server.py`, `surface.py`, the remaining tools of
  `analysis/service.py`), the command line, contracts, telemetry, skills: declarations
  and I/O without state of the system.
- The starting and stopping of a PostgreSQL server (`postgresql/runtime.py`), which
  is process I/O around the redaction that is modelled.
- `close_document` of the broker, which nothing calls; the end of the session manager
  with the server; notifications to language servers, but for what a full pipe does.
- Native: retention of notifications; memory claims, audit chain, backup and restore, IPC server, vault, storage,
  editor, MCP server, materializer, intelligence, adapters, CLI, telemetry daemon;
  the plan names the parts that have behaviour worth a model.
