------------------------- MODULE CatalogGenerations -------------------------
(***************************************************************************)
(* One workspace's catalog: the generations the frame builder derives from *)
(* captured sources (analysis/frame.py, catalog/generation.py), their      *)
(* enrichment by the structural worker and the TypeScript runtime, and     *)
(* their projection in SQLite (catalog/store.py).                          *)
(*                                                                         *)
(* A snapshot is a function from paths to content digests, 0 for a file    *)
(* that is not there; it stands for its own source fingerprint.  Everything *)
(* between two awaits is one step, as asyncio runs it.  catalog_bundle     *)
(* holds the catalog lock while the structural worker parses; build, with  *)
(* its TypeScript analysis, does not.  The indexer's start comes first:    *)
(* nothing else runs before Bootstrap.                                     *)
(***************************************************************************)
EXTENDS Naturals, FiniteSets

CONSTANTS
    Manifest,     \* the project manifest; its digest stands for the project
    Code,         \* paths in a supported catalog language
    Sql,          \* PostgreSQL paths
    Excluded,     \* paths that get no chunks: lock files, build output, *.min.js
    MaxDigest,    \* digests are 1 .. MaxDigest
    Large,        \* digests of contents of more than 4 MiB
    Empty,        \* the digest of the empty content, or none
    None,         \* no snapshot, no generation, no job
    MaxPerPass,   \* StructuralCatalogBudget.max_files_per_pass
    MaxEdits,     \* bound: edits of the working tree
    MaxRestarts,  \* bound: restarts of the process
    MaxFailures   \* bound: failed or truncated worker jobs

Supported == Code \cup Sql
Paths     == Supported \cup {Manifest}
Digests   == 0 .. MaxDigest
Snapshots == [Paths -> Digests]

ASSUME CatalogAssumption ==
    /\ Manifest \notin Supported
    /\ Code \cap Sql = {}
    /\ Excluded \subseteq Paths
    /\ MaxDigest \in Nat \ {0}
    /\ Large \cup Empty \subseteq Digests \ {0} /\ Large \cap Empty = {}
    /\ None \notin Snapshots
    /\ MaxPerPass \in Nat \ {0}
    /\ {MaxEdits, MaxRestarts, MaxFailures} \subseteq Nat

VARIABLES
    files,      \* the working tree
    cap,        \* _captured_bundles: the snapshot of the captured bundle
    gen,        \* _catalog_generations: the hot generation
    base,       \* _catalog_base_fingerprints
    extracted,  \* _structural_extracted: the digest parsed for each path
    settled,    \* _structural_enriched_fingerprints
    tsDone,     \* _typescript_enriched_projects: "unset", or whether it is done
    job,        \* the structural pass in progress
    tsJob,      \* the TypeScript analysis in progress
    store,      \* the SQLite projection of each fingerprint
    count       \* edits, restarts and failures so far

vars == <<files, cap, gen, base, extracted, settled, tsDone, job, tsJob,
          store, count>>

----------------------------------------------------------------------------
(* Facts and generations.                                                  *)

Chunks    == [path : Paths, digest : Digests, kind : {"generic", "sql"}]
Facts     == [path : Supported, digest : Digests, project : Digests]

\* A generation: base (retrieval chunks only) or full, with its chunks, the
\* structural facts, and whether it has TypeScript facts.  Warnings are left
\* out, but a pass that adds one commits a generation for it.
Generations ==
    [num : Nat, snap : Snapshots, full : BOOLEAN, chunks : SUBSET Chunks,
     facts : SUBSET Facts, ts : BOOLEAN]

\* A projection, and the generation of the materialized publication beside it
\* (0 for none) with its enrichment_settled flag.
Projections == [g : Generations, pub : Nat, done : BOOLEAN]

ASSUME NoProjectionAssumption == None \notin Projections

Files(snap) == {p \in Paths : snap[p] # 0}

EligibleForChunks(p, d) == p \notin Excluded /\ d \notin Large

\* _chunks: every eligible captured file is cut into retrieval chunks.
GenericChunks(snap, paths) ==
    {[path |-> p, digest |-> snap[p], kind |-> "generic"] :
        p \in {q \in paths \cap Files(snap) : EligibleForChunks(q, snap[q])}}

\* build_base: chunks only.  build: the manifest's facts as well.
BuildBase(snap, n) ==
    [num |-> n, snap |-> snap, full |-> FALSE, chunks |-> GenericChunks(snap, Paths),
     facts |-> {}, ts |-> FALSE]
Build(snap, n) == [BuildBase(snap, n) EXCEPT !.full = TRUE]

\* changed_snapshot_paths: added, removed and digest-changed paths.
ChangedPaths(old, new) == {p \in Paths : old[p] # new[p]}

\* project_id_for_path: the project of every path, if there are project facts.
ProjectOf(g) == IF g.full THEN g.snap[Manifest] ELSE 0

\* _rebind_symbol and its siblings: a retained fact moves to the project the
\* path belongs to now.
Rebind(f, snap) == [f EXCEPT !.project = snap[Manifest]]

\* _retain_unchanged_structural_facts and _retained_structural_rows.
Retained(cur, snap, paths) == {Rebind(f, snap) : f \in {g \in cur.facts : g.path \in paths}}

\* Mutant: update keeps the facts of changed files too.
UpdateKeepsChanged(cur, snap, n) ==
    LET changed == ChangedPaths(cur.snap, snap)
    IN [Build(snap, n) EXCEPT
          !.chunks = {c \in cur.chunks : c.path \notin changed}
                     \cup GenericChunks(snap, changed),
          !.facts = Retained(cur, snap, Files(snap))]

\* CatalogGenerationBuilder.update: manifest facts and changed chunks anew,
\* structural facts and chunks of unchanged files carried over.
Update(cur, snap, n) ==
    LET changed   == ChangedPaths(cur.snap, snap)
        unchanged == Files(snap) \ changed
    IN [Build(snap, n) EXCEPT
          !.chunks = {c \in cur.chunks : c.kind = "generic" /\ c.path \notin changed}
                     \cup GenericChunks(snap, changed)
                     \cup {c \in cur.chunks : c.kind = "sql" /\ c.path \in unchanged},
          !.facts = Retained(cur, snap, unchanged)]

\* merge_structural_facts and the PostgreSQL projection: the facts of the
\* parsed paths replace what was there; a projected SQL path has SQL chunks,
\* one for each statement and gap of a text that has any, eligible or not, in
\* place of its generic ones.
Merge(g, got) ==
    [g EXCEPT
       !.facts = {f \in @ : f.path \notin got}
                 \cup {[path |-> p, digest |-> g.snap[p], project |-> ProjectOf(g)] :
                         p \in got},
       !.chunks = {c \in @ : c.path \notin got \cap Sql}
                  \cup {[path |-> p, digest |-> g.snap[p], kind |-> "sql"] :
                          p \in {q \in got \cap Sql : g.snap[q] \notin Empty}}]

----------------------------------------------------------------------------
(* The projection.                                                         *)

\* Mutant: publish trusts the caller's previous fingerprint without comparing
\* it with the stored one.
PublishedUnchecked(st, g, previous, changed) ==
    LET old == st[g.snap]
        stored == IF old = None THEN {} ELSE old.g.chunks
    IN [st EXCEPT ![g.snap] =
          [g |-> [g EXCEPT !.chunks =
                    IF previous # None
                    THEN {c \in stored : c.path \notin changed}
                         \cup {c \in @ : c.path \in changed}
                    ELSE @],
           pub |-> IF old = None THEN 0 ELSE old.pub,
           done |-> old # None /\ old.done]]

\* CatalogStore.publish: every fact table is replaced; chunks only for the
\* changed paths when the stored projection is that of the previous generation.
\* The materialized publication in the same file stays.
Published(st, g, previous, changed) ==
    LET old == st[g.snap]
        incremental == old # None /\ previous = g.snap
        chunks == IF incremental
                  THEN {c \in old.g.chunks : c.path \notin changed}
                       \cup {c \in g.chunks : c.path \in changed}
                  ELSE g.chunks
    IN [st EXCEPT ![g.snap] =
          [g |-> [g EXCEPT !.chunks = chunks],
           pub |-> IF old = None THEN 0 ELSE old.pub,
           done |-> old # None /\ old.done]]

\* CatalogStore.load: the generation a projection holds.
Load(s) == s.g

----------------------------------------------------------------------------
Init ==
    /\ files \in [Paths -> 1 .. 1]
    /\ cap = None
    /\ gen = None
    /\ base = None
    /\ extracted = [p \in Supported |-> 0]
    /\ settled = None
    /\ tsDone = "unset"
    /\ job = None
    /\ tsJob = None
    /\ store = [s \in Snapshots |-> None]
    /\ count = [edits |-> 0, restarts |-> 0, failures |-> 0]

\* The working tree changes.
Edit(p, d) ==
    /\ count.edits < MaxEdits
    /\ d # files[p]
    /\ files' = [files EXCEPT ![p] = d]
    /\ count' = [count EXCEPT !.edits = @ + 1]
    /\ UNCHANGED <<cap, gen, base, extracted, settled, tsDone, job, tsJob, store>>

\* Mutant: a capture that is there is never read again.
CapturedOnce(validate) == IF cap = None THEN {files} ELSE {cap}

\* capture, _reconcile_capture and _merge_capture: a first or validating
\* capture reads every file, a recent one only the hinted files (mark_dirty),
\* which may be any of those that changed.
Captured(validate) ==
    IF validate \/ cap = None
    THEN {files}
    ELSE {[p \in Paths |-> IF p \in hinted THEN files[p] ELSE cap[p]] :
             hinted \in SUBSET Paths}

\* catalog_for_bundle: the generation of exactly these bytes, built from the
\* hot one if there is one.  The result carries the store it leaves behind.
ForBundle(c) ==
    IF gen # None /\ gen.snap = c THEN [g |-> gen, st |-> store, fresh |-> FALSE]
    ELSE LET g == IF gen = None THEN Build(c, 1) ELSE Update(gen, c, gen.num + 1)
             previous == IF gen = None THEN None ELSE gen.snap
             changed == IF gen = None THEN Files(c) ELSE ChangedPaths(gen.snap, c)
         IN [g |-> g, st |-> Published(store, g, previous, changed), fresh |-> TRUE]

\* _resolve_catalog_bundle: without a captured bundle a projection of these
\* bytes is loaded, whatever the hot generation.
Resolve(c) ==
    IF cap = None /\ store[c] # None
    THEN [g |-> Load(store[c]), st |-> store, fresh |-> FALSE]
    ELSE ForBundle(c)

\* _expand_base_catalog: a base generation is rebuilt in full.
Expand(r) ==
    IF base # r.g.snap THEN r
    ELSE LET g == Build(r.g.snap, r.g.num + 1)
         IN [g |-> g, st |-> Published(r.st, g, None, {}), fresh |-> r.fresh]

\* A fresh generation forgets which TypeScript projects were analysed; the
\* set a running analysis holds is then an orphan.
ForgetTypeScript(fresh) ==
    /\ tsDone' = IF fresh THEN "unset" ELSE tsDone
    /\ tsJob' = IF fresh /\ tsJob # None THEN [tsJob EXCEPT !.live = FALSE] ELSE tsJob

\* The hot generation for captured bytes, and the store behind it; expand for
\* the callers that rebuild a base generation.
UseCatalog(c, expand) ==
    /\ LET r0 == Resolve(c)
           r == IF expand THEN Expand(r0) ELSE r0 IN
       /\ cap' = c
       /\ gen' = r.g
       /\ store' = r.st
       /\ base' = IF expand /\ base = r0.g.snap THEN None ELSE base
       /\ ForgetTypeScript(r.fresh)

\* A request that needs the catalog of the current bytes (a language server
\* project identity, a symbol search) takes catalog_for_bundle, unlocked.
ReadCatalog(c) ==
    /\ gen # None
    /\ c \in Captured(FALSE)
    /\ UseCatalog(c, FALSE)
    /\ UNCHANGED <<files, extracted, settled, job, count>>

----------------------------------------------------------------------------
(* catalog_bundle and its structural pass, under the catalog lock.         *)

\* The digests enrich_structural_catalog keeps: those of the snapshot's files.
Pruned(snap) == [p \in Supported |-> IF extracted[p] = snap[p] THEN extracted[p] ELSE 0]

Needed(ex, snap) == {p \in Supported : snap[p] # 0 /\ ex[p] # snap[p]}

\* A PostgreSQL file that changed or went away changes the projection.
SqlDropped(snap) == {p \in Sql : extracted[p] # 0 /\ extracted[p] # snap[p]}

\* The beginning of catalog_bundle: resolve, expand, prune, and either settle
\* at once or start on the files of one pass.
CatalogBundle(c, validate) ==
    /\ gen # None
    /\ job = None
    /\ c \in Captured(validate)
    /\ UseCatalog(c, TRUE)
    /\ LET snap == c
           ex == Pruned(snap)
           needed == Needed(ex, snap) IN
       IF settled = snap
       THEN UNCHANGED <<extracted, settled, job>>
       ELSE /\ extracted' = ex
            /\ IF needed = {} /\ SqlDropped(snap) = {}
               THEN settled' = snap /\ UNCHANGED job
               ELSE /\ \E todo \in SUBSET needed :
                        /\ Cardinality(todo) =
                              IF Cardinality(needed) > MaxPerPass THEN MaxPerPass
                              ELSE Cardinality(needed)
                        /\ job' = [g |-> gen', todo |-> todo, got |-> {},
                                   sql |-> SqlDropped(snap) # {},
                                   warn |-> todo # needed, cut |-> todo # needed]
                    /\ UNCHANGED settled
    /\ UNCHANGED <<files, count>>

\* One answer of the worker: facts, or WorkerJobError / WorkerUnavailableError.
Extract(p) ==
    /\ job # None
    /\ p \in job.todo
    /\ extracted' = [extracted EXCEPT ![p] = job.g.snap[p]]
    /\ job' = [job EXCEPT !.todo = @ \ {p}, !.got = @ \cup {p}]
    /\ UNCHANGED <<files, cap, gen, base, settled, tsDone, tsJob, store, count>>

ExtractFails(p) ==
    /\ job # None
    /\ p \in job.todo
    /\ count.failures < MaxFailures
    /\ count' = [count EXCEPT !.failures = @ + 1]
    /\ job' = [job EXCEPT !.todo = @ \ {p}, !.warn = TRUE]
    /\ UNCHANGED <<files, cap, gen, base, extracted, settled, tsDone, tsJob, store>>

\* The pass runs out of wall time.
Truncate ==
    /\ job # None
    /\ job.todo # {}
    /\ count.failures < MaxFailures
    /\ count' = [count EXCEPT !.failures = @ + 1]
    /\ job' = [job EXCEPT !.todo = {}, !.warn = TRUE, !.cut = TRUE]
    /\ UNCHANGED <<files, cap, gen, base, extracted, settled, tsDone, tsJob, store>>

\* The end of the pass: merge (a changed PostgreSQL projection is merged as a
\* whole), _commit_generation and, when no supported file is left to retry,
\* the settled mark.
CommitPass ==
    /\ job # None
    /\ job.todo = {}
    /\ LET sql == IF job.sql \/ job.got \cap Sql # {}
                  THEN {p \in Sql : extracted[p] # 0} ELSE {}
           g == Merge(job.g, job.got \cup sql) IN
       /\ IF g = job.g /\ ~job.warn
          THEN UNCHANGED <<gen, store>>
          ELSE /\ gen' = [g EXCEPT !.num = @ + 1]
               /\ store' = Published(store, gen', job.g.snap, {})
       /\ settled' = IF ~job.cut /\ Needed(extracted, job.g.snap) = {}
                     THEN job.g.snap ELSE settled
    /\ job' = None
    /\ UNCHANGED <<files, cap, base, extracted, tsDone, tsJob, count>>

----------------------------------------------------------------------------
(* The indexer's frame, without the catalog lock, and its publication.     *)

\* publish_prepared_materialized: rows of the built generation go into the
\* projection the store is bound to, once its enrichment has settled.
Materialized(st, g) ==
    IF settled = g.snap THEN [st EXCEPT ![g.snap] = [@ EXCEPT !.pub = g.num, !.done = TRUE]]
    ELSE st

\* _refresh_locked after a settled catalog_bundle: build captures again, and
\* enrich_typescript_catalog analyses the project unless that was done.
BuildFrame(c) ==
    /\ gen # None
    /\ tsJob = None
    /\ job = None
    /\ settled = gen.snap
    /\ c \in Captured(FALSE)
    /\ LET r == Expand(ForBundle(c))
           known == IF r.fresh \/ tsDone = "unset" THEN r.g.ts ELSE tsDone = "done" IN
       /\ gen' = r.g
       /\ base' = IF base = r.g.snap THEN None ELSE base
       /\ IF known
          THEN /\ store' = Materialized(r.st, r.g)
               /\ tsDone' = "done"
               /\ UNCHANGED tsJob
          ELSE /\ store' = r.st
               /\ tsDone' = "todo"
               /\ tsJob' = [g |-> r.g, live |-> TRUE]
    /\ cap' = c
    /\ UNCHANGED <<files, extracted, settled, job, count>>

\* The end of the analysis: its facts, or a warning, are merged into the
\* generation it began with, which is committed and published.
FinishTypeScript(ok) ==
    /\ tsJob # None
    /\ ok \/ count.failures < MaxFailures
    /\ count' = IF ok THEN count ELSE [count EXCEPT !.failures = @ + 1]
    /\ gen' = [tsJob.g EXCEPT !.num = @ + 1, !.ts = ok \/ @]
    /\ store' = Materialized(Published(store, gen', tsJob.g.snap, {}), gen')
    /\ tsDone' = IF ok /\ tsJob.live THEN "done" ELSE tsDone
    /\ tsJob' = None
    /\ UNCHANGED <<files, cap, base, extracted, settled, job>>

----------------------------------------------------------------------------
(* Restarts.                                                               *)

\* The process stops; the working tree and the projections stay.
Restart ==
    /\ gen # None
    /\ count.restarts < MaxRestarts
    /\ count' = [count EXCEPT !.restarts = @ + 1]
    /\ cap' = None /\ gen' = None /\ base' = None
    /\ extracted' = [p \in Supported |-> 0]
    /\ settled' = None /\ tsDone' = "unset" /\ job' = None /\ tsJob' = None
    /\ UNCHANGED <<files, store>>

\* The indexer's start, first half: bootstrap_catalog_bundle loads the
\* projection of the captured bytes or builds a base generation; a publication
\* of exactly this generation is restored, with the settled mark if it has one
\* (_restore_materialized_publication).
Bootstrap ==
    /\ gen = None
    /\ cap = None
    /\ cap' = files
    /\ LET old == store[files] IN
       IF old # None
       THEN /\ gen' = Load(old)
            /\ base' = IF old.pub # 0 /\ ~old.done THEN files ELSE base
            /\ IF old.done /\ old.pub = old.g.num
               THEN /\ settled' = files
                    /\ tsDone' = IF old.g.ts THEN "done" ELSE "todo"
               ELSE UNCHANGED <<settled, tsDone>>
            /\ UNCHANGED store
       ELSE /\ gen' = BuildBase(files, 1)
            /\ base' = files
            /\ store' = Published(store, gen', None, Files(files))
            /\ UNCHANGED <<settled, tsDone>>
    /\ UNCHANGED <<files, extracted, job, tsJob, count>>

\* Second half: what was not restored gets an unsettled base publication
\* (_publish_base_generation).
PublishBase ==
    /\ gen # None
    /\ cap = gen.snap
    /\ settled = None
    /\ job = None
    /\ extracted = [p \in Supported |-> 0]
    /\ LET old == store[gen.snap] IN
       /\ old # None
       /\ old.pub # gen.num
       /\ store' = [store EXCEPT ![gen.snap] = [@ EXCEPT !.pub = gen.num, !.done = FALSE]]
    /\ UNCHANGED <<files, cap, gen, base, extracted, settled, tsDone, job, tsJob, count>>

----------------------------------------------------------------------------
Next ==
    \/ \E p \in Paths, d \in Digests : Edit(p, d)
    \/ \E c \in Captured(FALSE) : ReadCatalog(c) \/ BuildFrame(c)
    \/ \E v \in BOOLEAN : \E c \in Captured(v) : CatalogBundle(c, v)
    \/ \E p \in Supported : Extract(p) \/ ExtractFails(p)
    \/ Truncate
    \/ CommitPass
    \/ \E ok \in BOOLEAN : FinishTypeScript(ok)
    \/ Restart
    \/ Bootstrap
    \/ PublishBase

Spec == Init /\ [][Next]_vars

\* The reconcile loop runs a validating catalog_bundle every two seconds (the
\* catalog lock is first come, first served); the worker and the TypeScript
\* runtime answer or time out.
Fairness ==
    /\ WF_vars(Bootstrap)
    /\ SF_vars(CatalogBundle(files, TRUE))
    /\ WF_vars(\E p \in Supported : Extract(p) \/ ExtractFails(p))
    /\ WF_vars(CommitPass)
    /\ WF_vars(\E ok \in BOOLEAN : FinishTypeScript(ok))

FairSpec == Spec /\ Fairness

----------------------------------------------------------------------------
\* Snapshots, generations, jobs and projections have their shape.
TypeOK ==
    /\ files \in Snapshots
    /\ cap \in Snapshots \cup {None}
    /\ gen = None \/ gen \in Generations
    /\ base \in Snapshots \cup {None}
    /\ extracted \in [Supported -> Digests]
    /\ settled \in Snapshots \cup {None}
    /\ tsDone \in {"unset", "todo", "done"}
    /\ job = None \/ job.g \in Generations
    /\ tsJob = None \/ tsJob.g \in Generations
    /\ \A s \in Snapshots : store[s] = None \/ store[s] \in Projections

\* A file without chunks: one that is not eligible, or that the PostgreSQL
\* projection found to have no text.
Bare(p, d) == ~EligibleForChunks(p, d) \/ (p \in Sql /\ d \in Empty)

\* The chunks of a snapshot's files, of one kind for each file (one stands for
\* all of that kind).  A PostgreSQL projection cuts files that are not eligible.
WellCut(chunks, snap) ==
    /\ \A c \in chunks :
          /\ c.digest = snap[c.path] /\ c.digest # 0
          /\ c.kind = "generic" => EligibleForChunks(c.path, c.digest)
          /\ c.kind = "sql" => c.path \in Sql /\ c.digest \notin Empty
    /\ \A p \in Files(snap) : (\E c \in chunks : c.path = p) \/ Bare(p, snap[p])
    /\ \A c, d \in chunks : c.path = d.path => c = d

\* However captures, passes, analyses and restarts interleave, a generation
\* never mixes sources: each structural fact and each chunk of the hot
\* generation is of a file of its own snapshot, with the digest that file has;
\* facts carried over from an older generation belong to the projects of the
\* current manifest; and every eligible captured file has its chunks, of one
\* kind.
FactsMatchSnapshot ==
    gen # None =>
        /\ \A f \in gen.facts : f.digest = gen.snap[f.path] /\ f.digest # 0
        /\ \A f \in gen.facts : f.project = ProjectOf(gen)
        /\ WellCut(gen.chunks, gen.snap)

\* The projection of a fingerprint, also after incremental publishes, holds
\* the facts of a generation of that fingerprint and the chunks of its files.
ProjectionMatchesFingerprint ==
    \A s \in Snapshots : store[s] # None =>
        /\ store[s].g.snap = s
        /\ \A f \in store[s].g.facts : f.digest = s[f.path]
        /\ WellCut(store[s].g.chunks, s)

\* When the working tree stops changing, the hot generation becomes and stays
\* the one of its bytes, and its enrichment settles, also past failed passes,
\* passes cut short, stale TypeScript commits and restarts.
CatalogSettles == <>[](gen # None /\ gen.snap = files /\ settled = files)
=============================================================================
