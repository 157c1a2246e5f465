--------------------------- MODULE CatalogIndexer ---------------------------
(***************************************************************************)
(* The lifecycle indexer (catalog/indexer.py): the only owner that builds  *)
(* and publishes materialized catalog rows.  A background loop refreshes   *)
(* the workspaces one after the other, a request may promote every         *)
(* workspace from the AUTHORITY to the FULL profile, waiters wait for one  *)
(* reconciliation, and aclose stops it all.  The code runs on one event    *)
(* loop: everything between two awaits is one step.                        *)
(*                                                                         *)
(* The frame builder is reduced to what the indexer sees of it: the hot    *)
(* generation (number, source fingerprint, whether it has project facts,   *)
(* whether its structural enrichment settled); CatalogGenerations has the  *)
(* rest.  A fingerprint is the number of edits of the workspace so far.    *)
(***************************************************************************)
EXTENDS Naturals, Sequences, FiniteSets

CONSTANTS
    Count,          \* the number of allowed workspaces
    Waiters,        \* callers of wait_for_tables
    Retained,       \* retained_generations
    Disk,           \* TRUE: one database file per fingerprint (CatalogMode.DISK)
    StartProfiles,  \* the publication profiles the indexer may be created with
    None,           \* no publication, no workspace
    MaxEdits,       \* bound: edits of each workspace
    MaxFailures,    \* bound: failures of the worker, of SQLite, cancellations
    MaxPromotions   \* bound: calls of promote_to_full

\* The allowed workspaces in their order; each is named by its place.
Workspaces == [i \in 1..Count |-> i]
W == {Workspaces[i] : i \in DOMAIN Workspaces}
Profiles == {"authority", "full"}

ASSUME IndexerAssumption ==
    /\ Count \in Nat \ {0}
    /\ MaxEdits \in Nat
    /\ Retained \in Nat \ {0}
    /\ Disk \in BOOLEAN
    /\ StartProfiles \subseteq Profiles
    /\ None \notin W

VARIABLES
    tree,       \* the fingerprint of each working tree
    gen,        \* the frame builder's hot generation of each workspace
    db,         \* the catalog databases of each workspace
    bound,      \* the database each store is bound to
    pub,        \* _publications
    bundle,     \* _published_bundles: the fingerprint of the bundle
    profile,    \* _publication_profile
    lock,       \* the holder of _refresh_lock
    loop,       \* _reconcile_loop
    prom,       \* the promotion in progress, under _promotion_lock
    wake,       \* _wake
    event,      \* _reconciled
    waiter,     \* what each waiter waits for
    phase,      \* "new", "started", "closed"
    failures,   \* failures and cancellations so far
    incomplete  \* a rollback reported that it was incomplete

vars == <<tree, gen, db, bound, pub, bundle, profile, lock, loop, prom, wake,
          event, waiter, phase, failures, incomplete>>

Fingerprints == 0 .. MaxEdits
\* The database file of a fingerprint; a memory catalog has a single one.
Key(fp) == IF Disk THEN fp ELSE 0

----------------------------------------------------------------------------
(* The database.                                                           *)

\* catalog_state and the generations that have context_rows.
EmptyDb == [rows |-> {}, active |-> 0, life |-> "none", fp |-> 0, done |-> FALSE]

\* The newest Retained generations keep their rows.
Kept(rows) == {r \in rows : Cardinality({q \in rows : q.num > r.num}) < Retained}

\* publish_prepared_materialized: one transaction replaces the rows of the
\* generation, flips the active pointer and prunes.
Published(d, p) ==
    [d EXCEPT !.rows = Kept({r \in @ : r.num # p.num}
                            \cup {[num |-> p.num, profile |-> p.profile]}),
              !.active = p.num, !.life = "ready", !.fp = p.fp, !.done = p.done]

\* mark_building and mark_failure touch the state only.
Building(d) == [d EXCEPT !.life = IF @ = "none" THEN "building" ELSE "reconciling"]
Failed(d)   == [d EXCEPT !.life = "failed"]

Active(w) == db[w][bound[w]]
WriteDb(w, key, d) == [db EXCEPT ![w][key] = d]

\* read_materialized reads the active generation of the bound database, and
\* fails with catalog_not_ready or catalog_unavailable without one.
Readable(w) == Active(w).active # 0 /\ \E r \in Active(w).rows : r.num = Active(w).active

Publication(g, prof, done) == [num |-> g.num, fp |-> g.fp, done |-> done, profile |-> prof]

----------------------------------------------------------------------------
(* The frame builder, as the indexer uses it.                              *)

\* Mutant: the catalog of the bytes captured first is returned for ever.
ValidatedOnce(w) == gen[w]

\* The bytes of the working tree: an updated generation for changed sources.
Validated(w) ==
    IF gen[w].fp = tree[w] THEN gen[w]
    ELSE [num |-> gen[w].num + 1, fp |-> tree[w], full |-> TRUE, settled |-> FALSE]

\* catalog_bundle rebuilds a base generation in full and runs one structural
\* pass, which settles or (a failure) leaves files to retry; base_catalog_bundle
\* does neither.
Bundles(w, prof) ==
    LET g == Validated(w)
        f == IF g.full THEN g ELSE [g EXCEPT !.num = @ + 1, !.full = TRUE]
    IN IF prof = "authority" THEN {g}
       ELSE IF f.settled THEN {f}
       ELSE {[f EXCEPT !.num = @ + 1, !.settled = s] :
                s \in {TRUE} \cup (IF failures < MaxFailures THEN {FALSE} ELSE {})}

\* _enrichment_settled of a frame that was built without a worker error.
Settled(g, prof) == prof = "authority" \/ g.settled

----------------------------------------------------------------------------
NoLoop == [pc |-> "off", i |-> 1, plan |-> None, built |-> None]
NoProm == [pc |-> "idle", i |-> 1, retained |-> None, prepared |-> <<>>, calls |-> 0]

Init ==
    /\ tree = [w \in W |-> 0]
    /\ gen = [w \in W |-> [num |-> 1, fp |-> 0, full |-> FALSE, settled |-> FALSE]]
    /\ db = [w \in W |-> [k \in Fingerprints |-> EmptyDb]]
    /\ bound = [w \in W |-> 0]
    /\ pub = [w \in W |-> None]
    /\ bundle = [w \in W |-> None]
    /\ profile \in StartProfiles
    /\ lock = "free"
    /\ loop = NoLoop
    /\ prom = NoProm
    /\ wake = FALSE
    /\ event = [w \in W |-> FALSE]
    /\ waiter = [x \in Waiters |-> None]
    /\ phase = "new"
    /\ failures = 0
    /\ incomplete = FALSE

Edit(w) ==
    /\ tree[w] < MaxEdits
    /\ phase # "new"
    /\ tree' = [tree EXCEPT ![w] = @ + 1]
    /\ UNCHANGED <<gen, db, bound, pub, bundle, profile, lock, loop, prom, wake,
                   event, waiter, phase, failures, incomplete>>

\* start: a base publication (unsettled) or, under the AUTHORITY profile, the
\* complete authority rows for each workspace, then the loop.
Start ==
    /\ phase = "new"
    /\ LET done == profile = "authority"
           p(w) == Publication(gen[w], profile, done) IN
       /\ db' = [w \in W |-> [db[w] EXCEPT ![bound[w]] = Published(@, p(w))]]
       /\ pub' = [w \in W |-> p(w)]
       /\ bundle' = [w \in W |-> gen[w].fp]
       /\ event' = [w \in W |-> done]
       /\ wake' = ~done
    /\ loop' = [loop EXCEPT !.pc = "wait"]
    /\ phase' = "started"
    /\ UNCHANGED <<tree, gen, bound, profile, lock, prom, waiter, failures, incomplete>>

----------------------------------------------------------------------------
(* _reconcile_loop and _refresh_locked.                                    *)

\* The wake event or the two second timeout; notify_dirty only sets wake.
LoopWake ==
    /\ loop.pc = "wait"
    /\ wake' = FALSE
    /\ loop' = [loop EXCEPT !.pc = "lock", !.i = 1]
    /\ UNCHANGED <<tree, gen, db, bound, pub, bundle, profile, lock, prom, event,
                   waiter, phase, failures, incomplete>>

NotifyDirty ==
    /\ phase = "started"
    /\ ~wake
    /\ wake' = TRUE
    /\ UNCHANGED <<tree, gen, db, bound, pub, bundle, profile, lock, loop, prom, event,
                   waiter, phase, failures, incomplete>>

LoopLock ==
    /\ loop.pc = "lock"
    /\ lock = "free"
    /\ lock' = "loop"
    /\ loop' = [loop EXCEPT !.pc = "bundle", !.plan = profile]
    /\ UNCHANGED <<tree, gen, db, bound, pub, bundle, profile, prom, wake, event,
                   waiter, phase, failures, incomplete>>

\* Mutant: the event is set only when something was published.
LeaveRefreshQuietly(w, published) ==
    /\ lock' = "free"
    /\ loop' = IF loop.i = Len(Workspaces) THEN [loop EXCEPT !.pc = "wait", !.built = None]
               ELSE [loop EXCEPT !.pc = "lock", !.i = @ + 1, !.built = None]
    /\ event' = [event EXCEPT ![w] = published]

\* The end of refresh: the lock is released, the event of the workspace is set
\* whatever happened, and the next workspace follows.
LeaveRefresh(w, published) ==
    /\ lock' = "free"
    /\ loop' = IF loop.i = Len(Workspaces) THEN [loop EXCEPT !.pc = "wait", !.built = None]
               ELSE [loop EXCEPT !.pc = "lock", !.i = @ + 1, !.built = None]
    /\ event' = [event EXCEPT ![w] = TRUE]

\* The catalog bundle arrives: nothing to do, not settled yet, or a frame to
\* build.  The disk store is then bound to the database of the new fingerprint.
LoopBundle ==
    /\ loop.pc = "bundle"
    /\ LET w == Workspaces[loop.i] IN
       \E g \in Bundles(w, loop.plan) :
          LET same == /\ pub[w].profile = loop.plan
                      /\ pub[w].done
                      /\ pub[w].num = g.num
                      /\ pub[w].fp = g.fp
              early == same \/ (loop.plan = "full" /\ ~g.settled) IN
          /\ gen' = [gen EXCEPT ![w] = g]
          /\ bound' = [bound EXCEPT ![w] = Key(g.fp)]
          /\ failures' = IF loop.plan = "full" /\ ~g.settled THEN failures + 1 ELSE failures
          /\ IF early
             THEN /\ bundle' = [bundle EXCEPT ![w] = g.fp]
                  /\ UNCHANGED db
                  /\ LeaveRefresh(w, FALSE)
             ELSE /\ db' = WriteDb(w, Key(g.fp), Building(db[w][Key(g.fp)]))
                  /\ loop' = [loop EXCEPT !.pc = "build"]
                  /\ UNCHANGED <<bundle, lock, event>>
    /\ UNCHANGED <<tree, pub, profile, prom, wake, waiter, phase, incomplete>>

\* The frame arrives; a worker error leaves a degraded frame that is not
\* published.
LoopBuild ==
    /\ loop.pc = "build"
    /\ LET w == Workspaces[loop.i] IN
       \/ /\ Settled(gen[w], loop.plan)
          /\ loop' = [loop EXCEPT !.pc = "publish",
                                  !.built = Publication(gen[w], loop.plan, TRUE)]
          /\ UNCHANGED <<lock, event, failures>>
       \/ /\ failures < MaxFailures
          /\ failures' = failures + 1
          /\ LeaveRefresh(w, FALSE)
    /\ UNCHANGED <<tree, gen, db, bound, pub, bundle, profile, prom, wake, waiter, phase,
                   incomplete>>

\* _publish_build after its thread: the transaction, then the publication in
\* memory, without an await between them.
Publish(w, p) ==
    /\ db' = WriteDb(w, bound[w], Published(Active(w), p))
    /\ pub' = [pub EXCEPT ![w] = p]
    /\ bundle' = [bundle EXCEPT ![w] = p.fp]

LoopPublish ==
    /\ loop.pc = "publish"
    /\ LET w == Workspaces[loop.i] IN
       /\ Publish(w, loop.built)
       /\ LeaveRefresh(w, TRUE)
    /\ UNCHANGED <<tree, gen, bound, profile, prom, wake, waiter, phase, failures, incomplete>>

\* Any step of a refresh may raise: mark_failure, and the loop goes on.
LoopFails ==
    /\ loop.pc \in {"bundle", "build", "publish"}
    /\ failures < MaxFailures
    /\ failures' = failures + 1
    /\ LET w == Workspaces[loop.i] IN
       /\ db' = WriteDb(w, bound[w], Failed(Active(w)))
       /\ LeaveRefresh(w, FALSE)
    /\ UNCHANGED <<tree, gen, bound, pub, bundle, profile, prom, wake, waiter, phase,
                   incomplete>>

----------------------------------------------------------------------------
(* promote_to_full.                                                        *)

PromoteBegin ==
    /\ phase = "started"
    /\ prom.pc = "idle"
    /\ profile # "full"
    /\ prom.calls < MaxPromotions
    /\ prom' = [prom EXCEPT !.pc = "lock", !.calls = @ + 1]
    /\ UNCHANGED <<tree, gen, db, bound, pub, bundle, profile, lock, loop, wake, event,
                   waiter, phase, failures, incomplete>>

PromoteEnds == [prom EXCEPT !.pc = "idle", !.i = 1, !.retained = None, !.prepared = <<>>]

\* _retain_publication of every workspace: the publication, its bundle and its
\* rows must be at hand.
Retainable(w) ==
    /\ pub[w].profile = profile
    /\ bundle[w] = pub[w].fp
    /\ Readable(w)
    /\ Active(w).active = pub[w].num
    /\ Active(w).fp = pub[w].fp

PromoteRetain ==
    /\ prom.pc = "lock"
    /\ lock = "free"
    /\ IF \A w \in W : Retainable(w)
       THEN /\ lock' = "promote"
            /\ prom' = [prom EXCEPT !.pc = "prepare", !.i = 1, !.retained = pub]
       ELSE /\ prom' = PromoteEnds
            /\ UNCHANGED lock
    /\ UNCHANGED <<tree, gen, db, bound, pub, bundle, profile, loop, wake, event, waiter,
                   phase, failures, incomplete>>

\* _prepare_publication: a settled FULL frame of each workspace, before any is
\* published; a failure or a cancellation gives up.
PromotePrepare ==
    /\ prom.pc = "prepare"
    /\ LET w == Workspaces[prom.i] IN
       \E g \in Bundles(w, "full") :
          /\ gen' = [gen EXCEPT ![w] = g]
          /\ bound' = [bound EXCEPT ![w] = Key(g.fp)]
          /\ IF g.settled
             THEN /\ prom' = [prom EXCEPT
                        !.prepared = Append(@, Publication(g, "full", TRUE)),
                        !.pc = IF prom.i = Len(Workspaces) THEN "publish" ELSE @,
                        !.i = IF prom.i = Len(Workspaces) THEN 1 ELSE @ + 1]
                  /\ UNCHANGED <<lock, failures>>
             ELSE /\ prom' = PromoteEnds
                  /\ lock' = "free"
                  /\ failures' = failures + 1
    /\ UNCHANGED <<tree, db, pub, bundle, profile, loop, wake, event, waiter, phase,
                   incomplete>>

PromoteGivesUp ==
    /\ prom.pc = "prepare"
    /\ failures < MaxFailures
    /\ failures' = failures + 1
    /\ prom' = PromoteEnds
    /\ lock' = "free"
    /\ UNCHANGED <<tree, gen, db, bound, pub, bundle, profile, loop, wake, event, waiter,
                   phase, incomplete>>

\* The prepared frames are published one after the other; the profile follows
\* the last one.
PromotePublish ==
    /\ prom.pc = "publish"
    /\ LET w == Workspaces[prom.i]
           last == prom.i = Len(Workspaces) IN
       /\ Publish(w, prom.prepared[prom.i])
       /\ event' = [event EXCEPT ![w] = TRUE]
       /\ profile' = IF last THEN "full" ELSE profile
       /\ prom' = IF last THEN PromoteEnds ELSE [prom EXCEPT !.i = @ + 1]
       /\ lock' = IF last THEN "free" ELSE lock
    /\ UNCHANGED <<tree, gen, bound, loop, wake, waiter, phase, failures, incomplete>>

\* Mutant: only the workspace whose publication failed is restored.
RestoredLastOnly(kept) ==
    /\ db' = [w \in W |-> IF w = Workspaces[prom.i] /\ w \in kept
                          THEN [db[w] EXCEPT ![bound[w]] = Published(@, prom.retained[w])]
                          ELSE db[w]]
    /\ pub' = [w \in W |-> IF w = Workspaces[prom.i] /\ w \in kept THEN prom.retained[w]
                           ELSE pub[w]]
    /\ bundle' = [w \in W |-> IF w = Workspaces[prom.i] /\ w \in kept
                              THEN prom.retained[w].fp ELSE bundle[w]]

\* The touched workspaces, which the failed publication reached.
Touched == {Workspaces[i] : i \in 1 .. prom.i}

\* _restore_retained_publication of the touched workspaces; SQLite may fail for
\* some of them (not in kept), which keep what was published.
Restored(kept) ==
    /\ db' = [w \in W |-> IF w \in Touched \cap kept
                          THEN [db[w] EXCEPT ![bound[w]] = Published(@, prom.retained[w])]
                          ELSE db[w]]
    /\ pub' = [w \in W |-> IF w \in Touched \cap kept THEN prom.retained[w] ELSE pub[w]]
    /\ bundle' = [w \in W |-> IF w \in Touched \cap kept THEN prom.retained[w].fp
                              ELSE bundle[w]]

\* A publication fails, or the request is cancelled in its thread.
PromoteRollback(kept) ==
    /\ prom.pc = "publish"
    /\ failures < MaxFailures
    /\ failures' = failures + 1
    /\ Restored(kept)
    /\ incomplete' = (incomplete \/ ~(Touched \subseteq kept))
    /\ prom' = PromoteEnds
    /\ lock' = "free"
    /\ UNCHANGED <<tree, gen, bound, profile, loop, wake, event, waiter, phase>>

----------------------------------------------------------------------------
(* Waiters and shutdown.                                                   *)

Satisfies(p) == p # None /\ p.done

\* wait_for_tables: clear, look again, wake the loop, wait.
WaitForTables(x, w) ==
    /\ phase = "started"
    /\ waiter[x] = None
    /\ ~Satisfies(pub[w])
    /\ event' = [event EXCEPT ![w] = FALSE]
    /\ wake' = TRUE
    /\ waiter' = [waiter EXCEPT ![x] = w]
    /\ UNCHANGED <<tree, gen, db, bound, pub, bundle, profile, lock, loop, prom,
                   phase, failures, incomplete>>

\* The event resolves the waiter's future: it returns the publication, or an
\* error after aclose.
WaiterReturns(x) ==
    /\ waiter[x] # None
    /\ event[waiter[x]]
    /\ waiter' = [waiter EXCEPT ![x] = None]
    /\ UNCHANGED <<tree, gen, db, bound, pub, bundle, profile, lock, loop, prom, wake, event,
                   phase, failures, incomplete>>

\* aclose: the loop is cancelled at its await (its finally sets an event, its
\* lock is released), every event is set, the bundles are dropped.  A
\* promotion is not stopped.
Close ==
    /\ phase = "started"
    /\ phase' = "closed"
    /\ loop' = [loop EXCEPT !.pc = "off", !.built = None]
    /\ lock' = IF lock = "loop" THEN "free" ELSE lock
    /\ event' = [w \in W |-> TRUE]
    /\ bundle' = [w \in W |-> None]
    /\ UNCHANGED <<tree, gen, db, bound, pub, profile, prom, wake, waiter, failures, incomplete>>

----------------------------------------------------------------------------
LoopStep == LoopWake \/ LoopLock \/ LoopBundle \/ LoopBuild \/ LoopPublish \/ LoopFails
PromoteStep == \/ PromoteRetain \/ PromotePrepare \/ PromoteGivesUp \/ PromotePublish
               \/ \E kept \in SUBSET W : PromoteRollback(kept)

Next ==
    \/ Start
    \/ \E w \in W : Edit(w)
    \/ NotifyDirty
    \/ LoopStep
    \/ PromoteBegin
    \/ PromoteStep
    \/ \E x \in Waiters : (\E w \in W : WaitForTables(x, w)) \/ WaiterReturns(x)
    \/ Close

Spec == Init /\ [][Next]_vars

\* The event loop runs every ready task; the refresh lock wakes its waiters in
\* order of arrival, so neither the loop nor a promotion starves on it.
Fairness ==
    /\ WF_vars(Start)
    /\ WF_vars(LoopWake)
    /\ SF_vars(LoopLock)
    /\ WF_vars(LoopBundle \/ LoopBuild \/ LoopPublish)
    /\ SF_vars(PromoteRetain)
    /\ WF_vars(PromotePrepare \/ PromotePublish)
    /\ \A x \in Waiters : WF_vars(WaiterReturns(x))

FairSpec == Spec /\ Fairness

----------------------------------------------------------------------------
\* Generations, publications, locks and program counters have their shape.
TypeOK ==
    /\ \A w \in W : /\ gen[w].num \in Nat /\ gen[w].fp \in Fingerprints
                    /\ pub[w] = None \/ pub[w].profile \in Profiles
                    /\ bundle[w] \in Fingerprints \cup {None}
    /\ profile \in Profiles
    /\ lock \in {"free", "loop", "promote"}
    /\ loop.pc \in {"off", "wait", "lock", "bundle", "build", "publish"}
    /\ prom.pc \in {"idle", "lock", "prepare", "publish"}

\* promote_to_full switches every workspace or none: outside the publishing
\* steps the workspaces have one profile, the indexer's, unless a rollback said
\* that it was incomplete; and what the indexer says it published and what the
\* database says agree in every state, through failures and rollbacks (memory
\* catalogs: one database).
PublicationIsAtomic ==
    /\ (prom.pc # "publish" /\ phase # "new" /\ ~incomplete) =>
           \A w \in W : pub[w].profile = profile
    /\ \A w \in W : (~Disk /\ pub[w] # None) =>
           /\ Active(w).active = pub[w].num
           /\ Active(w).fp = pub[w].fp
           /\ Active(w).done = pub[w].done

\* Who waits for a reconciliation gets an answer: the loop is woken by the wait
\* itself and sets the event on every path, and aclose sets it too.
WaitersReturn == \A x \in Waiters : waiter[x] # None ~> waiter[x] = None

\* Once edits, failures and promotions stop, the published rows of a running
\* indexer are those of the working tree, settled, under its profile.
ReconciliationSettles ==
    <>[](phase = "closed" \/ \A w \in W : /\ pub[w] # None
                                          /\ pub[w].fp = tree[w]
                                          /\ pub[w].done
                                          /\ pub[w].profile = profile)
=============================================================================
