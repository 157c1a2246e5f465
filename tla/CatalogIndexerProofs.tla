------------------------ MODULE CatalogIndexerProofs ------------------------
(* Proofs about the lifecycle indexer, for all constants.                   *)
EXTENDS CatalogIndexer, SequenceTheorems, TLAPS

Indices == 1 .. Len(Workspaces)
Pubs == [num : Nat, fp : Fingerprints, done : BOOLEAN, profile : Profiles]
Databases == [rows : SUBSET [num : Nat, profile : Profiles], active : Nat,
              life : {"none", "building", "reconciling", "ready", "failed"},
              fp : Fingerprints, done : BOOLEAN]
Gens == [num : Nat, fp : Fingerprints, full : BOOLEAN, settled : BOOLEAN]
Loops == [pc : {"off", "wait", "lock", "bundle", "build", "publish"}, i : Indices,
          plan : Profiles \cup {None}, built : Pubs \cup {None}]
Proms == [pc : {"idle", "lock", "prepare", "publish"}, i : Indices,
          retained : [W -> Pubs] \cup {None}, prepared : Seq(Pubs), calls : Nat]

Typed ==
    /\ tree \in [W -> Fingerprints]
    /\ gen \in [W -> Gens]
    /\ db \in [W -> [Fingerprints -> Databases]]
    /\ bound \in [W -> Fingerprints]
    /\ pub \in [W -> Pubs \cup {None}]
    /\ bundle \in [W -> Fingerprints \cup {None}]
    /\ profile \in Profiles
    /\ lock \in {"free", "loop", "promote"}
    /\ phase \in {"new", "started", "closed"}
    /\ incomplete \in BOOLEAN
    /\ loop \in Loops
    /\ prom \in Proms

\* Nothing runs before the start, which gives every workspace a publication.
Started ==
    /\ phase = "new" => loop.pc = "off" /\ prom.pc = "idle"
    /\ phase # "new" => pub \in [W -> Pubs]

\* A memory catalog has one database, which says what was published last.
Mirrored(w) ==
    /\ bound[w] = 0
    /\ pub[w] # None => /\ Active(w).active = pub[w].num
                        /\ Active(w).fp = pub[w].fp
                        /\ Active(w).done = pub[w].done
Mirrors == ~Disk => \A w \in W : Mirrored(w)

\* A refresh holds the lock, and keeps to the profile it began with.
LoopPlans ==
    /\ loop.pc \in {"bundle", "build", "publish"} => lock = "loop" /\ loop.plan = profile
    /\ loop.pc = "publish" => loop.built \in Pubs /\ loop.built.profile = loop.plan

\* A promotion holds the lock from the publications it retained to the last
\* one it makes; the workspaces it has published, and no others, are FULL.
Passed(n) == {Workspaces[j] : j \in 1 .. n}
PromHolds ==
    prom.pc \in {"prepare", "publish"} =>
        /\ lock = "promote"
        /\ prom.retained \in [W -> Pubs]
        /\ \A w \in W : prom.retained[w].profile = profile
        /\ \A j \in 1 .. Len(prom.prepared) : prom.prepared[j].profile = "full"
PromPrepares ==
    prom.pc = "prepare" => pub = prom.retained /\ Len(prom.prepared) = prom.i - 1
PromPublishes ==
    prom.pc = "publish" =>
        /\ Len(prom.prepared) = Len(Workspaces)
        /\ \A w \in Passed(prom.i - 1) : pub[w].profile = "full"
        /\ \A w \in W \ Passed(prom.i - 1) : pub[w] = prom.retained[w]
PromRests == prom.pc \in {"idle", "lock"} => prom.i = 1 /\ prom.prepared = <<>>

\* Outside the publishing steps the workspaces have the indexer's profile.
Agreed ==
    (prom.pc # "publish" /\ phase # "new" /\ ~incomplete) => \A w \in W : pub[w].profile = profile

IndexerInv ==
    Typed /\ Started /\ Mirrors /\ LoopPlans /\ PromHolds /\ PromPrepares /\ PromPublishes
    /\ PromRests /\ Agreed

-----------------------------------------------------------------------------
(* The constants, the databases and the builder.                           *)

LEMMA Constants ==
    /\ Len(Workspaces) \in Nat /\ 1 \in Indices /\ Len(Workspaces) \in Indices
    /\ \A i \in Indices : Workspaces[i] \in W /\ i \in Nat /\ i >= 1 /\ i <= Len(Workspaces)
    /\ \A w \in W : \E i \in Indices : w = Workspaces[i]
    /\ \A fp \in Fingerprints : Key(fp) \in Fingerprints /\ (~Disk => Key(fp) = 0)
    /\ 0 \in Fingerprints /\ MaxEdits \in Nat
    /\ None \notin W
<1>1. Count \in Nat /\ Count # 0 /\ MaxEdits \in Nat /\ None \notin W
  BY IndexerAssumption
<1>2. Len(Workspaces) \in Nat /\ DOMAIN Workspaces = Indices /\ Len(Workspaces) # 0
  <2>1. Workspaces \in Seq(Nat) /\ DOMAIN Workspaces = 1 .. Count
    BY <1>1 DEF Workspaces
  <2>2. Len(Workspaces) = Count
    BY <1>1, <2>1
  <2> QED BY <1>1, <2>1, <2>2 DEF Indices
<1>3. 1 \in Indices /\ Len(Workspaces) \in Indices
  BY <1>2 DEF Indices
<1>4. \A i \in Indices : Workspaces[i] \in W /\ i \in Nat /\ i >= 1 /\ i <= Len(Workspaces)
  BY <1>2 DEF W, Indices
<1>5. \A w \in W : \E i \in Indices : w = Workspaces[i]
  BY <1>2 DEF W
<1>6. 0 \in Fingerprints /\ \A fp \in Fingerprints : Key(fp) \in Fingerprints /\ (~Disk => Key(fp) = 0)
  BY <1>1 DEF Fingerprints, Key
<1> QED BY <1>1, <1>2, <1>3, <1>4, <1>5, <1>6

\* A transaction of publish_prepared_materialized makes the publication the
\* active one; the other marks leave it alone.
LEMMA PublishedDb ==
    ASSUME NEW d \in Databases, NEW p \in Pubs
    PROVE /\ Published(d, p) \in Databases
          /\ Published(d, p).active = p.num /\ Published(d, p).fp = p.fp
          /\ Published(d, p).done = p.done
<1> DEFINE Row == [num : Nat, profile : Profiles]
           rows == Kept({r \in d.rows : r.num # p.num} \cup {[num |-> p.num, profile |-> p.profile]})
<1>1. rows \in SUBSET Row
  <2>1. [num |-> p.num, profile |-> p.profile] \in Row
    BY DEF Pubs
  <2>2. d.rows \in SUBSET Row
    BY DEF Databases
  <2> QED BY <2>1, <2>2 DEF Kept
<1>2. Published(d, p) = [d EXCEPT !.rows = rows, !.active = p.num, !.life = "ready", !.fp = p.fp,
                                  !.done = p.done]
  BY DEF Published
<1>3. p.num \in Nat /\ p.fp \in Fingerprints /\ p.done \in BOOLEAN
  BY DEF Pubs
<1> HIDE DEF rows
<1> QED BY <1>1, <1>2, <1>3 DEF Databases

LEMMA MarkedDb ==
    ASSUME NEW d \in Databases, NEW e \in {Building(d), Failed(d)}
    PROVE e \in Databases /\ e.active = d.active /\ e.fp = d.fp /\ e.done = d.done
<1>1. PICK life \in {"building", "reconciling", "failed"} : e = [d EXCEPT !.life = life]
  BY DEF Building, Failed
<1> QED BY <1>1 DEF Databases

LEMMA WrittenDb ==
    ASSUME Typed, NEW w \in W, NEW key \in Fingerprints, NEW d \in Databases
    PROVE /\ WriteDb(w, key, d) \in [W -> [Fingerprints -> Databases]]
          /\ WriteDb(w, key, d)[w][key] = d
          /\ \A u \in W : u # w => WriteDb(w, key, d)[u] = db[u]
          /\ \A k \in Fingerprints : k # key => WriteDb(w, key, d)[w][k] = db[w][k]
  BY DEF WriteDb, Typed

\* catalog_bundle and base_catalog_bundle return generations.
LEMMA BundleGens ==
    ASSUME Typed, NEW w \in W, NEW prof, NEW g \in Bundles(w, prof)
    PROVE g \in Gens
<1>1. gen[w] \in Gens /\ tree[w] \in Fingerprints
  BY DEF Typed
<1>2. Validated(w) \in Gens
  BY <1>1 DEF Validated, Gens
<1>3. PICK v \in Gens : v = Validated(w)
  BY <1>2
<1>4. \A h \in Gens, s \in BOOLEAN :
         /\ [h EXCEPT !.num = @ + 1, !.full = s] \in Gens
         /\ [h EXCEPT !.num = @ + 1, !.settled = s] \in Gens
  <2> SUFFICES ASSUME NEW h \in Gens, NEW s \in BOOLEAN, NEW n, n = h.num + 1
               PROVE /\ [h EXCEPT !.num = n, !.full = s] \in Gens
                     /\ [h EXCEPT !.num = n, !.settled = s] \in Gens
    OBVIOUS
  <2>1. n \in Nat
    BY DEF Gens
  <2> QED BY <2>1 DEF Gens
<1> DEFINE f == IF v.full THEN v ELSE [v EXCEPT !.num = @ + 1, !.full = TRUE]
<1>5. f \in Gens
  BY <1>4
<1>6. g \in {v, f} \/ \E s \in BOOLEAN : g = [f EXCEPT !.num = @ + 1, !.settled = s]
  BY <1>3 DEF Bundles
<1> HIDE DEF f
<1> QED BY <1>4, <1>5, <1>6

LEMMA PublicationTyped ==
    ASSUME NEW g \in Gens, NEW prof \in Profiles, NEW done \in BOOLEAN
    PROVE Publication(g, prof, done) \in Pubs /\ Publication(g, prof, done).profile = prof
  BY DEF Publication, Gens, Pubs

\* One publication more.
LEMMA AppendedPub ==
    ASSUME NEW s \in Seq(Pubs), NEW p \in Pubs
    PROVE /\ Append(s, p) \in Seq(Pubs) /\ Len(Append(s, p)) = Len(s) + 1
          /\ \A j \in 1 .. Len(s) : Append(s, p)[j] = s[j]
          /\ Append(s, p)[Len(s) + 1] = p
  BY AppendProperties

LEMMA ProfilesFacts == "authority" \in Profiles /\ "full" \in Profiles
  BY DEF Profiles

-----------------------------------------------------------------------------
(* What the steps share.                                                   *)

LEMMA LeaveMoves ==
    ASSUME Typed, NEW w, NEW b, LeaveRefresh(w, b)
    PROVE lock' = "free" /\ loop' \in Loops /\ loop'.pc \in {"wait", "lock"}
<1>1. loop \in Loops /\ loop.i \in Indices
  BY DEF Typed, Loops
<1>2. CASE loop.i = Len(Workspaces)
  BY <1>1, <1>2 DEF LeaveRefresh, Loops
<1>3. CASE loop.i # Len(Workspaces)
  <2>1. loop.i + 1 \in Indices
    BY <1>1, <1>3, Constants DEF Indices
  <2>2. PICK n \in Indices : n = loop.i + 1
    BY <2>1
  <2>3. loop' = [loop EXCEPT !.pc = "lock", !.i = n, !.built = None]
    BY <1>3, <2>2 DEF LeaveRefresh
  <2> QED BY <1>1, <2>3 DEF LeaveRefresh, Loops
<1> QED BY <1>2, <1>3

\* A publication reaches the database and the indexer in one step.
LEMMA PublishMoves ==
    ASSUME Typed, Started, phase # "new", Mirrors, NEW w \in W, NEW p \in Pubs, Publish(w, p), UNCHANGED bound
    PROVE /\ db' \in [W -> [Fingerprints -> Databases]] /\ pub' \in [W -> Pubs]
          /\ bundle' \in [W -> Fingerprints \cup {None}]
          /\ pub'[w] = p /\ \A u \in W : u # w => pub'[u] = pub[u]
          /\ Mirrors'
<1> DEFINE d == Published(Active(w), p)
<1>1. bound[w] \in Fingerprints /\ Active(w) \in Databases
  BY DEF Typed, Active
<1>2. d \in Databases /\ d.active = p.num /\ d.fp = p.fp /\ d.done = p.done
  BY <1>1, PublishedDb
<1>3. db' = WriteDb(w, bound[w], d) /\ pub' = [pub EXCEPT ![w] = p]
      /\ bundle' = [bundle EXCEPT ![w] = p.fp]
  BY DEF Publish
<1> HIDE DEF d
<1>4. /\ db' \in [W -> [Fingerprints -> Databases]] /\ db'[w][bound[w]] = d
      /\ \A u \in W : u # w => db'[u] = db[u]
  BY <1>1, <1>2, <1>3, WrittenDb
<1>5. /\ pub' \in [W -> Pubs] /\ pub'[w] = p /\ \A u \in W : u # w => pub'[u] = pub[u]
  BY <1>3 DEF Started
<1>6. bundle' \in [W -> Fingerprints \cup {None}]
  BY <1>3 DEF Typed, Pubs
<1>7. ASSUME ~Disk, NEW u \in W PROVE Mirrored(u)'
  <2>1. Mirrored(u) /\ Mirrored(w)
    BY <1>7 DEF Mirrors
  <2>2. CASE u = w
    BY <1>2, <1>4, <1>5, <2>1, <2>2 DEF Mirrored, Active
  <2>3. CASE u # w
    BY <1>4, <1>5, <2>1, <2>3 DEF Mirrored, Active
  <2> QED BY <2>2, <2>3
<1> QED BY <1>4, <1>5, <1>6, <1>7 DEF Mirrors

\* A mark in a database is of no publication.
LEMMA MarkMoves ==
    ASSUME Typed, Mirrors, NEW w \in W, NEW key \in Fingerprints,
           NEW e \in {Building(db[w][key]), Failed(db[w][key])}, db' = WriteDb(w, key, e),
           UNCHANGED pub, bound' \in [W -> Fingerprints], ~Disk => UNCHANGED bound
    PROVE db' \in [W -> [Fingerprints -> Databases]] /\ Mirrors'
<1> DEFINE d == db[w][key]
<1>1. d \in Databases
  BY DEF Typed
<1>2. e \in Databases /\ e.active = d.active /\ e.fp = d.fp /\ e.done = d.done
  BY <1>1, MarkedDb
<1>3. /\ db' \in [W -> [Fingerprints -> Databases]] /\ db'[w][key] = e
      /\ \A u \in W : u # w => db'[u] = db[u]
      /\ \A k \in Fingerprints : k # key => db'[w][k] = db[w][k]
  BY <1>2, WrittenDb
<1>4. ASSUME ~Disk, NEW u \in W PROVE Mirrored(u)'
  <2>1. Mirrored(u) /\ bound' = bound /\ bound[u] \in Fingerprints
    BY <1>4 DEF Mirrors, Typed
  <2>2. /\ db'[u][bound[u]].active = db[u][bound[u]].active
        /\ db'[u][bound[u]].fp = db[u][bound[u]].fp
        /\ db'[u][bound[u]].done = db[u][bound[u]].done
    BY <1>2, <1>3, <2>1
  <2> QED BY <2>1, <2>2 DEF Mirrored, Active
<1> QED BY <1>3, <1>4 DEF Mirrors

\* The generation of a workspace and the database its store is bound to.
LEMMA BindMoves ==
    ASSUME Typed, Mirrors, NEW w \in W, NEW g \in Gens, gen' = [gen EXCEPT ![w] = g],
           bound' = [bound EXCEPT ![w] = Key(g.fp)]
    PROVE /\ gen' \in [W -> Gens] /\ bound' \in [W -> Fingerprints] /\ Key(g.fp) \in Fingerprints
          /\ ~Disk => UNCHANGED bound
<1>1. g.fp \in Fingerprints
  BY DEF Gens
<1>2. Key(g.fp) \in Fingerprints /\ (~Disk => Key(g.fp) = 0)
  BY <1>1, Constants
<1>3. ~Disk => bound[w] = 0
  BY DEF Mirrors, Mirrored
<1> QED BY <1>2, <1>3 DEF Typed

-----------------------------------------------------------------------------
(* The steps.                                                              *)

LEMMA EditStep ==
    ASSUME IndexerInv, NEW w \in W, Edit(w)
    PROVE IndexerInv'
<1>1. tree' \in [W -> Fingerprints]
  <2>1. tree[w] \in Fingerprints /\ tree[w] < MaxEdits
    BY DEF Edit, IndexerInv, Typed
  <2>2. MaxEdits \in Nat
    BY Constants
  <2>3. tree[w] + 1 \in Fingerprints
    BY <2>1, <2>2 DEF Fingerprints
  <2> QED BY <2>3 DEF Edit, IndexerInv, Typed
<1> QED BY <1>1 DEF Edit, IndexerInv, Typed, Started, Mirrors, Mirrored, Active, LoopPlans, PromHolds,
                    PromPrepares, PromPublishes, PromRests, Agreed, Passed

LEMMA StartStep ==
    ASSUME IndexerInv, Start
    PROVE IndexerInv'
<1> DEFINE done == profile = "authority"
           p(w) == Publication(gen[w], profile, done)
<1>1. /\ phase = "new" /\ phase' = "started" /\ pub' = [w \in W |-> p(w)]
      /\ db' = [w \in W |-> [db[w] EXCEPT ![bound[w]] = Published(@, p(w))]]
      /\ bundle' = [w \in W |-> gen[w].fp] /\ loop' = [loop EXCEPT !.pc = "wait"]
      /\ UNCHANGED <<tree, gen, bound, profile, lock, prom, incomplete>>
  BY DEF Start
<1>2. \A w \in W : p(w) \in Pubs /\ p(w).profile = profile
  <2>1. \A w \in W : gen[w] \in Gens
    BY DEF IndexerInv, Typed
  <2>2. profile \in Profiles /\ done \in BOOLEAN
    BY DEF IndexerInv, Typed
  <2> HIDE DEF done
  <2> QED BY <2>1, <2>2, PublicationTyped
<1> HIDE DEF p
<1>3. pub' \in [W -> Pubs] /\ \A w \in W : pub'[w] = p(w)
  BY <1>1, <1>2
<1>4. \A w \in W : /\ bound[w] \in Fingerprints /\ db[w] \in [Fingerprints -> Databases]
                   /\ Published(db[w][bound[w]], p(w)) \in Databases
                   /\ Published(db[w][bound[w]], p(w)).active = p(w).num
                   /\ Published(db[w][bound[w]], p(w)).fp = p(w).fp
                   /\ Published(db[w][bound[w]], p(w)).done = p(w).done
  BY <1>2, PublishedDb DEF IndexerInv, Typed
<1>5. /\ db' \in [W -> [Fingerprints -> Databases]]
      /\ \A w \in W : db'[w][bound[w]] = Published(db[w][bound[w]], p(w))
  BY <1>1, <1>4
<1>6. Mirrors'
  <2> SUFFICES ASSUME ~Disk, NEW w \in W PROVE Mirrored(w)'
    BY DEF Mirrors
  <2>1. bound[w] = 0
    BY DEF IndexerInv, Mirrors, Mirrored
  <2> QED BY <1>1, <1>3, <1>4, <1>5, <2>1 DEF Mirrored, Active
<1>7. loop' \in Loops /\ loop'.pc = "wait"
  BY <1>1 DEF IndexerInv, Typed, Loops
<1>8. bundle' \in [W -> Fingerprints \cup {None}]
  BY <1>1 DEF IndexerInv, Typed, Gens
<1>9. prom.pc = "idle"
  BY <1>1 DEF IndexerInv, Started
<1>10. Typed'
  BY <1>1, <1>3, <1>5, <1>7, <1>8 DEF IndexerInv, Typed
<1>11. Agreed'
  BY <1>1, <1>2, <1>3 DEF Agreed
<1> QED BY <1>1, <1>3, <1>6, <1>7, <1>9, <1>10, <1>11
        DEF IndexerInv, Started, LoopPlans, PromHolds, PromPrepares, PromPublishes, PromRests

\* The steps of the loop that only move it, or the flags.
LEMMA LoopMoves ==
    ASSUME IndexerInv, LoopWake \/ NotifyDirty \/ LoopLock
    PROVE IndexerInv'
<1>1. UNCHANGED <<tree, gen, db, bound, pub, bundle, profile, prom, phase, incomplete>>
  BY DEF LoopWake, NotifyDirty, LoopLock
<1>2. /\ loop' \in Loops /\ lock' \in {"free", "loop", "promote"}
      /\ phase = "new" => loop'.pc = "off"
      /\ LoopPlans'
      /\ lock = "promote" => lock' = lock
  <2>1. CASE LoopWake
    <3>1. loop' = [loop EXCEPT !.pc = "lock", !.i = 1] /\ loop.pc = "wait" /\ UNCHANGED lock
      BY <2>1 DEF LoopWake
    <3>2. loop \in Loops /\ 1 \in Indices
      BY Constants DEF IndexerInv, Typed
    <3>3. loop' \in Loops /\ loop'.pc = "lock"
      BY <3>1, <3>2 DEF Loops
    <3> QED BY <3>1, <3>3 DEF IndexerInv, Typed, Started, LoopPlans
  <2>2. CASE NotifyDirty
    BY <2>2 DEF NotifyDirty, IndexerInv, Typed, Started, LoopPlans
  <2>3. CASE LoopLock
    <3>1. /\ loop' = [loop EXCEPT !.pc = "bundle", !.plan = profile] /\ loop.pc = "lock"
          /\ lock = "free" /\ lock' = "loop"
      BY <2>3 DEF LoopLock
    <3>2. loop \in Loops /\ profile \in Profiles
      BY DEF IndexerInv, Typed
    <3>3. loop' \in Loops /\ loop'.pc = "bundle" /\ loop'.plan = profile
      BY <3>1, <3>2 DEF Loops
    <3> QED BY <1>1, <3>1, <3>3 DEF IndexerInv, Started, LoopPlans
  <2> QED BY <2>1, <2>2, <2>3
<1>3. Mirrors'
  BY <1>1 DEF IndexerInv, Mirrors, Mirrored, Active
<1>4. Typed'
  BY <1>1, <1>2 DEF IndexerInv, Typed
<1>5. PromHolds' /\ PromPrepares' /\ PromPublishes' /\ PromRests' /\ Agreed'
  BY <1>1, <1>2 DEF IndexerInv, PromHolds, PromPrepares, PromPublishes, PromRests, Agreed, Passed
<1> QED BY <1>1, <1>2, <1>3, <1>4, <1>5 DEF IndexerInv, Started

\* While the loop holds the lock no promotion is under way.
LEMMA LoopAlone ==
    ASSUME IndexerInv, loop.pc \in {"bundle", "build", "publish"}
    PROVE /\ phase # "new" /\ lock = "loop" /\ prom.pc \in {"idle", "lock"}
          /\ loop.plan = profile /\ Workspaces[loop.i] \in W
<1>1. loop \in Loops /\ prom \in Proms
  BY DEF IndexerInv, Typed
<1>2. loop.i \in Indices /\ prom.pc \in {"idle", "lock", "prepare", "publish"}
  BY <1>1 DEF Loops, Proms
<1> QED BY <1>2, Constants DEF IndexerInv, Started, LoopPlans, PromHolds

\* Whatever a step of the loop does outside the publications keeps the rest.
LEMMA LoopKeeps ==
    ASSUME IndexerInv, loop.pc \in {"bundle", "build", "publish"},
           UNCHANGED <<tree, profile, prom, phase, incomplete>>,
           gen' \in [W -> Gens], db' \in [W -> [Fingerprints -> Databases]],
           bound' \in [W -> Fingerprints], bundle' \in [W -> Fingerprints \cup {None}],
           loop' \in Loops, lock' \in {"free", "loop"}, LoopPlans', Mirrors',
           pub' \in [W -> Pubs],
           \A w \in W : pub'[w] = pub[w] \/ pub'[w].profile = profile
    PROVE IndexerInv'
<1>1. phase # "new" /\ prom.pc \in {"idle", "lock"}
  BY LoopAlone
<1>2. Typed'
  BY DEF IndexerInv, Typed
<1>3. Agreed'
  BY <1>1 DEF IndexerInv, Agreed
<1> QED BY <1>1, <1>2, <1>3
        DEF IndexerInv, Started, PromHolds, PromPrepares, PromPublishes, PromRests

LEMMA LoopBundleStep ==
    ASSUME IndexerInv, LoopBundle
    PROVE IndexerInv'
<1> DEFINE w == Workspaces[loop.i]
<1>1. loop.pc = "bundle" /\ w \in W /\ lock = "loop" /\ loop.plan = profile /\ phase # "new"
  BY LoopAlone DEF LoopBundle
<1>2. UNCHANGED <<tree, pub, profile, prom, phase, incomplete>>
  BY DEF LoopBundle
<1>3. PICK g \in Bundles(w, loop.plan) :
         /\ gen' = [gen EXCEPT ![w] = g] /\ bound' = [bound EXCEPT ![w] = Key(g.fp)]
         /\ \/ /\ bundle' = [bundle EXCEPT ![w] = g.fp] /\ UNCHANGED db /\ LeaveRefresh(w, FALSE)
            \/ /\ db' = WriteDb(w, Key(g.fp), Building(db[w][Key(g.fp)]))
               /\ loop' = [loop EXCEPT !.pc = "build"]
               /\ UNCHANGED <<bundle, lock, event>>
  BY DEF LoopBundle
<1>4. g \in Gens /\ Typed /\ Mirrors
  BY <1>1, BundleGens DEF IndexerInv
<1>5. /\ gen' \in [W -> Gens] /\ bound' \in [W -> Fingerprints] /\ Key(g.fp) \in Fingerprints
      /\ ~Disk => UNCHANGED bound
  BY <1>1, <1>3, <1>4, BindMoves
<1>6. pub' \in [W -> Pubs]
  BY <1>1, <1>2 DEF IndexerInv, Started
<1> HIDE DEF w
<1>7. CASE bundle' = [bundle EXCEPT ![w] = g.fp] /\ UNCHANGED db /\ LeaveRefresh(w, FALSE)
  <2>1. lock' = "free" /\ loop' \in Loops /\ loop'.pc \in {"wait", "lock"}
    BY <1>4, <1>7, LeaveMoves
  <2>2. bundle' \in [W -> Fingerprints \cup {None}]
    BY <1>4, <1>7 DEF Typed, Gens
  <2>3. Mirrors'
    BY <1>2, <1>4, <1>5, <1>7 DEF Mirrors, Mirrored, Active
  <2>4. LoopPlans'
    BY <2>1 DEF LoopPlans
  <2>5. db' \in [W -> [Fingerprints -> Databases]]
    BY <1>4, <1>7 DEF Typed
  <2> QED BY <1>1, <1>2, <1>5, <1>6, <2>1, <2>2, <2>3, <2>4, <2>5, LoopKeeps
<1>8. CASE /\ db' = WriteDb(w, Key(g.fp), Building(db[w][Key(g.fp)]))
           /\ loop' = [loop EXCEPT !.pc = "build"]
           /\ UNCHANGED <<bundle, lock, event>>
  <2>1. db' \in [W -> [Fingerprints -> Databases]] /\ Mirrors'
    BY <1>1, <1>2, <1>4, <1>5, <1>8, MarkMoves
  <2>2. loop' \in Loops /\ loop'.pc = "build" /\ loop'.plan = loop.plan
    BY <1>4, <1>8 DEF Typed, Loops
  <2>3. LoopPlans'
    BY <1>1, <1>2, <1>8, <2>2 DEF LoopPlans
  <2>4. bundle' \in [W -> Fingerprints \cup {None}] /\ lock' \in {"free", "loop"}
    BY <1>1, <1>4, <1>8 DEF Typed
  <2> QED BY <1>1, <1>2, <1>5, <1>6, <2>1, <2>2, <2>3, <2>4, LoopKeeps
<1> QED BY <1>3, <1>7, <1>8

LEMMA LoopBuildStep ==
    ASSUME IndexerInv, LoopBuild
    PROVE IndexerInv'
<1> DEFINE w == Workspaces[loop.i]
           built == Publication(gen[w], loop.plan, TRUE)
<1>1. loop.pc = "build" /\ w \in W /\ lock = "loop" /\ loop.plan = profile /\ phase # "new"
  BY LoopAlone DEF LoopBuild
<1>2. UNCHANGED <<tree, gen, db, bound, pub, bundle, profile, prom, phase, incomplete>>
  BY DEF LoopBuild
<1>3. \/ loop' = [loop EXCEPT !.pc = "publish", !.built = built] /\ UNCHANGED lock
      \/ LeaveRefresh(w, FALSE)
  BY DEF LoopBuild
<1>4. Typed /\ gen[w] \in Gens /\ profile \in Profiles
  BY <1>1 DEF IndexerInv, Typed
<1>5. built \in Pubs /\ built.profile = loop.plan
  BY <1>1, <1>4, PublicationTyped
<1> HIDE DEF w, built
<1>6. loop' \in Loops /\ lock' \in {"free", "loop"} /\ LoopPlans'
  <2>1. CASE loop' = [loop EXCEPT !.pc = "publish", !.built = built] /\ UNCHANGED lock
    <3>1. /\ loop' \in Loops /\ loop'.pc = "publish" /\ loop'.plan = loop.plan
          /\ loop'.built = built
      BY <1>4, <1>5, <2>1 DEF Typed, Loops
    <3> QED BY <1>1, <1>2, <1>5, <2>1, <3>1 DEF LoopPlans
  <2>2. CASE LeaveRefresh(w, FALSE)
    BY <1>4, <2>2, LeaveMoves DEF LoopPlans
  <2> QED BY <1>3, <2>1, <2>2
<1>7. /\ pub' \in [W -> Pubs] /\ gen' \in [W -> Gens] /\ bound' \in [W -> Fingerprints]
      /\ db' \in [W -> [Fingerprints -> Databases]]
      /\ bundle' \in [W -> Fingerprints \cup {None}]
  BY <1>1, <1>2 DEF IndexerInv, Started, Typed
<1>8. Mirrors'
  BY <1>2 DEF IndexerInv, Mirrors, Mirrored, Active
<1> QED BY <1>1, <1>2, <1>6, <1>7, <1>8, LoopKeeps

LEMMA LoopPublishStep ==
    ASSUME IndexerInv, LoopPublish
    PROVE IndexerInv'
<1> DEFINE w == Workspaces[loop.i]
<1>1. loop.pc = "publish" /\ w \in W /\ lock = "loop" /\ loop.plan = profile /\ phase # "new"
  BY LoopAlone DEF LoopPublish
<1>2. /\ UNCHANGED <<tree, gen, bound, profile, prom, phase, incomplete>>
      /\ Publish(w, loop.built) /\ LeaveRefresh(w, TRUE)
  BY DEF LoopPublish
<1>3. loop.built \in Pubs /\ loop.built.profile = profile
  BY <1>1 DEF IndexerInv, LoopPlans
<1>4. Typed /\ Started /\ Mirrors
  BY DEF IndexerInv
<1> HIDE DEF w
<1>5. /\ db' \in [W -> [Fingerprints -> Databases]] /\ pub' \in [W -> Pubs]
      /\ bundle' \in [W -> Fingerprints \cup {None}]
      /\ pub'[w] = loop.built /\ \A u \in W : u # w => pub'[u] = pub[u]
      /\ Mirrors'
  BY <1>1, <1>2, <1>3, <1>4, PublishMoves
<1>6. lock' = "free" /\ loop' \in Loops /\ loop'.pc \in {"wait", "lock"}
  BY <1>2, <1>4, LeaveMoves
<1>7. LoopPlans'
  BY <1>6 DEF LoopPlans
<1>8. gen' \in [W -> Gens] /\ bound' \in [W -> Fingerprints]
  BY <1>2, <1>4 DEF Typed
<1> QED BY <1>1, <1>2, <1>3, <1>5, <1>6, <1>7, <1>8, LoopKeeps

LEMMA LoopFailsStep ==
    ASSUME IndexerInv, LoopFails
    PROVE IndexerInv'
<1> DEFINE w == Workspaces[loop.i]
<1>1. /\ loop.pc \in {"bundle", "build", "publish"} /\ w \in W /\ phase # "new"
  BY LoopAlone DEF LoopFails
<1>2. /\ UNCHANGED <<tree, gen, bound, pub, bundle, profile, prom, phase, incomplete>>
      /\ db' = WriteDb(w, bound[w], Failed(db[w][bound[w]])) /\ LeaveRefresh(w, FALSE)
  BY DEF LoopFails, Active
<1>3. Typed /\ Started /\ Mirrors /\ bound[w] \in Fingerprints
  BY <1>1 DEF IndexerInv, Typed
<1> HIDE DEF w
<1>4. /\ pub' \in [W -> Pubs] /\ gen' \in [W -> Gens] /\ bound' \in [W -> Fingerprints]
      /\ bundle' \in [W -> Fingerprints \cup {None}]
  BY <1>1, <1>2, <1>3 DEF Typed, Started
<1>5. db' \in [W -> [Fingerprints -> Databases]] /\ Mirrors'
  BY <1>1, <1>2, <1>3, <1>4, MarkMoves
<1>6. lock' = "free" /\ loop' \in Loops /\ loop'.pc \in {"wait", "lock"}
  BY <1>2, <1>3, LeaveMoves
<1>7. LoopPlans'
  BY <1>6 DEF LoopPlans
<1> QED BY <1>1, <1>2, <1>4, <1>5, <1>6, <1>7, LoopKeeps

-----------------------------------------------------------------------------
(* The promotion.                                                          *)

LEMMA PassedFacts ==
    /\ Passed(0) = {} /\ Passed(Len(Workspaces)) = W
    /\ \A i \in Indices : /\ Passed(i) = Passed(i - 1) \cup {Workspaces[i]}
                          /\ Passed(i) \subseteq W
<1>1. Len(Workspaces) \in Nat
  BY Constants
<1>2. Passed(0) = {}
  BY DEF Passed
<1>3. \A w \in W : \E i \in Indices : w = Workspaces[i]
  BY Constants
<1>4. \A i \in Indices : Workspaces[i] \in W
  BY Constants
<1>5. Passed(Len(Workspaces)) = W
  BY <1>3, <1>4 DEF Passed, Indices
<1>6. ASSUME NEW i \in Indices
      PROVE Passed(i) = Passed(i - 1) \cup {Workspaces[i]} /\ Passed(i) \subseteq W
  <2>1. i \in Nat /\ i >= 1 /\ i <= Len(Workspaces)
    BY <1>1 DEF Indices
  <2>2. 1 .. i = (1 .. (i - 1)) \cup {i}
    BY <2>1
  <2>3. \A j \in 1 .. i : j \in Indices
    BY <1>1, <2>1 DEF Indices
  <2> QED BY <1>4, <2>2, <2>3 DEF Passed
<1> QED BY <1>2, <1>5, <1>6

\* The end of a promotion, however it ends.
LEMMA PromEnds ==
    ASSUME Typed
    PROVE PromoteEnds \in Proms /\ PromoteEnds.pc = "idle" /\ PromoteEnds.i = 1
          /\ PromoteEnds.prepared = <<>>
<1>1. prom \in Proms /\ 1 \in Indices
  BY Constants DEF Typed
<1>2. PICK none \in Seq(Pubs) : none = <<>>
  BY EmptySeq
<1>3. PICK ends : ends = [prom EXCEPT !.pc = "idle", !.i = 1, !.retained = None, !.prepared = none]
  OBVIOUS
<1>4. ends \in Proms /\ ends.pc = "idle" /\ ends.i = 1 /\ ends.prepared = none
  BY <1>1, <1>3 DEF Proms
<1> QED BY <1>2, <1>3, <1>4 DEF PromoteEnds

LEMMA PromoteBeginStep ==
    ASSUME IndexerInv, PromoteBegin
    PROVE IndexerInv'
<1>1. /\ prom.pc = "idle" /\ prom' = [prom EXCEPT !.pc = "lock", !.calls = @ + 1]
      /\ phase = "started"
      /\ UNCHANGED <<tree, gen, db, bound, pub, bundle, profile, lock, loop, phase, incomplete>>
  BY DEF PromoteBegin
<1>2. PICK n \in Nat : n = prom.calls + 1
  BY DEF IndexerInv, Typed, Proms
<1>3. /\ prom' \in Proms /\ prom'.pc = "lock" /\ prom'.i = prom.i
      /\ prom'.prepared = prom.prepared
  <2>1. prom' = [prom EXCEPT !.pc = "lock", !.calls = n]
    BY <1>1, <1>2
  <2> QED BY <2>1 DEF IndexerInv, Typed, Proms
<1> QED BY <1>1, <1>3 DEF IndexerInv, Typed, Started, Mirrors, Mirrored, Active, LoopPlans, PromHolds,
                          PromPrepares, PromPublishes, PromRests, Agreed

\* Nothing is retained unless every workspace has the indexer's profile.
LEMMA PromoteRetainStep ==
    ASSUME IndexerInv, PromoteRetain
    PROVE IndexerInv'
<1>1. /\ prom.pc = "lock" /\ lock = "free"
      /\ UNCHANGED <<tree, gen, db, bound, pub, bundle, profile, loop, phase, incomplete>>
  BY DEF PromoteRetain
<1>2. Typed /\ Started /\ phase # "new" /\ pub \in [W -> Pubs] /\ prom.prepared = <<>>
  BY <1>1 DEF IndexerInv, Started, PromRests
<1>3. CASE ~ \A w \in W : Retainable(w)
  <2>1. prom' = PromoteEnds /\ lock' = lock
    BY <1>3 DEF PromoteRetain
  <2>2. prom' \in Proms /\ prom'.pc = "idle" /\ prom'.i = 1 /\ prom'.prepared = <<>>
    BY <1>2, <2>1, PromEnds
  <2> QED BY <1>1, <2>1, <2>2
          DEF IndexerInv, Typed, Started, Mirrors, Mirrored, Active, LoopPlans, PromHolds,
              PromPrepares, PromPublishes, PromRests, Agreed
<1>4. CASE \A w \in W : Retainable(w)
  <2>1. lock' = "promote" /\ prom' = [prom EXCEPT !.pc = "prepare", !.i = 1, !.retained = pub]
    BY <1>4 DEF PromoteRetain
  <2>2. /\ prom' \in Proms /\ prom'.pc = "prepare" /\ prom'.i = 1 /\ prom'.retained = pub
        /\ prom'.prepared = <<>>
    <3>1. prom \in Proms /\ 1 \in Indices
      BY <1>2, Constants DEF Typed
    <3> QED BY <1>2, <2>1, <3>1 DEF Proms
  <2>3. \A w \in W : pub[w].profile = profile
    BY <1>4 DEF Retainable
  <2>4. loop.pc \notin {"bundle", "build", "publish"}
    BY <1>1 DEF IndexerInv, LoopPlans
  <2>5. Typed'
    BY <1>1, <2>1, <2>2 DEF IndexerInv, Typed
  <2>6. Started' /\ Mirrors' /\ LoopPlans'
    BY <1>1, <1>2, <2>2, <2>4 DEF IndexerInv, Started, Mirrors, Mirrored, Active, LoopPlans
  <2>7. PromHolds' /\ PromPrepares' /\ PromPublishes' /\ PromRests'
    BY <1>1, <1>2, <2>1, <2>2, <2>3 DEF PromHolds, PromPrepares, PromPublishes, PromRests
  <2>8. Agreed'
    BY <1>1, <2>3 DEF Agreed
  <2> QED BY <2>5, <2>6, <2>7, <2>8 DEF IndexerInv
<1> QED BY <1>3, <1>4

\* During a promotion the loop is outside its lock.
LEMMA PromoteAlone ==
    ASSUME IndexerInv, prom.pc \in {"prepare", "publish"}
    PROVE /\ lock = "promote" /\ loop.pc \notin {"bundle", "build", "publish"}
          /\ phase # "new" /\ pub \in [W -> Pubs] /\ prom.retained \in [W -> Pubs]
          /\ prom \in Proms /\ prom.i \in Indices /\ Workspaces[prom.i] \in W
          /\ \A w \in W : prom.retained[w].profile = profile
<1>1. prom \in Proms /\ prom.i \in Indices
  BY DEF IndexerInv, Typed, Proms
<1> QED BY <1>1, Constants DEF IndexerInv, Started, PromHolds, LoopPlans

\* A promotion that gives up before it published leaves the old publications.
LEMMA PromoteStops ==
    ASSUME IndexerInv, prom.pc = "prepare", prom' = PromoteEnds, lock' = "free",
           UNCHANGED <<tree, db, pub, bundle, profile, loop, phase, incomplete>>,
           gen' \in [W -> Gens], bound' \in [W -> Fingerprints], ~Disk => UNCHANGED bound
    PROVE IndexerInv'
<1>1. prom' \in Proms /\ prom'.pc = "idle" /\ prom'.i = 1 /\ prom'.prepared = <<>>
  BY PromEnds DEF IndexerInv
<1>2. /\ phase # "new" /\ pub \in [W -> Pubs] /\ pub = prom.retained
      /\ \A w \in W : prom.retained[w].profile = profile
      /\ loop.pc \notin {"bundle", "build", "publish"}
  BY PromoteAlone DEF IndexerInv, PromPrepares
<1>3. Typed'
  BY <1>1 DEF IndexerInv, Typed
<1>4. Started' /\ LoopPlans'
  BY <1>1, <1>2 DEF IndexerInv, Started, LoopPlans
<1>5. Mirrors'
  BY DEF IndexerInv, Mirrors, Mirrored, Active
<1>6. PromHolds' /\ PromPrepares' /\ PromPublishes' /\ PromRests'
  BY <1>1 DEF PromHolds, PromPrepares, PromPublishes, PromRests
<1>7. Agreed'
  BY <1>2 DEF Agreed
<1> QED BY <1>3, <1>4, <1>5, <1>6, <1>7 DEF IndexerInv

LEMMA PromotePrepareStep ==
    ASSUME IndexerInv, PromotePrepare
    PROVE IndexerInv'
<1> DEFINE w == Workspaces[prom.i]
           last == prom.i = Len(Workspaces)
<1>1. /\ prom.pc = "prepare" /\ lock = "promote" /\ loop.pc \notin {"bundle", "build", "publish"}
      /\ phase # "new" /\ pub \in [W -> Pubs] /\ prom.retained \in [W -> Pubs]
      /\ prom \in Proms /\ prom.i \in Indices /\ w \in W
      /\ \A u \in W : prom.retained[u].profile = profile
  BY PromoteAlone DEF PromotePrepare
<1>2. UNCHANGED <<tree, db, pub, bundle, profile, loop, phase, incomplete>>
  BY DEF PromotePrepare
<1>3. PICK g \in Bundles(w, "full") :
         /\ gen' = [gen EXCEPT ![w] = g] /\ bound' = [bound EXCEPT ![w] = Key(g.fp)]
         /\ \/ /\ prom' = [prom EXCEPT !.prepared = Append(@, Publication(g, "full", TRUE)),
                                       !.pc = IF last THEN "publish" ELSE @,
                                       !.i = IF last THEN 1 ELSE @ + 1]
               /\ UNCHANGED lock
            \/ prom' = PromoteEnds /\ lock' = "free"
  BY DEF PromotePrepare
<1>4. Typed /\ Mirrors /\ g \in Gens
  BY <1>1, BundleGens DEF IndexerInv
<1>5. /\ gen' \in [W -> Gens] /\ bound' \in [W -> Fingerprints] /\ (~Disk => UNCHANGED bound)
  BY <1>1, <1>3, <1>4, BindMoves
<1>6. CASE prom' = PromoteEnds /\ lock' = "free"
  BY <1>1, <1>2, <1>5, <1>6, PromoteStops
<1>7. CASE /\ prom' = [prom EXCEPT !.prepared = Append(@, Publication(g, "full", TRUE)),
                                   !.pc = IF last THEN "publish" ELSE @,
                                   !.i = IF last THEN 1 ELSE @ + 1]
           /\ UNCHANGED lock
  <2> DEFINE made == Append(prom.prepared, Publication(g, "full", TRUE))
             pc == IF last THEN "publish" ELSE "prepare"
             i == IF last THEN 1 ELSE prom.i + 1
  <2>1. Publication(g, "full", TRUE) \in Pubs /\ Publication(g, "full", TRUE).profile = "full"
    BY <1>4, ProfilesFacts, PublicationTyped
  <2>2. /\ prom.prepared \in Seq(Pubs) /\ Len(prom.prepared) = prom.i - 1
        /\ \A j \in 1 .. Len(prom.prepared) : prom.prepared[j].profile = "full"
    BY <1>1 DEF IndexerInv, PromPrepares, PromHolds, Proms
  <2>3. prom.i \in Nat /\ prom.i >= 1 /\ prom.i <= Len(Workspaces) /\ Len(Workspaces) \in Nat
    BY <1>1, Constants
  <2>4. /\ made \in Seq(Pubs) /\ Len(made) = prom.i
        /\ \A j \in 1 .. Len(made) : made[j].profile = "full"
    <3>1. PICK p \in Pubs : p = Publication(g, "full", TRUE)
      BY <2>1
    <3>2. made = Append(prom.prepared, p)
      BY <3>1
    <3> HIDE DEF made
    <3>3. /\ made \in Seq(Pubs) /\ Len(made) = Len(prom.prepared) + 1
          /\ \A j \in 1 .. Len(prom.prepared) : made[j] = prom.prepared[j]
          /\ made[Len(prom.prepared) + 1] = p
      BY <2>2, <3>2, AppendedPub
    <3>4. Len(made) = prom.i
      BY <2>2, <2>3, <3>3
    <3>5. ASSUME NEW j \in 1 .. Len(made) PROVE made[j].profile = "full"
      <4>1. CASE j = Len(made)
        BY <2>1, <3>1, <3>3, <4>1
      <4>2. CASE j # Len(made)
        <5>1. j \in 1 .. Len(prom.prepared)
          BY <2>2, <2>3, <3>3, <4>2
        <5>2. made[j] = prom.prepared[j]
          BY <3>3, <5>1
        <5> QED BY <2>2, <5>1, <5>2
      <4> QED BY <4>1, <4>2
    <3> QED BY <3>3, <3>4, <3>5
  <2>5. i \in Indices /\ pc \in {"prepare", "publish"}
    BY <2>3 DEF Indices
  <2>6. pc = "publish" => i = 1 /\ prom.i = Len(Workspaces)
    OBVIOUS
  <2>7. pc = "prepare" => i = prom.i + 1
    OBVIOUS
  <2>8. prom' = [prom EXCEPT !.prepared = made, !.pc = pc, !.i = i]
    BY <1>1, <1>7
  <2> HIDE DEF made, pc, i, w, last
  <2>9. /\ prom' \in Proms /\ prom'.prepared = made /\ prom'.pc = pc /\ prom'.i = i
        /\ prom'.retained = prom.retained
    BY <1>1, <2>4, <2>5, <2>8 DEF Proms
  <2>10. pub = prom.retained
    BY <1>1 DEF IndexerInv, PromPrepares
  <2>11. Typed'
    BY <1>2, <1>5, <1>7, <2>9 DEF IndexerInv, Typed
  <2>12. Started' /\ LoopPlans' /\ Agreed' /\ PromRests'
    BY <1>1, <1>2, <2>5, <2>9, <2>10 DEF IndexerInv, Started, LoopPlans, Agreed, PromRests
  <2>13. Mirrors'
    BY <1>2, <1>5 DEF IndexerInv, Mirrors, Mirrored, Active
  <2>14. PromHolds'
    BY <1>1, <1>2, <1>7, <2>4, <2>9 DEF PromHolds
  <2>15. PromPrepares'
    BY <1>2, <2>3, <2>4, <2>7, <2>9, <2>10 DEF PromPrepares
  <2>16. PromPublishes'
    <3>1. Passed(1 - 1) = {}
      BY PassedFacts
    <3> QED BY <1>2, <2>4, <2>6, <2>9, <2>10, <3>1 DEF PromPublishes
  <2> QED BY <2>11, <2>12, <2>13, <2>14, <2>15, <2>16 DEF IndexerInv
<1> QED BY <1>3, <1>6, <1>7

LEMMA PromoteGivesUpStep ==
    ASSUME IndexerInv, PromoteGivesUp
    PROVE IndexerInv'
  BY PromoteStops DEF PromoteGivesUp, IndexerInv, Typed

\* One prepared frame is published: one workspace more is FULL, and with the
\* last one the indexer is.
LEMMA PromotePublishStep ==
    ASSUME IndexerInv, PromotePublish
    PROVE IndexerInv'
<1> DEFINE w == Workspaces[prom.i]
           last == prom.i = Len(Workspaces)
           p == prom.prepared[prom.i]
<1>1. /\ prom.pc = "publish" /\ lock = "promote" /\ loop.pc \notin {"bundle", "build", "publish"}
      /\ phase # "new" /\ pub \in [W -> Pubs] /\ prom.retained \in [W -> Pubs]
      /\ prom \in Proms /\ prom.i \in Indices /\ w \in W
      /\ \A u \in W : prom.retained[u].profile = profile
  BY PromoteAlone DEF PromotePublish
<1>2. /\ UNCHANGED <<tree, gen, bound, loop, phase, incomplete>> /\ Publish(w, p)
      /\ profile' = IF last THEN "full" ELSE profile
      /\ prom' = IF last THEN PromoteEnds ELSE [prom EXCEPT !.i = @ + 1]
      /\ lock' = IF last THEN "free" ELSE lock
  BY DEF PromotePublish
<1>3. /\ Len(prom.prepared) = Len(Workspaces)
      /\ \A u \in Passed(prom.i - 1) : pub[u].profile = "full"
      /\ \A u \in W \ Passed(prom.i - 1) : pub[u] = prom.retained[u]
      /\ prom.prepared \in Seq(Pubs)
      /\ \A j \in 1 .. Len(prom.prepared) : prom.prepared[j].profile = "full"
  BY <1>1 DEF IndexerInv, PromPublishes, PromHolds, Proms
<1>4. prom.i \in Nat /\ prom.i >= 1 /\ prom.i <= Len(Workspaces) /\ Len(Workspaces) \in Nat
  BY <1>1, Constants
<1>5. p \in Pubs /\ p.profile = "full"
  BY <1>3, <1>4
<1>6. Typed /\ Started /\ Mirrors
  BY DEF IndexerInv
<1>7. /\ Passed(prom.i) = Passed(prom.i - 1) \cup {w} /\ Passed(Len(Workspaces)) = W
  BY <1>1, PassedFacts
<1> HIDE DEF w, p
<1>8. /\ db' \in [W -> [Fingerprints -> Databases]] /\ pub' \in [W -> Pubs]
      /\ bundle' \in [W -> Fingerprints \cup {None}]
      /\ pub'[w] = p /\ (\A u \in W : u # w => pub'[u] = pub[u])
      /\ Mirrors'
  BY <1>1, <1>2, <1>5, <1>6, PublishMoves
<1>9. /\ \A u \in Passed(prom.i) : pub'[u].profile = "full"
      /\ \A u \in W \ Passed(prom.i) : pub'[u] = prom.retained[u]
  <2>1. Passed(prom.i) \subseteq W
    BY <1>1, PassedFacts
  <2> QED BY <1>3, <1>5, <1>7, <1>8, <2>1
<1>10. CASE last
  <2>1. prom' \in Proms /\ prom'.pc = "idle" /\ prom'.i = 1 /\ prom'.prepared = <<>>
    BY <1>2, <1>6, <1>10, PromEnds
  <2>2. profile' = "full" /\ lock' = "free"
    BY <1>2, <1>10
  <2>3. Typed'
    BY <1>2, <1>8, <2>1, <2>2, ProfilesFacts DEF IndexerInv, Typed
  <2>4. Started' /\ LoopPlans' /\ PromHolds' /\ PromPrepares' /\ PromPublishes' /\ PromRests'
    BY <1>1, <1>2, <1>8, <2>1 DEF Started, LoopPlans, PromHolds, PromPrepares, PromPublishes, PromRests
  <2>5. Agreed'
    BY <1>7, <1>9, <1>10, <2>2 DEF Agreed
  <2> QED BY <1>8, <2>3, <2>4, <2>5 DEF IndexerInv
<1>11. CASE ~last
  <2>1. PICK n \in Indices : n = prom.i + 1
    BY <1>4, <1>11 DEF Indices
  <2>2. prom' = [prom EXCEPT !.i = n] /\ profile' = profile /\ lock' = lock
    BY <1>2, <1>11, <2>1
  <2>3. /\ prom' \in Proms /\ prom'.pc = "publish" /\ prom'.i = n
        /\ prom'.retained = prom.retained /\ prom'.prepared = prom.prepared
    BY <1>1, <2>2 DEF Proms
  <2>4. Typed'
    BY <1>2, <1>8, <2>2, <2>3 DEF IndexerInv, Typed
  <2>5. Started' /\ LoopPlans' /\ PromPrepares' /\ PromRests' /\ Agreed'
    BY <1>1, <1>2, <1>8, <2>3 DEF Started, LoopPlans, PromPrepares, PromRests, Agreed
  <2>6. PromHolds'
    BY <1>1, <1>3, <2>2, <2>3 DEF PromHolds
  <2>7. PromPublishes'
    <3>1. n - 1 = prom.i
      BY <1>4, <2>1
    <3> QED BY <1>3, <1>9, <2>3, <3>1 DEF PromPublishes
  <2> QED BY <1>8, <2>4, <2>5, <2>6, <2>7 DEF IndexerInv
<1> QED BY <1>10, <1>11

\* A rollback restores what the promotion touched, or says that it did not.
LEMMA PromoteRollbackStep ==
    ASSUME IndexerInv, NEW kept \in SUBSET W, PromoteRollback(kept)
    PROVE IndexerInv'
<1>1. /\ prom.pc = "publish" /\ lock = "promote" /\ loop.pc \notin {"bundle", "build", "publish"}
      /\ phase # "new" /\ pub \in [W -> Pubs] /\ prom.retained \in [W -> Pubs]
      /\ prom \in Proms /\ prom.i \in Indices /\ Workspaces[prom.i] \in W
      /\ \A u \in W : prom.retained[u].profile = profile
  BY PromoteAlone DEF PromoteRollback
<1> DEFINE back == Touched \cap kept
<1>2. /\ UNCHANGED <<tree, gen, bound, profile, loop, phase>>
      /\ incomplete' = (incomplete \/ ~(Touched \subseteq kept))
      /\ prom' = PromoteEnds /\ lock' = "free"
      /\ db' = [w \in W |-> IF w \in back
                            THEN [db[w] EXCEPT ![bound[w]] = Published(@, prom.retained[w])]
                            ELSE db[w]]
      /\ pub' = [w \in W |-> IF w \in back THEN prom.retained[w] ELSE pub[w]]
      /\ bundle' = [w \in W |-> IF w \in back THEN prom.retained[w].fp ELSE bundle[w]]
  BY DEF PromoteRollback, Restored
<1>3. Typed /\ Mirrors
  BY DEF IndexerInv
<1>4. Touched = Passed(prom.i) /\ Touched = Passed(prom.i - 1) \cup {Workspaces[prom.i]}
  BY <1>1, PassedFacts DEF Touched, Passed
<1> HIDE DEF back
<1>5. pub' \in [W -> Pubs] /\ \A w \in W : pub'[w] = IF w \in back THEN prom.retained[w] ELSE pub[w]
  BY <1>1, <1>2
<1>6. bundle' \in [W -> Fingerprints \cup {None}]
  <2>1. \A w \in W : prom.retained[w].fp \in Fingerprints /\ bundle[w] \in Fingerprints \cup {None}
    BY <1>1, <1>3 DEF Typed, Pubs
  <2> QED BY <1>2, <2>1
<1>7. \A w \in W : /\ bound[w] \in Fingerprints /\ db[w] \in [Fingerprints -> Databases]
                   /\ Published(db[w][bound[w]], prom.retained[w]) \in Databases
                   /\ Published(db[w][bound[w]], prom.retained[w]).active = prom.retained[w].num
                   /\ Published(db[w][bound[w]], prom.retained[w]).fp = prom.retained[w].fp
                   /\ Published(db[w][bound[w]], prom.retained[w]).done = prom.retained[w].done
  <2> SUFFICES ASSUME NEW w \in W
               PROVE /\ bound[w] \in Fingerprints /\ db[w] \in [Fingerprints -> Databases]
                     /\ Published(db[w][bound[w]], prom.retained[w]) \in Databases
                     /\ Published(db[w][bound[w]], prom.retained[w]).active = prom.retained[w].num
                     /\ Published(db[w][bound[w]], prom.retained[w]).fp = prom.retained[w].fp
                     /\ Published(db[w][bound[w]], prom.retained[w]).done = prom.retained[w].done
    OBVIOUS
  <2>1. bound[w] \in Fingerprints /\ db[w] \in [Fingerprints -> Databases]
    BY <1>3 DEF Typed
  <2>2. prom.retained[w] \in Pubs /\ db[w][bound[w]] \in Databases
    BY <1>1, <2>1
  <2> QED BY <2>1, <2>2, PublishedDb
<1>8. /\ db' \in [W -> [Fingerprints -> Databases]]
      /\ \A w \in W : db'[w][bound[w]] = IF w \in back THEN Published(db[w][bound[w]], prom.retained[w])
                                         ELSE db[w][bound[w]]
  BY <1>2, <1>7
<1>9. Mirrors'
  <2> SUFFICES ASSUME ~Disk, NEW w \in W PROVE Mirrored(w)'
    BY DEF Mirrors
  <2>1. Mirrored(w)
    BY <1>3 DEF Mirrors
  <2>2. CASE w \in back
    BY <1>2, <1>5, <1>7, <1>8, <2>1, <2>2 DEF Mirrored, Active
  <2>3. CASE w \notin back
    BY <1>2, <1>5, <1>8, <2>1, <2>3 DEF Mirrored, Active
  <2> QED BY <2>2, <2>3
<1>10. prom' \in Proms /\ prom'.pc = "idle" /\ prom'.i = 1 /\ prom'.prepared = <<>>
  BY <1>2, <1>3, PromEnds
<1>11. Typed'
  BY <1>2, <1>3, <1>5, <1>6, <1>8, <1>10 DEF Typed
<1>12. Started' /\ LoopPlans' /\ PromHolds' /\ PromPrepares' /\ PromPublishes' /\ PromRests'
  BY <1>1, <1>2, <1>5, <1>10 DEF Started, LoopPlans, PromHolds, PromPrepares, PromPublishes, PromRests
<1>13. Agreed'
  <2> SUFFICES ASSUME ~incomplete', NEW w \in W PROVE pub'[w].profile = profile
    BY <1>2 DEF Agreed
  <2>1. Touched \subseteq kept
    BY <1>2
  <2>2. CASE w \in back
    BY <1>1, <1>5, <2>2
  <2>3. CASE w \notin back
    <3>1. w \notin Passed(prom.i - 1)
      BY <1>4, <2>1, <2>3 DEF back
    <3>2. pub[w] = prom.retained[w]
      BY <1>1, <3>1 DEF IndexerInv, PromPublishes
    <3> QED BY <1>1, <1>5, <2>3, <3>2
  <2> QED BY <2>2, <2>3
<1> QED BY <1>9, <1>11, <1>12, <1>13 DEF IndexerInv

-----------------------------------------------------------------------------
(* Waiters, shutdown and the theorems.                                     *)

LEMMA WaiterStep ==
    ASSUME IndexerInv,
           \E x \in Waiters : (\E w \in W : WaitForTables(x, w)) \/ WaiterReturns(x)
    PROVE IndexerInv'
<1>1. UNCHANGED <<tree, gen, db, bound, pub, bundle, profile, lock, loop, prom, phase, incomplete>>
  BY DEF WaitForTables, WaiterReturns
<1> QED BY <1>1 DEF IndexerInv, Typed, Started, Mirrors, Mirrored, Active, LoopPlans, PromHolds,
                    PromPrepares, PromPublishes, PromRests, Agreed, Passed

\* aclose stops the loop and not a promotion.
LEMMA CloseStep ==
    ASSUME IndexerInv, Close
    PROVE IndexerInv'
<1>1. /\ phase = "started" /\ phase' = "closed"
      /\ loop' = [loop EXCEPT !.pc = "off", !.built = None]
      /\ lock' = (IF lock = "loop" THEN "free" ELSE lock)
      /\ bundle' = [w \in W |-> None]
      /\ UNCHANGED <<tree, gen, db, bound, pub, profile, prom, incomplete>>
  BY DEF Close
<1>2. loop' \in Loops /\ loop'.pc = "off"
  BY <1>1 DEF IndexerInv, Typed, Loops
<1>3. Typed'
  BY <1>1, <1>2 DEF IndexerInv, Typed
<1>4. Started' /\ LoopPlans' /\ Agreed'
  BY <1>1, <1>2 DEF IndexerInv, Started, LoopPlans, Agreed
<1>5. Mirrors'
  BY <1>1 DEF IndexerInv, Mirrors, Mirrored, Active
<1>6. PromHolds' /\ PromPrepares' /\ PromPublishes' /\ PromRests'
  BY <1>1 DEF IndexerInv, PromHolds, PromPrepares, PromPublishes, PromRests, Passed
<1> QED BY <1>3, <1>4, <1>5, <1>6 DEF IndexerInv

THEOREM IndexerInductive == Spec => []IndexerInv
<1>1. Init => IndexerInv
  <2> SUFFICES ASSUME Init PROVE IndexerInv
    OBVIOUS
  <2>1. 0 \in Fingerprints /\ 1 \in Indices
    BY Constants
  <2>2. EmptyDb \in Databases
    BY <2>1 DEF EmptyDb, Databases
  <2>3. \A w \in W : gen[w] \in Gens
    BY <2>1 DEF Init, Gens
  <2>4. gen \in [W -> Gens]
    BY <2>3 DEF Init
  <2>5. db \in [W -> [Fingerprints -> Databases]]
    <3> HIDE DEF EmptyDb
    <3> QED BY <2>2 DEF Init
  <2>6. loop \in Loops /\ loop.pc = "off"
    BY <2>1 DEF Init, NoLoop, Loops
  <2>7. prom \in Proms /\ prom.pc = "idle" /\ prom.i = 1 /\ prom.prepared = <<>>
    <3>1. PICK none \in Seq(Pubs) : none = <<>>
      BY EmptySeq
    <3>2. prom = [pc |-> "idle", i |-> 1, retained |-> None, prepared |-> none, calls |-> 0]
      BY <3>1 DEF Init, NoProm
    <3>3. prom \in Proms /\ prom.pc = "idle" /\ prom.i = 1 /\ prom.prepared = none
      BY <2>1, <3>2 DEF Proms
    <3> QED BY <3>1, <3>3
  <2>8. profile \in Profiles
    BY IndexerAssumption DEF Init
  <2>9. Typed
    BY <2>1, <2>4, <2>5, <2>6, <2>7, <2>8 DEF Init, Typed
  <2>10. Mirrors
    BY DEF Init, Mirrors, Mirrored
  <2> QED BY <2>6, <2>7, <2>9, <2>10
          DEF Init, IndexerInv, Started, LoopPlans, PromHolds, PromPrepares, PromPublishes, PromRests, Agreed
<1>2. IndexerInv /\ [Next]_vars => IndexerInv'
  <2> SUFFICES ASSUME IndexerInv, [Next]_vars PROVE IndexerInv'
    OBVIOUS
  <2>1. CASE UNCHANGED vars
    BY <2>1 DEF vars, IndexerInv, Typed, Started, Mirrors, Mirrored, Active, LoopPlans, PromHolds,
                PromPrepares, PromPublishes, PromRests, Agreed, Passed
  <2>2. CASE LoopStep
    BY <2>2, LoopMoves, LoopBundleStep, LoopBuildStep, LoopPublishStep, LoopFailsStep DEF LoopStep
  <2>3. CASE PromoteStep
    BY <2>3, PromoteRetainStep, PromotePrepareStep, PromoteGivesUpStep, PromotePublishStep,
       PromoteRollbackStep DEF PromoteStep
  <2>4. CASE Next /\ ~LoopStep /\ ~PromoteStep
    BY <2>4, StartStep, EditStep, LoopMoves, PromoteBeginStep, WaiterStep, CloseStep DEF Next
  <2> QED BY <2>1, <2>2, <2>3, <2>4
<1> QED BY <1>1, <1>2, PTL DEF Spec

\* Type correctness of the indexer (catalog/indexer.py).
THEOREM TypeCorrect == Spec => []TypeOK
<1>1. IndexerInv => TypeOK
  BY DEF IndexerInv, Typed, Gens, Pubs, Loops, Proms, TypeOK
<1> QED BY <1>1, IndexerInductive, PTL

\* promote_to_full is atomic over the workspaces unless a rollback said that
\* it was incomplete, whichever step of it fails, is cancelled or meets the
\* background loop or aclose; and a memory catalog's database agrees with the
\* indexer's publication in every state.
THEOREM PromotionIsAtomic == Spec => []PublicationIsAtomic
<1>1. IndexerInv => PublicationIsAtomic
  BY DEF IndexerInv, Agreed, Mirrors, Mirrored, PublicationIsAtomic
<1> QED BY <1>1, IndexerInductive, PTL
=============================================================================
