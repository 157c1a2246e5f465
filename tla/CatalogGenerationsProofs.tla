---------------------- MODULE CatalogGenerationsProofs ----------------------
(* Proofs about the catalog's generations and projections, for all constants. *)
EXTENDS CatalogGenerations, TLAPS

\* A chunk of a snapshot's file.
ChunkOf(c, snap) ==
    /\ c.digest = snap[c.path] /\ c.digest # 0
    /\ c.kind = "generic" => EligibleForChunks(c.path, c.digest)
    /\ c.kind = "sql" => c.path \in Sql /\ c.digest \notin Empty

\* The facts of a snapshot, of one project.
Describes(facts, snap, project) ==
    \A f \in facts : f.digest = snap[f.path] /\ f.digest # 0 /\ f.project = project

\* A generation that mixes no sources.
Sound(g) ==
    /\ g \in Generations
    /\ WellCut(g.chunks, g.snap)
    /\ Describes(g.facts, g.snap, ProjectOf(g))

\* Projections, each of its own fingerprint.
SoundStore(st) ==
    /\ st \in [Snapshots -> Projections \cup {None}]
    /\ \A s \in Snapshots : st[s] # None => st[s].g.snap = s /\ Sound(st[s].g)

\* A pass works on files of its generation, and everything the builder has
\* parsed while it runs is of that generation too.
Jobs == [g : Generations, todo : SUBSET Supported, got : SUBSET Supported, sql : BOOLEAN,
         warn : BOOLEAN, cut : BOOLEAN]
SoundJob ==
    /\ job \in Jobs
    /\ Sound(job.g)
    /\ \A p \in job.todo \cup job.got : job.g.snap[p] # 0
    /\ \A p \in Supported : extracted[p] \in {0, job.g.snap[p]}
SoundTsJob == tsJob \in [g : Generations, live : BOOLEAN] /\ Sound(tsJob.g)

\* The invariant: whatever may become the hot generation mixes no sources.
Typed ==
    /\ files \in Snapshots
    /\ cap \in Snapshots \cup {None}
    /\ base \in Snapshots \cup {None}
    /\ extracted \in [Supported -> Digests]
    /\ settled \in Snapshots \cup {None}
    /\ tsDone \in {"unset", "todo", "done"}
SoundGen == gen # None => Sound(gen) /\ store[gen.snap] # None
CatalogInv ==
    /\ Typed
    /\ SoundGen
    /\ job # None => SoundJob
    /\ tsJob # None => SoundTsJob
    /\ SoundStore(store)

-----------------------------------------------------------------------------
(* Generations.                                                            *)

\* Paths and digests.
LEMMA Domains ==
    /\ Supported \subseteq Paths /\ Manifest \in Paths /\ Code \subseteq Paths /\ Sql \subseteq Supported
    /\ 0 \in Digests /\ Digests \subseteq Nat /\ MaxDigest \in Nat /\ 1 \in Digests
    /\ \A s \in Snapshots : \A p \in Paths : s[p] \in Digests
    /\ \A s \in Snapshots : Files(s) \subseteq Paths
  BY CatalogAssumption DEF Supported, Paths, Digests, Snapshots, Files

\* The retrieval chunks of some of a snapshot's files.
LEMMA GenericProperties ==
    ASSUME NEW s \in Snapshots, NEW paths \in SUBSET Paths
    PROVE /\ GenericChunks(s, paths) \subseteq Chunks
          /\ \A c \in GenericChunks(s, paths) :
                /\ c.path \in paths /\ c.path \in Files(s) /\ ChunkOf(c, s)
          /\ \A p \in paths \cap Files(s) :
                (\E c \in GenericChunks(s, paths) : c.path = p) \/ Bare(p, s[p])
          /\ \A c, d \in GenericChunks(s, paths) : c.path = d.path => c = d
<1>1. ASSUME NEW c \in GenericChunks(s, paths)
      PROVE \E p \in paths \cap Files(s) :
              /\ EligibleForChunks(p, s[p])
              /\ c = [path |-> p, digest |-> s[p], kind |-> "generic"]
  BY DEF GenericChunks
<1>2. ASSUME NEW p \in paths \cap Files(s), EligibleForChunks(p, s[p])
      PROVE [path |-> p, digest |-> s[p], kind |-> "generic"] \in GenericChunks(s, paths)
  BY <1>2 DEF GenericChunks
<1>3. \A p \in paths \cap Files(s) : p \in Paths /\ s[p] \in Digests /\ s[p] # 0
  BY Domains DEF Files
<1>4. \A c \in GenericChunks(s, paths) :
         /\ c.path \in paths /\ c.path \in Files(s) /\ ChunkOf(c, s) /\ c \in Chunks
  <2> SUFFICES ASSUME NEW c \in GenericChunks(s, paths)
               PROVE /\ c.path \in paths /\ c.path \in Files(s) /\ ChunkOf(c, s)
                     /\ c \in Chunks
    OBVIOUS
  <2>1. PICK p \in paths \cap Files(s) :
          /\ EligibleForChunks(p, s[p])
          /\ c = [path |-> p, digest |-> s[p], kind |-> "generic"]
    BY <1>1
  <2>2. c.path = p /\ c.digest = s[p] /\ c.kind = "generic"
    BY <2>1
  <2> QED BY <1>3, <2>1, <2>2 DEF Chunks, ChunkOf
<1>5. \A c, d \in GenericChunks(s, paths) : c.path = d.path => c = d
  <2> SUFFICES ASSUME NEW c \in GenericChunks(s, paths), NEW d \in GenericChunks(s, paths),
                      c.path = d.path
               PROVE c = d
    OBVIOUS
  <2>1. PICK p \in paths \cap Files(s) : c = [path |-> p, digest |-> s[p], kind |-> "generic"]
    BY <1>1
  <2>2. PICK q \in paths \cap Files(s) : d = [path |-> q, digest |-> s[q], kind |-> "generic"]
    BY <1>1
  <2> QED BY <2>1, <2>2
<1>6. \A p \in paths \cap Files(s) :
         (\E c \in GenericChunks(s, paths) : c.path = p) \/ Bare(p, s[p])
  BY <1>2 DEF Bare
<1> QED BY <1>4, <1>5, <1>6

\* A base generation and a full one of a snapshot have its chunks and no facts.
LEMMA BuildSound ==
    ASSUME NEW s \in Snapshots, NEW n \in Nat
    PROVE /\ Sound(BuildBase(s, n)) /\ BuildBase(s, n).snap = s
          /\ Sound(Build(s, n)) /\ Build(s, n).snap = s /\ Build(s, n).full = TRUE
<1>1. GenericChunks(s, Paths) \subseteq Chunks /\ WellCut(GenericChunks(s, Paths), s)
  <2>1. Files(s) \subseteq Paths
    BY Domains
  <2> QED BY <2>1, GenericProperties DEF WellCut, ChunkOf
<1> DEFINE base0 == BuildBase(s, n)
           build == Build(s, n)
<1>2. /\ base0 \in Generations /\ base0.snap = s
      /\ base0.chunks = GenericChunks(s, Paths) /\ base0.facts = {}
  BY <1>1 DEF BuildBase, Generations
<1>3. /\ build \in Generations /\ build.snap = s /\ build.full = TRUE
      /\ build.chunks = GenericChunks(s, Paths) /\ build.facts = {}
  <2>1. build = [base0 EXCEPT !.full = TRUE]
    BY DEF Build
  <2> HIDE DEF base0, build
  <2> QED BY <1>2, <2>1 DEF Generations
<1> HIDE DEF base0, build
<1>4. Sound(base0) /\ Sound(build)
  BY <1>1, <1>2, <1>3 DEF Sound, Describes
<1> QED BY <1>2, <1>3, <1>4 DEF base0, build

\* Chunks that come from two sources, each of which covers the paths it gives.
LEMMA MixedChunks ==
    ASSUME NEW s \in Snapshots, NEW A, NEW B,
           \A c \in A \cup B : ChunkOf(c, s),
           \A c, d \in A : c.path = d.path => c = d,
           \A c, d \in B : c.path = d.path => c = d,
           \A c \in A, d \in B : c.path # d.path,
           \A p \in Files(s) : (\E c \in A \cup B : c.path = p) \/ Bare(p, s[p])
    PROVE WellCut(A \cup B, s)
  BY DEF WellCut, ChunkOf

\* update: what an unchanged file keeps and what a changed one gets anew.
LEMMA UpdateSound ==
    ASSUME NEW cur, Sound(cur), NEW s \in Snapshots, NEW n \in Nat
    PROVE Sound(Update(cur, s, n)) /\ Update(cur, s, n).snap = s
<1> DEFINE changed == ChangedPaths(cur.snap, s)
           unchanged == Files(s) \ changed
           kept == {c \in cur.chunks : c.kind = "generic" /\ c.path \notin changed}
                   \cup {c \in cur.chunks : c.kind = "sql" /\ c.path \in unchanged}
           new == GenericChunks(s, changed)
           facts == Retained(cur, s, unchanged)
<1>0. /\ cur.snap \in Snapshots /\ cur.chunks \subseteq Chunks /\ cur.facts \subseteq Facts
      /\ cur \in Generations /\ WellCut(cur.chunks, cur.snap)
      /\ Describes(cur.facts, cur.snap, ProjectOf(cur))
  BY DEF Sound, Generations
<1>1. /\ changed \in SUBSET Paths
      /\ \A p \in Paths : p \notin changed => cur.snap[p] = s[p]
      /\ \A p \in Paths : p \in unchanged <=> p \notin changed /\ s[p] # 0
  BY DEF ChangedPaths, Files
<1>2. /\ new \subseteq Chunks
      /\ \A c \in new : c.path \in changed /\ c.path \in Files(s) /\ ChunkOf(c, s)
      /\ \A p \in changed \cap Files(s) : (\E c \in new : c.path = p) \/ Bare(p, s[p])
      /\ \A c, d \in new : c.path = d.path => c = d
  BY <1>1, GenericProperties
<1>3. \A c \in cur.chunks : c.path \in Paths /\ c.kind \in {"generic", "sql"}
                            /\ ChunkOf(c, cur.snap)
  BY <1>0 DEF Chunks, WellCut, ChunkOf
<1>4. \A c \in cur.chunks : c \in kept <=> c.path \notin changed
  BY <1>1, <1>3 DEF ChunkOf
<1>5. \A c \in kept : c \in cur.chunks /\ c.path \notin changed
  BY <1>1, <1>4
<1> HIDE DEF kept, new, changed, unchanged
<1>6. \A c \in kept \cup new : ChunkOf(c, s)
  <2>1. \A c \in kept : ChunkOf(c, s)
    BY <1>1, <1>3, <1>5 DEF ChunkOf
  <2> QED BY <1>2, <2>1
<1>7. \A c, d \in kept : c.path = d.path => c = d
  BY <1>0, <1>5 DEF WellCut
<1>8. \A c \in kept, d \in new : c.path # d.path
  BY <1>2, <1>5
<1>9. ASSUME NEW p \in Files(s)
      PROVE (\E c \in kept \cup new : c.path = p) \/ Bare(p, s[p])
  <2>0. p \in Paths /\ s[p] # 0
    BY DEF Files
  <2>1. CASE p \in changed
    BY <1>2, <2>1
  <2>2. CASE p \notin changed
    <3>1. p \in Files(cur.snap)
      BY <1>1, <2>0, <2>2 DEF Files
    <3>2. (\E c \in cur.chunks : c.path = p) \/ Bare(p, cur.snap[p])
      BY <1>0, <3>1 DEF WellCut
    <3>3. cur.snap[p] = s[p]
      BY <1>1, <2>0, <2>2
    <3> QED BY <1>4, <2>2, <3>2, <3>3
  <2> QED BY <2>1, <2>2
<1>10. WellCut(kept \cup new, s)
  BY <1>2, <1>6, <1>7, <1>8, <1>9, MixedChunks
<1>11. kept \cup new \in SUBSET Chunks
  BY <1>0, <1>2, <1>5
<1>12. facts \in SUBSET Facts /\ Describes(facts, s, s[Manifest])
  <2> SUFFICES ASSUME NEW f \in facts
               PROVE f \in Facts /\ f.digest = s[f.path] /\ f.digest # 0 /\ f.project = s[Manifest]
    BY DEF Describes
  <2>1. PICK g \in cur.facts : g.path \in unchanged /\ f = [g EXCEPT !.project = s[Manifest]]
    BY DEF Retained, Rebind
  <2>2. g \in Facts /\ g.digest = cur.snap[g.path] /\ g.digest # 0
    BY <1>0 DEF Describes
  <2>3. g.path \in Paths /\ cur.snap[g.path] = s[g.path]
    BY <1>1, <2>1, <2>2, Domains DEF Facts
  <2>4. s[Manifest] \in Digests
    BY Domains
  <2>5. f \in Facts /\ f.path = g.path /\ f.digest = g.digest /\ f.project = s[Manifest]
    BY <2>1, <2>2, <2>4 DEF Facts
  <2> QED BY <2>2, <2>3, <2>5
<1> HIDE DEF facts
<1>13. Update(cur, s, n) = [Build(s, n) EXCEPT !.chunks = kept \cup new, !.facts = facts]
  <2>1. Update(cur, s, n) = [Build(s, n) EXCEPT !.chunks =
            {c \in cur.chunks : c.kind = "generic" /\ c.path \notin changed} \cup new
            \cup {c \in cur.chunks : c.kind = "sql" /\ c.path \in unchanged}, !.facts = facts]
    BY DEF Update, changed, unchanged, new, facts
  <2>2. {c \in cur.chunks : c.kind = "generic" /\ c.path \notin changed} \cup new
            \cup {c \in cur.chunks : c.kind = "sql" /\ c.path \in unchanged} = kept \cup new
    BY DEF kept
  <2> QED BY <2>1, <2>2
<1>14. /\ Build(s, n) \in Generations /\ Build(s, n).snap = s
       /\ ProjectOf(Build(s, n)) = s[Manifest]
  BY BuildSound DEF Sound, ProjectOf
<1> DEFINE h == Update(cur, s, n)
<1>15. /\ h \in Generations /\ h.chunks = kept \cup new /\ h.facts = facts
       /\ h.snap = s /\ ProjectOf(h) = s[Manifest]
  <2> DEFINE chunks == kept \cup new
  <2>1. chunks \in SUBSET Chunks /\ facts \in SUBSET Facts
    BY <1>11, <1>12
  <2>2. h = [Build(s, n) EXCEPT !.chunks = chunks, !.facts = facts]
    BY <1>13
  <2> HIDE DEF chunks, h
  <2> DEFINE b == Build(s, n)
  <2>3. b \in Generations /\ b.snap = s /\ ProjectOf(b) = s[Manifest]
    BY <1>14
  <2> HIDE DEF b
  <2>4. h \in Generations /\ h.chunks = chunks /\ h.facts = facts
    BY <2>1, <2>2, <2>3 DEF Generations, b
  <2>5. h.snap = b.snap /\ h.full = b.full
    BY <2>2, <2>3 DEF Generations, b
  <2> QED BY <2>3, <2>4, <2>5 DEF chunks, ProjectOf
<1> HIDE DEF h
<1>16. Sound(h)
  BY <1>10, <1>12, <1>15 DEF Sound
<1> QED BY <1>15, <1>16 DEF h

\* merge: the parsed paths, which are files of the snapshot, change hands.
LEMMA MergeSound ==
    ASSUME NEW g, Sound(g), NEW got \in SUBSET Supported, \A p \in got : g.snap[p] # 0
    PROVE Sound(Merge(g, got)) /\ Merge(g, got).snap = g.snap
<1> DEFINE sql == got \cap Sql
           old == {f \in g.facts : f.path \notin got}
           fact(p) == [path |-> p, digest |-> g.snap[p], project |-> ProjectOf(g)]
           parsed == {fact(p) : p \in got}
           left == {c \in g.chunks : c.path \notin sql}
           chunk(p) == [path |-> p, digest |-> g.snap[p], kind |-> "sql"]
           texts == {p \in sql : g.snap[p] \notin Empty}
           cut == {chunk(p) : p \in texts}
<1>0. /\ g \in Generations /\ g.snap \in Snapshots /\ g.chunks \subseteq Chunks /\ g.facts \subseteq Facts
      /\ WellCut(g.chunks, g.snap) /\ Describes(g.facts, g.snap, ProjectOf(g))
  BY DEF Sound, Generations
<1>1. \A p \in got : p \in Supported /\ p \in Paths /\ g.snap[p] \in Digests /\ g.snap[p] # 0
  BY <1>0, Domains
<1>2. ProjectOf(g) \in Digests
  BY <1>0, Domains DEF ProjectOf
<1>3. old \cup parsed \in SUBSET Facts /\ Describes(old \cup parsed, g.snap, ProjectOf(g))
  <2>1. \A f \in parsed : \E p \in got : f = fact(p)
    OBVIOUS
  <2>2. ASSUME NEW f \in old \cup parsed
        PROVE f \in Facts /\ f.digest = g.snap[f.path] /\ f.digest # 0 /\ f.project = ProjectOf(g)
    <3>1. CASE f \in old
      BY <1>0, <3>1 DEF Describes
    <3>2. CASE f \in parsed
      <4>1. PICK p \in got : f = fact(p)
        BY <2>1, <3>2
      <4> QED BY <1>1, <1>2, <4>1 DEF Facts
    <3> QED BY <2>2, <3>1, <3>2
  <2> QED BY <2>2 DEF Describes
<1>4. ASSUME NEW c \in cut
      PROVE c \in Chunks /\ ChunkOf(c, g.snap) /\ c.path \in sql
  <2>1. PICK p \in texts : c = chunk(p)
    OBVIOUS
  <2>2. c.path = p /\ c.digest = g.snap[p] /\ c.kind = "sql"
    BY <2>1
  <2>3. c \in Chunks
    BY <1>1, <2>1 DEF Chunks
  <2> QED BY <1>1, <2>2, <2>3 DEF ChunkOf
<1>5. \A c, d \in cut : c.path = d.path => c = d
  <2> SUFFICES ASSUME NEW c \in cut, NEW d \in cut, c.path = d.path PROVE c = d
    OBVIOUS
  <2>1. PICK p \in texts : c = chunk(p)
    OBVIOUS
  <2>2. PICK q \in texts : d = chunk(q)
    OBVIOUS
  <2> QED BY <2>1, <2>2
<1>6. \A p \in sql : (\E c \in cut : c.path = p) \/ Bare(p, g.snap[p])
  <2> SUFFICES ASSUME NEW p \in sql, ~Bare(p, g.snap[p]) PROVE \E c \in cut : c.path = p
    OBVIOUS
  <2>1. p \in texts
    BY DEF Bare
  <2>2. chunk(p) \in cut /\ chunk(p).path = p
    BY <2>1
  <2> QED BY <2>2
<1>7. \A c \in left : c \in g.chunks /\ c.path \notin sql
  OBVIOUS
<1>8. \A c \in g.chunks : c.path \notin sql => c \in left
  OBVIOUS
<1> HIDE DEF cut, left, texts, sql
<1>9. WellCut(left \cup cut, g.snap)
  <2>1. \A c \in left \cup cut : ChunkOf(c, g.snap)
    BY <1>0, <1>4, <1>7 DEF WellCut, ChunkOf
  <2>2. \A c, d \in left : c.path = d.path => c = d
    BY <1>0, <1>7 DEF WellCut
  <2>3. \A c \in left, d \in cut : c.path # d.path
    BY <1>4, <1>7
  <2>4. \A p \in Files(g.snap) : (\E c \in left \cup cut : c.path = p) \/ Bare(p, g.snap[p])
    BY <1>0, <1>6, <1>8 DEF WellCut
  <2> QED BY <1>0, <1>5, <2>1, <2>2, <2>3, <2>4, MixedChunks
<1>10. left \cup cut \in SUBSET Chunks
  BY <1>0, <1>4, <1>7
<1> HIDE DEF old, parsed
<1>11. Merge(g, got) = [g EXCEPT !.chunks = left \cup cut, !.facts = old \cup parsed]
  BY <1>0 DEF Merge, Generations, left, cut, texts, sql, old, parsed
<1> DEFINE h == Merge(g, got)
<1>12. /\ h \in Generations /\ h.chunks = left \cup cut /\ h.facts = old \cup parsed
       /\ h.snap = g.snap /\ ProjectOf(h) = ProjectOf(g)
  <2> DEFINE chunks == left \cup cut
             facts == old \cup parsed
  <2>1. chunks \in SUBSET Chunks /\ facts \in SUBSET Facts
    BY <1>3, <1>10
  <2>2. h = [g EXCEPT !.chunks = chunks, !.facts = facts]
    BY <1>11
  <2> HIDE DEF chunks, facts, h
  <2>3. h \in Generations /\ h.chunks = chunks /\ h.facts = facts
    BY <1>0, <2>1, <2>2 DEF Generations
  <2>4. h.snap = g.snap /\ h.full = g.full
    BY <1>0, <2>2 DEF Generations
  <2> QED BY <2>3, <2>4 DEF chunks, facts, ProjectOf
<1> HIDE DEF h
<1>13. Sound(h)
  BY <1>3, <1>9, <1>12 DEF Sound
<1> QED BY <1>12, <1>13 DEF h

\* A generation with another number and TypeScript facts or none.
LEMMA RenumberedSound ==
    ASSUME NEW g, Sound(g), NEW ok \in BOOLEAN
    PROVE /\ Sound([g EXCEPT !.num = @ + 1]) /\ [g EXCEPT !.num = @ + 1].snap = g.snap
          /\ Sound([g EXCEPT !.num = @ + 1, !.ts = ok \/ @])
          /\ [g EXCEPT !.num = @ + 1, !.ts = ok \/ @].snap = g.snap
<1> DEFINE h == [g EXCEPT !.num = @ + 1]
           k == [g EXCEPT !.num = @ + 1, !.ts = ok \/ @]
<1>0. g \in Generations
  BY DEF Sound
<1>1. /\ h \in Generations /\ h.snap = g.snap /\ h.full = g.full
      /\ h.chunks = g.chunks /\ h.facts = g.facts
  BY <1>0 DEF Generations
<1>2. /\ k \in Generations /\ k.snap = g.snap /\ k.full = g.full
      /\ k.chunks = g.chunks /\ k.facts = g.facts
  <2> DEFINE num == g.num + 1
             ts == ok \/ g.ts
  <2>1. num \in Nat /\ ts \in BOOLEAN
    BY <1>0 DEF Generations
  <2>2. k = [g EXCEPT !.num = num, !.ts = ts]
    OBVIOUS
  <2> HIDE DEF num, ts, k
  <2>3. k \in Generations
    BY <1>0, <2>1, <2>2 DEF Generations
  <2> QED BY <1>0, <2>2, <2>3 DEF Generations
<1> HIDE DEF h, k
<1>3. Sound(h) /\ Sound(k)
  BY <1>1, <1>2 DEF Sound, ProjectOf
<1> QED BY <1>1, <1>2, <1>3 DEF h, k

-----------------------------------------------------------------------------
(* The projection.                                                         *)

\* publish, full or incremental, leaves a projection of the generation's own
\* fingerprint and touches no other.
LEMMA PublishedSound ==
    ASSUME NEW st, SoundStore(st), NEW g, Sound(g), NEW previous, NEW changed
    PROVE /\ SoundStore(Published(st, g, previous, changed))
          /\ Published(st, g, previous, changed)[g.snap] # None
          /\ \A s \in Snapshots : st[s] # None => Published(st, g, previous, changed)[s] # None
<1> DEFINE old == st[g.snap]
           stays == {c \in old.g.chunks : c.path \notin changed}
           comes == {c \in g.chunks : c.path \in changed}
           chunks == IF old # None /\ previous = g.snap THEN stays \cup comes ELSE g.chunks
           h == [g EXCEPT !.chunks = chunks]
           pub == IF old = None THEN 0 ELSE old.pub
           done == old # None /\ old.done
           row == [g |-> h, pub |-> pub, done |-> done]
<1>0. /\ g \in Generations /\ g.snap \in Snapshots /\ g.chunks \subseteq Chunks
      /\ WellCut(g.chunks, g.snap) /\ Describes(g.facts, g.snap, ProjectOf(g))
  BY DEF Sound, Generations
<1>1. old # None => old \in Projections /\ old.g.snap = g.snap /\ Sound(old.g)
  BY <1>0 DEF SoundStore
<1>2. chunks \subseteq Chunks /\ WellCut(chunks, g.snap)
  <2>1. CASE old # None /\ previous = g.snap
    <3>1. old.g.chunks \subseteq Chunks /\ WellCut(old.g.chunks, g.snap)
      BY <1>1, <2>1 DEF Sound, Generations
    <3>2. \A c \in stays : c \in old.g.chunks /\ c.path \notin changed
      OBVIOUS
    <3>3. \A c \in comes : c \in g.chunks /\ c.path \in changed
      OBVIOUS
    <3>4. \A p \in Files(g.snap) : (\E c \in stays \cup comes : c.path = p) \/ Bare(p, g.snap[p])
      <4> SUFFICES ASSUME NEW p \in Files(g.snap), ~Bare(p, g.snap[p])
                   PROVE \E c \in stays \cup comes : c.path = p
        OBVIOUS
      <4>1. PICK c \in old.g.chunks : c.path = p
        BY <3>1 DEF WellCut
      <4>2. PICK d \in g.chunks : d.path = p
        BY <1>0 DEF WellCut
      <4>3. c \in stays \/ d \in comes
        BY <4>1, <4>2
      <4> QED BY <4>1, <4>2, <4>3
    <3> HIDE DEF stays, comes
    <3>5. \A c \in stays \cup comes : ChunkOf(c, g.snap)
      BY <1>0, <3>1, <3>2, <3>3 DEF WellCut, ChunkOf
    <3>6. /\ \A c, d \in stays : c.path = d.path => c = d
          /\ \A c, d \in comes : c.path = d.path => c = d
          /\ \A c \in stays, d \in comes : c.path # d.path
      BY <1>0, <3>1, <3>2, <3>3 DEF WellCut
    <3>7. WellCut(stays \cup comes, g.snap)
      BY <1>0, <3>4, <3>5, <3>6, MixedChunks
    <3> QED BY <1>0, <2>1, <3>1, <3>2, <3>3, <3>7
  <2>2. CASE ~(old # None /\ previous = g.snap)
    BY <1>0, <2>2
  <2> QED BY <2>1, <2>2
<1>3. Published(st, g, previous, changed) = [st EXCEPT ![g.snap] = row]
  BY DEF Published
<1> HIDE DEF chunks
<1>4. /\ h \in Generations /\ h.chunks = chunks /\ h.facts = g.facts
      /\ h.snap = g.snap /\ h.full = g.full
  BY <1>0, <1>2 DEF Generations
<1>5. Sound(h)
  <2> HIDE DEF h
  <2> QED BY <1>0, <1>2, <1>4 DEF Sound, ProjectOf
<1>6. pub \in Nat /\ done \in BOOLEAN
  <2>1. pub \in Nat
    BY <1>1 DEF Projections
  <2>2. done \in BOOLEAN
    OBVIOUS
  <2> QED BY <2>1, <2>2
<1> HIDE DEF h, pub, done
<1>7. row \in Projections /\ row.g = h
  BY <1>4, <1>6 DEF Projections
<1>8. row # None
  BY <1>7, NoProjectionAssumption
<1> HIDE DEF row
<1> DEFINE new == [st EXCEPT ![g.snap] = row]
<1>9. /\ new \in [Snapshots -> Projections \cup {None}] /\ new[g.snap] = row
      /\ \A s \in Snapshots : s # g.snap => new[s] = st[s]
  BY <1>0, <1>7 DEF SoundStore
<1> HIDE DEF new
<1>10. SoundStore(new)
  BY <1>4, <1>5, <1>7, <1>9 DEF SoundStore
<1>11. new[g.snap] # None /\ \A s \in Snapshots : st[s] # None => new[s] # None
  BY <1>8, <1>9
<1> QED BY <1>3, <1>10, <1>11 DEF new

\* A publication beside a projection leaves its generation alone.
Marked(st, s, n, done) == [st EXCEPT ![s] = [st[s] EXCEPT !.pub = n, !.done = done]]

LEMMA MarkedSound ==
    ASSUME NEW st, SoundStore(st), NEW s \in Snapshots, st[s] # None, NEW n \in Nat,
           NEW done \in BOOLEAN
    PROVE /\ SoundStore(Marked(st, s, n, done))
          /\ \A u \in Snapshots : st[u] # None => Marked(st, s, n, done)[u] # None
<1> DEFINE row == [st[s] EXCEPT !.pub = n, !.done = done]
           new == Marked(st, s, n, done)
<1>1. st[s] \in Projections /\ st[s].g.snap = s /\ Sound(st[s].g)
  BY DEF SoundStore
<1>2. row \in Projections /\ row.g = st[s].g
  BY <1>1 DEF Projections
<1>3. row # None
  BY <1>2, NoProjectionAssumption
<1>4. new = [st EXCEPT ![s] = row]
  BY DEF Marked
<1> HIDE DEF row, new
<1>5. /\ new \in [Snapshots -> Projections \cup {None}] /\ new[s] = row
      /\ \A u \in Snapshots : u # s => new[u] = st[u]
  BY <1>2, <1>4 DEF SoundStore
<1>6. SoundStore(new)
  BY <1>1, <1>2, <1>5 DEF SoundStore
<1> QED BY <1>3, <1>5, <1>6 DEF new

LEMMA MaterializedSound ==
    ASSUME NEW st, SoundStore(st), NEW g, Sound(g), st[g.snap] # None
    PROVE /\ SoundStore(Materialized(st, g))
          /\ \A u \in Snapshots : st[u] # None => Materialized(st, g)[u] # None
<1>1. g.snap \in Snapshots /\ g.num \in Nat
  BY DEF Sound, Generations
<1>2. CASE settled = g.snap
  <2>1. Materialized(st, g) = Marked(st, g.snap, g.num, TRUE)
    BY <1>2 DEF Materialized, Marked
  <2> QED BY <1>1, <2>1, MarkedSound
<1>3. CASE settled # g.snap
  BY <1>3 DEF Materialized
<1> QED BY <1>2, <1>3

-----------------------------------------------------------------------------
(* The builder's answers.                                                  *)

\* What catalog_for_bundle and its callers hand on for captured bytes: a
\* generation of exactly these bytes that is in the store.
Fits(r, c) ==
    /\ Sound(r.g) /\ r.g.snap = c
    /\ SoundStore(r.st) /\ r.st[c] # None
    /\ \A s \in Snapshots : store[s] # None => r.st[s] # None
    /\ r.fresh \in BOOLEAN

LEMMA ForBundleFits ==
    ASSUME CatalogInv, NEW c \in Snapshots
    PROVE Fits(ForBundle(c), c)
<1>1. CASE gen # None /\ gen.snap = c
  <2>1. ForBundle(c) = [g |-> gen, st |-> store, fresh |-> FALSE]
    BY <1>1 DEF ForBundle
  <2> QED BY <1>1, <2>1 DEF Fits, CatalogInv, SoundGen
<1>2. CASE ~(gen # None /\ gen.snap = c)
  <2> DEFINE g == IF gen = None THEN Build(c, 1) ELSE Update(gen, c, gen.num + 1)
             previous == IF gen = None THEN None ELSE gen.snap
             changed == IF gen = None THEN Files(c) ELSE ChangedPaths(gen.snap, c)
  <2>1. ForBundle(c) = [g |-> g, st |-> Published(store, g, previous, changed), fresh |-> TRUE]
    BY <1>2 DEF ForBundle
  <2>2. Sound(g) /\ g.snap = c
    <3>1. CASE gen = None
      BY <3>1, BuildSound
    <3>2. CASE gen # None
      <4>1. Sound(gen) /\ gen.num + 1 \in Nat
        BY <3>2 DEF CatalogInv, SoundGen, Sound, Generations
      <4> QED BY <3>2, <4>1, UpdateSound
    <3> QED BY <3>1, <3>2
  <2> HIDE DEF g, previous, changed
  <2>3. SoundStore(store)
    BY DEF CatalogInv
  <2> QED BY <2>1, <2>2, <2>3, PublishedSound DEF Fits
<1> QED BY <1>1, <1>2

LEMMA ResolveFits ==
    ASSUME CatalogInv, NEW c \in Snapshots
    PROVE Fits(Resolve(c), c)
<1>1. CASE cap = None /\ store[c] # None
  <2>1. Resolve(c) = [g |-> store[c].g, st |-> store, fresh |-> FALSE]
    BY <1>1 DEF Resolve, Load
  <2> QED BY <1>1, <2>1 DEF Fits, CatalogInv, SoundStore
<1>2. CASE ~(cap = None /\ store[c] # None)
  <2>1. Resolve(c) = ForBundle(c)
    BY <1>2 DEF Resolve
  <2> QED BY <2>1, ForBundleFits
<1> QED BY <1>1, <1>2

LEMMA ExpandFits ==
    ASSUME NEW r, NEW c \in Snapshots, Fits(r, c)
    PROVE Fits(Expand(r), c)
<1>1. CASE base # r.g.snap
  BY <1>1 DEF Expand
<1>2. CASE base = r.g.snap
  <2> DEFINE g == Build(r.g.snap, r.g.num + 1)
  <2>1. Expand(r) = [g |-> g, st |-> Published(r.st, g, None, {}), fresh |-> r.fresh]
    BY <1>2 DEF Expand
  <2>2. r.g.num + 1 \in Nat /\ r.g.snap = c
    BY DEF Fits, Sound, Generations
  <2>3. Sound(g) /\ g.snap = c
    BY <2>2, BuildSound
  <2> HIDE DEF g
  <2>4. SoundStore(r.st) /\ r.fresh \in BOOLEAN
        /\ \A s \in Snapshots : store[s] # None => r.st[s] # None
    BY DEF Fits
  <2> QED BY <2>1, <2>3, <2>4, PublishedSound DEF Fits
<1> QED BY <1>1, <1>2

\* A capture reads whole files: of each path an old digest or the current one.
LEMMA CapturedSnapshots ==
    ASSUME CatalogInv, NEW v, NEW c \in Captured(v)
    PROVE c \in Snapshots
<1>1. files \in Snapshots /\ cap \in Snapshots \cup {None}
  BY DEF CatalogInv, Typed
<1>2. CASE v \/ cap = None
  BY <1>1, <1>2 DEF Captured
<1>3. CASE ~(v \/ cap = None)
  <2>1. PICK hinted \in SUBSET Paths : c = [p \in Paths |-> IF p \in hinted THEN files[p] ELSE cap[p]]
    BY <1>3 DEF Captured
  <2>2. \A p \in Paths : files[p] \in Digests /\ cap[p] \in Digests
    BY <1>1, <1>3, Domains
  <2> QED BY <2>1, <2>2 DEF Snapshots
<1> QED BY <1>2, <1>3

-----------------------------------------------------------------------------
(* The steps.                                                              *)

\* A caller that takes the builder's answer.
LEMMA UseMoves ==
    ASSUME CatalogInv, NEW c \in Snapshots, NEW expand \in BOOLEAN, UseCatalog(c, expand)
    PROVE /\ cap' = c /\ Sound(gen') /\ gen'.snap = c
          /\ SoundStore(store') /\ store'[c] # None
          /\ base' \in Snapshots \cup {None}
          /\ tsDone' \in {"unset", "todo", "done"}
          /\ tsJob' # None => tsJob' \in [g : Generations, live : BOOLEAN] /\ Sound(tsJob'.g)
<1> DEFINE r0 == Resolve(c)
           r == IF expand THEN Expand(r0) ELSE r0
<1>1. Fits(r, c)
  BY ResolveFits, ExpandFits
<1>2. cap' = c /\ gen' = r.g /\ store' = r.st /\ ForgetTypeScript(r.fresh)
  BY DEF UseCatalog
<1>3. base' = IF expand /\ base = r0.g.snap THEN None ELSE base
  BY DEF UseCatalog
<1> HIDE DEF r, r0
<1>4. base' \in Snapshots \cup {None}
  BY <1>3 DEF CatalogInv, Typed
<1>5. tsDone' \in {"unset", "todo", "done"}
  BY <1>2 DEF ForgetTypeScript, CatalogInv, Typed
<1>6. ASSUME tsJob' # None PROVE tsJob' \in [g : Generations, live : BOOLEAN] /\ Sound(tsJob'.g)
  <2>1. tsJob # None
    BY <1>2, <1>6 DEF ForgetTypeScript
  <2>2. tsJob \in [g : Generations, live : BOOLEAN] /\ Sound(tsJob.g)
    BY <2>1 DEF CatalogInv, SoundTsJob
  <2>3. tsJob' = tsJob \/ tsJob' = [tsJob EXCEPT !.live = FALSE]
    BY <1>2 DEF ForgetTypeScript
  <2>4. tsJob' \in [g : Generations, live : BOOLEAN] /\ tsJob'.g = tsJob.g
    BY <2>2, <2>3
  <2> QED BY <2>2, <2>4
<1> QED BY <1>1, <1>2, <1>4, <1>5, <1>6 DEF Fits

LEMMA EditStep ==
    ASSUME CatalogInv, NEW p \in Paths, NEW d \in Digests, Edit(p, d)
    PROVE CatalogInv'
<1>1. files' \in Snapshots
  BY DEF Edit, CatalogInv, Typed, Snapshots
<1> QED BY <1>1 DEF Edit, CatalogInv, Typed, SoundGen, SoundJob, SoundTsJob

LEMMA ReadStep ==
    ASSUME CatalogInv, NEW c, ReadCatalog(c)
    PROVE CatalogInv'
<1>1. c \in Snapshots
  BY CapturedSnapshots DEF ReadCatalog
<1>2. UseCatalog(c, FALSE) /\ UNCHANGED <<files, extracted, settled, job>>
  BY DEF ReadCatalog
<1>3. /\ cap' = c /\ Sound(gen') /\ gen'.snap = c
      /\ SoundStore(store') /\ store'[c] # None
      /\ base' \in Snapshots \cup {None} /\ tsDone' \in {"unset", "todo", "done"}
      /\ tsJob' # None => tsJob' \in [g : Generations, live : BOOLEAN] /\ Sound(tsJob'.g)
  BY <1>1, <1>2, UseMoves
<1>4. Typed'
  BY <1>1, <1>2, <1>3 DEF CatalogInv, Typed
<1>5. (job # None => SoundJob)'
  BY <1>2 DEF CatalogInv, SoundJob
<1> QED BY <1>3, <1>4, <1>5 DEF CatalogInv, SoundGen, SoundTsJob

\* A pass starts on files of the generation it will extend.
LEMMA BundleStep ==
    ASSUME CatalogInv, NEW c, NEW v \in BOOLEAN, CatalogBundle(c, v)
    PROVE CatalogInv'
<1>1. c \in Snapshots
  BY CapturedSnapshots DEF CatalogBundle
<1>2. UseCatalog(c, TRUE) /\ UNCHANGED files /\ job = None
  BY DEF CatalogBundle
<1>3. /\ cap' = c /\ Sound(gen') /\ gen'.snap = c
      /\ SoundStore(store') /\ store'[c] # None
      /\ base' \in Snapshots \cup {None} /\ tsDone' \in {"unset", "todo", "done"}
      /\ tsJob' # None => tsJob' \in [g : Generations, live : BOOLEAN] /\ Sound(tsJob'.g)
  BY <1>1, <1>2, UseMoves
<1>4. /\ Pruned(c) \in [Supported -> Digests]
      /\ \A p \in Supported : Pruned(c)[p] \in {0, c[p]}
  BY <1>1, Domains DEF Pruned, CatalogInv, Typed
<1>5. \/ UNCHANGED <<extracted, settled, job>>
      \/ /\ extracted' = Pruned(c)
         /\ \/ settled' = c /\ UNCHANGED job
            \/ /\ UNCHANGED settled
               /\ \E todo \in SUBSET Needed(Pruned(c), c) :
                     job' = [g |-> gen', todo |-> todo, got |-> {},
                             sql |-> SqlDropped(c) # {},
                             warn |-> todo # Needed(Pruned(c), c),
                             cut |-> todo # Needed(Pruned(c), c)]
  BY DEF CatalogBundle
<1>6. extracted' \in [Supported -> Digests] /\ settled' \in Snapshots \cup {None}
  BY <1>1, <1>4, <1>5 DEF CatalogInv, Typed
<1>7. ASSUME job' # None PROVE SoundJob'
  <2>1. PICK todo \in SUBSET Needed(Pruned(c), c) :
           job' = [g |-> gen', todo |-> todo, got |-> {}, sql |-> SqlDropped(c) # {},
                   warn |-> todo # Needed(Pruned(c), c), cut |-> todo # Needed(Pruned(c), c)]
    BY <1>2, <1>5, <1>7
  <2>2. extracted' = Pruned(c)
    BY <1>2, <1>5, <1>7
  <2>3. \A p \in Needed(Pruned(c), c) : p \in Supported /\ c[p] # 0
    BY DEF Needed
  <2> DEFINE sql == SqlDropped(c) # {}
             rest == todo # Needed(Pruned(c), c)
  <2>4. job' = [g |-> gen', todo |-> todo, got |-> {}, sql |-> sql, warn |-> rest, cut |-> rest]
    BY <2>1
  <2>5. sql \in BOOLEAN /\ rest \in BOOLEAN
    OBVIOUS
  <2> HIDE DEF sql, rest
  <2>6. gen' \in Generations /\ todo \in SUBSET Supported
    BY <1>3, <2>3 DEF Sound
  <2>7. job' \in Jobs /\ job'.g = gen' /\ job'.todo = todo /\ job'.got = {}
    BY <2>4, <2>5, <2>6 DEF Jobs
  <2> QED BY <1>3, <1>4, <2>2, <2>3, <2>7 DEF SoundJob
<1>8. Typed'
  BY <1>1, <1>2, <1>3, <1>6 DEF CatalogInv, Typed
<1> QED BY <1>3, <1>7, <1>8 DEF CatalogInv, SoundGen, SoundTsJob

\* An answer of the worker is recorded as the digest of the pass's own file.
LEMMA ExtractStep ==
    ASSUME CatalogInv, NEW p \in Supported, Extract(p) \/ ExtractFails(p)
    PROVE CatalogInv'
<1>1. job # None /\ p \in job.todo /\ SoundJob
  BY DEF Extract, ExtractFails, CatalogInv
<1>2. UNCHANGED <<files, cap, gen, base, settled, tsDone, tsJob, store>>
  BY DEF Extract, ExtractFails
<1>3. /\ job' \in Jobs /\ job'.g = job.g
      /\ job'.todo \cup job'.got \subseteq job.todo \cup job.got
  <2>1. \/ job' = [job EXCEPT !.todo = @ \ {p}, !.got = @ \cup {p}]
        \/ job' = [job EXCEPT !.todo = @ \ {p}, !.warn = TRUE]
    BY DEF Extract, ExtractFails
  <2>2. job \in Jobs
    BY <1>1 DEF SoundJob
  <2> DEFINE todo == job.todo \ {p}
             got == job.got \cup {p}
  <2>3. todo \in SUBSET Supported /\ got \in SUBSET Supported
    BY <2>2 DEF Jobs
  <2>4. \/ job' = [job EXCEPT !.todo = todo, !.got = got]
        \/ job' = [job EXCEPT !.todo = todo, !.warn = TRUE]
    BY <2>1
  <2> HIDE DEF todo, got
  <2>5. job' \in Jobs /\ job'.g = job.g /\ job'.todo = todo /\ job'.got \in {job.got, got}
    BY <2>2, <2>3, <2>4 DEF Jobs
  <2> QED BY <1>1, <2>5 DEF todo, got
<1>4. /\ extracted' \in [Supported -> Digests]
      /\ \A q \in Supported : extracted'[q] \in {extracted[q], job.g.snap[q]}
  <2>1. extracted \in [Supported -> Digests] /\ job.g.snap[p] \in Digests
    BY <1>1, Domains DEF CatalogInv, Typed, SoundJob, Sound, Generations
  <2>2. extracted' = extracted \/ extracted' = [extracted EXCEPT ![p] = job.g.snap[p]]
    BY DEF Extract, ExtractFails
  <2> QED BY <2>1, <2>2
<1>5. SoundJob'
  BY <1>1, <1>3, <1>4 DEF SoundJob
<1>6. Typed'
  BY <1>2, <1>4 DEF CatalogInv, Typed
<1> QED BY <1>2, <1>5, <1>6 DEF CatalogInv, SoundGen, SoundTsJob

LEMMA TruncateStep ==
    ASSUME CatalogInv, Truncate
    PROVE CatalogInv'
<1>1. job # None /\ SoundJob
  BY DEF Truncate, CatalogInv
<1>2. UNCHANGED <<files, cap, gen, base, extracted, settled, tsDone, tsJob, store>>
  BY DEF Truncate
<1>3. job' \in Jobs /\ job'.g = job.g /\ job'.todo = {} /\ job'.got = job.got
  <2>1. job \in Jobs /\ job' = [job EXCEPT !.todo = {}, !.warn = TRUE, !.cut = TRUE]
    BY <1>1 DEF Truncate, SoundJob
  <2> QED BY <2>1 DEF Jobs
<1>4. SoundJob'
  BY <1>1, <1>2, <1>3 DEF SoundJob
<1> QED BY <1>2, <1>4 DEF CatalogInv, Typed, SoundGen, SoundTsJob

\* A pass merges what it parsed and, with it, PostgreSQL files that were parsed
\* before: all of them files of its generation.
LEMMA CommitStep ==
    ASSUME CatalogInv, CommitPass
    PROVE CatalogInv'
<1> DEFINE sql == IF job.sql \/ job.got \cap Sql # {} THEN {p \in Sql : extracted[p] # 0} ELSE {}
           all == job.got \cup sql
           g == Merge(job.g, all)
           h == [g EXCEPT !.num = @ + 1]
<1>1. job # None /\ SoundJob
  BY DEF CommitPass, CatalogInv
<1>2. /\ UNCHANGED <<files, cap, base, extracted, tsDone, tsJob>> /\ job' = None
      /\ settled' \in {job.g.snap, settled}
  BY DEF CommitPass
<1>3. \/ UNCHANGED <<gen, store>>
      \/ gen' = h /\ store' = Published(store, h, job.g.snap, {})
  BY DEF CommitPass
<1>4. all \in SUBSET Supported /\ \A p \in all : job.g.snap[p] # 0
  BY <1>1, Domains DEF SoundJob, Jobs
<1>5. Sound(job.g) /\ job.g.snap \in Snapshots
  BY <1>1 DEF SoundJob, Sound, Generations
<1> HIDE DEF all
<1>6. Sound(g) /\ g.snap = job.g.snap
  BY <1>4, <1>5, MergeSound
<1> HIDE DEF g
<1>7. Sound(h) /\ h.snap = job.g.snap
  BY <1>6, RenumberedSound
<1> HIDE DEF h
<1>8. Typed'
  BY <1>2, <1>5 DEF CatalogInv, Typed
<1>9. SoundGen' /\ SoundStore(store')
  BY <1>3, <1>7, PublishedSound DEF CatalogInv, SoundGen
<1> QED BY <1>2, <1>8, <1>9 DEF CatalogInv, SoundTsJob

LEMMA FrameStep ==
    ASSUME CatalogInv, NEW c, BuildFrame(c)
    PROVE CatalogInv'
<1> DEFINE r == Expand(ForBundle(c))
<1>1. c \in Snapshots /\ UNCHANGED <<files, extracted, settled, job>> /\ cap' = c
  BY CapturedSnapshots DEF BuildFrame
<1>2. Fits(r, c)
  BY <1>1, ForBundleFits, ExpandFits
<1>3. gen' = r.g /\ (base' = IF base = r.g.snap THEN None ELSE base)
  BY DEF BuildFrame
<1>4. tsDone' \in {"todo", "done"}
  BY DEF BuildFrame
<1>5. \/ store' = Materialized(r.st, r.g) /\ UNCHANGED tsJob
      \/ store' = r.st /\ tsJob' = [g |-> r.g, live |-> TRUE]
  BY DEF BuildFrame
<1> HIDE DEF r
<1>6. Sound(r.g) /\ r.g.snap = c /\ SoundStore(r.st) /\ r.st[c] # None
  BY <1>2 DEF Fits
<1>7. SoundStore(store') /\ store'[c] # None
  BY <1>1, <1>5, <1>6, MaterializedSound
<1>8. (tsJob # None => SoundTsJob)'
  <2>1. CASE UNCHANGED tsJob
    BY <2>1 DEF CatalogInv, SoundTsJob
  <2>2. CASE tsJob' = [g |-> r.g, live |-> TRUE]
    BY <1>6, <2>2 DEF SoundTsJob, Sound
  <2> QED BY <1>5, <2>1, <2>2
<1>9. Typed'
  BY <1>1, <1>3, <1>4 DEF CatalogInv, Typed
<1>10. (job # None => SoundJob)'
  BY <1>1 DEF CatalogInv, SoundJob
<1> QED BY <1>3, <1>6, <1>7, <1>8, <1>9, <1>10 DEF CatalogInv, SoundGen

\* A late analysis commits the generation it began with, and its projection.
LEMMA FinishStep ==
    ASSUME CatalogInv, NEW ok \in BOOLEAN, FinishTypeScript(ok)
    PROVE CatalogInv'
<1> DEFINE h == [tsJob.g EXCEPT !.num = @ + 1, !.ts = ok \/ @]
           st == Published(store, h, tsJob.g.snap, {})
<1>1. tsJob # None /\ Sound(tsJob.g) /\ SoundStore(store)
  BY DEF FinishTypeScript, CatalogInv, SoundTsJob
<1>2. /\ gen' = h /\ store' = Materialized(st, h)
      /\ tsDone' \in {"done", tsDone} /\ tsJob' = None
      /\ UNCHANGED <<files, cap, base, extracted, settled, job>>
  BY DEF FinishTypeScript
<1>3. Sound(h)
  BY <1>1, RenumberedSound
<1> HIDE DEF h
<1>4. SoundStore(st) /\ st[h.snap] # None
  BY <1>1, <1>3, PublishedSound
<1> HIDE DEF st
<1>5. SoundStore(store') /\ store'[h.snap] # None
  <2>1. h.snap \in Snapshots
    BY <1>3 DEF Sound, Generations
  <2> QED BY <1>2, <1>3, <1>4, <2>1, MaterializedSound
<1>6. Typed'
  BY <1>2 DEF CatalogInv, Typed
<1>7. (job # None => SoundJob)'
  BY <1>2 DEF CatalogInv, SoundJob
<1> QED BY <1>2, <1>3, <1>5, <1>6, <1>7 DEF CatalogInv, SoundGen

LEMMA RestartStep ==
    ASSUME CatalogInv, Restart
    PROVE CatalogInv'
<1>1. extracted' \in [Supported -> Digests]
  BY Domains DEF Restart
<1> QED BY <1>1 DEF Restart, CatalogInv, Typed, SoundGen

\* A start loads the projection of the files' bytes, or builds and publishes it.
LEMMA BootstrapStep ==
    ASSUME CatalogInv, Bootstrap
    PROVE CatalogInv'
<1>1. files \in Snapshots /\ SoundStore(store)
  BY DEF CatalogInv, Typed
<1>2. cap' = files /\ UNCHANGED <<files, extracted, job, tsJob>>
  BY DEF Bootstrap
<1>3. /\ base' \in {files, base} /\ settled' \in {files, settled}
      /\ tsDone' \in {"done", "todo", tsDone}
  BY DEF Bootstrap
<1>4. Sound(gen') /\ SoundStore(store') /\ store'[gen'.snap] # None
  <2>1. CASE store[files] # None
    <3>1. gen' = store[files].g /\ store' = store
      BY <2>1 DEF Bootstrap, Load
    <3> QED BY <1>1, <2>1, <3>1 DEF SoundStore
  <2>2. CASE store[files] = None
    <3> DEFINE g == BuildBase(files, 1)
    <3>1. gen' = g /\ store' = Published(store, g, None, Files(files))
      BY <2>2 DEF Bootstrap
    <3>2. Sound(g)
      BY <1>1, BuildSound
    <3> HIDE DEF g
    <3> QED BY <1>1, <3>1, <3>2, PublishedSound
  <2> QED BY <2>1, <2>2
<1>5. Typed'
  BY <1>1, <1>2, <1>3 DEF CatalogInv, Typed
<1> QED BY <1>2, <1>4, <1>5 DEF CatalogInv, SoundGen, SoundJob, SoundTsJob

LEMMA PublishBaseStep ==
    ASSUME CatalogInv, PublishBase
    PROVE CatalogInv'
<1>1. gen # None /\ Sound(gen) /\ gen.snap \in Snapshots /\ gen.num \in Nat
  BY DEF PublishBase, CatalogInv, SoundGen, Sound, Generations
<1>2. store[gen.snap] # None /\ SoundStore(store)
  BY <1>1 DEF CatalogInv, SoundGen
<1>3. store' = Marked(store, gen.snap, gen.num, FALSE)
  BY DEF PublishBase, Marked
<1>4. SoundStore(store') /\ store'[gen.snap] # None
  BY <1>1, <1>2, <1>3, MarkedSound
<1> QED BY <1>4 DEF PublishBase, CatalogInv, Typed, SoundGen, SoundJob, SoundTsJob

-----------------------------------------------------------------------------
(* The theorems.                                                           *)

THEOREM CatalogInductive == Spec => []CatalogInv
<1>1. Init => CatalogInv
  <2> SUFFICES ASSUME Init PROVE CatalogInv
    OBVIOUS
  <2>1. \A d \in 1 .. 1 : d \in Digests
    BY Domains
  <2>2. files \in Snapshots /\ extracted \in [Supported -> Digests]
    BY <2>1, Domains DEF Init, Snapshots
  <2>3. SoundStore(store)
    BY DEF Init, SoundStore
  <2> QED BY <2>2, <2>3 DEF Init, CatalogInv, Typed, SoundGen
<1>2. CatalogInv /\ [Next]_vars => CatalogInv'
  <2> SUFFICES ASSUME CatalogInv, [Next]_vars PROVE CatalogInv'
    OBVIOUS
  <2>1. CASE UNCHANGED vars
    BY <2>1 DEF vars, CatalogInv, Typed, SoundGen, SoundJob, SoundTsJob
  <2>2. CASE Next
    BY <2>2, EditStep, ReadStep, FrameStep, BundleStep, ExtractStep, TruncateStep, CommitStep,
       FinishStep, RestartStep, BootstrapStep, PublishBaseStep DEF Next
  <2> QED BY <2>1, <2>2
<1> QED BY <1>1, <1>2, PTL DEF Spec

\* Type correctness of the catalog: every generation, job and projection keeps
\* its shape through captures, passes, analyses and restarts.
THEOREM TypeCorrect == Spec => []TypeOK
<1>1. CatalogInv => TypeOK
  BY DEF CatalogInv, Typed, SoundGen, SoundJob, SoundTsJob, SoundStore, Sound, TypeOK
<1> QED BY <1>1, CatalogInductive, PTL

\* The hot generation never mixes sources, however the work that produced it
\* was interleaved with other captures, passes, analyses and restarts
\* (CatalogGenerationBuilder.update, merge_structural_facts, build).
THEOREM NoMixedSources == Spec => []FactsMatchSnapshot
<1>1. CatalogInv => FactsMatchSnapshot
  <2> SUFFICES ASSUME CatalogInv, gen # None
               PROVE /\ \A f \in gen.facts : f.digest = gen.snap[f.path] /\ f.digest # 0
                     /\ \A f \in gen.facts : f.project = ProjectOf(gen)
                     /\ WellCut(gen.chunks, gen.snap)
    BY DEF FactsMatchSnapshot
  <2>1. WellCut(gen.chunks, gen.snap) /\ Describes(gen.facts, gen.snap, ProjectOf(gen))
    BY DEF CatalogInv, SoundGen, Sound
  <2> QED BY <2>1 DEF Describes
<1> QED BY <1>1, CatalogInductive, PTL

\* The SQLite projection of a fingerprint holds a generation of that very
\* fingerprint, also after incremental publishes that keep the stored chunks of
\* unchanged files and after late commits (CatalogStore.publish).
THEOREM ProjectionsAreOwn == Spec => []ProjectionMatchesFingerprint
<1>1. CatalogInv => ProjectionMatchesFingerprint
  <2> SUFFICES ASSUME CatalogInv, NEW s \in Snapshots, store[s] # None
               PROVE /\ store[s].g.snap = s
                     /\ \A f \in store[s].g.facts : f.digest = s[f.path]
                     /\ WellCut(store[s].g.chunks, s)
    BY DEF ProjectionMatchesFingerprint
  <2>1. store[s].g.snap = s /\ Sound(store[s].g)
    BY DEF CatalogInv, SoundStore
  <2>2. /\ WellCut(store[s].g.chunks, s)
        /\ Describes(store[s].g.facts, s, ProjectOf(store[s].g))
    BY <2>1 DEF Sound
  <2> QED BY <2>1, <2>2 DEF Describes
<1> QED BY <1>1, CatalogInductive, PTL
=============================================================================
