---------------------------- MODULE CatalogReads ----------------------------
(***************************************************************************)
(* Reading a published catalog generation: the chunks of a file and the    *)
(* other derived facts of a generation (catalog/generation.py), the rows,  *)
(* relationships and plans of a publication (catalog/indexer.py) and the   *)
(* ranked, related and bounded read of its rows (catalog/store.py).        *)
(***************************************************************************)
EXTENDS Naturals, Sequences, SequencesExt, FiniteSets, FiniteSetsExt, Functions

CONSTANTS ChunkBytes,   \* DEFAULT_CHUNK_BYTES
          ChunkLines    \* DEFAULT_CHUNK_LINES

Take(s, n) == SubSeq(s, 1, IF Len(s) < n THEN Len(s) ELSE n)
Sum(s) == FoldLeft(LAMBDA n, w : n + w, 0, s)

----------------------------------------------------------------------------
(* Chunks.  A line is the sequence of the widths of its code points.       *)

\* _split_large_line: as many whole code points as fit, again and again.
SplitLargeLine(line) ==
    FoldLeft(LAMBDA parts, w : IF parts # <<>> /\ Sum(Last(parts)) + w <= ChunkBytes
                               THEN [parts EXCEPT ![Len(parts)] = Append(@, w)]
                               ELSE Append(parts, <<w>>),
             <<>>, line)

\* flush: the pending lines become one segment.
Flush(acc, endLine) ==
    IF acc.pending = <<>> THEN acc
    ELSE [acc EXCEPT !.segments = Append(@, [from |-> acc.start, to |-> acc.start + Sum(acc.pending),
                                             first |-> acc.line, last |-> endLine]),
                     !.pending = <<>>]

\* One line of _chunk_segments.
ChunkLine(acc, line, number) ==
    LET size == Sum(line)
        full == \/ Sum(acc.pending) + size > ChunkBytes
                \/ Len(acc.pending) >= ChunkLines
        a == IF acc.pending # <<>> /\ full THEN Flush(acc, number - 1) ELSE acc IN
    IF size > ChunkBytes
    THEN FoldLeft(LAMBDA b, part :
                    [b EXCEPT !.segments = Append(@, [from |-> b.cursor, to |-> b.cursor + Sum(part),
                                                      first |-> number, last |-> number]),
                              !.cursor = @ + Sum(part)],
                  a, SplitLargeLine(line))
    ELSE [a EXCEPT !.line = IF a.pending = <<>> THEN number ELSE @,
                   !.start = IF a.pending = <<>> THEN a.cursor ELSE @,
                   !.pending = Append(@, size), !.cursor = @ + size]

\* _chunk_segments: a file without lines has one empty one.
ChunkSegments(content) ==
    LET lines == IF content = <<>> THEN <<<<>>>> ELSE content IN
    Flush(FoldLeftDomain(LAMBDA acc, i : ChunkLine(acc, lines[i], i),
                         [segments |-> <<>>, pending |-> <<>>, line |-> 1, start |-> 0, cursor |-> 0], lines),
          Len(lines)).segments

----------------------------------------------------------------------------
(* Facts of a generation.                                                  *)

\* changed_snapshot_paths and _change_facts between two snapshots, which map
\* paths to digests ("" for a path that is not there).
Digest(snapshot, path) == IF path \in DOMAIN snapshot THEN snapshot[path] ELSE ""
ChangeFacts(old, new) ==
    {[path |-> p, previous |-> Digest(old, p), current |-> Digest(new, p),
      operation |-> IF Digest(old, p) = "" THEN "added" ELSE IF Digest(new, p) = "" THEN "deleted" ELSE "changed"] :
        p \in {q \in DOMAIN old \cup DOMAIN new : Digest(old, q) # Digest(new, q)}}

\* _rebuild_direct_import_dependencies: an absolute Python import of a module
\* with a distribution the project declares (the first such), once for each
\* file and package.
DirectImports(declared, imports, distributions) ==
    LET known(i) == SelectSeq(distributions[i.module], LAMBDA d : <<i.project, d>> \in declared) IN
    FoldLeft(LAMBDA direct, i :
               IF ~i.structural \/ ~i.python \/ i.relative \/ known(i) = <<>> THEN direct
               ELSE LET fact == [path |-> i.path, package |-> Head(known(i)), project |-> i.project] IN
                    IF \E d \in ToSet(direct) : d.path = fact.path /\ d.package = fact.package THEN direct
                    ELSE Append(direct, fact),
             <<>>, imports)

\* _preserve_route_enrichment: what is known of a route is kept as long as its
\* file is unchanged; of several routes with one key the last counts.
PreserveRouteEnrichment(previous, current, paths) ==
    LET kept == SelectSeq(previous, LAMBDA r : r.path \in paths /\ r.methods # "")
        of(r) == SelectSeq(kept, LAMBDA p : p.key = r.key /\ p.path = r.path) IN
    [i \in DOMAIN current |->
        LET r == current[i] IN
        IF of(r) = <<>> \/ Last(of(r)).digest # r.digest THEN r
        ELSE [r EXCEPT !.methods = Last(of(r)).methods, !.complete = @ /\ Last(of(r)).complete]]

\* catalog_generation_from_facts: a reverse index of facts, in their order.
IndexedBy(facts, field) ==
    FoldLeft(LAMBDA index, f :
               [k \in DOMAIN index \cup {f[field]} |->
                  (IF k \in DOMAIN index THEN index[k] ELSE <<>>) \o (IF k = f[field] THEN <<f>> ELSE <<>>)],
             << >>, facts)

----------------------------------------------------------------------------
(* Publications.                                                           *)

\* _materialized_rows: the tables of the rows of the frame, and of the chunks
\* in the full profile.
MaterializedRows(tables, chunks, full) ==
    tables \cup (IF full /\ chunks # {} THEN {"source.context"} ELSE {})

\* _relationships: the rows with a token hang on the first of them.
Relationships(rows) ==
    UNION {LET members == {r.key : r \in {q \in rows : t \in q.tokens}} IN
           {<<Min(members), m>> : m \in members \ {Min(members)}} :
              t \in UNION {r.tokens : r \in rows}}

\* _published_closure_matches and _base_closure_matches.
PublishedClosureMatches(published, plan) ==
    plan.required = {} \/ (Len(published) = Cardinality(plan.required) /\ ToSet(published) = plan.required)
BaseClosureMatches(published, plan) ==
    /\ Len(published) = Cardinality(ToSet(published))
    /\ plan.required \subseteq ToSet(published)
    /\ ToSet(published) \subseteq plan.required \cup (IF plan.full THEN {"source.context"} ELSE {})

\* _enrichment_settled and prepare_materialized: what a build leaves on disk;
\* the base that is published at startup is never settled.
Published(build, plan, number, digest) ==
    [number |-> number, identity |-> build.identity, digest |-> digest, state |-> build.state, mode |-> "syntax_only",
     settled |-> /\ ~plan.startup /\ ~build.changed /\ (~plan.full \/ build.enriched)
                 /\ PublishedClosureMatches(SetToSeq(build.tables), plan),
     published |-> SetToSeq(MaterializedRows(build.tables, build.chunks, plan.full)), attempted |-> plan.attempted]

\* materialized_publication: only of this configuration and of the metadata of
\* the database.
PersistedPublication(store, row, digest, metadata) ==
    /\ store = "disk" /\ row.number # 0
    /\ row.digest = digest /\ metadata.digest = digest
    /\ metadata.number = row.number /\ metadata.identity = row.identity

\* _restore_materialized_publication: what was persisted is served again only
\* if it is of the generation that was just validated and of the plan.
Restorable(row, generation, bundle, plan, base) ==
    LET expected == IF row.settled THEN plan ELSE base IN
    /\ row.state \in {"READY", "RECONCILING", "FAILED"}
    /\ row.mode = "syntax_only"
    /\ row.number = generation.number /\ row.identity = generation.identity
    /\ bundle = generation.identity
    /\ row.attempted = expected.attempted
    /\ IF row.settled THEN PublishedClosureMatches(row.published, expected)
       ELSE BaseClosureMatches(row.published, expected)

\* published_bundle: the captured bytes of exactly the generation that was read.
PublishedBundle(publication, bundle, read) ==
    /\ publication.number = read.number
    /\ publication.identity = read.identity /\ bundle = read.identity

----------------------------------------------------------------------------
(* Reads.                                                                  *)

\* _SEED_RELATION_TABLES, by the kind of their rows.
RelationKinds == {"symbol", "route", "diagnostic", "import"}

\* _seed_index_keys: a row is found by its path, its project and its own key.
\* A key is the sequence of its parts between colons.
OwnKey(row) == <<row.kind, row.project, row.id>>
SeedIndexKeys(row) ==
    {<<"path", row.path>>} \cup (IF row.project = "" THEN {} ELSE {<<"project", row.project>>, OwnKey(row)})

\* _seed_key_filter: the rows of the keys; for a dependency or a relation with
\* its project also the project's rows of every other kind.
SeedRows(rows, seeds) ==
    LET direct(s) == {s} \cup (IF s[1] \in RelationKinds /\ Len(s) > 2 THEN {<<s[1], Last(s)>>} ELSE {})
        widens(s) == s[1] \in RelationKinds \cup {"dependency"} /\ Len(s) > 2 IN
    {r \in rows : \E s \in seeds :
        \/ direct(s) \cap SeedIndexKeys(r) # {}
        \/ widens(s) /\ r.project = s[2] /\ r.kind # s[1]}

\* _ownership_selector_rows: a policy is found by its id, by the paths it has or
\* is bound to, and by its aliases.
OwnershipSelectors(rows) ==
    UNION {(IF r.kind = "policy" THEN {<<"id", r.policy, r.policy>>} ELSE {})
             \cup {<<"path", p, r.policy>> : p \in r.paths}
             \cup (IF r.kind = "policy" THEN {<<"alias", a, r.policy>> : a \in r.aliases} ELSE {}) :
             r \in {q \in rows : q.policy # "" /\ q.kind \in {"policy", "binding"}}}

\* _ownership_selector_filter: all rows of the policies with that id; without
\* one, of those with that path; without one, of those with that alias.
OwnedRows(rows, name) ==
    LET selectors == OwnershipSelectors(rows)
        of(kind) == {s[3] : s \in {t \in selectors : t[1] = kind /\ t[2] = name}}
        policies == IF of("id") # {} THEN of("id") ELSE IF of("path") # {} THEN of("path") ELSE of("alias") IN
    {r \in rows : r.policy \in policies}

\* The rows a read matches; where a query within some paths matches nothing,
\* everything within those paths is given.
MatchingRows(rows, words, prefixes) ==
    LET within == {r \in rows : prefixes = {} \/ r.path \in prefixes}
        found == {r \in within : words \subseteq r.words} IN
    IF found = {} /\ words # {} /\ prefixes # {} THEN within ELSE found

\* _ranked_context_keys: the page of the matching rows; without a count one row
\* more is asked for.
RankedContextKeys(matching, limit, offset, count) ==
    LET ordered == SetToSortSeq(matching, <)
        page == SubSeq(ordered, offset + 1, Len(ordered))
        rows == Take(page, IF count THEN limit ELSE limit + 1) IN
    IF count THEN [keys |-> rows, more |-> offset + Len(rows) < Len(ordered), total |-> Len(ordered)]
    ELSE [keys |-> Take(rows, limit), more |-> Len(rows) > limit,
          total |-> offset + Len(rows)]

\* _related_keys: the other ends of the edges at the frontier, in the order of
\* the edges.
RelatedKeys(edges, frontier) ==
    LET touching == {e \in edges : e[1] \in frontier \/ e[2] \in frontier}
        ordered == SetToSortSeq(touching, LAMBDA a, b : a[1] < b[1] \/ (a[1] = b[1] /\ a[2] < b[2]))
        ends == [i \in DOMAIN ordered |-> IF ordered[i][1] \in frontier THEN ordered[i][2]
                                          ELSE ordered[i][1]] IN
    FoldLeft(LAMBDA s, k : IF k \in ToSet(s) THEN s ELSE Append(s, k), <<>>, ends)

\* One related row: into the beam, into the overflow, or left out.
Select(acc, key, distance, primary, limit, width) ==
    IF acc.full \/ key \in acc.discovered THEN acc
    ELSE IF acc.selected >= width
    THEN [acc EXCEPT !.discovered = @ \cup {key},
                     !.overflow = IF Len(@) < limit THEN Append(@, <<key, distance>>) ELSE @,
                     !.more = @ \/ Len(acc.overflow) >= limit]
    ELSE [acc EXCEPT !.discovered = @ \cup {key}, !.selected = @ + 1, !.next = @ \cup {key},
                     !.rows = Append(@, <<key, IF key \in primary THEN 0 ELSE distance>>),
                     !.full = Len(acc.rows) + 1 >= limit,
                     !.more = @ \/ Len(acc.rows) + 1 >= limit]

\* One layer of relations around the frontier; rows that are no match first.
Layer(acc, edges, distance, primary, limit, width) ==
    IF acc.frontier = {} \/ Len(acc.rows) >= limit THEN [acc EXCEPT !.frontier = {}]
    ELSE LET related == RelatedKeys(edges, acc.frontier)
             ordered == SelectSeq(related, LAMBDA k : k \notin primary)
                        \o SelectSeq(related, LAMBDA k : k \in primary)
             end == FoldLeft(LAMBDA a, k : Select(a, k, distance, primary, limit, width),
                             [acc EXCEPT !.selected = 0, !.next = {}, !.full = FALSE], ordered) IN
         [end EXCEPT !.frontier = end.next]

\* Mutant: what does not fit is dropped silently.
BackfilledQuietly(acc, items, limit) ==
    FoldLeft(LAMBDA a, item :
               IF Len(a.rows) >= limit \/ item[1] \in {a.rows[i][1] : i \in DOMAIN a.rows} THEN a
               ELSE [a EXCEPT !.rows = Append(@, item)], acc, items)

\* The rows left over, as long as there is room.
Backfilled(acc, items, limit) ==
    FoldLeft(LAMBDA a, item :
               IF Len(a.rows) >= limit THEN [a EXCEPT !.more = TRUE]
               ELSE IF item[1] \in {a.rows[i][1] : i \in DOMAIN a.rows} THEN a
               ELSE [a EXCEPT !.rows = Append(@, item)], acc, items)

\* read_materialized: part of the matches are seeds of the relations, in layers
\* of at most as many; then the overflow, then the other matches.
ReadMaterialized(page, edges, limit, depth) ==
    LET width == IF depth > 0 /\ page.keys # <<>> THEN Max({1, limit \div (depth + 1)}) ELSE Len(page.keys)
        seeds == Take(page.keys, width)
        deferred == SubSeq(page.keys, Len(seeds) + 1, Len(page.keys))
        primary == ToSet(page.keys)
        start == [rows |-> [i \in DOMAIN seeds |-> <<seeds[i], 0>>], overflow |-> <<>>,
                  discovered |-> ToSet(seeds), frontier |-> ToSet(seeds), next |-> {},
                  selected |-> 0, full |-> FALSE, more |-> page.more]
        beam == FoldLeft(LAMBDA acc, d : Layer(acc, edges, d, primary, limit, width),
                         start, [d \in 1..depth |-> d])
        spilled == Backfilled(beam, [i \in DOMAIN beam.overflow |->
                                        <<beam.overflow[i][1],
                                          IF beam.overflow[i][1] \in primary THEN 0 ELSE beam.overflow[i][2]>>], limit)
        end == Backfilled(spilled, [i \in DOMAIN deferred |-> <<deferred[i], 0>>], limit) IN
    [rows |-> end.rows, more |-> end.more]

\* The coverage of a catalog that is not ready is at most partial, and says why.
ServedStatus(state, coverage) ==
    IF state = "READY" THEN coverage
    ELSE [status |-> IF coverage.status = "COMPLETE" THEN "PARTIAL" ELSE coverage.status,
          reasons |-> coverage.reasons \cup {state}]

\* search_ranked: a page of hits, and whether there are more.
SearchRanked(hits, limit, offset) ==
    LET rows == Take(SubSeq(SetToSortSeq(hits, <), offset + 1, Cardinality(hits)), limit + 1) IN
    [hits |-> Take(rows, limit), more |-> Len(rows) > limit]

----------------------------------------------------------------------------
\* The chunks of a file tile it: no byte is lost or read twice, each is within
\* both limits, and each names exactly the lines its bytes are in.
ChunksTile(content) ==
    LET s == ChunkSegments(content)
        lineStart(n) == Sum([i \in 1..(n - 1) |-> Sum(content[i])]) IN
    /\ s # <<>> /\ s[1].from = 0
    /\ s[Len(s)].to = Sum([i \in DOMAIN content |-> Sum(content[i])])
    /\ \A i \in 1..(Len(s) - 1) : s[i].to = s[i + 1].from
    /\ \A i \in DOMAIN s : s[i].to - s[i].from <= ChunkBytes /\ s[i].last - s[i].first < ChunkLines
    /\ content # <<>> => \A i \in DOMAIN s :
           /\ lineStart(s[i].first) <= s[i].from
           /\ s[i].to <= lineStart(s[i].last) + Sum(content[s[i].last])

\* A read without more rows has every matching row; if there is room left it has
\* every row that is related to a seed, too.  No row comes twice, the limit is
\* kept, and a row that is said to be d relations away is at most so.
ReadIsComplete(matching, edges, limit, depth) ==
    \A page \in {RankedContextKeys(matching, limit, 0, TRUE)} :
    \A r \in {ReadMaterialized(page, edges, limit, depth)} :
    LET keys == {r.rows[i][1] : i \in DOMAIN r.rows}
        seeds == ToSet(Take(page.keys, Max({1, limit \div (depth + 1)})))
        near(S) == S \cup {e[2] : e \in {f \in edges : f[1] \in S}}
                     \cup {e[1] : e \in {f \in edges : f[2] \in S}} IN
    /\ Len(r.rows) <= limit /\ Cardinality(keys) = Len(r.rows)
    /\ ~r.more => matching \subseteq keys
    /\ (~r.more /\ Len(r.rows) < limit /\ depth > 0) => near(seeds) \subseteq keys
    /\ \A i \in DOMAIN r.rows : r.rows[i][2] > 0 =>
          r.rows[i][1] \in (IF r.rows[i][2] = 1 THEN near(seeds) ELSE near(near(seeds))) \ matching

\* Rows that share a path or an identity are at most two relations apart.
SharedTokensAreNear(rows) ==
    LET edges == Relationships(rows)
        near(S) == S \cup {e[2] : e \in {f \in edges : f[1] \in S}}
                     \cup {e[1] : e \in {f \in edges : f[2] \in S}} IN
    \A q, r \in rows : q.tokens \cap r.tokens # {} => q.key \in near(near({r.key}))

\* What an incremental update writes down of its snapshots takes the old one to
\* the new one: nothing changed is missing and nothing unchanged is listed.
ChangesReplay(old, new) ==
    LET changes == ChangeFacts(old, new)
        now(p) == LET c == {d \in changes : d.path = p} IN
                  IF c = {} THEN Digest(old, p) ELSE (CHOOSE d \in c : TRUE).current IN
    /\ \A p \in DOMAIN old \cup DOMAIN new : now(p) = Digest(new, p)
    /\ \A c \in changes : c.previous # c.current /\ (c.operation = "deleted" <=> c.path \notin DOMAIN new)

\* The imports carried over from unchanged files are bound to what their own
\* project declares now, each package once for each file; and a fact is found in
\* a reverse index exactly under its key.
ImportsFollowManifest(declared, imports, distributions) ==
    LET direct == DirectImports(declared, imports, distributions)
        byPath == IndexedBy(direct, "path") IN
    /\ \A d \in ToSet(direct) : <<d.project, d.package>> \in declared
    /\ \A i \in ToSet(imports) :
          (i.structural /\ i.python /\ ~i.relative /\ \E d \in ToSet(distributions[i.module]) : <<i.project, d>> \in declared) =>
              \E d \in ToSet(byPath[i.path]) : d.package \in ToSet(distributions[i.module])
    /\ \A p \in DOMAIN byPath : /\ byPath[p] = SelectSeq(direct, LAMBDA d : d.path = p)
                                /\ \A a, b \in DOMAIN byPath[p] : byPath[p][a].package = byPath[p][b].package => a = b

\* What was found out about a route survives an update only with the bytes it
\* was found in, and is not lost while they are the same.
EnrichmentFollowsBytes(previous, current, paths) ==
    LET routes == PreserveRouteEnrichment(previous, current, paths) IN
    \A i \in DOMAIN current :
        LET same == {j \in DOMAIN previous : previous[j].key = current[i].key /\ previous[j].path = current[i].path
                                             /\ previous[j].path \in paths /\ previous[j].methods # ""} IN
        /\ routes[i].methods # "" => \E j \in same : previous[j].digest = routes[i].digest /\ previous[j].methods = routes[i].methods
        /\ (same # {} /\ \A j \in same : previous[j].digest = current[i].digest) => routes[i].methods # ""
        /\ routes[i].complete => current[i].complete

\* After a restart a publication is served again only with the bytes, the
\* configuration and the plan it was built from; and one that was settled, or is
\* a whole base, is not built again.
RestoreIsExact(build, plan, base, planned, metadata, world) ==
    LET row == Published(build, planned, metadata.number, metadata.built)
        restored == /\ PersistedPublication("disk", row, world.digest, [metadata EXCEPT !.digest = metadata.built])
                    /\ Restorable(row, world.generation, world.bundle, plan, base) IN
    /\ restored =>
          /\ metadata.built = world.digest /\ PublishedBundle(row, world.bundle, world.generation)
          /\ row.settled /\ ~plan.full => ToSet(row.published) = plan.required
          /\ ~row.settled => base.required \subseteq ToSet(row.published)
    /\ (/\ metadata.built = world.digest /\ metadata.identity = build.identity
        /\ world.generation = [number |-> metadata.number, identity |-> build.identity] /\ world.bundle = build.identity
        /\ planned = plan /\ row.settled /\ build.state # "BUILDING") => restored

\* A seed that is the key of a row finds that row; of the rows of its own kind
\* it finds no other.
SeedsAreSelective(rows, seed) ==
    LET found == SeedRows(rows, {seed}) IN
    /\ {r \in rows : seed \in SeedIndexKeys(r)} \subseteq found
    /\ Len(seed) > 2 => \A r \in found : r.kind = seed[1] => OwnKey(r) = seed

\* A policy's id finds all rows of that policy and no others, whatever other
\* policies are called; an alias finds nothing while a policy has that path.
OwnershipIsExact(rows, name) ==
    LET found == OwnedRows(rows, name)
        ids == {r.policy : r \in {q \in rows : q.kind = "policy"}} IN
    /\ name \in ids \ {""} => found = {r \in rows : r.policy = name}
    /\ \A r \in found : (r.policy # name /\ \E q \in rows : q.policy # "" /\ q.kind \in {"policy", "binding"} /\ name \in q.paths) =>
           \E q \in rows : q.policy = r.policy /\ name \in q.paths

\* Pages of hits neither repeat nor lose one; a read within some paths stays
\* within them even when it gives up on its words, which it does only when no
\* row has them; and what is served of a catalog that is not ready is never
\* called complete.
ReadsAreFair(rows, words, prefixes, limit, state) ==
    LET found == MatchingRows(rows, words, prefixes)
        hits == {r.key : r \in found}
        page(n) == SearchRanked(hits, limit, n * limit)
        served == ServedStatus(state, [status |-> "COMPLETE", reasons |-> {}]) IN
    /\ FlattenSeq([n \in 1..3 |-> page(n - 1).hits]) = SetToSortSeq(hits, <)
    /\ \A n \in 0..2 : page(n).more <=> Cardinality(hits) > (n + 1) * limit
    /\ \A r \in found : (prefixes # {} => r.path \in prefixes)
                        /\ (~(words \subseteq r.words) => \A q \in found : ~(words \subseteq q.words))
    /\ state # "READY" => served.status # "COMPLETE" /\ served.reasons # {}
=============================================================================
