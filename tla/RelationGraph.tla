---------------------------- MODULE RelationGraph ----------------------------
(***************************************************************************)
(* The table planner and the derived relations of soleaux: prerequisite    *)
(* closure and frame status (tables.planner), resolution of import and     *)
(* call candidates into edges (relations.resolver, relations.modules), and *)
(* the graph views over resolved edges (relations.materializer).           *)
(***************************************************************************)
EXTENDS Integers, Sequences, SequencesExt, FiniteSets, FiniteSetsExt

CONSTANT None

----------------------------------------------------------------------------
\* Planning.  A catalog maps each table to its producer and prerequisites;
\* producers are numbered in the order they run.
Blocked(reason) == [tables |-> {}, reasons |-> {reason}]

RECURSIVE ClosureOfRoot(_, _, _)
ClosureOfRoot(catalog, table, excluded) ==
    IF table \in excluded THEN Blocked(table)
    ELSE [tables |-> {table} \cup UNION {ClosureOfRoot(catalog, p, {}).tables : p \in catalog[table].prerequisites},
          reasons |-> {}]

RECURSIVE Closure(_, _, _)
Closure(catalog, table, excluded) ==
    LET below == {Closure(catalog, p, excluded) : p \in catalog[table].prerequisites}
    IN  IF table \in excluded THEN Blocked(table)
        ELSE IF \E c \in below : c.reasons # {} THEN [tables |-> {}, reasons |-> UNION {c.reasons : c \in below}]
        ELSE [tables |-> {table} \cup UNION {c.tables : c \in below}, reasons |-> {}]

\* An excluded table is not selected even when it is included.
ValidateTableSelection(catalog, include, exclude) == {t \in DOMAIN catalog : t \in include /\ t \notin exclude}

TablePlan(catalog, include, exclude) ==
    LET requested == ValidateTableSelection(catalog, include, exclude)
        closure(t) == Closure(catalog, t, exclude)
        blocked == {t \in requested : closure(t).reasons # {}}
    IN  [requested |-> requested, blocked |-> blocked, order |-> UNION {closure(t).tables : t \in requested \ blocked}]

RECURSIVE RequiresSemantic(_, _, _)
RequiresSemantic(catalog, semantic, table) ==
    \/ catalog[table].producer = semantic
    \/ \E p \in catalog[table].prerequisites : RequiresSemantic(catalog, semantic, p)

\* One producer runs over its tables with what the earlier ones produced.  An
\* absent implementation, an unsupported table, one skipped in syntax-only
\* mode and one without an answer each count as unsupported.
RunProducer(catalog, plan, req, frame, producer) ==
    LET names == {t \in plan.order : catalog[t].producer = producer}
        impl == req.producers[producer]
        runnable == IF impl = None THEN {}
                    ELSE {t \in names \cap impl.supported :
                            ~(req.syntaxOnly /\ RequiresSemantic(catalog, req.semantic, t))}
        answered == {t \in runnable : impl.rows[t] # None}
    IN  IF names = {} THEN frame
        ELSE [produced |-> [t \in DOMAIN frame.produced \cup answered |->
                              IF t \in answered THEN Min({impl.rows[t], req.rowLimit}) ELSE frame.produced[t]],
              unsupported |-> frame.unsupported + Cardinality(names \ answered),
              truncated |-> frame.truncated \/ \E t \in answered : impl.rows[t] > req.rowLimit,
              degraded |-> frame.degraded \/ (runnable # {} /\ impl.notes)]

FrameStatus(plan, req, frame) ==
    IF req.changed THEN "changed_during_analysis"
    ELSE IF frame.truncated THEN "truncated"
    ELSE IF frame.unsupported > 0 /\ plan.requested \cap DOMAIN frame.produced = {} THEN "unsupported"
    ELSE IF frame.unsupported > 0 \/ frame.degraded THEN "partial"
    ELSE "complete"

Execute(catalog, plan, req) ==
    LET frame == FoldLeft(LAMBDA f, producer : RunProducer(catalog, plan, req, f, producer),
                          [produced |-> <<>>, unsupported |-> Cardinality(plan.blocked), truncated |-> FALSE, degraded |-> FALSE],
                          [i \in DOMAIN req.producers |-> i])
    IN  [tables |-> frame.produced, status |-> FrameStatus(plan, req, frame)]

----------------------------------------------------------------------------
\* Modules.  A path is a sequence of names and a suffix; ".." in a specifier
\* goes up, and a path that leaves the workspace is None.
RECURSIVE Normalised(_, _)
Normalised(base, parts) ==
    IF parts = <<>> THEN base
    ELSE IF Head(parts) # ".." THEN Normalised(Append(base, Head(parts)), Tail(parts))
    ELSE IF base = <<>> THEN None
    ELSE Normalised(Front(base), Tail(parts))

JoinWorkspace(directory, parts) == Normalised(directory, parts)

\* The file itself, with each suffix, then an index file of the directory.
ResolvedFile(paths, candidate, suffix, suffixes) ==
    LET tries == IF suffix # "" THEN <<[name |-> candidate, suffix |-> suffix]>>
                 ELSE [i \in DOMAIN suffixes |-> [name |-> candidate, suffix |-> suffixes[i]]]
                      \o [i \in DOMAIN suffixes |-> [name |-> Append(candidate, "index"), suffix |-> suffixes[i]]]
        hits == {i \in DOMAIN tries : tries[i] \in paths}
    IN  IF candidate = None \/ hits = {} THEN None ELSE tries[Min(hits)]

\* The configurations above the source, nearest first; each tries its path
\* mappings and then its base.
ApplicableConfigs(configs, source) == SelectSeq(configs, LAMBDA c : IsPrefix(c.directory, Front(source.name)))

FirstResolved(tries) ==
    LET hits == {i \in DOMAIN tries : tries[i] # None} IN IF hits = {} THEN None ELSE tries[Min(hits)]

\* A workspace package: its export for the subpath, its default, or the file.
ResolvePackage(repo, specifier) ==
    LET named == {p \in repo.packages : IsPrefix(p.name, specifier.name)}
        package == CHOOSE p \in named : \A q \in named : Len(q.name) <= Len(p.name)
        subpath == SubSeq(specifier.name, Len(package.name) + 1, Len(specifier.name))
        target == IF subpath \in DOMAIN package.exports THEN package.exports[subpath]
                  ELSE IF subpath = <<>> THEN package.default ELSE subpath
    IN  IF named = {} THEN None
        ELSE ResolvedFile(repo.paths, JoinWorkspace(package.directory, target), "", repo.suffixes)

ResolveTypescript(repo, source, specifier) ==
    LET file(directory, parts) == ResolvedFile(repo.paths, JoinWorkspace(directory, parts), specifier.suffix, repo.suffixes)
        configs == ApplicableConfigs(repo.configs, source)
        mapped(c) == IF IsPrefix(c.alias, specifier.name) /\ c.alias # <<>>
                     THEN file(c.directory \o c.base, c.target \o SubSeq(specifier.name, Len(c.alias) + 1, Len(specifier.name)))
                     ELSE None
        tries == FlattenSeq([i \in DOMAIN configs |->
                    <<mapped(configs[i]), file(configs[i].directory \o configs[i].base, specifier.name)>>])
    IN  IF specifier.relative THEN file(Front(source.name), specifier.name)
        ELSE FirstResolved(Append(tries, ResolvePackage(repo, specifier)))

\* Leading dots go up from the source's directory, stopping at the root.
ResolvePython(repo, source, specifier) ==
    LET directory == Front(source.name)
        up == Max({0, Len(directory) - (specifier.level - 1)})
    IN  ResolvedFile(repo.paths, (IF specifier.level > 0 THEN SubSeq(directory, 1, up) ELSE <<>>) \o specifier.name,
                     "", <<"py">>)

\* The first source file of the package's directory that is not a test.
ResolveGo(repo, source, specifier) ==
    LET directory == IF specifier.relative THEN JoinWorkspace(Front(source.name), specifier.name)
                     ELSE IF repo.goModule # None /\ IsPrefix(repo.goModule, specifier.name)
                     THEN SubSeq(specifier.name, Len(repo.goModule) + 1, Len(specifier.name)) ELSE None
        files == {p \in repo.paths : p.suffix = "go" /\ Front(p.name) = directory}
    IN  IF directory = None \/ files = {} THEN None ELSE CHOOSE p \in files : TRUE

\* The generation must be of this workspace and this file.
ResolveModule(repo, source, specifier, generation) ==
    LET target == IF ~generation.mine THEN None
                  ELSE IF source.suffix \in Range(repo.suffixes) THEN ResolveTypescript(repo, source, specifier)
                  ELSE IF source.suffix = "py" THEN ResolvePython(repo, source, specifier)
                  ELSE IF source.suffix = "go" THEN ResolveGo(repo, source, specifier)
                  ELSE None
    IN  [target |-> target, complete |-> target # None /\ generation.complete]

----------------------------------------------------------------------------
\* Candidates become rows; only an exact, complete resolution is resolved.
Candidate(source, kind) == [source |-> source, target |-> None, status |-> "candidate", kind |-> kind]
ProviderRequired == [error |-> "semantic_provider_required"]

ResolveImport(mode, fragment, resolution) ==
    IF mode = "syntax_only" \/ fragment.dynamic THEN Candidate(fragment.path, "structural")
    ELSE IF mode = "semantic_required" /\ ~resolution.complete THEN ProviderRequired
    ELSE IF resolution.target = None THEN Candidate(fragment.path, "structural")
    ELSE [source |-> fragment.path, target |-> resolution.target, kind |-> "semantic",
          status |-> IF resolution.complete THEN "resolved" ELSE "partial"]

\* One row per location; a location outside the workspace stays a candidate.
ResolveCall(mode, fragment, resolver, resolution, paths) ==
    IF mode = "syntax_only" \/ fragment.dynamic THEN {Candidate(fragment.path, "structural")}
    ELSE IF resolver = None THEN
        {IF mode = "semantic_required" THEN ProviderRequired ELSE Candidate(fragment.path, "structural")}
    ELSE IF mode = "semantic_required" /\ (~resolution.complete \/ resolution.locations = {}) THEN {ProviderRequired}
    ELSE IF resolution.locations = {} THEN {Candidate(fragment.path, "structural")}
    ELSE {IF l \notin paths THEN Candidate(fragment.path, "semantic")
          ELSE [source |-> fragment.path, target |-> l, kind |-> "semantic",
                status |-> IF resolution.complete THEN "resolved" ELSE "partial"] : l \in resolution.locations}

----------------------------------------------------------------------------
\* Graph views.  Edges are taken from resolved rows alone.
EligibleEdges(rows, manifest) ==
    {<<r.source, r.target>> : r \in {x \in rows : x.status = "resolved" /\ x.target # None
                                                 /\ (x.kind = "semantic" \/ (manifest /\ x.kind = "manifest"))}}

\* Reverse reachability, breadth first, under row, depth, byte and time limits
\* (limits.time counts the nodes that are visited before the deadline).
Consumers(edges, node) == SetToSortSeq({e[1] : e \in {x \in edges : x[2] = node}}, <)

Reach(limits, current, walk, consumer) ==
    IF walk.stopped # None \/ consumer \in walk.visited THEN walk
    ELSE IF Len(walk.rows) >= limits.rows THEN [walk EXCEPT !.stopped = "rows"]
    ELSE IF walk.bytes + current.depth + 2 > limits.bytes THEN [walk EXCEPT !.stopped = "bytes"]
    ELSE [walk EXCEPT !.rows = Append(@, [path |-> consumer, depth |-> current.depth + 1]),
                      !.bytes = @ + current.depth + 2,
                      !.visited = @ \cup {consumer},
                      !.queue = Append(@, [node |-> consumer, depth |-> current.depth + 1])]

RECURSIVE Impacted(_, _, _)
Impacted(edges, limits, walk) ==
    IF walk.queue = <<>> \/ walk.stopped # None THEN walk
    ELSE IF walk.time = limits.time THEN [walk EXCEPT !.stopped = "time"]
    ELSE LET current == Head(walk.queue)
             rest == [walk EXCEPT !.queue = Tail(@), !.time = @ + 1]
             candidates == Consumers(edges, current.node)
         IN  Impacted(edges, limits,
                IF current.depth < limits.depth
                THEN FoldLeft(LAMBDA w, c : Reach(limits, current, w, c), rest, candidates)
                ELSE [rest EXCEPT !.deep = @ \/ \E i \in DOMAIN candidates : candidates[i] \notin walk.visited])

Impact(edges, seeds, limits) ==
    LET order == SetToSortSeq(seeds, <)
        walk == Impacted(edges, limits, [queue |-> [i \in DOMAIN order |-> [node |-> order[i], depth |-> 0]], rows |-> <<>>,
                                         visited |-> seeds, bytes |-> 0, time |-> 0, stopped |-> None, deep |-> FALSE])
    IN  [rows |-> walk.rows, truncated |-> walk.stopped # None \/ walk.deep]

\* Depth-first search with an explicit stack; a node is marked when it is pushed.
Targets(edges, node) == {e[2] : e \in {x \in edges : x[1] = node}}

RECURSIVE Unwind(_, _)
Unwind(edges, dfs) ==
    IF dfs.stack = <<>> THEN dfs
    ELSE LET top == Last(dfs.stack)
             below == Front(dfs.stack)
             fresh == Targets(edges, top.node) \ dfs.visited
             pushed == Reverse(SetToSortSeq(fresh, <))
         IN  Unwind(edges,
                IF top.expanded THEN [dfs EXCEPT !.stack = below, !.order = Append(@, top.node)]
                ELSE [dfs EXCEPT !.visited = @ \cup fresh,
                                 !.stack = below \o <<[node |-> top.node, expanded |-> TRUE]>>
                                           \o [i \in DOMAIN pushed |-> [node |-> pushed[i], expanded |-> FALSE]]])

FinishOrder(edges, nodes) ==
    FoldLeft(LAMBDA dfs, start :
                IF start \in dfs.visited THEN dfs
                ELSE Unwind(edges, [dfs EXCEPT !.visited = @ \cup {start}, !.stack = <<[node |-> start, expanded |-> FALSE]>>]),
             [visited |-> {}, order |-> <<>>, stack |-> <<>>], SetToSortSeq(nodes, <)).order

\* The components of the reversed graph, in reversed finish order.
RECURSIVE Backwards(_, _, _)
Backwards(edges, found, assigned) ==
    LET more == {e[1] : e \in {x \in edges : x[2] \in found}} \ (found \cup assigned)
    IN  IF more = {} THEN found ELSE Backwards(edges, found \cup more, assigned)

Cycles(edges) ==
    LET nodes == {e[1] : e \in edges} \cup {e[2] : e \in edges}
        components == FoldLeft(LAMBDA cs, start :
                          IF start \in UNION cs THEN cs ELSE cs \cup {Backwards(edges, {start}, UNION cs)},
                          {}, Reverse(FinishOrder(edges, nodes)))
    IN  {c \in components : Cardinality(c) > 1 \/ \E n \in c : <<n, n>> \in edges}

DeadCodeCandidates(symbols, entrypoints, consumed, complete, dynamic) ==
    {[symbol |-> s.id, certainty |-> IF complete /\ ~dynamic THEN "qualified_candidate" ELSE "uncertain"] :
       s \in {x \in symbols : x.status = "resolved" /\ x.kind = "semantic" /\ x.path \notin entrypoints \cup consumed}}

\* Each derived table from the rows of the request; a missing one is empty.
Materialize(upstream, seeds, limits, complete) ==
    LET dependencies == EligibleEdges(upstream.imports \cup upstream.manifest, TRUE)
        consumed == {e[2] : e \in EligibleEdges(upstream.imports \cup upstream.calls, FALSE)}
    IN  [dependencies |-> dependencies, impact |-> Impact(dependencies, seeds, limits).rows, cycles |-> Cycles(dependencies),
         dead |-> DeadCodeCandidates(upstream.symbols, upstream.entrypoints, consumed, complete, FALSE)]

----------------------------------------------------------------------------
\* References.

\* A complete frame holds every requested table and all it is derived from in
\* full, and no frame ever holds an excluded table.
FrameIsHonest(catalog, include, exclude, req) ==
    LET plan == TablePlan(catalog, include, exclude)
        frame == Execute(catalog, plan, req)
        needed == UNION {Closure(catalog, t, {}).tables : t \in include \ exclude}
    IN  /\ DOMAIN frame.tables \cap exclude = {}
        /\ DOMAIN frame.tables \subseteq needed
        /\ frame.status = "complete" =>
             /\ needed = DOMAIN frame.tables
             /\ \A t \in needed : req.producers[catalog[t].producer].rows[t] = frame.tables[t]
        /\ frame.status = "unsupported" => DOMAIN frame.tables \cap include = {}

\* What an impact that is not marked truncated lists is everything that
\* depends on a seed, each at its distance.
RECURSIVE Depth(_, _, _)
Depth(edges, from, n) == IF n = 0 THEN from ELSE LET near == Depth(edges, from, n - 1) IN near \cup {e[1] : e \in {x \in edges : x[2] \in near}}

ImpactIsComplete(edges, seeds, limits) ==
    LET result == Impact(edges, seeds, limits)
        nodes == Cardinality(edges) + 1
    IN  /\ \A i \in DOMAIN result.rows : LET r == result.rows[i] IN
             r.path \in Depth(edges, seeds, r.depth) /\ r.path \notin Depth(edges, seeds, r.depth - 1)
        /\ ~result.truncated => {result.rows[i].path : i \in DOMAIN result.rows} = Depth(edges, seeds, nodes) \ seeds
        /\ Len(result.rows) <= limits.rows

\* The derived tables of one request agree: what is called dead has no resolved
\* edge into its file, and every derived edge was a resolved row.
DerivedFromResolved(upstream, complete) ==
    LET out == Materialize(upstream, {1}, [rows |-> 9, depth |-> 9, bytes |-> 99, time |-> 9], complete)
        resolved == {r \in upstream.imports \cup upstream.calls \cup upstream.manifest : r.status = "resolved"}
    IN  /\ \A e \in out.dependencies : \E r \in resolved : r.source = e[1] /\ r.target = e[2]
        /\ \A s \in upstream.symbols, d \in out.dead : s.id = d.symbol =>
             /\ ~\E r \in upstream.imports \cup upstream.calls : r \in resolved /\ r.kind = "semantic" /\ r.target = s.path
             /\ d.certainty = "qualified_candidate" => complete
        /\ UNION out.cycles \subseteq {e[1] : e \in out.dependencies} \cup {e[2] : e \in out.dependencies}

\* The cycles are the strongly connected components with an edge inside.
Components(edges) ==
    LET nodes == {e[1] : e \in edges} \cup {e[2] : e \in edges}
        above(n) == Depth(edges, {n}, Cardinality(nodes))
        onCycle == {n \in nodes : n \in Depth(edges, {e[1] : e \in {x \in edges : x[2] = n}}, Cardinality(nodes))}
    IN  {{m \in nodes : m \in above(n) /\ n \in above(m)} : n \in onCycle}
CyclesAreComponents(edges) == Cycles(edges) = Components(edges)

\* Whatever lies on a cycle is in a reported component, and the reported
\* components are disjoint.
CyclesAreFound(edges) ==
    /\ UNION Components(edges) \subseteq UNION Cycles(edges)
    /\ \A a, b \in Cycles(edges) : a = b \/ a \cap b = {}

\* A row is resolved only when it was resolved completely to a captured file,
\* and a required provider that is incomplete is an error, never a guess.
EdgesAreExact(mode, fragment, resolution, paths) ==
    LET rows == ResolveCall(mode, fragment, "resolver", resolution, paths)
    IN  \A r \in rows : "error" \notin DOMAIN r =>
          /\ r.status = "resolved" => resolution.complete /\ r.target \in resolution.locations \cap paths
          /\ mode = "semantic_required" /\ ~fragment.dynamic => r.target # None \/ r.kind = "semantic"

\* A module resolves to a captured file, and a relative one below or above its
\* source, never outside the workspace; the import that names it is a resolved
\* edge only if the file was found in a complete view.
ModulesAreCaptured(repo, source, specifier, generation) ==
    LET r == ResolveModule(repo, source, specifier, generation)
    IN  /\ r.target # None => r.target \in repo.paths /\ generation.mine
        /\ r.complete => r.target # None /\ generation.complete
        /\ \A mode \in {"best_available", "semantic_required"}, dynamic \in BOOLEAN :
              LET edge == ResolveImport(mode, [path |-> source, dynamic |-> dynamic], r) IN
              "error" \notin DOMAIN edge =>
                  /\ edge.status = "resolved" => r.complete /\ edge.target \in repo.paths
                  /\ mode = "semantic_required" /\ ~dynamic => edge.status = "resolved"
        /\ specifier.relative /\ specifier.suffix # "" /\ generation.mine /\ source.suffix \in Range(repo.suffixes)
              => r.target = LET at == JoinWorkspace(Front(source.name), specifier.name) IN
                            IF \E p \in repo.paths : p.name = at /\ p.suffix = specifier.suffix
                            THEN [name |-> at, suffix |-> specifier.suffix] ELSE None
=============================================================================
