---------------------------- MODULE ProjectFacts ----------------------------
(***************************************************************************)
(* What the catalog reads off manifests and the TypeScript worker:         *)
(* projects, dependencies, tasks and configurations (catalog.projects),    *)
(* the bounded request that is sent to the worker for a project, and the   *)
(* merge of its answer into the facts (catalog.typescript).                *)
(*                                                                         *)
(* A path is [name, suffix], name being the sequence of its parts.  Files  *)
(* are a sequence in path order of [path, digest, bytes, body]; body is    *)
(* what parsing the file yields, None if it cannot be parsed.              *)
(***************************************************************************)
EXTENDS Integers, Sequences, SequencesExt, FiniteSets, FiniteSetsExt

CONSTANTS None, MaxClosure, MaxProjectSources, MaxProjectBytes

Directory(path) == Front(path.name)
Paths(files) == {files[i].path : i \in DOMAIN files}
Named(path, stem, suffix) == Last(path.name) = stem /\ path.suffix = suffix

----------------------------------------------------------------------------
\* A specifier "catalog:" or "catalog:<name>" stands for the entry of that
\* catalog, the default one being named "".
Resolve(catalogs, package, specifier) ==
    IF specifier.catalog = None THEN specifier.version
    ELSE IF <<specifier.catalog, package>> \in DOMAIN catalogs THEN catalogs[<<specifier.catalog, package>>]
    ELSE None

Evidence(file) == [path |-> file.path, digest |-> file.digest]
Declared(project, file, package, specifier, resolved, scope) ==
    [project |-> project, package |-> package, specifier |-> specifier, resolved |-> resolved, scope |-> scope,
     usage |-> "declared", evidence |-> Evidence(file)]

NodeProject(file, catalogs) ==
    LET id == <<"node", Directory(file.path)>> IN
    [project |-> [id |-> id, kind |-> "node", root |-> Directory(file.path), name |-> file.body.name,
                  frameworks |-> {<<"next">>, <<"react">>} \cap {d.package : d \in file.body.dependencies},
                  evidence |-> Evidence(file)],
     dependencies |-> {Declared(id, file, d.package, d.specifier, Resolve(catalogs, d.package, d.specifier), d.scope) :
                         d \in file.body.dependencies},
     scripts |-> {[project |-> id, name |-> s.name, command |-> s.command, typecheck |-> s.name = "typecheck"] :
                    s \in file.body.scripts}]

PythonProject(file) ==
    LET id == <<"python", Directory(file.path)>> IN
    [project |-> [id |-> id, kind |-> "python", root |-> Directory(file.path), name |-> file.body.name,
                  frameworks |-> {}, evidence |-> Evidence(file)],
     dependencies |-> {Declared(id, file, d.package, d.specifier, d.specifier, "runtime") : d \in file.body.dependencies},
     scripts |-> {}]

\* The innermost project of the kind whose root holds the path.
ProjectForPath(projects, path, kind) ==
    LET owners == {p \in projects : p.kind = kind /\ IsPrefix(p.root, Directory(path))}
    IN  IF owners = {} THEN None ELSE CHOOSE p \in owners : \A q \in owners : Len(q.root) <= Len(p.root)

----------------------------------------------------------------------------
\* Turbo.  A task file belongs to the package of its own directory; a task id
\* and a word of a command are sequences, <<package, task>> for package#task.
TurboTasks(files, projects) ==
    LET turbo == {i \in DOMAIN files : Named(files[i].path, "turbo", "json")}
        owner(i) == {p \in projects : p.kind = "node" /\ p.root = Directory(files[i].path)}
        good == {i \in turbo : owner(i) # {} /\ files[i].body # None}
    IN  [tasks |-> UNION {{[project |-> p.id, task |-> t, extends |-> p.root # <<>>] : t \in files[i].body, p \in owner(i)} : i \in good},
         warnings |-> turbo \ good]

TaskIds(tasks, project) == {t.task : t \in {t \in tasks : t.project = project \/ ~t.extends}}

Separators == {<<"&&">>, <<"||">>}
IsFlag(word) == word[1] = "-"

\* Words after "turbo" and an optional "run" are tasks up to a flag or a
\* separator; what follows that is skipped until the next "turbo".
TaskWord(known, scan, word) ==
    IF scan.mode = "outside" THEN [scan EXCEPT !.mode = IF word = <<"turbo">> THEN "called" ELSE "outside"]
    ELSE IF IsFlag(word) \/ word \in Separators THEN [scan EXCEPT !.mode = "outside"]
    ELSE IF scan.mode = "called" /\ word = <<"run">> THEN [scan EXCEPT !.mode = "inside"]
    ELSE [mode |-> "inside",
          matched |-> scan.matched \cup (IF word \in known \/ <<Last(word)>> \in known THEN {word} ELSE {})]

TurboTaskIds(command, known) ==
    FoldLeft(LAMBDA scan, word : TaskWord(known, scan, word), [mode |-> "outside", matched |-> {}], command).matched

----------------------------------------------------------------------------
\* Configurations.  ".." goes up; a path above the workspace is not captured.
Normalised(parts) ==
    FoldLeft(LAMBDA base, part : IF part # ".." THEN Append(base, part)
                                 ELSE IF base = <<>> \/ Last(base) = ".." THEN Append(base, "..") ELSE Front(base),
             <<>>, parts)

ResolveConfigReference(config, reference, captured) ==
    LET candidate == Normalised(Directory(config) \o reference.name)
        tries == <<[name |-> candidate, suffix |-> reference.suffix]>>
                 \o (IF reference.suffix = "" THEN <<[name |-> candidate, suffix |-> "json"],
                                                     [name |-> Append(candidate, "tsconfig"), suffix |-> "json"]>> ELSE <<>>)
        hits == {i \in DOMAIN tries : tries[i] \in captured}
    IN  IF ~reference.relative \/ hits = {} THEN None ELSE tries[Min(hits)]

\* The configuration and what it names directly, not what those name in turn.
TypescriptConfigClosure(file, captured) ==
    LET resolved == {ResolveConfigReference(file.path, r, captured) : r \in file.body}
    IN  IF file.body = None THEN [closure |-> {file.path}, complete |-> FALSE]
        ELSE [closure |-> {file.path} \cup (resolved \ {None}), complete |-> None \notin resolved]

IsTypescriptConfig(path) == \E stem \in {"jsconfig", "tsconfig"} : Named(path, stem, "json")
IsNextConfig(path) == \E suffix \in {"js", "mjs", "ts"} : Named(path, "next.config", suffix)
ProjectConfigs(files, project) ==
    LET captured == Paths(files)
        own == SelectSeq(files, LAMBDA f : Directory(f.path) = project.root /\ (IsTypescriptConfig(f.path) \/ IsNextConfig(f.path)))
        row(f, kind, c) == [project |-> project.id, path |-> f.path, kind |-> kind, closure |-> c.closure, complete |-> c.complete]
    IN  [i \in DOMAIN own |->
            IF IsTypescriptConfig(own[i].path) THEN row(own[i], "typescript", TypescriptConfigClosure(own[i], captured))
            ELSE row(own[i], "nextjs", [closure |-> {own[i].path}, complete |-> TRUE])]

----------------------------------------------------------------------------
\* Declared engines and the route of a project with a configuration or a
\* source; nothing of it counts as loaded.
EnginePackages == {<<"ts-morph">>, <<"typescript">>, <<"native">>, <<"language-server">>}
TypescriptRoute(project, dependencies, scripts, configs) ==
    LET declared == {d.package : d \in {d \in dependencies : d.project = project.id /\ d.usage = "declared"}}
        checks == {s \in scripts : s.project = project.id /\ s.typecheck}
        config == IF configs = <<>> THEN None ELSE Head(configs)
    IN  [project |-> project.id, config |-> IF config = None THEN None ELSE config.path,
         closure |-> IF config = None THEN {} ELSE config.closure,
         engines |-> {<<"declared", project.id, p>> : p \in declared \cap EnginePackages},
         typecheck |-> IF checks = {} THEN None ELSE (CHOOSE s \in checks : TRUE).command,
         parity |-> "not_run", complete |-> FALSE]

RouteSources == {"ts", "tsx", "mts", "cts", "js", "jsx"}
TypescriptRoutes(files, projects, dependencies, scripts) ==
    LET typescript(p) == SelectSeq(ProjectConfigs(files, p), LAMBDA c : c.kind = "typescript")
        sourced(p) == \E f \in ToSet(files) : f.path.suffix \in RouteSources /\ ProjectForPath(projects, f.path, "node") = p
    IN  {TypescriptRoute(p, dependencies, scripts, typescript(p)) :
            p \in {p \in projects : p.kind = "node" /\ (typescript(p) # <<>> \/ sourced(p))}}

\* A manifest that cannot be parsed is a warning, and the others are kept.
IsManifest(path) == Named(path, "package", "json") \/ Named(path, "pyproject", "toml")
Parsed(files, catalogs) ==
    LET read == SelectSeq(files, LAMBDA f : IsManifest(f.path) /\ f.body # None)
    IN  [i \in DOMAIN read |-> IF read[i].path.suffix = "json" THEN NodeProject(read[i], catalogs) ELSE PythonProject(read[i])]

ExtractFrom(files, parsed, projects, turbo) ==
    LET dependencies == UNION {parsed[i].dependencies : i \in DOMAIN parsed}
        scripts == {s @@ [tasks |-> TurboTaskIds(s.command, TaskIds(turbo.tasks, s.project))] :
                      s \in UNION {parsed[i].scripts : i \in DOMAIN parsed}}
        routes == TypescriptRoutes(files, ToSet(projects), dependencies, scripts)
    IN  [projects |-> projects, dependencies |-> dependencies, tasks |-> turbo.tasks, scripts |-> scripts,
         configs |-> FlattenSeq([i \in DOMAIN projects |-> ProjectConfigs(files, projects[i])]),
         engines |-> UNION {r.engines : r \in routes}, routes |-> routes,
         symbols |-> {}, imports |-> {}, diagnostics |-> {},
         warnings |-> Cardinality({i \in DOMAIN files : IsManifest(files[i].path) /\ files[i].body = None}) + Cardinality(turbo.warnings)]

ExtractProjects(files, parsed) ==
    LET projects == [i \in DOMAIN parsed |-> parsed[i].project]
    IN  ExtractFrom(files, parsed, projects, TurboTasks(files, ToSet(projects)))
Extract(files, catalogs) == ExtractProjects(files, Parsed(files, catalogs))

----------------------------------------------------------------------------
\* Requests.  Of two projects with one name the later one is meant.
ProjectNamed(nodes, name) ==
    LET named == {i \in DOMAIN nodes : nodes[i].name = name}
    IN  IF named = {} THEN None ELSE nodes[Max(named)]

\* The projects a project's declared dependencies name, and theirs.  The
\* bound is looked at before a project is expanded, not while it is.
RECURSIVE Grown(_, _, _, _)
Grown(nodes, dependencies, selected, pending) ==
    LET current == Last(pending)
        named == {d.package : d \in {d \in dependencies : d.project = current.id /\ d.usage = "declared"}}
        new == {ProjectNamed(nodes, n) : n \in named} \ (selected \cup {None})
    IN  IF pending = <<>> \/ Cardinality(selected) >= MaxClosure THEN selected
        ELSE Grown(nodes, dependencies, selected \cup new, Front(pending) \o SetToSeq(new))

DependencyProjectClosure(nodes, dependencies, project) == Grown(nodes, dependencies, {project}, <<project>>)

SourceSuffixes == RouteSources \cup {"mjs", "cjs"}
NodeProjects(facts) == SelectSeq(facts.projects, LAMBDA p : p.kind = "node")
ConfigOf(facts, project) ==
    LET rows == SelectSeq(facts.configs, LAMBDA c : c.project = project.id /\ c.kind = "typescript")
    IN  IF rows = <<>> THEN None ELSE Head(rows)

RequestPaths(facts, project, paths) ==
    LET nodes == NodeProjects(facts)
        closure == DependencyProjectClosure(nodes, facts.dependencies, project)
        config == ConfigOf(facts, project)
        owner(p) == ProjectForPath(ToSet(nodes), p, "node")
        own == {p \in paths : owner(p) = project /\ p.suffix \in SourceSuffixes}
    IN  [own |-> own,
         required |-> own \cup (IF config = None THEN {} ELSE config.closure)
                          \cup {p \in paths : owner(p) \in closure /\ p.suffix \in SourceSuffixes \cup {"json"}}]

\* What has to be captured for the requests of some projects, {} being all.
SelectedProjects(facts, ids) == SelectSeq(NodeProjects(facts), LAMBDA p : ids = {} \/ p.id \in ids)
TypescriptRequestPaths(facts, paths, ids) ==
    UNION {LET r == RequestPaths(facts, p, paths) IN IF r.own = {} THEN {} ELSE r.required : p \in ToSet(SelectedProjects(facts, ids))}

\* The supplied sources stop at the first file that would exceed a bound.
Supplied(files) ==
    LET bytes(n) == FoldLeft(LAMBDA sum, f : sum + f.bytes, 0, SubSeq(files, 1, n))
        fits(n) == n <= MaxProjectSources /\ bytes(n) <= MaxProjectBytes
    IN  SubSeq(files, 1, Max({n \in 0..Len(files) : \A k \in 0..n : fits(k)}))

Request(facts, project, files) ==
    LET r == RequestPaths(facts, project, Paths(files))
        config == ConfigOf(facts, project)
        sources == Supplied(SelectSeq(files, LAMBDA f : f.path \in r.required))
        roots == r.own \cap Paths(sources)
    IN  [project |-> project.id, sources |-> sources, roots |-> roots,
         config |-> IF config # None /\ config.path \in Paths(sources) THEN config.path ELSE None]

BuildTypescriptRequests(facts, files, ids) ==
    {r \in {Request(facts, p, files) : p \in ToSet(SelectedProjects(facts, ids))} : r.roots # {}}

----------------------------------------------------------------------------
\* The merge of an answer.  A specifier is [local, scoped, parts].
PackageName(specifier) ==
    IF specifier.local THEN None
    ELSE SubSeq(specifier.parts, 1, IF specifier.scoped /\ Len(specifier.parts) >= 2 THEN 2 ELSE 1)

SourceAt(request, path) ==
    LET at == {f \in ToSet(request.sources) : f.path = path} IN IF at = {} THEN None ELSE CHOOSE f \in at : TRUE
Used(d) == <<d.evidence.path, d.package, d.usage>>

\* Of a package declared in several scopes the last in order is meant.
Scopes == <<"development", "optional", "peer", "runtime">>
DeclaredAs(declared, package, specifier) ==
    LET in(i) == {d \in declared : d.package = package /\ d.scope = Scopes[i]}
        at == {i \in DOMAIN Scopes : in(i) # {}}
    IN  IF at = {} THEN [specifier |-> specifier, resolved |-> None, scope |-> "runtime"] ELSE CHOOSE d \in in(Max(at)) : TRUE

\* An import of a package becomes a row once per file, package and usage,
\* with the specifier that was declared, if any was.
MergeDependency(request, declared, rows, imported) ==
    LET source == SourceAt(request, imported.path)
        package == PackageName(imported.specifier)
        binding == DeclaredAs(declared, package, imported.specifier)
        seen == {Used(d) : d \in {d \in rows : d.project = request.project /\ d.usage # "declared"}}
    IN  IF source = None \/ package = None \/ <<imported.path, package, imported.usage>> \in seen THEN rows
        ELSE rows \cup {[project |-> request.project, package |-> package, specifier |-> binding.specifier,
                         resolved |-> binding.resolved, scope |-> binding.scope,
                         usage |-> imported.usage, evidence |-> Evidence(source)]}

MergeTypescriptDependencies(facts, request, analysis) ==
    LET declared == {d \in facts.dependencies : d.project = request.project /\ d.usage = "declared"}
    IN  [facts EXCEPT !.dependencies =
            FoldLeft(LAMBDA rows, imported : MergeDependency(request, declared, rows, imported), @, analysis.imports)]

\* Rows of the project are replaced; a row about a file that was not sent is
\* dropped, a diagnostic without a file is about the configuration.
MergeTypescriptSemanticFacts(facts, request, analysis) ==
    LET row(r, path) == [project |-> request.project, row |-> r, evidence |-> Evidence(SourceAt(request, path))]
        sent(path) == SourceAt(request, path) # None
        place(d) == IF d.path # None THEN d.path ELSE IF request.config # None THEN request.config ELSE request.sources[1].path
        others(rows) == {r \in rows : r.project # request.project}
    IN  [facts EXCEPT
            !.symbols = others(@) \cup {row(s, s.path) : s \in {s \in analysis.symbols : sent(s.path)}},
            !.diagnostics = others(@) \cup {row(d, place(d)) : d \in {d \in analysis.diagnostics : sent(place(d))}},
            !.imports = others(@) \cup {row(m, m.path) : m \in {m \in ToSet(analysis.imports) : sent(m.path)}}]

EngineFacts(request, engine, binary) ==
    {<<"loaded", request.project, engine, role>> : role \in {"package", "compiler", "api"} \cup (IF binary THEN {"binary"} ELSE {})}

\* The route is replaced, but for what only the manifest tells.
MergeTypescriptAnalysis(facts, request, analysis) ==
    LET merged == MergeTypescriptSemanticFacts(MergeTypescriptDependencies(facts, request, analysis), request, analysis)
        previous == {r \in merged.routes : r.project = request.project}
        kept(field, default) == IF previous = {} THEN default ELSE (CHOOSE r \in previous : TRUE)[field]
        route == [project |-> request.project, config |-> request.config, closure |-> kept("closure", {}),
                  engines |-> EngineFacts(request, "ts-morph", FALSE) \cup EngineFacts(request, "native", analysis.binary),
                  typecheck |-> kept("typecheck", None), parity |-> analysis.parity, complete |-> ~analysis.warned]
    IN  [merged EXCEPT
            !.engines = {e \in @ : ~(e[1] = "loaded" /\ e[2] = request.project)} \cup route.engines,
            !.routes = (@ \ previous) \cup {route}]

\* Offsets in UTF-16 units become offsets in bytes; a position inside a
\* surrogate pair falls back to the start of its character.
ByteBound(text, units) ==
    LET sum(field, n) == FoldLeft(LAMBDA s, c : s + c[field], 0, SubSeq(text, 1, n))
    IN  sum("bytes", Max({n \in 0..Len(text) : sum("units", n) <= units}))

----------------------------------------------------------------------------
\* A reference for the scan of a command: the words between the first "turbo"
\* since the last flag or separator and the next one.
Called(command, i) ==
    LET breaks == {k \in 1..i : IsFlag(command[k]) \/ command[k] \in Separators}
        since == IF breaks = {} THEN 0 ELSE Max(breaks)
        calls == {k \in since + 1..i - 1 : command[k] = <<"turbo">>}
    IN  calls # {} /\ ~(command[i] = <<"run">> /\ i = Min(calls) + 1) /\ i # since
TasksAreCalled(command, known) ==
    TurboTaskIds(command, known) = {command[i] : i \in {i \in DOMAIN command :
        Called(command, i) /\ {command[i], <<Last(command[i])>>} \cap known # {}}}

\* Below the bound the closure is the least set of projects closed under the
\* declared dependencies, and it is cut nowhere else.
DependsOn(facts, p) ==
    {ProjectNamed(NodeProjects(facts), d.package) : d \in {d \in facts.dependencies : d.project = p.id /\ d.usage = "declared"}} \ {None}
ClosureIsReached(facts) ==
    \A p \in ToSet(NodeProjects(facts)) :
        LET closure == DependencyProjectClosure(NodeProjects(facts), facts.dependencies, p)
            closed(S) == p \in S /\ \A q \in S : DependsOn(facts, q) \subseteq S
        IN  /\ \A q \in closure \ {p} : \E r \in closure : q \in DependsOn(facts, r)
            /\ Cardinality(closure) < MaxClosure => closed(closure) /\ \A S \in SUBSET closure : closed(S) => S = closure

\* Whatever projects are selected: the files captured for their requests are
\* enough to build the requests the whole workspace would give; and a request
\* names only roots and a configuration that it supplies.
RequestsAreCaptured(facts, files, ids) ==
    LET needed == TypescriptRequestPaths(facts, Paths(files), ids)
    IN  \A whole \in {BuildTypescriptRequests(facts, files, ids)} :
        /\ BuildTypescriptRequests(facts, SelectSeq(files, LAMBDA f : f.path \in needed), ids) = whole
        /\ \A r \in whole :
            /\ r.roots \cup ({r.config} \ {None}) \subseteq Paths(r.sources)
            /\ \A p \in r.roots : ProjectForPath(ToSet(facts.projects), p, "node").id = r.project
            /\ Len(r.sources) <= MaxProjectSources

\* A configuration is complete only if all it names is in its closure, and
\* the closure holds captured files.
ConfigsAreCaptured(facts, files) ==
    \A c \in ToSet(facts.configs) :
        /\ c.path \in c.closure /\ c.closure \subseteq Paths(files)
        /\ c.kind = "typescript" /\ c.complete =>
            \A f \in ToSet(files) : f.path = c.path => \A r \in f.body : ResolveConfigReference(c.path, r, c.closure) # None

\* Merging an answer twice changes nothing more, answers for different
\* projects may come in either order, and rows of other projects stay; a file
\* uses a package once however often it imports it; every row of the project
\* is about a file that was sent, with its digest.
MergeIsLocal(facts, first, one, second, two) ==
    \A merged \in {MergeTypescriptAnalysis(facts, first, one)} :
    LET fields == {"symbols", "imports", "diagnostics", "routes"}
    IN  /\ MergeTypescriptAnalysis(merged, first, one) = merged
        /\ MergeTypescriptAnalysis(merged, second, two) = MergeTypescriptAnalysis(MergeTypescriptAnalysis(facts, second, two), first, one)
        /\ \A f \in fields : {r \in merged[f] : r.project # first.project} = {r \in facts[f] : r.project # first.project}
        /\ facts.dependencies \subseteq merged.dependencies
        /\ \A d, e \in merged.dependencies : d.usage # "declared" /\ d.project = e.project /\ Used(d) = Used(e) => d = e
        /\ \A r \in merged.symbols \cup merged.imports \cup merged.diagnostics \cup (merged.dependencies \ facts.dependencies) :
            r.project = first.project => r.evidence \in {Evidence(f) : f \in ToSet(first.sources)}

\* Byte offsets keep the order of the units they stand for.
BoundsAreOrdered(text, start, end) == start <= end => ByteBound(text, start) <= ByteBound(text, end)
=============================================================================
