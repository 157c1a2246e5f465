---------------------------- MODULE MCAlgorithms ----------------------------
(***************************************************************************)
(* Bounded inputs for the pure algorithms.  A behaviour picks one input of *)
(* one algorithm; the invariants compare what the algorithm returns for it *)
(* with its reference.                                                     *)
(***************************************************************************)
EXTENDS Integers, Sequences, SequencesExt, FiniteSets, FiniteSetsExt

CONSTANTS
    ChunkBytes, ChunkLines,                            \* CatalogReads
    Wide, LF, CR, Error, MaxFiles, MaxEdits, MaxBytes, \* TextEdits
    None, MaxFragments, MaxRuleFiles, MaxRuleDirs,
    Star, AnyChar, Globstar,                           \* StructuralSearch
    MaxNameMatches,                                    \* SemanticResolver
    ExcerptBytes, MaxSources, MaxGaps, MaxWarnings,    \* ServiceResponses
    MaxInferred,                                       \* Governance
    ExcerptLines,                                      \* SearchHydration
    MaxClosure, MaxProjectSources, MaxProjectBytes     \* ProjectFacts

VARIABLES alg, input

Read == INSTANCE CatalogReads
Text == INSTANCE TextEdits
Search == INSTANCE StructuralSearch
Semantic == INSTANCE SemanticResolver
Service == INSTANCE ServiceResponses
Authority == INSTANCE Governance
Graph == INSTANCE RelationGraph
Logs == INSTANCE LogRedaction WITH Marker <- <<"r", "r">>, RedactionChunk <- 2, MaxSecret <- 3
Project == INSTANCE ProjectFacts
Next16 == INSTANCE NextRoutes
Hits == INSTANCE SearchHydration WITH PackagedRules <- {<<"packaged", "r">>}

vars == <<alg, input>>

Init == alg = "none" /\ input = <<>>

UpTo(S, n) == UNION {[1..k -> S] : k \in 0..n}
Runs(name, in) == alg' = name /\ input' = in

----------------------------------------------------------------------------
Chunks == \E content \in UpTo(UpTo({1, 2}, 3), 3) : Runs("chunks", content)
Reads ==
    \E matching \in SUBSET (1..4), limit \in 1..4, depth \in 0..2 :
    \E edges \in SUBSET {<<1, 2>>, <<1, 5>>, <<2, 3>>, <<2, 6>>, <<3, 6>>, <<5, 6>>} :
        Runs("reads", <<matching, edges, limit, depth>>)
Relations ==
    \E tokens \in [1..4 -> SUBSET {"a", "b", "c"}] :
        Runs("relations", {[key |-> k, tokens |-> tokens[k]] : k \in 1..4})

Snapshots == UNION {[paths -> {"d1", "d2"}] : paths \in SUBSET (1..3)}
Changes == \E old, new \in Snapshots : Runs("changes", <<old, new>>)
Imports ==
    \E declared \in SUBSET ({"p", "q"} \X {"x", "y"}),
       imports \in UpTo([path : 1..2, project : {"p", "q"}, module : {"m", "n"}, relative : BOOLEAN, python : {TRUE}, structural : {TRUE}], 2) :
        /\ \A i, j \in DOMAIN imports : imports[i].path = imports[j].path => imports[i].project = imports[j].project
        /\ Runs("imports", <<declared, imports, [m |-> <<"x", "y">>, n |-> <<"y">>]>>)
Route(digest, methods, complete) == [key |-> "k", path |-> 1, digest |-> digest, methods |-> methods, complete |-> complete]
Routes ==
    LET routes == {Route(d, m, c) : d \in {"d1", "d2"}, m \in {"", "GET", "PUT"}, c \in BOOLEAN} IN
    \E previous \in UpTo(routes, 2), current \in [1..1 -> {r \in routes : r.methods = ""}], paths \in {{}, {1}} :
        Runs("routes", <<previous, current, paths>>)
Plan(full, startup, attempted, required) == [full |-> full, startup |-> startup, attempted |-> attempted, required |-> required]
Restores ==
    LET full == Plan(TRUE, FALSE, {"s", "m"}, {})
        authority == Plan(FALSE, FALSE, {"s", "a"}, {"s", "a"})
        base(wide) == Plan(wide, TRUE, {"s"}, {"s"}) IN
    \E plan \in {full, authority} : \E planned \in {plan, base(plan.full), full} :
    \E tables \in SUBSET {"s", "m", "a"}, chunks \in {{}, {1}}, changed, enriched \in BOOLEAN, state \in {"READY", "BUILDING"},
       number \in 1..2, built \in {"c1", "c2"}, at, bundle \in {"i1", "i2"}, written \in {"i1", "i2"} :
        Runs("restores", <<[identity |-> "i1", tables |-> tables, chunks |-> chunks, changed |-> changed, enriched |-> enriched, state |-> state],
                           plan, base(plan.full), planned, [number |-> 1, identity |-> written, built |-> built, digest |-> built],
                           [digest |-> "c1", generation |-> [number |-> number, identity |-> at], bundle |-> bundle]>>)
SeedRow(key, kind, project, id) == [key |-> key, kind |-> kind, project |-> project, id |-> id, path |-> "f"]
Seeds ==
    \E kinds \in [1..3 -> {"symbol", "dependency", "file"}], projects \in [1..3 -> {"", "p", "q"}], ids \in [1..3 -> {"x", "y"}],
       seed \in {<<"path", "f">>, <<"project", "p">>, <<"symbol", "p", "x">>, <<"dependency", "q", "y">>} :
        Runs("seeds", <<{SeedRow(k, kinds[k], projects[k], ids[k]) : k \in 1..3}, seed>>)
Owned ==
    \E rows \in UpTo([kind : {"policy", "binding", "file"}, policy : {"p", "q"}, paths : {{}, {"p"}, {"n"}}, aliases : {{}, {"p", "n"}}], 3),
       name \in {"p", "n"} :
        /\ \A i, j \in DOMAIN rows : i < j => rows[i].kind # "file" /\ (rows[i].policy = rows[j].policy => rows[i].kind # rows[j].kind)
        /\ Runs("owned", <<ToSet(rows), name>>)
WordReads ==
    \E words \in [1..4 -> {{}, {"u"}, {"u", "v"}}], paths \in [1..4 -> {"f", "g"}], query \in {{}, {"u"}, {"u", "v"}}, prefixes \in {{}, {"f"}},
       limit \in 2..3, state \in {"READY", "FAILED"} :
        /\ limit = 3 => state = "READY"
        /\ Runs("word reads", <<{[key |-> k, words |-> words[k], path |-> paths[k]] : k \in 1..4}, query, prefixes, limit, state>>)

----------------------------------------------------------------------------
Texts == UpTo({"a", Wide, LF, CR}, 4)
Patches(s) == {Text!Patch(a, b, new) : a, b \in Text!Boundaries(s), new \in {<<>>, <<"b">>}}

Positions == \E s \in Texts : Runs("positions", s)
Edits ==
    \E s \in UpTo({"a", Wide, LF}, 3) : \E p, q \in Patches(s) : Runs("edits", <<s, {p, q}>>)

Shapes(p, q) ==
    {<<[file |-> 1, version |-> v, patches |-> <<p, q>>]>> : v \in {1, 2}}
    \cup {<<[file |-> 1, version |-> 0, patches |-> <<p>>], [file |-> f, version |-> f, patches |-> <<q>>]>> : f \in 1..2}
WorkspaceEdits ==
    \E s \in {<<"a", Wide>>, <<Wide, LF>>, <<LF, Wide>>} :
    \E p \in Patches(s), q \in {r \in Patches(s) : r.new # <<>>} : \E entries \in Shapes(p, q) :
    \E live \in {s, <<"c">>} :
        /\ live # s => Len(entries) = 2
        /\ Runs("workspace edits", <<[annotated |-> FALSE, resource |-> FALSE, entries |-> entries],
                                     <<s, s>>, <<s, live>>, <<1, 2>>>>)
Diffs == \E s \in UpTo({"a", Wide}, 4), limit \in 0..9 : Runs("diffs", <<s, limit>>)

\* editor/preview.py and contracts/positions.py: however line ends and wide
\* characters mix, a position survives the way through the language server's
\* units and back; and edits that are accepted are applied as if all at once,
\* while any two that touch the same text are refused.
EditsAreSimultaneous ==
    /\ alg = "positions" => Text!PositionRoundTrip(input)
    /\ alg = "edits" => Text!EditsAreSimultaneous(input[1], input[2])
    /\ alg = "workspace edits" => Text!WorkspaceEditIsExact(input[1], input[2], input[3], input[4])
    /\ alg = "diffs" => Text!DiffIsBounded(input[1], input[2])

----------------------------------------------------------------------------
Tokens == {Star, [literal |-> "a"], [set |-> {"a"}, negated |-> TRUE]}
Segments == {Globstar, <<AnyChar>>} \cup UpTo(Tokens, 2)
Patterns ==
    \E segs \in UpTo(Segments, 2) \cup {<<Globstar, <<Star>>, Globstar>>, <<<<AnyChar>>, Globstar, <<Star>>>>} :
    \E path \in UpTo({<<"a">>, <<"a", "b">>, <<"b">>}, 3) :
    \E rooted, directory \in BOOLEAN :
        /\ (rooted \/ directory) => Len(segs) < 2
        /\ segs # <<>> => Head(segs) # <<>>
        /\ Runs("patterns", <<[rooted |-> rooted, directory |-> directory, segments |-> segs], path>>)

----------------------------------------------------------------------------
Jobs ==
    \E query \in {None, 0, 1}, limit \in {None, 0, 1, MaxFragments}, content \in {"ok", "big", "not utf-8"},
       language \in {"PostgreSQL", "Python"}, context \in {None, "same path", "other path"},
       projections \in {<<"syntax.declarations">>, <<"syntax.imports", "syntax.declarations">>}, rules \in {<<>>, <<"r">>},
       supports \in {{"syntax.imports"}, {"syntax.declarations", "r"}}, found \in {<<1>>, <<1, 2>>}, parsed \in BOOLEAN :
        Runs("jobs", <<[query |-> query, limit |-> limit, content |-> content, language |-> language,
                        context |-> context, projections |-> projections, rules |-> rules],
                       [registered |-> {"syntax.declarations", "syntax.imports"}, supports |-> supports \X {language},
                        parsers |-> IF parsed THEN {language} ELSE {}, packaged |-> {"r"}, parses |-> TRUE,
                        rows |-> [p \in {"syntax.declarations", "syntax.imports", "r"} |-> found]]>>)
Spans == {[file |-> f, from |-> a, to |-> b] : f \in {1}, a \in 0..2, b \in 1..3}
Transforms == {<<>>, <<[kind |-> "substring", name |-> "A", case |-> None]>>, <<[kind |-> "convert", name |-> "A", case |-> None]>>,
               <<[kind |-> "convert", name |-> "A", case |-> "camel"], [kind |-> "replace", name |-> "B", case |-> None]>>}
Findings ==
    \E one \in {S \in SUBSET {s \in Spans : s.from < s.to} : Cardinality(S) <= 3}, max \in 1..3 :
    \E two \in {<<>>, <<None>>, <<{[file |-> 2, from |-> 0, to |-> 1]}>>} :
    \E fix \in {None, "template", "expansion"}, transforms \in Transforms, language \in {"Go", "SQL"} :
        Runs("findings", <<[language |-> language, matcher |-> "pattern", fix |-> fix, transforms |-> transforms,
                            captures |-> {"X"}, edits |-> TRUE, max |-> max], <<one>> \o two, {"Go"}>>)
Document(id, at, language, includes, ignores, pinned) ==
    [id |-> id, at |-> at, language |-> language, includes |-> includes, ignores |-> ignores,
     answer |-> [engine |-> "rust", pinned |-> pinned]]
RuleDirs ==
    LET files == {None} \cup UpTo({None, Document(1, "a", "Go", {}, {}, TRUE), Document(1, "b", "Go", {}, {}, TRUE),
                                   Document(2, "c", "Go", {}, {}, TRUE)}, 2) IN
    \E one \in {None} \cup UpTo(files, 1), two \in {<<>>} \cup UpTo({None, <<>>} \cup {<<f>> : f \in files}, 1),
       packaged \in {{}, {2}}, id \in 1..2 :
        Runs("rules", <<<<one>> \o two, packaged, id>>)
Scanned(name, language, spans) == [name |-> name, language |-> language, spans |-> spans]
Hit(f, a, b) == [file |-> f, from |-> a, to |-> b]
Scans ==
    \E one, two \in {Document(1, "a", language, includes, ignores, pinned) :
                        language \in {"Go", "C"}, includes \in {{}, {1, 2}}, ignores \in {{}, {2}}, pinned \in BOOLEAN} :
    \E limit \in 1..4, ids \in {{}, {1}, {2, 3}}, prefixes \in {{}, {2}}, third \in {None, {Hit(3, 0, 2), Hit(3, 1, 3)}, {}} :
        Runs("scans", <<<<<<<<one, [two EXCEPT !.id = 2]>>>>>>, ids,
                        [limit |-> limit, prefixes |-> prefixes, backend |-> "rust", languages |-> {"Go", "C"},
                         files |-> {Scanned(1, "Go", {Hit(1, 0, 3), Hit(1, 1, 2), Hit(1, 4, 5)}), Scanned(2, "Go", {Hit(2, 0, 1)}),
                                    Scanned(3, "C", third)}]>>)

\* structural/path_patterns.py, supervisor.py, worker.py and standards.py: the
\* compiled form of a path pattern matches what the pattern says; the worker
\* accepts every job its parent's checks let through; findings do not overlap
\* and lose none silently; a scan that is not marked incomplete has every row.
SearchIsFaithful ==
    /\ alg = "patterns" => /\ Search!MatchesAsSpecified(input[1], input[2])
                           /\ Search!ResolvesAsMatched(input[1], {input[2], <<<<"a">>, <<"a", "b">>>>} \ {<<>>})
    /\ alg = "jobs" => Search!WorkerAcceptsWhatParentSends(input[1]) /\ Search!ExtractionIsHonest(input[1], input[2])
    /\ alg = "findings" => Search!FindingsAreDisjoint(input[1], input[2], input[3])
    /\ alg = "rules" => Search!RulesAreTheFirst(input[1], input[2], input[3])
    /\ alg = "scans" =>
          \A result \in {Search!Scan(input[1], input[2], input[3])} :
          /\ Search!ScanIsComplete(input[1], input[2], input[3])
          /\ Service!LintStatus(result) = "COMPLETE" => ToSet(result.rows) = Search!Expected(Search!LoadWorkspaceRules(input[1]).rules, input[2], input[3])

----------------------------------------------------------------------------
Nearby == {<<2, 2>>, <<2, 1>>, <<1, 2>>, <<3, 2>>}
Requests ==
    \E cap \in {"hover", "diagnostics", "rename", "incoming_calls", "restart"},
       provider \in {"none", "missing", "installed"}, complete, present, supported, position, open, pull, time \in BOOLEAN,
       prepare \in {<<"moved", "moved">>, <<"moved", "broker">>, <<"broker">>, <<"error">>},
       answer \in {"ok", "error"}, push \in {"never", "early", "late"} :
        /\ complete => present
        /\ provider # "installed" => ~complete /\ ~present /\ ~supported /\ ~position /\ ~open /\ ~pull /\ ~time
        /\ cap # "diagnostics" => ~open /\ ~pull /\ ~time /\ push = "never"
        /\ Runs("requests", [cap |-> cap, provider |-> provider, complete |-> complete, present |-> present,
                supported |-> supported, at |-> <<2, 2>>, inText |-> IF position THEN {<<2, 2>>} ELSE {}, open |-> open, pull |-> pull, time |-> time,
                prepare |-> prepare, answer |-> answer, push |-> push, args |-> {"newName", "item"},
                items |-> [p \in Nearby |-> "item"], server |-> [p \in Nearby |-> [error |-> answer # "ok", items |-> <<>>]]])
Payloads ==
    {[error |-> TRUE, items |-> <<>>], [error |-> FALSE, items |-> <<>>]}
    \cup {[error |-> FALSE, items |-> <<[own |-> own, from |-> "absent", to |-> "absent"],
                                     [own |-> "none", from |-> "none", to |-> "l1"]>>] : own \in {"none", "bad", "l1", "l2"}}
Edges == {[error |-> FALSE, items |-> <<[own |-> "none", from |-> from, to |-> to]>>] :
            from \in {"absent", "l1", "none", "bad"}, to \in {"absent", "l2"}}
Navigations ==
    \E op \in {"definition", "incoming_calls"} :
    \E server \in [Nearby -> IF op = "definition" THEN Payloads ELSE {p \in Edges : p.items[1].from # p.items[1].to}],
       items \in {"item", "empty", "error"}, inText \in {Nearby, Nearby \ {<<2, 1>>}, Nearby \ {<<2, 2>>}} :
        /\ op = "definition" => items = "item"
        /\ op # "definition" => inText = Nearby /\ server[<<3, 2>>].items[1].to = "absent"
        /\ Runs("navigations", <<op, [provider |-> "installed", complete |-> TRUE, present |-> TRUE, supported |-> TRUE,
                at |-> <<2, 2>>, inText |-> inText, prepare |-> <<"broker">>, server |-> server,
                items |-> [p \in Nearby |-> items]]>>)
Found == {<<>>, <<1>>, <<2, 1>>, <<3, 2, 1>>}
NameAnswers ==
    {a \in [status : {"COMPLETE", "UNSUPPORTED", "TIMEOUT", "MALFORMED"}, generation : BOOLEAN, found : Found, inside : {{1, 2, 3}, {2}}] :
        /\ ~a.generation => a.found = <<>> /\ a.status = "UNSUPPORTED"
        /\ a.status # "COMPLETE" => a.found = <<>>}
Names ==
    \E answerOf \in [1..2 -> NameAnswers], limit \in 1..3, path \in {0, 1},
       providerOf \in {<<2, 1, 2>>, <<1, 0, 1>>, <<0, 2, 1>>, <<0, 0, 0>>} :
        Runs("names", <<path, providerOf, answerOf, limit>>)
Streams == \E found \in UpTo(1..4, 5), limit \in 1..3 : Runs("streams", <<found, limit>>)
Servers ==
    \E deno \in BOOLEAN, extension \in Semantic!TypeScriptExtensions, running \in SUBSET {<<"typescript", 1>>, <<"typescript", 2>>, <<"deno", 1>>} :
        /\ ~deno => <<"deno", 1>> \notin running
        /\ Runs("servers", <<deno, extension,
                {[provider |-> s[1], project |-> s[2], running |-> s \in running] :
                    s \in {<<"typescript", 1>>, <<"typescript", 2>>} \cup (IF deno THEN {<<"deno", 1>>} ELSE {})}>>)
Commands ==
    \E launcher \in {<<>>, <<"pnpm", "exec">>, <<"uv", "run">>}, options, flags \in UpTo({"-flag"}, 2),
       node, venv \in {{}, {"server"}}, path \in SUBSET {"server", "pnpm", "uv"} :
        /\ launcher # <<"uv", "run">> => options = <<>>
        /\ Runs("commands", <<launcher, options, "server", flags, [node |-> node, venv |-> venv, path |-> path]>>)
Epochs ==
    \E identity \in {"whole", "parts", "none"}, known \in SUBSET {"p", "q", "whole workspace"} :
    \E restarted \in SUBSET known : \E epochs \in [restarted -> 1..2] :
        Runs("epochs", <<identity, "p", known, epochs>>)

----------------------------------------------------------------------------
Dirs == {<<>>, <<"a">>, <<"a", "b">>, <<"b">>, <<"a", "b", "c">>}
RowKinds ==
    {[section |-> "source", path |-> <<"a">>, bytes |-> 2, unavailable |-> FALSE],
     [section |-> "source", path |-> <<"a", "b">>, bytes |-> 1, unavailable |-> FALSE],
     [section |-> "consumer", path |-> <<"a">>, bytes |-> 1, unavailable |-> FALSE],
     [section |-> "constraint", path |-> <<"b">>, bytes |-> 1, unavailable |-> TRUE]}
References == [error : {FALSE}, truncated : {FALSE}, bytes : {2}] \cup [error : {TRUE}, truncated : {FALSE}, bytes : {0}]
Contexts ==
    \E kinds \in UpTo(RowKinds, 3), more \in BOOLEAN, status \in {"COMPLETE", "PARTIAL"},
       refs \in UpTo(References, 2), bytes \in {3, 6}, limit \in {1, 3},
       paths \in {{}, {<<"a">>, <<"a", "b">>}, {<<"b">>, <<"a", "b">>}} :
        Runs("contexts",
            <<[rows |-> [i \in DOMAIN kinds |-> [id |-> i, section |-> kinds[i].section, path |-> kinds[i].path,
                                                bytes |-> kinds[i].bytes, unavailable |-> kinds[i].unavailable]],
               hasMore |-> more, status |-> status, omissions |-> status = "PARTIAL"],
              [references |-> refs, maxBytes |-> bytes, limit |-> limit,
               prefixes |-> SetToSeq(Service!SearchPathPrefixes(paths))]>>)
Entries(section, sizes) == [i \in DOMAIN sizes |-> [section |-> section, id |-> i, bytes |-> sizes[i]]]
Packets ==
    \E facts, refs, owners, consumers \in UpTo({1, 2}, 2), note \in {0, 2}, max \in 2..8 :
        Runs("packets",
            <<[supporting_fact |-> Entries("supporting_fact", facts), source |-> <<>>,
               reference |-> Entries("reference", refs), constraint |-> <<>>, validation_route |-> <<>>, conflict |-> <<>>,
               consumer |-> Entries("consumer", consumers), canonical_owner |-> Entries("canonical_owner", owners),
               baseBytes |-> 1, noteBytes |-> note, gaps |-> MaxGaps - 1], max>>)
Coverages ==
    \E status \in {"COMPLETE", "PARTIAL", "FAILED", "TRUNCATED", "CHANGED"}, reasons \in SUBSET {"s", "t", "u", "global"},
       requested, published \in SUBSET {"s", "t", "u"} :
        Runs("coverages", <<status, reasons, requested, published>>)
Previews ==
    \E operation \in {"rename", "code_action", "format_document"}, target \in {"none", "name", "position"}, named, strict, cut, complete \in BOOLEAN,
       index \in 1..3, status \in {"COMPLETE", "PARTIAL"}, matches \in 0..2, kind \in {"list", "object", "null"},
       items \in UpTo({{"edit"}, {"edit", "command"}, {"edit", "disabled"}, {}}, 2) :
        /\ operation # "rename" => target = "none" /\ ~named /\ ~strict /\ ~cut /\ status = "COMPLETE" /\ matches = 1
        /\ operation # "code_action" => index = 1 /\ items = <<>>
        /\ Runs("previews", <<[operation |-> operation, target |-> target, named |-> named, strict |-> strict, index |-> index],
                              [status |-> status, truncated |-> cut, matches |-> matches], [kind |-> kind, items |-> items, complete |-> complete]>>)
PathSets == \E paths \in SUBSET Dirs : Runs("prefixes", paths)
Warnings == \E warnings \in UpTo({"w1", "w2", "w3", "w4"}, 5) : Runs("warnings", warnings)
Owners ==
    \E bindings \in SUBSET [id : {1}, policy : {1, 2}, role : {"owner", "tests"}, state : {"exact", "unverified", "missing_target"},
                            path : {<<"a">>}, target : {<<"b">>}, command : {FALSE}, unresolved : {FALSE}],
       policies \in SUBSET {[id |-> 1, required |-> {"owner"}], [id |-> 2, required |-> {"tests"}]},
       conflicts \in {{}, {1}}, prefixes \in {{}, {<<"b">>}, {<<"c">>}},
       frame \in SUBSET {[kind |-> "governance", about |-> 3]} :
        Cardinality(bindings) <= 2 /\ Runs("owners", <<policies, bindings, conflicts, prefixes, frame>>)

\* lsp/resolvers.py and analysis/service.py: a caller that requires semantic
\* coverage is never told COMPLETE without it, a name resolves to one symbol or
\* is refused, and a response that had to leave something out, to fit its byte
\* limit, its row limit or for lack of evidence, says so.
AnswersAreHonest ==
    /\ alg = "requests" => Semantic!RequiredMeansAnswered(input.cap, input)
    /\ alg = "names" => Semantic!NameIsUnambiguous(input[1], input[2], input[3], input[4],
                           [position |-> TRUE, time |-> TRUE, status |-> "COMPLETE", results |-> 1])
    /\ alg = "streams" => Semantic!CandidatesAreFirst(input[1], input[2])
    /\ alg = "navigations" => Semantic!NavigationIsNearest(input[1], input[2])
    /\ alg = "servers" => Semantic!ServersAreDefinite(input[1], input[2], input[3])
    /\ alg = "commands" => Semantic!AvailableIsInstalled(input[1], input[2], input[3], input[4], input[5])
    /\ alg = "epochs" => Semantic!EpochIsUnambiguous(input[1], input[2], input[3], input[4])
    /\ alg = "contexts" => Service!ContextIsHonest(input[1], input[2])
    /\ alg = "packets" => Service!ShrinksToFit(input[1], input[2])
    /\ alg = "coverages" => Service!CoverageIsHonest(input[1], input[2], input[3], input[4])
    /\ alg = "previews" => Service!PreviewIsWhatWasAsked(input[1], input[2], input[3])
    /\ alg = "prefixes" => Service!PrefixesAreMinimal(input, Dirs)
    /\ alg = "warnings" => Service!WarningsAreCounted(input)
    /\ alg = "owners" => Service!IncompleteIsPartial(input[1], input[2], input[3], input[4], input[5], {})

----------------------------------------------------------------------------
Named(n, authored, valid) == [name |-> n, authored |-> authored, valid |-> valid]
Target(p) == [path |-> p, fragment |-> FALSE]
Repo(references, imports, configurations) ==
    [paths |-> 1..5, patterns |-> [p \in {9} |-> {4, 5}], references |-> references, imports |-> imports,
     configurations |-> configurations, scripts |-> {[manifest |-> 2, references |-> {4}]}, tests |-> {5},
     registrations |-> {3}]
Records ==
    {[id |-> [text |-> text, targets |-> {}], owner |-> [text |-> None, targets |-> {Target(p) : p \in paths}]] :
       text \in {None, Named("a", TRUE, TRUE), Named("a", FALSE, TRUE), Named("b", FALSE, FALSE)},
       paths \in {{}, {3}, {3, 8, 9}}}
Source(id, path, line, markdown, records) ==
    [id |-> id, path |-> path, line |-> line, markdown |-> markdown, utf8 |-> TRUE, parses |-> TRUE, identity |-> "id",
     relationships |-> {[field |-> "owner", required |-> TRUE]}, heading |-> "h", occurrence |-> 1, addressed |-> records,
     tables |-> IF records = <<>> THEN <<>> ELSE <<[heading |-> "h", headers |-> {"id", "owner"}, rows |-> records]>>]
Governs ==
    \E one \in UpTo(Records, 2), two \in UpTo(Records, 1), path \in {1, 2, 7} :
    \E name \in {[id |-> Authority!PolicyId([id |-> 2], Named("a", FALSE, TRUE)), path |-> 0, name |-> None],
                [id |-> None, path |-> 4, name |-> "a"]} :
        Runs("governs", <<Repo({<<2, 3>>}, {<<3, 4>>}, {}),
                          {Source(1, 1, 3, TRUE, one), Source(2, path, 6, FALSE, two)}, name>>)
Traces ==
    \E references \in SUBSET {<<1, 4>>, <<2, 3>>, <<4, 2>>},
       imports \in SUBSET {<<3, 4>>, <<4, 5>>, <<5, 3>>, <<3, 8>>}, configurations \in SUBSET {<<2, 4>>, <<5, 2>>} :
    \E record \in Records :
        Runs("traces", <<Repo(references, imports, configurations), {Source(1, 1, 3, TRUE, <<record>>)}>>)
Claims ==
    \E claims \in SUBSET [target : {1}, owners : {<<"x">>, <<"y">>, <<"x", "y">>}, tier : 1..3, path : {1, 2}, line : {1}] :
        Cardinality(claims) \in 1..3 /\ Runs("claims", claims)
Codeowners ==
    \E rules \in UpTo([unsupported : BOOLEAN, covers : {{1, 2}, {2}}, owners : {<<"x">>, <<"y">>}], 2),
       owners \in SUBSET [target : {2}, owners : {<<"x">>}, canonical : BOOLEAN], utf8 \in BOOLEAN :
        Runs("codeowners", <<[utf8 |-> utf8, rules |-> rules],
                             [owners |-> owners, registrations |-> {[target |-> 1, owners |-> <<"y">>], [target |-> 2, owners |-> <<>>]}]>>)

\* authority/governance.py and ownership: all ways a policy is declared agree,
\* a selection only ever restricts what is declared, evidence is traced along
\* the repository's references, and of contradicting owners the strongest
\* claim decides or none does.
AuthorityIsDecided ==
    /\ alg = "governs" => /\ Authority!DeclarationsAgree(input[1], input[2])
                          /\ Authority!SelectionRestricts(input[1], input[2], input[3])
    /\ alg = "traces" => Authority!EvidenceIsTraced(input[1], input[2])
    /\ alg = "claims" => Authority!OwnersAreDecided(input)
    /\ alg = "codeowners" => Authority!OwnersAreDecided(Authority!ParseCodeowners(1, input[1], 1..3)
                                                        \cup Authority!DeclarationClaims(2, input[2]))

----------------------------------------------------------------------------
Catalog == [s |-> [producer |-> 1, prerequisites |-> {}], m |-> [producer |-> 2, prerequisites |-> {"s"}],
            d |-> [producer |-> 3, prerequisites |-> {"m", "s"}], e |-> [producer |-> 3, prerequisites |-> {"d"}]]
Producers ==
    {None} \cup {[supported |-> DOMAIN Catalog, notes |-> notes, rows |-> [t \in DOMAIN Catalog |-> rows]] :
                    notes \in BOOLEAN, rows \in {1, 3}}
    \cup {[supported |-> {"s", "d"}, notes |-> FALSE, rows |-> [t \in DOMAIN Catalog |-> IF t = "s" THEN None ELSE 1]]}
Plans ==
    \E include \in {{"e"}, {"d", "s"}, {"m"}, DOMAIN Catalog}, exclude \in {{}, {"s"}, {"m"}, {"d"}, {"e"}},
       producers \in [1..3 -> Producers], syntaxOnly, changed \in BOOLEAN :
        Runs("plans", <<include, exclude, [producers |-> producers, syntaxOnly |-> syntaxOnly, changed |-> changed,
                                           semantic |-> 2, rowLimit |-> 2]>>)
Impacts ==
    \E edges \in SUBSET {<<1, 2>>, <<2, 1>>, <<2, 3>>, <<3, 1>>, <<3, 4>>, <<4, 1>>}, seeds \in {{1}, {1, 3}, {4}},
       rows \in {1, 4}, depth \in {1, 2, 4}, bytes \in {3, 20}, time \in {1, 9} :
        Runs("impacts", <<edges, seeds, [rows |-> rows, depth |-> depth, bytes |-> bytes, time |-> time]>>)
Loops == \E edges \in SUBSET ({<<1, 1>>} \cup {e \in (1..4) \X (1..4) : e[1] # e[2]}) :
            Cardinality(edges) <= 5 /\ Runs("loops", edges)
Calls ==
    \E mode \in {"syntax_only", "best_available", "semantic_required"}, dynamic, complete \in BOOLEAN, locations \in SUBSET {1, 2, 9} :
        Runs("calls", <<mode, [path |-> 1, dynamic |-> dynamic], [complete |-> complete, locations |-> locations]>>)
Edge(source, target, status, kind) == [source |-> source, target |-> target, status |-> status, kind |-> kind]
Derivations ==
    \E imports \in SUBSET {Edge(1, 2, "resolved", "semantic"), Edge(2, 1, "partial", "semantic"), Edge(2, None, "candidate", "structural"),
                            Edge(3, 2, "resolved", "structural")},
       calls \in SUBSET {Edge(1, 3, "resolved", "semantic"), Edge(3, 1, "candidate", "semantic")},
       manifest \in SUBSET {Edge(3, 1, "resolved", "manifest")}, entrypoints \in SUBSET {1, 3}, complete \in BOOLEAN :
        Runs("derivations",
            <<[imports |-> imports, calls |-> calls, manifest |-> manifest, entrypoints |-> entrypoints,
               symbols |-> {[id |-> i, path |-> i, status |-> IF i = 4 THEN "partial" ELSE "resolved", kind |-> "semantic"] : i \in 1..4}],
              complete>>)
File(name, suffix) == [name |-> name, suffix |-> suffix]
Modules ==
    \E paths \in SUBSET {File(<<"a", "y">>, "ts"), File(<<"y">>, "ts"), File(<<"a", "y", "index">>, "js"), File(<<"p", "y">>, "ts"),
                          File(<<"a", "y">>, "py"), File(<<"a", "z">>, "go")},
       source \in {File(<<"a", "x">>, "ts"), File(<<"a", "x">>, "py"), File(<<"a", "x">>, "go"), File(<<"a", "x">>, "rs")},
       name \in {<<"y">>, <<"..", "y">>, <<"..", "..", "y">>, <<"a", "y">>, <<"q", "y">>, <<"q">>},
       level \in 0..2, suffix \in {"", "ts"}, mine, complete \in BOOLEAN :
        /\ source.suffix # "py" => level < 2
        /\ source.suffix = "py" => suffix = ""
        /\ Runs("modules",
            <<[paths |-> paths, suffixes |-> <<"ts", "js">>, goModule |-> <<"q">>,
               configs |-> <<[directory |-> <<"a">>, base |-> <<>>, alias |-> <<"q">>, target |-> <<>>],
                             [directory |-> <<>>, base |-> <<>>, alias |-> <<>>, target |-> <<>>]>>,
               packages |-> {[name |-> <<"q">>, directory |-> <<"p">>, exports |-> [x \in {<<"z">>} |-> <<"y">>], default |-> <<"y">>]}],
              source, [name |-> name, relative |-> level = 1, level |-> level, suffix |-> suffix],
              [mine |-> mine, complete |-> complete]>>)

----------------------------------------------------------------------------
PathOf(name, suffix) == [name |-> name, suffix |-> suffix]
FileOf(name, suffix, body) == [path |-> PathOf(name, suffix), digest |-> <<"d", name, suffix>>, bytes |-> 1, body |-> body]
Depends(package, scope, catalog) == [package |-> package, scope |-> scope, specifier |-> [catalog |-> catalog, version |-> "1"]]
Manifest(name, dependencies, scripts) == [name |-> name, dependencies |-> dependencies, scripts |-> scripts]
Workspace(nested, uses, back, config, base) ==
    LET root == Manifest(<<"r">>, {Depends(<<"ts-morph">>, "development", None)}, {[name |-> "typecheck", command |-> <<<<"turbo">>, <<"check">>>>]})
    IN  <<FileOf(<<"a", "b", "package">>, "json", nested), FileOf(<<"a", "b", "s">>, "ts", None),
          FileOf(<<"a", "package">>, "json", Manifest(<<"a">>, uses, {})), FileOf(<<"a", "s">>, "mjs", None),
          FileOf(<<"a", "tsconfig">>, "json", config), FileOf(<<"base">>, "json", base),
          FileOf(<<"c", "package">>, "json", Manifest(<<"c">>, back, {})), FileOf(<<"c", "s">>, "ts", None),
          FileOf(<<"package">>, "json", root), FileOf(<<"turbo">>, "json", {<<"check">>})>>
Catalogs == (<<"", <<"c">>>> :> "2")
ConfigBodies == {None, {}, {[relative |-> TRUE, name |-> <<"..", "base">>, suffix |-> ""]},
                 {[relative |-> TRUE, name |-> <<"..", "base">>, suffix |-> "json"], [relative |-> FALSE, name |-> <<"base">>, suffix |-> ""]}}
Manifests ==
    \E nested \in {None, Manifest(<<"b">>, {}, {}), Manifest(<<"b">>, {Depends(<<"c">>, "peer", None)}, {}), Manifest(<<"c">>, {}, {})},
       uses \in SUBSET {Depends(<<"b">>, "runtime", None), Depends(<<"c">>, "development", ""), Depends(<<"c">>, "runtime", "n")},
       back \in {{}, {Depends(<<"a">>, "runtime", None)}}, config \in ConfigBodies, kept \in {1..10} \cup {(1..10) \ {i} : i \in {1, 3, 5, 6, 9}},
       ids \in {{}, {<<"node", <<"a">>>>}, {<<"node", <<>>>>, <<"node", <<"c">>>>}} :
        LET files == Workspace(nested, uses, back, config, {})
        IN  Runs("manifests", <<SelectSeq(files, LAMBDA f : \E i \in kept : files[i].path = f.path), ids>>)
Words == {<<"turbo">>, <<"run">>, <<"build">>, <<"p", "build">>, <<"-">>, <<"&&">>}
TaskCommands == \E command \in UpTo(Words, 4), known \in {{}, {<<"build">>}, {<<"run">>, <<"p", "build">>}} : Runs("task commands", <<command, known>>)
Imported(path, parts, scoped, usage) ==
    [path |-> path, specifier |-> [local |-> FALSE, scoped |-> scoped, parts |-> parts], usage |-> usage]
Answers(imports, paths) ==
    {[imports |-> i, symbols |-> {[path |-> p, id |-> "s"] : p \in paths}, diagnostics |-> {[path |-> p, id |-> "g"] : p \in at},
      parity |-> "match", warned |-> warned, binary |-> warned] :
        i \in imports, at \in {paths, {None}}, warned \in BOOLEAN}
Answered ==
    LET files == Workspace(Manifest(<<"b">>, {}, {}), {Depends(<<"c">>, "development", None)}, {}, {}, {})
        s(d) == PathOf(d \o <<"s">>, IF d = <<"a">> THEN "mjs" ELSE "ts")
        imports == UpTo({Imported(s(<<"a">>), <<"c">>, FALSE, "direct_import"), Imported(s(<<"a">>), <<"e", "x">>, FALSE, "direct_import"), Imported(s(<<"a">>), <<"e", "y">>, FALSE, "direct_import"),
                         Imported(s(<<"a">>), <<"@k", "l", "m">>, TRUE, "dynamic_load"), Imported(s(<<"z">>), <<"c">>, FALSE, "direct_import")}, 2)
    IN  \E facts \in {Project!Extract(files, Catalogs)} : \E requests \in {[id \in {<<"a">>, <<"c">>} |->
            CHOOSE r \in Project!BuildTypescriptRequests(facts, files, {<<"node", id>>}) : TRUE]} :
        \E one \in Answers(imports, {s(<<"a">>), s(<<"c">>)}), two \in Answers({<<Imported(s(<<"c">>), <<"a">>, FALSE, "direct_import")>>}, {s(<<"c">>)}) :
            Runs("answers", <<facts, requests[<<"a">>], one, requests[<<"c">>], two>>)
Units == \E text \in UpTo({[units |-> 1, bytes |-> 1], [units |-> 1, bytes |-> 3], [units |-> 2, bytes |-> 4]}, 3), start, end \in 0..6 :
    Runs("units", <<text, start, end>>)

P(name) == <<"plain", name>>
RouterFile(dirs, stem, suffix) == [dirs |-> dirs, stem |-> stem, suffix |-> suffix, next |-> FALSE]
RouterFiles ==
    {RouterFile(<<>>, "next.config", "ts"), RouterFile(<<>>, "proxy", "ts"), RouterFile(<<P("src")>>, "middleware", "ts"),
     RouterFile(<<P("src"), P("app")>>, "page", "tsx"), RouterFile(<<P("pages")>>, "index", "ts"), RouterFile(<<P("pages"), P("api")>>, "x", "ts"),
     RouterFile(<<P("pages"), P("api")>>, "index", "ts"),
     RouterFile(<<P("app"), P("n")>>, "next.config", "js"), RouterFile(<<P("app"), P("n"), P("app")>>, "page", "tsx")}
    \cup {RouterFile(<<P("app")>> \o d, "page", "tsx") :
            d \in {<<>>, <<<<"group", "g">>>>, <<P("a")>>, <<<<"slot", "s">>, P("a")>>, <<<<"private", "p">>>>, <<<<"encoded", "not-found">>>>,
                  <<P("a"), <<"up", "b">>>>, <<<<"group", "g">>, P("a"), <<"up2", "b">>>>, <<P("a"), <<"group", "g">>, P("c"), <<"up2", "b">>>>,
                  <<P("a"), <<"root", "b">>, P("c")>>}}
    \cup {RouterFile(<<P("app"), <<"group", "g">>, P("a")>>, "route", "ts"), RouterFile(<<P("app")>>, "layout", "tsx"), RouterFile(<<P("app")>>, "not-found", "tsx")}
Registrations ==
    \E files \in {[RouterFile(<<>>, "package", "json") EXCEPT !.next = next] : next \in BOOLEAN} \X UNION {kSubset(k, RouterFiles) : k \in 1..3} :
        Runs("registrations", {files[1]} \cup files[2])

\* relations/ and analysis/frame.py: a frame says which tables it could not
\* fill; impact is the transitive closure or is marked truncated; every real
\* cycle is found; edges and derived facts rest on resolved edges only; and a
\* module resolves to a captured file or to none.  catalog/projects.py,
\* catalog/typescript.py and frameworks/nextjs.py: the files captured for some
\* projects give the requests the whole workspace would give, answers merge in
\* any order, and a route belongs to its innermost project, with two routes at
\* one address reported.
RelationsAreExact ==
    /\ alg = "plans" => Graph!FrameIsHonest(Catalog, input[1], input[2], input[3])
    /\ alg = "impacts" => Graph!ImpactIsComplete(input[1], input[2], input[3])
    /\ alg = "loops" => Graph!CyclesAreFound(input)
    /\ alg = "calls" => Graph!EdgesAreExact(input[1], input[2], input[3], {1, 2})
    /\ alg = "derivations" => Graph!DerivedFromResolved(input[1], input[2])
    /\ alg = "modules" => Graph!ModulesAreCaptured(input[1], input[2], input[3], input[4])
    /\ alg = "manifests" => \A facts \in {Project!Extract(input[1], Catalogs)} :
        /\ Project!ClosureIsReached(facts)
        /\ Project!ConfigsAreCaptured(facts, input[1])
        /\ Project!RequestsAreCaptured(facts, input[1], input[2])
    /\ alg = "task commands" => Project!TasksAreCalled(input[1], input[2])
    /\ alg = "answers" => Project!MergeIsLocal(input[1], input[2], input[3], input[4], input[5])
    /\ alg = "registrations" =>
        /\ Next16!OwnersAreInnermost(input)
        /\ Next16!InterceptionsLandInPlace(input)
        /\ Next16!CollisionsAreReported(input)
        /\ Next16!ProjectsAreAccounted(input)
    /\ alg = "units" => Project!BoundsAreOrdered(input[1], input[2], input[3])

\* relations/materializer.py, "Return deterministic strongly connected
\* components over resolved edges.": what is reported is strongly connected.
CyclesAreComponents == alg = "loops" => Graph!CyclesAreComponents(input)

----------------------------------------------------------------------------
Fact(kind, project, id, path) == [kind |-> kind, project |-> project, id |-> id, path |-> path, evidence |-> "e"]
Facts ==
    {Fact("file", None, None, <<"f">>), Fact("chunk", None, <<"d">>, <<"f">>), Fact("project", None, <<"p">>, <<"f">>),
     Fact("dependency", <<"p">>, <<"q">>, <<"f">>), Fact("dependency", <<"p">>, <<"q">>, <<"g">>), Fact("script", <<"p">>, <<"t", "u">>, <<"f">>),
     Fact("task", <<"p">>, <<"t">>, <<"f">>), Fact("task", <<"p">>, <<"t", "u">>, <<"f">>), Fact("task", <<"p", "t">>, <<"u">>, <<"f">>),
     Fact("config", <<"p">>, <<"f">>, <<"f">>), Fact("route", None, <<"d">>, <<"f">>), Fact("route", <<"p">>, <<"e">>, <<"f">>),
     Fact("symbol", <<"p">>, <<"d">>, <<"f">>), Fact("symbol", <<"p">>, <<"e">>, <<"f">>), Fact("import", <<"p">>, <<"d">>, <<"f">>),
     Fact("diagnostic", <<"p">>, <<"d">>, <<"f">>), Fact("rule", None, <<"r">>, <<"f">>), Fact("rule", None, <<"packaged", "r">>, <<"f">>), Fact("policy", None, <<"r">>, <<"f">>),
     Fact("change", None, <<"c">>, <<"f">>)}
Keys == \E facts \in UpTo(Facts, 3) : Runs("keys", facts)
Characters == {[bytes |-> 1, ends |-> FALSE], [bytes |-> 2, ends |-> FALSE], [bytes |-> 1, ends |-> TRUE]}
Places ==
    \E text \in UpTo(Characters, 5), at \in 0..5 : Runs("places", <<[start |-> 3, line |-> 2, text |-> text], at>>)
Excerpts ==
    \E lines \in UpTo([match : BOOLEAN], 6), context \in 0..3 : Runs("excerpts", <<lines, context>>)
Documents(paths) == [kind : {"chunk", "file"}, path : paths, counts : {<<0, 9>>, <<2, 1>>}]
Ranks ==
    \E documents \in UpTo(Documents({<<"a">>, <<"a", "b">>}), 3), kinds \in {{}, {"file"}}, prefixes \in {{}, {<<"a", "b">>}},
       mode \in {"all", "any"}, limit \in 1..2 :
        Runs("ranks", <<documents, kinds, prefixes, mode, limit>>)
Queries == \E query \in UpTo({"a", "b", None}, 5) : Runs("queries", query)

\* catalog/store.py, catalog/search.py and analysis/hydration.py: chunks tile
\* the file, a read that does not say there is more has every row and relation
\* it should have, and a hit points back to its record, at a place not before
\* it, with an excerpt that shows the match; pages of hits tile the ranking.
RetrievalIsComplete ==
    /\ alg = "chunks" => Read!ChunksTile(input)
    /\ alg = "reads" => Read!ReadIsComplete(input[1], input[2], input[3], input[4])
    /\ alg = "relations" => Read!SharedTokensAreNear(input)
    /\ alg = "changes" => Read!ChangesReplay(input[1], input[2])
    /\ alg = "imports" => Read!ImportsFollowManifest(input[1], input[2], input[3])
    /\ alg = "routes" => Read!EnrichmentFollowsBytes(input[1], input[2], input[3])
    /\ alg = "restores" => Read!RestoreIsExact(input[1], input[2], input[3], input[4], input[5], input[6])
    /\ alg = "seeds" => Read!SeedsAreSelective(input[1], input[2])
    /\ alg = "owned" => Read!OwnershipIsExact(input[1], input[2])
    /\ alg = "word reads" => Read!ReadsAreFair(input[1], input[2], input[3], input[4], input[5])
    /\ alg = "keys" => Hits!HitsPointBack(input)
    /\ alg = "places" => Hits!PositionNotEarly(input[1], input[2])
    /\ alg = "excerpts" => Hits!ExcerptShowsMatch(input[1], input[2])
    /\ alg = "ranks" => Hits!PagesTile(input[1], input[2], input[3], input[4], input[5])
    /\ alg = "queries" => Hits!ExpressionIsFaithful(input)

----------------------------------------------------------------------------
LogFile(is, text, readable, removable) == [is |-> is, text |-> text, readable |-> readable, removable |-> removable]
Secrets == {<<"a", "b">>, <<"b", "a", "b">>, <<"b", "b">>, <<"a">>, <<"r", "a">>, <<"a", "a", "b", "b">>}
LogTexts == \E text \in UpTo({"a", "b", "c"}, 6), secrets \in SUBSET Secrets :
    Cardinality(secrets) <= 2 /\ Runs("logs", <<<<LogFile("regular", text, TRUE, TRUE)>>, secrets, TRUE, TRUE>>)
LogFaults ==
    \E is, other \in {"regular", "link"}, readable, removable, walked, tree \in BOOLEAN, secrets \in {{}, {<<"a", "b">>}} :
        Runs("logs", <<<<LogFile(is, <<"a", "b">>, readable, removable), LogFile(other, <<"b", "a", "b">>, TRUE, TRUE)>>, secrets, walked, tree>>)

\* postgresql/runtime.py: no log that is kept holds a secret, also one that
\* lies across the chunks it is read in, or a file that could not be read.
LogsAreRedacted ==
    alg = "logs" =>
        /\ Logs!LogsHoldNoSecret(input[1], input[2], input[3], input[4])
        /\ Logs!TextHoldsNoSecret(input[1][1].text, input[2])

----------------------------------------------------------------------------
Next ==
    /\ alg = "none"
    /\ \/ LogTexts \/ LogFaults
       \/ Chunks \/ Reads \/ Relations \/ Changes \/ Imports \/ Routes
       \/ Restores \/ Seeds \/ Owned \/ WordReads
       \/ Positions \/ Edits \/ WorkspaceEdits \/ Diffs
       \/ Patterns
       \/ Jobs \/ Findings \/ RuleDirs \/ Scans
       \/ Requests \/ Navigations \/ Names \/ Streams \/ Servers \/ Commands \/ Epochs
       \/ Contexts \/ Packets \/ Coverages \/ Previews \/ PathSets \/ Warnings \/ Owners
       \/ Governs \/ Traces \/ Claims \/ Codeowners
       \/ Plans \/ Impacts \/ Loops \/ Calls \/ Derivations \/ Modules
       \/ Manifests \/ TaskCommands \/ Answered \/ Units \/ Registrations
       \/ Keys \/ Places \/ Excerpts \/ Ranks \/ Queries

Spec == Init /\ [][Next]_vars
=============================================================================
