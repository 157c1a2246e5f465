-------------------------- MODULE StructuralSearch --------------------------
(***************************************************************************)
(* What the structural worker does with a job (structural/worker.py), what *)
(* the parent checks before and after it (structural/supervisor.py,        *)
(* structural/engines.py), the scan of the workspace's own rules           *)
(* (structural/standards.py, structural/workspace_rules.py) and the path   *)
(* patterns of both (structural/path_patterns.py).  Source texts are       *)
(* abstracted to the matches found in them, spans from..to; a path is a    *)
(* sequence of segments, a segment a sequence of characters.               *)
(***************************************************************************)
EXTENDS Naturals, Sequences, SequencesExt, FiniteSets, FiniteSetsExt

CONSTANTS
    None,
    MaxFragments,   \* MAX_FRAGMENTS
    MaxRuleFiles,   \* MAX_RULE_FILES
    MaxRuleDirs,    \* MAX_RULE_DIRS
    Star,           \* in a segment of a path pattern, the token *
    AnyChar,        \* the token ?
    Globstar        \* the segment **

FirstN(s, n) == SubSeq(s, 1, IF Len(s) < n THEN Len(s) ELSE n)

----------------------------------------------------------------------------
(* Extraction.                                                             *)

\* A request: query and limit of a symbol search (None or not; a query of 0
\* stands for the empty one), projections and rules, the content ("ok", "big",
\* "not base64", "not utf-8"), the language and the PostgreSQL context.
DeclarationsOnly(req) == req.projections = <<"syntax.declarations">> /\ req.rules = <<>>

\* StructuralWorkerSupervisor.extract before the cache.
ParentChecks(req) ==
    CASE req.content = "big" -> "too_large"
      [] req.content # "big" /\ (req.query = None) # (req.limit = None) -> "value"
      [] /\ req.content # "big" /\ req.query # None /\ req.limit # None
         /\ (req.query = 0 \/ req.limit < 1 \/ ~DeclarationsOnly(req)) -> "value"
      [] /\ req.content # "big" /\ (req.query = None) = (req.limit = None)
         /\ (req.query # None => req.query # 0 /\ req.limit >= 1 /\ DeclarationsOnly(req))
         /\ req.context # None /\ (req.language # "PostgreSQL" \/ req.context # "same path") -> "value"
      [] OTHER -> "ok"

\* _extract up to the symbol search.
SymbolChecks(req) ==
    IF \/ (req.query = None) # (req.limit = None)
       \/ req.query # None /\ (req.query = 0 \/ req.limit \notin 1..MaxFragments)
       \/ req.query # None /\ ~DeclarationsOnly(req)
    THEN "bad_symbol_search" ELSE "ok"

\* _extract: content, then the context of the catalog.
ContentChecks(req) ==
    CASE req.content = "big" -> "content_too_large"
      [] req.content = "not base64" -> "bad_content"
      [] req.content = "not utf-8" -> "bad_encoding"
      [] /\ req.content = "ok" /\ req.context # None
         /\ (req.language # "PostgreSQL" \/ req.context # "same path") -> "bad_postgresql_catalog"
      [] OTHER -> "ok"

\* _extract: every projection is registered; those that do not know the
\* language are named as unsupported, and if nothing else is asked for the
\* source is not parsed.  A world w has the registered projections, the pairs of
\* projections or rules and languages that are supported, the languages that
\* have a parser, the packaged rules, whether the source parses and the rows
\* that each projection and rule finds in it.
ProjectionChecks(req, w) ==
    IF ToSet(req.projections) \subseteq w.registered THEN "ok" ELSE "unknown_projection"
Unsupported(ids, req, w) == SelectSeq(ids, LAMBDA p : <<p, req.language>> \notin w.supports)
NothingToParse(req, w) ==
    /\ req.projections # <<>> /\ Unsupported(req.projections, req, w) = req.projections
    /\ req.rules = <<>> /\ req.context = None

\* The symbol search of a projection: one row more than the limit is asked for,
\* to know whether there are more.
SymbolRows(found, limit) ==
    LET some == FirstN(found, limit + 1) IN
    [rows |-> FirstN(some, limit), truncated |-> Len(some) > limit]

\* The answer: the first MAX_FRAGMENTS rows of all projections and rules.
ExtractRows(req, w) ==
    LET ids == SelectSeq(req.projections \o req.rules, LAMBDA p : <<p, req.language>> \in w.supports)
        found == FoldLeft(LAMBDA acc, p : acc \o w.rows[p], <<>>, ids)
        symbols == SymbolRows(found, req.limit)
        rows == IF req.query # None THEN symbols.rows ELSE found IN
    [rows |-> FirstN(rows, MaxFragments),
     truncated |-> (req.query # None /\ symbols.truncated) \/ Len(rows) > MaxFragments]

\* _extract.
Extract(req, w) ==
    LET checks == SelectSeq(<<SymbolChecks(req), ContentChecks(req), ProjectionChecks(req, w)>>,
                            LAMBDA c : c # "ok")
        reply(status, unsupported) ==
            [status |-> status, rows |-> <<>>, truncated |-> FALSE, unsupported |-> unsupported]
        answer == ExtractRows(req, w) IN
    IF checks # <<>> THEN reply(Head(checks), <<>>)
    ELSE IF NothingToParse(req, w) THEN reply("ok", req.projections)
    ELSE IF req.language \notin w.parsers THEN reply("ok", req.projections \o req.rules)
    ELSE IF ~w.parses THEN reply("parse_error", <<>>)
    ELSE IF ~(ToSet(req.rules) \subseteq w.packaged) THEN reply("unknown_rule", <<>>)
    ELSE [status |-> "ok", rows |-> answer.rows, truncated |-> answer.truncated,
          unsupported |-> Unsupported(req.projections \o req.rules, req, w)]

----------------------------------------------------------------------------
(* Structural search.                                                      *)

Inside(a, b) == b.from <= a.from /\ a.to <= b.to /\ <<a.from, a.to>> # <<b.from, b.to>>
SpanOrder(a, b) == a.from < b.from \/ (a.from = b.from /\ a.to > b.to)

\* The matches of a file in the order of their starts, those inside a kept one
\* left out.
Outermost(spans) ==
    FoldLeft(LAMBDA kept, s : IF \E i \in DOMAIN kept : Inside(s, kept[i]) THEN kept
                              ELSE Append(kept, s),
             <<>>, SetToSortSeq(spans, SpanOrder))
Overlapping(kept) == \E i \in 2..Len(kept) : kept[i].from < kept[i - 1].to

\* The gates of _structural before it reads a file.
StructuralGate(req, languages) ==
    CASE req.language \notin languages -> "unsupported_language"
      [] req.language \in languages /\ req.matcher \notin {"pattern", "rule"} -> "bad_matcher"
      [] req.language \in languages /\ req.matcher \in {"pattern", "rule"} /\ req.fix = "expansion" ->
           "unsupported_capability"
      [] OTHER -> "ok"

\* _transformed_captures, spec by spec: each may use what the ones before it
\* derived; the first that this engine cannot do refuses the job.
Transformed(captures, specs) ==
    FoldLeft(LAMBDA acc, s :
               IF acc.error # None THEN acc
               ELSE IF s.kind \notin {"substring", "convert"} THEN [acc EXCEPT !.error = "unsupported_capability"]
               ELSE IF s.kind = "convert" /\ s.case = None THEN [acc EXCEPT !.error = "bad_transform"]
               ELSE [acc EXCEPT !.known = @ \cup {s.name}],
             [known |-> captures, error |-> None], specs)

\* _structural over the files in order: an undecodable file (None) is an error of
\* that file, a partial overlap an error of the job; the job stops at the
\* first finding above max_findings.  With a template each finding has an edit.
FileFindings(acc, file, req) ==
    IF acc.status # "ok" \/ acc.truncated THEN acc
    ELSE IF file = None THEN [acc EXCEPT !.errors = @ + 1]
    ELSE LET kept == Outermost(file)
             room == req.max - Len(acc.findings)
             rewrites == req.edits /\ req.fix = "template" /\ FirstN(kept, room) # <<>>
             made == Transformed(req.captures, req.transforms) IN
         IF Overlapping(kept) THEN [acc EXCEPT !.status = "overlapping_edits"]
         ELSE IF rewrites /\ made.error # None THEN [acc EXCEPT !.status = made.error]
         ELSE [acc EXCEPT !.findings = @ \o FirstN(kept, room),
                          !.edits = IF rewrites THEN @ \o FirstN(kept, room) ELSE @,
                          !.truncated = Len(kept) > room]
Structural(req, files, languages) ==
    FoldLeft(LAMBDA acc, f : FileFindings(acc, f, req),
             [status |-> StructuralGate(req, languages), findings |-> <<>>, edits |-> <<>>, errors |-> 0,
              truncated |-> FALSE], files)

\* StructuralEngines._decode: the answer must prove the engine and its version.
Decoded(backend, answer) ==
    IF answer.engine # backend \/ ~answer.pinned THEN "engine_identity" ELSE "ok"

----------------------------------------------------------------------------
(* Rules of the workspace.                                                 *)

\* A rule directory: its files in order, or None when it does not exist; a file:
\* its documents in order, or None when it is too large or no YAML.  A document
\* is a rule, or None when it is refused; empty documents are left out.
\* load_workspace_rules: the first rule with an id stays, and files above the
\* budget are not read.
LoadWorkspaceRules(dirs) ==
    LET warned(acc) == [acc EXCEPT !.warnings = @ + 1]
        take(acc, d) == IF d = None THEN warned(acc)
                        ELSE IF d.id \in DOMAIN acc.rules THEN warned(acc)
                        ELSE [acc EXCEPT !.rules = [i \in DOMAIN @ \cup {d.id} |-> IF i = d.id THEN d ELSE @[i]]]
        file(acc, f) == IF f = None THEN warned(acc) ELSE FoldLeft(take, acc, f)
        read(acc, d) == [FoldLeft(file, acc, FirstN(d, acc.left)) EXCEPT !.left = @ - Len(FirstN(d, acc.left))]
        spent(acc) == IF acc.left = 0 THEN warned(acc) ELSE acc
        dir(acc, d) == IF acc.left = 0 THEN acc
                       ELSE IF d = None THEN warned(acc)
                       ELSE spent(read(acc, d)) IN
    FoldLeft(dir, [rules |-> <<>>, warnings |-> IF dirs = <<>> THEN 1 ELSE 0, left |-> MaxRuleFiles],
             FirstN(dirs, MaxRuleDirs))

\* resolve_matcher: a packaged rule comes before one of the workspace with the
\* same id.
ResolveMatcher(kind, id, packaged, configured, dirs) ==
    CASE kind \in {"pattern", "rule"} -> [status |-> "ok", source |-> "inline"]
      [] kind = "reference" /\ id \in packaged -> [status |-> "ok", source |-> "packaged"]
      [] kind = "reference" /\ id \notin packaged /\ configured /\ id \in DOMAIN LoadWorkspaceRules(dirs).rules ->
           [status |-> "ok", source |-> LoadWorkspaceRules(dirs).rules[id].at]
      [] OTHER -> [status |-> "unknown_rule", source |-> "none"]

\* WorkspaceStandardsAnalyzer._files_for_rule, in the order of their names.
FilesForRule(rule, files, prefixes) ==
    SetToSortSeq({f \in files : /\ f.language = rule.language
                                /\ prefixes = {} \/ f.name \in prefixes
                                /\ rule.includes = {} \/ f.name \in rule.includes
                                /\ f.name \notin rule.ignores},
                 LAMBDA f, g : f.name < g.name)

\* StructuralEngines.run for a rule: the findings of its files, at most max.
RunRule(rule, files, max, languages) ==
    Structural([language |-> rule.language, matcher |-> "rule", fix |-> None, transforms |-> <<>>,
                captures |-> {}, edits |-> FALSE, max |-> max],
               [i \in DOMAIN files |-> files[i].spans], languages)

\* What a rule found is added; a failure or an engine that did not prove itself
\* is a warning.
Recorded(acc, rule, backend, room, outcome) ==
    IF outcome.status # "ok" \/ Decoded(backend, rule.answer) # "ok" THEN [acc EXCEPT !.warnings = @ + 1]
    ELSE [acc EXCEPT !.completed = @ + 1, !.warnings = @ + outcome.errors,
                     !.rows = @ \o [i \in DOMAIN outcome.findings |-> <<rule.id, outcome.findings[i]>>],
                     !.truncated = @ \/ outcome.truncated \/ Len(outcome.findings) = room]

\* Mutant: the engine's cut to the room that was left is not reported.
ScanRuleQuiet(acc, rule, scan) ==
    LET files == FilesForRule(rule, scan.files, scan.prefixes)
        room == scan.limit - Len(acc.rows) IN
    IF acc.stop THEN acc
    ELSE IF room = 0 THEN [acc EXCEPT !.stop = TRUE]
    ELSE IF files = <<>> THEN [acc EXCEPT !.completed = @ + 1]
    ELSE [Recorded(acc, rule, scan.backend, room, RunRule(rule, files, room, scan.languages)) EXCEPT !.truncated = acc.truncated]

\* One rule of scan: no file is for it, the engine failed or did not prove
\* itself, or it has findings; the engine is given the room that is left.  A
\* scan that fills the limit is marked even if nothing is left.
ScanRule(acc, rule, scan) ==
    LET files == FilesForRule(rule, scan.files, scan.prefixes)
        room == scan.limit - Len(acc.rows) IN
    IF acc.stop THEN acc
    ELSE IF room = 0 THEN [acc EXCEPT !.stop = TRUE, !.truncated = TRUE]
    ELSE IF files = <<>> THEN [acc EXCEPT !.completed = @ + 1]
    ELSE Recorded(acc, rule, scan.backend, room, RunRule(rule, files, room, scan.languages))

\* WorkspaceStandardsAnalyzer.scan of the selected rules in the order of ids.
ScanReport(end, selected) ==
    [rows |-> end.rows, available |-> end.completed > 0, truncated |-> end.truncated,
     warnings |-> end.warnings + (IF selected = {} THEN 1 ELSE 0) + (IF end.truncated THEN 1 ELSE 0)]

ScanLoaded(loaded, ids, scan) ==
    LET selected == {i \in DOMAIN loaded.rules : ids = {} \/ i \in ids}
        order == SetToSortSeq(selected, <)
        unknown == IF ids \subseteq DOMAIN loaded.rules THEN 0 ELSE 1
    IN  ScanReport(FoldLeft(LAMBDA acc, i : ScanRule(acc, loaded.rules[i], scan),
                            [rows |-> <<>>, completed |-> 0, warnings |-> loaded.warnings + unknown,
                             truncated |-> FALSE, stop |-> FALSE], order), selected)

Scan(dirs, ids, scan) == ScanLoaded(LoadWorkspaceRules(dirs), ids, scan)

----------------------------------------------------------------------------
(* Path patterns: two automata, one over the segments of a path and one     *)
(* over the characters of a segment.                                        *)

\* A token: Star, AnyChar, a character, or a class [negated, set].
TokenMatches(token, char) ==
    CASE token = Star \/ token = AnyChar -> TRUE
      [] "set" \in DOMAIN token -> (char \in token.set) # token.negated
      [] OTHER -> char = token.literal

\* _parse_segment_tokens: a run of stars is one star.
ParseSegmentTokens(raw) ==
    FoldLeft(LAMBDA tokens, t : IF t = Star /\ tokens # <<>> /\ Last(tokens) = Star THEN tokens
                                ELSE Append(tokens, t), <<>>, raw)

\* _token_closure and _segment_closure: an item that may match nothing is passed.
Closure(skips, states) ==
    states \cup {t \in 1..(Len(skips) + 1) :
                    \E s \in states : s < t /\ \A i \in s..(t - 1) : skips[i]}

\* One input of the simulation: the states after it.
Advanced(skips, fits, states) ==
    {IF skips[s] THEN s ELSE s + 1 : s \in {i \in states : i <= Len(skips) /\ fits[i]}}

\* _match_segment.
MatchSegment(tokens, text) ==
    LET skips == [i \in DOMAIN tokens |-> tokens[i] = Star]
        fits(c) == [i \in DOMAIN tokens |-> TokenMatches(tokens[i], c)]
        final == FoldLeft(LAMBDA states, c : Closure(skips, Advanced(skips, fits(c), states)),
                          Closure(skips, {1}), text) IN
    Len(tokens) + 1 \in final

\* A written pattern: whether it starts and ends with a slash, and its segments,
\* each Globstar or a sequence of tokens (empty between two slashes).
\* RepositoryPattern.parse: a directory stands for all below it, a bare name is
\* not anchored, empty segments go.
Written(p) == p.segments \o (IF p.directory THEN <<Globstar>> ELSE <<>>)
ParsePattern(p) ==
    LET parsed == [i \in DOMAIN Written(p) |->
                      IF Written(p)[i] = Globstar THEN Globstar ELSE ParseSegmentTokens(Written(p)[i])] IN
    [anchored |-> p.rooted \/ Len(Written(p)) > 1,
     segments |-> SelectSeq(parsed, LAMBDA s : s # <<>>)]

\* RepositoryPattern.matches.  An unanchored pattern is matched against the
\* last segment of the path; an unanchored ** has no tokens and matches nothing.
PatternMatches(pattern, path) ==
    LET segs == pattern.segments
        skips == [i \in DOMAIN segs |-> segs[i] = Globstar]
        fits(text) == [i \in DOMAIN segs |-> skips[i] \/ MatchSegment(segs[i], text)] IN
    IF segs = <<>> \/ path = <<>> THEN FALSE
    ELSE IF ~pattern.anchored THEN Last(segs) # Globstar /\ MatchSegment(Last(segs), Last(path))
    ELSE Len(segs) + 1 \in
           FoldLeft(LAMBDA states, text : Closure(skips, Advanced(skips, fits(text), states)),
                    Closure(skips, {1}), path)

\* resolve_paths: a pattern that is a path is that path; one without wildcards
\* resolves to nothing else.
Wildcard(p) ==
    \E i \in DOMAIN p.segments :
        \/ p.segments[i] = Globstar
        \/ \E j \in DOMAIN p.segments[i] : LET t == p.segments[i][j] IN
              t = Star \/ t = AnyChar \/ "set" \in DOMAIN t
LiteralPath(p) ==
    [i \in DOMAIN p.segments |-> [j \in DOMAIN p.segments[i] |-> p.segments[i][j].literal]]
ResolvePaths(p, candidates) ==
    IF ~Wildcard(p)
    THEN IF p.rooted \/ p.directory THEN {} ELSE {LiteralPath(p)} \cap candidates
    ELSE {c \in candidates : PatternMatches(ParsePattern(p), c)}

----------------------------------------------------------------------------
\* What the parent lets through, the worker does not refuse for its form, as
\* long as the limit of a symbol search is one the worker accepts.
WorkerAcceptsWhatParentSends(req) ==
    (ParentChecks(req) = "ok" /\ (req.limit = None \/ req.limit <= MaxFragments)) =>
        SymbolChecks(req) = "ok" /\ ContentChecks(req) \notin {"content_too_large", "bad_postgresql_catalog"}

\* An extraction that is not marked as truncated has every row of every projection
\* and rule that it does not name as unsupported; it names none that is
\* supported, and marks only what was cut.
ExtractionIsHonest(req, w) ==
    LET r == Extract(req, w)
        asked == req.projections \o req.rules
        all == FoldLeft(LAMBDA acc, p : acc \o w.rows[p], <<>>,
                        SelectSeq(asked, LAMBDA p : p \notin ToSet(r.unsupported))) IN
    r.status = "ok" =>
        /\ IsPrefix(r.rows, all) /\ Len(r.rows) <= MaxFragments
        /\ r.truncated <=> r.rows # all
        /\ req.language \in w.parsers =>
              \A i \in DOMAIN asked : asked[i] \in ToSet(r.unsupported) <=> <<asked[i], req.language>> \notin w.supports

\* The findings of a structural job never overlap, so that its edits can be
\* applied together; they are the outermost matches, and if any is missing the
\* answer is marked as truncated.  If edits are wanted each finding has one, and
\* no transform was passed over to make it.
FindingsAreDisjoint(req, files, languages) ==
    LET r == Structural(req, files, languages)
        good == {i \in DOMAIN files : files[i] # None}
        outer(i) == {s \in files[i] : ~\E t \in files[i] : Inside(s, t)} IN
    r.status = "ok" =>
        /\ \A i, j \in DOMAIN r.findings : (i < j /\ r.findings[i].file = r.findings[j].file) =>
              r.findings[i].to <= r.findings[j].from
        /\ ToSet(r.findings) \subseteq UNION {outer(i) : i \in good}
        /\ ~r.truncated => ToSet(r.findings) = UNION {outer(i) : i \in good}
        /\ r.edits = IF req.edits /\ req.fix = "template" THEN r.findings ELSE <<>>
        /\ r.edits # <<>> => \A i \in DOMAIN req.transforms : req.transforms[i].kind \in {"substring", "convert"}

\* A rule that is referred to is the packaged one of that id, or the first
\* document of the workspace with it; and if there is no warning, no document
\* was lost (directories above MAX_RULE_DIRS are dropped without one).
RulesAreTheFirst(dirs, packaged, id) ==
    LET read == FoldLeft(LAMBDA acc, d : IF d = None THEN acc ELSE acc \o d, <<>>, FirstN(dirs, MaxRuleDirs))
        documents == FoldLeft(LAMBDA acc, f : IF f = None THEN acc ELSE acc \o SelectSeq(f, LAMBDA d : d # None),
                              <<>>, FirstN(read, MaxRuleFiles))
        named == SelectSeq(documents, LAMBDA d : d.id = id)
        loaded == LoadWorkspaceRules(dirs)
        r == ResolveMatcher("reference", id, packaged, TRUE, dirs) IN
    /\ r.source = IF id \in packaged THEN "packaged" ELSE IF named = <<>> THEN "none" ELSE Head(named).at
    /\ (loaded.warnings = 0 /\ Len(dirs) <= MaxRuleDirs) =>
          \A i \in DOMAIN dirs : \A j \in DOMAIN dirs[i] : \A k \in DOMAIN dirs[i][j] :
              \E n \in DOMAIN loaded.rules : loaded.rules[n] = dirs[i][j][k]

\* All findings of the selected rules in the files they cover, the outermost of
\* any that lie in one another.
Expected(rules, ids, scan) ==
    LET covers(i, f) == /\ f.language = rules[i].language /\ f.name \notin rules[i].ignores
                        /\ rules[i].includes # {} => f.name \in rules[i].includes
                        /\ scan.prefixes # {} => f.name \in scan.prefixes IN
    UNION {{<<i, s>> : s \in {x \in f.spans : ~\E y \in f.spans : Inside(x, y)}} :
             <<i, f>> \in {p \in {j \in DOMAIN rules : ids = {} \/ j \in ids} \X scan.files : covers(p[1], p[2])}}

\* A scan that is not marked as truncated and warns of nothing has, for every
\* rule that was asked for, the outermost findings of every file the rule is
\* for, and nothing else; the limit is kept in any case.
ScanIsComplete(dirs, ids, scan) ==
    \A r \in {Scan(dirs, ids, scan)}, rules \in {LoadWorkspaceRules(dirs).rules} :
    /\ Len(r.rows) <= scan.limit
    /\ r.warnings = 0 => /\ ~r.truncated /\ ids \subseteq DOMAIN rules
                         /\ ToSet(r.rows) = Expected(rules, ids, scan)

\* The reference: the items of the input are assigned to the items of the
\* pattern in order; an item that may skip takes any number of them, the others
\* exactly one.
Assigns(n, skips, m, fit(_, _)) ==
    \E f \in [1..m -> 1..n] :
        /\ \A i \in 2..m : f[i - 1] <= f[i]
        /\ \A i \in 1..m : skips[f[i]] \/ fit(f[i], i)
        /\ \A k \in 1..n : skips[k] \/ Cardinality({i \in 1..m : f[i] = k}) = 1

SegmentReference(tokens, text) ==
    Assigns(Len(tokens), [i \in DOMAIN tokens |-> tokens[i] = Star], Len(text),
            LAMBDA k, i : TokenMatches(tokens[k], text[i]))

\* RepositoryPattern.matches: a pattern with a slash matches a path exactly when
\* the segments of the path can be dealt out to those that are written, in
\* order, ** taking any number of them, and each pair matches character by
\* character; a bare name matches the last segment of a path.
MatchesAsSpecified(p, path) ==
    LET written == SelectSeq(Written(p), LAMBDA s : s # <<>>) IN
    (written # <<>> /\ path # <<>>) =>
        (PatternMatches(ParsePattern(p), path) <=>
            IF p.rooted \/ Len(Written(p)) > 1
            THEN Assigns(Len(written), [i \in DOMAIN written |-> written[i] = Globstar], Len(path),
                         LAMBDA k, i : SegmentReference(written[k], path[i]))
            ELSE written[1] # Globstar /\ SegmentReference(written[1], Last(path)))

\* resolve_paths finds known paths only, and a path that is spelled out is found
\* exactly where the automata would match it.
ResolvesAsMatched(p, candidates) ==
    /\ ResolvePaths(p, candidates) \subseteq candidates
    /\ (Len(p.segments) > 1 /\ ~p.rooted /\ ~p.directory /\ ~Wildcard(p)
          /\ <<>> \notin ToSet(p.segments)) =>
          ResolvePaths(p, candidates) = {c \in candidates : PatternMatches(ParsePattern(p), c)}
=============================================================================
