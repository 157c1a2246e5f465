-------------------------- MODULE SemanticResolver --------------------------
(***************************************************************************)
(* What a semantic request answers (lsp/resolvers.py, lsp/operations.py)   *)
(* and how the providers of a workspace are configured (lsp/providers.py). *)
(* The sessions themselves are modelled in LspSessions and LspBroker; here *)
(* an environment record env says what each of their calls came back with. *)
(***************************************************************************)
EXTENDS Naturals, Sequences, SequencesExt, FiniteSets, FiniteSetsExt

CONSTANTS MaxNameMatches   \* MAX_NAME_MATCHES

Answer(status) == [raised |-> "", status |-> status, restart |-> FALSE]
Raised(error) == [raised |-> error, status |-> "", restart |-> FALSE]

\* _capability_gap, _provider_gap: what cannot be answered is an error where a
\* semantic answer is required.
Gap(mode, status) ==
    IF mode = "semantic_required" THEN Raised("provider_required") ELSE Answer(status)

\* The failure of a broker or of a payload restarts the session first.
Failed(mode) == [Gap(mode, "FAILED") EXCEPT !.restart = TRUE]

Finished(env) == Answer(IF env.complete THEN "COMPLETE" ELSE "PARTIAL")

----------------------------------------------------------------------------
(* Requests at a position.                                                 *)

\* The generation and its broker, in at most two attempts; prepare is None
\* ("moved") when the process was restarted in between.
Prepared(mode, env) ==
    IF mode = "semantic_required" /\ ~env.complete THEN Raised("provider_required")
    ELSE IF ~env.present THEN Answer("PARTIAL")
    ELSE LET settled == SelectSeq(env.prepare, LAMBDA p : p # "moved") IN
         IF settled = <<>> \/ Head(settled) = "error" THEN Gap(mode, "PARTIAL")
         ELSE Answer("READY")

\* _diagnostic_payload: pull when the server offers it (now, or registered
\* while pushes were awaited), else what was pushed; a failed pull falls back.
DiagnosticPayload(env) ==
    CASE ~env.pull /\ env.push = "early" -> "items"
      [] env.pull /\ env.answer = "ok" -> "items"
      [] (env.pull => env.answer # "ok") /\ env.push = "late" /\ env.time -> "items"
      [] OTHER -> "none"

\* _capability_params: the arguments an operation insists on.
ParamsValid(cap, args) ==
    CASE cap \in {"rename", "rename_strict"} -> "newName" \in args
      [] cap \in {"incoming_calls", "outgoing_calls"} -> "item" \in args
      [] OTHER -> "malformed" \notin args

\* execute_capability after the session is ready.
Execute(cap, mode, env) ==
    IF cap # "diagnostics" /\ ~env.supported THEN Gap(mode, "UNSUPPORTED")
    ELSE IF env.at \notin env.inText THEN Raised("value")
    ELSE IF cap = "diagnostics" THEN
         IF ~env.open THEN Failed(mode)
         ELSE IF DiagnosticPayload(env) = "none" THEN Answer("PARTIAL") ELSE Finished(env)
    ELSE IF ~ParamsValid(cap, env.args) THEN Raised("value")
    ELSE IF env.answer # "ok" THEN Failed(mode)
    ELSE Finished(env)

\* execute_capability.
ExecuteCapability(cap, mode, env) ==
    CASE mode = "syntax_only" -> Answer("UNSUPPORTED")
      [] mode # "syntax_only" /\ env.provider # "installed" -> Gap(mode, "UNSUPPORTED")
      [] mode # "syntax_only" /\ env.provider = "installed" /\ cap = "restart" ->
           [Answer("COMPLETE") EXCEPT !.restart = TRUE]
      [] OTHER -> LET p == Prepared(mode, env) IN
                  IF p.status # "READY" THEN p ELSE Execute(cap, mode, env)

\* locations_from_payload: what is no location ("none") is passed over, a
\* location with a malformed range ("bad") refuses the payload.
LocationsFromPayload(payload) ==
    LET own == [i \in DOMAIN payload |-> payload[i].own] IN
    [error |-> "bad" \in ToSet(own), found |-> SelectSeq(own, LAMBDA l : l # "none")]

\* symbols_from_payload: the caller or the callee of an edge, or the item itself.
SymbolsFromPayload(payload) ==
    LET nested(c) == IF c.from # "absent" THEN c.from ELSE IF c.to # "absent" THEN c.to ELSE c.own
        all == [i \in DOMAIN payload |-> nested(payload[i])] IN
    [error |-> "bad" \in ToSet(all), found |-> SelectSeq(all, LAMBDA l : l # "none")]

\* _request_navigation: calls are asked for an item that is prepared first.
RequestNavigation(op, at, env) ==
    IF op \in {"incoming_calls", "outgoing_calls"} /\ env.items[at] # "item"
    THEN [error |-> env.items[at] = "error", items |-> <<>>]
    ELSE env.server[at]

\* _try_adjacent_positions: column 1, the line above, the line below, those
\* that exist and can be answered; the first that has a location, else what
\* the asked position itself gave.
Fallbacks(at) ==
    (IF at[2] > 1 THEN <<<<at[1], 1>>>> ELSE <<>>)
    \o (IF at[1] > 1 THEN <<<<at[1] - 1, at[2]>>>> ELSE <<>>) \o <<<<at[1] + 1, at[2]>>>>
HasLocation(answer) ==
    LET read == LocationsFromPayload(answer.items) IN ~answer.error /\ ~read.error /\ read.found # <<>>
AdjacentPositions(op, env) ==
    LET hits == SelectSeq(Fallbacks(env.at),
                          LAMBDA p : p \in env.inText /\ HasLocation(RequestNavigation(op, p, env))) IN
    IF hits = <<>> THEN env.at ELSE Head(hits)

\* navigate at a position, after the session is ready.
NavigateAt(op, mode, env) ==
    LET first == RequestNavigation(op, env.at, env)
        at == IF HasLocation(first) THEN env.at ELSE AdjacentPositions(op, env)
        payload == RequestNavigation(op, at, env).items IN
    IF \/ first.error \/ LocationsFromPayload(first.items).error \/ SymbolsFromPayload(payload).error
    THEN Failed(mode) @@ [locations |-> <<>>, symbols |-> <<>>]
    ELSE Finished(env) @@ [locations |-> LocationsFromPayload(payload).found, symbols |-> SymbolsFromPayload(payload).found]

\* navigate at a position.
Navigate(op, mode, env) ==
    CASE mode = "syntax_only" -> Answer("UNSUPPORTED")
      [] mode # "syntax_only" /\ env.provider # "installed" -> Gap(mode, "UNSUPPORTED")
      [] OTHER ->
           LET p == Prepared(mode, env) IN
           IF p.status # "READY" THEN p
           ELSE IF ~env.supported THEN Gap(mode, "UNSUPPORTED")
           ELSE IF env.at \notin env.inText THEN Raised("value")
           ELSE NavigateAt(op, mode, env)

----------------------------------------------------------------------------
(* Requests by name.                                                       *)

\* workspace_symbol_candidates: the symbols of the name and kind as they come
\* (by their sort keys); the list stays sorted and at most limit long.
WorkspaceSymbolCandidates(found, limit) ==
    FoldLeft(LAMBDA acc, k :
               IF k \in acc.keys THEN acc
               ELSE IF Cardinality(acc.keys) < limit THEN [acc EXCEPT !.keys = @ \cup {k}]
               ELSE [keys |-> (acc.keys \cup {k}) \ {Max(acc.keys \cup {k})}, truncated |-> TRUE],
             [keys |-> {}, truncated |-> FALSE], found)

\* _name_representatives: the providers asked for a name, each with the first
\* path it covers, in their own order; or the one of the named path (0: none).
NameRepresentatives(path, providerOf) ==
    LET covered == {p \in DOMAIN providerOf : providerOf[p] # 0}
        first(v) == Min({p \in covered : providerOf[p] = v}) IN
    IF path # 0 THEN (IF providerOf[path] = 0 THEN <<>> ELSE <<<<providerOf[path], path>>>>)
    ELSE LET order == SetToSortSeq({providerOf[p] : p \in covered}, LAMBDA a, b : a < b) IN
         [i \in DOMAIN order |-> <<order[i], first(order[i])>>]

\* _merge_named_matches.
MergeNamedMatches(existing, additions, limit) ==
    LET all == existing \cup additions IN
    [matches |-> {m \in all : Cardinality({n \in all : n <= m}) <= limit},
     truncated |-> Cardinality(all) > limit]

\* One representative of _lookup_named_symbols.  Its answer has a status, the
\* symbols it found and those of them that are in the repository; one without
\* a generation only leaves its status, one that is no list ends the lookup.
LookupStep(acc, answer, limit) ==
    IF acc.stop THEN acc
    ELSE IF Cardinality(acc.matches) >= limit THEN [acc EXCEPT !.truncated = TRUE, !.stop = TRUE]
    ELSE IF answer.status = "TIMEOUT" THEN [acc EXCEPT !.truncated = TRUE, !.stop = TRUE]
    ELSE IF answer.status = "MALFORMED" THEN [acc EXCEPT !.failed = TRUE, !.stop = TRUE]
    ELSE IF ~answer.generation THEN [acc EXCEPT !.statuses = @ \cup {answer.status}]
    ELSE LET own == WorkspaceSymbolCandidates(answer.found, MaxNameMatches)
             merged == MergeNamedMatches(acc.matches, own.keys \cap answer.inside, limit)
             cut == own.truncated \/ merged.truncated IN
         [acc EXCEPT !.matches = merged.matches, !.statuses = @ \cup {answer.status},
                     !.truncated = cut, !.stop = cut]

\* _lookup_named_symbols.
LookupNamedSymbols(answers, requested) ==
    LET limit == Min({requested, MaxNameMatches})
        end == FoldLeft(LAMBDA acc, a : LookupStep(acc, a, limit),
                        [matches |-> {}, statuses |-> {}, truncated |-> FALSE, failed |-> FALSE, stop |-> FALSE], answers) IN
    [matches |-> end.matches, truncated |-> end.truncated, failed |-> end.failed,
     status |-> CASE answers = <<>> -> "UNSUPPORTED"
                  [] answers # <<>> /\ end.truncated -> "TRUNCATED"
                  [] answers # <<>> /\ ~end.truncated /\ end.statuses = {"COMPLETE"} -> "COMPLETE"
                  [] answers # <<>> /\ ~end.truncated /\ end.statuses = {"UNSUPPORTED"} -> "UNSUPPORTED"
                  [] OTHER -> "PARTIAL"]

\* _limit_name_navigation_result: results counts locations, symbols and payload.
LimitNameNavigationResult(lookup, status, results, requested) ==
    IF results > requested THEN "TRUNCATED"
    ELSE IF lookup.status = "PARTIAL" /\ status = "COMPLETE" THEN "PARTIAL"
    ELSE status

\* _navigate_by_name: a single match is followed, through the time that is left.
\* position is the outcome of the navigation at the match.
NavigateByName(path, providerOf, answerOf, requested, env) ==
    LET asked == NameRepresentatives(path, providerOf)
        lookup == LookupNamedSymbols([i \in DOMAIN asked |-> answerOf[asked[i][1]]], requested) IN
    IF lookup.failed THEN [status |-> "FAILED", follows |-> {}]
    ELSE IF lookup.truncated THEN [status |-> "TRUNCATED", follows |-> {}]
    ELSE IF Cardinality(lookup.matches) > 1 THEN [status |-> "PARTIAL", follows |-> {}]
    ELSE IF lookup.matches = {} THEN [status |-> lookup.status, follows |-> {}]
    ELSE IF ~env.position THEN [status |-> "FAILED", follows |-> {}]
    ELSE IF ~env.time THEN [status |-> "TRUNCATED", follows |-> {}]
    ELSE [status |-> LimitNameNavigationResult(lookup, env.status, env.results, requested),
          follows |-> lookup.matches]

----------------------------------------------------------------------------
(* Providers.                                                              *)

TypeScriptExtensions == {"ts", "tsx", "js", "jsx", "mjs", "cjs", "mts", "cts"}
DenoExtensions == {"ts", "tsx", "js", "jsx", "mjs"}

\* ProviderRegistry.default: the two servers of TypeScript share its extensions.
DefaultProviders(denoActive) ==
    [p \in {"typescript"} \cup (IF denoActive THEN {"deno"} ELSE {}) |->
        IF p = "deno" THEN DenoExtensions
        ELSE IF denoActive THEN {"cjs", "mts", "cts"} ELSE TypeScriptExtensions]

\* ProviderRegistry.__init__: an extension has one provider.
RegistryAccepts(extensions) ==
    /\ DOMAIN extensions # {}
    /\ \A p, q \in DOMAIN extensions : p # q => extensions[p] \cap extensions[q] = {}

\* _provider_name: the executable behind a launcher; "" is an error.
ProviderName(argv) ==
    LET after(word) == LET at == SelectInSeq(argv, LAMBDA t : t = word) IN
                       IF at = 0 THEN <<>> ELSE SubSeq(argv, at + 1, Len(argv))
        names == SelectSeq(after("run"), LAMBDA t : t # "-flag") IN
    CASE argv[1] = "pnpm" -> IF after("exec") = <<>> THEN "" ELSE Head(after("exec"))
      [] argv[1] = "uv" -> IF names = <<>> THEN "" ELSE Last(names)
      [] OTHER -> argv[1]

\* resolve_provider_executable: where the server is found, nearest first.
ResolveProviderExecutable(argv, nodeBin, venvBin, path) ==
    LET name == ProviderName(argv) IN
    CASE argv[1] = "pnpm" -> IF name \in nodeBin /\ argv[1] \in path THEN "launcher" ELSE "none"
      [] argv[1] = "uv" -> IF name \in venvBin /\ argv[1] \in path THEN "launcher" ELSE "none"
      [] argv[1] \notin {"pnpm", "uv"} /\ name \in nodeBin -> "workspace"
      [] argv[1] \notin {"pnpm", "uv"} /\ name \notin nodeBin /\ name \in venvBin -> "environment"
      [] OTHER -> IF argv[1] \in path THEN "launcher" ELSE "none"

\* _restart_providers: each selector narrows the choice.  registry gives the
\* extensions of each provider, LanguageOf the language of an extension.
LanguageOf(extension) == IF extension \in {"ts", "mts", "cts"} THEN "typescript"
                         ELSE IF extension = "tsx" THEN "typescriptreact"
                         ELSE IF extension = "jsx" THEN "javascriptreact" ELSE "javascript"
ProviderLanguages(extensions) ==
    extensions \cup {LanguageOf(e) : e \in extensions}
    \cup {LanguageOf(IF e = "tsx" THEN "ts" ELSE "js") : e \in extensions \cap {"tsx", "jsx"}}
RestartProviders(registry, name, extension, language) ==
    {p \in DOMAIN registry : /\ name \in {"", p}
                             /\ extension = "" \/ extension \in registry[p]
                             /\ language = "" \/ language \in ProviderLanguages(registry[p])}

\* restart_selected: of the selected providers' sessions, those that run.
RestartSelected(registry, name, extension, language, sessions) ==
    {s \in sessions : s.running /\ s.provider \in RestartProviders(registry, name, extension, language)}

\* process_epoch: the epoch of the session a preview is bound to, or none (a
\* ValueError).  identity says how much of a project's identity was supplied;
\* known are the projects of the provider that have a session or an epoch.
Epoch(epochs, project) == IF project \in DOMAIN epochs THEN epochs[project] ELSE 0
ProcessEpoch(identity, project, known, epochs) ==
    CASE identity = "whole" -> {Epoch(epochs, project)}
      [] identity = "parts" -> {}
      [] identity = "none" /\ Cardinality(known) > 1 -> {}
      [] OTHER -> IF known = {} THEN {Epoch(epochs, "whole workspace")} ELSE {Epoch(epochs, p) : p \in known}

----------------------------------------------------------------------------
\* Where a semantic answer is required, a request at a position gives a whole
\* answer or an error, never a gap that looks like an answer; the one exception
\* in the code is a file whose diagnostics did not arrive in time.
RequiredMeansAnswered(cap, env) ==
    LET r == ExecuteCapability(cap, "semantic_required", env)
        n == Navigate(cap, "semantic_required", env) IN
    /\ r.raised = "" => \/ r.status = "COMPLETE"
                        \/ cap = "diagnostics" /\ r.status = "PARTIAL"
    /\ n.raised = "" => n.status = "COMPLETE"

\* The locations of a complete answer are those the server has at the position
\* that was asked; only where it has none there, those of one next to it, and
\* call edges are never taken from anywhere else.
NavigationIsNearest(op, env) ==
    LET r == Navigate(op, "best_available", env)
        at(p) == LocationsFromPayload(RequestNavigation(op, p, env).items).found
        edges == SymbolsFromPayload(RequestNavigation(op, env.at, env).items).found IN
    r.status = "COMPLETE" =>
        /\ r.locations # at(env.at) =>
              at(env.at) = <<>> /\ \E p \in ToSet(Fallbacks(env.at)) \cap env.inText : r.locations = at(p)
        /\ op \in {"incoming_calls", "outgoing_calls"} => r.symbols = edges

\* A name that is followed to a complete answer is the name of one symbol: every
\* provider that covers a file (or the one of the named file) answered, none of
\* them was cut short, and among all they found in the repository there is no
\* other.
NameIsUnambiguous(path, providerOf, answerOf, requested, env) ==
    \A r \in {NavigateByName(path, providerOf, answerOf, requested, env)} :
    LET asked == {providerOf[p] : p \in IF path = 0 THEN DOMAIN providerOf ELSE {path}} \ {0}
        all == UNION {ToSet(answerOf[v].found) \cap answerOf[v].inside : v \in asked} IN
    (r.follows # {} /\ r.status = "COMPLETE") =>
        /\ \A v \in asked : answerOf[v].status = "COMPLETE"
        /\ all = r.follows

\* The symbols that are kept are the first of all in their order, however they
\* arrive, and the list says so when there were more.
CandidatesAreFirst(found, limit) ==
    LET r == WorkspaceSymbolCandidates(found, limit)
        all == ToSet(found) IN
    /\ r.keys = {k \in all : Cardinality({j \in all : j <= k}) <= limit}
    /\ r.truncated <=> Cardinality(all) > limit

\* With or without deno, every extension has exactly one server, and the server
\* of a file is also found by the language of that file, so a restart by either
\* reaches its session; a restart leaves the sessions of the other servers.
ServersAreDefinite(denoActive, extension, sessions) ==
    LET registry == DefaultProviders(denoActive)
        restarted(e, l) == RestartSelected(registry, "", e, l, sessions) IN
    /\ RegistryAccepts(registry)
    /\ UNION {registry[p] : p \in DOMAIN registry} = TypeScriptExtensions
    /\ restarted(extension, "") \subseteq restarted("", LanguageOf(extension))
    /\ restarted(extension, "") = {s \in sessions : s.running /\ extension \in registry[s.provider]}

\* A server that is reported as available is installed where its launcher will
\* look for it, whatever options its command has.
AvailableIsInstalled(launcher, options, tool, flags, installed) ==
    LET argv == launcher \o options \o <<tool>> \o flags
        found == ResolveProviderExecutable(argv, installed.node, installed.venv, installed.path) IN
    found # "none" => CASE launcher = <<>> -> tool \in installed.node \cup installed.venv \cup installed.path
                        [] launcher = <<"pnpm", "exec">> -> tool \in installed.node
                        [] OTHER -> tool \in installed.venv

\* An epoch is that of every session the caller may mean, so that a preview is
\* not taken for current because of another project's session.
EpochIsUnambiguous(identity, project, known, epochs) ==
    \A e \in ProcessEpoch(identity, project, known, epochs) :
        \A p \in IF identity = "whole" THEN {project} ELSE known : e = Epoch(epochs, p)
=============================================================================
