----------------------------- MODULE Governance -----------------------------
(***************************************************************************)
(* Authority of soleaux.authority: the canonical records of the configured *)
(* governance sources, the repository evidence traced from their targets,  *)
(* the conflicts among declarations, and the precedence of owner claims.   *)
(*                                                                         *)
(* Paths and patterns are numbers: repo.paths holds the captured files,    *)
(* repo.patterns what a pattern covers.  A target is a path with or        *)
(* without a fragment.  A record maps each field to its cell: the text of  *)
(* an identity (None when empty) and the targets the cell refers to.       *)
(***************************************************************************)
EXTENDS Integers, Sequences, SequencesExt, FiniteSets, FiniteSetsExt, Functions

CONSTANTS None, MaxInferred

----------------------------------------------------------------------------
\* The record sets.
MissingConfiguredFields(source, vocabulary) ==
    ({source.identity} \cup {r.field : r \in source.relationships}) \ vocabulary

Refused(why) == [records |-> <<>>, warnings |-> {why}]
Selected(source, records, vocabulary) ==
    IF MissingConfiguredFields(source, vocabulary) # {} THEN Refused("field missing")
    ELSE [records |-> records, warnings |-> {}]

\* A configured heading and occurrence select one table; rows of another
\* width than the header are skipped.
MarkdownSourceRecords(source) ==
    LET matching == SelectSeq(source.tables, LAMBDA t : t.heading = source.heading)
    IN  IF ~source.utf8 THEN Refused("parser failed")
        ELSE IF Len(matching) < source.occurrence THEN Refused("selector not found")
        ELSE LET table == matching[source.occurrence]
             IN  IF table.headers = {} \/ table.rows = <<>> THEN Refused("selector not found")
                 ELSE Selected(source, SelectSeq(table.rows, LAMBDA r : DOMAIN r = table.headers), table.headers)

SharedVocabulary(records) == {f \in DOMAIN records[1] : \A i \in DOMAIN records : f \in DOMAIN records[i]}

StructuredSourceRecords(source) ==
    IF ~source.utf8 \/ ~source.parses THEN Refused("parser failed")
    ELSE IF source.addressed = <<>> THEN Refused("selector not found")
    ELSE Selected(source, source.addressed, SharedVocabulary(source.addressed))

SourceRecords(repo, source) ==
    IF source.path \notin repo.paths THEN Refused("source missing")
    ELSE IF source.markdown THEN MarkdownSourceRecords(source) ELSE StructuredSourceRecords(source)

----------------------------------------------------------------------------
\* The claims of one record set.
PolicyId(source, identity) ==
    [source |-> IF identity.authored THEN 0 ELSE source.id, name |-> identity.name]

ExpandedTargetPaths(repo, target) ==
    IF target.path \in repo.paths THEN {target.path}
    ELSE IF target.path \in DOMAIN repo.patterns THEN repo.patterns[target.path] \cap repo.paths
    ELSE {}

TargetState(repo, target) ==
    IF ExpandedTargetPaths(repo, target) = {} THEN "missing_target" ELSE "effective"

Binding(repo, kind, policy, label, target, relationship, path, line) ==
    [kind |-> kind, policy |-> policy, label |-> label, target |-> target, relationship |-> relationship,
     path |-> path, line |-> line, state |-> TargetState(repo, target)]

RecordLine(source, i) == source.line + i - 1

ClaimsForRecordSet(repo, source, records) ==
    LET identity(i) == records[i][source.identity].text
        claimed == {i \in DOMAIN records : identity(i) # None /\ identity(i).valid}
        targets(i, r) == records[i][r.field].targets
    IN  [policies |-> {[id |-> PolicyId(source, identity(i)), path |-> source.path, line |-> RecordLine(source, i),
                        scope |-> {source.path}, names |-> {identity(i).name},
                        required |-> {r.field : r \in {x \in source.relationships : x.required}}] : i \in claimed},
         bindings |-> UNION {UNION {{Binding(repo, "declared", PolicyId(source, identity(i)), r.field, t, "declared",
                                             source.path, RecordLine(source, i)) : t \in targets(i, r)}
                                    : r \in source.relationships} : i \in claimed},
         warnings |-> {[why |-> "identity missing", row |-> i] : i \in DOMAIN records \ claimed}
                      \cup UNION {{[why |-> "no target", row |-> i] : r \in {x \in source.relationships :
                                     x.required /\ targets(i, x) = {}}} : i \in claimed}]

\* One policy per id: the first claim wins, the others add names and scope.
ConsolidatePolicies(claims) ==
    LET of(id) == {c \in claims : c.id = id}
        winner(id) == CHOOSE c \in of(id) : \A d \in of(id) : c.path < d.path \/ (c.path = d.path /\ c.line <= d.line)
    IN  {[winner(id) EXCEPT !.scope = UNION {c.scope : c \in of(id)}, !.names = UNION {c.names : c \in of(id)},
                            !.required = UNION {c.required : c \in of(id)}] : id \in {c.id : c \in claims}}

\* An exact id, else a path, else a name.
PolicyIdsForSelector(policies, bindings, selector) ==
    LET exact == {p.id : p \in {q \in policies : q.id = selector.id}}
        byPath == {p.id : p \in {q \in policies : selector.path \in q.scope}}
                  \cup {b.policy : b \in {c \in bindings : c.path = selector.path
                                                           \/ (c.target.path = selector.path /\ ~c.target.fragment)}}
    IN  IF exact # {} THEN exact ELSE IF byPath # {} THEN byPath
        ELSE {p.id : p \in {q \in policies : selector.name \in q.names}}

----------------------------------------------------------------------------
\* Evidence: a bounded breadth-first walk from the targets of the declarations.
Relationship(target, relationship, path) == [target |-> target, relationship |-> relationship, path |-> path]
AsPath(p) == [path |-> p, fragment |-> FALSE]
Ascending(S) == SetToSortSeq(S, <)
Forward(edges, p) == {e[2] : e \in {x \in edges : x[1] = p}}
Backward(edges, p) == {e[1] : e \in {x \in edges : x[2] = p}}

\* Files that declare a policy do not count as references to its targets.
StructuredReferences(repo, excluded) == {e \in repo.references : e[1] \notin excluded /\ e[1] # e[2]}

\* An import is an edge when its target is captured.
ImportRelationships(repo) == {e \in repo.imports : e[2] \in repo.paths}

ConfigurationRelationships(repo) == {e \in repo.configurations : e[1] # e[2]}

RelationshipsForPath(repo, excluded, seed) ==
    LET references == StructuredReferences(repo, excluded)
        imports == ImportRelationships(repo)
        configs == ConfigurationRelationships(repo)
        out(edges, name) == [i \in 1..Cardinality(Forward(edges, seed)) |->
                                Relationship(AsPath(Ascending(Forward(edges, seed))[i]), name, seed)]
        in(edges, name(_)) == [i \in 1..Cardinality(Backward(edges, seed)) |->
                                LET p == Ascending(Backward(edges, seed))[i] IN Relationship(AsPath(p), name(p), p)]
        invoked == Ascending({s.manifest : s \in {x \in repo.scripts : seed \in x.references}})
    IN  out(references, "references") \o in(references, LAMBDA p : "referenced-by")
        \o out(imports, "imports") \o in(imports, LAMBDA p : IF p \in repo.tests THEN "tested-by" ELSE "imported-by")
        \o out(configs, "configures") \o in(configs, LAMBDA p : "configured-by")
        \o [i \in DOMAIN invoked |-> Relationship([path |-> invoked[i], fragment |-> TRUE], "invoked-by", invoked[i])]
        \o (IF seed \in repo.registrations THEN <<Relationship(AsPath(seed), "registered", seed)>> ELSE <<>>)

Bounded(walk) == Len(walk.found) >= MaxInferred

Follow(repo, depth, walk, rel) ==
    LET reached == ExpandedTargetPaths(repo, rel.target) \ walk.seen
        found == Append(walk.found, rel)
    IN  IF Bounded(walk) \/ rel \in Range(walk.found) THEN walk
        ELSE IF Len(found) >= MaxInferred THEN [walk EXCEPT !.found = found, !.queue = <<>>]
        ELSE [found |-> found, seen |-> walk.seen \cup reached,
              queue |-> walk.queue \o [i \in 1..Cardinality(reached) |-> <<Ascending(reached)[i], depth + 1>>]]

RECURSIVE Trace(_, _, _)
Trace(repo, excluded, walk) ==
    IF walk.queue = <<>> THEN walk
    ELSE LET seed == Head(walk.queue)
             rest == [walk EXCEPT !.queue = Tail(@)]
         IN  Trace(repo, excluded,
                IF seed[2] >= 2 THEN rest
                ELSE FoldLeft(LAMBDA w, rel : Follow(repo, seed[2], w, rel), rest,
                              RelationshipsForPath(repo, excluded, seed[1])))

Seeds(repo, policy, declared) ==
    UNION {ExpandedTargetPaths(repo, b.target) :
             b \in {c \in declared : c.policy = policy.id /\ c.state # "missing_target"}}

InferEvidence(repo, policies, declared) ==
    LET excluded == {p.path : p \in policies}
        walk(policy) == LET seeds == Seeds(repo, policy, declared) IN
            Trace(repo, excluded, [found |-> <<>>, seen |-> seeds,
                  queue |-> [i \in 1..Cardinality(seeds) |-> <<Ascending(seeds)[i], 0>>]])
    IN  [bindings |-> UNION {{Binding(repo, "evidence", policy.id, None, rel.target, rel.relationship, rel.path, 1)
                               : rel \in Range(walk(policy).found)} : policy \in policies},
         warnings |-> {[why |-> "bounded", row |-> policy.id] : policy \in {p \in policies : Bounded(walk(p))}}]

----------------------------------------------------------------------------
\* Conflicts among the declarations of one field of one policy.
Sites(claims) == {[path |-> c.path, line |-> c.line] : c \in claims}
At(claims, site) == {c \in claims : c.path = site.path /\ c.line = site.line}
BindingSignature(c) == <<c.target, c.relationship>>
Before(s, t) == s.path < t.path \/ (s.path = t.path /\ s.line <= t.line)

ResolveBindingClaimsFirstWins(bindings) ==
    LET domain(b) == {c \in bindings : b.kind = "declared" /\ c.kind = "declared" /\ c.policy = b.policy /\ c.label = b.label}
        first(b) == \A t \in Sites(domain(b)) : Before([path |-> b.path, line |-> b.line], t)
    IN  {[b EXCEPT !.state = IF Cardinality(Sites(domain(b))) < 2 \/ first(b) THEN b.state ELSE "shadowed"] : b \in bindings}

ResolveBindingClaims(bindings) ==
    LET domain(b) == {c \in bindings : b.kind = "declared" /\ c.kind = "declared" /\ c.policy = b.policy /\ c.label = b.label}
        signatures(b) == {{BindingSignature(c) : c \in At(domain(b), s)} : s \in Sites(domain(b))}
        first(b) == \A t \in Sites(domain(b)) : Before([path |-> b.path, line |-> b.line], t)
        state(b) == IF Cardinality(Sites(domain(b))) < 2 THEN b.state
                    ELSE IF Cardinality(signatures(b)) > 1 THEN "conflicting"
                    ELSE IF first(b) THEN b.state ELSE "shadowed"
    IN  {[b EXCEPT !.state = state(b)] : b \in bindings}

CollectGovernanceClaims(repo, sources, selectors) ==
    LET claims(s) == ClaimsForRecordSet(repo, s, SourceRecords(repo, s).records)
        all == ConsolidatePolicies(UNION {claims(s).policies : s \in sources})
        allDeclared == UNION {claims(s).bindings : s \in sources}
        ids == UNION {PolicyIdsForSelector(all, allDeclared, s) : s \in selectors}
        policies == {p \in all : ids # {} => p.id \in ids}
        declared == {b \in allDeclared : ids # {} => b.policy \in ids}
        inferred == InferEvidence(repo, policies, declared)
    IN  [policies |-> policies, bindings |-> ResolveBindingClaims(declared \cup inferred.bindings),
         warnings |-> UNION {SourceRecords(repo, s).warnings \cup {w.why : w \in claims(s).warnings} : s \in sources}
                      \cup {w.why : w \in inferred.warnings}]

\* collect_policy_facts: the records alone, for the catalog.
CollectPolicyFacts(repo, sources) ==
    UNION {LET records == SourceRecords(repo, s).records IN
           {[id |-> PolicyId(s, records[i][s.identity].text), source |-> s.id, line |-> RecordLine(s, i)] :
              i \in {j \in DOMAIN records : records[j][s.identity].text # None}} : s \in sources}

----------------------------------------------------------------------------
\* Owner claims: the manifests and CODEOWNERS, by precedence of their source.
\* The last rule of a file that matches a path is the one that counts.
ParseCodeowners(path, file, paths) ==
    LET rules == {i \in DOMAIN file.rules : ~file.rules[i].unsupported}
        matching(p) == {i \in rules : p \in file.rules[i].covers}
    IN  IF ~file.utf8 THEN {}
        ELSE {[target |-> p, owners |-> file.rules[Max(matching(p))].owners, tier |-> 1, path |-> path, line |-> Max(matching(p))]
                : p \in {q \in paths : matching(q) # {}}}

\* Owners a manifest declares; a registration names its owners by the way.
DeclarationClaims(path, manifest) ==
    {[target |-> o.target, owners |-> o.owners, tier |-> IF o.canonical THEN 3 ELSE 2, path |-> path, line |-> 1]
        : o \in manifest.owners}
    \cup {[target |-> r.target, owners |-> r.owners, tier |-> 2, path |-> path, line |-> 1]
            : r \in {x \in manifest.registrations : x.owners # <<>>}}

OwnerConflicts(target, claims, top, kind) ==
    {[target |-> target, claim |-> c, competing |-> claims \ {c},
      state |-> IF c \notin top THEN "shadowed" ELSE IF kind = "same-tier" THEN "conflicting" ELSE "effective"]
        : c \in claims}

ResolvePrecedence(claims) ==
    LET of(t) == {c \in claims : c.target = t}
        top(t) == {c \in of(t) : c.tier = Min({d.tier : d \in of(t)})}
        winner(t) == CHOOSE c \in top(t) : \A d \in top(t) : Before(c, d)
        contradictory(t) == {c \in of(t) \ top(t) : c.owners # winner(t).owners}
        targets == {c.target : c \in claims}
        agreed == {t \in targets : Cardinality({c.owners : c \in top(t)}) = 1}
    IN  [winners |-> {winner(t) : t \in agreed},
         conflicts |-> UNION {OwnerConflicts(t, of(t), top(t), "same-tier") : t \in targets \ agreed}
                       \cup UNION {OwnerConflicts(t, {winner(t)} \cup contradictory(t), {winner(t)}, "shadowed")
                                     : t \in {u \in agreed : contradictory(u) # {}}}]

\* AuthorityResolver.resolve: the claims of every recognised file, and the
\* governance claims restricted to what the request selects.
Answer(owners, governance, selectors) ==
    LET ids == UNION {PolicyIdsForSelector(governance.policies, governance.bindings, s) : s \in selectors}
        kept(id) == selectors # {} => id \in ids
    IN  [owners |-> owners.winners,
         ownerConflicts |-> IF selectors = {} THEN owners.conflicts ELSE {},
         policies |-> {p \in governance.policies : kept(p.id)},
         bindings |-> {b \in governance.bindings : kept(b.policy)},
         conflicts |-> {b \in governance.bindings : kept(b.policy) /\ b.state \in {"conflicting", "shadowed"}},
         warnings |-> governance.warnings
                      \cup {"unresolved" : b \in {c \in governance.bindings : c.kind = "declared" /\ kept(c.policy)
                                                                              /\ c.state = "missing_target"}}]

Resolve(repo, files, sources, selectors) ==
    Answer(ResolvePrecedence(UNION {IF files[p].codeowners THEN ParseCodeowners(p, files[p], repo.paths)
                                    ELSE DeclarationClaims(p, files[p]) : p \in DOMAIN files}),
           CollectGovernanceClaims(repo, sources, selectors), selectors)

----------------------------------------------------------------------------
\* References.

\* Records never contradict silently: two records of one policy that give a
\* field different targets are both marked conflicting, equal ones leave one
\* declaration standing, and no declared target is lost.
DeclarationsAgree(repo, sources) ==
    \A result \in {CollectGovernanceClaims(repo, sources, {})} :
    LET declared == {b \in result.bindings : b.kind = "declared"}
        standing(b) == b.state \notin {"shadowed", "conflicting"}
        record(s, i) == SourceRecords(repo, s).records[i]
    IN  /\ \A b, c \in declared : b.policy = c.policy /\ b.label = c.label /\ standing(b) /\ standing(c)
                                  => b.path = c.path /\ b.line = c.line
        /\ \A s \in sources : \A i \in DOMAIN SourceRecords(repo, s).records, r \in s.relationships :
             LET text == record(s, i)[s.identity].text
                 mine == {b \in declared : b.path = s.path /\ b.line = RecordLine(s, i) /\ b.label = r.field}
             IN  text # None /\ text.valid => {b.target : b \in mine} = record(s, i)[r.field].targets
        /\ \A b, c \in declared : b.policy = c.policy /\ b.label = c.label /\ b.path # c.path /\ b.target # c.target
              => b.state = "conflicting" \/ \E d \in declared :
                   d.policy = b.policy /\ d.label = b.label /\ d.path = b.path /\ d.line = b.line /\ d.target = c.target
        /\ {p.id : p \in result.policies} \subseteq {f.id : f \in CollectPolicyFacts(repo, sources)}

\* The evidence of a policy is every relationship of a path at most one hop
\* from its targets; when there is more than the bound a warning says so.
EvidenceIsTraced(repo, sources) ==
    \A result \in {CollectGovernanceClaims(repo, sources, {})} :
    LET excluded == {p.path : p \in result.policies}
        rels(S) == UNION {Range(RelationshipsForPath(repo, excluded, p)) : p \in S}
        next(S) == S \cup UNION {ExpandedTargetPaths(repo, rel.target) : rel \in rels(S)}
        evidence(p) == {[target |-> b.target, relationship |-> b.relationship, path |-> b.path] :
                          b \in {c \in result.bindings : c.kind = "evidence" /\ c.policy = p.id}}
    IN  \A p \in result.policies : \A all \in {rels(next(Seeds(repo, p, {b \in result.bindings : b.kind = "declared"})))} :
              IF Cardinality(all) < MaxInferred THEN evidence(p) = all
              ELSE evidence(p) \subseteq all /\ Cardinality(evidence(p)) = MaxInferred /\ "bounded" \in result.warnings

\* A selection returns the declarations of the selected policies exactly as
\* the full answer has them.
SelectionRestricts(repo, sources, selector) ==
    \A full \in {Resolve(repo, <<>>, sources, {})}, some \in {Resolve(repo, <<>>, sources, {selector})} :
    LET declared(result) == {b \in result.bindings : b.kind = "declared" /\ \E p \in some.policies : p.id = b.policy}
    IN  some.policies \subseteq full.policies /\ declared(some) = declared(full)

\* A target has at most one effective owner, it is of the best tier, and every
\* claim that disagrees with it, or with its own tier, is reported.
OwnersAreDecided(claims) ==
    LET result == ResolvePrecedence(claims)
        reported(c) == \E k \in result.conflicts : k.claim = c
    IN  /\ \A w, v \in result.winners : w.target = v.target => w = v
        /\ \A c \in claims :
             \/ \E w \in result.winners : w.target = c.target /\ w.tier <= c.tier /\ (w.owners = c.owners \/ reported(c))
             \/ reported(c) /\ \A w \in result.winners : w.target # c.target
        /\ \A k \in result.conflicts : k.state = "effective" <=> k.claim \in result.winners
=============================================================================
