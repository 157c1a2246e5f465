-------------------------- MODULE ServiceResponses --------------------------
(***************************************************************************)
(* How the service (analysis/service.py) cuts what it read to the limits   *)
(* of a response, and what it says about the part it left out.  A row is a *)
(* record with its table (or section), its path and its size; a path is a  *)
(* sequence of segments.  Wording, digests and timings are left out.       *)
(***************************************************************************)
EXTENDS Naturals, Sequences, SequencesExt, FiniteSets, FiniteSetsExt, Folds

CONSTANTS
    ExcerptBytes,    \* 8192, what one source row may hold
    MaxSources,      \* 8, source rows of a packet
    MaxGaps,         \* MAX_PACKET_GAPS
    MaxWarnings      \* MAX_RESPONSE_WARNINGS

LesserOf(a, b) == IF a < b THEN a ELSE b
GreaterOf(a, b) == IF a > b THEN a ELSE b
Heads(s, n) == SubSeq(s, 1, LesserOf(n, Len(s)))
Tails(s) == SubSeq(s, 2, Len(s))
SumOf(s) == FoldLeft(LAMBDA sum, n : sum + n, 0, s)

----------------------------------------------------------------------------
(* Paths.                                                                  *)

Below(path, prefix) == IsPrefix(prefix, path)

\* _search_path_prefixes: the whole repository is no restriction; a path
\* below another one is dropped.
SearchPathPrefixes(paths) ==
    IF <<>> \in paths THEN {} ELSE {p \in paths : ~\E q \in paths : q # p /\ Below(p, q)}

InScope(path, prefixes) == prefixes = {} \/ \E p \in prefixes : Below(path, p)

\* _ownership_row_in_scope: by its evidence or by its target.
OwnershipRowInScope(row, prefixes) ==
    InScope(row.path, prefixes) \/ (~row.command /\ InScope(row.target, prefixes))

----------------------------------------------------------------------------
(* Warnings.                                                               *)

\* compact_response_warnings: one line per reason with its count, the last
\* line stands for the groups that do not fit.
CompactResponseWarnings(warnings) ==
    LET reasons == FoldLeft(LAMBDA acc, w : IF w \in ToSet(acc) THEN acc ELSE Append(acc, w), <<>>, warnings)
        count(r) == Len(SelectSeq(warnings, LAMBDA w : w = r))
        groups == [i \in DOMAIN reasons |-> [reason |-> reasons[i], count |-> count(reasons[i])]]
        rest == SubSeq(groups, MaxWarnings, Len(groups))
    IN  IF Len(groups) <= MaxWarnings THEN groups
        ELSE Append(Heads(groups, MaxWarnings - 1),
                    [reason |-> "omitted", count |-> SumOf([i \in DOMAIN rest |-> rest[i].count])])

\* _coverage_for_tables: what a published coverage says of the requested tables.
CoverageForTables(status, reasons, requested, published) ==
    LET missing == requested \ published
        scoped == {r \in reasons : r \in requested \/ r = "global"}
        omitted == scoped \cup missing
    IN  CASE requested = {} -> status
          [] requested # {} /\ status = "CHANGED" -> "CHANGED"
          [] requested # {} /\ status # "CHANGED" /\ missing = requested -> "UNSUPPORTED"
          [] requested # {} /\ missing # requested /\ status \in {"FAILED", "TRUNCATED"} /\ omitted # {} -> status
          [] requested # {} /\ missing # requested /\ status \notin {"FAILED", "TRUNCATED", "CHANGED"} /\ omitted # {} -> "PARTIAL"
          [] OTHER -> "COMPLETE"

\* lint: the status of a scan of the workspace's standards.
LintStatus(result) ==
    CASE result.truncated -> "TRUNCATED"
      [] ~result.truncated /\ ~result.available -> "UNSUPPORTED"
      [] ~result.truncated /\ result.available /\ result.warnings > 0 -> "PARTIAL"
      [] OTHER -> "COMPLETE"

----------------------------------------------------------------------------
(* The task context.                                                       *)

\* _bounded_context_references: the content of the references, each cut to
\* what the ones before it left.
BoundedContextReferences(references, maxBytes) ==
    FoldLeft(LAMBDA acc, r :
        IF r.error THEN [acc EXCEPT !.kept = Append(@, 0), !.gaps = @ \cup {"resource_unavailable"}]
        ELSE LET bytes == LesserOf(r.bytes, maxBytes - acc.used)
                 cut == r.truncated \/ bytes < r.bytes
             IN  [kept |-> Append(acc.kept, bytes), used |-> acc.used + bytes,
                  gaps |-> acc.gaps \cup (IF cut THEN {"resource_content_limit"} ELSE {})],
        [kept |-> <<>>, used |-> 0, gaps |-> {}], references)

\* The source rows of a read, each cut to an excerpt and to the bytes left.
Excerpts(rows, remaining) ==
    FoldLeft(LAMBDA acc, r :
        IF acc.left <= 0 \/ r.bytes = 0 THEN [acc EXCEPT !.truncated = TRUE]
        ELSE LET bytes == LesserOf(r.bytes, LesserOf(acc.left, ExcerptBytes)) IN
             [rows |-> Append(acc.rows, [r EXCEPT !.bytes = bytes]), left |-> acc.left - bytes,
              truncated |-> acc.truncated \/ bytes < r.bytes \/ acc.left - bytes <= 0],
        [rows |-> <<>>, left |-> remaining, truncated |-> FALSE], rows)

\* _select_context_sources: the first row of each requested path, then the
\* rest in order.
SelectContextSources(rows, prefixes, limit) ==
    LET first(prefix) == SelectSeq(rows, LAMBDA r : Below(r.path, prefix))
        chosen == Heads(SelectSeq([i \in DOMAIN prefixes |-> IF first(prefixes[i]) = <<>> THEN [id |-> 0]
                                                            ELSE Head(first(prefixes[i]))],
                                  LAMBDA r : r.id # 0), limit)
        ids == {chosen[i].id : i \in DOMAIN chosen}
    IN  Heads(chosen \o SelectSeq(rows, LAMBDA r : r.id \notin ids), limit)

SectionOrder ==
    <<"canonical_owner", "consumer", "conflict", "validation_route", "constraint", "supporting_fact">>

\* _select_context_facts: one row of every section that has one, then the
\* rest in order.
SelectContextFacts(rows, limit) ==
    LET of(section) == SelectSeq(rows, LAMBDA r : r.section = section)
        sections == SelectSeq(SectionOrder, LAMBDA s : of(s) # <<>>)
        chosen == [i \in DOMAIN sections |-> Head(of(sections[i]))]
        ids == {chosen[i].id : i \in DOMAIN chosen}
    IN  IF limit <= 0 THEN <<>>
        ELSE Heads(chosen \o SelectSeq(rows, LAMBDA r : r.id \notin ids), limit)

SourceQuota(limit, prefixes) == LesserOf(MaxSources, LesserOf(limit, GreaterOf(GreaterOf(1, Len(prefixes)), limit \div 3)))

\* The packet covers its objective.
PacketComplete(gaps, references, status) == gaps = {} /\ status = "COMPLETE"

\* context, without the byte limit of the whole response.
Context(read, request) ==
    LET refs == BoundedContextReferences(request.references, request.maxBytes)
        isSource(r) == r.section = "source"
        sources == Excerpts(SelectSeq(read.rows, isSource), GreaterOf(1, request.maxBytes - refs.used))
        facts == SelectSeq(read.rows, LAMBDA r : ~isSource(r))
        chosen == SelectContextSources(sources.rows, request.prefixes, SourceQuota(request.limit, request.prefixes))
        selected == chosen \o SelectContextFacts(facts, request.limit - Len(chosen))
        sourceTruncated == sources.truncated \/ read.hasMore
        rowsTruncated == read.hasMore \/ Len(selected) < Len(sources.rows) + Len(facts)
        status == IF (sourceTruncated \/ rowsTruncated) /\ read.status = "COMPLETE" THEN "TRUNCATED" ELSE read.status
        gaps == refs.gaps
                \cup (IF sourceTruncated THEN {"source_excerpt_limit"} ELSE {})
                \cup (IF rowsTruncated THEN {"relation_row_limit"} ELSE {})
                \cup (IF read.omissions THEN {"coverage_omission"} ELSE {})
                \cup (IF \E i \in DOMAIN selected : selected[i].unavailable THEN {"runtime_identity_unavailable"} ELSE {})
    IN  [items |-> selected, references |-> refs.kept, status |-> status, gaps |-> gaps,
         truncated |-> sourceTruncated \/ rowsTruncated,
         complete |-> PacketComplete(gaps, refs.gaps, status)]

----------------------------------------------------------------------------
(* The byte limit of the whole packet.                                     *)

\* What may be dropped, first the facts that only support; a required
\* section keeps its first item.
Droppable(packet) ==
    Reverse(packet.supporting_fact) \o Reverse(packet.source) \o Reverse(packet.reference)
    \o Reverse(packet.constraint) \o Reverse(Tails(packet.validation_route)) \o Reverse(Tails(packet.conflict))
    \o Reverse(Tails(packet.consumer)) \o Reverse(Tails(packet.canonical_owner))

PacketItems(packet) ==
    packet.supporting_fact \o packet.source \o packet.reference \o packet.constraint
    \o packet.validation_route \o packet.conflict \o packet.consumer \o packet.canonical_owner

\* build(removed): the packet without the first removed entries; saying that
\* references are missing costs bytes too.
Built(packet, removed) ==
    LET dropped == ToSet(Heads(Droppable(packet), removed))
        kept == SelectSeq(PacketItems(packet), LAMBDA e : e \notin dropped)
        note == IF \E e \in dropped : e \in ToSet(packet.reference) THEN packet.noteBytes ELSE 0
    IN  [kept |-> kept, bytes |-> packet.baseBytes + note + SumOf([i \in DOMAIN kept |-> kept[i].bytes]),
         gaps |-> LesserOf(MaxGaps, packet.gaps + (IF note > 0 THEN 1 ELSE 0) + 1), complete |-> FALSE]

\* Mutant: the search stops one short of dropping everything.
ShrinkContextEnvelopeShort(packet, maxBytes) ==
    LET n == Len(Droppable(packet))
        search[low \in 0..n + 1, high \in 0..n + 1] ==
            IF low >= high THEN n + 1
            ELSE LET middle == (low + high) \div 2 IN
                 IF Built(packet, middle).bytes <= maxBytes
                 THEN LesserOf(middle, IF middle = 0 THEN 0 ELSE search[low, middle - 1])
                 ELSE search[middle + 1, high]
    IN  search[0, n]

\* _shrink_context_envelope: how many entries are dropped, more than there
\* are when no packet fits.
ShrinkContextEnvelope(packet, maxBytes) ==
    LET n == Len(Droppable(packet))
        search[low \in 0..n + 1, high \in 0..n + 1] ==
            IF low > high THEN n + 1
            ELSE LET middle == (low + high) \div 2 IN
                 IF Built(packet, middle).bytes <= maxBytes
                 THEN LesserOf(middle, IF middle = 0 THEN 0 ELSE search[low, middle - 1])
                 ELSE search[middle + 1, high]
    IN  search[0, n]

----------------------------------------------------------------------------
(* Who owns what.                                                          *)

BadStates == {"missing_target", "unverified"}

\* _ownership_record.
MissingRoles(policy, bindings) ==
    {role \in policy.required : ~\E b \in bindings : b.role = role /\ b.state # "missing_target"}
OwnershipState(policy, bindings, conflicts) ==
    IF \E c \in conflicts : c \in {b.id : b \in bindings} THEN "CONFLICTED"
    ELSE IF MissingRoles(policy, bindings) # {} \/ \E b \in bindings : b.state \in BadStates THEN "INCOMPLETE"
    ELSE "RESOLVED"

\* _ownership_scope_warnings: what the frame said about this policy and its
\* sources, and every binding that could not be resolved.
OwnershipScopeWarnings(frame, policies, sources, bindings) ==
    {w \in frame : \/ w.kind = "catalog" \/ w.about \in policies
                   \/ w.kind = "governance" /\ IF sources # {} THEN w.about \in sources ELSE policies = {}}
    \cup {[kind |-> "target", about |-> b.id] : b \in {b \in bindings : b.state \in BadStates}}

\* The warnings of a record: also the roles that nothing fills.
RecordWarnings(policy, bindings, frame, sources) ==
    OwnershipScopeWarnings(frame, {policy.id}, sources, bindings)
    \cup {[kind |-> "role", about |-> r] : r \in {r \in MissingRoles(policy, bindings) : ~\E b \in bindings : b.role = r}}

\* _ownership_coverage_status.
OwnershipCoverageStatus(rows, warnings) ==
    IF warnings # {} \/ \E r \in rows : r.unresolved THEN "PARTIAL" ELSE "COMPLETE"

\* ownership with the decision view: one record per selected policy.
Ownership(policies, bindings, conflicts, prefixes, frame, sources) ==
    LET inScope == {b \in bindings : OwnershipRowInScope(b, prefixes)}
        of(p) == {b \in inScope : b.policy = p.id}
    IN  CASE policies = {} -> [state |-> "NOT_FOUND", status |->
                OwnershipCoverageStatus({}, OwnershipScopeWarnings(frame, {}, sources, {}))]
          [] Cardinality(policies) = 1 ->
                LET p == CHOOSE p \in policies : TRUE IN
                [state |-> OwnershipState(p, of(p), conflicts),
                 status |-> OwnershipCoverageStatus(of(p), RecordWarnings(p, of(p), frame, sources))]
          [] OTHER -> [state |-> "AMBIGUOUS", status |->
                OwnershipCoverageStatus(UNION {of(p) : p \in policies},
                    UNION {RecordWarnings(p, of(p), frame, sources) : p \in policies})]

----------------------------------------------------------------------------
(* Edits.                                                                  *)

\* _editor_request_arguments and _select_named_symbol: which capability a
\* preview asks for; a rename by name needs one match in a complete lookup.
EditorCapability(request, lookup) ==
    LET byName == request.target = "name" \/ (request.target = "none" /\ request.named /\ ~request.strict)
        found == request.named /\ lookup.status = "COMPLETE" /\ ~lookup.truncated /\ lookup.matches = 1 IN
    CASE request.operation = "rename" /\ byName ->
            IF ~found THEN "error" ELSE IF request.strict THEN "rename_strict" ELSE "rename"
      [] request.operation = "rename" /\ ~byName -> "rename_strict"
      [] OTHER -> request.operation

\* _workspace_edit_from_payload: what of an answer is an edit; an action may be
\* disabled, need a command or have no edit.
WorkspaceEditFromPayload(request, payload) ==
    CASE request.operation = "code_action" ->
            IF payload.kind = "list" /\ request.index \in DOMAIN payload.items /\ payload.items[request.index] = {"edit"}
            THEN "edit" ELSE "error"
      [] request.operation \in {"format_document", "format_range"} -> IF payload.kind = "list" THEN "edit" ELSE "error"
      [] OTHER -> IF payload.kind = "object" THEN "edit" ELSE "error"

\* preview: the edit of the capability that is asked for, if it was answered
\* completely.
PreviewEdit(request, lookup, payload) ==
    IF EditorCapability(request, lookup) = "error" \/ ~payload.complete THEN "error"
    ELSE WorkspaceEditFromPayload(request, payload)

----------------------------------------------------------------------------
\* The prefixes a request is reduced to admit the same paths, and no two of
\* them admit the same path (so that no source row is chosen twice).
PrefixesAreMinimal(paths, universe) ==
    LET chosen == SearchPathPrefixes(paths) IN
    /\ \A p \in universe : InScope(p, chosen) <=> (paths = {} \/ \E q \in paths : Below(p, q))
    /\ \A p, q \in chosen : Below(p, q) => p = q

\* A packet is complete only if every row that was read is in it, whole, and
\* so is every reference; and no row is in it twice.
ContextIsHonest(read, request) ==
    \A packet \in {Context(read, request)} :
    /\ packet.complete =>
          /\ ~read.hasMore /\ read.status = "COMPLETE"
          /\ ToSet(packet.items) = ToSet(read.rows)
          /\ \A i \in DOMAIN request.references :
                ~request.references[i].error /\ packet.references[i] = request.references[i].bytes
    /\ \A i, j \in DOMAIN packet.items : packet.items[i].id = packet.items[j].id => i = j
    /\ Len(packet.items) <= request.limit

\* A shrunken packet fits and keeps the first item of every required section;
\* it is given up only when the smallest packet does not fit.
ShrinksToFit(packet, maxBytes) ==
    LET n == Len(Droppable(packet))
        removed == ShrinkContextEnvelope(packet, maxBytes)
    IN  /\ removed <= n => Built(packet, removed).bytes <= maxBytes
        /\ Built(packet, n).bytes <= maxBytes => removed <= n
        /\ removed <= n => \A s \in {"validation_route", "conflict", "consumer", "canonical_owner"} :
              packet[s] # <<>> => Head(packet[s]) \in ToSet(Built(packet, removed).kept)

\* Every warning is counted in some line.
WarningsAreCounted(warnings) ==
    LET lines == CompactResponseWarnings(warnings) IN
    /\ Len(lines) <= MaxWarnings
    /\ SumOf([i \in DOMAIN lines |-> lines[i].count]) = Len(warnings)

\* A decision that is incomplete is never reported with complete coverage.
IncompleteIsPartial(policies, bindings, conflicts, prefixes, frame, sources) ==
    LET answer == Ownership(policies, bindings, conflicts, prefixes, frame, sources) IN
    answer.state = "INCOMPLETE" => answer.status = "PARTIAL"

\* The coverage of the requested tables is complete only if all of them were
\* published and nothing was left out of any of them; and narrowing a complete
\* coverage to published tables keeps it complete.
CoverageIsHonest(status, reasons, requested, published) ==
    LET narrowed == CoverageForTables(status, reasons, requested, published) IN
    requested # {} =>
        /\ narrowed = "COMPLETE" => requested \subseteq published /\ reasons \cap (requested \cup {"global"}) = {}
        /\ narrowed = "UNSUPPORTED" => requested \cap published = {}
        /\ (status = "COMPLETE" /\ reasons = {} /\ requested \subseteq published) => narrowed = "COMPLETE"

\* An edit is previewed only of what was asked for: a rename that the server is
\* not asked to confirm is of a symbol that a complete search found in one place,
\* and a code action's edit is all that the action does.
PreviewIsWhatWasAsked(request, lookup, payload) ==
    PreviewEdit(request, lookup, payload) = "edit" =>
        /\ (request.operation = "rename" /\ EditorCapability(request, lookup) # "rename_strict") =>
               request.named /\ lookup = [status |-> "COMPLETE", truncated |-> FALSE, matches |-> 1]
        /\ payload.complete
        /\ request.operation = "code_action" =>
               payload.items[request.index] \cap {"disabled", "command"} = {}
=============================================================================
