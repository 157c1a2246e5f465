-------------------------- MODULE SearchHydration --------------------------
(***************************************************************************)
(* The search projection (catalog/search.py) and the hydration of its hits *)
(* (analysis/hydration.py).                                                *)
(*                                                                         *)
(* Every fact is one document, and a document is found again by its key,   *)
(* parts joined by colons.  A key is the sequence of the parts between     *)
(* colons here, so that a name with a colon has several.  A document has,  *)
(* for each needle, how often the needle occurs in it; documents are       *)
(* listed in the order of their keys.                                      *)
(***************************************************************************)
EXTENDS Integers, Sequences, SequencesExt, FiniteSets

CONSTANTS
    None,
    PackagedRules, \* the ids of the rules that come with the program
    ExcerptLines   \* what MAX_EXCERPT_CHARS leaves of an excerpt, in lines

----------------------------------------------------------------------------
(* Keys.                                                                   *)

\* _FACT_KEY_FIELDS: which kinds have the project in their key.
ProjectKinds == {"dependency", "script", "task", "config", "symbol", "import", "diagnostic"}
PlainKinds   == {"chunk", "project", "rule", "policy", "change"}

\* search_documents: the key of the document of a fact.
DocumentKey(fact) ==
    CASE fact.kind = "file"  -> <<"path">> \o fact.path
      [] fact.kind = "route" ->
            <<"route">> \o (IF fact.project = None THEN <<"-">> ELSE fact.project) \o fact.id
      [] fact.kind \in ProjectKinds -> <<fact.kind>> \o fact.project \o fact.id
      [] OTHER -> <<fact.kind>> \o fact.id

\* _fact_key_values, canonical_fact_key_for_row: the key of the same fact as a
\* materialized row; a row without the fields keeps its evidence id.
RowKey(row) ==
    CASE row.kind = "file"  -> <<"path">> \o row.path
      [] row.kind = "route" ->
            IF row.id = None THEN <<row.evidence>>
            ELSE <<"route">> \o (IF row.project = None THEN <<"-">> ELSE row.project) \o row.id
      [] row.kind \in ProjectKinds ->
            IF row.project = None \/ row.id = None THEN <<row.evidence>>
            ELSE <<row.kind>> \o row.project \o row.id
      [] row.kind \in PlainKinds ->
            IF row.id = None THEN <<row.evidence>> ELSE <<row.kind>> \o row.id
      [] OTHER -> <<row.evidence>>

----------------------------------------------------------------------------
(* SearchHydrator: from a key back to the fact.                            *)

\* Of facts with the same key a dictionary keeps the last.
LastOf(found) == IF found = <<>> THEN None ELSE Last(found)

\* _path_record, _chunk_record, _project_record, _policy_record,
\* _change_record: the whole rest of the key is the id.
PlainRecord(facts, kind, rest) ==
    LastOf(SelectSeq(facts, LAMBDA f : f.kind = kind /\ (IF kind = "file" THEN f.path ELSE f.id) = rest))

\* _rule_record: a packaged rule, or one of the workspace by its whole id.
RuleRecord(facts, rest) ==
    IF Head(rest) # "packaged" THEN PlainRecord(facts, "rule", rest)
    ELSE IF rest \in PackagedRules
    THEN [kind |-> "rule", project |-> None, id |-> rest, path |-> <<>>, evidence |-> "e"]
    ELSE None

\* _dependency_record, _script_record, _config_record: project and name are
\* looked up as they were joined.
JoinedRecord(facts, kind, rest) ==
    LastOf(SelectSeq(facts, LAMBDA f : f.kind = kind /\ f.project \o f.id = rest))

\* _route_record, _symbol_record, _import_record, _diagnostic_record: an id is
\* a digest, what follows the last colon.
DigestRecord(facts, kind, rest) ==
    LastOf(SelectSeq(facts, LAMBDA f : f.kind = kind /\ f.id = <<Last(rest)>>))

\* _task_record: split at the last colon, so the id of a task has none.
TaskRecord(facts, rest) ==
    LastOf(SelectSeq(facts, LAMBDA f : f.kind = "task" /\ f.project = Front(rest) /\ f.id = <<Last(rest)>>))

\* record: the first part of the key names the resolver.
Record(facts, key) ==
    LET kind == IF Head(key) = "path" THEN "file" ELSE Head(key)
        rest == Tail(key)
    IN CASE kind \in (PlainKinds \ {"rule"}) \cup {"file"} -> PlainRecord(facts, kind, rest)
         [] kind \in {"dependency", "script", "config"}   -> JoinedRecord(facts, kind, rest)
         [] kind \in {"route", "symbol", "import", "diagnostic"} ->
                DigestRecord(facts, kind, rest)
         [] kind = "task"                                 -> TaskRecord(facts, rest)
         [] kind = "rule"                                 -> RuleRecord(facts, rest)
         [] OTHER                                         -> None

----------------------------------------------------------------------------
(* Positions and excerpts.  A chunk is the byte and line it starts at and  *)
(* its characters, each with its bytes and whether it ends a line.         *)

ByteLength(text) == FoldLeft(LAMBDA sum, ch : sum + ch.bytes, 0, text)

LineBreaks(text) == Cardinality({i \in DOMAIN text : text[i].ends})

\* _chunk_at: the first chunk that holds the byte; an empty one holds its own.
ChunkAt(chunks, byte) ==
    LET holds(c) == c.start <= byte
                    /\ byte < c.start + (IF c.text = <<>> THEN 1 ELSE ByteLength(c.text))
    IN IF \E i \in DOMAIN chunks : holds(chunks[i])
       THEN chunks[CHOOSE i \in DOMAIN chunks :
                       holds(chunks[i]) /\ \A j \in 1 .. i - 1 : ~holds(chunks[j])]
       ELSE None

\* A slice ends at the end of what is sliced.
Slice(s, from, to) == SubSeq(s, from, IF to < Len(s) THEN to ELSE Len(s))
Cut(text, n) == Slice(text, 1, n)

\* The line and column after a prefix of a chunk.
After(chunk, prefix) ==
    LET breaks == {i \in DOMAIN prefix : prefix[i].ends}
        last   == IF breaks = {} THEN 0 ELSE CHOOSE i \in breaks : \A j \in breaks : j <= i
    IN [line |-> chunk.line + LineBreaks(prefix), column |-> Len(prefix) - last + 1]

\* _position: the characters before the offset are taken to be as many as the
\* bytes before it.
Position(chunks, byte) ==
    LET chunk == ChunkAt(chunks, byte) IN
    IF chunk = None THEN None ELSE After(chunk, Cut(chunk.text, byte - chunk.start))

\* _query_line: the first line with the query, or the first line.
QueryLine(lines) ==
    IF \E i \in DOMAIN lines : lines[i].match
    THEN CHOOSE i \in DOMAIN lines : lines[i].match /\ \A j \in 1 .. i - 1 : ~lines[j].match
    ELSE 1

\* _sliced: the line with its context, cut from the end to the limit.
Sliced(lines, at, context) ==
    LET from == IF at - context < 1 THEN 1 ELSE at - context
    IN Cut(Slice(lines, from, at + context), ExcerptLines)

\* excerpt, of a chunk hit.
Excerpt(lines, context) == Sliced(lines, QueryLine(lines), context)

----------------------------------------------------------------------------
(* Queries.                                                                *)

\* _query_tokens: maximal runs of token characters.
QueryTokens(query) ==
    FoldLeft(LAMBDA done, ch :
                IF ch = None THEN [done EXCEPT !.open = FALSE]
                ELSE IF done.open
                THEN [done EXCEPT !.tokens = Append(Front(done.tokens), Append(Last(done.tokens), ch))]
                ELSE [tokens |-> Append(done.tokens, <<ch>>), open |-> TRUE],
             [tokens |-> <<>>, open |-> FALSE], query).tokens

\* fts_match_expression: each token quoted, the last a prefix when the query
\* ends in it.
MatchExpression(query, mode) ==
    LET tokens == QueryTokens(query) IN
    [terms  |-> tokens,
     prefix |-> tokens # <<>> /\ Last(query) # None,
     any    |-> mode = "any"]

\* KIND_RANK_BOOSTS, in tenths.
Boost(kind) ==
    CASE kind = "chunk" -> 10
      [] kind = "change" -> 12
      [] kind \in {"project", "dependency", "script", "config", "import", "diagnostic"} -> 13
      [] kind = "file" -> 16
      [] OTHER -> 15

\* _linear_score: up to eight occurrences count; in mode "all" every needle
\* must occur.
LinearScore(document, mode) ==
    LET counts == document.counts
        total  == FoldLeft(LAMBDA sum, n : sum + n, 0, counts)
    IN IF mode = "all" /\ \E i \in DOMAIN counts : counts[i] = 0 THEN 0
       ELSE (IF total < 8 THEN total ELSE 8) * Boost(document.kind)

Under(path, prefix) == IsPrefix(prefix, path)

Hits(documents, kinds, prefixes, mode) ==
    {i \in DOMAIN documents :
        /\ kinds = {} \/ documents[i].kind \in kinds
        /\ prefixes = {} \/ \E p \in prefixes : Under(documents[i].path, p)
        /\ LinearScore(documents[i], mode) > 0}

\* Best first, then by key.
Ranked(documents, hits, mode) ==
    SetToSortSeq(hits, LAMBDA i, j :
        LET s == LinearScore(documents[i], mode)
            t == LinearScore(documents[j], mode)
        IN s > t \/ (s = t /\ i < j))

\* The window of limit + 1 hits from the offset: a page, and whether more are.
Window(ranked, limit, offset) ==
    LET window == Slice(ranked, offset + 1, offset + limit + 1) IN
    [hits |-> Cut(window, limit), more |-> Len(window) > limit]

\* linear_search.
LinearSearch(documents, kinds, prefixes, mode, limit, offset) ==
    Window(Ranked(documents, Hits(documents, kinds, prefixes, mode), mode), limit, offset)

----------------------------------------------------------------------------
(* What is promised.                                                       *)

\* "every hit is only a `fact_key` pointer back to its canonical record": the
\* key of a document leads to a fact with that key, unless it is a task with
\* a colon in its id, which leads nowhere; and the two ways to a fact's key,
\* as a document and as a materialized row, agree.
HitsPointBack(facts) ==
    \A i \in DOMAIN facts :
        LET key   == DocumentKey(facts[i])
            found == Record(facts, key)
        IN /\ found # None => DocumentKey(found) = key
           /\ found = None => facts[i].kind = "task" /\ Len(facts[i].id) > 1
           /\ facts[i].kind \notin {"file"} => RowKey(facts[i]) = key

\* The line and column of a fact are those of its byte where the text before
\* it is ASCII, and never before them otherwise.
PositionNotEarly(chunk, at) ==
    LET before == Cut(chunk.text, at)
        found  == Position(<<chunk>>, chunk.start + ByteLength(before))
    IN found # None =>
        /\ found.line >= After(chunk, before).line
        /\ (\A i \in DOMAIN before : before[i].bytes = 1) => found = After(chunk, before)

\* The excerpt of a hit shows the line that was found whenever the context
\* before it fits the limit.
ExcerptShowsMatch(lines, context) ==
    (\E i \in DOMAIN lines : lines[i].match) /\ context < ExcerptLines =>
        \E i \in DOMAIN Excerpt(lines, context) : Excerpt(lines, context)[i].match

\* Page after page every matching document comes exactly once, and the last
\* page is the one that says there are no more.
PagesTile(documents, kinds, prefixes, mode, limit) ==
    LET hits == Hits(documents, kinds, prefixes, mode)
        page(k) == LinearSearch(documents, kinds, prefixes, mode, limit, k * limit)
        pages == {k \in 0 .. Len(documents) : k = 0 \/ page(k - 1).more}
    IN /\ \A i \in hits : \E k \in pages : \E n \in DOMAIN page(k).hits : page(k).hits[n] = i
       /\ FoldLeft(LAMBDA sum, k : sum + Len(page(k).hits), 0, SetToSeq(pages)) = Cardinality(hits)

\* A query's expression matches by whole tokens, and by the last as a prefix
\* exactly when the user is still typing it.
ExpressionIsFaithful(query) ==
    LET e == MatchExpression(query, "all") IN
    /\ FlattenSeq(e.terms) = SelectSeq(query, LAMBDA ch : ch # None)
    /\ \A i \in DOMAIN e.terms : e.terms[i] # <<>>
    /\ e.prefix <=> (query # <<>> /\ Last(query) # None)
=============================================================================
