---------------------------- MODULE LspDocuments ----------------------------
(***************************************************************************)
(* The documents a broker keeps open on its server and the diagnostics it  *)
(* retains for them (lsp/broker.py, lsp/diagnostics.py), as the session    *)
(* that prepares generations drives them (lsp/sessions.py): a bounded      *)
(* least recently used set of documents with versions, diagnostics that    *)
(* arrive by push at any time or are pulled, and a waiter for the          *)
(* diagnostics of one generation.  An action is what happens between two   *)
(* awaits; the session lock orders the preparations of one broker.  A      *)
(* document goes when it is evicted: nothing calls close_document.         *)
(*                                                                         *)
(* The content of a document is a number that also stands for its size.  A *)
(* generation gives the content of every file it was computed from and     *)
(* stands for its fingerprint.                                             *)
(***************************************************************************)
EXTENDS Integers, Sequences, SequencesExt, FiniteSets, FiniteSetsExt

CONSTANTS
    Uris,          \* documents
    Contents,      \* the contents a document may have, numbers above 0
    MaxDocuments,  \* budget.max_open_documents
    MaxBytes,      \* budget.max_open_bytes
    MaxVersion,    \* bound: version of a document
    MaxPushes,     \* bound: diagnostics pushed and not yet received
    MaxPrepared,   \* bound: preparations
    None

VARIABLES
    docs,     \* _documents in the order of _doc_lru: uri, version, content
    binding,  \* DiagnosticStateStore._bindings
    kept,     \* DiagnosticStateStore._states
    pushed,   \* publishDiagnostics on the way, in order
    waiter,   \* a caller that waits for diagnostics: its generation, version and what it got
    closed,   \* documents that were evicted before
    recorded, \* record.generations
    opened,   \* record.open_documents
    prep,     \* the preparation under the session lock: generation, paths still to change
    pull,     \* a diagnostic request: its document, the generation of its caller, the answer
    prepared  \* preparations so far

vars == <<docs, binding, kept, pushed, waiter, closed, recorded, opened, prep, pull,
          prepared>>

Open == {docs[i].uri : i \in DOMAIN docs}
Place(u) == CHOOSE i \in DOMAIN docs : docs[i].uri = u
Doc(u) == docs[Place(u)]

\* The bytes of documents: those of one are numbered.
BytesOf(s) == UNION {{s[i].uri} \X (1..s[i].content) : i \in DOMAIN s}
Bytes(s) == Cardinality(BytesOf(s))

Init ==
    /\ docs = <<>>
    /\ binding = [u \in Uris |-> None]
    /\ kept = [u \in Uris |-> None]
    /\ pushed = <<>>
    /\ waiter = None
    /\ closed = {}
    /\ recorded = [u \in Uris |-> None]
    /\ opened = {}
    /\ prep = None
    /\ pull = None
    /\ prepared = 0

\* What the files may be when a generation is captured.
Trees == {g \in [Uris -> UNION {Contents[u] : u \in Uris}] : \A u \in Uris : g[u] \in Contents[u]}

----------------------------------------------------------------------------
(* Documents.                                                              *)

Fits(s, bytes) == Len(s) < MaxDocuments /\ Bytes(s) + bytes <= MaxBytes
Newest(n) == SubSeq(docs, n + 1, Len(docs))

\* _evict_documents_locked: the first of the least recently used documents
\* go, as many as it takes.
Evicted(bytes) == Min({n \in 0..Len(docs) : n = Len(docs) \/ Fits(Newest(n), bytes)})
Evict(bytes) == Newest(Evicted(bytes))

\* _remove_document_locked.
Without(u) == RemoveAt(docs, Place(u))

\* open_document up to its notifications: version 1, whatever version the document
\* had when it was evicted.
Opens(u, c) ==
    /\ c <= MaxBytes
    /\ docs' = Append(Evict(c), [uri |-> u, version |-> 1, content |-> c])
    /\ closed' = closed \cup (Open \ {docs'[i].uri : i \in DOMAIN docs'})

\* update_document up to its notification: the next version, unless the bytes exceed
\* the budget; the document becomes the most recently used one.
Updates(u, c) ==
    /\ u \in Open
    /\ Doc(u).version < MaxVersion
    /\ Bytes(docs) - Doc(u).content + c <= MaxBytes
    /\ docs' = Append(Without(u), [uri |-> u, version |-> Doc(u).version + 1, content |-> c])
    /\ UNCHANGED closed

----------------------------------------------------------------------------
(* Preparations.                                                           *)

\* _compatible: the version is unknown or the same, the epoch (one broker) and
\* the fingerprint are the same.
Compatible(s, b) ==
    /\ s.version \in {0, b.version}
    /\ s.gen = b.gen

\* DiagnosticStateStore.bind: state of another generation is dropped.
Bound(u, v, g) ==
    /\ binding' = [binding EXCEPT ![u] = [version |-> v, gen |-> g]]
    /\ kept' = [kept EXCEPT ![u] =
                  IF @ # None /\ Compatible(@, [version |-> v, gen |-> g]) THEN @ ELSE None]

\* plan_reconciliation: what differs from the generation that was recorded for the
\* same file; a file that is not open is told of by a watched-files notification.
Changed(u, g) ==
    IF recorded[u] = None THEN {} ELSE {w \in Uris : recorded[u][w] # g[w]}

\* _prepare_once with the lock: the file is bound to the version it is about to
\* have, before anything is sent.
PrepareBegins(u, g) ==
    /\ prep = None
    /\ prepared < MaxPrepared
    /\ prepared' = prepared + 1
    /\ LET shown == opened \cap Open
           todo == Changed(u, g) \cap shown
           version == IF u \notin Open THEN 1
                      ELSE IF u \in todo THEN Doc(u).version + 1 ELSE Doc(u).version IN
       /\ opened' = shown
       /\ Bound(u, version, g)
       /\ prep' = [uri |-> u, gen |-> g, todo |-> todo, sent |-> FALSE]
    /\ UNCHANGED <<docs, pushed, waiter, closed, recorded, pull>>

\* _apply_action for one of the changed paths: the other files of the generation
\* are changed without a bind of theirs.
PrepareChanges(w) ==
    /\ prep # None
    /\ w \in prep.todo
    /\ Updates(w, prep.gen[w]) \/ (w \notin Open /\ Opens(w, prep.gen[w]))
    /\ prep' = [prep EXCEPT !.todo = @ \ {w}]
    /\ UNCHANGED <<binding, kept, pushed, waiter, recorded, opened, pull, prepared>>

\* The file is opened when the session does not take it for open; one the broker has
\* open all the same stays as it is.
PrepareOpens ==
    /\ prep # None
    /\ prep.todo = {} /\ ~prep.sent /\ prep.uri \notin opened
    /\ \/ prep.uri \in Open /\ UNCHANGED <<docs, closed>>
       \/ prep.uri \notin Open /\ Opens(prep.uri, prep.gen[prep.uri])
    /\ prep' = [prep EXCEPT !.sent = TRUE]
    /\ UNCHANGED <<binding, kept, pushed, waiter, recorded, opened, pull, prepared>>

\* The file is bound to its version and the generation recorded.  The caller goes on
\* to wait for diagnostics or to ask for them, or for something else.
PrepareEnds(then) ==
    /\ prep # None
    /\ prep.todo = {} /\ (prep.sent \/ prep.uri \in opened) /\ prep.uri \in Open
    /\ Bound(prep.uri, Doc(prep.uri).version, prep.gen)
    /\ recorded' = [recorded EXCEPT ![prep.uri] = prep.gen]
    /\ opened' = IF prep.uri \in opened THEN opened ELSE (opened \cup {prep.uri}) \cap Open
    /\ prep' = None
    /\ \/ then = "wait" /\ waiter = None
          /\ waiter' = [uri |-> prep.uri, gen |-> prep.gen, version |-> 0, got |-> None]
       \/ then # "wait" /\ UNCHANGED waiter
    /\ \/ then = "pull" /\ pull = None
          /\ pull' = [uri |-> prep.uri, gen |-> prep.gen, items |-> 0, apart |-> FALSE]
       \/ then # "pull" /\ UNCHANGED pull
    /\ UNCHANGED <<docs, pushed, closed, prepared>>

\* It is cancelled at one of its awaits, or a document is above the budget: what
\* has been bound and sent stays.
PrepareFails ==
    /\ prep # None
    /\ prep' = None
    /\ UNCHANGED <<docs, binding, kept, pushed, waiter, closed, recorded, opened, pull, prepared>>

----------------------------------------------------------------------------
(* Diagnostics.                                                            *)

\* The server computes diagnostics of a document it has open and pushes them,
\* with the version or without (0).
Push(u, versioned) ==
    /\ u \in Open
    /\ Len(pushed) < MaxPushes
    /\ pushed' = Append(pushed, [uri |-> u, items |-> Doc(u).content,
                                 version |-> IF versioned THEN Doc(u).version ELSE 0])
    /\ UNCHANGED <<docs, binding, kept, waiter, closed, recorded, opened, prep, pull, prepared>>

\* publish: only for a bound document, and only for its version if the server
\* names one.
Accepted(p) ==
    /\ binding[p.uri] # None
    /\ p.version \in {0, binding[p.uri].version}
    /\ ~(/\ kept[p.uri] # None /\ p.version # 0 /\ kept[p.uri].version # 0
         /\ p.version < kept[p.uri].version)

\* The document is not the one that its diagnostics are bound to: a change was sent that
\* no preparation of its own has bound, or is bound and not yet sent.
Ahead(u) ==
    ~ /\ u \in Open
      /\ Doc(u).version = binding[u].version
      /\ Doc(u).content = binding[u].gen[u]

\* Mutant: the publication is stamped with the version of the binding.
PublishStamped ==
    /\ pushed # <<>>
    /\ LET p == Head(pushed) IN
       kept' = IF Accepted(p)
               THEN [kept EXCEPT ![p.uri] = [items |-> p.items, version |-> binding[p.uri].version,
                                             gen |-> binding[p.uri].gen, pull |-> FALSE,
                                             apart |-> Ahead(p.uri)]]
               ELSE kept
    /\ pushed' = Tail(pushed)
    /\ UNCHANGED <<docs, binding, waiter, closed, recorded, opened, prep, pull, prepared>>

Publish ==
    /\ pushed # <<>>
    /\ LET p == Head(pushed) IN
       kept' = IF Accepted(p)
               THEN [kept EXCEPT ![p.uri] = [items |-> p.items, version |-> p.version,
                                             gen |-> binding[p.uri].gen, pull |-> FALSE,
                                             apart |-> Ahead(p.uri)]]
               ELSE kept
    /\ pushed' = Tail(pushed)
    /\ UNCHANGED <<docs, binding, waiter, closed, recorded, opened, prep, pull, prepared>>

\* The request reaches the server, which answers from the text it has; the answer is on
\* its way.  Of a document that is not open it may answer from the file.
PullAsks ==
    /\ pull # None
    /\ pull.items = 0
    /\ LET u == pull.uri IN
       \E c \in IF u \in Open THEN {Doc(u).content} ELSE Contents[u] :
           pull' = [pull EXCEPT !.items = c,
                                !.apart = Ahead(u) \/ {binding[u].gen, recorded[u]} # {pull.gen}]
    /\ UNCHANGED <<docs, binding, kept, pushed, waiter, closed, recorded, opened, prep, prepared>>

\* _assert_current_generation: the generation of the caller is the recorded one, which
\* the bound one need not be.
IsCurrent(r) == recorded[r.uri] = r.gen

\* apply_pull_report, full: the report is stamped with the binding of now.
PullFull ==
    /\ pull # None
    /\ pull.items # 0
    /\ IsCurrent(pull)
    /\ binding[pull.uri] # None
    /\ LET u == pull.uri IN
       kept' = [kept EXCEPT ![u] = [items |-> pull.items, version |-> binding[u].version,
                                    gen |-> binding[u].gen, pull |-> TRUE,
                                    apart |-> pull.apart \/ binding[u].gen # recorded[u]]]
    /\ pull' = None
    /\ UNCHANGED <<docs, binding, pushed, waiter, closed, recorded, opened, prep, prepared>>

\* apply_pull_report, unchanged: only with a result id of the bound generation.
PullUnchanged ==
    /\ pull # None
    /\ pull.items # 0
    /\ IsCurrent(pull)
    /\ LET u == pull.uri IN
       /\ binding[u] # None
       /\ kept[u] # None
       /\ Compatible(kept[u], binding[u])
       /\ kept[u].pull
       /\ kept' = [kept EXCEPT ![u].version = binding[u].version]
    /\ pull' = None
    /\ UNCHANGED <<docs, binding, pushed, waiter, closed, recorded, opened, prep, prepared>>

\* No answer in time, an error, or a generation that is not current any more.
PullFails ==
    /\ pull # None
    /\ pull' = None
    /\ UNCHANGED <<docs, binding, kept, pushed, waiter, closed, recorded, opened, prep, prepared>>

\* _handle_diagnostic_refresh and invalidate.
Invalidate ==
    /\ kept' = [u \in Uris |-> None]
    /\ UNCHANGED <<docs, binding, pushed, waiter, closed, recorded, opened, prep, pull, prepared>>

\* wait_for_diagnostics begins with the version of the moment and the generation of
\* the caller.
WaitBegins ==
    /\ waiter # None
    /\ waiter.version = 0
    /\ waiter.uri \in Open
    /\ waiter' = [waiter EXCEPT !.version = Doc(waiter.uri).version]
    /\ UNCHANGED <<docs, binding, kept, pushed, closed, recorded, opened, prep, pull, prepared>>

\* current: state that fits the waiter, not the binding of now.
Current(w) == kept[w.uri] # None /\ Compatible(kept[w.uri], w)

WaitGets ==
    /\ waiter # None
    /\ waiter.version # 0
    /\ waiter.got = None
    /\ Current(waiter)
    /\ waiter' = [waiter EXCEPT !.got = kept[waiter.uri]]
    /\ UNCHANGED <<docs, binding, kept, pushed, closed, recorded, opened, prep, pull, prepared>>

\* The time out, or the caller has its diagnostics.
WaitEnds ==
    /\ waiter # None
    /\ waiter' = None
    /\ UNCHANGED <<docs, binding, kept, pushed, closed, recorded, opened, prep, pull, prepared>>

Next ==
    \/ \E u \in Uris : \/ \E g \in Trees : PrepareBegins(u, g)
                       \/ \E versioned \in BOOLEAN : Push(u, versioned)
                       \/ PrepareChanges(u)
    \/ PrepareOpens \/ PrepareFails \/ \E then \in {"wait", "pull", "other"} : PrepareEnds(then)
    \/ Publish \/ PullAsks \/ PullFull \/ PullUnchanged \/ PullFails \/ Invalidate
    \/ WaitBegins \/ WaitGets \/ WaitEnds

Spec == Init /\ [][Next]_vars

----------------------------------------------------------------------------
\* The budget of the session: never more documents or bytes than it allows,
\* after any sequence of opens, updates and evictions.
WithinBudget == Len(docs) <= MaxDocuments /\ Bytes(docs) <= MaxBytes

\* Diagnostics a waiter receives that name a version are of the content the waiter
\* asked about, however preparations, pushes, pulls and evictions interleave.  Two
\* exceptions: the document was closed and opened again (its versions start over);
\* and what the server was told, what is bound and what is recorded were apart when
\* the diagnostics were asked for or stored, as in the middle of a preparation.
DiagnosticsAreOfTheContent ==
    (/\ waiter # None
     /\ waiter.got # None
     /\ waiter.got.version # 0
     /\ ~waiter.got.apart
     /\ waiter.uri \notin closed) => waiter.got.items = waiter.gen[waiter.uri]

----------------------------------------------------------------------------
(* The inductive invariant.                                                *)

Document == [uri : Uris, version : Nat \ {0}, content : Nat]
Generations == [Uris -> Nat]
Bindings == [version : Nat \ {0}, gen : Generations]
States == [items : Nat, version : Nat, gen : Generations, pull : BOOLEAN, apart : BOOLEAN]
Publications == [uri : Uris, items : Nat, version : Nat]
Waits == [uri : Uris, gen : Generations, version : Nat, got : States \cup {None}]
Preparations == [uri : Uris, gen : Generations, todo : SUBSET Uris, sent : BOOLEAN]
Pulls == [uri : Uris, gen : Generations, items : Nat, apart : BOOLEAN]

TypeOK ==
    /\ docs \in Seq(Document) /\ IsFiniteSet(BytesOf(docs))
    /\ \A i, j \in DOMAIN docs : docs[i].uri = docs[j].uri => i = j
    /\ binding \in [Uris -> Bindings \cup {None}]
    /\ kept \in [Uris -> States \cup {None}]
    /\ pushed \in Seq(Publications)
    /\ waiter \in Waits \cup {None}
    /\ recorded \in [Uris -> Generations \cup {None}]
    /\ prep \in Preparations \cup {None}
    /\ pull \in Pulls \cup {None}

\* What is retained is of the generation that is bound; pulls name a version.
KeptIsBound ==
    \A u \in Uris : kept[u] # None =>
        /\ binding[u] # None /\ Compatible(kept[u], binding[u])
        /\ kept[u].pull => kept[u].version # 0

\* What it says of a document that was not closed, if nothing was apart.
Tells(s, u) == s.version # 0 /\ ~s.apart /\ u \notin closed => s.items = s.gen[u]

KeptTells == \A u \in Uris : kept[u] # None => Tells(kept[u], u)

\* Until a document is closed it had no version that is still to come, and whoever
\* names its version means its content.
PushedTells ==
    \A i \in DOMAIN pushed : pushed[i].uri \notin closed =>
        \E k \in DOMAIN docs :
            /\ docs[k].uri = pushed[i].uri
            /\ pushed[i].version <= docs[k].version
            /\ pushed[i].version = docs[k].version => pushed[i].items = docs[k].content

PullTells ==
    pull # None /\ pull.items # 0 /\ ~pull.apart => pull.items = pull.gen[pull.uri]

WaiterTells ==
    waiter # None /\ waiter.got # None => waiter.got.gen = waiter.gen /\ Tells(waiter.got, waiter.uri)

DocumentsInv ==
    /\ TypeOK /\ KeptIsBound /\ KeptTells /\ PushedTells /\ PullTells /\ WaiterTells
    /\ WithinBudget
=============================================================================
