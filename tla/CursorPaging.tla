---------------------------- MODULE CursorPaging ----------------------------
(***************************************************************************)
(* Paged reads of the published catalog (analysis/service.py): a response  *)
(* that does not hold every row carries a cursor, the next request brings  *)
(* it back.  A cursor is a signed token that says where to continue; which *)
(* publication it belongs to is kept in the service, in a bounded table    *)
(* whose entries expire.  Publications, the clock, a restart of the        *)
(* service and the clients are the environment.                            *)
(***************************************************************************)
EXTENDS Integers, Sequences, SequencesExt, FiniteSetsExt

CONSTANTS
    Pagers,          \* clients that read page after page
    Query,           \* what each of them asks: a digest of its request
    Tool,            \* and with which operation: search, query or ownership
    Required,        \* the digests that insist on semantic coverage
    Limit,           \* rows of a page
    Totals,          \* how many rows a publication may hold for a query
    RowBytes,        \* size of each row, 1..Max(Totals)
    TargetBytes, MaxPageBytes,   \* _OWNERSHIP_RESPONSE_TARGET_BYTES, MAX_...
    TtlTicks, MaxStates,         \* cursor lifetime, MAX_CURSOR_STATES
    MaxRevision, MaxClock, MaxEpoch, MaxStarts, None

VARIABLES published, cursors, clock, epoch, pager, starts

vars == <<published, cursors, clock, epoch, pager, starts>>

Idle == [status |-> "idle", cursor |-> None, pages |-> <<>>]

Publications == [snapshot : 1..MaxRevision, revision : 1..MaxRevision, semantic : BOOLEAN, total : Totals]

Init ==
    /\ published \in {p \in Publications : p.snapshot = 1 /\ p.revision = 1}
    /\ cursors = <<>>
    /\ clock = 0
    /\ epoch = 1
    /\ pager = [c \in Pagers |-> Idle]
    /\ starts = 0

----------------------------------------------------------------------------
(* The cursor table: oldest entry first.                                   *)

\* _sweep_expired.
Swept(table) ==
    LET live == {i \in DOMAIN table : table[i].expires > clock} IN
    IF live = {} THEN <<>> ELSE SubSeq(table, Min(live), Len(table))

Token(snapshot, digest, offset) ==
    [epoch |-> epoch, snapshot |-> snapshot, digest |-> digest, offset |-> offset]

\* The entries of a table have different tokens.
Places(table, token) == {i \in DOMAIN table : table[i].token = token}
Without(table, token) ==
    IF Places(table, token) = {} THEN table
    ELSE RemoveAt(table, CHOOSE i \in Places(table, token) : TRUE)

\* encode: an equal token takes the place and the publication of the newest.
Encoded(table, token) ==
    LET all == Append(Without(Swept(table), token),
                      [token |-> token, expires |-> clock + TtlTicks, revision |-> published.revision])
    IN  SubSeq(all, IF Len(all) > MaxStates THEN Len(all) - MaxStates + 1 ELSE 1, Len(all))

\* decode: the entries of a token that is known and has not expired.
Decoded(table, token) ==
    {Swept(table)[i] : i \in {j \in DOMAIN Swept(table) :
        Swept(table)[j].token = token /\ token.epoch = epoch}}

----------------------------------------------------------------------------
(* One page.                                                               *)

\* Rows offset+1 .. offset+count of the publication.
Page(offset, count) ==
    [revision |-> published.revision, from |-> offset + 1, to |-> offset + count, total |-> published.total]

Bytes(offset, count) == FoldSet(LAMBDA i, sum : sum + RowBytes[i], 0, (offset + 1)..(offset + count))

Available(offset) ==
    IF offset >= published.total THEN 0
    ELSE IF offset + Limit >= published.total THEN published.total - offset
    ELSE Limit

\* The binary search for the largest page of at most TargetBytes: one round
\* of its loop, and the loop.
Round(search, offset) ==
    LET middle == (search.low + search.high) \div 2 IN
    IF search.low > search.high THEN search
    ELSE IF Bytes(offset, middle) <= TargetBytes
    THEN [low |-> middle + 1, high |-> search.high, best |-> middle]
    ELSE [search EXCEPT !.high = middle - 1]

Rounds(offset, most) ==
    LET search[rounds \in Nat] ==
            IF rounds = 0 THEN [low |-> 1, high |-> most, best |-> 0]
            ELSE Round(search[rounds - 1], offset)
    IN  search
Largest(offset, most) == Rounds(offset, most)[most].best

\* _bounded_ownership_response: rows of the page, None when even one is too
\* large; a cursor that points behind the last row is refused.
OwnershipCount(offset) ==
    LET all == Available(offset) IN
    IF all = 0 THEN 0
    ELSE IF Bytes(offset, all) <= TargetBytes THEN all
    ELSE IF Largest(offset, all - 1) > 0 THEN Largest(offset, all - 1)
    ELSE IF Bytes(offset, 1) < MaxPageBytes THEN 1
    ELSE None

\* search and query read Limit rows; search continues at offset + limit and
\* query at offset + len(rows), which is the same as long as there is more.
Count(tool, offset) == IF tool = "ownership" THEN OwnershipCount(offset) ELSE Available(offset)

Unavailable(c) == Query[c] \in Required /\ ~published.semantic

\* Mutant: a cursor is only checked against the snapshot it was made for.
DriftsWithSnapshot(token, entry) == token.snapshot # published.snapshot

\* The publication changed under this cursor.
Drifts(token, entry) == token.snapshot # published.snapshot \/ entry.revision # published.revision

\* search checks the cursor before the semantic mode, query and ownership
\* after it.
Refused(c, drifted) ==
    CASE Tool[c] = "search" /\ drifted -> "cursor_drift"
      [] Unavailable(c) -> "semantic_unavailable"
      [] Tool[c] # "search" /\ ~Unavailable(c) /\ drifted -> "cursor_drift"
      [] OTHER -> "none"

Fail(c, why) == pager' = [pager EXCEPT ![c] = [status |-> why, cursor |-> None, pages |-> <<>>]]

\* The page at offset, for a request that no check refuses, after the pages
\* the client has read.
Serve(c, table, offset, read) ==
    LET count == Count(Tool[c], offset) IN
    IF Tool[c] = "ownership" /\ offset > 0 /\ offset >= published.total
    THEN Fail(c, "invalid_cursor") /\ cursors' = table
    ELSE IF count = None THEN Fail(c, "too_large") /\ cursors' = table
    ELSE LET more == offset + count < published.total
             token == Token(published.snapshot, Query[c], offset + count)
         IN  /\ cursors' = IF more THEN Encoded(table, token) ELSE table
             /\ pager' = [pager EXCEPT ![c] =
                    [status |-> IF more THEN "open" ELSE "complete",
                     cursor |-> IF more THEN token ELSE None,
                     pages |-> Append(read, Page(offset, count))]]

\* The first request of a client: no cursor.
First(c) ==
    /\ starts < MaxStarts
    /\ starts' = starts + 1
    /\ IF Refused(c, FALSE) # "none" THEN Fail(c, Refused(c, FALSE)) /\ UNCHANGED cursors
       ELSE Serve(c, cursors, 0, <<>>)
    /\ UNCHANGED <<published, clock, epoch>>

\* A request that continues.  decode sweeps the table before anything else;
\* workspace, digest and limit match because the client repeats its request.
Follow(c) ==
    /\ pager[c].status = "open"
    /\ LET token == pager[c].cursor
           table == Swept(cursors)
       IN  IF Decoded(cursors, token) = {} THEN Fail(c, "invalid_cursor") /\ cursors' = table
           ELSE LET entry == CHOOSE e \in Decoded(cursors, token) : TRUE
                    refusal == Refused(c, Drifts(token, entry))
                IN  IF refusal # "none" THEN Fail(c, refusal) /\ cursors' = table
                    ELSE Serve(c, table, token.offset, pager[c].pages)
    /\ UNCHANGED <<published, clock, epoch, starts>>

----------------------------------------------------------------------------
(* The environment.                                                        *)

Publish ==
    /\ published.revision < MaxRevision
    /\ \E snapshot \in {published.snapshot, published.snapshot + 1}, semantic \in BOOLEAN, total \in Totals :
          published' = [snapshot |-> snapshot, revision |-> published.revision + 1,
                        semantic |-> semantic, total |-> total]
    /\ UNCHANGED <<cursors, clock, epoch, pager, starts>>

Tick == clock < MaxClock /\ clock' = clock + 1 /\ UNCHANGED <<published, cursors, epoch, pager, starts>>

\* A new process has an empty table and another epoch.
Restart ==
    /\ epoch < MaxEpoch
    /\ epoch' = epoch + 1
    /\ cursors' = <<>>
    /\ UNCHANGED <<published, clock, pager, starts>>

Next == (\E c \in Pagers : First(c) \/ Follow(c)) \/ Publish \/ Tick \/ Restart

Spec == Init /\ [][Next]_vars

----------------------------------------------------------------------------
\* A client that follows its cursors reads the rows of ONE publication, in
\* order, each once, and has all of them when no cursor is left: whatever is
\* published, expires, is evicted or restarted in between ends the walk with
\* an error instead (CursorDriftError, CursorError).
PagesTileOnePublication ==
    \A c \in Pagers :
        LET pages == pager[c].pages IN
        /\ \A i \in DOMAIN pages :
              /\ pages[i].revision = pages[1].revision
              /\ pages[i].from = IF i = 1 THEN 1 ELSE pages[i - 1].to + 1
              /\ i < Len(pages) => pages[i].to >= pages[i].from
        /\ pager[c].status = "complete" => Last(pages).to = pages[1].total

----------------------------------------------------------------------------
(* The inductive invariant.                                                *)

Statuses == {"idle", "open", "complete", "cursor_drift", "semantic_unavailable", "invalid_cursor",
             "too_large"}
Tokens == [epoch : Nat, snapshot : Nat, digest : {Query[c] : c \in Pagers}, offset : Nat]
Entries == [token : Tokens, expires : Nat, revision : Nat]
Pages == [revision : Nat, from : Nat, to : Nat, total : Nat]
Walks == [status : Statuses, cursor : Tokens \cup {None}, pages : Seq(Pages)]

Distinct(table) == \A i, j \in DOMAIN table : table[i].token = table[j].token => i = j

TypeOK ==
    /\ published \in [snapshot : Nat, revision : Nat, semantic : BOOLEAN, total : Nat]
    /\ cursors \in Seq(Entries) /\ Distinct(cursors)
    /\ clock \in Nat /\ epoch \in Nat
    /\ pager \in [Pagers -> Walks]

\* Nobody has read of a publication that is still to come.
PagesOfThePast ==
    \A c \in Pagers : \A i \in DOMAIN pager[c].pages :
        LET page == pager[c].pages[i] IN
        /\ page.revision <= published.revision
        /\ page.revision = published.revision => page.total = published.total

\* The cursor of a walk continues after its last page, and the table binds it
\* to the publication of its first.
OpenWalks ==
    \A c \in Pagers : pager[c].status = "open" =>
        LET pages == pager[c].pages  cursor == pager[c].cursor IN
        /\ pages # <<>> /\ cursor \in Tokens
        /\ cursor.digest = Query[c] /\ cursor.offset = pages[Len(pages)].to
        /\ pages[Len(pages)].from <= pages[Len(pages)].to /\ pages[Len(pages)].to < pages[1].total
        /\ \A i \in DOMAIN cursors : cursors[i].token = cursor => cursors[i].revision = pages[1].revision

PagingInv == TypeOK /\ PagesOfThePast /\ OpenWalks /\ PagesTileOnePublication
=============================================================================
