------------------------------ MODULE TextEdits ------------------------------
(***************************************************************************)
(* Positions and text edits: contracts/positions.py, the conversions of    *)
(* lsp/operations.py, and the normalisation of edits in editor/preview.py  *)
(* and its check in editor/apply.py.  A text is a sequence of code points, *)
(* each with its width in UTF-8 bytes and in UTF-16 units; an offset is a  *)
(* number of bytes.  Error stands for a ValueError.                        *)
(***************************************************************************)
EXTENDS Integers, Sequences, SequencesExt, FiniteSets, FiniteSetsExt

CONSTANTS Wide,      \* a code point of 4 bytes and 2 units; all others have 1
          LF, CR,    \* line feed and carriage return
          Error,
          MaxFiles,  \* MAX_EDIT_FILES
          MaxEdits,  \* MAX_TEXT_EDITS
          MaxBytes   \* MAX_REPLACEMENT_BYTES

Encodings == {"utf-8", "utf-16", "utf-32"}

WideOnes(s) == Cardinality({i \in DOMAIN s : s[i] = Wide})
Bytes(s) == Len(s) + 3 * WideOnes(s)
Units(s) == Len(s) + WideOnes(s)
Prefix(s, n) == SubSeq(s, 1, n)

\* Slices by byte offset; they decode only at a boundary of code points.
Boundaries(s) == {Bytes(Prefix(s, i)) : i \in 0..Len(s)}
Index(s, b) == CHOOSE i \in 0..Len(s) : Bytes(Prefix(s, i)) = b

----------------------------------------------------------------------------
(* PositionCodec.                                                          *)

\* The offsets at which lines start: 0 and after every line feed.
LineStarts(s) == {0} \cup {Bytes(Prefix(s, i)) : i \in {j \in 1..Len(s) : s[j] = LF}}
LineCount(s) == Cardinality(LineStarts(s))
LineStart(s, line) ==
    CHOOSE b \in LineStarts(s) : Cardinality({x \in LineStarts(s) : x < b}) = line

\* _line_text: the code points of a line with its terminator.
LineText(s, line) ==
    LET from == Index(s, LineStart(s, line))
        to == IF line + 1 < LineCount(s) THEN Index(s, LineStart(s, line + 1)) ELSE Len(s) IN
    SubSeq(s, from + 1, to)

\* _content_end: without "\r\n", "\n" or "\r".
ContentEnd(seg) ==
    IF IsSuffix(<<CR, LF>>, seg) THEN Len(seg) - 2
    ELSE IF seg # <<>> /\ Last(seg) \in {LF, CR} THEN Len(seg) - 1
    ELSE Len(seg)

WithoutEnd(seg) == Prefix(seg, ContentEnd(seg))
Body(s, line) == WithoutEnd(LineText(s, line))

\* byte_to_point: the last line that starts at or before the offset; an offset
\* inside a code point does not decode.
ByteToPoint(s, b) ==
    IF b \notin Boundaries(s) THEN Error
    ELSE LET start == Max({x \in LineStarts(s) : x <= b})
             seg == SubSeq(s, Index(s, start) + 1, Index(s, b)) IN
         [line |-> Cardinality({x \in LineStarts(s) : x < start}),
          column |-> Len(seg), utf16 |-> Units(seg), byte |-> b]

\* point_to_byte: a column in UTF-16 units must fall between two code points;
\* otherwise a column counts code points.  Both end before the terminator.
PointToByte(s, line, column, enc) ==
    IF line \notin 0..(LineCount(s) - 1) THEN Error
    ELSE LET body == Body(s, line)
             at == IF enc = "utf-16" THEN {i \in 0..Len(body) : Units(Prefix(body, i)) = column}
                   ELSE {column} \cap 0..Len(body) IN
         IF at = {} THEN Error ELSE LineStart(s, line) + Bytes(Prefix(body, Min(at)))

----------------------------------------------------------------------------
(* Positions of a user and of a language server.                           *)

\* lsp_position_from_user: one-based code points to the negotiated units.
LspFromUser(s, line, column, enc) ==
    LET b == PointToByte(s, line - 1, column - 1, "utf-8") IN
    IF line < 1 \/ column < 1 \/ b = Error THEN Error
    ELSE [line |-> line - 1,
          character |-> CASE enc = "utf-8" -> b - PointToByte(s, line - 1, 0, "utf-8")
                          [] enc = "utf-16" -> ByteToPoint(s, b).utf16
                          [] enc = "utf-32" -> ByteToPoint(s, b).column]

\* user_position_from_lsp: a byte of another line is refused.
UserPoint(p, line, enc) ==
    IF p = Error THEN Error
    ELSE IF enc = "utf-8" /\ p.line # line THEN Error
    ELSE <<p.line + 1, p.column + 1>>

UserFromLsp(s, line, character, enc) ==
    LET start == PointToByte(s, line, 0, "utf-8")
        b == IF enc = "utf-8" THEN (IF start = Error THEN Error ELSE start + character)
             ELSE PointToByte(s, line, character, enc)
    IN  UserPoint(IF b = Error THEN Error ELSE ByteToPoint(s, b), line, enc)

\* _position_to_byte of an edit's range: bytes within the line for UTF-8.
PositionToByte(s, line, character, enc) ==
    IF enc # "utf-8" THEN PointToByte(s, line, character, enc)
    ELSE LET start == PointToByte(s, line, 0, "utf-8") IN
         IF start = Error THEN Error
         ELSE IF \/ character \notin 0..Bytes(Body(s, line))
                 \/ start + character \notin Boundaries(s) THEN Error
         ELSE start + character

----------------------------------------------------------------------------
(* Edits.                                                                  *)

\* A patch replaces the bytes from one boundary to another by a text.
Patch(from, to, new) == [from |-> from, to |-> to, new |-> new]

\* Patches are sorted by start and end.
Sorted(S) == SetToSortSeq(S, LAMBDA p, q : p.from < q.from \/ (p.from = q.from /\ p.to < q.to))

\* Mutant: only a patch that starts inside the one before it is refused.
OverlapsOpen(ps) == \E i \in 2..Len(ps) : ps[i].from < ps[i - 1].to - 1

\* _reject_overlaps: patches in order, each against the one before it.
Overlaps(ps) ==
    \E i \in 2..Len(ps) : ps[i].from < ps[i - 1].to \/ ps[i].from = ps[i - 1].from

Replaced(s, p) ==
    Prefix(s, Index(s, p.from)) \o p.new \o SubSeq(s, Index(s, p.to) + 1, Len(s))

\* The postimage: the last patch first, so that offsets stay those of the
\* preimage.
Postimage(s, ps) == FoldLeft(Replaced, s, Reverse(ps))

\* normalize_byte_edits: the edits of the structural engine in one file.
NormalizeByteEdits(s, edits) ==
    LET ps == Sorted(edits) IN
    IF edits = {} \/ Cardinality(edits) > MaxEdits THEN Error
    ELSE IF \E p \in edits : p.to < p.from \/ p.to > Bytes(s) THEN Error
    ELSE IF Overlaps(ps) THEN Error
    ELSE [pre |-> s, post |-> Postimage(s, ps), patches |-> ps]

\* _collect_uri_edits: the ranges of a language server in its encoding.
CollectUriEdits(s, ranges, enc) ==
    [i \in DOMAIN ranges |-> LET r == ranges[i] IN
        Patch(PositionToByte(s, r.start.line, r.start.character, enc),
              PositionToByte(s, r.end.line, r.end.character, enc), r.new)]

\* The patches of one file, put in order and applied.
FileEdit(s, patches) ==
    LET all == ToSet(patches)
        ps == Sorted(all) IN
    IF \/ \E p \in all : p.from = Error \/ p.to = Error \/ p.to < p.from
       \/ Cardinality(all) < Len(patches)
    THEN Error
    ELSE IF Overlaps(ps) THEN Error ELSE [pre |-> s, post |-> Postimage(s, ps), patches |-> ps]

\* normalize_workspace_edit: an edit is a sequence of entries, each with a file,
\* the version the server computed it for (0: none named) and its ranges; a
\* file may have several.  texts is the captured bundle, live what the files
\* contain now, versions what the client has open.
NormalizeWorkspaceEdit(edit, texts, live, versions, enc) ==
    LET files == {edit.entries[i].file : i \in DOMAIN edit.entries}
        ranges(F) == FoldLeft(LAMBDA acc, e : IF e.file \in F THEN acc \o e.ranges ELSE acc, <<>>, edit.entries)
        edits == [f \in files |-> IF f \notin DOMAIN texts THEN Error
                                  ELSE FileEdit(texts[f], CollectUriEdits(texts[f], ranges({f}), enc))] IN
    IF \/ edit.annotated \/ edit.resource
       \/ \E i \in DOMAIN edit.entries : LET e == edit.entries[i] IN
             e.version # 0 /\ e.version # versions[e.file]
       \/ files = {} \/ Cardinality(files) > MaxFiles
       \/ FoldLeft(LAMBDA n, r : n + Bytes(r.new), 0, ranges(files)) > MaxBytes
       \/ Len(ranges(files)) > MaxEdits
       \/ \E f \in files : edits[f] = Error \/ live[f] # texts[f]
    THEN Error ELSE edits

\* _stored_edit_integrity_error: order, ranges, overlaps and the postimage are
\* checked again before an apply.
Intact(item) ==
    /\ item.patches = Sorted(ToSet(item.patches))
    /\ \A i \in DOMAIN item.patches :
           item.patches[i].from <= item.patches[i].to /\ item.patches[i].to <= Bytes(item.pre)
    /\ ~Overlaps(item.patches)
    /\ Postimage(item.pre, item.patches) = item.post

\* _bounded_diff: what fits, up to the last whole code point.
BoundedDiff(s, limit) ==
    IF Bytes(s) <= limit THEN [text |-> s, cut |-> FALSE]
    ELSE [text |-> Prefix(s, Index(s, Max({b \in Boundaries(s) : b <= limit}))), cut |-> TRUE]

----------------------------------------------------------------------------
\* A position a user names comes back from a server unchanged in each of the
\* three encodings, and names the same byte when it comes back in an edit.
PositionRoundTrip(s) ==
    \A line \in 1..LineCount(s) : \A column \in 1..(Len(Body(s, line - 1)) + 1) :
        \A enc \in Encodings :
            \A p \in {LspFromUser(s, line, column, enc)} :
            /\ UserFromLsp(s, p.line, p.character, enc) = <<line, column>>
            /\ PositionToByte(s, p.line, p.character, enc)
                   = PointToByte(s, line - 1, column - 1, "utf-8")

\* What is outside of every patch, with each patch's text in its place: the
\* edits of a file happen at once, whatever order they came in.
Simultaneous(s, ps) ==
    LET keep(i) == SubSeq(s, (IF i = 0 THEN 0 ELSE Index(s, ps[i].to)) + 1,
                          IF i = Len(ps) THEN Len(s) ELSE Index(s, ps[i + 1].from))
        step[i \in 0..Len(ps)] ==
            IF i = 0 THEN keep(0) ELSE step[i - 1] \o ps[i].new \o keep(i) IN
    step[Len(ps)]

\* A normalised edit is that simultaneous replacement and passes the check
\* that comes before an apply.
EditsAreSimultaneous(s, edits) ==
    LET n == NormalizeByteEdits(s, edits) IN
    n # Error => n.post = Simultaneous(s, n.patches) /\ Intact(n)

\* The edits of a language server, which come in its encoding, file by file or
\* in several parts, with or without versions: whatever the encoding, the same
\* edit is accepted and gives the same files; and what is accepted was
\* computed for the text that is there now and the version that is open.
WorkspaceEditIsExact(edit, texts, live, versions) ==
    LET lsp(f, p, enc) == LspFromUser(texts[f], p.line + 1, p.column + 1, enc)
        position(f, b, enc) == lsp(f, ByteToPoint(texts[f], b), enc)
        written(enc) ==
            [edit EXCEPT !.entries = [i \in DOMAIN edit.entries |-> LET e == edit.entries[i] IN
                [file |-> e.file, version |-> e.version,
                 ranges |-> [j \in DOMAIN e.patches |->
                    [start |-> position(e.file, e.patches[j].from, enc),
                     end |-> position(e.file, e.patches[j].to, enc), new |-> e.patches[j].new]]]]]
        exact(f, r) ==
            /\ r.pre = live[f] /\ Intact(r)
            /\ r.post = Simultaneous(r.pre, r.patches)
            /\ \A i \in DOMAIN edit.entries : edit.entries[i].file = f =>
                  /\ edit.entries[i].version \in {0, versions[f]}
                  /\ ToSet(edit.entries[i].patches) \subseteq ToSet(r.patches) IN
    \A result \in {NormalizeWorkspaceEdit(written("utf-8"), texts, live, versions, "utf-8")} :
    /\ \A enc \in {"utf-16", "utf-32"} :
          NormalizeWorkspaceEdit(written(enc), texts, live, versions, enc) = result
    /\ result # Error => \A f \in DOMAIN result : exact(f, result[f])

\* A diff that does not fit ends at the last whole code point that does.
DiffIsBounded(s, limit) ==
    LET d == BoundedDiff(s, limit) IN
    /\ IsPrefix(d.text, s) /\ Bytes(d.text) <= limit
    /\ d.cut <=> d.text # s
    /\ d.cut => Bytes(Prefix(s, Len(d.text) + 1)) > limit
=============================================================================
