---------------------------- MODULE LogRedaction ----------------------------
(***************************************************************************)
(* Redaction of what the PostgreSQL provider says and logs                 *)
(* (postgresql/runtime.py).  Logs are read in chunks, so a secret may lie  *)
(* across the end of one; a file that cannot be redacted is removed.       *)
(* Texts are sequences of characters; secrets are nonempty ones.           *)
(***************************************************************************)
EXTENDS Integers, Sequences, SequencesExt, FiniteSets

CONSTANTS
    Marker,         \* REDACTED_VALUE
    RedactionChunk, \* LOG_REDACTION_CHUNK_BYTES
    MaxSecret       \* MAX_LOG_REDACTION_SECRET_BYTES

OccursAt(secret, text, i) ==
    i + Len(secret) - 1 <= Len(text) /\ SubSeq(text, i, i + Len(secret) - 1) = secret
Offsets(secret, text, from) == {i \in from .. Len(text) : OccursAt(secret, text, i)}
HoldsSecret(text, secrets) == \E s \in secrets : Offsets(s, text, 1) # {}

\* min of (offset, -length): the first secret, the longest at one place.
FirstMatch(text, secrets, from) ==
    LET matches == {<<i, s>> : i \in from .. Len(text), s \in secrets}
        there   == {m \in matches : OccursAt(m[2], text, m[1])}
    IN IF there = {} THEN <<>>
       ELSE CHOOSE m \in there : \A n \in there :
                m[1] < n[1] \/ (m[1] = n[1] /\ Len(m[2]) >= Len(n[2]))

\* Mutant: nothing is held back at the end of a chunk.
RetainedSecretPrefixLengthNone(text, secrets) == 0

\* _retained_secret_prefix_length: the longest end of the text that may be the
\* beginning of a secret.
RetainedSecretPrefixLength(text, secrets) ==
    LET lengths == {n \in 1 .. Len(text) : \E s \in secrets :
                        n < Len(s) /\ SubSeq(text, Len(text) - n + 1, Len(text)) = SubSeq(s, 1, n)}
    IN IF lengths = {} THEN 0 ELSE CHOOSE n \in lengths : \A m \in lengths : m <= n

\* _redact_log_bytes: what is settled, what is held back, whether it changed.
RECURSIVE RedactFrom(_, _, _, _, _)
RedactFrom(text, secrets, final, from, done) ==
    LET match == FirstMatch(text, secrets, from) IN
    IF from > Len(text) THEN [done EXCEPT !.pending = <<>>]
    ELSE IF match = <<>>
    THEN LET rest == SubSeq(text, from, Len(text))
             held == IF final THEN 0 ELSE RetainedSecretPrefixLength(rest, secrets)
         IN [done EXCEPT !.out = @ \o SubSeq(rest, 1, Len(rest) - held),
                         !.pending = SubSeq(rest, Len(rest) - held + 1, Len(rest))]
    ELSE RedactFrom(text, secrets, final, match[1] + Len(match[2]),
                    [done EXCEPT !.out = @ \o SubSeq(text, from, match[1] - 1) \o Marker,
                                 !.changed = TRUE])

RedactLogBytes(text, secrets, final, done) ==
    RedactFrom(text, secrets, final, 1, [done EXCEPT !.pending = <<>>])

ChunksOf(text) ==
    [k \in 1 .. (Len(text) + RedactionChunk - 1) \div RedactionChunk |->
        SubSeq(text, (k - 1) * RedactionChunk + 1,
               IF k * RedactionChunk < Len(text) THEN k * RedactionChunk ELSE Len(text))]

\* _stream_contains_secret: each chunk after the end of the one before it.
StreamContainsSecret(text, secrets) ==
    LET longest == CHOOSE n \in {Len(s) : s \in secrets} : \A s \in secrets : Len(s) <= n
        last(t) == SubSeq(t, IF Len(t) < longest THEN 1 ELSE Len(t) - longest + 2, Len(t))
    IN FoldLeft(LAMBDA seen, chunk :
                    [found |-> seen.found \/ HoldsSecret(seen.kept \o chunk, secrets),
                     kept  |-> last(seen.kept \o chunk)],
                [found |-> FALSE, kept |-> <<>>], ChunksOf(text)).found

\* _redact_log_file: a replacement is written beside the log, read again and
\* moved into its place; a log that fails, or whose replacement still holds a
\* secret, is removed, and if it cannot be the error goes up.
RedactLogFile(file, secrets) ==
    LET passed == FoldLeft(LAMBDA done, chunk :
                        RedactLogBytes(done.pending \o chunk, secrets, FALSE, done),
                    [out |-> <<>>, pending |-> <<>>, changed |-> FALSE], ChunksOf(file.text))
        done == RedactLogBytes(passed.pending, secrets, TRUE, passed)
        remove == IF file.removable THEN [file EXCEPT !.is = "removed"]
                  ELSE [file EXCEPT !.is = "error"]
    IN IF ~file.readable THEN remove
       ELSE IF StreamContainsSecret(done.out \o done.pending, secrets) THEN remove
       ELSE IF done.changed THEN [file EXCEPT !.text = done.out \o done.pending] ELSE file

\* redact_log_directory: every regular file; one that can be neither redacted
\* nor removed takes the whole tree with it, and so does a directory that
\* cannot be walked, if the tree can be removed.
RedactLogDirectory(files, secrets, walked, treeRemovable) ==
    IF secrets = {} THEN files
    ELSE LET bounded == \A s \in secrets : Len(s) <= MaxSecret
             after(f) == IF f.is # "regular" THEN f
                         ELSE IF bounded THEN RedactLogFile(f, secrets)
                         ELSE [f EXCEPT !.is = IF f.removable THEN "removed" ELSE "error"]
             done == [i \in DOMAIN files |-> after(files[i])]
         IN IF walked /\ \A i \in DOMAIN done : done[i].is # "error" THEN done
            ELSE [i \in DOMAIN files |->
                    [files[i] EXCEPT !.is = IF treeRemovable THEN "removed" ELSE "error"]]

\* secret_values, redact_text: every secret, the longest first, wherever it is.
RECURSIVE Replaced(_, _)
Replaced(text, secret) ==
    LET at == Offsets(secret, text, 1) IN
    IF at = {} THEN text
    ELSE LET i == CHOOSE i \in at : \A j \in at : i <= j
         IN SubSeq(text, 1, i - 1) \o Marker
            \o Replaced(SubSeq(text, i + Len(secret), Len(text)), secret)
RedactText(text, secrets) ==
    FoldLeft(LAMBDA done, s : Replaced(done, s), text,
             SetToSortSeq(secrets, LAMBDA s, t : Len(s) > Len(t)))

----------------------------------------------------------------------------
Apart(secrets) == \A s \in secrets : \A i \in DOMAIN s : \A j \in DOMAIN Marker : s[i] # Marker[j]

\* No log that stays holds a secret, also one that lay across chunks or arose
\* next to a marker, unless neither the log nor its directory can be removed,
\* which is reported.  A log is only removed for a reason: a read that failed,
\* a secret too long to be held back, or one that runs into the marker.
LogsHoldNoSecret(files, secrets, walked, treeRemovable) ==
    \A done \in {RedactLogDirectory(files, secrets, walked, treeRemovable)} :
    \A i \in DOMAIN done :
        /\ done[i].is = "regular" => ~HoldsSecret(done[i].text, secrets)
        /\ done[i].is = "error" => ~treeRemovable
        /\ files[i].is = "regular" /\ done[i].is = "removed" =>
            \/ \E j \in DOMAIN files : files[j].is = "regular" /\ ~(files[j].readable /\ files[j].removable)
            \/ \E s \in secrets : Len(s) > MaxSecret
            \/ ~walked
            \/ ~Apart(secrets)

\* The same for what goes into an answer, where nothing can be removed.
TextHoldsNoSecret(text, secrets) ==
    Apart(secrets) => ~HoldsSecret(RedactText(text, secrets), secrets)
=============================================================================
