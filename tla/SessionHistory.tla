--------------------------- MODULE SessionHistory ---------------------------
(***************************************************************************)
(* Sessions, turns and messages (native/daemon/ipc/src/session.rs) over    *)
(* the canonical entity store (put_entity, upsert_native_entity and        *)
(* next_turn_ordinal of native/daemon/state/src/database.rs).              *)
(*                                                                         *)
(* Each connection of the daemon runs its requests in a task of its own.   *)
(* A request reads the store through its own connection and then sends one *)
(* command to the writer thread: every read and every command is an action *)
(* and the requests interleave between them.  A turn is named by its       *)
(* session and ordinal, which is what its idempotency key is made of; the  *)
(* unique index on the key also covers tombstoned turns.  A message is     *)
(* appended under a native message id, one for each turn.                  *)
(***************************************************************************)
EXTENDS Naturals

CONSTANTS Sessions,      \* canonical session ids
          Natives,       \* session ids of an adapter's platform
          Handlers,      \* connections
          Contents,      \* a turn without its ordinal: actor, usage, metadata
          MaxAttempts,   \* TURN_APPEND_MAX_ATTEMPTS
          Retention,     \* TRUE: apply_retention is run
          MaxOrdinal,    \* bound: ordinals 0 .. MaxOrdinal
          MaxRev,        \* bound: revisions of a session
          NoSession, NoNative, NoContent

ASSUME SessionConstants ==
    /\ MaxAttempts \in Nat \ {0} /\ MaxOrdinal \in Nat /\ MaxRev \in Nat
    /\ Retention \in BOOLEAN
    /\ NoSession \notin Sessions /\ NoNative \notin Natives /\ NoContent \notin Contents

VARIABLES session,   \* rows of kind session
          turns,     \* turns[s][o]: the turn of session s with ordinal o
          messages,  \* messages[s][o]: the message of that turn
          handler    \* what each connection is doing

vars == <<session, turns, messages, handler>>

Ordinals == 0 .. MaxOrdinal
Status == {"none", "live", "dead"}  \* no row, a row, a tombstoned row

AbsentSession == [st |-> "none", state |-> "active", rev |-> 0, parent |-> NoSession,
                  root |-> NoSession, native |-> NoNative]
NoTurn == [st |-> "none", content |-> NoContent]
Idle == [op |-> "idle"]

Init ==
    /\ session = [s \in Sessions |-> AbsentSession]
    /\ turns = [s \in Sessions |-> [o \in Ordinals |-> NoTurn]]
    /\ messages = [s \in Sessions |-> [o \in Ordinals |-> "none"]]
    /\ handler = [h \in Handlers |-> Idle]

\* live_session, active_session
Live(s) == session[s].st = "live"
Active(s) == Live(s) /\ session[s].state = "active"

\* A connection whose last request has been answered.
Ready(h) == handler[h].op \in {"idle", "acked", "refused"}

NewSession(s, parent, root, native) ==
    /\ session[s].st = "none"
    /\ session' = [session EXCEPT ![s] =
         [st |-> "live", state |-> "active", rev |-> 1, parent |-> parent,
          root |-> root, native |-> native]]

-----------------------------------------------------------------------------
(* create_session *)

\* Without a native id, or with one that no row has: a new session.
CreateSession(h, s, native) ==
    /\ Ready(h)
    /\ native # NoNative => \A t \in Sessions : session[t].native # native
    /\ NewSession(s, NoSession, s, native)
    /\ handler' = [handler EXCEPT ![h] = Idle]
    /\ UNCHANGED <<turns, messages>>

\* The id of the request is always a new one, so that upsert_native_entity
\* finds it different from the id of a row with the same native id.
CreateNativeAgain(h, native) ==
    /\ Ready(h)
    /\ \E t \in Sessions : session[t].native = native
    /\ handler' = [handler EXCEPT ![h] = [op |-> "refused", native |-> native]]
    /\ UNCHANGED <<session, turns, messages>>

-----------------------------------------------------------------------------
(* fork_session *)

BeginFork(h, s) ==
    /\ Ready(h) /\ Live(s)
    /\ handler' = [handler EXCEPT ![h] =
         [op |-> "fork", session |-> s, root |-> session[s].root]]
    /\ UNCHANGED <<session, turns, messages>>

PutFork(h, fork) ==
    /\ handler[h].op = "fork"
    /\ NewSession(fork, handler[h].session, handler[h].root, NoNative)
    /\ handler' = [handler EXCEPT ![h] = Idle]
    /\ UNCHANGED <<turns, messages>>

-----------------------------------------------------------------------------
(* archive_session, resume_session *)

BeginTransition(h, s, to) ==
    /\ Ready(h) /\ Live(s)
    /\ session[s].state # to
    /\ handler' = [handler EXCEPT ![h] =
         [op |-> "transition", session |-> s, to |-> to, rev |-> session[s].rev]]
    /\ UNCHANGED <<session, turns, messages>>

\* put_entity of an existing row: refused when it is tombstoned, a replay when
\* it already says the same, and otherwise refused at another revision.
PutTransition(h) ==
    LET r == handler[h] IN
    /\ r.op = "transition"
    /\ IF Live(r.session) /\ session[r.session].state # r.to /\ session[r.session].rev = r.rev
       THEN /\ r.rev < MaxRev
            /\ session' = [session EXCEPT ![r.session] =
                             [@ EXCEPT !.state = r.to, !.rev = r.rev + 1]]
       ELSE UNCHANGED session
    /\ handler' = [handler EXCEPT ![h] = Idle]
    /\ UNCHANGED <<turns, messages>>

-----------------------------------------------------------------------------
(* append_turn *)

\* Mutant: the first turn has the ordinal 1.
IsNextOrdinalFromOne(s, n) ==
    /\ n > 0
    /\ \A o \in Ordinals : turns[s][o].st = "live" => o < n
    /\ n # 1 => turns[s][n - 1].st = "live"

\* next_turn_ordinal: n is one more than the highest ordinal that is not
\* tombstoned, or 0.
IsNextOrdinal(s, n) ==
    /\ \A o \in Ordinals : turns[s][o].st = "live" => o < n
    /\ n # 0 => turns[s][n - 1].st = "live"

BeginAppend(h, s, content) ==
    /\ Ready(h) /\ Active(s)
    /\ handler' = [handler EXCEPT ![h] =
         [op |-> "append", session |-> s, content |-> content, ordinal |-> 0, tries |-> 0]]
    /\ UNCHANGED <<session, turns, messages>>

ReadOrdinal(h, n) ==
    /\ handler[h].op = "append"
    /\ IsNextOrdinal(handler[h].session, n)
    /\ handler' = [handler EXCEPT ![h] = [@ EXCEPT !.op = "put", !.ordinal = n]]
    /\ UNCHANGED <<session, turns, messages>>

\* Mutant: the payload is not compared.
ReplaysAnyContent(r) == turns[r.session][r.ordinal].st = "live"

\* The key is taken by a turn that says the same and is not tombstoned: the
\* put is taken for a repetition and answered with that turn.
Replays(r) ==
    turns[r.session][r.ordinal] = [st |-> "live", content |-> r.content]

\* Mutant: the key of a tombstoned turn may be used again.
CollidesWithLive(r) ==
    turns[r.session][r.ordinal].st = "live" /\ ~Replays(r)

\* The key is taken otherwise.
Collides(r) == turns[r.session][r.ordinal].st # "none" /\ ~Replays(r)

Acked(r) == [op |-> "acked", session |-> r.session, content |-> r.content,
             ordinal |-> r.ordinal]
Retrying(r) == [r EXCEPT !.op = "append", !.tries = r.tries + 1]

PutTurnReplayed(h) ==
    /\ handler[h].op = "put"
    /\ Replays(handler[h])
    /\ handler' = [handler EXCEPT ![h] = Acked(@)]
    /\ UNCHANGED <<session, turns, messages>>

PutTurnCollided(h) ==
    /\ handler[h].op = "put"
    /\ Collides(handler[h])
    /\ handler' = [handler EXCEPT ![h] =
         IF @.tries + 1 < MaxAttempts THEN Retrying(@) ELSE Idle]
    /\ UNCHANGED <<session, turns, messages>>

\* The parent session must be live when the turn is inserted.
PutTurnInserted(h) ==
    LET r == handler[h] IN
    /\ r.op = "put"
    /\ ~Replays(r) /\ ~Collides(r)
    /\ Live(r.session)
    /\ turns' = [turns EXCEPT ![r.session][r.ordinal] =
                  [st |-> "live", content |-> r.content]]
    /\ handler' = [handler EXCEPT ![h] = Acked(r)]
    /\ UNCHANGED <<session, messages>>

PutTurnOrphaned(h) ==
    LET r == handler[h] IN
    /\ r.op = "put"
    /\ ~Replays(r) /\ ~Collides(r)
    /\ ~Live(r.session)
    /\ handler' = [handler EXCEPT ![h] = Idle]
    /\ UNCHANGED <<session, turns, messages>>

-----------------------------------------------------------------------------
(* append_message *)

BeginMessage(h, s, o) ==
    /\ Ready(h) /\ Active(s)
    /\ turns[s][o].st = "live"
    /\ handler' = [handler EXCEPT ![h] = [op |-> "message", session |-> s, ordinal |-> o]]
    /\ UNCHANGED <<session, turns, messages>>

\* upsert_native_entity: an insert needs a live parent, the update of a live
\* row changes nothing here, that of a tombstoned one is refused.
PutMessage(h) ==
    LET r == handler[h] IN
    /\ r.op = "message"
    /\ messages' = IF messages[r.session][r.ordinal] = "none"
                      /\ turns[r.session][r.ordinal].st = "live"
                   THEN [messages EXCEPT ![r.session][r.ordinal] = "live"]
                   ELSE messages
    /\ handler' = [handler EXCEPT ![h] = Idle]
    /\ UNCHANGED <<session, turns>>

-----------------------------------------------------------------------------
(* The environment *)

TombstonedSession(row) == [row EXCEPT !.st = "dead", !.rev = row.rev + 1]

\* apply_retention tombstones a session, turn or message by itself, the ones
\* that were updated first before the others; nothing cascades.
RetainSession(s) ==
    /\ Retention /\ Live(s)
    /\ session' = [session EXCEPT ![s] = TombstonedSession(@)]
    /\ UNCHANGED <<turns, messages, handler>>

RetainTurn(s, o) ==
    /\ Retention /\ turns[s][o].st = "live"
    /\ \A p \in Ordinals : turns[s][p].st = "live" => o <= p
    /\ turns' = [turns EXCEPT ![s][o].st = "dead"]
    /\ UNCHANGED <<session, messages, handler>>

RetainMessage(s, o) ==
    /\ Retention /\ messages[s][o] = "live"
    /\ messages' = [messages EXCEPT ![s][o] = "dead"]
    /\ UNCHANGED <<session, turns, handler>>

\* The daemon stops in the middle of its requests and starts again.
Restart ==
    /\ \E h \in Handlers : ~Ready(h)
    /\ handler' = [h \in Handlers |-> Idle]
    /\ UNCHANGED <<session, turns, messages>>

Sessioning(h) ==
    \/ \E s \in Sessions, native \in Natives \cup {NoNative} : CreateSession(h, s, native)
    \/ \E native \in Natives : CreateNativeAgain(h, native)
    \/ \E s \in Sessions : BeginFork(h, s)
    \/ \E s \in Sessions : PutFork(h, s)
    \/ \E s \in Sessions, to \in {"active", "archived"} : BeginTransition(h, s, to)
    \/ PutTransition(h)

Appending(h) ==
    \/ \E s \in Sessions, content \in Contents : BeginAppend(h, s, content)
    \/ \E n \in Ordinals : ReadOrdinal(h, n)
    \/ PutTurnReplayed(h)
    \/ PutTurnCollided(h)
    \/ PutTurnInserted(h)
    \/ PutTurnOrphaned(h)
    \/ \E s \in Sessions, o \in Ordinals : BeginMessage(h, s, o)
    \/ PutMessage(h)

Next ==
    \/ \E h \in Handlers : Sessioning(h)
    \/ \E h \in Handlers : Appending(h)
    \/ \E s \in Sessions : RetainSession(s)
    \/ \E s \in Sessions, o \in Ordinals : RetainTurn(s, o)
    \/ \E s \in Sessions, o \in Ordinals : RetainMessage(s, o)
    \/ Restart

Spec == Init /\ [][Next]_vars

-----------------------------------------------------------------------------
(* Properties *)

SessionRows == [st : Status, state : {"active", "archived"}, rev : Nat,
                parent : Sessions \cup {NoSession}, root : Sessions \cup {NoSession},
                native : Natives \cup {NoNative}]
TurnRows == [st : Status, content : Contents \cup {NoContent}]
Refusals == [op : {"refused"}, native : Natives]
Forks == [op : {"fork"}, session : Sessions, root : Sessions \cup {NoSession}]
Transitions == [op : {"transition"}, session : Sessions, to : {"active", "archived"}, rev : Nat]
Appends == [op : {"append", "put"}, session : Sessions, content : Contents,
            ordinal : Ordinals, tries : 0 .. MaxAttempts - 1]
Acks == [op : {"acked"}, session : Sessions, content : Contents, ordinal : Ordinals]
MessageRequests == [op : {"message"}, session : Sessions, ordinal : Ordinals]

\* Rows, requests and answers have their shape.
TypeOK ==
    /\ session \in [Sessions -> SessionRows]
    /\ turns \in [Sessions -> [Ordinals -> TurnRows]]
    /\ messages \in [Sessions -> [Ordinals -> Status]]
    /\ handler \in [Handlers -> {Idle} \cup Refusals \cup Forks \cup Transitions
                                \cup Appends \cup Acks \cup MessageRequests]

\* The turns of a session are numbered without gaps, tombstoned ones included,
\* however concurrent appends, retries and retention interleave.
DenseOrdinals ==
    \A s \in Sessions : \A o, p \in Ordinals :
        (turns[s][o].st # "none" /\ p < o) => turns[s][p].st # "none"

\* A turn that was read to follow the others still does when it is inserted:
\* its ordinal is above that of every live turn of its session.
AppendsAtEnd ==
    [][\A s \in Sessions : \A o, p \in Ordinals :
          (/\ turns[s][o].st # "live" /\ turns'[s][o].st = "live"
           /\ turns[s][p].st = "live")
             => p < o]_vars

\* A caller that is told its turn was recorded finds what it said under the
\* ordinal it was told, also when its put was answered as a replay.
AckedTurnIsOwn ==
    \A h \in Handlers : handler[h].op = "acked" =>
        LET t == turns[handler[h].session][handler[h].ordinal]
        IN t.st # "none" /\ t.content = handler[h].content

\* A retry reads a higher ordinal than the one that collided: each collision is
\* the success of another append, so that appends do not block each other.
RetriesAdvance ==
    \A h \in Handlers : \A n \in Ordinals :
        (/\ handler[h].op = "append" /\ handler[h].tries > 0
         /\ IsNextOrdinal(handler[h].session, n))
            => n > handler[h].ordinal

\* What session_lineage walks: a session that was forked refers to another
\* session and has its root, so that the walk meets one root all the way up;
\* a session that was not forked is its own root.  A fork is put some time after
\* its source was read.
LineageKeepsRoot ==
    \A s \in Sessions : session[s].st # "none" =>
        \/ session[s].parent = NoSession /\ session[s].root = s
        \/ /\ session[s].parent \in Sessions \ {s}
           /\ session[session[s].parent].st # "none"
           /\ session[s].root = session[session[s].parent].root

-----------------------------------------------------------------------------
(* What the repository says of sessions and the code does not do *)

\* "this loop re-reads the next free ordinal"
NextOrdinalIsFree ==
    \A s \in Sessions : \A n \in Ordinals :
        IsNextOrdinal(s, n) => turns[s][n].st = "none"

\* "a concurrent append claims the same key, the put collides": two appends
\* are never told the same turn.
AppendsAreDistinct ==
    \A g, h \in Handlers :
        (g # h /\ handler[g].op = "acked" /\ handler[h].op = "acked"
             /\ handler[g].session = handler[h].session)
            => handler[g].ordinal # handler[h].ordinal

\* "archived session must reject turns"
ArchivedRejectsTurns ==
    [][\A s \in Sessions : \A o \in Ordinals :
          (turns[s][o].st = "none" /\ turns'[s][o].st # "none") => Active(s)]_vars

\* "adapter idempotency through canonical native-identity upserts for sessions"
NativeCreateIsIdempotent ==
    \A h \in Handlers : handler[h].op = "refused" =>
        ~ \E s \in Sessions : Live(s) /\ session[s].native = handler[h].native
=============================================================================
