------------------------- MODULE WorkspaceRegistry -------------------------
(***************************************************************************)
(* The workspace and client registry of the Soleaux daemon: registrations, *)
(* heartbeats, client-workspace bindings, admission receipts, retention    *)
(* and purge.                                                              *)
(*                                                                         *)
(* A registry command of native/daemon/state/src/database.rs is one        *)
(* transaction of the single writer thread: one action.  The handlers of   *)
(* native/daemon/ipc/src/registry.rs and admission.rs that read through    *)
(* their own connection, decide, and then send a command are several       *)
(* actions, between which every other client connection may run.           *)
(*                                                                         *)
(* Rows are keyed by native identity (path hash, kind:instance, pair).     *)
(* `id` is the canonical Uuid: it survives tombstoning and revival, and a  *)
(* row created after a purge has a new one.  A NULL time is 0.             *)
(***************************************************************************)
EXTENDS Naturals, FiniteSets, RetentionRule

CONSTANTS Clients,         \* client native ids (kind and instance)
          CliClients,      \* the ones of kind Cli; the others are external tools
          Workspaces,      \* workspace native ids
          Handlers,        \* client connections being served concurrently
          Versions,        \* client versions; the daemon's own is one of them
          Listed,          \* versions of external tools that the capability matrix lists
          Ttls,            \* client ttls
          ReceiptTtls,     \* admission receipt ttls
          BatchLimit,      \* limit argument of apply_retention and purge_tombstones
          QueueLag,        \* how far the clock a caller read may lag the writer's
          MaxTime,         \* bound: clock values 1 .. MaxTime
          MaxRev,          \* bound: revisions of a client row
          MaxId,           \* bound: canonical ids used for one native id
          MaxReceipts,     \* bound: receipts issued
          NoVersion, NoReceipt

ASSUME RegistryConstants ==
    /\ Listed \subseteq Versions /\ CliClients \subseteq Clients
    /\ Ttls \subseteq (Nat \ {0}) /\ ReceiptTtls \subseteq (Nat \ {0})
    /\ BatchLimit \in Nat /\ QueueLag \in Nat
    /\ MaxTime \in Nat \ {0} /\ MaxRev \in Nat /\ MaxId \in Nat /\ MaxReceipts \in Nat
    /\ NoVersion \notin Versions

VARIABLES workspaces,  \* canonical_entities rows of kind workspace
          clients,     \* ... of kind client_registration
          bindings,    \* ... of kind client_workspace_binding
          orphans,     \* ... the ones whose workspace has been purged
          receipts,    \* admission receipts whose MAC verifies
          handler,     \* the request each connection is serving
          daemon,      \* version of the running daemon: its own version and its matrix
          now,         \* unix_ms()
          declared     \* history: the version of each client's last registration

vars == <<workspaces, clients, bindings, orphans, receipts, handler, daemon, now, declared>>
rows == <<workspaces, clients, bindings, orphans>>

Times == 0 .. MaxTime
Status == {"none", "live", "dead"}  \* no row, a row, a tombstoned row
Modes == {"read_only", "read_write"}

NoWorkspace(i) == [st |-> "none", id |-> i, trusted |-> FALSE, tomb |-> 0]
NoClient(i) == [st |-> "none", id |-> i, rev |-> 0, version |-> NoVersion,
                verified |-> FALSE, expires |-> 0, tomb |-> 0]
NoBinding == [st |-> "none", cid |-> 0, wid |-> 0, mode |-> "read_only",
              until |-> 0, expires |-> 0, tomb |-> 0]
Idle == [op |-> "idle"]

Init ==
    /\ workspaces = [w \in Workspaces |-> NoWorkspace(0)]
    /\ clients = [c \in Clients |-> NoClient(0)]
    /\ bindings = [c \in Clients |-> [w \in Workspaces |-> NoBinding]]
    /\ orphans = {}
    /\ receipts = {}
    /\ handler = [h \in Handlers |-> Idle]
    /\ daemon \in Versions
    /\ now = 1
    /\ declared = [c \in Clients |-> NoVersion]

-----------------------------------------------------------------------------
(* Predicates of the code *)

\* evaluate_client_compatibility: only the daemon's own CLI, of exactly the
\* daemon's version, is Verified and write capable; every other client is
\* read-only however its probe reports read.
WriteCapable(c, v) == c \in CliClients /\ v = daemon

\* admission_matrix_entry: the matrix has no entry for the CLI.
InMatrix(c, v) == c \notin CliClients /\ v \in Listed

\* ensure_active_client
ActiveClient(c) == clients[c].st = "live" /\ clients[c].expires > now

\* ensure_registered_workspace
RegisteredWorkspace(w) == workspaces[w].st = "live"

\* ClientBindingAdmission::admits_write_at, for an admission issued in the past
AdmitsWrite(until) == until > now

MayHoldReadWrite(trusted, verified, until) == trusted /\ (verified \/ AdmitsWrite(until))

-----------------------------------------------------------------------------
(* Building blocks of the commands *)

\* tombstone_entity_tx: a row that is already tombstoned keeps its tombstone.
TombstoneAt(row, at) ==
    IF row.st = "live" THEN [row EXCEPT !.st = "dead", !.tomb = at] ELSE row
Tombstone(row) == TombstoneAt(row, now)
TombstoneClientAt(row, at) == [TombstoneAt(row, at) EXCEPT !.rev = row.rev + 1]

\* Mutant: a refresh does not carry the client's expiration over.
RefreshedBindingKeepsExpiry(b, w, client) ==
    IF b.st # "live" THEN b
    ELSE IF ~RegisteredWorkspace(w) THEN Tombstone(b)
    ELSE [b EXCEPT !.mode = IF MayHoldReadWrite(workspaces[w].trusted, client.verified, b.until)
                            THEN @ ELSE "read_only"]

\* refresh_client_bindings_tx, as part of every write of client c's row:
\* bindings of workspaces that are gone are tombstoned; the others lose
\* read-write access they may no longer hold and expire with the client.
RefreshedBinding(b, w, client) ==
    IF b.st # "live" THEN b
    ELSE IF ~RegisteredWorkspace(w) THEN Tombstone(b)
    ELSE [b EXCEPT !.expires = client.expires,
                   !.mode = IF MayHoldReadWrite(workspaces[w].trusted, client.verified, b.until)
                            THEN @ ELSE "read_only"]

RefreshClientBindings(c, client) ==
    bindings' = [bindings EXCEPT ![c] =
                   [w \in Workspaces |-> RefreshedBinding(bindings[c][w], w, client)]]

\* The client row after a registration of version v: created, updated, or
\* revived with the next revision.  One that repeats the row's content to the
\* millisecond is a replay and leaves the row as it is.
RegisteredClient(c, v, expires) ==
    LET old == clients[c]
        new == [st |-> "live", id |-> IF old.st = "none" THEN old.id + 1 ELSE old.id,
                rev |-> old.rev + 1, version |-> v, verified |-> WriteCapable(c, v),
                expires |-> expires, tomb |-> 0]
    IN {new} \cup {row \in {old} : new = [old EXCEPT !.rev = @ + 1]}

-----------------------------------------------------------------------------
(* Registration commands: created, updated, or revived from a tombstone *)

\* Registering a workspace with another trust state than trusted takes the
\* read-write access of its bindings away in the same transaction.
RegisterWorkspace(w, trusted) ==
    /\ workspaces[w].st = "none" => workspaces[w].id < MaxId
    /\ workspaces' = [workspaces EXCEPT ![w] =
         [st |-> "live", trusted |-> trusted, tomb |-> 0,
          id |-> IF @.st = "none" THEN @.id + 1 ELSE @.id]]
    /\ bindings' = [c \in Clients |-> [bindings[c] EXCEPT ![w] =
         IF @.st = "live" /\ ~trusted THEN [@ EXCEPT !.mode = "read_only"] ELSE @]]
    /\ UNCHANGED <<clients, orphans, receipts, handler, daemon, now, declared>>

\* The expiration is computed from the clock the handler read.
RegisterClient(c, v, at, ttl) ==
    /\ clients[c].st = "none" => clients[c].id < MaxId
    /\ clients[c].rev < MaxRev
    /\ at <= now /\ now <= at + QueueLag
    /\ at + ttl <= MaxTime
    /\ \E row \in RegisteredClient(c, v, at + ttl) :
          /\ clients' = [clients EXCEPT ![c] = row]
          /\ RefreshClientBindings(c, row)
    /\ declared' = [declared EXCEPT ![c] = v]
    /\ UNCHANGED <<workspaces, orphans, receipts, handler, daemon, now>>

\* registry_tombstone_parent: the bindings go with their parent.
ForgetWorkspace(w) ==
    /\ workspaces[w].st = "live"
    /\ workspaces' = [workspaces EXCEPT ![w] = Tombstone(@)]
    /\ bindings' = [c \in Clients |-> [bindings[c] EXCEPT ![w] = Tombstone(@)]]
    /\ UNCHANGED <<clients, orphans, receipts, handler, daemon, now, declared>>

DisconnectClient(c) ==
    /\ clients[c].st = "live"
    /\ clients' = [clients EXCEPT ![c] = TombstoneClientAt(@, now)]
    /\ bindings' = [bindings EXCEPT ![c] = [w \in Workspaces |-> Tombstone(bindings[c][w])]]
    /\ UNCHANGED <<workspaces, orphans, receipts, handler, daemon, now, declared>>

UnbindClientWorkspace(c, w) ==
    /\ bindings[c][w].st = "live"
    /\ bindings' = [bindings EXCEPT ![c][w] = Tombstone(@)]
    /\ UNCHANGED <<workspaces, clients, orphans, receipts, handler, daemon, now, declared>>

-----------------------------------------------------------------------------
(* heartbeat_client: read and evaluate, then write at the revision read *)

\* revalidate_client's read.  The new expiration is computed from the clock
\* of the read, not of the write.
HeartbeatRead(h, c, ttl) ==
    /\ handler[h].op = "idle"
    /\ ActiveClient(c)
    /\ now + ttl <= MaxTime
    /\ handler' = [handler EXCEPT ![h] =
         [op |-> "heartbeat", client |-> c, id |-> clients[c].id, rev |-> clients[c].rev,
          version |-> clients[c].version, expires |-> now + ttl]]
    /\ UNCHANGED <<rows, receipts, daemon, now, declared>>

\* Mutant: the revision is not compared.
SameClientHolds(h) ==
    ActiveClient(handler[h].client) /\ clients[handler[h].client].id = handler[h].id

\* registry_register_client with an expected revision: refused unless the row
\* is the one that was read, still active and at the revision that was read.
RevisionHolds(h) ==
    LET r == handler[h] IN
    /\ ActiveClient(r.client)
    /\ clients[r.client].id = r.id
    /\ clients[r.client].rev = r.rev

Revalidated(h) ==
    LET r == handler[h]
        row == [clients[r.client] EXCEPT
                  !.rev = @ + 1, !.version = r.version,
                  !.verified = WriteCapable(r.client, r.version), !.expires = r.expires]
    IN /\ clients[r.client].rev < MaxRev
       /\ clients' = [clients EXCEPT ![r.client] = row]
       /\ RefreshClientBindings(r.client, row)

HeartbeatWrite(h) ==
    /\ handler[h].op = "heartbeat"
    /\ RevisionHolds(h)
    /\ Revalidated(h)
    /\ handler' = [handler EXCEPT ![h] = Idle]
    /\ UNCHANGED <<workspaces, orphans, receipts, daemon, now, declared>>

-----------------------------------------------------------------------------
(* bind_client_workspace *)

\* Revalidation of the client, first read.  Its outcome decides whether a
\* read-write binding needs an admission receipt; when it differs from what
\* the row says, the row is rewritten first.  Two read-only outcomes may differ
\* too (Unprobed and Unsupported are one here).
BindRead(h, c, w, mode, receipt, step) ==
    /\ handler[h].op = "idle"
    /\ ActiveClient(c)
    /\ workspaces[w].id # 0
    /\ WriteCapable(c, clients[c].version) # clients[c].verified => step = "bind_revalidate"
    /\ WriteCapable(c, clients[c].version) /\ clients[c].verified => step = "bind"
    /\ handler' = [handler EXCEPT ![h] =
         [op |-> step,
          client |-> c, id |-> clients[c].id, rev |-> clients[c].rev,
          version |-> clients[c].version, expires |-> clients[c].expires,
          workspace |-> w, wid |-> workspaces[w].id, mode |-> mode,
          capable |-> WriteCapable(c, clients[c].version), receipt |-> receipt, until |-> 0]]
    /\ UNCHANGED <<rows, receipts, daemon, now, declared>>

BindRevalidate(h) ==
    /\ handler[h].op = "bind_revalidate"
    /\ RevisionHolds(h)
    /\ Revalidated(h)
    /\ handler' = [handler EXCEPT ![h].op = "bind"]
    /\ UNCHANGED <<workspaces, orphans, receipts, daemon, now, declared>>

NeedsReceipt(r) == r.mode = "read_write" /\ ~r.capable

\* verify_receipt: the receipt names this client and workspace, was issued
\* under this daemon's matrix and is in date, and the client is active at the
\* receipt's version, which the matrix lists.  Its expiry becomes the admission.
ReceiptVerifies(r) ==
    /\ r.receipt \in receipts
    /\ r.receipt.client = r.client /\ r.receipt.id = r.id
    /\ r.receipt.workspace = r.workspace /\ r.receipt.wid = r.wid
    /\ r.receipt.matrix = daemon
    /\ r.receipt.expires > now
    /\ ActiveClient(r.client) /\ clients[r.client].id = r.id
    /\ clients[r.client].version = r.receipt.version
    /\ InMatrix(r.client, r.receipt.version)
    /\ RegisteredWorkspace(r.workspace) /\ workspaces[r.workspace].id = r.wid

BindVerify(h) ==
    /\ handler[h].op = "bind" /\ NeedsReceipt(handler[h])
    /\ handler[h].until = 0
    /\ ReceiptVerifies(handler[h])
    /\ handler' = [handler EXCEPT ![h].until = handler[h].receipt.expires]
    /\ UNCHANGED <<rows, receipts, daemon, now, declared>>

\* Mutant: the native ids are looked up, the canonical ids are not compared.
BindAllowedByName(r) ==
    /\ ActiveClient(r.client) /\ RegisteredWorkspace(r.workspace)
    /\ r.mode = "read_write" =>
         MayHoldReadWrite(workspaces[r.workspace].trusted, clients[r.client].verified, r.until)

\* registry_bind_client_workspace checks the client and workspace rows as they
\* are now, and for read-write access trust and verification or admission.
BindAllowed(r) ==
    /\ ActiveClient(r.client) /\ clients[r.client].id = r.id
    /\ RegisteredWorkspace(r.workspace) /\ workspaces[r.workspace].id = r.wid
    /\ r.mode = "read_write" =>
         MayHoldReadWrite(workspaces[r.workspace].trusted, clients[r.client].verified, r.until)

BindWrite(h) ==
    LET r == handler[h] IN
    /\ r.op = "bind"
    /\ NeedsReceipt(r) => r.until # 0
    /\ BindAllowed(r)
    /\ bindings' = [bindings EXCEPT ![r.client][r.workspace] =
         [st |-> "live", cid |-> r.id, wid |-> r.wid, mode |-> r.mode, until |-> r.until,
          expires |-> clients[r.client].expires, tomb |-> 0]]
    /\ handler' = [handler EXCEPT ![h] = Idle]
    /\ UNCHANGED <<workspaces, clients, orphans, receipts, daemon, now, declared>>

\* A request whose next check fails is answered with an error.
RequestFails(h) ==
    LET r == handler[h] IN
    /\ \/ r.op \in {"heartbeat", "bind_revalidate"} /\ ~RevisionHolds(h)
       \/ r.op = "bind" /\ NeedsReceipt(r) /\ r.until = 0 /\ ~ReceiptVerifies(r)
       \/ r.op = "bind" /\ (NeedsReceipt(r) => r.until # 0) /\ ~BindAllowed(r)
    /\ handler' = [handler EXCEPT ![h] = Idle]
    /\ UNCHANGED <<rows, receipts, daemon, now, declared>>

-----------------------------------------------------------------------------
(* issue_receipt *)

IssueReceipt(c, w, ttl) ==
    /\ Cardinality(receipts) < MaxReceipts
    /\ now + ttl <= MaxTime
    /\ ActiveClient(c)
    /\ InMatrix(c, clients[c].version)
    /\ RegisteredWorkspace(w)
    /\ receipts' = receipts \cup
         {[client |-> c, id |-> clients[c].id, version |-> clients[c].version,
           workspace |-> w, wid |-> workspaces[w].id, matrix |-> daemon,
           expires |-> now + ttl]}
    /\ UNCHANGED <<rows, handler, daemon, now, declared>>

-----------------------------------------------------------------------------
(* apply_retention and purge_tombstones *)

LiveWorkspaces == {w \in Workspaces : workspaces[w].st = "live"}
LiveClients == {c \in Clients : clients[c].st = "live"}
LiveBindings == {p \in Clients \X Workspaces : bindings[p[1]][p[2]].st = "live"}

ExpiredClients(at) == {c \in LiveClients : clients[c].expires <= at}
ExpiredBindings(at) == {p \in LiveBindings : bindings[p[1]][p[2]].expires <= at}

\* Expired rows are candidates and, while there is room, so are the rows that
\* the enabled policies select by kind and age (any live rows here).
RetentionCandidates(at, CW, CC, CP) ==
    LET expired == Cardinality(ExpiredClients(at)) + Cardinality(ExpiredBindings(at))
        size == Cardinality(CW) + Cardinality(CC) + Cardinality(CP)
    IN /\ size <= BatchLimit
       /\ \/ /\ expired > BatchLimit /\ size = BatchLimit
             /\ CC \subseteq ExpiredClients(at) /\ CP \subseteq ExpiredBindings(at) /\ CW = {}
          \/ ExpiredClients(at) \subseteq CC /\ ExpiredBindings(at) \subseteq CP

\* The tombstones carry the time the caller passed, which it read before it
\* queued the command; every other tombstone carries the writer's own clock.
ApplyRetention(at, CW, CC, CP, W, C, P) ==
    /\ at <= now /\ now <= at + QueueLag
    /\ RetentionCandidates(at, CW, CC, CP)
    /\ RetentionOutcome(BatchLimit, LiveBindings, CW, CC, CP, W, C, P)
    /\ workspaces' = [w \in Workspaces |->
         IF w \in W THEN TombstoneAt(workspaces[w], at) ELSE workspaces[w]]
    /\ clients' = [c \in Clients |->
         IF c \in C THEN TombstoneClientAt(clients[c], at) ELSE clients[c]]
    /\ bindings' = [c \in Clients |-> [w \in Workspaces |->
         IF <<c, w>> \in P THEN TombstoneAt(bindings[c][w], at) ELSE bindings[c][w]]]
    /\ UNCHANGED <<orphans, receipts, handler, daemon, now, declared>>

\* Tombstones old enough to purge, by the rank the purge orders them by.
PurgeableBindings(before) ==
    {p \in Clients \X Workspaces :
        bindings[p[1]][p[2]].st = "dead" /\ bindings[p[1]][p[2]].tomb <= before}
PurgeableClients(before) ==
    {c \in Clients : clients[c].st = "dead" /\ clients[c].tomb <= before}
PurgeableWorkspaces(before) ==
    {w \in Workspaces : workspaces[w].st = "dead" /\ workspaces[w].tomb <= before}

PurgeableOrphans(before) == {o \in orphans : o.row.tomb <= before}

\* Mutant: in the order of the tombstones, whatever their kind.
PurgeBatchUnranked(before, W, C, P, O) ==
    LET size == Cardinality(W) + Cardinality(C) + Cardinality(P) + Cardinality(O)
    IN /\ size <= BatchLimit
       /\ \/ size = BatchLimit
          \/ /\ W = PurgeableWorkspaces(before) /\ C = PurgeableClients(before)
             /\ P = PurgeableBindings(before) /\ O = PurgeableOrphans(before)

\* The first BatchLimit of them: bindings, then clients, then workspaces.
PurgeBatch(before, W, C, P, O) ==
    LET size == Cardinality(W) + Cardinality(C) + Cardinality(P) + Cardinality(O)
    IN /\ P \subseteq PurgeableBindings(before) /\ O \subseteq PurgeableOrphans(before)
       /\ C \subseteq PurgeableClients(before)
       /\ W \subseteq PurgeableWorkspaces(before)
       /\ size <= BatchLimit
       /\ (P # PurgeableBindings(before) \/ O # PurgeableOrphans(before))
            => C = {} /\ W = {} /\ size = BatchLimit
       /\ C # PurgeableClients(before) => W = {} /\ size = BatchLimit
       /\ W # PurgeableWorkspaces(before) => size = BatchLimit

\* parent_id ... ON DELETE RESTRICT, and the parent of a binding is its client:
\* a client with a binding row that stays makes the whole purge fail.
ForeignKeysHold(C, P, O) ==
    /\ \A c \in C, w \in Workspaces : bindings[c][w].st # "none" => <<c, w>> \in P
    /\ \A o \in orphans : o.client \in C => o \in O

\* Nothing refers from a binding to its workspace: the rows of bindings that
\* are not purged with the workspace stay, under the id it had.
Outlived(W, P) ==
    {[client |-> p[1], workspace |-> p[2], row |-> bindings[p[1]][p[2]],
      gone |-> workspaces[p[2]].tomb]
        : p \in {q \in (Clients \X W) \ P : bindings[q[1]][q[2]].st # "none"}}

PurgeTombstones(before, W, C, P, O) ==
    /\ PurgeBatch(before, W, C, P, O)
    /\ ForeignKeysHold(C, P, O)
    /\ workspaces' = [w \in Workspaces |->
         IF w \in W THEN NoWorkspace(workspaces[w].id) ELSE workspaces[w]]
    /\ clients' = [c \in Clients |-> IF c \in C THEN NoClient(clients[c].id) ELSE clients[c]]
    /\ bindings' = [c \in Clients |-> [w \in Workspaces |->
         IF <<c, w>> \in P \/ w \in W THEN NoBinding ELSE bindings[c][w]]]
    /\ orphans' = (orphans \ O) \cup Outlived(W, P)
    /\ UNCHANGED <<receipts, handler, daemon, now, declared>>

-----------------------------------------------------------------------------
(* The environment *)

Tick ==
    /\ now < MaxTime
    /\ now' = now + 1
    /\ UNCHANGED <<rows, receipts, handler, daemon, declared>>

\* The daemon stops and the same or another build starts on the same database.
Restart(v) ==
    /\ v # daemon \/ \E h \in Handlers : handler[h].op # "idle"
    /\ daemon' = v
    /\ handler' = [h \in Handlers |-> Idle]
    /\ UNCHANGED <<rows, receipts, now, declared>>

Serve(h) ==
    \/ \E c \in Clients, ttl \in Ttls : HeartbeatRead(h, c, ttl)
    \/ HeartbeatWrite(h)
    \/ \E c \in Clients, w \in Workspaces, mode \in Modes, r \in receipts \cup {NoReceipt},
          step \in {"bind", "bind_revalidate"} : BindRead(h, c, w, mode, r, step)
    \/ BindRevalidate(h)
    \/ BindVerify(h)
    \/ BindWrite(h)
    \/ RequestFails(h)

Retention ==
    \E at \in Times, CW \in SUBSET LiveWorkspaces, CC \in SUBSET LiveClients,
       CP \in SUBSET LiveBindings :
    \E W \in SUBSET CW, C \in SUBSET CC, P \in SUBSET LiveBindings :
        W \cup C \cup P # {} /\ ApplyRetention(at, CW, CC, CP, W, C, P)

Purge ==
    \E before \in Times :
    \E W \in SUBSET PurgeableWorkspaces(before), C \in SUBSET PurgeableClients(before),
       P \in SUBSET PurgeableBindings(before), O \in SUBSET PurgeableOrphans(before) :
        (W \cup C \cup P # {} \/ O # {}) /\ PurgeTombstones(before, W, C, P, O)

Next ==
    \/ \E w \in Workspaces, trusted \in BOOLEAN : RegisterWorkspace(w, trusted)
    \/ \E c \in Clients, v \in Versions, at \in Times, ttl \in Ttls : RegisterClient(c, v, at, ttl)
    \/ \E w \in Workspaces : ForgetWorkspace(w)
    \/ \E c \in Clients : DisconnectClient(c)
    \/ \E c \in Clients, w \in Workspaces : UnbindClientWorkspace(c, w)
    \/ \E h \in Handlers : Serve(h)
    \/ \E c \in Clients, w \in Workspaces, ttl \in ReceiptTtls : IssueReceipt(c, w, ttl)
    \/ Retention
    \/ Purge
    \/ Tick
    \/ \E v \in Versions : Restart(v)

Spec == Init /\ [][Next]_vars

-----------------------------------------------------------------------------
(* Properties *)

Ids == 0 .. MaxId
WorkspaceRows == [st : Status, id : Ids, trusted : BOOLEAN, tomb : Times]
ClientRows == [st : Status, id : Ids, rev : Nat, version : Versions \cup {NoVersion},
               verified : BOOLEAN, expires : Times, tomb : Times]
BindingRows == [st : Status, cid : Ids, wid : Ids, mode : Modes, until : Times,
                expires : Times, tomb : Times]
Orphans == [client : Clients, workspace : Workspaces, row : BindingRows, gone : Times]
Receipts == [client : Clients, id : Ids, version : Versions, workspace : Workspaces,
             wid : Ids, matrix : Versions, expires : Times]
Heartbeats == [op : {"heartbeat"}, client : Clients, id : Ids, rev : Nat,
               version : Versions \cup {NoVersion}, expires : Times]
Binds == [op : {"bind", "bind_revalidate"}, client : Clients, id : Ids, rev : Nat,
          version : Versions \cup {NoVersion}, expires : Times,
          workspace : Workspaces, wid : Ids, mode : Modes, capable : BOOLEAN,
          receipt : Receipts \cup {NoReceipt}, until : Times]
Requests == {Idle} \cup Heartbeats \cup Binds

\* Rows, requests and receipts have their shape.
TypeOK ==
    /\ workspaces \in [Workspaces -> WorkspaceRows]
    /\ clients \in [Clients -> ClientRows]
    /\ bindings \in [Clients -> [Workspaces -> BindingRows]]
    /\ orphans \subseteq Orphans
    /\ receipts \subseteq Receipts
    /\ handler \in [Handlers -> Requests]
    /\ daemon \in Versions
    /\ now \in Times
    /\ declared \in [Clients -> Versions \cup {NoVersion}]

\* A live binding is anchored: its client and its workspace are live, and are
\* the very rows it was bound to.  Forgetting, disconnecting and retention take
\* the bindings with the parent, and a bind that was checked against a client
\* or workspace that has since gone, or gone and come back, is refused.
LiveBindingAnchored ==
    \A c \in Clients, w \in Workspaces :
        bindings[c][w].st = "live" =>
            /\ clients[c].st = "live" /\ clients[c].id = bindings[c][w].cid
            /\ workspaces[w].st = "live" /\ workspaces[w].id = bindings[c][w].wid

\* No live binding of an untrusted workspace is read-write: registration
\* downgrades them, and bind and refresh look at the trust of the moment.
ReadWriteNeedsTrust ==
    \A c \in Clients, w \in Workspaces :
        (bindings[c][w].st = "live" /\ bindings[c][w].mode = "read_write")
            => workspaces[w].trusted

\* A live binding expires exactly when its client does, however heartbeats,
\* registrations and binds interleave: none outlives its client's ttl.
BindingExpiresWithClient ==
    \A c \in Clients, w \in Workspaces :
        bindings[c][w].st = "live" => bindings[c][w].expires = clients[c].expires

\* Every binding row, tombstoned ones included, has the client row it refers to
\* and, but for the lag of a retention command, the workspace row: one that
\* outlives its workspace was tombstoned after it, by no more than the time that
\* command had waited.  The client side is also a foreign key; for workspaces
\* only the order in which the purge takes tombstones ensures it.
OrphansOnlyByLag ==
    /\ \A c \in Clients, w \in Workspaces :
          bindings[c][w].st # "none" =>
            /\ clients[c].st # "none" /\ clients[c].id = bindings[c][w].cid
            /\ workspaces[w].st # "none" /\ workspaces[w].id = bindings[c][w].wid
    /\ \A o \in orphans :
          /\ clients[o.client].st # "none" /\ clients[o.client].id = o.row.cid
          /\ o.row.st = "dead"
          /\ o.gone < o.row.tomb /\ o.row.tomb <= o.gone + QueueLag

\* What retention, purge and concurrent requests may not do to a binding.
BindingsFollowTheirRows == OrphansOnlyByLag /\ BindingExpiresWithClient /\ ReadWriteNeedsTrust

BindingTombs(c) ==
    {bindings[c][w].tomb : w \in {x \in Workspaces : bindings[c][x].st # "none"}}
      \cup {o.row.tomb : o \in {p \in orphans : p.client = c}}

\* A purge runs into a foreign key only inside the lag of a retention command:
\* when a client it takes has a binding tombstoned after the cutoff, by no more
\* than that lag.  A purge with a cutoff that much later takes the binding too.
PurgeBlockedOnlyByLag ==
    \A before \in Times :
    \A W \in SUBSET PurgeableWorkspaces(before), C \in SUBSET PurgeableClients(before),
       P \in SUBSET PurgeableBindings(before), O \in SUBSET PurgeableOrphans(before) :
        (PurgeBatch(before, W, C, P, O) /\ ~ForeignKeysHold(C, P, O)) =>
            \E c \in C : \E t \in BindingTombs(c) : before < t /\ t <= before + QueueLag

\* A heartbeat or bind that read the client before it registered again never
\* writes the old registration back.
NoLostRegistration ==
    \A c \in Clients : clients[c].st = "live" => clients[c].version = declared[c]

\* Whenever a step writes a binding, the read-write access it leaves is one the
\* binding may hold at that moment.
ReadWriteIsJustifiedWhenWritten ==
    [][\A c \in Clients, w \in Workspaces :
          (/\ bindings'[c][w] # bindings[c][w]
           /\ bindings'[c][w].st = "live" /\ bindings'[c][w].mode = "read_write")
             => MayHoldReadWrite(workspaces[w].trusted, clients'[c].verified,
                                 bindings'[c][w].until)]_vars
=============================================================================
