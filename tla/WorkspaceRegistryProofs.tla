---------------------- MODULE WorkspaceRegistryProofs ----------------------
(* Proofs about the workspace and client registry, for all constants. *)
EXTENDS WorkspaceRegistry, TLAPS

\* The rows that stand for "no row" are rows.
LEMMA EmptyRows ==
    ASSUME NEW i \in Ids
    PROVE NoWorkspace(i) \in WorkspaceRows /\ NoClient(i) \in ClientRows
          /\ NoBinding \in BindingRows
<1> 0 \in Times /\ 0 \in Ids
  BY RegistryConstants DEF Times, Ids
<1> QED BY RegistryConstants DEF NoWorkspace, NoClient, NoBinding, WorkspaceRows, ClientRows,
           BindingRows, Status, Modes

\* Tombstoning keeps the types.
LEMMA TombstoneTypes ==
    ASSUME NEW at \in Times
    PROVE /\ \A row \in WorkspaceRows : TombstoneAt(row, at) \in WorkspaceRows
          /\ \A row \in ClientRows : TombstoneAt(row, at) \in ClientRows
          /\ \A row \in ClientRows : TombstoneClientAt(row, at) \in ClientRows
          /\ \A row \in BindingRows : TombstoneAt(row, at) \in BindingRows
<1>1. ASSUME NEW row \in WorkspaceRows PROVE TombstoneAt(row, at) \in WorkspaceRows
  BY DEF TombstoneAt, WorkspaceRows, Status
<1>2. ASSUME NEW row \in ClientRows PROVE TombstoneAt(row, at) \in ClientRows
  BY DEF TombstoneAt, ClientRows, Status
<1>3. ASSUME NEW row \in BindingRows PROVE TombstoneAt(row, at) \in BindingRows
  BY DEF TombstoneAt, BindingRows, Status
<1>4. ASSUME NEW row \in ClientRows PROVE TombstoneClientAt(row, at) \in ClientRows
  <2>1. TombstoneAt(row, at) \in ClientRows /\ row.rev + 1 \in Nat
    BY <1>2 DEF ClientRows
  <2> QED BY <2>1 DEF TombstoneClientAt, ClientRows
<1> QED BY <1>1, <1>2, <1>3, <1>4

\* A refresh keeps the types.
LEMMA RefreshTypes ==
    ASSUME TypeOK, NEW c \in Clients, NEW client \in ClientRows,
           RefreshClientBindings(c, client)
    PROVE bindings' \in [Clients -> [Workspaces -> BindingRows]]
<1>1. ASSUME NEW w \in Workspaces
      PROVE RefreshedBinding(bindings[c][w], w, client) \in BindingRows
  <2> DEFINE b == bindings[c][w]
  <2>1. b \in BindingRows /\ now \in Times
    BY DEF TypeOK
  <2>2. Tombstone(b) \in BindingRows
    BY <2>1, TombstoneTypes DEF Tombstone
  <2>3. client.expires \in Times
    BY DEF ClientRows
  <2>4. \A m \in Modes : [b EXCEPT !.expires = client.expires, !.mode = m] \in BindingRows
    BY <2>1, <2>3 DEF BindingRows
  <2>5. b.mode \in Modes /\ "read_only" \in Modes
    BY <2>1 DEF BindingRows, Modes
  <2> HIDE DEF b
  <2>6. (IF MayHoldReadWrite(workspaces[w].trusted, client.verified, b.until)
         THEN b.mode ELSE "read_only") \in Modes
    BY <2>5
  <2>7. [b EXCEPT !.expires = client.expires,
           !.mode = IF MayHoldReadWrite(workspaces[w].trusted, client.verified, b.until)
                    THEN b.mode ELSE "read_only"] \in BindingRows
    BY <2>4, <2>6
  <2> QED BY <2>1, <2>2, <2>7 DEF RefreshedBinding, b
<1> QED BY <1>1 DEF RefreshClientBindings, TypeOK

\* A registration or revalidation writes a client row.
LEMMA RegisteredTypes ==
    ASSUME TypeOK, NEW c \in Clients, NEW v \in Versions, NEW expires \in Times,
           clients[c].st = "none" => clients[c].id < MaxId,
           NEW row \in RegisteredClient(c, v, expires)
    PROVE row \in ClientRows
<1>1. clients[c] \in ClientRows
  BY DEF TypeOK
<1>2. 0 \in Times /\ clients[c].id \in Ids /\ clients[c].rev \in Nat
  BY <1>1, RegistryConstants DEF ClientRows, Times
<1>3. (IF clients[c].st = "none" THEN clients[c].id + 1 ELSE clients[c].id) \in Ids
  BY <1>2, RegistryConstants DEF Ids
<1>4. WriteCapable(c, v) \in BOOLEAN
  BY DEF WriteCapable
<1> DEFINE new == [st |-> "live",
                   id |-> IF clients[c].st = "none" THEN clients[c].id + 1 ELSE clients[c].id,
                   rev |-> clients[c].rev + 1, version |-> v, verified |-> WriteCapable(c, v),
                   expires |-> expires, tomb |-> 0]
<1>5. new \in ClientRows
  BY <1>2, <1>3, <1>4 DEF ClientRows, Status
<1>6. row = new \/ row = clients[c]
  BY DEF RegisteredClient
<1> QED BY <1>1, <1>5, <1>6

LEMMA RevalidatedTypes ==
    ASSUME TypeOK, NEW h \in Handlers,
           handler[h].op \in {"heartbeat", "bind_revalidate"}, Revalidated(h)
    PROVE /\ clients' \in [Clients -> ClientRows]
          /\ bindings' \in [Clients -> [Workspaces -> BindingRows]]
<1> DEFINE r == handler[h]
<1>1. r.client \in Clients /\ r.version \in Versions \cup {NoVersion} /\ r.expires \in Times
  BY DEF TypeOK, Requests, Idle, Heartbeats, Binds
<1> HIDE DEF r
<1> DEFINE old == clients[r.client]
<1>2. old \in ClientRows
  BY <1>1 DEF TypeOK
<1> DEFINE capable == WriteCapable(r.client, r.version)
<1> DEFINE row == [old EXCEPT !.rev = old.rev + 1, !.version = r.version,
                     !.verified = capable, !.expires = r.expires]
<1>3. capable \in BOOLEAN /\ old.rev + 1 \in Nat
  BY <1>2 DEF WriteCapable, ClientRows
<1> HIDE DEF old, capable
<1>4. row \in ClientRows
  BY <1>1, <1>2, <1>3 DEF ClientRows
<1> HIDE DEF row
<1>5. clients' = [clients EXCEPT ![r.client] = row] /\ RefreshClientBindings(r.client, row)
  BY DEF Revalidated, r, old, row, capable
<1>6. bindings' \in [Clients -> [Workspaces -> BindingRows]]
  BY <1>1, <1>4, <1>5, RefreshTypes
<1> QED BY <1>1, <1>4, <1>5, <1>6 DEF TypeOK

\* Every step keeps the types.
LEMMA TypeStep == ASSUME TypeOK, [Next]_vars PROVE TypeOK'
<1>a. now \in Times /\ 0 \in Times /\ 0 \in Ids
  BY RegistryConstants DEF TypeOK, Times, Ids
<1>b. \A c \in Clients : clients[c] \in ClientRows
  BY DEF TypeOK
<1>c. \A w \in Workspaces : workspaces[w] \in WorkspaceRows
  BY DEF TypeOK
<1>d. \A c \in Clients : \A w \in Workspaces : bindings[c][w] \in BindingRows
  BY DEF TypeOK
<1>e. Idle \in Requests
  BY DEF Requests
<1>1. ASSUME NEW w \in Workspaces, NEW trusted \in BOOLEAN, RegisterWorkspace(w, trusted)
      PROVE TypeOK'
  <2>1. workspaces[w].id \in Ids
    BY <1>c DEF WorkspaceRows
  <2>2. (IF workspaces[w].st = "none" THEN workspaces[w].id + 1 ELSE workspaces[w].id) \in Ids
    BY <1>1, <2>1, RegistryConstants DEF Ids, RegisterWorkspace
  <2>3. [st |-> "live", trusted |-> trusted, tomb |-> 0,
         id |-> IF workspaces[w].st = "none" THEN workspaces[w].id + 1 ELSE workspaces[w].id]
           \in WorkspaceRows
    BY <1>a, <2>2 DEF WorkspaceRows, Status
  <2>4. workspaces' \in [Workspaces -> WorkspaceRows]
    BY <1>1, <2>3 DEF RegisterWorkspace, TypeOK
  <2>5. ASSUME NEW c \in Clients
        PROVE [bindings[c][w] EXCEPT !.mode = "read_only"] \in BindingRows
    BY <1>d DEF BindingRows, Modes
  <2>6. ASSUME NEW c \in Clients
        PROVE [bindings[c] EXCEPT ![w] =
                 IF bindings[c][w].st = "live" /\ ~trusted
                 THEN [bindings[c][w] EXCEPT !.mode = "read_only"] ELSE bindings[c][w]]
               \in [Workspaces -> BindingRows]
    BY <1>d, <2>5 DEF TypeOK
  <2>7. bindings' \in [Clients -> [Workspaces -> BindingRows]]
    BY <1>1, <2>6 DEF RegisterWorkspace
  <2> QED BY <1>1, <2>4, <2>7 DEF RegisterWorkspace, TypeOK
<1>2. ASSUME NEW c \in Clients, NEW v \in Versions, NEW at \in Times, NEW ttl \in Ttls,
             RegisterClient(c, v, at, ttl)
      PROVE TypeOK'
  <2>1. at + ttl \in Times
    BY <1>2, RegistryConstants DEF RegisterClient, Times
  <2>2. PICK row \in RegisteredClient(c, v, at + ttl) :
          clients' = [clients EXCEPT ![c] = row] /\ RefreshClientBindings(c, row)
    BY <1>2 DEF RegisterClient
  <2>3. row \in ClientRows
    BY <1>2, <2>1, <2>2, RegisteredTypes DEF RegisterClient
  <2>4. bindings' \in [Clients -> [Workspaces -> BindingRows]]
    BY <2>2, <2>3, RefreshTypes
  <2> QED BY <1>2, <2>2, <2>3, <2>4 DEF RegisterClient, TypeOK
<1>3. ASSUME NEW w \in Workspaces, ForgetWorkspace(w) PROVE TypeOK'
  <2>1. workspaces' \in [Workspaces -> WorkspaceRows]
    BY <1>3, <1>a, <1>c, TombstoneTypes DEF ForgetWorkspace, Tombstone, TypeOK
  <2>2. ASSUME NEW c \in Clients
        PROVE [bindings[c] EXCEPT ![w] = Tombstone(bindings[c][w])]
                \in [Workspaces -> BindingRows]
    BY <1>a, <1>d, TombstoneTypes DEF Tombstone, TypeOK
  <2>3. bindings' \in [Clients -> [Workspaces -> BindingRows]]
    BY <1>3, <2>2 DEF ForgetWorkspace
  <2> QED BY <1>3, <2>1, <2>3 DEF ForgetWorkspace, TypeOK
<1>4. ASSUME NEW c \in Clients, DisconnectClient(c) PROVE TypeOK'
  <2>2. TombstoneClientAt(clients[c], now) \in ClientRows
    BY <1>a, <1>b, TombstoneTypes
  <2>3. clients' \in [Clients -> ClientRows]
    BY <1>4, <2>2 DEF DisconnectClient, TypeOK
  <2>4. \A w \in Workspaces : Tombstone(bindings[c][w]) \in BindingRows
    BY <1>a, <1>d, TombstoneTypes DEF Tombstone
  <2>5. bindings' \in [Clients -> [Workspaces -> BindingRows]]
    BY <1>4, <2>4 DEF DisconnectClient, TypeOK
  <2> QED BY <1>4, <2>3, <2>5 DEF DisconnectClient, TypeOK
<1>5. ASSUME NEW c \in Clients, NEW w \in Workspaces, UnbindClientWorkspace(c, w) PROVE TypeOK'
  <2>1. Tombstone(bindings[c][w]) \in BindingRows
    BY <1>a, <1>d, TombstoneTypes DEF Tombstone
  <2>2. bindings' \in [Clients -> [Workspaces -> BindingRows]]
    BY <1>5, <2>1 DEF UnbindClientWorkspace, TypeOK
  <2> QED BY <1>5, <2>2 DEF UnbindClientWorkspace, TypeOK
<1>6. ASSUME NEW h \in Handlers, NEW c \in Clients, NEW ttl \in Ttls, HeartbeatRead(h, c, ttl)
      PROVE TypeOK'
  <2>1. now + ttl \in Times
    BY <1>6, <1>a, RegistryConstants DEF HeartbeatRead, Times
  <2>2. clients[c].id \in Ids /\ clients[c].rev \in Nat
        /\ clients[c].version \in Versions \cup {NoVersion}
    BY <1>b DEF ClientRows
  <2>3. [op |-> "heartbeat", client |-> c, id |-> clients[c].id, rev |-> clients[c].rev,
         version |-> clients[c].version, expires |-> now + ttl] \in Requests
    BY <2>1, <2>2 DEF Requests, Heartbeats
  <2>4. handler' \in [Handlers -> Requests]
    BY <1>6, <2>3 DEF HeartbeatRead, TypeOK
  <2> QED BY <1>6, <2>4 DEF HeartbeatRead, TypeOK, rows
<1>7. ASSUME NEW h \in Handlers, HeartbeatWrite(h) PROVE TypeOK'
  <2>1. /\ clients' \in [Clients -> ClientRows]
        /\ bindings' \in [Clients -> [Workspaces -> BindingRows]]
    BY <1>7, RevalidatedTypes DEF HeartbeatWrite
  <2> QED BY <1>7, <1>e, <2>1 DEF HeartbeatWrite, TypeOK
<1>8. ASSUME NEW h \in Handlers, NEW c \in Clients, NEW w \in Workspaces, NEW mode \in Modes,
             NEW receipt \in receipts \cup {NoReceipt}, NEW step \in {"bind", "bind_revalidate"},
             BindRead(h, c, w, mode, receipt, step)
      PROVE TypeOK'
  <2>1. clients[c].id \in Ids /\ clients[c].rev \in Nat /\ clients[c].expires \in Times
        /\ clients[c].version \in Versions \cup {NoVersion} /\ workspaces[w].id \in Ids
    BY <1>b, <1>c DEF ClientRows, WorkspaceRows
  <2>2. WriteCapable(c, clients[c].version) \in BOOLEAN
    BY DEF WriteCapable
  <2>3. receipt \in Receipts \cup {NoReceipt}
    BY DEF TypeOK
  <2> DEFINE request ==
        [op |-> step, client |-> c, id |-> clients[c].id, rev |-> clients[c].rev,
         version |-> clients[c].version, expires |-> clients[c].expires,
         workspace |-> w, wid |-> workspaces[w].id, mode |-> mode,
         capable |-> WriteCapable(c, clients[c].version), receipt |-> receipt, until |-> 0]
  <2>4. request \in Requests
    BY <1>a, <2>1, <2>2, <2>3 DEF Requests, Binds
  <2>5. handler' = [handler EXCEPT ![h] = request]
    BY <1>8 DEF BindRead
  <2> HIDE DEF request
  <2>6. handler' \in [Handlers -> Requests]
    BY <2>4, <2>5 DEF TypeOK
  <2> QED BY <1>8, <2>6 DEF BindRead, TypeOK, rows
<1>9. ASSUME NEW h \in Handlers, BindRevalidate(h) PROVE TypeOK'
  <2>1. /\ clients' \in [Clients -> ClientRows]
        /\ bindings' \in [Clients -> [Workspaces -> BindingRows]]
    BY <1>9, RevalidatedTypes DEF BindRevalidate
  <2>2. [handler[h] EXCEPT !.op = "bind"] \in Requests
    <3>1. handler[h] \in Binds
      BY <1>9 DEF BindRevalidate, TypeOK, Requests, Idle, Heartbeats
    <3> QED BY <3>1 DEF Binds, Requests
  <2>3. handler' \in [Handlers -> Requests]
    BY <1>9, <2>2 DEF BindRevalidate, TypeOK
  <2> QED BY <1>9, <2>1, <2>3 DEF BindRevalidate, TypeOK
<1>10. ASSUME NEW h \in Handlers, BindVerify(h) PROVE TypeOK'
  <2>1. handler[h].receipt \in Receipts
    BY <1>10 DEF BindVerify, ReceiptVerifies, TypeOK
  <2>2. handler[h].receipt.expires \in Times
    BY <2>1 DEF Receipts
  <2>3. [handler[h] EXCEPT !.until = handler[h].receipt.expires] \in Requests
    <3>1. handler[h] \in Binds
      BY <1>10 DEF BindVerify, TypeOK, Requests, Idle, Heartbeats
    <3> QED BY <2>2, <3>1 DEF Binds, Requests
  <2>4. handler' \in [Handlers -> Requests]
    BY <1>10, <2>3 DEF BindVerify, TypeOK
  <2> QED BY <1>10, <2>4 DEF BindVerify, TypeOK, rows
<1>11. ASSUME NEW h \in Handlers, BindWrite(h) PROVE TypeOK'
  <2> DEFINE r == handler[h]
  <2>1. /\ r.client \in Clients /\ r.workspace \in Workspaces /\ r.id \in Ids /\ r.wid \in Ids
        /\ r.mode \in Modes /\ r.until \in Times
    <3>1. handler[h] \in Binds
      BY <1>11 DEF BindWrite, TypeOK, Requests, Idle, Heartbeats
    <3> QED BY <3>1 DEF Binds
  <2> HIDE DEF r
  <2>2. clients[r.client].expires \in Times
    BY <1>b, <2>1 DEF ClientRows
  <2> DEFINE b == [st |-> "live", cid |-> r.id, wid |-> r.wid, mode |-> r.mode,
                   until |-> r.until, expires |-> clients[r.client].expires, tomb |-> 0]
  <2>3. b \in BindingRows
    BY <1>a, <2>1, <2>2 DEF BindingRows, Status
  <2>4. bindings' = [bindings EXCEPT ![r.client][r.workspace] = b]
    BY <1>11 DEF BindWrite, r
  <2> HIDE DEF b
  <2>5. bindings' \in [Clients -> [Workspaces -> BindingRows]]
    BY <2>1, <2>3, <2>4 DEF TypeOK
  <2> QED BY <1>11, <1>e, <2>5 DEF BindWrite, TypeOK
<1>12. ASSUME NEW h \in Handlers, RequestFails(h) PROVE TypeOK'
  BY <1>12, <1>e DEF RequestFails, TypeOK, rows
<1>13. ASSUME NEW c \in Clients, NEW w \in Workspaces, NEW ttl \in ReceiptTtls,
              IssueReceipt(c, w, ttl)
       PROVE TypeOK'
  <2>1. now + ttl \in Times
    BY <1>13, <1>a, RegistryConstants DEF IssueReceipt, Times
  <2>2. clients[c].id \in Ids /\ workspaces[w].id \in Ids
    BY <1>b, <1>c DEF ClientRows, WorkspaceRows
  <2>3. clients[c].version \in Versions /\ daemon \in Versions
    BY <1>13, RegistryConstants DEF IssueReceipt, InMatrix, TypeOK
  <2>4. [client |-> c, id |-> clients[c].id, version |-> clients[c].version,
         workspace |-> w, wid |-> workspaces[w].id, matrix |-> daemon,
         expires |-> now + ttl] \in Receipts
    BY <2>1, <2>2, <2>3 DEF Receipts
  <2>5. receipts' \subseteq Receipts
    BY <1>13, <2>4 DEF IssueReceipt, TypeOK
  <2> QED BY <1>13, <2>5 DEF IssueReceipt, TypeOK, rows
<1>14. ASSUME NEW at \in Times, NEW CW, NEW CC, NEW CP, NEW W, NEW C, NEW P,
              ApplyRetention(at, CW, CC, CP, W, C, P)
       PROVE TypeOK'
  <2>1. workspaces' \in [Workspaces -> WorkspaceRows]
    BY <1>14, <1>c, TombstoneTypes DEF ApplyRetention
  <2>2. \A c \in Clients : TombstoneClientAt(clients[c], at) \in ClientRows
    BY <1>b, TombstoneTypes
  <2>3. clients' \in [Clients -> ClientRows]
    BY <1>14, <1>b, <2>2 DEF ApplyRetention
  <2>4. bindings' \in [Clients -> [Workspaces -> BindingRows]]
    BY <1>14, <1>d, TombstoneTypes DEF ApplyRetention
  <2> QED BY <1>14, <2>1, <2>3, <2>4 DEF ApplyRetention, TypeOK
<1>15. ASSUME NEW before \in Times, NEW W, NEW C, NEW P, NEW O,
             PurgeTombstones(before, W, C, P, O)
       PROVE TypeOK'
  <2>1. \A w \in Workspaces : NoWorkspace(workspaces[w].id) \in WorkspaceRows
    BY <1>c, EmptyRows DEF WorkspaceRows
  <2>2. \A c \in Clients : NoClient(clients[c].id) \in ClientRows
    BY <1>b, EmptyRows DEF ClientRows
  <2>3. NoBinding \in BindingRows
    BY <1>a, EmptyRows
  <2>4. workspaces' \in [Workspaces -> WorkspaceRows]
    BY <1>15, <1>c, <2>1 DEF PurgeTombstones
  <2>5. clients' \in [Clients -> ClientRows]
    BY <1>15, <1>b, <2>2 DEF PurgeTombstones
  <2>6. bindings' \in [Clients -> [Workspaces -> BindingRows]]
    BY <1>15, <1>d, <2>3 DEF PurgeTombstones
  <2>7. Outlived(W, P) \subseteq Orphans
    <3>1. W \subseteq Workspaces
      BY <1>15 DEF PurgeTombstones, PurgeBatch, PurgeableWorkspaces
    <3>2. \A w \in Workspaces : workspaces[w].tomb \in Times
      BY <1>c DEF WorkspaceRows
    <3> QED BY <1>d, <3>1, <3>2 DEF Outlived, Orphans
  <2>8. orphans' \subseteq Orphans
    BY <1>15, <2>7 DEF PurgeTombstones, TypeOK
  <2> QED BY <1>15, <2>4, <2>5, <2>6, <2>8 DEF PurgeTombstones, TypeOK
<1>16. CASE Tick
  BY <1>16, <1>a, RegistryConstants DEF Tick, TypeOK, rows, Times
<1>17. ASSUME NEW v \in Versions, Restart(v) PROVE TypeOK'
  BY <1>17, <1>e DEF Restart, TypeOK, rows
<1>18. CASE UNCHANGED vars
  BY <1>18 DEF vars, TypeOK
<1>19. ASSUME NEW h \in Handlers, Serve(h) PROVE TypeOK'
  BY <1>19, <1>6, <1>7, <1>8, <1>9, <1>10, <1>11, <1>12 DEF Serve
<1>20. CASE Retention
  BY <1>20, <1>14 DEF Retention
<1>21. CASE Purge
  BY <1>21, <1>15 DEF Purge
<1> QED BY <1>1, <1>2, <1>3, <1>4, <1>5, <1>13, <1>16, <1>17, <1>18, <1>19, <1>20, <1>21
           DEF Next

\* Types are never broken, for any number of clients, workspaces and requests.
THEOREM TypeCorrect == Spec => []TypeOK
<1>1. Init => TypeOK
  <2> SUFFICES ASSUME Init PROVE TypeOK
    OBVIOUS
  <2>1. 0 \in Ids /\ 1 \in Times
    BY RegistryConstants DEF Ids, Times
  <2>2. Idle \in Requests
    BY DEF Requests
  <2> QED BY <2>1, <2>2, EmptyRows DEF Init, TypeOK
<1>2. TypeOK /\ [Next]_vars => TypeOK'
  BY TypeStep
<1> QED BY <1>1, <1>2, PTL DEF Spec

-----------------------------------------------------------------------------
(* The three invariants of a live binding, for one client and workspace. *)

Anchored(c, w) ==
    /\ clients[c].st = "live" /\ clients[c].id = bindings[c][w].cid
    /\ workspaces[w].st = "live" /\ workspaces[w].id = bindings[c][w].wid
Fits(c, w) ==
    bindings[c][w].st = "live" =>
        /\ Anchored(c, w)
        /\ bindings[c][w].mode = "read_write" => workspaces[w].trusted
        /\ bindings[c][w].expires = clients[c].expires
AllFit == \A c \in Clients, w \in Workspaces : Fits(c, w)

LEMMA FitsParts == AllFit <=> LiveBindingAnchored /\ ReadWriteNeedsTrust /\ BindingExpiresWithClient
  BY DEF AllFit, Fits, Anchored, LiveBindingAnchored, ReadWriteNeedsTrust,
         BindingExpiresWithClient

\* A tombstoned row is not live; a row that is live after was live before.
LEMMA TombstoneDead ==
    ASSUME NEW row, NEW at
    PROVE TombstoneAt(row, at).st # "live" \/ TombstoneAt(row, at) = row
  BY DEF TombstoneAt

\* A step that leaves a binding and its two parents alone keeps it fitting.
LEMMA FitsUnchanged ==
    ASSUME NEW c \in Clients, NEW w \in Workspaces, Fits(c, w),
           bindings'[c][w] = bindings[c][w], clients'[c] = clients[c],
           workspaces'[w] = workspaces[w]
    PROVE Fits(c, w)'
  BY DEF Fits, Anchored

\* A write of the client row with the refresh of its bindings keeps them
\* fitting, provided a live client keeps its id.
LEMMA FitsRefreshed ==
    ASSUME TypeOK, AllFit, NEW c \in Clients, NEW row \in ClientRows,
           row.st = "live", clients[c].st = "live" => row.id = clients[c].id,
           clients' = [clients EXCEPT ![c] = row], RefreshClientBindings(c, row),
           workspaces' = workspaces
    PROVE AllFit'
<1> SUFFICES ASSUME NEW d \in Clients, NEW w \in Workspaces PROVE Fits(d, w)'
  BY DEF AllFit
<1>1. Fits(d, w)
  BY DEF AllFit
<1>2. CASE d # c
  <2>1. clients'[d] = clients[d] /\ bindings'[d][w] = bindings[d][w]
    BY <1>2 DEF RefreshClientBindings, TypeOK
  <2> QED BY <1>1, <2>1, FitsUnchanged
<1>3. CASE d = c
  <2> DEFINE b == bindings[c][w]
  <2>1. clients'[c] = row /\ bindings'[c][w] = RefreshedBinding(b, w, row)
    BY DEF RefreshClientBindings, TypeOK
  <2>2. b \in BindingRows
    BY DEF TypeOK
  <2>3. CASE b.st # "live" \/ ~RegisteredWorkspace(w)
    <3>1. bindings'[c][w].st # "live"
      BY <2>1, <2>3, <2>2, TombstoneDead DEF RefreshedBinding, Tombstone, TombstoneAt, BindingRows
    <3> QED BY <1>3, <3>1 DEF Fits
  <2>4. CASE b.st = "live" /\ RegisteredWorkspace(w)
    <3>1. /\ bindings'[c][w].cid = b.cid /\ bindings'[c][w].wid = b.wid
          /\ bindings'[c][w].expires = row.expires
          /\ bindings'[c][w].mode = "read_write" =>
                MayHoldReadWrite(workspaces[w].trusted, row.verified, b.until)
      <4> DEFINE m == IF MayHoldReadWrite(workspaces[w].trusted, row.verified, b.until)
                      THEN b.mode ELSE "read_only"
      <4>1. bindings'[c][w] = [b EXCEPT !.expires = row.expires, !.mode = m]
        BY <2>1, <2>4 DEF RefreshedBinding
      <4>2. m = "read_write" => MayHoldReadWrite(workspaces[w].trusted, row.verified, b.until)
        OBVIOUS
      <4> HIDE DEF m, b
      <4>3. /\ [b EXCEPT !.expires = row.expires, !.mode = m].mode = m
            /\ [b EXCEPT !.expires = row.expires, !.mode = m].expires = row.expires
            /\ [b EXCEPT !.expires = row.expires, !.mode = m].cid = b.cid
            /\ [b EXCEPT !.expires = row.expires, !.mode = m].wid = b.wid
        BY <2>2 DEF BindingRows
      <4> QED BY <4>1, <4>2, <4>3
    <3>2. clients[c].st = "live" /\ clients[c].id = b.cid
          /\ workspaces[w].st = "live" /\ workspaces[w].id = b.wid
      BY <1>1, <1>3, <2>4 DEF Fits, Anchored
    <3>3. Anchored(c, w)'
      BY <2>1, <3>1, <3>2 DEF Anchored
    <3>4. bindings'[c][w].mode = "read_write" => workspaces[w].trusted
      BY <3>1 DEF MayHoldReadWrite
    <3> QED BY <1>3, <2>1, <3>1, <3>3, <3>4 DEF Fits
  <2> QED BY <2>3, <2>4
<1> QED BY <1>2, <1>3

\* A revalidation writes a live row with the id it had.
LEMMA FitsRevalidated ==
    ASSUME TypeOK, AllFit, NEW h \in Handlers,
           handler[h].op \in {"heartbeat", "bind_revalidate"}, RevisionHolds(h),
           Revalidated(h), workspaces' = workspaces
    PROVE AllFit'
<1> DEFINE r == handler[h]
<1>1. r.client \in Clients
  BY DEF TypeOK, Requests, Idle, Heartbeats, Binds
<1> DEFINE old == clients[r.client]
<1>2. old \in ClientRows /\ old.st = "live"
  BY <1>1 DEF TypeOK, RevisionHolds, ActiveClient
<1> DEFINE row == [old EXCEPT !.rev = old.rev + 1, !.version = r.version,
                     !.verified = WriteCapable(r.client, r.version), !.expires = r.expires]
<1>3. clients' = [clients EXCEPT ![r.client] = row] /\ RefreshClientBindings(r.client, row)
  BY DEF Revalidated
<1>4. row = clients'[r.client]
  BY <1>1, <1>3 DEF TypeOK
<1>5. row \in ClientRows
  BY <1>1, <1>4, RevalidatedTypes
<1>6. row.st = "live" /\ row.id = old.id
  BY <1>2 DEF ClientRows
<1> HIDE DEF row, r
<1> QED BY <1>1, <1>3, <1>5, <1>6, FitsRefreshed

\* Every step keeps every live binding fitting.
LEMMA FitsStep == ASSUME TypeOK, AllFit, [Next]_vars PROVE AllFit'
<1>a. \A c \in Clients, w \in Workspaces : Fits(c, w)
  BY DEF AllFit
<1>b. ASSUME bindings' = bindings, clients' = clients, workspaces' = workspaces PROVE AllFit'
  BY <1>a, <1>b DEF AllFit, Fits, Anchored
<1>1. ASSUME NEW w \in Workspaces, NEW trusted \in BOOLEAN, RegisterWorkspace(w, trusted)
      PROVE AllFit'
  <2> SUFFICES ASSUME NEW c \in Clients, NEW x \in Workspaces PROVE Fits(c, x)'
    BY DEF AllFit
  <2>1. clients'[c] = clients[c]
    BY <1>1 DEF RegisterWorkspace
  <2>2. CASE x # w
    <3>1. workspaces'[x] = workspaces[x] /\ bindings'[c][x] = bindings[c][x]
      BY <1>1, <2>2 DEF RegisterWorkspace, TypeOK
    <3> QED BY <1>a, <2>1, <3>1, FitsUnchanged
  <2>3. CASE x = w /\ bindings[c][w].st # "live"
    <3>1. bindings'[c][w] = bindings[c][w]
      BY <1>1, <2>3 DEF RegisterWorkspace, TypeOK
    <3> QED BY <2>3, <3>1 DEF Fits
  <2>4. CASE x = w /\ bindings[c][w].st = "live"
    <3> DEFINE b == bindings[c][w]
    <3>1. b \in BindingRows
      BY DEF TypeOK
    <3>2. workspaces[w].st = "live" /\ workspaces[w].id = b.wid
          /\ clients[c].st = "live" /\ clients[c].id = b.cid /\ b.expires = clients[c].expires
      BY <1>a, <2>4 DEF Fits, Anchored
    <3>3. workspaces'[w].st = "live" /\ workspaces'[w].id = workspaces[w].id
          /\ workspaces'[w].trusted = trusted
      BY <1>1, <3>2 DEF RegisterWorkspace, TypeOK
    <3>4. bindings'[c][w] = IF trusted THEN b ELSE [b EXCEPT !.mode = "read_only"]
      BY <1>1, <2>4 DEF RegisterWorkspace, TypeOK
    <3> HIDE DEF b
    <3>5. /\ [b EXCEPT !.mode = "read_only"].cid = b.cid
          /\ [b EXCEPT !.mode = "read_only"].wid = b.wid
          /\ [b EXCEPT !.mode = "read_only"].expires = b.expires
          /\ [b EXCEPT !.mode = "read_only"].mode = "read_only"
      BY <3>1 DEF BindingRows
    <3>6. bindings'[c][w].cid = b.cid /\ bindings'[c][w].wid = b.wid
          /\ bindings'[c][w].expires = b.expires
          /\ (bindings'[c][w].mode = "read_write" => trusted)
      BY <3>4, <3>5
    <3>7. Anchored(c, w)' /\ bindings'[c][w].expires = clients'[c].expires
      BY <2>1, <3>2, <3>3, <3>6 DEF Anchored
    <3>8. bindings'[c][w].mode = "read_write" => workspaces'[w].trusted
      BY <3>3, <3>6
    <3> QED BY <2>4, <3>7, <3>8 DEF Fits
  <2> QED BY <2>2, <2>3, <2>4
<1>2. ASSUME NEW c \in Clients, NEW v \in Versions, NEW at \in Times, NEW ttl \in Ttls,
             RegisterClient(c, v, at, ttl)
      PROVE AllFit'
  <2>1. at + ttl \in Times
    BY <1>2, RegistryConstants DEF RegisterClient, Times
  <2>2. PICK row \in RegisteredClient(c, v, at + ttl) :
          clients' = [clients EXCEPT ![c] = row] /\ RefreshClientBindings(c, row)
    BY <1>2 DEF RegisterClient
  <2>3. row \in ClientRows
    BY <1>2, <2>1, <2>2, RegisteredTypes DEF RegisterClient
  <2>4. row.st = "live" /\ (clients[c].st = "live" => row.id = clients[c].id)
    <3>1. clients[c] \in ClientRows
      BY DEF TypeOK
    <3> DEFINE new == [st |-> "live",
                   id |-> IF clients[c].st = "none" THEN clients[c].id + 1 ELSE clients[c].id,
                   rev |-> clients[c].rev + 1, version |-> v, verified |-> WriteCapable(c, v),
                   expires |-> at + ttl, tomb |-> 0]
    <3>2. row = new \/ (row = clients[c] /\ new = [clients[c] EXCEPT !.rev = @ + 1])
      BY <2>2 DEF RegisteredClient
    <3>3. new.st = "live" /\ (clients[c].st = "live" => new.id = clients[c].id)
      OBVIOUS
    <3>4. [clients[c] EXCEPT !.rev = @ + 1].st = clients[c].st
      BY <3>1 DEF ClientRows
    <3> HIDE DEF new
    <3> QED BY <3>2, <3>3, <3>4
  <2> QED BY <1>2, <2>2, <2>3, <2>4, FitsRefreshed DEF RegisterClient
<1>3. ASSUME NEW w \in Workspaces, ForgetWorkspace(w) PROVE AllFit'
  <2> SUFFICES ASSUME NEW c \in Clients, NEW x \in Workspaces PROVE Fits(c, x)'
    BY DEF AllFit
  <2>1. CASE x = w
    <3>1. bindings'[c][w] = Tombstone(bindings[c][w]) /\ bindings[c][w] \in BindingRows
      BY <1>3 DEF ForgetWorkspace, TypeOK
    <3>2. bindings'[c][w].st # "live"
      BY <3>1 DEF Tombstone, TombstoneAt, BindingRows
    <3> QED BY <2>1, <3>2 DEF Fits
  <2>2. CASE x # w
    <3>1. workspaces'[x] = workspaces[x] /\ bindings'[c][x] = bindings[c][x]
          /\ clients'[c] = clients[c]
      BY <1>3, <2>2 DEF ForgetWorkspace, TypeOK
    <3> QED BY <1>a, <3>1, FitsUnchanged
  <2> QED BY <2>1, <2>2
<1>4. ASSUME NEW c \in Clients, DisconnectClient(c) PROVE AllFit'
  <2> SUFFICES ASSUME NEW d \in Clients, NEW w \in Workspaces PROVE Fits(d, w)'
    BY DEF AllFit
  <2>1. CASE d = c
    <3>1. bindings'[c][w] = Tombstone(bindings[c][w]) /\ bindings[c][w] \in BindingRows
      BY <1>4 DEF DisconnectClient, TypeOK
    <3>2. bindings'[c][w].st # "live"
      BY <3>1 DEF Tombstone, TombstoneAt, BindingRows
    <3> QED BY <2>1, <3>2 DEF Fits
  <2>2. CASE d # c
    <3>1. workspaces'[w] = workspaces[w] /\ bindings'[d][w] = bindings[d][w]
          /\ clients'[d] = clients[d]
      BY <1>4, <2>2 DEF DisconnectClient, TypeOK
    <3> QED BY <1>a, <3>1, FitsUnchanged
  <2> QED BY <2>1, <2>2
<1>5. ASSUME NEW c \in Clients, NEW w \in Workspaces, UnbindClientWorkspace(c, w) PROVE AllFit'
  <2> SUFFICES ASSUME NEW d \in Clients, NEW x \in Workspaces PROVE Fits(d, x)'
    BY DEF AllFit
  <2>0. workspaces' = workspaces /\ clients' = clients
    BY <1>5 DEF UnbindClientWorkspace
  <2>1. CASE d = c /\ x = w
    <3>1. bindings'[c][w] = Tombstone(bindings[c][w]) /\ bindings[c][w] \in BindingRows
      BY <1>5 DEF UnbindClientWorkspace, TypeOK
    <3>2. bindings'[c][w].st # "live"
      BY <3>1 DEF Tombstone, TombstoneAt, BindingRows
    <3> QED BY <2>1, <3>2 DEF Fits
  <2>2. CASE ~(d = c /\ x = w)
    <3>1. bindings'[d][x] = bindings[d][x]
      BY <1>5, <2>2 DEF UnbindClientWorkspace, TypeOK
    <3> QED BY <1>a, <2>0, <3>1, FitsUnchanged
  <2> QED BY <2>1, <2>2
<1>6. ASSUME NEW h \in Handlers, HeartbeatWrite(h) \/ BindRevalidate(h) PROVE AllFit'
  BY <1>6, FitsRevalidated DEF HeartbeatWrite, BindRevalidate
<1>7. ASSUME NEW h \in Handlers, BindWrite(h) PROVE AllFit'
  <2> SUFFICES ASSUME NEW d \in Clients, NEW x \in Workspaces PROVE Fits(d, x)'
    BY DEF AllFit
  <2>0. workspaces' = workspaces /\ clients' = clients
    BY <1>7 DEF BindWrite
  <2> DEFINE r == handler[h]
  <2>1. r.client \in Clients /\ r.workspace \in Workspaces
    <3>1. handler[h] \in Binds
      BY <1>7 DEF BindWrite, TypeOK, Requests, Idle, Heartbeats
    <3> QED BY <3>1 DEF Binds
  <2> DEFINE b == [st |-> "live", cid |-> r.id, wid |-> r.wid, mode |-> r.mode,
                   until |-> r.until, expires |-> clients[r.client].expires, tomb |-> 0]
  <2>2. bindings' = [bindings EXCEPT ![r.client][r.workspace] = b] /\ BindAllowed(r)
    BY <1>7 DEF BindWrite
  <2>3. CASE d = r.client /\ x = r.workspace
    <3>1. bindings'[d][x] = b
      BY <2>1, <2>2, <2>3 DEF TypeOK
    <3>2. /\ clients[r.client].st = "live" /\ clients[r.client].id = r.id
          /\ workspaces[r.workspace].st = "live" /\ workspaces[r.workspace].id = r.wid
          /\ r.mode = "read_write" => workspaces[r.workspace].trusted
      BY <2>2 DEF BindAllowed, ActiveClient, RegisteredWorkspace, MayHoldReadWrite
    <3>3. Anchored(d, x)' /\ bindings'[d][x].expires = clients'[d].expires
      BY <2>0, <2>3, <3>1, <3>2 DEF Anchored
    <3>4. bindings'[d][x].mode = "read_write" => workspaces'[x].trusted
      BY <2>0, <2>3, <3>1, <3>2
    <3> QED BY <3>3, <3>4 DEF Fits
  <2>4. CASE ~(d = r.client /\ x = r.workspace)
    <3> HIDE DEF r, b
    <3>1. bindings'[d][x] = bindings[d][x]
      BY <2>2, <2>4 DEF TypeOK
    <3> QED BY <1>a, <2>0, <3>1, FitsUnchanged
  <2> QED BY <2>3, <2>4
<1>8. ASSUME NEW at \in Times, NEW CW, NEW CC, NEW CP,
             NEW W \in SUBSET Workspaces, NEW C \in SUBSET Clients, NEW P,
             ApplyRetention(at, CW, CC, CP, W, C, P)
      PROVE AllFit'
  <2> SUFFICES ASSUME NEW c \in Clients, NEW w \in Workspaces PROVE Fits(c, w)'
    BY DEF AllFit
  <2>1. bindings'[c][w] = IF <<c, w>> \in P THEN TombstoneAt(bindings[c][w], at)
                                            ELSE bindings[c][w]
    BY <1>8 DEF ApplyRetention
  <2>2. bindings[c][w] \in BindingRows
    BY DEF TypeOK
  <2>3. CASE <<c, w>> \in P \/ bindings[c][w].st # "live"
    <3>1. bindings'[c][w].st # "live"
      BY <2>1, <2>2, <2>3 DEF TombstoneAt, BindingRows
    <3> QED BY <3>1 DEF Fits
  <2>4. CASE <<c, w>> \notin P /\ bindings[c][w].st = "live"
    <3>1. <<c, w>> \in LiveBindings
      BY <2>4 DEF LiveBindings
    <3>2. {p \in LiveBindings : p[1] \in C \/ p[2] \in W} \subseteq P
      BY <1>8 DEF ApplyRetention, RetentionOutcome
    <3>3. c \notin C /\ w \notin W
      BY <2>4, <3>1, <3>2
    <3>4. clients'[c] = clients[c] /\ workspaces'[w] = workspaces[w]
      BY <1>8, <3>3 DEF ApplyRetention
    <3> QED BY <1>a, <2>1, <2>4, <3>4, FitsUnchanged
  <2> QED BY <2>3, <2>4
<1>9. ASSUME NEW before \in Times, NEW W, NEW C, NEW P, NEW O,
             PurgeTombstones(before, W, C, P, O)
      PROVE AllFit'
  <2> SUFFICES ASSUME NEW c \in Clients, NEW w \in Workspaces PROVE Fits(c, w)'
    BY DEF AllFit
  <2>1. bindings'[c][w] = IF <<c, w>> \in P \/ w \in W THEN NoBinding ELSE bindings[c][w]
    BY <1>9 DEF PurgeTombstones
  <2>2. CASE <<c, w>> \in P \/ w \in W \/ bindings[c][w].st # "live"
    BY <2>1, <2>2 DEF Fits, NoBinding
  <2>3. CASE <<c, w>> \notin P /\ bindings[c][w].st = "live"
    <3>1. clients[c].st = "live" /\ workspaces[w].st = "live"
      BY <1>a, <2>3 DEF Fits, Anchored
    <3>2. c \notin C /\ w \notin W
      BY <1>9, <3>1 DEF PurgeTombstones, PurgeBatch, PurgeableClients, PurgeableWorkspaces
    <3>3. clients'[c] = clients[c] /\ workspaces'[w] = workspaces[w]
      BY <1>9, <3>2 DEF PurgeTombstones
    <3> QED BY <1>a, <2>1, <2>3, <3>2, <3>3, FitsUnchanged
  <2> QED BY <2>2, <2>3
<1>10. ASSUME NEW h \in Handlers, Serve(h) PROVE AllFit'
  <2>1. ASSUME NEW c \in Clients, NEW ttl \in Ttls, HeartbeatRead(h, c, ttl) PROVE AllFit'
    BY <1>b, <2>1 DEF HeartbeatRead, rows
  <2>2. ASSUME NEW c \in Clients, NEW w \in Workspaces, NEW mode \in Modes,
               NEW receipt \in receipts \cup {NoReceipt}, NEW step \in {"bind", "bind_revalidate"},
               BindRead(h, c, w, mode, receipt, step)
        PROVE AllFit'
    BY <1>b, <2>2 DEF BindRead, rows
  <2>3. CASE BindVerify(h)
    BY <1>b, <2>3 DEF BindVerify, rows
  <2>4. CASE RequestFails(h)
    BY <1>b, <2>4 DEF RequestFails, rows
  <2> QED BY <1>6, <1>7, <1>10, <2>1, <2>2, <2>3, <2>4 DEF Serve
<1>11. CASE Retention
  <2>1. PICK at \in Times, CW \in SUBSET LiveWorkspaces, CC \in SUBSET LiveClients,
             CP \in SUBSET LiveBindings :
          \E W \in SUBSET CW, C \in SUBSET CC, P \in SUBSET LiveBindings :
             ApplyRetention(at, CW, CC, CP, W, C, P)
    BY <1>11 DEF Retention
  <2>2. PICK W \in SUBSET CW, C \in SUBSET CC, P \in SUBSET LiveBindings :
          ApplyRetention(at, CW, CC, CP, W, C, P)
    BY <2>1
  <2>3. W \in SUBSET Workspaces /\ C \in SUBSET Clients
    BY DEF LiveWorkspaces, LiveClients
  <2> QED BY <1>8, <2>2, <2>3
<1>12. CASE Purge
  BY <1>9, <1>12 DEF Purge
<1>13. ASSUME NEW c \in Clients, NEW w \in Workspaces, NEW ttl \in ReceiptTtls,
              IssueReceipt(c, w, ttl)
       PROVE AllFit'
  BY <1>b, <1>13 DEF IssueReceipt, rows
<1>14. CASE Tick
  BY <1>b, <1>14 DEF Tick, rows
<1>15. ASSUME NEW v \in Versions, Restart(v) PROVE AllFit'
  BY <1>b, <1>15 DEF Restart, rows
<1>16. CASE UNCHANGED vars
  BY <1>b, <1>16 DEF vars
<1> QED BY <1>1, <1>2, <1>3, <1>4, <1>5, <1>10, <1>11, <1>12, <1>13, <1>14, <1>15, <1>16 DEF Next

\* No live binding ever outlives its client or workspace, is bound to an
\* earlier one of the same name, is read-write on an untrusted workspace, or
\* expires at another time than its client.
THEOREM BindingsFit ==
    Spec => [](LiveBindingAnchored /\ ReadWriteNeedsTrust /\ BindingExpiresWithClient)
<1>1. Init => AllFit
  BY DEF Init, AllFit, Fits, NoBinding
<1>2. TypeOK /\ AllFit /\ [Next]_vars => AllFit'
  BY FitsStep
<1>3. AllFit => LiveBindingAnchored /\ ReadWriteNeedsTrust /\ BindingExpiresWithClient
  BY FitsParts
<1> QED BY <1>1, <1>2, <1>3, TypeCorrect, PTL DEF Spec

-----------------------------------------------------------------------------
(* No lost registration *)

\* How a step may change a client row: not at all; a new id; the same id with a
\* greater revision; or the row is purged.
Moves(c) ==
    \/ clients'[c] = clients[c]
    \/ clients'[c].id > clients[c].id
    \/ /\ clients'[c].id = clients[c].id
       /\ \/ clients'[c].st = "none"
          \/ clients[c].st # "none" /\ clients'[c].rev > clients[c].rev

\* A row that is live after a step names the version of the last registration.
Declared(c) == clients[c].st = "live" => clients[c].version = declared[c]

\* What a request remembers of its client: ids and, for one id, revisions only
\* grow, so a row that still has the revision that was read still has the
\* version that was read.
RequestOk(h) ==
    handler[h].op \in {"heartbeat", "bind_revalidate"} =>
        /\ handler[h].id <= clients[handler[h].client].id
        /\ (clients[handler[h].client].id = handler[h].id
            /\ clients[handler[h].client].st # "none")
              => handler[h].rev <= clients[handler[h].client].rev
        /\ (/\ clients[handler[h].client].id = handler[h].id
            /\ clients[handler[h].client].st = "live"
            /\ clients[handler[h].client].rev = handler[h].rev)
              => clients[handler[h].client].version = handler[h].version

\* A pending request stays consistent with its client, whatever the row does.
LEMMA RequestMoves ==
    ASSUME TypeOK, TypeOK', NEW h \in Handlers, RequestOk(h), handler'[h] = handler[h],
           \A c \in Clients : Moves(c)
    PROVE RequestOk(h)'
<1> SUFFICES ASSUME handler[h].op \in {"heartbeat", "bind_revalidate"} PROVE RequestOk(h)'
  BY DEF RequestOk
<1> DEFINE r == handler[h]
<1>1. r.client \in Clients /\ r.id \in Nat /\ r.rev \in Nat
  BY DEF TypeOK, Requests, Idle, Heartbeats, Binds, Ids
<1> HIDE DEF r
<1> DEFINE old == clients[r.client]
           new == clients'[r.client]
<1>2. old.id \in Nat /\ old.rev \in Nat /\ new.id \in Nat /\ new.rev \in Nat
  BY <1>1 DEF TypeOK, ClientRows, Ids
<1>3. /\ r.id <= old.id
      /\ (old.id = r.id /\ old.st # "none") => r.rev <= old.rev
      /\ (old.id = r.id /\ old.st = "live" /\ old.rev = r.rev) => old.version = r.version
  BY DEF RequestOk, r
<1>4. \/ new = old
      \/ new.id > old.id
      \/ new.id = old.id /\ (new.st = "none" \/ (old.st # "none" /\ new.rev > old.rev))
  BY <1>1 DEF Moves
<1> HIDE DEF old, new
<1>5. /\ r.id <= new.id
      /\ (new.id = r.id /\ new.st # "none") => r.rev <= new.rev
      /\ (new.id = r.id /\ new.st = "live" /\ new.rev = r.rev) => new.version = r.version
  BY <1>1, <1>2, <1>3, <1>4
<1> QED BY <1>5 DEF RequestOk, r, new

\* A revalidation is a move to a greater revision that keeps the version.
LEMMA RevalidatedMoves ==
    ASSUME TypeOK, NEW h \in Handlers, RequestOk(h), \A c \in Clients : Declared(c),
           handler[h].op \in {"heartbeat", "bind_revalidate"}, RevisionHolds(h),
           Revalidated(h), declared' = declared
    PROVE \A c \in Clients : Moves(c) /\ Declared(c)'
<1> DEFINE r == handler[h]
<1>1. r.client \in Clients
  BY DEF TypeOK, Requests, Idle, Heartbeats, Binds
<1> DEFINE old == clients[r.client]
<1>2. old \in ClientRows /\ old.st = "live" /\ old.id = r.id /\ old.rev = r.rev
  BY <1>1 DEF TypeOK, RevisionHolds, ActiveClient
<1>3. r.version = old.version
  BY <1>2 DEF RequestOk
<1> DEFINE row == [old EXCEPT !.rev = old.rev + 1, !.version = r.version,
                     !.verified = WriteCapable(r.client, r.version), !.expires = r.expires]
<1>4. clients' = [clients EXCEPT ![r.client] = row]
  BY DEF Revalidated
<1>5. row.id = old.id /\ row.rev > old.rev /\ row.version = old.version /\ row.st = "live"
  BY <1>2, <1>3 DEF ClientRows
<1> HIDE DEF row
<1>6. ASSUME NEW c \in Clients PROVE Moves(c) /\ Declared(c)'
  <2>1. CASE c = r.client
    <3>1. clients'[c] = row
      BY <1>1, <1>4, <2>1 DEF TypeOK
    <3> QED BY <1>2, <1>5, <2>1, <3>1 DEF Moves, Declared
  <2>2. CASE c # r.client
    <3>1. clients'[c] = clients[c]
      BY <1>4, <2>2 DEF TypeOK
    <3> QED BY <3>1 DEF Moves, Declared
  <2> QED BY <2>1, <2>2
<1> QED BY <1>6

LEMMA RequestStep ==
    ASSUME TypeOK, \A h \in Handlers : RequestOk(h), \A c \in Clients : Declared(c), [Next]_vars
    PROVE (\A h \in Handlers : RequestOk(h)') /\ (\A c \in Clients : Declared(c)')
<1>a. TypeOK'
  BY TypeStep
<1>b. \A c \in Clients : clients[c] \in ClientRows /\ clients[c].id \in Nat /\ clients[c].rev \in Nat
  BY DEF TypeOK, ClientRows, Ids
<1> DEFINE Good == (\A h \in Handlers : RequestOk(h)') /\ (\A c \in Clients : Declared(c)')
<1>c. ASSUME handler' = handler, \A c \in Clients : Moves(c) /\ Declared(c)' PROVE Good
  BY <1>a, <1>c, RequestMoves
<1>d. ASSUME clients' = clients, declared' = declared, handler' = handler PROVE Good
  BY <1>d DEF RequestOk, Declared
<1>e. ASSUME NEW h \in Handlers, \A c \in Clients : Moves(c) /\ Declared(c)',
             \A g \in Handlers : g # h => handler'[g] = handler[g], RequestOk(h)'
      PROVE Good
  <2>1. ASSUME NEW g \in Handlers, g # h PROVE RequestOk(g)'
    BY <1>a, <1>e, <2>1, RequestMoves
  <2> QED BY <1>e, <2>1
<1>f. ASSUME clients' = clients, declared' = declared
      PROVE \A c \in Clients : Moves(c) /\ Declared(c)'
  BY <1>f DEF Moves, Declared
<1>1. ASSUME NEW w \in Workspaces, NEW trusted \in BOOLEAN, RegisterWorkspace(w, trusted)
      PROVE Good
  BY <1>1, <1>d DEF RegisterWorkspace
<1>2. ASSUME NEW c \in Clients, NEW v \in Versions, NEW at \in Times, NEW ttl \in Ttls,
             RegisterClient(c, v, at, ttl)
      PROVE Good
  <2>1. PICK row \in RegisteredClient(c, v, at + ttl) : clients' = [clients EXCEPT ![c] = row]
    BY <1>2 DEF RegisterClient
  <2> DEFINE old == clients[c]
             new == [st |-> "live", id |-> IF old.st = "none" THEN old.id + 1 ELSE old.id,
                     rev |-> old.rev + 1, version |-> v, verified |-> WriteCapable(c, v),
                     expires |-> at + ttl, tomb |-> 0]
  <2>2. row = new \/ (row = old /\ new = [old EXCEPT !.rev = @ + 1])
    BY <2>1 DEF RegisteredClient
  <2>3. old \in ClientRows /\ old.id \in Nat /\ old.rev \in Nat
    BY <1>b
  <2>4. [old EXCEPT !.rev = @ + 1].version = old.version
    BY <2>3 DEF ClientRows
  <2>5. new.version = v /\ new.rev = old.rev + 1
        /\ new.id = (IF old.st = "none" THEN old.id + 1 ELSE old.id)
    OBVIOUS
  <2> HIDE DEF new
  <2>6. row.version = v
    BY <2>2, <2>4, <2>5
  <2>7. \/ row = old
        \/ row.id > old.id
        \/ row.id = old.id /\ old.st # "none" /\ row.rev > old.rev
    BY <2>2, <2>3, <2>5
  <2>8. clients'[c] = row /\ declared'[c] = v
    BY <1>2, <2>1 DEF RegisterClient, TypeOK
  <2>9. ASSUME NEW d \in Clients PROVE Moves(d) /\ Declared(d)'
    <3>1. CASE d = c
      BY <2>6, <2>7, <2>8, <3>1 DEF Moves, Declared
    <3>2. CASE d # c
      <4>1. clients'[d] = clients[d] /\ declared'[d] = declared[d]
        BY <1>2, <2>1, <3>2 DEF RegisterClient, TypeOK
      <4> QED BY <4>1 DEF Moves, Declared
    <3> QED BY <3>1, <3>2
  <2> QED BY <1>2, <1>c, <2>9 DEF RegisterClient
<1>3. ASSUME NEW w \in Workspaces, ForgetWorkspace(w) PROVE Good
  BY <1>3, <1>d DEF ForgetWorkspace
<1>g. ASSUME NEW c \in Clients, NEW at, clients[c].st = "live",
             clients'[c] = TombstoneClientAt(clients[c], at)
      PROVE Moves(c) /\ Declared(c)'
  <2>1. clients'[c].st = "dead" /\ clients'[c].id = clients[c].id
        /\ clients'[c].rev = clients[c].rev + 1
    BY <1>g, <1>b DEF TombstoneClientAt, TombstoneAt, ClientRows
  <2> QED BY <1>b, <1>g, <2>1 DEF Moves, Declared
<1>4. ASSUME NEW c \in Clients, DisconnectClient(c) PROVE Good
  <2>1. ASSUME NEW d \in Clients PROVE Moves(d) /\ Declared(d)'
    <3>1. CASE d = c
      <4>1. clients'[c] = TombstoneClientAt(clients[c], now) /\ clients[c].st = "live"
        BY <1>4 DEF DisconnectClient, TypeOK
      <4> QED BY <1>g, <3>1, <4>1
    <3>2. CASE d # c
      <4>1. clients'[d] = clients[d] /\ declared'[d] = declared[d]
        BY <1>4, <3>2 DEF DisconnectClient, TypeOK
      <4> QED BY <4>1 DEF Moves, Declared
    <3> QED BY <3>1, <3>2
  <2> QED BY <1>4, <1>c, <2>1 DEF DisconnectClient
<1>5. ASSUME NEW c \in Clients, NEW w \in Workspaces, UnbindClientWorkspace(c, w) PROVE Good
  BY <1>5, <1>d DEF UnbindClientWorkspace
<1>6. ASSUME NEW h \in Handlers, NEW c \in Clients, NEW ttl \in Ttls, HeartbeatRead(h, c, ttl)
      PROVE Good
  <2>1. clients' = clients /\ declared' = declared
        /\ \A g \in Handlers : g # h => handler'[g] = handler[g]
    BY <1>6 DEF HeartbeatRead, rows, TypeOK
  <2>2. handler'[h] = [op |-> "heartbeat", client |-> c, id |-> clients[c].id,
                       rev |-> clients[c].rev, version |-> clients[c].version,
                       expires |-> now + ttl]
    BY <1>6 DEF HeartbeatRead, TypeOK
  <2>3. RequestOk(h)'
    BY <1>b, <2>1, <2>2 DEF RequestOk
  <2> QED BY <1>e, <1>f, <2>1, <2>3
<1>7. ASSUME NEW h \in Handlers, HeartbeatWrite(h) PROVE Good
  <2>1. \A c \in Clients : Moves(c) /\ Declared(c)'
    BY <1>7, RevalidatedMoves DEF HeartbeatWrite
  <2>2. handler'[h] = Idle /\ \A g \in Handlers : g # h => handler'[g] = handler[g]
    BY <1>7 DEF HeartbeatWrite, TypeOK
  <2>3. RequestOk(h)'
    BY <2>2 DEF RequestOk, Idle
  <2> QED BY <1>e, <2>1, <2>2, <2>3
<1>8. ASSUME NEW h \in Handlers, NEW c \in Clients, NEW w \in Workspaces, NEW mode \in Modes,
             NEW receipt \in receipts \cup {NoReceipt}, NEW step \in {"bind", "bind_revalidate"},
             BindRead(h, c, w, mode, receipt, step)
      PROVE Good
  <2>1. clients' = clients /\ declared' = declared
        /\ \A g \in Handlers : g # h => handler'[g] = handler[g]
    BY <1>8 DEF BindRead, rows, TypeOK
  <2>2. handler'[h].client = c /\ handler'[h].id = clients[c].id
        /\ handler'[h].rev = clients[c].rev /\ handler'[h].version = clients[c].version
    BY <1>8 DEF BindRead, TypeOK
  <2>3. RequestOk(h)'
    BY <1>b, <2>1, <2>2 DEF RequestOk
  <2> QED BY <1>e, <1>f, <2>1, <2>3
<1>9. ASSUME NEW h \in Handlers, BindRevalidate(h) PROVE Good
  <2>1. \A c \in Clients : Moves(c) /\ Declared(c)'
    BY <1>9, RevalidatedMoves DEF BindRevalidate
  <2>2. handler'[h].op = "bind" /\ \A g \in Handlers : g # h => handler'[g] = handler[g]
    <3>1. handler[h] \in Binds
      BY <1>9 DEF BindRevalidate, TypeOK, Requests, Idle, Heartbeats
    <3> QED BY <1>9, <3>1 DEF BindRevalidate, TypeOK, Binds
  <2>3. RequestOk(h)'
    BY <2>2 DEF RequestOk
  <2> QED BY <1>e, <2>1, <2>2, <2>3
<1>10. ASSUME NEW h \in Handlers, BindVerify(h) PROVE Good
  <2>1. clients' = clients /\ declared' = declared
        /\ \A g \in Handlers : g # h => handler'[g] = handler[g]
    BY <1>10 DEF BindVerify, rows, TypeOK
  <2>2. handler'[h].op = "bind"
    <3>1. handler[h] \in Binds
      BY <1>10 DEF BindVerify, TypeOK, Requests, Idle, Heartbeats
    <3> QED BY <1>10, <3>1 DEF BindVerify, TypeOK, Binds
  <2>3. RequestOk(h)'
    BY <2>2 DEF RequestOk
  <2> QED BY <1>e, <1>f, <2>1, <2>3
<1>11. ASSUME NEW h \in Handlers, BindWrite(h) \/ RequestFails(h) PROVE Good
  <2>1. clients' = clients /\ declared' = declared
        /\ \A g \in Handlers : g # h => handler'[g] = handler[g]
    BY <1>11 DEF BindWrite, RequestFails, rows, TypeOK
  <2>2. handler'[h] = Idle
    BY <1>11 DEF BindWrite, RequestFails, TypeOK
  <2>3. RequestOk(h)'
    BY <2>2 DEF RequestOk, Idle
  <2> QED BY <1>e, <1>f, <2>1, <2>3
<1>12. ASSUME NEW at \in Times, NEW CW, NEW CC \in SUBSET LiveClients, NEW CP,
              NEW W, NEW C \in SUBSET CC, NEW P, ApplyRetention(at, CW, CC, CP, W, C, P)
       PROVE Good
  <2>1. ASSUME NEW c \in Clients PROVE Moves(c) /\ Declared(c)'
    <3>1. CASE c \in C
      <4>1. clients'[c] = TombstoneClientAt(clients[c], at) /\ clients[c].st = "live"
        BY <1>12, <3>1 DEF ApplyRetention, LiveClients
      <4> QED BY <1>g, <4>1
    <3>2. CASE c \notin C
      <4>1. clients'[c] = clients[c] /\ declared'[c] = declared[c]
        BY <1>12, <3>2 DEF ApplyRetention
      <4> QED BY <4>1 DEF Moves, Declared
    <3> QED BY <3>1, <3>2
  <2> QED BY <1>12, <1>c, <2>1 DEF ApplyRetention
<1>13. ASSUME NEW before \in Times, NEW W, NEW C, NEW P, NEW O,
             PurgeTombstones(before, W, C, P, O)
       PROVE Good
  <2>1. ASSUME NEW c \in Clients PROVE Moves(c) /\ Declared(c)'
    <3>1. clients'[c] = clients[c] \/ (clients'[c].st = "none" /\ clients'[c].id = clients[c].id)
      BY <1>13 DEF PurgeTombstones, NoClient
    <3>2. declared'[c] = declared[c]
      BY <1>13 DEF PurgeTombstones
    <3> QED BY <3>1, <3>2 DEF Moves, Declared
  <2> QED BY <1>13, <1>c, <2>1 DEF PurgeTombstones
<1>14. ASSUME NEW h \in Handlers, Serve(h) PROVE Good
  <2> HIDE DEF Good
  <2> QED BY <1>6, <1>7, <1>8, <1>9, <1>10, <1>11, <1>14 DEF Serve
<1>15. ASSUME Retention PROVE Good
  <2> HIDE DEF Good
  <2> QED BY <1>12, <1>15 DEF Retention
<1>16. ASSUME Purge PROVE Good
  <2> HIDE DEF Good
  <2> QED BY <1>13, <1>16 DEF Purge
<1>17. ASSUME NEW c \in Clients, NEW w \in Workspaces, NEW ttl \in ReceiptTtls,
              IssueReceipt(c, w, ttl)
       PROVE Good
  BY <1>d, <1>17 DEF IssueReceipt, rows
<1>18. ASSUME Tick PROVE Good
  BY <1>d, <1>18 DEF Tick, rows
<1>19. ASSUME NEW v \in Versions, Restart(v) PROVE Good
  <2>1. clients' = clients /\ declared' = declared /\ \A h \in Handlers : handler'[h] = Idle
    BY <1>19 DEF Restart, rows
  <2> QED BY <2>1 DEF RequestOk, Declared, Idle
<1>20. ASSUME UNCHANGED vars PROVE Good
  BY <1>d, <1>20 DEF vars
<1> HIDE DEF Good
<1>21. Good
  BY <1>1, <1>2, <1>3, <1>4, <1>5, <1>14, <1>15, <1>16, <1>17, <1>18, <1>19, <1>20 DEF Next
<1> QED BY <1>21 DEF Good

\* A heartbeat or bind never brings an older registration of a client back.
THEOREM RegistrationKept == Spec => []NoLostRegistration
<1> DEFINE RInv == (\A h \in Handlers : RequestOk(h)) /\ (\A c \in Clients : Declared(c))
<1>1. Init => RInv
  BY DEF Init, RequestOk, Declared, Idle, NoClient
<1>2. TypeOK /\ RInv /\ [Next]_vars => RInv'
  BY RequestStep
<1>3. RInv => NoLostRegistration
  BY DEF Declared, NoLostRegistration
<1> HIDE DEF RInv
<1> QED BY <1>1, <1>2, <1>3, TypeCorrect, PTL DEF Spec

-----------------------------------------------------------------------------
(* Read-write access is justified when it is written *)

Justified(c, w) ==
    (/\ bindings'[c][w] # bindings[c][w]
     /\ bindings'[c][w].st = "live" /\ bindings'[c][w].mode = "read_write")
       => MayHoldReadWrite(workspaces[w].trusted, clients'[c].verified, bindings'[c][w].until)

\* A refresh keeps read-write access only where it may be held.
LEMMA JustifiedRefresh ==
    ASSUME TypeOK, NEW c \in Clients, NEW row \in ClientRows,
           clients' = [clients EXCEPT ![c] = row], RefreshClientBindings(c, row)
    PROVE \A d \in Clients, w \in Workspaces : Justified(d, w)
<1> SUFFICES ASSUME NEW d \in Clients, NEW w \in Workspaces PROVE Justified(d, w)
  OBVIOUS
<1>1. CASE d # c
  <2>1. bindings'[d][w] = bindings[d][w]
    BY <1>1 DEF RefreshClientBindings, TypeOK
  <2> QED BY <2>1 DEF Justified
<1>2. CASE d = c
  <2> DEFINE b == bindings[c][w]
  <2>1. clients'[c] = row /\ bindings'[c][w] = RefreshedBinding(b, w, row) /\ b \in BindingRows
    BY DEF RefreshClientBindings, TypeOK
  <2>2. CASE b.st # "live" \/ ~RegisteredWorkspace(w)
    <3>1. bindings'[c][w].st # "live"
      BY <2>1, <2>2 DEF RefreshedBinding, Tombstone, TombstoneAt, BindingRows
    <3> QED BY <1>2, <3>1 DEF Justified
  <2>3. CASE b.st = "live" /\ RegisteredWorkspace(w)
    <3> DEFINE m == IF MayHoldReadWrite(workspaces[w].trusted, row.verified, b.until)
                    THEN b.mode ELSE "read_only"
    <3>1. bindings'[c][w] = [b EXCEPT !.expires = row.expires, !.mode = m]
      BY <2>1, <2>3 DEF RefreshedBinding
    <3>2. m = "read_write" => MayHoldReadWrite(workspaces[w].trusted, row.verified, b.until)
      OBVIOUS
    <3> HIDE DEF m, b
    <3>3. bindings'[c][w].mode = m /\ bindings'[c][w].until = b.until
      BY <2>1, <3>1 DEF BindingRows
    <3> QED BY <1>2, <2>1, <3>2, <3>3 DEF Justified
  <2> QED BY <2>2, <2>3
<1> QED BY <1>1, <1>2

LEMMA JustifiedRevalidated ==
    ASSUME TypeOK, NEW h \in Handlers,
           handler[h].op \in {"heartbeat", "bind_revalidate"}, Revalidated(h)
    PROVE \A d \in Clients, w \in Workspaces : Justified(d, w)
<1> DEFINE r == handler[h]
           row == [clients[r.client] EXCEPT
                     !.rev = @ + 1, !.version = r.version,
                     !.verified = WriteCapable(r.client, r.version), !.expires = r.expires]
<1>1. r.client \in Clients
  BY DEF TypeOK, Requests, Idle, Heartbeats, Binds
<1>2. clients' = [clients EXCEPT ![r.client] = row] /\ RefreshClientBindings(r.client, row)
  BY DEF Revalidated
<1> HIDE DEF row, r
<1>3. row = clients'[r.client]
  BY <1>1, <1>2 DEF TypeOK
<1>4. row \in ClientRows
  BY <1>1, <1>3, RevalidatedTypes
<1> QED BY <1>1, <1>2, <1>4, JustifiedRefresh

LEMMA JustifiedStep ==
    ASSUME TypeOK, [Next]_vars
    PROVE \A d \in Clients, w \in Workspaces : Justified(d, w)
<1> DEFINE Good == \A d \in Clients, w \in Workspaces : Justified(d, w)
<1>a. ASSUME bindings' = bindings PROVE Good
  BY <1>a DEF Justified
<1>b. \A c \in Clients, w \in Workspaces : bindings[c][w] \in BindingRows
  BY DEF TypeOK
<1>c. ASSUME \A c \in Clients, w \in Workspaces :
                bindings'[c][w] = bindings[c][w] \/ bindings'[c][w].st # "live"
      PROVE Good
  BY <1>c DEF Justified
<1>d. \A c \in Clients, w \in Workspaces, at \in Times : TombstoneAt(bindings[c][w], at).st # "live"
  BY <1>b DEF TombstoneAt, BindingRows
<1>e. now \in Times
  BY DEF TypeOK
<1>1. ASSUME NEW w \in Workspaces, NEW trusted \in BOOLEAN, RegisterWorkspace(w, trusted)
      PROVE Good
  <2> SUFFICES ASSUME NEW c \in Clients, NEW x \in Workspaces PROVE Justified(c, x)
    OBVIOUS
  <2>1. bindings'[c][x] = bindings[c][x]
        \/ bindings'[c][x] = [bindings[c][x] EXCEPT !.mode = "read_only"]
    BY <1>1 DEF RegisterWorkspace, TypeOK
  <2>2. [bindings[c][x] EXCEPT !.mode = "read_only"].mode = "read_only"
    BY <1>b DEF BindingRows
  <2>3. bindings'[c][x] = bindings[c][x] \/ bindings'[c][x].mode # "read_write"
    BY <2>1, <2>2
  <2> QED BY <2>3 DEF Justified
<1>2. ASSUME NEW c \in Clients, NEW v \in Versions, NEW at \in Times, NEW ttl \in Ttls,
             RegisterClient(c, v, at, ttl)
      PROVE Good
  <2>1. at + ttl \in Times
    BY <1>2, RegistryConstants DEF RegisterClient, Times
  <2>2. PICK row \in RegisteredClient(c, v, at + ttl) :
          clients' = [clients EXCEPT ![c] = row] /\ RefreshClientBindings(c, row)
    BY <1>2 DEF RegisterClient
  <2>3. row \in ClientRows
    BY <1>2, <2>1, <2>2, RegisteredTypes DEF RegisterClient
  <2> QED BY <2>2, <2>3, JustifiedRefresh
<1>3. ASSUME NEW w \in Workspaces, ForgetWorkspace(w) PROVE Good
  <2>1. ASSUME NEW c \in Clients, NEW x \in Workspaces
        PROVE bindings'[c][x] = bindings[c][x] \/ bindings'[c][x].st # "live"
    <3>1. bindings'[c][x] = bindings[c][x] \/ bindings'[c][x] = TombstoneAt(bindings[c][x], now)
      BY <1>3 DEF ForgetWorkspace, Tombstone, TypeOK
    <3> QED BY <1>d, <1>e, <3>1
  <2> QED BY <1>c, <2>1
<1>4. ASSUME NEW c \in Clients, DisconnectClient(c) PROVE Good
  <2>1. ASSUME NEW d \in Clients, NEW x \in Workspaces
        PROVE bindings'[d][x] = bindings[d][x] \/ bindings'[d][x].st # "live"
    <3>1. bindings'[d][x] = bindings[d][x] \/ bindings'[d][x] = TombstoneAt(bindings[d][x], now)
      BY <1>4 DEF DisconnectClient, Tombstone, TypeOK
    <3> QED BY <1>d, <1>e, <3>1
  <2> QED BY <1>c, <2>1
<1>5. ASSUME NEW c \in Clients, NEW w \in Workspaces, UnbindClientWorkspace(c, w) PROVE Good
  <2>1. ASSUME NEW d \in Clients, NEW x \in Workspaces
        PROVE bindings'[d][x] = bindings[d][x] \/ bindings'[d][x].st # "live"
    <3>1. bindings'[d][x] = bindings[d][x] \/ bindings'[d][x] = TombstoneAt(bindings[d][x], now)
      BY <1>5 DEF UnbindClientWorkspace, Tombstone, TypeOK
    <3> QED BY <1>d, <1>e, <3>1
  <2> QED BY <1>c, <2>1
<1>6. ASSUME NEW h \in Handlers, HeartbeatWrite(h) \/ BindRevalidate(h) PROVE Good
  BY <1>6, JustifiedRevalidated DEF HeartbeatWrite, BindRevalidate
<1>7. ASSUME NEW h \in Handlers, BindWrite(h) PROVE Good
  <2> SUFFICES ASSUME NEW d \in Clients, NEW x \in Workspaces PROVE Justified(d, x)
    OBVIOUS
  <2> DEFINE r == handler[h]
             b == [st |-> "live", cid |-> r.id, wid |-> r.wid, mode |-> r.mode,
                   until |-> r.until, expires |-> clients[r.client].expires, tomb |-> 0]
  <2>1. bindings' = [bindings EXCEPT ![r.client][r.workspace] = b] /\ BindAllowed(r)
        /\ clients' = clients
    BY <1>7 DEF BindWrite
  <2>2. b.mode = r.mode /\ b.until = r.until
    OBVIOUS
  <2> HIDE DEF b, r
  <2>3. CASE d = r.client /\ x = r.workspace
    <3>1. bindings'[d][x] = b
      BY <2>1, <2>3 DEF TypeOK
    <3>2. r.mode = "read_write" =>
            MayHoldReadWrite(workspaces[x].trusted, clients'[d].verified, r.until)
      BY <2>1, <2>3 DEF BindAllowed
    <3> QED BY <2>2, <3>1, <3>2 DEF Justified
  <2>4. CASE ~(d = r.client /\ x = r.workspace)
    <3>1. bindings'[d][x] = bindings[d][x]
      BY <2>1, <2>4 DEF TypeOK
    <3> QED BY <3>1 DEF Justified
  <2> QED BY <2>3, <2>4
<1>8. ASSUME NEW h \in Handlers, Serve(h) PROVE Good
  <2>1. ASSUME NEW c \in Clients, NEW ttl \in Ttls, HeartbeatRead(h, c, ttl) PROVE Good
    BY <1>a, <2>1 DEF HeartbeatRead, rows
  <2>2. ASSUME NEW c \in Clients, NEW w \in Workspaces, NEW mode \in Modes,
               NEW receipt \in receipts \cup {NoReceipt}, NEW step \in {"bind", "bind_revalidate"},
               BindRead(h, c, w, mode, receipt, step)
        PROVE Good
    BY <1>a, <2>2 DEF BindRead, rows
  <2>3. ASSUME BindVerify(h) \/ RequestFails(h) PROVE Good
    BY <1>a, <2>3 DEF BindVerify, RequestFails, rows
  <2> HIDE DEF Good
  <2> QED BY <1>6, <1>7, <1>8, <2>1, <2>2, <2>3 DEF Serve
<1>9. ASSUME NEW at \in Times, NEW CW, NEW CC, NEW CP, NEW W, NEW C, NEW P,
             ApplyRetention(at, CW, CC, CP, W, C, P)
      PROVE Good
  <2>1. ASSUME NEW d \in Clients, NEW x \in Workspaces
        PROVE bindings'[d][x] = bindings[d][x] \/ bindings'[d][x].st # "live"
    BY <1>9, <1>d DEF ApplyRetention
  <2> QED BY <1>c, <2>1
<1>10. ASSUME NEW before \in Times, NEW W, NEW C, NEW P, NEW O,
             PurgeTombstones(before, W, C, P, O)
       PROVE Good
  <2>1. ASSUME NEW d \in Clients, NEW x \in Workspaces
        PROVE bindings'[d][x] = bindings[d][x] \/ bindings'[d][x].st # "live"
    BY <1>10 DEF PurgeTombstones, NoBinding
  <2> QED BY <1>c, <2>1
<1>11. ASSUME NEW c \in Clients, NEW w \in Workspaces, NEW ttl \in ReceiptTtls,
              IssueReceipt(c, w, ttl)
       PROVE Good
  BY <1>a, <1>11 DEF IssueReceipt, rows
<1>12. ASSUME Tick PROVE Good
  BY <1>a, <1>12 DEF Tick, rows
<1>13. ASSUME NEW v \in Versions, Restart(v) PROVE Good
  BY <1>a, <1>13 DEF Restart, rows
<1>14. ASSUME UNCHANGED vars PROVE Good
  BY <1>a, <1>14 DEF vars
<1> HIDE DEF Good
<1>15. ASSUME Retention PROVE Good
  BY <1>9, <1>15 DEF Retention
<1>16. ASSUME Purge PROVE Good
  BY <1>10, <1>16 DEF Purge
<1>17. Good
  BY <1>1, <1>2, <1>3, <1>4, <1>5, <1>8, <1>11, <1>12, <1>13, <1>14, <1>15, <1>16 DEF Next
<1> QED BY <1>17 DEF Good

\* Whatever a handler decided before it wrote, a binding is written read-write
\* only if it may be read-write at the moment of the write.
THEOREM WritesJustified == Spec => ReadWriteIsJustifiedWhenWritten
<1>1. TypeOK /\ [Next]_vars =>
        [\A c \in Clients, w \in Workspaces : Justified(c, w)]_vars
  BY JustifiedStep
<1> QED BY <1>1, TypeCorrect, PTL DEF Spec, ReadWriteIsJustifiedWhenWritten, Justified

-----------------------------------------------------------------------------
(* Purge.  A tombstoned binding still has both its parents, and was tombstoned *)
(* no later than a parent that is tombstoned too, but for the time a retention *)
(* command waits: a purge that reaches the parent takes the binding first, or *)
(* the binding is inside that lag.                                            *)

Buried(c, w) ==
    bindings[c][w].st = "dead" =>
        /\ clients[c].st # "none" /\ clients[c].id = bindings[c][w].cid
        /\ workspaces[w].st # "none" /\ workspaces[w].id = bindings[c][w].wid
        /\ clients[c].st = "dead" => bindings[c][w].tomb <= clients[c].tomb + QueueLag
        /\ workspaces[w].st = "dead" => bindings[c][w].tomb <= workspaces[w].tomb + QueueLag
        /\ bindings[c][w].tomb <= now
AllBuried == \A c \in Clients, w \in Workspaces : Buried(c, w)

\* The same for the binding of a workspace that was purged before it.
OrphanBuried(o) ==
    /\ clients[o.client].st # "none" /\ clients[o.client].id = o.row.cid
    /\ o.row.st = "dead" /\ o.gone < o.row.tomb /\ o.row.tomb <= o.gone + QueueLag
    /\ clients[o.client].st = "dead" => o.row.tomb <= clients[o.client].tomb + QueueLag
    /\ o.row.tomb <= now
OrphansBuried == \A o \in orphans : OrphanBuried(o)

\* What a step that purges nothing may do to a parent row and to a binding: leave
\* it, write it alive (an existing parent keeps its id), or tombstone it at a
\* clock that was read within the lag.
ParentMoves(old, new) ==
    \/ new.st = old.st /\ new.id = old.id /\ new.tomb = old.tomb
    \/ new.st = "live" /\ (old.st # "none" => new.id = old.id)
    \/ old.st = "live" /\ new.st = "dead" /\ new.id = old.id /\ now <= new.tomb + QueueLag
BindingMoves(old, new) ==
    \/ new.st = old.st /\ new.cid = old.cid /\ new.wid = old.wid /\ new.tomb = old.tomb
    \/ new.st = "live"
    \/ old.st = "live" /\ new.st = "dead" /\ new.cid = old.cid /\ new.wid = old.wid
       /\ new.tomb <= now
RowsMove(c, w) ==
    /\ ParentMoves(clients[c], clients'[c])
    /\ ParentMoves(workspaces[w], workspaces'[w])
    /\ BindingMoves(bindings[c][w], bindings'[c][w])
    /\ orphans' = orphans
    /\ now' >= now

\* Tombstoning at a clock within the lag is such a move.
LEMMA TombstoneMoves ==
    ASSUME NEW at \in Times, at <= now, now <= at + QueueLag
    PROVE /\ \A row \in WorkspaceRows : ParentMoves(row, TombstoneAt(row, at))
          /\ \A row \in ClientRows : ParentMoves(row, TombstoneAt(row, at))
          /\ \A row \in ClientRows : row.st = "live" => ParentMoves(row, TombstoneClientAt(row, at))
          /\ \A row \in BindingRows : BindingMoves(row, TombstoneAt(row, at))
<1>1. ASSUME NEW row \in WorkspaceRows PROVE ParentMoves(row, TombstoneAt(row, at))
  BY DEF TombstoneAt, ParentMoves, WorkspaceRows
<1>2. ASSUME NEW row \in ClientRows PROVE ParentMoves(row, TombstoneAt(row, at))
  BY DEF TombstoneAt, ParentMoves, ClientRows
<1>3. ASSUME NEW row \in ClientRows, row.st = "live"
      PROVE ParentMoves(row, TombstoneClientAt(row, at))
  BY <1>3 DEF TombstoneAt, TombstoneClientAt, ParentMoves, ClientRows
<1>4. ASSUME NEW row \in BindingRows PROVE BindingMoves(row, TombstoneAt(row, at))
  BY DEF TombstoneAt, BindingMoves, BindingRows
<1> QED BY <1>1, <1>2, <1>3, <1>4

\* The writer's own clock is one.
LEMMA TombstoneNowMoves ==
    ASSUME TypeOK
    PROVE /\ \A row \in WorkspaceRows : ParentMoves(row, TombstoneAt(row, now))
          /\ \A row \in ClientRows : ParentMoves(row, TombstoneAt(row, now))
          /\ \A row \in ClientRows : row.st = "live" => ParentMoves(row, TombstoneClientAt(row, now))
          /\ \A row \in BindingRows : BindingMoves(row, TombstoneAt(row, now))
<1>1. now \in Times /\ now <= now /\ now <= now + QueueLag
  BY RegistryConstants DEF TypeOK, Times
<1> QED BY <1>1, TombstoneMoves

\* Such moves keep a tombstoned binding with its parents.
LEMMA BuriedMoves ==
    ASSUME TypeOK, TypeOK', NEW c \in Clients, NEW w \in Workspaces, Fits(c, w), Buried(c, w),
           RowsMove(c, w)
    PROVE Buried(c, w)'
<1> DEFINE b == bindings[c][w]
<1>0. now \in Nat /\ now' \in Nat /\ b.tomb \in Nat /\ clients[c].tomb \in Nat
      /\ workspaces[w].tomb \in Nat /\ QueueLag \in Nat
      /\ clients'[c].tomb \in Nat /\ workspaces'[w].tomb \in Nat /\ bindings'[c][w].tomb \in Nat
  BY RegistryConstants DEF TypeOK, Times, BindingRows, ClientRows, WorkspaceRows
<1> SUFFICES ASSUME bindings'[c][w].st = "dead" PROVE Buried(c, w)'
  BY DEF Buried
<1>1. CASE bindings'[c][w].st = b.st /\ bindings'[c][w].cid = b.cid
           /\ bindings'[c][w].wid = b.wid /\ bindings'[c][w].tomb = b.tomb
  <2>1. /\ clients[c].st # "none" /\ clients[c].id = b.cid
        /\ workspaces[w].st # "none" /\ workspaces[w].id = b.wid
        /\ clients[c].st = "dead" => b.tomb <= clients[c].tomb + QueueLag
        /\ workspaces[w].st = "dead" => b.tomb <= workspaces[w].tomb + QueueLag
        /\ b.tomb <= now
    BY <1>1 DEF Buried
  <2>2. /\ clients'[c].st # "none" /\ clients'[c].id = b.cid
        /\ clients'[c].st = "dead" => b.tomb <= clients'[c].tomb + QueueLag
    BY <1>0, <2>1 DEF RowsMove, ParentMoves
  <2>3. /\ workspaces'[w].st # "none" /\ workspaces'[w].id = b.wid
        /\ workspaces'[w].st = "dead" => b.tomb <= workspaces'[w].tomb + QueueLag
    BY <1>0, <2>1 DEF RowsMove, ParentMoves
  <2>4. b.tomb <= now'
    BY <1>0, <2>1 DEF RowsMove
  <2> QED BY <1>1, <2>2, <2>3, <2>4 DEF Buried
<1>2. CASE b.st = "live" /\ bindings'[c][w].cid = b.cid /\ bindings'[c][w].wid = b.wid
           /\ bindings'[c][w].tomb <= now
  <2>1. /\ clients[c].st = "live" /\ clients[c].id = b.cid
        /\ workspaces[w].st = "live" /\ workspaces[w].id = b.wid
    BY <1>2 DEF Fits, Anchored
  <2>2. /\ clients'[c].st # "none" /\ clients'[c].id = b.cid
        /\ clients'[c].st = "dead" => now <= clients'[c].tomb + QueueLag
    BY <1>0, <2>1 DEF RowsMove, ParentMoves
  <2>3. /\ workspaces'[w].st # "none" /\ workspaces'[w].id = b.wid
        /\ workspaces'[w].st = "dead" => now <= workspaces'[w].tomb + QueueLag
    BY <1>0, <2>1 DEF RowsMove, ParentMoves
  <2>4. bindings'[c][w].tomb <= now'
    BY <1>0, <1>2 DEF RowsMove
  <2>5. /\ clients'[c].st = "dead" => bindings'[c][w].tomb <= clients'[c].tomb + QueueLag
        /\ workspaces'[w].st = "dead" => bindings'[c][w].tomb <= workspaces'[w].tomb + QueueLag
    BY <1>0, <1>2, <2>2, <2>3
  <2> QED BY <1>2, <2>2, <2>3, <2>4, <2>5 DEF Buried
<1> QED BY <1>1, <1>2 DEF RowsMove, BindingMoves

\* They keep the orphans with their clients, too.
LEMMA OrphanMoves ==
    ASSUME TypeOK, TypeOK', NEW o \in orphans, OrphanBuried(o),
           RowsMove(o.client, o.workspace)
    PROVE OrphanBuried(o)'
<1>0. /\ o.client \in Clients /\ o.row.tomb \in Nat /\ o.gone \in Nat /\ QueueLag \in Nat
      /\ now \in Nat /\ now' \in Nat
      /\ clients[o.client].tomb \in Nat /\ clients'[o.client].tomb \in Nat
  BY RegistryConstants DEF TypeOK, Times, Orphans, BindingRows, ClientRows
<1>1. /\ clients[o.client].st # "none" /\ clients[o.client].id = o.row.cid
      /\ clients[o.client].st = "dead" => o.row.tomb <= clients[o.client].tomb + QueueLag
      /\ o.row.tomb <= now
  BY DEF OrphanBuried
<1>2. /\ clients'[o.client].st # "none" /\ clients'[o.client].id = o.row.cid
      /\ clients'[o.client].st = "dead" => o.row.tomb <= clients'[o.client].tomb + QueueLag
  BY <1>0, <1>1 DEF RowsMove, ParentMoves
<1>3. o.row.tomb <= now'
  BY <1>0, <1>1 DEF RowsMove
<1> QED BY <1>2, <1>3 DEF OrphanBuried

\* The refresh of a client's bindings moves them.
LEMMA RefreshMoves ==
    ASSUME TypeOK, NEW c \in Clients, NEW row \in ClientRows, RefreshClientBindings(c, row),
           NEW d \in Clients, NEW w \in Workspaces
    PROVE BindingMoves(bindings[d][w], bindings'[d][w])
<1> DEFINE b == bindings[d][w]
<1>1. b \in BindingRows
  BY DEF TypeOK
<1>2. CASE d # c
  BY <1>2 DEF RefreshClientBindings, TypeOK, BindingMoves
<1>3. CASE d = c
  <2>1. bindings'[d][w] = RefreshedBinding(b, w, row)
    BY <1>3 DEF RefreshClientBindings, TypeOK
  <2>2. CASE b.st # "live"
    BY <2>1, <2>2 DEF RefreshedBinding, BindingMoves
  <2>3. CASE b.st = "live" /\ ~RegisteredWorkspace(w)
    BY <1>1, <2>1, <2>3, TombstoneNowMoves DEF RefreshedBinding, Tombstone
  <2>4. CASE b.st = "live" /\ RegisteredWorkspace(w)
    <3> DEFINE m == IF MayHoldReadWrite(workspaces[w].trusted, row.verified, b.until)
                    THEN b.mode ELSE "read_only"
    <3>1. bindings'[d][w] = [b EXCEPT !.expires = row.expires, !.mode = m]
      BY <2>1, <2>4 DEF RefreshedBinding
    <3> HIDE DEF m, b
    <3>2. bindings'[d][w].st = "live"
      BY <1>1, <2>4, <3>1 DEF BindingRows
    <3> QED BY <3>2 DEF BindingMoves
  <2> QED BY <2>2, <2>3, <2>4
<1> QED BY <1>2, <1>3

\* A revalidation writes the client row alive under its id and moves its bindings.
LEMMA RevalidatedRows ==
    ASSUME TypeOK, NEW h \in Handlers,
           handler[h].op \in {"heartbeat", "bind_revalidate"}, RevisionHolds(h), Revalidated(h),
           NEW d \in Clients, NEW w \in Workspaces
    PROVE /\ ParentMoves(clients[d], clients'[d])
          /\ BindingMoves(bindings[d][w], bindings'[d][w])
<1> DEFINE r == handler[h]
<1>1. r.client \in Clients
  BY DEF TypeOK, Requests, Idle, Heartbeats, Binds
<1> DEFINE old == clients[r.client]
<1>2. old \in ClientRows /\ old.st = "live"
  BY <1>1 DEF TypeOK, RevisionHolds, ActiveClient
<1> DEFINE row == [old EXCEPT !.rev = old.rev + 1, !.version = r.version,
                     !.verified = WriteCapable(r.client, r.version), !.expires = r.expires]
<1>3. clients' = [clients EXCEPT ![r.client] = row] /\ RefreshClientBindings(r.client, row)
  BY DEF Revalidated
<1>4. row = clients'[r.client]
  BY <1>1, <1>3 DEF TypeOK
<1>5. row \in ClientRows
  BY <1>1, <1>4, RevalidatedTypes
<1>6. row.st = "live" /\ row.id = old.id
  BY <1>2 DEF ClientRows
<1> HIDE DEF row, r
<1>7. BindingMoves(bindings[d][w], bindings'[d][w])
  BY <1>1, <1>3, <1>5, RefreshMoves
<1>8. ParentMoves(clients[d], clients'[d])
  BY <1>1, <1>3, <1>6 DEF ParentMoves, TypeOK
<1> QED BY <1>7, <1>8

\* Every step that purges nothing moves rows this way.
LEMMA MovesStep ==
    ASSUME TypeOK, [Next]_vars, ~Purge, NEW d \in Clients, NEW x \in Workspaces
    PROVE RowsMove(d, x)
<1>0. now \in Nat /\ now' >= now
  <2>1. now \in Nat
    BY RegistryConstants DEF TypeOK, Times
  <2>2. ASSUME NEW h \in Handlers, Serve(h) PROVE now' = now
    <3>1. /\ \A c \in Clients, ttl \in Ttls : HeartbeatRead(h, c, ttl) => now' = now
          /\ \A c \in Clients, w \in Workspaces, mode \in Modes, r \in receipts \cup {NoReceipt},
                step \in {"bind", "bind_revalidate"} :
                   BindRead(h, c, w, mode, r, step) => now' = now
      BY DEF HeartbeatRead, BindRead
    <3>2. HeartbeatWrite(h) \/ BindRevalidate(h) \/ BindVerify(h) \/ BindWrite(h)
          \/ RequestFails(h) => now' = now
      BY DEF HeartbeatWrite, BindRevalidate, BindVerify, BindWrite, RequestFails
    <3> QED BY <2>2, <3>1, <3>2 DEF Serve
  <2>3. ASSUME Retention PROVE now' = now
    <3>1. \A at, CW, CC, CP, W, C, P : ApplyRetention(at, CW, CC, CP, W, C, P) => now' = now
      BY DEF ApplyRetention
    <3> QED BY <2>3, <3>1 DEF Retention
  <2>5. ASSUME \/ \E w \in Workspaces, trusted \in BOOLEAN : RegisterWorkspace(w, trusted)
               \/ \E c \in Clients, v \in Versions, at \in Times, ttl \in Ttls :
                     RegisterClient(c, v, at, ttl)
               \/ \E w \in Workspaces : ForgetWorkspace(w)
               \/ \E c \in Clients : DisconnectClient(c)
               \/ \E c \in Clients, w \in Workspaces : UnbindClientWorkspace(c, w)
               \/ \E c \in Clients, w \in Workspaces, ttl \in ReceiptTtls : IssueReceipt(c, w, ttl)
               \/ \E v \in Versions : Restart(v)
               \/ UNCHANGED vars
        PROVE now' = now
    BY <2>5, Zenon DEF RegisterWorkspace, RegisterClient, ForgetWorkspace, DisconnectClient,
           UnbindClientWorkspace, IssueReceipt, Restart, vars
  <2>6. now' = now \/ now' = now + 1
    BY <2>2, <2>3, <2>5 DEF Next, Tick
  <2> QED BY <2>1, <2>6
<1>a. clients[d] \in ClientRows /\ workspaces[x] \in WorkspaceRows /\ bindings[d][x] \in BindingRows
  BY DEF TypeOK
<1>b. ASSUME clients'[d] = clients[d] PROVE ParentMoves(clients[d], clients'[d])
  BY <1>b DEF ParentMoves
<1>c. ASSUME workspaces'[x] = workspaces[x] PROVE ParentMoves(workspaces[x], workspaces'[x])
  BY <1>c DEF ParentMoves
<1>d. ASSUME bindings'[d][x] = bindings[d][x] PROVE BindingMoves(bindings[d][x], bindings'[d][x])
  BY <1>d DEF BindingMoves
<1>f. orphans' = orphans
  <2>1. ASSUME NEW h \in Handlers, Serve(h) PROVE orphans' = orphans
    <3>1. /\ \A c \in Clients, ttl \in Ttls : HeartbeatRead(h, c, ttl) => orphans' = orphans
          /\ \A c \in Clients, w \in Workspaces, mode \in Modes, r \in receipts \cup {NoReceipt},
                step \in {"bind", "bind_revalidate"} :
                   BindRead(h, c, w, mode, r, step) => orphans' = orphans
      BY DEF HeartbeatRead, BindRead, rows
    <3>2. HeartbeatWrite(h) \/ BindRevalidate(h) \/ BindVerify(h) \/ BindWrite(h)
          \/ RequestFails(h) => orphans' = orphans
      BY DEF HeartbeatWrite, BindRevalidate, BindVerify, BindWrite, RequestFails, rows
    <3> QED BY <2>1, <3>1, <3>2 DEF Serve
  <2>2. ASSUME Retention PROVE orphans' = orphans
    <3>1. \A at, CW, CC, CP, W, C, P : ApplyRetention(at, CW, CC, CP, W, C, P) => orphans' = orphans
      BY DEF ApplyRetention
    <3> QED BY <2>2, <3>1 DEF Retention
  <2>3. ASSUME \/ \E w \in Workspaces, trusted \in BOOLEAN : RegisterWorkspace(w, trusted)
               \/ \E c \in Clients, v \in Versions, at \in Times, ttl \in Ttls :
                     RegisterClient(c, v, at, ttl)
               \/ \E w \in Workspaces : ForgetWorkspace(w)
               \/ \E c \in Clients : DisconnectClient(c)
               \/ \E c \in Clients, w \in Workspaces : UnbindClientWorkspace(c, w)
               \/ \E c \in Clients, w \in Workspaces, ttl \in ReceiptTtls : IssueReceipt(c, w, ttl)
               \/ Tick
               \/ \E v \in Versions : Restart(v)
               \/ UNCHANGED vars
        PROVE orphans' = orphans
    BY <2>3, Zenon DEF RegisterWorkspace, RegisterClient, ForgetWorkspace, DisconnectClient,
           UnbindClientWorkspace, IssueReceipt, Tick, Restart, vars, rows
  <2> QED BY <2>1, <2>2, <2>3 DEF Next
<1>e. ASSUME UNCHANGED <<clients, workspaces, bindings>> PROVE RowsMove(d, x)
  BY <1>0, <1>b, <1>c, <1>d, <1>e, <1>f DEF RowsMove
<1>1. ASSUME NEW w \in Workspaces, NEW trusted \in BOOLEAN, RegisterWorkspace(w, trusted)
      PROVE RowsMove(d, x)
  <2>1. ParentMoves(workspaces[x], workspaces'[x])
    BY <1>1, <1>c DEF RegisterWorkspace, ParentMoves, TypeOK
  <2>2. bindings'[d][x] = bindings[d][x]
        \/ (bindings[d][x].st = "live" /\ bindings'[d][x] = [bindings[d][x] EXCEPT !.mode = "read_only"])
    BY <1>1 DEF RegisterWorkspace, TypeOK
  <2>3. BindingMoves(bindings[d][x], bindings'[d][x])
    BY <1>a, <2>2 DEF BindingMoves, BindingRows
  <2> QED BY <1>0, <1>f, <1>1, <1>b, <2>1, <2>3 DEF RegisterWorkspace, RowsMove
<1>2. ASSUME NEW c \in Clients, NEW v \in Versions, NEW at \in Times, NEW ttl \in Ttls,
             RegisterClient(c, v, at, ttl)
      PROVE RowsMove(d, x)
  <2>1. at + ttl \in Times
    BY <1>2, RegistryConstants DEF RegisterClient, Times
  <2>2. PICK row \in RegisteredClient(c, v, at + ttl) :
          clients' = [clients EXCEPT ![c] = row] /\ RefreshClientBindings(c, row)
    BY <1>2 DEF RegisterClient
  <2>3. row \in ClientRows
    BY <1>2, <2>1, <2>2, RegisteredTypes DEF RegisterClient
  <2>4. row = clients[c] \/ (row.st = "live" /\ (clients[c].st # "none" => row.id = clients[c].id))
    BY <2>2 DEF RegisteredClient
  <2>5. ParentMoves(clients[d], clients'[d])
    BY <2>2, <2>4 DEF ParentMoves, TypeOK
  <2>6. BindingMoves(bindings[d][x], bindings'[d][x])
    BY <2>2, <2>3, RefreshMoves
  <2> QED BY <1>0, <1>f, <1>2, <1>c, <2>5, <2>6 DEF RegisterClient, RowsMove
<1>3. ASSUME NEW w \in Workspaces, ForgetWorkspace(w) PROVE RowsMove(d, x)
  <2>1. ParentMoves(workspaces[x], workspaces'[x])
    BY <1>3, <1>a, <1>c, TombstoneNowMoves DEF ForgetWorkspace, Tombstone, TypeOK
  <2>2. BindingMoves(bindings[d][x], bindings'[d][x])
    <3>1. bindings'[d][x] = IF x = w THEN Tombstone(bindings[d][x]) ELSE bindings[d][x]
      BY <1>3 DEF ForgetWorkspace, TypeOK
    <3> QED BY <3>1, <1>a, <1>d, TombstoneNowMoves DEF Tombstone
  <2> QED BY <1>0, <1>f, <1>3, <1>b, <2>1, <2>2 DEF ForgetWorkspace, RowsMove
<1>4. ASSUME NEW c \in Clients, DisconnectClient(c) PROVE RowsMove(d, x)
  <2>1. ParentMoves(clients[d], clients'[d])
    <3>1. clients'[d] = IF d = c THEN TombstoneClientAt(clients[d], now) ELSE clients[d]
      BY <1>4 DEF DisconnectClient, TypeOK
    <3> QED BY <1>4, <3>1, <1>a, <1>b, TombstoneNowMoves DEF DisconnectClient
  <2>2. BindingMoves(bindings[d][x], bindings'[d][x])
    <3>1. bindings'[d][x] = IF d = c THEN Tombstone(bindings[d][x]) ELSE bindings[d][x]
      BY <1>4 DEF DisconnectClient, TypeOK
    <3> QED BY <3>1, <1>a, <1>d, TombstoneNowMoves DEF Tombstone
  <2> QED BY <1>0, <1>f, <1>4, <1>c, <2>1, <2>2 DEF DisconnectClient, RowsMove
<1>5. ASSUME NEW c \in Clients, NEW w \in Workspaces, UnbindClientWorkspace(c, w)
      PROVE RowsMove(d, x)
  <2>1. bindings'[d][x] = bindings[d][x] \/ bindings'[d][x] = Tombstone(bindings[d][x])
    BY <1>5 DEF UnbindClientWorkspace, TypeOK
  <2>2. BindingMoves(bindings[d][x], bindings'[d][x])
    BY <2>1, <1>a, <1>d, TombstoneNowMoves DEF Tombstone
  <2> QED BY <1>0, <1>f, <1>5, <1>b, <1>c, <2>2 DEF UnbindClientWorkspace, RowsMove
<1>6. ASSUME NEW h \in Handlers, HeartbeatWrite(h) \/ BindRevalidate(h) PROVE RowsMove(d, x)
  <2>1. /\ handler[h].op \in {"heartbeat", "bind_revalidate"}
        /\ RevisionHolds(h) /\ Revalidated(h) /\ workspaces' = workspaces
    BY <1>6 DEF HeartbeatWrite, BindRevalidate
  <2> QED BY <1>0, <1>f, <1>c, <2>1, RevalidatedRows DEF RowsMove
<1>7. ASSUME NEW h \in Handlers, BindWrite(h) PROVE RowsMove(d, x)
  <2> DEFINE r == handler[h]
  <2>1. bindings'[d][x] = bindings[d][x] \/ bindings'[d][x].st = "live"
    <3> DEFINE b == [st |-> "live", cid |-> r.id, wid |-> r.wid, mode |-> r.mode, until |-> r.until,
                     expires |-> clients[r.client].expires, tomb |-> 0]
    <3>1. bindings' = [bindings EXCEPT ![r.client][r.workspace] = b] /\ b.st = "live"
      BY <1>7 DEF BindWrite
    <3> HIDE DEF b, r
    <3> QED BY <3>1 DEF TypeOK
  <2>2. BindingMoves(bindings[d][x], bindings'[d][x])
    BY <2>1, <1>d DEF BindingMoves
  <2> QED BY <1>0, <1>f, <1>7, <1>b, <1>c, <2>2 DEF BindWrite, RowsMove
<1>8. ASSUME NEW at \in Times, NEW CW, NEW CC, NEW CP,
             NEW W \in SUBSET LiveWorkspaces, NEW C \in SUBSET LiveClients, NEW P,
             ApplyRetention(at, CW, CC, CP, W, C, P)
      PROVE RowsMove(d, x)
  <2>1. at <= now /\ now <= at + QueueLag
    BY <1>8 DEF ApplyRetention
  <2>2. ParentMoves(workspaces[x], workspaces'[x])
    <3>1. workspaces'[x] = workspaces[x] \/ workspaces'[x] = TombstoneAt(workspaces[x], at)
      BY <1>8 DEF ApplyRetention
    <3> QED BY <2>1, <3>1, <1>a, <1>c, TombstoneMoves
  <2>3. ParentMoves(clients[d], clients'[d])
    <3>1. clients'[d] = IF d \in C THEN TombstoneClientAt(clients[d], at) ELSE clients[d]
      BY <1>8 DEF ApplyRetention
    <3> QED BY <2>1, <3>1, <1>a, <1>b, TombstoneMoves DEF LiveClients
  <2>4. BindingMoves(bindings[d][x], bindings'[d][x])
    <3>1. bindings'[d][x] = bindings[d][x] \/ bindings'[d][x] = TombstoneAt(bindings[d][x], at)
      BY <1>8 DEF ApplyRetention
    <3> QED BY <2>1, <3>1, <1>a, <1>d, TombstoneMoves
  <2> QED BY <1>0, <1>f, <2>2, <2>3, <2>4 DEF RowsMove
<1>9. ASSUME NEW h \in Handlers, Serve(h) PROVE RowsMove(d, x)
  BY <1>e, <1>6, <1>7, <1>9
  DEF Serve, HeartbeatRead, BindRead, BindVerify, RequestFails, rows
<1>10. CASE Retention
  <2>1. PICK at \in Times, CW \in SUBSET LiveWorkspaces, CC \in SUBSET LiveClients,
             CP \in SUBSET LiveBindings :
          \E W \in SUBSET CW, C \in SUBSET CC, P \in SUBSET LiveBindings :
             ApplyRetention(at, CW, CC, CP, W, C, P)
    BY <1>10 DEF Retention
  <2>2. PICK W \in SUBSET CW, C \in SUBSET CC, P \in SUBSET LiveBindings :
          ApplyRetention(at, CW, CC, CP, W, C, P)
    BY <2>1
  <2> QED BY <1>8, <2>2
<1>11. ASSUME \/ \E c \in Clients, w \in Workspaces, ttl \in ReceiptTtls : IssueReceipt(c, w, ttl)
              \/ Tick
              \/ \E v \in Versions : Restart(v)
              \/ UNCHANGED vars
       PROVE RowsMove(d, x)
  BY <1>e, <1>11 DEF IssueReceipt, Tick, Restart, vars, rows
<1> QED BY <1>1, <1>2, <1>3, <1>4, <1>5, <1>9, <1>10, <1>11 DEF Next

\* What a purge that takes a parent leaves: bindings inside the lag of a retention
\* command.
LEMMA PurgeLeaves ==
    ASSUME TypeOK, AllFit, AllBuried, NEW before \in Times, NEW W, NEW C, NEW P, NEW O,
           PurgeBatch(before, W, C, P, O), NEW c \in Clients, NEW w \in Workspaces,
           c \in C \/ w \in W, bindings[c][w].st # "none", <<c, w>> \notin P
    PROVE /\ bindings[c][w].st = "dead" /\ before < bindings[c][w].tomb
          /\ c \in C => bindings[c][w].tomb <= clients[c].tomb + QueueLag
          /\ w \in W => bindings[c][w].tomb <= workspaces[w].tomb + QueueLag
<1>0. /\ before \in Nat /\ bindings[c][w] \in BindingRows
      /\ bindings[c][w].tomb \in Nat
  BY RegistryConstants DEF TypeOK, Times, BindingRows
<1>1. P = PurgeableBindings(before)
  BY DEF PurgeBatch
<1>2. (c \in C => clients[c].st = "dead") /\ (w \in W => workspaces[w].st = "dead")
  BY DEF PurgeBatch, PurgeableClients, PurgeableWorkspaces
<1>3. bindings[c][w].st # "live"
  BY <1>2 DEF AllFit, Fits, Anchored
<1>4. bindings[c][w].st = "dead"
  BY <1>0, <1>3 DEF BindingRows, Status
<1>5. before < bindings[c][w].tomb
  BY <1>0, <1>1, <1>4 DEF PurgeableBindings
<1> QED BY <1>2, <1>4, <1>5 DEF AllBuried, Buried

\* A purge leaves the bindings that stay with their parents.
LEMMA BuriedPurge ==
    ASSUME TypeOK, AllBuried, NEW before \in Times, NEW W, NEW C, NEW P, NEW O,
           PurgeTombstones(before, W, C, P, O), NEW c \in Clients, NEW w \in Workspaces
    PROVE Buried(c, w)'
<1> SUFFICES ASSUME bindings'[c][w].st = "dead" PROVE Buried(c, w)'
  BY DEF Buried
<1>1. bindings'[c][w] = IF <<c, w>> \in P \/ w \in W THEN NoBinding ELSE bindings[c][w]
  BY DEF PurgeTombstones
<1>2. <<c, w>> \notin P /\ w \notin W /\ bindings'[c][w] = bindings[c][w]
  BY <1>1 DEF NoBinding
<1>3. c \notin C
  BY <1>2 DEF PurgeTombstones, ForeignKeysHold
<1>4. clients'[c] = clients[c] /\ workspaces'[w] = workspaces[w] /\ now' = now
  BY <1>2, <1>3 DEF PurgeTombstones
<1> QED BY <1>2, <1>4 DEF AllBuried, Buried

\* The bindings that lose their workspace to a purge are inside the lag.
LEMMA OrphansPurge ==
    ASSUME TypeOK, AllFit, AllBuried, OrphansBuried, NEW before \in Times, NEW W, NEW C, NEW P,
           NEW O, PurgeTombstones(before, W, C, P, O)
    PROVE OrphansBuried'
<1> SUFFICES ASSUME NEW o \in orphans' PROVE OrphanBuried(o)'
  BY DEF OrphansBuried
<1>1. o \in orphans \ O \/ o \in Outlived(W, P)
  BY DEF PurgeTombstones
<1>2. now' = now
  BY DEF PurgeTombstones
<1>3. CASE o \in orphans \ O
  <2>1. o.client \in Clients /\ o.client \notin C
    BY <1>3 DEF PurgeTombstones, ForeignKeysHold, TypeOK, Orphans
  <2>2. clients'[o.client] = clients[o.client]
    BY <2>1 DEF PurgeTombstones
  <2> QED BY <1>2, <1>3, <2>2 DEF OrphansBuried, OrphanBuried
<1>4. CASE o \in Outlived(W, P)
  <2>0. W \subseteq Workspaces
    BY DEF PurgeTombstones, PurgeBatch, PurgeableWorkspaces
  <2>1. PICK c \in Clients, w \in W :
          /\ <<c, w>> \notin P /\ bindings[c][w].st # "none"
          /\ o = [client |-> c, workspace |-> w, row |-> bindings[c][w],
                  gone |-> workspaces[w].tomb]
    <3>1. PICK q \in (Clients \X W) \ P :
            /\ bindings[q[1]][q[2]].st # "none"
            /\ o = [client |-> q[1], workspace |-> q[2], row |-> bindings[q[1]][q[2]],
                    gone |-> workspaces[q[2]].tomb]
      BY <1>4 DEF Outlived
    <3>2. q[1] \in Clients /\ q[2] \in W /\ <<q[1], q[2]>> \notin P
      BY <3>1
    <3> QED BY <3>1, <3>2
  <2>2. w \in Workspaces
    BY <2>0, <2>1
  <2>3. PurgeBatch(before, W, C, P, O)
    BY DEF PurgeTombstones
  <2>4. /\ bindings[c][w].st = "dead" /\ before < bindings[c][w].tomb
        /\ bindings[c][w].tomb <= workspaces[w].tomb + QueueLag
    BY <2>1, <2>2, <2>3, PurgeLeaves
  <2>5. workspaces[w].tomb <= before
    BY <2>1, <2>3 DEF PurgeBatch, PurgeableWorkspaces
  <2>6. before \in Nat /\ bindings[c][w].tomb \in Nat /\ workspaces[w].tomb \in Nat
    BY <2>2, RegistryConstants DEF TypeOK, Times, BindingRows, WorkspaceRows
  <2>7. workspaces[w].tomb < bindings[c][w].tomb
    BY <2>4, <2>5, <2>6
  <2>8. c \notin C
    BY <2>1, <2>2 DEF PurgeTombstones, ForeignKeysHold
  <2>9. clients'[c] = clients[c]
    BY <2>8 DEF PurgeTombstones
  <2>10. /\ clients[c].st # "none" /\ clients[c].id = bindings[c][w].cid
         /\ clients[c].st = "dead" => bindings[c][w].tomb <= clients[c].tomb + QueueLag
         /\ bindings[c][w].tomb <= now
    BY <2>2, <2>4 DEF AllBuried, Buried
  <2> QED BY <1>2, <2>1, <2>4, <2>7, <2>9, <2>10 DEF OrphanBuried
<1> QED BY <1>1, <1>3, <1>4

\* The rows of bindings follow the rows of their parents in every reachable state.
LEMMA BuriedInductive == Spec => [](TypeOK /\ AllFit /\ AllBuried /\ OrphansBuried)
<1>1. Init => AllFit /\ AllBuried /\ OrphansBuried
  BY DEF Init, AllFit, Fits, AllBuried, Buried, NoBinding, OrphansBuried
<1>2. TypeOK /\ AllFit /\ AllBuried /\ OrphansBuried /\ [Next]_vars
        => AllFit' /\ AllBuried' /\ OrphansBuried'
  <2> SUFFICES ASSUME TypeOK, AllFit, AllBuried, OrphansBuried, [Next]_vars
               PROVE AllFit' /\ AllBuried' /\ OrphansBuried'
    OBVIOUS
  <2>1. AllFit' /\ TypeOK'
    BY FitsStep, TypeStep
  <2>p. ASSUME Purge
        PROVE \E before \in Times : \E W, C, P, O : PurgeTombstones(before, W, C, P, O)
    <3>1. PICK before \in Times :
            \E W \in SUBSET PurgeableWorkspaces(before), C \in SUBSET PurgeableClients(before),
               P \in SUBSET PurgeableBindings(before), O \in SUBSET PurgeableOrphans(before) :
                 PurgeTombstones(before, W, C, P, O)
      BY <2>p DEF Purge
    <3> QED BY <3>1
  <2>2. ASSUME NEW c \in Clients, NEW w \in Workspaces PROVE Buried(c, w)'
    <3>1. Fits(c, w) /\ Buried(c, w)
      BY DEF AllFit, AllBuried
    <3>2. CASE ~Purge
      BY <2>1, <3>1, <3>2, MovesStep, BuriedMoves
    <3>3. CASE Purge
      <4>1. PICK before \in Times : \E W, C, P, O : PurgeTombstones(before, W, C, P, O)
        BY <2>p, <3>3
      <4>2. PICK W, C, P, O : PurgeTombstones(before, W, C, P, O)
        BY <4>1
      <4> QED BY <4>2, BuriedPurge
    <3> QED BY <3>2, <3>3
  <2>3. ASSUME ~Purge PROVE OrphansBuried'
    <3> SUFFICES ASSUME NEW o \in orphans' PROVE OrphanBuried(o)'
      BY DEF OrphansBuried
    <3>1. \A d \in Clients, x \in Workspaces : RowsMove(d, x)
      BY <2>3, MovesStep
    <3>2. o \in orphans
      <4>1. CASE Clients = {} \/ Workspaces = {}
        <5>1. orphans' \subseteq Orphans
          BY <2>1 DEF TypeOK
        <5> QED BY <4>1, <5>1 DEF Orphans
      <4>2. CASE Clients # {} /\ Workspaces # {}
        BY <3>1, <4>2 DEF RowsMove
      <4> QED BY <4>1, <4>2
    <3>3. o.client \in Clients /\ o.workspace \in Workspaces /\ OrphanBuried(o)
      BY <3>2 DEF TypeOK, Orphans, OrphansBuried
    <3> QED BY <2>1, <3>1, <3>2, <3>3, OrphanMoves
  <2>4. ASSUME Purge PROVE OrphansBuried'
    <3>1. PICK before \in Times : \E W, C, P, O : PurgeTombstones(before, W, C, P, O)
      BY <2>p, <2>4
    <3>2. PICK W, C, P, O : PurgeTombstones(before, W, C, P, O)
      BY <3>1
    <3> QED BY <3>2, OrphansPurge
  <2> QED BY <2>1, <2>2, <2>3, <2>4 DEF AllBuried
<1> QED BY <1>1, <1>2, TypeCorrect, PTL DEF Spec

\* What retention, purge and concurrent requests never do to a binding: a row of a
\* binding outlives the workspace it refers to only inside the lag of a retention
\* command, and never its client; a live binding expires with its client, and none
\* is read-write on an untrusted workspace.
THEOREM BindingsFollow == Spec => []BindingsFollowTheirRows
<1>1. TypeOK /\ AllFit /\ AllBuried /\ OrphansBuried => BindingsFollowTheirRows
  <2> SUFFICES ASSUME TypeOK, AllFit, AllBuried, OrphansBuried PROVE BindingsFollowTheirRows
    OBVIOUS
  <2>1. ASSUME NEW c \in Clients, NEW w \in Workspaces, bindings[c][w].st # "none"
        PROVE /\ clients[c].st # "none" /\ clients[c].id = bindings[c][w].cid
              /\ workspaces[w].st # "none" /\ workspaces[w].id = bindings[c][w].wid
    <3>1. bindings[c][w].st = "live" \/ bindings[c][w].st = "dead"
      BY <2>1 DEF TypeOK, BindingRows, Status
    <3> QED BY <3>1 DEF AllFit, Fits, Anchored, AllBuried, Buried
  <2>2. OrphansOnlyByLag
    BY <2>1 DEF OrphansOnlyByLag, OrphansBuried, OrphanBuried
  <2> QED BY <2>2, FitsParts DEF BindingsFollowTheirRows
<1> QED BY <1>1, BuriedInductive, PTL

\* A purge batch runs into the foreign key of a binding only when a client it takes
\* has a binding tombstoned after the cutoff, by no more than the time a retention
\* command waits.
THEOREM PurgeProceeds == Spec => []PurgeBlockedOnlyByLag
<1>1. TypeOK /\ AllFit /\ AllBuried /\ OrphansBuried => PurgeBlockedOnlyByLag
  <2> SUFFICES ASSUME TypeOK, AllFit, AllBuried, OrphansBuried, NEW before \in Times,
                      NEW W \in SUBSET PurgeableWorkspaces(before),
                      NEW C \in SUBSET PurgeableClients(before),
                      NEW P \in SUBSET PurgeableBindings(before),
                      NEW O \in SUBSET PurgeableOrphans(before),
                      PurgeBatch(before, W, C, P, O), ~ForeignKeysHold(C, P, O)
               PROVE \E c \in C : \E t \in BindingTombs(c) : before < t /\ t <= before + QueueLag
    BY DEF PurgeBlockedOnlyByLag
  <2>0. before \in Nat /\ QueueLag \in Nat
    BY RegistryConstants DEF Times
  <2>a. ASSUME NEW c \in C
        PROVE c \in Clients /\ clients[c].st = "dead" /\ clients[c].tomb <= before
              /\ clients[c].tomb \in Nat
    BY RegistryConstants DEF PurgeableClients, TypeOK, ClientRows, Times
  <2>1. CASE \E c \in C, w \in Workspaces : bindings[c][w].st # "none" /\ <<c, w>> \notin P
    <3>1. PICK c \in C, w \in Workspaces : bindings[c][w].st # "none" /\ <<c, w>> \notin P
      BY <2>1
    <3>2. before < bindings[c][w].tomb /\ bindings[c][w].tomb <= clients[c].tomb + QueueLag
      BY <2>a, <3>1, PurgeLeaves
    <3>3. bindings[c][w].tomb \in BindingTombs(c)
      BY <3>1 DEF BindingTombs
    <3>4. bindings[c][w].tomb \in Nat
      BY <2>a, RegistryConstants DEF TypeOK, BindingRows, Times
    <3>5. bindings[c][w].tomb <= before + QueueLag
      BY <2>0, <2>a, <3>2, <3>4
    <3> QED BY <3>2, <3>3, <3>5
  <2>2. CASE \E o \in orphans : o.client \in C /\ o \notin O
    <3>1. PICK o \in orphans : o.client \in C /\ o \notin O
      BY <2>2
    <3>2. O = PurgeableOrphans(before)
      BY <3>1 DEF PurgeBatch
    <3>3. o.row.tomb \in Nat
      BY RegistryConstants DEF TypeOK, Orphans, BindingRows, Times
    <3>4. before < o.row.tomb
      BY <2>0, <3>1, <3>2, <3>3 DEF PurgeableOrphans
    <3>5. o.row.tomb <= clients[o.client].tomb + QueueLag
      BY <2>a, <3>1 DEF OrphansBuried, OrphanBuried
    <3>6. o.row.tomb <= before + QueueLag
      BY <2>0, <2>a, <3>1, <3>3, <3>5
    <3>7. o.row.tomb \in BindingTombs(o.client)
      BY DEF BindingTombs
    <3> QED BY <3>1, <3>4, <3>6, <3>7
  <2> QED BY <2>1, <2>2 DEF ForeignKeysHold
<1> QED BY <1>1, BuriedInductive, PTL
=============================================================================
