-------------------------- MODULE DiskGenerations --------------------------
(***************************************************************************)
(* The disk generations of the catalog store (catalog/store.py).           *)
(*                                                                         *)
(* A workspace's catalogs lie in one directory, one SQLite file for every  *)
(* source fingerprint.  A process that uses a file holds a shared flock on *)
(* the lease file beside it; whoever publishes or closes collects the      *)
(* files beyond the retention bounds, each under an exclusive flock on its *)
(* lease file, and unlinks the lease file as well.  A flock belongs to the *)
(* inode that was opened, not to the name, so names and inodes are kept    *)
(* apart: the n-th file created under a name is number n, 0 is no file.    *)
(***************************************************************************)
EXTENDS Naturals, FiniteSets

CONSTANTS
    Stores,              \* CatalogStore objects, each in a process of its own
    Fingerprints,        \* source fingerprints; each names one database
    Unbound,             \* the name used before a fingerprint is known
    RetainedGenerations, \* catalog.retained_generations
    MaxDiskSize,         \* catalog.max_disk_size_mb, in database sizes
    AutoStores,          \* stores whose requested mode is AUTO (the others DISK)
    Bounds               \* bounds of the model, crashes of processes and how
                         \* often a name is created anew: one pair is picked

Databases == Fingerprints \cup {Unbound}

VARIABLES
    db,       \* database file under each name: its inode, or 0
    lease,    \* lease file under each name: its inode, or 0
    made,     \* how many databases and lease files each name has had
    store,    \* the fields of each CatalogStore
    pc,       \* where each store is in open, publish, load or close
    gc,       \* what a collection in progress has still to look at
    crashes,
    bounds    \* the bounds picked

vars == <<db, lease, made, store, pc, gc, crashes, bounds>>

MaxMade == bounds.made

NoLock == [path |-> Unbound, inode |-> 0]
Locks  == [path : Databases, inode : Nat]

\* CatalogStore.__init__: AUTO starts as DISK, under the unbound name.
FreshStore == [mode |-> "disk", path |-> Unbound, conn |-> 0, held |-> NoLock,
               ready |-> FALSE, then |-> "none"]

NoGc == [todo |-> {}, protected |-> Unbound, count |-> 0, size |-> 0,
         target |-> Unbound, fd |-> 0, then |-> "none"]

Records == [mode : {"disk", "memory"}, path : Databases, conn : Nat, held : Locks,
            ready : BOOLEAN, then : {"none", "publish", "load"}]
Collections == [todo : SUBSET Databases, protected : Databases, count : Nat, size : Nat,
                target : Databases, fd : Nat, then : {"none", "first"}]

\* Files, locks and stores have their shape.
TypeOK ==
    /\ db \in [Databases -> Nat]
    /\ lease \in [Databases -> Nat]
    /\ made \in [Databases -> [db : Nat, lease : Nat]]
    /\ store \in [Stores -> Records]
    /\ pc \in [Stores -> {"idle", "flock", "connect", "commit", "collect",
                          "exflock", "unlink", "unlinkLease", "unlock"}]
    /\ gc \in [Stores -> Collections]
    /\ bounds \in Bounds
    /\ crashes \in 0 .. bounds.crashes

Init ==
    /\ db = [x \in Databases |-> 0]
    /\ lease = [x \in Databases |-> 0]
    /\ made = [x \in Databases |-> [db |-> 0, lease |-> 0]]
    /\ store = [s \in Stores |-> FreshStore]
    /\ pc = [s \in Stores |-> "idle"]
    /\ gc = [s \in Stores |-> NoGc]
    /\ crashes = 0
    /\ bounds \in Bounds

----------------------------------------------------------------------------
(* Files and locks.                                                        *)

\* os.open(path, O_CREAT): the inode under the lease name, made if missing.
LeaseInode(x) == IF lease[x] # 0 THEN lease[x] ELSE made[x].lease + 1

CreateLease(x) ==
    /\ LeaseInode(x) <= MaxMade
    /\ lease' = [lease EXCEPT ![x] = LeaseInode(x)]
    /\ made' = [made EXCEPT ![x].lease =
                    IF lease[x] # 0 THEN @ ELSE made[x].lease + 1]

\* The stores that hold a flock on inode n of x's lease, shared or exclusive.
SharedHolders(x, n) ==
    {s \in Stores : pc[s] # "flock" /\ store[s].held = [path |-> x, inode |-> n]}
ExclusiveHolders(x, n) ==
    {s \in Stores : /\ pc[s] \in {"unlink", "unlinkLease", "unlock"}
                    /\ gc[s].target = x
                    /\ gc[s].fd = n}

----------------------------------------------------------------------------
(* open, publish, load and close.                                          *)

\* _bind_disk_generation: a store that moves to another fingerprint drops its
\* connection and its lease first.
Bound(r, x) ==
    IF r.path = x THEN r
    ELSE [r EXCEPT !.path = x, !.conn = 0, !.held = NoLock, !.ready = FALSE]

\* open(): nothing to do with a connection; otherwise open the lease file
\* (the flock is a later system call), then connect.
BeginOpen(s, r) ==
    IF r.conn # 0
    THEN /\ pc' = [pc EXCEPT ![s] = IF r.then = "publish" THEN "commit" ELSE "idle"]
         /\ store' = [store EXCEPT ![s] = r]
         /\ UNCHANGED <<lease, made>>
    ELSE /\ pc' = [pc EXCEPT ![s] = "flock"]
         /\ CreateLease(r.path)
         /\ store' = [store EXCEPT ![s] =
                [r EXCEPT !.ready = FALSE,
                          !.held = [path |-> r.path, inode |-> LeaseInode(r.path)]]]

\* publish(generation): bind the fingerprint and open.
Publish(s, f) ==
    /\ pc[s] = "idle"
    /\ store[s].mode = "disk"
    /\ BeginOpen(s, [Bound(store[s], f) EXCEPT !.then = "publish"])
    /\ UNCHANGED <<db, gc, crashes>>

\* load(source_fingerprint): bind it; with no such file there is nothing to
\* load and the store stays closed.
Load(s, f) ==
    /\ pc[s] = "idle"
    /\ store[s].mode = "disk"
    /\ IF db[f] = 0
       THEN /\ store' = [store EXCEPT ![s] = Bound(store[s], f)]
            /\ UNCHANGED <<lease, made, pc>>
       ELSE BeginOpen(s, [Bound(store[s], f) EXCEPT !.then = "load"])
    /\ UNCHANGED <<db, gc, crashes>>

\* load() without a fingerprint: an unbound store takes the latest file there
\* is (the order of modification times is left open).
LoadLatest(s) ==
    /\ pc[s] = "idle"
    /\ store[s].mode = "disk"
    /\ store[s].path = Unbound
    /\ store[s].conn = 0
    /\ \E x \in Databases :
        /\ \/ x \in Fingerprints /\ db[x] # 0
           \/ x = Unbound /\ \A f \in Fingerprints : db[f] = 0
        /\ BeginOpen(s, [store[s] EXCEPT !.path = x, !.then = "load"])
    /\ UNCHANGED <<db, gc, crashes>>

\* _DiskGenerationLease.acquire(exclusive=False): LOCK_SH | LOCK_NB on the
\* inode that was opened.  Refused, an AUTO store falls back to memory and a
\* DISK store reports the error; both let go of everything.
Refused(s, r) == [r EXCEPT !.held = NoLock, !.then = "none",
                           !.mode = IF s \in AutoStores THEN "memory" ELSE r.mode]

FlockShared(s) ==
    /\ pc[s] = "flock"
    /\ LET n == store[s].held.inode
           x == store[s].path IN
       IF ExclusiveHolders(x, n) = {}
       THEN /\ pc' = [pc EXCEPT ![s] = "connect"]
            /\ UNCHANGED store
       ELSE /\ store' = [store EXCEPT ![s] = Refused(s, store[s])]
            /\ pc' = [pc EXCEPT ![s] = "idle"]
    /\ UNCHANGED <<db, lease, made, gc, crashes>>

\* sqlite3.connect and _initialize: the file under the name, made if missing.
Connected(r, n) == [r EXCEPT !.conn = n, !.ready = TRUE]

Connect(s) ==
    /\ pc[s] = "connect"
    /\ LET x == store[s].path
           n == IF db[x] # 0 THEN db[x] ELSE made[x].db + 1 IN
       /\ n <= MaxMade
       /\ db' = [db EXCEPT ![x] = n]
       /\ made' = [made EXCEPT ![x].db = IF db[x] # 0 THEN @ ELSE n]
       /\ store' = [store EXCEPT ![s] = Connected(store[s], n)]
       /\ pc' = [pc EXCEPT ![s] =
                    IF store[s].then = "publish" THEN "commit" ELSE "idle"]
    /\ UNCHANGED <<lease, gc, crashes>>

\* The directory as one collection sees it: the unbound database first, then
\* every candidate but the protected one, which is counted as retained.
Collection(protected) ==
    LET candidates == {f \in Fingerprints : db[f] # 0}
        kept == IF protected \in candidates THEN 1 ELSE 0
    IN [todo |-> candidates \ {protected}, protected |-> protected,
        count |-> kept, size |-> kept, target |-> Unbound, fd |-> 0,
        then |-> "first"]

\* The end of publish: COMMIT, then _gc_disk_generations(protected=own path).
Commit(s) ==
    /\ pc[s] = "commit"
    /\ store' = [store EXCEPT ![s].then = "none"]
    /\ gc' = [gc EXCEPT ![s] = Collection(store[s].path)]
    /\ pc' = [pc EXCEPT ![s] = "collect"]
    /\ UNCHANGED <<db, lease, made, crashes>>

\* close(): connection and lease go first, then a collection that protects the
\* path the store had, if the store had opened it.
Released(r) == [r EXCEPT !.conn = 0, !.held = NoLock]

Close(s) ==
    /\ pc[s] = "idle"
    /\ store[s].mode = "disk"
    /\ store' = [store EXCEPT ![s] = Released(store[s])]
    /\ IF store[s].ready
       THEN /\ gc' = [gc EXCEPT ![s] = Collection(store[s].path)]
            /\ pc' = [pc EXCEPT ![s] = "collect"]
       ELSE UNCHANGED <<gc, pc>>
    /\ UNCHANGED <<db, lease, made, crashes>>

----------------------------------------------------------------------------
(* One collection: _gc_disk_generations_from_validated_path.               *)

\* _remove_disk_generation opens the lease file of its target.
BeginRemove(s, x, g) ==
    /\ CreateLease(x)
    /\ gc' = [gc EXCEPT ![s] = [g EXCEPT !.target = x, !.fd = LeaseInode(x)]]
    /\ pc' = [pc EXCEPT ![s] = "exflock"]

\* The collection starts with the unbound database, whatever its size.
CollectUnbound(s) ==
    /\ pc[s] = "collect"
    /\ gc[s].then = "first"
    /\ BeginRemove(s, Unbound, [gc[s] EXCEPT !.then = "none"])
    /\ UNCHANGED <<db, store, crashes>>

\* A candidate that stays counts as retained.
Retained(g, x) == [g EXCEPT !.todo = @ \ {x}, !.count = @ + 1, !.size = @ + 1]

\* One candidate: beyond a bound it is removed if its lease can be had,
\* otherwise it counts as retained.
Collect(s, x) ==
    /\ pc[s] = "collect"
    /\ gc[s].then = "none"
    /\ x \in gc[s].todo
    /\ IF \/ gc[s].count >= RetainedGenerations
          \/ gc[s].size + 1 > MaxDiskSize
       THEN BeginRemove(s, x, [gc[s] EXCEPT !.todo = @ \ {x}])
       ELSE /\ gc' = [gc EXCEPT ![s] = Retained(gc[s], x)]
            /\ UNCHANGED <<lease, made, pc>>
    /\ UNCHANGED <<db, store, crashes>>

EndCollect(s) ==
    /\ pc[s] = "collect"
    /\ gc[s].then = "none"
    /\ gc[s].todo = {}
    /\ gc' = [gc EXCEPT ![s] = NoGc]
    /\ pc' = [pc EXCEPT ![s] = "idle"]
    /\ UNCHANGED <<db, lease, made, store, crashes>>

\* Mutant: only another collection is in the way of one.
FlockExclusiveOverShared(s) ==
    /\ pc[s] = "exflock"
    /\ LET x == gc[s].target
           n == gc[s].fd IN
       IF ExclusiveHolders(x, n) = {}
       THEN /\ pc' = [pc EXCEPT ![s] = "unlink"]
            /\ UNCHANGED gc
       ELSE /\ pc' = [pc EXCEPT ![s] = "collect"]
            /\ gc' = [gc EXCEPT ![s] = Retained(gc[s], x)]
    /\ UNCHANGED <<db, lease, made, store, crashes>>

\* acquire(exclusive=True): LOCK_EX | LOCK_NB.  Refused, the generation stays.
FlockExclusive(s) ==
    /\ pc[s] = "exflock"
    /\ LET x == gc[s].target
           n == gc[s].fd IN
       IF SharedHolders(x, n) \cup ExclusiveHolders(x, n) = {}
       THEN /\ pc' = [pc EXCEPT ![s] = "unlink"]
            /\ UNCHANGED gc
       ELSE /\ pc' = [pc EXCEPT ![s] = "collect"]
            /\ gc' = IF x = Unbound THEN gc
                      ELSE [gc EXCEPT ![s] = Retained(gc[s], x)]
    /\ UNCHANGED <<db, lease, made, store, crashes>>

\* The database and its sidecars, then the lease file, then the lock itself.
Unlink(s) ==
    /\ pc[s] = "unlink"
    /\ db' = [db EXCEPT ![gc[s].target] = 0]
    /\ pc' = [pc EXCEPT ![s] = "unlinkLease"]
    /\ UNCHANGED <<lease, made, store, gc, crashes>>

UnlinkLease(s) ==
    /\ pc[s] = "unlinkLease"
    /\ lease' = [lease EXCEPT ![gc[s].target] = 0]
    /\ pc' = [pc EXCEPT ![s] = "unlock"]
    /\ UNCHANGED <<db, made, store, gc, crashes>>

Unlock(s) ==
    /\ pc[s] = "unlock"
    /\ pc' = [pc EXCEPT ![s] = "collect"]
    /\ UNCHANGED <<db, lease, made, store, gc, crashes>>

----------------------------------------------------------------------------
\* The process ends: the kernel drops its locks; files stay as they are.
Crash(s) ==
    /\ crashes < bounds.crashes
    /\ crashes' = crashes + 1
    /\ store' = [store EXCEPT ![s] = FreshStore]
    /\ gc' = [gc EXCEPT ![s] = NoGc]
    /\ pc' = [pc EXCEPT ![s] = "idle"]
    /\ UNCHANGED <<db, lease, made>>

Next ==
    /\ \E s \in Stores :
        \/ \E f \in Fingerprints : Publish(s, f) \/ Load(s, f)
        \/ LoadLatest(s) \/ FlockShared(s) \/ Connect(s) \/ Commit(s) \/ Close(s)
        \/ CollectUnbound(s) \/ (\E x \in Fingerprints : Collect(s, x))
        \/ EndCollect(s) \/ FlockExclusive(s)
        \/ Unlink(s) \/ UnlinkLease(s) \/ Unlock(s) \/ Crash(s)
    /\ UNCHANGED bounds

Spec == Init /\ [][Next]_vars

----------------------------------------------------------------------------
\* What the locks do guarantee, whoever opens, collects, closes or crashes in
\* between: a store with a connection holds the lease of the generation it is
\* bound to, and nobody removes a generation under the same lease file.
LocksAreExclusive ==
    /\ \A s \in Stores : store[s].conn # 0 =>
           store[s].held.path = store[s].path /\ store[s].held.inode # 0
    /\ \A x \in Databases, n \in 1 .. MaxMade :
           /\ Cardinality(ExclusiveHolders(x, n)) <= 1
           /\ ExclusiveHolders(x, n) # {} => SharedHolders(x, n) = {}

----------------------------------------------------------------------------
\* A store that opens a generation, or has it open, is bound to the generation
\* whose lease file it opened; before sqlite3.connect it has no connection.
Opening(s) == pc[s] \in {"flock", "connect"}
HoldsItsOwn(s) ==
    /\ Opening(s) => store[s].conn = 0
    /\ Opening(s) \/ store[s].conn # 0 =>
           store[s].held.path = store[s].path /\ store[s].held.inode # 0
    /\ pc[s] \in {"exflock", "unlink", "unlinkLease", "unlock"} => gc[s].fd # 0

Removing(s) == pc[s] \in {"unlink", "unlinkLease", "unlock"}
Shares(s, x, n) == pc[s] # "flock" /\ store[s].held = [path |-> x, inode |-> n]

\* Why LocksAreExclusive holds: each flock finds the other kind absent, and a
\* lock is kept until its holder lets go of it.
LockInv ==
    /\ TypeOK
    /\ \A s \in Stores : HoldsItsOwn(s)
    /\ \A s, t \in Stores : Removing(s) =>
           /\ ~Shares(t, gc[s].target, gc[s].fd)
           /\ s # t /\ Removing(t) => <<gc[s].target, gc[s].fd>> # <<gc[t].target, gc[t].fd>>
=============================================================================
