--------------------------- MODULE PlatformProofs ---------------------------
(***************************************************************************)
(* Theorems about the machines of MCPlatform that share something: shared  *)
(* analysis tasks, disk generations, captures of the workspace, the        *)
(* configuration files of the user that commands rewrite and revert, and   *)
(* the batches that tombstone rows of the registry.                        *)
(***************************************************************************)
EXTENDS MCPlatform, FiniteSetTheorems, SequenceTheorems, TLAPS

----------------------------------------------------------------------------
(* Shared tasks (analysis/task_registry.py).                               *)

TaskVars == <<v1, v2, v3, v4>>

\* Callers of a finite set are counted: one more, one less, one at least.
LEMMA AwaitingIsFinite ==
    ASSUME NEW i
    PROVE  IsFiniteSet(Tasks!Awaiting(i)) /\ Cardinality(Tasks!Awaiting(i)) \in Nat
BY PlatformAssumption, FS_Subset, FS_CardinalityType DEF Tasks!Awaiting

\* At the start there is no entry, no task and no caller.
LEMMA TasksStart == Tasks!Init => Tasks!ShareInv
<1> SUFFICES ASSUME Tasks!Init PROVE Tasks!ShareInv
    OBVIOUS
<1> USE DEF Tasks!Init, Tasks!NoEntry, Tasks!NoWait
<1>1. Tasks!TypeOK
    BY DEF Tasks!TypeOK, Tasks!Works
<1>2. Tasks!EntryCounts /\ Tasks!SharedWorkSurvives
    BY DEF Tasks!EntryCounts, Tasks!SharedWorkSurvives
<1> QED
    BY <1>1, <1>2 DEF Tasks!ShareInv, Tasks!Works

\* TaskShare counts with the Cardinality of FiniteSets.
LEMMA TasksCount == \A S : Tasks!Cardinality(S) = Cardinality(S)
BY DEF Tasks!Cardinality, Cardinality

\* share joins the task of the entry.
LEMMA TasksJoin ==
    ASSUME Tasks!ShareInv, NEW w \in Waiters, Tasks!Share(w), v1.task # 0
    PROVE  Tasks!ShareInv'
<1> USE DEF Tasks!ShareInv, Tasks!TypeOK, Tasks!NoWait, Tasks!EntryCounts
<1> PICK i \in Tasks!Works : i = v1.task
    OBVIOUS
<1> PICK n \in Nat : n = v1.waiters
    OBVIOUS
<1> PICK no \in BOOLEAN : no = FALSE
    OBVIOUS
<1> DEFINE r == [task |-> i, drain |-> no]
<1>1. /\ v3[w] = [task |-> 0, drain |-> no]
      /\ v1' = [v1 EXCEPT !.waiters = n + 1] /\ v2' = v2 /\ v4' = v4
      /\ v3' = [v3 EXCEPT ![w].task = v1'.task]
    BY DEF Tasks!Share
<1>2. /\ v1' \in [task : Tasks!Works \cup {0}, waiters : Nat]
      /\ v1'.task = i /\ v1'.waiters = n + 1
    BY <1>1
<1>r. r = [v3[w] EXCEPT !.task = i]
    BY <1>1
<1>a. v3' = [v3 EXCEPT ![w] = r]
    BY <1>1, <1>2, <1>r
<1>3. /\ v3' \in [Waiters -> [task : Tasks!Works \cup {0}, drain : BOOLEAN]]
      /\ v3'[w] = r
      /\ \A u \in Waiters \ {w} : v3'[u] = v3[u]
    BY <1>a
<1>4. Tasks!Awaiting(i)' = Tasks!Awaiting(i) \cup {w} /\ w \notin Tasks!Awaiting(i)
    BY <1>1, <1>3 DEF Tasks!Awaiting
<1>5. Cardinality(Tasks!Awaiting(i)') = n + 1
  <2> HIDE DEF Tasks!ShareInv, Tasks!TypeOK, Tasks!NoWait, Tasks!EntryCounts
  <2>1. Cardinality(Tasks!Awaiting(i)') = Cardinality(Tasks!Awaiting(i)) + 1
      BY <1>4, AwaitingIsFinite, FS_AddElement
  <2> QED
      BY <2>1, TasksCount DEF Tasks!ShareInv, Tasks!TypeOK, Tasks!EntryCounts
<1>6. Tasks!EntryCounts'
    BY <1>5, <1>1, <1>2, TasksCount
<1>7. Tasks!SharedWorkSurvives'
    BY <1>1, <1>3 DEF Tasks!SharedWorkSurvives
<1> QED
    BY <1>1, <1>2, <1>3, <1>6, <1>7
\* share creates the task of the key: nobody has awaited its number before.
LEMMA TasksCreate ==
    ASSUME Tasks!ShareInv, NEW w \in Waiters, Tasks!Share(w), v1.task = 0
    PROVE  Tasks!ShareInv'
<1> USE DEF Tasks!ShareInv, Tasks!TypeOK, Tasks!NoWait, Tasks!EntryCounts
<1> PICK no \in BOOLEAN : no = FALSE
    OBVIOUS
<1> PICK i \in Tasks!Works : /\ v2[i] = "none" /\ v2' = [v2 EXCEPT ![i] = "running"]
                             /\ v1' = [task |-> i, waiters |-> 1]
    BY DEF Tasks!Share
<1> DEFINE r == [task |-> i, drain |-> no]
<1>0. i \in Nat \ {0} /\ 0 \notin Tasks!Works
    BY PlatformAssumption DEF Tasks!Works
<1>1. /\ v3[w] = [task |-> 0, drain |-> no] /\ v4' = v4
      /\ v3' = [v3 EXCEPT ![w].task = v1'.task]
    BY DEF Tasks!Share
<1>2. v1' \in [task : Tasks!Works \cup {0}, waiters : Nat] /\ v1'.task = i
    OBVIOUS
<1>3. r = [v3[w] EXCEPT !.task = i]
    BY <1>1
<1>4. v3' = [v3 EXCEPT ![w] = r]
    BY <1>1, <1>2, <1>3
<1>5. /\ v3' \in [Waiters -> [task : Tasks!Works \cup {0}, drain : BOOLEAN]]
      /\ v3'[w] = r
      /\ \A u \in Waiters \ {w} : v3'[u] = v3[u]
    BY <1>4
<1>6. /\ v2' \in [Tasks!Works -> {"none", "running", "done", "cancelling", "cancelled"}]
      /\ v2'[i] = "running" /\ \A j \in Tasks!Works \ {i} : v2'[j] = v2[j]
    OBVIOUS
<1>7. Tasks!Awaiting(i)' = {w}
  <2>1. \A u \in Waiters \ {w} : v3'[u].task # i
      BY <1>0, <1>5
  <2> QED
      BY <2>1, <1>5 DEF Tasks!Awaiting
<1>8. Cardinality(Tasks!Awaiting(i)') = 1
  <2> HIDE DEF Tasks!ShareInv, Tasks!TypeOK, Tasks!NoWait, Tasks!EntryCounts
  <2> QED
      BY <1>7, FS_Singleton
<1>9. Tasks!EntryCounts'
    BY <1>8, <1>0, <1>1, <1>2, <1>6, TasksCount
<1>10. Tasks!SharedWorkSurvives'
    BY <1>1, <1>5, <1>6 DEF Tasks!SharedWorkSurvives
<1>11. \A j \in Tasks!Works : v2'[j] = "running" => v1'.task = j
    BY <1>0, <1>2, <1>6
<1>12. /\ \A j \in Tasks!Works \ v4' : v2'[j] = "cancelling" =>
              \E u \in Waiters : v3'[u].task = j /\ v3'[u].drain
       /\ \A j \in v4' : v2'[j] # "none"
       /\ \A u \in Waiters : v3'[u].task # 0 => v2'[v3'[u].task] # "none"
       /\ \A u \in Waiters : v3'[u].drain => v3'[u].task # 0
  <2>1. \A j \in Tasks!Works \ v4' : v2'[j] = "cancelling" =>
            \E u \in Waiters : v3'[u].task = j /\ v3'[u].drain
      BY <1>1, <1>5, <1>6
  <2> QED
      BY <2>1, <1>1, <1>5, <1>6
<1> QED
    BY <1>1, <1>2, <1>5, <1>6, <1>9, <1>10, <1>11, <1>12

\* A task ends: it was the task of the entry, or it was cancelled.
LEMMA TasksFinish ==
    ASSUME Tasks!ShareInv, NEW i \in Tasks!Works, Tasks!Finish(i)
    PROVE  Tasks!ShareInv'
<1> USE DEF Tasks!ShareInv, Tasks!TypeOK, Tasks!EntryCounts
<1> PICK s \in {"done", "cancelled"} : /\ v2' = [v2 EXCEPT ![i] = s]
                                       /\ v2[i] = "running" => s = "done"
                                       /\ v2[i] # "running" => v2[i] = "cancelling"
    BY DEF Tasks!Finish
<1>1. UNCHANGED <<v1, v3, v4>>
    BY DEF Tasks!Finish
<1>2. /\ v2' \in [Tasks!Works -> {"none", "running", "done", "cancelling", "cancelled"}]
      /\ v2'[i] = s /\ \A j \in Tasks!Works \ {i} : v2'[j] = v2[j]
    OBVIOUS
<1>3. \A j : Tasks!Awaiting(j)' = Tasks!Awaiting(j)
    BY <1>1 DEF Tasks!Awaiting
<1>4. Tasks!EntryCounts'
    BY <1>1, <1>2, <1>3, TasksCount
<1>5. Tasks!SharedWorkSurvives'
    BY <1>1, <1>2 DEF Tasks!SharedWorkSurvives
<1> QED
    BY <1>1, <1>2, <1>4, <1>5

\* A caller that is done, or that is cancelled while others await the task or
\* somebody else cancelled it, leaves; the last one of a running task cancels it.
LEMMA TasksLeave ==
    ASSUME Tasks!ShareInv, NEW w \in Waiters, v3[w].task # 0, ~v3[w].drain, Tasks!Leave(w)
    PROVE  Tasks!ShareInv'
<1> USE DEF Tasks!ShareInv, Tasks!TypeOK, Tasks!NoEntry, Tasks!NoWait, Tasks!EntryCounts
<1> PICK no \in BOOLEAN : no = FALSE
    OBVIOUS
<1> PICK i \in Tasks!Works : i = v3[w].task
    OBVIOUS
<1> DEFINE r == [task |-> 0, drain |-> no]
<1>1. v4' = v4 /\ 0 \notin Tasks!Works
    BY PlatformAssumption DEF Tasks!Leave, Tasks!Works
<1>2. CASE v1.task # i
  <2>1. v1' = v1 /\ v2' = v2 /\ v3' = [v3 EXCEPT ![w] = r]
      BY <1>2 DEF Tasks!Leave, Tasks!Left
  <2>2. /\ v3' \in [Waiters -> [task : Tasks!Works \cup {0}, drain : BOOLEAN]]
        /\ v3'[w] = r /\ \A u \in Waiters \ {w} : v3'[u] = v3[u]
      BY <2>1
  <2>3. Tasks!Awaiting(v1.task)' = Tasks!Awaiting(v1.task) \/ v1.task = 0
      BY <1>2, <2>1, <2>2 DEF Tasks!Awaiting
  <2>4. Tasks!EntryCounts'
      BY <1>1, <2>1, <2>3, TasksCount
  <2>5. Tasks!SharedWorkSurvives'
      BY <1>1, <2>1, <2>2 DEF Tasks!SharedWorkSurvives
  <2>6. \A j \in Tasks!Works \ v4' : v2'[j] = "cancelling" =>
            \E u \in Waiters : v3'[u].task = j /\ v3'[u].drain
      BY <1>1, <2>1, <2>2
  <2> QED
      BY <1>1, <2>1, <2>2, <2>4, <2>5, <2>6
<1>3. CASE v1.task = i /\ v2[i] = "done"
  <2>1. v1' = [task |-> 0, waiters |-> 0] /\ v2' = v2 /\ v3' = [v3 EXCEPT ![w] = r]
      BY <1>3 DEF Tasks!Leave, Tasks!Left
  <2>2. /\ v3' \in [Waiters -> [task : Tasks!Works \cup {0}, drain : BOOLEAN]]
        /\ v3'[w] = r /\ \A u \in Waiters \ {w} : v3'[u] = v3[u]
      BY <2>1
  <2>3. Tasks!SharedWorkSurvives'
      BY <1>1, <2>1, <2>2 DEF Tasks!SharedWorkSurvives
  <2>4. \A j \in Tasks!Works \ v4' : v2'[j] = "cancelling" =>
            \E u \in Waiters : v3'[u].task = j /\ v3'[u].drain
      BY <1>1, <2>1, <2>2
  <2> QED
      BY <1>1, <1>3, <2>1, <2>2, <2>3, <2>4
<1>4. CASE v1.task = i /\ v2[i] = "running" /\ v1.waiters <= 1
  <2>0. PICK q : q = [v3[w] EXCEPT !.drain = TRUE]
      OBVIOUS
  <2>1. /\ v1' = [task |-> 0, waiters |-> 0] /\ v2' = [v2 EXCEPT ![i] = "cancelling"]
        /\ v3' = [v3 EXCEPT ![w] = q]
      BY <1>4, <2>0 DEF Tasks!Leave, Tasks!Left
  <2>2. q \in [task : Tasks!Works \cup {0}, drain : BOOLEAN]
    <3> DEFINE Works0 == Tasks!Works \cup {0}
    <3>1. v3[w] \in [task : Works0, drain : BOOLEAN]
        OBVIOUS
    <3> HIDE DEF Works0, Tasks!ShareInv, Tasks!TypeOK, Tasks!NoWait, Tasks!EntryCounts
    <3>2. q \in [task : Works0, drain : BOOLEAN]
        BY <2>0, <3>1
    <3> QED
        BY <3>2 DEF Works0
  <2>3. q.task = i /\ q.drain
      BY <2>0
  <2>4. /\ v3' \in [Waiters -> [task : Tasks!Works \cup {0}, drain : BOOLEAN]]
        /\ v3'[w] = q /\ \A u \in Waiters \ {w} : v3'[u] = v3[u]
      BY <2>1, <2>2
  <2>5. /\ v2' \in [Tasks!Works -> {"none", "running", "done", "cancelling", "cancelled"}]
        /\ v2'[i] = "cancelling" /\ \A j \in Tasks!Works \ {i} : v2'[j] = v2[j]
      BY <2>1
  <2>6. Tasks!Awaiting(i) = {w}
    <3>1. Cardinality(Tasks!Awaiting(i)) = 1 /\ w \in Tasks!Awaiting(i)
        BY <1>4, TasksCount, AwaitingIsFinite DEF Tasks!Awaiting
    <3> QED
        BY <3>1, AwaitingIsFinite, FS_Singleton
  <2>7. \A u \in Waiters : u # w /\ v3[u].task = i => v3[u].drain
      BY <2>6 DEF Tasks!Awaiting
  <2>8. Tasks!SharedWorkSurvives'
      BY <1>1, <2>3, <2>4, <2>5, <2>7 DEF Tasks!SharedWorkSurvives
  <2>9. \A j \in Tasks!Works \ v4' : v2'[j] = "cancelling" =>
            \E u \in Waiters : v3'[u].task = j /\ v3'[u].drain
      BY <1>1, <2>3, <2>4, <2>5
  <2> QED
      BY <1>1, <1>4, <2>1, <2>3, <2>4, <2>5, <2>8, <2>9
<1>5. CASE v1.task = i /\ v2[i] = "running" /\ ~(v1.waiters <= 1)
  <2> PICK n \in Nat : n = v1.waiters
      OBVIOUS
  <2>1. /\ v1' = [v1 EXCEPT !.waiters = n - 1] /\ v2' = v2
        /\ v3' = [v3 EXCEPT ![w] = r]
      BY <1>5 DEF Tasks!Leave, Tasks!Left
  <2>2. /\ v3' \in [Waiters -> [task : Tasks!Works \cup {0}, drain : BOOLEAN]]
        /\ v3'[w] = r /\ \A u \in Waiters \ {w} : v3'[u] = v3[u]
      BY <2>1
  <2>3. n - 1 \in Nat \ {0}
      BY <1>5
  <2>4. /\ v1' \in [task : Tasks!Works \cup {0}, waiters : Nat]
        /\ v1'.task = i /\ v1'.waiters = n - 1
      BY <1>5, <2>1, <2>3
  <2>5. Tasks!Awaiting(i)' = Tasks!Awaiting(i) \ {w} /\ w \in Tasks!Awaiting(i)
      BY <1>1, <2>2 DEF Tasks!Awaiting
  <2>6. Cardinality(Tasks!Awaiting(i)') = Cardinality(Tasks!Awaiting(i)) - 1
    <3> HIDE DEF Tasks!NoEntry, Tasks!ShareInv, Tasks!TypeOK, Tasks!NoWait, Tasks!EntryCounts
    <3> QED
        BY <2>5, AwaitingIsFinite, FS_RemoveElement
  <2>7. Tasks!EntryCounts'
      BY <1>1, <1>5, <2>1, <2>3, <2>4, <2>6, TasksCount
  <2>8. Tasks!SharedWorkSurvives'
      BY <1>1, <2>1, <2>2 DEF Tasks!SharedWorkSurvives
  <2>9. \A j \in Tasks!Works \ v4' : v2'[j] = "cancelling" =>
            \E u \in Waiters : v3'[u].task = j /\ v3'[u].drain
      BY <1>1, <2>1, <2>2
  <2> QED
      BY <1>1, <1>5, <2>1, <2>2, <2>4, <2>7, <2>8, <2>9
<1> QED
    BY <1>2, <1>3, <1>4, <1>5, <1>1
\* The caller that cancelled the task has waited for its end: the task it
\* drained is cancelled, not cancelling.
LEMMA TasksDrained ==
    ASSUME Tasks!ShareInv, NEW w \in Waiters, Tasks!Drained(w)
    PROVE  Tasks!ShareInv'
<1> USE DEF Tasks!ShareInv, Tasks!TypeOK, Tasks!NoWait, Tasks!EntryCounts
<1> PICK no \in BOOLEAN : no = FALSE
    OBVIOUS
<1> DEFINE r == [task |-> 0, drain |-> no]
<1>1. /\ UNCHANGED <<v1, v2, v4>> /\ v3' = [v3 EXCEPT ![w] = r]
      /\ v3[w].drain /\ v2[v3[w].task] = "cancelled"
    BY DEF Tasks!Drained
<1>2. /\ v3' \in [Waiters -> [task : Tasks!Works \cup {0}, drain : BOOLEAN]]
      /\ v3'[w] = r /\ \A u \in Waiters \ {w} : v3'[u] = v3[u]
    BY <1>1
<1>3. v1.task # 0 => Tasks!Awaiting(v1.task)' = Tasks!Awaiting(v1.task)
    BY <1>1, <1>2 DEF Tasks!Awaiting
<1>4. Tasks!EntryCounts'
    BY <1>1, <1>3, TasksCount
<1>5. Tasks!SharedWorkSurvives'
    BY <1>1, <1>2 DEF Tasks!SharedWorkSurvives
<1>6. \A j \in Tasks!Works \ v4' : v2'[j] = "cancelling" =>
          \E u \in Waiters : v3'[u].task = j /\ v3'[u].drain
    BY <1>1, <1>2
<1> QED
    BY <1>1, <1>2, <1>4, <1>5, <1>6

\* cancel_all sweeps the task of the entry.
LEMMA TasksCancelAll ==
    ASSUME Tasks!ShareInv, Tasks!CancelAll
    PROVE  Tasks!ShareInv'
<1> USE DEF Tasks!ShareInv, Tasks!TypeOK, Tasks!NoEntry, Tasks!EntryCounts
<1> PICK i \in Tasks!Works : i = v1.task
    BY DEF Tasks!CancelAll
<1> PICK s \in {"done", "cancelling"} : v2' = [v2 EXCEPT ![i] = s]
    BY DEF Tasks!CancelAll
<1>1. /\ v1' = [task |-> 0, waiters |-> 0] /\ v3' = v3 /\ v4' = v4 \cup {i}
    BY DEF Tasks!CancelAll
<1>2. /\ v2' \in [Tasks!Works -> {"none", "running", "done", "cancelling", "cancelled"}]
      /\ v2'[i] = s /\ \A j \in Tasks!Works \ {i} : v2'[j] = v2[j]
    OBVIOUS
<1>3. Tasks!SharedWorkSurvives'
    BY <1>1, <1>2 DEF Tasks!SharedWorkSurvives
<1>4. \A j \in Tasks!Works : v2'[j] # "running"
    BY <1>2
<1> QED
    BY <1>1, <1>2, <1>3, <1>4

\* Every step of the registry and its callers preserves the invariant.
LEMMA TasksStep ==
    ASSUME Tasks!ShareInv, [Tasks!Next]_TaskVars
    PROVE  Tasks!ShareInv'
<1>1. CASE UNCHANGED TaskVars
    BY <1>1 DEF TaskVars, Tasks!ShareInv, Tasks!TypeOK, Tasks!EntryCounts, Tasks!Awaiting,
                Tasks!SharedWorkSurvives
<1>2. CASE \E w \in Waiters : Tasks!Share(w)
    BY <1>2, TasksJoin, TasksCreate
<1>3. CASE \E w \in Waiters : Tasks!Resume(w) \/ Tasks!Cancelled(w)
    BY <1>3, TasksLeave DEF Tasks!Resume, Tasks!Cancelled
<1>4. CASE \E w \in Waiters : Tasks!Drained(w)
    BY <1>4, TasksDrained
<1>5. CASE \E i \in Tasks!Works : Tasks!Finish(i)
    BY <1>5, TasksFinish
<1>6. CASE Tasks!CancelAll
    BY <1>6, TasksCancelAll
<1> QED
    BY <1>1, <1>2, <1>3, <1>4, <1>5, <1>6 DEF Tasks!Next

\* A running task has a caller, because its entry counts one; and it is the
\* only one, because the key has one entry.
LEMMA TasksObserved == Tasks!ShareInv => Tasks!NoOrphanWork
<1> SUFFICES ASSUME Tasks!ShareInv PROVE Tasks!NoOrphanWork
    OBVIOUS
<1> USE DEF Tasks!ShareInv, Tasks!TypeOK
<1>1. \A i \in Tasks!Works \ v4 : v2[i] = "running" => \E w \in Waiters : v3[w].task = i
  <2> SUFFICES ASSUME NEW i \in Tasks!Works, v2[i] = "running"
               PROVE  \E w \in Waiters : v3[w].task = i
      OBVIOUS
  <2>1. v1.task = i /\ i # 0
      BY PlatformAssumption DEF Tasks!Works
  <2>2. Cardinality(Tasks!Awaiting(i)) # 0
      BY <2>1, TasksCount DEF Tasks!EntryCounts
  <2>3. Tasks!Awaiting(i) # {}
      BY <2>2, FS_EmptySet
  <2> QED
      BY <2>3 DEF Tasks!Awaiting
<1>2. \A i \in Tasks!Works \ v4 : v2[i] = "cancelling" => \E w \in Waiters : v3[w].task = i
    OBVIOUS
<1>3. Cardinality({i \in Tasks!Works : v2[i] = "running"}) <= 1
  <2> DEFINE R == {i \in Tasks!Works : v2[i] = "running"}
  <2>1. R \subseteq {v1.task}
      OBVIOUS
  <2> HIDE DEF R
  <2>2. IsFiniteSet({v1.task}) /\ Cardinality({v1.task}) = 1
      BY FS_Singleton
  <2>3. Cardinality(R) <= Cardinality({v1.task})
    <3> HIDE DEF Tasks!ShareInv, Tasks!TypeOK
    <3> QED
        BY <2>1, <2>2, FS_Subset
  <2> QED
      BY <2>2, <2>3 DEF R
<1> QED
    BY <1>1, <1>2, <1>3, TasksCount DEF Tasks!NoOrphanWork

\* Shared analysis tasks, with any number of callers and tasks: the work a
\* caller still awaits is never cancelled under it but by cancel_all, and no
\* work runs on that nobody awaits.
THEOREM TasksSurvive == Spec => []SharedWorkSurvives
<1> DEFINE Inv == machine = "tasks" => Tasks!ShareInv
<1>1. Init => Inv
    BY TasksStart DEF Init
<1>2. Inv /\ [Next]_vars => Inv'
  <2> SUFFICES ASSUME Inv, [Next]_vars, machine = "tasks" PROVE Tasks!ShareInv'
      BY DEF Next, vars
  <2>1. [Tasks!Next]_TaskVars
      BY DEF Next, vars, TaskVars
  <2> QED
      BY <2>1, TasksStep
<1>3. Inv => SharedWorkSurvives
    BY TasksObserved DEF SharedWorkSurvives, Tasks!ShareInv
<1> QED
    BY <1>1, <1>2, <1>3, PTL DEF Spec
----------------------------------------------------------------------------
(* Disk generations of the catalog store (catalog/store.py).               *)

DiskVars == <<v1, v2, v3, v4, v5, v6, v7, v8>>

\* A store that is bound to another fingerprint has let go of its connection.
LEMMA DiskBound ==
    ASSUME NEW r \in Disk!Records, NEW x \in Disk!Databases
    PROVE  /\ Disk!Bound(r, x) \in Disk!Records
           /\ Disk!Bound(r, x).path = x
           /\ Disk!Bound(r, x).conn # 0 => Disk!Bound(r, x) = r
           /\ Disk!Bound(r, x) = r \/ Disk!Bound(r, x).held.inode = 0
BY DEF Disk!Bound, Disk!Records, Disk!NoLock, Disk!Locks, Disk!Databases

LEMMA DiskStart == Disk!Init => Disk!LockInv
<1> SUFFICES ASSUME Disk!Init PROVE Disk!LockInv
    OBVIOUS
<1> USE DEF Disk!Init, Disk!FreshStore, Disk!NoGc, Disk!NoLock
<1>1. Disk!FreshStore \in Disk!Records /\ Disk!NoGc \in Disk!Collections
    BY DEF Disk!Records, Disk!Collections, Disk!Locks, Disk!Databases
<1>2. Disk!TypeOK
    BY <1>1 DEF Disk!TypeOK
<1> QED
    BY <1>2 DEF Disk!LockInv, Disk!HoldsItsOwn, Disk!Opening, Disk!Removing

\* A step of one store that takes no lock leaves all locks exclusive.
LEMMA DiskKeeps ==
    ASSUME Disk!LockInv, Disk!TypeOK', NEW s \in Stores, Disk!HoldsItsOwn(s)',
           \A t \in Stores \ {s} : v4'[t] = v4[t] /\ v5'[t] = v5[t] /\ v6'[t] = v6[t],
           Disk!Removing(s)' => /\ Disk!Removing(s)
                                /\ v6'[s].target = v6[s].target /\ v6'[s].fd = v6[s].fd,
           \A x \in Disk!Databases : \A n \in Nat \ {0} : Disk!Shares(s, x, n)' => Disk!Shares(s, x, n)
    PROVE  Disk!LockInv'
<1>1. \A t \in Stores : Disk!HoldsItsOwn(t)'
    BY DEF Disk!LockInv, Disk!HoldsItsOwn, Disk!Opening
<1>2. \A t \in Stores : Disk!Removing(t)' =>
          /\ Disk!Removing(t) /\ v6'[t].target = v6[t].target /\ v6'[t].fd = v6[t].fd
          /\ v6[t].target \in Disk!Databases /\ v6[t].fd \in Nat \ {0}
    BY DEF Disk!Removing, Disk!LockInv, Disk!HoldsItsOwn, Disk!TypeOK, Disk!Collections
<1>3. \A t \in Stores : \A x \in Disk!Databases : \A n \in Nat \ {0} :
          Disk!Shares(t, x, n)' => Disk!Shares(t, x, n)
    BY DEF Disk!Shares
<1> QED
    BY <1>1, <1>2, <1>3 DEF Disk!LockInv
\* The lease file of a name is opened, made if it is missing.
LEMMA DiskCreateLease ==
    ASSUME Disk!TypeOK, NEW x \in Disk!Databases, Disk!CreateLease(x)
    PROVE  /\ v2' \in [Disk!Databases -> Nat]
           /\ v3' \in [Disk!Databases -> [db : Nat, lease : Nat]]
           /\ Disk!LeaseInode(x) \in Nat \ {0}
<1> USE DEF Disk!TypeOK
<1>1. Disk!LeaseInode(x) \in Nat \ {0}
    BY DEF Disk!LeaseInode
<1>2. v2' \in [Disk!Databases -> Nat]
    BY <1>1 DEF Disk!CreateLease
<1> PICK n \in Nat : n = IF v2[x] # 0 THEN v3[x].lease ELSE v3[x].lease + 1
    OBVIOUS
<1>3. v3' = [v3 EXCEPT ![x].lease = n]
    BY DEF Disk!CreateLease
<1>4. [v3[x] EXCEPT !.lease = n] \in [db : Nat, lease : Nat]
    OBVIOUS
<1> QED
    BY <1>1, <1>2, <1>3, <1>4

\* open() with the record r: a connection is kept, otherwise the lease is opened.
LEMMA DiskBeginOpen ==
    ASSUME Disk!LockInv, NEW s \in Stores, v5[s] = "idle",
           NEW r \in Disk!Records, Disk!BeginOpen(s, r),
           r.conn # 0 => r.held = v4[s].held /\ r.path = v4[s].path /\ v4[s].conn # 0,
           UNCHANGED <<v1, v6, v7, v8>>
    PROVE  Disk!LockInv'
<1> USE DEF Disk!LockInv
<1>1. CASE r.conn # 0
  <2>1. /\ v4' = [v4 EXCEPT ![s] = r] /\ v2' = v2 /\ v3' = v3
        /\ \E p \in {"commit", "idle"} : v5' = [v5 EXCEPT ![s] = p]
      BY <1>1 DEF Disk!BeginOpen
  <2>2. Disk!TypeOK'
      BY <2>1 DEF Disk!TypeOK
  <2>3. v4'[s] = r /\ v5'[s] \in {"commit", "idle"} /\ v6' = v6
      BY <2>1 DEF Disk!TypeOK
  <2>4. \A t \in Stores \ {s} : v4'[t] = v4[t] /\ v5'[t] = v5[t] /\ v6'[t] = v6[t]
      BY <2>1 DEF Disk!TypeOK
  <2>5. Disk!HoldsItsOwn(s)' /\ ~Disk!Removing(s)'
      BY <1>1, <2>3 DEF Disk!HoldsItsOwn, Disk!Opening, Disk!Removing
  <2>6. \A x \in Disk!Databases : \A n \in Nat \ {0} : Disk!Shares(s, x, n)' => Disk!Shares(s, x, n)
      BY <1>1, <2>3 DEF Disk!Shares
  <2> QED
      BY <2>2, <2>4, <2>5, <2>6, DiskKeeps
<1>2. CASE r.conn = 0
  <2> DEFINE lock == [path |-> r.path, inode |-> Disk!LeaseInode(r.path)]
             q == [r EXCEPT !.ready = FALSE, !.held = lock]
  <2>1. /\ v5' = [v5 EXCEPT ![s] = "flock"] /\ Disk!CreateLease(r.path)
        /\ v4' = [v4 EXCEPT ![s] = q]
      BY <1>2 DEF Disk!BeginOpen
  <2>2. r.path \in Disk!Databases
      BY DEF Disk!Records
  <2>3. lock \in Disk!Locks /\ lock.path = r.path /\ lock.inode # 0
      BY <2>1, <2>2, DiskCreateLease DEF Disk!Locks
  <2>4. q \in Disk!Records /\ q.held = lock /\ q.path = r.path /\ q.conn = 0
    <3> HIDE DEF lock
    <3> QED
        BY <1>2, <2>3 DEF Disk!Records
  <2> HIDE DEF q
  <2>5. Disk!TypeOK'
      BY <2>1, <2>2, <2>4, DiskCreateLease DEF Disk!TypeOK
  <2>6. v4'[s] = q /\ v5'[s] = "flock" /\ v6' = v6
      BY <2>1 DEF Disk!TypeOK
  <2>7. \A t \in Stores \ {s} : v4'[t] = v4[t] /\ v5'[t] = v5[t] /\ v6'[t] = v6[t]
      BY <2>1 DEF Disk!TypeOK
  <2>8. Disk!HoldsItsOwn(s)' /\ ~Disk!Removing(s)'
      BY <2>3, <2>4, <2>6 DEF Disk!HoldsItsOwn, Disk!Opening, Disk!Removing
  <2>9. \A x \in Disk!Databases : \A n \in Nat \ {0} : Disk!Shares(s, x, n)' => Disk!Shares(s, x, n)
      BY <2>6 DEF Disk!Shares
  <2> QED
      BY <2>5, <2>7, <2>8, <2>9, DiskKeeps
<1> QED
    BY <1>1, <1>2 DEF Disk!Records

\* publish binds the fingerprint first.
LEMMA DiskPublish ==
    ASSUME Disk!LockInv, NEW s \in Stores, NEW f \in Fingerprints, Disk!Publish(s, f), v8' = v8
    PROVE  Disk!LockInv'
<1>1. v4[s] \in Disk!Records /\ f \in Disk!Databases
    BY DEF Disk!LockInv, Disk!TypeOK, Disk!Databases
<1> PICK b \in Disk!Records : /\ b = Disk!Bound(v4[s], f) 
                              /\ b.conn # 0 => b = v4[s]
    BY <1>1, DiskBound
<1> DEFINE r == [b EXCEPT !.then = "publish"]
<1>2. r \in Disk!Records /\ r.conn = b.conn /\ r.held = b.held /\ r.path = b.path
    BY DEF Disk!Records
<1>3. v5[s] = "idle" /\ Disk!BeginOpen(s, r) /\ UNCHANGED <<v1, v6, v7, v8>>
    BY DEF Disk!Publish
<1> HIDE DEF r
<1> QED
    BY <1>2, <1>3, DiskBeginOpen
\* load with a fingerprint that has no database only binds it.
LEMMA DiskLoad ==
    ASSUME Disk!LockInv, NEW s \in Stores, NEW f \in Fingerprints, Disk!Load(s, f), v8' = v8
    PROVE  Disk!LockInv'
<1>1. v4[s] \in Disk!Records /\ f \in Disk!Databases
    BY DEF Disk!LockInv, Disk!TypeOK, Disk!Databases
<1> PICK b \in Disk!Records : /\ b = Disk!Bound(v4[s], f)
                              /\ b.conn # 0 => b = v4[s]
                              /\ b = v4[s] \/ b.held.inode = 0
    BY <1>1, DiskBound
<1>2. v5[s] = "idle" /\ UNCHANGED <<v1, v6, v7, v8>>
    BY DEF Disk!Load
<1>3. CASE v1[f] = 0
  <2>1. v4' = [v4 EXCEPT ![s] = b] /\ UNCHANGED <<v2, v3, v5>>
      BY <1>3 DEF Disk!Load
  <2>2. Disk!TypeOK'
      BY <1>2, <2>1 DEF Disk!LockInv, Disk!TypeOK
  <2>3. v4'[s] = b /\ v5' = v5 /\ v6' = v6
      BY <1>2, <2>1 DEF Disk!LockInv, Disk!TypeOK
  <2>4. \A t \in Stores \ {s} : v4'[t] = v4[t] /\ v5'[t] = v5[t] /\ v6'[t] = v6[t]
      BY <1>2, <2>1 DEF Disk!LockInv, Disk!TypeOK
  <2>5. Disk!HoldsItsOwn(s)' /\ ~Disk!Removing(s)'
      BY <1>2, <2>3 DEF Disk!LockInv, Disk!HoldsItsOwn, Disk!Opening, Disk!Removing
  <2>6. \A x \in Disk!Databases : \A n \in Nat \ {0} : Disk!Shares(s, x, n)' => Disk!Shares(s, x, n)
      BY <1>2, <2>3 DEF Disk!Shares
  <2> QED
      BY <2>2, <2>4, <2>5, <2>6, DiskKeeps
<1>4. CASE v1[f] # 0
  <2> DEFINE r == [b EXCEPT !.then = "load"]
  <2>1. r \in Disk!Records /\ r.conn = b.conn /\ r.held = b.held /\ r.path = b.path
      BY DEF Disk!Records
  <2>2. Disk!BeginOpen(s, r)
      BY <1>4 DEF Disk!Load
  <2> HIDE DEF r
  <2> QED
      BY <1>2, <2>1, <2>2, DiskBeginOpen
<1> QED
    BY <1>3, <1>4

\* load without a fingerprint takes a file there is, or the unbound name.
LEMMA DiskLoadLatest ==
    ASSUME Disk!LockInv, NEW s \in Stores, Disk!LoadLatest(s), v8' = v8
    PROVE  Disk!LockInv'
<1> PICK x \in Disk!Databases : Disk!BeginOpen(s, [v4[s] EXCEPT !.path = x, !.then = "load"])
    BY DEF Disk!LoadLatest
<1> DEFINE r == [v4[s] EXCEPT !.path = x, !.then = "load"]
<1>1. v5[s] = "idle" /\ v4[s].conn = 0 /\ UNCHANGED <<v1, v6, v7, v8>>
    BY DEF Disk!LoadLatest
<1>2. v4[s] \in Disk!Records
    BY DEF Disk!LockInv, Disk!TypeOK
<1>3. r \in Disk!Records /\ r.conn = 0
    BY <1>1, <1>2 DEF Disk!Records
<1> HIDE DEF r
<1> QED
    BY <1>1, <1>3, DiskBeginOpen DEF r

\* The shared flock is granted only when nobody removes under the same inode.
LEMMA DiskFlockShared ==
    ASSUME Disk!LockInv, NEW s \in Stores, Disk!FlockShared(s), v8' = v8
    PROVE  Disk!LockInv'
<1> DEFINE x == v4[s].path
           n == v4[s].held.inode
<1>1. v5[s] = "flock" /\ UNCHANGED <<v1, v2, v3, v6, v7, v8>>
    BY DEF Disk!FlockShared
<1>2. CASE Disk!ExclusiveHolders(x, n) = {}
  <2>1. v4' = v4 /\ v5' = [v5 EXCEPT ![s] = "connect"]
      BY <1>2 DEF Disk!FlockShared
  <2>2. Disk!TypeOK'
      BY <1>1, <2>1 DEF Disk!LockInv, Disk!TypeOK
  <2>3. /\ v5'[s] = "connect" /\ \A t \in Stores \ {s} : v5'[t] = v5[t]
      BY <2>1 DEF Disk!LockInv, Disk!TypeOK
  <2>4. \A t \in Stores : Disk!HoldsItsOwn(t)'
      BY <1>1, <2>1, <2>3 DEF Disk!LockInv, Disk!HoldsItsOwn, Disk!Opening
  <2>5. \A t \in Stores : Disk!Removing(t)' => Disk!Removing(t)
      BY <2>3 DEF Disk!Removing
  <2>6. v4[s].held.path = x
      BY <1>1 DEF Disk!LockInv, Disk!HoldsItsOwn, Disk!Opening
  <2>7. \A t \in Stores : Disk!Removing(t) => ~Disk!Shares(s, v6[t].target, v6[t].fd)'
    <3> SUFFICES ASSUME NEW t \in Stores, Disk!Removing(t), Disk!Shares(s, v6[t].target, v6[t].fd)'
                 PROVE  FALSE
        OBVIOUS
    <3>1. v4[s].held = [path |-> v6[t].target, inode |-> v6[t].fd]
        BY <1>1, <2>1 DEF Disk!Shares
    <3>2. v6[t].target = x /\ v6[t].fd = n
        BY <3>1, <2>6
    <3> HIDE DEF x, n
    <3> QED
        BY <1>2, <3>2 DEF Disk!ExclusiveHolders, Disk!Removing
  <2>8. \A t \in Stores \ {s} : \A y, m : Disk!Shares(t, y, m)' => Disk!Shares(t, y, m)
      BY <2>1, <2>3 DEF Disk!Shares
  <2>9. \A t, u \in Stores : Disk!Removing(t)' =>
            /\ ~Disk!Shares(u, v6[t].target, v6[t].fd)'
            /\ t # u /\ Disk!Removing(u)' => <<v6[t].target, v6[t].fd>> # <<v6[u].target, v6[u].fd>>
    <3> SUFFICES ASSUME NEW t \in Stores, NEW u \in Stores, Disk!Removing(t)'
                 PROVE  /\ ~Disk!Shares(u, v6[t].target, v6[t].fd)'
                        /\ t # u /\ Disk!Removing(u)' =>
                               <<v6[t].target, v6[t].fd>> # <<v6[u].target, v6[u].fd>>
        OBVIOUS
    <3>1. Disk!Removing(t) /\ (Disk!Removing(u)' => Disk!Removing(u))
        BY <2>5
    <3>2. ~Disk!Shares(u, v6[t].target, v6[t].fd)'
        BY <1>1, <3>1, <2>7, <2>8 DEF Disk!LockInv
    <3> QED
        BY <3>1, <3>2 DEF Disk!LockInv
  <2> QED
      BY <1>1, <2>2, <2>4, <2>9 DEF Disk!LockInv
<1>3. CASE Disk!ExclusiveHolders(x, n) # {}
  <2> DEFINE q == Disk!Refused(s, v4[s])
  <2>0. v5' = [v5 EXCEPT ![s] = "idle"]
      BY <1>3 DEF Disk!FlockShared
  <2>1. v4' = [v4 EXCEPT ![s] = q]
      BY <1>3 DEF Disk!FlockShared
  <2>2. /\ v4[s] \in Disk!Records /\ v4[s].conn = 0 /\ Disk!NoLock \in Disk!Locks
        /\ Disk!NoLock.inode = 0
      BY <1>1 DEF Disk!LockInv, Disk!TypeOK, Disk!HoldsItsOwn, Disk!Opening, Disk!NoLock,
                  Disk!Locks, Disk!Databases
  <2>3. q \in Disk!Records /\ q.conn = 0 /\ q.held = Disk!NoLock
      BY <2>2 DEF Disk!Refused, Disk!Records
  <2> HIDE DEF q
  <2>4. Disk!TypeOK'
      BY <1>1, <2>0, <2>1, <2>3 DEF Disk!LockInv, Disk!TypeOK
  <2>5. v4'[s] = q /\ v5'[s] = "idle"
      BY <2>0, <2>1 DEF Disk!LockInv, Disk!TypeOK
  <2>6. \A t \in Stores \ {s} : v4'[t] = v4[t] /\ v5'[t] = v5[t] /\ v6'[t] = v6[t]
      BY <1>1, <2>0, <2>1 DEF Disk!LockInv, Disk!TypeOK
  <2>7. Disk!HoldsItsOwn(s)' /\ ~Disk!Removing(s)'
      BY <2>3, <2>5 DEF Disk!HoldsItsOwn, Disk!Opening, Disk!Removing
  <2>8. \A y \in Disk!Databases : \A m \in Nat \ {0} : Disk!Shares(s, y, m)' => Disk!Shares(s, y, m)
      BY <2>2, <2>3, <2>5 DEF Disk!Shares
  <2> QED
      BY <2>4, <2>6, <2>7, <2>8, DiskKeeps
<1> QED
    BY <1>2, <1>3
\* A step of one store that takes no lock: it keeps the lease it has or lets go
\* of it, and it does not remove anything it did not remove before.
LetsGo(s) ==
    \/ v4'[s].conn = 0 /\ v4'[s].held.inode = 0
    \/ /\ v4'[s].held = v4[s].held /\ v4'[s].path = v4[s].path
       /\ v4'[s].conn # 0 => v4[s].conn # 0 \/ v5[s] = "connect"
TakesNothing(s) ==
    \/ v5'[s] \notin {"exflock", "unlink", "unlinkLease", "unlock"}
    \/ v5'[s] = "exflock" /\ v6'[s].fd # 0
    \/ Disk!Removing(s) /\ v6'[s] = v6[s]
OnlyOf(s) == \A t \in Stores \ {s} : v4'[t] = v4[t] /\ v5'[t] = v5[t] /\ v6'[t] = v6[t]

LEMMA DiskQuiet ==
    ASSUME Disk!LockInv, Disk!TypeOK', NEW s \in Stores,
           v5[s] # "flock", v5'[s] \notin {"flock", "connect"},
           OnlyOf(s), LetsGo(s), TakesNothing(s)
    PROVE  Disk!LockInv'
<1> USE DEF OnlyOf, LetsGo, TakesNothing
<1>1. Disk!HoldsItsOwn(s)'
    BY DEF Disk!LockInv, Disk!HoldsItsOwn, Disk!Opening, Disk!Removing
<1>2. Disk!Removing(s)' => /\ Disk!Removing(s)
                           /\ v6'[s].target = v6[s].target /\ v6'[s].fd = v6[s].fd
    BY DEF Disk!Removing
<1>3. \A x \in Disk!Databases : \A n \in Nat \ {0} : Disk!Shares(s, x, n)' => Disk!Shares(s, x, n)
    BY DEF Disk!Shares
<1> QED
    BY <1>1, <1>2, <1>3, DiskKeeps

\* connect, commit and close.
LEMMA DiskConnect ==
    ASSUME Disk!LockInv, NEW s \in Stores, Disk!Connect(s), v8' = v8
    PROVE  Disk!LockInv'
<1> USE DEF Disk!LockInv, Disk!TypeOK
<1> DEFINE x == v4[s].path
<1>1. v4[s] \in Disk!Records /\ x \in Disk!Databases /\ v5[s] = "connect"
    BY DEF Disk!Connect, Disk!Records
<1> PICK n \in Nat : n = IF v1[x] # 0 THEN v1[x] ELSE v3[x].db + 1
    BY <1>1
<1> PICK m \in Nat : m = IF v1[x] # 0 THEN v3[x].db ELSE n
    BY <1>1
<1>2. /\ v1' = [v1 EXCEPT ![x] = n] /\ v3' = [v3 EXCEPT ![x].db = m]
      /\ v4' = [v4 EXCEPT ![s] = Disk!Connected(v4[s], n)]
      /\ \E p \in {"commit", "idle"} : v5' = [v5 EXCEPT ![s] = p]
      /\ UNCHANGED <<v2, v6, v7, v8>>
    BY DEF Disk!Connect
<1>3. [v3[x] EXCEPT !.db = m] \in [db : Nat, lease : Nat]
    BY <1>1
<1>4. /\ Disk!Connected(v4[s], n) \in Disk!Records
      /\ Disk!Connected(v4[s], n).held = v4[s].held /\ Disk!Connected(v4[s], n).path = v4[s].path
    BY <1>1 DEF Disk!Connected, Disk!Records
<1>5. Disk!TypeOK'
  <2>1. v3' \in [Disk!Databases -> [db : Nat, lease : Nat]]
      BY <1>1, <1>2, <1>3
  <2> QED
      BY <2>1, <1>1, <1>2, <1>4
<1>6. /\ v4'[s] = Disk!Connected(v4[s], n) /\ v5'[s] \in {"commit", "idle"}
      /\ \A t \in Stores \ {s} : v4'[t] = v4[t] /\ v5'[t] = v5[t] /\ v6'[t] = v6[t]
    BY <1>2
<1> HIDE DEF Disk!LockInv, Disk!TypeOK
<1>10. /\ v5[s] # "flock" /\ v5'[s] \notin {"flock", "connect"}
        /\ OnlyOf(s) /\ LetsGo(s) /\ TakesNothing(s)
    BY <1>1, <1>4, <1>5, <1>6 DEF OnlyOf, LetsGo, TakesNothing, Disk!Removing
<1> QED
    BY <1>1, <1>4, <1>5, <1>6, <1>10, DiskQuiet

LEMMA DiskCollection ==
    ASSUME NEW x \in Disk!Databases
    PROVE  Disk!Collection(x) \in Disk!Collections
BY DEF Disk!Collection, Disk!Collections, Disk!Databases

LEMMA DiskCommit ==
    ASSUME Disk!LockInv, NEW s \in Stores, Disk!Commit(s), v8' = v8
    PROVE  Disk!LockInv'
<1> USE DEF Disk!LockInv, Disk!TypeOK
<1> DEFINE q == [v4[s] EXCEPT !.then = "none"]
           c == Disk!Collection(v4[s].path)
<1>1. /\ v5[s] = "commit" /\ v4' = [v4 EXCEPT ![s] = q] /\ v6' = [v6 EXCEPT ![s] = c]
      /\ v5' = [v5 EXCEPT ![s] = "collect"] /\ UNCHANGED <<v1, v2, v3, v7, v8>>
    BY DEF Disk!Commit
<1>2. q \in Disk!Records /\ q.held = v4[s].held /\ q.path = v4[s].path /\ q.conn = v4[s].conn
    BY DEF Disk!Records
<1>3. c \in Disk!Collections
    BY DiskCollection DEF Disk!Records
<1> HIDE DEF q, c
<1>4. Disk!TypeOK'
    BY <1>1, <1>2, <1>3
<1>5. /\ v4'[s] = q /\ v5'[s] = "collect"
      /\ \A t \in Stores \ {s} : v4'[t] = v4[t] /\ v5'[t] = v5[t] /\ v6'[t] = v6[t]
    BY <1>1
<1> HIDE DEF Disk!LockInv, Disk!TypeOK
<1>10. /\ v5[s] # "flock" /\ v5'[s] \notin {"flock", "connect"}
        /\ OnlyOf(s) /\ LetsGo(s) /\ TakesNothing(s)
    BY <1>1, <1>2, <1>4, <1>5 DEF OnlyOf, LetsGo, TakesNothing, Disk!Removing
<1> QED
    BY <1>1, <1>2, <1>4, <1>5, <1>10, DiskQuiet

LEMMA DiskClose ==
    ASSUME Disk!LockInv, NEW s \in Stores, Disk!Close(s), v8' = v8
    PROVE  Disk!LockInv'
<1> USE DEF Disk!LockInv, Disk!TypeOK
<1> DEFINE q == Disk!Released(v4[s])
           c == Disk!Collection(v4[s].path)
<1>1. /\ v5[s] = "idle" /\ v4' = [v4 EXCEPT ![s] = q] /\ UNCHANGED <<v1, v2, v3, v7, v8>>
      /\ \/ UNCHANGED <<v5, v6>>
         \/ v5' = [v5 EXCEPT ![s] = "collect"] /\ v6' = [v6 EXCEPT ![s] = c]
    BY DEF Disk!Close
<1>2. Disk!NoLock \in Disk!Locks /\ Disk!NoLock.inode = 0
    BY DEF Disk!NoLock, Disk!Locks, Disk!Databases
<1>3. q \in Disk!Records /\ q.held.inode = 0 /\ q.conn = 0
    BY <1>2 DEF Disk!Released, Disk!Records
<1>4. c \in Disk!Collections
    BY DiskCollection DEF Disk!Records
<1> HIDE DEF q, c
<1>5. Disk!TypeOK'
    BY <1>1, <1>3, <1>4
<1>6. /\ v4'[s] = q /\ v5'[s] \in {"idle", "collect"}
      /\ \A t \in Stores \ {s} : v4'[t] = v4[t] /\ v5'[t] = v5[t] /\ v6'[t] = v6[t]
    BY <1>1
<1> HIDE DEF Disk!LockInv, Disk!TypeOK
<1>10. /\ v5[s] # "flock" /\ v5'[s] \notin {"flock", "connect"}
        /\ OnlyOf(s) /\ LetsGo(s) /\ TakesNothing(s)
    BY <1>1, <1>3, <1>5, <1>6 DEF OnlyOf, LetsGo, TakesNothing, Disk!Removing
<1> QED
    BY <1>1, <1>3, <1>5, <1>6, <1>10, DiskQuiet
\* A collection: it opens the lease file of its target first.
LEMMA DiskBeginRemove ==
    ASSUME Disk!LockInv, NEW s \in Stores, v5[s] = "collect", NEW x \in Disk!Databases,
           NEW g \in Disk!Collections, Disk!BeginRemove(s, x, g), UNCHANGED <<v1, v4, v7, v8>>
    PROVE  Disk!LockInv'
<1> USE DEF Disk!LockInv, Disk!TypeOK
<1> DEFINE q == [g EXCEPT !.target = x, !.fd = Disk!LeaseInode(x)]
<1>1. /\ Disk!CreateLease(x) /\ v6' = [v6 EXCEPT ![s] = q]
      /\ v5' = [v5 EXCEPT ![s] = "exflock"]
    BY DEF Disk!BeginRemove
<1>2. /\ v2' \in [Disk!Databases -> Nat] /\ v3' \in [Disk!Databases -> [db : Nat, lease : Nat]]
      /\ Disk!LeaseInode(x) \in Nat \ {0}
    BY <1>1, DiskCreateLease
<1>3. q \in Disk!Collections /\ q.fd # 0
    BY <1>2 DEF Disk!Collections
<1> HIDE DEF q
<1>4. Disk!TypeOK'
    BY <1>1, <1>2, <1>3
<1>5. /\ v6'[s] = q /\ v5'[s] = "exflock"
      /\ \A t \in Stores \ {s} : v4'[t] = v4[t] /\ v5'[t] = v5[t] /\ v6'[t] = v6[t]
    BY <1>1
<1> HIDE DEF Disk!LockInv, Disk!TypeOK
<1>10. /\ v5[s] # "flock" /\ v5'[s] \notin {"flock", "connect"}
        /\ OnlyOf(s) /\ LetsGo(s) /\ TakesNothing(s)
    BY <1>3, <1>4, <1>5 DEF OnlyOf, LetsGo, TakesNothing, Disk!Removing
<1> QED
    BY <1>3, <1>4, <1>5, <1>10, DiskQuiet

LEMMA DiskCollectUnbound ==
    ASSUME Disk!LockInv, NEW s \in Stores, Disk!CollectUnbound(s), v8' = v8
    PROVE  Disk!LockInv'
<1> DEFINE g == [v6[s] EXCEPT !.then = "none"]
<1>1. g \in Disk!Collections /\ unbound \in Disk!Databases
    BY DEF Disk!LockInv, Disk!TypeOK, Disk!Collections, Disk!Databases
<1>2. v5[s] = "collect" /\ Disk!BeginRemove(s, unbound, g) /\ UNCHANGED <<v1, v4, v7, v8>>
    BY DEF Disk!CollectUnbound
<1> HIDE DEF g
<1> QED
    BY <1>1, <1>2, DiskBeginRemove

\* A candidate that is kept changes only what the collection has counted.
LEMMA DiskRetained ==
    ASSUME NEW g \in Disk!Collections, NEW x
    PROVE  /\ Disk!Retained(g, x) \in Disk!Collections
           /\ Disk!Retained(g, x).fd = g.fd /\ Disk!Retained(g, x).target = g.target
<1> PICK c \in Nat, z \in Nat : c = g.count + 1 /\ z = g.size + 1
    BY DEF Disk!Collections
<1>1. Disk!Retained(g, x) = [g EXCEPT !.todo = g.todo \ {x}, !.count = c, !.size = z]
    BY DEF Disk!Retained, Disk!Collections
<1>2. g.todo \ {x} \in SUBSET Disk!Databases
    BY DEF Disk!Collections
<1> QED
    BY <1>1, <1>2 DEF Disk!Collections

LEMMA DiskCollect ==
    ASSUME Disk!LockInv, NEW s \in Stores, NEW x \in Fingerprints, Disk!Collect(s, x), v8' = v8
    PROVE  Disk!LockInv'
<1>1. v6[s] \in Disk!Collections /\ x \in Disk!Databases
    BY DEF Disk!LockInv, Disk!TypeOK, Disk!Databases
<1>2. v5[s] = "collect" /\ UNCHANGED <<v1, v4, v7, v8>>
    BY DEF Disk!Collect
<1> DEFINE g == [v6[s] EXCEPT !.todo = @ \ {x}]
<1>3. CASE Disk!BeginRemove(s, x, g)
  <2>1. g \in Disk!Collections
    <3>1. v6[s].todo \ {x} \in SUBSET Disk!Databases
        BY <1>1 DEF Disk!Collections
    <3> QED
        BY <1>1, <3>1 DEF Disk!Collections
  <2> HIDE DEF g
  <2> QED
      BY <1>1, <1>2, <1>3, <2>1, DiskBeginRemove
<1>4. CASE v6' = [v6 EXCEPT ![s] = Disk!Retained(v6[s], x)] /\ UNCHANGED <<v2, v3, v5>>
  <2>1. Disk!Retained(v6[s], x) \in Disk!Collections
      BY <1>1, DiskRetained
  <2>2. Disk!TypeOK'
      BY <1>2, <1>4, <2>1 DEF Disk!LockInv, Disk!TypeOK
  <2>3. v5'[s] = "collect" /\ \A t \in Stores \ {s} : v4'[t] = v4[t] /\ v5'[t] = v5[t] /\ v6'[t] = v6[t]
      BY <1>2, <1>4 DEF Disk!LockInv, Disk!TypeOK
  <2>4. v4'[s] = v4[s]
      BY <1>2
  <2>10. /\ v5[s] # "flock" /\ v5'[s] \notin {"flock", "connect"}
        /\ OnlyOf(s) /\ LetsGo(s) /\ TakesNothing(s)
      BY <1>2, <2>2, <2>3, <2>4 DEF OnlyOf, LetsGo, TakesNothing, Disk!Removing
  <2> QED
      BY <1>2, <2>2, <2>3, <2>4, <2>10, DiskQuiet
<1> QED
    BY <1>3, <1>4 DEF Disk!Collect

LEMMA DiskEndCollect ==
    ASSUME Disk!LockInv, NEW s \in Stores, Disk!EndCollect(s), v8' = v8
    PROVE  Disk!LockInv'
<1> USE DEF Disk!LockInv, Disk!TypeOK
<1>1. /\ v5[s] = "collect" /\ v6' = [v6 EXCEPT ![s] = Disk!NoGc]
      /\ v5' = [v5 EXCEPT ![s] = "idle"] /\ UNCHANGED <<v1, v2, v3, v4, v7, v8>>
    BY DEF Disk!EndCollect
<1>2. Disk!NoGc \in Disk!Collections
    BY DEF Disk!NoGc, Disk!Collections, Disk!Databases
<1>3. Disk!TypeOK'
    BY <1>1, <1>2
<1>4. v5'[s] = "idle" /\ \A t \in Stores \ {s} : v4'[t] = v4[t] /\ v5'[t] = v5[t] /\ v6'[t] = v6[t]
    BY <1>1
<1> HIDE DEF Disk!LockInv, Disk!TypeOK
<1>10. /\ v5[s] # "flock" /\ v5'[s] \notin {"flock", "connect"}
        /\ OnlyOf(s) /\ LetsGo(s) /\ TakesNothing(s)
    BY <1>1, <1>3, <1>4 DEF OnlyOf, LetsGo, TakesNothing, Disk!Removing
<1> QED
    BY <1>1, <1>3, <1>4, <1>10, DiskQuiet
\* The exclusive flock is granted only when nobody has either lock.
LEMMA DiskFlockExclusive ==
    ASSUME Disk!LockInv, NEW s \in Stores, Disk!FlockExclusive(s), v8' = v8
    PROVE  Disk!LockInv'
<1> DEFINE x == v6[s].target
           n == v6[s].fd
<1>1. v5[s] = "exflock" /\ UNCHANGED <<v1, v2, v3, v4, v7, v8>>
    BY DEF Disk!FlockExclusive
<1>2. CASE Disk!SharedHolders(x, n) \cup Disk!ExclusiveHolders(x, n) = {}
  <2>1. v6' = v6 /\ v5' = [v5 EXCEPT ![s] = "unlink"]
      BY <1>2 DEF Disk!FlockExclusive
  <2>2. Disk!TypeOK'
      BY <1>1, <2>1 DEF Disk!LockInv, Disk!TypeOK
  <2>3. v5'[s] = "unlink" /\ \A t \in Stores \ {s} : v5'[t] = v5[t]
      BY <2>1 DEF Disk!LockInv, Disk!TypeOK
  <2>4. \A t \in Stores : Disk!HoldsItsOwn(t)'
      BY <1>1, <2>1, <2>3 DEF Disk!LockInv, Disk!HoldsItsOwn, Disk!Opening
  <2>5. \A t \in Stores \ {s} : /\ Disk!Removing(t)' = Disk!Removing(t)
                                /\ Disk!Removing(t) => ~(v6[t].target = x /\ v6[t].fd = n)
    <3>1. \A t \in Stores \ {s} : Disk!Removing(t)' = Disk!Removing(t)
        BY <2>3 DEF Disk!Removing
    <3>2. \A t \in Stores \ {s} : Disk!Removing(t) => ~(v6[t].target = x /\ v6[t].fd = n)
        BY <1>2 DEF Disk!Removing, Disk!ExclusiveHolders
    <3> QED
        BY <3>1, <3>2
  <2>6. \A t \in Stores : \A y, m : Disk!Shares(t, y, m)' => Disk!Shares(t, y, m)
      BY <1>1, <2>1, <2>3 DEF Disk!Shares
  <2>7. \A t \in Stores : ~Disk!Shares(t, x, n)
      BY <1>2 DEF Disk!Shares, Disk!SharedHolders
  <2>8. ASSUME NEW t \in Stores, NEW u \in Stores, Disk!Removing(t)'
        PROVE  /\ ~Disk!Shares(u, v6[t].target, v6[t].fd)'
               /\ t # u /\ Disk!Removing(u)' =>
                      <<v6[t].target, v6[t].fd>> # <<v6[u].target, v6[u].fd>>
    <3>1. ~Disk!Shares(u, v6[t].target, v6[t].fd)
        BY <2>5, <2>7, <2>8 DEF Disk!LockInv
    <3>2. ~Disk!Shares(u, v6[t].target, v6[t].fd)'
        BY <3>1, <2>1, <2>6
    <3>3. t # u /\ Disk!Removing(u)' =>
              ~(v6[t].target = v6[u].target /\ v6[t].fd = v6[u].fd)
        BY <2>5, <2>8 DEF Disk!LockInv
    <3> QED
        BY <3>2, <3>3
  <2> QED
      BY <2>1, <2>2, <2>4, <2>8 DEF Disk!LockInv
<1>3. CASE Disk!SharedHolders(x, n) \cup Disk!ExclusiveHolders(x, n) # {}
  <2>1. /\ v5' = [v5 EXCEPT ![s] = "collect"]
        /\ v6' = v6 \/ v6' = [v6 EXCEPT ![s] = Disk!Retained(v6[s], x)]
      BY <1>3 DEF Disk!FlockExclusive
  <2>2. Disk!Retained(v6[s], x) \in Disk!Collections
      BY DiskRetained DEF Disk!LockInv, Disk!TypeOK
  <2>3. Disk!TypeOK'
      BY <1>1, <2>1, <2>2 DEF Disk!LockInv, Disk!TypeOK
  <2>4. /\ v5[s] # "flock" /\ v5'[s] \notin {"flock", "connect"}
        /\ OnlyOf(s) /\ LetsGo(s) /\ TakesNothing(s)
      BY <1>1, <2>1 DEF OnlyOf, LetsGo, TakesNothing, Disk!LockInv, Disk!TypeOK
  <2> QED
      BY <2>3, <2>4, DiskQuiet
<1> QED
    BY <1>2, <1>3

\* unlink, and the end of the exclusive lock.
LEMMA DiskUnlink ==
    ASSUME Disk!LockInv, NEW s \in Stores,
           Disk!Unlink(s) \/ Disk!UnlinkLease(s) \/ Disk!Unlock(s), v8' = v8
    PROVE  Disk!LockInv'
<1>1. /\ Disk!Removing(s) /\ UNCHANGED <<v3, v4, v6, v7, v8>>
      /\ \E p \in {"unlinkLease", "unlock", "collect"} : v5' = [v5 EXCEPT ![s] = p]
      /\ v1' = v1 \/ v1' = [v1 EXCEPT ![v6[s].target] = 0]
      /\ v2' = v2 \/ v2' = [v2 EXCEPT ![v6[s].target] = 0]
    BY DEF Disk!Unlink, Disk!UnlinkLease, Disk!Unlock, Disk!Removing
<1>2. Disk!TypeOK'
  <2>1. v1' \in [Disk!Databases -> Nat] /\ v2' \in [Disk!Databases -> Nat]
      BY <1>1 DEF Disk!LockInv, Disk!TypeOK
  <2> QED
      BY <1>1, <2>1 DEF Disk!LockInv, Disk!TypeOK
<1>3. /\ v5[s] # "flock" /\ v5'[s] \notin {"flock", "connect"}
      /\ OnlyOf(s) /\ LetsGo(s) /\ TakesNothing(s)
    BY <1>1 DEF OnlyOf, LetsGo, TakesNothing, Disk!Removing, Disk!LockInv, Disk!TypeOK
<1> QED
    BY <1>2, <1>3, DiskQuiet

\* The kernel drops the locks of a process that ends.
LEMMA DiskCrash ==
    ASSUME Disk!LockInv, NEW s \in Stores, Disk!Crash(s), v8' = v8
    PROVE  Disk!LockInv'
<1>1. /\ v4' = [v4 EXCEPT ![s] = Disk!FreshStore] /\ v6' = [v6 EXCEPT ![s] = Disk!NoGc]
      /\ v5' = [v5 EXCEPT ![s] = "idle"] /\ v7' \in 0 .. v8.crashes
      /\ UNCHANGED <<v1, v2, v3, v8>>
    BY DEF Disk!Crash, Disk!LockInv, Disk!TypeOK
<1>2. /\ Disk!FreshStore \in Disk!Records /\ Disk!NoGc \in Disk!Collections
      /\ Disk!FreshStore.conn = 0 /\ Disk!FreshStore.held.inode = 0
    BY DEF Disk!FreshStore, Disk!NoGc, Disk!NoLock, Disk!Records, Disk!Collections, Disk!Locks,
           Disk!Databases
<1>3. Disk!TypeOK'
    BY <1>1, <1>2 DEF Disk!LockInv, Disk!TypeOK
<1>4. /\ v4'[s] = Disk!FreshStore /\ v5'[s] = "idle"
      /\ \A t \in Stores \ {s} : v4'[t] = v4[t] /\ v5'[t] = v5[t] /\ v6'[t] = v6[t]
    BY <1>1 DEF Disk!LockInv, Disk!TypeOK
<1>5. Disk!HoldsItsOwn(s)' /\ ~Disk!Removing(s)'
    BY <1>2, <1>4 DEF Disk!HoldsItsOwn, Disk!Opening, Disk!Removing
<1>6. \A x \in Disk!Databases : \A n \in Nat \ {0} : Disk!Shares(s, x, n)' => Disk!Shares(s, x, n)
    BY <1>2, <1>4 DEF Disk!Shares
<1> QED
    BY <1>3, <1>4, <1>5, <1>6, DiskKeeps

LEMMA DiskStep ==
    ASSUME Disk!LockInv, [Disk!Next]_DiskVars
    PROVE  Disk!LockInv'
<1>1. CASE UNCHANGED DiskVars
    BY <1>1 DEF DiskVars, Disk!LockInv, Disk!TypeOK, Disk!HoldsItsOwn, Disk!Opening,
                Disk!Removing, Disk!Shares
<1>2. ASSUME Disk!Next
      PROVE  Disk!LockInv'
  <2>1. PICK s \in Stores :
            \/ \E f \in Fingerprints : Disk!Publish(s, f) \/ Disk!Load(s, f)
            \/ Disk!LoadLatest(s) \/ Disk!FlockShared(s) \/ Disk!Connect(s) \/ Disk!Commit(s)
            \/ Disk!Close(s) \/ Disk!CollectUnbound(s) \/ \E x \in Fingerprints : Disk!Collect(s, x)
            \/ Disk!EndCollect(s) \/ Disk!FlockExclusive(s)
            \/ Disk!Unlink(s) \/ Disk!UnlinkLease(s) \/ Disk!Unlock(s) \/ Disk!Crash(s)
      BY <1>2 DEF Disk!Next
  <2>2. v8' = v8
      BY <1>2 DEF Disk!Next
  <2> QED
      BY <2>1, <2>2, DiskPublish, DiskLoad, DiskLoadLatest, DiskFlockShared, DiskConnect,
         DiskCommit, DiskClose, DiskCollectUnbound, DiskCollect, DiskEndCollect,
         DiskFlockExclusive, DiskUnlink, DiskCrash
<1> QED
    BY <1>1, <1>2

\* DiskGenerations counts with the Cardinality of FiniteSets.
LEMMA DiskCount == \A S : Disk!Cardinality(S) = Cardinality(S)
BY DEF Disk!Cardinality, Cardinality

LEMMA DiskExclusive == Disk!LockInv => Disk!LocksAreExclusive
<1> SUFFICES ASSUME Disk!LockInv PROVE Disk!LocksAreExclusive
    OBVIOUS
<1>1. \A s \in Stores : v4[s].conn # 0 =>
          v4[s].held.path = v4[s].path /\ v4[s].held.inode # 0
    BY DEF Disk!LockInv, Disk!HoldsItsOwn
<1>2. ASSUME NEW x \in Disk!Databases, NEW n
      PROVE  /\ Cardinality(Disk!ExclusiveHolders(x, n)) <= 1
             /\ Disk!ExclusiveHolders(x, n) # {} => Disk!SharedHolders(x, n) = {}
  <2>1. CASE Disk!ExclusiveHolders(x, n) = {}
      BY <2>1, FS_EmptySet
  <2>2. CASE Disk!ExclusiveHolders(x, n) # {}
    <3> PICK s \in Stores : s \in Disk!ExclusiveHolders(x, n)
        BY <2>2 DEF Disk!ExclusiveHolders
    <3>1. Disk!Removing(s) /\ v6[s].target = x /\ v6[s].fd = n
        BY DEF Disk!ExclusiveHolders, Disk!Removing
    <3>2. Disk!ExclusiveHolders(x, n) = {s}
        BY <3>1 DEF Disk!ExclusiveHolders, Disk!Removing, Disk!LockInv
    <3>3. Disk!SharedHolders(x, n) = {}
        BY <3>1 DEF Disk!SharedHolders, Disk!Shares, Disk!LockInv
    <3>4. Cardinality(Disk!ExclusiveHolders(x, n)) = 1
        BY <3>2, FS_Singleton
    <3> QED
        BY <3>3, <3>4
  <2> QED
      BY <2>1, <2>2
<1> QED
    BY <1>1, <1>2, DiskCount DEF Disk!LocksAreExclusive

\* Disk generations, with any number of processes, fingerprints and crashes: a
\* store with a connection holds the lease of its own generation, and nobody
\* removes files under a lease file that anybody else has locked.
THEOREM LocksExclude == Spec => []LocksAreExclusive
<1> DEFINE Inv == machine = "disk" => Disk!LockInv
<1>1. Init => Inv
    BY DiskStart DEF Init
<1>2. Inv /\ [Next]_vars => Inv'
  <2> SUFFICES ASSUME Inv, [Next]_vars, machine = "disk" PROVE Disk!LockInv'
      BY DEF Next, vars
  <2>1. [Disk!Next]_DiskVars
      BY DEF Next, vars, DiskVars
  <2> QED
      BY <2>1, DiskStep
<1>3. Inv => LocksAreExclusive
    BY DiskExclusive DEF LocksAreExclusive
<1> QED
    BY <1>1, <1>2, <1>3, PTL DEF Spec

----------------------------------------------------------------------------
(* Captures of the workspace (structural/snapshot.py).                     *)

CaptureVars == <<v1, v2, v3, v4>>

\* Snapshotter counts with the Cardinality of FiniteSets.
LEMMA CaptureCount == \A S : Captures!Cardinality(S) = Cardinality(S)
BY DEF Captures!Cardinality, Cardinality

\* A set of files in the order of their names is a sequence of all of them.
LEMMA CaptureSorted ==
    ASSUME NEW S, S \subseteq Paths, NEW s \in Captures!Sorted(S)
    PROVE  s \in Seq(Paths) /\ \A p \in S : \E i \in 1 .. Len(s) : s[i] = p
<1>1. IsFiniteSet(S) /\ Cardinality(S) \in Nat
    BY PlatformAssumption, FS_Subset, FS_CardinalityType
<1> PICK n \in Nat : n = Cardinality(S)
    BY <1>1
<1>2. s \in [1 .. n -> S] /\ \A i, j \in 1 .. n : i < j => s[i] < s[j]
    BY CaptureCount DEF Captures!Sorted
<1>3. s \in Seq(Paths) /\ Len(s) = n
    BY <1>2, SeqDef
<1>4. \A i \in 1 .. n : s[i] \in Nat
    BY <1>2, PlatformAssumption
<1>5. s \in Injection(1 .. n, S)
    BY <1>2, <1>4 DEF Injection, IsInjective
<1>6. Cardinality(1 .. n) = Cardinality(S)
    BY FS_Interval
<1>7. s \in Surjection(1 .. n, S)
    BY <1>1, <1>5, <1>6, FS_Injection
<1> QED
    BY <1>3, <1>7 DEF Surjection

LEMMA CapturesStart == Captures!Init => Captures!CaptureInv
<1> SUFFICES ASSUME Captures!Init PROVE Captures!CaptureInv
    OBVIOUS
<1> USE DEF Captures!Init, Captures!Start, Captures!NoFiles, Captures!Absent
<1>1. DOMAIN v3.contents = {} /\ DOMAIN v3.sigs = {} /\ v3.pc = "inventory" /\ v3.bytes = 0
    OBVIOUS
<1>2. v3 \in Captures!CapturesOf({})
  <2>1. <<>> \in Seq(Paths)
      BY EmptySeq
  <2> QED
      BY <2>1 DEF Captures!CapturesOf
<1>3. Captures!TypeOK
  <2>1. v1 \in [Paths -> [data : Sizes \cup {0}, sig : 0 .. v2]]
      BY PlatformAssumption
  <2>2. \A p \in Paths : v1[p].data = 0 <=> v1[p].sig = 0
      BY PlatformAssumption
  <2> QED
      BY <1>1, <1>2, <2>1, <2>2 DEF Captures!TypeOK
<1>4. Captures!WithinLimits
    BY <1>1, PlatformAssumption, FS_EmptySet, CaptureCount DEF Captures!WithinLimits
<1> QED
    BY <1>1, <1>3, <1>4 DEF Captures!CaptureInv, Captures!UnflaggedIsConsistent

\* A write gives a file a signature no file has had.
LEMMA CaptureWrite ==
    ASSUME Captures!CaptureInv, NEW p \in Paths, NEW d \in Sizes \cup {0}, Captures!Write(p, d)
    PROVE  Captures!CaptureInv'
<1> USE DEF Captures!CaptureInv
<1>0. v2 \in Nat \ {0}
    BY DEF Captures!TypeOK
<1> DEFINE f == IF d = 0 THEN [data |-> 0, sig |-> 0] ELSE [data |-> d, sig |-> v2 + 1]
<1>f. /\ f \in [data : Sizes \cup {0}, sig : 0 .. v2 + 1]
      /\ f.sig \in {0, v2 + 1} /\ (f.data = 0 <=> f.sig = 0)
  <2>1. CASE d = 0
      BY <1>0, <2>1
  <2>2. CASE d # 0
      BY <1>0, <2>2
  <2> QED
      BY <2>1, <2>2
<1>1. v2' = v2 + 1 /\ v1' = [v1 EXCEPT ![p] = f] /\ v3' = v3 /\ v4' = v4 /\ v2 \in Nat \ {0}
    BY DEF Captures!Write, Captures!Absent, Captures!TypeOK
<1> HIDE DEF f
<1>2. v1'[p] = f /\ \A q \in Paths \ {p} : v1'[q] = v1[q]
    BY <1>1 DEF Captures!TypeOK
<1>3. Captures!TypeOK'
  <2>1. \A q \in Paths : v1'[q] \in [data : Sizes \cup {0}, sig : 0 .. v2 + 1]
      BY <1>f, <1>1, <1>2 DEF Captures!TypeOK
  <2>2. v1' \in [Paths -> [data : Sizes \cup {0}, sig : 0 .. v2 + 1]]
      BY <1>1, <2>1 DEF Captures!TypeOK
  <2>3. \A q \in Paths : v1'[q].data = 0 <=> v1'[q].sig = 0
      BY <1>f, <1>2 DEF Captures!TypeOK
  <2> QED
      BY <1>1, <2>2, <2>3 DEF Captures!TypeOK
<1>4. ASSUME NEW q \in Paths, NEW sig, NEW e, Captures!Known(q, sig, e)
      PROVE  Captures!Known(q, sig, e)'
    BY <1>f, <1>1, <1>2, <1>4 DEF Captures!Known
<1>5. v3.pc = "after" => Captures!Known(Head(v3.todo), v3.before, v3.data)'
    BY <1>1, <1>4 DEF Captures!TypeOK, Captures!CapturesOf
<1>6. v3.stable => \A q \in DOMAIN v3.contents : Captures!Known(q, v3.sigs[q], v3.contents[q])'
    BY <1>1, <1>4 DEF Captures!TypeOK
<1>7. v3.pc = "verify" /\ v3.stable => \A q \in DOMAIN v3.contents :
          v1'[q].sig = v3.sigs[q] => v4[q].data = v3.contents[q]
    BY <1>f, <1>1, <1>2 DEF Captures!TypeOK, Captures!Known
<1> QED
    BY <1>1, <1>3, <1>5, <1>6, <1>7 DEF Captures!WithinLimits, Captures!UnflaggedIsConsistent
\* A step of the capture that keeps what it has captured.
LEMMA CaptureGoesOn ==
    ASSUME Captures!CaptureInv, UNCHANGED <<v1, v2, v4>>,
           v3' \in Captures!CapturesOf(DOMAIN v3.contents),
           v3'.pc \in {"next", "read", "after"},
           v3'.contents = v3.contents, v3'.sigs = v3.sigs,
           v3'.stable = v3.stable, v3'.bytes = v3.bytes,
           v3'.pc # "next" => /\ v3'.todo # <<>>
                              /\ Cardinality(DOMAIN v3.contents) < MaxFiles
                              /\ v3'.before \in 1 .. v2,
           v3'.pc = "after" => /\ v3'.data \in Sizes
                               /\ Captures!Known(Head(v3'.todo), v3'.before, v3'.data)
    PROVE  Captures!CaptureInv'
<1>1. Captures!TypeOK'
    BY DEF Captures!CaptureInv, Captures!TypeOK
<1>2. Captures!WithinLimits'
    BY DEF Captures!CaptureInv, Captures!WithinLimits
<1>3. \A p, sig, d : Captures!Known(p, sig, d)' = Captures!Known(p, sig, d)
    BY DEF Captures!Known
<1> QED
    BY <1>1, <1>2, <1>3, CaptureCount DEF Captures!CaptureInv, Captures!UnflaggedIsConsistent

\* The verification begins with the files captured, on disk as they were read.
LEMMA CaptureVerifyAll ==
    ASSUME Captures!CaptureInv, NEW cut \in BOOLEAN, Captures!VerifyAll(cut), UNCHANGED <<v1, v2>>
    PROVE  Captures!CaptureInv'
<1> DEFINE S == DOMAIN v3.contents
<1>1. PICK s \in Captures!Sorted(S) : v3' = [v3 EXCEPT !.pc = "verify", !.todo = s, !.cut = cut]
    BY Zenon DEF Captures!VerifyAll
<1>2. S \subseteq Paths /\ v3 \in Captures!CapturesOf(S)
    BY DEF Captures!CaptureInv, Captures!TypeOK
<1> HIDE DEF S
<1>3. s \in Seq(Paths) /\ \A p \in S : \E i \in 1 .. Len(s) : s[i] = p
    BY <1>2, CaptureSorted
<1>4. /\ v3' \in Captures!CapturesOf(S) /\ v3'.pc = "verify" /\ v3'.todo = s
      /\ v3'.contents = v3.contents /\ v3'.sigs = v3.sigs
      /\ v3'.stable = v3.stable /\ v3'.bytes = v3.bytes
    BY <1>1, <1>2, <1>3 DEF Captures!CapturesOf
<1>5. v4' = v1 /\ v1' = v1 /\ v2' = v2
    BY DEF Captures!VerifyAll
<1>6. Captures!TypeOK'
    BY <1>2, <1>4, <1>5 DEF Captures!CaptureInv, Captures!TypeOK, S
<1>7. Captures!WithinLimits'
    BY <1>4 DEF Captures!CaptureInv, Captures!WithinLimits
<1>8. v3.stable => \A p \in S : /\ Captures!Known(p, v3.sigs[p], v3.contents[p])
                                /\ Captures!Known(p, v3.sigs[p], v3.contents[p])'
    BY <1>4, <1>5 DEF Captures!CaptureInv, Captures!Known, S
<1>9. v3.stable => \A p \in S : v1[p].sig = v3.sigs[p] => v1[p].data = v3.contents[p]
    BY <1>8 DEF Captures!Known
<1> QED
    BY <1>3, <1>4, <1>5, <1>6, <1>7, <1>8, <1>9
    DEF Captures!CaptureInv, Captures!UnflaggedIsConsistent, S

LEMMA CaptureInventory ==
    ASSUME Captures!CaptureInv, Captures!Inventory
    PROVE  Captures!CaptureInv'
<1>1. PICK s \in Captures!GitInventory \cup Captures!ScopeInventory :
          v3' = [v3 EXCEPT !.pc = "next", !.todo = s]
    BY Zenon DEF Captures!Inventory
<1>2. s \in Seq(Paths)
    BY CaptureSorted DEF Captures!GitInventory, Captures!ScopeInventory
<1>3. v3 \in Captures!CapturesOf(DOMAIN v3.contents) /\ UNCHANGED <<v1, v2, v4>>
    BY DEF Captures!CaptureInv, Captures!TypeOK, Captures!Inventory
<1>4. /\ v3' \in Captures!CapturesOf(DOMAIN v3.contents) /\ v3'.pc = "next"
      /\ v3'.contents = v3.contents /\ v3'.sigs = v3.sigs
      /\ v3'.stable = v3.stable /\ v3'.bytes = v3.bytes
    BY <1>1, <1>2, <1>3 DEF Captures!CapturesOf
<1> QED
    BY <1>3, <1>4, CaptureGoesOn

LEMMA CaptureLoopEnds ==
    ASSUME Captures!CaptureInv, Captures!LoopEnds
    PROVE  Captures!CaptureInv'
BY CaptureVerifyAll DEF Captures!LoopEnds

\* A candidate is passed over.
LEMMA CaptureSkips ==
    ASSUME Captures!CaptureInv, v3.todo # <<>>, UNCHANGED <<v1, v2, v4>>,
           \/ v3' = [v3 EXCEPT !.pc = "next", !.todo = Tail(v3.todo)]
           \/ v3.pc = "next" /\ v3' = [v3 EXCEPT !.todo = Tail(v3.todo)]
    PROVE  Captures!CaptureInv'
<1>1. v3 \in Captures!CapturesOf(DOMAIN v3.contents)
    BY DEF Captures!CaptureInv, Captures!TypeOK
<1>2. Tail(v3.todo) \in Seq(Paths)
    BY <1>1 DEF Captures!CapturesOf
<1>3. /\ v3' \in Captures!CapturesOf(DOMAIN v3.contents) /\ v3'.pc = "next"
      /\ v3'.contents = v3.contents /\ v3'.sigs = v3.sigs
      /\ v3'.stable = v3.stable /\ v3'.bytes = v3.bytes
    BY <1>1, <1>2 DEF Captures!CapturesOf
<1> QED
    BY <1>3, CaptureGoesOn

LEMMA CaptureStatBefore ==
    ASSUME Captures!CaptureInv, Captures!StatBefore
    PROVE  Captures!CaptureInv'
<1> DEFINE f == v1[Head(v3.todo)]
<1>1. /\ v3.pc = "next" /\ v3.todo # <<>> /\ UNCHANGED <<v1, v2, v4>>
      /\ Cardinality(DOMAIN v3.contents) < MaxFiles
    BY CaptureCount DEF Captures!StatBefore
<1>2. v3 \in Captures!CapturesOf(DOMAIN v3.contents) /\ Head(v3.todo) \in Paths
    BY <1>1 DEF Captures!CaptureInv, Captures!TypeOK, Captures!CapturesOf
<1>3. CASE f.data = 0
  <2>1. v3' = [v3 EXCEPT !.todo = Tail(v3.todo)]
      BY <1>3 DEF Captures!StatBefore
  <2> QED
      BY <1>1, <2>1, CaptureSkips
<1>4. CASE f.data # 0
  <2>1. v3' = [v3 EXCEPT !.pc = "read", !.before = f.sig]
      BY <1>4 DEF Captures!StatBefore
  <2>2. f.sig \in 1 .. v2 /\ f.sig \in Nat
      BY <1>2, <1>4 DEF Captures!CaptureInv, Captures!TypeOK
  <2> HIDE DEF f
  <2>3. /\ v3' \in Captures!CapturesOf(DOMAIN v3.contents) /\ v3'.pc = "read"
        /\ v3'.contents = v3.contents /\ v3'.sigs = v3.sigs /\ v3'.before = f.sig
        /\ v3'.stable = v3.stable /\ v3'.bytes = v3.bytes /\ v3'.todo = v3.todo
      BY <1>2, <2>1, <2>2 DEF Captures!CapturesOf
  <2> QED
      BY <1>1, <2>2, <2>3, CaptureGoesOn
<1> QED
    BY <1>3, <1>4

LEMMA CaptureRead ==
    ASSUME Captures!CaptureInv, Captures!Read
    PROVE  Captures!CaptureInv'
<1> DEFINE f == v1[Head(v3.todo)]
<1>1. /\ v3.pc = "read" /\ UNCHANGED <<v1, v2, v4>> /\ v3.todo # <<>>
      /\ Cardinality(DOMAIN v3.contents) < MaxFiles /\ v3.before \in 1 .. v2
    BY CaptureCount DEF Captures!Read, Captures!CaptureInv
<1>2. v3 \in Captures!CapturesOf(DOMAIN v3.contents) /\ Head(v3.todo) \in Paths
    BY <1>1 DEF Captures!CaptureInv, Captures!TypeOK, Captures!CapturesOf
<1>3. CASE f.data = 0
  <2>1. v3' = [v3 EXCEPT !.pc = "next", !.todo = Tail(v3.todo)]
      BY <1>3 DEF Captures!Read
  <2> QED
      BY <1>1, <2>1, CaptureSkips
<1>4. CASE f.data # 0
  <2>1. v3' = [v3 EXCEPT !.pc = "after", !.data = f.data]
      BY <1>4 DEF Captures!Read
  <2>2. f.data \in Sizes /\ f.data \in Nat
      BY <1>2, <1>4, PlatformAssumption DEF Captures!CaptureInv, Captures!TypeOK
  <2>3. Captures!Known(Head(v3.todo), v3.before, f.data)
      BY <1>1 DEF Captures!Known
  <2> HIDE DEF f
  <2>4. /\ v3' \in Captures!CapturesOf(DOMAIN v3.contents) /\ v3'.pc = "after"
        /\ v3'.contents = v3.contents /\ v3'.sigs = v3.sigs /\ v3'.before = v3.before
        /\ v3'.stable = v3.stable /\ v3'.bytes = v3.bytes /\ v3'.todo = v3.todo
        /\ v3'.data = f.data
      BY <1>2, <2>1, <2>2 DEF Captures!CapturesOf
  <2> QED
      BY <1>1, <2>2, <2>3, <2>4, CaptureGoesOn
<1> QED
    BY <1>3, <1>4

\* A file is captured: its signature before and after the read was the same, or
\* the capture is not stable.
LEMMA CaptureAdmits ==
    ASSUME Captures!CaptureInv, v3.pc = "after", UNCHANGED <<v1, v2, v4>>,
           v1[Head(v3.todo)].data # 0, v3.data <= MaxFileBytes, v3.bytes + v3.data <= MaxBytes,
           v3.data # Binary, v3' = Captures!Admitted(v1[Head(v3.todo)].sig)
    PROVE  Captures!CaptureInv'
<1> DEFINE S == DOMAIN v3.contents
           h == Head(v3.todo)
           sig == v1[h].sig
<1>1. /\ v3 \in Captures!CapturesOf(S) /\ S \subseteq Paths /\ v3.todo # <<>>
      /\ v3.data \in Sizes /\ v3.before \in 1 .. v2 /\ Cardinality(S) < MaxFiles
      /\ Captures!Known(h, v3.before, v3.data)
    BY CaptureCount DEF Captures!CaptureInv, Captures!TypeOK
<1>2. /\ h \in Paths /\ Tail(v3.todo) \in Seq(Paths) /\ v3.data \in Nat /\ v3.bytes \in Nat
      /\ v3.contents \in [S -> Nat] /\ v3.sigs \in [S -> Nat] /\ v3.stable \in BOOLEAN
    BY <1>1, PlatformAssumption DEF Captures!CapturesOf
<1>3. sig \in 1 .. v2 /\ sig \in Nat
    BY <1>2 DEF Captures!CaptureInv, Captures!TypeOK
<1> DEFINE T == S \cup {h}
           contents == Captures!With(v3.contents, h, v3.data)
           sigs == Captures!With(v3.sigs, h, sig)
           stable == v3.stable /\ v3.before = sig
           bytes == v3.bytes + v3.data
           rest == Tail(v3.todo)
<1>4. /\ contents \in [T -> Nat] /\ contents[h] = v3.data
      /\ \A p \in T \ {h} : p \in S /\ contents[p] = v3.contents[p]
    BY <1>2 DEF Captures!With
<1>5. /\ sigs \in [T -> Nat] /\ sigs[h] = sig
      /\ \A p \in T \ {h} : p \in S /\ sigs[p] = v3.sigs[p]
    BY <1>2, <1>3 DEF Captures!With
<1>6. stable \in BOOLEAN /\ bytes \in Nat /\ rest \in Seq(Paths)
    BY <1>2
<1>7. v3' = [v3 EXCEPT !.pc = "next", !.todo = rest, !.bytes = bytes, !.contents = contents,
                       !.sigs = sigs, !.stable = stable]
    BY <1>1 DEF Captures!Admitted, Captures!CapturesOf
<1>8. T \subseteq Paths
    BY <1>1, <1>2
<1> HIDE DEF S, T, contents, sigs, stable, bytes, rest, sig
<1>9. /\ v3' \in Captures!CapturesOf(T) /\ v3'.pc = "next" /\ v3'.contents = contents
      /\ v3'.sigs = sigs /\ v3'.stable = stable /\ v3'.bytes = bytes
  <2> DEFINE F == [S -> Nat]
             G == [T -> Nat]
  <2>1. contents \in G /\ sigs \in G
      BY <1>4, <1>5
  <2> HIDE DEF F, G
  <2>2. v3' \in [pc : {"inventory", "next", "read", "after", "verify", "done"},
                attempt : {1, 2}, todo : Seq(Paths), contents : G, sigs : G, before : Nat,
                data : Nat, stable : BOOLEAN, bytes : Nat, flagged : BOOLEAN, cut : BOOLEAN]
      BY <1>1, <1>6, <1>7, <2>1 DEF Captures!CapturesOf
  <2> QED
      BY <1>1, <1>7, <2>2 DEF Captures!CapturesOf, G
<1>10. DOMAIN v3'.contents = T
    BY <1>4, <1>9
<1>11. Captures!TypeOK'
    BY <1>8, <1>9, <1>10 DEF Captures!CaptureInv, Captures!TypeOK
<1>12. Captures!WithinLimits'
  <2>1. Cardinality(T) <= MaxFiles
    <3>1. IsFiniteSet(S) /\ Cardinality(S) \in Nat
        BY <1>1, PlatformAssumption, FS_Subset, FS_CardinalityType
    <3>2. Cardinality(T) = Cardinality(S) \/ Cardinality(T) = Cardinality(S) + 1
        BY <3>1, FS_AddElement DEF T
    <3> QED
        BY <1>1, <3>1, <3>2, PlatformAssumption
  <2>2. bytes <= MaxBytes
      BY DEF bytes
  <2>3. \A p \in T : contents[p] <= MaxFileBytes /\ contents[p] # Binary
      BY <1>4 DEF Captures!CaptureInv, Captures!WithinLimits, S
  <2> QED
      BY <1>9, <1>10, <2>1, <2>2, <2>3, CaptureCount DEF Captures!WithinLimits
<1>13. stable => \A p \in T : Captures!Known(p, sigs[p], contents[p])
  <2>1. stable => Captures!Known(h, sigs[h], contents[h])
      BY <1>1, <1>4, <1>5 DEF stable
  <2>2. stable => \A p \in S : Captures!Known(p, v3.sigs[p], v3.contents[p])
      BY DEF stable, S, Captures!CaptureInv
  <2> QED
      BY <1>4, <1>5, <2>1, <2>2
<1>14. (v3.stable => \A p \in DOMAIN v3.contents : Captures!Known(p, v3.sigs[p], v3.contents[p]))'
    BY <1>9, <1>10, <1>13 DEF Captures!Known
<1> QED
    BY <1>9, <1>11, <1>12, <1>14 DEF Captures!CaptureInv, Captures!UnflaggedIsConsistent

LEMMA CaptureStatAfter ==
    ASSUME Captures!CaptureInv, Captures!StatAfter
    PROVE  Captures!CaptureInv'
<1> DEFINE f == v1[Head(v3.todo)]
<1>1. v3.pc = "after" /\ UNCHANGED <<v1, v2>> /\ v3.todo # <<>>
    BY DEF Captures!StatAfter, Captures!CaptureInv
<1>2. \/ v3' = [v3 EXCEPT !.pc = "next", !.todo = Tail(v3.todo)] /\ v4' = v4
      \/ Captures!VerifyAll(TRUE)
      \/ /\ f.data # 0 /\ v3.data <= MaxFileBytes /\ v3.bytes + v3.data <= MaxBytes
         /\ v3.data # Binary /\ v3' = Captures!Admitted(f.sig) /\ v4' = v4
  <2>1. v3.data \in Nat /\ v3.bytes \in Nat
      BY DEF Captures!CaptureInv, Captures!TypeOK, Captures!CapturesOf
  <2>2. v3.data > MaxFileBytes \/ v3.data <= MaxFileBytes
      BY <2>1, PlatformAssumption
  <2>3. v3.bytes + v3.data > MaxBytes \/ v3.bytes + v3.data <= MaxBytes
      BY <2>1, PlatformAssumption
  <2> QED
      BY <2>2, <2>3 DEF Captures!StatAfter
<1>3. TRUE \in BOOLEAN
    OBVIOUS
<1> QED
    BY <1>1, <1>2, <1>3, CaptureSkips, CaptureVerifyAll, CaptureAdmits

\* The capture starts over, or ends flagged.
LEMMA CaptureDrifts ==
    ASSUME Captures!CaptureInv, UNCHANGED <<v1, v2, v4>>, v3' = Captures!Drifted
    PROVE  Captures!CaptureInv'
<1>1. v3 \in Captures!CapturesOf(DOMAIN v3.contents)
    BY DEF Captures!CaptureInv, Captures!TypeOK
<1>2. CASE v3.attempt = 1
  <2>1. v3' = Captures!Start(2)
      BY <1>2 DEF Captures!Drifted
  <2>2. /\ v3'.pc = "inventory" /\ v3'.bytes = 0 /\ DOMAIN v3'.contents = {}
      BY <2>1 DEF Captures!Start, Captures!NoFiles
  <2>3. v3' \in Captures!CapturesOf({})
    <3>1. <<>> \in Seq(Paths)
        BY EmptySeq
    <3> QED
        BY <2>1, <3>1 DEF Captures!CapturesOf, Captures!Start, Captures!NoFiles
  <2>4. Captures!TypeOK'
      BY <2>2, <2>3 DEF Captures!CaptureInv, Captures!TypeOK
  <2>5. Captures!WithinLimits'
      BY <2>2, PlatformAssumption, FS_EmptySet, CaptureCount DEF Captures!WithinLimits
  <2> QED
      BY <2>2, <2>4, <2>5 DEF Captures!CaptureInv, Captures!UnflaggedIsConsistent
<1>3. CASE v3.attempt # 1
  <2>1. v3' = [v3 EXCEPT !.pc = "done", !.flagged = TRUE]
      BY <1>3 DEF Captures!Drifted
  <2>2. /\ v3' \in Captures!CapturesOf(DOMAIN v3.contents) /\ v3'.pc = "done" /\ v3'.flagged
        /\ v3'.contents = v3.contents /\ v3'.sigs = v3.sigs
        /\ v3'.stable = v3.stable /\ v3'.bytes = v3.bytes
      BY <1>1, <2>1 DEF Captures!CapturesOf
  <2>3. Captures!TypeOK'
      BY <2>2 DEF Captures!CaptureInv, Captures!TypeOK
  <2>4. Captures!WithinLimits'
      BY <2>2 DEF Captures!CaptureInv, Captures!WithinLimits
  <2>5. \A p, sig, d : Captures!Known(p, sig, d)' = Captures!Known(p, sig, d)
      BY DEF Captures!Known
  <2> QED
      BY <2>2, <2>3, <2>4, <2>5 DEF Captures!CaptureInv, Captures!UnflaggedIsConsistent
<1> QED
    BY <1>2, <1>3

\* A file that still has its signature held what was read when the reading ended.
LEMMA CaptureVerify ==
    ASSUME Captures!CaptureInv, Captures!Verify
    PROVE  Captures!CaptureInv'
<1>1. v3.pc = "verify" /\ UNCHANGED <<v1, v2, v4>>
    BY DEF Captures!Verify
<1>2. v3 \in Captures!CapturesOf(DOMAIN v3.contents)
    BY DEF Captures!CaptureInv, Captures!TypeOK
<1>3. \A p, sig, d : Captures!Known(p, sig, d)' = Captures!Known(p, sig, d)
    BY <1>1 DEF Captures!Known
<1>4. CASE v3' = Captures!Drifted
    BY <1>1, <1>4, CaptureDrifts
<1>5. CASE v3.stable /\ v3.todo = <<>> /\ v3' = [v3 EXCEPT !.pc = "done"]
  <2>1. /\ v3' \in Captures!CapturesOf(DOMAIN v3.contents) /\ v3'.pc = "done"
        /\ v3'.contents = v3.contents /\ v3'.sigs = v3.sigs
        /\ v3'.stable = v3.stable /\ v3'.bytes = v3.bytes
      BY <1>2, <1>5 DEF Captures!CapturesOf
  <2>2. Captures!TypeOK' /\ Captures!WithinLimits'
      BY <1>1, <2>1 DEF Captures!CaptureInv, Captures!TypeOK, Captures!WithinLimits
  <2>3. \A p \in DOMAIN v3.contents : v4[p].data = v3.contents[p]
      BY <1>1, <1>5 DEF Captures!CaptureInv
  <2> QED
      BY <1>1, <1>3, <2>1, <2>2, <2>3 DEF Captures!CaptureInv, Captures!UnflaggedIsConsistent
<1>6. CASE /\ v3.stable /\ v3.todo # <<>>
           /\ v1[Head(v3.todo)].sig = v3.sigs[Head(v3.todo)]
           /\ v3' = [v3 EXCEPT !.todo = Tail(v3.todo)]
  <2>1. Tail(v3.todo) \in Seq(Paths)
      BY <1>2, <1>6 DEF Captures!CapturesOf
  <2>2. /\ v3' \in Captures!CapturesOf(DOMAIN v3.contents) /\ v3'.pc = "verify"
        /\ v3'.contents = v3.contents /\ v3'.sigs = v3.sigs /\ v3'.todo = Tail(v3.todo)
        /\ v3'.stable = v3.stable /\ v3'.bytes = v3.bytes
      BY <1>1, <1>2, <1>6, <2>1 DEF Captures!CapturesOf
  <2>3. Captures!TypeOK' /\ Captures!WithinLimits'
      BY <1>1, <2>2 DEF Captures!CaptureInv, Captures!TypeOK, Captures!WithinLimits
  <2>4. ASSUME NEW p \in DOMAIN v3.contents, v4[p].data # v3.contents[p]
        PROVE  \E i \in 1 .. Len(Tail(v3.todo)) : Tail(v3.todo)[i] = p
    <3>1. PICK i \in 1 .. Len(v3.todo) : v3.todo[i] = p
        BY <1>1, <1>6, <2>4 DEF Captures!CaptureInv
    <3>2. v1[p].sig # v3.sigs[p]
        BY <1>1, <1>6, <2>4 DEF Captures!CaptureInv
    <3>3. i # 1
        BY <1>2, <1>6, <3>1, <3>2 DEF Captures!CapturesOf
    <3>4. i - 1 \in 1 .. Len(Tail(v3.todo)) /\ Tail(v3.todo)[i - 1] = p
        BY <1>2, <1>6, <3>1, <3>3 DEF Captures!CapturesOf
    <3> QED
        BY <3>4
  <2>5. \A p \in DOMAIN v3.contents : v1[p].sig = v3.sigs[p] => v4[p].data = v3.contents[p]
      BY <1>1, <1>6 DEF Captures!CaptureInv
  <2> QED
      BY <1>1, <1>3, <2>2, <2>3, <2>4, <2>5 DEF Captures!CaptureInv, Captures!UnflaggedIsConsistent
<1> QED
    BY <1>4, <1>5, <1>6 DEF Captures!Verify

LEMMA CaptureStep ==
    ASSUME Captures!CaptureInv, [Captures!Next]_CaptureVars
    PROVE  Captures!CaptureInv'
<1>1. CASE UNCHANGED CaptureVars
    BY <1>1 DEF CaptureVars, Captures!CaptureInv, Captures!TypeOK, Captures!WithinLimits,
                Captures!Known, Captures!UnflaggedIsConsistent
<1>2. CASE Captures!Next
    BY <1>2, CaptureWrite, CaptureInventory, CaptureLoopEnds, CaptureStatBefore, CaptureRead,
       CaptureStatAfter, CaptureVerify DEF Captures!Next
<1> QED
    BY <1>1, <1>2

\* Captures, with any files, contents and limits: a capture that is not flagged
\* is one cut of the tree, and every capture stays within its limits.
THEOREM CapturesAreCuts == Spec => []CapturesAreConsistent
<1> DEFINE Inv == machine = "captures" => Captures!CaptureInv
<1>1. Init => Inv
    BY CapturesStart DEF Init
<1>2. Inv /\ [Next]_vars => Inv'
  <2> SUFFICES ASSUME Inv, [Next]_vars, machine = "captures" PROVE Captures!CaptureInv'
      BY DEF Next, vars
  <2>1. [Captures!Next]_CaptureVars
      BY DEF Next, vars, CaptureVars
  <2> QED
      BY <2>1, CaptureStep
<1>3. Inv => CapturesAreConsistent
    BY DEF CapturesAreConsistent, Captures!CaptureInv
<1> QED
    BY <1>1, <1>2, <1>3, PTL DEF Spec
----------------------------------------------------------------------------
(* Adoption and revert of a workspace (provisioning/).                     *)

RevertVars == <<v1, v2, v3, v4, v5, v6, v7>>

LEMMA ProvisionSkips == Provision!Skip \in Provision!Outcomes /\ Provision!Raise \in Provision!Outcomes
BY DEF Provision!Outcomes, Provision!Skip, Provision!Raise

LEMMA ProvisionWrites == \A c \in Provision!Content : Provision!WriteOf(c) \in Provision!Outcomes
BY DEF Provision!Outcomes, Provision!WriteOf

LEMMA ProvisionReads ==
    ASSUME NEW c \in Provision!Content \cup {None}
    PROVE  Provision!ReadJson(c) \in Provision!Content /\ Provision!Blank \in Provision!Content
BY DEF Provision!ReadJson, Provision!Blank, Provision!Content

\* Each renderer changes one thing of a content.
LEMMA ContentEdits ==
    ASSUME NEW c \in Provision!Content, NEW b \in BOOLEAN
    PROVE  /\ [c EXCEPT !.entry = "ours"] \in Provision!Content
           /\ [c EXCEPT !.entry = "ours", !.policy = b] \in Provision!Content
           /\ [c EXCEPT !.policy = TRUE] \in Provision!Content
           /\ [c EXCEPT !.block = "ours"] \in Provision!Content
BY DEF Provision!Content

LEMMA ProvisionRegistration ==
    ASSUME NEW c \in Provision!Content \cup {None}, NEW force \in BOOLEAN, NEW h \in Hosts
    PROVE  Provision!RenderRegistration(h, c, force) \in Provision!Outcomes
<1> USE DEF Provision!RenderRegistration
<1>1. Provision!RenderJsonRegistration(c, force) \in Provision!Outcomes
    BY ProvisionSkips, ProvisionWrites, ProvisionReads, ContentEdits
       DEF Provision!RenderJsonRegistration
<1>2. Provision!RenderCodexConfig(c, force) \in Provision!Outcomes
  <2>1. CASE c = None
      BY <2>1, ProvisionWrites, ProvisionReads, ContentEdits DEF Provision!RenderCodexConfig
  <2>2. CASE c # None
    <3>1. c \in Provision!Content /\ (c.policy /\ c.entry # "none") \in BOOLEAN
        BY <2>2 DEF Provision!Content
    <3> QED
        BY <2>2, <3>1, ProvisionSkips, ProvisionWrites, ContentEdits DEF Provision!RenderCodexConfig
  <2> QED
      BY <2>1, <2>2
<1> QED
    BY <1>1, <1>2, ProvisionSkips

LEMMA ProvisionPolicy ==
    ASSUME NEW c \in Provision!Content \cup {None}, NEW h \in Hosts
    PROVE  Provision!RenderPolicy(h, c) \in Provision!Outcomes
BY ProvisionSkips, ProvisionWrites, ProvisionReads, ContentEdits
   DEF Provision!RenderPolicy, Provision!RenderCodexPolicy, Provision!RenderOpencodePolicy,
       Provision!RenderClaudePolicy

LEMMA ProvisionRender ==
    ASSUME NEW c \in Provision!Content \cup {None}, NEW force \in BOOLEAN, NEW h \in Hosts,
           NEW command \in Provision!Commands
    PROVE  Provision!Render(command, h, c, force) \in Provision!Outcomes
<1>1. Provision!RenderGuidance(c) \in Provision!Outcomes
    BY ProvisionSkips, ProvisionWrites, ProvisionReads, ContentEdits DEF Provision!RenderGuidance
<1>2. Provision!RenderStarter(c) \in Provision!Outcomes
    BY ProvisionSkips, ProvisionWrites, ProvisionReads DEF Provision!RenderStarter
<1>3. Provision!EmitProviderBlock(c) \in Provision!Outcomes
    BY ProvisionSkips, ProvisionWrites, ProvisionReads, ContentEdits DEF Provision!EmitProviderBlock
<1> QED
    BY <1>1, <1>2, <1>3, ProvisionRegistration, ProvisionPolicy DEF Provision!Render


\* Nothing is changed yet, and the manifest is empty.
LEMMA RevertStart == Provision!Init => Provision!RevertInv
<1> SUFFICES ASSUME Provision!Init PROVE Provision!RevertInv
    OBVIOUS
<1> USE DEF Provision!Init
<1>1. v1 \in Provision!Files
    BY ProvisioningAssumption DEF Provision!Files
<1>2. v3.backups = <<>> /\ v3.created = {} /\ v3 \in [backups : Seq(Provision!Files), created : SUBSET Hosts]
    OBVIOUS
<1>3. Provision!TypeOK
    BY <1>1, <1>2 DEF Provision!TypeOK
<1>4. Provision!UserFilesKept
    BY <1>2 DEF Provision!UserFilesKept, Provision!UserFile, Provision!OldestIsOriginal
<1> QED
    BY <1>2, <1>3, <1>4 DEF Provision!RevertInv, Provision!NotYetReverted, Provision!CopiedFirst,
       Provision!Applying, Provision!RestoresOriginal, Provision!Restoring, Provision!OneCommand,
       Provision!RevertRestoresUserFiles

\* A new command: its job, if it has one, copies every file of the user that
\* it is going to write, or copies them one by one.
LEMMA RevertBegins ==
    ASSUME Provision!RevertInv, NEW command \in Provision!Commands, Provision!Begin(command),
           v4' = None \/ /\ v4' \in Provision!ApplyJobs
                         /\ v4'.saved = {} /\ v4'.created = {}
                         /\ \A h \in v4'.copy : v1[h] # None
                         /\ v4'.phase = "write" => v4'.copy = {}
                         /\ \A h \in Provision!ToSet(v4'.todo) :
                              Provision!UserFile(h) /\ Provision!CopiedAtOnce(h)' => h \in v4'.copy
    PROVE  Provision!RevertInv'
<1> USE DEF Provision!RevertInv
<1>1. /\ v4 = None /\ v5' = v5 + 1 /\ v7' = FALSE /\ UNCHANGED <<v1, v2, v3, v6>>
      /\ v5 \in Nat
    BY DEF Provision!Begin, Provision!TypeOK
<1>2. Provision!TypeOK'
  <2>1. v7' \in BOOLEAN
      BY <1>1
  <2>2. v5' \in Nat
      BY <1>1
  <2>3. /\ v1' \in Provision!Files /\ v2' \in Provision!Files /\ v6' \in Nat
        /\ v3' \in [backups : Seq(Provision!Files), created : SUBSET Hosts]
      BY <1>1 DEF Provision!TypeOK
  <2> QED
      BY <2>1, <2>2, <2>3 DEF Provision!TypeOK
<1>3. Provision!UserFilesKept'
    BY <1>1 DEF Provision!UserFilesKept, Provision!UserFile, Provision!OldestIsOriginal, Provision!Holds
<1>4. Provision!CopiedFirst'
    BY <1>1 DEF Provision!CopiedFirst, Provision!UserFile, Provision!Applying
<1>5. v4' # None => v4'.phase \in {"backup", "write"}
    BY DEF Provision!ApplyJobs
<1>6. Provision!RestoresOriginal'
    BY <1>5 DEF Provision!RestoresOriginal, Provision!Restoring
<1>7. Provision!OneCommand'
  <2>1. CASE v5 = 0
    <3>1. v1 = v2 /\ v3.backups = <<>> /\ v3.created = {}
        BY <1>1, <2>1 DEF Provision!OneCommand
    <3>2. \A h \in Hosts : ~(~Provision!UserFile(h) /\ (v1[h] # None \/ Provision!Holds(v3.backups, h)))
        BY <3>1 DEF Provision!UserFile, Provision!Holds
    <3> QED
        BY <1>1, <1>5, <2>1, <3>1, <3>2
           DEF Provision!OneCommand, Provision!Applying, Provision!Restoring, Provision!UserFile,
               Provision!Holds
  <2>2. CASE v5 # 0
      BY <1>1, <2>2 DEF Provision!OneCommand
  <2> QED
      BY <2>1, <2>2
<1> QED
    BY <1>1, <1>2, <1>3, <1>4, <1>6, <1>7
       DEF Provision!NotYetReverted, Provision!RevertRestoresUserFiles

\* The targets of a command are files.
LEMMA RevertTargets ==
    ASSUME NEW command \in Provision!Commands
    PROVE  /\ Plan[command] \in Seq(Hosts)
           /\ Provision!Targets(command) = Provision!ToSet(Plan[command])
           /\ Provision!Targets(command) \subseteq Hosts
BY ProvisioningAssumption DEF Provision!Targets, Provision!ToSet

LEMMA RevertNewJob ==
    ASSUME NEW command \in Provision!Commands, NEW phase \in {"backup", "write"}, NEW force \in BOOLEAN,
           NEW copy \in SUBSET Hosts, NEW rendered \in [Hosts -> Provision!Outcomes],
           v4' = Provision!ApplyJob(command, phase, force, copy, rendered)
    PROVE  /\ v4' \in Provision!ApplyJobs
           /\ v4'.command = command /\ v4'.phase = phase /\ v4'.copy = copy
           /\ v4'.saved = {} /\ v4'.created = {} /\ v4'.todo = Plan[command] /\ v4'.rendered = rendered
BY RevertTargets DEF Provision!ApplyJob, Provision!ApplyJobs

LEMMA RevertRendered ==
    /\ Provision!Unrendered \in [Hosts -> Provision!Outcomes]
    /\ Provision!TypeOK => Provision!Rendered \in [Hosts -> Provision!Outcomes]
<1>1. Provision!TypeOK => Provision!Rendered \in [Hosts -> Provision!Outcomes]
    BY ProvisionRender DEF Provision!Rendered, Provision!TypeOK, Provision!Files, Provision!Commands
<1> QED
    BY <1>1, ProvisionSkips DEF Provision!Unrendered

LEMMA RevertAdopt ==
    ASSUME Provision!RevertInv, NEW force \in BOOLEAN, Provision!Adopt(force)
    PROVE  Provision!RevertInv'
<1> DEFINE copy == Provision!Existing(Provision!Targets("adopt"))
<1>1. "adopt" \in Provision!Commands /\ Provision!Begin("adopt")
    BY DEF Provision!Adopt, Provision!Commands
<1>2. copy \in SUBSET Hosts /\ \A h \in Provision!Targets("adopt") : h \in copy <=> v1[h] # None
    BY <1>1, RevertTargets DEF Provision!Existing
<1>3. /\ v4' \in Provision!ApplyJobs
      /\ v4'.command = "adopt" /\ v4'.phase = "backup" /\ v4'.copy = copy
      /\ v4'.saved = {} /\ v4'.created = {} /\ v4'.todo = Plan["adopt"]
    BY <1>1, <1>2, RevertNewJob, RevertRendered DEF Provision!Adopt
<1>4. \A h \in Provision!ToSet(v4'.todo) : Provision!UserFile(h) => h \in v4'.copy
    BY <1>1, <1>2, <1>3, RevertTargets DEF Provision!RevertInv, Provision!UserFilesKept
<1> QED
    BY <1>1, <1>2, <1>3, <1>4, RevertBegins, RevertTargets DEF Provision!Existing

LEMMA RevertAttach ==
    ASSUME Provision!RevertInv, NEW force \in BOOLEAN, Provision!Attach(force)
    PROVE  Provision!RevertInv'
<1>1. "attach" \in Provision!Commands /\ Provision!Begin("attach")
    BY DEF Provision!Attach, Provision!Commands
<1>2. /\ v4' \in Provision!ApplyJobs
      /\ v4'.command = "attach" /\ v4'.phase = "write" /\ v4'.copy = {}
      /\ v4'.saved = {} /\ v4'.created = {} /\ v4'.todo = Plan["attach"]
    BY <1>1, RevertNewJob, RevertRendered DEF Provision!Attach
<1>3. \A h : ~Provision!CopiedAtOnce(h)'
    BY <1>2 DEF Provision!CopiedAtOnce
<1> QED
    BY <1>1, <1>2, <1>3, RevertBegins

LEMMA RevertPolicy ==
    ASSUME Provision!RevertInv, Provision!ApplyHostPolicy
    PROVE  Provision!RevertInv'
<1> DEFINE copy == {h \in Provision!Existing(Provision!Targets("policy")) : Provision!Rendered[h].does = "write"}
<1>1. "policy" \in Provision!Commands /\ Provision!Begin("policy")
    BY DEF Provision!ApplyHostPolicy, Provision!Commands
<1>2. /\ copy \in SUBSET Hosts
      /\ \A h \in Provision!Targets("policy") :
            h \in copy <=> v1[h] # None /\ Provision!Rendered[h].does = "write"
    BY <1>1, RevertTargets DEF Provision!Existing
<1>3. CASE v4' = None
    BY <1>1, <1>3, RevertBegins
<1>4. CASE v4' = Provision!ApplyJob("policy", "backup", FALSE, copy, Provision!Rendered)
  <2>0. Provision!Rendered \in [Hosts -> Provision!Outcomes]
      BY RevertRendered DEF Provision!RevertInv
  <2> HIDE DEF copy
  <2>1. /\ v4' \in Provision!ApplyJobs
        /\ v4'.command = "policy" /\ v4'.phase = "backup" /\ v4'.copy = copy
        /\ v4'.saved = {} /\ v4'.created = {} /\ v4'.todo = Plan["policy"]
        /\ v4'.rendered = Provision!Rendered
      BY <1>1, <1>2, <1>4, <2>0, RevertNewJob
  <2>2. \A h \in Provision!ToSet(v4'.todo) :
            Provision!UserFile(h) /\ Provision!CopiedAtOnce(h)' => h \in v4'.copy
      BY <1>1, <1>2, <2>1, RevertTargets
         DEF Provision!RevertInv, Provision!UserFilesKept, Provision!CopiedAtOnce
  <2>3. \A h \in v4'.copy : v1[h] # None
      BY <2>1 DEF copy, Provision!Existing
  <2> QED
      BY <1>1, <2>1, <2>2, <2>3, RevertBegins
<1> QED
    BY <1>3, <1>4 DEF Provision!ApplyHostPolicy

\* The job of a command that is running.
LEMMA RevertApplying ==
    ASSUME Provision!RevertInv, v4 # None, v4.phase \in {"backup", "write"}
    PROVE  /\ v4 \in Provision!ApplyJobs /\ Provision!Applying /\ ~Provision!Restoring
           /\ v5 # 0 /\ v7 = FALSE
<1>1. v4 \in Provision!ApplyJobs
    BY DEF Provision!RevertInv, Provision!TypeOK, Provision!RevertJobs
<1>2. v5 # 0
    BY DEF Provision!RevertInv, Provision!OneCommand
<1>3. v7 = FALSE
    BY DEF Provision!RevertInv, Provision!NotYetReverted, Provision!TypeOK
<1> QED
    BY <1>1, <1>2, <1>3 DEF Provision!Applying, Provision!Restoring

\* A step of a command that neither writes a file nor the manifest keeps the
\* invariant when the new job does.
LEMMA RevertJobMoves ==
    ASSUME Provision!RevertInv, Provision!Applying, UNCHANGED <<v1, v2, v3, v5, v6, v7>>,
           v4' \in Provision!ApplyJobs, v4'.created = v4.created, v4'.command = v4.command,
           v4'.rendered = v4.rendered, v4'.saved = v4.saved,
           Provision!ToSet(v4'.todo) \subseteq Provision!ToSet(v4.todo),
           \A h \in v4'.copy : v1[h] # None,
           v4'.phase = "write" => v4.phase = "write" /\ v4'.copy = {},
           v4.command = "attach" \/ v4'.copy = v4.copy
    PROVE  Provision!RevertInv'
<1> USE DEF Provision!RevertInv
<1>1. v4 # None /\ v4.phase \in {"backup", "write"}
    BY DEF Provision!Applying
<1>2. v5 # 0 /\ v7 = FALSE /\ v4 \in Provision!ApplyJobs
    BY <1>1, RevertApplying
<1>3. Provision!TypeOK'
    BY DEF Provision!TypeOK
<1>4. Provision!UserFilesKept'
    BY DEF Provision!UserFilesKept, Provision!UserFile, Provision!OldestIsOriginal, Provision!Holds
<1>5. v4' # None /\ v4'.phase \in {"backup", "write"}
    BY ProvisioningAssumption DEF Provision!ApplyJobs
<1>6. \A h : Provision!CopiedAtOnce(h)' => Provision!CopiedAtOnce(h)
    BY DEF Provision!CopiedAtOnce
<1>7. v4.command = "attach" => \A h : ~Provision!CopiedAtOnce(h)
    BY DEF Provision!CopiedAtOnce
<1>8. Provision!CopiedFirst'
  <2>1. \A h \in v4'.saved : Provision!UserFile(h)' => Provision!Holds(v3.backups, h)'
      BY DEF Provision!CopiedFirst, Provision!UserFile, Provision!Holds
  <2>2. \A h \in v4'.created : ~Provision!UserFile(h)'
      BY DEF Provision!CopiedFirst, Provision!UserFile
  <2>3. \A h \in Provision!ToSet(v4'.todo) :
            Provision!UserFile(h)' /\ Provision!CopiedAtOnce(h)' => h \in v4'.copy \cup v4'.saved
      BY <1>6, <1>7 DEF Provision!CopiedFirst, Provision!UserFile
  <2> QED
      BY <2>1, <2>2, <2>3 DEF Provision!CopiedFirst, Provision!UserFile, Provision!Holds, Provision!ToSet
<1>9. Provision!RestoresOriginal'
    BY <1>5 DEF Provision!RestoresOriginal, Provision!Restoring
<1>10. Provision!OneCommand'
  <2>1. Provision!Known' = Provision!Known
      BY <1>1, <1>5 DEF Provision!Known, Provision!Applying
  <2>2. ~Provision!Restoring'
      BY <1>5 DEF Provision!Restoring
  <2>3. v5 = 1 /\ v6 = 0 =>
          /\ v3.created = {}
          /\ \A h \in Hosts : ~Provision!UserFile(h) /\ (v1[h] # None \/ Provision!Holds(v3.backups, h))
                => h \in Provision!Known
      BY DEF Provision!OneCommand
  <2>4. \A h : Provision!UserFile(h)' = Provision!UserFile(h)
                /\ Provision!Holds(v3.backups, h)' = Provision!Holds(v3.backups, h)
      BY DEF Provision!UserFile, Provision!Holds
  <2> QED
      BY <1>2, <2>1, <2>2, <2>3, <2>4 DEF Provision!OneCommand
<1> QED
    BY <1>2, <1>3, <1>4, <1>8, <1>9, <1>10 DEF Provision!NotYetReverted, Provision!RevertRestoresUserFiles

\* The next file of the job.
LEMMA RevertTarget ==
    ASSUME Provision!RevertInv, Provision!Writing
    PROVE  /\ v4 \in Provision!ApplyJobs /\ Provision!Applying
           /\ v4.todo \in Seq(Hosts) /\ Provision!Target = v4.todo[1] /\ Provision!Target \in Hosts
           /\ Provision!Target \in Provision!ToSet(v4.todo)
           /\ Tail(v4.todo) \in Seq(Hosts)
           /\ Provision!ToSet(Tail(v4.todo)) \subseteq Provision!ToSet(v4.todo)
           /\ v4.copy = {}
<1>1. v4 \in Provision!ApplyJobs /\ Provision!Applying
    BY RevertApplying DEF Provision!Writing
<1>2. v4.todo \in Seq(Hosts) /\ v4.todo # <<>>
    BY <1>1 DEF Provision!ApplyJobs, Provision!Writing
<1>3. /\ Provision!Target = v4.todo[1] /\ 1 \in DOMAIN v4.todo /\ v4.todo[1] \in Hosts
      /\ Tail(v4.todo) \in Seq(Hosts)
      /\ \A i \in DOMAIN Tail(v4.todo) : i + 1 \in DOMAIN v4.todo /\ Tail(v4.todo)[i] = v4.todo[i + 1]
    BY <1>2 DEF Provision!Target
<1>4. v4.copy = {}
    BY <1>1 DEF Provision!RevertInv, Provision!CopiedFirst, Provision!Writing
<1> QED
    BY <1>1, <1>2, <1>3, <1>4 DEF Provision!ToSet

LEMMA RevertSkips ==
    ASSUME Provision!RevertInv, Provision!RenderSkips
    PROVE  Provision!RevertInv'
<1>1. Provision!Writing /\ v4' = [v4 EXCEPT !.todo = Tail(v4.todo)] /\ UNCHANGED <<v1, v2, v3, v5, v6, v7>>
    BY DEF Provision!RenderSkips
<1>2. /\ v4' \in Provision!ApplyJobs /\ v4'.todo = Tail(v4.todo) /\ v4'.phase = "write" /\ v4'.copy = {}
      /\ v4'.created = v4.created /\ v4'.command = v4.command /\ v4'.rendered = v4.rendered
      /\ v4'.saved = v4.saved /\ v4.phase = "write" /\ v4'.copy = v4.copy
    BY <1>1, RevertTarget DEF Provision!ApplyJobs, Provision!Writing
<1> QED
    BY <1>1, <1>2, RevertTarget, RevertJobMoves

LEMMA RevertEnsures ==
    ASSUME Provision!RevertInv, Provision!EnsureBackup
    PROVE  Provision!RevertInv'
<1>1. /\ Provision!Writing /\ UNCHANGED <<v1, v2, v3, v5, v6, v7>>
      /\ v4' = [v4 EXCEPT !.phase = "backup", !.copy = {Provision!Target}]
      /\ v4.command = "attach" /\ v1[Provision!Target] # None
    BY DEF Provision!EnsureBackup, Provision!Unsaved
<1>2. /\ v4' \in Provision!ApplyJobs /\ v4'.todo = v4.todo /\ v4'.phase = "backup"
      /\ v4'.copy = {Provision!Target}
      /\ v4'.created = v4.created /\ v4'.command = v4.command /\ v4'.rendered = v4.rendered
      /\ v4'.saved = v4.saved
    BY <1>1, RevertTarget DEF Provision!ApplyJobs
<1> QED
    BY <1>1, <1>2, RevertTarget, RevertJobMoves

\* A renderer raises: the command is over and counts as aborted.
LEMMA RevertRaises ==
    ASSUME Provision!RevertInv, v4 # None, v4' = None, UNCHANGED <<v1, v2, v3, v5, v7>>,
           v6' = v6 + 1 \/ (v6' = v6 /\ ~Provision!Applying)
    PROVE  Provision!RevertInv'
<1> USE DEF Provision!RevertInv
<1>0. v6 \in Nat /\ v6' \in Nat
    BY DEF Provision!TypeOK
<1>1. Provision!TypeOK'
    BY <1>0 DEF Provision!TypeOK
<1>2. Provision!UserFilesKept'
    BY DEF Provision!UserFilesKept, Provision!UserFile, Provision!OldestIsOriginal, Provision!Holds
<1>3. v7 = FALSE /\ v5 # 0
    BY DEF Provision!NotYetReverted, Provision!TypeOK, Provision!OneCommand
<1>4. Provision!OneCommand'
  <2>1. CASE v6' = 0
    <3>1. v6 = 0 /\ ~Provision!Applying
        BY <1>0, <2>1
    <3> QED
        BY <1>3, <3>1 DEF Provision!OneCommand, Provision!Applying, Provision!Restoring, Provision!Known,
                          Provision!UserFile, Provision!Holds
  <2>2. CASE v6' # 0
      BY <1>3, <2>2 DEF Provision!OneCommand
  <2> QED
      BY <2>1, <2>2
<1> QED
    BY <1>1, <1>2, <1>3, <1>4
       DEF Provision!NotYetReverted, Provision!CopiedFirst, Provision!Applying, Provision!RestoresOriginal,
           Provision!Restoring, Provision!RevertRestoresUserFiles

\* _backup_files: the new batch is the youngest, so that it holds the oldest
\* copy of a file only if there was none, and then the disk has the original.
LEMMA RevertCopies ==
    ASSUME Provision!RevertInv, Provision!CopyAside
    PROVE  Provision!RevertInv'
<1> USE DEF Provision!RevertInv
<1> DEFINE batch == Provision!Copies(v4.copy)
           old == v3.backups
<1>1. v4 # None /\ v4.phase = "backup" /\ UNCHANGED <<v1, v2, v5, v6, v7>>
    BY DEF Provision!CopyAside
<1>2. v4 \in Provision!ApplyJobs /\ v5 # 0 /\ v7 = FALSE /\ Provision!Applying
    BY <1>1, RevertApplying
<1>3. /\ v4' \in Provision!ApplyJobs /\ v4' # None /\ v4'.phase = "write" /\ v4'.copy = {}
      /\ v4'.saved = v4.saved \cup v4.copy /\ v4'.todo = v4.todo /\ v4'.command = v4.command
      /\ v4'.rendered = v4.rendered /\ v4'.created = v4.created
  <2>1. PICK saved \in SUBSET Hosts : saved = v4.saved \cup v4.copy
      BY <1>2 DEF Provision!ApplyJobs
  <2>2. v4' = [v4 EXCEPT !.phase = "write", !.copy = {}, !.saved = saved]
      BY <2>1 DEF Provision!CopyAside
  <2>3. /\ v4' \in Provision!ApplyJobs /\ v4'.phase = "write" /\ v4'.copy = {}
        /\ v4'.saved = saved /\ v4'.todo = v4.todo /\ v4'.command = v4.command
        /\ v4'.rendered = v4.rendered /\ v4'.created = v4.created
      BY ONLY <1>2, <2>2 DEF Provision!ApplyJobs
  <2> QED
      BY <2>1, <2>3, ProvisioningAssumption
<1>4. v4.copy \subseteq Hosts
    BY <1>2 DEF Provision!ApplyJobs
<1>5. /\ old \in Seq(Provision!Files) /\ batch \in Provision!Files
      /\ \A h \in Hosts : batch[h] = IF h \in v4.copy THEN v1[h] ELSE None
    BY DEF Provision!TypeOK, Provision!Copies, Provision!Files
<1>6. \/ v4.copy = {} /\ v3' = v3
      \/ v4.copy # {} /\ v3'.backups = Append(old, batch) /\ v3'.created = {}
                      /\ v3' \in [backups : Seq(Provision!Files), created : SUBSET Hosts]
  <2>1. CASE v4.copy = {}
      BY <2>1 DEF Provision!CopyAside, Provision!Backup
  <2>2. CASE v4.copy # {}
    <3>1. v3' = [backups |-> Append(old, batch), created |-> {}]
        BY <2>2 DEF Provision!CopyAside, Provision!Backup
    <3>2. Append(old, batch) \in Seq(Provision!Files)
        BY <1>5
    <3> QED
        BY <2>2, <3>1, <3>2
  <2> QED
      BY <2>1, <2>2
<1> HIDE DEF batch
<1>7. CASE v4.copy # {}
  <2>1. v3'.backups = Append(old, batch) /\ v3'.created = {}
        /\ v3' \in [backups : Seq(Provision!Files), created : SUBSET Hosts]
      BY <1>6, <1>7
  <2>2. /\ DOMAIN v3'.backups = 1 .. (Len(old) + 1) /\ DOMAIN old = 1 .. Len(old) /\ Len(old) \in Nat
        /\ v3'.backups[Len(old) + 1] = batch
        /\ \A i \in 1 .. Len(old) : v3'.backups[i] = old[i]
      BY <1>5, <2>1
  <2> HIDE DEF old
  <2>3. \A h \in Hosts : Provision!Holds(v3.backups, h)' <=> Provision!Holds(old, h) \/ batch[h] # None
      BY <2>2 DEF Provision!Holds
  <2>4. \A h \in v4.copy : Provision!UserFile(h) => batch[h] # None
      BY <1>4, <1>5 DEF Provision!UserFilesKept
  <2>5. Provision!TypeOK'
      BY <1>1, <1>3, <2>1 DEF Provision!TypeOK
  <2>6. ASSUME NEW h \in Hosts, Provision!UserFile(h)
        PROVE  Provision!OldestIsOriginal(v3.backups, h)'
    <3>1. ASSUME NEW i \in 1 .. (Len(old) + 1), v3'.backups[i][h] # None,
                 \A j \in 1 .. (i - 1) : v3'.backups[j][h] = None
          PROVE  v3'.backups[i][h] = v2[h]
      <4>1. CASE i = Len(old) + 1
        <5>1. ~Provision!Holds(old, h)
            BY <2>2, <3>1, <4>1 DEF Provision!Holds
        <5>2. v1[h] = v2[h]
            BY <2>6, <5>1 DEF Provision!UserFilesKept, old
        <5> QED
            BY <1>5, <2>2, <3>1, <4>1, <5>2
      <4>2. CASE i # Len(old) + 1
        <5>1. i \in 1 .. Len(old) /\ \A j \in 1 .. (i - 1) : j \in 1 .. Len(old)
            BY <2>2, <4>2
        <5>2. old[i][h] # None /\ \A j \in 1 .. (i - 1) : old[j][h] = None
            BY <2>2, <3>1, <5>1
        <5>3. Provision!OldestIsOriginal(old, h)
            BY <2>6 DEF Provision!UserFilesKept, old
        <5> QED
            BY <2>2, <5>1, <5>2, <5>3 DEF Provision!OldestIsOriginal
      <4> QED
          BY <4>1, <4>2
    <3> QED
        BY <1>1, <2>2, <3>1 DEF Provision!OldestIsOriginal
  <2>7. Provision!UserFilesKept'
    <3>1. ASSUME NEW h \in Hosts, Provision!UserFile(h)
          PROVE  v1[h] # None /\ (Provision!Holds(v3.backups, h)' \/ v1[h] = v2[h])
        BY <2>3, <3>1 DEF Provision!UserFilesKept, old
    <3> QED
        BY <1>1, <2>1, <2>6, <3>1 DEF Provision!UserFilesKept, Provision!UserFile
  <2>8. Provision!CopiedFirst'
    <3>1. \A h \in v4'.saved : Provision!UserFile(h) => Provision!Holds(v3.backups, h)'
      <4> SUFFICES ASSUME NEW h \in v4'.saved, Provision!UserFile(h)
                   PROVE  Provision!Holds(v3.backups, h)'
          OBVIOUS
      <4>1. h \in Hosts
          BY <1>3 DEF Provision!ApplyJobs
      <4>2. CASE h \in v4.saved
          BY <1>2, <2>3, <4>1, <4>2 DEF Provision!CopiedFirst, old
      <4>3. CASE h \in v4.copy
          BY <2>3, <2>4, <4>1, <4>3
      <4> QED
          BY <1>3, <4>2, <4>3
    <3>2. \A h : Provision!CopiedAtOnce(h)' = Provision!CopiedAtOnce(h) /\ Provision!UserFile(h)' = Provision!UserFile(h)
        BY <1>1, <1>3 DEF Provision!CopiedAtOnce, Provision!UserFile
    <3>3. \A h \in Provision!ToSet(v4'.todo) :
              Provision!UserFile(h) /\ Provision!CopiedAtOnce(h) => h \in v4'.copy \cup v4'.saved
        BY <1>2, <1>3 DEF Provision!CopiedFirst
    <3>4. \A h \in v4'.created : ~Provision!UserFile(h)
        BY <1>2, <1>3 DEF Provision!CopiedFirst
    <3>5. Provision!ToSet(v4.todo)' = Provision!ToSet(v4'.todo)
        BY DEF Provision!ToSet
    <3> QED
        BY <1>3, <3>1, <3>2, <3>3, <3>4, <3>5 DEF Provision!CopiedFirst
  <2>9. Provision!OneCommand'
    <3>1. ASSUME v5 = 1, v6 = 0
          PROVE  \A h \in Hosts : ~Provision!UserFile(h) /\ (v1[h] # None \/ Provision!Holds(v3.backups, h)')
                        => h \in v4.created
      <4>1. Provision!Known = v4.created
          BY <1>2, <3>1 DEF Provision!OneCommand, Provision!Known
      <4>2. \A h \in Hosts : batch[h] # None => v1[h] # None
          BY <1>5
      <4> QED
          BY <1>2, <2>3, <3>1, <4>1, <4>2 DEF Provision!OneCommand, old
    <3>2. Provision!Known' = v4.created /\ ~Provision!Restoring'
        BY <1>3, <2>1 DEF Provision!Known, Provision!Applying, Provision!Restoring
    <3>3. \A h : Provision!UserFile(h)' = Provision!UserFile(h)
        BY <1>1 DEF Provision!UserFile
    <3> QED
        BY <1>1, <1>2, <1>3, <2>1, <3>1, <3>2, <3>3 DEF Provision!OneCommand
  <2> QED
      BY <1>1, <1>2, <1>3, <2>5, <2>7, <2>8, <2>9
         DEF Provision!NotYetReverted, Provision!RestoresOriginal, Provision!Restoring,
             Provision!RevertRestoresUserFiles
<1>8. CASE v4.copy = {}
  <2>1. v3' = v3 /\ v4'.saved = v4.saved
      BY <1>3, <1>6, <1>8
  <2>2. Provision!TypeOK'
      BY <1>1, <1>3, <2>1 DEF Provision!TypeOK
  <2>3. Provision!UserFilesKept'
      BY <1>1, <2>1 DEF Provision!UserFilesKept, Provision!UserFile, Provision!OldestIsOriginal, Provision!Holds
  <2>4. Provision!CopiedFirst'
    <3>1. \A h : Provision!CopiedAtOnce(h)' = Provision!CopiedAtOnce(h) /\ Provision!UserFile(h)' = Provision!UserFile(h)
        BY <1>1, <1>3 DEF Provision!CopiedAtOnce, Provision!UserFile
    <3>2. Provision!ToSet(v4.todo)' = Provision!ToSet(v4.todo)
        BY <1>3 DEF Provision!ToSet
    <3>3. \A h : Provision!Holds(v3.backups, h)' = Provision!Holds(v3.backups, h)
        BY <2>1 DEF Provision!Holds
    <3> QED
        BY <1>2, <1>3, <1>8, <2>1, <3>1, <3>2, <3>3 DEF Provision!CopiedFirst
  <2>5. Provision!OneCommand'
    <3>1. Provision!Known' = Provision!Known /\ ~Provision!Restoring'
        BY <1>2, <1>3, <2>1 DEF Provision!Known, Provision!Applying, Provision!Restoring
    <3>2. \A h : Provision!UserFile(h)' = Provision!UserFile(h)
                  /\ Provision!Holds(v3.backups, h)' = Provision!Holds(v3.backups, h)
        BY <1>1, <2>1 DEF Provision!UserFile, Provision!Holds
    <3> QED
        BY <1>1, <1>2, <1>3, <2>1, <3>1, <3>2 DEF Provision!OneCommand
  <2> QED
      BY <1>1, <1>2, <1>3, <2>2, <2>3, <2>4, <2>5
         DEF Provision!NotYetReverted, Provision!RestoresOriginal, Provision!Restoring,
             Provision!RevertRestoresUserFiles
<1> QED
    BY <1>7, <1>8

\* A file of the user is written over only after it was copied; one that was
\* not there is remembered.
LEMMA RevertResult ==
    ASSUME Provision!RevertInv, Provision!Writing
    PROVE  Provision!Result \in Provision!Outcomes
<1> DEFINE t == Provision!Target
<1>1. v4 \in Provision!ApplyJobs /\ t \in Hosts
    BY RevertTarget
<1>2. v4.command \in Provision!Commands /\ v4.force \in BOOLEAN /\ v4.rendered[t] \in Provision!Outcomes
    BY <1>1 DEF Provision!ApplyJobs
<1>3. v1[t] \in Provision!Content \cup {None}
    BY <1>1 DEF Provision!RevertInv, Provision!TypeOK, Provision!Files
<1> HIDE DEF t
<1>4. Provision!Render(v4.command, t, v1[t], v4.force) \in Provision!Outcomes
    BY <1>1, <1>2, <1>3, ProvisionRender
<1> QED
    BY <1>2, <1>4 DEF Provision!Result, t

LEMMA RevertSaved ==
    ASSUME Provision!RevertInv, Provision!Writing, Provision!Result.does = "write", ~Provision!Unsaved,
           Provision!UserFile(Provision!Target)
    PROVE  Provision!Holds(v3.backups, Provision!Target)
<1> DEFINE t == Provision!Target
<1>1. /\ v4 \in Provision!ApplyJobs /\ t \in Hosts /\ t \in Provision!ToSet(v4.todo) /\ v4.copy = {}
      /\ Provision!Applying
    BY RevertTarget
<1>2. v1[t] # None
    BY <1>1 DEF Provision!RevertInv, Provision!UserFilesKept
<1>3. t \in v4.saved
  <2>1. CASE v4.command = "attach"
      BY <1>2, <2>1 DEF Provision!Unsaved
  <2>2. CASE v4.command \in {"adopt", "policy"}
    <3>1. Provision!CopiedAtOnce(t)
        BY <2>2 DEF Provision!CopiedAtOnce, Provision!Result
    <3> QED
        BY <1>1, <3>1 DEF Provision!RevertInv, Provision!CopiedFirst
  <2>3. v4.command \in {"attach", "adopt", "policy"}
      BY <1>1 DEF Provision!ApplyJobs, Provision!Commands
  <2> QED
      BY <2>1, <2>2, <2>3
<1> QED
    BY <1>1, <1>3 DEF Provision!RevertInv, Provision!CopiedFirst

LEMMA RevertWrites ==
    ASSUME Provision!RevertInv, Provision!WriteNext
    PROVE  Provision!RevertInv'
<1> USE DEF Provision!RevertInv
<1> DEFINE t == Provision!Target
<1>1. /\ Provision!Writing /\ Provision!Result.does = "write" /\ ~Provision!Unsaved
      /\ UNCHANGED <<v2, v3, v5, v6, v7>> /\ v4.phase = "write"
    BY DEF Provision!WriteNext, Provision!Writing
<1>2. /\ v4 \in Provision!ApplyJobs /\ t \in Hosts /\ v4.copy = {} /\ Provision!Applying
      /\ Tail(v4.todo) \in Seq(Hosts) /\ Provision!ToSet(Tail(v4.todo)) \subseteq Provision!ToSet(v4.todo)
    BY <1>1, RevertTarget
<1>3. v5 # 0 /\ v7 = FALSE
    BY <1>1, RevertApplying DEF Provision!Writing
<1>4. PICK c \in Provision!Content : v1' = [v1 EXCEPT ![t] = c] /\ c # None
  <2>1. Provision!Result.content \in Provision!Content
      BY <1>1, RevertResult DEF Provision!Outcomes
  <2> QED
      BY <2>1, ProvisioningAssumption DEF Provision!WriteNext, Provision!WriteBytesAtomic
<1>5. v1' \in Provision!Files /\ v1'[t] = c /\ \A h \in Hosts \ {t} : v1'[h] = v1[h]
    BY <1>2, <1>4 DEF Provision!TypeOK, Provision!Files
<1>6. PICK created \in SUBSET Hosts : created = IF v1[t] = None THEN v4.created \cup {t} ELSE v4.created
    BY <1>2 DEF Provision!ApplyJobs
<1>7. /\ v4' \in Provision!ApplyJobs /\ v4'.phase = "write" /\ v4'.copy = {} /\ v4'.saved = v4.saved
      /\ v4'.todo = Tail(v4.todo) /\ v4'.command = v4.command /\ v4'.rendered = v4.rendered
      /\ v4'.created = created
  <2>1. v4' = [v4 EXCEPT !.todo = Tail(v4.todo), !.created = created]
      BY <1>6 DEF Provision!WriteNext
  <2> QED
      BY ONLY <1>1, <1>2, <2>1 DEF Provision!ApplyJobs
<1>8. v4' # None
    BY <1>7, ProvisioningAssumption
<1>9. Provision!UserFile(t) => Provision!Holds(v3.backups, t) /\ v1[t] # None
    BY <1>1, <1>2, RevertSaved DEF Provision!UserFilesKept
<1> HIDE DEF t
<1>10. \A h : /\ Provision!UserFile(h)' = Provision!UserFile(h)
              /\ Provision!Holds(v3.backups, h)' = Provision!Holds(v3.backups, h)
              /\ Provision!OldestIsOriginal(v3.backups, h)' = Provision!OldestIsOriginal(v3.backups, h)
              /\ Provision!CopiedAtOnce(h)' = Provision!CopiedAtOnce(h)
    BY <1>1, <1>7 DEF Provision!UserFile, Provision!Holds, Provision!OldestIsOriginal, Provision!CopiedAtOnce
<1>11. Provision!TypeOK'
    BY <1>1, <1>5, <1>7 DEF Provision!TypeOK
<1>12. Provision!UserFilesKept'
  <2>1. ASSUME NEW h \in Hosts, Provision!UserFile(h)
        PROVE  /\ v1'[h] # None /\ h \notin v3.created /\ Provision!OldestIsOriginal(v3.backups, h)
               /\ ~Provision!Holds(v3.backups, h) => v1'[h] = v2[h]
      BY <1>4, <1>5, <1>9, <2>1 DEF Provision!UserFilesKept
  <2> QED
      BY <1>1, <1>10, <2>1 DEF Provision!UserFilesKept
<1>13. Provision!CopiedFirst'
  <2>1. \A h \in v4'.saved : Provision!UserFile(h) => Provision!Holds(v3.backups, h)
      BY <1>2, <1>7 DEF Provision!CopiedFirst
  <2>2. \A h \in v4'.created : ~Provision!UserFile(h)
      BY <1>2, <1>6, <1>7, <1>9 DEF Provision!CopiedFirst
  <2>3. \A h \in Provision!ToSet(v4'.todo) :
            Provision!UserFile(h) /\ Provision!CopiedAtOnce(h) => h \in v4'.copy \cup v4'.saved
      BY <1>2, <1>7 DEF Provision!CopiedFirst
  <2>4. Provision!ToSet(v4.todo)' = Provision!ToSet(v4'.todo)
      BY DEF Provision!ToSet
  <2> QED
      BY <1>7, <1>10, <2>1, <2>2, <2>3, <2>4 DEF Provision!CopiedFirst
<1>14. Provision!OneCommand'
  <2>1. Provision!Known = v3.created \cup v4.created /\ Provision!Known' = v3.created \cup created
      BY <1>1, <1>2, <1>7, <1>8 DEF Provision!Known, Provision!Applying
  <2>2. ~Provision!Restoring'
      BY <1>7 DEF Provision!Restoring
  <2>3. ASSUME v5 = 1, v6 = 0, NEW h \in Hosts, ~Provision!UserFile(h),
               v1'[h] # None \/ Provision!Holds(v3.backups, h)
        PROVE  h \in v3.created \cup created
      BY <1>2, <1>5, <1>6, <2>1, <2>3 DEF Provision!OneCommand
  <2>4. v5 = 1 /\ v6 = 0 => v3.created = {}
      BY <1>2 DEF Provision!OneCommand
  <2> QED
      BY <1>1, <1>3, <1>7, <1>10, <2>1, <2>2, <2>3, <2>4 DEF Provision!OneCommand
<1> QED
    BY <1>1, <1>3, <1>7, <1>11, <1>12, <1>13, <1>14
       DEF Provision!NotYetReverted, Provision!RestoresOriginal, Provision!Restoring,
           Provision!RevertRestoresUserFiles

\* record_created: what the command created is in the manifest.
LEMMA RevertFinishes ==
    ASSUME Provision!RevertInv, Provision!Finish
    PROVE  Provision!RevertInv'
<1> USE DEF Provision!RevertInv
<1>1. /\ v4 # None /\ v4.phase = "write" /\ v4' = None /\ UNCHANGED <<v1, v2, v5, v6, v7>>
      /\ v3' = Provision!RecordCreated(v4.created)
    BY DEF Provision!Finish
<1>2. v4 \in Provision!ApplyJobs /\ Provision!Applying /\ v5 # 0 /\ v7 = FALSE
    BY <1>1, RevertApplying
<1>3. /\ v3'.backups = v3.backups /\ v3'.created = v3.created \cup v4.created
      /\ v3' \in [backups : Seq(Provision!Files), created : SUBSET Hosts]
    BY <1>1, <1>2 DEF Provision!RecordCreated, Provision!ApplyJobs, Provision!TypeOK
<1>4. \A h : /\ Provision!UserFile(h)' = Provision!UserFile(h)
             /\ Provision!Holds(v3.backups, h)' = Provision!Holds(v3.backups, h)
             /\ Provision!OldestIsOriginal(v3.backups, h)' = Provision!OldestIsOriginal(v3.backups, h)
    BY <1>1, <1>3 DEF Provision!UserFile, Provision!Holds, Provision!OldestIsOriginal
<1>5. Provision!TypeOK'
    BY <1>1, <1>3 DEF Provision!TypeOK
<1>6. Provision!UserFilesKept'
    BY <1>1, <1>2, <1>3, <1>4 DEF Provision!UserFilesKept, Provision!CopiedFirst
<1>7. Provision!OneCommand'
  <2>1. Provision!Known' = Provision!Known
      BY <1>1, <1>2, <1>3 DEF Provision!Known, Provision!Applying
  <2> QED
      BY <1>1, <1>2, <1>4, <2>1 DEF Provision!OneCommand, Provision!Applying, Provision!Restoring
<1> QED
    BY <1>1, <1>2, <1>5, <1>6, <1>7
       DEF Provision!NotYetReverted, Provision!CopiedFirst, Provision!Applying,
           Provision!RestoresOriginal, Provision!Restoring, Provision!RevertRestoresUserFiles

\* The job of a revert.
LEMMA RevertRestoring ==
    ASSUME Provision!RevertInv, Provision!Restoring
    PROVE  /\ v4 \in Provision!RevertJobs /\ v4.command = "revert" /\ v4.phase = "restore"
           /\ v4.copies \in Seq(Provision!Files) /\ v4.remove \subseteq Hosts
           /\ ~Provision!Applying /\ v5 # 0 /\ v7 = FALSE
<1>1. v4 \in Provision!RevertJobs
    BY DEF Provision!RevertInv, Provision!TypeOK, Provision!ApplyJobs, Provision!Restoring
<1>2. v5 # 0 /\ v7 = FALSE
    BY DEF Provision!RevertInv, Provision!OneCommand, Provision!NotYetReverted, Provision!TypeOK,
           Provision!Restoring
<1> QED
    BY <1>1, <1>2 DEF Provision!RevertJobs, Provision!Applying, Provision!Restoring

\* A state of a revert is good when what it has left to do is.
LEMMA RevertKeepsRestoring ==
    ASSUME Provision!RevertInv, v4' \in Provision!RevertJobs, v5 # 0, v7' = FALSE, v1' \in Provision!Files,
           UNCHANGED <<v2, v3, v5, v6>>,
           \A h \in Hosts : Provision!UserFile(h) =>
              /\ v1'[h] # None /\ Provision!LastIsOriginal(v4'.copies, h)
              /\ ~Provision!Holds(v3.backups, h) => v1'[h] = v2[h]
              /\ ~Provision!Holds(v4'.copies, h) => v1'[h] = v2[h],
           \A h \in Hosts : Provision!Holds(v4'.copies, h) => Provision!Holds(v3.backups, h),
           v4'.remove \subseteq v3.created,
           v5 = 1 /\ v6 = 0 => \A h \in Hosts :
              /\ ~Provision!UserFile(h) /\ (v1'[h] # None \/ Provision!Holds(v3.backups, h)) => h \in v3.created
              /\ ~Provision!UserFile(h) /\ (v1'[h] # None \/ Provision!Holds(v4'.copies, h)) => h \in v4'.remove
    PROVE  Provision!RevertInv'
<1> USE DEF Provision!RevertInv
<1>1. v4'.command = "revert" /\ v4'.phase = "restore" /\ v4' # None
    BY ProvisioningAssumption DEF Provision!RevertJobs
<1>2. Provision!TypeOK'
    BY DEF Provision!TypeOK
<1>3. \A h : /\ Provision!UserFile(h)' = Provision!UserFile(h)
             /\ Provision!Holds(v3.backups, h)' = Provision!Holds(v3.backups, h)
             /\ Provision!OldestIsOriginal(v3.backups, h)' = Provision!OldestIsOriginal(v3.backups, h)
             /\ Provision!Holds(v4.copies, h)' = Provision!Holds(v4'.copies, h)
             /\ Provision!LastIsOriginal(v4.copies, h)' = Provision!LastIsOriginal(v4'.copies, h)
    BY DEF Provision!UserFile, Provision!Holds, Provision!OldestIsOriginal, Provision!LastIsOriginal
<1>4. Provision!UserFilesKept'
    BY <1>3 DEF Provision!UserFilesKept
<1>5. Provision!RestoresOriginal'
    BY <1>3 DEF Provision!RestoresOriginal
<1>6. ~Provision!Applying' /\ Provision!Known' = v3.created
    BY <1>1 DEF Provision!Applying, Provision!Known
<1>7. Provision!OneCommand'
    BY <1>3, <1>6 DEF Provision!OneCommand
<1> QED
    BY <1>2, <1>4, <1>5, <1>6, <1>7
       DEF Provision!NotYetReverted, Provision!CopiedFirst, Provision!RevertRestoresUserFiles

\* The copies in the order in which they are written back.
LEMMA RevertOrder ==
    ASSUME NEW batches \in Seq(Provision!Files)
    PROVE  /\ Provision!Restores(batches) \in Seq(Provision!Files)
           /\ \A h : Provision!Holds(Provision!Restores(batches), h) <=> Provision!Holds(batches, h)
           /\ \A h : Provision!OldestIsOriginal(batches, h)
                        => Provision!LastIsOriginal(Provision!Restores(batches), h)
<1> DEFINE n == Len(batches)
           r == Provision!Restores(batches)
<1>1. n \in Nat /\ DOMAIN batches = 1 .. n /\ \A i \in 1 .. n : batches[i] \in Provision!Files
    OBVIOUS
<1>2. r = [i \in 1 .. n |-> batches[(n - i) + 1]]
    BY DEF Provision!Restores, Provision!Reverse
<1>3. \A i \in 1 .. n : (n - i) + 1 \in 1 .. n /\ (n - ((n - i) + 1)) + 1 = i
    BY <1>1
<1>4. r \in Seq(Provision!Files) /\ Len(r) = n /\ DOMAIN r = 1 .. n
    BY <1>1, <1>2, <1>3
<1>5. \A i \in 1 .. n : r[i] = batches[(n - i) + 1] /\ batches[i] = r[(n - i) + 1]
    BY <1>2, <1>3
<1> HIDE DEF n, r
<1>6. ASSUME NEW h, Provision!OldestIsOriginal(batches, h),
             NEW i \in 1 .. n, r[i][h] # None, \A j \in (i + 1) .. n : r[j][h] = None
      PROVE  r[i][h] = v2[h]
  <2>1. \A j \in 1 .. (((n - i) + 1) - 1) : (n - j) + 1 \in (i + 1) .. n /\ j \in 1 .. n
      BY <1>1
  <2>2. \A j \in 1 .. (((n - i) + 1) - 1) : batches[j][h] = None
      BY <1>5, <1>6, <2>1
  <2> QED
      BY <1>1, <1>3, <1>5, <1>6, <2>2 DEF Provision!OldestIsOriginal
<1>7. \A h : Provision!Holds(r, h) <=> Provision!Holds(batches, h)
  <2>1. ASSUME NEW h, NEW i \in 1 .. n
        PROVE  /\ r[i][h] # None => batches[(n - i) + 1][h] # None
               /\ batches[i][h] # None => r[(n - i) + 1][h] # None
               /\ (n - i) + 1 \in 1 .. n
      BY <1>3, <1>5
  <2> QED
      BY <1>1, <1>4, <2>1 DEF Provision!Holds
<1>8. \A h : Provision!OldestIsOriginal(batches, h) => Provision!LastIsOriginal(r, h)
    BY <1>4, <1>6 DEF Provision!LastIsOriginal
<1> QED
    BY <1>4, <1>7, <1>8 DEF r

LEMMA RevertReverts ==
    ASSUME Provision!RevertInv, Provision!Revert
    PROVE  Provision!RevertInv'
<1> USE DEF Provision!RevertInv
<1> DEFINE r == Provision!Restores(v3.backups)
<1>1. /\ v4 = None /\ v5 > 0 /\ v7' = FALSE /\ UNCHANGED <<v1, v2, v3, v5, v6>>
      /\ v4' = [command |-> "revert", phase |-> "restore", copies |-> r, remove |-> v3.created]
    BY DEF Provision!Revert
<1>2. /\ r \in Seq(Provision!Files)
      /\ \A h : Provision!Holds(r, h) <=> Provision!Holds(v3.backups, h)
      /\ \A h : Provision!OldestIsOriginal(v3.backups, h) => Provision!LastIsOriginal(r, h)
    BY RevertOrder DEF Provision!TypeOK
<1> HIDE DEF r
<1>3. v4' \in Provision!RevertJobs /\ v4'.copies = r /\ v4'.remove = v3.created
    BY <1>1, <1>2 DEF Provision!RevertJobs, Provision!TypeOK
<1>4. v5 # 0 /\ v1 \in Provision!Files
    BY <1>1 DEF Provision!TypeOK
<1>5. v5 = 1 /\ v6 = 0 => \A h \in Hosts :
          ~Provision!UserFile(h) /\ (v1[h] # None \/ Provision!Holds(v3.backups, h)) => h \in v3.created
    BY <1>1 DEF Provision!OneCommand, Provision!Known, Provision!Applying
<1>6. \A h \in Hosts : Provision!UserFile(h) =>
              /\ v1[h] # None /\ Provision!LastIsOriginal(r, h)
              /\ ~Provision!Holds(v3.backups, h) => v1[h] = v2[h]
    BY <1>2 DEF Provision!UserFilesKept
<1> QED
    BY <1>1, <1>2, <1>3, <1>4, <1>5, <1>6, RevertKeepsRestoring

\* One copy is written back: what is left has the same last copies.
LEMMA RevertRest ==
    ASSUME NEW c \in Seq(Provision!Files), c # <<>>, NEW h \in Hosts, NEW batch, batch = Head(c),
           batch[h] # None, NEW d, d = Provision!Unrestored(c, h)
    PROVE  /\ d \in Seq(Provision!Files)
           /\ \A g \in Hosts : /\ Provision!LastIsOriginal(c, g) => Provision!LastIsOriginal(d, g)
                               /\ Provision!Holds(d, g) => Provision!Holds(c, g)
                               /\ g # h /\ Provision!Holds(c, g) => Provision!Holds(d, g)
           /\ Provision!LastIsOriginal(c, h) /\ ~Provision!Holds(d, h) => batch[h] = v2[h]
<1>1. PICK n \in Nat : n = Len(c) /\ n >= 1 /\ DOMAIN c = 1 .. n /\ batch = c[1]
                     /\ batch \in Provision!Files
    OBVIOUS
<1>2. CASE \A g \in Hosts \ {h} : batch[g] = None
  <2>1. d \in Seq(Provision!Files) /\ Len(d) = n - 1 /\ DOMAIN d = 1 .. (n - 1)
        /\ \A i \in 1 .. (n - 1) : d[i] = c[i + 1]
    <3>1. d = Tail(c)
        BY <1>2 DEF Provision!Unrestored
    <3> QED
        BY <1>1, <3>1
  <2>2. \A j \in 2 .. n : j - 1 \in 1 .. (n - 1) /\ c[j] = d[j - 1]
    <3>1. \A j \in 2 .. n : j - 1 \in 1 .. (n - 1) /\ (j - 1) + 1 = j
        BY <1>1
    <3> QED
        BY <2>1, <3>1
  <2>3. ASSUME NEW g \in Hosts, Provision!LastIsOriginal(c, g)
        PROVE  Provision!LastIsOriginal(d, g)
    <3>1. ASSUME NEW i \in 1 .. (n - 1), d[i][g] # None, \A j \in (i + 1) .. (n - 1) : d[j][g] = None
          PROVE  d[i][g] = v2[g]
      <4>1. \A j \in ((i + 1) + 1) .. n : j - 1 \in (i + 1) .. (n - 1) /\ j \in 2 .. n
          BY <1>1, <3>1
      <4>2. ASSUME NEW j \in ((i + 1) + 1) .. n
            PROVE  c[j][g] = None
        <5>1. j - 1 \in (i + 1) .. (n - 1) /\ j \in 2 .. n
            BY <4>1
        <5>2. d[j - 1][g] = None /\ c[j] = d[j - 1]
            BY <2>2, <3>1, <5>1
        <5> QED
            BY <5>2
      <4>3. i + 1 \in 1 .. n
          BY <1>1
      <4>4. c[i + 1][g] # None /\ d[i][g] = c[i + 1][g]
          BY <2>1, <3>1
      <4> QED
          BY <1>1, <2>3, <4>2, <4>3, <4>4 DEF Provision!LastIsOriginal
    <3> QED
        BY <2>1, <3>1 DEF Provision!LastIsOriginal
  <2>4. \A i \in 1 .. (n - 1) : i + 1 \in 1 .. n
      BY <1>1
  <2>5. ASSUME NEW g \in Hosts, g # h, NEW i \in 1 .. n, c[i][g] # None
        PROVE  i \in 2 .. n
      BY <1>1, <1>2, <2>5
  <2>6. ~Provision!Holds(d, h) => \A j \in (1 + 1) .. n : c[j][h] = None
      BY <2>1, <2>2 DEF Provision!Holds
  <2>7. \A g \in Hosts : Provision!Holds(d, g) => Provision!Holds(c, g)
      BY <1>1, <2>1, <2>4 DEF Provision!Holds
  <2>8. \A g \in Hosts : g # h /\ Provision!Holds(c, g) => Provision!Holds(d, g)
    <3>1. ASSUME NEW g \in Hosts, g # h, NEW i \in 1 .. n, c[i][g] # None
          PROVE  i - 1 \in 1 .. (n - 1) /\ d[i - 1][g] # None
        BY <2>2, <2>5, <3>1
    <3> QED
        BY <1>1, <2>1, <3>1 DEF Provision!Holds
  <2>9. Provision!LastIsOriginal(c, h) /\ ~Provision!Holds(d, h) => batch[h] = v2[h]
      BY <1>1, <2>6 DEF Provision!LastIsOriginal
  <2> QED
      BY <2>1, <2>3, <2>7, <2>8, <2>9
<1>3. CASE ~\A g \in Hosts \ {h} : batch[g] = None
  <2> DEFINE b == [batch EXCEPT ![h] = None]
  <2>1. b \in Provision!Files /\ b[h] = None /\ \A g \in Hosts \ {h} : b[g] = batch[g]
      BY ONLY <1>1, h \in Hosts DEF Provision!Files
  <2>2. d = [c EXCEPT ![1] = b]
      BY <1>3 DEF Provision!Unrestored
  <2> HIDE DEF b
  <2>3. d \in Seq(Provision!Files) /\ Len(d) = n /\ DOMAIN d = 1 .. n /\ d[1] = b
        /\ \A i \in 1 .. n : i # 1 => d[i] = c[i]
    <3>1. /\ DOMAIN d = 1 .. n /\ d = [i \in 1 .. n |-> IF i = 1 THEN b ELSE c[i]]
        BY <1>1, <2>2
    <3>2. \A i \in 1 .. n : c[i] \in Provision!Files
        BY <1>1
    <3>3. d \in [1 .. n -> Provision!Files]
        BY <2>1, <3>1, <3>2
    <3>4. d \in Seq(Provision!Files)
        BY <1>1, <3>3
    <3>5. Len(d) = n
        BY <1>1, <3>3, <3>4
    <3>6. d[1] = b /\ \A i \in 1 .. n : i # 1 => d[i] = c[i]
        BY <1>1, <3>1
    <3> QED
        BY <3>1, <3>4, <3>5, <3>6
  <2>4. \A i \in 1 .. n, g \in Hosts : d[i][g] # None => d[i][g] = c[i][g]
    <3> SUFFICES ASSUME NEW i \in 1 .. n, NEW g \in Hosts, d[i][g] # None
                 PROVE  d[i][g] = c[i][g]
        OBVIOUS
    <3>1. CASE i = 1
        BY <1>1, <2>1, <2>3, <3>1
    <3>2. CASE i # 1
        BY <2>3, <3>2
    <3> QED
        BY <3>1, <3>2
  <2>5. \A i \in 1 .. n : \A j \in (i + 1) .. n : j \in 1 .. n /\ j # 1
      BY <1>1
  <2>6. ASSUME NEW g \in Hosts, Provision!LastIsOriginal(c, g)
        PROVE  Provision!LastIsOriginal(d, g)
    <3>1. ASSUME NEW i \in 1 .. n, d[i][g] # None, \A j \in (i + 1) .. n : d[j][g] = None
          PROVE  d[i][g] = v2[g]
      <4>1. \A j \in (i + 1) .. n : c[j][g] = None
          BY <2>3, <2>5, <3>1
      <4> QED
          BY <1>1, <2>4, <2>6, <3>1, <4>1 DEF Provision!LastIsOriginal
    <3> QED
        BY <2>3, <3>1 DEF Provision!LastIsOriginal
  <2>7. \A i \in 1 .. n, g \in Hosts : g # h => d[i][g] = c[i][g]
    <3> SUFFICES ASSUME NEW i \in 1 .. n, NEW g \in Hosts, g # h
                 PROVE  d[i][g] = c[i][g]
        OBVIOUS
    <3>1. CASE i = 1
        BY <1>1, <2>1, <2>3, <3>1
    <3>2. CASE i # 1
        BY <2>3, <3>2
    <3> QED
        BY <3>1, <3>2
  <2>8. ~Provision!Holds(d, h) => \A j \in (1 + 1) .. n : c[j][h] = None
      BY <1>1, <2>3, <2>5 DEF Provision!Holds
  <2>9. \A g \in Hosts : Provision!Holds(d, g) => Provision!Holds(c, g)
      BY <1>1, <2>3, <2>4 DEF Provision!Holds
  <2>10. \A g \in Hosts : g # h /\ Provision!Holds(c, g) => Provision!Holds(d, g)
      BY <1>1, <2>3, <2>7 DEF Provision!Holds
  <2>11. Provision!LastIsOriginal(c, h) /\ ~Provision!Holds(d, h) => batch[h] = v2[h]
      BY <1>1, <2>8 DEF Provision!LastIsOriginal
  <2> QED
      BY <2>3, <2>6, <2>9, <2>10, <2>11
<1> QED
    BY <1>2, <1>3

LEMMA RevertRestores ==
    ASSUME Provision!RevertInv, Provision!RestoreNext
    PROVE  Provision!RevertInv'
<1> USE DEF Provision!RevertInv
<1> DEFINE c == v4.copies
<1>1. /\ Provision!Restoring /\ c # <<>> /\ UNCHANGED <<v2, v3, v5, v6, v7>>
    BY DEF Provision!RestoreNext
<1>2. /\ v4 \in Provision!RevertJobs /\ c \in Seq(Provision!Files) /\ v5 # 0 /\ v7 = FALSE
      /\ ~Provision!Applying
    BY <1>1, RevertRestoring
<1>3. PICK batch \in Provision!Files : batch = Head(c) /\ batch = c[1] /\ DOMAIN c = 1 .. Len(c) /\ 1 \in 1 .. Len(c)
    BY <1>1, <1>2
<1>4. PICK h \in Hosts :
          /\ batch[h] # None /\ v1' = [v1 EXCEPT ![h] = batch[h]]
          /\ v4' = [v4 EXCEPT !.copies = Provision!Unrestored(c, h)]
    BY <1>3 DEF Provision!RestoreNext, Provision!WriteBytesAtomic
<1> HIDE DEF c
<1>5. PICK d : d = Provision!Unrestored(c, h)
    OBVIOUS
<1>6. /\ d \in Seq(Provision!Files)
      /\ \A g \in Hosts : /\ Provision!LastIsOriginal(c, g) => Provision!LastIsOriginal(d, g)
                          /\ Provision!Holds(d, g) => Provision!Holds(c, g)
                          /\ g # h /\ Provision!Holds(c, g) => Provision!Holds(d, g)
      /\ Provision!LastIsOriginal(c, h) /\ ~Provision!Holds(d, h) => batch[h] = v2[h]
    BY <1>1, <1>2, <1>3, <1>4, <1>5, RevertRest
<1>7. v4' \in Provision!RevertJobs /\ v4'.copies = d /\ v4'.remove = v4.remove
  <2>1. v4' = [v4 EXCEPT !.copies = d]
      BY <1>4, <1>5 DEF c
  <2> QED
      BY ONLY <1>2, <1>6, <2>1 DEF Provision!RevertJobs
<1>8. v1' \in Provision!Files /\ v1'[h] = batch[h] /\ \A g \in Hosts \ {h} : v1'[g] = v1[g]
    BY <1>3, <1>4 DEF Provision!TypeOK, Provision!Files
<1>9. Provision!Holds(c, h)
    BY <1>3, <1>4 DEF Provision!Holds
<1>10. Provision!Holds(v3.backups, h)
    BY <1>1, <1>9 DEF Provision!RestoresOriginal, c
<1>11. \A g \in Hosts : Provision!UserFile(g) =>
              /\ v1'[g] # None /\ Provision!LastIsOriginal(d, g)
              /\ ~Provision!Holds(v3.backups, g) => v1'[g] = v2[g]
              /\ ~Provision!Holds(d, g) => v1'[g] = v2[g]
    BY <1>1, <1>4, <1>6, <1>8, <1>10 DEF Provision!UserFilesKept, Provision!RestoresOriginal, c
<1>12. \A g \in Hosts : Provision!Holds(d, g) => Provision!Holds(v3.backups, g)
    BY <1>1, <1>6 DEF Provision!RestoresOriginal, c
<1>13. v4.remove \subseteq v3.created
    BY <1>1 DEF Provision!RestoresOriginal
<1>14. v5 = 1 /\ v6 = 0 => \A g \in Hosts :
              /\ ~Provision!UserFile(g) /\ (v1'[g] # None \/ Provision!Holds(v3.backups, g)) => g \in v3.created
              /\ ~Provision!UserFile(g) /\ (v1'[g] # None \/ Provision!Holds(d, g)) => g \in v4.remove
  <2>1. Provision!Known = v3.created
      BY <1>2 DEF Provision!Known
  <2> QED
      BY <1>1, <1>6, <1>8, <1>9, <1>10, <2>1 DEF Provision!OneCommand, c
<1> QED
    BY <1>1, <1>2, <1>7, <1>8, <1>11, <1>12, <1>13, <1>14, RevertKeepsRestoring

\* A file that a command created is deleted: it is none of the user's.
LEMMA RevertDeletes ==
    ASSUME Provision!RevertInv, Provision!DeleteCreated
    PROVE  Provision!RevertInv'
<1> USE DEF Provision!RevertInv
<1>1. Provision!Restoring /\ v4.copies = <<>> /\ UNCHANGED <<v2, v3, v5, v6, v7>>
    BY DEF Provision!DeleteCreated
<1>2. /\ v4 \in Provision!RevertJobs /\ v5 # 0 /\ v7 = FALSE /\ ~Provision!Applying
      /\ v4.remove \subseteq Hosts
    BY <1>1, RevertRestoring
<1>3. PICK h \in v4.remove : v1' = [v1 EXCEPT ![h] = None] /\ v4' = [v4 EXCEPT !.remove = v4.remove \ {h}]
    BY DEF Provision!DeleteCreated, Provision!DeleteFile
<1>4. PICK remove \in SUBSET Hosts : remove = v4.remove \ {h}
    BY <1>2
<1>5. v4' \in Provision!RevertJobs /\ v4'.remove = remove /\ v4'.copies = v4.copies
  <2>1. v4' = [v4 EXCEPT !.remove = remove]
      BY <1>3, <1>4
  <2> QED
      BY ONLY <1>2, <2>1 DEF Provision!RevertJobs
<1>6. v1' \in Provision!Files /\ v1'[h] = None /\ \A g \in Hosts \ {h} : v1'[g] = v1[g]
    BY <1>2, <1>3 DEF Provision!TypeOK, Provision!Files
<1>7. v4.remove \subseteq v3.created
    BY <1>1 DEF Provision!RestoresOriginal
<1>8. ~Provision!UserFile(h)
    BY <1>2, <1>3, <1>7 DEF Provision!UserFilesKept
<1>9. \A g : ~Provision!Holds(v4.copies, g)
    BY <1>1 DEF Provision!Holds
<1>10. \A g \in Hosts : Provision!UserFile(g) =>
              /\ v1'[g] # None /\ Provision!LastIsOriginal(v4.copies, g)
              /\ ~Provision!Holds(v3.backups, g) => v1'[g] = v2[g]
              /\ v1'[g] = v2[g]
    BY <1>1, <1>6, <1>8, <1>9 DEF Provision!UserFilesKept, Provision!RestoresOriginal
<1>11. v5 = 1 /\ v6 = 0 => \A g \in Hosts :
              /\ ~Provision!UserFile(g) /\ (v1'[g] # None \/ Provision!Holds(v3.backups, g)) => g \in v3.created
              /\ ~Provision!UserFile(g) /\ v1'[g] # None => g \in remove
  <2>1. Provision!Known = v3.created
      BY <1>2 DEF Provision!Known
  <2> QED
      BY <1>1, <1>4, <1>6, <2>1 DEF Provision!OneCommand
<1> QED
    BY <1>1, <1>2, <1>4, <1>5, <1>6, <1>7, <1>9, <1>10, <1>11, RevertKeepsRestoring

\* The revert is over: nothing is left to write back or to delete.
LEMMA RevertIsOver ==
    ASSUME Provision!RevertInv, Provision!RevertEnds
    PROVE  Provision!RevertInv'
<1> USE DEF Provision!RevertInv
<1>1. /\ Provision!Restoring /\ v4.copies = <<>> /\ v4.remove = {} /\ v4' = None /\ v7' = TRUE
      /\ UNCHANGED <<v1, v2, v3, v5, v6>>
    BY DEF Provision!RevertEnds
<1>2. v5 # 0 /\ ~Provision!Applying /\ v1 \in [Hosts -> Provision!Content \cup {None}]
      /\ v2 \in [Hosts -> Provision!Content \cup {None}]
    BY <1>1, RevertRestoring DEF Provision!TypeOK, Provision!Files
<1>3. \A h : ~Provision!Holds(v4.copies, h)
    BY <1>1 DEF Provision!Holds
<1>4. \A h \in Hosts : Provision!UserFile(h) => v1[h] = v2[h]
    BY <1>1, <1>3 DEF Provision!RestoresOriginal
<1>5. v5 = 1 /\ v6 = 0 => v1 = v2
  <2>1. v5 = 1 /\ v6 = 0 => \A h \in Hosts : ~Provision!UserFile(h) => v1[h] = v2[h]
      BY <1>1 DEF Provision!OneCommand, Provision!UserFile
  <2> QED
      BY <1>2, <1>4, <2>1
<1>6. Provision!RevertRestoresUserFiles'
    BY <1>1, <1>4, <1>5 DEF Provision!RevertRestoresUserFiles, Provision!UserFile
<1>7. Provision!TypeOK'
    BY <1>1 DEF Provision!TypeOK
<1>8. Provision!UserFilesKept'
    BY <1>1 DEF Provision!UserFilesKept, Provision!UserFile, Provision!OldestIsOriginal, Provision!Holds
<1>9. Provision!OneCommand'
  <2>1. Provision!Known' = Provision!Known
      BY <1>1, <1>2 DEF Provision!Known, Provision!Applying
  <2>2. \A h : /\ Provision!UserFile(h)' = Provision!UserFile(h)
               /\ Provision!Holds(v3.backups, h)' = Provision!Holds(v3.backups, h)
      BY <1>1 DEF Provision!UserFile, Provision!Holds
  <2> QED
      BY <1>1, <1>2, <2>1, <2>2 DEF Provision!OneCommand, Provision!Applying, Provision!Restoring
<1> QED
    BY <1>1, <1>6, <1>7, <1>8, <1>9
       DEF Provision!NotYetReverted, Provision!CopiedFirst, Provision!Applying,
           Provision!RestoresOriginal, Provision!Restoring

LEMMA RevertAborts ==
    ASSUME Provision!RevertInv, Provision!Abort
    PROVE  Provision!RevertInv'
<1>1. v4 # None /\ v4' = None /\ UNCHANGED <<v1, v2, v3, v5, v7>>
      /\ v6' = IF v4.command = "revert" THEN v6 ELSE v6 + 1
    BY DEF Provision!Abort
<1>2. Provision!Applying => v4.command # "revert"
    BY RevertApplying DEF Provision!Applying, Provision!ApplyJobs, Provision!Commands
<1> QED
    BY <1>1, <1>2, RevertRaises

\* Every step of every command and of revert keeps the invariant.
LEMMA RevertStep == Provision!RevertInv /\ [Provision!Next]_RevertVars => Provision!RevertInv'
<1> SUFFICES ASSUME Provision!RevertInv, [Provision!Next]_RevertVars
             PROVE  Provision!RevertInv'
    OBVIOUS
<1>1. CASE UNCHANGED RevertVars
    BY <1>1 DEF RevertVars, Provision!RevertInv, Provision!TypeOK, Provision!NotYetReverted,
       Provision!UserFilesKept, Provision!CopiedFirst, Provision!RestoresOriginal, Provision!OneCommand,
       Provision!RevertRestoresUserFiles, Provision!UserFile, Provision!Applying, Provision!Restoring,
       Provision!OldestIsOriginal, Provision!LastIsOriginal, Provision!Holds, Provision!CopiedAtOnce,
       Provision!Known, Provision!ToSet
<1>2. CASE Provision!RenderRaises
    BY <1>2, RevertRaises DEF Provision!RenderRaises, Provision!Writing
<1>3. CASE Provision!Next
    BY <1>2, <1>3, RevertAdopt, RevertAttach, RevertPolicy, RevertCopies, RevertSkips, RevertEnsures,
       RevertWrites, RevertFinishes, RevertReverts, RevertRestores, RevertDeletes, RevertIsOver,
       RevertAborts
       DEF Provision!Next
<1> QED
    BY <1>1, <1>3

\* For any files, contents, plans and any number of commands: after a revert
\* every file that the user had is as the user left it, wherever commands were
\* cut off, and one command that ran to its end leaves no trace.
THEOREM UserFilesAreRestored == Spec => []RevertRestoresUserFiles
<1> DEFINE Inv == machine = "provisioning" => Provision!RevertInv
<1>1. Init => Inv
    BY RevertStart DEF Init
<1>2. Inv /\ [Next]_vars => Inv'
  <2> SUFFICES ASSUME Inv, [Next]_vars, machine = "provisioning" PROVE Provision!RevertInv'
      BY DEF Next, vars
  <2>1. [Provision!Next]_RevertVars
      BY DEF Next, vars, RevertVars
  <2> QED
      BY <2>1, RevertStep
<1>3. Inv => RevertRestoresUserFiles
    BY DEF RevertRestoresUserFiles, Provision!RevertInv
<1> QED
    BY <1>1, <1>2, <1>3, PTL DEF Spec

----------------------------------------------------------------------------
(* Retention batches (native/daemon/state/src/database.rs).                *)

RetentionVars == <<v1, v2, v3, v4>>

\* RetentionBatch counts with the Cardinality of FiniteSets.
LEMMA RetentionCount == \A S : Retention!Cardinality(S) = Cardinality(S)
BY DEF Retention!Cardinality, Cardinality

\* Sets of rows are finite.
LEMMA RowsAreFinite ==
    ASSUME NEW S, S \subseteq Retention!Entities
    PROVE  IsFiniteSet(S) /\ Cardinality(S) \in Nat
BY RetentionAssumption, FS_Subset, FS_CardinalityType

\* Two sets of rows that share none add up.
LEMMA RowsAdd ==
    ASSUME NEW S, IsFiniteSet(S), NEW T, IsFiniteSet(T), S \cap T = {}
    PROVE  Cardinality(S \cup T) = Cardinality(S) + Cardinality(T)
<1>1. Cardinality(S \cup T) = Cardinality(S) + Cardinality(T) - Cardinality(S \cap T)
    BY FS_Union
<1>2. Cardinality(S \cap T) = 0
    BY FS_EmptySet
<1>3. Cardinality(S) \in Nat /\ Cardinality(T) \in Nat
    BY FS_CardinalityType
<1> QED
    BY <1>1, <1>2, <1>3

\* What the rows are.
LEMMA RowsAreTuples ==
    ASSUME NEW e \in Retention!Entities
    PROVE  /\ e = <<e[1], e[2], e[3]>>
           /\ \/ e \in Retention!Parents /\ e[1] = "workspace" /\ e[2] = None /\ e[3] \in Workspaces
              \/ e \in Retention!Parents /\ e[1] = "client" /\ e[2] \in Clients /\ e[3] = None
              \/ e \in Retention!Bindings /\ e[1] = "binding" /\ e[2] \in Clients /\ e[3] \in Workspaces
           /\ e \in Retention!Bindings <=> e[1] = "binding"
           /\ e \in Retention!Parents <=> e[1] # "binding"
BY DEF Retention!Entities, Retention!Parents, Retention!Bindings

\* Rows of one kind are as many as the parts that tell them apart.
LEMMA PartsAreCounted ==
    ASSUME NEW S, IsFiniteSet(S), NEW T, NEW f \in [S -> T],
           \A x, y \in S : f[x] = f[y] => x = y, \A t \in T : \E x \in S : f[x] = t
    PROVE  Cardinality(T) = Cardinality(S)
<1>1. f \in Bijection(S, T)
    BY DEF Bijection, Injection, IsInjective, Surjection
<1>2. ExistsBijection(S, T)
    BY <1>1 DEF ExistsBijection
<1> QED
    BY <1>2, FS_Bijection

\* The workspaces, clients and bindings of a set of rows are as many as the rows.
LEMMA RowsAreCounted ==
    ASSUME NEW S, S \subseteq Retention!Entities
    PROVE  Cardinality(Retention!Ws(S)) + Cardinality(Retention!Cs(S)) + Cardinality(Retention!Ps(S))
              = Cardinality(S)
<1> DEFINE W == {x \in S : x[1] = "workspace"}
           C == {x \in S : x[1] = "client"}
           P == {x \in S : x[1] = "binding"}
<1>1. \A x \in S : /\ x = <<x[1], x[2], x[3]>>
                   /\ \/ x[1] = "workspace" /\ x[2] = None
                      \/ x[1] = "client" /\ x[3] = None
                      \/ x[1] = "binding"
    BY RowsAreTuples
<1>2. /\ IsFiniteSet(W) /\ IsFiniteSet(C) /\ IsFiniteSet(P) /\ IsFiniteSet(W \cup C)
      /\ Cardinality(W) \in Nat /\ Cardinality(C) \in Nat /\ Cardinality(P) \in Nat
  <2>1. W \subseteq Retention!Entities /\ C \subseteq Retention!Entities /\ P \subseteq Retention!Entities
        /\ W \cup C \subseteq Retention!Entities
      OBVIOUS
  <2> HIDE DEF W, C, P
  <2> QED
      BY <2>1, RowsAreFinite
<1>3. Cardinality(Retention!Ws(S)) = Cardinality(W)
  <2> DEFINE f == [x \in W |-> x[3]]
  <2>1. f \in [W -> Retention!Ws(S)] /\ \A t \in Retention!Ws(S) : \E x \in W : f[x] = t
      BY DEF Retention!Ws
  <2>2. \A x, y \in W : f[x] = f[y] => x = y
    <3> SUFFICES ASSUME NEW x \in W, NEW y \in W, x[3] = y[3] PROVE x = y
        OBVIOUS
    <3>1. x = <<"workspace", None, x[3]>> /\ y = <<"workspace", None, y[3]>>
        BY <1>1
    <3> QED
        BY <3>1
  <2> HIDE DEF W, f
  <2> QED
      BY <1>2, <2>1, <2>2, PartsAreCounted
<1>4. Cardinality(Retention!Cs(S)) = Cardinality(C)
  <2> DEFINE f == [x \in C |-> x[2]]
  <2>1. f \in [C -> Retention!Cs(S)] /\ \A t \in Retention!Cs(S) : \E x \in C : f[x] = t
      BY DEF Retention!Cs
  <2>2. \A x, y \in C : f[x] = f[y] => x = y
    <3> SUFFICES ASSUME NEW x \in C, NEW y \in C, x[2] = y[2] PROVE x = y
        OBVIOUS
    <3>1. x = <<"client", x[2], None>> /\ y = <<"client", y[2], None>>
        BY <1>1
    <3> QED
        BY <3>1
  <2> HIDE DEF C, f
  <2> QED
      BY <1>2, <2>1, <2>2, PartsAreCounted
<1>5. Cardinality(Retention!Ps(S)) = Cardinality(P)
  <2> DEFINE f == [x \in P |-> <<x[2], x[3]>>]
  <2>1. f \in [P -> Retention!Ps(S)] /\ \A t \in Retention!Ps(S) : \E x \in P : f[x] = t
      BY DEF Retention!Ps
  <2>2. \A x, y \in P : f[x] = f[y] => x = y
    <3> SUFFICES ASSUME NEW x \in P, NEW y \in P, <<x[2], x[3]>> = <<y[2], y[3]>> PROVE x = y
        OBVIOUS
    <3>1. x = <<"binding", x[2], x[3]>> /\ y = <<"binding", y[2], y[3]>>
        BY <1>1
    <3>2. x[2] = y[2] /\ x[3] = y[3]
        OBVIOUS
    <3> QED
        BY <3>1, <3>2
  <2> HIDE DEF P, f
  <2> QED
      BY <1>2, <2>1, <2>2, PartsAreCounted
<1>6. S = (W \cup C) \cup P /\ W \cap C = {} /\ (W \cup C) \cap P = {}
    BY <1>1
<1> HIDE DEF W, C, P
<1>8. Cardinality(W \cup C) = Cardinality(W) + Cardinality(C)
    BY <1>2, <1>6, RowsAdd
<1>9. Cardinality(S) = Cardinality(W \cup C) + Cardinality(P)
    BY <1>2, <1>6, RowsAdd
<1> QED
    BY <1>2, <1>3, <1>4, <1>5, <1>8, <1>9

\* At the start there is no batch.
LEMMA RetentionStart == Retention!Init => Retention!BatchInv
<1> SUFFICES ASSUME Retention!Init PROVE Retention!BatchInv
    OBVIOUS
<1>1. v4 = Retention!NoBatch /\ v1 \subseteq Retention!Entities
    BY DEF Retention!Init
<1> QED
    BY <1>1 DEF Retention!BatchInv, Retention!TypeOK, Retention!NoBatch

\* One turn of the loop that reaches e and tombstones rows.
LEMMA Emission ==
    ASSUME Retention!BatchInv, ~Retention!Ended, NEW e \in v4.left, NEW rows, rows \subseteq v1,
           Retention!Emit(e, rows),
           Cardinality(v4.emitted \cup rows) <= BatchLimit,
           \A x \in rows :
              \/ x = e
              \/ e \in Retention!Parents /\ x \in Retention!Bindings /\ Retention!ChildrenOf(e, x),
           \A f \in rows \cap Retention!Parents : \A b \in v1 \cap Retention!Bindings :
              Retention!ChildrenOf(f, b) => b \in rows,
           e \in rows \/ e \in v4.emitted \/ Cardinality(v4.emitted \cup rows) = BatchLimit
    PROVE  Retention!BatchInv'
<1> DEFINE E == v4.emitted
           Total == E \cup rows
<1>1. /\ v1 \subseteq Retention!Entities
      /\ v4 \in [live : SUBSET Retention!Entities, candidates : SUBSET Retention!Entities,
                  left : SUBSET Retention!Entities, emitted : SUBSET Retention!Entities]
    BY DEF Retention!BatchInv, Retention!TypeOK
<1>2. /\ v4'.live = v4.live /\ v4'.candidates = v4.candidates
      /\ v4'.left = v4.left \ {e} /\ v4'.emitted = Total /\ v1' = v1 \ rows
    BY <1>1 DEF Retention!Emit
<1>3. Retention!TypeOK'
  <2>1. v1' \subseteq Retention!Entities
      BY <1>1, <1>2
  <2>2. v4' \in [live : SUBSET Retention!Entities, candidates : SUBSET Retention!Entities,
                 left : SUBSET Retention!Entities, emitted : SUBSET Retention!Entities]
      BY <1>1 DEF Retention!Emit
  <2> QED
      BY <2>1, <2>2 DEF Retention!TypeOK
<1>4. v4 # Retention!NoBatch
    BY DEF Retention!NoBatch
<1>5. /\ v4.candidates # {} /\ v4.candidates \subseteq v4.live
      /\ Cardinality(v4.candidates) <= BatchLimit
      /\ v4.left \subseteq v4.candidates
      /\ E \subseteq v4.live /\ v1 = v4.live \ E
    BY <1>4, RetentionCount DEF Retention!BatchInv
<1>6. /\ \A x \in E :
            \/ x \in v4.candidates
            \/ x \in Retention!Bindings
               /\ \E f \in v4.candidates \cap Retention!Parents : Retention!ChildrenOf(f, x)
      /\ \A f \in E \cap Retention!Parents : \A b \in v4.live \cap Retention!Bindings :
            Retention!ChildrenOf(f, b) => b \in E
    BY <1>4 DEF Retention!BatchInv
<1>7. \A f \in v4.candidates \ v4.left : f \in E
  <2>1. Cardinality(E) # BatchLimit
    <3>1. ~(Cardinality(E) >= BatchLimit)
        BY RetentionCount DEF Retention!Ended
    <3>2. BatchLimit \in Nat
        BY RetentionAssumption
    <3> QED
        BY <3>1, <3>2
  <2> QED
      BY <1>4, <2>1, RetentionCount DEF Retention!BatchInv
<1>8. \A x \in Total :
        \/ x \in v4.candidates
        \/ x \in Retention!Bindings
           /\ \E f \in v4.candidates \cap Retention!Parents : Retention!ChildrenOf(f, x)
    BY <1>5, <1>6
<1>9. \A f \in Total \cap Retention!Parents : \A b \in v4.live \cap Retention!Bindings :
        Retention!ChildrenOf(f, b) => b \in Total
    BY <1>5, <1>6
<1>10. \A f \in v4.candidates \ (v4.left \ {e}) : f \in Total \/ Cardinality(Total) = BatchLimit
    BY <1>7
<1>11. Total \subseteq v4.live /\ v1' = v4.live \ Total /\ v4.left \ {e} \subseteq v4.candidates
    BY <1>2, <1>5
<1> HIDE DEF E, Total
<1>12. Cardinality(Total) <= BatchLimit
    BY DEF Total, E
<1> QED
    BY <1>2, <1>3, <1>5, <1>8, <1>9, <1>10, <1>11, <1>12, RetentionCount
    DEF Retention!BatchInv, Retention!ChildrenOf

\* The rows that are live are not among those emitted.
LEMMA RowsToEmit ==
    ASSUME Retention!BatchInv, ~Retention!Ended, NEW e \in v4.left, NEW rows, rows \subseteq v1
    PROVE  /\ v4.emitted \subseteq Retention!Entities /\ v1 \subseteq Retention!Entities
           /\ Cardinality(v4.emitted) \in Nat /\ Cardinality(v4.emitted) < BatchLimit
           /\ e \in Retention!Entities
           /\ (e \in v4.emitted \/ e \in v1)
           /\ Cardinality(rows) \in Nat
           /\ Cardinality(v4.emitted \cup rows) = Cardinality(v4.emitted) + Cardinality(rows)
<1>1. v4.emitted \subseteq Retention!Entities /\ v1 \subseteq Retention!Entities
    BY DEF Retention!BatchInv, Retention!TypeOK
<1>2. v4 # Retention!NoBatch
    BY DEF Retention!NoBatch
<1>3. v4.left \subseteq v4.live /\ v1 = v4.live \ v4.emitted
    BY <1>2 DEF Retention!BatchInv
<1>4. e \in v4.emitted \/ e \in v1
    BY <1>3
<1>5. rows \cap v4.emitted = {}
    BY <1>3
<1>6. IsFiniteSet(v4.emitted) /\ IsFiniteSet(rows)
      /\ Cardinality(v4.emitted) \in Nat /\ Cardinality(rows) \in Nat
    BY <1>1, RowsAreFinite
<1>7. Cardinality(v4.emitted) < BatchLimit
  <2>1. ~(Cardinality(v4.emitted) >= BatchLimit)
      BY RetentionCount DEF Retention!Ended
  <2> QED
      BY <1>6, <2>1, RetentionAssumption
<1>8. Cardinality(v4.emitted \cup rows) = Cardinality(v4.emitted) + Cardinality(rows)
    BY <1>5, <1>6, RowsAdd
<1> QED
    BY <1>1, <1>4, <1>6, <1>7, <1>8

\* Whatever a turn of the loop does with the row it reaches, it emits rows.
LEMMA RetainStep ==
    ASSUME Retention!BatchInv, ~Retention!Ended, NEW e \in v4.left, Retention!Retain(e)
    PROVE  Retention!BatchInv'
<1> DEFINE E == v4.emitted
           kids == Retention!Children(e)
<1>1. BatchLimit \in Nat /\ Cardinality(E) \in Nat /\ Cardinality(E) < BatchLimit
      /\ v1 \subseteq Retention!Entities /\ e \in Retention!Entities
    BY RowsToEmit, RetentionAssumption
<1>2. kids \subseteq v1 /\ \A x \in kids : x \in Retention!Bindings /\ Retention!ChildrenOf(e, x)
    BY DEF Retention!Children
<1>3. Cardinality(kids) \in Nat /\ IsFiniteSet(kids)
  <2> HIDE DEF kids
  <2> QED
      BY <1>1, <1>2, RowsAreFinite
<1>4. \A x : ~(x \in Retention!Bindings /\ x \in Retention!Parents)
    BY DEF Retention!Bindings, Retention!Parents
<1>5. CASE e \in E
  <2>1. Retention!Emit(e, {})
      BY <1>5 DEF Retention!Retain
  <2>2. E \cup {} = E
      OBVIOUS
  <2>3. Cardinality(E \cup {}) <= BatchLimit
      BY <1>1, <2>2
  <2> QED
      BY <1>5, <2>1, <2>3, Emission
<1>6. CASE e \notin E /\ e \in Retention!Parents
  <2>1. Retention!RetainParent(e, BatchLimit - Cardinality(E))
      BY <1>6, RetentionCount DEF Retention!Retain
  <2>2. CASE Cardinality(kids) + 1 <= BatchLimit - Cardinality(E)
    <3> DEFINE rows == kids \cup {e}
    <3>1. Retention!Emit(e, rows)
        BY <2>1, <2>2, RetentionCount DEF Retention!RetainParent
    <3>2. e \in v1 /\ rows \subseteq v1
        BY <1>2, <1>6, RowsToEmit
    <3>3. Cardinality(rows) = Cardinality(kids) + 1
      <4>1. kids \cap {e} = {}
          BY <1>2, <1>4, <1>6
      <4>2. IsFiniteSet({e}) /\ Cardinality({e}) = 1
          BY FS_Singleton
      <4> HIDE DEF kids
      <4> QED
          BY <1>3, <4>1, <4>2, RowsAdd
    <3>4. \A f \in rows \cap Retention!Parents : f = e
        BY <1>2, <1>4
    <3>5. \A b \in v1 \cap Retention!Bindings : Retention!ChildrenOf(e, b) => b \in rows
        BY DEF Retention!Children
    <3>6. \A x \in rows :
            \/ x = e
            \/ e \in Retention!Parents /\ x \in Retention!Bindings /\ Retention!ChildrenOf(e, x)
        BY <1>2, <1>6
    <3>7. e \in rows
        OBVIOUS
    <3> HIDE DEF rows, kids
    <3>8. Cardinality(E \cup rows) <= BatchLimit
        BY <1>1, <1>3, <2>2, <3>2, <3>3, RowsToEmit
    <3> QED
        BY <3>1, <3>2, <3>4, <3>5, <3>6, <3>7, <3>8, Emission
  <2>3. CASE ~(Cardinality(kids) + 1 <= BatchLimit - Cardinality(E))
    <3>1. PICK some \in Retention!First(kids, BatchLimit - Cardinality(E)) : Retention!Emit(e, some)
        BY <2>1, <2>3, RetentionCount DEF Retention!RetainParent
    <3>2. some \subseteq kids /\ Cardinality(some) = BatchLimit - Cardinality(E)
        BY RetentionCount DEF Retention!First
    <3>3. some \subseteq v1
        BY <1>2, <3>2
    <3>4. Cardinality(E \cup some) = BatchLimit
      <4>1. Cardinality(E \cup some) = Cardinality(E) + Cardinality(some)
          BY <3>3, RowsToEmit
      <4> HIDE DEF kids, E
      <4> QED
          BY <1>1, <3>2, <4>1
    <3>5. \A x \in some : x \in Retention!Bindings /\ Retention!ChildrenOf(e, x)
        BY <1>2, <3>2
    <3>6. some \cap Retention!Parents = {}
        BY <1>4, <3>5
    <3>7. Cardinality(E \cup some) <= BatchLimit
        BY <1>1, <3>4
    <3> HIDE DEF kids
    <3> QED
        BY <1>6, <3>1, <3>3, <3>4, <3>5, <3>6, <3>7, Emission
  <2> QED
      BY <2>2, <2>3
<1>7. CASE e \notin E /\ e \notin Retention!Parents
  <2>1. Retention!Emit(e, {e})
      BY <1>7 DEF Retention!Retain
  <2>2. {e} \subseteq v1
      BY <1>7, RowsToEmit
  <2>3. Cardinality({e}) = 1
      BY FS_Singleton
  <2>4. Cardinality(E \cup {e}) <= BatchLimit
      BY <1>1, <2>2, <2>3, RowsToEmit
  <2>5. {e} \cap Retention!Parents = {} /\ e \in {e}
      BY <1>7
  <2> QED
      BY <2>1, <2>2, <2>4, <2>5, Emission
<1> QED
    BY <1>5, <1>6, <1>7

\* A batch begins, or its loop takes a turn.
LEMMA RetentionStep ==
    ASSUME Retention!BatchInv, [Retention!Next]_RetentionVars
    PROVE  Retention!BatchInv'
<1>1. CASE UNCHANGED RetentionVars
    BY <1>1 DEF RetentionVars, Retention!BatchInv, Retention!TypeOK, Retention!ChildrenOf, Retention!NoBatch
<1>2. CASE Retention!Begin
  <2>1. PICK candidates \in SUBSET (v1 \cap v2) :
            /\ candidates # {} /\ Cardinality(candidates) <= BatchLimit
            /\ v4' = [live |-> v1, candidates |-> candidates, left |-> candidates, emitted |-> {}]
            /\ v1' = v1
      BY <1>2, RetentionCount DEF Retention!Begin
  <2>2. Cardinality({}) = 0 /\ 0 <= BatchLimit
      BY FS_EmptySet, RetentionAssumption
  <2>3. v1 \subseteq Retention!Entities
      BY DEF Retention!BatchInv, Retention!TypeOK
  <2>4. Retention!TypeOK'
      BY <2>1, <2>3 DEF Retention!TypeOK
  <2>5. /\ v4'.live = v1 /\ v4'.candidates = candidates /\ v4'.left = candidates /\ v4'.emitted = {}
      BY <2>1
  <2> QED
      BY <2>1, <2>2, <2>4, <2>5, RetentionCount DEF Retention!BatchInv
<1>3. CASE Retention!RetainNext
    BY <1>3, RetainStep DEF Retention!RetainNext
<1> QED
    BY <1>1, <1>2, <1>3 DEF Retention!Next, Retention!ApplyRetention

\* A batch that has ended meets the rule.
LEMMA RuleHolds == Retention!BatchInv => Retention!LoopMeetsRule /\ Retention!BatchesAdvance
<1> SUFFICES ASSUME Retention!BatchInv, v4 # Retention!NoBatch, Retention!Ended
             PROVE  Retention!LoopMeetsRule /\ v4.emitted # {}
    BY DEF Retention!LoopMeetsRule, Retention!BatchesAdvance
<1> DEFINE E == v4.emitted
           D == v4.candidates
           L == v4.live
<1>1. /\ E \subseteq L /\ D \subseteq L /\ L \subseteq Retention!Entities
      /\ E \subseteq Retention!Entities /\ D \subseteq Retention!Entities
      /\ Cardinality(E) <= BatchLimit /\ Cardinality(D) <= BatchLimit /\ D # {}
    BY RetentionCount DEF Retention!BatchInv, Retention!TypeOK
<1>2. /\ \A x \in E :
            \/ x \in D
            \/ x \in Retention!Bindings /\ \E e \in D \cap Retention!Parents : Retention!ChildrenOf(e, x)
      /\ \A e \in E \cap Retention!Parents : \A b \in L \cap Retention!Bindings :
            Retention!ChildrenOf(e, b) => b \in E
    BY DEF Retention!BatchInv
<1>3. BatchLimit \in Nat /\ Cardinality(E) \in Nat /\ Cardinality(D) \in Nat
    BY <1>1, RowsAreFinite, RetentionAssumption
<1>4. D \subseteq E \/ Cardinality(E) = BatchLimit
  <2>1. v4.left = {} \/ Cardinality(E) >= BatchLimit
      BY RetentionCount DEF Retention!Ended
  <2>2. CASE Cardinality(E) >= BatchLimit
      BY <1>1, <1>3, <2>2
  <2>3. CASE v4.left = {}
      BY <2>3, RetentionCount DEF Retention!BatchInv
  <2> QED
      BY <2>1, <2>2, <2>3
<1>5. E # {}
  <2>1. CASE D \subseteq E
      BY <1>1, <2>1
  <2>2. CASE Cardinality(E) = BatchLimit
    <3>1. Cardinality(D) # 0
      <4>1. IsFiniteSet(D)
          BY <1>1, RowsAreFinite
      <4> HIDE DEF D
      <4> QED
          BY <1>1, <4>1, FS_EmptySet
    <3>2. Cardinality(E) # 0
        BY <1>1, <1>3, <2>2, <3>1
    <3> QED
        BY <3>2, FS_EmptySet
  <2> QED
      BY <1>4, <2>1, <2>2
<1> HIDE DEF E, D, L
<1>6. \A x \in Retention!Entities :
        /\ x = <<x[1], x[2], x[3]>>
        /\ x \in Retention!Bindings <=> x[1] = "binding"
        /\ x \in Retention!Parents <=> (x[1] = "workspace" \/ x[1] = "client")
    BY RowsAreTuples
<1>7. Retention!Ws(E) \subseteq Retention!Ws(D) /\ Retention!Cs(E) \subseteq Retention!Cs(D)
    BY <1>1, <1>2, <1>6 DEF Retention!Ws, Retention!Cs
<1>8. Retention!Ps(E) \subseteq
        {p \in Retention!Ps(L) : p \in Retention!Ps(D) \/ p[1] \in Retention!Cs(D) \/ p[2] \in Retention!Ws(D)}
  <2> SUFFICES ASSUME NEW p \in Retention!Ps(E)
               PROVE  /\ p \in Retention!Ps(L)
                      /\ p \in Retention!Ps(D) \/ p[1] \in Retention!Cs(D) \/ p[2] \in Retention!Ws(D)
      OBVIOUS
  <2>1. PICK x \in E : x[1] = "binding" /\ p = <<x[2], x[3]>>
      BY DEF Retention!Ps
  <2>2. p[1] = x[2] /\ p[2] = x[3] /\ p \in Retention!Ps(L)
      BY <1>1, <2>1 DEF Retention!Ps
  <2>3. CASE x \in D
      BY <2>1, <2>2, <2>3 DEF Retention!Ps
  <2>4. CASE x \notin D
    <3>1. PICK e \in D \cap Retention!Parents : Retention!ChildrenOf(e, x)
        BY <1>2, <2>4
    <3>2. CASE e[1] = "workspace"
        BY <2>2, <3>1, <3>2 DEF Retention!ChildrenOf, Retention!Ws
    <3>3. CASE e[1] = "client"
        BY <2>2, <3>1, <3>3 DEF Retention!ChildrenOf, Retention!Cs
    <3> QED
        BY <1>1, <1>6, <3>2, <3>3
  <2> QED
      BY <2>2, <2>3, <2>4
<1>9. {p \in Retention!Ps(L) : p[1] \in Retention!Cs(E) \/ p[2] \in Retention!Ws(E)} \subseteq Retention!Ps(E)
  <2> SUFFICES ASSUME NEW p \in Retention!Ps(L), p[1] \in Retention!Cs(E) \/ p[2] \in Retention!Ws(E)
               PROVE  p \in Retention!Ps(E)
      OBVIOUS
  <2>1. PICK x \in L : x[1] = "binding" /\ p = <<x[2], x[3]>>
      BY DEF Retention!Ps
  <2>2. p[1] = x[2] /\ p[2] = x[3] /\ x \in Retention!Bindings
      BY <1>1, <1>6, <2>1
  <2>3. PICK e \in E : \/ e[1] = "client" /\ e[2] = x[2]
                       \/ e[1] = "workspace" /\ e[3] = x[3]
    <3>1. CASE p[1] \in Retention!Cs(E)
        BY <2>2, <3>1 DEF Retention!Cs
    <3>2. CASE p[2] \in Retention!Ws(E)
        BY <2>2, <3>2 DEF Retention!Ws
    <3> QED
        BY <3>1, <3>2
  <2>4. e \in Retention!Parents /\ Retention!ChildrenOf(e, x)
      BY <1>1, <1>6, <2>3 DEF Retention!ChildrenOf
  <2>5. x \in E
      BY <1>2, <2>2, <2>4
  <2> QED
      BY <2>1, <2>5 DEF Retention!Ps
<1>10. D \subseteq E => /\ Retention!Ws(E) = Retention!Ws(D) /\ Retention!Cs(E) = Retention!Cs(D)
                        /\ Retention!Ps(D) \subseteq Retention!Ps(E)
    BY <1>7 DEF Retention!Ws, Retention!Cs, Retention!Ps
<1>11. Cardinality(Retention!Ws(E)) + Cardinality(Retention!Cs(E)) + Cardinality(Retention!Ps(E))
         = Cardinality(E)
    BY <1>1, RowsAreCounted
<1>12. Retention!LoopMeetsRule
    BY <1>1, <1>4, <1>7, <1>8, <1>9, <1>10, <1>11, RetentionCount
    DEF Retention!LoopMeetsRule, Retention!RetentionOutcome, E, D, L
<1> QED
    BY <1>5, <1>12 DEF E

\* Theorem: a batch of apply_retention (native/daemon/state/src/database.rs)
\* that has ended did what RetentionRule says and took at least one row: for
\* any registry, any order of the ids, any rows that are due and any limit.
THEOREM BatchesMeetRule == Spec => []RetentionMeetsRule
<1> DEFINE Inv == machine = "retention" => Retention!BatchInv
<1>1. Init => Inv
    BY RetentionStart DEF Init
<1>2. Inv /\ [Next]_vars => Inv'
  <2> SUFFICES ASSUME Inv, [Next]_vars, machine = "retention" PROVE Retention!BatchInv'
      BY DEF Next, vars
  <2>1. [Retention!Next]_RetentionVars
      BY DEF Next, vars, RetentionVars
  <2> QED
      BY <2>1, RetentionStep
<1>3. Inv => RetentionMeetsRule
    BY RuleHolds DEF RetentionMeetsRule
<1> QED
    BY <1>1, <1>2, <1>3, PTL DEF Spec
=============================================================================
