------------------------------ MODULE TaskShare ------------------------------
(***************************************************************************)
(* analysis/task_registry.py: callers that ask for the same work share one *)
(* task.  A caller may be cancelled at any time; the task is cancelled     *)
(* only with its last caller, or by cancel_all.  One key.                  *)
(***************************************************************************)
EXTENDS Naturals, FiniteSets

CONSTANTS Waiters, MaxWork   \* MaxWork bounds the tasks created

VARIABLES
    entry,   \* TaskRegistry._entries at the key: task and waiters, task 0 for none
    work,    \* state of each task: "none", "running", "done", "cancelling", "cancelled"
    waiter,  \* the task each caller awaits, 0 for none; drain: it awaits its end
    swept    \* tasks that cancel_all cancelled

vars == <<entry, work, waiter, swept>>

Works == 1..MaxWork
NoEntry == [task |-> 0, waiters |-> 0]
NoWait == [task |-> 0, drain |-> FALSE]

Init ==
    /\ entry = NoEntry
    /\ work = [i \in Works |-> "none"]
    /\ waiter = [w \in Waiters |-> NoWait]
    /\ swept = {}

\* share up to its await: join the task of the key or create it.
Share(w) ==
    /\ waiter[w] = NoWait
    /\ IF entry.task # 0
       THEN entry' = [entry EXCEPT !.waiters = @ + 1] /\ UNCHANGED work
       ELSE \E i \in Works : /\ work[i] = "none"
                             /\ \A j \in 1..(i - 1) : work[j] # "none"
                             /\ work' = [work EXCEPT ![i] = "running"]
                             /\ entry' = [task |-> i, waiters |-> 1]
    /\ waiter' = [waiter EXCEPT ![w].task = entry'.task]
    /\ UNCHANGED swept

\* The work returns or raises; a task that was cancelled ends.
Finish(i) ==
    /\ work[i] \in {"running", "cancelling"}
    /\ work' = [work EXCEPT ![i] = IF @ = "running" THEN "done" ELSE "cancelled"]
    /\ UNCHANGED <<entry, waiter, swept>>

\* Mutant: the last caller is told apart before it is taken off the count.
LeftOnLast(i) ==
    IF entry.task # i THEN [entry |-> entry, cancel |-> FALSE]
    ELSE IF work[i] \in {"done", "cancelled"} \/ entry.waiters <= 2
    THEN [entry |-> NoEntry, cancel |-> work[i] = "running"]
    ELSE [entry |-> [entry EXCEPT !.waiters = @ - 1], cancel |-> FALSE]

\* The finally clause of share: only for the task the caller joined.
Left(i) ==
    IF entry.task # i THEN [entry |-> entry, cancel |-> FALSE]
    ELSE IF work[i] \in {"done", "cancelled"} \/ entry.waiters <= 1
    THEN [entry |-> NoEntry, cancel |-> entry.waiters <= 1 /\ work[i] = "running"]
    ELSE [entry |-> [entry EXCEPT !.waiters = @ - 1], cancel |-> FALSE]

Leave(w) ==
    LET i == waiter[w].task IN
    /\ entry' = Left(i).entry
    /\ work' = IF Left(i).cancel THEN [work EXCEPT ![i] = "cancelling"] ELSE work
    /\ waiter' = [waiter EXCEPT ![w] =
                    IF Left(i).cancel THEN [@ EXCEPT !.drain = TRUE] ELSE NoWait]
    /\ UNCHANGED swept

\* The caller resumes with the result, or is cancelled while it awaits.
Resume(w) ==
    /\ waiter[w].task # 0
    /\ ~waiter[w].drain
    /\ work[waiter[w].task] \in {"done", "cancelled"}
    /\ Leave(w)

Cancelled(w) ==
    /\ waiter[w].task # 0
    /\ ~waiter[w].drain
    /\ work[waiter[w].task] \in {"running", "cancelling"}
    /\ Leave(w)

\* The caller that cancelled the work has waited for its end.
Drained(w) ==
    /\ waiter[w].drain
    /\ work[waiter[w].task] = "cancelled"
    /\ waiter' = [waiter EXCEPT ![w] = NoWait]
    /\ UNCHANGED <<entry, work, swept>>

\* cancel_all: the entry is gone and its task is cancelled.
CancelAll ==
    /\ entry.task # 0
    /\ entry' = NoEntry
    /\ work' = [work EXCEPT ![entry.task] = IF @ = "running" THEN "cancelling" ELSE @]
    /\ swept' = swept \cup {entry.task}
    /\ UNCHANGED waiter

Next == \/ \E w \in Waiters : Share(w) \/ Resume(w) \/ Cancelled(w) \/ Drained(w)
        \/ \E i \in Works : Finish(i)
        \/ CancelAll

Spec == Init /\ [][Next]_vars

\* Work is never taken from a caller that still awaits it, except by
\* cancel_all: the count of waiters never runs ahead of the callers that left.
SharedWorkSurvives ==
    \A w \in Waiters :
        LET i == waiter[w].task IN
        (i # 0 /\ ~waiter[w].drain /\ i \notin swept) => work[i] \in {"running", "done"}

\* Work that runs has a caller that awaits it or its end, so that nothing runs
\* on unobserved; at most one task of the key runs without being cancelled.
NoOrphanWork ==
    /\ \A i \in Works \ swept : work[i] \in {"running", "cancelling"} =>
           \E w \in Waiters : waiter[w].task = i
    /\ Cardinality({i \in Works : work[i] = "running"}) <= 1

----------------------------------------------------------------------------
\* The callers that await the result of a task.
Awaiting(i) == {w \in Waiters : waiter[w].task = i /\ ~waiter[w].drain}

TypeOK ==
    /\ entry \in [task : Works \cup {0}, waiters : Nat]
    /\ work \in [Works -> {"none", "running", "done", "cancelling", "cancelled"}]
    /\ waiter \in [Waiters -> [task : Works \cup {0}, drain : BOOLEAN]]
    /\ swept \subseteq Works

\* The entry counts exactly the callers that await its task.
EntryCounts ==
    entry.task # 0 => /\ entry.waiters = Cardinality(Awaiting(entry.task))
                      /\ entry.waiters # 0
                      /\ work[entry.task] \in {"running", "done"}
                      /\ entry.task \notin swept

\* Why SharedWorkSurvives and NoOrphanWork hold: only the task of the entry
\* runs, and what is cancelled otherwise is drained by the caller that left last.
ShareInv ==
    /\ TypeOK
    /\ EntryCounts
    /\ \A i \in Works : work[i] = "running" => entry.task = i
    /\ \A i \in Works \ swept : work[i] = "cancelling" =>
           \E w \in Waiters : waiter[w].task = i /\ waiter[w].drain
    /\ \A i \in swept : work[i] # "none"
    /\ \A w \in Waiters : waiter[w].task # 0 => work[waiter[w].task] # "none"
    /\ \A w \in Waiters : waiter[w].drain => waiter[w].task # 0
    /\ SharedWorkSurvives
=============================================================================
