------------------------------ MODULE MCEditing ------------------------------
(***************************************************************************)
(* The machines of the editing tools whose progress matters, side by side: *)
(* Init picks one of them and only that one leaves its initial state.  A   *)
(* language server's broker (LspBroker), the manager of the sessions       *)
(* (LspSessions) and the application of previews (EditorApply).  The       *)
(* fairness of a machine asks nothing of its initial state, so it does not *)
(* constrain the behaviours of the others.                                 *)
(***************************************************************************)
EXTENDS Naturals, TLC

CONSTANTS
    None, Admin,
    Callers, Ids, MaxRequests, MaxTombstones,
    SessionFiles, Contents, Keys, Tasks, Watched, SyncNone, MaxCalls, MaxEdits, MaxFaults,
    Previews, Spent, MaxOutside, MaxEpoch,
    d1, d2, f1, f2

VARIABLES
    machine,
    state, proc, reader, full, lastId, pending, wire, call, tomb, late, regs,
    disk, config, epochs, record, lock, alive, left, stalled, task, count,
    content, node, moved, captured, previews, consumed, expired, epoch, job, result, dirty, acts

brokerVars == <<state, proc, reader, full, lastId, pending, wire, call, tomb, late, regs>>
sessionVars == <<disk, config, epochs, record, lock, alive, left, stalled, task, count>>
editorVars == <<content, node, moved, captured, previews, consumed, expired, epoch, job, result,
                dirty, acts>>
vars == <<machine, brokerVars, sessionVars, editorVars>>

B == INSTANCE LspBroker
S == INSTANCE LspSessions WITH Files <- SessionFiles
E == INSTANCE EditorApply WITH
    Targets <- <<f1, f2>>, DirOf <- (f1 :> d1) @@ (f2 :> d2), Ids <- Previews,
    MaxPreviews <- 1, MaxFaults <- 1, Racy <- FALSE, count <- acts

ASSUME EditingAssumption ==
    /\ None \notin Tasks /\ Admin \notin Tasks /\ Admin # None
    /\ Keys # {} /\ Contents \subseteq Nat \ {0} /\ \E c \in Contents : \A d \in Contents : c <= d
    /\ None \notin S!Sessions
    /\ 0 \notin Previews /\ None # Spent /\ None \notin E!Jobs \cup E!Results

Init ==
    /\ machine \in {"broker", "sessions", "editor"}
    /\ B!Init /\ S!Init /\ E!Init

BrokerRuns == machine = "broker" /\ B!Next /\ UNCHANGED <<machine, sessionVars, editorVars>>
SessionsRun == machine = "sessions" /\ S!Next /\ UNCHANGED <<machine, brokerVars, editorVars>>
EditorRuns == machine = "editor" /\ E!Next /\ UNCHANGED <<machine, brokerVars, sessionVars>>

Next == BrokerRuns \/ SessionsRun \/ EditorRuns

Spec == Init /\ [][Next]_vars
FairSpec == Spec /\ B!Fairness /\ S!Fairness /\ E!Fairness

----------------------------------------------------------------------------
\* LspBroker._pending: a response slot is held only for a caller that still
\* writes that very request or waits for its answer; no path out of _request
\* (result, error, time out, failed write, end of the stream, shutdown) leaves
\* one behind.
SlotsAreOwned == B!SlotsAreOwned

\* LspSessionManager: the record of a session is of the current epoch of its
\* key, and its process is the only one of that key, except the processes whose
\* caller was cancelled while it shut them down or spawned them: nobody ends
\* those, but each is of an earlier epoch, and no call ever reaches one.
SessionIsTheProcess ==
    S!RecordIsCurrent /\ S!OneProcessPerKey

\* LspSessionManager: every call ends, although calls for different
\* configurations retire each other's sessions and wait for each other's locks;
\* and LspBroker: no caller of a request waits for ever, whatever the server
\* answers or leaves out.  Both hold only of servers that do not stop reading
\* their input for good: no write of the broker has a time limit.
CallsEnd == S!CallsEnd /\ B!CallsEnd

\* editor/apply.py, "Exact outcome of one preview application attempt":
\* applied means that every file has the edit, rolled back or conflicted that
\* none has, whichever rename fails, except at most one file which another
\* program wrote between its rename and the check of it; and a file that has an
\* edit was marked dirty, so that it is captured again.
OutcomeIsExact == E!OutcomeIsExact /\ E!ChangedFilesAreDirty

\* editor/apply.py: what another program wrote stays, whatever is applied or
\* rolled back later, and a preview has one outcome, also across eviction,
\* expiry and restarts of the server.
OutsideWritesSurvive == [][E!OutsideIsKept /\ E!OutcomeStays]_vars

\* Every apply comes to an outcome and the editor lock is free again.
ApplyEnds == E!ApplyEnds
=============================================================================
