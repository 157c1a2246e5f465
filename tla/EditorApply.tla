----------------------------- MODULE EditorApply -----------------------------
(***************************************************************************)
(* Editor previews and their application (editor/preview.py,               *)
(* editor/apply.py, SoleauxService.preview and apply).  A preview is       *)
(* computed from captured bytes without writing; an apply claims it once,  *)
(* under the editor lock, and replaces its files one after the other by    *)
(* rename, each after a check and before another, rolling back on failure. *)
(* Other programs write the same files and move directories meanwhile.     *)
(*                                                                         *)
(* The content of a file is the sequence of the edits made to it: the      *)
(* number of a preview, or 0 for another program.  node tells who made the *)
(* inode: two files with equal content are not the same file.              *)
(***************************************************************************)
EXTENDS Naturals, Sequences, SequencesExt, FiniteSets

CONSTANTS
    Targets,      \* the files, in the order an apply visits them
    DirOf,        \* the directory of each file
    Ids,          \* previews, numbers above 0
    MaxPreviews,  \* the registry's max_previews
    None,         \* no job, no result, no preview yet
    Spent,        \* the identifier of a preview was used
    Racy,         \* TRUE: another program may write a file between the check
                  \* of its bytes and the rename that the check guards
    MaxOutside,   \* bound: writes and moves by other programs
    MaxFaults,    \* bound: failed renames and cancellations
    MaxEpoch      \* bound: restarts of the language server

Files == {Targets[i] : i \in DOMAIN Targets}
Dirs  == {DirOf[f] : f \in Files}

VARIABLES
    content,   \* the bytes of each file, in the directory that was bound
    node,      \* the inode of each file
    moved,     \* directories whose path leads elsewhere
    captured,  \* the bytes a preview in progress has captured
    previews,  \* PreviewRegistry._previews, numbered by age
    consumed,  \* PreviewRegistry._consumed
    expired,   \* previews past their time to live
    epoch,     \* the process epoch of the language server
    job,       \* the apply in progress: the editor lock
    result,    \* the outcome of each apply
    dirty,     \* files handed to mark_dirty
    count      \* outside actions and faults so far

vars == <<content, node, moved, captured, previews, consumed, expired, epoch, job,
          result, dirty, count>>

Results == {"applied", "rolled_back", "partial_failure", "conflicted", "cancelled"}

Init ==
    /\ content = [f \in Files |-> <<>>]
    /\ node = [f \in Files |-> <<"first", 0>>]
    /\ moved = {}
    /\ captured = [p \in Ids |-> None]
    /\ previews = {}
    /\ consumed = {}
    /\ expired = {}
    /\ epoch = 1
    /\ job = None
    /\ result = [p \in Ids |-> None]
    /\ dirty = {}
    /\ count = [outside |-> 0, faults |-> 0]

----------------------------------------------------------------------------
(* Other programs.                                                         *)

\* The file that was checked and is about to be replaced.
Window(f) == /\ job # None
             /\ job.pc \in {"rename", "restore"}
             /\ IF job.pc = "restore" THEN f = Last(job.applied) ELSE f = Targets[job.i]

OutsideWrite(f) ==
    /\ count.outside < MaxOutside
    /\ Racy \/ ~Window(f)
    /\ content' = [content EXCEPT ![f] = Append(@, 0)]
    /\ count' = [count EXCEPT !.outside = @ + 1]
    /\ UNCHANGED <<node, moved, captured, previews, consumed, expired, epoch, job, result, dirty>>

\* A directory is renamed away, or back.
OutsideMove(d) ==
    /\ count.outside < MaxOutside
    /\ moved' = IF d \in moved THEN moved \ {d} ELSE moved \cup {d}
    /\ count' = [count EXCEPT !.outside = @ + 1]
    /\ UNCHANGED <<content, node, captured, previews, consumed, expired, epoch, job, result,
                   dirty>>

----------------------------------------------------------------------------
(* The registry.                                                           *)

Known(p) == \E r \in previews : r.id = p
Record(p) == CHOOSE r \in previews : r.id = p

\* preview and _structural_preview: the bytes of the moment, then an await of
\* the language server or the structural engine.
BeginPreview(p) ==
    /\ captured[p] = None
    /\ captured' = [captured EXCEPT ![p] = [bytes |-> content, epoch |-> epoch]]
    /\ UNCHANGED <<content, node, moved, previews, consumed, expired, epoch, job, result,
                   dirty, count>>

\* _prune: the expired previews, and what is known of their consumption.
Pruned == {r \in previews : r.id \notin expired}
NextNo == Max({0} \cup {r.no : r \in Pruned}) + 1

\* The newest max_previews stay.
Bounded(R) == {r \in R : Cardinality({q \in R : q.no > r.no}) < MaxPreviews}

\* normalize_workspace_edit compares the captured bytes with the live ones
\* (a language server edit); normalize_byte_edits (a structural one) does not.
\* issue then retains the preview.
Issue(p, origin) ==
    /\ captured[p] \notin {None, Spent}
    /\ origin = "lsp" => \A f \in Files : content[f] = captured[p].bytes[f]
    /\ LET kept == Bounded(Pruned \cup
                      {[no |-> NextNo, id |-> p, origin |-> origin, pre |-> captured[p].bytes,
                        epoch |-> IF origin = "lsp" THEN captured[p].epoch ELSE 0]})
           ids == {r.id : r \in kept} IN
       /\ previews' = kept
       /\ consumed' = consumed \cap ids
       /\ expired' = expired \cap ids
    /\ captured' = [captured EXCEPT ![p] = Spent]
    /\ UNCHANGED <<content, node, moved, epoch, job, result, dirty, count>>

\* The edit drifted, or the provider gave none.
PreviewFails(p) ==
    /\ captured[p] \notin {None, Spent}
    /\ \E f \in Files : content[f] # captured[p].bytes[f]
    /\ captured' = [captured EXCEPT ![p] = Spent]
    /\ UNCHANGED <<content, node, moved, previews, consumed, expired, epoch, job, result,
                   dirty, count>>

\* 300 seconds pass.
Expire(p) ==
    /\ Known(p)
    /\ p \notin expired
    /\ expired' = expired \cup {p}
    /\ UNCHANGED <<content, node, moved, captured, previews, consumed, epoch, job, result,
                   dirty, count>>

\* restart: the language server's next epoch, under the editor lock.
RestartServer ==
    /\ job = None
    /\ epoch < MaxEpoch
    /\ epoch' = epoch + 1
    /\ UNCHANGED <<content, node, moved, captured, previews, consumed, expired, job, result,
                   dirty, count>>

----------------------------------------------------------------------------
(* apply.                                                                  *)

\* The bytes a preview leaves in a file.
Post(p, f) == Append(Record(p).pre[f], p)

\* _bind_targets: each target is there, under its directory, with the bytes of
\* the preview.
Bindable(p) == \A f \in Files : DirOf[f] \notin moved /\ content[f] = Record(p).pre[f]

\* context and claim: known, not expired, not consumed, from the provider
\* process that is running now.
Claimable(p) ==
    /\ Known(p)
    /\ p \notin expired
    /\ p \notin consumed
    /\ Record(p).epoch = IF Record(p).origin = "lsp" THEN epoch ELSE 0

\* A claimed preview is bound and staged, or conflicts; either way its files
\* are marked dirty and the indexer is notified.
BeginApply(p) ==
    /\ job = None
    /\ Claimable(p)
    /\ consumed' = consumed \cup {p}
    /\ IF Bindable(p)
       THEN /\ job' = [id |-> p, pc |-> "check", i |-> 1, applied |-> <<>>, nodes |-> node,
                       pre |-> Record(p).pre, post |-> [f \in Files |-> Post(p, f)],
                       why |-> "none", conflict |-> FALSE, some |-> FALSE, clean |-> TRUE,
                       bound |-> TRUE]
            /\ UNCHANGED <<result, dirty>>
       ELSE /\ job' = None
            /\ result' = [result EXCEPT ![p] = "conflicted"]
            /\ dirty' = Files
    /\ UNCHANGED <<content, node, moved, captured, previews, expired, epoch, count>>

\* A refused claim; an expired preview is dropped when it is looked up.
RefuseApply(p) ==
    /\ job = None
    /\ Known(p)
    /\ ~Claimable(p)
    /\ result[p] = None
    /\ p \in expired
    /\ previews' = {r \in previews : r.id # p}
    /\ consumed' = consumed \ {p}
    /\ expired' = expired \ {p}
    /\ UNCHANGED <<content, node, moved, captured, epoch, job, result, dirty, count>>

File == Targets[job.i]
PostNode == <<"post", job.id>>
PreNode == <<"pre", job.id>>
IsPostimage(f) == node[f] = PostNode /\ content[f] = job.post[f]

\* The first failure ends the commit loop.  The target counts as applied when
\* it is exactly what this task wrote; a moved directory makes it a conflict.
Fail(why) ==
    [job EXCEPT !.pc = "undo", !.why = why,
                !.conflict = DirOf[File] \in moved,
                !.some = job.applied # <<>> \/ IsPostimage(File),
                !.applied = IF IsPostimage(File) THEN Append(job.applied, File) ELSE job.applied]

\* Mutant: the preimage is not compared again before the rename.
CheckBytesOnly == DirOf[File] \notin moved

\* _commit_target up to the rename: the directory, the preimage's inode and
\* bytes (and the staged file, which nobody else touches).
CheckTarget ==
    /\ DirOf[File] \notin moved
    /\ node[File] = job.nodes[File]
    /\ content[File] = job.pre[File]

Check ==
    /\ job # None
    /\ job.pc = "check"
    /\ job' = IF CheckTarget THEN [job EXCEPT !.pc = "rename"] ELSE Fail("drift")
    /\ UNCHANGED <<content, node, moved, captured, previews, consumed, expired, epoch, result,
                   dirty, count>>

Rename ==
    /\ job # None
    /\ job.pc = "rename"
    /\ content' = [content EXCEPT ![File] = job.post[File]]
    /\ node' = [node EXCEPT ![File] = PostNode]
    /\ job' = [job EXCEPT !.pc = "verify"]
    /\ UNCHANGED <<moved, captured, previews, consumed, expired, epoch, result, dirty, count>>

\* The postimage and the directory once more; then the next target.
Verify ==
    /\ job # None
    /\ job.pc = "verify"
    /\ job' = IF ~IsPostimage(File) \/ DirOf[File] \in moved THEN Fail("drift")
              ELSE [job EXCEPT !.applied = Append(job.applied, File),
                               !.pc = IF job.i = Len(Targets) THEN "finish" ELSE "check",
                               !.i = IF job.i = Len(Targets) THEN job.i ELSE job.i + 1]
    /\ UNCHANGED <<content, node, moved, captured, previews, consumed, expired, epoch, result,
                   dirty, count>>

\* The rename raises, or the task is cancelled at the await before a target.
Fault ==
    /\ job # None
    /\ count.faults < MaxFaults
    /\ \/ job.pc = "check" /\ job' = Fail("cancelled")
       \/ job.pc = "rename" /\ job' = Fail("error")
    /\ count' = [count EXCEPT !.faults = @ + 1]
    /\ UNCHANGED <<content, node, moved, captured, previews, consumed, expired, epoch, result,
                   dirty>>

----------------------------------------------------------------------------
(* Rollback, last file first.                                              *)

Undo == IF job.applied = <<>> THEN [job EXCEPT !.pc = "finish"]
        ELSE [job EXCEPT !.pc = "restore"]

DroppedOnlyRestored(clean) ==
    IF clean THEN [job EXCEPT !.applied = Front(@), !.pc = "undo"] ELSE job

\* A file is done with, restored or not, and the next one follows.
Dropped(clean) ==
    [job EXCEPT !.applied = Front(job.applied), !.pc = "undo", !.clean = job.clean /\ clean]

\* _rollback_target: only what this task wrote is restored; a file someone
\* else has touched is left alone and the outcome is a partial failure.
Restore ==
    /\ job # None
    /\ job.pc = "undo"
    /\ IF job.applied # <<>> /\ ~IsPostimage(Last(job.applied))
       THEN job' = Dropped(FALSE)
       ELSE job' = [Undo EXCEPT !.bound =
                       job.applied # <<>> /\ DirOf[Last(job.applied)] \notin moved]
    /\ UNCHANGED <<content, node, moved, captured, previews, consumed, expired, epoch, result,
                   dirty, count>>

\* The rename of the preimage.
RestoreRename ==
    /\ job # None
    /\ job.pc = "restore"
    /\ LET f == Last(job.applied) IN
       /\ content' = [content EXCEPT ![f] = job.pre[f]]
       /\ node' = [node EXCEPT ![f] = PreNode]
    /\ job' = [job EXCEPT !.pc = "restored"]
    /\ UNCHANGED <<moved, captured, previews, consumed, expired, epoch, result, dirty, count>>

\* The restored file and its directory once more.  A moved directory is an
\* error, although the file is restored, unless the commit had met it already.
RestoreVerify ==
    /\ job # None
    /\ job.pc = "restored"
    /\ LET f == Last(job.applied) IN
       job' = Dropped(/\ node[f] = PreNode /\ content[f] = job.pre[f]
                      /\ job.conflict \/ (job.bound /\ DirOf[f] \notin moved))
    /\ UNCHANGED <<content, node, moved, captured, previews, consumed, expired, epoch, result,
                   dirty, count>>

\* The rename of the preimage raises.
RestoreFault ==
    /\ job # None
    /\ job.pc = "restore"
    /\ count.faults < MaxFaults
    /\ count' = [count EXCEPT !.faults = @ + 1]
    /\ job' = Dropped(FALSE)
    /\ UNCHANGED <<content, node, moved, captured, previews, consumed, expired, epoch, result,
                   dirty>>

\* Mutant: the outcome forgets the rollbacks that failed.
OutcomeOptimistic ==
    IF job.why = "none" THEN "applied"
    ELSE IF job.why = "cancelled" THEN "cancelled"
    ELSE IF ~job.some \/ job.conflict THEN "conflicted" ELSE "rolled_back"

\* The overall state, from the failure, whether anything had been applied, and
\* the rollbacks.
Outcome ==
    IF job.why = "none" THEN "applied"
    ELSE IF job.why = "cancelled" THEN "cancelled"
    ELSE IF ~job.clean THEN "partial_failure"
    ELSE IF ~job.some \/ job.conflict THEN "conflicted"
    ELSE "rolled_back"

\* The lock is released; the finally clause marks the files dirty.
Finish ==
    /\ job # None
    /\ job.pc = "finish"
    /\ result' = [result EXCEPT ![job.id] = Outcome]
    /\ dirty' = Files
    /\ job' = None
    /\ UNCHANGED <<content, node, moved, captured, previews, consumed, expired, epoch, count>>

----------------------------------------------------------------------------
ApplyStep == Check \/ Rename \/ Verify \/ Restore \/ RestoreRename \/ RestoreVerify \/ Finish

Next ==
    \/ \E f \in Files : OutsideWrite(f)
    \/ \E d \in Dirs : OutsideMove(d)
    \/ \E p \in Ids : \/ BeginPreview(p) \/ PreviewFails(p) \/ Expire(p)
                      \/ BeginApply(p) \/ RefuseApply(p)
                      \/ \E o \in {"lsp", "structural"} : Issue(p, o)
    \/ RestartServer
    \/ ApplyStep
    \/ Fault
    \/ RestoreFault

Spec == Init /\ [][Next]_vars
\* An apply only waits for the event loop.
Fairness == WF_vars(ApplyStep)

----------------------------------------------------------------------------
Has(f, p) == \E i \in DOMAIN content[f] : content[f][i] = p

\* The edit lies under what another program wrote right after it: the check
\* that follows a rename met a file that was not its own any more.
Buried(f, p) == \E i \in DOMAIN content[f] :
    content[f][i] = p /\ i + 1 \in DOMAIN content[f] /\ content[f][i + 1] = 0

\* No file has the edit, but for the one that another program wrote between
\* its rename and the check of it: an apply ends at the first such file.
OnlyBuried(p) == \A f, g \in Files : Has(f, p) /\ Has(g, p) => f = g /\ Buried(f, p)

\* "Exact outcome of one preview application attempt": applied means that every
\* file has the edit, rolled back or conflicted that none has, except a single
\* file that another program wrote before the apply had seen its own bytes.
OutcomeIsExact ==
    \A p \in Ids : job = None =>
        /\ result[p] = "applied" => \A f \in Files : Has(f, p)
        /\ result[p] \in {"rolled_back", "conflicted"} => OnlyBuried(p)

\* What another program wrote stays where it was, whatever is applied or rolled
\* back later (as long as it does not fall between a check and the rename it
\* guards).
OutsideIsKept ==
    \A f \in Files : \A i \in DOMAIN content[f] :
        content[f][i] = 0 => i \in DOMAIN content'[f] /\ content'[f][i] = 0

\* A preview is claimed once, also across eviction, expiry and restarts of the
\* server: the outcome of an apply is final.
OutcomeStays == \A p \in Ids : result[p] # None => result'[p] = result[p]

\* A file that an apply changed, also in part, is recaptured: it was marked
\* dirty by the time the outcome is known.
ChangedFilesAreDirty ==
    job = None => \A f \in Files : (\E p \in Ids : Has(f, p)) => f \in dirty

\* The invariant that explains them.
Texts == Seq(Ids \cup {0})
Trees == [Files -> Texts]
Nodes == [Files -> {"first", "post", "pre"} \X (Ids \cup {0})]
Jobs ==
    [id : Ids, pc : {"check", "rename", "verify", "undo", "restore", "restored", "finish"},
     i : DOMAIN Targets, applied : Seq(Files), nodes : Nodes, pre : Trees, post : Trees,
     why : {"none", "drift", "cancelled", "error"},
     conflict : BOOLEAN, some : BOOLEAN, clean : BOOLEAN, bound : BOOLEAN]

\* Files, previews, outcomes and the apply in progress have their shape.
TypeOK ==
    /\ content \in Trees /\ node \in Nodes
    /\ captured \in [Ids -> {None, Spent} \cup [bytes : Trees, epoch : Nat]] /\ epoch \in Nat
    /\ \A r \in previews : r.id \in Ids /\ r.pre \in Trees
    /\ result \in [Ids -> Results \cup {None}]
    /\ job \in Jobs \cup {None}
    /\ dirty \subseteq Files

\* A preview is issued once, and once only it is claimed.
Issued ==
    \A p \in Ids :
        /\ Known(p) => captured[p] = Spent
        /\ result[p] # None \/ (job # None /\ job.id = p) =>
              captured[p] = Spent /\ (Known(p) => p \in consumed)
        /\ job # None /\ job.id = p => result[p] = None

\* The edits of the applies that are over, and who has to know of them.
Settled(p) == job # None => p # job.id
Edits ==
    \A p \in Ids : \A f \in Files :
        /\ result[p] = "applied" => Has(f, p)
        /\ result[p] = None /\ Settled(p) => ~Has(f, p)
        /\ result[p] \in {"rolled_back", "conflicted"} => OnlyBuried(p)
        /\ Has(f, p) /\ Settled(p) => f \in dirty

\* The apply in progress: its edit is in the files it has gone through, in no
\* other while it commits, and in no other later unless a rollback failed or
\* another program wrote the file of the failure.
Committing == {"check", "rename", "verify"}
Through ==
    LET p == job.id IN
    /\ \A f \in Files : /\ \A n \in DOMAIN job.pre[f] : job.pre[f][n] # p
                        /\ job.post[f] = Append(job.pre[f], p)
    /\ job.pc \in Committing =>
          /\ job.why = "none"
          /\ \A j \in DOMAIN Targets : j < job.i => Has(Targets[j], p)
    /\ job.pc = "rename" => content[File] = job.pre[File]
    /\ job.pc = "verify" => IsPostimage(File) \/ Buried(File, p)
    /\ job.pc \in {"undo", "restore", "restored"} => job.why # "none"
    /\ job.pc = "restore" => job.applied # <<>> /\ IsPostimage(Last(job.applied))
    /\ job.pc = "restored" => job.applied # <<>> /\ ~Has(Last(job.applied), p)
    /\ job.pc = "finish" => IF job.why = "none" THEN \A f \in Files : Has(f, p)
                            ELSE job.applied = <<>>
    /\ job.pc \in Committing \/ (job.why # "none" /\ job.clean) =>
          \A f \in Files : Has(f, p) => \/ \E n \in DOMAIN job.applied : job.applied[n] = f
                                        \/ job.pc = "verify" /\ f = File
                                        \/ job.pc \notin Committing /\ f = File /\ Buried(f, p)

ApplyInv ==
    /\ TypeOK
    /\ Issued
    /\ Edits
    /\ job # None => Through

\* Every apply comes to an outcome and the editor lock is free again.
ApplyEnds == [](job # None => <>(job = None))
=============================================================================
