----------------------------- MODULE Snapshotter -----------------------------
(***************************************************************************)
(* RepositorySnapshotter (structural/snapshot.py): the read set of a       *)
(* workspace is captured file by file while other programs write to it.    *)
(* Every file is stat'ed, read and stat'ed again; at the end all captured  *)
(* files are stat'ed once more, and a capture that drifted is repeated     *)
(* once and then flagged.                                                  *)
(*                                                                         *)
(* The signature of a file (inode, size, times) changes with every write.  *)
(* A content is its size; the content Binary fails the text checks.        *)
(***************************************************************************)
EXTENDS Naturals, Sequences, FiniteSets

CONSTANTS
    Paths,        \* files, numbers in the order of their names
    Sizes,        \* contents a file may get
    Binary,       \* one of them: binary or not UTF-8
    MaxFiles,     \* limits.max_files
    MaxBytes,     \* limits.max_bytes
    MaxFileBytes, \* limits.max_file_bytes
    MaxWrites     \* bound: writes of other programs

VARIABLES
    tree,     \* path -> [data, sig], data 0 for no file
    writes,   \* writes so far, the next signature
    cap,      \* the capture
    settled   \* ghost: the tree when the last file had been read

vars == <<tree, writes, cap, settled>>

Absent == [data |-> 0, sig |-> 0]
NoFiles == [p \in {} |-> 0]
Start(attempt) ==
    [pc |-> "inventory", attempt |-> attempt, todo |-> <<>>, contents |-> NoFiles, sigs |-> NoFiles,
     before |-> 0, data |-> 0, stable |-> TRUE, bytes |-> 0, flagged |-> FALSE, cut |-> FALSE]

Init ==
    /\ tree \in [Paths -> {Absent} \cup [data : Sizes, sig : {1}]]
    /\ writes = 1
    /\ cap = Start(1)
    /\ settled = tree

With(f, x, v) == [y \in DOMAIN f \cup {x} |-> IF y = x THEN v ELSE f[y]]

\* Another program writes, creates or deletes a file.
Write(p, d) ==
    /\ writes < MaxWrites
    /\ cap.pc # "done"
    /\ writes' = writes + 1
    /\ tree' = [tree EXCEPT ![p] = IF d = 0 THEN Absent ELSE [data |-> d, sig |-> writes + 1]]
    /\ UNCHANGED <<cap, settled>>

\* The files of S in the order of their names.
Sorted(S) == {s \in [1 .. Cardinality(S) -> S] :
                \A i, j \in 1 .. Cardinality(S) : i < j => s[i] < s[j]}

\* _git_inventory: the sorted paths that git lists; _fallback_inventory finds the
\* same files by walking.  With a scope the paths of the scope, there or not.
GitInventory == Sorted({p \in Paths : tree[p].data # 0})
ScopeInventory == Sorted(Paths)

Inventory ==
    /\ cap.pc = "inventory"
    /\ \E listed \in GitInventory \cup ScopeInventory :
          cap' = [cap EXCEPT !.pc = "next", !.todo = listed]
    /\ UNCHANGED <<tree, writes, settled>>

\* The files captured so far are to be stat'ed once more.
VerifyAll(cut) ==
    /\ \E captured \in Sorted(DOMAIN cap.contents) :
          cap' = [cap EXCEPT !.pc = "verify", !.todo = captured, !.cut = cut]
    /\ settled' = tree

\* The loop ends: no candidate is left, the files are enough, or the deadline is
\* over.
LoopEnds ==
    /\ cap.pc = "next"
    /\ VerifyAll(cap.todo # <<>>)
    /\ UNCHANGED <<tree, writes>>

\* stat before the read; a file that is gone is skipped.
StatBefore ==
    /\ cap.pc = "next"
    /\ cap.todo # <<>>
    /\ Cardinality(DOMAIN cap.contents) < MaxFiles
    /\ LET f == tree[Head(cap.todo)] IN
       cap' = IF f.data = 0 THEN [cap EXCEPT !.todo = Tail(@)]
              ELSE [cap EXCEPT !.pc = "read", !.before = f.sig]
    /\ UNCHANGED <<tree, writes, settled>>

Read ==
    /\ cap.pc = "read"
    /\ LET f == tree[Head(cap.todo)] IN
       cap' = IF f.data = 0 THEN [cap EXCEPT !.pc = "next", !.todo = Tail(@)]
              ELSE [cap EXCEPT !.pc = "after", !.data = f.data]
    /\ UNCHANGED <<tree, writes, settled>>

\* Mutant: the two signatures of a file are not compared.
AdmittedUnchecked(sig) ==
    [cap EXCEPT !.pc = "next", !.todo = Tail(@), !.bytes = @ + cap.data,
                !.contents = With(@, Head(cap.todo), cap.data),
                !.sigs = With(@, Head(cap.todo), sig)]

\* The file is a row of the snapshot, with the signature after its read.
Admitted(sig) ==
    [cap EXCEPT !.pc = "next", !.todo = Tail(@), !.bytes = @ + cap.data,
                !.contents = With(@, Head(cap.todo), cap.data),
                !.sigs = With(@, Head(cap.todo), sig),
                !.stable = @ /\ cap.before = sig]

\* stat after the read: oversized files, binary files and files that are not
\* text are skipped; the byte limit ends the loop.
StatAfter ==
    /\ cap.pc = "after"
    /\ LET f == tree[Head(cap.todo)]
           skip == [cap EXCEPT !.pc = "next", !.todo = Tail(@)] IN
       CASE f.data = 0 \/ cap.data > MaxFileBytes -> cap' = skip /\ UNCHANGED settled
         [] f.data # 0 /\ cap.data <= MaxFileBytes /\ cap.bytes + cap.data > MaxBytes ->
              VerifyAll(TRUE)
         [] f.data # 0 /\ cap.data <= MaxFileBytes /\ cap.bytes + cap.data <= MaxBytes ->
              /\ cap' = IF cap.data = Binary THEN skip ELSE Admitted(f.sig)
              /\ UNCHANGED settled
    /\ UNCHANGED <<tree, writes>>

\* capture: one retry, then the bundle is flagged.
Drifted ==
    IF cap.attempt = 1 THEN Start(2)
    ELSE [cap EXCEPT !.pc = "done", !.flagged = TRUE]

\* _fingerprint_matches, file by file.
Verify ==
    /\ cap.pc = "verify"
    /\ cap' = IF ~cap.stable THEN Drifted
              ELSE IF cap.todo = <<>> THEN [cap EXCEPT !.pc = "done"]
              ELSE IF tree[Head(cap.todo)].sig # cap.sigs[Head(cap.todo)] THEN Drifted
              ELSE [cap EXCEPT !.todo = Tail(@)]
    /\ UNCHANGED <<tree, writes, settled>>

Next ==
    \/ \E p \in Paths, d \in Sizes \cup {0} : Write(p, d)
    \/ Inventory \/ LoopEnds \/ StatBefore \/ Read \/ StatAfter \/ Verify

Spec == Init /\ [][Next]_vars

----------------------------------------------------------------------------
\* A bundle that is not flagged is a consistent cut: all its contents were on
\* disk together at the moment when the last file had been read, whatever was
\* written during the capture.
UnflaggedIsConsistent ==
    (cap.pc = "done" /\ ~cap.flagged) =>
        \A p \in DOMAIN cap.contents : settled[p].data = cap.contents[p]

\* No capture exceeds a limit, and no file above its limit is in it.
WithinLimits ==
    /\ Cardinality(DOMAIN cap.contents) <= MaxFiles
    /\ cap.bytes <= MaxBytes
    /\ \A p \in DOMAIN cap.contents : cap.contents[p] <= MaxFileBytes /\ cap.contents[p] # Binary

----------------------------------------------------------------------------
\* A file with signature sig holds d for as long as it has that signature.
Known(p, sig, d) == sig \in 1 .. writes /\ (tree[p].sig = sig => tree[p].data = d)

\* The captures with the files S.
CapturesOf(S) ==
    [pc : {"inventory", "next", "read", "after", "verify", "done"}, attempt : {1, 2},
     todo : Seq(Paths), contents : [S -> Nat], sigs : [S -> Nat], before : Nat, data : Nat,
     stable : BOOLEAN, bytes : Nat, flagged : BOOLEAN, cut : BOOLEAN]

\* The tree and the capture have their shape.
TypeOK ==
    /\ writes \in Nat \ {0}
    /\ tree \in [Paths -> [data : Sizes \cup {0}, sig : 0 .. writes]]
    /\ \A p \in Paths : tree[p].data = 0 <=> tree[p].sig = 0
    /\ cap \in CapturesOf(DOMAIN cap.contents) /\ DOMAIN cap.contents \subseteq Paths

\* Why UnflaggedIsConsistent and WithinLimits hold: a signature stands for one
\* content for good, so a file whose signature is still the one taken after its
\* read has held the same content since.
CaptureInv ==
    /\ TypeOK
    /\ WithinLimits
    /\ cap.pc \in {"read", "after"} => /\ cap.todo # <<>>
                                      /\ Cardinality(DOMAIN cap.contents) < MaxFiles
                                      /\ cap.before \in 1 .. writes
    /\ cap.pc = "after" => /\ cap.data \in Sizes
                           /\ Known(Head(cap.todo), cap.before, cap.data)
    /\ cap.stable => \A p \in DOMAIN cap.contents : Known(p, cap.sigs[p], cap.contents[p])
    /\ cap.pc = "verify" /\ cap.stable => \A p \in DOMAIN cap.contents :
           /\ tree[p].sig = cap.sigs[p] => settled[p].data = cap.contents[p]
           /\ (\E i \in 1 .. Len(cap.todo) : cap.todo[i] = p) \/ settled[p].data = cap.contents[p]
    /\ UnflaggedIsConsistent
=============================================================================
