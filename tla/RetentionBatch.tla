--------------------------- MODULE RetentionBatch ---------------------------
(***************************************************************************)
(* The loop of apply_retention (native/daemon/state/src/database.rs): the  *)
(* candidates in id order, the cascade from a workspace or client to its   *)
(* bindings, the partial cascade when the limit is near, and the set of    *)
(* ids already emitted.  Batches follow one another until nothing is left. *)
(* An entity is <<kind, client, workspace>>.                               *)
(***************************************************************************)
EXTENDS RetentionRule

CONSTANTS Clients, Workspaces,
          Limit,     \* the limit argument
          None

Parents == {<<"workspace", None, w>> : w \in Workspaces}
           \cup {<<"client", c, None>> : c \in Clients}
Bindings == {<<"binding", c, w>> : c \in Clients, w \in Workspaces}
Entities == Parents \cup Bindings

\* binding_ids_tx
ChildrenOf(e, b) == IF e[1] = "workspace" THEN b[3] = e[3] ELSE b[2] = e[2]

VARIABLES live,     \* the entities that are not tombstoned
          due,      \* the entities that have expired or that a policy selects
          id,       \* the place of every entity in the order of the ids
          batch     \* the batch: what was live before, its candidates, those
                    \* the loop has not reached, and what it emitted

vars == <<live, due, id, batch>>

NoBatch == [live |-> {}, candidates |-> {}, left |-> {}, emitted |-> {}]

Init ==
    /\ \E gone \in SUBSET Bindings : live = Entities \ gone
    /\ due \in SUBSET live
    /\ id \in [Entities -> 1 .. Cardinality(Entities)]
    /\ \A e, f \in Entities : id[e] = id[f] => e = f
    /\ batch = NoBatch

\* The loop breaks at the limit.
Ended == batch.left = {} \/ Cardinality(batch.emitted) >= Limit

\* At most Limit of the rows that are due are candidates.  They can be fewer:
\* the queries for expired rows and of the policies may select the same row.
Begin ==
    /\ Ended
    /\ \E candidates \in SUBSET (live \cap due) :
        /\ candidates # {}
        /\ Cardinality(candidates) <= Limit
        /\ batch' = [live |-> live, candidates |-> candidates, left |-> candidates, emitted |-> {}]
    /\ UNCHANGED <<live, due, id>>

----------------------------------------------------------------------------
(* One turn of the loop.                                                   *)

Children(e) == {b \in live \cap Bindings : ChildrenOf(e, b)}

\* The first n of rows in the order of their ids.
First(rows, n) ==
    {some \in SUBSET rows : Cardinality(some) = n /\ \A b \in some, c \in rows \ some : id[b] < id[c]}

\* The turn of e tombstones rows.
Emit(e, rows) ==
    /\ live' = live \ rows
    /\ batch' = [batch EXCEPT !.left = @ \ {e}, !.emitted = @ \cup rows]

\* Mutant: the parent itself is not counted.
RetainParentUncounted(e, remaining) ==
    IF Cardinality(Children(e)) <= remaining
    THEN Emit(e, Children(e) \cup {e})
    ELSE \E some \in First(Children(e), remaining) : Emit(e, some)

\* A parent goes with all its bindings or, when they do not fit, only as many
\* of the bindings go as fit.
RetainParent(e, remaining) ==
    IF Cardinality(Children(e)) + 1 <= remaining
    THEN Emit(e, Children(e) \cup {e})
    ELSE \E some \in First(Children(e), remaining) : Emit(e, some)

Retain(e) ==
    IF e \in batch.emitted THEN Emit(e, {})
    ELSE IF e \in Parents THEN RetainParent(e, Limit - Cardinality(batch.emitted))
    ELSE Emit(e, {e})

RetainNext ==
    /\ ~Ended
    /\ \E e \in batch.left : (\A f \in batch.left : id[e] <= id[f]) /\ Retain(e)
    /\ UNCHANGED <<due, id>>

ApplyRetention == Begin \/ RetainNext

Next == ApplyRetention

Spec == Init /\ [][Next]_vars

-----------------------------------------------------------------------------
Ws(S) == {e[3] : e \in {x \in S : x[1] = "workspace"}}
Cs(S) == {e[2] : e \in {x \in S : x[1] = "client"}}
Ps(S) == {<<e[2], e[3]>> : e \in {x \in S : x[1] = "binding"}}

\* Whatever the order of the ids, the loop does what RetentionRule says: it
\* stays within the limit although one candidate cascades to several rows,
\* counts a row once although it is reached as a candidate and by a cascade,
\* and never tombstones a parent and leaves one of its bindings live.
LoopMeetsRule ==
    batch # NoBatch /\ Ended =>
        RetentionOutcome(Limit, Ps(batch.live),
                         Ws(batch.candidates), Cs(batch.candidates), Ps(batch.candidates),
                         Ws(batch.emitted), Cs(batch.emitted), Ps(batch.emitted))

\* Repeated batches take all that is due, also when a client or workspace has
\* more bindings than the limit: every batch with a candidate takes something
\* (the bindings of a parent that does not fit first), so none repeats itself.
BatchesAdvance == batch # NoBatch /\ Ended => batch.emitted # {}

-----------------------------------------------------------------------------
(* The inductive invariant.                                                *)

TypeOK ==
    /\ live \subseteq Entities
    /\ batch \in [live : SUBSET Entities, candidates : SUBSET Entities,
                  left : SUBSET Entities, emitted : SUBSET Entities]

\* What the loop has emitted is no longer live, a candidate or a binding of
\* one, and within the limit; a parent went with its bindings; and what it
\* has reached is emitted unless the limit is.
BatchInv ==
    /\ TypeOK
    /\ batch # NoBatch =>
        /\ batch.candidates # {} /\ batch.candidates \subseteq batch.live
        /\ Cardinality(batch.candidates) <= Limit
        /\ batch.left \subseteq batch.candidates
        /\ batch.emitted \subseteq batch.live /\ live = batch.live \ batch.emitted
        /\ Cardinality(batch.emitted) <= Limit
        /\ \A x \in batch.emitted :
              \/ x \in batch.candidates
              \/ x \in Bindings /\ \E e \in batch.candidates \cap Parents : ChildrenOf(e, x)
        /\ \A e \in batch.emitted \cap Parents : \A b \in batch.live \cap Bindings :
              ChildrenOf(e, b) => b \in batch.emitted
        /\ \A e \in batch.candidates \ batch.left :
              e \in batch.emitted \/ Cardinality(batch.emitted) = Limit
=============================================================================
