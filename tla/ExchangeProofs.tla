--------------------------- MODULE ExchangeProofs ---------------------------
(***************************************************************************)
(* Theorems about the machines of MCPlatform that exchange messages with   *)
(* somebody: the child processes (the runtimes of the Node.js analysers,   *)
(* the gateway to MCP servers with its health tracker, the structural      *)
(* worker and the engine client), clients that read page after page, and   *)
(* the language servers that have documents open.                          *)
(***************************************************************************)
EXTENDS MCPlatform, FiniteSetTheorems, SequenceTheorems, NaturalsInduction,
        WellFoundedInduction, TLAPS

----------------------------------------------------------------------------
(* Children of the Node.js analysers (postgresql and typescript            *)
(* node_runtime.py).                                                       *)

NodeVars == <<v1, v2, v3, v4, v5, v6, v7, v8, v9, v10, v11, v12, v13>>

LEMMA NodeStart == Node!Init => Node!NodeInv
<1> SUFFICES ASSUME Node!Init PROVE Node!NodeInv
    OBVIOUS
<1> USE DEF Node!Init
<1>1. Node!ChildFits
    BY DEF Node!ChildFits, Node!OneChild
<1>2. Node!PipeFits
    BY DEF Node!PipeFits
<1>3. Node!CallersFit
    BY DEF Node!CallersFit, Node!Kinds, Node!AnswersOwnRequest, Node!Failure
<1> QED
    BY <1>1, <1>2, <1>3 DEF Node!NodeInv

\* What a part does not mention leaves it as it is.
LEMMA NodeKeeps ==
    /\ Node!ChildFits /\ UNCHANGED <<v2, v4, v5, v11>> => Node!ChildFits'
    /\ Node!PipeFits /\ UNCHANGED <<v6, v7, v8>> => Node!PipeFits'
    /\ Node!CallersFit /\ UNCHANGED <<v9, v10>> => Node!CallersFit'
BY DEF Node!ChildFits, Node!PipeFits, Node!CallersFit, Node!OneChild,
       Node!AnswersOwnRequest

\* The reaped child was the only one.
LEMMA NodeReap ==
    ASSUME Node!ChildFits, Node!PipeFits, Node!Reap, UNCHANGED <<v8, v11>>
    PROVE  Node!ChildFits' /\ Node!PipeFits'
<1>1. v5' = {}
    BY DEF Node!ChildFits, Node!OneChild, Node!Reap
<1>2. Node!ChildFits'
    BY <1>1 DEF Node!ChildFits, Node!OneChild
<1>3. Node!PipeFits'
    BY DEF Node!PipeFits, Node!Reap
<1> QED
    BY <1>2, <1>3

\* A frame that comes carries the number of the request it is the answer to.
LEMMA NodeFrame ==
    ASSUME Node!PipeFits, NEW kind \in {"ok", "error", "garbage", "shape"}, NEW id \in Nat,
           v6' = Append(v6, [kind |-> kind, id |-> id, for |-> id]),
           v7' \in Seq(Nat), v8' = v8
    PROVE  Node!PipeFits'
<1> DEFINE f == [kind |-> kind, id |-> id, for |-> id]
<1>1. f \in Node!Frames /\ f.for = f.id
    BY DEF Node!Frames
<1> HIDE DEF f
<1>2. v6' = Append(v6, f)
    BY DEF f
<1>3. v6 \in Seq(Node!Frames) /\ \A i \in DOMAIN v6 : v6[i].for = v6[i].id
    BY DEF Node!PipeFits
<1>4. v6' \in Seq(Node!Frames) /\ \A i \in DOMAIN v6' : v6'[i].for = v6'[i].id
    BY ONLY <1>1, <1>2, <1>3
<1> QED
    BY <1>4 DEF Node!PipeFits

\* A caller is told something of its own.
LEMMA NodeOutcome ==
    ASSUME Node!CallersFit, NEW c \in Callers, NEW kind \in Node!Kinds, NEW mine \in BOOLEAN, mine,
           v10' = [v10 EXCEPT ![c] = [kind |-> kind, mine |-> mine]],
           v9' \in [Callers -> Nat \cup {None}]
    PROVE  Node!CallersFit'
<1> PICK r \in [kind : Node!Kinds, mine : BOOLEAN] : r = [kind |-> kind, mine |-> mine]
    OBVIOUS
<1>1. r.mine
    OBVIOUS
<1>2. v10' = [v10 EXCEPT ![c] = r]
    OBVIOUS
<1> QED
    BY ONLY Node!CallersFit, <1>1, <1>2, v9' \in [Callers -> Nat \cup {None}],
            r \in [kind : Node!Kinds, mine : BOOLEAN] DEF Node!CallersFit, Node!AnswersOwnRequest

LEMMA NodeEnds ==
    ASSUME Node!CallersFit, NEW c \in Callers, NEW kind \in Node!Kinds,
           Node!Ends(c, Node!Failure(kind))
    PROVE  Node!CallersFit'
<1>1. v10' = [v10 EXCEPT ![c] = [kind |-> kind, mine |-> TRUE]]
    BY DEF Node!Ends, Node!Failure
<1>2. v9' \in [Callers -> Nat \cup {None}]
    BY DEF Node!Ends, Node!CallersFit
<1> QED
    BY <1>1, <1>2, NodeOutcome

\* A child is started only in the place of one that ended.
LEMMA NodeRequest ==
    ASSUME Node!NodeInv, NEW c \in Callers, Node!Request(c)
    PROVE  Node!NodeInv'
<1> Node!ChildFits /\ Node!PipeFits /\ Node!CallersFit
    BY DEF Node!NodeInv
<1> USE DEF Node!Request
<1>1. CASE v2 \/ (~Node!Running /\ ~Node!Startable)
  <2>1. Node!ChildFits' /\ Node!PipeFits'
      BY <1>1, NodeKeeps
  <2>2. v10' = [v10 EXCEPT ![c] = [kind |-> "unavailable", mine |-> TRUE]]
      BY <1>1 DEF Node!Failure
  <2>3. Node!CallersFit'
      BY <1>1, <2>2, NodeOutcome DEF Node!CallersFit, Node!Kinds
  <2> QED
      BY <2>1, <2>3 DEF Node!NodeInv
<1>2. CASE ~v2 /\ (Node!Running \/ Node!Startable)
  <2>1. v8' = v8 + 1 /\ v8 \in Nat /\ v9' = [v9 EXCEPT ![c] = v8 + 1] /\ v2' = v2
      BY <1>2 DEF Node!PipeFits
  <2>2. v10' = [v10 EXCEPT ![c] = [kind |-> "none", mine |-> TRUE]]
      BY <1>2 DEF Node!Failure
  <2>c. v9' \in [Callers -> Nat \cup {None}]
      BY <2>1 DEF Node!CallersFit
  <2>3. Node!CallersFit'
      BY <2>2, <2>c, NodeOutcome DEF Node!Kinds
  <2>4. CASE Node!Running
    <3>1. Node!ChildFits'
        BY <1>2, <2>4, NodeKeeps
    <3>2. v7' = Append(v7, v8 + 1) /\ v6' = v6
        BY <1>2, <2>4
    <3>3. Node!PipeFits'
        BY <2>1, <3>2 DEF Node!PipeFits
    <3> QED
        BY <2>3, <3>1, <3>3 DEF Node!NodeInv
  <2>5. CASE ~Node!Running
    <3>1. /\ v4' = v11 + 1 /\ v5' = v5 \cup {v11 + 1} /\ v11' = v11 + 1
          /\ v6' = <<>> /\ v7' = <<v8 + 1>>
        BY <1>2, <2>5
    <3>2. v5 = {}
        BY <2>5, PlatformAssumption DEF Node!ChildFits, Node!OneChild, Node!Running
    <3>3. Node!ChildFits'
        BY <1>2, <2>1, <3>1, <3>2 DEF Node!ChildFits, Node!OneChild
    <3>4. Node!PipeFits'
        BY <2>1, <3>1 DEF Node!PipeFits
    <3> QED
        BY <2>3, <3>3, <3>4 DEF Node!NodeInv
  <2> QED
      BY <2>4, <2>5
<1> QED
    BY <1>1, <1>2

\* The answer is the frame with the number of the request.
LEMMA NodeRead ==
    ASSUME Node!NodeInv, NEW c \in Callers, Node!Read(c)
    PROVE  Node!NodeInv'
<1> Node!ChildFits /\ Node!PipeFits /\ Node!CallersFit
    BY DEF Node!NodeInv
<1>1. /\ v6 # <<>> /\ UNCHANGED <<v2, v8, v11>>
      /\ \/ Node!Reap
         \/ v6' = Tail(v6) /\ UNCHANGED <<v4, v5, v7>>
    BY DEF Node!Read
<1>2. Node!ChildFits' /\ Node!PipeFits'
  <2>1. CASE Node!Reap
      BY <1>1, <2>1, NodeReap
  <2>2. CASE v6' = Tail(v6) /\ UNCHANGED <<v4, v5, v7>>
    <3>1. Node!ChildFits'
        BY <1>1, <2>2, NodeKeeps
    <3>2. Node!PipeFits'
        BY <1>1, <2>2 DEF Node!PipeFits
    <3> QED
        BY <3>1, <3>2
  <2> QED
      BY <1>1, <2>1, <2>2
<1>3. Node!CallersFit'
  <2> DEFINE f == Head(v6)
  <2>1. f \in Node!Frames /\ f.for = f.id
      BY <1>1 DEF Node!PipeFits
  <2>2. CASE Node!IsAnswer(f, v9[c])
    <3>1. f.kind \in Node!Kinds /\ f.for = v9[c]
        BY <2>1, <2>2 DEF Node!IsAnswer, Node!Kinds
    <3>2. PICK mine \in BOOLEAN : mine = (f.for = v9[c])
        OBVIOUS
    <3>3. mine
        BY <3>1, <3>2
    <3>4. Node!Ends(c, [kind |-> f.kind, mine |-> mine])
        BY <2>2, <3>2 DEF Node!Read
    <3>5. /\ v10' = [v10 EXCEPT ![c] = [kind |-> f.kind, mine |-> mine]]
          /\ v9' \in [Callers -> Nat \cup {None}]
        BY <3>4 DEF Node!Ends, Node!CallersFit
    <3> PICK kind \in Node!Kinds : kind = f.kind
        BY <3>1
    <3> QED
        BY <3>3, <3>5, NodeOutcome
  <2>3. CASE ~Node!IsAnswer(f, v9[c])
    <3>1. Node!Ends(c, Node!Failure("protocol"))
        BY <2>3 DEF Node!Read
    <3> QED
        BY <3>1, NodeEnds DEF Node!Kinds
  <2> QED
      BY <2>2, <2>3
<1> QED
    BY <1>2, <1>3 DEF Node!NodeInv

LEMMA NodeStep ==
    ASSUME Node!NodeInv, [Node!Next]_NodeVars
    PROVE  Node!NodeInv'
<1> Node!ChildFits /\ Node!PipeFits /\ Node!CallersFit
    BY DEF Node!NodeInv
<1>1. CASE UNCHANGED NodeVars
    BY <1>1, NodeKeeps DEF NodeVars, Node!NodeInv
<1>2. ASSUME NEW v, Node!Provision(v)
      PROVE  Node!NodeInv'
    BY <1>2, NodeKeeps DEF Node!Provision, Node!NodeInv
<1>3. Node!LosePackage => Node!NodeInv'
    BY NodeKeeps DEF Node!LosePackage, Node!NodeInv
<1>4. ASSUME NEW c \in Callers, Node!Broken(c) \/ Node!Deadline(c)
      PROVE  Node!NodeInv'
  <2>1. \E kind \in Node!Kinds : Node!Ends(c, Node!Failure(kind))
      BY <1>4 DEF Node!Broken, Node!Deadline, Node!Kinds
  <2>2. Node!Reap /\ UNCHANGED <<v8, v11>>
      BY <1>4 DEF Node!Broken, Node!Deadline
  <2> QED
      BY <2>1, <2>2, NodeReap, NodeEnds DEF Node!NodeInv
<1>5. Node!Close => Node!NodeInv'
  <2> HAVE Node!Close
  <2>1. Node!Reap /\ UNCHANGED <<v8, v11>> /\ UNCHANGED <<v9, v10>>
      BY DEF Node!Close
  <2> QED
      BY <2>1, NodeReap, NodeKeeps DEF Node!NodeInv
<1>6. Node!ChildAnswers => Node!NodeInv'
  <2> HAVE Node!ChildAnswers
  <2>1. UNCHANGED <<v2, v4, v5, v11>> /\ UNCHANGED <<v9, v10>>
      BY DEF Node!ChildAnswers
  <2>2. Head(v7) \in Nat /\ Tail(v7) \in Seq(Nat)
      BY DEF Node!ChildAnswers, Node!PipeFits
  <2>3. PICK kind \in {"ok", "error"} :
            v6' = Append(v6, [kind |-> kind, id |-> Head(v7), for |-> Head(v7)])
      BY DEF Node!ChildAnswers
  <2>4. Node!PipeFits'
      BY <2>2, <2>3, NodeFrame DEF Node!ChildAnswers
  <2> QED
      BY <2>1, <2>4, NodeKeeps DEF Node!NodeInv
<1>7. Node!ChildStrays => Node!NodeInv'
  <2> HAVE Node!ChildStrays
  <2>1. UNCHANGED <<v2, v4, v5, v11>> /\ UNCHANGED <<v9, v10>> /\ UNCHANGED <<v7, v8>>
      BY DEF Node!ChildStrays
  <2>2. PICK kind \in {"garbage", "shape", "ok"}, id \in 0 .. v8 :
            v6' = Append(v6, [kind |-> kind, id |-> id, for |-> id])
      BY DEF Node!ChildStrays
  <2>3. v7' \in Seq(Nat) /\ v8' = v8 /\ id \in Nat
      BY <2>1 DEF Node!PipeFits
  <2>4. Node!PipeFits'
      BY <2>2, <2>3, NodeFrame
  <2> QED
      BY <2>1, <2>4, NodeKeeps DEF Node!NodeInv
<1>8. Node!ChildExits => Node!NodeInv'
  <2> HAVE Node!ChildExits
  <2>1. Node!ChildFits'
      BY DEF Node!ChildExits, Node!ChildFits, Node!OneChild
  <2> QED
      BY <2>1, NodeKeeps DEF Node!ChildExits, Node!NodeInv
<1> QED
    BY <1>1, <1>2, <1>3, <1>4, <1>5, <1>6, <1>7, <1>8, NodeRequest, NodeRead DEF Node!Next

----------------------------------------------------------------------------
(* The gateway and its health tracker (gateway.py, mcp_health.py).         *)

GatewayVars == <<v1, v2, v3, v4, v5, v6, v7, v8, v9, v10, v11, v12, v13, v14>>

LEMMA GatewayStart == Gateway!Init => Gateway!GatewayInv
<1> SUFFICES ASSUME Gateway!Init PROVE Gateway!GatewayInv
    OBVIOUS
<1>1. Gateway!HealthFits
    BY PlatformAssumption
       DEF Gateway!Init, Gateway!Seed, Gateway!HealthFits, Gateway!Snapshots, Gateway!HealthIsHonest
<1>2. Gateway!ProbesFit
    BY DEF Gateway!Init, Gateway!ProbesFit, Gateway!Trackers
<1>3. Gateway!CallsFit
    BY DEF Gateway!Init, Gateway!CallsFit, Gateway!CallOf
<1> QED
    BY <1>1, <1>2, <1>3 DEF Gateway!GatewayInv

LEMMA GatewayKeeps ==
    /\ Gateway!HealthFits /\ UNCHANGED <<v5, v6>> => Gateway!HealthFits'
    /\ Gateway!ProbesFit /\ UNCHANGED <<v2, v3, v4, v7, v14>> => Gateway!ProbesFit'
    /\ Gateway!CallsFit /\ UNCHANGED <<v7, v8, v9, v11>> => Gateway!CallsFit'
BY DEF Gateway!HealthFits, Gateway!HealthIsHonest, Gateway!ProbesFit, Gateway!CallsFit,
       Gateway!CallOf, Gateway!OwnedByFront

\* _record: what is reported of one backend.
LEMMA HealthRecord ==
    ASSUME Gateway!HealthFits, NEW b \in Backends,
           NEW state \in {"ok", "degraded", "down", "unauthenticated"},
           NEW digest \in {None, 1, 2}, NEW tools \in {None, 1, 2},
           v6' = Gateway!Recorded(b, state, digest, tools),
           v5' = IF state = "ok" THEN v5 \cup {b} ELSE v5,
           state = "degraded" => b \in v5, state = "down" => b \notin v5,
           state = "ok" => digest # None, (tools # None) <=> state = "ok"
    PROVE  Gateway!HealthFits'
<1> PICK r : r = [state |-> state, digest |-> IF state = "ok" THEN digest ELSE v6[b].digest,
                  tools |-> tools]
    OBVIOUS
<1>1. v6' = [v6 EXCEPT ![b] = r]
    BY DEF Gateway!Recorded
<1>2. r \in Gateway!Snapshots /\ r.state = state /\ r.tools = tools
    BY DEF Gateway!HealthFits, Gateway!Snapshots
<1>3. r.digest = IF state = "ok" THEN digest ELSE v6[b].digest
    OBVIOUS
<1> QED
    BY ONLY Gateway!HealthFits, <1>1, <1>2, <1>3, b \in Backends,
            v5' = IF state = "ok" THEN v5 \cup {b} ELSE v5,
            state = "degraded" => b \in v5, state = "down" => b \notin v5,
            state = "ok" => digest # None, (tools # None) <=> state = "ok"
       DEF Gateway!HealthFits, Gateway!HealthIsHonest

LEMMA HealthFailure ==
    ASSUME Gateway!HealthFits, NEW b \in Backends, v5' = v5,
           \/ v6' = Gateway!RecordedFailure(b)
           \/ v6' = Gateway!Recorded(b, "unauthenticated", None, None)
    PROVE  Gateway!HealthFits'
<1>1. PICK state \in {"degraded", "down", "unauthenticated"} :
          /\ v6' = Gateway!Recorded(b, state, None, None)
          /\ state = "degraded" => b \in v5
          /\ state = "down" => b \notin v5
    BY DEF Gateway!RecordedFailure
<1> QED
    BY <1>1, HealthRecord

\* The kind of client says who it belongs to.
LEMMA ClientIs ==
    ASSUME NEW f, NEW b, NEW c, c = Gateway!ClientOf(f, b)
    PROVE  /\ c.backend = b
           /\ \/ c.kind = "http" /\ Config[b].lifecycle = "shared"
              \/ c.kind = "session" /\ Config[b].lifecycle = "session" /\ c.of = f
              \/ c.kind = "call" /\ c.of = f /\ Config[b].lifecycle \notin {"shared", "session"}
BY DEF Gateway!ClientOf, Gateway!StatefulProcess, Gateway!Process

\* A child of a probe comes or goes: no call and no connection is touched.
LEMMA CallsKeep ==
    ASSUME Gateway!CallsFit, NEW b \in Backends, UNCHANGED <<v8, v9, v11>>,
           \/ v7' = v7 \/ v7' = v7 \ {Gateway!Process("probe", None, b)}
           \/ v7' = v7 \cup {Gateway!Process("probe", None, b)}
    PROVE  Gateway!CallsFit'
<1> PICK q : q = Gateway!Process("probe", None, b)
    OBVIOUS
<1>1. q \in Gateway!Processes /\ q.kind = "probe"
    BY DEF Gateway!Process, Gateway!Processes
<1>2. /\ \A p \in v7' : p \in v7 \/ p = q
      /\ \A p \in v7 : p.kind # "probe" => p \in v7'
    BY <1>1
<1>3. \A f \in Fronts : Gateway!CallOf(f)'
  <2> SUFFICES ASSUME NEW f \in Fronts PROVE Gateway!CallOf(f)'
      OBVIOUS
  <2>1. ASSUME v11[f] # None PROVE v11[f].kind # "probe"
    <3>1. v11[f] = Gateway!ClientOf(f, v11[f].backend)
        BY <2>1 DEF Gateway!CallsFit, Gateway!CallOf
    <3> QED
        BY <3>1, ClientIs
  <2> QED
      BY <1>2, <2>1 DEF Gateway!CallsFit, Gateway!CallOf
<1> QED
    BY <1>1, <1>2, <1>3 DEF Gateway!CallsFit, Gateway!OwnedByFront

\* The tracker begins a round, ends one or stops.
LEMMA ProbeRound ==
    ASSUME Gateway!ProbesFit,
           Gateway!Start \/ Gateway!NextRound \/ Gateway!EndRound \/ Gateway!AcloseEnds,
           v14' = v14, v7 \subseteq Gateway!Processes
    PROVE  Gateway!ProbesFit'
<1>1. v7' = v7 /\ v4' = v4
    BY DEF Gateway!Start, Gateway!NextRound, Gateway!EndRound, Gateway!AcloseEnds
<1>2. CASE Gateway!Start \/ Gateway!NextRound
  <2>1. /\ v3' = [b \in Backends |-> IF b \in v14.enabled THEN "due" ELSE "idle"]
        /\ v2.task # "probing"
      BY <1>2 DEF Gateway!Start, Gateway!NextRound, Gateway!Enabled
  <2> PICK m : m = [v2 EXCEPT !.task = "probing"]
      OBVIOUS
  <2>2. m \in Gateway!Trackers /\ m.closed = v2.closed /\ m.task = "probing"
      BY DEF Gateway!ProbesFit, Gateway!Trackers
  <2>3. v2' = [m EXCEPT !.rounds = m.rounds + 1]
      BY <1>2 DEF Gateway!Start, Gateway!NextRound
  <2>4. v2' \in Gateway!Trackers /\ v2'.closed = v2.closed /\ v2'.task = "probing"
      BY ONLY <2>2, <2>3 DEF Gateway!Trackers
  <2> QED
      BY <1>1, <2>1, <2>4 DEF Gateway!ProbesFit, Gateway!Processes
<1>3. CASE Gateway!EndRound \/ Gateway!AcloseEnds
  <2>1. /\ v3' = v3 /\ \A b \in Backends : v3[b] # "connecting"
        /\ \E task \in {"none", "sleeping"} : v2' = [v2 EXCEPT !.task = task]
      BY <1>3 DEF Gateway!EndRound, Gateway!AcloseEnds, Gateway!ProbesFit, Gateway!Enabled
  <2>2. /\ v2' \in Gateway!Trackers
        /\ v2'.closed = v2.closed
      BY <2>1 DEF Gateway!ProbesFit, Gateway!Trackers
  <2> QED
      BY <1>1, <2>1, <2>2 DEF Gateway!ProbesFit, Gateway!CallsFit
<1> QED
    BY <1>2, <1>3

\* A probe starts its child, or ends, and its child with it.
LEMMA ProbeStep ==
    ASSUME Gateway!ProbesFit, NEW b \in Backends, UNCHANGED <<v2, v14>>,
           v7 \subseteq Gateway!Processes,
           \/ Gateway!BeginProbe(b) \/ Gateway!ProbeAnswers(b)
           \/ \E depth \in Rejections \cup {None} : Gateway!ProbeFails(b, depth)
           \/ Gateway!Reaped(b) \/ Gateway!StopWaiting(b)
    PROVE  Gateway!ProbesFit'
<1> PICK q : q = Gateway!Process("probe", None, b)
    OBVIOUS
<1>1. q.kind = "probe" /\ q.of = None /\ q.backend = b
    BY DEF Gateway!Process
<1>2. \A p \in v7 : p.kind = "probe" /\ p.backend = b => p = q
    BY DEF Gateway!ProbesFit, Gateway!Process, Gateway!Processes
<1>3. CASE Gateway!BeginProbe(b)
  <2>1. \/ v3' = [v3 EXCEPT ![b] = "idle"] /\ v7' = v7
        \/ v3' = [v3 EXCEPT ![b] = "connecting"] /\ (v7' = v7 \/ v7' = v7 \cup {q})
      BY <1>3 DEF Gateway!BeginProbe, Gateway!Spawned
  <2>2. v3[b] = "due" /\ v2.task = "probing" /\ v4' = v4 /\ b \in v14.enabled
      BY <1>3 DEF Gateway!BeginProbe, Gateway!ProbesFit
  <2>3. CASE v3' = [v3 EXCEPT ![b] = "idle"] /\ v7' = v7
      BY <2>2, <2>3 DEF Gateway!ProbesFit
  <2>4. CASE v3' = [v3 EXCEPT ![b] = "connecting"] /\ (v7' = v7 \/ v7' = v7 \cup {q})
    <3>1. \A p \in v7' : p.kind = "probe" =>
              p.of = None /\ (v3'[p.backend] = "connecting" \/ p.backend \in v4)
        BY <1>1, <2>4 DEF Gateway!ProbesFit, Gateway!Processes
    <3> QED
        BY <2>2, <2>4, <3>1 DEF Gateway!ProbesFit
  <2> QED
      BY <2>1, <2>3, <2>4
<1>4. CASE ~Gateway!BeginProbe(b) /\ ~Gateway!StopWaiting(b)
  <2>1. /\ v3' = [v3 EXCEPT ![b] = "idle"] /\ v7' = v7 \ {q}
        /\ v4' \in {v4, v4 \ {b}}
      BY <1>4 DEF Gateway!ProbeAnswers, Gateway!ProbeFails, Gateway!Reaped
  <2> QED
      BY <1>1, <1>2, <2>1 DEF Gateway!ProbesFit
<1>5. CASE Gateway!StopWaiting(b)
  <2>1. v3[b] = "reaping" /\ v3' = [v3 EXCEPT ![b] = "idle"] /\ v7' = v7 /\ v4' = v4
      BY <1>5 DEF Gateway!StopWaiting
  <2> QED
      BY <2>1 DEF Gateway!ProbesFit, Gateway!Trackers
<1> QED
    BY <1>3, <1>4, <1>5

\* aclose: the client of a probe that was connecting is closed by a task of its own.
LEMMA ProbeAclose ==
    ASSUME Gateway!ProbesFit, Gateway!Aclose, v14' = v14, v7 \subseteq Gateway!Processes
    PROVE  Gateway!ProbesFit'
<1>1. /\ v4' = {b \in Backends : v3[b] = "connecting"} /\ v4 = {} /\ v7' = v7
      /\ v3' = [b \in Backends |-> IF v3[b] = "connecting" THEN "reaping" ELSE "idle"]
    BY DEF Gateway!Aclose, Gateway!ProbesFit
<1>2. \E task \in {"none", "cancelled"} : v2' = [v2 EXCEPT !.closed = TRUE, !.task = task]
    BY DEF Gateway!Aclose
<1>3. /\ v2' \in Gateway!Trackers
      /\ v2'.closed
    BY <1>2 DEF Gateway!ProbesFit, Gateway!Trackers
<1> QED
    BY <1>1, <1>3 DEF Gateway!ProbesFit, Gateway!Processes

\* What happens to calls is none of the probes' concern.
LEMMA ProbesKeep ==
    ASSUME Gateway!ProbesFit, UNCHANGED <<v2, v3, v4, v14>>,
           \A p \in v7' : p.kind = "probe" => p \in v7
    PROVE  Gateway!ProbesFit'
BY DEF Gateway!ProbesFit

\* The child of a call that ends, or of the calls of a connection that goes.
LEMMA CallsOfOneEnd ==
    ASSUME Gateway!CallsFit, NEW f \in Fronts,
           v11' = [v11 EXCEPT ![f] = None], UNCHANGED <<v9, v10>>,
           v7' = v7 \ {Gateway!Process("call", f, b) : b \in Backends},
           v8' = v8 \/ (v8[f] = "open" /\ v8' = [v8 EXCEPT ![f] = "exiting"])
    PROVE  Gateway!CallsFit' /\ \A p \in v7' : p.kind = "probe" => p \in v7
<1>1. \A p \in v7' : p \in v7 /\ ~(p.kind = "call" /\ p.of = f)
    BY DEF Gateway!CallsFit, Gateway!Processes, Gateway!Process
<1>2. \A p \in v7' : p.kind # "probe" => Gateway!OwnedByFront(p)'
    BY <1>1 DEF Gateway!CallsFit, Gateway!OwnedByFront
<1>3. \A g \in Fronts : Gateway!CallOf(g)'
  <2> SUFFICES ASSUME NEW g \in Fronts PROVE Gateway!CallOf(g)'
      OBVIOUS
  <2>1. CASE g = f
      BY <2>1 DEF Gateway!CallsFit, Gateway!CallOf
  <2>2. CASE g # f
    <3>1. v11'[g] = v11[g] /\ v8'[g] = v8[g] /\ Gateway!CallOf(g)
        BY <2>2 DEF Gateway!CallsFit
    <3>2. ASSUME v11[g] \in v7, v11[g].of = g PROVE v11[g] \in v7'
        BY <2>2, <3>2 DEF Gateway!Process
    <3> QED
        BY <3>1, <3>2 DEF Gateway!CallOf
  <2> QED
      BY <2>1, <2>2
<1> QED
    BY <1>1, <1>2, <1>3 DEF Gateway!CallsFit

\* A call gets its client, and the client its child.
LEMMA CallBegins ==
    ASSUME Gateway!CallsFit, NEW f \in Fronts, NEW b \in Backends, Gateway!Call(f, b)
    PROVE  Gateway!CallsFit' /\ \A p \in v7' : p.kind = "probe" => p \in v7
<1>1. v8[f] = "open" /\ v11[f] = None /\ v8' = v8
    BY DEF Gateway!Call
<1>2. CASE UNCHANGED <<v11, v9, v7>>
    BY <1>1, <1>2, GatewayKeeps
<1>3. CASE ~UNCHANGED <<v11, v9, v7>>
  <2> PICK c : c = Gateway!ClientOf(f, b)
      OBVIOUS
  <2>1. /\ v11' = [v11 EXCEPT ![f] = c]
        /\ v9' = IF Config[b].lifecycle = "session" THEN v9 \cup {<<f, b>>} ELSE v9
        /\ v7' = Gateway!Spawned(c)
      BY <1>3 DEF Gateway!Call
  <2>2. /\ c.backend = b /\ c.kind # "probe"
        /\ c.kind = "http" => ~Config[b].stdio
        /\ c.kind # "http" => c.of = f
        /\ c.kind = "session" <=> Config[b].lifecycle = "session"
      BY ClientIs, GatewayAssumption
  <2>3. c \in Gateway!Processes
      BY DEF Gateway!ClientOf, Gateway!StatefulProcess, Gateway!Process, Gateway!Processes
  <2>4. /\ v7' = (IF Config[b].stdio THEN v7 \cup {c} ELSE v7)
        /\ c.kind = "http" => v7' = v7
      BY <2>1, <2>2 DEF Gateway!Spawned
  <2>5. v9 \subseteq v9' /\ v9' \subseteq Fronts \X Backends
      BY <2>1 DEF Gateway!CallsFit
  <2>6. /\ v11' \in [Fronts -> Gateway!Processes \cup {None}] /\ v11'[f] = c
        /\ \A g \in Fronts \ {f} : v11'[g] = v11[g]
      BY <2>1, <2>3 DEF Gateway!CallsFit
  <2>7. \A p \in v7' : p.kind # "probe" => Gateway!OwnedByFront(p)'
    <3> SUFFICES ASSUME NEW p \in v7', p.kind # "probe" PROVE Gateway!OwnedByFront(p)'
        OBVIOUS
    <3>1. CASE p = c
      <4>1. CASE c \in v7
        <5>1. Gateway!OwnedByFront(c)
            BY <2>2, <4>1 DEF Gateway!CallsFit
        <5> QED
            BY <1>1, <2>5, <2>6, <3>1, <5>1 DEF Gateway!OwnedByFront
      <4>2. CASE c \notin v7
        <5>1. c.of = f /\ c.kind \in {"session", "call"}
            BY <2>2, <2>4, <3>1, <4>2, ClientIs
        <5>2. c.kind = "session" => <<f, b>> \in v9'
            BY <2>1, <2>2
        <5> QED
            BY <1>1, <2>2, <2>6, <3>1, <5>1, <5>2 DEF Gateway!OwnedByFront
      <4> QED
          BY <4>1, <4>2
    <3>2. CASE p # c
      <4>1. p \in v7 /\ Gateway!OwnedByFront(p)
          BY <2>4, <3>2 DEF Gateway!CallsFit
      <4>2. p.kind = "call" => p.of # f
          BY <1>1, <4>1, GatewayAssumption DEF Gateway!OwnedByFront, Gateway!CallsFit
      <4> QED
          BY <1>1, <2>5, <2>6, <4>1, <4>2 DEF Gateway!OwnedByFront
    <3> QED
        BY <3>1, <3>2
  <2>8. \A g \in Fronts : Gateway!CallOf(g)'
    <3> SUFFICES ASSUME NEW g \in Fronts PROVE Gateway!CallOf(g)'
        OBVIOUS
    <3>1. CASE g = f
      <4>1. v11'[g] = c /\ v8'[g] = "open" /\ c = Gateway!ClientOf(f, c.backend)
          BY <1>1, <2>2, <2>6, <3>1
      <4>2. c.kind = "session" => <<f, c.backend>> \in v9'
          BY <2>1, <2>2
      <4> QED
          BY <1>1, <2>1, <2>2, <2>4, <3>1, <4>1, <4>2 DEF Gateway!CallOf
    <3>2. CASE g # f
      <4>1. v11'[g] = v11[g] /\ v8'[g] = v8[g] /\ Gateway!CallOf(g)
          BY <1>1, <2>6, <3>2 DEF Gateway!CallsFit
      <4>2. v7 \subseteq v7' /\ \A d \in Backends : <<g, d>> \in v9' <=> <<g, d>> \in v9
          BY <2>1, <2>4, <3>2
      <4> QED
          BY <2>5, <4>1, <4>2 DEF Gateway!CallOf
    <3> QED
        BY <3>1, <3>2
  <2> QED
      BY <1>1, <2>2, <2>3, <2>4, <2>5, <2>6, <2>7, <2>8 DEF Gateway!CallsFit
<1> QED
    BY <1>2, <1>3

\* A connection that exits ends the clients it cached, one after the other.
LEMMA CallsDisconnect ==
    ASSUME Gateway!CallsFit, NEW f \in Fronts, NEW b \in Backends, Gateway!Disconnect(f, b)
    PROVE  Gateway!CallsFit' /\ \A p \in v7' : p.kind = "probe" => p \in v7
<1> PICK q : q = Gateway!Process("session", f, b)
    OBVIOUS
<1>1. /\ v8[f] = "exiting" /\ UNCHANGED <<v8, v11>>
      /\ v9' = v9 \ {<<f, b>>} /\ v7' = v7 \ {q}
    BY DEF Gateway!Disconnect
<1>2. q.of = f /\ \A p \in v7 : p.kind = "session" /\ p.of = f /\ p.backend = b => p = q
    BY DEF Gateway!CallsFit, Gateway!Processes, Gateway!Process
<1>3. \A p \in v7' : p.kind # "probe" => Gateway!OwnedByFront(p)'
    BY <1>1, <1>2 DEF Gateway!CallsFit, Gateway!OwnedByFront, Gateway!Processes
<1>4. \A g \in Fronts : Gateway!CallOf(g)'
  <2> SUFFICES ASSUME NEW g \in Fronts PROVE Gateway!CallOf(g)'
      OBVIOUS
  <2>1. CASE g = f
      BY <1>1, <2>1 DEF Gateway!CallsFit, Gateway!CallOf
  <2>2. CASE g # f
    <3>1. Gateway!CallOf(g) /\ \A d : <<g, d>> \in v9' <=> <<g, d>> \in v9
        BY <1>1, <2>2 DEF Gateway!CallsFit
    <3>2. v11[g] \in v7 /\ v11[g].of = g => v11[g] \in v7'
        BY <1>1, <1>2, <2>2
    <3> QED
        BY <1>1, <3>1, <3>2 DEF Gateway!CallOf
  <2> QED
      BY <2>1, <2>2
<1> QED
    BY <1>1, <1>3, <1>4 DEF Gateway!CallsFit

LEMMA CallsLeft ==
    ASSUME Gateway!CallsFit, NEW f \in Fronts, Gateway!Left(f)
    PROVE  Gateway!CallsFit'
<1>1. /\ v8[f] = "exiting" /\ v8' = [v8 EXCEPT ![f] = "closed"]
      /\ \A b \in Backends : <<f, b>> \notin v9
      /\ UNCHANGED <<v7, v9, v11>>
    BY DEF Gateway!Left
<1>2. \A p \in v7' : p.kind # "probe" => Gateway!OwnedByFront(p)'
    BY <1>1 DEF Gateway!CallsFit, Gateway!OwnedByFront, Gateway!Processes
<1>3. \A g \in Fronts : Gateway!CallOf(g)'
    BY <1>1 DEF Gateway!CallsFit, Gateway!CallOf
<1> QED
    BY <1>1, <1>2, <1>3 DEF Gateway!CallsFit

LEMMA GatewayStep ==
    ASSUME Gateway!GatewayInv, [Gateway!Next]_GatewayVars
    PROVE  Gateway!GatewayInv'
<1> Gateway!HealthFits /\ Gateway!ProbesFit /\ Gateway!CallsFit /\ v7 \subseteq Gateway!Processes
    BY DEF Gateway!GatewayInv, Gateway!CallsFit
<1>1. CASE UNCHANGED GatewayVars
    BY <1>1, GatewayKeeps DEF GatewayVars, Gateway!GatewayInv
<1>2. ASSUME v14' = v14,
             Gateway!Start \/ Gateway!NextRound \/ Gateway!EndRound \/ Gateway!AcloseEnds
      PROVE  Gateway!GatewayInv'
  <2>1. UNCHANGED <<v5, v6, v7, v8, v9, v11>>
      BY <1>2 DEF Gateway!Start, Gateway!NextRound, Gateway!EndRound, Gateway!AcloseEnds,
                  Gateway!frontVars
  <2> QED
      BY <1>2, <2>1, ProbeRound, GatewayKeeps DEF Gateway!GatewayInv
<1>3. ASSUME v14' = v14, Gateway!Aclose
      PROVE  Gateway!GatewayInv'
  <2>1. UNCHANGED <<v5, v6, v7, v8, v9, v11>>
      BY <1>3 DEF Gateway!Aclose, Gateway!frontVars
  <2> QED
      BY <1>3, <2>1, ProbeAclose, GatewayKeeps DEF Gateway!GatewayInv
<1>4. ASSUME v14' = v14, NEW b \in Backends,
             \/ Gateway!BeginProbe(b) \/ Gateway!ProbeAnswers(b)
             \/ \E depth \in Rejections \cup {None} : Gateway!ProbeFails(b, depth)
             \/ Gateway!Reaped(b) \/ Gateway!StopWaiting(b)
      PROVE  Gateway!GatewayInv'
  <2>1. /\ UNCHANGED <<v2, v8, v9, v11>>
        /\ \/ v7' = v7 \/ v7' = v7 \ {Gateway!Process("probe", None, b)}
           \/ v7' = v7 \cup {Gateway!Process("probe", None, b)}
      BY <1>4 DEF Gateway!BeginProbe, Gateway!ProbeAnswers, Gateway!ProbeFails, Gateway!Reaped,
                  Gateway!StopWaiting, Gateway!Spawned, Gateway!frontVars
  <2>2. Gateway!ProbesFit' /\ Gateway!CallsFit'
      BY <1>4, <2>1, ProbeStep, CallsKeep
  <2>3. Gateway!HealthFits'
    <3>1. CASE Gateway!BeginProbe(b)
      <4>1. /\ v5' = v5
            /\ \/ v6' = v6 \/ v6' = Gateway!RecordedFailure(b)
               \/ v6' = Gateway!Recorded(b, "unauthenticated", None, None)
          BY <3>1 DEF Gateway!BeginProbe
      <4> QED
          BY <4>1, HealthFailure, GatewayKeeps
    <3>2. CASE Gateway!ProbeAnswers(b)
      <4>1. PICK digest \in {1, 2} : v6' = Gateway!Recorded(b, "ok", digest, digest)
          BY <3>2 DEF Gateway!ProbeAnswers
      <4>2. v5' = v5 \cup {b} /\ digest # None
          BY <3>2, PlatformAssumption DEF Gateway!ProbeAnswers
      <4> QED
          BY <4>1, <4>2, HealthRecord
    <3>3. CASE \E depth \in Rejections \cup {None} : Gateway!ProbeFails(b, depth)
      <4>1. /\ v5' = v5
            /\ \/ v6' = Gateway!RecordedFailure(b)
               \/ v6' = Gateway!Recorded(b, "unauthenticated", None, None)
          BY <3>3 DEF Gateway!ProbeFails
      <4> QED
          BY <4>1, HealthFailure
    <3>4. CASE Gateway!Reaped(b) \/ Gateway!StopWaiting(b)
        BY <3>4, GatewayKeeps DEF Gateway!Reaped, Gateway!StopWaiting
    <3> QED
        BY <1>4, <3>1, <3>2, <3>3, <3>4
  <2> QED
      BY <2>2, <2>3 DEF Gateway!GatewayInv
<1>5. ASSUME v14' = v14, NEW b \in Backends, Gateway!ChangeSecret(b)
      PROVE  Gateway!GatewayInv'
    BY <1>5, GatewayKeeps
       DEF Gateway!ChangeSecret, Gateway!trackerVars, Gateway!frontVars, Gateway!GatewayInv
<1>6. ASSUME v14' = v14, NEW f \in Fronts,
             \/ Gateway!EndCall(f) \/ Gateway!Leave(f) \/ Gateway!Left(f)
             \/ \E b \in Backends : Gateway!Call(f, b) \/ Gateway!Disconnect(f, b)
      PROVE  Gateway!GatewayInv'
  <2>1. UNCHANGED <<v2, v3, v4, v5, v6>>
      BY <1>6 DEF Gateway!EndCall, Gateway!Leave, Gateway!Left, Gateway!Call, Gateway!Disconnect,
                  Gateway!trackerVars
  <2>2. Gateway!CallsFit' /\ \A p \in v7' : p.kind = "probe" => p \in v7
    <3>1. CASE Gateway!EndCall(f) \/ Gateway!Leave(f)
        BY <3>1, CallsOfOneEnd DEF Gateway!EndCall, Gateway!Leave
    <3>2. CASE Gateway!Left(f)
        BY <3>2, CallsLeft DEF Gateway!Left
    <3> QED
        BY <1>6, <3>1, <3>2, CallBegins, CallsDisconnect
  <2>3. Gateway!ProbesFit'
      BY <1>6, <2>1, <2>2, ProbesKeep
  <2> QED
      BY <2>1, <2>2, <2>3, GatewayKeeps DEF Gateway!GatewayInv
<1> QED
    BY <1>1, <1>2, <1>3, <1>4, <1>5, <1>6 DEF Gateway!Next

\* A child of somebody has somebody who will end it.
LEMMA GatewayObserved == Gateway!GatewayInv => Gateway!ChildrenAreOwned /\ Gateway!HealthIsHonest
BY DEF Gateway!GatewayInv, Gateway!HealthFits, Gateway!ProbesFit, Gateway!CallsFit, Gateway!CallOf,
       Gateway!OwnedByFront, Gateway!ChildrenAreOwned, Gateway!Processes

----------------------------------------------------------------------------
(* The supervised worker (structural/supervisor.py).                       *)

Closings == {"no", "draining", "abandoned", "again", "stopping", "settling", "closed"}
WorkerVars == <<v1, v2, v3, v4, v5, v6, v7, v8, v9>>

LEMMA WorkerStart == Worker!Init => Worker!WorkerInv /\ Worker!StrayInv
<1> SUFFICES ASSUME Worker!Init PROVE Worker!WorkerInv /\ Worker!StrayInv
    OBVIOUS
<1> USE DEF Worker!Init, Worker!NoWorker, Worker!NoJob
<1>1. Worker!TypeOK
    BY DEF Worker!TypeOK, Worker!Workers, Worker!Jobs, Worker!Busy, Worker!Thens
<1>2. \A c \in Callers : v5[c].pc \notin Worker!Busy /\ v4 # c
    BY PlatformAssumption DEF Worker!Busy
<1>3. \A c \in Callers : Worker!Fits(v5[c], v1, v2)
    BY DEF Worker!Fits
<1> QED
    BY <1>1, <1>2, <1>3 DEF Worker!WorkerInv, Worker!Owned, Worker!StrayInv

\* A caller outside of the lock leaves the worker to the others.
LEMMA WorkerOutside ==
    ASSUME Worker!WorkerInv, NEW c \in Callers, UNCHANGED <<v1, v2, v3, v4, v7>>,
           v5[c].pc \in {"idle", "queued", "done"},
           v5' \in [Callers -> Worker!Jobs], \A d \in Callers \ {c} : v5'[d] = v5[d],
           v5'[c].pc \in {"idle", "queued", "done"}, v5'[c].pc = "queued" => v7 = "no",
           v5'[c].victim = 0
    PROVE  Worker!WorkerInv'
<1> USE DEF Worker!WorkerInv, Worker!Busy
<1>1. v3 \in Nat /\ 0 \notin v2
    BY DEF Worker!TypeOK
<1>2. Worker!TypeOK'
    BY <1>1 DEF Worker!TypeOK
<1>3. \A d \in Callers : (v5'[d].pc \in Worker!Busy <=> v4' = d) /\ Worker!Fits(v5'[d], v1', v2')
    BY <1>1 DEF Worker!Fits
<1>4. v5[c].victim \notin v2
    BY DEF Worker!Fits
<1>5. Worker!Owned'
    BY <1>4 DEF Worker!Owned
<1> QED
    BY <1>2, <1>3, <1>5

\* What the holder of the lock, or the one who is next, knows of the processes.
LEMMA WorkerKnown ==
    ASSUME Worker!WorkerInv, NEW c \in Callers, v5[c].pc \in Worker!Busy \cup {"queued"},
           v4 \in {c, "none"}
    PROVE  /\ v7 \notin {"stopping", "settling"} /\ (v4 = c => v7 # "closed")
           /\ v3 \in Nat /\ 0 \notin v2 /\ v2 \subseteq 1 .. v3
           /\ v1 \in Worker!Workers /\ v1.pid <= v3
           /\ v5[c] \in Worker!Jobs /\ v5[c].victim <= v3
           /\ Worker!Fits(v5[c], v1, v2)
           /\ v5[c].pc # "stopping" => v2 \subseteq {v1.pid}
           /\ v5[c].pc = "stopping" => v2 \subseteq {v5[c].victim}
           /\ \A d \in Callers \ {c} : v5[d].pc \notin Worker!Busy /\ v5[d].victim \notin v2
           /\ v4 = "none" => v1.pid = 0 \/ v1.pong # "none"
<1> USE DEF Worker!WorkerInv, Worker!Busy
<1>1. v7 \notin {"stopping", "settling"} /\ (v4 = c => v7 # "closed")
    BY PlatformAssumption
<1>2. /\ v3 \in Nat /\ 0 \notin v2 /\ v2 \subseteq 1 .. v3
      /\ v1 \in Worker!Workers /\ v1.pid <= v3
      /\ v5[c] \in Worker!Jobs /\ v5[c].victim <= v3
    BY DEF Worker!TypeOK
<1>3. \A d \in Callers \ {c} : v5[d].pc \notin Worker!Busy /\ v5[d].victim \notin v2
    BY PlatformAssumption DEF Worker!Fits
<1>4. v2 \subseteq {v1.pid, v5[c].victim}
    BY <1>3 DEF Worker!Owned
<1>5. Worker!Fits(v5[c], v1, v2)
    OBVIOUS
<1> QED
    BY <1>1, <1>2, <1>3, <1>4, <1>5 DEF Worker!Fits

\* The holder of the lock goes on, or a caller takes it.
LEMMA WorkerHolds ==
    ASSUME Worker!WorkerInv, NEW c \in Callers, v5[c].pc \in Worker!Busy \cup {"queued"},
           v4 = c \/ (v4 = "none" /\ v7 # "closed"), v4' = c, v7' = v7,
           v1' \in Worker!Workers, v1'.pid <= v3',
           \/ v3' = v3 /\ v2' \subseteq v2
           \/ v3' = v3 + 1 /\ v2' \subseteq v2 \cup {v3 + 1},
           v5' \in [Callers -> Worker!Jobs], \A d \in Callers \ {c} : v5'[d] = v5[d],
           v5'[c].pc \in Worker!Busy, v5'[c].victim <= v3',
           Worker!Fits(v5'[c], v1', v2'), v2' \subseteq {v1'.pid, v5'[c].victim}
    PROVE  Worker!WorkerInv'
<1>1. /\ v7 \notin {"stopping", "settling", "closed"} /\ v3 \in Nat /\ v2 \subseteq 1 .. v3
      /\ v4 \in {c, "none"}
      /\ \A d \in Callers \ {c} : v5[d].pc \notin Worker!Busy /\ v5[d].victim \notin v2
    BY WorkerKnown
<1>2. /\ \A d \in Callers : v5[d].victim \in Nat /\ v5[d].victim <= v3
      /\ v7 \in Closings
    BY DEF Worker!WorkerInv, Worker!TypeOK, Worker!Jobs, Closings
<1>3. Worker!TypeOK'
  <2>1. v3' \in Nat /\ v2' \subseteq 1 .. v3' /\ v7' \in Closings
    <3>1. CASE v3' = v3 /\ v2' \subseteq v2
        BY <1>1, <1>2, <3>1
    <3>2. CASE v3' = v3 + 1 /\ v2' \subseteq v2 \cup {v3 + 1}
      <4>1. v3 + 1 \in Nat /\ 1 .. v3 \subseteq 1 .. (v3 + 1) /\ v3 + 1 \in 1 .. (v3 + 1)
          BY <1>1
      <4> QED
          BY <1>1, <1>2, <3>2, <4>1
    <3> QED
        BY <3>1, <3>2
  <2>2. ASSUME NEW d \in Callers PROVE v5'[d].victim <= v3'
    <3>1. d # c => v5'[d].victim = v5[d].victim
        OBVIOUS
    <3> QED
        BY <1>1, <1>2, <3>1
  <2> QED
      BY <2>1, <2>2 DEF Worker!TypeOK, Closings
<1>4. \A d \in Callers : (v5'[d].pc \in Worker!Busy <=> v4' = d) /\ Worker!Fits(v5'[d], v1', v2')
  <2>1. ASSUME NEW d \in Callers \ {c} PROVE v5'[d].pc \notin Worker!Busy /\ v5'[d].victim \notin v2'
      BY <1>1, <1>2
  <2>2. ASSUME NEW d \in Callers \ {c} PROVE Worker!Fits(v5'[d], v1', v2')
      BY <2>1 DEF Worker!Fits, Worker!Busy
  <2> QED
      BY <2>1, <2>2
<1>5. Worker!Owned'
    BY <1>1 DEF Worker!Owned
<1> QED
    BY <1>1, <1>3, <1>4, <1>5, PlatformAssumption DEF Worker!WorkerInv

\* The holder gives the lock back, or a caller ends without it.
LEMMA WorkerLets ==
    ASSUME Worker!WorkerInv, NEW c \in Callers, v5[c].pc \in Worker!Busy \cup {"queued"},
           v4 \in {c, "none"}, v4' = "none", v7' = v7, v3' = v3,
           v1' \in Worker!Workers, v1'.pid <= v3, v1'.pid = 0 \/ v1'.pong # "none",
           v2' \subseteq v2, v2' \subseteq {v1'.pid},
           v5' \in [Callers -> Worker!Jobs], \A d \in Callers \ {c} : v5'[d] = v5[d],
           v5'[c].pc = "done", v5'[c].victim = 0
    PROVE  Worker!WorkerInv'
<1>1. /\ v7 \notin {"stopping", "settling"} /\ v3 \in Nat /\ v2 \subseteq 1 .. v3 /\ 0 \notin v2
      /\ \A d \in Callers \ {c} : v5[d].pc \notin Worker!Busy /\ v5[d].victim \notin v2
    BY WorkerKnown
<1>2. /\ \A d \in Callers : v5[d].victim \in Nat /\ v5[d].victim <= v3
      /\ v7 \in Closings
    BY DEF Worker!WorkerInv, Worker!TypeOK, Worker!Jobs, Closings
<1>3. Worker!TypeOK'
  <2>1. v3' \in Nat /\ v2' \subseteq 1 .. v3' /\ v7' \in Closings
      BY <1>1, <1>2
  <2>2. ASSUME NEW d \in Callers PROVE v5'[d].victim <= v3'
    <3>1. d # c => v5'[d].victim = v5[d].victim
        OBVIOUS
    <3> QED
        BY <1>1, <1>2, <3>1
  <2> QED
      BY <2>1, <2>2 DEF Worker!TypeOK, Closings
<1>4. \A d \in Callers : (v5'[d].pc \in Worker!Busy <=> v4' = d) /\ Worker!Fits(v5'[d], v1', v2')
  <2>1. ASSUME NEW d \in Callers PROVE v5'[d].pc \notin Worker!Busy /\ v5'[d].victim \notin v2'
      BY <1>1 DEF Worker!Busy
  <2>2. ASSUME NEW d \in Callers PROVE Worker!Fits(v5'[d], v1', v2')
      BY <2>1 DEF Worker!Fits, Worker!Busy
  <2> QED
      BY <2>1, <2>2, PlatformAssumption
<1>5. Worker!Owned'
    BY <1>1 DEF Worker!Owned, Worker!WorkerInv
<1>6. v7' = "closed" => \A d \in Callers : v5'[d].pc \notin Worker!Busy
    BY <1>1 DEF Worker!Busy
<1> QED
    BY <1>1, <1>3, <1>4, <1>5, <1>6, PlatformAssumption DEF Worker!WorkerInv

LEMMA NoWorkerIs ==
    /\ Worker!NoWorker \in Worker!Workers
    /\ Worker!NoWorker.pid = 0 /\ Worker!NoWorker.pong = "none" /\ Worker!NoWorker.jobs = 0
BY DEF Worker!NoWorker, Worker!Workers

\* A job that ends keeps nothing of the processes.
LEMMA WorkerEnded ==
    ASSUME v5 \in [Callers -> Worker!Jobs], NEW c \in Callers,
           NEW got \in {"result", "unavailable", "job_error", "too_large", "cancelled"},
           v5' = [v5 EXCEPT ![c] = Worker!Ended(c, got)]
    PROVE  /\ v5' \in [Callers -> Worker!Jobs] /\ \A d \in Callers \ {c} : v5'[d] = v5[d]
           /\ v5'[c].pc = "done" /\ v5'[c].victim = 0
<1> PICK r : r = Worker!Ended(c, got)
    OBVIOUS
<1>1. v5[c].op \in {"none", "extract", "structural"}
    BY DEF Worker!Jobs
<1>2. r = [pc |-> "done", op |-> v5[c].op, input |-> 0, attempt |-> 0, victim |-> 0,
           then |-> "none", got |-> got]
    BY DEF Worker!Ended, Worker!NoJob
<1>3. r \in Worker!Jobs /\ r.pc = "done" /\ r.victim = 0
    BY ONLY <1>1, <1>2, got \in {"result", "unavailable", "job_error", "too_large", "cancelled"}
       DEF Worker!Jobs, Worker!Thens, Worker!Busy
<1> QED
    BY <1>3

LEMMA WorkerTo ==
    ASSUME v5 \in [Callers -> Worker!Jobs], NEW c \in Callers,
           NEW pc \in {"spawn", "ping", "recycle", "send", "wait", "stopping"},
           v5' = [v5 EXCEPT ![c].pc = pc]
    PROVE  /\ v5' \in [Callers -> Worker!Jobs] /\ \A d \in Callers \ {c} : v5'[d] = v5[d]
           /\ v5'[c].pc = pc /\ v5'[c].victim = v5[c].victim
<1> PICK r : r = [v5[c] EXCEPT !.pc = pc]
    OBVIOUS
<1>1. r \in Worker!Jobs /\ r.pc = pc /\ r.victim = v5[c].victim
    BY DEF Worker!Jobs, Worker!Busy
<1> QED
    BY <1>1

\* A job waits for the end of a process.
LEMMA WorkerStops ==
    ASSUME v5 \in [Callers -> Worker!Jobs], NEW c \in Callers, NEW p \in Nat,
           NEW then \in Worker!Thens,
           v5' = [v5 EXCEPT ![c].pc = "stopping", ![c].victim = p, ![c].then = then]
    PROVE  /\ v5' \in [Callers -> Worker!Jobs] /\ \A d \in Callers \ {c} : v5'[d] = v5[d]
           /\ v5'[c].pc = "stopping" /\ v5'[c].victim = p
<1> PICK m : m = [v5 EXCEPT ![c].pc = "stopping"]
    OBVIOUS
<1>1. m \in [Callers -> Worker!Jobs] /\ m[c].pc = "stopping" /\ \A d \in Callers \ {c} : m[d] = v5[d]
    BY DEF Worker!Jobs, Worker!Busy
<1> PICK n : n = [m EXCEPT ![c].victim = p]
    OBVIOUS
<1>2. /\ n \in [Callers -> Worker!Jobs] /\ n[c].pc = "stopping" /\ n[c].victim = p
      /\ \A d \in Callers \ {c} : n[d] = v5[d]
    BY ONLY <1>1, n = [m EXCEPT ![c].victim = p], p \in Nat, c \in Callers DEF Worker!Jobs
<1>3. v5' = [n EXCEPT ![c].then = then]
    OBVIOUS
<1> QED
    BY ONLY <1>2, <1>3, c \in Callers, then \in Worker!Thens DEF Worker!Jobs

\* _ensure_worker: what the holder of the lock goes on with.
LEMMA WorkerEnsures ==
    ASSUME v5 \in [Callers -> Worker!Jobs], NEW c \in Callers, NEW j \in Worker!Jobs,
           v1 \in Worker!Workers, v1.pid = 0 \/ v1.pong # "none", v3 \in Nat, v1.pid <= v3, j.victim <= v3,
           NEW P, j.victim \notin P, 0 \notin P, P \subseteq {v1.pid},
           Worker!Ensure(c, j)
    PROVE  /\ v5' \in [Callers -> Worker!Jobs] /\ \A d \in Callers \ {c} : v5'[d] = v5[d]
           /\ v1' \in Worker!Workers /\ v1'.pid <= v3
           /\ v5'[c].pc \in Worker!Busy /\ v5'[c].victim <= v3
           /\ Worker!Fits(v5'[c], v1', P) /\ P \subseteq {v1'.pid, v5'[c].victim}
<1> PICK r : r = IF v1.pid = 0 THEN [j EXCEPT !.pc = "spawn"]
                 ELSE IF v1.exited
                 THEN [j EXCEPT !.pc = "stopping", !.victim = v1.pid, !.then = "spawn"]
                 ELSE [j EXCEPT !.pc = "recycle"]
    OBVIOUS
<1>1. v5' = [v5 EXCEPT ![c] = r] /\ v1' = IF v1.exited THEN Worker!NoWorker ELSE v1
    BY DEF Worker!Ensure
<1>2. v1.pid \in Nat /\ j.victim \in Nat
    BY DEF Worker!Workers, Worker!Jobs
<1>3. v1' \in Worker!Workers /\ v1'.pid \in {0, v1.pid}
    BY <1>1, NoWorkerIs
<1>4. /\ r \in Worker!Jobs
      /\ \/ v1.pid = 0 /\ r.pc = "spawn" /\ r.victim = j.victim
         \/ v1.pid # 0 /\ v1.exited /\ r.pc = "stopping" /\ r.victim = v1.pid
         \/ v1.pid # 0 /\ ~v1.exited /\ r.pc = "recycle" /\ r.victim = j.victim
  <2>1. CASE v1.pid = 0
      BY <2>1 DEF Worker!Jobs, Worker!Busy
  <2>2. CASE v1.pid # 0 /\ v1.exited
    <3> PICK m : m = [j EXCEPT !.pc = "stopping"]
        OBVIOUS
    <3>1. m \in Worker!Jobs /\ m.pc = "stopping"
        BY DEF Worker!Jobs, Worker!Busy
    <3> PICK n : n = [m EXCEPT !.victim = v1.pid]
        OBVIOUS
    <3>2. n \in Worker!Jobs /\ n.pc = "stopping" /\ n.victim = v1.pid
        BY <1>2, <3>1 DEF Worker!Jobs
    <3>3. r = [n EXCEPT !.then = "spawn"]
        BY <2>2
    <3>4. r \in Worker!Jobs /\ r.pc = "stopping" /\ r.victim = v1.pid
        BY ONLY <3>2, <3>3 DEF Worker!Jobs, Worker!Thens
    <3> QED
        BY <2>2, <3>4
  <2>3. CASE v1.pid # 0 /\ ~v1.exited
      BY <2>3 DEF Worker!Jobs, Worker!Busy
  <2> QED
      BY <2>1, <2>2, <2>3
<1>5. v5' \in [Callers -> Worker!Jobs] /\ v5'[c] = r /\ \A d \in Callers \ {c} : v5'[d] = v5[d]
    BY <1>1, <1>4
<1>6. v1'.pid <= v3 /\ r.pc \in Worker!Busy /\ r.victim <= v3
    BY <1>2, <1>3, <1>4 DEF Worker!Busy
<1>7. Worker!Fits(r, v1', P) /\ P \subseteq {v1'.pid, r.victim}
    BY <1>1, <1>4, NoWorkerIs DEF Worker!Fits
<1> QED
    BY <1>3, <1>5, <1>6, <1>7

\* A job that has no process yet.
NewJob(pc, op, input, attempt, got) ==
    [pc |-> pc, op |-> op, input |-> input, attempt |-> attempt, victim |-> 0,
     then |-> "none", got |-> got]

LEMMA NewJobIs ==
    ASSUME NEW op \in {"extract", "structural"}, NEW got \in {"result", "unavailable"},
           NEW x \in {1, 2}
    PROVE  /\ [Worker!NoJob EXCEPT !.pc = "done", !.op = op, !.got = got]
                  = NewJob("done", op, 0, 0, got)
           /\ [Worker!NoJob EXCEPT !.pc = "queued", !.op = op, !.input = x, !.attempt = 1]
                  = NewJob("queued", op, x, 1, "none")
           /\ [Worker!NoJob EXCEPT !.pc = "queued", !.op = op, !.attempt = 1]
                  = NewJob("queued", op, 0, 1, "none")
<1> PICK r : r = [Worker!NoJob EXCEPT !.pc = "done", !.op = op, !.got = got]
    OBVIOUS
<1> PICK s : s = [Worker!NoJob EXCEPT !.pc = "queued", !.op = op, !.input = x, !.attempt = 1]
    OBVIOUS
<1> PICK t : t = [Worker!NoJob EXCEPT !.pc = "queued", !.op = op, !.attempt = 1]
    OBVIOUS
<1>1. r = [pc |-> "done", op |-> op, input |-> 0, attempt |-> 0, victim |-> 0,
           then |-> "none", got |-> got]
    BY DEF Worker!NoJob
<1>2. s = [pc |-> "queued", op |-> op, input |-> x, attempt |-> 1, victim |-> 0,
           then |-> "none", got |-> "none"]
    BY DEF Worker!NoJob
<1>3. t = [pc |-> "queued", op |-> op, input |-> 0, attempt |-> 1, victim |-> 0,
           then |-> "none", got |-> "none"]
    BY DEF Worker!NoJob
<1> QED
    BY <1>1, <1>2, <1>3 DEF NewJob

\* Extract, Structural, Forget and the cancellation of a queued job: outside of the lock.
LEMMA WorkerAsks ==
    ASSUME Worker!WorkerInv, NEW c \in Callers,
           \/ \E x \in {1, 2} : Worker!Extract(c, x)
           \/ Worker!Structural(c) \/ Worker!Forget(c)
           \/ Worker!Cancel(c) /\ v5[c].pc = "queued"
    PROVE  Worker!WorkerInv'
<1>1. /\ UNCHANGED <<v1, v2, v3, v4, v7>> /\ v5[c].pc \in {"idle", "queued", "done"}
      /\ v5 \in [Callers -> Worker!Jobs]
    BY DEF Worker!Extract, Worker!Structural, Worker!Forget, Worker!Cancel,
           Worker!WorkerInv, Worker!TypeOK
<1>2. ASSUME NEW r \in Worker!Jobs, v5' = [v5 EXCEPT ![c] = r], r.victim = 0,
             r.pc \in {"idle", "queued", "done"}, r.pc = "queued" => v7 = "no"
      PROVE  Worker!WorkerInv'
  <2>1. /\ v5' \in [Callers -> Worker!Jobs] /\ v5'[c] = r
        /\ \A d \in Callers \ {c} : v5'[d] = v5[d]
      BY <1>1, <1>2
  <2> QED
      BY ONLY WorkerOutside, Worker!WorkerInv, c \in Callers, <1>1, <1>2, <2>1
<1>3. ASSUME NEW op \in {"extract", "structural"}, NEW input \in {0, 1, 2},
             NEW attempt \in {0, 1}, NEW got \in {"none", "unavailable", "result"},
             NEW pc \in {"queued", "done"}, pc = "queued" => v7 = "no",
             v5' = [v5 EXCEPT ![c] = NewJob(pc, op, input, attempt, got)]
      PROVE  Worker!WorkerInv'
  <2> PICK r : r = NewJob(pc, op, input, attempt, got)
      OBVIOUS
  <2>1. r \in Worker!Jobs /\ r.pc = pc /\ r.victim = 0
      BY DEF NewJob, Worker!Jobs, Worker!Thens
  <2> QED
      BY <1>2, <1>3, <2>1
<1>4. ASSUME NEW x \in {1, 2}, Worker!Extract(c, x) PROVE Worker!WorkerInv'
  <2>1. \/ v5' = [v5 EXCEPT ![c] = NewJob("done", "extract", 0, 0, "unavailable")]
        \/ v5' = [v5 EXCEPT ![c] = NewJob("done", "extract", 0, 0, "result")]
        \/ v7 = "no" /\ v5' = [v5 EXCEPT ![c] = NewJob("queued", "extract", x, 1, "none")]
      BY <1>4, NewJobIs DEF Worker!Extract, Worker!Closed
  <2> QED
      BY <1>3, <2>1
<1>5. ASSUME Worker!Structural(c) PROVE Worker!WorkerInv'
  <2>1. \/ v5' = [v5 EXCEPT ![c] = NewJob("done", "structural", 0, 0, "unavailable")]
        \/ v7 = "no" /\ v5' = [v5 EXCEPT ![c] = NewJob("queued", "structural", 0, 1, "none")]
      BY <1>5, NewJobIs DEF Worker!Structural, Worker!Closed
  <2> QED
      BY <1>3, <2>1
<1>6. ASSUME Worker!Forget(c) PROVE Worker!WorkerInv'
  <2>1. v5' = [v5 EXCEPT ![c] = Worker!NoJob]
      BY <1>6 DEF Worker!Forget
  <2>2. Worker!NoJob \in Worker!Jobs /\ Worker!NoJob.pc = "idle" /\ Worker!NoJob.victim = 0
      BY DEF Worker!NoJob, Worker!Jobs, Worker!Thens
  <2> QED
      BY <1>2, <2>1, <2>2
<1>7. ASSUME Worker!Cancel(c), v5[c].pc = "queued" PROVE Worker!WorkerInv'
  <2>1. v5' = [v5 EXCEPT ![c] = Worker!Ended(c, "cancelled")]
      BY <1>7 DEF Worker!Cancel
  <2>2. /\ v5' \in [Callers -> Worker!Jobs] /\ \A d \in Callers \ {c} : v5'[d] = v5[d]
        /\ v5'[c].pc = "done" /\ v5'[c].victim = 0
      BY <1>1, <2>1, WorkerEnded
  <2> QED
      BY <1>1, <2>2, WorkerOutside
<1> QED
    BY <1>4, <1>5, <1>6, <1>7

\* The process is gone; a retry starts another one, or the job ends.
LEMMA WorkerUnavailable ==
    ASSUME Worker!WorkerInv, NEW c \in Callers, v5[c].pc \in {"spawn", "send", "stopping"},
           v1.pid = 0, Worker!Unavailable(c), UNCHANGED <<v3, v7>>, v2' = {}
    PROVE  Worker!WorkerInv'
<1>1. v5[c].pc \in Worker!Busy \cup {"queued"} /\ v4 = c
    BY DEF Worker!WorkerInv, Worker!Busy
<1>2. /\ v5 \in [Callers -> Worker!Jobs] /\ v5[c] \in Worker!Jobs /\ v5[c].victim <= v3
      /\ v1 \in Worker!Workers /\ v1.pid <= v3 /\ v3 \in Nat
    BY <1>1, WorkerKnown DEF Worker!WorkerInv, Worker!TypeOK
<1>3. CASE v5[c].attempt = 1 /\ ~Worker!Closed
  <2> PICK j : j = [v5[c] EXCEPT !.attempt = 2, !.then = "none"]
      OBVIOUS
  <2> PICK P : P = {}
      OBVIOUS
  <2>1. Worker!Ensure(c, j) /\ v4' = v4
      BY <1>3 DEF Worker!Unavailable
  <2> PICK m : m = [v5[c] EXCEPT !.attempt = 2]
      OBVIOUS
  <2>2. m \in Worker!Jobs /\ m.victim = v5[c].victim
      BY <1>2 DEF Worker!Jobs
  <2>3. j = [m EXCEPT !.then = "none"]
      OBVIOUS
  <2>4. j \in Worker!Jobs /\ j.victim = v5[c].victim
      BY ONLY <2>2, <2>3 DEF Worker!Jobs, Worker!Thens
  <2>5. /\ v5' \in [Callers -> Worker!Jobs] /\ \A d \in Callers \ {c} : v5'[d] = v5[d]
        /\ v1' \in Worker!Workers /\ v1'.pid <= v3
        /\ v5'[c].pc \in Worker!Busy /\ v5'[c].victim <= v3
        /\ Worker!Fits(v5'[c], v1', P)
    <3>1. j.victim <= v3 /\ j.victim \notin P /\ 0 \notin P /\ P \subseteq {v1.pid}
        BY <1>2, <2>4
    <3> HIDE DEF Worker!Closed
    <3> QED
        BY ONLY <1>2, <2>1, <2>4, <3>1, v1.pid = 0, c \in Callers, WorkerEnsures
  <2> QED
      BY <1>1, <2>1, <2>5, WorkerHolds
<1>4. CASE ~(v5[c].attempt = 1 /\ ~Worker!Closed)
  <2>1. v4' = "none" /\ v5' = [v5 EXCEPT ![c] = Worker!Ended(c, "unavailable")] /\ v1' = v1
      BY <1>4 DEF Worker!Unavailable, Worker!Leave
  <2> QED
      BY <1>1, <1>2, <2>1, WorkerEnded, WorkerLets
<1> QED
    BY <1>3, <1>4

\* A caller gets the lock.
LEMMA WorkerBegin ==
    ASSUME Worker!WorkerInv, NEW c \in Callers, Worker!Begin(c)
    PROVE  Worker!WorkerInv'
<1>1. v5[c].pc \in Worker!Busy \cup {"queued"} /\ v4 = "none" /\ UNCHANGED <<v2, v3, v7>>
    BY DEF Worker!Begin
<1>2. /\ v3 \in Nat /\ 0 \notin v2 /\ v1 \in Worker!Workers /\ v1.pid <= v3
      /\ v5[c] \in Worker!Jobs /\ v5[c].victim <= v3 /\ v5[c].victim \notin v2
      /\ v2 \subseteq {v1.pid} /\ (v1.pid = 0 \/ v1.pong # "none")
    BY <1>1, WorkerKnown DEF Worker!Begin, Worker!Fits
<1>3. v5 \in [Callers -> Worker!Jobs]
    BY DEF Worker!WorkerInv, Worker!TypeOK
<1>4. CASE Worker!Closed
  <2>1. /\ v1' = v1 /\ v4' = "none"
        /\ v5' = [v5 EXCEPT ![c] = Worker!Ended(c, "unavailable")]
      BY <1>4 DEF Worker!Begin, Worker!Leave
  <2> QED
      BY <1>1, <1>2, <1>3, <2>1, WorkerEnded, WorkerLets
<1>5. CASE ~Worker!Closed
  <2> PICK P, j : P = v2 /\ j = v5[c]
      OBVIOUS
  <2>1. Worker!Ensure(c, j) /\ v4' = c
      BY <1>5 DEF Worker!Begin
  <2>2. /\ v5' \in [Callers -> Worker!Jobs] /\ \A d \in Callers \ {c} : v5'[d] = v5[d]
        /\ v1' \in Worker!Workers /\ v1'.pid <= v3
        /\ v5'[c].pc \in Worker!Busy /\ v5'[c].victim <= v3
        /\ Worker!Fits(v5'[c], v1', P) /\ P \subseteq {v1'.pid, v5'[c].victim}
    <3>1. /\ j \in Worker!Jobs /\ j.victim <= v3 /\ j.victim \notin P /\ 0 \notin P
          /\ P \subseteq {v1.pid}
        BY <1>2
    <3> QED
        BY ONLY <1>2, <1>3, <2>1, <3>1, c \in Callers, WorkerEnsures
  <2> QED
      BY <1>1, <1>5, <2>1, <2>2, WorkerHolds DEF Worker!Closed
<1> QED
    BY <1>4, <1>5

\* A process is being ended: it was the worker.
LEMMA WorkerReplace ==
    ASSUME Worker!WorkerInv, NEW c \in Callers, v5[c].pc \in {"ping", "recycle", "wait"},
           NEW then \in Worker!Thens, Worker!Replace(c, then), UNCHANGED <<v2, v3, v4, v7>>
    PROVE  Worker!WorkerInv'
<1>1. v5[c].pc \in Worker!Busy \cup {"queued"} /\ v4 = c
    BY DEF Worker!WorkerInv, Worker!Busy
<1>2. /\ v5 \in [Callers -> Worker!Jobs] /\ v1 \in Worker!Workers /\ v1.pid <= v3
      /\ v2 \subseteq {v1.pid} /\ 0 \notin v2 /\ v3 \in Nat
    BY <1>1, WorkerKnown DEF Worker!WorkerInv, Worker!TypeOK
<1> PICK p \in Nat : p = v1.pid
    BY <1>2 DEF Worker!Workers
<1>3. /\ v5' = [v5 EXCEPT ![c].pc = "stopping", ![c].victim = p, ![c].then = then]
      /\ v1' = Worker!NoWorker
    BY DEF Worker!Replace
<1>4. /\ v5' \in [Callers -> Worker!Jobs] /\ \A d \in Callers \ {c} : v5'[d] = v5[d]
      /\ v5'[c].pc = "stopping" /\ v5'[c].victim = p
    BY ONLY <1>2, <1>3, c \in Callers, p \in Nat, then \in Worker!Thens, WorkerStops
<1>5. Worker!Fits(v5'[c], v1', v2') /\ v2' \subseteq {v1'.pid, v5'[c].victim}
    BY <1>2, <1>3, <1>4, NoWorkerIs DEF Worker!Fits
<1>6. v1' \in Worker!Workers /\ v1'.pid <= v3' /\ v5'[c].pc \in Worker!Busy /\ v5'[c].victim <= v3'
    BY <1>2, <1>3, <1>4, NoWorkerIs DEF Worker!Busy
<1> QED
    BY <1>1, <1>4, <1>5, <1>6, WorkerHolds

\* The holder goes on to another step, without a change of the processes.
LEMMA WorkerGoesOn ==
    ASSUME Worker!WorkerInv, NEW c \in Callers, v5[c].pc \in Worker!Busy,
           NEW pc \in {"recycle", "send", "wait"}, v5' = [v5 EXCEPT ![c].pc = pc],
           UNCHANGED <<v3, v4, v7>>, v1' \in Worker!Workers, v1'.pid = v1.pid,
           v2' = v2 \ (IF v5[c].pc = "stopping" THEN {v5[c].victim} ELSE {}),
           pc = "recycle" => v1'.pid # 0 /\ v1'.pong # "none",
           pc = "send" => v1'.pid = 0 \/ Worker!Serves(v1'),
           pc = "wait" => Worker!Serves(v1')
    PROVE  Worker!WorkerInv'
<1>1. v5[c].pc \in Worker!Busy \cup {"queued"} /\ v4 = c
    BY DEF Worker!WorkerInv
<1>2. /\ v5 \in [Callers -> Worker!Jobs] /\ v1 \in Worker!Workers /\ v1.pid <= v3
      /\ v5[c].victim <= v3 /\ v5[c].victim \notin v2' /\ v2' \subseteq {v1.pid}
    BY <1>1, WorkerKnown DEF Worker!WorkerInv, Worker!TypeOK, Worker!Fits
<1>3. /\ v5' \in [Callers -> Worker!Jobs] /\ \A d \in Callers \ {c} : v5'[d] = v5[d]
      /\ v5'[c].pc = pc /\ v5'[c].victim = v5[c].victim
    BY ONLY <1>2, c \in Callers, pc \in {"recycle", "send", "wait"},
            v5' = [v5 EXCEPT ![c].pc = pc], WorkerTo
<1>4. Worker!Fits(v5'[c], v1', v2')
    BY <1>2, <1>3 DEF Worker!Fits
<1> QED
    BY <1>1, <1>2, <1>3, <1>4, WorkerHolds DEF Worker!Busy

\* The holder ends, and leaves a proven process or none.
LEMMA WorkerLeaves ==
    ASSUME Worker!WorkerInv, NEW c \in Callers, v5[c].pc \in Worker!Busy,
           NEW got \in {"result", "unavailable", "job_error", "too_large", "cancelled"}, Worker!Leave(c, got),
           UNCHANGED <<v3, v7>>, v1' \in Worker!Workers, v1'.pid = v1.pid,
           v1.pid = 0 \/ v1'.pong # "none",
           v2' = v2 \ (IF v5[c].pc = "stopping" THEN {v5[c].victim} ELSE {})
    PROVE  Worker!WorkerInv'
<1>1. v5[c].pc \in Worker!Busy \cup {"queued"} /\ v4 = c
    BY DEF Worker!WorkerInv
<1>2. /\ v5 \in [Callers -> Worker!Jobs] /\ v1 \in Worker!Workers /\ v1.pid <= v3
      /\ v2' \subseteq {v1.pid}
    BY <1>1, WorkerKnown DEF Worker!WorkerInv, Worker!TypeOK
<1>3. v4' = "none" /\ v5' = [v5 EXCEPT ![c] = Worker!Ended(c, got)]
    BY DEF Worker!Leave
<1>4. /\ v5' \in [Callers -> Worker!Jobs] /\ \A d \in Callers \ {c} : v5'[d] = v5[d]
      /\ v5'[c].pc = "done" /\ v5'[c].victim = 0
    BY ONLY <1>2, <1>3, c \in Callers, got \in {"result", "unavailable", "job_error", "too_large", "cancelled"},
            WorkerEnded
<1> QED
    BY <1>1, <1>2, <1>3, <1>4, WorkerLets

\* The start of a process and the proof of its identity.
LEMMA WorkerSpawn ==
    ASSUME Worker!WorkerInv, NEW c \in Callers,
           Worker!Spawned(c) \/ (v5[c].pc = "spawn" /\ Worker!Cancel(c))
    PROVE  Worker!WorkerInv'
<1>1. v5[c].pc = "spawn" /\ v5[c].pc \in Worker!Busy \cup {"queued"} /\ v4 = c
    BY DEF Worker!Spawned, Worker!WorkerInv, Worker!Busy
<1>2. /\ v5 \in [Callers -> Worker!Jobs] /\ v1 \in Worker!Workers /\ v1.pid = 0 /\ v2 = {}
      /\ v3 \in Nat /\ v5[c].victim \in Nat /\ v5[c].victim <= v3
    BY <1>1, WorkerKnown DEF Worker!WorkerInv, Worker!TypeOK, Worker!Fits, Worker!Jobs
<1>3. CASE Worker!Cancel(c) /\ Worker!Leave(c, "cancelled") /\ UNCHANGED <<v1, v2, v3>>
  <2>1. v7' = v7 /\ v2' = v2 \ (IF v5[c].pc = "stopping" THEN {v5[c].victim} ELSE {})
      BY <1>1, <1>3 DEF Worker!Cancel
  <2> QED
      BY <1>1, <1>2, <1>3, <2>1, WorkerLeaves
<1>4. CASE Worker!Spawned(c)
  <2>0. v3' = v3 + 1 /\ v2' = {v3 + 1} /\ UNCHANGED <<v4, v7>>
      BY <1>2, <1>4 DEF Worker!Spawned
  <2>1. v1' = [Worker!NoWorker EXCEPT !.pid = v3 + 1] /\ v5' = [v5 EXCEPT ![c].pc = "ping"]
      BY <1>4 DEF Worker!Spawned, Worker!To
  <2>2. v1' \in Worker!Workers /\ v1'.pid = v3 + 1 /\ v1'.jobs = 0
      BY <1>2, <2>1, NoWorkerIs DEF Worker!Workers
  <2>3. /\ v5' \in [Callers -> Worker!Jobs] /\ \A d \in Callers \ {c} : v5'[d] = v5[d]
        /\ v5'[c].pc = "ping" /\ v5'[c].victim = v5[c].victim
      BY <1>2, <2>1, WorkerTo
  <2>4. /\ Worker!Fits(v5'[c], v1', v2') /\ v2' \subseteq {v1'.pid, v5'[c].victim}
        /\ v1'.pid <= v3' /\ v5'[c].victim <= v3'
      BY <1>2, <2>0, <2>2, <2>3 DEF Worker!Fits
  <2> QED
      BY <1>1, <1>2, <2>0, <2>2, <2>3, <2>4, WorkerHolds DEF Worker!Busy
<1>5. CASE Worker!Cancel(c) /\ v3' = v3 + 1
  <2> PICK p \in Nat : p = v3 + 1
      BY <1>2
  <2>1. /\ v5' = [v5 EXCEPT ![c].pc = "stopping", ![c].victim = p, ![c].then = "cancelled"]
        /\ v1' = v1 /\ v2' = {v3 + 1} /\ UNCHANGED <<v4, v7>>
      BY <1>1, <1>2, <1>5 DEF Worker!Cancel, Worker!SpawnCancelled
  <2>2. /\ v5' \in [Callers -> Worker!Jobs] /\ \A d \in Callers \ {c} : v5'[d] = v5[d]
        /\ v5'[c].pc = "stopping" /\ v5'[c].victim = p
      BY <1>2, <2>1, WorkerStops DEF Worker!Thens
  <2>3. /\ Worker!Fits(v5'[c], v1', v2') /\ v2' \subseteq {v1'.pid, v5'[c].victim}
        /\ v1'.pid <= v3' /\ v5'[c].victim <= v3'
      BY <1>2, <1>5, <2>1, <2>2 DEF Worker!Fits
  <2> QED
      BY <1>1, <1>2, <1>5, <2>1, <2>2, <2>3, WorkerHolds DEF Worker!Busy
<1>6. Worker!Cancel(c) => v3' = v3 + 1 \/ (Worker!Leave(c, "cancelled") /\ UNCHANGED <<v1, v2, v3>>)
    BY <1>1 DEF Worker!Cancel, Worker!SpawnCancelled
<1> QED
    BY <1>3, <1>4, <1>5, <1>6

LEMMA WorkerPong ==
    ASSUME Worker!WorkerInv, NEW c \in Callers,
           \/ Worker!Pong(c) \/ Worker!PongError(c) \/ Worker!PongFails(c)
           \/ Worker!SpawnFails(c)
    PROVE  Worker!WorkerInv'
<1>1. /\ UNCHANGED <<v2, v3, v7>> /\ v5[c].pc \in {"ping", "spawn"}
      /\ v5[c].pc \in Worker!Busy /\ v4 = c
    BY DEF Worker!Pong, Worker!PongError, Worker!PongFails, Worker!SpawnFails, Worker!WorkerInv,
           Worker!Busy
<1>2. v1 \in Worker!Workers /\ Worker!Fits(v5[c], v1, v2)
    BY DEF Worker!WorkerInv, Worker!TypeOK
<1>3. v2' = v2 \ (IF v5[c].pc = "stopping" THEN {v5[c].victim} ELSE {})
    BY <1>1
<1>4. CASE Worker!Pong(c)
  <2>1. v1' \in Worker!Workers /\ v1'.pid = v1.pid /\ v1'.pong # "none" /\ v1'.jobs = v1.jobs
      BY <1>2, <1>4 DEF Worker!Pong, Worker!Workers
  <2>2. v1'.pid # 0 /\ Worker!Serves(v1')
      BY <1>2, <1>4, <2>1, PlatformAssumption DEF Worker!Pong, Worker!Fits, Worker!Serves
  <2>3. \/ \E pc \in {"recycle", "send"} : v5' = [v5 EXCEPT ![c].pc = pc] /\ v4' = v4
        \/ Worker!Leave(c, "result")
      BY <1>4 DEF Worker!Pong, Worker!To
  <2>4. ASSUME NEW pc \in {"recycle", "send"}, v5' = [v5 EXCEPT ![c].pc = pc], v4' = v4
        PROVE  Worker!WorkerInv'
      BY <1>1, <1>3, <2>1, <2>2, <2>4, WorkerGoesOn
  <2>5. Worker!Leave(c, "result") => Worker!WorkerInv'
      BY <1>1, <1>3, <2>1, WorkerLeaves
  <2> QED
      BY <2>3, <2>4, <2>5
<1>5. CASE Worker!PongFails(c)
  <2>1. PICK then \in Worker!Thens : Worker!Replace(c, then)
      BY <1>5 DEF Worker!PongFails, Worker!Thens
  <2> QED
      BY <1>1, <1>5, <2>1, WorkerReplace DEF Worker!PongFails
<1>6. CASE Worker!SpawnFails(c)
  <2>1. v5[c].pc = "spawn" /\ v1.pid = 0
      BY <1>2, <1>6 DEF Worker!SpawnFails, Worker!Fits
  <2>2. \/ v5' = [v5 EXCEPT ![c].pc = "send"] /\ UNCHANGED <<v1, v4>>
        \/ Worker!Leave(c, "result") /\ v1' = v1
        \/ Worker!Unavailable(c)
      BY <1>6 DEF Worker!SpawnFails, Worker!To
  <2>3. v5' = [v5 EXCEPT ![c].pc = "send"] /\ UNCHANGED <<v1, v4>> => Worker!WorkerInv'
      BY <1>1, <1>2, <1>3, <2>1, WorkerGoesOn
  <2>4. Worker!Leave(c, "result") /\ v1' = v1 => Worker!WorkerInv'
      BY <1>1, <1>2, <1>3, <2>1, WorkerLeaves
  <2>5. v2 = {}
      BY <1>1, <2>1, WorkerKnown
  <2> QED
      BY <1>1, <2>1, <2>2, <2>3, <2>4, <2>5, WorkerUnavailable
<1>7. CASE Worker!PongError(c)
  <2>1. v1' \in Worker!Workers /\ v1'.pid = v1.pid /\ v1'.pong # "none" /\ Worker!Leave(c, "job_error")
      BY <1>2, <1>7 DEF Worker!PongError, Worker!Workers
  <2> QED
      BY <1>1, <1>3, <2>1, WorkerLeaves
<1> QED
    BY <1>4, <1>5, <1>6, <1>7

\* The request, its answer, or none.
LEMMA WorkerServes ==
    ASSUME Worker!WorkerInv, NEW c \in Callers,
           \/ Worker!Recycle(c) \/ Worker!Send(c) \/ Worker!TooLarge(c) \/ Worker!JobError(c)
           \/ Worker!Lost(c)
           \/ \E heavy \in BOOLEAN : Worker!Answer(c, heavy)
           \/ v5[c].pc \in {"ping", "wait"} /\ Worker!Cancel(c)
    PROVE  Worker!WorkerInv'
<1>1. /\ UNCHANGED <<v2, v3, v7>> /\ v5[c].pc \in {"ping", "recycle", "send", "wait"}
      /\ v5[c].pc \in Worker!Busy /\ v4 = c
    BY DEF Worker!Recycle, Worker!Send, Worker!TooLarge, Worker!JobError, Worker!Lost, Worker!Answer,
           Worker!Cancel, Worker!WorkerInv, Worker!Busy
<1>2. v1 \in Worker!Workers /\ Worker!Fits(v5[c], v1, v2)
    BY DEF Worker!WorkerInv, Worker!TypeOK
<1>3. v2' = v2 \ (IF v5[c].pc = "stopping" THEN {v5[c].victim} ELSE {})
    BY <1>1
<1>4. ASSUME NEW then \in Worker!Thens, Worker!Replace(c, then), v4' = v4, v5[c].pc # "send"
      PROVE  Worker!WorkerInv'
    BY <1>1, <1>4, WorkerReplace
<1>5. CASE Worker!Recycle(c)
  <2>1. \/ Worker!Replace(c, "provision") /\ v4' = v4
        \/ /\ ~(v1.jobs >= MaxJobs) /\ v5' = [v5 EXCEPT ![c].pc = "send"]
           /\ UNCHANGED <<v1, v4>>
      BY <1>5 DEF Worker!Recycle, Worker!To
  <2>2. v5[c].pc = "recycle" /\ v1.pid # 0 /\ v1.pong # "none"
      BY <1>2, <1>5 DEF Worker!Recycle, Worker!Fits
  <2>3. ~(v1.jobs >= MaxJobs) => Worker!Serves(v1)
      BY <1>2, <2>2, PlatformAssumption DEF Worker!Serves, Worker!Workers
  <2>4. ASSUME ~(v1.jobs >= MaxJobs), v5' = [v5 EXCEPT ![c].pc = "send"], UNCHANGED <<v1, v4>>
        PROVE  Worker!WorkerInv'
      BY <1>1, <1>2, <1>3, <2>3, <2>4, WorkerGoesOn
  <2> QED
      BY <1>4, <2>1, <2>2, <2>4 DEF Worker!Thens
<1>6. CASE Worker!Send(c)
  <2>1. v5[c].pc = "send" /\ (v1.pid = 0 \/ Worker!Serves(v1))
      BY <1>2, <1>6 DEF Worker!Send, Worker!Fits
  <2>2. CASE v1.pid = 0
    <3>1. v2 = {}
        BY <1>1, <2>1, <2>2, WorkerKnown
    <3> QED
        BY <1>1, <1>6, <2>1, <2>2, <3>1, WorkerUnavailable DEF Worker!Send
  <2>3. CASE v1.pid # 0
    <3>1. v5' = [v5 EXCEPT ![c].pc = "wait"] /\ UNCHANGED <<v1, v4>>
        BY <1>6, <2>3 DEF Worker!Send, Worker!To
    <3> QED
        BY <1>1, <1>2, <1>3, <2>1, <2>3, <3>1, WorkerGoesOn
  <2> QED
      BY <2>2, <2>3
<1>7. CASE Worker!JobError(c) \/ Worker!TooLarge(c)
  <2>1. /\ v1' = v1 /\ v1.pong # "none"
        /\ Worker!Leave(c, "job_error") \/ Worker!Leave(c, "too_large")
      BY <1>2, <1>7 DEF Worker!JobError, Worker!TooLarge, Worker!Fits, Worker!Serves
  <2> QED
      BY <1>1, <1>2, <1>3, <2>1, WorkerLeaves
<1>8. ASSUME NEW heavy \in BOOLEAN, Worker!Answer(c, heavy) PROVE Worker!WorkerInv'
  <2>1. v5[c].pc = "wait" /\ v1.pong # "none"
      BY <1>2, <1>8 DEF Worker!Answer, Worker!Fits, Worker!Serves
  <2>2. CASE heavy
      BY <1>4, <1>8, <2>1, <2>2 DEF Worker!Answer, Worker!Thens
  <2>3. CASE ~heavy
    <3>1. v1' = [v1 EXCEPT !.jobs = v1.jobs + 1] /\ Worker!Leave(c, "result")
        BY <1>8, <2>3 DEF Worker!Answer
    <3>2. v1' \in Worker!Workers /\ v1'.pid = v1.pid /\ v1'.pong # "none"
        BY <1>2, <2>1, <3>1 DEF Worker!Workers
    <3> QED
        BY <1>1, <1>3, <3>1, <3>2, WorkerLeaves
  <2> QED
      BY <2>2, <2>3
<1>9. CASE Worker!Lost(c)
    BY <1>4, <1>9 DEF Worker!Lost, Worker!Thens
<1>10. CASE v5[c].pc \in {"ping", "wait"} /\ Worker!Cancel(c)
    BY <1>4, <1>10 DEF Worker!Cancel, Worker!Thens
<1> QED
    BY <1>5, <1>6, <1>7, <1>8, <1>9, <1>10

\* A process has been ended: what its end was waited for.
LEMMA WorkerStopped ==
    ASSUME Worker!WorkerInv, NEW c \in Callers, Worker!Stopped(c)
    PROVE  Worker!WorkerInv'
<1>1. /\ UNCHANGED <<v3, v7>> /\ v5[c].pc = "stopping" /\ v2' = v2 \ {v5[c].victim}
      /\ v5[c].pc \in Worker!Busy /\ v4 = c
    BY DEF Worker!Stopped, Worker!WorkerInv, Worker!Busy
<1>2. /\ v1 \in Worker!Workers /\ v1.pid = 0 /\ v2' = {} /\ v3 \in Nat /\ v1.pid <= v3
      /\ v5 \in [Callers -> Worker!Jobs]
    BY <1>1, WorkerKnown DEF Worker!WorkerInv, Worker!TypeOK, Worker!Fits
<1>3. v2' = v2 \ (IF v5[c].pc = "stopping" THEN {v5[c].victim} ELSE {})
    BY <1>1
<1>4. \/ \E got \in {"cancelled", "result"} : Worker!Leave(c, got) /\ v1' = v1
      \/ Worker!Unavailable(c)
      \/ v5' = [v5 EXCEPT ![c].pc = "send"] /\ UNCHANGED <<v1, v4>>
      \/ v5' = [v5 EXCEPT ![c].pc = "spawn", ![c].victim = 0] /\ UNCHANGED <<v1, v4>>
    BY DEF Worker!Stopped, Worker!To
<1>5. ASSUME NEW got \in {"cancelled", "result"}, Worker!Leave(c, got), v1' = v1
      PROVE  Worker!WorkerInv'
    BY <1>1, <1>2, <1>3, <1>5, WorkerLeaves
<1>6. CASE Worker!Unavailable(c)
    BY <1>1, <1>2, <1>6, WorkerUnavailable
<1>7. CASE v5' = [v5 EXCEPT ![c].pc = "send"] /\ UNCHANGED <<v1, v4>>
    BY <1>1, <1>2, <1>3, <1>7, WorkerGoesOn
<1>8. CASE v5' = [v5 EXCEPT ![c].pc = "spawn", ![c].victim = 0] /\ UNCHANGED <<v1, v4>>
  <2> PICK m : m = [v5 EXCEPT ![c].pc = "spawn"]
      OBVIOUS
  <2>1. m \in [Callers -> Worker!Jobs] /\ m[c].pc = "spawn" /\ \A d \in Callers \ {c} : m[d] = v5[d]
      BY <1>2 DEF Worker!Jobs, Worker!Busy
  <2>2. v5' = [m EXCEPT ![c].victim = 0]
      BY <1>8
  <2>3. /\ v5' \in [Callers -> Worker!Jobs] /\ \A d \in Callers \ {c} : v5'[d] = v5[d]
        /\ v5'[c].pc = "spawn" /\ v5'[c].victim = 0
      BY ONLY <2>1, <2>2, c \in Callers DEF Worker!Jobs
  <2>4. Worker!Fits(v5'[c], v1', v2') /\ v5'[c].victim <= v3'
      BY <1>1, <1>2, <1>8, <2>3 DEF Worker!Fits
  <2> QED
      BY <1>1, <1>2, <1>8, <2>3, <2>4, WorkerHolds DEF Worker!Busy
<1> QED
    BY <1>4, <1>5, <1>6, <1>7, <1>8

\* A first cancellation while a process is being ended waits for its end, a second
\* one does not.
LEMMA WorkerCancelled ==
    ASSUME Worker!WorkerInv, NEW c \in Callers, Worker!Cancel(c), v5[c].pc = "stopping"
    PROVE  Worker!WorkerInv'
<1>1. v5[c].pc \in Worker!Busy /\ v4 = c /\ v7' = v7 /\ UNCHANGED <<v1, v3>>
    BY DEF Worker!Cancel, Worker!WorkerInv, Worker!Busy
<1>2. /\ v5 \in [Callers -> Worker!Jobs] /\ v1 \in Worker!Workers /\ v1.pid = 0 /\ v1.pid <= v3
      /\ v5[c].victim <= v3 /\ Worker!Fits(v5[c], v1, v2) /\ v2 \subseteq {v5[c].victim}
    BY <1>1, WorkerKnown DEF Worker!WorkerInv, Worker!TypeOK, Worker!Fits
<1>3. CASE v5[c].then # "settling"
  <2>1. v5' = [v5 EXCEPT ![c].then = "settling"] /\ UNCHANGED <<v2, v4>>
      BY <1>3 DEF Worker!Cancel
  <2>2. /\ v5' \in [Callers -> Worker!Jobs] /\ \A d \in Callers \ {c} : v5'[d] = v5[d]
        /\ v5'[c].pc = "stopping" /\ v5'[c].victim = v5[c].victim
      BY <1>2, <2>1 DEF Worker!Jobs, Worker!Thens
  <2>3. Worker!Fits(v5'[c], v1', v2')
      BY <1>1, <1>2, <2>1, <2>2 DEF Worker!Fits
  <2> QED
      BY <1>1, <1>2, <2>1, <2>2, <2>3, WorkerHolds
<1>4. CASE v5[c].then = "settling"
  <2>1. Worker!Leave(c, "cancelled") /\ v2' = v2 \ {v5[c].victim}
      BY <1>4 DEF Worker!Cancel, Worker!CutOff
  <2>2. v2' = v2 \ (IF v5[c].pc = "stopping" THEN {v5[c].victim} ELSE {})
      BY <2>1
  <2> QED
      BY <1>1, <1>2, <2>1, <2>2, WorkerLeaves
<1> QED
    BY <1>3, <1>4

\* The process exits by itself, or one that was left behind does.
LEMMA WorkerExits ==
    ASSUME Worker!WorkerInv, Worker!Exit \/ \E p \in v9 : Worker!StrayExits(p)
    PROVE  Worker!WorkerInv'
<1> USE DEF Worker!WorkerInv
<1>1. CASE Worker!Exit
  <2>1. /\ v1' = [v1 EXCEPT !.exited = TRUE] /\ v2' = v2 \ {v1.pid}
        /\ UNCHANGED <<v3, v4, v5, v7>>
      BY <1>1 DEF Worker!Exit
  <2>2. /\ v1' \in Worker!Workers /\ v1'.pid = v1.pid /\ v1'.jobs = v1.jobs
        /\ v1'.pong = v1.pong
      BY <2>1 DEF Worker!TypeOK, Worker!Workers
  <2>3. Worker!TypeOK'
      BY <2>1, <2>2 DEF Worker!TypeOK
  <2>4. \A c \in Callers : (v5'[c].pc \in Worker!Busy <=> v4' = c) /\ Worker!Fits(v5'[c], v1', v2')
      BY <2>1, <2>2 DEF Worker!Fits, Worker!Serves
  <2>5. Worker!Owned'
      BY <2>1, <2>2 DEF Worker!Owned
  <2> QED
      BY <2>1, <2>2, <2>3, <2>4, <2>5
<1>2. CASE \E p \in v9 : Worker!StrayExits(p)
  <2>1. UNCHANGED <<v1, v2, v3, v4, v5, v7>>
      BY <1>2 DEF Worker!StrayExits
  <2> QED
      BY <2>1 DEF Worker!TypeOK, Worker!Owned
<1> QED
    BY <1>1, <1>2

\* aclose goes on or is cancelled, and its end leaves no process.
LEMMA WorkerCloses ==
    ASSUME Worker!WorkerInv,
           \/ Worker!CloseBegins \/ Worker!CloseDrained \/ Worker!CloseEnds
           \/ Worker!CloseCancelled
    PROVE  Worker!WorkerInv'
<1> USE DEF Worker!WorkerInv
<1>1. CASE /\ v7 \in Closings \ {"stopping", "settling", "closed"}
           /\ v7' \in Closings \ {"stopping", "settling", "closed"}
           /\ UNCHANGED <<v1, v2, v3, v4, v5>>
  <2>1. Worker!TypeOK' /\ Worker!Owned'
      BY <1>1 DEF Worker!TypeOK, Worker!Owned, Closings
  <2> QED
      BY <1>1, <2>1
<1>2. CASE Worker!CloseDrained
  <2>1. /\ v7 \in {"draining", "again"} /\ v7' = "stopping" /\ v4 = "none" /\ v4' = "close"
        /\ UNCHANGED <<v1, v2, v3, v5>>
      BY <1>2 DEF Worker!CloseDrained
  <2>2. Worker!TypeOK' /\ Worker!Owned'
      BY <2>1 DEF Worker!TypeOK, Worker!Owned
  <2>3. \A c \in Callers : v5'[c].pc \in Worker!Busy <=> v4' = c
      BY <2>1, PlatformAssumption
  <2> QED
      BY <2>1, <2>2, <2>3
<1>3. CASE v7 = "stopping" /\ v7' = "settling" /\ UNCHANGED <<v1, v2, v3, v4, v5>>
  <2>1. Worker!TypeOK' /\ Worker!Owned'
      BY <1>3 DEF Worker!TypeOK, Worker!Owned
  <2> QED
      BY <1>3, <2>1
<1>4. CASE /\ v7 \in {"stopping", "settling"} /\ v7' = "closed" /\ v4' = "none"
           /\ v1' = Worker!NoWorker /\ v2' = v2 \ {v1.pid} /\ UNCHANGED <<v3, v5>>
  <2>2. \A c \in Callers : v5[c].pc \notin Worker!Busy /\ v5[c].victim \notin v2
      BY <1>4, PlatformAssumption DEF Worker!Fits, Worker!Busy
  <2>3. v2' = {}
      BY <1>4, <2>2 DEF Worker!Owned
  <2>4. Worker!TypeOK' /\ Worker!Owned'
    <3>1. v3 \in Nat /\ v1' \in Worker!Workers /\ v1'.pid = 0 /\ v1'.pid <= v3
        BY <1>4, NoWorkerIs DEF Worker!TypeOK
    <3>2. Worker!TypeOK'
        BY <1>4, <2>3, <3>1 DEF Worker!TypeOK
    <3> QED
        BY <2>3, <3>2 DEF Worker!Owned
  <2>5. \A c \in Callers : (v5'[c].pc \in Worker!Busy <=> v4' = c) /\ Worker!Fits(v5'[c], v1', v2')
      BY <1>4, <2>2, <2>3, PlatformAssumption DEF Worker!Fits, Worker!Busy
  <2> QED
      BY <1>4, <2>2, <2>4, <2>5, NoWorkerIs
<1>5. Worker!CloseBegins \/ Worker!CloseEnds \/ Worker!CloseCancelled => Worker!WorkerInv'
  <2> HIDE DEF Worker!WorkerInv
  <2> QED
      BY <1>1, <1>3, <1>4 DEF Worker!CloseBegins, Worker!CloseEnds, Worker!CloseCancelled, Closings
<1> QED
    BY <1>2, <1>5

\* What is left behind was started, and is not what is started next.
LEMMA WorkerStrays ==
    ASSUME Worker!WorkerInv, Worker!StrayInv, [Worker!Next]_WorkerVars
    PROVE  Worker!StrayInv'
<1>1. v3 \in Nat /\ v2 \subseteq 1 .. v3 /\ v9 \subseteq 1 .. v3 /\ v1.pid \notin v9
    BY DEF Worker!WorkerInv, Worker!TypeOK, Worker!StrayInv
<1>2. 0 \notin v9 /\ v3 + 1 \notin v9 /\ 1 .. v3 \subseteq 1 .. (v3 + 1) /\ v3 + 1 \in Nat
    BY <1>1
<1>3. CASE v3' \in {v3, v3 + 1} /\ v9' \subseteq v9 /\ v1'.pid \in {0, v1.pid, v3 + 1}
    BY <1>1, <1>2, <1>3 DEF Worker!StrayInv
<1>4. CASE v3' = v3 /\ v9' \subseteq v9 \cup v2 /\ v1'.pid = 0
    BY <1>1, <1>2, <1>4 DEF Worker!StrayInv
<1>5. Worker!NoWorker.pid = 0
    BY NoWorkerIs
<1>6. CASE UNCHANGED WorkerVars
    BY <1>3, <1>6 DEF WorkerVars
<1>7. ASSUME NEW c \in Callers, Worker!Cancel(c) PROVE Worker!StrayInv'
  <2>1. CASE v5[c].pc = "stopping" /\ v5[c].then = "settling"
    <3>1. v1.pid = 0
        BY <2>1 DEF Worker!WorkerInv, Worker!Fits
    <3> QED
        BY <1>4, <1>7, <2>1, <3>1 DEF Worker!Cancel, Worker!CutOff
  <2>2. CASE ~(v5[c].pc = "stopping" /\ v5[c].then = "settling")
      BY <1>3, <1>5, <1>7, <2>2 DEF Worker!Cancel, Worker!SpawnCancelled, Worker!Replace
  <2> QED
      BY <2>1, <2>2
<1>8. ASSUME NEW c \in Callers,
             \/ \E x \in {1, 2} : Worker!Extract(c, x)
             \/ Worker!Structural(c) \/ Worker!Begin(c) \/ Worker!Spawned(c) \/ Worker!SpawnFails(c)
             \/ Worker!Pong(c) \/ Worker!PongError(c) \/ Worker!PongFails(c)
      PROVE  Worker!StrayInv'
  <2>1. v1 \in Worker!Workers
      BY DEF Worker!WorkerInv, Worker!TypeOK
  <2>2. [v1 EXCEPT !.pong = "identity"].pid = v1.pid /\ [v1 EXCEPT !.pong = "error"].pid = v1.pid
      BY <2>1 DEF Worker!Workers
  <2>3. [Worker!NoWorker EXCEPT !.pid = v3 + 1].pid = v3 + 1
      BY DEF Worker!NoWorker
  <2> HIDE DEF Worker!Closed
  <2> QED
      BY <1>3, <1>5, <1>8, <2>2, <2>3
      DEF Worker!Extract, Worker!Structural, Worker!Begin, Worker!Spawned, Worker!SpawnFails,
          Worker!Pong, Worker!PongError, Worker!PongFails, Worker!Unavailable, Worker!Leave,
          Worker!Ensure, Worker!Replace
<1>9. ASSUME NEW c \in Callers,
             \/ Worker!Recycle(c) \/ Worker!Send(c) \/ Worker!TooLarge(c) \/ Worker!JobError(c)
             \/ Worker!Lost(c) \/ Worker!Stopped(c) \/ Worker!Forget(c)
             \/ \E heavy \in BOOLEAN : Worker!Answer(c, heavy)
      PROVE  Worker!StrayInv'
  <2>1. v1 \in Worker!Workers
      BY DEF Worker!WorkerInv, Worker!TypeOK
  <2>2. [v1 EXCEPT !.jobs = v1.jobs + 1].pid = v1.pid
      BY <2>1 DEF Worker!Workers
  <2> HIDE DEF Worker!Closed
  <2>3. v3' = v3 /\ v9' = v9 /\ v1'.pid \in {0, v1.pid}
      BY <1>5, <1>9, <2>2
      DEF Worker!Recycle, Worker!Send, Worker!TooLarge, Worker!JobError, Worker!Lost, Worker!Stopped,
          Worker!Forget, Worker!Answer, Worker!Unavailable, Worker!Leave, Worker!Ensure, Worker!Replace
  <2> QED
      BY <1>3, <2>3
<1>10. ASSUME Worker!Exit PROVE Worker!StrayInv'
  <2>1. v1 \in Worker!Workers
      BY DEF Worker!WorkerInv, Worker!TypeOK
  <2>2. [v1 EXCEPT !.exited = TRUE].pid = v1.pid
      BY <2>1 DEF Worker!Workers
  <2> QED
      BY <1>3, <1>10, <2>2 DEF Worker!Exit
<1>11. ASSUME \/ \E p \in v9 : Worker!StrayExits(p)
              \/ Worker!CloseBegins \/ Worker!CloseDrained \/ Worker!CloseEnds
              \/ Worker!CloseCancelled
       PROVE  Worker!StrayInv'
    BY <1>3, <1>4, <1>5, <1>11
    DEF Worker!StrayExits, Worker!CloseBegins, Worker!CloseDrained, Worker!CloseEnds,
        Worker!CloseCancelled
<1>12. CASE Worker!Next
    BY <1>7, <1>8, <1>9, <1>10, <1>11, <1>12 DEF Worker!Next
<1> QED
    BY <1>6, <1>12

LEMMA WorkerStep ==
    ASSUME Worker!WorkerInv, [Worker!Next]_WorkerVars
    PROVE  Worker!WorkerInv'
<1>1. CASE UNCHANGED WorkerVars
    BY <1>1 DEF WorkerVars, Worker!WorkerInv, Worker!TypeOK, Worker!Owned
<1>2. ASSUME NEW c \in Callers, Worker!Cancel(c) PROVE Worker!WorkerInv'
  <2>1. v5[c].pc \in {"queued", "spawn", "ping", "wait", "stopping"}
      BY <1>2 DEF Worker!Cancel
  <2> QED
      BY <1>2, <2>1, WorkerAsks, WorkerSpawn, WorkerServes, WorkerCancelled
<1>3. CASE Worker!Next
    BY <1>2, <1>3, WorkerAsks, WorkerBegin, WorkerSpawn, WorkerPong, WorkerServes, WorkerStopped,
       WorkerExits, WorkerCloses DEF Worker!Next
<1> QED
    BY <1>1, <1>3

\* A job runs on the process its caller holds the lock of.
LEMMA WorkerObserved ==
    Worker!WorkerInv /\ Worker!StrayInv => Worker!ProcessesAreOwned /\ Worker!ServedByAnsweringWorker
BY DEF Worker!WorkerInv, Worker!StrayInv, Worker!Fits, Worker!Serves, Worker!Busy,
       Worker!ProcessesAreOwned, Worker!ServedByAnsweringWorker

----------------------------------------------------------------------------
(* Requests to the engine (structural/engines.py).                         *)

AskVars == <<v1, v2, v3, v4, v5, v6>>

LEMMA AskStart == Engine!Init => Engine!AskInv
BY DEF Engine!Init, Engine!NoAsk, Engine!AskInv, Engine!TypeOK, Engine!Asks, Engine!AnswerIsMine

\* A frame that is taken for the answer has the number of the request.
LEMMA AskStep ==
    ASSUME Engine!AskInv, [Engine!Next]_AskVars
    PROVE  Engine!AskInv'
<1> USE DEF Engine!AskInv, Engine!TypeOK, Engine!AnswerIsMine
<1>1. CASE UNCHANGED AskVars
    BY <1>1 DEF AskVars
<1>2. ASSUME NEW a \in Callers, NEW r \in Engine!Asks, r.got \in {0, r.id},
             v2' \in Nat, v6' = [v6 EXCEPT ![a] = r]
      PROVE  Engine!AskInv'
    BY <1>2
<1>3. CASE v2' = v2 /\ v6' = v6
    BY <1>3
<1> HIDE DEF Engine!AskInv
<1>4. Engine!Work \/ Engine!Exit => Engine!AskInv'
    BY <1>3 DEF Engine!Work, Engine!Exit
<1>5. ASSUME NEW a \in Callers
      PROVE  /\ v2 \in Nat /\ v6 \in [Callers -> Engine!Asks]
             /\ v6[a] \in Engine!Asks /\ v6[a].got \in {0, v6[a].id}
    BY DEF Engine!AskInv
<1>6. ASSUME NEW a \in Callers, NEW pc \in {"ping", "reading"}, Engine!Written(a, pc)
      PROVE  Engine!AskInv'
  <2> PICK r : r = [pc |-> pc, id |-> v2 + 1, got |-> 0]
      OBVIOUS
  <2>1. r \in Engine!Asks /\ r.got \in {0, r.id}
      BY <1>5 DEF Engine!Asks
  <2>2. v2' \in Nat /\ v6' = [v6 EXCEPT ![a] = r]
      BY <1>5, <1>6 DEF Engine!Written
  <2> QED
      BY <1>2, <2>1, <2>2
<1>7. ASSUME NEW a \in Callers, NEW pc \in {"idle", "done"}, v2' = v2,
             v6' = [v6 EXCEPT ![a] = [Engine!NoAsk EXCEPT !.pc = pc]]
      PROVE  Engine!AskInv'
  <2> DEFINE r == [Engine!NoAsk EXCEPT !.pc = pc]
  <2>1. r \in Engine!Asks /\ r.got \in {0, r.id}
      BY DEF Engine!NoAsk, Engine!Asks
  <2> QED
      BY <1>2, <1>5, <1>7, <2>1
<1>8. ASSUME NEW a \in Callers, Engine!Read(a)
      PROVE  Engine!AskInv'
  <2> USE DEF Engine!Read
  <2>1. CASE v6' = v6
      BY <1>3, <1>8, <2>1
  <2>2. CASE v6' = [v6 EXCEPT ![a].pc = "proven"]
    <3> DEFINE r == [v6[a] EXCEPT !.pc = "proven"]
    <3>1. r \in Engine!Asks /\ r.got \in {0, r.id}
        BY <1>5 DEF Engine!Asks
    <3>2. v6' = [v6 EXCEPT ![a] = r]
        BY <2>2
    <3> QED
        BY <1>2, <1>5, <1>8, <3>1, <3>2
  <2>3. CASE Head(v4) = v6[a].id /\ v6' = [v6 EXCEPT ![a].pc = "done", ![a].got = Head(v4)]
    <3> PICK r : r = [pc |-> "done", id |-> v6[a].id, got |-> v6[a].id]
        OBVIOUS
    <3>1. r \in Engine!Asks /\ r.got \in {0, r.id}
        BY <1>5 DEF Engine!Asks
    <3>2. v6' \in [Callers -> Engine!Asks] /\ \A b \in Callers \ {a} : v6'[b] = v6[b]
        BY <1>5, <2>3 DEF Engine!Asks
    <3>3. v6'[a].pc = "done" /\ v6'[a].id = v6[a].id /\ v6'[a].got = v6[a].id
        BY <1>5, <2>3 DEF Engine!Asks
    <3>4. v6'[a] = r
        BY <3>2, <3>3 DEF Engine!Asks
    <3> QED
        BY <1>5, <1>8, <3>1, <3>2, <3>4 DEF Engine!AskInv, Engine!TypeOK, Engine!AnswerIsMine
  <2> QED
      BY <1>8, <2>1, <2>2, <2>3
<1>9. ASSUME NEW a \in Callers,
             \/ Engine!Request(a) \/ Engine!StartFails(a) \/ Engine!Go(a) \/ Engine!Fails(a)
             \/ Engine!Eof(a) \/ Engine!Cancel(a) \/ Engine!Forget(a)
      PROVE  Engine!AskInv'
  <2>1. Engine!Request(a) \/ Engine!Go(a) => Engine!AskInv'
      BY <1>6 DEF Engine!Request, Engine!Go
  <2>2. Engine!StartFails(a) => Engine!AskInv'
      BY <1>3 DEF Engine!StartFails
  <2>3. Engine!Fails(a) \/ Engine!Eof(a) => Engine!AskInv'
      BY <1>7 DEF Engine!Fails, Engine!Eof
  <2>4. [Engine!NoAsk EXCEPT !.pc = "idle"] = Engine!NoAsk
      BY DEF Engine!NoAsk
  <2>5. Engine!Cancel(a) \/ Engine!Forget(a) => Engine!AskInv'
      BY <1>7, <2>4 DEF Engine!Cancel, Engine!Forget
  <2> QED
      BY <1>9, <2>1, <2>2, <2>3, <2>5
<1> QED
    BY <1>1, <1>4, <1>8, <1>9 DEF Engine!Next

----------------------------------------------------------------------------
(* What the machines of child processes have in common.                    *)

ChildInv ==
    /\ machine = "worker" => Worker!WorkerInv /\ Worker!StrayInv
    /\ machine = "engine" => Engine!AskInv
    /\ machine = "node" => Node!NodeInv
    /\ machine = "gateway" => Gateway!GatewayInv

LEMMA ChildrenStart == Init => ChildInv
BY WorkerStart, AskStart, NodeStart, GatewayStart DEF Init, ChildInv

LEMMA ChildrenStep == ChildInv /\ [Next]_vars => ChildInv'
<1> SUFFICES ASSUME ChildInv, [Next]_vars PROVE ChildInv'
    OBVIOUS
<1>1. machine' = machine
    BY DEF Next, vars
<1>2. machine = "worker" => Worker!WorkerInv' /\ Worker!StrayInv'
  <2> HAVE machine = "worker"
  <2>1. [Worker!Next]_WorkerVars
      BY DEF Next, vars, WorkerVars
  <2> QED
      BY <2>1, WorkerStep, WorkerStrays DEF ChildInv
<1>3. machine = "engine" => Engine!AskInv'
  <2> HAVE machine = "engine"
  <2>1. [Engine!Next]_AskVars
      BY DEF Next, vars, AskVars
  <2> QED
      BY <2>1, AskStep DEF ChildInv
<1>4. machine = "node" => Node!NodeInv'
  <2> HAVE machine = "node"
  <2>1. [Node!Next]_NodeVars
      BY DEF Next, vars, NodeVars
  <2> QED
      BY <2>1, NodeStep DEF ChildInv
<1>5. machine = "gateway" => Gateway!GatewayInv'
  <2> HAVE machine = "gateway"
  <2>1. [Gateway!Next]_GatewayVars
      BY DEF Next, vars, GatewayVars
  <2> QED
      BY <2>1, GatewayStep DEF ChildInv
<1> QED
    BY <1>1, <1>2, <1>3, <1>4, <1>5 DEF ChildInv

\* Whatever is cancelled, times out, exits or closes, and in any order: every child
\* process of the supervisor, of a Node.js runtime and of the gateway has somebody
\* who will end it, and none is left when its owner has closed; but for workers whose
\* termination was cut off by a second cancellation, which never serve again.
THEOREM ChildrenHaveOwners == Spec => []ProcessesAreOwned
<1>1. ChildInv => ProcessesAreOwned
    BY WorkerObserved, GatewayObserved DEF ChildInv, ProcessesAreOwned, Node!NodeInv, Node!ChildFits
<1> QED
    BY <1>1, ChildrenStart, ChildrenStep, PTL DEF Spec

\* Whatever is left on a pipe, comes late, twice or unasked: nobody is given the
\* answer to another request, and jobs run on a process that has answered its ping.
THEOREM AnswersBelong == Spec => []AnswersAreOwn
<1>1. ChildInv => AnswersAreOwn
    BY WorkerObserved DEF ChildInv, AnswersAreOwn, Engine!AskInv, Node!NodeInv, Node!CallersFit
<1> QED
    BY <1>1, ChildrenStart, ChildrenStep, PTL DEF Spec

\* Any backends, rounds, failures and secrets: "degraded" is a backend that once
\* answered, "down" one that never did, and a digest is of an answer.
THEOREM HealthIsTold == Spec => []HealthIsHonest
<1>1. ChildInv => HealthIsHonest
    BY GatewayObserved DEF ChildInv, HealthIsHonest
<1> QED
    BY <1>1, ChildrenStart, ChildrenStep, PTL DEF Spec

----------------------------------------------------------------------------
(* Least numbers, and sequences of which something is removed.             *)

\* A set of numbers that is not empty has a least one.
LEMMA LeastNumber ==
    ASSUME NEW T, T \subseteq Nat, T # {}
    PROVE  \E n \in T : \A m \in T : n <= m
<1> DEFINE R == {ss \in Nat \X Nat : ss[1] < ss[2]}
<1>1. IsWellFoundedOn(R, Nat)
    BY NatLessThanWellFounded DEF OpToRel
<1>2. \A x, y \in Nat : y < x => <<y, x>> \in R
    OBVIOUS
<1> HIDE DEF R
<1>3. PICK n \in T : \A m \in T : ~ (<<m, n>> \in R)
    BY <1>1, WFMin
<1>4. \A m \in T : n <= m
  <2> TAKE m \in T
  <2>1. m \in Nat /\ n \in Nat
      OBVIOUS
  <2>2. ~ (m < n)
      BY <1>2, <1>3, <2>1
  <2> QED
      BY <2>1, <2>2
<1> QED
    BY <1>4

\* What a sequence holds.
Held(table) == {table[i] : i \in DOMAIN table}

\* The first n elements of a sequence are dropped.
LEMMA FirstDropped ==
    ASSUME NEW S, NEW s \in Seq(S), NEW n \in 0 .. Len(s), NEW d, d = SubSeq(s, n + 1, Len(s))
    PROVE  /\ d \in Seq(S) /\ Len(d) = Len(s) - n
           /\ \A i \in 1 .. (Len(s) - n) : i + n \in 1 .. Len(s) /\ d[i] = s[i + n]
<1>1. PICK m \in Nat : m = Len(s) /\ n \in Nat /\ n <= m
    OBVIOUS
<1>2. /\ d \in Seq(S) /\ Len(d) = m - (n + 1) + 1
      /\ \A i \in 1 .. (m - (n + 1) + 1) : d[i] = s[i + (n + 1) - 1]
    BY <1>1
<1>3. m - (n + 1) + 1 = m - n /\ \A i \in 1 .. (m - n) : i + (n + 1) - 1 = i + n /\ i + n \in 1 .. m
    BY <1>1
<1> QED
    BY <1>1, <1>2, <1>3

\* One element of a sequence is removed: Skip maps the places of what is left.
Skip(k, i) == IF i < k THEN i ELSE i + 1
LeaveOut(s, k) == SubSeq(s, 1, k - 1) \o SubSeq(s, k + 1, Len(s))

IsWithout(d, s, k) ==
    /\ \A i \in 1 .. (Len(s) - 1) : Skip(k, i) \in 1 .. Len(s) /\ Skip(k, i) # k /\ d[i] = s[Skip(k, i)]
    /\ \A i, j \in 1 .. (Len(s) - 1) : Skip(k, i) = Skip(k, j) => i = j
    /\ \A j \in 1 .. Len(s) : j # k => \E i \in 1 .. (Len(s) - 1) : Skip(k, i) = j

LEMMA OneRemoved ==
    ASSUME NEW S, NEW s \in Seq(S), NEW k \in 1 .. Len(s)
    PROVE  /\ LeaveOut(s, k) \in Seq(S) /\ Len(LeaveOut(s, k)) = Len(s) - 1
           /\ IsWithout(LeaveOut(s, k), s, k)
<1>1. PICK n \in Nat : n = Len(s) /\ k \in 1 .. n
    OBVIOUS
<1> DEFINE d == LeaveOut(s, k)
           a == SubSeq(s, 1, k - 1)
           b == SubSeq(s, k + 1, n)
<1>2. a \in Seq(S) /\ Len(a) = k - 1 /\ \A i \in 1 .. (k - 1) : a[i] = s[i]
    BY <1>1
<1>3. b \in Seq(S) /\ Len(b) = n - k /\ \A i \in 1 .. (n - k) : b[i] = s[i + k]
  <2>1. k \in 0 .. Len(s) /\ b = SubSeq(s, k + 1, Len(s))
      BY <1>1
  <2> HIDE DEF b
  <2>2. /\ b \in Seq(S) /\ Len(b) = Len(s) - k
        /\ \A i \in 1 .. (Len(s) - k) : i + k \in 1 .. Len(s) /\ b[i] = s[i + k]
      BY ONLY <2>1, s \in Seq(S), FirstDropped
  <2> QED
      BY <1>1, <2>2
<1>4. d = a \o b
    BY <1>1 DEF LeaveOut
<1> HIDE DEF a, b, d
<1>5. d \in Seq(S) /\ Len(d) = n - 1
  <2>1. d \in Seq(S) /\ Len(d) = Len(a) + Len(b)
      BY ONLY <1>2, <1>3, <1>4, ConcatProperties
  <2>2. (k - 1) + (n - k) = n - 1
      BY <1>1
  <2> QED
      BY <1>2, <1>3, <2>1, <2>2
<1>6. \A i \in 1 .. (n - 1) : Skip(k, i) \in 1 .. n /\ Skip(k, i) # k
    BY <1>1 DEF Skip
<1>7. ASSUME NEW i \in 1 .. (n - 1) PROVE d[i] = s[Skip(k, i)]
  <2>1. CASE i < k
    <3>1. i \in 1 .. (k - 1) /\ i \in 1 .. Len(a) + Len(b) /\ i <= Len(a)
        BY <1>1, <1>2, <1>3, <2>1
    <3>2. d[i] = a[i]
        BY ONLY <1>2, <1>3, <1>4, <3>1, ConcatProperties
    <3> QED
        BY <1>2, <2>1, <3>1, <3>2 DEF Skip
  <2>2. CASE ~(i < k)
    <3>1. i \in 1 .. Len(a) + Len(b) /\ ~(i <= Len(a)) /\ i - Len(a) \in 1 .. (n - k) /\ (i - Len(a)) + k = i + 1
        BY <1>1, <1>2, <1>3, <2>2
    <3>2. d[i] = b[i - Len(a)]
        BY ONLY <1>2, <1>3, <1>4, <3>1, ConcatProperties
    <3>3. b[i - Len(a)] = s[(i - Len(a)) + k]
        BY <1>3, <3>1
    <3> QED
        BY <2>2, <3>1, <3>2, <3>3 DEF Skip
  <2> QED
      BY <2>1, <2>2
<1>8. \A i, j \in 1 .. (n - 1) : Skip(k, i) = Skip(k, j) => i = j
    BY <1>1 DEF Skip
<1>9. ASSUME NEW j \in 1 .. n, j # k PROVE \E i \in 1 .. (n - 1) : Skip(k, i) = j
  <2>1. CASE j < k
    <3>1. j \in 1 .. (n - 1) /\ Skip(k, j) = j
        BY <1>1, <2>1 DEF Skip
    <3> QED
        BY <3>1
  <2>2. CASE ~(j < k)
    <3>1. j - 1 \in 1 .. (n - 1) /\ Skip(k, j - 1) = j
        BY <1>1, <1>9, <2>2 DEF Skip
    <3> QED
        BY <3>1
  <2> QED
      BY <2>1, <2>2
<1> QED
    BY <1>1, <1>5, <1>6, <1>7, <1>8, <1>9 DEF d, IsWithout


----------------------------------------------------------------------------
(* Paged reads of the catalog (analysis/service.py).                       *)

PagingVars == <<v1, v2, v3, v4, v5, v6>>

\* The loop of the binary search, round by round.
LEMMA SearchUnfolds ==
    ASSUME NEW offset, NEW most
    PROVE  \A n \in Nat : Paging!Rounds(offset, most)[n] =
              IF n = 0 THEN [low |-> 1, high |-> most, best |-> 0]
              ELSE Paging!Round(Paging!Rounds(offset, most)[n - 1], offset)
<1> DEFINE search == Paging!Rounds(offset, most)
           start == [low |-> 1, high |-> most, best |-> 0]
<1>1. NatInductiveDefHypothesis(search, start, LAMBDA v, n : Paging!Round(v, offset))
    BY DEF NatInductiveDefHypothesis, Paging!Rounds
<1>2. NatInductiveDefConclusion(search, start, LAMBDA v, n : Paging!Round(v, offset))
    BY <1>1, NatInductiveDef
<1> QED
    BY <1>2 DEF NatInductiveDefConclusion

\* The search never leaves 1 .. most: no round does, so there is no first one
\* that did.
LEMMA SearchStaysInside ==
    ASSUME NEW offset, NEW most \in Nat
    PROVE  Paging!Largest(offset, most) \in 0 .. most
<1> DEFINE search == Paging!Rounds(offset, most)
           Inside(s) == s \in [low : 1 .. (most + 1), high : 0 .. most, best : 0 .. most]
           out == {n \in Nat : ~Inside(search[n])}
<1>1. Inside(search[0])
  <2>1. search[0] = [low |-> 1, high |-> most, best |-> 0]
      BY SearchUnfolds
  <2>2. 1 \in 1 .. (most + 1) /\ most \in 0 .. most /\ 0 \in 0 .. most
      OBVIOUS
  <2> QED
      BY <2>1, <2>2
<1>2. ASSUME NEW s, Inside(s) PROVE Inside(Paging!Round(s, offset))
  <2> DEFINE middle == (s.low + s.high) \div 2
  <2>1. s.low \in Nat /\ s.high \in Nat /\ s.best \in 0 .. most
        /\ s.low \in 1 .. (most + 1) /\ s.high \in 0 .. most
      BY <1>2
  <2>2. s.low <= s.high =>
            /\ middle \in 1 .. most /\ middle + 1 \in 1 .. (most + 1) /\ middle - 1 \in 0 .. most
            /\ middle \in 0 .. most
      BY <2>1
  <2>3. ~(s.low > s.high) => s.low <= s.high
      BY <2>1
  <2> HIDE DEF middle
  <2>4. CASE s.low > s.high
      BY <1>2, <2>4 DEF Paging!Round
  <2>5. CASE ~(s.low > s.high) /\ Paging!Bytes(offset, middle) <= TargetBytes
    <3>1. Paging!Round(s, offset) = [low |-> middle + 1, high |-> s.high, best |-> middle]
        BY <2>5 DEF Paging!Round, middle
    <3> QED
        BY <2>1, <2>2, <2>3, <2>5, <3>1
  <2>6. CASE ~(s.low > s.high) /\ ~(Paging!Bytes(offset, middle) <= TargetBytes)
    <3>1. Paging!Round(s, offset) = [s EXCEPT !.high = middle - 1]
        BY <2>6 DEF Paging!Round, middle
    <3>2. middle - 1 \in 0 .. most
        BY <2>2, <2>3, <2>6
    <3> QED
        BY <1>2, <3>1, <3>2
  <2> QED
      BY <2>4, <2>5, <2>6
<1> HIDE DEF Inside
<1>3. out = {}
  <2> SUFFICES ASSUME out # {} PROVE FALSE
      OBVIOUS
  <2>1. PICK n \in out : \A m \in out : n <= m
      BY LeastNumber
  <2>2. n \in Nat /\ n # 0 /\ ~Inside(search[n])
      BY <1>1, <2>1
  <2>3. n - 1 \in Nat /\ ~(n <= n - 1)
      BY <2>2
  <2>4. Inside(search[n - 1])
      BY <2>1, <2>3
  <2>5. search[n] = Paging!Round(search[n - 1], offset)
      BY <2>2, SearchUnfolds
  <2> QED
      BY <1>2, <2>2, <2>4, <2>5
<1>4. Inside(search[most])
    BY <1>3
<1> QED
    BY <1>4 DEF Inside, Paging!Largest

\* A page makes progress as long as there are rows, and takes no more of them.
LEMMA CountsMakeProgress ==
    ASSUME Paging!TypeOK, NEW offset \in Nat, NEW tool
    PROVE  /\ Paging!Count(tool, offset) = None \/ Paging!Count(tool, offset) \in Nat
           /\ Paging!Count(tool, offset) # None =>
                IF offset < v1.total
                THEN Paging!Count(tool, offset) >= 1 /\ offset + Paging!Count(tool, offset) <= v1.total
                ELSE Paging!Count(tool, offset) = 0
<1> DEFINE all == Paging!Available(offset)
<1>1. v1.total \in Nat /\ Limit \in Nat /\ Limit >= 1
    BY PagingAssumption DEF Paging!TypeOK
<1>2. /\ all \in Nat
      /\ offset < v1.total => all >= 1 /\ offset + all <= v1.total
      /\ ~(offset < v1.total) => all = 0
    BY <1>1 DEF Paging!Available
<1>3. None # 0 /\ None \notin Nat
    BY PlatformAssumption
<1> HIDE DEF all
<1>4. all # 0 => all - 1 \in Nat
    BY <1>2
<1>5. all # 0 => Paging!Largest(offset, all - 1) \in 0 .. (all - 1)
    BY <1>4, SearchStaysInside
<1>6. Paging!OwnershipCount(offset) = None
      \/ /\ Paging!OwnershipCount(offset) \in 0 .. all
         /\ Paging!OwnershipCount(offset) = 0 => all = 0
  <2>1. CASE all = 0
      BY <2>1 DEF Paging!OwnershipCount, all
  <2>2. CASE all # 0
    <3>1. PICK best \in 0 .. (all - 1) : best = Paging!Largest(offset, all - 1)
        BY <1>5, <2>2
    <3>2. all \in 0 .. all /\ best \in 0 .. all /\ 1 \in 0 .. all
        BY <1>2, <2>2
    <3>3. Paging!OwnershipCount(offset) \in {all, best, 1, None}
          /\ (Paging!OwnershipCount(offset) = best => best > 0 \/ Paging!OwnershipCount(offset) \in {all, 1, None})
        BY <2>2, <3>1 DEF Paging!OwnershipCount, all
    <3> QED
        BY <1>3, <2>2, <3>2, <3>3
  <2> QED
      BY <2>1, <2>2
<1>7. Paging!Count(tool, offset) \in {Paging!OwnershipCount(offset), all}
    BY DEF Paging!Count, all
<1> QED
    BY <1>1, <1>2, <1>3, <1>6, <1>7

\* A cursor table, by what it holds.
Table(table) == table \in Seq(Paging!Entries) /\ Paging!Distinct(table)

\* Entries are dropped from the front.
LEMMA TableFrom ==
    ASSUME NEW table, Table(table), NEW m \in 1 .. (Len(table) + 1)
    PROVE  /\ Table(SubSeq(table, m, Len(table)))
           /\ Held(SubSeq(table, m, Len(table))) \subseteq Held(table)
<1> DEFINE d == SubSeq(table, m, Len(table))
<1>1. PICK n \in Nat : n = Len(table) /\ DOMAIN table = 1 .. n /\ \A i \in 1 .. n : table[i] \in Paging!Entries
    BY DEF Table
<1>2. /\ DOMAIN d = 1 .. (n - m + 1) /\ d \in Seq(Paging!Entries)
      /\ \A i \in 1 .. (n - m + 1) : d[i] = table[i + m - 1]
    BY <1>1 DEF Table
<1>3. \A i \in 1 .. (n - m + 1) : i + m - 1 \in 1 .. n
    BY <1>1
<1> HIDE DEF d
<1>4. Held(d) \subseteq Held(table)
    BY <1>1, <1>2, <1>3 DEF Held
<1>5. Paging!Distinct(d)
  <2> SUFFICES ASSUME NEW i \in 1 .. (n - m + 1), NEW j \in 1 .. (n - m + 1), d[i].token = d[j].token
               PROVE  i = j
      BY <1>2 DEF Paging!Distinct
  <2>1. PICK a \in 1 .. n, b \in 1 .. n : a = i + m - 1 /\ b = j + m - 1
      BY <1>3
  <2>2. d[i] = table[a] /\ d[j] = table[b]
      BY <1>2, <2>1
  <2>3. a = b
      BY <1>1, <2>2 DEF Table, Paging!Distinct
  <2> QED
      BY <1>1, <2>1, <2>3
<1> QED
    BY <1>2, <1>4, <1>5 DEF Table, d

\* The entry of a token is dropped, the others stay.
LEMMA TableWithout ==
    ASSUME NEW table, Table(table), NEW token
    PROVE  /\ Table(Paging!Without(table, token))
           /\ \A e \in Held(Paging!Without(table, token)) : e \in Held(table) /\ e.token # token
<1>1. PICK n \in Nat : n = Len(table) /\ DOMAIN table = 1 .. n /\ \A i \in 1 .. n : table[i] \in Paging!Entries
    BY DEF Table
<1>2. CASE Paging!Places(table, token) = {}
  <2>1. Paging!Without(table, token) = table
      BY <1>2 DEF Paging!Without
  <2>2. \A i \in DOMAIN table : table[i].token # token
      BY <1>2 DEF Paging!Places
  <2> QED
      BY <2>1, <2>2 DEF Held
<1>3. CASE Paging!Places(table, token) # {}
  <2>1. PICK k \in 1 .. n : /\ Paging!Without(table, token) = Paging!RemoveAt(table, k)
                            /\ table[k].token = token
      BY <1>1, <1>3 DEF Paging!Without, Paging!Places
  <2> DEFINE d == Paging!Without(table, token)
  <2>2. d = LeaveOut(table, k)
      BY <2>1 DEF Paging!RemoveAt, LeaveOut
  <2> HIDE DEF d
  <2>3. d \in Seq(Paging!Entries) /\ Len(d) = n - 1 /\ IsWithout(d, table, k)
    <3>1. table \in Seq(Paging!Entries) /\ k \in 1 .. Len(table)
        BY <1>1 DEF Table
    <3>2. LeaveOut(table, k) \in Seq(Paging!Entries) /\ Len(LeaveOut(table, k)) = Len(table) - 1
          /\ IsWithout(LeaveOut(table, k), table, k)
        BY ONLY <3>1, OneRemoved
    <3> QED
        BY <1>1, <2>2, <3>2
  <2>4. DOMAIN d = 1 .. (n - 1)
      BY <1>1, <2>3
  <2>5. /\ \A i \in 1 .. (n - 1) : Skip(k, i) \in 1 .. n /\ Skip(k, i) # k /\ d[i] = table[Skip(k, i)]
        /\ \A i, j \in 1 .. (n - 1) : Skip(k, i) = Skip(k, j) => i = j
      BY <1>1, <2>3 DEF IsWithout
  <2>6. Paging!Distinct(d)
      BY <1>1, <2>4, <2>5 DEF Table, Paging!Distinct
  <2>7. \A i \in 1 .. (n - 1) : table[Skip(k, i)].token # token
      BY <1>1, <2>1, <2>5 DEF Table, Paging!Distinct
  <2> QED
      BY <1>1, <2>3, <2>4, <2>5, <2>6, <2>7 DEF Table, Held, d
<1> QED
    BY <1>2, <1>3

LEMMA TableSwept ==
    ASSUME NEW table, Table(table)
    PROVE  Table(Paging!Swept(table)) /\ Held(Paging!Swept(table)) \subseteq Held(table)
<1> DEFINE live == {i \in DOMAIN table : table[i].expires > v3}
<1>1. DOMAIN table = 1 .. Len(table) /\ Len(table) \in Nat
    BY DEF Table
<1>2. CASE live = {}
  <2>1. Paging!Swept(table) = <<>>
      BY <1>2 DEF Paging!Swept
  <2> QED
      BY <2>1 DEF Table, Held, Paging!Distinct
<1>3. CASE live # {}
  <2>0. live \subseteq Nat
      BY <1>1
  <2> HIDE DEF live
  <2>1. PICK m \in live : \A i \in live : m <= i
      BY <1>3, <2>0, LeastNumber
  <2>2. Paging!Min(live) \in live
      BY <2>1 DEF Paging!Min
  <2>3. Paging!Swept(table) = SubSeq(table, Paging!Min(live), Len(table))
      BY <1>3 DEF Paging!Swept, live
  <2>4. Paging!Min(live) \in 1 .. (Len(table) + 1)
      BY <1>1, <2>2 DEF live
  <2> QED
      BY <2>3, <2>4, TableFrom
<1> QED
    BY <1>2, <1>3

\* After encode the only entry of the token is the new one.
LEMMA TableEncoded ==
    ASSUME Paging!TypeOK, NEW table, Table(table), NEW token \in Paging!Tokens
    PROVE  /\ Table(Paging!Encoded(table, token))
           /\ \A e \in Held(Paging!Encoded(table, token)) :
                 IF e.token = token THEN e.revision = v1.revision ELSE e \in Held(table)
<1> DEFINE rest == Paging!Without(Paging!Swept(table), token)
           new == [token |-> token, expires |-> v3 + TtlTicks, revision |-> v1.revision]
           all == Append(rest, new)
           from == IF Len(all) > MaxStates THEN Len(all) - MaxStates + 1 ELSE 1
<1>1. /\ Table(rest)
      /\ \A e \in Held(rest) : e \in Held(table) /\ e.token # token
    BY TableSwept, TableWithout
<1>2. new \in Paging!Entries /\ new.token = token /\ new.revision = v1.revision
  <2>1. v3 + TtlTicks \in Nat /\ v1.revision \in Nat
      BY PagingAssumption DEF Paging!TypeOK
  <2> QED
      BY <2>1 DEF Paging!Entries
<1> HIDE DEF rest, new
<1>3. PICK n \in Nat : n = Len(rest) /\ DOMAIN rest = 1 .. n
    BY <1>1 DEF Table
<1>4. /\ all \in Seq(Paging!Entries) /\ Len(all) = n + 1 /\ DOMAIN all = 1 .. (n + 1) /\ all[n + 1] = new
      /\ \A i \in 1 .. n : all[i] = rest[i]
    BY <1>1, <1>2, <1>3 DEF Table
<1> HIDE DEF all
<1>5. \A i \in 1 .. n : rest[i].token # token
    BY <1>1, <1>3 DEF Held
<1>6. \A i \in 1 .. (n + 1) : i # n + 1 => i \in 1 .. n
    BY <1>3
<1>7. Paging!Distinct(all)
  <2> SUFFICES ASSUME NEW i \in 1 .. (n + 1), NEW j \in 1 .. (n + 1), all[i].token = all[j].token
               PROVE  i = j
      BY <1>4 DEF Paging!Distinct
  <2>1. CASE i # n + 1 /\ j # n + 1
      BY <1>1, <1>3, <1>4, <1>6, <2>1 DEF Table, Paging!Distinct
  <2>2. CASE i = n + 1 \/ j = n + 1
      BY <1>2, <1>4, <1>5, <1>6, <2>2
  <2> QED
      BY <2>1, <2>2
<1>8. Table(all)
    BY <1>4, <1>7 DEF Table
<1>9. from \in 1 .. (Len(all) + 1)
    BY <1>3, <1>4, PagingAssumption
<1> HIDE DEF from
<1>10. Paging!Encoded(table, token) = SubSeq(all, from, Len(all))
    BY DEF Paging!Encoded, all, rest, new, from
<1>11. Table(SubSeq(all, from, Len(all))) /\ Held(SubSeq(all, from, Len(all))) \subseteq Held(all)
    BY <1>8, <1>9, TableFrom
<1>12. \A e \in Held(all) : IF e.token = token THEN e.revision = v1.revision ELSE e \in Held(table)
  <2> SUFFICES ASSUME NEW i \in 1 .. (n + 1)
               PROVE  IF all[i].token = token THEN all[i].revision = v1.revision ELSE all[i] \in Held(table)
      BY <1>4 DEF Held
  <2>1. CASE i = n + 1
      BY <1>2, <1>4, <2>1
  <2>2. CASE i # n + 1
    <3>1. all[i] = rest[i] /\ rest[i] \in Held(rest)
        BY <1>3, <1>4, <1>6, <2>2 DEF Held
    <3> QED
        BY <1>1, <3>1
  <2> QED
      BY <2>1, <2>2
<1> QED
    BY <1>10, <1>11, <1>12

\* Walks that tile one publication.
Tiles(pages) ==
    \A i \in DOMAIN pages :
        /\ pages[i].revision = pages[1].revision
        /\ pages[i].from = IF i = 1 THEN 1 ELSE pages[i - 1].to + 1
        /\ i < Len(pages) => pages[i].to >= pages[i].from

LEMMA PagingStart == Paging!Init => Paging!PagingInv
<1> SUFFICES ASSUME Paging!Init PROVE Paging!PagingInv
    OBVIOUS
<1> USE DEF Paging!Init
<1>1. v1 \in [snapshot : Nat, revision : Nat, semantic : BOOLEAN, total : Nat]
  <2>1. PICK p \in Paging!Publications : v1 = p /\ p.snapshot = 1 /\ p.revision = 1
      OBVIOUS
  <2>2. p.total \in Nat /\ p.semantic \in BOOLEAN
      BY PagingAssumption DEF Paging!Publications
  <2> QED
      BY <2>1, <2>2 DEF Paging!Publications
<1>2. /\ Paging!Idle \in Paging!Walks /\ Paging!Idle.pages = <<>> /\ Paging!Idle.status = "idle"
    BY DEF Paging!Idle, Paging!Walks, Paging!Statuses
<1>3. v5 \in [Pagers -> Paging!Walks] /\ \A c \in Pagers : v5[c].pages = <<>> /\ v5[c].status = "idle"
    BY <1>2
<1>4. Paging!TypeOK
    BY <1>1, <1>3 DEF Paging!TypeOK, Paging!Distinct
<1> QED
    BY <1>3, <1>4 DEF Paging!PagingInv, Paging!PagesOfThePast, Paging!OpenWalks,
                      Paging!PagesTileOnePublication

\* A step after which no walk but that of c has changed: entries that are
\* bound to cursors of the others were there before.
LEMMA PagingMoves ==
    ASSUME Paging!PagingInv, NEW c \in Pagers, NEW walk \in Paging!Walks,
           v5' = [v5 EXCEPT ![c] = walk], Table(v2'), UNCHANGED <<v1, v3, v4>>,
           \A d \in Pagers \ {c} : v5[d].status = "open" =>
              \A e \in Held(v2') : e.token = v5[d].cursor => e \in Held(v2),
           \A i \in DOMAIN walk.pages :
              /\ walk.pages[i].revision <= v1.revision
              /\ walk.pages[i].revision = v1.revision => walk.pages[i].total = v1.total,
           walk.status = "open" =>
              /\ walk.pages # <<>> /\ walk.cursor \in Paging!Tokens
              /\ walk.cursor.digest = Query[c] /\ walk.cursor.offset = walk.pages[Len(walk.pages)].to
              /\ walk.pages[Len(walk.pages)].from <= walk.pages[Len(walk.pages)].to
              /\ walk.pages[Len(walk.pages)].to < walk.pages[1].total
              /\ \A e \in Held(v2') : e.token = walk.cursor => e.revision = walk.pages[1].revision,
           Tiles(walk.pages),
           walk.status = "complete" => walk.pages[Len(walk.pages)].to = walk.pages[1].total
    PROVE  Paging!PagingInv'
<1> USE DEF Paging!PagingInv
<1>1. v5' \in [Pagers -> Paging!Walks] /\ v5'[c] = walk /\ \A d \in Pagers \ {c} : v5'[d] = v5[d]
    BY DEF Paging!TypeOK
<1>2. Paging!TypeOK'
    BY <1>1 DEF Paging!TypeOK, Table, Paging!Distinct
<1>3. Paging!PagesOfThePast'
    BY <1>1 DEF Paging!PagesOfThePast
<1>4. Paging!OpenWalks'
  <2>1. ASSUME NEW d \in Pagers \ {c}, v5[d].status = "open", NEW e \in Held(v2'), e.token = v5[d].cursor
        PROVE  e.revision = v5[d].pages[1].revision
      BY <2>1 DEF Paging!OpenWalks, Held
  <2>2. \A i \in DOMAIN v2' : v2'[i] \in Held(v2')
      BY DEF Held
  <2>3. ASSUME NEW d \in Pagers, v5'[d].status = "open"
        PROVE  /\ v5'[d].pages # <<>> /\ v5'[d].cursor \in Paging!Tokens
               /\ v5'[d].cursor.digest = Query[d] /\ v5'[d].cursor.offset = v5'[d].pages[Len(v5'[d].pages)].to
               /\ v5'[d].pages[Len(v5'[d].pages)].from <= v5'[d].pages[Len(v5'[d].pages)].to
               /\ v5'[d].pages[Len(v5'[d].pages)].to < v5'[d].pages[1].total
               /\ \A i \in DOMAIN v2' : v2'[i].token = v5'[d].cursor => v2'[i].revision = v5'[d].pages[1].revision
    <3>1. CASE d = c
        BY <1>1, <2>2, <2>3, <3>1
    <3>2. CASE d # c
        BY <1>1, <2>1, <2>2, <2>3, <3>2 DEF Paging!OpenWalks
    <3> QED
        BY <3>1, <3>2
  <2> QED
      BY <2>3 DEF Paging!OpenWalks
<1>5. Paging!PagesTileOnePublication'
  <2>1. ASSUME NEW d \in Pagers
        PROVE  /\ \A i \in DOMAIN v5'[d].pages :
                     /\ v5'[d].pages[i].revision = v5'[d].pages[1].revision
                     /\ v5'[d].pages[i].from = IF i = 1 THEN 1 ELSE v5'[d].pages[i - 1].to + 1
                     /\ i < Len(v5'[d].pages) => v5'[d].pages[i].to >= v5'[d].pages[i].from
               /\ v5'[d].status = "complete" => Paging!Last(v5'[d].pages).to = v5'[d].pages[1].total
    <3>1. CASE d = c
        BY <1>1, <3>1 DEF Tiles, Paging!Last
    <3>2. CASE d # c
        BY <1>1, <3>2 DEF Paging!PagesTileOnePublication
    <3> QED
        BY <3>1, <3>2
  <2> QED
      BY <2>1 DEF Paging!PagesTileOnePublication
<1> QED
    BY <1>2, <1>3, <1>4, <1>5

\* A request that is refused ends the walk.
LEMMA PagingFails ==
    ASSUME Paging!PagingInv, NEW c \in Pagers, NEW why \in Paging!Statuses \ {"open", "complete"},
           Paging!Fail(c, why), Table(v2'), Held(v2') \subseteq Held(v2), UNCHANGED <<v1, v3, v4>>
    PROVE  Paging!PagingInv'
<1> DEFINE walk == [status |-> why, cursor |-> None, pages |-> <<>>]
<1>1. /\ walk \in Paging!Walks /\ walk.status = why /\ walk.pages = <<>>
    BY DEF Paging!Walks
<1>2. v5' = [v5 EXCEPT ![c] = walk]
    BY DEF Paging!Fail
<1> HIDE DEF walk
<1>3. Tiles(walk.pages) /\ DOMAIN walk.pages = {} /\ walk.status # "open" /\ walk.status # "complete"
    BY <1>1 DEF Tiles
<1>4. \A d \in Pagers \ {c} : v5[d].status = "open" =>
          \A e \in Held(v2') : e.token = v5[d].cursor => e \in Held(v2)
    OBVIOUS
<1>5. \A i \in DOMAIN walk.pages :
          /\ walk.pages[i].revision <= v1.revision
          /\ walk.pages[i].revision = v1.revision => walk.pages[i].total = v1.total
    BY <1>3
<1> QED
    BY <1>1, <1>2, <1>3, <1>4, <1>5, PagingMoves

\* No two clients ask the same.
QueriesDiffer == \A c, d \in Pagers : Query[c] = Query[d] => c = d

\* A page of the publication that the walk has read all its pages of.
LEMMA PagingServes ==
    ASSUME Paging!PagingInv, QueriesDiffer, NEW c \in Pagers, NEW table, Table(table),
           Held(table) \subseteq Held(v2), NEW offset \in Nat, NEW read \in Seq(Paging!Pages),
           Paging!Serve(c, table, offset, read), UNCHANGED <<v1, v3, v4>>,
           Tiles(read), \A i \in DOMAIN read : read[i].revision = v1.revision /\ read[i].total = v1.total,
           IF read = <<>> THEN offset = 0
           ELSE /\ offset = read[Len(read)].to /\ read[Len(read)].from <= read[Len(read)].to
                /\ offset < v1.total
    PROVE  Paging!PagingInv'
<1> DEFINE count == Paging!Count(Tool[c], offset)
<1> USE DEF Paging!PagingInv
<1>1. CASE Tool[c] = "ownership" /\ offset > 0 /\ offset >= v1.total
  <2>1. Paging!Fail(c, "invalid_cursor") /\ v2' = table
      BY <1>1 DEF Paging!Serve
  <2> QED
      BY <2>1, PagingFails DEF Paging!Statuses
<1>2. CASE ~(Tool[c] = "ownership" /\ offset > 0 /\ offset >= v1.total) /\ count = None
  <2>1. Paging!Fail(c, "too_large") /\ v2' = table
      BY <1>2 DEF Paging!Serve
  <2> QED
      BY <2>1, PagingFails DEF Paging!Statuses
<1>3. CASE ~(Tool[c] = "ownership" /\ offset > 0 /\ offset >= v1.total) /\ count # None
  <2> DEFINE more == offset + count < v1.total
             token == Paging!Token(v1.snapshot, Query[c], offset + count)
             page == Paging!Page(offset, count)
             walk == [status |-> IF more THEN "open" ELSE "complete",
                      cursor |-> IF more THEN token ELSE None, pages |-> Append(read, page)]
  <2>1. /\ count \in Nat
        /\ IF offset < v1.total THEN count >= 1 /\ offset + count <= v1.total ELSE count = 0
      BY <1>3, CountsMakeProgress
  <2>2. v2' = (IF more THEN Paging!Encoded(table, token) ELSE table) /\ v5' = [v5 EXCEPT ![c] = walk]
      BY <1>3 DEF Paging!Serve
  <2> HIDE DEF count
  <2>3. v1.revision \in Nat /\ v1.total \in Nat /\ v1.snapshot \in Nat /\ v4 \in Nat
      BY DEF Paging!TypeOK
  <2>4. offset + count \in Nat /\ offset + 1 \in Nat /\ offset <= v1.total
      BY <2>1, <2>3
  <2>5. token \in Paging!Tokens /\ token.digest = Query[c] /\ token.offset = offset + count
      BY <2>3, <2>4 DEF Paging!Token, Paging!Tokens
  <2>6. /\ page \in Paging!Pages /\ page.revision = v1.revision /\ page.total = v1.total
        /\ page.from = offset + 1 /\ page.to = offset + count
      BY <2>3, <2>4 DEF Paging!Page, Paging!Pages
  <2> HIDE DEF token, page
  <2> DEFINE pages == Append(read, page)
  <2>7. PICK n \in Nat : n = Len(read) /\ DOMAIN read = 1 .. n
      OBVIOUS
  <2>8. /\ pages \in Seq(Paging!Pages) /\ Len(pages) = n + 1 /\ DOMAIN pages = 1 .. (n + 1)
        /\ pages[n + 1] = page /\ \A i \in 1 .. n : pages[i] = read[i]
      BY <2>6, <2>7
  <2> HIDE DEF pages
  <2>9. \A i \in 1 .. (n + 1) : i # n + 1 => i \in 1 .. n
      BY <2>7
  <2>10. \A i \in 1 .. (n + 1) : pages[i].revision = v1.revision /\ pages[i].total = v1.total
      BY <2>6, <2>7, <2>8, <2>9
  <2>11. 1 \in 1 .. (n + 1) /\ pages # <<>>
      BY <2>7, <2>8
  <2>12. Tiles(pages)
    <3> SUFFICES ASSUME NEW i \in 1 .. (n + 1)
                 PROVE  /\ pages[i].from = IF i = 1 THEN 1 ELSE pages[i - 1].to + 1
                        /\ i < n + 1 => pages[i].to >= pages[i].from
        BY <2>8, <2>10, <2>11 DEF Tiles
    <3>1. CASE i = n + 1
      <4>1. CASE n = 0
        <5>1. read = <<>>
            BY <2>7, <4>1
        <5> QED
            BY <2>6, <2>8, <3>1, <4>1, <5>1
      <4>2. CASE n # 0
        <5>1. read # <<>> /\ i - 1 = n /\ n \in 1 .. n /\ i # 1 /\ ~(i < n + 1)
            BY <2>7, <3>1, <4>2
        <5>2. pages[i - 1] = read[n] /\ pages[i] = page
            BY <2>8, <3>1, <5>1
        <5> QED
            BY <2>6, <2>7, <5>1, <5>2
      <4> QED
          BY <4>1, <4>2
    <3>2. CASE i # n + 1
      <4>1. i \in 1 .. n /\ pages[i] = read[i]
          BY <2>8, <2>9, <3>2
      <4>2. read[i].from = IF i = 1 THEN 1 ELSE read[i - 1].to + 1
          BY <2>7, <4>1 DEF Tiles
      <4>3. i # 1 => i - 1 \in 1 .. n /\ pages[i - 1] = read[i - 1]
        <5>1. i # 1 => i - 1 \in 1 .. n
            BY <2>7, <4>1
        <5> QED
            BY <2>8, <5>1
      <4>4. read[i].to >= read[i].from
        <5>1. CASE i = n
          <6>1. read # <<>> /\ read[n] \in Paging!Pages
              BY <2>7, <4>1
          <6> QED
              BY <2>7, <5>1, <6>1 DEF Paging!Pages
        <5>2. CASE i # n
          <6>1. i < n
              BY <2>7, <4>1, <5>2
          <6> QED
              BY <2>7, <4>1, <6>1 DEF Tiles
        <5> QED
            BY <5>1, <5>2
      <4> QED
          BY <4>1, <4>2, <4>3, <4>4
    <3> QED
        BY <3>1, <3>2
  <2>13. walk \in Paging!Walks /\ walk.pages = pages
         /\ walk.status = (IF more THEN "open" ELSE "complete")
         /\ walk.cursor = (IF more THEN token ELSE None)
      BY <2>5, <2>8 DEF Paging!Walks, Paging!Statuses, pages
  <2> HIDE DEF walk
  <2>14. v1.revision <= v1.revision
      BY <2>3
  <2>15. CASE more
    <3>1. /\ Table(v2')
          /\ \A e \in Held(v2') : IF e.token = token THEN e.revision = v1.revision ELSE e \in Held(table)
        BY <2>2, <2>5, <2>15, TableEncoded
    <3>2. ASSUME NEW d \in Pagers \ {c}, v5[d].status = "open" PROVE v5[d].cursor # token
        BY <2>5, <3>2 DEF QueriesDiffer, Paging!OpenWalks
    <3>3. \A d \in Pagers \ {c} : v5[d].status = "open" =>
              \A e \in Held(v2') : e.token = v5[d].cursor => e \in Held(v2)
        BY <3>1, <3>2
    <3>4. /\ walk.status = "open" /\ walk.cursor = token
          /\ pages[Len(pages)] = page /\ page.from <= page.to /\ page.to < v1.total
      <4>1. count >= 1 /\ offset + 1 <= offset + count
          BY <2>1, <2>3, <2>15
      <4> QED
          BY <2>6, <2>8, <2>13, <2>15, <4>1
    <3> QED
        BY <2>2, <2>5, <2>6, <2>8, <2>10, <2>11, <2>12, <2>13, <2>14, <3>1, <3>3, <3>4, PagingMoves
  <2>16. CASE ~more
    <3>1. v2' = table /\ walk.status = "complete"
        BY <2>2, <2>13, <2>16
    <3>2. offset + count = v1.total
        BY <2>1, <2>3, <2>4, <2>16
    <3>3. pages[Len(pages)].to = pages[1].total
        BY <2>6, <2>8, <2>10, <2>11, <3>2
    <3> QED
        BY <2>2, <2>8, <2>10, <2>12, <2>13, <2>14, <3>1, <3>3, PagingMoves
  <2> QED
      BY <2>15, <2>16
<1> QED
    BY <1>1, <1>2, <1>3

LEMMA PagingFirst ==
    ASSUME Paging!PagingInv, QueriesDiffer, NEW c \in Pagers, Paging!First(c)
    PROVE  Paging!PagingInv'
<1>1. UNCHANGED <<v1, v3, v4>> /\ Table(v2)
    BY DEF Paging!First, Paging!PagingInv, Paging!TypeOK, Table
<1>2. CASE Paging!Refused(c, FALSE) # "none"
  <2>1. Paging!Refused(c, FALSE) \in Paging!Statuses \ {"open", "complete"}
      BY <1>2 DEF Paging!Refused, Paging!Statuses
  <2>2. Paging!Fail(c, Paging!Refused(c, FALSE)) /\ v2' = v2
      BY <1>2 DEF Paging!First
  <2> QED
      BY <1>1, <2>1, <2>2, PagingFails
<1>3. CASE ~(Paging!Refused(c, FALSE) # "none")
  <2>1. Paging!Serve(c, v2, 0, <<>>)
      BY <1>3 DEF Paging!First
  <2>2. Tiles(<<>>) /\ <<>> \in Seq(Paging!Pages) /\ DOMAIN <<>> = {}
      BY DEF Tiles
  <2> QED
      BY <1>1, <2>1, <2>2, PagingServes
<1> QED
    BY <1>2, <1>3

\* A continuation is served only when the publication of the table is the one
\* that is published: the one of the pages that were read.
LEMMA PagingFollows ==
    ASSUME Paging!PagingInv, QueriesDiffer, NEW c \in Pagers, Paging!Follow(c)
    PROVE  Paging!PagingInv'
<1> DEFINE token == v5[c].cursor
           table == Paging!Swept(v2)
           read == v5[c].pages
           found == Paging!Decoded(v2, token)
           entry == CHOOSE e \in found : TRUE
           refusal == Paging!Refused(c, Paging!Drifts(token, entry))
<1>1. UNCHANGED <<v1, v3, v4>> /\ Table(v2) /\ v5[c].status = "open"
    BY DEF Paging!Follow, Paging!PagingInv, Paging!TypeOK, Table
<1>2. Table(table) /\ Held(table) \subseteq Held(v2)
    BY <1>1, TableSwept
<1>3. CASE found = {}
  <2>1. Paging!Fail(c, "invalid_cursor") /\ v2' = table
      BY <1>3 DEF Paging!Follow
  <2> QED
      BY <1>1, <1>2, <2>1, PagingFails DEF Paging!Statuses
<1>4. CASE found # {} /\ refusal # "none"
  <2>1. Paging!Fail(c, refusal) /\ v2' = table
      BY <1>4 DEF Paging!Follow
  <2>2. refusal \in Paging!Statuses \ {"open", "complete"}
      BY <1>4 DEF Paging!Refused, Paging!Statuses
  <2> QED
      BY <1>1, <1>2, <2>1, <2>2, PagingFails
<1>5. CASE found # {} /\ refusal = "none"
  <2>1. Paging!Serve(c, table, token.offset, read) /\ ~Paging!Drifts(token, entry)
    <3>1. Paging!Serve(c, table, token.offset, read)
        BY <1>5 DEF Paging!Follow
    <3>2. Paging!Drifts(token, entry) => refusal # "none"
        BY DEF Paging!Refused
    <3> QED
        BY <1>5, <3>1, <3>2
  <2>2. entry \in found
      BY <1>5
  <2> HIDE DEF entry, refusal
  <2>3. entry \in Held(table) /\ entry.token = token
      BY <2>2 DEF Paging!Decoded, Held
  <2> HIDE DEF table
  <2>4. /\ read # <<>> /\ token \in Paging!Tokens /\ token.offset = read[Len(read)].to
        /\ read[Len(read)].from <= read[Len(read)].to /\ read[Len(read)].to < read[1].total
        /\ \A e \in Held(v2) : e.token = token => e.revision = read[1].revision
      BY <1>1 DEF Paging!PagingInv, Paging!OpenWalks, Held
  <2>5. entry.revision = v1.revision
      BY <2>1 DEF Paging!Drifts
  <2>6. read[1].revision = v1.revision
      BY <1>2, <2>3, <2>4, <2>5
  <2>7. Tiles(read)
      BY DEF Paging!PagingInv, Paging!PagesTileOnePublication, Tiles
  <2>8. read \in Seq(Paging!Pages)
      BY DEF Paging!PagingInv, Paging!TypeOK, Paging!Walks
  <2>9. \A i \in DOMAIN read : read[i].revision = v1.revision /\ read[i].total = v1.total
      BY <2>6, <2>7 DEF Tiles, Paging!PagingInv, Paging!PagesOfThePast
  <2>10. 1 \in DOMAIN read
      BY <2>4, <2>8
  <2>11. token.offset \in Nat /\ token.offset < v1.total
      BY <2>4, <2>9, <2>10 DEF Paging!Tokens
  <2> QED
      BY <1>1, <1>2, <2>1, <2>4, <2>7, <2>8, <2>9, <2>11, PagingServes
<1> QED
    BY <1>3, <1>4, <1>5

LEMMA PagingPublishes ==
    ASSUME Paging!PagingInv, Paging!Publish
    PROVE  Paging!PagingInv'
<1> USE DEF Paging!PagingInv
<1>1. PICK snapshot \in {v1.snapshot, v1.snapshot + 1}, semantic \in BOOLEAN, total \in Totals :
          /\ v1' = [snapshot |-> snapshot, revision |-> v1.revision + 1, semantic |-> semantic, total |-> total]
          /\ UNCHANGED <<v2, v3, v4, v5>>
    BY DEF Paging!Publish
<1>2. v1.revision \in Nat /\ v1.snapshot \in Nat
    BY DEF Paging!TypeOK
<1>3. /\ v1' \in [snapshot : Nat, revision : Nat, semantic : BOOLEAN, total : Nat]
      /\ v1'.revision = v1.revision + 1
  <2>1. snapshot \in Nat /\ v1.revision + 1 \in Nat /\ total \in Nat
      BY <1>1, <1>2, PagingAssumption
  <2> QED
      BY <1>1, <2>1
<1>4. Paging!TypeOK'
    BY <1>1, <1>3 DEF Paging!TypeOK, Paging!Distinct
<1>5. Paging!PagesOfThePast'
  <2>1. ASSUME NEW c \in Pagers, NEW i \in DOMAIN v5[c].pages
        PROVE  v5[c].pages[i].revision <= v1.revision + 1 /\ v5[c].pages[i].revision # v1.revision + 1
    <3>1. v5[c].pages[i].revision <= v1.revision
        BY DEF Paging!PagesOfThePast
    <3>2. v5[c].pages[i].revision \in Nat
      <4>1. v5[c].pages \in Seq(Paging!Pages)
          BY DEF Paging!TypeOK, Paging!Walks
      <4>2. v5[c].pages[i] \in Paging!Pages
          BY <4>1
      <4> QED
          BY <4>2 DEF Paging!Pages
    <3> QED
        BY <1>2, <3>1, <3>2
  <2> QED
      BY <1>1, <1>3, <2>1 DEF Paging!PagesOfThePast
<1> QED
    BY <1>1, <1>4, <1>5 DEF Paging!OpenWalks, Paging!PagesTileOnePublication

LEMMA PagingStep ==
    QueriesDiffer => (Paging!PagingInv /\ [Paging!Next]_PagingVars => Paging!PagingInv')
<1> SUFFICES ASSUME QueriesDiffer, Paging!PagingInv, [Paging!Next]_PagingVars
             PROVE  Paging!PagingInv'
    OBVIOUS
<1>1. CASE Paging!Tick
  <2>1. v3' \in Nat /\ UNCHANGED <<v1, v2, v4, v5>>
      BY <1>1 DEF Paging!Tick, Paging!PagingInv, Paging!TypeOK
  <2> QED
      BY <2>1 DEF Paging!PagingInv, Paging!TypeOK, Paging!Distinct, Paging!PagesOfThePast,
                  Paging!OpenWalks, Paging!PagesTileOnePublication
<1>2. CASE Paging!Restart
  <2>1. v4' \in Nat /\ v2' = <<>> /\ UNCHANGED <<v1, v3, v5>>
      BY <1>2 DEF Paging!Restart, Paging!PagingInv, Paging!TypeOK
  <2> QED
      BY <2>1 DEF Paging!PagingInv, Paging!TypeOK, Paging!Distinct, Paging!PagesOfThePast,
                  Paging!OpenWalks, Paging!PagesTileOnePublication
<1>3. CASE UNCHANGED PagingVars
    BY <1>3 DEF PagingVars, Paging!PagingInv, Paging!TypeOK, Paging!Distinct, Paging!PagesOfThePast,
                Paging!OpenWalks, Paging!PagesTileOnePublication
<1> QED
    BY <1>1, <1>2, <1>3, PagingFirst, PagingFollows, PagingPublishes DEF Paging!Next

\* For any number of clients with requests of their own, any page limits, row
\* sizes and publications: a client that follows its cursors reads the rows of
\* one publication, in order, each once, and all of them at the end.
THEOREM WalksReadOnePublication ==
    ASSUME QueriesDiffer
    PROVE  Spec => []PagesTileOnePublication
<1> DEFINE Inv == machine = "paging" => Paging!PagingInv
<1>1. Init => Inv
    BY PagingStart DEF Init
<1>2. Inv /\ [Next]_vars => Inv'
  <2> SUFFICES ASSUME Inv, [Next]_vars, machine = "paging" PROVE Paging!PagingInv'
      BY DEF Next, vars
  <2>1. [Paging!Next]_PagingVars
      BY DEF Next, vars, PagingVars
  <2> QED
      BY <2>1, PagingStep
<1>3. Inv => PagesTileOnePublication
    BY DEF PagesTileOnePublication, Paging!PagingInv
<1> QED
    BY <1>1, <1>2, <1>3, PTL DEF Spec

----------------------------------------------------------------------------
(* Open documents and their diagnostics (lsp/broker.py, diagnostics.py).   *)

DocumentVars == <<v1, v2, v3, v4, v5, v6, v7, v8, v9, v10, v11>>

LEMMA DocumentsCount ==
    \A S : Documents!Cardinality(S) = Cardinality(S) /\ Documents!IsFiniteSet(S) = IsFiniteSet(S)
<1>1. \A S : Documents!Cardinality(S) = Cardinality(S)
    BY DEF Documents!Cardinality, Cardinality
<1>2. \A S : Documents!IsFiniteSet(S) = IsFiniteSet(S)
    BY DEF Documents!IsFiniteSet, IsFiniteSet
<1> QED
    BY <1>1, <1>2

\* Documents that may be open together.
Documented(s) ==
    /\ s \in Seq(Documents!Document) /\ IsFiniteSet(Documents!BytesOf(s))
    /\ \A i, j \in DOMAIN s : s[i].uri = s[j].uri => i = j

\* What eviction leaves has room for the document.
LEMMA EvictionMakesRoom ==
    ASSUME Documents!TypeOK, NEW bytes \in Nat, bytes <= MaxOpenBytes
    PROVE  LET rest == Documents!Evict(bytes) IN
           /\ Documented(rest) /\ Held(rest) \subseteq Held(v1)
           /\ Len(rest) < MaxDocuments /\ Documents!Bytes(rest) + bytes <= MaxOpenBytes
<1> DEFINE rest == Documents!Evict(bytes)
           T == {n \in 0 .. Len(v1) : n = Len(v1) \/ Documents!Fits(Documents!Newest(n), bytes)}
           n == Documents!Evicted(bytes)
<1>0. /\ v1 \in Seq(Documents!Document) /\ IsFiniteSet(Documents!BytesOf(v1))
      /\ \A i, j \in DOMAIN v1 : v1[i].uri = v1[j].uri => i = j
    BY DocumentsCount DEF Documents!TypeOK
<1>1. Len(v1) \in Nat /\ DOMAIN v1 = 1 .. Len(v1)
    BY <1>0
<1>2. n \in T
  <2>1. T \subseteq Nat /\ Len(v1) \in T
      BY <1>1
  <2>2. n = Documents!Min(T)
      BY DEF Documents!Evicted
  <2> HIDE DEF T, n
  <2>3. PICK m \in T : \A k \in T : m <= k
      BY <2>1, LeastNumber
  <2> QED
      BY <2>2, <2>3 DEF Documents!Min
<1>3. rest = SubSeq(v1, n + 1, Len(v1)) /\ rest = Documents!Newest(n)
    BY DEF Documents!Evict, Documents!Newest
<1>4. n \in 0 .. Len(v1)
    BY <1>2
<1>4a. n = Len(v1) \/ Documents!Fits(rest, bytes)
    BY <1>2, <1>3
<1> HIDE DEF rest, n, T
<1>5. /\ rest \in Seq(Documents!Document) /\ Len(rest) = Len(v1) - n
      /\ \A i \in 1 .. (Len(v1) - n) : i + n \in 1 .. Len(v1) /\ rest[i] = v1[i + n]
  <2>1. n \in 0 .. Len(v1) /\ rest = SubSeq(v1, n + 1, Len(v1))
      BY <1>3, <1>4
  <2> QED
      BY ONLY <1>0, <2>1, FirstDropped
<1>6. DOMAIN rest = 1 .. (Len(v1) - n)
    BY <1>5
<1>7. Held(rest) \subseteq Held(v1)
    BY <1>1, <1>5, <1>6 DEF Held
<1>8. Documents!BytesOf(rest) \subseteq Documents!BytesOf(v1)
    BY <1>1, <1>5, <1>6 DEF Documents!BytesOf
<1>9. \A i, j \in DOMAIN rest : rest[i].uri = rest[j].uri => i = j
  <2> SUFFICES ASSUME NEW i \in 1 .. (Len(v1) - n), NEW j \in 1 .. (Len(v1) - n), rest[i].uri = rest[j].uri
               PROVE  i = j
      BY <1>6
  <2>0. PICK a \in 1 .. Len(v1), b \in 1 .. Len(v1) :
            a = i + n /\ b = j + n /\ v1[a] = rest[i] /\ v1[b] = rest[j]
      BY <1>5
  <2>1. i + n = j + n
      BY <1>0, <1>1, <2>0
  <2>2. n \in Int
      BY <1>1, <1>4
  <2>3. i \in Int /\ j \in Int
      BY <1>1, <2>2
  <2> QED
      BY ONLY <2>1, <2>2, <2>3
<1>10. Documented(rest)
  <2>1. IsFiniteSet(Documents!BytesOf(rest))
      BY <1>0, <1>8, FS_Subset
  <2> QED
      BY <1>5, <1>9, <2>1 DEF Documented
<1>11. Len(rest) < MaxDocuments /\ Documents!Bytes(rest) + bytes <= MaxOpenBytes
  <2>1. CASE Documents!Fits(rest, bytes)
      BY <2>1 DEF Documents!Fits
  <2>2. CASE n = Len(v1)
    <3>1. DOMAIN rest = {} /\ Len(rest) = 0
        BY <1>1, <1>5, <1>6, <2>2
    <3>2. Documents!BytesOf(rest) = {}
        BY <3>1 DEF Documents!BytesOf
    <3>3. Documents!Bytes(rest) = 0
      <4>1. Documents!Bytes(rest) = Cardinality(Documents!BytesOf(rest))
          BY DocumentsCount DEF Documents!Bytes
      <4> QED
          BY ONLY <3>2, <4>1, FS_EmptySet
    <3> QED
        BY <3>1, <3>3, DocumentsAssumption
  <2> QED
      BY <1>4a, <2>1, <2>2
<1> QED
    BY <1>7, <1>10, <1>11 DEF rest

\* A document that is removed takes its bytes along, the others stay.
LEMMA RemovalTakesItsBytes ==
    ASSUME Documents!TypeOK, NEW u \in Documents!Open
    PROVE  LET rest == Documents!Without(u)  doc == Documents!Doc(u) IN
           /\ Documented(rest) /\ Held(rest) \subseteq Held(v1) /\ Len(rest) = Len(v1) - 1
           /\ doc \in Held(v1) /\ doc \in Documents!Document /\ doc.uri = u
           /\ \A e \in Held(rest) : e.uri # u
           /\ \A e \in Held(v1) : e.uri # u => e \in Held(rest)
           /\ Documents!Bytes(rest) = Documents!Bytes(v1) - doc.content
           /\ Documents!Bytes(rest) \in Nat /\ Documents!Bytes(v1) \in Nat
<1> DEFINE rest == Documents!Without(u)
           doc == Documents!Doc(u)
<1>0. /\ v1 \in Seq(Documents!Document) /\ IsFiniteSet(Documents!BytesOf(v1))
      /\ \A i, j \in DOMAIN v1 : v1[i].uri = v1[j].uri => i = j
    BY DocumentsCount DEF Documents!TypeOK
<1>1. PICK n \in Nat : n = Len(v1) /\ DOMAIN v1 = 1 .. n
    BY <1>0
<1>2. PICK k \in 1 .. n : k = Documents!Place(u) /\ v1[k].uri = u /\ doc = v1[k]
    BY <1>1 DEF Documents!Open, Documents!Place, Documents!Doc
<1>3. rest = LeaveOut(v1, k)
    BY <1>2 DEF Documents!Without, Documents!RemoveAt, LeaveOut
<1> HIDE DEF rest, doc
<1>4. /\ rest \in Seq(Documents!Document) /\ Len(rest) = n - 1
      /\ \A i \in 1 .. (n - 1) : Skip(k, i) \in 1 .. n /\ Skip(k, i) # k /\ rest[i] = v1[Skip(k, i)]
      /\ \A i, j \in 1 .. (n - 1) : Skip(k, i) = Skip(k, j) => i = j
      /\ \A j \in 1 .. n : j # k => \E i \in 1 .. (n - 1) : Skip(k, i) = j
  <2>1. k \in 1 .. Len(v1) /\ rest = LeaveOut(v1, k) /\ n = Len(v1)
      BY <1>1, <1>2, <1>3
  <2>2. v1 \in Seq(Documents!Document)
      BY <1>0
  <2>3. /\ LeaveOut(v1, k) \in Seq(Documents!Document) /\ Len(LeaveOut(v1, k)) = Len(v1) - 1
        /\ IsWithout(LeaveOut(v1, k), v1, k)
      BY ONLY <2>1, <2>2, OneRemoved
  <2> QED
      BY <2>1, <2>3 DEF IsWithout
<1>5. DOMAIN rest = 1 .. (n - 1)
    BY <1>1, <1>4
<1>6. Held(rest) \subseteq Held(v1)
  <2>1. \A i \in 1 .. (n - 1) : \E j \in 1 .. n : rest[i] = v1[j]
      BY <1>4
  <2>2. \A e \in Held(rest) : \E i \in 1 .. (n - 1) : e = rest[i]
      BY <1>5 DEF Held
  <2>3. \A j \in 1 .. n : v1[j] \in Held(v1)
      BY <1>1 DEF Held
  <2> QED
      BY <2>1, <2>2, <2>3
<1>7. \A i \in 1 .. n : v1[i].uri = u => i = k
    BY <1>0, <1>1, <1>2
<1>8. \A e \in Held(rest) : e.uri # u
    BY <1>4, <1>5, <1>7 DEF Held
<1>9. \A e \in Held(v1) : e.uri # u => e \in Held(rest)
  <2> SUFFICES ASSUME NEW j \in 1 .. n, v1[j].uri # u PROVE v1[j] \in Held(rest)
      BY <1>1 DEF Held
  <2>1. j # k
      BY <1>2
  <2>2. PICK i \in 1 .. (n - 1) : rest[i] = v1[j]
      BY <1>4, <2>1
  <2> QED
      BY <1>5, <2>2 DEF Held
<1>10. doc \in Documents!Document /\ doc \in Held(v1) /\ doc.uri = u
    BY <1>0, <1>1, <1>2 DEF Held
<1> DEFINE mine == {u} \X (1 .. doc.content)
<1>11. doc.content \in Nat
    BY <1>10 DEF Documents!Document
<1>12. IsFiniteSet(mine) /\ Cardinality(mine) = doc.content
  <2>0. PICK c \in Nat : c = doc.content
      BY <1>11
  <2>1. IsFiniteSet(1 .. c) /\ Cardinality(1 .. c) = c
      BY FS_Interval
  <2>2. IsFiniteSet({u}) /\ Cardinality({u}) = 1
      BY FS_Singleton
  <2>3. Cardinality({u} \X (1 .. c)) = 1 * c /\ IsFiniteSet({u} \X (1 .. c))
      BY <2>1, <2>2, FS_Product
  <2> QED
      BY <2>0, <2>3
<1>13. Documents!BytesOf(rest) = Documents!BytesOf(v1) \ mine
  <2>1. ASSUME NEW b \in Documents!BytesOf(rest) PROVE b \in Documents!BytesOf(v1) /\ b \notin mine
    <3>1. PICK i \in 1 .. (n - 1) : b \in {rest[i].uri} \X (1 .. rest[i].content)
        BY <1>5, <2>1 DEF Documents!BytesOf
    <3>2. rest[i] \in Held(rest)
        BY <1>5 DEF Held
    <3>3. b[1] = rest[i].uri /\ rest[i].uri # u
        BY <1>8, <3>1, <3>2
    <3>4. PICK j \in 1 .. n : rest[i] = v1[j]
        BY <1>4
    <3> QED
        BY <1>1, <3>1, <3>3, <3>4 DEF Documents!BytesOf
  <2>2. ASSUME NEW b \in Documents!BytesOf(v1), b \notin mine PROVE b \in Documents!BytesOf(rest)
    <3>1. PICK j \in 1 .. n : b \in {v1[j].uri} \X (1 .. v1[j].content)
        BY <1>1, <2>2 DEF Documents!BytesOf
    <3>2. j # k
        BY <1>2, <2>2, <3>1
    <3>3. PICK i \in 1 .. (n - 1) : rest[i] = v1[j]
        BY <1>4, <3>2
    <3> QED
        BY <1>5, <3>1, <3>3 DEF Documents!BytesOf
  <2> HIDE DEF mine
  <2> QED
      BY <2>1, <2>2
<1>14. mine \subseteq Documents!BytesOf(v1)
    BY <1>1, <1>2 DEF Documents!BytesOf
<1> HIDE DEF mine
<1>15. /\ IsFiniteSet(Documents!BytesOf(rest))
       /\ Cardinality(Documents!BytesOf(rest)) = Cardinality(Documents!BytesOf(v1)) - doc.content
  <2>1. Documents!BytesOf(v1) \cap mine = mine
      BY <1>14
  <2>2. /\ IsFiniteSet(Documents!BytesOf(v1) \ mine)
        /\ Cardinality(Documents!BytesOf(v1) \ mine)
             = Cardinality(Documents!BytesOf(v1)) - Cardinality(Documents!BytesOf(v1) \cap mine)
      BY <1>0, FS_Difference
  <2> QED
      BY <1>12, <1>13, <2>1, <2>2
<1>16. /\ Documents!Bytes(rest) = Cardinality(Documents!BytesOf(rest))
       /\ Documents!Bytes(v1) = Cardinality(Documents!BytesOf(v1))
    BY DocumentsCount DEF Documents!Bytes
<1>17. Cardinality(Documents!BytesOf(rest)) \in Nat /\ Cardinality(Documents!BytesOf(v1)) \in Nat
    BY <1>0, <1>15, FS_CardinalityType
<1>18. \A i, j \in DOMAIN rest : rest[i].uri = rest[j].uri => i = j
  <2> SUFFICES ASSUME NEW i \in 1 .. (n - 1), NEW j \in 1 .. (n - 1), rest[i].uri = rest[j].uri
               PROVE  i = j
      BY <1>5
  <2>1. Skip(k, i) \in DOMAIN v1 /\ Skip(k, j) \in DOMAIN v1 /\ v1[Skip(k, i)].uri = v1[Skip(k, j)].uri
      BY <1>1, <1>4
  <2> QED
      BY <1>0, <1>4, <2>1
<1>19. Documented(rest)
    BY <1>4, <1>15, <1>18 DEF Documented
<1>20. Len(rest) = Len(v1) - 1
    BY <1>1, <1>4
<1> QED
    BY <1>6, <1>8, <1>9, <1>10, <1>15, <1>16, <1>17, <1>19, <1>20 DEF rest, doc

\* A document that is opened adds no more than its bytes.
LEMMA OpeningAddsItsBytes ==
    ASSUME NEW rest, Documented(rest), NEW new \in Documents!Document,
           \A e \in Held(rest) : e.uri # new.uri
    PROVE  LET all == Append(rest, new) IN
           /\ Documented(all) /\ Held(all) = Held(rest) \cup {new} /\ Len(all) = Len(rest) + 1
           /\ Documents!Bytes(all) <= Documents!Bytes(rest) + new.content
           /\ Documents!Bytes(all) \in Nat
<1> DEFINE all == Append(rest, new)
           mine == {new.uri} \X (1 .. new.content)
<1>1. PICK n \in Nat : n = Len(rest) /\ DOMAIN rest = 1 .. n
    BY DEF Documented
<1>2. /\ all \in Seq(Documents!Document) /\ Len(all) = n + 1 /\ DOMAIN all = 1 .. (n + 1)
      /\ all[n + 1] = new /\ \A i \in 1 .. n : all[i] = rest[i] /\ i \in 1 .. (n + 1)
    BY <1>1 DEF Documented
<1>3. \A i \in 1 .. (n + 1) : i # n + 1 => i \in 1 .. n
    BY <1>1
<1> HIDE DEF all
<1>4. Held(all) = Held(rest) \cup {new}
  <2>1. Held(all) \subseteq Held(rest) \cup {new}
      BY <1>1, <1>2, <1>3 DEF Held
  <2>2. new \in Held(all)
    <3>1. n + 1 \in 1 .. (n + 1)
        BY <1>1
    <3> QED
        BY <1>2, <3>1 DEF Held
  <2>3. Held(rest) \subseteq Held(all)
      BY <1>1, <1>2 DEF Held
  <2> QED
      BY <2>1, <2>2, <2>3
<1>5. new.content \in Nat
    BY DEF Documents!Document
<1>6. IsFiniteSet(mine) /\ Cardinality(mine) = new.content
  <2>0. PICK c \in Nat, u \in {new.uri} : c = new.content
      BY <1>5
  <2>1. IsFiniteSet(1 .. c) /\ Cardinality(1 .. c) = c
      BY FS_Interval
  <2>2. IsFiniteSet({u}) /\ Cardinality({u}) = 1
      BY FS_Singleton
  <2>3. Cardinality({u} \X (1 .. c)) = 1 * c /\ IsFiniteSet({u} \X (1 .. c))
      BY <2>1, <2>2, FS_Product
  <2>4. mine = {u} \X (1 .. c) /\ 1 * c = c
      BY <2>0
  <2> QED
      BY <2>0, <2>3, <2>4
<1>7. Documents!BytesOf(all) \subseteq Documents!BytesOf(rest) \cup mine
  <2> SUFFICES ASSUME NEW i \in 1 .. (n + 1), NEW b \in {all[i].uri} \X (1 .. all[i].content)
               PROVE  b \in Documents!BytesOf(rest) \cup mine
      BY <1>2 DEF Documents!BytesOf
  <2>1. CASE i = n + 1
      BY <1>2, <2>1
  <2>2. CASE i # n + 1
      BY <1>1, <1>2, <1>3, <2>2 DEF Documents!BytesOf
  <2> QED
      BY <2>1, <2>2
<1> HIDE DEF mine
<1>8. IsFiniteSet(Documents!BytesOf(rest))
    BY DEF Documented
<1> DEFINE both == Documents!BytesOf(rest) \cup mine
<1>9. IsFiniteSet(both) /\ Cardinality(both) <= Cardinality(Documents!BytesOf(rest)) + new.content
  <2>1. /\ IsFiniteSet(both)
        /\ Cardinality(both) = Cardinality(Documents!BytesOf(rest)) + Cardinality(mine)
                                - Cardinality(Documents!BytesOf(rest) \cap mine)
      BY <1>6, <1>8, FS_Union
  <2>2. Cardinality(Documents!BytesOf(rest) \cap mine) \in Nat /\ Cardinality(Documents!BytesOf(rest)) \in Nat
      BY <1>8, FS_Intersection, FS_CardinalityType
  <2> HIDE DEF both
  <2> QED
      BY <1>5, <1>6, <2>1, <2>2
<1>10. /\ IsFiniteSet(Documents!BytesOf(all)) /\ Cardinality(Documents!BytesOf(all)) <= Cardinality(both)
       /\ Cardinality(Documents!BytesOf(all)) \in Nat /\ Cardinality(both) \in Nat
  <2> HIDE DEF both
  <2>1. Documents!BytesOf(all) \subseteq both
      BY <1>7 DEF both
  <2> QED
      BY <1>9, <2>1, FS_Subset, FS_CardinalityType
<1> HIDE DEF both
<1>11. /\ Documents!Bytes(rest) = Cardinality(Documents!BytesOf(rest))
       /\ Documents!Bytes(all) = Cardinality(Documents!BytesOf(all))
    BY DocumentsCount DEF Documents!Bytes
<1>12. Cardinality(Documents!BytesOf(rest)) \in Nat
    BY <1>8, FS_CardinalityType
<1>13. Documents!Bytes(all) <= Documents!Bytes(rest) + new.content /\ Documents!Bytes(all) \in Nat
    BY <1>5, <1>9, <1>10, <1>11, <1>12
<1>14. \A i, j \in DOMAIN all : all[i].uri = all[j].uri => i = j
  <2> SUFFICES ASSUME NEW i \in 1 .. (n + 1), NEW j \in 1 .. (n + 1), all[i].uri = all[j].uri
               PROVE  i = j
      BY <1>2
  <2>1. \A m \in 1 .. n : all[m] = rest[m] /\ rest[m].uri # new.uri
      BY <1>1, <1>2 DEF Held
  <2>2. CASE i = n + 1 \/ j = n + 1
      BY <1>2, <1>3, <2>1, <2>2
  <2>3. CASE i # n + 1 /\ j # n + 1
      BY <1>1, <1>3, <2>1, <2>3 DEF Documented
  <2> QED
      BY <2>2, <2>3
<1>15. Documented(all)
    BY <1>2, <1>10, <1>14 DEF Documented
<1>16. Len(all) = Len(rest) + 1
    BY <1>1, <1>2
<1> QED
    BY <1>4, <1>13, <1>15, <1>16 DEF all

\* The invariant in three parts: the documents and what was pushed; what is bound and
\* retained; what the session and its callers have.
DocsFit ==
    /\ Documented(v1) /\ v4 \in Seq(Documents!Publications)
    /\ Documents!PushedTells /\ Documents!WithinBudget
DiagsFit ==
    /\ v2 \in [Uris -> Documents!Bindings \cup {None}]
    /\ v3 \in [Uris -> Documents!States \cup {None}]
    /\ Documents!KeptIsBound /\ Documents!KeptTells
AsksFit ==
    /\ v5 \in Documents!Waits \cup {None} /\ v7 \in [Uris -> Documents!Generations \cup {None}]
    /\ v9 \in Documents!Preparations \cup {None} /\ v10 \in Documents!Pulls \cup {None}
    /\ Documents!PullTells /\ Documents!WaiterTells

LEMMA DocumentsParts ==
    /\ Documents!DocumentsInv => Documents!TypeOK /\ DocsFit /\ DiagsFit /\ AsksFit
    /\ DocsFit /\ DiagsFit /\ AsksFit => Documents!DocumentsInv
    /\ DocsFit' /\ DiagsFit' /\ AsksFit' => Documents!DocumentsInv'
<1> USE DocumentsCount DEF Documents!DocumentsInv, Documents!TypeOK, DocsFit, DiagsFit, AsksFit,
        Documented
<1>1. Documents!DocumentsInv => Documents!TypeOK /\ DocsFit /\ DiagsFit /\ AsksFit
    OBVIOUS
<1>2. DocsFit /\ DiagsFit /\ AsksFit => Documents!DocumentsInv
    OBVIOUS
<1>3. DocsFit' /\ DiagsFit' /\ AsksFit' => Documents!DocumentsInv'
    BY DEF Documents!BytesOf
<1> QED
    BY <1>1, <1>2, <1>3

LEMMA DocumentsStart == Documents!Init => Documents!DocumentsInv
<1> SUFFICES ASSUME Documents!Init PROVE Documents!DocumentsInv
    OBVIOUS
<1>1. /\ v1 = <<>> /\ v2 = [u \in Uris |-> None] /\ v3 = [u \in Uris |-> None] /\ v4 = <<>>
      /\ v5 = None /\ v7 = [u \in Uris |-> None] /\ v9 = None /\ v10 = None
    BY DEF Documents!Init
<1>2. Documents!BytesOf(v1) = {}
    BY <1>1 DEF Documents!BytesOf
<1>3. IsFiniteSet(Documents!BytesOf(v1)) /\ Cardinality(Documents!BytesOf(v1)) = 0
    BY <1>2, FS_EmptySet
<1>4. Documents!WithinBudget
  <2>1. Documents!Bytes(v1) = 0
      BY <1>3, DocumentsCount DEF Documents!Bytes
  <2> QED
      BY <1>1, <2>1, DocumentsAssumption DEF Documents!WithinBudget
<1>5. DocsFit
    BY <1>1, <1>3, <1>4 DEF DocsFit, Documented, Documents!PushedTells
<1>6. DiagsFit
    BY <1>1 DEF DiagsFit, Documents!KeptIsBound, Documents!KeptTells
<1>7. AsksFit
    BY <1>1 DEF AsksFit, Documents!PullTells, Documents!WaiterTells
<1> QED
    BY <1>5, <1>6, <1>7, DocumentsParts

\* A document that is open is one of those held, and the only one of its name.
LEMMA DocumentsAreOpen ==
    ASSUME DocsFit
    PROVE  /\ \A e \in Held(v1) : e \in Documents!Document
           /\ \A u : u \in Documents!Open <=> \E e \in Held(v1) : e.uri = u
           /\ \A u \in Documents!Open :
                 /\ Documents!Doc(u) \in Held(v1) /\ Documents!Doc(u).uri = u
                 /\ \A e \in Held(v1) : e.uri = u => e = Documents!Doc(u)
<1>1. \A i \in DOMAIN v1 : v1[i] \in Documents!Document
    BY DEF DocsFit, Documented
<1>2. \A u : u \in Documents!Open <=> \E e \in Held(v1) : e.uri = u
    BY DEF Held, Documents!Open
<1>3. ASSUME NEW u \in Documents!Open
      PROVE  /\ Documents!Doc(u) \in Held(v1) /\ Documents!Doc(u).uri = u
             /\ \A e \in Held(v1) : e.uri = u => e = Documents!Doc(u)
  <2>1. Documents!Place(u) \in DOMAIN v1 /\ v1[Documents!Place(u)].uri = u
      BY DEF Documents!Open, Documents!Place
  <2> QED
      BY <2>1 DEF Documents!Doc, Held, DocsFit, Documented
<1> QED
    BY <1>1, <1>2, <1>3 DEF Held

\* What was pushed of a document that was not closed fits the document.
LEMMA PushedFits ==
    ASSUME DocsFit
    PROVE  \A i \in DOMAIN v4 : v4[i].uri \notin v6 =>
              \E e \in Held(v1) : /\ e.uri = v4[i].uri /\ v4[i].version <= e.version
                                  /\ v4[i].version = e.version => v4[i].items = e.content
BY DEF DocsFit, Documents!PushedTells, Held

\* Steps that do not touch a part.
LEMMA DocsKept ==
    ASSUME DocsFit, UNCHANGED <<v1, v6>>, v4' \in Seq(Documents!Publications),
           Held(v4') \subseteq Held(v4)
    PROVE  DocsFit'
<1>1. Documents!PushedTells'
  <2> SUFFICES ASSUME NEW i \in DOMAIN v4', v4'[i].uri \notin v6
               PROVE  \E k \in DOMAIN v1 : /\ v1[k].uri = v4'[i].uri /\ v4'[i].version <= v1[k].version
                                           /\ v4'[i].version = v1[k].version => v4'[i].items = v1[k].content
      BY DEF Documents!PushedTells
  <2>1. PICK j \in DOMAIN v4 : v4'[i] = v4[j]
      BY DEF Held
  <2> QED
      BY <2>1 DEF DocsFit, Documents!PushedTells
<1> QED
    BY <1>1 DEF DocsFit, Documented, Documents!BytesOf, Documents!WithinBudget, Documents!Bytes

LEMMA DiagsKept ==
    ASSUME DiagsFit, UNCHANGED <<v2, v3>>, v6 \subseteq v6'
    PROVE  DiagsFit'
BY DEF DiagsFit, Documents!KeptIsBound, Documents!KeptTells, Documents!Tells

LEMMA AsksKept ==
    ASSUME AsksFit, UNCHANGED <<v5, v7, v10>>, v6 \subseteq v6',
           v9' \in Documents!Preparations \cup {None}
    PROVE  AsksFit'
BY DEF AsksFit, Documents!PullTells, Documents!WaiterTells, Documents!Tells

\* A document is opened or updated: what was pushed for one that is not closed is older.
LEMMA DocumentsGrow ==
    ASSUME DocsFit, NEW u \in Uris, NEW c \in Nat, NEW v \in Nat \ {0},
           NEW rest, Documented(rest), Held(rest) \subseteq Held(v1), \A e \in Held(rest) : e.uri # u,
           Len(rest) < MaxDocuments, Documents!Bytes(rest) \in Nat,
           Documents!Bytes(rest) + c <= MaxOpenBytes,
           v1' = Append(rest, [uri |-> u, version |-> v, content |-> c]), v4' = v4,
           v6 \subseteq v6', \A e \in Held(v1) : e.uri # u => e.uri \in v6' \/ e \in Held(rest),
           \A e \in Held(v1) : e.uri = u => e.version < v
    PROVE  DocsFit'
<1> DEFINE new == [uri |-> u, version |-> v, content |-> c]
<1>1. new \in Documents!Document /\ new.uri = u /\ new.version = v /\ new.content = c
    BY DEF Documents!Document
<1> HIDE DEF new
<1>2. /\ Documented(v1') /\ Held(v1') = Held(rest) \cup {new} /\ Len(v1') = Len(rest) + 1
      /\ Documents!Bytes(v1') <= Documents!Bytes(rest) + c /\ Documents!Bytes(v1') \in Nat
  <2>1. v1' = Append(rest, new) /\ \A e \in Held(rest) : e.uri # new.uri
      BY <1>1 DEF new
  <2> QED
      BY <1>1, <2>1, OpeningAddsItsBytes
<1>3. Documents!PushedTells'
  <2> SUFFICES ASSUME NEW i \in DOMAIN v4, v4[i].uri \notin v6'
               PROVE  \E e \in Held(v1') : /\ e.uri = v4[i].uri /\ v4[i].version <= e.version
                                           /\ v4[i].version = e.version => v4[i].items = e.content
      BY DEF Documents!PushedTells, Held
  <2>1. PICK e \in Held(v1) : /\ e.uri = v4[i].uri /\ v4[i].version <= e.version
                              /\ v4[i].version = e.version => v4[i].items = e.content
      BY PushedFits
  <2>2. CASE e.uri # u
      BY <1>2, <2>1, <2>2
  <2>3. CASE e.uri = u
    <3>1. e.version \in Nat /\ e.version < v
        BY <2>3, DocumentsAreOpen DEF Documents!Document
    <3>2. v4[i].version \in Nat
      <4>1. v4[i] \in Documents!Publications
          BY DEF DocsFit
      <4> QED
          BY <4>1 DEF Documents!Publications
    <3>3. v4[i].version <= v /\ v4[i].version # v
        BY <2>1, <3>1, <3>2
    <3> QED
        BY <1>1, <1>2, <2>1, <2>3, <3>3
  <2> QED
      BY <2>2, <2>3
<1>4. Documents!WithinBudget'
  <2>1. Documents!Bytes(v1)' = Documents!Bytes(v1')
      BY DEF Documents!Bytes, Documents!BytesOf
  <2>2. Len(v1') <= MaxDocuments
    <3>1. Len(rest) \in Nat /\ Len(v1') = Len(rest) + 1
        BY <1>2 DEF Documented
    <3> QED
        BY <3>1, DocumentsAssumption
  <2>3. Documents!Bytes(v1') <= MaxOpenBytes
      BY <1>2, DocumentsAssumption
  <2> QED
      BY <2>1, <2>2, <2>3 DEF Documents!WithinBudget
<1> QED
    BY <1>2, <1>3, <1>4 DEF DocsFit, Documented, Documents!BytesOf

LEMMA DocumentOpens ==
    ASSUME DocsFit, Documents!TypeOK, NEW u \in Uris, u \notin Documents!Open, NEW c \in Nat,
           Documents!Opens(u, c), v4' = v4
    PROVE  DocsFit' /\ v6 \subseteq v6'
<1> DEFINE rest == Documents!Evict(c)
<1>1. c <= MaxOpenBytes
    BY DEF Documents!Opens
<1>2. /\ Documented(rest) /\ Held(rest) \subseteq Held(v1)
      /\ Len(rest) < MaxDocuments /\ Documents!Bytes(rest) + c <= MaxOpenBytes
    BY <1>1, EvictionMakesRoom
<1>3. /\ v1' = Append(rest, [uri |-> u, version |-> 1, content |-> c])
      /\ v6' = v6 \cup (Documents!Open \ {v1'[i].uri : i \in DOMAIN v1'})
    BY DEF Documents!Opens
<1> HIDE DEF rest
<1>4. Documents!Bytes(rest) \in Nat
    BY <1>2, DocumentsCount, FS_CardinalityType DEF Documented, Documents!Bytes
<1>5. \A e \in Held(v1) : e.uri # u
    BY DocumentsAreOpen
<1>6. \A e \in Held(v1) : e.uri \in v6' \/ e \in Held(rest)
  <2> SUFFICES ASSUME NEW e \in Held(v1), e.uri \notin v6' PROVE e \in Held(rest)
      OBVIOUS
  <2>1. PICK f \in Held(v1') : f.uri = e.uri
      BY <1>3, DocumentsAreOpen DEF Held
  <2>2. f \in Held(rest)
    <3> DEFINE new == [uri |-> u, version |-> 1, content |-> c]
    <3>1. new \in Documents!Document /\ new.uri = u
        BY DEF Documents!Document
    <3> HIDE DEF new
    <3>2. v1' = Append(rest, new) /\ \A d \in Held(rest) : d.uri # new.uri
        BY <1>2, <1>3, <1>5, <3>1 DEF new
    <3>3. Held(v1') = Held(rest) \cup {new}
        BY <1>2, <3>1, <3>2, OpeningAddsItsBytes
    <3> QED
        BY <1>5, <2>1, <3>1, <3>3
  <2>3. f = Documents!Doc(e.uri) /\ e = Documents!Doc(e.uri)
      BY <1>2, <2>1, <2>2, DocumentsAreOpen
  <2> QED
      BY <2>2, <2>3
<1> QED
    BY <1>2, <1>3, <1>4, <1>5, <1>6, DocumentsGrow

LEMMA DocumentUpdates ==
    ASSUME DocsFit, Documents!TypeOK, NEW u \in Uris, NEW c \in Nat, Documents!Updates(u, c), v4' = v4
    PROVE  DocsFit' /\ v6 \subseteq v6'
<1> DEFINE rest == Documents!Without(u)
           doc == Documents!Doc(u)
           v == doc.version + 1
<1>1. u \in Documents!Open
    BY DEF Documents!Updates
<1>2. /\ Documented(rest) /\ Held(rest) \subseteq Held(v1) /\ Len(rest) = Len(v1) - 1
      /\ doc \in Held(v1) /\ doc \in Documents!Document /\ doc.uri = u
      /\ \A e \in Held(rest) : e.uri # u
      /\ \A e \in Held(v1) : e.uri # u => e \in Held(rest)
      /\ Documents!Bytes(rest) = Documents!Bytes(v1) - doc.content
      /\ Documents!Bytes(rest) \in Nat /\ Documents!Bytes(v1) \in Nat
    BY <1>1, RemovalTakesItsBytes
<1>3. /\ v1' = Append(rest, [uri |-> u, version |-> v, content |-> c]) /\ v6' = v6
      /\ Documents!Bytes(v1) - doc.content + c <= MaxOpenBytes
    BY DEF Documents!Updates
<1>4. doc.version \in Nat /\ doc.content \in Nat
    BY <1>2 DEF Documents!Document
<1>5. \A e \in Held(v1) : e.uri = u => e.version < v
    BY <1>1, <1>4, DocumentsAreOpen
<1>6. Len(rest) < MaxDocuments
  <2>1. Len(v1) \in Nat /\ Len(v1) <= MaxDocuments
      BY DEF DocsFit, Documented, Documents!WithinBudget
  <2> HIDE DEF rest
  <2> QED
      BY <1>2, <2>1, DocumentsAssumption
<1>7. v \in Nat \ {0}
    BY <1>4
<1> HIDE DEF rest, doc, v
<1>8. Documents!Bytes(rest) + c <= MaxOpenBytes
    BY <1>2, <1>3
<1> QED
    BY <1>2, <1>3, <1>5, <1>6, <1>7, <1>8, DocumentsGrow

\* A bind drops what is of another generation or version.
LEMMA BindFits ==
    ASSUME DiagsFit, NEW u \in Uris, NEW v \in Nat \ {0}, NEW g \in Documents!Generations,
           Documents!Bound(u, v, g), v6' = v6
    PROVE  DiagsFit'
<1> DEFINE b == [version |-> v, gen |-> g]
<1>1. b \in Documents!Bindings /\ b # None
    BY DocumentsAssumption DEF Documents!Bindings
<1>2. /\ v2' = [v2 EXCEPT ![u] = b]
      /\ v3' = [v3 EXCEPT ![u] = IF v3[u] # None /\ Documents!Compatible(v3[u], b) THEN v3[u] ELSE None]
    BY DEF Documents!Bound
<1> HIDE DEF b
<1>3. /\ v2' \in [Uris -> Documents!Bindings \cup {None}]
      /\ v2'[u] = b /\ \A w \in Uris \ {u} : v2'[w] = v2[w]
    BY <1>1, <1>2 DEF DiagsFit
<1>4. /\ v3' \in [Uris -> Documents!States \cup {None}]
      /\ v3'[u] = None \/ (v3'[u] = v3[u] /\ v3[u] # None /\ Documents!Compatible(v3[u], b))
      /\ \A w \in Uris \ {u} : v3'[w] = v3[w]
    BY <1>2 DEF DiagsFit
<1>5. Documents!KeptIsBound'
  <2> SUFFICES ASSUME NEW w \in Uris, v3'[w] # None
               PROVE  /\ v2'[w] # None /\ Documents!Compatible(v3'[w], v2'[w])
                      /\ v3'[w].pull => v3'[w].version # 0
      BY DEF Documents!KeptIsBound, Documents!Compatible
  <2>1. v3'[w] = v3[w] /\ (v3[w].pull => v3[w].version # 0)
      BY <1>4 DEF DiagsFit, Documents!KeptIsBound
  <2>2. CASE w = u
      BY <1>1, <1>3, <1>4, <2>1, <2>2
  <2>3. CASE w # u
      BY <1>3, <2>1, <2>3 DEF DiagsFit, Documents!KeptIsBound
  <2> QED
      BY <2>2, <2>3
<1>6. Documents!KeptTells'
    BY <1>4 DEF DiagsFit, Documents!KeptTells, Documents!Tells
<1> QED
    BY <1>3, <1>4, <1>5, <1>6 DEF DiagsFit

LEMMA PreparationBegins ==
    ASSUME Documents!DocumentsInv, NEW u \in Uris, NEW g \in Documents!Trees,
           Documents!PrepareBegins(u, g)
    PROVE  Documents!DocumentsInv'
<1>0. DocsFit /\ DiagsFit /\ AsksFit
    BY DocumentsParts
<1> DEFINE todo == Documents!Changed(u, g) \cap (v8 \cap Documents!Open)
           v == IF u \notin Documents!Open THEN 1
                ELSE IF u \in todo THEN Documents!Doc(u).version + 1 ELSE Documents!Doc(u).version
           p == [uri |-> u, gen |-> g, todo |-> todo, sent |-> FALSE]
<1>1. Documents!Bound(u, v, g) /\ v9' = p /\ UNCHANGED <<v1, v4, v5, v6, v7, v10>>
    BY DEF Documents!PrepareBegins
<1>2. g \in Documents!Generations
  <2>1. /\ g \in [Uris -> UNION {Contents[w] : w \in Uris}]
        /\ \A w \in Uris : g[w] \in Nat
      BY DocumentsAssumption DEF Documents!Trees
  <2> QED
      BY <2>1 DEF Documents!Generations
<1>3. v \in Nat \ {0}
  <2>1. u \in Documents!Open => Documents!Doc(u) \in Documents!Document
      BY <1>0, DocumentsAreOpen
  <2>2. u \in Documents!Open => Documents!Doc(u).version \in Nat \ {0}
      BY <2>1 DEF Documents!Document
  <2> HIDE DEF todo
  <2> QED
      BY <2>2
<1>4. todo \in SUBSET Uris
    BY DEF Documents!Changed
<1>5. p \in Documents!Preparations
    BY <1>2, <1>4 DEF Documents!Preparations
<1> HIDE DEF todo, v, p
<1>6. DocsFit' /\ AsksFit'
    BY <1>0, <1>1, <1>5, DocsKept, AsksKept DEF DocsFit
<1>7. DiagsFit'
    BY <1>0, <1>1, <1>2, <1>3, BindFits
<1> QED
    BY <1>6, <1>7, DocumentsParts

\* What the preparation under way has is of its type.
LEMMA PreparationFits ==
    ASSUME AsksFit, v9 # None
    PROVE  /\ v9.uri \in Uris /\ v9.gen \in Documents!Generations /\ v9 \in Documents!Preparations
           /\ v9.todo \in SUBSET Uris /\ \A w \in Uris : v9.gen[w] \in Nat
<1>1. v9 \in Documents!Preparations
    BY DEF AsksFit
<1>2. v9.gen \in [Uris -> Nat]
    BY <1>1 DEF Documents!Preparations, Documents!Generations
<1> QED
    BY <1>1, <1>2 DEF Documents!Preparations

LEMMA PreparationChanges ==
    ASSUME Documents!DocumentsInv, NEW w \in Uris, Documents!PrepareChanges(w)
    PROVE  Documents!DocumentsInv'
<1>0. DocsFit /\ DiagsFit /\ AsksFit /\ Documents!TypeOK
    BY DocumentsParts
<1>1. /\ v9 # None /\ v9' = [v9 EXCEPT !.todo = @ \ {w}] /\ UNCHANGED <<v2, v3, v4, v5, v7, v10>>
      /\ \/ Documents!Updates(w, v9.gen[w])
         \/ w \notin Documents!Open /\ Documents!Opens(w, v9.gen[w])
    BY DEF Documents!PrepareChanges
<1>2. v9.gen[w] \in Nat
    BY <1>0, <1>1, PreparationFits
<1>3. v9' \in Documents!Preparations
    BY <1>0, <1>1, PreparationFits DEF Documents!Preparations
<1>4. DocsFit' /\ v6 \subseteq v6'
    BY <1>0, <1>1, <1>2, DocumentOpens, DocumentUpdates
<1>5. DiagsFit' /\ AsksFit'
    BY <1>0, <1>1, <1>3, <1>4, DiagsKept, AsksKept
<1> QED
    BY <1>4, <1>5, DocumentsParts

LEMMA PreparationOpens ==
    ASSUME Documents!DocumentsInv, Documents!PrepareOpens
    PROVE  Documents!DocumentsInv'
<1>0. DocsFit /\ DiagsFit /\ AsksFit /\ Documents!TypeOK
    BY DocumentsParts
<1>1. /\ v9 # None /\ v9' = [v9 EXCEPT !.sent = TRUE] /\ UNCHANGED <<v2, v3, v4, v5, v7, v10>>
      /\ \/ UNCHANGED <<v1, v6>>
         \/ v9.uri \notin Documents!Open /\ Documents!Opens(v9.uri, v9.gen[v9.uri])
    BY DEF Documents!PrepareOpens
<1>2. v9.uri \in Uris /\ v9.gen[v9.uri] \in Nat
    BY <1>0, <1>1, PreparationFits
<1>3. v9' \in Documents!Preparations
    BY <1>0, <1>1, PreparationFits DEF Documents!Preparations
<1>4. DocsFit' /\ v6 \subseteq v6'
  <2>1. CASE UNCHANGED <<v1, v6>>
      BY <1>0, <1>1, <2>1, DocsKept DEF DocsFit
  <2>2. CASE v9.uri \notin Documents!Open /\ Documents!Opens(v9.uri, v9.gen[v9.uri])
      BY <1>0, <1>1, <1>2, <2>2, DocumentOpens
  <2> QED
      BY <1>1, <2>1, <2>2
<1>5. DiagsFit' /\ AsksFit'
    BY <1>0, <1>1, <1>3, <1>4, DiagsKept, AsksKept
<1> QED
    BY <1>4, <1>5, DocumentsParts

LEMMA PreparationEnds ==
    ASSUME Documents!DocumentsInv, NEW then, Documents!PrepareEnds(then)
    PROVE  Documents!DocumentsInv'
<1>0. DocsFit /\ DiagsFit /\ AsksFit
    BY DocumentsParts
<1> DEFINE u == v9.uri
           v == Documents!Doc(u).version
           wait == [uri |-> u, gen |-> v9.gen, version |-> 0, got |-> None]
           ask == [uri |-> u, gen |-> v9.gen, items |-> 0, apart |-> FALSE]
<1>1. /\ v9 # None /\ u \in Documents!Open /\ Documents!Bound(u, v, v9.gen)
      /\ v7' = [v7 EXCEPT ![u] = v9.gen] /\ v9' = None /\ UNCHANGED <<v1, v4, v6>>
      /\ v5' = wait \/ v5' = v5
      /\ v10' = ask \/ v10' = v10
    BY DEF Documents!PrepareEnds
<1>2. u \in Uris /\ v9.gen \in Documents!Generations
    BY <1>0, <1>1, PreparationFits
<1>3. v \in Nat \ {0}
  <2>1. Documents!Doc(u) \in Documents!Document
      BY <1>0, <1>1, DocumentsAreOpen
  <2> QED
      BY <2>1 DEF Documents!Document
<1>4. wait \in Documents!Waits /\ wait.got = None
    BY <1>2 DEF Documents!Waits
<1>5. ask \in Documents!Pulls /\ ask.items = 0
    BY <1>2 DEF Documents!Pulls
<1> HIDE DEF u, v, wait, ask
<1>6. AsksFit'
  <2>1. v7' \in [Uris -> Documents!Generations \cup {None}]
      BY <1>0, <1>1, <1>2 DEF AsksFit
  <2>2. Documents!PullTells'
      BY <1>0, <1>1, <1>5 DEF AsksFit, Documents!PullTells
  <2>3. Documents!WaiterTells'
      BY <1>0, <1>1, <1>4 DEF AsksFit, Documents!WaiterTells, Documents!Tells
  <2> QED
      BY <1>0, <1>1, <1>4, <1>5, <2>1, <2>2, <2>3 DEF AsksFit
<1>7. DocsFit' /\ DiagsFit'
    BY <1>0, <1>1, <1>2, <1>3, BindFits, DocsKept DEF DocsFit
<1> QED
    BY <1>6, <1>7, DocumentsParts

LEMMA PreparationFails ==
    ASSUME Documents!DocumentsInv, Documents!PrepareFails
    PROVE  Documents!DocumentsInv'
<1>1. v9' = None /\ UNCHANGED <<v1, v2, v3, v4, v5, v6, v7, v10>>
    BY DEF Documents!PrepareFails
<1> QED
    BY <1>1, DocumentsParts, DocsKept, DiagsKept, AsksKept DEF DocsFit

LEMMA DiagnosticsArePushed ==
    ASSUME Documents!DocumentsInv, NEW u \in Uris, NEW versioned \in BOOLEAN, Documents!Push(u, versioned)
    PROVE  Documents!DocumentsInv'
<1>0. DocsFit /\ DiagsFit /\ AsksFit
    BY DocumentsParts
<1> DEFINE doc == Documents!Doc(u)
           p == [uri |-> u, items |-> doc.content, version |-> IF versioned THEN doc.version ELSE 0]
<1>1. /\ u \in Documents!Open /\ v4' = Append(v4, p)
      /\ UNCHANGED <<v1, v2, v3, v5, v6, v7, v9, v10>>
    BY DEF Documents!Push
<1>2. PICK k \in DOMAIN v1 : doc = v1[k] /\ doc.uri = u
    BY <1>0, <1>1, DocumentsAreOpen DEF Held
<1>3. doc \in Documents!Document /\ doc.version \in Nat \ {0} /\ doc.content \in Nat
  <2>1. doc \in Documents!Document
      BY <1>0, <1>1, DocumentsAreOpen
  <2> QED
      BY <2>1 DEF Documents!Document
<1>4. /\ p.uri = u /\ p.items = doc.content /\ p.version \in {0, doc.version}
      /\ p \in Documents!Publications
    BY <1>3 DEF Documents!Publications
<1> HIDE DEF p, doc
<1>5. /\ p.version <= doc.version /\ (p.version = doc.version => p.items = doc.content)
    BY <1>3, <1>4
<1>6. v4' \in Seq(Documents!Publications) /\ \A i \in DOMAIN v4' : v4'[i] = p \/ (i \in DOMAIN v4 /\ v4'[i] = v4[i])
    BY <1>0, <1>1, <1>4 DEF DocsFit
<1>7. Documents!PushedTells'
  <2> SUFFICES ASSUME NEW i \in DOMAIN v4', v4'[i].uri \notin v6
               PROVE  \E m \in DOMAIN v1 : /\ v1[m].uri = v4'[i].uri /\ v4'[i].version <= v1[m].version
                                           /\ v4'[i].version = v1[m].version => v4'[i].items = v1[m].content
      BY <1>1 DEF Documents!PushedTells
  <2>1. CASE v4'[i] = p
      BY <1>2, <1>4, <1>5, <2>1
  <2>2. CASE i \in DOMAIN v4 /\ v4'[i] = v4[i]
      BY <1>0, <2>2 DEF DocsFit, Documents!PushedTells
  <2> QED
      BY <1>6, <2>1, <2>2
<1>8. DocsFit'
    BY <1>0, <1>1, <1>6, <1>7 DEF DocsFit, Documented, Documents!BytesOf, Documents!WithinBudget, Documents!Bytes
<1>9. DiagsFit' /\ AsksFit'
    BY <1>0, <1>1, DiagsKept, AsksKept DEF AsksFit
<1> QED
    BY <1>8, <1>9, DocumentsParts

\* A state that may be retained for a document.
Retainable(u, s) ==
    /\ s \in Documents!States /\ v2[u] # None /\ Documents!Compatible(s, v2[u])
    /\ s.pull => s.version # 0
    /\ Documents!Tells(s, u)

LEMMA DiagsRetained ==
    ASSUME DiagsFit, UNCHANGED <<v2, v6>>,
           v3' \in [Uris -> Documents!States \cup {None}],
           \A u \in Uris : v3'[u] \in {v3[u], None} \/ Retainable(u, v3'[u])
    PROVE  DiagsFit'
<1>1. Documents!KeptIsBound'
    BY DEF DiagsFit, Documents!KeptIsBound, Documents!Compatible, Retainable
<1>2. Documents!KeptTells'
    BY DEF DiagsFit, Documents!KeptTells, Documents!Tells, Retainable
<1> QED
    BY <1>1, <1>2 DEF DiagsFit

LEMMA OneRetained ==
    ASSUME DiagsFit, UNCHANGED <<v2, v6>>, NEW u \in Uris, NEW s, Retainable(u, s),
           v3' = [v3 EXCEPT ![u] = s]
    PROVE  DiagsFit'
<1>1. /\ v3' \in [Uris -> Documents!States \cup {None}]
      /\ \A w \in Uris : v3'[w] \in {v3[w], None} \/ Retainable(w, v3'[w])
    BY DEF Retainable, DiagsFit
<1> QED
    BY <1>1, DiagsRetained

LEMMA DiagnosticsArrive ==
    ASSUME Documents!DocumentsInv, Documents!Publish
    PROVE  Documents!DocumentsInv'
<1>0. DocsFit /\ DiagsFit /\ AsksFit
    BY DocumentsParts
<1> DEFINE p == Head(v4)
           s == [items |-> p.items, version |-> p.version, gen |-> v2[p.uri].gen, pull |-> FALSE,
                 apart |-> Documents!Ahead(p.uri)]
<1>1. v4 \in Seq(Documents!Publications) /\ v4 # <<>>
    BY <1>0 DEF DocsFit, Documents!Publish
<1>2. /\ v3' = IF Documents!Accepted(p) THEN [v3 EXCEPT ![p.uri] = s] ELSE v3
      /\ v4' = Tail(v4) /\ UNCHANGED <<v1, v2, v5, v6, v7, v9, v10>>
    BY DEF Documents!Publish
<1>3. p \in Documents!Publications /\ 1 \in DOMAIN v4 /\ p = v4[1]
    BY <1>1
<1>4. p.uri \in Uris /\ p.items \in Nat /\ p.version \in Nat
    BY <1>3 DEF Documents!Publications
<1>5. v4' \in Seq(Documents!Publications) /\ Held(v4') \subseteq Held(v4)
  <2>1. v4' \in Seq(Documents!Publications) /\ \A i \in DOMAIN v4' : i + 1 \in DOMAIN v4 /\ v4'[i] = v4[i + 1]
      BY <1>1, <1>2
  <2> QED
      BY <2>1 DEF Held
<1> HIDE DEF p
<1>6. ASSUME Documents!Accepted(p) PROVE Retainable(p.uri, s)
  <2>1. v2[p.uri] # None /\ p.version \in {0, v2[p.uri].version}
      BY <1>6 DEF Documents!Accepted
  <2>2. v2[p.uri].gen \in Documents!Generations
      BY <1>0, <1>4, <2>1 DEF DiagsFit, Documents!Bindings
  <2>3. s.apart \in BOOLEAN
      BY DEF Documents!Ahead
  <2>4. s.version = p.version /\ s.items = p.items /\ s.gen = v2[p.uri].gen /\ ~s.pull
        /\ s.apart = Documents!Ahead(p.uri)
      OBVIOUS
  <2>5. s \in Documents!States
      BY <1>4, <2>2, <2>3 DEF Documents!States
  <2> HIDE DEF s
  <2>6. ASSUME p.version # 0, ~Documents!Ahead(p.uri), p.uri \notin v6
        PROVE  p.items = v2[p.uri].gen[p.uri]
    <3> DEFINE doc == Documents!Doc(p.uri)
    <3>1. /\ p.uri \in Documents!Open /\ doc.version = v2[p.uri].version
          /\ doc.content = v2[p.uri].gen[p.uri]
        BY <2>6 DEF Documents!Ahead
    <3>2. PICK e \in Held(v1) : /\ e.uri = p.uri /\ p.version <= e.version
                                /\ p.version = e.version => p.items = e.content
        BY <1>0, <1>3, <2>6, PushedFits
    <3>3. e = doc
        BY <1>0, <3>1, <3>2, DocumentsAreOpen
    <3> QED
        BY <2>1, <2>6, <3>1, <3>2, <3>3
  <2>7. Documents!Tells(s, p.uri)
      BY <2>4, <2>6 DEF Documents!Tells
  <2> QED
      BY <2>1, <2>4, <2>5, <2>7 DEF Retainable, Documents!Compatible
<1> HIDE DEF s
<1>7. DiagsFit'
  <2>1. CASE Documents!Accepted(p)
      BY <1>0, <1>2, <1>4, <1>6, <2>1, OneRetained
  <2>2. CASE ~Documents!Accepted(p)
      BY <1>0, <1>2, <2>2, DiagsKept
  <2> QED
      BY <2>1, <2>2
<1>8. DocsFit' /\ AsksFit'
    BY <1>0, <1>2, <1>5, DocsKept, AsksKept DEF AsksFit
<1> QED
    BY <1>7, <1>8, DocumentsParts

\* What a diagnostic request has is of its type.
LEMMA PullFits ==
    ASSUME AsksFit, v10 # None
    PROVE  /\ v10 \in Documents!Pulls /\ v10.uri \in Uris /\ v10.gen \in Documents!Generations
           /\ v10.items \in Nat /\ v10.apart \in BOOLEAN
<1>1. v10 \in Documents!Pulls
    BY DEF AsksFit
<1> QED
    BY <1>1 DEF Documents!Pulls

LEMMA RequestIsSent ==
    ASSUME Documents!DocumentsInv, Documents!PullAsks
    PROVE  Documents!DocumentsInv'
<1>0. DocsFit /\ DiagsFit /\ AsksFit
    BY DocumentsParts
<1> DEFINE u == v10.uri
           a == Documents!Ahead(u) \/ {v2[u].gen, v7[u]} # {v10.gen}
<1>1. v10 # None /\ UNCHANGED <<v1, v2, v3, v4, v5, v6, v7, v9>>
    BY DEF Documents!PullAsks
<1>2. PICK c \in (IF u \in Documents!Open THEN {Documents!Doc(u).content} ELSE Contents[u]) :
          v10' = [v10 EXCEPT !.items = c, !.apart = a]
    BY DEF Documents!PullAsks
<1>3. v10 \in Documents!Pulls /\ u \in Uris
    BY <1>0, <1>1, PullFits
<1>4. c \in Nat
  <2>1. CASE u \in Documents!Open
    <3>1. Documents!Doc(u) \in Documents!Document
        BY <1>0, <2>1, DocumentsAreOpen
    <3> QED
        BY <1>2, <2>1, <3>1 DEF Documents!Document
  <2>2. CASE u \notin Documents!Open
      BY <1>2, <1>3, <2>2, DocumentsAssumption
  <2> QED
      BY <2>1, <2>2
<1>5. a \in BOOLEAN
    BY DEF Documents!Ahead
<1>6. ~a => c = v10.gen[u]
  <2> SUFFICES ASSUME ~a PROVE c = v10.gen[u]
      OBVIOUS
  <2>1. u \in Documents!Open /\ Documents!Doc(u).content = v2[u].gen[u] /\ v2[u].gen = v10.gen
      BY DEF Documents!Ahead
  <2> QED
      BY <1>2, <2>1
<1> HIDE DEF a
<1>7. /\ v10' \in Documents!Pulls /\ v10'.uri = u /\ v10'.gen = v10.gen
      /\ v10'.items = c /\ v10'.apart = a
    BY <1>2, <1>3, <1>4, <1>5 DEF Documents!Pulls
<1>8. AsksFit'
  <2>1. Documents!PullTells'
      BY <1>6, <1>7 DEF Documents!PullTells
  <2>2. Documents!WaiterTells'
      BY <1>0, <1>1 DEF AsksFit, Documents!WaiterTells, Documents!Tells
  <2> QED
      BY <1>0, <1>1, <1>7, <2>1, <2>2 DEF AsksFit
<1>9. DocsFit' /\ DiagsFit'
    BY <1>0, <1>1, DocsKept, DiagsKept DEF DocsFit
<1> QED
    BY <1>8, <1>9, DocumentsParts

\* The request is over.
LEMMA RequestEnds ==
    ASSUME DocsFit, AsksFit, v10' = None, UNCHANGED <<v1, v4, v5, v6, v7, v9>>, DiagsFit'
    PROVE  Documents!DocumentsInv'
<1>1. AsksFit'
    BY DEF AsksFit, Documents!PullTells, Documents!WaiterTells, Documents!Tells
<1>2. DocsFit'
    BY DocsKept DEF DocsFit
<1> QED
    BY <1>1, <1>2, DocumentsParts

LEMMA FullReport ==
    ASSUME Documents!DocumentsInv, Documents!PullFull
    PROVE  Documents!DocumentsInv'
<1>0. DocsFit /\ DiagsFit /\ AsksFit
    BY DocumentsParts
<1> DEFINE u == v10.uri
           s == [items |-> v10.items, version |-> v2[u].version, gen |-> v2[u].gen, pull |-> TRUE,
                 apart |-> v10.apart \/ v2[u].gen # v7[u]]
<1>1. /\ v10 # None /\ v10.items # 0 /\ v7[u] = v10.gen /\ v2[u] # None
      /\ v3' = [v3 EXCEPT ![u] = s] /\ v10' = None /\ UNCHANGED <<v1, v2, v4, v5, v6, v7, v9>>
    BY DEF Documents!PullFull, Documents!IsCurrent
<1>2. u \in Uris /\ v10.items \in Nat /\ v10.apart \in BOOLEAN
    BY <1>0, <1>1, PullFits
<1>3. v2[u] \in Documents!Bindings
    BY <1>0, <1>1, <1>2 DEF DiagsFit
<1>4. v2[u].version \in Nat \ {0} /\ v2[u].gen \in Documents!Generations
    BY <1>3 DEF Documents!Bindings
<1>5. Retainable(u, s)
  <2>1. s \in Documents!States
      BY <1>2, <1>4 DEF Documents!States
  <2>2. /\ s.version = v2[u].version /\ s.gen = v2[u].gen /\ s.items = v10.items
        /\ s.apart <=> v10.apart \/ v2[u].gen # v7[u]
      OBVIOUS
  <2> HIDE DEF s
  <2>3. ~v10.apart => v10.items = v10.gen[u]
      BY <1>0, <1>1 DEF AsksFit, Documents!PullTells
  <2>4. Documents!Tells(s, u)
      BY <1>1, <2>2, <2>3 DEF Documents!Tells
  <2> QED
      BY <1>1, <1>4, <2>1, <2>2, <2>4 DEF Retainable, Documents!Compatible
<1> HIDE DEF s, u
<1>6. DiagsFit'
    BY <1>0, <1>1, <1>2, <1>5, OneRetained
<1> QED
    BY <1>0, <1>1, <1>6, RequestEnds

LEMMA UnchangedReport ==
    ASSUME Documents!DocumentsInv, Documents!PullUnchanged
    PROVE  Documents!DocumentsInv'
<1>0. DocsFit /\ DiagsFit /\ AsksFit
    BY DocumentsParts
<1> DEFINE u == v10.uri
           s == [v3[u] EXCEPT !.version = v2[u].version]
<1>1. /\ v10 # None /\ v2[u] # None /\ v3[u] # None /\ v3[u].pull
      /\ Documents!Compatible(v3[u], v2[u])
      /\ v3' = [v3 EXCEPT ![u].version = v2[u].version]
      /\ v10' = None /\ UNCHANGED <<v1, v2, v4, v5, v6, v7, v9>>
    BY DEF Documents!PullUnchanged
<1>2. u \in Uris
    BY <1>0, <1>1, PullFits
<1>3. v3' = [v3 EXCEPT ![u] = s]
    BY <1>0, <1>1, <1>2 DEF DiagsFit
<1>4. v3[u] \in Documents!States /\ v2[u] \in Documents!Bindings
    BY <1>0, <1>1, <1>2 DEF DiagsFit
<1>5. v3[u].version # 0 /\ v3[u].version = v2[u].version /\ v3[u].gen = v2[u].gen
    BY <1>0, <1>1, <1>2 DEF DiagsFit, Documents!KeptIsBound, Documents!Compatible
<1>6. Retainable(u, s)
  <2>1. v2[u].version \in Nat
      BY <1>4 DEF Documents!Bindings
  <2>2. s \in Documents!States /\ s.version = v2[u].version /\ s.gen = v3[u].gen
        /\ s.items = v3[u].items /\ s.pull = v3[u].pull /\ s.apart = v3[u].apart
      BY <1>4, <2>1 DEF Documents!States
  <2> HIDE DEF s
  <2>3. Documents!Tells(s, u)
      BY <1>0, <1>1, <1>2, <1>5, <2>2 DEF DiagsFit, Documents!KeptTells, Documents!Tells
  <2> QED
      BY <1>1, <1>5, <2>2, <2>3 DEF Retainable, Documents!Compatible
<1> HIDE DEF s, u
<1>7. DiagsFit'
    BY <1>0, <1>1, <1>2, <1>3, <1>6, OneRetained
<1> QED
    BY <1>0, <1>1, <1>7, RequestEnds

LEMMA RequestFails ==
    ASSUME Documents!DocumentsInv, Documents!PullFails
    PROVE  Documents!DocumentsInv'
<1>1. v10' = None /\ UNCHANGED <<v1, v2, v3, v4, v5, v6, v7, v9>>
    BY DEF Documents!PullFails
<1> QED
    BY <1>1, DocumentsParts, DiagsKept, RequestEnds

LEMMA DiagnosticsDropped ==
    ASSUME Documents!DocumentsInv, Documents!Invalidate
    PROVE  Documents!DocumentsInv'
<1>0. DocsFit /\ DiagsFit /\ AsksFit
    BY DocumentsParts
<1>1. v3' = [u \in Uris |-> None] /\ UNCHANGED <<v1, v2, v4, v5, v6, v7, v9, v10>>
    BY DEF Documents!Invalidate
<1>2. DiagsFit'
    BY <1>0, <1>1, DiagsRetained
<1>3. DocsFit' /\ AsksFit'
    BY <1>0, <1>1, DocsKept, AsksKept DEF DocsFit, AsksFit
<1> QED
    BY <1>2, <1>3, DocumentsParts

\* A step of the waiter: what it has is of the generation it names.
LEMMA WaiterSteps ==
    ASSUME Documents!DocumentsInv, UNCHANGED <<v1, v2, v3, v4, v6, v7, v9, v10>>,
           v5' \in Documents!Waits \cup {None}, Documents!WaiterTells'
    PROVE  Documents!DocumentsInv'
<1>0. DocsFit /\ DiagsFit /\ AsksFit
    BY DocumentsParts
<1>1. AsksFit'
    BY <1>0 DEF AsksFit, Documents!PullTells
<1>2. DocsFit' /\ DiagsFit'
    BY <1>0, DocsKept, DiagsKept DEF DocsFit
<1> QED
    BY <1>1, <1>2, DocumentsParts

LEMMA WaitingBegins ==
    ASSUME Documents!DocumentsInv, Documents!WaitBegins
    PROVE  Documents!DocumentsInv'
<1>0. DocsFit /\ AsksFit
    BY DocumentsParts
<1> DEFINE v == Documents!Doc(v5.uri).version
<1>1. /\ v5 # None /\ v5.uri \in Documents!Open /\ v5' = [v5 EXCEPT !.version = v]
      /\ UNCHANGED <<v1, v2, v3, v4, v6, v7, v9, v10>>
    BY DEF Documents!WaitBegins
<1>2. v \in Nat
  <2>1. Documents!Doc(v5.uri) \in Documents!Document
      BY <1>0, <1>1, DocumentsAreOpen
  <2> QED
      BY <2>1 DEF Documents!Document
<1>3. v5 \in Documents!Waits
    BY <1>0, <1>1 DEF AsksFit
<1> HIDE DEF v
<1>4. v5' \in Documents!Waits /\ v5'.uri = v5.uri /\ v5'.gen = v5.gen /\ v5'.got = v5.got
    BY <1>1, <1>2, <1>3 DEF Documents!Waits
<1>5. Documents!WaiterTells'
    BY <1>0, <1>1, <1>4 DEF AsksFit, Documents!WaiterTells, Documents!Tells
<1> QED
    BY <1>1, <1>4, <1>5, WaiterSteps

LEMMA WaitingGets ==
    ASSUME Documents!DocumentsInv, Documents!WaitGets
    PROVE  Documents!DocumentsInv'
<1>0. DiagsFit /\ AsksFit
    BY DocumentsParts
<1> DEFINE s == v3[v5.uri]
<1>1. /\ v5 # None /\ v5' = [v5 EXCEPT !.got = s] /\ s # None /\ Documents!Compatible(s, v5)
      /\ UNCHANGED <<v1, v2, v3, v4, v6, v7, v9, v10>>
    BY DEF Documents!WaitGets, Documents!Current
<1>2. v5 \in Documents!Waits
    BY <1>0, <1>1 DEF AsksFit
<1>3. v5.uri \in Uris
    BY <1>2 DEF Documents!Waits
<1>4. s \in Documents!States /\ Documents!Tells(s, v5.uri)
    BY <1>0, <1>1, <1>3 DEF DiagsFit, Documents!KeptTells
<1> HIDE DEF s
<1>5. v5' \in Documents!Waits /\ v5'.uri = v5.uri /\ v5'.gen = v5.gen /\ v5'.got = s
    BY <1>1, <1>2, <1>4 DEF Documents!Waits
<1>6. Documents!WaiterTells'
    BY <1>1, <1>4, <1>5 DEF Documents!WaiterTells, Documents!Tells, Documents!Compatible
<1> QED
    BY <1>1, <1>5, <1>6, WaiterSteps

LEMMA DocumentsStep ==
    ASSUME Documents!DocumentsInv, [Documents!Next]_DocumentVars
    PROVE  Documents!DocumentsInv'
<1>1. CASE \E u \in Uris : \/ \E g \in Documents!Trees : Documents!PrepareBegins(u, g)
                           \/ \E v \in BOOLEAN : Documents!Push(u, v)
                           \/ Documents!PrepareChanges(u)
    BY <1>1, PreparationBegins, DiagnosticsArePushed, PreparationChanges
<1>2. CASE Documents!PrepareOpens \/ Documents!PrepareFails
           \/ \E then \in {"wait", "pull", "other"} : Documents!PrepareEnds(then)
    BY <1>2, PreparationOpens, PreparationFails, PreparationEnds
<1>3. CASE Documents!Publish \/ Documents!PullAsks \/ Documents!PullFull \/ Documents!PullUnchanged
           \/ Documents!PullFails \/ Documents!Invalidate
    BY <1>3, DiagnosticsArrive, RequestIsSent, FullReport, UnchangedReport, RequestFails,
       DiagnosticsDropped
<1>4. CASE Documents!WaitBegins \/ Documents!WaitGets
    BY <1>4, WaitingBegins, WaitingGets
<1>5. CASE Documents!WaitEnds
  <2>1. v5' = None /\ UNCHANGED <<v1, v2, v3, v4, v6, v7, v9, v10>>
      BY <1>5 DEF Documents!WaitEnds
  <2>2. Documents!WaiterTells'
      BY <2>1 DEF Documents!WaiterTells
  <2> QED
      BY <2>1, <2>2, WaiterSteps
<1>6. CASE UNCHANGED DocumentVars
  <2>1. UNCHANGED <<v1, v2, v3, v4, v5, v6, v7, v9, v10>>
      BY <1>6 DEF DocumentVars
  <2>2. v5' \in Documents!Waits \cup {None} /\ Documents!WaiterTells'
      BY <2>1, DocumentsParts DEF AsksFit, Documents!WaiterTells, Documents!Tells
  <2> QED
      BY <2>1, <2>2, WaiterSteps
<1> QED
    BY <1>1, <1>2, <1>3, <1>4, <1>5, <1>6 DEF Documents!Next

\* Theorem: the open documents stay within the budget, and diagnostics that
\* name a version are of the content the waiter asked about, unless the
\* document was evicted before or text, binding and record were apart when the
\* diagnostics were asked for or stored (sessions.py, broker.py,
\* diagnostics.py): any documents, generations and budget, any number of
\* preparations, versions and diagnostics on their way.
THEOREM DiagnosticsFitDocuments == Spec => []DocumentsAreCoherent
<1> DEFINE Inv == machine = "documents" => Documents!DocumentsInv
<1>1. Init => Inv
    BY DocumentsStart DEF Init
<1>2. Inv /\ [Next]_vars => Inv'
  <2> SUFFICES ASSUME Inv, [Next]_vars, machine = "documents" PROVE Documents!DocumentsInv'
      BY DEF Next, vars
  <2>1. [Documents!Next]_DocumentVars
      BY DEF Next, vars, DocumentVars
  <2> QED
      BY <2>1, DocumentsStep
<1>3. Inv => DocumentsAreCoherent
    BY DEF DocumentsAreCoherent, Documents!DocumentsInv, Documents!WaiterTells, Documents!Tells,
           Documents!DiagnosticsAreOfTheContent
<1> QED
    BY <1>1, <1>2, <1>3, PTL DEF Spec
=============================================================================
