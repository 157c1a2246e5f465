---------------------------- MODULE NodeRuntime ----------------------------
(***************************************************************************)
(* The two Node workers: the PostgreSQL parser (postgresql/node_runtime.py,*)
(* NodeParserRuntime) and the TypeScript analyser (typescript/             *)
(* node_runtime.py, TypeScriptNodeRuntime), and the provisioning of their  *)
(* packages.                                                               *)
(*                                                                         *)
(* Each runtime keeps at most one child process.  A request takes the      *)
(* lock, starts the child if there is none, writes one frame and waits for *)
(* one frame back, with a deadline.  The runtimes differ in what they do   *)
(* with a frame that is not theirs: the parser's ends the child, the       *)
(* analyser's only ends it when the frame cannot be read.                  *)
(***************************************************************************)
EXTENDS Naturals, Sequences

CONSTANTS
    Runtimes,   \* "postgresql", "typescript"
    Callers,    \* threads that use the runtime
    MaxId,      \* bound: requests
    MaxSpawns,  \* bound: children started
    MaxFaults,  \* bound: stray frames, exits and lost packages
    None

VARIABLES
    prefix,   \* the managed prefix: what is there, and the package's version
    closed,   \* _closed
    lock,     \* who holds _lock
    child,    \* _process: its number, or None
    live,     \* numbers of the children that run
    pipe,     \* frames from the installed child that nobody has read
    asked,    \* the requests the installed child has yet to answer
    nextId,   \* _sequence, _request_id
    request,  \* what each caller waits for
    got,      \* the last outcome of each caller
    spawns, faults,
    runtime   \* which of the two it is

vars == <<prefix, closed, lock, child, live, pipe, asked, nextId, request, got,
          spawns, faults, runtime>>

Prefixes == [at : {"absent", "file", "empty", "foreign", "managed"},
             version : {None, "exact", "other"}]

\* An outcome that gives the caller nothing of the child's.
Failure(kind) == [kind |-> kind, mine |-> TRUE]

Init ==
    /\ prefix \in {p \in Prefixes : p.at = "managed" \/ p.version = None}
    /\ closed = FALSE
    /\ lock = None
    /\ child = None
    /\ live = {}
    /\ pipe = <<>>
    /\ asked = <<>>
    /\ nextId = 0
    /\ request = [c \in Callers |-> None]
    /\ got = [c \in Callers |-> Failure("none")]
    /\ spawns = 0
    /\ faults = 0
    /\ runtime \in Runtimes

----------------------------------------------------------------------------
(* Provisioning: provision_parser, provision_typescript_runtime.           *)

\* resolve_parser_installation, resolve_typescript_installation: only the
\* exact version counts.
Installed == prefix.at = "managed" /\ prefix.version = "exact"

\* Neither a file nor a directory with somebody's files is provisioned into.
MayProvision == prefix.at \in {"absent", "empty", "managed"}

\* The directory and its manifest come first, then the package manager, which
\* may fail, run out of time or leave another version behind.
Provision(version) ==
    /\ MayProvision
    /\ prefix' = [at |-> "managed", version |-> version]
    /\ UNCHANGED <<closed, lock, child, live, pipe, asked, nextId, request, got,
                   spawns, faults>>

\* Somebody removes or replaces the package.
LosePackage ==
    /\ Installed
    /\ faults < MaxFaults
    /\ faults' = faults + 1
    /\ prefix' \in {[prefix EXCEPT !.version = v] : v \in {None, "other"}}
    /\ UNCHANGED <<closed, lock, child, live, pipe, asked, nextId, request, got, spawns>>

----------------------------------------------------------------------------
(* One request: _exchange, _request.                                       *)

\* _reap_process, _terminate: the field is cleared, the child is asked to end,
\* killed when it does not, and its streams are closed.
Reap ==
    /\ child' = None
    /\ live' = live \ {child}
    /\ pipe' = <<>>
    /\ asked' = <<>>

Ends(c, outcome) ==
    /\ lock' = None
    /\ request' = [request EXCEPT ![c] = None]
    /\ got' = [got EXCEPT ![c] = outcome]

\* _ensure_process: a live child is used; otherwise the parser looks at its
\* installation again, and a new child is started in the dead one's place.
Startable == runtime = "typescript" \/ Installed

Running == child # None /\ child \in live

\* The request: refused when closed or when no child can be started; the
\* frame is written, and the caller waits with the lock.
Request(c) ==
    /\ lock = None
    /\ request[c] = None
    /\ nextId < MaxId
    /\ IF closed \/ (~Running /\ ~Startable)
       THEN /\ got' = [got EXCEPT ![c] = Failure("unavailable")]
            /\ UNCHANGED <<lock, child, live, pipe, asked, nextId, request, spawns>>
       ELSE /\ Running \/ spawns < MaxSpawns
            /\ lock' = c
            /\ nextId' = nextId + 1
            /\ request' = [request EXCEPT ![c] = nextId + 1]
            /\ got' = [got EXCEPT ![c] = Failure("none")]
            /\ IF Running
               THEN /\ asked' = Append(asked, nextId + 1)
                    /\ UNCHANGED <<child, live, pipe, spawns>>
               ELSE /\ child' = spawns + 1
                    /\ live' = live \cup {spawns + 1}
                    /\ spawns' = spawns + 1
                    /\ pipe' = <<>>
                    /\ asked' = <<nextId + 1>>
    /\ UNCHANGED <<prefix, closed, faults>>

\* The child is gone and closed its pipe: the write fails, or nothing but the
\* end of the stream is left to read.
Broken(c) ==
    /\ lock = c
    /\ request[c] # None
    /\ child \notin live
    /\ pipe = <<>> \/ \E i \in DOMAIN asked : asked[i] = request[c]
    /\ Reap
    /\ Ends(c, Failure("unavailable"))
    /\ UNCHANGED <<prefix, closed, nextId, spawns, faults>>

\* Nothing came before the deadline.  The analyser asks the pipe itself, and
\* does not see a frame that an earlier read has taken into its buffer.
Deadline(c) ==
    /\ lock = c
    /\ request[c] # None
    /\ pipe = <<>> \/ runtime = "typescript"
    /\ Reap
    /\ Ends(c, Failure("deadline"))
    /\ UNCHANGED <<prefix, closed, nextId, spawns, faults>>

\* Whether a frame that came ends the child: one that is too long or is no
\* JSON always; one of the wrong shape never (the parser raises before it
\* looks at the id); another request's only for the parser.
EndsChild(frame, id) ==
    \/ frame.kind = "garbage"
    \/ runtime = "postgresql" /\ frame.kind # "shape" /\ frame.id # id

\* The frame is the answer when it carries the request's number.
IsAnswer(frame, id) == frame.kind \in {"ok", "error"} /\ frame.id = id

\* A frame is read; what the caller is told is its answer, or an error.
Read(c) ==
    /\ lock = c
    /\ request[c] # None
    /\ pipe # <<>>
    /\ IF EndsChild(Head(pipe), request[c])
       THEN Reap
       ELSE /\ pipe' = Tail(pipe)
            /\ UNCHANGED <<child, live, asked>>
    /\ Ends(c, IF IsAnswer(Head(pipe), request[c])
               THEN [kind |-> Head(pipe).kind, mine |-> Head(pipe).for = request[c]]
               ELSE Failure("protocol"))
    /\ UNCHANGED <<prefix, closed, nextId, spawns, faults>>

\* close: under the lock; the parser's asks the child to end first and reaps
\* it whatever comes back, the analyser's ends it at once.
Close ==
    /\ lock = None
    /\ ~closed
    /\ closed' = TRUE
    /\ Reap
    /\ UNCHANGED <<prefix, lock, nextId, request, got, spawns, faults>>

----------------------------------------------------------------------------
(* The child.                                                              *)

\* It answers its requests in order, with a result or an error.
ChildAnswers ==
    /\ Running
    /\ asked # <<>>
    /\ \E kind \in {"ok", "error"} :
        pipe' = Append(pipe, [kind |-> kind, id |-> Head(asked), for |-> Head(asked)])
    /\ asked' = Tail(asked)
    /\ UNCHANGED <<prefix, closed, lock, child, live, nextId, request, got, spawns, faults>>

\* It writes something that was not asked for: a line of noise, a value of
\* another shape, an answer twice.
ChildStrays ==
    /\ Running
    /\ faults < MaxFaults
    /\ faults' = faults + 1
    /\ \E kind \in {"garbage", "shape", "ok"}, id \in 0 .. nextId :
        pipe' = Append(pipe, [kind |-> kind, id |-> id, for |-> id])
    /\ UNCHANGED <<prefix, closed, lock, child, live, asked, nextId, request, got, spawns>>

ChildExits ==
    /\ Running
    /\ faults < MaxFaults
    /\ faults' = faults + 1
    /\ live' = live \ {child}
    /\ UNCHANGED <<prefix, closed, lock, child, pipe, asked, nextId, request, got, spawns>>

Next ==
    /\ UNCHANGED runtime
    /\ \/ \E v \in {prefix.version, "exact", "other"} : Provision(v)
       \/ \E c \in Callers : Request(c) \/ Broken(c) \/ Deadline(c) \/ Read(c)
       \/ LosePackage \/ Close \/ ChildAnswers \/ ChildStrays \/ ChildExits

Spec == Init /\ [][Next]_vars

----------------------------------------------------------------------------
\* Whatever the child writes, late, twice or unasked, the result a caller is
\* given answers its own request.
AnswersOwnRequest ==
    \A c \in Callers : got[c].mine

\* The only child that runs is the installed one, and none after close: a
\* deadline, a broken pipe or a frame that cannot be read ends it.
OneChild == live \subseteq {child} /\ (closed => live = {})

\* The invariant that explains them: children are numbered; the number of a frame
\* that can be read says what it answers; the callers are told nothing else.
Kinds == {"none", "unavailable", "deadline", "protocol", "ok", "error"}
Frames == [kind : {"ok", "error", "garbage", "shape"}, id : Nat, for : Nat]
ChildFits == /\ spawns \in Nat /\ live \subseteq 1 .. spawns
             /\ OneChild
PipeFits == /\ nextId \in Nat /\ asked \in Seq(Nat) /\ pipe \in Seq(Frames)
            /\ \A i \in DOMAIN pipe : pipe[i].for = pipe[i].id
CallersFit == /\ request \in [Callers -> Nat \cup {None}]
              /\ got \in [Callers -> [kind : Kinds, mine : BOOLEAN]]
              /\ AnswersOwnRequest

NodeInv == ChildFits /\ PipeFits /\ CallersFit
=============================================================================
