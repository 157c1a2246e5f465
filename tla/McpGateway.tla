----------------------------- MODULE McpGateway -----------------------------
(***************************************************************************)
(* The gateway to other MCP servers (gateway.py) and the health tracker    *)
(* that probes them (mcp_health.py).                                       *)
(*                                                                         *)
(* A backend is reached over HTTP or is a child process on a pipe.  Its    *)
(* lifecycle decides who shares a client: everybody (shared, HTTP only),   *)
(* the calls of one front connection (session, pipe only) or nobody        *)
(* (on_demand).  The tracker probes every enabled backend with a client of *)
(* its own; its shutdown may cancel a probe that is still connecting.      *)
(***************************************************************************)
EXTENDS Naturals

CONSTANTS
    Backends,      \* configured backends
    Config,        \* each one's stdio, lifecycle, auth, secrets
    Fronts,        \* connections of clients to this server
    Rejections,    \* how deep an authentication error may lie in a failure
    MaxInspected,  \* exceptions of a failure that are inspected
    Setups,        \* the backends that are enabled and the connections that are
                   \* open; with the bounds for rounds of probes and for calls
    MaxChanges,    \* bound: changes of the environment's secrets
    None

VARIABLES
    secret,    \* the backends whose variables and stored tokens are there
    tracker,   \* McpHealthTracker: closed, task, rounds
    probe,     \* where the probe of each backend is
    reaping,   \* backends whose probe's client is being closed by itself
    everOk,    \* _ever_ok
    snapshot,  \* _snapshots: state, catalog digest and tool count
    procs,     \* live child processes
    front,     \* the front connections
    cache,     \* _caches of the stateful clients: pairs of front and backend
    shared,    \* backends whose shared_client is there
    call,      \* the call each front has in progress
    calls, changes,
    setup      \* one of Setups

trackerVars == <<tracker, probe, reaping, everOk, snapshot>>
frontVars   == <<front, cache, shared, call, calls>>
vars == <<secret, trackerVars, procs, frontVars, changes, setup>>

Enabled == setup.enabled
Process(kind, f, b) == [kind |-> kind, of |-> f, backend |-> b]

\* _seed: nothing is known of a backend before its first probe.
Seed == [state |-> "unknown", digest |-> None, tools |-> None]

Init ==
    /\ setup \in Setups
    /\ secret \in {Backends, {}}
    /\ tracker = [closed |-> FALSE, task |-> "none", rounds |-> 0]
    /\ probe = [b \in Backends |-> "idle"]
    /\ reaping = {}
    /\ everOk = {}
    /\ snapshot = [b \in Backends |-> Seed]
    /\ procs = {}
    /\ front = [f \in Fronts |-> IF f \in setup.fronts THEN "open" ELSE "closed"]
    /\ cache = {}
    /\ shared = {}
    /\ call = [f \in Fronts |-> None]
    /\ calls = 0
    /\ changes = 0

----------------------------------------------------------------------------
(* Transports.                                                             *)

\* _oauth_auth, _isolated_http_client_factory: an HTTP client takes its own
\* headers, certificates and credentials from the environment or the token
\* store, and the front's never; with one missing it is not built.
HttpAuth(b) == b \in secret \/ ~Config[b].secrets

\* _transport_factory: a child process needs no secret; HTTP resolves them
\* when the client is made, so that one missing fails one backend only.
TransportBuilds(b) == Config[b].stdio \/ HttpAuth(b)

\* A client of a child process starts it when it connects.
Spawned(p) == IF Config[p.backend].stdio THEN procs \cup {p} ELSE procs

----------------------------------------------------------------------------
(* The health tracker.                                                     *)

\* _record: digest and version are those of the last probe that went well.
Recorded(b, state, digest, tools) ==
    [snapshot EXCEPT ![b] =
        [state  |-> state,
         digest |-> IF state = "ok" THEN digest ELSE @.digest,
         tools  |-> tools]]

\* Mutant: every failure is a regression.
RecordedFailureDegraded(b) == Recorded(b, "degraded", None, None)

\* _record_failure: "degraded" for a backend that answered once.
RecordedFailure(b) ==
    Recorded(b, IF b \in everOk THEN "degraded" ELSE "down", None, None)

\* _is_authentication_failure: causes, contexts and groups are followed for
\* at most MaxInspected exceptions.
IsAuthenticationFailure(depth) == depth # None /\ depth < MaxInspected

\* start: at most one loop, none without an enabled backend.
Start ==
    /\ ~tracker.closed
    /\ tracker.task = "none"
    /\ tracker.rounds < setup.rounds
    /\ Enabled # {}
    /\ tracker' = [tracker EXCEPT !.task = "probing", !.rounds = @ + 1]
    /\ probe' = [b \in Backends |-> IF b \in Enabled THEN "due" ELSE "idle"]
    /\ UNCHANGED <<secret, reaping, everOk, snapshot, procs, frontVars, changes>>

\* probe_once ends when every probe has; then _run sleeps for the interval.
EndRound ==
    /\ tracker.task = "probing"
    /\ \A b \in Enabled : probe[b] = "idle"
    /\ tracker' = [tracker EXCEPT !.task = "sleeping"]
    /\ UNCHANGED <<secret, probe, reaping, everOk, snapshot, procs, frontVars, changes>>

NextRound ==
    /\ tracker.task = "sleeping"
    /\ tracker.rounds < setup.rounds
    /\ tracker' = [tracker EXCEPT !.task = "probing", !.rounds = @ + 1]
    /\ probe' = [b \in Backends |-> IF b \in Enabled THEN "due" ELSE "idle"]
    /\ UNCHANGED <<secret, reaping, everOk, snapshot, procs, frontVars, changes>>

\* _probe_backend up to the connection: without stored tokens (oauth) or the
\* token's variable (bearer_env) the login is asked for, without a try.
BeginProbe(b) ==
    /\ probe[b] = "due"
    /\ tracker.task = "probing"
    /\ IF Config[b].auth # "none" /\ b \notin secret
       THEN /\ snapshot' = Recorded(b, "unauthenticated", None, None)
            /\ probe' = [probe EXCEPT ![b] = "idle"]
            /\ UNCHANGED procs
       ELSE IF ~TransportBuilds(b)
       THEN /\ snapshot' = RecordedFailure(b)
            /\ probe' = [probe EXCEPT ![b] = "idle"]
            /\ UNCHANGED procs
       ELSE /\ probe' = [probe EXCEPT ![b] = "connecting"]
            /\ procs' = Spawned(Process("probe", None, b))
            /\ UNCHANGED snapshot
    /\ UNCHANGED <<secret, tracker, reaping, everOk, frontVars, changes>>

\* The backend answers list_tools; the client is closed on the way out.
ProbeAnswers(b) ==
    /\ probe[b] = "connecting"
    /\ everOk' = everOk \cup {b}
    /\ \E digest \in {1, 2} : snapshot' = Recorded(b, "ok", digest, digest)
    /\ probe' = [probe EXCEPT ![b] = "idle"]
    /\ procs' = procs \ {Process("probe", None, b)}
    /\ UNCHANGED <<secret, tracker, reaping, frontVars, changes>>

\* It fails or runs into its timeout, with an authentication error somewhere
\* in the failure or without; the client library ends the process.
ProbeFails(b, depth) ==
    /\ probe[b] = "connecting"
    /\ snapshot' = IF IsAuthenticationFailure(depth)
                   THEN Recorded(b, "unauthenticated", None, None)
                   ELSE RecordedFailure(b)
    /\ probe' = [probe EXCEPT ![b] = "idle"]
    /\ procs' = procs \ {Process("probe", None, b)}
    /\ UNCHANGED <<secret, tracker, reaping, everOk, frontVars, changes>>

\* Mutant: the child of a cancelled probe is left to itself.
AcloseUnreaped ==
    /\ ~tracker.closed
    /\ tracker' = [tracker EXCEPT !.closed = TRUE,
                       !.task = IF @ = "none" THEN "none" ELSE "cancelled"]
    /\ probe' = [b \in Backends |-> "idle"]
    /\ UNCHANGED <<secret, reaping, everOk, snapshot, procs, frontVars, changes>>

\* aclose: the loop is cancelled, and with it every probe; one that was
\* connecting starts a close of its client, as a task of its own.
Aclose ==
    /\ ~tracker.closed
    /\ tracker' = [tracker EXCEPT !.closed = TRUE,
                       !.task = IF @ = "none" THEN "none" ELSE "cancelled"]
    /\ reaping' = {b \in Backends : probe[b] = "connecting"}
    /\ probe' = [b \in Backends |->
                    IF probe[b] = "connecting" THEN "reaping" ELSE "idle"]
    /\ UNCHANGED <<secret, everOk, snapshot, procs, frontVars, changes>>

\* The close ends the process, also after nobody waits for it any longer.
Reaped(b) ==
    /\ b \in reaping
    /\ reaping' = reaping \ {b}
    /\ procs' = procs \ {Process("probe", None, b)}
    /\ probe' = [probe EXCEPT ![b] = "idle"]
    /\ UNCHANGED <<secret, tracker, everOk, snapshot, frontVars, changes>>

\* The probe waits for its close for a bounded time, and the tracker for its
\* task; the shield leaves the close running.
StopWaiting(b) ==
    /\ probe[b] = "reaping"
    /\ probe' = [probe EXCEPT ![b] = "idle"]
    /\ UNCHANGED <<secret, tracker, reaping, everOk, snapshot, procs, frontVars, changes>>

AcloseEnds ==
    /\ tracker.task = "cancelled"
    /\ \A b \in Backends : probe[b] = "idle"
    /\ tracker' = [tracker EXCEPT !.task = "none"]
    /\ UNCHANGED <<secret, probe, reaping, everOk, snapshot, procs, frontVars, changes>>

----------------------------------------------------------------------------
(* Calls through the gateway.                                              *)

\* new_stateful: one client for each front connection, kept for its life.
StatefulProcess(f, b) == Process("session", f, b)

\* The client a call gets, by _client_factory: the shared one, built at the
\* first use; the connection's; or one of the call's own.
ClientOf(f, b) ==
    CASE Config[b].lifecycle = "shared"  -> Process("http", None, b)
      [] Config[b].lifecycle = "session" -> StatefulProcess(f, b)
      [] OTHER                           -> Process("call", f, b)

Call(f, b) ==
    /\ front[f] = "open"
    /\ call[f] = None
    /\ b \in Enabled                   \* attach_mcp_proxies
    /\ calls < setup.calls
    /\ calls' = calls + 1
    /\ IF b \in shared \/ TransportBuilds(b)
       THEN /\ call' = [call EXCEPT ![f] = ClientOf(f, b)]
            /\ shared' = IF Config[b].lifecycle = "shared" THEN shared \cup {b} ELSE shared
            /\ cache' = IF Config[b].lifecycle = "session"
                        THEN cache \cup {<<f, b>>} ELSE cache
            /\ procs' = Spawned(ClientOf(f, b))
       ELSE UNCHANGED <<call, shared, cache, procs>>
    /\ UNCHANGED <<secret, trackerVars, front, changes>>

\* The call ends; a client of its own is closed, and its process with it.
EndCall(f) ==
    /\ call[f] # None
    /\ procs' = procs \ {Process("call", f, b) : b \in Backends}
    /\ call' = [call EXCEPT ![f] = None]
    /\ UNCHANGED <<secret, trackerVars, front, cache, shared, calls, changes>>

\* The front connection goes: its call is cancelled, and its exit stack still
\* holds the callbacks that close the cached clients.
Leave(f) ==
    /\ front[f] = "open"
    /\ front' = [front EXCEPT ![f] = "exiting"]
    /\ call' = [call EXCEPT ![f] = None]
    /\ procs' = procs \ {Process("call", f, b) : b \in Backends}
    /\ UNCHANGED <<secret, trackerVars, cache, shared, calls, changes>>

\* disconnect_on_connection_exit, shielded: out of the cache, then ended.
Disconnect(f, b) ==
    /\ front[f] = "exiting"
    /\ <<f, b>> \in cache
    /\ cache' = cache \ {<<f, b>>}
    /\ procs' = procs \ {Process("session", f, b)}
    /\ UNCHANGED <<secret, trackerVars, front, shared, call, calls, changes>>

Left(f) ==
    /\ front[f] = "exiting"
    /\ \A b \in Backends : <<f, b>> \notin cache
    /\ front' = [front EXCEPT ![f] = "closed"]
    /\ UNCHANGED <<secret, trackerVars, procs, cache, shared, call, calls, changes>>

\* The environment: a login, a logout, a variable that is set or dropped.
ChangeSecret(b) ==
    /\ changes < MaxChanges
    /\ changes' = changes + 1
    /\ secret' = IF b \in secret THEN secret \ {b} ELSE secret \cup {b}
    /\ UNCHANGED <<trackerVars, procs, frontVars>>

Next ==
    /\ UNCHANGED setup
    /\ \/ Start \/ EndRound \/ NextRound \/ Aclose \/ AcloseEnds
       \/ \E b \in Backends :
           \/ BeginProbe(b) \/ ProbeAnswers(b) \/ Reaped(b) \/ StopWaiting(b)
           \/ ChangeSecret(b)
           \/ \E depth \in Rejections \cup {None} : ProbeFails(b, depth)
       \/ \E f \in Fronts :
           \/ EndCall(f) \/ Leave(f) \/ Left(f)
           \/ \E b \in Backends : Call(f, b) \/ Disconnect(f, b)

Spec == Init /\ [][Next]_vars

----------------------------------------------------------------------------
\* Every child process has somebody who will end it: its probe, the close of
\* a cancelled probe's client, the connection that caches it, or its call;
\* and a call on a pipe runs on a process no other connection can reach.
ChildrenAreOwned ==
    /\ \A p \in procs :
        \/ p.kind = "probe" /\ (probe[p.backend] = "connecting" \/ p.backend \in reaping)
        \/ p.kind = "session" /\ front[p.of] # "closed" /\ <<p.of, p.backend>> \in cache
        \/ p.kind = "call" /\ call[p.of] = p
    /\ \A f \in Fronts : call[f] # None /\ call[f].kind # "http" =>
            call[f].of = f /\ (Config[call[f].backend].stdio => call[f] \in procs)

\* The health that is reported tells an outage from a regression: a backend
\* is degraded only after it answered, down only when it never did, and the
\* digest that is shown is there exactly when it answered once.
HealthIsHonest ==
    \A b \in Backends :
        /\ snapshot[b].state = "degraded" => b \in everOk
        /\ snapshot[b].state = "down" => b \notin everOk
        /\ (snapshot[b].digest # None) <=> (b \in everOk)
        /\ (snapshot[b].tools # None) <=> (snapshot[b].state = "ok")

\* The invariant that explains them.  What is reported of a backend:
Snapshots == [state : {"unknown", "ok", "degraded", "down", "unauthenticated"},
              digest : {None, 1, 2}, tools : {None, 1, 2}]
HealthFits == everOk \subseteq Backends /\ snapshot \in [Backends -> Snapshots] /\ HealthIsHonest

\* A round probes the enabled backends; no probe connects outside of one; the
\* child of a probe belongs to no connection.
Trackers == [closed : BOOLEAN, task : {"none", "probing", "sleeping", "cancelled"}, rounds : Nat]
ProbesFit ==
    /\ tracker \in Trackers
    /\ probe \in [Backends -> {"idle", "due", "connecting", "reaping"}]
    /\ reaping \subseteq Backends
    /\ \A b \in Backends :
        /\ probe[b] \in {"due", "connecting"} => b \in setup.enabled
        /\ probe[b] = "connecting" => tracker.task = "probing"
    /\ ~tracker.closed => reaping = {}
    /\ \A p \in procs : p.kind = "probe" =>
            p.of = None /\ (probe[p.backend] = "connecting" \/ p.backend \in reaping)

\* A call is made by an open connection, with a client of the kind its backend
\* has; a connection that closed has no client left; the other children are of
\* sessions and calls.
Processes == [kind : {"probe", "session", "call", "http"}, of : Fronts \cup {None}, backend : Backends]
OwnedByFront(p) ==
    /\ p.of \in Fronts
    /\ \/ p.kind = "session" /\ front[p.of] # "closed" /\ <<p.of, p.backend>> \in cache
       \/ p.kind = "call" /\ call[p.of] = p
CallOf(f) ==
    /\ call[f] # None =>
        /\ front[f] = "open" /\ call[f] = ClientOf(f, call[f].backend)
        /\ call[f].kind # "http" => call[f].of = f /\ (Config[call[f].backend].stdio => call[f] \in procs)
        /\ call[f].kind = "session" => <<f, call[f].backend>> \in cache
    /\ front[f] = "closed" => \A b \in Backends : <<f, b>> \notin cache
CallsFit ==
    /\ procs \subseteq Processes
    /\ front \in [Fronts -> {"open", "exiting", "closed"}]
    /\ cache \subseteq Fronts \X Backends
    /\ call \in [Fronts -> Processes \cup {None}]
    /\ \A f \in Fronts : CallOf(f)
    /\ \A p \in procs : p.kind # "probe" => OwnedByFront(p)

GatewayInv == HealthFits /\ ProbesFit /\ CallsFit
=============================================================================
