------------------------------ MODULE McpServer ------------------------------
(***************************************************************************)
(* The MCP server of src/src/mcp/server.ts: runMcpStdioServer, one channel *)
(* that ends with its input, and runMcpHttpServer, sessions that clients   *)
(* open and delete, that expire, and that a signal ends all at once.  Both *)
(* run tool calls side by side and must be able to abort each of them.     *)
(*                                                                         *)
(* A call has a target channel and a request id, its key.  What an HTTP    *)
(* request passes before its body is read (path, origin, token, headers)   *)
(* and malformed messages change no state and are left out; so is a call   *)
(* of a session not yet initialized, which is answered at once.            *)
(***************************************************************************)
EXTENDS Naturals, FiniteSets

CONSTANTS
  Calls,          \* requests with an id, tools/call among them
  Keys,           \* request ids
  KeyOf,          \* rpcRequestKey of each call
  Sessions,       \* values of MCP-Session-Id, each used once
  Stdio,          \* the channel of the stdio server
  Limits          \* what the two limits may be configured as

ASSUME McpAssumption ==
  /\ IsFiniteSet(Calls) /\ IsFiniteSet(Sessions)
  /\ KeyOf \in [Calls -> Keys]
  /\ Stdio \notin Sessions
  /\ Limits \subseteq Nat

Channels == Sessions \cup {Stdio}

VARIABLES
  options,      \* maximumSessions and maximumConcurrentRequestsPerSession
  transport,    \* which of the two servers runs
  server,       \* "up", "closing" after the signal or the end of input, "closed"
  phase,        \* of each channel; the map sessions holds InMap
  initialized,  \* channels whose client has sent notifications/initialized
  stale,        \* sessions whose lastAccessAt is older than the TTL
  active,       \* session.activeRequests
  controllers,  \* per channel, the calls its map of abort controllers names
  pc,           \* of each call
  target,  \* of each call that has arrived
  aborted,      \* calls whose signal has fired
  asked         \* history: calls somebody asked to stop

vars == <<options, transport, server, phase, initialized, stale, active, controllers,
          pc, target, aborted, asked>>

-----------------------------------------------------------------------------
Gone == {"deleted", "pruned", "dropped"}

InMap(s) == phase[s] \in {"initializing", "open"}

Mapped == {s \in Sessions : InMap(s)}

CallsOf(s) == {r \in Calls : pc[r] = "running" /\ target[r] = s}

TypeOK ==
  /\ options \in [sessions : Limits, calls : Limits]
  /\ transport \in {"stdio", "http"}
  /\ server \in {"up", "closing", "closed"}
  /\ phase \in [Channels -> {"unused", "uploading", "initializing", "open"} \cup Gone]
  /\ initialized \in SUBSET Channels
  /\ stale \in SUBSET Sessions
  /\ active \in [Sessions -> Nat]
  /\ controllers \in [Channels -> SUBSET Calls]
  /\ pc \in [Calls -> {"idle", "uploading", "running", "done"}]
  /\ target \in [Calls -> Channels]
  /\ aborted \in SUBSET Calls
  /\ asked \in SUBSET Calls

Init ==
  /\ options \in [sessions : Limits, calls : Limits]
  /\ transport \in {"stdio", "http"}
  /\ server = "up"
  /\ phase = [s \in Channels |-> IF s = Stdio /\ transport = "stdio" THEN "open" ELSE "unused"]
  /\ initialized = {}
  /\ stale = {}
  /\ active = [s \in Sessions |-> 0]
  /\ controllers = [s \in Channels |-> {}]
  /\ pc = [r \in Calls |-> "idle"]
  /\ target = [r \in Calls |-> Stdio]
  /\ aborted = {}
  /\ asked = {}

-----------------------------------------------------------------------------
(* Expiry *)

\* Faulty: calls that run do not count.
ExpiredThoughBusy == {s \in Mapped : s \in stale}

\* pruneExpiredSessions: what every HTTP request does first.
Expired == {s \in Mapped : s \in stale /\ active[s] = 0}

\* abortSession for each session of S, which leaves the map as now.
AbortSessions(S, now) ==
  /\ phase' = [s \in Channels |-> IF s \in S THEN now ELSE phase[s]]
  /\ aborted' = aborted \cup UNION {controllers[s] : s \in S}
  /\ controllers' = [s \in Channels |-> IF s \in S THEN {} ELSE controllers[s]]

\* Any request that changes nothing else, a health check for instance.
HealthCheck ==
  /\ transport = "http" /\ server = "up"
  /\ Expired # {}
  /\ AbortSessions(Expired, "pruned")
  /\ UNCHANGED <<options, transport, server, initialized, stale, active, pc, target, asked>>

\* The clock: nothing has touched the session for its TTL.
Age(s) ==
  /\ InMap(s) /\ s \notin stale
  /\ stale' = stale \cup {s}
  /\ UNCHANGED <<options, transport, server, phase, initialized, active, controllers, pc,
                 target, aborted, asked>>

-----------------------------------------------------------------------------
(* Opening a session *)

\* The request arrives, sessions that have expired are removed, and its body is
\* awaited.
InitializeArrives(s) ==
  /\ transport = "http" /\ server = "up"
  /\ phase[s] = "unused"
  /\ LET pruned == Expired
     IN /\ phase' = [x \in Channels |-> IF x \in pruned THEN "pruned"
                                        ELSE IF x = s THEN "uploading" ELSE phase[x]]
        /\ aborted' = aborted \cup UNION {controllers[x] : x \in pruned}
        /\ controllers' = [x \in Channels |-> IF x \in pruned THEN {} ELSE controllers[x]]
  /\ UNCHANGED <<options, transport, server, initialized, stale, active, pc, target, asked>>

\* Capacity is taken before the handler awaits anything.
ReserveSession(s) ==
  /\ phase[s] = "uploading" /\ server # "closed"
  /\ Cardinality(Mapped) < options.sessions
  /\ phase' = [phase EXCEPT ![s] = "initializing"]
  /\ active' = [active EXCEPT ![s] = 1]
  /\ UNCHANGED <<options, transport, server, initialized, stale, controllers, pc, target,
                 aborted, asked>>

\* 503, an unsupported version, or a body that does not arrive.
InitializeRefused(s) ==
  /\ phase[s] = "uploading" /\ server # "closed"
  /\ phase' = [phase EXCEPT ![s] = "dropped"]
  /\ UNCHANGED <<options, transport, server, initialized, stale, active, controllers, pc, target,
                 aborted, asked>>

\* The handler returns to a session that is still there.
SessionOpens(s) ==
  /\ phase[s] = "initializing" /\ server # "closed"
  /\ phase' = [phase EXCEPT ![s] = "open"]
  /\ active' = [active EXCEPT ![s] = 0]
  /\ stale' = stale \ {s}
  /\ UNCHANGED <<options, transport, server, initialized, controllers, pc, target, aborted, asked>>

\* onInitializeDisconnect: the reservation is given back.
InitializeDisconnects(s) ==
  /\ phase[s] = "initializing"
  /\ phase' = [phase EXCEPT ![s] = "dropped"]
  /\ UNCHANGED <<options, transport, server, initialized, stale, active, controllers, pc, target,
                 aborted, asked>>

\* initialize over stdio is answered within the loop; of its result only the
\* notification after it is state here.
Initialized(s) ==
  /\ phase[s] = "open" /\ server # "closed"
  /\ s \notin initialized
  /\ initialized' = initialized \cup {s}
  /\ stale' = stale \ {s}
  /\ UNCHANGED <<options, transport, server, phase, active, controllers, pc, target, aborted, asked>>

-----------------------------------------------------------------------------
(* Calls *)

\* An HTTP call for a session its client once knew: expiry, then the body.
CallArrives(r, s) ==
  /\ transport = "http" /\ server = "up"
  /\ pc[r] = "idle"
  /\ phase[s] \in {"open", "deleted", "pruned"}
  /\ pc' = [pc EXCEPT ![r] = "uploading"]
  /\ target' = [target EXCEPT ![r] = s]
  /\ AbortSessions(Expired, "pruned")
  /\ UNCHANGED <<options, transport, server, initialized, stale, active, asked>>

\* How full the channel is: a counter per session, the size of the map on stdio.
Load(s) == IF s = Stdio THEN Cardinality(controllers[s]) ELSE active[s]

\* Faulty: the id of a call under way may be used again.
AdmitAnyId(r, s) ==
  /\ Load(s) < options.calls
  /\ pc' = [pc EXCEPT ![r] = "running"]
  /\ controllers' = [controllers EXCEPT ![s] = {q \in @ : KeyOf[q] # KeyOf[r]} \cup {r}]
  /\ active' = IF s = Stdio THEN active ELSE [active EXCEPT ![s] = @ + 1]

\* The id is not under way and there is room: a controller is registered and the
\* tool starts.
Admit(r, s) ==
  /\ \A q \in controllers[s] : KeyOf[q] # KeyOf[r]
  /\ Load(s) < options.calls
  /\ pc' = [pc EXCEPT ![r] = "running"]
  /\ controllers' = [controllers EXCEPT ![s] = @ \cup {r}]
  /\ active' = IF s = Stdio THEN active ELSE [active EXCEPT ![s] = @ + 1]

\* The body is there and the session is still in the map.
CallStarts(r) ==
  /\ pc[r] = "uploading" /\ server # "closed"
  /\ InMap(target[r]) /\ target[r] \in initialized
  /\ Admit(r, target[r])
  /\ stale' = stale \ {target[r]}
  /\ UNCHANGED <<options, transport, server, phase, initialized, target, aborted, asked>>

\* 404, 400, 429, not initialized, or the body does not arrive.  A session that is
\* found has been touched.
CallRefused(r) ==
  /\ pc[r] = "uploading" /\ server # "closed"
  /\ pc' = [pc EXCEPT ![r] = "done"]
  /\ stale' \in {stale, stale \ {x \in {target[r]} : InMap(x)}}
  /\ UNCHANGED <<options, transport, server, phase, initialized, active, controllers, target,
                 aborted, asked>>

\* A line of stdin: read and admitted in one step, or refused and forgotten.
StdioCall(r) ==
  /\ transport = "stdio" /\ server = "up"
  /\ pc[r] = "idle"
  /\ Stdio \in initialized
  /\ Admit(r, Stdio)
  /\ target' = [target EXCEPT ![r] = Stdio]
  /\ UNCHANGED <<options, transport, server, phase, initialized, stale, aborted, asked>>

\* Faulty: a call that was aborted does not give its place back.
KeepPlace(r) ==
  active' = IF target[r] = Stdio \/ r \in aborted THEN active
            ELSE [active EXCEPT ![target[r]] = @ - 1]

\* The count is given back.
GiveBack(r) ==
  active' = IF target[r] = Stdio THEN active ELSE [active EXCEPT ![target[r]] = @ - 1]

\* The tool settles; its answer is written if somebody still reads, and the finally
\* block removes the controller if it is still the registered one.
CallReturns(r) ==
  /\ pc[r] = "running"
  /\ pc' = [pc EXCEPT ![r] = "done"]
  /\ controllers' = [controllers EXCEPT ![target[r]] = @ \ {r}]
  /\ GiveBack(r)
  /\ stale' = stale \ {target[r]}
  /\ UNCHANGED <<options, transport, server, phase, initialized, target, aborted, asked>>

-----------------------------------------------------------------------------
(* Who can stop a call *)

Named(s, k) == {r \in controllers[s] : KeyOf[r] = k}

\* Faulty: the id is looked up in every session.
CancelEverywhere(s, k) ==
  /\ InMap(s) /\ server = "up"
  /\ CallsOf(s) # {}
  /\ aborted' = aborted \cup UNION {Named(x, k) : x \in Channels}
  /\ asked' = asked \cup {r \in CallsOf(s) : KeyOf[r] = k}
  /\ stale' = stale \ {s}
  /\ UNCHANGED <<options, transport, server, phase, initialized, active, controllers, pc, target>>

\* notifications/cancelled with the id of a call of the same channel.
Cancel(s, k) ==
  /\ InMap(s) /\ server = "up"
  /\ CallsOf(s) # {}
  /\ aborted' = aborted \cup Named(s, k)
  /\ asked' = asked \cup {r \in CallsOf(s) : KeyOf[r] = k}
  /\ stale' = stale \ {s}
  /\ UNCHANGED <<options, transport, server, phase, initialized, active, controllers, pc, target>>

\* onDisconnect: the client of a call leaves before its answer is written.
Disconnect(r) ==
  /\ transport = "http" /\ pc[r] = "running"
  /\ r \notin aborted \cap asked
  /\ aborted' = aborted \cup {r}
  /\ asked' = asked \cup {r}
  /\ UNCHANGED <<options, transport, server, phase, initialized, stale, active, controllers, pc,
                 target>>

\* DELETE: after the usual expiry the session's calls are aborted, then it goes.
DeleteSession(s) ==
  /\ transport = "http" /\ server = "up"
  /\ s \in Mapped \ Expired
  /\ LET removed == Expired \cup {s}
     IN /\ phase' = [x \in Channels |-> IF x = s THEN "deleted"
                                        ELSE IF x \in Expired THEN "pruned" ELSE phase[x]]
        /\ aborted' = aborted \cup UNION {controllers[x] : x \in removed}
        /\ controllers' = [x \in Channels |-> IF x \in removed THEN {} ELSE controllers[x]]
  /\ asked' = asked \cup CallsOf(s)
  /\ UNCHANGED <<options, transport, server, initialized, stale, active, pc, target>>

-----------------------------------------------------------------------------
(* The end *)

\* SIGINT or SIGTERM: every session is aborted and forgotten, no connection is
\* accepted any more.  What is being uploaded goes on.
Shutdown ==
  /\ transport = "http" /\ server = "up"
  /\ server' = "closing"
  /\ AbortSessions(Mapped, "deleted")
  /\ asked' = asked \cup {r \in Calls : pc[r] = "running"}
  /\ UNCHANGED <<options, transport, initialized, stale, active, pc, target>>

\* Faulty: an initialize under way does not listen for its client.
CallsSeeClose ==
  /\ transport = "http" /\ server = "closing"
  /\ server' = "closed"
  /\ pc' = [r \in Calls |-> IF pc[r] = "uploading" THEN "done" ELSE pc[r]]
  /\ aborted' = aborted \cup {r \in Calls : pc[r] = "running"}
  /\ asked' = asked \cup {r \in Calls : pc[r] = "running"}
  /\ UNCHANGED <<options, transport, phase, initialized, stale, active, controllers, target>>

\* The last connection ends, or after SHUTDOWN_GRACE_MS closeAllConnections ends
\* them: every call and every initialize sees its client leave.
ConnectionsClose ==
  /\ transport = "http" /\ server = "closing"
  /\ server' = "closed"
  /\ phase' = [s \in Channels |->
                IF phase[s] \in {"uploading", "initializing"} THEN "dropped" ELSE phase[s]]
  /\ pc' = [r \in Calls |-> IF pc[r] = "uploading" THEN "done" ELSE pc[r]]
  /\ aborted' = aborted \cup {r \in Calls : pc[r] = "running"}
  /\ asked' = asked \cup {r \in Calls : pc[r] = "running"}
  /\ UNCHANGED <<options, transport, initialized, stale, active, controllers, target>>

\* Faulty: the calls under way are awaited as they are.
StdinEndsQuietly ==
  /\ transport = "stdio" /\ server = "up"
  /\ server' = "closing"
  /\ UNCHANGED <<options, transport, phase, initialized, stale, active, controllers, pc, target,
                 aborted, asked>>

\* stdin ends: the calls under way are aborted ...
StdinEnds ==
  /\ transport = "stdio" /\ server = "up"
  /\ server' = "closing"
  /\ aborted' = aborted \cup controllers[Stdio]
  /\ asked' = asked \cup CallsOf(Stdio)
  /\ UNCHANGED <<options, transport, phase, initialized, stale, active, controllers, pc, target>>

\* ... and awaited, for as long as they take.
StdioCloses ==
  /\ transport = "stdio" /\ server = "closing"
  /\ CallsOf(Stdio) = {}
  /\ server' = "closed"
  /\ UNCHANGED <<options, transport, phase, initialized, stale, active, controllers, pc, target,
                 aborted, asked>>

-----------------------------------------------------------------------------
Next ==
  \/ HealthCheck
  \/ \E s \in Sessions :
       \/ Age(s) \/ InitializeArrives(s) \/ ReserveSession(s) \/ InitializeRefused(s)
       \/ SessionOpens(s) \/ InitializeDisconnects(s) \/ DeleteSession(s)
  \/ \E s \in Channels : Initialized(s) \/ \E k \in Keys : Cancel(s, k)
  \/ \E r \in Calls :
       \/ \E s \in Sessions : CallArrives(r, s)
       \/ StdioCall(r)
       \/ CallStarts(r) \/ CallRefused(r) \/ CallReturns(r) \/ Disconnect(r)
  \/ Shutdown \/ ConnectionsClose
  \/ StdinEnds \/ StdioCloses

Spec == Init /\ [][Next]_vars

\* A tool heeds its signal; the grace timer and the end of the loop are the
\* server's own.  Nothing is assumed of clients, nor of a tool nobody stops.
FairSpec ==
  /\ Spec
  /\ WF_vars(ConnectionsClose) /\ WF_vars(StdioCloses)
  /\ \A r \in Calls : WF_vars(r \in aborted /\ CallReturns(r))

-----------------------------------------------------------------------------
(* Properties *)

\* However many clients initialize at once, and however calls, expiry and deletion
\* interleave, neither the sessions nor the calls of one channel exceed their
\* bound, and activeRequests counts exactly what runs, the initialize included: no
\* call leaks a place when it is aborted, fails or outlives its client, so that a
\* session at rest can expire.
SessionsAreExact ==
  /\ TypeOK
  /\ Cardinality(Mapped) <= options.sessions
  /\ \A s \in Channels : Cardinality(CallsOf(s)) <= options.calls
  /\ \A s \in Mapped :
       active[s] = Cardinality(CallsOf(s)) + (IF phase[s] = "initializing" THEN 1 ELSE 0)

\* Work goes on only where somebody can still stop it: a call that runs is either
\* aborted already or named by the controllers of a channel in the map.
NoOrphanCall ==
  \A r \in Calls : pc[r] = "running" /\ r \notin aborted =>
    InMap(target[r]) /\ r \in controllers[target[r]]

\* A call is stopped when somebody asked for it, whatever else happens to its
\* session, and only then: expiry passes busy sessions by and a cancellation reaches
\* its own channel only.
StopsWhoWasAsked ==
  /\ aborted \subseteq asked
  /\ \A r \in asked : pc[r] = "running" => r \in aborted

\* Once the server has closed, no call runs unaborted and no reservation is left.
ClosedIsQuiet ==
  server = "closed" =>
    /\ \A r \in Calls : pc[r] \in {"idle", "done"} \/ r \in aborted
    /\ \A s \in Sessions : phase[s] \notin {"uploading", "initializing"}

\* A server that begins to close has closed some time later: over HTTP even when
\* a tool never returns, over stdio because a tool that is aborted does.
ShutdownEnds == server = "closing" ~> server = "closed"
=============================================================================
