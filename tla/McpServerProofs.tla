--------------------------- MODULE McpServerProofs ---------------------------
(***************************************************************************)
(* Proofs about McpServer for any sets of calls and sessions and any       *)
(* limits.  The argument: the controllers of a channel in the map name     *)
(* exactly the calls that run on it, so whatever takes the channel out of  *)
(* the map aborts all of them; and the counter of a session is the number  *)
(* of these calls, so that a session that expires has none.                *)
(***************************************************************************)
EXTENDS McpServer, FiniteSetTheorems, TLAPS

\* Where channels and calls can be on each of the two servers.
Placed ==
  /\ transport = "stdio" =>
       phase[Stdio] = "open" /\ \A s \in Sessions : phase[s] = "unused"
  /\ transport = "http" => phase[Stdio] = "unused"
  /\ \A r \in Calls : pc[r] # "idle" =>
       IF target[r] = Stdio THEN transport = "stdio" /\ pc[r] # "uploading"
       ELSE phase[target[r]] \in {"open", "deleted", "pruned"}

\* The controllers of a channel are those of the calls that run on it, for as long
\* as it is in the map.
Registered ==
  \A s \in Channels : \A r \in Calls :
    r \in controllers[s] <=> InMap(s) /\ pc[r] = "running" /\ target[r] = s

\* Only a call that was admitted is ever stopped.
AskedOfRunning == \A r \in asked : pc[r] \in {"running", "done"}

\* A session that has left the map may owe its counter a reservation, no call does.
Counted ==
  \A s \in Sessions :
    /\ active[s] >= Cardinality(CallsOf(s))
    /\ InMap(s) => active[s] = Cardinality(CallsOf(s))
                                 + (IF phase[s] = "initializing" THEN 1 ELSE 0)

Bounded ==
  /\ Cardinality(Mapped) <= options.sessions
  /\ \A s \in Channels : Cardinality(CallsOf(s)) <= options.calls

\* What needs no counting.
Wired ==
  /\ TypeOK
  /\ Placed
  /\ Registered
  /\ AskedOfRunning
  /\ NoOrphanCall
  /\ StopsWhoWasAsked
  /\ ClosedIsQuiet

IInv == Wired /\ Counted /\ Bounded

USE DEF InMap, Channels, Gone

-----------------------------------------------------------------------------
(* Sets of calls and their sizes *)

LEMMA Sizes ==
  /\ \A s \in Channels : IsFiniteSet(CallsOf(s)) /\ Cardinality(CallsOf(s)) \in Nat
  /\ IsFiniteSet(Mapped) /\ Cardinality(Mapped) \in Nat
<1>1. ASSUME NEW S, S \subseteq Calls PROVE IsFiniteSet(S) /\ Cardinality(S) \in Nat
  BY <1>1, FS_Subset, FS_CardinalityType, McpAssumption
<1>2. ASSUME NEW S, S \subseteq Sessions PROVE IsFiniteSet(S) /\ Cardinality(S) \in Nat
  BY <1>2, FS_Subset, FS_CardinalityType, McpAssumption
<1> QED
  BY <1>1, <1>2 DEF CallsOf, Mapped

\* A step that starts and ends no call, and gives the counters of the sessions in the
\* map no other meaning, keeps the counts.
LEMMA SameCallsCount ==
  ASSUME IInv, UNCHANGED <<options, active, target>>,
         \A r \in Calls : pc[r] = "running" <=> pc'[r] = "running",
         \A s \in Sessions : InMap(s)' => phase'[s] = phase[s]
  PROVE  Counted' /\ Bounded'
<1>1. \A s \in Channels : CallsOf(s)' = CallsOf(s)
  BY DEF CallsOf
<1>2. Mapped' \subseteq Mapped
  BY DEF Mapped
<1>3. Cardinality(Mapped') <= Cardinality(Mapped)
  BY <1>2, Sizes, FS_Subset
<1>4. Cardinality(Mapped') \in Nat /\ Cardinality(Mapped) \in Nat
  BY <1>2, Sizes, FS_Subset, FS_CardinalityType
<1>5. Counted'
  BY <1>1 DEF IInv, Counted
<1>6. options.sessions \in Nat
  BY McpAssumption DEF IInv, Wired, TypeOK
<1> QED
  BY <1>1, <1>3, <1>4, <1>5, <1>6 DEF IInv, Bounded

\* The map only gets smaller.
LEMMA MappedShrinks ==
  ASSUME Mapped' \subseteq Mapped, IInv, UNCHANGED options
  PROVE  Cardinality(Mapped') <= options.sessions
<1>1. Cardinality(Mapped') <= Cardinality(Mapped) /\ Cardinality(Mapped') \in Nat
  BY Sizes, FS_Subset, FS_CardinalityType
<1>2. options.sessions \in Nat
  BY McpAssumption DEF IInv, Wired, TypeOK
<1> QED
  BY <1>1, <1>2, Sizes DEF IInv, Bounded

\* A session that expires runs nothing, and has no controllers.
LEMMA ExpiredIsIdle ==
  ASSUME IInv, NEW s \in Expired
  PROVE  controllers[s] = {} /\ CallsOf(s) = {} /\ s \in Mapped
<1>1. s \in Sessions /\ InMap(s) /\ active[s] = 0
  BY DEF Expired, Mapped
<1>2. Cardinality(CallsOf(s)) = 0
  BY <1>1, Sizes DEF IInv, Counted
<1>3. CallsOf(s) = {}
  BY <1>1, <1>2, Sizes, FS_EmptySet
<1> QED
  BY <1>1, <1>3 DEF IInv, Wired, Registered, CallsOf, Mapped, TypeOK

-----------------------------------------------------------------------------
(* Steps that start no call *)

LEMMA AgeKeeps == ASSUME IInv, NEW s \in Sessions, Age(s) PROVE IInv'
<1>1. Wired'
  BY SMTT(30) DEF IInv, Wired, TypeOK, Placed, Registered, AskedOfRunning, NoOrphanCall, StopsWhoWasAsked, ClosedIsQuiet,
     Age
<1>2. Counted' /\ Bounded'
  BY SameCallsCount DEF Age, IInv, Wired, TypeOK, Placed, Registered
<1> QED
  BY <1>1, <1>2 DEF IInv


LEMMA InitializeRefusedKeeps == ASSUME IInv, NEW s \in Sessions, InitializeRefused(s) PROVE IInv'
<1>1. Wired'
  BY SMTT(30) DEF IInv, Wired, TypeOK, Placed, Registered, AskedOfRunning, NoOrphanCall, StopsWhoWasAsked, ClosedIsQuiet,
     InitializeRefused
<1>2. Counted' /\ Bounded'
  BY SameCallsCount DEF InitializeRefused, IInv, Wired, TypeOK, Placed, Registered
<1> QED
  BY <1>1, <1>2 DEF IInv


LEMMA InitializeDisconnectsKeeps == ASSUME IInv, NEW s \in Sessions, InitializeDisconnects(s) PROVE IInv'
<1>1. Wired'
  BY SMTT(30) DEF IInv, Wired, TypeOK, Placed, Registered, AskedOfRunning, NoOrphanCall, StopsWhoWasAsked, ClosedIsQuiet,
     InitializeDisconnects
<1>2. Counted' /\ Bounded'
  BY SameCallsCount DEF InitializeDisconnects, IInv, Wired, TypeOK, Placed, Registered
<1> QED
  BY <1>1, <1>2 DEF IInv


LEMMA InitializedKeeps == ASSUME IInv, NEW s \in Channels, Initialized(s) PROVE IInv'
<1>1. Wired'
  BY SMTT(30) DEF IInv, Wired, TypeOK, Placed, Registered, AskedOfRunning, NoOrphanCall, StopsWhoWasAsked, ClosedIsQuiet,
     Initialized
<1>2. Counted' /\ Bounded'
  BY SameCallsCount DEF Initialized, IInv, Wired, TypeOK, Placed, Registered
<1> QED
  BY <1>1, <1>2 DEF IInv


LEMMA CallRefusedKeeps == ASSUME IInv, NEW r \in Calls, CallRefused(r) PROVE IInv'
<1>1. Wired'
  BY SMTT(30) DEF IInv, Wired, TypeOK, Placed, Registered, AskedOfRunning, NoOrphanCall, StopsWhoWasAsked, ClosedIsQuiet,
     CallRefused
<1>2. Counted' /\ Bounded'
  BY SameCallsCount DEF CallRefused, IInv, Wired, TypeOK, Placed, Registered
<1> QED
  BY <1>1, <1>2 DEF IInv


LEMMA DisconnectKeeps == ASSUME IInv, NEW r \in Calls, Disconnect(r) PROVE IInv'
<1>1. Wired'
  BY SMTT(30) DEF IInv, Wired, TypeOK, Placed, Registered, AskedOfRunning, NoOrphanCall, StopsWhoWasAsked, ClosedIsQuiet,
     Disconnect
<1>2. Counted' /\ Bounded'
  BY SameCallsCount DEF Disconnect, IInv, Wired, TypeOK, Placed, Registered
<1> QED
  BY <1>1, <1>2 DEF IInv


LEMMA CancelKeeps == ASSUME IInv, NEW s \in Channels, NEW k \in Keys, Cancel(s, k) PROVE IInv'
<1>1. Wired'
  BY SMTT(30) DEF IInv, Wired, TypeOK, Placed, Registered, AskedOfRunning, NoOrphanCall, StopsWhoWasAsked, ClosedIsQuiet,
     Cancel, Named, CallsOf
<1>2. Counted' /\ Bounded'
  BY SameCallsCount DEF Cancel, IInv, Wired, TypeOK, Placed, Registered
<1> QED
  BY <1>1, <1>2 DEF IInv


LEMMA ConnectionsCloseKeeps == ASSUME IInv, ConnectionsClose PROVE IInv'
<1>1. Wired'
  BY SMTT(30) DEF IInv, Wired, TypeOK, Placed, Registered, AskedOfRunning, NoOrphanCall, StopsWhoWasAsked, ClosedIsQuiet,
     ConnectionsClose
<1>2. Counted' /\ Bounded'
  BY SameCallsCount DEF ConnectionsClose, IInv, Wired, TypeOK, Placed, Registered
<1> QED
  BY <1>1, <1>2 DEF IInv


LEMMA StdinEndsKeeps == ASSUME IInv, StdinEnds PROVE IInv'
<1>1. Wired'
  BY SMTT(30) DEF IInv, Wired, TypeOK, Placed, Registered, AskedOfRunning, NoOrphanCall, StopsWhoWasAsked, ClosedIsQuiet,
     StdinEnds, CallsOf
<1>2. Counted' /\ Bounded'
  BY SameCallsCount DEF StdinEnds, IInv, Wired, TypeOK, Placed, Registered
<1> QED
  BY <1>1, <1>2 DEF IInv


LEMMA StdioClosesKeeps == ASSUME IInv, StdioCloses PROVE IInv'
<1>1. Wired'
  BY SMTT(30) DEF IInv, Wired, TypeOK, Placed, Registered, AskedOfRunning, NoOrphanCall, StopsWhoWasAsked, ClosedIsQuiet,
     StdioCloses, CallsOf
<1>2. Counted' /\ Bounded'
  BY SameCallsCount DEF StdioCloses, IInv, Wired, TypeOK, Placed, Registered
<1> QED
  BY <1>1, <1>2 DEF IInv

-----------------------------------------------------------------------------
(* Expiry, deletion and the signal: channels leave the map *)

LEMMA HealthCheckKeeps == ASSUME IInv, HealthCheck PROVE IInv'
<1>1. Wired'
  BY ExpiredIsIdle, SMTT(30) DEF IInv, Wired, TypeOK, Placed, Registered, AskedOfRunning, NoOrphanCall, StopsWhoWasAsked, ClosedIsQuiet,
     HealthCheck, AbortSessions, Mapped
<1>2. Counted' /\ Bounded'
  BY SameCallsCount, ExpiredIsIdle DEF HealthCheck, AbortSessions, IInv, Wired, TypeOK, Mapped
<1> QED
  BY <1>1, <1>2 DEF IInv

LEMMA InitializeArrivesKeeps == ASSUME IInv, NEW s \in Sessions, InitializeArrives(s) PROVE IInv'
<1>1. Wired'
  BY ExpiredIsIdle, McpAssumption, SMTT(30) DEF IInv, Wired, TypeOK, Placed, Registered, AskedOfRunning, NoOrphanCall, StopsWhoWasAsked, ClosedIsQuiet,
     InitializeArrives, Mapped
<1>2. Counted' /\ Bounded'
  BY SameCallsCount, ExpiredIsIdle DEF InitializeArrives, IInv, Wired, TypeOK, Mapped
<1> QED
  BY <1>1, <1>2 DEF IInv

LEMMA CallArrivesKeeps ==
  ASSUME IInv, NEW r \in Calls, NEW s \in Sessions, CallArrives(r, s) PROVE IInv'
<1>1. Wired'
  BY ExpiredIsIdle, McpAssumption, SMTT(30) DEF IInv, Wired, TypeOK, Placed, Registered, AskedOfRunning, NoOrphanCall, StopsWhoWasAsked, ClosedIsQuiet,
     CallArrives, AbortSessions, Mapped
<1>2. \A x \in Channels : CallsOf(x)' = CallsOf(x)
  BY DEF CallArrives, CallsOf, IInv, Wired, TypeOK
<1>3. Counted' /\ Bounded'
  BY <1>2, MappedShrinks, ExpiredIsIdle DEF CallArrives, AbortSessions, IInv, Wired, TypeOK, Counted, Bounded, Mapped
<1> QED
  BY <1>1, <1>3 DEF IInv

LEMMA DeleteSessionKeeps == ASSUME IInv, NEW s \in Sessions, DeleteSession(s) PROVE IInv'
<1>1. Wired'
  BY ExpiredIsIdle, McpAssumption, SMTT(30) DEF IInv, Wired, TypeOK, Placed, Registered, AskedOfRunning, NoOrphanCall, StopsWhoWasAsked, ClosedIsQuiet,
     DeleteSession, Mapped, CallsOf
<1>2. Counted' /\ Bounded'
  BY SameCallsCount, ExpiredIsIdle DEF DeleteSession, IInv, Wired, TypeOK, Mapped
<1> QED
  BY <1>1, <1>2 DEF IInv

LEMMA ShutdownKeeps == ASSUME IInv, Shutdown PROVE IInv'
<1>1. Wired'
  BY McpAssumption, SMTT(30) DEF IInv, Wired, TypeOK, Placed, Registered, AskedOfRunning, NoOrphanCall, StopsWhoWasAsked, ClosedIsQuiet,
     Shutdown, AbortSessions, Mapped
<1>2. Counted' /\ Bounded'
  BY SameCallsCount DEF Shutdown, AbortSessions, IInv, Wired, TypeOK, Mapped
<1> QED
  BY <1>1, <1>2 DEF IInv

-----------------------------------------------------------------------------
(* Steps that count: reservations, admission, and the end of a call *)

LEMMA ReserveSessionKeeps == ASSUME IInv, NEW s \in Sessions, ReserveSession(s) PROVE IInv'
<1>1. Wired'
  BY McpAssumption, SMTT(30) DEF IInv, Wired, TypeOK, Placed, Registered, AskedOfRunning, NoOrphanCall, StopsWhoWasAsked, ClosedIsQuiet,
     ReserveSession
<1>2. \A x \in Channels : CallsOf(x)' = CallsOf(x)
  BY DEF ReserveSession, CallsOf
<1>3. CallsOf(s) = {}
  BY McpAssumption DEF ReserveSession, CallsOf, IInv, Wired, Placed, TypeOK
<1>4. Counted'
  <2>1. Cardinality(CallsOf(s)') = 0
    BY <1>2, <1>3, FS_EmptySet
  <2> QED
    BY <1>2, <2>1 DEF ReserveSession, Counted, IInv, Wired, TypeOK
<1>5. Mapped' = Mapped \cup {s} /\ s \notin Mapped
  BY McpAssumption DEF ReserveSession, Mapped, IInv, Wired, TypeOK
<1>6. Cardinality(Mapped') = Cardinality(Mapped) + 1
  BY <1>5, Sizes, FS_AddElement
<1>7. options.sessions \in Nat
  BY McpAssumption DEF IInv, Wired, TypeOK
<1>8. Bounded'
  BY <1>2, <1>6, <1>7, Sizes DEF ReserveSession, Bounded, IInv
<1> QED
  BY <1>1, <1>4, <1>8 DEF IInv

LEMMA SessionOpensKeeps == ASSUME IInv, NEW s \in Sessions, SessionOpens(s) PROVE IInv'
<1>1. Wired'
  BY McpAssumption, SMTT(30) DEF IInv, Wired, TypeOK, Placed, Registered, AskedOfRunning, NoOrphanCall, StopsWhoWasAsked, ClosedIsQuiet,
     SessionOpens
<1>2. \A x \in Channels : CallsOf(x)' = CallsOf(x)
  BY DEF SessionOpens, CallsOf
<1>3. CallsOf(s) = {}
  BY McpAssumption DEF SessionOpens, CallsOf, IInv, Wired, Placed, TypeOK
<1>4. Counted'
  <2>1. Cardinality(CallsOf(s)') = 0
    BY <1>2, <1>3, FS_EmptySet
  <2> QED
    BY <1>2, <2>1 DEF SessionOpens, Counted, IInv, Wired, TypeOK
<1>5. Mapped' = Mapped
  BY McpAssumption DEF SessionOpens, Mapped, IInv, Wired, TypeOK
<1>6. Bounded'
  BY <1>2, <1>5 DEF SessionOpens, Bounded, IInv
<1> QED
  BY <1>1, <1>4, <1>6 DEF IInv

\* A call starts on a channel of the map that has room for it.
LEMMA AdmitCounts ==
  ASSUME IInv, NEW r \in Calls, NEW s \in Channels, Admit(r, s), InMap(s),
         phase[s] = "open", target' = [target EXCEPT ![r] = s],
         pc[r] \in {"idle", "uploading"}, UNCHANGED <<options, phase>>
  PROVE  Counted' /\ Bounded'
<1>1. CallsOf(s)' = CallsOf(s) \cup {r} /\ r \notin CallsOf(s)
  BY DEF CallsOf, Admit, IInv, Wired, TypeOK
<1>2. \A x \in Channels \ {s} : CallsOf(x)' = CallsOf(x)
  BY DEF CallsOf, Admit, IInv, Wired, TypeOK
<1>3. Cardinality(CallsOf(s)') = Cardinality(CallsOf(s)) + 1
  BY <1>1, Sizes, FS_AddElement
<1>4. controllers[s] = CallsOf(s)
  BY DEF IInv, Wired, Registered, CallsOf, TypeOK
<1>5. Load(s) = Cardinality(CallsOf(s))
  BY <1>4, Sizes DEF Load, IInv, Counted
<1>6. Counted'
  BY <1>2, <1>3, Sizes, McpAssumption DEF Admit, Counted, IInv, Wired, TypeOK
<1>7. options.calls \in Nat
  BY McpAssumption DEF IInv, Wired, TypeOK
<1>8. Bounded'
  BY <1>2, <1>3, <1>5, <1>7, Sizes DEF Admit, Bounded, Mapped, IInv
<1> QED
  BY <1>6, <1>8

LEMMA CallStartsKeeps == ASSUME IInv, NEW r \in Calls, CallStarts(r) PROVE IInv'
<1>1. target[r] \in Channels /\ target[r] # Stdio /\ phase[target[r]] = "open"
  BY DEF CallStarts, IInv, Wired, TypeOK, Placed
<1>2. Wired'
  BY <1>1, McpAssumption, SMTT(30) DEF IInv, Wired, TypeOK, Placed, Registered, AskedOfRunning, NoOrphanCall, StopsWhoWasAsked, ClosedIsQuiet,
     CallStarts, Admit
<1>3. Counted' /\ Bounded'
  BY <1>1, AdmitCounts DEF CallStarts, IInv, Wired, TypeOK
<1> QED
  BY <1>2, <1>3 DEF IInv

LEMMA StdioCallKeeps == ASSUME IInv, NEW r \in Calls, StdioCall(r) PROVE IInv'
<1>1. phase[Stdio] = "open"
  BY DEF StdioCall, IInv, Wired, Placed
<1>2. Wired'
  BY <1>1, McpAssumption, SMTT(30) DEF IInv, Wired, TypeOK, Placed, Registered, AskedOfRunning, NoOrphanCall, StopsWhoWasAsked, ClosedIsQuiet,
     StdioCall, Admit
<1>3. Counted' /\ Bounded'
  BY <1>1, AdmitCounts DEF StdioCall, IInv, Wired, TypeOK
<1> QED
  BY <1>2, <1>3 DEF IInv

LEMMA CallReturnsKeeps == ASSUME IInv, NEW r \in Calls, CallReturns(r) PROVE IInv'
<1> DEFINE s == target[r]
<1>1. s \in Channels /\ r \in CallsOf(s)
  BY DEF CallReturns, CallsOf, IInv, Wired, TypeOK
<1>2. CallsOf(s)' = CallsOf(s) \ {r}
  BY DEF CallsOf, CallReturns, IInv, Wired, TypeOK
<1>3. \A x \in Channels \ {s} : CallsOf(x)' = CallsOf(x)
  BY DEF CallsOf, CallReturns, IInv, Wired, TypeOK
<1>4. Cardinality(CallsOf(s)') = Cardinality(CallsOf(s)) - 1
  <2>1. IsFiniteSet(CallsOf(s))
    BY <1>1, Sizes
  <2> QED
    BY <1>1, <1>2, <2>1, FS_RemoveElement
<1>5. Cardinality(CallsOf(s)') \in Nat
  BY <1>2, Sizes, FS_RemoveElement, FS_CardinalityType, <1>1
<1>6. active' \in [Sessions -> Nat] /\ Counted'
  BY <1>1, <1>3, <1>4, <1>5, Sizes, McpAssumption
     DEF CallReturns, GiveBack, Counted, IInv, Wired, TypeOK
<1>7. Wired'
  BY <1>1, <1>6, McpAssumption, SMTT(30) DEF IInv, Wired, TypeOK, Placed, Registered, AskedOfRunning, NoOrphanCall, StopsWhoWasAsked, ClosedIsQuiet,
     CallReturns
<1>8. options.calls \in Nat
  BY McpAssumption DEF IInv, Wired, TypeOK
<1>9. Bounded'
  BY <1>1, <1>3, <1>4, <1>5, <1>8, Sizes DEF CallReturns, Bounded, Mapped, IInv
<1> QED
  BY <1>6, <1>7, <1>9 DEF IInv

-----------------------------------------------------------------------------
LEMMA InitIsInductive == Init => IInv
<1> SUFFICES ASSUME Init PROVE IInv
  OBVIOUS
<1>1. Wired
  BY McpAssumption DEF Init, Wired, TypeOK, Placed, Registered, AskedOfRunning, NoOrphanCall, StopsWhoWasAsked, ClosedIsQuiet
<1>2. \A s \in Channels : CallsOf(s) = {}
  BY DEF Init, CallsOf
<1>3. Mapped = {}
  BY McpAssumption DEF Init, Mapped
<1>4. Counted
  <2>1. \A s \in Sessions : Cardinality(CallsOf(s)) = 0
    BY <1>2, FS_EmptySet
  <2> QED
    BY <2>1 DEF Init, Counted
<1>5. options.sessions \in Nat /\ options.calls \in Nat
  BY McpAssumption DEF Init
<1>6. Bounded
  BY <1>2, <1>3, <1>5, FS_EmptySet DEF Bounded
<1> QED
  BY <1>1, <1>4, <1>6 DEF IInv

LEMMA NextKeeps == IInv /\ [Next]_vars => IInv'
<1> SUFFICES ASSUME IInv, [Next]_vars PROVE IInv'
  OBVIOUS
<1>1. CASE Next
  BY <1>1, HealthCheckKeeps, AgeKeeps, InitializeArrivesKeeps, ReserveSessionKeeps,
     InitializeRefusedKeeps, SessionOpensKeeps, InitializeDisconnectsKeeps, DeleteSessionKeeps,
     InitializedKeeps, CancelKeeps, CallArrivesKeeps, StdioCallKeeps, CallStartsKeeps,
     CallRefusedKeeps, CallReturnsKeeps, DisconnectKeeps, ShutdownKeeps, ConnectionsCloseKeeps,
     StdinEndsKeeps, StdioClosesKeeps DEF Next
<1>2. CASE UNCHANGED vars
  BY <1>2 DEF vars, IInv, Wired, TypeOK, Placed, Registered, AskedOfRunning, NoOrphanCall, StopsWhoWasAsked, ClosedIsQuiet, Counted, Bounded, CallsOf, Mapped
<1> QED
  BY <1>1, <1>2

\* The whole argument in one formula: wiring, counters and bounds hold at every state.
THEOREM Inductive == Spec => []IInv
<1>1. Init => IInv
  BY InitIsInductive
<1>2. IInv /\ [Next]_vars => IInv'
  BY NextKeeps
<1> QED
  BY <1>1, <1>2, PTL DEF Spec

\* Every variable stays in its type; in particular no counter of a session is ever
\* taken below zero by a call that returns late.
THEOREM TypeCorrect == Spec => []TypeOK
<1>1. IInv => TypeOK
  BY DEF IInv, Wired
<1> QED
  BY <1>1, Inductive, PTL

\* Sessions and calls stay within their limits, and a session's counter is exactly what
\* runs on it, whatever the limits and however many clients there are (server.ts, the
\* reservation before the first await and the finally blocks).
THEOREM CapacityIsExact == Spec => []SessionsAreExact
<1>1. IInv => SessionsAreExact
  BY DEF IInv, Wired, SessionsAreExact, Counted, Bounded, Mapped
<1> QED
  BY <1>1, Inductive, PTL

\* No call runs on where nobody could stop it any more.
THEOREM NobodyIsOrphaned == Spec => []NoOrphanCall
<1>1. IInv => NoOrphanCall
  BY DEF IInv, Wired
<1> QED
  BY <1>1, Inductive, PTL

\* Cancellation, disconnects, deletion and shutdown stop the calls they mean and no
\* other: expiry never does.
THEOREM StopsAreExact == Spec => []StopsWhoWasAsked
<1>1. IInv => StopsWhoWasAsked
  BY DEF IInv, Wired
<1> QED
  BY <1>1, Inductive, PTL

\* A closed server leaves no call unaborted and no reservation behind.
THEOREM NothingRunsOn == Spec => []ClosedIsQuiet
<1>1. IInv => ClosedIsQuiet
  BY DEF IInv, Wired
<1> QED
  BY <1>1, Inductive, PTL
=============================================================================
