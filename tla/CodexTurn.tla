------------------------------ MODULE CodexTurn ------------------------------
(***************************************************************************)
(* One call of CodexAppServer.runTurn (src/src/codex/app-server.ts) and    *)
(* the App Server it talks to.  The client is one thread: a message of the *)
(* server is handled as soon as it is read, a continuation of an await     *)
(* runs later, and the caller's abort, the timers, the exit of the server  *)
(* and errors of the pipe come in between.                                 *)
(*                                                                         *)
(* The turn id is learnt from turn/started or from the answer to           *)
(* turn/start, whichever is handled first; until then the notifications    *)
(* are buffered.  Notifications are abstracted to what runTurn does with   *)
(* them: "flood" is one that trips a bound on the retained text or the     *)
(* reroutes, "noId" one without its thread or turn id, and a terminal      *)
(* status stands for turn/completed with that status ("cancelled" is       *)
(* handled like "failed" and left out).                                    *)
(***************************************************************************)
EXTENDS Naturals, Sequences

CONSTANTS
  Turns,         \* turn ids
  None,          \* no turn id
  MaxBuffered,   \* MAX_BUFFERED_TURN_NOTIFICATIONS
  MaxWire,       \* bound: unread messages of the server
  MaxChatter,    \* bound: notifications of progress
  MaxFaults      \* bound: protocol faults of the server

ASSUME TurnsAssumption == None \notin Turns
ASSUME BoundsAssumption ==
  MaxBuffered \in Nat /\ MaxWire \in Nat /\ MaxChatter \in Nat /\ MaxFaults \in Nat

VARIABLES
  pc,            \* where runTurn stands
  turnId,        \* the id it works with
  response,      \* the answer to turn/start
  completion,    \* the status completionResolve was first called with
  terminalSeen,  \* terminalNotificationObserved
  contained,     \* protocolContainment # null
  buffered,      \* the buffered notifications
  interrupts,    \* interruptPromises
  aborted,       \* the caller's signal
  timer,         \* the turn timeout
  race,          \* what Promise.race(completion, timeout, abort) settled with
  result,        \* what runTurn returned
  own,           \* the turn the server really started
  remote,        \* the state of that turn
  server,        \* the App Server process
  broken,        \* the pipe to it has failed
  wire,          \* its messages, not yet read
  said,          \* which of its one-time messages it has written
  chatter,       \* notifications of progress so far
  faults         \* protocol faults so far

clientVars == <<pc, turnId, response, completion, terminalSeen, contained, buffered,
                interrupts, aborted, timer, race, result>>
serverVars == <<own, remote, server, broken, wire, said, chatter, faults>>
vars == <<clientVars, serverVars>>

-----------------------------------------------------------------------------
Terminal == {"completed", "failed", "interrupted"}
Progress == {"progress", "flood"}

Message == [kind : Terminal \cup Progress \cup {"started", "noId", "response"},
            turn : Turns]

Done == {"returned", "threw"}

NoResult == [status |-> "none", turn |-> None]

TypeOK ==
  /\ pc \in {"idle", "preparing", "starting", "mismatch", "mismatchClose",
             "abortedStart", "racing", "containing", "settling",
             "settlingClose", "lastInterrupt", "catchClose"} \cup Done
  /\ turnId \in Turns \cup {None}
  /\ response \in Turns \cup {"none", "pending", "failed"}
  /\ completion \in Terminal \cup {"none"}
  /\ terminalSeen \in BOOLEAN
  /\ contained \in BOOLEAN
  /\ buffered \in Seq(Message) /\ Len(buffered) <= MaxBuffered
  /\ interrupts \in [Turns -> {"none", "pending", "settled"}]
  /\ aborted \in BOOLEAN
  /\ timer \in {"off", "armed", "fired"}
  /\ race \in Terminal \cup {"none"}
  /\ result \in [status : Terminal \cup {"none"}, turn : Turns \cup {None}]
  /\ own \in Turns \cup {None}
  /\ remote \in Terminal \cup {"idle", "requested", "running"}
  /\ server \in {"open", "closing", "exited"}
  /\ broken \in BOOLEAN
  /\ wire \in Seq(Message)
  /\ said \in SUBSET {"started", "response"}
  /\ chatter \in Nat
  /\ faults \in Nat

Init ==
  /\ pc = "idle"
  /\ turnId = None
  /\ response = "none"
  /\ completion = "none"
  /\ terminalSeen = FALSE
  /\ contained = FALSE
  /\ buffered = <<>>
  /\ interrupts = [t \in Turns |-> "none"]
  /\ aborted \in BOOLEAN
  /\ timer = "off"
  /\ race = "none"
  /\ result = NoResult
  /\ own = None
  /\ remote = "idle"
  /\ server = "open"
  /\ broken = FALSE
  /\ wire = <<>>
  /\ said = {}
  /\ chatter = 0
  /\ faults = 0

-----------------------------------------------------------------------------
(* What the handlers are made of *)

\* A promise keeps the first value it settles with.
First(settled, next) == IF settled # "none" THEN settled ELSE next

\* CodexAppServer.close: the transport ends stdin and signals the process.
Closed == IF server = "open" THEN "closing" ELSE server

\* interruptTurn: one request for each turn id, however often it is asked for.
Interrupted(t) ==
  IF t \in Turns /\ interrupts[t] = "none"
  THEN [interrupts EXCEPT ![t] = "pending"] ELSE interrupts

\* The continuation of the race has not run yet, and hears of its first value.
RaceWith(status) == IF pc = "racing" THEN First(race, status) ELSE race

\* The statuses with which a notification settles the completion.
Settles(m) == m.kind \in Terminal \cup {"flood"}
StatusOf(m) == IF m.kind = "flood" THEN "failed" ELSE m.kind

\* Faulty: the buffer is replayed without a look at the turn of each notification.
DrainedOfAny(t) == DOMAIN buffered

\* drainBuffered under turn id t: the buffered notifications of t, in order.
DrainedOf(t) == {i \in DOMAIN buffered : buffered[i].turn = t}
DrainedStatus(t) ==
  LET settling == {i \in DrainedOf(t) : Settles(buffered[i])}
  IN IF settling = {} THEN "none"
     ELSE StatusOf(buffered[CHOOSE i \in settling : \A j \in settling : i <= j])

Drain(t) ==
  /\ buffered' = <<>>
  /\ completion' = First(completion, DrainedStatus(t))
  /\ terminalSeen' = (terminalSeen \/ \E i \in DrainedOf(t) : buffered[i].kind \in Terminal)
  /\ contained' = (contained \/ \E i \in DrainedOf(t) : buffered[i].kind = "flood")
  /\ server' = IF contained' THEN Closed ELSE server

\* Faulty: the turn is failed, but the server is not closed.
FailOnly ==
  /\ completion' = First(completion, "failed")
  /\ UNCHANGED <<contained, server>>

\* containProtocolFailure, and the notifications that lack an id.
Contain ==
  /\ completion' = First(completion, "failed")
  /\ contained' = TRUE
  /\ server' = Closed

Return(status, t) ==
  /\ pc' = "returned"
  /\ result' = [status |-> status, turn |-> t]
  /\ timer' = IF timer = "armed" THEN "off" ELSE timer

-----------------------------------------------------------------------------
(* The awaits of runTurn *)

Begin ==
  /\ pc = "idle"
  /\ pc' = IF aborted THEN "threw" ELSE "preparing"
  /\ UNCHANGED <<turnId, response, completion, terminalSeen, contained, buffered,
                 interrupts, aborted, timer, race, result, serverVars>>

\* beforeTurnStart is done: turn/start is written, aborted or not.
SendTurnStart ==
  /\ pc = "preparing"
  /\ pc' = "starting"
  /\ response' = "pending"
  /\ remote' = IF server = "open" /\ ~broken THEN "requested" ELSE remote
  /\ UNCHANGED <<turnId, completion, terminalSeen, contained, buffered, interrupts,
                 aborted, timer, race, result, own, server, broken, wire, said,
                 chatter, faults>>

\* The request is refused, malformed or timed out.
StartFails ==
  /\ response = "pending"
  /\ response' = "failed"
  /\ UNCHANGED <<pc, turnId, completion, terminalSeen, contained, buffered,
                 interrupts, aborted, timer, race, result, serverVars>>

\* The catch block: with no id to interrupt the server is closed.  It is also
\* where a beforeTurnStart that throws ends.
CatchUnknownTurn ==
  /\ pc = "preparing" \/ (pc = "starting" /\ response = "failed")
  /\ turnId = None
  /\ server' = Closed
  /\ pc' = "catchClose"
  /\ UNCHANGED <<turnId, response, completion, terminalSeen, contained, buffered,
                 interrupts, aborted, timer, race, result, own, remote, broken,
                 wire, said, chatter, faults>>

CatchKnownTurn ==
  /\ pc = "starting"
  /\ response = "failed"
  /\ turnId # None
  /\ interrupts' = Interrupted(turnId)
  /\ pc' = "settling"
  /\ UNCHANGED <<turnId, response, completion, terminalSeen, contained, buffered,
                 aborted, timer, race, result, serverVars>>

CatchClosed ==
  /\ pc = "catchClose"
  /\ server # "open"
  /\ pc' = "threw"
  /\ UNCHANGED <<turnId, response, completion, terminalSeen, contained, buffered,
                 interrupts, aborted, timer, race, result, serverVars>>

\* The answer names another turn than the stream did.
IdMismatch ==
  /\ pc = "starting"
  /\ response \in Turns
  /\ turnId \notin {None, response}
  /\ interrupts' = [t \in Turns |->
       IF t \in {turnId, response} /\ interrupts[t] = "none" THEN "pending" ELSE interrupts[t]]
  /\ pc' = "mismatch"
  /\ UNCHANGED <<turnId, response, completion, terminalSeen, contained, buffered,
                 aborted, timer, race, result, serverVars>>

MismatchInterrupted ==
  /\ pc = "mismatch"
  /\ interrupts[turnId] = "settled" /\ interrupts[response] = "settled"
  /\ server' = Closed
  /\ pc' = "mismatchClose"
  /\ UNCHANGED <<turnId, response, completion, terminalSeen, contained, buffered,
                 interrupts, aborted, timer, race, result, own, remote, broken,
                 wire, said, chatter, faults>>

MismatchClosed ==
  /\ pc = "mismatchClose"
  /\ server # "open"
  /\ Return("failed", turnId)
  /\ UNCHANGED <<turnId, response, completion, terminalSeen, contained, buffered,
                 interrupts, aborted, race, serverVars>>

\* The answer is in: the id is known, the buffer drained, and the race begins
\* unless an abort has to be told first.
StartSucceeds ==
  /\ pc = "starting"
  /\ response \in Turns
  /\ turnId \in {None, response}
  /\ turnId' = response
  /\ Drain(response)
  /\ IF aborted
     THEN /\ pc' = "abortedStart"
          /\ interrupts' = Interrupted(response)
          /\ UNCHANGED <<timer, race>>
     ELSE /\ pc' = "racing"
          /\ timer' = "armed"
          /\ race' = completion'
          /\ UNCHANGED interrupts
  /\ UNCHANGED <<response, aborted, result, own, remote, broken, wire, said, chatter, faults>>

AbortedStart ==
  /\ pc = "abortedStart"
  /\ interrupts[turnId] = "settled"
  /\ pc' = "racing"
  /\ timer' = "armed"
  /\ race' = First(completion, "interrupted")
  /\ UNCHANGED <<turnId, response, completion, terminalSeen, contained, buffered,
                 interrupts, aborted, result, serverVars>>

\* Faulty: an interrupted turn is not waited for.
ReturnAtOnce ==
  /\ Return(race, turnId)
  /\ interrupts' = IF race = "interrupted" THEN Interrupted(turnId) ELSE interrupts
  /\ UNCHANGED <<turnId, response, completion, terminalSeen, contained, buffered,
                 aborted, race, serverVars>>

\* The race is decided: an interrupted turn must be seen to end, any other
\* status is returned.
AfterRace ==
  /\ IF race = "interrupted"
     THEN /\ pc' = "settling"
          /\ interrupts' = Interrupted(turnId)
          /\ UNCHANGED <<timer, result>>
     ELSE Return(race, turnId) /\ UNCHANGED interrupts
  /\ UNCHANGED <<turnId, response, completion, terminalSeen, contained, buffered,
                 aborted, race, serverVars>>

RaceSettles ==
  /\ pc = "racing"
  /\ race # "none"
  /\ ~contained
  /\ AfterRace

AwaitContainment ==
  /\ pc = "racing"
  /\ race # "none"
  /\ contained
  /\ pc' = "containing"
  /\ UNCHANGED <<turnId, response, completion, terminalSeen, contained, buffered,
                 interrupts, aborted, timer, race, result, serverVars>>

Containment ==
  /\ pc = "containing"
  /\ server # "open"
  /\ AfterRace

\* waitForTerminalOrClose
TerminalObserved ==
  /\ pc = "settling"
  /\ terminalSeen
  /\ pc' = "lastInterrupt"
  /\ UNCHANGED <<turnId, response, completion, terminalSeen, contained, buffered,
                 interrupts, aborted, timer, race, result, serverVars>>

\* Faulty: the wait for turn/completed has no timer of its own.
TerminalAwaited ==
  /\ pc = "settling"
  /\ ~terminalSeen
  /\ completion # "none"
  /\ server' = Closed
  /\ pc' = "settlingClose"
  /\ UNCHANGED <<turnId, response, completion, terminalSeen, contained, buffered,
                 interrupts, aborted, timer, race, result, own, remote, broken,
                 wire, said, chatter, faults>>

\* The completion was something else, or did not come before the timer.
TerminalMissed ==
  /\ pc = "settling"
  /\ ~terminalSeen
  /\ server' = Closed
  /\ pc' = "settlingClose"
  /\ UNCHANGED <<turnId, response, completion, terminalSeen, contained, buffered,
                 interrupts, aborted, timer, race, result, own, remote, broken,
                 wire, said, chatter, faults>>

SettlingClosed ==
  /\ pc = "settlingClose"
  /\ server # "open"
  /\ pc' = "lastInterrupt"
  /\ UNCHANGED <<turnId, response, completion, terminalSeen, contained, buffered,
                 interrupts, aborted, timer, race, result, serverVars>>

\* After the race its status is returned; the catch block never raced.
InterruptAwaited ==
  /\ pc = "lastInterrupt"
  /\ interrupts[turnId] = "settled"
  /\ Return(First(race, IF aborted THEN "interrupted" ELSE "failed"), turnId)
  /\ UNCHANGED <<turnId, response, completion, terminalSeen, contained, buffered,
                 interrupts, aborted, race, serverVars>>

-----------------------------------------------------------------------------
(* Callbacks *)

\* The listeners are attached.
Listening == pc \notin Done \cup {"idle"}

Abort ==
  /\ ~aborted
  /\ Listening
  /\ aborted' = TRUE
  /\ interrupts' = Interrupted(turnId)
  /\ race' = RaceWith("interrupted")
  /\ UNCHANGED <<pc, turnId, response, completion, terminalSeen, contained, buffered,
                 timer, result, serverVars>>

TurnTimeout ==
  /\ timer = "armed"
  /\ timer' = "fired"
  /\ interrupts' = Interrupted(turnId)
  /\ race' = RaceWith("interrupted")
  /\ UNCHANGED <<pc, turnId, response, completion, terminalSeen, contained, buffered,
                 aborted, result, serverVars>>

\* turn/interrupt is answered, refused, or given up after its own timeout.
InterruptSettles(t) ==
  /\ interrupts[t] = "pending"
  /\ interrupts' = [interrupts EXCEPT ![t] = "settled"]
  /\ UNCHANGED <<pc, turnId, response, completion, terminalSeen, contained, buffered,
                 aborted, timer, race, result, serverVars>>

\* The exit or the error event: every pending request is rejected and, while
\* runTurn listens, the completion settles.
ConnectionLost ==
  /\ response' = IF response = "pending" THEN "failed" ELSE response
  /\ completion' = IF Listening THEN First(completion, "failed") ELSE completion
  /\ race' = RaceWith("failed")
  /\ UNCHANGED <<pc, turnId, terminalSeen, contained, buffered, interrupts, aborted,
                 timer, result, own, remote, wire, said, chatter, faults>>

ServerExits ==
  /\ server # "exited"
  /\ server' = "exited"
  /\ ConnectionLost
  /\ UNCHANGED broken

\* A write to the server fails, though its process goes on.
PipeBreaks ==
  /\ server = "open" /\ ~broken
  /\ broken' = TRUE
  /\ ConnectionLost
  /\ UNCHANGED server

\* A frame exceeds MAXIMUM_INBOUND_FRAME_BYTES: the process tree is killed.
FrameOverflows ==
  /\ server = "open"
  /\ server' = "closing"
  /\ ConnectionLost
  /\ UNCHANGED broken

-----------------------------------------------------------------------------
(* Messages of the server: JsonRpcClient hands out the answer to turn/start,   *)
(* processNotification handles the rest                                        *)

NextMessage(m) == wire # <<>> /\ m = Head(wire) /\ wire' = Tail(wire)

ReadResponse(m) ==
  /\ NextMessage(m)
  /\ m.kind = "response"
  /\ response' = IF response = "pending" THEN m.turn ELSE response
  /\ UNCHANGED <<pc, turnId, completion, terminalSeen, contained, buffered, interrupts,
                 aborted, timer, race, result, own, remote, server, broken, said,
                 chatter, faults>>

\* Nobody listens, or the notification is of another turn, or tells nothing.
ReadIgnored(m) ==
  /\ NextMessage(m)
  /\ m.kind # "response"
  /\ \/ ~Listening
     \/ /\ turnId # None
        /\ m.kind # "noId"
        /\ m.turn # turnId \/ m.kind \in {"started", "progress"}
  /\ UNCHANGED <<clientVars, own, remote, server, broken, said, chatter, faults>>

ReadNoId(m) ==
  /\ NextMessage(m)
  /\ m.kind = "noId"
  /\ Listening
  /\ Contain
  /\ race' = RaceWith(completion')
  /\ UNCHANGED <<pc, turnId, response, terminalSeen, buffered, interrupts, aborted,
                 timer, result, own, remote, broken, said, chatter, faults>>

\* Faulty: an abort from before the id was known is forgotten.
ReadStartedUnaborted(m) ==
  /\ NextMessage(m)
  /\ m.kind = "started"
  /\ Listening
  /\ turnId = None
  /\ turnId' = m.turn
  /\ Drain(m.turn)
  /\ race' = RaceWith(completion')
  /\ UNCHANGED <<pc, response, interrupts, aborted, timer, result, own, remote, broken,
                 said, chatter, faults>>

ReadStarted(m) ==
  /\ NextMessage(m)
  /\ m.kind = "started"
  /\ Listening
  /\ turnId = None
  /\ turnId' = m.turn
  /\ Drain(m.turn)
  /\ race' = RaceWith(completion')
  /\ interrupts' = IF aborted THEN Interrupted(m.turn) ELSE interrupts
  /\ UNCHANGED <<pc, response, aborted, timer, result, own, remote, broken, said,
                 chatter, faults>>

\* bufferNotification
ReadEarly(m) ==
  /\ NextMessage(m)
  /\ m.kind \in Terminal \cup Progress
  /\ Listening
  /\ turnId = None
  /\ IF Len(buffered) < MaxBuffered
     THEN /\ buffered' = Append(buffered, m)
          /\ UNCHANGED <<completion, contained, server>>
     ELSE Contain /\ UNCHANGED buffered
  /\ race' = RaceWith(completion')
  /\ UNCHANGED <<pc, turnId, response, terminalSeen, interrupts, aborted, timer,
                 result, own, remote, broken, said, chatter, faults>>

ReadTerminal(m) ==
  /\ NextMessage(m)
  /\ m.kind \in Terminal
  /\ Listening
  /\ m.turn = turnId
  /\ terminalSeen' = TRUE
  /\ completion' = First(completion, m.kind)
  /\ race' = RaceWith(completion')
  /\ UNCHANGED <<pc, turnId, response, contained, buffered, interrupts, aborted, timer,
                 result, own, remote, server, broken, said, chatter, faults>>

ReadFlood(m) ==
  /\ NextMessage(m)
  /\ m.kind = "flood"
  /\ Listening
  /\ m.turn = turnId
  /\ Contain
  /\ race' = RaceWith(completion')
  /\ UNCHANGED <<pc, turnId, response, terminalSeen, buffered, interrupts, aborted,
                 timer, result, own, remote, broken, said, chatter, faults>>

Read ==
  \E m \in Message :
    \/ ReadResponse(m)
    \/ ReadIgnored(m)
    \/ ReadNoId(m)
    \/ ReadStarted(m)
    \/ ReadEarly(m)
    \/ ReadTerminal(m)
    \/ ReadFlood(m)

-----------------------------------------------------------------------------
(* The App Server, as far as runTurn can tell *)

Alive == server # "exited"

Write(kind, t) ==
  /\ Alive
  /\ Len(wire) < MaxWire
  /\ wire' = Append(wire, [kind |-> kind, turn |-> t])

StartTurn(t) ==
  /\ Alive
  /\ remote = "requested"
  /\ remote' = "running"
  /\ own' = t
  /\ UNCHANGED <<clientVars, server, broken, wire, said, chatter, faults>>

WriteStarted ==
  /\ remote = "running"
  /\ "started" \notin said
  /\ Write("started", own)
  /\ said' = said \cup {"started"}
  /\ UNCHANGED <<clientVars, own, remote, server, broken, chatter, faults>>

WriteProgress(kind) ==
  /\ remote = "running"
  /\ chatter < MaxChatter
  /\ Write(kind, own)
  /\ chatter' = chatter + 1
  /\ UNCHANGED <<clientVars, own, remote, server, broken, said, faults>>

WriteTerminal(status) ==
  /\ remote = "running"
  /\ Write(status, own)
  /\ remote' = status
  /\ UNCHANGED <<clientVars, own, server, broken, said, chatter, faults>>

Respond ==
  /\ own # None
  /\ "response" \notin said
  /\ Write("response", own)
  /\ said' = said \cup {"response"}
  /\ UNCHANGED <<clientVars, own, remote, server, broken, chatter, faults>>

\* Protocol faults: the answer names a turn that is not the one that runs, or a
\* notification lacks its ids.
RespondWrongId(t) ==
  /\ faults < MaxFaults
  /\ own \notin {None, t}
  /\ "response" \notin said
  /\ Write("response", t)
  /\ said' = said \cup {"response"}
  /\ faults' = faults + 1
  /\ UNCHANGED <<clientVars, own, remote, server, broken, chatter>>

WriteWithoutId ==
  /\ faults < MaxFaults
  /\ own # None
  /\ Write("noId", own)
  /\ faults' = faults + 1
  /\ UNCHANGED <<clientVars, own, remote, server, broken, said, chatter>>

\* close cuts a frame in two, or the exit loses what was not flushed.
FrameIsLost ==
  /\ server # "open"
  /\ wire # <<>>
  /\ wire' = Tail(wire)
  /\ UNCHANGED <<clientVars, own, remote, server, broken, said, chatter, faults>>

ServerStep ==
  \/ \E t \in Turns : StartTurn(t) \/ RespondWrongId(t)
  \/ WriteStarted
  \/ \E kind \in Progress : WriteProgress(kind)
  \/ \E status \in Terminal : WriteTerminal(status)
  \/ Respond
  \/ WriteWithoutId
  \/ FrameIsLost

-----------------------------------------------------------------------------
\* What the client does by itself: continuations and its own timers.
ClientStep ==
  \/ Begin
  \/ SendTurnStart
  \/ StartFails
  \/ CatchUnknownTurn \/ CatchKnownTurn \/ CatchClosed
  \/ IdMismatch \/ MismatchInterrupted \/ MismatchClosed
  \/ StartSucceeds \/ AbortedStart
  \/ RaceSettles \/ AwaitContainment \/ Containment
  \/ TerminalObserved \/ TerminalMissed \/ SettlingClosed
  \/ InterruptAwaited
  \/ TurnTimeout
  \/ \E t \in Turns : InterruptSettles(t)

Next ==
  \/ ClientStep
  \/ Read
  \/ Abort
  \/ ServerExits
  \/ PipeBreaks
  \/ FrameOverflows
  \/ ServerStep

Spec == Init /\ [][Next]_vars

\* Every await of the client has its own timer (the request, interrupt, turn and
\* shutdown timeouts), so the client alone keeps going; the server need not.
FairSpec == Spec /\ WF_vars(ClientStep)

-----------------------------------------------------------------------------
(* Safety *)

\* No orphan: when runTurn has ended, by a result or an exception, the turn it
\* may have started has ended too, or the server that ran it is told to go.
\* (After a failed write to a server that lives on, runTurn returns at once and
\* leaves the server to its caller.)
NoOrphanTurn ==
  pc \in Done /\ remote \in {"requested", "running"} => server # "open" \/ broken

\* A completed result is that of the turn that was really started, and that
\* turn really completed: no other turn's notification is taken for it, and none
\* of its own is lost, since whichever message tells the id, everything buffered is
\* looked at then.
CompletedIsOwn ==
  /\ TypeOK
  /\ turnId # None => buffered = <<>>
  /\ result.status = "completed" => result.turn = own /\ remote = "completed"

\* A result that is not completed has a reason: the turn ended that way, the
\* caller or the timer interrupted it, turn/start itself failed, or the
\* connection was lost or closed.
ResultIsJustified ==
  /\ result.status = "failed" =>
       remote = "failed" \/ response = "failed" \/ server # "open" \/ broken
  /\ result.status = "interrupted" => remote = "interrupted" \/ aborted \/ timer = "fired"

\* Once the caller has aborted, the turn is told as soon as its id is known: from
\* the stream, from the answer, or at the abort itself.
AbortReachesTurn ==
  aborted /\ turnId # None => interrupts[turnId] # "none"

\* runTurn ends, whatever the server does or fails to do.
RunTurnEnds == (pc = "preparing") ~> (pc \in Done)
=============================================================================
