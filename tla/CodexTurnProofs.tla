--------------------------- MODULE CodexTurnProofs ---------------------------
(***************************************************************************)
(* Proofs about CodexTurn for any turn ids, any bounds and any behaviour   *)
(* of the server.  The argument: whatever is on the wire or buffered says  *)
(* the truth about the one turn the server runs, so a promise settled from *)
(* it under the turn's id is true, and stays true, since the end of a      *)
(* turn, of the server and of the pipe are final.                          *)
(***************************************************************************)
EXTENDS CodexTurn, WellFoundedInduction, TLAPS

\* What a message that was written says of the turn the server runs.
Told(m) ==
  /\ m.kind # "response" => m.turn = own
  /\ m.kind \in Terminal => remote = m.kind

MessagesAreTrue ==
  /\ \A i \in DOMAIN wire : Told(wire[i])
  /\ \A i \in DOMAIN buffered : Told(buffered[i]) /\ buffered[i].kind # "response"

TurnIsOwned ==
  /\ own = None <=> remote \in {"idle", "requested"}
  /\ pc \in {"idle", "preparing"} => remote = "idle"

\* What the settled promises say, and why.
Justified(status) ==
  /\ status = "completed" => turnId = own /\ own # None /\ remote = "completed"
  /\ status = "failed" => remote = "failed" \/ server # "open" \/ broken

PromisesAreTrue ==
  /\ Justified(completion) /\ Justified(race)
  /\ completion = "interrupted" => remote = "interrupted"
  /\ race = "interrupted" => remote = "interrupted" \/ aborted \/ timer = "fired"
  /\ terminalSeen => remote \in Terminal
  /\ contained => server # "open"

BeforeTheRace ==
  {"idle", "preparing", "starting", "mismatch", "mismatchClose", "abortedStart", "catchClose"}

Settling == {"settling", "settlingClose", "lastInterrupt"}

\* Where runTurn stands tells what is known and over.
InPlace ==
  /\ pc \in BeforeTheRace => timer = "off" /\ race = "none"
  /\ pc \in {"mismatch", "mismatchClose", "abortedStart", "racing", "containing"} \cup Settling =>
       turnId # None
  /\ pc = "abortedStart" => aborted
  /\ pc \notin Done => result = NoResult
  /\ pc \in Settling /\ race = "none" => response = "failed"
  /\ pc = "lastInterrupt" => terminalSeen \/ server # "open"

Core ==
  /\ TurnIsOwned /\ PromisesAreTrue /\ InPlace
  /\ NoOrphanTurn /\ ResultIsJustified /\ AbortReachesTurn

IInv == TypeOK /\ MessagesAreTrue /\ Core /\ CompletedIsOwn

USE DEF Terminal, Progress, Done, clientVars, serverVars

-----------------------------------------------------------------------------
(* Sequences of messages *)

LEMMA SmallestIndex ==
  ASSUME NEW S \in SUBSET Nat, S # {}
  PROVE  \E i \in S : \A j \in S : i <= j
<1> DEFINE R == OpToRel(<, Nat)
<1>1. IsWellFoundedOn(R, Nat)
  BY NatLessThanWellFounded
<1>2. \A x, y \in Nat : y < x => <<y, x>> \in R
  BY DEF OpToRel
<1> HIDE DEF R
<1>3. \E x \in S : \A y \in S : ~(<<y, x>> \in R)
  BY <1>1, WFMin
<1>4. PICK i \in S : \A y \in S : ~(<<y, i>> \in R)
  BY <1>3
<1>5. ASSUME NEW j \in S PROVE i <= j
  <2>1. i \in Nat /\ j \in Nat /\ ~(j < i)
    BY <1>2, <1>4
  <2> QED
    BY <2>1
<1> QED
  BY <1>4, <1>5

LEMMA EmptyIsABuffer == <<>> \in Seq(Message) /\ Len(<<>>) <= MaxBuffered
<1>1. <<>> \in Seq(Message) /\ Len(<<>>) = 0
  OBVIOUS
<1> QED
  BY <1>1, BoundsAssumption

\* The message read is true, and so is what is left.
LEMMA ReadingIsTrue ==
  ASSUME wire \in Seq(Message), MessagesAreTrue, NEW m, NextMessage(m)
  PROVE  /\ m \in Message /\ Told(m) /\ wire' \in Seq(Message)
         /\ \A i \in DOMAIN wire' : Told(wire'[i])
<1>1. /\ wire # <<>> /\ m = wire[1] /\ 1 \in DOMAIN wire /\ wire' \in Seq(Message)
      /\ \A i \in DOMAIN wire' : i + 1 \in DOMAIN wire /\ wire'[i] = wire[i + 1]
  BY DEF NextMessage
<1> QED
  BY <1>1 DEF MessagesAreTrue

\* So is what is written by a server that writes true messages.
LEMMA WritingIsTrue ==
  ASSUME wire \in Seq(Message), MessagesAreTrue, NEW kind, NEW t, Write(kind, t),
         [kind |-> kind, turn |-> t] \in Message
  PROVE  /\ wire' \in Seq(Message)
         /\ \A i \in DOMAIN wire' : \/ (i \in DOMAIN wire /\ wire'[i] = wire[i])
                                    \/ wire'[i] = [kind |-> kind, turn |-> t]
<1> DEFINE m == [kind |-> kind, turn |-> t]
<1>1. wire' = Append(wire, m) /\ m \in Message
  BY DEF Write
<1> HIDE DEF m
<1>2. wire' \in Seq(Message) /\ \A i \in DOMAIN wire' : (i \in DOMAIN wire /\ wire'[i] = wire[i]) \/ wire'[i] = m
  BY <1>1
<1> QED
  BY <1>2 DEF m

\* What draining the buffer under the server's own turn, or another, may settle.
LEMMA DrainingIsTrue ==
  ASSUME TypeOK, MessagesAreTrue, NEW t \in Turns
  PROVE  LET status == DrainedStatus(t)
         IN  /\ status \in Terminal \cup {"none"}
             /\ status \in {"completed", "interrupted"} => t = own /\ remote = status
             /\ status = "failed" => \/ remote = "failed"
                                     \/ \E i \in DrainedOf(t) : buffered[i].kind = "flood"
             /\ (\E i \in DrainedOf(t) : buffered[i].kind \in Terminal) => remote \in Terminal
<1> DEFINE settling == {i \in DrainedOf(t) : Settles(buffered[i])}
           first == CHOOSE i \in settling : \A j \in settling : i <= j
<1>1. buffered \in Seq(Message) /\ DOMAIN buffered \in SUBSET Nat
  BY DEF TypeOK
<1>2. \A i \in DrainedOf(t) : i \in DOMAIN buffered /\ buffered[i] \in Message
                              /\ buffered[i].turn = t /\ Told(buffered[i])
                              /\ buffered[i].kind # "response"
  BY <1>1 DEF DrainedOf, MessagesAreTrue
<1>3. (\E i \in DrainedOf(t) : buffered[i].kind \in Terminal) => remote \in Terminal
  BY <1>2 DEF Told
<1>4. CASE settling = {}
  BY <1>3, <1>4 DEF DrainedStatus
<1>5. CASE settling # {}
  <2>1. settling \in SUBSET Nat
    BY <1>1, <1>2
  <2>2. \E i \in settling : \A j \in settling : i <= j
    BY <1>5, <2>1, SmallestIndex
  <2> HIDE DEF settling
  <2>3. first \in settling
    BY <2>2
  <2>4. DrainedStatus(t) = StatusOf(buffered[first])
    BY <1>5 DEF DrainedStatus, settling
  <2> HIDE DEF first
  <2>5. first \in DrainedOf(t) /\ Settles(buffered[first])
    BY <2>3 DEF settling
  <2> QED
    BY <1>2, <1>3, <2>4, <2>5 DEF Settles, StatusOf, Told
<1> QED
  BY <1>4, <1>5

LEMMA BeginKeeps == ASSUME IInv, Begin PROVE IInv'
<1> USE TurnsAssumption DEF Begin, First, Closed, Interrupted, RaceWith, Listening, Alive
<1>1. TypeOK'
  BY DEF IInv, TypeOK, NoResult
<1>2. MessagesAreTrue'
  BY DEF IInv, TypeOK, MessagesAreTrue, Told, Core, TurnIsOwned
<1>3. Core' /\ CompletedIsOwn'
  BY <1>1 DEF IInv, TypeOK, NoResult, CompletedIsOwn, Core, TurnIsOwned, PromisesAreTrue, Justified, InPlace, BeforeTheRace,
     Settling, NoOrphanTurn, ResultIsJustified, AbortReachesTurn
<1> QED
  BY <1>1, <1>2, <1>3 DEF IInv

LEMMA SendTurnStartKeeps == ASSUME IInv, SendTurnStart PROVE IInv'
<1> USE TurnsAssumption DEF SendTurnStart, First, Closed, Interrupted, RaceWith, Listening, Alive
<1>1. TypeOK'
  BY DEF IInv, TypeOK, NoResult
<1>2. MessagesAreTrue'
  BY DEF IInv, TypeOK, MessagesAreTrue, Told, Core, TurnIsOwned
<1>3. Core' /\ CompletedIsOwn'
  BY <1>1 DEF IInv, TypeOK, NoResult, CompletedIsOwn, Core, TurnIsOwned, PromisesAreTrue, Justified, InPlace, BeforeTheRace,
     Settling, NoOrphanTurn, ResultIsJustified, AbortReachesTurn
<1> QED
  BY <1>1, <1>2, <1>3 DEF IInv

LEMMA StartFailsKeeps == ASSUME IInv, StartFails PROVE IInv'
<1> USE TurnsAssumption DEF StartFails, First, Closed, Interrupted, RaceWith, Listening, Alive
<1>1. TypeOK'
  BY DEF IInv, TypeOK, NoResult
<1>2. MessagesAreTrue'
  BY DEF IInv, TypeOK, MessagesAreTrue, Told, Core, TurnIsOwned
<1>3. Core' /\ CompletedIsOwn'
  BY <1>1 DEF IInv, TypeOK, NoResult, CompletedIsOwn, Core, TurnIsOwned, PromisesAreTrue, Justified, InPlace, BeforeTheRace,
     Settling, NoOrphanTurn, ResultIsJustified, AbortReachesTurn
<1> QED
  BY <1>1, <1>2, <1>3 DEF IInv

LEMMA CatchUnknownTurnKeeps == ASSUME IInv, CatchUnknownTurn PROVE IInv'
<1> USE TurnsAssumption DEF CatchUnknownTurn, First, Closed, Interrupted, RaceWith, Listening, Alive
<1>1. TypeOK'
  BY DEF IInv, TypeOK, NoResult
<1>2. MessagesAreTrue'
  BY DEF IInv, TypeOK, MessagesAreTrue, Told, Core, TurnIsOwned
<1>3. Core' /\ CompletedIsOwn'
  BY <1>1 DEF IInv, TypeOK, NoResult, CompletedIsOwn, Core, TurnIsOwned, PromisesAreTrue, Justified, InPlace, BeforeTheRace,
     Settling, NoOrphanTurn, ResultIsJustified, AbortReachesTurn
<1> QED
  BY <1>1, <1>2, <1>3 DEF IInv

LEMMA CatchKnownTurnKeeps == ASSUME IInv, CatchKnownTurn PROVE IInv'
<1> USE TurnsAssumption DEF CatchKnownTurn, First, Closed, Interrupted, RaceWith, Listening, Alive
<1>1. TypeOK'
  BY DEF IInv, TypeOK, NoResult
<1>2. MessagesAreTrue'
  BY DEF IInv, TypeOK, MessagesAreTrue, Told, Core, TurnIsOwned
<1>3. Core' /\ CompletedIsOwn'
  BY <1>1 DEF IInv, TypeOK, NoResult, CompletedIsOwn, Core, TurnIsOwned, PromisesAreTrue, Justified, InPlace, BeforeTheRace,
     Settling, NoOrphanTurn, ResultIsJustified, AbortReachesTurn
<1> QED
  BY <1>1, <1>2, <1>3 DEF IInv

LEMMA CatchClosedKeeps == ASSUME IInv, CatchClosed PROVE IInv'
<1> USE TurnsAssumption DEF CatchClosed, First, Closed, Interrupted, RaceWith, Listening, Alive
<1>1. TypeOK'
  BY DEF IInv, TypeOK, NoResult
<1>2. MessagesAreTrue'
  BY DEF IInv, TypeOK, MessagesAreTrue, Told, Core, TurnIsOwned
<1>3. Core' /\ CompletedIsOwn'
  BY <1>1 DEF IInv, TypeOK, NoResult, CompletedIsOwn, Core, TurnIsOwned, PromisesAreTrue, Justified, InPlace, BeforeTheRace,
     Settling, NoOrphanTurn, ResultIsJustified, AbortReachesTurn
<1> QED
  BY <1>1, <1>2, <1>3 DEF IInv

LEMMA IdMismatchKeeps == ASSUME IInv, IdMismatch PROVE IInv'
<1> USE TurnsAssumption DEF IdMismatch, First, Closed, Interrupted, RaceWith, Listening, Alive
<1>1. TypeOK'
  BY DEF IInv, TypeOK, NoResult
<1>2. MessagesAreTrue'
  BY DEF IInv, TypeOK, MessagesAreTrue, Told, Core, TurnIsOwned
<1>3. Core' /\ CompletedIsOwn'
  BY <1>1 DEF IInv, TypeOK, NoResult, CompletedIsOwn, Core, TurnIsOwned, PromisesAreTrue, Justified, InPlace, BeforeTheRace,
     Settling, NoOrphanTurn, ResultIsJustified, AbortReachesTurn
<1> QED
  BY <1>1, <1>2, <1>3 DEF IInv

LEMMA MismatchInterruptedKeeps == ASSUME IInv, MismatchInterrupted PROVE IInv'
<1> USE TurnsAssumption DEF MismatchInterrupted, First, Closed, Interrupted, RaceWith, Listening, Alive
<1>1. TypeOK'
  BY DEF IInv, TypeOK, NoResult
<1>2. MessagesAreTrue'
  BY DEF IInv, TypeOK, MessagesAreTrue, Told, Core, TurnIsOwned
<1>3. Core' /\ CompletedIsOwn'
  BY <1>1 DEF IInv, TypeOK, NoResult, CompletedIsOwn, Core, TurnIsOwned, PromisesAreTrue, Justified, InPlace, BeforeTheRace,
     Settling, NoOrphanTurn, ResultIsJustified, AbortReachesTurn
<1> QED
  BY <1>1, <1>2, <1>3 DEF IInv

LEMMA MismatchClosedKeeps == ASSUME IInv, MismatchClosed PROVE IInv'
<1> USE TurnsAssumption DEF MismatchClosed, Return, First, Closed, Interrupted, RaceWith, Listening, Alive
<1>1. TypeOK'
  BY DEF IInv, TypeOK, NoResult
<1>2. MessagesAreTrue'
  BY DEF IInv, TypeOK, MessagesAreTrue, Told, Core, TurnIsOwned
<1>3. Core' /\ CompletedIsOwn'
  BY <1>1 DEF IInv, TypeOK, NoResult, CompletedIsOwn, Core, TurnIsOwned, PromisesAreTrue, Justified, InPlace, BeforeTheRace,
     Settling, NoOrphanTurn, ResultIsJustified, AbortReachesTurn
<1> QED
  BY <1>1, <1>2, <1>3 DEF IInv

LEMMA AbortedStartKeeps == ASSUME IInv, AbortedStart PROVE IInv'
<1> USE TurnsAssumption DEF AbortedStart, First, Closed, Interrupted, RaceWith, Listening, Alive
<1>1. TypeOK'
  BY DEF IInv, TypeOK, NoResult
<1>2. MessagesAreTrue'
  BY DEF IInv, TypeOK, MessagesAreTrue, Told, Core, TurnIsOwned
<1>3. Core' /\ CompletedIsOwn'
  BY <1>1 DEF IInv, TypeOK, NoResult, CompletedIsOwn, Core, TurnIsOwned, PromisesAreTrue, Justified, InPlace, BeforeTheRace,
     Settling, NoOrphanTurn, ResultIsJustified, AbortReachesTurn
<1> QED
  BY <1>1, <1>2, <1>3 DEF IInv

LEMMA RaceSettlesKeeps == ASSUME IInv, RaceSettles PROVE IInv'
<1> USE TurnsAssumption DEF RaceSettles, AfterRace, Return, First, Closed, Interrupted, RaceWith, Listening, Alive
<1>1. TypeOK'
  BY DEF IInv, TypeOK, NoResult
<1>2. MessagesAreTrue'
  BY DEF IInv, TypeOK, MessagesAreTrue, Told, Core, TurnIsOwned
<1>3. Core' /\ CompletedIsOwn'
  BY <1>1 DEF IInv, TypeOK, NoResult, CompletedIsOwn, Core, TurnIsOwned, PromisesAreTrue, Justified, InPlace, BeforeTheRace,
     Settling, NoOrphanTurn, ResultIsJustified, AbortReachesTurn
<1> QED
  BY <1>1, <1>2, <1>3 DEF IInv

LEMMA AwaitContainmentKeeps == ASSUME IInv, AwaitContainment PROVE IInv'
<1> USE TurnsAssumption DEF AwaitContainment, First, Closed, Interrupted, RaceWith, Listening, Alive
<1>1. TypeOK'
  BY DEF IInv, TypeOK, NoResult
<1>2. MessagesAreTrue'
  BY DEF IInv, TypeOK, MessagesAreTrue, Told, Core, TurnIsOwned
<1>3. Core' /\ CompletedIsOwn'
  BY <1>1 DEF IInv, TypeOK, NoResult, CompletedIsOwn, Core, TurnIsOwned, PromisesAreTrue, Justified, InPlace, BeforeTheRace,
     Settling, NoOrphanTurn, ResultIsJustified, AbortReachesTurn
<1> QED
  BY <1>1, <1>2, <1>3 DEF IInv

LEMMA ContainmentKeeps == ASSUME IInv, Containment PROVE IInv'
<1> USE TurnsAssumption DEF Containment, AfterRace, Return, First, Closed, Interrupted, RaceWith, Listening, Alive
<1>1. TypeOK'
  BY DEF IInv, TypeOK, NoResult
<1>2. MessagesAreTrue'
  BY DEF IInv, TypeOK, MessagesAreTrue, Told, Core, TurnIsOwned
<1>3. Core' /\ CompletedIsOwn'
  BY <1>1 DEF IInv, TypeOK, NoResult, CompletedIsOwn, Core, TurnIsOwned, PromisesAreTrue, Justified, InPlace, BeforeTheRace,
     Settling, NoOrphanTurn, ResultIsJustified, AbortReachesTurn
<1> QED
  BY <1>1, <1>2, <1>3 DEF IInv

LEMMA TerminalObservedKeeps == ASSUME IInv, TerminalObserved PROVE IInv'
<1> USE TurnsAssumption DEF TerminalObserved, First, Closed, Interrupted, RaceWith, Listening, Alive
<1>1. TypeOK'
  BY DEF IInv, TypeOK, NoResult
<1>2. MessagesAreTrue'
  BY DEF IInv, TypeOK, MessagesAreTrue, Told, Core, TurnIsOwned
<1>3. Core' /\ CompletedIsOwn'
  BY <1>1 DEF IInv, TypeOK, NoResult, CompletedIsOwn, Core, TurnIsOwned, PromisesAreTrue, Justified, InPlace, BeforeTheRace,
     Settling, NoOrphanTurn, ResultIsJustified, AbortReachesTurn
<1> QED
  BY <1>1, <1>2, <1>3 DEF IInv

LEMMA TerminalMissedKeeps == ASSUME IInv, TerminalMissed PROVE IInv'
<1> USE TurnsAssumption DEF TerminalMissed, First, Closed, Interrupted, RaceWith, Listening, Alive
<1>1. TypeOK'
  BY DEF IInv, TypeOK, NoResult
<1>2. MessagesAreTrue'
  BY DEF IInv, TypeOK, MessagesAreTrue, Told, Core, TurnIsOwned
<1>3. Core' /\ CompletedIsOwn'
  BY <1>1 DEF IInv, TypeOK, NoResult, CompletedIsOwn, Core, TurnIsOwned, PromisesAreTrue, Justified, InPlace, BeforeTheRace,
     Settling, NoOrphanTurn, ResultIsJustified, AbortReachesTurn
<1> QED
  BY <1>1, <1>2, <1>3 DEF IInv

LEMMA SettlingClosedKeeps == ASSUME IInv, SettlingClosed PROVE IInv'
<1> USE TurnsAssumption DEF SettlingClosed, First, Closed, Interrupted, RaceWith, Listening, Alive
<1>1. TypeOK'
  BY DEF IInv, TypeOK, NoResult
<1>2. MessagesAreTrue'
  BY DEF IInv, TypeOK, MessagesAreTrue, Told, Core, TurnIsOwned
<1>3. Core' /\ CompletedIsOwn'
  BY <1>1 DEF IInv, TypeOK, NoResult, CompletedIsOwn, Core, TurnIsOwned, PromisesAreTrue, Justified, InPlace, BeforeTheRace,
     Settling, NoOrphanTurn, ResultIsJustified, AbortReachesTurn
<1> QED
  BY <1>1, <1>2, <1>3 DEF IInv

LEMMA InterruptAwaitedKeeps == ASSUME IInv, InterruptAwaited PROVE IInv'
<1> USE TurnsAssumption DEF InterruptAwaited, Return, First, Closed, Interrupted, RaceWith, Listening, Alive
<1>1. TypeOK'
  BY DEF IInv, TypeOK, NoResult
<1>2. MessagesAreTrue'
  BY DEF IInv, TypeOK, MessagesAreTrue, Told, Core, TurnIsOwned
<1>3. Core' /\ CompletedIsOwn'
  BY <1>1 DEF IInv, TypeOK, NoResult, CompletedIsOwn, Core, TurnIsOwned, PromisesAreTrue, Justified, InPlace, BeforeTheRace,
     Settling, NoOrphanTurn, ResultIsJustified, AbortReachesTurn
<1> QED
  BY <1>1, <1>2, <1>3 DEF IInv

LEMMA TurnTimeoutKeeps == ASSUME IInv, TurnTimeout PROVE IInv'
<1> USE TurnsAssumption DEF TurnTimeout, First, Closed, Interrupted, RaceWith, Listening, Alive
<1>1. TypeOK'
  BY DEF IInv, TypeOK, NoResult
<1>2. MessagesAreTrue'
  BY DEF IInv, TypeOK, MessagesAreTrue, Told, Core, TurnIsOwned
<1>3. Core' /\ CompletedIsOwn'
  BY <1>1 DEF IInv, TypeOK, NoResult, CompletedIsOwn, Core, TurnIsOwned, PromisesAreTrue, Justified, InPlace, BeforeTheRace,
     Settling, NoOrphanTurn, ResultIsJustified, AbortReachesTurn
<1> QED
  BY <1>1, <1>2, <1>3 DEF IInv

LEMMA InterruptSettlesKeeps == ASSUME IInv, NEW t \in Turns, InterruptSettles(t) PROVE IInv'
<1> USE TurnsAssumption DEF InterruptSettles, First, Closed, Interrupted, RaceWith, Listening, Alive
<1>1. TypeOK'
  BY DEF IInv, TypeOK, NoResult
<1>2. MessagesAreTrue'
  BY DEF IInv, TypeOK, MessagesAreTrue, Told, Core, TurnIsOwned
<1>3. Core' /\ CompletedIsOwn'
  BY <1>1 DEF IInv, TypeOK, NoResult, CompletedIsOwn, Core, TurnIsOwned, PromisesAreTrue, Justified, InPlace, BeforeTheRace,
     Settling, NoOrphanTurn, ResultIsJustified, AbortReachesTurn
<1> QED
  BY <1>1, <1>2, <1>3 DEF IInv

LEMMA AbortKeeps == ASSUME IInv, Abort PROVE IInv'
<1> USE TurnsAssumption DEF Abort, First, Closed, Interrupted, RaceWith, Listening, Alive
<1>1. TypeOK'
  BY DEF IInv, TypeOK, NoResult
<1>2. MessagesAreTrue'
  BY DEF IInv, TypeOK, MessagesAreTrue, Told, Core, TurnIsOwned
<1>3. Core' /\ CompletedIsOwn'
  BY <1>1 DEF IInv, TypeOK, NoResult, CompletedIsOwn, Core, TurnIsOwned, PromisesAreTrue, Justified, InPlace, BeforeTheRace,
     Settling, NoOrphanTurn, ResultIsJustified, AbortReachesTurn
<1> QED
  BY <1>1, <1>2, <1>3 DEF IInv

LEMMA ServerExitsKeeps == ASSUME IInv, ServerExits PROVE IInv'
<1> USE TurnsAssumption DEF ServerExits, ConnectionLost, First, Closed, Interrupted, RaceWith, Listening, Alive
<1>1. TypeOK'
  BY DEF IInv, TypeOK, NoResult
<1>2. MessagesAreTrue'
  BY DEF IInv, TypeOK, MessagesAreTrue, Told, Core, TurnIsOwned
<1>3. Core' /\ CompletedIsOwn'
  BY <1>1 DEF IInv, TypeOK, NoResult, CompletedIsOwn, Core, TurnIsOwned, PromisesAreTrue, Justified, InPlace, BeforeTheRace,
     Settling, NoOrphanTurn, ResultIsJustified, AbortReachesTurn
<1> QED
  BY <1>1, <1>2, <1>3 DEF IInv

LEMMA PipeBreaksKeeps == ASSUME IInv, PipeBreaks PROVE IInv'
<1> USE TurnsAssumption DEF PipeBreaks, ConnectionLost, First, Closed, Interrupted, RaceWith, Listening, Alive
<1>1. TypeOK'
  BY DEF IInv, TypeOK, NoResult
<1>2. MessagesAreTrue'
  BY DEF IInv, TypeOK, MessagesAreTrue, Told, Core, TurnIsOwned
<1>3. Core' /\ CompletedIsOwn'
  BY <1>1 DEF IInv, TypeOK, NoResult, CompletedIsOwn, Core, TurnIsOwned, PromisesAreTrue, Justified, InPlace, BeforeTheRace,
     Settling, NoOrphanTurn, ResultIsJustified, AbortReachesTurn
<1> QED
  BY <1>1, <1>2, <1>3 DEF IInv

LEMMA FrameOverflowsKeeps == ASSUME IInv, FrameOverflows PROVE IInv'
<1> USE TurnsAssumption DEF FrameOverflows, ConnectionLost, First, Closed, Interrupted, RaceWith, Listening, Alive
<1>1. TypeOK'
  BY DEF IInv, TypeOK, NoResult
<1>2. MessagesAreTrue'
  BY DEF IInv, TypeOK, MessagesAreTrue, Told, Core, TurnIsOwned
<1>3. Core' /\ CompletedIsOwn'
  BY <1>1 DEF IInv, TypeOK, NoResult, CompletedIsOwn, Core, TurnIsOwned, PromisesAreTrue, Justified, InPlace, BeforeTheRace,
     Settling, NoOrphanTurn, ResultIsJustified, AbortReachesTurn
<1> QED
  BY <1>1, <1>2, <1>3 DEF IInv

LEMMA StartTurnKeeps == ASSUME IInv, NEW t \in Turns, StartTurn(t) PROVE IInv'
<1> USE TurnsAssumption DEF StartTurn, First, Closed, Interrupted, RaceWith, Listening, Alive
<1>1. TypeOK'
  BY DEF IInv, TypeOK, NoResult
<1>2. MessagesAreTrue'
  <2>1. own = None /\ buffered \in Seq(Message) /\ wire \in Seq(Message)
    BY DEF IInv, Core, TurnIsOwned, TypeOK
  <2>2. \A m \in Message : Told(m) => m.kind = "response"
    BY <2>1 DEF Message, Told
  <2>3. /\ \A i \in DOMAIN wire : wire[i].kind = "response"
        /\ DOMAIN buffered = {}
    BY <2>1, <2>2 DEF IInv, MessagesAreTrue
  <2> QED
    BY <2>3 DEF MessagesAreTrue, Told
<1>3. Core' /\ CompletedIsOwn'
  BY <1>1 DEF IInv, TypeOK, NoResult, CompletedIsOwn, Core, TurnIsOwned, PromisesAreTrue, Justified, InPlace, BeforeTheRace,
     Settling, NoOrphanTurn, ResultIsJustified, AbortReachesTurn
<1> QED
  BY <1>1, <1>2, <1>3 DEF IInv

-----------------------------------------------------------------------------
(* Steps that drain the buffer or read a message *)

\* The id becomes known and everything buffered is looked at.
LEMMA DrainKeeps ==
  ASSUME IInv, NEW t \in Turns, Drain(t), turnId \in {None, t}, turnId' = t,
         UNCHANGED <<own, remote, broken, response, result, aborted>>
  PROVE  /\ buffered' = <<>> /\ completion' \in Terminal \cup {"none"}
         /\ terminalSeen' \in BOOLEAN /\ contained' \in BOOLEAN
         /\ server' \in {"open", "closing", "exited"} /\ (server # "open" => server' # "open")
         /\ Justified(completion)' /\ (completion' = "interrupted" => remote' = "interrupted")
         /\ terminalSeen' => remote' \in Terminal
         /\ contained' => server' # "open"
         /\ completion # "none" => completion' = completion
         /\ terminalSeen => terminalSeen'
<1> USE DEF Drain, First, Closed
<1> DEFINE status == DrainedStatus(t)
           flooded == \E i \in DrainedOf(t) : buffered[i].kind = "flood"
           ended == \E i \in DrainedOf(t) : buffered[i].kind \in Terminal
<1>1. /\ status \in Terminal \cup {"none"}
      /\ status \in {"completed", "interrupted"} => t = own /\ remote = status
      /\ status = "failed" => remote = "failed" \/ flooded
      /\ ended => remote \in Terminal
  BY DrainingIsTrue DEF IInv
<1>2. /\ buffered' = <<>> /\ completion' = First(completion, status)
      /\ terminalSeen' = (terminalSeen \/ ended)
      /\ contained' = (contained \/ flooded)
      /\ server' = IF contained' THEN Closed ELSE server
  OBVIOUS
<1> HIDE DEF Drain, status, flooded, ended
<1>3. terminalSeen' \in BOOLEAN /\ (terminalSeen' <=> terminalSeen \/ ended)
  BY <1>2 DEF IInv, TypeOK
<1>4. contained' \in BOOLEAN /\ (contained' <=> contained \/ flooded)
  BY <1>2 DEF IInv, TypeOK
<1>5. /\ server' \in {"open", "closing", "exited"} /\ (server # "open" => server' # "open")
      /\ contained' => server' # "open"
  BY <1>2, <1>4 DEF IInv, TypeOK
<1>6. completion' \in Terminal \cup {"none"}
  BY <1>1, <1>2 DEF IInv, TypeOK
<1>7. Justified(completion)' /\ (completion' = "interrupted" => remote' = "interrupted")
  BY <1>1, <1>2, <1>4, <1>5, TurnsAssumption DEF IInv, Core, PromisesAreTrue, Justified, CompletedIsOwn
<1> QED
  BY <1>1, <1>2, <1>3, <1>4, <1>5, <1>6, <1>7 DEF IInv, Core, PromisesAreTrue

LEMMA StartSucceedsKeeps == ASSUME IInv, StartSucceeds PROVE IInv'
<1> USE TurnsAssumption DEF StartSucceeds, First, Interrupted
<1>1. response \in Turns /\ Drain(response) /\ turnId \in {None, response} /\ turnId' = response
      /\ pc = "starting"
      /\ UNCHANGED <<response, aborted, result, own, remote, broken, wire, said, chatter, faults>>
  OBVIOUS
<1>2. /\ buffered' = <<>> /\ completion' \in Terminal \cup {"none"}
      /\ terminalSeen' \in BOOLEAN /\ contained' \in BOOLEAN
      /\ server' \in {"open", "closing", "exited"} /\ (server # "open" => server' # "open")
      /\ Justified(completion)' /\ (completion' = "interrupted" => remote' = "interrupted")
      /\ terminalSeen' => remote' \in Terminal
      /\ contained' => server' # "open"
  BY <1>1, DrainKeeps
<1>3. TypeOK'
  <2>1. buffered' \in Seq(Message) /\ Len(buffered') <= MaxBuffered
    BY <1>2, EmptyIsABuffer
  <2>2. interrupts' \in [Turns -> {"none", "pending", "settled"}]
    BY <1>1 DEF IInv, TypeOK
  <2>3. timer' \in {"off", "armed", "fired"} /\ race' \in Terminal \cup {"none"}
        /\ pc' \in {"abortedStart", "racing"}
    BY <1>2 DEF IInv, TypeOK
  <2> HIDE DEF StartSucceeds
  <2> QED
    BY <1>1, <1>2, <2>1, <2>2, <2>3 DEF IInv, TypeOK
<1>4. MessagesAreTrue'
  BY <1>1, <1>2 DEF IInv, MessagesAreTrue, Told
<1>5. Core' /\ CompletedIsOwn'
  BY <1>1, <1>2, <1>3 DEF IInv, TypeOK, NoResult, CompletedIsOwn, Core, TurnIsOwned,
     PromisesAreTrue, Justified, InPlace, BeforeTheRace, Settling, NoOrphanTurn,
     ResultIsJustified, AbortReachesTurn
<1> QED
  BY <1>3, <1>4, <1>5 DEF IInv

LEMMA ReadStartedKeeps == ASSUME IInv, NEW m \in Message, ReadStarted(m) PROVE IInv'
<1> USE TurnsAssumption DEF ReadStarted, First, Interrupted, RaceWith, Listening
<1>1. m.turn \in Turns /\ Drain(m.turn) /\ turnId = None /\ turnId' = m.turn
      /\ pc \notin Done \cup {"idle"} /\ NextMessage(m)
      /\ UNCHANGED <<pc, response, aborted, timer, result, own, remote, broken, said, chatter, faults>>
  BY DEF Message
<1>2. /\ buffered' = <<>> /\ completion' \in Terminal \cup {"none"}
      /\ terminalSeen' \in BOOLEAN /\ contained' \in BOOLEAN
      /\ server' \in {"open", "closing", "exited"} /\ (server # "open" => server' # "open")
      /\ Justified(completion)' /\ (completion' = "interrupted" => remote' = "interrupted")
      /\ terminalSeen' => remote' \in Terminal
      /\ contained' => server' # "open"
      /\ terminalSeen => terminalSeen'
  BY <1>1, DrainKeeps
<1>3. wire' \in Seq(Message) /\ \A i \in DOMAIN wire' : Told(wire'[i])
  BY <1>1, ReadingIsTrue DEF IInv, TypeOK
<1>4. TypeOK'
  <2>1. buffered' \in Seq(Message) /\ Len(buffered') <= MaxBuffered
    BY <1>2, EmptyIsABuffer
  <2>2. interrupts' \in [Turns -> {"none", "pending", "settled"}]
    BY <1>1 DEF IInv, TypeOK
  <2>3. race' \in Terminal \cup {"none"}
    BY <1>2 DEF IInv, TypeOK
  <2> HIDE DEF ReadStarted
  <2> QED
    BY <1>1, <1>2, <1>3, <2>1, <2>2, <2>3 DEF IInv, TypeOK
<1>5. MessagesAreTrue'
  BY <1>1, <1>2, <1>3 DEF MessagesAreTrue, Told
<1>6. Core' /\ CompletedIsOwn'
  BY <1>1, <1>2, <1>4 DEF IInv, TypeOK, NoResult, CompletedIsOwn, Core, TurnIsOwned,
     PromisesAreTrue, Justified, InPlace, BeforeTheRace, Settling, NoOrphanTurn,
     ResultIsJustified, AbortReachesTurn
<1> QED
  BY <1>4, <1>5, <1>6 DEF IInv

LEMMA ReadEarlyKeeps == ASSUME IInv, NEW m \in Message, ReadEarly(m) PROVE IInv'
<1> USE TurnsAssumption DEF ReadEarly, First, RaceWith, Listening, Contain, Closed
<1>1. Told(m) /\ wire' \in Seq(Message) /\ \A i \in DOMAIN wire' : Told(wire'[i])
  BY ReadingIsTrue DEF IInv, TypeOK
<1>2. buffered' \in Seq(Message) /\ Len(buffered') <= MaxBuffered
  BY BoundsAssumption DEF IInv, TypeOK
<1>3. \A i \in DOMAIN buffered' : (i \in DOMAIN buffered /\ buffered'[i] = buffered[i])
                                  \/ buffered'[i] = m
  <2>1. buffered' = buffered \/ buffered' = Append(buffered, m)
    OBVIOUS
  <2> QED
    BY <2>1 DEF IInv, TypeOK
<1>4. TypeOK'
  <2>1. /\ completion' \in Terminal \cup {"none"} /\ contained' \in BOOLEAN
        /\ server' \in {"open", "closing", "exited"}
    BY DEF IInv, TypeOK
  <2>2. race' \in Terminal \cup {"none"}
    BY <2>1 DEF IInv, TypeOK
  <2>3. UNCHANGED <<pc, turnId, response, terminalSeen, interrupts, aborted, timer,
                    result, own, remote, broken, said, chatter, faults>>
    OBVIOUS
  <2> HIDE DEF ReadEarly
  <2> QED
    BY <1>1, <1>2, <2>1, <2>2, <2>3 DEF IInv, TypeOK
<1>5. MessagesAreTrue'
  BY <1>1, <1>3 DEF IInv, MessagesAreTrue, Told
<1>6. Core' /\ CompletedIsOwn'
  BY <1>4 DEF IInv, TypeOK, NoResult, CompletedIsOwn, Core, TurnIsOwned,
     PromisesAreTrue, Justified, InPlace, BeforeTheRace, Settling, NoOrphanTurn,
     ResultIsJustified, AbortReachesTurn
<1> QED
  BY <1>4, <1>5, <1>6 DEF IInv

LEMMA ReadResponseKeeps == ASSUME IInv, NEW m \in Message, ReadResponse(m) PROVE IInv'
<1> USE TurnsAssumption DEF ReadResponse, First, RaceWith, Listening, Contain, Closed
<1>1. Told(m) /\ m.turn \in Turns /\ wire' \in Seq(Message) /\ \A i \in DOMAIN wire' : Told(wire'[i])
  BY ReadingIsTrue DEF IInv, TypeOK, Message
<1>2. TypeOK'
  BY <1>1 DEF IInv, TypeOK
<1>3. MessagesAreTrue'
  BY <1>1 DEF IInv, MessagesAreTrue, Told
<1>4. Core' /\ CompletedIsOwn'
  BY <1>1, <1>2 DEF IInv, TypeOK, NoResult, CompletedIsOwn, Core, TurnIsOwned,
     PromisesAreTrue, Justified, InPlace, BeforeTheRace, Settling, NoOrphanTurn,
     ResultIsJustified, AbortReachesTurn, Told
<1> QED
  BY <1>2, <1>3, <1>4 DEF IInv

LEMMA ReadIgnoredKeeps == ASSUME IInv, NEW m \in Message, ReadIgnored(m) PROVE IInv'
<1> USE TurnsAssumption DEF ReadIgnored, First, RaceWith, Listening, Contain, Closed
<1>1. Told(m) /\ m.turn \in Turns /\ wire' \in Seq(Message) /\ \A i \in DOMAIN wire' : Told(wire'[i])
  BY ReadingIsTrue DEF IInv, TypeOK, Message
<1>2. TypeOK'
  BY <1>1 DEF IInv, TypeOK
<1>3. MessagesAreTrue'
  BY <1>1 DEF IInv, MessagesAreTrue, Told
<1>4. Core' /\ CompletedIsOwn'
  BY <1>1, <1>2 DEF IInv, TypeOK, NoResult, CompletedIsOwn, Core, TurnIsOwned,
     PromisesAreTrue, Justified, InPlace, BeforeTheRace, Settling, NoOrphanTurn,
     ResultIsJustified, AbortReachesTurn, Told
<1> QED
  BY <1>2, <1>3, <1>4 DEF IInv

LEMMA ReadNoIdKeeps == ASSUME IInv, NEW m \in Message, ReadNoId(m) PROVE IInv'
<1> USE TurnsAssumption DEF ReadNoId, First, RaceWith, Listening, Contain, Closed
<1>1. Told(m) /\ m.turn \in Turns /\ wire' \in Seq(Message) /\ \A i \in DOMAIN wire' : Told(wire'[i])
  BY ReadingIsTrue DEF IInv, TypeOK, Message
<1>2. TypeOK'
  BY <1>1 DEF IInv, TypeOK
<1>3. MessagesAreTrue'
  BY <1>1 DEF IInv, MessagesAreTrue, Told
<1>4. Core' /\ CompletedIsOwn'
  BY <1>1, <1>2 DEF IInv, TypeOK, NoResult, CompletedIsOwn, Core, TurnIsOwned,
     PromisesAreTrue, Justified, InPlace, BeforeTheRace, Settling, NoOrphanTurn,
     ResultIsJustified, AbortReachesTurn, Told
<1> QED
  BY <1>2, <1>3, <1>4 DEF IInv

LEMMA ReadTerminalKeeps == ASSUME IInv, NEW m \in Message, ReadTerminal(m) PROVE IInv'
<1> USE TurnsAssumption DEF ReadTerminal, First, RaceWith, Listening, Contain, Closed
<1>1. Told(m) /\ m.turn \in Turns /\ wire' \in Seq(Message) /\ \A i \in DOMAIN wire' : Told(wire'[i])
  BY ReadingIsTrue DEF IInv, TypeOK, Message
<1>2. TypeOK'
  BY <1>1 DEF IInv, TypeOK
<1>3. MessagesAreTrue'
  BY <1>1 DEF IInv, MessagesAreTrue, Told
<1>4. Core' /\ CompletedIsOwn'
  BY <1>1, <1>2 DEF IInv, TypeOK, NoResult, CompletedIsOwn, Core, TurnIsOwned,
     PromisesAreTrue, Justified, InPlace, BeforeTheRace, Settling, NoOrphanTurn,
     ResultIsJustified, AbortReachesTurn, Told
<1> QED
  BY <1>2, <1>3, <1>4 DEF IInv

LEMMA ReadFloodKeeps == ASSUME IInv, NEW m \in Message, ReadFlood(m) PROVE IInv'
<1> USE TurnsAssumption DEF ReadFlood, First, RaceWith, Listening, Contain, Closed
<1>1. Told(m) /\ m.turn \in Turns /\ wire' \in Seq(Message) /\ \A i \in DOMAIN wire' : Told(wire'[i])
  BY ReadingIsTrue DEF IInv, TypeOK, Message
<1>2. TypeOK'
  BY <1>1 DEF IInv, TypeOK
<1>3. MessagesAreTrue'
  BY <1>1 DEF IInv, MessagesAreTrue, Told
<1>4. Core' /\ CompletedIsOwn'
  BY <1>1, <1>2 DEF IInv, TypeOK, NoResult, CompletedIsOwn, Core, TurnIsOwned,
     PromisesAreTrue, Justified, InPlace, BeforeTheRace, Settling, NoOrphanTurn,
     ResultIsJustified, AbortReachesTurn, Told
<1> QED
  BY <1>2, <1>3, <1>4 DEF IInv

-----------------------------------------------------------------------------
(* Steps of the server that write *)

LEMMA WriteStartedKeeps == ASSUME IInv, WriteStarted PROVE IInv'
<1> USE TurnsAssumption DEF WriteStarted
<1> DEFINE m == [kind |-> "started", turn |-> own]
<1>1. m \in Message /\ Write("started", own)
  BY DEF IInv, Core, TurnIsOwned, TypeOK, Message
<1>2. wire' \in Seq(Message) /\ \A i \in DOMAIN wire' : (i \in DOMAIN wire /\ wire'[i] = wire[i]) \/ wire'[i] = m
  BY <1>1, WritingIsTrue DEF IInv, TypeOK
<1>3. TypeOK'
  BY <1>2 DEF IInv, TypeOK
<1>4. MessagesAreTrue'
  BY <1>2 DEF IInv, MessagesAreTrue, Told
<1>5. Core' /\ CompletedIsOwn'
  BY <1>3 DEF IInv, TypeOK, NoResult, CompletedIsOwn, Core, TurnIsOwned,
     PromisesAreTrue, Justified, InPlace, BeforeTheRace, Settling, NoOrphanTurn,
     ResultIsJustified, AbortReachesTurn
<1> QED
  BY <1>3, <1>4, <1>5 DEF IInv

LEMMA WriteProgressKeeps == ASSUME IInv, NEW kind \in Progress, WriteProgress(kind) PROVE IInv'
<1> USE TurnsAssumption DEF WriteProgress
<1> DEFINE m == [kind |-> kind, turn |-> own]
<1>1. m \in Message /\ Write(kind, own)
  BY DEF IInv, Core, TurnIsOwned, TypeOK, Message
<1>2. wire' \in Seq(Message) /\ \A i \in DOMAIN wire' : (i \in DOMAIN wire /\ wire'[i] = wire[i]) \/ wire'[i] = m
  BY <1>1, WritingIsTrue DEF IInv, TypeOK
<1>3. TypeOK'
  BY <1>2 DEF IInv, TypeOK
<1>4. MessagesAreTrue'
  BY <1>2 DEF IInv, MessagesAreTrue, Told
<1>5. Core' /\ CompletedIsOwn'
  BY <1>3 DEF IInv, TypeOK, NoResult, CompletedIsOwn, Core, TurnIsOwned,
     PromisesAreTrue, Justified, InPlace, BeforeTheRace, Settling, NoOrphanTurn,
     ResultIsJustified, AbortReachesTurn
<1> QED
  BY <1>3, <1>4, <1>5 DEF IInv

LEMMA WriteTerminalKeeps == ASSUME IInv, NEW status \in Terminal, WriteTerminal(status) PROVE IInv'
<1> USE TurnsAssumption DEF WriteTerminal
<1> DEFINE m == [kind |-> status, turn |-> own]
<1>1. m \in Message /\ Write(status, own)
  BY DEF IInv, Core, TurnIsOwned, TypeOK, Message
<1>2. wire' \in Seq(Message) /\ \A i \in DOMAIN wire' : (i \in DOMAIN wire /\ wire'[i] = wire[i]) \/ wire'[i] = m
  BY <1>1, WritingIsTrue DEF IInv, TypeOK
<1>3. TypeOK'
  BY <1>2 DEF IInv, TypeOK
<1>4. MessagesAreTrue'
  BY <1>2 DEF IInv, MessagesAreTrue, Told
<1>5. Core' /\ CompletedIsOwn'
  BY <1>3 DEF IInv, TypeOK, NoResult, CompletedIsOwn, Core, TurnIsOwned,
     PromisesAreTrue, Justified, InPlace, BeforeTheRace, Settling, NoOrphanTurn,
     ResultIsJustified, AbortReachesTurn
<1> QED
  BY <1>3, <1>4, <1>5 DEF IInv

LEMMA RespondKeeps == ASSUME IInv, Respond PROVE IInv'
<1> USE TurnsAssumption DEF Respond
<1> DEFINE m == [kind |-> "response", turn |-> own]
<1>1. m \in Message /\ Write("response", own)
  BY DEF IInv, Core, TurnIsOwned, TypeOK, Message
<1>2. wire' \in Seq(Message) /\ \A i \in DOMAIN wire' : (i \in DOMAIN wire /\ wire'[i] = wire[i]) \/ wire'[i] = m
  BY <1>1, WritingIsTrue DEF IInv, TypeOK
<1>3. TypeOK'
  BY <1>2 DEF IInv, TypeOK
<1>4. MessagesAreTrue'
  BY <1>2 DEF IInv, MessagesAreTrue, Told
<1>5. Core' /\ CompletedIsOwn'
  BY <1>3 DEF IInv, TypeOK, NoResult, CompletedIsOwn, Core, TurnIsOwned,
     PromisesAreTrue, Justified, InPlace, BeforeTheRace, Settling, NoOrphanTurn,
     ResultIsJustified, AbortReachesTurn
<1> QED
  BY <1>3, <1>4, <1>5 DEF IInv

LEMMA RespondWrongIdKeeps == ASSUME IInv, NEW t \in Turns, RespondWrongId(t) PROVE IInv'
<1> USE TurnsAssumption DEF RespondWrongId
<1> DEFINE m == [kind |-> "response", turn |-> t]
<1>1. m \in Message /\ Write("response", t)
  BY DEF IInv, Core, TurnIsOwned, TypeOK, Message
<1>2. wire' \in Seq(Message) /\ \A i \in DOMAIN wire' : (i \in DOMAIN wire /\ wire'[i] = wire[i]) \/ wire'[i] = m
  BY <1>1, WritingIsTrue DEF IInv, TypeOK
<1>3. TypeOK'
  BY <1>2 DEF IInv, TypeOK
<1>4. MessagesAreTrue'
  BY <1>2 DEF IInv, MessagesAreTrue, Told
<1>5. Core' /\ CompletedIsOwn'
  BY <1>3 DEF IInv, TypeOK, NoResult, CompletedIsOwn, Core, TurnIsOwned,
     PromisesAreTrue, Justified, InPlace, BeforeTheRace, Settling, NoOrphanTurn,
     ResultIsJustified, AbortReachesTurn
<1> QED
  BY <1>3, <1>4, <1>5 DEF IInv

LEMMA WriteWithoutIdKeeps == ASSUME IInv, WriteWithoutId PROVE IInv'
<1> USE TurnsAssumption DEF WriteWithoutId
<1> DEFINE m == [kind |-> "noId", turn |-> own]
<1>1. m \in Message /\ Write("noId", own)
  BY DEF IInv, Core, TurnIsOwned, TypeOK, Message
<1>2. wire' \in Seq(Message) /\ \A i \in DOMAIN wire' : (i \in DOMAIN wire /\ wire'[i] = wire[i]) \/ wire'[i] = m
  BY <1>1, WritingIsTrue DEF IInv, TypeOK
<1>3. TypeOK'
  BY <1>2 DEF IInv, TypeOK
<1>4. MessagesAreTrue'
  BY <1>2 DEF IInv, MessagesAreTrue, Told
<1>5. Core' /\ CompletedIsOwn'
  BY <1>3 DEF IInv, TypeOK, NoResult, CompletedIsOwn, Core, TurnIsOwned,
     PromisesAreTrue, Justified, InPlace, BeforeTheRace, Settling, NoOrphanTurn,
     ResultIsJustified, AbortReachesTurn
<1> QED
  BY <1>3, <1>4, <1>5 DEF IInv

LEMMA FrameIsLostKeeps == ASSUME IInv, FrameIsLost PROVE IInv'
<1> USE DEF FrameIsLost
<1>1. wire' \in Seq(Message) /\ \A i \in DOMAIN wire' : Told(wire'[i])
  BY ReadingIsTrue DEF NextMessage, IInv, TypeOK
<1>2. TypeOK'
  BY <1>1 DEF IInv, TypeOK
<1>3. MessagesAreTrue'
  BY <1>1 DEF IInv, MessagesAreTrue, Told
<1>4. Core' /\ CompletedIsOwn'
  BY <1>2 DEF IInv, TypeOK, NoResult, CompletedIsOwn, Core, TurnIsOwned,
     PromisesAreTrue, Justified, InPlace, BeforeTheRace, Settling, NoOrphanTurn,
     ResultIsJustified, AbortReachesTurn
<1> QED
  BY <1>2, <1>3, <1>4 DEF IInv

-----------------------------------------------------------------------------
LEMMA InitIsInductive == Init => IInv
<1> SUFFICES ASSUME Init PROVE IInv
  OBVIOUS
<1>1. TypeOK
  <2>1. buffered \in Seq(Message) /\ Len(buffered) <= MaxBuffered /\ wire \in Seq(Message)
    BY EmptyIsABuffer DEF Init
  <2>2. interrupts \in [Turns -> {"none", "pending", "settled"}]
    BY DEF Init
  <2> QED
    BY <2>1, <2>2 DEF Init, TypeOK, NoResult
<1>2. MessagesAreTrue /\ Core /\ CompletedIsOwn
  BY <1>1 DEF Init, NoResult, MessagesAreTrue, CompletedIsOwn, Core, TurnIsOwned,
     PromisesAreTrue, Justified, InPlace, BeforeTheRace, Settling, NoOrphanTurn,
     ResultIsJustified, AbortReachesTurn
<1> QED
  BY <1>1, <1>2 DEF IInv

LEMMA NextKeeps == IInv /\ [Next]_vars => IInv'
<1> SUFFICES ASSUME IInv, [Next]_vars PROVE IInv'
  OBVIOUS
<1>1. CASE ClientStep
  BY <1>1, BeginKeeps, SendTurnStartKeeps, StartFailsKeeps, CatchUnknownTurnKeeps,
     CatchKnownTurnKeeps, CatchClosedKeeps, IdMismatchKeeps, MismatchInterruptedKeeps,
     MismatchClosedKeeps, StartSucceedsKeeps, AbortedStartKeeps, RaceSettlesKeeps,
     AwaitContainmentKeeps, ContainmentKeeps, TerminalObservedKeeps, TerminalMissedKeeps,
     SettlingClosedKeeps, InterruptAwaitedKeeps, TurnTimeoutKeeps, InterruptSettlesKeeps
  DEF ClientStep
<1>2. CASE Read
  BY <1>2, ReadResponseKeeps, ReadIgnoredKeeps, ReadNoIdKeeps, ReadStartedKeeps, ReadEarlyKeeps,
     ReadTerminalKeeps, ReadFloodKeeps DEF Read
<1>3. CASE ServerStep
  BY <1>3, StartTurnKeeps, RespondWrongIdKeeps, WriteStartedKeeps, WriteProgressKeeps,
     WriteTerminalKeeps, RespondKeeps, WriteWithoutIdKeeps, FrameIsLostKeeps DEF ServerStep
<1>4. CASE UNCHANGED vars
  <2>1. TypeOK' /\ MessagesAreTrue'
    BY <1>4 DEF vars, IInv, TypeOK, MessagesAreTrue, Told
  <2>2. Core' /\ CompletedIsOwn'
    BY <1>4, <2>1 DEF vars, IInv, CompletedIsOwn, Core, TurnIsOwned,
       PromisesAreTrue, Justified, InPlace, BeforeTheRace, Settling, NoOrphanTurn,
       ResultIsJustified, AbortReachesTurn
  <2> QED
    BY <2>1, <2>2 DEF IInv
<1> QED
  BY <1>1, <1>2, <1>3, <1>4, AbortKeeps, ServerExitsKeeps, PipeBreaksKeeps, FrameOverflowsKeeps
  DEF Next

\* The whole argument in one formula: messages and promises are true, and where runTurn
\* stands tells what is known and over.
THEOREM Inductive == Spec => []IInv
<1>1. Init => IInv
  BY InitIsInductive
<1>2. IInv /\ [Next]_vars => IInv'
  BY NextKeeps
<1> QED
  BY <1>1, <1>2, PTL DEF Spec

\* When runTurn has ended the turn has ended too, or the server that ran it is told to
\* go, unless its pipe broke (app-server.ts, every return and throw of runTurn).
THEOREM NothingIsOrphaned == Spec => []NoOrphanTurn
<1>1. IInv => NoOrphanTurn
  BY DEF IInv, Core
<1> QED
  BY <1>1, Inductive, PTL

\* A completed result is that of the turn the server ran, which completed, and the buffer
\* is empty once the id is known (drainBuffered, processNotification).
THEOREM CompletionIsOwn == Spec => []CompletedIsOwn
<1>1. IInv => CompletedIsOwn
  BY DEF IInv
<1> QED
  BY <1>1, Inductive, PTL

\* A failed or interrupted result has its reason in the turn, the caller, the timer, the
\* request or the connection.
THEOREM ResultsAreJustified == Spec => []ResultIsJustified
<1>1. IInv => ResultIsJustified
  BY DEF IInv, Core
<1> QED
  BY <1>1, Inductive, PTL

\* An abort is told to the turn as soon as its id is known, in whichever order the two
\* come (the abort listener, turn/started and the answer to turn/start).
THEOREM AbortsArrive == Spec => []AbortReachesTurn
<1>1. IInv => AbortReachesTurn
  BY DEF IInv, Core
<1> QED
  BY <1>1, Inductive, PTL

=============================================================================
