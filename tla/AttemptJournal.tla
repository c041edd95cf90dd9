--------------------------- MODULE AttemptJournal ---------------------------
(***************************************************************************)
(* The durable attempt journal of src/src/runner/vgcl.ts.  executeVgcl     *)
(* drives one product run: it refuses to start while the journal directory *)
(* holds an unfinished record, creates its own record, reserves an         *)
(* attempt, persists the intent to send before the executor (SingleRunner) *)
(* writes turn/start, and escalates at most once.  Every run is one        *)
(* invocation of executeVgcl; the invocations share only the directory.    *)
(*                                                                         *)
(* A record is written by rename and then synced, so a write is atomic,    *)
(* but it can fail before the rename (the old record stays) or after it    *)
(* (the new record is on disk although the caller saw an error).           *)
(***************************************************************************)
EXTENDS Naturals, FiniteSets

CONSTANT Runs          \* the invocations of executeVgcl

ASSUME RunsAssumption == IsFiniteSet(Runs)

Ordinals == 1..2       \* maximumAttempts is the literal type 2

VARIABLES
  pc,          \* where each invocation stands in executeVgcl
  listed,      \* the record files findPending got from readdir
  unread,      \* those of them it has not read yet
  mem,         \* AttemptJournal.#record
  disk,        \* the record in the journal directory
  locks,       \* runs whose .lock file exists
  verdict,     \* what classifyAttempt said of each attempt
  sent,        \* how often turn/start was written for each attempt
  reconciled   \* runs whose record an operator has removed

vars == <<pc, listed, unread, mem, disk, locks, verdict, sent, reconciled>>

-----------------------------------------------------------------------------
(* Types of the record *)

RecordStates == {"absent", "planned", "attempt_reserved", "request_sent",
                 "reconciliation_required", "run_terminal"}

AttemptStates == {"unreserved", "attempt_reserved", "pre_send_failed",
                  "request_sent", "remote_identity_known",
                  "acknowledgement_unknown", "turn_terminal",
                  "verification_terminal"}

TerminalStates == {"none", "verified", "failed", "cancelled",
                   "reconciliation_required"}

\* "sends" stands for transportRequestCount and modelAttemptCount, which the
\* code always changes together.
Attempt == [state : AttemptStates, sends : Nat]

Record == [state    : RecordStates,
           reserved : {0} \cup Ordinals,
           attempts : [Ordinals -> Attempt],
           terminal : TerminalStates]

Unreserved == [state |-> "unreserved", sends |-> 0]

EmptyRecord(s) == [state    |-> s,
                   reserved |-> 0,
                   attempts |-> [o \in Ordinals |-> Unreserved],
                   terminal |-> "none"]

NoRecord == EmptyRecord("absent")

Pending(rec) == rec.state \notin {"absent", "run_terminal"}

-----------------------------------------------------------------------------
(* The result of an attempt: executeArm and classifyAttempt *)

TurnStatuses == {"completed", "failed", "interrupted", "cancelled"}
Integrity    == {"intact", "compromised", "unavailable"}
Outcomes     == {"success", "timeout", "cancelled", "failure"}
Causes       == {"verified", "candidate_defect", "task_or_verifier_configuration",
                 "infrastructure_or_protocol", "policy_or_external_state",
                 "user_stop"}

\* What the verifier can report: BlindVerifier.#verifyFrozen, and
\* failedVerification when no report exists.
Reports ==
  {v \in [integrity : Integrity, adequate : BOOLEAN, passed : BOOLEAN, timedOut : BOOLEAN] :
     /\ v.passed => v.adequate
     /\ v.integrity # "intact" => ~v.adequate /\ ~v.timedOut}

NoReport == [integrity |-> "unavailable", adequate |-> FALSE, passed |-> FALSE,
             timedOut |-> FALSE]

\* A settled turn: only an interrupted one may have run into its timeout.
Turns == {t \in [status : TurnStatuses, timedOut : BOOLEAN] :
            t.timedOut => t.status = "interrupted"}

\* What stopped the arm's signal, if anything.
Stops == {"none", "abort", "deadline"}

\* classifyArmOutcome
ArmOutcome(turn, report, stop) ==
  IF turn.status = "completed" /\ report.passed THEN "success"
  ELSE IF stop = "deadline" \/ turn.timedOut \/ report.timedOut THEN "timeout"
  ELSE IF turn.status \in {"interrupted", "cancelled"} \/ stop = "abort" THEN "cancelled"
  ELSE "failure"

\* The catch of executeArm turns a success into a failure.
Downgrade(outcome) == IF outcome = "success" THEN "failure" ELSE outcome

ArmResult(turn, report, outcome) ==
  [turn      |-> turn.status,     outcome   |-> outcome,
   passed    |-> report.passed,   adequate  |-> report.adequate,
   integrity |-> report.integrity]

\* executeArm without an exception: the turn settled, was not rerouted, and the
\* verifier ran.
CleanArms ==
  {ArmResult(t, v, ArmOutcome(t, v, stop)) : t \in Turns, v \in Reports, stop \in Stops}

\* executeArm's catch with a settled turn: a reroute or a failed capture leaves
\* no report, a mutated worktree or control state leaves the verifier's own.
DowngradedArms ==
  {ArmResult(t, v, Downgrade(ArmOutcome(t, v, stop))) :
     t \in Turns, v \in Reports \cup {NoReport}, stop \in Stops}

\* executeArm's catch when runTurn itself threw: syntheticFailedTurn, for which
\* classifyFailureOutcome and classifyArmOutcome agree.
LostTurn(stop) ==
  [status |-> IF stop = "none" THEN "failed" ELSE "interrupted", timedOut |-> FALSE]

LostTurnArms ==
  {ArmResult(LostTurn(stop), NoReport, ArmOutcome(LostTurn(stop), NoReport, stop)) :
     stop \in Stops}

ArmResults == CleanArms \cup DowngradedArms \cup LostTurnArms

ClassifyAttempt(arm) ==
  IF arm.passed /\ arm.adequate /\ arm.outcome = "success" THEN "verified"
  ELSE IF arm.outcome = "cancelled" \/ arm.turn = "interrupted" THEN "user_stop"
  ELSE IF arm.turn # "completed" \/ arm.outcome = "timeout" THEN "infrastructure_or_protocol"
  ELSE IF arm.integrity # "intact" THEN "policy_or_external_state"
  ELSE IF ~arm.adequate THEN "task_or_verifier_configuration"
  ELSE "candidate_defect"

\* What the controller keeps of a result: its cause and whether the verifier's
\* own report had passed.
Verdict == [cause : Causes \cup {"none"}, passed : BOOLEAN]
NoVerdict == [cause |-> "none", passed |-> FALSE]
VerdictOf(arm) == [cause |-> ClassifyAttempt(arm), passed |-> arm.passed]

\* After a turn/start that was written, and after one that never was.
SentVerdicts   == {VerdictOf(arm) : arm \in ArmResults}
UnsentVerdicts == {VerdictOf(arm) : arm \in LostTurnArms}

-----------------------------------------------------------------------------
TypeOK ==
  /\ pc \in [Runs -> {"idle", "scanning", "creating", "recording", "reserving",
                      "executing", "claimed", "sent", "identity", "turnTerminal",
                      "verification", "deciding", "preSend", "finishPreSend",
                      "unknown", "finishUnknown", "returning", "throwing",
                      "returned", "refused", "threw", "crashed"}]
  /\ listed \in [Runs -> SUBSET Runs]
  /\ unread \in [Runs -> SUBSET Runs]
  /\ mem \in [Runs -> Record]
  /\ disk \in [Runs -> Record]
  /\ locks \in SUBSET Runs
  /\ verdict \in [Runs -> [Ordinals -> Verdict]]
  /\ sent \in [Runs -> [Ordinals -> Nat]]
  /\ reconciled \in SUBSET Runs

Init ==
  /\ pc = [r \in Runs |-> "idle"]
  /\ listed = [r \in Runs |-> {}]
  /\ unread = [r \in Runs |-> {}]
  /\ mem = [r \in Runs |-> NoRecord]
  /\ disk = [r \in Runs |-> NoRecord]
  /\ locks = {}
  /\ verdict = [r \in Runs |-> [o \in Ordinals |-> NoVerdict]]
  /\ sent = [r \in Runs |-> [o \in Ordinals |-> 0]]
  /\ reconciled = {}

Done == {"returned", "refused", "threw", "crashed"}

\* The attempt the controller is working on.
Current(r) == mem[r].reserved

Goto(r, where) == pc' = [pc EXCEPT ![r] = where]

\* Mutate #record to rec and persist it: on success continue at ok, on an error
\* at err, with the old or the new record left in the directory.
Persist(r, rec, ok, err) ==
  /\ mem' = [mem EXCEPT ![r] = rec]
  /\ \/ /\ disk' = [disk EXCEPT ![r] = rec]
        /\ Goto(r, ok)
     \/ /\ disk' = [disk EXCEPT ![r] = rec]
        /\ Goto(r, err)
     \/ /\ disk' = disk
        /\ Goto(r, err)

WithAttempt(r, state, sends) ==
  [mem[r] EXCEPT !.attempts[Current(r)] = [state |-> state, sends |-> sends]]

Sends(r) == mem[r].attempts[Current(r)].sends

CauseOf(r) == verdict[r][Current(r)].cause

\* AttemptJournal.reserve throws for a third attempt and on a settled record.
Reservable(r) ==
  /\ Current(r) < 2
  /\ mem[r].state \notin {"reconciliation_required", "run_terminal"}

-----------------------------------------------------------------------------
(* Faulty variants of the operators below, none of them part of Spec: each is  *)
(* a slip the code could have, and breaks one of the properties.               *)

\* AttemptJournal.finish
Finished(r, t) ==
  [mem[r] EXCEPT !.state = IF t = "reconciliation_required" THEN t ELSE "run_terminal",
                 !.terminal = t]

\* The executor's caller ignores a failed persist of the send boundary.
BeforeTurnStartUnchecked(r) ==
  /\ pc[r] = "executing"
  /\ Persist(r, [WithAttempt(r, "request_sent", Sends(r) + 1) EXCEPT !.state = "request_sent"],
             "claimed", "claimed")
  /\ UNCHANGED <<listed, unread, locks, verdict, sent, reconciled>>

\* The catch block does not ask whether the send boundary was crossed.
ExecutorThrowsAsPreSend(r) ==
  /\ pc[r] \in {"claimed", "sent"}
  /\ Goto(r, "preSend")
  /\ UNCHANGED <<listed, unread, mem, disk, locks, verdict, sent, reconciled>>

\* findPending takes a record that has not sent anything for harmless.
ReadRecordSkippingUnsent(r, q) ==
  /\ pc[r] = "scanning"
  /\ q \in unread[r]
  /\ \/ /\ disk[q].state \in {"planned", "attempt_reserved", "run_terminal"}
        /\ unread' = [unread EXCEPT ![r] = @ \ {q}]
        /\ UNCHANGED pc
     \/ /\ disk[q].state \notin {"planned", "attempt_reserved", "run_terminal"}
        /\ Goto(r, "refused")
        /\ UNCHANGED unread
  /\ UNCHANGED <<listed, mem, disk, locks, verdict, sent, reconciled>>

\* The request is counted when the attempt is reserved, and again when it is sent.
ReserveCounting(r) ==
  /\ pc[r] = "reserving"
  /\ Reservable(r)
  /\ LET o   == Current(r) + 1
         rec == [mem[r] EXCEPT !.state = "attempt_reserved",
                               !.reserved = o,
                               !.attempts[o] = [state |-> "attempt_reserved", sends |-> 1]]
     IN Persist(r, rec, "executing", "throwing")
  /\ UNCHANGED <<listed, unread, locks, verdict, sent, reconciled>>

\* Every settled attempt is reported as verified.
FinishVerifiedAlways(r) ==
  /\ pc[r] = "deciding"
  /\ Persist(r, Finished(r, "verified"), "returning", "throwing")
  /\ UNCHANGED <<listed, unread, locks, verdict, sent, reconciled>>

\* journal.close swallows its errors, as the clean-up of create does.
CloseJournalQuietly(r) ==
  /\ pc[r] \in {"returning", "throwing"}
  /\ locks' \in {locks, locks \ {r}}
  /\ Goto(r, IF pc[r] = "returning" THEN "returned" ELSE "threw")
  /\ mem' = [mem EXCEPT ![r] = NoRecord]
  /\ UNCHANGED <<listed, unread, disk, verdict, sent, reconciled>>

-----------------------------------------------------------------------------
(* Admission: findPending and create *)

\* readdir: the records present now.
ListJournal(r) ==
  /\ pc[r] = "idle"
  /\ listed' = [listed EXCEPT ![r] = {q \in Runs : disk[q].state # "absent"}]
  /\ unread' = [unread EXCEPT ![r] = {q \in Runs : disk[q].state # "absent"}]
  /\ Goto(r, "scanning")
  /\ UNCHANGED <<mem, disk, locks, verdict, sent, reconciled>>

\* readdir fails for another reason than a missing directory.
ListingFails(r) ==
  /\ pc[r] = "idle"
  /\ Goto(r, "threw")
  /\ UNCHANGED <<listed, unread, mem, disk, locks, verdict, sent, reconciled>>

\* readJournalRecord on the next file.  A file that has gone since readdir
\* cannot be read, which counts as unresolved.
ReadRecord(r, q) ==
  /\ pc[r] = "scanning"
  /\ q \in unread[r]
  /\ \/ /\ disk[q].state = "run_terminal"
        /\ unread' = [unread EXCEPT ![r] = @ \ {q}]
        /\ UNCHANGED pc
     \/ /\ disk[q].state # "run_terminal"
        /\ Goto(r, "refused")
        /\ UNCHANGED unread
  /\ UNCHANGED <<listed, mem, disk, locks, verdict, sent, reconciled>>

AdmitRun(r) ==
  /\ pc[r] = "scanning"
  /\ unread[r] = {}
  /\ Goto(r, "creating")
  /\ UNCHANGED <<listed, unread, mem, disk, locks, verdict, sent, reconciled>>

\* AttemptJournal.create opens the lock file first, with wx; run ids are fresh, so the
\* file is not there, but the open may still fail.
TakeLock(r) ==
  /\ pc[r] = "creating"
  /\ \/ locks' = locks \cup {r} /\ Goto(r, "recording")
     \/ locks' = locks /\ Goto(r, "threw")
  /\ UNCHANGED <<listed, unread, mem, disk, verdict, sent, reconciled>>

\* The rest of create.  When the lock cannot be written or the first persist fails, the
\* catch removes the lock file and ignores that its removal may fail too.
CreateJournal(r) ==
  /\ pc[r] = "recording"
  /\ Persist(r, EmptyRecord("planned"), "reserving", "threw")
  /\ locks' \in IF pc'[r] = "threw" THEN {locks, locks \ {r}} ELSE {locks}
  /\ UNCHANGED <<listed, unread, verdict, sent, reconciled>>

-----------------------------------------------------------------------------
(* One reserved attempt: runReservedAttempt *)

Reserve(r) ==
  /\ pc[r] = "reserving"
  /\ Reservable(r)
  /\ LET o   == Current(r) + 1
         rec == [mem[r] EXCEPT !.state = "attempt_reserved",
                               !.reserved = o,
                               !.attempts[o] = [state |-> "attempt_reserved", sends |-> 0]]
     IN Persist(r, rec, "executing", "throwing")
  /\ UNCHANGED <<listed, unread, locks, verdict, sent, reconciled>>

\* The executor throws, or returns, before it calls beforeTurnStart: the
\* repository moved, the worktree, the App Server or the frozen plan failed.
ExecutorStopsBeforeSend(r) ==
  /\ pc[r] = "executing"
  /\ Goto(r, "preSend")
  /\ UNCHANGED <<listed, unread, mem, disk, locks, verdict, sent, reconciled>>

\* lifecycle.beforeTurnStart: markRequestSent, then sendBoundaryCrossed.  When
\* the persist fails the executor sees the error and sends nothing.
BeforeTurnStart(r) ==
  /\ pc[r] = "executing"
  /\ Persist(r, [WithAttempt(r, "request_sent", Sends(r) + 1) EXCEPT !.state = "request_sent"],
             "claimed", "preSend")
  /\ UNCHANGED <<listed, unread, locks, verdict, sent, reconciled>>

\* runTurn writes turn/start to the App Server.
SendTurnStart(r) ==
  /\ pc[r] = "claimed"
  /\ sent' = [sent EXCEPT ![r][Current(r)] = @ + 1]
  /\ Goto(r, "sent")
  /\ UNCHANGED <<listed, unread, mem, disk, locks, verdict, reconciled>>

\* The executor returns a result; the identity is recorded only when the
\* App Server gave a thread id that is not empty.
ExecutorReturns(r) ==
  /\ pc[r] \in {"claimed", "sent"}
  /\ \E v \in (IF pc[r] = "sent" THEN SentVerdicts ELSE UnsentVerdicts) :
       verdict' = [verdict EXCEPT ![r][Current(r)] = v]
  /\ \E next \in {"identity", "turnTerminal"} : Goto(r, next)
  /\ UNCHANGED <<listed, unread, mem, disk, locks, sent, reconciled>>

\* SingleRunner throws after the boundary: the original checkout moved, the
\* control state was disturbed, an artifact could not be written.
ExecutorThrows(r) ==
  /\ pc[r] \in {"claimed", "sent"}
  /\ Goto(r, "unknown")
  /\ UNCHANGED <<listed, unread, mem, disk, locks, verdict, sent, reconciled>>

\* markTerminal persists three times.
MarkIdentity(r) ==
  /\ pc[r] = "identity"
  /\ Persist(r, WithAttempt(r, "remote_identity_known", Sends(r)), "turnTerminal", "unknown")
  /\ UNCHANGED <<listed, unread, locks, verdict, sent, reconciled>>

MarkTurnTerminal(r) ==
  /\ pc[r] = "turnTerminal"
  /\ Persist(r, WithAttempt(r, "turn_terminal", Sends(r)), "verification", "unknown")
  /\ UNCHANGED <<listed, unread, locks, verdict, sent, reconciled>>

MarkVerification(r) ==
  /\ pc[r] = "verification"
  /\ Persist(r, WithAttempt(r, "verification_terminal", Sends(r)), "deciding", "unknown")
  /\ UNCHANGED <<listed, unread, locks, verdict, sent, reconciled>>

MarkPreSendFailure(r) ==
  /\ pc[r] = "preSend"
  /\ Persist(r, WithAttempt(r, "pre_send_failed", 0), "finishPreSend", "throwing")
  /\ UNCHANGED <<listed, unread, locks, verdict, sent, reconciled>>

MarkAcknowledgementUnknown(r) ==
  /\ pc[r] = "unknown"
  /\ Persist(r, [WithAttempt(r, "acknowledgement_unknown", Sends(r))
                   EXCEPT !.state = "reconciliation_required"],
             "finishUnknown", "throwing")
  /\ UNCHANGED <<listed, unread, locks, verdict, sent, reconciled>>

-----------------------------------------------------------------------------
(* Ending a run *)

Finish(r, t) ==
  /\ Persist(r, Finished(r, t), "returning", "throwing")
  /\ UNCHANGED <<listed, unread, locks, verdict, sent, reconciled>>

FinishPreSend(r) == pc[r] = "finishPreSend" /\ Finish(r, "failed")

FinishUnknown(r) == pc[r] = "finishUnknown" /\ Finish(r, "reconciliation_required")

\* A first attempt may escalate only after a candidate defect, and only when
\* selectStrictSuccessor finds a successor.
Escalate(r) ==
  /\ pc[r] = "deciding"
  /\ Current(r) = 1
  /\ CauseOf(r) = "candidate_defect"
  /\ Goto(r, "reserving")
  /\ UNCHANGED <<listed, unread, mem, disk, locks, verdict, sent, reconciled>>

FinishVerified(r) ==
  /\ pc[r] = "deciding"
  /\ CauseOf(r) = "verified"
  /\ Finish(r, "verified")

\* Any other cause ends the run; so does a candidate defect with no successor
\* or in the second attempt.
FinishUnverified(r) ==
  /\ pc[r] = "deciding"
  /\ CauseOf(r) # "verified"
  /\ Finish(r, IF CauseOf(r) = "user_stop" THEN "cancelled" ELSE "failed")

\* The finally block: journal.close closes the lock file and removes it, and the
\* controller ends with its record in memory.  Either call may reject: then the file
\* stays, and the caller gets this error instead of the result, or of the error, that
\* was on its way.
CloseJournal(r) ==
  /\ pc[r] \in {"returning", "throwing"}
  /\ \/ /\ locks' = locks \ {r}
        /\ Goto(r, IF pc[r] = "returning" THEN "returned" ELSE "threw")
     \/ /\ locks' = locks
        /\ Goto(r, "threw")
  /\ mem' = [mem EXCEPT ![r] = NoRecord]
  /\ UNCHANGED <<listed, unread, disk, verdict, sent, reconciled>>

-----------------------------------------------------------------------------
(* The environment *)

\* The process that runs r dies; memory is lost, the directory stays.
Crash(r) ==
  /\ pc[r] \notin Done \cup {"idle"}
  /\ Goto(r, "crashed")
  /\ mem' = [mem EXCEPT ![r] = NoRecord]
  /\ UNCHANGED <<listed, unread, disk, locks, verdict, sent, reconciled>>

\* An operator settles the pending record of a run that has ended.
OperatorReconciles(r) ==
  /\ pc[r] \in Done
  /\ Pending(disk[r])
  /\ disk' = [disk EXCEPT ![r] = NoRecord]
  /\ reconciled' = reconciled \cup {r}
  /\ UNCHANGED <<pc, listed, unread, mem, locks, verdict, sent>>

-----------------------------------------------------------------------------
RunStep(r) ==
  \/ ListJournal(r)
  \/ ListingFails(r)
  \/ \E q \in Runs : ReadRecord(r, q)
  \/ AdmitRun(r)
  \/ TakeLock(r)
  \/ CreateJournal(r)
  \/ Reserve(r)
  \/ ExecutorStopsBeforeSend(r)
  \/ BeforeTurnStart(r)
  \/ SendTurnStart(r)
  \/ ExecutorReturns(r)
  \/ ExecutorThrows(r)
  \/ MarkIdentity(r)
  \/ MarkTurnTerminal(r)
  \/ MarkVerification(r)
  \/ MarkPreSendFailure(r)
  \/ MarkAcknowledgementUnknown(r)
  \/ FinishPreSend(r)
  \/ FinishUnknown(r)
  \/ Escalate(r)
  \/ FinishVerified(r)
  \/ FinishUnverified(r)
  \/ CloseJournal(r)

Next == \E r \in Runs : RunStep(r) \/ Crash(r) \/ OperatorReconciles(r)

Spec == Init /\ [][Next]_vars

-----------------------------------------------------------------------------
(* Safety *)

\* The journal is a write-ahead log: no turn/start is ever written, and none
\* survives a failed write or a crash, that the record in the directory does
\* not already count (beforeTurnStart persists before runTurn sends).
WriteAhead ==
  \A r \in Runs \ reconciled : \A o \in Ordinals :
    sent[r][o] <= disk[r].attempts[o].sends

\* A record that reads run_terminal, the only state findPending ignores, has
\* settled every attempt it reserved and hides no send of an unknown outcome.
TerminalRecordIsSettled ==
  \A r \in Runs : disk[r].state = "run_terminal" =>
    \A o \in Ordinals :
      /\ disk[r].attempts[o].state \in
           {"unreserved", "pre_send_failed", "verification_terminal"}
      /\ sent[r][o] > 0 => disk[r].attempts[o].state = "verification_terminal"

\* A run sends a second turn/start only after its first attempt was sent once,
\* came back, and was classified as a candidate defect; no attempt is sent twice.
EscalationIsBounded ==
  \A r \in Runs :
    /\ \A o \in Ordinals : sent[r][o] <= 1
    /\ sent[r][2] > 0 => sent[r][1] = 1 /\ verdict[r][1].cause = "candidate_defect"

\* A run that got past findPending saw nothing pending: every record it listed
\* is still terminal on disk (readers never see a terminal record reopen).
AdmittedOverSettledRecords ==
  \A r \in Runs : pc[r] \notin {"idle", "scanning", "refused", "crashed"} =>
    \A q \in listed[r] : disk[q].state = "run_terminal"

\* The public claim "verified" is made only for a passed, adequate attempt that
\* was really sent and is durably recorded.
VerifiedIsEarned ==
  \A r \in Runs : disk[r].terminal = "verified" =>
    LET o == disk[r].reserved
    IN /\ o \in Ordinals
       /\ sent[r][o] = 1
       /\ verdict[r][o].cause = "verified" /\ verdict[r][o].passed

\* Once a record is durably terminal its run never sends again, and the record
\* never changes.
TerminalIsFinal ==
  [][\A r \in Runs : disk[r].state = "run_terminal" =>
       disk'[r] = disk[r] /\ sent'[r] = sent[r]]_vars

\* A run that hands its caller a result has given its lock file back and is durably
\* finished (its record is there, or an operator has settled it since).  Nothing else
\* is promised: the file stays behind a run that died and behind one whose close or
\* whose create failed, and that is always an error to the caller, in place of the
\* result even of a run that is durably finished.  While a run works on its record it
\* holds the file, and no reservation it comes to make is refused, so it always has a
\* step towards the finally block.
Holding == {"reserving", "executing", "claimed", "sent", "identity", "turnTerminal",
            "verification", "deciding", "preSend", "finishPreSend", "unknown",
            "finishUnknown", "returning", "throwing"}

LocksAreReleased ==
  /\ \A r \in Runs : pc[r] = "returned" =>
       r \notin locks /\ (r \in reconciled \/ disk[r].terminal # "none")
  /\ \A r \in locks : pc[r] \in Holding \cup {"recording", "threw", "crashed"}
  /\ \A r \in Runs \ locks : pc[r] \notin Holding \cup {"recording"}
  /\ \A r \in Runs : pc[r] = "reserving" => Reservable(r)

-----------------------------------------------------------------------------
(* The promise the journal makes, module SendLedger *)

\* What the directory says was sent, and what was.  When an operator has
\* removed the record he knows what was.
TotalSent(r) == sent[r][1] + sent[r][2]

Claims(r) ==
  IF r \in reconciled THEN TotalSent(r)
  ELSE disk[r].attempts[1].sends + disk[r].attempts[2].sends

Status(r) ==
  IF r \in reconciled THEN "forgotten"
  ELSE IF disk[r].state = "run_terminal" THEN "closed" ELSE "open"

Ledger == INSTANCE SendLedger WITH
  claims <- [r \in Runs |-> Claims(r)],
  sends  <- [r \in Runs |-> TotalSent(r)],
  status <- [r \in Runs |-> Status(r)]

\* The journal implements the ledger: what is on disk always claims at least
\* what was sent, across failed writes, crashes and reconciliation.
ImplementsLedger == Ledger!Spec

-----------------------------------------------------------------------------
(* What the sources say of the program, and the code does not keep *)

\* "Refuse a new product execution until an operator has reconciled that
\* durable record" (findPending): no run opens its journal while the record of a
\* run that has ended is pending.  Two runs that scan before either creates its
\* record both pass, and the second may start after the first has crashed.
RefusesWhilePending ==
  [][\A r, q \in Runs :
       /\ pc[r] = "recording" /\ pc'[r] = "reserving"
       /\ q # r /\ pc[q] \in Done
       => ~Pending(disk[q])]_vars
=============================================================================
