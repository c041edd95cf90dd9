------------------------ MODULE AttemptJournalProofs ------------------------
(***************************************************************************)
(* Theorems about the attempt journal, for any set of runs.  The inductive *)
(* invariant IInv says of every run, at each place of executeVgcl, what is *)
(* known of its record in memory, of its record in the directory and of    *)
(* the requests that were written.  The refinement follows from it.        *)
(***************************************************************************)
EXTENDS AttemptJournal, TLAPS

NotStarted == {"idle", "scanning", "creating", "recording", "refused"}

\* Where memory and directory hold the same record ...
Synced == {"reserving", "executing", "claimed", "sent", "identity",
           "turnTerminal", "verification", "deciding", "finishPreSend",
           "finishUnknown"}

\* ... and where a failed write may have left them apart.
Working == Synced \cup {"preSend", "unknown"}

\* Where a run has finished its record, or may have.
Ended == {"returning", "throwing", "returned", "threw", "crashed"}

\* No run holds anything before it creates its record.
Fresh(r) == pc[r] \in NotStarted =>
  /\ disk[r] = NoRecord
  /\ mem[r] = NoRecord
  /\ \A o \in Ordinals : sent[r][o] = 0
  /\ r \notin reconciled

\* A reconciled record is gone, and its run was over.
Gone(r) == r \in reconciled => disk[r] = NoRecord /\ pc[r] \in Done

\* The send budget, and the write-ahead rule.
Budget(r) == \A o \in Ordinals :
  /\ sent[r][o] <= 1
  /\ r \notin reconciled => sent[r][o] <= disk[r].attempts[o].sends
  /\ disk[r].attempts[o].sends <= 1

\* An attempt that allows a second one.
Defective(r, o) ==
  /\ mem[r].attempts[o] = [state |-> "verification_terminal", sends |-> 1]
  /\ sent[r][o] = 1
  /\ verdict[r][o].cause = "candidate_defect"

Escalated(r) ==
  sent[r][2] > 0 => sent[r][1] = 1 /\ verdict[r][1].cause = "candidate_defect"

Settled(r) == \A o \in Ordinals :
  /\ disk[r].attempts[o].state \in
       {"unreserved", "pre_send_failed", "verification_terminal"}
  /\ sent[r][o] > 0 => disk[r].attempts[o].state = "verification_terminal"

Closed(r) == disk[r].state = "run_terminal" =>
               pc[r] \in Ended /\ Settled(r)

Earned(r) == disk[r].terminal = "verified" =>
  /\ disk[r].reserved \in Ordinals
  /\ sent[r][disk[r].reserved] = 1
  /\ verdict[r][disk[r].reserved].cause = "verified"
  /\ verdict[r][disk[r].reserved].passed

\* While a run works: its record is open, its earlier attempts failed
\* verification, its later ones are untouched.
Open(r) == pc[r] \in Working =>
  /\ r \notin reconciled
  /\ Pending(mem[r]) /\ mem[r].terminal = "none"
  /\ Pending(disk[r]) /\ disk[r].terminal = "none"
  /\ pc[r] \in Synced => disk[r] = mem[r]
  /\ \A o \in Ordinals :
       /\ o # Current(r) => disk[r].attempts[o] = mem[r].attempts[o]
       /\ o < Current(r) => Defective(r, o)
       /\ o > Current(r) => mem[r].attempts[o] = Unreserved /\ sent[r][o] = 0
  /\ pc[r] # "reserving" => Current(r) \in Ordinals

\* A verdict that counts was given to a request that was sent.
Judged(r) ==
  /\ Sends(r) = 1
  /\ CauseOf(r) = "candidate_defect" => sent[r][Current(r)] = 1
  /\ CauseOf(r) = "verified" => sent[r][Current(r)] = 1 /\ verdict[r][Current(r)].passed

\* The current attempt, place by place.
Attempting(r) ==
  /\ pc[r] = "reserving" =>
       Current(r) < 2 /\ (Current(r) \in Ordinals => Defective(r, Current(r)))
  /\ pc[r] = "executing" => Sends(r) = 0 /\ sent[r][Current(r)] = 0
  /\ pc[r] = "claimed" => Sends(r) = 1 /\ sent[r][Current(r)] = 0
  /\ pc[r] = "sent" => Sends(r) = 1 /\ sent[r][Current(r)] = 1
  /\ pc[r] \in {"identity", "turnTerminal", "verification", "deciding"} => Judged(r)
  /\ pc[r] = "deciding" =>
       mem[r].attempts[Current(r)].state = "verification_terminal"
  /\ pc[r] = "preSend" => Sends(r) <= 1 /\ sent[r][Current(r)] = 0
  /\ pc[r] = "finishPreSend" =>
       /\ mem[r].attempts[Current(r)] = [state |-> "pre_send_failed", sends |-> 0]
       /\ sent[r][Current(r)] = 0
  /\ pc[r] = "unknown" =>
       Sends(r) = 1 /\ disk[r].attempts[Current(r)].sends = 1
  /\ pc[r] = "finishUnknown" => Sends(r) = 1

RunInv(r) ==
  /\ Fresh(r)
  /\ Gone(r)
  /\ Budget(r)
  /\ Escalated(r)
  /\ Closed(r)
  /\ Earned(r)
  /\ Open(r)
  /\ Attempting(r)

\* What a scan has read stays terminal; an admitted run has read everything.
Scanned(r) ==
  /\ \A q \in listed[r] \ unread[r] : disk[q].state = "run_terminal"
  /\ pc[r] \notin {"scanning", "refused", "crashed"} => unread[r] = {}

IInv == TypeOK /\ \A r \in Runs : RunInv(r) /\ Scanned(r)

-----------------------------------------------------------------------------
(* Lemmas about the operators of the model *)

\* classifyAttempt never calls a result verified unless the verifier's report
\* passed, whatever executeArm returned.
LEMMA VerifiedReportPassed ==
  \A v \in SentVerdicts : v \in Verdict /\ (v.cause = "verified" => v.passed)
<1> SUFFICES ASSUME NEW arm \in ArmResults
             PROVE  /\ VerdictOf(arm) \in Verdict
                    /\ VerdictOf(arm).cause = "verified" => VerdictOf(arm).passed
  BY DEF SentVerdicts
<1>1. arm.passed \in BOOLEAN
  <2>1. NoReport.passed \in BOOLEAN
    BY DEF NoReport
  <2>2. \A v \in Reports : v.passed \in BOOLEAN
    <3> SUFFICES ASSUME NEW v \in Reports PROVE v.passed \in BOOLEAN
      OBVIOUS
    <3>1. v \in [integrity : Integrity, adequate : BOOLEAN, passed : BOOLEAN, timedOut : BOOLEAN]
      BY Zenon DEF Reports
    <3> QED
      BY <3>1
  <2>3. \E t, out : \E v \in Reports \cup {NoReport} : arm = ArmResult(t, v, out)
    BY DEF ArmResults, CleanArms, DowngradedArms, LostTurnArms
  <2> QED
    BY <2>1, <2>2, <2>3 DEF ArmResult
<1>2. ClassifyAttempt(arm) \in Causes
  BY DEF ClassifyAttempt, Causes
<1>3. ClassifyAttempt(arm) = "verified" => arm.passed
  BY DEF ClassifyAttempt
<1> QED
  BY <1>1, <1>2, <1>3 DEF VerdictOf, Verdict

\* A turn that runTurn lost (syntheticFailedTurn) neither verifies nor escalates.
LEMMA LostTurnIsNoDefect ==
  \A v \in UnsentVerdicts : v \in Verdict /\ v.cause \notin {"verified", "candidate_defect"}
<1> SUFFICES ASSUME NEW arm \in LostTurnArms
             PROVE  /\ VerdictOf(arm) \in Verdict
                    /\ VerdictOf(arm).cause \notin {"verified", "candidate_defect"}
  BY DEF UnsentVerdicts
<1>1. arm.turn \in {"failed", "interrupted"} /\ arm.passed = FALSE
  <2>1. \E out, stop : arm = ArmResult(LostTurn(stop), NoReport, out)
    BY DEF LostTurnArms
  <2> QED
    BY <2>1 DEF LostTurn, ArmResult, NoReport
<1>2. ClassifyAttempt(arm) \in Causes \ {"verified", "candidate_defect"}
  BY <1>1 DEF ClassifyAttempt, Causes
<1> QED
  BY <1>1, <1>2 DEF VerdictOf, Verdict

-----------------------------------------------------------------------------
(* Type correctness *)

\* A persist keeps the types when the record it writes has its type.
LEMMA PersistType ==
  ASSUME TypeOK, NEW r \in Runs, NEW rec \in Record,
         NEW ok \in {"reserving", "executing", "claimed", "turnTerminal", "verification",
                     "deciding", "finishPreSend", "finishUnknown", "returning"},
         NEW err \in {"threw", "throwing", "preSend", "unknown"},
         Persist(r, rec, ok, err)
  PROVE  /\ mem' \in [Runs -> Record]
         /\ disk' \in [Runs -> Record]
         /\ pc' = [pc EXCEPT ![r] = ok] \/ pc' = [pc EXCEPT ![r] = err]
  BY DEF TypeOK, Persist, Goto

LEMMA EmptyRecordType ==
  ASSUME NEW s \in RecordStates PROVE EmptyRecord(s) \in Record
  BY DEF EmptyRecord, Record, Unreserved, Attempt, AttemptStates, TerminalStates, Ordinals

LEMMA WithAttemptType ==
  ASSUME TypeOK, NEW r \in Runs, NEW s \in AttemptStates, NEW n,
         Current(r) \in Ordinals => n \in Nat
  PROVE  WithAttempt(r, s, n) \in Record
<1>1. mem[r] \in Record
  BY DEF TypeOK
<1>2. [mem[r].attempts EXCEPT ![Current(r)] = [state |-> s, sends |-> n]] \in [Ordinals -> Attempt]
  BY <1>1 DEF Record, Attempt
<1> QED
  BY <1>1, <1>2 DEF WithAttempt, Record

LEMMA SendsType ==
  ASSUME TypeOK, NEW r \in Runs, Current(r) \in Ordinals PROVE Sends(r) \in Nat
<1>1. mem[r] \in Record
  BY DEF TypeOK
<1> QED
  BY <1>1 DEF Sends, Record, Attempt

LEMMA FinishedType ==
  ASSUME TypeOK, NEW r \in Runs, NEW t \in TerminalStates \ {"none"}
  PROVE  Finished(r, t) \in Record
<1>1. mem[r] \in Record
  BY DEF TypeOK
<1> QED
  BY <1>1 DEF Finished, Record, RecordStates, TerminalStates

LEMMA CountUpType ==
  ASSUME NEW f \in [Ordinals -> Nat], NEW c
  PROVE  [f EXCEPT ![c] = @ + 1] \in [Ordinals -> Nat]
<1>1. CASE c \in Ordinals
  <2>1. f[c] + 1 \in Nat
    BY <1>1
  <2> QED
    BY <1>1, <2>1
<1>2. CASE c \notin Ordinals
  <2>1. \A o \in Ordinals : [f EXCEPT ![c] = @ + 1][o] = f[o]
    BY <1>2
  <2> QED
    BY <2>1
<1> QED
  BY <1>1, <1>2

LEMMA TypeInit == Init => TypeOK
<1>1. NoRecord \in Record
  BY EmptyRecordType DEF NoRecord, RecordStates
<1> QED
  BY <1>1 DEF Init, TypeOK, Verdict, NoVerdict

\* Every action keeps the types.
LEMMA TypeStep == TypeOK /\ [Next]_vars => TypeOK'
<1> SUFFICES ASSUME TypeOK, [Next]_vars PROVE TypeOK'
  OBVIOUS
<1>1. CASE UNCHANGED vars
  BY <1>1 DEF TypeOK, vars
<1>2. ASSUME NEW r \in Runs, ListJournal(r) PROVE TypeOK'
  BY <1>2 DEF TypeOK, ListJournal, Goto
<1>23. ASSUME NEW r \in Runs, ListingFails(r) PROVE TypeOK'
  BY <1>23 DEF TypeOK, ListingFails, Goto
<1>3. ASSUME NEW r \in Runs, NEW q \in Runs, ReadRecord(r, q) PROVE TypeOK'
  BY <1>3 DEF TypeOK, ReadRecord, Goto
<1>4. ASSUME NEW r \in Runs, AdmitRun(r) PROVE TypeOK'
  BY <1>4 DEF TypeOK, AdmitRun, Goto
<1>24. ASSUME NEW r \in Runs, TakeLock(r) PROVE TypeOK'
  BY <1>24 DEF TypeOK, TakeLock, Goto
<1>5. ASSUME NEW r \in Runs, CreateJournal(r) PROVE TypeOK'
  <2>1. EmptyRecord("planned") \in Record
    BY EmptyRecordType DEF RecordStates
  <2>2. /\ mem' \in [Runs -> Record] /\ disk' \in [Runs -> Record]
        /\ pc' = [pc EXCEPT ![r] = "reserving"] \/ pc' = [pc EXCEPT ![r] = "threw"]
    BY <1>5, <2>1, PersistType DEF CreateJournal
  <2>3. locks' \in SUBSET Runs /\ UNCHANGED <<listed, unread, verdict, sent, reconciled>>
    BY <1>5 DEF TypeOK, CreateJournal
  <2> QED
    BY <2>2, <2>3 DEF TypeOK
<1>6. ASSUME NEW r \in Runs, Reserve(r) PROVE TypeOK'
  <2> DEFINE o   == Current(r) + 1
             rec == [mem[r] EXCEPT !.state = "attempt_reserved", !.reserved = o,
                       !.attempts[o] = [state |-> "attempt_reserved", sends |-> 0]]
  <2>1. o \in Ordinals /\ mem[r] \in Record
    BY <1>6 DEF TypeOK, Reserve, Reservable, Current, Record, Ordinals
  <2>2. [mem[r].attempts EXCEPT ![o] = [state |-> "attempt_reserved", sends |-> 0]]
          \in [Ordinals -> Attempt]
    BY <2>1 DEF Record, Attempt, AttemptStates
  <2>3. rec \in Record
    BY <2>1, <2>2 DEF Record, RecordStates
  <2>4. Persist(r, rec, "executing", "throwing")
    BY <1>6 DEF Reserve
  <2> HIDE DEF rec
  <2>5. /\ mem' \in [Runs -> Record] /\ disk' \in [Runs -> Record]
        /\ pc' = [pc EXCEPT ![r] = "executing"] \/ pc' = [pc EXCEPT ![r] = "throwing"]
    BY <2>3, <2>4, PersistType
  <2>6. UNCHANGED <<listed, unread, locks, verdict, sent, reconciled>>
    BY <1>6 DEF Reserve
  <2> QED
    BY <2>5, <2>6 DEF TypeOK
<1>7. ASSUME NEW r \in Runs, ExecutorStopsBeforeSend(r) PROVE TypeOK'
  BY <1>7 DEF TypeOK, ExecutorStopsBeforeSend, Goto
<1>8. ASSUME NEW r \in Runs, BeforeTurnStart(r) PROVE TypeOK'
  <2> DEFINE rec == [WithAttempt(r, "request_sent", Sends(r) + 1) EXCEPT !.state = "request_sent"]
  <2>1. WithAttempt(r, "request_sent", Sends(r) + 1) \in Record
    BY SendsType, WithAttemptType DEF AttemptStates
  <2>2. rec \in Record
    BY <2>1 DEF Record, RecordStates
  <2>3. Persist(r, rec, "claimed", "preSend")
    BY <1>8 DEF BeforeTurnStart
  <2> HIDE DEF rec
  <2> QED
    BY <1>8, <2>2, <2>3, PersistType DEF TypeOK, BeforeTurnStart
<1>9. ASSUME NEW r \in Runs, SendTurnStart(r) PROVE TypeOK'
  <2>1. [sent[r] EXCEPT ![Current(r)] = @ + 1] \in [Ordinals -> Nat]
    BY CountUpType DEF TypeOK
  <2>2. sent' \in [Runs -> [Ordinals -> Nat]]
    BY <1>9, <2>1 DEF TypeOK, SendTurnStart
  <2> QED
    BY <1>9, <2>2 DEF TypeOK, SendTurnStart, Goto
<1>10. ASSUME NEW r \in Runs, ExecutorReturns(r) PROVE TypeOK'
  <2>1. PICK v \in Verdict : verdict' = [verdict EXCEPT ![r][Current(r)] = v]
    BY <1>10, VerifiedReportPassed, LostTurnIsNoDefect DEF ExecutorReturns
  <2>2. verdict' \in [Runs -> [Ordinals -> Verdict]]
    BY <2>1 DEF TypeOK
  <2>3. pc' = [pc EXCEPT ![r] = "identity"] \/ pc' = [pc EXCEPT ![r] = "turnTerminal"]
    BY <1>10 DEF ExecutorReturns, Goto
  <2>4. UNCHANGED <<listed, unread, mem, disk, locks, sent, reconciled>>
    BY <1>10 DEF ExecutorReturns
  <2> QED
    BY <2>2, <2>3, <2>4 DEF TypeOK
<1>11. ASSUME NEW r \in Runs, ExecutorThrows(r) PROVE TypeOK'
  BY <1>11 DEF TypeOK, ExecutorThrows, Goto
<1>12. ASSUME NEW r \in Runs, MarkIdentity(r) PROVE TypeOK'
  <2>1. WithAttempt(r, "remote_identity_known", Sends(r)) \in Record
    BY SendsType, WithAttemptType DEF AttemptStates
  <2> QED
    BY <1>12, <2>1, PersistType DEF TypeOK, MarkIdentity
<1>13. ASSUME NEW r \in Runs, MarkTurnTerminal(r) PROVE TypeOK'
  <2>1. WithAttempt(r, "turn_terminal", Sends(r)) \in Record
    BY SendsType, WithAttemptType DEF AttemptStates
  <2> QED
    BY <1>13, <2>1, PersistType DEF TypeOK, MarkTurnTerminal
<1>14. ASSUME NEW r \in Runs, MarkVerification(r) PROVE TypeOK'
  <2>1. WithAttempt(r, "verification_terminal", Sends(r)) \in Record
    BY SendsType, WithAttemptType DEF AttemptStates
  <2> QED
    BY <1>14, <2>1, PersistType DEF TypeOK, MarkVerification
<1>15. ASSUME NEW r \in Runs, MarkPreSendFailure(r) PROVE TypeOK'
  <2>1. WithAttempt(r, "pre_send_failed", 0) \in Record
    BY SendsType, WithAttemptType DEF AttemptStates
  <2> QED
    BY <1>15, <2>1, PersistType DEF TypeOK, MarkPreSendFailure
<1>16. ASSUME NEW r \in Runs, MarkAcknowledgementUnknown(r) PROVE TypeOK'
  <2> DEFINE rec == [WithAttempt(r, "acknowledgement_unknown", Sends(r))
                       EXCEPT !.state = "reconciliation_required"]
  <2>1. WithAttempt(r, "acknowledgement_unknown", Sends(r)) \in Record
    BY SendsType, WithAttemptType DEF AttemptStates
  <2>2. rec \in Record
    BY <2>1 DEF Record, RecordStates
  <2>3. Persist(r, rec, "finishUnknown", "throwing")
    BY <1>16 DEF MarkAcknowledgementUnknown
  <2> HIDE DEF rec
  <2> QED
    BY <1>16, <2>2, <2>3, PersistType DEF TypeOK, MarkAcknowledgementUnknown
<1>17. ASSUME NEW r \in Runs, NEW t \in TerminalStates \ {"none"}, Finish(r, t) PROVE TypeOK'
  BY <1>17, FinishedType, PersistType DEF TypeOK, Finish
<1>18. ASSUME NEW r \in Runs,
              FinishPreSend(r) \/ FinishUnknown(r) \/ FinishVerified(r) \/ FinishUnverified(r)
       PROVE  TypeOK'
  BY <1>17, <1>18 DEF FinishPreSend, FinishUnknown, FinishVerified, FinishUnverified, TerminalStates
<1>19. ASSUME NEW r \in Runs, Escalate(r) PROVE TypeOK'
  BY <1>19 DEF TypeOK, Escalate, Goto
<1>20. ASSUME NEW r \in Runs, CloseJournal(r) PROVE TypeOK'
  <2>1. NoRecord \in Record
    BY EmptyRecordType DEF NoRecord, RecordStates
  <2> QED
    BY <1>20, <2>1 DEF TypeOK, CloseJournal, Goto
<1>21. ASSUME NEW r \in Runs, Crash(r) PROVE TypeOK'
  <2>1. NoRecord \in Record
    BY EmptyRecordType DEF NoRecord, RecordStates
  <2> QED
    BY <1>21, <2>1 DEF TypeOK, Crash, Goto
<1>22. ASSUME NEW r \in Runs, OperatorReconciles(r) PROVE TypeOK'
  <2>1. NoRecord \in Record
    BY EmptyRecordType DEF NoRecord, RecordStates
  <2> QED
    BY <1>22, <2>1 DEF TypeOK, OperatorReconciles
<1> QED
  BY <1>1, <1>2, <1>3, <1>4, <1>5, <1>6, <1>7, <1>8, <1>9, <1>10, <1>11, <1>12, <1>13, <1>14,
     <1>15, <1>16, <1>18, <1>19, <1>20, <1>21, <1>22, <1>23, <1>24
     DEF Next, RunStep

\* Type correctness.
THEOREM TypeCorrect == Spec => []TypeOK
  BY TypeInit, TypeStep, PTL DEF Spec

-----------------------------------------------------------------------------
(* One run: each of its steps keeps what is known of it *)

\* What a persist leaves behind, whether it succeeded or not.
LEMMA PersistEffect ==
  ASSUME TypeOK, NEW r \in Runs, NEW rec, NEW ok, NEW err, Persist(r, rec, ok, err)
  PROVE  /\ mem'[r] = rec
         /\ \/ disk'[r] = rec /\ pc'[r] = ok
            \/ disk'[r] = rec /\ pc'[r] = err
            \/ disk'[r] = disk[r] /\ pc'[r] = err
  BY DEF TypeOK, Persist, Goto

LEMMA WithAttemptFields ==
  ASSUME TypeOK, NEW r \in Runs, NEW s, NEW n, Current(r) \in Ordinals
  PROVE  /\ WithAttempt(r, s, n).state = mem[r].state
         /\ WithAttempt(r, s, n).terminal = mem[r].terminal
         /\ WithAttempt(r, s, n).reserved = Current(r)
         /\ WithAttempt(r, s, n).attempts[Current(r)] = [state |-> s, sends |-> n]
         /\ \A o \in Ordinals : o # Current(r) =>
              WithAttempt(r, s, n).attempts[o] = mem[r].attempts[o]
<1>1. mem[r] \in Record
  BY DEF TypeOK
<1> QED
  BY <1>1 DEF WithAttempt, Record, Current

\* The values of one run.
LEMMA Shapes ==
  ASSUME TypeOK, NEW r \in Runs
  PROVE  /\ mem[r] \in Record /\ disk[r] \in Record
         /\ \A o \in Ordinals : /\ sent[r][o] \in Nat
                                /\ mem[r].attempts[o] \in Attempt /\ disk[r].attempts[o] \in Attempt
                                /\ mem[r].attempts[o].sends \in Nat
                                /\ disk[r].attempts[o].sends \in Nat
         /\ Current(r) \in {0, 1, 2}
<1>1. mem[r] \in Record /\ disk[r] \in Record /\ sent[r] \in [Ordinals -> Nat]
  BY DEF TypeOK
<1>2. Current(r) \in {0, 1, 2}
  BY <1>1 DEF Current, Record, Ordinals
<1>3. mem[r].attempts \in [Ordinals -> Attempt] /\ disk[r].attempts \in [Ordinals -> Attempt]
  BY <1>1 DEF Record
<1>4. \A a \in Attempt : a.sends \in Nat
  BY DEF Attempt
<1> QED
  BY <1>1, <1>2, <1>3, <1>4

\* A step that leaves the verdict, the sends and the place among the reconciled alone, and
\* one that leaves the records alone too.
Unsent(r) == verdict'[r] = verdict[r] /\ sent'[r] = sent[r] /\ (r \in reconciled' <=> r \in reconciled)
Unwritten(r) == Unsent(r) /\ mem'[r] = mem[r] /\ disk'[r] = disk[r]

\* All of RunInv but what is said place by place.
Kept(r) == Fresh(r) /\ Gone(r) /\ Budget(r) /\ Escalated(r) /\ Closed(r) /\ Earned(r) /\ Open(r)

\* A run that goes on without writing.
LEMMA MovesKeep ==
  ASSUME NEW r \in Runs, RunInv(r), Unwritten(r), pc[r] \notin Done \cup Ended,
         pc'[r] \in NotStarted => pc[r] \in NotStarted,
         pc'[r] \in Working => pc[r] \in Working,
         pc'[r] \in Synced => pc[r] \in Synced,
         pc'[r] \in Working /\ pc[r] = "reserving" => pc'[r] = "reserving"
  PROVE  Kept(r)'
<1> USE DEF RunInv, Unwritten, Unsent
<1>1. Fresh(r)' /\ Gone(r)'
  BY DEF Fresh, Gone
<1>2. Budget(r)' /\ Escalated(r)' /\ Earned(r)'
  BY DEF Budget, Escalated, Earned
<1>3. Closed(r)'
  BY DEF Closed, Done, Ended
<1>4. Open(r)'
  BY DEF Open, Defective, Current
<1> QED
  BY <1>1, <1>2, <1>3, <1>4 DEF Kept

\* A run at work writes a record that stays open, of its attempt or of the next one.
LEMMA RecordKeeps ==
  ASSUME TypeOK, NEW r \in Runs, RunInv(r), Unsent(r), pc[r] \in Working,
         pc'[r] \in (Working \ {"reserving"}) \cup {"throwing"},
         disk'[r] = mem'[r] \/ (disk'[r] = disk[r] /\ pc'[r] \notin Synced),
         Pending(mem'[r]), mem'[r].terminal = "none", NEW c \in Ordinals, mem'[r].reserved = c,
         c = Current(r) \/ (c = Current(r) + 1 /\ pc[r] = "reserving"),
         \A o \in Ordinals : o # c => mem'[r].attempts[o] = mem[r].attempts[o],
         mem'[r].attempts[c].sends <= 1, sent[r][c] <= mem'[r].attempts[c].sends
  PROVE  Kept(r)'
<1>1. /\ r \notin reconciled /\ Pending(disk[r]) /\ disk[r].terminal = "none"
      /\ pc[r] \in Synced => disk[r] = mem[r]
      /\ \A o \in Ordinals :
           /\ o # Current(r) => disk[r].attempts[o] = mem[r].attempts[o]
           /\ o < Current(r) => Defective(r, o)
           /\ o > Current(r) => mem[r].attempts[o] = Unreserved /\ sent[r][o] = 0
  BY DEF RunInv, Open
<1>2. pc[r] = "reserving" /\ Current(r) \in Ordinals => Defective(r, Current(r))
  BY DEF RunInv, Attempting
<1>3. c = Current(r) + 1 => disk[r] = mem[r]
  BY <1>1, Shapes DEF Synced
<1>4. \A o \in Ordinals : o # c => disk[r].attempts[o] = mem[r].attempts[o]
  BY <1>1, <1>3
<1>5. Fresh(r)' /\ Gone(r)'
  BY <1>1 DEF Fresh, Gone, Unsent, NotStarted, Working, Synced
<1>6. Budget(r)'
  <2> SUFFICES ASSUME NEW o \in Ordinals
               PROVE  /\ sent[r][o] <= 1 /\ disk'[r].attempts[o].sends <= 1
                      /\ sent[r][o] <= disk'[r].attempts[o].sends
    BY DEF Budget, Unsent
  <2>1. /\ sent[r][o] <= 1 /\ disk[r].attempts[o].sends <= 1
        /\ sent[r][o] <= disk[r].attempts[o].sends
    BY <1>1 DEF RunInv, Budget
  <2>2. disk'[r] = disk[r] \/ (o # c /\ disk'[r].attempts[o] = disk[r].attempts[o])
        \/ (o = c /\ disk'[r].attempts[o] = mem'[r].attempts[o])
    BY <1>4
  <2> QED
    BY <2>1, <2>2
<1>7. Escalated(r)'
  BY DEF RunInv, Escalated, Unsent
<1>8. Closed(r)' /\ Earned(r)'
  BY <1>1 DEF Closed, Earned, Pending
<1>9. Open(r)'
  <2> SUFFICES ASSUME pc'[r] \in Working PROVE Open(r)'
    BY DEF Open
  <2>1. Pending(disk'[r]) /\ disk'[r].terminal = "none" /\ (pc'[r] \in Synced => disk'[r] = mem'[r])
    BY <1>1
  <2>2. ASSUME NEW o \in Ordinals
        PROVE  /\ o # c => disk'[r].attempts[o] = mem'[r].attempts[o]
               /\ o < c => Defective(r, o)'
               /\ o > c => mem'[r].attempts[o] = Unreserved /\ sent'[r][o] = 0
    <3>1. o # c => disk'[r].attempts[o] = mem'[r].attempts[o]
      BY <1>4
    <3>2. o < c => Defective(r, o)
      BY <1>1, <1>2, Shapes DEF Ordinals
    <3>3. o > c => mem[r].attempts[o] = Unreserved /\ sent[r][o] = 0
      BY <1>1, Shapes DEF Ordinals
    <3> QED
      BY <3>1, <3>2, <3>3 DEF Unsent, Defective, Ordinals
  <2>3. r \notin reconciled'
    BY <1>1 DEF Unsent
  <2> QED
    BY <2>1, <2>2, <2>3 DEF Open, Current
<1> QED
  BY <1>5, <1>6, <1>7, <1>8, <1>9 DEF Kept

\* How the current attempt stands while the run is at work.
LEMMA AtWork ==
  ASSUME NEW r \in Runs, RunInv(r), pc[r] \in Working \ {"reserving"}
  PROVE  /\ Current(r) \in Ordinals /\ Pending(mem[r]) /\ mem[r].terminal = "none"
         /\ r \notin reconciled
         /\ sent[r][Current(r)] <= 1 /\ sent[r][Current(r)] <= disk[r].attempts[Current(r)].sends
         /\ disk[r].attempts[Current(r)].sends <= 1
         /\ pc[r] \in Synced => disk[r] = mem[r]
BY DEF RunInv, Open, Budget

LEMMA ListJournalKeeps ==
  ASSUME TypeOK, NEW r \in Runs, RunInv(r), ListJournal(r) PROVE RunInv(r)'
<1>1. Kept(r)'
  BY MovesKeep DEF ListJournal, TypeOK, Goto, Unwritten, Unsent, NotStarted, Working, Synced, Done, Ended
<1>2. Attempting(r)'
  BY DEF ListJournal, TypeOK, Goto, Attempting
<1> QED
  BY <1>1, <1>2 DEF RunInv, Kept

LEMMA ListingFailsKeeps ==
  ASSUME TypeOK, NEW r \in Runs, RunInv(r), ListingFails(r) PROVE RunInv(r)'
<1>1. Kept(r)'
  BY MovesKeep DEF ListingFails, TypeOK, Goto, Unwritten, Unsent, NotStarted, Working, Synced, Done, Ended
<1>2. Attempting(r)'
  BY DEF ListingFails, TypeOK, Goto, Attempting
<1> QED
  BY <1>1, <1>2 DEF RunInv, Kept

LEMMA AdmitRunKeeps ==
  ASSUME TypeOK, NEW r \in Runs, RunInv(r), AdmitRun(r) PROVE RunInv(r)'
<1>1. Kept(r)'
  BY MovesKeep DEF AdmitRun, TypeOK, Goto, Unwritten, Unsent, NotStarted, Working, Synced, Done, Ended
<1>2. Attempting(r)'
  BY DEF AdmitRun, TypeOK, Goto, Attempting
<1> QED
  BY <1>1, <1>2 DEF RunInv, Kept

LEMMA TakeLockKeeps ==
  ASSUME TypeOK, NEW r \in Runs, RunInv(r), TakeLock(r) PROVE RunInv(r)'
<1>1. Kept(r)'
  BY MovesKeep DEF TakeLock, TypeOK, Goto, Unwritten, Unsent, NotStarted, Working, Synced, Done, Ended
<1>2. Attempting(r)'
  BY DEF TakeLock, TypeOK, Goto, Attempting
<1> QED
  BY <1>1, <1>2 DEF RunInv, Kept

LEMMA ReadRecordKeeps ==
  ASSUME TypeOK, NEW r \in Runs, NEW q \in Runs, RunInv(r), ReadRecord(r, q) PROVE RunInv(r)'
<1>1. Kept(r)'
  BY MovesKeep DEF ReadRecord, TypeOK, Goto, Unwritten, Unsent, NotStarted, Working, Synced, Done, Ended
<1>2. Attempting(r)'
  BY DEF ReadRecord, TypeOK, Goto, Attempting, RunInv
<1> QED
  BY <1>1, <1>2 DEF RunInv, Kept

LEMMA ExecutorStopsBeforeSendKeeps ==
  ASSUME TypeOK, NEW r \in Runs, RunInv(r), ExecutorStopsBeforeSend(r) PROVE RunInv(r)'
<1>1. Kept(r)'
  BY MovesKeep DEF ExecutorStopsBeforeSend, TypeOK, Goto, Unwritten, Unsent, NotStarted, Working, Synced, Done, Ended
<1>2. Attempting(r)'
  BY DEF ExecutorStopsBeforeSend, TypeOK, Goto, RunInv, Attempting, Sends, Current
<1> QED
  BY <1>1, <1>2 DEF RunInv, Kept

LEMMA ExecutorThrowsKeeps ==
  ASSUME TypeOK, NEW r \in Runs, RunInv(r), ExecutorThrows(r) PROVE RunInv(r)'
<1>1. Kept(r)'
  BY MovesKeep DEF ExecutorThrows, TypeOK, Goto, Unwritten, Unsent, NotStarted, Working, Synced, Done, Ended
<1>2. Attempting(r)'
  BY AtWork, Shapes DEF ExecutorThrows, TypeOK, Goto, RunInv, Attempting, Sends, Current, Working, Synced
<1> QED
  BY <1>1, <1>2 DEF RunInv, Kept

LEMMA EscalateKeeps ==
  ASSUME TypeOK, NEW r \in Runs, RunInv(r), Escalate(r) PROVE RunInv(r)'
<1>1. mem[r].attempts[1] \in Attempt
  BY Shapes DEF Ordinals
<1>2. mem[r].attempts[1] = [state |-> "verification_terminal", sends |-> 1] /\ sent[r][1] = 1
  BY <1>1 DEF Escalate, RunInv, Attempting, Judged, Sends, Current, CauseOf, Attempt
<1>3. Kept(r)'
  BY MovesKeep DEF Escalate, TypeOK, Goto, Unwritten, Unsent, NotStarted, Working, Synced, Done, Ended
<1>4. Attempting(r)'
  BY <1>2 DEF Escalate, TypeOK, Goto, Attempting, Defective, Current, CauseOf
<1> QED
  BY <1>3, <1>4 DEF RunInv, Kept

LEMMA MarkIdentityKeeps ==
  ASSUME TypeOK, NEW r \in Runs, RunInv(r), MarkIdentity(r) PROVE RunInv(r)'
<1> DEFINE rec == WithAttempt(r, "remote_identity_known", Sends(r))
<1>1. /\ pc[r] \in Working \ {"reserving"} /\ Current(r) \in Ordinals
      /\ Pending(mem[r]) /\ mem[r].terminal = "none"
  BY AtWork DEF MarkIdentity, Working, Synced
<1>2. /\ rec.state = mem[r].state
      /\ rec.terminal = mem[r].terminal
      /\ rec.reserved = Current(r)
      /\ rec.attempts[Current(r)] = [state |-> "remote_identity_known", sends |-> Sends(r)]
      /\ \A o \in Ordinals : o # Current(r) => rec.attempts[o] = mem[r].attempts[o]
  BY <1>1, WithAttemptFields
<1>3. /\ mem'[r] = rec
      /\ \/ disk'[r] = rec /\ pc'[r] = "turnTerminal"
         \/ disk'[r] = rec /\ pc'[r] = "unknown"
         \/ disk'[r] = disk[r] /\ pc'[r] = "unknown"
      /\ Unsent(r)
  BY PersistEffect DEF MarkIdentity, Unsent
<1>4. Judged(r) /\ disk[r] = mem[r] /\ sent[r][Current(r)] <= 1 /\ Sends(r) = 1
      /\ disk[r].attempts[Current(r)].sends = 1
  BY <1>1, AtWork, Shapes DEF MarkIdentity, RunInv, Attempting, Judged, Working, Synced, Sends
<1> HIDE DEF rec
<1>5. Kept(r)'
  BY <1>1, <1>2, <1>3, <1>4, RecordKeeps DEF Pending, Working, Synced
<1>6. Attempting(r)'
  BY <1>1, <1>2, <1>3, <1>4 DEF Attempting, Judged, Sends, Current, CauseOf, Unsent
<1> QED
  BY <1>5, <1>6 DEF RunInv, Kept

LEMMA MarkTurnTerminalKeeps ==
  ASSUME TypeOK, NEW r \in Runs, RunInv(r), MarkTurnTerminal(r) PROVE RunInv(r)'
<1> DEFINE rec == WithAttempt(r, "turn_terminal", Sends(r))
<1>1. /\ pc[r] \in Working \ {"reserving"} /\ Current(r) \in Ordinals
      /\ Pending(mem[r]) /\ mem[r].terminal = "none"
  BY AtWork DEF MarkTurnTerminal, Working, Synced
<1>2. /\ rec.state = mem[r].state
      /\ rec.terminal = mem[r].terminal
      /\ rec.reserved = Current(r)
      /\ rec.attempts[Current(r)] = [state |-> "turn_terminal", sends |-> Sends(r)]
      /\ \A o \in Ordinals : o # Current(r) => rec.attempts[o] = mem[r].attempts[o]
  BY <1>1, WithAttemptFields
<1>3. /\ mem'[r] = rec
      /\ \/ disk'[r] = rec /\ pc'[r] = "verification"
         \/ disk'[r] = rec /\ pc'[r] = "unknown"
         \/ disk'[r] = disk[r] /\ pc'[r] = "unknown"
      /\ Unsent(r)
  BY PersistEffect DEF MarkTurnTerminal, Unsent
<1>4. Judged(r) /\ disk[r] = mem[r] /\ sent[r][Current(r)] <= 1 /\ Sends(r) = 1
      /\ disk[r].attempts[Current(r)].sends = 1
  BY <1>1, AtWork, Shapes DEF MarkTurnTerminal, RunInv, Attempting, Judged, Working, Synced, Sends
<1> HIDE DEF rec
<1>5. Kept(r)'
  BY <1>1, <1>2, <1>3, <1>4, RecordKeeps DEF Pending, Working, Synced
<1>6. Attempting(r)'
  BY <1>1, <1>2, <1>3, <1>4 DEF Attempting, Judged, Sends, Current, CauseOf, Unsent
<1> QED
  BY <1>5, <1>6 DEF RunInv, Kept

LEMMA MarkVerificationKeeps ==
  ASSUME TypeOK, NEW r \in Runs, RunInv(r), MarkVerification(r) PROVE RunInv(r)'
<1> DEFINE rec == WithAttempt(r, "verification_terminal", Sends(r))
<1>1. /\ pc[r] \in Working \ {"reserving"} /\ Current(r) \in Ordinals
      /\ Pending(mem[r]) /\ mem[r].terminal = "none"
  BY AtWork DEF MarkVerification, Working, Synced
<1>2. /\ rec.state = mem[r].state
      /\ rec.terminal = mem[r].terminal
      /\ rec.reserved = Current(r)
      /\ rec.attempts[Current(r)] = [state |-> "verification_terminal", sends |-> Sends(r)]
      /\ \A o \in Ordinals : o # Current(r) => rec.attempts[o] = mem[r].attempts[o]
  BY <1>1, WithAttemptFields
<1>3. /\ mem'[r] = rec
      /\ \/ disk'[r] = rec /\ pc'[r] = "deciding"
         \/ disk'[r] = rec /\ pc'[r] = "unknown"
         \/ disk'[r] = disk[r] /\ pc'[r] = "unknown"
      /\ Unsent(r)
  BY PersistEffect DEF MarkVerification, Unsent
<1>4. Judged(r) /\ disk[r] = mem[r] /\ sent[r][Current(r)] <= 1 /\ Sends(r) = 1
      /\ disk[r].attempts[Current(r)].sends = 1
  BY <1>1, AtWork, Shapes DEF MarkVerification, RunInv, Attempting, Judged, Working, Synced, Sends
<1> HIDE DEF rec
<1>5. Kept(r)'
  BY <1>1, <1>2, <1>3, <1>4, RecordKeeps DEF Pending, Working, Synced
<1>6. Attempting(r)'
  BY <1>1, <1>2, <1>3, <1>4 DEF Attempting, Judged, Sends, Current, CauseOf, Unsent
<1> QED
  BY <1>5, <1>6 DEF RunInv, Kept

LEMMA MarkPreSendFailureKeeps ==
  ASSUME TypeOK, NEW r \in Runs, RunInv(r), MarkPreSendFailure(r) PROVE RunInv(r)'
<1> DEFINE rec == WithAttempt(r, "pre_send_failed", 0)
<1>1. /\ pc[r] \in Working \ {"reserving"} /\ Current(r) \in Ordinals
      /\ Pending(mem[r]) /\ mem[r].terminal = "none"
  BY AtWork DEF MarkPreSendFailure, Working, Synced
<1>2. /\ rec.state = mem[r].state
      /\ rec.terminal = mem[r].terminal
      /\ rec.reserved = Current(r)
      /\ rec.attempts[Current(r)] = [state |-> "pre_send_failed", sends |-> 0]
      /\ \A o \in Ordinals : o # Current(r) => rec.attempts[o] = mem[r].attempts[o]
  BY <1>1, WithAttemptFields
<1>3. /\ mem'[r] = rec
      /\ \/ disk'[r] = rec /\ pc'[r] = "finishPreSend"
         \/ disk'[r] = rec /\ pc'[r] = "throwing"
         \/ disk'[r] = disk[r] /\ pc'[r] = "throwing"
      /\ Unsent(r)
  BY PersistEffect DEF MarkPreSendFailure, Unsent
<1>4. sent[r][Current(r)] = 0
  BY <1>1, AtWork, Shapes DEF MarkPreSendFailure, RunInv, Attempting, Judged, Working, Synced, Sends
<1> HIDE DEF rec
<1>5. Kept(r)'
  BY <1>1, <1>2, <1>3, <1>4, RecordKeeps DEF Pending, Working, Synced
<1>6. Attempting(r)'
  BY <1>1, <1>2, <1>3, <1>4 DEF Attempting, Judged, Sends, Current, CauseOf, Unsent
<1> QED
  BY <1>5, <1>6 DEF RunInv, Kept

LEMMA BeforeTurnStartKeeps ==
  ASSUME TypeOK, NEW r \in Runs, RunInv(r), BeforeTurnStart(r) PROVE RunInv(r)'
<1> DEFINE att == WithAttempt(r, "request_sent", Sends(r) + 1)
           rec == [att EXCEPT !.state = "request_sent"]
<1>1. /\ pc[r] \in Working \ {"reserving"} /\ Current(r) \in Ordinals
      /\ Pending(mem[r]) /\ mem[r].terminal = "none"
  BY AtWork DEF BeforeTurnStart, Working, Synced
<1>2. att \in Record
  BY <1>1, SendsType, WithAttemptType DEF AttemptStates
<1>3. /\ rec.state = "request_sent"
      /\ rec.terminal = mem[r].terminal
      /\ rec.reserved = Current(r)
      /\ rec.attempts[Current(r)] = [state |-> "request_sent", sends |-> Sends(r) + 1]
      /\ \A o \in Ordinals : o # Current(r) => rec.attempts[o] = mem[r].attempts[o]
  <2>1. rec.attempts = att.attempts /\ rec.terminal = att.terminal /\ rec.reserved = att.reserved
        /\ rec.state = "request_sent"
    BY <1>2 DEF Record
  <2> HIDE DEF rec
  <2> QED
    BY <1>1, <2>1, WithAttemptFields
<1>4. /\ mem'[r] = rec
      /\ \/ disk'[r] = rec /\ pc'[r] = "claimed"
         \/ disk'[r] = rec /\ pc'[r] = "preSend"
         \/ disk'[r] = disk[r] /\ pc'[r] = "preSend"
  <2>1. Persist(r, rec, "claimed", "preSend")
    BY DEF BeforeTurnStart
  <2> HIDE DEF rec
  <2> QED
    BY <2>1, PersistEffect
<1> HIDE DEF rec
<1>5. Unsent(r)
  BY DEF BeforeTurnStart, Unsent
<1>6. Sends(r) = 0 /\ sent[r][Current(r)] = 0
  BY <1>1, AtWork, Shapes DEF BeforeTurnStart, RunInv, Attempting, Working, Synced, Sends
<1>7. Kept(r)'
  BY <1>1, <1>3, <1>4, <1>5, <1>6, RecordKeeps DEF Pending, Working, Synced
<1>8. Attempting(r)'
  BY <1>1, <1>3, <1>4, <1>5, <1>6 DEF Attempting, Judged, Sends, Current, CauseOf, Unsent
<1> QED
  BY <1>7, <1>8 DEF RunInv, Kept

LEMMA MarkAcknowledgementUnknownKeeps ==
  ASSUME TypeOK, NEW r \in Runs, RunInv(r), MarkAcknowledgementUnknown(r) PROVE RunInv(r)'
<1> DEFINE att == WithAttempt(r, "acknowledgement_unknown", Sends(r))
           rec == [att EXCEPT !.state = "reconciliation_required"]
<1>1. /\ pc[r] \in Working \ {"reserving"} /\ Current(r) \in Ordinals
      /\ Pending(mem[r]) /\ mem[r].terminal = "none"
  BY AtWork DEF MarkAcknowledgementUnknown, Working, Synced
<1>2. att \in Record
  BY <1>1, SendsType, WithAttemptType DEF AttemptStates
<1>3. /\ rec.state = "reconciliation_required"
      /\ rec.terminal = mem[r].terminal
      /\ rec.reserved = Current(r)
      /\ rec.attempts[Current(r)] = [state |-> "acknowledgement_unknown", sends |-> Sends(r)]
      /\ \A o \in Ordinals : o # Current(r) => rec.attempts[o] = mem[r].attempts[o]
  <2>1. rec.attempts = att.attempts /\ rec.terminal = att.terminal /\ rec.reserved = att.reserved
        /\ rec.state = "reconciliation_required"
    BY <1>2 DEF Record
  <2> HIDE DEF rec
  <2> QED
    BY <1>1, <2>1, WithAttemptFields
<1>4. /\ mem'[r] = rec
      /\ \/ disk'[r] = rec /\ pc'[r] = "finishUnknown"
         \/ disk'[r] = rec /\ pc'[r] = "throwing"
         \/ disk'[r] = disk[r] /\ pc'[r] = "throwing"
  <2>1. Persist(r, rec, "finishUnknown", "throwing")
    BY DEF MarkAcknowledgementUnknown
  <2> HIDE DEF rec
  <2> QED
    BY <2>1, PersistEffect
<1> HIDE DEF rec
<1>5. Unsent(r)
  BY DEF MarkAcknowledgementUnknown, Unsent
<1>6. Sends(r) = 1 /\ sent[r][Current(r)] <= 1
  BY <1>1, AtWork, Shapes DEF MarkAcknowledgementUnknown, RunInv, Attempting, Working, Synced, Sends
<1>7. Kept(r)'
  BY <1>1, <1>3, <1>4, <1>5, <1>6, RecordKeeps DEF Pending, Working, Synced
<1>8. Attempting(r)'
  BY <1>1, <1>3, <1>4, <1>5, <1>6 DEF Attempting, Judged, Sends, Current, CauseOf, Unsent
<1> QED
  BY <1>7, <1>8 DEF RunInv, Kept

LEMMA ReserveKeeps ==
  ASSUME TypeOK, NEW r \in Runs, RunInv(r), Reserve(r) PROVE RunInv(r)'
<1> DEFINE o   == Current(r) + 1
           rec == [mem[r] EXCEPT !.state = "attempt_reserved", !.reserved = o,
                     !.attempts[o] = [state |-> "attempt_reserved", sends |-> 0]]
<1>1. o \in Ordinals /\ mem[r] \in Record
  BY Shapes DEF Reserve, Reservable, Ordinals
<1>2. /\ rec.state = "attempt_reserved"
      /\ rec.terminal = mem[r].terminal
      /\ rec.reserved = o
      /\ rec.attempts[o] = [state |-> "attempt_reserved", sends |-> 0]
      /\ \A p \in Ordinals : p # o => rec.attempts[p] = mem[r].attempts[p]
  BY <1>1 DEF Record
<1>3. /\ mem'[r] = rec
      /\ \/ disk'[r] = rec /\ pc'[r] = "executing"
         \/ disk'[r] = rec /\ pc'[r] = "throwing"
         \/ disk'[r] = disk[r] /\ pc'[r] = "throwing"
  <2>1. Persist(r, rec, "executing", "throwing")
    BY DEF Reserve
  <2> HIDE DEF rec
  <2> QED
    BY <2>1, PersistEffect
<1> HIDE DEF rec
<1>4. pc[r] = "reserving" /\ Unsent(r)
  BY DEF Reserve, Unsent
<1>5. sent[r][o] = 0 /\ mem[r].terminal = "none"
  BY <1>1, <1>4, Shapes DEF RunInv, Open, Working, Synced
<1>6. Kept(r)'
  BY <1>1, <1>2, <1>3, <1>4, <1>5, RecordKeeps DEF Pending, Working, Synced
<1>7. Attempting(r)'
  BY <1>1, <1>2, <1>3, <1>4, <1>5 DEF Attempting, Sends, Current, Unsent
<1> QED
  BY <1>6, <1>7 DEF RunInv, Kept

LEMMA CreateJournalKeeps ==
  ASSUME TypeOK, NEW r \in Runs, RunInv(r), CreateJournal(r) PROVE RunInv(r)'
<1>1. /\ mem'[r] = EmptyRecord("planned")
      /\ disk'[r] \in {EmptyRecord("planned"), disk[r]}
      /\ pc'[r] = "threw" \/ (pc'[r] = "reserving" /\ disk'[r] = mem'[r])
      /\ Unsent(r)
  BY PersistEffect DEF CreateJournal, Unsent
<1>2. disk[r] = NoRecord /\ r \notin reconciled /\ \A o \in Ordinals : sent[r][o] = 0
  BY DEF CreateJournal, RunInv, Fresh, NotStarted
<1>3. \A s : /\ EmptyRecord(s).state = s /\ EmptyRecord(s).terminal = "none"
             /\ EmptyRecord(s).reserved = 0
             /\ \A o \in Ordinals : EmptyRecord(s).attempts[o] = Unreserved
  BY DEF EmptyRecord
<1>4. Unreserved.sends = 0 /\ 0 \notin Ordinals /\ \A o \in Ordinals : o \in Nat /\ o > 0
  BY DEF Unreserved, Ordinals
<1>5. Kept(r)'
  <2>1. Fresh(r)' /\ Gone(r)' /\ Budget(r)' /\ Escalated(r)'
    BY <1>1, <1>2, <1>3, <1>4 DEF Fresh, Gone, Budget, Escalated, Unsent, NoRecord, NotStarted, Ordinals
  <2>2. Closed(r)' /\ Earned(r)'
    BY <1>1, <1>2, <1>3 DEF Closed, Earned, NoRecord
  <2>3. Open(r)'
    BY <1>1, <1>2, <1>3, <1>4 DEF Open, Pending, Current, Working, Synced, Unsent
  <2> QED
    BY <2>1, <2>2, <2>3 DEF Kept
<1>6. Attempting(r)'
  BY <1>1, <1>3, <1>4 DEF Attempting, Current
<1> QED
  BY <1>5, <1>6 DEF RunInv, Kept

LEMMA SendTurnStartKeeps ==
  ASSUME TypeOK, NEW r \in Runs, RunInv(r), SendTurnStart(r) PROVE RunInv(r)'
<1> DEFINE c == Current(r)
<1>1. /\ c \in Ordinals /\ r \notin reconciled /\ disk[r] = mem[r]
      /\ pc[r] = "claimed" /\ Sends(r) = 1 /\ sent[r][c] = 0
  BY AtWork DEF SendTurnStart, RunInv, Attempting, Working, Synced
<1>2. /\ pc'[r] = "sent" /\ mem'[r] = mem[r] /\ disk'[r] = disk[r] /\ verdict'[r] = verdict[r]
      /\ reconciled' = reconciled /\ sent'[r][c] = 1
      /\ \A o \in Ordinals : o # c => sent'[r][o] = sent[r][o]
  BY <1>1, Shapes DEF SendTurnStart, Goto, TypeOK
<1>3. \A o \in Ordinals : o < c => Defective(r, o)
  BY <1>1 DEF RunInv, Open, Working, Synced
<1>4. Fresh(r)' /\ Gone(r)'
  BY <1>1, <1>2 DEF RunInv, Fresh, Gone, NotStarted
<1>5. Budget(r)'
  BY <1>1, <1>2, Shapes DEF RunInv, Budget, Sends
<1>6. Escalated(r)'
  BY <1>1, <1>2, <1>3, Shapes DEF RunInv, Escalated, Defective, Ordinals
<1>7. Closed(r)' /\ Earned(r)'
  BY <1>1, <1>2 DEF RunInv, Closed, Earned, Open, Pending, Working, Synced
<1>8. Open(r)'
  BY <1>1, <1>2, <1>3, Shapes DEF RunInv, Open, Defective, Current, Working, Synced, Ordinals
<1>9. Attempting(r)'
  BY <1>1, <1>2 DEF Attempting, Sends, Current
<1> QED
  BY <1>4, <1>5, <1>6, <1>7, <1>8, <1>9 DEF RunInv

LEMMA ExecutorReturnsKeeps ==
  ASSUME TypeOK, NEW r \in Runs, RunInv(r), ExecutorReturns(r) PROVE RunInv(r)'
<1> DEFINE c == Current(r)
<1>1. PICK v \in Verdict :
        /\ verdict' = [verdict EXCEPT ![r][Current(r)] = v]
        /\ pc[r] = "claimed" => v.cause \notin {"verified", "candidate_defect"}
        /\ v.cause = "verified" => v.passed
  BY VerifiedReportPassed, LostTurnIsNoDefect DEF ExecutorReturns
<1>2. /\ pc[r] \in {"claimed", "sent"} /\ c \in Ordinals /\ r \notin reconciled /\ Sends(r) = 1
      /\ pc[r] = "sent" => sent[r][c] = 1
  BY AtWork DEF ExecutorReturns, RunInv, Attempting, Working, Synced
<1>3. /\ pc'[r] \in {"identity", "turnTerminal"} /\ mem'[r] = mem[r] /\ disk'[r] = disk[r]
      /\ sent'[r] = sent[r] /\ reconciled' = reconciled
      /\ verdict'[r][c] = v /\ \A o \in Ordinals : o # c => verdict'[r][o] = verdict[r][o]
  BY <1>1, <1>2 DEF ExecutorReturns, Goto, TypeOK
<1>4. /\ \A o \in Ordinals : o < c => Defective(r, o)
      /\ \A o \in Ordinals : o > c => mem[r].attempts[o] = Unreserved /\ sent[r][o] = 0
      /\ disk[r] = mem[r] /\ Pending(disk[r]) /\ disk[r].terminal = "none"
  BY <1>2 DEF RunInv, Open, Working, Synced
<1>5. Fresh(r)' /\ Gone(r)' /\ Budget(r)'
  BY <1>2, <1>3 DEF RunInv, Fresh, Gone, Budget, NotStarted
<1>6. Escalated(r)'
  BY <1>2, <1>3, <1>4, Shapes DEF RunInv, Escalated, Ordinals
<1>7. Closed(r)' /\ Earned(r)'
  BY <1>3, <1>4 DEF Closed, Earned, Pending
<1>8. Open(r)'
  BY <1>2, <1>3, <1>4, Shapes DEF Open, Defective, Current, Ordinals
<1>9. Attempting(r)'
  BY <1>1, <1>2, <1>3 DEF Attempting, Judged, Sends, CauseOf, Current
<1> QED
  BY <1>5, <1>6, <1>7, <1>8, <1>9 DEF RunInv

\* A run that is over or dies, with the record in the directory as it was.
LEMMA OverKeeps ==
  ASSUME NEW r \in Runs, RunInv(r), Unsent(r), disk'[r] = disk[r], pc'[r] \in Done \ {"refused"},
         pc'[r] = pc[r] \/ pc[r] \notin Done
  PROVE  RunInv(r)'
<1>1. Fresh(r)' /\ Gone(r)' /\ Budget(r)' /\ Escalated(r)' /\ Earned(r)'
  BY DEF RunInv, Fresh, Gone, Budget, Escalated, Earned, Unsent, NotStarted, Done
<1>2. Closed(r)'
  BY DEF RunInv, Closed, Settled, Unsent, Done, Ended
<1>3. Open(r)' /\ Attempting(r)'
  BY DEF Open, Attempting, Working, Synced, Done
<1> QED
  BY <1>1, <1>2, <1>3 DEF RunInv

LEMMA CrashKeeps ==
  ASSUME TypeOK, NEW r \in Runs, RunInv(r), Crash(r) PROVE RunInv(r)'
BY OverKeeps DEF Crash, Goto, TypeOK, Unsent, Done

LEMMA CloseJournalKeeps ==
  ASSUME TypeOK, NEW r \in Runs, RunInv(r), CloseJournal(r) PROVE RunInv(r)'
BY OverKeeps DEF CloseJournal, Goto, TypeOK, Unsent, Done

LEMMA OperatorReconcilesKeeps ==
  ASSUME TypeOK, NEW r \in Runs, RunInv(r), OperatorReconciles(r) PROVE RunInv(r)'
<1>1. /\ pc[r] \in Done /\ pc'[r] = pc[r] /\ disk'[r] = NoRecord /\ r \in reconciled'
      /\ mem'[r] = mem[r] /\ verdict'[r] = verdict[r] /\ sent'[r] = sent[r]
  BY DEF OperatorReconciles, TypeOK
<1>2. pc[r] \notin NotStarted
  <2>1. NoRecord.state = "absent"
    BY DEF NoRecord, EmptyRecord
  <2> QED
    BY <2>1 DEF OperatorReconciles, RunInv, Fresh, Pending
<1>3. /\ NoRecord.state = "absent" /\ NoRecord.terminal = "none"
      /\ \A o \in Ordinals : NoRecord.attempts[o].sends = 0
  BY DEF NoRecord, EmptyRecord, Unreserved
<1>4. Fresh(r)' /\ Gone(r)'
  BY <1>1, <1>2 DEF Fresh, Gone
<1>5. Budget(r)' /\ Escalated(r)'
  BY <1>1, <1>3 DEF RunInv, Budget, Escalated
<1>6. Closed(r)' /\ Earned(r)'
  BY <1>1, <1>3 DEF Closed, Earned
<1>7. Open(r)' /\ Attempting(r)'
  BY <1>1 DEF Open, Attempting, Working, Synced, Done
<1> QED
  BY <1>4, <1>5, <1>6, <1>7 DEF RunInv

\* A finished record differs from the one before in its state and its terminal
\* state only.
LEMMA FinishEffect ==
  ASSUME TypeOK, NEW r \in Runs, NEW t \in TerminalStates, Finish(r, t)
  PROVE  /\ mem'[r].state = IF t = "reconciliation_required" THEN t ELSE "run_terminal"
         /\ mem'[r].terminal = t
         /\ mem'[r].reserved = mem[r].reserved
         /\ mem'[r].attempts = mem[r].attempts
         /\ \/ disk'[r] = mem'[r] /\ pc'[r] \in {"returning", "throwing"}
            \/ disk'[r] = disk[r] /\ pc'[r] = "throwing"
         /\ UNCHANGED <<verdict, sent, reconciled>>
<1>1. mem[r] \in Record
  BY DEF TypeOK
<1>2. /\ Finished(r, t).state = IF t = "reconciliation_required" THEN t ELSE "run_terminal"
      /\ Finished(r, t).terminal = t
      /\ Finished(r, t).reserved = mem[r].reserved
      /\ Finished(r, t).attempts = mem[r].attempts
  BY <1>1 DEF Finished, Record
<1>3. mem'[r] = Finished(r, t)
  BY PersistEffect DEF Finish
<1> QED
  BY <1>2, <1>3, PersistEffect DEF Finish

\* A run ends in order where its last attempt is settled, or as unknown.
LEMMA FinishKeeps ==
  ASSUME TypeOK, NEW r \in Runs, RunInv(r), NEW t \in TerminalStates \ {"none"}, Finish(r, t),
         pc[r] \in Synced \ {"reserving"},
         t # "reconciliation_required" =>
           \/ mem[r].attempts[Current(r)].state = "verification_terminal"
           \/ mem[r].attempts[Current(r)].state = "pre_send_failed" /\ sent[r][Current(r)] = 0,
         t = "verified" => /\ sent[r][Current(r)] = 1 /\ CauseOf(r) = "verified"
                           /\ verdict[r][Current(r)].passed
  PROVE  RunInv(r)'
<1> DEFINE c == Current(r)
<1>1. /\ c \in Ordinals /\ r \notin reconciled /\ disk[r] = mem[r]
      /\ Pending(disk[r]) /\ disk[r].terminal = "none"
      /\ \A o \in Ordinals : /\ o < c => Defective(r, o)
                             /\ o > c => mem[r].attempts[o] = Unreserved /\ sent[r][o] = 0
  BY DEF RunInv, Open, Working
<1>2. /\ verdict'[r] = verdict[r] /\ sent'[r] = sent[r] /\ reconciled' = reconciled
      /\ pc'[r] \in {"returning", "throwing"} /\ disk'[r].attempts = disk[r].attempts
      /\ disk'[r] = disk[r] \/ (disk'[r].terminal = t /\ disk'[r].reserved = c)
      /\ disk'[r].state = "run_terminal" => disk'[r] = disk[r] \/ t # "reconciliation_required"
  BY <1>1, FinishEffect DEF Current
<1>3. Fresh(r)' /\ Gone(r)' /\ Budget(r)' /\ Escalated(r)'
  BY <1>1, <1>2 DEF RunInv, Fresh, Gone, Budget, Escalated, NotStarted
<1>4. Closed(r)'
  <2> SUFFICES ASSUME disk'[r].state = "run_terminal", NEW o \in Ordinals
               PROVE  /\ mem[r].attempts[o].state \in
                           {"unreserved", "pre_send_failed", "verification_terminal"}
                      /\ sent[r][o] > 0 => mem[r].attempts[o].state = "verification_terminal"
    BY <1>1, <1>2 DEF Closed, Settled, Ended
  <2>1. t # "reconciliation_required"
    BY <1>1, <1>2 DEF Pending
  <2>2. o < c => mem[r].attempts[o].state = "verification_terminal"
    BY <1>1 DEF Defective
  <2>3. o > c => mem[r].attempts[o].state = "unreserved" /\ sent[r][o] = 0
    BY <1>1 DEF Unreserved
  <2> QED
    BY <1>1, <2>1, <2>2, <2>3 DEF Ordinals
<1>5. Earned(r)'
  BY <1>1, <1>2 DEF Earned, CauseOf
<1>6. Open(r)' /\ Attempting(r)'
  BY <1>2 DEF Open, Attempting, Working, Synced
<1> QED
  BY <1>3, <1>4, <1>5, <1>6 DEF RunInv

LEMMA FinishPreSendKeeps ==
  ASSUME TypeOK, NEW r \in Runs, RunInv(r), FinishPreSend(r) PROVE RunInv(r)'
<1>1. mem[r].attempts[Current(r)].state = "pre_send_failed" /\ sent[r][Current(r)] = 0
  BY DEF FinishPreSend, RunInv, Attempting
<1> QED
  BY <1>1, FinishKeeps DEF FinishPreSend, TerminalStates, Synced

LEMMA FinishUnknownKeeps ==
  ASSUME TypeOK, NEW r \in Runs, RunInv(r), FinishUnknown(r) PROVE RunInv(r)'
BY FinishKeeps DEF FinishUnknown, TerminalStates, Synced

LEMMA FinishVerifiedKeeps ==
  ASSUME TypeOK, NEW r \in Runs, RunInv(r), FinishVerified(r) PROVE RunInv(r)'
<1>1. /\ mem[r].attempts[Current(r)].state = "verification_terminal" /\ CauseOf(r) = "verified"
      /\ sent[r][Current(r)] = 1 /\ verdict[r][Current(r)].passed
  BY DEF FinishVerified, RunInv, Attempting, Judged
<1> QED
  BY <1>1, FinishKeeps DEF FinishVerified, TerminalStates, Synced

LEMMA FinishUnverifiedKeeps ==
  ASSUME TypeOK, NEW r \in Runs, RunInv(r), FinishUnverified(r) PROVE RunInv(r)'
<1>1. PICK t \in {"cancelled", "failed"} : Finish(r, t)
  BY DEF FinishUnverified
<1>2. mem[r].attempts[Current(r)].state = "verification_terminal"
  BY DEF FinishUnverified, RunInv, Attempting
<1> QED
  BY <1>1, <1>2, FinishKeeps DEF FinishUnverified, TerminalStates, Synced

\* What any process of the system does for one run.
StepOf(r) == RunStep(r) \/ Crash(r) \/ OperatorReconciles(r)

LEMMA StepKeeps ==
  ASSUME TypeOK, NEW r \in Runs, RunInv(r), StepOf(r) PROVE RunInv(r)'
  BY ListJournalKeeps, ListingFailsKeeps, ReadRecordKeeps, AdmitRunKeeps, TakeLockKeeps, CreateJournalKeeps,
     ReserveKeeps, ExecutorStopsBeforeSendKeeps, BeforeTurnStartKeeps,
     SendTurnStartKeeps, ExecutorReturnsKeeps, ExecutorThrowsKeeps, MarkIdentityKeeps,
     MarkTurnTerminalKeeps, MarkVerificationKeeps, MarkPreSendFailureKeeps,
     MarkAcknowledgementUnknownKeeps, FinishPreSendKeeps, FinishUnknownKeeps,
     EscalateKeeps, FinishVerifiedKeeps, FinishUnverifiedKeeps, CloseJournalKeeps,
     CrashKeeps, OperatorReconcilesKeeps
     DEF StepOf, RunStep

-----------------------------------------------------------------------------
(* All runs: a step of one run leaves the records of the others alone *)

SameRun(q) ==
  /\ pc'[q] = pc[q] /\ listed'[q] = listed[q] /\ unread'[q] = unread[q]
  /\ mem'[q] = mem[q] /\ disk'[q] = disk[q]
  /\ verdict'[q] = verdict[q] /\ sent'[q] = sent[q]
  /\ (q \in reconciled') <=> (q \in reconciled)

LEMMA StepIsLocal ==
  ASSUME TypeOK, NEW r \in Runs, StepOf(r), NEW q \in Runs, q # r PROVE SameRun(q)
  BY DEF TypeOK, SameRun, StepOf, RunStep, Persist, Goto, Finish,
     ListJournal, ListingFails, ReadRecord, AdmitRun, TakeLock, CreateJournal, Reserve,
     ExecutorStopsBeforeSend, BeforeTurnStart, SendTurnStart, ExecutorReturns,
     ExecutorThrows, MarkIdentity, MarkTurnTerminal, MarkVerification,
     MarkPreSendFailure, MarkAcknowledgementUnknown, FinishPreSend, FinishUnknown,
     Escalate, FinishVerified, FinishUnverified, CloseJournal, Crash,
     OperatorReconciles

LEMMA SameRunKeeps ==
  ASSUME NEW q \in Runs, RunInv(q), SameRun(q) PROVE RunInv(q)'
<1>1. /\ Fresh(q) /\ Gone(q) /\ Budget(q) /\ Escalated(q)
      /\ Closed(q) /\ Earned(q) /\ Open(q) /\ Attempting(q)
  BY DEF RunInv
<1>2. Fresh(q)' /\ Gone(q)'
  BY <1>1 DEF SameRun, Fresh, Gone
<1>3. Budget(q)'
  BY <1>1 DEF SameRun, Budget
<1>4. Escalated(q)'
  BY <1>1 DEF SameRun, Escalated
<1>5. Closed(q)'
  BY <1>1 DEF SameRun, Closed, Settled
<1>6. Earned(q)'
  BY <1>1 DEF SameRun, Earned
<1>7. Open(q)'
  BY <1>1 DEF SameRun, Open, Defective, Current
<1>8. Attempting(q)'
  BY <1>1 DEF SameRun, Attempting, Judged, Sends, Current, CauseOf, Defective
<1> QED
  BY <1>2, <1>3, <1>4, <1>5, <1>6, <1>7, <1>8 DEF RunInv

\* A terminal record and its sends never change.
LEMMA TerminalStays ==
  ASSUME TypeOK, NEW r \in Runs, RunInv(r), StepOf(r), disk[r].state = "run_terminal"
  PROVE  disk'[r] = disk[r] /\ sent'[r] = sent[r]
<1>1. pc[r] \in Ended /\ ~Pending(disk[r])
  BY DEF RunInv, Closed, Pending
<1> QED
  BY <1>1 DEF StepOf, RunStep, Ended, Done, FinishPreSend, FinishUnknown, FinishVerified, FinishUnverified,
     ListJournal, ListingFails, ReadRecord, AdmitRun, TakeLock, CreateJournal, Reserve,
     ExecutorStopsBeforeSend, BeforeTurnStart, SendTurnStart, ExecutorReturns,
     ExecutorThrows, MarkIdentity, MarkTurnTerminal, MarkVerification,
     MarkPreSendFailure, MarkAcknowledgementUnknown, Escalate, CloseJournal, Crash,
     OperatorReconciles

\* What a run knows from its scan.
LEMMA ScanKeeps ==
  ASSUME TypeOK, NEW r \in Runs, StepOf(r), Scanned(r),
         \A q \in Runs : disk[q].state = "run_terminal" => disk'[q] = disk[q]
  PROVE  Scanned(r)'
<1>1. CASE ListJournal(r)
  BY <1>1 DEF TypeOK, ListJournal, Goto, Scanned
<1>2. ASSUME NEW q \in Runs, ReadRecord(r, q) PROVE Scanned(r)'
  BY <1>2 DEF TypeOK, ReadRecord, Goto, Scanned
<1>3. CASE AdmitRun(r)
  BY <1>3 DEF TypeOK, AdmitRun, Goto, Scanned
<1>4. CASE /\ listed' = listed /\ unread' = unread
           /\ \/ pc[r] \notin {"scanning", "refused", "crashed"}
              \/ pc'[r] \in {pc[r], "crashed"}
  BY <1>4 DEF TypeOK, Scanned
<1>5. ASSUME ~ListJournal(r), \A q \in Runs : ~ReadRecord(r, q), ~AdmitRun(r)
      PROVE  /\ listed' = listed /\ unread' = unread
             /\ \/ pc[r] \notin {"scanning", "refused", "crashed"}
                \/ pc'[r] \in {pc[r], "crashed"}
  BY <1>5 DEF TypeOK, StepOf, RunStep, Goto, Finish,
     ListingFails, TakeLock, CreateJournal, Reserve, ExecutorStopsBeforeSend, BeforeTurnStart, SendTurnStart,
     ExecutorReturns, ExecutorThrows, MarkIdentity, MarkTurnTerminal, MarkVerification,
     MarkPreSendFailure, MarkAcknowledgementUnknown, FinishPreSend, FinishUnknown,
     Escalate, FinishVerified, FinishUnverified, CloseJournal, Crash,
     OperatorReconciles
<1> QED
  BY <1>1, <1>2, <1>3, <1>4, <1>5

\* The inductive invariant.
THEOREM Inductive == Spec => []IInv
<1>1. Init => IInv
  BY TypeInit DEF Init, IInv, RunInv, Fresh, Gone, Budget, Escalated, Closed, Earned, Open,
     Attempting, Settled, NoRecord, EmptyRecord, Unreserved, Ordinals, Working, Synced, Scanned, Done
<1>2. IInv /\ [Next]_vars => IInv'
  <2> SUFFICES ASSUME IInv, [Next]_vars PROVE IInv'
    OBVIOUS
  <2>1. TypeOK'
    BY TypeStep DEF IInv
  <2>2. CASE UNCHANGED vars
    <3>1. \A q \in Runs : SameRun(q) /\ (Scanned(q) => Scanned(q)')
      BY <2>2 DEF vars, SameRun, Scanned
    <3> QED
      BY <2>1, <3>1, SameRunKeeps DEF IInv
  <2>3. ASSUME NEW r \in Runs, StepOf(r) PROVE IInv'
    <3>1. \A q \in Runs : RunInv(q)'
      BY <2>3, StepKeeps, StepIsLocal, SameRunKeeps DEF IInv
    <3>2. \A q \in Runs : disk[q].state = "run_terminal" => disk'[q] = disk[q]
      BY <2>3, StepIsLocal, TerminalStays DEF IInv, SameRun
    <3>3. \A q \in Runs : Scanned(q)'
      <4>1. Scanned(r)'
        BY <2>3, <3>2, ScanKeeps DEF IInv
      <4>2. ASSUME NEW q \in Runs, q # r PROVE Scanned(q)'
        <5>1. SameRun(q) /\ Scanned(q) /\ listed[q] \subseteq Runs
          BY <2>3, <4>2, StepIsLocal DEF IInv, TypeOK
        <5> QED
          BY <3>2, <5>1 DEF SameRun, Scanned
      <4> QED
        BY <4>1, <4>2
    <3> QED
      BY <2>1, <3>1, <3>3 DEF IInv
  <2> QED
    BY <2>2, <2>3 DEF Next, StepOf
<1> QED
  BY <1>1, <1>2, PTL DEF Spec

-----------------------------------------------------------------------------
(* The properties *)

\* Nothing is sent that the directory does not count.
THEOREM WritesAhead == Spec => []WriteAhead
<1>1. IInv => WriteAhead
  BY DEF IInv, RunInv, Budget, WriteAhead
<1> QED
  BY <1>1, Inductive, PTL

\* A record that findPending ignores hides no unsettled attempt.
THEOREM TerminalRecordsAreSettled == Spec => []TerminalRecordIsSettled
<1>1. IInv => TerminalRecordIsSettled
  BY DEF IInv, RunInv, Closed, Settled, TerminalRecordIsSettled
<1> QED
  BY <1>1, Inductive, PTL

\* At most one send per attempt, and a second attempt only after a defect.
THEOREM EscalatesAtMostOnce == Spec => []EscalationIsBounded
<1>1. IInv => EscalationIsBounded
  BY DEF IInv, RunInv, Budget, Escalated, EscalationIsBounded
<1> QED
  BY <1>1, Inductive, PTL

\* What an admitted run has read stays terminal.
THEOREM AdmissionIsStable == Spec => []AdmittedOverSettledRecords
<1>1. IInv => AdmittedOverSettledRecords
  BY DEF IInv, Scanned, AdmittedOverSettledRecords
<1> QED
  BY <1>1, Inductive, PTL

\* "verified" is only ever recorded for a sent attempt whose report passed.
THEOREM VerifiedClaimsAreEarned == Spec => []VerifiedIsEarned
<1>1. IInv => VerifiedIsEarned
  BY DEF IInv, RunInv, Earned, VerifiedIsEarned
<1> QED
  BY <1>1, Inductive, PTL

\* Who holds a lock file: a run that works on its record or is about to close it, one
\* that is creating it, one that died, and one that ended with an error.
LockHeld(r) ==
  /\ r \in locks => pc[r] \in Holding \cup {"recording", "threw", "crashed"}
  /\ pc[r] \in Holding \cup {"recording"} => r \in locks

LEMMA LocksKept ==
  ASSUME TypeOK, NEW r \in Runs, StepOf(r), NEW q \in Runs, LockHeld(q)
  PROVE  LockHeld(q)'
<1>1. CASE q # r
  <2>1. (q \in locks') <=> (q \in locks)
    BY <1>1 DEF StepOf, RunStep, Finish, FinishPreSend, FinishUnknown, FinishVerified,
       FinishUnverified, ListJournal, ListingFails, ReadRecord, AdmitRun, TakeLock, CreateJournal,
       Reserve, ExecutorStopsBeforeSend, BeforeTurnStart, SendTurnStart, ExecutorReturns,
       ExecutorThrows, MarkIdentity, MarkTurnTerminal, MarkVerification, MarkPreSendFailure,
       MarkAcknowledgementUnknown, Escalate, CloseJournal, Crash, OperatorReconciles
  <2> QED
    BY <1>1, <2>1, StepIsLocal DEF LockHeld, SameRun
<1>2. CASE q = r
  <2>1. CASE CreateJournal(r)
    <3>1. /\ pc[r] = "recording" /\ pc'[r] \in {"reserving", "threw"}
          /\ pc'[r] = "reserving" => locks' = locks
          /\ locks' \subseteq locks
      BY <2>1, PersistEffect DEF CreateJournal
    <3> QED
      BY <1>2, <3>1 DEF LockHeld, Holding
  <2>8. CASE TakeLock(r)
    BY <1>2, <2>8 DEF TypeOK, TakeLock, Goto, LockHeld, Holding
  <2>2. CASE CloseJournal(r)
    BY <1>2, <2>2 DEF TypeOK, CloseJournal, Goto, LockHeld, Holding
  <2>3. CASE Crash(r)
    BY <1>2, <2>3 DEF TypeOK, Crash, Goto, LockHeld, Holding, Done
  <2>4. CASE OperatorReconciles(r)
    BY <1>2, <2>4 DEF OperatorReconciles, LockHeld
  <2>5. CASE /\ ListJournal(r) \/ ListingFails(r) \/ AdmitRun(r) \/ \E p \in Runs : ReadRecord(r, p)
    BY <1>2, <2>5 DEF TypeOK, ListJournal, ListingFails, AdmitRun, ReadRecord, Goto, LockHeld,
       Holding
  <2>6. CASE \/ ExecutorStopsBeforeSend(r) \/ SendTurnStart(r) \/ ExecutorReturns(r)
             \/ ExecutorThrows(r) \/ Escalate(r)
    BY <1>2, <2>6 DEF TypeOK, ExecutorStopsBeforeSend, SendTurnStart, ExecutorReturns,
       ExecutorThrows, Escalate, Goto, LockHeld, Holding
  <2>7. CASE \/ Reserve(r) \/ BeforeTurnStart(r) \/ MarkIdentity(r) \/ MarkTurnTerminal(r)
             \/ MarkVerification(r) \/ MarkPreSendFailure(r) \/ MarkAcknowledgementUnknown(r)
             \/ FinishPreSend(r) \/ FinishUnknown(r) \/ FinishVerified(r) \/ FinishUnverified(r)
    <3>1. pc[r] \in Holding /\ locks' = locks
      BY <2>7 DEF Reserve, BeforeTurnStart, MarkIdentity, MarkTurnTerminal, MarkVerification,
         MarkPreSendFailure, MarkAcknowledgementUnknown, FinishPreSend, FinishUnknown,
         FinishVerified, FinishUnverified, Finish, Holding
    <3>2. pc'[r] \in Holding
      BY <2>7, PersistEffect DEF Reserve, BeforeTurnStart, MarkIdentity, MarkTurnTerminal,
         MarkVerification, MarkPreSendFailure, MarkAcknowledgementUnknown, FinishPreSend,
         FinishUnknown, FinishVerified, FinishUnverified, Finish, Holding
    <3> QED
      BY <1>2, <3>1, <3>2 DEF LockHeld
  <2> QED
    BY <2>1, <2>2, <2>3, <2>4, <2>5, <2>6, <2>7, <2>8 DEF StepOf, RunStep
<1> QED
  BY <1>1, <1>2

\* Until an acknowledgement is found unknown, no record in memory waits for an operator.
Unquestioned(r) ==
  pc[r] \in Working \ {"finishUnknown"} => mem[r].state # "reconciliation_required"

LEMMA WithAttemptState ==
  ASSUME TypeOK, NEW r \in Runs, NEW s, NEW n, NEW x
  PROVE  /\ WithAttempt(r, s, n).state = mem[r].state
         /\ [WithAttempt(r, s, n) EXCEPT !.state = x].state = x
<1>1. mem[r] \in Record
  BY DEF TypeOK
<1> QED
  BY <1>1 DEF WithAttempt, Record

LEMMA UnquestionedKept ==
  ASSUME TypeOK, NEW r \in Runs, StepOf(r), NEW q \in Runs, Unquestioned(q)
  PROVE  Unquestioned(q)'
<1>1. CASE q # r
  BY <1>1, StepIsLocal DEF Unquestioned, SameRun
<1>2. CASE q = r
  <2>1. CASE CreateJournal(r)
    BY <1>2, <2>1, PersistEffect DEF CreateJournal, EmptyRecord, Unquestioned
  <2>2. CASE Reserve(r)
    <3> DEFINE o   == Current(r) + 1
               rec == [mem[r] EXCEPT !.state = "attempt_reserved", !.reserved = o,
                         !.attempts[o] = [state |-> "attempt_reserved", sends |-> 0]]
    <3>2. mem[r] \in Record
      BY DEF TypeOK
    <3>3. rec.state = "attempt_reserved"
      BY <3>2 DEF Record
    <3>4. Persist(r, rec, "executing", "throwing")
      BY <2>2 DEF Reserve
    <3> HIDE DEF rec
    <3>1. mem'[r].state = "attempt_reserved"
      BY <3>3, <3>4, PersistEffect
    <3> QED
      BY <1>2, <3>1 DEF Unquestioned
  <2>3. CASE BeforeTurnStart(r)
    <3> DEFINE rec == [WithAttempt(r, "request_sent", Sends(r) + 1) EXCEPT !.state = "request_sent"]
    <3>2. rec.state = "request_sent"
      BY WithAttemptState
    <3>3. Persist(r, rec, "claimed", "preSend")
      BY <2>3 DEF BeforeTurnStart
    <3> HIDE DEF rec
    <3>1. mem'[r].state = "request_sent"
      BY <3>2, <3>3, PersistEffect
    <3> QED
      BY <1>2, <3>1 DEF Unquestioned
  <2>4. CASE \/ MarkIdentity(r) \/ MarkTurnTerminal(r) \/ MarkVerification(r) \/ MarkPreSendFailure(r)
    <3>1. mem'[r].state = mem[r].state /\ pc[r] \in Working \ {"finishUnknown"}
      BY <2>4, PersistEffect, WithAttemptState DEF MarkIdentity, MarkTurnTerminal, MarkVerification,
         MarkPreSendFailure, Working, Synced
    <3> QED
      BY <1>2, <3>1 DEF Unquestioned
  <2>5. CASE \/ MarkAcknowledgementUnknown(r) \/ FinishPreSend(r) \/ FinishUnknown(r)
             \/ FinishVerified(r) \/ FinishUnverified(r)
    <3>1. pc'[r] \in {"finishUnknown", "returning", "throwing"}
      BY <2>5, PersistEffect DEF MarkAcknowledgementUnknown, FinishPreSend, FinishUnknown,
         FinishVerified, FinishUnverified, Finish
    <3> QED
      BY <1>2, <3>1 DEF Unquestioned, Working, Synced
  <2>6. CASE \/ ExecutorStopsBeforeSend(r) \/ SendTurnStart(r) \/ ExecutorReturns(r)
             \/ ExecutorThrows(r) \/ Escalate(r)
    <3>1. mem' = mem /\ pc[r] \in Working \ {"finishUnknown"}
      BY <2>6 DEF ExecutorStopsBeforeSend, SendTurnStart, ExecutorReturns, ExecutorThrows, Escalate,
         Working, Synced
    <3> QED
      BY <1>2, <3>1 DEF Unquestioned
  <2>7. CASE ListJournal(r) \/ ListingFails(r) \/ AdmitRun(r) \/ \E p \in Runs : ReadRecord(r, p)
    BY <1>2, <2>7 DEF TypeOK, ListJournal, ListingFails, AdmitRun, ReadRecord, Goto, Unquestioned,
       Working, Synced
  <2>8. CASE TakeLock(r) \/ CloseJournal(r) \/ Crash(r) \/ OperatorReconciles(r)
    BY <1>2, <2>8 DEF TypeOK, TakeLock, CloseJournal, Crash, OperatorReconciles, Goto, Done,
       Unquestioned, Working, Synced
  <2> QED
    BY <2>1, <2>2, <2>3, <2>4, <2>5, <2>6, <2>7, <2>8 DEF StepOf, RunStep
<1> QED
  BY <1>1, <1>2

\* A result on its way to the caller, or with him, is durably recorded.
Answered(r) ==
  pc[r] \in {"returning", "returned"} => r \in reconciled \/ disk[r].terminal # "none"

LEMMA AnsweredKept ==
  ASSUME TypeOK, NEW r \in Runs, StepOf(r), NEW q \in Runs, Answered(q)
  PROVE  Answered(q)'
<1>1. CASE q # r
  BY <1>1, StepIsLocal DEF Answered, SameRun
<1>2. CASE q = r
  <2>1. CASE FinishPreSend(r) \/ FinishUnknown(r) \/ FinishVerified(r) \/ FinishUnverified(r)
    <3>1. PICK t \in TerminalStates \ {"none"} : Finish(r, t)
      BY <2>1 DEF FinishPreSend, FinishUnknown, FinishVerified, FinishUnverified, TerminalStates
    <3>2. pc'[r] = "throwing" \/ (pc'[r] = "returning" /\ disk'[r].terminal = t)
      BY <3>1, FinishEffect
    <3> QED
      BY <1>2, <3>2 DEF Answered
  <2>2. CASE OperatorReconciles(r)
    BY <1>2, <2>2 DEF OperatorReconciles, Answered
  <2>3. CASE CloseJournal(r)
    BY <1>2, <2>3 DEF TypeOK, CloseJournal, Goto, Answered
  <2>4. CASE \/ CreateJournal(r) \/ Reserve(r) \/ BeforeTurnStart(r) \/ MarkIdentity(r)
             \/ MarkTurnTerminal(r) \/ MarkVerification(r) \/ MarkPreSendFailure(r)
             \/ MarkAcknowledgementUnknown(r)
    <3>1. pc'[r] \notin {"returning", "returned"}
      BY <2>4, PersistEffect DEF CreateJournal, Reserve, BeforeTurnStart, MarkIdentity,
         MarkTurnTerminal, MarkVerification, MarkPreSendFailure, MarkAcknowledgementUnknown
    <3> QED
      BY <1>2, <3>1 DEF Answered
  <2>5. CASE \/ ListJournal(r) \/ ListingFails(r) \/ AdmitRun(r) \/ TakeLock(r) \/ Crash(r)
             \/ \E p \in Runs : ReadRecord(r, p)
    BY <1>2, <2>5 DEF TypeOK, ListJournal, ListingFails, AdmitRun, TakeLock, Crash, ReadRecord,
       Goto, Answered
  <2>6. CASE \/ ExecutorStopsBeforeSend(r) \/ SendTurnStart(r) \/ ExecutorReturns(r)
             \/ ExecutorThrows(r) \/ Escalate(r)
    BY <1>2, <2>6 DEF TypeOK, ExecutorStopsBeforeSend, SendTurnStart, ExecutorReturns,
       ExecutorThrows, Escalate, Goto, Answered
  <2> QED
    BY <2>1, <2>2, <2>3, <2>4, <2>5, <2>6 DEF StepOf, RunStep
<1> QED
  BY <1>1, <1>2

\* A run that returns a result has given its lock file back and is durably finished; a
\* lock file at rest is that of a run that died or that ended with an error; and a run
\* that works holds its lock, and is never refused the reservation it comes to make.
THEOREM LocksAreGivenBack == Spec => []LocksAreReleased
<1> DEFINE Held == \A q \in Runs : LockHeld(q) /\ Unquestioned(q) /\ Answered(q)
<1>1. Init => Held
  BY DEF Init, LockHeld, Unquestioned, Answered, Holding, Working, Synced
<1>2. IInv /\ Held /\ [Next]_vars => Held'
  <2> SUFFICES ASSUME IInv, Held, [Next]_vars, NEW q \in Runs
               PROVE (LockHeld(q) /\ Unquestioned(q) /\ Answered(q))'
    OBVIOUS
  <2>1. CASE UNCHANGED vars
    BY <2>1 DEF vars, LockHeld, Unquestioned, Answered
  <2>2. ASSUME NEW r \in Runs, StepOf(r) PROVE (LockHeld(q) /\ Unquestioned(q) /\ Answered(q))'
    BY <2>2, LocksKept, UnquestionedKept, AnsweredKept DEF IInv
  <2> QED
    BY <2>1, <2>2 DEF Next, StepOf
<1>3. IInv /\ Held => LocksAreReleased
  <2> SUFFICES ASSUME IInv, Held PROVE LocksAreReleased
    OBVIOUS
  <2>1. ASSUME NEW r \in Runs, pc[r] = "reserving" PROVE Reservable(r)
    BY <2>1 DEF IInv, RunInv, Open, Attempting, Pending, Reservable, Unquestioned, Working, Synced
  <2>2. \A r \in Runs : pc[r] = "returned" =>
          r \notin locks /\ (r \in reconciled \/ disk[r].terminal # "none")
    BY DEF LockHeld, Answered, Holding
  <2>3. locks \subseteq Runs
    BY DEF IInv, TypeOK
  <2> QED
    BY <2>1, <2>2, <2>3 DEF LocksAreReleased, LockHeld
<1> QED
  BY <1>1, <1>2, <1>3, Inductive, PTL DEF Spec

\* A terminal record is final.
THEOREM TerminalRecordsAreFinal == Spec => TerminalIsFinal
<1>1. IInv /\ [Next]_vars =>
        [\A r \in Runs : disk[r].state = "run_terminal" =>
           disk'[r] = disk[r] /\ sent'[r] = sent[r]]_vars
  <2> SUFFICES ASSUME IInv, Next, NEW q \in Runs, disk[q].state = "run_terminal"
               PROVE  disk'[q] = disk[q] /\ sent'[q] = sent[q]
    OBVIOUS
  <2>1. PICK r \in Runs : StepOf(r)
    BY DEF Next, StepOf
  <2> QED
    BY <2>1, StepIsLocal, TerminalStays DEF IInv, SameRun
<1> QED
  BY <1>1, Inductive, PTL DEF Spec, TerminalIsFinal

-----------------------------------------------------------------------------
(***************************************************************************)
(* The attempt journal implements the send ledger: every step of the       *)
(* controller, a failed write, a crash or an operator is one step of the   *)
(* ledger or none.                                                         *)
(***************************************************************************)

\* Nothing the ledger sees of r changes.
Unseen(r) == Claims(r)' = Claims(r) /\ TotalSent(r)' = TotalSent(r) /\ Status(r)' = Status(r)

\* What the ledger sees of r makes one of its steps.
SeenClaim(r) ==
  /\ Claims(r) = TotalSent(r) /\ Claims(r) < 2
  /\ Claims(r)' = Claims(r) + 1 /\ TotalSent(r)' = TotalSent(r) /\ Status(r)' = Status(r)

SeenSend(r) ==
  /\ TotalSent(r) < Claims(r)
  /\ Claims(r)' = Claims(r) /\ TotalSent(r)' = TotalSent(r) + 1 /\ Status(r)' = Status(r)

SeenWithdraw(r) ==
  /\ TotalSent(r) < Claims(r)
  /\ Claims(r)' = Claims(r) - 1 /\ TotalSent(r)' = TotalSent(r) /\ Status(r)' = Status(r)

SeenClose(r) ==
  Claims(r)' = Claims(r) /\ TotalSent(r)' = TotalSent(r) /\ Status(r)' = "closed"

SeenForget(r) ==
  Claims(r)' = TotalSent(r) /\ TotalSent(r)' = TotalSent(r) /\ Status(r)' = "forgotten"

Seen(r) ==
  /\ Status(r) = "open"
  /\ SeenClaim(r) \/ SeenSend(r) \/ SeenWithdraw(r) \/ SeenClose(r) \/ SeenForget(r)

\* Persisting a record that claims the same sends is invisible until it closes.
LEMMA SameClaims ==
  ASSUME TypeOK, NEW r \in Runs, RunInv(r), pc[r] \in Working,
         reconciled' = reconciled, sent' = sent,
         \A o \in Ordinals : disk'[r].attempts[o].sends = disk[r].attempts[o].sends
  PROVE  Unseen(r) \/ Seen(r)
<1>1. Status(r) = "open" /\ r \notin reconciled
  BY DEF RunInv, Open, Status, Pending
<1>2. Claims(r)' = Claims(r) /\ TotalSent(r)' = TotalSent(r)
  BY <1>1 DEF Claims, TotalSent, Ordinals
<1>3. Status(r)' \in {"open", "closed"}
  BY <1>1 DEF Status
<1> QED
  BY <1>1, <1>2, <1>3 DEF Unseen, Seen, SeenClose

\* While attempt c is under way, the other attempt counts one if it came
\* before c and nothing if it comes after, on disk, in memory and as sent.
Other(c) == 3 - c

LEMMA OtherAttempt ==
  ASSUME TypeOK, NEW r \in Runs, RunInv(r), pc[r] \in Working, Current(r) \in Ordinals
  PROVE  /\ Current(r) \in {1, 2} /\ Other(Current(r)) \in Ordinals
         /\ Other(Current(r)) # Current(r)
         /\ sent[r][Other(Current(r))] = Current(r) - 1
         /\ mem[r].attempts[Other(Current(r))].sends = Current(r) - 1
         /\ disk[r].attempts[Other(Current(r))].sends = Current(r) - 1
<1>1. CASE Current(r) = 1
  BY <1>1 DEF RunInv, Open, Unreserved, Other, Ordinals
<1>2. CASE Current(r) = 2
  BY <1>2 DEF RunInv, Open, Defective, Other, Ordinals
<1> QED
  BY <1>1, <1>2 DEF Ordinals

\* The marks that follow a request keep its send in the record.
LEMMA MarkIsUnseen ==
  ASSUME TypeOK, NEW r \in Runs, RunInv(r), pc[r] \in Working, Current(r) \in Ordinals,
         reconciled' = reconciled, sent' = sent,
         Sends(r) = disk[r].attempts[Current(r)].sends,
         NEW rec, NEW ok, NEW err, Persist(r, rec, ok, err),
         rec.attempts[Current(r)].sends = Sends(r),
         \A o \in Ordinals : o # Current(r) => rec.attempts[o] = mem[r].attempts[o]
  PROVE  Unseen(r) \/ Seen(r)
<1>1. \A o \in Ordinals : disk'[r].attempts[o].sends = disk[r].attempts[o].sends
  BY PersistEffect DEF RunInv, Open
<1> QED
  BY <1>1, SameClaims

LEMMA MarksRefine ==
  ASSUME TypeOK, NEW r \in Runs, RunInv(r),
         MarkIdentity(r) \/ MarkTurnTerminal(r) \/ MarkVerification(r)
  PROVE  Unseen(r) \/ Seen(r)
<1>1. pc[r] \in Working /\ Current(r) \in Ordinals /\ reconciled' = reconciled /\ sent' = sent
  BY DEF RunInv, Open, Working, Synced, MarkIdentity, MarkTurnTerminal, MarkVerification
<1>2. Sends(r) = disk[r].attempts[Current(r)].sends
  BY DEF RunInv, Open, Sends, Working, Synced, MarkIdentity, MarkTurnTerminal, MarkVerification
<1>3. PICK state, ok, err : Persist(r, WithAttempt(r, state, Sends(r)), ok, err)
  BY DEF MarkIdentity, MarkTurnTerminal, MarkVerification
<1> DEFINE rec == WithAttempt(r, state, Sends(r))
<1>4. /\ rec.attempts[Current(r)] = [state |-> state, sends |-> Sends(r)]
      /\ \A o \in Ordinals : o # Current(r) => rec.attempts[o] = mem[r].attempts[o]
  <2>1. Current(r) \in Ordinals
    BY <1>1
  <2> QED
    BY <2>1, WithAttemptFields
<1> HIDE DEF rec
<1>5. rec.attempts[Current(r)].sends = Sends(r) /\ Persist(r, rec, ok, err)
  BY <1>3, <1>4 DEF rec
<1> QED
  BY <1>1, <1>2, <1>4, <1>5, MarkIsUnseen

LEMMA MarkAcknowledgementUnknownRefines ==
  ASSUME TypeOK, NEW r \in Runs, RunInv(r), MarkAcknowledgementUnknown(r)
  PROVE  Unseen(r) \/ Seen(r)
<1> DEFINE att == WithAttempt(r, "acknowledgement_unknown", Sends(r))
           rec == [att EXCEPT !.state = "reconciliation_required"]
<1>1. /\ pc[r] \in Working /\ Current(r) \in Ordinals /\ reconciled' = reconciled /\ sent' = sent
      /\ Sends(r) = disk[r].attempts[Current(r)].sends
  BY DEF RunInv, Open, Attempting, Working, MarkAcknowledgementUnknown
<1>2. att \in Record
  BY <1>1, SendsType, WithAttemptType DEF AttemptStates
<1>3. /\ rec.attempts[Current(r)] = [state |-> "acknowledgement_unknown", sends |-> Sends(r)]
      /\ \A o \in Ordinals : o # Current(r) => rec.attempts[o] = mem[r].attempts[o]
  <2>1. rec.attempts = att.attempts
    BY <1>2 DEF Record
  <2> HIDE DEF rec
  <2> QED
    BY <1>1, <2>1, WithAttemptFields
<1>4. Persist(r, rec, "finishUnknown", "throwing")
  BY DEF MarkAcknowledgementUnknown
<1> HIDE DEF rec
<1>5. rec.attempts[Current(r)].sends = Sends(r)
  BY <1>3
<1> QED
  BY <1>1, <1>3, <1>4, <1>5, MarkIsUnseen

LEMMA ReserveRefines ==
  ASSUME TypeOK, NEW r \in Runs, RunInv(r), Reserve(r) PROVE Unseen(r) \/ Seen(r)
<1> DEFINE o   == Current(r) + 1
           rec == [mem[r] EXCEPT !.state = "attempt_reserved", !.reserved = o,
                     !.attempts[o] = [state |-> "attempt_reserved", sends |-> 0]]
<1>1. o \in Ordinals /\ o > Current(r) /\ mem[r] \in Record
  BY DEF TypeOK, Reserve, Reservable, Current, Record, Ordinals
<1>2. /\ pc[r] \in Working /\ reconciled' = reconciled /\ sent' = sent
      /\ disk[r] = mem[r] /\ mem[r].attempts[o] = Unreserved
  BY <1>1 DEF RunInv, Open, Working, Synced, Reserve
<1>3. \A p \in Ordinals : rec.attempts[p].sends = mem[r].attempts[p].sends
  BY <1>1, <1>2 DEF Record, Unreserved
<1>4. Persist(r, rec, "executing", "throwing")
  BY DEF Reserve
<1> HIDE DEF rec
<1>5. \A p \in Ordinals : disk'[r].attempts[p].sends = disk[r].attempts[p].sends
  BY <1>2, <1>3, <1>4, PersistEffect
<1> QED
  BY <1>2, <1>5, SameClaims

LEMMA CreateJournalRefines ==
  ASSUME TypeOK, NEW r \in Runs, RunInv(r), CreateJournal(r) PROVE Unseen(r) \/ Seen(r)
<1>1. disk[r] = NoRecord /\ r \notin reconciled /\ sent' = sent /\ reconciled' = reconciled
  BY DEF RunInv, Fresh, NotStarted, CreateJournal
<1>2. disk'[r] = NoRecord \/ disk'[r] = EmptyRecord("planned")
  BY <1>1, PersistEffect DEF CreateJournal
<1> QED
  BY <1>1, <1>2 DEF Unseen, Claims, TotalSent, Status, NoRecord, EmptyRecord, Unreserved, Ordinals

\* The marking of turn/start is the claim.
LEMMA BeforeTurnStartRefines ==
  ASSUME TypeOK, NEW r \in Runs, RunInv(r), BeforeTurnStart(r) PROVE Unseen(r) \/ Seen(r)
<1> DEFINE att == WithAttempt(r, "request_sent", Sends(r) + 1)
           rec == [att EXCEPT !.state = "request_sent"]
           c   == Current(r)
<1>1. /\ c \in Ordinals /\ r \notin reconciled /\ reconciled' = reconciled /\ sent' = sent
      /\ disk[r] = mem[r] /\ Pending(disk[r]) /\ Sends(r) = 0 /\ sent[r][c] = 0
  BY DEF RunInv, Open, Attempting, Working, Synced, BeforeTurnStart
<1>2. /\ c \in {1, 2} /\ Other(c) \in Ordinals /\ Other(c) # c /\ sent[r][Other(c)] = c - 1
      /\ mem[r].attempts[Other(c)].sends = c - 1
  BY <1>1, OtherAttempt DEF Working, Synced, BeforeTurnStart
<1>3. att \in Record
  BY <1>1, SendsType, WithAttemptType DEF AttemptStates
<1>4. /\ rec.state = "request_sent"
      /\ rec.attempts[c] = [state |-> "request_sent", sends |-> Sends(r) + 1]
      /\ rec.attempts[Other(c)] = mem[r].attempts[Other(c)]
  BY <1>1, <1>2, <1>3, WithAttemptFields DEF Record
<1>5. Persist(r, rec, "claimed", "preSend")
  BY DEF BeforeTurnStart
<1> HIDE DEF rec
<1>6. disk'[r] = rec \/ disk'[r] = disk[r]
  BY <1>5, PersistEffect
<1>7. Status(r) = "open" /\ Status(r)' = "open"
  BY <1>1, <1>4, <1>6 DEF Status, Pending
<1>8. Claims(r) = c - 1 /\ TotalSent(r) = c - 1 /\ TotalSent(r)' = c - 1
  BY <1>1, <1>2 DEF Claims, TotalSent, Sends, Other
<1>9. CASE disk'[r] = disk[r]
  BY <1>1, <1>7, <1>8, <1>9 DEF Unseen, Claims
<1>10. CASE disk'[r] = rec
  <2>1. Claims(r)' = c
    BY <1>1, <1>2, <1>4, <1>10 DEF Claims, Other
  <2> QED
    BY <1>2, <1>7, <1>8, <2>1 DEF Seen, SeenClaim
<1> QED
  BY <1>6, <1>9, <1>10

\* Writing turn/start uses the claim.
LEMMA SendTurnStartRefines ==
  ASSUME TypeOK, NEW r \in Runs, RunInv(r), SendTurnStart(r) PROVE Unseen(r) \/ Seen(r)
<1> DEFINE c == Current(r)
<1>1. /\ c \in Ordinals /\ r \notin reconciled /\ reconciled' = reconciled /\ disk' = disk
      /\ disk[r] = mem[r] /\ Pending(disk[r]) /\ mem[r].attempts[c].sends = 1 /\ sent[r][c] = 0
  BY DEF RunInv, Open, Attempting, Working, Synced, Sends, SendTurnStart
<1>2. /\ c \in {1, 2} /\ Other(c) \in Ordinals /\ Other(c) # c /\ sent[r][Other(c)] = c - 1
      /\ mem[r].attempts[Other(c)].sends = c - 1
  BY <1>1, OtherAttempt DEF Working, Synced, SendTurnStart
<1>3. sent'[r][c] = 1 /\ sent'[r][Other(c)] = c - 1
  <2>1. sent'[r] = [sent[r] EXCEPT ![c] = @ + 1] /\ sent[r] \in [Ordinals -> Nat]
    BY DEF SendTurnStart, TypeOK
  <2> QED
    BY <1>1, <1>2, <2>1
<1>4. Status(r) = "open" /\ Status(r)' = "open"
  BY <1>1 DEF Status, Pending
<1>5. TotalSent(r) = c - 1
  BY <1>1, <1>2 DEF TotalSent, Other
<1>6. TotalSent(r)' = c
  BY <1>2, <1>3 DEF TotalSent, Other
<1>7. Claims(r) = c /\ Claims(r)' = c
  BY <1>1, <1>2 DEF Claims, Other
<1> QED
  BY <1>2, <1>4, <1>5, <1>6, <1>7 DEF Seen, SeenSend

\* A failure before the send takes the claim back, if it had reached the disk.
LEMMA MarkPreSendFailureRefines ==
  ASSUME TypeOK, NEW r \in Runs, RunInv(r), MarkPreSendFailure(r) PROVE Unseen(r) \/ Seen(r)
<1> DEFINE rec == WithAttempt(r, "pre_send_failed", 0)
           c   == Current(r)
           d   == disk[r].attempts[c].sends
<1>1. /\ c \in Ordinals /\ r \notin reconciled /\ reconciled' = reconciled /\ sent' = sent
      /\ Pending(disk[r]) /\ Pending(mem[r]) /\ sent[r][c] = 0
  BY DEF RunInv, Open, Attempting, Working, Synced, MarkPreSendFailure
<1>2. /\ c \in {1, 2} /\ Other(c) \in Ordinals /\ Other(c) # c /\ sent[r][Other(c)] = c - 1
      /\ mem[r].attempts[Other(c)].sends = c - 1
      /\ disk[r].attempts[Other(c)].sends = c - 1
  BY <1>1, OtherAttempt DEF Working, Synced, MarkPreSendFailure
<1>3. d \in {0, 1}
  <2>1. d \in Nat /\ d <= 1
    BY <1>1 DEF TypeOK, Record, Attempt, RunInv, Budget
  <2> QED
    BY <2>1
<1>4. /\ rec.state = mem[r].state
      /\ rec.attempts[c] = [state |-> "pre_send_failed", sends |-> 0]
      /\ rec.attempts[Other(c)] = mem[r].attempts[Other(c)]
  BY <1>1, <1>2, WithAttemptFields
<1>5. disk'[r] = rec \/ disk'[r] = disk[r]
  BY PersistEffect DEF MarkPreSendFailure
<1> HIDE DEF rec
<1>6. Status(r) = "open" /\ Status(r)' = "open"
  BY <1>1, <1>4, <1>5 DEF Status, Pending
<1>7. TotalSent(r) = c - 1 /\ TotalSent(r)' = c - 1
  BY <1>1, <1>2 DEF TotalSent, Other
<1>8. Claims(r) = c - 1 + d
  BY <1>1, <1>2, <1>3 DEF Claims, Other
<1> HIDE DEF d
<1>9. CASE disk'[r] = disk[r]
  BY <1>1, <1>6, <1>7, <1>9 DEF Unseen, Claims
<1>10. CASE disk'[r] = rec
  <2>1. Claims(r)' = c - 1
    BY <1>1, <1>2, <1>4, <1>10 DEF Claims, Other
  <2> QED
    BY <1>2, <1>3, <1>6, <1>7, <1>8, <2>1 DEF Seen, SeenWithdraw, Unseen
<1> QED
  BY <1>5, <1>9, <1>10

LEMMA FinishRefines ==
  ASSUME TypeOK, NEW r \in Runs, RunInv(r),
         FinishPreSend(r) \/ FinishUnknown(r) \/ FinishVerified(r) \/ FinishUnverified(r)
  PROVE  Unseen(r) \/ Seen(r)
<1>1. pc[r] \in Working /\ disk[r] = mem[r]
  BY DEF RunInv, Open, Working, Synced, FinishPreSend, FinishUnknown, FinishVerified, FinishUnverified
<1>2. PICK t \in TerminalStates : Finish(r, t)
  BY DEF FinishPreSend, FinishUnknown, FinishVerified, FinishUnverified, TerminalStates
<1>3. disk'[r].attempts = disk[r].attempts /\ sent' = sent /\ reconciled' = reconciled
  BY <1>1, <1>2, FinishEffect
<1> QED
  BY <1>1, <1>3, SameClaims

\* The operator forgets an open ledger.
LEMMA OperatorReconcilesRefines ==
  ASSUME TypeOK, NEW r \in Runs, RunInv(r), OperatorReconciles(r) PROVE Unseen(r) \/ Seen(r)
<1>1. r \notin reconciled /\ Status(r) = "open"
  BY DEF OperatorReconciles, RunInv, Gone, Pending, NoRecord, EmptyRecord, Status
<1>2. r \in reconciled' /\ sent' = sent
  BY DEF OperatorReconciles
<1>3. TotalSent(r)' = TotalSent(r)
  BY <1>2 DEF TotalSent
<1>4. Claims(r)' = TotalSent(r)
  BY <1>2 DEF Claims, TotalSent
<1>5. Status(r)' = "forgotten"
  BY <1>2 DEF Status
<1> QED
  BY <1>1, <1>3, <1>4, <1>5 DEF Seen, SeenForget

LEMMA OthersRefine ==
  ASSUME NEW r \in Runs, disk'[r] = disk[r], sent' = sent, reconciled' = reconciled
  PROVE  Unseen(r)
  BY DEF Unseen, Claims, TotalSent, Status

LEMMA StepRefines ==
  ASSUME TypeOK, NEW r \in Runs, RunInv(r), StepOf(r) PROVE Unseen(r) \/ Seen(r)
<1>1. CASE \/ ListJournal(r) \/ ListingFails(r) \/ AdmitRun(r) \/ TakeLock(r)
           \/ ExecutorStopsBeforeSend(r) \/ ExecutorReturns(r)
           \/ ExecutorThrows(r) \/ Escalate(r) \/ CloseJournal(r) \/ Crash(r)
           \/ \E q \in Runs : ReadRecord(r, q)
  BY <1>1, OthersRefine DEF ListJournal, ListingFails, ReadRecord, AdmitRun, TakeLock, ExecutorStopsBeforeSend,
     ExecutorReturns, ExecutorThrows, Escalate, CloseJournal, Crash
<1> QED
  BY <1>1, CreateJournalRefines, ReserveRefines, BeforeTurnStartRefines, SendTurnStartRefines,
     MarksRefine, MarkPreSendFailureRefines, MarkAcknowledgementUnknownRefines, FinishRefines,
     OperatorReconcilesRefines
     DEF StepOf, RunStep

LEMMA SameRunRefines ==
  ASSUME NEW q \in Runs, SameRun(q) PROVE Unseen(q)
  BY DEF SameRun, Unseen, Claims, TotalSent, Status

-----------------------------------------------------------------------------
(* From one run to all of them *)

LEMMA InitRefines == Init => Ledger!Init
<1> SUFFICES ASSUME Init, NEW r \in Runs
             PROVE  Claims(r) = 0 /\ TotalSent(r) = 0 /\ Status(r) = "open"
  BY Zenon DEF Ledger!Init
<1> QED
  BY DEF Init, Claims, TotalSent, Status, NoRecord, EmptyRecord, Unreserved, Ordinals

LEMMA LedgerStep ==
  ASSUME NEW r \in Runs, Seen(r), \A q \in Runs : q # r => Unseen(q)
  PROVE  Ledger!Next
<1> DEFINE claims == [q \in Runs |-> Claims(q)]
           sends  == [q \in Runs |-> TotalSent(q)]
           status == [q \in Runs |-> Status(q)]
<1>1. CASE SeenClaim(r)
  <2>1. claims' = [claims EXCEPT ![r] = Claims(r) + 1]
    BY <1>1 DEF SeenClaim, Unseen
  <2>2. sends' = sends
    BY <1>1 DEF SeenClaim, Unseen
  <2>3. status' = status
    BY <1>1 DEF SeenClaim, Seen, Unseen
  <2>4. claims[r] = Claims(r) /\ sends[r] = TotalSent(r) /\ status[r] = "open"
    BY DEF Seen
  <2> HIDE DEF claims, sends, status
  <2>5. Ledger!Claim(r)
    BY <1>1, <2>1, <2>2, <2>3, <2>4 DEF SeenClaim, claims, sends, status, Ledger!Claim, Ledger!MaximumAttempts
  <2> QED
    BY <2>5 DEF Ledger!Next
<1>2. CASE SeenSend(r)
  <2>1. claims' = claims
    BY <1>2 DEF SeenSend, Unseen
  <2>2. sends' = [sends EXCEPT ![r] = TotalSent(r) + 1]
    BY <1>2 DEF SeenSend, Unseen
  <2>3. status' = status
    BY <1>2 DEF SeenSend, Seen, Unseen
  <2>4. claims[r] = Claims(r) /\ sends[r] = TotalSent(r) /\ status[r] = "open"
    BY DEF Seen
  <2> HIDE DEF claims, sends, status
  <2>5. Ledger!Send(r)
    BY <1>2, <2>1, <2>2, <2>3, <2>4 DEF SeenSend, claims, sends, status, Ledger!Send, Ledger!MaximumAttempts
  <2> QED
    BY <2>5 DEF Ledger!Next
<1>3. CASE SeenWithdraw(r)
  <2>1. claims' = [claims EXCEPT ![r] = Claims(r) - 1]
    BY <1>3 DEF SeenWithdraw, Unseen
  <2>2. sends' = sends
    BY <1>3 DEF SeenWithdraw, Unseen
  <2>3. status' = status
    BY <1>3 DEF SeenWithdraw, Seen, Unseen
  <2>4. claims[r] = Claims(r) /\ sends[r] = TotalSent(r) /\ status[r] = "open"
    BY DEF Seen
  <2> HIDE DEF claims, sends, status
  <2>5. Ledger!Withdraw(r)
    BY <1>3, <2>1, <2>2, <2>3, <2>4 DEF SeenWithdraw, claims, sends, status, Ledger!Withdraw, Ledger!MaximumAttempts
  <2> QED
    BY <2>5 DEF Ledger!Next
<1>4. CASE SeenClose(r)
  <2>1. claims' = claims
    BY <1>4 DEF SeenClose, Unseen
  <2>2. sends' = sends
    BY <1>4 DEF SeenClose, Unseen
  <2>3. status' = [status EXCEPT ![r] = "closed"]
    BY <1>4 DEF SeenClose, Seen, Unseen
  <2>4. claims[r] = Claims(r) /\ sends[r] = TotalSent(r) /\ status[r] = "open"
    BY DEF Seen
  <2> HIDE DEF claims, sends, status
  <2>5. Ledger!Close(r)
    BY <1>4, <2>1, <2>2, <2>3, <2>4 DEF SeenClose, claims, sends, status, Ledger!Close, Ledger!MaximumAttempts
  <2> QED
    BY <2>5 DEF Ledger!Next
<1>5. CASE SeenForget(r)
  <2>1. claims' = [claims EXCEPT ![r] = TotalSent(r)]
    BY <1>5 DEF SeenForget, Unseen
  <2>2. sends' = sends
    BY <1>5 DEF SeenForget, Unseen
  <2>3. status' = [status EXCEPT ![r] = "forgotten"]
    BY <1>5 DEF SeenForget, Seen, Unseen
  <2>4. claims[r] = Claims(r) /\ sends[r] = TotalSent(r) /\ status[r] = "open"
    BY DEF Seen
  <2> HIDE DEF claims, sends, status
  <2>5. Ledger!Forget(r)
    BY <1>5, <2>1, <2>2, <2>3, <2>4 DEF SeenForget, claims, sends, status, Ledger!Forget, Ledger!MaximumAttempts
  <2> QED
    BY <2>5 DEF Ledger!Next
<1> QED
  BY <1>1, <1>2, <1>3, <1>4, <1>5 DEF Seen

\* The journal implements the ledger.
THEOREM JournalImplementsLedger == Spec => ImplementsLedger
<1>1. IInv /\ [Next]_vars => [Ledger!Next]_Ledger!ledger
  <2> SUFFICES ASSUME IInv, [Next]_vars PROVE [Ledger!Next]_Ledger!ledger
    OBVIOUS
  <2>1. ASSUME \A q \in Runs : Unseen(q) PROVE UNCHANGED Ledger!ledger
    BY <2>1 DEF Unseen, Ledger!ledger
  <2>2. CASE UNCHANGED vars
    <3>1. \A q \in Runs : SameRun(q)
      BY <2>2 DEF vars, SameRun
    <3> QED
      BY <2>1, <3>1, SameRunRefines
  <2>3. ASSUME NEW r \in Runs, StepOf(r) PROVE [Ledger!Next]_Ledger!ledger
    <3>1. \A q \in Runs : q # r => Unseen(q)
      BY <2>3, StepIsLocal, SameRunRefines DEF IInv
    <3>2. Unseen(r) \/ Seen(r)
      BY <2>3, StepRefines DEF IInv
    <3> QED
      BY <2>1, <3>1, <3>2, LedgerStep
  <2> QED
    BY <2>2, <2>3 DEF Next, StepOf
<1> QED
  BY <1>1, InitRefines, Inductive, PTL DEF Spec, ImplementsLedger, Ledger!Spec
=============================================================================
