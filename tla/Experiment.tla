------------------------------ MODULE Experiment ------------------------------
(***************************************************************************)
(* The commands of src/scripts/experiment-2x2.mjs that share one trial     *)
(* ledger: run-codex (runCodexAssignment) and import (commandImport).      *)
(* Each is a process of its own; they meet in the lock file, the ledger    *)
(* trials.jsonl, the write-once attempt.json of each assignment and the    *)
(* artifact files whose hashes the ledger holds.                           *)
(*                                                                         *)
(* A process may die at any step, and its next incarnation has another     *)
(* pid; one that ends with an error is over with that error.  A model turn *)
(* ends in one of the runs of its environment; a sealed Work bundle is one *)
(* of Bundles.  The workspace is private to a process and left out but for *)
(* the one kept for recovery, and for its removal, which may fail.         *)
(***************************************************************************)
EXTENDS TrialChecks, Sequences, SequencesExt

CONSTANTS
  Procs,         \* commands that may be running at once
  Environments,  \* what the evidence collected before a turn may say, and how it may end
  Bundles,       \* what a sealed Work bundle may hold
  Logs,          \* outputs a verifier may print for the same workspace
  LockAttempts,  \* the three turns of the loop of acquireTrialLock
  MaxTrouble,    \* bound: deaths of a process and failing file operations
  None

Evidence == [catalog : Catalogs, quota : Quotas]

(* What the output of a turn, and then the verifiers, may say. *)
Runs ==
  [exit : {"ok", "failed", "overflow", "unspawned"}, visible : BOOLEAN, hidden : BOOLEAN,
   rerouted : BOOLEAN, route : {"verified", Unavailable}, problems : SUBSET RouteProblems,
   mutates : BOOLEAN, movedHead : BOOLEAN, cost : Nat \cup {NoCost}]

Dead == "dead"   \* the pid of a process that is gone

ASSUME CommandAssumption ==
  /\ IsFiniteSet(Procs) /\ None \notin Procs /\ Dead \notin Procs /\ None # Dead
  /\ Environments \subseteq [snapshots : SUBSET Evidence, runs : SUBSET Runs]
  /\ Bundles \subseteq [visible : BOOLEAN, hidden : BOOLEAN, result : BOOLEAN,
                        declared : SUBSET Codes]
  /\ LockAttempts \in Nat \ {0} /\ MaxTrouble \in Nat

NoLock == [by |-> None, written |-> FALSE]

VARIABLES
  lock,     \* the file trials.jsonl.lock
  ledger,   \* the trials of trials.jsonl, in order
  tail,     \* how it ends: after a whole line, before its newline, or unreadable
  marker,   \* assignments with an attempt.json
  disk,     \* artifacts of each assignment: captured evidence and logs
  pc, job, tries,
  held,     \* evidence a process has in memory
  turns,    \* model turns each assignment has been given
  truth,    \* how the turn of each assignment ended
  sealed,   \* the Work bundle of each assignment
  env,      \* the environment the study is run in
  kept,     \* assignments whose workspace is kept for recovery
  crashes, faults,
  shared,   \* history: two processes have held the lock at once
  left,     \* history: a process was over and its lock file still there
  rejected  \* history: whose line is in the ledger although its append failed

files == <<lock, ledger, tail, marker, disk, kept>>
world == <<turns, truth, sealed, env>>
bounds == <<crashes, faults, shared, left, rejected>>
vars == <<files, pc, job, tries, held, world, bounds>>

Trials == Range(ledger)

CodexAssignments == {a \in Assignments : IsCodex(a)}

Holding == {"check", "prepare", "mark", "turn", "turning", "verify", "append", "retain",
            "retainAppend", "release", "unlink"}

Holds(p) == pc[p] \in Holding

Recorded(a) == \E t \in Trials : t.id = a

TypeOK ==
  /\ lock \in [by : Procs \cup {Dead, None}, written : BOOLEAN]
  /\ tail \in {"whole", "unended", "torn"} /\ shared \in BOOLEAN /\ left \in BOOLEAN
  /\ marker \subseteq CodexAssignments /\ kept \subseteq CodexAssignments
  /\ rejected \subseteq Assignments
  /\ \A t \in Trials : t.id \in Assignments /\ ValidTrialRecord(t)
  /\ pc \in [Procs -> {"idle", "derive", "open", "write", "inspect", "rename"} \cup Holding]
  /\ \A p \in Procs : pc[p] # "idle" => job[p] \in Assignments
  /\ tries \in [Procs -> 0..(LockAttempts - 1)]
  /\ turns \in [Assignments -> Nat]
  /\ crashes + faults \in 0..MaxTrouble

Init ==
  /\ lock = NoLock /\ ledger = <<>> /\ tail = "whole" /\ marker = {} /\ kept = {}
  /\ disk = [a \in Assignments |-> [evidence |-> None, logs |-> None]]
  /\ pc = [p \in Procs |-> "idle"] /\ job = [p \in Procs |-> None]
  /\ tries = [p \in Procs |-> 0] /\ held = [p \in Procs |-> None]
  /\ turns = [a \in Assignments |-> 0] /\ truth = [a \in Assignments |-> None]
  /\ sealed \in [Assignments \ CodexAssignments -> Bundles]
  /\ env \in Environments
  /\ crashes = 0 /\ faults = 0 /\ shared = FALSE /\ left = FALSE /\ rejected = {}

Goto(p, l) == pc' = [pc EXCEPT ![p] = l]

At(p, l) == pc[p] = l

MoreTrouble == crashes + faults < MaxTrouble

(* The process is over: what it had in memory is gone. *)
Exit(p) ==
  /\ Goto(p, "idle")
  /\ job' = [job EXCEPT ![p] = None]
  /\ tries' = [tries EXCEPT ![p] = 0]
  /\ held' = [held EXCEPT ![p] = None]

(* ... and its lock file, if it has one, is still there and names a dead pid. *)
LeaveLock(p) ==
  /\ lock' = IF lock.by = p THEN [lock EXCEPT !.by = Dead] ELSE lock
  /\ left' = (left \/ lock.by = p)

-----------------------------------------------------------------------------
(* Starting a command. *)
RunCodex(p, a) ==
  /\ At(p, "idle") /\ IsCodex(a)
  /\ Goto(p, "open")
  /\ job' = [job EXCEPT ![p] = a]
  /\ UNCHANGED <<files, tries, held, world, bounds>>

Import(p, a) ==
  /\ At(p, "idle") /\ ~IsCodex(a)
  /\ Goto(p, "derive")
  /\ job' = [job EXCEPT ![p] = a]
  /\ UNCHANGED <<files, tries, held, world, bounds>>

(* deriveWorkTrialFromBundle: the verifiers run again and their logs are written below
   import-derived, before any lock is taken. *)
Derive(p) ==
  /\ At(p, "derive")
  /\ \E log \in Logs :
       /\ disk' = [disk EXCEPT ![job[p]].logs = log]
       /\ held' = [held EXCEPT ![p] = log]
  /\ Goto(p, "open")
  /\ UNCHANGED <<lock, ledger, tail, marker, kept, job, tries, world, bounds>>

-----------------------------------------------------------------------------
(* acquireTrialLock: create the file exclusively, then write who holds it. *)
OpenLock(p) ==
  /\ At(p, "open")
  /\ IF lock = NoLock
       THEN lock' = [by |-> p, written |-> FALSE] /\ Goto(p, "write")
       ELSE UNCHANGED lock /\ Goto(p, "inspect")
  /\ UNCHANGED <<ledger, tail, marker, disk, kept, job, tries, held, world, bounds>>

FirstStep(a) == IF IsCodex(a) THEN "check" ELSE "append"

WriteLock(p) ==
  /\ At(p, "write")
  /\ lock' = IF lock.by = p THEN [lock EXCEPT !.written = TRUE] ELSE lock
  /\ Goto(p, FirstStep(job[p]))
  /\ shared' = (shared \/ \E q \in Procs \ {p} : Holds(q))
  /\ UNCHANGED <<ledger, tail, marker, disk, kept, job, tries, held, world, crashes, faults,
                 left, rejected>>

(* The write fails: the file is removed by its name, which may fail too. *)
WriteLockFails(p) ==
  /\ At(p, "write") /\ MoreTrouble
  /\ faults' = faults + 1
  /\ (lock' = NoLock /\ UNCHANGED left) \/ LeaveLock(p)
  /\ Exit(p)
  /\ UNCHANGED <<ledger, tail, marker, disk, kept, world, crashes, shared, rejected>>

RetryLock(p) ==
  IF tries[p] + 1 < LockAttempts
    THEN /\ Goto(p, "open")
         /\ tries' = [tries EXCEPT ![p] = @ + 1]
         /\ UNCHANGED <<job, held>>
    ELSE Exit(p)

(* A file whose writer has not written its pid yet is taken for stale. *)
InspectImpatiently(p) ==
  /\ At(p, "inspect")
  /\ \/ lock = NoLock /\ RetryLock(p)
     \/ (lock.by = Dead \/ ~lock.written) /\ Goto(p, "rename")
        /\ UNCHANGED <<job, tries, held>>
     \/ lock.by \in Procs /\ lock.written /\ Exit(p)
  /\ UNCHANGED <<files, world, bounds>>

(* reclaimStaleTrialLock up to its decision.  A file nobody has written to is stale once
   it is hours old, which only the file of a dead process gets. *)
InspectLock(p) ==
  /\ At(p, "inspect")
  /\ \/ lock = NoLock /\ RetryLock(p)
     \/ lock.by = Dead /\ Goto(p, "rename") /\ UNCHANGED <<job, tries, held>>
     \/ (lock.by \in Procs \/ (lock.by = Dead /\ ~lock.written)) /\ Exit(p)
  /\ UNCHANGED <<files, world, bounds>>

(* ... and the rename, of whatever file has the name by then. *)
RenameLock(p) ==
  /\ At(p, "rename")
  /\ lock' = NoLock
  /\ RetryLock(p)
  /\ UNCHANGED <<ledger, tail, marker, disk, kept, world, bounds>>

(* Removes the file whoever it names. *)
ReleaseUnread(p) ==
  /\ At(p, "release") /\ Goto(p, "unlink")
  /\ UNCHANGED <<files, job, tries, held, world, bounds>>

(* The release closure removes the file only when it reads its own identity in it. *)
ReadBeforeRelease(p) ==
  /\ At(p, "release")
  /\ IF lock = [by |-> p, written |-> TRUE]
       THEN Goto(p, "unlink") /\ UNCHANGED <<job, tries, held>>
       ELSE Exit(p)
  /\ UNCHANGED <<files, world, bounds>>

Unlink(p) ==
  /\ At(p, "unlink")
  /\ lock' = NoLock
  /\ Exit(p)
  /\ UNCHANGED <<ledger, tail, marker, disk, kept, world, bounds>>

(* The finally block removes the workspace before it releases the lock: when that fails
   the release is skipped; closing the file, reading it and removing it may fail as well. *)
ReleaseFails(p) ==
  /\ pc[p] \in {"release", "unlink"} /\ MoreTrouble
  /\ faults' = faults + 1
  /\ LeaveLock(p)
  /\ Exit(p)
  /\ UNCHANGED <<ledger, tail, marker, disk, kept, world, crashes, shared, rejected>>

-----------------------------------------------------------------------------
(* validateRecordedTrials and validateTrialArtifactFiles, for every recorded trial. *)
ArtifactsMatch(t) == disk[t.id] = t.artifacts

NoDuplicates == \A i, j \in DOMAIN ledger : ledger[i].id = ledger[j].id => i = j

LedgerValid == tail # "torn" /\ NoDuplicates /\ \A t \in Trials : ArtifactsMatch(t)

CheckLedger(p) ==
  LET a == job[p]
  IN  /\ At(p, "check")
      /\ IF LedgerValid /\ AssignmentReady(Trials, a) /\ a \notin marker
           THEN Goto(p, "prepare") ELSE Goto(p, "release")
      /\ UNCHANGED <<files, job, tries, held, world, bounds>>

(* Fresh fixture, baseline commit and collectRuntimeEvidence, which writes the catalog
   and quota snapshots.  Any of it may throw, and then nothing has been spent. *)
Prepare(p) ==
  /\ At(p, "prepare")
  /\ \/ \E s \in env.snapshots :
          /\ disk' = [disk EXCEPT ![job[p]].evidence = s]
          /\ held' = [held EXCEPT ![p] = s]
          /\ Goto(p, "mark")
     \/ Goto(p, "release") /\ UNCHANGED <<disk, held>>
  /\ UNCHANGED <<lock, ledger, tail, marker, kept, job, tries, world, bounds>>

(* attempt.json opened for writing, not exclusively. *)
OverwriteAttemptMarker(p) ==
  /\ At(p, "mark")
  /\ Goto(p, "turn") /\ marker' = marker \cup {job[p]}
  /\ UNCHANGED <<lock, ledger, tail, disk, kept, job, tries, held, world, bounds>>

(* writeAttemptMarker opens attempt.json exclusively. *)
WriteAttemptMarker(p) ==
  /\ At(p, "mark")
  /\ IF job[p] \in marker
       THEN Goto(p, "release") /\ UNCHANGED marker
       ELSE Goto(p, "turn") /\ marker' = marker \cup {job[p]}
  /\ UNCHANGED <<lock, ledger, tail, disk, kept, job, tries, held, world, bounds>>

StartTurn(p) ==
  /\ At(p, "turn")
  /\ turns' = [turns EXCEPT ![job[p]] = @ + 1]
  /\ Goto(p, "turning")
  /\ UNCHANGED <<files, job, tries, held, truth, sealed, env, bounds>>

EndTurn(p) ==
  /\ At(p, "turning")
  /\ \E run \in env.runs : truth' = [truth EXCEPT ![job[p]] = run]
  /\ Goto(p, "verify")
  /\ UNCHANGED <<files, job, tries, held, turns, sealed, env, bounds>>

(* The arm must not have moved HEAD and the verifiers must leave the workspace as it
   was; then the patch is captured and the logs are written. *)
Verify(p) ==
  LET a == job[p]
  IN  /\ At(p, "verify")
      /\ IF truth[a].movedHead \/ truth[a].mutates
           THEN Goto(p, "retain") /\ UNCHANGED disk
           ELSE disk' = [disk EXCEPT ![a].logs = "verified"] /\ Goto(p, "append")
      /\ UNCHANGED <<lock, ledger, tail, marker, kept, job, tries, held, world, bounds>>

PostRunFault(p) ==
  /\ pc[p] \in {"verify", "append"} /\ IsCodex(job[p]) /\ MoreTrouble
  /\ faults' = faults + 1
  /\ Goto(p, "retain")
  /\ UNCHANGED <<files, job, tries, held, world, crashes, shared, left, rejected>>

-----------------------------------------------------------------------------
(* The trial a process builds: the verified one, the failure retainPostRunFailure
   builds, or the one derived from a Work bundle. *)
CodexTrial(a, evidence, failed) ==
  LET run == truth[a]
      completed == run.exit = "ok"
      visible == ~failed /\ run.visible
      hidden == ~failed /\ run.hidden
      treatment == TreatmentCodes(a, run)
  IN  [id |-> a, completed |-> completed, visible |-> visible, hidden |-> hidden,
       verified |-> completed /\ visible /\ hidden,
       bad |-> completed /\ visible /\ ~hidden,
       compliance |-> IF treatment = {} THEN "compliant" ELSE "noncompliant",
       contamination |-> treatment \cup (IF failed \/ run.exit = "overflow"
                                           THEN {"other"} ELSE {}),
       catalog |-> evidence.catalog, quota |-> evidence.quota,
       route |-> RouteStatus(a, run), problems |-> run.problems,
       rerouted |-> run.rerouted, cost |-> run.cost,
       artifacts |-> [evidence |-> evidence, logs |-> IF failed THEN "failure" ELSE "verified"]]

WorkTrial(a, log) ==
  LET bundle == sealed[a]
      compliance == IF IsOn(a) THEN IF bundle.result THEN "compliant" ELSE "noncompliant"
                    ELSE IF bundle.result THEN "noncompliant" ELSE "unknown"
  IN  [id |-> a, completed |-> TRUE, visible |-> bundle.visible, hidden |-> bundle.hidden,
       verified |-> bundle.visible /\ bundle.hidden,
       bad |-> bundle.visible /\ ~bundle.hidden,
       compliance |-> compliance,
       contamination |-> bundle.declared \cup (IF compliance = "noncompliant"
                                                 THEN {"treatment-noncompliance"} ELSE {}),
       catalog |-> Unavailable, quota |-> 0, route |-> Unavailable, problems |-> {},
       rerouted |-> FALSE, cost |-> NoCost,
       artifacts |-> [evidence |-> None, logs |-> log]]

(* The order is trusted to have been checked when the command began. *)
AppendableUnordered(t) ==
  /\ LedgerValid
  /\ ValidTrialRecord(t) /\ ArtifactsMatch(t)
  /\ CrossArmRuntimeParity(Trials \cup {t})

(* appendTrial: everything is validated again, with the candidate, then one line added. *)
Appendable(t) ==
  /\ LedgerValid
  /\ ValidTrialRecord(t) /\ ArtifactsMatch(t)
  /\ CrossArmRuntimeParity(Trials \cup {t})
  /\ AssignmentReady(Trials, t.id)

AsRecorded(t) ==
  CHOOSE c \in AutomaticallyChecked(Trials \cup {t}) : c.id = t.id

Candidate(p) ==
  IF ~IsCodex(job[p]) THEN WorkTrial(job[p], held[p])
  ELSE CodexTrial(job[p], held[p], At(p, "retainAppend"))

(* A failed retention does not keep the workspace. *)
AfterRefusalNothingKept(p) ==
  /\ Goto(p, IF At(p, "append") /\ IsCodex(job[p]) THEN "retain" ELSE "release")
  /\ UNCHANGED kept

(* What follows a trial that could not be recorded: a Codex run is retained as a failure,
   or its workspace kept when that was the failure; an import just ends. *)
AfterRefusal(p) ==
  IF At(p, "append") /\ IsCodex(job[p]) THEN Goto(p, "retain") /\ UNCHANGED kept
  ELSE /\ Goto(p, "release")
       /\ kept' = IF At(p, "retainAppend") THEN kept \cup {job[p]} ELSE kept

(* One line more, which runs into the last one where that has no newline. *)
AddLine(t) ==
  /\ ledger' = Append(ledger, AsRecorded(t))
  /\ tail' = IF tail = "whole" THEN "whole" ELSE "torn"

AppendTrial(p) ==
  /\ pc[p] \in {"append", "retainAppend"}
  /\ IF Appendable(Candidate(p))
       THEN AddLine(Candidate(p)) /\ Goto(p, "release") /\ UNCHANGED kept
       ELSE AfterRefusal(p) /\ UNCHANGED <<ledger, tail>>
  /\ UNCHANGED <<lock, marker, disk, job, tries, held, world, bounds>>

(* The append itself fails, with nothing written, a part of the line, all of it but the
   newline, or all of it. *)
AppendFails(p) ==
  /\ pc[p] \in {"append", "retainAppend"} /\ MoreTrouble
  /\ Appendable(Candidate(p))
  /\ faults' = faults + 1
  /\ \/ tail' \in {tail, "torn"} /\ UNCHANGED <<ledger, rejected>>
     \/ /\ ledger' = Append(ledger, AsRecorded(Candidate(p)))
        /\ tail' \in IF tail = "whole" THEN {"whole", "unended"} ELSE {"torn"}
        /\ rejected' = rejected \cup {job[p]}
  /\ AfterRefusal(p)
  /\ UNCHANGED <<lock, marker, disk, job, tries, held, world, crashes, shared, left>>

RetainPostRunFailure(p) ==
  /\ At(p, "retain")
  /\ disk' = [disk EXCEPT ![job[p]].logs = "failure"]
  /\ Goto(p, "retainAppend")
  /\ UNCHANGED <<lock, ledger, tail, marker, kept, job, tries, held, world, bounds>>

(* The retention fails while it writes its files: the workspace is kept. *)
RetentionFails(p) ==
  /\ At(p, "retain") /\ MoreTrouble
  /\ faults' = faults + 1
  /\ disk' \in {disk, [disk EXCEPT ![job[p]].logs = "failure"]}
  /\ kept' = kept \cup {job[p]}
  /\ Goto(p, "release")
  /\ UNCHANGED <<lock, ledger, tail, marker, job, tries, held, world, crashes, shared, left,
                 rejected>>

-----------------------------------------------------------------------------
(* The process dies. *)
Crash(p) ==
  /\ ~At(p, "idle") /\ MoreTrouble
  /\ crashes' = crashes + 1
  /\ LeaveLock(p)
  /\ Exit(p)
  /\ UNCHANGED <<ledger, tail, marker, disk, kept, world, faults, shared, rejected>>

Step(p) ==
  \/ Derive(p) \/ OpenLock(p) \/ WriteLock(p) \/ InspectLock(p) \/ RenameLock(p)
  \/ ReadBeforeRelease(p) \/ Unlink(p)
  \/ CheckLedger(p) \/ Prepare(p) \/ WriteAttemptMarker(p) \/ StartTurn(p) \/ EndTurn(p)
  \/ Verify(p) \/ AppendTrial(p) \/ RetainPostRunFailure(p)

Fault(p) ==
  \/ WriteLockFails(p) \/ ReleaseFails(p) \/ PostRunFault(p) \/ AppendFails(p)
  \/ RetentionFails(p) \/ Crash(p)

Next ==
  \E p \in Procs :
    \/ \E a \in Assignments : RunCodex(p, a) \/ Import(p, a)
    \/ Step(p) \/ Fault(p)

Spec == Init /\ [][Next]_vars

-----------------------------------------------------------------------------
(* No assignment is ever given a second model turn, whatever crashes and however the
   lock is reclaimed: the preregistered no-rerun rule of attempt.json. *)
OneTurnPerAssignment == \A a \in Assignments : turns[a] <= 1

(* Every trial was recorded after those of all earlier orders of its block, and a Codex
   assignment at most once, even when two processes hold the lock. *)
PreregisteredOrder ==
  \A i \in DOMAIN ledger :
    LET a == ledger[i].id
        before == {ledger[j].id : j \in 1..(i - 1)}
    IN  EarlierInBlock(a) \subseteq before /\ (IsCodex(a) => a \notin before)

(* No model turn is lost and none is misreported.  While no process has died, each one
   that was taken is in hand, recorded, or has its workspace kept for recovery, and is
   one of the other two even with its line in the ledger if the append of it failed.  It is
   recorded as a success only when it completed, was based on the fixture and passed
   both verifiers untouched, and as a bad escape only when the oracle failed it.  One
   that passed and is not recorded as a success failed after the run, and its
   contamination says so.  The files a record hashed stay, unless two processes held the
   lock at once or the append of that very line was reported as failed: then the
   retention of the failure writes over them. *)
TurnsAreOnRecord ==
  /\ crashes = 0 =>
       \A a \in CodexAssignments : turns[a] > 0 =>
         \/ Recorded(a) /\ a \notin rejected
         \/ a \in kept
         \/ \E p \in Procs : job[p] = a /\ Holds(p)
  /\ \A t \in Trials : IsCodex(t.id) =>
       LET run == truth[t.id]
           sound == run.exit = "ok" /\ ~run.movedHead /\ ~run.mutates
       IN  /\ t.verified => sound /\ run.visible /\ run.hidden
           /\ t.bad => sound /\ run.visible /\ ~run.hidden
           /\ sound /\ run.visible /\ run.hidden => t.verified \/ "other" \in t.contamination
           /\ ~shared => ArtifactsMatch(t) \/ t.id \in rejected

(* A saving is only claimed of arms whose own output shows no reroute, no faulty route
   and, where the protocol requires it, success in both, and whose quotas stayed within
   the tolerance. *)
ClaimIsClean ==
  \A surface \in Surfaces :
    (CompleteTrials(Trials) /\ LedgerValid /\ ClaimEligible(Trials, surface)) =>
      /\ surface = "codex"
      /\ \A a \in CodexAssignments :
           /\ ~truth[a].rerouted
           /\ RequireBothVerified => truth[a].exit = "ok" /\ truth[a].hidden
           /\ IsOn(a) => truth[a].route = "verified" /\ truth[a].problems = {}
      /\ \A pair \in Pairs(Trials) : ~QuotaDrifts(pair[1], pair[2])

(* The lock is exclusive as long as no process was over with its lock file still there,
   because it died, or because the clean-up of its workspace, the write of the file or
   its removal failed; and no process is over with a file in its name in any other way. *)
LockIsSound ==
  /\ TypeOK
  /\ shared => left
  /\ lock.by = Dead => left
  /\ lock.by \in Procs => ~At(lock.by, "idle")

(* Every recorded trial's artifacts still have the recorded hashes: what
   validateTrialArtifactFiles asserts of the ledger before every command. *)
RecordedArtifactsStand == \A t \in Trials : ArtifactsMatch(t)
=============================================================================
