------------------------ MODULE PatchTransactionProofs ------------------------
(***************************************************************************)
(* Proofs about PatchTransaction for any edits, any bound on them and any  *)
(* number of faults.  The invariants are relations between where the run   *)
(* is, what its artifact files say and what the checkout holds; each part  *)
(* below adds what the next one needs.                                     *)
(***************************************************************************)
EXTENDS PatchTransaction, TLAPS

Verifying == {"managed", "snapshot", "baseline", "verify", "inspect", "commit"}
Rolling   == {"reverse", "check1", "reapply", "native", "check2"}
Late      == {"caller", "manager", "apply", "compare", "repair"} \cup Verifying \cup Rolling
Ended     == {"cleanup", "done", "dead"}

\* Where the run is: only the end has an outcome, only the way back a reason.
Course ==
  /\ pc \notin Ended => outcome = "running" /\ ~forced
  /\ pc \notin Ended \cup Rolling \cup {"repair"} => undoes = "nothing"
  /\ pc \in Rolling => undoes # "nothing"
  /\ pc = "repair" => undoes = "artifact" /\ runner = "twin"
  /\ pc \notin Ended \cup {"preliminary", "commit", "repair"} => next = 1
  /\ runner = "single" => next = 1
  /\ pc \in Late => ~succeeded

\* What the checkout holds on the way to the verified patch.
Holding ==
  /\ pc \in {"state", "preliminary", "caller", "manager", "apply"} =>
       checkout.patch = "none" /\ checkout.exact
  /\ pc \in Verifying => checkout.patch = "applied" /\ checkout.exact
  /\ pc \in {"state", "preliminary", "caller", "manager", "apply", "compare", "managed",
             "snapshot", "baseline", "verify"} => checkout.taint = {}
  /\ pc = "repair" => checkout.patch = "none" /\ checkout.exact /\ "files" \notin checkout.taint

\* Both hashes were taken of a checkout without the patch.
Hashes ==
  /\ callerHash.patch = "none" /\ callerHash.exact /\ callerHash.taint = {}
  /\ managerHash.patch = "none" /\ managerHash.exact /\ managerHash.taint = {}

\* The source holds what it held when it was compared with the candidate, at every
\* look at it from then on, unless others have touched it.
Undisturbed ==
  ~disturbed =>
    /\ pc \in {"managed", "snapshot", "baseline", "verify", "inspect"} => Source(checkout.edits) = {}
    /\ pc \in {"inspect", "commit"} => Source(seen.edits) = {} /\ seen.taint = {}
    /\ pc = "commit" => Source(accepted.edits) = {}

\* What the verifier saw, from the snapshot before it to the record after it.
Window ==
  /\ Undisturbed
  /\ pc \in {"snapshot", "baseline", "verify", "inspect"} => before.taint = {}
  /\ pc = "snapshot" => Source(before.edits) = {}
  /\ pc \in {"inspect", "commit"} => seen.patch = "applied" /\ seen.exact
  /\ pc = "commit" => /\ verified
                      /\ checkout.taint = {}
                      /\ accepted.patch = "applied" /\ accepted.taint = {}
                      /\ Source(accepted.edits) = Source(before.edits)

\* The part of the type invariant that is about Boolean variables.
Flags ==
  /\ verified \in BOOLEAN /\ reversed \in BOOLEAN
  /\ succeeded \in BOOLEAN /\ forced \in BOOLEAN /\ disturbed \in BOOLEAN

Claimed == \E f \in Files : artifact[f] = "applied"

\* What the artifact files say.
Paper ==
  /\ runner = "single" => artifact[2] = "none"
  /\ pc \in Late => \A f \in 1..Last : artifact[f] # "none"
  /\ pc = "preliminary" /\ next = 2 => artifact[1] # "none"
  /\ Claimed => \/ outcome = "applied"
                \/ pc \in {"commit", "dead"} /\ checkout.patch = "applied"
                \/ /\ runner = "twin" /\ undoes = "artifact"
                   /\ pc \in {"cleanup", "done"} => forced
  /\ pc = "commit" => IF next = 1 THEN ~Claimed ELSE artifact[1] = "applied"
  /\ pc = "repair" /\ next = 2 => artifact[1] = "unapplied"
  /\ outcome = "applied" => \A f \in 1..Last : artifact[f] = "applied"

\* How it ends.
Ending ==
  /\ outcome = "applied" => checkout.patch = "applied"
  /\ pc = "cleanup" /\ checkout.patch # "none" /\ outcome # "applied" =>
       ~succeeded /\ (undoes = "artifact" => forced)

\* The inductive invariant: the type invariant, the relations above, and those of
\* the properties that later steps rely on.
IInv ==
  /\ TypeOK
  /\ Course
  /\ Holding
  /\ Hashes
  /\ Window
  /\ Paper
  /\ Ending
  /\ PreliminaryFirst
  /\ CommittedIsVerified
  /\ RolledBackIsExact
  /\ RecoveryIsKept

-----------------------------------------------------------------------------
(* The parts of a run before Cleanup, and what every proof below unfolds: the  *)
(* groups of variables and the operators that the actions are written with.   *)

Preparing ==
  \/ CheckState \/ ControlChanged \/ WritePreliminary \/ PreliminaryFails
  \/ HashForCaller \/ HashForManager \/ HashFails

Applying ==
  \/ Apply \/ ApplyFails \/ Compare \/ CompareFails
  \/ CaptureManaged \/ CaptureSnapshot \/ CaptureBaseline \/ CaptureFails

Checking ==
  \/ Verify \/ InspectUnchanged \/ InspectChanged \/ Commit
  \/ CommitFails

Undoing ==
  \/ Reverse \/ ReverseFails \/ CheckReversed \/ Reapply
  \/ ReapplyFails \/ NativeReverse \/ NativeReverseFails \/ CheckNative
  \/ Repair \/ RepairFails

USE DEF options, hashes, window, undo, files, end, world, Tree, WithPatch, WithOthers,
        Files, Last, Goto, Fault, Throw, WriteFile, GitApply, GitApplyFails, TakeBack,
        Stuck, TakenBack, Verifying, Rolling, Late, Ended

-----------------------------------------------------------------------------
(* What each step does to each part of the invariant *)

\* The type invariant, whatever a step does.
LEMMA TypeStep == ASSUME IInv, Next PROVE TypeOK'
<1> USE DEF IInv, TypeOK, Course, Of, Source, Managed, Control, Flags, Steps, Checkout,
            Original, Content, Working, ControlRestored, SourceRestored, Restored
<1>1. CASE Preparing
  <2>1. CASE CheckState
    BY <2>1, PatchAssumption DEF CheckState
  <2>2. CASE ControlChanged
    BY <2>2, PatchAssumption DEF ControlChanged
  <2>3. CASE WritePreliminary
    <3>1. Flags'
      BY <2>3 DEF WritePreliminary
    <3>2. CASE requested /\ successful /\ next = Last
      BY <2>3, <3>1, <3>2, PatchAssumption DEF WritePreliminary
    <3>3. CASE requested /\ successful /\ next # Last
      BY <2>3, <3>1, <3>3, PatchAssumption DEF WritePreliminary
    <3>4. CASE ~(requested /\ successful) /\ next = Last
      <4>1. pc' = "cleanup" /\ outcome' = "unapplied" /\ next' = 1
        BY <2>3, <3>4 DEF WritePreliminary
      <4>2. UNCHANGED <<options, checkout, hashes, window, undo, world, forced, worktree>>
        BY <2>3, <3>4 DEF WritePreliminary
      <4>3. artifact' = [artifact EXCEPT ![next] = "unapplied"]
        BY <2>3, <3>4 DEF WritePreliminary
      <4>4. artifact' \in [Files -> {"none", "unapplied", "applied"}]
        BY <4>3
      <4> QED BY <3>1, <4>1, <4>2, <4>4
    <3>5. CASE ~(requested /\ successful) /\ next # Last
      BY <2>3, <3>1, <3>5, PatchAssumption DEF WritePreliminary
    <3> QED BY <2>3, <3>2, <3>3, <3>4, <3>5
  <2>4. CASE PreliminaryFails \/ HashForCaller \/ HashForManager \/ HashFails
    BY <2>4, PatchAssumption DEF PreliminaryFails, HashForCaller, HashForManager,
          HashFails
  <2> QED BY <1>1, <2>1, <2>2, <2>3, <2>4 DEF Preparing
<1>2. CASE Applying
  <2>1. CASE Apply
    BY <2>1, PatchAssumption DEF Apply
  <2>2. CASE ApplyFails
    BY <2>2, PatchAssumption DEF ApplyFails
  <2>3. CASE CompareFails
    <3>1. Flags'
      BY <2>3 DEF CompareFails
    <3> QED BY <2>3, <3>1, PatchAssumption DEF CompareFails
  <2>4. CASE CaptureFails
    <3>1. Flags'
      BY <2>4 DEF CaptureFails
    <3> QED BY <2>4, <3>1, PatchAssumption DEF CaptureFails
  <2>5. CASE Compare
    <3>1. Flags'
      BY <2>5 DEF Compare
    <3> QED BY <2>5, <3>1, PatchAssumption DEF Compare
  <2>6. CASE CaptureManaged \/ CaptureSnapshot \/ CaptureBaseline
    <3>1. Flags'
      BY <2>6 DEF CaptureManaged, CaptureSnapshot, CaptureBaseline
    <3> QED BY <2>6, <3>1, PatchAssumption DEF CaptureManaged, CaptureSnapshot, CaptureBaseline
  <2> QED BY <1>2, <2>1, <2>2, <2>3, <2>4, <2>5, <2>6 DEF Applying
<1>3. CASE Checking
  <2>1. CASE Verify
    BY <2>1, PatchAssumption DEF Verify
  <2>2. CASE InspectUnchanged
    <3>1. Flags'
      BY <2>2 DEF InspectUnchanged
    <3> QED BY <2>2, <3>1, PatchAssumption DEF InspectUnchanged
  <2>3. CASE InspectChanged
    <3>1. Flags'
      BY <2>3 DEF InspectChanged
    <3> QED BY <2>3, <3>1, PatchAssumption DEF InspectChanged
  <2>4. CASE Commit
    <3>1. Flags'
      BY <2>4 DEF Commit
    <3> QED BY <2>4, <3>1, PatchAssumption DEF Commit
  <2>5. CASE CommitFails
    <3>1. Flags'
      BY <2>5 DEF CommitFails
    <3> QED BY <2>5, <3>1, PatchAssumption DEF CommitFails
  <2> QED BY <1>3, <2>1, <2>2, <2>3, <2>4, <2>5 DEF Checking
<1>4. CASE Undoing
  <2>1. CASE Reverse
    BY <2>1, PatchAssumption DEF Reverse
  <2>2. CASE ReverseFails
    BY <2>2, PatchAssumption DEF ReverseFails
  <2>3. CASE CheckReversed
    BY <2>3, PatchAssumption DEF CheckReversed
  <2>4. CASE Reapply
    BY <2>4, PatchAssumption DEF Reapply
  <2>5. CASE ReapplyFails
    BY <2>5, PatchAssumption DEF ReapplyFails
  <2>6. CASE NativeReverse
    BY <2>6, PatchAssumption DEF NativeReverse
  <2>7. CASE NativeReverseFails
    BY <2>7, PatchAssumption DEF NativeReverseFails
  <2>8. CASE CheckNative
    <3>1. Flags'
      BY <2>8 DEF CheckNative
    <3> QED BY <2>8, <3>1, PatchAssumption DEF CheckNative
  <2>9. CASE Repair
    BY <2>9, PatchAssumption DEF Repair
  <2>10. CASE RepairFails
    BY <2>10, PatchAssumption DEF RepairFails
  <2> QED BY <1>4, <2>1, <2>2, <2>3, <2>4, <2>5, <2>6, <2>7, <2>8, <2>9, <2>10 DEF Undoing
<1>5. CASE Cleanup
  BY <1>5, PatchAssumption DEF Cleanup
<1>6. CASE Die
  BY <1>6, PatchAssumption DEF Die
<1>7. ASSUME NEW e \in Edits, Edit(e)
      PROVE  TypeOK'
  BY <1>7, PatchAssumption DEF Edit
<1> QED
  BY <1>1, <1>2, <1>3, <1>4, <1>5, <1>6, <1>7 DEF Next, Preparing, Applying, Checking, Undoing

\* Only the end has an outcome and only the way back a reason.
LEMMA CourseStep == ASSUME IInv, Next PROVE Course'
<1> USE DEF IInv, Course, TypeOK, IsRestored
<1>1. CASE Preparing
  <2>1. CASE CheckState
    BY <2>1 DEF CheckState
  <2>2. CASE WritePreliminary
    BY <2>2 DEF WritePreliminary
  <2>3. CASE \/ ControlChanged \/ PreliminaryFails \/ HashForCaller \/ HashForManager
             \/ HashFails
    BY <2>3 DEF ControlChanged, PreliminaryFails, HashForCaller,
          HashForManager, HashFails
  <2> QED BY <1>1, <2>1, <2>2, <2>3 DEF Preparing
<1>2. CASE Applying
  BY <1>2 DEF Applying, Apply, ApplyFails, Compare, CompareFails,
        CaptureManaged, CaptureSnapshot, CaptureBaseline, CaptureFails
<1>3. CASE Checking
  BY <1>3 DEF Checking, Verify, InspectUnchanged, InspectChanged,
        Commit, CommitFails
<1>4. CASE Undoing
  BY <1>4 DEF Undoing, Reverse, ReverseFails, CheckReversed,
        Reapply, ReapplyFails, NativeReverse, NativeReverseFails, CheckNative,
        Repair, RepairFails
<1>5. CASE Cleanup
  BY <1>5 DEF Cleanup
<1>6. CASE Die
  BY <1>6 DEF Die
<1>7. ASSUME NEW e \in Edits, Edit(e)
      PROVE  Course'
  BY <1>7 DEF Edit
<1> QED
  BY <1>1, <1>2, <1>3, <1>4, <1>5, <1>6, <1>7 DEF Next, Preparing, Applying, Checking, Undoing

\* Both hashes are taken before git apply.
LEMMA HashesStep == ASSUME IInv, Next PROVE Hashes'
<1> USE DEF IInv, Hashes, TypeOK, Holding, Content, Original, Of, Source, Managed,
            Control
<1>1. CASE Preparing
  <2>1. CASE HashForCaller
    BY <2>1 DEF HashForCaller
  <2>2. CASE HashForManager
    BY <2>2 DEF HashForManager
  <2>3. CASE \/ CheckState \/ ControlChanged \/ WritePreliminary \/ PreliminaryFails
             \/ HashFails
    BY <2>3 DEF CheckState, ControlChanged, WritePreliminary,
          PreliminaryFails, HashFails
  <2> QED BY <1>1, <2>1, <2>2, <2>3 DEF Preparing
<1>2. CASE Applying
  BY <1>2 DEF Applying, Apply, ApplyFails, Compare, CompareFails,
        CaptureManaged, CaptureSnapshot, CaptureBaseline, CaptureFails
<1>3. CASE Checking
  BY <1>3 DEF Checking, Verify, InspectUnchanged, InspectChanged,
        Commit, CommitFails
<1>4. CASE Undoing
  BY <1>4 DEF Undoing, Reverse, ReverseFails, CheckReversed,
        Reapply, ReapplyFails, NativeReverse, NativeReverseFails, CheckNative,
        Repair, RepairFails
<1>5. CASE Cleanup
  BY <1>5 DEF Cleanup
<1>6. CASE Die
  BY <1>6 DEF Die
<1>7. ASSUME NEW e \in Edits, Edit(e)
      PROVE  Hashes'
  BY <1>7 DEF Edit
<1> QED
  BY <1>1, <1>2, <1>3, <1>4, <1>5, <1>6, <1>7 DEF Next, Preparing, Applying, Checking, Undoing

\* The checkout goes from without the patch to with it, and is clean again when the
\* twin repairs its artifacts.
LEMMA HoldingStep == ASSUME IInv, Next PROVE Holding'
<1> USE DEF IInv, Holding, TypeOK, Course, Hashes, Of, Source, Managed, Control,
            Content, Candidate, Original, ControlRestored, SourceRestored, Restored,
            IsRestored
<1>1. CASE Preparing
  BY <1>1 DEF Preparing, CheckState, ControlChanged,
        WritePreliminary, PreliminaryFails, HashForCaller, HashForManager, HashFails
<1>2. CASE Applying
  BY <1>2 DEF Applying, Apply, ApplyFails, Compare, CompareFails,
        CaptureManaged, CaptureSnapshot, CaptureBaseline, CaptureFails
<1>3. CASE Checking
  BY <1>3 DEF Checking, Verify, InspectUnchanged, InspectChanged,
        Commit, CommitFails
<1>4. CASE Undoing
  BY <1>4 DEF Undoing, Reverse, ReverseFails, CheckReversed,
        Reapply, ReapplyFails, NativeReverse, NativeReverseFails, CheckNative,
        Repair, RepairFails
<1>5. CASE Cleanup
  BY <1>5 DEF Cleanup
<1>6. CASE Die
  BY <1>6 DEF Die
<1>7. ASSUME NEW e \in Edits, Edit(e)
      PROVE  Holding'
  BY <1>7 DEF Edit
<1> QED
  BY <1>1, <1>2, <1>3, <1>4, <1>5, <1>6, <1>7 DEF Next, Preparing, Applying, Checking, Undoing

\* Who touches the source after the comparison is noted; what is accepted is what the
\* snapshot holds.
LEMMA WindowStep == ASSUME IInv, Next PROVE Window'
<1> USE DEF IInv, Window, Undisturbed, TypeOK, Holding, Of, Source, Managed, Control, Checkout,
            Content, Working, Unchanged
<1>1. CASE Preparing
  BY <1>1 DEF Preparing, CheckState, ControlChanged,
        WritePreliminary, PreliminaryFails, HashForCaller, HashForManager, HashFails
<1>2. CASE Applying
  <2>1. CASE Compare
    BY <2>1 DEF Compare, Candidate
  <2>2. CASE \/ Apply \/ ApplyFails \/ CompareFails \/ CaptureManaged \/ CaptureSnapshot
             \/ CaptureBaseline \/ CaptureFails
    BY <2>2 DEF Apply, ApplyFails, CompareFails, CaptureManaged, CaptureSnapshot,
          CaptureBaseline, CaptureFails
  <2> QED BY <1>2, <2>1, <2>2 DEF Applying
<1>3. CASE Checking
  <2>1. CASE InspectUnchanged
    BY <2>1 DEF InspectUnchanged
  <2>2. CASE InspectChanged
    BY <2>2 DEF InspectChanged
  <2>3. CASE Verify \/ Commit \/ CommitFails
    BY <2>3 DEF Verify, Commit, CommitFails
  <2> QED BY <1>3, <2>1, <2>2, <2>3 DEF Checking
<1>4. CASE Undoing
  BY <1>4 DEF Undoing, Reverse, ReverseFails, CheckReversed,
        Reapply, ReapplyFails, NativeReverse, NativeReverseFails, CheckNative,
        Repair, RepairFails
<1>5. CASE Cleanup
  BY <1>5 DEF Cleanup
<1>6. CASE Die
  BY <1>6 DEF Die
<1>7. ASSUME NEW e \in Edits, Edit(e)
      PROVE  Window'
  <2>1. Source(checkout'.edits) # Source(checkout.edits) => Source({e}) # {}
    BY <1>7 DEF Edit
  <2>2. Undisturbed'
    BY <1>7, <2>1 DEF Edit, Guarded
  <2>3. Source(before'.edits) = Source(before.edits) /\ Source(accepted'.edits) = Source(accepted.edits)
    BY <1>7 DEF Edit
  <2> QED BY <1>7, <2>2, <2>3 DEF Edit
<1> QED
  BY <1>1, <1>2, <1>3, <1>4, <1>5, <1>6, <1>7 DEF Next, Preparing, Applying, Checking, Undoing

\* An artifact file says applied only after the patch is verified, and no longer when
\* the twin has repaired it.
LEMMA PaperStep == ASSUME IInv, Next PROVE Paper'
<1> USE DEF IInv, Paper, TypeOK, Course, Holding, Claimed, Keep, IsRestored, Of, Source,
            Managed, Control
<1>1. CASE Preparing
  <2>1. CASE CheckState
    BY <2>1 DEF CheckState
  <2>2. CASE WritePreliminary
    <3>1. CASE requested /\ successful /\ next = Last
      BY <2>2, <3>1 DEF WritePreliminary
    <3>2. CASE requested /\ successful /\ next # Last
      BY <2>2, <3>2 DEF WritePreliminary
    <3>3. CASE ~(requested /\ successful)
      BY <2>2, <3>3, ZenonT(40) DEF WritePreliminary
    <3> QED BY <2>2, <3>1, <3>2, <3>3
  <2>3. CASE \/ ControlChanged \/ PreliminaryFails \/ HashForCaller \/ HashForManager
             \/ HashFails
    BY <2>3 DEF ControlChanged, PreliminaryFails, HashForCaller,
          HashForManager, HashFails
  <2> QED BY <1>1, <2>1, <2>2, <2>3 DEF Preparing
<1>2. CASE Applying
  BY <1>2 DEF Applying, Apply, ApplyFails, Compare, CompareFails,
        CaptureManaged, CaptureSnapshot, CaptureBaseline, CaptureFails
<1>3. CASE Checking
  BY <1>3 DEF Checking, Verify, InspectUnchanged, InspectChanged,
        Commit, CommitFails
<1>4. CASE Undoing
  <2>1. CASE CheckReversed
    BY <2>1 DEF CheckReversed
  <2>2. CASE CheckNative
    <3>1. CASE IsRestored /\ TakenBack
      BY <2>2, <3>1 DEF CheckNative
    <3>2. CASE Stuck
      BY <2>2, <3>2 DEF CheckNative
    <3> QED BY <2>2, <3>1, <3>2 DEF CheckNative
  <2>3. CASE Repair
    BY <2>3 DEF Repair
  <2>4. CASE \/ Reverse \/ ReverseFails \/ Reapply \/ ReapplyFails
             \/ NativeReverse \/ NativeReverseFails \/ RepairFails
    BY <2>4 DEF Reverse, ReverseFails, Reapply, ReapplyFails,
          NativeReverse, NativeReverseFails, RepairFails
  <2> QED BY <1>4, <2>1, <2>2, <2>3, <2>4 DEF Undoing
<1>5. CASE Cleanup
  BY <1>5 DEF Cleanup
<1>6. CASE Die
  BY <1>6 DEF Die
<1>7. ASSUME NEW e \in Edits, Edit(e)
      PROVE  Paper'
  BY <1>7 DEF Edit
<1> QED
  BY <1>1, <1>2, <1>3, <1>4, <1>5, <1>6, <1>7 DEF Next, Preparing, Applying, Checking, Undoing

\* A run that does not end as applied leaves the patch only where cleanup can see it.
LEMMA EndingStep == ASSUME IInv, Next PROVE Ending'
<1> USE DEF IInv, Ending, TypeOK, Course, Holding, Hashes, IsRestored, ControlRestored,
            Candidate, Content, Of, Source, Managed, Control
<1>1. CASE Preparing
  <2>1. CASE CheckState
    BY <2>1 DEF CheckState
  <2>2. CASE WritePreliminary
    BY <2>2 DEF WritePreliminary
  <2>3. CASE \/ ControlChanged \/ PreliminaryFails \/ HashForCaller \/ HashForManager
             \/ HashFails
    BY <2>3 DEF ControlChanged, PreliminaryFails, HashForCaller,
          HashForManager, HashFails
  <2> QED BY <1>1, <2>1, <2>2, <2>3 DEF Preparing
<1>2. CASE Applying
  BY <1>2 DEF Applying, Apply, ApplyFails, Compare, CompareFails,
        CaptureManaged, CaptureSnapshot, CaptureBaseline, CaptureFails
<1>3. CASE Checking
  BY <1>3 DEF Checking, Verify, InspectUnchanged, InspectChanged,
        Commit, CommitFails
<1>4. CASE Undoing
  <2>1. CASE CheckReversed
    BY <2>1 DEF CheckReversed
  <2>2. CASE CheckNative
    <3>1. CASE IsRestored /\ TakenBack
      BY <2>2, <3>1 DEF CheckNative
    <3>2. CASE Stuck
      BY <2>2, <3>2 DEF CheckNative
    <3> QED BY <2>2, <3>1, <3>2 DEF CheckNative
  <2>3. CASE ReapplyFails
    BY <2>3 DEF ReapplyFails
  <2>4. CASE NativeReverseFails
    BY <2>4 DEF NativeReverseFails
  <2>5. CASE Repair
    BY <2>5 DEF Repair
  <2>6. CASE \/ Reverse \/ ReverseFails \/ Reapply \/ NativeReverse
             \/ RepairFails
    BY <2>6 DEF Reverse, ReverseFails, Reapply, NativeReverse,
          RepairFails
  <2> QED BY <1>4, <2>1, <2>2, <2>3, <2>4, <2>5, <2>6 DEF Undoing
<1>5. CASE Cleanup
  BY <1>5 DEF Cleanup
<1>6. CASE Die
  BY <1>6 DEF Die
<1>7. ASSUME NEW e \in Edits, Edit(e)
      PROVE  Ending'
  BY <1>7 DEF Edit
<1> QED
  BY <1>1, <1>2, <1>3, <1>4, <1>5, <1>6, <1>7 DEF Next, Preparing, Applying, Checking, Undoing

\* The artifact is there before the patch is.
LEMMA FirstStep == ASSUME IInv, Next PROVE PreliminaryFirst'
<1> USE DEF IInv, PreliminaryFirst, TypeOK, Course, Holding, Paper, ControlRestored,
            SourceRestored, Restored
<1>1. CASE Preparing
  <2>1. CASE WritePreliminary
    BY <2>1 DEF WritePreliminary
  <2>2. CASE \/ CheckState \/ ControlChanged \/ PreliminaryFails \/ HashForCaller
             \/ HashForManager \/ HashFails
    BY <2>2 DEF CheckState, ControlChanged, PreliminaryFails,
          HashForCaller, HashForManager, HashFails
  <2> QED BY <1>1, <2>1, <2>2 DEF Preparing
<1>2. CASE Applying
  BY <1>2 DEF Applying, Apply, ApplyFails, Compare, CompareFails,
        CaptureManaged, CaptureSnapshot, CaptureBaseline, CaptureFails
<1>3. CASE Checking
  BY <1>3 DEF Checking, Verify, InspectUnchanged, InspectChanged,
        Commit, CommitFails
<1>4. CASE Undoing
  BY <1>4 DEF Undoing, Reverse, ReverseFails, CheckReversed,
        Reapply, ReapplyFails, NativeReverse, NativeReverseFails, CheckNative,
        Repair, RepairFails
<1>5. CASE Cleanup
  BY <1>5 DEF Cleanup
<1>6. CASE Die
  BY <1>6 DEF Die
<1>7. ASSUME NEW e \in Edits, Edit(e)
      PROVE  PreliminaryFirst'
  BY <1>7 DEF Edit
<1> QED
  BY <1>1, <1>2, <1>3, <1>4, <1>5, <1>6, <1>7 DEF Next, Preparing, Applying, Checking, Undoing

\* What is recorded as applied was verified.
LEMMA VerifiedStep == ASSUME IInv, Next PROVE CommittedIsVerified'
<1> USE DEF IInv, CommittedIsVerified, TypeOK, Course, Window, Undisturbed, Of, Source,
            Managed, Control, ControlRestored, Content, Working, Candidate, Checkout
<1>1. CASE Preparing
  BY <1>1 DEF Preparing, CheckState, ControlChanged,
        WritePreliminary, PreliminaryFails, HashForCaller, HashForManager, HashFails
<1>2. CASE Applying
  BY <1>2 DEF Applying, Apply, ApplyFails, Compare, CompareFails,
        CaptureManaged, CaptureSnapshot, CaptureBaseline, CaptureFails
<1>3. CASE Checking
  BY <1>3 DEF Checking, Verify, InspectUnchanged, InspectChanged,
        Commit, CommitFails
<1>4. CASE Undoing
  BY <1>4 DEF Undoing, Reverse, ReverseFails, CheckReversed,
        Reapply, ReapplyFails, NativeReverse, NativeReverseFails, CheckNative,
        Repair, RepairFails
<1>5. CASE Cleanup
  BY <1>5 DEF Cleanup
<1>6. CASE Die
  BY <1>6 DEF Die
<1>7. ASSUME NEW e \in Edits, Edit(e)
      PROVE  CommittedIsVerified'
  BY <1>7 DEF Edit
<1> QED
  BY <1>1, <1>2, <1>3, <1>4, <1>5, <1>6, <1>7 DEF Next, Preparing, Applying, Checking, Undoing

\* What is reported as rolled back compares equal to a hash without the patch.
LEMMA ExactStep == ASSUME IInv, Next PROVE RolledBackIsExact'
<1> USE DEF IInv, RolledBackIsExact, TypeOK, Course, Hashes, Holding, Of, Source,
            Managed, Control, Content, Working, Original, IsRestored, ControlRestored
<1>1. CASE Preparing
  BY <1>1 DEF Preparing, CheckState, ControlChanged,
        WritePreliminary, PreliminaryFails, HashForCaller, HashForManager, HashFails
<1>2. CASE Applying
  BY <1>2 DEF Applying, Apply, ApplyFails, Compare, CompareFails,
        CaptureManaged, CaptureSnapshot, CaptureBaseline, CaptureFails
<1>3. CASE Checking
  BY <1>3 DEF Checking, Verify, InspectUnchanged, InspectChanged,
        Commit, CommitFails
<1>4. CASE Undoing
  BY <1>4 DEF Undoing, Reverse, ReverseFails, CheckReversed,
        Reapply, ReapplyFails, NativeReverse, NativeReverseFails, CheckNative,
        Repair, RepairFails
<1>5. CASE Cleanup
  BY <1>5 DEF Cleanup
<1>6. CASE Die
  BY <1>6 DEF Die
<1>7. ASSUME NEW e \in Edits, Edit(e)
      PROVE  RolledBackIsExact'
  BY <1>7 DEF Edit
<1> QED
  BY <1>1, <1>2, <1>3, <1>4, <1>5, <1>6, <1>7 DEF Next, Preparing, Applying, Checking, Undoing

\* Cleanup sees what it must keep.
LEMMA KeptStep == ASSUME IInv, Next PROVE RecoveryIsKept'
<1> USE DEF IInv, RecoveryIsKept, TypeOK, Course, Ending, Keep, ControlRestored
<1>1. CASE Preparing
  BY <1>1 DEF Preparing, CheckState, ControlChanged,
        WritePreliminary, PreliminaryFails, HashForCaller, HashForManager, HashFails
<1>2. CASE Applying
  BY <1>2 DEF Applying, Apply, ApplyFails, Compare, CompareFails,
        CaptureManaged, CaptureSnapshot, CaptureBaseline, CaptureFails
<1>3. CASE Checking
  BY <1>3 DEF Checking, Verify, InspectUnchanged, InspectChanged,
        Commit, CommitFails
<1>4. CASE Undoing
  BY <1>4 DEF Undoing, Reverse, ReverseFails, CheckReversed,
        Reapply, ReapplyFails, NativeReverse, NativeReverseFails, CheckNative,
        Repair, RepairFails
<1>5. CASE Cleanup
  BY <1>5 DEF Cleanup
<1>6. CASE Die
  BY <1>6 DEF Die
<1>7. ASSUME NEW e \in Edits, Edit(e)
      PROVE  RecoveryIsKept'
  BY <1>7 DEF Edit
<1> QED
  BY <1>1, <1>2, <1>3, <1>4, <1>5, <1>6, <1>7 DEF Next, Preparing, Applying, Checking, Undoing

-----------------------------------------------------------------------------
(* The inductive invariant *)

\* The run begins before any of it has happened.
LEMMA InvInit == Init => IInv
<1> SUFFICES ASSUME Init PROVE IInv
  OBVIOUS
<1> USE DEF Init, Original
<1>1. TypeOK
  <2>1. Original \in Checkout
    BY DEF Checkout
  <2>2. Flags
    BY DEF Flags
  <2>3. faults \in 0..MaxFaults /\ made \in 0..MaxEdits /\ artifact \in [Files -> {"none", "unapplied", "applied"}]
    BY PatchAssumption
  <2> HIDE DEF Original
  <2> QED BY <2>1, <2>2, <2>3 DEF TypeOK, Flags, Steps
<1>2. Course /\ Holding /\ Hashes
  BY DEF Course, Holding, Hashes
<1>3. Window
  BY DEF Window, Undisturbed, Source, Of
<1>4. Paper /\ Ending
  BY DEF Paper, Ending, Claimed
<1>5. PreliminaryFirst /\ CommittedIsVerified /\ RolledBackIsExact /\ RecoveryIsKept
  BY DEF PreliminaryFirst, CommittedIsVerified, RolledBackIsExact, RecoveryIsKept
<1> QED BY <1>1, <1>2, <1>3, <1>4, <1>5 DEF IInv

\* Every part holds of the variables alone, so that a stutter keeps it.
LEMMA InvStep == ASSUME IInv, [Next]_vars PROVE IInv'
<1>1. CASE Next
  BY <1>1, TypeStep, CourseStep, HashesStep, HoldingStep, WindowStep, PaperStep,
     EndingStep, FirstStep, VerifiedStep, ExactStep, KeptStep DEF IInv
<1>2. CASE UNCHANGED vars
  <2> USE <1>2 DEF IInv, vars
  <2>1. TypeOK'
    BY DEF TypeOK
  <2>2. Course' /\ Holding' /\ Hashes'
    BY DEF Course, Holding, Hashes
  <2>3. Window'
    BY DEF Window, Undisturbed, Source, Of
  <2>4. Paper' /\ Ending'
    BY DEF Paper, Ending, Claimed
  <2>5. PreliminaryFirst' /\ CommittedIsVerified' /\ RolledBackIsExact' /\ RecoveryIsKept'
    BY DEF PreliminaryFirst, CommittedIsVerified, RolledBackIsExact, RecoveryIsKept, Source, Of
  <2> QED BY <2>1, <2>2, <2>3, <2>4, <2>5
<1> QED BY <1>1, <1>2

\* The invariant holds in every run, whoever edits the checkout and whatever fails.
THEOREM Invariant == Spec => []IInv
BY InvInit, InvStep, PTL DEF Spec

-----------------------------------------------------------------------------
(* What it gives *)

\* Every variable keeps its type, for any edits and any bounds.
THEOREM TypeCorrect == Spec => []TypeOK
<1>1. IInv => TypeOK
  BY DEF IInv
<1> QED BY Invariant, <1>1, PTL

\* The non-applied result is durable before the checkout is touched.
THEOREM ArtifactBeforePatch == Spec => []PreliminaryFirst
<1>1. IInv => PreliminaryFirst
  BY DEF IInv
<1> QED BY Invariant, <1>1, PTL

\* No artifact file says applied of a checkout without the whole patch, but for the
\* two-file window of the twin and what it keeps its worktrees for.
THEOREM ClaimsAreTrue == Spec => []AppliedClaimIsTrue
<1>1. IInv => AppliedClaimIsTrue
  BY DEF IInv, Paper, Ending, Claimed, AppliedClaimIsTrue
<1> QED BY Invariant, <1>1, PTL

\* When the run is over and nothing is kept for recovery, each artifact file says
\* applied exactly when the run has ended as applied.
THEOREM ArtifactsTrue == Spec => []ArtifactsAgree
<1>1. IInv => ArtifactsAgree
  BY DEF IInv, TypeOK, Paper, Ending, Claimed, ArtifactsAgree
<1> QED BY Invariant, <1>1, PTL

\* What is recorded as applied was verified here, unchanged.
THEOREM AppliedWasVerified == Spec => []CommittedIsVerified
<1>1. IInv => CommittedIsVerified
  BY DEF IInv
<1> QED BY Invariant, <1>1, PTL

\* What is reported as rolled back is without a byte of the patch or the verifier.
THEOREM RollbackExact == Spec => []RolledBackIsExact
<1>1. IInv => RolledBackIsExact
  BY DEF IInv
<1> QED BY Invariant, <1>1, PTL

\* A patch left behind by a run that does not say so can be recovered.
THEOREM RecoveryKept == Spec => []RecoveryIsKept
<1>1. IInv => RecoveryIsKept
  BY DEF IInv
<1> QED BY Invariant, <1>1, PTL
=============================================================================
