--------------------------- MODULE PatchTransaction ---------------------------
(***************************************************************************)
(* From the end of the arms to the end of the run, in the single and the   *)
(* twin runner (src/src/runner/single.ts, twin.ts over git/worktree.ts):   *)
(* the certified patch is applied to the original checkout, compared with  *)
(* the candidate, verified in place, and either recorded as applied or     *)
(* taken back.                                                             *)
(*                                                                         *)
(* The checkout is not locked.  Its user may change files at any step, and *)
(* other processes may write records into the data directory: both are     *)
(* edits.  Verifier commands may change anything, git and file operations  *)
(* may fail, and the process may die.  A check and the git apply after it  *)
(* are one step, for git apply checks again.                               *)
(***************************************************************************)
EXTENDS Naturals, FiniteSets

CONSTANTS
  Edits,      \* what others may change
  Kind,       \* what each of them changes
  MaxEdits,   \* bounds how many of them happen
  MaxFaults   \* bounds failing git and file operations

\* A file of the patch, another tracked file, a new file, a record of another
\* process in the data directory, or a commit, branch or other ref.
Kinds == {"patched", "tracked", "untracked", "managed", "control"}

ASSUME PatchAssumption ==
  /\ Kind \in [Edits -> Kinds]
  /\ MaxEdits \in Nat
  /\ MaxFaults \in Nat

VARIABLES
  pc,           \* the operation the run does next
  runner,       \* SingleRunner or TwinRunner
  preserve,     \* twin.preserveWorktrees
  requested,    \* options.apply or applyWinner
  successful,   \* arm.successful, or a winner that is
  checkout,     \* the original checkout and the managed directories in it
  callerHash,   \* originalContentHash of the runner
  managerHash,  \* originalContentHash of applyPatchToOriginal
  before,       \* what verifyOriginalWithoutMutation captured
  baseline,     \* the control state, and the working tree it made a commit of
  verified,     \* what the verifier returned
  undoes,       \* why the patch is taken back
  reversed,     \* deterministicReverseSucceeded
  artifact,     \* result.json and, of the twin, certificate.md
  next,         \* the artifact file to be written next
  succeeded,    \* succeeded or experimentSucceeded, for cleanup
  forced,       \* #forcePreserve
  worktree,     \* the isolated worktrees
  outcome,      \* how the run ends
  made,         \* edits made or undone so far
  seen,         \* the checkout the verifier ran in
  accepted,     \* the checkout it was compared with before afterwards
  disturbed,    \* others touched the source since it was compared with the candidate
  faults        \* failed operations so far

options == <<runner, preserve, requested, successful>>
hashes  == <<callerHash, managerHash>>
window  == <<before, baseline, verified, seen, accepted>>
undo    == <<undoes, reversed>>
files   == <<artifact, next>>
end     == <<succeeded, forced, worktree, outcome>>
world   == <<made, disturbed, faults>>
vars    == <<pc, options, checkout, hashes, window, undo, files, end, world>>

-----------------------------------------------------------------------------
Files == {1, 2}
Last  == IF runner = "single" THEN 1 ELSE 2

\* patch: how much of the patch is there.  exact: the bytes of the patched files
\* are what they should be, line endings included.  edits: who else was there.
\* taint: what verifier commands have changed.
Checkout == [patch : {"none", "partial", "applied"}, exact : BOOLEAN,
             edits : SUBSET Edits, taint : SUBSET {"files", "control"}]

Tree(p, x, e, t) == [patch |-> p, exact |-> x, edits |-> e, taint |-> t]

Original == Tree("none", TRUE, {}, {})

Of(edits, kinds) == {e \in edits : Kind[e] \in kinds}
Source(edits)    == Of(edits, {"patched", "tracked", "untracked"})
Managed(edits)   == Of(edits, {"managed"})
Control(edits)   == Of(edits, {"control"})

\* currentContentHash: the bytes of the files, without the managed directories.
Content(c) == Tree(c.patch, c.exact, Source(c.edits), c.taint \cap {"files"})

\* currentWorkingStateHash: as git diffs it.
Working(c) == Tree(c.patch, TRUE, Source(c.edits), c.taint \cap {"files"})

\* The content of the worktree of the certified arm.
Candidate == Tree("applied", TRUE, {}, {})

\* The checkout now, with something of it changed.
WithPatch(p, x)  == Tree(p, x, checkout.edits, checkout.taint)
WithOthers(e, t) == Tree(checkout.patch, checkout.exact, e, t)

Steps == {"state", "preliminary", "caller", "manager", "apply", "compare", "managed",
          "snapshot", "baseline", "verify", "inspect", "commit",
          "reverse", "check1", "reapply", "native", "check2", "repair", "cleanup"}

TypeOK ==
  /\ pc \in Steps \cup {"done", "dead"}
  /\ runner \in {"single", "twin"}
  /\ preserve \in {"always", "on-failure", "never"}
  /\ requested \in BOOLEAN
  /\ successful \in BOOLEAN
  /\ checkout \in Checkout
  /\ callerHash \in Checkout
  /\ managerHash \in Checkout
  /\ before \in Checkout
  /\ baseline \in SUBSET Edits
  /\ verified \in BOOLEAN
  /\ undoes \in {"nothing", "verification", "artifact"}
  /\ reversed \in BOOLEAN
  /\ artifact \in [Files -> {"none", "unapplied", "applied"}]
  /\ next \in Files
  /\ succeeded \in BOOLEAN
  /\ forced \in BOOLEAN
  /\ worktree \in {"there", "kept", "removed"}
  /\ outcome \in {"running", "unapplied", "failed", "applied", "rolledBack", "withdrawn",
                  "stuck", "unrepaired"}
  /\ made \in 0..MaxEdits
  /\ seen \in Checkout
  /\ accepted \in Checkout
  /\ disturbed \in BOOLEAN
  /\ faults \in 0..MaxFaults

Init ==
  /\ pc = "state"
  /\ runner \in {"single", "twin"}
  /\ preserve \in {"always", "on-failure", "never"}
  /\ requested \in BOOLEAN
  /\ successful \in BOOLEAN
  /\ checkout = Original
  /\ callerHash = Original
  /\ managerHash = Original
  /\ before = Original
  /\ baseline = {}
  /\ verified = FALSE
  /\ undoes = "nothing"
  /\ reversed = FALSE
  /\ artifact = [f \in Files |-> "none"]
  /\ next = 1
  /\ succeeded = FALSE
  /\ forced = FALSE
  /\ worktree = "there"
  /\ outcome = "running"
  /\ made = 0
  /\ seen = Original
  /\ accepted = Original
  /\ disturbed = FALSE
  /\ faults = 0

Goto(from, to) == pc = from /\ pc' = to

\* An operation fails that need not have.
Fault ==
  /\ faults < MaxFaults
  /\ faults' = faults + 1
  /\ UNCHANGED <<made, disturbed>>

\* The run throws: the finally block is next.
Throw(how) ==
  /\ pc' = "cleanup"
  /\ outcome' = how
  /\ UNCHANGED <<succeeded, forced, worktree>>

-----------------------------------------------------------------------------
(* The steps up to the verified patch *)

\* #assertSharedGitControlsUnchanged: refs and HEAD are put back to where they
\* were when the worktrees were made.
ControlRestored ==
  WithOthers(checkout.edits \ Control(checkout.edits), checkout.taint \ {"control"})

\* assertExperimentControlState, then the original state hash; the twin refuses to apply without a
\* winner before it writes anything.
CheckState ==
  /\ pc = "state"
  /\ Control(checkout.edits) = {}
  /\ UNCHANGED <<options, checkout, hashes, window, undo, files>>
  /\ \/ /\ \/ Working(checkout) # Working(Original) /\ UNCHANGED world
           \/ Fault
        /\ Throw("failed")
     \/ /\ Working(checkout) = Working(Original)
        /\ UNCHANGED world
        /\ IF runner = "twin" /\ requested /\ ~successful
           THEN Throw("failed")
           ELSE /\ pc' = "preliminary"
                /\ succeeded' = (runner = "single" /\ successful)
                /\ UNCHANGED <<forced, worktree, outcome>>

ControlChanged ==
  /\ pc = "state"
  /\ Control(checkout.edits) # {}
  /\ \/ checkout' = ControlRestored /\ UNCHANGED world
     \/ Fault /\ UNCHANGED checkout
  /\ Throw("failed")
  /\ UNCHANGED <<options, hashes, window, undo, files>>

\* One file of the artifact, by writeAtomic: it is replaced or stays.
WriteFile(status, then) ==
  /\ artifact' = [artifact EXCEPT ![next] = status]
  /\ next' = IF next = Last THEN 1 ELSE next + 1
  /\ pc' = IF next = Last THEN then ELSE pc
  /\ UNCHANGED <<options, checkout, hashes, window, undo, world>>

\* Faulty: the success of the arm stands while its patch is applied.
WritePreliminarySucceeded ==
  /\ pc = "preliminary"
  /\ WriteFile("unapplied", IF requested /\ successful THEN "caller" ELSE "cleanup")
  /\ outcome' = IF next = Last /\ ~(requested /\ successful) THEN "unapplied" ELSE outcome
  /\ UNCHANGED <<succeeded, forced, worktree>>

\* The truthful non-applied result, and the end of a run that does not apply.
WritePreliminary ==
  /\ pc = "preliminary"
  /\ IF requested /\ successful
     THEN /\ WriteFile("unapplied", "caller")
          /\ succeeded' = (next # Last /\ succeeded)
          /\ UNCHANGED <<forced, worktree, outcome>>
     ELSE /\ WriteFile("unapplied", "cleanup")
          /\ outcome' = IF next = Last THEN "unapplied" ELSE outcome
          /\ succeeded' \in IF runner = "twin" /\ next = Last
                            THEN {TRUE, successful} ELSE {succeeded}
          /\ UNCHANGED <<forced, worktree>>

PreliminaryFails ==
  /\ pc = "preliminary"
  /\ Fault
  /\ Throw("failed")
  /\ UNCHANGED <<options, checkout, hashes, window, undo, files>>

HashForCaller ==
  /\ Goto("caller", "manager")
  /\ callerHash' = Content(checkout)
  /\ UNCHANGED <<options, checkout, managerHash, window, undo, files, end, world>>

HashFails ==
  /\ pc \in {"caller", "manager"}
  /\ Fault
  /\ Throw("failed")
  /\ UNCHANGED <<options, checkout, hashes, window, undo, files>>

HashForManager ==
  /\ Goto("manager", "apply")
  /\ managerHash' = Content(checkout)
  /\ UNCHANGED <<options, checkout, callerHash, window, undo, files, end, world>>

Clear == Of(checkout.edits, {"patched"}) = {}

\* git apply: it takes the whole patch or refuses it, and may get line endings
\* wrong; when it fails or is killed while it writes, part of the patch is there.
GitApply(from, to) ==
  /\ checkout.patch = from
  /\ Clear
  /\ \E exact \in BOOLEAN : checkout' = WithPatch(to, exact)
  /\ UNCHANGED world

GitApplyFails(from) ==
  \/ /\ (checkout.patch # from \/ ~Clear \/ "files" \in checkout.taint)
     /\ UNCHANGED <<checkout, world>>
  \/ /\ Fault
     /\ checkout' \in {checkout, WithPatch("partial", checkout.exact)}

Apply ==
  /\ Goto("apply", "compare")
  /\ GitApply("none", "applied")
  /\ UNCHANGED <<options, hashes, window, undo, files, end>>

\* Nothing is taken back here.
ApplyFails ==
  /\ pc = "apply"
  /\ GitApplyFails("none")
  /\ Throw("failed")
  /\ UNCHANGED <<options, hashes, window, undo, files>>

\* The rest of applyPatchToOriginal when verifyApplied has failed.
TakeBack(why) ==
  /\ pc' = "reverse"
  /\ undoes' = why
  /\ reversed' = FALSE

Compare ==
  /\ Goto("compare", "managed")
  /\ Content(checkout) = Candidate
  /\ disturbed' = FALSE
  /\ UNCHANGED <<options, checkout, hashes, window, undo, files, end, made, faults>>

CompareFails ==
  /\ pc = "compare"
  /\ \/ Content(checkout) # Candidate /\ UNCHANGED world
     \/ Fault
  /\ TakeBack("verification")
  /\ UNCHANGED <<options, checkout, hashes, window, files, end>>

-----------------------------------------------------------------------------
(* verifyOriginalWithoutMutation *)

CaptureManaged ==
  /\ Goto("managed", "snapshot")
  /\ before' = WithOthers(Managed(checkout.edits), checkout.taint)
  /\ UNCHANGED <<options, checkout, hashes, baseline, verified, seen, accepted, undo, files, end, world>>

CaptureSnapshot ==
  /\ Goto("snapshot", "baseline")
  /\ before' = WithOthers(Source(checkout.edits) \cup before.edits, checkout.taint)
  /\ UNCHANGED <<options, checkout, hashes, baseline, verified, seen, accepted, undo, files, end, world>>

CaptureBaseline ==
  /\ Goto("baseline", "verify")
  /\ baseline' = Of(checkout.edits, {"patched", "tracked", "control"})
  /\ UNCHANGED <<options, checkout, hashes, before, verified, seen, accepted, undo, files, end, world>>

CaptureFails ==
  /\ pc \in {"managed", "snapshot", "baseline"}
  /\ Fault
  /\ TakeBack("verification")
  /\ UNCHANGED <<options, checkout, hashes, window, files, end>>

\* The commands of the verifier: they pass or not, and may change anything.
Verify ==
  /\ Goto("verify", "inspect")
  /\ verified' \in BOOLEAN
  /\ seen' = checkout
  /\ \E taint \in SUBSET {"files", "control"} : checkout' = WithOthers(checkout.edits, taint)
  /\ UNCHANGED <<options, hashes, before, baseline, accepted, undo, files, end, world>>

\* Faulty: branches, HEAD and the index are not looked at.
UnchangedWorking ==
  /\ Working(checkout) = Working(before)
  /\ Managed(checkout.edits) = Managed(before.edits)

Unchanged ==
  /\ Working(checkout) = Working(before)
  /\ "control" \notin checkout.taint
  /\ Control(checkout.edits) = Control(baseline)
  /\ Managed(checkout.edits) = Managed(before.edits)

\* #restoreOriginalState: the tracked files are those of the baseline commit, the
\* new ones those of the snapshot.
SourceRestored ==
  WithOthers(Source(baseline) \cup Of(before.edits, {"untracked"})
               \cup (checkout.edits \ Source(checkout.edits)),
             checkout.taint \ {"files"})

\* Then #restoreGitControlState and #restoreManagedState: the baseline and the snapshot.
Restored ==
  WithOthers(baseline \cup Of(before.edits, {"untracked", "managed"}), {})

InspectUnchanged ==
  /\ pc = "inspect"
  /\ Unchanged
  /\ IF verified
     THEN pc' = "commit" /\ accepted' = checkout /\ UNCHANGED undo
     ELSE TakeBack("verification") /\ UNCHANGED accepted
  /\ UNCHANGED <<options, checkout, hashes, before, baseline, verified, seen, files, end, world>>

\* Whatever has changed since the captures is put back, and the verification has
\* failed; so it has when the inspection or the restoration fails.
InspectChanged ==
  /\ pc = "inspect"
  /\ \/ ~Unchanged /\ checkout' = Restored /\ UNCHANGED world
     \/ Fault /\ checkout' \in {checkout, SourceRestored, Restored}
  /\ TakeBack("verification")
  /\ UNCHANGED <<options, hashes, window, files, end>>

-----------------------------------------------------------------------------
(* The durable applied result, or the way back *)

Commit ==
  /\ pc = "commit"
  /\ WriteFile("applied", "cleanup")
  /\ IF next = Last
     THEN succeeded' = TRUE /\ outcome' = "applied"
     ELSE UNCHANGED <<succeeded, outcome>>
  /\ UNCHANGED <<forced, worktree>>

CommitFails ==
  /\ pc = "commit"
  /\ Fault
  /\ TakeBack("artifact")
  /\ next' = 1
  /\ UNCHANGED <<options, checkout, hashes, window, artifact, end>>

\* Faulty: the state as git diffs it is taken for the bytes.
IsRestoredAsGitSees == Working(checkout) = Working(managerHash)

\* verifyRestored of applyPatchToOriginal and of the runner
IsRestored ==
  IF undoes = "verification"
  THEN Content(checkout) = managerHash
  ELSE Content(checkout) = callerHash /\ Working(checkout) = Working(Original)

\* The rollback has failed; only the runner's own forces the worktrees to be kept.
Stuck ==
  /\ pc' = "cleanup"
  /\ outcome' = "stuck"
  /\ forced' = (undoes = "artifact")
  /\ UNCHANGED <<succeeded, worktree>>

\* Faulty: the artifacts of the twin stay as the failed write left them.
TakenBackUnrepaired ==
  IF undoes = "verification" THEN Throw("rolledBack") ELSE Throw("withdrawn")

\* The rollback has succeeded: the twin writes the preliminary artifacts again.
TakenBack ==
  IF undoes = "verification"
  THEN Throw("rolledBack")
  ELSE IF runner = "twin"
       THEN pc' = "repair" /\ UNCHANGED end
       ELSE Throw("withdrawn")

Reverse ==
  /\ Goto("reverse", "check1")
  /\ GitApply("applied", "none")
  /\ reversed' = TRUE
  /\ UNCHANGED <<options, hashes, window, undoes, files, end>>

ReverseFails ==
  /\ Goto("reverse", "native")
  /\ GitApplyFails("applied")
  /\ UNCHANGED <<options, hashes, window, undo, files, end>>

CheckReversed ==
  /\ pc = "check1"
  /\ UNCHANGED <<options, checkout, hashes, window, undo, files>>
  /\ \/ IsRestored /\ TakenBack /\ UNCHANGED world
     \/ ~IsRestored /\ pc' = "reapply" /\ UNCHANGED <<end, world>>
     \/ Fault /\ pc' = "reapply" /\ UNCHANGED end

Reapply ==
  /\ Goto("reapply", "native")
  /\ GitApply("none", "applied")
  /\ UNCHANGED <<options, hashes, window, undo, files, end>>

ReapplyFails ==
  /\ pc = "reapply"
  /\ GitApplyFails("none")
  /\ Stuck
  /\ UNCHANGED <<options, hashes, window, undo, files>>

NativeReverse ==
  /\ Goto("native", "check2")
  /\ GitApply("applied", "none")
  /\ UNCHANGED <<options, hashes, window, undo, files, end>>

NativeReverseFails ==
  /\ pc = "native"
  /\ GitApplyFails("applied")
  /\ Stuck
  /\ UNCHANGED <<options, hashes, window, undo, files>>

CheckNative ==
  /\ pc = "check2"
  /\ UNCHANGED <<options, checkout, hashes, window, undo, files>>
  /\ \/ IsRestored /\ TakenBack /\ UNCHANGED world
     \/ ~IsRestored /\ Stuck /\ UNCHANGED world
     \/ Fault /\ Stuck

Repair ==
  /\ pc = "repair"
  /\ WriteFile("unapplied", "cleanup")
  /\ outcome' = IF next = Last THEN "withdrawn" ELSE outcome
  /\ UNCHANGED <<succeeded, forced, worktree>>

RepairFails ==
  /\ pc = "repair"
  /\ Fault
  /\ pc' = "cleanup"
  /\ outcome' = "unrepaired"
  /\ forced' = TRUE
  /\ UNCHANGED <<options, checkout, hashes, window, undo, files, succeeded, worktree>>

Keep == forced \/ preserve = "always" \/ (preserve = "on-failure" /\ ~succeeded)

\* The finally block: shared control state is put back unless recovery is
\* forced; worktrees that cannot be removed stay.
Cleanup ==
  /\ Goto("cleanup", "done")
  /\ \/ /\ worktree' = IF Keep THEN "kept" ELSE "removed"
        /\ checkout' = IF forced THEN checkout ELSE ControlRestored
        /\ UNCHANGED world
     \/ /\ Fault
        /\ worktree' \in {"kept", IF Keep THEN "kept" ELSE "removed"}
        /\ checkout' \in {checkout, IF forced THEN checkout ELSE ControlRestored}
  /\ UNCHANGED <<options, hashes, window, undo, files, succeeded, forced, outcome>>

-----------------------------------------------------------------------------
(* Everything else that happens *)

\* From the comparison with the candidate to the second capture of the verifier.
Guarded == {"managed", "snapshot", "baseline", "verify", "inspect"}

\* Somebody makes the change, or undoes it.
Edit(e) ==
  /\ pc \notin {"done", "dead"}
  /\ made < MaxEdits
  /\ made' = made + 1
  /\ \/ e \notin checkout.edits /\ checkout' = WithOthers(checkout.edits \cup {e}, checkout.taint)
     \/ e \in checkout.edits /\ checkout' = WithOthers(checkout.edits \ {e}, checkout.taint)
  /\ disturbed' = (disturbed \/ (pc \in Guarded /\ Source({e}) # {}))
  /\ UNCHANGED <<pc, options, hashes, window, undo, files, end, faults>>

Die ==
  /\ pc \notin {"done", "dead"}
  /\ pc' = "dead"
  /\ UNCHANGED <<options, checkout, hashes, window, undo, files, end, world>>

Next ==
  \/ CheckState \/ ControlChanged \/ WritePreliminary \/ PreliminaryFails
  \/ HashForCaller \/ HashForManager \/ HashFails
  \/ Apply \/ ApplyFails
  \/ Compare \/ CompareFails
  \/ CaptureManaged \/ CaptureSnapshot \/ CaptureBaseline \/ CaptureFails
  \/ Verify \/ InspectUnchanged \/ InspectChanged
  \/ Commit \/ CommitFails
  \/ Reverse \/ ReverseFails \/ CheckReversed
  \/ Reapply \/ ReapplyFails
  \/ NativeReverse \/ NativeReverseFails \/ CheckNative
  \/ Repair \/ RepairFails
  \/ Cleanup
  \/ \E e \in Edits : Edit(e)
  \/ Die

Spec == Init /\ [][Next]_vars

-----------------------------------------------------------------------------
(* Safety *)

\* The non-applied result is durable before the checkout is touched (the comment
\* in single.ts on the mutation boundary).
PreliminaryFirst ==
  checkout.patch # "none" => \A f \in 1..Last : artifact[f] # "none"

\* No artifact file says applied unless the whole patch is in the checkout; the
\* twin, which has two files, may say so while it takes the patch back, or when
\* it has kept its worktrees because that failed.
AppliedClaimIsTrue ==
  (\E f \in Files : artifact[f] = "applied") =>
    \/ checkout.patch = "applied"
    \/ runner = "twin" /\ ((undoes = "artifact" /\ pc # "done") \/ forced)

\* What the run ended with is what each of its artifact files says, unless the
\* worktrees are kept because they could not be made to.
ArtifactsAgree ==
  pc = "done" /\ ~forced =>
    \A f \in 1..Last : (artifact[f] = "applied") <=> (outcome = "applied")

\* What is recorded as applied was in this checkout whole and in its exact bytes
\* when the verifier began and passed, and the verifier left nothing behind that
\* git sees, in files or in refs.  When it was done the source held the edits of
\* others that the snapshot before it held, and none at all unless they came after
\* the comparison with the candidate.  The two captures are compared, not what lies
\* between them: an edit that was made after the comparison and is in both is
\* recorded together with the patch, and one made and undone between them passes.
CommittedIsVerified ==
  outcome = "applied" =>
    /\ verified
    /\ seen.patch = "applied" /\ seen.exact
    /\ checkout.taint = {}
    /\ Source(accepted.edits) = Source(before.edits)
    /\ ~disturbed => Content(seen) = Candidate /\ Working(accepted) = Working(Candidate)

\* A rollback that is reported as such left no byte of the patch and no file the
\* verifier had changed (the exact hash, not that git apply succeeded).
RolledBackIsExact ==
  outcome \in {"rolledBack", "withdrawn"} =>
    checkout.patch = "none" /\ checkout.exact /\ "files" \notin checkout.taint

\* When a run ends with the patch, or part of it, in the checkout and does not
\* say so, the worktrees that hold the candidate are still there, unless the
\* user chose to never keep them and the runner did not know of it.
RecoveryIsKept ==
  pc = "done" /\ checkout.patch # "none" /\ outcome # "applied" =>
    worktree = "kept" \/ (preserve = "never" /\ undoes # "artifact")

(* What the documents say, and the code does not do *)

\* defaults.ts: worktrees are preserved on failure.
FailedRunsAreKept ==
  pc = "done" /\ preserve = "on-failure" /\ outcome \notin {"applied", "unapplied"} =>
    worktree = "kept"
=============================================================================
