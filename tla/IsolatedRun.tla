----------------------------- MODULE IsolatedRun -----------------------------
(***************************************************************************)
(* SingleRunner.run (src/src/runner/single.ts) and TwinRunner.run           *)
(* (src/src/runner/twin.ts) from their first line to the end of their       *)
(* finally block, over the worktrees of Worktrees: the snapshot, the        *)
(* worktrees, the app server, the plan's checks, the threads, the arms, the *)
(* containment of arms that do not stop, and the release of everything.     *)
(* The application of the winner is one step here (PatchTransaction takes   *)
(* it apart) and an arm's turn ends well, badly or never (CodexTurn).       *)
(***************************************************************************)
EXTENDS Worktrees

CONSTANT Environments  \* the runs and configurations considered

ASSUME OutcomeAssumption == None \notin {"result", "primary", "cleanup"}

VARIABLES
  pc,         \* the await the run is at
  abort,      \* its signal has fired: the caller, the deadline or the maximum timer
  server,     \* the app server: "none", "open" or "closed"
  thread,     \* the thread of each arm on the server: "none", "open", "deleted", or
              \* "stray" when it was opened and its id never reached the run
  known,      \* the arms whose thread id the run holds
  arm,        \* executeArm: "idle", "turn", "verify" or "settled"
  good,       \* arms whose result is a success
  forced,     \* #forcePreserve
  succeeded,  \* what cleanup is told
  committed,  \* the winner is applied and its artifact written
  threw,      \* the try block has thrown
  errors,     \* cleanupErrors, by the step they come from
  outcome     \* what the caller got: None, "result", "primary" or "cleanup"

rvars == <<pc, abort, server, thread, known, arm, good, forced, succeeded, committed, threw,
           errors, outcome>>
vars == <<wvars, rvars>>
arms    == <<thread, known, arm, good>>
verdict == <<forced, succeeded, committed, errors, outcome>>

Twin == env.runner = "twin"

TypeOK ==
  /\ WTypeOK /\ env \in Environments
  /\ pc \in {"start", "snapshot", "record", "pair", "connect", "query", "route", "resume",
             "threads", "routed", "launch", "arms", "contain", "check", "artifacts", "apply", "telemetry",
             "dispose", "close", "cleanup", "remove", "report", "done"}
  /\ abort \in BOOLEAN /\ server \in {"none", "open", "closed"}
  /\ thread \in [Arms -> {"none", "open", "stray", "deleted"}]
  /\ known \subseteq Mine /\ good \subseteq Mine
  /\ arm \in [Arms -> {"idle", "turn", "verify", "settled"}]
  /\ \A v \in {forced, succeeded, committed, threw} : v \in BOOLEAN
  /\ errors \subseteq {"delete", "close", "control", "worktrees", "root"}
  /\ outcome \in {None, "result", "primary", "cleanup"}

Init ==
  /\ env \in Environments /\ WInit
  /\ pc = "start" /\ abort = FALSE /\ server = "none"
  /\ thread = [a \in Arms |-> "none"] /\ known = {}
  /\ arm = [a \in Arms |-> "idle"] /\ good = {}
  /\ forced = FALSE /\ succeeded = FALSE /\ committed = FALSE /\ threw = FALSE
  /\ errors = {} /\ outcome = None

-----------------------------------------------------------------------------
InTry == pc \notin {"dispose", "close", "cleanup", "remove", "report", "done"}

Throw == pc' = "dispose" /\ threw' = TRUE
Continue(next) == pc' = next /\ UNCHANGED threw

(* throwIfAborted after an await that succeeded. *)
Checked(next) == IF abort THEN Throw ELSE Continue(next)

(* An await of the run: it succeeds, or it fails and the try block throws. *)
Awaits(from, next, checks) ==
  /\ pc = from
  /\ \/ Works /\ IF checks THEN Checked(next) ELSE Continue(next)
     \/ Fault /\ Throw
  /\ UNCHANGED <<made, refs, shared, abort, arms, verdict>>

Start ==
  /\ pc = "start" /\ Checked("snapshot")
  /\ UNCHANGED <<wvars, abort, server, arms, verdict>>

TakeSnapshot ==
  /\ pc = "snapshot"
  /\ \E i \in 1..2 : ReadSnapshot(i)
  /\ UNCHANGED <<env, source, refs, root, step, tree, handles, copied, deps, shared, tampered,
                 chain, trouble, rvars>>

(* The snapshot is checked and the profile is the one of the plan, or it throws. *)
Profile ==
  /\ snap[2] # None
  /\ IF SnapshotIsStable THEN Awaits("snapshot", IF Twin THEN "record" ELSE "pair", TRUE)
     ELSE /\ pc = "snapshot" /\ Works /\ Throw
          /\ UNCHANGED <<made, refs, shared, abort, arms, verdict>>
  /\ UNCHANGED server

RecordStart == Awaits("record", "pair", FALSE) /\ UNCHANGED server

CreatePair ==
  /\ pc = "pair" /\ \A a \in Mine : step[a] = "out"
  /\ step' = [a \in Arms |-> IF a \in Mine THEN "start" ELSE "out"]
  /\ UNCHANGED <<env, source, refs, snap, root, tree, handles, copied, deps, shared, tampered,
                 chain, trouble, rvars>>

(* createPair goes on when the first arm has failed. *)
PairSettledEarly == Created \/ \E a \in Mine : step[a] = "failed"

(* Promise.allSettled *)
PairSettled == Created

(* A pair captures the refs again once both arms are made. *)
PairCreated ==
  /\ pc = "pair" /\ PairSettled
  /\ \/ ~AllReady /\ Works /\ Throw /\ UNCHANGED shared
     \/ AllReady /\ Works /\ Checked("connect") /\ shared' = IF Twin THEN refs ELSE shared
     \/ AllReady /\ Twin /\ Fault /\ Throw /\ UNCHANGED shared
  /\ UNCHANGED <<made, refs, abort, server, arms, verdict>>

(* connect releases the server itself when it fails. *)
Connect ==
  /\ Awaits("connect", "query", TRUE)
  /\ server' = IF trouble' = trouble THEN "open" ELSE server

(* Catalog, limits, telemetry and verifiers; then the quota, the evidence, the
   envelope, the route and the context of the plan, any of which may refuse. *)
Query == Awaits("query", "route", TRUE) /\ UNCHANGED server

Route ==
  Awaits("route", IF env.fork THEN "resume" ELSE "threads", FALSE) /\ UNCHANGED server

ResumeParent == Awaits("resume", "threads", TRUE) /\ UNCHANGED server

(* Promise.all: a pair of which one fails hands over nothing. *)
CaptureTogether(answered) == IF answered = Mine THEN answered ELSE {}

(* settlePairedOperation hands over every id it got. *)
Capture(answered) == answered

(* thread/start or thread/fork for every arm.  A call may fail although the server has
   opened the thread: it timed out, its answer was lost or held no id. *)
StartThreads ==
  /\ pc = "threads"
  /\ \E answered \in SUBSET Mine : \E stray \in SUBSET (Mine \ answered) :
       /\ thread' = [a \in Arms |-> IF a \in answered THEN "open"
                                    ELSE IF a \in stray THEN "stray" ELSE thread[a]]
       /\ known' = Capture(answered)
       /\ IF answered = Mine THEN Works /\ Checked(IF Twin THEN "routed" ELSE "launch")
          ELSE Fault /\ Throw
  /\ UNCHANGED <<made, refs, shared, abort, server, arm, good, verdict>>

RecordRoute == Awaits("routed", "launch", FALSE) /\ UNCHANGED server

-----------------------------------------------------------------------------
Parallel == env.execution = "parallel"

LaunchArms ==
  /\ pc = "launch" /\ Continue("arms")
  /\ arm' = [a \in Arms |-> IF a \in Mine /\ (Parallel \/ a = "control") THEN "turn" ELSE arm[a]]
  /\ UNCHANGED <<wvars, abort, server, thread, known, good, verdict>>

(* The second arm follows the first, whatever has become of the run since. *)
NextArm ==
  /\ Twin /\ arm["control"] = "settled" /\ arm["treatment"] = "idle"
  /\ arm' = [arm EXCEPT !["treatment"] = "turn"]
  /\ UNCHANGED <<wvars, pc, abort, server, thread, known, good, threw, verdict>>

(* The turn ends; its patch is captured unless the agent moved what the worktree is
   controlled by; any failure from here on is a result without success. *)
EndTurn(a) ==
  /\ arm[a] = "turn"
  /\ \/ a \notin tampered /\ arm' = [arm EXCEPT ![a] = "verify"]
     \/ arm' = [arm EXCEPT ![a] = "settled"]
  /\ UNCHANGED <<wvars, pc, abort, server, thread, known, good, threw, verdict>>

EndVerification(a) ==
  /\ arm[a] = "verify"
  /\ arm' = [arm EXCEPT ![a] = "settled"]
  /\ \/ a \notin tampered /\ good' = good \cup {a}
     \/ UNCHANGED good
  /\ UNCHANGED <<wvars, pc, abort, server, thread, known, threw, verdict>>

Running(a) == arm[a] \in {"turn", "verify"}
ArmsSettled == \A a \in Mine : arm[a] = "settled"

ArmsEnd ==
  /\ pc = "arms" /\ ArmsSettled /\ Continue("check")
  /\ UNCHANGED <<wvars, abort, server, arms, verdict>>

(* rejectWhenAborted and the grace timeout: the twin closes the server and forgets it. *)
Contain ==
  /\ pc = "arms" /\ Twin /\ abort /\ Continue("contain")
  /\ server' = "closed"
  /\ UNCHANGED <<wvars, abort, arms, verdict>>

(* settlesWithin: the arms settle ... *)
Contained ==
  /\ pc = "contain" /\ ArmsSettled /\ Throw
  /\ UNCHANGED <<wvars, abort, server, arms, verdict>>

(* The shutdown timeout passes and nobody notes that the arms go on. *)
StillLiveUnnoted ==
  /\ pc = "contain" /\ ~ArmsSettled /\ Throw
  /\ UNCHANGED <<wvars, abort, server, arms, verdict>>

(* The containment waits for the arms. *)
StillLiveAwaited ==
  /\ pc = "contain" /\ ArmsSettled /\ Throw
  /\ UNCHANGED <<wvars, abort, server, arms, verdict>>

(* ... or the shutdown timeout passes. *)
StillLive ==
  /\ pc = "contain" /\ ~ArmsSettled /\ Throw
  /\ forced' = TRUE
  /\ UNCHANGED <<wvars, abort, server, arms, succeeded, committed, errors, outcome>>

-----------------------------------------------------------------------------
(* assertExperimentControlState: every arm's control state, then the shared one. *)
ControlHolds == tampered = {} /\ SharedHolds

(* The winner of verified arms, if there is one; a twin asks for it before it writes. *)
MayWin == good # {}
MayTie == Cardinality(good) # 1

CheckControl ==
  /\ pc = "check"
  /\ \/ /\ ControlHolds /\ source = snap[1] /\ Works /\ UNCHANGED refs
        /\ \/ /\ (env.apply /\ Twin) => MayWin
              /\ Continue("artifacts")
              /\ succeeded' = IF Twin THEN FALSE ELSE good # {}
           \/ env.apply /\ Twin /\ MayTie /\ Throw /\ UNCHANGED succeeded
     \/ /\ ControlHolds /\ source # snap[1] /\ Works
        /\ Throw /\ UNCHANGED <<refs, succeeded>>
     \/ /\ ~ControlHolds
        /\ IF SharedHolds THEN Works /\ UNCHANGED refs ELSE RestoreShared
        /\ Throw /\ UNCHANGED succeeded
  /\ UNCHANGED <<made, shared, abort, server, arms, forced, committed, errors, outcome>>

WriteArtifacts ==
  /\ Awaits("artifacts", IF env.apply THEN "apply" ELSE "telemetry", FALSE)
  /\ UNCHANGED server

(* The whole transaction: applied with its artifact, or taken back, or kept as it is.
   A single run whose arm failed returns its result unapplied. *)
Apply ==
  /\ pc = "apply"
  /\ \/ /\ MayWin /\ Works /\ Continue("telemetry")
        /\ committed' = TRUE /\ UNCHANGED <<forced, succeeded>>
     \/ /\ MayWin /\ Fault /\ Throw
        /\ forced' \in BOOLEAN /\ succeeded' = FALSE /\ UNCHANGED committed
     \/ /\ ~MayWin /\ Works /\ Continue("telemetry")
        /\ UNCHANGED <<forced, succeeded, committed>>
  /\ UNCHANGED <<made, refs, shared, abort, server, arms, errors, outcome>>

(* A telemetry event that is not written is a warning. *)
Complete ==
  /\ pc = "telemetry" /\ Continue("dispose")
  /\ succeeded' = IF Twin THEN good # {} ELSE succeeded
  /\ UNCHANGED <<wvars, abort, server, arms, forced, committed, errors, outcome>>

-----------------------------------------------------------------------------
(* The finally block: every thread whose id is known is deleted, the server closed, the
   worktrees cleaned up; each failure is kept and the next step taken.  A deletion that
   is reported as failed may have been carried out. *)
DeleteThreads ==
  /\ pc = "dispose"
  /\ IF server # "open" THEN Works /\ UNCHANGED <<thread, errors>>
     ELSE \E deleted \in SUBSET known : \E failed \in SUBSET known :
            /\ known \ failed \subseteq deleted
            /\ thread' = [a \in Arms |-> IF a \in deleted THEN "deleted" ELSE thread[a]]
            /\ IF failed = {} THEN Works /\ UNCHANGED errors
               ELSE Fault /\ errors' = errors \cup {"delete"}
  /\ pc' = IF server = "open" THEN "close" ELSE "cleanup"
  /\ UNCHANGED <<made, refs, shared, abort, server, known, arm, good, forced, succeeded,
                 committed, threw, outcome>>

CloseServer ==
  /\ pc = "close" /\ pc' = "cleanup" /\ server' = "closed"
  /\ \/ Works /\ UNCHANGED errors
     \/ Fault /\ errors' = errors \cup {"close"}
  /\ UNCHANGED <<made, refs, shared, abort, arms, forced, succeeded, committed, threw, outcome>>

Keep == env.preserve = "always" \/ (env.preserve = "on-failure" /\ ~succeeded)

(* cleanup only looks at the refs when the run failed none of its checks. *)
CleanupUnchecked ==
  /\ pc = "cleanup" /\ Works
  /\ pc' = IF (handles # {} /\ (forced \/ Keep)) \/ root = "none" THEN "report" ELSE "remove"
  /\ UNCHANGED <<made, refs, errors, shared, abort, server, arms, forced, succeeded, committed,
                 threw, outcome>>

Cleanup ==
  /\ pc = "cleanup"
  /\ IF forced /\ handles # {} THEN Works /\ pc' = "report" /\ UNCHANGED <<refs, errors>>
     ELSE /\ IF SharedHolds THEN Works /\ UNCHANGED <<refs, errors>>
             ELSE RestoreShared /\ errors' = errors \cup {"control"}
          /\ pc' = IF (Keep /\ handles # {}) \/ root = "none" THEN "report" ELSE "remove"
  /\ UNCHANGED <<made, shared, abort, server, arms, forced, succeeded, committed, threw, outcome>>

(* Every worktree is unregistered, whichever fail; the root goes when none did. *)
RemoveWorktrees ==
  /\ pc = "remove" /\ pc' = "report"
  /\ \E left \in SUBSET handles :
       /\ {a \in handles : tree[a] # "registered"} \subseteq left
       /\ tree' = [a \in Arms |-> IF a \in handles \ left THEN "none" ELSE tree[a]]
       /\ \/ /\ left # {} /\ UNCHANGED root /\ errors' = errors \cup {"worktrees"}
             /\ IF \E a \in left : tree[a] = "registered" THEN Fault ELSE Works
          \/ /\ left = {} /\ Works /\ root' = "removed" /\ UNCHANGED errors
          \/ /\ left = {} /\ Fault /\ errors' = errors \cup {"root"} /\ UNCHANGED root
  /\ UNCHANGED <<env, source, refs, snap, step, handles, copied, deps, shared, tampered, chain,
                 abort, server, arms, forced, succeeded, committed, threw, outcome>>

(* A failed cleanup is thrown, whatever was committed. *)
ReportCleanupFirst ==
  IF errors # {} THEN "cleanup" ELSE IF threw THEN "primary" ELSE "result"

(* A twin reports a commit before its first error, and that before its cleanup's; a
   single run's result stands, and its cleanup's errors replace its first one. *)
Reported ==
  CASE ~threw /\ (committed \/ errors = {} \/ ~Twin) -> "result"
    [] threw /\ (Twin \/ errors = {})                 -> "primary"
    [] OTHER                                           -> "cleanup"

Report ==
  /\ pc = "report" /\ pc' = "done" /\ outcome' = Reported
  /\ UNCHANGED <<wvars, abort, server, arms, forced, succeeded, committed, errors, threw>>

-----------------------------------------------------------------------------
(* The caller gives up, or a timer of the run fires; finally unlinks both. *)
Abort ==
  /\ InTry /\ ~abort /\ abort' = TRUE
  /\ UNCHANGED <<wvars, pc, server, arms, threw, verdict>>

(* The user edits the checkout, or commits in it. *)
Edit ==
  /\ source' \in Versions /\ source' > source
  /\ UNCHANGED <<env, refs, snap, root, step, tree, handles, copied, deps, shared, tampered, chain,
                 trouble, rvars>>

MoveRefs ==
  /\ refs = "nobody"
  /\ \/ refs' = "user" /\ pc # "done"
     \/ refs' = "agent" /\ \E a \in Arms : Running(a)
  /\ UNCHANGED <<made, shared, trouble, rvars>>

(* An agent or a verifier's command commits in its worktree, or changes managed paths. *)
Tamper(a) ==
  /\ Running(a) /\ a \notin tampered
  /\ tampered' = tampered \cup {a}
  /\ UNCHANGED <<env, source, refs, snap, root, step, tree, handles, copied, deps, shared, chain,
                 trouble, rvars>>

RunStep ==
  \/ Start \/ TakeSnapshot \/ Profile \/ RecordStart \/ CreatePair \/ PairCreated
  \/ Connect \/ Query \/ Route \/ ResumeParent \/ StartThreads \/ RecordRoute \/ LaunchArms
  \/ ArmsEnd \/ Contain \/ Contained \/ StillLive
  \/ CheckControl \/ WriteArtifacts \/ Apply \/ Complete
  \/ DeleteThreads \/ CloseServer \/ Cleanup \/ RemoveWorktrees \/ Report
  \/ (Create /\ UNCHANGED rvars)

Next ==
  \/ RunStep \/ Abort \/ Edit \/ MoveRefs \/ NextArm
  \/ \E a \in Arms : EndTurn(a) \/ EndVerification(a) \/ Tamper(a)

Spec == Init /\ [][Next]_vars

(* The run's own awaits end (their time is bounded) and the maximum timer of a twin
   fires; nothing makes an arm end. *)
FairSpec == Spec /\ WF_vars(RunStep) /\ WF_vars(Twin /\ Abort)

-----------------------------------------------------------------------------
(* No worktree is removed from under an arm that may still be running in it, and no two
   operations change the worktrees of the repository at once. *)
NoWorktreeUnderAnArm ==
  /\ TypeOK
  /\ \A o, p \in Ops : (Active(o) /\ Active(p)) => o = p
  /\ \A a \in Arms : Running(a) => tree[a] = "registered" /\ root = "made"

(* Nothing the run was told of is left behind unsaid: every thread whose id an answer
   gave it is deleted, or its deletion was tried and reported as failed, or the server
   was closed on arms under way.  A thread whose call failed although the server opened
   it stays, and then the run has failed before any arm began.  A worktree git still
   knows at the end was kept by the policy, for recovery, or could not be removed; and
   the root is not deleted from under one. *)
NothingIsLeaked ==
  /\ pc = "done" => \A a \in Arms :
       /\ thread[a] = "open" =>
            "delete" \in errors \/ (threw /\ arm["control"] # "idle" /\ server = "closed")
       /\ thread[a] = "stray" => threw /\ \A b \in Arms : arm[b] = "idle"
       /\ tree[a] = "registered" => forced \/ Keep \/ "worktrees" \in errors
  /\ root = "removed" => \A a \in Arms : tree[a] # "registered"

(* A result is only returned of arms whose control state and shared refs were left
   alone by their agents, and the refs an agent moved are moved back, unless the
   restoration failed or the run was told to keep everything. *)
TamperingIsUndone ==
  /\ outcome = "result" => tampered = {} /\ refs # "agent"
  /\ (pc = "done" /\ refs = "agent") => forced \/ "control" \in errors

(* What was applied is reported as a result whatever cleanup met, a failed run never
   is, and a twin's first error is the one its caller sees. *)
OutcomeIsFaithful ==
  pc = "done" =>
    /\ committed => outcome = "result"
    /\ (outcome = "result") <=> ~threw /\ (committed \/ ~Twin \/ errors = {})
    /\ (Twin /\ threw) => outcome = "primary"

(* A twin ends although its arms may not. *)
RunEnds == Twin => <>(pc = "done")
=============================================================================
