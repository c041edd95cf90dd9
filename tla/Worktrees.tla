------------------------------ MODULE Worktrees ------------------------------
(***************************************************************************)
(* WorktreeManager of src/src/git/worktree.ts while a run makes and removes *)
(* its isolated worktrees, and captureSnapshot of src/src/git/snapshot.ts.  *)
(* The arms of a pair are created side by side: git worktree commands take  *)
(* turns on a chain of promises, both arms share one memoized copy of the   *)
(* dependencies and one capture of the repository's refs, and each arm      *)
(* cleans up after itself when its creation fails.  The working files of    *)
(* the user are a version number.                                           *)
(***************************************************************************)
EXTENDS Integers, FiniteSets

CONSTANTS None,       \* nothing, or no predecessor in the chain
          Out,        \* an operation that has not joined the chain
          Pending, Broken,  \* a promise that is not settled, one that was rejected
          MaxTrouble  \* how many operations fail

Arms == {"control", "treatment"}
Ops  == {"add", "undo"} \X Arms
Versions == 0..1

(* The marks stand for nothing else. *)
ASSUME MarksAssumption ==
  /\ None \notin Ops \cup Versions \cup {"failed", "nobody", "user", "agent"}
  /\ Out \notin Ops \cup {None}
  /\ Pending \notin Versions \cup {None, Broken} /\ Broken \notin Versions \cup {None}
  /\ MaxTrouble \in Nat

VARIABLES
  env,       \* [runner, execution, preserve, apply]: the run and its configuration
  source,    \* the version of the user's files
  refs,      \* who last moved a shared ref: "nobody", the "user" or an "agent"
  snap,      \* the versions the parts of the snapshot were read at
  root,      \* the bounded root of the run's worktrees: "none", "made" or "removed"
  step,      \* how far the creation of each arm is
  tree,      \* what of it is on disk: "none", a "dir" alone, or "registered"
  handles,   \* #handles
  copied,    \* the versions of files and dependencies an arm was filled with
  deps,      \* #dependencySnapshots: None, Pending, Broken or a version
  shared,    \* #sharedControlState: None, "failed", or whose refs it recorded
  tampered,  \* arms whose HEAD, index or managed paths their agent changed
  tail, waits, released,  \* repositoryWorktreeMutationTails: the chain
  trouble    \* how many operations have failed

chain == <<tail, waits, released>>
wvars == <<env, source, refs, snap, root, step, tree, handles, copied, deps, shared,
           tampered, tail, waits, released, trouble>>
made == <<env, source, snap, root, step, tree, handles, copied, deps, tampered, chain>>

(* A single run has one arm. *)
Mine == IF env.runner = "single" THEN {"control"} ELSE Arms

WTypeOK ==
  /\ source \in Versions /\ refs \in {"nobody", "user", "agent"}
  /\ snap \in [1..2 -> Versions \cup {None}]
  /\ root \in {"none", "made", "removed"}
  /\ step \in [Arms -> {"out", "start", "add", "inspect", "fill", "deps", "share", "undo",
                        "ready", "failed"}]
  /\ tree \in [Arms -> {"none", "dir", "registered"}]
  /\ handles \subseteq Mine /\ tampered \subseteq Mine
  /\ copied \in [Arms -> [files : Versions \cup {None}, deps : Versions \cup {None}]]
  /\ deps \in Versions \cup {None, Pending, Broken}
  /\ shared \in {None, "failed", "nobody", "user", "agent"}
  /\ tail \in Ops \cup {None} /\ waits \in [Ops -> Ops \cup {None, Out}]
  /\ released \subseteq Ops
  /\ trouble \in 0..MaxTrouble

WInit ==
  /\ source = 0 /\ refs = "nobody" /\ snap = [i \in 1..2 |-> None]
  /\ root = "none" /\ step = [a \in Arms |-> "out"] /\ tree = [a \in Arms |-> "none"]
  /\ handles = {} /\ copied = [a \in Arms |-> [files |-> None, deps |-> None]]
  /\ deps = None /\ shared = None /\ tampered = {}
  /\ tail = None /\ waits = [o \in Ops |-> Out] /\ released = {}
  /\ trouble = 0

Fault == trouble < MaxTrouble /\ trouble' = trouble + 1
Works == trouble' = trouble

-----------------------------------------------------------------------------
(* withRepositoryWorktreeMutation: an operation waits for the tail it found. *)
Enter(op) ==
  /\ waits' = [waits EXCEPT ![op] = tail]
  /\ tail' = op
  /\ UNCHANGED released

Active(op) ==
  /\ waits[op] # Out /\ op \notin released
  /\ waits[op] = None \/ waits[op] \in released

Release(op) ==
  /\ released' = released \cup {op}
  /\ tail' = IF tail = op THEN None ELSE tail
  /\ UNCHANGED waits

-----------------------------------------------------------------------------
(* captureSnapshot reads HEAD and the patch, then the untracked files ... *)
ReadSnapshot(i) ==
  /\ snap[i] = None
  /\ i = 2 => snap[1] # None
  /\ snap' = [snap EXCEPT ![i] = source]

(* Nothing is hashed again. *)
SnapshotIsStableUnchecked == snap[2] # None

(* ... and hashes everything again: only an unchanged source is a snapshot. *)
SnapshotIsStable == \A i \in 1..2 : snap[i] = source

-----------------------------------------------------------------------------
At(a, s) == a \in Mine /\ step[a] = s
Goto(a, s) == step' = [step EXCEPT ![a] = s]

(* create: the root is made safe, then the add waits for its turn. *)
StartCreate(a) ==
  /\ At(a, "start") /\ Goto(a, "add")
  /\ root' = "made"
  /\ Enter(<<"add", a>>)
  /\ UNCHANGED <<env, source, refs, snap, tree, handles, copied, deps, shared, tampered, trouble>>

AddWorktree(a) ==
  /\ At(a, "add") /\ Active(<<"add", a>>) /\ Release(<<"add", a>>) /\ Works
  /\ tree' = [tree EXCEPT ![a] = "registered"]
  /\ handles' = handles \cup {a}
  /\ Goto(a, "fill")
  /\ UNCHANGED <<env, source, refs, snap, root, copied, deps, shared, tampered>>

(* The root, or what has the arm's name in it, cannot be made safe: create throws before
   it has anything to undo. *)
StartCreateFails(a) ==
  /\ At(a, "start") /\ Fault /\ Goto(a, "failed")
  /\ root' \in {root, "made"}
  /\ UNCHANGED <<env, source, refs, snap, tree, handles, copied, deps, shared, tampered, chain>>

(* git worktree add is killed or refused: it may leave a directory or more. *)
AddFails(a) ==
  /\ At(a, "add") /\ Active(<<"add", a>>) /\ Release(<<"add", a>>) /\ Fault
  /\ \E left \in {"none", "dir", "registered"} : tree' = [tree EXCEPT ![a] = left]
  /\ Goto(a, "inspect")
  /\ UNCHANGED <<env, source, refs, snap, root, handles, copied, deps, shared, tampered>>

Undo(a) ==
  /\ Goto(a, "undo") /\ Enter(<<"undo", a>>)

(* Only what was partly created is undone. *)
Inspect(a) ==
  /\ At(a, "inspect") /\ Works
  /\ \/ tree[a] = "none" /\ Goto(a, "failed") /\ UNCHANGED <<chain, handles>>
     \/ tree[a] # "none" /\ Undo(a) /\ handles' = handles \cup {a}
  /\ UNCHANGED <<env, source, refs, snap, root, tree, copied, deps, shared, tampered>>

(* An unknown state is kept for recovery. *)
InspectFails(a) ==
  /\ At(a, "inspect") /\ Fault
  /\ Goto(a, "failed")
  /\ handles' = handles \cup {a}
  /\ UNCHANGED <<env, source, refs, snap, root, tree, copied, deps, shared, tampered, chain>>

(* The snapshot is restored into the worktree and committed as its baseline. *)
FillWorktree(a) ==
  /\ At(a, "fill")
  /\ \/ /\ Works /\ Goto(a, "deps")
        /\ copied' = [copied EXCEPT ![a].files = snap[1]]
        /\ UNCHANGED <<tail, waits, released>>
     \/ Fault /\ Undo(a) /\ UNCHANGED copied
  /\ UNCHANGED <<env, source, refs, snap, root, tree, handles, deps, shared, tampered>>

(* getDependencySnapshot: the first arm to ask starts the one snapshot ... *)
DependencySnapshot(a) == deps' = Pending /\ UNCHANGED copied

AskDependencies(a) ==
  /\ At(a, "deps") /\ deps = None
  /\ DependencySnapshot(a)
  /\ UNCHANGED <<env, source, refs, snap, root, step, tree, handles, shared, tampered, chain,
                 trouble>>

BuildDependencies ==
  /\ deps = Pending
  /\ \/ Works /\ deps' = source
     \/ Fault /\ deps' = Broken
  /\ UNCHANGED <<env, source, refs, snap, root, step, tree, handles, copied, shared, tampered,
                 chain>>

(* ... and every arm copies that one, or fails with it. *)
Materialize(a) ==
  /\ At(a, "deps") /\ deps \notin {None, Pending, Broken} /\ Works
  /\ copied' = [copied EXCEPT ![a].deps = deps]
  /\ Goto(a, "share")
  /\ UNCHANGED <<env, source, refs, snap, root, tree, handles, deps, shared, tampered, chain>>

MaterializeFails(a) ==
  /\ At(a, "deps") /\ deps \notin {None, Pending}
  /\ IF deps = Broken THEN Works ELSE Fault
  /\ Undo(a)
  /\ UNCHANGED <<env, source, refs, snap, root, tree, handles, copied, deps, shared, tampered>>

(* The refs are captured by the first arm that comes here; a failure is kept. *)
ShareControl(a) ==
  /\ At(a, "share")
  /\ \/ shared = None /\ Works /\ shared' = refs
     \/ shared = None /\ Fault /\ shared' = "failed"
     \/ shared # None /\ Works /\ UNCHANGED shared
  /\ IF shared' = "failed" THEN Undo(a)
     ELSE Goto(a, "ready") /\ UNCHANGED <<tail, waits, released>>
  /\ UNCHANGED <<env, source, refs, snap, root, tree, handles, copied, deps, tampered>>

(* git worktree remove only knows registered worktrees. *)
UndoCreate(a) ==
  /\ At(a, "undo") /\ Active(<<"undo", a>>) /\ Release(<<"undo", a>>)
  /\ Goto(a, "failed")
  /\ \/ /\ tree[a] = "registered" /\ Works
        /\ tree' = [tree EXCEPT ![a] = "none"] /\ handles' = handles \ {a}
     \/ /\ IF tree[a] = "registered" THEN Fault ELSE Works
        /\ UNCHANGED <<tree, handles>>
  /\ UNCHANGED <<env, source, refs, snap, root, copied, deps, shared, tampered>>

Create ==
  \/ \E a \in Arms :
       \/ StartCreate(a) \/ StartCreateFails(a) \/ AddWorktree(a) \/ AddFails(a)
       \/ Inspect(a) \/ InspectFails(a)
       \/ FillWorktree(a) \/ AskDependencies(a) \/ Materialize(a) \/ MaterializeFails(a)
       \/ ShareControl(a) \/ UndoCreate(a)
  \/ BuildDependencies

Created == \A a \in Mine : step[a] \in {"ready", "failed"}
AllReady == \A a \in Mine : step[a] = "ready"

-----------------------------------------------------------------------------
(* assertSharedGitControlsUnchanged: what moved is moved back, and it throws;
   a failing restoration leaves it and throws too. *)
SharedHolds == shared # "failed" /\ shared \in {None, refs}

RestoreShared ==
  \/ shared = "failed" /\ Works /\ UNCHANGED refs
  \/ shared # "failed" /\ Works /\ refs' = shared
  \/ shared # "failed" /\ Fault /\ UNCHANGED refs

-----------------------------------------------------------------------------
(* What the arms are filled with is a state the checkout was in, and paired arms start
   from one snapshot of the files and one of the dependencies. *)
ArmsAreFaithful ==
  /\ (\E a \in Mine : step[a] # "out") => snap[1] # None /\ snap[1] = snap[2]
  /\ \A a, b \in Mine : (step[a] = "ready" /\ step[b] = "ready") => copied[a] = copied[b]
=============================================================================
