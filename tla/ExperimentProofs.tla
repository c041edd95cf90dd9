-------------------------- MODULE ExperimentProofs --------------------------
(***************************************************************************)
(* Proofs about Experiment for any schedule, any number of commands and of *)
(* deaths, and anything a turn, a bundle or a verifier may say.  The       *)
(* argument: the exclusive attempt marker alone lets one process per       *)
(* assignment into the turn and on to the ledger, whoever holds the lock;  *)
(* the lock only has to keep what a process has checked from changing.     *)
(***************************************************************************)
EXTENDS Experiment, TLAPS

LogKinds == Logs \cup {"verified", "failure", None}

Artifacts == [evidence : Evidence \cup {None}, logs : LogKinds]

TrialRecords ==
  [id : Assignments, completed : BOOLEAN, visible : BOOLEAN, hidden : BOOLEAN,
   verified : BOOLEAN, bad : BOOLEAN, compliance : {"compliant", "noncompliant", "unknown"},
   contamination : SUBSET Codes, catalog : Catalogs \cup {Unavailable}, quota : Nat,
   route : {"verified", Unavailable, "not-applicable"}, problems : SUBSET RouteProblems,
   rerouted : BOOLEAN, cost : Nat \cup {NoCost}, artifacts : Artifacts]

\* The steps from the attempt marker to the ledger.
Spending == {"turn", "turning", "verify", "append", "retain", "retainAppend"}

Spends(p) == pc[p] \in Spending /\ IsCodex(job[p])

Typed ==
  /\ TypeOK
  /\ ledger \in Seq(TrialRecords)
  /\ disk \in [Assignments -> Artifacts]
  /\ job \in [Procs -> Assignments \cup {None}]
  /\ held \in [Procs -> Evidence \cup Logs \cup {None}]
  /\ truth \in [Assignments -> Runs \cup {None}]
  /\ sealed \in [Assignments \ CodexAssignments -> Bundles]
  /\ env \in Environments
  /\ crashes \in Nat /\ faults \in Nat

\* What a process has in memory fits its assignment and where it is.
Carried ==
  \A p \in Procs :
    /\ pc[p] \in {"check", "prepare", "mark"} \cup (Spending \ {"append"}) => IsCodex(job[p])
    /\ pc[p] = "derive" => ~IsCodex(job[p])
    /\ (pc[p] = "mark" \/ Spends(p)) => held[p] \in Evidence
    /\ (pc[p] \notin {"idle", "derive"} /\ ~IsCodex(job[p])) => held[p] \in Logs
    /\ (Spends(p) /\ pc[p] \notin {"turn", "turning"}) => truth[job[p]] \in Runs
    /\ (Spends(p) /\ pc[p] = "append") =>
         ~truth[job[p]].movedHead /\ ~truth[job[p]].mutates

\* A turn in hand has no line in the ledger but for one whose append failed.
Unrecorded(p) ==
  Recorded(job[p]) => pc[p] \in {"retain", "retainAppend"} /\ job[p] \in rejected

\* The marker admits one process per assignment to the turn, whoever holds the lock.
Spent ==
  /\ \A p \in Procs : Spends(p) => job[p] \in marker /\ Unrecorded(p)
  /\ \A p, q \in Procs : Spends(p) /\ Spends(q) /\ job[p] = job[q] => p = q
  /\ \A a \in Assignments : turns[a] <= 1 /\ (a \notin marker => turns[a] = 0)
  /\ \A p \in Procs : Spends(p) /\ pc[p] = "turn" => turns[job[p]] = 0
  /\ \A t \in Trials : IsCodex(t.id) => t.id \in marker
  /\ \A a \in rejected : Recorded(a)

\* A recorded trial says of the turn what happened in it.
Honest(t) ==
  IF IsCodex(t.id)
    THEN LET run == truth[t.id]
             sound == run.exit = "ok" /\ ~run.movedHead /\ ~run.mutates
         IN  /\ run \in Runs
             /\ t.rerouted = run.rerouted /\ t.problems = run.problems
             /\ t.route = RouteStatus(t.id, run)
             /\ t.verified => sound /\ run.visible /\ run.hidden
             /\ t.bad => sound /\ run.visible /\ ~run.hidden
             /\ sound /\ run.visible /\ run.hidden => t.verified \/ "other" \in t.contamination
    ELSE t.cost = NoCost

AllHonest == \A t \in Trials : Honest(t)

\* While no lock file was left behind its holder is the one process past it.
Locked ==
  /\ lock.by = None => lock = NoLock
  /\ lock.by \in Procs => /\ pc[lock.by] \in Holding \cup {"write"}
                          /\ Holds(lock.by) => lock.written
  /\ ~left =>
       /\ lock.by # Dead
       /\ \A p \in Procs : /\ pc[p] # "rename"
                           /\ pc[p] \in Holding \cup {"write"} => lock.by = p
  /\ shared => left

\* As long as no two processes have held the lock at once, what one has checked stays.
Exclusive ==
  ~shared =>
    /\ \A p, q \in Procs : Holds(p) /\ Holds(q) => p = q
    /\ \A p \in Procs : pc[p] \in {"prepare", "mark"} => job[p] \notin marker
    /\ \A t \in Trials : IsCodex(t.id) => ArtifactsMatch(t) \/ t.id \in rejected

InHand ==
  crashes = 0 =>
    \A a \in CodexAssignments : turns[a] > 0 =>
      \/ Recorded(a) /\ a \notin rejected
      \/ a \in kept
      \/ \E p \in Procs : Spends(p) /\ job[p] = a

IInv ==
  /\ Typed /\ Carried /\ Spent /\ AllHonest /\ Locked /\ Exclusive /\ InHand
  /\ PreregisteredOrder

USE DEF Goto, At, Spending, Holding, Holds, Spends, NoLock, Dead

-----------------------------------------------------------------------------
(* The ledger and the trials in it *)

LEMMA SameLedger ==
  ASSUME UNCHANGED ledger
  PROVE  /\ Trials' = Trials
         /\ \A a : Recorded(a)' = Recorded(a)
         /\ PreregisteredOrder' = PreregisteredOrder
<1>1. Trials' = Trials
  BY DEF Trials
<1>2. \A a : Recorded(a)' = Recorded(a)
  BY <1>1 DEF Recorded
<1>3. PreregisteredOrder' = PreregisteredOrder
  BY DEF PreregisteredOrder
<1> QED
  BY <1>1, <1>2, <1>3

LEMMA LongerLedger ==
  ASSUME ledger \in Seq(TrialRecords), NEW c \in TrialRecords, ledger' = Append(ledger, c)
  PROVE  /\ ledger' \in Seq(TrialRecords)
         /\ Trials' = Trials \cup {c}
         /\ \A a : Recorded(a)' <=> Recorded(a) \/ a = c.id
<1>1. /\ ledger' \in Seq(TrialRecords) /\ Len(ledger') = Len(ledger) + 1
      /\ Len(ledger) \in Nat /\ DOMAIN ledger = 1..Len(ledger) /\ DOMAIN ledger' = 1..Len(ledger')
      /\ ledger'[Len(ledger) + 1] = c
      /\ \A i \in DOMAIN ledger : ledger'[i] = ledger[i]
  OBVIOUS
<1>2. DOMAIN ledger' = DOMAIN ledger \cup {Len(ledger) + 1}
  BY <1>1
<1>3. Trials' = Trials \cup {c}
  BY <1>1, <1>2 DEF Trials, Range
<1>4. \A a : Recorded(a)' <=> Recorded(a) \/ a = c.id
  BY <1>3 DEF Recorded
<1> QED
  BY <1>1, <1>3, <1>4

LEMMA ChecksType ==
  ASSUME NEW t \in TrialRecords
  PROVE  /\ ArmChecked(t) \in TrialRecords
         /\ [ArmChecked(t) EXCEPT !.contamination = @ \cup {"quota-interference"}] \in TrialRecords
<1>1. ArmIssues(t) \subseteq Codes
  BY DEF ArmIssues, RouteIssues, BackendRouteIssues, Codes
<1>2. "quota-interference" \in Codes
  BY DEF Codes
<1> DEFINE u == [t EXCEPT !.contamination = @ \cup ArmIssues(t)]
           v == [u EXCEPT !.compliance = "noncompliant"]
<1>3. u \in TrialRecords
  BY <1>1 DEF TrialRecords
<1>4. v \in TrialRecords
  <2> HIDE DEF u
  <2> QED
    BY <1>3 DEF TrialRecords
<1>5. ArmChecked(t) = t \/ ArmChecked(t) = v
  BY DEF ArmChecked
<1> HIDE DEF v
<1>6. ArmChecked(t) \in TrialRecords
  BY <1>4, <1>5
<1> QED
  BY <1>2, <1>6 DEF TrialRecords

\* What the automatic checks leave of a trial, and that they leave it valid.
LEMMA ArmCheckKeeps ==
  ASSUME NEW t \in TrialRecords
  PROVE  LET c == ArmChecked(t)
         IN  /\ c.id = t.id /\ c.verified = t.verified /\ c.bad = t.bad
             /\ c.rerouted = t.rerouted /\ c.problems = t.problems /\ c.route = t.route
             /\ c.cost = t.cost /\ c.artifacts = t.artifacts
             /\ c.completed = t.completed /\ c.visible = t.visible /\ c.hidden = t.hidden
             /\ t.contamination \subseteq c.contamination
             /\ t.compliance = "noncompliant" => c.compliance = "noncompliant"
<1>1. CASE ~IsCodex(t.id) \/ ArmIssues(t) = {}
  BY <1>1 DEF ArmChecked
<1>2. CASE ~(~IsCodex(t.id) \/ ArmIssues(t) = {})
  <2> DEFINE u == [t EXCEPT !.contamination = @ \cup ArmIssues(t)]
             c == [u EXCEPT !.compliance = "noncompliant"]
  <2>1. ArmChecked(t) = c
    BY <1>2 DEF ArmChecked
  <2>2. /\ u.id = t.id /\ u.verified = t.verified /\ u.bad = t.bad
        /\ u.rerouted = t.rerouted /\ u.problems = t.problems /\ u.route = t.route
        /\ u.cost = t.cost /\ u.artifacts = t.artifacts
        /\ u.completed = t.completed /\ u.visible = t.visible /\ u.hidden = t.hidden
        /\ u.contamination = t.contamination \cup ArmIssues(t)
    BY DEF TrialRecords
  <2>3. /\ c.id = u.id /\ c.verified = u.verified /\ c.bad = u.bad
        /\ c.rerouted = u.rerouted /\ c.problems = u.problems /\ c.route = u.route
        /\ c.cost = u.cost /\ c.artifacts = u.artifacts
        /\ c.completed = u.completed /\ c.visible = u.visible /\ c.hidden = u.hidden
        /\ c.contamination = u.contamination /\ c.compliance = "noncompliant"
    BY DEF TrialRecords
  <2> QED
    BY <2>1, <2>2, <2>3
<1> QED
  BY <1>1, <1>2

LEMMA ChecksKeep ==
  ASSUME NEW t \in TrialRecords, NEW c \in TrialRecords,
         c \in {ArmChecked(t), [ArmChecked(t) EXCEPT !.contamination = @ \cup {"quota-interference"}]}
  PROVE  /\ c.id = t.id /\ c.verified = t.verified /\ c.bad = t.bad
         /\ c.rerouted = t.rerouted /\ c.problems = t.problems /\ c.route = t.route
         /\ c.cost = t.cost /\ c.artifacts = t.artifacts
         /\ t.contamination \subseteq c.contamination
         /\ ValidTrialRecord(t) => ValidTrialRecord(c)
<1> DEFINE u == ArmChecked(t)
<1>1. u \in TrialRecords
  BY ChecksType
<1>2. /\ c.id = u.id /\ c.verified = u.verified /\ c.bad = u.bad
      /\ c.rerouted = u.rerouted /\ c.problems = u.problems /\ c.route = u.route
      /\ c.cost = u.cost /\ c.artifacts = u.artifacts
      /\ c.completed = u.completed /\ c.visible = u.visible /\ c.hidden = u.hidden
      /\ u.contamination \subseteq c.contamination /\ c.compliance = u.compliance
  <2> HIDE DEF u
  <2> QED
    BY <1>1 DEF TrialRecords, u
<1>3. c.contamination \subseteq Codes
  BY DEF TrialRecords
<1> HIDE DEF u
<1>4. ASSUME ValidTrialRecord(t) PROVE ValidTrialRecord(c)
  BY <1>2, <1>3, <1>4, ArmCheckKeeps DEF ValidTrialRecord, RouteIsHonest, u
<1> QED
  BY <1>2, <1>4, ArmCheckKeeps DEF u

\* The line appended is the candidate as the checks amend it.
LEMMA RecordedIsCandidate ==
  ASSUME Trials \subseteq TrialRecords, NEW t \in TrialRecords, ~Recorded(t.id)
  PROVE  LET c == AsRecorded(t)
         IN  /\ c \in TrialRecords
             /\ c.id = t.id /\ c.verified = t.verified /\ c.bad = t.bad
             /\ c.rerouted = t.rerouted /\ c.problems = t.problems /\ c.route = t.route
             /\ c.cost = t.cost /\ c.artifacts = t.artifacts
             /\ t.contamination \subseteq c.contamination
             /\ ValidTrialRecord(t) => ValidTrialRecord(c)
<1> DEFINE all == Trials \cup {t}
           Held(s) == [ArmChecked(s) EXCEPT !.contamination = @ \cup {"quota-interference"}]
           Amended(s) == IF DriftIsHeldAgainst(s, all) THEN Held(s) ELSE ArmChecked(s)
<1>1. AutomaticallyChecked(all) = {Amended(s) : s \in all}
  BY DEF AutomaticallyChecked
<1>2. \A s \in all : s \in TrialRecords /\ Amended(s) \in {ArmChecked(s), Held(s)}
  OBVIOUS
<1>3. \A s \in all : Amended(s) \in TrialRecords
  BY <1>2, ChecksType
<1>4. \A s \in all : Amended(s).id = s.id
  BY <1>2, <1>3, ChecksKeep
<1> HIDE DEF Amended
<1>5. \A s \in all : s.id = t.id => s = t
  BY DEF Recorded
<1>6. AsRecorded(t) = Amended(t)
  BY <1>1, <1>4, <1>5 DEF AsRecorded
<1> QED
  BY <1>2, <1>3, <1>6, ChecksKeep

-----------------------------------------------------------------------------
(* The steps *)

Places == {"idle", "derive", "open", "write", "inspect", "rename"} \cup Holding

LEMMA Shapes ==
  ASSUME IInv
  PROVE  /\ pc \in [Procs -> Places]
         /\ job \in [Procs -> Assignments \cup {None}]
         /\ \A p \in Procs : pc[p] # "idle" => job[p] \in Assignments
         /\ held \in [Procs -> Evidence \cup Logs \cup {None}]
         /\ truth \in [Assignments -> Runs \cup {None}]
         /\ turns \in [Assignments -> Nat]
         /\ disk \in [Assignments -> Artifacts]
         /\ lock \in [by : Procs \cup {Dead, None}, written : BOOLEAN]
         /\ crashes \in Nat /\ faults \in Nat
         /\ env.snapshots \subseteq Evidence /\ env.runs \subseteq Runs
         /\ \A t \in Trials : t.id \in Assignments
  BY CommandAssumption DEF IInv, Typed, TypeOK, Places

\* A process writes one file of an assignment's artifacts.
LEMMA DiskShapes ==
  ASSUME IInv, NEW a \in Assignments
  PROVE  /\ \A l \in LogKinds : LET d == [disk EXCEPT ![a].logs = l]
                                IN  /\ d \in [Assignments -> Artifacts]
                                    /\ \A b \in Assignments : b # a => d[b] = disk[b]
         /\ \A s \in Evidence : LET d == [disk EXCEPT ![a].evidence = s]
                                IN  /\ d \in [Assignments -> Artifacts]
                                    /\ \A b \in Assignments : b # a => d[b] = disk[b]
<1>1. disk \in [Assignments -> [evidence : Evidence \cup {None}, logs : LogKinds]]
  BY Shapes DEF Artifacts
<1> QED
  BY <1>1 DEF Artifacts

\* A step that takes nobody past the marker, and out of it only by death, changes no
\* account of the turns.
LEMMA AccountsStand ==
  ASSUME IInv, NEW p \in Procs, UNCHANGED <<ledger, marker, kept, turns, truth, rejected>>,
         crashes' \in Nat, crashes' = 0 => crashes = 0,
         \A q \in Procs \ {p} : pc'[q] = pc[q] /\ job'[q] = job[q],
         ~Spends(p)', Spends(p) => crashes' > 0
  PROVE  Spent' /\ AllHonest' /\ InHand' /\ PreregisteredOrder'
<1>1. \A q \in Procs : Spends(q)' => Spends(q) /\ job'[q] = job[q] /\ pc'[q] = pc[q]
  OBVIOUS
<1>2. Spent'
  <2>1. Spent /\ UNCHANGED <<marker, turns>>
    BY DEF IInv
  <2>2. \A q \in Procs : Spends(q)' => (job[q] \in marker /\ Unrecorded(q))'
    BY <1>1, <2>1, SameLedger DEF Spent, Unrecorded
  <2>3. \A q, r \in Procs : Spends(q)' /\ Spends(r)' /\ job'[q] = job'[r] => q = r
    BY <1>1, <2>1 DEF Spent
  <2>4. \A q \in Procs : Spends(q)' /\ pc'[q] = "turn" => turns'[job'[q]] = 0
    BY <1>1, <2>1 DEF Spent
  <2> QED
    BY <2>1, <2>2, <2>3, <2>4, SameLedger DEF Spent
<1>3. AllHonest'
  BY SameLedger DEF IInv, AllHonest, Honest
<1>4. InHand'
  BY SameLedger DEF IInv, InHand
<1> QED
  BY <1>2, <1>3, <1>4, SameLedger DEF IInv

LEMMA Bounds ==
  ASSUME IInv
  PROVE  /\ tries \in [Procs -> 0..(LockAttempts - 1)] /\ LockAttempts \in Nat \ {0}
         /\ crashes \in Nat /\ faults \in Nat /\ MaxTrouble \in Nat
         /\ crashes + faults <= MaxTrouble
  BY CommandAssumption DEF IInv, Typed, TypeOK

LEMMA RunCodexKeeps == ASSUME IInv, NEW p \in Procs, NEW a \in Assignments, RunCodex(p, a) PROVE IInv'
<1> USE DEF files, world, bounds, RunCodex
<1>1. Spent' /\ AllHonest' /\ InHand' /\ PreregisteredOrder'
  BY AccountsStand, Shapes DEF IInv, Carried
<1>2. Typed'
  <2>1. /\ pc' \in [Procs -> Places] /\ job' \in [Procs -> Assignments \cup {None}]
        /\ held' \in [Procs -> Evidence \cup Logs \cup {None}]
        /\ \A q \in Procs : pc'[q] # "idle" => job'[q] \in Assignments
    BY Shapes DEF Places
  <2> QED
    BY <2>1, SameLedger DEF IInv, Typed, TypeOK, Places
<1>3. Carried'
  BY Shapes DEF IInv, Carried
<1>4. Locked'
  BY Shapes, CommandAssumption DEF IInv, Locked
<1>5. Exclusive'
  BY Shapes, SameLedger DEF IInv, Exclusive, ArtifactsMatch
<1> QED
  BY <1>1, <1>2, <1>3, <1>4, <1>5 DEF IInv

LEMMA ImportKeeps == ASSUME IInv, NEW p \in Procs, NEW a \in Assignments, Import(p, a) PROVE IInv'
<1> USE DEF files, world, bounds, Import
<1>1. Spent' /\ AllHonest' /\ InHand' /\ PreregisteredOrder'
  BY AccountsStand, Shapes DEF IInv, Carried
<1>2. Typed'
  <2>1. /\ pc' \in [Procs -> Places] /\ job' \in [Procs -> Assignments \cup {None}]
        /\ held' \in [Procs -> Evidence \cup Logs \cup {None}]
        /\ \A q \in Procs : pc'[q] # "idle" => job'[q] \in Assignments
    BY Shapes DEF Places
  <2> QED
    BY <2>1, SameLedger DEF IInv, Typed, TypeOK, Places
<1>3. Carried'
  BY Shapes DEF IInv, Carried
<1>4. Locked'
  BY Shapes, CommandAssumption DEF IInv, Locked
<1>5. Exclusive'
  BY Shapes, SameLedger DEF IInv, Exclusive, ArtifactsMatch
<1> QED
  BY <1>1, <1>2, <1>3, <1>4, <1>5 DEF IInv

LEMMA DeriveKeeps == ASSUME IInv, NEW p \in Procs, Derive(p) PROVE IInv'
<1> USE DEF files, world, bounds, Derive
<1>1. Spent' /\ AllHonest' /\ InHand' /\ PreregisteredOrder'
  BY AccountsStand, Shapes DEF IInv, Carried
<1>2. Typed'
  <2>1. /\ pc' \in [Procs -> Places] /\ job' \in [Procs -> Assignments \cup {None}]
        /\ held' \in [Procs -> Evidence \cup Logs \cup {None}]
        /\ \A q \in Procs : pc'[q] # "idle" => job'[q] \in Assignments
    BY Shapes DEF Places
  <2>2. disk' \in [Assignments -> Artifacts]
    BY Shapes, DiskShapes DEF LogKinds
  <2> QED
    BY <2>1, <2>2, SameLedger DEF IInv, Typed, TypeOK, Places
<1>3. Carried'
  BY Shapes DEF IInv, Carried
<1>4. Locked'
  BY Shapes, CommandAssumption DEF IInv, Locked
<1>5. Exclusive'
  <2>1. ~IsCodex(job[p]) /\ \A b \in Assignments : b # job[p] => disk'[b] = disk[b]
    BY Shapes DEF IInv, Carried
  <2> QED
    BY <2>1, Shapes, SameLedger DEF IInv, Exclusive, ArtifactsMatch
<1> QED
  BY <1>1, <1>2, <1>3, <1>4, <1>5 DEF IInv

LEMMA OpenLockKeeps == ASSUME IInv, NEW p \in Procs, OpenLock(p) PROVE IInv'
<1> USE DEF files, world, bounds, OpenLock
<1>1. Spent' /\ AllHonest' /\ InHand' /\ PreregisteredOrder'
  BY AccountsStand, Shapes DEF IInv, Carried
<1>2. Typed'
  <2>1. /\ pc' \in [Procs -> Places] /\ job' \in [Procs -> Assignments \cup {None}]
        /\ held' \in [Procs -> Evidence \cup Logs \cup {None}]
        /\ \A q \in Procs : pc'[q] # "idle" => job'[q] \in Assignments
    BY Shapes DEF Places
  <2>2. lock' \in [by : Procs \cup {Dead, None}, written : BOOLEAN]
    <3>1. CASE lock = NoLock
      <4>1. lock' = [by |-> p, written |-> FALSE]
        BY <3>1
      <4> QED
        BY <4>1
    <3>2. CASE lock # NoLock
      BY <3>2, Shapes
    <3> QED
      BY <3>1, <3>2
  <2> QED
    BY <2>1, <2>2, SameLedger DEF IInv, Typed, TypeOK, Places
<1>3. Carried'
  BY Shapes DEF IInv, Carried
<1>4. Locked'
  BY Shapes, CommandAssumption DEF IInv, Locked
<1>5. Exclusive'
  BY Shapes, SameLedger DEF IInv, Exclusive, ArtifactsMatch
<1> QED
  BY <1>1, <1>2, <1>3, <1>4, <1>5 DEF IInv

LEMMA WriteLockKeeps == ASSUME IInv, NEW p \in Procs, WriteLock(p) PROVE IInv'
<1> USE DEF files, world, bounds, WriteLock, FirstStep
<1>1. Spent' /\ AllHonest' /\ InHand' /\ PreregisteredOrder'
  BY AccountsStand, Shapes DEF IInv, Carried
<1>2. Typed'
  <2>1. /\ pc' \in [Procs -> Places] /\ job' \in [Procs -> Assignments \cup {None}]
        /\ held' \in [Procs -> Evidence \cup Logs \cup {None}]
        /\ \A q \in Procs : pc'[q] # "idle" => job'[q] \in Assignments
    BY Shapes DEF Places
  <2>2. lock' \in [by : Procs \cup {Dead, None}, written : BOOLEAN]
    BY Shapes
  <2> QED
    BY <2>1, <2>2, SameLedger DEF IInv, Typed, TypeOK, Places
<1>3. Carried'
  BY Shapes DEF IInv, Carried
<1>4. Locked'
  <2>1. ~left => lock.by = p /\ \A q \in Procs \ {p} : ~Holds(q)
    BY DEF IInv, Locked
  <2>2. lock'.by = lock.by /\ (lock.by = p => lock'.written) /\ (lock.by # p => lock' = lock)
    BY Shapes
  <2>3. shared' => left'
    BY <2>1 DEF IInv, Locked
  <2> QED
    BY <2>1, <2>2, <2>3, Shapes, CommandAssumption DEF IInv, Locked
<1>5. Exclusive'
  <2>1. ~shared' => ~shared /\ \A q \in Procs \ {p} : ~Holds(q)
    OBVIOUS
  <2>2. \A q \in Procs : pc'[q] \in {"prepare", "mark"} => pc[q] = pc'[q]
    BY Shapes
  <2> QED
    BY <2>1, <2>2, Shapes, SameLedger DEF IInv, Exclusive, ArtifactsMatch
<1> QED
  BY <1>1, <1>2, <1>3, <1>4, <1>5 DEF IInv

LEMMA InspectLockKeeps == ASSUME IInv, NEW p \in Procs, InspectLock(p) PROVE IInv'
<1> USE DEF files, world, bounds, InspectLock, RetryLock, Exit
<1>1. Spent' /\ AllHonest' /\ InHand' /\ PreregisteredOrder'
  BY AccountsStand, Shapes DEF IInv, Carried
<1>2. Typed'
  <2>1. /\ pc' \in [Procs -> Places] /\ job' \in [Procs -> Assignments \cup {None}]
        /\ held' \in [Procs -> Evidence \cup Logs \cup {None}]
        /\ \A q \in Procs : pc'[q] # "idle" => job'[q] \in Assignments
    BY Shapes DEF Places
  <2>2. tries' \in [Procs -> 0..(LockAttempts - 1)]
    BY Bounds
  <2> QED
    BY <2>1, <2>2, SameLedger DEF IInv, Typed, TypeOK, Places
<1>3. Carried'
  BY Shapes DEF IInv, Carried
<1>4. Locked'
  BY Shapes, CommandAssumption DEF IInv, Locked
<1>5. Exclusive'
  BY Shapes, SameLedger DEF IInv, Exclusive, ArtifactsMatch
<1> QED
  BY <1>1, <1>2, <1>3, <1>4, <1>5 DEF IInv

LEMMA RenameLockKeeps == ASSUME IInv, NEW p \in Procs, RenameLock(p) PROVE IInv'
<1> USE DEF files, world, bounds, RenameLock, RetryLock, Exit
<1>1. Spent' /\ AllHonest' /\ InHand' /\ PreregisteredOrder'
  BY AccountsStand, Shapes DEF IInv, Carried
<1>2. Typed'
  <2>1. /\ pc' \in [Procs -> Places] /\ job' \in [Procs -> Assignments \cup {None}]
        /\ held' \in [Procs -> Evidence \cup Logs \cup {None}]
        /\ \A q \in Procs : pc'[q] # "idle" => job'[q] \in Assignments
    BY Shapes DEF Places
  <2>2. tries' \in [Procs -> 0..(LockAttempts - 1)]
    BY Bounds
  <2>3. lock' \in [by : Procs \cup {Dead, None}, written : BOOLEAN]
    BY Shapes
  <2> QED
    BY <2>1, <2>2, <2>3, SameLedger DEF IInv, Typed, TypeOK, Places
<1>3. Carried'
  BY Shapes DEF IInv, Carried
<1>4. Locked'
  BY Shapes, CommandAssumption DEF IInv, Locked
<1>5. Exclusive'
  BY Shapes, SameLedger DEF IInv, Exclusive, ArtifactsMatch
<1> QED
  BY <1>1, <1>2, <1>3, <1>4, <1>5 DEF IInv

LEMMA ReadBeforeReleaseKeeps == ASSUME IInv, NEW p \in Procs, ReadBeforeRelease(p) PROVE IInv'
<1> USE DEF files, world, bounds, ReadBeforeRelease, Exit
<1>1. Spent' /\ AllHonest' /\ InHand' /\ PreregisteredOrder'
  BY AccountsStand, Shapes DEF IInv, Carried
<1>2. Typed'
  <2>1. /\ pc' \in [Procs -> Places] /\ job' \in [Procs -> Assignments \cup {None}]
        /\ held' \in [Procs -> Evidence \cup Logs \cup {None}]
        /\ \A q \in Procs : pc'[q] # "idle" => job'[q] \in Assignments
    BY Shapes DEF Places
  <2>2. tries' \in [Procs -> 0..(LockAttempts - 1)]
    BY Bounds
  <2> QED
    BY <2>1, <2>2, SameLedger DEF IInv, Typed, TypeOK, Places
<1>3. Carried'
  BY Shapes DEF IInv, Carried
<1>4. Locked'
  BY Shapes, CommandAssumption DEF IInv, Locked
<1>5. Exclusive'
  BY Shapes, SameLedger DEF IInv, Exclusive, ArtifactsMatch
<1> QED
  BY <1>1, <1>2, <1>3, <1>4, <1>5 DEF IInv

LEMMA UnlinkKeeps == ASSUME IInv, NEW p \in Procs, Unlink(p) PROVE IInv'
<1> USE DEF files, world, bounds, Unlink, Exit
<1>1. Spent' /\ AllHonest' /\ InHand' /\ PreregisteredOrder'
  BY AccountsStand, Shapes DEF IInv, Carried
<1>2. Typed'
  <2>1. /\ pc' \in [Procs -> Places] /\ job' \in [Procs -> Assignments \cup {None}]
        /\ held' \in [Procs -> Evidence \cup Logs \cup {None}]
        /\ \A q \in Procs : pc'[q] # "idle" => job'[q] \in Assignments
    BY Shapes DEF Places
  <2>2. tries' \in [Procs -> 0..(LockAttempts - 1)]
    BY Bounds
  <2>3. lock' \in [by : Procs \cup {Dead, None}, written : BOOLEAN]
    BY Shapes
  <2> QED
    BY <2>1, <2>2, <2>3, SameLedger DEF IInv, Typed, TypeOK, Places
<1>3. Carried'
  BY Shapes DEF IInv, Carried
<1>4. Locked'
  BY Shapes, CommandAssumption DEF IInv, Locked
<1>5. Exclusive'
  BY Shapes, SameLedger DEF IInv, Exclusive, ArtifactsMatch
<1> QED
  BY <1>1, <1>2, <1>3, <1>4, <1>5 DEF IInv

LEMMA CheckLedgerKeeps == ASSUME IInv, NEW p \in Procs, CheckLedger(p) PROVE IInv'
<1> USE DEF files, world, bounds, CheckLedger
<1>1. Spent' /\ AllHonest' /\ InHand' /\ PreregisteredOrder'
  BY AccountsStand, Shapes DEF IInv, Carried
<1>2. Typed'
  <2>1. /\ pc' \in [Procs -> Places] /\ job' \in [Procs -> Assignments \cup {None}]
        /\ held' \in [Procs -> Evidence \cup Logs \cup {None}]
        /\ \A q \in Procs : pc'[q] # "idle" => job'[q] \in Assignments
    BY Shapes DEF Places
  <2> QED
    BY <2>1, SameLedger DEF IInv, Typed, TypeOK, Places
<1>3. Carried'
  BY Shapes DEF IInv, Carried
<1>4. Locked'
  BY Shapes, CommandAssumption DEF IInv, Locked
<1>5. Exclusive'
  BY Shapes, SameLedger DEF IInv, Exclusive, ArtifactsMatch
<1> QED
  BY <1>1, <1>2, <1>3, <1>4, <1>5 DEF IInv

LEMMA PrepareKeeps == ASSUME IInv, NEW p \in Procs, Prepare(p) PROVE IInv'
<1> USE DEF files, world, bounds, Prepare
<1>1. Spent' /\ AllHonest' /\ InHand' /\ PreregisteredOrder'
  BY AccountsStand, Shapes DEF IInv, Carried
<1>2. Typed'
  <2>1. /\ pc' \in [Procs -> Places] /\ job' \in [Procs -> Assignments \cup {None}]
        /\ held' \in [Procs -> Evidence \cup Logs \cup {None}]
        /\ \A q \in Procs : pc'[q] # "idle" => job'[q] \in Assignments
    BY Shapes DEF Places
  <2>2. disk' \in [Assignments -> Artifacts]
    BY Shapes, DiskShapes DEF LogKinds
  <2> QED
    BY <2>1, <2>2, SameLedger DEF IInv, Typed, TypeOK, Places
<1>3. Carried'
  BY Shapes, ZenonT(40) DEF IInv, Carried
<1>4. Locked'
  BY Shapes, CommandAssumption, ZenonT(40) DEF IInv, Locked
<1>5. Exclusive'
  <2>1. \A b \in Assignments : b # job[p] => disk'[b] = disk[b]
    BY Shapes
  <2>2. ~shared => job[p] \notin marker
    BY DEF IInv, Exclusive
  <2>3. \A t \in Trials : IsCodex(t.id) => t.id \in marker
    BY DEF IInv, Spent
  <2> QED
    BY <2>1, <2>2, <2>3, Shapes, SameLedger, ZenonT(40) DEF IInv, Exclusive, ArtifactsMatch
<1> QED
  BY <1>1, <1>2, <1>3, <1>4, <1>5 DEF IInv

\* A process that is over has no lock file but one that names a dead pid.
LEMMA LeftBehind ==
  ASSUME IInv, NEW p \in Procs, LeaveLock(p), pc' = [pc EXCEPT ![p] = "idle"], shared' = shared
  PROVE  Locked'
<1> USE DEF LeaveLock
<1>1. lock'.by # p /\ (lock'.by # Dead => lock' = lock) /\ (lock'.by = Dead /\ lock # lock' => left')
  BY Shapes, CommandAssumption
<1>2. lock'.by = None => lock' = NoLock
  BY <1>1, CommandAssumption DEF IInv, Locked
<1>3. lock'.by \in Procs => pc'[lock'.by] \in Holding \cup {"write"} /\ (pc'[lock'.by] \in Holding => lock'.written)
  BY <1>1, Shapes, CommandAssumption DEF IInv, Locked
<1>4. ASSUME ~left' PROVE lock' = lock /\ ~left /\ lock.by # p
  BY <1>4, Shapes
<1>5. ASSUME ~left'
      PROVE  /\ lock'.by # Dead
             /\ \A q \in Procs : /\ pc'[q] # "rename"
                                 /\ pc'[q] \in Holding \cup {"write"} => lock'.by = q
  BY <1>4, <1>5, Shapes DEF IInv, Locked
<1>6. shared' => left'
  BY DEF IInv, Locked
<1> QED
  BY <1>2, <1>3, <1>5, <1>6 DEF Locked

LEMMA WriteLockFailsKeeps == ASSUME IInv, NEW p \in Procs, WriteLockFails(p) PROVE IInv'
<1> USE DEF files, world, bounds, WriteLockFails, LeaveLock, Exit, MoreTrouble
<1>1. Spent' /\ AllHonest' /\ InHand' /\ PreregisteredOrder'
  BY AccountsStand, Shapes DEF IInv, Carried
<1>2. Typed'
  <2>1. /\ pc' \in [Procs -> Places] /\ job' \in [Procs -> Assignments \cup {None}]
        /\ held' \in [Procs -> Evidence \cup Logs \cup {None}]
        /\ \A q \in Procs : pc'[q] # "idle" => job'[q] \in Assignments
    BY Shapes DEF Places
  <2>2. tries' \in [Procs -> 0..(LockAttempts - 1)]
    BY Bounds
  <2>3. lock' \in [by : Procs \cup {Dead, None}, written : BOOLEAN]
    <3>1. \/ lock' = [by |-> None, written |-> FALSE]
          \/ lock' = [lock EXCEPT !.by = Dead]
          \/ lock' = lock
      OBVIOUS
    <3>2. lock \in [by : Procs \cup {Dead, None}, written : BOOLEAN]
      BY Shapes
    <3>3. CASE lock' = [by |-> None, written |-> FALSE]
      BY <3>3
    <3>4. CASE lock' = [lock EXCEPT !.by = Dead]
      BY <3>2, <3>4
    <3> QED
      BY <3>1, <3>2, <3>3, <3>4
  <2>4. crashes' \in Nat /\ faults' \in Nat /\ crashes' + faults' \in 0..MaxTrouble
    BY Bounds
  <2> QED
    BY <2>1, <2>2, <2>3, <2>4, SameLedger DEF IInv, Typed, TypeOK, Places
<1>3. Carried'
  BY Shapes DEF IInv, Carried
<1>4. Locked'
  <2>1. CASE lock' = NoLock /\ UNCHANGED left
    BY <2>1, Shapes, CommandAssumption DEF IInv, Locked
  <2>2. CASE LeaveLock(p)
    BY <2>2, LeftBehind, Shapes
  <2> QED
    BY <2>1, <2>2
<1>5. Exclusive'
  BY Shapes, SameLedger DEF IInv, Exclusive, ArtifactsMatch
<1> QED
  BY <1>1, <1>2, <1>3, <1>4, <1>5 DEF IInv

LEMMA ReleaseFailsKeeps == ASSUME IInv, NEW p \in Procs, ReleaseFails(p) PROVE IInv'
<1> USE DEF files, world, bounds, ReleaseFails, LeaveLock, Exit, MoreTrouble
<1>1. Spent' /\ AllHonest' /\ InHand' /\ PreregisteredOrder'
  BY AccountsStand, Shapes DEF IInv, Carried
<1>2. Typed'
  <2>1. /\ pc' \in [Procs -> Places] /\ job' \in [Procs -> Assignments \cup {None}]
        /\ held' \in [Procs -> Evidence \cup Logs \cup {None}]
        /\ \A q \in Procs : pc'[q] # "idle" => job'[q] \in Assignments
    BY Shapes DEF Places
  <2>2. tries' \in [Procs -> 0..(LockAttempts - 1)]
    BY Bounds
  <2>3. lock' \in [by : Procs \cup {Dead, None}, written : BOOLEAN]
    BY Shapes
  <2>4. crashes' \in Nat /\ faults' \in Nat /\ crashes' + faults' \in 0..MaxTrouble
    BY Bounds
  <2> QED
    BY <2>1, <2>2, <2>3, <2>4, SameLedger DEF IInv, Typed, TypeOK, Places
<1>3. Carried'
  BY Shapes DEF IInv, Carried
<1>4. Locked'
  BY LeftBehind, Shapes
<1>5. Exclusive'
  BY Shapes, SameLedger DEF IInv, Exclusive, ArtifactsMatch
<1> QED
  BY <1>1, <1>2, <1>3, <1>4, <1>5 DEF IInv

LEMMA CrashKeeps == ASSUME IInv, NEW p \in Procs, Crash(p) PROVE IInv'
<1> USE DEF files, world, bounds, Crash, LeaveLock, Exit, MoreTrouble
<1>1. Spent' /\ AllHonest' /\ InHand' /\ PreregisteredOrder'
  BY AccountsStand, Shapes DEF IInv, Carried
<1>2. Typed'
  <2>1. /\ pc' \in [Procs -> Places] /\ job' \in [Procs -> Assignments \cup {None}]
        /\ held' \in [Procs -> Evidence \cup Logs \cup {None}]
        /\ \A q \in Procs : pc'[q] # "idle" => job'[q] \in Assignments
    BY Shapes DEF Places
  <2>2. tries' \in [Procs -> 0..(LockAttempts - 1)]
    BY Bounds
  <2>3. lock' \in [by : Procs \cup {Dead, None}, written : BOOLEAN]
    BY Shapes
  <2>4. crashes' \in Nat /\ faults' \in Nat /\ crashes' + faults' \in 0..MaxTrouble
    BY Bounds
  <2> QED
    BY <2>1, <2>2, <2>3, <2>4, SameLedger DEF IInv, Typed, TypeOK, Places
<1>3. Carried'
  BY Shapes DEF IInv, Carried
<1>4. Locked'
  BY LeftBehind, Shapes
<1>5. Exclusive'
  BY Shapes, SameLedger DEF IInv, Exclusive, ArtifactsMatch
<1> QED
  BY <1>1, <1>2, <1>3, <1>4, <1>5 DEF IInv

-----------------------------------------------------------------------------
(* From the marker to the ledger: the process goes on and no lock changes hands. *)

LEMMA StillHeld ==
  ASSUME IInv, NEW p \in Procs, NEW l \in Holding, Holds(p), pc' = [pc EXCEPT ![p] = l],
         UNCHANGED <<lock, left, shared>>
  PROVE  Locked'
  BY Shapes DEF IInv, Locked, Places

\* What becomes of the accounts when the process stays between the marker and the ledger.
LEMMA AccountsGoOn ==
  ASSUME IInv, NEW p \in Procs, NEW l \in Spending \ {"turn"}, Spends(p),
         l \in {"retain", "retainAppend"} \/ pc[p] \notin {"retain", "retainAppend"},
         pc' = [pc EXCEPT ![p] = l],
         UNCHANGED <<ledger, marker, job, crashes, rejected>>,
         kept \subseteq kept'
  PROVE  /\ \A q \in Procs : Spends(q)' = Spends(q)
         /\ turns' = turns => Spent' /\ InHand'
         /\ PreregisteredOrder'
<1>1. \A q \in Procs : Spends(q)' = Spends(q)
  BY Shapes
<1>2. Spent /\ UNCHANGED marker
  BY DEF IInv
<1>3. \A q \in Procs : pc'[q] = "turn" => pc[q] = "turn"
  BY Shapes
<1>4. ASSUME turns' = turns PROVE Spent'
  <2>1. \A q \in Procs : Spends(q)' => (job[q] \in marker /\ Unrecorded(q))'
    BY <1>1, <1>2, Shapes, SameLedger DEF Spent, Unrecorded
  <2> QED
    BY <1>1, <1>2, <1>3, <1>4, <2>1, SameLedger DEF Spent
<1>5. ASSUME turns' = turns PROVE InHand'
  BY <1>1, <1>5, SameLedger DEF IInv, InHand
<1> QED
  BY <1>1, <1>4, <1>5, SameLedger DEF IInv

\* A process past the marker may write its artifacts: no recorded trial has them, but
\* for one whose append failed.
LEMMA ArtifactsStand ==
  ASSUME IInv, NEW p \in Procs, NEW l \in Holding \ {"prepare", "mark"}, Spends(p),
         pc' = [pc EXCEPT ![p] = l], UNCHANGED <<ledger, marker, job, shared, rejected>>,
         \A b \in Assignments : b # job[p] => disk'[b] = disk[b]
  PROVE  Exclusive'
<1>1. Recorded(job[p]) => job[p] \in rejected
  BY DEF IInv, Spent, Unrecorded
<1>2. \A t \in Trials : t.id \in Assignments /\ (t.id # job[p] \/ t.id \in rejected)
  BY <1>1, Shapes DEF Recorded
<1>3. \A q \in Procs : /\ Holds(q)' <=> Holds(q)
                       /\ pc'[q] \in {"prepare", "mark"} => pc[q] = pc'[q]
  BY Shapes
<1> QED
  BY <1>2, <1>3, SameLedger DEF IInv, Exclusive, ArtifactsMatch

LEMMA WriteAttemptMarkerKeeps == ASSUME IInv, NEW p \in Procs, WriteAttemptMarker(p) PROVE IInv'
<1> USE DEF files, world, bounds, WriteAttemptMarker
<1>1. IsCodex(job[p]) /\ job[p] \in Assignments
  BY Shapes DEF IInv, Carried
<1>2. Typed'
  <2>1. pc' \in [Procs -> Places] /\ marker' \subseteq CodexAssignments
    BY <1>1, Shapes DEF Places, CodexAssignments, IInv, Typed, TypeOK
  <2> QED
    BY <2>1, SameLedger DEF IInv, Typed, TypeOK, Places
<1>3. Carried'
  BY Shapes DEF IInv, Carried
<1>4. Locked'
  BY StillHeld
<1>5. CASE job[p] \in marker
  <2>1. Spent' /\ AllHonest' /\ InHand' /\ PreregisteredOrder'
    BY <1>5, AccountsStand, Shapes DEF IInv, Carried
  <2>2. Exclusive'
    BY <1>5, Shapes, SameLedger DEF IInv, Exclusive, ArtifactsMatch
  <2> QED
    BY <1>2, <1>3, <1>4, <2>1, <2>2 DEF IInv
<1>6. CASE job[p] \notin marker
  <2>1. /\ \A q \in Procs : Spends(q)' <=> Spends(q) \/ q = p
        /\ \A q \in Procs : Spends(q) => job[q] # job[p]
        /\ ~Recorded(job[p]) /\ turns[job[p]] = 0
        /\ marker' = marker \cup {job[p]}
    <3>1. \A q \in Procs : Spends(q)' <=> Spends(q) \/ q = p
      BY <1>1, <1>6, Shapes
    <3> QED
      BY <3>1, <1>1, <1>6 DEF IInv, Spent, Recorded
  <2>2. Spent'
    <3>1. \A q \in Procs : Spends(q)' => (job[q] \in marker /\ Unrecorded(q))'
      <4>1. \A q \in Procs \ {p} : pc'[q] = pc[q]
        BY Shapes
      <4> QED
        BY <2>1, <4>1, SameLedger DEF IInv, Spent, Unrecorded
    <3>2. \A q \in Procs : pc'[q] = "turn" => q = p \/ pc[q] = "turn"
      BY Shapes
    <3> QED
      BY <2>1, <3>1, <3>2, SameLedger DEF IInv, Spent
  <2>3. AllHonest' /\ PreregisteredOrder'
    BY SameLedger DEF IInv, AllHonest, Honest
  <2>4. InHand'
    BY <2>1, SameLedger DEF IInv, InHand
  <2>5. Exclusive'
    <3>1. \A q \in Procs : /\ Holds(q)' <=> Holds(q)
                           /\ pc'[q] \in {"prepare", "mark"} => pc[q] = pc'[q] /\ q # p
      BY <1>6, Shapes
    <3>2. ~shared => \A q \in Procs : Holds(q) => q = p
      BY DEF IInv, Exclusive
    <3> QED
      BY <3>1, <3>2, SameLedger DEF IInv, Exclusive, ArtifactsMatch
  <2> QED
    BY <1>2, <1>3, <1>4, <2>2, <2>3, <2>4, <2>5 DEF IInv
<1> QED
  BY <1>5, <1>6

LEMMA StartTurnKeeps == ASSUME IInv, NEW p \in Procs, StartTurn(p) PROVE IInv'
<1> USE DEF files, world, bounds, StartTurn
<1>1. Spends(p) /\ job[p] \in Assignments /\ turns[job[p]] = 0 /\ job[p] \in marker
  BY Shapes DEF IInv, Carried, Spent
<1>2. Typed'
  <2>1. pc' \in [Procs -> Places] /\ turns' \in [Assignments -> Nat]
    BY Shapes DEF Places
  <2> QED
    BY <2>1, SameLedger DEF IInv, Typed, TypeOK, Places
<1>3. Carried' /\ Locked'
  BY StillHeld, Shapes DEF IInv, Carried
<1>4. Exclusive'
  BY <1>1, ArtifactsStand
<1>5. AllHonest'
  BY SameLedger DEF IInv, AllHonest, Honest
<1>6. /\ \A q \in Procs : Spends(q)' = Spends(q)
      /\ PreregisteredOrder'
  BY <1>1, AccountsGoOn
<1>7. Spent'
  <2>1. turns'[job[p]] = 1 /\ \A a \in Assignments : a # job[p] => turns'[a] = turns[a]
    BY <1>1, Shapes
  <2>2. \A q \in Procs : Spends(q) /\ pc'[q] = "turn" => pc[q] = "turn" /\ job[q] # job[p]
    BY <1>1, Shapes DEF IInv, Spent
  <2>3. \A q \in Procs : Spends(q)' /\ pc'[q] = "turn" => turns'[job'[q]] = 0
    BY <1>6, <2>1, <2>2, Shapes DEF IInv, Spent
  <2>4. \A a \in Assignments : turns'[a] <= 1 /\ (a \notin marker => turns'[a] = 0)
    BY <1>1, <2>1 DEF IInv, Spent
  <2> QED
    <3>1. \A q \in Procs : Unrecorded(q)' <=> Unrecorded(q)
      <4>1. pc[p] = "turn" /\ pc'[p] = "turning" /\ \A q \in Procs \ {p} : pc'[q] = pc[q]
        BY Shapes
      <4> QED
        BY <4>1, SameLedger DEF Unrecorded
    <3> QED
      BY <1>6, <2>3, <2>4, <3>1, SameLedger DEF IInv, Spent
<1>8. InHand'
  BY <1>1, <1>6, Shapes, SameLedger DEF IInv, InHand
<1> QED
  BY <1>2, <1>3, <1>4, <1>5, <1>6, <1>7, <1>8 DEF IInv

LEMMA EndTurnKeeps == ASSUME IInv, NEW p \in Procs, EndTurn(p) PROVE IInv'
<1> USE DEF files, world, bounds, EndTurn
<1>1. Spends(p) /\ job[p] \in Assignments /\ ~Recorded(job[p])
  BY Shapes DEF IInv, Carried, Spent, Unrecorded
<1>2. /\ truth' \in [Assignments -> Runs \cup {None}] /\ truth'[job[p]] \in Runs
      /\ \A a \in Assignments : a # job[p] => truth'[a] = truth[a]
  BY <1>1, Shapes
<1>3. Typed'
  <2>1. pc' \in [Procs -> Places]
    BY Shapes DEF Places
  <2> QED
    BY <1>2, <2>1, SameLedger DEF IInv, Typed, TypeOK, Places
<1>4. Locked'
  BY StillHeld
<1>5. Exclusive'
  BY <1>1, ArtifactsStand
<1>6. Spent' /\ InHand' /\ PreregisteredOrder'
  BY <1>1, AccountsGoOn
<1>7. \A q \in Procs \ {p} : Spends(q) => job[q] \in Assignments \ {job[p]}
  BY <1>1, Shapes DEF IInv, Spent
<1>8. Carried'
  <2>1. /\ \A q \in Procs \ {p} : pc'[q] = pc[q] /\ job'[q] = job[q]
        /\ pc'[p] = "verify" /\ job' = job /\ held' = held
    BY Shapes
  <2>2. \A q \in Procs \ {p} : Spends(q) => truth'[job[q]] = truth[job[q]]
    BY <1>2, <1>7
  <2>3. Carried
    BY DEF IInv
  <2> QED
    BY <1>1, <1>2, <2>1, <2>2, <2>3 DEF Carried
<1>9. AllHonest'
  <2>1. \A t \in Trials : IsCodex(t.id) => truth'[t.id] = truth[t.id]
    BY <1>1, <1>2, Shapes DEF Recorded
  <2> QED
    BY <2>1, SameLedger DEF IInv, AllHonest, Honest
<1> QED
  BY <1>3, <1>4, <1>5, <1>6, <1>8, <1>9 DEF IInv

LEMMA VerifyKeeps == ASSUME IInv, NEW p \in Procs, Verify(p) PROVE IInv'
<1> USE DEF files, world, bounds, Verify
<1>1. Spends(p) /\ job[p] \in Assignments /\ truth[job[p]] \in Runs
  BY Shapes DEF IInv, Carried
<1>2. /\ disk' \in [Assignments -> Artifacts]
      /\ \A a \in Assignments : a # job[p] => disk'[a] = disk[a]
  <2>1. disk' = disk \/ disk' = [disk EXCEPT ![job[p]].logs = "verified"]
    OBVIOUS
  <2>2. CASE disk' = disk
    BY <2>2, Shapes
  <2>3. CASE disk' = [disk EXCEPT ![job[p]].logs = "verified"]
    BY <1>1, <2>3, DiskShapes DEF LogKinds
  <2> QED
    BY <2>1, <2>2, <2>3
<1>3. Typed'
  <2>1. pc' \in [Procs -> Places]
    BY Shapes DEF Places
  <2> QED
    BY <1>2, <2>1, SameLedger DEF IInv, Typed, TypeOK, Places
<1>4. Locked' /\ Exclusive'
  BY <1>1, <1>2, StillHeld, ArtifactsStand
<1>5. Spent' /\ InHand' /\ PreregisteredOrder'
  BY <1>1, AccountsGoOn
<1>6. Carried' /\ AllHonest'
  BY <1>1, Shapes, SameLedger DEF IInv, Carried, AllHonest, Honest
<1> QED
  BY <1>3, <1>4, <1>5, <1>6 DEF IInv

LEMMA RetainPostRunFailureKeeps ==
  ASSUME IInv, NEW p \in Procs, RetainPostRunFailure(p) PROVE IInv'
<1> USE DEF files, world, bounds, RetainPostRunFailure
<1>1. Spends(p) /\ job[p] \in Assignments
  BY Shapes DEF IInv, Carried
<1>2. /\ disk' \in [Assignments -> Artifacts]
      /\ \A a \in Assignments : a # job[p] => disk'[a] = disk[a]
  BY <1>1, Shapes, DiskShapes, ZenonT(40) DEF LogKinds
<1>3. Typed'
  <2>1. pc' \in [Procs -> Places]
    BY Shapes DEF Places
  <2> QED
    BY <1>2, <2>1, SameLedger DEF IInv, Typed, TypeOK, Places
<1>4. Locked' /\ Exclusive'
  BY <1>1, <1>2, StillHeld, ArtifactsStand
<1>5. Spent' /\ InHand' /\ PreregisteredOrder'
  BY <1>1, AccountsGoOn
<1>6. Carried' /\ AllHonest'
  BY <1>1, Shapes, SameLedger DEF IInv, Carried, AllHonest, Honest
<1> QED
  BY <1>3, <1>4, <1>5, <1>6 DEF IInv

LEMMA PostRunFaultKeeps == ASSUME IInv, NEW p \in Procs, PostRunFault(p) PROVE IInv'
<1> USE DEF files, world, bounds, PostRunFault, MoreTrouble
<1>1. Spends(p) /\ job[p] \in Assignments
  BY Shapes
<1>2. Typed'
  <2>1. pc' \in [Procs -> Places]
    BY Shapes DEF Places
  <2>2. faults' \in Nat /\ crashes' + faults' \in 0..MaxTrouble
    BY Bounds
  <2> QED
    BY <2>1, <2>2, SameLedger DEF IInv, Typed, TypeOK, Places
<1>3. Locked' /\ Exclusive'
  BY <1>1, StillHeld, ArtifactsStand
<1>4. Spent' /\ InHand' /\ PreregisteredOrder'
  BY <1>1, AccountsGoOn
<1>5. Carried' /\ AllHonest'
  BY <1>1, Shapes, SameLedger DEF IInv, Carried, AllHonest, Honest
<1> QED
  BY <1>2, <1>3, <1>4, <1>5 DEF IInv

-----------------------------------------------------------------------------
(* Appending to the ledger *)

\* What a process appends is a trial of its assignment that says what happened.
LEMMA CandidateIsHonest ==
  ASSUME IInv, NEW p \in Procs, pc[p] \in {"append", "retainAppend"}
  PROVE  /\ Candidate(p) \in TrialRecords /\ Candidate(p).id = job[p]
         /\ Honest(Candidate(p))
<1> DEFINE a == job[p]
<1>1. a \in Assignments
  BY Shapes
<1>2. CASE IsCodex(a)
  <2> DEFINE run == truth[a]
             evidence == held[p]
             failed == pc[p] = "retainAppend"
             treatment == TreatmentCodes(a, run)
             t == Candidate(p)
  <2>1. run \in Runs /\ evidence \in Evidence
    BY <1>2 DEF IInv, Carried
  <2>2. ~failed => ~run.movedHead /\ ~run.mutates
    BY <1>2 DEF IInv, Carried
  <2>3. t = CodexTrial(a, evidence, failed)
    BY <1>2 DEF Candidate
  <2>4. treatment \subseteq Codes
    BY DEF TreatmentCodes, Codes
  <2>5. RouteStatus(a, run) \in {"verified", Unavailable, "not-applicable"}
    BY <2>1 DEF RouteStatus, Runs
  <2> DEFINE completed == run.exit = "ok"
             visible == ~failed /\ run.visible
             hidden == ~failed /\ run.hidden
  <2>6. t = [id |-> a, completed |-> completed, visible |-> visible, hidden |-> hidden,
             verified |-> completed /\ visible /\ hidden,
             bad |-> completed /\ visible /\ ~hidden,
             compliance |-> IF treatment = {} THEN "compliant" ELSE "noncompliant",
             contamination |-> treatment \cup (IF failed \/ run.exit = "overflow"
                                                 THEN {"other"} ELSE {}),
             catalog |-> evidence.catalog, quota |-> evidence.quota,
             route |-> RouteStatus(a, run), problems |-> run.problems,
             rerouted |-> run.rerouted, cost |-> run.cost,
             artifacts |-> [evidence |-> evidence,
                            logs |-> IF failed THEN "failure" ELSE "verified"]]
    BY <2>3 DEF CodexTrial
  <2> HIDE DEF run, evidence, failed, treatment
  <2>7. t \in TrialRecords
    <3>1. /\ run.exit \in {"ok", "failed", "overflow", "unspawned"}
          /\ run.visible \in BOOLEAN /\ run.hidden \in BOOLEAN /\ run.rerouted \in BOOLEAN
          /\ run.problems \in SUBSET RouteProblems /\ run.cost \in Nat \cup {NoCost}
      BY <2>1 DEF Runs
    <3>2. evidence.catalog \in Catalogs /\ evidence.quota \in Nat
      BY <2>1, ExperimentAssumption DEF Evidence
    <3>3. treatment \cup (IF failed \/ run.exit = "overflow" THEN {"other"} ELSE {}) \subseteq Codes
      BY <2>4 DEF Codes
    <3>4. [evidence |-> evidence, logs |-> IF failed THEN "failure" ELSE "verified"] \in Artifacts
      BY <2>1 DEF Artifacts, LogKinds
    <3> QED
      BY <1>1, <2>5, <2>6, <3>1, <3>2, <3>3, <3>4 DEF TrialRecords
  <2>8. /\ t.id = a /\ t.rerouted = run.rerouted /\ t.problems = run.problems
        /\ t.route = RouteStatus(a, run)
        /\ t.verified = (run.exit = "ok" /\ (~failed /\ run.visible) /\ (~failed /\ run.hidden))
        /\ t.bad = (run.exit = "ok" /\ (~failed /\ run.visible) /\ ~(~failed /\ run.hidden))
        /\ failed => "other" \in t.contamination
    BY <2>6
  <2>9. Honest(t)
    BY <1>2, <2>1, <2>2, <2>8 DEF Honest, run
  <2> QED
    BY <2>7, <2>8, <2>9
<1>3. CASE ~IsCodex(a)
  <2> DEFINE bundle == sealed[a]
             t == Candidate(p)
             compliance == IF IsOn(a) THEN IF bundle.result THEN "compliant" ELSE "noncompliant"
                           ELSE IF bundle.result THEN "noncompliant" ELSE "unknown"
  <2>1. held[p] \in Logs
    BY <1>3, Shapes DEF IInv, Carried
  <2>2. bundle \in Bundles
    BY <1>1, <1>3 DEF IInv, Typed, CodexAssignments
  <2>3. /\ bundle.visible \in BOOLEAN /\ bundle.hidden \in BOOLEAN /\ bundle.result \in BOOLEAN
        /\ bundle.declared \in SUBSET Codes
    BY <2>2, CommandAssumption
  <2>4. t = WorkTrial(a, held[p])
    BY <1>3 DEF Candidate
  <2>5. compliance \in {"compliant", "noncompliant", "unknown"}
    OBVIOUS
  <2>6. bundle.declared \cup (IF compliance = "noncompliant"
                                THEN {"treatment-noncompliance"} ELSE {}) \subseteq Codes
    BY <2>3 DEF Codes
  <2>7. [evidence |-> None, logs |-> held[p]] \in Artifacts
    BY <2>1 DEF Artifacts, LogKinds
  <2>8. t.id = a /\ t.cost = NoCost
    BY <2>4 DEF WorkTrial
  <2>9. t \in TrialRecords
    BY <1>1, <2>3, <2>4, <2>5, <2>6, <2>7 DEF WorkTrial, TrialRecords
  <2>10. Honest(t)
    BY <1>3, <2>8 DEF Honest
  <2> QED
    BY <2>8, <2>9, <2>10
<1> QED
  BY <1>2, <1>3

\* The order of a block is kept by a line that was checked against all lines before it.
LEMMA OrderIsKept ==
  ASSUME ledger \in Seq(TrialRecords), PreregisteredOrder, NEW c \in TrialRecords,
         ledger' = Append(ledger, c), AssignmentReady(Trials, c.id)
  PROVE  PreregisteredOrder'
<1> DEFINE n == Len(ledger)
           before(i) == {ledger[j].id : j \in 1..(i - 1)}
           beforeN(i) == {ledger'[j].id : j \in 1..(i - 1)}
<1>1. /\ n \in Nat /\ DOMAIN ledger = 1..n /\ DOMAIN ledger' = 1..(n + 1)
      /\ ledger'[n + 1] = c /\ \A i \in 1..n : ledger'[i] = ledger[i]
  OBVIOUS
<1>2. \A i \in 1..(n + 1) : beforeN(i) = before(i)
  BY <1>1
<1>3. {t.id : t \in Trials} = before(n + 1)
  BY <1>1 DEF Trials, Range
<1>4. \A i \in 1..n : EarlierInBlock(ledger[i].id) \subseteq before(i)
                      /\ (IsCodex(ledger[i].id) => ledger[i].id \notin before(i))
  BY <1>1 DEF PreregisteredOrder
<1> HIDE DEF beforeN, before
<1>5. EarlierInBlock(c.id) \subseteq before(n + 1) /\ c.id \notin before(n + 1)
  BY <1>3 DEF AssignmentReady
<1>6. \A i \in DOMAIN ledger' : EarlierInBlock(ledger'[i].id) \subseteq beforeN(i)
                                /\ (IsCodex(ledger'[i].id) => ledger'[i].id \notin beforeN(i))
  <2> TAKE i \in DOMAIN ledger'
  <2>1. CASE i \in 1..n
    BY <1>1, <1>2, <1>4, <2>1
  <2>2. CASE i = n + 1
    BY <1>1, <1>2, <1>5, <2>2
  <2> QED
    BY <1>1, <2>1, <2>2
<1> QED
  BY <1>6 DEF PreregisteredOrder, beforeN

LEMMA RefusalKeeps ==
  ASSUME IInv, NEW p \in Procs, pc[p] \in {"append", "retainAppend"}, AfterRefusal(p),
         UNCHANGED <<lock, ledger, marker, disk, job, tries, held, world, crashes, shared, left,
                     rejected>>,
         tail' \in {"whole", "unended", "torn"}, faults' \in Nat, crashes' + faults' \in 0..MaxTrouble
  PROVE  IInv'
<1> USE DEF world, AfterRefusal
<1>1. job[p] \in Assignments
  BY Shapes
<1>2. pc' \in [Procs -> Places] /\ kept' \subseteq CodexAssignments /\ kept \subseteq kept'
  <2>1. kept \subseteq CodexAssignments /\ (pc[p] = "retainAppend" => job[p] \in CodexAssignments)
    BY <1>1 DEF IInv, Carried, Typed, TypeOK, CodexAssignments
  <2>2. pc' \in [Procs -> Places]
    BY Shapes DEF Places
  <2> QED
    BY <2>1, <2>2
<1>3. Typed'
  BY <1>2, SameLedger DEF IInv, Typed, TypeOK, Places
<1>4. Locked'
  BY StillHeld
<1>5. Carried' /\ AllHonest'
  BY Shapes, SameLedger DEF IInv, Carried, AllHonest, Honest
<1>6. CASE pc[p] = "append" /\ IsCodex(job[p])
  <2>1. Exclusive'
    BY <1>6, ArtifactsStand
  <2>2. Spent' /\ InHand' /\ PreregisteredOrder'
    BY <1>6, AccountsGoOn
  <2> QED
    BY <1>3, <1>4, <1>5, <2>1, <2>2 DEF IInv
<1>7. CASE ~(pc[p] = "append" /\ IsCodex(job[p]))
  <2>1. /\ pc' = [pc EXCEPT ![p] = "release"]
        /\ Spends(p) => pc[p] = "retainAppend" /\ job[p] \in kept'
    BY <1>7
  <2>2. \A q \in Procs : /\ Spends(q)' => Spends(q) /\ pc'[q] = pc[q]
                         /\ Spends(q) => Spends(q)' \/ q = p
    BY <2>1, Shapes
  <2>3. Exclusive'
    BY <2>1, Shapes, SameLedger DEF IInv, Exclusive, ArtifactsMatch
  <2>4. Spent' /\ PreregisteredOrder'
    BY <2>2, SameLedger DEF IInv, Spent, Unrecorded
  <2>5. InHand'
    BY <1>2, <2>1, <2>2, SameLedger DEF IInv, InHand
  <2> QED
    BY <1>3, <1>4, <1>5, <2>3, <2>4, <2>5 DEF IInv
<1> QED
  BY <1>6, <1>7

\* A line is added, whether or not its append is then reported as failed.
LEMMA LineKeeps ==
  ASSUME IInv, NEW p \in Procs, pc[p] \in {"append", "retainAppend"}, Appendable(Candidate(p)),
         ledger' = Append(ledger, AsRecorded(Candidate(p))),
         NEW l \in {"release", "retain"}, pc' = [pc EXCEPT ![p] = l],
         NEW Failed \in BOOLEAN, rejected' = IF Failed THEN rejected \cup {job[p]} ELSE rejected,
         l = "retain" => pc[p] = "append" /\ IsCodex(job[p]) /\ Failed,
         l = "release" => ~Failed \/ job[p] \in kept' \/ ~IsCodex(job[p]),
         kept \subseteq kept', kept' \subseteq CodexAssignments,
         tail' \in {"whole", "unended", "torn"}, faults' \in Nat, crashes' + faults' \in 0..MaxTrouble,
         UNCHANGED <<lock, marker, disk, job, tries, held, world, crashes, shared, left>>
  PROVE  IInv'
<1> USE DEF world
<1>1. job[p] \in Assignments
  BY Shapes
<1> DEFINE t == Candidate(p)
<1> PICK c : c = AsRecorded(t)
  OBVIOUS
<1>2. t \in TrialRecords /\ t.id = job[p] /\ Honest(t)
  BY CandidateIsHonest
<1>3. ValidTrialRecord(t) /\ ArtifactsMatch(t) /\ AssignmentReady(Trials, job[p])
  BY <1>2 DEF Appendable
<1>4. ~Recorded(job[p]) /\ job[p] \notin rejected
  BY <1>1, <1>3 DEF AssignmentReady, Recorded, IInv, Spent
<1>5. ledger \in Seq(TrialRecords) /\ Trials \subseteq TrialRecords
  BY DEF IInv, Typed, Trials, Range
<1>6. /\ c \in TrialRecords /\ c.id = job[p] /\ c.verified = t.verified /\ c.bad = t.bad
      /\ c.rerouted = t.rerouted /\ c.problems = t.problems /\ c.route = t.route
      /\ c.cost = t.cost /\ c.artifacts = t.artifacts /\ ValidTrialRecord(c)
      /\ t.contamination \subseteq c.contamination
  BY <1>2, <1>3, <1>4, <1>5, RecordedIsCandidate
<1>7. ledger' = Append(ledger, c)
  OBVIOUS
<1> HIDE DEF t
<1>8. /\ ledger' \in Seq(TrialRecords) /\ Trials' = Trials \cup {c}
      /\ \A a : Recorded(a)' <=> Recorded(a) \/ a = job[p]
  BY <1>5, <1>6, <1>7, LongerLedger
<1>9. PreregisteredOrder'
  BY <1>3, <1>5, <1>6, <1>7, OrderIsKept DEF IInv
<1>10. Typed'
  <2>1. pc' \in [Procs -> Places] /\ \A q \in Procs : pc'[q] # "idle" => job'[q] \in Assignments
    <3>1. pc' \in [Procs -> Places]
      BY Shapes DEF Places
    <3>2. \A q \in Procs : pc'[q] # "idle" => job'[q] \in Assignments
      BY <1>1, Shapes
    <3> QED
      BY <3>1, <3>2
  <2>2. \A s \in Trials' : s.id \in Assignments /\ ValidTrialRecord(s)
    BY <1>1, <1>6, <1>8 DEF IInv, Typed, TypeOK
  <2>3. rejected' \subseteq Assignments
    BY <1>1 DEF IInv, Typed, TypeOK
  <2>4. TypeOK'
    BY <2>1, <2>2, <2>3 DEF IInv, Typed, TypeOK, Places
  <2> QED
    BY <1>8, <2>4 DEF IInv, Typed
<1>11. Carried' /\ Locked'
  BY <1>1, StillHeld, Shapes DEF IInv, Carried
<1>12. AllHonest'
  <2>1. Honest(c)'
    BY <1>2, <1>6 DEF Honest
  <2>2. \A s \in Trials : Honest(s)'
    BY DEF IInv, AllHonest, Honest
  <2> QED
    BY <1>8, <2>1, <2>2 DEF AllHonest
<1>13. /\ \A q \in Procs : Spends(q)' <=> Spends(q) /\ (q # p \/ l = "retain")
       /\ \A q \in Procs \ {p} : Spends(q) /\ IsCodex(job[p]) => job[q] # job[p]
       /\ \A q \in Procs \ {p} : Spends(q) => job[q] # job[p]
       /\ \A q \in Procs \ {p} : pc'[q] = pc[q]
       /\ pc'[p] = l
       /\ IsCodex(job[p]) => Spends(p) /\ job[p] \in marker
  <2>1. \A q \in Procs \ {p} : pc'[q] = pc[q]
    BY Shapes
  <2>2. pc'[p] = l
    BY Shapes
  <2>3. IsCodex(job[p]) => Spends(p) /\ job[p] \in marker
    BY DEF IInv, Spent
  <2>4. \A q \in Procs \ {p} : Spends(q) => job[q] # job[p]
    BY <2>3 DEF IInv, Spent
  <2> QED
    BY <2>1, <2>2, <2>3, <2>4
<1>14. Spent'
  <2>1. Spent /\ UNCHANGED <<marker, turns, job>> /\ rejected \subseteq rejected'
    BY DEF IInv
  <2>2. \A q \in Procs : Spends(q)' => (job[q] \in marker /\ Unrecorded(q))'
    <3>1. \A q \in Procs \ {p} : Spends(q)' => (job[q] \in marker /\ Unrecorded(q))'
      BY <1>8, <1>13, <2>1 DEF Spent, Unrecorded
    <3>2. Spends(p)' => (job[p] \in marker /\ Unrecorded(p))'
      BY <1>13, <2>1 DEF Unrecorded
    <3> QED
      BY <3>1, <3>2
  <2>3. \A s \in Trials' : IsCodex(s.id) => s.id \in marker
    BY <1>6, <1>8, <1>13, <2>1 DEF Spent
  <2>4. \A a \in rejected' : Recorded(a)'
    BY <1>8, <2>1 DEF Spent
  <2>5. \A q, r \in Procs : Spends(q)' /\ Spends(r)' /\ job'[q] = job'[r] => q = r
    BY <1>13, <2>1 DEF Spent
  <2>6. \A q \in Procs : Spends(q)' /\ pc'[q] = "turn" => turns'[job'[q]] = 0
    BY <1>13, <2>1 DEF Spent
  <2> QED
    BY <2>1, <2>2, <2>3, <2>4, <2>5, <2>6 DEF Spent
<1>15. Exclusive'
  <2>1. \A q \in Procs : /\ Holds(q)' <=> Holds(q)
                         /\ pc'[q] \in {"prepare", "mark"} => pc[q] = pc'[q]
    BY Shapes
  <2>2. disk[c.id] = c.artifacts
    BY <1>2, <1>3, <1>6 DEF ArtifactsMatch
  <2> QED
    BY <1>8, <2>1, <2>2 DEF IInv, Exclusive, ArtifactsMatch
<1>16. InHand'
  <2>1. \A a \in CodexAssignments \ {job[p]} : /\ Recorded(a)' <=> Recorded(a)
                                               /\ a \in rejected' <=> a \in rejected
    BY <1>8
  <2>2. \A a \in CodexAssignments \ {job[p]} :
          (\E q \in Procs : Spends(q) /\ job[q] = a) => \E q \in Procs : Spends(q)' /\ job'[q] = a
    BY <1>13
  <2>3. job[p] \in CodexAssignments =>
          \/ Recorded(job[p])' /\ job[p] \notin rejected'
          \/ job[p] \in kept'
          \/ \E q \in Procs : Spends(q)' /\ job'[q] = job[p]
    BY <1>4, <1>8, <1>13 DEF CodexAssignments
  <2> QED
    BY <2>1, <2>2, <2>3 DEF IInv, InHand
<1> QED
  BY <1>9, <1>10, <1>11, <1>12, <1>14, <1>15, <1>16 DEF IInv

LEMMA AppendTrialKeeps == ASSUME IInv, NEW p \in Procs, AppendTrial(p) PROVE IInv'
<1>1. pc[p] \in {"append", "retainAppend"}
  BY DEF AppendTrial
<1>2. tail \in {"whole", "unended", "torn"} /\ kept \subseteq CodexAssignments
      /\ faults \in Nat /\ crashes + faults \in 0..MaxTrouble
  BY DEF IInv, Typed, TypeOK
<1>3. UNCHANGED <<lock, marker, disk, job, tries, held, world, crashes, faults, shared, left,
                  rejected>>
  BY DEF AppendTrial, bounds
<1>4. CASE ~Appendable(Candidate(p))
  <2>1. AfterRefusal(p) /\ UNCHANGED <<ledger, tail>>
    BY <1>4 DEF AppendTrial
  <2> QED
    BY <1>1, <1>2, <1>3, <2>1, RefusalKeeps
<1>5. CASE Appendable(Candidate(p))
  <2>1. /\ ledger' = Append(ledger, AsRecorded(Candidate(p)))
        /\ tail' = (IF tail = "whole" THEN "whole" ELSE "torn")
        /\ pc' = [pc EXCEPT ![p] = "release"] /\ kept' = kept
    BY <1>5 DEF AppendTrial, AddLine
  <2>2. tail' \in {"whole", "unended", "torn"} /\ kept \subseteq kept'
    BY <2>1
  <2> QED
    BY <1>1, <1>2, <1>3, <1>5, <2>1, <2>2, LineKeeps
<1> QED
  BY <1>4, <1>5

LEMMA AppendFailsKeeps == ASSUME IInv, NEW p \in Procs, AppendFails(p) PROVE IInv'
<1>1. /\ pc[p] \in {"append", "retainAppend"} /\ Appendable(Candidate(p)) /\ AfterRefusal(p)
      /\ UNCHANGED <<lock, marker, disk, job, tries, held, world, crashes, shared, left>>
      /\ job[p] \in Assignments
  BY Shapes DEF AppendFails
<1>2. faults' \in Nat /\ crashes' + faults' \in 0..MaxTrouble
  BY Bounds DEF AppendFails, MoreTrouble
<1>3. tail \in {"whole", "unended", "torn"} /\ kept \subseteq CodexAssignments
  BY DEF IInv, Typed, TypeOK
<1>4. CASE tail' \in {tail, "torn"} /\ UNCHANGED <<ledger, rejected>>
  BY <1>1, <1>2, <1>3, <1>4, RefusalKeeps
<1>5. CASE /\ ledger' = Append(ledger, AsRecorded(Candidate(p)))
           /\ tail' \in IF tail = "whole" THEN {"whole", "unended"} ELSE {"torn"}
           /\ rejected' = rejected \cup {job[p]}
  <2>1. tail' \in {"whole", "unended", "torn"}
    BY <1>5
  <2>2. pc[p] = "retainAppend" => job[p] \in CodexAssignments
    BY <1>1 DEF IInv, Carried, CodexAssignments
  <2>3. kept \subseteq kept' /\ kept' \subseteq CodexAssignments
    BY <1>1, <1>3, <2>2 DEF AfterRefusal
  <2>4. CASE pc[p] = "append" /\ IsCodex(job[p])
    <3>1. pc' = [pc EXCEPT ![p] = "retain"]
      BY <1>1, <2>4 DEF AfterRefusal
    <3> QED
      BY <1>1, <1>2, <1>5, <2>1, <2>3, <2>4, <3>1, LineKeeps
  <2>5. CASE ~(pc[p] = "append" /\ IsCodex(job[p]))
    <3>1. pc' = [pc EXCEPT ![p] = "release"] /\ (job[p] \in kept' \/ ~IsCodex(job[p]))
      BY <1>1, <2>5 DEF AfterRefusal
    <3> QED
      BY <1>1, <1>2, <1>5, <2>1, <2>3, <3>1, LineKeeps
  <2> QED
    BY <2>4, <2>5
<1> QED
  BY <1>4, <1>5 DEF AppendFails

LEMMA RetentionFailsKeeps == ASSUME IInv, NEW p \in Procs, RetentionFails(p) PROVE IInv'
<1> USE DEF files, world, bounds, RetentionFails, MoreTrouble
<1>1. Spends(p) /\ job[p] \in Assignments /\ job[p] \in CodexAssignments
  BY Shapes DEF IInv, Carried, CodexAssignments
<1>2. /\ disk' \in [Assignments -> Artifacts]
      /\ \A a \in Assignments : a # job[p] => disk'[a] = disk[a]
  <2>1. CASE disk' = disk
    BY <2>1, Shapes
  <2>2. CASE disk' = [disk EXCEPT ![job[p]].logs = "failure"]
    BY <1>1, <2>2, DiskShapes DEF LogKinds
  <2> QED
    BY <2>1, <2>2
<1>3. /\ pc' = [pc EXCEPT ![p] = "release"] /\ kept' = kept \cup {job[p]}
      /\ UNCHANGED <<lock, ledger, tail, marker, job, tries, held, turns, truth, sealed, env,
                     crashes, shared, left, rejected>>
  OBVIOUS
<1>4. Typed'
  <2>1. pc' \in [Procs -> Places]
    BY Shapes DEF Places
  <2>2. faults' \in Nat /\ crashes' + faults' \in 0..MaxTrouble
    BY Bounds
  <2> QED
    BY <1>1, <1>2, <1>3, <2>1, <2>2, SameLedger DEF IInv, Typed, TypeOK, Places
<1>5. Locked' /\ Exclusive'
  BY <1>1, <1>2, <1>3, StillHeld, ArtifactsStand
<1>6. \A q \in Procs : /\ Spends(q)' => Spends(q) /\ pc'[q] = pc[q]
                       /\ Spends(q) => Spends(q)' \/ q = p
  BY <1>3, Shapes
<1>7. Spent' /\ PreregisteredOrder'
  BY <1>3, <1>6, SameLedger DEF IInv, Spent, Unrecorded
<1>8. InHand'
  BY <1>3, <1>6, SameLedger DEF IInv, InHand
<1>9. Carried' /\ AllHonest'
  BY <1>3, Shapes, SameLedger DEF IInv, Carried, AllHonest, Honest
<1> QED
  BY <1>4, <1>5, <1>7, <1>8, <1>9 DEF IInv

-----------------------------------------------------------------------------
(* When a saving may be claimed *)

\* An arm the automatic checks leave clean had nothing to amend.
LEMMA CleanHadNoIssue ==
  ASSUME NEW trials \in SUBSET TrialRecords, NEW t \in trials, IsCodex(t.id),
         \A c \in AutomaticallyChecked(trials) :
           IsCodex(c.id) => c.contamination = {}
  PROVE  ArmIssues(t) = {}
<1> DEFINE u == ArmChecked(t)
           c == IF DriftIsHeldAgainst(t, trials)
                  THEN [u EXCEPT !.contamination = @ \cup {"quota-interference"}] ELSE u
<1>1. c \in AutomaticallyChecked(trials)
  BY DEF AutomaticallyChecked
<1>2. t \in TrialRecords /\ u \in TrialRecords
  BY ChecksType
<1>3. u.id = t.id /\ t.contamination \subseteq u.contamination
  BY <1>2, ArmCheckKeeps
<1> HIDE DEF u
<1>4. c.id = u.id /\ u.contamination \subseteq c.contamination
  BY <1>2 DEF TrialRecords
<1>5. u.contamination = {}
  BY <1>1, <1>3, <1>4
<1> HIDE DEF c
<1>6. ASSUME ArmIssues(t) # {} PROVE FALSE
  <2> DEFINE v == [t EXCEPT !.contamination = @ \cup ArmIssues(t)]
  <2>1. u = [v EXCEPT !.compliance = "noncompliant"]
    BY <1>6 DEF u, ArmChecked
  <2>2. v.contamination = t.contamination \cup ArmIssues(t)
    BY <1>2 DEF TrialRecords
  <2>3. u.contamination = v.contamination
    BY <1>2, <2>1 DEF TrialRecords
  <2> QED
    BY <1>5, <1>6, <2>2, <2>3
<1> QED
  BY <1>6

\* Every block of the schedule has an ON arm of every surface.
LEMMA EveryCellIsScheduled ==
  ASSUME NEW surface \in Surfaces
  PROVE  \E a \in Assignments : Schedule[a].surface = surface /\ IsOn(a)
<1>1. PICK b \in Assignments : TRUE
  BY ExperimentAssumption
<1>2. [surface |-> surface, on |-> TRUE] \in Cells
  BY DEF Cells
<1>3. [surface |-> surface, on |-> TRUE] \in {Cell(a) : a \in OfBlock(Block(b))}
  BY <1>1, <1>2, ExperimentAssumption DEF ValidSchedule
<1>4. PICK a \in OfBlock(Block(b)) : [surface |-> surface, on |-> TRUE] = Cell(a)
  BY <1>3
<1>5. Schedule[a].surface = surface /\ Schedule[a].on = TRUE
  BY <1>4 DEF Cell
<1> QED
  BY <1>4, <1>5 DEF OfBlock, IsOn

LEMMA ClaimsFollow == IInv => ClaimIsClean
<1> SUFFICES ASSUME IInv, NEW surface \in Surfaces, CompleteTrials(Trials),
                    ClaimEligible(Trials, surface)
             PROVE  /\ surface = "codex"
                    /\ \A a \in CodexAssignments :
                         /\ ~truth[a].rerouted
                         /\ RequireBothVerified => truth[a].exit = "ok" /\ truth[a].hidden
                         /\ IsOn(a) => truth[a].route = "verified" /\ truth[a].problems = {}
                    /\ \A pair \in Pairs(Trials) : ~QuotaDrifts(pair[1], pair[2])
  BY DEF ClaimIsClean
<1>1. \A a \in Assignments : \E t \in Trials : t.id = a
  BY DEF CompleteTrials
<1>2. /\ Trials \subseteq TrialRecords /\ AllHonest
      /\ \A t \in Trials : t.id \in Assignments
  BY Shapes DEF IInv, Typed, Trials, Range
<1>3. Surfaces \in {{"codex"}, {"codex", "chatgpt-work"}}
      /\ \A a \in Assignments : IsOn(a) \in BOOLEAN
  BY ExperimentAssumption DEF IsOn
<1>4. /\ \A t \in InCell(Trials, surface, FALSE) \cup InCell(Trials, surface, TRUE) : t.cost # NoCost
      /\ VerificationEligible(InCell(Trials, surface, FALSE), InCell(Trials, surface, TRUE))
      /\ \A t \in InCell(Trials, surface, TRUE) : t.route = "verified"
      /\ \A t \in AutomaticallyChecked(Trials) : Schedule[t.id].surface = surface =>
           t.contamination = {} /\ t.compliance # "noncompliant"
      /\ surface = "codex" => \A pair \in Pairs(Trials) : ~PairContaminated(pair)
  BY DEF ClaimEligible
<1>5. surface = "codex"
  <2> SUFFICES ASSUME surface # "codex" PROVE FALSE
    OBVIOUS
  <2>1. PICK a \in Assignments : Schedule[a].surface = surface /\ IsOn(a)
    BY EveryCellIsScheduled
  <2>2. PICK t \in Trials : t.id = a
    BY <1>1
  <2>3. t \in InCell(Trials, surface, TRUE)
    BY <1>3, <2>1, <2>2 DEF InCell
  <2>4. ~IsCodex(t.id)
    BY <2>1, <2>2 DEF IsCodex
  <2> QED
    BY <1>2, <1>4, <2>3, <2>4 DEF AllHonest, Honest
<1>6. ASSUME NEW a \in CodexAssignments
      PROVE  /\ ~truth[a].rerouted
             /\ RequireBothVerified => truth[a].exit = "ok" /\ truth[a].hidden
             /\ IsOn(a) => truth[a].route = "verified" /\ truth[a].problems = {}
  <2>1. a \in Assignments /\ IsCodex(a) /\ Schedule[a].surface = surface
    BY <1>5 DEF CodexAssignments, IsCodex
  <2>2. PICK t \in Trials : t.id = a
    BY <1>1, <2>1
  <2>3. /\ t.rerouted = truth[a].rerouted /\ t.problems = truth[a].problems
        /\ truth[a] \in Runs /\ t.route = RouteStatus(a, truth[a])
        /\ t.verified => truth[a].exit = "ok" /\ truth[a].hidden
    BY <1>2, <2>1, <2>2 DEF AllHonest, Honest
  <2>4. ArmIssues(t) = {}
    BY <1>2, <1>4, <1>5, <2>1, <2>2, CleanHadNoIssue DEF IsCodex
  <2>5. ~truth[a].rerouted
    BY <2>3, <2>4 DEF ArmIssues, BackendRouteIssues
  <2>6. t \in InCell(Trials, surface, TRUE) \/ t \in InCell(Trials, surface, FALSE)
    BY <1>3, <2>1, <2>2 DEF InCell
  <2>7. RequireBothVerified => truth[a].exit = "ok" /\ truth[a].hidden
    BY <1>4, <2>3, <2>6 DEF VerificationEligible
  <2>8. ASSUME IsOn(a) PROVE truth[a].route = "verified" /\ truth[a].problems = {}
    <3>1. t \in InCell(Trials, surface, TRUE)
      BY <1>3, <2>1, <2>2, <2>8 DEF InCell
    <3>2. t.route = "verified"
      BY <1>4, <3>1
    <3>3. truth[a].route = "verified"
      BY <2>1, <2>3, <2>8, <3>2 DEF RouteStatus
    <3>4. RouteIssues(t) = {}
      BY <2>4 DEF ArmIssues
    <3>5. /\ t.problems \cap {"static-policy", "inadmissible"} = {}
          /\ t.problems \cap Mismatches = {}
      BY <2>2, <2>8, <3>2, <3>4 DEF RouteIssues, Mismatches
    <3>6. t.problems \subseteq RouteProblems
      BY <2>3 DEF Runs
    <3> QED
      BY <2>3, <3>3, <3>5, <3>6 DEF RouteProblems
  <2> QED
    BY <2>5, <2>7, <2>8
<1>7. \A pair \in Pairs(Trials) : ~QuotaDrifts(pair[1], pair[2])
  BY <1>4, <1>5 DEF PairContaminated
<1> QED
  BY <1>5, <1>6, <1>7

-----------------------------------------------------------------------------
LEMMA InitIsInductive == Init => IInv
<1> SUFFICES ASSUME Init PROVE IInv
  OBVIOUS
<1>1. Trials = {} /\ ledger \in Seq(TrialRecords) /\ PreregisteredOrder
  BY DEF Init, Trials, Range, PreregisteredOrder
<1>2. Typed
  <2>1. lock \in [by : Procs \cup {Dead, None}, written : BOOLEAN]
    <3>1. lock = [by |-> None, written |-> FALSE]
      BY DEF Init
    <3> QED
      BY <3>1
  <2>2. TypeOK
    <3>1. 0 \in 0..(LockAttempts - 1) /\ 0 \in 0..MaxTrouble
      BY CommandAssumption
    <3>2. crashes + faults \in 0..MaxTrouble
      BY <3>1 DEF Init
    <3> QED
      BY <1>1, <2>1, <3>1, <3>2 DEF Init, TypeOK
  <2> QED
    BY <1>1, <2>2, CommandAssumption DEF Init, Typed, Artifacts, LogKinds
<1>3. Carried /\ Locked /\ AllHonest
  BY <1>1, CommandAssumption DEF Init, Carried, Locked, AllHonest
<1>4. Spent /\ Exclusive /\ InHand
  BY <1>1 DEF Init, Spent, Exclusive, InHand, CodexAssignments
<1> QED
  BY <1>1, <1>2, <1>3, <1>4 DEF IInv

LEMMA NextKeeps == IInv /\ [Next]_vars => IInv'
<1> SUFFICES ASSUME IInv, [Next]_vars PROVE IInv'
  OBVIOUS
<1>1. CASE Next
  BY <1>1, RunCodexKeeps, ImportKeeps, DeriveKeeps, OpenLockKeeps, WriteLockKeeps,
     InspectLockKeeps, RenameLockKeeps, ReadBeforeReleaseKeeps, UnlinkKeeps, CheckLedgerKeeps,
     PrepareKeeps, WriteAttemptMarkerKeeps, StartTurnKeeps, EndTurnKeeps, VerifyKeeps,
     AppendTrialKeeps, RetainPostRunFailureKeeps, WriteLockFailsKeeps, PostRunFaultKeeps,
     ReleaseFailsKeeps, AppendFailsKeeps, RetentionFailsKeeps, CrashKeeps DEF Next, Step, Fault
<1>2. CASE UNCHANGED vars
  <2> USE <1>2 DEF vars, files, world, bounds
  <2>1. Typed' /\ Carried'
    BY SameLedger DEF IInv, Typed, TypeOK, Carried
  <2>2. Spent' /\ AllHonest' /\ InHand'
    BY SameLedger DEF IInv, Spent, Unrecorded, AllHonest, Honest, InHand
  <2>3. Locked' /\ Exclusive' /\ PreregisteredOrder'
    BY SameLedger DEF IInv, Locked, Exclusive, ArtifactsMatch
  <2> QED
    BY <2>1, <2>2, <2>3 DEF IInv
<1> QED
  BY <1>1, <1>2

\* The whole argument in one formula: what each process carries, the accounts of turns
\* and trials, the lock and the order of the ledger.
THEOREM Inductive == Spec => []IInv
<1>1. Init => IInv
  BY InitIsInductive
<1>2. IInv /\ [Next]_vars => IInv'
  BY NextKeeps
<1> QED
  BY <1>1, <1>2, PTL DEF Spec

\* No assignment is given a second model turn, however many commands run and die and
\* however the lock is reclaimed (writeAttemptMarker opens attempt.json exclusively).
THEOREM NoRerun == Spec => []OneTurnPerAssignment
<1>1. IInv => OneTurnPerAssignment
  BY DEF IInv, Spent, OneTurnPerAssignment
<1> QED
  BY <1>1, Inductive, PTL

\* The ledger keeps the preregistered order of every block and records a Codex
\* assignment at most once (appendTrial validates the order under the lock again).
THEOREM OrderIsPreregistered == Spec => []PreregisteredOrder
<1>1. IInv => PreregisteredOrder
  BY DEF IInv
<1> QED
  BY <1>1, Inductive, PTL

\* No turn is lost without a death, none is recorded better than it was, one recorded
\* worse says so, and the files a record hashed stay but for an append that failed or a
\* lock two processes held (runCodexAssignment, appendTrial, retainPostRunFailure).
THEOREM TurnsAreAccountedFor == Spec => []TurnsAreOnRecord
<1>1. IInv => TurnsAreOnRecord
  <2> SUFFICES ASSUME IInv PROVE TurnsAreOnRecord
    OBVIOUS
  <2>1. crashes = 0 =>
          \A a \in CodexAssignments : turns[a] > 0 =>
            \/ Recorded(a) /\ a \notin rejected
            \/ a \in kept
            \/ \E p \in Procs : job[p] = a /\ Holds(p)
    BY DEF IInv, InHand
  <2>2. \A t \in Trials : IsCodex(t.id) /\ ~shared => ArtifactsMatch(t) \/ t.id \in rejected
    BY DEF IInv, Exclusive
  <2> QED
    BY <2>1, <2>2 DEF IInv, AllHonest, Honest, TurnsAreOnRecord
<1> QED
  BY <1>1, Inductive, PTL

\* A saving is only claimed of arms whose output supports it, whatever the ledger holds
\* and whatever schedule, tolerance and threshold the protocol sets (compareCommonCost).
THEOREM ClaimsAreClean == Spec => []ClaimIsClean
<1> QED
  BY ClaimsFollow, Inductive, PTL

\* The lock admits one process at a time until a process is over with its lock file still
\* there: it died, or the clean-up before the release, the write of the file or its
\* removal failed (acquireTrialLock, reclaimStaleTrialLock, runCodexAssignment).
THEOREM LockWorks == Spec => []LockIsSound
<1>1. IInv => LockIsSound
  BY DEF IInv, Typed, Locked, LockIsSound
<1> QED
  BY <1>1, Inductive, PTL

=============================================================================
