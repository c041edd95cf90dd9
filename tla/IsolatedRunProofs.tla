--------------------------- MODULE IsolatedRunProofs ---------------------------
(***************************************************************************)
(* Proofs about IsolatedRun, and so about Worktrees, for any runs and      *)
(* configurations and any number of failing operations.  The argument: an  *)
(* arm is launched only when both are ready, each in a registered worktree *)
(* with a handle; from then on the run waits for its arms or, when they do *)
(* not stop, keeps everything, so the removal of worktrees never meets a   *)
(* running arm; and what is checked after the arms have settled cannot be  *)
(* moved by an agent any more.                                             *)
(***************************************************************************)
EXTENDS IsolatedRun, TLAPS

(* What is where on the way through run: before the arms are launched, ... *)
BeforePair   == {"start", "snapshot", "record"}
BeforeLaunch == BeforePair \cup {"pair", "connect", "query", "route", "resume", "threads",
                                 "routed", "launch"}
WithServer   == {"query", "route", "resume", "threads", "routed", "launch", "arms", "check",
                 "artifacts", "apply", "telemetry"}
Finally      == {"dispose", "close", "cleanup", "remove", "report", "done"}
AfterRemoval == {"report", "done"}

Places == BeforeLaunch \cup WithServer \cup {"contain", "snapshot"} \cup Finally

Queued(o) == waits[o] # Out /\ o \notin released

(* An arm has one operation in the chain at most, so one of two queued ones waits for the
   other, and the last of them is the tail. *)
ChainInOrder ==
  /\ \A a \in Arms :
       /\ Queued(<<"add", a>>) <=> step[a] = "add"
       /\ Queued(<<"undo", a>>) <=> step[a] = "undo"
       /\ step[a] \in {"out", "start"} => waits[<<"add", a>>] = Out
       /\ step[a] \notin {"undo", "failed"} => waits[<<"undo", a>>] = Out
  /\ \A o \in released : waits[o] # Out
  /\ IF tail = None THEN \A o \in Ops : ~Queued(o) ELSE Queued(tail)
  /\ \A o, p \in Ops : Queued(o) /\ Queued(p) /\ o # p =>
       (tail = o /\ waits[o] = p) \/ (tail = p /\ waits[p] = o)

(* The arms are made during createPair, of one snapshot, one copy of the dependencies and
   refs no agent has moved. *)
PairInStep ==
  /\ \A a \in Arms \ Mine : step[a] = "out" /\ arm[a] = "idle"
  /\ \A a \in Arms : step[a] \notin {"out", "ready", "failed"} => pc = "pair"
  /\ pc \in BeforePair => \A a \in Arms : step[a] = "out"
  /\ pc \in (BeforeLaunch \ (BeforePair \cup {"pair"})) \cup WithServer \cup {"contain"} =>
       AllReady
  /\ pc \in BeforeLaunch \ {"start", "snapshot"} \/ (\E a \in Arms : step[a] # "out") =>
       snap[1] # None /\ snap[1] = snap[2]

ArmsAreFilled ==
  \A a \in Mine :
    /\ step[a] \in {"deps", "share", "ready"} => copied[a].files = snap[1]
    /\ step[a] \in {"share", "ready"} => copied[a].deps = deps /\ deps \in Versions
    /\ step[a] = "ready" => shared \in {"nobody", "user"}

(* Every worktree on disk has a handle, but while its creation is looked into. *)
DiskIsHandled ==
  /\ \A a \in Arms :
       /\ step[a] \in {"out", "start", "add"} => tree[a] = "none"
       /\ step[a] \notin {"out", "start", "failed"} \/ tree[a] # "none" => root # "none"
       /\ step[a] \in {"fill", "deps", "share", "ready"} =>
            a \in handles /\ (pc \notin AfterRemoval => tree[a] = "registered")
       /\ tree[a] # "none" /\ step[a] # "inspect" => a \in handles
       /\ root = "removed" => tree[a] # "registered"
       /\ pc \in AfterRemoval /\ tree[a] = "registered" =>
            forced \/ Keep \/ "worktrees" \in errors
  /\ pc \notin AfterRemoval => root # "removed"

(* Arms that have not settled are waited for, or everything is kept. *)
ArmsAreKept ==
  /\ pc \in BeforeLaunch => \A a \in Arms : arm[a] = "idle"
  /\ (\E a \in Arms : arm[a] # "idle") => AllReady /\ arm["control"] # "idle"
  /\ pc \in BeforeLaunch \cup {"arms", "contain"} \/ threw \/ ArmsSettled
  /\ arm["control"] # "idle" /\ ~ArmsSettled =>
       /\ pc \in {"arms", "contain"} \/ (pc \in Finally /\ forced)
       /\ root = "made" /\ \A a \in Mine : tree[a] = "registered"
  /\ pc = "remove" => ~forced \/ handles = {}
  /\ pc \in {"arms", "contain"} => arm["control"] # "idle"

(* A server that is closed before its threads are deleted was closed on running arms, and
   a run with a thread it has not been told of is over before an arm runs. *)
ThreadsAreKnown ==
  /\ pc \in BeforeLaunch \ WithServer => server = "none"
  /\ pc \in WithServer \cup {"close"} => server = "open"
  /\ pc = "contain" => server = "closed"
  /\ pc \in BeforeLaunch \ {"routed", "launch"} => known = {}
  /\ \A a \in Arms : thread[a] = "open" => a \in known /\ server # "none"
  /\ \A a \in Arms : thread[a] = "stray" => threw /\ \A b \in Arms : arm[b] = "idle"
  /\ pc = "dispose" /\ server = "closed" => threw /\ arm["control"] # "idle"
  /\ pc \in Finally \ {"dispose"} =>
       \A a \in Arms : thread[a] = "open" =>
         "delete" \in errors \/ (threw /\ arm["control"] # "idle" /\ server = "closed")

(* Only an arm that runs moves the refs, and what it moved is found. *)
RefsAreWatched ==
  /\ shared # "agent"
  /\ refs = "agent" => arm["control"] # "idle"
  /\ pc \in {"artifacts", "apply", "telemetry"} \/ (pc \in Finally /\ ~threw) =>
       tampered = {} /\ refs # "agent"
  /\ pc \in {"remove", "report", "done"} /\ refs = "agent" => forced \/ "control" \in errors

OutcomeIsOfItsRun ==
  /\ pc \notin Finally => ~threw
  /\ committed => ~threw /\ pc \in {"telemetry"} \cup Finally
  /\ outcome = IF pc = "done" THEN Reported ELSE None

IInv ==
  /\ TypeOK
  /\ ChainInOrder /\ PairInStep /\ ArmsAreFilled /\ DiskIsHandled /\ ArmsAreKept
  /\ ThreadsAreKnown /\ RefsAreWatched /\ OutcomeIsOfItsRun

-----------------------------------------------------------------------------
(* What the frames and the steps below take from the type invariant. *)
LEMMA Shapes ==
  ASSUME IInv
  PROVE  /\ root \in {"none", "made", "removed"} /\ server \in {"none", "open", "closed"}
         /\ step \in [Arms -> {"out", "start", "add", "inspect", "fill", "deps", "share", "undo",
                               "ready", "failed"}]
         /\ tree \in [Arms -> {"none", "dir", "registered"}]
         /\ arm \in [Arms -> {"idle", "turn", "verify", "settled"}]
         /\ thread \in [Arms -> {"none", "open", "stray", "deleted"}]
         /\ waits \in [Ops -> Ops \cup {None, Out}] /\ tail \in Ops \cup {None}
         /\ released \subseteq Ops
         /\ DOMAIN copied = Arms /\ (\A a \in Arms : DOMAIN copied[a] = {"files", "deps"})
         /\ snap \in [1..2 -> Versions \cup {None}]
         /\ threw \in BOOLEAN /\ forced \in BOOLEAN /\ handles \subseteq Mine
         /\ known \subseteq Mine /\ tampered \subseteq Mine
BY DEF IInv, TypeOK, WTypeOK

LEMMA TroubleCounts ==
  ASSUME IInv, trouble' = trouble \/ (trouble < MaxTrouble /\ trouble' = trouble + 1)
  PROVE  trouble' \in 0..MaxTrouble
BY MarksAssumption DEF IInv, TypeOK, WTypeOK

LEMMA PlacesAre ==
  Places = {"start", "snapshot", "record", "pair", "connect", "query", "route", "resume",
            "threads", "routed", "launch", "arms", "contain", "check", "artifacts", "apply",
            "telemetry", "dispose", "close", "cleanup", "remove", "report", "done"}
BY DEF Places, BeforeLaunch, BeforePair, WithServer, Finally

LEMMA Promises ==
  ASSUME IInv
  PROVE  /\ deps \in Versions \cup {None, Pending, Broken}
         /\ shared \in {None, "failed", "nobody", "user", "agent"}
         /\ refs \in {"nobody", "user", "agent"}
         /\ copied \in [Arms -> [files : Versions \cup {None}, deps : Versions \cup {None}]]
BY DEF IInv, TypeOK, WTypeOK

LEMMA Fixed ==
  /\ "control" \in Mine /\ Mine \subseteq Arms /\ "treatment" \in Arms
  /\ Twin => Mine = Arms
  /\ env' = env => Mine' = Mine
BY DEF Mine, Arms, Twin

LEMMA OpsOfArms == \A a \in Arms : <<"add", a>> \in Ops /\ <<"undo", a>> \in Ops
BY DEF Ops

LEMMA Operations ==
  /\ \A a \in Arms : <<"add", a>> \in Ops /\ <<"undo", a>> \in Ops /\ <<"add", a>> # <<"undo", a>>
  /\ \A a, b \in Arms : /\ <<"add", a>> # <<"undo", b>>
                        /\ <<"add", a>> = <<"add", b>> => a = b
                        /\ <<"undo", a>> = <<"undo", b>> => a = b
  /\ \A o \in Ops : \E a \in Arms : o \in {<<"add", a>>, <<"undo", a>>}
  /\ \A a, b, c \in Arms : a = b \/ a = c \/ b = c
BY DEF Ops, Arms

(* While an arm is made nothing else is under way. *)
LEMMA Creating ==
  ASSUME IInv, NEW a \in Arms, step[a] \notin {"out", "ready", "failed"}
  PROVE  /\ pc = "pair" /\ (\A b \in Arms : arm[b] = "idle") /\ refs # "agent"
         /\ a \in Mine /\ snap[1] # None /\ snap[1] = snap[2] /\ ~threw /\ root # "removed"
<1>1. pc = "pair" /\ a \in Mine /\ snap[1] # None /\ snap[1] = snap[2]
  BY DEF IInv, PairInStep
<1>2. (\A b \in Arms : arm[b] = "idle") /\ root # "removed" /\ ~threw
  BY <1>1 DEF IInv, ArmsAreKept, BeforeLaunch, BeforePair, DiskIsHandled, AfterRemoval,
     OutcomeIsOfItsRun, Finally
<1> QED
  BY <1>1, <1>2, Fixed DEF IInv, RefsAreWatched

(* An operation that joins the chain finds at most the other arm's in it. *)
LEMMA Entering ==
  ASSUME IInv, NEW a \in Arms, step[a] \notin {"add", "undo"},
         NEW op \in {<<"add", a>>, <<"undo", a>>}, waits[op] = Out, Enter(op)
  PROVE  /\ \A o \in Ops \ {op} : (waits'[o] = waits[o]) /\ (Queued(o)' <=> Queued(o))
         /\ Queued(op)' /\ released' = released /\ tail' = op /\ tail' # None
         /\ \A o \in released : waits'[o] # Out
         /\ \A o, p \in Ops : Queued(o)' /\ Queued(p)' /\ o # p =>
              (tail' = o /\ waits'[o] = p) \/ (tail' = p /\ waits'[p] = o)
<1>1. op \in Ops /\ op \notin released /\ waits' = [waits EXCEPT ![op] = tail] /\ tail' = op
      /\ released' = released /\ tail # Out
  <2>1. op \in Ops
    BY Operations
  <2>2. op \notin released
    BY DEF IInv, ChainInOrder
  <2>3. tail # Out
    BY Shapes, MarksAssumption
  <2> QED
    BY <2>1, <2>2, <2>3 DEF Enter
<1>2. \A o \in Ops \ {op} : (waits'[o] = waits[o]) /\ (Queued(o)' <=> Queued(o))
  BY <1>1, Shapes DEF Queued
<1>3. waits'[op] = tail /\ Queued(op)'
  BY <1>1, Shapes DEF Queued
<1>4. ASSUME NEW o \in Ops, Queued(o) PROVE tail = o
  <2>1. PICK b \in Arms : o \in {<<"add", b>>, <<"undo", b>>}
    BY Operations
  <2>2. step[b] \in {"add", "undo"}
    BY <1>4, <2>1 DEF IInv, ChainInOrder
  <2>3. tail \in Ops /\ Queued(tail)
    BY <1>4, Shapes DEF IInv, ChainInOrder
  <2>4. PICK c \in Arms : tail \in {<<"add", c>>, <<"undo", c>>}
    BY <2>3, Operations
  <2>5. step[c] \in {"add", "undo"}
    BY <2>3, <2>4 DEF IInv, ChainInOrder
  <2>6. b = c
    BY <2>2, <2>5, Operations
  <2> QED
    BY <1>4, <2>1, <2>2, <2>3, <2>4, <2>6 DEF IInv, ChainInOrder
<1>5. \A o \in released : waits'[o] # Out
  BY <1>1, <1>2, Shapes DEF IInv, ChainInOrder
<1>6. ASSUME NEW o \in Ops, NEW p \in Ops, Queued(o)', Queued(p)', o # p
      PROVE  (tail' = o /\ waits'[o] = p) \/ (tail' = p /\ waits'[p] = o)
  BY <1>1, <1>2, <1>3, <1>4, <1>6
<1>7. tail' # None
  BY <1>1, MarksAssumption
<1> QED
  BY <1>1, <1>2, <1>3, <1>5, <1>6, <1>7


(* What a step leaves alone stands. *)
LEMMA ChainStands ==
  ASSUME ChainInOrder, UNCHANGED <<step, tail, waits, released>>
  PROVE  ChainInOrder'
BY DEF ChainInOrder, Queued

LEMMA PairStands ==
  ASSUME PairInStep, UNCHANGED <<env, step, arm, pc, snap>>
  PROVE  PairInStep'
BY DEF PairInStep, BeforePair, BeforeLaunch, WithServer, AllReady, Mine

LEMMA FillStands ==
  ASSUME ArmsAreFilled, UNCHANGED <<env, step, copied, snap, deps, shared>>
  PROVE  ArmsAreFilled'
BY DEF ArmsAreFilled, Mine

LEMMA DiskStands ==
  ASSUME DiskIsHandled,
         UNCHANGED <<env, step, tree, root, handles, pc, forced, succeeded, errors>>
  PROVE  DiskIsHandled'
BY DEF DiskIsHandled, AfterRemoval, Keep, Mine

LEMMA ArmsStand ==
  ASSUME ArmsAreKept, UNCHANGED <<env, pc, arm, step, threw, root, tree, forced, handles>>
  PROVE  ArmsAreKept'
BY DEF ArmsAreKept, BeforePair, BeforeLaunch, Finally, AllReady, ArmsSettled, Mine

LEMMA ThreadsStand ==
  ASSUME ThreadsAreKnown, UNCHANGED <<pc, server, thread, known, threw, arm, errors>>
  PROVE  ThreadsAreKnown'
BY DEF ThreadsAreKnown, BeforePair, BeforeLaunch, WithServer, Finally

LEMMA RefsStand ==
  ASSUME RefsAreWatched, UNCHANGED <<shared, refs, arm, pc, threw, tampered, forced, errors>>
  PROVE  RefsAreWatched'
BY DEF RefsAreWatched, Finally

LEMMA OutcomeStands ==
  ASSUME OutcomeIsOfItsRun, UNCHANGED <<env, pc, threw, committed, outcome, errors>>
  PROVE  OutcomeIsOfItsRun'
BY DEF OutcomeIsOfItsRun, Finally, Reported, Twin

-----------------------------------------------------------------------------
(* The creation of the arms *)

LEMMA StartCreateKeeps ==
  ASSUME IInv, NEW a \in Arms, StartCreate(a), UNCHANGED rvars
  PROVE  IInv'
<1> USE DEF StartCreate, At, Goto, Enter, rvars
<1>1. env' = env /\ Mine' = Mine /\ Mine \subseteq Arms
  BY Fixed
<1>2. TypeOK'
  <2>1. /\ root' \in {"none", "made", "removed"}
        /\ step' \in [Arms -> {"out", "start", "add", "inspect", "fill", "deps", "share", "undo",
                    "ready", "failed"}]
    BY <1>1, MarksAssumption DEF IInv, TypeOK, WTypeOK
  <2>2. tail' \in Ops \cup {None}
    BY Operations DEF IInv, TypeOK, WTypeOK
  <2>3. waits' \in [Ops -> Ops \cup {None, Out}]
    BY <1>1, MarksAssumption DEF IInv, TypeOK, WTypeOK
  <2>4. UNCHANGED <<env, source, refs, snap, tree, handles, tampered, copied, deps,
                     shared, released, trouble, pc, abort, server, thread, known, good,
                     arm, forced, succeeded, committed, threw, errors, outcome>>
    OBVIOUS
  <2> HIDE DEF StartCreate
  <2> QED
    BY <1>1, <2>1, <2>2, <2>3, <2>4 DEF IInv, TypeOK, WTypeOK
<1>3. ThreadsAreKnown' /\ RefsAreWatched' /\ OutcomeIsOfItsRun'
  BY ThreadsStand, RefsStand, OutcomeStands DEF IInv
<1>4. pc = "pair" /\ (\A b \in Arms : arm[b] = "idle") /\ refs # "agent" /\ a \in Mine
      /\ snap[1] # None /\ snap[1] = snap[2] /\ ~threw /\ root # "removed"
  BY Creating, Fixed
<1>5. ChainInOrder'
  <2>1. waits[<<"add", a>>] = Out /\ step[a] \notin {"add", "undo", "failed"}
    BY DEF IInv, ChainInOrder
  <2>2. /\ \A o \in Ops \ {<<"add", a>>} : (waits'[o] = waits[o]) /\ (Queued(o)' <=> Queued(o))
        /\ Queued(<<"add", a>>)' /\ released' = released /\ tail' = <<"add", a>> /\ tail' # None
        /\ \A o \in released : waits'[o] # Out
        /\ \A o, p \in Ops : Queued(o)' /\ Queued(p)' /\ o # p =>
             (tail' = o /\ waits'[o] = p) \/ (tail' = p /\ waits'[p] = o)
    BY <2>1, Entering
  <2>3. step' = [step EXCEPT ![a] = "add"]
    BY Shapes
  <2> HIDE DEF StartCreate
  <2>4. ASSUME NEW b \in Arms
        PROVE  /\ Queued(<<"add", b>>)' <=> step'[b] = "add"
               /\ Queued(<<"undo", b>>)' <=> step'[b] = "undo"
               /\ step'[b] \in {"out", "start"} => waits'[<<"add", b>>] = Out
               /\ step'[b] \notin {"undo", "failed"} => waits'[<<"undo", b>>] = Out
    <3>1. CASE b = a
      <4>1. <<"undo", a>> \in Ops \ {<<"add", a>>} /\ step'[a] = "add"
        BY <2>3, Shapes, OpsOfArms
      <4> QED
        BY <2>1, <2>2, <3>1, <4>1 DEF IInv, ChainInOrder
    <3>2. CASE b # a
      <4>1. /\ <<"add", b>> \in Ops \ {<<"add", a>>} /\ step'[b] = step[b]
            /\ <<"undo", b>> \in Ops \ {<<"add", a>>}
        BY <2>3, <3>2, Shapes, OpsOfArms
      <4> QED
        BY <2>2, <4>1 DEF IInv, ChainInOrder
    <3> QED
      BY <3>1, <3>2
  <2> QED
    BY <2>2, <2>4 DEF ChainInOrder
<1>6. PairInStep'
  BY <1>1, Fixed, Shapes, <1>4 DEF IInv, PairInStep, BeforePair, BeforeLaunch, WithServer,
     AllReady
<1>7. ArmsAreFilled'
  BY <1>1, Fixed, Shapes, <1>4 DEF IInv, ArmsAreFilled
<1>8. DiskIsHandled'
  BY <1>1, Fixed, Shapes, <1>4 DEF IInv, DiskIsHandled, AfterRemoval, Keep
<1>9. ArmsAreKept'
  BY <1>1, Fixed, Shapes, <1>4 DEF IInv, ArmsAreKept, BeforePair, BeforeLaunch, Finally,
     AllReady, ArmsSettled
<1> QED
  BY <1>2, <1>3, <1>5, <1>6, <1>7, <1>8, <1>9 DEF IInv

LEMMA AddWorktreeKeeps ==
  ASSUME IInv, NEW a \in Arms, AddWorktree(a), UNCHANGED rvars
  PROVE  IInv'
<1> USE DEF AddWorktree, At, Goto, Active, Release, Works, rvars
<1>1. env' = env /\ Mine' = Mine /\ Mine \subseteq Arms
  BY Fixed
<1>2. TypeOK'
  <2>1. /\ step' \in [Arms -> {"out", "start", "add", "inspect", "fill", "deps", "share", "undo",
                    "ready", "failed"}]
        /\ tree' \in [Arms -> {"none", "dir", "registered"}] /\ handles' \in SUBSET Mine
    BY <1>1, MarksAssumption DEF IInv, TypeOK, WTypeOK
  <2>2. tail' \in Ops \cup {None}
    BY Operations DEF IInv, TypeOK, WTypeOK
  <2>3. waits' \in [Ops -> Ops \cup {None, Out}]
    BY <1>1, MarksAssumption DEF IInv, TypeOK, WTypeOK
  <2>4. released' \in SUBSET Ops
    BY Operations DEF IInv, TypeOK, WTypeOK
  <2>5. UNCHANGED <<env, source, refs, snap, root, tampered, copied, deps, shared,
                     trouble, pc, abort, server, thread, known, good, arm, forced,
                     succeeded, committed, threw, errors, outcome>>
    OBVIOUS
  <2> HIDE DEF AddWorktree
  <2> QED
    BY <1>1, <2>1, <2>2, <2>3, <2>4, <2>5 DEF IInv, TypeOK, WTypeOK
<1>3. ThreadsAreKnown' /\ RefsAreWatched' /\ OutcomeIsOfItsRun'
  BY ThreadsStand, RefsStand, OutcomeStands DEF IInv
<1>4. pc = "pair" /\ (\A b \in Arms : arm[b] = "idle") /\ refs # "agent" /\ a \in Mine
      /\ snap[1] # None /\ snap[1] = snap[2] /\ ~threw /\ root # "removed"
  BY Creating, Fixed
<1>5. ChainInOrder'
  BY <1>1, Fixed, Shapes, MarksAssumption, <1>4 DEF IInv, ChainInOrder, Queued
<1>6. PairInStep'
  BY <1>1, Fixed, Shapes, <1>4 DEF IInv, PairInStep, BeforePair, BeforeLaunch, WithServer,
     AllReady
<1>7. ArmsAreFilled'
  BY <1>1, Fixed, Shapes, <1>4 DEF IInv, ArmsAreFilled
<1>8. DiskIsHandled'
  BY <1>1, Fixed, Shapes, <1>4 DEF IInv, DiskIsHandled, AfterRemoval, Keep
<1>9. ArmsAreKept'
  BY <1>1, Fixed, Shapes, <1>4 DEF IInv, ArmsAreKept, BeforePair, BeforeLaunch, Finally,
     AllReady, ArmsSettled
<1> QED
  BY <1>2, <1>3, <1>5, <1>6, <1>7, <1>8, <1>9 DEF IInv

LEMMA StartCreateFailsKeeps ==
  ASSUME IInv, NEW a \in Arms, StartCreateFails(a), UNCHANGED rvars
  PROVE  IInv'
<1> USE DEF StartCreateFails, At, Goto, Fault, rvars
<1>1. env' = env /\ Mine' = Mine /\ Mine \subseteq Arms
  BY Fixed
<1>2. TypeOK'
  <2>1. /\ root' \in {"none", "made", "removed"}
        /\ step' \in [Arms -> {"out", "start", "add", "inspect", "fill", "deps", "share", "undo",
                    "ready", "failed"}]
    BY <1>1 DEF IInv, TypeOK, WTypeOK
  <2>2. trouble' \in 0..MaxTrouble
    BY TroubleCounts
  <2>3. UNCHANGED <<env, source, refs, snap, tree, handles, tampered, copied, deps,
                     shared, tail, waits, released, pc, abort, server, thread, known, good,
                     arm, forced, succeeded, committed, threw, errors, outcome>>
    BY DEF chain
  <2> HIDE DEF StartCreateFails
  <2> QED
    BY <1>1, <2>1, <2>2, <2>3 DEF IInv, TypeOK, WTypeOK
<1>3. ThreadsAreKnown' /\ RefsAreWatched' /\ OutcomeIsOfItsRun'
  BY ThreadsStand, RefsStand, OutcomeStands DEF IInv
<1>4. pc = "pair" /\ (\A b \in Arms : arm[b] = "idle") /\ refs # "agent" /\ a \in Mine
      /\ snap[1] # None /\ snap[1] = snap[2] /\ ~threw /\ root # "removed"
  BY Creating, Fixed
<1>5. ChainInOrder'
  <2>1. UNCHANGED <<tail, waits, released>> /\ step[a] = "start"
    BY DEF chain
  <2>2. step' = [step EXCEPT ![a] = "failed"]
    OBVIOUS
  <2> QED
    BY <2>1, <2>2, Shapes, MarksAssumption DEF IInv, ChainInOrder, Queued
<1>6. PairInStep'
  BY <1>1, Fixed, Shapes, <1>4 DEF IInv, PairInStep, BeforePair, BeforeLaunch, WithServer,
     AllReady, chain
<1>7. ArmsAreFilled'
  BY <1>1, Fixed, Shapes, <1>4 DEF IInv, ArmsAreFilled
<1>8. DiskIsHandled'
  BY <1>1, Fixed, Shapes, <1>4 DEF IInv, DiskIsHandled, AfterRemoval, Keep
<1>9. ArmsAreKept'
  BY <1>1, Fixed, Shapes, <1>4 DEF IInv, ArmsAreKept, BeforePair, BeforeLaunch, Finally,
     AllReady, ArmsSettled
<1> QED
  BY <1>2, <1>3, <1>5, <1>6, <1>7, <1>8, <1>9 DEF IInv

LEMMA AddFailsKeeps == ASSUME IInv, NEW a \in Arms, AddFails(a), UNCHANGED rvars PROVE IInv'
<1> USE DEF AddFails, At, Goto, Active, Release, Fault, rvars
<1>1. env' = env /\ Mine' = Mine /\ Mine \subseteq Arms
  BY Fixed
<1>2. TypeOK'
  <2>1. /\ step' \in [Arms -> {"out", "start", "add", "inspect", "fill", "deps", "share", "undo",
                    "ready", "failed"}]
        /\ tree' \in [Arms -> {"none", "dir", "registered"}]
    BY <1>1, MarksAssumption DEF IInv, TypeOK, WTypeOK
  <2>2. tail' \in Ops \cup {None}
    BY Operations DEF IInv, TypeOK, WTypeOK
  <2>3. waits' \in [Ops -> Ops \cup {None, Out}]
    BY <1>1, MarksAssumption DEF IInv, TypeOK, WTypeOK
  <2>4. released' \in SUBSET Ops
    <3>1. released' = released \cup {<<"add", a>>} /\ released \in SUBSET Ops
      BY DEF IInv, TypeOK, WTypeOK
    <3> HIDE DEF AddFails, Release
    <3> QED
      BY <3>1, Operations
  <2>5. trouble' \in 0..MaxTrouble
    <3>1. trouble' = trouble \/ (trouble < MaxTrouble /\ trouble' = trouble + 1)
      OBVIOUS
    <3> HIDE DEF AddFails
    <3> QED
      BY <3>1, TroubleCounts
  <2>6. UNCHANGED <<env, source, refs, snap, root, handles, tampered, copied, deps,
                     shared, pc, abort, server, thread, known, good, arm, forced,
                     succeeded, committed, threw, errors, outcome>>
    OBVIOUS
  <2> HIDE DEF AddFails
  <2> QED
    BY <1>1, <2>1, <2>2, <2>3, <2>4, <2>5, <2>6 DEF IInv, TypeOK, WTypeOK
<1>3. ThreadsAreKnown' /\ RefsAreWatched' /\ OutcomeIsOfItsRun'
  BY ThreadsStand, RefsStand, OutcomeStands DEF IInv
<1>4. pc = "pair" /\ (\A b \in Arms : arm[b] = "idle") /\ refs # "agent" /\ a \in Mine
      /\ snap[1] # None /\ snap[1] = snap[2] /\ ~threw /\ root # "removed"
  BY Creating, Fixed
<1>5. ChainInOrder'
  BY <1>1, Fixed, Shapes, MarksAssumption, <1>4 DEF IInv, ChainInOrder, Queued
<1>6. PairInStep'
  BY <1>1, Fixed, Shapes, <1>4 DEF IInv, PairInStep, BeforePair, BeforeLaunch, WithServer,
     AllReady
<1>7. ArmsAreFilled'
  BY <1>1, Fixed, Shapes, <1>4 DEF IInv, ArmsAreFilled
<1>8. DiskIsHandled'
  BY <1>1, Fixed, Shapes, <1>4 DEF IInv, DiskIsHandled, AfterRemoval, Keep
<1>9. ArmsAreKept'
  BY <1>1, Fixed, Shapes, <1>4 DEF IInv, ArmsAreKept, BeforePair, BeforeLaunch, Finally,
     AllReady, ArmsSettled
<1> QED
  BY <1>2, <1>3, <1>5, <1>6, <1>7, <1>8, <1>9 DEF IInv

LEMMA InspectKeeps == ASSUME IInv, NEW a \in Arms, Inspect(a), UNCHANGED rvars PROVE IInv'
<1> USE DEF Inspect, At, Goto, Works, Undo, Enter, chain, rvars
<1>1. env' = env /\ Mine' = Mine /\ Mine \subseteq Arms
  BY Fixed
<1>2. TypeOK'
  <2>1. step' \in [Arms -> {"out", "start", "add", "inspect", "fill", "deps", "share", "undo",
                    "ready", "failed"}] /\ handles' \in SUBSET Mine
    BY <1>1, MarksAssumption DEF IInv, TypeOK, WTypeOK
  <2>2. tail' \in Ops \cup {None}
    <3>1. tail' = tail \/ tail' = <<"undo", a>>
      OBVIOUS
    <3> HIDE DEF Inspect, Undo, Enter
    <3> QED
      BY <3>1, OpsOfArms, Shapes
  <2>3. waits' \in [Ops -> Ops \cup {None, Out}]
    <3>1. waits' = waits \/ waits' = [waits EXCEPT ![<<"undo", a>>] = tail]
      OBVIOUS
    <3> HIDE DEF Inspect, Undo, Enter
    <3> QED
      BY <3>1, Shapes
  <2>4. released' \in SUBSET Ops
    BY Operations DEF IInv, TypeOK, WTypeOK
  <2>5. UNCHANGED <<env, source, refs, snap, root, tree, tampered, copied, deps, shared,
                     trouble, pc, abort, server, thread, known, good, arm, forced,
                     succeeded, committed, threw, errors, outcome>>
    OBVIOUS
  <2> HIDE DEF Inspect
  <2> QED
    BY <1>1, <2>1, <2>2, <2>3, <2>4, <2>5 DEF IInv, TypeOK, WTypeOK
<1>3. ThreadsAreKnown' /\ RefsAreWatched' /\ OutcomeIsOfItsRun'
  BY ThreadsStand, RefsStand, OutcomeStands DEF IInv
<1>4. pc = "pair" /\ (\A b \in Arms : arm[b] = "idle") /\ refs # "agent" /\ a \in Mine
      /\ snap[1] # None /\ snap[1] = snap[2] /\ ~threw /\ root # "removed"
  BY Creating, Fixed
<1>5. ChainInOrder'
  <2>1. CASE Undo(a)
    <3>1. waits[<<"undo", a>>] = Out /\ step[a] \notin {"add", "undo"}
      BY <2>1 DEF IInv, ChainInOrder
    <3>2. /\ \A o \in Ops \ {<<"undo", a>>} : (waits'[o] = waits[o]) /\ (Queued(o)' <=> Queued(o))
          /\ Queued(<<"undo", a>>)' /\ released' = released /\ tail' = <<"undo", a>> /\ tail' # None
          /\ \A o \in released : waits'[o] # Out
          /\ \A o, p \in Ops : Queued(o)' /\ Queued(p)' /\ o # p =>
               (tail' = o /\ waits'[o] = p) \/ (tail' = p /\ waits'[p] = o)
      BY <2>1, <3>1, Entering
    <3>3. step' = [step EXCEPT ![a] = "undo"]
      BY <2>1, Shapes
    <3> HIDE DEF Inspect, Undo, Enter
    <3>4. ASSUME NEW b \in Arms
          PROVE  /\ Queued(<<"add", b>>)' <=> step'[b] = "add"
                 /\ Queued(<<"undo", b>>)' <=> step'[b] = "undo"
                 /\ step'[b] \in {"out", "start"} => waits'[<<"add", b>>] = Out
                 /\ step'[b] \notin {"undo", "failed"} => waits'[<<"undo", b>>] = Out
      <4>1. CASE b = a
        <5>1. <<"add", a>> \in Ops \ {<<"undo", a>>} /\ step'[a] = "undo"
          BY <3>3, Shapes, OpsOfArms
        <5> QED
          BY <3>1, <3>2, <4>1, <5>1 DEF IInv, ChainInOrder
      <4>2. CASE b # a
        <5>1. /\ <<"add", b>> \in Ops \ {<<"undo", a>>} /\ step'[b] = step[b]
              /\ <<"undo", b>> \in Ops \ {<<"undo", a>>}
          BY <3>3, <4>2, Shapes, OpsOfArms
        <5> QED
          BY <3>2, <5>1 DEF IInv, ChainInOrder
      <4> QED
        BY <4>1, <4>2
    <3> QED
      BY <3>2, <3>4 DEF ChainInOrder
  <2>2. CASE ~Undo(a)
    BY <2>2, Shapes, Operations DEF IInv, ChainInOrder, Queued
  <2> QED
    BY <2>1, <2>2
<1>6. PairInStep'
  BY <1>1, Fixed, Shapes, <1>4 DEF IInv, PairInStep, BeforePair, BeforeLaunch, WithServer,
     AllReady
<1>7. ArmsAreFilled'
  BY <1>1, Fixed, Shapes, <1>4 DEF IInv, ArmsAreFilled
<1>8. DiskIsHandled'
  BY <1>1, Fixed, Shapes, <1>4 DEF IInv, DiskIsHandled, AfterRemoval, Keep
<1>9. ArmsAreKept'
  BY <1>1, Fixed, Shapes, <1>4 DEF IInv, ArmsAreKept, BeforePair, BeforeLaunch, Finally,
     AllReady, ArmsSettled
<1> QED
  BY <1>2, <1>3, <1>5, <1>6, <1>7, <1>8, <1>9 DEF IInv

LEMMA InspectFailsKeeps ==
  ASSUME IInv, NEW a \in Arms, InspectFails(a), UNCHANGED rvars
  PROVE  IInv'
<1> USE DEF InspectFails, At, Goto, Fault, chain, rvars
<1>1. env' = env /\ Mine' = Mine /\ Mine \subseteq Arms
  BY Fixed
<1>2. TypeOK'
  BY <1>1, MarksAssumption DEF IInv, TypeOK, WTypeOK
<1>3. ThreadsAreKnown' /\ RefsAreWatched' /\ OutcomeIsOfItsRun'
  BY ThreadsStand, RefsStand, OutcomeStands DEF IInv
<1>4. pc = "pair" /\ (\A b \in Arms : arm[b] = "idle") /\ refs # "agent" /\ a \in Mine
      /\ snap[1] # None /\ snap[1] = snap[2] /\ ~threw /\ root # "removed"
  BY Creating, Fixed
<1>5. ChainInOrder'
  BY <1>1, Fixed, Shapes, MarksAssumption, <1>4 DEF IInv, ChainInOrder, Queued
<1>6. PairInStep'
  BY <1>1, Fixed, Shapes, <1>4 DEF IInv, PairInStep, BeforePair, BeforeLaunch, WithServer,
     AllReady
<1>7. ArmsAreFilled'
  BY <1>1, Fixed, Shapes, <1>4 DEF IInv, ArmsAreFilled
<1>8. DiskIsHandled'
  BY <1>1, Fixed, Shapes, <1>4 DEF IInv, DiskIsHandled, AfterRemoval, Keep
<1>9. ArmsAreKept'
  BY <1>1, Fixed, Shapes, <1>4 DEF IInv, ArmsAreKept, BeforePair, BeforeLaunch, Finally,
     AllReady, ArmsSettled
<1> QED
  BY <1>2, <1>3, <1>5, <1>6, <1>7, <1>8, <1>9 DEF IInv

LEMMA FillWorktreeKeeps ==
  ASSUME IInv, NEW a \in Arms, FillWorktree(a), UNCHANGED rvars
  PROVE  IInv'
<1> USE DEF FillWorktree, At, Goto, Works, Fault, Undo, Enter, chain, rvars
<1>1. env' = env /\ Mine' = Mine /\ Mine \subseteq Arms
  BY Fixed
<1>2. TypeOK'
  <2>1. step' \in [Arms -> {"out", "start", "add", "inspect", "fill", "deps", "share", "undo",
                    "ready", "failed"}]
    BY <1>1, MarksAssumption DEF IInv, TypeOK, WTypeOK
  <2>2. copied' \in [Arms -> [files : Versions \cup {None}, deps : Versions \cup {None}]]
    <3>1. copied' = copied \/ copied' = [copied EXCEPT ![a].files = snap[1]]
      OBVIOUS
    <3>2. /\ copied \in [Arms -> [files : Versions \cup {None}, deps : Versions \cup {None}]]
          /\ snap[1] \in Versions \cup {None}
      BY DEF IInv, TypeOK, WTypeOK
    <3> HIDE DEF FillWorktree
    <3> QED
      BY <3>1, <3>2
  <2>3. tail' \in Ops \cup {None}
    <3>1. tail' = tail \/ tail' = <<"undo", a>>
      OBVIOUS
    <3> HIDE DEF FillWorktree, Undo, Enter
    <3> QED
      BY <3>1, OpsOfArms, Shapes
  <2>4. waits' \in [Ops -> Ops \cup {None, Out}]
    <3>1. waits' = waits \/ waits' = [waits EXCEPT ![<<"undo", a>>] = tail]
      OBVIOUS
    <3> HIDE DEF FillWorktree, Undo, Enter
    <3> QED
      BY <3>1, Shapes
  <2>5. released' \in SUBSET Ops
    BY Operations DEF IInv, TypeOK, WTypeOK
  <2>6. trouble' \in 0..MaxTrouble
    <3>1. trouble' = trouble \/ (trouble < MaxTrouble /\ trouble' = trouble + 1)
      OBVIOUS
    <3> HIDE DEF FillWorktree
    <3> QED
      BY <3>1, TroubleCounts
  <2>7. UNCHANGED <<env, source, refs, snap, root, tree, handles, tampered, deps, shared,
                     pc, abort, server, thread, known, good, arm, forced, succeeded,
                     committed, threw, errors, outcome>>
    OBVIOUS
  <2> HIDE DEF FillWorktree
  <2> QED
    BY <1>1, <2>1, <2>2, <2>3, <2>4, <2>5, <2>6, <2>7 DEF IInv, TypeOK, WTypeOK
<1>3. ThreadsAreKnown' /\ RefsAreWatched' /\ OutcomeIsOfItsRun'
  BY ThreadsStand, RefsStand, OutcomeStands DEF IInv
<1>4. pc = "pair" /\ (\A b \in Arms : arm[b] = "idle") /\ refs # "agent" /\ a \in Mine
      /\ snap[1] # None /\ snap[1] = snap[2] /\ ~threw /\ root # "removed"
  BY Creating, Fixed
<1>5. ChainInOrder'
  <2>1. CASE Undo(a)
    <3>1. waits[<<"undo", a>>] = Out /\ step[a] \notin {"add", "undo"}
      BY <2>1 DEF IInv, ChainInOrder
    <3>2. /\ \A o \in Ops \ {<<"undo", a>>} : (waits'[o] = waits[o]) /\ (Queued(o)' <=> Queued(o))
          /\ Queued(<<"undo", a>>)' /\ released' = released /\ tail' = <<"undo", a>> /\ tail' # None
          /\ \A o \in released : waits'[o] # Out
          /\ \A o, p \in Ops : Queued(o)' /\ Queued(p)' /\ o # p =>
               (tail' = o /\ waits'[o] = p) \/ (tail' = p /\ waits'[p] = o)
      BY <2>1, <3>1, Entering
    <3>3. step' = [step EXCEPT ![a] = "undo"]
      BY <2>1, Shapes
    <3> HIDE DEF FillWorktree, Undo, Enter
    <3>4. ASSUME NEW b \in Arms
          PROVE  /\ Queued(<<"add", b>>)' <=> step'[b] = "add"
                 /\ Queued(<<"undo", b>>)' <=> step'[b] = "undo"
                 /\ step'[b] \in {"out", "start"} => waits'[<<"add", b>>] = Out
                 /\ step'[b] \notin {"undo", "failed"} => waits'[<<"undo", b>>] = Out
      <4>1. CASE b = a
        <5>1. <<"add", a>> \in Ops \ {<<"undo", a>>} /\ step'[a] = "undo"
          BY <3>3, Shapes, OpsOfArms
        <5> QED
          BY <3>1, <3>2, <4>1, <5>1 DEF IInv, ChainInOrder
      <4>2. CASE b # a
        <5>1. /\ <<"add", b>> \in Ops \ {<<"undo", a>>} /\ step'[b] = step[b]
              /\ <<"undo", b>> \in Ops \ {<<"undo", a>>}
          BY <3>3, <4>2, Shapes, OpsOfArms
        <5> QED
          BY <3>2, <5>1 DEF IInv, ChainInOrder
      <4> QED
        BY <4>1, <4>2
    <3> QED
      BY <3>2, <3>4 DEF ChainInOrder
  <2>2. CASE ~Undo(a)
    BY <2>2, Shapes, Operations DEF IInv, ChainInOrder, Queued
  <2> QED
    BY <2>1, <2>2
<1>6. PairInStep'
  BY <1>1, Fixed, Shapes, <1>4 DEF IInv, PairInStep, BeforePair, BeforeLaunch, WithServer,
     AllReady
<1>7. ArmsAreFilled'
  BY <1>1, Fixed, Shapes, <1>4 DEF IInv, ArmsAreFilled
<1>8. DiskIsHandled'
  BY <1>1, Fixed, Shapes, <1>4 DEF IInv, DiskIsHandled, AfterRemoval, Keep
<1>9. ArmsAreKept'
  BY <1>1, Fixed, Shapes, <1>4 DEF IInv, ArmsAreKept, BeforePair, BeforeLaunch, Finally,
     AllReady, ArmsSettled
<1> QED
  BY <1>2, <1>3, <1>5, <1>6, <1>7, <1>8, <1>9 DEF IInv

LEMMA AskDependenciesKeeps ==
  ASSUME IInv, NEW a \in Arms, AskDependencies(a), UNCHANGED rvars
  PROVE  IInv'
<1> USE DEF AskDependencies, At, DependencySnapshot, chain, rvars
<1>1. env' = env /\ Mine' = Mine /\ Mine \subseteq Arms
  BY Fixed
<1>2. TypeOK'
  BY <1>1, MarksAssumption DEF IInv, TypeOK, WTypeOK
<1>3. ChainInOrder' /\ PairInStep' /\ DiskIsHandled' /\ ArmsAreKept' /\ ThreadsAreKnown'
      /\ RefsAreWatched' /\ OutcomeIsOfItsRun'
  BY ChainStands, PairStands, DiskStands, ArmsStand, ThreadsStand, RefsStand,
     OutcomeStands DEF IInv
<1>4. pc = "pair" /\ (\A b \in Arms : arm[b] = "idle") /\ refs # "agent" /\ a \in Mine
      /\ snap[1] # None /\ snap[1] = snap[2] /\ ~threw /\ root # "removed"
  BY Creating, Fixed
<1>5. ArmsAreFilled'
  BY <1>1, Fixed, Shapes, Promises, MarksAssumption, <1>4 DEF IInv, ArmsAreFilled,
     RefsAreWatched
<1> QED
  BY <1>2, <1>3, <1>5 DEF IInv

LEMMA BuildDependenciesKeeps == ASSUME IInv, BuildDependencies, UNCHANGED rvars PROVE IInv'
<1> USE DEF BuildDependencies, Works, Fault, chain, rvars
<1>1. env' = env /\ Mine' = Mine /\ Mine \subseteq Arms
  BY Fixed
<1>2. TypeOK'
  BY <1>1, MarksAssumption DEF IInv, TypeOK, WTypeOK
<1>3. ChainInOrder' /\ PairInStep' /\ DiskIsHandled' /\ ArmsAreKept' /\ ThreadsAreKnown'
      /\ RefsAreWatched' /\ OutcomeIsOfItsRun'
  BY ChainStands, PairStands, DiskStands, ArmsStand, ThreadsStand, RefsStand,
     OutcomeStands DEF IInv
<1>4. ArmsAreFilled'
  BY <1>1, Fixed, Shapes, Promises, MarksAssumption DEF IInv, ArmsAreFilled, RefsAreWatched
<1> QED
  BY <1>2, <1>3, <1>4 DEF IInv

LEMMA MaterializeKeeps ==
  ASSUME IInv, NEW a \in Arms, Materialize(a), UNCHANGED rvars
  PROVE  IInv'
<1> USE DEF Materialize, At, Goto, Works, chain, rvars
<1>1. env' = env /\ Mine' = Mine /\ Mine \subseteq Arms
  BY Fixed
<1>2. TypeOK'
  <2>1. step' \in [Arms -> {"out", "start", "add", "inspect", "fill", "deps", "share", "undo",
                    "ready", "failed"}]
    BY <1>1, MarksAssumption DEF IInv, TypeOK, WTypeOK
  <2>2. copied' \in [Arms -> [files : Versions \cup {None}, deps : Versions \cup {None}]]
    BY <1>1, MarksAssumption DEF IInv, TypeOK, WTypeOK
  <2>3. UNCHANGED <<env, source, refs, snap, root, tree, handles, tampered, deps, shared,
                     tail, waits, released, trouble, pc, abort, server, thread, known,
                     good, arm, forced, succeeded, committed, threw, errors, outcome>>
    OBVIOUS
  <2> HIDE DEF Materialize
  <2> QED
    BY <1>1, <2>1, <2>2, <2>3 DEF IInv, TypeOK, WTypeOK
<1>3. ThreadsAreKnown' /\ RefsAreWatched' /\ OutcomeIsOfItsRun'
  BY ThreadsStand, RefsStand, OutcomeStands DEF IInv
<1>4. pc = "pair" /\ (\A b \in Arms : arm[b] = "idle") /\ refs # "agent" /\ a \in Mine
      /\ snap[1] # None /\ snap[1] = snap[2] /\ ~threw /\ root # "removed"
  BY Creating, Fixed
<1>5. ChainInOrder'
  BY <1>1, Fixed, Shapes, MarksAssumption, <1>4 DEF IInv, ChainInOrder, Queued
<1>6. PairInStep'
  BY <1>1, Fixed, Shapes, <1>4 DEF IInv, PairInStep, BeforePair, BeforeLaunch, WithServer,
     AllReady
<1>7. ArmsAreFilled'
  BY <1>1, Fixed, Shapes, Promises, MarksAssumption, <1>4 DEF IInv, ArmsAreFilled,
     RefsAreWatched
<1>8. DiskIsHandled'
  BY <1>1, Fixed, Shapes, <1>4 DEF IInv, DiskIsHandled, AfterRemoval, Keep
<1>9. ArmsAreKept'
  BY <1>1, Fixed, Shapes, <1>4 DEF IInv, ArmsAreKept, BeforePair, BeforeLaunch, Finally,
     AllReady, ArmsSettled
<1> QED
  BY <1>2, <1>3, <1>5, <1>6, <1>7, <1>8, <1>9 DEF IInv

LEMMA MaterializeFailsKeeps ==
  ASSUME IInv, NEW a \in Arms, MaterializeFails(a), UNCHANGED rvars
  PROVE  IInv'
<1> USE DEF MaterializeFails, At, Goto, Works, Fault, Undo, Enter, chain, rvars
<1>1. env' = env /\ Mine' = Mine /\ Mine \subseteq Arms
  BY Fixed
<1>2. TypeOK'
  <2>1. step' \in [Arms -> {"out", "start", "add", "inspect", "fill", "deps", "share", "undo",
                    "ready", "failed"}]
    BY <1>1, MarksAssumption DEF IInv, TypeOK, WTypeOK
  <2>2. tail' \in Ops \cup {None}
    <3>1. tail' = tail \/ tail' = <<"undo", a>>
      OBVIOUS
    <3> HIDE DEF MaterializeFails, Undo, Enter
    <3> QED
      BY <3>1, OpsOfArms, Shapes
  <2>3. waits' \in [Ops -> Ops \cup {None, Out}]
    <3>1. waits' = waits \/ waits' = [waits EXCEPT ![<<"undo", a>>] = tail]
      OBVIOUS
    <3> HIDE DEF MaterializeFails, Undo, Enter
    <3> QED
      BY <3>1, Shapes
  <2>4. released' \in SUBSET Ops
    BY Operations DEF IInv, TypeOK, WTypeOK
  <2>5. trouble' \in 0..MaxTrouble
    <3>1. trouble' = trouble \/ (trouble < MaxTrouble /\ trouble' = trouble + 1)
      OBVIOUS
    <3> HIDE DEF MaterializeFails
    <3> QED
      BY <3>1, TroubleCounts
  <2>6. UNCHANGED <<env, source, refs, snap, root, tree, handles, tampered, copied, deps,
                     shared, pc, abort, server, thread, known, good, arm, forced,
                     succeeded, committed, threw, errors, outcome>>
    OBVIOUS
  <2> HIDE DEF MaterializeFails
  <2> QED
    BY <1>1, <2>1, <2>2, <2>3, <2>4, <2>5, <2>6 DEF IInv, TypeOK, WTypeOK
<1>3. ThreadsAreKnown' /\ RefsAreWatched' /\ OutcomeIsOfItsRun'
  BY ThreadsStand, RefsStand, OutcomeStands DEF IInv
<1>4. pc = "pair" /\ (\A b \in Arms : arm[b] = "idle") /\ refs # "agent" /\ a \in Mine
      /\ snap[1] # None /\ snap[1] = snap[2] /\ ~threw /\ root # "removed"
  BY Creating, Fixed
<1>5. ChainInOrder'
  <2>1. CASE Undo(a)
    <3>1. waits[<<"undo", a>>] = Out /\ step[a] \notin {"add", "undo"}
      BY <2>1 DEF IInv, ChainInOrder
    <3>2. /\ \A o \in Ops \ {<<"undo", a>>} : (waits'[o] = waits[o]) /\ (Queued(o)' <=> Queued(o))
          /\ Queued(<<"undo", a>>)' /\ released' = released /\ tail' = <<"undo", a>> /\ tail' # None
          /\ \A o \in released : waits'[o] # Out
          /\ \A o, p \in Ops : Queued(o)' /\ Queued(p)' /\ o # p =>
               (tail' = o /\ waits'[o] = p) \/ (tail' = p /\ waits'[p] = o)
      BY <2>1, <3>1, Entering
    <3>3. step' = [step EXCEPT ![a] = "undo"]
      BY <2>1, Shapes
    <3> HIDE DEF MaterializeFails, Undo, Enter
    <3>4. ASSUME NEW b \in Arms
          PROVE  /\ Queued(<<"add", b>>)' <=> step'[b] = "add"
                 /\ Queued(<<"undo", b>>)' <=> step'[b] = "undo"
                 /\ step'[b] \in {"out", "start"} => waits'[<<"add", b>>] = Out
                 /\ step'[b] \notin {"undo", "failed"} => waits'[<<"undo", b>>] = Out
      <4>1. CASE b = a
        <5>1. <<"add", a>> \in Ops \ {<<"undo", a>>} /\ step'[a] = "undo"
          BY <3>3, Shapes, OpsOfArms
        <5> QED
          BY <3>1, <3>2, <4>1, <5>1 DEF IInv, ChainInOrder
      <4>2. CASE b # a
        <5>1. /\ <<"add", b>> \in Ops \ {<<"undo", a>>} /\ step'[b] = step[b]
              /\ <<"undo", b>> \in Ops \ {<<"undo", a>>}
          BY <3>3, <4>2, Shapes, OpsOfArms
        <5> QED
          BY <3>2, <5>1 DEF IInv, ChainInOrder
      <4> QED
        BY <4>1, <4>2
    <3> QED
      BY <3>2, <3>4 DEF ChainInOrder
  <2>2. CASE ~Undo(a)
    BY <2>2, Shapes, Operations DEF IInv, ChainInOrder, Queued
  <2> QED
    BY <2>1, <2>2
<1>6. PairInStep'
  BY <1>1, Fixed, Shapes, <1>4 DEF IInv, PairInStep, BeforePair, BeforeLaunch, WithServer,
     AllReady
<1>7. ArmsAreFilled'
  BY <1>1, Fixed, Shapes, <1>4 DEF IInv, ArmsAreFilled
<1>8. DiskIsHandled'
  BY <1>1, Fixed, Shapes, <1>4 DEF IInv, DiskIsHandled, AfterRemoval, Keep
<1>9. ArmsAreKept'
  BY <1>1, Fixed, Shapes, <1>4 DEF IInv, ArmsAreKept, BeforePair, BeforeLaunch, Finally,
     AllReady, ArmsSettled
<1> QED
  BY <1>2, <1>3, <1>5, <1>6, <1>7, <1>8, <1>9 DEF IInv

LEMMA ShareControlKeeps ==
  ASSUME IInv, NEW a \in Arms, ShareControl(a), UNCHANGED rvars
  PROVE  IInv'
<1> USE DEF ShareControl, At, Goto, Works, Fault, Undo, Enter, chain, rvars
<1>1. env' = env /\ Mine' = Mine /\ Mine \subseteq Arms
  BY Fixed
<1>2. TypeOK'
  <2>1. /\ step' \in [Arms -> {"out", "start", "add", "inspect", "fill", "deps", "share", "undo",
                    "ready", "failed"}]
        /\ shared' \in {None, "failed", "nobody", "user", "agent"}
    BY <1>1, MarksAssumption DEF IInv, TypeOK, WTypeOK
  <2>2. tail' \in Ops \cup {None}
    <3>1. tail' = tail \/ tail' = <<"undo", a>>
      OBVIOUS
    <3> HIDE DEF ShareControl, Undo, Enter
    <3> QED
      BY <3>1, OpsOfArms, Shapes
  <2>3. waits' \in [Ops -> Ops \cup {None, Out}]
    <3>1. waits' = waits \/ waits' = [waits EXCEPT ![<<"undo", a>>] = tail]
      OBVIOUS
    <3> HIDE DEF ShareControl, Undo, Enter
    <3> QED
      BY <3>1, Shapes
  <2>4. released' \in SUBSET Ops
    BY Operations DEF IInv, TypeOK, WTypeOK
  <2>5. trouble' \in 0..MaxTrouble
    <3>1. trouble' = trouble \/ (trouble < MaxTrouble /\ trouble' = trouble + 1)
      OBVIOUS
    <3> HIDE DEF ShareControl
    <3> QED
      BY <3>1, TroubleCounts
  <2>6. UNCHANGED <<env, source, refs, snap, root, tree, handles, tampered, copied, deps,
                     pc, abort, server, thread, known, good, arm, forced, succeeded,
                     committed, threw, errors, outcome>>
    OBVIOUS
  <2> HIDE DEF ShareControl
  <2> QED
    BY <1>1, <2>1, <2>2, <2>3, <2>4, <2>5, <2>6 DEF IInv, TypeOK, WTypeOK
<1>3. ThreadsAreKnown' /\ OutcomeIsOfItsRun'
  BY ThreadsStand, OutcomeStands DEF IInv
<1>4. pc = "pair" /\ (\A b \in Arms : arm[b] = "idle") /\ refs # "agent" /\ a \in Mine
      /\ snap[1] # None /\ snap[1] = snap[2] /\ ~threw /\ root # "removed"
  BY Creating, Fixed
<1>5. ChainInOrder'
  <2>1. CASE Undo(a)
    <3>1. waits[<<"undo", a>>] = Out /\ step[a] \notin {"add", "undo"}
      BY <2>1 DEF IInv, ChainInOrder
    <3>2. /\ \A o \in Ops \ {<<"undo", a>>} : (waits'[o] = waits[o]) /\ (Queued(o)' <=> Queued(o))
          /\ Queued(<<"undo", a>>)' /\ released' = released /\ tail' = <<"undo", a>> /\ tail' # None
          /\ \A o \in released : waits'[o] # Out
          /\ \A o, p \in Ops : Queued(o)' /\ Queued(p)' /\ o # p =>
               (tail' = o /\ waits'[o] = p) \/ (tail' = p /\ waits'[p] = o)
      BY <2>1, <3>1, Entering
    <3>3. step' = [step EXCEPT ![a] = "undo"]
      BY <2>1, Shapes
    <3> HIDE DEF ShareControl, Undo, Enter
    <3>4. ASSUME NEW b \in Arms
          PROVE  /\ Queued(<<"add", b>>)' <=> step'[b] = "add"
                 /\ Queued(<<"undo", b>>)' <=> step'[b] = "undo"
                 /\ step'[b] \in {"out", "start"} => waits'[<<"add", b>>] = Out
                 /\ step'[b] \notin {"undo", "failed"} => waits'[<<"undo", b>>] = Out
      <4>1. CASE b = a
        <5>1. <<"add", a>> \in Ops \ {<<"undo", a>>} /\ step'[a] = "undo"
          BY <3>3, Shapes, OpsOfArms
        <5> QED
          BY <3>1, <3>2, <4>1, <5>1 DEF IInv, ChainInOrder
      <4>2. CASE b # a
        <5>1. /\ <<"add", b>> \in Ops \ {<<"undo", a>>} /\ step'[b] = step[b]
              /\ <<"undo", b>> \in Ops \ {<<"undo", a>>}
          BY <3>3, <4>2, Shapes, OpsOfArms
        <5> QED
          BY <3>2, <5>1 DEF IInv, ChainInOrder
      <4> QED
        BY <4>1, <4>2
    <3> QED
      BY <3>2, <3>4 DEF ChainInOrder
  <2>2. CASE ~Undo(a)
    BY <2>2, Shapes, Operations DEF IInv, ChainInOrder, Queued
  <2> QED
    BY <2>1, <2>2
<1>6. PairInStep'
  BY <1>1, Fixed, Shapes, <1>4 DEF IInv, PairInStep, BeforePair, BeforeLaunch, WithServer,
     AllReady
<1>7. ArmsAreFilled'
  BY <1>1, Fixed, Shapes, Promises, MarksAssumption, <1>4 DEF IInv, ArmsAreFilled,
     RefsAreWatched
<1>8. DiskIsHandled'
  BY <1>1, Fixed, Shapes, <1>4 DEF IInv, DiskIsHandled, AfterRemoval, Keep
<1>9. ArmsAreKept'
  BY <1>1, Fixed, Shapes, <1>4 DEF IInv, ArmsAreKept, BeforePair, BeforeLaunch, Finally,
     AllReady, ArmsSettled
<1>10. RefsAreWatched'
  BY <1>1, Fixed, Shapes, <1>4 DEF IInv, RefsAreWatched, Finally
<1> QED
  BY <1>2, <1>3, <1>5, <1>6, <1>7, <1>8, <1>9, <1>10 DEF IInv

LEMMA UndoCreateKeeps ==
  ASSUME IInv, NEW a \in Arms, UndoCreate(a), UNCHANGED rvars
  PROVE  IInv'
<1> USE DEF UndoCreate, At, Goto, Active, Release, Works, Fault, chain, rvars
<1>1. env' = env /\ Mine' = Mine /\ Mine \subseteq Arms
  BY Fixed
<1>2. TypeOK'
  <2>1. /\ step' \in [Arms -> {"out", "start", "add", "inspect", "fill", "deps", "share", "undo",
                    "ready", "failed"}]
        /\ tree' \in [Arms -> {"none", "dir", "registered"}] /\ handles' \in SUBSET Mine
    BY <1>1, MarksAssumption DEF IInv, TypeOK, WTypeOK
  <2>2. tail' \in Ops \cup {None}
    BY Operations DEF IInv, TypeOK, WTypeOK
  <2>3. waits' \in [Ops -> Ops \cup {None, Out}]
    BY <1>1, MarksAssumption DEF IInv, TypeOK, WTypeOK
  <2>4. released' \in SUBSET Ops
    BY Operations DEF IInv, TypeOK, WTypeOK
  <2>5. trouble' \in 0..MaxTrouble
    <3>1. trouble' = trouble \/ (trouble < MaxTrouble /\ trouble' = trouble + 1)
      OBVIOUS
    <3> HIDE DEF UndoCreate
    <3> QED
      BY <3>1, TroubleCounts
  <2>6. UNCHANGED <<env, source, refs, snap, root, tampered, copied, deps, shared, pc,
                     abort, server, thread, known, good, arm, forced, succeeded, committed,
                     threw, errors, outcome>>
    OBVIOUS
  <2> HIDE DEF UndoCreate
  <2> QED
    BY <1>1, <2>1, <2>2, <2>3, <2>4, <2>5, <2>6 DEF IInv, TypeOK, WTypeOK
<1>3. ThreadsAreKnown' /\ RefsAreWatched' /\ OutcomeIsOfItsRun'
  BY ThreadsStand, RefsStand, OutcomeStands DEF IInv
<1>4. pc = "pair" /\ (\A b \in Arms : arm[b] = "idle") /\ refs # "agent" /\ a \in Mine
      /\ snap[1] # None /\ snap[1] = snap[2] /\ ~threw /\ root # "removed"
  BY Creating, Fixed
<1>5. ChainInOrder'
  BY <1>1, Fixed, Shapes, MarksAssumption, <1>4 DEF IInv, ChainInOrder, Queued
<1>6. PairInStep'
  BY <1>1, Fixed, Shapes, <1>4 DEF IInv, PairInStep, BeforePair, BeforeLaunch, WithServer,
     AllReady
<1>7. ArmsAreFilled'
  BY <1>1, Fixed, Shapes, <1>4 DEF IInv, ArmsAreFilled
<1>8. DiskIsHandled'
  BY <1>1, Fixed, Shapes, <1>4 DEF IInv, DiskIsHandled, AfterRemoval, Keep
<1>9. ArmsAreKept'
  BY <1>1, Fixed, Shapes, <1>4 DEF IInv, ArmsAreKept, BeforePair, BeforeLaunch, Finally,
     AllReady, ArmsSettled
<1> QED
  BY <1>2, <1>3, <1>5, <1>6, <1>7, <1>8, <1>9 DEF IInv
-----------------------------------------------------------------------------
(* The run, its arms and what happens around them *)

(* The awaits of the try block that change nothing here: the run goes on, or throws. *)
LEMMA AwaitsKeeps ==
  ASSUME IInv, NEW from, NEW next, NEW checks \in BOOLEAN,
         Awaits(from, next, checks), UNCHANGED server,
         <<from, next>> \in {<<"record", "pair">>, <<"query", "route">>, <<"route", "resume">>,
                             <<"route", "threads">>, <<"resume", "threads">>,
                             <<"routed", "launch">>, <<"artifacts", "apply">>,
                             <<"artifacts", "telemetry">>}
  PROVE  IInv'
<1> USE DEF Awaits, made, chain, arms, verdict, Continue, Checked, Throw, Works, Fault
<1>1. env' = env /\ Mine' = Mine /\ Mine \subseteq Arms
  BY Fixed
<1>2. TypeOK'
  <2>1. trouble' \in 0..MaxTrouble
    BY MarksAssumption DEF IInv, TypeOK, WTypeOK
  <2>4. threw' \in BOOLEAN
    BY DEF IInv, TypeOK
  <2>2. pc' \in Places
    BY PlacesAre
  <2>3. UNCHANGED <<env, source, refs, snap, root, step, tree, handles, tampered, copied,
                     deps, shared, tail, waits, released, abort, server, thread, known,
                     good, arm, forced, succeeded, committed, errors, outcome>>
    OBVIOUS
  <2> HIDE DEF Awaits
  <2> QED
    BY <1>1, <2>1, <2>2, <2>3, <2>4, PlacesAre DEF IInv, TypeOK, WTypeOK
<1>3. /\ pc = from /\ ~threw
      /\ (pc' = next /\ ~threw') \/ (pc' = "dispose" /\ threw')
  BY DEF IInv, OutcomeIsOfItsRun, Finally
<1>4. UNCHANGED <<env, step, arm, snap, copied, deps, shared, tree, root, handles, forced, succeeded,
                 errors, server, thread, known, refs, tampered, committed, outcome, chain>>
  OBVIOUS
<1> HIDE DEF Awaits
<1>5. ChainInOrder' /\ ArmsAreFilled'
  BY <1>4, ChainStands, FillStands DEF IInv
<1>6. PairInStep'
  BY <1>1, <1>3, <1>4 DEF IInv, PairInStep, BeforePair, BeforeLaunch, WithServer, AllReady
<1>7. DiskIsHandled'
  BY <1>3, <1>4 DEF IInv, DiskIsHandled, AfterRemoval, Keep
<1>8. ArmsAreKept'
  BY <1>1, <1>3, <1>4 DEF IInv, ArmsAreKept, BeforePair, BeforeLaunch, Finally, AllReady,
     ArmsSettled
<1>9. ThreadsAreKnown'
  BY <1>3, <1>4 DEF IInv, ThreadsAreKnown, BeforePair, BeforeLaunch, WithServer, Finally
<1>10. RefsAreWatched' /\ OutcomeIsOfItsRun'
  BY <1>3, <1>4 DEF IInv, RefsAreWatched, OutcomeIsOfItsRun, Finally
<1> QED
  BY <1>2, <1>5, <1>6, <1>7, <1>8, <1>9, <1>10 DEF IInv


LEMMA StartKeeps == ASSUME IInv, Start PROVE IInv'
<1> USE DEF Start, made, chain, wvars, rvars, arms, verdict, Continue, Checked, Throw, Works,
  Fault
<1>1. env' = env /\ Mine' = Mine /\ Mine \subseteq Arms
  BY Fixed
<1>2. TypeOK'
  <2>1. threw' \in BOOLEAN
    BY <1>1, MarksAssumption DEF IInv, TypeOK, WTypeOK
  <2>2. pc' \in Places
    BY PlacesAre DEF PairSettled
  <2>3. UNCHANGED <<env, source, refs, snap, root, step, tree, handles, tampered, copied,
                     deps, shared, tail, waits, released, trouble, abort, server, thread,
                     known, good, arm, forced, succeeded, committed, errors, outcome>>
    OBVIOUS
  <2> HIDE DEF Start
  <2> QED
    BY <1>1, <2>1, <2>2, <2>3, PlacesAre DEF IInv, TypeOK, WTypeOK
<1>3. ChainInOrder' /\ ArmsAreFilled'
  BY ChainStands, FillStands DEF IInv
<1>4. PairInStep'
  BY <1>1, Fixed, Shapes DEF IInv, PairInStep, BeforePair, BeforeLaunch, WithServer, AllReady
<1>5. DiskIsHandled'
  BY <1>1, Fixed, Shapes DEF IInv, DiskIsHandled, AfterRemoval, Keep, PairInStep,
     ArmsAreFilled
<1>6. ArmsAreKept'
  BY <1>1, Fixed, Shapes DEF IInv, ArmsAreKept, BeforePair, BeforeLaunch, Finally, AllReady,
     ArmsSettled, PairInStep, DiskIsHandled, WithServer
<1>7. ThreadsAreKnown'
  BY <1>1, Fixed, Shapes DEF IInv, ThreadsAreKnown, BeforePair, BeforeLaunch, WithServer,
     Finally, ArmsAreKept
<1>8. RefsAreWatched'
  BY <1>1, Fixed, Shapes DEF IInv, RefsAreWatched, Finally, PairInStep, ArmsAreKept,
     ArmsAreFilled, AllReady, ArmsSettled, BeforeLaunch, BeforePair
<1>9. OutcomeIsOfItsRun'
  BY <1>1, Fixed, Shapes DEF IInv, OutcomeIsOfItsRun, Finally, Reported, Twin
<1> QED
  BY <1>2, <1>3, <1>4, <1>5, <1>6, <1>7, <1>8, <1>9 DEF IInv

LEMMA TakeSnapshotKeeps == ASSUME IInv, TakeSnapshot PROVE IInv'
<1> USE DEF TakeSnapshot, rvars, chain, ReadSnapshot
<1>1. env' = env /\ Mine' = Mine /\ Mine \subseteq Arms
  BY Fixed
<1>2. TypeOK'
  BY <1>1, MarksAssumption DEF IInv, TypeOK, WTypeOK
<1>3. ChainInOrder' /\ DiskIsHandled' /\ ArmsAreKept' /\ ThreadsAreKnown' /\ RefsAreWatched'
      /\ OutcomeIsOfItsRun'
  BY ChainStands, DiskStands, ArmsStand, ThreadsStand, RefsStand, OutcomeStands DEF IInv
<1>4. PairInStep'
  BY <1>1, Fixed, Shapes DEF IInv, PairInStep, BeforePair, BeforeLaunch, WithServer, AllReady
<1>5. ArmsAreFilled'
  BY <1>1, Fixed, Shapes DEF IInv, ArmsAreFilled, PairInStep
<1> QED
  BY <1>2, <1>3, <1>4, <1>5 DEF IInv

LEMMA ProfileKeeps == ASSUME IInv, Profile PROVE IInv'
<1> USE DEF Profile, made, chain, wvars, rvars, arms, verdict, Continue, Checked, Throw,
  Works, Fault, Awaits
<1>1. env' = env /\ Mine' = Mine /\ Mine \subseteq Arms
  BY Fixed
<1>2. TypeOK'
  <2>1. threw' \in BOOLEAN
    BY <1>1, MarksAssumption DEF IInv, TypeOK, WTypeOK
  <2>2. trouble' \in 0..MaxTrouble
    <3>1. trouble' = trouble \/ (trouble < MaxTrouble /\ trouble' = trouble + 1)
      OBVIOUS
    <3> HIDE DEF Profile
    <3> QED
      BY <3>1, TroubleCounts
  <2>3. pc' \in Places
    BY PlacesAre
  <2>4. UNCHANGED <<env, source, refs, snap, root, step, tree, handles, tampered, copied,
                     deps, shared, tail, waits, released, abort, server, thread, known,
                     good, arm, forced, succeeded, committed, errors, outcome>>
    OBVIOUS
  <2> HIDE DEF Profile
  <2> QED
    BY <1>1, <2>1, <2>2, <2>3, <2>4, PlacesAre DEF IInv, TypeOK, WTypeOK
<1>3. ChainInOrder' /\ ArmsAreFilled'
  BY ChainStands, FillStands DEF IInv
<1>4. PairInStep'
  <2>1. pc' # "dispose" => snap[1] = snap[2] /\ snap[1] # None
    BY MarksAssumption DEF IInv, TypeOK, WTypeOK, SnapshotIsStable
  <2>2. pc = "snapshot" /\ pc' \in {"record", "pair", "dispose"} /\ UNCHANGED <<env, step, arm, snap>>
    OBVIOUS
  <2> HIDE DEF Profile
  <2> QED
    BY <1>1, <2>1, <2>2, Fixed, Shapes DEF IInv, PairInStep, BeforePair, BeforeLaunch,
       WithServer, AllReady, rvars
<1>5. DiskIsHandled'
  BY <1>1, Fixed, Shapes DEF IInv, DiskIsHandled, AfterRemoval, Keep, PairInStep,
     ArmsAreFilled
<1>6. ArmsAreKept'
  BY <1>1, Fixed, Shapes DEF IInv, ArmsAreKept, BeforePair, BeforeLaunch, Finally, AllReady,
     ArmsSettled, PairInStep, DiskIsHandled, WithServer
<1>7. ThreadsAreKnown'
  BY <1>1, Fixed, Shapes DEF IInv, ThreadsAreKnown, BeforePair, BeforeLaunch, WithServer,
     Finally, ArmsAreKept
<1>8. RefsAreWatched'
  BY <1>1, Fixed, Shapes DEF IInv, RefsAreWatched, Finally, PairInStep, ArmsAreKept,
     ArmsAreFilled, AllReady, ArmsSettled, BeforeLaunch, BeforePair
<1>9. OutcomeIsOfItsRun'
  BY <1>1, Fixed, Shapes DEF IInv, OutcomeIsOfItsRun, Finally, Reported, Twin
<1> QED
  BY <1>2, <1>3, <1>4, <1>5, <1>6, <1>7, <1>8, <1>9 DEF IInv

LEMMA CreatePairKeeps == ASSUME IInv, CreatePair PROVE IInv'
<1> USE DEF CreatePair, rvars, chain
<1>1. env' = env /\ Mine' = Mine /\ Mine \subseteq Arms
  BY Fixed
<1>2. TypeOK'
  BY <1>1, MarksAssumption DEF IInv, TypeOK, WTypeOK
<1>3. ThreadsAreKnown' /\ RefsAreWatched' /\ OutcomeIsOfItsRun'
  BY ThreadsStand, RefsStand, OutcomeStands DEF IInv
<1>4. ChainInOrder'
  <2>1. \A a \in Arms : step[a] = "out" /\ step'[a] \in {"out", "start"}
    BY <1>1 DEF IInv, PairInStep
  <2> QED
    BY <2>1, Shapes, OpsOfArms DEF IInv, ChainInOrder, Queued
<1>5. PairInStep'
  BY <1>1, Fixed, Shapes DEF IInv, PairInStep, BeforePair, BeforeLaunch, WithServer, AllReady
<1>6. ArmsAreFilled'
  BY <1>1, Fixed, Shapes DEF IInv, ArmsAreFilled, PairInStep
<1>7. DiskIsHandled'
  BY <1>1, Fixed, Shapes DEF IInv, DiskIsHandled, AfterRemoval, Keep, PairInStep,
     ArmsAreFilled
<1>8. ArmsAreKept'
  BY <1>1, Fixed, Shapes DEF IInv, ArmsAreKept, BeforePair, BeforeLaunch, Finally, AllReady,
     ArmsSettled, PairInStep, DiskIsHandled, WithServer
<1> QED
  BY <1>2, <1>3, <1>4, <1>5, <1>6, <1>7, <1>8 DEF IInv

LEMMA PairCreatedKeeps == ASSUME IInv, PairCreated PROVE IInv'
<1> USE DEF PairCreated, made, chain, wvars, rvars, arms, verdict, Continue, Checked, Throw,
  Works, Fault, PairSettled, Created
<1>1. env' = env /\ Mine' = Mine /\ Mine \subseteq Arms
  BY Fixed
<1>2. TypeOK'
  <2>1. shared' \in {None, "failed", "nobody", "user", "agent"} /\ threw' \in BOOLEAN
    BY <1>1, MarksAssumption DEF IInv, TypeOK, WTypeOK
  <2>2. trouble' \in 0..MaxTrouble
    <3>1. trouble' = trouble \/ (trouble < MaxTrouble /\ trouble' = trouble + 1)
      OBVIOUS
    <3> HIDE DEF PairCreated
    <3> QED
      BY <3>1, TroubleCounts
  <2>3. pc' \in Places
    BY PlacesAre DEF PairSettled
  <2>4. UNCHANGED <<env, source, refs, snap, root, step, tree, handles, tampered, copied,
                     deps, tail, waits, released, abort, server, thread, known, good, arm,
                     forced, succeeded, committed, errors, outcome>>
    OBVIOUS
  <2> HIDE DEF PairCreated
  <2> QED
    BY <1>1, <2>1, <2>2, <2>3, <2>4, PlacesAre DEF IInv, TypeOK, WTypeOK
<1>3. ChainInOrder'
  BY ChainStands DEF IInv
<1>4. PairInStep'
  BY <1>1, Fixed, Shapes DEF IInv, PairInStep, BeforePair, BeforeLaunch, WithServer, AllReady
<1>5. ArmsAreFilled'
  <2>1. refs \in {"nobody", "user"}
    BY Promises DEF IInv, RefsAreWatched, ArmsAreKept, BeforeLaunch, BeforePair, Arms
  <2> QED
    BY <1>1, <2>1, Fixed, Shapes DEF IInv, ArmsAreFilled
<1>6. DiskIsHandled'
  BY <1>1, Fixed, Shapes DEF IInv, DiskIsHandled, AfterRemoval, Keep, PairInStep,
     ArmsAreFilled
<1>7. ArmsAreKept'
  BY <1>1, Fixed, Shapes DEF IInv, ArmsAreKept, BeforePair, BeforeLaunch, Finally, AllReady,
     ArmsSettled, PairInStep, DiskIsHandled, WithServer
<1>8. ThreadsAreKnown'
  BY <1>1, Fixed, Shapes DEF IInv, ThreadsAreKnown, BeforePair, BeforeLaunch, WithServer,
     Finally, ArmsAreKept
<1>9. RefsAreWatched'
  BY <1>1, Fixed, Shapes DEF IInv, RefsAreWatched, Finally, PairInStep, ArmsAreKept,
     ArmsAreFilled, AllReady, ArmsSettled, BeforeLaunch, BeforePair
<1>10. OutcomeIsOfItsRun'
  BY <1>1, Fixed, Shapes DEF IInv, OutcomeIsOfItsRun, Finally, Reported, Twin
<1> QED
  BY <1>2, <1>3, <1>4, <1>5, <1>6, <1>7, <1>8, <1>9, <1>10 DEF IInv

LEMMA ConnectKeeps == ASSUME IInv, Connect PROVE IInv'
<1> USE DEF Connect, made, chain, wvars, rvars, arms, verdict, Continue, Checked, Throw,
  Works, Fault, Awaits
<1>1. env' = env /\ Mine' = Mine /\ Mine \subseteq Arms
  BY Fixed
<1>2. TypeOK'
  <2>1. server' \in {"none", "open", "closed"} /\ threw' \in BOOLEAN
    BY <1>1, MarksAssumption DEF IInv, TypeOK, WTypeOK
  <2>2. trouble' \in 0..MaxTrouble
    <3>1. trouble' = trouble \/ (trouble < MaxTrouble /\ trouble' = trouble + 1)
      OBVIOUS
    <3> HIDE DEF Connect
    <3> QED
      BY <3>1, TroubleCounts
  <2>3. pc' \in Places
    BY PlacesAre DEF PairSettled
  <2>4. UNCHANGED <<env, source, refs, snap, root, step, tree, handles, tampered, copied,
                     deps, shared, tail, waits, released, abort, thread, known, good, arm,
                     forced, succeeded, committed, errors, outcome>>
    OBVIOUS
  <2> HIDE DEF Connect
  <2> QED
    BY <1>1, <2>1, <2>2, <2>3, <2>4, PlacesAre DEF IInv, TypeOK, WTypeOK
<1>3. ChainInOrder' /\ ArmsAreFilled'
  BY ChainStands, FillStands DEF IInv
<1>4. PairInStep'
  BY <1>1, Fixed, Shapes DEF IInv, PairInStep, BeforePair, BeforeLaunch, WithServer, AllReady
<1>5. DiskIsHandled'
  BY <1>1, Fixed, Shapes DEF IInv, DiskIsHandled, AfterRemoval, Keep, PairInStep,
     ArmsAreFilled
<1>6. ArmsAreKept'
  BY <1>1, Fixed, Shapes DEF IInv, ArmsAreKept, BeforePair, BeforeLaunch, Finally, AllReady,
     ArmsSettled, PairInStep, DiskIsHandled, WithServer
<1>7. ThreadsAreKnown'
  BY <1>1, Fixed, Shapes DEF IInv, ThreadsAreKnown, BeforePair, BeforeLaunch, WithServer,
     Finally, ArmsAreKept
<1>8. RefsAreWatched'
  BY <1>1, Fixed, Shapes DEF IInv, RefsAreWatched, Finally, PairInStep, ArmsAreKept,
     ArmsAreFilled, AllReady, ArmsSettled, BeforeLaunch, BeforePair
<1>9. OutcomeIsOfItsRun'
  BY <1>1, Fixed, Shapes DEF IInv, OutcomeIsOfItsRun, Finally, Reported, Twin
<1> QED
  BY <1>2, <1>3, <1>4, <1>5, <1>6, <1>7, <1>8, <1>9 DEF IInv

LEMMA StartThreadsKeeps == ASSUME IInv, StartThreads PROVE IInv'
<1> USE DEF StartThreads, made, chain, wvars, rvars, arms, verdict, Continue, Checked, Throw,
  Works, Fault, Capture
<1>1. env' = env /\ Mine' = Mine /\ Mine \subseteq Arms
  BY Fixed
<1>2. TypeOK'
  <2>1. /\ thread' \in [Arms -> {"none", "open", "stray", "deleted"}] /\ known' \in SUBSET Mine
        /\ threw' \in BOOLEAN
    BY <1>1, MarksAssumption DEF IInv, TypeOK, WTypeOK
  <2>2. trouble' \in 0..MaxTrouble
    <3>1. trouble' = trouble \/ (trouble < MaxTrouble /\ trouble' = trouble + 1)
      OBVIOUS
    <3> HIDE DEF StartThreads
    <3> QED
      BY <3>1, TroubleCounts
  <2>3. pc' \in Places
    BY PlacesAre DEF PairSettled
  <2>4. UNCHANGED <<env, source, refs, snap, root, step, tree, handles, tampered, copied,
                     deps, shared, tail, waits, released, abort, server, good, arm, forced,
                     succeeded, committed, errors, outcome>>
    OBVIOUS
  <2> HIDE DEF StartThreads
  <2> QED
    BY <1>1, <2>1, <2>2, <2>3, <2>4, PlacesAre DEF IInv, TypeOK, WTypeOK
<1>3. ChainInOrder' /\ ArmsAreFilled'
  BY ChainStands, FillStands DEF IInv
<1>4. PairInStep'
  BY <1>1, Fixed, Shapes DEF IInv, PairInStep, BeforePair, BeforeLaunch, WithServer, AllReady
<1>5. DiskIsHandled'
  BY <1>1, Fixed, Shapes DEF IInv, DiskIsHandled, AfterRemoval, Keep, PairInStep,
     ArmsAreFilled
<1>6. ArmsAreKept'
  BY <1>1, Fixed, Shapes DEF IInv, ArmsAreKept, BeforePair, BeforeLaunch, Finally, AllReady,
     ArmsSettled, PairInStep, DiskIsHandled, WithServer
<1>7. ThreadsAreKnown'
  BY <1>1, Fixed, Shapes DEF IInv, ThreadsAreKnown, BeforePair, BeforeLaunch, WithServer,
     Finally, ArmsAreKept
<1>8. RefsAreWatched'
  BY <1>1, Fixed, Shapes DEF IInv, RefsAreWatched, Finally, PairInStep, ArmsAreKept,
     ArmsAreFilled, AllReady, ArmsSettled, BeforeLaunch, BeforePair
<1>9. OutcomeIsOfItsRun'
  BY <1>1, Fixed, Shapes DEF IInv, OutcomeIsOfItsRun, Finally, Reported, Twin
<1> QED
  BY <1>2, <1>3, <1>4, <1>5, <1>6, <1>7, <1>8, <1>9 DEF IInv

LEMMA LaunchArmsKeeps == ASSUME IInv, LaunchArms PROVE IInv'
<1> USE DEF LaunchArms, made, chain, wvars, rvars, arms, verdict, Continue, Checked, Throw,
  Works, Fault
<1>1. env' = env /\ Mine' = Mine /\ Mine \subseteq Arms
  BY Fixed
<1>2. TypeOK'
  BY <1>1, MarksAssumption DEF IInv, TypeOK, WTypeOK
<1>3. ChainInOrder' /\ ArmsAreFilled'
  BY ChainStands, FillStands DEF IInv
<1>4. PairInStep'
  BY <1>1, Fixed, Shapes DEF IInv, PairInStep, BeforePair, BeforeLaunch, WithServer, AllReady
<1>5. DiskIsHandled'
  BY <1>1, Fixed, Shapes DEF IInv, DiskIsHandled, AfterRemoval, Keep, PairInStep,
     ArmsAreFilled
<1>6. ArmsAreKept'
  <2>1. AllReady /\ root = "made" /\ \A a \in Mine : tree[a] = "registered"
    <3>1. AllReady /\ pc \notin AfterRemoval
      BY DEF IInv, PairInStep, BeforePair, BeforeLaunch, AfterRemoval
    <3> QED
      BY <3>1, Fixed, Shapes DEF IInv, DiskIsHandled, AllReady
  <2>2. pc' = "arms" /\ arm'["control"] = "turn"
    BY Fixed, Shapes
  <2> QED
    BY <1>1, <2>1, <2>2, Fixed DEF ArmsAreKept, BeforeLaunch, BeforePair, AllReady
<1>7. ThreadsAreKnown'
  <2>1. ~threw
    BY DEF IInv, OutcomeIsOfItsRun, Finally
  <2> QED
    BY <1>1, <2>1, Fixed, Shapes DEF IInv, ThreadsAreKnown, BeforePair, BeforeLaunch,
       WithServer, Finally, ArmsAreKept
<1>8. RefsAreWatched'
  BY <1>1, Fixed, Shapes DEF IInv, RefsAreWatched, Finally, PairInStep, ArmsAreKept,
     ArmsAreFilled, AllReady, ArmsSettled, BeforeLaunch, BeforePair
<1>9. OutcomeIsOfItsRun'
  BY <1>1, Fixed, Shapes DEF IInv, OutcomeIsOfItsRun, Finally, Reported, Twin
<1> QED
  BY <1>2, <1>3, <1>4, <1>5, <1>6, <1>7, <1>8, <1>9 DEF IInv

LEMMA NextArmKeeps == ASSUME IInv, NextArm PROVE IInv'
<1> USE DEF NextArm, made, chain, wvars, rvars, arms, verdict, Continue, Checked, Throw,
  Works, Fault
<1>1. env' = env /\ Mine' = Mine /\ Mine \subseteq Arms
  BY Fixed
<1>2. TypeOK'
  <2>1. arm' \in [Arms -> {"idle", "turn", "verify", "settled"}]
    BY <1>1, MarksAssumption DEF IInv, TypeOK, WTypeOK
  <2>2. UNCHANGED <<env, source, refs, snap, root, step, tree, handles, tampered, copied,
                     deps, shared, tail, waits, released, trouble, pc, abort, server,
                     thread, known, good, forced, succeeded, committed, threw, errors,
                     outcome>>
    OBVIOUS
  <2> HIDE DEF NextArm
  <2> QED
    BY <1>1, <2>1, <2>2 DEF IInv, TypeOK, WTypeOK
<1>3. ChainInOrder' /\ ArmsAreFilled' /\ DiskIsHandled' /\ OutcomeIsOfItsRun'
  BY ChainStands, FillStands, DiskStands, OutcomeStands DEF IInv
<1>4. PairInStep'
  BY <1>1, Fixed, Shapes DEF IInv, PairInStep, BeforePair, BeforeLaunch, WithServer, AllReady
<1>5. ArmsAreKept'
  BY <1>1, Fixed, Shapes DEF IInv, ArmsAreKept, BeforePair, BeforeLaunch, Finally, AllReady,
     ArmsSettled, PairInStep, DiskIsHandled, WithServer
<1>6. ThreadsAreKnown'
  BY <1>1, Fixed, Shapes DEF IInv, ThreadsAreKnown, BeforePair, BeforeLaunch, WithServer,
     Finally, ArmsAreKept
<1>7. RefsAreWatched'
  BY <1>1, Fixed, Shapes DEF IInv, RefsAreWatched, Finally, PairInStep, ArmsAreKept,
     ArmsAreFilled, AllReady, ArmsSettled, BeforeLaunch, BeforePair
<1> QED
  BY <1>2, <1>3, <1>4, <1>5, <1>6, <1>7 DEF IInv

LEMMA EndTurnKeeps == ASSUME IInv, NEW a \in Arms, EndTurn(a) PROVE IInv'
<1> USE DEF EndTurn, made, chain, wvars, rvars, arms, verdict, Continue, Checked, Throw,
  Works, Fault
<1>1. env' = env /\ Mine' = Mine /\ Mine \subseteq Arms
  BY Fixed
<1>2. TypeOK'
  BY <1>1, MarksAssumption DEF IInv, TypeOK, WTypeOK
<1>3. ChainInOrder' /\ ArmsAreFilled' /\ DiskIsHandled' /\ OutcomeIsOfItsRun'
  BY ChainStands, FillStands, DiskStands, OutcomeStands DEF IInv
<1>4. PairInStep'
  BY <1>1, Fixed, Shapes DEF IInv, PairInStep, BeforePair, BeforeLaunch, WithServer, AllReady
<1>5. ArmsAreKept'
  BY <1>1, Fixed, Shapes DEF IInv, ArmsAreKept, BeforePair, BeforeLaunch, Finally, AllReady,
     ArmsSettled, PairInStep, DiskIsHandled, WithServer
<1>6. ThreadsAreKnown'
  BY <1>1, Fixed, Shapes DEF IInv, ThreadsAreKnown, BeforePair, BeforeLaunch, WithServer,
     Finally, ArmsAreKept
<1>7. RefsAreWatched'
  BY <1>1, Fixed, Shapes DEF IInv, RefsAreWatched, Finally, PairInStep, ArmsAreKept,
     ArmsAreFilled, AllReady, ArmsSettled, BeforeLaunch, BeforePair
<1> QED
  BY <1>2, <1>3, <1>4, <1>5, <1>6, <1>7 DEF IInv

LEMMA EndVerificationKeeps == ASSUME IInv, NEW a \in Arms, EndVerification(a) PROVE IInv'
<1> USE DEF EndVerification, made, chain, wvars, rvars, arms, verdict, Continue, Checked,
  Throw, Works, Fault
<1>1. env' = env /\ Mine' = Mine /\ Mine \subseteq Arms
  BY Fixed
<1>2. TypeOK'
  <2>1. arm' \in [Arms -> {"idle", "turn", "verify", "settled"}]
    BY <1>1, MarksAssumption DEF IInv, TypeOK, WTypeOK
  <2>2. good' \in SUBSET Mine
    BY <1>1 DEF IInv, TypeOK, PairInStep
  <2>3. UNCHANGED <<env, source, refs, snap, root, step, tree, handles, tampered, copied,
                     deps, shared, tail, waits, released, trouble, pc, abort, server,
                     thread, known, forced, succeeded, committed, threw, errors, outcome>>
    OBVIOUS
  <2> HIDE DEF EndVerification
  <2> QED
    BY <1>1, <2>1, <2>2, <2>3 DEF IInv, TypeOK, WTypeOK
<1>3. ChainInOrder' /\ ArmsAreFilled' /\ DiskIsHandled' /\ OutcomeIsOfItsRun'
  BY ChainStands, FillStands, DiskStands, OutcomeStands DEF IInv
<1>4. PairInStep'
  BY <1>1, Fixed, Shapes DEF IInv, PairInStep, BeforePair, BeforeLaunch, WithServer, AllReady
<1>5. ArmsAreKept'
  BY <1>1, Fixed, Shapes DEF IInv, ArmsAreKept, BeforePair, BeforeLaunch, Finally, AllReady,
     ArmsSettled, PairInStep, DiskIsHandled, WithServer
<1>6. ThreadsAreKnown'
  BY <1>1, Fixed, Shapes DEF IInv, ThreadsAreKnown, BeforePair, BeforeLaunch, WithServer,
     Finally, ArmsAreKept
<1>7. RefsAreWatched'
  BY <1>1, Fixed, Shapes DEF IInv, RefsAreWatched, Finally, PairInStep, ArmsAreKept,
     ArmsAreFilled, AllReady, ArmsSettled, BeforeLaunch, BeforePair
<1> QED
  BY <1>2, <1>3, <1>4, <1>5, <1>6, <1>7 DEF IInv

LEMMA ArmsEndKeeps == ASSUME IInv, ArmsEnd PROVE IInv'
<1> USE DEF ArmsEnd, made, chain, wvars, rvars, arms, verdict, Continue, Checked, Throw,
  Works, Fault
<1>1. env' = env /\ Mine' = Mine /\ Mine \subseteq Arms
  BY Fixed
<1>2. TypeOK'
  BY <1>1, MarksAssumption DEF IInv, TypeOK, WTypeOK
<1>3. ChainInOrder' /\ ArmsAreFilled'
  BY ChainStands, FillStands DEF IInv
<1>4. PairInStep'
  BY <1>1, Fixed, Shapes DEF IInv, PairInStep, BeforePair, BeforeLaunch, WithServer, AllReady
<1>5. DiskIsHandled'
  BY <1>1, Fixed, Shapes DEF IInv, DiskIsHandled, AfterRemoval, Keep, PairInStep,
     ArmsAreFilled
<1>6. ArmsAreKept'
  BY <1>1, Fixed, Shapes DEF IInv, ArmsAreKept, BeforePair, BeforeLaunch, Finally, AllReady,
     ArmsSettled, PairInStep, DiskIsHandled, WithServer
<1>7. ThreadsAreKnown'
  BY <1>1, Fixed, Shapes DEF IInv, ThreadsAreKnown, BeforePair, BeforeLaunch, WithServer,
     Finally, ArmsAreKept
<1>8. RefsAreWatched'
  BY <1>1, Fixed, Shapes DEF IInv, RefsAreWatched, Finally, PairInStep, ArmsAreKept,
     ArmsAreFilled, AllReady, ArmsSettled, BeforeLaunch, BeforePair
<1>9. OutcomeIsOfItsRun'
  BY <1>1, Fixed, Shapes DEF IInv, OutcomeIsOfItsRun, Finally, Reported, Twin
<1> QED
  BY <1>2, <1>3, <1>4, <1>5, <1>6, <1>7, <1>8, <1>9 DEF IInv

LEMMA ContainKeeps == ASSUME IInv, Contain PROVE IInv'
<1> USE DEF Contain, made, chain, wvars, rvars, arms, verdict, Continue, Checked, Throw,
  Works, Fault
<1>1. env' = env /\ Mine' = Mine /\ Mine \subseteq Arms
  BY Fixed
<1>2. TypeOK'
  BY <1>1, MarksAssumption DEF IInv, TypeOK, WTypeOK
<1>3. ChainInOrder' /\ ArmsAreFilled'
  BY ChainStands, FillStands DEF IInv
<1>4. PairInStep'
  BY <1>1, Fixed, Shapes DEF IInv, PairInStep, BeforePair, BeforeLaunch, WithServer, AllReady
<1>5. DiskIsHandled'
  BY <1>1, Fixed, Shapes DEF IInv, DiskIsHandled, AfterRemoval, Keep, PairInStep,
     ArmsAreFilled
<1>6. ArmsAreKept'
  BY <1>1, Fixed, Shapes DEF IInv, ArmsAreKept, BeforePair, BeforeLaunch, Finally, AllReady,
     ArmsSettled, PairInStep, DiskIsHandled, WithServer
<1>7. ThreadsAreKnown'
  BY <1>1, Fixed, Shapes DEF IInv, ThreadsAreKnown, BeforePair, BeforeLaunch, WithServer,
     Finally, ArmsAreKept
<1>8. RefsAreWatched'
  BY <1>1, Fixed, Shapes DEF IInv, RefsAreWatched, Finally, PairInStep, ArmsAreKept,
     ArmsAreFilled, AllReady, ArmsSettled, BeforeLaunch, BeforePair
<1>9. OutcomeIsOfItsRun'
  BY <1>1, Fixed, Shapes DEF IInv, OutcomeIsOfItsRun, Finally, Reported, Twin
<1> QED
  BY <1>2, <1>3, <1>4, <1>5, <1>6, <1>7, <1>8, <1>9 DEF IInv

LEMMA ContainedKeeps == ASSUME IInv, Contained PROVE IInv'
<1> USE DEF Contained, made, chain, wvars, rvars, arms, verdict, Continue, Checked, Throw,
  Works, Fault
<1>1. env' = env /\ Mine' = Mine /\ Mine \subseteq Arms
  BY Fixed
<1>2. TypeOK'
  BY <1>1, MarksAssumption DEF IInv, TypeOK, WTypeOK
<1>3. ChainInOrder' /\ ArmsAreFilled'
  BY ChainStands, FillStands DEF IInv
<1>4. PairInStep'
  BY <1>1, Fixed, Shapes DEF IInv, PairInStep, BeforePair, BeforeLaunch, WithServer, AllReady
<1>5. DiskIsHandled'
  BY <1>1, Fixed, Shapes DEF IInv, DiskIsHandled, AfterRemoval, Keep, PairInStep,
     ArmsAreFilled
<1>6. ArmsAreKept'
  BY <1>1, Fixed, Shapes DEF IInv, ArmsAreKept, BeforePair, BeforeLaunch, Finally, AllReady,
     ArmsSettled, PairInStep, DiskIsHandled, WithServer
<1>7. ThreadsAreKnown'
  BY <1>1, Fixed, Shapes DEF IInv, ThreadsAreKnown, BeforePair, BeforeLaunch, WithServer,
     Finally, ArmsAreKept
<1>8. RefsAreWatched'
  BY <1>1, Fixed, Shapes DEF IInv, RefsAreWatched, Finally, PairInStep, ArmsAreKept,
     ArmsAreFilled, AllReady, ArmsSettled, BeforeLaunch, BeforePair
<1>9. OutcomeIsOfItsRun'
  BY <1>1, Fixed, Shapes DEF IInv, OutcomeIsOfItsRun, Finally, Reported, Twin
<1> QED
  BY <1>2, <1>3, <1>4, <1>5, <1>6, <1>7, <1>8, <1>9 DEF IInv

LEMMA StillLiveKeeps == ASSUME IInv, StillLive PROVE IInv'
<1> USE DEF StillLive, made, chain, wvars, rvars, arms, verdict, Continue, Checked, Throw,
  Works, Fault
<1>1. env' = env /\ Mine' = Mine /\ Mine \subseteq Arms
  BY Fixed
<1>2. TypeOK'
  BY <1>1, MarksAssumption DEF IInv, TypeOK, WTypeOK
<1>3. ChainInOrder' /\ ArmsAreFilled'
  BY ChainStands, FillStands DEF IInv
<1>4. PairInStep'
  BY <1>1, Fixed, Shapes DEF IInv, PairInStep, BeforePair, BeforeLaunch, WithServer, AllReady
<1>5. DiskIsHandled'
  BY <1>1, Fixed, Shapes DEF IInv, DiskIsHandled, AfterRemoval, Keep, PairInStep,
     ArmsAreFilled
<1>6. ArmsAreKept'
  BY <1>1, Fixed, Shapes DEF IInv, ArmsAreKept, BeforePair, BeforeLaunch, Finally, AllReady,
     ArmsSettled, PairInStep, DiskIsHandled, WithServer
<1>7. ThreadsAreKnown'
  BY <1>1, Fixed, Shapes DEF IInv, ThreadsAreKnown, BeforePair, BeforeLaunch, WithServer,
     Finally, ArmsAreKept
<1>8. RefsAreWatched'
  BY <1>1, Fixed, Shapes DEF IInv, RefsAreWatched, Finally, PairInStep, ArmsAreKept,
     ArmsAreFilled, AllReady, ArmsSettled, BeforeLaunch, BeforePair
<1>9. OutcomeIsOfItsRun'
  BY <1>1, Fixed, Shapes DEF IInv, OutcomeIsOfItsRun, Finally, Reported, Twin
<1> QED
  BY <1>2, <1>3, <1>4, <1>5, <1>6, <1>7, <1>8, <1>9 DEF IInv

LEMMA CheckControlKeeps == ASSUME IInv, CheckControl PROVE IInv'
<1> USE DEF CheckControl, made, chain, wvars, rvars, arms, verdict, Continue, Checked, Throw,
  Works, Fault, ControlHolds, SharedHolds, RestoreShared
<1>1. env' = env /\ Mine' = Mine /\ Mine \subseteq Arms
  BY Fixed
<1>2. TypeOK'
  <2>1. /\ refs' \in {"nobody", "user", "agent"} /\ succeeded' \in BOOLEAN
        /\ threw' \in BOOLEAN
    BY <1>1, MarksAssumption DEF IInv, TypeOK, WTypeOK
  <2>2. trouble' \in 0..MaxTrouble
    <3>1. trouble' = trouble \/ (trouble < MaxTrouble /\ trouble' = trouble + 1)
      OBVIOUS
    <3> HIDE DEF CheckControl
    <3> QED
      BY <3>1, TroubleCounts
  <2>3. pc' \in Places
    BY PlacesAre DEF PairSettled
  <2>4. UNCHANGED <<env, source, snap, root, step, tree, handles, tampered, copied, deps,
                     shared, tail, waits, released, abort, server, thread, known, good,
                     arm, forced, committed, errors, outcome>>
    OBVIOUS
  <2> HIDE DEF CheckControl
  <2> QED
    BY <1>1, <2>1, <2>2, <2>3, <2>4, PlacesAre DEF IInv, TypeOK, WTypeOK
<1>3. ChainInOrder' /\ ArmsAreFilled'
  BY ChainStands, FillStands DEF IInv
<1>4. /\ pc = "check" /\ pc' \in {"artifacts", "dispose"} /\ ~threw
      /\ IF pc' = "artifacts" THEN ~threw' /\ tampered = {} /\ refs = shared' ELSE threw'
      /\ refs' \in {refs, shared} /\ UNCHANGED <<committed, outcome, arm, tampered, forced, shared>>
  <2>1. pc = "check" /\ ~threw /\ UNCHANGED <<committed, outcome, arm, tampered, forced, shared>>
    BY DEF IInv, OutcomeIsOfItsRun, Finally
  <2>2. (pc' = "artifacts" /\ ~threw') \/ (pc' = "dispose" /\ threw')
    BY <2>1
  <2>3. pc' = "artifacts" => tampered = {} /\ SharedHolds /\ refs' = refs
    OBVIOUS
  <2>4. refs' \in {refs, shared}
    OBVIOUS
  <2>5. AllReady => shared # None
    BY Fixed, MarksAssumption DEF IInv, ArmsAreFilled, AllReady
  <2>6. AllReady
    BY <2>1 DEF IInv, PairInStep, WithServer
  <2> QED
    BY <2>1, <2>2, <2>3, <2>4, <2>5, <2>6
<1>5. PairInStep'
  BY <1>1, Fixed, Shapes, <1>4 DEF IInv, PairInStep, BeforePair, BeforeLaunch, WithServer,
     AllReady
<1>6. DiskIsHandled'
  BY <1>1, Fixed, Shapes, <1>4 DEF IInv, DiskIsHandled, AfterRemoval, Keep, PairInStep,
     ArmsAreFilled
<1>7. ArmsAreKept'
  BY <1>1, Fixed, Shapes, <1>4 DEF IInv, ArmsAreKept, BeforePair, BeforeLaunch, Finally,
     AllReady, ArmsSettled, PairInStep, DiskIsHandled, WithServer
<1>8. ThreadsAreKnown'
  BY <1>1, Fixed, Shapes, <1>4 DEF IInv, ThreadsAreKnown, BeforePair, BeforeLaunch,
     WithServer, Finally, ArmsAreKept
<1>9. RefsAreWatched'
  <2> HIDE DEF CheckControl, ControlHolds, SharedHolds, RestoreShared
  <2>1. shared # "agent" /\ (refs = "agent" => arm["control"] # "idle")
    BY DEF IInv, RefsAreWatched
  <2>2. pc' = "artifacts" => refs' # "agent"
    BY <1>4, <2>1
  <2> QED
    BY <1>4, <2>1, <2>2 DEF RefsAreWatched, Finally
<1>10. OutcomeIsOfItsRun'
  BY <1>4 DEF IInv, OutcomeIsOfItsRun, Finally
<1> QED
  BY <1>2, <1>3, <1>5, <1>6, <1>7, <1>8, <1>9, <1>10 DEF IInv

LEMMA ApplyKeeps == ASSUME IInv, Apply PROVE IInv'
<1> USE DEF Apply, made, chain, wvars, rvars, arms, verdict, Continue, Checked, Throw, Works,
  Fault
<1>1. env' = env /\ Mine' = Mine /\ Mine \subseteq Arms
  BY Fixed
<1>2. TypeOK'
  <2>1. /\ forced' \in BOOLEAN /\ succeeded' \in BOOLEAN /\ committed' \in BOOLEAN
        /\ threw' \in BOOLEAN
    BY <1>1, MarksAssumption DEF IInv, TypeOK, WTypeOK
  <2>2. trouble' \in 0..MaxTrouble
    <3>1. trouble' = trouble \/ (trouble < MaxTrouble /\ trouble' = trouble + 1)
      OBVIOUS
    <3> HIDE DEF Apply
    <3> QED
      BY <3>1, TroubleCounts
  <2>3. pc' \in Places
    BY PlacesAre DEF PairSettled
  <2>4. UNCHANGED <<env, source, refs, snap, root, step, tree, handles, tampered, copied,
                     deps, shared, tail, waits, released, abort, server, thread, known,
                     good, arm, errors, outcome>>
    OBVIOUS
  <2> HIDE DEF Apply
  <2> QED
    BY <1>1, <2>1, <2>2, <2>3, <2>4, PlacesAre DEF IInv, TypeOK, WTypeOK
<1>3. ChainInOrder' /\ ArmsAreFilled'
  BY ChainStands, FillStands DEF IInv
<1>4. PairInStep'
  BY <1>1, Fixed, Shapes DEF IInv, PairInStep, BeforePair, BeforeLaunch, WithServer, AllReady
<1>5. DiskIsHandled'
  BY <1>1, Fixed, Shapes DEF IInv, DiskIsHandled, AfterRemoval, Keep, PairInStep,
     ArmsAreFilled
<1>6. ArmsAreKept'
  BY <1>1, Fixed, Shapes DEF IInv, ArmsAreKept, BeforePair, BeforeLaunch, Finally, AllReady,
     ArmsSettled, PairInStep, DiskIsHandled, WithServer
<1>7. ThreadsAreKnown'
  BY <1>1, Fixed, Shapes DEF IInv, ThreadsAreKnown, BeforePair, BeforeLaunch, WithServer,
     Finally, ArmsAreKept
<1>8. RefsAreWatched'
  BY <1>1, Fixed, Shapes DEF IInv, RefsAreWatched, Finally, PairInStep, ArmsAreKept,
     ArmsAreFilled, AllReady, ArmsSettled, BeforeLaunch, BeforePair
<1>9. OutcomeIsOfItsRun'
  BY <1>1, Fixed, Shapes DEF IInv, OutcomeIsOfItsRun, Finally, Reported, Twin
<1> QED
  BY <1>2, <1>3, <1>4, <1>5, <1>6, <1>7, <1>8, <1>9 DEF IInv

LEMMA CompleteKeeps == ASSUME IInv, Complete PROVE IInv'
<1> USE DEF Complete, made, chain, wvars, rvars, arms, verdict, Continue, Checked, Throw,
  Works, Fault
<1>1. env' = env /\ Mine' = Mine /\ Mine \subseteq Arms
  BY Fixed
<1>2. TypeOK'
  <2>1. succeeded' \in BOOLEAN /\ threw' \in BOOLEAN
    BY <1>1, MarksAssumption DEF IInv, TypeOK, WTypeOK
  <2>2. pc' \in Places
    BY PlacesAre DEF PairSettled
  <2>3. UNCHANGED <<env, source, refs, snap, root, step, tree, handles, tampered, copied,
                     deps, shared, tail, waits, released, trouble, abort, server, thread,
                     known, good, arm, forced, committed, errors, outcome>>
    OBVIOUS
  <2> HIDE DEF Complete
  <2> QED
    BY <1>1, <2>1, <2>2, <2>3, PlacesAre DEF IInv, TypeOK, WTypeOK
<1>3. ChainInOrder' /\ ArmsAreFilled'
  BY ChainStands, FillStands DEF IInv
<1>4. PairInStep'
  BY <1>1, Fixed, Shapes DEF IInv, PairInStep, BeforePair, BeforeLaunch, WithServer, AllReady
<1>5. DiskIsHandled'
  BY <1>1, Fixed, Shapes DEF IInv, DiskIsHandled, AfterRemoval, Keep, PairInStep,
     ArmsAreFilled
<1>6. ArmsAreKept'
  BY <1>1, Fixed, Shapes DEF IInv, ArmsAreKept, BeforePair, BeforeLaunch, Finally, AllReady,
     ArmsSettled, PairInStep, DiskIsHandled, WithServer
<1>7. ThreadsAreKnown'
  BY <1>1, Fixed, Shapes DEF IInv, ThreadsAreKnown, BeforePair, BeforeLaunch, WithServer,
     Finally, ArmsAreKept
<1>8. RefsAreWatched'
  BY <1>1, Fixed, Shapes DEF IInv, RefsAreWatched, Finally, PairInStep, ArmsAreKept,
     ArmsAreFilled, AllReady, ArmsSettled, BeforeLaunch, BeforePair
<1>9. OutcomeIsOfItsRun'
  BY <1>1, Fixed, Shapes DEF IInv, OutcomeIsOfItsRun, Finally, Reported, Twin
<1> QED
  BY <1>2, <1>3, <1>4, <1>5, <1>6, <1>7, <1>8, <1>9 DEF IInv

LEMMA DeleteThreadsKeeps == ASSUME IInv, DeleteThreads PROVE IInv'
<1> USE DEF DeleteThreads, made, chain, wvars, rvars, arms, verdict, Continue, Checked,
  Throw, Works, Fault
<1>1. env' = env /\ Mine' = Mine /\ Mine \subseteq Arms
  BY Fixed
<1>2. TypeOK'
  <2>1. /\ thread' \in [Arms -> {"none", "open", "stray", "deleted"}]
        /\ errors' \in SUBSET {"delete", "close", "control", "worktrees", "root"}
    <3>1. /\ errors' = errors \/ errors' = errors \cup {"delete"}
          /\ thread' = thread \/ \E deleted \in SUBSET known :
               thread' = [a \in Arms |-> IF a \in deleted THEN "deleted" ELSE thread[a]]
      OBVIOUS
    <3>2. thread \in [Arms -> {"none", "open", "stray", "deleted"}]
          /\ errors \in SUBSET {"delete", "close", "control", "worktrees", "root"}
      BY DEF IInv, TypeOK
    <3> HIDE DEF DeleteThreads
    <3> QED
      BY <3>1, <3>2
  <2>2. trouble' \in 0..MaxTrouble
    <3>1. trouble' = trouble \/ (trouble < MaxTrouble /\ trouble' = trouble + 1)
      OBVIOUS
    <3> HIDE DEF DeleteThreads
    <3> QED
      BY <3>1, TroubleCounts
  <2>3. pc' \in Places
    BY PlacesAre DEF PairSettled
  <2>4. UNCHANGED <<env, source, refs, snap, root, step, tree, handles, tampered, copied,
                     deps, shared, tail, waits, released, abort, server, known, good, arm,
                     forced, succeeded, committed, threw, outcome>>
    OBVIOUS
  <2> HIDE DEF DeleteThreads
  <2> QED
    BY <1>1, <2>1, <2>2, <2>3, <2>4, PlacesAre DEF IInv, TypeOK, WTypeOK
<1>3. ChainInOrder' /\ ArmsAreFilled'
  BY ChainStands, FillStands DEF IInv
<1>4. PairInStep'
  BY <1>1, Fixed, Shapes DEF IInv, PairInStep, BeforePair, BeforeLaunch, WithServer, AllReady
<1>5. DiskIsHandled'
  BY <1>1, Fixed, Shapes DEF IInv, DiskIsHandled, AfterRemoval, Keep, PairInStep,
     ArmsAreFilled
<1>6. ArmsAreKept'
  BY <1>1, Fixed, Shapes DEF IInv, ArmsAreKept, BeforePair, BeforeLaunch, Finally, AllReady,
     ArmsSettled, PairInStep, DiskIsHandled, WithServer
<1>7. ThreadsAreKnown'
  BY <1>1, Fixed, Shapes DEF IInv, ThreadsAreKnown, BeforePair, BeforeLaunch, WithServer,
     Finally, ArmsAreKept
<1>8. RefsAreWatched'
  BY <1>1, Fixed, Shapes DEF IInv, RefsAreWatched, Finally, PairInStep, ArmsAreKept,
     ArmsAreFilled, AllReady, ArmsSettled, BeforeLaunch, BeforePair
<1>9. OutcomeIsOfItsRun'
  BY <1>1, Fixed, Shapes DEF IInv, OutcomeIsOfItsRun, Finally, Reported, Twin
<1> QED
  BY <1>2, <1>3, <1>4, <1>5, <1>6, <1>7, <1>8, <1>9 DEF IInv

LEMMA CloseServerKeeps == ASSUME IInv, CloseServer PROVE IInv'
<1> USE DEF CloseServer, made, chain, wvars, rvars, arms, verdict, Continue, Checked, Throw,
  Works, Fault
<1>1. env' = env /\ Mine' = Mine /\ Mine \subseteq Arms
  BY Fixed
<1>2. TypeOK'
  <2>1. /\ server' \in {"none", "open", "closed"}
        /\ errors' \in SUBSET {"delete", "close", "control", "worktrees", "root"}
    BY <1>1, MarksAssumption DEF IInv, TypeOK, WTypeOK
  <2>2. trouble' \in 0..MaxTrouble
    <3>1. trouble' = trouble \/ (trouble < MaxTrouble /\ trouble' = trouble + 1)
      OBVIOUS
    <3> HIDE DEF CloseServer
    <3> QED
      BY <3>1, TroubleCounts
  <2>3. pc' \in Places
    BY PlacesAre DEF PairSettled
  <2>4. UNCHANGED <<env, source, refs, snap, root, step, tree, handles, tampered, copied,
                     deps, shared, tail, waits, released, abort, thread, known, good, arm,
                     forced, succeeded, committed, threw, outcome>>
    OBVIOUS
  <2> HIDE DEF CloseServer
  <2> QED
    BY <1>1, <2>1, <2>2, <2>3, <2>4, PlacesAre DEF IInv, TypeOK, WTypeOK
<1>3. ChainInOrder' /\ ArmsAreFilled'
  BY ChainStands, FillStands DEF IInv
<1>4. PairInStep'
  BY <1>1, Fixed, Shapes DEF IInv, PairInStep, BeforePair, BeforeLaunch, WithServer, AllReady
<1>5. DiskIsHandled'
  BY <1>1, Fixed, Shapes DEF IInv, DiskIsHandled, AfterRemoval, Keep, PairInStep,
     ArmsAreFilled
<1>6. ArmsAreKept'
  BY <1>1, Fixed, Shapes DEF IInv, ArmsAreKept, BeforePair, BeforeLaunch, Finally, AllReady,
     ArmsSettled, PairInStep, DiskIsHandled, WithServer
<1>7. ThreadsAreKnown'
  BY <1>1, Fixed, Shapes DEF IInv, ThreadsAreKnown, BeforePair, BeforeLaunch, WithServer,
     Finally, ArmsAreKept
<1>8. RefsAreWatched'
  BY <1>1, Fixed, Shapes DEF IInv, RefsAreWatched, Finally, PairInStep, ArmsAreKept,
     ArmsAreFilled, AllReady, ArmsSettled, BeforeLaunch, BeforePair
<1>9. OutcomeIsOfItsRun'
  BY <1>1, Fixed, Shapes DEF IInv, OutcomeIsOfItsRun, Finally, Reported, Twin
<1> QED
  BY <1>2, <1>3, <1>4, <1>5, <1>6, <1>7, <1>8, <1>9 DEF IInv

LEMMA CleanupKeeps == ASSUME IInv, Cleanup PROVE IInv'
<1> USE DEF Cleanup, made, chain, wvars, rvars, arms, verdict, Continue, Checked, Throw,
  Works, Fault, SharedHolds, RestoreShared
<1>1. env' = env /\ Mine' = Mine /\ Mine \subseteq Arms
  BY Fixed
<1>2. TypeOK'
  <2>1. /\ refs' \in {"nobody", "user", "agent"}
        /\ errors' \in SUBSET {"delete", "close", "control", "worktrees", "root"}
    BY <1>1, MarksAssumption DEF IInv, TypeOK, WTypeOK
  <2>2. trouble' \in 0..MaxTrouble
    <3>1. trouble' = trouble \/ (trouble < MaxTrouble /\ trouble' = trouble + 1)
      OBVIOUS
    <3> HIDE DEF Cleanup
    <3> QED
      BY <3>1, TroubleCounts
  <2>3. pc' \in Places
    BY PlacesAre DEF PairSettled
  <2>4. UNCHANGED <<env, source, snap, root, step, tree, handles, tampered, copied, deps,
                     shared, tail, waits, released, abort, server, thread, known, good,
                     arm, forced, succeeded, committed, threw, outcome>>
    OBVIOUS
  <2> HIDE DEF Cleanup
  <2> QED
    BY <1>1, <2>1, <2>2, <2>3, <2>4, PlacesAre DEF IInv, TypeOK, WTypeOK
<1>3. ChainInOrder' /\ ArmsAreFilled'
  BY ChainStands, FillStands DEF IInv
<1>4. PairInStep'
  BY <1>1, Fixed, Shapes DEF IInv, PairInStep, BeforePair, BeforeLaunch, WithServer, AllReady
<1>5. DiskIsHandled'
  BY <1>1, Fixed, Shapes DEF IInv, DiskIsHandled, AfterRemoval, Keep, PairInStep,
     ArmsAreFilled
<1>6. ArmsAreKept'
  BY <1>1, Fixed, Shapes DEF IInv, ArmsAreKept, BeforePair, BeforeLaunch, Finally, AllReady,
     ArmsSettled, PairInStep, DiskIsHandled, WithServer
<1>7. ThreadsAreKnown'
  BY <1>1, Fixed, Shapes DEF IInv, ThreadsAreKnown, BeforePair, BeforeLaunch, WithServer,
     Finally, ArmsAreKept
<1>8. RefsAreWatched'
  <2>1. /\ pc = "cleanup" /\ pc' \in {"report", "remove"} /\ refs' \in {refs, shared}
        /\ UNCHANGED <<arm, threw, tampered, forced, shared>>
    OBVIOUS
  <2>2. forced \/ SharedHolds \/ "control" \in errors'
    OBVIOUS
  <2>3. /\ shared # "agent" /\ (refs = "agent" => arm["control"] # "idle")
        /\ ~threw => tampered = {} /\ refs # "agent"
    BY <2>1 DEF IInv, RefsAreWatched, Finally
  <2>4. refs = "agent" => ~SharedHolds
    <3>1. refs = "agent" => shared \in {"nobody", "user"}
      BY <2>3, Fixed DEF IInv, ArmsAreKept, ArmsAreFilled, AllReady
    <3> QED
      BY <3>1, MarksAssumption
  <2> HIDE DEF Cleanup
  <2> QED
    BY <2>1, <2>2, <2>3, <2>4 DEF RefsAreWatched, Finally
<1>9. OutcomeIsOfItsRun'
  BY <1>1, Fixed, Shapes DEF IInv, OutcomeIsOfItsRun, Finally, Reported, Twin
<1> QED
  BY <1>2, <1>3, <1>4, <1>5, <1>6, <1>7, <1>8, <1>9 DEF IInv

LEMMA RemoveWorktreesKeeps == ASSUME IInv, RemoveWorktrees PROVE IInv'
<1> USE DEF RemoveWorktrees, made, chain, wvars, rvars, arms, verdict, Continue, Checked,
  Throw, Works, Fault
<1>1. env' = env /\ Mine' = Mine /\ Mine \subseteq Arms
  BY Fixed
<1>2. TypeOK'
  <2>1. /\ root' \in {"none", "made", "removed"}
        /\ tree' \in [Arms -> {"none", "dir", "registered"}]
    BY <1>1, MarksAssumption DEF IInv, TypeOK, WTypeOK
  <2>2. trouble' \in 0..MaxTrouble
    <3>1. trouble' = trouble \/ (trouble < MaxTrouble /\ trouble' = trouble + 1)
      OBVIOUS
    <3> HIDE DEF RemoveWorktrees
    <3> QED
      BY <3>1, TroubleCounts
  <2>3. pc' \in Places
    BY PlacesAre DEF PairSettled
  <2>4. errors' \in SUBSET {"delete", "close", "control", "worktrees", "root"}
    <3>1. errors' \subseteq errors \cup {"worktrees", "root"}
      OBVIOUS
    <3> QED
      BY <3>1 DEF IInv, TypeOK
  <2>5. UNCHANGED <<env, source, refs, snap, step, handles, tampered, copied, deps,
                     shared, tail, waits, released, abort, server, thread, known, good,
                     arm, forced, succeeded, committed, threw, outcome>>
    OBVIOUS
  <2> HIDE DEF RemoveWorktrees
  <2> QED
    BY <1>1, <2>1, <2>2, <2>3, <2>4, <2>5, PlacesAre DEF IInv, TypeOK, WTypeOK
<1>3. ChainInOrder' /\ ArmsAreFilled'
  BY ChainStands, FillStands DEF IInv
<1>4. PairInStep'
  BY <1>1, Fixed, Shapes DEF IInv, PairInStep, BeforePair, BeforeLaunch, WithServer, AllReady
<1>5. DiskIsHandled'
  BY <1>1, Fixed, Shapes DEF IInv, DiskIsHandled, AfterRemoval, Keep, PairInStep,
     ArmsAreFilled
<1>6. ArmsAreKept'
  BY <1>1, Fixed, Shapes DEF IInv, ArmsAreKept, BeforePair, BeforeLaunch, Finally, AllReady,
     ArmsSettled, PairInStep, DiskIsHandled, WithServer
<1>7. ThreadsAreKnown'
  BY <1>1, Fixed, Shapes DEF IInv, ThreadsAreKnown, BeforePair, BeforeLaunch, WithServer,
     Finally, ArmsAreKept
<1>8. RefsAreWatched'
  BY <1>1, Fixed, Shapes DEF IInv, RefsAreWatched, Finally, PairInStep, ArmsAreKept,
     ArmsAreFilled, AllReady, ArmsSettled, BeforeLaunch, BeforePair
<1>9. OutcomeIsOfItsRun'
  BY <1>1, Fixed, Shapes DEF IInv, OutcomeIsOfItsRun, Finally, Reported, Twin
<1> QED
  BY <1>2, <1>3, <1>4, <1>5, <1>6, <1>7, <1>8, <1>9 DEF IInv

LEMMA ReportKeeps == ASSUME IInv, Report PROVE IInv'
<1> USE DEF Report, made, chain, wvars, rvars, arms, verdict, Continue, Checked, Throw,
  Works, Fault
<1>1. env' = env /\ Mine' = Mine /\ Mine \subseteq Arms
  BY Fixed
<1>2. TypeOK'
  <2>1. pc' \in Places
    BY PlacesAre DEF PairSettled
  <2>2. outcome' \in {None, "result", "primary", "cleanup"}
    BY DEF Reported
  <2>3. UNCHANGED <<env, source, refs, snap, root, step, tree, handles, tampered, copied,
                     deps, shared, tail, waits, released, trouble, abort, server, thread,
                     known, good, arm, forced, succeeded, committed, threw, errors>>
    OBVIOUS
  <2> HIDE DEF Report
  <2> QED
    BY <1>1, <2>1, <2>2, <2>3, PlacesAre DEF IInv, TypeOK, WTypeOK
<1>3. ChainInOrder' /\ ArmsAreFilled'
  BY ChainStands, FillStands DEF IInv
<1>4. PairInStep'
  BY <1>1, Fixed, Shapes DEF IInv, PairInStep, BeforePair, BeforeLaunch, WithServer, AllReady
<1>5. DiskIsHandled'
  BY <1>1, Fixed, Shapes DEF IInv, DiskIsHandled, AfterRemoval, Keep, PairInStep,
     ArmsAreFilled
<1>6. ArmsAreKept'
  BY <1>1, Fixed, Shapes DEF IInv, ArmsAreKept, BeforePair, BeforeLaunch, Finally, AllReady,
     ArmsSettled, PairInStep, DiskIsHandled, WithServer
<1>7. ThreadsAreKnown'
  BY <1>1, Fixed, Shapes DEF IInv, ThreadsAreKnown, BeforePair, BeforeLaunch, WithServer,
     Finally, ArmsAreKept
<1>8. RefsAreWatched'
  BY <1>1, Fixed, Shapes DEF IInv, RefsAreWatched, Finally, PairInStep, ArmsAreKept,
     ArmsAreFilled, AllReady, ArmsSettled, BeforeLaunch, BeforePair
<1>9. OutcomeIsOfItsRun'
  BY <1>1, Fixed, Shapes DEF IInv, OutcomeIsOfItsRun, Finally, Reported, Twin
<1> QED
  BY <1>2, <1>3, <1>4, <1>5, <1>6, <1>7, <1>8, <1>9 DEF IInv

LEMMA AbortKeeps == ASSUME IInv, Abort PROVE IInv'
<1> USE DEF Abort, made, chain, wvars, rvars, arms, verdict, Continue, Checked, Throw, Works,
  Fault, InTry
<1>1. env' = env /\ Mine' = Mine /\ Mine \subseteq Arms
  BY Fixed
<1>2. TypeOK'
  BY <1>1, MarksAssumption DEF IInv, TypeOK, WTypeOK
<1>3. ChainInOrder' /\ PairInStep' /\ ArmsAreFilled' /\ DiskIsHandled' /\ ArmsAreKept'
      /\ ThreadsAreKnown' /\ RefsAreWatched' /\ OutcomeIsOfItsRun'
  BY ChainStands, PairStands, FillStands, DiskStands, ArmsStand, ThreadsStand, RefsStand,
     OutcomeStands DEF IInv
<1> QED
  BY <1>2, <1>3 DEF IInv

LEMMA EditKeeps == ASSUME IInv, Edit PROVE IInv'
<1> USE DEF Edit, made, chain, wvars, rvars, arms, verdict, Continue, Checked, Throw, Works,
  Fault
<1>1. env' = env /\ Mine' = Mine /\ Mine \subseteq Arms
  BY Fixed
<1>2. TypeOK'
  BY <1>1, MarksAssumption DEF IInv, TypeOK, WTypeOK
<1>3. ChainInOrder' /\ PairInStep' /\ ArmsAreFilled' /\ DiskIsHandled' /\ ArmsAreKept'
      /\ ThreadsAreKnown' /\ RefsAreWatched' /\ OutcomeIsOfItsRun'
  BY ChainStands, PairStands, FillStands, DiskStands, ArmsStand, ThreadsStand, RefsStand,
     OutcomeStands DEF IInv
<1> QED
  BY <1>2, <1>3 DEF IInv

LEMMA MoveRefsKeeps == ASSUME IInv, MoveRefs PROVE IInv'
<1> USE DEF MoveRefs, made, chain, wvars, rvars, arms, verdict, Continue, Checked, Throw,
  Works, Fault, Running
<1>1. env' = env /\ Mine' = Mine /\ Mine \subseteq Arms
  BY Fixed
<1>2. TypeOK'
  BY <1>1, MarksAssumption DEF IInv, TypeOK, WTypeOK
<1>3. ChainInOrder' /\ PairInStep' /\ ArmsAreFilled' /\ DiskIsHandled' /\ ArmsAreKept'
      /\ ThreadsAreKnown' /\ OutcomeIsOfItsRun'
  BY ChainStands, PairStands, FillStands, DiskStands, ArmsStand, ThreadsStand,
     OutcomeStands DEF IInv
<1>4. RefsAreWatched'
  BY <1>1, Fixed, Shapes DEF IInv, RefsAreWatched, Finally, PairInStep, ArmsAreKept,
     ArmsAreFilled, AllReady, ArmsSettled, BeforeLaunch, BeforePair
<1> QED
  BY <1>2, <1>3, <1>4 DEF IInv

LEMMA TamperKeeps == ASSUME IInv, NEW a \in Arms, Tamper(a) PROVE IInv'
<1> USE DEF Tamper, made, chain, wvars, rvars, arms, verdict, Continue, Checked, Throw,
  Works, Fault, Running
<1>1. env' = env /\ Mine' = Mine /\ Mine \subseteq Arms
  BY Fixed
<1>2. TypeOK'
  <2>1. tampered' \in SUBSET Mine
    BY <1>1 DEF IInv, TypeOK, WTypeOK, PairInStep
  <2>2. UNCHANGED <<env, source, refs, snap, root, step, tree, handles, copied, deps,
                     shared, tail, waits, released, trouble, pc, abort, server, thread,
                     known, good, arm, forced, succeeded, committed, threw, errors, outcome>>
    OBVIOUS
  <2> HIDE DEF Tamper
  <2> QED
    BY <1>1, <2>1, <2>2 DEF IInv, TypeOK, WTypeOK
<1>3. ChainInOrder' /\ PairInStep' /\ ArmsAreFilled' /\ DiskIsHandled' /\ ArmsAreKept'
      /\ ThreadsAreKnown' /\ OutcomeIsOfItsRun'
  BY ChainStands, PairStands, FillStands, DiskStands, ArmsStand, ThreadsStand,
     OutcomeStands DEF IInv
<1>4. RefsAreWatched'
  BY <1>1, Fixed, Shapes DEF IInv, RefsAreWatched, Finally, PairInStep, ArmsAreKept,
     ArmsAreFilled, AllReady, ArmsSettled, BeforeLaunch, BeforePair
<1> QED
  BY <1>2, <1>3, <1>4 DEF IInv

-----------------------------------------------------------------------------
LEMMA InitIsInductive == Init => IInv
<1> SUFFICES ASSUME Init PROVE IInv
  OBVIOUS
<1>1. TypeOK
  <2>1. released \subseteq Ops /\ waits \in [Ops -> Ops \cup {None, Out}]
    BY DEF Init, WInit
  <2>2. trouble \in 0..MaxTrouble
    BY MarksAssumption DEF Init, WInit
  <2>3. snap \in [1..2 -> Versions \cup {None}] /\ source \in Versions
    BY DEF Init, WInit, Versions
  <2>4. copied \in [Arms -> [files : Versions \cup {None}, deps : Versions \cup {None}]]
    BY DEF Init, WInit
  <2>5. WTypeOK
    BY <2>1, <2>2, <2>3, <2>4 DEF Init, WInit, WTypeOK
  <2> QED
    BY <2>5 DEF Init, TypeOK
<1>2. ChainInOrder
  BY OpsOfArms DEF Init, WInit, ChainInOrder, Queued
<1>3. PairInStep /\ ArmsAreFilled /\ OutcomeIsOfItsRun
  BY Fixed DEF Init, WInit, PairInStep, ArmsAreFilled, OutcomeIsOfItsRun, BeforePair,
     BeforeLaunch,
     WithServer, Finally
<1>4. DiskIsHandled /\ ArmsAreKept
  BY Fixed DEF Init, WInit, DiskIsHandled, ArmsAreKept, BeforePair, BeforeLaunch, AfterRemoval
<1>5. ThreadsAreKnown /\ RefsAreWatched
  BY MarksAssumption DEF Init, WInit, ThreadsAreKnown, RefsAreWatched, BeforePair,
     BeforeLaunch,
     WithServer, Finally
<1> QED
  BY <1>1, <1>2, <1>3, <1>4, <1>5 DEF IInv

LEMMA NextKeeps == IInv /\ [Next]_vars => IInv'
<1> SUFFICES ASSUME IInv, [Next]_vars PROVE IInv'
  OBVIOUS
<1>1. CASE Create /\ UNCHANGED rvars
  BY <1>1, StartCreateKeeps, StartCreateFailsKeeps, AddWorktreeKeeps, AddFailsKeeps, InspectKeeps, InspectFailsKeeps,
     FillWorktreeKeeps, AskDependenciesKeeps, MaterializeKeeps, MaterializeFailsKeeps,
     ShareControlKeeps, UndoCreateKeeps, BuildDependenciesKeeps DEF Create
<1>5. CASE RecordStart \/ Query \/ Route \/ ResumeParent \/ RecordRoute \/ WriteArtifacts
  BY <1>5, AwaitsKeeps DEF RecordStart, Query, Route, ResumeParent, RecordRoute,
     WriteArtifacts
<1>2. CASE RunStep
  BY <1>1, <1>2, <1>5, StartKeeps, TakeSnapshotKeeps, ProfileKeeps, CreatePairKeeps,
     PairCreatedKeeps, ConnectKeeps, StartThreadsKeeps, LaunchArmsKeeps, ArmsEndKeeps, ContainKeeps,
     ContainedKeeps, StillLiveKeeps, CheckControlKeeps, ApplyKeeps, CompleteKeeps, DeleteThreadsKeeps,
     CloseServerKeeps, CleanupKeeps, RemoveWorktreesKeeps, ReportKeeps DEF RunStep
<1>3. CASE \E a \in Arms : EndTurn(a) \/ EndVerification(a) \/ Tamper(a)
  BY <1>3, EndTurnKeeps, EndVerificationKeeps, TamperKeeps
<1>4. CASE UNCHANGED vars
  <2>1. TypeOK'
    BY <1>4, Fixed DEF vars, wvars, rvars, IInv, TypeOK, WTypeOK
  <2>2. /\ ChainInOrder' /\ PairInStep' /\ ArmsAreFilled' /\ DiskIsHandled' /\ ArmsAreKept'
        /\ ThreadsAreKnown' /\ RefsAreWatched' /\ OutcomeIsOfItsRun'
    BY <1>4, ChainStands, PairStands, FillStands, DiskStands, ArmsStand, ThreadsStand,
       RefsStand,
       OutcomeStands DEF vars, wvars, rvars, IInv
  <2> QED
    BY <2>1, <2>2 DEF IInv
<1> QED
  BY <1>2, <1>3, <1>4, AbortKeeps, EditKeeps, MoveRefsKeeps, NextArmKeeps DEF Next

(* The whole argument in one formula: while an arm may run the run is waiting for it or
   keeps everything, so nothing is removed under it, and what is checked once the arms
   have settled stays checked. *)
THEOREM Inductive == Spec => []IInv
<1>1. Init => IInv
  BY InitIsInductive
<1>2. IInv /\ [Next]_vars => IInv'
  BY NextKeeps
<1> QED
  BY <1>1, <1>2, PTL DEF Spec

-----------------------------------------------------------------------------
(* A running arm has a registered worktree under a root that stands, whatever has become
   of the run, and one git worktree command runs at a time (WorktreeManager.cleanup and
   withRepositoryWorktreeMutation of worktree.ts, the containment of twin.ts). *)
THEOREM ArmsKeepTheirWorktrees == Spec => []NoWorktreeUnderAnArm
<1>1. ASSUME IInv PROVE NoWorktreeUnderAnArm
  <2>1. ASSUME NEW o \in Ops, NEW p \in Ops, Active(o), Active(p) PROVE o = p
    BY <1>1, <2>1, Shapes, MarksAssumption DEF IInv, ChainInOrder, Queued, Active
  <2>2. ASSUME NEW a \in Arms, Running(a) PROVE tree[a] = "registered" /\ root = "made"
    <3>1. arm[a] # "idle" /\ a \in Mine /\ ~ArmsSettled
      BY <1>1, <2>2 DEF IInv, PairInStep, Running, ArmsSettled
    <3> QED
      BY <1>1, <3>1 DEF IInv, ArmsAreKept
  <2> QED
    BY <1>1, <2>1, <2>2 DEF IInv, NoWorktreeUnderAnArm
<1> QED
  BY <1>1, Inductive, PTL

(* Arms are only made of a snapshot that the checkout was in when it was checked, and two
   that are ready hold the same files and dependencies (captureSnapshot, createPair and
   getDependencySnapshot). *)
THEOREM ArmsStartEqual == Spec => []ArmsAreFaithful
<1>1. IInv => ArmsAreFaithful
  <2> SUFFICES ASSUME IInv PROVE ArmsAreFaithful
    OBVIOUS
  <2>1. (\E a \in Mine : step[a] # "out") => snap[1] # None /\ snap[1] = snap[2]
    BY Fixed DEF IInv, PairInStep
  <2>2. ASSUME NEW a \in Mine, NEW b \in Mine, step[a] = "ready", step[b] = "ready"
        PROVE  copied[a] = copied[b]
    <3>1. /\ copied[a].files = copied[b].files /\ copied[a].deps = copied[b].deps
      BY <2>2 DEF IInv, ArmsAreFilled
    <3>2. /\ copied[a] \in [files : Versions \cup {None}, deps : Versions \cup {None}]
          /\ copied[b] \in [files : Versions \cup {None}, deps : Versions \cup {None}]
      BY Promises, Fixed
    <3> QED
      BY <3>1, <3>2
  <2> QED
    BY <2>1, <2>2 DEF ArmsAreFaithful
<1> QED
  BY <1>1, Inductive, PTL

(* At the end every thread whose id the run was told is deleted, or its deletion failed, or
   its server was closed on running arms; one whose call failed although it was opened is
   left by a run that failed before any arm; and every worktree git knows was meant to
   stay or could not go (the finally blocks of single.ts and twin.ts,
   WorktreeManager.cleanup). *)
THEOREM CleanupIsComplete == Spec => []NothingIsLeaked
<1>1. IInv => NothingIsLeaked
  BY DEF IInv, NothingIsLeaked, DiskIsHandled, ThreadsAreKnown, AfterRemoval, Finally
<1> QED
  BY <1>1, Inductive, PTL

(* A result stands on control state no agent moved, and moved refs are moved back unless
   that failed or everything is kept (assertExperimentControlState and cleanup). *)
THEOREM TamperingIsFound == Spec => []TamperingIsUndone
<1>1. IInv => TamperingIsUndone
  <2> SUFFICES ASSUME IInv PROVE TamperingIsUndone
    OBVIOUS
  <2>1. outcome = "result" => pc = "done" /\ ~threw
    BY OutcomeAssumption DEF IInv, OutcomeIsOfItsRun, Finally, Reported
  <2> QED
    BY <2>1 DEF IInv, TamperingIsUndone, RefsAreWatched, Finally
<1> QED
  BY <1>1, Inductive, PTL

(* A commit is always reported as a result, a failed run never is, and a twin reports its
   first error (the ends of SingleRunner.run and TwinRunner.run). *)
THEOREM OutcomesAreTrue == Spec => []OutcomeIsFaithful
<1>1. IInv => OutcomeIsFaithful
  BY DEF IInv, OutcomeIsFaithful, OutcomeIsOfItsRun, Finally, Reported, Twin
<1> QED
  BY <1>1, Inductive, PTL

=============================================================================
