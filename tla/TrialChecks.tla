----------------------------- MODULE TrialChecks -----------------------------
(***************************************************************************)
(* The pure part of src/scripts/experiment-2x2.mjs: what makes a schedule  *)
(* and a recorded trial valid, the automatic checks of paired Codex arms,  *)
(* and when the analysis may claim a token saving.                         *)
(*                                                                         *)
(* A trial keeps of its record what these rules read.  Hashes stand for    *)
(* the thing hashed; catalog stands for every runtime parity field.        *)
(***************************************************************************)
EXTENDS Integers, FiniteSets, FiniteSetsExt

CONSTANTS
  Assignments,         \* assignmentIds
  Schedule,            \* of each: block, order, host surface, Counterlane on
  Surfaces,            \* protocol.hostSurfaces
  Catalogs,            \* runtime identities a Codex arm may find
  Quotas,              \* used percentages a Codex arm may find
  QuotaTolerance,      \* maxQuotaUsedPercentDelta
  RequireBothVerified, \* requireBothVerifiedForTokenSavingsClaim
  SavingsThreshold     \* practicalTokenSavingsThresholdPct

Block(a) == Schedule[a].block
Order(a) == Schedule[a].order
IsCodex(a) == Schedule[a].surface = "codex"
IsOn(a) == Schedule[a].on

Cells == [surface : Surfaces, on : BOOLEAN]

Cell(a) == [surface |-> Schedule[a].surface, on |-> Schedule[a].on]

OfBlock(b) == {a \in Assignments : Block(a) = b}

ValidSchedule ==
  \A b \in {Block(a) : a \in Assignments} :
    /\ {Order(a) : a \in OfBlock(b)} = 1..Cardinality(Cells)
    /\ {Cell(a) : a \in OfBlock(b)} = Cells
    /\ Cardinality(OfBlock(b)) = Cardinality(Cells)

ASSUME ExperimentAssumption ==
  /\ IsFiniteSet(Assignments) /\ Assignments # {}
  /\ Surfaces \in {{"codex"}, {"codex", "chatgpt-work"}}
  /\ Schedule \in [Assignments -> [block : {Block(a) : a \in Assignments},
                                   order : Nat, surface : Surfaces, on : BOOLEAN]]
  /\ ValidSchedule
  /\ Quotas \subseteq Nat /\ QuotaTolerance \in Nat
  /\ RequireBothVerified \in BOOLEAN /\ SavingsThreshold \in Nat

NoCost == -1
Unavailable == "unavailable"

Mismatches == {"missing-selection", "model-effort", "service-tier-speed", "topology-proof"}

RouteProblems == Mismatches \cup {"static-policy", "inadmissible"}

Codes == {"model-reroute", "service-tier-drift", "quota-interference", "other",
          "treatment-noncompliance"}

-----------------------------------------------------------------------------
(* deriveCodexTreatmentState: what the arm's own output says of it.  The route is the
   first effective policy in the output of an ON arm, and none for OFF. *)
TreatmentCodes(a, run) ==
  (IF run.exit = "unspawned" \/ (IsOn(a) /\ run.route = Unavailable)
     THEN {"treatment-noncompliance"} ELSE {})
    \cup (IF run.rerouted THEN {"model-reroute"} ELSE {})

RouteStatus(a, run) ==
  CASE ~IsCodex(a) -> Unavailable
    [] IsCodex(a) /\ ~IsOn(a) -> "not-applicable"
    [] OTHER -> run.route

(* compareEffectiveRoute: the problems of a verified ON route, by contamination code. *)
RouteIssues(t) ==
  IF ~IsOn(t.id) \/ t.route # "verified" THEN {}
  ELSE LET bad == t.problems \cap Mismatches
           named == {"model-effort", "service-tier-speed"}
       IN  (IF t.problems \cap {"static-policy", "inadmissible"} # {}
              THEN {"treatment-noncompliance"} ELSE {})
           \cup (IF "model-effort" \in bad THEN {"model-reroute"} ELSE {})
           \cup (IF "service-tier-speed" \in bad THEN {"service-tier-drift"} ELSE {})
           \cup (IF bad # {} /\ bad \cap named = {}
                   THEN {"treatment-noncompliance"} ELSE {})

BackendRouteIssues(t) == IF t.rerouted THEN {"model-reroute"} ELSE {}

ArmIssues(t) == RouteIssues(t) \cup BackendRouteIssues(t)

ArmChecked(t) ==
  IF ~IsCodex(t.id) \/ ArmIssues(t) = {} THEN t
  ELSE [t EXCEPT !.contamination = @ \cup ArmIssues(t), !.compliance = "noncompliant"]

Distance(m, n) == IF m < n THEN n - m ELSE m - n

(* compareQuotaSnapshots: both Codex arms hold a verified snapshot. *)
QuotaDrifts(off, on) == Distance(off.quota, on.quota) > QuotaTolerance

(* The two Codex arms, OFF and ON, of each block that has both. *)
Pairs(trials) ==
  {pair \in trials \X trials :
     /\ \A i \in 1..2 : IsCodex(pair[i].id) /\ IsOn(pair[i].id) = (i = 2)
     /\ Block(pair[1].id) = Block(pair[2].id)}

Later(pair) == IF Order(pair[1].id) > Order(pair[2].id) THEN pair[1] ELSE pair[2]

DriftIsHeldAgainst(t, trials) ==
  \E pair \in Pairs(trials) : QuotaDrifts(pair[1], pair[2]) /\ Later(pair) = t

(* deriveAutomaticCodexChecks: the trials as the checks amend them ... *)
AutomaticallyChecked(trials) ==
  {LET c == ArmChecked(t)
   IN  IF DriftIsHeldAgainst(t, trials)
         THEN [c EXCEPT !.contamination = @ \cup {"quota-interference"}] ELSE c : t \in trials}

(* ... and what they say of a pair. *)
PairContaminated(pair) == QuotaDrifts(pair[1], pair[2]) \/ ArmIssues(pair[2]) # {}

PairNoncompliant(pair) ==
  \/ ArmIssues(pair[2]) # {}
  \/ \E i \in 1..2 : ArmChecked(pair[i]).compliance = "noncompliant"

-----------------------------------------------------------------------------
RouteIsHonest(t) ==
  (IsCodex(t.id) /\ IsOn(t.id) /\ t.route # "verified")
    => t.compliance = "noncompliant" /\ "treatment-noncompliance" \in t.contamination

ValidTrialRecord(t) ==
  /\ t.verified = (t.completed /\ t.visible /\ t.hidden)
  /\ t.bad = (t.completed /\ t.visible /\ ~t.hidden)
  /\ t.contamination \subseteq Codes
  /\ RouteIsHonest(t)

CrossArmRuntimeParity(trials) ==
  \A s, t \in trials :
    (Block(s.id) = Block(t.id) /\ IsCodex(s.id) = IsCodex(t.id)) => s.catalog = t.catalog

(* assertAssignmentReady *)
EarlierInBlock(a) == {e \in OfBlock(Block(a)) : Order(e) < Order(a)}

AssignmentReady(trials, a) ==
  LET done == {t.id : t \in trials} IN a \notin done /\ EarlierInBlock(a) \subseteq done

-----------------------------------------------------------------------------
(* analyzeTrials and compareCommonCost over a complete ledger. *)
InCell(trials, surface, on) ==
  {t \in trials : Schedule[t.id].surface = surface /\ IsOn(t.id) = on}

TotalCost(trials) == MapThenSumSet(LAMBDA t : t.cost, trials)

(* Only the ON arm has to succeed. *)
OnArmVerified(off, on) == RequireBothVerified => \A t \in on : t.verified

VerificationEligible(off, on) == RequireBothVerified => \A t \in off \cup on : t.verified

ClaimEligible(recorded, surface) ==
  LET off == InCell(recorded, surface, FALSE)
      on == InCell(recorded, surface, TRUE)
      pairs == IF surface = "codex" THEN Pairs(recorded) ELSE {}
  IN  /\ \A t \in off \cup on : t.cost # NoCost
      /\ VerificationEligible(off, on)
      /\ \A t \in on : t.route = "verified"
      /\ \A t \in AutomaticallyChecked(recorded) : Schedule[t.id].surface = surface =>
           t.contamination = {} /\ t.compliance # "noncompliant"
      /\ \A pair \in pairs : ~PairContaminated(pair) /\ ~PairNoncompliant(pair)
      /\ TotalCost(off) > 0
      /\ (TotalCost(off) - TotalCost(on)) * 100 >= SavingsThreshold * TotalCost(off)

CompleteTrials(trials) == {t.id : t \in trials} = Assignments
=============================================================================
