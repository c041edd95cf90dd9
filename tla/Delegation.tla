----------------------------- MODULE Delegation -----------------------------
(* From a request to a delegated turn.  "execute" is the product tool: preflight, frozen
   verifier plan and envelope, then the bounded controller with at most two attempts.
   "auto" is the meta runner: plan, one nested run (static, auto or twin), one refresh when
   the plan was invalidated.  Both hand a policy to a run that reads the world again and
   refuses what no longer stands.  The checkout, the catalog, the quota and the learned
   evidence are versions of the environment that may move between any two reads. *)
EXTENDS Routing

CONSTANTS Environments, MaxDrift, MaxTrouble

Features == {"risk", "depth", "ambiguity", "novelty", "breadth", "parallelizability",
             "verifiability", "mechanicalness", "destructive", "latency"}

(* Every source has a first version.  What routing knows of a task is read from the prompt
   and the profile, so two checkouts of one profile have the same features. *)
ASSUME EnvironmentAssumption ==
  /\ MaxDrift \in Nat /\ MaxTrouble \in Nat
  /\ None \notin {"execute", "static", "auto", "twin", "abstain", "configuration_required", "verified",
                 "failed"}
  /\ \A e \in Environments :
       /\ e.path \in {"execute", "auto"}
       /\ {Len(e.repos), Len(e.catalogs), Len(e.quotas), Len(e.evidence)} \subseteq Nat \ {0}
       /\ \A v, w \in 1..Len(e.repos) :
            /\ e.repos[v].features \in [Features -> Int]
            /\ e.repos[v].profile = e.repos[w].profile => e.repos[v].features = e.repos[w].features

(* What the schema and the catalog parser let through: a want and a configuration have all
   their fields, their tiers are the four, and the entries of one model id are of one family
   (modelFamily matches its names).  No source calls an effort or a speed "auto", which
   normalizeConstraints reads as nothing asked. *)
ASSUME RoutingAssumption ==
  /\ None \notin {"single", "ultra", "auto", "off", "fast"} \cup Range(Tiers)
  /\ \A e \in Environments :
       LET Entries == UNION {Range(e.catalogs[v]) : v \in 1..Len(e.catalogs)}
           c == e.config
       IN  /\ e.want = [f \in DOMAIN Anything |-> e.want[f]]
           /\ c = [f \in DOMAIN Defaults |-> c[f]]
           /\ c.tiers \cup {c.defaultTier} \cup Range(c.tierByRisk) \subseteq Range(Tiers)
           /\ DOMAIN c.tierByRisk = {"normal", "elevated", "critical"}
           /\ {None, "auto"} \cap {c.static.speed, c.defaultSpeed} = {}
           /\ \A v \in 1..Len(e.catalogs) : e.catalogs[v] \in Seq(Entries)
           /\ c.candidateEfforts \in Seq(Range(c.candidateEfforts))
           /\ \A m \in Entries :
                /\ m.id # None /\ m.family \in DOMAIN Capability
                /\ {None, "auto"} \cap (m.efforts \cup {m.defaultEffort}) = {}
                /\ \A n \in Entries : n.id = m.id => n.family = m.family

(* Weights, thresholds, usages and deadlines are numbers, as schema and parsers see to. *)
Numeric(c) ==
  /\ c.profile \in DOMAIN ProfileCost
  /\ {c.baselineMs, c.p90, c.creditsPerWeight, c.reserve, c.weight.cost, c.weight.latency,
      c.weight.quota, c.weight.failure, c.weight.uncertainty} \subseteq Int
  /\ c.familyWeight \in [DOMAIN Capability -> Int]
  /\ {c.proofCost, c.boost, c.floor} \subseteq [Range(Tiers) -> Int]
  /\ c.minimumQuality \in [{"normal", "elevated", "critical"} -> Int]
  /\ \A s \in DOMAIN c.speed : {c.speed[s].cost, c.speed[s].latency} \subseteq Int

ASSUME NumbersAssumption ==
  \A e \in Environments :
    /\ Numeric(e.config)
    /\ \A v \in 1..Len(e.quotas) : \A w \in e.quotas[v] : {w.used, w.elapsed} \subseteq Int
    /\ e.want.deadline \in {None} \cup (Nat \ {0})

(* What the router relies on and nothing checks: the server lists a model once, and its
   default effort among its efforts.  The configured speeds have names too. *)
ASSUME CatalogAssumption ==
  \A e \in Environments :
    /\ e.config.speeds \in Seq(Range(e.config.speeds))
    /\ {None, "auto"} \cap Range(e.config.speeds) = {}
    /\ \A v \in 1..Len(e.catalogs) :
         LET shown == e.catalogs[v]
         IN  /\ \A i, j \in DOMAIN shown : shown[i].id = shown[j].id => i = j
             /\ \A m \in Range(shown) : m.efforts = {} \/ m.defaultEffort \in m.efforts

VARIABLES
  env,       \* the request and the versions of its surroundings
  world,     \* the version of each that holds now
  pc,
  action,    \* "execute", or what the meta-controller decided
  round,     \* the attempt of the controller, the plan of the meta runner
  plan,      \* the versions that preflight (or the plan) read
  frozen,    \* the checkout the verifier plan was frozen from
  read,      \* the versions the present run read
  turns,     \* what was sent to the App Server
  applied, report, trouble

vars == <<env, world, pc, action, round, plan, frozen, read, turns, applied, report, trouble>>

Sources == {"repo", "catalog", "quota", "evidence"}
NoView == [profile |-> 0, caps |-> 0, catalog |-> 0, quota |-> 0, evidence |-> 0]

Product == env.path = "execute"

(* secureMcpConfig: a delegated task needs a check of its own. *)
Config == [env.config EXCEPT !.taskSpecific = @ \/ Product]

(* constraintsFromArgs: the product always carries a speed mode. *)
Want == [env.want EXCEPT !.speedMode = IF Product /\ @ = None THEN "auto" ELSE @]

Commands(version) == env.repos[version].commands
TiersOf(view) == AvailableTiers(Config, Commands(view.caps))
QuotaOf(view) == DeriveQuota(env.quotas[view.quota], Config.reserve)
Learned(view) == IF view.evidence = 0 THEN {} ELSE env.evidence[view.evidence].history

Route(view, history, want) ==
  Decide([config |-> Config, features |-> env.repos[view.profile].features,
          catalog |-> env.catalogs[view.catalog], quota |-> QuotaOf(view),
          tiers |-> TiersOf(view), history |-> history, want |-> want])

Static(view) == StaticPolicy(Config, env.catalogs[view.catalog], TiersOf(view))
Shown(view) == Visible(env.catalogs[view.catalog]) # {}

-----------------------------------------------------------------------------
(* prepareMetaPlan and MetaController.decide *)
Pinned(policy) ==
  [Anything EXCEPT !.modelId = policy.model, !.effort = policy.effort, !.speedId = policy.speed,
                   !.topology = policy.topology, !.tier = policy.tier]

StaticDecision(view) == Route(view, Learned(view), Pinned(Static(view)))

(* The plan is refused where no route matches, the catalog is empty, or the static route
   fails otherwise than at the gates. *)
Plannable(view) ==
  /\ Route(view, Learned(view), Want).why = "decided"
  /\ Shown(view)
  /\ StaticDecision(view).why \in {"decided", "gates"}

TwinAllowed(quota, c) ==
  /\ quota.known /\ ~quota.exhausted
  /\ quota.pressure <= c.twinPressure /\ quota.used <= c.twinUse

MetaDecision(view) ==
  LET d == Route(view, Learned(view), Want)
      c == Config  chosen == d.selected  quota == QuotaOf(view)  e == env.evidence[view.evidence]
      incumbent == Static(view)
      strength == Max({env.repos[view.profile].strength, chosen.detection})
      enough == e.samples >= (IF e.exact THEN c.exactSamples ELSE c.fallbackSamples)
      pairCost == Mul(Mul(CostWeight(c, incumbent) + CostWeight(c, chosen.route), c.twinCost),
                      1000 + quota.pressure)
  IN  IF ~Admissible(chosen) THEN "abstain"
      ELSE IF ~c.metaEnabled THEN "auto"
      ELSE IF IsCritical(d.features) /\ strength < c.criticalVerifier THEN "abstain"
      ELSE IF ~Executable(StaticDecision(view)) THEN "auto"
      ELSE IF RouteKey(chosen.route) = RouteKey(incumbent) THEN "static"
      ELSE IF enough /\ e.lower > c.margin THEN "auto"
      ELSE IF enough /\ e.upper < -c.margin THEN "static"
      ELSE IF /\ TwinAllowed(quota, c) /\ e.samples < c.maximumTwins
              /\ e.value > pairCost THEN "twin"
      ELSE "static"

(* After an invalidated plan no twin is started. *)
Demoted(decision, view) ==
  IF decision # "twin" THEN decision
  ELSE IF Executable(StaticDecision(view)) THEN "static" ELSE "auto"

-----------------------------------------------------------------------------
(* The product's frozen plan and envelope *)
Preflight(view) == Route(view, {}, Want)

AnyTaskSpecific(view) == \E c \in Commands(view.caps) : c.taskSpecific

(* freezeVerificationPlan reads the checkout once more; only a host's command that treats
   the candidate as data certifies. *)
Certifying(version, tier) ==
  LET selected == CommandsFor(Commands(version), tier)
  IN  /\ selected # {} /\ tier \in AvailableTiers(Config, Commands(version))
      /\ env.host /\ \E c \in selected : c.taskSpecific /\ c.certifies

(* What the envelope knows of the quota: not the pressure, which moves with the clock. *)
QuotaSeen(view) == [QuotaOf(view) EXCEPT !.pressure = 0]

Envelope(view, decision) ==
  [source |-> env.repos[view.profile].profile, catalog |-> Range(env.catalogs[view.catalog]),
   quota |-> QuotaSeen(view),
   graph |-> decision.graph, selected |-> RouteKey(decision.selected.route)]

EnvelopeStands ==
  LET now == Preflight(read)
  IN  now.why = "decided" /\ Envelope(read, now) = Envelope(plan, Preflight(plan))

-----------------------------------------------------------------------------
(* What a run executes, and whether it still stands *)
PreflightRoute == Preflight(plan).selected.route
Treatment == Route(plan, Learned(plan), Want).selected.route

Policies ==
  CASE action = "execute" -> <<IF round = 1 THEN PreflightRoute
                               ELSE StrictSuccessor(Preflight(plan), PreflightRoute)>>
    [] action = "static"  -> <<Static(plan)>>
    [] action = "auto"    -> <<Treatment>>
    [] OTHER              -> <<Static(plan), Treatment>>

ControlStands(policy) ==
  /\ policy.tier \in TiersOf(read)
  /\ Shown(read)
  /\ RouteKey(Static(read)) = RouteKey(policy) /\ Static(read).family = policy.family
  /\ Executable(Route(read, Learned(read), Pinned(policy)))

TreatmentStandsFor(policy, want) ==
  LET now == Route(read, Learned(read), want)
  IN  Executable(now) /\ now.selected.route.speed = policy.speed

(* A speed mode is a permission: the raw speed is compared, never asked for beside it. *)
AskAgainWithRawSpeed(policy) ==
  [Want EXCEPT !.modelId = policy.model, !.effort = policy.effort, !.topology = policy.topology,
               !.tier = policy.tier, !.speedId = policy.speed]
AskAgain(policy) ==
  [Want EXCEPT !.modelId = policy.model, !.effort = policy.effort, !.topology = policy.topology,
               !.tier = policy.tier,
               !.speedId = IF Want.speedMode = None THEN policy.speed ELSE @]

TreatmentStandsUnread(policy) == TRUE
TreatmentStands(policy) == TreatmentStandsFor(policy, AskAgain(policy))

PoliciesStand ==
  /\ Shown(read)
  /\ action = "twin" => Route(read, Learned(read), Want).why = "decided"
  /\ IF action = "static" THEN ControlStands(Policies[1])
     ELSE IF action = "twin" THEN ControlStands(Policies[1]) /\ TreatmentStands(Policies[2])
     ELSE TreatmentStands(Policies[1])

EvidenceStands == env.evidence[read.evidence] = env.evidence[plan.evidence]

(* What makes the meta runner plan again.  (The context key a twin also compares is made of
   the profile and of the two routes that stand, and cannot differ.) *)
Invalidated ==
  CASE action = "execute" -> ~EnvelopeStands
    [] action = "twin"    -> ~TwinAllowed(QuotaOf(read), Config) \/ ~EvidenceStands
    [] OTHER              -> ~EvidenceStands

-----------------------------------------------------------------------------
Init ==
  /\ env \in Environments
  /\ world = [s \in Sources |-> 1]
  /\ pc = "begin" /\ action = None /\ round = 1
  /\ plan = NoView /\ frozen = 0 /\ read = NoView
  /\ turns = <<>> /\ applied = FALSE /\ report = None /\ trouble = 0

Versions(s) ==
  CASE s = "repo" -> Len(env.repos) [] s = "catalog" -> Len(env.catalogs)
    [] s = "quota" -> Len(env.quotas) [] OTHER -> Len(env.evidence)

Drifted == world.repo + world.catalog + world.quota + world.evidence - 4

(* The user edits, the catalog or the quota moves, another run (or this one) is recorded. *)
Drift(s) ==
  /\ pc # "end" /\ Drifted < MaxDrift /\ world[s] < Versions(s)
  /\ world' = [world EXCEPT ![s] = @ + 1]
  /\ UNCHANGED <<env, pc, action, round, plan, frozen, read, turns, applied, report, trouble>>

Goto(to) == pc' = to /\ UNCHANGED report
Answer(what) == pc' = "end" /\ report' = what

(* A connection, a query or a write that fails throws out of the whole request. *)
Fails(what) ==
  /\ trouble < MaxTrouble /\ trouble' = trouble + 1
  /\ Answer(what)

Begin ==
  /\ pc = "begin"
  /\ IF Product /\ env.want.speedId # None THEN Answer("error") ELSE Goto("discover")
  /\ UNCHANGED <<env, world, action, round, plan, frozen, read, turns, applied, trouble>>

(* The queries of a plan run together; the checkout is read by two of them. *)
Discover ==
  /\ pc = "discover"
  /\ plan' = [profile |-> world.repo, caps |-> 0, catalog |-> world.catalog,
              quota |-> world.quota, evidence |-> IF Product THEN 0 ELSE world.evidence]
  /\ \/ Goto("inspect") /\ UNCHANGED trouble
     \/ Fails("error")
  /\ UNCHANGED <<env, world, action, round, frozen, read, turns, applied>>

Inspected == [plan EXCEPT !.caps = world.repo]

InspectProduct ==
  /\ pc = "inspect" /\ Product
  /\ plan' = Inspected /\ action' = "execute"
  /\ IF ~AnyTaskSpecific(Inspected) THEN Answer("configuration_required")
     ELSE IF Preflight(Inspected).why # "decided" THEN Answer("abstain")
     ELSE Goto("freeze")
  /\ UNCHANGED <<env, world, round, frozen, read, turns, applied, trouble>>

(* The order of the refusals is the code's; a journal with an open record refuses last. *)
Freeze ==
  /\ pc = "freeze"
  /\ frozen' = world.repo
  /\ LET d == Preflight(plan)
     IN  IF ~Certifying(world.repo, d.selected.route.tier) THEN Answer("configuration_required")
         ELSE IF d.features.risk >= 500 \/ ~Admissible(d.selected) THEN Answer("abstain")
         ELSE IF env.preflightOnly THEN Answer("ready")
         ELSE IF env.pending THEN Goto("receipts")
         ELSE Goto("snapshot")
  /\ UNCHANGED <<env, world, action, round, plan, read, turns, applied, trouble>>

(* MetaExecutionRunner.run up to its nested run; the second time for a refreshed plan.  The
   pending artifact and the telemetry event come first and may fail. *)
InspectMeta ==
  /\ pc = "inspect" /\ ~Product
  /\ plan' = Inspected
  /\ IF ~Plannable(Inspected) THEN Answer("error") /\ UNCHANGED <<action, trouble>>
     ELSE LET decision == MetaDecision(Inspected)
              decided == IF round = 1 THEN decision ELSE Demoted(decision, Inspected)
          IN  \/ /\ action' = decided
                 /\ Goto(IF decided = "abstain" THEN "finish" ELSE "snapshot")
                 /\ UNCHANGED trouble
              \/ Fails("error") /\ UNCHANGED action
  /\ UNCHANGED <<env, world, round, frozen, read, turns, applied>>

-----------------------------------------------------------------------------
(* A run that did not send: the controller settles the attempt, the meta runner throws. *)
NotSent == IF Product THEN Goto("receipts") ELSE Answer("error")

(* An invalidated plan is made again once. *)
RetryStale ==
  IF Product THEN NotSent /\ UNCHANGED round ELSE Goto("snapshot") /\ UNCHANGED round
Refresh ==
  IF Product THEN NotSent /\ UNCHANGED round
  ELSE IF round = 1 THEN Goto("discover") /\ round' = 2
  ELSE Answer("error") /\ UNCHANGED round

(* captureSnapshot, from which the worktree is made *)
Snapshot ==
  /\ pc = "snapshot"
  /\ read' = [NoView EXCEPT !.caps = world.repo]
  /\ Goto("profile")
  /\ UNCHANGED <<env, world, action, round, plan, frozen, turns, applied, trouble>>

(* A twin takes the snapshot and the profile at once: each is of either end of the window.  The
   profile of a product run is compared with its envelope. *)
Windows ==
  IF action = "twin" THEN {read.caps, world.repo} \X {read.caps, world.repo}
  ELSE {<<read.caps, world.repo>>}

Profile ==
  /\ pc = "profile"
  /\ \E w \in Windows :
       /\ read' = [read EXCEPT !.caps = w[1], !.profile = w[2]]
       /\ IF ~Product /\ env.repos[w[2]].profile # env.repos[plan.profile].profile THEN Refresh
          ELSE Goto("query") /\ UNCHANGED round
  /\ UNCHANGED <<env, world, action, plan, frozen, turns, applied, trouble>>

(* Discovery of the run, its envelope and evidence checks, and the policies revalidated.
   Learned outcomes count here even for the product. *)
Query ==
  /\ pc = "query"
  /\ read' = [read EXCEPT !.catalog = world.catalog, !.quota = world.quota,
                          !.evidence = world.evidence]
  /\ Goto("check")
  /\ UNCHANGED <<env, world, action, round, plan, frozen, turns, applied, trouble>>

Check ==
  /\ pc = "check"
  /\ \/ /\ IF Invalidated THEN Refresh
           ELSE /\ IF PoliciesStand THEN Goto("send") ELSE NotSent
                /\ UNCHANGED round
        /\ UNCHANGED trouble
     \/ trouble < MaxTrouble /\ trouble' = trouble + 1 /\ NotSent /\ UNCHANGED round
  /\ UNCHANGED <<env, world, action, plan, frozen, read, turns, applied>>

(* The frozen verifier's assets must be what the worktree holds. *)
Intact == ~Product \/ env.repos[read.caps].assets = env.repos[frozen].assets

Send ==
  /\ pc = "send"
  /\ IF Intact
       THEN /\ turns' = Append(turns, [round |-> round, routes |-> Policies, plan |-> plan, read |-> read])
            /\ Goto("turn")
       ELSE turns' = turns /\ NotSent
  /\ UNCHANGED <<env, world, action, round, plan, frozen, read, applied, trouble>>

-----------------------------------------------------------------------------
(* classifyAttempt, and the successor a defective candidate earns *)
Successor == StrictSuccessor(Preflight(plan), PreflightRoute)

Settle(outcome) ==
  IF outcome = "defect" /\ round = 1 /\ Successor # None
    THEN Goto("snapshot") /\ round' = 2
    ELSE /\ pc' = "receipts" /\ UNCHANGED round
         /\ report' = IF outcome = "defect" THEN "failed" ELSE outcome

(* A verifier plan of another tier throws and leaves the candidate unverified. *)
Outcome(outcome) ==
  IF Product /\ Policies[1].tier # PreflightRoute.tier THEN "failed" ELSE outcome

(* A result that is lost after the send is never taken for a result. *)
Unsettled ==
  /\ UNCHANGED round
  /\ IF Product THEN pc' = "receipts" /\ report' = "reconciliation_required" ELSE Answer("error")

(* The turn ends in some way; then the checkout is compared with the snapshot, and what was
   sent for a checkout that moved is never certified. *)
UnmovedUnchecked == TRUE
Unmoved == env.repos[world.repo] = env.repos[read.caps]

TurnEnds(outcome) ==
  /\ pc = "turn"
  /\ IF ~Unmoved THEN Unsettled
     ELSE IF Product THEN Settle(Outcome(outcome))
     ELSE /\ UNCHANGED round
          /\ report' = outcome
          /\ pc' = IF outcome = "verified" /\ env.apply THEN "apply" ELSE "finish"
  /\ UNCHANGED <<env, world, action, plan, frozen, read, turns, applied, trouble>>

(* The control state or an artifact of the run fails after the turn. *)
ResultLost ==
  /\ pc = "turn"
  /\ trouble < MaxTrouble /\ trouble' = trouble + 1
  /\ Unsettled
  /\ UNCHANGED <<env, world, action, plan, frozen, read, turns, applied>>

(* The apply transaction and the result it records; rolled back, it throws. *)
Apply ==
  /\ pc = "apply"
  /\ \/ applied' = TRUE /\ Goto("finish") /\ UNCHANGED trouble
     \/ Fails("error") /\ UNCHANGED applied
  /\ UNCHANGED <<env, world, action, round, plan, frozen, read, turns>>

(* The decision artifact; a failed write is only a warning once the result is applied. *)
ArtifactLostThrows == Answer("error")
ArtifactLost == IF applied THEN Answer(report) ELSE Answer("error")

Finish ==
  /\ pc = "finish"
  /\ \/ Answer(IF report = None THEN "abstain" ELSE report) /\ UNCHANGED trouble
     \/ trouble < MaxTrouble /\ trouble' = trouble + 1 /\ ArtifactLost
  /\ UNCHANGED <<env, world, action, round, plan, frozen, read, turns, applied>>

(* persistProductReceipts *)
Receipts ==
  /\ pc = "receipts"
  /\ \/ /\ Answer(IF report # None THEN report
                  ELSE IF env.pending THEN "reconciliation_required" ELSE "failed")
        /\ UNCHANGED trouble
     \/ Fails("error")
  /\ UNCHANGED <<env, world, action, round, plan, frozen, read, turns, applied>>

Outcomes == {"verified", "defect", "failed", "cancelled"}

Step ==
  \/ Begin \/ Discover \/ InspectProduct \/ InspectMeta \/ Freeze
  \/ Snapshot \/ Profile \/ Query \/ Check \/ Send
  \/ \E o \in Outcomes : TurnEnds(o)
  \/ ResultLost \/ Apply \/ Finish \/ Receipts

Done == pc = "end" /\ UNCHANGED vars

Next == Step \/ (\E s \in Sources : Drift(s)) \/ Done

Stages == {"begin", "discover", "inspect", "freeze", "snapshot", "profile", "query", "check",
           "send", "turn", "apply", "finish", "receipts", "end"}

(* Every await returns: a stage is left in the end.  Of the steps only Drift keeps the stage,
   and a stage that no step leaves is a deadlock of Next once the world has stopped moving. *)
Leaves == pc # "end" /\ pc' \in Stages
Spec == Init /\ [][Next]_vars
FairSpec == Spec /\ WF_pc(Leaves)

-----------------------------------------------------------------------------
TypeOK ==
  /\ env \in Environments /\ \A s \in Sources : world[s] \in 1..Versions(s)
  /\ pc \in Stages
  /\ action \in {None, "execute", "static", "auto", "twin", "abstain"} /\ round \in 1..2
  /\ report \in {None, "error", "configuration_required", "abstain", "ready", "verified",
                 "defect", "failed", "cancelled", "reconciliation_required"}
  /\ applied \in BOOLEAN /\ trouble \in 0..MaxTrouble

(* What was found ready is what runs: in a world that does not move, with nothing learned
   that preflight leaves out and nothing going wrong, the run that reads everything again
   agrees with the plan and sends (mcp/tools.ts executePreflight against
   single.ts and policy.ts revalidateTreatmentPolicy, which must not ask for the speed
   twice). *)
Undisturbed == Drifted = 0 /\ trouble = 0 /\ env.evidence[1].history = {}
Planned ==
  /\ action \notin {None, "abstain"}
  /\ Product => /\ frozen # 0 /\ ~env.preflightOnly /\ ~env.pending
                /\ report \notin {"configuration_required", "abstain"}
ReadyExecutes == Undisturbed /\ Planned /\ pc = "end" => turns # <<>>

(* Every turn sent is one that its own reads of the quota and of the checkout allow, and a
   product turn runs under a certifying plan whose assets the worktree holds, on the
   profile, catalog and quota of its preflight.  A second product turn is stronger in model,
   effort or topology, weaker in none, at the same speed and no less proof. *)
AllowedBy(view, r) ==
  LET quota == QuotaOf(view)  f == env.repos[view.profile].features
  IN  /\ ~QuotaExhausted(quota) /\ r.tier \in TiersOf(view)
      /\ r.effort = "max" => ~Barred(quota, Config.maxUse)
      /\ r.topology = "ultra" => Config.enableUltra /\ ~Barred(quota, Config.ultraUse)
      /\ SpeedProfile(Config, r.speed).premium => ~Barred(quota, Config.premiumUse - 1)
      /\ IsCritical(f) => r.family = "sol" /\ TierRank(r.tier) >= TierRank(RequiredProofTier(Config, f))

Contracted(t) ==
  /\ env.host /\ env.repos[t.read.profile].features.risk < 500
  /\ Certifying(frozen, PreflightRoute.tier)
  /\ env.repos[frozen].assets = env.repos[t.read.caps].assets
  /\ env.repos[t.plan.profile].profile = env.repos[t.read.profile].profile
  /\ Range(env.catalogs[t.plan.catalog]) = Range(env.catalogs[t.read.catalog])
  /\ QuotaSeen(t.plan) = QuotaSeen(t.read)

FamilyRank(family) == Rank(<<"unknown", "luna", "terra", "sol">>, family)
Power(r) == <<FamilyRank(r.family), EffortRank(r.effort), IF r.topology = "ultra" THEN 1 ELSE 0>>

Stronger(a, b) ==
  /\ \A i \in 1..3 : Power(a)[i] >= Power(b)[i]
  /\ Power(a) # Power(b) /\ a.speed = b.speed /\ TierRank(a.tier) >= TierRank(b.tier)

SpendIsAuthorized ==
  \A i \in DOMAIN turns :
    /\ \A j \in DOMAIN turns[i].routes : AllowedBy(turns[i].read, turns[i].routes[j])
    /\ Product => Contracted(turns[i])
    /\ Product /\ i = 2 => Stronger(turns[2].routes[1], turns[1].routes[1])

(* What a single run calls verified, or applies, was made from a snapshot that the checkout
   agreed with again after the profile was read (single.ts reads it at each), and the profile
   is the planned one.  So the snapshot is of the checkout that was routed, unless that moved
   three times: from what was planned to what the snapshot shows, back for the profile, and
   once more to the snapshot.  A twin, which takes the first two at once (twin.ts), may route
   one checkout and snapshot the next. *)
CertifiedIsCurrent ==
  (report = "verified" \/ applied) /\ action # "twin" =>
    LET t == Last(turns)
        planned == env.repos[t.plan.profile].profile
    IN  /\ env.repos[t.read.profile].profile = planned
        /\ \E v \in t.read.profile..world.repo :
             /\ env.repos[v] = env.repos[t.read.caps]
             /\ \/ env.repos[t.read.caps].profile = planned
                \/ t.plan.profile < t.read.caps /\ t.read.caps < t.read.profile /\ t.read.profile < v

(* The meta runner spends in one nested run, the product in two attempts of different
   rounds; and what was applied is not reported as a failure (meta.ts, final artifact). *)
SpendOnce ==
  /\ TypeOK
  /\ Len(turns) <= (IF Product THEN 2 ELSE 1)
  /\ \A i, j \in DOMAIN turns : i # j => turns[i].round # turns[j].round
  /\ pc = "end" /\ applied => report = "verified"

(* Every request is answered. *)
DelegationEnds == <>(pc = "end")

(* docs/configuration.md: "The first five are hard constraints.  Unsupported combinations
   return an error rather than silently falling back."  A single run of the meta runner
   would execute a route that meets what was asked. *)
Meets(want, r) ==
  /\ want.modelId \in {None, r.model} /\ want.family \in {None, r.family}
  /\ Ask(want.effort) \in {None, r.effort} /\ Ask(want.speedId) \in {None, r.speed}
  /\ want.topology \in {None, r.topology}

HardConstraintsHold ==
  \A i \in DOMAIN turns :
    Len(turns[i].routes) = 1 => Meets(Want, turns[i].routes[1])
=============================================================================
