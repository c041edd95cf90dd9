------------------------------ MODULE Routing ------------------------------
(* How Counterlane chooses a route: the tiers a verifier surface can prove, the quota
   state, the calibration of past routes, the scored and gated candidates of AutoRouter,
   their capability graph, the successor an escalation may take and the static policy.
   Fractions, credits and multipliers are integers per mille (rounded down), durations
   are milliseconds; a model stands for the family its names match. *)
EXTENDS Integers, Sequences, FiniteSets, FiniteSetsExt, SequencesExt

CONSTANT None

Mul(a, b) == (a * b) \div 1000
Clamp(x) == IF x < 0 THEN 0 ELSE IF x > 1000 THEN 1000 ELSE x
AtLeastOne(x) == IF x < 1 THEN 1 ELSE x

-----------------------------------------------------------------------------
(* Tables *)
Tiers == <<"basic", "standard", "strong", "adversarial">>
Efforts == <<"none", "minimal", "low", "light", "medium", "high", "xhigh", "max", "ultra">>

Rank(s, x) == CHOOSE i \in DOMAIN s : s[i] = x
TierRank(t) == Rank(Tiers, t)
EffortRank(e) == Rank(Efforts, e)

Capability == [luna |-> 600, terra |-> 770, sol |-> 910, unknown |-> 740]
FamilyLatency == [luna |-> 620, terra |-> 840, sol |-> 1080, unknown |-> 900]
EffortDelta == [none |-> -100, minimal |-> -80, low |-> -55, light |-> -55, medium |-> 0,
                high |-> 45, xhigh |-> 75, max |-> 100, ultra |-> 130]
EffortCost == [none |-> 650, minimal |-> 700, low |-> 780, light |-> 780, medium |-> 1000,
               high |-> 1350, xhigh |-> 1720, max |-> 2250, ultra |-> 4200]
EffortLatency == [none |-> 620, minimal |-> 680, low |-> 780, light |-> 780, medium |-> 1000,
                  high |-> 1340, xhigh |-> 1720, max |-> 2300, ultra |-> 1450]
ProfileCost == [economy |-> 1350, balanced |-> 1000, quality |-> 580]
ProfileSpeed == [economy |-> 720, balanced |-> 1000, quality |-> 1180]

(* An effort that a table does not know counts as an ordinary one. *)
OfEffort(table, e, ordinary) == IF e \in DOMAIN table THEN table[e] ELSE ordinary

Defaults ==
  [profile |-> "balanced",
   static |-> [family |-> "sol", effort |-> "medium", speed |-> "standard"],
   candidateEfforts |-> <<"low", "medium", "high", "xhigh", "max", "ultra">>,
   baselineMs |-> 90000, p90 |-> 1600, minimumSamples |-> 3, shrinkage |-> 5, creditsPerWeight |-> 8,
   speedEnabled |-> TRUE, speeds |-> <<"standard", "fast">>, defaultSpeed |-> "standard",
   allowUnadvertised |-> FALSE, premiumUse |-> 45, premiumLatency |-> 380,
   speed |-> [standard |-> [cost |-> 1000, latency |-> 1000, premium |-> FALSE],
              fast |-> [cost |-> 2500, latency |-> 667, premium |-> TRUE]],
   reserve |-> 20, enableMax |-> TRUE, enableUltra |-> FALSE, maxUse |-> 45, ultraUse |-> 30,
   minimumCompletion |-> [normal |-> 780, elevated |-> 900, critical |-> 970],
   minimumQuality |-> [normal |-> 780, elevated |-> 900, critical |-> 970],
   familyWeight |-> [luna |-> 1000, terra |-> 2500, sol |-> 5000, unknown |-> 5000],
   weight |-> [cost |-> 900, latency |-> 250, quota |-> 800, failure |-> 2400, uncertainty |-> 700],
   metaEnabled |-> TRUE, exactSamples |-> 4, fallbackSamples |-> 8, maximumTwins |-> 24,
   margin |-> 500, twinCost |-> 1100, twinPressure |-> 620, twinUse |-> 55, criticalVerifier |-> 550,
   tierRouting |-> TRUE, tiers |-> Range(Tiers), defaultTier |-> "standard",
   tierByRisk |-> [normal |-> "basic", elevated |-> "standard", critical |-> "strong"],
   proofCost |-> [basic |-> 200, standard |-> 550, strong |-> 1000, adversarial |-> 1800],
   boost |-> [basic |-> 40, standard |-> 140, strong |-> 270, adversarial |-> 400],
   floor |-> [basic |-> 350, standard |-> 600, strong |-> 900, adversarial |-> 970],
   checks |-> [basic |-> 1, standard |-> 1, strong |-> 2, adversarial |-> 2],
   optionalVerifier |-> FALSE, taskSpecific |-> FALSE, learning |-> FALSE]

-----------------------------------------------------------------------------
(* The tiers a repository's verifier commands can prove *)
CommandsFor(commands, t) == {c \in commands : TierRank(c.tier) <= TierRank(t)}

Reaches(c, t) == TierRank(c.tier) >= TierRank(t)

Covers(t, commands) ==
  CASE t = "adversarial"           -> \E c \in commands : c.tier = "adversarial"
    [] t \in {"standard", "strong"} -> \E c \in commands : Reaches(c, "standard")
    [] OTHER                        -> commands # {}

TierAvailable(config, commands, t) ==
  LET selected == CommandsFor(commands, t)
      optional == selected = {} /\ config.optionalVerifier
  IN  /\ config.tierRouting \/ t = config.defaultTier
      /\ Cardinality(selected) >= config.checks[t] \/ optional
      /\ selected = {} => optional
      /\ selected # {} =>
           /\ config.taskSpecific => Covers(t, {c \in selected : c.taskSpecific})
           /\ config.tierRouting => Covers(t, selected)

AvailableTiers(config, commands) == {t \in Range(Tiers) : TierAvailable(config, commands, t)}

-----------------------------------------------------------------------------
(* deriveQuotaState: of the windows the one of most pressure, an exhausted one first.
   A window is [id, used, elapsed, reached]; used is a percentage, elapsed is per mille. *)
NoQuota == [known |-> FALSE, exhausted |-> FALSE, used |-> None, pressure |-> 1000, source |-> None]

Pressure(w, reserve) ==
  LET elapsed == IF w.elapsed < 50 THEN 50 ELSE w.elapsed
      burn == (w.used * 10000) \div elapsed
      reserved == Clamp(((w.used - (100 - reserve)) * 1000) \div AtLeastOne(reserve))
  IN  Clamp(Mul(550, w.used * 10) + Mul(300, Clamp(burn \div 2)) + Mul(150, reserved))

DeriveQuota(windows, reserve) ==
  LET scored == {[known |-> TRUE, exhausted |-> w.used >= 100 \/ w.reached, used |-> w.used,
                  pressure |-> Pressure(w, reserve), source |-> w.id] : w \in windows}
      worse(a, b) == \/ a.exhausted /\ ~b.exhausted
                     \/ a.exhausted = b.exhausted /\ a.pressure >= b.pressure
      worst == {a \in scored : \A b \in scored : worse(a, b)}
  IN  IF scored = {} THEN NoQuota ELSE CHOOSE a \in scored : worst = {} \/ a \in worst

-----------------------------------------------------------------------------
(* buildCalibrationIndex: observations that share an id but differ are all dropped, and a
   cancelled run says nothing of its route. *)
Observed(history, route) ==
  {o \in history :
     /\ o.route = route /\ o.outcome # "cancelled"
     /\ \A p \in history : p.id = o.id => p = o}

MeanOf(S, field) == MapThenSumSet(LAMBDA o : o[field], S) \div Cardinality(S)

CalibrationFor(history, route) ==
  LET seen == Observed(history, route)
      n == Cardinality(seen)
      within(d) == Cardinality({o \in seen : o.duration <= d})
  IN  IF n = 0 THEN None
      ELSE [samples |-> n,
            success |-> (Cardinality({o \in seen : o.outcome = "success"}) * 1000) \div n,
            duration |-> MeanOf(seen, "duration"), credits |-> MeanOf(seen, "credits"),
            p90 |-> Max({MeanOf(seen, "duration"),
                         Min({o.duration : o \in {x \in seen : 10 * within(x.duration) >= 9 * n}})})]

EmpiricalWeight(config, calibration) ==
  IF calibration = None THEN 0
  ELSE LET n == calibration.samples
           base == (n * 1000) \div AtLeastOne(n + config.shrinkage)
       IN  IF n < config.minimumSamples THEN (base * n) \div AtLeastOne(config.minimumSamples) ELSE base

Blend(prior, empirical, weight) == Mul(prior, 1000 - weight) + Mul(empirical, weight)

-----------------------------------------------------------------------------
(* What is asked of the route.  A want is a record of the constraints, None or "auto" where
   nothing is asked. *)
Anything ==
  [modelId |-> None, family |-> None, effort |-> None, speedId |-> None, speedMode |-> None,
   context |-> None, topology |-> None, latency |-> None, tier |-> None, deadline |-> None,
   credits |-> None]

Ask(x) == IF x = "auto" THEN None ELSE x

NormalizeConstraints(want) ==
  [want EXCEPT !.effort = Ask(want.effort), !.speedId = Ask(want.speedId)]

(* A raw speed and the product's speed mode are never combined. *)
Malformed(want) == Ask(want.speedId) # None /\ want.speedMode # None

HasHardConstraints(want) ==
  \E f \in {"modelId", "family", "effort", "speedId", "speedMode", "topology", "tier",
            "deadline", "credits"} : want[f] # None

HasStructuredLatencyDemand(want) == want.latency = "urgent" \/ want.deadline # None

ApplyLatencyPriority(features, want) ==
  LET asked == CASE want.latency = "economy"  -> 120
                 [] want.latency = "balanced" -> 550
                 [] want.latency = "urgent"   -> 1000
                 [] OTHER                     -> features.latency
      hurry == IF want.deadline = None THEN 0 ELSE Clamp((90000 * 1000) \div want.deadline)
  IN  [features EXCEPT !.latency = IF hurry > asked THEN hurry ELSE asked]

IsCritical(f) == f.risk >= 720 \/ f.destructive >= 720

RequiredThreshold(thresholds, f) ==
  IF IsCritical(f) THEN thresholds.critical
  ELSE IF f.risk >= 400 \/ f.depth >= 720 \/ f.ambiguity >= 720 THEN thresholds.elevated
  ELSE thresholds.normal

RequiredProofTier(config, f) ==
  IF IsCritical(f) THEN config.tierByRisk.critical
  ELSE IF f.risk >= 400 \/ f.destructive >= 400 \/ f.depth >= 720 THEN config.tierByRisk.elevated
  ELSE config.tierByRisk.normal

-----------------------------------------------------------------------------
(* The candidates.  A query q is [config, features, catalog, quota, tiers, history, want],
   the features with their latency priority, the want normalized. *)
SpeedProfile(config, speed) ==
  IF speed \in DOMAIN config.speed THEN config.speed[speed]
  ELSE [cost |-> 1500, latency |-> 800, premium |-> speed # "standard"]

ClosestSupportedSpeed(config, model, speed) ==
  LET open(s) == s = "standard" \/ s \in model.speeds \/ config.allowUnadvertised
  IN  IF open(speed) THEN speed
      ELSE IF open(config.defaultSpeed) THEN config.defaultSpeed ELSE "standard"

CandidateSpeeds(q, m) ==
  LET c == q.config
      open == {s \in Range(c.speeds) : s = "standard" \/ s \in m.speeds \/ c.allowUnadvertised}
  IN  CASE q.want.speedMode = "off"  -> {"standard"}
        [] q.want.speedMode = "fast" ->
             {s \in Range(c.speeds) \cap m.speeds : s # "standard" /\ SpeedProfile(c, s).premium}
        [] q.want.speedMode \in {None, "auto"} /\ q.want.speedId # None ->
             {s \in {q.want.speedId} : s = "standard" \/ s \in m.speeds \/ c.allowUnadvertised}
        [] q.want.speedMode = "auto" /\ q.want.speedId = None /\ ~c.speedEnabled -> {"standard"}
        [] q.want.speedMode = None /\ q.want.speedId = None /\ ~c.speedEnabled ->
             {ClosestSupportedSpeed(c, m, c.defaultSpeed)}
        [] OTHER -> open

SupportedEfforts(m) == IF m.efforts = {} THEN {m.defaultEffort} ELSE m.efforts

CandidateEfforts(q, m) ==
  LET configured == SupportedEfforts(m) \cap Range(q.config.candidateEfforts)
  IN  IF q.want.effort # None THEN SupportedEfforts(m) \cap {q.want.effort}
      ELSE IF configured # {} THEN configured ELSE {m.defaultEffort}

CandidateTiers(q) ==
  IF q.want.tier # None THEN {q.want.tier}
  ELSE IF q.config.tierRouting THEN q.config.tiers ELSE {q.config.defaultTier}

TopologyOf(effort) == IF effort = "ultra" THEN "ultra" ELSE "single"

Visible(catalog) == {i \in DOMAIN catalog : ~catalog[i].hidden}

(* A route is what routeKey names, with the model's family and place in the catalog. *)
Enumerate(q) ==
  LET models == {i \in Visible(q.catalog) :
                  /\ q.want.modelId \in {None, q.catalog[i].id}
                  /\ q.want.family \in {None, q.catalog[i].family}}
      routes(i) ==
        {[place |-> i, model |-> q.catalog[i].id, family |-> q.catalog[i].family, effort |-> e,
          speed |-> s, topology |-> TopologyOf(e), tier |-> t] :
            e \in CandidateEfforts(q, q.catalog[i]), s \in CandidateSpeeds(q, q.catalog[i]),
            t \in CandidateTiers(q)}
  IN  {r \in UNION {routes(i) : i \in models} : q.want.topology \in {None, r.topology}}

FamilyTaskFit(family, f) ==
  CASE family = "luna"  -> Mul(f.mechanicalness, 110) + Mul(f.verifiability, 60) - Mul(f.ambiguity, 140)
                             - Mul(f.depth, 100) - Mul(f.risk, 120) - Mul(f.breadth, 50)
    [] family = "terra" -> Mul(f.mechanicalness, 30) + Mul(f.verifiability, 30) - Mul(f.risk, 25)
                             - Mul(f.novelty, 30)
    [] family = "sol"   -> Mul(f.ambiguity, 35) + Mul(f.depth, 40) + Mul(f.risk, 35) + Mul(f.novelty, 25)
    [] OTHER            -> -Mul(f.risk, 60)

CostWeight(config, r) ==
  Mul(Mul(config.familyWeight[r.family], OfEffort(EffortCost, r.effort, 1000)),
      SpeedProfile(config, r.speed).cost)
    + config.proofCost[r.tier]

LatencyWeight(config, r) ==
  Mul(Mul(FamilyLatency[r.family], OfEffort(EffortLatency, r.effort, 1000)),
      SpeedProfile(config, r.speed).latency)
    + Mul(config.proofCost[r.tier], 280)

CapabilityScore(f, r) ==
  Clamp(Capability[r.family] + OfEffort(EffortDelta, r.effort, 0) + FamilyTaskFit(r.family, f)
        + (IF r.topology = "ultra"
             THEN Mul(f.parallelizability, 120) + Mul(f.breadth, 60) - Mul(f.depth, 35) ELSE 0))

RouteKey(r) == <<r.model, r.effort, r.speed, r.topology, r.tier>>

(* The estimates of a route, calibrated where its history says something. *)
Detection(c, f, tier) ==
  Max({Clamp(160 + Mul(f.verifiability, 580) + Mul(f.mechanicalness, 60) + c.boost[tier]),
       c.floor[tier]})

HeuristicSuccess(f, capability) ==
  Clamp(capability + Mul(f.verifiability, 40 + Mul(f.mechanicalness, 35)) - Mul(f.novelty, 40))

Doubt(f, family, weight) ==
  Clamp(Mul(Clamp(80 + Mul(f.ambiguity, 280) + Mul(f.novelty, 250)
                  + (IF family = "unknown" THEN 200 ELSE 0)), 1000 - Mul(weight, 620)))

LowerBound(f, success, doubt) ==
  Clamp(success - Mul(doubt, 250 + f.risk \div 4 + f.destructive \div 4))

Prior(c, heuristic, duration, credits) ==
  [success |-> heuristic, duration |-> duration, p90 |-> Mul(duration \div 10, c.p90) * 10,
   credits |-> credits]

Calibrated(prior, known, weight) ==
  IF known = None THEN prior
  ELSE [k \in DOMAIN prior |-> Blend(prior[k], known[k], weight)]

Estimated(f, estimate, doubt, detection) ==
  [success |-> estimate.success, duration |-> estimate.duration, p90 |-> estimate.p90,
   credits |-> estimate.credits, doubt |-> doubt, detection |-> detection,
   escape |-> Clamp(Mul(1000 - LowerBound(f, estimate.success, doubt), 1000 - detection))]

Estimates(q, r, known, weight, capability) ==
  Estimated(q.features,
            Calibrated(Prior(q.config, HeuristicSuccess(q.features, capability),
                             ((q.config.baselineMs \div 100) * LatencyWeight(q.config, r)) \div 10,
                             CostWeight(q.config, r) * q.config.creditsPerWeight),
                       known, weight),
            Doubt(q.features, r.family, weight), Detection(q.config, q.features, r.tier))

(* The weighted cost of everything, a little of each. *)
Objective(q, r, e) ==
  LET c == q.config  f == q.features
      impact == 1000 + 3 * f.risk + 3 * f.destructive
      urgency == Mul(500 + Mul(59500, Mul(f.latency, Mul(f.latency, f.latency))), ProfileSpeed[c.profile])
      unit == AtLeastOne(c.creditsPerWeight)
      shortfall == Max({0, RequiredThreshold(c.minimumQuality, f) - (1000 - e.escape)})
  IN  Mul(Mul(e.credits \div unit + Mul(c.proofCost[r.tier], 350), ProfileCost[c.profile]), c.weight.cost)
      + Mul(Mul((e.duration * 1000) \div AtLeastOne(c.baselineMs), urgency), c.weight.latency)
      + Mul(Mul(e.credits, q.quota.pressure) \div unit, c.weight.quota)
      + Mul(Mul(shortfall, impact) * 40 + Mul(Mul(e.escape, impact), 750), c.weight.failure)
      + Mul(e.doubt * 5, c.weight.uncertainty)

QuotaExhausted(quota) == quota.exhausted \/ (quota.known /\ quota.used >= 100)

(* What may not be spent on with this quota: unknown usage fails closed. *)
Barred(quota, limit) == ~quota.known \/ quota.used > limit

(* The gates; the names of those a route fails are its rejection reasons. *)
Gates(q, r, e) ==
  LET c == q.config  f == q.features  w == q.want
      ultra == r.topology = "ultra"
      premium == SpeedProfile(c, r.speed).premium
  IN  [completion |-> e.success < RequiredThreshold(c.minimumCompletion, f),
        quality |-> 1000 - e.escape < RequiredThreshold(c.minimumQuality, f),
        tierUnavailable |-> r.tier \notin q.tiers,
        proofFloor |-> TierRank(r.tier) < TierRank(RequiredProofTier(c, f)),
        critical |-> IsCritical(f) /\ r.family # "sol",
        destructive |-> f.destructive >= 700 /\ r.family = "luna",
        exhausted |-> QuotaExhausted(q.quota),
        maxDisabled |-> r.effort = "max" /\ ~c.enableMax,
        maxUse |-> r.effort = "max" /\ Barred(q.quota, c.maxUse),
        ultraDisabled |-> ultra /\ ~c.enableUltra,
        ultraUse |-> ultra /\ Barred(q.quota, c.ultraUse),
        workstreams |-> ultra /\ f.parallelizability < 620,
        narrow |-> ultra /\ f.breadth < 480,
        ultraProof |-> ultra /\ TierRank(r.tier) < TierRank("strong"),
        premiumUse |-> premium /\ Barred(q.quota, c.premiumUse - 1),
        background |-> premium /\ w.speedMode # None /\ w.context # "foreground",
        unhurried |-> premium /\ w.speedMode = "auto" /\ ~HasStructuredLatencyDemand(w),
        insensitive |-> /\ premium /\ w.speedMode = None /\ w.speedId = None
                        /\ f.latency < c.premiumLatency,
        deadline |-> w.deadline # None /\ e.p90 > w.deadline,
        credits |-> w.credits # None /\ e.credits > w.credits]

Rejections(q, r, e) ==
  LET gate == Gates(q, r, e) IN {g \in DOMAIN gate : gate[g]}

(* Equal candidates stay as they were enumerated: by the place of their model, then by the
   turn of their speed in the configuration. *)
Turn(config, speed) == IF speed \in Range(config.speeds) THEN Rank(config.speeds, speed) ELSE 0

Scored(q, r, e, capability) ==
  [route |-> r, rejections |-> Rejections(q, r, e), credits |-> e.credits,
   failure |-> 1000 - e.success, escape |-> e.escape, duration |-> e.duration,
   objective |-> Objective(q, r, e), capability |-> capability,
   detection |-> e.detection, place |-> r.place, turn |-> Turn(q.config, r.speed)]

ScoreKnowing(q, r, known, capability) ==
  Scored(q, r, Estimates(q, r, known, EmpiricalWeight(q.config, known), capability), capability)

Score(q, r) ==
  ScoreKnowing(q, r, CalibrationFor(q.history, RouteKey(r)), CapabilityScore(q.features, r))

Admissible(c) == c.rejections = {}

(* The comparators go from key to key. *)
Precedes(a, b, keys) ==
  \E i \in DOMAIN keys :
    a[keys[i]] < b[keys[i]] /\ \A j \in 1..(i - 1) : a[keys[j]] = b[keys[j]]

(* The head of the sorted candidates: whatever the keys are, it is one of them. *)
Foremost(candidates, keys) ==
  LET best == {c \in candidates : \A d \in candidates : ~Precedes(d, c, keys)}
  IN  CHOOSE c \in candidates : best = {} \/ c \in best

Ranking(want) ==
  IF want.latency = "urgent" THEN <<"objective", "credits", "failure", "escape", "place", "turn">>
  ELSE <<"credits", "failure", "escape", "duration", "objective", "place", "turn">>

Diagnostic == <<"escape", "failure", "credits", "objective", "place", "turn">>

(* AutoRouter.decide: why is what it throws ("malformed" and "none" are plain errors, "gates"
   says that nothing asked for is admissible), graph what the envelope fingerprints. *)
Thrown(q, why) == [why |-> why, selected |-> None, fit |-> {}, graph |-> {}, features |-> q.features]

Selection(q, candidates, fit) ==
  IF fit = {} /\ (HasHardConstraints(q.want) \/ IsCritical(q.features)) THEN Thrown(q, "gates")
  ELSE [why |-> "decided", fit |-> fit, features |-> q.features,
        graph |-> {<<RouteKey(c.route), c.rejections, c.capability>> : c \in candidates},
        selected |-> IF fit = {} THEN Foremost(candidates, Diagnostic)
                     ELSE Foremost(fit, Ranking(q.want))]

SelectFrom(q, candidates) ==
  IF candidates = {} THEN Thrown(q, "none")
  ELSE Selection(q, candidates, {c \in candidates : Admissible(c)})

DecideNormalized(q) == SelectFrom(q, {Score(q, r) : r \in Enumerate(q)})

DecideAsking(query, want) ==
  DecideNormalized([query EXCEPT !.want = want, !.features = ApplyLatencyPriority(@, want)])

Decide(query) ==
  IF Malformed(query.want) THEN Thrown(query, "malformed")
  ELSE DecideAsking(query, NormalizeConstraints(query.want))

(* requireAdmissibleRoute also refuses a diagnostic candidate. *)
Executable(decision) == decision.why = "decided" /\ Admissible(decision.selected)

-----------------------------------------------------------------------------
(* The capability graph over the admissible routes: model, effort and topology only. *)
Node(r) == [model |-> r.model, family |-> r.family, effort |-> r.effort, topology |-> r.topology]
Nodes(decision) == {Node(c.route) : c \in decision.fit}

FamilyEscalates(family, f) ==
  \/ /\ family = "luna"
     /\ f.depth >= 320 \/ f.risk >= 300 \/ f.novelty >= 380 \/ f.breadth >= 420
  \/ /\ family = "terra"
     /\ f.depth >= 550 \/ f.risk >= 500 \/ f.novelty >= 580 \/ (f.depth >= 380 /\ f.breadth >= 500)

NextFamily == [luna |-> "terra", terra |-> "sol", sol |-> None, unknown |-> None]

LeastEffort(nodes) ==
  {n \in nodes : \A m \in nodes : EffortRank(n.effort) <= EffortRank(m.effort)}

Successors(decision, from) ==
  LET f == decision.features
      asStrong == {n \in Nodes(decision) : /\ {n.effort, from.effort} \subseteq Range(Efforts)
                                            /\ EffortRank(n.effort) >= EffortRank(from.effort)}
      stronger == {n \in asStrong : EffortRank(n.effort) > EffortRank(from.effort)}
      alike(n) == n.model = from.model /\ n.topology = from.topology
  IN  IF from \notin Nodes(decision) THEN {}
      ELSE LeastEffort({n \in stronger : alike(n)})
        \cup (IF FamilyEscalates(from.family, f)
                THEN LeastEffort({n \in asStrong : /\ n.family = NextFamily[from.family]
                                                   /\ n.topology = from.topology})
                ELSE {})
        \cup (IF f.parallelizability >= 620 /\ f.breadth >= 480 /\ from.topology = "single"
                THEN LeastEffort({n \in asStrong : n.model = from.model /\ n.topology = "ultra"})
                ELSE {})

(* selectStrictSuccessor: never another speed, never less proof, the cheapest of them. *)
StrictSuccessor(decision, current) ==
  LET eligible == {c \in decision.fit :
                     /\ Node(c.route) \in Successors(decision, Node(current))
                     /\ c.route.speed = current.speed
                     /\ TierRank(c.route.tier) >= TierRank(current.tier)}
  IN  IF eligible = {} THEN None
      ELSE Foremost(eligible, <<"credits", "capability", "place">>).route

-----------------------------------------------------------------------------
(* The static policy: the configured family's model, or the catalog's default. *)
FirstOf(S) == CHOOSE i \in S : \A j \in S : i <= j

StaticModel(config, catalog) ==
  LET visible == Visible(catalog)
      family == {i \in visible : catalog[i].family = config.static.family}
      default(S) == {i \in S : catalog[i].isDefault}
  IN  CASE default(family) # {}                 -> FirstOf(default(family))
        [] default(family) = {} /\ family # {}  -> FirstOf(family)
        [] family = {} /\ default(visible) # {} -> FirstOf(default(visible))
        [] OTHER                                -> FirstOf(visible)

ClosestSupportedEffort(config, model, effort) ==
  LET order == config.candidateEfforts
      far(i) == IF i > Rank(order, effort) THEN i - Rank(order, effort) ELSE Rank(order, effort) - i
      near == {i \in DOMAIN order : order[i] \in SupportedEfforts(model)}
  IN  IF effort \in SupportedEfforts(model) THEN effort
      ELSE IF effort \notin Range(order) \/ near = {} THEN model.defaultEffort
      ELSE order[FirstOf({i \in near : \A j \in near : far(i) <= far(j)})]

StaticTier(config, tiers) ==
  IF config.defaultTier \in tiers \/ tiers = {} THEN config.defaultTier
  ELSE CHOOSE t \in tiers : \A u \in tiers : TierRank(u) <= TierRank(t)

(* Of a catalog that shows a model; it throws for others. *)
StaticPolicy(config, catalog, tiers) ==
  LET i == StaticModel(config, catalog)
      effort == ClosestSupportedEffort(config, catalog[i], config.static.effort)
  IN  [place |-> i, model |-> catalog[i].id, family |-> catalog[i].family, effort |-> effort,
       speed |-> ClosestSupportedSpeed(config, catalog[i], config.static.speed),
       topology |-> TopologyOf(effort), tier |-> StaticTier(config, tiers)]
=============================================================================
