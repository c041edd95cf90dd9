-------------------------- MODULE DelegationProofs --------------------------
(***************************************************************************)
(* Theorems about Delegation, for any requests and any number of moves of  *)
(* the world.  Versions of the checkout only grow, so the order in which a *)
(* run reads them is the order of their numbers; and nothing that a turn   *)
(* was sent on is read again after it.  A run asks the router again for    *)
(* what its plan selected, so it is answered from fewer candidates: the    *)
(* best of the plan's is still the best.                                   *)
(***************************************************************************)
EXTENDS Delegation, FiniteSetTheorems, WellFoundedInduction, TLAPS

Views == {"profile", "caps", "catalog", "quota", "evidence"}

\* No turn of the present round has been sent yet.
Before == {"begin", "discover", "inspect", "freeze", "snapshot", "profile", "query", "check", "send"}

Shapes ==
  /\ TypeOK
  /\ world \in [Sources -> Nat]
  /\ plan \in [Views -> Nat] /\ read \in [Views -> Nat] /\ frozen \in Nat
  /\ \E S : turns \in Seq(S)

\* Who is where, and when there is something to report.
Course ==
  /\ Product => action \in {None, "execute"} /\ pc \notin {"apply", "finish"}
  /\ ~Product => action # "execute" /\ pc \notin {"freeze", "receipts"}
  /\ pc \in {"freeze", "snapshot", "profile", "query", "check", "send", "turn"} =>
       (Product <=> action = "execute")
  /\ Product /\ pc \in {"begin", "discover", "inspect", "freeze"} => round = 1
  /\ report # None => pc \in {"apply", "finish", "receipts", "end"}
  /\ pc = "apply" => report = "verified"
  /\ applied => report = "verified" /\ pc \in {"finish", "end"}

\* How often a request has spent.
Spending ==
  /\ Len(turns) <= (IF Product THEN round ELSE 1)
  /\ pc \in Before => Len(turns) < (IF Product THEN round ELSE 1)
  /\ \A i \in DOMAIN turns : turns[i].round <= round /\ turns[i].round \in 1..2
  /\ pc \in Before => \A i \in DOMAIN turns : turns[i].round < round
  /\ \A i, j \in DOMAIN turns : i # j => turns[i].round # turns[j].round

\* The order in which a run reads the checkout, and what it has compared by then.
Reading ==
  /\ plan.profile <= world.repo
  /\ pc \in {"inspect", "freeze", "snapshot", "profile", "query", "check", "send", "turn"} =>
       plan.profile >= 1
  /\ pc \in {"profile", "query", "check", "send", "turn"} =>
       plan.profile <= read.caps /\ read.caps <= world.repo
  /\ pc \in {"query", "check", "send", "turn"} =>
       /\ read.profile <= world.repo /\ read.profile >= 1
       /\ action # "twin" => read.caps <= read.profile
       /\ ~Product => env.repos[read.profile].profile = env.repos[plan.profile].profile
  /\ pc \in {"send", "turn"} =>
       env.repos[read.profile].profile = env.repos[plan.profile].profile
  /\ pc = "turn" => Last(turns).plan = plan /\ Last(turns).read = read

\* What the product froze before it sent anything.
PlanIsFrozen ==
  /\ env.host /\ Certifying(frozen, PreflightRoute.tier)
  /\ env.repos[plan.profile].features.risk < 500

Contract ==
  Product =>
    /\ pc \in {"snapshot", "profile", "query", "check", "send", "turn"} => PlanIsFrozen
    /\ pc = "send" =>
         /\ Range(env.catalogs[plan.catalog]) = Range(env.catalogs[read.catalog])
         /\ QuotaSeen(plan) = QuotaSeen(read)
    /\ \A i \in DOMAIN turns : Contracted(turns[i])

IInv == Shapes /\ Course /\ Spending /\ Reading /\ Contract /\ CertifiedIsCurrent

-----------------------------------------------------------------------------
\* What of a step the definitions over versions look at.
LEMMA SameRequest ==
  ASSUME env' = env PROVE Product' = Product /\ Config' = Config /\ Want' = Want
BY DEF Product, Config, Want

LEMMA SamePlan ==
  ASSUME env' = env, plan' = plan, frozen' = frozen PROVE PlanIsFrozen' = PlanIsFrozen
BY SameRequest DEF PlanIsFrozen, PreflightRoute, Preflight, Route, Config, Want, Product, QuotaOf,
   TiersOf, Commands, Certifying

LEMMA SameContract ==
  ASSUME env' = env, plan' = plan, frozen' = frozen, NEW t
  PROVE  Contracted(t)' = Contracted(t)
BY SameRequest DEF Contracted, PreflightRoute, Preflight, Route, Config, Want, Product, QuotaOf,
   QuotaSeen, TiersOf, Commands, Certifying

\* Routing reads the risk of a task from its profile, and asking for speed does not change it.
LEMMA RiskIsRead ==
  ASSUME env \in Environments, NEW v \in [Views -> Nat], v.profile \in 1..Len(env.repos),
         NEW history, NEW want
  PROVE  Route(v, history, want).features.risk = env.repos[v.profile].features.risk
<1>1. env.repos[v.profile].features \in [Features -> Int]
  BY EnvironmentAssumption
<1>2. \A w : ApplyLatencyPriority(env.repos[v.profile].features, w).risk = env.repos[v.profile].features.risk
  BY <1>1 DEF ApplyLatencyPriority, Features
<1>3. \A q : DecideNormalized(q).features = q.features
  BY DEF DecideNormalized, SelectFrom, Selection, Thrown
<1> DEFINE q == [config |-> Config, features |-> env.repos[v.profile].features,
                 catalog |-> env.catalogs[v.catalog], quota |-> QuotaOf(v),
                 tiers |-> TiersOf(v), history |-> history, want |-> want]
<1>4. \A w : DecideAsking(q, w).features = ApplyLatencyPriority(q.features, w)
  BY <1>3 DEF DecideAsking
<1>5. Decide(q).features \in {q.features} \cup {ApplyLatencyPriority(q.features, NormalizeConstraints(want))}
  BY <1>4 DEF Decide, Thrown
<1> QED
  BY <1>5, <1>2 DEF Route

LEMMA QuotaIsShown ==
  ASSUME EnvelopeStands
  PROVE  /\ env.repos[read.profile].profile = env.repos[plan.profile].profile
         /\ Range(env.catalogs[plan.catalog]) = Range(env.catalogs[read.catalog])
         /\ QuotaSeen(plan) = QuotaSeen(read)
BY DEF EnvelopeStands, Envelope

\* An append to a sequence of whatever values.
LEMMA Appended ==
  ASSUME NEW s, NEW x, \E S : s \in Seq(S)
  PROVE  /\ \E S : Append(s, x) \in Seq(S)
         /\ Len(Append(s, x)) = Len(s) + 1
         /\ DOMAIN Append(s, x) = 1..(Len(s) + 1) /\ DOMAIN s = 1..Len(s) /\ Len(s) \in Nat
         /\ \A i \in DOMAIN s : Append(s, x)[i] = s[i]
         /\ Last(Append(s, x)) = x /\ Append(s, x)[Len(s) + 1] = x
<1>1. PICK S : s \in Seq(S)
  OBVIOUS
<1>2. s \in Seq(S \cup {x})
  BY <1>1
<1>3. Append(s, x) \in Seq(S \cup {x})
  BY <1>2
<1>4. Len(Append(s, x)) = Len(s) + 1 /\ Len(s) \in Nat /\ DOMAIN s = 1..Len(s)
  BY <1>2
<1>5. DOMAIN Append(s, x) = 1..(Len(s) + 1)
  BY <1>3, <1>4
<1>6. \A i \in DOMAIN s : Append(s, x)[i] = s[i]
  BY <1>2, <1>4
<1>7. Append(s, x)[Len(s) + 1] = x
  BY <1>2, <1>4
<1>8. Last(Append(s, x)) = x
  BY <1>4, <1>7 DEF Last
<1> QED
  BY <1>3, <1>4, <1>5, <1>6, <1>7, <1>8

\* Which versions there are.
LEMMA VersionsExist ==
  ASSUME env \in Environments
  PROVE  /\ env.path \in {"execute", "auto"}
         /\ \A s \in Sources : Versions(s) \in Nat /\ Versions(s) >= 1
         /\ Versions("repo") = Len(env.repos)
BY EnvironmentAssumption DEF Versions, Sources

-----------------------------------------------------------------------------
(* What a decision guarantees: its choice is one of its candidates, what every gate let pass is
   allowed, and an edge of the capability graph leads to something stronger *)

LEMMA ForemostIsOne ==
  ASSUME NEW S, S # {}, NEW keys PROVE Foremost(S, keys) \in S
<1> DEFINE best == {c \in S : \A d \in S : ~Precedes(d, c, keys)}
<1>1. \E c \in S : best = {} \/ c \in best
  OBVIOUS
<1> HIDE DEF best
<1>2. (CHOOSE c \in S : best = {} \/ c \in best) \in S
  BY <1>1
<1> QED
  BY <1>2 DEF Foremost, best

LEMMA ScoredRoute ==
  ASSUME NEW q, NEW r
  PROVE  Score(q, r).route = r /\ \E e : Score(q, r).rejections = Rejections(q, r, e)
BY DEF Score, ScoreKnowing, Scored

LEMMA GatesOpen ==
  ASSUME NEW q, NEW r, NEW e, Rejections(q, r, e) = {}
  PROVE  /\ r.tier \in q.tiers
         /\ ~(TierRank(r.tier) < TierRank(RequiredProofTier(q.config, q.features)))
         /\ IsCritical(q.features) => r.family = "sol"
         /\ ~QuotaExhausted(q.quota)
         /\ r.effort = "max" => ~Barred(q.quota, q.config.maxUse)
         /\ r.topology = "ultra" => q.config.enableUltra /\ ~Barred(q.quota, q.config.ultraUse)
         /\ SpeedProfile(q.config, r.speed).premium => ~Barred(q.quota, q.config.premiumUse - 1)
<1>1. \A g \in DOMAIN Gates(q, r, e) : Gates(q, r, e)[g] = FALSE
  BY DEF Rejections, Gates
<1> DEFINE gate == Gates(q, r, e)
<1>2. /\ gate.tierUnavailable = (r.tier \notin q.tiers)
      /\ gate.proofFloor = (TierRank(r.tier) < TierRank(RequiredProofTier(q.config, q.features)))
      /\ gate.critical = (IsCritical(q.features) /\ r.family # "sol")
      /\ gate.exhausted = QuotaExhausted(q.quota)
      /\ gate.maxUse = (r.effort = "max" /\ Barred(q.quota, q.config.maxUse))
      /\ gate.ultraDisabled = (r.topology = "ultra" /\ ~q.config.enableUltra)
      /\ gate.ultraUse = (r.topology = "ultra" /\ Barred(q.quota, q.config.ultraUse))
      /\ gate.premiumUse = (/\ SpeedProfile(q.config, r.speed).premium
                            /\ Barred(q.quota, q.config.premiumUse - 1))
  BY DEF Gates
<1>3. {"tierUnavailable", "proofFloor", "critical", "exhausted", "maxUse", "ultraDisabled", "ultraUse",
       "premiumUse"} \subseteq DOMAIN gate
  BY DEF Gates
<1>4. /\ gate.tierUnavailable = FALSE /\ gate.proofFloor = FALSE /\ gate.critical = FALSE
      /\ gate.exhausted = FALSE /\ gate.maxUse = FALSE /\ gate.ultraDisabled = FALSE
      /\ gate.ultraUse = FALSE /\ gate.premiumUse = FALSE
  BY <1>1, <1>3
<1> HIDE DEF gate
<1> QED
  BY <1>2, <1>4

LEMMA DecidedOnACandidate ==
  ASSUME NEW q, LET d == DecideNormalized(q) IN d.why = "decided"
  PROVE  LET d == DecideNormalized(q)
         IN  /\ \E r \in Enumerate(q) : d.selected = Score(q, r)
             /\ \A c \in d.fit : c.rejections = {} /\ \E r \in Enumerate(q) : c = Score(q, r)
             /\ d.fit = {} => ~HasHardConstraints(q.want)
<1> DEFINE candidates == {Score(q, r) : r \in Enumerate(q)}
           fit == {c \in candidates : Admissible(c)}
<1>1. candidates # {} /\ DecideNormalized(q) = Selection(q, candidates, fit)
  BY DEF DecideNormalized, SelectFrom, Thrown
<1> HIDE DEF candidates
<1>2. /\ DecideNormalized(q).fit = fit
      /\ DecideNormalized(q).selected = IF fit = {} THEN Foremost(candidates, Diagnostic)
                                        ELSE Foremost(fit, Ranking(q.want))
      /\ ~(fit = {} /\ (HasHardConstraints(q.want) \/ IsCritical(q.features)))
  BY <1>1 DEF Selection, Thrown
<1>3. DecideNormalized(q).selected \in candidates
  BY <1>1, <1>2, ForemostIsOne
<1> QED
  BY <1>2, <1>3 DEF candidates, Admissible

LEMMA EnumeratedRoute ==
  ASSUME NEW q, NEW r \in Enumerate(q)
  PROVE  \E i \in DOMAIN q.catalog :
           /\ r.model = q.catalog[i].id /\ r.family = q.catalog[i].family
           /\ r.effort \in CandidateEfforts(q, q.catalog[i])
           /\ r.speed \in CandidateSpeeds(q, q.catalog[i])
           /\ r.tier \in CandidateTiers(q) /\ r.topology = TopologyOf(r.effort)
           /\ q.want.modelId \in {None, r.model} /\ q.want.topology \in {None, r.topology}
BY DEF Enumerate, Visible

\* The query that is decided, once what is asked has been normalized.
Asked(v, h, want) ==
  [[config |-> Config, features |-> env.repos[v.profile].features,
    catalog |-> env.catalogs[v.catalog], quota |-> QuotaOf(v), tiers |-> TiersOf(v),
    history |-> h, want |-> want]
   EXCEPT !.want = NormalizeConstraints(want),
          !.features = ApplyLatencyPriority(@, NormalizeConstraints(want))]

LEMMA AskedFields ==
  ASSUME NEW v, NEW h, NEW want
  PROVE  LET q == Asked(v, h, want)
         IN  /\ q.config = Config /\ q.quota = QuotaOf(v) /\ q.tiers = TiersOf(v)
             /\ q.catalog = env.catalogs[v.catalog] /\ q.want = NormalizeConstraints(want)
             /\ q.features = ApplyLatencyPriority(env.repos[v.profile].features,
                                                  NormalizeConstraints(want))
BY DEF Asked

LEMMA DecidedAsAsked ==
  ASSUME NEW v, NEW h, NEW want, Route(v, h, want).why = "decided"
  PROVE  Route(v, h, want) = DecideNormalized(Asked(v, h, want))
BY DEF Route, Decide, DecideAsking, Asked, Thrown

LEMMA TierRanks == \A t \in Range(Tiers) : TierRank(t) \in Int
<1>1. Range(Tiers) = {"basic", "standard", "strong", "adversarial"} /\ DOMAIN Tiers = 1..4
  BY DEF Range, Tiers
<1>2. \A t \in Range(Tiers) : \E i \in DOMAIN Tiers : Tiers[i] = t
  BY DEF Range
<1> QED
  BY <1>1, <1>2 DEF TierRank, Rank

LEMMA ConfigFields ==
  ASSUME env \in Environments
  PROVE  \A f \in DOMAIN Defaults \ {"taskSpecific"} : Config[f] = env.config[f]
BY RoutingAssumption DEF Config

LEMMA AdmittedIsAllowed ==
  ASSUME env \in Environments, NEW v \in [Views -> Nat], v.profile \in 1..Len(env.repos),
         NEW h, NEW want, NEW r, NEW e, Rejections(Asked(v, h, want), r, e) = {}
  PROVE  AllowedBy(v, r)
<1> DEFINE q == Asked(v, h, want)
           f == env.repos[v.profile].features
<1>1. q.config = Config /\ q.quota = QuotaOf(v) /\ q.tiers = TiersOf(v)
  BY AskedFields
<1>2. IsCritical(q.features) = IsCritical(f)
      /\ RequiredProofTier(Config, q.features) = RequiredProofTier(Config, f)
  <2>1. f \in [Features -> Int]
    BY EnvironmentAssumption
  <2> HIDE DEF f
  <2>2. \A w : LET g == ApplyLatencyPriority(f, w)
                IN  g.risk = f.risk /\ g.destructive = f.destructive /\ g.depth = f.depth
    BY <2>1 DEF ApplyLatencyPriority, Features
  <2>3. q.features = ApplyLatencyPriority(f, NormalizeConstraints(want))
    BY AskedFields DEF f
  <2> HIDE DEF q
  <2> QED
    BY <2>2, <2>3 DEF IsCritical, RequiredProofTier
<1>3. TierRank(RequiredProofTier(Config, f)) \in Int
  <2>1. Config.tierByRisk = env.config.tierByRisk
    BY ConfigFields DEF Defaults
  <2>2. {env.config.tierByRisk.normal, env.config.tierByRisk.elevated, env.config.tierByRisk.critical}
          \subseteq Range(Tiers)
    <3>1. /\ DOMAIN env.config.tierByRisk = {"normal", "elevated", "critical"}
          /\ Range(env.config.tierByRisk) \subseteq Range(Tiers)
      BY RoutingAssumption
    <3> QED
      BY <3>1 DEF Range
  <2> QED
    BY <2>1, <2>2, TierRanks DEF RequiredProofTier
<1>4. r.tier \in TiersOf(v) => TierRank(r.tier) \in Int
  BY TierRanks DEF TiersOf, AvailableTiers
<1> HIDE DEF q, f
<1>5. /\ r.tier \in TiersOf(v) /\ ~QuotaExhausted(QuotaOf(v))
      /\ ~(TierRank(r.tier) < TierRank(RequiredProofTier(Config, f)))
      /\ IsCritical(f) => r.family = "sol"
      /\ r.effort = "max" => ~Barred(QuotaOf(v), Config.maxUse)
      /\ r.topology = "ultra" => Config.enableUltra /\ ~Barred(QuotaOf(v), Config.ultraUse)
      /\ SpeedProfile(Config, r.speed).premium => ~Barred(QuotaOf(v), Config.premiumUse - 1)
  BY GatesOpen, <1>1, <1>2 DEF q
<1>6. TierRank(r.tier) >= TierRank(RequiredProofTier(Config, f))
  BY <1>3, <1>4, <1>5
<1> QED
  BY <1>5, <1>6 DEF AllowedBy, f

\* What the catalogs of a request show.
Entries == UNION {Range(env.catalogs[v]) : v \in 1..Len(env.catalogs)}

LEMMA EntriesAreReal ==
  ASSUME env \in Environments
  PROVE  /\ \A v \in 1..Len(env.catalogs) : \A i \in DOMAIN env.catalogs[v] : env.catalogs[v][i] \in Entries
         /\ \A v \in 1..Len(env.catalogs) : DOMAIN env.catalogs[v] \subseteq Nat
         /\ \A m \in Entries :
              /\ m.id # None /\ m.family \in {"luna", "terra", "sol", "unknown"}
              /\ {None, "auto"} \cap (m.efforts \cup {m.defaultEffort}) = {}
              /\ \A n \in Entries : n.id = m.id => n.family = m.family
<1>1. \A v \in 1..Len(env.catalogs) : \A i \in DOMAIN env.catalogs[v] : env.catalogs[v][i] \in Entries
  BY DEF Entries, Range
<1>2. \A v \in 1..Len(env.catalogs) : env.catalogs[v] \in Seq(Entries)
  BY RoutingAssumption DEF Entries
<1>3. \A v \in 1..Len(env.catalogs) : DOMAIN env.catalogs[v] \subseteq Nat
  BY <1>2
<1>4. \A m \in Entries :
        /\ m.id # None /\ m.family \in DOMAIN Capability
        /\ {None, "auto"} \cap (m.efforts \cup {m.defaultEffort}) = {}
        /\ \A n \in Entries : n.id = m.id => n.family = m.family
  BY RoutingAssumption DEF Entries
<1> QED
  BY <1>1, <1>3, <1>4 DEF Capability

\* A route that names what it uses.
Proper(p) ==
  /\ \E m \in Entries : p.model = m.id /\ p.family = m.family
  /\ p.effort \notin {None, "auto"} /\ p.topology \in {"single", "ultra"} /\ p.tier # None

LEMMA EnumeratedIsProper ==
  ASSUME env \in Environments, NEW v \in [Views -> Nat], v.catalog \in 1..Len(env.catalogs), NEW h,
         NEW want, NEW r \in Enumerate(Asked(v, h, want))
  PROVE  Proper(r)
<1> DEFINE q == Asked(v, h, want)
<1>1. q.config = Config /\ q.catalog = env.catalogs[v.catalog]
  BY AskedFields
<1> HIDE DEF q
<1>2. PICK i \in DOMAIN q.catalog :
        /\ r.model = q.catalog[i].id /\ r.family = q.catalog[i].family
        /\ r.effort \in CandidateEfforts(q, q.catalog[i])
        /\ r.tier \in CandidateTiers(q) /\ r.topology = TopologyOf(r.effort)
  BY EnumeratedRoute DEF q
<1>3. q.catalog[i] \in Entries
  BY <1>1, EntriesAreReal
<1>4. r.effort \in q.catalog[i].efforts \cup {q.catalog[i].defaultEffort}
  BY <1>2 DEF CandidateEfforts, SupportedEfforts
<1>5. r.tier # None
  <2>1. Config.tiers = env.config.tiers /\ Config.defaultTier = env.config.defaultTier
    BY ConfigFields DEF Defaults
  <2>2. None \notin env.config.tiers \cup {env.config.defaultTier}
    BY RoutingAssumption
  <2> QED
    BY <1>1, <1>2, <2>1, <2>2 DEF CandidateTiers
<1> QED
  BY <1>2, <1>3, <1>4, <1>5, EntriesAreReal DEF Proper, TopologyOf

\* What is pinned is what is enumerated.
LEMMA PinnedAgrees ==
  ASSUME env \in Environments, NEW v \in [Views -> Nat], v.catalog \in 1..Len(env.catalogs), NEW h,
         NEW want, want = [f \in DOMAIN Anything |-> want[f]], NEW p, Proper(p),
         want.modelId = p.model, want.effort = p.effort, want.topology = p.topology, want.tier = p.tier,
         NEW r \in Enumerate(Asked(v, h, want))
  PROVE  /\ r.model = p.model /\ r.family = p.family /\ r.effort = p.effort
         /\ r.topology = p.topology /\ r.tier = p.tier
         /\ p.speed \notin {None, "auto"} /\ want.speedId = p.speed /\ want.speedMode = None =>
              r.speed = p.speed
<1> DEFINE q == Asked(v, h, want)
<1>1. q.config = Config /\ q.catalog = env.catalogs[v.catalog] /\ q.want = NormalizeConstraints(want)
  BY AskedFields
<1>2. /\ q.want.modelId = want.modelId /\ q.want.effort = Ask(want.effort)
      /\ q.want.topology = want.topology /\ q.want.tier = want.tier
      /\ q.want.speedMode = want.speedMode /\ q.want.speedId = Ask(want.speedId)
  BY <1>1 DEF NormalizeConstraints, Anything
<1> HIDE DEF q
<1>3. PICK i \in DOMAIN q.catalog :
        /\ r.model = q.catalog[i].id /\ r.family = q.catalog[i].family
        /\ r.effort \in CandidateEfforts(q, q.catalog[i])
        /\ r.speed \in CandidateSpeeds(q, q.catalog[i])
        /\ r.tier \in CandidateTiers(q) /\ r.topology = TopologyOf(r.effort)
        /\ q.want.modelId \in {None, r.model} /\ q.want.topology \in {None, r.topology}
  BY EnumeratedRoute DEF q
<1>4. PICK m \in Entries : p.model = m.id /\ p.family = m.family
  BY DEF Proper
<1>5. q.catalog[i] \in Entries
  BY <1>1, EntriesAreReal
<1>6. r.model = p.model
  BY <1>2, <1>3, <1>4, EntriesAreReal
<1>7. r.family = p.family
  <2>1. q.catalog[i].id = m.id /\ m \in Entries
    BY <1>3, <1>4, <1>6
  <2>2. \A n \in Entries : n.id = m.id => n.family = m.family
    BY <2>1, EntriesAreReal
  <2> QED
    BY <1>3, <1>4, <1>5, <2>1, <2>2
<1>8. r.effort = p.effort
  BY <1>2, <1>3 DEF Proper, CandidateEfforts, Ask
<1>9. r.topology = p.topology
  BY <1>2, <1>3, RoutingAssumption DEF Proper
<1>10. r.tier = p.tier
  BY <1>2, <1>3 DEF Proper, CandidateTiers
<1>11. ASSUME p.speed \notin {None, "auto"}, want.speedId = p.speed, want.speedMode = None
       PROVE  r.speed = p.speed
  <2>1. q.want.speedId = p.speed /\ q.want.speedId # None /\ q.want.speedMode = None
    BY <1>2, <1>11 DEF Ask
  <2>2. None # "off" /\ None # "fast"
    BY RoutingAssumption
  <2> QED
    BY <1>3, <2>1, <2>2 DEF CandidateSpeeds
<1> QED
  BY <1>6, <1>7, <1>8, <1>9, <1>10, <1>11

\* What may be executed is allowed by what the decision was made from.
LEMMA ExecutableIsAllowed ==
  ASSUME env \in Environments, NEW v \in [Views -> Nat], v.profile \in 1..Len(env.repos), NEW h, NEW want,
         Executable(Route(v, h, want))
  PROVE  \E r \in Enumerate(Asked(v, h, want)) :
           Route(v, h, want).selected.route = r /\ AllowedBy(v, r)
<1> DEFINE d == Route(v, h, want)
           q == Asked(v, h, want)
<1>1. d.why = "decided" /\ d.selected.rejections = {} /\ d = DecideNormalized(q)
  BY DecidedAsAsked DEF Executable, Admissible
<1>2. PICK r \in Enumerate(q) : d.selected = Score(q, r)
  BY <1>1, DecidedOnACandidate
<1>3. \E e : d.selected.route = r /\ Rejections(q, r, e) = {}
  BY <1>1, <1>2, ScoredRoute
<1>4. AllowedBy(v, r)
  BY <1>3, AdmittedIsAllowed
<1> QED
  BY <1>2, <1>3, <1>4

LEMMA SameRouteAllowed ==
  ASSUME NEW v, NEW r, NEW p, AllowedBy(v, r), r.family = p.family, r.effort = p.effort,
         r.topology = p.topology, r.tier = p.tier, r.speed = p.speed
  PROVE  AllowedBy(v, p)
BY DEF AllowedBy

LEMMA WantFields ==
  ASSUME env \in Environments
  PROVE  Want = [f \in DOMAIN Anything |-> Want[f]]
BY RoutingAssumption DEF Want

LEMMA AskedAgain ==
  ASSUME env \in Environments, NEW p
  PROVE  LET w == AskAgain(p)
         IN  /\ w = [f \in DOMAIN Anything |-> w[f]]
             /\ w.modelId = p.model /\ w.effort = p.effort /\ w.topology = p.topology /\ w.tier = p.tier
BY WantFields DEF AskAgain, Anything

LEMMA PinnedFields ==
  ASSUME NEW p
  PROVE  LET w == Pinned(p)
         IN  /\ w = [f \in DOMAIN Anything |-> w[f]]
             /\ w.modelId = p.model /\ w.effort = p.effort /\ w.topology = p.topology /\ w.tier = p.tier
             /\ w.speedId = p.speed /\ w.speedMode = None
BY DEF Pinned, Anything

LEMMA TreatmentIsAllowed ==
  ASSUME env \in Environments, read \in [Views -> Nat], read.profile \in 1..Len(env.repos),
         read.catalog \in 1..Len(env.catalogs), NEW p, Proper(p), TreatmentStands(p)
  PROVE  AllowedBy(read, p)
<1> DEFINE w == AskAgain(p)
<1>1. Executable(Route(read, Learned(read), w)) /\ Route(read, Learned(read), w).selected.route.speed = p.speed
  BY DEF TreatmentStands, TreatmentStandsFor
<1>2. PICK r \in Enumerate(Asked(read, Learned(read), w)) : r.speed = p.speed /\ AllowedBy(read, r)
  BY <1>1, ExecutableIsAllowed
<1>3. /\ w = [f \in DOMAIN Anything |-> w[f]]
      /\ w.modelId = p.model /\ w.effort = p.effort /\ w.topology = p.topology /\ w.tier = p.tier
  BY AskedAgain
<1> HIDE DEF w
<1>4. r.family = p.family /\ r.effort = p.effort /\ r.topology = p.topology /\ r.tier = p.tier
  BY <1>2, <1>3, PinnedAgrees
<1> QED
  BY <1>2, <1>4, SameRouteAllowed

LEMMA ControlIsAllowed ==
  ASSUME env \in Environments, read \in [Views -> Nat], read.profile \in 1..Len(env.repos),
         read.catalog \in 1..Len(env.catalogs), NEW p, Proper(p), p.speed \notin {None, "auto"},
         ControlStands(p)
  PROVE  AllowedBy(read, p)
<1> DEFINE w == Pinned(p)
<1>1. Executable(Route(read, Learned(read), w))
  BY DEF ControlStands
<1>2. PICK r \in Enumerate(Asked(read, Learned(read), w)) : AllowedBy(read, r)
  BY <1>1, ExecutableIsAllowed
<1>3. /\ w = [f \in DOMAIN Anything |-> w[f]]
      /\ w.modelId = p.model /\ w.effort = p.effort /\ w.topology = p.topology /\ w.tier = p.tier
      /\ w.speedId = p.speed /\ w.speedMode = None
  BY PinnedFields
<1> HIDE DEF w
<1>4. r.family = p.family /\ r.effort = p.effort /\ r.topology = p.topology /\ r.tier = p.tier
      /\ r.speed = p.speed
  BY <1>2, <1>3, PinnedAgrees, SMTT(30)
<1> QED
  BY <1>2, <1>4, SameRouteAllowed

-----------------------------------------------------------------------------
LEMMA SmallestIndex ==
  ASSUME NEW S \in SUBSET Nat, S # {}
  PROVE  FirstOf(S) \in S /\ \A j \in S : FirstOf(S) <= j
<1> DEFINE R == OpToRel(<, Nat)
<1>1. IsWellFoundedOn(R, Nat)
  BY NatLessThanWellFounded
<1>2. \A x, y \in Nat : y < x => <<y, x>> \in R
  BY DEF OpToRel
<1> HIDE DEF R
<1>3. \E x \in S : \A y \in S : ~(<<y, x>> \in R)
  BY <1>1, WFMin
<1>4. PICK i \in S : \A y \in S : ~(<<y, i>> \in R)
  BY <1>3
<1>5. ASSUME NEW j \in S PROVE i <= j
  <2>1. i \in Nat /\ j \in Nat /\ ~(j < i)
    BY <1>2, <1>4
  <2> QED
    BY <2>1
<1> QED
  BY <1>4, <1>5 DEF FirstOf

LEMMA StaticModelIsShown ==
  ASSUME NEW config, NEW catalog, DOMAIN catalog \subseteq Nat, Visible(catalog) # {}
  PROVE  StaticModel(config, catalog) \in DOMAIN catalog
<1>1. \A S \in SUBSET DOMAIN catalog : S # {} => FirstOf(S) \in DOMAIN catalog
  BY SmallestIndex
<1> QED
  BY <1>1 DEF StaticModel, Visible

LEMMA ClosestEffort ==
  ASSUME NEW config, NEW m, NEW effort, config.candidateEfforts \in Seq(Range(config.candidateEfforts))
  PROVE  ClosestSupportedEffort(config, m, effort) \in m.efforts \cup {m.defaultEffort}
<1> DEFINE order == config.candidateEfforts
           here == Rank(order, effort)
           far(i) == IF i > here THEN i - here ELSE here - i
           near == {i \in DOMAIN order : order[i] \in SupportedEfforts(m)}
           nearest == {i \in near : \A j \in near : far(i) <= far(j)}
<1>1. SupportedEfforts(m) \subseteq m.efforts \cup {m.defaultEffort}
  BY DEF SupportedEfforts
<1>2. DOMAIN order = 1..Len(order) /\ Len(order) \in Nat
  OBVIOUS
<1>3. ASSUME effort \in Range(order), near # {} PROVE order[FirstOf(nearest)] \in SupportedEfforts(m)
  <2>1. here \in DOMAIN order
    BY <1>3 DEF Range, Rank
  <2>2. \A i \in DOMAIN order : far(i) \in Nat
    BY <1>2, <2>1
  <2> DEFINE distances == {far(i) : i \in near}
  <2>3. distances \in SUBSET Nat /\ distances # {}
    BY <1>3, <2>2
  <2>4. FirstOf(distances) \in distances /\ \A d \in distances : FirstOf(distances) <= d
    BY <2>3, SmallestIndex
  <2>5. nearest # {}
    <3>1. PICK i \in near : far(i) = FirstOf(distances)
      BY <2>4
    <3>2. \A j \in near : far(i) <= far(j)
      BY <2>4, <3>1
    <3> QED
      BY <3>2
  <2>6. nearest \in SUBSET Nat
    BY <1>2
  <2> HIDE DEF nearest, far
  <2>7. FirstOf(nearest) \in nearest
    BY <2>5, <2>6, SmallestIndex
  <2> QED
    BY <2>7 DEF nearest
<1> QED
  BY <1>1, <1>3 DEF ClosestSupportedEffort

LEMMA StaticIsProper ==
  ASSUME env \in Environments, NEW v \in [Views -> Nat], v.catalog \in 1..Len(env.catalogs),
         Shown(v), Static(v).tier \in TiersOf(read)
  PROVE  Proper(Static(v)) /\ Static(v).speed \notin {None, "auto"}
<1> DEFINE catalog == env.catalogs[v.catalog]
           i == StaticModel(Config, catalog)
           effort == ClosestSupportedEffort(Config, catalog[i], Config.static.effort)
           speed == ClosestSupportedSpeed(Config, catalog[i], Config.static.speed)
           tier == StaticTier(Config, TiersOf(v))
<1>1. Static(v) = [place |-> i, model |-> catalog[i].id, family |-> catalog[i].family,
        effort |-> effort, speed |-> speed, topology |-> TopologyOf(effort), tier |-> tier]
  BY DEF Static, StaticPolicy
<1>2. /\ Config.candidateEfforts = env.config.candidateEfforts /\ Config.static = env.config.static
      /\ Config.defaultSpeed = env.config.defaultSpeed
  BY ConfigFields DEF Defaults
<1>3. catalog[i] \in Entries
  BY StaticModelIsShown, EntriesAreReal DEF Shown
<1>4. effort \notin {None, "auto"}
  <2>1. effort \in catalog[i].efforts \cup {catalog[i].defaultEffort}
    <3>1. env.config.candidateEfforts \in Seq(Range(env.config.candidateEfforts))
      BY RoutingAssumption
    <3> QED
      BY <3>1, <1>2, ClosestEffort
  <2> QED
    BY <2>1, <1>3, EntriesAreReal
<1>5. speed \notin {None, "auto"}
  <2>1. speed \in {Config.static.speed, Config.defaultSpeed, "standard"}
    BY DEF ClosestSupportedSpeed
  <2>2. {None, "auto"} \cap {env.config.static.speed, env.config.defaultSpeed} = {} /\ None # "standard"
    BY RoutingAssumption DEF Range, Tiers
  <2> QED
    BY <1>2, <2>1, <2>2
<1>6. Static(v).tier # None
  BY RoutingAssumption DEF TiersOf, AvailableTiers
<1> HIDE DEF effort, speed, tier, i, catalog
<1> QED
  BY <1>1, <1>3, <1>4, <1>5, <1>6 DEF Proper, TopologyOf

-----------------------------------------------------------------------------
LEMMA EffortRanks == \A e \in Range(Efforts) : EffortRank(e) \in Int
<1>1. DOMAIN Efforts = 1..9
  BY DEF Efforts
<1>2. \A e \in Range(Efforts) : \E i \in DOMAIN Efforts : Efforts[i] = e
  BY DEF Range
<1> QED
  BY <1>1, <1>2 DEF EffortRank, Rank

LEMMA FamilyRanks ==
  /\ FamilyRank("unknown") = 1 /\ FamilyRank("luna") = 2 /\ FamilyRank("terra") = 3
  /\ FamilyRank("sol") = 4
<1> DEFINE order == <<"unknown", "luna", "terra", "sol">>
<1>1. /\ DOMAIN order = 1..4 /\ order[1] = "unknown" /\ order[2] = "luna" /\ order[3] = "terra"
      /\ order[4] = "sol"
  OBVIOUS
<1>2. \A i \in 1..4 : i = 1 \/ i = 2 \/ i = 3 \/ i = 4
  OBVIOUS
<1> HIDE DEF order
<1>3. ASSUME NEW k \in 1..4 PROVE Rank(order, order[k]) = k
  <2>1. \A i \in DOMAIN order : order[i] = order[k] => i = k
    BY <1>1, <1>2
  <2> QED
    BY <1>1, <2>1 DEF Rank
<1>4. /\ Rank(order, "unknown") = 1 /\ Rank(order, "luna") = 2 /\ Rank(order, "terra") = 3
      /\ Rank(order, "sol") = 4
  BY <1>1, <1>3
<1> QED
  BY <1>4 DEF FamilyRank, order

\* An edge of the capability graph leads to more of something and to less of nothing.
LEMMA SuccessorIsStronger ==
  ASSUME env \in Environments, NEW d, NEW a, NEW b, Node(a) \in Successors(d, Node(b)),
         \E m \in Entries : a.model = m.id /\ a.family = m.family,
         \E m \in Entries : b.model = m.id /\ b.family = m.family
  PROVE  /\ \A i \in 1..3 : Power(a)[i] >= Power(b)[i]
         /\ Power(a) # Power(b)
<1>1. /\ a.family \in {"luna", "terra", "sol", "unknown"}
      /\ b.family \in {"luna", "terra", "sol", "unknown"}
      /\ a.model = b.model => a.family = b.family
  BY EntriesAreReal
<1>2. /\ Node(a).model = a.model /\ Node(a).family = a.family /\ Node(a).effort = a.effort
      /\ Node(a).topology = a.topology
      /\ Node(b).model = b.model /\ Node(b).family = b.family /\ Node(b).effort = b.effort
      /\ Node(b).topology = b.topology
  BY DEF Node
<1>3. /\ {a.effort, b.effort} \subseteq Range(Efforts) /\ EffortRank(a.effort) >= EffortRank(b.effort)
      /\ \/ a.model = b.model /\ a.topology = b.topology /\ EffortRank(a.effort) > EffortRank(b.effort)
         \/ b.family = "luna" /\ a.family = "terra" /\ a.topology = b.topology
         \/ b.family = "terra" /\ a.family = "sol" /\ a.topology = b.topology
         \/ a.model = b.model /\ a.topology = "ultra" /\ b.topology = "single"
  <2>1. \A S : LeastEffort(S) \subseteq S
    BY DEF LeastEffort
  <2> DEFINE n == Node(a)  from == Node(b)
             strong == {m \in Nodes(d) : /\ {m.effort, from.effort} \subseteq Range(Efforts)
                                         /\ EffortRank(m.effort) >= EffortRank(from.effort)}
  <2> HIDE DEF n, from
  <2>2. \/ n \in {m \in strong : /\ EffortRank(m.effort) > EffortRank(from.effort)
                                /\ m.model = from.model /\ m.topology = from.topology}
        \/ /\ FamilyEscalates(from.family, d.features)
           /\ n \in {m \in strong : /\ m.family = NextFamily[from.family]
                                   /\ m.topology = from.topology}
        \/ /\ from.topology = "single"
           /\ n \in {m \in strong : m.model = from.model /\ m.topology = "ultra"}
    <3>1. n \in Successors(d, from)
      BY DEF n, from
    <3> HIDE DEF strong
    <3> QED
      BY <3>1, <2>1 DEF Successors, strong
  <2>3. FamilyEscalates(from.family, d.features) => from.family \in {"luna", "terra"}
    BY DEF FamilyEscalates
  <2>4. NextFamily["luna"] = "terra" /\ NextFamily["terra"] = "sol"
    BY DEF NextFamily
  <2>5. /\ {n.effort, from.effort} \subseteq Range(Efforts)
        /\ EffortRank(n.effort) >= EffortRank(from.effort)
        /\ \/ n.model = from.model /\ n.topology = from.topology
              /\ EffortRank(n.effort) > EffortRank(from.effort)
           \/ /\ from.family \in {"luna", "terra"} /\ n.family = NextFamily[from.family]
              /\ n.topology = from.topology
           \/ n.model = from.model /\ n.topology = "ultra" /\ from.topology = "single"
    BY <2>2, <2>3
  <2>6. /\ n.model = a.model /\ n.family = a.family /\ n.effort = a.effort /\ n.topology = a.topology
        /\ from.model = b.model /\ from.family = b.family /\ from.effort = b.effort
        /\ from.topology = b.topology
    BY <1>2 DEF n, from
  <2> QED
    BY <2>4, <2>5, <2>6
<1>4. EffortRank(a.effort) \in Int /\ EffortRank(b.effort) \in Int
  BY <1>3, EffortRanks
<1>5. FamilyRank(a.family) \in Int /\ FamilyRank(b.family) \in Int
  BY <1>1, FamilyRanks
<1>6. \A r : /\ Power(r)[1] = FamilyRank(r.family) /\ Power(r)[2] = EffortRank(r.effort)
             /\ Power(r)[3] = IF r.topology = "ultra" THEN 1 ELSE 0
  BY DEF Power
<1>7. Power(a)[1] >= Power(b)[1]
  BY <1>1, <1>3, <1>5, <1>6, FamilyRanks
<1>8. Power(a)[2] >= Power(b)[2]
  BY <1>3, <1>6
<1>9. Power(a)[3] >= Power(b)[3]
  BY <1>3, <1>6
<1>10. \/ Power(a)[1] # Power(b)[1] \/ Power(a)[2] # Power(b)[2] \/ Power(a)[3] # Power(b)[3]
  BY <1>3, <1>4, <1>6, FamilyRanks
<1>11. \A i \in 1..3 : i = 1 \/ i = 2 \/ i = 3
  OBVIOUS
<1> QED
  BY <1>7, <1>8, <1>9, <1>10, <1>11

\* What preflight decided is an enumerated route, and its successor another, a stronger one.
LEMMA PreflightIsProper ==
  ASSUME env \in Environments, NEW v \in [Views -> Nat], v.catalog \in 1..Len(env.catalogs), NEW h,
         NEW want, Route(v, h, want).why = "decided"
  PROVE  LET d == Route(v, h, want)
         IN  /\ Proper(d.selected.route)
             /\ StrictSuccessor(d, d.selected.route) # None =>
                  /\ Proper(StrictSuccessor(d, d.selected.route))
                  /\ Stronger(StrictSuccessor(d, d.selected.route), d.selected.route)
<1> DEFINE d == Route(v, h, want)
           q == Asked(v, h, want)
           b == d.selected.route
           a == StrictSuccessor(d, b)
<1>1. d = DecideNormalized(q) /\ d.why = "decided"
  BY DecidedAsAsked
<1>2. \A r \in Enumerate(q) : Proper(r) /\ Score(q, r).route = r
  BY EnumeratedIsProper, ScoredRoute
<1>3. Proper(b)
  BY <1>1, <1>2, DecidedOnACandidate
<1> HIDE DEF q, d
<1>4. ASSUME a # None PROVE Proper(a) /\ Stronger(a, b)
  <2> DEFINE eligible == {c \in d.fit : /\ Node(c.route) \in Successors(d, Node(b))
                                        /\ c.route.speed = b.speed
                                        /\ TierRank(c.route.tier) >= TierRank(b.tier)}
  <2>1. eligible # {} /\ a = Foremost(eligible, <<"credits", "capability", "place">>).route
    BY <1>4 DEF StrictSuccessor
  <2> HIDE DEF eligible
  <2>2. PICK c \in eligible : a = c.route
    BY <2>1, ForemostIsOne
  <2>3. /\ c \in d.fit /\ Node(a) \in Successors(d, Node(b)) /\ a.speed = b.speed
        /\ TierRank(a.tier) >= TierRank(b.tier)
    BY <2>2 DEF eligible
  <2>4. Proper(a)
    BY <2>2, <2>3, <1>1, <1>2, DecidedOnACandidate
  <2> QED
    BY <2>3, <2>4, <1>3, SuccessorIsStronger DEF Stronger, Proper
<1> QED
  BY <1>3, <1>4 DEF d

-----------------------------------------------------------------------------
(* The first state, and the moves of the world *)

LEMMA InitHolds == Init => IInv
<1> SUFFICES ASSUME Init PROVE IInv
  OBVIOUS
<1>1. turns \in Seq({}) /\ Len(turns) = 0 /\ DOMAIN turns = {}
  BY DEF Init
<1>2. Shapes
  <2>1. world \in [Sources -> Nat] /\ \A s \in Sources : world[s] \in 1..Versions(s)
    BY VersionsExist DEF Init
  <2>2. plan \in [Views -> Nat] /\ read \in [Views -> Nat] /\ frozen \in Nat /\ \E S : turns \in Seq(S)
    BY <1>1 DEF Init, NoView, Views
  <2>3. 0 \in 0..MaxTrouble
    BY EnvironmentAssumption
  <2>5. pc \in Stages /\ action \in {None, "execute", "static", "auto", "twin", "abstain"} /\ round \in 1..2
    BY DEF Init, Stages
  <2>6. applied \in BOOLEAN
    BY DEF Init
  <2>7. trouble \in 0..MaxTrouble
    BY <2>3 DEF Init
  <2>8. env \in Environments /\ report = None
    BY DEF Init
  <2>4. TypeOK
    BY <2>1, <2>5, <2>6, <2>7, <2>8 DEF TypeOK
  <2> QED
    BY <2>1, <2>2, <2>4 DEF Shapes
<1>3. Course /\ Spending
  BY <1>1, EnvironmentAssumption DEF Init, Course, Spending, Before
<1>4. Reading
  BY DEF Init, Reading, Sources, NoView
<1>5. Contract /\ CertifiedIsCurrent
  BY <1>1, EnvironmentAssumption DEF Init, Contract, CertifiedIsCurrent
<1> QED
  BY <1>2, <1>3, <1>4, <1>5 DEF IInv

LEMMA DriftKeeps == ASSUME IInv, NEW s \in Sources, Drift(s) PROVE IInv'
<1>1. /\ world' = [world EXCEPT ![s] = @ + 1] /\ world[s] < Versions(s)
      /\ env' = env /\ pc' = pc /\ action' = action /\ plan' = plan /\ read' = read
      /\ turns' = turns
  BY DEF Drift
<1>2. /\ world \in [Sources -> Nat] /\ \A x \in Sources : world[x] \in 1..Versions(x)
      /\ env \in Environments
  BY DEF IInv, Shapes, TypeOK
<1>3. \A x \in Sources : Versions(x) \in Nat
  BY <1>2, VersionsExist
<1>4. world' \in [Sources -> Nat] /\ \A x \in Sources : world'[x] \in 1..Versions(x)
  BY <1>1, <1>2, <1>3
<1>5. world'.repo >= world.repo /\ world.repo \in Nat /\ world'.repo \in Nat
  BY <1>1, <1>2 DEF Sources
<1>6. Shapes'
  BY <1>4 DEF IInv, Shapes, TypeOK, Drift, Versions
<1>7. Course' /\ Spending'
  BY DEF IInv, Course, Spending, Drift, Product
<1>8. Reading'
  <2>1. plan.profile \in Nat /\ read.caps \in Nat /\ read.profile \in Nat
    BY DEF IInv, Shapes, Views
  <2>2. Product' = Product
    BY <1>1, SameRequest
  <2> QED
    BY <1>1, <1>5, <2>1, <2>2 DEF IInv, Reading
<1>9. Contract'
  BY SamePlan, SameContract, SameRequest DEF IInv, Contract, Drift, QuotaSeen, QuotaOf, Config, Product
<1>10. CertifiedIsCurrent'
  <2> SUFFICES ASSUME report = "verified" \/ applied, action # "twin"
               PROVE  CertifiedIsCurrent'
    BY DEF Drift, CertifiedIsCurrent
  <2> DEFINE t == Last(turns)
  <2>1. PICK v \in t.read.profile..world.repo :
          /\ env.repos[v] = env.repos[t.read.caps]
          /\ \/ env.repos[t.read.caps].profile = env.repos[t.plan.profile].profile
             \/ t.plan.profile < t.read.caps /\ t.read.caps < t.read.profile /\ t.read.profile < v
    BY DEF IInv, CertifiedIsCurrent
  <2>2. v \in t.read.profile..world'.repo
    BY <1>5, <2>1
  <2> QED
    BY <2>1, <2>2 DEF IInv, CertifiedIsCurrent, Drift
<1> QED
  BY <1>6, <1>7, <1>8, <1>9, <1>10 DEF IInv

-----------------------------------------------------------------------------
(* What most steps have in common *)

Actions == {None, "execute", "static", "auto", "twin", "abstain"}
Reports == {None, "error", "configuration_required", "abstain", "ready", "verified",
            "defect", "failed", "cancelled", "reconciliation_required"}
Running == {"snapshot", "profile", "query", "check", "send", "turn"}

LEMMA ShapesKeep ==
  ASSUME Shapes, env' = env, world' = world, pc' \in Stages, action' \in Actions,
         round' \in 1..2, report' \in Reports, applied' \in BOOLEAN,
         trouble' \in 0..MaxTrouble, plan' \in [Views -> Nat], read' \in [Views -> Nat],
         frozen' \in Nat, \E S : turns' \in Seq(S)
  PROVE  Shapes'
<1>1. env' \in Environments /\ \A s \in Sources : world'[s] \in 1..Versions(s)'
  BY DEF Shapes, TypeOK, Versions
<1>2. TypeOK'
  BY <1>1 DEF TypeOK, Actions, Reports
<1> QED
  BY <1>2 DEF Shapes

\* What a request knows of its own state.
LEMMA Known ==
  ASSUME IInv
  PROVE  /\ pc \in Stages /\ action \in Actions /\ round \in 1..2 /\ report \in Reports
         /\ applied \in BOOLEAN /\ trouble \in 0..MaxTrouble
         /\ plan \in [Views -> Nat] /\ read \in [Views -> Nat] /\ frozen \in Nat
         /\ \E S : turns \in Seq(S)
         /\ world \in [Sources -> Nat] /\ env \in Environments
         /\ world.repo >= 1 /\ world.repo <= Len(env.repos)
<1>1. world["repo"] \in 1..Versions("repo") /\ env \in Environments
  BY DEF IInv, Shapes, TypeOK, Sources
<1>2. world["repo"] >= 1 /\ world["repo"] <= Len(env.repos)
  BY <1>1, VersionsExist
<1> QED
  BY <1>1, <1>2 DEF IInv, Shapes, TypeOK, Actions, Reports

\* One more thing that went wrong.
LEMMA TroubleCounts ==
  ASSUME IInv, trouble' = trouble \/ (trouble < MaxTrouble /\ trouble' = trouble + 1)
  PROVE  trouble' \in 0..MaxTrouble
BY Known, EnvironmentAssumption

LEMMA SpendingKeeps ==
  ASSUME IInv, pc \in Before, env' = env, turns' = turns, round' \in 1..2, round' >= round
  PROVE  Spending'
<1>1. Product' = Product /\ round \in 1..2 /\ Len(turns) \in Nat
  BY SameRequest, Known, Appended
<1>2. \A i \in DOMAIN turns : turns[i].round < round'
  BY <1>1 DEF IInv, Spending
<1> QED
  BY <1>1, <1>2 DEF IInv, Spending

\* Before its turn has ended a request has certified nothing.
LEMMA Uncertified ==
  ASSUME IInv, pc \in Before \cup {"turn"}, applied' = applied, report' # "verified"
  PROVE  CertifiedIsCurrent'
BY DEF IInv, Course, Before, CertifiedIsCurrent

LEMMA ContractKeeps ==
  ASSUME IInv, env' = env, plan' = plan, frozen' = frozen, turns' = turns,
         Product /\ pc' \in Running => pc \in Running,
         pc' # "send"
  PROVE  Contract'
<1>1. Product' = Product /\ PlanIsFrozen' = PlanIsFrozen
      /\ \A i \in DOMAIN turns : Contracted(turns[i])' = Contracted(turns[i])
  BY SameRequest, SamePlan, SameContract
<1> QED
  BY <1>1 DEF IInv, Contract, Running

\* What is made before the first run may still be replaced.
LEMMA NothingSpent ==
  ASSUME IInv, Product, pc \in {"begin", "discover", "inspect", "freeze"}
  PROVE  DOMAIN turns = {} /\ round = 1
<1>1. Len(turns) < 1 /\ round = 1
  BY DEF IInv, Course, Spending, Before
<1>2. Len(turns) \in Nat /\ DOMAIN turns = 1..Len(turns)
  BY Known, Appended
<1> QED
  BY <1>1, <1>2

-----------------------------------------------------------------------------
(* Every step keeps the invariant *)

LEMMA BeginKeeps == ASSUME IInv, Begin PROVE IInv'
<1> USE DEF Begin, Goto, Answer
<1>1. /\ pc = "begin" /\ pc' \in {"discover", "end"} /\ report' \in {report, "error"}
      /\ (pc' = "discover" => report' = report) /\ Product' = Product /\ round' >= round
  BY SameRequest, Known
<1>2. Shapes'
  BY <1>1, Known, ShapesKeep DEF IInv, Reports, Stages
<1>3. Course'
  BY <1>1 DEF IInv, Course
<1>4. Spending' /\ CertifiedIsCurrent'
  <2>1. report = None /\ env' = env /\ turns' = turns /\ round' = round /\ applied' = applied
    BY <1>1 DEF IInv, Course
  <2> QED
    BY <1>1, <2>1, Known, SpendingKeeps, Uncertified, EnvironmentAssumption DEF Before
<1>5. Reading'
  BY <1>1 DEF IInv, Reading
<1>6. Contract'
  BY <1>1, ContractKeeps DEF Running
<1> QED
  BY <1>2, <1>3, <1>4, <1>5, <1>6 DEF IInv

LEMMA DiscoverKeeps == ASSUME IInv, Discover PROVE IInv'
<1>1. /\ pc = "discover" /\ pc' \in {"inspect", "end"} /\ report' \in {report, "error"}
      /\ (pc' = "inspect" => report' = report) /\ round' = round /\ action' = action
      /\ env' = env /\ world' = world /\ frozen' = frozen /\ read' = read /\ turns' = turns
      /\ applied' = applied
      /\ trouble' = trouble \/ (trouble < MaxTrouble /\ trouble' = trouble + 1)
      /\ plan' = [profile |-> world.repo, caps |-> 0, catalog |-> world.catalog,
                  quota |-> world.quota, evidence |-> IF Product THEN 0 ELSE world.evidence]
  BY DEF Discover, Goto, Answer, Fails
<1>2. Product' = Product /\ report = None
  BY <1>1, SameRequest DEF IInv, Course
<1>3. Shapes'
  <2>1. plan' \in [Views -> Nat]
    <3>1. world.repo \in Nat /\ world.catalog \in Nat /\ world.quota \in Nat /\ world.evidence \in Nat
      BY Known DEF Sources
    <3> QED
      BY <1>1, <3>1 DEF Views
  <2>2. trouble' \in 0..MaxTrouble
    BY <1>1, TroubleCounts
  <2> QED
    BY <1>1, <2>1, <2>2, Known, ShapesKeep DEF IInv, Reports, Stages
<1>4. Course'
  BY <1>1, <1>2 DEF IInv, Course
<1>5. Spending' /\ CertifiedIsCurrent'
  BY <1>1, <1>2, Known, SpendingKeeps, Uncertified, EnvironmentAssumption DEF Before
<1>6. Reading'
  BY <1>1, Known DEF Reading, Sources
<1>7. Contract'
  BY <1>1, <1>2, NothingSpent DEF Contract
<1> QED
  BY <1>3, <1>4, <1>5, <1>6, <1>7 DEF IInv

LEMMA InspectProductKeeps == ASSUME IInv, InspectProduct PROVE IInv'
<1>1. /\ pc = "inspect" /\ pc' \in {"freeze", "end"} /\ Product
      /\ report' \in {report, "configuration_required", "abstain"}
      /\ (pc' = "freeze" => report' = report) /\ round' = round /\ action' = "execute"
      /\ env' = env /\ world' = world /\ frozen' = frozen /\ read' = read /\ turns' = turns
      /\ applied' = applied /\ trouble' = trouble
      /\ plan' = [plan EXCEPT !.caps = world.repo]
  BY DEF InspectProduct, Goto, Answer, Inspected
<1>2. Product' = Product /\ report = None
  BY <1>1, SameRequest DEF IInv, Course
<1>3. plan' \in [Views -> Nat] /\ plan'.profile = plan.profile
  BY <1>1, Known DEF Views, Sources
<1>4. Shapes'
  BY <1>1, <1>3, Known, ShapesKeep DEF IInv, Reports, Stages, Actions
<1>5. Course'
  BY <1>1, <1>2 DEF IInv, Course
<1>6. Spending' /\ CertifiedIsCurrent'
  BY <1>1, <1>2, Known, SpendingKeeps, Uncertified, EnvironmentAssumption DEF Before
<1>7. Reading'
  BY <1>1, <1>3 DEF IInv, Reading
<1>8. Contract'
  BY <1>1, <1>2, NothingSpent DEF Contract
<1> QED
  BY <1>4, <1>5, <1>6, <1>7, <1>8 DEF IInv

LEMMA InspectMetaKeeps == ASSUME IInv, InspectMeta PROVE IInv'
<1>1. /\ pc = "inspect" /\ pc' \in {"finish", "snapshot", "end"} /\ ~Product
      /\ report' \in {report, "error"} /\ round' = round
      /\ (pc' # "end" => report' = report)
      /\ env' = env /\ world' = world /\ frozen' = frozen /\ read' = read /\ turns' = turns
      /\ applied' = applied
      /\ trouble' = trouble \/ (trouble < MaxTrouble /\ trouble' = trouble + 1)
      /\ plan' = [plan EXCEPT !.caps = world.repo]
  BY DEF InspectMeta, Goto, Answer, Fails, Inspected
<1>2. Product' = Product /\ report = None
  BY <1>1, SameRequest DEF IInv, Course
<1>3. plan' \in [Views -> Nat] /\ plan'.profile = plan.profile
  BY <1>1, Known DEF Views, Sources
<1>4. action' \in Actions \ {"execute"}
  <2>1. MetaDecision(Inspected) \in {"abstain", "auto", "static", "twin"}
    BY DEF MetaDecision
  <2>2. Demoted(MetaDecision(Inspected), Inspected) \in {"abstain", "auto", "static", "twin"}
    BY <2>1 DEF Demoted
  <2>3. action' \in {action, MetaDecision(Inspected), Demoted(MetaDecision(Inspected), Inspected)}
    BY DEF InspectMeta
  <2>4. action \in Actions \ {"execute"}
    BY <1>1, Known DEF IInv, Course
  <2> QED
    BY <2>1, <2>2, <2>3, <2>4 DEF Actions
<1>5. Shapes'
  <2>1. trouble' \in 0..MaxTrouble
    BY <1>1, TroubleCounts
  <2> QED
    BY <1>1, <1>3, <1>4, <2>1, Known, ShapesKeep DEF IInv, Reports, Stages, Actions
<1>6. Course'
  BY <1>1, <1>2, <1>4 DEF IInv, Course
<1>7. Spending' /\ CertifiedIsCurrent'
  BY <1>1, <1>2, Known, SpendingKeeps, Uncertified, EnvironmentAssumption DEF Before
<1>8. Reading'
  BY <1>1, <1>3 DEF IInv, Reading
<1>9. Contract'
  BY <1>1, <1>2 DEF Contract
<1> QED
  BY <1>5, <1>6, <1>7, <1>8, <1>9 DEF IInv

LEMMA FreezeKeeps == ASSUME IInv, Freeze PROVE IInv'
<1>1. /\ pc = "freeze" /\ pc' \in {"end", "receipts", "snapshot"}
      /\ report' \in {report, "configuration_required", "abstain", "ready"}
      /\ (pc' # "end" => report' = report) /\ round' = round /\ action' = action
      /\ env' = env /\ world' = world /\ frozen' = world.repo /\ read' = read /\ turns' = turns
      /\ applied' = applied /\ trouble' = trouble /\ plan' = plan
  BY DEF Freeze, Goto, Answer
<1>2. Product' = Product /\ report = None /\ Product
  BY <1>1, SameRequest DEF IInv, Course
<1>3. Shapes'
  BY <1>1, Known, ShapesKeep DEF IInv, Reports, Stages, Sources
<1>4. Course'
  BY <1>1, <1>2 DEF IInv, Course
<1>5. Spending' /\ CertifiedIsCurrent'
  BY <1>1, <1>2, Known, SpendingKeeps, Uncertified, EnvironmentAssumption DEF Before
<1>6. Reading'
  BY <1>1 DEF IInv, Reading
<1>7. ASSUME pc' = "snapshot" PROVE PlanIsFrozen'
  <2>1. /\ Certifying(world.repo, PreflightRoute.tier)
        /\ ~(Preflight(plan).features.risk >= 500)
    BY <1>7 DEF Freeze, Answer, Goto, PreflightRoute
  <2>2. plan.profile \in 1..Len(env.repos)
    <3>1. plan.profile <= world.repo /\ plan.profile >= 1
      BY <1>1 DEF IInv, Reading
    <3>2. plan.profile \in Nat /\ world.repo \in Nat /\ Len(env.repos) \in Nat
      BY Known, VersionsExist, EnvironmentAssumption DEF Views, Sources
    <3> QED
      BY <3>1, <3>2, Known
  <2>3. Preflight(plan).features.risk = env.repos[plan.profile].features.risk
    BY <2>2, Known, RiskIsRead DEF Preflight
  <2>4. env.repos[plan.profile].features.risk \in Int
    <3>1. env.repos[plan.profile].features \in [Features -> Int]
      BY <2>2, Known, EnvironmentAssumption
    <3> QED
      BY <3>1 DEF Features
  <2>5. env.repos[plan.profile].features.risk < 500
    BY <2>1, <2>3, <2>4
  <2>6. Certifying(frozen', PreflightRoute.tier)
    BY <1>1, <2>1
  <2>7. env.host
    BY <2>6 DEF Certifying
  <2>8. Certifying(frozen, PreflightRoute.tier)'
    BY <1>1, <2>6, SameRequest DEF PreflightRoute, Preflight, Route, Config, Want, Product,
       QuotaOf, TiersOf, Commands, Certifying
  <2> QED
    BY <1>1, <2>5, <2>7, <2>8 DEF PlanIsFrozen
<1>8. Contract'
  BY <1>1, <1>2, <1>7, NothingSpent DEF Contract
<1> QED
  BY <1>3, <1>4, <1>5, <1>6, <1>8 DEF IInv

LEMMA SnapshotKeeps == ASSUME IInv, Snapshot PROVE IInv'
<1>1. /\ pc = "snapshot" /\ pc' = "profile" /\ report' = report /\ round' = round
      /\ action' = action /\ env' = env /\ world' = world /\ frozen' = frozen
      /\ turns' = turns /\ applied' = applied /\ trouble' = trouble /\ plan' = plan
      /\ read' = [NoView EXCEPT !.caps = world.repo]
  BY DEF Snapshot, Goto
<1>2. Product' = Product /\ report = None
  BY <1>1, SameRequest DEF IInv, Course
<1>3. read' \in [Views -> Nat] /\ read'.caps = world.repo
  <2>1. read' = [profile |-> 0, caps |-> world.repo, catalog |-> 0, quota |-> 0, evidence |-> 0]
    BY <1>1 DEF NoView
  <2>2. world.repo \in Nat
    BY Known DEF Sources
  <2> QED
    BY <2>1, <2>2 DEF Views
<1>4. Shapes'
  BY <1>1, <1>3, Known, ShapesKeep DEF IInv, Stages
<1>5. Course'
  BY <1>1, <1>2 DEF IInv, Course
<1>6. Spending' /\ CertifiedIsCurrent'
  BY <1>1, <1>2, Known, SpendingKeeps, Uncertified, EnvironmentAssumption DEF Before
<1>7. Reading'
  BY <1>1, <1>3, Known DEF IInv, Reading, Sources
<1>8. Contract'
  BY <1>1, ContractKeeps DEF Running
<1> QED
  BY <1>4, <1>5, <1>6, <1>7, <1>8 DEF IInv

LEMMA ProfileKeeps == ASSUME IInv, Profile PROVE IInv'
<1>1. PICK w \in Windows :
        /\ read' = [read EXCEPT !.caps = w[1], !.profile = w[2]]
        /\ IF ~Product /\ env.repos[w[2]].profile # env.repos[plan.profile].profile
             THEN Refresh ELSE Goto("query") /\ UNCHANGED round
  BY DEF Profile
<1>2. /\ pc = "profile" /\ action' = action /\ env' = env /\ world' = world /\ frozen' = frozen
      /\ turns' = turns /\ applied' = applied /\ trouble' = trouble /\ plan' = plan
  BY DEF Profile
<1>3. /\ pc' \in {"query", "discover", "end"} /\ report' \in {report, "error"}
      /\ (pc' # "end" => report' = report)
      /\ pc' # "query" => ~Product
      /\ pc' = "query" /\ ~Product =>
           env.repos[w[2]].profile = env.repos[plan.profile].profile
      /\ round' \in 1..2 /\ round' >= round
  BY <1>1, Known DEF Refresh, Goto, Answer
<1>4. Product' = Product /\ report = None
  BY <1>2, SameRequest DEF IInv, Course
<1>5. /\ read.caps \in Nat /\ world.repo \in Nat /\ plan.profile \in Nat
      /\ plan.profile <= read.caps /\ read.caps <= world.repo /\ plan.profile >= 1
  BY <1>2, Known DEF IInv, Reading, Views, Sources
<1>6. w[1] \in {read.caps, world.repo} /\ w[2] \in {read.caps, world.repo}
      /\ (action # "twin" => w[1] = read.caps /\ w[2] = world.repo)
  BY <1>1 DEF Windows
<1>7. read' \in [Views -> Nat] /\ read'.caps = w[1] /\ read'.profile = w[2]
  BY <1>1, <1>5, <1>6, Known DEF Views
<1>8. Shapes'
  BY <1>2, <1>3, <1>7, Known, ShapesKeep DEF IInv, Reports, Stages
<1>9. Course'
  BY <1>2, <1>3, <1>4 DEF IInv, Course
<1>10. Spending' /\ CertifiedIsCurrent'
  BY <1>2, <1>3, <1>4, Known, SpendingKeeps, Uncertified, EnvironmentAssumption DEF Before
<1>11. Reading'
  BY <1>2, <1>3, <1>4, <1>5, <1>6, <1>7 DEF Reading
<1>12. Contract'
  BY <1>2, <1>3, ContractKeeps DEF Running
<1> QED
  BY <1>8, <1>9, <1>10, <1>11, <1>12 DEF IInv

LEMMA QueryKeeps == ASSUME IInv, Query PROVE IInv'
<1>1. /\ pc = "query" /\ pc' = "check" /\ report' = report /\ round' = round
      /\ action' = action /\ env' = env /\ world' = world /\ frozen' = frozen
      /\ turns' = turns /\ applied' = applied /\ trouble' = trouble /\ plan' = plan
      /\ read' = [read EXCEPT !.catalog = world.catalog, !.quota = world.quota,
                              !.evidence = world.evidence]
  BY DEF Query, Goto
<1>2. Product' = Product /\ report = None
  BY <1>1, SameRequest DEF IInv, Course
<1>3. read' \in [Views -> Nat] /\ read'.caps = read.caps /\ read'.profile = read.profile
  BY <1>1, Known DEF Views, Sources
<1>4. Shapes'
  BY <1>1, <1>3, Known, ShapesKeep DEF IInv, Stages
<1>5. Course'
  BY <1>1, <1>2 DEF IInv, Course
<1>6. Spending' /\ CertifiedIsCurrent'
  BY <1>1, <1>2, Known, SpendingKeeps, Uncertified, EnvironmentAssumption DEF Before
<1>7. Reading'
  BY <1>1, <1>2, <1>3 DEF IInv, Reading
<1>8. Contract'
  BY <1>1, ContractKeeps DEF Running
<1> QED
  BY <1>4, <1>5, <1>6, <1>7, <1>8 DEF IInv

LEMMA CheckKeeps == ASSUME IInv, Check PROVE IInv'
<1>1. /\ pc = "check" /\ action' = action /\ env' = env /\ world' = world /\ frozen' = frozen
      /\ turns' = turns /\ applied' = applied /\ read' = read /\ plan' = plan
      /\ trouble' = trouble \/ (trouble < MaxTrouble /\ trouble' = trouble + 1)
  BY DEF Check
<1>2. /\ pc' \in {"send", "discover", "receipts", "end"} /\ report' \in {report, "error"}
      /\ (pc' # "end" => report' = report)
      /\ pc' = "discover" => ~Product
      /\ pc' = "receipts" => Product
      /\ pc' = "end" => ~Product
      /\ pc' = "send" => ~Invalidated
      /\ round' \in 1..2 /\ round' >= round
  BY Known DEF Check, Refresh, NotSent, Goto, Answer
<1>3. Product' = Product /\ report = None /\ (Product <=> action = "execute")
  BY <1>1, SameRequest DEF IInv, Course
<1>4. pc' = "send" /\ Product => EnvelopeStands
  BY <1>2, <1>3 DEF Invalidated
<1>5. Shapes'
  BY <1>1, <1>2, Known, TroubleCounts, ShapesKeep DEF IInv, Reports, Stages
<1>6. Course'
  BY <1>1, <1>2, <1>3 DEF IInv, Course
<1>7. Spending' /\ CertifiedIsCurrent'
  BY <1>1, <1>2, <1>3, Known, SpendingKeeps, Uncertified, EnvironmentAssumption DEF Before
<1>8. Reading'
  BY <1>1, <1>2, <1>3, <1>4, QuotaIsShown DEF IInv, Reading
<1>9. Contract'
  <2>1. PlanIsFrozen' = PlanIsFrozen
        /\ \A i \in DOMAIN turns : Contracted(turns[i])' = Contracted(turns[i])
    BY <1>1, SamePlan, SameContract
  <2>2. QuotaSeen(plan)' = QuotaSeen(plan) /\ QuotaSeen(read)' = QuotaSeen(read)
    BY <1>1, SameRequest DEF QuotaSeen, QuotaOf
  <2>3. Product => PlanIsFrozen
    BY <1>1 DEF IInv, Contract
  <2> QED
    BY <1>1, <1>3, <1>4, <2>1, <2>2, <2>3, QuotaIsShown DEF IInv, Contract
<1> QED
  BY <1>5, <1>6, <1>7, <1>8, <1>9 DEF IInv

LEMMA SendKeeps == ASSUME IInv, Send PROVE IInv'
<1> DEFINE t == [round |-> round, routes |-> Policies, plan |-> plan, read |-> read]
<1>1. /\ pc = "send" /\ action' = action /\ env' = env /\ world' = world /\ frozen' = frozen
      /\ round' = round /\ applied' = applied /\ read' = read /\ plan' = plan
      /\ trouble' = trouble
      /\ \/ Intact /\ turns' = Append(turns, t) /\ pc' = "turn" /\ report' = report
         \/ /\ turns' = turns /\ report' \in {report, "error"}
            /\ pc' = IF Product THEN "receipts" ELSE "end"
            /\ (Product => report' = report)
  BY DEF Send, NotSent, Goto, Answer
<1>2. Product' = Product /\ report = None /\ applied = FALSE
  BY <1>1, SameRequest, Known DEF IInv, Course
<1>3. /\ \E S : turns' \in Seq(S)
      /\ turns' = Append(turns, t) =>
           /\ Len(turns') = Len(turns) + 1 /\ DOMAIN turns' = 1..(Len(turns) + 1)
           /\ DOMAIN turns = 1..Len(turns) /\ Len(turns) \in Nat
           /\ \A i \in DOMAIN turns : turns'[i] = turns[i]
           /\ Last(turns') = t /\ turns'[Len(turns) + 1] = t
  <2> HIDE DEF t
  <2>1. \E S : turns \in Seq(S)
    BY Known
  <2>2. CASE turns' = Append(turns, t)
    <3> DEFINE longer == Append(turns, t)
    <3>1. /\ \E S : longer \in Seq(S)
          /\ Len(longer) = Len(turns) + 1 /\ DOMAIN longer = 1..(Len(turns) + 1)
          /\ DOMAIN turns = 1..Len(turns) /\ Len(turns) \in Nat
          /\ \A i \in DOMAIN turns : longer[i] = turns[i]
          /\ Last(longer) = t /\ longer[Len(turns) + 1] = t
      BY <2>1, Appended, ZenonT(40)
    <3>2. turns' = longer
      BY <2>2
    <3> HIDE DEF longer
    <3> QED
      BY <3>1, <3>2
  <2>3. turns' = turns \/ turns' = Append(turns, t)
    BY <1>1
  <2> QED
    BY <2>1, <2>2, <2>3
<1>4. Shapes'
  BY <1>1, <1>3, Known, ShapesKeep DEF IInv, Reports, Stages
<1>5. Course'
  BY <1>1, <1>2 DEF IInv, Course
<1>6. CertifiedIsCurrent'
  BY <1>1, <1>2, Uncertified, EnvironmentAssumption DEF Before
<1>7. Spending'
  <2>1. CASE turns' = turns
    BY <2>1, <1>1, Known, SpendingKeeps DEF Before
  <2>2. CASE turns' = Append(turns, t) /\ pc' = "turn"
    <3>1. Len(turns) < (IF Product THEN round ELSE 1) /\ \A i \in DOMAIN turns :
            turns[i].round < round /\ turns[i].round \in 1..2
      BY <1>1 DEF IInv, Spending, Before
    <3>2. \A i \in DOMAIN turns' : turns'[i].round <= round /\ turns'[i].round \in 1..2
      <4>1. round \in 1..2 /\ t.round = round
        BY Known
      <4>2. \A i \in DOMAIN turns' : i \in DOMAIN turns \/ turns'[i] = t
        BY <1>3, <2>2
      <4> QED
        BY <4>1, <4>2, <1>3, <2>2, <3>1
    <3>3. ASSUME NEW i \in DOMAIN turns', NEW j \in DOMAIN turns', i # j
          PROVE  turns'[i].round # turns'[j].round
      <4>1. \A k \in DOMAIN turns' : k \in DOMAIN turns \/ (k = Len(turns) + 1 /\ turns'[k] = t)
        BY <1>3, <2>2
      <4>2. t.round = round /\ round \in 1..2
        BY Known
      <4>3. CASE i \in DOMAIN turns /\ j \in DOMAIN turns
        BY <4>3, <3>3, <1>3, <2>2 DEF IInv, Spending
      <4>4. CASE i \notin DOMAIN turns /\ j \in DOMAIN turns
        BY <4>4, <4>1, <4>2, <1>3, <2>2, <3>1
      <4>5. CASE i \in DOMAIN turns /\ j \notin DOMAIN turns
        BY <4>5, <4>1, <4>2, <1>3, <2>2, <3>1
      <4> QED
        BY <4>1, <4>3, <4>4, <4>5, <3>3
    <3>4. Len(turns') <= (IF Product' THEN round' ELSE 1)
      BY <1>1, <1>2, <1>3, <2>2, <3>1, Known
    <3>5. pc' \notin Before
      BY <2>2 DEF Before
    <3> QED
      BY <1>1, <3>2, <3>3, <3>4, <3>5 DEF Spending
  <2> QED
    BY <1>1, <2>1, <2>2
<1>8. Reading'
  BY <1>1, <1>2, <1>3 DEF IInv, Reading
<1>9. Contract'
  <2>1. PlanIsFrozen' = PlanIsFrozen /\ \A x : Contracted(x)' = Contracted(x)
    BY <1>1, SamePlan, SameContract
  <2>2. CASE turns' = turns
    BY <2>1, <2>2, <1>1, <1>2 DEF IInv, Contract
  <2>3. ASSUME Product, turns' = Append(turns, t), Intact PROVE Contracted(t)
    <3>1. /\ PlanIsFrozen
          /\ Range(env.catalogs[plan.catalog]) = Range(env.catalogs[read.catalog])
          /\ QuotaSeen(plan) = QuotaSeen(read)
      BY <2>3, <1>1 DEF IInv, Contract
    <3>2. env.repos[read.profile].profile = env.repos[plan.profile].profile
      BY <1>1 DEF IInv, Reading
    <3>3. env.repos[frozen].assets = env.repos[read.caps].assets
      BY <2>3 DEF Intact
    <3>4. env.repos[read.profile].features = env.repos[plan.profile].features
      <4>1. /\ plan.profile >= 1 /\ plan.profile <= world.repo
            /\ read.profile >= 1 /\ read.profile <= world.repo
        BY <1>1 DEF IInv, Reading
      <4>2. plan.profile \in Nat /\ read.profile \in Nat /\ world.repo \in Nat
            /\ Len(env.repos) \in Nat
        BY Known, EnvironmentAssumption DEF Views, Sources
      <4>3. plan.profile \in 1..Len(env.repos) /\ read.profile \in 1..Len(env.repos)
        BY <4>1, <4>2, Known
      <4> QED
        BY <4>3, <3>2, Known, EnvironmentAssumption
    <3>5. t.plan = plan /\ t.read = read
      OBVIOUS
    <3> QED
      BY <3>1, <3>2, <3>3, <3>4, <3>5 DEF PlanIsFrozen, Contracted
  <2>4. CASE turns' = Append(turns, t) /\ Intact /\ pc' = "turn"
    <3>1. \A i \in DOMAIN turns' : (i \in DOMAIN turns /\ turns'[i] = turns[i]) \/ turns'[i] = t
      BY <1>3, <2>4
    <3>2. Product => PlanIsFrozen /\ \A i \in DOMAIN turns : Contracted(turns[i])
      BY <1>1 DEF IInv, Contract
    <3>3. ASSUME Product, NEW i \in DOMAIN turns' PROVE Contracted(turns[i])'
      <4>1. CASE turns'[i] = t
        BY <4>1, <3>3, <2>1, <2>3, <2>4
      <4>2. CASE i \in DOMAIN turns /\ turns'[i] = turns[i]
        BY <4>2, <3>2, <3>3, <2>1
      <4> QED
        BY <3>1, <4>1, <4>2
    <3> QED
      BY <1>1, <1>2, <2>1, <2>4, <3>2, <3>3 DEF Contract
  <2> QED
    BY <1>1, <2>2, <2>4
<1> QED
  BY <1>4, <1>5, <1>6, <1>7, <1>8, <1>9 DEF IInv

\* After its turn a request only reports.
LEMMA AfterwardsKeeps ==
  ASSUME IInv, pc \notin Before, env' = env, world' = world, action' = action, round' = round,
         plan' = plan, frozen' = frozen, read' = read, turns' = turns,
         pc' \in {"apply", "finish", "receipts", "end"}
  PROVE  Spending' /\ Reading' /\ Contract'
<1>1. Product' = Product
  BY SameRequest
<1>2. Spending'
  BY <1>1 DEF IInv, Spending, Before
<1>3. Reading'
  BY DEF IInv, Reading
<1>4. Contract'
  BY ContractKeeps DEF Running
<1> QED
  BY <1>2, <1>3, <1>4

LEMMA TurnEndsKeeps == ASSUME IInv, NEW o \in Outcomes, TurnEnds(o) PROVE IInv'
<1>1. /\ pc = "turn" /\ env' = env /\ world' = world /\ action' = action /\ plan' = plan
      /\ frozen' = frozen /\ read' = read /\ turns' = turns /\ applied' = applied
      /\ trouble' = trouble
  BY DEF TurnEnds
<1>2. Product' = Product /\ report = None /\ applied = FALSE
  BY <1>1, SameRequest, Known DEF IInv, Course
<1>3. /\ pc' \in {"snapshot", "apply", "finish", "receipts", "end"}
      /\ report' \in Reports /\ round' \in {round, 2}
      /\ pc' = "snapshot" => Product /\ round = 1 /\ round' = 2 /\ report' = report
      /\ pc' # "snapshot" => round' = round
      /\ pc' = "receipts" => Product
      /\ pc' \in {"apply", "finish"} => ~Product
      /\ pc' = "apply" => report' = "verified"
      /\ report' = "verified" => Unmoved
  <2>1. Outcome(o) \in Outcomes /\ Outcomes \subseteq Reports
    BY DEF Outcome, Outcomes, Reports
  <2>2. CASE ~Unmoved
    BY <2>2, <1>1 DEF TurnEnds, Unsettled, Answer, Reports
  <2>3. CASE Unmoved /\ Product
    BY <2>1, <2>3, <1>2 DEF TurnEnds, Settle, Goto, Reports
  <2>4. CASE Unmoved /\ ~Product
    BY <2>1, <2>4 DEF TurnEnds
  <2> QED
    BY <2>2, <2>3, <2>4
<1>4. Shapes'
  BY <1>1, <1>3, Known, ShapesKeep DEF IInv, Stages
<1>5. Course'
  BY <1>1, <1>2, <1>3 DEF IInv, Course
<1>6. CertifiedIsCurrent'
  <2>1. CASE report' # "verified"
    BY <2>1, <1>1, Uncertified
  <2>2. ASSUME report' = "verified", action # "twin" PROVE CertifiedIsCurrent'
    <3> DEFINE t == Last(turns)
               planned == env.repos[t.plan.profile].profile
    <3>1. /\ t.plan = plan /\ t.read = read
          /\ env.repos[read.profile].profile = planned
          /\ env.repos[world.repo] = env.repos[read.caps]
      BY <2>2, <1>1, <1>3 DEF IInv, Reading, Unmoved
    <3>2. /\ plan.profile <= read.caps /\ read.caps <= read.profile
          /\ read.profile <= world.repo
      BY <2>2, <1>1 DEF IInv, Reading
    <3>3. plan.profile \in Nat /\ read.caps \in Nat /\ read.profile \in Nat /\ world.repo \in Nat
      BY Known DEF Views, Sources
    <3>4. \/ env.repos[read.caps].profile = planned
          \/ plan.profile < read.caps /\ read.caps < read.profile /\ read.profile < world.repo
      <4>1. ASSUME env.repos[read.caps].profile # planned
            PROVE  plan.profile # read.caps /\ read.caps # read.profile
                   /\ read.profile # world.repo
        BY <4>1, <3>1
      <4> QED
        BY <4>1, <3>2, <3>3
    <3>5. world.repo \in t.read.profile..world.repo
      BY <3>1, <3>2, <3>3
    <3> HIDE DEF t
    <3>6. /\ env.repos[t.read.profile].profile = planned
          /\ \E v \in t.read.profile..world.repo :
               /\ env.repos[v] = env.repos[t.read.caps]
               /\ \/ env.repos[t.read.caps].profile = planned
                  \/ t.plan.profile < t.read.caps /\ t.read.caps < t.read.profile
                     /\ t.read.profile < v
      BY <3>1, <3>4, <3>5
    <3> QED
      BY <3>6, <1>1 DEF CertifiedIsCurrent, t
  <2>3. action = "twin" => CertifiedIsCurrent'
    BY <1>1 DEF CertifiedIsCurrent
  <2> QED
    BY <2>1, <2>2, <2>3
<1>7. CASE pc' # "snapshot"
  BY <1>7, <1>1, <1>3, <1>4, <1>5, <1>6, AfterwardsKeeps DEF IInv, Before
<1>8. CASE pc' = "snapshot"
  <2>1. Spending'
    <3>1. /\ Len(turns) <= 1 /\ \A i \in DOMAIN turns : turns[i].round <= 1 /\ turns[i].round \in 1..2
          /\ \A i, j \in DOMAIN turns : i # j => turns[i].round # turns[j].round
      BY <1>3, <1>8 DEF IInv, Spending
    <3>2. Len(turns) \in Nat /\ Product' /\ round' = 2
      BY <1>2, <1>3, <1>8, Known, Appended
    <3> QED
      BY <1>1, <3>1, <3>2 DEF Spending
  <2>2. Reading'
    BY <1>1, <1>8 DEF IInv, Reading
  <2>3. Contract'
    BY <1>1, <1>8, ContractKeeps DEF Running
  <2> QED
    BY <2>1, <2>2, <2>3, <1>4, <1>5, <1>6 DEF IInv
<1> QED
  BY <1>7, <1>8

LEMMA ResultLostKeeps == ASSUME IInv, ResultLost PROVE IInv'
<1>1. /\ pc = "turn" /\ env' = env /\ world' = world /\ action' = action /\ plan' = plan
      /\ frozen' = frozen /\ read' = read /\ turns' = turns /\ applied' = applied
      /\ trouble < MaxTrouble /\ trouble' = trouble + 1 /\ round' = round
      /\ \/ Product /\ pc' = "receipts" /\ report' = "reconciliation_required"
         \/ ~Product /\ pc' = "end" /\ report' = "error"
  BY DEF ResultLost, Unsettled, Answer
<1>2. Product' = Product /\ report = None /\ applied = FALSE
  BY <1>1, SameRequest, Known DEF IInv, Course
<1>3. Shapes'
  BY <1>1, Known, TroubleCounts, ShapesKeep DEF IInv, Reports, Stages
<1>4. Course'
  BY <1>1, <1>2 DEF IInv, Course
<1>5. CertifiedIsCurrent'
  BY <1>1, Uncertified
<1>6. Spending' /\ Reading' /\ Contract'
  BY <1>1, AfterwardsKeeps DEF Before
<1> QED
  BY <1>3, <1>4, <1>5, <1>6 DEF IInv

\* What was certified stays certified: the versions that certified it are still there.
LEMMA CertifiedStays ==
  ASSUME IInv, env' = env, world' = world, turns' = turns, action' = action,
         report' = "verified" \/ applied' => report = "verified" \/ applied
  PROVE  CertifiedIsCurrent'
BY DEF IInv, CertifiedIsCurrent

LEMMA ApplyKeeps == ASSUME IInv, Apply PROVE IInv'
<1>1. /\ pc = "apply" /\ env' = env /\ world' = world /\ action' = action /\ plan' = plan
      /\ frozen' = frozen /\ read' = read /\ turns' = turns /\ round' = round
      /\ trouble' = trouble \/ (trouble < MaxTrouble /\ trouble' = trouble + 1)
      /\ \/ applied' = TRUE /\ pc' = "finish" /\ report' = report
         \/ applied' = applied /\ pc' = "end" /\ report' = "error"
  BY DEF Apply, Goto, Answer, Fails
<1>2. Product' = Product /\ ~Product /\ report = "verified" /\ applied = FALSE
  BY <1>1, SameRequest, Known DEF IInv, Course
<1>3. Shapes'
  BY <1>1, Known, TroubleCounts, ShapesKeep DEF IInv, Reports, Stages
<1>4. Course'
  BY <1>1, <1>2 DEF IInv, Course
<1>5. CertifiedIsCurrent'
  BY <1>1, <1>2, CertifiedStays
<1>6. Spending' /\ Reading' /\ Contract'
  BY <1>1, AfterwardsKeeps DEF Before
<1> QED
  BY <1>3, <1>4, <1>5, <1>6 DEF IInv

LEMMA FinishKeeps == ASSUME IInv, Finish PROVE IInv'
<1>1. /\ pc = "finish" /\ env' = env /\ world' = world /\ action' = action /\ plan' = plan
      /\ frozen' = frozen /\ read' = read /\ turns' = turns /\ round' = round
      /\ trouble' = trouble \/ (trouble < MaxTrouble /\ trouble' = trouble + 1)
      /\ applied' = applied /\ pc' = "end"
      /\ report' = report \/ (report = None /\ report' = "abstain")
         \/ (~applied /\ report' = "error")
  BY DEF Finish, Answer, ArtifactLost
<1>2. Product' = Product /\ ~Product /\ (applied => report = "verified" /\ report' = report)
  <2>1. applied => report = "verified"
    BY DEF IInv, Course
  <2> QED
    BY <1>1, <2>1, SameRequest, EnvironmentAssumption DEF IInv, Course
<1>3. Shapes'
  BY <1>1, Known, TroubleCounts, ShapesKeep DEF IInv, Reports, Stages
<1>4. Course'
  BY <1>1, <1>2 DEF IInv, Course
<1>5. CertifiedIsCurrent'
  BY <1>1, <1>2, CertifiedStays
<1>6. Spending' /\ Reading' /\ Contract'
  BY <1>1, AfterwardsKeeps DEF Before
<1> QED
  BY <1>3, <1>4, <1>5, <1>6 DEF IInv

LEMMA ReceiptsKeeps == ASSUME IInv, Receipts PROVE IInv'
<1>1. /\ pc = "receipts" /\ env' = env /\ world' = world /\ action' = action /\ plan' = plan
      /\ frozen' = frozen /\ read' = read /\ turns' = turns /\ round' = round
      /\ trouble' = trouble \/ (trouble < MaxTrouble /\ trouble' = trouble + 1)
      /\ applied' = applied /\ pc' = "end"
      /\ report' \in {report, "reconciliation_required", "failed", "error"}
  BY DEF Receipts, Answer, Fails
<1>2. Product' = Product /\ Product /\ applied = FALSE
  BY <1>1, SameRequest, Known DEF IInv, Course
<1>3. Shapes'
  BY <1>1, Known, TroubleCounts, ShapesKeep DEF IInv, Reports, Stages
<1>4. Course'
  BY <1>1, <1>2 DEF IInv, Course
<1>5. CertifiedIsCurrent'
  BY <1>1, <1>2, CertifiedStays
<1>6. Spending' /\ Reading' /\ Contract'
  BY <1>1, AfterwardsKeeps DEF Before
<1> QED
  BY <1>3, <1>4, <1>5, <1>6 DEF IInv

-----------------------------------------------------------------------------
(* The theorems *)

\* In every reachable state the relations between the stage of a request, the versions it has
\* read, the turns it has sent and what it reports hold (product.ts, meta.ts, single.ts).
THEOREM Inductive == Spec => []IInv
<1>1. Init => IInv
  BY InitHolds
<1>2. IInv /\ [Next]_vars => IInv'
  <2> SUFFICES ASSUME IInv, [Next]_vars PROVE IInv'
    OBVIOUS
  <2>1. CASE UNCHANGED vars
    <3>1. Shapes'
      BY <2>1, Known, ShapesKeep DEF vars, IInv
    <3>2. Course' /\ Spending' /\ Reading'
      BY <2>1, SameRequest DEF vars, IInv, Course, Spending, Reading
    <3>3. Contract' /\ CertifiedIsCurrent'
      BY <2>1, SamePlan, SameContract, SameRequest, CertifiedStays
         DEF vars, IInv, Contract, QuotaSeen, QuotaOf
    <3> QED
      BY <3>1, <3>2, <3>3 DEF IInv
  <2>2. CASE Step
    BY <2>2, BeginKeeps, DiscoverKeeps, InspectProductKeeps, InspectMetaKeeps, FreezeKeeps,
       SnapshotKeeps, ProfileKeeps, QueryKeeps, CheckKeeps, SendKeeps, TurnEndsKeeps,
       ResultLostKeeps, ApplyKeeps, FinishKeeps, ReceiptsKeeps DEF Step
  <2>3. CASE \E s \in Sources : Drift(s)
    BY <2>3, DriftKeeps
  <2> QED
    BY <2>1, <2>2, <2>3 DEF Next, Done
<1> QED
  BY <1>1, <1>2, PTL DEF Spec

-----------------------------------------------------------------------------
(* What is known of a policy when it is sent *)

\* A run goes on with a plan that was decided, and a second attempt with a successor.
Decided ==
  /\ plan.catalog \in 1..Len(env.catalogs)
  /\ action \in {"execute", "static", "auto", "twin"}
  /\ Product => Preflight(plan).why = "decided" /\ (round = 2 => Successor # None)
  /\ ~Product => Route(plan, Learned(plan), Want).why = "decided" /\ Shown(plan)

TurnsAreAllowed ==
  \A i \in DOMAIN turns : \A j \in DOMAIN turns[i].routes :
    AllowedBy(turns[i].read, turns[i].routes[j])

\* The product's turns are those of its rounds, in their order.
TurnsAreRounds ==
  Product =>
    /\ pc \in Before => Len(turns) = round - 1
    /\ pc = "turn" => Len(turns) = round
    /\ pc \in Running /\ 1 \in DOMAIN turns => turns[1].routes[1] = PreflightRoute
    /\ 2 \in DOMAIN turns => Stronger(turns[2].routes[1], turns[1].routes[1])

Authorized ==
  /\ pc = "inspect" => plan.catalog \in 1..Len(env.catalogs)
  /\ pc \in {"freeze"} \cup Running => Decided
  /\ pc \in {"check", "send", "turn"} => read.catalog \in 1..Len(env.catalogs)
  /\ pc = "send" => PoliciesStand
  /\ TurnsAreAllowed /\ TurnsAreRounds

LEMMA SamePreflight ==
  ASSUME env' = env, plan' = plan
  PROVE  /\ Preflight(plan)' = Preflight(plan) /\ PreflightRoute' = PreflightRoute
         /\ Successor' = Successor /\ Treatment' = Treatment /\ Static(plan)' = Static(plan)
         /\ Shown(plan)' = Shown(plan)
         /\ Route(plan, Learned(plan), Want)' = Route(plan, Learned(plan), Want)
BY SameRequest DEF Preflight, PreflightRoute, Successor, Treatment, Static, Shown, Route, Learned,
   Config, Want, Product, QuotaOf, TiersOf, Commands

LEMMA SameDecided ==
  ASSUME env' = env, plan' = plan, action' = action, round' = round
  PROVE  Decided' = Decided
BY SamePreflight, SameRequest DEF Decided

LEMMA SameAllowed ==
  ASSUME env' = env, NEW v, NEW p PROVE AllowedBy(v, p)' = AllowedBy(v, p)
BY SameRequest DEF AllowedBy, QuotaOf, TiersOf, Commands, Config

LEMMA SameStand ==
  ASSUME env' = env, plan' = plan, read' = read, action' = action, round' = round
  PROVE  PoliciesStand' = PoliciesStand
<1>1. Policies' = Policies
  BY SamePreflight, SameRequest DEF Policies, Successor
<1>2. \A h, w : Route(read, h, w)' = Route(read, h, w)
  BY SameRequest DEF Route, QuotaOf, TiersOf, Commands, Config
<1>3. /\ Static(read)' = Static(read) /\ Learned(read)' = Learned(read)
      /\ TiersOf(read)' = TiersOf(read) /\ Shown(read)' = Shown(read)
  BY SameRequest DEF Static, Shown, Learned, TiersOf, Commands, Config
<1>4. \A p : ControlStands(p)' = ControlStands(p) /\ TreatmentStands(p)' = TreatmentStands(p)
  BY <1>2, <1>3, SameRequest DEF ControlStands, TreatmentStands, TreatmentStandsFor, AskAgain, Pinned
<1> QED
  BY <1>1, <1>2, <1>3, <1>4, SameRequest DEF PoliciesStand

\* A step that sends nothing.
LEMMA UnsentKeeps ==
  ASSUME IInv, Authorized, env' = env, turns' = turns,
         pc' = "inspect" => plan'.catalog \in 1..Len(env.catalogs),
         pc' \in {"freeze"} \cup Running => Decided',
         pc' \in {"check", "send", "turn"} => read'.catalog \in 1..Len(env.catalogs),
         pc' = "send" => PoliciesStand',
         Product /\ pc' \in Before => Len(turns) = round' - 1,
         pc' = "turn" => pc = "turn" /\ round' = round,
         Product /\ pc' \in Running => \/ DOMAIN turns = {}
                                       \/ pc \in Running /\ PreflightRoute' = PreflightRoute
  PROVE  Authorized'
<1>1. TurnsAreAllowed'
  BY SameAllowed DEF Authorized, TurnsAreAllowed
<1>2. TurnsAreRounds'
  BY SameRequest DEF Authorized, TurnsAreRounds, Stronger, Power, FamilyRank
<1> QED
  BY <1>1, <1>2 DEF Authorized

\* Where a request is done with spending.
LEMMA DoneKeeps ==
  ASSUME IInv, Authorized, env' = env, turns' = turns,
         pc' \in {"apply", "finish", "receipts", "end"}
  PROVE  Authorized'
BY UnsentKeeps DEF Before, Running

\* What stands before the read versions is allowed by them.
LEMMA PoliciesAreAllowed ==
  ASSUME IInv, Authorized, pc = "send"
  PROVE  \A j \in DOMAIN Policies : AllowedBy(read, Policies[j])
<1>1. /\ env \in Environments /\ read \in [Views -> Nat] /\ plan \in [Views -> Nat]
      /\ read.profile \in 1..Len(env.repos) /\ read.catalog \in 1..Len(env.catalogs)
      /\ plan.catalog \in 1..Len(env.catalogs)
  <2>1. read.profile >= 1 /\ read.profile <= world.repo /\ world.repo <= Len(env.repos)
    BY Known DEF IInv, Reading
  <2>2. read.profile \in Nat /\ world.repo \in Nat /\ Len(env.repos) \in Nat
    BY Known, VersionsExist DEF Views, Sources
  <2> QED
    BY <2>1, <2>2, Known DEF Authorized, Decided, Running
<1>2. Decided /\ PoliciesStand /\ (Product <=> action = "execute") /\ round \in 1..2
  BY Known DEF Authorized, Running, IInv, Course
<1>3. CASE action = "execute"
  <2>1. PICK p : Policies = <<p>> /\ p \in {PreflightRoute, Successor} /\ (p = PreflightRoute \/ p # None)
    BY <1>2, <1>3 DEF Policies, Decided, Successor
  <2>2. Proper(p)
    BY <1>1, <1>2, <1>3, <2>1, PreflightIsProper DEF Decided, Preflight, PreflightRoute, Successor
  <2>3. TreatmentStands(p)
    BY <1>2, <1>3, <2>1 DEF PoliciesStand
  <2> QED
    BY <1>1, <2>1, <2>2, <2>3, TreatmentIsAllowed
<1>4. ASSUME ~Product PROVE Proper(Treatment)
  BY <1>1, <1>2, <1>4, PreflightIsProper DEF Decided, Treatment
<1>5. ASSUME ~Product, ControlStands(Static(plan)) PROVE AllowedBy(read, Static(plan))
  BY <1>1, <1>2, <1>5, StaticIsProper, ControlIsAllowed DEF Decided, ControlStands
<1>6. CASE action = "static"
  BY <1>2, <1>5, <1>6 DEF Policies, PoliciesStand
<1>7. CASE action = "auto"
  BY <1>1, <1>2, <1>4, <1>7, TreatmentIsAllowed DEF Policies, PoliciesStand
<1>8. CASE action = "twin"
  <2>1. Policies = <<Static(plan), Treatment>>
    BY <1>8 DEF Policies
  <2>2. AllowedBy(read, Static(plan))
    BY <1>2, <1>5, <1>8, <2>1 DEF PoliciesStand
  <2>3. AllowedBy(read, Treatment)
    BY <1>1, <1>2, <1>4, <1>8, <2>1, TreatmentIsAllowed DEF PoliciesStand
  <2> QED
    BY <2>1, <2>2, <2>3
<1> QED
  BY <1>2, <1>3, <1>6, <1>7, <1>8 DEF Decided

LEMMA AuthorizedAtFirst == Init => Authorized
<1> SUFFICES ASSUME Init PROVE Authorized
  OBVIOUS
<1>1. DOMAIN turns = {} /\ Len(turns) = 0 /\ pc = "begin" /\ round = 1
  BY DEF Init
<1> QED
  BY <1>1 DEF Authorized, TurnsAreAllowed, TurnsAreRounds, Running

\* The stages of a run that only read, and that of a request that is done.
LEMMA RunGoesOn ==
  ASSUME IInv, Authorized, pc \in {"freeze"} \cup Running, pc # "turn", env' = env, turns' = turns,
         plan' = plan, action' = action,
         pc' \in {"freeze"} \cup Running => round' = round,
         Product /\ pc' \in Before => round' = round /\ pc' \in Running,
         pc' \notin {"inspect", "turn"},
         pc' \in {"check", "send"} => read'.catalog \in 1..Len(env.catalogs),
         pc' = "send" => PoliciesStand'
  PROVE  Authorized'
<1>1. pc \in Before
  BY DEF Running, Before
<1>2. pc' \in {"freeze"} \cup Running => Decided'
  BY SameDecided DEF Authorized
<1>3. Product /\ pc' \in Before => Len(turns) = round' - 1
  BY <1>1 DEF Authorized, TurnsAreRounds
<1>4. Product /\ pc' \in Running => DOMAIN turns = {} \/ pc \in Running
  <2>1. Product /\ pc = "freeze" => DOMAIN turns = {}
    BY NothingSpent
  <2> QED
    BY <2>1 DEF Running
<1>5. PreflightRoute' = PreflightRoute
  BY SamePreflight
<1> QED
  BY <1>2, <1>3, <1>4, <1>5, UnsentKeeps DEF Running

LEMMA SentAsAuthorized == ASSUME IInv, Authorized, Send PROVE Authorized'
<1> DEFINE t == [round |-> round, routes |-> Policies, plan |-> plan, read |-> read]
<1>1. /\ pc = "send" /\ action' = action /\ env' = env /\ round' = round /\ read' = read
      /\ plan' = plan
      /\ \/ turns' = Append(turns, t) /\ pc' = "turn"
         \/ turns' = turns /\ pc' \in {"receipts", "end"}
  BY DEF Send, NotSent, Goto, Answer
<1>2. CASE turns' = turns /\ pc' \in {"receipts", "end"}
  BY <1>1, <1>2, DoneKeeps
<1>3. CASE turns' = Append(turns, t) /\ pc' = "turn"
  <2>1. /\ DOMAIN turns' = 1..(Len(turns) + 1) /\ DOMAIN turns = 1..Len(turns)
        /\ Len(turns) \in Nat /\ Len(turns') = Len(turns) + 1
        /\ \A i \in DOMAIN turns : turns'[i] = turns[i]
        /\ turns'[Len(turns) + 1] = t
    <3> DEFINE longer == Append(turns, t)
    <3> HIDE DEF t
    <3>1. /\ DOMAIN longer = 1..(Len(turns) + 1) /\ DOMAIN turns = 1..Len(turns)
          /\ Len(turns) \in Nat /\ Len(longer) = Len(turns) + 1
          /\ \A i \in DOMAIN turns : longer[i] = turns[i]
          /\ longer[Len(turns) + 1] = t
      <4>1. \E S : turns \in Seq(S)
        BY Known
      <4> QED
        BY <4>1, Appended, ZenonT(40)
    <3>2. turns' = longer
      BY <1>3
    <3> HIDE DEF longer
    <3> QED
      BY <3>1, <3>2
  <2>2. \A i \in DOMAIN turns' : i \in DOMAIN turns \/ i = Len(turns) + 1
    BY <2>1
  <2>3. TurnsAreAllowed'
    <3>1. \A j \in DOMAIN t.routes : AllowedBy(t.read, t.routes[j])
      BY <1>1, PoliciesAreAllowed
    <3> HIDE DEF t
    <3>2. \A i \in DOMAIN turns' : \A j \in DOMAIN turns'[i].routes :
            AllowedBy(turns'[i].read, turns'[i].routes[j])
      BY <2>1, <2>2, <3>1 DEF Authorized, TurnsAreAllowed
    <3> QED
      BY <1>1, <3>2, SameAllowed DEF TurnsAreAllowed
  <2>4. Decided' /\ pc' \notin Before
    BY <1>1, <1>3, SameDecided DEF Authorized, Running, Before
  <2>5. ASSUME Product PROVE TurnsAreRounds'
    <3>1. Len(turns) = round - 1 /\ round \in 1..2 /\ action = "execute" /\ Decided
      BY <1>1, <2>5, Known DEF Authorized, TurnsAreRounds, Before, Running, IInv, Course
    <3>2. t.routes[1] = IF round = 1 THEN PreflightRoute ELSE Successor
      BY <3>1 DEF Policies, Successor
    <3> HIDE DEF t
    <3>3. turns'[round] = t /\ Len(turns') = round'
      BY <1>1, <2>1, <3>1
    <3>4. turns'[1].routes[1] = PreflightRoute
      <4>1. CASE round = 1
        BY <3>2, <3>3, <4>1
      <4>2. CASE round = 2
        <5>1. 1 \in DOMAIN turns
          BY <2>1, <3>1, <4>2
        <5> QED
          BY <2>1, <5>1, <1>1, <2>5 DEF Authorized, TurnsAreRounds, Running
      <4> QED
        BY <3>1, <4>1, <4>2
    <3>5. 2 \in DOMAIN turns' => Stronger(turns'[2].routes[1], turns'[1].routes[1])
      <4>1. ASSUME 2 \in DOMAIN turns' PROVE round = 2
        BY <2>1, <3>1, <4>1
      <4>2. ASSUME round = 2 PROVE Stronger(Successor, PreflightRoute)
        <5>1. Preflight(plan).why = "decided" /\ Successor # None /\ plan.catalog \in 1..Len(env.catalogs)
          BY <2>5, <3>1, <4>2 DEF Decided
        <5> QED
          BY <5>1, Known, PreflightIsProper DEF Preflight, PreflightRoute, Successor
      <4> QED
        BY <3>2, <3>3, <3>4, <4>1, <4>2
    <3>6. PreflightRoute' = PreflightRoute
      BY <1>1, SamePreflight
    <3> QED
      BY <1>1, <2>4, <3>3, <3>4, <3>5, <3>6, SameRequest
         DEF TurnsAreRounds, Stronger, Power, FamilyRank
  <2>6. ~Product => TurnsAreRounds'
    BY <1>1, SameRequest DEF TurnsAreRounds
  <2> QED
    BY <1>1, <1>3, <2>3, <2>4, <2>5, <2>6 DEF Authorized
<1> QED
  BY <1>1, <1>2, <1>3

\* Discovery and the inspection that decides.
LEMMA PlannedAsAuthorized ==
  ASSUME IInv, Authorized, Begin \/ Discover \/ InspectProduct \/ InspectMeta PROVE Authorized'
<1>1. CASE Begin
  <2>1. /\ pc = "begin" /\ env' = env /\ turns' = turns /\ round' = round /\ pc' \in {"discover", "end"}
    BY <1>1 DEF Begin, Goto, Answer
  <2> QED
    BY <2>1, UnsentKeeps DEF Authorized, TurnsAreRounds, Before, Running
<1>2. CASE Discover
  <2>1. /\ pc = "discover" /\ env' = env /\ turns' = turns /\ round' = round /\ pc' \in {"inspect", "end"}
        /\ plan'.catalog = world.catalog
    BY <1>2 DEF Discover, Goto, Answer, Fails
  <2>2. world.catalog \in 1..Len(env.catalogs)
    <3>1. world["catalog"] \in 1..Versions("catalog") /\ Versions("catalog") = Len(env.catalogs)
      BY DEF IInv, Shapes, TypeOK, Sources, Versions
    <3> QED
      BY <3>1
  <2> QED
    BY <2>1, <2>2, UnsentKeeps DEF Authorized, TurnsAreRounds, Before, Running
<1>3. CASE InspectProduct
  <2>1. /\ pc = "inspect" /\ Product /\ env' = env /\ turns' = turns /\ round' = round
        /\ action' = "execute" /\ plan' = Inspected /\ pc' \in {"freeze", "end"}
        /\ pc' = "freeze" => Preflight(Inspected).why = "decided"
    BY <1>3 DEF InspectProduct, Goto, Answer
  <2>2. DOMAIN turns = {} /\ round = 1
    BY <2>1, NothingSpent
  <2>3. plan'.catalog = plan.catalog
    BY <2>1, Known DEF Inspected, Views
  <2>4. Preflight(plan)' = Preflight(Inspected)
    BY <2>1, SameRequest DEF Preflight, Route, QuotaOf, TiersOf, Commands, Config, Want, Product
  <2>5. pc' = "freeze" => Decided'
    BY <2>1, <2>2, <2>3, <2>4, SameRequest DEF Decided, Authorized
  <2> QED
    BY <2>1, <2>2, <2>5, UnsentKeeps DEF Authorized, TurnsAreRounds, Before, Running
<1>4. CASE InspectMeta
  <2>1. /\ pc = "inspect" /\ ~Product /\ env' = env /\ turns' = turns /\ round' = round
        /\ plan' = Inspected /\ pc' \in {"finish", "snapshot", "end"}
        /\ pc' = "snapshot" => /\ Plannable(Inspected) /\ action' # "abstain"
                               /\ action' \in {MetaDecision(Inspected),
                                               Demoted(MetaDecision(Inspected), Inspected)}
    BY <1>4 DEF InspectMeta, Goto, Answer, Fails
  <2>2. pc' = "snapshot" => action' \in {"auto", "static", "twin"}
    <3>1. MetaDecision(Inspected) \in {"abstain", "auto", "static", "twin"}
      BY DEF MetaDecision
    <3>2. Demoted(MetaDecision(Inspected), Inspected) \in {"abstain", "auto", "static", "twin"}
      BY <3>1 DEF Demoted
    <3> QED
      BY <2>1, <3>1, <3>2
  <2>3. plan'.catalog = plan.catalog
    BY <2>1, Known DEF Inspected, Views
  <2>4. /\ Route(plan, Learned(plan), Want)' = Route(Inspected, Learned(Inspected), Want)
        /\ Static(plan)' = Static(Inspected) /\ Shown(plan)' = Shown(Inspected)
    BY <2>1, SameRequest DEF Route, Learned, Static, Shown, QuotaOf, TiersOf, Commands, Config, Want, Product
  <2>5. pc' = "snapshot" => Decided'
    BY <2>1, <2>2, <2>3, <2>4, SameRequest DEF Decided, Authorized, Plannable
  <2> QED
    BY <2>1, <2>5, UnsentKeeps DEF Authorized, Before, Running
<1> QED
  BY <1>1, <1>2, <1>3, <1>4

\* A run up to the turn.
LEMMA RunAsAuthorized ==
  ASSUME IInv, Authorized, Freeze \/ Snapshot \/ Profile \/ Query \/ Check PROVE Authorized'
<1>1. CASE Freeze
  <2>1. /\ pc = "freeze" /\ env' = env /\ turns' = turns /\ round' = round /\ plan' = plan
        /\ action' = action /\ pc' \in {"end", "receipts", "snapshot"}
    BY <1>1 DEF Freeze, Goto, Answer
  <2> QED
    BY <2>1, RunGoesOn DEF Running, Before
<1>2. CASE Snapshot
  <2>1. /\ pc = "snapshot" /\ env' = env /\ turns' = turns /\ round' = round /\ plan' = plan
        /\ action' = action /\ pc' = "profile"
    BY <1>2 DEF Snapshot, Goto
  <2> QED
    BY <2>1, RunGoesOn DEF Running, Before
<1>3. CASE Profile
  <2>1. /\ pc = "profile" /\ env' = env /\ turns' = turns /\ plan' = plan
        /\ action' = action
        /\ \/ pc' = "query" /\ round' = round
           \/ ~Product /\ pc' \in {"discover", "end"}
    BY <1>3 DEF Profile, Refresh, Goto, Answer
  <2> QED
    BY <2>1, RunGoesOn DEF Running, Before
<1>4. CASE Query
  <2>1. /\ pc = "query" /\ env' = env /\ turns' = turns /\ round' = round /\ plan' = plan
        /\ action' = action /\ pc' = "check"
        /\ read' = [read EXCEPT !.catalog = world.catalog, !.quota = world.quota,
                                !.evidence = world.evidence]
    BY <1>4 DEF Query, Goto
  <2>2. read'.catalog = world.catalog
    BY <2>1, Known DEF Views
  <2>3. world.catalog \in 1..Len(env.catalogs)
    <3>1. world["catalog"] \in 1..Versions("catalog") /\ Versions("catalog") = Len(env.catalogs)
      BY DEF IInv, Shapes, TypeOK, Sources, Versions
    <3> QED
      BY <3>1
  <2> QED
    BY <2>1, <2>2, <2>3, RunGoesOn DEF Running, Before
<1>5. CASE Check
  <2>1. /\ pc = "check" /\ env' = env /\ turns' = turns /\ plan' = plan /\ action' = action
        /\ read' = read
        /\ \/ pc' = "send" /\ round' = round /\ PoliciesStand
           \/ ~Product /\ pc' \in {"discover", "end"}
           \/ Product /\ pc' = "receipts"
    BY <1>5 DEF Check, Refresh, NotSent, Goto, Answer
  <2>2. pc' = "send" => PoliciesStand'
    BY <2>1, SameStand
  <2>3. read'.catalog \in 1..Len(env.catalogs)
    BY <2>1 DEF Authorized
  <2> QED
    BY <2>1, <2>2, <2>3, RunGoesOn DEF Running, Before
<1> QED
  BY <1>1, <1>2, <1>3, <1>4, <1>5

\* The end of a turn, and what follows it.
LEMMA SettledAsAuthorized ==
  ASSUME IInv, Authorized,
         (\E o \in Outcomes : TurnEnds(o)) \/ ResultLost \/ Apply \/ Finish \/ Receipts
  PROVE  Authorized'
<1>1. ASSUME NEW o \in Outcomes, TurnEnds(o) PROVE Authorized'
  <2>1. /\ pc = "turn" /\ env' = env /\ turns' = turns /\ plan' = plan /\ action' = action
        /\ \/ pc' \in {"apply", "finish", "receipts", "end"}
           \/ Product /\ pc' = "snapshot" /\ round = 1 /\ round' = 2 /\ Successor # None
    BY <1>1 DEF TurnEnds, Unsettled, Settle, Goto, Answer
  <2>2. CASE pc' \in {"apply", "finish", "receipts", "end"}
    BY <2>1, <2>2, DoneKeeps
  <2>3. CASE Product /\ pc' = "snapshot" /\ round = 1 /\ round' = 2 /\ Successor # None
    <3>1. Decided'
      BY <2>1, <2>3, SamePreflight, SameRequest DEF Decided, Authorized, Running
    <3>2. Len(turns) = round' - 1
      BY <2>1, <2>3 DEF Authorized, TurnsAreRounds
    <3> QED
      BY <2>1, <2>3, <3>1, <3>2, SamePreflight, UnsentKeeps DEF Running
  <2> QED
    BY <2>1, <2>2, <2>3
<1>2. CASE ResultLost
  BY <1>2, DoneKeeps DEF ResultLost, Unsettled, Answer
<1>3. CASE Apply
  BY <1>3, DoneKeeps DEF Apply, Goto, Answer, Fails
<1>4. CASE Finish
  BY <1>4, DoneKeeps DEF Finish, Answer, ArtifactLost
<1>5. CASE Receipts
  BY <1>5, DoneKeeps DEF Receipts, Answer, Fails
<1> QED
  BY <1>1, <1>2, <1>3, <1>4, <1>5

\* The moves of the world change nothing that was read.
LEMMA UnmovedAsAuthorized ==
  ASSUME IInv, Authorized, UNCHANGED <<env, pc, action, round, plan, read, turns>> PROVE Authorized'
<1>1. Decided' = Decided /\ PoliciesStand' = PoliciesStand /\ PreflightRoute' = PreflightRoute
      /\ Product' = Product /\ \A v, p : AllowedBy(v, p)' = AllowedBy(v, p)
  BY SameDecided, SameStand, SamePreflight, SameRequest, SameAllowed
<1> QED
  BY <1>1 DEF Authorized, TurnsAreAllowed, TurnsAreRounds, Stronger, Power, FamilyRank

\* Every turn sent is one that its own reads of the quota and of the checkout allow, with the gates
\* asked again of what the plan chose; a product turn is contracted, and a second one stronger in
\* model, effort or topology than the first and weaker in nothing (policy.ts, router.ts,
\* capability-graph.ts, product.ts).
THEOREM SpendsAreAuthorized == Spec => []SpendIsAuthorized
<1>1. Init => Authorized
  BY AuthorizedAtFirst
<1>2. IInv /\ Authorized /\ [Next]_vars => Authorized'
  <2> SUFFICES ASSUME IInv, Authorized, [Next]_vars PROVE Authorized'
    OBVIOUS
  <2>1. CASE Step
    BY <2>1, PlannedAsAuthorized, RunAsAuthorized, SentAsAuthorized, SettledAsAuthorized DEF Step
  <2>2. CASE (\E s \in Sources : Drift(s)) \/ UNCHANGED vars
    BY <2>2, UnmovedAsAuthorized DEF Drift, vars
  <2> QED
    BY <2>1, <2>2 DEF Next, Done
<1>3. IInv /\ Authorized => SpendIsAuthorized
  <2> SUFFICES ASSUME IInv, Authorized, NEW i \in DOMAIN turns
               PROVE  /\ \A j \in DOMAIN turns[i].routes : AllowedBy(turns[i].read, turns[i].routes[j])
                      /\ Product => Contracted(turns[i])
                      /\ Product /\ i = 2 => Stronger(turns[2].routes[1], turns[1].routes[1])
    BY DEF SpendIsAuthorized
  <2> QED
    BY DEF IInv, Contract, Authorized, TurnsAreAllowed, TurnsAreRounds
<1> QED
  BY <1>1, <1>2, <1>3, Inductive, PTL DEF Spec

\* What a single run calls verified or applies was made from a snapshot that the checkout agreed
\* with again after the profile was read, and that profile is the planned one; only a checkout
\* that moved three times passes with a snapshot of something else (single.ts, meta.ts).
THEOREM CertifiedWasRouted == Spec => []CertifiedIsCurrent
<1>1. IInv => CertifiedIsCurrent
  BY DEF IInv
<1> QED
  BY <1>1, Inductive, PTL

\* The product sends at most two turns, of different rounds, the meta runner one; and what was
\* applied is reported as verified (controller.ts, meta.ts).
THEOREM SpendsOnce == Spec => []SpendOnce
<1>1. IInv => SpendOnce
  <2> SUFFICES ASSUME IInv PROVE SpendOnce
    OBVIOUS
  <2>1. TypeOK /\ \A i, j \in DOMAIN turns : i # j => turns[i].round # turns[j].round
    BY DEF IInv, Shapes, Spending
  <2>2. Len(turns) <= (IF Product THEN 2 ELSE 1)
    <3>1. Len(turns) \in Nat /\ round \in 1..2 /\ Len(turns) <= (IF Product THEN round ELSE 1)
      BY Known, Appended DEF IInv, Spending
    <3> QED
      BY <3>1
  <2>3. applied => report = "verified"
    BY DEF IInv, Course
  <2> QED
    BY <2>1, <2>2, <2>3 DEF SpendOnce
<1> QED
  BY <1>1, Inductive, PTL

-----------------------------------------------------------------------------
\* How a candidate is picked.  Where every key is a number, "precedes" is a strict order, the first
\* of finitely many candidates is best, and the best of a set is best in any part of it.

\* No record precedes itself, and of two that neither precedes the other every key is the same.
LEMMA PrecedesIsStrict ==
  ASSUME NEW keys, NEW n \in Nat, DOMAIN keys = 1..n, NEW a, NEW b, NEW c,
         \A i \in 1..n : a[keys[i]] \in Int /\ b[keys[i]] \in Int /\ c[keys[i]] \in Int
  PROVE  /\ ~Precedes(a, a, keys)
         /\ Precedes(a, b, keys) /\ Precedes(b, c, keys) => Precedes(a, c, keys)
         /\ ~Precedes(a, b, keys) /\ ~Precedes(b, a, keys) => \A i \in 1..n : a[keys[i]] = b[keys[i]]
<1>1. ~Precedes(a, a, keys)
  BY DEF Precedes
<1>2. ASSUME Precedes(a, b, keys), Precedes(b, c, keys) PROVE Precedes(a, c, keys)
  <2>1. PICK i \in 1..n : a[keys[i]] < b[keys[i]] /\ \A k \in 1..(i - 1) : a[keys[k]] = b[keys[k]]
    BY <1>2 DEF Precedes
  <2>2. PICK j \in 1..n : b[keys[j]] < c[keys[j]] /\ \A k \in 1..(j - 1) : b[keys[k]] = c[keys[k]]
    BY <1>2 DEF Precedes
  <2>3. CASE i <= j
    <3>1. a[keys[i]] < c[keys[i]]
      <4>1. CASE i = j
        BY <2>1, <2>2, <4>1
      <4>2. CASE i < j
        <5>1. i \in 1..(j - 1)
          BY <4>2
        <5> QED
          BY <2>1, <2>2, <5>1
      <4> QED
        BY <2>3, <4>1, <4>2
    <3>2. \A k \in 1..(i - 1) : a[keys[k]] = c[keys[k]]
      BY <2>1, <2>2, <2>3
    <3> QED
      BY <3>1, <3>2 DEF Precedes
  <2>4. CASE j < i
    <3>1. a[keys[j]] < c[keys[j]]
      <4>1. j \in 1..(i - 1)
        BY <2>4
      <4> QED
        BY <2>1, <2>2, <4>1
    <3>2. \A k \in 1..(j - 1) : a[keys[k]] = c[keys[k]]
      BY <2>1, <2>2, <2>4
    <3> QED
      BY <3>1, <3>2 DEF Precedes
  <2> QED
    BY <2>3, <2>4
<1>3. ASSUME ~Precedes(a, b, keys), ~Precedes(b, a, keys), NEW i \in 1..n
      PROVE  a[keys[i]] = b[keys[i]]
  <2> DEFINE differ == {k \in 1..n : a[keys[k]] # b[keys[k]]}
  <2>1. ASSUME differ # {} PROVE FALSE
    <3>1. PICK k \in differ : \A j \in differ : k <= j
      <4>1. differ \in SUBSET Nat
        OBVIOUS
      <4> QED
        BY <2>1, <4>1, SmallestIndex
    <3>2. \A j \in 1..(k - 1) : a[keys[j]] = b[keys[j]]
      BY <3>1
    <3>3. a[keys[k]] < b[keys[k]] \/ b[keys[k]] < a[keys[k]]
      BY <3>1
    <3> QED
      BY <1>3, <3>1, <3>2, <3>3 DEF Precedes
  <2> QED
    BY <2>1
<1> QED
  BY <1>1, <1>2, <1>3

\* Candidates that every key has a number of.
Comparable(S, keys, n) ==
  n \in Nat /\ DOMAIN keys = 1..n /\ \A c \in S : \A i \in 1..n : c[keys[i]] \in Int

\* Of finitely many candidates with numbers to compare there is a best one.
LEMMA ForemostIsBest ==
  ASSUME NEW S, S # {}, IsFiniteSet(S), NEW keys, NEW n \in Nat, DOMAIN keys = 1..n,
         \A c \in S : \A i \in 1..n : c[keys[i]] \in Int
  PROVE  /\ Foremost(S, keys) \in S
         /\ \A d \in S : ~Precedes(d, Foremost(S, keys), keys)
<1> DEFINE better(c) == {d \in S : Precedes(d, c, keys)}
           ranks == {Cardinality(better(c)) : c \in S}
           best == {c \in S : \A d \in S : ~Precedes(d, c, keys)}
<1>1. \A c \in S : IsFiniteSet(better(c)) /\ Cardinality(better(c)) \in Nat
  BY FS_Subset, FS_CardinalityType
<1>2. ranks \in SUBSET Nat /\ ranks # {}
  BY <1>1
<1>3. PICK c \in S : \A d \in S : Cardinality(better(c)) <= Cardinality(better(d))
  <2>1. PICK k \in ranks : \A j \in ranks : k <= j
    BY <1>2, SmallestIndex
  <2> QED
    BY <2>1
<1>4. ASSUME NEW d \in S, Precedes(d, c, keys) PROVE FALSE
  <2>1. \A e \in S : Precedes(e, d, keys) => Precedes(e, c, keys)
    BY <1>4, PrecedesIsStrict
  <2>2. ~Precedes(d, d, keys)
    BY PrecedesIsStrict
  <2>3. better(d) \in SUBSET better(c) /\ better(d) # better(c)
    BY <1>4, <2>1, <2>2
  <2>4. Cardinality(better(d)) <= Cardinality(better(c)) /\ Cardinality(better(d)) # Cardinality(better(c))
    BY <1>1, <2>3, FS_Subset
  <2>5. Cardinality(better(c)) <= Cardinality(better(d))
    BY <1>3
  <2> HIDE DEF better
  <2>6. Cardinality(better(c)) \in Nat /\ Cardinality(better(d)) \in Nat
    BY <1>1
  <2> QED
    BY <2>4, <2>5, <2>6
<1>5. best # {}
  BY <1>4
<1> HIDE DEF best
<1>6. Foremost(S, keys) \in best
  <2>1. best \subseteq S
    BY DEF best
  <2>2. (CHOOSE x \in S : best = {} \/ x \in best) \in best
    BY <1>5, <2>1
  <2> QED
    BY <2>2 DEF Foremost, best
<1> QED
  BY <1>6 DEF best

\* The best of a set ranks like the best of any part of it that it is in.
LEMMA BestOfFewer ==
  ASSUME NEW S, IsFiniteSet(S), NEW T, T \subseteq S, NEW keys, NEW n, Comparable(S, keys, n),
         Foremost(S, keys) \in T
  PROVE  \A i \in DOMAIN keys : Foremost(T, keys)[keys[i]] = Foremost(S, keys)[keys[i]]
<1>1. /\ n \in Nat /\ DOMAIN keys = 1..n
      /\ \A c \in S : \A i \in 1..n : c[keys[i]] \in Int
      /\ \A c \in T : \A i \in 1..n : c[keys[i]] \in Int
  BY DEF Comparable
<1>2. IsFiniteSet(T) /\ T # {} /\ S # {}
  BY FS_Subset
<1>3. /\ Foremost(T, keys) \in T /\ \A d \in T : ~Precedes(d, Foremost(T, keys), keys)
      /\ Foremost(S, keys) \in S /\ \A d \in S : ~Precedes(d, Foremost(S, keys), keys)
  BY <1>1, <1>2, ForemostIsBest
<1> QED
  BY <1>1, <1>3, PrecedesIsStrict

-----------------------------------------------------------------------------
\* Every key that candidates are compared by is a number, wherever the configuration, the
\* features of the state and the windows of the quota are.

\* The rounding operators of the model stay with the numbers.
LEMMA Products == \A a, b : a \in Int /\ b \in Int => Mul(a, b) \in Int
<1>1. \A a, b \in Int : a * b \in Int
  OBVIOUS
<1>2. \A a \in Int : a \div 1000 \in Int
  OBVIOUS
<1> QED
  BY <1>1, <1>2 DEF Mul

LEMMA Quotients == \A a, b : a \in Int /\ b \in Int /\ b >= 1 => a \div b \in Int
OBVIOUS

LEMMA Clamped ==
  \A x : x \in Int => Clamp(x) \in Int /\ AtLeastOne(x) \in Int /\ AtLeastOne(x) >= 1
BY DEF Clamp, AtLeastOne

LEMMA Greatest == \A a, b : a \in Int /\ b \in Int => Max({a, b}) \in Int
<1> SUFFICES ASSUME NEW a \in Int, NEW b \in Int PROVE Max({a, b}) \in Int
  OBVIOUS
<1>1. \E x \in {a, b} : \A y \in {a, b} : x >= y
  OBVIOUS
<1>2. (CHOOSE x \in {a, b} : \A y \in {a, b} : x >= y) \in {a, b}
  BY <1>1
<1> QED
  BY <1>2 DEF Max

\* The number of a want's deadline, and the latency priority made of it.
LEMMA PriorityIsNumber ==
  ASSUME NEW f \in [Features -> Int], NEW w, w.deadline \in {None} \cup (Nat \ {0})
  PROVE  ApplyLatencyPriority(f, w) \in [Features -> Int]
<1> DEFINE asked == CASE w.latency = "economy" -> 120 [] w.latency = "balanced" -> 550
                      [] w.latency = "urgent" -> 1000 [] OTHER -> f.latency
           hurry == IF w.deadline = None THEN 0 ELSE Clamp((90000 * 1000) \div w.deadline)
<1>1. asked \in Int
  BY DEF Features
<1>2. hurry \in Int
  <2>1. CASE w.deadline = None
    BY <2>1
  <2>2. CASE w.deadline \in Nat \ {0} /\ w.deadline # None
    <3>1. w.deadline \in Int /\ w.deadline >= 1 /\ 90000 * 1000 \in Int
      BY <2>2
    <3>2. (90000 * 1000) \div w.deadline \in Int
      BY <3>1, Quotients
    <3> QED
      BY <2>2, <3>2, Clamped
  <2> QED
    BY <2>1, <2>2
<1>3. ApplyLatencyPriority(f, w) = [f EXCEPT !.latency = IF hurry > asked THEN hurry ELSE asked]
  BY DEF ApplyLatencyPriority
<1> HIDE DEF asked, hurry
<1> QED
  BY <1>1, <1>2, <1>3 DEF Features

\* The pressure of the quota, whichever windows it is made of.
LEMMA QuotaIsNumber ==
  ASSUME NEW windows, NEW reserve \in Int, \A w \in windows : {w.used, w.elapsed} \subseteq Int
  PROVE  DeriveQuota(windows, reserve).pressure \in Int
<1>1. ASSUME NEW w \in windows PROVE Pressure(w, reserve) \in Int
  <2> DEFINE elapsed == IF w.elapsed < 50 THEN 50 ELSE w.elapsed
             burn == (w.used * 10000) \div elapsed
             reserved == Clamp(((w.used - (100 - reserve)) * 1000) \div AtLeastOne(reserve))
  <2>1. w.used \in Int /\ elapsed \in Int /\ elapsed >= 1
    BY <1>1
  <2> HIDE DEF elapsed
  <2>2. w.used * 10000 \in Int /\ w.used * 10 \in Int /\ (w.used - (100 - reserve)) * 1000 \in Int
    BY <2>1
  <2>3. burn \in Int /\ burn \div 2 \in Int
    BY <2>1, <2>2, Quotients
  <2>4. reserved \in Int
    BY <2>2, Clamped, Quotients
  <2> HIDE DEF burn, reserved
  <2>5. Clamp(burn \div 2) \in Int
    BY <2>3, Clamped
  <2>6. \A x \in Int : Mul(550, x) \in Int /\ Mul(300, x) \in Int /\ Mul(150, x) \in Int
    <3>1. 550 \in Int /\ 300 \in Int /\ 150 \in Int
      OBVIOUS
    <3> QED
      BY <3>1, Products, ZenonT(30)
  <2>7. /\ Mul(550, w.used * 10) \in Int /\ Mul(300, Clamp(burn \div 2)) \in Int
        /\ Mul(150, reserved) \in Int
    BY <2>2, <2>4, <2>5, <2>6
  <2>8. Clamp(Mul(550, w.used * 10) + Mul(300, Clamp(burn \div 2)) + Mul(150, reserved)) \in Int
    BY <2>7, Clamped
  <2> QED
    BY <2>8 DEF Pressure, burn, reserved, elapsed
<1> DEFINE scored == {[known |-> TRUE, exhausted |-> w.used >= 100 \/ w.reached, used |-> w.used,
                       pressure |-> Pressure(w, reserve), source |-> w.id] : w \in windows}
           worse(a, b) == \/ a.exhausted /\ ~b.exhausted
                          \/ a.exhausted = b.exhausted /\ a.pressure >= b.pressure
           worst == {a \in scored : \A b \in scored : worse(a, b)}
<1>2. \A a \in scored : a.pressure \in Int
  BY <1>1
<1>3. scored # {} => (CHOOSE a \in scored : worst = {} \/ a \in worst) \in scored
  <2> HIDE DEF scored
  <2> SUFFICES ASSUME scored # {} PROVE \E a \in scored : worst = {} \/ a \in worst
    OBVIOUS
  <2> QED
    OBVIOUS
<1>4. NoQuota.pressure \in Int
  BY DEF NoQuota
<1> HIDE DEF worse
<1>5. DeriveQuota(windows, reserve) = IF scored = {} THEN NoQuota
                                      ELSE CHOOSE a \in scored : worst = {} \/ a \in worst
  BY DEF DeriveQuota, worse
<1> HIDE DEF scored, worst
<1> QED
  BY <1>2, <1>3, <1>4, <1>5

\* The tables that the router holds.
LEMMA EffortNumbers ==
  \A e : /\ OfEffort(EffortCost, e, 1000) \in Int /\ OfEffort(EffortLatency, e, 1000) \in Int
         /\ OfEffort(EffortDelta, e, 0) \in Int
BY DEF OfEffort, EffortCost, EffortLatency, EffortDelta

LEMMA FamilyNumbers ==
  \A g \in DOMAIN Capability : Capability[g] \in Int /\ FamilyLatency[g] \in Int
BY DEF Capability, FamilyLatency

LEMMA SpeedNumbers ==
  ASSUME NEW c, Numeric(c), NEW s
  PROVE  SpeedProfile(c, s).cost \in Int /\ SpeedProfile(c, s).latency \in Int
<1>1. CASE s \in DOMAIN c.speed
  BY <1>1 DEF SpeedProfile, Numeric
<1>2. CASE s \notin DOMAIN c.speed
  BY <1>2 DEF SpeedProfile
<1> QED
  BY <1>1, <1>2

\* What a route costs and takes.
LEMMA WeightsAreNumbers ==
  ASSUME NEW c, Numeric(c), NEW r, r.family \in DOMAIN Capability, r.tier \in Range(Tiers)
  PROVE  CostWeight(c, r) \in Int /\ LatencyWeight(c, r) \in Int
<1>1. /\ c.familyWeight[r.family] \in Int /\ c.proofCost[r.tier] \in Int
      /\ FamilyLatency[r.family] \in Int
  BY FamilyNumbers DEF Numeric
<1>2. /\ OfEffort(EffortCost, r.effort, 1000) \in Int /\ OfEffort(EffortLatency, r.effort, 1000) \in Int
      /\ SpeedProfile(c, r.speed).cost \in Int /\ SpeedProfile(c, r.speed).latency \in Int
  BY EffortNumbers, SpeedNumbers
<1>3. /\ Mul(c.familyWeight[r.family], OfEffort(EffortCost, r.effort, 1000)) \in Int
      /\ Mul(FamilyLatency[r.family], OfEffort(EffortLatency, r.effort, 1000)) \in Int
      /\ Mul(c.proofCost[r.tier], 280) \in Int
  BY <1>1, <1>2, Products
<1>4. /\ Mul(Mul(c.familyWeight[r.family], OfEffort(EffortCost, r.effort, 1000)),
             SpeedProfile(c, r.speed).cost) \in Int
      /\ Mul(Mul(FamilyLatency[r.family], OfEffort(EffortLatency, r.effort, 1000)),
             SpeedProfile(c, r.speed).latency) \in Int
  BY <1>2, <1>3, Products
<1> QED
  BY <1>1, <1>3, <1>4 DEF CostWeight, LatencyWeight

\* What a route is capable of.
LEMMA CapabilityIsNumber ==
  ASSUME NEW f \in [Features -> Int], NEW r, r.family \in DOMAIN Capability
  PROVE  CapabilityScore(f, r) \in Int
<1>1. \A g \in Features : f[g] \in Int
  OBVIOUS
<1>2. /\ f.risk \in Int /\ f.depth \in Int /\ f.ambiguity \in Int /\ f.novelty \in Int
      /\ f.breadth \in Int /\ f.parallelizability \in Int /\ f.verifiability \in Int
      /\ f.mechanicalness \in Int
  BY <1>1 DEF Features
<1>3. /\ Mul(f.mechanicalness, 110) \in Int /\ Mul(f.verifiability, 60) \in Int
      /\ Mul(f.ambiguity, 140) \in Int /\ Mul(f.depth, 100) \in Int /\ Mul(f.risk, 120) \in Int
      /\ Mul(f.breadth, 50) \in Int
  BY <1>2, Products
<1>4. /\ Mul(f.mechanicalness, 30) \in Int /\ Mul(f.verifiability, 30) \in Int
      /\ Mul(f.risk, 25) \in Int /\ Mul(f.novelty, 30) \in Int
  BY <1>2, Products
<1>5. /\ Mul(f.ambiguity, 35) \in Int /\ Mul(f.depth, 40) \in Int /\ Mul(f.risk, 35) \in Int
      /\ Mul(f.novelty, 25) \in Int /\ Mul(f.risk, 60) \in Int
  BY <1>2, Products
<1>6. FamilyTaskFit(r.family, f) \in Int
  BY <1>3, <1>4, <1>5 DEF FamilyTaskFit
<1>7. /\ Mul(f.parallelizability, 120) \in Int /\ Mul(f.breadth, 60) \in Int /\ Mul(f.depth, 35) \in Int
  BY <1>2, Products
<1> DEFINE ultra == IF r.topology = "ultra"
                    THEN Mul(f.parallelizability, 120) + Mul(f.breadth, 60) - Mul(f.depth, 35) ELSE 0
<1>8. ultra \in Int
  BY <1>7
<1>9. Capability[r.family] \in Int /\ OfEffort(EffortDelta, r.effort, 0) \in Int
  BY FamilyNumbers, EffortNumbers
<1>10. CapabilityScore(f, r) = Clamp(Capability[r.family] + OfEffort(EffortDelta, r.effort, 0)
                                     + FamilyTaskFit(r.family, f) + ultra)
  BY DEF CapabilityScore
<1> HIDE DEF ultra
<1> QED
  BY <1>6, <1>8, <1>9, <1>10, Clamped

\* The features of a state, one by one.
LEMMA FeatureNumbers ==
  ASSUME NEW f \in [Features -> Int]
  PROVE  /\ f.risk \in Int /\ f.depth \in Int /\ f.ambiguity \in Int /\ f.novelty \in Int
         /\ f.breadth \in Int /\ f.parallelizability \in Int /\ f.verifiability \in Int
         /\ f.mechanicalness \in Int /\ f.destructive \in Int /\ f.latency \in Int
<1>1. \A g \in Features : f[g] \in Int
  OBVIOUS
<1> QED
  BY <1>1 DEF Features

LEMMA ChanceIsNumber ==
  ASSUME NEW f \in [Features -> Int], NEW capability \in Int
  PROVE  HeuristicSuccess(f, capability) \in Int
<1>1. Mul(f.mechanicalness, 35) \in Int /\ Mul(f.novelty, 40) \in Int
  BY FeatureNumbers, Products
<1>2. 40 + Mul(f.mechanicalness, 35) \in Int
  BY <1>1
<1>3. Mul(f.verifiability, 40 + Mul(f.mechanicalness, 35)) \in Int
  BY <1>2, FeatureNumbers, Products
<1> QED
  BY <1>1, <1>3, Clamped DEF HeuristicSuccess

LEMMA DoubtIsNumber ==
  ASSUME NEW f \in [Features -> Int], NEW family, NEW weight \in Int
  PROVE  Doubt(f, family, weight) \in Int
<1> DEFINE strange == IF family = "unknown" THEN 200 ELSE 0
           base == Clamp(80 + Mul(f.ambiguity, 280) + Mul(f.novelty, 250) + strange)
<1>1. Mul(f.ambiguity, 280) \in Int /\ Mul(f.novelty, 250) \in Int /\ Mul(weight, 620) \in Int
  BY FeatureNumbers, Products
<1>2. base \in Int
  BY <1>1, Clamped
<1>3. Doubt(f, family, weight) = Clamp(Mul(base, 1000 - Mul(weight, 620)))
  BY DEF Doubt
<1> HIDE DEF base
<1>4. 1000 - Mul(weight, 620) \in Int
  BY <1>1
<1> QED
  BY <1>2, <1>3, <1>4, Products, Clamped

LEMMA DetectionIsNumber ==
  ASSUME NEW c, Numeric(c), NEW f \in [Features -> Int], NEW tier \in Range(Tiers)
  PROVE  Detection(c, f, tier) \in Int
<1>1. c.boost[tier] \in Int /\ c.floor[tier] \in Int
  BY DEF Numeric
<1>2. Mul(f.verifiability, 580) \in Int /\ Mul(f.mechanicalness, 60) \in Int
  BY FeatureNumbers, Products
<1>3. 160 + Mul(f.verifiability, 580) + Mul(f.mechanicalness, 60) + c.boost[tier] \in Int
  BY <1>1, <1>2
<1> QED
  BY <1>1, <1>3, Clamped, Greatest DEF Detection

\* The estimates of a route of which nothing was learned.
LEMMA EstimatesAreNumbers ==
  ASSUME NEW q, Numeric(q.config), q.features \in [Features -> Int], NEW r,
         r.family \in DOMAIN Capability, r.tier \in Range(Tiers), NEW capability \in Int
  PROVE  LET e == Estimates(q, r, None, 0, capability)
         IN  /\ e.success \in Int /\ e.duration \in Int /\ e.credits \in Int
             /\ e.doubt \in Int /\ e.detection \in Int /\ e.escape \in Int
<1> DEFINE c == q.config  f == q.features
           heuristic == HeuristicSuccess(f, capability)
           duration == ((c.baselineMs \div 100) * LatencyWeight(c, r)) \div 10
           credits == CostWeight(c, r) * c.creditsPerWeight
           prior == Prior(c, heuristic, duration, credits)
           doubt == Doubt(f, r.family, 0)
           detection == Detection(c, f, r.tier)
           lower == LowerBound(f, heuristic, doubt)
           escape == Clamp(Mul(1000 - lower, 1000 - detection))
<1>1. heuristic \in Int /\ doubt \in Int /\ detection \in Int
  BY ChanceIsNumber, DoubtIsNumber, DetectionIsNumber
<1>2. duration \in Int
  <2>1. c.baselineMs \in Int /\ LatencyWeight(c, r) \in Int
    BY WeightsAreNumbers DEF Numeric
  <2>2. c.baselineMs \div 100 \in Int
    BY <2>1
  <2>3. (c.baselineMs \div 100) * LatencyWeight(c, r) \in Int
    BY <2>1, <2>2
  <2> QED
    BY <2>3
<1>3. credits \in Int
  BY WeightsAreNumbers DEF Numeric
<1> HIDE DEF heuristic, doubt, detection, duration, credits
<1>4. lower \in Int
  <2>1. f.risk \in Int /\ f.destructive \in Int
    BY FeatureNumbers
  <2>2. 250 + f.risk \div 4 + f.destructive \div 4 \in Int
    BY <2>1
  <2>3. Mul(doubt, 250 + f.risk \div 4 + f.destructive \div 4) \in Int
    BY <1>1, <2>2, Products
  <2> QED
    BY <1>1, <2>3, Clamped DEF LowerBound
<1>5. escape \in Int
  <2> HIDE DEF lower
  <2>1. 1000 - lower \in Int /\ 1000 - detection \in Int
    BY <1>1, <1>4
  <2> QED
    BY <2>1, Products, Clamped
<1>6. prior.success = heuristic /\ prior.duration = duration /\ prior.credits = credits
  BY DEF Prior
<1>7. Calibrated(prior, None, 0) = prior
  BY DEF Calibrated
<1> DEFINE e == Estimates(q, r, None, 0, capability)
<1>8. e = Estimated(f, prior, doubt, detection)
  BY <1>7 DEF Estimates, heuristic, duration, credits, doubt, detection
<1>9. /\ e.success = heuristic /\ e.duration = duration /\ e.credits = credits
      /\ e.doubt = doubt /\ e.detection = detection /\ e.escape = escape
  BY <1>6, <1>8 DEF Estimated
<1> HIDE DEF e, escape
<1> QED
  BY <1>1, <1>2, <1>3, <1>5, <1>9 DEF e

\* What a route is weighed by in all.
LEMMA ObjectiveIsNumber ==
  ASSUME NEW q, Numeric(q.config), q.features \in [Features -> Int], q.quota.pressure \in Int,
         NEW r, r.tier \in Range(Tiers), NEW e,
         e.duration \in Int, e.credits \in Int, e.doubt \in Int, e.escape \in Int
  PROVE  Objective(q, r, e) \in Int
<1> DEFINE c == q.config  f == q.features
           impact == 1000 + 3 * f.risk + 3 * f.destructive
           cube == Mul(f.latency, Mul(f.latency, f.latency))
           urgency == Mul(500 + Mul(59500, cube), ProfileSpeed[c.profile])
           unit == AtLeastOne(c.creditsPerWeight)
           shortfall == Max({0, RequiredThreshold(c.minimumQuality, f) - (1000 - e.escape)})
           cost == Mul(Mul(e.credits \div unit + Mul(c.proofCost[r.tier], 350), ProfileCost[c.profile]),
                       c.weight.cost)
           time == Mul(Mul((e.duration * 1000) \div AtLeastOne(c.baselineMs), urgency), c.weight.latency)
           scarcity == Mul(Mul(e.credits, q.quota.pressure) \div unit, c.weight.quota)
           failure == Mul(Mul(shortfall, impact) * 40 + Mul(Mul(e.escape, impact), 750), c.weight.failure)
           uncertainty == Mul(e.doubt * 5, c.weight.uncertainty)
<1>1. /\ ProfileCost[c.profile] \in Int /\ ProfileSpeed[c.profile] \in Int
  BY DEF Numeric, ProfileCost, ProfileSpeed
<1>2. /\ c.baselineMs \in Int /\ c.creditsPerWeight \in Int /\ c.weight.cost \in Int
      /\ c.weight.latency \in Int /\ c.weight.quota \in Int /\ c.weight.failure \in Int
      /\ c.weight.uncertainty \in Int /\ c.proofCost[r.tier] \in Int
  BY DEF Numeric
<1>3. f.risk \in Int /\ f.destructive \in Int /\ f.latency \in Int
  BY FeatureNumbers
<1>4. impact \in Int
  BY <1>3
<1>5. urgency \in Int
  <2>1. cube \in Int
    <3>1. Mul(f.latency, f.latency) \in Int
      BY <1>3, Products
    <3> QED
      BY <1>3, <3>1, Products
  <2> HIDE DEF cube
  <2>2. Mul(59500, cube) \in Int
    BY <2>1, Products
  <2>3. 500 + Mul(59500, cube) \in Int
    BY <2>2
  <2> QED
    BY <1>1, <2>3, Products
<1>6. unit \in Int /\ unit >= 1
  BY <1>2, Clamped
<1>7. shortfall \in Int
  <2>1. RequiredThreshold(c.minimumQuality, f) \in Int
    <3>1. c.minimumQuality \in [{"normal", "elevated", "critical"} -> Int]
      BY DEF Numeric
    <3> HIDE DEF c
    <3> QED
      BY <3>1 DEF RequiredThreshold
  <2>2. RequiredThreshold(c.minimumQuality, f) - (1000 - e.escape) \in Int
    BY <2>1
  <2> QED
    BY <2>2, Greatest
<1> HIDE DEF impact, urgency, unit, shortfall, c, f
<1>8. cost \in Int
  <2>1. e.credits \div unit \in Int /\ Mul(c.proofCost[r.tier], 350) \in Int
    BY <1>2, <1>6, Quotients, Products
  <2>2. e.credits \div unit + Mul(c.proofCost[r.tier], 350) \in Int
    BY <2>1
  <2>3. Mul(e.credits \div unit + Mul(c.proofCost[r.tier], 350), ProfileCost[c.profile]) \in Int
    BY <1>1, <2>2, Products
  <2> QED
    BY <1>2, <2>3, Products
<1>9. time \in Int
  <2>1. AtLeastOne(c.baselineMs) \in Int /\ AtLeastOne(c.baselineMs) >= 1 /\ e.duration * 1000 \in Int
    BY <1>2, Clamped
  <2>2. (e.duration * 1000) \div AtLeastOne(c.baselineMs) \in Int
    BY <2>1, Quotients
  <2>3. Mul((e.duration * 1000) \div AtLeastOne(c.baselineMs), urgency) \in Int
    BY <1>5, <2>2, Products
  <2> QED
    BY <1>2, <2>3, Products
<1>10. scarcity \in Int
  <2>1. Mul(e.credits, q.quota.pressure) \in Int
    BY Products
  <2>2. Mul(e.credits, q.quota.pressure) \div unit \in Int
    BY <1>6, <2>1, Quotients
  <2> QED
    BY <1>2, <2>2, Products
<1>11. failure \in Int
  <2>1. Mul(shortfall, impact) \in Int /\ Mul(e.escape, impact) \in Int
    BY <1>4, <1>7, Products
  <2>2. Mul(Mul(e.escape, impact), 750) \in Int
    BY <2>1, Products
  <2>3. Mul(shortfall, impact) * 40 + Mul(Mul(e.escape, impact), 750) \in Int
    BY <2>1, <2>2
  <2> QED
    BY <1>2, <2>3, Products
<1>12. uncertainty \in Int
  <2>1. e.doubt * 5 \in Int
    OBVIOUS
  <2> QED
    BY <1>2, <2>1, Products
<1>13. Objective(q, r, e) = cost + time + scarcity + failure + uncertainty
  BY DEF Objective, cost, time, scarcity, failure, uncertainty, impact, urgency, unit, shortfall, c, f
<1> HIDE DEF cost, time, scarcity, failure, uncertainty
<1> QED
  BY <1>8, <1>9, <1>10, <1>11, <1>12, <1>13

Keys == {"objective", "credits", "failure", "escape", "duration", "place", "turn"}

\* The place of a speed in the configuration, which is of that speed alone.
LEMMA TurnIsNumber ==
  ASSUME NEW c, c.speeds \in Seq(Range(c.speeds)), NEW s
  PROVE  /\ Turn(c, s) \in Int
         /\ s \in Range(c.speeds) => Turn(c, s) \in DOMAIN c.speeds /\ c.speeds[Turn(c, s)] = s
<1>1. DOMAIN c.speeds = 1..Len(c.speeds) /\ Len(c.speeds) \in Nat
  OBVIOUS
<1>2. CASE s \in Range(c.speeds)
  <2>1. \E i \in DOMAIN c.speeds : c.speeds[i] = s
    BY <1>2 DEF Range
  <2>2. Rank(c.speeds, s) \in DOMAIN c.speeds /\ c.speeds[Rank(c.speeds, s)] = s
    BY <2>1 DEF Rank
  <2> QED
    BY <1>1, <1>2, <2>2 DEF Turn
<1>3. CASE s \notin Range(c.speeds)
  BY <1>3 DEF Turn
<1> QED
  BY <1>2, <1>3

\* Every key of a candidate of which nothing was learned.
LEMMA ScoresAreNumbers ==
  ASSUME NEW q, Numeric(q.config), q.config.speeds \in Seq(Range(q.config.speeds)),
         q.features \in [Features -> Int], q.quota.pressure \in Int, q.history = {},
         NEW r, r.family \in DOMAIN Capability, r.tier \in Range(Tiers), r.place \in Int
  PROVE  \A k \in Keys : Score(q, r)[k] \in Int
<1> DEFINE capability == CapabilityScore(q.features, r)
           e == Estimates(q, r, None, 0, capability)
<1>1. CalibrationFor(q.history, RouteKey(r)) = None
  <2>1. Observed({}, RouteKey(r)) = {}
    BY DEF Observed
  <2>2. Observed(q.history, RouteKey(r)) = {} /\ Cardinality({}) = 0
    BY <2>1, FS_EmptySet
  <2> QED
    BY <2>2 DEF CalibrationFor
<1>2. EmpiricalWeight(q.config, None) = 0
  BY DEF EmpiricalWeight
<1>3. Score(q, r) = Scored(q, r, e, capability)
  BY <1>1, <1>2 DEF Score, ScoreKnowing
<1>4. capability \in Int
  BY CapabilityIsNumber
<1> HIDE DEF capability
<1>5. /\ e.success \in Int /\ e.duration \in Int /\ e.credits \in Int
      /\ e.doubt \in Int /\ e.detection \in Int /\ e.escape \in Int
  BY <1>4, EstimatesAreNumbers
<1> HIDE DEF e
<1>6. Objective(q, r, e) \in Int /\ Turn(q.config, r.speed) \in Int
  BY <1>5, ObjectiveIsNumber, TurnIsNumber
<1> QED
  BY <1>3, <1>5, <1>6 DEF Scored, Keys

-----------------------------------------------------------------------------
\* A query enumerates finitely many routes.

\* The range of a sequence is finite, and so is what a query enumerates.
LEMMA RangeIsFinite ==
  ASSUME NEW s, s \in Seq(Range(s)) PROVE IsFiniteSet(Range(s))
<1>1. DOMAIN s = 1..Len(s) /\ Len(s) \in Nat
  OBVIOUS
<1>2. IsFiniteSet(DOMAIN s)
  BY <1>1, FS_Interval
<1> DEFINE f == [i \in DOMAIN s |-> s[i]]
<1>3. f \in Surjection(DOMAIN s, Range(s))
  BY DEF Surjection, Range
<1> QED
  BY <1>2, <1>3, FS_Surjection

LEMMA TiersAreFinite == IsFiniteSet(Range(Tiers))
<1>1. Tiers \in Seq(Range(Tiers))
  BY DEF Tiers, Range
<1> QED
  BY <1>1, RangeIsFinite

LEMMA PairIsFinite == \A a, b : IsFiniteSet({a}) /\ IsFiniteSet({a, b})
<1> TAKE a, b
<1>1. IsFiniteSet({a}) /\ IsFiniteSet({b})
  BY FS_Singleton
<1>2. {a} \cup {b} = {a, b}
  OBVIOUS
<1> QED
  BY <1>1, <1>2, FS_Union

LEMMA EnumerationIsFinite ==
  ASSUME NEW q, NEW S, q.catalog \in Seq(S), q.config.speeds \in Seq(Range(q.config.speeds)),
         q.config.candidateEfforts \in Seq(Range(q.config.candidateEfforts)),
         q.config.tiers \subseteq Range(Tiers)
  PROVE  IsFiniteSet(Enumerate(q))
<1> DEFINE efforts(i) == CandidateEfforts(q, q.catalog[i])
           speeds(i) == CandidateSpeeds(q, q.catalog[i])
           tiers == CandidateTiers(q)
           models == {i \in Visible(q.catalog) :
                        /\ q.want.modelId \in {None, q.catalog[i].id}
                        /\ q.want.family \in {None, q.catalog[i].family}}
           routes(i) ==
             {[place |-> i, model |-> q.catalog[i].id, family |-> q.catalog[i].family, effort |-> e,
               speed |-> s, topology |-> TopologyOf(e), tier |-> t] :
                 e \in efforts(i), s \in speeds(i), t \in tiers}
<1>1. \A i : IsFiniteSet(efforts(i))
  <2> TAKE i
  <2>1. IsFiniteSet(Range(q.config.candidateEfforts))
    BY RangeIsFinite
  <2> DEFINE m == q.catalog[i]
             configured == SupportedEfforts(m) \cap Range(q.config.candidateEfforts)
  <2>2. IsFiniteSet(configured) /\ IsFiniteSet({m.defaultEffort}) /\ IsFiniteSet({q.want.effort})
    BY <2>1, FS_Intersection, PairIsFinite
  <2>3. IsFiniteSet(SupportedEfforts(m) \cap {q.want.effort})
    BY <2>2, FS_Intersection
  <2> QED
    BY <2>2, <2>3 DEF CandidateEfforts
<1>2. \A i : IsFiniteSet(speeds(i))
  <2> TAKE i
  <2> DEFINE some == {"standard", q.want.speedId}
             other == {ClosestSupportedSpeed(q.config, q.catalog[i], q.config.defaultSpeed)}
             all == (Range(q.config.speeds) \cup some) \cup other
  <2>1. IsFiniteSet(Range(q.config.speeds)) /\ IsFiniteSet(some) /\ IsFiniteSet(other)
    BY RangeIsFinite, PairIsFinite
  <2> HIDE DEF some, other
  <2>2. IsFiniteSet(Range(q.config.speeds) \cup some)
    BY <2>1, FS_Union
  <2>3. IsFiniteSet(all)
    BY <2>1, <2>2, FS_Union
  <2>4. speeds(i) \in SUBSET all
    BY DEF CandidateSpeeds, some, other
  <2> HIDE DEF all
  <2> QED
    BY <2>3, <2>4, FS_Subset
<1>3. IsFiniteSet(tiers)
  <2>1. IsFiniteSet(q.config.tiers)
    BY TiersAreFinite, FS_Subset
  <2> QED
    BY <2>1, PairIsFinite DEF CandidateTiers
<1> HIDE DEF efforts, speeds, tiers
<1>4. IsFiniteSet(models)
  <2>1. DOMAIN q.catalog = 1..Len(q.catalog) /\ Len(q.catalog) \in Nat
    OBVIOUS
  <2>2. IsFiniteSet(DOMAIN q.catalog)
    BY <2>1, FS_Interval
  <2>3. models \in SUBSET DOMAIN q.catalog
    BY DEF Visible
  <2> HIDE DEF models
  <2> QED
    BY <2>2, <2>3, FS_Subset
<1> HIDE DEF models
<1>5. \A i : IsFiniteSet(routes(i))
  <2> TAKE i
  <2>1. IsFiniteSet(efforts(i) \X speeds(i))
    BY <1>1, <1>2, FS_Product
  <2>2. IsFiniteSet((efforts(i) \X speeds(i)) \X tiers)
    BY <1>3, <2>1, FS_Product
  <2> DEFINE f == [x \in (efforts(i) \X speeds(i)) \X tiers |->
                    [place |-> i, model |-> q.catalog[i].id, family |-> q.catalog[i].family,
                     effort |-> x[1][1], speed |-> x[1][2], topology |-> TopologyOf(x[1][1]),
                     tier |-> x[2]]]
  <2>3. ASSUME NEW x \in (efforts(i) \X speeds(i)) \X tiers PROVE f[x] \in routes(i)
    OBVIOUS
  <2>4. ASSUME NEW r \in routes(i) PROVE \E x \in (efforts(i) \X speeds(i)) \X tiers : f[x] = r
    <3>1. PICK e \in efforts(i), s \in speeds(i), t \in tiers :
            r = [place |-> i, model |-> q.catalog[i].id, family |-> q.catalog[i].family, effort |-> e,
                 speed |-> s, topology |-> TopologyOf(e), tier |-> t]
      OBVIOUS
    <3>2. <<<<e, s>>, t>> \in (efforts(i) \X speeds(i)) \X tiers
      OBVIOUS
    <3>3. f[<<<<e, s>>, t>>] = r
      BY <3>1, <3>2
    <3> QED
      BY <3>2, <3>3
  <2>5. f \in [(efforts(i) \X speeds(i)) \X tiers -> routes(i)]
    BY <2>3
  <2> HIDE DEF routes, f
  <2>6. f \in Surjection((efforts(i) \X speeds(i)) \X tiers, routes(i))
    BY <2>4, <2>5 DEF Surjection
  <2> QED
    BY <2>2, <2>6, FS_Surjection
<1> DEFINE all == {routes(i) : i \in models}
<1>6. IsFiniteSet(all)
  <2> DEFINE f == [i \in models |-> routes(i)]
  <2> HIDE DEF routes
  <2>1. f \in Surjection(models, all)
    BY DEF Surjection
  <2> HIDE DEF all, f
  <2> QED
    BY <1>4, <2>1, FS_Surjection
<1>7. \A T \in all : IsFiniteSet(T)
  <2> HIDE DEF routes
  <2> QED
    BY <1>5
<1>8. IsFiniteSet(UNION all)
  <2> HIDE DEF all
  <2> QED
    BY <1>6, <1>7, FS_UNION
<1>9. Enumerate(q) \in SUBSET UNION all
  BY DEF Enumerate, efforts, speeds, tiers, models
<1> HIDE DEF all
<1> QED
  BY <1>8, <1>9, FS_Subset

\* So are the candidates made of it.
LEMMA CandidatesAreFinite ==
  ASSUME NEW q, IsFiniteSet(Enumerate(q))
  PROVE  \A T \in SUBSET {Score(q, r) : r \in Enumerate(q)} : IsFiniteSet(T)
<1> DEFINE S == {Score(q, r) : r \in Enumerate(q)}
           f == [r \in Enumerate(q) |-> Score(q, r)]
<1>1. f \in Surjection(Enumerate(q), S)
  BY DEF Surjection
<1> HIDE DEF S, f
<1>2. IsFiniteSet(S)
  BY <1>1, FS_Surjection
<1>3. \A T \in SUBSET S : IsFiniteSet(T)
  BY <1>2, FS_Subset
<1> QED
  BY <1>3 DEF S

-----------------------------------------------------------------------------
\* Asking again for the route of a decision asks of fewer candidates, which score as before and are
\* held to no gate more (policy.ts revalidateTreatmentPolicy).

\* Two questions about the same world that differ only in the route they name.
AskedAlike(q, p) ==
  /\ p.config = q.config /\ p.features = q.features /\ p.catalog = q.catalog /\ p.quota = q.quota
  /\ p.tiers = q.tiers /\ p.history = q.history
  /\ \A f \in {"family", "speedMode", "context", "latency", "deadline", "credits"} :
       p.want[f] = q.want[f]

\* A route gets the same scores from either of them.
LEMMA ScoredAlike ==
  ASSUME NEW q, NEW p, AskedAlike(q, p), NEW r
  PROVE  \E e, capability :
           /\ Score(q, r) = Scored(q, r, e, capability)
           /\ Score(p, r) = Scored(p, r, e, capability)
           /\ Objective(p, r, e) = Objective(q, r, e)
<1> DEFINE known == CalibrationFor(q.history, RouteKey(r))
           capability == CapabilityScore(q.features, r)
           weight == EmpiricalWeight(q.config, known)
           e == Estimates(q, r, known, weight, capability)
<1>1. Score(q, r) = Scored(q, r, e, capability)
  BY DEF Score, ScoreKnowing
<1>2. Estimates(p, r, known, weight, capability) = e
  BY DEF AskedAlike, Estimates
<1>3. Score(p, r) = Scored(p, r, e, capability)
  BY <1>2 DEF Score, ScoreKnowing, AskedAlike
<1>4. Objective(p, r, e) = Objective(q, r, e)
  BY DEF AskedAlike, Objective
<1> QED
  BY <1>1, <1>3, <1>4

\* And it is held to the same gates, but for the one that asking for a speed lifts.
LEMMA GatesAlike ==
  ASSUME NEW q, NEW p, AskedAlike(q, p), NEW r, NEW e
  PROVE  /\ DOMAIN Gates(p, r, e) = DOMAIN Gates(q, r, e)
         /\ \A g \in DOMAIN Gates(q, r, e) \ {"insensitive"} : Gates(p, r, e)[g] = Gates(q, r, e)[g]
         /\ p.want.speedId = q.want.speedId => Gates(p, r, e).insensitive = Gates(q, r, e).insensitive
         /\ p.want.speedId # None => ~Gates(p, r, e).insensitive
<1>1. /\ p.config = q.config /\ p.features = q.features /\ p.quota = q.quota /\ p.tiers = q.tiers
      /\ p.want.speedMode = q.want.speedMode /\ p.want.context = q.want.context
      /\ p.want.latency = q.want.latency /\ p.want.deadline = q.want.deadline
      /\ p.want.credits = q.want.credits
  BY DEF AskedAlike
<1>2. HasStructuredLatencyDemand(p.want) = HasStructuredLatencyDemand(q.want)
  BY <1>1 DEF HasStructuredLatencyDemand
<1>3. /\ DOMAIN Gates(q, r, e) =
           {"completion", "quality", "tierUnavailable", "proofFloor", "critical", "destructive",
            "exhausted", "maxDisabled", "maxUse", "ultraDisabled", "ultraUse", "workstreams", "narrow",
            "ultraProof", "premiumUse", "background", "unhurried", "insensitive", "deadline", "credits"}
      /\ DOMAIN Gates(p, r, e) = DOMAIN Gates(q, r, e)
  BY DEF Gates
<1>4. /\ Gates(p, r, e).completion = Gates(q, r, e).completion
      /\ Gates(p, r, e).quality = Gates(q, r, e).quality
      /\ Gates(p, r, e).tierUnavailable = Gates(q, r, e).tierUnavailable
      /\ Gates(p, r, e).proofFloor = Gates(q, r, e).proofFloor
      /\ Gates(p, r, e).critical = Gates(q, r, e).critical
  BY <1>1, <1>2, SMTT(30) DEF Gates
<1>5. /\ Gates(p, r, e).destructive = Gates(q, r, e).destructive
      /\ Gates(p, r, e).exhausted = Gates(q, r, e).exhausted
      /\ Gates(p, r, e).maxDisabled = Gates(q, r, e).maxDisabled
      /\ Gates(p, r, e).maxUse = Gates(q, r, e).maxUse
      /\ Gates(p, r, e).ultraDisabled = Gates(q, r, e).ultraDisabled
  BY <1>1, <1>2 DEF Gates
<1>6. /\ Gates(p, r, e).ultraUse = Gates(q, r, e).ultraUse
      /\ Gates(p, r, e).workstreams = Gates(q, r, e).workstreams
      /\ Gates(p, r, e).narrow = Gates(q, r, e).narrow
      /\ Gates(p, r, e).ultraProof = Gates(q, r, e).ultraProof
      /\ Gates(p, r, e).premiumUse = Gates(q, r, e).premiumUse
  BY <1>1, <1>2 DEF Gates
<1>7. /\ Gates(p, r, e).background = Gates(q, r, e).background
      /\ Gates(p, r, e).unhurried = Gates(q, r, e).unhurried
      /\ Gates(p, r, e).deadline = Gates(q, r, e).deadline
      /\ Gates(p, r, e).credits = Gates(q, r, e).credits
  BY <1>1, <1>2 DEF Gates
<1>8. /\ p.want.speedId = q.want.speedId => Gates(p, r, e).insensitive = Gates(q, r, e).insensitive
      /\ p.want.speedId # None => ~Gates(p, r, e).insensitive
  BY <1>1 DEF Gates
<1> QED
  BY <1>3, <1>4, <1>5, <1>6, <1>7, <1>8

\* What was admissible among more is when it is asked for.
LEMMA NarrowedScore ==
  ASSUME NEW q, NEW p, AskedAlike(q, p), NEW r
  PROVE  /\ p.want.speedId = q.want.speedId => Score(p, r) = Score(q, r)
         /\ Admissible(Score(q, r)) /\ p.want.speedId # None => Admissible(Score(p, r))
<1>1. PICK e, capability :
        /\ Score(q, r) = Scored(q, r, e, capability)
        /\ Score(p, r) = Scored(p, r, e, capability)
        /\ Objective(p, r, e) = Objective(q, r, e)
  BY ScoredAlike
<1>2. p.want.speedId = q.want.speedId => Rejections(p, r, e) = Rejections(q, r, e)
  <2> SUFFICES ASSUME p.want.speedId = q.want.speedId PROVE Rejections(p, r, e) = Rejections(q, r, e)
    OBVIOUS
  <2>1. \A g \in DOMAIN Gates(q, r, e) : Gates(p, r, e)[g] = Gates(q, r, e)[g]
    BY GatesAlike
  <2> QED
    BY <2>1, GatesAlike DEF Rejections
<1>3. Score(p, r) = [Score(q, r) EXCEPT !.rejections = Rejections(p, r, e)]
      /\ Score(q, r) = [Score(q, r) EXCEPT !.rejections = Rejections(q, r, e)]
  BY <1>1 DEF Scored, AskedAlike
<1>4. ASSUME Rejections(q, r, e) = {}, p.want.speedId # None PROVE Rejections(p, r, e) = {}
  <2> SUFFICES ASSUME NEW g \in DOMAIN Gates(p, r, e), Gates(p, r, e)[g] PROVE FALSE
    BY DEF Rejections
  <2>1. g # "insensitive"
    BY <1>4, GatesAlike
  <2>2. g \in DOMAIN Gates(q, r, e) /\ Gates(q, r, e)[g]
    BY <2>1, GatesAlike
  <2> QED
    BY <1>4, <2>2 DEF Rejections
<1>5. Score(q, r).rejections = Rejections(q, r, e) /\ Score(p, r).rejections = Rejections(p, r, e)
  BY <1>1 DEF Scored
<1> QED
  BY <1>2, <1>3, <1>4, <1>5 DEF Admissible

\* The route of a place in the catalog with the effort, the speed and the tier of a candidate.
At(q, i, e, s, t) ==
  [place |-> i, model |-> q.catalog[i].id, family |-> q.catalog[i].family, effort |-> e,
   speed |-> s, topology |-> TopologyOf(e), tier |-> t]

\* The routes that a query enumerates.
LEMMA EnumeratedForm ==
  ASSUME NEW q, NEW r
  PROVE  r \in Enumerate(q) <=>
           \E i \in Visible(q.catalog) :
             /\ q.want.modelId \in {None, q.catalog[i].id} /\ q.want.family \in {None, q.catalog[i].family}
             /\ \E e \in CandidateEfforts(q, q.catalog[i]), s \in CandidateSpeeds(q, q.catalog[i]),
                   t \in CandidateTiers(q) :
                  r = At(q, i, e, s, t) /\ q.want.topology \in {None, r.topology}
<1> DEFINE models == {i \in Visible(q.catalog) :
                        /\ q.want.modelId \in {None, q.catalog[i].id}
                        /\ q.want.family \in {None, q.catalog[i].family}}
           routes(i) == {At(q, i, e, s, t) : e \in CandidateEfforts(q, q.catalog[i]),
                                             s \in CandidateSpeeds(q, q.catalog[i]),
                                             t \in CandidateTiers(q)}
<1>1. Enumerate(q) = {x \in UNION {routes(i) : i \in models} : q.want.topology \in {None, x.topology}}
  BY DEF Enumerate, At
<1>2. r \in Enumerate(q) <=> /\ \E i \in models : r \in routes(i)
                             /\ q.want.topology \in {None, r.topology}
  BY <1>1
<1>3. \A i : r \in routes(i) <=>
        \E e \in CandidateEfforts(q, q.catalog[i]), s \in CandidateSpeeds(q, q.catalog[i]),
           t \in CandidateTiers(q) : r = At(q, i, e, s, t)
  OBVIOUS
<1> HIDE DEF routes
<1> QED
  BY <1>2, <1>3

\* What is asked when a planned route is asked for again.
LEMMA AgainAsked ==
  ASSUME env \in Environments, NEW v, NEW h, NEW p, p.effort # "auto",
         Want.speedMode = None => p.speed # "auto"
  PROVE  LET q == Asked(v, h, Want)  n == Asked(v, h, AskAgain(p))
         IN  /\ AskedAlike(q, n)
             /\ n.want.modelId = p.model /\ n.want.effort = p.effort
             /\ n.want.topology = p.topology /\ n.want.tier = p.tier
             /\ n.want.speedId = IF Want.speedMode = None THEN p.speed ELSE q.want.speedId
             /\ q.want.speedMode = Want.speedMode /\ q.want.speedId = Ask(Want.speedId)
<1> DEFINE q == Asked(v, h, Want)
           n == Asked(v, h, AskAgain(p))
           w == NormalizeConstraints(Want)
           a == NormalizeConstraints(AskAgain(p))
<1>1. /\ Want = [f \in DOMAIN Anything |-> Want[f]]
      /\ AskAgain(p) = [f \in DOMAIN Anything |-> AskAgain(p)[f]]
      /\ DOMAIN Anything = {"modelId", "family", "effort", "speedId", "speedMode", "context", "topology",
                            "latency", "tier", "deadline", "credits"}
  BY WantFields, AskedAgain DEF Anything
<1>2. /\ \A f \in {"family", "speedMode", "context", "latency", "deadline", "credits"} :
           AskAgain(p)[f] = Want[f]
      /\ AskAgain(p).modelId = p.model /\ AskAgain(p).effort = p.effort
      /\ AskAgain(p).topology = p.topology /\ AskAgain(p).tier = p.tier
      /\ AskAgain(p).speedId = IF Want.speedMode = None THEN p.speed ELSE Want.speedId
  BY <1>1 DEF AskAgain
<1>3. /\ \A f \in DOMAIN Anything \ {"effort", "speedId"} : a[f] = AskAgain(p)[f] /\ w[f] = Want[f]
      /\ a.effort = Ask(AskAgain(p).effort) /\ a.speedId = Ask(AskAgain(p).speedId)
      /\ w.speedId = Ask(Want.speedId)
  BY <1>1 DEF NormalizeConstraints
<1>4. /\ \A f \in {"family", "speedMode", "context", "latency", "deadline", "credits"} : a[f] = w[f]
      /\ a.modelId = p.model /\ a.topology = p.topology /\ a.tier = p.tier /\ w.speedMode = Want.speedMode
      /\ a.effort = p.effort
      /\ a.speedId = IF Want.speedMode = None THEN p.speed ELSE w.speedId
  BY <1>1, <1>2, <1>3 DEF Ask
<1> HIDE DEF a, w
<1>5. \A f : ApplyLatencyPriority(f, a) = ApplyLatencyPriority(f, w)
  BY <1>4 DEF ApplyLatencyPriority
<1>6. /\ q.config = Config /\ q.quota = QuotaOf(v) /\ q.tiers = TiersOf(v) /\ q.history = h
      /\ q.catalog = env.catalogs[v.catalog] /\ q.want = w
      /\ q.features = ApplyLatencyPriority(env.repos[v.profile].features, w)
      /\ n.config = Config /\ n.quota = QuotaOf(v) /\ n.tiers = TiersOf(v) /\ n.history = h
      /\ n.catalog = env.catalogs[v.catalog] /\ n.want = a
      /\ n.features = ApplyLatencyPriority(env.repos[v.profile].features, a)
  BY DEF Asked, a, w
<1> HIDE DEF q, n
<1>7. AskedAlike(q, n)
  BY <1>4, <1>5, <1>6 DEF AskedAlike
<1> QED
  BY <1>3, <1>4, <1>6, <1>7 DEF q, n, w

\* What the catalog of a view shows, and what the configuration names.
LEMMA Listed ==
  ASSUME env \in Environments, NEW v, v.catalog \in 1..Len(env.catalogs), NEW h, NEW want
  PROVE  LET q == Asked(v, h, want)
         IN  /\ \A i, j \in DOMAIN q.catalog : q.catalog[i].id = q.catalog[j].id => i = j
             /\ \A i \in DOMAIN q.catalog :
                  LET m == q.catalog[i]
                  IN  /\ m \in Entries
                      /\ m.efforts = {} \/ m.defaultEffort \in m.efforts
                      /\ {None, "auto"} \cap (m.efforts \cup {m.defaultEffort}) = {}
             /\ q.catalog \in Seq(Entries)
             /\ q.config.speeds \in Seq(Range(q.config.speeds))
             /\ q.config.candidateEfforts \in Seq(Range(q.config.candidateEfforts))
             /\ q.config.tiers \subseteq Range(Tiers) /\ q.config.defaultTier \in Range(Tiers)
             /\ {None, "auto"} \cap (Range(q.config.speeds) \cup {q.config.defaultSpeed}) = {}
<1> DEFINE q == Asked(v, h, want)
<1>1. q.config = Config /\ q.catalog = env.catalogs[v.catalog]
  BY AskedFields
<1> HIDE DEF q
<1>2. \A i, j \in DOMAIN q.catalog : q.catalog[i].id = q.catalog[j].id => i = j
  BY <1>1, CatalogAssumption
<1>3. /\ q.catalog \in Seq(Entries)
      /\ \A i \in DOMAIN q.catalog : q.catalog[i] \in Entries
  BY <1>1, EntriesAreReal, RoutingAssumption DEF Entries
<1>4. \A i \in DOMAIN q.catalog :
        q.catalog[i].efforts = {} \/ q.catalog[i].defaultEffort \in q.catalog[i].efforts
  <2>1. \A m \in Range(env.catalogs[v.catalog]) : m.efforts = {} \/ m.defaultEffort \in m.efforts
    BY CatalogAssumption
  <2> QED
    BY <1>1, <2>1 DEF Range
<1>5. /\ Config.speeds = env.config.speeds /\ Config.candidateEfforts = env.config.candidateEfforts
      /\ Config.tiers = env.config.tiers /\ Config.defaultTier = env.config.defaultTier
      /\ Config.defaultSpeed = env.config.defaultSpeed
  BY ConfigFields DEF Defaults
<1>6. /\ env.config.speeds \in Seq(Range(env.config.speeds))
      /\ {None, "auto"} \cap Range(env.config.speeds) = {}
  BY CatalogAssumption
<1>7. /\ env.config.candidateEfforts \in Seq(Range(env.config.candidateEfforts))
      /\ env.config.tiers \subseteq Range(Tiers) /\ env.config.defaultTier \in Range(Tiers)
      /\ {None, "auto"} \cap {env.config.defaultSpeed} = {}
  BY RoutingAssumption
<1>8. \A i \in DOMAIN q.catalog :
        {None, "auto"} \cap (q.catalog[i].efforts \cup {q.catalog[i].defaultEffort}) = {}
  BY <1>3, EntriesAreReal
<1> QED
  BY <1>1, <1>2, <1>3, <1>4, <1>5, <1>6, <1>7, <1>8 DEF q

\* A speed that is enumerated has a name, and is one that asking for it by name enumerates.
LEMMA SpeedHasName ==
  ASSUME env \in Environments, NEW v, v.catalog \in 1..Len(env.catalogs), NEW h, NEW want,
         want = [f \in DOMAIN Anything |-> want[f]],
         NEW m, want.speedMode = None,
         NEW s \in CandidateSpeeds(Asked(v, h, want), m)
  PROVE  /\ s \notin {None, "auto"}
         /\ \A n : n.config = Config /\ n.want.speedMode = None /\ n.want.speedId = s =>
              CandidateSpeeds(n, m) = {s}
<1> DEFINE q == Asked(v, h, want)
<1>1. q.config = Config /\ q.want = NormalizeConstraints(want)
  BY AskedFields
<1>2. {None, "auto"} \cap (Range(q.config.speeds) \cup {q.config.defaultSpeed}) = {}
  BY Listed
<1> HIDE DEF q
<1>3. q.want.speedMode = None /\ q.want.speedId = Ask(want.speedId)
  BY <1>1 DEF NormalizeConstraints, Anything
<1>4. None \notin {"single", "ultra", "auto", "off", "fast", "standard"}
  BY RoutingAssumption DEF Range, Tiers
<1>5. /\ s = "standard" \/ s \in m.speeds \/ Config.allowUnadvertised
      /\ \/ s = q.want.speedId /\ s # None
         \/ s \in Range(q.config.speeds) \cup {q.config.defaultSpeed, "standard"}
  BY <1>1, <1>2, <1>3, <1>4 DEF CandidateSpeeds, ClosestSupportedSpeed, q
<1>6. s \notin {None, "auto"}
  BY <1>2, <1>3, <1>4, <1>5 DEF Ask
<1>7. ASSUME NEW n, n.config = Config, n.want.speedMode = None, n.want.speedId = s
      PROVE  CandidateSpeeds(n, m) = {s}
  BY <1>4, <1>5, <1>6, <1>7 DEF CandidateSpeeds
<1> QED
  BY <1>6, <1>7

\* A candidate is a candidate again when it is asked for, and it is asked of fewer: where its speed
\* is asked for too, of none at another speed.
LEMMA NarrowedRoutes ==
  ASSUME env \in Environments, NEW v, v.catalog \in 1..Len(env.catalogs), NEW h,
         NEW p \in Enumerate(Asked(v, h, Want))
  PROVE  LET q == Asked(v, h, Want)  n == Asked(v, h, AskAgain(p))
         IN  /\ AskedAlike(q, n) /\ p \in Enumerate(n)
             /\ n.want.speedId = IF Want.speedMode = None THEN p.speed ELSE q.want.speedId
             /\ Want.speedMode = None => p.speed \notin {None, "auto"}
             /\ \A r \in Enumerate(n) : IF Want.speedMode = None THEN r.speed = p.speed
                                        ELSE r \in Enumerate(q)
<1> DEFINE q == Asked(v, h, Want)
           n == Asked(v, h, AskAgain(p))
<1>1. Want = [f \in DOMAIN Anything |-> Want[f]]
  BY WantFields
<1>2. q.config = Config /\ q.catalog = env.catalogs[v.catalog] /\ q.want.speedMode = Want.speedMode
  <2>1. q.config = Config /\ q.catalog = env.catalogs[v.catalog] /\ q.want = NormalizeConstraints(Want)
    BY AskedFields
  <2>2. \A w : w = [f \in DOMAIN Anything |-> w[f]] => NormalizeConstraints(w).speedMode = w.speedMode
    BY DEF NormalizeConstraints, Anything
  <2> HIDE DEF q
  <2> QED
    BY <1>1, <2>1, <2>2
<1>3. PICK i \in Visible(q.catalog) :
        /\ q.want.modelId \in {None, q.catalog[i].id} /\ q.want.family \in {None, q.catalog[i].family}
        /\ \E e \in CandidateEfforts(q, q.catalog[i]), s \in CandidateSpeeds(q, q.catalog[i]),
              t \in CandidateTiers(q) :
             p = At(q, i, e, s, t) /\ q.want.topology \in {None, p.topology}
  BY EnumeratedForm
<1> DEFINE m == q.catalog[i]
<1>4. PICK e \in CandidateEfforts(q, m), s \in CandidateSpeeds(q, m), t \in CandidateTiers(q) :
        p = At(q, i, e, s, t) /\ q.want.topology \in {None, p.topology}
  BY <1>3
<1>5. /\ i \in DOMAIN q.catalog
      /\ \A j \in DOMAIN q.catalog : q.catalog[j].id = m.id => j = i
      /\ m \in Entries
      /\ m.efforts = {} \/ m.defaultEffort \in m.efforts
      /\ {None, "auto"} \cap (m.efforts \cup {m.defaultEffort}) = {}
      /\ q.config.tiers \subseteq Range(Tiers) /\ q.config.defaultTier \in Range(Tiers)
  <2>1. i \in DOMAIN q.catalog
    BY <1>3 DEF Visible
  <2> QED
    BY <2>1, Listed
<1>6. /\ p.model = m.id /\ p.family = m.family /\ p.effort = e /\ p.speed = s /\ p.tier = t
      /\ p.topology = TopologyOf(e) /\ p.place = i
  BY <1>4 DEF At
<1>7. m.id # None
  BY <1>5, EntriesAreReal
<1>8. e \in SupportedEfforts(m) /\ e \notin {None, "auto"}
  BY <1>5 DEF CandidateEfforts, SupportedEfforts
<1>9. t # None
  BY <1>5, RoutingAssumption DEF CandidateTiers
<1>10. Want.speedMode = None =>
        /\ s \notin {None, "auto"}
        /\ \A x : x.config = Config /\ x.want.speedMode = None /\ x.want.speedId = s =>
             CandidateSpeeds(x, m) = {s}
  BY <1>1, SpeedHasName
<1>11. /\ AskedAlike(q, n)
       /\ n.want.modelId = p.model /\ n.want.effort = p.effort
       /\ n.want.topology = p.topology /\ n.want.tier = p.tier
       /\ n.want.speedId = IF Want.speedMode = None THEN p.speed ELSE q.want.speedId
  BY <1>6, <1>8, <1>10, AgainAsked
<1> HIDE DEF q, n, m
<1>12. /\ n.catalog = q.catalog /\ n.config = Config /\ n.want.speedMode = q.want.speedMode
       /\ n.want.family = q.want.family
  BY <1>2, <1>11 DEF AskedAlike
<1>13. CandidateEfforts(n, m) = {e} /\ CandidateTiers(n) = {t}
  BY <1>6, <1>8, <1>9, <1>11 DEF CandidateEfforts, CandidateTiers
<1>14. CandidateSpeeds(n, m) = IF Want.speedMode = None THEN {s} ELSE CandidateSpeeds(q, m)
  <2>1. CASE Want.speedMode = None
    BY <2>1, <1>2, <1>6, <1>10, <1>11, <1>12
  <2>2. CASE Want.speedMode # None
    BY <2>2, <1>2, <1>11, <1>12 DEF CandidateSpeeds
  <2> QED
    BY <2>1, <2>2
<1>15. \A x, y, z : At(n, i, x, y, z) = At(q, i, x, y, z)
  BY <1>12 DEF At
<1>16. p \in Enumerate(n)
  <2>1. s \in CandidateSpeeds(n, m)
    BY <1>14
  <2>2. n.catalog[i] = m
    BY <1>12 DEF m
  <2>3. n.want.modelId \in {None, m.id} /\ n.want.family \in {None, m.family}
        /\ n.want.topology \in {None, p.topology}
    BY <1>3, <1>6, <1>11, <1>12, <1>4 DEF m
  <2>4. p = At(n, i, e, s, t)
    BY <1>15, <1>4
  <2> QED
    BY <1>3, <1>12, <1>13, <2>1, <2>2, <2>3, <2>4, EnumeratedForm
<1>17. ASSUME NEW r \in Enumerate(n)
       PROVE  IF Want.speedMode = None THEN r.speed = p.speed ELSE r \in Enumerate(q)
  <2>1. PICK j \in Visible(n.catalog) :
          /\ n.want.modelId \in {None, n.catalog[j].id}
          /\ \E x \in CandidateEfforts(n, n.catalog[j]), y \in CandidateSpeeds(n, n.catalog[j]),
                z \in CandidateTiers(n) : r = At(n, j, x, y, z)
    BY EnumeratedForm
  <2>2. j = i
    BY <1>5, <1>6, <1>7, <1>11, <1>12, <2>1 DEF Visible
  <2>3. n.catalog[j] = m
    BY <1>12, <2>2 DEF m
  <2>4. PICK y \in CandidateSpeeds(n, m) : r = At(n, j, e, y, t)
    BY <1>13, <2>1, <2>3
  <2>5. r = At(q, i, e, y, t)
    BY <1>15, <2>2, <2>4
  <2>6. r.speed = y /\ r.topology = p.topology
    BY <1>6, <2>5 DEF At
  <2>7. CASE Want.speedMode = None
    BY <1>6, <1>14, <2>4, <2>6, <2>7
  <2>8. CASE Want.speedMode # None
    <3>1. y \in CandidateSpeeds(q, q.catalog[i])
      BY <1>14, <2>4, <2>8 DEF m
    <3> QED
      BY <1>3, <1>4, <2>5, <2>6, <2>8, <3>1, EnumeratedForm DEF m
  <2> QED
    BY <2>7, <2>8
<1> QED
  BY <1>6, <1>10, <1>11, <1>16, <1>17 DEF q, n

\* The configuration of either path has the numbers of the one it is made of.
LEMMA ConfigIsNumeric == ASSUME env \in Environments PROVE Numeric(Config) /\ Config.reserve \in Int
<1>1. \A f \in DOMAIN Defaults \ {"taskSpecific"} : Config[f] = env.config[f]
  BY ConfigFields
<1>2. /\ Config.profile = env.config.profile /\ Config.baselineMs = env.config.baselineMs
      /\ Config.p90 = env.config.p90 /\ Config.creditsPerWeight = env.config.creditsPerWeight
      /\ Config.reserve = env.config.reserve /\ Config.weight = env.config.weight
      /\ Config.familyWeight = env.config.familyWeight /\ Config.proofCost = env.config.proofCost
  BY <1>1 DEF Defaults
<1>3. /\ Config.boost = env.config.boost /\ Config.floor = env.config.floor
      /\ Config.minimumQuality = env.config.minimumQuality /\ Config.speed = env.config.speed
  BY <1>1 DEF Defaults
<1>4. Numeric(env.config)
  BY NumbersAssumption
<1> QED
  BY <1>2, <1>3, <1>4 DEF Numeric

\* What a question is made of are numbers.
LEMMA AskedNumbers ==
  ASSUME env \in Environments, NEW v, v.profile \in 1..Len(env.repos), v.quota \in 1..Len(env.quotas),
         NEW h
  PROVE  LET q == Asked(v, h, Want)
         IN  Numeric(q.config) /\ q.features \in [Features -> Int] /\ q.quota.pressure \in Int
<1> DEFINE q == Asked(v, h, Want)
           w == NormalizeConstraints(Want)
<1>1. q.config = Config /\ q.quota = QuotaOf(v)
      /\ q.features = ApplyLatencyPriority(env.repos[v.profile].features, w)
  BY AskedFields
<1> HIDE DEF q
<1>2. w.deadline \in {None} \cup (Nat \ {0})
  <2>1. Want.deadline = env.want.deadline
    BY RoutingAssumption DEF Want, Anything
  <2>2. w.deadline = Want.deadline
    BY WantFields DEF NormalizeConstraints, Anything
  <2> QED
    BY <2>1, <2>2, NumbersAssumption
<1> HIDE DEF w
<1>3. env.repos[v.profile].features \in [Features -> Int]
  BY EnvironmentAssumption
<1>4. QuotaOf(v).pressure \in Int
  <2>1. \A x \in env.quotas[v.quota] : {x.used, x.elapsed} \subseteq Int
    BY NumbersAssumption
  <2> QED
    BY <2>1, ConfigIsNumeric, QuotaIsNumber DEF QuotaOf
<1> QED
  BY <1>1, <1>2, <1>3, <1>4, ConfigIsNumeric, PriorityIsNumber DEF q

\* A route that every gate let pass has numbers to be compared by.
LEMMA FitIsNumeric ==
  ASSUME env \in Environments, NEW v \in [Views -> Nat], v.profile \in 1..Len(env.repos),
         v.catalog \in 1..Len(env.catalogs), v.quota \in 1..Len(env.quotas),
         NEW r \in Enumerate(Asked(v, {}, Want)), Admissible(Score(Asked(v, {}, Want), r))
  PROVE  \A k \in Keys : Score(Asked(v, {}, Want), r)[k] \in Int
<1> DEFINE q == Asked(v, {}, Want)
<1>1. Numeric(q.config) /\ q.features \in [Features -> Int] /\ q.quota.pressure \in Int
  BY AskedNumbers
<1>2. q.config.speeds \in Seq(Range(q.config.speeds))
  BY Listed
<1>3. q.history = {} /\ q.tiers = TiersOf(v) /\ q.catalog = env.catalogs[v.catalog]
  BY DEF Asked
<1>4. PICK i \in Visible(q.catalog) : r.place = i /\ r.family = q.catalog[i].family
  <2>1. PICK i \in Visible(q.catalog) : \E e, s, t : r = At(q, i, e, s, t)
    BY EnumeratedForm
  <2> QED
    BY <2>1 DEF At
<1>5. PICK e : Rejections(q, r, e) = {}
  BY ScoredRoute DEF Admissible
<1>6. r.tier \in Range(Tiers)
  BY <1>3, <1>5, GatesOpen DEF TiersOf, AvailableTiers
<1>7. r.family \in DOMAIN Capability /\ r.place \in Int
  <2>1. i \in DOMAIN env.catalogs[v.catalog]
    BY <1>3, <1>4 DEF Visible
  <2>2. i \in Nat /\ env.catalogs[v.catalog][i].family \in {"luna", "terra", "sol", "unknown"}
    BY <2>1, EntriesAreReal
  <2> QED
    BY <1>3, <1>4, <2>2 DEF Capability
<1> HIDE DEF q
<1>8. \A k \in Keys : Score(q, r)[k] \in Int
  BY <1>1, <1>2, <1>3, <1>6, <1>7, ScoresAreNumbers
<1> QED
  BY <1>8 DEF q

\* The place of a candidate's speed in the configuration tells it from the others.
LEMMA TurnTellsSpeed ==
  ASSUME env \in Environments, NEW v, v.catalog \in 1..Len(env.catalogs), NEW h,
         Want.speedMode # None, Ask(Want.speedId) = None,
         NEW a \in Enumerate(Asked(v, h, Want)), NEW b \in Enumerate(Asked(v, h, Want)),
         Turn(Config, a.speed) = Turn(Config, b.speed)
  PROVE  a.speed = b.speed
<1> DEFINE q == Asked(v, h, Want)
<1>1. q.config = Config /\ q.want = NormalizeConstraints(Want)
  BY AskedFields
<1>2. Config.speeds \in Seq(Range(Config.speeds))
  BY <1>1, Listed
<1>3. PICK i : a.speed \in CandidateSpeeds(q, q.catalog[i])
  BY EnumeratedRoute
<1>4. PICK j : b.speed \in CandidateSpeeds(q, q.catalog[j])
  BY EnumeratedRoute
<1> HIDE DEF q
<1>5. q.want.speedMode = Want.speedMode /\ q.want.speedId = None
  BY <1>1, WantFields DEF NormalizeConstraints, Anything
<1>6. \/ \A m : CandidateSpeeds(q, m) \subseteq {"standard"}
      \/ \A m : CandidateSpeeds(q, m) \subseteq Range(Config.speeds)
  BY <1>1, <1>5 DEF CandidateSpeeds
<1>7. CASE \A m : CandidateSpeeds(q, m) \subseteq {"standard"}
  BY <1>3, <1>4, <1>7
<1>8. CASE \A m : CandidateSpeeds(q, m) \subseteq Range(Config.speeds)
  <2>1. a.speed \in Range(Config.speeds) /\ b.speed \in Range(Config.speeds)
    BY <1>3, <1>4, <1>8
  <2> QED
    BY <1>2, <2>1, TurnIsNumber
<1> QED
  BY <1>6, <1>7, <1>8

\* The keys that candidates are compared by; the place of the speed is one of them.
LEMMA RankingKeys ==
  \A w : /\ DOMAIN Ranking(w) \in {1..6, 1..7}
         /\ \A i \in DOMAIN Ranking(w) : Ranking(w)[i] \in Keys
         /\ \E i \in DOMAIN Ranking(w) : Ranking(w)[i] = "turn"
<1> TAKE w
<1>1. CASE w.latency = "urgent"
  <2>1. Ranking(w) = <<"objective", "credits", "failure", "escape", "place", "turn">>
    BY <1>1 DEF Ranking
  <2> QED
    BY <2>1 DEF Keys
<1>2. CASE w.latency # "urgent"
  <2>1. Ranking(w) = <<"credits", "failure", "escape", "duration", "objective", "place", "turn">>
    BY <1>2 DEF Ranking
  <2> QED
    BY <2>1 DEF Keys
<1> QED
  BY <1>1, <1>2

\* What a decision selects, where a candidate passes every gate.
LEMMA FittestIsSelected ==
  ASSUME NEW q, NEW r \in Enumerate(q), Admissible(Score(q, r))
  PROVE  LET fit == {c \in {Score(q, x) : x \in Enumerate(q)} : Admissible(c)}
             d == DecideNormalized(q)
         IN  d.why = "decided" /\ d.selected = Foremost(fit, Ranking(q.want)) /\ d.selected \in fit
<1> DEFINE candidates == {Score(q, x) : x \in Enumerate(q)}
           fit == {c \in candidates : Admissible(c)}
<1>1. Score(q, r) \in fit
  OBVIOUS
<1>2. candidates # {} /\ DecideNormalized(q) = Selection(q, candidates, fit)
  BY DEF DecideNormalized, SelectFrom
<1> HIDE DEF fit, candidates
<1>3. fit # {}
  BY <1>1
<1>4. /\ Selection(q, candidates, fit).why = "decided"
      /\ Selection(q, candidates, fit).selected = Foremost(fit, Ranking(q.want))
  BY <1>3 DEF Selection
<1> QED
  BY <1>2, <1>3, <1>4, ForemostIsOne DEF fit, candidates

\* What was selected and may be executed is, asked for again, selected again at the same speed.
LEMMA AskedAgainStands ==
  ASSUME env \in Environments, NEW v \in [Views -> Nat], v.profile \in 1..Len(env.repos),
         v.catalog \in 1..Len(env.catalogs), v.quota \in 1..Len(env.quotas),
         Executable(Route(v, {}, Want))
  PROVE  LET p == Route(v, {}, Want).selected.route
             d == Route(v, {}, AskAgain(p))
         IN  Executable(d) /\ d.selected.route.speed = p.speed
<1> DEFINE q == Asked(v, {}, Want)
           candidates == {Score(q, x) : x \in Enumerate(q)}
           fit == {c \in candidates : Admissible(c)}
           chosen == Route(v, {}, Want).selected
           p == chosen.route
           n == Asked(v, {}, AskAgain(p))
           again == {Score(n, x) : x \in Enumerate(n)}
           left == {c \in again : Admissible(c)}
           d == Route(v, {}, AskAgain(p))
<1>1. Route(v, {}, Want).why = "decided" /\ Admissible(chosen)
      /\ Route(v, {}, Want) = DecideNormalized(q)
  BY DecidedAsAsked DEF Executable
<1>2. PICK r \in Enumerate(q) : chosen = Score(q, r)
  BY <1>1, DecidedOnACandidate
<1>3. p = r /\ chosen = Foremost(fit, Ranking(q.want)) /\ chosen \in fit
  BY <1>1, <1>2, ScoredRoute, FittestIsSelected
<1>4. /\ AskedAlike(q, n) /\ p \in Enumerate(n)
      /\ n.want.speedId = IF Want.speedMode = None THEN p.speed ELSE q.want.speedId
      /\ Want.speedMode = None => p.speed \notin {None, "auto"}
      /\ \A x \in Enumerate(n) : IF Want.speedMode = None THEN x.speed = p.speed
                                 ELSE x \in Enumerate(q)
  BY <1>2, <1>3, NarrowedRoutes
<1>5. Admissible(Score(n, p))
  BY <1>1, <1>2, <1>3, <1>4, NarrowedScore
<1>6. /\ DecideNormalized(n).why = "decided"
      /\ DecideNormalized(n).selected = Foremost(left, Ranking(n.want))
      /\ DecideNormalized(n).selected \in left
  BY <1>4, <1>5, FittestIsSelected
<1>7. ~Malformed(Want)
  BY <1>1 DEF Route, Decide, Thrown
<1>8. ~Malformed(AskAgain(p))
  <2>1. AskAgain(p).speedMode = Want.speedMode
        /\ AskAgain(p).speedId = IF Want.speedMode = None THEN p.speed ELSE Want.speedId
    BY WantFields DEF AskAgain, Anything
  <2> QED
    BY <1>7, <2>1 DEF Malformed
<1>9. d = DecideNormalized(n)
  BY <1>8 DEF Route, Decide, DecideAsking, Asked
<1>10. PICK x \in Enumerate(n) : d.selected = Score(n, x) /\ d.selected.route = x
  BY <1>6, <1>9, ScoredRoute
<1>11. Executable(d)
  BY <1>6, <1>9 DEF Executable
<1>12. CASE Want.speedMode = None
  BY <1>4, <1>10, <1>11, <1>12
<1>13. CASE Want.speedMode # None
  <2>1. \A y \in Enumerate(n) : y \in Enumerate(q) /\ Score(n, y) = Score(q, y)
    BY <1>4, <1>13, NarrowedScore
  <2>2. left \in SUBSET fit
    BY <2>1
  <2>3. chosen \in left
    BY <1>1, <1>2, <1>3, <1>4, <2>1
  <2>4. Ranking(n.want) = Ranking(q.want)
    BY <1>4 DEF AskedAlike, Ranking
  <2> DEFINE keys == Ranking(q.want)
  <2>5. /\ DOMAIN keys \in {1..6, 1..7} /\ \A i \in DOMAIN keys : keys[i] \in Keys
        /\ \E i \in DOMAIN keys : keys[i] = "turn"
    BY RankingKeys
  <2>6. \A c \in fit : \A k \in Keys : c[k] \in Int
    BY FitIsNumeric
  <2>7. IsFiniteSet(fit)
    <3>1. IsFiniteSet(Enumerate(q))
      BY Listed, EnumerationIsFinite
    <3> QED
      BY <3>1, CandidatesAreFinite
  <2>8. chosen = Foremost(fit, keys) /\ d.selected = Foremost(left, keys)
    BY <1>3, <1>6, <1>9, <2>4
  <2> HIDE DEF keys, fit, left, chosen, d
  <2>9. \A i \in DOMAIN keys : d.selected[keys[i]] = chosen[keys[i]]
    <3>1. PICK k \in {6, 7} : DOMAIN keys = 1..k
      BY <2>5
    <3>2. Comparable(fit, keys, k)
      BY <2>5, <2>6, <3>1 DEF Comparable
    <3>3. Foremost(fit, keys) \in left /\ left \subseteq fit
      BY <2>2, <2>3, <2>8
    <3>4. \A i \in DOMAIN keys : Foremost(left, keys)[keys[i]] = Foremost(fit, keys)[keys[i]]
      BY <2>7, <3>2, <3>3, BestOfFewer
    <3> QED
      BY <2>8, <3>4
  <2>10. d.selected["turn"] = chosen["turn"]
    BY <2>5, <2>9
  <2>11. d.selected = Score(q, x) /\ x \in Enumerate(q)
    BY <1>10, <2>1
  <2>12. \A y : Score(q, y)["turn"] = Turn(Config, y.speed)
    <3>1. q.config = Config
      BY AskedFields
    <3> HIDE DEF q
    <3> QED
      BY <3>1 DEF Score, ScoreKnowing, Scored
  <2>13. Turn(Config, x.speed) = Turn(Config, r.speed)
    BY <1>2, <2>10, <2>11, <2>12
  <2>14. Ask(Want.speedId) = None
    BY <1>7, <1>13 DEF Malformed
  <2>15. x.speed = r.speed
    BY <1>2, <1>13, <2>11, <2>13, <2>14, TurnTellsSpeed
  <2> QED
    BY <1>3, <1>10, <1>11, <2>15 DEF d, chosen
<1> QED
  BY <1>12, <1>13

-----------------------------------------------------------------------------
\* A request in a world that does not move.

\* The first versions of everything, and what a run reads of them.
FirstView == [profile |-> 1, caps |-> 1, catalog |-> 1, quota |-> 1, evidence |-> 1]
Ahead == {"snapshot", "profile", "query", "check", "send"}

\* What a plan reads of the first versions, before and after the checkout is inspected.
FirstPlan(caps) ==
  [profile |-> 1, caps |-> caps, catalog |-> 1, quota |-> 1, evidence |-> IF Product THEN 0 ELSE 1]

\* The plan of a request, made from the first versions, and a reason to run it.
PlanStands ==
  /\ round = 1 /\ action \notin {None, "abstain"}
  /\ plan = FirstPlan(1)
  /\ Product => Preflight(plan).why = "decided"
  /\ ~Product => Plannable(plan) /\ action = MetaDecision(plan)

\* Where a request that has sent nothing may be: on its way to send, or not planned to.
Underway ==
  /\ pc \notin {"turn", "apply"}
  /\ pc \in {"begin", "discover", "inspect"} => action = None /\ round = 1
  /\ pc = "inspect" => plan = FirstPlan(0)
  /\ pc \in {"freeze"} \cup Ahead => PlanStands
  /\ Product /\ pc \in Ahead => Executable(Preflight(plan)) /\ frozen = 1
  /\ pc \in Ahead \ {"snapshot"} => read.caps = 1
  /\ pc \in {"query", "check", "send"} => read.profile = 1
  /\ pc \in {"check", "send"} => read = FirstView
  /\ pc \in {"finish", "receipts", "end"} => ~Planned

Ready == Undisturbed /\ turns = <<>> => Underway

\* Two views that saw the same versions of what a route is decided from.
LEMMA SeenAlike ==
  ASSUME NEW v, NEW u, v.profile = u.profile, v.caps = u.caps, v.catalog = u.catalog, v.quota = u.quota
  PROVE  /\ \A h, w : Route(v, h, w) = Route(u, h, w)
         /\ Static(v) = Static(u) /\ Shown(v) = Shown(u) /\ TiersOf(v) = TiersOf(u)
         /\ QuotaOf(v) = QuotaOf(u) /\ Preflight(v) = Preflight(u)
BY DEF Route, Static, Shown, TiersOf, QuotaOf, Preflight

\* There is a first version of everything.
LEMMA FirstVersions ==
  ASSUME env \in Environments
  PROVE  /\ 1 \in 1..Len(env.repos) /\ 1 \in 1..Len(env.catalogs) /\ 1 \in 1..Len(env.quotas)
         /\ FirstView \in [Views -> Nat]
         /\ FirstView.profile = 1 /\ FirstView.caps = 1 /\ FirstView.catalog = 1 /\ FirstView.quota = 1
         /\ FirstView.evidence = 1
<1>1. /\ Len(env.repos) \in Nat \ {0} /\ Len(env.catalogs) \in Nat \ {0}
      /\ Len(env.quotas) \in Nat \ {0}
  BY EnvironmentAssumption
<1>2. FirstView \in [Views -> Nat]
  BY DEF FirstView, Views
<1> QED
  BY <1>1, <1>2 DEF FirstView

\* A catalog that a route was decided from shows a model.
LEMMA DecidedIsShown ==
  ASSUME NEW v, NEW h, NEW want, Route(v, h, want).why = "decided"
  PROVE  Shown(v)
<1> DEFINE q == Asked(v, h, want)
<1>1. q.catalog = env.catalogs[v.catalog]
  BY AskedFields
<1>2. PICK r \in Enumerate(q) : TRUE
  BY DecidedAsAsked, DecidedOnACandidate
<1> HIDE DEF q
<1>3. Visible(q.catalog) # {}
  BY <1>2, EnumeratedForm
<1> QED
  BY <1>1, <1>3 DEF Shown

\* The tier of the static route is one of the four.
LEMMA StaticTierIsReal ==
  ASSUME env \in Environments, NEW v PROVE Static(v).tier \in Range(Tiers)
<1>1. Static(v).tier = StaticTier(Config, TiersOf(v))
  BY DEF Static, StaticPolicy
<1>2. Config.defaultTier \in Range(Tiers)
  <2>1. Config.defaultTier = env.config.defaultTier
    BY ConfigFields DEF Defaults
  <2> QED
    BY <2>1, RoutingAssumption
<1>3. ASSUME NEW S \in SUBSET Range(Tiers), S # {}
      PROVE  (CHOOSE t \in S : \A u \in S : TierRank(u) <= TierRank(t)) \in S
  <2> DEFINE room == {4 - TierRank(t) : t \in S}
  <2>1. \A t \in Range(Tiers) : TierRank(t) \in 1..4
    <3>1. DOMAIN Tiers = 1..4 /\ \A t \in Range(Tiers) : \E i \in DOMAIN Tiers : Tiers[i] = t
      BY DEF Tiers, Range
    <3> QED
      BY <3>1 DEF TierRank, Rank
  <2>2. room \in SUBSET Nat /\ room # {}
    BY <1>3, <2>1
  <2>3. PICK k \in room : \A j \in room : k <= j
    BY <2>2, SmallestIndex
  <2>4. PICK t \in S : k = 4 - TierRank(t)
    BY <2>3
  <2>5. \A u \in S : TierRank(u) <= TierRank(t)
    <3>1. \A u \in S : k <= 4 - TierRank(u)
      BY <2>3
    <3> QED
      BY <2>1, <2>4, <3>1
  <2> QED
    BY <2>5
<1>4. TiersOf(v) \in SUBSET Range(Tiers)
  BY DEF TiersOf, AvailableTiers
<1> QED
  BY <1>1, <1>2, <1>3, <1>4 DEF StaticTier

\* Where the static route may be executed, it stands as the control of a run that sees the same.
LEMMA StaticStands ==
  ASSUME env \in Environments, NEW v \in [Views -> Nat], v.profile \in 1..Len(env.repos),
         Executable(Route(v, {}, Pinned(Static(v))))
  PROVE  Static(v).tier \in TiersOf(v)
<1> DEFINE q == Asked(v, {}, Pinned(Static(v)))
<1>1. PICK r \in Enumerate(q) : AllowedBy(v, r)
  BY ExecutableIsAllowed
<1>2. r.tier \in CandidateTiers(q)
  BY EnumeratedRoute
<1>3. q.want = NormalizeConstraints(Pinned(Static(v)))
  BY AskedFields
<1> HIDE DEF q
<1>4. q.want.tier = Static(v).tier
  BY <1>3 DEF NormalizeConstraints, Pinned, Anything
<1>5. Static(v).tier # None
  BY StaticTierIsReal, RoutingAssumption
<1>6. r.tier = Static(v).tier
  BY <1>2, <1>4, <1>5 DEF CandidateTiers
<1> QED
  BY <1>1, <1>6 DEF AllowedBy

\* The versions that a request is undisturbed in.
LEMMA FirstWorld ==
  ASSUME IInv, Undisturbed
  PROVE  /\ world.repo = 1 /\ world.catalog = 1 /\ world.quota = 1 /\ world.evidence = 1
         /\ trouble = 0 /\ env.evidence[1].history = {} /\ env \in Environments
<1>1. \A s \in Sources : world[s] \in 1..Versions(s) /\ Versions(s) \in Nat
  BY VersionsExist DEF IInv, Shapes, TypeOK
<1>2. \A s \in Sources : world[s] \in Nat /\ world[s] >= 1
  BY <1>1
<1>3. /\ world.repo \in Nat /\ world.repo >= 1 /\ world.catalog \in Nat /\ world.catalog >= 1
      /\ world.quota \in Nat /\ world.quota >= 1 /\ world.evidence \in Nat /\ world.evidence >= 1
  BY <1>2 DEF Sources
<1>4. world.repo + world.catalog + world.quota + world.evidence - 4 = 0
  BY DEF Undisturbed, Drifted
<1>5. world.repo = 1 /\ world.catalog = 1 /\ world.quota = 1 /\ world.evidence = 1
  BY <1>3, <1>4
<1> QED
  BY <1>5 DEF Undisturbed, IInv, Shapes, TypeOK

\* Nothing that is gone wrong is mended, and no version comes back.
LEMMA StaysUndisturbed ==
  ASSUME IInv, [Next]_vars, Undisturbed'
  PROVE  Undisturbed /\ trouble' = trouble /\ env' = env /\ ~\E s \in Sources : Drift(s)
<1>1. env' = env
  BY DEF Next, Step, Drift, Done, vars, Begin, Discover, InspectProduct, InspectMeta, Freeze, Snapshot,
     Profile, Query, Check, Send, TurnEnds, ResultLost, Apply, Finish, Receipts
<1>2. trouble \in Nat
  BY Known, EnvironmentAssumption
<1>3. trouble' = trouble \/ trouble' = trouble + 1
  BY DEF Next, Step, Drift, Done, vars, Begin, Discover, InspectProduct, InspectMeta, Freeze, Snapshot,
     Profile, Query, Check, Send, TurnEnds, ResultLost, Apply, Finish, Receipts, Fails
<1>4. world' = world \/ \E s \in Sources : Drift(s)
  BY DEF Next, Step, Done, vars, Begin, Discover, InspectProduct, InspectMeta, Freeze, Snapshot,
     Profile, Query, Check, Send, TurnEnds, ResultLost, Apply, Finish, Receipts
<1>5. trouble' = 0 /\ trouble = 0
  BY <1>2, <1>3 DEF Undisturbed
<1>6. ASSUME NEW s \in Sources, Drift(s) PROVE FALSE
  <2>1. \A x \in Sources : world[x] \in Nat /\ world[x] >= 1
    <3>1. \A x \in Sources : world[x] \in 1..Versions(x) /\ Versions(x) \in Nat
      BY VersionsExist DEF IInv, Shapes, TypeOK
    <3> QED
      BY <3>1
  <2>2. world \in [Sources -> Nat] /\ world' = [world EXCEPT ![s] = @ + 1]
    BY <1>6 DEF Drift, IInv, Shapes
  <2>3. \A x \in Sources : world'[x] = IF x = s THEN world[x] + 1 ELSE world[x]
    BY <2>2
  <2>4. world'.repo + world'.catalog + world'.quota + world'.evidence - 4 = 0
    BY DEF Undisturbed, Drifted
  <2> QED
    BY <2>1, <2>3, <2>4 DEF Sources
<1>7. Undisturbed
  BY <1>1, <1>4, <1>5, <1>6 DEF Undisturbed, Drifted
<1> QED
  BY <1>1, <1>5, <1>6, <1>7

\* Of a plan that is to be run every policy stands when the run has seen what the plan saw.
LEMMA PlanIsKept ==
  ASSUME IInv, Undisturbed, PlanStands, Product <=> action = "execute",
         Product => Executable(Preflight(plan)), read = FirstView
  PROVE  ~Invalidated /\ PoliciesStand
<1>1. /\ env \in Environments /\ env.evidence[1].history = {}
      /\ 1 \in 1..Len(env.repos) /\ 1 \in 1..Len(env.catalogs) /\ 1 \in 1..Len(env.quotas)
      /\ read \in [Views -> Nat] /\ read.profile = 1 /\ read.caps = 1 /\ read.catalog = 1
      /\ read.quota = 1 /\ read.evidence = 1
  BY FirstWorld, FirstVersions
<1>2. /\ plan.profile = 1 /\ plan.caps = 1 /\ plan.catalog = 1 /\ plan.quota = 1
      /\ plan.evidence = IF Product THEN 0 ELSE 1
  BY DEF PlanStands, FirstPlan
<1>3. Learned(plan) = {} /\ Learned(read) = {}
  BY <1>1, <1>2 DEF Learned
<1>4. /\ \A h, w : Route(plan, h, w) = Route(read, h, w)
      /\ Static(plan) = Static(read) /\ Shown(plan) = Shown(read) /\ TiersOf(plan) = TiersOf(read)
      /\ QuotaOf(plan) = QuotaOf(read) /\ Preflight(plan) = Preflight(read)
  BY <1>1, <1>2, SeenAlike
<1>5. ASSUME Executable(Route(read, {}, Want))
      PROVE  Shown(read) /\ TreatmentStands(Route(read, {}, Want).selected.route)
  <2>1. Shown(read)
    BY <1>5, DecidedIsShown DEF Executable
  <2> QED
    BY <1>1, <1>3, <1>5, <2>1, AskedAgainStands DEF TreatmentStands, TreatmentStandsFor
<1>6. ASSUME Executable(StaticDecision(plan)), Shown(plan) PROVE ControlStands(Static(plan))
  <2>1. Executable(Route(read, {}, Pinned(Static(read))))
    BY <1>3, <1>4, <1>6 DEF StaticDecision
  <2>2. Static(read).tier \in TiersOf(read)
    BY <1>1, <2>1, StaticStands
  <2> QED
    BY <1>3, <1>4, <1>6, <2>1, <2>2 DEF ControlStands
<1>7. CASE Product
  <2>1. Executable(Route(read, {}, Want)) /\ PreflightRoute = Route(read, {}, Want).selected.route
    BY <1>4, <1>7 DEF Preflight, PreflightRoute
  <2>2. Policies = <<PreflightRoute>>
    BY <1>7 DEF Policies, PlanStands
  <2>3. PoliciesStand
    BY <1>5, <1>7, <2>1, <2>2 DEF PoliciesStand
  <2>4. EnvelopeStands
    <3>1. Preflight(read).why = "decided"
      BY <2>1 DEF Preflight, Executable
    <3>2. QuotaSeen(read) = QuotaSeen(plan)
      BY <1>4 DEF QuotaSeen
    <3> QED
      BY <1>1, <1>2, <1>4, <3>1, <3>2 DEF EnvelopeStands, Envelope
  <2> QED
    BY <1>7, <2>3, <2>4 DEF Invalidated
<1>8. CASE ~Product
  <2>1. Plannable(plan) /\ action = MetaDecision(plan) /\ action # "abstain"
    BY <1>8 DEF PlanStands
  <2>2. Executable(Route(read, {}, Want)) /\ Treatment = Route(read, {}, Want).selected.route
    BY <1>3, <1>4, <2>1 DEF Plannable, MetaDecision, Executable, Treatment
  <2>3. Shown(read) /\ Shown(plan) /\ TreatmentStands(Treatment) /\ EvidenceStands
    BY <1>1, <1>2, <1>4, <1>5, <1>8, <2>2 DEF EvidenceStands
  <2>4. Route(read, Learned(read), Want).why = "decided"
    BY <1>3, <2>2 DEF Executable
  <2>5. action \in {"static", "twin"} => Executable(StaticDecision(plan))
    BY <2>1 DEF MetaDecision
  <2>6. action = "twin" => TwinAllowed(QuotaOf(read), Config)
    BY <1>4, <2>1 DEF MetaDecision
  <2>7. action \in {"auto", "static", "twin"}
    BY <2>1 DEF MetaDecision
  <2>8. ~Invalidated
    BY <1>8, <2>3, <2>6, <2>7 DEF Invalidated
  <2>9. CASE action = "auto"
    <3>1. Policies = <<Treatment>>
      BY <2>9 DEF Policies
    <3>2. Policies[1] = Treatment
      BY <3>1
    <3> QED
      BY <2>3, <2>8, <2>9, <3>2 DEF PoliciesStand
  <2>10. CASE action = "static"
    <3>1. Policies = <<Static(plan)>>
      BY <2>10 DEF Policies
    <3>2. Policies[1] = Static(plan) /\ ControlStands(Static(plan))
      BY <1>6, <2>3, <2>5, <2>10, <3>1
    <3> QED
      BY <2>3, <2>8, <2>10, <3>2 DEF PoliciesStand
  <2>11. CASE action = "twin"
    <3>1. Policies = <<Static(plan), Treatment>>
      BY <2>11 DEF Policies
    <3>2. Policies[1] = Static(plan) /\ Policies[2] = Treatment /\ ControlStands(Static(plan))
      BY <1>6, <2>3, <2>5, <2>11, <3>1
    <3> QED
      BY <2>3, <2>4, <2>8, <2>11, <3>2 DEF PoliciesStand
  <2> QED
    BY <2>7, <2>9, <2>10, <2>11
<1> QED
  BY <1>7, <1>8

\* A step that keeps the plan keeps what there is to say for it.
LEMMA SameStanding ==
  ASSUME env' = env, plan' = plan, action' = action, round' = round
  PROVE  PlanStands' = PlanStands /\ Executable(Preflight(plan))' = Executable(Preflight(plan))
<1>1. /\ \A h, w : Route(plan, h, w)' = Route(plan, h, w)
      /\ Static(plan)' = Static(plan) /\ Learned(plan)' = Learned(plan)
      /\ QuotaOf(plan)' = QuotaOf(plan) /\ Shown(plan)' = Shown(plan)
  BY SameRequest DEF Route, Static, Learned, Shown, QuotaOf, TiersOf, Commands, Config
<1>2. Preflight(plan)' = Preflight(plan) /\ StaticDecision(plan)' = StaticDecision(plan)
  BY <1>1, SameRequest DEF Preflight, StaticDecision, Pinned
<1>3. Plannable(plan)' = Plannable(plan) /\ MetaDecision(plan)' = MetaDecision(plan)
  BY <1>1, <1>2, SameRequest DEF Plannable, MetaDecision
<1> QED
  BY <1>2, <1>3, SameRequest DEF PlanStands, FirstPlan

\* What a step of a request that has sent nothing, and sends nothing, in its first world starts from.
Unsent ==
  /\ IInv /\ Undisturbed /\ Undisturbed' /\ Underway /\ turns = <<>> /\ turns' = <<>>
  /\ env' = env /\ trouble' = trouble

LEMMA Settled == ASSUME Unsent PROVE trouble' # trouble + 1 /\ trouble' = trouble
BY FirstWorld DEF Unsent

\* Until something was planned (mcp/tools.ts, meta.ts).
LEMMA DiscoveryIsUnderway ==
  ASSUME Unsent, Begin \/ Discover \/ InspectProduct \/ InspectMeta PROVE Underway'
<1>1. /\ Product' = Product /\ Underway /\ trouble' # trouble + 1
      /\ world.repo = 1 /\ world.catalog = 1 /\ world.quota = 1 /\ world.evidence = 1
      /\ None \notin {"execute", "static", "auto", "twin", "abstain"}
  BY SameRequest, FirstWorld, Settled, EnvironmentAssumption DEF Unsent
<1>2. CASE Begin
  <2>1. pc' \in {"discover", "end"} /\ action' = None /\ round' = 1
    BY <1>1, <1>2 DEF Begin, Goto, Answer, Underway
  <2> QED
    BY <2>1 DEF Underway, Ahead, Planned
<1>3. CASE Discover
  <2>1. /\ pc' = "inspect" /\ action' = None /\ round' = 1
        /\ plan' = [profile |-> 1, caps |-> 0, catalog |-> 1, quota |-> 1,
                    evidence |-> IF Product THEN 0 ELSE 1]
    BY <1>1, <1>3 DEF Discover, Goto, Fails, Underway
  <2> QED
    BY <1>1, <2>1 DEF Underway, Ahead, FirstPlan
<1>4. ASSUME pc = "inspect" PROVE Inspected = FirstPlan(1)
  BY <1>1, <1>4 DEF Underway, Inspected, FirstPlan
<1>5. CASE InspectProduct
  <2>1. /\ Product /\ pc = "inspect" /\ plan' = Inspected /\ action' = "execute" /\ round' = 1
        /\ \/ pc' = "end" /\ report' \in {"configuration_required", "abstain"}
           \/ pc' = "freeze" /\ Preflight(Inspected).why = "decided"
    BY <1>1, <1>5 DEF InspectProduct, Goto, Answer, Underway
  <2>2. Preflight(plan)' = Preflight(Inspected)
    BY <2>1, SameRequest
       DEF Unsent, Preflight, Route, QuotaOf, TiersOf, Commands, Config, Want, Product
  <2>3. CASE pc' = "end"
    BY <1>1, <2>1, <2>3 DEF Underway, Ahead, Planned
  <2>4. CASE pc' = "freeze"
    <3>1. PlanStands'
      BY <1>1, <1>4, <2>1, <2>2, <2>4 DEF PlanStands, FirstPlan
    <3> QED
      BY <2>4, <3>1 DEF Underway, Ahead
  <2> QED
    BY <2>1, <2>3, <2>4
<1>6. CASE InspectMeta
  <2>1. /\ ~Product /\ pc = "inspect" /\ plan' = Inspected /\ round' = 1 /\ round = 1 /\ action = None
    BY <1>1, <1>6 DEF InspectMeta, Underway
  <2>2. \/ pc' = "end" /\ action' = None
        \/ /\ Plannable(Inspected) /\ action' = MetaDecision(Inspected)
           /\ pc' = IF action' = "abstain" THEN "finish" ELSE "snapshot"
    BY <1>1, <1>6, <2>1 DEF InspectMeta, Goto, Answer, Fails
  <2>3. CASE pc' = "end" /\ action' = None
    BY <2>3 DEF Underway, Ahead, Planned
  <2>4. CASE action' = "abstain" /\ pc' = "finish"
    BY <2>4 DEF Underway, Ahead, Planned
  <2>5. CASE /\ Plannable(Inspected) /\ action' = MetaDecision(Inspected) /\ pc' = "snapshot"
             /\ action' # "abstain"
    <3>1. /\ \A h, w : Route(plan, h, w)' = Route(Inspected, h, w)
          /\ Static(plan)' = Static(Inspected) /\ Learned(plan)' = Learned(Inspected)
          /\ QuotaOf(plan)' = QuotaOf(Inspected) /\ Shown(plan)' = Shown(Inspected)
      BY <2>1, SameRequest
         DEF Unsent, Route, Static, Learned, Shown, QuotaOf, TiersOf, Commands, Config
    <3>2. StaticDecision(plan)' = StaticDecision(Inspected)
      BY <3>1 DEF StaticDecision, Pinned
    <3>3. Plannable(plan)' = Plannable(Inspected) /\ MetaDecision(plan)' = MetaDecision(Inspected)
      <4>1. Plannable(plan)' = Plannable(Inspected)
        BY <3>1, <3>2, SameRequest DEF Unsent, Plannable
      <4>2. /\ env'.evidence[plan'.evidence] = env.evidence[Inspected.evidence]
            /\ env'.repos[plan'.profile] = env.repos[Inspected.profile]
            /\ Config' = Config /\ Want' = Want
        BY <2>1, SameRequest DEF Unsent
      <4>3. MetaDecision(plan)' = MetaDecision(Inspected)
        BY <3>1, <3>2, <4>2 DEF MetaDecision
      <4> QED
        BY <4>1, <4>3
    <3>4. MetaDecision(Inspected) \in {"abstain", "auto", "static", "twin"}
      BY DEF MetaDecision
    <3>5. PlanStands'
      BY <1>1, <1>4, <2>1, <2>5, <3>3, <3>4 DEF PlanStands, FirstPlan
    <3> QED
      BY <1>1, <2>1, <2>5, <3>5 DEF Underway, Ahead
  <2> QED
    BY <2>2, <2>3, <2>4, <2>5
<1> QED
  BY <1>2, <1>3, <1>5, <1>6

\* While the plan is on its way to be sent, which these steps do not leave without sending.
LEMMA RunIsUnderway ==
  ASSUME Unsent, Freeze \/ Snapshot \/ Profile \/ Query \/ Check \/ Send PROVE Underway'
<1>1. /\ Product' = Product /\ Underway /\ trouble' # trouble + 1
      /\ world.repo = 1 /\ world.catalog = 1 /\ world.quota = 1 /\ world.evidence = 1
      /\ IInv /\ Undisturbed /\ read \in [Views -> Nat] /\ env' = env /\ env \in Environments
  BY SameRequest, FirstWorld, Settled, Known DEF Unsent
<1>2. pc \in {"freeze"} \cup Ahead => (Product <=> action = "execute")
  BY <1>1 DEF IInv, Course, Ahead
<1>3. ASSUME plan' = plan, action' = action, round' = round
      PROVE  PlanStands' = PlanStands /\ Executable(Preflight(plan))' = Executable(Preflight(plan))
  BY <1>1, <1>3, SameStanding
<1>4. CASE Freeze
  <2>1. /\ pc = "freeze" /\ plan' = plan /\ action' = action /\ round' = round /\ frozen' = 1
        /\ PlanStands /\ Product /\ Preflight(plan).why = "decided"
        /\ \/ pc' = "end" /\ report' \in {"configuration_required", "abstain"}
           \/ pc' = "end" /\ env.preflightOnly
           \/ pc' = "receipts" /\ env.pending
           \/ pc' = "snapshot" /\ Admissible(Preflight(plan).selected)
    BY <1>1, <1>4 DEF Freeze, Goto, Answer, Underway, PlanStands, IInv, Course
  <2>2. CASE pc' # "snapshot"
    BY <1>1, <2>1, <2>2 DEF Underway, Ahead, Planned
  <2>3. CASE pc' = "snapshot"
    <3>1. Executable(Preflight(plan)) /\ PlanStands
      BY <2>1, <2>3 DEF Executable
    <3> QED
      BY <1>1, <1>3, <2>1, <2>3, <3>1 DEF Underway, Ahead
  <2> QED
    BY <2>2, <2>3
<1>5. CASE Snapshot
  <2>1. /\ pc = "snapshot" /\ pc' = "profile" /\ plan' = plan /\ action' = action /\ round' = round
        /\ frozen' = frozen /\ read' = [NoView EXCEPT !.caps = 1]
    BY <1>1, <1>5 DEF Snapshot, Goto
  <2>2. read'.caps = 1
    BY <2>1 DEF NoView
  <2> QED
    BY <1>1, <1>3, <2>1, <2>2 DEF Underway, Ahead
<1>6. CASE Profile
  <2>1. /\ pc = "profile" /\ plan' = plan /\ action' = action /\ frozen' = frozen
        /\ read.caps = 1 /\ plan.profile = 1
    <3>1. /\ pc = "profile" /\ plan' = plan /\ action' = action /\ frozen' = frozen
          /\ read.caps = 1 /\ plan = FirstPlan(1)
      BY <1>1, <1>6 DEF Profile, Underway, Ahead, PlanStands
    <3>2. FirstPlan(1).profile = 1
      BY DEF FirstPlan
    <3> QED
      BY <3>1, <3>2
  <2>2. PICK w \in Windows :
          /\ read' = [read EXCEPT !.caps = w[1], !.profile = w[2]]
          /\ IF ~Product /\ env.repos[w[2]].profile # env.repos[plan.profile].profile
               THEN Refresh ELSE Goto("query") /\ UNCHANGED round
    BY <1>6 DEF Profile
  <2>3. w[1] = 1 /\ w[2] = 1
    BY <1>1, <2>1, <2>2 DEF Windows
  <2>4. /\ pc' = "query" /\ round' = round
        /\ read' = [read EXCEPT !.caps = w[1], !.profile = w[2]]
    BY <2>1, <2>2, <2>3 DEF Goto
  <2>5. read'.caps = 1 /\ read'.profile = 1
    BY <1>1, <2>3, <2>4 DEF Views
  <2> QED
    BY <1>1, <1>3, <2>1, <2>4, <2>5 DEF Underway, Ahead
<1>7. CASE Query
  <2>1. /\ pc = "query" /\ pc' = "check" /\ plan' = plan /\ action' = action /\ round' = round
        /\ frozen' = frozen /\ read.caps = 1 /\ read.profile = 1
        /\ read' = [read EXCEPT !.catalog = 1, !.quota = 1, !.evidence = 1]
    BY <1>1, <1>7 DEF Query, Goto, Underway, Ahead
  <2>2. read' = FirstView
    <3>1. read' \in [Views -> Nat] /\ FirstView \in [Views -> Nat]
      BY <1>1, <2>1, FirstVersions DEF Views
    <3>2. \A x \in {"catalog", "quota", "evidence"} : read'[x] = 1
      BY <1>1, <2>1 DEF Views
    <3>3. read'["profile"] = 1 /\ read'["caps"] = 1
      BY <1>1, <2>1 DEF Views
    <3>4. \A x \in Views : read'[x] = 1
      BY <3>2, <3>3 DEF Views
    <3>5. \A x \in Views : FirstView[x] = 1
      BY FirstVersions, <1>1 DEF Views
    <3> QED
      BY <3>1, <3>4, <3>5
  <2>3. read'.caps = 1 /\ read'.profile = 1
    BY <2>2 DEF FirstView
  <2> QED
    BY <1>1, <1>3, <2>1, <2>2, <2>3 DEF Underway, Ahead
<1>8. CASE Check
  <2>1. /\ pc = "check" /\ plan' = plan /\ action' = action /\ frozen' = frozen /\ read' = read
        /\ read = FirstView /\ read.caps = 1 /\ read.profile = 1
        /\ PlanStands /\ (Product => Executable(Preflight(plan)))
    BY <1>1, <1>8 DEF Check, Underway, Ahead
  <2>2. ~Invalidated /\ PoliciesStand
    BY <1>1, <1>2, <2>1, PlanIsKept DEF Ahead
  <2>3. pc' = "send" /\ round' = round
    BY <1>1, <1>8, <2>2 DEF Check, Goto
  <2> QED
    BY <1>1, <1>3, <2>1, <2>3 DEF Underway, Ahead
<1>9. CASE Send
  <2>1. pc = "send" /\ read.caps = 1 /\ (Product => frozen = 1)
    BY <1>1, <1>9 DEF Send, Underway, Ahead
  <2>2. Intact
    BY <2>1 DEF Intact
  <2>3. \E t : turns' = Append(turns, t)
    BY <1>9, <2>2 DEF Send
  <2>4. Len(turns') = Len(turns) + 1 /\ Len(turns) \in Nat
    BY <1>1, <2>3, Known, Appended
  <2>5. turns' = turns
    BY DEF Unsent
  <2> QED
    BY <2>4, <2>5
<1> QED
  BY <1>4, <1>5, <1>6, <1>7, <1>8, <1>9

\* What ends, ends without a plan that should have run.
LEMMA EndIsUnderway ==
  ASSUME Unsent, (\E o \in Outcomes : TurnEnds(o)) \/ ResultLost \/ Apply \/ Finish \/ Receipts
  PROVE  Underway'
<1>1. /\ Product' = Product /\ Underway /\ trouble' # trouble + 1 /\ IInv /\ env' = env
  BY SameRequest, Settled DEF Unsent
<1>2. pc \notin {"turn", "apply"}
  BY <1>1 DEF Underway
<1>3. CASE Finish
  <2>1. pc = "finish" /\ pc' = "end" /\ action' = action /\ ~Product /\ ~Planned
    BY <1>1, <1>3 DEF Finish, Answer, ArtifactLost, Underway, IInv, Course
  <2> QED
    BY <1>1, <2>1 DEF Underway, Ahead, Planned
<1>4. CASE Receipts
  <2>1. /\ pc = "receipts" /\ pc' = "end" /\ action' = action /\ frozen' = frozen /\ ~Planned
        /\ report # None => report' = report
    BY <1>1, <1>4 DEF Receipts, Answer, Fails, Underway
  <2>2. ~Planned'
    <3>1. None \notin {"configuration_required", "abstain"}
      BY EnvironmentAssumption
    <3> QED
      BY <1>1, <2>1, <3>1 DEF Planned
  <2> QED
    BY <2>1, <2>2 DEF Underway, Ahead
<1> QED
  BY <1>2, <1>3, <1>4 DEF TurnEnds, ResultLost, Apply

\* In a world that does not move, with nothing learned that preflight leaves out and nothing going
\* wrong, a request that was planned to run sends: the run that reads everything again agrees with
\* the plan (mcp/tools.ts executePreflight, single.ts and policy.ts revalidateTreatmentPolicy).
THEOREM WhatIsReadyExecutes == Spec => []ReadyExecutes
<1>1. Init => Ready
  BY DEF Init, Ready, Underway, Ahead
<1>2. IInv /\ Ready /\ [Next]_vars => Ready'
  <2> SUFFICES ASSUME IInv, Ready, [Next]_vars, Undisturbed', turns' = <<>> PROVE Underway'
    BY DEF Ready
  <2>1. Undisturbed /\ trouble' = trouble /\ env' = env /\ ~\E s \in Sources : Drift(s)
    BY StaysUndisturbed
  <2>2. turns = <<>>
    <3>1. turns' = turns \/ \E t : turns' = Append(turns, t)
      BY DEF Next, Step, Drift, Done, vars, Begin, Discover, InspectProduct, InspectMeta, Freeze,
         Snapshot, Profile, Query, Check, Send, TurnEnds, ResultLost, Apply, Finish, Receipts
    <3>2. ASSUME NEW t, turns' = Append(turns, t) PROVE FALSE
      <4>1. Len(Append(turns, t)) = Len(turns) + 1 /\ Len(turns) \in Nat
        BY Known, Appended
      <4>2. Len(<<>>) = 0
        OBVIOUS
      <4> QED
        BY <3>2, <4>1, <4>2
    <3> QED
      BY <3>1, <3>2
  <2>3. Unsent
    BY <2>1, <2>2 DEF Unsent, Ready
  <2>4. CASE Step
    BY <2>3, <2>4, DiscoveryIsUnderway, RunIsUnderway, EndIsUnderway DEF Step
  <2>5. CASE UNCHANGED vars
    <3>1. /\ Underway /\ pc' = pc /\ action' = action /\ round' = round /\ plan' = plan
          /\ frozen' = frozen /\ read' = read /\ report' = report
      BY <2>3, <2>5 DEF Unsent, vars
    <3>2. PlanStands' = PlanStands /\ Executable(Preflight(plan))' = Executable(Preflight(plan))
          /\ FirstPlan(0)' = FirstPlan(0) /\ Planned' = Planned /\ Product' = Product
      BY <2>1, <3>1, SameStanding, SameRequest DEF FirstPlan, Planned
    <3> QED
      BY <3>1, <3>2 DEF Underway
  <2> QED
    BY <2>1, <2>4, <2>5 DEF Next, Done
<1>3. IInv /\ Ready => ReadyExecutes
  BY DEF Ready, Underway, ReadyExecutes
<1> QED
  BY <1>1, <1>2, <1>3, Inductive, PTL DEF Spec
=============================================================================
