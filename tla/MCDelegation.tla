---------------------------- MODULE MCDelegation ----------------------------
(* Small surroundings for Delegation: two or three models, two efforts, one or two speeds. *)
EXTENDS Delegation

Model(family, efforts, default) ==
  [id |-> family, family |-> family, efforts |-> efforts, defaultEffort |-> "medium",
   speeds |-> {"fast"}, hidden |-> FALSE, isDefault |-> default]

Both == <<Model("terra", {"medium", "high"}, FALSE), Model("sol", {"medium", "high", "ultra"}, TRUE)>>
Cheap == <<Model("luna", {"medium", "high"}, FALSE)>> \o Both
SolOnly == <<Model("sol", {"medium", "high"}, TRUE)>>

Plain ==
  [risk |-> 100, depth |-> 400, ambiguity |-> 300, novelty |-> 300, breadth |-> 500,
   parallelizability |-> 700, verifiability |-> 600, mechanicalness |-> 300, destructive |-> 0,
   latency |-> 300]
Easy == [Plain EXCEPT !.ambiguity = 100, !.novelty = 100, !.verifiability = 900, !.mechanicalness = 900]
Risky == [Plain EXCEPT !.risk = 550]
Critical == [Plain EXCEPT !.risk = 750, !.verifiability = 900]

Check1 == [tier |-> "standard", taskSpecific |-> TRUE, certifies |-> TRUE]
Check2 == [tier |-> "basic", taskSpecific |-> FALSE, certifies |-> FALSE]

Checkout(profile, features, commands, assets) ==
  [profile |-> profile, features |-> features, commands |-> commands, assets |-> assets, strength |-> 500]
Here(features) == Checkout("here", features, {Check1, Check2}, "same")
Edited(features) == Checkout("edited", features, {Check1, Check2}, "same")
(* The same files are dirty, with other contents: the profile does not tell them apart. *)
Retouched(features) == Checkout("here", features, {Check1, Check2}, "changed")
Unchecked(features) == Checkout("here", features, {Check1}, "changed")

Window(used) == {[id |-> 1, used |-> used, elapsed |-> 500, reached |-> FALSE]}

Evidence(samples, lower, upper, value) ==
  [history |-> {}, exact |-> TRUE, samples |-> samples, lower |-> lower, upper |-> upper, value |-> value]
Unsure == Evidence(0, -9000, 9000, 0)
Valued == Evidence(2, -9000, 9000, 90000)
ForAuto == Evidence(6, 2000, 9000, 0)
ForStatic == Evidence(6, -9000, -2000, 0)
Disappointing ==
  [Unsure EXCEPT !.history =
     {[id |-> i, route |-> <<"terra", "medium", "standard", "single", "standard">>,
       outcome |-> "failure", duration |-> 200000, credits |-> 90000] : i \in 1..9}]

SmallConfig ==
  [Defaults EXCEPT !.candidateEfforts = <<"medium", "high">>, !.speeds = <<"standard">>,
                   !.tiers = {"standard", "strong"}]

Asking(level, threshold) ==
  [SmallConfig EXCEPT !.minimumCompletion[level] = threshold, !.minimumQuality[level] = threshold]
Lenient == Asking("normal", 650)
Impossible == Asking("normal", 1000)
CriticalAllowed == Asking("critical", 700)

Request(path) ==
  [path |-> path, config |-> SmallConfig, want |-> Anything,
   repos |-> <<Here(Plain), Edited(Plain), Here(Plain), Edited(Plain)>>, catalogs |-> <<Both, SolOnly>>,
   quotas |-> <<Window(20), Window(100)>>, evidence |-> <<Unsure>>,
   host |-> TRUE, pending |-> FALSE, preflightOnly |-> FALSE, apply |-> TRUE]

Execute == Request("execute")
Auto == Request("auto")

ProductRequests ==
  {Execute,
   [Execute EXCEPT !.repos = <<Here(Plain), Retouched(Plain)>>],
   [Execute EXCEPT !.repos = <<Here(Plain), Unchecked(Plain)>>],
   [Execute EXCEPT !.catalogs = <<Cheap>>, !.repos = <<Here(Easy)>>, !.quotas = <<Window(20), Window(30)>>,
                   !.config = Lenient],
   [Execute EXCEPT !.catalogs = <<Cheap>>, !.repos = <<Here(Easy), Edited(Easy)>>,
                   !.config = [Lenient EXCEPT !.candidateEfforts = <<"medium">>]],
   [Execute EXCEPT !.catalogs = <<Both>>, !.config.enableUltra = TRUE,
                   !.config.candidateEfforts = <<"high", "ultra">>,
                   !.want.family = "sol", !.repos = <<Here(Plain)>>],
   [Execute EXCEPT !.config.speeds = <<"standard", "fast">>, !.want.latency = "urgent",
                   !.want.speedMode = "auto", !.want.context = "foreground", !.repos = <<Here(Plain)>>],
   [Execute EXCEPT !.config.speeds = <<"standard", "fast">>, !.want.speedMode = "fast",
                   !.want.context = "foreground", !.quotas = <<Window(20), Window(60)>>],
   [Execute EXCEPT !.evidence = <<Disappointing>>, !.quotas = <<Window(20)>>],
   [Execute EXCEPT !.host = FALSE],
   [Execute EXCEPT !.pending = TRUE],
   [Execute EXCEPT !.preflightOnly = TRUE],
   [Execute EXCEPT !.want.speedId = "fast"],
   [Execute EXCEPT !.repos = <<Here(Risky)>>],
   [Execute EXCEPT !.repos = <<Checkout("here", Plain, {Check2}, "same")>>],
   [Execute EXCEPT !.quotas = <<Window(100)>>]}

MetaRequests ==
  {[Auto EXCEPT !.evidence = <<e, f>>] : e \in {Unsure, Valued, ForAuto, ForStatic}, f \in {Valued, ForAuto}}
  \cup
  {[Auto EXCEPT !.config.metaEnabled = FALSE],
   [Auto EXCEPT !.config = Impossible],
   [Auto EXCEPT !.config.static.family = "luna", !.catalogs = <<Cheap, SolOnly>>],
   [Auto EXCEPT !.want.family = "sol", !.config.static.effort = "high"],
   [Auto EXCEPT !.want.family = "luna"],
   [Auto EXCEPT !.config = [CriticalAllowed EXCEPT !.criticalVerifier = 1000],
                !.repos = <<Here(Critical)>>],
   [Auto EXCEPT !.config = CriticalAllowed, !.repos = <<Here(Critical)>>],
   [Auto EXCEPT !.repos = <<Here(Plain), Unchecked(Plain)>>, !.apply = FALSE]}

AllRequests == ProductRequests \cup MetaRequests
PinnedRequests == {[Auto EXCEPT !.want.family = "terra"]}
=============================================================================
