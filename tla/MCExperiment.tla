---------------------------- MODULE MCExperiment ----------------------------
(* One block of the 2x2 smoke study; a Codex run of each kind the checks tell apart. *)
EXTENDS Experiment, TLC

CONSTANTS p1, p2

Cell4(a) ==
  CASE a = 1 -> [block |-> 1, order |-> 1, surface |-> "codex", on |-> TRUE]
    [] a = 2 -> [block |-> 1, order |-> 2, surface |-> "chatgpt-work", on |-> TRUE]
    [] a = 3 -> [block |-> 1, order |-> 3, surface |-> "codex", on |-> FALSE]
    [] a = 4 -> [block |-> 1, order |-> 4, surface |-> "chatgpt-work", on |-> FALSE]

OneBlock == [a \in Assignments |-> Cell4(a)]

Run(exit, visible, hidden, rerouted, problems, mutates, cost) ==
  [exit |-> exit, visible |-> visible, hidden |-> hidden, rerouted |-> rerouted,
   route |-> IF exit = "ok" THEN "verified" ELSE Unavailable, problems |-> problems,
   mutates |-> mutates, movedHead |-> FALSE, cost |-> cost]

Clean == Run("ok", TRUE, TRUE, FALSE, {}, FALSE, 5)
Rerouted == Run("ok", TRUE, TRUE, TRUE, {"model-effort"}, FALSE, 5)
Escape == Run("ok", TRUE, FALSE, FALSE, {}, FALSE, 5)
Mutating == Run("ok", TRUE, TRUE, FALSE, {}, TRUE, 5)
Failed == Run("failed", TRUE, FALSE, FALSE, {}, FALSE, NoCost)

Seen(catalog, quota) == [catalog |-> catalog, quota |-> quota]

FewEnvironments ==
  {[runs |-> {Clean}, snapshots |-> {Seen("c1", 0), Seen("c1", 5), Seen("c2", 0)}],
   [runs |-> {Clean, Rerouted, Escape}, snapshots |-> {Seen("c1", 0)}],
   [runs |-> {Mutating, Failed}, snapshots |-> {Seen("c1", 0)}]}

FewBundles ==
  {[visible |-> TRUE, hidden |-> TRUE, result |-> TRUE, declared |-> {}]}

Symmetry == Permutations(Procs)
=============================================================================
