-------------------------- MODULE MCAttemptJournal --------------------------
(* Two or three invocations that share one journal directory. *)
EXTENDS AttemptJournal, TLC

Symmetry == Permutations(Runs)
=============================================================================
