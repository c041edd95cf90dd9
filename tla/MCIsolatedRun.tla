---------------------------- MODULE MCIsolatedRun ----------------------------
(* A twin side by side or in sequence, and a single run, each with what it keeps. *)
EXTENDS IsolatedRun

Run(runner, execution, preserve, apply, fork) ==
  [runner |-> runner, execution |-> execution, preserve |-> preserve, apply |-> apply,
   fork |-> fork]

FewEnvironments ==
  {Run("twin", "parallel", "never", TRUE, FALSE),
   Run("twin", "sequential", "on-failure", FALSE, TRUE),
   Run("twin", "parallel", "always", FALSE, FALSE),
   Run("single", "parallel", "on-failure", TRUE, FALSE)}
=============================================================================
