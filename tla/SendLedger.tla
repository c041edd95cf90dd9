----------------------------- MODULE SendLedger -----------------------------
(***************************************************************************)
(* What the attempt journal promises, without records or files: every run  *)
(* owns a durable number of claims, a model request is sent only against a *)
(* claim made before, a new claim is made only when every earlier one was  *)
(* used, there are at most MaximumAttempts of them, and a closed ledger    *)
(* sends no more.                                                          *)
(***************************************************************************)
EXTENDS Naturals

CONSTANT Runs

MaximumAttempts == 2

VARIABLES claims, sends, status

ledger == <<claims, sends, status>>

LedgerTypeOK ==
  /\ claims \in [Runs -> 0..MaximumAttempts]
  /\ sends \in [Runs -> 0..MaximumAttempts]
  /\ status \in [Runs -> {"open", "closed", "forgotten"}]

Init ==
  /\ claims = [r \in Runs |-> 0]
  /\ sends = [r \in Runs |-> 0]
  /\ status = [r \in Runs |-> "open"]

Claim(r) ==
  /\ status[r] = "open"
  /\ claims[r] = sends[r]
  /\ claims[r] < MaximumAttempts
  /\ claims' = [claims EXCEPT ![r] = @ + 1]
  /\ UNCHANGED <<sends, status>>

Send(r) ==
  /\ status[r] = "open"
  /\ sends[r] < claims[r]
  /\ sends' = [sends EXCEPT ![r] = @ + 1]
  /\ UNCHANGED <<claims, status>>

\* A claim whose request never left is taken back.
Withdraw(r) ==
  /\ status[r] = "open"
  /\ sends[r] < claims[r]
  /\ claims' = [claims EXCEPT ![r] = @ - 1]
  /\ UNCHANGED <<sends, status>>

Close(r) ==
  /\ status[r] = "open"
  /\ status' = [status EXCEPT ![r] = "closed"]
  /\ UNCHANGED <<claims, sends>>

\* The run is over and an operator has settled what was left open.
Forget(r) ==
  /\ status[r] = "open"
  /\ status' = [status EXCEPT ![r] = "forgotten"]
  /\ claims' = [claims EXCEPT ![r] = sends[r]]
  /\ UNCHANGED sends

Next == \E r \in Runs : Claim(r) \/ Send(r) \/ Withdraw(r) \/ Close(r) \/ Forget(r)

Spec == Init /\ [][Next]_ledger

=============================================================================
