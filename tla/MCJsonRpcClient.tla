-------------------------- MODULE MCJsonRpcClient --------------------------
(* Calls that share one connection, some of them safe to read again. *)
EXTENDS JsonRpcClient, TLC

=============================================================================
