----------------------------- MODULE MCMcpServer -----------------------------
(* Calls the first two of which use the same request id. *)
EXTENDS McpServer

CONSTANTS c1, c2, k1

SharedKey == [r \in Calls |-> IF r \in {c1, c2} THEN k1 ELSE r]
=============================================================================
