---------------------------- MODULE MCCodexTurn ----------------------------
(* One turn/start against a server with two turn ids. *)
EXTENDS CodexTurn, TLC

=============================================================================
