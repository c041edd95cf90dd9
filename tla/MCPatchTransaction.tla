--------------------------- MODULE MCPatchTransaction ---------------------------
(***************************************************************************)
(* PatchTransaction with one edit of each kind.                            *)
(***************************************************************************)
EXTENDS PatchTransaction

MCEdits == Kinds
MCKind  == [e \in MCEdits |-> e]
=============================================================================
