----------------------------- MODULE MCReleaseTool -----------------------------
(* Small instances of ReleaseTool for TLC. *)
EXTENDS ReleaseTool
=============================================================================
