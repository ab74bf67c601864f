----------------------------- MODULE MCOtaUpdate -----------------------------
(* Small instances of OtaUpdate for TLC. *)
EXTENDS OtaUpdate

MCVersions == 1..3
MCStable == {1, 3}
=============================================================================
