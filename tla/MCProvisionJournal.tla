------------------------- MODULE MCProvisionJournal -------------------------
(* Small instances of ProvisionJournal for TLC. *)
EXTENDS ProvisionJournal

CONSTANTS c1, c2, c3

MCConfigs == {c1, c2, c3}
=============================================================================
