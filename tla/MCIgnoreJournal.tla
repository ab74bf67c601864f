---------------------------- MODULE MCIgnoreJournal ----------------------------
(* Small instances of IgnoreJournal for TLC. *)
EXTENDS IgnoreJournal
=============================================================================
