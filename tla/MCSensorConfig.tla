---------------------------- MODULE MCSensorConfig ----------------------------
(* Small instances of SensorConfig for TLC. *)
EXTENDS SensorConfig

\* The camera runs at 10 MHz.
Ten_MHz == 10000000
MCLevels == {-1, 1}
MCOne == {-2}
=============================================================================
