----------------------------- MODULE MCFirmware -----------------------------
(* Small instances of Firmware for TLC. *)
EXTENDS Firmware

CONSTANTS w1, w2, b1, b2

MCVersions == 1..2
MCWorkers == {w1, w2}
MCBuffers == {b1, b2}
=============================================================================
