---------------------------- MODULE MCStreaming ----------------------------
(* Small instances of Streaming for TLC. *)
EXTENDS Streaming

CONSTANTS w1, w2, b1, b2

MCWorkers == {w1, w2}
MCBuffers == {b1, b2}
=============================================================================
