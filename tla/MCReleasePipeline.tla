--------------------------- MODULE MCReleasePipeline ---------------------------
(* Small instances of ReleasePipeline for TLC. *)
EXTENDS ReleasePipeline

\* A release, the candidates of the next, and the next.
MCVersions == {<<1, 0>>, <<2, 1>>, <<2, 2>>, <<2, 0>>}
MCFewVersions == {<<1, 0>>, <<2, 1>>, <<2, 0>>}
=============================================================================
