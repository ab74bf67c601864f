---------------------------- MODULE MCJpegParser ----------------------------
(* A small instance of JpegParser for TLC. *)
EXTENDS JpegParser

\* Segments that are empty or have a payload that holds an EOI and a byte of an
\* SOI.
MCSegmentKinds == {224}
MCPayloads == {<<>>, <<216, 255, 217>>}
MCEntropy == {216, 217}
MCPadding == {0, 255}
=============================================================================
