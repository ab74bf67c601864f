------------------------------ MODULE JpegParser ------------------------------
(***************************************************************************)
(* JpegStreamParser of crates/ov3660/src/jpeg.rs: the byte automaton that  *)
(* cuts JPEG images out of the stream of the sensor, called the way        *)
(* camera_task calls it.                                                   *)
(*                                                                         *)
(* The sensor is not the parser run backwards: it emits whole pieces of a  *)
(* JPEG stream (a segment with its payload, an entropy-coded byte, a       *)
(* marker), and knows for itself where a frame begins and ends.  The split *)
(* into DMA chunks leaves no trace in the parser but input_offset, so the  *)
(* bytes are taken one by one; a lost byte is one that the capture dropped *)
(* or that was left over in a chunk the parser gave up.                    *)
(***************************************************************************)
EXTENDS Integers, Sequences

CONSTANTS
    Capacity,     \* output.len()
    SegmentKinds, \* the markers of the segments the sensor sends
    Payloads,     \* the payloads of its segments
    Entropy,      \* its entropy-coded bytes
    Padding,      \* what it sends between two frames
    Missing,      \* how many bytes a segment may announce and lack
    MaxFrame      \* bound on the length of a frame

Prefix == 255
SOI == 216
EOI == 217
SOS == 218
TEM == 1
Restarts == 208..215
HasLength(m) == m \in 192..207 \cup 218..223 \cup 224..254

ByteValues == 0..255
MaxWord == 65535

\* The length a segment begins with counts its own two bytes.
LengthOf(payload) == <<(2 + Len(payload)) \div 256, (2 + Len(payload)) % 256>>
SegmentOf(m, payload) == <<m>> \o (LengthOf(payload) \o payload)

\* No two bytes of s look like the beginning of a frame.
HidesNoSoi(s) == \A i \in 1..(Len(s) - 1) : s[i] = Prefix => s[i + 1] # SOI

ASSUME CapacityAssumption == Capacity \in Nat /\ Capacity >= 2
ASSUME SensorAssumption ==
    /\ SegmentKinds \subseteq {m \in ByteValues : HasLength(m)} \ {SOS}
    /\ Payloads \subseteq Seq(ByteValues)
    /\ \A p \in Payloads :
           /\ 2 + Len(p) <= MaxWord
           /\ p # <<>> => p[Len(p)] # Prefix
           /\ HidesNoSoi(LengthOf(p) \o p)
    /\ Entropy \subseteq ByteValues \ {Prefix}
    /\ Padding \subseteq ByteValues \ {SOI}
    /\ MaxFrame \in Nat
ASSUME MissingAssumption == Missing \subseteq 1..(MaxWord - 2)

VARIABLES
    state, output, segmentRemaining, marker, sawFF, resumeEntropy, \* the parser
    image,    \* the frame the last call returned, or no bytes
    section,  \* sensor: in front of a frame, in its headers or in a scan
    wire,     \* sensor: the bytes of the piece it is sending
    sent,     \* sensor: the bytes of the frame it has sent
    intact    \* every one of them reached the parser

segmentVars == <<segmentRemaining, marker>>
parserVars == <<state, output, segmentVars, sawFF, resumeEntropy>>
sensorVars == <<section, wire, sent, intact>>
vars == <<parserVars, image, sensorVars>>

States == {"LookingForSoi", "Marker", "LengthHigh", "LengthLow", "Segment", "Entropy"}
Sections == {"between", "header", "scan"}

\* No write is beyond the end of the buffer, and segment_remaining never runs
\* below zero.
TypeOK ==
    /\ state \in States
    /\ output \in Seq(ByteValues) /\ Len(output) <= Capacity
    /\ segmentRemaining \in 0..MaxWord
    /\ state = "Segment" => segmentRemaining > 0
    /\ marker \in ByteValues
    /\ sawFF \in BOOLEAN
    /\ resumeEntropy \in BOOLEAN
    /\ image \in Seq(ByteValues)
    /\ section \in Sections
    /\ wire \in Seq(ByteValues)
    /\ sent \in Seq(ByteValues)
    /\ intact \in BOOLEAN

Init ==
    /\ state = "LookingForSoi"
    /\ output = <<>>
    /\ segmentRemaining = 0
    /\ marker = 0
    /\ sawFF = FALSE
    /\ resumeEntropy = FALSE
    /\ image = <<>>
    /\ section = "between"
    /\ wire = <<>>
    /\ sent = <<>>
    /\ intact = TRUE
-----------------------------------------------------------------------------
(* The sensor *)

Send(piece, next) ==
    /\ wire = <<>>
    /\ wire' = piece
    /\ section' = next
    /\ image' = <<>>
    /\ UNCHANGED parserVars

Fits(piece) == Len(sent) + Len(piece) <= MaxFrame

\* Any number of fill bytes may stand in front of a marker; none or one here.
Marked(rest) == LET once == <<Prefix>> \o rest IN {once, <<Prefix>> \o once}

\* A frame begins, also where the one before it was broken off.
SendSoi ==
    /\ Send(<<Prefix, SOI>>, "header")
    /\ sent' = <<>>
    /\ intact' = TRUE

SendPadding ==
    /\ section = "between"
    /\ \E b \in Padding : Send(<<b>>, "between")
    /\ sent' = <<>>
    /\ intact' = TRUE

SendPiece(pieces, next) ==
    /\ \E piece \in pieces : Fits(piece) /\ Send(piece, next)
    /\ UNCHANGED <<sent, intact>>

SendSegment ==
    /\ section # "between"
    /\ SendPiece(UNION {Marked(SegmentOf(m, p)) : m \in SegmentKinds, p \in Payloads}, section)

SendScan ==
    /\ section # "between"
    /\ SendPiece(UNION {Marked(SegmentOf(SOS, p)) : p \in Payloads}, "scan")

SendEntropy ==
    /\ section = "scan"
    /\ SendPiece({<<b>> : b \in Entropy} \cup {<<Prefix, b>> : b \in {0, 208, TEM}}, "scan")

\* A segment that announces more bytes than it has: its payload is cut short, or
\* its frame is broken off inside it.
Overlong ==
    {<<Prefix, m, (2 + k) \div 256, (2 + k) % 256>> : m \in SegmentKinds, k \in Missing}

\* A segment whose length does not count itself, a marker that has no place in
\* a frame, or a byte that is no marker where one is due: the frame is lost,
\* whatever the parser makes of its rest.
Malformed ==
    {<<Prefix, m, 0, n>> : m \in SegmentKinds, n \in 0..1} \cup {<<Prefix, 2>>}
      \cup (IF section = "header" THEN {<<0>>} ELSE {}) \cup Overlong

SendMalformed ==
    /\ section # "between"
    /\ \E piece \in Malformed : Fits(piece) /\ Send(piece, section)
    /\ intact' = FALSE
    /\ UNCHANGED sent

SendEoi ==
    /\ section # "between"
    /\ \E piece \in Marked(<<EOI>>) : Send(piece, "between")
    /\ UNCHANGED <<sent, intact>>
-----------------------------------------------------------------------------
(* The parser *)

Byte == Head(wire)

\* One byte of the stream goes by; seen is whether the parser had it.
Pass(seen) ==
    /\ wire # <<>>
    /\ wire' = Tail(wire)
    /\ sent' = IF section = "between" /\ sent = <<>> THEN <<>> ELSE Append(sent, Byte)
    /\ intact' = (intact /\ seen)
    /\ UNCHANGED section

\* Mutant of ResetState: a prefix seen before the reset is remembered.
ResetStateKeepingPrefix ==
    /\ state' = "LookingForSoi"
    /\ output' = <<>>
    /\ segmentRemaining' = 0
    /\ marker' = 0
    /\ resumeEntropy' = FALSE
    /\ UNCHANGED sawFF

ResetState ==
    /\ state' = "LookingForSoi"
    /\ output' = <<>>
    /\ segmentRemaining' = 0
    /\ marker' = 0
    /\ sawFF' = FALSE
    /\ resumeEntropy' = FALSE

Continue(next, prefixed) ==
    /\ output' = Append(output, Byte)
    /\ state' = next
    /\ sawFF' = prefixed
    /\ image' = <<>>

\* The output starts again with this SOI; in front of a marker or inside a scan
\* the frame begun before is given up.
StartFrame ==
    /\ output' = <<Prefix, SOI>>
    /\ state' = "Marker"
    /\ sawFF' = FALSE
    /\ image' = <<>>
    /\ UNCHANGED <<segmentVars, resumeEntropy>>

\* finish_frame; camera_task takes bytes_written bytes and calls
\* reset_output_offset.
FinishFrame ==
    /\ image' = Append(output, Byte)
    /\ ResetState

Fail == ResetState /\ image' = <<>>

Room == Len(output) < Capacity

LookingForSoi ==
    /\ state = "LookingForSoi"
    /\ Pass(TRUE)
    /\ IF sawFF /\ Byte = SOI
       THEN StartFrame
       ELSE /\ sawFF' = (Byte = Prefix)
            /\ image' = <<>>
            /\ UNCHANGED <<state, output, segmentVars, resumeEntropy>>

\* The byte after a prefix; standalone are the bytes that then stand for
\* themselves.
AfterPrefix(standalone, inEntropy) ==
    \/ Byte = Prefix /\ Continue(state, TRUE) /\ UNCHANGED <<segmentVars, resumeEntropy>>
    \/ Byte \in standalone /\ Continue(state, FALSE) /\ UNCHANGED <<segmentVars, resumeEntropy>>
    \/ Byte = EOI /\ FinishFrame
    \/ Byte = SOI /\ StartFrame
    \/ /\ HasLength(Byte)
       /\ Continue("LengthHigh", FALSE)
       /\ marker' = Byte
       /\ resumeEntropy' = inEntropy
       /\ UNCHANGED segmentRemaining
    \/ /\ Byte \notin standalone \cup {Prefix, SOI, EOI}
       /\ ~HasLength(Byte)
       /\ Fail

InMarker ==
    /\ state = "Marker" /\ Room
    /\ Pass(TRUE)
    /\ \/ sawFF /\ AfterPrefix({TEM}, FALSE)
       \/ ~sawFF /\ Byte = Prefix /\ Continue("Marker", TRUE)
          /\ UNCHANGED <<segmentVars, resumeEntropy>>
       \/ ~sawFF /\ Byte # Prefix /\ Fail

LengthHigh ==
    /\ state = "LengthHigh" /\ Room
    /\ Pass(TRUE)
    /\ Continue("LengthLow", sawFF)
    /\ segmentRemaining' = Byte * 256
    /\ UNCHANGED <<marker, resumeEntropy>>

\* Mutant of AfterSegment: a segment always leads back to the next marker.
AfterSegmentToMarker ==
    /\ Continue("Marker", FALSE)
    /\ resumeEntropy' = FALSE

AfterSegment ==
    /\ Continue(IF marker = SOS \/ resumeEntropy THEN "Entropy" ELSE "Marker", FALSE)
    /\ resumeEntropy' = FALSE

\* Mutant of LengthLow: a length that does not count its own two bytes is
\* taken as it is.
LengthLowUnchecked ==
    /\ state = "LengthLow" /\ Room
    /\ Pass(TRUE)
    /\ segmentRemaining' = segmentRemaining + Byte - 2
    /\ IF segmentRemaining' = 0 THEN AfterSegment
       ELSE Continue("Segment", sawFF) /\ UNCHANGED resumeEntropy
    /\ UNCHANGED marker

LengthLow ==
    /\ state = "LengthLow" /\ Room
    /\ Pass(TRUE)
    /\ LET length == segmentRemaining + Byte
       IN IF length < 2 THEN Fail
          ELSE /\ segmentRemaining' = length - 2
               /\ IF length = 2 THEN AfterSegment
                  ELSE Continue("Segment", sawFF) /\ UNCHANGED resumeEntropy
               /\ UNCHANGED marker

InSegment ==
    /\ state = "Segment" /\ Room
    /\ Pass(TRUE)
    /\ segmentRemaining' = segmentRemaining - 1
    /\ IF segmentRemaining' = 0 THEN AfterSegment
       ELSE Continue("Segment", sawFF) /\ UNCHANGED resumeEntropy
    /\ UNCHANGED marker

InEntropy ==
    /\ state = "Entropy" /\ Room
    /\ Pass(TRUE)
    /\ \/ sawFF /\ AfterPrefix({0, TEM} \cup Restarts, TRUE)
       \/ ~sawFF /\ Continue("Entropy", Byte = Prefix) /\ UNCHANGED <<segmentVars, resumeEntropy>>

\* The byte is not consumed; camera_task resets the parser and gives up the
\* chunk, this byte and what follows it.  It did reach a parser whose buffer is
\* full with the very frame the byte belongs to.
OutputBufferFull ==
    /\ state # "LookingForSoi" /\ ~Room
    /\ Pass(output = sent)
    /\ ResetState
    /\ image' = <<>>

\* A byte is lost: camera_task resets the parser when the capture resyncs, and
\* a parser that has failed is in the same state.
Lose ==
    /\ Pass(FALSE)
    /\ ResetState
    /\ image' = <<>>

Next ==
    \/ SendSoi \/ SendPadding \/ SendSegment \/ SendScan \/ SendEntropy \/ SendEoi
    \/ SendMalformed
    \/ LookingForSoi \/ InMarker \/ LengthHigh \/ LengthLow \/ InSegment \/ InEntropy
    \/ OutputBufferFull \/ Lose

Spec == Init /\ [][Next]_vars
-----------------------------------------------------------------------------
(* Properties *)

\* The sensor has just sent the last byte of a frame.
FrameEnded == section = "between" /\ wire = <<>> /\ sent # <<>>

\* What the parser returns as a frame is the frame the sensor has just
\* finished, from its SOI to its EOI: never cut short at an EOI inside a
\* segment, never joined with another one, whatever was lost in between.  A
\* stream that is malformed is dropped (docs/firmware.md, Failure Behavior).
FramesExact ==
    image # <<>> => FrameEnded /\ image = sent

\* A frame that arrived in full and fits the buffer is returned.
NothingMissed ==
    FrameEnded /\ intact /\ Len(sent) <= Capacity => image = sent
=============================================================================
