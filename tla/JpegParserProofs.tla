----------------------------- MODULE JpegParserProofs -----------------------------
(***************************************************************************)
(* Proofs about JpegParser, for any buffer and for any stream of segments, *)
(* payloads, entropy-coded bytes and paddings.  What the parser returns is *)
(* proved of streams in which no segment announces more than it has        *)
(* (Missing = {}); of the others it does not hold.                         *)
(***************************************************************************)
EXTENDS JpegParser, SequenceTheorems, TLAPS

-----------------------------------------------------------------------------
(* The inductive invariant: what the parser expects is what is on the wire.  *)

Synced == state # "LookingForSoi"

\* The sensor is at the beginning of a frame, or between the two bytes of it.
SoiPending ==
    /\ section = "header"
    /\ \/ wire = <<Prefix, SOI>> /\ sent = <<>>
       \/ wire = <<SOI>> /\ sent = <<Prefix>>

\* The section a parser in front of a marker, or with a scan to resume, is in.
SectionOf(scanning) == IF scanning THEN "scan" ELSE "header"
Scanning == state = "Entropy"

\* What may be ahead of a parser: w is on the wire, of a piece of the section sec,
\* and a frame that is whole is not malformed.  A length counts what is left of
\* its segment.
LengthAhead(w, whole) ==
    /\ Len(w) >= 2
    /\ \/ 256 * w[1] + w[2] = Len(w)
       \/ ~whole /\ Len(w) = 2 /\ 256 * w[1] + w[2] < 2

\* w follows a prefix.
MarkerAhead(w, sec, scanning, whole) ==
    \/ w = <<EOI>> /\ sec = "between"
    \/ /\ w # <<>> /\ HasLength(w[1]) /\ LengthAhead(Tail(w), whole)
       /\ sec = SectionOf(w[1] = SOS \/ scanning)
    \/ w = <<2>> /\ ~whole /\ sec = SectionOf(scanning)
    \/ w \in {<<0>>, <<208>>, <<TEM>>} /\ scanning /\ sec = "scan"

\* The same with a fill byte or without.
PrefixedAhead(w, sec, scanning, whole) ==
    \/ MarkerAhead(w, sec, scanning, whole)
    \/ w # <<>> /\ w[1] = Prefix /\ MarkerAhead(Tail(w), sec, scanning, whole)

\* In front of a marker, or of an entropy-coded byte.
PieceAhead(w, sec, scanning, whole) ==
    \/ w = <<>> /\ sec = SectionOf(scanning)
    \/ w # <<>> /\ w[1] = Prefix /\ PrefixedAhead(Tail(w), sec, scanning, whole)
    \/ /\ Len(w) = 1 /\ w[1] # Prefix
       /\ sec = SectionOf(scanning) /\ (whole => scanning)

\* Where a parser in a frame is.
Position ==
    /\ state \in {"Marker", "Entropy"} =>
           IF sawFF THEN PrefixedAhead(wire, section, Scanning, intact)
           ELSE PieceAhead(wire, section, Scanning, intact)
    /\ state \in {"LengthHigh", "LengthLow", "Segment"} =>
           section = SectionOf(marker = SOS \/ resumeEntropy)
    /\ state = "LengthHigh" => LengthAhead(wire, intact)
    /\ state = "LengthLow" =>
           /\ wire # <<>>
           /\ \/ segmentRemaining + wire[1] = Len(wire) + 1
              \/ ~intact /\ Len(wire) = 1 /\ segmentRemaining + wire[1] < 2
    /\ state = "Segment" => segmentRemaining = Len(wire)

\* A parser in a frame has the bytes of that frame and knows where it is.
InStep ==
    Synced /\ ~SoiPending => output = sent /\ Len(sent) >= 2 /\ Position

\* The first byte of a length leaves room for the second.
LengthFits == state = "LengthLow" => segmentRemaining <= 255 * 256

\* A new frame finds a parser that is in front of a marker or in entropy-coded
\* data, or looks for it.
SoiMet ==
    SoiPending =>
        /\ state \in {"LookingForSoi", "Marker", "Entropy"}
        /\ Synced => sawFF = (wire = <<SOI>>)
        /\ intact /\ wire = <<SOI>> => sawFF

\* Nothing else on the wire is taken for the beginning of a frame.
NoFalseSoi ==
    ~SoiPending =>
        /\ HidesNoSoi(wire)
        /\ ~Synced /\ sawFF =>
               IF wire = <<>> THEN section = "between" ELSE wire[1] # SOI
        /\ section # "between" /\ wire # <<>> => wire[Len(wire)] # Prefix

\* What the sensor has sent of a frame.
FrameSent ==
    ~SoiPending =>
        /\ Len(sent) # 1
        /\ sent = <<>> => section = "between" /\ Len(wire) <= 1

\* The parser is in a frame that arrived and can fit the buffer.
NotLost ==
    intact /\ ~SoiPending /\ sent # <<>> /\ Len(sent) <= Capacity /\ ~FrameEnded => Synced

Inv ==
    /\ TypeOK
    /\ LengthFits
    /\ InStep
    /\ SoiMet
    /\ NoFalseSoi
    /\ FrameSent
    /\ NotLost
    /\ FramesExact
    /\ NothingMissed
-----------------------------------------------------------------------------
(* Sequences of bytes.                                                      *)

(* The first byte and the rest. *)
LEMMA TailFacts ==
    ASSUME NEW s \in Seq(ByteValues), s # <<>>
    PROVE  /\ Head(s) = s[1] /\ s[1] \in ByteValues
           /\ Tail(s) \in Seq(ByteValues) /\ Len(Tail(s)) = Len(s) - 1 /\ Len(s) \in Nat \ {0}
           /\ \A i \in 1..Len(Tail(s)) : Tail(s)[i] = s[i + 1]
           /\ Tail(s) = <<>> <=> Len(s) = 1
           /\ Tail(s) # <<>> => Tail(s)[Len(Tail(s))] = s[Len(s)] /\ Tail(s)[1] = s[2]
           /\ Tail(s) = <<>> => s[1] = s[Len(s)]
           /\ HidesNoSoi(s) =>
                  /\ HidesNoSoi(Tail(s))
                  /\ Tail(s) # <<>> /\ s[1] = Prefix => Tail(s)[1] # SOI
<1>1. /\ Head(s) \in ByteValues /\ Head(s) = s[1]
      /\ Tail(s) \in Seq(ByteValues)
      /\ Len(s) \in Nat \ {0} /\ Len(Tail(s)) = Len(s) - 1
      /\ \A i \in 1..Len(Tail(s)) : Tail(s)[i] = s[i + 1]
  BY HeadTailProperties, EmptySeq
<1>2. Tail(s) = <<>> <=> Len(s) = 1
  BY <1>1, EmptySeq
<1>3. Tail(s) # <<>> => Tail(s)[Len(Tail(s))] = s[Len(s)] /\ Tail(s)[1] = s[2]
  <2> SUFFICES ASSUME Tail(s) # <<>>
               PROVE  Tail(s)[Len(Tail(s))] = s[Len(s)] /\ Tail(s)[1] = s[2]
    OBVIOUS
  <2>1. 1 \in 1..Len(Tail(s)) /\ Len(Tail(s)) \in 1..Len(Tail(s)) /\ Len(Tail(s)) + 1 = Len(s)
    BY <1>1, <1>2
  <2> QED
    BY <1>1, <2>1
<1>4. ASSUME HidesNoSoi(s)
      PROVE  /\ HidesNoSoi(Tail(s))
             /\ Tail(s) # <<>> /\ s[1] = Prefix => Tail(s)[1] # SOI
  <2>1. HidesNoSoi(Tail(s))
    <3> SUFFICES ASSUME NEW i \in 1..(Len(Tail(s)) - 1), Tail(s)[i] = Prefix
                 PROVE  Tail(s)[i + 1] # SOI
      BY DEF HidesNoSoi
    <3>1. i \in 1..Len(Tail(s)) /\ i + 1 \in 1..Len(Tail(s)) /\ i + 1 \in 1..(Len(s) - 1)
      BY <1>1
    <3> QED
      BY <1>1, <1>4, <3>1 DEF HidesNoSoi
  <2>2. ASSUME Tail(s) # <<>>, s[1] = Prefix
        PROVE  Tail(s)[1] # SOI
    <3>1. 1 \in 1..(Len(s) - 1)
      BY <1>1, <1>2, <2>2
    <3> QED
      BY <1>3, <1>4, <2>2, <3>1 DEF HidesNoSoi
  <2> QED
    BY <2>1, <2>2
<1> QED
  BY <1>1, <1>2, <1>3, <1>4

(* One byte in front of others. *)
LEMMA ConsFacts ==
    ASSUME NEW x \in ByteValues, NEW s \in Seq(ByteValues)
    PROVE  /\ <<x>> \o s \in Seq(ByteValues) /\ <<x>> \o s # <<>>
           /\ Len(<<x>> \o s) = Len(s) + 1
           /\ (<<x>> \o s)[1] = x /\ Tail(<<x>> \o s) = s
           /\ s # <<>> => (<<x>> \o s)[Len(<<x>> \o s)] = s[Len(s)]
           /\ HidesNoSoi(s) /\ (x = Prefix /\ s # <<>> => s[1] # SOI) => HidesNoSoi(<<x>> \o s)
<1> DEFINE c == <<x>> \o s
<1>1. <<x>> \in Seq(ByteValues) /\ Len(<<x>>) = 1 /\ <<x>>[1] = x /\ Len(s) \in Nat
  BY LenProperties
<1>2. /\ c \in Seq(ByteValues) /\ Len(c) = Len(s) + 1
      /\ \A i \in 1..(Len(s) + 1) : c[i] = IF i <= 1 THEN <<x>>[i] ELSE s[i - 1]
  BY <1>1, ConcatProperties
<1> HIDE DEF c
<1>3. c # <<>> /\ c[1] = x
  <2>1. 1 \in 1..(Len(s) + 1) /\ Len(c) # 0
    BY <1>1, <1>2
  <2> QED
    BY <1>1, <1>2, <2>1, EmptySeq
<1>4. \A i \in 1..Len(s) : c[i + 1] = s[i]
  <2> SUFFICES ASSUME NEW i \in 1..Len(s)
               PROVE  c[i + 1] = s[i]
    OBVIOUS
  <2>1. i + 1 \in 1..(Len(s) + 1) /\ ~(i + 1 <= 1) /\ (i + 1) - 1 = i
    BY <1>1
  <2> QED
    BY <1>2, <2>1
<1>5. /\ Tail(c) \in Seq(ByteValues) /\ Len(Tail(c)) = Len(s)
      /\ \A i \in 1..Len(s) : Tail(c)[i] = s[i]
  <2>1. /\ Tail(c) \in Seq(ByteValues) /\ Len(Tail(c)) = Len(c) - 1
        /\ \A i \in 1..Len(Tail(c)) : Tail(c)[i] = c[i + 1]
    BY <1>2, <1>3, TailFacts
  <2>2. Len(Tail(c)) = Len(s)
    BY <1>1, <1>2, <2>1
  <2> QED
    BY <1>4, <2>1, <2>2
<1>6. Tail(c) = s
  <2> PICK t \in Seq(ByteValues) : t = Tail(c)
    BY <1>5
  <2>1. Len(t) = Len(s) /\ \A i \in 1..Len(t) : t[i] = s[i]
    BY <1>5
  <2> QED
    BY <2>1, SeqEqual
<1>7. s # <<>> => c[Len(c)] = s[Len(s)]
  <2>1. s # <<>> => Len(s) \in 1..Len(s)
    BY <1>1, EmptySeq
  <2> QED
    BY <1>2, <1>4, <2>1
<1>8. ASSUME HidesNoSoi(s), x = Prefix /\ s # <<>> => s[1] # SOI
      PROVE  HidesNoSoi(c)
  <2> SUFFICES ASSUME NEW i \in 1..Len(s), c[i] = Prefix
               PROVE  c[i + 1] # SOI
    BY <1>1, <1>2 DEF HidesNoSoi
  <2>1. CASE i = 1
    <3>1. s # <<>>
      BY <1>1, EmptySeq
    <3> QED
      BY <1>3, <1>4, <1>8, <2>1, <3>1
  <2>2. CASE i # 1
    <3> DEFINE j == i - 1
    <3>1. j \in 1..Len(s) /\ j \in 1..(Len(s) - 1) /\ i = j + 1
      BY <1>1, <2>2
    <3> HIDE DEF j
    <3>2. c[i] = s[j] /\ c[i + 1] = s[j + 1]
      BY <1>4, <3>1
    <3> QED
      BY <1>8, <3>1, <3>2 DEF HidesNoSoi
  <2> QED
    BY <2>1, <2>2
<1> QED
  BY <1>2, <1>3, <1>6, <1>7, <1>8 DEF c
-----------------------------------------------------------------------------
(* The pieces the sensor sends.                                             *)

\* What can be sent in a frame without looking like the beginning of one.
Plain(s) ==
    s \in Seq(ByteValues) /\ s # <<>> /\ HidesNoSoi(s) /\ s[Len(s)] # Prefix

(* The two bytes of a length stand for it. *)
LEMMA LengthBytes ==
    ASSUME NEW n \in Nat, n <= MaxWord
    PROVE  /\ n \div 256 \in ByteValues /\ n % 256 \in ByteValues
           /\ 256 * (n \div 256) + (n % 256) = n
<1>1. n \div 256 \in 0..255
  BY DEF MaxWord
<1>2. n % 256 \in 0..255
  OBVIOUS
<1>3. 256 * (n \div 256) + (n % 256) = n
  OBVIOUS
<1> QED
  BY <1>1, <1>2, <1>3 DEF ByteValues

(* A length and its payload count themselves. *)
LEMMA LengthFacts ==
    ASSUME NEW p \in Payloads
    PROVE  /\ Plain(LengthOf(p) \o p)
           /\ Len(LengthOf(p) \o p) >= 2
           /\ 256 * (LengthOf(p) \o p)[1] + (LengthOf(p) \o p)[2] = Len(LengthOf(p) \o p)
<1>1. /\ p \in Seq(ByteValues) /\ 2 + Len(p) <= MaxWord
      /\ p # <<>> => p[Len(p)] # Prefix
      /\ HidesNoSoi(LengthOf(p) \o p)
  BY SensorAssumption
<1>2. Len(p) \in Nat
  BY <1>1, LenProperties
<1> PICK n \in Nat : n = 2 + Len(p)
  BY <1>2
<1>3. PICK h \in ByteValues, low \in ByteValues :
          h = n \div 256 /\ low = n % 256 /\ 256 * h + low = n
  BY <1>1, LengthBytes
<1>4. LengthOf(p) = <<h, low>>
  BY <1>3 DEF LengthOf
<1>5. PICK l \in Seq(ByteValues) : l = <<h, low>>
  <2>1. <<h, low>> \in Seq(ByteValues)
    BY h \in ByteValues, low \in ByteValues
  <2> QED
    BY <2>1
<1>6. Len(l) = 2 /\ l[1] = h /\ l[2] = low
  BY <1>5
<1>7. PICK w : w = l \o p
  OBVIOUS
<1>8. w = LengthOf(p) \o p
  BY <1>4, <1>5, <1>7
<1>9. /\ w \in Seq(ByteValues) /\ Len(w) = Len(l) + Len(p)
      /\ \A i \in 1..(Len(l) + Len(p)) : w[i] = IF i <= Len(l) THEN l[i] ELSE p[i - Len(l)]
  BY <1>1, <1>7, ConcatProperties
<1>10. /\ Len(w) = n
       /\ \A i \in 1..n : w[i] = IF i <= 2 THEN l[i] ELSE p[i - 2]
  BY <1>6, <1>9
<1>11. w[1] = h /\ w[2] = low
  <2>1. 1 \in 1..n /\ 2 \in 1..n
    BY <1>2
  <2> QED
    BY <1>6, <1>10, <2>1
<1>12. w # <<>> /\ Len(w) >= 2
  BY <1>2, <1>9, <1>10, EmptySeq
<1>13. w[Len(w)] # Prefix
  <2>1. CASE p = <<>>
    <3>1. n = 2
      BY <2>1
    <3>2. 256 * h + low = 2
      BY <1>3, <3>1
    <3>3. low # 255
      BY <3>2 DEF ByteValues
    <3> QED
      BY <1>10, <1>11, <3>1, <3>3 DEF Prefix
  <2>2. CASE p # <<>>
    <3>1. Len(p) \in Nat \ {0}
      BY <1>1, <2>2, EmptySeq
    <3>2. n \in 1..n /\ ~(n <= 2) /\ n - 2 = Len(p)
      BY <3>1
    <3>3. w[Len(w)] = p[Len(p)]
      BY <1>10, <3>2
    <3> QED
      BY <1>1, <2>2, <3>3
  <2> QED
    BY <2>1, <2>2
<1>14. Plain(w) /\ Len(w) >= 2 /\ 256 * w[1] + w[2] = Len(w)
  BY <1>1, <1>3, <1>8, <1>9, <1>10, <1>11, <1>12, <1>13 DEF Plain
<1> QED
  BY <1>8, <1>14

(* A segment behind its prefix. *)
LEMMA SegmentFacts ==
    ASSUME NEW m \in ByteValues, HasLength(m), NEW p \in Payloads
    PROVE  /\ Plain(SegmentOf(m, p)) /\ SegmentOf(m, p)[1] = m
           /\ Tail(SegmentOf(m, p)) = LengthOf(p) \o p
<1> PICK w \in Seq(ByteValues) : w = LengthOf(p) \o p
  BY LengthFacts DEF Plain
<1>1. Plain(w)
  BY LengthFacts
<1>2. m # Prefix
  BY DEF HasLength, Prefix
<1>3. /\ <<m>> \o w \in Seq(ByteValues) /\ <<m>> \o w # <<>>
      /\ (<<m>> \o w)[1] = m /\ Tail(<<m>> \o w) = w
      /\ (<<m>> \o w)[Len(<<m>> \o w)] = w[Len(w)]
      /\ HidesNoSoi(<<m>> \o w)
  BY <1>1, <1>2, ConsFacts DEF Plain
<1> QED
  BY <1>1, <1>3 DEF SegmentOf, Plain

(* One or two prefixes in front of something. *)
LEMMA MarkedFacts ==
    ASSUME NEW rest, Plain(rest), rest[1] # SOI, NEW piece \in Marked(rest)
    PROVE  /\ Plain(piece) /\ piece[1] = Prefix
           /\ \/ Tail(piece) = rest
              \/ /\ Tail(piece) # <<>> /\ Tail(piece)[1] = Prefix
                 /\ Tail(Tail(piece)) = rest
<1>1. Prefix \in ByteValues /\ Prefix # SOI
  BY DEF Prefix, SOI, ByteValues
<1>2. rest \in Seq(ByteValues) /\ rest # <<>>
  BY DEF Plain
<1> PICK once : once = <<Prefix>> \o rest
  OBVIOUS
<1>3. Plain(once) /\ once[1] = Prefix /\ Tail(once) = rest
  BY <1>1, <1>2, ConsFacts DEF Plain
<1>4. CASE piece = once
  BY <1>3, <1>4
<1>5. CASE piece = <<Prefix>> \o once
  <2>1. once \in Seq(ByteValues) /\ once # <<>>
    BY <1>3 DEF Plain
  <2>2. /\ <<Prefix>> \o once \in Seq(ByteValues) /\ <<Prefix>> \o once # <<>>
        /\ (<<Prefix>> \o once)[1] = Prefix /\ Tail(<<Prefix>> \o once) = once
        /\ (<<Prefix>> \o once)[Len(<<Prefix>> \o once)] = once[Len(once)]
        /\ HidesNoSoi(<<Prefix>> \o once)
    BY <1>1, <1>3, <2>1, ConsFacts DEF Plain
  <2> QED
    BY <1>3, <1>5, <2>1, <2>2 DEF Plain
<1>6. piece = once \/ piece = <<Prefix>> \o once
  BY DEF Marked
<1> QED
  BY <1>4, <1>5, <1>6

(* The markers that stand for a piece of their own. *)
LEMMA ShortPieces ==
    /\ Plain(<<EOI>>)
    /\ \A b \in ByteValues \ {Prefix} : Plain(<<b>>)
    /\ \A b \in ByteValues \ {Prefix, SOI} : Plain(<<Prefix, b>>)
    /\ \A m \in ByteValues \ {Prefix, SOI}, n \in 0..1 : Plain(<<Prefix, m, 0, n>>)
<1>1. ASSUME NEW b \in ByteValues \ {Prefix}
      PROVE  Plain(<<b>>)
  <2>1. <<b>> \in Seq(ByteValues) /\ <<b>> # <<>> /\ Len(<<b>>) = 1 /\ <<b>>[1] = b
    OBVIOUS
  <2> QED
    BY <2>1 DEF Plain, HidesNoSoi
<1>2. ASSUME NEW b \in ByteValues \ {Prefix, SOI}
      PROVE  Plain(<<Prefix, b>>)
  <2>1. Prefix \in ByteValues
    BY DEF Prefix, ByteValues
  <2>2. <<Prefix, b>> \in Seq(ByteValues)
    BY <2>1
  <2>3. /\ <<Prefix, b>> # <<>> /\ Len(<<Prefix, b>>) = 2
        /\ <<Prefix, b>>[1] = Prefix /\ <<Prefix, b>>[2] = b
    OBVIOUS
  <2>4. HidesNoSoi(<<Prefix, b>>)
    <3> SUFFICES ASSUME NEW i \in 1..1
                 PROVE  <<Prefix, b>>[i + 1] # SOI
      BY <2>3 DEF HidesNoSoi
    <3>1. i = 1
      OBVIOUS
    <3> QED
      BY <2>3, <3>1
  <2> QED
    BY <2>2, <2>3, <2>4 DEF Plain
<1>3. ASSUME NEW m \in ByteValues \ {Prefix, SOI}, NEW n \in 0..1
      PROVE  Plain(<<Prefix, m, 0, n>>)
  <2>1. Prefix \in ByteValues /\ 0 \in ByteValues /\ n \in ByteValues /\ n # Prefix
    BY DEF Prefix, ByteValues
  <2> PICK s : s = <<Prefix, m, 0, n>>
    OBVIOUS
  <2>2. s \in Seq(ByteValues)
    BY <2>1
  <2>3. s # <<>> /\ Len(s) = 4 /\ s[1] = Prefix /\ s[2] = m /\ s[3] = 0 /\ s[4] = n
    OBVIOUS
  <2>4. HidesNoSoi(s)
    <3> SUFFICES ASSUME NEW i \in 1..3, s[i] = Prefix
                 PROVE  s[i + 1] # SOI
      BY <2>3 DEF HidesNoSoi
    <3>1. i = 1 \/ i = 2 \/ i = 3
      OBVIOUS
    <3>2. i = 1
      BY <2>3, <3>1 DEF Prefix
    <3> QED
      BY <2>3, <3>2
  <2> QED
    BY <2>1, <2>2, <2>3, <2>4 DEF Plain
<1>4. EOI \in ByteValues \ {Prefix}
  BY DEF EOI, Prefix, ByteValues
<1> QED
  BY <1>1, <1>2, <1>3, <1>4

(* What may follow a prefix. *)
LEMMA MarkerValues ==
    /\ Prefix \in ByteValues /\ SOI \in ByteValues /\ EOI \in ByteValues /\ SOS \in ByteValues
    /\ TEM \in ByteValues
    /\ HasLength(SOS) /\ SOS # SOI /\ EOI # SOI /\ Prefix # SOI
    /\ ~HasLength(SOI) /\ ~HasLength(Prefix) /\ ~HasLength(EOI)
    /\ \A m \in SegmentKinds : m \in ByteValues /\ HasLength(m) /\ m # SOS /\ m # SOI /\ m # Prefix
<1>1. \A m \in SegmentKinds : m \in ByteValues /\ HasLength(m) /\ m # SOS
  BY SensorAssumption
<1>2. ~HasLength(SOI) /\ ~HasLength(Prefix) /\ ~HasLength(EOI)
  BY DEF HasLength, SOI, Prefix, EOI
<1>3. \A m \in SegmentKinds : m # SOI /\ m # Prefix
  BY <1>1, <1>2
<1> QED
  BY <1>1, <1>2, <1>3 DEF HasLength, SOI, Prefix, EOI, SOS, TEM, ByteValues

(* The pieces of a frame. *)
LEMMA FramePieces ==
    /\ \A m \in SegmentKinds \cup {SOS}, p \in Payloads :
           \A piece \in Marked(SegmentOf(m, p)) : Plain(piece)
    /\ \A piece \in Marked(<<EOI>>) : Plain(piece)
    /\ \A b \in Entropy : Plain(<<b>>)
    /\ \A b \in {0, 208, TEM} : Plain(<<Prefix, b>>)
    /\ \A piece \in Malformed \ Overlong : Plain(piece)
<1>1. ASSUME NEW m \in SegmentKinds \cup {SOS}, NEW p \in Payloads,
             NEW piece \in Marked(SegmentOf(m, p))
      PROVE  Plain(piece)
  <2>1. m \in ByteValues /\ HasLength(m) /\ m # SOI
    BY MarkerValues
  <2> PICK rest : rest = SegmentOf(m, p)
    OBVIOUS
  <2>2. Plain(rest) /\ rest[1] # SOI /\ piece \in Marked(rest)
    BY <2>1, SegmentFacts
  <2> QED
    BY <2>2, MarkedFacts
<1>2. ASSUME NEW piece \in Marked(<<EOI>>)
      PROVE  Plain(piece)
  <2> PICK rest : rest = <<EOI>>
    OBVIOUS
  <2>1. Plain(rest) /\ rest[1] # SOI /\ piece \in Marked(rest)
    BY ShortPieces, MarkerValues
  <2> QED
    BY <2>1, MarkedFacts
<1>3. \A b \in Entropy : b \in ByteValues \ {Prefix}
  BY SensorAssumption
<1>4. \A b \in {0, 208, TEM} : b \in ByteValues \ {Prefix, SOI}
  BY DEF TEM, ByteValues, Prefix, SOI
<1>5. ASSUME NEW piece \in Malformed \ Overlong
      PROVE  Plain(piece)
  <2>1. 0 \in ByteValues \ {Prefix} /\ 2 \in ByteValues \ {Prefix, SOI}
    BY DEF ByteValues, Prefix, SOI
  <2>2. \A m \in SegmentKinds : m \in ByteValues \ {Prefix, SOI}
    BY MarkerValues
  <2>3. \/ \E m \in SegmentKinds, n \in 0..1 : piece = <<Prefix, m, 0, n>>
        \/ piece = <<Prefix, 2>>
        \/ piece = <<0>>
    BY DEF Malformed
  <2> QED
    BY <2>1, <2>2, <2>3, ShortPieces
<1> QED
  BY <1>1, <1>2, <1>3, <1>4, <1>5, ShortPieces

(* A segment that announces too much is bytes like any other. *)
LEMMA OverlongTypes ==
    ASSUME NEW piece \in Overlong
    PROVE  piece \in Seq(ByteValues)
<1> PICK m \in SegmentKinds, k \in Missing :
        piece = <<Prefix, m, (2 + k) \div 256, (2 + k) % 256>>
  BY DEF Overlong
<1>1. m \in ByteValues /\ Prefix \in ByteValues
  BY MarkerValues
<1>2. k \in Nat /\ 2 + k <= MaxWord
  <2>1. k \in 1..(MaxWord - 2)
    BY MissingAssumption
  <2> QED
    BY <2>1 DEF MaxWord
<1> PICK n \in Nat : n = 2 + k /\ n <= MaxWord
  BY <1>2
<1>3. n \div 256 \in ByteValues /\ n % 256 \in ByteValues
  BY LengthBytes
<1> QED
  BY <1>1, <1>3
-----------------------------------------------------------------------------
(* Types                                                                    *)

TypeInv == TypeOK /\ LengthFits

(* Whatever bytes the sensor sends, the variables keep their types. *)
LEMMA SendTypes ==
    ASSUME TypeInv, NEW piece \in Seq(ByteValues), NEW next \in Sections, Send(piece, next),
           sent' \in Seq(ByteValues), intact' \in BOOLEAN
    PROVE  TypeInv'
<1>1. /\ state' = state /\ output' = output /\ segmentRemaining' = segmentRemaining
      /\ marker' = marker /\ sawFF' = sawFF /\ resumeEntropy' = resumeEntropy
  BY DEF Send, parserVars, segmentVars
<1>2. image' = <<>> /\ wire' = piece /\ section' = next
  BY DEF Send
<1>3. <<>> \in Seq(ByteValues)
  OBVIOUS
<1> QED
  BY <1>1, <1>2, <1>3 DEF TypeInv, TypeOK, LengthFits

(* The byte on the wire, and what is left behind it. *)
LEMMA PassTypes ==
    ASSUME TypeInv, NEW seen \in BOOLEAN, Pass(seen)
    PROVE  /\ Byte \in ByteValues /\ Byte = wire[1] /\ wire' \in Seq(ByteValues)
           /\ Len(wire') = Len(wire) - 1 /\ Len(wire) \in Nat \ {0}
           /\ sent' \in Seq(ByteValues) /\ intact' \in BOOLEAN /\ section' = section
<1>1. wire \in Seq(ByteValues) /\ wire # <<>> /\ wire' = Tail(wire)
  BY DEF TypeInv, TypeOK, Pass
<1>2. /\ Head(wire) = wire[1] /\ wire[1] \in ByteValues
      /\ Tail(wire) \in Seq(ByteValues) /\ Len(Tail(wire)) = Len(wire) - 1
      /\ Len(wire) \in Nat \ {0}
  BY <1>1, TailFacts
<1>3. Byte \in ByteValues /\ Byte = wire[1]
  BY <1>2 DEF Byte
<1>4. sent' \in Seq(ByteValues)
  <2>1. sent' = <<>> \/ sent' = Append(sent, Byte)
    BY DEF Pass
  <2>2. sent \in Seq(ByteValues)
    BY DEF TypeInv, TypeOK
  <2>3. Append(sent, Byte) \in Seq(ByteValues) /\ <<>> \in Seq(ByteValues)
    BY <1>3, <2>2, AppendProperties
  <2> QED
    BY <2>1, <2>3
<1>5. intact' \in BOOLEAN
  BY DEF TypeInv, TypeOK, Pass
<1> QED
  BY <1>1, <1>2, <1>3, <1>4, <1>5 DEF Pass

(* A reset parser. *)
LEMMA ResetTypes ==
    ASSUME TypeInv, NEW seen \in BOOLEAN, Pass(seen), ResetState, image' \in Seq(ByteValues)
    PROVE  TypeInv'
<1>1. /\ wire' \in Seq(ByteValues) /\ sent' \in Seq(ByteValues)
      /\ intact' \in BOOLEAN /\ section' = section
  BY PassTypes
<1>2. <<>> \in Seq(ByteValues) /\ Len(<<>>) <= Capacity /\ 0 \in ByteValues /\ 0 \in 0..MaxWord
  BY CapacityAssumption DEF ByteValues, MaxWord
<1> QED
  BY <1>1, <1>2 DEF TypeInv, TypeOK, LengthFits, ResetState, States

(* A byte that is copied to the output. *)
LEMMA ContinueTypes ==
    ASSUME TypeInv, NEW seen \in BOOLEAN, Pass(seen), Room,
           NEW next \in States, NEW prefixed \in BOOLEAN, Continue(next, prefixed),
           segmentRemaining' \in 0..MaxWord, marker' \in ByteValues, resumeEntropy' \in BOOLEAN,
           next = "Segment" => segmentRemaining' > 0,
           next = "LengthLow" => segmentRemaining' <= 255 * 256
    PROVE  TypeInv'
<1>1. /\ wire' \in Seq(ByteValues) /\ sent' \in Seq(ByteValues) /\ Byte \in ByteValues
      /\ intact' \in BOOLEAN /\ section' = section
  BY PassTypes
<1>2. state' = next /\ output' = Append(output, Byte) /\ sawFF' = prefixed /\ image' = <<>>
  BY DEF Continue
<1>3. output' \in Seq(ByteValues) /\ Len(output') <= Capacity
  <2>1. output \in Seq(ByteValues)
    BY DEF TypeInv, TypeOK
  <2>2. /\ Append(output, Byte) \in Seq(ByteValues)
        /\ Len(Append(output, Byte)) = Len(output) + 1
    BY <1>1, <2>1, AppendProperties
  <2>3. Len(output) \in Nat /\ Len(output) < Capacity
    BY <2>1, LenProperties DEF Room
  <2> QED
    BY <1>2, <2>2, <2>3, CapacityAssumption
<1>4. <<>> \in Seq(ByteValues)
  OBVIOUS
<1> QED
  BY <1>1, <1>2, <1>3, <1>4 DEF TypeInv, TypeOK, LengthFits

(* The output begins again. *)
LEMMA StartTypes ==
    ASSUME TypeInv, NEW seen \in BOOLEAN, Pass(seen), StartFrame
    PROVE  TypeInv'
<1>1. /\ wire' \in Seq(ByteValues) /\ sent' \in Seq(ByteValues)
      /\ intact' \in BOOLEAN /\ section' = section
  BY PassTypes
<1>2. /\ state' = "Marker" /\ output' = <<Prefix, SOI>> /\ sawFF' = FALSE /\ image' = <<>>
      /\ segmentRemaining' = segmentRemaining /\ marker' = marker
      /\ resumeEntropy' = resumeEntropy
  BY DEF StartFrame, segmentVars
<1>3. /\ <<Prefix, SOI>> \in Seq(ByteValues) /\ Len(<<Prefix, SOI>>) <= Capacity
      /\ <<>> \in Seq(ByteValues)
  BY MarkerValues, CapacityAssumption
<1> QED
  BY <1>1, <1>2, <1>3 DEF TypeInv, TypeOK, LengthFits, States

(* The byte after a prefix. *)
LEMMA AfterPrefixTypes ==
    ASSUME TypeInv, Pass(TRUE), Room, state \in {"Marker", "Entropy"},
           NEW standalone, NEW inEntropy \in BOOLEAN, AfterPrefix(standalone, inEntropy)
    PROVE  TypeInv'
<1>1. /\ Byte \in ByteValues
      /\ segmentRemaining \in 0..MaxWord /\ marker \in ByteValues /\ resumeEntropy \in BOOLEAN
      /\ output \in Seq(ByteValues)
      /\ state \in States /\ state # "Segment" /\ state # "LengthLow" /\ "LengthHigh" \in States
  BY PassTypes DEF TypeInv, TypeOK, States
<1>2. \A prefixed \in BOOLEAN :
          Continue(state, prefixed) /\ UNCHANGED <<segmentVars, resumeEntropy>> => TypeInv'
  BY <1>1, ContinueTypes DEF segmentVars
<1>3. CASE Byte = EOI /\ FinishFrame
  <2>1. image' \in Seq(ByteValues) /\ ResetState
    BY <1>1, <1>3, AppendProperties DEF FinishFrame
  <2> QED
    BY <2>1, ResetTypes
<1>4. CASE Byte = SOI /\ StartFrame
  BY <1>4, StartTypes
<1>5. CASE /\ HasLength(Byte) /\ Continue("LengthHigh", FALSE)
           /\ marker' = Byte /\ resumeEntropy' = inEntropy /\ UNCHANGED segmentRemaining
  BY <1>1, <1>5, ContinueTypes
<1>6. CASE Fail
  <2>1. image' \in Seq(ByteValues) /\ ResetState
    BY <1>6 DEF Fail
  <2> QED
    BY <2>1, ResetTypes
<1> QED
  BY <1>2, <1>3, <1>4, <1>5, <1>6 DEF AfterPrefix

(* The end of a segment, or of its length. *)
LEMMA AfterSegmentTypes ==
    ASSUME TypeInv, Pass(TRUE), Room, UNCHANGED marker, segmentRemaining' \in 0..MaxWord,
           IF segmentRemaining' = 0 THEN AfterSegment
           ELSE Continue("Segment", sawFF) /\ UNCHANGED resumeEntropy
    PROVE  TypeInv'
<1>1. marker' \in ByteValues /\ sawFF \in BOOLEAN /\ resumeEntropy \in BOOLEAN
  BY DEF TypeInv, TypeOK
<1>2. "Segment" \in States /\ "Entropy" \in States /\ "Marker" \in States
  BY DEF States
<1>3. CASE segmentRemaining' = 0
  <2> PICK next \in {"Entropy", "Marker"} : Continue(next, FALSE)
    BY <1>3 DEF AfterSegment
  <2>1. resumeEntropy' = FALSE
    BY <1>3 DEF AfterSegment
  <2> QED
    BY <1>1, <1>2, <2>1, ContinueTypes
<1>4. CASE segmentRemaining' # 0
  <2>1. segmentRemaining' > 0
    BY <1>4
  <2>2. Continue("Segment", sawFF) /\ resumeEntropy' = resumeEntropy
    BY <1>4
  <2> QED
    BY <1>1, <1>2, <2>1, <2>2, ContinueTypes
<1> QED
  BY <1>3, <1>4

(* Two bytes make a word. *)
LEMMA WordFacts == MaxWord \in Nat /\ 255 * 256 + 255 <= MaxWord
BY DEF MaxWord

(* Every step keeps the types. *)
LEMMA TypeStep ==
    ASSUME TypeInv, [Next]_vars
    PROVE  TypeInv'
<1>1. /\ sent \in Seq(ByteValues) /\ intact \in BOOLEAN /\ section \in Sections
      /\ <<>> \in Seq(ByteValues)
      /\ "between" \in Sections /\ "header" \in Sections /\ "scan" \in Sections
  BY DEF TypeInv, TypeOK, Sections
<1>2. \A b \in ByteValues : <<b>> \in Seq(ByteValues)
  OBVIOUS
<1>3. CASE SendSoi
  <2>1. <<Prefix, SOI>> \in Seq(ByteValues)
    BY MarkerValues
  <2>2. sent' \in Seq(ByteValues) /\ intact' \in BOOLEAN /\ Send(<<Prefix, SOI>>, "header")
    BY <1>1, <1>3 DEF SendSoi
  <2> QED
    BY <1>1, <2>1, <2>2, SendTypes
<1>4. CASE SendPadding
  <2> PICK b \in Padding : Send(<<b>>, "between")
    BY <1>4 DEF SendPadding
  <2>1. b \in ByteValues
    BY SensorAssumption
  <2>2. sent' \in Seq(ByteValues) /\ intact' \in BOOLEAN
    BY <1>1, <1>4 DEF SendPadding
  <2> QED
    BY <1>1, <1>2, <2>1, <2>2, SendTypes
<1>5. ASSUME NEW piece, NEW next \in Sections, Send(piece, next), Plain(piece),
             UNCHANGED sent, intact' \in BOOLEAN
      PROVE  TypeInv'
  BY <1>1, <1>5, SendTypes DEF Plain
<1>6. CASE SendSegment
  <2> PICK m \in SegmentKinds, p \in Payloads : \E piece \in Marked(SegmentOf(m, p)) :
          Send(piece, section)
    BY <1>6 DEF SendSegment, SendPiece
  <2> PICK piece \in Marked(SegmentOf(m, p)) : Send(piece, section)
    OBVIOUS
  <2>1. UNCHANGED <<sent, intact>>
    BY <1>6 DEF SendSegment, SendPiece
  <2> QED
    BY <1>1, <1>5, <2>1, FramePieces
<1>7. CASE SendScan
  <2> PICK p \in Payloads : \E piece \in Marked(SegmentOf(SOS, p)) : Send(piece, "scan")
    BY <1>7 DEF SendScan, SendPiece
  <2> PICK piece \in Marked(SegmentOf(SOS, p)) : Send(piece, "scan")
    OBVIOUS
  <2>1. UNCHANGED <<sent, intact>>
    BY <1>7 DEF SendScan, SendPiece
  <2> QED
    BY <1>1, <1>5, <2>1, FramePieces
<1>8. CASE SendEntropy
  <2> PICK piece \in {<<b>> : b \in Entropy} \cup {<<Prefix, b>> : b \in {0, 208, TEM}} :
          Send(piece, "scan")
    BY <1>8 DEF SendEntropy, SendPiece
  <2>1. UNCHANGED <<sent, intact>>
    BY <1>8 DEF SendEntropy, SendPiece
  <2>2. Plain(piece)
    BY FramePieces
  <2> QED
    BY <1>1, <1>5, <2>1, <2>2
<1>9. CASE SendEoi
  <2> PICK piece \in Marked(<<EOI>>) : Send(piece, "between")
    BY <1>9 DEF SendEoi
  <2>1. UNCHANGED <<sent, intact>>
    BY <1>9 DEF SendEoi
  <2> QED
    BY <1>1, <1>5, <2>1, FramePieces
<1>10. CASE SendMalformed
  <2> PICK piece \in Malformed : Send(piece, section)
    BY <1>10 DEF SendMalformed
  <2>1. UNCHANGED sent /\ intact' \in BOOLEAN
    BY <1>10 DEF SendMalformed
  <2>2. CASE piece \in Overlong
    BY <1>1, <2>1, <2>2, OverlongTypes, SendTypes
  <2> QED
    BY <1>1, <1>5, <2>1, <2>2, FramePieces
<1>11. ASSUME NEW seen \in BOOLEAN, Pass(seen), ResetState, image' = <<>>
       PROVE  TypeInv'
  BY <1>1, <1>11, ResetTypes
<1>12. CASE LookingForSoi
  <2>1. Pass(TRUE) /\ TRUE \in BOOLEAN
    BY <1>12 DEF LookingForSoi
  <2>2. CASE StartFrame
    BY <2>1, <2>2, StartTypes
  <2>3. CASE /\ sawFF' = (Byte = Prefix) /\ image' = <<>>
             /\ UNCHANGED <<state, output, segmentVars, resumeEntropy>>
    <3>1. /\ wire' \in Seq(ByteValues) /\ sent' \in Seq(ByteValues)
          /\ intact' \in BOOLEAN /\ section' = section
      BY <2>1, PassTypes
    <3>2. sawFF' \in BOOLEAN
      BY <2>3
    <3>3. /\ state' = state /\ output' = output /\ segmentRemaining' = segmentRemaining
          /\ marker' = marker /\ resumeEntropy' = resumeEntropy /\ image' = <<>>
      BY <2>3 DEF segmentVars
    <3> QED
      BY <1>1, <3>1, <3>2, <3>3 DEF TypeInv, TypeOK, LengthFits
  <2> QED
    BY <1>12, <2>2, <2>3 DEF LookingForSoi
<1>13. CASE InMarker
  <2>1. Pass(TRUE) /\ Room /\ state = "Marker" /\ TRUE \in BOOLEAN /\ FALSE \in BOOLEAN
    BY <1>13 DEF InMarker
  <2>2. CASE AfterPrefix({TEM}, FALSE)
    BY <2>1, <2>2, AfterPrefixTypes
  <2>3. CASE Continue("Marker", TRUE) /\ UNCHANGED <<segmentVars, resumeEntropy>>
    <3>1. /\ segmentRemaining' \in 0..MaxWord /\ marker' \in ByteValues
          /\ resumeEntropy' \in BOOLEAN
      BY <2>3 DEF segmentVars, TypeInv, TypeOK
    <3>2. "Marker" \in States
      BY DEF States
    <3> QED
      BY <2>1, <2>3, <3>1, <3>2, ContinueTypes
  <2>4. CASE Fail
    BY <1>11, <2>1, <2>4 DEF Fail
  <2> QED
    BY <1>13, <2>2, <2>3, <2>4 DEF InMarker
<1>14. CASE InEntropy
  <2>1. Pass(TRUE) /\ Room /\ state = "Entropy" /\ TRUE \in BOOLEAN /\ FALSE \in BOOLEAN
    BY <1>14 DEF InEntropy
  <2>2. CASE AfterPrefix({0, TEM} \cup Restarts, TRUE)
    BY <2>1, <2>2, AfterPrefixTypes
  <2>3. CASE Continue("Entropy", Byte = Prefix) /\ UNCHANGED <<segmentVars, resumeEntropy>>
    <3>1. /\ segmentRemaining' \in 0..MaxWord /\ marker' \in ByteValues
          /\ resumeEntropy' \in BOOLEAN
      BY <2>3 DEF segmentVars, TypeInv, TypeOK
    <3>2. "Entropy" \in States /\ (Byte = Prefix) \in BOOLEAN
      BY DEF States
    <3> QED
      BY <2>1, <2>3, <3>1, <3>2, ContinueTypes
  <2> QED
    BY <1>14, <2>2, <2>3 DEF InEntropy
<1>15. CASE LengthHigh
  <2>1. /\ Pass(TRUE) /\ Room /\ Continue("LengthLow", sawFF)
        /\ segmentRemaining' = Byte * 256 /\ UNCHANGED <<marker, resumeEntropy>>
    BY <1>15 DEF LengthHigh
  <2>2. Byte \in ByteValues
    BY <2>1, PassTypes
  <2>3. segmentRemaining' \in 0..MaxWord /\ segmentRemaining' <= 255 * 256
    <3>1. Byte \in Int /\ 0 <= Byte /\ Byte <= 255
      BY <2>2 DEF ByteValues
    <3> QED
      BY <2>1, <3>1, WordFacts
  <2>4. marker' \in ByteValues /\ resumeEntropy' \in BOOLEAN /\ sawFF \in BOOLEAN
    BY <2>1 DEF TypeInv, TypeOK
  <2>5. "LengthLow" \in States
    BY DEF States
  <2> QED
    BY <2>1, <2>3, <2>4, <2>5, ContinueTypes
<1>16. CASE LengthLow
  <2>1. Pass(TRUE) /\ Room /\ state = "LengthLow"
    BY <1>16 DEF LengthLow
  <2>2. Byte \in ByteValues
    BY <2>1, PassTypes
  <2>3. CASE segmentRemaining + Byte < 2
    BY <1>11, <1>16, <2>1, <2>3 DEF LengthLow, Fail
  <2>4. CASE ~(segmentRemaining + Byte < 2)
    <3>1. Byte \in Int /\ 0 <= Byte /\ Byte <= 255
      BY <2>2 DEF ByteValues
    <3>2. segmentRemaining \in Int /\ 0 <= segmentRemaining /\ segmentRemaining <= 255 * 256
      BY <2>1 DEF TypeInv, TypeOK, LengthFits
    <3> PICK length \in Int : length = segmentRemaining + Byte
      BY <3>1, <3>2
    <3>3. /\ segmentRemaining' = length - 2 /\ UNCHANGED marker
          /\ IF length = 2 THEN AfterSegment
             ELSE Continue("Segment", sawFF) /\ UNCHANGED resumeEntropy
      BY <1>16, <2>4 DEF LengthLow
    <3>4. segmentRemaining' \in 0..MaxWord
      BY <2>4, <3>1, <3>2, <3>3, WordFacts
    <3>5. length = 2 <=> segmentRemaining' = 0
      BY <3>3
    <3> QED
      BY <2>1, <3>3, <3>4, <3>5, AfterSegmentTypes
  <2> QED
    BY <2>3, <2>4
<1>17. CASE InSegment
  <2>1. /\ Pass(TRUE) /\ Room /\ state = "Segment" /\ UNCHANGED marker
        /\ segmentRemaining' = segmentRemaining - 1
        /\ IF segmentRemaining' = 0 THEN AfterSegment
           ELSE Continue("Segment", sawFF) /\ UNCHANGED resumeEntropy
    BY <1>17 DEF InSegment
  <2>2. segmentRemaining \in 0..MaxWord /\ segmentRemaining > 0
    BY <2>1 DEF TypeInv, TypeOK
  <2>3. segmentRemaining' \in 0..MaxWord
    BY <2>1, <2>2, WordFacts
  <2> QED
    BY <2>1, <2>3, AfterSegmentTypes
<1>18. CASE OutputBufferFull
  <2>1. Pass(output = sent) /\ ResetState /\ image' = <<>> /\ (output = sent) \in BOOLEAN
    BY <1>18 DEF OutputBufferFull
  <2> QED
    BY <1>11, <2>1
<1>19. CASE Lose
  <2>1. Pass(FALSE) /\ ResetState /\ image' = <<>> /\ FALSE \in BOOLEAN
    BY <1>19 DEF Lose
  <2> QED
    BY <1>11, <2>1
<1>20. CASE UNCHANGED vars
  BY <1>20 DEF vars, parserVars, segmentVars, sensorVars, TypeInv, TypeOK, LengthFits
<1> QED
  BY <1>3, <1>4, <1>6, <1>7, <1>8, <1>9, <1>10, <1>12, <1>13, <1>14, <1>15, <1>16, <1>17,
     <1>18, <1>19, <1>20 DEF Next
-----------------------------------------------------------------------------
(* What is ahead of the parser when the sensor sends a piece.               *)

(* Nothing on the wire is the beginning of a marker. *)
LEMMA NothingAhead ==
    ASSUME NEW sec, NEW scanning, NEW whole
    PROVE  /\ ~PrefixedAhead(<<>>, sec, scanning, whole)
           /\ PieceAhead(<<>>, sec, scanning, whole) => sec = SectionOf(scanning)
<1>1. Len(<<>>) = 0 /\ <<>> # <<EOI>> /\ <<>> # <<2>> /\ <<>> \notin {<<0>>, <<208>>, <<TEM>>}
  OBVIOUS
<1> QED
  BY <1>1 DEF PrefixedAhead, MarkerAhead, PieceAhead

(* A parser in a frame whose wire is empty is in front of the next piece. *)
LEMMA AtBoundary ==
    ASSUME Inv, wire = <<>>
    PROVE  /\ ~SoiPending
           /\ Synced => /\ state \in {"Marker", "Entropy"} /\ sawFF = FALSE
                        /\ section = SectionOf(Scanning) /\ section # "between"
                        /\ output = sent /\ Len(sent) >= 2
           /\ ~Synced /\ section # "between" => sawFF = FALSE
           /\ section # "between" => sent # <<>>
<1>1. ~SoiPending
  BY DEF SoiPending
<1>2. ASSUME Synced
      PROVE  /\ state \in {"Marker", "Entropy"} /\ sawFF = FALSE
             /\ section = SectionOf(Scanning) /\ section # "between"
             /\ output = sent /\ Len(sent) >= 2
  <2>1. output = sent /\ Len(sent) >= 2 /\ Position
    BY <1>1, <1>2 DEF Inv, InStep
  <2>2. Len(wire) = 0 /\ (state = "Segment" => segmentRemaining > 0) /\ state \in States
    BY DEF Inv, TypeOK
  <2>3. state # "LengthHigh"
    BY <2>1, <2>2 DEF Position, LengthAhead
  <2>4. state # "LengthLow"
    BY <2>1 DEF Position
  <2>5. state # "Segment"
    BY <2>1, <2>2 DEF Position
  <2>6. state \in {"Marker", "Entropy"}
    BY <1>2, <2>2, <2>3, <2>4, <2>5 DEF States, Synced
  <2>7. sawFF \in BOOLEAN
    BY DEF Inv, TypeOK
  <2>8. ~sawFF
    BY <2>1, <2>6, NothingAhead DEF Position
  <2>9. section = SectionOf(Scanning)
    BY <2>1, <2>6, <2>8, NothingAhead DEF Position
  <2> QED
    BY <2>1, <2>6, <2>7, <2>8, <2>9 DEF SectionOf
<1>3. ASSUME ~Synced, section # "between"
      PROVE  sawFF = FALSE
  BY <1>1, <1>3 DEF Inv, NoFalseSoi, TypeOK
<1>4. section # "between" => sent # <<>>
  BY <1>1 DEF Inv, FrameSent
<1> QED
  BY <1>1, <1>2, <1>3, <1>4

(* A piece of a frame finds the parser in front of it. *)
LEMMA SendKeeps ==
    ASSUME Inv, TypeInv', NEW piece, NEW next, Send(piece, next), Plain(piece),
           section # "between", UNCHANGED sent, intact' => intact,
           Synced /\ section = SectionOf(Scanning) => PieceAhead(piece, next, Scanning, intact')
    PROVE  Inv'
<1>1. /\ wire = <<>> /\ wire' = piece /\ section' = next /\ image' = <<>>
      /\ state' = state /\ output' = output /\ sawFF' = sawFF /\ sent' = sent
  BY DEF Send, parserVars
<1>2. /\ Synced => /\ state \in {"Marker", "Entropy"} /\ sawFF = FALSE
                   /\ section = SectionOf(Scanning)
                   /\ output = sent /\ Len(sent) >= 2
      /\ ~Synced => sawFF = FALSE
      /\ sent # <<>> /\ ~SoiPending
  BY <1>1, AtBoundary
<1>3. piece # <<>> /\ HidesNoSoi(piece) /\ piece[Len(piece)] # Prefix
  BY DEF Plain
<1>4. Len(sent) # 1 /\ sent # <<>>
  BY <1>2 DEF Inv, FrameSent
<1>5. ~SoiPending'
  <2>1. sent' # <<>> /\ sent' # <<Prefix>>
    BY <1>1, <1>4
  <2> QED
    BY <2>1 DEF SoiPending
<1>6. InStep'
  <2>1. Synced => state' \in {"Marker", "Entropy"} /\ ~sawFF'
                  /\ PieceAhead(wire', section', Scanning', intact')
    BY <1>1, <1>2 DEF Scanning
  <2>2. Synced => Position'
    BY <2>1 DEF Position
  <2> QED
    BY <1>1, <1>2, <2>2 DEF InStep, Synced
<1>7. SoiMet'
  BY <1>5 DEF SoiMet
<1>8. NoFalseSoi'
  BY <1>1, <1>2, <1>3 DEF NoFalseSoi, Synced
<1>9. FrameSent'
  BY <1>1, <1>4 DEF FrameSent
<1>10. NotLost'
  BY <1>1, <1>2 DEF NotLost, Synced, Inv, FrameEnded
<1>11. FramesExact' /\ NothingMissed'
  BY <1>1, <1>3 DEF FramesExact, NothingMissed, FrameEnded
<1> QED
  BY <1>6, <1>7, <1>8, <1>9, <1>10, <1>11 DEF Inv, TypeInv

(* A marker with its prefix, behind a fill byte or not. *)
LEMMA MarkedAhead ==
    ASSUME NEW rest, Plain(rest), rest[1] # SOI, NEW piece \in Marked(rest),
           NEW sec, NEW scanning, NEW whole, MarkerAhead(rest, sec, scanning, whole)
    PROVE  PieceAhead(piece, sec, scanning, whole)
<1>1. piece # <<>> /\ piece[1] = Prefix
  BY MarkedFacts DEF Plain
<1>2. \/ Tail(piece) = rest
      \/ Tail(piece) # <<>> /\ Tail(piece)[1] = Prefix /\ Tail(Tail(piece)) = rest
  BY MarkedFacts
<1>3. PrefixedAhead(Tail(piece), sec, scanning, whole)
  BY <1>2 DEF PrefixedAhead
<1> QED
  BY <1>1, <1>3 DEF PieceAhead

(* A segment in front of a parser. *)
LEMMA SegmentAhead ==
    ASSUME NEW m \in SegmentKinds \cup {SOS}, NEW p \in Payloads,
           NEW piece \in Marked(SegmentOf(m, p)),
           NEW scanning, NEW whole
    PROVE  PieceAhead(piece, SectionOf(m = SOS \/ scanning), scanning, whole)
<1>1. m \in ByteValues /\ HasLength(m) /\ m # SOI
  BY MarkerValues
<1> PICK rest : rest = SegmentOf(m, p)
  OBVIOUS
<1> PICK w : w = LengthOf(p) \o p
  OBVIOUS
<1>2. Plain(rest) /\ rest[1] = m /\ Tail(rest) = w /\ rest # <<>>
  BY <1>1, SegmentFacts DEF Plain
<1>3. LengthAhead(w, whole)
  BY LengthFacts DEF LengthAhead
<1>4. MarkerAhead(rest, SectionOf(m = SOS \/ scanning), scanning, whole)
  BY <1>1, <1>2, <1>3 DEF MarkerAhead
<1> QED
  BY <1>1, <1>2, <1>4, MarkedAhead

(* The bytes that stand for themselves in a scan, and what has no place in a frame. *)
LEMMA ShortAhead ==
    /\ \A piece \in Marked(<<EOI>>), scanning, whole \in BOOLEAN :
           PieceAhead(piece, "between", scanning, whole)
    /\ \A b \in Entropy, whole \in BOOLEAN : PieceAhead(<<b>>, "scan", TRUE, whole)
    /\ \A b \in {0, 208, TEM}, whole \in BOOLEAN : PieceAhead(<<Prefix, b>>, "scan", TRUE, whole)
    /\ \A m \in SegmentKinds, n \in 0..1, scanning \in BOOLEAN :
           PieceAhead(<<Prefix, m, 0, n>>, SectionOf(scanning), scanning, FALSE)
    /\ \A scanning \in BOOLEAN : PieceAhead(<<Prefix, 2>>, SectionOf(scanning), scanning, FALSE)
    /\ PieceAhead(<<0>>, "header", FALSE, FALSE)
<1>1. ASSUME NEW piece \in Marked(<<EOI>>), NEW scanning \in BOOLEAN, NEW whole \in BOOLEAN
      PROVE  PieceAhead(piece, "between", scanning, whole)
  <2> PICK rest : rest = <<EOI>>
    OBVIOUS
  <2>1. Plain(rest) /\ rest[1] # SOI
    BY ShortPieces, MarkerValues
  <2>2. MarkerAhead(rest, "between", scanning, whole)
    BY DEF MarkerAhead
  <2> QED
    BY <2>1, <2>2, MarkedAhead
<1>2. ASSUME NEW b, b # Prefix, NEW sec, NEW scanning, NEW whole,
             sec = SectionOf(scanning), whole => scanning
      PROVE  PieceAhead(<<b>>, sec, scanning, whole)
  <2>1. Len(<<b>>) = 1 /\ <<b>>[1] = b
    OBVIOUS
  <2> QED
    BY <1>2, <2>1 DEF PieceAhead
<1>3. ASSUME NEW b, NEW sec, NEW scanning, NEW whole, MarkerAhead(<<b>>, sec, scanning, whole)
      PROVE  PieceAhead(<<Prefix, b>>, sec, scanning, whole)
  <2>1. <<Prefix, b>> # <<>> /\ <<Prefix, b>>[1] = Prefix /\ Tail(<<Prefix, b>>) = <<b>>
    OBVIOUS
  <2> QED
    BY <1>3, <2>1 DEF PieceAhead, PrefixedAhead
<1>4. ASSUME NEW b \in Entropy, NEW whole \in BOOLEAN
      PROVE  PieceAhead(<<b>>, "scan", TRUE, whole)
  <2>1. b # Prefix /\ "scan" = SectionOf(TRUE)
    BY SensorAssumption DEF SectionOf
  <2> QED
    BY <1>2, <2>1
<1>5. ASSUME NEW b \in {0, 208, TEM}, NEW whole \in BOOLEAN
      PROVE  PieceAhead(<<Prefix, b>>, "scan", TRUE, whole)
  <2>1. MarkerAhead(<<b>>, "scan", TRUE, whole)
    BY DEF MarkerAhead
  <2> QED
    BY <1>3, <2>1
<1>6. ASSUME NEW m \in SegmentKinds, NEW n \in 0..1, NEW scanning \in BOOLEAN
      PROVE  PieceAhead(<<Prefix, m, 0, n>>, SectionOf(scanning), scanning, FALSE)
  <2>1. HasLength(m) /\ m # SOS
    BY MarkerValues
  <2>2. LengthAhead(<<0, n>>, FALSE)
    <3>1. Len(<<0, n>>) = 2 /\ <<0, n>>[1] = 0 /\ <<0, n>>[2] = n
      OBVIOUS
    <3>2. 256 * 0 + n < 2
      OBVIOUS
    <3> QED
      BY <3>1, <3>2 DEF LengthAhead
  <2>3. <<m, 0, n>> # <<>> /\ <<m, 0, n>>[1] = m /\ Tail(<<m, 0, n>>) = <<0, n>>
    OBVIOUS
  <2>4. MarkerAhead(<<m, 0, n>>, SectionOf(scanning), scanning, FALSE)
    BY <2>1, <2>2, <2>3 DEF MarkerAhead
  <2>5. <<Prefix, m, 0, n>> # <<>> /\ <<Prefix, m, 0, n>>[1] = Prefix
        /\ Tail(<<Prefix, m, 0, n>>) = <<m, 0, n>>
    OBVIOUS
  <2> QED
    BY <2>4, <2>5 DEF PieceAhead, PrefixedAhead
<1>7. ASSUME NEW scanning \in BOOLEAN
      PROVE  PieceAhead(<<Prefix, 2>>, SectionOf(scanning), scanning, FALSE)
  <2>1. MarkerAhead(<<2>>, SectionOf(scanning), scanning, FALSE)
    BY DEF MarkerAhead
  <2> QED
    BY <1>3, <2>1
<1>8. PieceAhead(<<0>>, "header", FALSE, FALSE)
  <2>1. 0 # Prefix /\ "header" = SectionOf(FALSE)
    BY DEF Prefix, SectionOf
  <2> QED
    BY <1>2, <2>1
<1> QED
  BY <1>1, <1>4, <1>5, <1>6, <1>7, <1>8

(* Every piece of a frame keeps the invariant. *)
LEMMA PieceKeeps ==
    ASSUME Missing = {}, Inv, TypeInv',
           SendSegment \/ SendScan \/ SendEntropy \/ SendEoi \/ SendMalformed
    PROVE  Inv'
<1>1. Scanning \in BOOLEAN /\ intact \in BOOLEAN /\ intact' \in BOOLEAN
  BY DEF Scanning, Inv, TypeInv, TypeOK
<1>2. CASE SendSegment
  <2>1. section # "between" /\ UNCHANGED <<sent, intact>>
    BY <1>2 DEF SendSegment, SendPiece
  <2> PICK m \in SegmentKinds, p \in Payloads : \E piece \in Marked(SegmentOf(m, p)) :
          Send(piece, section)
    BY <1>2 DEF SendSegment, SendPiece
  <2> PICK piece \in Marked(SegmentOf(m, p)) : Send(piece, section)
    OBVIOUS
  <2>2. Plain(piece) /\ m # SOS
    BY FramePieces, MarkerValues
  <2>3. PieceAhead(piece, SectionOf(Scanning), Scanning, intact')
    BY <2>2, SegmentAhead DEF SectionOf
  <2> QED
    BY <2>1, <2>2, <2>3, SendKeeps
<1>3. CASE SendScan
  <2>1. section # "between" /\ UNCHANGED <<sent, intact>>
    BY <1>3 DEF SendScan, SendPiece
  <2> PICK p \in Payloads : \E piece \in Marked(SegmentOf(SOS, p)) : Send(piece, "scan")
    BY <1>3 DEF SendScan, SendPiece
  <2> PICK piece \in Marked(SegmentOf(SOS, p)) : Send(piece, "scan")
    OBVIOUS
  <2>2. Plain(piece)
    BY FramePieces
  <2>3. PieceAhead(piece, "scan", Scanning, intact')
    BY SegmentAhead DEF SectionOf
  <2> QED
    BY <2>1, <2>2, <2>3, SendKeeps
<1>4. CASE SendEntropy
  <2>1. section = "scan" /\ UNCHANGED <<sent, intact>>
    BY <1>4 DEF SendEntropy, SendPiece
  <2> PICK piece \in {<<b>> : b \in Entropy} \cup {<<Prefix, b>> : b \in {0, 208, TEM}} :
          Send(piece, "scan")
    BY <1>4 DEF SendEntropy, SendPiece
  <2>2. Plain(piece)
    BY FramePieces
  <2>3. ASSUME section = SectionOf(Scanning)
        PROVE  PieceAhead(piece, "scan", Scanning, intact')
    <3>1. Scanning = TRUE
      BY <1>1, <2>1, <2>3 DEF SectionOf
    <3>2. PieceAhead(piece, "scan", TRUE, intact')
      BY <1>1, ShortAhead
    <3> QED
      BY <3>1, <3>2
  <2> QED
    BY <2>1, <2>2, <2>3, SendKeeps
<1>5. CASE SendEoi
  <2>1. section # "between" /\ UNCHANGED <<sent, intact>>
    BY <1>5 DEF SendEoi
  <2> PICK piece \in Marked(<<EOI>>) : Send(piece, "between")
    BY <1>5 DEF SendEoi
  <2>2. Plain(piece) /\ PieceAhead(piece, "between", Scanning, intact')
    BY <1>1, FramePieces, ShortAhead
  <2> QED
    BY <2>1, <2>2, SendKeeps
<1>6. CASE SendMalformed
  <2>1. section # "between" /\ UNCHANGED sent /\ intact' = FALSE
    BY <1>6 DEF SendMalformed
  <2> PICK piece \in Malformed : Send(piece, section)
    BY <1>6 DEF SendMalformed
  <2>2. piece \notin Overlong /\ Plain(piece)
    BY FramePieces DEF Overlong
  <2>3. \/ \E m \in SegmentKinds, n \in 0..1 : piece = <<Prefix, m, 0, n>>
        \/ piece = <<Prefix, 2>>
        \/ piece = <<0>> /\ section = "header"
    BY <2>2 DEF Malformed
  <2>4. ASSUME section = SectionOf(Scanning)
        PROVE  PieceAhead(piece, section, Scanning, FALSE)
    <3>1. CASE piece = <<0>> /\ section = "header"
      <4>1. Scanning = FALSE
        BY <1>1, <2>4, <3>1 DEF SectionOf
      <4> QED
        BY <3>1, <4>1, ShortAhead
    <3> QED
      BY <1>1, <2>3, <2>4, <3>1, ShortAhead
  <2> QED
    BY <2>1, <2>2, <2>4, SendKeeps
<1> QED
  BY <1>2, <1>3, <1>4, <1>5, <1>6

(* The beginning of a frame finds a parser that can take it. *)
LEMMA SoiKeeps ==
    ASSUME Inv, TypeInv', SendSoi
    PROVE  Inv'
<1>1. /\ wire = <<>> /\ wire' = <<Prefix, SOI>> /\ section' = "header" /\ image' = <<>>
      /\ state' = state /\ sawFF' = sawFF /\ sent' = <<>>
  BY DEF SendSoi, Send, parserVars
<1>2. Synced => state \in {"Marker", "Entropy"} /\ sawFF = FALSE
  BY <1>1, AtBoundary
<1>3. SoiPending' /\ wire' # <<SOI>> /\ wire' # <<>>
  BY <1>1 DEF SoiPending
<1>4. SoiMet'
  BY <1>1, <1>2, <1>3 DEF SoiMet, Synced
<1>5. FramesExact' /\ NothingMissed'
  BY <1>1 DEF FramesExact, NothingMissed, FrameEnded
<1> QED
  BY <1>3, <1>4, <1>5 DEF Inv, TypeInv, InStep, NoFalseSoi, FrameSent, NotLost

(* Nor do the bytes between two frames look like the beginning of one. *)
LEMMA PaddingKeeps ==
    ASSUME Inv, TypeInv', SendPadding
    PROVE  Inv'
<1> PICK b \in Padding : Send(<<b>>, "between")
  BY DEF SendPadding
<1>1. /\ wire = <<>> /\ wire' = <<b>> /\ section' = "between" /\ image' = <<>>
      /\ state' = state /\ sent' = <<>> /\ section = "between"
  BY DEF SendPadding, Send, parserVars
<1>2. ~Synced
  BY <1>1, AtBoundary
<1>3. b # SOI /\ wire' # <<>> /\ Len(wire') = 1 /\ wire'[1] = b
  BY <1>1, SensorAssumption
<1>4. ~SoiPending' /\ ~Synced'
  BY <1>1, <1>2 DEF SoiPending, Synced
<1>5. HidesNoSoi(wire')
  BY <1>3 DEF HidesNoSoi
<1>6. NoFalseSoi'
  BY <1>1, <1>3, <1>5 DEF NoFalseSoi
<1>7. FrameSent'
  <2>1. Len(sent') = 0
    BY <1>1
  <2> QED
    BY <1>1, <1>3, <2>1 DEF FrameSent
<1>8. NotLost' /\ FramesExact' /\ NothingMissed'
  BY <1>1, <1>3 DEF NotLost, FramesExact, NothingMissed, FrameEnded
<1> QED
  BY <1>4, <1>6, <1>7, <1>8 DEF Inv, TypeInv, InStep, SoiMet
-----------------------------------------------------------------------------
(* A byte goes by.                                                          *)

(* A byte appended to one byte. *)
LEMMA AppendedByte ==
    ASSUME NEW x \in ByteValues, NEW y \in ByteValues
    PROVE  Append(<<x>>, y) = <<x, y>>
<1>0. <<x>> \in Seq(ByteValues) /\ <<x, y>> \in Seq(ByteValues)
  OBVIOUS
<1> PICK s \in Seq(ByteValues) : s = <<x>>
  BY <1>0
<1>1. Len(s) = 1 /\ s[1] = x
  OBVIOUS
<1> PICK t \in Seq(ByteValues) : t = <<x, y>>
  BY <1>0
<1>2. Len(t) = 2 /\ t[1] = x /\ t[2] = y
  OBVIOUS
<1> PICK a : a = Append(s, y)
  OBVIOUS
<1>3. /\ a \in Seq(ByteValues) /\ Len(a) = 2
      /\ a[1] = s[1] /\ a[2] = y
  BY <1>1, AppendProperties
<1>4. \A i \in 1..Len(a) : a[i] = t[i]
  BY <1>1, <1>2, <1>3
<1>5. a = t
  BY <1>2, <1>3, <1>4, SeqEqual
<1> QED
  BY <1>5

(* The two bytes a frame begins with. *)
LEMMA PassSoi ==
    ASSUME Inv, NEW seen \in BOOLEAN, Pass(seen), SoiPending
    PROVE  \/ /\ wire = <<Prefix, SOI>> /\ sent = <<>> /\ Byte = Prefix
              /\ wire' = <<SOI>> /\ sent' = <<Prefix>> /\ SoiPending'
           \/ /\ wire = <<SOI>> /\ sent = <<Prefix>> /\ Byte = SOI
              /\ wire' = <<>> /\ sent' = <<Prefix, SOI>> /\ ~SoiPending'
<1>1. section = "header" /\ section' = section /\ wire' = Tail(wire) /\ sent' = Append(sent, Byte)
  BY DEF Pass, SoiPending
<1>2. CASE wire = <<Prefix, SOI>> /\ sent = <<>>
  <2>1. Byte = Prefix /\ wire' = <<SOI>>
    BY <1>1, <1>2 DEF Byte
  <2>2. sent' = <<Prefix>>
    BY <1>1, <1>2, <2>1
  <2>3. SoiPending'
    BY <1>1, <2>1, <2>2 DEF SoiPending
  <2> QED
    BY <1>2, <2>1, <2>2, <2>3
<1>3. CASE wire = <<SOI>> /\ sent = <<Prefix>>
  <2>1. Byte = SOI /\ wire' = <<>>
    BY <1>1, <1>3 DEF Byte
  <2>2. sent' = <<Prefix, SOI>>
    <3>1. Append(<<Prefix>>, SOI) = <<Prefix, SOI>>
      BY MarkerValues, AppendedByte
    <3> QED
      BY <1>1, <1>3, <2>1, <3>1
  <2>3. ~SoiPending'
    BY <2>1 DEF SoiPending
  <2> QED
    BY <1>3, <2>1, <2>2, <2>3
<1> QED
  BY <1>2, <1>3 DEF SoiPending

(* Any other byte. *)
LEMMA PassOther ==
    ASSUME Inv, NEW seen \in BOOLEAN, Pass(seen), ~SoiPending
    PROVE  /\ ~SoiPending' /\ HidesNoSoi(wire')
           /\ section' # "between" /\ wire' # <<>> => wire'[Len(wire')] # Prefix
           /\ FrameSent'
           /\ sent = <<>> => section = "between" /\ sent' = <<>>
           /\ sent # <<>> => /\ sent' = Append(sent, Byte) /\ sent' # <<>>
                             /\ Len(sent') = Len(sent) + 1 /\ Len(sent) >= 2
           /\ wire' # <<>> /\ Byte = Prefix => wire'[1] # SOI
           /\ wire' = <<>> /\ Byte = Prefix => section = "between"
<1>1. /\ wire \in Seq(ByteValues) /\ wire # <<>> /\ wire' = Tail(wire) /\ section' = section
      /\ sent \in Seq(ByteValues)
  BY DEF Inv, TypeOK, Pass
<1>2. TypeInv
  BY DEF TypeInv, Inv
<1>3. Byte \in ByteValues /\ Byte = wire[1] /\ Len(wire') = Len(wire) - 1 /\ Len(wire) \in Nat \ {0}
  BY <1>2, PassTypes
<1>4. HidesNoSoi(wire) /\ (section # "between" => wire[Len(wire)] # Prefix)
  BY <1>1 DEF Inv, NoFalseSoi
<1>5. /\ Tail(wire) # <<>> => Tail(wire)[Len(Tail(wire))] = wire[Len(wire)]
      /\ Tail(wire) = <<>> => wire[1] = wire[Len(wire)]
      /\ HidesNoSoi(Tail(wire))
      /\ Tail(wire) # <<>> /\ wire[1] = Prefix => Tail(wire)[1] # SOI
  BY <1>1, <1>4, TailFacts
<1>6. /\ HidesNoSoi(wire')
      /\ section' # "between" /\ wire' # <<>> => wire'[Len(wire')] # Prefix
      /\ wire' # <<>> /\ Byte = Prefix => wire'[1] # SOI
      /\ wire' = <<>> /\ Byte = Prefix => section = "between"
  BY <1>1, <1>3, <1>4, <1>5
<1>7. Len(sent) # 1 /\ (sent = <<>> => section = "between" /\ Len(wire) <= 1)
  BY DEF Inv, FrameSent
<1>8. CASE sent = <<>>
  <2>1. sent' = <<>>
    BY <1>7, <1>8 DEF Pass
  <2>2. Len(sent') = 0 /\ Len(wire') <= 1
    BY <1>3, <1>7, <1>8, <2>1
  <2>3. FrameSent'
    BY <1>1, <1>7, <1>8, <2>2 DEF FrameSent
  <2>4. ~SoiPending'
    BY <1>1, <1>7, <1>8 DEF SoiPending
  <2> QED
    BY <1>6, <1>7, <1>8, <2>1, <2>3, <2>4
<1>9. CASE sent # <<>>
  <2>1. sent' = Append(sent, Byte)
    BY <1>9 DEF Pass
  <2>2. Len(sent) \in Nat /\ Len(sent) # 0
    BY <1>1, <1>9, EmptySeq
  <2>3. Len(sent') = Len(sent) + 1
    BY <1>1, <1>3, <2>1, AppendProperties
  <2>4. Len(sent) >= 2 /\ Len(sent') >= 2
    <3>1. Len(sent) # 1
      BY <1>7
    <3>2. Len(sent) >= 2
      BY <2>2, <3>1
    <3> QED
      BY <2>2, <2>3, <3>2
  <2>5. sent' # <<>> /\ sent' # <<Prefix>>
    <3>1. Len(<<>>) = 0 /\ Len(<<Prefix>>) = 1
      OBVIOUS
    <3>2. Len(sent') # 0 /\ Len(sent') # 1
      BY <2>2, <2>3, <2>4
    <3> QED
      BY <3>1, <3>2
  <2>6. FrameSent'
    BY <2>4, <2>5 DEF FrameSent
  <2>7. ~SoiPending'
    BY <2>5 DEF SoiPending
  <2> QED
    BY <1>6, <1>9, <2>1, <2>3, <2>4, <2>5, <2>6, <2>7
<1> QED
  BY <1>8, <1>9

(* A parser that is reset loses only a frame that lost a byte or is too long. *)
LEMMA ResetKeeps ==
    ASSUME Inv, TypeInv', NEW seen \in BOOLEAN, Pass(seen), ResetState, image' = <<>>,
           intact' => Len(sent') > Capacity
    PROVE  Inv'
<1>1. state' = "LookingForSoi" /\ sawFF' = FALSE
  BY DEF ResetState
<1>2. InStep' /\ NothingMissed' /\ FramesExact' /\ NotLost'
  <2>1. Len(sent') \in Int /\ Capacity \in Int
    BY CapacityAssumption DEF TypeInv, TypeOK
  <2>2. ~(intact' /\ Len(sent') <= Capacity)
    BY <2>1
  <2> QED
    BY <1>1, <2>2 DEF InStep, NothingMissed, FramesExact, NotLost, Synced
<1>3. CASE SoiPending
  <2>1. CASE SoiPending' /\ sent' = <<Prefix>>
    <3>1. ~intact'
      <4>1. Len(sent') = 1
        BY <2>1
      <4> QED
        BY <4>1, CapacityAssumption
    <3> QED
      BY <1>1, <1>2, <2>1, <3>1
      DEF Inv, TypeInv, SoiMet, NoFalseSoi, FrameSent, Synced
  <2>2. CASE ~SoiPending' /\ wire' = <<>> /\ sent' = <<Prefix, SOI>>
    <3>1. HidesNoSoi(wire') /\ Len(sent') = 2 /\ sent' # <<>>
      BY <2>2 DEF HidesNoSoi
    <3>2. NoFalseSoi' /\ FrameSent' /\ SoiMet'
      BY <1>1, <2>2, <3>1 DEF NoFalseSoi, FrameSent, SoiMet
    <3> QED
      BY <1>2, <3>2 DEF Inv, TypeInv
  <2> QED
    BY <1>3, <2>1, <2>2, PassSoi
<1>4. CASE ~SoiPending
  <2>1. /\ ~SoiPending' /\ HidesNoSoi(wire') /\ FrameSent'
        /\ section' # "between" /\ wire' # <<>> => wire'[Len(wire')] # Prefix
    BY <1>4, PassOther
  <2>2. NoFalseSoi' /\ SoiMet'
    BY <1>1, <2>1 DEF NoFalseSoi, SoiMet
  <2> QED
    BY <1>2, <2>1, <2>2 DEF Inv, TypeInv
<1> QED
  BY <1>3, <1>4

(* The first two bytes of a frame are on their way to the output. *)
LEMMA StartKeeps ==
    ASSUME Inv, TypeInv', Pass(TRUE), StartFrame, SoiPending, Byte = SOI
    PROVE  Inv'
<1>1. /\ state' = "Marker" /\ output' = <<Prefix, SOI>> /\ sawFF' = FALSE /\ image' = <<>>
  BY DEF StartFrame
<1>2. section' = "header"
  BY DEF Pass, SoiPending
<1>3. wire' = <<>> /\ sent' = <<Prefix, SOI>> /\ ~SoiPending'
  <2>1. TRUE \in BOOLEAN /\ SOI # Prefix
    BY MarkerValues
  <2> QED
    BY <2>1, PassSoi
<1>4. HidesNoSoi(wire') /\ Len(sent') = 2 /\ sent' # <<>>
  BY <1>3 DEF HidesNoSoi
<1>5. Position'
  <2>1. PieceAhead(wire', section', Scanning', intact')
    BY <1>1, <1>2, <1>3 DEF PieceAhead, SectionOf, Scanning
  <2> QED
    BY <1>1, <2>1 DEF Position
<1>6. InStep'
  BY <1>1, <1>3, <1>4, <1>5 DEF InStep
<1>7. SoiMet' /\ NoFalseSoi' /\ FrameSent' /\ NotLost'
  BY <1>1, <1>2, <1>3, <1>4 DEF SoiMet, NoFalseSoi, FrameSent, NotLost, Synced
<1>8. FramesExact' /\ NothingMissed'
  BY <1>1, <1>2 DEF FramesExact, NothingMissed, FrameEnded
<1> QED
  BY <1>6, <1>7, <1>8 DEF Inv, TypeInv

(* A byte inside a frame is copied to the output. *)
LEMMA ContinueKeeps ==
    ASSUME Inv, TypeInv', Pass(TRUE), Synced, ~SoiPending,
           NEW next \in States \ {"LookingForSoi"}, NEW prefixed, Continue(next, prefixed),
           Position'
    PROVE  Inv'
<1>1. state' = next /\ output' = Append(output, Byte) /\ image' = <<>>
  BY DEF Continue
<1>2. output = sent /\ Len(sent) >= 2
  BY DEF Inv, InStep
<1>3. sent # <<>>
  BY <1>2
<1>4. /\ ~SoiPending' /\ HidesNoSoi(wire') /\ FrameSent'
      /\ section' # "between" /\ wire' # <<>> => wire'[Len(wire')] # Prefix
      /\ sent' = Append(sent, Byte) /\ Len(sent') = Len(sent) + 1
  <2>1. TRUE \in BOOLEAN
    OBVIOUS
  <2> QED
    BY <1>3, <2>1, PassOther
<1>5. Synced'
  BY <1>1 DEF Synced
<1>6. InStep'
  <2>1. Len(sent') >= 2
    BY <1>2, <1>4 DEF Inv, TypeOK
  <2> QED
    BY <1>1, <1>2, <1>4, <2>1 DEF InStep
<1>7. SoiMet' /\ NoFalseSoi' /\ NotLost'
  BY <1>4, <1>5 DEF SoiMet, NoFalseSoi, NotLost
<1>8. ~FrameEnded'
  <2> SUFFICES ASSUME wire' = <<>>, section' = "between"
               PROVE  FALSE
    BY DEF FrameEnded
  <2>1. state' \in {"Marker", "Entropy"} \/ state' \in {"LengthHigh", "LengthLow", "Segment"}
    BY <1>1 DEF States
  <2>2. CASE state' \in {"Marker", "Entropy"}
    <3>1. ~PrefixedAhead(wire', section', Scanning', intact')
      BY NothingAhead
    <3>2. PieceAhead(wire', section', Scanning', intact')
      BY <2>2, <3>1 DEF Position
    <3>3. section' = SectionOf(Scanning')
      BY <3>2, NothingAhead
    <3> QED
      BY <3>3 DEF SectionOf
  <2>3. CASE state' \in {"LengthHigh", "LengthLow", "Segment"}
    BY <2>3 DEF Position, SectionOf
  <2> QED
    BY <2>1, <2>2, <2>3
<1>9. FramesExact' /\ NothingMissed'
  BY <1>1, <1>8 DEF FramesExact, NothingMissed
<1> QED
  BY <1>4, <1>6, <1>7, <1>9 DEF Inv, TypeInv
-----------------------------------------------------------------------------
(* The handlers of the parser.                                              *)

(* A parser outside a frame takes the beginning of one and nothing else. *)
LEMMA LookingKeeps ==
    ASSUME Inv, TypeInv', LookingForSoi
    PROVE  Inv'
<1>1. Pass(TRUE) /\ TRUE \in BOOLEAN /\ ~Synced /\ TypeInv
  BY DEF LookingForSoi, Synced, Inv, TypeInv
<1>2. /\ Byte = wire[1] /\ wire # <<>> /\ intact' = (intact /\ TRUE) /\ section' = section
      /\ Prefix # SOI
  BY <1>1, PassTypes, MarkerValues DEF Pass
<1>3. CASE sawFF /\ Byte = SOI
  <2>1. StartFrame
    BY <1>3 DEF LookingForSoi
  <2>2. SoiPending
    BY <1>1, <1>2, <1>3 DEF Inv, NoFalseSoi
  <2> QED
    BY <1>1, <1>3, <2>1, <2>2, StartKeeps
<1>4. CASE ~(sawFF /\ Byte = SOI)
  <2>1. sawFF' = (Byte = Prefix) /\ image' = <<>> /\ state' = state
    BY <1>4 DEF LookingForSoi
  <2>2. ~Synced' /\ InStep' /\ FramesExact'
    BY <1>1, <2>1 DEF Synced, InStep, FramesExact
  <2>3. CASE SoiPending
    <3>1. CASE /\ wire = <<Prefix, SOI>> /\ sent = <<>> /\ Byte = Prefix
               /\ wire' = <<SOI>> /\ sent' = <<Prefix>> /\ SoiPending'
      <4>1. wire' # <<>> /\ sawFF'
        BY <2>1, <3>1
      <4> QED
        BY <1>1, <2>1, <2>2, <3>1, <4>1
        DEF Inv, TypeInv, SoiMet, NoFalseSoi, FrameSent, NotLost, NothingMissed, FrameEnded,
            Synced
    <3>2. CASE /\ wire = <<SOI>> /\ Byte = SOI
               /\ wire' = <<>> /\ sent' = <<Prefix, SOI>> /\ ~SoiPending'
      <4>1. ~intact'
        BY <1>2, <1>4, <2>3, <3>2 DEF Inv, SoiMet
      <4>2. ~sawFF'
        BY <1>2, <2>1, <3>2
      <4>3. HidesNoSoi(wire') /\ Len(sent') = 2 /\ sent' # <<>>
        BY <3>2 DEF HidesNoSoi
      <4> QED
        BY <2>2, <3>2, <4>1, <4>2, <4>3
        DEF Inv, TypeInv, SoiMet, NoFalseSoi, FrameSent, NotLost, NothingMissed
    <3> QED
      BY <1>1, <2>3, <3>1, <3>2, PassSoi
  <2>4. CASE ~SoiPending
    <3>1. /\ ~SoiPending' /\ HidesNoSoi(wire') /\ FrameSent'
          /\ section' # "between" /\ wire' # <<>> => wire'[Len(wire')] # Prefix
          /\ sent = <<>> => sent' = <<>>
          /\ sent # <<>> => Len(sent') = Len(sent) + 1 /\ Len(sent) >= 2
          /\ wire' # <<>> /\ Byte = Prefix => wire'[1] # SOI
          /\ wire' = <<>> /\ Byte = Prefix => section = "between"
      BY <1>1, <2>4, PassOther
    <3>2. NoFalseSoi'
      BY <1>2, <2>1, <3>1 DEF NoFalseSoi
    <3>3. ~(intact' /\ sent' # <<>> /\ Len(sent') <= Capacity)
      <4> SUFFICES ASSUME intact', sent' # <<>>, Len(sent') <= Capacity
                   PROVE  FALSE
        OBVIOUS
      <4>1. intact /\ sent # <<>> /\ ~FrameEnded
        BY <1>2, <3>1 DEF FrameEnded
      <4>2. Len(sent) <= Capacity
        BY <3>1, <4>1, CapacityAssumption DEF Inv, TypeOK
      <4> QED
        BY <1>1, <2>4, <4>1, <4>2 DEF Inv, NotLost
    <3>4. NotLost' /\ NothingMissed'
      BY <3>3 DEF NotLost, NothingMissed, FrameEnded
    <3> QED
      BY <2>2, <3>1, <3>2, <3>4 DEF Inv, TypeInv, SoiMet
  <2> QED
    BY <2>3, <2>4
<1> QED
  BY <1>3, <1>4

(* A finished frame is the one the sensor sent. *)
LEMMA FinishKeeps ==
    ASSUME Inv, TypeInv', Pass(TRUE), Synced, ~SoiPending, FinishFrame,
           wire = <<EOI>>, section = "between"
    PROVE  Inv'
<1>1. TRUE \in BOOLEAN /\ output = sent /\ Len(sent) >= 2
  BY DEF Inv, InStep
<1>2. sent # <<>>
  BY <1>1
<1>3. wire' = <<>> /\ section' = "between"
  BY DEF Pass
<1>4. ~SoiPending' /\ FrameSent' /\ HidesNoSoi(wire') /\ sent' = Append(sent, Byte) /\ sent' # <<>>
  BY <1>1, <1>2, PassOther
<1>5. image' = sent' /\ state' = "LookingForSoi" /\ sawFF' = FALSE
  BY <1>1, <1>4 DEF FinishFrame, ResetState
<1>6. FrameEnded'
  BY <1>3, <1>4 DEF FrameEnded
<1>7. FramesExact' /\ NothingMissed' /\ NotLost'
  BY <1>5, <1>6 DEF FramesExact, NothingMissed, NotLost
<1>8. InStep' /\ SoiMet' /\ NoFalseSoi'
  BY <1>3, <1>4, <1>5 DEF InStep, SoiMet, NoFalseSoi, Synced
<1> QED
  BY <1>4, <1>7, <1>8 DEF Inv, TypeInv

(* The second byte of a frame, met in front of a marker or in a scan. *)
LEMMA AfterPrefixAtSoi ==
    ASSUME Inv, TypeInv', Pass(TRUE), Synced, SoiPending, sawFF,
           NEW standalone, SOI \notin standalone, NEW inEntropy, AfterPrefix(standalone, inEntropy)
    PROVE  Inv'
<1>1. wire = <<SOI>>
  BY DEF Inv, SoiMet
<1>2. Byte = SOI
  BY <1>1 DEF Byte
<1>3. StartFrame
  BY <1>2, MarkerValues DEF AfterPrefix
<1> QED
  BY <1>2, <1>3, StartKeeps

(* The byte after a prefix inside a frame. *)
LEMMA AfterPrefixKeeps ==
    ASSUME Inv, TypeInv', Pass(TRUE), ~SoiPending, sawFF, state \in {"Marker", "Entropy"},
           NEW standalone, AfterPrefix(standalone, Scanning),
           standalone = IF Scanning THEN {0, TEM} \cup Restarts ELSE {TEM}
    PROVE  Inv'
<1>1. /\ Synced /\ TypeInv /\ TRUE \in BOOLEAN
      /\ state \in States \ {"LookingForSoi"} /\ "LengthHigh" \in States \ {"LookingForSoi"}
  BY DEF Synced, TypeInv, Inv, States
<1>2. /\ Byte \in ByteValues /\ Byte = wire[1] /\ wire # <<>> /\ wire' = Tail(wire)
      /\ section' = section /\ intact' = intact
  BY <1>1, PassTypes DEF Pass, TypeInv, TypeOK
<1>3. PrefixedAhead(wire, section, Scanning, intact)
  BY <1>1 DEF Inv, InStep, Position
<1>4. CASE wire[1] = Prefix /\ MarkerAhead(Tail(wire), section, Scanning, intact)
  <2>1. /\ Byte = Prefix /\ Byte \notin standalone /\ Byte # EOI /\ Byte # SOI
        /\ ~HasLength(Byte)
    BY <1>2, <1>4, MarkerValues DEF Prefix, EOI, SOI, TEM, Restarts
  <2>2. Continue(state, TRUE)
    BY <2>1 DEF AfterPrefix
  <2>3. state' = state /\ sawFF' = TRUE
    BY <2>2 DEF Continue
  <2>4. PrefixedAhead(wire', section', Scanning', intact')
    BY <1>2, <1>4, <2>3 DEF PrefixedAhead, Scanning
  <2>5. Position'
    BY <2>3, <2>4 DEF Position
  <2> QED
    BY <1>1, <2>2, <2>5, ContinueKeeps
<1>5. CASE wire = <<EOI>> /\ section = "between"
  <2>1. Byte = EOI
    BY <1>2, <1>5
  <2>2. Byte \notin standalone /\ Byte # Prefix /\ Byte # SOI /\ ~HasLength(Byte)
    BY <2>1, MarkerValues DEF Prefix, EOI, SOI, TEM, Restarts
  <2>3. FinishFrame
    BY <2>1, <2>2 DEF AfterPrefix
  <2> QED
    BY <1>1, <1>5, <2>3, FinishKeeps
<1>6. CASE /\ HasLength(wire[1]) /\ LengthAhead(Tail(wire), intact)
           /\ section = SectionOf(wire[1] = SOS \/ Scanning)
  <2>1. HasLength(Byte) /\ Byte # Prefix /\ Byte # EOI /\ Byte # SOI
    BY <1>2, <1>6, MarkerValues
  <2>2. Byte \notin standalone
    BY <2>1 DEF HasLength, TEM, Restarts
  <2>3. Continue("LengthHigh", FALSE) /\ marker' = Byte /\ resumeEntropy' = Scanning
    BY <2>1, <2>2 DEF AfterPrefix
  <2>4. state' = "LengthHigh"
    BY <2>3 DEF Continue
  <2>5. section' = SectionOf(marker' = SOS \/ resumeEntropy')
    BY <1>2, <1>6, <2>3
  <2>6. LengthAhead(wire', intact')
    BY <1>2, <1>6
  <2>7. Position'
    BY <2>4, <2>5, <2>6 DEF Position
  <2> QED
    BY <1>1, <2>3, <2>7, ContinueKeeps
<1>7. CASE wire = <<2>> /\ ~intact
  <2>1. Byte = 2
    BY <1>2, <1>7
  <2>2. Byte \notin standalone /\ Byte # Prefix /\ Byte # SOI /\ Byte # EOI /\ ~HasLength(Byte)
    BY <2>1 DEF Prefix, EOI, SOI, TEM, Restarts, HasLength
  <2>3. ResetState /\ image' = <<>>
    BY <2>2 DEF AfterPrefix, Fail
  <2> QED
    BY <1>1, <1>2, <1>7, <2>3, ResetKeeps
<1>8. CASE wire \in {<<0>>, <<208>>, <<TEM>>} /\ Scanning /\ section = "scan"
  <2>1. Byte \in {0, 208, TEM} /\ Tail(wire) = <<>>
    <3> PICK b \in {0, 208, TEM} : wire = <<b>>
      BY <1>8
    <3>1. wire[1] = b /\ Tail(wire) = <<>>
      OBVIOUS
    <3> QED
      BY <1>2, <3>1
  <2>2. Byte \in standalone /\ Byte # Prefix /\ Byte # SOI /\ Byte # EOI /\ ~HasLength(Byte)
    BY <1>8, <2>1 DEF Prefix, EOI, SOI, TEM, Restarts, HasLength
  <2>3. Continue(state, FALSE)
    BY <2>2 DEF AfterPrefix
  <2>4. state' = state /\ sawFF' = FALSE
    BY <2>3 DEF Continue
  <2>5. PieceAhead(wire', section', Scanning', intact')
    BY <1>2, <1>8, <2>1, <2>4 DEF PieceAhead, SectionOf, Scanning
  <2>6. Position'
    BY <2>4, <2>5 DEF Position
  <2> QED
    BY <1>1, <2>3, <2>6, ContinueKeeps
<1> QED
  BY <1>3, <1>4, <1>5, <1>6, <1>7, <1>8 DEF PrefixedAhead, MarkerAhead

(* The handler of a parser in front of a marker. *)
LEMMA InMarkerKeeps ==
    ASSUME Inv, TypeInv', InMarker
    PROVE  Inv'
<1>1. /\ Pass(TRUE) /\ TRUE \in BOOLEAN /\ state = "Marker" /\ Synced /\ Scanning = FALSE
      /\ TypeInv /\ "Marker" \in States \ {"LookingForSoi"}
  BY DEF InMarker, Synced, Scanning, Inv, TypeInv, States
<1>2. /\ Byte = wire[1] /\ wire # <<>> /\ wire' = Tail(wire)
      /\ section' = section /\ intact' = intact
  BY <1>1, PassTypes DEF Pass, TypeInv, TypeOK
<1>3. CASE sawFF
  <2>1. AfterPrefix({TEM}, FALSE)
    BY <1>3 DEF InMarker
  <2>2. CASE SoiPending
    <3>1. SOI \notin {TEM}
      BY DEF SOI, TEM
    <3> QED
      BY <1>1, <1>3, <2>1, <2>2, <3>1, AfterPrefixAtSoi
  <2>3. CASE ~SoiPending
    BY <1>1, <1>3, <2>1, <2>3, AfterPrefixKeeps
  <2> QED
    BY <2>2, <2>3
<1>4. CASE ~sawFF /\ SoiPending
  <2>1. wire = <<Prefix, SOI>> /\ wire' = <<SOI>> /\ Byte = Prefix /\ SoiPending'
    <3>1. wire # <<SOI>>
      BY <1>1, <1>4 DEF Inv, SoiMet
    <3> QED
      BY <1>1, <1>4, <3>1, PassSoi
  <2>2. state' = "Marker" /\ sawFF' = TRUE /\ image' = <<>>
    BY <1>4, <2>1 DEF InMarker, Continue
  <2>3. wire' # <<>>
    BY <2>1
  <2> QED
    BY <2>1, <2>2, <2>3
    DEF Inv, TypeInv, InStep, SoiMet, NoFalseSoi, FrameSent, NotLost, FramesExact,
        NothingMissed, FrameEnded
<1>5. CASE ~sawFF /\ ~SoiPending
  <2>1. PieceAhead(wire, section, Scanning, intact)
    BY <1>1, <1>5 DEF Inv, InStep, Position
  <2>2. CASE Byte = Prefix
    <3>1. PrefixedAhead(Tail(wire), section, Scanning, intact)
      BY <1>2, <2>1, <2>2 DEF PieceAhead
    <3>2. Continue("Marker", TRUE)
      BY <1>5, <2>2 DEF InMarker
    <3>3. state' = state /\ sawFF' = TRUE
      BY <1>1, <3>2 DEF Continue
    <3>4. PrefixedAhead(wire', section', Scanning', intact')
      BY <1>2, <3>1, <3>3 DEF Scanning
    <3>5. Position'
      BY <1>1, <3>3, <3>4 DEF Position
    <3> QED
      BY <1>1, <1>5, <3>2, <3>5, ContinueKeeps
  <2>3. CASE Byte # Prefix
    <3>1. ~intact
      BY <1>1, <1>2, <2>1, <2>3 DEF PieceAhead
    <3>2. ResetState /\ image' = <<>>
      BY <1>5, <2>3 DEF InMarker, Fail
    <3> QED
      BY <1>1, <1>2, <3>1, <3>2, ResetKeeps
  <2> QED
    BY <2>2, <2>3
<1> QED
  BY <1>3, <1>4, <1>5

(* The handler of a parser in entropy-coded data. *)
LEMMA InEntropyKeeps ==
    ASSUME Inv, TypeInv', InEntropy
    PROVE  Inv'
<1>1. /\ Pass(TRUE) /\ TRUE \in BOOLEAN /\ state = "Entropy" /\ Synced /\ Scanning = TRUE
      /\ TypeInv /\ "Entropy" \in States \ {"LookingForSoi"}
  BY DEF InEntropy, Synced, Scanning, Inv, TypeInv, States
<1>2. /\ Byte = wire[1] /\ wire # <<>> /\ wire' = Tail(wire)
      /\ section' = section /\ intact' = intact
  BY <1>1, PassTypes DEF Pass, TypeInv, TypeOK
<1>3. CASE sawFF
  <2>1. AfterPrefix({0, TEM} \cup Restarts, TRUE)
    BY <1>3 DEF InEntropy
  <2>2. CASE SoiPending
    <3>1. SOI \notin {0, TEM} \cup Restarts
      BY DEF SOI, TEM, Restarts
    <3> QED
      BY <1>1, <1>3, <2>1, <2>2, <3>1, AfterPrefixAtSoi
  <2>3. CASE ~SoiPending
    BY <1>1, <1>3, <2>1, <2>3, AfterPrefixKeeps
  <2> QED
    BY <2>2, <2>3
<1>4. ASSUME ~sawFF
      PROVE  Continue("Entropy", Byte = Prefix)
  BY <1>4 DEF InEntropy
<1>5. CASE ~sawFF /\ SoiPending
  <2>1. wire = <<Prefix, SOI>> /\ wire' = <<SOI>> /\ Byte = Prefix /\ SoiPending'
    <3>1. wire # <<SOI>>
      BY <1>1, <1>5 DEF Inv, SoiMet
    <3> QED
      BY <1>1, <1>5, <3>1, PassSoi
  <2>2. state' = "Entropy" /\ sawFF' = (Byte = Prefix) /\ image' = <<>>
    BY <1>4, <1>5 DEF Continue
  <2>3. wire' # <<>> /\ sawFF'
    BY <2>1, <2>2
  <2> QED
    BY <2>1, <2>2, <2>3
    DEF Inv, TypeInv, InStep, SoiMet, NoFalseSoi, FrameSent, NotLost, FramesExact,
        NothingMissed, FrameEnded
<1>6. CASE ~sawFF /\ ~SoiPending
  <2>1. PieceAhead(wire, section, Scanning, intact)
    BY <1>1, <1>6 DEF Inv, InStep, Position
  <2>2. state' = state /\ sawFF' = (Byte = Prefix)
    BY <1>1, <1>4, <1>6 DEF Continue
  <2>3. CASE Byte = Prefix
    <3>1. PrefixedAhead(Tail(wire), section, Scanning, intact)
      BY <1>2, <2>1, <2>3 DEF PieceAhead
    <3>2. sawFF'
      BY <2>2, <2>3
    <3>3. PrefixedAhead(wire', section', Scanning', intact')
      BY <1>2, <2>2, <3>1 DEF Scanning
    <3>4. Position'
      BY <1>1, <2>2, <3>2, <3>3 DEF Position
    <3> QED
      BY <1>1, <1>4, <1>6, <3>4, ContinueKeeps
  <2>4. CASE Byte # Prefix
    <3>1. Len(wire) = 1 /\ section = SectionOf(Scanning)
      BY <1>2, <2>1, <2>4 DEF PieceAhead
    <3>2. wire' = <<>>
      <4>1. wire \in Seq(ByteValues)
        BY DEF Inv, TypeOK
      <4> QED
        BY <1>2, <3>1, <4>1, TailFacts
    <3>3. ~sawFF'
      BY <2>2, <2>4
    <3>4. PieceAhead(wire', section', Scanning', intact')
      BY <1>2, <2>2, <3>1, <3>2 DEF PieceAhead, Scanning
    <3>5. Position'
      BY <1>1, <2>2, <3>3, <3>4 DEF Position
    <3> QED
      BY <1>1, <1>4, <1>6, <3>5, ContinueKeeps
  <2> QED
    BY <2>3, <2>4
<1> QED
  BY <1>3, <1>5, <1>6

(* The end of a segment, or of its length: what is counted is what is left. *)
LEMMA AfterSegmentKeeps ==
    ASSUME Inv, TypeInv', Pass(TRUE), Synced, ~SoiPending,
           section = SectionOf(marker = SOS \/ resumeEntropy), UNCHANGED marker,
           segmentRemaining' = Len(wire) - 1,
           IF segmentRemaining' = 0 THEN AfterSegment
           ELSE Continue("Segment", sawFF) /\ UNCHANGED resumeEntropy
    PROVE  Inv'
<1>1. /\ wire \in Seq(ByteValues) /\ wire # <<>> /\ wire' = Tail(wire) /\ section' = section
      /\ "Segment" \in States \ {"LookingForSoi"}
  BY DEF Inv, TypeOK, Pass, States
<1>2. Len(wire') = Len(wire) - 1 /\ (Tail(wire) = <<>> <=> Len(wire) = 1) /\ Len(wire) \in Nat
  BY <1>1, TailFacts
<1>3. CASE segmentRemaining' = 0
  <2>1. AfterSegment
    BY <1>3
  <2> PICK next \in {"Entropy", "Marker"} :
          /\ next = IF marker = SOS \/ resumeEntropy THEN "Entropy" ELSE "Marker"
          /\ Continue(next, FALSE)
    BY <2>1 DEF AfterSegment
  <2>2. state' = next /\ sawFF' = FALSE /\ wire' = <<>> /\ next \in States \ {"LookingForSoi"}
    BY <1>1, <1>2, <1>3 DEF Continue, States
  <2>3. section' = SectionOf(Scanning')
    BY <1>1, <2>2 DEF Scanning, SectionOf
  <2>4. PieceAhead(wire', section', Scanning', intact')
    BY <2>2, <2>3 DEF PieceAhead
  <2>5. Position'
    BY <2>2, <2>4 DEF Position
  <2> QED
    BY <2>2, <2>5, ContinueKeeps
<1>4. CASE segmentRemaining' # 0
  <2>1. Continue("Segment", sawFF) /\ resumeEntropy' = resumeEntropy
    BY <1>4
  <2>2. state' = "Segment"
    BY <2>1 DEF Continue
  <2>3. Position'
    BY <1>1, <1>2, <2>1, <2>2 DEF Position
  <2> QED
    BY <1>1, <2>1, <2>3, ContinueKeeps
<1> QED
  BY <1>3, <1>4

(* The handlers of the two bytes of a length, and of a segment. *)
LEMMA SegmentKeeps ==
    ASSUME Inv, TypeInv', LengthHigh \/ LengthLow \/ InSegment
    PROVE  Inv'
<1>1. /\ Pass(TRUE) /\ TRUE \in BOOLEAN /\ state \in {"LengthHigh", "LengthLow", "Segment"}
      /\ Synced /\ TypeInv /\ "LengthLow" \in States \ {"LookingForSoi"}
  BY DEF LengthHigh, LengthLow, InSegment, Synced, Inv, TypeInv, States
<1>2. ~SoiPending
  BY <1>1 DEF Inv, SoiMet
<1>3. /\ Position /\ section = SectionOf(marker = SOS \/ resumeEntropy)
  BY <1>1, <1>2 DEF Inv, InStep, Position
<1>4. /\ Byte \in ByteValues /\ Byte = wire[1] /\ wire # <<>> /\ wire' = Tail(wire)
      /\ section' = section /\ intact' = intact /\ wire \in Seq(ByteValues)
  BY <1>1, PassTypes DEF Pass, TypeInv, TypeOK
<1>5. Byte \in Int /\ segmentRemaining \in Int /\ Len(wire) \in Nat \ {0}
  <2>1. Byte \in Int
    BY <1>4 DEF ByteValues
  <2>2. segmentRemaining \in Int
    BY <1>1, WordFacts DEF TypeInv, TypeOK
  <2>3. Len(wire) \in Nat \ {0}
    BY <1>4, TailFacts
  <2> QED
    BY <2>1, <2>2, <2>3
<1>6. CASE LengthHigh
  <2>1. /\ Continue("LengthLow", sawFF) /\ segmentRemaining' = Byte * 256
        /\ UNCHANGED <<marker, resumeEntropy>> /\ state = "LengthHigh"
    BY <1>6 DEF LengthHigh
  <2>2. LengthAhead(wire, intact)
    BY <1>3, <2>1 DEF Position
  <2>3. /\ wire' # <<>> /\ wire'[1] = wire[2] /\ Len(wire') = Len(wire) - 1
        /\ wire' \in Seq(ByteValues)
    BY <1>4, <1>5, <2>2, TailFacts DEF LengthAhead
  <2>4. wire[2] \in Int
    <3>1. wire'[1] \in ByteValues
      BY <2>3, TailFacts
    <3> QED
      BY <2>3, <3>1 DEF ByteValues
  <2>5. \/ segmentRemaining' + wire'[1] = Len(wire') + 1
        \/ ~intact' /\ Len(wire') = 1 /\ segmentRemaining' + wire'[1] < 2
    BY <1>4, <1>5, <2>1, <2>2, <2>3, <2>4 DEF LengthAhead
  <2>6. state' = "LengthLow"
    BY <2>1 DEF Continue
  <2>7. Position'
    BY <1>3, <1>4, <2>1, <2>3, <2>5, <2>6 DEF Position
  <2> QED
    BY <1>1, <1>2, <2>1, <2>7, ContinueKeeps
<1>7. CASE LengthLow
  <2> PICK length \in Int : length = segmentRemaining + Byte
    BY <1>5
  <2>1. \/ length = Len(wire) + 1
        \/ ~intact /\ length < 2
    BY <1>3, <1>4, <1>7 DEF Position, LengthLow
  <2>2. CASE length < 2
    <3>1. ~intact
      BY <1>5, <2>1, <2>2
    <3>2. ResetState /\ image' = <<>>
      BY <1>7, <2>2 DEF LengthLow, Fail
    <3> QED
      BY <1>1, <1>4, <3>1, <3>2, ResetKeeps
  <2>3. CASE ~(length < 2)
    <3>1. /\ segmentRemaining' = length - 2 /\ UNCHANGED marker
          /\ IF length = 2 THEN AfterSegment
             ELSE Continue("Segment", sawFF) /\ UNCHANGED resumeEntropy
      BY <1>7, <2>3 DEF LengthLow
    <3>2. segmentRemaining' = Len(wire) - 1 /\ (length = 2 <=> segmentRemaining' = 0)
      BY <1>5, <2>1, <2>3, <3>1
    <3> QED
      BY <1>1, <1>2, <1>3, <3>1, <3>2, AfterSegmentKeeps
  <2> QED
    BY <2>2, <2>3
<1>8. CASE InSegment
  <2>1. segmentRemaining = Len(wire)
    BY <1>3, <1>8 DEF Position, InSegment
  <2>2. /\ segmentRemaining' = segmentRemaining - 1 /\ UNCHANGED marker
        /\ IF segmentRemaining' = 0 THEN AfterSegment
           ELSE Continue("Segment", sawFF) /\ UNCHANGED resumeEntropy
    BY <1>8 DEF InSegment
  <2> QED
    BY <1>1, <1>2, <1>3, <2>1, <2>2, AfterSegmentKeeps
<1> QED
  BY <1>6, <1>7, <1>8

(* A byte that is not taken, for want of room or because it was lost. *)
LEMMA LostKeeps ==
    ASSUME Inv, TypeInv', OutputBufferFull \/ Lose
    PROVE  Inv'
<1>1. CASE OutputBufferFull
  <2>1. /\ Pass(output = sent) /\ (output = sent) \in BOOLEAN
        /\ ResetState /\ image' = <<>> /\ ~Room
    BY <1>1 DEF OutputBufferFull
  <2>2. intact' => Len(sent') > Capacity
    <3> SUFFICES ASSUME intact'
                 PROVE  Len(sent') > Capacity
      OBVIOUS
    <3>1. output = sent
      BY <2>1 DEF Pass
    <3>2. Len(sent) \in Nat /\ Len(sent) >= Capacity /\ sent \in Seq(ByteValues)
      BY <2>1, <3>1, CapacityAssumption DEF Room, Inv, TypeOK
    <3>3. sent # <<>>
      BY <3>2, CapacityAssumption
    <3>4. Len(sent') = Len(sent) + 1
      <4>1. sent' = Append(sent, Byte)
        BY <2>1, <3>3 DEF Pass
      <4>2. Byte \in ByteValues
        BY <2>1, PassTypes DEF Inv, TypeInv
      <4> QED
        BY <3>2, <4>1, <4>2, AppendProperties
    <3> QED
      BY <3>2, <3>4, CapacityAssumption
  <2> QED
    BY <2>1, <2>2, ResetKeeps
<1>2. CASE Lose
  <2>1. Pass(FALSE) /\ FALSE \in BOOLEAN /\ ResetState /\ image' = <<>>
    BY <1>2 DEF Lose
  <2>2. ~intact'
    BY <2>1 DEF Pass
  <2> QED
    BY <2>1, <2>2, ResetKeeps
<1> QED
  BY <1>1, <1>2
-----------------------------------------------------------------------------
(* The theorems.                                                            *)

(* The invariant is inductive. *)
LEMMA Inductive ==
    ASSUME Missing = {}, Inv, [Next]_vars
    PROVE  Inv'
<1>1. TypeInv'
  BY TypeStep DEF Inv, TypeInv
<1>2. CASE UNCHANGED vars
  BY <1>1, <1>2
  DEF vars, parserVars, segmentVars, sensorVars, Inv, TypeInv, InStep, SoiMet, NoFalseSoi,
      FrameSent, NotLost, FramesExact, NothingMissed, FrameEnded, Synced, SoiPending, Position,
      Scanning
<1> QED
  BY <1>1, <1>2, PieceKeeps, SoiKeeps, PaddingKeeps, LookingKeeps, InMarkerKeeps, InEntropyKeeps,
     SegmentKeeps, LostKeeps DEF Next

(* It holds in the beginning. *)
LEMMA InitHolds ==
    ASSUME Init
    PROVE  Inv
<1>1. TypeOK /\ LengthFits
  <2>1. <<>> \in Seq(ByteValues) /\ Len(<<>>) <= Capacity /\ 0 \in ByteValues /\ 0 \in 0..MaxWord
    BY CapacityAssumption, WordFacts DEF ByteValues
  <2> QED
    BY <2>1 DEF Init, TypeOK, LengthFits, States, Sections
<1>2. ~Synced /\ ~SoiPending /\ sent = <<>> /\ wire = <<>> /\ image = <<>>
  BY DEF Init, Synced, SoiPending
<1>3. Len(sent) = 0 /\ Len(wire) = 0 /\ HidesNoSoi(wire)
  BY <1>2 DEF HidesNoSoi
<1>4. section = "between" /\ ~sawFF
  BY DEF Init
<1> QED
  BY <1>1, <1>2, <1>3, <1>4
  DEF Inv, InStep, SoiMet, NoFalseSoi, FrameSent, NotLost, FramesExact, NothingMissed, FrameEnded

(* The parser is always in step with the sensor, or knows that it is not. *)
THEOREM InvHolds ==
    ASSUME Missing = {}
    PROVE  Spec => []Inv
<1>1. Init => Inv
  BY InitHolds
<1>2. Inv /\ [Next]_vars => Inv'
  BY Inductive
<1> QED
  BY <1>1, <1>2, PTL DEF Spec

(* The variables of the parser keep their types, whatever segments announce:  *)
(* the output never runs beyond its buffer, and the length of a segment never *)
(* below zero.                                                               *)
THEOREM TypeCorrect == Spec => []TypeOK
<1>1. Init => TypeInv
  BY InitHolds DEF Inv, TypeInv
<1>2. TypeInv /\ [Next]_vars => TypeInv'
  BY TypeStep
<1>3. TypeInv => TypeOK
  BY DEF TypeInv
<1> QED
  BY <1>1, <1>2, <1>3, PTL DEF Spec

(* What the parser returns is the frame the sensor has just finished, as long *)
(* as no segment announces more than it has.                                 *)
THEOREM ReturnsFrames ==
    ASSUME Missing = {}
    PROVE  Spec => []FramesExact
<1>1. Inv => FramesExact
  BY DEF Inv
<1> QED
  BY <1>1, InvHolds, PTL

(* A frame that arrived in full and fits the buffer is returned, as long as   *)
(* no segment announces more than it has.                                    *)
THEOREM MissesNothing ==
    ASSUME Missing = {}
    PROVE  Spec => []NothingMissed
<1>1. Inv => NothingMissed
  BY DEF Inv
<1> QED
  BY <1>1, InvHolds, PTL
=============================================================================
