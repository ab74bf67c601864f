------------------------------ MODULE CameraProofs ------------------------------
(***************************************************************************)
(* Proofs about the two halves of the driver of the OV3660: Capture, for   *)
(* any ring, any chunk, any number of blocks in a frame and of frame       *)
(* numbers, and SensorConfig, for any clock and any sizes and levels asked *)
(* for.                                                                    *)
(***************************************************************************)
EXTENDS Capture, SensorConfig, SequenceTheorems, WellFoundedInduction, TLAPS

LastOf(s) == s[Len(s)]

\* The blocks of s follow one another in the sensor's stream.
Chained(s) == \A i \in 1..(Len(s) - 1) : s[i + 1] = After(s[i])

\* b comes right behind s in the stream.
Continues(s, b) == s # <<>> => b = After(LastOf(s))
-----------------------------------------------------------------------------
(* The inductive invariant.                                                 *)

\* What the parser has collected is the beginning of one frame.
FrameBegun ==
    /\ Len(collected) < Parts
    /\ \A i \in 1..Len(collected) : collected[i] = [frame |-> collected[1].frame, part |-> i]

\* Where there can be a chunk, and what a transfer that does not run leaves.
TaskPlaces ==
    /\ pc \in {"wait", "copy", "recover"} => chunk = <<>>
    /\ pc = "parse" => chunk # <<>>
    /\ transfer # "Active" => pc \in {"wait", "recover"} /\ ring = <<>>
    /\ transfer = "Idle" => collected = <<>>

\* A stop for want of descriptors leaves its interrupt pending until a recovery,
\* and the DMA stopped while a chunk is copied.
StopPending ==
    /\ stalled => "DescriptorEmpty" \in pending
    /\ pc = "copy" /\ "DescriptorEmpty" \in pending => stalled

\* The block the ring goes on with.
RingHead == IF ring = <<>> THEN next ELSE ring[1]

\* What is collected, the chunk and what will be copied are one piece of the
\* stream, whatever was lost behind it.
ChunkLinked ==
    /\ Chained(chunk)
    /\ chunk # <<>> => Continues(collected, chunk[1])
    /\ pc = "copy" => Chained(ring) /\ (ring # <<>> => Continues(collected, ring[1]))

\* So is everything up to the block the sensor sends next, as long as no stop is
\* pending.
StreamLinked ==
    pc # "recover" /\ "DescriptorEmpty" \notin pending =>
        /\ Chained(ring) /\ Continues(ring, next)
        /\ Continues(chunk, RingHead)
        /\ chunk = <<>> => Continues(collected, RingHead)

Inv ==
    /\ TypeOK
    /\ FramesWhole
    /\ FrameBegun
    /\ TaskPlaces
    /\ StopPending
    /\ ChunkLinked
    /\ StreamLinked
-----------------------------------------------------------------------------
(* Numbers, sequences and blocks.                                           *)

(* A set of naturals that is not empty has a least element. *)
LEMMA LeastElement ==
    ASSUME NEW S, S \subseteq Nat, S # {}
    PROVE  \E m \in S : \A n \in S : m <= n
<1> DEFINE R == OpToRel(<, Nat)
<1>1. IsWellFoundedOn(R, Nat)
  BY NatLessThanWellFounded
<1>2. \A m, n \in Nat : n < m => <<n, m>> \in R
  BY DEF OpToRel
<1> HIDE DEF R
<1>3. PICK m \in S : \A n \in S : ~(<<n, m>> \in R)
  BY <1>1, WFMin
<1>4. ASSUME NEW n \in S
      PROVE  m <= n
  <2>1. m \in Nat /\ n \in Nat
    OBVIOUS
  <2>2. ~(n < m)
    BY <1>2, <1>3, <2>1
  <2> QED
    BY <2>1, <2>2
<1> QED
  BY <1>4

(* The sensor sends block after block. *)
LEMMA AfterTypes ==
    ASSUME NEW b \in Blocks
    PROVE  /\ After(b) \in Blocks
           /\ ~IsLast(b) => After(b) = [frame |-> b.frame, part |-> b.part + 1]
<1>1. b.frame \in 1..FrameIds /\ b.part \in 1..Parts /\ b = [frame |-> b.frame, part |-> b.part]
  BY DEF Blocks
<1>2. FrameIds \in Nat \ {0} /\ Parts \in Nat \ {0}
  BY SizeAssumption
<1>3. CASE IsLast(b)
  <2>1. (b.frame % FrameIds) + 1 \in 1..FrameIds /\ 1 \in 1..Parts
    BY <1>1, <1>2
  <2> QED
    BY <1>3, <2>1 DEF After, Blocks
<1>4. CASE ~IsLast(b)
  <2>1. b.part + 1 \in 1..Parts
    BY <1>1, <1>2, <1>4 DEF IsLast
  <2>2. After(b) = [frame |-> b.frame, part |-> b.part + 1]
    BY <1>1, <1>4 DEF After
  <2> QED
    BY <1>1, <2>1, <2>2 DEF Blocks
<1> QED
  BY <1>3, <1>4

(* One block more at the end of a piece of the stream. *)
LEMMA ChainedAppend ==
    ASSUME NEW s \in Seq(Blocks), NEW b \in Blocks, Chained(s), Continues(s, b)
    PROVE  /\ Append(s, b) \in Seq(Blocks) /\ Append(s, b) # <<>>
           /\ Len(Append(s, b)) = Len(s) + 1
           /\ LastOf(Append(s, b)) = b
           /\ Append(s, b)[1] = IF s = <<>> THEN b ELSE s[1]
           /\ Chained(Append(s, b))
<1>1. /\ Append(s, b) \in Seq(Blocks)
      /\ Len(s) \in Nat /\ Len(Append(s, b)) = Len(s) + 1
      /\ Append(s, b)[Len(s) + 1] = b
      /\ \A i \in 1..Len(s) : Append(s, b)[i] = s[i]
  BY LenProperties
<1>2. Append(s, b) # <<>>
  BY <1>1, EmptySeq
<1>3. Append(s, b)[1] = IF s = <<>> THEN b ELSE s[1]
  <2>1. CASE s = <<>>
    BY <1>1, <2>1, EmptySeq
  <2>2. CASE s # <<>>
    <3>1. 1 \in 1..Len(s)
      BY <1>1, <2>2, EmptySeq
    <3> QED
      BY <1>1, <2>2, <3>1
  <2> QED
    BY <2>1, <2>2
<1>4. Chained(Append(s, b))
  <2> SUFFICES ASSUME NEW i \in 1..Len(s)
               PROVE  Append(s, b)[i + 1] = After(Append(s, b)[i])
    BY <1>1 DEF Chained
  <2>1. CASE i = Len(s)
    BY <1>1, <2>1, EmptySeq DEF Continues, LastOf
  <2>2. CASE i # Len(s)
    <3>1. i \in 1..(Len(s) - 1) /\ i + 1 \in 1..Len(s)
      BY <1>1, <2>2
    <3> QED
      BY <1>1, <3>1 DEF Chained
  <2> QED
    BY <2>1, <2>2
<1> QED
  BY <1>1, <1>2, <1>3, <1>4 DEF LastOf

(* One block less at its beginning. *)
LEMMA ChainedTail ==
    ASSUME NEW s \in Seq(Blocks), s # <<>>, Chained(s)
    PROVE  /\ Head(s) \in Blocks /\ Head(s) = s[1]
           /\ Tail(s) \in Seq(Blocks) /\ Len(Tail(s)) = Len(s) - 1
           /\ Chained(Tail(s))
           /\ Tail(s) = <<>> => Head(s) = LastOf(s)
           /\ Tail(s) # <<>> => Tail(s)[1] = After(Head(s)) /\ LastOf(Tail(s)) = LastOf(s)
<1>1. /\ Head(s) \in Blocks /\ Head(s) = s[1]
      /\ Tail(s) \in Seq(Blocks)
      /\ Len(s) \in Nat \ {0} /\ Len(Tail(s)) = Len(s) - 1
      /\ \A i \in 1..Len(Tail(s)) : Tail(s)[i] = s[i + 1]
  BY HeadTailProperties, EmptySeq
<1>2. Chained(Tail(s))
  <2> SUFFICES ASSUME NEW i \in 1..(Len(Tail(s)) - 1)
               PROVE  Tail(s)[i + 1] = After(Tail(s)[i])
    BY DEF Chained
  <2>1. /\ i \in 1..Len(Tail(s)) /\ i + 1 \in 1..Len(Tail(s))
        /\ i + 1 \in 1..(Len(s) - 1)
    BY <1>1
  <2> QED
    BY <1>1, <2>1 DEF Chained
<1>3. Tail(s) = <<>> => Head(s) = LastOf(s)
  BY <1>1, EmptySeq DEF LastOf
<1>4. ASSUME Tail(s) # <<>>
      PROVE  Tail(s)[1] = After(Head(s)) /\ LastOf(Tail(s)) = LastOf(s)
  <2>1. Len(Tail(s)) \in Nat \ {0}
    BY <1>1, <1>4, EmptySeq
  <2>2. 1 \in 1..Len(Tail(s)) /\ Len(Tail(s)) \in 1..Len(Tail(s)) /\ 1 \in 1..(Len(s) - 1)
    BY <1>1, <2>1
  <2> QED
    BY <1>1, <2>2 DEF Chained, LastOf
<1> QED
  BY <1>1, <1>2, <1>3, <1>4

(* A chunk cut off from the ring at any place goes on in what stays there. *)
LEMMA ChainedCut ==
    ASSUME NEW s \in Seq(Blocks), NEW n \in 0..Len(s)
    PROVE  LET front == SubSeq(s, 1, n)
               back  == SubSeq(s, n + 1, Len(s))
           IN  /\ front \in Seq(Blocks) /\ Len(front) = n
               /\ back \in Seq(Blocks) /\ Len(back) = Len(s) - n
               /\ front # <<>> => front[1] = s[1] /\ s # <<>>
               /\ back # <<>> => LastOf(back) = LastOf(s) /\ s # <<>>
               /\ front = <<>> => back = s
               /\ back = <<>> /\ front # <<>> => LastOf(front) = LastOf(s)
               /\ Chained(s) =>
                      /\ Chained(front) /\ Chained(back)
                      /\ back # <<>> => Continues(front, back[1])
<1> DEFINE front == SubSeq(s, 1, n)
           back  == SubSeq(s, n + 1, Len(s))
<1>1. Len(s) \in Nat /\ n \in Nat /\ n <= Len(s)
  BY LenProperties
<1>2. /\ front \in Seq(Blocks) /\ Len(front) = n
      /\ \A i \in 1..n : front[i] = s[i]
  <2>1. \A i \in 1..n : s[i] \in Blocks
    BY <1>1, ElementOfSeq
  <2> QED
    BY <1>1, <2>1, SubSeqProperties
<1>3. /\ back \in Seq(Blocks) /\ Len(back) = Len(s) - n
      /\ \A i \in 1..(Len(s) - n) : back[i] = s[n + i]
  <2>1. \A i \in (n + 1)..Len(s) : s[i] \in Blocks
    BY <1>1, ElementOfSeq
  <2>2. /\ back \in Seq(Blocks)
        /\ Len(back) = IF n + 1 <= Len(s) THEN Len(s) - (n + 1) + 1 ELSE 0
        /\ \A i \in 1..(Len(s) - (n + 1) + 1) : back[i] = s[(n + 1) + i - 1]
    BY <1>1, <2>1, SubSeqProperties
  <2> HIDE DEF back
  <2>3. Len(s) - (n + 1) + 1 = Len(s) - n
    BY <1>1
  <2>4. Len(back) = Len(s) - n
    <3> DEFINE m == Len(s)
    <3>1. m \in Nat /\ n \in Nat /\ n <= m
      BY <1>1
    <3>2. Len(back) = IF n + 1 <= m THEN m - (n + 1) + 1 ELSE 0
      BY <2>2
    <3> HIDE DEF m
    <3>3. n + 1 <= m => Len(back) = m - n
      <4>1. n + 1 <= m => m - (n + 1) + 1 = m - n
        BY <3>1
      <4> QED
        BY <3>2, <4>1
    <3>4. ~(n + 1 <= m) => Len(back) = m - n
      <4>1. ~(n + 1 <= m) => m - n = 0
        BY <3>1
      <4> QED
        BY <3>2, <4>1
    <3>5. Len(back) = m - n
      BY <3>3, <3>4
    <3> QED
      BY <3>5 DEF m
  <2>5. ASSUME NEW i \in 1..(Len(s) - n)
        PROVE  back[i] = s[n + i]
    <3>1. (n + 1) + i - 1 = n + i
      BY <1>1
    <3>2. back[i] = s[(n + 1) + i - 1]
      BY <2>2, <2>3
    <3> QED
      BY <3>1, <3>2
  <2> QED
    BY <2>2, <2>4, <2>5
<1> HIDE DEF front, back
<1>4. /\ front # <<>> => n \in 1..Len(s)
      /\ front = <<>> => n = 0
      /\ back # <<>> => Len(back) \in 1..(Len(s) - n)
      /\ back = <<>> => n = Len(s)
  BY <1>1, <1>2, <1>3, EmptySeq
<1>5. front # <<>> => front[1] = s[1] /\ s # <<>>
  BY <1>1, <1>2, <1>4, EmptySeq
<1>6. back # <<>> => LastOf(back) = LastOf(s) /\ s # <<>>
  <2> SUFFICES ASSUME back # <<>>
               PROVE  LastOf(back) = LastOf(s) /\ s # <<>>
    OBVIOUS
  <2>1. n + Len(back) = Len(s) /\ Len(s) # 0
    BY <1>1, <1>3, <1>4
  <2> QED
    BY <1>3, <1>4, <2>1, EmptySeq DEF LastOf
<1>7. front = <<>> => back = s
  <2> SUFFICES ASSUME front = <<>>
               PROVE  back = s
    OBVIOUS
  <2>1. n = 0
    BY <1>4
  <2>2. \A i \in 1..Len(s) : back[i] = s[i]
    BY <1>1, <1>3, <2>1
  <2> QED
    BY <1>1, <1>3, <2>1, <2>2, SeqEqual
<1>8. back = <<>> /\ front # <<>> => LastOf(front) = LastOf(s)
  BY <1>2, <1>4 DEF LastOf
<1>9. ASSUME Chained(s)
      PROVE  Chained(front) /\ Chained(back) /\ (back # <<>> => Continues(front, back[1]))
  <2>1. Chained(front)
    <3> SUFFICES ASSUME NEW i \in 1..(n - 1)
                 PROVE  front[i + 1] = After(front[i])
      BY <1>2 DEF Chained
    <3>1. i \in 1..n /\ i + 1 \in 1..n /\ i \in 1..(Len(s) - 1)
      BY <1>1
    <3> QED
      BY <1>2, <1>9, <3>1 DEF Chained
  <2>2. Chained(back)
    <3> SUFFICES ASSUME NEW i \in 1..(Len(s) - n - 1)
                 PROVE  back[i + 1] = After(back[i])
      BY <1>3 DEF Chained
    <3>1. /\ i \in 1..(Len(s) - n) /\ i + 1 \in 1..(Len(s) - n)
          /\ n + i \in 1..(Len(s) - 1) /\ n + (i + 1) = (n + i) + 1
      BY <1>1
    <3>2. s[(n + i) + 1] = After(s[n + i])
      BY <1>9, <3>1 DEF Chained
    <3> QED
      BY <1>3, <3>1, <3>2
  <2>3. ASSUME back # <<>>, front # <<>>
        PROVE  back[1] = After(LastOf(front))
    <3>1. /\ n \in 1..(Len(s) - 1) /\ 1 \in 1..(Len(s) - n)
      BY <1>1, <1>4, <2>3
    <3>2. s[n + 1] = After(s[n])
      BY <1>9, <3>1 DEF Chained
    <3>3. n \in 1..n
      BY <1>4, <2>3
    <3> QED
      BY <1>2, <1>3, <3>1, <3>2, <3>3 DEF LastOf
  <2> QED
    BY <2>1, <2>2, <2>3 DEF Continues
<1> QED
  BY <1>2, <1>3, <1>5, <1>6, <1>7, <1>8, <1>9 DEF front, back
-----------------------------------------------------------------------------
(* The types of every part of the state.                                    *)

(* peek_until_eof sees some blocks of the ring, all of them but those behind   *)
(* the first that ends a frame.                                              *)
LEMMA UntilEofTypes ==
    ASSUME TypeOK
    PROVE  /\ UntilEof \in 0..Len(ring)
           /\ UntilEof = 0 => ring = <<>>
<1> DEFINE ends == {i \in 1..Len(ring) : IsLast(ring[i])}
<1>1. Len(ring) \in Nat /\ (Len(ring) = 0 => ring = <<>>)
  BY EmptySeq DEF TypeOK
<1>2. CASE ends = {}
  BY <1>1, <1>2 DEF UntilEof
<1>3. CASE ends # {}
  <2>1. ends \subseteq Nat
    BY <1>1
  <2>2. \E i \in ends : \A j \in ends : i <= j
    <3> HIDE DEF ends
    <3> QED
      BY <1>3, <2>1, LeastElement
  <2>3. UntilEof = CHOOSE i \in ends : \A j \in ends : i <= j
    BY <1>3 DEF UntilEof
  <2>4. UntilEof \in ends
    <3> HIDE DEF ends
    <3> QED
      BY <2>2, <2>3
  <2> QED
    BY <1>1, <2>4
<1> QED
  BY <1>2, <1>3

(* What a copy takes from the ring fits the chunk, and is nothing only if the  *)
(* ring is empty.                                                            *)
LEMMA CopyFacts ==
    ASSUME TypeOK, CopyChunk
    PROVE  \E n \in 0..Len(ring) :
               /\ n <= ChunkCap /\ (n = 0 => ring = <<>>)
               /\ chunk' = SubSeq(ring, 1, n)
               /\ ring' = SubSeq(ring, n + 1, Len(ring))
<1> DEFINE n == IF UntilEof < ChunkCap THEN UntilEof ELSE ChunkCap
<1>1. UntilEof \in 0..Len(ring) /\ (UntilEof = 0 => ring = <<>>)
  BY UntilEofTypes
<1>2. Len(ring) \in Nat /\ ChunkCap \in Nat \ {0}
  BY SizeAssumption, LenProperties DEF TypeOK
<1>3. n \in 0..Len(ring) /\ n <= ChunkCap /\ (n = 0 => ring = <<>>)
  BY <1>1, <1>2
<1>4. chunk' = SubSeq(ring, 1, n) /\ ring' = SubSeq(ring, n + 1, Len(ring))
  BY DEF CopyChunk
<1> HIDE DEF n
<1> QED
  BY <1>3, <1>4

(* The parser goes on, begins a frame or looks for one. *)
LEMMA CollectTypes ==
    ASSUME TypeOK, NEW b \in Blocks
    PROVE  Collect(b) \in Seq(Blocks)
<1>1. <<b>> \in Seq(Blocks) /\ <<>> \in Seq(Blocks)
  OBVIOUS
<1>2. Append(collected, b) \in Seq(Blocks)
  BY DEF TypeOK
<1> QED
  BY <1>1, <1>2 DEF Collect

(* Every step of the ring and of the camera task keeps the types. *)
LEMMA TypeStep ==
    ASSUME TypeOK, TaskPlaces, [Next]_vars
    PROVE  TypeOK'
<1>1. <<>> \in Seq(Blocks) /\ Len(<<>>) = 0 /\ 0 <= RingCap /\ 0 <= ChunkCap
  BY SizeAssumption
<1>2. CASE SensorBlock
  <2>1. next' \in Blocks
    BY <1>2, AfterTypes DEF SensorBlock, TypeOK
  <2>2. ring' \in Seq(Blocks) /\ Len(ring') <= RingCap
    <3>1. CASE ring' = ring
      BY <3>1 DEF TypeOK
    <3>2. CASE Len(ring) < RingCap /\ ring' = Append(ring, next)
      <4>1. Len(ring) \in Nat /\ RingCap \in Nat
        BY SizeAssumption, LenProperties DEF TypeOK
      <4>2. Append(ring, next) \in Seq(Blocks) /\ Len(Append(ring, next)) = Len(ring) + 1
        BY <3>2 DEF TypeOK
      <4> QED
        BY <3>2, <4>1, <4>2
    <3> QED
      BY <1>2, <3>1, <3>2 DEF SensorBlock, dmaVars
  <2>3. pending' \subseteq Interrupts /\ stalled' \in BOOLEAN
    BY <1>2 DEF SensorBlock, dmaVars, Interrupts, TypeOK
  <2> QED
    BY <1>2, <2>1, <2>2, <2>3 DEF SensorBlock, taskVars, TypeOK
<1>3. CASE DmaError
  BY <1>3 DEF DmaError, taskVars, Interrupts, TypeOK
<1>4. CASE WaitDescriptorEmpty \/ WaitError \/ WaitTimeout
  BY <1>1, <1>4 DEF WaitDescriptorEmpty, WaitError, WaitTimeout, BeginRecovery, TypeOK
<1>5. CASE WaitDone
  BY <1>5 DEF WaitDone, Waiting, TypeOK
<1>6. CASE CopyChunk
  <2>1. PICK n \in 0..Len(ring) :
            /\ n <= ChunkCap
            /\ chunk' = SubSeq(ring, 1, n)
            /\ ring' = SubSeq(ring, n + 1, Len(ring))
    BY <1>6, CopyFacts
  <2>2. Len(ring) \in Nat /\ RingCap \in Nat /\ ring \in Seq(Blocks)
    BY SizeAssumption, LenProperties DEF TypeOK
  <2>3. /\ chunk' \in Seq(Blocks) /\ Len(chunk') = n
        /\ ring' \in Seq(Blocks) /\ Len(ring') = Len(ring) - n
    BY <2>1, <2>2, ChainedCut
  <2>4. Len(ring') <= RingCap /\ Len(chunk') <= ChunkCap
    BY <2>1, <2>2, <2>3 DEF TypeOK
  <2>5. eof' \in BOOLEAN
    BY <1>6 DEF CopyChunk
  <2> QED
    BY <1>6, <2>3, <2>4, <2>5 DEF CopyChunk, TypeOK
<1>7. CASE ResumeDma
  BY <1>1, <1>7 DEF ResumeDma, TypeOK
<1>8. CASE RestartTransfer \/ StartIdle \/ StartIdleFails
  BY <1>1, <1>8 DEF RestartTransfer, StartIdle, StartIdleFails, dmaVars, TypeOK
<1>9. CASE ParseBlock
  <2>1. chunk \in Seq(Blocks) /\ chunk # <<>>
    BY <1>9 DEF ParseBlock, TaskPlaces, TypeOK
  <2>2. Head(chunk) \in Blocks /\ Tail(chunk) \in Seq(Blocks) /\ Len(Tail(chunk)) = Len(chunk) - 1
    BY <2>1, HeadTailProperties
  <2>3. Collect(Head(chunk)) \in Seq(Blocks)
    BY <2>2, CollectTypes
  <2>4. Len(chunk') <= ChunkCap
    BY <1>9, <2>1, <2>2, SizeAssumption, LenProperties DEF ParseBlock, TypeOK
  <2>5. collected' \in Seq(Blocks) /\ published' \in Seq(Blocks)
    BY <1>1, <1>9, <2>3 DEF ParseBlock, TypeOK
  <2> QED
    BY <1>9, <2>2, <2>4, <2>5 DEF ParseBlock, dmaVars, TypeOK
<1>10. CASE GiveUp
  BY <1>1, <1>10 DEF GiveUp, dmaVars, TypeOK
<1>11. CASE UNCHANGED vars
  BY <1>11 DEF vars, dmaVars, taskVars, TypeOK
<1> QED
  BY <1>2, <1>3, <1>4, <1>5, <1>6, <1>7, <1>8, <1>9, <1>10, <1>11 DEF Next
-----------------------------------------------------------------------------
(* What the parser collects.                                                *)

(* The parser is given the blocks of the stream in order, so that what it has  *)
(* collected with block b is the frame of b from its beginning up to b.      *)
LEMMA CollectFacts ==
    ASSUME TypeOK, FrameBegun, NEW b \in Blocks, Continues(collected, b), Collect(b) # <<>>
    PROVE  /\ Len(Collect(b)) = b.part /\ LastOf(Collect(b)) = b
           /\ \A i \in 1..Len(Collect(b)) : Collect(b)[i] = [frame |-> b.frame, part |-> i]
<1>1. b.part \in 1..Parts /\ b = [frame |-> b.frame, part |-> b.part]
  BY DEF Blocks
<1>2. CASE IsFirst(b)
  <2>1. Collect(b) = <<b>> /\ b.part = 1
    BY <1>2 DEF Collect, IsFirst
  <2>2. Len(<<b>>) = 1 /\ <<b>>[1] = b
    OBVIOUS
  <2>3. \A i \in 1..1 : <<b>>[i] = [frame |-> b.frame, part |-> i]
    BY <1>1, <2>1, <2>2
  <2> QED
    BY <2>1, <2>2, <2>3 DEF LastOf
<1>3. CASE ~IsFirst(b)
  <2> DEFINE n == Len(collected)
             f == collected[1].frame
  <2>1. collected # <<>> /\ Collect(b) = Append(collected, b)
    BY <1>3 DEF Collect
  <2>2. /\ collected \in Seq(Blocks) /\ n \in Nat \ {0} /\ n < Parts
        /\ \A i \in 1..n : collected[i] = [frame |-> f, part |-> i]
    BY <2>1, EmptySeq DEF TypeOK, FrameBegun
  <2>3. LastOf(collected) = [frame |-> f, part |-> n] /\ LastOf(collected) \in Blocks
    BY <2>2, ElementOfSeq DEF LastOf
  <2>4. ~IsLast(LastOf(collected))
    BY <2>2, <2>3, SizeAssumption DEF IsLast
  <2>5. b = [frame |-> f, part |-> n + 1]
    BY <2>1, <2>3, <2>4, AfterTypes DEF Continues
  <2>6. /\ Len(Append(collected, b)) = n + 1
        /\ Append(collected, b)[n + 1] = b
        /\ \A i \in 1..n : Append(collected, b)[i] = collected[i]
    BY <2>2, LenProperties
  <2>7. ASSUME NEW i \in 1..(n + 1)
        PROVE  Append(collected, b)[i] = [frame |-> b.frame, part |-> i]
    <3>1. CASE i = n + 1
      BY <2>5, <2>6, <3>1
    <3>2. CASE i # n + 1
      <4>1. i \in 1..n
        BY <2>2, <3>2
      <4> QED
        BY <2>2, <2>5, <2>6, <4>1
    <3> QED
      BY <3>1, <3>2
  <2> QED
    BY <2>1, <2>5, <2>6, <2>7 DEF LastOf
<1> QED
  BY <1>2, <1>3
-----------------------------------------------------------------------------
(* The invariant is inductive: one lemma for each action that moves blocks.  *)

(* A block filled goes on with the ring; one lost leaves its interrupt behind, *)
(* or finds a task that starts over.                                         *)
LEMMA SensorBlockInv ==
    ASSUME Inv, SensorBlock
    PROVE  FramesWhole' /\ FrameBegun' /\ TaskPlaces' /\ StopPending' /\ ChunkLinked'
           /\ StreamLinked'
<1>1. UNCHANGED <<transfer, resyncing, pc, chunk, eof, collected, published>>
  BY DEF SensorBlock, taskVars
<1>2. FramesWhole' /\ FrameBegun'
  BY <1>1 DEF Inv, FramesWhole, FrameBegun
<1>3. TaskPlaces'
  BY <1>1 DEF SensorBlock, Filling, dmaVars, Inv, TaskPlaces
<1>4. StopPending'
  BY <1>1 DEF SensorBlock, dmaVars, Filling, Inv, StopPending
<1>5. ring \in Seq(Blocks) /\ next \in Blocks
  BY DEF Inv, TypeOK
<1>6. CASE Filling /\ Len(ring) < RingCap /\ ring' = Append(ring, next)
           /\ pending' = pending \cup {"Done"}
  <2>1. next' = After(next) /\ ~stalled /\ transfer = "Active" /\ pc # "recover"
    BY <1>6 DEF SensorBlock, Filling, Inv, TypeOK
  <2>2. ASSUME "DescriptorEmpty" \notin pending
        PROVE  /\ Chained(ring') /\ LastOf(ring') = next /\ ring' # <<>>
               /\ ring'[1] = RingHead
    <3>1. Chained(ring) /\ Continues(ring, next)
      BY <2>1, <2>2 DEF Inv, StreamLinked
    <3> QED
      BY <1>5, <1>6, <3>1, ChainedAppend DEF RingHead
  <2>3. RingHead' = IF ring' = <<>> THEN next' ELSE ring'[1]
    BY DEF RingHead
  <2>4. ChunkLinked'
    <3>1. ASSUME pc = "copy"
          PROVE  Chained(ring') /\ Continues(collected, ring'[1])
      <4>1. "DescriptorEmpty" \notin pending /\ chunk = <<>>
        BY <2>1, <3>1 DEF Inv, StopPending, TaskPlaces
      <4> QED
        BY <2>1, <2>2, <4>1 DEF Inv, StreamLinked
    <3> QED
      BY <1>1, <3>1 DEF Inv, ChunkLinked, Chained, Continues, LastOf
  <2>5. StreamLinked'
    <3> SUFFICES ASSUME "DescriptorEmpty" \notin pending'
                 PROVE  /\ Chained(ring') /\ Continues(ring', next')
                        /\ Continues(chunk, RingHead')
                        /\ chunk = <<>> => Continues(collected, RingHead')
      BY <1>1 DEF StreamLinked, Chained, Continues, LastOf
    <3>1. "DescriptorEmpty" \notin pending
      BY <1>6
    <3>2. Chained(ring') /\ LastOf(ring') = next /\ RingHead' = RingHead
      BY <2>2, <2>3, <3>1
    <3>3. Continues(chunk, RingHead) /\ (chunk = <<>> => Continues(collected, RingHead))
      BY <2>1, <3>1 DEF Inv, StreamLinked
    <3> QED
      BY <2>1, <3>2, <3>3 DEF Continues
  <2> QED
    BY <1>2, <1>3, <1>4, <2>4, <2>5
<1>7. CASE ring' = ring /\ "DescriptorEmpty" \in pending'
  <2>1. ChunkLinked'
    BY <1>1, <1>7 DEF Inv, ChunkLinked, Chained, Continues, LastOf
  <2>2. StreamLinked'
    BY <1>7 DEF StreamLinked
  <2> QED
    BY <1>2, <1>3, <1>4, <2>1, <2>2
<1>8. CASE ~Filling /\ UNCHANGED dmaVars
  <2>1. ring' = ring /\ pending' = pending
    BY <1>8 DEF dmaVars
  <2>2. CASE stalled
    BY <1>7, <2>1, <2>2 DEF Inv, StopPending
  <2>3. CASE ~stalled
    <3>1. transfer # "Active"
      BY <1>8, <2>3 DEF Filling
    <3>2. /\ ring = <<>> /\ chunk = <<>>
          /\ pc # "copy" /\ (pc # "recover" => collected = <<>>)
      BY <3>1 DEF Inv, TypeOK, TaskPlaces
    <3>3. ChunkLinked'
      BY <1>1, <3>2 DEF Inv, ChunkLinked, Chained, Continues, LastOf
    <3>4. Chained(<<>>)
      BY <3>2 DEF Inv, ChunkLinked
    <3>5. StreamLinked'
      BY <1>1, <2>1, <3>2, <3>4 DEF StreamLinked, Chained, Continues, LastOf
    <3> QED
      BY <1>2, <1>3, <1>4, <3>3, <3>5
  <2> QED
    BY <2>2, <2>3
<1> QED
  BY <1>6, <1>7, <1>8 DEF SensorBlock

(* A copy cuts the ring in two that still follow one another.                  *)
LEMMA CopyChunkInv ==
    ASSUME Inv, CopyChunk
    PROVE  FramesWhole' /\ FrameBegun' /\ TaskPlaces' /\ StopPending' /\ ChunkLinked'
           /\ StreamLinked'
<1>1. /\ pc = "copy" /\ pc' = "resume"
      /\ UNCHANGED <<next, stalled, pending, transfer, resyncing, collected, published>>
  BY DEF CopyChunk
<1>2. FramesWhole' /\ FrameBegun' /\ StopPending'
  BY <1>1 DEF Inv, FramesWhole, FrameBegun, StopPending
<1>3. TaskPlaces'
  BY <1>1 DEF Inv, TaskPlaces
<1>4. /\ chunk = <<>> /\ Chained(ring) /\ (ring # <<>> => Continues(collected, ring[1]))
  BY <1>1 DEF Inv, TaskPlaces, ChunkLinked
<1>5. PICK n \in 0..Len(ring) :
          /\ chunk' = SubSeq(ring, 1, n)
          /\ ring' = SubSeq(ring, n + 1, Len(ring))
  BY CopyFacts DEF Inv
<1>6. /\ chunk' # <<>> => chunk'[1] = ring[1] /\ ring # <<>>
      /\ ring' # <<>> => LastOf(ring') = LastOf(ring) /\ ring # <<>>
      /\ chunk' = <<>> => ring' = ring
      /\ ring' = <<>> /\ chunk' # <<>> => LastOf(chunk') = LastOf(ring)
      /\ Chained(chunk') /\ Chained(ring')
      /\ ring' # <<>> => Continues(chunk', ring'[1])
  <2>1. ring \in Seq(Blocks)
    BY DEF Inv, TypeOK
  <2> QED
    BY <1>4, <1>5, <2>1, ChainedCut
<1>7. ChunkLinked'
  BY <1>1, <1>4, <1>6 DEF ChunkLinked, Chained, Continues, LastOf
<1>8. StreamLinked'
  <2> SUFFICES ASSUME "DescriptorEmpty" \notin pending
               PROVE  /\ Chained(ring') /\ Continues(ring', next)
                      /\ Continues(chunk', RingHead')
                      /\ chunk' = <<>> => Continues(collected, RingHead')
    BY <1>1 DEF StreamLinked, Chained, Continues, LastOf
  <2>1. /\ Continues(ring, next)
        /\ Continues(collected, RingHead)
    BY <1>1, <1>4 DEF Inv, StreamLinked
  <2>2. RingHead' = IF ring' = <<>> THEN next ELSE ring'[1]
    BY <1>1 DEF RingHead
  <2>3. Continues(ring', next)
    BY <1>6, <2>1 DEF Continues
  <2>4. Continues(chunk', RingHead')
    BY <1>6, <2>1, <2>2 DEF Continues
  <2>5. chunk' = <<>> => Continues(collected, RingHead')
    BY <1>6, <2>1, <2>2 DEF RingHead
  <2> QED
    BY <1>6, <2>3, <2>4, <2>5
<1> QED
  BY <1>2, <1>3, <1>7, <1>8

(* A chunk is dropped with what was collected, found empty, or handed on.      *)
LEMMA ResumeDmaInv ==
    ASSUME Inv, ResumeDma
    PROVE  FramesWhole' /\ FrameBegun' /\ TaskPlaces' /\ StopPending' /\ ChunkLinked'
           /\ StreamLinked'
<1>1. /\ pc = "resume" /\ stalled' = FALSE
      /\ UNCHANGED <<next, ring, pending, transfer, eof, published>>
  BY DEF ResumeDma
<1>2. FramesWhole'
  BY <1>1 DEF Inv, FramesWhole
<1>3. Parts \in Nat \ {0} /\ Len(<<>>) = 0 /\ Chained(<<>>)
  BY SizeAssumption DEF Chained
<1>4. RingHead' = RingHead
  BY <1>1 DEF RingHead
<1>5. CASE /\ pc' = "wait" /\ chunk' = <<>>
           /\ collected' = <<>> \/ (collected' = collected /\ chunk = <<>>)
  <2>1. FrameBegun'
    <3>1. CASE collected' = <<>>
      BY <1>3, <3>1 DEF FrameBegun
    <3>2. CASE collected' = collected
      BY <3>2 DEF Inv, FrameBegun
    <3> QED
      BY <1>5, <3>1, <3>2
  <2>2. TaskPlaces' /\ StopPending'
    BY <1>1, <1>5 DEF Inv, TypeOK, TaskPlaces, StopPending
  <2>3. ChunkLinked'
    BY <1>3, <1>5 DEF ChunkLinked
  <2>4. StreamLinked'
    <3> SUFFICES ASSUME "DescriptorEmpty" \notin pending
                 PROVE  Chained(ring) /\ Continues(ring, next) /\ Continues(collected', RingHead)
      BY <1>1, <1>4, <1>5 DEF StreamLinked, Chained, Continues, LastOf
    <3>1. /\ Chained(ring) /\ Continues(ring, next)
          /\ chunk = <<>> => Continues(collected, RingHead)
      BY <1>1 DEF Inv, StreamLinked
    <3> QED
      BY <1>5, <3>1 DEF Continues, LastOf
  <2> QED
    BY <1>2, <2>1, <2>2, <2>3, <2>4
<1>6. CASE pc' = "parse" /\ chunk # <<>> /\ UNCHANGED <<chunk, collected>>
  <2>1. FrameBegun' /\ TaskPlaces' /\ StopPending'
    BY <1>1, <1>6 DEF Inv, TypeOK, FrameBegun, TaskPlaces, StopPending
  <2>2. ChunkLinked'
    BY <1>6 DEF Inv, ChunkLinked, Chained, Continues, LastOf
  <2>3. StreamLinked'
    BY <1>1, <1>4, <1>6 DEF Inv, StreamLinked, Chained, Continues, LastOf
  <2> QED
    BY <1>2, <2>1, <2>2, <2>3
<1>7. CASE resyncing' \/ chunk = <<>>
  <2>1. pc' = "wait" /\ chunk' = <<>>
    BY <1>7 DEF ResumeDma
  <2>2. CASE resyncing'
    <3>1. collected' = <<>>
      BY <2>2 DEF ResumeDma
    <3> QED
      BY <1>5, <2>1, <3>1
  <2>3. CASE ~resyncing'
    <3>1. collected' = collected /\ chunk = <<>>
      BY <1>7, <2>3 DEF ResumeDma
    <3> QED
      BY <1>5, <2>1, <3>1
  <2> QED
    BY <2>2, <2>3
<1>8. CASE ~(resyncing' \/ chunk = <<>>)
  <2>1. pc' = "parse" /\ UNCHANGED <<chunk, collected>>
    BY <1>8 DEF ResumeDma
  <2> QED
    BY <1>6, <1>8, <2>1
<1> QED
  BY <1>7, <1>8

(* The parser takes the block behind the one it took before.                   *)
LEMMA ParseBlockInv ==
    ASSUME Inv, ParseBlock
    PROVE  FramesWhole' /\ FrameBegun' /\ TaskPlaces' /\ StopPending' /\ ChunkLinked'
           /\ StreamLinked'
<1> DEFINE b == Head(chunk)
           frame == Collect(b)
<1>1. /\ pc = "parse" /\ pc' = IF chunk' = <<>> THEN "wait" ELSE "parse"
      /\ chunk' = Tail(chunk)
      /\ UNCHANGED <<next, ring, stalled, pending, transfer, resyncing, eof>>
  BY DEF ParseBlock, dmaVars
<1>2. chunk \in Seq(Blocks) /\ chunk # <<>>
  BY <1>1 DEF Inv, TypeOK, TaskPlaces
<1>3. /\ b \in Blocks /\ b = chunk[1]
      /\ Chained(chunk')
      /\ chunk' = <<>> => b = LastOf(chunk)
      /\ chunk' # <<>> => chunk'[1] = After(b) /\ LastOf(chunk') = LastOf(chunk)
  <2>1. Chained(chunk)
    BY DEF Inv, ChunkLinked
  <2> QED
    BY <1>1, <1>2, <2>1, ChainedTail
<1>4. Continues(collected, b)
  BY <1>2, <1>3 DEF Inv, ChunkLinked
<1>5. IF frame # <<>> /\ IsLast(b)
      THEN published' = frame /\ collected' = <<>>
      ELSE collected' = frame /\ published' = published
  BY DEF ParseBlock
<1>6. frame \in Seq(Blocks)
  BY <1>3, CollectTypes DEF Inv
<1>7. frame # <<>> => /\ Len(frame) = b.part /\ LastOf(frame) = b
                      /\ \A i \in 1..Len(frame) : frame[i] = [frame |-> b.frame, part |-> i]
  BY <1>3, <1>4, CollectFacts DEF Inv
<1> HIDE DEF frame, b
<1>8. b.frame \in 1..FrameIds /\ b.part \in 1..Parts /\ Parts \in Nat \ {0}
  BY <1>3, SizeAssumption DEF Blocks
<1>9. FramesWhole'
  <2>1. CASE frame # <<>> /\ IsLast(b)
    <3>1. Len(frame) = Parts
      BY <1>7, <2>1 DEF IsLast
    <3>2. frame = [i \in 1..Parts |-> [frame |-> b.frame, part |-> i]]
      BY <1>6, <1>7, <2>1, <3>1, LenProperties
    <3> QED
      BY <1>5, <1>8, <2>1, <3>2 DEF FramesWhole
  <2>2. CASE ~(frame # <<>> /\ IsLast(b))
    BY <1>5, <2>2 DEF Inv, FramesWhole
  <2> QED
    BY <2>1, <2>2
<1>10. /\ collected' # <<>> => collected' = frame /\ ~IsLast(b)
       /\ collected' # <<>> => LastOf(collected') = b
  BY <1>5, <1>7
<1>11. FrameBegun'
  <2>1. CASE collected' = <<>>
    <3>1. Len(<<>>) = 0
      OBVIOUS
    <3> QED
      BY <1>8, <2>1, <3>1 DEF FrameBegun
  <2>2. CASE collected' # <<>>
    <3>1. /\ collected' = frame
          /\ Len(frame) = b.part /\ b.part # Parts
          /\ \A i \in 1..Len(frame) : frame[i] = [frame |-> b.frame, part |-> i]
      BY <1>7, <1>10, <2>2 DEF IsLast
    <3>2. Len(frame) < Parts /\ 1 \in 1..Len(frame)
      BY <1>8, <3>1
    <3>3. frame[1].frame = b.frame
      <4>1. frame[1] = [frame |-> b.frame, part |-> 1]
        BY <3>1, <3>2
      <4> QED
        BY <4>1
    <3> QED
      BY <3>1, <3>2, <3>3 DEF FrameBegun
  <2> QED
    BY <2>1, <2>2
<1>12. TaskPlaces' /\ StopPending'
  <2>1. transfer = "Active"
    BY <1>1 DEF Inv, TaskPlaces
  <2> QED
    BY <1>1, <2>1 DEF Inv, TypeOK, TaskPlaces, StopPending
<1>13. ChunkLinked'
  BY <1>1, <1>3, <1>10 DEF ChunkLinked, Chained, Continues
<1>14. StreamLinked'
  <2> SUFFICES ASSUME "DescriptorEmpty" \notin pending
               PROVE  /\ Chained(ring) /\ Continues(ring, next)
                      /\ Continues(chunk', RingHead)
                      /\ chunk' = <<>> => Continues(collected', RingHead)
    BY <1>1 DEF StreamLinked, RingHead, Chained, Continues, LastOf
  <2>1. Chained(ring) /\ Continues(ring, next) /\ Continues(chunk, RingHead)
    BY <1>1 DEF Inv, StreamLinked
  <2>2. Continues(chunk', RingHead)
    BY <1>2, <1>3, <2>1 DEF Continues
  <2>3. chunk' = <<>> => Continues(collected', RingHead)
    BY <1>2, <1>3, <1>10, <2>1 DEF Continues
  <2> QED
    BY <2>1, <2>2, <2>3
<1> QED
  BY <1>9, <1>11, <1>12, <1>13, <1>14

(* No step breaks the chain without a stop pending, and none collects over it.  *)
LEMMA InvInductive ==
    ASSUME Inv, [Next]_vars
    PROVE  Inv'
<1>1. TypeOK'
  BY TypeStep DEF Inv
<1> SUFFICES FramesWhole' /\ FrameBegun' /\ TaskPlaces' /\ StopPending' /\ ChunkLinked'
             /\ StreamLinked'
  BY <1>1 DEF Inv
<1>2. Parts \in Nat \ {0} /\ Len(<<>>) = 0 /\ Chained(<<>>)
  BY SizeAssumption DEF Chained
<1>3. CASE DmaError
  <2>1. /\ pending' = pending \cup {"Error"}
        /\ UNCHANGED <<next, ring, stalled, transfer, resyncing, pc, chunk, eof, collected, published>>
    BY <1>3 DEF DmaError, taskVars
  <2>2. "DescriptorEmpty" \in pending' <=> "DescriptorEmpty" \in pending
    BY <2>1
  <2>3. FramesWhole' /\ FrameBegun' /\ TaskPlaces' /\ StopPending'
    BY <2>1, <2>2 DEF Inv, FramesWhole, FrameBegun, TaskPlaces, StopPending
  <2>4. ChunkLinked' /\ StreamLinked'
    BY <2>1, <2>2 DEF Inv, ChunkLinked, StreamLinked, RingHead, Chained, Continues, LastOf
  <2> QED
    BY <2>3, <2>4
<1>4. CASE WaitDescriptorEmpty \/ WaitError \/ WaitTimeout
  <2>1. /\ pc = "wait" /\ pc' = "recover" /\ transfer' = "Transitioning"
        /\ ring' = <<>> /\ stalled' = FALSE /\ pending' = {}
        /\ UNCHANGED <<next, chunk, eof, collected, published>>
    BY <1>4 DEF WaitDescriptorEmpty, WaitError, WaitTimeout, Waiting, BeginRecovery
  <2>2. FramesWhole' /\ FrameBegun' /\ TaskPlaces' /\ StopPending'
    BY <2>1 DEF Inv, FramesWhole, FrameBegun, TaskPlaces, StopPending
  <2>3. ChunkLinked' /\ StreamLinked'
    BY <2>1 DEF Inv, ChunkLinked, StreamLinked, Chained, Continues, LastOf
  <2> QED
    BY <2>2, <2>3
<1>5. CASE WaitDone
  <2>1. /\ pc = "wait" /\ transfer = "Active" /\ pc' = "copy" /\ "DescriptorEmpty" \notin pending
        /\ pending' = pending \ {"Done"}
        /\ UNCHANGED <<next, ring, stalled, transfer, resyncing, chunk, eof, collected, published>>
    BY <1>5 DEF WaitDone, Waiting
  <2>2. FramesWhole' /\ FrameBegun' /\ TaskPlaces' /\ StopPending'
    BY <2>1 DEF Inv, FramesWhole, FrameBegun, TaskPlaces, StopPending
  <2>3. chunk = <<>> /\ Chained(ring) /\ (ring # <<>> => Continues(collected, ring[1]))
    BY <2>1 DEF Inv, TaskPlaces, StreamLinked, RingHead
  <2>4. ChunkLinked'
    BY <2>1, <2>3 DEF Inv, ChunkLinked, Chained, Continues, LastOf
  <2>5. StreamLinked'
    BY <2>1 DEF Inv, StreamLinked, RingHead, Chained, Continues, LastOf
  <2> QED
    BY <2>2, <2>4, <2>5
<1>6. CASE RestartTransfer
  <2>1. /\ pc = "recover" /\ pc' = "wait" /\ transfer' \in {"Active", "Idle"}
        /\ collected' = <<>>
        /\ UNCHANGED <<next, ring, stalled, pending, resyncing, chunk, eof, published>>
    BY <1>6 DEF RestartTransfer, dmaVars
  <2>2. ring = <<>> /\ chunk = <<>>
    BY <2>1 DEF Inv, TypeOK, TaskPlaces
  <2>3. FramesWhole' /\ FrameBegun' /\ TaskPlaces' /\ StopPending'
    BY <1>2, <2>1, <2>2 DEF Inv, FramesWhole, FrameBegun, TaskPlaces, StopPending
  <2>4. ChunkLinked' /\ StreamLinked'
    BY <1>2, <2>1, <2>2 DEF ChunkLinked, StreamLinked, Continues
  <2> QED
    BY <2>3, <2>4
<1>7. CASE StartIdle \/ StartIdleFails
  <2>1. /\ pc = "wait" /\ transfer = "Idle" /\ transfer' \in {"Idle", "Active"}
        /\ UNCHANGED <<next, ring, stalled, pending, pc, chunk, eof, published>>
        /\ collected' \in {collected, <<>>}
    BY <1>7 DEF StartIdle, StartIdleFails, dmaVars
  <2>2. ring = <<>> /\ chunk = <<>> /\ collected = <<>> /\ collected' = <<>>
    BY <2>1 DEF Inv, TaskPlaces
  <2>3. FramesWhole' /\ FrameBegun' /\ TaskPlaces' /\ StopPending'
    BY <1>2, <2>1, <2>2 DEF Inv, FramesWhole, FrameBegun, TaskPlaces, StopPending
  <2>4. ChunkLinked' /\ StreamLinked'
    BY <1>2, <2>1, <2>2 DEF ChunkLinked, StreamLinked, Continues
  <2> QED
    BY <2>3, <2>4
<1>8. CASE GiveUp
  <2>1. /\ pc = "parse" /\ pc' = "wait" /\ chunk' = <<>> /\ collected' = <<>>
        /\ UNCHANGED <<next, ring, stalled, pending, transfer, resyncing, eof, published>>
    BY <1>8 DEF GiveUp, dmaVars
  <2>2. transfer = "Active"
    BY <2>1 DEF Inv, TaskPlaces
  <2>3. FramesWhole' /\ FrameBegun' /\ TaskPlaces' /\ StopPending'
    BY <1>2, <2>1, <2>2 DEF Inv, FramesWhole, FrameBegun, TaskPlaces, StopPending
  <2>4. ChunkLinked' /\ StreamLinked'
    BY <1>2, <2>1 DEF Inv, ChunkLinked, StreamLinked, Chained, Continues, LastOf
  <2> QED
    BY <2>3, <2>4
<1>9. CASE UNCHANGED vars
  <2>1. FramesWhole' /\ FrameBegun' /\ TaskPlaces' /\ StopPending'
    BY <1>9 DEF vars, dmaVars, taskVars, Inv, FramesWhole, FrameBegun, TaskPlaces, StopPending
  <2>2. ChunkLinked' /\ StreamLinked'
    BY <1>9 DEF vars, dmaVars, taskVars, Inv, ChunkLinked, StreamLinked, RingHead,
                Chained, Continues, LastOf
  <2> QED
    BY <2>1, <2>2
<1> QED
  BY <1>3, <1>4, <1>5, <1>6, <1>7, <1>8, <1>9,
     SensorBlockInv, CopyChunkInv, ResumeDmaInv, ParseBlockInv DEF Next

(* Every reachable state satisfies the invariant. *)
LEMMA InvHolds == Spec => []Inv
<1>1. ASSUME Init
      PROVE  Inv
  <2>1. <<>> \in Seq(Blocks) /\ Len(<<>>) = 0 /\ Chained(<<>>)
    BY DEF Chained
  <2>2. TypeOK
    <3>1. 0 <= RingCap /\ 0 <= ChunkCap
      BY SizeAssumption
    <3>2. next \in Blocks
      BY <1>1 DEF Init
    <3>3. ring \in Seq(Blocks) /\ Len(ring) <= RingCap /\ chunk \in Seq(Blocks) /\ Len(chunk) <= ChunkCap
      BY <1>1, <2>1, <3>1 DEF Init
    <3>4. collected \in Seq(Blocks) /\ published \in Seq(Blocks)
      BY <1>1, <2>1 DEF Init
    <3>5. /\ stalled \in BOOLEAN /\ resyncing \in BOOLEAN /\ eof \in BOOLEAN
          /\ pending \subseteq Interrupts
      BY <1>1 DEF Init
    <3>6. transfer = "Active" /\ pc = "wait"
      BY <1>1 DEF Init
    <3> QED
      BY <3>2, <3>3, <3>4, <3>5, <3>6 DEF TypeOK
  <2>3. FramesWhole /\ FrameBegun /\ TaskPlaces /\ StopPending
    BY <1>1, <2>1, SizeAssumption DEF Init, FramesWhole, FrameBegun, TaskPlaces, StopPending
  <2>4. ChunkLinked /\ StreamLinked
    BY <1>1, <2>1 DEF Init, ChunkLinked, StreamLinked, Continues
  <2> QED
    BY <2>2, <2>3, <2>4 DEF Inv
<1>2. Inv /\ [Next]_vars => Inv'
  BY InvInductive
<1> QED
  BY <1>1, <1>2, PTL DEF Spec
-----------------------------------------------------------------------------
(* Every state of the DMA, the capture and the parse loop is one of the type   *)
(* invariant's: neither ring nor chunk overflows.                            *)
THEOREM TypeCorrect == Spec => []TypeOK
<1>1. Inv => TypeOK
  BY DEF Inv
<1> QED
  BY <1>1, InvHolds, PTL

(* A frame that is published is every block of one frame of the sensor, in     *)
(* order, whatever the DMA loses, fails or is restarted after, although the  *)
(* parser cannot see a gap.                                                  *)
THEOREM FramesSafe == Spec => []FramesWhole
<1>1. Inv => FramesWhole
  BY DEF Inv
<1> QED
  BY <1>1, InvHolds, PTL

(* A gap in the ring has its interrupt pending, before data behind it is taken. *)
THEOREM GapsSafe == Spec => []GapsAnnounced
<1>1. ASSUME Inv
      PROVE  GapsAnnounced
  <2>1. CASE pc = "recover"
    <3>1. ring = <<>> /\ Len(<<>>) = 0
      BY <1>1, <2>1 DEF Inv, TypeOK, TaskPlaces
    <3> QED
      BY <3>1 DEF GapsAnnounced
  <2>2. CASE pc # "recover"
    BY <1>1, <2>2 DEF Inv, StreamLinked, Chained, GapsAnnounced
  <2> QED
    BY <2>1, <2>2
<1> QED
  BY <1>1, InvHolds, PTL
-----------------------------------------------------------------------------
(* The configuration of the sensor: its inductive invariant.                   *)

\* The steps a program may have.  Only two registers are shared, and whatever
\* is written to them leaves what the default table put there.
SensorSteps ==
    [do : {"check", "reset"}]
    \cup [do : {"write"}, reg : Registers \ {\h5001, \h5588}, value : Nat]
    \cup {Write(\h5001, \h83), Write(\h5588, 0)}
    \cup [do : {"bits"}, reg : {\h5001}, mask : {\h20}, bits : {0, \h20}]
    \cup [do : {"bits"}, reg : {\h5588}, mask : {\h08}, bits : {0, \h08}]
IsWrite(s) == s.do \in {"write", "bits"}

DriverFunctions ==
    [steps : Seq(SensorSteps), makes : SUBSET Settings, config : Configs]

\* The write s brings about what e wants, and does not undo it.
Gives(s, e) == s.reg = e.reg /\ \A v \in Nat : Accepts(e, Result(s, v))
Keeps(s, e) == s.reg = e.reg => \A v \in Nat : Accepts(e, v) => Accepts(e, Result(s, v))

\* The binning that a function leaves fits the frame size, or both are as before.
BinningFits(c, f) ==
    IF "mode" \in f.makes THEN f.config.binning = Binned(f.config.frame_size)
    ELSE f.config.binning = c.binning /\ f.config.frame_size = c.frame_size

\* A function changes what the driver keeps of the settings it makes only, and
\* none of its writes undoes another of them.
Proper(c, f) ==
    /\ \A p \in Settings \ f.makes : Setting(p, f.config) = Setting(p, c)
    /\ BinningFits(c, f)
    /\ \A p \in f.makes : \A e \in Setting(p, f.config) : \A s \in Range(f.steps) :
          IsWrite(s) /\ Keeps(s, e)

\* Something the function still writes brings about what e wants.
Pending(f, e) == \E s \in Range(f.steps) : IsWrite(s) /\ Gives(s, e)

\* What the driver keeps when the i-th function begins.
ConfigBefore(i) == IF i = 1 THEN held ELSE program[i - 1].config

\* Each function fits the one before it, and what it makes is there or to come.
ProgramProper ==
    /\ program \in Seq(DriverFunctions)
    /\ \A i \in 1..Len(program) : Proper(ConfigBefore(i), program[i])
Underway ==
    \A i \in 1..Len(program) :
       \A p \in program[i].makes : \A e \in Setting(p, program[i].config) :
          Pending(program[i], e) \/ (i = 1 /\ Accepts(e, regs[e.reg]))

SensorInv == SensorTypeOK /\ AsConfigured /\ ProgramProper /\ Underway
-----------------------------------------------------------------------------
(* What a write does to a register, and what a series of writes does.          *)

\* A bit that is set or cleared is so, leaves the others and stays in range.
BitIsSet(v, mask, bits) ==
    /\ WithBit(v, mask, bits) \in Nat
    /\ mask * ((WithBit(v, mask, bits) \div mask) % 2) = bits
    /\ WithBit(WithBit(v, mask, bits), mask, 0) = WithBit(v, mask, 0)

(* Both of the single bits that the driver changes are so.                     *)
LEMMA BitFacts ==
    ASSUME NEW mask \in {\h08, \h20}, NEW bits \in {0, mask}, NEW v \in Nat
    PROVE  BitIsSet(v, mask, bits)
<1>1. CASE mask = \h08
  BY <1>1 DEF WithBit, BitIsSet
<1>2. CASE mask = \h20
  BY <1>2 DEF WithBit, BitIsSet
<1> QED
  BY <1>1, <1>2

(* A step that writes, by its kind.                                               *)
LEMMA WriteKinds ==
    ASSUME NEW s \in SensorSteps, IsWrite(s)
    PROVE  \/ s \in [do : {"write"}, reg : Registers \ {\h5001, \h5588}, value : Nat]
           \/ s = Write(\h5001, \h83) \/ s = Write(\h5588, 0)
           \/ s \in [do : {"bits"}, reg : {\h5001}, mask : {\h20}, bits : {0, \h20}]
           \/ s \in [do : {"bits"}, reg : {\h5588}, mask : {\h08}, bits : {0, \h08}]
<1>1. s \notin [do : {"check", "reset"}]
  BY DEF IsWrite
<1> QED
  BY <1>1 DEF SensorSteps

(* What a write does to its register: it stays in range, shows what it writes,    *)
(* and leaves what the default table put around the bits that are changed.     *)
LEMMA StepFacts ==
    ASSUME NEW s \in SensorSteps, IsWrite(s)
    PROVE  /\ s.reg \in Registers
           /\ \A v \in Nat : Result(s, v) \in Nat
           /\ Gives(s, s)
           /\ \A c : \A e \in Setting("shared", c) : Keeps(s, e)
<1> DEFINE b1 == Besides(\h5001, \h20, \h83)
           b2 == Besides(\h5588, \h08, 0)
<1>a. \A c : Setting("shared", c) = {b1, b2}
  BY DEF Setting
<1>b. \h5001 \in Registers /\ \h5588 \in Registers
  BY DEF Registers, RegistersOf, Settings
<1>c. /\ b1.reg = \h5001 /\ \A v \in Nat : Accepts(b1, v) <=> WithBit(v, \h20, 0) = \h83
      /\ b2.reg = \h5588 /\ \A v \in Nat : Accepts(b2, v) <=> WithBit(v, \h08, 0) = 0
  BY DEF Besides, Accepts
<1>d. WithBit(\h83, \h20, 0) = \h83 /\ WithBit(0, \h08, 0) = 0
  BY DEF WithBit
<1> HIDE DEF b1, b2
<1> SUFFICES /\ s.reg \in Registers
             /\ \A v \in Nat : Result(s, v) \in Nat
             /\ Gives(s, s)
             /\ Keeps(s, b1) /\ Keeps(s, b2)
  BY <1>a
<1>1. CASE s \in [do : {"write"}, reg : Registers \ {\h5001, \h5588}, value : Nat]
  <2>1. /\ s.do = "write" /\ s.value \in Nat
        /\ s.reg \in Registers /\ s.reg # \h5001 /\ s.reg # \h5588
    BY <1>1
  <2>2. \A v \in Nat : Result(s, v) = s.value
    BY <2>1 DEF Result
  <2>3. Gives(s, s)
    BY <2>1, <2>2 DEF Gives, Accepts
  <2>4. Keeps(s, b1) /\ Keeps(s, b2)
    BY <2>1, <1>c DEF Keeps
  <2> QED
    BY <2>1, <2>2, <2>3, <2>4
<1>2. ASSUME NEW r \in {\h5001, \h5588}, NEW x \in Nat, s = Write(r, x),
             r = \h5001 => x = \h83, r = \h5588 => x = 0
      PROVE  /\ s.reg \in Registers
             /\ \A v \in Nat : Result(s, v) \in Nat
             /\ Gives(s, s)
             /\ Keeps(s, b1) /\ Keeps(s, b2)
  <2>1. s.do = "write" /\ s.reg = r /\ s.value = x
    BY <1>2 DEF Write
  <2>2. \A v \in Nat : Result(s, v) = x
    BY <2>1 DEF Result
  <2>3. Gives(s, s)
    BY <2>1, <2>2 DEF Gives, Accepts
  <2>4. Keeps(s, b1) /\ Keeps(s, b2)
    BY <1>2, <1>c, <1>d, <2>1, <2>2 DEF Keeps
  <2> QED
    BY <1>b, <2>1, <2>2, <2>3, <2>4
<1>3. ASSUME NEW r \in {\h5001, \h5588}, NEW mask \in {\h08, \h20}, NEW bits \in {0, mask},
             s.do = "bits", s.reg = r, s.mask = mask, s.bits = bits,
             r = \h5001 => mask = \h20, r = \h5588 => mask = \h08
      PROVE  /\ s.reg \in Registers
             /\ \A v \in Nat : Result(s, v) \in Nat
             /\ Gives(s, s)
             /\ Keeps(s, b1) /\ Keeps(s, b2)
  <2>1. \A v \in Nat : Result(s, v) = WithBit(v, mask, bits)
    BY <1>3 DEF Result
  <2>2. \A v \in Nat : Accepts(s, v) <=> mask * ((v \div mask) % 2) = bits
    BY <1>3 DEF Accepts
  <2>a. \A v \in Nat : BitIsSet(v, mask, bits)
    BY BitFacts
  <2>3. \A v \in Nat :
             /\ WithBit(v, mask, bits) \in Nat
             /\ mask * ((WithBit(v, mask, bits) \div mask) % 2) = bits
             /\ WithBit(WithBit(v, mask, bits), mask, 0) = WithBit(v, mask, 0)
    BY <2>a DEF BitIsSet
  <2>4. Gives(s, s)
    BY <2>1, <2>2, <2>3 DEF Gives
  <2>5. Keeps(s, b1)
    BY <1>3, <1>c, <2>1, <2>3 DEF Keeps
  <2>6. Keeps(s, b2)
    BY <1>3, <1>c, <2>1, <2>3 DEF Keeps
  <2> QED
    BY <1>3, <1>b, <2>1, <2>3, <2>4, <2>5, <2>6
<1>4. CASE s = Write(\h5001, \h83)
  BY <1>2, <1>4
<1>5. CASE s = Write(\h5588, 0)
  BY <1>2, <1>5
<1>6. CASE s \in [do : {"bits"}, reg : {\h5001}, mask : {\h20}, bits : {0, \h20}]
  BY <1>3, <1>6
<1>7. CASE s \in [do : {"bits"}, reg : {\h5588}, mask : {\h08}, bits : {0, \h08}]
  BY <1>3, <1>7
<1> QED
  BY <1>1, <1>4, <1>5, <1>6, <1>7, WriteKinds

(* The steps write registers among the given ones, each at most once.          *)
WritesOnce(steps, registers) ==
    /\ steps \in Seq(SensorSteps)
    /\ \A s \in Range(steps) : IsWrite(s) /\ s.reg \in registers
    /\ \A s, t \in Range(steps) : s.reg = t.reg => s = t

(* A table of distinct registers is written once each.                         *)
LEMMA TableOnce ==
    ASSUME NEW n \in Nat, NEW rs, NEW vs, DOMAIN rs = 1..n, IsInjective(rs),
           \A i \in 1..n : Write(rs[i], vs[i]) \in SensorSteps
    PROVE  WritesOnce(Writes(rs, vs), Range(rs))
<1> DEFINE w == Writes(rs, vs)
<1>1. w = [i \in 1..n |-> Write(rs[i], vs[i])]
  BY DEF Writes
<1>2. w \in Seq(SensorSteps)
  BY <1>1
<1>3. \A i \in 1..n : IsWrite(Write(rs[i], vs[i])) /\ Write(rs[i], vs[i]).reg = rs[i]
  BY DEF Write, IsWrite
<1>4. \A s \in Range(w) : \E i \in 1..n : s = Write(rs[i], vs[i])
  BY <1>1 DEF Range
<1>5. \A i \in 1..n : rs[i] \in Range(rs)
  BY DEF Range
<1>6. \A i, j \in 1..n : rs[i] = rs[j] => i = j
  BY DEF IsInjective
<1> HIDE DEF w
<1>7. \A s \in Range(w) : IsWrite(s) /\ s.reg \in Range(rs)
  BY <1>3, <1>4, <1>5
<1>8. \A s, t \in Range(w) : s.reg = t.reg => s = t
  BY <1>3, <1>4, <1>6
<1> QED
  BY <1>2, <1>7, <1>8 DEF WritesOnce, w

(* One write.                                                                     *)
LEMMA StepOnce ==
    ASSUME NEW s \in SensorSteps, IsWrite(s)
    PROVE  WritesOnce(<<s>>, {s.reg}) /\ Range(<<s>>) = {s}
<1>1. Range(<<s>>) = {s}
  BY DEF Range
<1> QED
  BY <1>1 DEF WritesOnce

(* Two series that write different registers, one after the other.             *)
LEMMA BothOnce ==
    ASSUME NEW a, NEW b, NEW A, NEW B, NEW C, WritesOnce(a, A), WritesOnce(b, B),
           A \cap B = {}, A \subseteq C, B \subseteq C
    PROVE  WritesOnce(a \o b, C) /\ Range(a \o b) = Range(a) \cup Range(b)
<1>1. a \in Seq(SensorSteps) /\ b \in Seq(SensorSteps)
  BY DEF WritesOnce
<1>2. Range(a \o b) = Range(a) \cup Range(b)
  BY <1>1, RangeConcatenation
<1>3. a \o b \in Seq(SensorSteps)
  BY <1>1
<1> QED
  BY <1>2, <1>3 DEF WritesOnce

(* What two functions of the driver keep alike.                                *)
LEMMA SameSetting ==
    ASSUME NEW c \in Configs, NEW d \in Configs, NEW p \in Settings,
           p = "mode" => c.frame_size = d.frame_size,
           p = "options" => c.binning = d.binning /\ c.vertical_flip = d.vertical_flip,
           p = "quality" => c.quality = d.quality,
           p = "brightness" => c.brightness = d.brightness,
           p = "saturation" => c.saturation = d.saturation
    PROVE  Setting(p, c) = Setting(p, d)
BY DEF Setting, Settings

(* A function that a driver which keeps c may call.                            *)
Ready(c, f) ==
    /\ f \in DriverFunctions
    /\ Proper(c, f)
    /\ \A p \in f.makes : \A e \in Setting(p, f.config) : Pending(f, e)

(* A function that writes every register once, and all that its settings take. *)
LEMMA OnceIsReady ==
    ASSUME NEW c \in Configs, NEW f \in DriverFunctions, NEW A, WritesOnce(f.steps, A),
           \A p \in Settings \ f.makes : Setting(p, f.config) = Setting(p, c),
           BinningFits(c, f),
           \A p \in f.makes : \A e \in Setting(p, f.config) :
              \/ p # "shared" /\ e \in Range(f.steps)
              \/ p = "shared" /\ \E s \in Range(f.steps) : Gives(s, e)
    PROVE  Ready(c, f)
<1>1. \A s \in Range(f.steps) : s \in SensorSteps /\ IsWrite(s)
  BY RangeEquality DEF WritesOnce, Range
<1>2. \A s \in Range(f.steps) : Gives(s, s)
  BY <1>1, StepFacts
<1>3. \A s \in Range(f.steps) : \A e \in Setting("shared", f.config) : Keeps(s, e)
  BY <1>1, StepFacts
<1>4. \A s, t \in Range(f.steps) : s.reg = t.reg => s = t
  BY DEF WritesOnce
<1>5. \A s, e \in Range(f.steps) : Keeps(s, e)
  BY <1>2, <1>4 DEF Keeps, Gives
<1>6. \A p \in f.makes : \A e \in Setting(p, f.config) : \A s \in Range(f.steps) :
         IsWrite(s) /\ Keeps(s, e)
  BY <1>1, <1>3, <1>5
<1>7. \A p \in f.makes : \A e \in Setting(p, f.config) : Pending(f, e)
  BY <1>1, <1>2 DEF Pending
<1> QED
  BY <1>6, <1>7 DEF Ready, Proper
-----------------------------------------------------------------------------
(* The tables and the setters.                                                 *)

(* The tables of registers: what they name, each register once.                *)
LEMMA RegisterTables ==
    /\ /\ DOMAIN WindowRegisters = 1..20 /\ IsInjective(WindowRegisters)
       /\ \A i \in 1..20 : WindowRegisters[i] = \h37ff + i
       /\ \A r \in Range(WindowRegisters) : r \in Nat /\ \h3800 <= r /\ r <= \h3813
    /\ /\ DOMAIN PllRegisters = 1..6 /\ IsInjective(PllRegisters)
       /\ Range(PllRegisters) = {\h303a, \h303b, \h303c, \h303d, \h3824, \h460c}
    /\ /\ DOMAIN OptionRegisters = 1..6 /\ IsInjective(OptionRegisters)
       /\ Range(OptionRegisters) = {\h3820, \h3821, \h4514, \h4520, \h3814, \h3815}
    /\ /\ DOMAIN SaturationRegisters = 1..11 /\ IsInjective(SaturationRegisters)
       /\ \A r \in Range(SaturationRegisters) : r \in Nat /\ \h5381 <= r /\ r <= \h538b
    /\ /\ DOMAIN ExposureRegisters = 1..6 /\ IsInjective(ExposureRegisters)
       /\ Range(ExposureRegisters) = {\h3a0f, \h3a10, \h3a1b, \h3a1e, \h3a11, \h3a1f}
    /\ /\ DOMAIN FormatRegisters = 1..5 /\ IsInjective(FormatRegisters)
       /\ Range(FormatRegisters) = {\h501f, \h4300, \h3002, \h3006, \h471c}
<1>1. /\ DOMAIN WindowRegisters = 1..20 /\ IsInjective(WindowRegisters)
      /\ \A i \in 1..20 : WindowRegisters[i] = \h37ff + i
      /\ \A r \in Range(WindowRegisters) : r \in Nat /\ \h3800 <= r /\ r <= \h3813
  BY DEF WindowRegisters, IsInjective, Range
<1>2. DOMAIN PllRegisters = 1..6 /\ IsInjective(PllRegisters)
  BY DEF PllRegisters, IsInjective
<1>3. Range(PllRegisters) = {\h303a, \h303b, \h303c, \h303d, \h3824, \h460c}
  BY DEF PllRegisters, Range
<1>4. DOMAIN OptionRegisters = 1..6 /\ IsInjective(OptionRegisters)
  BY DEF OptionRegisters, IsInjective
<1>5. Range(OptionRegisters) = {\h3820, \h3821, \h4514, \h4520, \h3814, \h3815}
  BY DEF OptionRegisters, Range
<1>6. /\ DOMAIN SaturationRegisters = 1..11 /\ IsInjective(SaturationRegisters)
      /\ \A r \in Range(SaturationRegisters) : r \in Nat /\ \h5381 <= r /\ r <= \h538b
  BY DEF SaturationRegisters, IsInjective, Range
<1>7. DOMAIN ExposureRegisters = 1..6 /\ IsInjective(ExposureRegisters)
  BY DEF ExposureRegisters, IsInjective
<1>8. Range(ExposureRegisters) = {\h3a0f, \h3a10, \h3a1b, \h3a1e, \h3a11, \h3a1f}
  BY DEF ExposureRegisters, Range
<1>9. DOMAIN FormatRegisters = 1..5 /\ IsInjective(FormatRegisters)
  BY DEF FormatRegisters, IsInjective
<1>10. Range(FormatRegisters) = {\h501f, \h4300, \h3002, \h3006, \h471c}
  BY DEF FormatRegisters, Range
<1> QED
  BY <1>1, <1>2, <1>3, <1>4, <1>5, <1>6, <1>7, <1>8, <1>9, <1>10

(* The registers of all settings, apart from the two that are shared.          *)
LEMMA TablesAreRegisters ==
    /\ \A rs \in {WindowRegisters, PllRegisters, OptionRegisters, SaturationRegisters,
                  ExposureRegisters, FormatRegisters} :
          \A i \in DOMAIN rs : rs[i] \in Registers \ {\h5001, \h5588}
    /\ {\h5001, \h5588, \h4407, \h5587} \subseteq Registers
<1>1. \A r \in Range(WindowRegisters) \cup Range(PllRegisters) \cup Range(OptionRegisters)
              \cup Range(SaturationRegisters) \cup Range(ExposureRegisters)
              \cup Range(FormatRegisters) : r \in Registers
  BY DEF Registers, RegistersOf, Settings
<1>2. {\h5001, \h5588, \h4407, \h5587} \subseteq Registers
  BY DEF Registers, RegistersOf, Settings
<1>3. \A r \in Range(WindowRegisters) \cup Range(PllRegisters) \cup Range(OptionRegisters)
              \cup Range(SaturationRegisters) \cup Range(ExposureRegisters)
              \cup Range(FormatRegisters) : r # \h5001 /\ r # \h5588
  BY RegisterTables
<1>4. \A rs \in {WindowRegisters, PllRegisters, OptionRegisters, SaturationRegisters,
                 ExposureRegisters, FormatRegisters} :
         \A i \in DOMAIN rs : rs[i] \in Range(rs)
  BY DEF Range
<1> QED
  BY <1>1, <1>2, <1>3, <1>4

(* A plain write is a step.                                                     *)
LEMMA PlainWrite ==
    ASSUME NEW r \in Registers \ {\h5001, \h5588}, NEW x \in Nat
    PROVE  Write(r, x) \in SensorSteps /\ IsWrite(Write(r, x)) /\ Write(r, x).reg = r
BY DEF Write, SensorSteps, IsWrite

Tables == {WindowRegisters, PllRegisters, OptionRegisters, SaturationRegisters,
           ExposureRegisters, FormatRegisters}

(* A table is written, each register once.                                      *)
LEMMA TableWrites ==
    ASSUME NEW rs \in Tables, NEW vs, \A i \in DOMAIN rs : vs[i] \in Nat
    PROVE  WritesOnce(Writes(rs, vs), Range(rs))
<1>1. PICK n \in Nat : DOMAIN rs = 1..n
  <2>1. \E n \in {20, 6, 11, 5} : DOMAIN rs = 1..n
    BY RegisterTables DEF Tables
  <2> QED
    BY <2>1
<1>2. IsInjective(rs)
  BY RegisterTables DEF Tables
<1>3. \A i \in 1..n : rs[i] \in Registers \ {\h5001, \h5588}
  BY <1>1, TablesAreRegisters DEF Tables
<1>4. \A i \in 1..n : Write(rs[i], vs[i]) \in SensorSteps
  BY <1>1, <1>3, PlainWrite
<1> QED
  BY <1>1, <1>2, <1>4, TableOnce

(* The halves of the numbers of a window are bytes.                             *)
LEMMA WindowNumbers ==
    ASSUME NEW size \in FrameSizes, NEW k \in 1..10
    PROVE  Window(size)[k] \in Nat
<1> DEFINE g == GeometryOf(size)
           d == Dimensions[size]
<1>1. /\ g.start[1] \in Nat /\ g.start[2] \in Nat /\ g.end[1] \in Nat /\ g.end[2] \in Nat
      /\ g.total[1] \in Nat /\ g.total[2] \in Nat
  <2>1. g = Ratio16x9 \/ g = Ratio4x3
    BY DEF GeometryOf
  <2> QED
    BY <2>1 DEF Ratio16x9, Ratio4x3
<1>2. d[1] \in Nat /\ d[2] \in Nat
  BY DEF FrameSizes, Dimensions
<1>3. (g.total[2] \div 2) + 1 \in Nat
  BY <1>1
<1> HIDE DEF g, d
<1>4. Window(size) =
         <<g.start[1], g.start[2], g.end[1], g.end[2], d[1], d[2], g.total[1],
           IF Binned(size) THEN (g.total[2] \div 2) + 1 ELSE g.total[2],
           IF Binned(size) THEN 8 ELSE 16, IF Binned(size) THEN 2 ELSE 6>>
  BY DEF Window, g, d
<1> QED
  BY <1>1, <1>2, <1>3, <1>4

(* The window: twenty bytes. *)
LEMMA WindowOnce ==
    ASSUME NEW size \in FrameSizes
    PROVE  WritesOnce(SetWindow(size), Range(WindowRegisters))
<1> DEFINE vs == [i \in 1..20 |-> IF i % 2 = 1 THEN Window(size)[(i + 1) \div 2] \div 256
                                  ELSE Window(size)[i \div 2] % 256]
<1>1. \A i \in 1..20 : vs[i] \in Nat
  <2> TAKE i \in 1..20
  <2>1. i % 2 = 1 => (i + 1) \div 2 \in 1..10
    OBVIOUS
  <2>2. i % 2 # 1 => i \div 2 \in 1..10
    OBVIOUS
  <2>3. CASE i % 2 = 1
    <3>1. Window(size)[(i + 1) \div 2] \in Nat
      BY <2>1, <2>3, WindowNumbers
    <3> QED
      BY <2>3, <3>1
  <2>4. CASE i % 2 # 1
    <3>1. Window(size)[i \div 2] \in Nat
      BY <2>2, <2>4, WindowNumbers
    <3> QED
      BY <2>4, <3>1
  <2> QED
    BY <2>3, <2>4
<1> HIDE DEF vs
<1>2. WindowRegisters \in Tables /\ DOMAIN WindowRegisters = 1..20
  BY RegisterTables DEF Tables
<1>3. WritesOnce(Writes(WindowRegisters, vs), Range(WindowRegisters))
  BY <1>1, <1>2, TableWrites
<1> QED
  BY <1>3 DEF SetWindow, vs

(* The clock of the frame size. *)
LEMMA PllOnce ==
    ASSUME NEW size
    PROVE  WritesOnce(SetJpegPll(size), Range(PllRegisters))
<1> DEFINE slow == size = "Qxga" \/ XclkHz = 16000000
           vs == << 0, IF slow THEN 24 ELSE 30, \h11, \h30, IF slow THEN 8 ELSE 10, \h22 >>
<1>1. \A i \in 1..6 : vs[i] \in Nat
  OBVIOUS
<1>a. SetJpegPll(size) = Writes(PllRegisters, vs)
  BY DEF SetJpegPll
<1> HIDE DEF vs
<1>2. PllRegisters \in Tables /\ DOMAIN PllRegisters = 1..6
  BY RegisterTables DEF Tables
<1> QED
  BY <1>a, <1>1, <1>2, TableWrites

(* The image options, whatever they are. *)
LEMMA OptionsOnce ==
    ASSUME NEW binning, NEW flip
    PROVE  WritesOnce(SetImageOptions(binning, flip), Range(OptionRegisters))
<1> DEFINE reg20 == IF binning THEN \h01 ELSE \h40
           increment == IF binning THEN \h31 ELSE \h11
           vs == << IF flip THEN reg20 + \h06 ELSE reg20,
                    IF binning THEN \h21 ELSE \h20,
                    IF ~binning THEN \h88 ELSE IF flip THEN \hbb ELSE \haa,
                    IF binning THEN \h0b ELSE \hb0, increment, increment >>
<1>1. \A i \in 1..6 : vs[i] \in Nat
  OBVIOUS
<1>a. SetImageOptions(binning, flip) = Writes(OptionRegisters, vs)
  BY DEF SetImageOptions
<1> HIDE DEF vs
<1>2. OptionRegisters \in Tables /\ DOMAIN OptionRegisters = 1..6
  BY RegisterTables DEF Tables
<1> QED
  BY <1>a, <1>1, <1>2, TableWrites

(* A row of the saturation table. *)
LEMMA SaturationOnce ==
    ASSUME NEW level \in -4..4
    PROVE  WritesOnce(SaturationRow(level), Range(SaturationRegisters))
<1> DEFINE vs == [i \in 1..11 |-> level + 4]
<1>1. \A i \in 1..11 : vs[i] \in Nat
  OBVIOUS
<1> HIDE DEF vs
<1>2. SaturationRegisters \in Tables /\ DOMAIN SaturationRegisters = 1..11
  BY RegisterTables DEF Tables
<1>3. WritesOnce(Writes(SaturationRegisters, vs), Range(SaturationRegisters))
  BY <1>1, <1>2, TableWrites
<1> QED
  BY <1>3 DEF SaturationRow, vs

(* The exposure, as the default table and as the driver sets it. *)
LEMMA ExposureOnce ==
    ASSUME NEW vs, \A i \in 1..6 : vs[i] \in Nat
    PROVE  WritesOnce(Writes(ExposureRegisters, vs), Range(ExposureRegisters))
<1>1. ExposureRegisters \in Tables /\ DOMAIN ExposureRegisters = 1..6
  BY RegisterTables DEF Tables
<1> QED
  BY <1>1, TableWrites

(* The format. *)
LEMMA FormatOnce == WritesOnce(JpegFormat, Range(FormatRegisters))
<1> DEFINE vs == <<0, \h30, 0, \hff, \h50>>
<1>1. \A i \in 1..5 : vs[i] \in Nat
  OBVIOUS
<1> HIDE DEF vs
<1>2. FormatRegisters \in Tables /\ DOMAIN FormatRegisters = 1..5
  BY RegisterTables DEF Tables
<1>3. WritesOnce(Writes(FormatRegisters, vs), Range(FormatRegisters))
  BY <1>1, <1>2, TableWrites
<1> QED
  BY <1>3 DEF JpegFormat, vs

(* The bit that turns scaling on. *)
LEMMA ScalingOnce ==
    ASSUME NEW size
    PROVE  /\ WritesOnce(<<SetScaling(size)>>, {\h5001})
           /\ Range(<<SetScaling(size)>>) = {SetScaling(size)}
<1>1. SetScaling(size) \in SensorSteps
  <2>1. SetScaling(size) \in [do : {"bits"}, reg : {\h5001}, mask : {\h20}, bits : {0, \h20}]
    BY DEF SetScaling, SetRegisterBits
  <2> QED
    BY <2>1 DEF SensorSteps
<1>2. IsWrite(SetScaling(size)) /\ SetScaling(size).reg = \h5001
  BY DEF SetScaling, SetRegisterBits, IsWrite
<1> QED
  BY <1>1, <1>2, StepOnce

(* The brightness and the bit of its sign. *)
LEMMA BrightnessOnce ==
    ASSUME NEW level \in -3..3
    PROVE  WritesOnce(BrightnessWrites(level), {\h5587, \h5588})
<1> DEFINE a == Write(\h5587, 16 * (IF level < 0 THEN -level ELSE level))
           b == SetRegisterBits(\h5588, \h08, level < 0)
<1>1. a \in SensorSteps /\ IsWrite(a) /\ a.reg = \h5587
  BY TablesAreRegisters, PlainWrite
<1>2. b \in SensorSteps /\ IsWrite(b) /\ b.reg = \h5588
  <2>1. b \in [do : {"bits"}, reg : {\h5588}, mask : {\h08}, bits : {0, \h08}]
    BY DEF SetRegisterBits
  <2> QED
    BY <2>1 DEF SensorSteps, IsWrite
<1>3. Range(<<a, b>>) = {a, b}
  BY DEF Range
<1>4. <<a, b>> \in Seq(SensorSteps)
  BY <1>1, <1>2
<1>5. BrightnessWrites(level) = <<a, b>>
  BY DEF BrightnessWrites
<1> HIDE DEF a, b
<1> QED
  BY <1>1, <1>2, <1>3, <1>4, <1>5 DEF WritesOnce

(* The quality. *)
LEMMA QualityOnce ==
    ASSUME NEW q \in Nat
    PROVE  /\ WritesOnce(<<Write(\h4407, q)>>, {\h4407})
           /\ Range(<<Write(\h4407, q)>>) = {Write(\h4407, q)}
BY TablesAreRegisters, PlainWrite, StepOnce

(* Every setter is ready for any driver: the quality, *)
LEMMA QualityReady ==
    ASSUME NEW c \in Configs, NEW q \in 0..63
    PROVE  Ready(c, SetQuality(c, q))
<1>q. q \in Nat
  OBVIOUS
<1> DEFINE f == SetQuality(c, q)
           A == {\h4407}
<1>s. f.steps = <<Write(\h4407, q)>>
  BY DEF SetQuality, Function
<1>1. /\ f.makes = {"quality"}
      /\ f = [steps |-> f.steps, makes |-> f.makes, config |-> f.config]
  BY DEF SetQuality, Function
<1>2. /\ f.config \in Configs /\ f.config.quality = q
      /\ f.config.frame_size = c.frame_size /\ f.config.binning = c.binning
      /\ f.config.vertical_flip = c.vertical_flip
      /\ f.config.brightness = c.brightness /\ f.config.saturation = c.saturation
  BY DEF SetQuality, Function, Configs
<1> HIDE DEF f
<1>3. WritesOnce(f.steps, A)
  BY <1>q, <1>s, QualityOnce
<1>r. Range(f.steps) = {Write(\h4407, q)}
  BY <1>q, <1>s, QualityOnce
<1> HIDE DEF A
<1>4. f \in DriverFunctions
  BY <1>1, <1>2, <1>3 DEF DriverFunctions, WritesOnce, Settings
<1>5. \A p \in Settings \ f.makes : Setting(p, f.config) = Setting(p, c)
  BY <1>1, <1>2, SameSetting
<1>6. Setting("quality", f.config) = {Write(\h4407, q)}
  BY <1>2 DEF Setting
<1>7. \A p \in f.makes : \A e \in Setting(p, f.config) : p # "shared" /\ e \in Range(f.steps)
  BY <1>1, <1>r, <1>6
<1>8. BinningFits(c, f)
  BY <1>1, <1>2 DEF BinningFits
<1>9. Ready(c, f)
  BY <1>3, <1>4, <1>5, <1>7, <1>8, OnceIsReady, Zenon
<1> QED
  BY <1>9 DEF f

(* the brightness, *)
LEMMA BrightnessReady ==
    ASSUME NEW c \in Configs, NEW level \in -3..3
    PROVE  Ready(c, SetBrightness(c, level))
<1> DEFINE f == SetBrightness(c, level)
           A == {\h5587, \h5588}
<1>1. /\ f.steps = BrightnessWrites(level) /\ f.makes = {"brightness"}
      /\ f = [steps |-> f.steps, makes |-> f.makes, config |-> f.config]
  BY DEF SetBrightness, Function
<1>2. /\ f.config \in Configs /\ f.config.brightness = level
      /\ f.config.frame_size = c.frame_size /\ f.config.binning = c.binning
      /\ f.config.vertical_flip = c.vertical_flip
      /\ f.config.quality = c.quality /\ f.config.saturation = c.saturation
  BY DEF SetBrightness, Function, Configs
<1> HIDE DEF f
<1>3. WritesOnce(f.steps, A)
  BY <1>1, BrightnessOnce
<1> HIDE DEF A
<1>4. f \in DriverFunctions
  BY <1>1, <1>2, <1>3 DEF DriverFunctions, WritesOnce, Settings
<1>5. \A p \in Settings \ f.makes : Setting(p, f.config) = Setting(p, c)
  BY <1>1, <1>2, SameSetting
<1>6. Setting("brightness", f.config) = Range(f.steps)
  BY <1>1, <1>2 DEF Setting
<1>7. \A p \in f.makes : \A e \in Setting(p, f.config) : p # "shared" /\ e \in Range(f.steps)
  BY <1>1, <1>6
<1>8. BinningFits(c, f)
  BY <1>1, <1>2 DEF BinningFits
<1>9. Ready(c, f)
  BY <1>3, <1>4, <1>5, <1>7, <1>8, OnceIsReady, Zenon
<1> QED
  BY <1>9 DEF f

(* the saturation, *)
LEMMA SaturationReady ==
    ASSUME NEW c \in Configs, NEW level \in -4..4
    PROVE  Ready(c, SetSaturation(c, level))
<1> DEFINE f == SetSaturation(c, level)
<1>1. /\ f.steps = SaturationRow(level) /\ f.makes = {"saturation"}
      /\ f = [steps |-> f.steps, makes |-> f.makes, config |-> f.config]
  BY DEF SetSaturation, Function
<1>2. /\ f.config \in Configs /\ f.config.saturation = level
      /\ f.config.frame_size = c.frame_size /\ f.config.binning = c.binning
      /\ f.config.vertical_flip = c.vertical_flip
      /\ f.config.quality = c.quality /\ f.config.brightness = c.brightness
  BY DEF SetSaturation, Function, Configs
<1> HIDE DEF f
<1>3. WritesOnce(f.steps, Range(SaturationRegisters))
  BY <1>1, SaturationOnce
<1>4. f \in DriverFunctions
  BY <1>1, <1>2, <1>3 DEF DriverFunctions, WritesOnce, Settings
<1>5. \A p \in Settings \ f.makes : Setting(p, f.config) = Setting(p, c)
  BY <1>1, <1>2, SameSetting
<1>6. Setting("saturation", f.config) = Range(f.steps)
  BY <1>1, <1>2 DEF Setting
<1>7. \A p \in f.makes : \A e \in Setting(p, f.config) : p # "shared" /\ e \in Range(f.steps)
  BY <1>1, <1>6
<1>8. BinningFits(c, f)
  BY <1>1, <1>2 DEF BinningFits
<1>9. Ready(c, f)
  BY <1>3, <1>4, <1>5, <1>7, <1>8, OnceIsReady, Zenon
<1> QED
  BY <1>9 DEF f

(* the vertical flip, for the binning that is kept, *)
LEMMA FlipReady ==
    ASSUME NEW c \in Configs, NEW flip \in BOOLEAN
    PROVE  Ready(c, SetVerticalFlip(c, flip))
<1> DEFINE f == SetVerticalFlip(c, flip)
<1>1. /\ f.steps = SetImageOptions(c.binning, flip) /\ f.makes = {"options"}
      /\ f = [steps |-> f.steps, makes |-> f.makes, config |-> f.config]
  BY DEF SetVerticalFlip, Function
<1>2. /\ f.config \in Configs /\ f.config.vertical_flip = flip
      /\ f.config.frame_size = c.frame_size /\ f.config.binning = c.binning
      /\ f.config.quality = c.quality
      /\ f.config.saturation = c.saturation /\ f.config.brightness = c.brightness
  BY DEF SetVerticalFlip, Function, Configs
<1> HIDE DEF f
<1>3. WritesOnce(f.steps, Range(OptionRegisters))
  BY <1>1, OptionsOnce
<1>4. f \in DriverFunctions
  BY <1>1, <1>2, <1>3 DEF DriverFunctions, WritesOnce, Settings
<1>5. \A p \in Settings \ f.makes : Setting(p, f.config) = Setting(p, c)
  BY <1>1, <1>2, SameSetting
<1>6. Setting("options", f.config) = Range(f.steps)
  BY <1>1, <1>2 DEF Setting
<1>7. \A p \in f.makes : \A e \in Setting(p, f.config) : p # "shared" /\ e \in Range(f.steps)
  BY <1>1, <1>6
<1>8. BinningFits(c, f)
  BY <1>1, <1>2 DEF BinningFits
<1>9. Ready(c, f)
  BY <1>3, <1>4, <1>5, <1>7, <1>8, OnceIsReady, Zenon
<1> QED
  BY <1>9 DEF f

(* and the frame size, with the options for the flip that is kept. *)
LEMMA FrameSizeReady ==
    ASSUME NEW c \in Configs, NEW size \in FrameSizes
    PROVE  Ready(c, SetFrameSize(c, size))
<1> DEFINE f == SetFrameSize(c, size)
           w == SetWindow(size)
           o == SetImageOptions(Binned(size), c.vertical_flip)
           l == SetJpegPll(size)
           z == <<SetScaling(size)>>
           W == Range(WindowRegisters)
           O == Range(OptionRegisters)
           L == Range(PllRegisters)
           Z == {\h5001}
           C1 == W \cup Z
           C2 == C1 \cup O
           C3 == C2 \cup L
<1>s. f.steps = w \o z \o o \o l
  BY DEF SetFrameSize, Function
<1>1. /\ f.makes = {"mode", "options"}
      /\ f = [steps |-> f.steps, makes |-> f.makes, config |-> f.config]
  BY DEF SetFrameSize, Function
<1>2. /\ f.config \in Configs /\ f.config.frame_size = size
      /\ f.config.binning = Binned(size) /\ f.config.vertical_flip = c.vertical_flip
      /\ f.config.quality = c.quality
      /\ f.config.saturation = c.saturation /\ f.config.brightness = c.brightness
  <2>1. Binned(size) \in BOOLEAN
    BY DEF Binned
  <2> QED
    BY <2>1 DEF SetFrameSize, Function, Configs
<1>3. /\ W \cap Z = {} /\ C1 \cap O = {} /\ C2 \cap L = {}
      /\ W \subseteq C1 /\ Z \subseteq C1 /\ C1 \subseteq C2 /\ O \subseteq C2
      /\ C2 \subseteq C3 /\ L \subseteq C3
  BY RegisterTables
<1>a. Range(z) = {SetScaling(size)}
  BY ScalingOnce
<1>4. /\ Setting("mode", f.config) = Range(w) \cup Range(z) \cup Range(l)
      /\ Setting("options", f.config) = Range(o)
  BY <1>2, <1>a DEF Setting
<1>5. /\ WritesOnce(w, W) /\ WritesOnce(z, Z)
      /\ WritesOnce(o, O) /\ WritesOnce(l, L)
  BY WindowOnce, ScalingOnce, OptionsOnce, PllOnce
<1> HIDE DEF f, w, z, o, l, W, O, L, Z, C1, C2, C3
<1>6. WritesOnce(w \o z, C1) /\ Range(w \o z) = Range(w) \cup Range(z)
  BY <1>3, <1>5, BothOnce
<1>7. /\ WritesOnce(w \o z \o o, C2)
      /\ Range(w \o z \o o) = Range(w) \cup Range(z) \cup Range(o)
  BY <1>3, <1>5, <1>6, BothOnce
<1>8. /\ WritesOnce(f.steps, C3)
      /\ Range(f.steps) = Range(w) \cup Range(z) \cup Range(o) \cup Range(l)
  <2> DEFINE x == w \o z \o o
  <2>1. WritesOnce(x, C2) /\ Range(x) = Range(w) \cup Range(z) \cup Range(o)
    BY <1>7
  <2>2. f.steps = x \o l
    BY <1>s
  <2> HIDE DEF x
  <2>3. WritesOnce(x \o l, C3) /\ Range(x \o l) = Range(x) \cup Range(l)
    BY <1>3, <1>5, <2>1, BothOnce
  <2> QED
    BY <2>1, <2>2, <2>3, Zenon
<1>9. f \in DriverFunctions
  BY <1>1, <1>2, <1>8 DEF DriverFunctions, WritesOnce, Settings
<1>10. \A p \in Settings \ f.makes : Setting(p, f.config) = Setting(p, c)
  BY <1>1, <1>2, SameSetting
<1>11. \A p \in f.makes : \A e \in Setting(p, f.config) : p # "shared" /\ e \in Range(f.steps)
  BY <1>1, <1>4, <1>8
<1>12. BinningFits(c, f)
  BY <1>1, <1>2 DEF BinningFits
<1>13. Ready(c, f)
  BY <1>8, <1>9, <1>10, <1>11, <1>12, OnceIsReady, Zenon
<1> QED
  BY <1>13 DEF f

(* So are the functions of the initialization that are no setters: the default *)
(* table,                                                                        *)
LEMMA DefaultsReady ==
    ASSUME NEW c \in Configs
    PROVE  Ready(c, DefaultRegisters(c))
<1> DEFINE f == DefaultRegisters(c)
           a == Writes(<<\h4520, \h471c, \h501f>>, <<\h0b, \hd0, 0>>)
           s == SaturationRow(0)
           x == Writes(ExposureRegisters, <<\h30, \h28, \h30, \h28, \h60, \h14>>)
           b == Writes(<<\h5588, \h5001>>, <<0, \h83>>)
           A == {\h4520, \h471c, \h501f}
           S == Range(SaturationRegisters)
           X == Range(ExposureRegisters)
           B == {\h5588, \h5001}
           C1 == A \cup S
           C2 == C1 \cup X
           C3 == C2 \cup B
<1>s. f.steps = a \o s \o x \o b
  <2> DEFINE d == [c EXCEPT !.saturation = 0]
             y == a \o s \o x \o b
  <2>1. f = Function(y, {"saturation", "shared"}, d)
    BY DEF DefaultRegisters
  <2> HIDE DEF d, f, y
  <2>2. f.steps = y
    BY <2>1 DEF Function
  <2> QED
    BY <2>2 DEF y
<1>1. /\ f.makes = {"saturation", "shared"}
      /\ f = [steps |-> f.steps, makes |-> f.makes, config |-> f.config]
  BY DEF DefaultRegisters, Function
<1>2. /\ f.config \in Configs /\ f.config.saturation = 0
      /\ f.config.frame_size = c.frame_size /\ f.config.binning = c.binning
      /\ f.config.vertical_flip = c.vertical_flip
      /\ f.config.quality = c.quality /\ f.config.brightness = c.brightness
  BY DEF DefaultRegisters, Function, Configs
<1>3. /\ A \cap S = {} /\ C1 \cap X = {} /\ C2 \cap B = {}
      /\ A \subseteq C1 /\ S \subseteq C1 /\ C1 \subseteq C2 /\ X \subseteq C2
      /\ C2 \subseteq C3 /\ B \subseteq C3
  BY RegisterTables
<1>a. WritesOnce(a, A)
  <2> DEFINE rs == <<\h4520, \h471c, \h501f>>
             vs == <<\h0b, \hd0, 0>>
  <2>1. 3 \in Nat /\ DOMAIN rs = 1..3 /\ IsInjective(rs) /\ Range(rs) = A
    BY DEF IsInjective, Range
  <2>2. {\h4520, \h471c, \h501f} \subseteq Registers \ {\h5001, \h5588}
    <3>1. /\ OptionRegisters[4] = \h4520 /\ FormatRegisters[5] = \h471c
          /\ FormatRegisters[1] = \h501f
      BY DEF OptionRegisters, FormatRegisters
    <3>2. /\ 4 \in DOMAIN OptionRegisters
          /\ 5 \in DOMAIN FormatRegisters /\ 1 \in DOMAIN FormatRegisters
      BY RegisterTables
    <3> QED
      BY <3>1, <3>2, TablesAreRegisters
  <2>3. \A i \in 1..3 : rs[i] \in Registers \ {\h5001, \h5588} /\ vs[i] \in Nat
    BY <2>2
  <2> HIDE DEF rs, vs, A
  <2>4. \A i \in 1..3 : Write(rs[i], vs[i]) \in SensorSteps
    BY <2>3, PlainWrite
  <2>5. WritesOnce(Writes(rs, vs), A)
    BY <2>1, <2>4, TableOnce
  <2> QED
    BY <2>5 DEF rs, vs
<1>b. WritesOnce(b, B) /\ Write(\h5588, 0) \in Range(b) /\ Write(\h5001, \h83) \in Range(b)
  <2> DEFINE rs == <<\h5588, \h5001>>
             vs == <<0, \h83>>
  <2>1. 2 \in Nat /\ DOMAIN rs = 1..2 /\ IsInjective(rs) /\ Range(rs) = B
    BY DEF IsInjective, Range
  <2>2. Write(\h5588, 0) \in SensorSteps /\ Write(\h5001, \h83) \in SensorSteps
    BY DEF SensorSteps
  <2>3. /\ \A i \in 1..2 : i = 1 \/ i = 2
        /\ rs[1] = \h5588 /\ rs[2] = \h5001 /\ vs[1] = 0 /\ vs[2] = \h83
    OBVIOUS
  <2>6. Write(\h5588, 0) \in Range(b) /\ Write(\h5001, \h83) \in Range(b)
    <3>1. b = [i \in 1..2 |-> Write(rs[i], vs[i])]
      BY <2>1 DEF Writes
    <3>2. b[1] = Write(\h5588, 0) /\ b[2] = Write(\h5001, \h83) /\ DOMAIN b = 1..2
      BY <2>3, <3>1
    <3> HIDE DEF b
    <3> QED
      BY <3>2 DEF Range
  <2> HIDE DEF rs, vs, B
  <2>4. \A i \in 1..2 : Write(rs[i], vs[i]) \in SensorSteps
    BY <2>2, <2>3
  <2>5. WritesOnce(Writes(rs, vs), B)
    BY <2>1, <2>4, TableOnce
  <2> QED
    BY <2>5, <2>6 DEF rs, vs
<1>4. WritesOnce(s, S)
  BY SaturationOnce
<1>5. WritesOnce(x, X)
  BY ExposureOnce
<1>6. Setting("saturation", f.config) = Range(s)
  BY <1>2 DEF Setting
<1> HIDE DEF f, a, s, x, b, A, S, X, B, C1, C2, C3
<1>7. WritesOnce(a \o s, C1) /\ Range(a \o s) = Range(a) \cup Range(s)
  BY <1>3, <1>4, <1>a, BothOnce
<1>8. /\ WritesOnce(a \o s \o x, C2)
      /\ Range(a \o s \o x) = Range(a) \cup Range(s) \cup Range(x)
  BY <1>3, <1>5, <1>7, BothOnce
<1>9. /\ WritesOnce(f.steps, C3)
      /\ Range(f.steps) = Range(a) \cup Range(s) \cup Range(x) \cup Range(b)
  <2> DEFINE y == a \o s \o x
  <2>1. WritesOnce(y, C2) /\ Range(y) = Range(a) \cup Range(s) \cup Range(x)
    BY <1>8
  <2>2. f.steps = y \o b
    BY <1>s
  <2>b. WritesOnce(b, B)
    BY <1>b
  <2> HIDE DEF y
  <2>3. WritesOnce(y \o b, C3) /\ Range(y \o b) = Range(y) \cup Range(b)
    BY <1>3, <2>b, <2>1, BothOnce
  <2> QED
    BY <2>1, <2>2, <2>3, Zenon
<1>10. f \in DriverFunctions
  BY <1>1, <1>2, <1>9 DEF DriverFunctions, WritesOnce, Settings
<1>11. \A p \in Settings \ f.makes : Setting(p, f.config) = Setting(p, c)
  BY <1>1, <1>2, SameSetting
<1>12. \A e \in Setting("shared", f.config) : \E w \in Range(f.steps) : Gives(w, e)
  <2>1. /\ Write(\h5001, \h83).reg = \h5001 /\ Write(\h5588, 0).reg = \h5588
        /\ \A v \in Nat : Result(Write(\h5001, \h83), v) = \h83
        /\ \A v \in Nat : Result(Write(\h5588, 0), v) = 0
    BY DEF Write, Result
  <2>2. WithBit(\h83, \h20, 0) = \h83 /\ WithBit(0, \h08, 0) = 0
    BY DEF WithBit
  <2>3. Gives(Write(\h5001, \h83), Besides(\h5001, \h20, \h83))
    BY <2>1, <2>2 DEF Gives, Accepts, Besides
  <2>4. Gives(Write(\h5588, 0), Besides(\h5588, \h08, 0))
    BY <2>1, <2>2 DEF Gives, Accepts, Besides
  <2>5. Setting("shared", f.config) = {Besides(\h5001, \h20, \h83), Besides(\h5588, \h08, 0)}
    BY DEF Setting
  <2>6. Write(\h5001, \h83) \in Range(f.steps) /\ Write(\h5588, 0) \in Range(f.steps)
    BY <1>b, <1>9
  <2> QED
    BY <2>3, <2>4, <2>5, <2>6
<1>13. \A p \in f.makes : \A e \in Setting(p, f.config) :
          \/ p # "shared" /\ e \in Range(f.steps)
          \/ p = "shared" /\ \E w \in Range(f.steps) : Gives(w, e)
  BY <1>1, <1>6, <1>9, <1>12
<1>14. BinningFits(c, f)
  BY <1>1, <1>2 DEF BinningFits
<1>15. Ready(c, f)
  BY <1>9, <1>10, <1>11, <1>13, <1>14, OnceIsReady, Zenon
<1> QED
  BY <1>15 DEF f

(* the exposure and the format, *)
LEMMA FixedReady ==
    ASSUME NEW c \in Configs
    PROVE  Ready(c, Function(AutoExposureLevelZero \o JpegFormat, {"fixed"}, c))
<1> DEFINE f == Function(AutoExposureLevelZero \o JpegFormat, {"fixed"}, c)
           x == AutoExposureLevelZero
           j == JpegFormat
           X == Range(ExposureRegisters)
           J == Range(FormatRegisters)
           C == X \cup J
<1>s. f.steps = x \o j
  BY DEF Function
<1>1. /\ f.makes = {"fixed"} /\ f.config = c
      /\ f = [steps |-> f.steps, makes |-> f.makes, config |-> f.config]
  BY DEF Function
<1>2. X \cap J = {} /\ X \subseteq C /\ J \subseteq C
  BY RegisterTables
<1>3. WritesOnce(x, X) /\ WritesOnce(j, J)
  BY ExposureOnce, FormatOnce DEF AutoExposureLevelZero
<1>4. Setting("fixed", f.config) = Range(x) \cup Range(j)
  BY DEF Setting
<1> HIDE DEF f, x, j, X, J, C
<1>5. WritesOnce(x \o j, C) /\ Range(x \o j) = Range(x) \cup Range(j)
  BY <1>2, <1>3, BothOnce
<1>6. WritesOnce(f.steps, C) /\ Range(f.steps) = Range(x) \cup Range(j)
  BY <1>s, <1>5, Zenon
<1>7. f \in DriverFunctions
  BY <1>1, <1>6 DEF DriverFunctions, WritesOnce, Settings
<1>8. \A p \in Settings \ f.makes : Setting(p, f.config) = Setting(p, c)
  BY <1>1
<1>9. \A p \in f.makes : \A e \in Setting(p, f.config) : p # "shared" /\ e \in Range(f.steps)
  BY <1>1, <1>4, <1>6
<1>10. BinningFits(c, f)
  BY <1>1 DEF BinningFits
<1>11. Ready(c, f)
  BY <1>6, <1>7, <1>8, <1>9, <1>10, OnceIsReady, Zenon
<1> QED
  BY <1>11 DEF f

(* and the resets, which make no setting. *)
LEMMA ResetReady ==
    ASSUME NEW c \in Configs
    PROVE  Ready(c, Function(<<[do |-> "check"], [do |-> "reset"], [do |-> "reset"]>>, {}, c))
<1> DEFINE f == Function(<<[do |-> "check"], [do |-> "reset"], [do |-> "reset"]>>, {}, c)
<1>1. /\ f.makes = {} /\ f.config = c
      /\ f = [steps |-> f.steps, makes |-> f.makes, config |-> f.config]
  BY DEF Function
<1>2. f.steps \in Seq(SensorSteps)
  <2>1. [do |-> "check"] \in SensorSteps /\ [do |-> "reset"] \in SensorSteps
    BY DEF SensorSteps
  <2>2. f.steps = <<[do |-> "check"], [do |-> "reset"], [do |-> "reset"]>>
    BY DEF Function
  <2> QED
    BY <2>1, <2>2
<1> HIDE DEF f
<1>3. f \in DriverFunctions
  BY <1>1, <1>2 DEF DriverFunctions
<1>4. Proper(c, f)
  BY <1>1 DEF Proper, BinningFits
<1>5. Ready(c, f)
  BY <1>1, <1>3, <1>4 DEF Ready
<1> QED
  BY <1>5 DEF f

(* The functions that an operation calls, each ready for what the one before   *)
(* it leaves.                                                                    *)
ReadyInTurn(c, functions) ==
    /\ functions \in Seq(DriverFunctions)
    /\ \A i \in 1..Len(functions) :
          Ready(IF i = 1 THEN c ELSE functions[i - 1].config, functions[i])

(* The initialization is such a series. *)
LEMMA InitializationReady ==
    ASSUME NEW c \in Configs, NEW size \in FrameSizes, NEW q \in 0..63
    PROVE  ReadyInTurn(c, Initialization(c, size, q))
<1> DEFINE d == DefaultRegisters(c)
           r == Function(<<[do |-> "check"], [do |-> "reset"], [do |-> "reset"]>>, {}, c)
           x == Function(AutoExposureLevelZero \o JpegFormat, {"fixed"}, d.config)
           z == SetFrameSize(d.config, size)
           k == SetQuality(z.config, q)
<1>1. Ready(c, d) /\ Ready(c, r)
  BY DefaultsReady, ResetReady
<1>2. d.config \in Configs
  BY <1>1 DEF Ready, DriverFunctions
<1>3. Ready(d.config, x) /\ Ready(d.config, z)
  BY <1>2, FixedReady, FrameSizeReady
<1>4. z.config \in Configs
  BY <1>3 DEF Ready, DriverFunctions
<1>5. Ready(z.config, k)
  BY <1>4, QualityReady
<1>6. r.config = c /\ x.config = d.config
  BY DEF Function
<1>7. Initialization(c, size, q) = <<r, d, x, z, k>>
  BY DEF Initialization
<1> HIDE DEF d, r, x, z, k
<1>8. r \in DriverFunctions /\ d \in DriverFunctions /\ x \in DriverFunctions
      /\ z \in DriverFunctions /\ k \in DriverFunctions
  BY <1>1, <1>3, <1>5 DEF Ready
<1> DEFINE fs == <<r, d, x, z, k>>
<1>9. fs \in Seq(DriverFunctions) /\ Len(fs) = 5
  BY <1>8
<1>10. fs[1] = r /\ fs[2] = d /\ fs[3] = x /\ fs[4] = z /\ fs[5] = k
  OBVIOUS
<1> HIDE DEF fs
<1>11. ASSUME NEW i \in 1..5
       PROVE  Ready(IF i = 1 THEN c ELSE fs[i - 1].config, fs[i])
  <2>1. CASE i = 1
    BY <1>1, <1>10, <2>1
  <2>2. CASE i = 2
    <3>1. fs[i - 1] = r /\ fs[i] = d
      BY <1>10, <2>2
    <3> QED
      BY <1>1, <1>6, <2>2, <3>1
  <2>3. CASE i = 3
    <3>1. fs[i - 1] = d /\ fs[i] = x
      BY <1>10, <2>3
    <3> QED
      BY <1>3, <2>3, <3>1
  <2>4. CASE i = 4
    <3>1. fs[i - 1] = x /\ fs[i] = z
      BY <1>10, <2>4
    <3> QED
      BY <1>3, <1>6, <2>4, <3>1
  <2>5. CASE i = 5
    <3>1. fs[i - 1] = z /\ fs[i] = k
      BY <1>10, <2>5
    <3> QED
      BY <1>5, <2>5, <3>1
  <2> QED
    BY <2>1, <2>2, <2>3, <2>4, <2>5
<1>12. ReadyInTurn(c, fs)
  BY <1>9, <1>11 DEF ReadyInTurn
<1> QED
  BY <1>7, <1>12 DEF fs

(* So is a setter alone. *)
LEMMA OneReady ==
    ASSUME NEW c \in Configs, NEW f, Ready(c, f)
    PROVE  ReadyInTurn(c, <<f>>)
<1>1. f \in DriverFunctions
  BY DEF Ready
<1>2. <<f>> \in Seq(DriverFunctions) /\ Len(<<f>>) = 1 /\ <<f>>[1] = f
  BY <1>1
<1> QED
  BY <1>2 DEF ReadyInTurn
-----------------------------------------------------------------------------
(* The operations.                                                             *)

(* What a setting wants concerns registers of its own, but for the two that are *)
(* shared.                                                                        *)
LEMMA SettingRegisters ==
    ASSUME NEW c \in Configs, NEW p \in Settings \ {"shared"}, NEW e \in Setting(p, c)
    PROVE  e.reg \in RegistersOf[p] /\ e.reg \in Registers
<1>1. e.reg \in RegistersOf[p]
  <2>1. CASE p = "mode"
    <3>1. /\ Setting(p, c) = Range(SetWindow(c.frame_size)) \cup {SetScaling(c.frame_size)}
                               \cup Range(SetJpegPll(c.frame_size))
          /\ c.frame_size \in FrameSizes
      BY <2>1 DEF Setting, Configs
    <3>2. RegistersOf[p] = Range(WindowRegisters) \cup {\h5001} \cup Range(PllRegisters)
      BY <2>1 DEF RegistersOf
    <3>3. \A s \in Range(SetWindow(c.frame_size)) : s.reg \in Range(WindowRegisters)
      BY <3>1, WindowOnce DEF WritesOnce
    <3>4. SetScaling(c.frame_size).reg = \h5001
      BY DEF SetScaling, SetRegisterBits
    <3>5. \A s \in Range(SetJpegPll(c.frame_size)) : s.reg \in Range(PllRegisters)
      BY PllOnce DEF WritesOnce
    <3> QED
      BY <3>1, <3>2, <3>3, <3>4, <3>5
  <2>2. CASE p = "options"
    <3>1. Setting(p, c) = Range(SetImageOptions(c.binning, c.vertical_flip))
      BY <2>2 DEF Setting
    <3>2. RegistersOf[p] = Range(OptionRegisters)
      BY <2>2 DEF RegistersOf
    <3> QED
      BY <3>1, <3>2, OptionsOnce DEF WritesOnce
  <2>3. CASE p = "quality"
    <3>1. Setting(p, c) = {Write(\h4407, c.quality)} /\ RegistersOf[p] = {\h4407}
      BY <2>3 DEF Setting, RegistersOf
    <3> QED
      BY <3>1 DEF Write
  <2>4. CASE p = "brightness"
    <3>1. Setting(p, c) = Range(BrightnessWrites(c.brightness)) /\ c.brightness \in -3..3
      BY <2>4 DEF Setting, Configs
    <3>2. RegistersOf[p] = {\h5587, \h5588}
      BY <2>4 DEF RegistersOf
    <3> QED
      BY <3>1, <3>2, BrightnessOnce DEF WritesOnce
  <2>5. CASE p = "saturation"
    <3>1. Setting(p, c) = Range(SaturationRow(c.saturation)) /\ c.saturation \in -4..4
      BY <2>5 DEF Setting, Configs
    <3>2. RegistersOf[p] = Range(SaturationRegisters)
      BY <2>5 DEF RegistersOf
    <3> QED
      BY <3>1, <3>2, SaturationOnce DEF WritesOnce
  <2>6. CASE p = "fixed"
    <3>1. Setting(p, c) = Range(AutoExposureLevelZero) \cup Range(JpegFormat)
      BY <2>6 DEF Setting
    <3>2. RegistersOf[p] = Range(ExposureRegisters) \cup Range(FormatRegisters)
      BY <2>6 DEF RegistersOf
    <3>3. \A s \in Range(AutoExposureLevelZero) : s.reg \in Range(ExposureRegisters)
      BY ExposureOnce DEF WritesOnce, AutoExposureLevelZero
    <3>4. \A s \in Range(JpegFormat) : s.reg \in Range(FormatRegisters)
      BY FormatOnce DEF WritesOnce
    <3> QED
      BY <3>1, <3>2, <3>3, <3>4
  <2> QED
    BY <2>1, <2>2, <2>3, <2>4, <2>5, <2>6 DEF Settings
<1> QED
  BY <1>1 DEF Registers

(* The two shared registers are registers. *)
LEMMA SharedRegisters ==
    ASSUME NEW c, NEW e \in Setting("shared", c)
    PROVE  e.reg \in Registers
<1>1. Setting("shared", c) = {Besides(\h5001, \h20, \h83), Besides(\h5588, \h08, 0)}
  BY DEF Setting
<1> QED
  BY <1>1, TablesAreRegisters DEF Besides

(* What one write does to a value that the settings want or leave alone.       *)
LEMMA WriteKeeps ==
    ASSUME regs \in [Registers -> Nat], NEW s \in SensorSteps, IsWrite(s),
           regs' = [regs EXCEPT ![s.reg] = Result(s, @)]
    PROVE  /\ regs' \in [Registers -> Nat]
           /\ \A e : e.reg \in Registers /\ Accepts(e, regs[e.reg]) /\ Keeps(s, e)
                       => Accepts(e, regs'[e.reg])
           /\ \A e : Gives(s, e) => Accepts(e, regs'[e.reg])
<1>1. s.reg \in Registers /\ \A v \in Nat : Result(s, v) \in Nat
  BY StepFacts
<1>2. regs[s.reg] \in Nat
  BY <1>1
<1>3. regs'[s.reg] = Result(s, regs[s.reg])
  BY <1>1
<1>4. \A r \in Registers : r # s.reg => regs'[r] = regs[r]
  BY <1>1
<1>5. regs' \in [Registers -> Nat]
  BY <1>1, <1>2
<1>6. ASSUME NEW e, e.reg \in Registers, Accepts(e, regs[e.reg]), Keeps(s, e)
      PROVE  Accepts(e, regs'[e.reg])
  <2>1. CASE e.reg = s.reg
    BY <1>2, <1>3, <1>6, <2>1 DEF Keeps
  <2>2. CASE e.reg # s.reg
    BY <1>4, <1>6, <2>2
  <2> QED
    BY <2>1, <2>2
<1>7. ASSUME NEW e, Gives(s, e)
      PROVE  Accepts(e, regs'[e.reg])
  BY <1>2, <1>3, <1>7 DEF Gives
<1> QED
  BY <1>5, <1>6, <1>7

(* An operation is begun: every function is ready for what the driver then keeps. *)
LEMMA CallKeeps ==
    ASSUME SensorInv, NEW functions, ReadyInTurn(held, functions), Call(functions)
    PROVE  SensorInv'
<1>1. /\ program' = functions /\ regs' = regs /\ held' = held
      /\ damaged' = damaged /\ failures' = failures
  BY DEF Call
<1>2. /\ functions \in Seq(DriverFunctions)
      /\ \A i \in 1..Len(functions) :
            Ready(IF i = 1 THEN held ELSE functions[i - 1].config, functions[i])
  BY DEF ReadyInTurn
<1>3. \A i \in 1..Len(functions) : functions[i] \in DriverFunctions
  BY <1>2
<1>4. SensorTypeOK'
  BY <1>1, <1>3 DEF SensorInv, SensorTypeOK, DriverFunctions
<1>5. AsConfigured'
  BY <1>1 DEF SensorInv, AsConfigured
<1>6. ProgramProper'
  BY <1>1, <1>2 DEF ProgramProper, ConfigBefore, Ready
<1>7. Underway'
  BY <1>1, <1>2 DEF Underway, Ready
<1> QED
  BY <1>4, <1>5, <1>6, <1>7 DEF SensorInv

(* The first function of a program that has steps left.                         *)
LEMMA FirstFunction ==
    ASSUME SensorInv, Writing
    PROVE  /\ 1 \in 1..Len(program) /\ program[1] \in DriverFunctions
           /\ program[1].steps \in Seq(SensorSteps) /\ program[1].steps # <<>>
           /\ CurrentStep \in SensorSteps /\ CurrentStep \in Range(program[1].steps)
           /\ Tail(program[1].steps) \in Seq(SensorSteps)
           /\ Range(Tail(program[1].steps)) \subseteq Range(program[1].steps)
           /\ \A s \in Range(program[1].steps) :
                 s = CurrentStep \/ s \in Range(Tail(program[1].steps))
<1> DEFINE f == program[1]
           t == Tail(f.steps)
<1>1. program \in Seq(DriverFunctions) /\ program # <<>>
  BY DEF SensorInv, ProgramProper, Writing
<1>2. 1 \in 1..Len(program) /\ f \in DriverFunctions
  BY <1>1
<1>3. f.steps \in Seq(SensorSteps) /\ f.steps # <<>>
  BY <1>2 DEF DriverFunctions, Writing
<1>4. CurrentStep = f.steps[1] /\ 1 \in 1..Len(f.steps)
  BY <1>3 DEF CurrentStep
<1> HIDE DEF f
<1>5. t \in Seq(SensorSteps) /\ Len(t) = Len(f.steps) - 1
      /\ \A i \in 1..Len(t) : t[i] = f.steps[i + 1]
  BY <1>3
<1>6. DOMAIN f.steps = 1..Len(f.steps) /\ DOMAIN t = 1..Len(t) /\ Len(f.steps) \in Nat
  BY <1>3, <1>5
<1>7. CurrentStep \in SensorSteps /\ CurrentStep \in Range(f.steps)
  BY <1>3, <1>4, <1>6 DEF Range
<1> HIDE DEF t
<1>8. Range(t) \subseteq Range(f.steps)
  <2> SUFFICES ASSUME NEW s \in Range(t) PROVE s \in Range(f.steps)
    OBVIOUS
  <2>1. PICK i \in 1..Len(t) : s = t[i]
    BY <1>6 DEF Range
  <2>2. i + 1 \in 1..Len(f.steps) /\ s = f.steps[i + 1]
    BY <1>5, <1>6, <2>1
  <2> QED
    BY <1>6, <2>2 DEF Range
<1>9. ASSUME NEW s \in Range(f.steps), s # CurrentStep
      PROVE  s \in Range(t)
  <2>1. PICK i \in 1..Len(f.steps) : s = f.steps[i]
    BY <1>6 DEF Range
  <2>2. i # 1
    BY <1>4, <1>9, <2>1
  <2>3. i - 1 \in 1..Len(t) /\ s = t[i - 1]
    BY <1>5, <1>6, <2>1, <2>2
  <2> QED
    BY <1>6, <2>3 DEF Range
<1> QED
  BY <1>2, <1>3, <1>5, <1>7, <1>8, <1>9 DEF f, t

(* What the bus does keeps the sensor as configured, and what the running      *)
(* function wants of it.                                                          *)
LEMMA ApplyKeeps ==
    ASSUME SensorInv, Writing, Apply, held' = held
    PROVE  /\ regs' \in [Registers -> Nat] /\ damaged' \subseteq Settings
           /\ AsConfigured'
           /\ \A p \in program[1].makes : \A e \in Setting(p, program[1].config) :
                 /\ IsWrite(CurrentStep)
                 /\ Accepts(e, regs[e.reg]) \/ Gives(CurrentStep, e) => Accepts(e, regs'[e.reg])
<1> DEFINE f == program[1]
           s == CurrentStep
<1>1. /\ 1 \in 1..Len(program) /\ f \in DriverFunctions
      /\ s \in SensorSteps /\ s \in Range(f.steps)
  BY FirstFunction
<1>2. /\ regs \in [Registers -> Nat] /\ damaged \subseteq Settings /\ held \in Configs
      /\ AsConfigured
  BY DEF SensorInv, SensorTypeOK
<1>3. \A p \in f.makes : \A e \in Setting(p, f.config) : IsWrite(s) /\ Keeps(s, e)
  BY <1>1 DEF SensorInv, ProgramProper, Proper
<1>4. f.makes \subseteq Settings /\ f.config \in Configs
  BY <1>1 DEF DriverFunctions
<1>5. \A p \in Settings : \A c \in Configs : \A e \in Setting(p, c) : e.reg \in Registers
  BY SettingRegisters, SharedRegisters
<1>6. \A p \in Settings \ {"shared"} : \A e \in Setting(p, held) : e.reg \in RegistersOf[p]
  BY <1>2, SettingRegisters
<1>7. CASE s.do = "check"
  <2>1. regs' = regs /\ damaged' = damaged
    BY <1>7 DEF Apply
  <2>2. AsConfigured'
    BY <1>2, <2>1 DEF AsConfigured
  <2>3. ~IsWrite(s)
    BY <1>7 DEF IsWrite
  <2> QED
    BY <1>2, <1>3, <2>1, <2>2, <2>3
<1>8. CASE s.do = "reset"
  <2>1. regs' = [r \in Registers |-> Unknown] /\ damaged' = Settings
    BY <1>8 DEF Apply
  <2>2. regs' \in [Registers -> Nat]
    BY <2>1 DEF Unknown
  <2>3. AsConfigured'
    BY <2>1 DEF AsConfigured, Settings
  <2>4. ~IsWrite(s)
    BY <1>8 DEF IsWrite
  <2> QED
    BY <1>3, <2>1, <2>2, <2>3, <2>4
<1>9. CASE IsWrite(s)
  <2>1. /\ regs' = [regs EXCEPT ![s.reg] = Result(s, @)]
        /\ damaged' = damaged \cup {p \in Settings : s.reg \in RegistersOf[p]}
    BY <1>9 DEF Apply, IsWrite
  <2> HIDE DEF s, f
  <2>2. /\ regs' \in [Registers -> Nat]
        /\ \A e : e.reg \in Registers /\ Accepts(e, regs[e.reg]) /\ Keeps(s, e)
                    => Accepts(e, regs'[e.reg])
        /\ \A e : Gives(s, e) => Accepts(e, regs'[e.reg])
    BY <1>1, <1>2, <1>9, <2>1, WriteKeeps
  <2>3. \A p \in f.makes : \A e \in Setting(p, f.config) :
           Accepts(e, regs[e.reg]) \/ Gives(s, e) => Accepts(e, regs'[e.reg])
    BY <1>3, <1>4, <1>5, <2>2
  <2>4. ASSUME NEW p \in Settings \ damaged', NEW e \in Setting(p, held)
        PROVE  Accepts(e, regs'[e.reg])
    <3>1. Accepts(e, regs[e.reg]) /\ e.reg \in Registers
      BY <1>2, <1>5, <2>1, <2>4 DEF AsConfigured
    <3>2. s.reg \notin RegistersOf[p]
      BY <2>1, <2>4
    <3>3. Keeps(s, e)
      <4>1. CASE p = "shared"
        BY <1>1, <1>9, <2>4, <4>1, StepFacts
      <4>2. CASE p # "shared"
        <5>1. e.reg \in RegistersOf[p]
          BY <1>6, <2>4, <4>2
        <5> QED
          BY <3>2, <5>1 DEF Keeps
      <4> QED
        BY <4>1, <4>2
    <3> QED
      BY <2>2, <3>1, <3>3
  <2>5. AsConfigured'
    BY <1>2, <2>1, <2>4 DEF AsConfigured
  <2>6. damaged' \subseteq Settings
    BY <1>2, <2>1
  <2> QED
    BY <1>9, <2>2, <2>3, <2>5, <2>6 DEF s, f
<1> QED
  BY <1>7, <1>8, <1>9 DEF Apply, IsWrite

(* A step is done and taken off the program. *)
LEMMA StepKeeps ==
    ASSUME SensorInv, Step
    PROVE  SensorInv'
<1> DEFINE f == program[1]
           g == [f EXCEPT !.steps = Tail(@)]
<1>1. /\ Writing /\ Apply /\ held' = held /\ failures' = failures
      /\ program' = [program EXCEPT ![1] = g]
  BY DEF Step
<1>2. /\ program \in Seq(DriverFunctions) /\ 1 \in 1..Len(program) /\ f \in DriverFunctions
      /\ CurrentStep \in Range(f.steps) /\ Tail(f.steps) \in Seq(SensorSteps)
      /\ Range(Tail(f.steps)) \subseteq Range(f.steps)
      /\ \A s \in Range(f.steps) : s = CurrentStep \/ s \in Range(Tail(f.steps))
  BY <1>1, FirstFunction DEF SensorInv, ProgramProper
<1>3. /\ regs' \in [Registers -> Nat] /\ damaged' \subseteq Settings
      /\ AsConfigured'
      /\ \A p \in f.makes : \A e \in Setting(p, f.config) :
            Accepts(e, regs[e.reg]) \/ Gives(CurrentStep, e) => Accepts(e, regs'[e.reg])
  BY <1>1, ApplyKeeps
<1>4. /\ g \in DriverFunctions /\ g.steps = Tail(f.steps)
      /\ g.makes = f.makes /\ g.config = f.config
  BY <1>2 DEF DriverFunctions
<1> HIDE DEF f, g
<1>5. /\ program' \in Seq(DriverFunctions) /\ Len(program') = Len(program)
      /\ program'[1] = g /\ program[1] = f
      /\ \A i \in 1..Len(program) : i # 1 => program'[i] = program[i]
  BY <1>1, <1>2, <1>4 DEF f
<1>6. \A i \in 1..Len(program) : /\ program'[i] \in DriverFunctions
                                 /\ program'[i].makes = program[i].makes
                                 /\ program'[i].config = program[i].config
  BY <1>2, <1>4, <1>5
<1>7. SensorTypeOK'
  BY <1>1, <1>3, <1>5, <1>6 DEF SensorInv, SensorTypeOK
<1>8. ASSUME NEW i \in 1..Len(program)
      PROVE  Proper(ConfigBefore(i)', program'[i])
  <2>1. ConfigBefore(i)' = ConfigBefore(i)
    <3>1. CASE i = 1
      BY <1>1, <3>1 DEF ConfigBefore
    <3>2. CASE i # 1
      <4>1. i - 1 \in 1..Len(program)
        BY <1>2, <3>2
      <4> QED
        BY <1>6, <3>2, <4>1 DEF ConfigBefore
    <3> QED
      BY <3>1, <3>2
  <2>2. Proper(ConfigBefore(i), program[i])
    BY DEF SensorInv, ProgramProper
  <2>3. Range(program'[i].steps) \subseteq Range(program[i].steps)
    BY <1>2, <1>4, <1>5
  <2> QED
    BY <1>6, <2>1, <2>2, <2>3 DEF Proper, BinningFits
<1>9. ProgramProper'
  BY <1>5, <1>8 DEF ProgramProper
<1>10. ASSUME NEW i \in 1..Len(program),
              NEW p \in program'[i].makes, NEW e \in Setting(p, program'[i].config)
       PROVE  Pending(program'[i], e) \/ (i = 1 /\ Accepts(e, regs'[e.reg]))
  <2>1. p \in program[i].makes /\ e \in Setting(p, program[i].config)
    BY <1>6, <1>10
  <2>2. Pending(program[i], e) \/ (i = 1 /\ Accepts(e, regs[e.reg]))
    BY <2>1 DEF SensorInv, Underway
  <2>3. CASE i # 1
    BY <1>5, <2>2, <2>3
  <2>4. CASE i = 1 /\ Accepts(e, regs[e.reg])
    BY <1>3, <1>5, <2>1, <2>4
  <2>5. CASE i = 1 /\ Pending(program[i], e)
    <3>1. PICK s \in Range(f.steps) : IsWrite(s) /\ Gives(s, e)
      BY <1>5, <2>5 DEF Pending
    <3>2. CASE s = CurrentStep
      BY <1>3, <1>5, <2>1, <2>5, <3>1, <3>2
    <3>3. CASE s \in Range(Tail(f.steps))
      BY <1>4, <1>5, <2>5, <3>1, <3>3 DEF Pending
    <3> QED
      BY <1>2, <3>2, <3>3
  <2> QED
    BY <2>2, <2>3, <2>4, <2>5
<1>11. Underway'
  BY <1>5, <1>10 DEF Underway
<1> QED
  BY <1>3, <1>7, <1>9, <1>11 DEF SensorInv

(* A function returns: all that it makes is there, and the next one is ready for it. *)
LEMMA ReturnKeeps ==
    ASSUME SensorInv, ReturnOk
    PROVE  SensorInv'
<1> DEFINE f == program[1]
<1>1. /\ program # <<>> /\ f.steps = <<>> /\ program' = Tail(program)
      /\ held' = f.config /\ damaged' = damaged \ f.makes
      /\ regs' = regs /\ failures' = failures
  BY DEF ReturnOk
<1>2. program \in Seq(DriverFunctions) /\ 1 \in 1..Len(program) /\ f \in DriverFunctions
  BY <1>1 DEF SensorInv, ProgramProper
<1>3. f.makes \subseteq Settings /\ f.config \in Configs
  BY <1>2 DEF DriverFunctions
<1>4. \A p \in f.makes : \A e \in Setting(p, f.config) : Accepts(e, regs[e.reg])
  <2>1. Range(f.steps) = {}
    BY <1>1 DEF Range
  <2>2. \A e : ~Pending(f, e)
    BY <2>1 DEF Pending
  <2> QED
    BY <1>2, <2>2 DEF SensorInv, Underway
<1>5. Proper(held, f)
  BY <1>2 DEF SensorInv, ProgramProper, ConfigBefore
<1> HIDE DEF f
<1>6. AsConfigured'
  <2>1. \A p \in Settings \ damaged' : \A e \in Setting(p, held') : Accepts(e, regs'[e.reg])
    BY <1>1, <1>4, <1>5 DEF SensorInv, AsConfigured, Proper
  <2>2. "mode" \notin damaged' => held'.binning = Binned(held'.frame_size)
    BY <1>1, <1>5 DEF SensorInv, AsConfigured, Proper, BinningFits
  <2> QED
    BY <2>1, <2>2 DEF AsConfigured
<1>7. /\ program' \in Seq(DriverFunctions) /\ Len(program') = Len(program) - 1
      /\ \A i \in 1..Len(program') : i + 1 \in 1..Len(program) /\ program'[i] = program[i + 1]
  BY <1>1, <1>2
<1>8. \A i \in 1..Len(program') : program'[i] \in DriverFunctions
  BY <1>2, <1>7
<1>9. SensorTypeOK'
  BY <1>1, <1>3, <1>8 DEF SensorInv, SensorTypeOK, DriverFunctions
<1>10. ASSUME NEW i \in 1..Len(program')
       PROVE  Proper(ConfigBefore(i)', program'[i])
  <2>1. ConfigBefore(i)' = ConfigBefore(i + 1)
    <3>1. ConfigBefore(i + 1) = program[i].config
      BY <1>7 DEF ConfigBefore
    <3>2. CASE i = 1
      BY <1>1, <3>1, <3>2 DEF ConfigBefore, f
    <3>3. CASE i # 1
      <4>1. i - 1 \in 1..Len(program') /\ (i - 1) + 1 = i
        BY <1>2, <1>7, <3>3
      <4>2. program'[i - 1] = program[i]
        BY <1>7, <4>1
      <4> QED
        BY <3>1, <3>3, <4>2 DEF ConfigBefore
    <3> QED
      BY <3>2, <3>3
  <2> QED
    BY <1>7, <2>1 DEF SensorInv, ProgramProper
<1>11. ProgramProper'
  BY <1>7, <1>10 DEF ProgramProper
<1>12. ASSUME NEW i \in 1..Len(program'),
              NEW p \in program'[i].makes, NEW e \in Setting(p, program'[i].config)
       PROVE  Pending(program'[i], e)
  <2>1. i + 1 \in 1..Len(program) /\ i + 1 # 1 /\ program'[i] = program[i + 1]
    BY <1>7
  <2> QED
    BY <1>12, <2>1 DEF SensorInv, Underway
<1>13. Underway'
  BY <1>12 DEF Underway
<1> QED
  BY <1>6, <1>9, <1>11, <1>13 DEF SensorInv

(* An operation fails, or the microcontroller starts over. *)
LEMMA FailureKeeps ==
    ASSUME SensorInv, Fail \/ Restart
    PROVE  SensorInv'
<1>1. program' = <<>> /\ failures < MaxFailures /\ failures' = failures + 1
  BY DEF Fail, Restart
<1>2. failures' \in 0..MaxFailures
  BY <1>1, SettingAssumption DEF SensorInv, SensorTypeOK
<1>3. ProgramProper' /\ Underway'
  <2>1. program' \in Seq(DriverFunctions) /\ Len(program') = 0
    BY <1>1
  <2> QED
    BY <2>1 DEF ProgramProper, Underway
<1>4. /\ regs' \in [Registers -> Nat] /\ held' \in Configs /\ damaged' \subseteq Settings
      /\ AsConfigured'
  <2>1. CASE Fail /\ Apply
    BY <2>1, ApplyKeeps DEF Fail, SensorInv, SensorTypeOK
  <2>2. CASE Fail /\ UNCHANGED <<regs, damaged>>
    BY <2>2 DEF Fail, SensorInv, SensorTypeOK, AsConfigured
  <2>3. CASE Restart
    <3>1. New \in Configs
      BY DEF New, Configs, FrameSizes
    <3>2. AsConfigured'
      BY <2>3 DEF Restart, AsConfigured, Settings
    <3> QED
      BY <2>3, <3>1, <3>2 DEF Restart, SensorInv, SensorTypeOK
  <2> QED
    BY <2>1, <2>2, <2>3 DEF Fail
<1>5. SensorTypeOK'
  <2>1. Len(program') = 0
    BY <1>1
  <2> QED
    BY <1>2, <1>4, <2>1 DEF SensorTypeOK
<1> QED
  BY <1>3, <1>4, <1>5 DEF SensorInv

(* The invariant of the configuration is inductive. *)
LEMMA SensorInductive ==
    /\ SensorInit => SensorInv
    /\ SensorInv /\ [SensorNext]_sensorVars => SensorInv'
<1>1. SensorInit => SensorInv
  <2> SUFFICES ASSUME SensorInit PROVE SensorInv
    OBVIOUS
  <2>1. New \in Configs
    BY DEF New, Configs, FrameSizes
  <2>2. Unknown \in Nat /\ 0 \in 0..MaxFailures
    BY SettingAssumption DEF Unknown
  <2>3. program \in Seq(DriverFunctions) /\ Len(program) = 0
    BY DEF SensorInit
  <2>4. SensorTypeOK
    BY <2>1, <2>2, <2>3 DEF SensorInit, SensorTypeOK
  <2>5. AsConfigured
    BY DEF SensorInit, AsConfigured, Settings
  <2>6. ProgramProper /\ Underway
    BY <2>3 DEF ProgramProper, Underway
  <2> QED
    BY <2>4, <2>5, <2>6 DEF SensorInv
<1>2. ASSUME SensorInv, [SensorNext]_sensorVars PROVE SensorInv'
  <2>a. held \in Configs
    BY <1>2 DEF SensorInv, SensorTypeOK
  <2>1. CASE Initialize
    <3>1. PICK s \in Sizes, q \in Qualities : Call(Initialization(held, s, q))
      BY <2>1 DEF Initialize
    <3>2. s \in FrameSizes /\ q \in 0..63
      BY SettingAssumption
    <3> QED
      BY <1>2, <2>a, <3>1, <3>2, InitializationReady, CallKeeps
  <2>2. CASE ChangeFrameSize
    <3>1. PICK s \in Sizes : Call(<<SetFrameSize(held, s)>>)
      BY <2>2 DEF ChangeFrameSize
    <3>2. s \in FrameSizes
      BY SettingAssumption
    <3> QED
      BY <1>2, <2>a, <3>1, <3>2, FrameSizeReady, OneReady, CallKeeps
  <2>3. CASE ChangeQuality
    <3>1. PICK q \in Qualities : Call(<<SetQuality(held, q)>>)
      BY <2>3 DEF ChangeQuality
    <3>2. q \in 0..63
      BY SettingAssumption
    <3> QED
      BY <1>2, <2>a, <3>1, <3>2, QualityReady, OneReady, CallKeeps
  <2>4. CASE ChangeVerticalFlip
    <3>1. PICK f \in BOOLEAN : Call(<<SetVerticalFlip(held, f)>>)
      BY <2>4 DEF ChangeVerticalFlip
    <3> QED
      BY <1>2, <2>a, <3>1, FlipReady, OneReady, CallKeeps
  <2>5. CASE ChangeBrightness
    <3>1. PICK l \in BrightnessLevels : Call(<<SetBrightness(held, l)>>)
      BY <2>5 DEF ChangeBrightness
    <3>2. l \in -3..3
      BY SettingAssumption
    <3> QED
      BY <1>2, <2>a, <3>1, <3>2, BrightnessReady, OneReady, CallKeeps
  <2>6. CASE ChangeSaturation
    <3>1. PICK l \in SaturationLevels : Call(<<SetSaturation(held, l)>>)
      BY <2>6 DEF ChangeSaturation
    <3>2. l \in -4..4
      BY SettingAssumption
    <3> QED
      BY <1>2, <2>a, <3>1, <3>2, SaturationReady, OneReady, CallKeeps
  <2>7. CASE Step
    BY <1>2, <2>7, StepKeeps
  <2>8. CASE ReturnOk
    BY <1>2, <2>8, ReturnKeeps
  <2>9. CASE Fail \/ Restart
    BY <1>2, <2>9, FailureKeeps
  <2>10. CASE UNCHANGED sensorVars
    BY <1>2, <2>10 DEF sensorVars, SensorInv, SensorTypeOK, AsConfigured, ProgramProper,
                       ConfigBefore, Underway
  <2> QED
    BY <1>2, <2>1, <2>2, <2>3, <2>4, <2>5, <2>6, <2>7, <2>8, <2>9, <2>10 DEF SensorNext
<1> QED
  BY <1>1, <1>2

(* In every state, whatever failed or restarted before: each register of each   *)
(* setting that no failure left damaged is as the settings that the driver      *)
(* believes in make it, for every frame size, quality, level and clock.         *)
THEOREM SettingsSafe == SensorSpec => [](SensorTypeOK /\ AsConfigured)
<1>1. SensorSpec => []SensorInv
  BY SensorInductive, PTL DEF SensorSpec
<1>2. SensorInv => SensorTypeOK /\ AsConfigured
  BY DEF SensorInv
<1> QED
  BY <1>1, <1>2, PTL
=============================================================================
