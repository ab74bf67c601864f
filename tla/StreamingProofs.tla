--------------------------- MODULE StreamingProofs ---------------------------
(***************************************************************************)
(* Proofs about Streaming, for any set of workers, any pool of buffers     *)
(* that fits the channels, any audio queue and any number of frames.       *)
(***************************************************************************)
EXTENDS Streaming, FiniteSetTheorems, SequenceTheorems, TLAPS

-----------------------------------------------------------------------------
(* Sequences and their elements.                                            *)

Elements(s) == {s[i] : i \in 1..Len(s)}

NoRepeats(s) == \A i, j \in 1..Len(s) : s[i] = s[j] => i = j

(* What is left of a channel when its oldest element is received. *)
LEMMA TailFacts ==
    ASSUME NEW S, NEW s \in Seq(S), s # <<>>
    PROVE  /\ Head(s) \in S /\ Head(s) = s[1]
           /\ Tail(s) \in Seq(S)
           /\ Len(s) \in Nat \ {0} /\ Len(Tail(s)) = Len(s) - 1
           /\ \A i \in 1..Len(Tail(s)) : Tail(s)[i] = s[i + 1]
           /\ NoRepeats(s) => /\ NoRepeats(Tail(s))
                              /\ Elements(Tail(s)) = Elements(s) \ {Head(s)}
<1>1. /\ Head(s) \in S /\ Head(s) = s[1]
      /\ Tail(s) \in Seq(S)
      /\ Len(s) \in Nat \ {0} /\ Len(Tail(s)) = Len(s) - 1
      /\ \A i \in 1..Len(Tail(s)) : Tail(s)[i] = s[i + 1]
  BY HeadTailProperties, EmptySeq
<1>2. ASSUME NoRepeats(s)
      PROVE  NoRepeats(Tail(s)) /\ Elements(Tail(s)) = Elements(s) \ {Head(s)}
  <2>1. NoRepeats(Tail(s))
    BY <1>1, <1>2 DEF NoRepeats
  <2>2. Elements(Tail(s)) \subseteq Elements(s) \ {Head(s)}
    <3> SUFFICES ASSUME NEW i \in 1..Len(Tail(s))
                 PROVE  Tail(s)[i] \in Elements(s) \ {Head(s)}
      BY DEF Elements
    <3>1. i + 1 \in 1..Len(s) /\ 1 \in 1..Len(s) /\ i + 1 # 1
      BY <1>1
    <3> QED
      BY <1>1, <1>2, <3>1 DEF Elements, NoRepeats
  <2>3. Elements(s) \ {Head(s)} \subseteq Elements(Tail(s))
    <3> SUFFICES ASSUME NEW i \in 1..Len(s), s[i] # Head(s)
                 PROVE  s[i] \in Elements(Tail(s))
      BY DEF Elements
    <3>1. i # 1
      BY <1>1
    <3>2. i - 1 \in 1..Len(Tail(s)) /\ (i - 1) + 1 = i
      BY <1>1, <3>1
    <3> QED
      BY <1>1, <3>2 DEF Elements
  <2> QED
    BY <2>1, <2>2, <2>3
<1> QED
  BY <1>1, <1>2

(* A channel one element was sent to. *)
LEMMA AppendFacts ==
    ASSUME NEW S, NEW s \in Seq(S), NEW e \in S
    PROVE  /\ Append(s, e) \in Seq(S)
           /\ Len(s) \in Nat /\ Len(Append(s, e)) = Len(s) + 1
           /\ Append(s, e)[Len(s) + 1] = e
           /\ \A i \in 1..Len(s) : Append(s, e)[i] = s[i]
           /\ Append(s, e) # <<>>
           /\ Elements(Append(s, e)) = Elements(s) \cup {e}
           /\ NoRepeats(s) /\ e \notin Elements(s) => NoRepeats(Append(s, e))
<1>1. /\ Append(s, e) \in Seq(S)
      /\ Len(s) \in Nat /\ Len(Append(s, e)) = Len(s) + 1
      /\ Append(s, e)[Len(s) + 1] = e
      /\ \A i \in 1..Len(s) : Append(s, e)[i] = s[i]
  BY LenProperties
<1>2. Append(s, e) # <<>>
  BY <1>1, EmptySeq
<1>3. Elements(Append(s, e)) = Elements(s) \cup {e}
  <2>1. ASSUME NEW i \in 1..(Len(s) + 1)
        PROVE  Append(s, e)[i] \in Elements(s) \cup {e}
    <3>1. CASE i = Len(s) + 1
      BY <1>1, <3>1
    <3>2. CASE i # Len(s) + 1
      <4>1. i \in 1..Len(s)
        BY <1>1, <3>2
      <4> QED
        BY <1>1, <4>1 DEF Elements
    <3> QED
      BY <3>1, <3>2
  <2>2. ASSUME NEW i \in 1..Len(s)
        PROVE  s[i] \in Elements(Append(s, e))
    <3>1. i \in 1..(Len(s) + 1)
      BY <1>1
    <3> QED
      BY <1>1, <3>1 DEF Elements
  <2>3. e \in Elements(Append(s, e))
    <3>1. Len(s) + 1 \in 1..(Len(s) + 1)
      BY <1>1
    <3> QED
      BY <1>1, <3>1 DEF Elements
  <2> QED
    BY <1>1, <2>1, <2>2, <2>3 DEF Elements
<1>4. ASSUME NoRepeats(s), e \notin Elements(s)
      PROVE  NoRepeats(Append(s, e))
  <2> SUFFICES ASSUME NEW i \in 1..(Len(s) + 1), NEW j \in 1..(Len(s) + 1),
                      Append(s, e)[i] = Append(s, e)[j]
               PROVE  i = j
    BY <1>1 DEF NoRepeats
  <2>1. CASE i = Len(s) + 1 \/ j = Len(s) + 1
    BY <1>1, <1>4, <2>1 DEF Elements
  <2>2. CASE i \in 1..Len(s) /\ j \in 1..Len(s)
    BY <1>1, <1>4, <2>2 DEF NoRepeats
  <2> QED
    BY <1>1, <2>1, <2>2
<1> QED
  BY <1>1, <1>2, <1>3, <1>4
-----------------------------------------------------------------------------
(* The inductive invariant.                                                 *)

WritePCs == {"mjpegWrite", "snapWrite"}

\* A worker holds a buffer exactly while it sends one.
HeldWhileWriting == \A w \in Workers : held[w] # NoBuffer <=> pc[w] \in WritePCs

Holders == {w \in Workers : held[w] # NoBuffer}

\* No buffer is in two places.
NoneShared ==
    /\ NoRepeats(ready)
    /\ empty \cap Elements(ready) = {}
    /\ camera \notin empty \cup Elements(ready)
    /\ \A w \in Holders : held[w] \notin empty \cup Elements(ready) \cup {camera}
    /\ \A v, w \in Holders : held[v] = held[w] => v = w

\* Every buffer is somewhere, and they are counted.
AllSomewhere ==
    /\ empty \cup Elements(ready) \cup (({camera} \cup {held[w] : w \in Workers}) \ {NoBuffer})
         = Buffers
    /\ IsFiniteSet(Holders)
    /\ Cardinality(empty) + Len(ready) + (IF camera = NoBuffer THEN 0 ELSE 1)
         + Cardinality(Holders) = Cardinality(Buffers)

\* The frames that wait are newer than any that was taken, in the order of their
\* completion, up to the one completed last.
FramesOrdered ==
    /\ delivered <= frames
    /\ \A i \in 1..Len(ready) : stamp[ready[i]] > delivered /\ stamp[ready[i]] <= frames
    /\ \A i, j \in 1..Len(ready) : i < j => stamp[ready[i]] < stamp[ready[j]]

\* What an open stream can have taken in this transfer, by where it is.
TakenByPlace ==
    \A w \in Workers :
        /\ ~transfer => taken[w] = 0 /\ ~late[w]
        /\ pc[w] \in {"mjpegHeaders", "mjpegWait"} => taken[w] = 0
        /\ pc[w] \in {"mjpeg", "mjpegWrite"} => taken[w] <= (IF late[w] THEN 0 ELSE 1)
        /\ late[w] => pc[w] \notin {"mjpegWait", "mjpegWrite"}

PoolInv ==
    /\ ~panicked
    /\ HeldWhileWriting
    /\ NoneShared
    /\ AllSomewhere
    /\ FramesOrdered
    /\ ReadyIsCurrent

Inv == TypeOK /\ PoolInv /\ AudioExclusive /\ TakenByPlace
-----------------------------------------------------------------------------
(* The type invariant.                                                      *)

(* What EMPTY_FRAMES hands out was one of its buffers. *)
LEMMA TakeEmptyFacts ==
    ASSUME TakeEmpty
    PROVE  camera' \in empty /\ empty' = empty \ {camera'}
<1>1. (CHOOSE b \in empty : TRUE) \in empty
  BY DEF TakeEmpty
<1> QED
  BY <1>1 DEF TakeEmpty

(* A send to READY_FRAMES keeps it a sequence of buffers. *)
LEMMA SendReadyTypes ==
    ASSUME TypeOK, NEW rest \in Seq(Buffers), NEW b \in Buffers, SendReady(rest, b)
    PROVE  ready' \in Seq(Buffers) /\ panicked' \in BOOLEAN
<1>1. Append(rest, b) \in Seq(Buffers)
  BY AppendFacts
<1>2. ready' \in {Append(rest, b), rest} /\ panicked' \in {panicked, TRUE}
  BY DEF SendReady
<1> QED
  BY <1>1, <1>2 DEF TypeOK

(* A step of the camera keeps the pool well formed. *)
LEMMA CameraTypes ==
    ASSUME TypeOK, StartCamera \/ EndOfImage
    PROVE  TypeOK'
<1>1. CASE StartCamera
  BY <1>1, TakeEmptyFacts
     DEF StartCamera, history, audioVars, TypeOK
<1>2. CASE EndOfImage
  <2>1. /\ camera \in Buffers
        /\ frames' \in 0..MaxFrames /\ frames' \in Nat
    BY <1>2, QueueAssumption DEF EndOfImage, TypeOK
  <2>2. UNCHANGED <<held, delivered, pc, taken, late, pcm, audioActive, transfer>>
    BY <1>2 DEF EndOfImage, history, audioVars
  <2>3. CASE Publish
    <3>1. stamp' \in [Buffers -> Nat]
      BY <2>1, <2>3 DEF Publish, TypeOK
    <3>2. CASE TakeEmpty /\ SendReady(ready, camera)
      <4>1. ready' \in Seq(Buffers) /\ panicked' \in BOOLEAN
        BY <2>1, <3>2, SendReadyTypes DEF TypeOK
      <4> QED
        BY <2>1, <2>2, <3>1, <3>2, <4>1, TakeEmptyFacts DEF TypeOK
    <3>3. CASE /\ empty = {} /\ ready # <<>>
               /\ camera' = Head(ready)
               /\ SendReady(Tail(ready), camera)
               /\ UNCHANGED empty
      <4>1. Head(ready) \in Buffers /\ Tail(ready) \in Seq(Buffers)
        BY <3>3, TailFacts DEF TypeOK
      <4>2. ready' \in Seq(Buffers) /\ panicked' \in BOOLEAN
        BY <2>1, <3>3, <4>1, SendReadyTypes
      <4> QED
        BY <2>1, <2>2, <3>1, <3>3, <4>1, <4>2 DEF TypeOK
    <3> QED
      BY <2>3, <3>2, <3>3 DEF Publish
  <2>4. CASE UNCHANGED <<empty, ready, camera, stamp, panicked>>
    BY <2>1, <2>2, <2>4 DEF TypeOK
  <2> QED
    BY <1>2, <2>3, <2>4 DEF EndOfImage
<1> QED
  BY <1>1, <1>2

(* A step of a worker goes to one of its places. *)
LEMMA GotoTypes ==
    ASSUME TypeOK, NEW w \in Workers, NEW label \in PCs, Goto(w, label)
    PROVE  /\ pc' \in [Workers -> PCs]
           /\ pc'[w] = label
           /\ \A v \in Workers \ {w} : pc'[v] = pc[v]
BY DEF TypeOK, Goto

(* Taking a frame and giving it back keep the pool well formed. *)
LEMMA TakeFrameTypes ==
    ASSUME TypeOK, NEW w \in Workers, NEW next \in PCs, TakeFrame(w, next)
    PROVE  TypeOK'
<1>1. Head(ready) \in Buffers /\ Tail(ready) \in Seq(Buffers)
  BY TailFacts DEF TakeFrame, TypeOK
<1>2. pc' \in [Workers -> PCs]
  BY GotoTypes DEF TakeFrame
<1>3. taken' \in [Workers -> Nat] /\ delivered' \in Nat
  BY <1>1 DEF TakeFrame, TypeOK
<1>4. held' \in [Workers -> Buffers \cup {NoBuffer}]
  BY <1>1 DEF TakeFrame, TypeOK
<1> QED
  BY <1>1, <1>2, <1>3, <1>4 DEF TakeFrame, TypeOK, audioVars

(* A buffer a worker gives back is an empty one again. *)
LEMMA ReturnFrameTypes ==
    ASSUME TypeOK, NEW w \in Workers, ReturnFrame(w), held[w] # NoBuffer,
           NEW next \in PCs, Goto(w, next),
           UNCHANGED <<history, audioVars, transfer>>
    PROVE  TypeOK'
<1>1. held[w] \in Buffers
  BY DEF TypeOK
<1>2. pc' \in [Workers -> PCs]
  BY GotoTypes
<1>3. held' \in [Workers -> Buffers \cup {NoBuffer}]
  BY DEF ReturnFrame, TypeOK
<1>4. empty' \subseteq Buffers /\ panicked' \in BOOLEAN
  BY <1>1 DEF ReturnFrame, TypeOK
<1> QED
  BY <1>2, <1>3, <1>4 DEF ReturnFrame, TypeOK, audioVars, history

(* Every step of a worker that waits for nothing but its client or a timer     *)
(* keeps the types.                                                          *)
LEMMA WorkerTypes ==
    ASSUME TypeOK, HeldWhileWriting, NEW w \in Workers, Worker(w)
    PROVE  TypeOK'
<1> USE DEF PCs, MjpegPCs, AudioPCs
<1>1. CASE \/ Close(w) \/ Reply(w) \/ Accept(w)
           \/ MjpegLoop(w) \/ MjpegTimeout(w) \/ MjpegHeaders(w) \/ SnapshotTimeout(w)
           \/ AudioTimeout(w)
  <2>1. UNCHANGED <<poolVars, history, audioVars, transfer, panicked>>
    BY <1>1 DEF Close, Reply, Accept, MjpegLoop, MjpegTimeout, MjpegHeaders,
                SnapshotTimeout, AudioTimeout
  <2>2. pc' \in [Workers -> PCs]
    BY <1>1, GotoTypes DEF Close, Reply, Accept, MjpegLoop, MjpegTimeout,
                           MjpegHeaders, SnapshotTimeout, AudioTimeout
  <2> QED
    BY <2>1, <2>2 DEF TypeOK, poolVars, history, audioVars
<1>2. CASE ReadRequest(w)
  <2>1. pc' \in [Workers -> PCs]
    BY <1>2, GotoTypes DEF ReadRequest
  <2>2. taken' \in [Workers -> Nat] /\ late' \in [Workers -> BOOLEAN]
    BY <1>2 DEF ReadRequest, TypeOK
  <2>3. audioActive' \in BOOLEAN
    BY <1>2 DEF ReadRequest, TypeOK
  <2> QED
    BY <1>2, <2>1, <2>2, <2>3 DEF ReadRequest, TypeOK, poolVars
<1>3. CASE MjpegFrame(w) \/ SnapshotFrame(w)
  BY <1>3, TakeFrameTypes DEF MjpegFrame, SnapshotFrame
<1>4. CASE MjpegWritten(w)
  <2>1. held[w] # NoBuffer
    BY <1>4 DEF MjpegWritten, HeldWhileWriting, WritePCs
  <2> QED
    BY <1>4, <2>1, ReturnFrameTypes DEF MjpegWritten
<1>5. CASE SnapshotWritten(w)
  <2>1. held[w] # NoBuffer
    BY <1>5 DEF SnapshotWritten, HeldWhileWriting, WritePCs
  <2> QED
    BY <1>5, <2>1, ReturnFrameTypes DEF SnapshotWritten
<1>6. CASE AudioHeaders(w) \/ AudioLoop(w) \/ AudioWritten(w) \/ AudioChunk(w)
  <2>1. pc' \in [Workers -> PCs]
    BY <1>6, GotoTypes DEF AudioHeaders, AudioLoop, AudioWritten, AudioChunk, LeaveAudio
  <2>2. audioActive' \in BOOLEAN
    BY <1>6 DEF AudioHeaders, AudioLoop, AudioWritten, AudioChunk, LeaveAudio, TypeOK
  <2>3. pcm' \in 0..PcmCap
    BY <1>6, QueueAssumption
       DEF AudioHeaders, AudioLoop, AudioWritten, AudioChunk, TypeOK
  <2>4. UNCHANGED <<poolVars, history, transfer, panicked>>
    BY <1>6 DEF AudioHeaders, AudioLoop, AudioWritten, AudioChunk
  <2> QED
    BY <2>1, <2>2, <2>3, <2>4 DEF TypeOK, poolVars, history
<1> QED
  BY <1>1, <1>2, <1>3, <1>4, <1>5, <1>6 DEF Worker, OwnStep, ClientStep

(* So does every step. *)
LEMMA TypeStep ==
    ASSUME TypeOK, HeldWhileWriting, [Next]_vars
    PROVE  TypeOK'
<1>1. CASE CaptureAudio
  BY <1>1, QueueAssumption DEF CaptureAudio, TypeOK, poolVars, history
<1>2. CASE StartTransfer
  BY <1>2 DEF StartTransfer, TypeOK, poolVars, history, audioVars
<1>3. CASE EndTransfer
  BY <1>3 DEF EndTransfer, TypeOK, poolVars, audioVars
<1>4. CASE UNCHANGED vars
  BY <1>4 DEF vars, TypeOK
<1> QED
  BY <1>1, <1>2, <1>3, <1>4, CameraTypes, WorkerTypes DEF Next
-----------------------------------------------------------------------------
(* The pool of buffers.                                                     *)

(* The count of the buffers leaves room in the channels for every send: the    *)
(* camera's frame fits READY_FRAMES, a worker's buffer fits EMPTY_FRAMES.     *)
LEMMA ChannelsFit ==
    ASSUME TypeOK, AllSomewhere
    PROVE  /\ IsFiniteSet(empty) /\ Cardinality(empty) \in Nat
           /\ Len(ready) \in Nat
           /\ Cardinality(Holders) \in Nat
           /\ camera # NoBuffer => Len(ready) < FrameCap
           /\ Holders # {} => Cardinality(empty) < FrameCap
<1>1. IsFiniteSet(empty)
  BY PoolAssumption, FS_Subset DEF TypeOK
<1>2. /\ Cardinality(empty) \in Nat
      /\ Cardinality(Holders) \in Nat
      /\ Cardinality(Buffers) \in Nat
  BY <1>1, PoolAssumption, FS_CardinalityType DEF AllSomewhere
<1>3. Len(ready) \in Nat
  BY LenProperties DEF TypeOK
<1>4. Holders # {} => Cardinality(Holders) # 0
  BY FS_EmptySet DEF AllSomewhere
<1> QED
  BY <1>1, <1>2, <1>3, <1>4, PoolAssumption DEF AllSomewhere

(* The camera's first buffer. *)
LEMMA StartCameraPool ==
    ASSUME TypeOK, PoolInv, StartCamera
    PROVE  PoolInv'
<1> USE DEF PoolInv
<1>1. /\ camera' \in empty /\ camera' # NoBuffer /\ camera = NoBuffer
      /\ empty' = empty \ {camera'}
      /\ UNCHANGED <<ready, held, stamp, frames, delivered, pc, panicked>>
  BY TakeEmptyFacts, PoolAssumption DEF StartCamera, TypeOK
<1>2. Holders' = Holders /\ Elements(ready') = Elements(ready)
  BY <1>1 DEF Holders
<1>3. NoneShared'
  BY <1>1, <1>2 DEF NoneShared, Elements, NoRepeats, Holders
<1>4. AllSomewhere'
  <2>1. Cardinality(empty') = Cardinality(empty) - 1
    BY <1>1, ChannelsFit, FS_RemoveElement
  <2>2. Cardinality(empty) \in Nat /\ Len(ready) \in Nat /\ Cardinality(Holders) \in Nat
    BY ChannelsFit
  <2>3. /\ IsFiniteSet(Holders')
        /\ Cardinality(empty') + Len(ready') + 1 + Cardinality(Holders')
             = Cardinality(Buffers)
    BY <1>1, <1>2, <2>1, <2>2 DEF AllSomewhere
  <2>4. empty' \cup Elements(ready') \cup (({camera'} \cup {held'[w] : w \in Workers}) \ {NoBuffer})
          = Buffers
    BY <1>1, <1>2 DEF AllSomewhere
  <2> QED
    BY <1>1, <2>3, <2>4 DEF AllSomewhere
<1> QED
  BY <1>1, <1>3, <1>4 DEF HeldWhileWriting, FramesOrdered, ReadyIsCurrent

(* A published frame is the newest in the channel, behind what was waiting or  *)
(* what is left of it when the oldest is recycled.                           *)
LEMMA PublishOrder ==
    ASSUME TypeOK, PoolInv, camera \in Buffers,
           NEW rest \in Seq(Buffers),
           \/ rest = ready
           \/ ready # <<>> /\ rest = Tail(ready),
           ready' = Append(rest, camera),
           frames' = frames + 1, delivered' = delivered,
           stamp' = [stamp EXCEPT ![camera] = frames']
    PROVE  FramesOrdered' /\ ReadyIsCurrent' /\ NoRepeats(ready')
<1> USE DEF PoolInv
<1>1. frames \in Nat /\ delivered \in Nat /\ stamp \in [Buffers -> Nat]
  BY QueueAssumption DEF TypeOK
<1>2. /\ NoRepeats(rest) /\ camera \notin Elements(rest)
      /\ Elements(rest) \subseteq Elements(ready)
  <2>1. CASE rest = ready
    BY <2>1 DEF NoneShared
  <2>2. CASE ready # <<>> /\ rest = Tail(ready)
    BY <2>2, TailFacts DEF NoneShared, TypeOK
  <2> QED
    BY <2>1, <2>2
<1>3. /\ \A i \in 1..Len(rest) : stamp[rest[i]] > delivered /\ stamp[rest[i]] <= frames
      /\ \A i, j \in 1..Len(rest) : i < j => stamp[rest[i]] < stamp[rest[j]]
  <2>1. CASE rest = ready
    BY <2>1 DEF FramesOrdered
  <2>2. CASE ready # <<>> /\ rest = Tail(ready)
    <3>1. /\ Len(ready) \in Nat \ {0} /\ Len(rest) = Len(ready) - 1
          /\ \A i \in 1..Len(rest) : rest[i] = ready[i + 1]
      BY <2>2, TailFacts DEF TypeOK
    <3>2. \A i \in 1..Len(rest) : i + 1 \in 1..Len(ready)
      BY <3>1
    <3>3. \A i \in 1..Len(rest) : stamp[rest[i]] > delivered /\ stamp[rest[i]] <= frames
      BY <3>1, <3>2 DEF FramesOrdered
    <3>4. ASSUME NEW i \in 1..Len(rest), NEW j \in 1..Len(rest), i < j
          PROVE  stamp[rest[i]] < stamp[rest[j]]
      <4>1. i + 1 < j + 1
        BY <3>4
      <4> QED
        BY <3>1, <3>2, <4>1 DEF FramesOrdered
    <3> QED
      BY <3>3, <3>4
  <2> QED
    BY <2>1, <2>2
<1>4. /\ Len(rest) \in Nat /\ Len(ready') = Len(rest) + 1
      /\ ready'[Len(rest) + 1] = camera
      /\ \A i \in 1..Len(rest) : ready'[i] = rest[i]
      /\ NoRepeats(ready')
  BY <1>2, AppendFacts
<1>5. \A i \in 1..Len(rest) : rest[i] \in Buffers /\ rest[i] # camera
  BY <1>2, ElementOfSeq DEF Elements
<1>6. /\ stamp'[camera] = frames + 1
      /\ \A i \in 1..Len(rest) : stamp'[rest[i]] = stamp[rest[i]]
  BY <1>1, <1>5
<1>7. FramesOrdered'
  <2>1. ASSUME NEW i \in 1..Len(ready')
        PROVE  stamp'[ready'[i]] > delivered /\ stamp'[ready'[i]] <= frames + 1
    <3>1. CASE i = Len(rest) + 1
      BY <1>1, <1>4, <1>6, <3>1 DEF FramesOrdered
    <3>2. CASE i \in 1..Len(rest)
      <4>1. stamp[rest[i]] \in Nat
        BY <1>1, <1>5, <3>2
      <4> QED
        BY <1>1, <1>3, <1>4, <1>6, <3>2, <4>1
    <3> QED
      BY <1>4, <3>1, <3>2
  <2>2. ASSUME NEW i \in 1..Len(ready'), NEW j \in 1..Len(ready'), i < j
        PROVE  stamp'[ready'[i]] < stamp'[ready'[j]]
    <3>1. i \in 1..Len(rest) /\ stamp[rest[i]] \in Nat
      BY <1>1, <1>4, <1>5, <2>2
    <3>2. CASE j = Len(rest) + 1
      BY <1>1, <1>3, <1>4, <1>6, <3>1, <3>2
    <3>3. CASE j \in 1..Len(rest)
      BY <1>1, <1>3, <1>4, <1>6, <2>2, <3>1, <3>3
    <3> QED
      BY <1>4, <3>2, <3>3
  <2>3. delivered' <= frames'
    BY <1>1 DEF FramesOrdered
  <2> QED
    BY <2>1, <2>2, <2>3 DEF FramesOrdered
<1>8. ReadyIsCurrent'
  BY <1>4, <1>6 DEF ReadyIsCurrent
<1> QED
  BY <1>4, <1>7, <1>8

(* The end of an image: publish into a free buffer, publish and recycle the    *)
(* oldest waiting frame, or drop the frame.                                   *)
LEMMA EndOfImagePool ==
    ASSUME TypeOK, PoolInv, EndOfImage
    PROVE  PoolInv'
<1> USE DEF PoolInv
<1>1. /\ camera \in Buffers /\ camera # NoBuffer
      /\ frames \in Nat /\ frames' = frames + 1
      /\ UNCHANGED <<held, delivered, pc>>
  BY QueueAssumption DEF EndOfImage, TypeOK
<1>2. /\ Cardinality(empty) \in Nat /\ Cardinality(Holders) \in Nat
      /\ Len(ready) \in Nat /\ Len(ready) < FrameCap
      /\ IsFiniteSet(empty)
  BY <1>1, ChannelsFit
<1>3. Holders' = Holders /\ HeldWhileWriting'
  BY <1>1 DEF Holders, HeldWhileWriting
<1>4. \A w \in Holders : w \in Workers /\ held[w] \in Buffers
  BY DEF Holders, TypeOK
<1>5. CASE Publish /\ empty # {}
  <2>1. /\ camera' \in empty /\ empty' = empty \ {camera'}
        /\ camera' \in Buffers /\ camera' # NoBuffer /\ camera' # camera
        /\ stamp' = [stamp EXCEPT ![camera] = frames']
        /\ SendReady(ready, camera)
    BY <1>5, TakeEmptyFacts, PoolAssumption DEF Publish, TypeOK, NoneShared
  <2>2. ready' = Append(ready, camera) /\ panicked' = panicked
    BY <1>2, <2>1 DEF SendReady
  <2>3. ready \in Seq(Buffers)
    BY DEF TypeOK
  <2>4. FramesOrdered' /\ ReadyIsCurrent' /\ NoRepeats(ready')
    BY <1>1, <2>1, <2>2, <2>3, PublishOrder
  <2>5. /\ Elements(ready') = Elements(ready) \cup {camera}
        /\ Len(ready') = Len(ready) + 1
    BY <1>1, <2>2, <2>3, AppendFacts
  <2>6. NoneShared'
    BY <1>1, <1>3, <2>1, <2>4, <2>5 DEF NoneShared
  <2>7. Cardinality(empty') = Cardinality(empty) - 1
    BY <1>2, <2>1, FS_RemoveElement
  <2>8. AllSomewhere'
    <3>1. empty' \cup Elements(ready') \cup (({camera'} \cup {held'[w] : w \in Workers}) \ {NoBuffer})
            = Buffers
      BY <1>1, <2>1, <2>5 DEF AllSomewhere
    <3>2. /\ IsFiniteSet(Holders')
          /\ Cardinality(empty') + Len(ready') + 1 + Cardinality(Holders')
               = Cardinality(Buffers)
      BY <1>1, <1>2, <1>3, <2>5, <2>7 DEF AllSomewhere
    <3> QED
      BY <2>1, <3>1, <3>2 DEF AllSomewhere
  <2> QED
    BY <1>3, <2>2, <2>4, <2>6, <2>8
<1>6. CASE /\ empty = {} /\ ready # <<>>
           /\ camera' = Head(ready)
           /\ SendReady(Tail(ready), camera)
           /\ UNCHANGED empty
           /\ stamp' = [stamp EXCEPT ![camera] = frames']
  <2>1. /\ ready \in Seq(Buffers) /\ NoRepeats(ready)
        /\ camera \notin Elements(ready)
    BY DEF TypeOK, NoneShared
  <2>2. /\ Head(ready) \in Elements(ready) /\ Head(ready) \in Buffers
        /\ Tail(ready) \in Seq(Buffers) /\ Len(Tail(ready)) = Len(ready) - 1
        /\ NoRepeats(Tail(ready))
        /\ Elements(Tail(ready)) = Elements(ready) \ {Head(ready)}
    <3>1. 1 \in 1..Len(ready) /\ Head(ready) = ready[1]
      BY <1>6, <2>1, TailFacts
    <3> QED
      BY <1>6, <2>1, <3>1, TailFacts DEF Elements
  <2>3. ready' = Append(Tail(ready), camera) /\ panicked' = panicked
    <3>1. Len(Tail(ready)) < FrameCap
      BY <1>2, <2>2, PoolAssumption
    <3> QED
      BY <1>6, <3>1 DEF SendReady
  <2>4. FramesOrdered' /\ ReadyIsCurrent' /\ NoRepeats(ready')
    BY <1>1, <1>6, <2>2, <2>3, PublishOrder
  <2>5. /\ Elements(ready') = (Elements(ready) \ {Head(ready)}) \cup {camera}
        /\ Len(ready') = Len(ready)
    <3>1. PICK rest \in Seq(Buffers) : rest = Tail(ready)
      BY <2>2
    <3>2. /\ Elements(Append(rest, camera)) = Elements(rest) \cup {camera}
          /\ Len(Append(rest, camera)) = Len(rest) + 1
      BY <1>1, AppendFacts
    <3> QED
      BY <1>2, <2>2, <2>3, <3>1, <3>2
  <2>6. camera' # NoBuffer /\ camera' # camera /\ camera' \in Elements(ready)
    BY <1>6, <2>1, <2>2, PoolAssumption
  <2>7. NoneShared'
    BY <1>1, <1>3, <1>6, <2>4, <2>5, <2>6 DEF NoneShared
  <2>8. AllSomewhere'
    <3>1. empty' \cup Elements(ready') \cup (({camera'} \cup {held'[w] : w \in Workers}) \ {NoBuffer})
            = Buffers
      BY <1>1, <1>6, <2>5, <2>6 DEF AllSomewhere
    <3> QED
      BY <1>1, <1>3, <1>6, <2>5, <2>6, <3>1 DEF AllSomewhere
  <2> QED
    BY <1>3, <2>3, <2>4, <2>7, <2>8
<1>7. CASE empty = {} /\ ready = <<>> /\ UNCHANGED <<empty, ready, camera, stamp, panicked>>
  <2>1. FramesOrdered' /\ ReadyIsCurrent'
    <3>1. Len(ready) = 0
      BY <1>7, EmptySeq
    <3>2. delivered' <= frames'
      BY <1>1 DEF FramesOrdered, TypeOK
    <3> QED
      BY <1>7, <3>1, <3>2 DEF FramesOrdered, ReadyIsCurrent
  <2>2. NoneShared' /\ AllSomewhere'
    BY <1>1, <1>3, <1>7 DEF NoneShared, AllSomewhere, Elements, NoRepeats
  <2> QED
    BY <1>3, <1>7, <2>1, <2>2
<1> QED
  BY <1>5, <1>6, <1>7 DEF EndOfImage, Publish, TakeEmpty

(* A worker takes the oldest waiting frame. *)
LEMMA TakeFramePool ==
    ASSUME TypeOK, PoolInv, NEW w \in Workers, NEW next \in WritePCs,
           TakeFrame(w, next), pc[w] \notin WritePCs
    PROVE  PoolInv'
<1> USE DEF PoolInv
<1>1. /\ ready \in Seq(Buffers) /\ NoRepeats(ready) /\ ready # <<>>
      /\ ready' = Tail(ready)
      /\ held' = [held EXCEPT ![w] = Head(ready)]
      /\ delivered' = stamp[Head(ready)]
      /\ UNCHANGED <<empty, camera, stamp, frames, panicked>>
  BY DEF TakeFrame, TypeOK, NoneShared
<1>2. /\ Head(ready) \in Buffers /\ Head(ready) = ready[1]
      /\ ready' \in Seq(Buffers)
      /\ Len(ready) \in Nat \ {0} /\ Len(ready') = Len(ready) - 1
      /\ \A i \in 1..Len(ready') : ready'[i] = ready[i + 1]
      /\ NoRepeats(ready')
      /\ Elements(ready') = Elements(ready) \ {Head(ready)}
  BY <1>1, TailFacts
<1>3. Head(ready) \in Elements(ready) /\ Head(ready) # NoBuffer
  BY <1>2, PoolAssumption DEF Elements
<1>4. /\ w \notin Holders /\ held[w] = NoBuffer
      /\ Holders' = Holders \cup {w}
      /\ held'[w] = Head(ready)
      /\ \A v \in Workers \ {w} : held'[v] = held[v]
  BY <1>1, <1>3 DEF Holders, HeldWhileWriting, TypeOK
<1>5. HeldWhileWriting'
  BY <1>3, <1>4 DEF TakeFrame, Goto, HeldWhileWriting, TypeOK
<1>6. NoneShared'
  <2>1. camera' \notin empty' \cup Elements(ready')
    BY <1>1, <1>2 DEF NoneShared
  <2>2. \A v \in Holders' : held'[v] \notin empty' \cup Elements(ready') \cup {camera'}
    BY <1>1, <1>2, <1>3, <1>4 DEF NoneShared, Holders
  <2>3. \A u, v \in Holders' : held'[u] = held'[v] => u = v
    BY <1>3, <1>4 DEF NoneShared, Holders
  <2> QED
    BY <1>1, <1>2, <2>1, <2>2, <2>3 DEF NoneShared
<1>7. AllSomewhere'
  <2>1. IsFiniteSet(Holders') /\ Cardinality(Holders') = Cardinality(Holders) + 1
    BY <1>4, FS_AddElement DEF AllSomewhere
  <2>2. Cardinality(empty) \in Nat /\ Cardinality(Holders) \in Nat
    BY ChannelsFit
  <2>3. Cardinality(empty') + Len(ready') + (IF camera' = NoBuffer THEN 0 ELSE 1)
          + Cardinality(Holders') = Cardinality(Buffers)
    <3>1. empty' = empty /\ camera' = camera
      BY <1>1
    <3>2. Len(ready) \in Nat /\ Len(ready') = Len(ready) - 1
      BY <1>2
    <3> QED
      BY <2>1, <2>2, <3>1, <3>2 DEF AllSomewhere
  <2>4. {held'[v] : v \in Workers} \ {NoBuffer}
          = ({held[v] : v \in Workers} \ {NoBuffer}) \cup {Head(ready)}
    BY <1>3, <1>4
  <2>5. empty' \cup Elements(ready') \cup (({camera'} \cup {held'[v] : v \in Workers}) \ {NoBuffer})
          = Buffers
    BY <1>1, <1>2, <1>3, <2>4 DEF AllSomewhere
  <2> QED
    BY <2>1, <2>3, <2>5 DEF AllSomewhere
<1>8. FramesOrdered' /\ ReadyIsCurrent'
  <2>1. 1 \in 1..Len(ready) /\ \A i \in 1..Len(ready') : i + 1 \in 1..Len(ready) /\ 1 < i + 1
    BY <1>2
  <2>2. \A i \in 1..Len(ready') : stamp[ready'[i]] > delivered' /\ stamp[ready'[i]] <= frames
    BY <1>1, <1>2, <2>1 DEF FramesOrdered
  <2>3. ASSUME NEW i \in 1..Len(ready'), NEW j \in 1..Len(ready'), i < j
        PROVE  stamp[ready'[i]] < stamp[ready'[j]]
    <3>1. i + 1 < j + 1
      BY <2>3
    <3> QED
      BY <1>2, <2>1, <3>1 DEF FramesOrdered
  <2>4. delivered' <= frames
    BY <1>1, <1>2, <2>1 DEF FramesOrdered
  <2>5. ASSUME ready' # <<>>
        PROVE  stamp[ready'[Len(ready')]] = frames
    <3>1. Len(ready') \in 1..Len(ready')
      BY <1>2, <2>5, EmptySeq
    <3>2. ready'[Len(ready')] = ready[Len(ready)]
      BY <1>2, <3>1
    <3> QED
      BY <1>1, <3>2 DEF ReadyIsCurrent
  <2> QED
    BY <1>1, <2>2, <2>3, <2>4, <2>5 DEF FramesOrdered, ReadyIsCurrent
<1> QED
  BY <1>1, <1>5, <1>6, <1>7, <1>8

(* A worker gives its buffer back: it fits, and it is in no other place. *)
LEMMA ReturnFramePool ==
    ASSUME TypeOK, PoolInv, NEW w \in Workers, pc[w] \in WritePCs,
           ReturnFrame(w), NEW next \in PCs \ WritePCs, Goto(w, next)
    PROVE  PoolInv'
<1> USE DEF PoolInv
<1>1. held[w] # NoBuffer /\ held[w] \in Buffers /\ w \in Holders
  BY DEF HeldWhileWriting, TypeOK, Holders
<1>2. Cardinality(empty) < FrameCap
  BY <1>1, ChannelsFit
<1>3. /\ held' = [held EXCEPT ![w] = NoBuffer]
      /\ empty' = empty \cup {held[w]}
      /\ UNCHANGED <<ready, camera, stamp, frames, delivered, panicked>>
  BY <1>2 DEF ReturnFrame
<1>4. /\ held'[w] = NoBuffer
      /\ \A v \in Workers \ {w} : held'[v] = held[v]
      /\ Holders' = Holders \ {w}
  BY <1>3 DEF Holders, TypeOK
<1>5. HeldWhileWriting'
  BY <1>1, <1>4 DEF Goto, HeldWhileWriting, TypeOK
<1>6. held[w] \notin empty \cup Elements(ready) \cup {camera}
  BY <1>1 DEF NoneShared
<1>7. NoneShared'
  <2>1. \A v \in Holders' : v \in Holders /\ held'[v] = held[v] /\ held[v] # held[w]
    BY <1>1, <1>4 DEF NoneShared, Holders
  <2> QED
    BY <1>1, <1>3, <1>6, <2>1 DEF NoneShared, Elements, NoRepeats
<1>8. AllSomewhere'
  <2>1. IsFiniteSet(Holders') /\ Cardinality(Holders') = Cardinality(Holders) - 1
    BY <1>1, <1>4, FS_RemoveElement DEF AllSomewhere
  <2>2. Cardinality(empty') = Cardinality(empty) + 1
    BY <1>3, <1>6, ChannelsFit, FS_AddElement
  <2>3. Cardinality(empty) \in Nat /\ Cardinality(Holders) \in Nat /\ Len(ready) \in Nat
    BY ChannelsFit
  <2>4. Cardinality(empty') + Len(ready') + (IF camera' = NoBuffer THEN 0 ELSE 1)
          + Cardinality(Holders') = Cardinality(Buffers)
    BY <1>3, <2>1, <2>2, <2>3 DEF AllSomewhere
  <2>5. {held'[v] : v \in Workers} \cup {held[w], NoBuffer}
          = {held[v] : v \in Workers} \cup {NoBuffer}
    BY <1>4
  <2>6. held[w] \in {held[v] : v \in Workers}
    OBVIOUS
  <2>7. empty' \cup Elements(ready') \cup (({camera'} \cup {held'[v] : v \in Workers}) \ {NoBuffer})
          = Buffers
    BY <1>1, <1>3, <2>5, <2>6 DEF AllSomewhere, Elements
  <2> QED
    BY <2>1, <2>4, <2>7 DEF AllSomewhere
<1>9. FramesOrdered' /\ ReadyIsCurrent'
  BY <1>3 DEF FramesOrdered, ReadyIsCurrent
<1> QED
  BY <1>3, <1>5, <1>7, <1>8, <1>9

(* No other step touches the pool, or moves a worker to or from a write. *)
LEMMA PoolStep ==
    ASSUME TypeOK, [Next]_vars
    PROVE  \/ StartCamera
           \/ EndOfImage
           \/ \E w \in Workers, next \in WritePCs :
                  TakeFrame(w, next) /\ pc[w] \notin WritePCs
           \/ \E w \in Workers, next \in PCs \ WritePCs :
                  pc[w] \in WritePCs /\ ReturnFrame(w) /\ Goto(w, next)
           \/ /\ UNCHANGED <<poolVars, panicked>>
              /\ \A w \in Workers : pc'[w] \in WritePCs <=> pc[w] \in WritePCs
<1> DEFINE Elsewhere == /\ UNCHANGED <<poolVars, panicked>>
                        /\ \A w \in Workers : pc'[w] \in WritePCs <=> pc[w] \in WritePCs
<1>1. CASE CaptureAudio \/ StartTransfer \/ EndTransfer
  BY <1>1 DEF CaptureAudio, StartTransfer, EndTransfer
<1>2. ASSUME NEW w \in Workers, Worker(w)
      PROVE  \/ \E next \in WritePCs : TakeFrame(w, next) /\ pc[w] \notin WritePCs
             \/ \E next \in PCs \ WritePCs :
                    pc[w] \in WritePCs /\ ReturnFrame(w) /\ Goto(w, next)
             \/ Elsewhere
  <2>1. ASSUME NEW label \in PCs \ WritePCs, Goto(w, label), pc[w] \notin WritePCs
        PROVE  \A v \in Workers : pc'[v] \in WritePCs <=> pc[v] \in WritePCs
    BY <2>1, GotoTypes
  <2>2. CASE \/ Close(w) \/ Reply(w) \/ Accept(w)
             \/ MjpegLoop(w) \/ MjpegTimeout(w) \/ MjpegHeaders(w) \/ SnapshotTimeout(w)
    <3>1. UNCHANGED <<poolVars, panicked>>
      BY <2>2 DEF Close, Reply, Accept, MjpegLoop, MjpegTimeout, MjpegHeaders,
                  SnapshotTimeout
    <3>2. /\ pc[w] \notin WritePCs
          /\ \E label \in PCs \ WritePCs : Goto(w, label)
      BY <2>2 DEF Close, Reply, Accept, MjpegLoop, MjpegTimeout, MjpegHeaders,
                  SnapshotTimeout, WritePCs, PCs, MjpegPCs, AudioPCs
    <3> QED
      BY <2>1, <3>1, <3>2
  <2>3. CASE \/ ReadRequest(w)
             \/ AudioHeaders(w) \/ AudioLoop(w) \/ AudioChunk(w) \/ AudioTimeout(w)
             \/ AudioWritten(w)
    <3>1. UNCHANGED <<poolVars, panicked>>
      BY <2>3 DEF ReadRequest, AudioHeaders, AudioLoop, AudioChunk, AudioTimeout,
                  AudioWritten
    <3>2. /\ pc[w] \notin WritePCs
          /\ \E label \in PCs \ WritePCs : Goto(w, label)
      BY <2>3 DEF ReadRequest, AudioHeaders, AudioLoop, AudioChunk, AudioTimeout,
                  AudioWritten, LeaveAudio, WritePCs, PCs, MjpegPCs, AudioPCs
    <3> QED
      BY <2>1, <3>1, <3>2
  <2>4. CASE MjpegFrame(w) \/ SnapshotFrame(w)
    BY <2>4 DEF MjpegFrame, SnapshotFrame, WritePCs
  <2>5. CASE MjpegWritten(w) \/ SnapshotWritten(w)
    BY <2>5 DEF MjpegWritten, SnapshotWritten, WritePCs, PCs, MjpegPCs, AudioPCs
  <2> QED
    BY <1>2, <2>2, <2>3, <2>4, <2>5 DEF Worker, OwnStep, ClientStep
<1>3. CASE UNCHANGED vars
  BY <1>3 DEF vars, poolVars
<1> HIDE DEF Elsewhere
<1>4. CASE \E w \in Workers : Worker(w)
  BY <1>2, <1>4 DEF Elsewhere
<1> QED
  BY <1>1, <1>3, <1>4 DEF Next

(* The pool is in order after every step. *)
LEMMA PoolInductive ==
    ASSUME TypeOK, PoolInv, [Next]_vars
    PROVE  PoolInv'
<1>1. CASE StartCamera
  BY <1>1, StartCameraPool
<1>2. CASE EndOfImage
  BY <1>2, EndOfImagePool
<1>3. CASE \E w \in Workers, next \in WritePCs :
               TakeFrame(w, next) /\ pc[w] \notin WritePCs
  BY <1>3, TakeFramePool
<1>4. CASE \E w \in Workers, next \in PCs \ WritePCs :
               pc[w] \in WritePCs /\ ReturnFrame(w) /\ Goto(w, next)
  BY <1>4, ReturnFramePool
<1>5. CASE /\ UNCHANGED <<poolVars, panicked>>
           /\ \A w \in Workers : pc'[w] \in WritePCs <=> pc[w] \in WritePCs
  BY <1>5 DEF PoolInv, poolVars, HeldWhileWriting, NoneShared, AllSomewhere,
              FramesOrdered, ReadyIsCurrent, Holders, Elements, NoRepeats
<1> QED
  BY <1>1, <1>2, <1>3, <1>4, <1>5, PoolStep
-----------------------------------------------------------------------------
(* Audio.                                                                   *)

(* A worker enters the audio places with AUDIO_ACTIVE lowered and raises it,  *)
(* leaves them and lowers it, or changes neither.                            *)
LEMMA AudioStep ==
    ASSUME TypeOK, NEW w \in Workers, Worker(w)
    PROVE  /\ \A v \in Workers \ {w} : pc'[v] = pc[v]
           /\ \/ /\ pc[w] \notin AudioPCs /\ ~audioActive
                 /\ pc'[w] \in AudioPCs /\ audioActive'
              \/ /\ pc[w] \in AudioPCs
                 /\ pc'[w] \notin AudioPCs /\ ~audioActive'
              \/ /\ pc[w] \in AudioPCs <=> pc'[w] \in AudioPCs
                 /\ audioActive' = audioActive
<1> USE DEF PCs, MjpegPCs, AudioPCs
<1>1. CASE \/ Close(w) \/ Reply(w) \/ Accept(w)
           \/ MjpegLoop(w) \/ MjpegTimeout(w) \/ MjpegHeaders(w) \/ MjpegWritten(w)
           \/ SnapshotTimeout(w) \/ SnapshotWritten(w)
  <2>1. /\ pc[w] \notin AudioPCs
        /\ \E label \in PCs \ AudioPCs : Goto(w, label)
    BY <1>1 DEF Close, Reply, Accept, MjpegLoop, MjpegTimeout, MjpegHeaders,
                MjpegWritten, SnapshotTimeout, SnapshotWritten
  <2>2. audioActive' = audioActive
    BY <1>1 DEF Close, Reply, Accept, MjpegLoop, MjpegTimeout, MjpegHeaders,
                MjpegWritten, SnapshotTimeout, SnapshotWritten, audioVars
  <2> QED
    BY <2>1, <2>2, GotoTypes
<1>2. CASE MjpegFrame(w) \/ SnapshotFrame(w)
  <2>1. /\ pc[w] \notin AudioPCs
        /\ \E label \in PCs \ AudioPCs : Goto(w, label)
        /\ audioActive' = audioActive
    BY <1>2 DEF MjpegFrame, SnapshotFrame, TakeFrame, audioVars
  <2> QED
    BY <2>1, GotoTypes
<1>3. CASE ReadRequest(w)
  <2>1. CASE /\ \E label \in PCs \ AudioPCs : Goto(w, label)
             /\ UNCHANGED audioActive
    BY <1>3, <2>1, GotoTypes DEF ReadRequest
  <2>2. CASE audioActive /\ audioActive' /\ Goto(w, "reply")
    BY <1>3, <2>2, GotoTypes DEF ReadRequest, TypeOK
  <2>3. CASE ~audioActive /\ audioActive' /\ Goto(w, "audioHeaders")
    BY <1>3, <2>3, GotoTypes DEF ReadRequest
  <2> QED
    BY <1>3, <2>1, <2>2, <2>3 DEF ReadRequest
<1>4. CASE AudioHeaders(w) \/ AudioLoop(w) \/ AudioChunk(w) \/ AudioTimeout(w) \/ AudioWritten(w)
  <2>1. pc[w] \in AudioPCs
    BY <1>4 DEF AudioHeaders, AudioLoop, AudioChunk, AudioTimeout, AudioWritten
  <2>2. \/ \E label \in AudioPCs : Goto(w, label) /\ UNCHANGED audioActive
        \/ Goto(w, "close") /\ ~audioActive'
    BY <1>4 DEF AudioHeaders, AudioLoop, AudioChunk, AudioTimeout, AudioWritten,
                LeaveAudio, audioVars
  <2> QED
    BY <2>1, <2>2, GotoTypes
<1> QED
  BY <1>1, <1>2, <1>3, <1>4 DEF Worker, OwnStep, ClientStep

(* At most one worker streams audio, and the flag says so, after every step.  *)
LEMMA AudioInductive ==
    ASSUME TypeOK, AudioExclusive, [Next]_vars
    PROVE  AudioExclusive'
<1>1. CASE \E w \in Workers : Worker(w)
  <2>1. PICK w \in Workers : Worker(w)
    BY <1>1
  <2>2. \A v \in Workers \ {w} : pc'[v] = pc[v]
    BY <2>1, AudioStep
  <2>3. CASE /\ pc[w] \notin AudioPCs /\ ~audioActive
             /\ pc'[w] \in AudioPCs /\ audioActive'
    BY <2>2, <2>3 DEF AudioExclusive
  <2>4. CASE /\ pc[w] \in AudioPCs
             /\ pc'[w] \notin AudioPCs /\ ~audioActive'
    BY <2>2, <2>4 DEF AudioExclusive
  <2>5. CASE /\ pc[w] \in AudioPCs <=> pc'[w] \in AudioPCs
             /\ audioActive' = audioActive
    BY <2>2, <2>5 DEF AudioExclusive
  <2> QED
    BY <2>1, <2>3, <2>4, <2>5, AudioStep
<1>2. CASE UNCHANGED <<pc, audioActive>>
  BY <1>2 DEF AudioExclusive
<1> QED
  BY <1>1, <1>2 DEF Next, StartCamera, EndOfImage, CaptureAudio, StartTransfer,
                    EndTransfer, audioVars, vars
-----------------------------------------------------------------------------
(* Transfers.                                                               *)

(* Where a worker goes and what it counts as taken on the way. *)
LEMMA TakenStep ==
    ASSUME TypeOK, TakenByPlace, NEW w \in Workers, Worker(w)
    PROVE  TakenByPlace'
<1> USE DEF PCs, MjpegPCs, AudioPCs
<1>1. ASSUME NEW label \in PCs, Goto(w, label),
             UNCHANGED <<taken, late, transfer>>,
             \/ label \notin MjpegPCs
             \/ label = "mjpeg" /\ pc[w] \in {"mjpegHeaders", "mjpegWrite"}
             \/ label = "mjpegWait" /\ ~transfer
      PROVE  TakenByPlace'
  <2>1. /\ pc'[w] = label
        /\ \A v \in Workers \ {w} : pc'[v] = pc[v]
    BY <1>1, GotoTypes
  <2> QED
    BY <1>1, <2>1 DEF TakenByPlace, TypeOK
<1>2. CASE \/ Close(w) \/ Reply(w) \/ Accept(w)
           \/ MjpegLoop(w) \/ MjpegTimeout(w) \/ MjpegHeaders(w) \/ MjpegWritten(w)
           \/ SnapshotTimeout(w) \/ SnapshotWritten(w)
  <2>1. UNCHANGED <<taken, late, transfer>>
    BY <1>2 DEF Close, Reply, Accept, MjpegLoop, MjpegTimeout, MjpegHeaders,
                MjpegWritten, SnapshotTimeout, SnapshotWritten, history
  <2>2. \E label \in PCs :
            /\ Goto(w, label)
            /\ \/ label \notin MjpegPCs
               \/ label = "mjpeg" /\ pc[w] \in {"mjpegHeaders", "mjpegWrite"}
               \/ label = "mjpegWait" /\ ~transfer
    BY <1>2 DEF Close, Reply, Accept, MjpegLoop, MjpegTimeout, MjpegHeaders,
                MjpegWritten, SnapshotTimeout, SnapshotWritten
  <2> QED
    BY <1>1, <2>1, <2>2
<1>3. CASE AudioHeaders(w) \/ AudioLoop(w) \/ AudioChunk(w) \/ AudioTimeout(w) \/ AudioWritten(w)
  <2>1. UNCHANGED <<taken, late, transfer>>
    BY <1>3 DEF AudioHeaders, AudioLoop, AudioChunk, AudioTimeout, AudioWritten,
                history
  <2>2. \E label \in PCs : Goto(w, label) /\ label \notin MjpegPCs
    BY <1>3 DEF AudioHeaders, AudioLoop, AudioChunk, AudioTimeout, AudioWritten,
                LeaveAudio
  <2> QED
    BY <1>1, <2>1, <2>2
<1>4. CASE ReadRequest(w)
  <2>1. \E label \in PCs \ {"mjpeg", "mjpegWait", "mjpegWrite"} : Goto(w, label)
    BY <1>4 DEF ReadRequest
  <2>2. /\ pc'[w] \notin {"mjpeg", "mjpegWait", "mjpegWrite"}
        /\ \A v \in Workers \ {w} : pc'[v] = pc[v]
    BY <2>1, GotoTypes
  <2>3. /\ transfer' = transfer
        /\ late'[w] = transfer /\ taken'[w] = 0
        /\ \A v \in Workers \ {w} : late'[v] = late[v] /\ taken'[v] = taken[v]
    BY <1>4 DEF ReadRequest, TypeOK
  <2> QED
    BY <2>2, <2>3 DEF TakenByPlace
<1>5. CASE MjpegFrame(w) \/ SnapshotFrame(w)
  <2>1. /\ late' = late /\ transfer' = transfer
        /\ taken'[w] = IF transfer THEN taken[w] + 1 ELSE taken[w]
        /\ \A v \in Workers \ {w} : taken'[v] = taken[v]
    BY <1>5 DEF MjpegFrame, SnapshotFrame, TakeFrame, TypeOK
  <2>2. /\ pc'[w] = IF pc[w] = "mjpegWait" THEN "mjpegWrite" ELSE "snapWrite"
        /\ \A v \in Workers \ {w} : pc'[v] = pc[v]
        /\ pc[w] \in {"mjpegWait", "snapWait"}
    BY <1>5, GotoTypes DEF MjpegFrame, SnapshotFrame, TakeFrame
  <2>3. taken[w] \in Nat /\ late[w] \in BOOLEAN
    BY DEF TypeOK
  <2> QED
    BY <2>1, <2>2, <2>3 DEF TakenByPlace
<1> QED
  BY <1>2, <1>3, <1>4, <1>5 DEF Worker, OwnStep, ClientStep

(* What a stream has taken in a transfer stays what its place allows. *)
LEMMA TakenInductive ==
    ASSUME TypeOK, TakenByPlace, [Next]_vars
    PROVE  TakenByPlace'
<1>1. CASE StartTransfer
  BY <1>1 DEF StartTransfer, history, TakenByPlace
<1>2. CASE EndTransfer
  BY <1>2 DEF EndTransfer, TakenByPlace, TypeOK
<1>3. CASE UNCHANGED <<pc, taken, late, transfer>>
  BY <1>3 DEF TakenByPlace
<1> QED
  BY <1>1, <1>2, <1>3, TakenStep
     DEF Next, StartCamera, EndOfImage, CaptureAudio, history, vars
-----------------------------------------------------------------------------
(* What holds in every state.                                               *)

(* The tasks start in order. *)
LEMMA InvInit == Init => Inv
<1> SUFFICES ASSUME Init PROVE Inv
  OBVIOUS
<1>1. TypeOK
  <2>1. pc \in [Workers -> PCs] /\ held \in [Workers -> Buffers \cup {NoBuffer}]
    BY DEF Init, PCs
  <2>2. stamp \in [Buffers -> Nat] /\ taken \in [Workers -> Nat]
    BY DEF Init
  <2>3. frames \in 0..MaxFrames /\ pcm \in 0..PcmCap
    BY QueueAssumption DEF Init
  <2>4. ready \in Seq(Buffers)
    BY EmptySeq DEF Init
  <2> QED
    BY <2>1, <2>2, <2>3, <2>4 DEF Init, TypeOK
<1>2. Len(ready) = 0 /\ Elements(ready) = {} /\ Holders = {}
  BY DEF Init, Elements, Holders
<1>3. NoneShared
  BY <1>2, PoolAssumption DEF Init, NoneShared, NoRepeats
<1>4. AllSomewhere
  <2>1. IsFiniteSet({}) /\ Cardinality({}) = 0
    BY FS_EmptySet
  <2>2. Cardinality(Buffers) \in Nat
    BY PoolAssumption, FS_CardinalityType
  <2>3. {held[w] : w \in Workers} \subseteq {NoBuffer}
    BY DEF Init
  <2> QED
    BY <1>2, <2>1, <2>2, <2>3 DEF Init, AllSomewhere
<1>5. HeldWhileWriting /\ FramesOrdered /\ ReadyIsCurrent
  BY <1>2 DEF Init, HeldWhileWriting, WritePCs, FramesOrdered, ReadyIsCurrent
<1>6. AudioExclusive /\ TakenByPlace
  BY DEF Init, AudioExclusive, TakenByPlace, AudioPCs
<1> QED
  BY <1>1, <1>3, <1>4, <1>5, <1>6 DEF Init, Inv, PoolInv

(* The invariant holds after every step. *)
LEMMA InvInductive == Inv /\ [Next]_vars => Inv'
<1> SUFFICES ASSUME Inv, [Next]_vars PROVE Inv'
  OBVIOUS
<1>1. TypeOK'
  BY TypeStep DEF Inv, PoolInv
<1>2. PoolInv'
  BY PoolInductive DEF Inv
<1>3. AudioExclusive' /\ TakenByPlace'
  BY AudioInductive, TakenInductive DEF Inv
<1> QED
  BY <1>1, <1>2, <1>3 DEF Inv

(* The invariant holds initially and after every step. *)
LEMMA InvHolds == Spec => []Inv
BY InvInit, InvInductive, PTL DEF Spec

(* What the invariant gives in each state. *)
LEMMA InvSuffices ==
    Inv => /\ TypeOK /\ BuffersConserved /\ ReadyIsCurrent
           /\ AudioExclusive /\ TransferStarvesStreams
<1> SUFFICES ASSUME Inv
             PROVE  /\ TypeOK /\ BuffersConserved /\ ReadyIsCurrent
                    /\ AudioExclusive /\ TransferStarvesStreams
  OBVIOUS
<1>1. TypeOK /\ ReadyIsCurrent /\ AudioExclusive
  BY DEF Inv, PoolInv
<1>2. BuffersConserved
  BY DEF Inv, PoolInv, AllSomewhere, BuffersConserved, Elements, ReadySet, Holders
<1>3. ASSUME transfer, NEW w \in Workers, pc[w] \in MjpegPCs
      PROVE  taken[w] <= (IF late[w] THEN 0 ELSE 1)
  BY <1>3 DEF Inv, TakenByPlace, TypeOK, MjpegPCs
<1> QED
  BY <1>1, <1>2, <1>3 DEF TransferStarvesStreams

(* A frame that is taken in a step is newer than the last one taken. *)
LEMMA OrderStep ==
    ASSUME Inv, [Next]_vars, NEW v \in Workers, held'[v] \notin {held[v], NoBuffer}
    PROVE  stamp[held'[v]] > delivered
<1>1. held \in [Workers -> Buffers \cup {NoBuffer}] /\ ready \in Seq(Buffers)
  BY DEF Inv, TypeOK
<1>2. CASE \E w \in Workers, next \in WritePCs :
               TakeFrame(w, next) /\ pc[w] \notin WritePCs
  <2>1. held'[v] = Head(ready) /\ ready # <<>>
    BY <1>1, <1>2 DEF TakeFrame
  <2>2. Head(ready) = ready[1] /\ 1 \in 1..Len(ready)
    BY <1>1, <2>1, TailFacts
  <2> QED
    BY <2>1, <2>2 DEF Inv, PoolInv, FramesOrdered
<1>3. CASE \E w \in Workers, next \in PCs \ WritePCs :
               pc[w] \in WritePCs /\ ReturnFrame(w) /\ Goto(w, next)
  BY <1>1, <1>3 DEF ReturnFrame
<1>4. CASE held' = held
  BY <1>4
<1> QED
  BY <1>2, <1>3, <1>4, PoolStep DEF Inv, StartCamera, EndOfImage, poolVars

(* Every state of the tasks is one of the states of the type invariant.       *)
THEOREM TypeCorrect == Spec => []TypeOK
BY InvSuffices, InvHolds, PTL

(* No frame buffer is ever lost, shared or sent to a full channel, with any    *)
(* number of workers, whichever way their connections end.                   *)
THEOREM BuffersSafe == Spec => []BuffersConserved
BY InvSuffices, InvHolds, PTL

(* The newest waiting frame is the last one the camera completed.             *)
THEOREM ReadyNeverStale == Spec => []ReadyIsCurrent
BY InvSuffices, InvHolds, PTL

(* One audio stream at a time, and the flag is up exactly while there is one.  *)
THEOREM AudioSafe == Spec => []AudioExclusive
BY InvSuffices, InvHolds, PTL

(* An open video stream takes at most one more frame after a transfer begins,  *)
(* a late one takes none.                                                    *)
THEOREM TransferSafe == Spec => []TransferStarvesStreams
BY InvSuffices, InvHolds, PTL

(* A frame a worker takes is newer than every frame taken before it, by        *)
(* whichever worker.                                                         *)
THEOREM FramesInOrder == Spec => DeliveredInOrder
<1> DEFINE InOrder == \A w \in Workers :
                          held'[w] \notin {held[w], NoBuffer} => stamp[held'[w]] > delivered
<1>1. Inv /\ [Next]_vars => [InOrder]_vars
  BY OrderStep
<1> QED
  BY <1>1, InvHolds, PTL DEF Spec, DeliveredInOrder
=============================================================================
