------------------------------ MODULE Streaming ------------------------------
(***************************************************************************)
(* The camera, audio and HTTP tasks of src/main.rs and the state they      *)
(* share: the pool of frame buffers that circulates between the camera and *)
(* the HTTP workers through EMPTY_FRAMES and READY_FRAMES, the queue of    *)
(* PCM chunks, AUDIO_ACTIVE and TRANSFER_ACTIVE.                           *)
(*                                                                         *)
(* The tasks are cooperative, so an action is what a task does from one    *)
(* await to the next.  Clients close, stall or fail at any write; the OTA  *)
(* task, modelled in OtaUpdate, raises and lowers TRANSFER_ACTIVE when it  *)
(* likes.                                                                  *)
(***************************************************************************)
EXTENDS Naturals, Sequences, FiniteSets

CONSTANTS
    Workers,    \* the http_server tasks
    Buffers,    \* the frame buffers main allocates
    NoBuffer,   \* the absence of a buffer
    FrameCap,   \* the capacity of each of the two frame channels
    PcmCap,     \* AUDIO_BUFFERED_CHUNKS
    MaxFrames   \* bound on the frames the camera completes

ASSUME PoolAssumption ==
    /\ IsFiniteSet(Buffers)
    /\ NoBuffer \notin Buffers
    /\ FrameCap \in Nat
    /\ Cardinality(Buffers) <= FrameCap
ASSUME QueueAssumption ==
    /\ PcmCap \in Nat
    /\ MaxFrames \in Nat

VARIABLES
    empty,       \* the buffers in EMPTY_FRAMES, which are interchangeable
    ready,       \* READY_FRAMES
    camera,      \* the buffer the camera task writes into
    held,        \* the buffer each worker is sending
    stamp,       \* which completed frame a buffer holds, 0 for none
    frames,      \* frames the parser completed
    delivered,   \* history: the newest frame a worker has taken
    pc,          \* where each worker is
    taken,       \* history: frames each connection took in this transfer
    late,        \* history: the worker's request was read during a transfer
    pcm,         \* chunks in PCM_CHUNKS
    audioActive, \* AUDIO_ACTIVE
    transfer,    \* TRANSFER_ACTIVE
    panicked     \* an assert! of a channel send has failed

poolVars == <<empty, ready, camera, held, stamp, frames, delivered>>
audioVars == <<pcm, audioActive>>
history == <<taken, late>>
vars == <<empty, ready, camera, held, stamp, frames, delivered, pc, taken, late,
          pcm, audioActive, transfer, panicked>>

MjpegPCs == {"mjpegHeaders", "mjpeg", "mjpegWait", "mjpegWrite"}
AudioPCs == {"audioHeaders", "audio", "audioWait", "audioWrite"}
PCs == {"accept", "request", "snapWait", "snapWrite", "reply", "close"}
           \cup MjpegPCs \cup AudioPCs

TypeOK ==
    /\ empty \subseteq Buffers
    /\ ready \in Seq(Buffers)
    /\ camera \in Buffers \cup {NoBuffer}
    /\ held \in [Workers -> Buffers \cup {NoBuffer}]
    /\ stamp \in [Buffers -> Nat]
    /\ frames \in 0..MaxFrames
    /\ delivered \in Nat
    /\ pc \in [Workers -> PCs]
    /\ taken \in [Workers -> Nat]
    /\ late \in [Workers -> BOOLEAN]
    /\ pcm \in 0..PcmCap
    /\ audioActive \in BOOLEAN
    /\ transfer \in BOOLEAN
    /\ panicked \in BOOLEAN

Init ==
    /\ empty = Buffers
    /\ ready = <<>>
    /\ camera = NoBuffer
    /\ held = [w \in Workers |-> NoBuffer]
    /\ stamp = [b \in Buffers |-> 0]
    /\ frames = 0
    /\ delivered = 0
    /\ pc = [w \in Workers |-> "accept"]
    /\ taken = [w \in Workers |-> 0]
    /\ late = [w \in Workers |-> FALSE]
    /\ pcm = 0
    /\ audioActive = FALSE
    /\ transfer = FALSE
    /\ panicked = FALSE

Goto(w, label) == pc' = [pc EXCEPT ![w] = label]
-----------------------------------------------------------------------------
(* camera_task and audio_capture_task                                       *)

\* EMPTY_FRAMES hands out one of its buffers, which are interchangeable.
TakeEmpty ==
    /\ empty # {}
    /\ camera' = CHOOSE b \in empty : TRUE
    /\ empty' = empty \ {camera'}

\* let mut frame = EMPTY_FRAMES.receive().await
StartCamera ==
    /\ camera = NoBuffer
    /\ TakeEmpty
    /\ UNCHANGED <<ready, held, stamp, frames, delivered, pc, history, audioVars,
                   transfer, panicked>>

\* Both ends of a channel send: it fits, or the assert! on it panics.
SendReady(rest, b) ==
    IF Len(rest) < FrameCap
    THEN ready' = Append(rest, b) /\ UNCHANGED panicked
    ELSE ready' = rest /\ panicked' = TRUE

\* The parser reached EndOfImage.  The frame is published if another buffer is
\* free or if the oldest waiting frame can be recycled; otherwise it is dropped
\* and its buffer written again.
Publish ==
    /\ stamp' = [stamp EXCEPT ![camera] = frames']
    /\ \/ TakeEmpty /\ SendReady(ready, camera)
       \/ /\ empty = {} /\ ready # <<>>
          /\ camera' = Head(ready)
          /\ SendReady(Tail(ready), camera)
          /\ UNCHANGED empty

\* Mutant of EndOfImage: a waiting frame is never recycled.
EndOfImageKeepingOld ==
    /\ camera # NoBuffer
    /\ frames < MaxFrames
    /\ frames' = frames + 1
    /\ \/ empty # {} /\ Publish
       \/ empty = {} /\ UNCHANGED <<empty, ready, camera, stamp, panicked>>
    /\ UNCHANGED <<held, delivered, pc, history, audioVars, transfer>>

EndOfImage ==
    /\ camera # NoBuffer
    /\ frames < MaxFrames
    /\ frames' = frames + 1
    /\ \/ Publish
       \/ /\ empty = {} /\ ready = <<>>
          /\ UNCHANGED <<empty, ready, camera, stamp, panicked>>
    /\ UNCHANGED <<held, delivered, pc, history, audioVars, transfer>>

\* Mutant of CaptureAudio: the queue is taken to grow.
CaptureAudioUnbounded ==
    /\ pcm' = pcm + 1
    /\ UNCHANGED <<poolVars, pc, history, audioActive, transfer, panicked>>

\* try_send of a PCM chunk: the newest is dropped when the queue is full.
CaptureAudio ==
    /\ pcm < PcmCap
    /\ pcm' = pcm + 1
    /\ UNCHANGED <<poolVars, pc, history, audioActive, transfer, panicked>>
-----------------------------------------------------------------------------
(* http_server and handle_http_connection                                   *)

\* accept, and the one look at TRANSFER_ACTIVE a connection gets.
Accept(w) ==
    /\ pc[w] = "accept"
    /\ Goto(w, IF transfer THEN "reply" ELSE "request")
    /\ UNCHANGED <<poolVars, history, audioVars, transfer, panicked>>

\* The request has arrived and is routed, or the client went away.
ReadRequest(w) ==
    /\ pc[w] = "request"
    /\ late' = [late EXCEPT ![w] = transfer]
    /\ taken' = [taken EXCEPT ![w] = 0]
    /\ \/ /\ \E route \in {"mjpegHeaders", "snapWait", "reply", "close"} : Goto(w, route)
          /\ UNCHANGED audioActive
       \/ \* compare_exchange(false, true) of AUDIO_ACTIVE
          /\ Goto(w, IF audioActive THEN "reply" ELSE "audioHeaders")
          /\ audioActive' = TRUE
    /\ UNCHANGED <<poolVars, pcm, transfer, panicked>>

\* A whole status, 404, 503 or closing boundary was written, or failed to be.
Reply(w) ==
    /\ pc[w] = "reply"
    /\ Goto(w, "close")
    /\ UNCHANGED <<poolVars, history, audioVars, transfer, panicked>>

\* Flush, close or abort, and back to accept with a new socket.
Close(w) ==
    /\ pc[w] = "close"
    /\ Goto(w, "accept")
    /\ UNCHANGED <<poolVars, history, audioVars, transfer, panicked>>

\* READY_FRAMES.receive() completes.
TakeFrame(w, next) ==
    /\ ready # <<>>
    /\ held' = [held EXCEPT ![w] = Head(ready)]
    /\ ready' = Tail(ready)
    /\ delivered' = stamp[Head(ready)]
    /\ taken' = [taken EXCEPT ![w] = IF transfer THEN @ + 1 ELSE @]
    /\ Goto(w, next)
    /\ UNCHANGED <<empty, camera, stamp, frames, late, audioVars, transfer, panicked>>

\* assert!(EMPTY_FRAMES.try_send(frame).is_ok()), whether the write failed or not.
ReturnFrame(w) ==
    /\ held' = [held EXCEPT ![w] = NoBuffer]
    /\ IF Cardinality(empty) < FrameCap
       THEN empty' = empty \cup {held[w]} /\ UNCHANGED panicked
       ELSE UNCHANGED empty /\ panicked' = TRUE
    /\ UNCHANGED <<ready, camera, stamp, frames, delivered>>

\* stream_mjpeg
MjpegHeaders(w) ==
    /\ pc[w] = "mjpegHeaders"
    /\ \E next \in {"mjpeg", "close"} : Goto(w, next)
    /\ UNCHANGED <<poolVars, history, audioVars, transfer, panicked>>

\* Mutant of MjpegLoop: the transfer is not looked at between two frames.
MjpegLoopUnchecked(w) ==
    /\ pc[w] = "mjpeg"
    /\ Goto(w, "mjpegWait")
    /\ UNCHANGED <<poolVars, history, audioVars, transfer, panicked>>

MjpegLoop(w) ==
    /\ pc[w] = "mjpeg"
    /\ Goto(w, IF transfer THEN "reply" ELSE "mjpegWait")
    /\ UNCHANGED <<poolVars, history, audioVars, transfer, panicked>>

MjpegFrame(w) == pc[w] = "mjpegWait" /\ TakeFrame(w, "mjpegWrite")

MjpegTimeout(w) ==
    /\ pc[w] = "mjpegWait"
    /\ Goto(w, "reply")
    /\ UNCHANGED <<poolVars, history, audioVars, transfer, panicked>>

\* Mutants of MjpegWritten: a failed write returns before the buffer is given
\* back, or puts the unsent frame back in front of the other clients.
MjpegWrittenEarlyReturn(w) ==
    /\ pc[w] = "mjpegWrite"
    /\ \/ ReturnFrame(w) /\ Goto(w, "mjpeg")
       \/ /\ held' = [held EXCEPT ![w] = NoBuffer]
          /\ Goto(w, "close")
          /\ UNCHANGED <<empty, ready, camera, stamp, frames, delivered, panicked>>
    /\ UNCHANGED <<history, audioVars, transfer>>
MjpegWrittenRequeued(w) ==
    /\ pc[w] = "mjpegWrite"
    /\ \/ ReturnFrame(w) /\ Goto(w, "mjpeg")
       \/ /\ held' = [held EXCEPT ![w] = NoBuffer]
          /\ ready' = Append(ready, held[w])
          /\ Goto(w, "close")
          /\ UNCHANGED <<empty, camera, stamp, frames, delivered, panicked>>
    /\ UNCHANGED <<history, audioVars, transfer>>

MjpegWritten(w) ==
    /\ pc[w] = "mjpegWrite"
    /\ ReturnFrame(w)
    /\ \E next \in {"mjpeg", "close"} : Goto(w, next)
    /\ UNCHANGED <<history, audioVars, transfer>>

\* send_snapshot
SnapshotFrame(w) == pc[w] = "snapWait" /\ TakeFrame(w, "snapWrite")

\* Mutant of SnapshotTimeout: the wait for a frame starts again.
SnapshotTimeoutRetry(w) ==
    /\ pc[w] = "snapWait"
    /\ UNCHANGED vars

SnapshotTimeout(w) ==
    /\ pc[w] = "snapWait"
    /\ Goto(w, "reply")
    /\ UNCHANGED <<poolVars, history, audioVars, transfer, panicked>>

SnapshotWritten(w) ==
    /\ pc[w] = "snapWrite"
    /\ ReturnFrame(w)
    /\ Goto(w, "close")
    /\ UNCHANGED <<history, audioVars, transfer>>

\* Mutant of LeaveAudio: the result is returned before the flag is lowered.
LeaveAudioEarly(w) ==
    /\ Goto(w, "close")
    /\ UNCHANGED audioActive

\* stream_audio; AUDIO_ACTIVE is released on every way out of it.
LeaveAudio(w) ==
    /\ Goto(w, "close")
    /\ audioActive' = FALSE

AudioHeaders(w) ==
    /\ pc[w] = "audioHeaders"
    /\ \/ Goto(w, "audio") /\ UNCHANGED audioActive
       \/ LeaveAudio(w)
    /\ UNCHANGED <<poolVars, history, pcm, transfer, panicked>>

AudioLoop(w) ==
    /\ pc[w] = "audio"
    /\ IF transfer THEN LeaveAudio(w) ELSE Goto(w, "audioWait") /\ UNCHANGED audioActive
    /\ UNCHANGED <<poolVars, history, pcm, transfer, panicked>>

AudioChunk(w) ==
    /\ pc[w] = "audioWait"
    /\ pcm > 0
    /\ pcm' = pcm - 1
    /\ Goto(w, "audioWrite")
    /\ UNCHANGED <<poolVars, history, audioActive, transfer, panicked>>

\* Mutant of AudioTimeout: it goes on waiting without a look at the transfer.
AudioTimeoutInnerLoop(w) ==
    /\ pc[w] = "audioWait"
    /\ UNCHANGED vars

AudioTimeout(w) ==
    /\ pc[w] = "audioWait"
    /\ Goto(w, "audio")
    /\ UNCHANGED <<poolVars, history, audioVars, transfer, panicked>>

AudioWritten(w) ==
    /\ pc[w] = "audioWrite"
    /\ \/ Goto(w, "audio") /\ UNCHANGED audioActive
       \/ LeaveAudio(w)
    /\ UNCHANGED <<poolVars, history, pcm, transfer, panicked>>
-----------------------------------------------------------------------------
\* The OTA task begins and ends the transfer of an image.
StartTransfer ==
    /\ ~transfer
    /\ transfer' = TRUE
    /\ UNCHANGED <<poolVars, pc, history, audioVars, panicked>>

EndTransfer ==
    /\ transfer
    /\ transfer' = FALSE
    /\ taken' = [w \in Workers |-> 0]
    /\ late' = [w \in Workers |-> FALSE]
    /\ UNCHANGED <<poolVars, pc, audioVars, panicked>>

\* The steps of a worker that wait for nothing, or for a timer of its own.
OwnStep(w) ==
    \/ Close(w)
    \/ MjpegLoop(w) \/ MjpegTimeout(w) \/ SnapshotTimeout(w)
    \/ AudioLoop(w) \/ AudioTimeout(w)

\* The steps that end when a client has taken what was written, or is gone.
ClientStep(w) ==
    \/ Reply(w) \/ MjpegHeaders(w) \/ MjpegWritten(w) \/ SnapshotWritten(w)
    \/ AudioHeaders(w) \/ AudioWritten(w)

Worker(w) ==
    \/ OwnStep(w) \/ ClientStep(w)
    \/ Accept(w) \/ ReadRequest(w)
    \/ MjpegFrame(w) \/ SnapshotFrame(w) \/ AudioChunk(w)

\* A failed assert! would halt the firmware; BuffersConserved says that none
\* fails, so what would follow one is not described.
Next ==
    \/ StartCamera \/ EndOfImage \/ CaptureAudio
    \/ \E w \in Workers : Worker(w)
    \/ StartTransfer \/ EndTransfer

\* Ready tasks are polled and timers fire.
Spec == Init /\ [][Next]_vars /\ \A w \in Workers : WF_vars(OwnStep(w))

\* In addition no client keeps a connection alive for ever without reading.
LiveSpec == Spec /\ \A w \in Workers : WF_vars(ClientStep(w))
-----------------------------------------------------------------------------
(* Properties                                                               *)

ReadySet == {ready[i] : i \in 1..Len(ready)}

\* No buffer is lost or shared: each one is in exactly one of the two channels,
\* the camera task and the workers, whichever way a connection ended, so that
\* every channel send fits and none of the assert!s on one fires.
BuffersConserved ==
    /\ ~panicked
    /\ empty \cup ReadySet \cup (({camera} \cup {held[w] : w \in Workers}) \ {NoBuffer})
         = Buffers
    /\ Cardinality(empty) + Len(ready)
         + (IF camera = NoBuffer THEN 0 ELSE 1)
         + Cardinality({w \in Workers : held[w] # NoBuffer})
         = Cardinality(Buffers)

\* A frame that waits for a client is never stale: the last one in READY_FRAMES
\* is the last one the camera completed, although the camera never waits and
\* drops frames while slow clients hold the buffers.
ReadyIsCurrent ==
    ready # <<>> => stamp[ready[Len(ready)]] = frames

\* The clients together see frames in the order the camera completed them, and
\* no frame twice.
DeliveredInOrder ==
    [][ \A w \in Workers :
          held'[w] \notin {held[w], NoBuffer} => stamp[held'[w]] > delivered ]_vars

\* At most one audio stream is served, and the flag that refuses a second one is
\* held exactly as long as the first is.
AudioExclusive ==
    /\ \A v, w \in Workers : pc[v] \in AudioPCs /\ pc[w] \in AudioPCs => v = w
    /\ audioActive <=> \E w \in Workers : pc[w] \in AudioPCs

\* Once a transfer has begun an open video stream takes at most the one frame it
\* was waiting for, and a stream requested during the transfer takes none.
TransferStarvesStreams ==
    transfer => \A w \in Workers :
        pc[w] \in MjpegPCs => taken[w] <= (IF late[w] THEN 0 ELSE 1)

\* While a transfer lasts, every open stream comes to its end.
StreamsYield ==
    \A w \in Workers :
        (transfer /\ pc[w] \in MjpegPCs \cup AudioPCs)
            ~> (~transfer \/ pc[w] \notin MjpegPCs \cup AudioPCs)

\* A snapshot request is answered even when streams compete for every frame.
SnapshotAnswered ==
    \A w \in Workers : pc[w] = "snapWait" ~> pc[w] = "accept"
=============================================================================
