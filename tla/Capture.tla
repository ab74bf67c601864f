------------------------------- MODULE Capture -------------------------------
(***************************************************************************)
(* The way of a frame from the sensor to the camera task: the DMA ring and *)
(* its interrupts (AsyncCameraTransfer of crates/ov3660/src/driver.rs),    *)
(* the recovery of CameraCapture (capture.rs), and the chunk loop of       *)
(* camera_task in src/main.rs.                                             *)
(*                                                                         *)
(* A block is what one DMA descriptor takes.  The hardware fills the ring  *)
(* while the task runs; blocks that find no descriptor, or a stopped DMA,  *)
(* are lost.  JpegParser describes the parser byte by byte; here it only   *)
(* collects the blocks of a frame, from the one with the SOI to the one    *)
(* with the EOI, and cannot tell that a block between them is missing.     *)
(***************************************************************************)
EXTENDS Naturals, Sequences

CONSTANTS
    RingCap,   \* descriptors of the ring: DMA_RING / DMA_BLOCK
    ChunkCap,  \* blocks of a chunk: DMA_CHUNK / DMA_BLOCK
    Parts,     \* blocks of a frame
    FrameIds   \* bound: frames are numbered modulo this

ASSUME SizeAssumption ==
    /\ RingCap \in Nat \ {0} /\ ChunkCap \in Nat \ {0}
    /\ Parts \in Nat \ {0} /\ FrameIds \in Nat \ {0}

Blocks == [frame : 1..FrameIds, part : 1..Parts]
IsFirst(b) == b.part = 1
IsLast(b) == b.part = Parts

\* The block the sensor sends after b.
After(b) == IF IsLast(b) THEN [frame |-> (b.frame % FrameIds) + 1, part |-> 1]
            ELSE [b EXCEPT !.part = @ + 1]

Interrupts == {"Done", "DescriptorEmpty", "Error"}

VARIABLES
    next,       \* the block the sensor sends next
    ring,       \* the filled descriptors that were not consumed yet
    stalled,    \* the DMA has stopped for want of a descriptor
    pending,    \* its pending interrupts
    transfer,   \* CaptureState
    resyncing,
    pc,         \* where the camera task is
    chunk,      \* the blocks copied and not yet parsed
    eof,        \* the chunk ends a frame
    collected,  \* the blocks of the frame the parser is in; empty in LookingForSoi
    published   \* history: the last frame the parser returned

dmaVars == <<ring, stalled, pending>>
taskVars == <<transfer, resyncing, pc, chunk, eof, collected, published>>
vars == <<next, dmaVars, taskVars>>

TypeOK ==
    /\ next \in Blocks
    /\ ring \in Seq(Blocks) /\ Len(ring) <= RingCap
    /\ stalled \in BOOLEAN
    /\ pending \subseteq Interrupts
    /\ transfer \in {"Idle", "Active", "Transitioning"}
    /\ transfer = "Transitioning" <=> pc = "recover"
    /\ resyncing \in BOOLEAN
    /\ pc \in {"wait", "copy", "resume", "parse", "recover"}
    /\ chunk \in Seq(Blocks) /\ Len(chunk) <= ChunkCap
    /\ eof \in BOOLEAN
    /\ collected \in Seq(Blocks)
    /\ published \in Seq(Blocks)

Init ==
    /\ next \in {b \in Blocks : b.frame = 1}
    /\ ring = <<>>
    /\ stalled = FALSE
    /\ pending = {}
    /\ transfer = "Active"
    /\ resyncing = FALSE
    /\ pc = "wait"
    /\ chunk = <<>>
    /\ eof = FALSE
    /\ collected = <<>>
    /\ published = <<>>
-----------------------------------------------------------------------------
(* The sensor and the DMA *)

Filling == transfer = "Active" /\ ~stalled

SensorBlock ==
    /\ next' = After(next)
    /\ UNCHANGED taskVars
    /\ \/ /\ Filling /\ Len(ring) < RingCap
          /\ ring' = Append(ring, next)
          /\ pending' = pending \cup {"Done"}
          /\ UNCHANGED stalled
       \/ /\ Filling /\ Len(ring) = RingCap
          /\ stalled' = TRUE
          /\ pending' = pending \cup {"DescriptorEmpty"}
          /\ UNCHANGED ring
       \/ ~Filling /\ UNCHANGED dmaVars

DmaError ==
    /\ Filling
    /\ "Error" \notin pending
    /\ pending' = pending \cup {"Error"}
    /\ UNCHANGED <<next, ring, stalled, taskVars>>
-----------------------------------------------------------------------------
(* CameraCapture::next_chunk *)

Waiting == pc = "wait" /\ transfer = "Active"

\* recover up to its delay: the transfer is stopped and what the ring holds is
\* given up with it.
BeginRecovery ==
    /\ transfer' = "Transitioning"
    /\ resyncing' = TRUE
    /\ pc' = "recover"
    /\ ring' = <<>>
    /\ stalled' = FALSE
    /\ pending' = {}
    /\ UNCHANGED <<next, chunk, eof, collected, published>>

WaitDescriptorEmpty ==
    /\ Waiting
    /\ "DescriptorEmpty" \in pending
    /\ BeginRecovery

WaitError ==
    /\ Waiting
    /\ "Error" \in pending /\ "DescriptorEmpty" \notin pending
    /\ BeginRecovery

WaitTimeout ==
    /\ Waiting
    /\ pending = {}
    /\ BeginRecovery

\* Mutant of WaitDone: the interrupts are cleared after the poll, all of them,
\* and so is one that came in between.
WaitDoneClearingAll ==
    /\ Waiting
    /\ "Done" \in pending /\ "Error" \notin pending
    /\ pending' = {}
    /\ pc' = "copy"
    /\ UNCHANGED <<next, ring, stalled, transfer, resyncing, chunk, eof, collected, published>>

WaitDone ==
    /\ Waiting
    /\ "Done" \in pending /\ pending \cap {"DescriptorEmpty", "Error"} = {}
    /\ pending' = pending \ {"Done"}
    /\ pc' = "copy"
    /\ UNCHANGED <<next, ring, stalled, transfer, resyncing, chunk, eof, collected, published>>

\* How many blocks of the ring peek_until_eof sees.
UntilEof ==
    LET ends == {i \in 1..Len(ring) : IsLast(ring[i])}
    IN IF ends = {} THEN Len(ring) ELSE CHOOSE i \in ends : \A j \in ends : i <= j

\* peek_until_eof, the copy and consume.  A block behind the end of a frame, or
\* that does not fit the output, stays in the ring until a later interrupt.
CopyChunk ==
    /\ pc = "copy"
    /\ LET copied == IF UntilEof < ChunkCap THEN UntilEof ELSE ChunkCap
       IN /\ chunk' = SubSeq(ring, 1, copied)
          /\ ring' = SubSeq(ring, copied + 1, Len(ring))
          /\ eof' = (copied > 0 /\ IsLast(ring[copied]))
    /\ pc' = "resume"
    /\ UNCHANGED <<next, stalled, pending, transfer, resyncing, collected, published>>

\* Mutant of ResumeDma: the end of a frame does not end the resync.
ResumeDmaStillResyncing ==
    /\ pc = "resume"
    /\ stalled' = FALSE
    /\ IF resyncing \/ chunk = <<>>
       THEN /\ pc' = "wait" /\ chunk' = <<>>
            /\ collected' = IF resyncing THEN <<>> ELSE collected
       ELSE pc' = "parse" /\ UNCHANGED <<chunk, collected>>
    /\ UNCHANGED <<next, ring, pending, transfer, resyncing, eof, published>>

\* resume_dma restarts a DMA that had stopped, while its DescriptorEmpty stays
\* pending.  The chunk that ends a frame ends the resync and is handed on; one
\* before it resets the parser and is dropped.
ResumeDma ==
    /\ pc = "resume"
    /\ stalled' = FALSE
    /\ resyncing' = (resyncing /\ ~eof)
    /\ IF resyncing' \/ chunk = <<>>
       THEN /\ pc' = "wait" /\ chunk' = <<>>
            /\ collected' = IF resyncing' THEN <<>> ELSE collected
       ELSE pc' = "parse" /\ UNCHANGED <<chunk, collected>>
    /\ UNCHANGED <<next, ring, pending, transfer, eof, published>>

\* Mutant of RestartTransfer: the parser goes on where it was.
RestartTransferMidFrame ==
    /\ pc = "recover"
    /\ transfer' \in {"Active", "Idle"}
    /\ pc' = "wait"
    /\ UNCHANGED <<next, dmaVars, resyncing, chunk, eof, collected, published>>

\* The rest of recover: driver.receive gives a new transfer or fails; the empty
\* result makes camera_task reset the parser.
RestartTransfer ==
    /\ pc = "recover"
    /\ transfer' \in {"Active", "Idle"}
    /\ collected' = <<>>
    /\ pc' = "wait"
    /\ UNCHANGED <<next, dmaVars, resyncing, chunk, eof, published>>

\* The next call starts an idle capture first.
StartIdle ==
    /\ pc = "wait" /\ transfer = "Idle"
    /\ transfer' = "Active"
    /\ UNCHANGED <<next, dmaVars, resyncing, pc, chunk, eof, collected, published>>

StartIdleFails ==
    /\ pc = "wait" /\ transfer = "Idle"
    /\ resyncing' = TRUE
    /\ collected' = <<>>
    /\ UNCHANGED <<next, dmaVars, transfer, pc, chunk, eof, published>>
-----------------------------------------------------------------------------
(* The parse loop of camera_task *)

\* A block with an SOI begins a frame, also inside another one.
Collect(b) ==
    IF IsFirst(b) THEN <<b>> ELSE IF collected = <<>> THEN <<>> ELSE Append(collected, b)

ParseBlock ==
    /\ pc = "parse"
    /\ chunk' = Tail(chunk)
    /\ pc' = IF chunk' = <<>> THEN "wait" ELSE "parse"
    /\ LET frame == Collect(Head(chunk))
       IN IF frame # <<>> /\ IsLast(Head(chunk))
          THEN published' = frame /\ collected' = <<>>
          ELSE collected' = frame /\ UNCHANGED published
    /\ UNCHANGED <<next, dmaVars, transfer, resyncing, eof>>

\* The output is full or the parser fails: it is reset and the rest of the
\* chunk given up.
GiveUp ==
    /\ pc = "parse"
    /\ chunk' = <<>>
    /\ collected' = <<>>
    /\ pc' = "wait"
    /\ UNCHANGED <<next, dmaVars, transfer, resyncing, eof, published>>

Next ==
    \/ SensorBlock \/ DmaError
    \/ WaitDescriptorEmpty \/ WaitError \/ WaitTimeout \/ WaitDone
    \/ CopyChunk \/ ResumeDma \/ RestartTransfer \/ StartIdle \/ StartIdleFails
    \/ ParseBlock \/ GiveUp

\* The sensor keeps sending, the task is polled when it is woken, and a capture
\* that is started over and over starts in the end.
Fairness ==
    /\ WF_vars(SensorBlock)
    /\ WF_vars(WaitDescriptorEmpty) /\ WF_vars(WaitError) /\ WF_vars(WaitDone)
    /\ WF_vars(CopyChunk) /\ WF_vars(ResumeDma) /\ WF_vars(RestartTransfer)
    /\ WF_vars(StartIdle) /\ WF_vars(ParseBlock)

Spec == Init /\ [][Next]_vars /\ Fairness
-----------------------------------------------------------------------------
(* Properties *)

\* No torn frame is published: it is every block of one frame the sensor sent,
\* in order, although the parser cannot see a gap and the DMA may drop blocks
\* at any moment.
FramesWhole ==
    published # <<>> =>
        \E f \in 1..FrameIds : published = [i \in 1..Parts |-> [frame |-> f, part |-> i]]

\* Blocks the DMA dropped are announced: neighbours in the ring were neighbours
\* in the stream unless DescriptorEmpty is pending, which the next wait looks at
\* before it takes any data.
GapsAnnounced ==
    \A i \in 1..(Len(ring) - 1) :
        ring[i + 1] = After(ring[i]) \/ "DescriptorEmpty" \in pending

\* No recovery begins and the parser gives nothing up.
UndisturbedStep ==
    /\ pc' = "recover" => pc = "recover"
    /\ GiveUp => ParseBlock

\* Capture recovers: once the DMA keeps up, frames are published again and
\* again, whatever state the resync, the ring backlog and the parser were in.
CaptureRecovers ==
    <>[][UndisturbedStep]_vars => []<><<published' # published>>_vars
=============================================================================
