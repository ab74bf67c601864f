------------------------------ MODULE Firmware ------------------------------
(***************************************************************************)
(* One camera: what main() of src/main.rs does from a boot to the spawning *)
(* of the tasks, and the tasks of Streaming and OtaUpdate running          *)
(* together.  The two share TRANSFER_ACTIVE, which the OTA task raises and *)
(* the HTTP workers read, and CAMERA_HEALTHY, which the camera task signals *)
(* and the OTA task waits for; and a reset takes both down.                *)
(*                                                                         *)
(* The panic handler (esp-backtrace) halts the processor, so a panic of    *)
(* one task stops all of them until somebody switches the power off.       *)
(***************************************************************************)
EXTENDS OtaUpdate, FiniteSets

CONSTANTS
    Workers, Buffers, NoBuffer, FrameCap, PcmCap, MaxFrames,  \* of Streaming
    Unreliable  \* the releases whose camera may never complete a frame

\* What Streaming assumes of its constants.
ASSUME BufferAssumption ==
    /\ IsFiniteSet(Buffers) /\ NoBuffer \notin Buffers
    /\ FrameCap \in Nat /\ Cardinality(Buffers) <= FrameCap
    /\ PcmCap \in Nat /\ MaxFrames \in Nat

VARIABLES
    empty, ready, camera, held, stamp, frames, delivered, httpPc, taken, late,
    pcm, audioActive, panicked,  \* of Streaming
    stage                        \* how far main() is

Http == INSTANCE Streaming WITH pc <- httpPc

otaVars == <<slotVars, bootVars, pc, healthy, job, transferVars, history>>
httpVars == <<empty, ready, camera, held, stamp, frames, delivered, httpPc,
              taken, late, pcm, audioActive, panicked>>
firmwareVars == <<otaVars, httpVars, transfer, stage>>

Stages == {"layout", "provision", "tasks", "halted"}

FirmwareTypeOK ==
    /\ TypeOK
    /\ Http!TypeOK
    /\ stage \in Stages

FirmwareInit ==
    /\ Init
    /\ Http!Init
    /\ stage = "layout"

-----------------------------------------------------------------------------
(* main()                                                                   *)

\* Startup ends early: an invalid layout or a panic of what follows it.
Halt ==
    /\ stage' = "halted"
    /\ UNCHANGED <<otaVars, httpVars, transfer>>

\* flash_layout::is_valid, before anything is read or written.
CheckLayout ==
    /\ pc # "off"
    /\ stage = "layout"
    /\ \/ /\ stage' = "provision"
          /\ UNCHANGED <<otaVars, httpVars, transfer>>
       \/ Halt

\* provision::load_or_provision returns, the drivers are built and the tasks
\* spawned.  Without a valid record it may wait for ever.
SpawnTasks ==
    /\ pc # "off"
    /\ stage = "provision"
    /\ \/ /\ stage' = "tasks"
          /\ UNCHANGED <<otaVars, httpVars, transfer>>
       \/ Halt

Running == pc # "off" /\ stage = "tasks"

\* Mutant of StartCamera: health is signalled once the sensor is configured.
StartCameraHealthy ==
    /\ Running
    /\ Http!StartCamera
    /\ CameraFrame
    /\ UNCHANGED stage

\* camera_task: the sensor answers and takes its configuration and the DMA
\* starts, or an expect() panics.
StartCamera ==
    /\ Running
    /\ \/ /\ Http!StartCamera
          /\ UNCHANGED <<otaVars, stage>>
       \/ /\ camera = NoBuffer
          /\ Halt

\* Mutant of CompleteFrame: health is signalled only where the oldest waiting
\* frame is recycled.
CompleteFrameRecycling ==
    /\ Running
    /\ Http!EndOfImage
    /\ IF empty = {} THEN CameraFrame ELSE UNCHANGED otaVars
    /\ UNCHANGED stage

\* A frame is complete: it is published or dropped, and health is signalled
\* either way.
CompleteFrame ==
    /\ Running
    /\ Http!EndOfImage
    /\ CameraFrame
    /\ UNCHANGED stage

Serve(w) ==
    /\ Running
    /\ Http!Worker(w)
    /\ UNCHANGED <<otaVars, stage>>

CaptureAudio ==
    /\ Running
    /\ Http!CaptureAudio
    /\ UNCHANGED <<otaVars, stage>>
-----------------------------------------------------------------------------
(* ota_task, whose stores to TRANSFER_ACTIVE the HTTP workers observe       *)

ShareTransfer ==
    /\ UNCHANGED stage
    /\ \/ /\ transfer' # transfer
          /\ Http!StartTransfer \/ Http!EndTransfer
       \/ /\ transfer' = transfer
          /\ UNCHANGED httpVars

CheckForUpdate == Running /\ CheckAndInstall /\ ShareTransfer

\* Bound: the errors that the two writes of a selection report, which OtaUpdate
\* explores alone, are left out of the composition.
NoSelectionError == ~strayed'

\* The steps of the task that wait for nothing but the network timeouts.
UpdateStep ==
    /\ Running
    /\ \/ StartTask \/ ConfirmRunningImage
       \/ RequestImage \/ EraseSlot
       \/ ReceiveChunk \/ StoreChunk \/ CheckDigests
       \/ Activate \/ MarkNew
    /\ NoSelectionError
    /\ ShareTransfer
-----------------------------------------------------------------------------
(* Resets: both halves lose their RAM, and the boot starts main() again.    *)

LoseTasks ==
    /\ empty' = Buffers /\ ready' = <<>> /\ camera' = NoBuffer
    /\ held' = [w \in Workers |-> NoBuffer]
    /\ stamp' = [b \in Buffers |-> 0]
    /\ frames' = 0 /\ delivered' = 0
    /\ httpPc' = [w \in Workers |-> "accept"]
    /\ taken' = [w \in Workers |-> 0]
    /\ late' = [w \in Workers |-> FALSE]
    /\ pcm' = 0 /\ audioActive' = FALSE /\ panicked' = FALSE
    /\ stage' = "layout"

ResetTasks == SoftwareReset /\ LoseTasks
LosePower == PowerLoss /\ LoseTasks
Start == Boot /\ UNCHANGED <<httpVars, stage>>

\* Somebody switches a camera that shows no picture off and on again.
PowerCycle == ~healthy /\ LosePower

FirmwareNext ==
    \/ CheckLayout \/ SpawnTasks
    \/ StartCamera \/ CompleteFrame \/ CaptureAudio
    \/ \E w \in Workers : Serve(w)
    \/ CheckForUpdate \/ UpdateStep
    \/ ResetTasks \/ LosePower \/ Start

\* The executor polls every task that is ready, and the chip comes up after a
\* reset.  Nothing is assumed of clients or of the server.
FirmwareFairness ==
    /\ WF_firmwareVars(StartCamera)
    /\ WF_firmwareVars(running \notin Unreliable /\ CompleteFrame)
    /\ WF_firmwareVars(Start)

FirmwareSpec == FirmwareInit /\ [][FirmwareNext]_firmwareVars /\ FirmwareFairness

\* In addition somebody switches a camera that stays dark off and on.
Attended == WF_firmwareVars(PowerCycle)
-----------------------------------------------------------------------------
(* Properties                                                               *)

\* The booted image leaves probation only after the camera of this very boot
\* completed a frame (docs/firmware.md, Runtime Behavior 8): not on a frame of
\* an earlier boot, and not because a client was served.
HealthEarned ==
    [][ /\ pc # "off" /\ booted \in Slots
        /\ rec[booted] \in {"New", "PendingVerify"} /\ rec'[booted] = "Valid"
        => stage = "tasks" /\ frames > 0 ]_firmwareVars

\* A working camera is found healthy whatever clients do: none has to fetch a
\* picture for that, and none can hold the buffer the camera needs.
HealthDespiteClients ==
    (Running /\ running \notin Unreliable) ~> (healthy \/ ~Running)

\* An update on probation that shows no picture, wherever its startup stops,
\* is gone once the camera was switched off and on: it does not stay because
\* something else than a picture was taken for health.
PictureOrRollback ==
    Attended =>
    ((pc # "off" /\ booted \in Slots /\ rec[booted] = "PendingVerify")
     ~> (frames > 0 \/ running = FactoryVersion))
=============================================================================
