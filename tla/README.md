# A verification model of esp-wifi-cam

This directory models the firmware of the camera (`src/src`, `src/crates`) and
the way of a release to it (`src/crates/release-tool`, `src/.tekton`) in TLA+,
checks both with TLC on small instances, and proves with TLAPS, for every value
of the constants, every safety property the runs check: the invariants and
action properties of all ten modules that model code, and those of the update
and of the streams once more for the composed firmware. What stays with TLC
alone is liveness.

## 1. The system

One ESP32-S3 runs cooperative Embassy tasks on one core: a task keeps the
processor from one await to the next. At boot `main` validates the flash
layout, loads or receives the provisioning record, joins the Wi-Fi network and
spawns the tasks.

| Component | State it keeps | Operations | Interacts with |
|---|---|---|---|
| OTA task (`src/src/ota.rs`) | the verified manifest, the offset, two digests; `TRANSFER_ACTIVE`; writes the inactive slot and otadata | confirm the running image, check, download, store, activate, reset | release server, flash, bootloader; `CAMERA_HEALTHY` from the camera task; `TRANSFER_ACTIVE` to the HTTP workers |
| Bootloader and `OtaUpdater` (external) | otadata records, the two slots | select, next slot, activate, set state, roll back | written by the OTA task, read at boot |
| Manifest and version policy (`src/crates/ota-core`) | none | verify a manifest, compare versions | called by the OTA task |
| Ignore journal (`src/src/ota_ignore.rs`, `src/scripts/flash.sh`) | two flash sectors | read; written by the host only | consulted by the OTA task |
| Camera capture (`src/crates/ov3660`) | the DMA ring and its interrupts, `CaptureState`, `resyncing` | wait, copy a chunk, resume, recover | sensor, GDMA; chunks to the camera task |
| JPEG parser (`src/crates/ov3660/src/jpeg.rs`) | a byte automaton, the output offset | parse, reset | called by the camera task |
| Camera task (`src/src/main.rs`) | the frame being written | parse a chunk, publish or recycle a frame | the two frame channels |
| HTTP workers, 3 of them (`src/src/main.rs`) | the buffer each one sends | accept, route, MJPEG, snapshot, audio, status | the frame channels, the PCM queue, `AUDIO_ACTIVE`, `TRANSFER_ACTIVE` |
| Audio task (`src/src/main.rs`) | the PCM queue | capture, drop the newest when full | HTTP workers |
| Provisioning (`src/src/provision.rs`, `src/crates/ota-core`) | two sectors with sequenced records | load, replace within two seconds of boot | USB host, flash |
| Sensor configuration (`src/crates/ov3660/src/lib.rs`) | cached frame size, binning, flip | initialise, set size, quality, flip, tone | sensor registers over I2C |
| Release tool and pipeline (`src/crates/release-tool`, `src/.tekton`) | version releases, channel manifests | build, sign, check, publish | the server devices poll |

### What is hard about it, and what makes each part correct

- **Update.** Power may fail between any two steps and inside every flash
  write; two otadata writes make one activation; a rollback leaves records
  behind that the next update starts from. *Correct when* the running slot is
  never written, only verified images are selected, an image on probation
  never destroys the one it would roll back to, and confirmed versions are not
  undercut.
- **Frame pool and HTTP.** Two buffers circulate among a camera that never
  waits, three workers and clients that stall, close or fail at any write.
  *Correct when* no way out of a connection loses a buffer or a flag, frames
  come fresh and in order, and a transfer gets the streams out of the way.
- **Capture.** The DMA drops data whenever the task is late, and the parser
  cannot see a gap. *Correct when* no torn frame is published, and publishing
  always resumes.
- **Parser.** A segment payload may hold the bytes of an EOI; errors and losses
  come at any byte. *Correct when* it returns exactly the frames that arrived
  in full.
- **Provisioning.** A write may be cut short, the sequence number wraps, and a
  host may keep sending rubbish. *Correct when* the two sectors behave like one
  register that survives power loss, and a configured device always boots.
- **Startup and composition.** Startup may end at several places, a panic of
  one task halts all, and one signal from the camera decides whether an update
  can still be rolled back. *Correct when* that signal is earned in the same
  boot, no client can withhold it, and an update without a picture goes away.
- **Sensor.** A setting is up to a dozen register writes, any of which may fail,
  and later settings are computed from a copy of the mode that a reset of the
  processor forgets and the sensor does not. *Correct when* the sensor is as
  the driver believes, wherever the last failure was not.
- **Release.** Runs die and are started again with other builds, a power loss
  takes what was not synced, devices poll in between. *Correct when* a channel
  names only what can be downloaded, a version is one image for ever, channels
  do not go back, and what is published devices accept.

## 2. Modules

| Module | Models | Extends |
|---|---|---|
| `OtaUpdate` | OTA task, slots, otadata, bootloader | |
| `OtaUpdateProofs` | the inductive invariants of `OtaUpdate` and of the composition, and their theorems | `Firmware`; instantiates `StreamingProofs` |
| `Streaming` | camera task as a producer, HTTP workers, audio task and what they share | |
| `StreamingProofs` | its theorems about buffers, flags and the order of frames | `Streaming` |
| `Capture` | DMA ring, `CameraCapture`, the chunk loop of the camera task | |
| `CameraProofs` | theorems about torn frames and gaps, and about the settings of the sensor | `Capture`, `SensorConfig` |
| `JpegParser` | `JpegStreamParser`, and a sensor that feeds it | |
| `JpegParserProofs` | lemmas about the pieces of a JPEG stream, and its theorems | `JpegParser` |
| `ConfigRegister` | what provisioning promises: a register | |
| `ProvisionJournal` | provisioning over two sectors; implements `ConfigRegister` | instantiates it |
| `ProvisionJournalProofs` | its theorems and the refinement, step by step | `ProvisionJournal` |
| `Firmware` | `main`, and the tasks of `OtaUpdate` and `Streaming` together | `OtaUpdate`; instantiates `Streaming` |
| `SensorConfig` | the settings of the OV3660 over its registers | |
| `IgnoreJournal` | `flash.sh` writing the ignore record, and the device reading it | |
| `IgnoreJournalProofs` | its theorems | `IgnoreJournal` |
| `ReleaseTool` | `atomic_write` over a file system that loses what is not synced | |
| `ReleaseToolProofs` | its theorems | `ReleaseTool` |
| `ReleasePipeline` | tag runs, version releases, channels and devices | |
| `ReleasePipelineProofs` | its theorems | `ReleasePipeline` |
| `MC...` | the values TLC uses | the module of that name |

### OtaUpdate

`pc` is the place of `ota_task`: `start`, `waitHealth`, `idle` (between
checks), `request`, `erase`, `receive`, `store`, `digest`, `activate`,
`markNew`, `reset`, with `disabled` for a task that returned and `off` while
the processor does not run. `flash` holds, for each slot, the sequence of
chunks written since its erase, each tagged with the release it belongs to or
as garbage; `rec` and `newer` are the otadata records. `job` is the verified
manifest with whether the ignore journal could be read. Two variables are
history: `confirmed` is the newest version whose record was written `Valid`,
also by a write that was reported as failed or ended in a power loss, and
`strayed` says whether one of the two writes of a selection ever reported an
error. As `docs/ota.md:126` says, the selection is not atomic: an error between
its writes, or of the second, leaves the new slot selected although the check
failed.

`RequestImage` to `MarkNew` are `install_image` cut at the calls that can fail
or lose power; each can take the failure branch, `FailClosed`, which lowers
`TRANSFER_ACTIVE` and forgets the job the way the code does. `Boot` is the
bootloader: an image on probation becomes `PendingVerify`, one found so becomes
`Aborted`, and the factory image is the last resort. `AfterFailedWrite` leaves
open what a flash write that fails leaves behind, and `Residuals` what state
`activate_next_partition` gives the record it writes: any that leaves the slot
selected, `New` included.

`UpdateConverges` is about a device that goes on checking. One whose selected
record is not that of the running image disables OTA until its next boot;
whether that happens after a rollback is decided by the bootloader and
`OtaUpdater`, which are external, and the property lets it stop there.

### Streaming

Each worker has a `pc` with one value per await of `handle_http_connection`
and the handlers it calls. `empty` and `ready` are `EMPTY_FRAMES` and
`READY_FRAMES`; `camera` and `held` are the buffers outside them. `EndOfImage`
is what the camera task does with a completed frame: it takes an empty buffer,
else the oldest waiting one, else drops the frame. Every socket call has the
outcomes of the code: written, failed, or (where the code has one) timed out.
`StartTransfer` and `EndTransfer` are the only steps of the OTA task seen here.
The frames are numbered (`stamp`), so order and freshness can be stated.

### Capture

A block is what one descriptor takes. `SensorBlock` fills the ring, or drops
the block and raises `DescriptorEmpty` when no descriptor is free.
`WaitDescriptorEmpty`, `WaitError`, `WaitDone` and `WaitTimeout` are the
branches of `wait` in the order the code looks at the interrupts; `CopyChunk`
and `ResumeDma` are the rest of `next_chunk`, and the DMA may run between any
two of them; `BeginRecovery` and `RestartTransfer` are the halves of `recover`
around its delay.

### JpegParser

One step is one byte. `section`, `wire`, `sent` and `intact` belong to a sensor
that sends padding, frames with segments and scans, malformed bytes and losses;
the other variables are the fields of the parser. Bytes are numbers, of which
the configuration offers the ones the parser treats differently. A segment is
its marker, the two bytes of its length and any payload that the assumption of
section 6 admits. `intact` says that every byte of the frame reached the parser;
a byte refused by a buffer that is full with the very frame it belongs to did
reach it, so a capacity that is one too small violates `NothingMissed`.

Malformed are: a segment whose length does not count itself, a marker that has
no place in a frame, a byte that is no marker where one is due, and a segment
that announces `Missing` bytes more than it has, which is also a frame broken off
inside a segment. The parser drops a frame with one of the first three. It cannot
see the fourth, and takes what comes next for the rest of the segment: `Missing`
is empty in `jpeg_parser` and in two of the theorems, and `jpeg_malformed` shows
what happens otherwise (section 4).

### ProvisionJournal and ConfigRegister

`sector` holds the two records, each valid or `Invalid` (blank or torn).
`Boot`, `CloseWindow`, `KeepExisting`, `ReceiveCommand`, `WriteRecord` and
`ReadBack` are `load_or_provision` and `store` cut at flash accesses and at the
awaits of the USB host. `RejectCommand` is every read that brings no command to
store: an error of the transport, a line that is invalid, a line too long. The
banner, and the answer to a rejected command or a failed store, are written in
the place `answer`, which the host may hold up: for ever on a device without a
record, until the window is over on one that has one (`AnswerTimesOut`). The
refinement maps `stored` to the record a boot would load now (`Stored`); `base`
and `active` have the same names in both modules.

### Firmware

The module is `OtaUpdate` with an instance `Http` of `Streaming` beside it; the
variable `transfer` belongs to both. An action is an action of one of them, or
of both at once: `ShareTransfer` lets the HTTP side see a store of the OTA task to
`TRANSFER_ACTIVE` in the same step, `CompleteFrame` is the end of an image and
the health signal, `LoseTasks` puts the tasks back where a boot starts them.
`stage` is the place of `main`: an invalid layout, a panic of what follows it
and a panic of the camera task (`Halt`) leave the processor halted until the
power is switched, as the panic handler does. `Unreliable` are the releases
whose camera may never complete a frame. The errors that the two selection
writes report belong to `ota_update`; `NoSelectionError` leaves them out here.
Names of the composition begin with `Firmware` where `OtaUpdate` has one too.

### SensorConfig

An operation (`initialize`, `set_frame_size`, ...) is a program of the functions
it calls, computed when it is called from what the driver keeps (`held`). A
function has its register writes (`steps`), the settings they make (`makes`) and
what the driver keeps once it returned Ok (`config`). `Step` does one write,
`ReturnOk` ends a function, `Fail` ends the operation at any write, which the
sensor may have taken, and `Restart` forgets `held` while the sensor keeps its
registers. Registers are numbered by their addresses and hold values; 256 stands
for a value nobody knows, of which a read-modify-write changes one bit only.

`AsConfigured` says of every setting what each of its registers holds
(`Setting`, `Accepts`), and of the two registers with a bit of a setting in
them that their other bits are those of the default table. A setting that a
failed operation reached is left out (`damaged`) until a function that makes all
of it succeeds: right after a failure the sensor and the cache do disagree about
it, and nothing in the code prevents that. What the property excludes is that
the cache is assigned too early, that a repair is incomplete, and that a failure
reaches settings it has no part in.

### IgnoreJournal

`pc` is the next command of `flash.sh`: flash the app, write each copy, reset.
The script ends at the first command that fails; the device may be power-cycled
at any time and then starts what it has. All records have sequence 1, so of two
valid copies the first counts. Two sessions cut off in a row can therefore lose
the decision or bring back the one before the last: the first leaves the copies
unequal, the second the first copy torn. The property is about sessions that
begin with equal copies. A device that cannot read the sectors takes the journal
for absent in that check, and installs an ignored version; that is `unread` in
`OtaUpdate`, and no part of this module.

### ReleaseTool

`dir` and `ddir` are the names as the host sees them and as they are on the
disk, `synced` the files whose data is. A power loss leaves each name old or
new and a file that was not synced partial. A process id may repeat, with the
temporary file of a killed run still there; an error removes the temporary
file. Errors of the sync of the directory are reported although the new output
is in place.

### ReleasePipeline

One run is a walk over its tasks; `branch` is where it is with each channel.
`PublishVersionCut` and `PublishChannelCut` are the shared upsert task stopping
between two writes: a version release that is in part there makes every rerun
fail closed, and a channel may be left without a manifest, which forgets the
old version. Devices fetch and install in between.

## 3. Runs

| Run | Question | Instance |
|---|---|---|
| `ota_update` | Is the update safe under every order of failures, power losses and rollbacks, does a transfer end, and does the device converge? | 3 versions (1 and 3 stable, 3 ignored), prerelease track, 2 chunks, rejected records may win the selection |
| `streaming` | Are buffers, flags and frame order kept on all paths, do streams yield to a transfer, and are snapshots answered? | 2 workers, 2 buffers, 2 PCM chunks, 4 frames |
| `capture` | Is a torn frame ever published, and is publishing always resumed? | ring of 4, chunks of 2, frames of 3 blocks, 3 frame numbers |
| `jpeg_parser` | Are exactly the complete frames returned? | output of 14 bytes, frames of up to 15, segments that have what they announce |
| `jpeg_malformed` | Is a malformed stream dropped, whatever is wrong with it? *No* | the same with segments that announce 2 bytes too many |
| `provisioning` | Do two sectors implement the register? | 3 configurations, sequence numbers modulo 8, reads that succeed |
| `provisioning_reads` | Is the newest record safe from replacement when a read fails? *No* | the same with reads that may fail |
| `firmware` | Is health earned in the boot that is confirmed, can clients hold it back, and does an update without a picture go away? | 2 versions of which the update may never show a picture, 1 chunk, 2 workers, 2 buffers, 1 PCM chunk, 2 frames for each boot |
| `sensor_config` | Do mode, options, tone and cache agree after failures and restarts? | a binned and the full size, 2 levels of brightness, 1 of saturation, 10 MHz, 1 failure; 5.4 million states |
| `ignore_journal` | Does a cut session leave the old or the new decision? | 2 versions, 3 sessions |
| `release_tool` | Is the output whole, durable, and rewritten in the end? | 3 contents, 2 process ids, 2 failures |
| `release_pipeline` | Do channels, releases and devices agree? | 1.0.0, 2.0.0-rc.1 and 2.0.0, 2 builds of each, a device of each track |

**Properties.** `OtaUpdate`: `RunningImageIntact`, `ProbationHoldsUpdates`,
`ResetOnlyIntoProbation`, `NeverBelowConfirmed`, `SelectsOnlyVerified`,
`TransferEnds`, `UpdateConverges`. `Streaming`: `BuffersConserved`,
`ReadyIsCurrent`, `AudioExclusive`, `TransferStarvesStreams`,
`DeliveredInOrder`, `StreamsYield`, `SnapshotAnswered`. `Capture`:
`FramesWhole`, `GapsAnnounced`, `CaptureRecovers`. `JpegParser`: `FramesExact`,
`NothingMissed`. `ProvisionJournal`: `ImplementsRegister`, `WritesOtherSector`,
`SequencesSuccessive`, `WindowEnds`. `Firmware`: `HealthEarned`,
`HealthDespiteClients`, `PictureOrRollback`.
`SensorConfig`: `AsConfigured`. `IgnoreJournal`: `DecisionOldOrNew`,
`NewAppKnowsDecision`. `ReleaseTool`: `OutputWhole`, `SuccessSurvives`,
`RetrySucceeds`. `ReleasePipeline`: `ChannelServesImage`, `OneImagePerVersion`,
`ChannelMonotonic`, `DevicesCatchUp`. Each is stated in words above its
definition, and each has a mutant of the code in `PROJECT.json` that breaks it.
`TypeOK` is checked for `OtaUpdate`, `Streaming`, `ProvisionJournal` and
`JpegParser`; in the other modules it documents the variables.

**Bounds, and why they are enough.** Three versions are one running, one that
replaces it and one that replaces that, with a stable and a prerelease among
them; the ignored one is the last, so that suppression can hide the newest. Two
chunks tell "some" from "all", the two cases the digests decide. The firmware
has three workers and two buffers, and once started the camera always holds one
of the two, so at most one worker sends a frame while the others wait: two
workers are one that sends and one that waits. Four frames let the camera overrun both buffers
twice. A ring of four with frames of three puts the end of a frame at every
place of the ring and lets a whole frame be dropped; chunks of two are shorter
than a frame, as in the firmware. Frame numbers are modulo 3: a drop
that is long enough to come back to the same number has shorter ones beside it
that do not. An output of 14 bytes holds a frame with
an APP0 segment and a scan; frames of 15 overflow it by one. Two bytes missing
from a segment are the fewest that swallow an SOI whole; with one, the parser
meets the second half of it where a marker is due, and fails. A sequence number
of eight values wraps many times, with half-range 4 in place of 2^31: the
comparison is the same at every width. In `Firmware` the components keep their
own runs for their own properties; two clients, one chunk and two versions are
enough for each to act between any two steps of the others. Health depends on
the first frame of a boot, and the second meets clients that hold the buffer of
the first. One failure (a bus error or a
restart) in `SensorConfig` hits any write of any sequence of settings; the
sizes are one with and one without binning, and the levels of brightness are
one of each sign. The other levels, sizes, clocks and any number of failures are
left to the proof, which does not depend on their number. Three contents give the release
tool a last success, an attempt and the one after. The versions of the pipeline
are a release and a candidate and release above it, in every order of tagging.

**Fairness.** Tasks are polled once their wakers fire, so weak fairness is on
each step a task takes by itself, and on timers. What depends on others is
fair only where a run asks what happens when they do their part: `LiveSpec` of
`Streaming` assumes that no client keeps a connection for ever without reading
(the 30-second timeout of `main.rs:435` starts
again with whatever the client acknowledges), `LiveSpec` of `OtaUpdate` a camera
that completes frames and a server that offers a manifest again and again, and
`Capture` a sensor that keeps sending. `UpdateConverges` and `CaptureRecovers`
are conditional on disturbances coming to an end, as nothing converges under
endless power losses or drops. `Spec` of `Firmware` assumes nothing of clients or
of the server; `PictureOrRollback` alone presumes somebody who switches a camera off and on
while it shows no picture (`Attended`), as a halted processor is reset by
nothing else; that person would make `HealthDespiteClients` hold by itself.
`ReleaseTool` assumes that a run goes on and that its caller tries again,
`ReleasePipeline` that devices poll. No run uses symmetry, as most check
liveness.

**Deadlock** is checked in every run. As transfers begin and end for ever in
`Streaming`, a task stuck there would not show as one; `StreamsYield` and
`SnapshotAnswered` are the checks for it.

## 4. Disagreements with the documents

1. `jpeg_malformed`: a segment announces two bytes more than it has, because its
   frame is broken off behind its length. The parser counts them off whatever
   they are (`jpeg.rs:137`), so they are the SOI of the next frame; the EOI of
   that frame then ends an image that begins with the broken one, and the camera
   task publishes it. `docs/firmware.md:53` says that malformed JPEG streams are
   dropped.
2. `provisioning_reads`: a failed flash read at boot counts as no record, so
   the replacement goes to sector A even where A holds the newest record.
   `docs/firmware.md:28` says that the replacement writes the other sector.

Three more were met while reading the code and have no run:

- `TRANSFER_ACTIVE` is looked at when a connection is accepted (`main.rs:457`),
  not once its request has arrived; a request of a connection opened before the
  transfer is served during it, where `docs/firmware.md:46` says that new
  requests are answered 503. `TransferStarvesStreams` says what such a request
  gets: no frame of a video stream.
- A full command buffer without a newline is answered with an error and emptied
  (`provision.rs:116`), but the rest of the line is not skipped: it is read as a
  line of its own, and stored if it is a command. `docs/firmware.md:26` says that
  oversized input is rejected.
- A stable release below the candidate that the prerelease channel already names
  fails the check of that channel (`release-state.py:165`), which ends the run,
  so the stable channel may keep its old version. `docs/ota.md:93` says that a
  stable run updates both.

## 5. Proofs

Every theorem holds for every value of the constants that the named assumptions
of its module admit: any number of workers, buffers, versions, chunks, process
ids, any capacity, any frame of the sensor. Each proof module has
`TypeCorrect` (`Spec => []TypeOK`) besides:

| Module | Theorem | States | Assumptions |
|---|---|---|---|
| `OtaUpdateProofs`, alone | `RunningImageSafe` | `Spec => []RunningImageIntact` | `VersionsAssumption`, `DeviceAssumption` |
| | `ProbationSafe` | `Spec => []ProbationHoldsUpdates` | |
| | `ResetSafe` | `Spec => []ResetOnlyIntoProbation` | |
| | `SelectionSafe` | `Spec => SelectsOnlyVerified` | |
| | `ConfirmedSafe` | `Spec => []NeverBelowConfirmed` | |
| `OtaUpdateProofs`, composed | `FirmwareRunsOta` | `FirmwareSpec => Steps` (`OtaUpdate` without its fairness) | those of `OtaUpdate`, and `BufferAssumption` (what `Streaming` assumes) |
| | `UpdateSafeInFirmware` | `FirmwareSpec =>` the five above | |
| | `HealthSafe` | `FirmwareSpec => HealthEarned` | |
| | `StreamsSafeInFirmware` | `FirmwareSpec => []FirmwareTypeOK` and the five of `StreamingProofs` | |
| `StreamingProofs` | `BuffersSafe` | `Spec => []BuffersConserved` | `PoolAssumption`, `QueueAssumption` |
| | `ReadyNeverStale` | `Spec => []ReadyIsCurrent` | |
| | `AudioSafe` | `Spec => []AudioExclusive` | |
| | `TransferSafe` | `Spec => []TransferStarvesStreams` | |
| | `FramesInOrder` | `Spec => DeliveredInOrder` | |
| `CameraProofs` | `FramesSafe` | `Spec => []FramesWhole` | `SizeAssumption` |
| | `GapsSafe` | `Spec => []GapsAnnounced` | |
| | `SettingsSafe` | `SensorSpec => [](SensorTypeOK /\ AsConfigured)` | `SettingAssumption` |
| `JpegParserProofs` | `ReturnsFrames` | `Spec => []FramesExact` | `CapacityAssumption`, `SensorAssumption`, `Missing = {}` |
| | `MissesNothing` | `Spec => []NothingMissed` | the same |
| `ProvisionJournalProofs` | `SequencesHold` | `Spec => []SequencesSuccessive` | `ConfigAssumption`, `SequenceAssumption`, `~ReadsFail` |
| | `NewestUntouched` | `Spec => WritesOtherSector` | the same |
| | `RegisterImplemented` | `Spec => ImplementsRegister` | the same |
| `IgnoreJournalProofs` | `DecisionKept` | `Spec => []DecisionOldOrNew` | `IgnoreAssumption` |
| | `NewAppSafe` | `Spec => []NewAppKnowsDecision` | |
| `ReleaseToolProofs` | `OutputSafe` | `Spec => []OutputWhole` | `ToolAssumption` |
| | `SuccessSafe` | `Spec => []SuccessSurvives` | |
| `ReleasePipelineProofs` | `ChannelSafe` | `Spec => []ChannelServesImage` | `ReleaseAssumption` |
| | `OneImage` | `Spec => []OneImagePerVersion` | |
| | `ChannelsMonotonic` | `Spec => ChannelMonotonic` | |

`~ReadsFail` is needed: with reads that fail the first two of the three are
false, as `provisioning_reads` shows. So is `Missing = {}`, as `jpeg_malformed`
shows; `TypeCorrect` of that module does without it, with `MissingAssumption` (a
length is one of 16 bits). The other assumptions say what kind of
value a constant is, except `PoolAssumption` (a channel has room for every
buffer, `main.rs:85`), `CapacityAssumption` (the output holds an SOI) and
`SensorAssumption` (section 6).

### The inductive invariants

None of these properties is inductive as it stands. What each proof adds, every
part checked by TLC as an invariant first unless it quantifies over all numbers:

- **`OtaUpdate`.** That the running slot is intact says nothing about which slot
  is written next. `Inv` says what each stage of an installation has
  established: the target is the next partition while the task writes
  (`TargetIsNext`), hence never the booted one (`SelectedSlot`); the manifest
  passed every check (`JobAccepted`); the target holds exactly the chunks that
  were read back (`StoredIsPersisted`, `FreshHashers`), and the verified image
  once the digests agreed (`TargetVerified`); after the activation its record is
  the one in force (`TargetSelected`). For `ConfirmedSafe`, `ConfirmedKept` looks
  ahead of a boot: the slot it would choose is as new as what was confirmed, and
  so is the other one if the choice would be on probation (`BootKept`), and the
  slot that runs is that choice unless it is on probation (`RunningKept`).
- **`Streaming`.** A buffer is in exactly one place (`empty`, `ready`, the
  camera, one worker), and no place of a worker is left with one in hand; the
  stamps in `ready` ascend, the last is the newest, and what was delivered is
  older than all of them; `TakenByPlace` ties what a stream took in a transfer to
  where it is.
- **`Capture`.** `ChunkLinked`: what the parser collected, the chunk and what
  will be copied are one piece of the stream of the sensor, whatever was lost
  behind it. `StreamLinked`: so is everything up to the next block, as long as no
  stop is pending. `StopPending`: a stop leaves its interrupt pending until a
  recovery. `UntilEof` takes the least index with the mark of the end; that there
  is one is induction by least counterexample (`WFMin`).
- **`SensorConfig`.** In the middle of a program the registers are neither as
  before nor as wanted, so the invariant speaks of what is left of the program
  (`SensorInv`). `Underway`: for every register of a setting the current function
  makes, a write that brings it about is still to come (`Pending`), or it is
  there already; and for the functions behind it the write is to come. `Proper`:
  no write of a function undoes another one for the same setting (`Keeps`), a
  function touches nothing of what the driver keeps about other settings, and
  the binning goes with the size. Each setter is shown to be such a function by lemmas about its table
  (`WindowOnce`, `PllOnce`, ...: every register of it is written once, so its
  value is the last word), and `initialize` as five of them one behind the
  other (`InitializationReady`). That a write to the two shared registers leaves
  the other bits alone is arithmetic with div and mod (`BitFacts`).
- **`Firmware`.** `FirmwareStep`: a step of the composition is a step of the OTA
  task or leaves it alone, so the invariants of `OtaUpdate` carry over.
  `FirmwareRunsHttp`: for the camera and the workers it is a step of `Streaming`,
  leaves it alone, or is a reset that establishes the initial state again; with
  that third case the invariant of `StreamingProofs` carries over too, by way of
  an instance of that module (`Tasks`). `HealthInv` joins the halves for
  `HealthEarned`: health is known only after a frame and from the tasks
  (`HealthKnown`). That is not inductive while a camera that has completed a
  frame might lose its buffer and `main` halt at a second `StartCamera`;
  `FramesNeedCamera` and `WritersHoldFrames` exclude it. `OtaUpdate` contributes
  that neither write of a selection touches the record of the running slot.
- **`JpegParser`.** The automaton and the sensor do not know each other. `InStep`
  ties them together: a parser in a frame has copied exactly the bytes sent, and
  `Position` says of each state what must be on the wire: the rest of a segment
  as long as the count says, a length that counts it, what may follow a prefix,
  or a whole piece. `SoiMet` says that a new frame finds a parser that can
  take it, `NoFalseSoi` that nothing else does, and `NotLost` that a parser
  outside a frame that arrived in full is one whose buffer is too small. The
  pieces get there by lemmas about sequences of bytes (`ConsFacts`,
  `LengthFacts`, `MarkedFacts`).
- **`ProvisionJournal`.** The sequence numbers of two valid records are
  neighbours, so the comparison by half the range never guesses; the sector that
  is written is the other one than the newest; and the session's configuration
  is the newest record or the last attempt. `RegisterImplemented` maps each step
  to a step of `ConfigRegister` or to none.
- **`IgnoreJournal`.** `WriteProgress` says which copies are as before and which
  hold the decision at each command of the script; `NewAppHeld` keeps the new app
  from running until both do.
- **`ReleaseTool`.** No file has two names (`NamesApart`), on the host or on the
  disk; the temporary file is unknown to the disk until it is whole and synced
  (`TemporaryNew`, `TemporaryWritten`); the output is synced (`OutputSynced`).
- **`ReleasePipeline`.** A run reaches the channels only with a version release
  that is complete and its own (`ReleaseBeforeChannels`); a manifest that passed
  its check is published into an unchanged channel (`UpsertChecked`); a device
  runs the image of a version release (`DeviceServed`).

The proofs go by the actions of `Next`, one lemma or step for each, and the
action properties follow from the invariant in the state before the step.

### Only model-checked

Liveness: `TransferEnds`, `UpdateConverges`, `StreamsYield`, `SnapshotAnswered`,
`CaptureRecovers`, `WindowEnds`, `RetrySucceeds`, `DevicesCatchUp`,
`HealthDespiteClients`, `PictureOrRollback`. Fairness and ENABLED are out of the
prover's reach.

Two operators are proved about as far as a prover without induction over data
goes: `UntilEof` of `Capture` is a least index and no recursion, and the programs
of `SensorConfig` are tables of known length.

## 6. Assumptions about what is not in the repository

- `OtaUpdater::next_partition` never returns the booted slot; whether its
  selection passes over rejected records is a constant,
  `SelectionSkipsRejected`: `FALSE` in `ota_update`, `TRUE` in `firmware`, and
  either in the proofs.
- The bootloader was built with rollback: an image booted from `New` is on
  probation until it is marked `Valid`, and is aborted by the next reset.
- A record torn by power loss is blank; a write that reports an error may have
  happened or not.
- Digests and signatures are ideal: equal digests mean equal bodies.
- The GDMA stops for want of a descriptor and does not overwrite; its
  `DescriptorEmpty` stays pending over `resume_dma` until `wait` clears it.
- The sensor sends no segment that has the two bytes of an SOI in its length or
  payload, and no payload that ends in `0xff`; whatever else it holds is allowed,
  an EOI included (`SensorAssumption`). The parser has no way to tell these from
  a new frame when a loss has put it inside the segment; with either admitted,
  TLC shows a false start of a frame.
- Of the malformed segments, only `jpeg_malformed` admits one that announces more
  bytes than it has (`Missing`).
- The panic handler of `esp-backtrace` halts; no watchdog is enabled, and one
  that were would be a `PowerLoss`.
- The boot falls back to any slot that verifies if the selected one does not.
- A bus error of the sensor leaves the write done or not done.
- `rename` is atomic; a power loss keeps or undoes it unless the directory was
  synced. Runs of the release tool that are alive at the same time on one
  directory have different process ids; two containers that share a directory
  and a process id are not modelled.
- Tekton starts no further task of a run in which one failed, and goes on behind
  a task that its `when` skips. The shared upsert task replaces the assets one
  by one. One run is made at a time, as `docs/ota.md:105` demands.

## 7. What is not modelled

- **Release tool**: the parsing of its arguments, of keys and of images, which
  keep no state. **Release pipeline**: secrets, clean-up, the build itself, and
  the validation pipeline; two runs at a time, which the documents exclude.
- **Wi-Fi and network tasks**: a reconnect loop and a library's runner; the
  network is a call that may fail or never return.
- **I2S restart** of the audio task: a loop that affects only how often the PCM
  queue is filled.
- **Command reader of provisioning**: the 256-byte buffer and the splitting into
  lines; `ProvisionJournal` receives a command that parsed, or rejects what it
  read. The OK answer ends with the session: the command is in force when its
  record was read back.
- **Formats**: canonical JSON, base64url, semver text, TLS, HTTP text and the
  bytes of a record. A record or manifest is valid or not.
- **Executor starvation**: a capture that cannot be started makes the camera
  task loop without an await (`capture.rs:102`); the models have no notion of
  one task keeping the processor for ever.

## 8. What could be added

The command reader of provisioning could have a module of its own, and two runs
of the release pipeline at a time could be modelled, should the documents come to
allow them. The other modules are complete as far as the repository has behaviour
of its own, and every safety property of theirs is proved; what a later proof
could add is liveness, by a proof system that knows fairness.
