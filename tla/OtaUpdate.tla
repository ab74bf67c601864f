------------------------------ MODULE OtaUpdate ------------------------------
(***************************************************************************)
(* The signed A/B update of one camera: the OTA task of src/ota.rs, the    *)
(* two application slots it writes, the otadata records that select one of *)
(* them, and the reset that turns a selection into a running image.        *)
(*                                                                         *)
(* Power may fail between any two steps and inside every flash write.  The *)
(* rollback bootloader and the OtaUpdater of esp-bootloader-esp-idf are    *)
(* not part of the repository; they are modelled from the way src/ota.rs   *)
(* and docs/ota.md use them, and left nondeterministic where these do not  *)
(* say what they do.                                                       *)
(***************************************************************************)
EXTENDS Naturals, Sequences

CONSTANTS
    Versions,         \* released versions in semantic-version order
    FactoryVersion,   \* the version of the image in the factory partition
    StableVersions,   \* the versions without a prerelease part
    Track,            \* the provisioned track of the device
    Ignored,          \* the version the ignore journal names, or NoVersion
    NumChunks,        \* 4096-byte chunks of an image
    SelectionSkipsRejected \* whether OtaUpdater passes over rejected records

NoVersion == 0
Tracks == {"stable", "prerelease"}

ASSUME VersionsAssumption ==
    /\ Versions \subseteq Nat \ {NoVersion}
    /\ FactoryVersion \in Versions
    /\ StableVersions \subseteq Versions
    /\ Ignored \in Versions \cup {NoVersion}
ASSUME DeviceAssumption ==
    /\ Track \in Tracks
    /\ NumChunks \in Nat \ {0}
    /\ SelectionSkipsRejected \in BOOLEAN

Slots == {"ota_0", "ota_1"}
Factory == "factory"
Other(s) == IF s = "ota_0" THEN "ota_1" ELSE "ota_0"

\* A stored chunk is the chunk of some release, or bytes of no release.
Garbage == NoVersion
Tokens == Versions \cup {Garbage}
Image(v) == [i \in 1..NumChunks |-> v]
IsImage(content) == \E v \in Versions : content = Image(v)

\* The state of one otadata record; NoRecord is a blank or torn record.
NoRecord == "none"
ImageStates == {"New", "PendingVerify", "Valid", "Invalid", "Aborted", "Undefined"}
Rejected == {"Invalid", "Aborted"}

NoJob == [version |-> NoVersion, unread |-> FALSE]
Jobs == [version : Versions, unread : BOOLEAN] \cup {NoJob}

VARIABLES
    flash,      \* the chunks written to each OTA slot since its last erase
    rec,        \* the otadata record of each OTA slot
    newer,      \* the slot whose record has the higher sequence number
    booted,     \* the partition the processor runs from
    running,    \* the version it was built as (CARGO_PKG_VERSION)
    pc,         \* where the OTA task is
    healthy,    \* CAMERA_HEALTHY has been signalled since the boot
    transfer,   \* TRANSFER_ACTIVE
    job,        \* the verified manifest being installed, and whether the
                \* ignore journal was unreadable when it was accepted
    target,     \* the partition being written
    chunk,      \* the chunk received and not yet stored
    downloaded, \* the chunks hashed as they came from the network
    persisted,  \* the chunks hashed as they were read back
    confirmed,  \* history: the newest version whose record was written Valid,
                \* reported or not, or NoVersion
    strayed     \* history: a selection write has ever reported an error

slotVars == <<flash, rec, newer>>
bootVars == <<booted, running>>
transferVars == <<target, chunk, downloaded, persisted>>
history == <<confirmed, strayed>>
vars == <<flash, rec, newer, booted, running, pc, healthy, transfer, job,
          target, chunk, downloaded, persisted, confirmed, strayed>>

PCs == {"off", "start", "waitHealth", "idle", "request", "erase", "receive",
        "store", "digest", "activate", "markNew", "reset", "disabled"}

TypeOK ==
    /\ flash \in [Slots -> Seq(Tokens)]
    /\ rec \in [Slots -> ImageStates \cup {NoRecord}]
    /\ newer \in Slots
    /\ booted \in Slots \cup {Factory}
    /\ running \in Versions
    /\ pc \in PCs
    /\ healthy \in BOOLEAN
    /\ transfer \in BOOLEAN
    /\ job \in Jobs
    /\ target \in Slots
    /\ chunk \in Tokens
    /\ downloaded \in Seq(Tokens)
    /\ persisted \in Seq(Tokens)
    /\ confirmed \in Versions \cup {NoVersion}
    /\ strayed \in BOOLEAN
-----------------------------------------------------------------------------
(* Selection: what otadata says, and which slot an update goes to.         *)

\* The record that wins among a set of slots, by sequence number.
NewestOf(S) ==
    IF S = {} THEN Factory ELSE IF newer \in S THEN newer ELSE Other(newer)

Recorded == {s \in Slots : rec[s] # NoRecord}

\* OtaUpdater::selected_partition.
Selected ==
    NewestOf({s \in Recorded : SelectionSkipsRejected => rec[s] \notin Rejected})

\* OtaUpdater::next_partition: the slot after the selected one, and never the
\* one the processor runs from.
NextSlot ==
    IF booted \in Slots THEN Other(booted)
    ELSE IF Selected = Factory THEN "ota_0" ELSE Other(Selected)

\* What a record may hold after a write of `new` to it was cut short or
\* reported an error: the sector is erased and then programmed.
AfterFailedWrite(s, new) == {rec[s], NoRecord, new}

VersionAt(p) == IF p = Factory THEN FactoryVersion ELSE flash[p][1]
-----------------------------------------------------------------------------
(* The manifest: what verify_manifest accepts.                              *)

Manifests == [version : Versions, track : Tracks, authentic : BOOLEAN]

\* Mutants: the order of the versions is not compared, or compared with >=.
AcceptsVersionInAnyOrder(v) ==
    v \in StableVersions \/ Track = "prerelease"
AcceptsVersionAgain(v) ==
    /\ v >= running
    /\ v \in StableVersions \/ Track = "prerelease"

AcceptsVersion(v) ==
    /\ v > running
    /\ v \in StableVersions \/ Track = "prerelease"

VerifyManifest(m) ==
    /\ m.track = Track
    /\ AcceptsVersion(m.version)
    /\ m.authentic

\* ota_ignore::ignored_version names v, unless the journal is unreadable.
Suppressed(v, unread) == v = Ignored /\ ~unread
-----------------------------------------------------------------------------
NoTransfer ==
    /\ transfer' = FALSE
    /\ target' = "ota_0"
    /\ chunk' = Garbage
    /\ downloaded' = <<>>
    /\ persisted' = <<>>

Init ==
    /\ flash = [s \in Slots |-> <<>>]
    /\ rec = [s \in Slots |-> NoRecord]
    /\ newer = "ota_0"
    /\ booted = Factory
    /\ running = FactoryVersion
    /\ pc = "start"
    /\ healthy = FALSE
    /\ transfer = FALSE
    /\ job = NoJob
    /\ target = "ota_0"
    /\ chunk = Garbage
    /\ downloaded = <<>>
    /\ persisted = <<>>
    /\ confirmed = NoVersion
    /\ strayed = FALSE

\* The task checks the partition layout again; a failed read disables it.
StartTask ==
    /\ pc = "start"
    /\ pc' \in {"waitHealth", "disabled"}
    /\ UNCHANGED <<slotVars, bootVars, healthy, transfer, job, transferVars, history>>

\* camera_task parsed a complete frame: CAMERA_HEALTHY.signal(()).
CameraFrame ==
    /\ pc # "off"
    /\ healthy' = TRUE
    /\ UNCHANGED <<slotVars, bootVars, pc, transfer, job, transferVars, history>>

\* Mutant: the task goes on whatever confirm_running_image returned.
ConfirmReadUnchecked(next) ==
    /\ pc = "waitHealth"
    /\ healthy
    /\ pc' = "idle"
    /\ UNCHANGED <<newer, flash, bootVars, healthy, transfer, job, transferVars, strayed>>

\* Mutant: an image is confirmed before the camera has shown a picture.
ConfirmReadEarly(next) ==
    /\ pc = "waitHealth"
    /\ pc' = next
    /\ UNCHANGED <<newer, flash, bootVars, healthy, transfer, job, transferVars, strayed>>

\* confirm_running_image.
ConfirmRead(next) ==
    /\ pc = "waitHealth"
    /\ healthy
    /\ pc' = next
    /\ UNCHANGED <<newer, flash, bootVars, healthy, transfer, job, transferVars, strayed>>

Confirmable == booted \in Slots /\ Selected = booted
OnProbation == Confirmable /\ rec[booted] \in {"New", "PendingVerify"}

\* The write of Valid is reported as failed, or cut short; it may have landed.
FailedConfirm ==
    \E r \in AfterFailedWrite(booted, "Valid") : rec' = [rec EXCEPT ![booted] = r]

NoteConfirmed ==
    confirmed' = IF rec'[booted] = "Valid" /\ running > confirmed THEN running
                 ELSE confirmed

ConfirmRunningImage ==
    \/ \* a read of the partition table or of otadata fails
       ConfirmRead("disabled") /\ UNCHANGED <<rec, confirmed>>
    \/ /\ booted \in Slots /\ Selected # booted
       /\ ConfirmRead("disabled") /\ UNCHANGED <<rec, confirmed>>
    \/ /\ booted = Factory \/ (Confirmable /\ ~OnProbation)
       /\ ConfirmRead("idle") /\ UNCHANGED <<rec, confirmed>>
    \/ /\ OnProbation
       /\ \/ ConfirmRead("idle") /\ rec' = [rec EXCEPT ![booted] = "Valid"]
          \/ ConfirmRead("disabled") /\ FailedConfirm
       /\ NoteConfirmed

\* check_and_install up to the call of install_image.  The server answers with
\* any manifest; one that is not fetched, not accepted or locally ignored
\* leaves the task waiting for its next check.
CheckAndInstall ==
    /\ pc = "idle"
    /\ \E m \in Manifests, unread \in BOOLEAN :
        /\ VerifyManifest(m)
        /\ ~Suppressed(m.version, unread)
        /\ unread => m.version = Ignored    \* noted only where it decided
        /\ job' = [version |-> m.version, unread |-> unread]
    /\ pc' = "request"
    /\ UNCHANGED <<slotVars, bootVars, healthy, transfer, transferVars, history>>

\* Mutant: an error returns before TRANSFER_ACTIVE is lowered.
FailClosedEarly ==
    /\ pc' = "idle"
    /\ job' = NoJob
    /\ UNCHANGED <<transfer, transferVars>>

\* Err(()) out of install_image: the loop logs it and waits for the next check.
FailClosed ==
    /\ pc' = "idle"
    /\ job' = NoJob
    /\ NoTransfer

\* The image is requested, and the slot looked up that it will be written to.
RequestFor(slot) ==
    /\ pc = "request"
    /\ UNCHANGED <<slotVars, bootVars, healthy, history>>
    /\ \/ /\ pc' = "erase"
          /\ target' = slot
          /\ UNCHANGED <<transfer, job, chunk, downloaded, persisted>>
       \/ FailClosed

\* Mutants: the slot is worked out from otadata alone, or is the selected
\* partition of a device that runs its factory image.
RequestAfterSelected ==
    RequestFor(IF Selected = Factory THEN "ota_0" ELSE Other(Selected))
RequestWithoutDefault ==
    RequestFor(IF booted \in Slots THEN Other(booted) ELSE Selected)

RequestImage == RequestFor(NextSlot)

\* partition.erase over the whole slot, then TRANSFER_ACTIVE is raised.
EraseSlot ==
    /\ pc = "erase"
    /\ UNCHANGED <<rec, newer, bootVars, healthy, history>>
    /\ \/ /\ flash' = [flash EXCEPT ![target] = <<>>]
          /\ transfer' = TRUE
          /\ pc' = "receive"
          /\ UNCHANGED <<job, transferVars>>
       \/ /\ \E rest \in {flash[target], <<Garbage>>, <<>>} :
                 flash' = [flash EXCEPT ![target] = rest]
          /\ FailClosed

\* read_exact_body of one chunk; a short body or a chunk without the image
\* magic ends the transfer.
ReceiveChunk ==
    /\ pc = "receive"
    /\ UNCHANGED <<slotVars, bootVars, healthy, history>>
    /\ \/ /\ chunk' \in Tokens
          /\ downloaded' = Append(downloaded, chunk')
          /\ pc' = "store"
          /\ UNCHANGED <<transfer, job, target, persisted>>
       \/ FailClosed

\* partition.write, partition.read and the comparison.
StoreChunk ==
    /\ pc = "store"
    /\ UNCHANGED <<rec, newer, bootVars, healthy, history>>
    /\ \/ \E stored \in {chunk, Garbage} :
            /\ flash' = [flash EXCEPT ![target] = Append(@, stored)]
            /\ IF stored = chunk
               THEN /\ persisted' = Append(persisted, stored)
                    /\ pc' = IF Len(persisted') < NumChunks THEN "receive" ELSE "digest"
                    /\ UNCHANGED <<transfer, job, target, chunk, downloaded>>
               ELSE FailClosed
       \/ \* the write or the read back reports an error
          /\ \E rest \in {flash[target], Append(flash[target], Garbage),
                          Append(flash[target], chunk)} :
                 flash' = [flash EXCEPT ![target] = rest]
          /\ FailClosed

\* Mutant: an image that arrived whole is taken for the signed one.
CheckDigestsByLength ==
    /\ pc = "digest"
    /\ transfer' = FALSE
    /\ pc' = "activate"
    /\ UNCHANGED <<slotVars, bootVars, healthy, history, job, transferVars>>

\* Both digests against the signed one; TRANSFER_ACTIVE is lowered either way.
CheckDigests ==
    /\ pc = "digest"
    /\ transfer' = FALSE
    /\ UNCHANGED <<slotVars, bootVars, healthy, history>>
    /\ IF downloaded = Image(job.version) /\ persisted = Image(job.version)
       THEN pc' = "activate" /\ UNCHANGED <<job, transferVars>>
       ELSE FailClosed

\* The states activate_next_partition may leave in the record it writes.  What
\* it writes is not in the repository, and docs/ota.md only says that the slot is
\* then selected: any state that leaves it so, New among them.
Residuals ==
    {st \in ImageStates : SelectionSkipsRejected => st \notin Rejected}

\* activate_next_partition writes the record of the next slot with the higher
\* sequence number.
Activate ==
    /\ pc = "activate"
    /\ UNCHANGED <<flash, bootVars, healthy, confirmed>>
    /\ \E residual \in Residuals :
        \/ /\ rec' = [rec EXCEPT ![NextSlot] = residual]
           /\ newer' = NextSlot
           /\ pc' = "markNew"
           /\ UNCHANGED <<job, transfer, transferVars, strayed>>
        \/ /\ \E r \in AfterFailedWrite(NextSlot, residual) :
                /\ rec' = [rec EXCEPT ![NextSlot] = r]
                /\ newer' = IF r = residual THEN NextSlot ELSE newer
           /\ strayed' = TRUE
           /\ FailClosed

\* Mutant: an error of set_current_ota_state is not looked at.
MarkNewUnchecked ==
    /\ pc = "markNew"
    /\ UNCHANGED <<flash, newer, bootVars, healthy, history, job, transfer, transferVars>>
    /\ pc' = "reset"
    /\ \/ Selected \in Slots /\ rec' = [rec EXCEPT ![Selected] = "New"]
       \/ UNCHANGED rec

\* set_current_ota_state(New) on the record that is now selected.
MarkNew ==
    /\ pc = "markNew"
    /\ UNCHANGED <<flash, newer, bootVars, healthy, confirmed>>
    /\ \/ /\ Selected \in Slots
          /\ rec' = [rec EXCEPT ![Selected] = "New"]
          /\ pc' = "reset"
          /\ UNCHANGED <<job, transfer, transferVars, strayed>>
       \/ /\ IF Selected \in Slots
             THEN \E r \in AfterFailedWrite(Selected, "New") :
                      rec' = [rec EXCEPT ![Selected] = r]
             ELSE UNCHANGED rec
          /\ strayed' = TRUE
          /\ FailClosed

\* Everything in RAM is lost.
LoseRam ==
    /\ pc' = "off"
    /\ healthy' = FALSE
    /\ job' = NoJob
    /\ NoTransfer
    /\ UNCHANGED bootVars

SoftwareReset ==
    /\ pc = "reset"
    /\ LoseRam
    /\ UNCHANGED <<slotVars, history>>

\* Power is lost, or a panic or watchdog resets the chip: between two steps,
\* or inside the flash write the task is at.
PowerLoss ==
    /\ pc # "off"
    /\ LoseRam
    /\ UNCHANGED strayed
    /\ \/ UNCHANGED <<slotVars, confirmed>>
       \/ /\ pc = "waitHealth" /\ healthy /\ OnProbation
          /\ FailedConfirm /\ NoteConfirmed
          /\ UNCHANGED <<flash, newer>>
       \/ /\ pc = "erase"
          /\ flash' = [flash EXCEPT ![target] = <<Garbage>>]
          /\ UNCHANGED <<rec, newer, confirmed>>
       \/ /\ pc = "store"
          /\ flash' = [flash EXCEPT ![target] = Append(@, Garbage)]
          /\ UNCHANGED <<rec, newer, confirmed>>
       \/ /\ pc = "activate"
          /\ rec' = [rec EXCEPT ![NextSlot] = NoRecord]
          /\ UNCHANGED <<flash, newer, confirmed>>
       \/ /\ pc = "markNew" /\ Selected \in Slots
          /\ rec' = [rec EXCEPT ![Selected] = NoRecord]
          /\ UNCHANGED <<flash, newer, confirmed>>

\* The rollback bootloader: an image that was on probation and did not
\* confirm itself is aborted, the newest record that is not rejected wins, and
\* a New image goes on probation.  An image that does not verify is passed over
\* for any other that does.
Boot ==
    /\ pc = "off"
    /\ LET aborted == [s \in Slots |->
                         IF rec[s] = "PendingVerify" THEN "Aborted" ELSE rec[s]]
           choice == NewestOf({s \in Slots : aborted[s] \notin Rejected \cup {NoRecord}})
       IN /\ rec' = [s \in Slots |->
                       IF s = choice /\ aborted[s] = "New" THEN "PendingVerify"
                       ELSE aborted[s]]
          /\ booted' \in Slots \cup {Factory}
          /\ booted' \in Slots => IsImage(flash[booted'])
          /\ choice = Factory \/ IsImage(flash[choice]) => booted' = choice
    /\ running' = VersionAt(booted')
    /\ pc' = "start"
    /\ UNCHANGED <<flash, newer, healthy, job, transfer, transferVars, history>>

Next ==
    \/ StartTask \/ CameraFrame \/ ConfirmRunningImage
    \/ CheckAndInstall \/ RequestImage \/ EraseSlot
    \/ ReceiveChunk \/ StoreChunk \/ CheckDigests
    \/ Activate \/ MarkNew \/ SoftwareReset \/ PowerLoss \/ Boot

\* The executor polls the task whenever it is ready, every network read ends
\* within the TCP timeout and the chip comes up again after a reset, so no step
\* that can be taken waits for ever.
Fairness ==
    /\ WF_vars(Boot) /\ WF_vars(StartTask) /\ WF_vars(ConfirmRunningImage)
    /\ WF_vars(RequestImage) /\ WF_vars(EraseSlot)
    /\ WF_vars(ReceiveChunk) /\ WF_vars(StoreChunk) /\ WF_vars(CheckDigests)
    /\ WF_vars(Activate) /\ WF_vars(MarkNew) /\ WF_vars(SoftwareReset)

Spec == Init /\ [][Next]_vars /\ Fairness

\* A camera that works, and a server that offers a manifest again and again.
LiveSpec == Spec /\ WF_vars(CameraFrame) /\ WF_vars(CheckAndInstall)
-----------------------------------------------------------------------------
(* Properties                                                              *)

\* The partition the processor executes from holds, in full, the image it
\* booted: install_image never erases or writes the running slot, in whatever
\* order failed updates, rollbacks and power losses came before.
RunningImageIntact ==
    pc # "off" /\ booted \in Slots => flash[booted] = Image(running)

\* The slot holds, chunk for chunk, the release of the manifest that was
\* verified: newer than the running version, for the track, and not the ignored
\* one unless the journal could not be read.
VerifiedImage(s) ==
    /\ flash[s] = Image(job.version)
    /\ job.version > running
    /\ job.version \in StableVersions \/ Track = "prerelease"
    /\ job.version = Ignored => job.unread

\* The slot becomes the selected one by its own record, not because the record
\* of the other slot was torn or rejected.
GainsSelection(s) ==
    Selected # s /\ Selected' = s /\ rec'[Other(s)] = rec[Other(s)]

\* Otadata comes to select a slot only when that slot holds a verified image,
\* whatever chunks the server sent and the flash stored.
SelectsOnlyVerified ==
    [][ \A s \in Slots : GainsSelection(s) => VerifiedImage(s) ]_vars

\* A reset that install_image asked for boots an image on probation: the record
\* marked New is the one selected, and its slot is the one just verified.
ResetOnlyIntoProbation ==
    pc = "reset" => /\ Selected = target
                    /\ rec[target] = "New"
                    /\ VerifiedImage(target)

\* Once a version was confirmed healthy the device never again runs an older
\* one, as long as no selection write reported an error.
NeverBelowConfirmed ==
    strayed \/ running >= confirmed

\* An image still on probation never overwrites the image a rollback would
\* return to: its update checks start only once its own record left probation.
ProbationHoldsUpdates ==
    pc \notin {"off", "start", "waitHealth", "disabled"} /\ booted \in Slots
    => rec[booted] \notin {"New", "PendingVerify"}

\* HTTP is refused only for a time: whatever the server, the flash or the power
\* does to a transfer, TRANSFER_ACTIVE is lowered again.
TransferEnds == transfer ~> ~transfer

\* When power holds and the checks stop failing, the device ends up running a
\* version nothing on its track supersedes, unless OTA is disabled.
UndisturbedStep == /\ pc' = "off" => pc = "reset"
                   /\ pc' = "idle" => pc = "waitHealth"

UpToDate == /\ pc = "idle"
            /\ \A m \in Manifests : VerifyManifest(m) => m.version = Ignored

UpdateConverges ==
    <>[][UndisturbedStep]_vars => <>[](UpToDate \/ pc = "disabled")
=============================================================================
