--------------------------- MODULE OtaUpdateProofs ---------------------------
(***************************************************************************)
(* Proofs about OtaUpdate, for every set of versions, image length, track  *)
(* and ignored version, and for either behaviour of the selection; then    *)
(* about Firmware, whose OTA task it is, for any number of workers and     *)
(* buffers as well.                                                        *)
(***************************************************************************)
EXTENDS Firmware, TLAPS

(* There are two slots, and the other one is the other one. *)
LEMMA OtherSlot ==
    ASSUME NEW s \in Slots
    PROVE  /\ Other(s) \in Slots
           /\ Other(s) # s
           /\ \A t \in Slots : t = s \/ t = Other(s)
BY DEF Slots, Other

(* The winner of a set of records is one of the set, or the factory image. *)
LEMMA NewestOfSlots ==
    ASSUME newer \in Slots, NEW S \in SUBSET Slots
    PROVE  /\ NewestOf(S) \in Slots \cup {Factory}
           /\ S = {} <=> NewestOf(S) = Factory
           /\ S # {} => NewestOf(S) \in S
BY DEF NewestOf, Slots, Other, Factory

(* What the selection and the next partition can be. *)
LEMMA SelectedSlot ==
    ASSUME newer \in Slots
    PROVE  /\ Selected \in Slots \cup {Factory}
           /\ NextSlot \in Slots
           /\ NextSlot # booted
<1> DEFINE S == {s \in Recorded : SelectionSkipsRejected => rec[s] \notin Rejected}
<1>1. S \in SUBSET Slots
  BY DEF Recorded
<1>2. Selected \in Slots \cup {Factory}
  BY <1>1, NewestOfSlots DEF Selected
<1>3. NextSlot \in Slots /\ NextSlot # booted
  BY <1>2, OtherSlot DEF NextSlot, Slots, Factory
<1> QED
  BY <1>2, <1>3

(* An image is a sequence of chunks, and its first chunk names its version. *)
LEMMA ImageChunks ==
    ASSUME NEW v \in Versions
    PROVE  Image(v) \in Seq(Tokens) /\ Image(v)[1] = v
<1>1. NumChunks \in Nat /\ 1 \in 1..NumChunks
  BY DeviceAssumption
<1>2. Image(v) \in [1..NumChunks -> Tokens]
  BY DEF Image, Tokens
<1> QED
  BY <1>1, <1>2 DEF Image

(* Appending a chunk to a sequence of chunks. *)
LEMMA AppendType ==
    ASSUME NEW T, NEW seq \in Seq(T), NEW t \in T
    PROVE  Append(seq, t) \in Seq(T)
OBVIOUS

(* The values transfer state is cleared to. *)
LEMMA ClearedTypes ==
    /\ NoJob \in Jobs
    /\ Garbage \in Tokens
    /\ <<>> \in Seq(Tokens) /\ <<Garbage>> \in Seq(Tokens)
<1>1. NoJob \in Jobs
  BY DEF Jobs
<1>2. Garbage \in Tokens
  BY DEF Tokens
<1>3. \A T : \A t \in T : <<>> \in Seq(T) /\ <<t>> \in Seq(T)
  OBVIOUS
<1> QED
  BY <1>1, <1>2, <1>3
-----------------------------------------------------------------------------
(* What runs, without the fairness of the specification. *)
Steps == Init /\ [][Next]_vars

(* The types hold at the start. *)
LEMMA TypeInit == Init => TypeOK
BY VersionsAssumption, ClearedTypes DEF Init, TypeOK, Slots, Factory, PCs

(* No step leaves the types. *)
LEMMA TypeInductive == TypeOK /\ [Next]_vars => TypeOK'
<1> SUFFICES ASSUME TypeOK, [Next]_vars PROVE TypeOK'
  OBVIOUS
<1> USE DEF TypeOK
<1>a. /\ Selected \in Slots \cup {Factory}
      /\ NextSlot \in Slots
  BY SelectedSlot
<1>b. ASSUME FailClosed PROVE /\ pc' \in PCs /\ job' \in Jobs /\ transfer' \in BOOLEAN
                              /\ target' \in Slots /\ chunk' \in Tokens
                              /\ downloaded' \in Seq(Tokens) /\ persisted' \in Seq(Tokens)
  BY <1>b, ClearedTypes DEF FailClosed, NoTransfer, PCs, Slots
<1>1. CASE StartTask
  BY <1>1 DEF StartTask, slotVars, bootVars, transferVars, history, PCs
<1>2. CASE CameraFrame
  BY <1>2 DEF CameraFrame, slotVars, bootVars, transferVars, history
<1>3. CASE ConfirmRunningImage
  <2>1. PICK next \in {"disabled", "idle"} : ConfirmRead(next)
    BY <1>3 DEF ConfirmRunningImage
  <2>2. rec' \in [Slots -> ImageStates \cup {NoRecord}]
    BY <1>3, <2>1 DEF ConfirmRunningImage, ConfirmRead, FailedConfirm, AfterFailedWrite,
       ImageStates
  <2>3. confirmed' \in Versions \cup {NoVersion}
    BY <1>3 DEF ConfirmRunningImage, NoteConfirmed
  <2> QED
    BY <2>1, <2>2, <2>3 DEF ConfirmRead, bootVars, transferVars, PCs
<1>4. CASE CheckAndInstall
  BY <1>4 DEF CheckAndInstall, Manifests, Jobs, slotVars, bootVars, transferVars,
     history, PCs
<1>5. CASE RequestImage
  BY <1>5, <1>a, <1>b DEF RequestImage, RequestFor, slotVars, bootVars, history, PCs
<1>6. CASE EraseSlot
  <2>1. flash' \in [Slots -> Seq(Tokens)]
    BY <1>6, ClearedTypes DEF EraseSlot
  <2>2. CASE FailClosed
    BY <1>6, <2>2, <1>b, <2>1 DEF EraseSlot, bootVars, history
  <2>3. CASE UNCHANGED <<job, transferVars>> /\ transfer' = TRUE /\ pc' = "receive"
    BY <1>6, <2>3, <2>1 DEF EraseSlot, bootVars, transferVars, history, PCs
  <2> QED
    BY <1>6, <2>2, <2>3 DEF EraseSlot
<1>7. CASE ReceiveChunk
  <2>1. chunk' \in Tokens => Append(downloaded, chunk') \in Seq(Tokens)
    BY AppendType
  <2> QED
    BY <1>7, <1>b, <2>1 DEF ReceiveChunk, slotVars, bootVars, history, PCs
<1>8. CASE StoreChunk
  <2>1. /\ Append(flash[target], chunk) \in Seq(Tokens)
        /\ Append(flash[target], Garbage) \in Seq(Tokens)
        /\ Append(persisted, chunk) \in Seq(Tokens)
    BY ClearedTypes, AppendType
  <2>2. flash' \in [Slots -> Seq(Tokens)]
    <3>1. PICK content \in Seq(Tokens) : flash' = [flash EXCEPT ![target] = content]
      BY <1>8, <2>1 DEF StoreChunk
    <3> QED
      BY <3>1
  <2>3. persisted' \in Seq(Tokens) /\ pc' \in PCs
    BY <1>8, <1>b, <2>1 DEF StoreChunk, PCs
  <2>4. UNCHANGED <<transfer, job, target, chunk, downloaded>> \/ FailClosed
    BY <1>8 DEF StoreChunk
  <2> QED
    BY <1>8, <1>b, <2>2, <2>3, <2>4 DEF StoreChunk, bootVars, history
<1>9. CASE CheckDigests
  BY <1>9, <1>b DEF CheckDigests, slotVars, bootVars, transferVars, history, PCs
<1>10. CASE Activate
  <2>1. /\ rec' \in [Slots -> ImageStates \cup {NoRecord}]
        /\ newer' \in Slots
    BY <1>10, <1>a DEF Activate, AfterFailedWrite, Residuals
  <2> QED
    BY <1>10, <1>b, <2>1 DEF Activate, bootVars, transferVars, PCs
<1>11. CASE MarkNew
  <2>1. rec' \in [Slots -> ImageStates \cup {NoRecord}]
    BY <1>11, <1>a DEF MarkNew, AfterFailedWrite, ImageStates
  <2> QED
    BY <1>11, <1>b, <2>1 DEF MarkNew, bootVars, transferVars, PCs
<1>12. CASE SoftwareReset
  BY <1>12, ClearedTypes DEF SoftwareReset, LoseRam, NoTransfer, slotVars, bootVars,
     history, PCs, Slots
<1>13. CASE PowerLoss
  <2>1. rec' \in [Slots -> ImageStates \cup {NoRecord}] /\ newer' \in Slots
    BY <1>13, <1>a DEF PowerLoss, slotVars, FailedConfirm, AfterFailedWrite, ImageStates
  <2>2. flash' \in [Slots -> Seq(Tokens)]
    <3>1. Append(flash[target], Garbage) \in Seq(Tokens)
      BY ClearedTypes, AppendType
    <3> QED
      BY <1>13, <3>1, ClearedTypes DEF PowerLoss, slotVars
  <2>3. confirmed' \in Versions \cup {NoVersion}
    BY <1>13 DEF PowerLoss, NoteConfirmed
  <2> QED
    BY <1>13, <2>1, <2>2, <2>3, ClearedTypes DEF PowerLoss, LoseRam, NoTransfer, bootVars,
       PCs, Slots
<1>14. CASE Boot
  <2>1. booted' \in Slots \cup {Factory} /\ (booted' \in Slots => IsImage(flash[booted']))
    BY <1>14 DEF Boot
  <2>2. running' \in Versions
    BY <1>14, <2>1, ImageChunks, VersionsAssumption DEF Boot, IsImage, VersionAt
  <2>3. rec' \in [Slots -> ImageStates \cup {NoRecord}]
    BY <1>14 DEF Boot, ImageStates
  <2> QED
    BY <1>14, <2>1, <2>2, <2>3 DEF Boot, transferVars, history, PCs
<1>15. CASE UNCHANGED vars
  BY <1>15 DEF vars
<1> QED
  BY <1>1, <1>2, <1>3, <1>4, <1>5, <1>6, <1>7, <1>8, <1>9, <1>10, <1>11, <1>12,
     <1>13, <1>14, <1>15 DEF Next

(* Every variable keeps its type: in particular an update is only ever aimed *)
(* at an OTA slot, and a booted slot holds a release.                        *)
THEOREM TypeCorrect == Spec => []TypeOK
BY TypeInit, TypeInductive, PTL DEF Spec
-----------------------------------------------------------------------------
(***************************************************************************)
(* The inductive invariant.  None of the safety properties is inductive by *)
(* itself: that the running slot is not written rests on where the task    *)
(* aims, and that only a verified image is selected rests on the slot, the *)
(* read-back and the manifest staying in step through the chunk loop.      *)
(***************************************************************************)
Writing == {"erase", "receive", "store", "digest", "activate"}
Selecting == {"markNew", "reset"}

\* The task writes to the next partition, which stays the same meanwhile.
TargetIsNext == pc \in Writing => target = NextSlot

\* The manifest of the running job passed every check.
JobAccepted ==
    pc \in Writing \cup Selecting \cup {"request"} =>
        /\ job.version \in Versions
        /\ job.version > running
        /\ job.version \in StableVersions \/ Track = "prerelease"
        /\ job.version = Ignored => job.unread

\* What was hashed as it was read back is what the slot holds.
StoredIsPersisted ==
    pc \in {"receive", "store", "digest"} => flash[target] = persisted

\* A transfer starts with nothing hashed.
FreshHashers ==
    pc \notin Selecting \cup {"receive", "store", "digest", "activate"} =>
        persisted = <<>>

\* After the digests the slot holds the release of the manifest.
TargetVerified ==
    pc \in Selecting \cup {"activate"} => flash[target] = Image(job.version)

\* After the activation the record in force is the target's, and it is not the
\* record of the running slot.
TargetSelected ==
    /\ pc \in Selecting => Selected = target /\ target # booted
    /\ pc = "reset" => rec[target] = "New"

Inv ==
    /\ TypeOK
    /\ TargetIsNext
    /\ JobAccepted
    /\ FreshHashers
    /\ StoredIsPersisted
    /\ TargetVerified
    /\ TargetSelected
    /\ RunningImageIntact
    /\ ProbationHoldsUpdates

(* The selection and the next partition depend on otadata and the boot only. *)
LEMMA SelectionFrame ==
    ASSUME UNCHANGED <<rec, newer>>
    PROVE  /\ Selected' = Selected
           /\ UNCHANGED booted => NextSlot' = NextSlot
BY DEF Selected, NewestOf, Recorded, NextSlot

(* Outside an installation only the running slot matters. *)
LEMMA NotInstalling ==
    ASSUME pc' \in {"off", "start", "waitHealth", "idle", "disabled"}
    PROVE  /\ TargetIsNext'
           /\ JobAccepted'
           /\ StoredIsPersisted'
           /\ TargetVerified'
           /\ TargetSelected'
BY DEF TargetIsNext, JobAccepted, StoredIsPersisted, TargetVerified, TargetSelected,
   Writing, Selecting

(* A failed flash operation of the installation changes the target only. *)
LEMMA FailureKeepsRunning ==
    ASSUME TypeOK, Inv, FailClosed, pc # "off",
           UNCHANGED <<booted, running>>,
           booted \in Slots => /\ flash'[booted] = flash[booted]
                               /\ rec'[booted] = rec[booted],
           pc \notin {"start", "waitHealth", "disabled"}
    PROVE  /\ TargetIsNext' /\ JobAccepted' /\ StoredIsPersisted'
           /\ FreshHashers' /\ TargetVerified' /\ TargetSelected'
           /\ RunningImageIntact' /\ ProbationHoldsUpdates'
<1>1. pc' = "idle"
  BY DEF FailClosed
<1>2. RunningImageIntact' /\ ProbationHoldsUpdates'
  BY <1>1 DEF Inv, RunningImageIntact, ProbationHoldsUpdates
<1>3. FreshHashers'
  BY DEF FailClosed, NoTransfer, FreshHashers
<1> QED
  BY <1>1, <1>2, <1>3, NotInstalling

(* Inv is inductive. *)
LEMMA InvInductive == Inv /\ TypeOK' /\ [Next]_vars => Inv'
<1> SUFFICES ASSUME Inv, TypeOK', [Next]_vars PROVE Inv'
  OBVIOUS
<1> USE DEF Inv
<1>a. /\ Selected \in Slots \cup {Factory}
      /\ NextSlot \in Slots
      /\ NextSlot # booted
  BY SelectedSlot DEF TypeOK
<1>b. pc \in Writing => target \in Slots /\ target # booted
  BY <1>a DEF TargetIsNext
<1>1. CASE StartTask
  BY <1>1, NotInstalling DEF StartTask, slotVars, bootVars, transferVars,
     RunningImageIntact, ProbationHoldsUpdates, FreshHashers, Selecting
<1>2. CASE CameraFrame
  <2>1. UNCHANGED <<flash, rec, newer, booted, running, pc, job, target, chunk, persisted>>
    BY <1>2 DEF CameraFrame, slotVars, bootVars, transferVars
  <2> QED
    BY <2>1, SelectionFrame DEF TargetIsNext, JobAccepted, StoredIsPersisted, FreshHashers,
       TargetVerified, TargetSelected, RunningImageIntact, ProbationHoldsUpdates
<1>3. CASE ConfirmRunningImage
  <2>1. PICK next \in {"disabled", "idle"} : ConfirmRead(next)
    BY <1>3 DEF ConfirmRunningImage
  <2>2. RunningImageIntact' /\ FreshHashers'
    BY <2>1 DEF ConfirmRead, bootVars, transferVars, RunningImageIntact, FreshHashers, Selecting
  <2>3. ProbationHoldsUpdates'
    BY <1>3 DEF ConfirmRunningImage, ConfirmRead, OnProbation, Confirmable, bootVars, TypeOK,
       ProbationHoldsUpdates, Slots, Factory
  <2> QED
    BY <2>1, <2>2, <2>3, NotInstalling DEF ConfirmRead
<1>4. CASE CheckAndInstall
  <2>1. /\ UNCHANGED <<flash, rec, booted, running, persisted>>
        /\ pc = "idle" /\ pc' = "request"
    BY <1>4 DEF CheckAndInstall, slotVars, bootVars, transferVars
  <2>2. JobAccepted'
    BY <1>4, <2>1 DEF CheckAndInstall, Manifests, VerifyManifest, AcceptsVersion,
       Suppressed, JobAccepted
  <2> QED
    BY <2>1, <2>2 DEF TargetIsNext, StoredIsPersisted, FreshHashers, TargetVerified,
       TargetSelected, RunningImageIntact, ProbationHoldsUpdates, Writing, Selecting
<1>5. CASE RequestImage
  <2>1. UNCHANGED <<flash, rec, newer, booted, running>> /\ pc = "request"
    BY <1>5 DEF RequestImage, RequestFor, slotVars, bootVars
  <2>2. CASE FailClosed
    BY <2>1, <2>2, FailureKeepsRunning
  <2>3. CASE pc' = "erase" /\ target' = NextSlot /\ UNCHANGED <<job, persisted>>
    BY <2>1, <2>3, SelectionFrame DEF TargetIsNext, JobAccepted, StoredIsPersisted,
       FreshHashers, TargetVerified, TargetSelected, RunningImageIntact,
       ProbationHoldsUpdates, Writing, Selecting
  <2> QED
    BY <1>5, <2>2, <2>3 DEF RequestImage, RequestFor
<1>6. CASE EraseSlot
  <2>1. /\ UNCHANGED <<rec, newer, booted, running>> /\ pc = "erase"
        /\ booted \in Slots => flash'[booted] = flash[booted]
    BY <1>6, <1>b DEF EraseSlot, bootVars, TypeOK, Writing
  <2>2. CASE FailClosed
    BY <2>1, <2>2, FailureKeepsRunning
  <2>3. CASE /\ UNCHANGED <<job, target, persisted>> /\ pc' = "receive"
             /\ flash'[target] = <<>>
    BY <2>1, <2>3, SelectionFrame DEF TargetIsNext, JobAccepted, StoredIsPersisted,
       FreshHashers, TargetVerified, TargetSelected, RunningImageIntact,
       ProbationHoldsUpdates, Writing, Selecting
  <2> QED
    BY <1>6, <1>b, <2>2, <2>3 DEF EraseSlot, transferVars, TypeOK, Writing
<1>7. CASE ReceiveChunk
  <2>1. UNCHANGED <<flash, rec, newer, booted, running>> /\ pc = "receive"
    BY <1>7 DEF ReceiveChunk, slotVars, bootVars
  <2>2. CASE FailClosed
    BY <2>1, <2>2, FailureKeepsRunning
  <2>3. CASE UNCHANGED <<job, target, persisted>> /\ pc' = "store"
    BY <2>1, <2>3, SelectionFrame DEF TargetIsNext, JobAccepted, StoredIsPersisted,
       FreshHashers, TargetVerified, TargetSelected, RunningImageIntact,
       ProbationHoldsUpdates, Writing, Selecting
  <2> QED
    BY <1>7, <2>2, <2>3 DEF ReceiveChunk
<1>8. CASE StoreChunk
  <2>1. /\ UNCHANGED <<rec, newer, booted, running>> /\ pc = "store"
        /\ booted \in Slots => flash'[booted] = flash[booted]
    BY <1>8, <1>b DEF StoreChunk, bootVars, TypeOK, Writing
  <2>2. CASE FailClosed
    BY <2>1, <2>2, FailureKeepsRunning
  <2>3. CASE /\ UNCHANGED <<job, target>> /\ pc' \in {"receive", "digest"}
             /\ flash'[target] = persisted'
    BY <2>1, <2>3, SelectionFrame DEF TargetIsNext, JobAccepted, StoredIsPersisted,
       FreshHashers, TargetVerified, TargetSelected, RunningImageIntact,
       ProbationHoldsUpdates, Writing, Selecting
  <2>4. ASSUME NEW stored \in {chunk, Garbage}, ~FailClosed,
               flash' = [flash EXCEPT ![target] = Append(@, stored)],
               persisted' = Append(persisted, stored)
        PROVE  flash'[target] = persisted'
    BY <2>1, <2>4, <1>b DEF TypeOK, Writing, StoredIsPersisted
  <2> QED
    BY <1>8, <2>2, <2>3, <2>4 DEF StoreChunk
<1>9. CASE CheckDigests
  <2>1. UNCHANGED <<flash, rec, newer, booted, running>> /\ pc = "digest"
    BY <1>9 DEF CheckDigests, slotVars, bootVars
  <2>2. CASE FailClosed
    BY <2>1, <2>2, FailureKeepsRunning
  <2>3. CASE /\ persisted = Image(job.version) /\ pc' = "activate"
             /\ UNCHANGED <<job, target, persisted>>
    BY <2>1, <2>3, SelectionFrame DEF TargetIsNext, JobAccepted, StoredIsPersisted,
       FreshHashers, TargetVerified, TargetSelected, RunningImageIntact,
       ProbationHoldsUpdates, Writing, Selecting, Image
  <2> QED
    BY <1>9, <2>2, <2>3 DEF CheckDigests, transferVars
<1>10. CASE Activate
  <2>1. /\ UNCHANGED <<flash, booted, running>> /\ pc = "activate"
        /\ booted \in Slots => rec'[booted] = rec[booted]
    BY <1>10, <1>a DEF Activate, bootVars, TypeOK
  <2>2. CASE FailClosed
    BY <2>1, <2>2, FailureKeepsRunning
  <2>3. ASSUME NEW residual \in Residuals,
               rec' = [rec EXCEPT ![NextSlot] = residual], newer' = NextSlot
        PROVE  Selected' = NextSlot
    BY <2>3, <1>a DEF TypeOK, Selected, NewestOf, Recorded, Residuals, ImageStates, NoRecord
  <2>4. CASE Selected' = NextSlot /\ pc' = "markNew" /\ UNCHANGED <<job, target>>
    BY <1>a, <2>1, <2>4 DEF TargetIsNext, JobAccepted, StoredIsPersisted,
       FreshHashers, TargetVerified, TargetSelected, RunningImageIntact,
       ProbationHoldsUpdates, Writing, Selecting, Image
  <2> QED
    BY <1>10, <2>2, <2>3, <2>4 DEF Activate, transferVars
<1>11. CASE MarkNew
  <2>1. Selected = target /\ target # booted /\ target \in Slots
    BY <1>11 DEF MarkNew, TargetSelected, Selecting, TypeOK
  <2>2. /\ UNCHANGED <<flash, newer, booted, running>> /\ pc = "markNew"
        /\ booted \in Slots => rec'[booted] = rec[booted]
    BY <1>11, <2>1 DEF MarkNew, bootVars, TypeOK
  <2>3. CASE FailClosed
    BY <2>2, <2>3, FailureKeepsRunning
  <2>4. ASSUME rec' = [rec EXCEPT ![target] = "New"]
        PROVE  Selected' = target /\ rec'[target] = "New"
    BY <2>1, <2>2, <2>4 DEF TypeOK, Selected, NewestOf, Recorded, Rejected, NoRecord,
       Slots, Factory, Other
  <2>5. CASE /\ Selected' = target /\ rec'[target] = "New" /\ pc' = "reset"
             /\ UNCHANGED <<job, target>>
    BY <2>1, <2>2, <2>5 DEF TargetIsNext, JobAccepted, StoredIsPersisted,
       FreshHashers, TargetVerified, TargetSelected, RunningImageIntact,
       ProbationHoldsUpdates, Writing, Selecting, Image
  <2> QED
    BY <1>11, <2>1, <2>3, <2>4, <2>5 DEF MarkNew, transferVars
<1>12. CASE SoftwareReset
  BY <1>12, NotInstalling DEF SoftwareReset, LoseRam, NoTransfer, RunningImageIntact,
     ProbationHoldsUpdates, FreshHashers
<1>13. CASE PowerLoss
  BY <1>13, NotInstalling DEF PowerLoss, LoseRam, NoTransfer, RunningImageIntact,
     ProbationHoldsUpdates, FreshHashers
<1>14. CASE Boot
  <2>1. booted' \in Slots => flash[booted'] = Image(running')
    BY <1>14, ImageChunks DEF Boot, IsImage, VersionAt, Slots, Factory
  <2> QED
    BY <1>14, <2>1, NotInstalling DEF Boot, transferVars, RunningImageIntact,
       ProbationHoldsUpdates, FreshHashers, Selecting, Image
<1>15. CASE UNCHANGED vars
  BY <1>15, SelectionFrame DEF vars, TargetIsNext, JobAccepted, StoredIsPersisted,
     FreshHashers, TargetVerified, TargetSelected, RunningImageIntact,
     ProbationHoldsUpdates, Image
<1> QED
  BY <1>1, <1>2, <1>3, <1>4, <1>5, <1>6, <1>7, <1>8, <1>9, <1>10, <1>11, <1>12, <1>13,
     <1>14, <1>15 DEF Next

(* The inductive invariant holds at the start. *)
LEMMA InvInit == Init => Inv
BY TypeInit DEF Init, Inv, TargetIsNext, JobAccepted, StoredIsPersisted, FreshHashers,
   TargetVerified, TargetSelected, RunningImageIntact, ProbationHoldsUpdates, Writing,
   Selecting, Slots, Factory

(* The inductive invariant holds in every state the steps reach. *)
LEMMA StepsKeepInv == Steps => []Inv
<1>1. Inv /\ [Next]_vars => TypeOK'
  BY TypeInductive DEF Inv
<1> QED
  BY <1>1, InvInit, InvInductive, PTL DEF Steps

(* The inductive invariant holds in every reachable state. *)
THEOREM InvHolds == Spec => []Inv
BY StepsKeepInv, PTL DEF Spec, Steps

(* Whatever fails, the running slot is never erased or written: for every     *)
(* number of chunks and versions, and any order of updates and power losses.  *)
THEOREM RunningImageSafe == Spec => []RunningImageIntact
BY InvHolds, PTL DEF Inv

(* No update starts from an image on probation, so the image a rollback       *)
(* returns to is not overwritten before the new one is confirmed.             *)
THEOREM ProbationSafe == Spec => []ProbationHoldsUpdates
BY InvHolds, PTL DEF Inv

(* What the invariant says of a reset.                                        *)
LEMMA InvResets == Inv => ResetOnlyIntoProbation
BY DEF Inv, ResetOnlyIntoProbation, VerifiedImage, TargetSelected, TargetVerified,
   JobAccepted, Selecting

(* A reset the installation asks for boots the verified image, on probation.  *)
THEOREM ResetSafe == Spec => []ResetOnlyIntoProbation
BY InvResets, InvHolds, PTL

(* A record that is lost or rejected never selects another slot by itself.    *)
LEMMA GainNeedsOwnRecord ==
    ASSUME TypeOK, TypeOK', NEW s \in Slots, GainsSelection(s),
           UNCHANGED newer
    PROVE  /\ rec'[s] # NoRecord
           /\ SelectionSkipsRejected => rec'[s] \notin Rejected
           /\ rec[s] # NoRecord => SelectionSkipsRejected /\ rec[s] \in Rejected
BY OtherSlot DEF GainsSelection, Selected, NewestOf, Recorded, TypeOK, Slots, Factory, Other

(* The slot a step comes to select holds the image of the manifest that was   *)
(* verified.                                                                  *)
LEMMA SelectionStep ==
    Inv /\ TypeOK' /\ [Next]_vars =>
        [\A s \in Slots : GainsSelection(s) => VerifiedImage(s)]_vars
<1> SUFFICES ASSUME Inv, TypeOK', [Next]_vars, NEW s \in Slots, GainsSelection(s)
             PROVE  VerifiedImage(s)
  OBVIOUS
<1> USE DEF Inv
<1>a. Selected \in Slots \cup {Factory} /\ NextSlot \in Slots
  BY SelectedSlot DEF TypeOK
<1>b. ~UNCHANGED <<rec, newer>>
  BY SelectionFrame DEF GainsSelection
<1>c. /\ Other(s) \in Slots /\ rec'[Other(s)] = rec[Other(s)]
      /\ Selected # s /\ Selected' = s
      /\ \A t \in Slots : t = s \/ t = Other(s)
  BY OtherSlot DEF GainsSelection
<1>d. UNCHANGED newer => rec'[s] # rec[s]
  <2> SUFFICES ASSUME rec'[s] = rec[s], UNCHANGED newer PROVE FALSE
    OBVIOUS
  <2>1. rec' = rec
    <3>1. \A t \in Slots : rec'[t] = rec[t]
      BY <1>c
    <3> QED
      BY <3>1 DEF TypeOK
  <2> QED
    BY <2>1, <1>b
<1>e. UNCHANGED newer /\ rec[s] \notin Rejected => rec'[s] # NoRecord /\ rec[s] = NoRecord
  BY GainNeedsOwnRecord
<1>1. CASE ConfirmRunningImage
  <2>1. UNCHANGED newer /\ (UNCHANGED rec \/ (Selected = booted /\ booted \in Slots))
    BY <1>1 DEF ConfirmRunningImage, ConfirmRead, OnProbation, Confirmable
  <2>2. \A t \in Slots : t # booted => rec'[t] = rec[t]
    BY <1>1 DEF ConfirmRunningImage, FailedConfirm, TypeOK
  <2> QED
    BY <1>c, <1>d, <2>1, <2>2
<1>2. CASE Activate
  <2>1. \A t \in Slots : t # NextSlot => rec'[t] = rec[t]
    BY <1>2 DEF Activate, TypeOK
  <2>2. newer' \in {newer, NextSlot} /\ pc = "activate"
    BY <1>2 DEF Activate
  <2>3. CASE s = NextSlot
    BY <2>2, <2>3 DEF TargetIsNext, TargetVerified, JobAccepted, VerifiedImage, Writing,
       Selecting
  <2>4. CASE s = Other(NextSlot)
    <3>1. rec' = rec
      BY <1>a, <1>c, <2>1, <2>4, OtherSlot DEF TypeOK
    <3>2. newer' = NextSlot
      BY <1>d, <2>2, <3>1
    <3> QED
      BY <1>a, <1>c, <2>4, <3>1, <3>2 DEF Selected, NewestOf, Recorded, Slots, Factory,
         Other, TypeOK
  <2> QED
    BY <1>a, <1>c, <2>3, <2>4, OtherSlot
<1>3. CASE MarkNew
  <2>1. UNCHANGED newer /\ (Selected \notin Slots => UNCHANGED rec)
    BY <1>3 DEF MarkNew
  <2>2. \A t \in Slots : t # Selected => rec'[t] = rec[t]
    BY <1>3 DEF MarkNew, TypeOK
  <2> QED
    BY <1>c, <1>d, <2>1, <2>2
<1>4. CASE PowerLoss
  <2>1. UNCHANGED newer
    BY <1>4 DEF PowerLoss, slotVars
  <2>2. rec'[s] # NoRecord /\ rec'[s] # rec[s]
    BY <2>1, <1>d, GainNeedsOwnRecord
  <2>3. \/ UNCHANGED rec
        \/ /\ Selected = booted
           /\ \A t \in Slots : t # booted => rec'[t] = rec[t]
        \/ rec' = [rec EXCEPT ![NextSlot] = NoRecord]
        \/ rec' = [rec EXCEPT ![Selected] = NoRecord]
    BY <1>4 DEF PowerLoss, slotVars, OnProbation, Confirmable, FailedConfirm, TypeOK
  <2> QED
    BY <1>a, <1>c, <2>2, <2>3 DEF TypeOK
<1>5. CASE Boot
  <2>1. /\ UNCHANGED newer
        /\ rec'[s] # rec[s] => rec[s] \in {"PendingVerify", "New"}
    BY <1>5 DEF Boot
  <2> QED
    BY <1>d, <1>e, <2>1 DEF Rejected, NoRecord
<1> QED
  BY <1>b, <1>1, <1>2, <1>3, <1>4, <1>5 DEF Next, vars, StartTask, CameraFrame,
     CheckAndInstall, RequestImage, RequestFor, EraseSlot, ReceiveChunk, StoreChunk, CheckDigests,
     SoftwareReset, slotVars

(* The slot otadata comes to select holds the image of the manifest that was  *)
(* verified, chunk for chunk.                                                 *)
THEOREM SelectionSafe == Spec => SelectsOnlyVerified
BY SelectionStep, InvHolds, TypeCorrect, PTL DEF Spec, SelectsOnlyVerified
-----------------------------------------------------------------------------
(***************************************************************************)
(* Never below what was confirmed.  The version that runs is not enough to *)
(* go on: a power loss may end a probation or tear any record being        *)
(* written, so that what the next boot chooses, and what it would fall     *)
(* back on behind a New record, hold a version that is new enough, too.    *)
(***************************************************************************)

\* The records a boot starts from without putting the image on probation.
Working == {"Valid", "Undefined"}

\* The slots a boot chooses among, once it has aborted a probation.
Bootable == {s \in Slots : rec[s] \notin {"PendingVerify", NoRecord} \cup Rejected}
BootChoice == NewestOf(Bootable)

KeepsConfirmed(s) == \E v \in Versions : flash[s] = Image(v) /\ v >= confirmed

Updating == {"idle", "request"} \cup Writing

\* What a boot does next is as new as what was confirmed: on the slot it
\* chooses, and on the other one if the choice would be on probation.
BootKept ==
    /\ BootChoice \in Slots /\ KeepsConfirmed(BootChoice)
    /\ rec[BootChoice] = "New" =>
           rec[Other(BootChoice)] \in Working /\ KeepsConfirmed(Other(BootChoice))

\* The slot that runs has a record that a boot starts from, or is on probation
\* until the confirmation.
RunningKept ==
    /\ running >= confirmed
    /\ pc # "off" => booted \in Slots
    /\ pc \in {"start", "waitHealth"} => rec[booted] \in Working \cup {"PendingVerify"}
    /\ pc \in Updating \cup Selecting => rec[booted] \in Working
    /\ pc \in {"start", "waitHealth"} \cup Updating /\ rec[booted] \in Working =>
           BootChoice = booted

ConfirmedKept == ~strayed /\ confirmed # NoVersion => BootKept /\ RunningKept

(* Versions compare as numbers. *)
LEMMA VersionsAreNat ==
    ASSUME NEW v \in Versions \cup {NoVersion}
    PROVE  v \in Nat
BY VersionsAssumption DEF NoVersion

(* The winner has the newer record or the only one, before and after a step.   *)
LEMMA ChoiceIs ==
    ASSUME newer \in Slots, newer' \in Slots, NEW s \in Slots
    PROVE  /\ BootChoice = s <=> s \in Bootable /\ (newer = s \/ Other(s) \notin Bootable)
           /\ BootChoice' = s <=> s \in Bootable' /\ (newer' = s \/ Other(s) \notin Bootable')
           /\ Selected = s =>
                  /\ rec[s] # NoRecord /\ (SelectionSkipsRejected => rec[s] \notin Rejected)
                  /\ newer = s \/ Other(s) \notin Bootable
           /\ BootChoice \in Bootable \cup {Factory}
<1>1. Bootable \in SUBSET Slots /\ Bootable' \in SUBSET Slots /\ Factory \notin Slots
  BY DEF Bootable, Slots, Factory
<1>2. /\ Other(s) \in Slots /\ Other(s) # s /\ Other(Other(s)) = s
      /\ \A t \in Slots : t = s \/ t = Other(s)
  BY DEF Slots, Other
<1>3. BootChoice = s <=> s \in Bootable /\ (newer = s \/ Other(s) \notin Bootable)
  BY <1>1, <1>2 DEF BootChoice, NewestOf
<1>4. BootChoice' = s <=> s \in Bootable' /\ (newer' = s \/ Other(s) \notin Bootable')
  BY <1>1, <1>2 DEF BootChoice, NewestOf
<1>5. Selected = s =>
          /\ rec[s] # NoRecord /\ (SelectionSkipsRejected => rec[s] \notin Rejected)
          /\ newer = s \/ Other(s) \notin Bootable
  BY <1>1, <1>2 DEF Selected, NewestOf, Recorded, Bootable
<1>6. BootChoice \in Bootable \cup {Factory}
  BY <1>1, NewestOfSlots DEF BootChoice
<1> QED
  BY <1>3, <1>4, <1>5, <1>6

(* A step that touches neither flash nor otadata and only ends, resets or waits. *)
LEMMA QuietStepKeeps ==
    ASSUME ConfirmedKept, pc # "off",
           UNCHANGED <<flash, rec, newer, booted, running, confirmed, strayed>>,
           pc' \in {pc, "off", "disabled"} \/ (pc = "start" /\ pc' = "waitHealth")
    PROVE  ConfirmedKept'
<1> SUFFICES ASSUME ~strayed, confirmed # NoVersion
             PROVE  BootKept' /\ RunningKept'
  BY DEF ConfirmedKept
<1>1. BootKept /\ RunningKept
  BY DEF ConfirmedKept
<1>2. Bootable' = Bootable /\ BootChoice' = BootChoice
  BY DEF Bootable, BootChoice, NewestOf
<1>3. BootKept'
  BY <1>1, <1>2 DEF BootKept, KeepsConfirmed, Image
<1>4. RunningKept'
  BY <1>1, <1>2 DEF RunningKept, Updating, Writing, Selecting
<1> QED
  BY <1>3, <1>4

(* An update up to its digests writes the slot that a boot would not choose.    *)
LEMMA UpdatingKeeps ==
    ASSUME ConfirmedKept, pc \in Updating, pc' \in Updating,
           UNCHANGED <<rec, newer, booted, running, confirmed, strayed>>,
           booted \in Slots => flash'[booted] = flash[booted]
    PROVE  ConfirmedKept'
<1> SUFFICES ASSUME ~strayed, confirmed # NoVersion
             PROVE  BootKept' /\ RunningKept'
  BY DEF ConfirmedKept
<1>1. BootKept /\ RunningKept
  BY DEF ConfirmedKept
<1>2. Bootable' = Bootable /\ BootChoice' = BootChoice
  BY DEF Bootable, BootChoice, NewestOf
<1>3. booted \in Slots /\ rec[booted] \in Working /\ BootChoice = booted
  BY <1>1 DEF RunningKept, Updating, Writing
<1>4. BootKept'
  BY <1>1, <1>2, <1>3 DEF BootKept, KeepsConfirmed, Working, Image
<1>5. RunningKept'
  BY <1>1, <1>2, <1>3 DEF RunningKept, Updating, Writing, Selecting
<1> QED
  BY <1>4, <1>5

(* The write of a confirmation, torn, finished without an answer or not begun,  *)
(* leaves the choice to the fallback or makes it the slot that runs.         *)
LEMMA UnconfirmedKeeps ==
    ASSUME Inv, ConfirmedKept, pc = "waitHealth", Confirmable, pc' \in {"off", "disabled"},
           rec[booted] \in {"New", "PendingVerify"},
           NEW r \in AfterFailedWrite(booted, "Valid"),
           rec' = [rec EXCEPT ![booted] = r],
           UNCHANGED <<flash, newer, booted, running, confirmed, strayed>>
    PROVE  ConfirmedKept'
<1> SUFFICES ASSUME ~strayed, confirmed # NoVersion
             PROVE  BootKept' /\ RunningKept'
  BY DEF ConfirmedKept
<1>1. BootKept /\ RunningKept
  BY DEF ConfirmedKept
<1>2. /\ booted \in Slots /\ Selected = booted /\ newer \in Slots /\ newer' \in Slots
      /\ rec \in [Slots -> ImageStates \cup {NoRecord}]
  BY DEF Confirmable, Inv, TypeOK
<1>3. rec[booted] = "PendingVerify"
  BY <1>1 DEF RunningKept, Working
<1>4. /\ Other(booted) \in Slots /\ Other(booted) # booted
      /\ \A t \in Slots : t = booted \/ t = Other(booted)
  BY <1>2, OtherSlot
<1>5. /\ rec'[booted] = r /\ rec'[Other(booted)] = rec[Other(booted)]
      /\ r \in {"PendingVerify", NoRecord, "Valid"}
  BY <1>2, <1>3, <1>4 DEF AfterFailedWrite
<1>6. RunningKept'
  BY <1>1, <1>2 DEF RunningKept, Updating, Writing, Selecting
<1>7. CASE r = "Valid"
  <2>1. booted \in Bootable'
    BY <1>2, <1>5, <1>7 DEF Bootable, Rejected, NoRecord
  <2>2. newer = booted \/ Other(booted) \notin Bootable
    BY <1>2, ChoiceIs
  <2>3. BootChoice' = booted
    <3>1. Other(booted) \notin Bootable => Other(booted) \notin Bootable'
      BY <1>5 DEF Bootable
    <3> QED
      BY <1>2, <2>1, <2>2, <3>1, ChoiceIs
  <2>4. flash[booted] = Image(running) /\ running \in Versions
    BY <1>2 DEF Inv, RunningImageIntact, TypeOK
  <2>5. KeepsConfirmed(booted)'
    BY <1>1, <2>4 DEF KeepsConfirmed, RunningKept, Image
  <2> QED
    BY <1>2, <1>5, <1>6, <1>7, <2>3, <2>5 DEF BootKept, KeepsConfirmed
<1>8. CASE r # "Valid"
  <2>1. Bootable' = Bootable /\ booted \notin Bootable
    BY <1>2, <1>3, <1>4, <1>5, <1>8 DEF Bootable
  <2>2. BootChoice' = BootChoice
    BY <2>1 DEF BootChoice, NewestOf
  <2>3. BootChoice = Other(booted)
    BY <1>1, <1>2, <1>4, <2>1, ChoiceIs DEF BootKept
  <2>4. rec[BootChoice] # "New"
    <3>1. Other(Other(booted)) = booted
      BY <1>2 DEF Slots, Other
    <3> QED
      BY <1>1, <1>3, <2>3, <3>1 DEF BootKept, Working
  <2>5. rec'[BootChoice'] # "New" /\ BootChoice' \in Slots /\ KeepsConfirmed(BootChoice)
    BY <1>1, <1>5, <2>2, <2>3, <2>4 DEF BootKept
  <2>6. KeepsConfirmed(BootChoice)'
    BY <2>2, <2>5 DEF KeepsConfirmed, Image
  <2> QED
    BY <1>6, <2>5, <2>6 DEF BootKept
<1> QED
  BY <1>7, <1>8

(* A record written Valid, reported or not, makes the slot that runs the one a  *)
(* boot chooses.                                                              *)
LEMMA LandedConfirmKeeps ==
    ASSUME Inv, ConfirmedKept, pc = "waitHealth", OnProbation, NoteConfirmed,
           pc' \in {"off", "idle", "disabled"}, newer' \in Slots,
           rec' = [rec EXCEPT ![booted] = "Valid"],
           UNCHANGED <<flash, newer, booted, running, strayed>>
    PROVE  ConfirmedKept'
<1> SUFFICES ASSUME ~strayed
             PROVE  BootKept' /\ RunningKept'
  BY DEF ConfirmedKept
<1>1. /\ booted \in Slots /\ Selected = booted /\ newer \in Slots
      /\ rec \in [Slots -> ImageStates \cup {NoRecord}]
      /\ running \in Versions /\ confirmed \in Versions \cup {NoVersion}
  BY DEF OnProbation, Confirmable, Inv, TypeOK
<1>2. /\ Other(booted) \in Slots /\ Other(booted) # booted
  BY <1>1, OtherSlot
<1>3. rec'[booted] = "Valid" /\ rec'[Other(booted)] = rec[Other(booted)]
  BY <1>1, <1>2
<1>4. BootChoice' = booted
  <2>1. booted \in Bootable'
    BY <1>1, <1>3 DEF Bootable, Rejected, NoRecord
  <2>2. newer = booted \/ Other(booted) \notin Bootable
    BY <1>1, ChoiceIs
  <2>3. Other(booted) \notin Bootable => Other(booted) \notin Bootable'
    BY <1>3 DEF Bootable
  <2> QED
    BY <1>1, <2>1, <2>2, <2>3, ChoiceIs
<1>5. running >= confirmed'
  <2>1. running \in Nat /\ confirmed \in Nat
    BY <1>1, VersionsAreNat
  <2>2. running >= confirmed
    BY <2>1 DEF ConfirmedKept, RunningKept, NoVersion
  <2> QED
    BY <2>1, <2>2 DEF NoteConfirmed
<1>6. flash[booted] = Image(running)
  BY <1>1 DEF Inv, RunningImageIntact
<1>7. KeepsConfirmed(booted)'
  BY <1>1, <1>5, <1>6 DEF KeepsConfirmed, Image
<1>8. BootKept'
  BY <1>1, <1>3, <1>4, <1>7 DEF BootKept, KeepsConfirmed
<1>9. RunningKept'
  BY <1>1, <1>3, <1>4, <1>5 DEF RunningKept, Working, Updating, Writing, Selecting
<1> QED
  BY <1>8, <1>9

(* A confirmation that is cut short or reported as failed.                      *)
LEMMA FailedConfirmKeeps ==
    ASSUME Inv, ConfirmedKept, pc = "waitHealth", OnProbation, NoteConfirmed,
           pc' \in {"off", "disabled"}, newer' \in Slots, FailedConfirm,
           UNCHANGED <<flash, newer, booted, running, strayed>>
    PROVE  ConfirmedKept'
<1>1. booted \in Slots /\ rec[booted] \in {"New", "PendingVerify"}
  BY DEF OnProbation, Confirmable
<1>2. PICK r \in AfterFailedWrite(booted, "Valid") : rec' = [rec EXCEPT ![booted] = r]
  BY DEF FailedConfirm
<1>3. CASE r = "Valid"
  BY <1>2, <1>3, LandedConfirmKeeps
<1>4. CASE r # "Valid"
  <2>1. rec'[booted] # "Valid"
    BY <1>1, <1>2, <1>4 DEF Inv, TypeOK
  <2>2. UNCHANGED confirmed
    BY <2>1 DEF NoteConfirmed
  <2> QED
    BY <1>1, <1>2, <1>4, <2>2, UnconfirmedKeeps DEF OnProbation
<1> QED
  BY <1>3, <1>4

(* A confirmation makes the slot that runs the one a boot chooses.             *)
LEMMA ConfirmKeeps ==
    ASSUME Inv, ConfirmedKept, ConfirmRunningImage, TypeOK'
    PROVE  ConfirmedKept'
<1>1. pc = "waitHealth" /\ UNCHANGED <<flash, newer, booted, running, strayed>>
  BY DEF ConfirmRunningImage, ConfirmRead, bootVars
<1>2. CASE pc' = "disabled" /\ UNCHANGED <<rec, confirmed>>
  BY <1>1, <1>2, QuietStepKeeps
<1>3. CASE /\ booted = Factory \/ (Confirmable /\ ~OnProbation)
           /\ pc' = "idle" /\ UNCHANGED <<rec, confirmed>>
  <2> SUFFICES ASSUME ~strayed, confirmed # NoVersion
               PROVE  BootKept' /\ RunningKept'
    BY <1>1, <1>3 DEF ConfirmedKept
  <2>1. BootKept /\ RunningKept
    BY DEF ConfirmedKept
  <2>2. Bootable' = Bootable /\ BootChoice' = BootChoice
    BY <1>1, <1>3 DEF Bootable, BootChoice, NewestOf
  <2>3. booted \in Slots /\ rec[booted] \in Working /\ BootChoice = booted
    BY <1>1, <1>3, <2>1 DEF RunningKept, OnProbation, Slots, Factory
  <2>4. BootKept'
    BY <1>1, <1>3, <2>1, <2>2 DEF BootKept, KeepsConfirmed, Image
  <2>5. RunningKept'
    BY <1>1, <1>3, <2>1, <2>2, <2>3 DEF RunningKept, Updating, Writing, Selecting
  <2> QED
    BY <2>4, <2>5
<1>4. CASE OnProbation /\ NoteConfirmed /\ pc' = "idle"
           /\ rec' = [rec EXCEPT ![booted] = "Valid"]
  BY <1>1, <1>4, LandedConfirmKeeps DEF TypeOK
<1>5. CASE OnProbation /\ NoteConfirmed /\ pc' = "disabled" /\ FailedConfirm
  BY <1>1, <1>5, FailedConfirmKeeps DEF TypeOK
<1> QED
  BY <1>2, <1>3, <1>4, <1>5 DEF ConfirmRunningImage, ConfirmRead

(* An activation may make the target the choice of the next boot, with the      *)
(* running slot to fall back on.                                              *)
LEMMA ActivateKeeps ==
    ASSUME Inv, TypeOK', ConfirmedKept, Activate
    PROVE  ConfirmedKept'
<1> SUFFICES ASSUME ~strayed', confirmed' # NoVersion
             PROVE  BootKept' /\ RunningKept'
  BY DEF ConfirmedKept
<1>1. PICK residual \in Residuals :
          /\ rec' = [rec EXCEPT ![NextSlot] = residual]
          /\ newer' = NextSlot /\ pc' = "markNew" /\ pc = "activate"
          /\ UNCHANGED <<flash, booted, running, confirmed, strayed, job, target>>
  BY DEF Activate, bootVars, transferVars
<1>2. BootKept /\ RunningKept
  BY <1>1 DEF ConfirmedKept
<1>3. /\ booted \in Slots /\ rec[booted] \in Working
      /\ target \in Slots /\ target = NextSlot /\ target = Other(booted) /\ target # booted
      /\ Other(target) = booted
      /\ newer \in Slots /\ newer' \in Slots
      /\ rec \in [Slots -> ImageStates \cup {NoRecord}]
  <2>1. booted \in Slots /\ rec[booted] \in Working /\ target = NextSlot
    BY <1>1, <1>2 DEF RunningKept, Updating, Writing, Inv, TargetIsNext
  <2>2. NextSlot = Other(booted)
    BY <2>1 DEF NextSlot
  <2> QED
    BY <2>1, <2>2 DEF Inv, TypeOK, Slots, Other
<1>4. rec'[target] = residual /\ rec'[booted] = rec[booted] /\ newer' = target
  BY <1>1, <1>3
<1>5. /\ flash[booted] = Image(running) /\ running \in Versions
      /\ flash[target] = Image(job.version) /\ job.version \in Versions
      /\ job.version > running
  BY <1>1, <1>3 DEF Inv, TypeOK, RunningImageIntact, TargetVerified, JobAccepted, Writing,
     Selecting
<1>6. running >= confirmed /\ job.version >= confirmed
  <2>1. running >= confirmed
    BY <1>2 DEF RunningKept
  <2>2. running \in Nat /\ confirmed \in Nat /\ job.version \in Nat
    <3>1. confirmed \in Versions \cup {NoVersion}
      BY DEF Inv, TypeOK
    <3> QED
      BY <1>5, <3>1, VersionsAreNat
  <2> QED
    BY <1>5, <2>1, <2>2
<1>7. KeepsConfirmed(booted)' /\ KeepsConfirmed(target)'
  BY <1>1, <1>5, <1>6 DEF KeepsConfirmed, Image
<1>8. booted \in Bootable'
  BY <1>3, <1>4 DEF Bootable, Working, Rejected, NoRecord
<1>9. BootChoice' \in {booted, target}
  <2>1. target \in Bootable' => BootChoice' = target
    BY <1>3, <1>4, ChoiceIs
  <2>2. target \notin Bootable' => BootChoice' = booted
    BY <1>3, <1>8, ChoiceIs
  <2> QED
    BY <2>1, <2>2
<1>10. BootKept'
  <2>1. CASE BootChoice' = booted
    <3>1. rec'[booted] # "New"
      BY <1>3, <1>4 DEF Working
    <3> QED
      BY <1>1, <1>3, <1>7, <2>1, <3>1 DEF BootKept, KeepsConfirmed
  <2>2. CASE BootChoice' = target
    BY <1>1, <1>3, <1>4, <1>7, <2>2 DEF BootKept, KeepsConfirmed, Working
  <2> QED
    BY <1>9, <2>1, <2>2
<1>11. RunningKept'
  BY <1>1, <1>3, <1>4, <1>6 DEF RunningKept, Updating, Writing
<1> QED
  BY <1>10, <1>11

(* Marking the target leaves the running slot behind it.                       *)
LEMMA MarkNewKeeps ==
    ASSUME Inv, TypeOK', ConfirmedKept, MarkNew
    PROVE  ConfirmedKept'
<1> SUFFICES ASSUME ~strayed', confirmed' # NoVersion
             PROVE  BootKept' /\ RunningKept'
  BY DEF ConfirmedKept
<1>1. /\ rec' = [rec EXCEPT ![target] = "New"]
      /\ pc' = "reset" /\ pc = "markNew"
      /\ UNCHANGED <<newer, flash, booted, running, confirmed, strayed, job, target>>
  BY DEF MarkNew, bootVars, transferVars, Inv, TargetSelected, Selecting
<1>2. BootKept /\ RunningKept
  BY <1>1 DEF ConfirmedKept
<1>3. /\ booted \in Slots /\ rec[booted] \in Working
      /\ target \in Slots /\ target # booted /\ Selected = target
      /\ Other(target) = booted
      /\ newer \in Slots /\ newer' \in Slots
      /\ rec \in [Slots -> ImageStates \cup {NoRecord}]
  <2>1. booted \in Slots /\ rec[booted] \in Working /\ Selected = target /\ target # booted
    BY <1>1, <1>2 DEF RunningKept, Selecting, Inv, TargetSelected
  <2> QED
    BY <2>1 DEF Inv, TypeOK, Slots, Other
<1>4. rec'[target] = "New" /\ rec'[booted] = rec[booted]
  BY <1>1, <1>3
<1>5. /\ flash[booted] = Image(running) /\ running \in Versions
      /\ flash[target] = Image(job.version) /\ job.version \in Versions
      /\ job.version > running
  BY <1>1, <1>3 DEF Inv, TypeOK, RunningImageIntact, TargetVerified, JobAccepted, Selecting
<1>6. running >= confirmed /\ job.version >= confirmed
  <2>1. running >= confirmed
    BY <1>2 DEF RunningKept
  <2>2. running \in Nat /\ confirmed \in Nat /\ job.version \in Nat
    <3>1. confirmed \in Versions \cup {NoVersion}
      BY DEF Inv, TypeOK
    <3> QED
      BY <1>5, <3>1, VersionsAreNat
  <2> QED
    BY <1>5, <2>1, <2>2
<1>7. KeepsConfirmed(booted)' /\ KeepsConfirmed(target)'
  BY <1>1, <1>5, <1>6 DEF KeepsConfirmed, Image
<1>8. BootChoice' = target
  <2>1. target \in Bootable'
    BY <1>3, <1>4 DEF Bootable, Rejected, NoRecord
  <2>2. newer = target
    <3>1. booted \in Bootable
      BY <1>3 DEF Bootable, Working, Rejected, NoRecord
    <3> QED
      BY <1>3, <3>1, ChoiceIs
  <2> QED
    BY <1>1, <1>3, <2>1, <2>2, ChoiceIs
<1>9. BootKept'
  BY <1>1, <1>3, <1>4, <1>7, <1>8 DEF BootKept, KeepsConfirmed
<1>10. RunningKept'
  BY <1>1, <1>3, <1>4, <1>6 DEF RunningKept, Updating, Writing
<1> QED
  BY <1>9, <1>10

(* Power that fails inside a flash write leaves the running slot to be chosen,  *)
(* or what it would have fallen back on.                                      *)
LEMMA PowerLossKeeps ==
    ASSUME Inv, TypeOK', ConfirmedKept, PowerLoss
    PROVE  ConfirmedKept'
<1>1. /\ pc # "off" /\ pc' = "off"
      /\ UNCHANGED <<booted, running, strayed>>
  BY DEF PowerLoss, LoseRam, bootVars
<1>2. CASE UNCHANGED <<slotVars, confirmed>>
  BY <1>1, <1>2, QuietStepKeeps DEF slotVars
<1>3. CASE pc = "waitHealth" /\ OnProbation /\ FailedConfirm /\ NoteConfirmed
           /\ UNCHANGED <<flash, newer>>
  BY <1>1, <1>3, FailedConfirmKeeps DEF TypeOK
<1>4. CASE /\ pc \in {"erase", "store", "activate", "markNew"}
           /\ flash' = flash \/ \E content : flash' = [flash EXCEPT ![target] = content]
           /\ rec' = rec \/ rec' = [rec EXCEPT ![target] = NoRecord]
           /\ pc = "markNew" => flash' = flash /\ rec' = [rec EXCEPT ![target] = NoRecord]
           /\ UNCHANGED <<newer, confirmed>>
  <2> SUFFICES ASSUME ~strayed, confirmed # NoVersion
               PROVE  BootKept' /\ RunningKept'
    BY <1>1, <1>4 DEF ConfirmedKept
  <2>1. BootKept /\ RunningKept
    BY DEF ConfirmedKept
  <2>2. /\ booted \in Slots /\ rec[booted] \in Working
        /\ target \in Slots /\ target # booted
        /\ Other(booted) = target
        /\ newer \in Slots /\ newer' \in Slots
        /\ rec \in [Slots -> ImageStates \cup {NoRecord}]
        /\ flash \in [Slots -> Seq(Tokens)]
    <3>1. booted \in Slots /\ rec[booted] \in Working
      BY <1>4, <2>1 DEF RunningKept, Updating, Writing, Selecting
    <3>2. target # booted
      BY <1>4, SelectedSlot DEF Inv, TypeOK, TargetIsNext, TargetSelected, Writing, Selecting
    <3> QED
      BY <1>4, <3>1, <3>2 DEF Inv, TypeOK, Slots, Other
  <2>3. rec'[booted] = rec[booted] /\ flash'[booted] = flash[booted]
        /\ rec'[target] \in {rec[target], NoRecord}
    BY <1>4, <2>2
  <2>4. BootChoice' = booted
    <3>1. booted \in Bootable'
      BY <2>2, <2>3 DEF Bootable, Working, Rejected, NoRecord
    <3>2. CASE pc = "markNew"
      <4>1. target \notin Bootable'
        BY <1>4, <2>2, <3>2 DEF Bootable
      <4> QED
        BY <2>2, <3>1, <4>1, ChoiceIs
    <3>3. CASE pc # "markNew"
      <4>1. BootChoice = booted
        BY <1>4, <2>1, <2>2, <3>3 DEF RunningKept, Updating, Writing
      <4>2. newer = booted \/ target \notin Bootable
        BY <2>2, <4>1, ChoiceIs
      <4>3. target \notin Bootable => target \notin Bootable'
        BY <2>3 DEF Bootable
      <4> QED
        BY <1>4, <2>2, <3>1, <4>2, <4>3, ChoiceIs
    <3> QED
      BY <3>2, <3>3
  <2>5. KeepsConfirmed(booted)'
    <3>1. flash[booted] = Image(running) /\ running \in Versions /\ running >= confirmed
      BY <1>1, <2>1, <2>2 DEF Inv, TypeOK, RunningImageIntact, RunningKept
    <3> QED
      BY <1>1, <1>4, <2>3, <3>1 DEF KeepsConfirmed, Image
  <2>6. BootKept'
    BY <1>1, <2>2, <2>3, <2>4, <2>5 DEF BootKept, KeepsConfirmed, Working
  <2>7. RunningKept'
    BY <1>1, <1>4, <2>1 DEF RunningKept, Updating, Writing, Selecting
  <2> QED
    BY <2>6, <2>7
<1>5. pc = "activate" => NextSlot = target
  BY DEF Inv, TargetIsNext, Writing
<1>6. pc = "markNew" => Selected = target
  BY DEF Inv, TargetSelected, Selecting
<1> QED
  BY <1>2, <1>3, <1>4, <1>5, <1>6 DEF PowerLoss

(* A boot starts what it chooses, and what it would choose after an unconfirmed *)
(* probation is as new as what was confirmed.                                 *)
LEMMA BootKeeps ==
    ASSUME Inv, TypeOK', ConfirmedKept, Boot
    PROVE  ConfirmedKept'
<1> SUFFICES ASSUME ~strayed, confirmed # NoVersion
             PROVE  BootKept' /\ RunningKept'
  BY DEF ConfirmedKept, Boot, history
<1> DEFINE aborted == [s \in Slots |-> IF rec[s] = "PendingVerify" THEN "Aborted" ELSE rec[s]]
           choice == NewestOf({s \in Slots : aborted[s] \notin Rejected \cup {NoRecord}})
<1>1. BootKept /\ RunningKept
  BY DEF ConfirmedKept
<1>2. choice = BootChoice
  <2>1. {s \in Slots : aborted[s] \notin Rejected \cup {NoRecord}} = Bootable
    BY DEF Bootable, Rejected, NoRecord
  <2> QED
    BY <2>1 DEF BootChoice
<1>3. /\ rec' = [s \in Slots |-> IF s = choice /\ aborted[s] = "New" THEN "PendingVerify"
                                 ELSE aborted[s]]
      /\ choice = Factory \/ IsImage(flash[choice]) => booted' = choice
      /\ running' = VersionAt(booted') /\ pc' = "start"
      /\ UNCHANGED <<flash, newer, confirmed, strayed>>
  BY DEF Boot, history
<1>4. \A s \in Slots : aborted[s] = IF rec[s] = "PendingVerify" THEN "Aborted" ELSE rec[s]
  OBVIOUS
<1> HIDE DEF aborted, choice
<1>5. PICK v \in Versions : flash[BootChoice] = Image(v) /\ v >= confirmed
  BY <1>1 DEF BootKept, KeepsConfirmed
<1>6. booted' = BootChoice /\ booted' \in Slots
  BY <1>1, <1>2, <1>3, <1>5 DEF IsImage, BootKept
<1>7. running' = v
  BY <1>3, <1>5, <1>6, ImageChunks DEF VersionAt, Slots, Factory
<1>8. /\ newer \in Slots /\ newer' \in Slots
      /\ rec \in [Slots -> ImageStates \cup {NoRecord}]
  BY DEF Inv, TypeOK
<1> DEFINE B == BootChoice
           O == Other(BootChoice)
<1>9. /\ B \in Slots /\ O \in Slots /\ O # B /\ Other(O) = B
      /\ \A s \in Slots : s = B \/ s = O
      /\ B \in Bootable
  <2>1. B \in Slots /\ O \in Slots /\ O # B /\ Other(O) = B /\ \A s \in Slots : s = B \/ s = O
    BY <1>1 DEF BootKept, Slots, Other
  <2>2. B \in Bootable
    BY <1>8, <2>1, ChoiceIs
  <2> QED
    BY <2>1, <2>2
<1>10. rec[B] \in Working \cup {"New"}
  BY <1>8, <1>9 DEF Bootable, Working, ImageStates, Rejected
<1>11. /\ rec'[B] = IF rec[B] = "New" THEN "PendingVerify" ELSE rec[B]
       /\ rec'[O] = IF rec[O] = "PendingVerify" THEN "Aborted" ELSE rec[O]
  BY <1>2, <1>3, <1>4, <1>9, <1>10 DEF Working
<1>12. \A s : KeepsConfirmed(s)' <=> KeepsConfirmed(s)
  BY <1>3 DEF KeepsConfirmed, Image
<1>13. CASE rec[B] = "New"
  <2>1. rec[O] \in Working /\ KeepsConfirmed(O)
    BY <1>1, <1>13 DEF BootKept
  <2>2. rec'[O] = rec[O] /\ rec'[B] = "PendingVerify"
    BY <1>11, <1>13, <2>1 DEF Working
  <2>3. O \in Bootable' /\ B \notin Bootable'
    BY <1>9, <2>1, <2>2 DEF Bootable, Working, Rejected, NoRecord
  <2>4. BootChoice' = O
    BY <1>8, <1>9, <2>3, ChoiceIs
  <2>5. BootKept'
    <3>1. KeepsConfirmed(BootChoice)' /\ BootChoice' \in Slots
      BY <1>3, <1>9, <2>1, <2>4 DEF KeepsConfirmed, Image
    <3>2. rec'[BootChoice'] # "New"
      BY <2>1, <2>2, <2>4 DEF Working
    <3> QED
      BY <3>1, <3>2 DEF BootKept
  <2>6. RunningKept'
    BY <1>3, <1>5, <1>6, <1>7, <2>2 DEF RunningKept, Working, Updating, Writing, Selecting
  <2> QED
    BY <2>5, <2>6
<1>14. CASE rec[B] # "New"
  <2>1. rec[B] \in Working /\ rec'[B] = rec[B]
    BY <1>10, <1>11, <1>14
  <2>2. B \in Bootable' /\ (O \notin Bootable => O \notin Bootable')
    BY <1>9, <1>11, <2>1 DEF Bootable, Working, Rejected, NoRecord
  <2>3. BootChoice' = B
    <3>1. newer = B \/ O \notin Bootable
      BY <1>8, <1>9, ChoiceIs
    <3> QED
      BY <1>3, <1>8, <1>9, <2>2, <3>1, ChoiceIs
  <2>4. BootKept'
    <3>1. KeepsConfirmed(BootChoice)' /\ BootChoice' \in Slots
      BY <1>3, <1>5, <1>9, <2>3 DEF KeepsConfirmed, Image
    <3>2. rec'[BootChoice'] # "New"
      BY <2>1, <2>3 DEF Working
    <3> QED
      BY <3>1, <3>2 DEF BootKept
  <2>5. RunningKept'
    BY <1>3, <1>5, <1>6, <1>7, <2>1, <2>3 DEF RunningKept, Updating, Writing, Selecting
  <2> QED
    BY <2>4, <2>5
<1> QED
  BY <1>13, <1>14

(* ConfirmedKept is inductive, given the invariant of the installation.         *)
LEMMA ConfirmedInductive ==
    ASSUME Inv, TypeOK', ConfirmedKept, [Next]_vars
    PROVE  ConfirmedKept'
<1>1. CASE StartTask \/ CameraFrame \/ SoftwareReset \/ UNCHANGED vars
  <2>1. UNCHANGED <<flash, rec, newer, booted, running, confirmed, strayed>>
    BY <1>1 DEF StartTask, CameraFrame, SoftwareReset, LoseRam, slotVars, bootVars, history, vars
  <2>2. CASE pc # "off"
    <3>1. pc' \in {pc, "off", "disabled"} \/ (pc = "start" /\ pc' = "waitHealth")
      BY <1>1 DEF StartTask, CameraFrame, SoftwareReset, LoseRam, vars
    <3> QED
      BY <2>1, <2>2, <3>1, QuietStepKeeps
  <2>3. CASE pc = "off"
    <3>1. UNCHANGED vars
      BY <1>1, <2>3 DEF StartTask, CameraFrame, SoftwareReset
    <3> QED
      BY <3>1 DEF vars, ConfirmedKept, BootKept, RunningKept, KeepsConfirmed, Image, BootChoice,
         NewestOf, Bootable
  <2> QED
    BY <2>2, <2>3
<1>2. CASE CheckAndInstall \/ RequestImage \/ EraseSlot \/ ReceiveChunk \/ StoreChunk
           \/ CheckDigests
  <2>1. UNCHANGED <<rec, newer, booted, running, confirmed, strayed>>
    BY <1>2 DEF CheckAndInstall, RequestImage, RequestFor, EraseSlot, ReceiveChunk, StoreChunk,
       CheckDigests, slotVars, bootVars, history
  <2>2. pc \in Updating /\ pc' \in Updating
    BY <1>2 DEF CheckAndInstall, RequestImage, RequestFor, EraseSlot, ReceiveChunk, StoreChunk,
       CheckDigests, FailClosed, Updating, Writing
  <2>3. booted \in Slots => flash'[booted] = flash[booted]
    <3>1. CASE EraseSlot \/ StoreChunk
      <4>1. target \in Slots /\ target # booted
        BY <3>1, SelectedSlot DEF EraseSlot, StoreChunk, Inv, TypeOK, TargetIsNext, Writing
      <4>2. \E content : flash' = [flash EXCEPT ![target] = content]
        BY <3>1 DEF EraseSlot, StoreChunk
      <4> QED
        BY <4>1, <4>2 DEF Inv, TypeOK
    <3>2. CASE ~(EraseSlot \/ StoreChunk)
      BY <1>2, <3>2 DEF CheckAndInstall, RequestImage, RequestFor, ReceiveChunk, CheckDigests,
         slotVars
    <3> QED
      BY <3>1, <3>2
  <2> QED
    BY <2>1, <2>2, <2>3, UpdatingKeeps
<1> QED
  BY <1>1, <1>2, ConfirmKeeps, ActivateKeeps, MarkNewKeeps, PowerLossKeeps, BootKeeps DEF Next

(* A device that keeps to what was confirmed runs nothing older.                 *)
LEMMA ConfirmedSuffices == Inv /\ ConfirmedKept => NeverBelowConfirmed
<1> SUFFICES ASSUME Inv, ConfirmedKept, ~strayed
             PROVE  running >= confirmed
  BY DEF NeverBelowConfirmed, Inv, TypeOK
<1>1. CASE confirmed = NoVersion
  <2>1. running \in Nat
    BY VersionsAreNat DEF Inv, TypeOK
  <2> QED
    BY <1>1, <2>1 DEF NoVersion
<1>2. CASE confirmed # NoVersion
  BY <1>2 DEF ConfirmedKept, RunningKept
<1> QED
  BY <1>1, <1>2

(* What was confirmed is kept by the steps.                                      *)
LEMMA StepsKeepConfirmed == Steps => []NeverBelowConfirmed
<1>1. Init => ConfirmedKept
  BY DEF Init, ConfirmedKept
<1>2. Inv /\ Inv' /\ ConfirmedKept /\ [Next]_vars => ConfirmedKept'
  BY ConfirmedInductive DEF Inv
<1> QED
  BY <1>1, <1>2, ConfirmedSuffices, StepsKeepInv, PTL DEF Steps

(* Once a version was confirmed the device never runs an older one, whatever     *)
(* power losses, torn records and rollbacks come, as long as no write of the  *)
(* selection reported an error.                                              *)
THEOREM ConfirmedSafe == Spec => []NeverBelowConfirmed
BY StepsKeepConfirmed, PTL DEF Spec, Steps
-----------------------------------------------------------------------------
(***************************************************************************)
(* The composition.  The steps of the whole firmware are steps of the OTA  *)
(* task or leave it alone, so that everything proved of the task holds of  *)
(* it with the camera, the workers and main() around it.                   *)
(***************************************************************************)

(* A worker leaves the transfer alone.                                           *)
LEMMA WorkersKeepTransfer ==
    ASSUME NEW w \in Workers, Http!Worker(w)
    PROVE  transfer' = transfer
<1>1. CASE Http!OwnStep(w)
  BY <1>1 DEF Http!OwnStep, Http!Close, Http!MjpegLoop, Http!MjpegTimeout,
     Http!SnapshotTimeout, Http!AudioLoop, Http!AudioTimeout
<1>2. CASE Http!ClientStep(w)
  BY <1>2 DEF Http!ClientStep, Http!Reply, Http!MjpegHeaders, Http!MjpegWritten,
     Http!SnapshotWritten, Http!AudioHeaders, Http!AudioWritten
<1>3. CASE \/ Http!Accept(w) \/ Http!ReadRequest(w)
           \/ Http!MjpegFrame(w) \/ Http!SnapshotFrame(w) \/ Http!AudioChunk(w)
  BY <1>3 DEF Http!Accept, Http!ReadRequest, Http!MjpegFrame, Http!SnapshotFrame,
     Http!AudioChunk, Http!TakeFrame
<1> QED
  BY <1>1, <1>2, <1>3 DEF Http!Worker

(* What leaves the variables of the OTA task alone stutters for it.              *)
LEMMA OtaStutter == UNCHANGED <<otaVars, transfer>> => UNCHANGED vars
BY DEF otaVars, slotVars, bootVars, transferVars, history, vars

(* Every step of the firmware is a step of the OTA task or leaves it alone.      *)
LEMMA FirmwareStep == [FirmwareNext]_firmwareVars => [Next]_vars
<1> SUFFICES ASSUME [FirmwareNext]_firmwareVars PROVE Next \/ UNCHANGED vars
  OBVIOUS
<1>1. CASE CheckLayout \/ SpawnTasks
  BY <1>1, OtaStutter DEF CheckLayout, SpawnTasks, Halt
<1>2. CASE StartCamera
  BY <1>2, OtaStutter DEF StartCamera, Halt, Http!StartCamera
<1>3. CASE CompleteFrame
  BY <1>3 DEF CompleteFrame, Next
<1>4. CASE CaptureAudio
  BY <1>4, OtaStutter DEF CaptureAudio, Http!CaptureAudio
<1>5. ASSUME NEW w \in Workers, Serve(w) PROVE UNCHANGED vars
  BY <1>5, WorkersKeepTransfer, OtaStutter DEF Serve
<1>6. CASE CheckForUpdate \/ UpdateStep
  BY <1>6 DEF CheckForUpdate, UpdateStep, Next
<1>7. CASE ResetTasks \/ LosePower \/ Start
  BY <1>7 DEF ResetTasks, LosePower, Start, Next
<1>8. CASE UNCHANGED firmwareVars
  BY <1>8, OtaStutter DEF firmwareVars
<1> QED
  BY <1>1, <1>2, <1>3, <1>4, <1>5, <1>6, <1>7, <1>8 DEF FirmwareNext

(* The firmware implements the OTA task: every behavior of it is one of OtaUpdate, *)
(* fairness aside.                                                            *)
THEOREM FirmwareRunsOta == FirmwareSpec => Steps
BY FirmwareStep, PTL DEF FirmwareSpec, FirmwareInit, Steps

(* With the camera, the workers and main() around it, and whatever halts them,   *)
(* the OTA task still never touches the running slot, never starts an update  *)
(* from an image on probation, selects and resets into verified images only,  *)
(* and never falls behind what was confirmed.                                 *)
THEOREM UpdateSafeInFirmware ==
    FirmwareSpec =>
        /\ []RunningImageIntact
        /\ []ProbationHoldsUpdates
        /\ []ResetOnlyIntoProbation
        /\ []NeverBelowConfirmed
        /\ SelectsOnlyVerified
<1>1. Inv => RunningImageIntact /\ ProbationHoldsUpdates /\ TypeOK
  BY DEF Inv
<1>2. Steps => SelectsOnlyVerified
  BY <1>1, SelectionStep, StepsKeepInv, PTL DEF Steps, SelectsOnlyVerified
<1> QED
  BY <1>1, <1>2, FirmwareRunsOta, InvResets, StepsKeepInv, StepsKeepConfirmed, PTL
-----------------------------------------------------------------------------
(***************************************************************************)
(* Health is earned.  CAMERA_HEALTHY outlives the frame that raised it, so *)
(* the state has to remember that a frame was completed in this boot and   *)
(* that main() got as far as the tasks: a task that halts does so before   *)
(* its camera has a buffer, and a camera that completed a frame keeps one, *)
(* because the pool hands out buffers and the workers give theirs back.    *)
(***************************************************************************)

\* Where the buffers are.
PoolTypes ==
    /\ empty \subseteq Buffers
    /\ ready \in Seq(Buffers)
    /\ camera \in Buffers \cup {NoBuffer}
    /\ held \in [Workers -> Buffers \cup {NoBuffer}]
    /\ httpPc \in [Workers -> Http!PCs]
    /\ frames \in Nat

\* A worker that writes a frame has the frame it gives back.
WritersHoldFrames ==
    \A w \in Workers : httpPc[w] \in {"mjpegWrite", "snapWrite"} => held[w] # NoBuffer

\* A camera that completed a frame has a buffer to write to.
FramesNeedCamera == frames > 0 => camera # NoBuffer

\* Health is known of this boot only, after a frame and from the tasks.
HealthKnown == healthy => pc # "off" /\ stage = "tasks" /\ frames > 0

HealthInv ==
    /\ PoolTypes
    /\ WritersHoldFrames
    /\ FramesNeedCamera
    /\ HealthKnown

(* Nothing happened yet.                                                         *)
LEMMA HealthInit == FirmwareInit => HealthInv
BY DEF FirmwareInit, Init, Http!Init, HealthInv, PoolTypes, WritersHoldFrames,
   FramesNeedCamera, HealthKnown, Http!PCs

(* A buffer taken from the empty ones is a buffer.                               *)
LEMMA TakenBuffer ==
    ASSUME PoolTypes, Http!TakeEmpty
    PROVE  camera' \in Buffers /\ empty' \subseteq Buffers
BY DEF PoolTypes, Http!TakeEmpty

(* A frame that is taken from the ready ones leaves ready ones behind.           *)
LEMMA ReadyQueue ==
    ASSUME NEW T, NEW q \in Seq(T)
    PROVE  /\ q # <<>> => Head(q) \in T /\ Tail(q) \in Seq(T)
           /\ \A t \in T : Append(q, t) \in Seq(T)
OBVIOUS

(* A completed frame leaves the camera with a buffer.                            *)
LEMMA CompletedFrame ==
    ASSUME HealthInv, CompleteFrame
    PROVE  HealthInv'
<1>1. /\ pc # "off" /\ stage = "tasks" /\ camera # NoBuffer
      /\ frames' = frames + 1
      /\ UNCHANGED <<stage, pc, held, httpPc>>
  BY DEF CompleteFrame, Running, CameraFrame, Http!EndOfImage, Http!poolVars
<1>2. /\ camera \in Buffers /\ empty \subseteq Buffers /\ ready \in Seq(Buffers)
      /\ frames \in Nat
  BY <1>1 DEF HealthInv, PoolTypes
<1>3. ASSUME NEW rest \in Seq(Buffers), Http!SendReady(rest, camera)
      PROVE  ready' \in Seq(Buffers)
  BY <1>2, <1>3, ReadyQueue DEF Http!SendReady
<1>4. empty' \subseteq Buffers /\ ready' \in Seq(Buffers) /\ camera' \in Buffers
  <2>1. CASE Http!TakeEmpty /\ Http!SendReady(ready, camera)
    BY <1>2, <1>3, <2>1, TakenBuffer DEF HealthInv
  <2>2. CASE /\ ready # <<>> /\ camera' = Head(ready)
             /\ Http!SendReady(Tail(ready), camera) /\ UNCHANGED empty
    BY <1>2, <1>3, <2>2, ReadyQueue
  <2>3. CASE UNCHANGED <<empty, ready, camera>>
    BY <1>2, <2>3
  <2> QED
    BY <2>1, <2>2, <2>3 DEF CompleteFrame, Http!EndOfImage, Http!Publish
<1>5. PoolTypes' /\ WritersHoldFrames'
  BY <1>1, <1>2, <1>4 DEF HealthInv, PoolTypes, WritersHoldFrames
<1>6. frames' > 0 /\ camera' # NoBuffer
  BY <1>1, <1>2, <1>4, BufferAssumption
<1> QED
  BY <1>1, <1>5, <1>6 DEF HealthInv, FramesNeedCamera, HealthKnown

(* A worker gives back what it took, and keeps what it writes.                   *)
LEMMA ServedClient ==
    ASSUME HealthInv, NEW w \in Workers, Serve(w)
    PROVE  HealthInv'
<1>1. UNCHANGED <<stage, pc, healthy>> /\ Http!Worker(w)
  BY DEF Serve, otaVars
<1>2. /\ empty \subseteq Buffers /\ ready \in Seq(Buffers)
      /\ held \in [Workers -> Buffers \cup {NoBuffer}]
      /\ httpPc \in [Workers -> Http!PCs]
  BY DEF HealthInv, PoolTypes
<1>3. ASSUME NEW label, Http!Goto(w, label), label \in Http!PCs,
             label \notin {"mjpegWrite", "snapWrite"} \/ held'[w] # NoBuffer,
             held' \in [Workers -> Buffers \cup {NoBuffer}],
             \A v \in Workers \ {w} : held'[v] = held[v]
      PROVE  httpPc' \in [Workers -> Http!PCs] /\ WritersHoldFrames'
  BY <1>2, <1>3 DEF Http!Goto, HealthInv, WritersHoldFrames
<1>4. /\ PoolTypes' /\ WritersHoldFrames'
      /\ UNCHANGED <<camera, frames>>
  <2>1. ASSUME UNCHANGED Http!poolVars, NEW label \in Http!PCs, Http!Goto(w, label),
               label \notin {"mjpegWrite", "snapWrite"}
        PROVE  PoolTypes' /\ WritersHoldFrames' /\ UNCHANGED <<camera, frames>>
    BY <1>2, <1>3, <2>1 DEF Http!poolVars, HealthInv, PoolTypes
  <2>2. ASSUME Http!ReturnFrame(w), NEW label \in Http!PCs, Http!Goto(w, label),
               label \notin {"mjpegWrite", "snapWrite"},
               httpPc[w] \in {"mjpegWrite", "snapWrite"}
        PROVE  PoolTypes' /\ WritersHoldFrames' /\ UNCHANGED <<camera, frames>>
    <3>1. held[w] \in Buffers
      BY <1>2, <2>2 DEF HealthInv, WritersHoldFrames
    <3>2. /\ UNCHANGED <<ready, camera, frames>>
          /\ empty' \in {empty, empty \cup {held[w]}}
          /\ held' = [held EXCEPT ![w] = NoBuffer]
      BY <2>2 DEF Http!ReturnFrame
    <3>3. httpPc' \in [Workers -> Http!PCs] /\ WritersHoldFrames'
      BY <1>2, <1>3, <2>2, <3>2
    <3> QED
      BY <1>2, <3>1, <3>2, <3>3 DEF HealthInv, PoolTypes
  <2>3. ASSUME NEW label \in {"mjpegWrite", "snapWrite"}, Http!TakeFrame(w, label)
        PROVE  PoolTypes' /\ WritersHoldFrames' /\ UNCHANGED <<camera, frames>>
    <3>1. /\ Head(ready) \in Buffers /\ ready' = Tail(ready)
          /\ held' = [held EXCEPT ![w] = Head(ready)]
          /\ UNCHANGED <<empty, camera, frames>>
          /\ Http!Goto(w, label)
      BY <1>2, <2>3, ReadyQueue DEF Http!TakeFrame
    <3>2. ready' \in Seq(Buffers)
      BY <1>2, <2>3, <3>1, ReadyQueue DEF Http!TakeFrame
    <3>3. httpPc' \in [Workers -> Http!PCs] /\ WritersHoldFrames'
      BY <1>2, <1>3, <3>1, BufferAssumption DEF Http!PCs, Http!MjpegPCs
    <3> QED
      BY <1>2, <3>1, <3>2, <3>3 DEF HealthInv, PoolTypes
  <2> DEFINE quiet == Http!PCs \ {"mjpegWrite", "snapWrite"}
  <2>4. CASE \/ Http!Close(w) \/ Http!MjpegLoop(w) \/ Http!MjpegTimeout(w)
             \/ Http!SnapshotTimeout(w) \/ Http!AudioLoop(w) \/ Http!AudioTimeout(w)
    <3>1. UNCHANGED Http!poolVars /\ \E label \in quiet : Http!Goto(w, label)
      BY <2>4 DEF Http!Close, Http!MjpegLoop, Http!MjpegTimeout, Http!SnapshotTimeout,
         Http!AudioLoop, Http!AudioTimeout, Http!LeaveAudio, Http!PCs, Http!MjpegPCs,
         Http!AudioPCs
    <3> QED
      BY <2>1, <3>1
  <2>5. CASE Http!Reply(w) \/ Http!MjpegHeaders(w) \/ Http!AudioHeaders(w) \/ Http!AudioWritten(w)
    <3>1. UNCHANGED Http!poolVars /\ \E label \in quiet : Http!Goto(w, label)
      BY <2>5 DEF Http!Reply, Http!MjpegHeaders, Http!AudioHeaders, Http!AudioWritten,
         Http!LeaveAudio, Http!PCs, Http!MjpegPCs, Http!AudioPCs
    <3> QED
      BY <2>1, <3>1
  <2>6. CASE Http!MjpegWritten(w) \/ Http!SnapshotWritten(w)
    <3>1. /\ Http!ReturnFrame(w) /\ httpPc[w] \in {"mjpegWrite", "snapWrite"}
          /\ \E label \in quiet : Http!Goto(w, label)
      BY <2>6 DEF Http!MjpegWritten, Http!SnapshotWritten, Http!PCs, Http!MjpegPCs
    <3> QED
      BY <2>2, <3>1
  <2>7. CASE Http!Accept(w) \/ Http!ReadRequest(w) \/ Http!AudioChunk(w)
    <3>1. UNCHANGED Http!poolVars /\ \E label \in Http!PCs : Http!Goto(w, label)
                                       /\ label \notin {"mjpegWrite", "snapWrite"}
      BY <2>7 DEF Http!Accept, Http!ReadRequest, Http!AudioChunk, Http!PCs,
         Http!MjpegPCs, Http!AudioPCs
    <3> QED
      BY <2>1, <3>1
  <2>8. CASE Http!MjpegFrame(w) \/ Http!SnapshotFrame(w)
    BY <2>3, <2>8 DEF Http!MjpegFrame, Http!SnapshotFrame
  <2> QED
    BY <1>1, <2>4, <2>5, <2>6, <2>7, <2>8 DEF Http!Worker, Http!OwnStep, Http!ClientStep
<1> QED
  BY <1>1, <1>4 DEF HealthInv, FramesNeedCamera, HealthKnown

(* The OTA task leaves the pool and the health alone.                            *)
LEMMA OtaKeepsHealth ==
    ASSUME HealthInv, CheckForUpdate \/ UpdateStep
    PROVE  HealthInv'
<1>1. UNCHANGED <<empty, ready, camera, held, httpPc, frames, stage>>
  BY DEF CheckForUpdate, UpdateStep, ShareTransfer, Http!StartTransfer, Http!EndTransfer,
     Http!poolVars, httpVars
<1>2. UNCHANGED healthy /\ pc' # "off"
  BY DEF CheckForUpdate, UpdateStep, CheckAndInstall, StartTask, ConfirmRunningImage,
     ConfirmRead, RequestImage, RequestFor, EraseSlot, ReceiveChunk, StoreChunk,
     CheckDigests, Activate, MarkNew, FailClosed
<1> QED
  BY <1>1, <1>2 DEF HealthInv, PoolTypes, WritersHoldFrames, FramesNeedCamera, HealthKnown

(* HealthInv is inductive.                                                       *)
LEMMA HealthInductive == HealthInv /\ [FirmwareNext]_firmwareVars => HealthInv'
<1> SUFFICES ASSUME HealthInv, [FirmwareNext]_firmwareVars PROVE HealthInv'
  OBVIOUS
<1> USE DEF HealthInv, PoolTypes, WritersHoldFrames, FramesNeedCamera, HealthKnown
<1>1. CASE CheckLayout \/ SpawnTasks
  BY <1>1 DEF CheckLayout, SpawnTasks, Halt, otaVars, httpVars
<1>2. CASE StartCamera
  <2>1. CASE Http!StartCamera /\ UNCHANGED <<otaVars, stage>>
    <3>1. camera' \in Buffers /\ empty' \subseteq Buffers
      BY <2>1, TakenBuffer DEF Http!StartCamera
    <3> QED
      BY <2>1, <3>1, BufferAssumption DEF Http!StartCamera, otaVars
  <2>2. CASE camera = NoBuffer /\ Halt
    BY <2>2 DEF Halt, otaVars, httpVars
  <2> QED
    BY <1>2, <2>1, <2>2 DEF StartCamera
<1>3. CASE CaptureAudio
  BY <1>3 DEF CaptureAudio, Http!CaptureAudio, Http!poolVars, otaVars
<1>4. CASE ResetTasks \/ LosePower
  <2>1. LoseTasks /\ healthy' = FALSE
    BY <1>4 DEF ResetTasks, LosePower, SoftwareReset, PowerLoss, LoseRam
  <2>2. /\ <<>> \in Seq(Buffers)
        /\ [w \in Workers |-> NoBuffer] \in [Workers -> Buffers \cup {NoBuffer}]
        /\ [w \in Workers |-> "accept"] \in [Workers -> Http!PCs]
    BY DEF Http!PCs
  <2> QED
    BY <2>1, <2>2 DEF LoseTasks
<1>5. CASE Start
  BY <1>5 DEF Start, Boot, httpVars
<1>6. CASE UNCHANGED firmwareVars
  BY <1>6 DEF firmwareVars, otaVars, httpVars
<1> QED
  BY <1>1, <1>2, <1>3, <1>4, <1>5, <1>6, CompletedFrame, ServedClient, OtaKeepsHealth
  DEF FirmwareNext

(* HealthInv holds of every reachable state of the firmware.                     *)
THEOREM HealthInvHolds == FirmwareSpec => []HealthInv
BY HealthInit, HealthInductive, PTL DEF FirmwareSpec

(* An image leaves probation only after the camera of this very boot completed a *)
(* frame: for every number of workers and buffers, whatever the clients do,   *)
(* wherever main() halts and whenever power fails.                            *)
THEOREM HealthSafe == FirmwareSpec => HealthEarned
<1> DEFINE Confirms == /\ pc # "off" /\ booted \in Slots
                       /\ rec[booted] \in {"New", "PendingVerify"}
                       /\ rec'[booted] = "Valid"
<1>1. ASSUME TypeOK, Inv, HealthInv, FirmwareNext, Confirms
      PROVE  stage = "tasks" /\ frames > 0
  <2>a. /\ NextSlot # booted
        /\ pc = "markNew" => Selected # booted
        /\ rec \in [Slots -> ImageStates \cup {NoRecord}]
    BY <1>1, SelectedSlot DEF Inv, TypeOK, TargetSelected, Selecting
  <2>b. rec' # rec
    BY <1>1
  <2>1. CASE UpdateStep
    <3>1. CASE ConfirmRunningImage
      BY <1>1, <3>1 DEF ConfirmRunningImage, ConfirmRead, HealthInv, HealthKnown
    <3>2. CASE Activate
      BY <1>1, <2>a, <3>2 DEF Activate
    <3>3. CASE MarkNew
      BY <1>1, <2>a, <3>3 DEF MarkNew
    <3> QED
      BY <2>1, <2>b, <3>1, <3>2, <3>3 DEF UpdateStep, StartTask, RequestImage, RequestFor,
         EraseSlot, ReceiveChunk, StoreChunk, CheckDigests, slotVars
  <2>2. CASE LosePower
    <3>1. CASE healthy
      BY <1>1, <3>1 DEF HealthInv, HealthKnown
    <3>2. CASE ~healthy
      BY <1>1, <2>2, <2>a, <2>b, <3>2 DEF LosePower, PowerLoss, slotVars
    <3> QED
      BY <3>1, <3>2
  <2>3. CASE Start
    BY <1>1, <2>3 DEF Start, Boot
  <2>4. CASE ResetTasks \/ CheckForUpdate
    BY <2>4, <2>b DEF ResetTasks, SoftwareReset, CheckForUpdate, CheckAndInstall, slotVars
  <2>5. CASE \/ CheckLayout \/ SpawnTasks \/ StartCamera \/ CompleteFrame \/ CaptureAudio
             \/ \E w \in Workers : Serve(w)
    BY <2>5, <2>b DEF CheckLayout, SpawnTasks, Halt, StartCamera, CompleteFrame,
       CameraFrame, CaptureAudio, Serve, otaVars, slotVars
  <2> QED
    BY <1>1, <2>1, <2>2, <2>3, <2>4, <2>5 DEF FirmwareNext
<1>2. Inv /\ HealthInv /\ [FirmwareNext]_firmwareVars =>
        [Confirms => stage = "tasks" /\ frames > 0]_firmwareVars
  BY <1>1 DEF Inv
<1>3. FirmwareSpec => []Inv
  BY FirmwareRunsOta, StepsKeepInv, PTL
<1> QED
  BY <1>2, <1>3, HealthInvHolds, PTL DEF FirmwareSpec, HealthEarned
-----------------------------------------------------------------------------
(***************************************************************************)
(* The camera and the workers in the firmware: a step of the firmware is a *)
(* step of Streaming, leaves it alone, or is a reset that puts all of it   *)
(* back where it starts.  The two invariants of StreamingProofs, that      *)
(* Streaming starts in order and stays so, are all that is needed.         *)
(***************************************************************************)

Tasks == INSTANCE StreamingProofs WITH pc <- httpPc

(* What Streaming assumes of its constants.                                      *)
LEMMA TasksAssumptions == Tasks!PoolAssumption /\ Tasks!QueueAssumption
BY BufferAssumption
DEF Tasks!PoolAssumption, Tasks!QueueAssumption, Tasks!IsFiniteSet, IsFiniteSet,
    Tasks!Cardinality, Cardinality

(* The two instances count alike.                                                *)
LEMMA SameCount == \A S : Tasks!Cardinality(S) = Http!Cardinality(S)
BY DEF Tasks!Cardinality, Http!Cardinality

(* The camera and the audio task make the steps of Streaming.                    *)
LEMMA SameProducers ==
    Http!StartCamera \/ Http!EndOfImage \/ Http!CaptureAudio => Tasks!Next
<1>1. Http!StartCamera => Tasks!StartCamera
  BY DEF Tasks!StartCamera, Http!StartCamera, Tasks!TakeEmpty, Http!TakeEmpty,
     Tasks!history, Http!history, Tasks!audioVars, Http!audioVars
<1>2. Http!EndOfImage => Tasks!EndOfImage
  BY DEF Tasks!EndOfImage, Http!EndOfImage, Tasks!Publish, Http!Publish,
     Tasks!TakeEmpty, Http!TakeEmpty, Tasks!SendReady, Http!SendReady,
     Tasks!history, Http!history, Tasks!audioVars, Http!audioVars
<1>3. Http!CaptureAudio => Tasks!CaptureAudio
  BY DEF Tasks!CaptureAudio, Http!CaptureAudio, Tasks!poolVars, Http!poolVars,
     Tasks!history, Http!history
<1> QED
  BY <1>1, <1>2, <1>3 DEF Tasks!Next

(* So do the workers.                                                            *)
LEMMA SameWorkers ==
    ASSUME NEW w \in Workers, Http!Worker(w)
    PROVE  Tasks!Next
<1> USE DEF Tasks!Goto, Http!Goto, Tasks!poolVars, Http!poolVars,
        Tasks!history, Http!history, Tasks!audioVars, Http!audioVars
<1>1. Http!OwnStep(w) => Tasks!OwnStep(w)
  BY DEF Tasks!OwnStep, Http!OwnStep, Tasks!Close, Http!Close,
     Tasks!MjpegLoop, Http!MjpegLoop, Tasks!MjpegTimeout, Http!MjpegTimeout,
     Tasks!SnapshotTimeout, Http!SnapshotTimeout, Tasks!AudioLoop, Http!AudioLoop,
     Tasks!AudioTimeout, Http!AudioTimeout, Tasks!LeaveAudio, Http!LeaveAudio
<1>2. Http!ReturnFrame(w) => Tasks!ReturnFrame(w)
  BY SameCount DEF Tasks!ReturnFrame, Http!ReturnFrame
<1>3. Http!ClientStep(w) => Tasks!ClientStep(w)
  BY <1>2 DEF Tasks!ClientStep, Http!ClientStep, Tasks!Reply, Http!Reply,
     Tasks!MjpegHeaders, Http!MjpegHeaders, Tasks!MjpegWritten, Http!MjpegWritten,
     Tasks!SnapshotWritten, Http!SnapshotWritten, Tasks!AudioHeaders, Http!AudioHeaders,
     Tasks!AudioWritten, Http!AudioWritten, Tasks!LeaveAudio, Http!LeaveAudio
<1>4. Http!Accept(w) \/ Http!ReadRequest(w) => Tasks!Accept(w) \/ Tasks!ReadRequest(w)
  BY DEF Tasks!Accept, Http!Accept, Tasks!ReadRequest, Http!ReadRequest
<1>5. \/ Http!MjpegFrame(w) \/ Http!SnapshotFrame(w) \/ Http!AudioChunk(w)
      => Tasks!MjpegFrame(w) \/ Tasks!SnapshotFrame(w) \/ Tasks!AudioChunk(w)
  BY DEF Tasks!MjpegFrame, Http!MjpegFrame, Tasks!SnapshotFrame, Http!SnapshotFrame,
     Tasks!AudioChunk, Http!AudioChunk, Tasks!TakeFrame, Http!TakeFrame
<1> QED
  BY <1>1, <1>3, <1>4, <1>5 DEF Http!Worker, Tasks!Worker, Tasks!Next

(* What leaves the variables of Streaming alone stutters for it.                 *)
LEMMA HttpStutter == UNCHANGED <<httpVars, transfer>> => UNCHANGED Tasks!vars
BY DEF httpVars, Tasks!vars

(* Every step of the firmware is a step of Streaming, or leaves it alone, or     *)
(* starts it anew.                                                            *)
LEMMA FirmwareRunsHttp ==
    [FirmwareNext]_firmwareVars => [Tasks!Next]_Tasks!vars \/ Tasks!Init'
<1> SUFFICES ASSUME [FirmwareNext]_firmwareVars
             PROVE  Tasks!Next \/ UNCHANGED Tasks!vars \/ Tasks!Init'
  OBVIOUS
<1>1. CASE CheckLayout \/ SpawnTasks
  BY <1>1, HttpStutter DEF CheckLayout, SpawnTasks, Halt
<1>2. CASE StartCamera
  BY <1>2, SameProducers, HttpStutter DEF StartCamera, Halt
<1>3. CASE CompleteFrame \/ CaptureAudio
  BY <1>3, SameProducers DEF CompleteFrame, CaptureAudio
<1>4. CASE \E w \in Workers : Serve(w)
  BY <1>4, SameWorkers DEF Serve
<1>5. CASE CheckForUpdate \/ UpdateStep
  <2>1. ShareTransfer
    BY <1>5 DEF CheckForUpdate, UpdateStep
  <2>2. Http!StartTransfer => Tasks!StartTransfer
    BY DEF Tasks!StartTransfer, Http!StartTransfer, Tasks!poolVars, Http!poolVars,
       Tasks!history, Http!history, Tasks!audioVars, Http!audioVars
  <2>3. Http!EndTransfer => Tasks!EndTransfer
    BY DEF Tasks!EndTransfer, Http!EndTransfer, Tasks!poolVars, Http!poolVars,
       Tasks!audioVars, Http!audioVars
  <2> QED
    BY <2>1, <2>2, <2>3, HttpStutter DEF ShareTransfer, Tasks!Next
<1>6. CASE ResetTasks \/ LosePower
  <2>1. LoseTasks /\ transfer' = FALSE
    BY <1>6 DEF ResetTasks, LosePower, SoftwareReset, PowerLoss, LoseRam,
       NoTransfer
  <2> QED
    BY <2>1 DEF LoseTasks, Tasks!Init
<1>7. CASE Start
  BY <1>7, HttpStutter DEF Start, Boot
<1>8. CASE UNCHANGED firmwareVars
  BY <1>8, HttpStutter DEF firmwareVars
<1> QED
  BY <1>1, <1>2, <1>3, <1>4, <1>5, <1>6, <1>7, <1>8 DEF FirmwareNext

(* The invariant of Streaming holds over resets.                                 *)
LEMMA TasksInvHolds == FirmwareSpec => []Tasks!Inv
<1>1. FirmwareInit => Tasks!Init
  BY DEF FirmwareInit, Http!Init, Tasks!Init
<1>2. Tasks!Init => Tasks!Inv
  BY TasksAssumptions, Tasks!InvInit
<1>3. Tasks!Inv /\ [Tasks!Next]_Tasks!vars => Tasks!Inv'
  BY TasksAssumptions, Tasks!InvInductive
<1> QED
  BY <1>1, <1>2, <1>3, FirmwareRunsHttp, PTL DEF FirmwareSpec

(* What the invariant says of the composition.                                   *)
LEMMA TasksInvSuffices ==
    Tasks!Inv => /\ Http!TypeOK /\ Http!BuffersConserved /\ Http!ReadyIsCurrent
                 /\ Http!AudioExclusive /\ Http!TransferStarvesStreams
<1>1. Tasks!Inv => /\ Tasks!TypeOK /\ Tasks!BuffersConserved /\ Tasks!ReadyIsCurrent
                   /\ Tasks!AudioExclusive /\ Tasks!TransferStarvesStreams
  BY TasksAssumptions, Tasks!InvSuffices
<1>2. Tasks!TypeOK => Http!TypeOK
  BY DEF Tasks!TypeOK, Http!TypeOK, Tasks!PCs, Http!PCs, Tasks!MjpegPCs, Http!MjpegPCs,
     Tasks!AudioPCs, Http!AudioPCs
<1>3. Tasks!BuffersConserved => Http!BuffersConserved
  BY SameCount DEF Tasks!BuffersConserved, Http!BuffersConserved, Tasks!ReadySet, Http!ReadySet
<1>4. Tasks!ReadyIsCurrent => Http!ReadyIsCurrent
  BY DEF Tasks!ReadyIsCurrent, Http!ReadyIsCurrent
<1>5. Tasks!AudioExclusive => Http!AudioExclusive
  BY DEF Tasks!AudioExclusive, Http!AudioExclusive, Tasks!AudioPCs, Http!AudioPCs
<1>6. Tasks!TransferStarvesStreams => Http!TransferStarvesStreams
  BY DEF Tasks!TransferStarvesStreams, Http!TransferStarvesStreams, Tasks!MjpegPCs,
     Http!MjpegPCs
<1> QED
  BY <1>1, <1>2, <1>3, <1>4, <1>5, <1>6

(* Over resets, updates and halts the camera, the workers and the audio task     *)
(* still lose no buffer, serve no stale frame, stream audio to one client and *)
(* get out of the way of a transfer.                                          *)
THEOREM StreamsSafeInFirmware ==
    FirmwareSpec =>
        /\ []FirmwareTypeOK
        /\ []Http!BuffersConserved
        /\ []Http!ReadyIsCurrent
        /\ []Http!AudioExclusive
        /\ []Http!TransferStarvesStreams
        /\ Http!DeliveredInOrder
<1> DEFINE InOrder == \A w \in Workers :
                          held'[w] \notin {held[w], NoBuffer} => stamp[held'[w]] > delivered
<1>1. FirmwareSpec => []Inv
  BY FirmwareRunsOta, StepsKeepInv, PTL
<1>2. FirmwareSpec => [](stage \in Stages)
  <2>1. FirmwareInit => stage \in Stages
    BY DEF FirmwareInit, Stages
  <2>2. stage \in Stages /\ [FirmwareNext]_firmwareVars => (stage \in Stages)'
    BY DEF FirmwareNext, CheckLayout, SpawnTasks, Halt, StartCamera, CompleteFrame,
       CaptureAudio, Serve, CheckForUpdate, UpdateStep, ShareTransfer, ResetTasks,
       LosePower, LoseTasks, Start, firmwareVars, Stages
  <2> QED
    BY <2>1, <2>2, PTL DEF FirmwareSpec
<1>3. Inv /\ Tasks!Inv /\ stage \in Stages => FirmwareTypeOK
  BY TasksInvSuffices DEF FirmwareTypeOK, Inv
<1>4. Tasks!Inv /\ [FirmwareNext]_firmwareVars => [InOrder]_Http!vars
  <2> SUFFICES ASSUME Tasks!Inv, [FirmwareNext]_firmwareVars, NEW v \in Workers,
                      held'[v] \notin {held[v], NoBuffer}
               PROVE  stamp[held'[v]] > delivered
    OBVIOUS
  <2>1. CASE [Tasks!Next]_Tasks!vars
    BY <2>1, TasksAssumptions, Tasks!OrderStep
  <2>2. CASE Tasks!Init'
    BY <2>2 DEF Tasks!Init
  <2> QED
    BY <2>1, <2>2, FirmwareRunsHttp
<1> QED
  BY <1>1, <1>2, <1>3, <1>4, TasksInvHolds, TasksInvSuffices, PTL
  DEF FirmwareSpec, Http!DeliveredInOrder
=============================================================================
