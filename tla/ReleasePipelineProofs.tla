------------------------ MODULE ReleasePipelineProofs ------------------------
(***************************************************************************)
(* Proofs about ReleasePipeline, for any set of versions and any images    *)
(* their builds may result in.                                             *)
(***************************************************************************)
EXTENDS ReleasePipeline, TLAPS

-----------------------------------------------------------------------------
(* The inductive invariant.                                                 *)

\* A version release is written only where there is none in full, and what is
\* signed and sent to the channels is what it holds.
ReleaseBeforeChannels ==
    /\ pc = "publish" => releases[version] \in {"none", "partial"}
    /\ pc = "channels" => releases[version] = image

\* A manifest that is about to be published passed the check of its channel,
\* which nobody else has changed since.
UpsertChecked ==
    pc = "channels" =>
        \A t \in Tracks : branch[t] = "upsert" => CheckChannel(t, channel[t])

\* A device runs the image of a version release.
DeviceServed ==
    \A t \in Tracks : device[t].digest # "none" =>
        /\ device[t].version \in Versions
        /\ device[t].digest \in Digests
        /\ releases[device[t].version] = device[t].digest

DeviceTypes == device \in [Tracks -> [version : Versions \cup {<<0, 0>>},
                                      digest : Digests \cup {"none"}]]

Inv ==
    /\ TypeOK /\ DeviceTypes
    /\ ReleaseBeforeChannels
    /\ UpsertChecked
    /\ ChannelServesImage
    /\ DeviceServed
-----------------------------------------------------------------------------
(* What the tool signs is a manifest of the track it is signed for. *)
LEMMA CandidateTypes ==
    ASSUME TypeOK, NEW t \in Tracks
    PROVE  /\ Candidate(t) \in Manifests
           /\ Candidate(t) # NoManifest
           /\ Candidate(t).track = t
           /\ Candidate(t).version = version /\ Candidate(t).digest = image
<1>1. version \in Versions /\ image \in Digests
  BY DEF TypeOK
<1>2. Candidate(t) = [track |-> t, version |-> version, digest |-> image]
  BY DEF Candidate, CanonicalSigned
<1>3. Candidate(t).track # "none"
  BY <1>2 DEF Tracks
<1>4. Candidate(t) # NoManifest
  BY <1>3 DEF NoManifest
<1> QED
  BY <1>1, <1>2, <1>4 DEF Manifests

(* The parts of a manifest. *)
LEMMA ManifestTypes ==
    ASSUME NEW m \in Manifests \cup {NoManifest}, m # NoManifest
    PROVE  m \in Manifests /\ m.version \in Versions /\ m.digest \in Digests
BY DEF Manifests

(* The run signs for a track only what may be signed for it. *)
LEMMA ToChannelsTypes ==
    ASSUME TypeOK, ToChannels
    PROVE  /\ pc' = "channels"
           /\ branch' \in [Tracks -> {"skip", "check", "upsert", "done", "failed"}]
           /\ \A t \in Tracks : branch'[t] # "skip" => ValidateReleaseFields(t, version)
           /\ \A t \in Tracks : branch'[t] # "upsert"
BY DEF ToChannels, TracksOf, ValidateReleaseFields

(* An image that was published in full is never replaced. *)
LEMMA ReleasesKept ==
    ASSUME Inv, [Next]_vars, NEW v \in Versions, releases[v] \in Digests
    PROVE  releases'[v] = releases[v]
<1>1. CASE PublishVersion \/ PublishVersionCut
  <2>1. releases[version] \notin Digests
    BY <1>1, ReleaseAssumption
       DEF PublishVersion, PublishVersionCut, Inv, ReleaseBeforeChannels
  <2> QED
    BY <1>1, <2>1 DEF PublishVersion, PublishVersionCut, Inv, TypeOK
<1>2. CASE UNCHANGED releases
  BY <1>2
<1> QED
  BY <1>1, <1>2 DEF Next, ValidateRelease, BuildAndSign, CheckVersionRelease,
                    CheckChannelAssets, PublishChannel, PublishChannelCut, EndRun,
                    RunDies, FetchManifest, InstallImage, server, vars

(* A run publishes a manifest where its check passed, or loses the old one. *)
LEMMA ChannelStep ==
    ASSUME Inv, [Next]_vars, NEW t \in Tracks, channel'[t] # channel[t]
    PROVE  \/ channel'[t] = NoManifest
           \/ /\ pc = "channels" /\ branch[t] = "upsert"
              /\ channel'[t] = Candidate(t)
<1>1. channel \in [Tracks -> Manifests \cup {NoManifest}]
  BY DEF Inv, TypeOK
<1>2. CASE \E u \in Tracks : PublishChannel(u) \/ PublishChannelCut(u)
  BY <1>1, <1>2 DEF PublishChannel, PublishChannelCut
<1>3. CASE UNCHANGED channel
  BY <1>3
<1> QED
  BY <1>2, <1>3 DEF Next, ValidateRelease, BuildAndSign, CheckVersionRelease,
                    PublishVersion, PublishVersionCut, CheckChannelAssets, EndRun,
                    RunDies, FetchManifest, InstallImage, server, vars

(* The types of the run, the server and the devices after every step. *)
LEMMA TypeStep ==
    ASSUME Inv, [Next]_vars
    PROVE  TypeOK' /\ DeviceTypes'
<1> USE DEF Inv
<1>1. CASE ValidateRelease
  BY <1>1 DEF ValidateRelease, NoBranches, server, devices, TypeOK, DeviceTypes
<1>2. CASE BuildAndSign
  BY <1>2 DEF BuildAndSign, server, devices, TypeOK, DeviceTypes
<1>3. CASE CheckVersionRelease
  BY <1>3, ToChannelsTypes DEF CheckVersionRelease, server, devices, TypeOK, DeviceTypes
<1>4. CASE PublishVersion
  <2>1. releases' \in [Versions -> Digests \cup {"none", "partial"}]
    BY <1>4 DEF PublishVersion, TypeOK
  <2> QED
    BY <1>4, <2>1, ToChannelsTypes DEF PublishVersion, devices, TypeOK, DeviceTypes
<1>5. CASE PublishVersionCut
  BY <1>5 DEF PublishVersionCut, pipeline, devices, TypeOK, DeviceTypes
<1>6. CASE \E t \in Tracks : CheckChannelAssets(t)
  BY <1>6 DEF CheckChannelAssets, server, devices, TypeOK, DeviceTypes
<1>7. CASE \E t \in Tracks : PublishChannel(t)
  <2>1. PICK t \in Tracks : PublishChannel(t)
    BY <1>7
  <2>2. channel' \in [Tracks -> Manifests \cup {NoManifest}]
    BY <2>1, CandidateTypes DEF PublishChannel, TypeOK
  <2>3. \A u \in Tracks : channel'[u] # NoManifest => channel'[u].track = u
    BY <2>1, CandidateTypes DEF PublishChannel, TypeOK
  <2> QED
    BY <2>1, <2>2, <2>3 DEF PublishChannel, devices, TypeOK, DeviceTypes
<1>8. CASE \E t \in Tracks : PublishChannelCut(t)
  BY <1>8 DEF PublishChannelCut, pipeline, devices, TypeOK, DeviceTypes
<1>9. CASE EndRun \/ RunDies
  BY <1>9 DEF EndRun, RunDies, NoBranches, server, devices, TypeOK, DeviceTypes
<1>10. CASE \E t \in Tracks : FetchManifest(t)
  BY <1>10 DEF FetchManifest, server, pipeline, TypeOK, DeviceTypes
<1>11. CASE \E t \in Tracks : InstallImage(t)
  <2>1. PICK t \in Tracks : InstallImage(t)
    BY <1>11
  <2>2. offered[t].version \in Versions /\ offered[t].digest \in Digests
    BY <2>1, ManifestTypes DEF InstallImage, TypeOK
  <2>3. DeviceTypes'
    BY <2>1, <2>2 DEF InstallImage, DeviceTypes
  <2> QED
    BY <2>1, <2>3 DEF InstallImage, server, pipeline, TypeOK
<1>12. CASE UNCHANGED vars
  BY <1>12 DEF vars, server, pipeline, devices, TypeOK, DeviceTypes
<1> QED
  BY <1>1, <1>2, <1>3, <1>4, <1>5, <1>6, <1>7, <1>8, <1>9, <1>10, <1>11, <1>12 DEF Next

(* The invariant after every step. *)
LEMMA InvInductive ==
    ASSUME Inv, [Next]_vars
    PROVE  Inv'
<1>1. TypeOK' /\ DeviceTypes'
  BY TypeStep
<1>2. ReleaseBeforeChannels'
  <2>1. CASE CheckVersionRelease
    BY <2>1 DEF CheckVersionRelease, ToChannels, server, Inv, ReleaseBeforeChannels
  <2>2. CASE PublishVersion
    BY <2>2 DEF PublishVersion, ToChannels, Inv, TypeOK, ReleaseBeforeChannels
  <2>3. CASE PublishVersionCut
    BY <2>3 DEF PublishVersionCut, pipeline, Inv, TypeOK, ReleaseBeforeChannels
  <2>4. CASE pc' \in {"idle", "build", "checkVersion"}
    BY <2>4 DEF ReleaseBeforeChannels
  <2>5. CASE UNCHANGED <<releases, pc, version, image>>
    BY <2>5 DEF Inv, ReleaseBeforeChannels
  <2> QED
    BY <2>1, <2>2, <2>3, <2>4, <2>5
       DEF Next, ValidateRelease, BuildAndSign, CheckChannelAssets, PublishChannel,
           PublishChannelCut, EndRun, RunDies, FetchManifest, InstallImage,
           server, pipeline, vars
<1>3. UpsertChecked'
  <2>1. CASE pc' # "channels"
    BY <2>1 DEF UpsertChecked
  <2>2. CASE ToChannels
    BY <2>2 DEF ToChannels, UpsertChecked
  <2>3. CASE \E t \in Tracks : CheckChannelAssets(t)
    BY <2>3 DEF CheckChannelAssets, server, Inv, TypeOK, UpsertChecked, CheckChannel,
                Candidate
  <2>4. CASE \E t \in Tracks : PublishChannel(t)
    BY <2>4 DEF PublishChannel, Inv, TypeOK, UpsertChecked, CheckChannel, Candidate
  <2>5. CASE \E t \in Tracks : PublishChannelCut(t)
    BY <2>5 DEF PublishChannelCut, pipeline, Inv, TypeOK, UpsertChecked, CheckChannel,
                Candidate
  <2>6. CASE UNCHANGED <<channel, pc, version, image, branch>>
    BY <2>6 DEF Inv, UpsertChecked, CheckChannel, Candidate
  <2> QED
    BY <2>1, <2>2, <2>3, <2>4, <2>5, <2>6
       DEF Next, ValidateRelease, BuildAndSign, CheckVersionRelease, PublishVersion,
           PublishVersionCut, EndRun, RunDies, FetchManifest, InstallImage,
           server, pipeline, vars
<1>4. ChannelServesImage'
  <2> SUFFICES ASSUME NEW t \in Tracks, channel'[t] # NoManifest
               PROVE  releases'[channel'[t].version] = channel'[t].digest
    BY DEF ChannelServesImage
  <2>1. CASE channel'[t] = channel[t]
    <3>1. channel[t].version \in Versions /\ channel[t].digest \in Digests
      BY <2>1, ManifestTypes DEF Inv, TypeOK
    <3>2. releases[channel[t].version] = channel[t].digest
      BY <2>1 DEF Inv, ChannelServesImage
    <3> QED
      BY <2>1, <3>1, <3>2, ReleasesKept
  <2>2. CASE channel'[t] # channel[t]
    <3>1. pc = "channels" /\ channel'[t] = Candidate(t)
      BY <2>2, ChannelStep
    <3>2. releases[version] = image /\ version \in Versions /\ image \in Digests
      BY <3>1 DEF Inv, TypeOK, ReleaseBeforeChannels
    <3>3. channel'[t].version = version /\ channel'[t].digest = image
      BY <3>1, CandidateTypes DEF Inv
    <3> QED
      BY <3>2, <3>3, ReleasesKept
  <2> QED
    BY <2>1, <2>2
<1>5. DeviceServed'
  <2> SUFFICES ASSUME NEW t \in Tracks, device'[t].digest # "none"
               PROVE  /\ device'[t].version \in Versions
                      /\ device'[t].digest \in Digests
                      /\ releases'[device'[t].version] = device'[t].digest
    BY DEF DeviceServed
  <2>1. CASE device'[t] = device[t]
    <3>1. /\ device[t].version \in Versions /\ device[t].digest \in Digests
          /\ releases[device[t].version] = device[t].digest
      BY <2>1 DEF Inv, DeviceServed
    <3> QED
      BY <2>1, <3>1, ReleasesKept
  <2>2. CASE device'[t] # device[t]
    <3>1. InstallImage(t)
      BY <2>2 DEF Next, ValidateRelease, BuildAndSign, CheckVersionRelease,
                  PublishVersion, PublishVersionCut, CheckChannelAssets, PublishChannel,
                  PublishChannelCut, EndRun, RunDies, FetchManifest, InstallImage,
                  devices, vars, Inv, DeviceTypes
    <3>2. offered[t].version \in Versions /\ offered[t].digest \in Digests
      BY <3>1, ManifestTypes DEF InstallImage, Inv, TypeOK
    <3>3. /\ device'[t] = [version |-> offered[t].version, digest |-> offered[t].digest]
          /\ releases[offered[t].version] = offered[t].digest
      BY <2>2, <3>1 DEF InstallImage, Inv, DeviceTypes
    <3> QED
      BY <3>2, <3>3, ReleasesKept
  <2> QED
    BY <2>1, <2>2
<1> QED
  BY <1>1, <1>2, <1>3, <1>4, <1>5 DEF Inv

(* No run of the pipeline leaves the invariant. *)
LEMMA InvHolds == Spec => []Inv
<1>1. Init => Inv
  <2> SUFFICES ASSUME Init PROVE Inv
    OBVIOUS
  <2>1. TypeOK /\ DeviceTypes
    BY DEF Init, TypeOK, DeviceTypes, NoBranches
  <2> QED
    BY <2>1 DEF Init, Inv, ReleaseBeforeChannels, UpsertChecked, ChannelServesImage,
                DeviceServed
<1>2. Inv /\ [Next]_vars => Inv'
  BY InvInductive
<1> QED
  BY <1>1, <1>2, PTL DEF Spec
-----------------------------------------------------------------------------
(* Every state of server, pipeline and devices is one of the type invariant's. *)
THEOREM TypeCorrect == Spec => []TypeOK
<1>1. Inv => TypeOK
  BY DEF Inv
<1> QED
  BY <1>1, InvHolds, PTL

(* What a channel names can be downloaded in full and has the signed digest,   *)
(* however runs are cut off and repeated with other builds.                  *)
THEOREM ChannelSafe == Spec => []ChannelServesImage
<1>1. Inv => ChannelServesImage
  BY DEF Inv
<1> QED
  BY <1>1, InvHolds, PTL

(* A version is one image, on every device and in every channel.              *)
THEOREM OneImage == Spec => []OneImagePerVersion
<1>1. Inv => OneImagePerVersion
  BY DEF Inv, DeviceServed, ChannelServesImage, OneImagePerVersion
<1> QED
  BY <1>1, InvHolds, PTL

(* A channel goes on to newer versions only.                                  *)
THEOREM ChannelsMonotonic == Spec => ChannelMonotonic
<1> DEFINE Onward == \A t \in Tracks :
         channel[t] # NoManifest /\ channel'[t] \notin {NoManifest, channel[t]} =>
             Newer(channel'[t].version, channel[t].version)
<1>1. Inv /\ [Next]_vars => [Onward]_channel
  <2> SUFFICES ASSUME Inv, [Next]_vars, NEW t \in Tracks,
                      channel[t] # NoManifest,
                      channel'[t] \notin {NoManifest, channel[t]}
               PROVE  Newer(channel'[t].version, channel[t].version)
    OBVIOUS
  <2>1. /\ pc = "channels" /\ branch[t] = "upsert"
        /\ channel'[t] = Candidate(t)
    BY ChannelStep
  <2>2. CheckChannel(t, channel[t])
    BY <2>1 DEF Inv, UpsertChecked
  <2>3. channel'[t].version = version
    BY <2>1, CandidateTypes DEF Inv
  <2> QED
    BY <2>1, <2>2, <2>3 DEF CheckChannel
<1> QED
  BY <1>1, InvHolds, PTL DEF Spec, ChannelMonotonic
=============================================================================
