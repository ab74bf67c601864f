---------------------------- MODULE ReleasePipeline ----------------------------
(***************************************************************************)
(* From a release tag to the devices: the pipelines of .tekton/ with their *)
(* scripts, the release tool that signs a manifest for each track, the     *)
(* version releases and the two channels on the server, and one device of  *)
(* each track that follows its channel.                                    *)
(*                                                                         *)
(* A pipeline run may die at any task and be started again for the same    *)
(* tag, and a build of the same tag need not give the same image.  As the  *)
(* documents demand, one run is made at a time; inside a run the two       *)
(* channels are checked and published in any order, and the devices read   *)
(* the server at any time.                                                 *)
(***************************************************************************)
EXTENDS Naturals

CONSTANTS
    Versions,   \* pairs <<core, rc>>; rc = 0 for a stable version
    Digests     \* what builds of one version may result in

ASSUME ReleaseAssumption ==
    Versions \subseteq (Nat \ {0}) \X Nat /\ {"none", "partial"} \cap Digests = {}

Tracks == {"stable", "prerelease"}
Stable(v) == v[2] = 0

\* Semantic versions: a release candidate comes before its release.
Newer(v, w) ==
    \/ v[1] > w[1]
    \/ v[1] = w[1] /\ ~Stable(w) /\ (Stable(v) \/ v[2] > w[2])

\* The tool signs for the stable track what is no candidate.
ValidateReleaseFields(t, v) == Stable(v) \/ t = "prerelease"

\* Mutants are kept beside what they change: here, no device takes candidates.
ValidateVersionStableOnly(t, current, v) == Newer(v, current) /\ Stable(v)

\* What a device accepts.
ValidateVersion(t, current, v) ==
    Newer(v, current) /\ (Stable(v) \/ t = "prerelease")

CanonicalSigned(t, v, d) == [track |-> t, version |-> v, digest |-> d]
Manifests == [track : Tracks, version : Versions, digest : Digests]
NoManifest == [track |-> "none"]

\* The tracks a run signs for and publishes to.
TracksOf(v) == {t \in Tracks : t = "prerelease" \/ Stable(v)}

VARIABLES
    releases,  \* version releases: the digest of the image, none, or partial
    channel,   \* the manifest of each channel
    pc,        \* the task of the run
    version,   \* its tag
    image,     \* the digest of the image it built
    branch,    \* where the run is with each channel
    device,    \* the version a device runs, and the image it got it with
    offered    \* the manifest a device verified and is installing

server == <<releases, channel>>
pipeline == <<pc, version, image, branch>>
devices == <<device, offered>>
vars == <<server, pipeline, devices>>

NoBranches == [t \in Tracks |-> "skip"]

TypeOK ==
    /\ releases \in [Versions -> Digests \cup {"none", "partial"}]
    /\ channel \in [Tracks -> Manifests \cup {NoManifest}]
    /\ \A t \in Tracks : channel[t] # NoManifest => channel[t].track = t
    /\ pc \in {"idle", "build", "checkVersion", "publish", "channels"}
    /\ version \in Versions /\ image \in Digests
    /\ branch \in [Tracks -> {"skip", "check", "upsert", "done", "failed"}]
    /\ \A t \in Tracks : branch[t] # "skip" => ValidateReleaseFields(t, version)
    /\ offered \in [Tracks -> Manifests \cup {NoManifest}]

Init ==
    /\ releases = [v \in Versions |-> "none"]
    /\ channel = [t \in Tracks |-> NoManifest]
    /\ pc = "idle"
    /\ version \in Versions /\ image \in Digests
    /\ branch = NoBranches
    /\ device = [t \in Tracks |-> [version |-> <<0, 0>>, digest |-> "none"]]
    /\ offered = [t \in Tracks |-> NoManifest]
-----------------------------------------------------------------------------
(* The pipeline *)

\* A tag is pushed, or its run is started again (validate-release).
ValidateRelease ==
    /\ pc = "idle"
    /\ version' \in Versions
    /\ pc' = "build"
    /\ branch' = NoBranches
    /\ UNCHANGED <<server, image, devices>>

\* build-release and sign-release, for the tracks the tool accepts.
BuildAndSign ==
    /\ pc = "build"
    /\ \A t \in TracksOf(version) : ValidateReleaseFields(t, version)
    /\ image' \in Digests
    /\ pc' = "checkVersion"
    /\ UNCHANGED <<server, version, branch, devices>>

ToChannels ==
    /\ pc' = "channels"
    /\ branch' = [t \in Tracks |-> IF t \in TracksOf(version) THEN "check" ELSE "skip"]

\* Mutant: a release that does not match is published again.
CheckVersionReleaseReplacing ==
    /\ pc = "checkVersion"
    /\ \/ releases[version] # image /\ pc' = "publish" /\ UNCHANGED branch
       \/ releases[version] = image /\ ToChannels
    /\ UNCHANGED <<server, version, image, devices>>

\* Absent: publish.  Identical: go on.  Anything else: fail closed.
CheckVersionRelease ==
    /\ pc = "checkVersion"
    /\ \/ releases[version] = "none" /\ pc' = "publish" /\ UNCHANGED branch
       \/ releases[version] = image /\ ToChannels
       \/ /\ releases[version] \notin {"none", image}
          /\ pc' = "idle" /\ UNCHANGED branch
    /\ UNCHANGED <<server, version, image, devices>>

\* Mutant: the channels follow although not every asset arrived.
PublishVersionUnchecked ==
    /\ pc = "publish"
    /\ \E r \in {image, "partial"} : releases' = [releases EXCEPT ![version] = r]
    /\ ToChannels
    /\ UNCHANGED <<channel, version, image, devices>>

\* forgejo-release-upsert of the version release.  Cut off, it leaves some
\* assets; the task is tried once more, or the run ends there.
PublishVersion ==
    /\ pc = "publish"
    /\ releases' = [releases EXCEPT ![version] = image]
    /\ ToChannels
    /\ UNCHANGED <<channel, version, image, devices>>

PublishVersionCut ==
    /\ pc = "publish"
    /\ releases' = [releases EXCEPT ![version] = "partial"]
    /\ UNCHANGED <<channel, pipeline, devices>>

Candidate(t) == CanonicalSigned(t, version, image)

\* Mutant: the versions are told apart and not ordered.
CheckChannelUnordered(t, current) ==
    current = NoManifest \/ version # current.version \/ current = Candidate(t)

\* release-state.py: newer, or equal down to the last byte.
CheckChannel(t, current) ==
    \/ current = NoManifest
    \/ Newer(version, current.version)
    \/ current = Candidate(t)

\* Once a task of the run failed, no further task is started.
Going == \A t \in Tracks : branch[t] # "failed"

CheckChannelAssets(t) ==
    /\ pc = "channels" /\ branch[t] = "check" /\ Going
    /\ branch' = [branch EXCEPT ![t] =
          IF CheckChannel(t, channel[t]) THEN "upsert" ELSE "failed"]
    /\ UNCHANGED <<server, pc, version, image, devices>>

PublishChannel(t) ==
    /\ pc = "channels" /\ branch[t] = "upsert" /\ Going
    /\ channel' = [channel EXCEPT ![t] = Candidate(t)]
    /\ branch' = [branch EXCEPT ![t] = "done"]
    /\ UNCHANGED <<releases, pc, version, image, devices>>

\* An upsert that is cut off may have removed the old manifest.
PublishChannelCut(t) ==
    /\ pc = "channels" /\ branch[t] = "upsert" /\ Going
    /\ channel' = [channel EXCEPT ![t] = NoManifest]
    /\ UNCHANGED <<releases, pipeline, devices>>

\* The run ends: nothing is left to do, or a task failed.
EndRun ==
    /\ pc = "channels"
    /\ ~Going \/ \A t \in Tracks : branch[t] \in {"skip", "done"}
    /\ pc' = "idle"
    /\ UNCHANGED <<server, version, image, branch, devices>>

\* A task times out or is evicted; the run ends without a verdict.
RunDies ==
    /\ pc # "idle"
    /\ pc' = "idle"
    /\ branch' = NoBranches
    /\ UNCHANGED <<server, version, image, devices>>
-----------------------------------------------------------------------------
(* The devices *)

FetchManifest(t) ==
    /\ offered[t] = NoManifest
    /\ channel[t] # NoManifest
    /\ channel[t].track = t
    /\ ValidateVersion(t, device[t].version, channel[t].version)
    /\ offered' = [offered EXCEPT ![t] = channel[t]]
    /\ UNCHANGED <<server, pipeline, device>>

\* The image at the signed path, if its digest is the signed one.
InstallImage(t) ==
    /\ offered[t] # NoManifest
    /\ device' = IF releases[offered[t].version] = offered[t].digest
                 THEN [device EXCEPT ![t] = [version |-> offered[t].version,
                                             digest |-> offered[t].digest]]
                 ELSE device
    /\ offered' = [offered EXCEPT ![t] = NoManifest]
    /\ UNCHANGED <<server, pipeline>>

Next ==
    \/ ValidateRelease \/ BuildAndSign \/ CheckVersionRelease
    \/ PublishVersion \/ PublishVersionCut
    \/ \E t \in Tracks : CheckChannelAssets(t)
    \/ \E t \in Tracks : PublishChannel(t)
    \/ \E t \in Tracks : PublishChannelCut(t)
    \/ EndRun \/ RunDies
    \/ \E t \in Tracks : FetchManifest(t)
    \/ \E t \in Tracks : InstallImage(t)

\* Devices poll; nobody promises releases.
Fairness == \A t \in Tracks : WF_vars(FetchManifest(t)) /\ WF_vars(InstallImage(t))

Spec == Init /\ [][Next]_vars /\ Fairness
-----------------------------------------------------------------------------
(* Properties *)

\* A channel never names a version that cannot be downloaded in full, or with
\* another image than the signed one: the version release comes first and is
\* never replaced.
ChannelServesImage ==
    \A t \in Tracks : channel[t] # NoManifest =>
        releases[channel[t].version] = channel[t].digest

\* However often runs are cut off and started again with other builds, a
\* version is one image wherever a device runs it or a channel names it.
OneImagePerVersion ==
    \A t \in Tracks : device[t].digest # "none" =>
        /\ releases[device[t].version] = device[t].digest
        /\ \A u \in Tracks :
              channel[u] # NoManifest /\ channel[u].version = device[t].version =>
                  channel[u].digest = device[t].digest

\* A channel that names a version goes on to none but newer ones.  (An upsert
\* that is cut off between two manifests forgets the old one.)
ChannelMonotonic ==
    [][\A t \in Tracks :
         channel[t] # NoManifest /\ channel'[t] \notin {NoManifest, channel[t]} =>
             Newer(channel'[t].version, channel[t].version)]_channel

\* What a channel keeps naming, every device of its track comes to run, or it
\* runs something newer already: no manifest the tool signs is refused by the
\* devices it is meant for.
DevicesCatchUp ==
    \A t \in Tracks, v \in Versions :
        <>[](channel[t] # NoManifest /\ channel[t].version = v)
            => <>(~Newer(v, device[t].version))
=============================================================================
