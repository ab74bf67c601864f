--------------------------- MODULE ReleaseToolProofs ---------------------------
(***************************************************************************)
(* Proofs about ReleaseTool, for any contents, any process ids and any     *)
(* number of failures.                                                     *)
(***************************************************************************)
EXTENDS ReleaseTool, FiniteSetTheorems, TLAPS

-----------------------------------------------------------------------------
(* The inductive invariant.                                                 *)

\* What the host or the disk may take a name for.
Targets(n) == {dir[n], ddir[n]}

\* No file is behind two names.
NamesApart == \A m, n \in Names : m # n => Targets(m) \cap Targets(n) \subseteq {NoFile}

\* The temporary file of a run is new: it exists, and the disk does not know it.
TemporaryNew ==
    pc \in {"write", "sync", "rename"} =>
        dir[pid] # NoFile /\ \A n \in Names : ddir[n] # dir[pid]

\* It holds what is asked for before it is synced, and is synced before the rename.
TemporaryWritten ==
    /\ pc \in {"sync", "rename"} => data[dir[pid]] = goal
    /\ pc = "rename" => dir[pid] \in synced

\* What the output may turn out to be, after a power loss too.
OutputSynced ==
    /\ \A f \in Targets("output") \ {NoFile} : f \in synced /\ data[f] \in {acked, goal}
    /\ pc = "dirsync" => dir["output"] # NoFile /\ data[dir["output"]] = goal
    /\ acked # "none" => NoFile \notin Targets("output")

Inv ==
    /\ TypeOK
    /\ NamesApart
    /\ TemporaryNew
    /\ TemporaryWritten
    /\ OutputSynced
-----------------------------------------------------------------------------
(* There are finitely many names, and NoFile is one of the numbers of files. *)
LEMMA NamesFinite ==
    /\ IsFiniteSet(Names) /\ Cardinality(Names) \in Nat
    /\ NoFile \in Files
<1>1. IsFiniteSet(Pids)
  BY ToolAssumption
<1>2. IsFiniteSet(Names)
  BY <1>1, FS_AddElement DEF Names
<1>3. Cardinality(Names) \in Nat
  BY <1>2, FS_CardinalityType
<1> QED
  BY <1>2, <1>3 DEF Files, NoFile

(* The names a function on names maps to are at most as many as the names. *)
LEMMA FewTargets ==
    ASSUME NEW g \in [Names -> Files]
    PROVE  /\ IsFiniteSet({g[n] : n \in Names})
           /\ Cardinality({g[n] : n \in Names}) <= Cardinality(Names)
<1> DEFINE R == {g[n] : n \in Names}
<1>1. IsFiniteSet(Names)
  BY NamesFinite
<1>2. g \in Surjection(Names, R)
  BY DEF Surjection
<1> QED
  BY <1>1, <1>2, FS_Surjection

(* create_new always finds a file that neither the host nor the disk has a     *)
(* name for.                                                                 *)
LEMMA FreshFile ==
    ASSUME TypeOK
    PROVE  \E f \in Files \ {NoFile} : \A n \in Names : f # dir[n] /\ f # ddir[n]
<1> DEFINE D == {dir[n] : n \in Names}
           E == {ddir[n] : n \in Names}
           c == Cardinality(Names)
<1>1. /\ IsFiniteSet(D) /\ Cardinality(D) <= c
      /\ IsFiniteSet(E) /\ Cardinality(E) <= c
  BY FewTargets DEF TypeOK
<1>2. c \in Nat
  BY NamesFinite
<1> HIDE DEF D, E
<1>3. IsFiniteSet(D \cup E) /\ Cardinality(D \cup E) <= 2 * c
  <2>1. /\ IsFiniteSet(D \cup E)
        /\ Cardinality(D \cup E) = Cardinality(D) + Cardinality(E) - Cardinality(D \cap E)
    BY <1>1, FS_Union
  <2>2. IsFiniteSet(D \cap E)
    BY <1>1, FS_Intersection
  <2>3. Cardinality(D) \in Nat /\ Cardinality(E) \in Nat /\ Cardinality(D \cap E) \in Nat
    BY <1>1, <2>2, FS_CardinalityType
  <2> QED
    BY <1>1, <1>2, <2>1, <2>3
<1> HIDE DEF c
<1>4. IsFiniteSet(1..(2 * c + 1)) /\ Cardinality(1..(2 * c + 1)) = 2 * c + 1
  BY <1>2, FS_Interval
<1>5. PICK f \in 1..(2 * c + 1) : f \notin D \cup E
  <2>1. CASE 1..(2 * c + 1) \subseteq D \cup E
    <3>1. Cardinality(1..(2 * c + 1)) <= Cardinality(D \cup E)
      BY <1>3, <2>1, FS_Subset
    <3>2. Cardinality(D \cup E) \in Nat
      BY <1>3, FS_CardinalityType
    <3> QED
      BY <1>2, <1>3, <1>4, <3>1, <3>2
  <2> QED
    BY <2>1
<1>6. f \in Files \ {NoFile}
  BY <1>2, <1>5 DEF Files, NoFile, c
<1>7. \A n \in Names : f # dir[n] /\ f # ddir[n]
  BY <1>5 DEF D, E
<1> QED
  BY <1>6, <1>7
-----------------------------------------------------------------------------
(* The steps of the tool, and what may happen to it.                        *)

(* The temporary file of the run is no target of the output. *)
LEMMA TemporaryApart ==
    ASSUME TypeOK, NamesApart, TemporaryNew, pc \in {"write", "sync", "rename"}
    PROVE  /\ dir[pid] \in Files \ {NoFile}
           /\ dir[pid] \notin Targets("output")
           /\ "output" \in Names /\ pid \in Names /\ pid # "output"
<1>1. "output" \in Names /\ pid \in Names /\ pid # "output"
  BY ToolAssumption DEF Names, TypeOK
<1>2. dir[pid] \in Files \ {NoFile}
  BY <1>1 DEF TypeOK, TemporaryNew
<1> QED
  BY <1>1, <1>2 DEF NamesApart, Targets

(* A temporary file is created as a new file, or the one of a killed run is met. *)
LEMMA OpenTemporaryInv ==
    ASSUME Inv, OpenTemporary
    PROVE  Inv'
<1> USE DEF Inv
<1>1. "output" \in Names /\ pid \in Names /\ pid # "output"
  BY ToolAssumption DEF Names, TypeOK
<1>2. UNCHANGED <<ddir, pid, goal, acked, failures>>
  BY DEF OpenTemporary, Goto, disk
<1>3. CASE dir[pid] = NoFile
  <2> DEFINE f == CHOOSE f \in Files \ {NoFile} : \A n \in Names : f # dir[n] /\ f # ddir[n]
  <2>1. f \in Files \ {NoFile} /\ \A n \in Names : f # dir[n] /\ f # ddir[n]
    BY FreshFile
  <2>2. /\ dir' = [dir EXCEPT ![pid] = f]
        /\ data' = [data EXCEPT ![f] = "partial"]
        /\ synced' = synced \ {f}
        /\ pc' = "write"
    BY <1>3 DEF OpenTemporary, Goto
  <2> HIDE DEF f
  <2>3. TypeOK'
    BY <1>1, <1>2, <2>1, <2>2 DEF TypeOK
  <2>4. /\ dir'[pid] = f
        /\ \A n \in Names \ {pid} : dir'[n] = dir[n]
        /\ \A g \in Files \ {NoFile, f} : data'[g] = data[g]
    BY <1>1, <2>1, <2>2 DEF TypeOK
  <2>5. NamesApart'
    BY <1>2, <2>1, <2>4 DEF NamesApart, Targets
  <2>6. TemporaryNew' /\ TemporaryWritten'
    BY <1>1, <1>2, <2>1, <2>2, <2>4 DEF TemporaryNew, TemporaryWritten
  <2>7. OutputSynced'
    <3>1. Targets("output")' = Targets("output") /\ Targets("output") \subseteq Files
      BY <1>1, <1>2, <2>4 DEF Targets, TypeOK
    <3>2. f \notin Targets("output")
      BY <1>1, <2>1 DEF Targets
    <3> QED
      BY <1>2, <2>2, <2>4, <3>1, <3>2 DEF OutputSynced
  <2> QED
    BY <2>3, <2>5, <2>6, <2>7
<1>4. CASE dir[pid] # NoFile
  BY <1>4 DEF OpenTemporary, Goto, disk, TypeOK, NamesApart, Targets, TemporaryNew,
              TemporaryWritten, OutputSynced
<1> QED
  BY <1>3, <1>4

(* Only the temporary file is written. *)
LEMMA WriteAllInv ==
    ASSUME Inv, WriteAll
    PROVE  Inv'
<1> USE DEF Inv
<1>1. /\ pc = "write" /\ pc' = "sync"
      /\ data' = [data EXCEPT ![dir[pid]] = goal]
      /\ UNCHANGED <<dir, ddir, synced, pid, goal, acked, failures>>
  BY DEF WriteAll, Goto
<1>2. /\ dir[pid] \in Files \ {NoFile}
      /\ dir[pid] \notin Targets("output")
      /\ "output" \in Names
  BY <1>1, TemporaryApart
<1>3. /\ data' \in [Files \ {NoFile} -> Contents \cup {"partial"}]
      /\ data'[dir[pid]] = goal
      /\ \A f \in Files \ {NoFile, dir[pid]} : data'[f] = data[f]
  BY <1>1, <1>2 DEF TypeOK
<1>4. TypeOK' /\ NamesApart' /\ TemporaryNew' /\ TemporaryWritten'
  BY <1>1, <1>3 DEF TypeOK, NamesApart, Targets, TemporaryNew, TemporaryWritten
<1>5. OutputSynced'
  <2>1. Targets("output")' = Targets("output") /\ Targets("output") \subseteq Files
    BY <1>1, <1>2 DEF Targets, TypeOK
  <2> QED
    BY <1>1, <1>2, <1>3, <2>1 DEF OutputSynced
<1> QED
  BY <1>4, <1>5

(* What is synced has its content before it gets the name of the output. *)
LEMMA SyncFileInv ==
    ASSUME Inv, SyncFile
    PROVE  Inv'
<1> USE DEF Inv
<1>1. /\ pc = "sync" /\ pc' = "rename"
      /\ synced' = synced \cup {dir[pid]}
      /\ UNCHANGED <<dir, ddir, data, pid, goal, acked, failures>>
  BY DEF SyncFile, Goto
<1>2. dir[pid] \in Files \ {NoFile}
  BY <1>1, TemporaryApart
<1> QED
  BY <1>1, <1>2 DEF TypeOK, NamesApart, Targets, TemporaryNew, TemporaryWritten,
                    OutputSynced

(* The rename gives the output the new file, whose data is on the disk. *)
LEMMA RenameInv ==
    ASSUME Inv, Rename
    PROVE  Inv'
<1> USE DEF Inv
<1>1. /\ pc = "rename" /\ pc' = "dirsync"
      /\ dir' = [dir EXCEPT !["output"] = dir[pid], ![pid] = NoFile]
      /\ UNCHANGED <<ddir, data, synced, pid, goal, acked, failures>>
  BY DEF Rename, Goto
<1>2. /\ dir[pid] \in Files \ {NoFile}
      /\ "output" \in Names /\ pid \in Names /\ pid # "output"
  BY <1>1, TemporaryApart
<1>3. NoFile \in Files
  BY NamesFinite
<1>4. /\ dir' \in [Names -> Files]
      /\ dir'["output"] = dir[pid] /\ dir'[pid] = NoFile
      /\ \A n \in Names \ {pid, "output"} : dir'[n] = dir[n]
  BY <1>1, <1>2, <1>3 DEF TypeOK
<1>5. TypeOK'
  BY <1>1, <1>4 DEF TypeOK
<1>6. NamesApart'
  <2> SUFFICES ASSUME NEW m \in Names, NEW n \in Names, m # n,
                      NEW f \in Targets(m)' \cap Targets(n)'
               PROVE  f = NoFile
    BY DEF NamesApart
  <2>1. \A k \in Names : ddir[k] # dir[pid]
    BY <1>1 DEF TemporaryNew
  <2>2. \A k \in Names \ {pid} : dir[k] # dir[pid]
    BY <1>2 DEF NamesApart, Targets
  <2>3. \A k \in Names : Targets(k)' \subseteq Targets(k) \cup {NoFile, dir[pid]}
    BY <1>1, <1>4 DEF Targets
  <2>4. \A k \in Names \ {"output"} : dir[pid] \notin Targets(k)'
    BY <1>1, <1>2, <1>4, <2>1, <2>2 DEF Targets
  <2>5. f # dir[pid]
    BY <2>4
  <2>6. f \in Targets(m) \cup {NoFile} /\ f \in Targets(n) \cup {NoFile}
    BY <2>3, <2>5
  <2> QED
    BY <2>6 DEF NamesApart
<1>7. OutputSynced'
  BY <1>1, <1>2, <1>4 DEF OutputSynced, Targets, TemporaryWritten
<1> QED
  BY <1>1, <1>5, <1>6, <1>7 DEF TemporaryNew, TemporaryWritten

(* Success: the new name is on the disk as well. *)
LEMMA SyncDirectoryInv ==
    ASSUME Inv, SyncDirectory
    PROVE  Inv'
<1> USE DEF Inv
<1>1. /\ pc = "dirsync" /\ pc' = "idle" /\ acked' = goal /\ ddir' = dir
      /\ UNCHANGED <<dir, data, synced, pid, goal, failures>>
  BY DEF SyncDirectory
<1>2. TypeOK'
  BY <1>1 DEF TypeOK
<1>3. NamesApart'
  BY <1>1 DEF NamesApart, Targets
<1>4. OutputSynced'
  BY <1>1 DEF OutputSynced, Targets
<1> QED
  BY <1>1, <1>2, <1>3, <1>4 DEF TemporaryNew, TemporaryWritten

(* A run that fails takes its temporary file with it. *)
LEMMA RemoveTemporaryInv ==
    ASSUME Inv, RemoveTemporary
    PROVE  Inv'
<1> USE DEF Inv
<1>1. /\ pc = "remove" /\ pc' = "idle"
      /\ dir' = [dir EXCEPT ![pid] = NoFile]
      /\ UNCHANGED <<ddir, data, synced, pid, goal, acked, failures>>
  BY DEF RemoveTemporary, Goto
<1>2. "output" \in Names /\ pid \in Names /\ pid # "output" /\ NoFile \in Files
  BY ToolAssumption, NamesFinite DEF Names, TypeOK
<1>3. /\ dir' \in [Names -> Files]
      /\ dir'["output"] = dir["output"]
      /\ \A n \in Names : dir'[n] \in {dir[n], NoFile}
  BY <1>1, <1>2 DEF TypeOK
<1>4. NamesApart'
  <2>1. \A n \in Names : Targets(n)' \subseteq Targets(n) \cup {NoFile}
    BY <1>1, <1>3 DEF Targets
  <2> QED
    BY <2>1 DEF NamesApart
<1>5. OutputSynced'
  BY <1>1, <1>3 DEF OutputSynced, Targets
<1> QED
  BY <1>1, <1>3, <1>4, <1>5 DEF TypeOK, TemporaryNew, TemporaryWritten

(* A power loss brings back some of the names on the disk, and loses the data   *)
(* that was not synced.                                                      *)
LEMMA PowerLossInv ==
    ASSUME Inv, PowerLoss
    PROVE  Inv'
<1> USE DEF Inv
<1>1. PICK kept \in SUBSET Names :
          dir' = [n \in Names |-> IF n \in kept THEN ddir[n] ELSE dir[n]]
  BY DEF PowerLoss
<1>2. /\ pc' = "idle" /\ ddir' = dir'
      /\ data' = [f \in DOMAIN data |-> IF f \in synced THEN data[f] ELSE "partial"]
      /\ UNCHANGED <<synced, pid, goal, acked>>
      /\ failures < MaxFailures /\ failures' = failures + 1
  BY DEF PowerLoss, Disturb
<1>3. dir' \in [Names -> Files] /\ \A n \in Names : dir'[n] \in Targets(n)
  BY <1>1 DEF Targets, TypeOK
<1>4. /\ data' \in [Files \ {NoFile} -> Contents \cup {"partial"}]
      /\ \A f \in synced : data'[f] = data[f]
  BY <1>2 DEF TypeOK
<1>5. failures' \in 0..MaxFailures
  BY <1>2, ToolAssumption DEF TypeOK
<1>6. TypeOK'
  BY <1>2, <1>3, <1>4, <1>5 DEF TypeOK
<1>7. \A n \in Names : Targets(n)' \subseteq Targets(n)
  BY <1>2, <1>3 DEF Targets
<1>8. NamesApart'
  BY <1>7 DEF NamesApart
<1>9. OutputSynced'
  <2>1. Targets("output")' \subseteq Targets("output")
    BY <1>7 DEF Names
  <2> QED
    BY <1>2, <1>4, <2>1 DEF OutputSynced
<1> QED
  BY <1>2, <1>6, <1>8, <1>9 DEF TemporaryNew, TemporaryWritten

(* Every step keeps the invariant. *)
LEMMA InvInductive ==
    ASSUME Inv, [Next]_vars
    PROVE  Inv'
<1>1. CASE NextGoal
  BY <1>1 DEF NextGoal, disk, Inv, TypeOK, NamesApart, Targets, TemporaryNew,
              TemporaryWritten, OutputSynced
<1>2. CASE StartRun
  BY <1>2 DEF StartRun, disk, Inv, TypeOK, NamesApart, Targets, TemporaryNew,
              TemporaryWritten, OutputSynced
<1>3. CASE CallFails \/ Kill
  <2>1. failures' \in 0..MaxFailures
    BY <1>3, ToolAssumption DEF CallFails, Kill, Disturb, Inv, TypeOK
  <2>2. pc' \in {"idle", "remove"} /\ UNCHANGED <<dir, ddir, data, synced, pid, goal, acked>>
    BY <1>3 DEF CallFails, Kill, disk
  <2> QED
    BY <2>1, <2>2 DEF Inv, TypeOK, NamesApart, Targets, TemporaryNew,
                      TemporaryWritten, OutputSynced
<1>4. CASE UNCHANGED vars
  BY <1>4 DEF vars, disk, Inv, TypeOK, NamesApart, Targets, TemporaryNew,
              TemporaryWritten, OutputSynced
<1> QED
  BY <1>1, <1>2, <1>3, <1>4, OpenTemporaryInv, WriteAllInv, SyncFileInv, RenameInv,
     SyncDirectoryInv, RemoveTemporaryInv, PowerLossInv DEF Next

(* No run and no power loss leaves the invariant. *)
LEMMA InvHolds == Spec => []Inv
<1>1. Init => Inv
  <2> SUFFICES ASSUME Init PROVE Inv
    OBVIOUS
  <2>1. NoFile \in Files
    BY NamesFinite
  <2>2. TypeOK
    BY <2>1, ToolAssumption DEF Init, TypeOK
  <2>3. \A n \in Names : Targets(n) = {NoFile}
    BY DEF Init, Targets
  <2>4. Targets("output") = {NoFile}
    BY <2>3 DEF Names
  <2> QED
    BY <2>2, <2>3, <2>4 DEF Init, Inv, NamesApart, TemporaryNew, TemporaryWritten,
                            OutputSynced
<1>2. Inv /\ [Next]_vars => Inv'
  BY InvInductive
<1> QED
  BY <1>1, <1>2, PTL DEF Spec
-----------------------------------------------------------------------------
(* Every state of the tool and the file system is one of the type invariant's. *)
THEOREM TypeCorrect == Spec => []TypeOK
<1>1. Inv => TypeOK
  BY DEF Inv
<1> QED
  BY <1>1, InvHolds, PTL

(* The output is absent or whole, whatever is cut off where.                  *)
THEOREM OutputSafe == Spec => []OutputWhole
<1>1. Inv => OutputWhole
  BY DEF Inv, OutputSynced, Targets, OutputWhole, Output, DataOf
<1> QED
  BY <1>1, InvHolds, PTL

(* What was reported as written is not lost again.                            *)
THEOREM SuccessSafe == Spec => []SuccessSurvives
<1>1. Inv => SuccessSurvives
  BY DEF Inv, OutputSynced, Targets, SuccessSurvives, Output, DataOf
<1> QED
  BY <1>1, InvHolds, PTL
=============================================================================
