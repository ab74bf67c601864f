------------------------------ MODULE ReleaseTool ------------------------------
(***************************************************************************)
(* How the release tool replaces its output, a signed manifest or an       *)
(* ignore record: atomic_write of crates/release-tool/src/lib.rs over a    *)
(* file system that keeps neither data nor names across a power loss until *)
(* they are synced.                                                        *)
(*                                                                         *)
(* A run of the tool may fail in any call, be killed, or lose power.  The  *)
(* name of its temporary file holds its process id, which the next run may *)
(* well have again (in a container it usually does).                       *)
(***************************************************************************)
EXTENDS Naturals, FiniteSets

CONSTANTS
    Contents,     \* what runs are asked to write
    Pids,         \* the process ids a run may have
    MaxFailures   \* bound: errors, kills and power losses

ASSUME ToolAssumption ==
    /\ IsFiniteSet(Pids) /\ "output" \notin Pids
    /\ "none" \notin Contents /\ "partial" \notin Contents
    /\ MaxFailures \in Nat

Names == Pids \cup {"output"}
\* More files than names can refer to.
Files == 0..(2 * Cardinality(Names) + 1)
NoFile == 0

VARIABLES
    dir,       \* the names as the host sees them
    ddir,      \* the names on the disk
    data,      \* the data of the files; "partial" is less than asked for
    synced,    \* the files whose data is on the disk
    pc,        \* the call of atomic_write the tool is at
    pid,       \* its process id
    goal,      \* what it is asked to write, run after run until it succeeds
    acked,     \* history: the contents of the last success
    failures

disk == <<dir, ddir, data, synced>>
vars == <<disk, pc, pid, goal, acked, failures>>

DataOf(f) == IF f = NoFile THEN "none" ELSE data[f]
Output == DataOf(dir["output"])

TypeOK ==
    /\ dir \in [Names -> Files] /\ ddir \in [Names -> Files]
    /\ data \in [Files \ {NoFile} -> Contents \cup {"partial"}]
    /\ synced \subseteq Files \ {NoFile}
    /\ pc \in {"idle", "open", "write", "sync", "rename", "dirsync", "remove"}
    /\ pid \in Pids
    /\ goal \in Contents
    /\ acked \in Contents \cup {"none"}
    /\ failures \in 0..MaxFailures

Init ==
    /\ dir = [n \in Names |-> NoFile] /\ ddir = dir
    /\ data = [f \in Files \ {NoFile} |-> "partial"]
    /\ synced = {}
    /\ pc = "idle"
    /\ pid \in Pids
    /\ goal \in Contents
    /\ acked = "none"
    /\ failures = 0

Goto(l) == pc' = l /\ UNCHANGED <<pid, goal, acked, failures>>

\* Another manifest or record is due once the last was written.
NextGoal ==
    /\ pc = "idle" /\ acked = goal
    /\ \E c \in Contents \ {goal} : goal' = c
    /\ UNCHANGED <<disk, pc, pid, acked, failures>>

\* A run that gets as far as atomic_write: its arguments, keys and image passed.
StartRun ==
    /\ pc = "idle" /\ acked # goal
    /\ pid' \in Pids
    /\ pc' = "open"
    /\ UNCHANGED <<disk, goal, acked, failures>>

\* create_new: a temporary file of the same name makes the call fail.
OpenTemporary ==
    /\ pc = "open"
    /\ \/ /\ dir[pid] = NoFile
          /\ LET f == CHOOSE f \in Files \ {NoFile} :
                        \A n \in Names : f # dir[n] /\ f # ddir[n]
             IN  /\ dir' = [dir EXCEPT ![pid] = f]
                 /\ data' = [data EXCEPT ![f] = "partial"]
                 /\ synced' = synced \ {f}
          /\ UNCHANGED ddir
          /\ Goto("write")
       \/ dir[pid] # NoFile /\ Goto("remove") /\ UNCHANGED disk

WriteAll ==
    /\ pc = "write"
    /\ data' = [data EXCEPT ![dir[pid]] = goal]
    /\ Goto("sync")
    /\ UNCHANGED <<dir, ddir, synced>>

SyncFileSkipped == pc = "sync" /\ Goto("rename") /\ UNCHANGED disk

SyncFile ==
    /\ pc = "sync"
    /\ synced' = synced \cup {dir[pid]}
    /\ Goto("rename")
    /\ UNCHANGED <<dir, ddir, data>>

Rename ==
    /\ pc = "rename"
    /\ dir' = [dir EXCEPT !["output"] = dir[pid], ![pid] = NoFile]
    /\ Goto("dirsync")
    /\ UNCHANGED <<ddir, data, synced>>

\* The directory is closed without a sync.
SyncDirectorySkipped ==
    /\ pc = "dirsync"
    /\ pc' = "idle" /\ acked' = goal
    /\ UNCHANGED <<disk, pid, goal, failures>>

SyncDirectory ==
    /\ pc = "dirsync"
    /\ ddir' = dir
    /\ pc' = "idle" /\ acked' = goal
    /\ UNCHANGED <<dir, data, synced, pid, goal, failures>>

\* An error leaves the temporary file behind.
RemoveTemporarySkipped == pc = "remove" /\ Goto("idle") /\ UNCHANGED disk

\* After any error the temporary file is removed, whoever made it.
RemoveTemporary ==
    /\ pc = "remove"
    /\ dir' = [dir EXCEPT ![pid] = NoFile]
    /\ Goto("idle")
    /\ UNCHANGED <<ddir, data, synced>>

Disturb == failures < MaxFailures /\ failures' = failures + 1

\* A call returns an error; what write_all wrote until then stays.  An error of
\* remove_file itself is ignored.
CallFails ==
    /\ pc # "idle"
    /\ Disturb
    /\ pc' = IF pc = "remove" THEN "idle" ELSE "remove"
    /\ UNCHANGED <<disk, pid, goal, acked>>

Kill ==
    /\ pc # "idle"
    /\ Disturb
    /\ pc' = "idle"
    /\ UNCHANGED <<disk, pid, goal, acked>>

\* Each name is as it was on the disk or as it was last changed.
PowerLoss ==
    /\ Disturb
    /\ pc' = "idle"
    /\ \E kept \in SUBSET Names :
          dir' = [n \in Names |-> IF n \in kept THEN ddir[n] ELSE dir[n]]
    /\ ddir' = dir'
    /\ data' = [f \in DOMAIN data |-> IF f \in synced THEN data[f] ELSE "partial"]
    /\ UNCHANGED <<synced, pid, goal, acked>>

Next ==
    \/ NextGoal \/ StartRun \/ OpenTemporary \/ WriteAll \/ SyncFile \/ Rename
    \/ SyncDirectory \/ RemoveTemporary \/ CallFails \/ Kill \/ PowerLoss

\* A run goes on until it ends, and whoever started it tries again.
Fairness ==
    WF_vars(StartRun \/ OpenTemporary \/ WriteAll \/ SyncFile \/ Rename
            \/ SyncDirectory \/ RemoveTemporary)

Spec == Init /\ [][Next]_vars /\ Fairness
-----------------------------------------------------------------------------
(* Properties *)

\* The output is never a part of a manifest or record, whatever is cut off
\* where: it is absent, what the last success wrote, or what the present
\* attempts write (atomic_write).
OutputWhole == Output \in {"none", acked, goal}

\* What the tool reported as written survives a power loss: it is replaced by
\* later attempts only (sync of the file before the rename, of the directory
\* after it).
SuccessSurvives == acked # "none" => Output \in {acked, goal}

\* A temporary file that a killed run left behind makes one run with the same
\* process id fail, and no more: whoever tries again succeeds.
RetrySucceeds == \A c \in Contents : goal = c ~> acked = c
=============================================================================
