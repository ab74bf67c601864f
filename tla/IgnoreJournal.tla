---------------------------- MODULE IgnoreJournal ----------------------------
(***************************************************************************)
(* The ignored version an operator sets with scripts/flash.sh, from the    *)
(* record of the release tool (generate_ignore_record) over the two        *)
(* sectors of the device to what src/ota_ignore.rs reads.                  *)
(*                                                                         *)
(* Unlike the provisioning journal, both copies get the same record, the   *)
(* first one first, and every record has sequence 1: of two valid copies   *)
(* the first one counts.  A command of the script may fail at any point,   *)
(* inside a write too, and someone may cycle the power of the device.      *)
(***************************************************************************)
EXTENDS Naturals

CONSTANTS
    Versions,     \* the versions an operator may name
    MaxSessions   \* bound: runs of the script with one of its options

ASSUME IgnoreAssumption ==
    {"none", "blank", "torn"} \cap Versions = {} /\ MaxSessions \in Nat

Decisions == Versions \cup {"none"}
Invalid == {"blank", "torn"}

VARIABLES
    copies,     \* the two sectors
    pc,         \* the next command of the script; "writing" is inside one
    copy,       \* the sector the script is at
    target,     \* the decision of the session
    device,     \* "running" the app, or held in the "loader"
    newApp,     \* the session's app is in flash
    before,     \* history: what counted when the session began
    agreed,     \* history: the copies were equal then
    disturbed,  \* history: a command failed, or the power was cycled
    sessions

session == <<target, before, agreed, sessions>>
vars == <<copies, pc, copy, device, newApp, disturbed, session>>

\* Copies of one sequence: the first is taken unless it is no record.
NewestOtaIgnoreRecord(c) == IF c[1] \notin Invalid THEN c[1] ELSE c[2]

\* What a check for updates passes over; no record suppresses nothing.  Neither
\* does a flash that cannot be read, in that one check: OtaUpdate has such a read
\* (unread), and the properties here are about what reads that succeed find.
IgnoredVersion(c) ==
    LET r == NewestOtaIgnoreRecord(c) IN IF r \in Invalid THEN "none" ELSE r

TypeOK ==
    /\ copies \in [1..2 -> Decisions \cup Invalid]
    /\ pc \in {"idle", "flash", "write", "writing", "reset"}
    /\ copy \in 1..2
    /\ target \in Decisions /\ before \in Decisions
    /\ device \in {"running", "loader"}
    /\ newApp \in BOOLEAN /\ agreed \in BOOLEAN /\ disturbed \in BOOLEAN
    /\ sessions \in 0..MaxSessions

Init ==
    /\ copies = [i \in 1..2 |-> "blank"]
    /\ pc = "idle"
    /\ copy = 1
    /\ target = "none" /\ before = "none"
    /\ device = "running"
    /\ newApp = FALSE /\ agreed = TRUE /\ disturbed = FALSE
    /\ sessions = 0

\* The record is generated on the host before the device is touched.
StartSession ==
    /\ pc = "idle"
    /\ sessions < MaxSessions
    /\ \E d \in Decisions : target' = d
    /\ before' = IgnoredVersion(copies)
    /\ agreed' = (copies[1] = copies[2])
    /\ sessions' = sessions + 1
    /\ pc' = "flash" /\ copy' = 1
    /\ newApp' = FALSE /\ disturbed' = FALSE
    /\ UNCHANGED <<copies, device>>

\* espflash flash without --after no-reset.
FlashAppAndReset ==
    /\ pc = "flash"
    /\ pc' = "write"
    /\ device' = "running"
    /\ newApp' = TRUE
    /\ UNCHANGED <<copies, copy, disturbed, session>>

\* espflash flash --after no-reset: every command holds the device.
FlashApp ==
    /\ pc = "flash"
    /\ pc' = "write"
    /\ device' = "loader"
    /\ newApp' = TRUE
    /\ UNCHANGED <<copies, copy, disturbed, session>>

\* Both sectors are erased before the first is written.
BeginWriteErasingBoth ==
    /\ pc = "write"
    /\ pc' = "writing"
    /\ device' = "loader"
    /\ copies' = IF copy = 1 THEN [i \in 1..2 |-> "blank"]
                 ELSE [copies EXCEPT ![copy] = "torn"]
    /\ UNCHANGED <<copy, newApp, disturbed, session>>

BeginWrite ==
    /\ pc = "write"
    /\ pc' = "writing"
    /\ device' = "loader"
    /\ copies' = [copies EXCEPT ![copy] = "torn"]
    /\ UNCHANGED <<copy, newApp, disturbed, session>>

EndWrite ==
    /\ pc = "writing"
    /\ copies' = [copies EXCEPT ![copy] = target]
    /\ pc' = IF copy = 1 THEN "write" ELSE "reset"
    /\ copy' = 2
    /\ UNCHANGED <<device, newApp, disturbed, session>>

ResetDevice ==
    /\ pc = "reset"
    /\ pc' = "idle"
    /\ device' = "running"
    /\ UNCHANGED <<copies, copy, newApp, disturbed, session>>

\* set -e: the script ends with the first command that fails, and leaves the
\* device as that command left it.
CommandFails ==
    /\ pc # "idle"
    /\ pc' = "idle"
    /\ disturbed' = TRUE
    /\ UNCHANGED <<copies, copy, device, newApp, session>>

\* The device boots what it has; a command it was in fails.
PowerCycle ==
    /\ device' = "running"
    /\ pc' = IF pc = "writing" THEN "idle" ELSE pc
    /\ disturbed' = (disturbed \/ pc # "idle")
    /\ UNCHANGED <<copies, copy, newApp, session>>

Next ==
    \/ StartSession \/ FlashApp \/ BeginWrite \/ EndWrite \/ ResetDevice
    \/ CommandFails \/ PowerCycle

Spec == Init /\ [][Next]_vars
-----------------------------------------------------------------------------
(* Properties *)

\* Wherever a session that began with equal copies is cut off, the device
\* passes over the version it passed over before or the one asked for: the copy
\* that is being written is never the only one.  (Two sessions cut off in a row
\* may lose the decision, or bring back the one before the last.)
DecisionOldOrNew == agreed => IgnoredVersion(copies) \in {before, target}

\* The newly flashed app does not start before both sectors hold the session's
\* decision, unless a command failed or the power was cycled (flash.sh, reset
\* once after both writes).
NewAppKnowsDecision ==
    device = "running" /\ newApp /\ ~disturbed =>
        pc = "idle" /\ \A i \in 1..2 : copies[i] = target
=============================================================================
