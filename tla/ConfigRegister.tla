---------------------------- MODULE ConfigRegister ----------------------------
(***************************************************************************)
(* What provisioning promises its owner: a register that survives power    *)
(* loss.  At any moment a boot would load either the configuration the     *)
(* session is based on, or the one whose write was last attempted: never   *)
(* an older one, never a mixture, and never nothing once there was one.    *)
(***************************************************************************)
CONSTANTS Configs, NoConfig

VARIABLES
    stored, \* the configuration a boot would load now
    base,   \* the one the session loaded or last acknowledged
    active  \* the one the firmware runs with, once it has one

vars == <<stored, base, active>>

Init == stored = NoConfig /\ base = NoConfig /\ active = NoConfig

\* A boot reads the journal.
Load ==
    /\ base' = stored
    /\ active' = NoConfig
    /\ UNCHANGED stored

\* A write of c is attempted: it succeeds, is undone, or undoes an earlier
\* attempt that was never acknowledged.
Attempt(c) ==
    /\ stored' \in {c, base}
    /\ UNCHANGED <<base, active>>

\* The write is acknowledged and the firmware goes on with c.
Acknowledge(c) ==
    /\ stored = c
    /\ base' = c
    /\ active' = c
    /\ UNCHANGED stored

\* The replacement window closes: the firmware goes on with what it loaded.
Keep ==
    /\ base # NoConfig
    /\ active' = base
    /\ UNCHANGED <<stored, base>>

\* Power is lost, possibly within an attempt.
Crash ==
    /\ stored' \in {stored, base}
    /\ active' = NoConfig
    /\ UNCHANGED base

Next ==
    \/ Load \/ Keep \/ Crash
    \/ \E c \in Configs : Attempt(c) \/ Acknowledge(c)

Spec == Init /\ [][Next]_vars
=============================================================================
