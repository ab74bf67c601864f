--------------------------- MODULE ProvisionJournal ---------------------------
(***************************************************************************)
(* USB provisioning: load_or_provision of src/provision.rs over the two    *)
(* journal sectors at 0x9000 and 0xa000, with the record choice and the    *)
(* wrapping sequence of crates/ota-core.  Power may fail between any two   *)
(* steps and inside a write; a write or a read back may report an error or *)
(* leave other bytes than it was given.                                    *)
(*                                                                         *)
(* The device writes a banner, and an answer to everything the host sends: *)
(* while it does, it depends on a host that may not read.  A read of no    *)
(* bytes changes nothing and is left out, as is the split of the input     *)
(* into lines; the OK answer and its flush end with the session they       *)
(* belong to.                                                              *)
(***************************************************************************)
EXTENDS Naturals

CONSTANTS
    Configs,   \* track, SSID and password, as one value
    NoConfig,
    Half,      \* half the range of the sequence number: 2^31 in the code
    ReadsFail  \* whether a read of the journal at boot may fail

ASSUME ConfigAssumption == NoConfig \notin Configs
ASSUME SequenceAssumption == Half \in Nat /\ Half >= 2
ASSUME FaultAssumption == ReadsFail \in BOOLEAN

Sectors == {"A", "B"}
OtherSector(s) == IF s = "A" THEN "B" ELSE "A"
Sequences32 == 0..(2 * Half - 1)

\* A record whose magic, schema and digest agree, or bytes that are none.
Records == [cfg : Configs, seq : Sequences32]
Invalid == [cfg |-> NoConfig, seq |-> 0]

\* newest_provision_record found nothing, or the journal could not be read.
Nothing == "none"

VARIABLES
    sector,   \* the contents of the two sectors
    existing, \* the sector that holds the newest record, as read at boot
    home,     \* history: the sector that really held the newest record then
    base,     \* history: the configuration the session is based on
    pc,       \* where load_or_provision is
    window,   \* the two-second replacement window is still open
    command,  \* the record built from the command being stored
    active    \* the Provisioning that was returned

vars == <<sector, existing, home, base, pc, window, command, active>>

\* In "answer" the banner or an ERR line is written, in "ready" the host is
\* read.
PCs == {"off", "answer", "ready", "write", "readback", "running"}

TypeOK ==
    /\ sector \in [Sectors -> Records \cup {Invalid}]
    /\ existing \in Sectors \cup {Nothing}
    /\ home \in Sectors \cup {Nothing}
    /\ base \in Configs \cup {NoConfig}
    /\ pc \in PCs
    /\ window \in BOOLEAN
    /\ command \in Records \cup {Invalid}
    /\ active \in Configs \cup {NoConfig}
-----------------------------------------------------------------------------
\* wrapping_sub of two sequence numbers.
Distance(candidate, current) == (candidate + 2 * Half - current) % (2 * Half)

\* Mutant of SequenceIsNewer: a comparison that does not wrap.
SequenceIsGreater(candidate, current) == candidate > current

SequenceIsNewer(candidate, current) ==
    candidate # current /\ Distance(candidate, current) < Half

\* newest_provision_record, over the records a and b of the two sectors.
NewestOf(a, b) ==
    IF a # Invalid /\ b # Invalid
    THEN IF SequenceIsNewer(b.seq, a.seq) THEN "B" ELSE "A"
    ELSE IF a # Invalid THEN "A" ELSE IF b # Invalid THEN "B" ELSE Nothing

Newest == NewestOf(sector["A"], sector["B"])

\* The configuration a boot would load.
Stored == IF Newest = Nothing THEN NoConfig ELSE sector[Newest].cfg

\* Mutants of NextSequence: the sequence is not carried on, or does not wrap.
FirstSequence == 1

NextSequenceUnwrapped ==
    IF existing = Nothing THEN 1 ELSE sector[existing].seq + 1

\* existing.sequence.wrapping_add(1), or 1.
NextSequence ==
    IF existing = Nothing THEN 1 ELSE (sector[existing].seq + 1) % (2 * Half)

\* Mutant of Target: a single sector is rewritten in place.
FixedTarget == "A"

\* store writes the sector that does not hold the existing record.
Target == IF existing = "A" THEN "B" ELSE "A"
-----------------------------------------------------------------------------
Init ==
    /\ sector = [s \in Sectors |-> Invalid]
    /\ existing = Nothing
    /\ home = Nothing
    /\ base = NoConfig
    /\ pc = "off"
    /\ window = FALSE
    /\ command = Invalid
    /\ active = NoConfig

\* Both sectors are read; if either read fails the device takes itself for
\* unconfigured.  The banner is written next.
Boot ==
    /\ pc = "off"
    /\ existing' \in {Newest} \cup (IF ReadsFail THEN {Nothing} ELSE {})
    /\ home' = Newest
    /\ base' = IF existing' = Nothing THEN NoConfig ELSE Stored
    /\ window' = (existing' # Nothing)
    /\ pc' = "answer"
    /\ UNCHANGED <<sector, command, active>>

\* Two seconds after the boot, whatever the host did meanwhile.
CloseWindow ==
    /\ window
    /\ window' = FALSE
    /\ UNCHANGED <<sector, existing, home, base, pc, command, active>>

\* A configured device returns what it loaded once the window has closed.
KeepExisting ==
    /\ pc = "ready"
    /\ existing # Nothing /\ ~window
    /\ pc' = "running"
    /\ active' = sector[existing].cfg
    /\ UNCHANGED <<sector, existing, home, base, window, command>>

\* The read returned, and the window was still open then.
Heard ==
    /\ pc = "ready"
    /\ existing = Nothing \/ window

\* The read failed, or what was read is no command or too long for one.
RejectCommand ==
    /\ Heard
    /\ pc' = "answer"
    /\ UNCHANGED <<sector, existing, home, base, window, command, active>>

\* A complete command was read and parsed.
ReceiveCommand ==
    /\ Heard
    /\ \E c \in Configs : command' = [cfg |-> c, seq |-> NextSequence]
    /\ pc' = "write"
    /\ UNCHANGED <<sector, existing, home, base, window, active>>

\* store returned Err: the answer is ERR.
StoreFailed ==
    /\ pc' = "answer"
    /\ command' = Invalid
    /\ UNCHANGED <<existing, home, base, window, active>>

\* Mutant of FinishAnswer: the deadline starts again with every new attempt.
FinishAnswerRestart ==
    /\ pc = "answer"
    /\ pc' = "ready"
    /\ window' = (existing # Nothing)
    /\ UNCHANGED <<sector, existing, home, base, command, active>>

\* The host has taken the line, the write failed, or the window is over; then
\* the next command is read.
FinishAnswer ==
    /\ pc = "answer"
    /\ pc' = "ready"
    /\ UNCHANGED <<sector, existing, home, base, window, command, active>>

\* flash.write erases and programs the sector.
Overwrite == \E r \in {sector[Target], Invalid, command} :
                 sector' = [sector EXCEPT ![Target] = r]

WriteRecord ==
    /\ pc = "write"
    /\ Overwrite
    /\ \/ pc' = "readback" /\ UNCHANGED <<existing, home, base, window, command, active>>
       \/ StoreFailed

\* flash.read of the record and its comparison; after a match the answer is OK,
\* sent as far as the window is still open, and the command is in force.
ReadBack ==
    /\ pc = "readback"
    /\ \/ /\ sector[Target] = command
          /\ pc' = "running"
          /\ base' = command.cfg
          /\ active' = command.cfg
          /\ command' = Invalid
          /\ UNCHANGED <<sector, existing, home, window>>
       \/ StoreFailed /\ UNCHANGED sector

PowerLoss ==
    /\ pc # "off"
    /\ pc' = "off"
    /\ existing' = Nothing
    /\ window' = FALSE
    /\ command' = Invalid
    /\ active' = NoConfig
    /\ IF pc = "write" THEN Overwrite ELSE UNCHANGED sector
    /\ UNCHANGED <<home, base>>

Next ==
    \/ Boot \/ CloseWindow \/ KeepExisting \/ RejectCommand \/ ReceiveCommand
    \/ WriteRecord \/ ReadBack \/ FinishAnswer \/ PowerLoss

\* write_with_window gives up with the window of a configured device; without
\* one the write lasts until the host reads.
AnswerTimesOut == existing # Nothing /\ ~window /\ FinishAnswer

\* The timer fires, and load_or_provision is polled when it does.
Spec == Init /\ [][Next]_vars
        /\ WF_vars(CloseWindow) /\ WF_vars(KeepExisting)
        /\ WF_vars(WriteRecord) /\ WF_vars(ReadBack) /\ WF_vars(AnswerTimesOut)
-----------------------------------------------------------------------------
(* Properties                                                               *)

Register == INSTANCE ConfigRegister WITH stored <- Stored

\* The two sectors implement a register that survives power loss at any point:
\* what a boot loads is the acknowledged configuration or one whose write was
\* attempted after it.
ImplementsRegister == Register!Spec

\* Replacement writes the other sector (docs/firmware.md, Runtime
\* Configuration): the record that was the newest when the session began is not
\* touched before the next boot, however many commands and failures come.
WritesOtherSector ==
    [][ \A s \in Sectors : sector'[s] # sector[s] => s # home ]_vars

\* The records of the two sectors carry successive sequence numbers, so the
\* half-range comparison decides between them even where the number wraps.
SequencesSuccessive ==
    sector["A"] # Invalid /\ sector["B"] # Invalid =>
        \E s \in Sectors :
            sector[s].seq = (sector[OtherSector(s)].seq + 1) % (2 * Half)

\* A configured device leaves provisioning, whatever the host sends and whether
\* or not it reads the answers: neither a rejected command nor a failed store or
\* read starts the window again.
WindowEnds ==
    existing # Nothing ~> pc \in {"running", "off"}
=============================================================================
