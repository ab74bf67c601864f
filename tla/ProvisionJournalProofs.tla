------------------------ MODULE ProvisionJournalProofs ------------------------
(***************************************************************************)
(* Proofs about ProvisionJournal, for any set of configurations and any    *)
(* width of the sequence number: the two sectors implement ConfigRegister  *)
(* on a device whose journal can be read.                                  *)
(***************************************************************************)
EXTENDS ProvisionJournal, TLAPS

(* The sequence numbers are those of a wrapping counter. *)
LEMMA Wrapping ==
    ASSUME NEW n \in Sequences32
    PROVE  /\ (n + 1) % (2 * Half) \in Sequences32
           /\ (n + 1) % (2 * Half) = IF n + 1 = 2 * Half THEN 0 ELSE n + 1
<1>1. Half \in Nat /\ Half >= 2
  BY SequenceAssumption
<1>2. CASE n + 1 = 2 * Half
  <2>1. (n + 1) % (2 * Half) = 0
    BY <1>1, <1>2
  <2> QED
    BY <1>1, <1>2, <2>1 DEF Sequences32
<1>3. CASE n + 1 # 2 * Half
  <2>1. n + 1 \in 0..(2 * Half - 1)
    BY <1>1, <1>3 DEF Sequences32
  <2>2. (n + 1) % (2 * Half) = n + 1
    BY <1>1, <2>1
  <2> QED
    BY <1>3, <2>1, <2>2 DEF Sequences32
<1> QED
  BY <1>2, <1>3

(* Of two successive sequence numbers the half-range comparison picks the     *)
(* second, wherever the counter wraps.                                       *)
LEMMA SuccessorIsNewer ==
    ASSUME NEW m \in Sequences32, NEW n \in Sequences32, n = (m + 1) % (2 * Half)
    PROVE  SequenceIsNewer(n, m) /\ ~SequenceIsNewer(m, n)
<1>1. Half \in Nat /\ Half >= 2 /\ m \in Nat /\ n \in Nat /\ m < 2 * Half
  BY SequenceAssumption DEF Sequences32
<1>2. CASE m + 1 = 2 * Half
  <2>1. n = 0
    BY <1>2, Wrapping
  <2>2. (n + 2 * Half - m) % (2 * Half) = 1
    BY <1>1, <1>2, <2>1
  <2>3. (m + 2 * Half - n) % (2 * Half) = m
    <3>1. m + 2 * Half - n = m + 2 * Half
      BY <1>1, <2>1
    <3> QED
      BY <1>1, <3>1
  <2> QED
    BY <1>1, <1>2, <2>1, <2>2, <2>3 DEF SequenceIsNewer, Distance
<1>3. CASE m + 1 # 2 * Half
  <2>1. n = m + 1
    BY <1>3, Wrapping
  <2>2. (n + 2 * Half - m) % (2 * Half) = 1
    <3>1. n + 2 * Half - m = 2 * Half + 1
      BY <1>1, <2>1
    <3> QED
      BY <1>1, <3>1
  <2>3. (m + 2 * Half - n) % (2 * Half) = 2 * Half - 1
    <3>1. m + 2 * Half - n = 2 * Half - 1
      BY <1>1, <2>1
    <3> QED
      BY <1>1, <3>1
  <2> QED
    BY <1>1, <2>1, <2>2, <2>3 DEF SequenceIsNewer, Distance
<1> QED
  BY <1>2, <1>3

(* A record is told from bytes that are none. *)
LEMMA RecordsValid ==
    ASSUME NEW r \in Records
    PROVE  r # Invalid /\ r.cfg \in Configs /\ r.seq \in Sequences32
BY ConfigAssumption DEF Records, Invalid

(* The fields of a record, and of a sector that holds none. *)
LEMMA SequenceTypes ==
    ASSUME NEW r \in Records \cup {Invalid}
    PROVE  /\ r.seq \in Sequences32
           /\ r.cfg \in Configs \cup {NoConfig}
           /\ r # Invalid => r \in Records /\ r.cfg # NoConfig
BY ConfigAssumption, SequenceAssumption DEF Records, Invalid, Sequences32

-----------------------------------------------------------------------------
(* The type invariant, whether or not reads fail.                           *)

(* What the step of a storing command may leave in the sector it writes. *)
LEMMA OverwriteTypes ==
    ASSUME TypeOK, Overwrite
    PROVE  sector' \in [Sectors -> Records \cup {Invalid}]
BY DEF TypeOK, Overwrite, Target, Sectors

(* The record a boot chooses is in one of the two sectors. *)
LEMMA NewestTypes ==
    ASSUME TypeOK
    PROVE  /\ Newest \in Sectors \cup {Nothing}
           /\ Stored \in Configs \cup {NoConfig}
<1>1. Newest \in Sectors \cup {Nothing}
  BY DEF Newest, NewestOf, Sectors
<1>2. \A s \in Sectors : sector[s].cfg \in Configs \cup {NoConfig}
  BY SequenceTypes DEF TypeOK
<1> QED
  BY <1>1, <1>2 DEF Stored

(* A new command carries a sequence number of the counter. *)
LEMMA NextSequenceTypes ==
    ASSUME TypeOK
    PROVE  NextSequence \in Sequences32
<1>1. CASE existing = Nothing
  BY <1>1, SequenceAssumption DEF NextSequence, Sequences32
<1>2. CASE existing # Nothing
  <2>1. sector[existing].seq \in Sequences32
    BY <1>2, SequenceTypes DEF TypeOK
  <2> QED
    BY <1>2, <2>1, Wrapping DEF NextSequence
<1> QED
  BY <1>1, <1>2

(* Every state of provisioning is one of the states of the type invariant.    *)
THEOREM TypeCorrect == Spec => []TypeOK
<1>1. Init => TypeOK
  BY DEF Init, TypeOK, Sectors, PCs
<1>2. TypeOK /\ [Next]_vars => TypeOK'
  <2> SUFFICES ASSUME TypeOK, [Next]_vars
               PROVE  TypeOK'
    OBVIOUS
  <2>1. CASE Boot
    BY <2>1, NewestTypes DEF Boot, TypeOK, PCs
  <2>2. CASE CloseWindow
    BY <2>2 DEF CloseWindow, TypeOK
  <2>3. CASE KeepExisting
    <3>1. sector[existing].cfg \in Configs \cup {NoConfig}
      BY <2>3, SequenceTypes DEF KeepExisting, TypeOK
    <3> QED
      BY <2>3, <3>1 DEF KeepExisting, TypeOK, PCs
  <2>4. CASE ReceiveCommand
    BY <2>4, NextSequenceTypes DEF ReceiveCommand, Heard, TypeOK, PCs, Records
  <2>5. CASE WriteRecord
    BY <2>5, OverwriteTypes DEF WriteRecord, StoreFailed, TypeOK, PCs
  <2>6. CASE ReadBack
    <3>1. command.cfg \in Configs \cup {NoConfig}
      BY SequenceTypes DEF TypeOK
    <3> QED
      BY <2>6, <3>1 DEF ReadBack, StoreFailed, TypeOK, PCs
  <2>7. CASE PowerLoss
    <3>1. sector' \in [Sectors -> Records \cup {Invalid}]
      BY <2>7, OverwriteTypes DEF PowerLoss, TypeOK
    <3> QED
      BY <2>7, <3>1 DEF PowerLoss, TypeOK, PCs
  <2>8. CASE RejectCommand \/ FinishAnswer
    BY <2>8 DEF RejectCommand, FinishAnswer, TypeOK, PCs
  <2>9. CASE UNCHANGED vars
    BY <2>9 DEF vars, TypeOK
  <2> QED
    BY <2>1, <2>2, <2>3, <2>4, <2>5, <2>6, <2>7, <2>8, <2>9 DEF Next
<1> QED
  BY <1>1, <1>2, PTL DEF Spec
-----------------------------------------------------------------------------
(* The inductive invariant, on a device whose journal can be read.          *)

\* The session works on the record that really was the newest, and leaves it
\* readable; without one there is nothing in the second sector either.
SessionOnNewest ==
    pc # "off" =>
        /\ existing = home
        /\ existing = Nothing => sector["B"] = Invalid
        /\ existing # Nothing => sector[existing] # Invalid

\* The configuration to fall back to is the one of that record.
BaseStored ==
    pc \in {"answer", "ready", "write", "readback"} =>
        base = IF existing = Nothing THEN NoConfig ELSE sector[existing].cfg

\* Nothing is in force before the session ends.
ActiveLast == pc # "running" => active = NoConfig

\* A command being stored succeeds the record of the session.
CommandSucceeds ==
    pc \in {"write", "readback"} => command \in Records /\ command.seq = NextSequence

Inv ==
    /\ TypeOK
    /\ SequencesSuccessive
    /\ SessionOnNewest
    /\ BaseStored
    /\ ActiveLast
    /\ CommandSucceeds

(* The choice between two records that succeed one another, or of the only one. *)
LEMMA NewestOfSuccessor ==
    ASSUME NEW old \in Records, NEW new \in Records,
           new.seq = (old.seq + 1) % (2 * Half)
    PROVE  /\ NewestOf(old, new) = "B"
           /\ NewestOf(new, old) = "A"
           /\ NewestOf(old, Invalid) = "A"
           /\ NewestOf(Invalid, old) = "B"
<1>1. old.seq \in Sequences32 /\ new.seq \in Sequences32
  BY RecordsValid
<1>2. SequenceIsNewer(new.seq, old.seq) /\ ~SequenceIsNewer(old.seq, new.seq)
  BY <1>1, SuccessorIsNewer
<1>3. old # Invalid /\ new # Invalid
  BY RecordsValid
<1> QED
  BY <1>2, <1>3 DEF NewestOf

(* A write under way leaves the session's record alone, keeps the two records  *)
(* successive, and what a boot would then load is what it would have loaded,  *)
(* the configuration of the session, or the command's.                       *)
LEMMA OverwriteEffect ==
    ASSUME Inv, pc = "write", Overwrite
    PROVE  /\ existing # Nothing => sector'[existing] = sector[existing]
           /\ existing = Nothing => sector'["B"] = sector["B"]
           /\ SequencesSuccessive'
           /\ Stored' \in {Stored, base, command.cfg}
<1>1. PICK r \in {sector[Target], Invalid, command} :
          sector' = [sector EXCEPT ![Target] = r]
  BY DEF Overwrite
<1>2. /\ sector \in [Sectors -> Records \cup {Invalid}]
      /\ command \in Records /\ command # Invalid
      /\ command.seq = NextSequence
      /\ SessionOnNewest /\ BaseStored
      /\ existing \in {"A", "B", Nothing}
  BY RecordsValid DEF Inv, TypeOK, CommandSucceeds, Sectors
<1>3. CASE r = sector[Target]
  <2>1. sector' = sector
    BY <1>1, <1>2, <1>3 DEF Sectors
  <2> QED
    BY <2>1 DEF Inv, SequencesSuccessive, Stored, Newest
<1>4. CASE existing = Nothing /\ r # sector[Target]
  <2>1. /\ sector'["A"] = r /\ sector'["B"] = Invalid /\ sector["B"] = Invalid
        /\ base = NoConfig
    BY <1>1, <1>2, <1>4 DEF Target, SessionOnNewest, BaseStored, Sectors, Nothing
  <2>2. Stored' = IF r = Invalid THEN NoConfig ELSE r.cfg
    BY <2>1 DEF Stored, Newest, NewestOf, Nothing
  <2> QED
    BY <1>1, <1>4, <2>1, <2>2 DEF SequencesSuccessive
<1>5. CASE existing = "A" /\ r # sector[Target]
  <2>1. /\ sector'["B"] = r /\ sector'["A"] = sector["A"] /\ sector["A"] \in Records
        /\ base = sector["A"].cfg
    BY <1>1, <1>2, <1>5 DEF Target, SessionOnNewest, BaseStored, Sectors, Nothing
  <2>2. command.seq = (sector["A"].seq + 1) % (2 * Half)
    BY <1>2, <1>5 DEF NextSequence, Nothing
  <2>3. Stored' \in {base, command.cfg}
    <3>1. CASE r = Invalid
      <4>1. Newest' = "A"
        BY <2>1, <3>1, RecordsValid DEF Newest, NewestOf
      <4> QED
        BY <2>1, <4>1 DEF Stored, Nothing
    <3>2. CASE r = command
      <4>1. Newest' = "B"
        BY <1>2, <2>1, <2>2, <3>2, NewestOfSuccessor DEF Newest
      <4> QED
        BY <2>1, <3>2, <4>1 DEF Stored, Nothing
    <3> QED
      BY <1>1, <1>5, <3>1, <3>2
  <2>4. SequencesSuccessive'
    BY <1>1, <1>5, <2>1, <2>2 DEF SequencesSuccessive, Sectors, OtherSector
  <2> QED
    BY <1>5, <2>1, <2>3, <2>4 DEF Nothing
<1>6. CASE existing = "B" /\ r # sector[Target]
  <2>1. /\ sector'["A"] = r /\ sector'["B"] = sector["B"] /\ sector["B"] \in Records
        /\ base = sector["B"].cfg
    BY <1>1, <1>2, <1>6 DEF Target, SessionOnNewest, BaseStored, Sectors, Nothing
  <2>2. command.seq = (sector["B"].seq + 1) % (2 * Half)
    BY <1>2, <1>6 DEF NextSequence, Nothing
  <2>3. Stored' \in {base, command.cfg}
    <3>1. CASE r = Invalid
      <4>1. Newest' = "B"
        BY <2>1, <3>1, RecordsValid DEF Newest, NewestOf
      <4> QED
        BY <2>1, <4>1 DEF Stored, Nothing
    <3>2. CASE r = command
      <4>1. Newest' = "A"
        BY <1>2, <2>1, <2>2, <3>2, NewestOfSuccessor DEF Newest
      <4> QED
        BY <2>1, <3>2, <4>1 DEF Stored, Nothing
    <3> QED
      BY <1>1, <1>6, <3>1, <3>2
  <2>4. SequencesSuccessive'
    BY <1>1, <1>6, <2>1, <2>2 DEF SequencesSuccessive, Sectors, OtherSector
  <2> QED
    BY <1>6, <2>1, <2>3, <2>4 DEF Nothing
<1> QED
  BY <1>2, <1>3, <1>4, <1>5, <1>6

(* A command that was read back is what a boot would load.                    *)
LEMMA ReadBackStored ==
    ASSUME Inv, pc = "readback", sector[Target] = command
    PROVE  Stored = command.cfg
<1>1. /\ sector \in [Sectors -> Records \cup {Invalid}]
      /\ command \in Records /\ command # Invalid
      /\ command.seq = NextSequence
      /\ SessionOnNewest
      /\ existing \in {"A", "B", Nothing}
  BY RecordsValid DEF Inv, TypeOK, CommandSucceeds, Sectors
<1>2. CASE existing = Nothing
  <2>1. sector["A"] = command /\ sector["B"] = Invalid
    BY <1>1, <1>2 DEF Target, SessionOnNewest, Nothing
  <2> QED
    BY <1>1, <2>1 DEF Stored, Newest, NewestOf, Nothing
<1>3. CASE existing \in {"A", "B"}
  <2>1. /\ sector[existing] \in Records
        /\ command.seq = (sector[existing].seq + 1) % (2 * Half)
    BY <1>1, <1>3 DEF SessionOnNewest, NextSequence, Sectors, Nothing
  <2>2. Newest = Target
    BY <1>3, <2>1, <1>1, NewestOfSuccessor DEF Newest, Target
  <2> QED
    BY <2>2 DEF Stored, Target, Nothing
<1> QED
  BY <1>1, <1>2, <1>3

(* The invariant holds initially, and no step of a device whose journal can   *)
(* be read breaks it.                                                        *)
LEMMA InvInductive ==
    ASSUME ~ReadsFail, TypeOK', Inv, [Next]_vars
    PROVE  Inv'
<1> USE DEF Inv
<1>1. CASE Boot
  <2>1. existing' = Newest /\ home' = Newest /\ pc' = "answer" /\ sector' = sector
        /\ base' = IF Newest = Nothing THEN NoConfig ELSE sector[Newest].cfg
    BY <1>1 DEF Boot, Stored
  <2>2. /\ Newest = Nothing => sector["B"] = Invalid
        /\ Newest # Nothing => sector[Newest] # Invalid
    BY DEF Newest, NewestOf, Nothing
  <2>3. SessionOnNewest' /\ BaseStored' /\ CommandSucceeds'
    BY <2>1, <2>2 DEF SessionOnNewest, BaseStored, CommandSucceeds
  <2> QED
    BY <1>1, <2>1, <2>3 DEF Boot, SequencesSuccessive, ActiveLast
<1>2. CASE CloseWindow
  BY <1>2 DEF CloseWindow, SequencesSuccessive, SessionOnNewest, BaseStored,
              ActiveLast, CommandSucceeds, NextSequence
<1>3. CASE KeepExisting
  BY <1>3 DEF KeepExisting, SequencesSuccessive, SessionOnNewest, BaseStored,
              ActiveLast, CommandSucceeds
<1>4. CASE ReceiveCommand
  <2>1. command' \in Records /\ command'.seq = NextSequence
    BY <1>4, NextSequenceTypes DEF ReceiveCommand, Heard, Records
  <2>2. NextSequence' = NextSequence
    BY <1>4 DEF ReceiveCommand, Heard, NextSequence
  <2> QED
    BY <1>4, <2>1, <2>2 DEF ReceiveCommand, Heard, SequencesSuccessive, SessionOnNewest,
                            BaseStored, ActiveLast, CommandSucceeds
<1>5. CASE WriteRecord
  <2>1. /\ existing # Nothing => sector'[existing] = sector[existing]
        /\ existing = Nothing => sector'["B"] = sector["B"]
        /\ SequencesSuccessive'
    BY <1>5, OverwriteEffect DEF WriteRecord
  <2>2. UNCHANGED <<existing, home, base, active>> /\ pc' \in {"readback", "answer"}
    BY <1>5 DEF WriteRecord, StoreFailed
  <2>3. SessionOnNewest' /\ BaseStored' /\ ActiveLast'
    BY <1>5, <2>1, <2>2 DEF WriteRecord, SessionOnNewest, BaseStored, ActiveLast
  <2>4. NextSequence' = NextSequence
    BY <2>1, <2>2 DEF NextSequence
  <2>5. CommandSucceeds'
    BY <1>5, <2>4 DEF WriteRecord, StoreFailed, CommandSucceeds
  <2> QED
    BY <2>1, <2>3, <2>5
<1>6. CASE ReadBack
  BY <1>6 DEF ReadBack, StoreFailed, SequencesSuccessive, SessionOnNewest,
              BaseStored, ActiveLast, CommandSucceeds
<1>7. CASE PowerLoss
  <2>1. SequencesSuccessive'
    BY <1>7, OverwriteEffect DEF PowerLoss, SequencesSuccessive
  <2> QED
    BY <1>7, <2>1 DEF PowerLoss, SessionOnNewest, BaseStored, ActiveLast,
                      CommandSucceeds
<1>8. CASE RejectCommand \/ FinishAnswer
  BY <1>8 DEF RejectCommand, Heard, FinishAnswer, SequencesSuccessive,
              SessionOnNewest, BaseStored, ActiveLast, CommandSucceeds
<1>9. CASE UNCHANGED vars
  BY <1>9 DEF vars, SequencesSuccessive, SessionOnNewest, BaseStored, ActiveLast,
              CommandSucceeds, NextSequence
<1> QED
  BY <1>1, <1>2, <1>3, <1>4, <1>5, <1>6, <1>7, <1>8, <1>9 DEF Next

(* A device whose journal can be read satisfies the invariant.                *)
LEMMA InvHolds ==
    ASSUME ~ReadsFail
    PROVE  Spec => []Inv
<1>1. Init => Inv
  <2> SUFFICES ASSUME Init PROVE Inv
    OBVIOUS
  <2>1. TypeOK
    BY DEF Init, TypeOK, Sectors, PCs
  <2> QED
    BY <2>1 DEF Init, Inv, SequencesSuccessive, SessionOnNewest, BaseStored,
                ActiveLast, CommandSucceeds, Sectors
<1>2. TypeOK' /\ Inv /\ [Next]_vars => Inv'
  BY InvInductive
<1> QED
  BY <1>1, <1>2, TypeCorrect, PTL DEF Spec
-----------------------------------------------------------------------------
(* What the invariant gives.                                                *)

(* The records of the two sectors always carry successive sequence numbers:   *)
(* after any number of commands, failed writes and power losses, and across   *)
(* the wrap of the counter, the comparison never has to guess.               *)
THEOREM SequencesHold ==
    ASSUME ~ReadsFail
    PROVE  Spec => []SequencesSuccessive
<1>1. Inv => SequencesSuccessive
  BY DEF Inv
<1> QED
  BY <1>1, InvHolds, PTL

(* No step of a session, and no power loss in it, changes the sector that held *)
(* the newest record when the session began.                                 *)
THEOREM NewestUntouched ==
    ASSUME ~ReadsFail
    PROVE  Spec => WritesOtherSector
<1> DEFINE Untouched == \A s \in Sectors : sector'[s] # sector[s] => s # home
<1>1. Inv /\ [Next]_vars => [Untouched]_vars
  <2> SUFFICES ASSUME Inv, [Next]_vars
               PROVE  Untouched
    OBVIOUS
  <2>1. CASE pc = "write" /\ Overwrite
    <3>1. home \in Sectors => existing = home
      BY <2>1 DEF Inv, SessionOnNewest
    <3> QED
      BY <2>1, <3>1, OverwriteEffect DEF Nothing, Sectors
  <2>2. CASE ~(pc = "write" /\ Overwrite)
    BY <2>2 DEF Next, Boot, CloseWindow, KeepExisting, RejectCommand, ReceiveCommand,
                WriteRecord, ReadBack, FinishAnswer, PowerLoss, vars
  <2> QED
    BY <2>1, <2>2
<1> QED
  BY <1>1, InvHolds, PTL DEF Spec, WritesOtherSector

(* The two sectors implement the register that survives power loss: a boot    *)
(* reads the journal, a write is an attempt that succeeds or falls back to the *)
(* configuration of the session, a read back that agrees acknowledges it, and *)
(* a power loss leaves the register as it was or as such an attempt leaves it. *)
THEOREM RegisterImplemented ==
    ASSUME ~ReadsFail
    PROVE  Spec => ImplementsRegister
<1>1. Init => Register!Init
  BY DEF Init, Register!Init, Stored, Newest, NewestOf, Sectors
<1>2. Inv /\ [Next]_vars => [Register!Next]_(Register!vars)
  <2> SUFFICES ASSUME Inv, [Next]_vars
               PROVE  Register!Next \/ UNCHANGED <<Stored, base, active>>
    BY DEF Register!vars
  <2>1. CASE Boot
    <3>1. Register!Load
      <4>1. base' = Stored /\ Stored' = Stored
        BY <2>1 DEF Boot, Stored, Newest
      <4>2. active' = NoConfig
        BY <2>1 DEF Boot, Inv, ActiveLast
      <4> QED
        BY <4>1, <4>2 DEF Register!Load
    <3> QED
      BY <3>1 DEF Register!Next
  <2>2. CASE CloseWindow
    BY <2>2 DEF CloseWindow, Stored, Newest
  <2>3. CASE KeepExisting
    <3>1. sector[existing].cfg = base /\ base # NoConfig
      BY <2>3, SequenceTypes
         DEF KeepExisting, Inv, TypeOK, SessionOnNewest, BaseStored
    <3>2. Register!Keep
      BY <2>3, <3>1 DEF KeepExisting, Register!Keep, Stored, Newest
    <3> QED
      BY <3>2 DEF Register!Next
  <2>4. CASE ReceiveCommand
    BY <2>4 DEF ReceiveCommand, Heard, Stored, Newest
  <2>5. CASE WriteRecord
    <3>1. command.cfg \in Configs
      BY <2>5, RecordsValid DEF WriteRecord, Inv, CommandSucceeds
    <3>2. Stored' \in {Stored, base, command.cfg}
      BY <2>5, OverwriteEffect DEF WriteRecord
    <3>3. UNCHANGED <<base, active>>
      BY <2>5 DEF WriteRecord, StoreFailed
    <3>4. Stored' = Stored \/ Register!Attempt(command.cfg)
      BY <3>2, <3>3 DEF Register!Attempt
    <3> QED
      BY <3>1, <3>3, <3>4 DEF Register!Next
  <2>6. CASE ReadBack
    <3>1. CASE sector[Target] = command /\ base' = command.cfg /\ active' = command.cfg
               /\ sector' = sector
      <4>1. command.cfg \in Configs
        BY <2>6, RecordsValid DEF ReadBack, Inv, CommandSucceeds
      <4>2. Stored = command.cfg
        BY <2>6, <3>1, ReadBackStored DEF ReadBack
      <4>3. Register!Acknowledge(command.cfg)
        BY <3>1, <4>2 DEF Register!Acknowledge, Stored, Newest
      <4> QED
        BY <4>1, <4>3 DEF Register!Next
    <3>2. CASE StoreFailed /\ UNCHANGED sector
      BY <3>2 DEF StoreFailed, Stored, Newest
    <3> QED
      BY <2>6, <3>1, <3>2 DEF ReadBack
  <2>7. CASE PowerLoss
    <3>1. CASE pc = "write"
      <4>1. Stored' \in {Stored, base, command.cfg}
        BY <2>7, <3>1, OverwriteEffect DEF PowerLoss
      <4>2. base' = base /\ active' = NoConfig /\ active = NoConfig
        BY <2>7, <3>1 DEF PowerLoss, Inv, ActiveLast
      <4>3. command.cfg \in Configs
        BY <3>1, RecordsValid DEF Inv, CommandSucceeds
      <4>4. Register!Crash \/ Register!Attempt(command.cfg)
        BY <4>1, <4>2 DEF Register!Crash, Register!Attempt
      <4> QED
        BY <4>3, <4>4 DEF Register!Next
    <3>2. CASE pc # "write"
      <4>1. Register!Crash
        BY <2>7, <3>2 DEF PowerLoss, Register!Crash, Stored, Newest
      <4> QED
        BY <4>1 DEF Register!Next
    <3> QED
      BY <3>1, <3>2
  <2>8. CASE RejectCommand \/ FinishAnswer
    BY <2>8 DEF RejectCommand, FinishAnswer, Stored, Newest
  <2>9. CASE UNCHANGED vars
    BY <2>9 DEF vars, Stored, Newest
  <2> QED
    BY <2>1, <2>2, <2>3, <2>4, <2>5, <2>6, <2>7, <2>8, <2>9 DEF Next
<1> QED
  BY <1>1, <1>2, InvHolds, PTL DEF Spec, ImplementsRegister, Register!Spec
=============================================================================
