-------------------------- MODULE IgnoreJournalProofs --------------------------
(***************************************************************************)
(* Proofs about IgnoreJournal, for any set of versions and any number of   *)
(* runs of the script.                                                     *)
(***************************************************************************)
EXTENDS IgnoreJournal, TLAPS

-----------------------------------------------------------------------------
(* The inductive invariant.                                                 *)

\* How far the session is with the two copies.
WriteProgress ==
    /\ pc = "flash" => copy = 1 /\ ~newApp
    /\ pc \in {"flash", "write"} /\ copy = 1 =>
           before = IgnoredVersion(copies) /\ (agreed => copies[1] = copies[2])
    /\ pc = "writing" => copies[copy] = "torn"
    /\ pc \in {"write", "writing"} /\ copy = 2 => copies[1] = target
    /\ pc = "reset" => copies[1] = target /\ copies[2] = target

\* While the session goes on undisturbed the new app is kept from starting, and
\* at its end both copies hold the decision.
NewAppHeld ==
    newApp /\ ~disturbed =>
        /\ pc # "idle" => device = "loader"
        /\ pc = "idle" => copies[1] = target /\ copies[2] = target

Inv == TypeOK /\ WriteProgress /\ NewAppHeld /\ DecisionOldOrNew
-----------------------------------------------------------------------------
(* What a boot reads is a decision, whatever the copies hold; a record in the  *)
(* first copy decides, and so does one in the second behind a torn first.    *)
LEMMA IgnoredVersionFacts ==
    ASSUME NEW c \in [1..2 -> Decisions \cup Invalid]
    PROVE  /\ IgnoredVersion(c) \in Decisions
           /\ c[1] \in Decisions => IgnoredVersion(c) = c[1]
           /\ c[1] \in Invalid => IgnoredVersion(c) = IF c[2] \in Invalid THEN "none" ELSE c[2]
<1>1. Decisions \cap Invalid = {}
  BY IgnoreAssumption DEF Decisions, Invalid
<1>2. c[1] \in Decisions \cup Invalid /\ c[2] \in Decisions \cup Invalid
  OBVIOUS
<1>3. "none" \in Decisions
  BY DEF Decisions
<1> QED
  BY <1>1, <1>2, <1>3 DEF IgnoredVersion, NewestOtaIgnoreRecord

(* The invariant holds in the initial state. *)
LEMMA InvInit == Init => Inv
<1> SUFFICES ASSUME Init PROVE Inv
  OBVIOUS
<1>1. TypeOK
  <2>1. copies \in [1..2 -> Decisions \cup Invalid]
    BY DEF Init, Invalid
  <2>2. 0 \in 0..MaxSessions /\ 1 \in 1..2
    BY IgnoreAssumption
  <2> QED
    BY <2>1, <2>2 DEF Init, TypeOK, Decisions
<1>2. IgnoredVersion(copies) = "none"
  BY DEF Init, IgnoredVersion, NewestOtaIgnoreRecord, Invalid
<1> QED
  BY <1>1, <1>2 DEF Init, Inv, WriteProgress, NewAppHeld, DecisionOldOrNew

(* Starting the write of a copy spoils that copy and no other: what the device *)
(* reads is then the other copy's decision.                                  *)
LEMMA BeginWriteInv ==
    ASSUME Inv, BeginWrite
    PROVE  Inv'
<1> USE DEF Inv
<1>1. /\ copies \in [1..2 -> Decisions \cup Invalid] /\ copy \in {1, 2}
      /\ copies' = [copies EXCEPT ![copy] = "torn"] /\ "torn" \in Invalid
      /\ pc = "write" /\ pc' = "writing" /\ device' = "loader"
      /\ UNCHANGED <<copy, newApp, disturbed, target, before, agreed, sessions>>
  BY DEF BeginWrite, TypeOK, session, Invalid
<1>2. copies' \in [1..2 -> Decisions \cup Invalid]
  BY <1>1
<1>3. TypeOK'
  BY <1>1, <1>2 DEF TypeOK
<1>4. WriteProgress'
  BY <1>1 DEF WriteProgress
<1>5. DecisionOldOrNew'
  <2>1. CASE copy = 1
    <3>1. copies'[1] \in Invalid /\ copies'[2] = copies[2]
      BY <1>1, <2>1
    <3>2. IgnoredVersion(copies') = IF copies[2] \in Invalid THEN "none" ELSE copies[2]
      BY <1>2, <3>1, IgnoredVersionFacts
    <3>3. agreed => IgnoredVersion(copies) = IF copies[2] \in Invalid THEN "none" ELSE copies[2]
      BY <1>1, <2>1 DEF WriteProgress, IgnoredVersion, NewestOtaIgnoreRecord
    <3> QED
      BY <1>1, <2>1, <3>2, <3>3 DEF WriteProgress, DecisionOldOrNew
  <2>2. CASE copy = 2
    <3>1. copies'[1] = target /\ target \in Decisions
      BY <1>1, <2>2 DEF WriteProgress, TypeOK
    <3> QED
      BY <1>1, <1>2, <3>1, IgnoredVersionFacts DEF DecisionOldOrNew
  <2> QED
    BY <1>1, <2>1, <2>2
<1> QED
  BY <1>1, <1>3, <1>4, <1>5 DEF NewAppHeld

(* A finished write leaves the session's decision in its copy. *)
LEMMA EndWriteInv ==
    ASSUME Inv, EndWrite
    PROVE  Inv'
<1> USE DEF Inv
<1>1. /\ copies \in [1..2 -> Decisions \cup Invalid] /\ copy \in {1, 2}
      /\ copies' = [copies EXCEPT ![copy] = target] /\ target \in Decisions
      /\ pc = "writing" /\ pc' = (IF copy = 1 THEN "write" ELSE "reset") /\ copy' = 2
      /\ UNCHANGED <<device, newApp, disturbed, target, before, agreed, sessions>>
  BY DEF EndWrite, TypeOK, session
<1>2. copies' \in [1..2 -> Decisions \cup Invalid]
  BY <1>1
<1>3. copies'[1] = target /\ (copy = 2 => copies'[2] = target)
  BY <1>1 DEF WriteProgress
<1>4. TypeOK'
  BY <1>1, <1>2 DEF TypeOK
<1>5. WriteProgress'
  BY <1>1, <1>3 DEF WriteProgress
<1>6. DecisionOldOrNew'
  BY <1>1, <1>2, <1>3, IgnoredVersionFacts DEF DecisionOldOrNew
<1> QED
  BY <1>1, <1>4, <1>5, <1>6 DEF NewAppHeld

(* No step breaks the invariant. *)
LEMMA InvInductive ==
    ASSUME Inv, [Next]_vars
    PROVE  Inv'
<1> USE DEF Inv
<1>1. CASE StartSession
  <2>1. TypeOK'
    <3>1. sessions' \in 0..MaxSessions /\ copy' \in 1..2
      BY <1>1, IgnoreAssumption DEF StartSession, TypeOK
    <3>2. before' \in Decisions
      BY <1>1, IgnoredVersionFacts DEF StartSession, TypeOK
    <3> QED
      BY <1>1, <3>1, <3>2 DEF StartSession, TypeOK
  <2>2. WriteProgress' /\ NewAppHeld'
    BY <1>1 DEF StartSession, WriteProgress, NewAppHeld
  <2>3. DecisionOldOrNew'
    BY <1>1 DEF StartSession, DecisionOldOrNew
  <2> QED
    BY <2>1, <2>2, <2>3
<1>2. CASE FlashApp
  BY <1>2 DEF FlashApp, session, TypeOK, WriteProgress, NewAppHeld, DecisionOldOrNew
<1>3. CASE BeginWrite
  BY <1>3, BeginWriteInv
<1>4. CASE EndWrite
  BY <1>4, EndWriteInv
<1>5. CASE ResetDevice
  BY <1>5 DEF ResetDevice, session, TypeOK, WriteProgress, NewAppHeld, DecisionOldOrNew
<1>6. CASE CommandFails
  BY <1>6 DEF CommandFails, session, TypeOK, WriteProgress, NewAppHeld, DecisionOldOrNew
<1>7. CASE PowerCycle
  BY <1>7 DEF PowerCycle, session, TypeOK, WriteProgress, NewAppHeld, DecisionOldOrNew
<1>8. CASE UNCHANGED vars
  BY <1>8 DEF vars, session, TypeOK, WriteProgress, NewAppHeld, DecisionOldOrNew
<1> QED
  BY <1>1, <1>2, <1>3, <1>4, <1>5, <1>6, <1>7, <1>8 DEF Next

(* The script and the device never leave the invariant. *)
LEMMA InvHolds == Spec => []Inv
<1>1. Inv /\ [Next]_vars => Inv'
  BY InvInductive
<1> QED
  BY <1>1, InvInit, PTL DEF Spec
-----------------------------------------------------------------------------
(* Every state of the script and the device is one of the type invariant's.   *)
THEOREM TypeCorrect == Spec => []TypeOK
<1>1. Inv => TypeOK
  BY DEF Inv
<1> QED
  BY <1>1, InvHolds, PTL

(* Wherever a session is cut off that found equal copies, the device passes    *)
(* over the version of before or the one asked for.                          *)
THEOREM DecisionKept == Spec => []DecisionOldOrNew
<1>1. Inv => DecisionOldOrNew
  BY DEF Inv
<1> QED
  BY <1>1, InvHolds, PTL

(* An undisturbed session does not let the new app run before both copies hold *)
(* its decision.                                                             *)
THEOREM NewAppSafe == Spec => []NewAppKnowsDecision
<1>1. Inv => NewAppKnowsDecision
  BY DEF Inv, NewAppHeld, NewAppKnowsDecision
<1> QED
  BY <1>1, InvHolds, PTL
=============================================================================
