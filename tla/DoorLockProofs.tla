--------------------------- MODULE DoorLockProofs ---------------------------
(***************************************************************************)
(* The interlock between the doors, for every number of doors the manager  *)
(* can hold.                                                               *)
(***************************************************************************)
EXTENDS DoorLock, TLAPS

\* What each stage of a call knows of the relays.  While another door is to
\* be locked first it is the only one unlocked; once the target is about to be
\* unlocked, nothing but the target itself may still be.
StageKnows ==
    /\ phase = "idle" =>
          Unlocked = IF openDoor = None THEN {} ELSE {openDoor}
    /\ phase = "relock" =>
          openDoor # None /\ openDoor # target /\ Unlocked = {openDoor}
    /\ phase = "unlock" =>
          Unlocked = {} \/ (Unlocked = {target} /\ openDoor = target)

\* The doors a call can name are registered, so the relay writes take effect.
DoorsKnown ==
    /\ inited = 0 .. doorCnt - 1
    /\ openDoor # None => openDoor \in inited
    /\ phase # "idle" => target \in inited

Inv == TypeOK /\ StageKnows /\ DoorsKnown

LEMMA DoorNumbers ==
    /\ None \notin Door
    /\ \A d \in Door \cup {None} : d >= 0 <=> d # None
  BY DoorMaxAssumption DEF Door, None

\* What driving one relay does to the set of unlocked doors.
LEMMA DriveEffect ==
    ASSUME TypeOK, NEW d \in inited, NEW level \in {0, 1}, Drive(d, level)
    PROVE  /\ relay' \in [Door -> {0, 1}]
           /\ level = 1 => Unlocked' = Unlocked \ {d}
           /\ level = 0 => Unlocked' = Unlocked \cup {d}
<1>1. relay' = [relay EXCEPT ![d] = level] /\ d \in Door /\ relay \in [Door -> {0, 1}]
  BY DEF Drive, TypeOK
<1> QED
  BY <1>1 DEF Unlocked

-----------------------------------------------------------------------------
LEMMA InvInit == Init => Inv
<1> SUFFICES ASSUME Init PROVE Inv
  OBVIOUS
<1>1. TypeOK
  BY DoorMaxAssumption DEF Init, TypeOK, Door
<1>2. Unlocked = {}
  BY DEF Init, Unlocked
<1>3. inited = 0 .. doorCnt - 1
  BY DEF Init
<1> QED
  BY <1>1, <1>2, <1>3 DEF Init, Inv, StageKnows, DoorsKnown

LEMMA InvNext ==
    ASSUME Inv, [Next]_vars
    PROVE  Inv'
<1> USE DEF Inv
<1>1. CASE Register
  <2>1. doorCnt \in Door /\ doorCnt \notin inited /\ doorCnt' \in 0 .. DoorMax
    BY <1>1, DoorMaxAssumption DEF Register, TypeOK, Door, DoorsKnown
  <2>2. TypeOK'
    BY <1>1, <2>1 DEF Register, TypeOK
  <2>3. Unlocked' = Unlocked \ {doorCnt}
    BY <1>1, <2>1 DEF Register, TypeOK, Unlocked
  <2>4. doorCnt \notin Unlocked
    BY <1>1, <2>1 DEF Register, StageKnows, DoorsKnown
  <2>5. StageKnows'
    BY <1>1, <2>3, <2>4 DEF Register, StageKnows
  <2>6. inited' = 0 .. doorCnt' - 1
    BY <1>1, DoorMaxAssumption DEF Register, DoorsKnown, TypeOK
  <2> QED
    BY <1>1, <2>2, <2>5, <2>6 DEF Register, DoorsKnown
<1>2. ASSUME NEW d \in Door, RequestOpen(d)
      PROVE  Inv'
  <2>1. TypeOK' /\ Unlocked' = Unlocked
    BY <1>2 DEF RequestOpen, TypeOK, Unlocked
  <2>2. openDoor >= 0 <=> openDoor # None
    BY DoorNumbers DEF TypeOK
  <2>3. StageKnows'
    BY <1>2, <2>1, <2>2, DoorNumbers DEF RequestOpen, StageKnows
  <2> QED
    BY <1>2, <2>1, <2>3 DEF RequestOpen, DoorsKnown
<1>3. CASE RelockPrevious
  <2>1. openDoor \in inited /\ Unlocked = {openDoor}
    BY <1>3 DEF RelockPrevious, StageKnows, DoorsKnown
  <2>2. relay' \in [Door -> {0, 1}] /\ Unlocked' = {}
    BY <1>3, <2>1, DriveEffect DEF RelockPrevious
  <2> QED
    BY <1>3, <2>2 DEF RelockPrevious, TypeOK, StageKnows, DoorsKnown
<1>4. CASE UnlockTarget
  <2>1. target \in inited /\ Unlocked \subseteq {target}
    BY <1>4 DEF UnlockTarget, StageKnows, DoorsKnown
  <2>2. relay' \in [Door -> {0, 1}] /\ Unlocked' = {target} /\ openDoor' = target
    BY <1>4, <2>1, DriveEffect DEF UnlockTarget
  <2>3. target \in Door /\ target # None
    BY DoorNumbers DEF TypeOK
  <2> QED
    BY <1>4, <2>1, <2>2, <2>3 DEF UnlockTarget, TypeOK, StageKnows, DoorsKnown
<1>5. CASE LockTimeout
  <2>1. openDoor # None
    BY <1>5, DoorNumbers DEF LockTimeout, TypeOK
  <2>2. openDoor \in inited /\ Unlocked = {openDoor}
    BY <1>5, <2>1 DEF LockTimeout, StageKnows, DoorsKnown
  <2>3. relay' \in [Door -> {0, 1}] /\ Unlocked' = {}
    BY <1>5, <2>2, DriveEffect DEF LockTimeout
  <2> QED
    BY <1>5, <2>3 DEF LockTimeout, TypeOK, StageKnows, DoorsKnown
<1>6. ASSUME NEW d \in Door, Detect(d)
      PROVE  Inv'
  BY <1>6 DEF Detect, TypeOK, StageKnows, DoorsKnown, Unlocked
<1>7. ASSUME NEW d \in Door, ContactMoves(d)
      PROVE  Inv'
  <2>1. 1 - contact[d] \in {0, 1}
    BY DEF TypeOK
  <2>2. contact' \in [Door -> {0, 1}]
    BY <1>7, <2>1 DEF ContactMoves, TypeOK
  <2> QED
    BY <1>7, <2>2 DEF ContactMoves, TypeOK, StageKnows, DoorsKnown, Unlocked
<1>8. CASE UNCHANGED vars
  BY <1>8 DEF vars, TypeOK, StageKnows, DoorsKnown, Unlocked
<1> QED
  BY <1>1, <1>2, <1>3, <1>4, <1>5, <1>6, <1>7, <1>8 DEF Next

\* The manager's bookkeeping stays within its fields and names registered
\* doors, at every stage of every call.
THEOREM Invariance == Spec => []Inv
  BY InvInit, InvNext, PTL DEF Spec

THEOREM TypeCorrect == Spec => []TypeOK
<1>1. Inv => TypeOK
  BY DEF Inv
<1> QED
  BY <1>1, Invariance, PTL

\* Between calls, the door recorded as open is the one whose relay is released.
THEOREM RecordMatchesRelaysHolds == Spec => []RecordMatchesRelays
<1>1. Inv => RecordMatchesRelays
  BY DEF Inv, StageKnows, RecordMatchesRelays
<1> QED
  BY <1>1, Invariance, PTL

-----------------------------------------------------------------------------
LEMMA StepRefines ==
    ASSUME Inv, [Next]_vars
    PROVE  [Relays!Next]_Unlocked
<1> USE DEF Inv
<1>1. CASE Register
  <2>1. doorCnt \in Door
    BY <1>1, DoorMaxAssumption DEF Register, TypeOK, Door
  <2>2. Unlocked' = Unlocked \ {doorCnt}
    BY <1>1, <2>1 DEF Register, TypeOK, Unlocked
  <2> QED
    BY <2>1, <2>2 DEF Relays!Next, Relays!Lock
<1>2. ASSUME NEW d \in Door, RequestOpen(d)
      PROVE  UNCHANGED Unlocked
  BY <1>2 DEF RequestOpen, Unlocked
<1>3. CASE RelockPrevious
  <2>1. openDoor \in inited /\ openDoor \in Door
    BY <1>3 DEF RelockPrevious, StageKnows, DoorsKnown, TypeOK
  <2>2. Unlocked' = Unlocked \ {openDoor}
    BY <1>3, <2>1, DriveEffect DEF RelockPrevious
  <2> QED
    BY <2>1, <2>2 DEF Relays!Next, Relays!Lock
<1>4. CASE UnlockTarget
  <2>1. target \in inited /\ target \in Door /\ Unlocked \subseteq {target}
    BY <1>4 DEF UnlockTarget, StageKnows, DoorsKnown, TypeOK
  <2>2. Unlocked' = {target}
    BY <1>4, <2>1, DriveEffect DEF UnlockTarget
  <2> QED
    BY <2>1, <2>2 DEF Relays!Next, Relays!Unlock
<1>5. CASE LockTimeout
  <2>1. openDoor \in inited /\ openDoor \in Door
    BY <1>5, DoorNumbers DEF LockTimeout, DoorsKnown, TypeOK
  <2>2. Unlocked' = Unlocked \ {openDoor}
    BY <1>5, <2>1, DriveEffect DEF LockTimeout
  <2> QED
    BY <2>1, <2>2 DEF Relays!Next, Relays!Lock
<1>6. ASSUME NEW d \in Door, Detect(d) \/ ContactMoves(d)
      PROVE  UNCHANGED Unlocked
  BY <1>6 DEF Detect, ContactMoves, Unlocked
<1>7. CASE UNCHANGED vars
  BY <1>7 DEF vars, Unlocked
<1> QED
  BY <1>1, <1>2, <1>3, <1>4, <1>5, <1>6, <1>7 DEF Next

\* Whatever is requested, detected or timed out, at most one door is unlocked
\* and a swap of doors goes through a moment with all of them locked.
THEOREM Refinement == Spec => ImplementsInterlock
<1>1. Init => Unlocked = {}
  BY DEF Init, Unlocked
<1>2. Inv /\ [Next]_vars => [Relays!Next]_Unlocked
  BY StepRefines
<1> QED
  BY <1>1, <1>2, Invariance, PTL
     DEF Spec, ImplementsInterlock, Relays!Spec, Relays!Init
=============================================================================
