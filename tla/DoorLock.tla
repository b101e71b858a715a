------------------------------ MODULE DoorLock ------------------------------
(***************************************************************************)
(* src/userTasks/doorLock.c with the callbacks board_bus.c gives it: the   *)
(* door manager and the relays and contacts of its doors.  All of it runs  *)
(* in the main loop, one call after another; a call is split where it      *)
(* drives a relay, because the relays are seen by the doors while the call *)
(* is under way.                                                           *)
(*                                                                         *)
(* A relay level of 1 locks, 0 unlocks; ports read 1 after reset.          *)
(***************************************************************************)
EXTENDS Integers

CONSTANT DoorMax   \* DOORLOCK_DOOR_MAX

\* The #error in doorLock.h: openDoor is a signed four-bit field.
ASSUME DoorMaxAssumption == DoorMax \in 1 .. 7

Door == 0 .. DoorMax - 1
None == -1

VARIABLES
    doorCnt,    \* mgr->doorCnt
    openDoor,   \* mgr->openDoor
    inited,     \* the doors whose INIT flag is set
    wire,       \* per door, the WIRE flag
    relay,      \* per door, the level its relay is driven to
    contact,    \* per door, the level of its contact line (the environment)
    phase,      \* where a doorLock_requestOpen call stands
    target      \* the door that call is to open

vars == <<doorCnt, openDoor, inited, wire, relay, contact, phase, target>>

TypeOK ==
    /\ doorCnt \in 0 .. DoorMax
    /\ openDoor \in Door \cup {None}
    /\ inited \subseteq Door
    /\ wire \in [Door -> {0, 1}]
    /\ relay \in [Door -> {0, 1}]
    /\ contact \in [Door -> {0, 1}]
    /\ phase \in {"idle", "relock", "unlock"}
    /\ target \in Door

\* doorLock_managerInit
Init ==
    /\ doorCnt = 0
    /\ openDoor = None
    /\ inited = {}
    /\ wire = [d \in Door |-> 0]
    /\ relay = [d \in Door |-> 1]
    /\ contact \in [Door -> {0, 1}]
    /\ phase = "idle"
    /\ target = 0

-----------------------------------------------------------------------------
(***************************************************************************)
(* Plausible slips, for mutation runs only: a register that does not check *)
(* for room, a request that forgets the door that is open, and a timeout   *)
(* that leaves the record behind.                                          *)
(***************************************************************************)
RegisterUnchecked ==
    /\ phase = "idle"
    /\ doorCnt' = doorCnt + 1
    /\ UNCHANGED <<openDoor, inited, wire, relay, contact, phase, target>>

RequestOpenForgetful(d) ==
    /\ phase = "idle"
    /\ d < doorCnt
    /\ d \in inited
    /\ target' = d
    /\ phase' = "unlock"
    /\ UNCHANGED <<doorCnt, openDoor, inited, wire, relay, contact>>

LockTimeoutUnrecorded ==
    /\ phase = "idle"
    /\ openDoor >= 0
    /\ relay' = [relay EXCEPT ![openDoor] = 1]
    /\ UNCHANGED <<doorCnt, openDoor, inited, wire, contact, phase, target>>

-----------------------------------------------------------------------------
\* doorLock_lockCtrl through board_doorLockCtrl: drives the relay of a door
\* that is initialised and reports an error, driving nothing, for another.
Drive(d, level) ==
    relay' = IF d \in inited THEN [relay EXCEPT ![d] = level] ELSE relay

\* doorLock_register and board_doorInit: the next door, started locked.  A
\* manager that is full refuses.
Register ==
    /\ phase = "idle"
    /\ doorCnt < DoorMax
    /\ inited' = inited \cup {doorCnt}
    /\ wire' = [wire EXCEPT ![doorCnt] = 0]
    /\ relay' = [relay EXCEPT ![doorCnt] = 1]
    /\ doorCnt' = doorCnt + 1
    /\ UNCHANGED <<openDoor, contact, phase, target>>

\* doorLock_requestOpen, up to its first relay write: an index beyond the
\* doors registered, or a door not initialised, is refused.
RequestOpen(d) ==
    /\ phase = "idle"
    /\ d < doorCnt
    /\ d \in inited
    /\ target' = d
    /\ phase' = IF openDoor >= 0 /\ openDoor # d THEN "relock" ELSE "unlock"
    /\ UNCHANGED <<doorCnt, openDoor, inited, wire, relay, contact>>

\* ... another door is open: lock that one first, whatever comes of it ...
RelockPrevious ==
    /\ phase = "relock"
    /\ Drive(openDoor, 1)
    /\ phase' = "unlock"
    /\ UNCHANGED <<doorCnt, openDoor, inited, wire, contact, target>>

\* ... and unlock the target; it becomes the open door if its relay obeyed.
UnlockTarget ==
    /\ phase = "unlock"
    /\ Drive(target, 0)
    /\ openDoor' = IF target \in inited THEN target ELSE openDoor
    /\ phase' = "idle"
    /\ UNCHANGED <<doorCnt, inited, wire, contact, target>>

\* doorLockTask_handleLockTimeout, the only other caller of lockCtrl.
LockTimeout ==
    /\ phase = "idle"
    /\ openDoor >= 0
    /\ Drive(openDoor, 1)
    /\ openDoor' = None
    /\ UNCHANGED <<doorCnt, inited, wire, contact, phase, target>>

\* doorLock_detect through board_doorDetect: the level of the line as it is
\* now, high meaning idle.
Detect(d) ==
    /\ phase = "idle"
    /\ d \in inited
    /\ wire' = [wire EXCEPT ![d] = contact[d]]
    /\ UNCHANGED <<doorCnt, openDoor, inited, relay, contact, phase, target>>

\* The environment: a door is opened or closed by hand.
ContactMoves(d) ==
    /\ contact' = [contact EXCEPT ![d] = 1 - @]
    /\ UNCHANGED <<doorCnt, openDoor, inited, wire, relay, phase, target>>

Next ==
    \/ Register
    \/ \E d \in Door : RequestOpen(d) \/ Detect(d) \/ ContactMoves(d)
    \/ RelockPrevious
    \/ UnlockTarget
    \/ LockTimeout

Spec == Init /\ [][Next]_vars

-----------------------------------------------------------------------------
Unlocked == {d \in Door : relay[d] = 0}

\* Between calls the manager's record is the truth: the door it believes open
\* is the one whose relay is released, and it can be locked again.
RecordMatchesRelays ==
    phase = "idle" =>
        Unlocked = IF openDoor = None THEN {} ELSE {openDoor}

Relays == INSTANCE Interlock WITH unlocked <- Unlocked

\* At no moment, not even inside a call that swaps one door for another, are
\* two doors unlocked.
ImplementsInterlock == Relays!Spec
=============================================================================
