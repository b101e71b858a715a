------------------------------ MODULE DoorTask ------------------------------
(***************************************************************************)
(* The running firmware: the door-lock task of userTask_doorLock.c, fed by *)
(* the scheduler's main loop, the tick broadcast and the board poll, and   *)
(* driving the door manager (DoorLock).                                    *)
(*                                                                         *)
(* The processor runs one loop and one interrupt that matters here.  The   *)
(* Timer0 interrupt only advances tickMs; the scheduler's idle hook        *)
(* compares it with the last value seen and posts one EVT_DOORLOCK_TICK    *)
(* however many milliseconds went by, so the interrupt is a flag, tickDue. *)
(* (A handler that ran for 65536 ms would hide ticks; none does.)          *)
(*                                                                         *)
(* Debouncers are abstracted to what the poll learns from them: some lines *)
(* report an edge, any that may.  button_tick's hold counters are left     *)
(* out: only button_isLongpress reads them and nothing calls it.           *)
(***************************************************************************)
EXTENDS Integers, FiniteSets, SequencesExt

CONSTANTS
    DoorMax,     \* DOORLOCK_DOOR_MAX, 4
    QueueMax,    \* EVTSCHEDUL_TASKS_QUEUE_MAX, 4
    BtnDepth,    \* BUTTON_EVT_QUEUE_DEPTH, 8
    HalfWord,    \* 2^15
    SecTicks,    \* EVT_DOORLOCK_TICKs to the second, 1000
    LockDelay,   \* LOCK_DEFAULT_DELAY_SEC, 3
    DelayWord,   \* values of the uint8_t lockDelaySec, 256
    ConfigIdle,  \* CONFIG_IDLE_TIMEOUT_SEC, 5
    PollPeriod,  \* BOARD_POLL_PERIOD_MS, 10
    Campaigns,   \* bound: what may come from outside, [keys, doors, left]: the keys, by
                 \* channel, that anybody presses, the doors that are moved by hand,
                 \* and how many key edges and moves there are
    Prompt       \* assume that every tick is handled before the next is due

\* The map has an open event for four doors; the delays are bytes; a ring's
\* depth is at most half the largest word.
ASSUME TaskAssumption ==
    /\ DoorMax \in 1 .. 4
    /\ HalfWord \in Nat /\ QueueMax \in 1 .. HalfWord - 1 /\ BtnDepth \in 1 .. HalfWord - 1
    /\ SecTicks \in Nat \ {0} /\ ConfigIdle \in Nat \ {0} /\ PollPeriod \in Nat
    /\ DelayWord \in Nat \ {0} /\ LockDelay \in 0 .. DelayWord - 1

\* doorLock_event_t, the events that are posted
EVT_TICK            == 1
EVT_DETECT          == 2
EVT_DOOR_OPEN(d)    == 3 + d
EVT_CFG_INC         == 7
EVT_CFG_DEC         == 8
EVT_CFG_SELECT      == 9
EVT_CFG_ENTER       == 10
EVT_LOCK_TIMEOUT    == 11
EVT_BTN_SCAN        == 12
EVT_DISPLAY_REFRESH == 13
EVT_TEST_SEC        == 14
Event   == 1 .. 14
NoEvent == 0

Door      == 0 .. DoorMax - 1
CfgKey    == 4 .. 7
Channel   == Door \cup CfgKey
Channels  == 8    \* BUTTON_CNT
PRESSED   == 0
RELEASED  == 1

VARIABLES
    doorCnt, openDoor, inited, wire, relay, contact, phase, target, \* DoorLock
    queue,         \* the scheduler's event ring
    btnQueue,      \* the ring of raw button edges
    tickDue,       \* tickMs has moved since the idle hook last looked
    sincePoll,     \* tickMs - lastSample of board_bus_poll, up to PollPeriod
    pc,            \* the main loop: booting, pulling, in a handler
    cur,           \* the event being handled
    detectPending, \* doors whose contact edge waits for a DETECT
    scan,          \* handleDetect's local copy of it, what is left to do
    settled,       \* debounced level of each contact
    level,         \* debounced level of each key
    secPrescaler, lockTimeoutActive, lockTimeoutCnt,
    lockDelay,     \* per door, hw.time.lockDelaySec
    selectedDoor, configMode, configIdleCnt,
    inputs,        \* bound: the campaign, with what is left of it
    owed           \* history: releases of each door's key less its openings

doorVars   == <<doorCnt, openDoor, inited, wire, relay, contact, phase, target>>
loopVars   == <<queue, tickDue, pc, cur>>
pollVars   == <<sincePoll, inputs>>
detectVars == <<detectPending, scan, settled>>
keyVars    == <<btnQueue, level>>
timerVars  == <<secPrescaler, lockTimeoutActive, lockTimeoutCnt>>
configVars == <<lockDelay, selectedDoor, configMode, configIdleCnt>>

vars == <<doorVars, loopVars, detectVars, keyVars, timerVars, configVars, pollVars, owed>>

Doors == INSTANCE DoorLock
Q     == INSTANCE RingOps WITH Depth <- QueueMax, Item <- Event
B     == INSTANCE RingOps WITH Depth <- BtnDepth, Item <- Channel \X {PRESSED, RELEASED}

TypeOK ==
    /\ Doors!TypeOK
    /\ queue \in Q!Ring
    /\ btnQueue \in B!Ring
    /\ tickDue \in BOOLEAN /\ sincePoll \in 0 .. PollPeriod
    /\ pc \in {"boot", "pull", "handle"}
    /\ cur \in Event \cup {NoEvent}
    /\ detectPending \subseteq Door /\ scan \subseteq Door
    /\ settled \in [Door -> {0, 1}]
    /\ level \in [Channel -> {PRESSED, RELEASED}]
    /\ secPrescaler \in 0 .. SecTicks - 1
    /\ lockTimeoutActive \in BOOLEAN /\ lockTimeoutCnt \in 0 .. DelayWord - 1
    /\ lockDelay \in [Door -> 0 .. DelayWord - 1]
    /\ selectedDoor \in Door
    /\ configMode \in BOOLEAN /\ configIdleCnt \in 0 .. ConfigIdle
    /\ inputs \in [keys : SUBSET Channel, doors : SUBSET Door, left : Nat]
    /\ owed \in [Door -> Nat \cup {-1}]

\* Power-up, the lines idle, up to board_registerDoors.  EventSchedul_MainLoop
\* clears the queue, and nothing has been posted before.
Init ==
    /\ Doors!Init /\ contact = [d \in Door |-> 1]
    /\ queue = [wr |-> 0, rd |-> 0, buf |-> [s \in Q!Slot |-> EVT_TICK]]
    /\ btnQueue = [wr |-> 0, rd |-> 0, buf |-> [s \in B!Slot |-> <<0, RELEASED>>]]
    /\ tickDue = FALSE /\ sincePoll = 0 /\ pc = "boot" /\ cur = NoEvent
    /\ detectPending = {} /\ scan = {}
    /\ settled = [d \in Door |-> 1]
    /\ level = [c \in Channel |-> RELEASED]
    /\ secPrescaler = 0 /\ lockTimeoutActive = FALSE /\ lockTimeoutCnt = 0
    /\ lockDelay = [d \in Door |-> LockDelay]
    /\ selectedDoor = 0 /\ configMode = FALSE /\ configIdleCnt = 0
    /\ inputs \in Campaigns
    /\ owed = [d \in Door |-> 0]

-----------------------------------------------------------------------------
(***************************************************************************)
(* Plausible slips, for mutation runs only: an idle hook that forgets to   *)
(* broadcast, a prescaler and a door index that wrap one late, a countdown *)
(* tested for less than zero, a key that acts on both edges, a pending set *)
(* that is not cleared, a timeout that leaves the open door on record.     *)
(***************************************************************************)
AfterIdleSilent(q) == q

BeatLate == secPrescaler >= SecTicks

NextDoorLate == IF selectedDoor + 1 > doorCnt THEN 0 ELSE selectedDoor + 1

LockExpiresBelow ==
    secPrescaler + 1 >= SecTicks /\ lockTimeoutActive /\ lockTimeoutCnt > 0 /\ lockTimeoutCnt - 1 < 0

IdleExpiresBelow ==
    secPrescaler + 1 >= SecTicks /\ configMode /\ configIdleCnt > 0 /\ configIdleCnt - 1 < 0

MappedOnBothEdges(key) ==
    IF key[1] \in Door THEN EVT_DOOR_OPEN(key[1])
    ELSE IF key[2] = PRESSED THEN 3 + key[1] ELSE NoEvent

TakePendingKept ==
    /\ pc = "handle" /\ cur = EVT_DETECT /\ scan = {} /\ detectPending # {}
    /\ scan' = detectPending
    /\ UNCHANGED <<doorVars, loopVars, detectPending, settled, keyVars, timerVars,
                   configVars, pollVars, owed>>

HandleLockTimeoutUnrecorded ==
    /\ pc = "handle" /\ cur = EVT_LOCK_TIMEOUT
    /\ relay' = [d \in Door |-> IF d = openDoor THEN 1 ELSE relay[d]]
    /\ pc' = "pull" /\ cur' = NoEvent
    /\ UNCHANGED <<doorCnt, openDoor, inited, wire, contact, phase, target, queue, tickDue,
                   detectVars, keyVars, timerVars, configVars, pollVars, owed>>

-----------------------------------------------------------------------------
\* doorLockTask_postEvent: the event is in the task's range; whether the ring
\* took it, nobody asks.
Post(q, evt) == Q!AfterPush(q, evt, FALSE)

\* One event posted after another, from the first to the last.
PostAll(q, evts) ==
    LET after[n \in 0 .. Len(evts)] == IF n = 0 THEN q ELSE Post(after[n - 1], evts[n])
    IN  after[Len(evts)]

\* evtSchedul_idle and tickBroadcast_Tick
AfterIdle(q) == IF tickDue THEN Post(q, EVT_TICK) ELSE q

\* A handler returns having left the queue as q: the idle hook, then the loop.
Finish(q) ==
    /\ queue' = AfterIdle(q)
    /\ tickDue' = FALSE
    /\ pc' = "pull"
    /\ cur' = NoEvent

Handling(evt) == pc = "handle" /\ cur = evt

Only(cond, evt) == IF cond THEN <<evt>> ELSE <<>>

\* The one-second beat of handleTick, and the two timers it runs down.
Beat        == secPrescaler + 1 >= SecTicks
LockExpires == Beat /\ lockTimeoutActive /\ lockTimeoutCnt = 1
IdleExpires == Beat /\ configMode /\ configIdleCnt = 1

NextDoor == IF selectedDoor + 1 >= doorCnt THEN 0 ELSE selectedDoor + 1

\* btnEventMap_resolve: door keys open on release, the others act on press.
Mapped(key) ==
    LET channel == key[1]
    IN  CASE channel \in Door /\ key[2] = RELEASED -> EVT_DOOR_OPEN(channel)
          [] channel \in CfgKey /\ key[2] = PRESSED -> 3 + channel
          [] OTHER -> NoEvent

-----------------------------------------------------------------------------
\* board_registerDoors, one door after another; then the main loop starts.
Boot ==
    /\ pc = "boot"
    /\ Doors!Register
    /\ pc' = IF doorCnt' = DoorMax THEN "pull" ELSE "boot"
    /\ UNCHANGED <<queue, tickDue, cur, detectVars, keyVars, timerVars, configVars, pollVars, owed>>

\* The main loop takes an event, or finds none, and calls the idle hook.
Pull ==
    /\ pc = "pull"
    /\ queue' = AfterIdle(Q!AfterPop(queue))
    /\ tickDue' = FALSE
    /\ \/ Q!SeemsEmpty(queue) /\ UNCHANGED <<pc, cur>>
       \/ ~Q!SeemsEmpty(queue) /\ pc' = "handle" /\ cur' = Q!Oldest(queue)
    /\ UNCHANGED <<doorVars, detectVars, keyVars, timerVars, configVars, pollVars, owed>>

\* The contact edges board_bus_poll may report: a debouncer has settled on the
\* level the line now has.
ContactEdges == {d \in Door : contact[d] # settled[d]}

\* doorLockTask_onButton's pushes, channel after channel
WithEdges(rb, keys, levels) ==
    LET after[n \in 0 .. Channels] ==
            IF n = 0 THEN rb
            ELSE IF n - 1 \in keys THEN B!AfterPush(after[n - 1], <<n - 1, levels[n - 1]>>, FALSE)
            ELSE after[n - 1]
    IN  after[Channels]

\* board_bus_poll and handleTick.  A poll that is not due reports nothing.
PollDue == sincePoll >= PollPeriod

HandleTick ==
    /\ Handling(EVT_TICK)
    /\ sincePoll' = IF PollDue THEN 0 ELSE sincePoll
    /\ \E moved \in SUBSET ContactEdges, keys \in SUBSET (inputs.keys \cap Channel) :
        /\ ~PollDue => moved = {} /\ keys = {}
        /\ Cardinality(keys) <= inputs.left
        /\ inputs' = [inputs EXCEPT !.left = @ - Cardinality(keys)]
        /\ settled' = [d \in Door |-> IF d \in moved THEN contact[d] ELSE settled[d]]
        /\ detectPending' = detectPending \cup moved
        /\ level' = [c \in Channel |-> IF c \in keys THEN 1 - level[c] ELSE level[c]]
        /\ btnQueue' = WithEdges(btnQueue, keys, level')
        /\ owed' = [d \in Door |->
                      owed[d] + IF d \in keys /\ level'[d] = RELEASED THEN 1 ELSE 0]
        /\ Finish(PostAll(queue,
               Only(moved # {}, EVT_DETECT)
               \o [k \in 1 .. Cardinality(keys) |-> EVT_BTN_SCAN]
               \o Only(Beat, EVT_TEST_SEC)
               \o Only(LockExpires, EVT_LOCK_TIMEOUT)
               \o Only(IdleExpires, EVT_DISPLAY_REFRESH)))
    /\ secPrescaler' = IF Beat THEN 0 ELSE secPrescaler + 1
    /\ lockTimeoutCnt' = IF Beat /\ lockTimeoutActive /\ lockTimeoutCnt > 0
                         THEN lockTimeoutCnt - 1 ELSE lockTimeoutCnt
    /\ lockTimeoutActive' = (lockTimeoutActive /\ ~LockExpires)
    /\ configIdleCnt' = IF Beat /\ configMode /\ configIdleCnt > 0
                        THEN configIdleCnt - 1 ELSE configIdleCnt
    /\ configMode' = (configMode /\ ~IdleExpires)
    /\ UNCHANGED <<doorVars, scan, lockDelay, selectedDoor>>

\* handleDetect takes the pending set ...
TakePending ==
    /\ Handling(EVT_DETECT) /\ scan = {} /\ detectPending # {}
    /\ scan' = detectPending
    /\ detectPending' = {}
    /\ UNCHANGED <<doorVars, loopVars, settled, keyVars, timerVars, configVars, pollVars, owed>>

\* ... reads the line of each door in it, in order ...
DetectNext ==
    /\ Handling(EVT_DETECT) /\ scan # {}
    /\ LET d == CHOOSE d \in scan : \A e \in scan : d <= e
       IN  /\ Doors!Detect(d)
           /\ scan' = scan \ {d}
           /\ IF scan = {d} THEN Finish(queue) ELSE UNCHANGED loopVars
    /\ UNCHANGED <<detectPending, settled, keyVars, timerVars, configVars, pollVars, owed>>

\* ... and finds nothing to do if an earlier DETECT took it all.
DetectNothing ==
    /\ Handling(EVT_DETECT) /\ scan = {} /\ detectPending = {}
    /\ Finish(queue)
    /\ UNCHANGED <<doorVars, detectVars, keyVars, timerVars, configVars, pollVars, owed>>

\* handleBtnScan polls one raw edge after another and posts what it maps to ...
ScanNext ==
    /\ Handling(EVT_BTN_SCAN) /\ ~B!SeemsEmpty(btnQueue)
    /\ btnQueue' = B!AfterPop(btnQueue)
    /\ LET evt == Mapped(B!Oldest(btnQueue))
       IN  queue' = IF evt = NoEvent THEN queue ELSE Post(queue, evt)
    /\ UNCHANGED <<doorVars, tickDue, pc, cur, detectVars, level, timerVars, configVars, pollVars, owed>>

\* ... until the button ring says it is empty.
ScanDone ==
    /\ Handling(EVT_BTN_SCAN) /\ B!SeemsEmpty(btnQueue)
    /\ Finish(queue)
    /\ UNCHANGED <<doorVars, detectVars, keyVars, timerVars, configVars, pollVars, owed>>

\* handleDoorOpen: doorLock_requestOpen ...
OpenBegin ==
    /\ \E d \in Door : Handling(EVT_DOOR_OPEN(d)) /\ Doors!RequestOpen(d)
                       /\ owed' = [owed EXCEPT ![d] = IF @ > -1 THEN @ - 1 ELSE @]
    /\ UNCHANGED <<loopVars, detectVars, keyVars, timerVars, configVars, pollVars>>

OpenRelock ==
    /\ pc = "handle" /\ Doors!RelockPrevious
    /\ UNCHANGED <<loopVars, detectVars, keyVars, timerVars, configVars, pollVars, owed>>

\* ... then the relock timer, unless the door's delay is zero.
OpenFinish ==
    /\ pc = "handle" /\ Doors!UnlockTarget
    /\ LET delay == lockDelay[target]
       IN  /\ lockTimeoutCnt' = IF delay > 0 THEN delay ELSE lockTimeoutCnt
           /\ lockTimeoutActive' = (delay > 0 \/ lockTimeoutActive)
    /\ Finish(queue)
    /\ UNCHANGED <<detectVars, keyVars, secPrescaler, configVars, pollVars, owed>>

HandleLockTimeout ==
    /\ Handling(EVT_LOCK_TIMEOUT)
    /\ \/ Doors!LockTimeout
       \/ openDoor = Doors!None /\ UNCHANGED doorVars
    /\ Finish(queue)
    /\ UNCHANGED <<detectVars, keyVars, timerVars, configVars, pollVars, owed>>

-----------------------------------------------------------------------------
\* handleConfigKey outside config mode: choose a door, or enter the mode.
ConfigIdleKey ==
    /\ ~configMode
    /\ \/ /\ Handling(EVT_CFG_SELECT)
          /\ selectedDoor' = NextDoor
          /\ Finish(Post(queue, EVT_DISPLAY_REFRESH))
          /\ UNCHANGED <<configMode, configIdleCnt>>
       \/ /\ Handling(EVT_CFG_ENTER)
          /\ configMode' = TRUE
          /\ configIdleCnt' = ConfigIdle
          /\ Finish(Post(queue, EVT_DISPLAY_REFRESH))
          /\ UNCHANGED selectedDoor
       \/ /\ \E evt \in {EVT_CFG_INC, EVT_CFG_DEC} : Handling(evt)
          /\ Finish(queue)
          /\ UNCHANGED <<configMode, configIdleCnt, selectedDoor>>
    /\ UNCHANGED <<doorVars, detectVars, keyVars, timerVars, lockDelay, pollVars, owed>>

\* handleConfigKey in config mode: change the delay, a byte, or leave.
ConfigModeKey ==
    /\ configMode
    /\ configIdleCnt' = ConfigIdle
    /\ \/ /\ Handling(EVT_CFG_INC)
          /\ lockDelay' = [lockDelay EXCEPT ![selectedDoor] = (@ + 1) % DelayWord]
          /\ UNCHANGED configMode
       \/ /\ Handling(EVT_CFG_DEC)
          /\ lockDelay' = [lockDelay EXCEPT ![selectedDoor] = IF @ >= 1 THEN @ - 1 ELSE @]
          /\ UNCHANGED configMode
       \/ /\ \E evt \in {EVT_CFG_SELECT, EVT_CFG_ENTER} : Handling(evt)
          /\ configMode' = FALSE
          /\ UNCHANGED lockDelay
    /\ Finish(Post(queue, EVT_DISPLAY_REFRESH))
    /\ UNCHANGED <<doorVars, detectVars, keyVars, timerVars, selectedDoor, pollVars, owed>>

\* The display is not driven yet and the heartbeat only prints.
HandleNothing ==
    /\ \E evt \in {EVT_DISPLAY_REFRESH, EVT_TEST_SEC} : Handling(evt)
    /\ Finish(queue)
    /\ UNCHANGED <<doorVars, detectVars, keyVars, timerVars, configVars, pollVars, owed>>

-----------------------------------------------------------------------------
MainLoop ==
    \/ Boot \/ Pull
    \/ HandleTick
    \/ TakePending \/ DetectNext \/ DetectNothing
    \/ ScanNext \/ ScanDone
    \/ OpenBegin \/ OpenRelock \/ OpenFinish
    \/ HandleLockTimeout
    \/ ConfigIdleKey \/ ConfigModeKey
    \/ HandleNothing

\* timer0_isr, as far as the idle hook and the poll can tell
TickInterrupt ==
    /\ ~tickDue \/ ~PollDue
    /\ Prompt => ~tickDue /\ cur # EVT_TICK /\ EVT_TICK \notin Range(Q!Contents(queue))
    /\ tickDue' = TRUE
    /\ sincePoll' = IF PollDue THEN sincePoll ELSE sincePoll + 1
    /\ UNCHANGED <<doorVars, queue, pc, cur, detectVars, keyVars, timerVars, configVars, inputs, owed>>

\* The environment: a door is moved by hand.
MoveContact ==
    /\ pc # "boot" /\ inputs.left > 0
    /\ inputs' = [inputs EXCEPT !.left = @ - 1]
    /\ \E d \in inputs.doors \cap Door : Doors!ContactMoves(d)
    /\ UNCHANGED <<loopVars, detectVars, keyVars, timerVars, configVars, sincePoll, owed>>

Next == MainLoop \/ TickInterrupt \/ MoveContact

Spec == Init /\ [][Next]_vars

\* The processor does not stop, and neither does Timer0.
FairSpec == Spec /\ WF_vars(MainLoop) /\ WF_vars(TickInterrupt)
-----------------------------------------------------------------------------
\* However its events come, the task drives the door manager only by its own
\* operations, one at a time, to the end of each.
ImplementsDoorLock == Doors!Spec

\* A timer that runs can still run out: neither the relock timer nor the
\* config mode is ever left on with a count the beat no longer touches.
TimersCanExpire ==
    /\ lockTimeoutActive => lockTimeoutCnt > 0
    /\ configMode => configIdleCnt > 0

\* The config keys index the doors array by selectedDoor unchecked; it names
\* a registered door from the first key on.
SelectedIsRegistered == pc # "boot" => selectedDoor < doorCnt

\* Every opening answers a release of that door's own key, and no release is
\* answered twice (btnEventMap.c: a full press-then-release commits one open
\* request).
OpensWereAsked == \A d \in Door : owed[d] >= 0

\* Whatever the queue refuses, the loop goes on serving ticks.
TicksServed == []<><<HandleTick>>_vars

\* Left alone, config mode times out, and so does the relock timer.
ConfigModeEnds == configMode ~> ~configMode
LockTimerEnds  == lockTimeoutActive ~> ~lockTimeoutActive

\* Left alone, a door opened under the timer is locked again (README of
\* userTasks: LOCK_TIMEOUT locks it).
OpenDoorRelocks == lockTimeoutActive ~> openDoor = Doors!None

\* A timeout relocks only when no delay is running for the open door.
RelocksWhenDue ==
    [][openDoor # Doors!None /\ openDoor' = Doors!None => ~lockTimeoutActive]_vars

\* A contact edge that was reported is eventually read.
DetectServed == detectPending # {} ~> detectPending = {}
=============================================================================
