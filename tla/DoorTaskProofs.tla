--------------------------- MODULE DoorTaskProofs ---------------------------
(***************************************************************************)
(* What holds of the door-lock task for every number of doors, queue depth *)
(* and timing, and however many inputs come: it drives the door manager    *)
(* only by the manager's own operations, so the relays stay interlocked;   *)
(* its timers can always run out; and the door its keys configure exists.  *)
(*                                                                         *)
(* The event queue takes no part in these arguments: whatever it delivers, *)
(* lost, repeated or late, each handler keeps them.  That a door opens     *)
(* only when asked depends on it: an event must not come twice, which an   *)
(* overwritten ring would make it.  As long as neither ring is overfilled  *)
(* (Roomy), every opening answers a release of its own.                    *)
(***************************************************************************)
EXTENDS DoorTask, Basics

Managed == INSTANCE DoorLockProofs

\* What the handlers rely on: the counters are numbers, the doors are doors,
\* and every one is registered before the loop starts.
Armed ==
    /\ lockTimeoutCnt \in Nat /\ configIdleCnt \in Nat
    /\ lockDelay \in [Door -> Nat]
    /\ target \in Door

Registered ==
    /\ inited \subseteq Door
    /\ doorCnt \in 0 .. DoorMax
    /\ pc # "boot" => doorCnt = DoorMax
    /\ selectedDoor \in Door

IInv == Armed /\ Registered /\ TimersCanExpire

LEMMA InitIInv == Init => IInv
<1> SUFFICES ASSUME Init PROVE IInv
  OBVIOUS
<1>1. Armed
  <2>1. target = 0 /\ 0 \in Door
    BY TaskAssumption DEF Init, Doors!Init, Door
  <2>2. lockDelay \in [Door -> Nat]
    BY TaskAssumption DEF Init
  <2> QED
    BY <2>1, <2>2 DEF Init, Armed
<1>2. Registered
  BY TaskAssumption DEF Init, Doors!Init, Registered, Door
<1> QED
  BY <1>1, <1>2 DEF Init, IInv, TimersCanExpire

-----------------------------------------------------------------------------
\* What a step does to the timers and to the door records, by the handlers
\* that touch them.
LEMMA ArmedNext == ASSUME IInv, [Next]_vars PROVE Armed' /\ TimersCanExpire'
<1> USE TaskAssumption DEF IInv, Armed, TimersCanExpire
<1>1. CASE UNCHANGED <<timerVars, configVars, target>>
  BY <1>1 DEF timerVars, configVars
<1>2. CASE HandleTick
  <2>1. UNCHANGED <<lockDelay, target>> /\ configIdleCnt' \in Nat /\ lockTimeoutCnt' \in Nat
    BY <1>2 DEF HandleTick, doorVars
  <2>2. ASSUME lockTimeoutActive' PROVE lockTimeoutCnt' > 0
    <3>1. lockTimeoutActive /\ ~LockExpires
      BY <1>2, <2>2, Zenon DEF HandleTick
    <3>2. lockTimeoutCnt' = IF Beat /\ lockTimeoutActive /\ lockTimeoutCnt > 0
                            THEN lockTimeoutCnt - 1 ELSE lockTimeoutCnt
      BY <1>2 DEF HandleTick
    <3> QED
      BY <3>1, <3>2 DEF LockExpires
  <2>3. ASSUME configMode' PROVE configIdleCnt' > 0
    <3>1. configMode /\ ~IdleExpires
      BY <1>2, <2>3, Zenon DEF HandleTick
    <3>2. configIdleCnt' = IF Beat /\ configMode /\ configIdleCnt > 0
                           THEN configIdleCnt - 1 ELSE configIdleCnt
      BY <1>2 DEF HandleTick
    <3> QED
      BY <3>1, <3>2 DEF IdleExpires
  <2> QED
    BY <2>1, <2>2, <2>3
<1>3. CASE OpenBegin
  BY <1>3 DEF OpenBegin, Doors!RequestOpen, timerVars, configVars
<1>4. CASE OpenFinish
  BY <1>4 DEF OpenFinish, Doors!UnlockTarget, configVars
<1>5. CASE ConfigIdleKey
  <2>1. UNCHANGED <<lockTimeoutActive, lockTimeoutCnt, lockDelay, target>>
    BY <1>5 DEF ConfigIdleKey, timerVars, doorVars
  <2>2. \/ UNCHANGED <<configMode, configIdleCnt>>
        \/ configMode' = TRUE /\ configIdleCnt' = ConfigIdle
    BY <1>5 DEF ConfigIdleKey
  <2> QED
    BY <2>1, <2>2
<1>6. CASE ConfigModeKey
  <2>1. UNCHANGED <<lockTimeoutActive, lockTimeoutCnt, target>> /\ configIdleCnt' = ConfigIdle
    BY <1>6 DEF ConfigModeKey, timerVars, doorVars
  <2>2. lockDelay' \in [Door -> Nat]
    <3>1. \A n \in Nat : (n + 1) % DelayWord \in Nat /\ (IF n >= 1 THEN n - 1 ELSE n) \in Nat
      OBVIOUS
    <3> QED
      BY <1>6, <3>1 DEF ConfigModeKey
  <2> QED
    BY <2>1, <2>2
<1> QED
  BY <1>1, <1>2, <1>3, <1>4, <1>5, <1>6
     DEF Next, MainLoop, vars, Boot, Doors!Register, Pull, TakePending, DetectNext,
         Doors!Detect, DetectNothing, ScanNext, ScanDone, OpenRelock, Doors!RelockPrevious,
         HandleLockTimeout, Doors!LockTimeout, HandleNothing, TickInterrupt, MoveContact,
         Doors!ContactMoves, doorVars, timerVars, configVars

LEMMA RegisteredNext == ASSUME IInv, [Next]_vars PROVE Registered'
<1> USE TaskAssumption DEF IInv, Registered, Door
<1>1. CASE Boot
  BY <1>1 DEF Boot, Doors!Register, configVars
<1>2. CASE ConfigIdleKey
  BY <1>2 DEF ConfigIdleKey, NextDoor, doorVars, Finish, Handling
<1>3. CASE UNCHANGED <<inited, doorCnt, selectedDoor>> /\ (pc = "boot" => pc' = "boot")
  BY <1>3
<1> QED
  BY <1>1, <1>2, <1>3
     DEF Next, MainLoop, vars, Pull, HandleTick, TakePending, DetectNext, Doors!Detect,
         DetectNothing, ScanNext, ScanDone, OpenBegin, OpenRelock, OpenFinish,
         Doors!RequestOpen, Doors!RelockPrevious, Doors!UnlockTarget, HandleLockTimeout,
         Doors!LockTimeout, ConfigModeKey, HandleNothing, TickInterrupt, MoveContact,
         Doors!ContactMoves, doorVars, loopVars, timerVars, configVars, Finish, Handling

-----------------------------------------------------------------------------
\* Every step of the firmware is one of the manager's operations or leaves the
\* manager and its relays alone.
LEMMA StepDoors == ASSUME IInv, [Next]_vars PROVE [Doors!Next]_(Doors!vars)
<1>1. CASE UNCHANGED doorVars
  BY <1>1 DEF doorVars, Doors!vars
<1>2. CASE Boot
  BY <1>2 DEF Boot, Doors!Next
<1>3. CASE DetectNext
  <2>1. PICK d : Doors!Detect(d)
    BY <1>3 DEF DetectNext
  <2>2. d \in Doors!Door
    BY <2>1 DEF Doors!Detect, IInv, Registered, Door, Doors!Door
  <2> QED
    BY <2>1, <2>2 DEF Doors!Next
<1>4. CASE OpenBegin \/ OpenRelock \/ OpenFinish
  BY <1>4 DEF OpenBegin, OpenRelock, OpenFinish, Doors!Next, Door, Doors!Door
<1>5. CASE HandleLockTimeout
  BY <1>5 DEF HandleLockTimeout, Doors!Next, doorVars, Doors!vars
<1>6. CASE MoveContact
  BY <1>6 DEF MoveContact, Doors!Next, Door, Doors!Door
<1> QED
  BY <1>1, <1>2, <1>3, <1>4, <1>5, <1>6
     DEF Next, MainLoop, vars, Pull, HandleTick, TakePending, DetectNothing, ScanNext,
         ScanDone, ConfigIdleKey, ConfigModeKey, HandleNothing, TickInterrupt

-----------------------------------------------------------------------------
LEMMA Invariance == Spec => []IInv
<1>1. IInv /\ [Next]_vars => IInv'
  BY ArmedNext, RegisteredNext DEF IInv
<1> QED
  BY InitIInv, <1>1, PTL DEF Spec

\* The relock timer and the config mode's idle timer, once on, always have a
\* count that the one-second beat can run down to zero.
THEOREM TimersCanExpireHolds == Spec => []TimersCanExpire
<1>1. IInv => TimersCanExpire
  BY DEF IInv
<1> QED
  BY Invariance, <1>1, PTL

\* The door the config keys act on is registered: the doors array is never
\* indexed past its end.
THEOREM SelectedIsRegisteredHolds == Spec => []SelectedIsRegistered
<1>1. IInv => SelectedIsRegistered
  BY TaskAssumption DEF IInv, Registered, SelectedIsRegistered, Door
<1> QED
  BY Invariance, <1>1, PTL

\* The firmware implements the door manager's specification.
THEOREM DrivesManagerOnly == Spec => ImplementsDoorLock
<1>1. Init => Doors!Init
  BY DEF Init
<1>2. IInv /\ [Next]_vars => [Doors!Next]_(Doors!vars)
  BY StepDoors
<1> QED
  BY <1>1, <1>2, Invariance, PTL DEF Spec, ImplementsDoorLock, Doors!Spec

\* Hence at most one door is ever unlocked, whatever the event queue does.
\* (Managed is the manager as the proofs of DoorLock know it.)
THEOREM OneDoorUnlocked == Spec => Managed!ImplementsInterlock
<1>1. Managed!DoorMaxAssumption
  BY TaskAssumption DEF Managed!DoorMaxAssumption
<1>2. Managed!Spec => Managed!ImplementsInterlock
  BY <1>1, Managed!Refinement
<1>3. Doors!Init => Managed!Init
  BY DEF Doors!Init, Managed!Init, Doors!Door, Managed!Door, Doors!None, Managed!None
<1>4. [Doors!Next]_(Doors!vars) => [Managed!Next]_(Managed!vars)
  BY DEF Doors!Next, Managed!Next, Doors!vars, Managed!vars, Doors!Door, Managed!Door,
         Doors!Register, Managed!Register, Doors!RequestOpen, Managed!RequestOpen,
         Doors!RelockPrevious, Managed!RelockPrevious, Doors!UnlockTarget, Managed!UnlockTarget,
         Doors!LockTimeout, Managed!LockTimeout, Doors!Detect, Managed!Detect,
         Doors!ContactMoves, Managed!ContactMoves, Doors!Drive, Managed!Drive,
         Doors!None, Managed!None
<1>5. Doors!Spec => Managed!Spec
  BY <1>3, <1>4, PTL DEF Doors!Spec, Managed!Spec
<1> QED
  BY DrivesManagerOnly, <1>2, <1>5 DEF ImplementsDoorLock

-----------------------------------------------------------------------------
(***************************************************************************)
(* The way of a release: an edge in the button ring, an event in the event *)
(* ring, an event in hand.  Whatever is refused on the way only shortens   *)
(* it.                                                                     *)
(***************************************************************************)

\* The obligation of the loop: no ring has been written over.
Roomy == Q!Occupancy(queue) <= QueueMax /\ B!Occupancy(btnQueue) <= BtnDepth

Edge == Channel \X {PRESSED, RELEASED}

\* The facts about rings, of these two
QR == INSTANCE RingOpsProofs WITH Depth <- QueueMax, Item <- Event
BR == INSTANCE RingOpsProofs WITH Depth <- BtnDepth, Item <- Edge

LEMMA DepthsFit == QR!DepthAssumption /\ BR!DepthAssumption
  BY TaskAssumption DEF QR!DepthAssumption, BR!DepthAssumption

\* They are about the same operators by other names.
LEMMA SameEventRing ==
    /\ Q!Ring = QR!Ring
    /\ \A q : /\ Q!Occupancy(q) = QR!Occupancy(q)
              /\ Q!SeemsEmpty(q) = QR!SeemsEmpty(q)
              /\ Q!Oldest(q) = QR!Oldest(q)
              /\ Q!AfterPop(q) = QR!AfterPop(q)
              /\ \A x : Q!AfterPush(q, x, FALSE) = QR!AfterPush(q, x, FALSE)
  BY Zenon
  DEF Q!Ring, Q!Index, Q!Slot, QR!Ring, QR!Index, QR!Slot, Q!Occupancy, QR!Occupancy,
      Q!CalcCount, Q!ToSigned, Q!ToUnsigned, Q!Word, Q!SeemsEmpty, Q!SeemsFull, Q!Oldest,
      Q!AfterPop, Q!AfterPush, Q!Stored, Q!Evicted, Q!UpdateIdx, Q!SlotOf,
      QR!CalcCount, QR!ToSigned, QR!ToUnsigned, QR!Word, QR!SeemsEmpty, QR!SeemsFull, QR!Oldest,
      QR!AfterPop, QR!AfterPush, QR!Stored, QR!Evicted, QR!UpdateIdx, QR!SlotOf

LEMMA SameEdgeRing ==
    /\ B!Ring = BR!Ring
    /\ \A q : /\ B!Occupancy(q) = BR!Occupancy(q)
              /\ B!SeemsEmpty(q) = BR!SeemsEmpty(q)
              /\ B!Oldest(q) = BR!Oldest(q)
              /\ B!AfterPop(q) = BR!AfterPop(q)
              /\ \A x : B!AfterPush(q, x, FALSE) = BR!AfterPush(q, x, FALSE)
  BY Zenon
  DEF B!Ring, B!Index, B!Slot, BR!Ring, BR!Index, BR!Slot, B!Occupancy, BR!Occupancy, Edge,
      B!CalcCount, B!ToSigned, B!ToUnsigned, B!Word, B!SeemsEmpty, B!SeemsFull, B!Oldest,
      B!AfterPop, B!AfterPush, B!Stored, B!Evicted, B!UpdateIdx, B!SlotOf,
      BR!CalcCount, BR!ToSigned, BR!ToUnsigned, BR!Word, BR!SeemsEmpty, BR!SeemsFull, BR!Oldest,
      BR!AfterPop, BR!AfterPush, BR!Stored, BR!Evicted, BR!UpdateIdx, BR!SlotOf

\* At most W[d] events in q ask for door d, and at most V[d] edges in rb are
\* releases of its key, unless the ring has been written over.
EventsWait(q, W) == q \in Q!Ring /\ \A d \in Door : QR!AtMost(q, EVT_DOOR_OPEN(d), W[d])
EdgesWait(rb, V) == rb \in B!Ring /\ \A d \in Door : BR!AtMost(rb, <<d, RELEASED>>, V[d])

Counts == [Door -> Nat]

\* The event in hand asks for door d, and has not been acted on.
InHand(d) == IF cur = EVT_DOOR_OPEN(d) /\ phase = "idle" THEN 1 ELSE 0

\* What waits, wherever it waits, is owed.
Covered(V, W) == \A d \in Door : V[d] + W[d] + InHand(d) <= owed[d]

Asked ==
    /\ level \in [Channel -> {PRESSED, RELEASED}]
    /\ owed \in [Door -> Int]
    /\ \E V, W \in Counts : EdgesWait(btnQueue, V) /\ EventsWait(queue, W) /\ Covered(V, W)

\* The event a press or a release comes to is one of the task's; only that of
\* a door's key asks for the door, and no two doors share one.
LEMMA EventNumbers ==
    /\ \A d \in Door : EVT_DOOR_OPEN(d) \in Event /\ EVT_DOOR_OPEN(d) \in 3 .. 6
    /\ \A d, e \in Door : EVT_DOOR_OPEN(d) = EVT_DOOR_OPEN(e) => d = e
    /\ Door \subseteq 0 .. 3 /\ Channel \subseteq 0 .. 7
  BY TaskAssumption DEF EVT_DOOR_OPEN, Event, Door, Channel, CfgKey

LEMMA FiniteChannel == IsFiniteSet(Channel)
<1>1. IsFiniteSet(0 .. 7)
  <2>1. 0 \in Int /\ 7 \in Int
    OBVIOUS
  <2> QED
    BY <2>1, FS_Interval, Zenon
<1>2. Channel \in SUBSET (0 .. 7)
  BY EventNumbers
<1> QED
  BY <1>1, <1>2, FS_Subset, Zenon

-----------------------------------------------------------------------------
\* The event ring: a post adds its event at most, a pull takes one out.
LEMMA PostAdds ==
    ASSUME NEW q, NEW W \in Counts, EventsWait(q, W), NEW evt \in Event
    PROVE  LET new == [d \in Door |-> IF evt = EVT_DOOR_OPEN(d) THEN W[d] + 1 ELSE W[d]]
           IN  new \in Counts /\ EventsWait(Post(q, evt), new)
<1> DEFINE new == [d \in Door |-> IF evt = EVT_DOOR_OPEN(d) THEN W[d] + 1 ELSE W[d]]
<1>1. \A d \in Door : W[d] \in Nat
  BY DEF Counts
<1>2. q \in QR!Ring
  BY SameEventRing DEF EventsWait
<1>3. Post(q, evt) = QR!AfterPush(q, evt, FALSE)
  BY SameEventRing DEF Post
<1>4. Post(q, evt) \in Q!Ring
  BY <1>2, <1>3, SameEventRing, DepthsFit, QR!RingTypes
<1>5. ASSUME NEW d \in Door PROVE QR!AtMost(Post(q, evt), EVT_DOOR_OPEN(d), new[d])
  <2>1. QR!AtMost(q, EVT_DOOR_OPEN(d), W[d])
    BY DEF EventsWait
  <2>2. QR!AtMost(Post(q, evt), EVT_DOOR_OPEN(d),
                  IF evt = EVT_DOOR_OPEN(d) THEN W[d] + 1 ELSE W[d])
    BY <1>1, <1>2, <1>3, <2>1, DepthsFit, QR!AtMostPush
  <2> QED
    BY <2>2
<1>6. new \in Counts
  BY <1>1 DEF Counts
<1> QED
  BY <1>4, <1>5, <1>6 DEF EventsWait

LEMMA PostOther ==
    ASSUME NEW q, NEW W \in Counts, EventsWait(q, W), NEW evt \in Event, evt \notin 3 .. 6
    PROVE  EventsWait(Post(q, evt), W)
<1> DEFINE new == [d \in Door |-> IF evt = EVT_DOOR_OPEN(d) THEN W[d] + 1 ELSE W[d]]
<1>1. \A d \in Door : new[d] = W[d]
  BY EventNumbers
<1>2. EventsWait(Post(q, evt), new)
  BY PostAdds
<1> HIDE DEF new
<1> QED
  BY <1>1, <1>2 DEF EventsWait

LEMMA IdlePosts ==
    ASSUME NEW q, NEW W \in Counts, EventsWait(q, W)
    PROVE  EventsWait(AfterIdle(q), W)
<1>1. EVT_TICK \in Event /\ EVT_TICK \notin 3 .. 6
  BY DEF EVT_TICK, Event
<1>2. EventsWait(Post(q, EVT_TICK), W)
  BY <1>1, PostOther
<1> QED
  BY <1>2 DEF AfterIdle

LEMMA PullTakes ==
    ASSUME NEW q, NEW W \in Counts, EventsWait(q, W), Q!Occupancy(q) <= QueueMax
    PROVE  /\ Q!SeemsEmpty(q) => Q!AfterPop(q) = q
           /\ ~Q!SeemsEmpty(q) =>
                \E left \in Counts :
                   /\ EventsWait(Q!AfterPop(q), left)
                   /\ \A d \in Door :
                        left[d] + (IF Q!Oldest(q) = EVT_DOOR_OPEN(d) THEN 1 ELSE 0) = W[d]
<1>1. Q!SeemsEmpty(q) => Q!AfterPop(q) = q
  BY DEF Q!AfterPop
<1>2. ASSUME ~Q!SeemsEmpty(q)
      PROVE  \E left \in Counts :
                /\ EventsWait(Q!AfterPop(q), left)
                /\ \A d \in Door :
                     left[d] + (IF Q!Oldest(q) = EVT_DOOR_OPEN(d) THEN 1 ELSE 0) = W[d]
  <2> DEFINE left == [d \in Door |-> IF Q!Oldest(q) = EVT_DOOR_OPEN(d) THEN W[d] - 1 ELSE W[d]]
  <2>1. \A d \in Door : W[d] \in Nat
    BY DEF Counts
  <2>2. q \in QR!Ring /\ QR!Occupancy(q) <= QueueMax /\ ~QR!SeemsEmpty(q)
    BY <1>2, SameEventRing DEF EventsWait
  <2>3. Q!AfterPop(q) \in Q!Ring
    <3>1. 1 \in Event
      BY DEF Event
    <3> QED
      BY <2>2, <3>1, SameEventRing, DepthsFit, QR!RingTypes
  <2>4. ASSUME NEW d \in Door
        PROVE  /\ Q!Oldest(q) = EVT_DOOR_OPEN(d) => W[d] > 0
               /\ QR!AtMost(Q!AfterPop(q), EVT_DOOR_OPEN(d), left[d])
    <3>1. QR!AtMost(q, EVT_DOOR_OPEN(d), W[d])
      BY DEF EventsWait
    <3>2. /\ QR!Oldest(q) = EVT_DOOR_OPEN(d) => W[d] > 0
          /\ QR!AtMost(QR!AfterPop(q), EVT_DOOR_OPEN(d),
                       IF QR!Oldest(q) = EVT_DOOR_OPEN(d) THEN W[d] - 1 ELSE W[d])
      BY <2>1, <2>2, <3>1, DepthsFit, QR!AtMostPop
    <3> QED
      BY <3>2, SameEventRing
  <2>5. left \in Counts
    BY <2>1, <2>4 DEF Counts
  <2>6. EventsWait(Q!AfterPop(q), left)
    BY <2>3, <2>4 DEF EventsWait
  <2>7. \A d \in Door :
           left[d] + (IF Q!Oldest(q) = EVT_DOOR_OPEN(d) THEN 1 ELSE 0) = W[d]
    BY <2>1
  <2> HIDE DEF left
  <2> QED
    BY <2>5, <2>6, <2>7
<1> QED
  BY <1>1, <1>2

\* One post after another, none of which asks for a door.
LEMMA PostsOther ==
    ASSUME NEW q, NEW W \in Counts, EventsWait(q, W), NEW evts \in Seq(Event),
           \A n \in 1 .. Len(evts) : evts[n] \notin 3 .. 6
    PROVE  EventsWait(PostAll(q, evts), W)
<1> DEFINE N == Len(evts)
           Step == [nr \in (1 .. N) \X Q!Ring |-> Post(nr[2], evts[nr[1]])]
           Is(f) == f = [n \in 0 .. N |-> IF n = 0 THEN q ELSE Post(f[n - 1], evts[n])]
           after == CHOOSE f : Is(f)
<1>1. N \in Nat /\ \A n \in 1 .. N : evts[n] \in Event /\ evts[n] \notin 3 .. 6
  BY LenProperties, ElementOfSeq
<1>2. q \in Q!Ring
  BY DEF EventsWait
<1> HIDE DEF N
<1>3. \A r \in Q!Ring, n \in 1 .. N : Post(r, evts[n]) \in Q!Ring
  BY <1>1, SameEventRing, DepthsFit, QR!RingTypes DEF Post
<1>4. Step \in [(1 .. N) \X Q!Ring -> Q!Ring]
  BY <1>3
<1>5. PICK f : Goes(f, N, Q!Ring, q, Step)
  <2> HIDE DEF Step
  <2> QED
    BY <1>1, <1>2, <1>4, RecursionDefines
<1>6. Is(f)
  <2>1. ASSUME NEW n \in 1 .. N PROVE f[n] = Post(f[n - 1], evts[n])
    <3>1. n - 1 \in 0 .. N
      BY <1>1
    <3>2. <<n, f[n - 1]>> \in (1 .. N) \X Q!Ring
      BY <1>5, <3>1 DEF Goes
    <3>3. f[n] = Step[<<n, f[n - 1]>>]
      <4> HIDE DEF Step
      <4> QED
        BY <1>5 DEF Goes
    <3> QED
      BY <3>2, <3>3
  <2> DEFINE g == [n \in 0 .. N |-> IF n = 0 THEN q ELSE Post(f[n - 1], evts[n])]
  <2>2. ASSUME NEW n \in 0 .. N PROVE f[n] = g[n]
    <3>1. g[n] = IF n = 0 THEN q ELSE Post(f[n - 1], evts[n])
      OBVIOUS
    <3>2. n = 0 \/ n \in 1 .. N
      BY <1>1
    <3> HIDE DEF g, Step
    <3> QED
      BY <1>5, <2>1, <3>1, <3>2 DEF Goes
  <2>3. f \in [0 .. N -> Q!Ring] /\ g = [n \in 0 .. N |-> g[n]]
    BY <1>5 DEF Goes
  <2>4. f = g
    <3> HIDE DEF g, Step
    <3> QED
      BY <2>2, <2>3
  <2> QED
    BY <2>4
<1>7. Is(after)
  <2> HIDE DEF Is
  <2> QED
    BY <1>6
<1>8. after[0] = q /\ \A n \in 1 .. N : after[n] = Post(after[n - 1], evts[n])
  <2> HIDE DEF after
  <2>1. ASSUME NEW n \in 0 .. N
        PROVE  after[n] = IF n = 0 THEN q ELSE Post(after[n - 1], evts[n])
    BY <1>7
  <2>2. 0 \in 0 .. N /\ \A n \in 1 .. N : n \in 0 .. N /\ n # 0
    BY <1>1
  <2> HIDE DEF Is
  <2> QED
    BY <2>1, <2>2
<1> DEFINE S == {n \in 0 .. N : EventsWait(after[n], W)}
<1>9. 0 .. N \subseteq S
  <2> HIDE DEF after
  <2>1. 0 \in S
    BY <1>1, <1>8
  <2>2. ASSUME NEW n \in 0 .. N - 1, n \in S PROVE n + 1 \in S
    <3>1. /\ n + 1 \in 1 .. N /\ (n + 1) - 1 = n
          /\ after[n + 1] = Post(after[n], evts[n + 1])
      BY <1>1, <1>8
    <3>2. EventsWait(Post(after[n], evts[n + 1]), W)
      BY <1>1, <2>2, <3>1, PostOther
    <3> QED
      BY <1>1, <3>1, <3>2
  <2> HIDE DEF S
  <2> QED
    BY <1>1, <2>1, <2>2, UpTo
<1>10. PostAll(q, evts) = after[N]
  BY DEF PostAll, N
<1> HIDE DEF after
<1> QED
  BY <1>1, <1>9, <1>10

-----------------------------------------------------------------------------
\* The button ring: a push of board_bus_poll adds its edge at most, a poll of
\* handleBtnScan takes one out.
Pushing(r, n, keys, levels) ==
    IF n - 1 \in keys THEN B!AfterPush(r, <<n - 1, levels[n - 1]>>, FALSE) ELSE r

\* The releases among the edges of the channels below n, door by door.
Released(V, n, keys, levels) ==
    [d \in Door |-> V[d] + IF d < n /\ d \in keys /\ levels[d] = RELEASED THEN 1 ELSE 0]

LEMMA PushingType ==
    ASSUME NEW r \in B!Ring, NEW n \in 1 .. Channels, NEW keys \in SUBSET Channel,
           NEW levels \in [Channel -> {PRESSED, RELEASED}]
    PROVE  Pushing(r, n, keys, levels) \in B!Ring
<1>1. ASSUME n - 1 \in keys PROVE <<n - 1, levels[n - 1]>> \in Edge
  BY <1>1 DEF Edge
<1> QED
  BY <1>1, SameEdgeRing, DepthsFit, BR!RingTypes DEF Pushing

LEMMA PushingAdds ==
    ASSUME NEW r, NEW n \in 1 .. Channels, NEW keys \in SUBSET Channel,
           NEW levels \in [Channel -> {PRESSED, RELEASED}], NEW V \in Counts,
           EdgesWait(r, Released(V, n - 1, keys, levels))
    PROVE  EdgesWait(Pushing(r, n, keys, levels), Released(V, n, keys, levels))
<1> DEFINE new == Pushing(r, n, keys, levels)
           before == Released(V, n - 1, keys, levels)
           later  == Released(V, n, keys, levels)
<1>1. n \in Int /\ n - 1 \in Int /\ Door \subseteq Int /\ \A d \in Door : V[d] \in Nat
  BY EventNumbers DEF Channels, Counts
<1>2. r \in BR!Ring /\ new \in B!Ring
  BY PushingType, SameEdgeRing DEF EdgesWait
<1>3. ASSUME NEW d \in Door PROVE BR!AtMost(new, <<d, RELEASED>>, later[d])
  <2>1. BR!AtMost(r, <<d, RELEASED>>, before[d])
    BY DEF EdgesWait
  <2>2. /\ before[d] = V[d] + IF d < n - 1 /\ d \in keys /\ levels[d] = RELEASED THEN 1 ELSE 0
        /\ later[d] = V[d] + IF d < n /\ d \in keys /\ levels[d] = RELEASED THEN 1 ELSE 0
        /\ before[d] \in Nat
    BY <1>1 DEF Released
  <2>3. CASE n - 1 \notin keys
    <3>1. new = r
      BY <2>3 DEF Pushing
    <3>2. before[d] = later[d]
      BY <1>1, <2>2, <2>3
    <3> HIDE DEF new, before, later
    <3> QED
      BY <2>1, <3>1, <3>2
  <2>4. CASE n - 1 \in keys
    <3> DEFINE x == <<n - 1, levels[n - 1]>>
    <3>1. x \in Edge
      BY <2>4 DEF Edge
    <3>2. new = BR!AfterPush(r, x, FALSE)
      BY <2>4, SameEdgeRing DEF Pushing
    <3>3. BR!AtMost(new, <<d, RELEASED>>,
                    IF x = <<d, RELEASED>> THEN before[d] + 1 ELSE before[d])
      <4> HIDE DEF new, before, x
      <4> QED
        BY <1>2, <2>1, <2>2, <3>1, <3>2, DepthsFit, BR!AtMostPush
    <3>4. (IF x = <<d, RELEASED>> THEN before[d] + 1 ELSE before[d]) = later[d]
      <4>1. x = <<d, RELEASED>> <=> n - 1 = d /\ levels[d] = RELEASED
        OBVIOUS
      <4> HIDE DEF x, before, later
      <4> QED
        BY <1>1, <2>2, <2>4, <4>1
    <3> HIDE DEF new, before, later, x
    <3> QED
      BY <3>3, <3>4
  <2> QED
    BY <2>3, <2>4
<1> QED
  BY <1>2, <1>3 DEF EdgesWait

LEMMA EdgesAdd ==
    ASSUME NEW rb, NEW V \in Counts, EdgesWait(rb, V), NEW keys \in SUBSET Channel,
           NEW levels \in [Channel -> {PRESSED, RELEASED}]
    PROVE  EdgesWait(WithEdges(rb, keys, levels), Released(V, Channels, keys, levels))
<1> DEFINE N == Channels
           Step == [nr \in (1 .. N) \X B!Ring |-> Pushing(nr[2], nr[1], keys, levels)]
           Is(f) == f = [n \in 0 .. N |->
                           IF n = 0 THEN rb
                           ELSE IF n - 1 \in keys
                                THEN B!AfterPush(f[n - 1], <<n - 1, levels[n - 1]>>, FALSE)
                           ELSE f[n - 1]]
           after == CHOOSE f : Is(f)
<1>1. N \in Nat
  BY DEF Channels
<1>2. rb \in B!Ring
  BY DEF EdgesWait
<1> HIDE DEF N
<1>3. Step \in [(1 .. N) \X B!Ring -> B!Ring]
  BY PushingType DEF N
<1>4. PICK f : Goes(f, N, B!Ring, rb, Step)
  <2> HIDE DEF Step
  <2> QED
    BY <1>1, <1>2, <1>3, RecursionDefines
<1>5. Is(f)
  <2>1. ASSUME NEW n \in 1 .. N PROVE f[n] = Pushing(f[n - 1], n, keys, levels)
    <3>1. n - 1 \in 0 .. N
      BY <1>1
    <3>2. <<n, f[n - 1]>> \in (1 .. N) \X B!Ring
      BY <1>4, <3>1 DEF Goes
    <3>3. f[n] = Step[<<n, f[n - 1]>>]
      <4> HIDE DEF Step
      <4> QED
        BY <1>4 DEF Goes
    <3> QED
      BY <3>2, <3>3
  <2> DEFINE g == [n \in 0 .. N |->
                     IF n = 0 THEN rb
                     ELSE IF n - 1 \in keys
                          THEN B!AfterPush(f[n - 1], <<n - 1, levels[n - 1]>>, FALSE)
                     ELSE f[n - 1]]
  <2>2. ASSUME NEW n \in 0 .. N PROVE f[n] = g[n]
    <3>1. g[n] = IF n = 0 THEN rb ELSE Pushing(f[n - 1], n, keys, levels)
      BY DEF Pushing
    <3>2. n = 0 \/ n \in 1 .. N
      BY <1>1
    <3> HIDE DEF g, Step
    <3> QED
      BY <1>4, <2>1, <3>1, <3>2 DEF Goes
  <2>3. f \in [0 .. N -> B!Ring] /\ g = [n \in 0 .. N |-> g[n]]
    BY <1>4 DEF Goes
  <2>4. f = g
    <3> HIDE DEF g, Step
    <3> QED
      BY <2>2, <2>3
  <2> QED
    BY <2>4
<1>6. Is(after)
  <2> HIDE DEF Is
  <2> QED
    BY <1>5
<1>7. after[0] = rb /\ \A n \in 1 .. N : after[n] = Pushing(after[n - 1], n, keys, levels)
  <2> HIDE DEF after
  <2>1. ASSUME NEW n \in 0 .. N
        PROVE  after[n] = IF n = 0 THEN rb
                          ELSE IF n - 1 \in keys
                               THEN B!AfterPush(after[n - 1], <<n - 1, levels[n - 1]>>, FALSE)
                          ELSE after[n - 1]
    BY <1>6
  <2>2. 0 \in 0 .. N /\ \A n \in 1 .. N : n \in 0 .. N /\ n # 0
    BY <1>1
  <2> HIDE DEF Is
  <2> QED
    BY <2>1, <2>2 DEF Pushing
<1> DEFINE S == {n \in 0 .. N : EdgesWait(after[n], Released(V, n, keys, levels))}
<1>8. 0 .. N \subseteq S
  <2> HIDE DEF after
  <2>1. 0 \in S
    <3>1. \A d \in Door : Released(V, 0, keys, levels)[d] = V[d]
      BY EventNumbers DEF Released, Counts
    <3>2. EdgesWait(rb, Released(V, 0, keys, levels))
      BY <3>1 DEF EdgesWait
    <3> QED
      BY <1>1, <1>7, <3>2
  <2>2. ASSUME NEW n \in 0 .. N - 1, n \in S PROVE n + 1 \in S
    <3>1. /\ n + 1 \in 1 .. N /\ (n + 1) - 1 = n
          /\ after[n + 1] = Pushing(after[n], n + 1, keys, levels)
      BY <1>1, <1>7
    <3>2. EdgesWait(after[n], Released(V, (n + 1) - 1, keys, levels)) /\ n + 1 \in 1 .. Channels
      BY <2>2, <3>1 DEF N
    <3>3. EdgesWait(after[n + 1], Released(V, n + 1, keys, levels))
      BY <3>1, <3>2, PushingAdds
    <3> QED
      BY <1>1, <3>1, <3>3
  <2> HIDE DEF S
  <2> QED
    BY <1>1, <2>1, <2>2, UpTo
<1>9. WithEdges(rb, keys, levels) = after[N]
  BY DEF WithEdges, N
<1> HIDE DEF after
<1> QED
  BY <1>1, <1>8, <1>9 DEF N

LEMMA PollTakes ==
    ASSUME NEW rb, NEW V \in Counts, EdgesWait(rb, V), B!Occupancy(rb) <= BtnDepth,
           ~B!SeemsEmpty(rb)
    PROVE  /\ B!Oldest(rb) \in Edge
           /\ \E left \in Counts :
                /\ EdgesWait(B!AfterPop(rb), left)
                /\ \A d \in Door :
                     left[d] + (IF B!Oldest(rb) = <<d, RELEASED>> THEN 1 ELSE 0) = V[d]
<1> DEFINE left == [d \in Door |-> IF B!Oldest(rb) = <<d, RELEASED>> THEN V[d] - 1 ELSE V[d]]
<1>1. \A d \in Door : V[d] \in Nat
  BY DEF Counts
<1>2. rb \in BR!Ring /\ BR!Occupancy(rb) <= BtnDepth /\ ~BR!SeemsEmpty(rb)
  BY SameEdgeRing DEF EdgesWait
<1>3. B!AfterPop(rb) \in B!Ring /\ B!Oldest(rb) \in Edge
  <2>1. <<4, PRESSED>> \in Edge
    BY DEF Edge, Channel, CfgKey
  <2> QED
    BY <1>2, <2>1, SameEdgeRing, DepthsFit, BR!RingTypes
<1>4. ASSUME NEW d \in Door
      PROVE  /\ B!Oldest(rb) = <<d, RELEASED>> => V[d] > 0
             /\ BR!AtMost(B!AfterPop(rb), <<d, RELEASED>>, left[d])
  <2>1. BR!AtMost(rb, <<d, RELEASED>>, V[d])
    BY DEF EdgesWait
  <2>2. /\ BR!Oldest(rb) = <<d, RELEASED>> => V[d] > 0
        /\ BR!AtMost(BR!AfterPop(rb), <<d, RELEASED>>,
                     IF BR!Oldest(rb) = <<d, RELEASED>> THEN V[d] - 1 ELSE V[d])
    BY <1>1, <1>2, <2>1, DepthsFit, BR!AtMostPop
  <2> QED
    BY <2>2, SameEdgeRing
<1>5. left \in Counts
  BY <1>1, <1>4 DEF Counts
<1>6. EdgesWait(B!AfterPop(rb), left)
  BY <1>3, <1>4 DEF EdgesWait
<1>7. \A d \in Door : left[d] + (IF B!Oldest(rb) = <<d, RELEASED>> THEN 1 ELSE 0) = V[d]
  BY <1>1
<1> HIDE DEF left
<1> QED
  BY <1>3, <1>5, <1>6, <1>7

-----------------------------------------------------------------------------
LEMMA InitAsked == Init => Asked
<1> SUFFICES ASSUME Init PROVE Asked
  OBVIOUS
<1> DEFINE none == [d \in Door |-> 0]
<1>1. none \in Counts
  BY DEF Counts
<1>2. EventsWait(queue, none)
  <2>1. EVT_TICK \in Event
    BY DEF EVT_TICK, Event
  <2>2. queue = [wr |-> 0, rd |-> 0, buf |-> [s \in QR!Slot |-> EVT_TICK]]
    BY DEF Init, Q!Slot, QR!Slot
  <2>3. queue \in QR!Ring /\ QR!Contents(queue) = << >>
    BY <2>1, <2>2, DepthsFit, QR!FreshRing
  <2>4. \A d \in Door : QR!AtMost(queue, EVT_DOOR_OPEN(d), none[d])
    BY <2>3, DepthsFit, QR!AtMostNone
  <2> QED
    BY <2>3, <2>4, SameEventRing DEF EventsWait
<1>3. EdgesWait(btnQueue, none)
  <2>1. <<0, RELEASED>> \in Edge
    BY TaskAssumption DEF Edge, Channel, Door
  <2>2. btnQueue = [wr |-> 0, rd |-> 0, buf |-> [s \in BR!Slot |-> <<0, RELEASED>>]]
    BY DEF Init, B!Slot, BR!Slot
  <2>3. btnQueue \in BR!Ring /\ BR!Contents(btnQueue) = << >>
    BY <2>1, <2>2, DepthsFit, BR!FreshRing
  <2>4. \A d \in Door : BR!AtMost(btnQueue, <<d, RELEASED>>, none[d])
    BY <2>3, DepthsFit, BR!AtMostNone
  <2> QED
    BY <2>3, <2>4, SameEdgeRing DEF EdgesWait
<1>4. Covered(none, none)
  <2>1. \A d \in Door : InHand(d) = 0
    BY EventNumbers DEF InHand, Init, NoEvent
  <2> QED
    BY <2>1 DEF Covered, Init
<1> HIDE DEF none
<1> QED
  BY <1>1, <1>2, <1>3, <1>4 DEF Asked, Init

-----------------------------------------------------------------------------
\* A step that touches none of it, or only forgets the event in hand, or leaves
\* a queue no more asks for a door than it found.
LEMMA SameAsked ==
    ASSUME NEW V \in Counts, NEW W \in Counts,
           EdgesWait(btnQueue, V), EventsWait(queue, W), Covered(V, W), Asked,
           UNCHANGED <<btnQueue, level, owed>>, EventsWait(queue', W),
           \A d \in Door : InHand(d)' <= InHand(d) /\ InHand(d)' \in {0, 1}
    PROVE  Asked'
<1>1. \A d \in Door : V[d] \in Nat /\ W[d] \in Nat /\ InHand(d) \in {0, 1} /\ owed[d] \in Int
  BY DEF Counts, InHand, Asked
<1>2. Covered(V, W)'
  BY <1>1 DEF Covered
<1>3. EdgesWait(btnQueue, V)'
  BY DEF EdgesWait
<1> QED
  BY <1>2, <1>3 DEF Asked

\* A handler that returns has no event in hand.
LEMMA FinishDrops ==
    ASSUME NEW q, Finish(q), NEW W \in Counts, EventsWait(q, W)
    PROVE  EventsWait(queue', W) /\ \A d \in Door : InHand(d)' = 0
<1>1. queue' = AfterIdle(q) /\ cur' = NoEvent
  BY DEF Finish
<1>2. \A d \in Door : InHand(d)' = 0
  BY <1>1, EventNumbers DEF InHand, NoEvent
<1> QED
  BY <1>1, <1>2, IdlePosts

LEMMA PullAsked == ASSUME Asked, Roomy, Pull PROVE Asked'
<1>1. PICK V \in Counts, W \in Counts :
         EdgesWait(btnQueue, V) /\ EventsWait(queue, W) /\ Covered(V, W)
  BY DEF Asked
<1>2. UNCHANGED <<btnQueue, level, owed, phase>>
  BY DEF Pull, keyVars, doorVars
<1>3. queue' = AfterIdle(Q!AfterPop(queue))
  BY DEF Pull
<1>4. \A d \in Door : InHand(d) \in {0, 1} /\ InHand(d)' \in {0, 1}
  BY DEF InHand
<1>5. CASE Q!SeemsEmpty(queue)
  <2>1. Q!AfterPop(queue) = queue
    BY <1>5 DEF Q!AfterPop
  <2>2. EventsWait(queue', W)
    BY <1>1, <1>3, <2>1, IdlePosts
  <2>3. cur' = cur
    BY <1>5 DEF Pull
  <2>4. \A d \in Door : InHand(d)' = InHand(d)
    BY <1>2, <2>3 DEF InHand
  <2> QED
    BY <1>1, <1>2, <1>4, <2>2, <2>4, SameAsked
<1>6. CASE ~Q!SeemsEmpty(queue)
  <2>1. PICK left \in Counts :
           /\ EventsWait(Q!AfterPop(queue), left)
           /\ \A d \in Door :
                left[d] + (IF Q!Oldest(queue) = EVT_DOOR_OPEN(d) THEN 1 ELSE 0) = W[d]
    BY <1>1, <1>6, PullTakes DEF Roomy
  <2>2. EventsWait(queue', left)
    BY <1>3, <2>1, IdlePosts
  <2>3. cur' = Q!Oldest(queue)
    BY <1>6 DEF Pull
  <2>4. ASSUME NEW d \in Door PROVE V[d] + left[d] + InHand(d)' <= owed'[d]
    <3>1. InHand(d)' <= IF Q!Oldest(queue) = EVT_DOOR_OPEN(d) THEN 1 ELSE 0
      BY <2>3 DEF InHand
    <3>2. V[d] \in Nat /\ W[d] \in Nat /\ left[d] \in Nat /\ owed[d] \in Int /\ owed'[d] = owed[d]
      BY <1>2 DEF Counts, Asked
    <3>3. V[d] + W[d] + InHand(d) <= owed[d]
      BY <1>1 DEF Covered
    <3> QED
      BY <1>4, <2>1, <3>1, <3>2, <3>3
  <2>5. Covered(V, left)'
    BY <2>4 DEF Covered
  <2>6. EdgesWait(btnQueue, V)'
    BY <1>1, <1>2 DEF EdgesWait
  <2> QED
    BY <1>2, <2>2, <2>5, <2>6 DEF Asked
<1> QED
  BY <1>5, <1>6

\* An edge leaves the button ring, and what it maps to, if it is a release of
\* a door's key, asks for that door.
LEMMA ScanAsked == ASSUME Asked, Roomy, ScanNext PROVE Asked'
<1>1. PICK V \in Counts, W \in Counts :
         EdgesWait(btnQueue, V) /\ EventsWait(queue, W) /\ Covered(V, W)
  BY DEF Asked
<1> DEFINE key == B!Oldest(btnQueue)
           evt == Mapped(key)
<1>2. /\ UNCHANGED <<level, owed, phase, cur>> /\ ~B!SeemsEmpty(btnQueue)
      /\ btnQueue' = B!AfterPop(btnQueue)
      /\ queue' = IF evt = NoEvent THEN queue ELSE Post(queue, evt)
  BY DEF ScanNext, doorVars
<1>3. key \in Edge
  BY <1>1, <1>2, PollTakes DEF Roomy
<1>4. PICK left \in Counts :
         /\ EdgesWait(B!AfterPop(btnQueue), left)
         /\ \A d \in Door : left[d] + (IF key = <<d, RELEASED>> THEN 1 ELSE 0) = V[d]
  BY <1>1, <1>2, PollTakes DEF Roomy
<1> HIDE DEF key
<1>5. /\ evt \in Event \cup {NoEvent}
      /\ \A d \in Door : evt = EVT_DOOR_OPEN(d) => key = <<d, RELEASED>>
  <2>1. key[1] \in Channel /\ key[2] \in {PRESSED, RELEASED} /\ key = <<key[1], key[2]>>
    BY <1>3 DEF Edge
  <2>2. CASE key[1] \in Door /\ key[2] = RELEASED
    <3>1. evt = EVT_DOOR_OPEN(key[1])
      BY <2>2 DEF Mapped, PRESSED, RELEASED
    <3> QED
      BY <2>1, <2>2, <3>1, EventNumbers
  <2>3. CASE ~(key[1] \in Door /\ key[2] = RELEASED) /\ key[1] \in CfgKey /\ key[2] = PRESSED
    <3>1. evt = 3 + key[1]
      BY <2>3 DEF Mapped
    <3>2. evt \in 7 .. 10
      BY <2>3, <3>1 DEF CfgKey
    <3> HIDE DEF evt
    <3> QED
      BY <3>2, EventNumbers DEF Event
  <2>4. CASE ~(key[1] \in Door /\ key[2] = RELEASED) /\ ~(key[1] \in CfgKey /\ key[2] = PRESSED)
    <3>1. evt = NoEvent
      BY <2>4 DEF Mapped
    <3> QED
      BY <3>1, EventNumbers DEF NoEvent
  <2> QED
    BY <2>2, <2>3, <2>4
<1> HIDE DEF evt
<1>6. PICK new \in Counts :
         /\ EventsWait(queue', new)
         /\ \A d \in Door : new[d] = IF evt = EVT_DOOR_OPEN(d) THEN W[d] + 1 ELSE W[d]
  <2> DEFINE new == [d \in Door |-> IF evt = EVT_DOOR_OPEN(d) THEN W[d] + 1 ELSE W[d]]
  <2>1. CASE evt = NoEvent
    <3>1. \A d \in Door : evt # EVT_DOOR_OPEN(d)
      BY <2>1, EventNumbers DEF NoEvent
    <3>2. EventsWait(queue', W)
      BY <1>1, <1>2, <2>1
    <3> HIDE DEF new
    <3> QED
      BY <3>1, <3>2
  <2>2. CASE evt # NoEvent
    <3>1. new \in Counts /\ EventsWait(queue', new)
      BY <1>1, <1>2, <1>5, <2>2, PostAdds
    <3>2. \A d \in Door : new[d] = IF evt = EVT_DOOR_OPEN(d) THEN W[d] + 1 ELSE W[d]
      OBVIOUS
    <3> HIDE DEF new
    <3> QED
      BY <3>1, <3>2
  <2> QED
    BY <2>1, <2>2
<1>7. ASSUME NEW d \in Door PROVE left[d] + new[d] + InHand(d)' <= owed'[d]
  <2>1. InHand(d)' = InHand(d) /\ owed'[d] = owed[d]
    BY <1>2 DEF InHand
  <2>2. /\ V[d] \in Nat /\ W[d] \in Nat /\ left[d] \in Nat /\ owed[d] \in Int
        /\ InHand(d) \in {0, 1}
    BY DEF Counts, Asked, InHand
  <2>3. V[d] + W[d] + InHand(d) <= owed[d]
    BY <1>1 DEF Covered
  <2>4. new[d] = IF evt = EVT_DOOR_OPEN(d) THEN W[d] + 1 ELSE W[d]
    BY <1>6
  <2>5. left[d] + (IF key = <<d, RELEASED>> THEN 1 ELSE 0) = V[d]
    BY <1>4
  <2>6. evt = EVT_DOOR_OPEN(d) => key = <<d, RELEASED>>
    BY <1>5
  <2> QED
    BY <2>1, <2>2, <2>3, <2>4, <2>5, <2>6
<1>8. Covered(left, new)'
  BY <1>7 DEF Covered
<1>9. EdgesWait(btnQueue', left)
  BY <1>2, <1>4
<1> QED
  BY <1>2, <1>6, <1>8, <1>9 DEF Asked

\* Edges enter the button ring: what is released is owed.
LEMMA TickAsked == ASSUME Asked, HandleTick PROVE Asked'
<1>1. PICK V \in Counts, W \in Counts :
         EdgesWait(btnQueue, V) /\ EventsWait(queue, W) /\ Covered(V, W)
  BY DEF Asked
<1>2. PICK moved \in SUBSET ContactEdges, keys \in SUBSET (inputs.keys \cap Channel) :
         /\ level' = [c \in Channel |-> IF c \in keys THEN 1 - level[c] ELSE level[c]]
         /\ btnQueue' = WithEdges(btnQueue, keys, level')
         /\ owed' = [d \in Door |->
                       owed[d] + IF d \in keys /\ level'[d] = RELEASED THEN 1 ELSE 0]
         /\ Finish(PostAll(queue,
                Only(moved # {}, EVT_DETECT)
                \o [k \in 1 .. Cardinality(keys) |-> EVT_BTN_SCAN]
                \o Only(Beat, EVT_TEST_SEC)
                \o Only(LockExpires, EVT_LOCK_TIMEOUT)
                \o Only(IdleExpires, EVT_DISPLAY_REFRESH)))
  BY DEF HandleTick
<1> DEFINE Others == {EVT_DETECT, EVT_BTN_SCAN, EVT_TEST_SEC, EVT_LOCK_TIMEOUT, EVT_DISPLAY_REFRESH}
           scans == [k \in 1 .. Cardinality(keys) |-> EVT_BTN_SCAN]
           a == Only(moved # {}, EVT_DETECT)
           b == Only(Beat, EVT_TEST_SEC)
           c == Only(LockExpires, EVT_LOCK_TIMEOUT)
           e == Only(IdleExpires, EVT_DISPLAY_REFRESH)
           evts == a \o scans \o b \o c \o e
<1>3. keys \in SUBSET Channel /\ level' \in [Channel -> {PRESSED, RELEASED}]
  BY <1>2 DEF Asked, PRESSED, RELEASED
<1>4. evts \in Seq(Others)
  <2>1. Cardinality(keys) \in Nat
    <3>1. IsFiniteSet(keys)
      BY <1>3, FiniteChannel, FS_Subset
    <3> QED
      BY <3>1, FS_CardinalityType
  <2>2. scans \in Seq(Others)
    <3>1. scans \in [1 .. Cardinality(keys) -> Others]
      OBVIOUS
    <3> HIDE DEF scans, Others
    <3> QED
      BY <2>1, <3>1
  <2>3. a \in Seq(Others) /\ b \in Seq(Others) /\ c \in Seq(Others) /\ e \in Seq(Others)
    <3>1. \A x \in Others : <<x>> \in Seq(Others) /\ << >> \in Seq(Others)
      OBVIOUS
    <3> QED
      BY <3>1 DEF Only
  <2> HIDE DEF a, b, c, e, scans, Others
  <2>4. a \o scans \in Seq(Others)
    BY <2>2, <2>3, ConcatProperties
  <2>5. (a \o scans) \o b \in Seq(Others)
    BY <2>3, <2>4, ConcatProperties
  <2>6. ((a \o scans) \o b) \o c \in Seq(Others)
    BY <2>3, <2>5, ConcatProperties
  <2> QED
    BY <2>3, <2>6, ConcatProperties
<1>5. \A x \in Others : x \in Event /\ x \notin 3 .. 6
  BY DEF Event, EVT_DETECT, EVT_BTN_SCAN, EVT_TEST_SEC, EVT_LOCK_TIMEOUT, EVT_DISPLAY_REFRESH
<1>6. Finish(PostAll(queue, evts))
  BY <1>2
<1> HIDE DEF evts, Others
<1>7. EventsWait(PostAll(queue, evts), W)
  <2>1. evts \in Seq(Event) /\ \A n \in 1 .. Len(evts) : evts[n] \in Others
    <3>1. evts \in [1 .. Len(evts) -> Others] /\ Len(evts) \in Nat
      BY <1>4, LenProperties
    <3>2. evts \in [1 .. Len(evts) -> Event]
      BY <1>5, <3>1
    <3> QED
      BY <3>1, <3>2
  <2> QED
    BY <1>1, <1>5, <2>1, PostsOther
<1>8. EventsWait(queue', W) /\ \A d \in Door : InHand(d)' = 0
  BY <1>6, <1>7, FinishDrops
<1>9. PICK new \in Counts : EdgesWait(btnQueue', new) /\ new = Released(V, Channels, keys, level')
  <2>1. EdgesWait(btnQueue', Released(V, Channels, keys, level'))
    BY <1>1, <1>2, <1>3, EdgesAdd
  <2>2. Released(V, Channels, keys, level') \in Counts
    BY DEF Released, Counts
  <2> QED
    BY <2>1, <2>2
<1>10. ASSUME NEW d \in Door
       PROVE  /\ new[d] = V[d] + IF d \in keys /\ level'[d] = RELEASED THEN 1 ELSE 0
              /\ V[d] \in Nat /\ W[d] \in Nat /\ owed[d] \in Int /\ InHand(d) \in {0, 1}
              /\ V[d] + W[d] + InHand(d) <= owed[d]
              /\ owed'[d] = owed[d] + IF d \in keys /\ level'[d] = RELEASED THEN 1 ELSE 0
              /\ InHand(d)' = 0
  <2>1. d < Channels
    BY EventNumbers DEF Channels
  <2>2. new[d] = V[d] + IF d \in keys /\ level'[d] = RELEASED THEN 1 ELSE 0
    BY <1>9, <2>1 DEF Released
  <2>3. /\ V[d] \in Nat /\ W[d] \in Nat /\ owed[d] \in Int /\ InHand(d) \in {0, 1}
        /\ V[d] + W[d] + InHand(d) <= owed[d]
    BY <1>1 DEF Counts, Asked, InHand, Covered
  <2>4. owed'[d] = owed[d] + IF d \in keys /\ level'[d] = RELEASED THEN 1 ELSE 0
    BY <1>2
  <2> QED
    BY <1>8, <2>2, <2>3, <2>4
<1>11. Covered(new, W)'
  BY <1>10 DEF Covered
<1>12. owed' \in [Door -> Int]
  BY <1>2 DEF Asked
<1> QED
  BY <1>3, <1>8, <1>9, <1>11, <1>12 DEF Asked

\* The request in hand is acted on, and paid for.
LEMMA OpenAsked == ASSUME Asked, OpenBegin PROVE Asked'
<1>1. PICK V \in Counts, W \in Counts :
         EdgesWait(btnQueue, V) /\ EventsWait(queue, W) /\ Covered(V, W)
  BY DEF Asked
<1>2. PICK o \in Door : /\ Handling(EVT_DOOR_OPEN(o)) /\ Doors!RequestOpen(o)
                        /\ owed' = [owed EXCEPT ![o] = IF @ > -1 THEN @ - 1 ELSE @]
  BY DEF OpenBegin
<1>3. UNCHANGED <<btnQueue, level, queue>>
  BY DEF OpenBegin, keyVars, loopVars
<1>4. cur = EVT_DOOR_OPEN(o) /\ phase = "idle" /\ phase' \in {"relock", "unlock"}
  BY <1>2 DEF Handling, Doors!RequestOpen
<1>5. ASSUME NEW d \in Door PROVE owed'[d] \in Int /\ V[d] + W[d] + InHand(d)' <= owed'[d]
  <2>1. InHand(d)' = 0
    BY <1>4 DEF InHand
  <2>2. InHand(d) = IF d = o THEN 1 ELSE 0
    BY <1>4, EventNumbers DEF InHand
  <2>3. /\ V[d] \in Nat /\ W[d] \in Nat /\ owed[d] \in Int
        /\ V[d] + W[d] + InHand(d) <= owed[d]
    BY <1>1 DEF Counts, Asked, Covered
  <2>4. owed'[d] = IF d = o THEN (IF owed[o] > -1 THEN owed[o] - 1 ELSE owed[o]) ELSE owed[d]
    BY <1>2 DEF Asked
  <2> QED
    BY <2>1, <2>2, <2>3, <2>4
<1>6. Covered(V, W)' /\ owed' \in [Door -> Int]
  <2>1. Covered(V, W)'
    BY <1>5 DEF Covered
  <2>2. owed' \in [Door -> Int]
    BY <1>2 DEF Asked
  <2> QED
    BY <2>1, <2>2
<1>7. EdgesWait(btnQueue, V)' /\ EventsWait(queue', W)
  BY <1>1, <1>3 DEF EdgesWait
<1> QED
  BY <1>3, <1>6, <1>7 DEF Asked

LEMMA AskedNext == ASSUME Asked, Roomy, [Next]_vars PROVE Asked'
<1>1. PICK V \in Counts, W \in Counts :
         EdgesWait(btnQueue, V) /\ EventsWait(queue, W) /\ Covered(V, W)
  BY DEF Asked
<1>2. \A d \in Door : InHand(d) \in {0, 1} /\ InHand(d)' \in {0, 1}
  BY DEF InHand
\* Nothing of it changes, but that a call of the manager may be under way.
<1>3. ASSUME UNCHANGED <<btnQueue, level, owed, queue, cur>>, phase' \in {phase, "unlock"}
      PROVE  Asked'
  <2>1. \A d \in Door : InHand(d)' <= InHand(d)
    BY <1>3 DEF InHand
  <2> QED
    BY <1>1, <1>2, <1>3, <2>1, SameAsked
\* A handler returns having posted nothing that asks for a door.
<1>4. ASSUME UNCHANGED <<btnQueue, level, owed>>, NEW q, Finish(q), EventsWait(q, W) PROVE Asked'
  <2>1. EventsWait(queue', W) /\ \A d \in Door : InHand(d)' <= InHand(d)
    BY <1>2, <1>4, FinishDrops
  <2> QED
    BY <1>1, <1>2, <1>4, <2>1, SameAsked
<1>5. EventsWait(Post(queue, EVT_DISPLAY_REFRESH), W)
  BY <1>1, PostOther DEF EVT_DISPLAY_REFRESH, Event
<1>6. CASE Boot \/ TakePending \/ TickInterrupt \/ MoveContact \/ UNCHANGED vars
  BY <1>3, <1>6
     DEF Boot, TakePending, TickInterrupt, MoveContact, vars, Doors!Register, Doors!ContactMoves,
         doorVars, loopVars, keyVars
<1>7. CASE Pull
  BY <1>7, PullAsked
<1>8. CASE HandleTick
  BY <1>8, TickAsked
<1>9. CASE ScanNext
  BY <1>9, ScanAsked
<1>10. CASE OpenBegin
  BY <1>10, OpenAsked
<1>11. CASE OpenRelock
  BY <1>3, <1>11 DEF OpenRelock, Doors!RelockPrevious, loopVars, keyVars
<1>12. CASE DetectNext
  <2>1. UNCHANGED <<btnQueue, level, owed>> /\ (Finish(queue) \/ UNCHANGED loopVars)
    BY <1>12, Zenon DEF DetectNext, keyVars
  <2>2. phase' = phase
    BY <1>12 DEF DetectNext, Doors!Detect
  <2>3. CASE UNCHANGED loopVars
    BY <1>3, <2>1, <2>2, <2>3 DEF loopVars
  <2> QED
    BY <1>1, <1>4, <2>1, <2>3
<1>13. CASE DetectNothing \/ ScanDone \/ OpenFinish \/ HandleLockTimeout \/ HandleNothing
  <2>1. UNCHANGED <<btnQueue, level, owed>> /\ Finish(queue)
    BY <1>13 DEF DetectNothing, ScanDone, OpenFinish, HandleLockTimeout, HandleNothing, keyVars
  <2> QED
    BY <1>1, <1>4, <2>1
<1>14. CASE ConfigIdleKey \/ ConfigModeKey
  <2>1. /\ UNCHANGED <<btnQueue, level, owed>>
        /\ Finish(queue) \/ Finish(Post(queue, EVT_DISPLAY_REFRESH))
    BY <1>14, Zenon DEF ConfigIdleKey, ConfigModeKey, keyVars
  <2> QED
    BY <1>1, <1>4, <1>5, <2>1
<1> QED
  BY <1>6, <1>7, <1>8, <1>9, <1>10, <1>11, <1>12, <1>13, <1>14 DEF Next, MainLoop

\* As long as the loop leaves neither ring written over, every opening answers
\* a release of that door's own key, and none is answered twice, however late
\* its event comes and whatever else is refused.
THEOREM OpeningsWereAsked == Spec /\ []Roomy => []OpensWereAsked
<1>1. Asked /\ Roomy /\ [Next]_vars => Asked'
  BY AskedNext
<1>2. Asked => OpensWereAsked
  <2> SUFFICES ASSUME Asked, NEW d \in Door PROVE owed[d] >= 0
    BY DEF OpensWereAsked
  <2>1. PICK V \in Counts, W \in Counts : Covered(V, W)
    BY DEF Asked
  <2>2. V[d] \in Nat /\ W[d] \in Nat /\ InHand(d) \in {0, 1} /\ owed[d] \in Int
    BY DEF Counts, InHand, Asked
  <2> QED
    BY <2>1, <2>2 DEF Covered
<1> QED
  BY InitAsked, <1>1, <1>2, PTL DEF Spec
=============================================================================
