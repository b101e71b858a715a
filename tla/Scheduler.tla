----------------------------- MODULE Scheduler -----------------------------
(***************************************************************************)
(* compoent/EventScheduling: the task pool, the event ring and the two     *)
(* ways of running them, EventSchedul_MainLoop and EventSchedul_TmosPoll,  *)
(* with the tick broadcast of src/tickBroadcast.c as the idle hook.        *)
(*                                                                         *)
(* Clients call the API before the loop starts and from inside a handler;  *)
(* the only interrupt makes a tick due.  A queued event holds a pointer to *)
(* a pool node, and the event to handle is kept in the node, not on the    *)
(* loop's stack.                                                           *)
(***************************************************************************)
EXTENDS Integers, FiniteSets, SequencesExt

CONSTANTS
    TasksMax,   \* EVTSCHEDUL_TASKS_MAX, 2
    QueueMax,   \* EVTSCHEDUL_TASKS_QUEUE_MAX, 4
    TableMax,   \* TICKBROADCAST_MAX_TASKS, 8
    HalfWord,   \* 2^15: ids are short, events unsigned short
    Cfg,        \* bound: the tasks clients register, [fn, first, last]
    Posted,     \* bound: the events clients post
    MaxCalls,   \* bound: registrations, retirements and posts in a behaviour
    Drawn,      \* bound: how many ids earlier tasks, all retired, have drawn
    Polite,     \* clients keep the queue from filling and retire a task
                \* only when none of its events waits
    NoFunc      \* a NULL task function

Node    == 0 .. TasksMax - 1
NoNode  == -1
EVT_TICK == 1
INIT_EVT == 0
INVALID_EVT == 2 * HalfWord - 1
Event   == 0 .. 2 * HalfWord - 1

\* The queue's depth is one that RINGBUF_ARG_CHECK lets pass; a task has a
\* function, which is not NULL, and a range of events.
ASSUME SchedulerAssumption ==
    /\ TasksMax \in Nat \ {0} /\ TableMax \in Nat /\ MaxCalls \in Nat
    /\ HalfWord \in Nat /\ QueueMax \in 1 .. HalfWord - 1
    /\ Drawn \subseteq 0 .. HalfWord - 1
    /\ Posted \subseteq Event
    /\ \A cfg \in Cfg : cfg.fn # NoFunc /\ cfg.first \in Event /\ cfg.last \in Event

VARIABLES
    pool,     \* taskPool
    taskNum,  \* the last id given out, a short
    queue,    \* ringTaskQueue, of <<node, event>>
    table,    \* tickBroadcast's taskTable, up to taskCount
    sleeps,   \* a sleep method has been registered
    pc,       \* setup, then pull -> sleep -> call -> handle -> sleepAgain
    polled,   \* the loop is the caller's own, around EventSchedul_TmosPoll
    current,  \* the node pulled, or NoNode
    evt,      \* what its function was called with
    tickDue,  \* the millisecond counter has moved since the idle hook looked
    calls,    \* bound: how many of MaxCalls are left
    granted   \* history: the nodes whose handles clients hold

vars == <<pool, taskNum, queue, table, sleeps, pc, polled, current, evt, tickDue, calls, granted>>

Q == INSTANCE RingOps WITH Depth <- QueueMax, Item <- Node \X Event

\* A node all of whose bytes are zero
Cleared == [fn |-> NoFunc, first |-> 0, last |-> 0, id |-> 0, trigger |-> INIT_EVT]

\* evtschedul_tasknode_t
TaskNode == [fn : {NoFunc} \cup {cfg.fn : cfg \in Cfg}, first : Event, last : Event,
             id : -HalfWord .. HalfWord - 1, trigger : Event]

TypeOK ==
    /\ pool \in [Node -> TaskNode]
    /\ taskNum \in -HalfWord .. HalfWord - 1
    /\ queue \in Q!Ring
    /\ table \in Seq(Node) /\ Len(table) <= TableMax
    /\ sleeps \in BOOLEAN /\ polled \in BOOLEAN /\ tickDue \in BOOLEAN
    /\ pc \in {"setup", "pull", "sleep", "call", "handle", "sleepAgain", "lost"}
    /\ current \in Node \cup {NoNode}
    /\ evt \in Event
    /\ calls \in 0 .. MaxCalls
    /\ granted \subseteq Node

\* EventSchedul_Create
Init ==
    /\ pool = [n \in Node |-> Cleared]
    /\ taskNum \in Drawn
    /\ queue = [wr |-> 0, rd |-> 0, buf |-> [s \in Q!Slot |-> <<0, INIT_EVT>>]]
    /\ table = << >>
    /\ sleeps = FALSE
    /\ pc = "setup" /\ polled \in BOOLEAN /\ current = NoNode /\ evt = INIT_EVT
    /\ tickDue = FALSE
    /\ calls = MaxCalls
    /\ granted = {}

-----------------------------------------------------------------------------
(***************************************************************************)
(* Plausible slips, for mutation runs only: an id that is not a short, an  *)
(* overflow that keeps its node, a broadcast that misses the last task, a  *)
(* pull that leaves the node's trigger as it was.                          *)
(***************************************************************************)
NextIdWide == taskNum + 1
OverflowedKept(node) == node
BroadcastShort(q) ==
    IF table = << >> THEN q
    ELSE FoldLeft(LAMBDA r, n : Q!AfterPush(r, <<n, EVT_TICK>>, FALSE), q, Front(table))
TriggeredNot(n) == pool

-----------------------------------------------------------------------------
\* A short incremented past its largest value comes out as its smallest.
NextId == IF taskNum = HalfWord - 1 THEN -HalfWord ELSE taskNum + 1

\* FindOrCreateFreeTaskNode
FreeNodes == {n \in Node : pool[n].fn = NoFunc}
FreeNode  == CHOOSE n \in FreeNodes : \A m \in FreeNodes : n <= m

\* EventSchedul_setEventToTask's two ranges; `last` is not in either.
InRange(node, e) ==
    IF node.first > node.last THEN ~(e < node.first /\ e >= node.last)
                              ELSE ~(e < node.first \/ e >= node.last)

Accepted(n, e) ==
    /\ pool[n].fn # NoFunc
    /\ e \notin {INIT_EVT, INVALID_EVT}
    /\ InRange(pool[n], e)

\* EventSchedul_setEventToTask: whether the ring took it, nobody asks.
Post(q, n, e) == IF Accepted(n, e) THEN Q!AfterPush(q, <<n, e>>, FALSE) ELSE q

\* tickBroadcast_Tick, entry after entry of the table
Broadcast(q) ==
    LET after[k \in 0 .. Len(table)] ==
            IF k = 0 THEN q ELSE Post(after[k - 1], table[k], EVT_TICK)
    IN  after[Len(table)]

\* The node EventSchedul_TaskRegister leaves when the id it drew is negative
Overflowed(node) == Cleared

Triggered(n) == [pool EXCEPT ![n].trigger = Q!Oldest(queue)[2]]

-----------------------------------------------------------------------------
\* Clients run while the firmware starts and inside a handler.
Calling == pc \in {"setup", "handle"}

\* EventSchedul_TaskRegister
TaskRegister ==
    /\ Calling /\ calls > 0 /\ FreeNodes # {}
    /\ calls' = calls - 1
    /\ taskNum' = NextId
    /\ \E cfg \in Cfg :
          LET node == [fn |-> cfg.fn, first |-> cfg.first, last |-> cfg.last, id |-> NextId,
                       trigger |-> pool[FreeNode].trigger]
          IN  IF NextId < 0
              THEN /\ pool' = [pool EXCEPT ![FreeNode] = Overflowed(node)]
                   /\ UNCHANGED granted
              ELSE /\ pool' = [pool EXCEPT ![FreeNode] = node]
                   /\ granted' = granted \cup {FreeNode}
    /\ UNCHANGED <<queue, table, sleeps, pc, polled, current, evt, tickDue>>

Waiting(n) == \E k \in 1 .. Len(Q!Contents(queue)) : Q!Contents(queue)[k][1] = n

\* EventSchedul_TaskUnRegister; its events stay in the queue and its handle in
\* the broadcast table.
TaskUnRegister ==
    /\ Calling /\ calls > 0
    /\ calls' = calls - 1
    /\ \E n \in granted :
          /\ Polite => ~Waiting(n)
          /\ pool' = [pool EXCEPT ![n] = Cleared]
          /\ granted' = granted \ {n}
    /\ UNCHANGED <<taskNum, queue, table, sleeps, pc, polled, current, evt, tickDue>>

\* Room for this event and a broadcast, and the last slot stays free.
Roomy == Q!Occupancy(queue) + Len(table) + 1 < QueueMax

SetEvent ==
    /\ Calling /\ calls > 0
    /\ Polite => Roomy /\ pc # "setup"
    /\ calls' = calls - 1
    /\ \E n \in granted, e \in Posted : queue' = Post(queue, n, e)
    /\ UNCHANGED <<pool, taskNum, table, sleeps, pc, polled, current, evt, tickDue, granted>>

\* tickBroadcast_Register
TickRegister ==
    /\ Calling /\ Len(table) < TableMax
    /\ Polite => Roomy
    /\ \E n \in granted : table' = Append(table, n)
    /\ UNCHANGED <<pool, taskNum, queue, sleeps, pc, polled, current, evt, tickDue, calls, granted>>

RegSleepMethod ==
    /\ pc = "setup"
    /\ sleeps' = TRUE
    /\ UNCHANGED <<pool, taskNum, queue, table, pc, polled, current, evt, tickDue, calls, granted>>

\* EventSchedul_MainLoop drops what was posted before it, and returns at once
\* without a sleep method; a caller of EventSchedul_TmosPoll just begins.
Start ==
    /\ pc = "setup"
    /\ queue' = IF polled THEN queue ELSE Q!Cleared(queue)
    /\ pc' = IF polled \/ sleeps THEN "pull" ELSE "setup"
    /\ UNCHANGED <<pool, taskNum, table, sleeps, polled, current, evt, tickDue, calls, granted>>

-----------------------------------------------------------------------------
\* pullTaskWithQueue
PullNothing ==
    /\ pc = "pull" /\ Q!SeemsEmpty(queue)
    /\ current' = NoNode
    /\ pc' = IF polled THEN "sleepAgain" ELSE "sleep"
    /\ UNCHANGED <<pool, taskNum, queue, table, sleeps, polled, evt, tickDue, calls, granted>>

Pull ==
    /\ pc = "pull" /\ ~Q!SeemsEmpty(queue)
    /\ queue' = Q!AfterPop(queue)
    /\ current' = Q!Oldest(queue)[1]
    /\ pool' = Triggered(Q!Oldest(queue)[1])
    /\ pc' = IF polled THEN "call" ELSE "sleep"
    /\ UNCHANGED <<taskNum, table, sleeps, polled, evt, tickDue, calls, granted>>

\* evtSchedul_idle, called by the loop twice a round; around TmosPoll the
\* caller's loop calls it between polls.
Sleep ==
    /\ pc \in {"sleep", "sleepAgain"}
    /\ queue' = IF tickDue THEN Broadcast(queue) ELSE queue
    /\ tickDue' = FALSE
    /\ pc' = IF pc = "sleep" /\ current # NoNode THEN "call" ELSE "pull"
    /\ UNCHANGED <<pool, taskNum, table, sleeps, polled, current, evt, calls, granted>>

\* The call through the node's pointer; a cleared one leads anywhere.
Call ==
    /\ pc = "call"
    /\ evt' = pool[current].trigger
    /\ pc' = IF pool[current].fn = NoFunc THEN "lost" ELSE "handle"
    /\ UNCHANGED <<pool, taskNum, queue, table, sleeps, polled, current, tickDue, calls, granted>>

Return ==
    /\ pc = "handle"
    /\ pc' = "sleepAgain"
    /\ current' = NoNode /\ evt' = INIT_EVT
    /\ UNCHANGED <<pool, taskNum, queue, table, sleeps, polled, tickDue, calls, granted>>

\* timer0_isr.  A polite system handles a tick before the next.
TickInterrupt ==
    /\ ~tickDue
    /\ Polite => \A k \in 1 .. Len(Q!Contents(queue)) : Q!Contents(queue)[k][2] # EVT_TICK
    /\ tickDue' = TRUE
    /\ UNCHANGED <<pool, taskNum, queue, table, sleeps, pc, polled, current, evt, calls, granted>>

Clients == TaskRegister \/ TaskUnRegister \/ SetEvent \/ TickRegister
Loop    == PullNothing \/ Pull \/ Sleep \/ Call \/ Return
Next    == Clients \/ RegSleepMethod \/ Start \/ Loop \/ TickInterrupt

Spec == Init /\ [][Next]_vars

\* Handlers return, the loop goes round and Timer0 runs.
FairSpec == Spec /\ WF_vars(PullNothing \/ Pull \/ Sleep \/ Call) /\ WF_vars(Return)
                 /\ WF_vars(TickInterrupt)
-----------------------------------------------------------------------------
\* A node as the clients see it
Task(node) == [fn |-> node.fn, first |-> node.first, last |-> node.last]

Taken == IF pc \in {"sleep", "call"} /\ current # NoNode
         THEN << <<current, pool[current].trigger>> >> ELSE << >>

D == INSTANCE Dispatch WITH
        Cfg     <- {Task(cfg) : cfg \in Cfg},
        NoTask  <- Task(Cleared),
        Idle    <- <<NoNode, INIT_EVT>>,
        task    <- [n \in Node |-> Task(pool[n])],
        pending <- Taken \o Q!Contents(queue),
        running <- IF pc = "handle" THEN <<current, evt>> ELSE <<NoNode, INIT_EVT>>

\* Between polite clients every accepted event is handled once, in order, by
\* the task it was accepted for, although queue entries point at pool nodes
\* that are cleared and given out again.
ImplementsDispatch == D!Spec

\* A node is taken exactly while a client holds its handle: a registration
\* that fails, for want of an id too, gives its node back.
NodesNotLeaked == \A n \in Node : pool[n].fn # NoFunc <=> n \in granted

\* No task in the broadcast table is starved of ticks.
TicksReachAll ==
    \A n \in Node :
        pc # "setup" /\ n \in Range(table) ~> (pc = "handle" /\ current = n /\ evt = EVT_TICK)
                              \/ ~Accepted(n, EVT_TICK)
=============================================================================
