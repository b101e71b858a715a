--------------------------- MODULE SchedulerProofs ---------------------------
(***************************************************************************)
(* The event scheduler for every size of its pool, queue and table, every  *)
(* set of tasks and every sequence of calls: a node is taken exactly while *)
(* a client holds its handle, whatever the clients do; and between polite  *)
(* clients the queue of node pointers, with the event under way kept in    *)
(* the node, does what module Dispatch promises.                           *)
(***************************************************************************)
EXTENDS Scheduler, Basics

-----------------------------------------------------------------------------
\* The facts about rings, of the event queue
R == INSTANCE RingOpsProofs WITH Depth <- QueueMax, Item <- Node \X Event

LEMMA DepthFits == R!DepthAssumption
  BY SchedulerAssumption DEF R!DepthAssumption

\* They are about the same operators by another name.
LEMMA SameRing ==
    /\ Q!Ring = R!Ring /\ Q!Slot = R!Slot
    /\ \A q : /\ Q!Occupancy(q) = R!Occupancy(q)
              /\ Q!Contents(q) = R!Contents(q)
              /\ Q!SeemsEmpty(q) = R!SeemsEmpty(q)
              /\ Q!Oldest(q) = R!Oldest(q)
              /\ Q!AfterPop(q) = R!AfterPop(q)
              /\ Q!Cleared(q) = R!Cleared(q)
              /\ Q!PushErr(q, FALSE) = R!PushErr(q, FALSE)
              /\ \A x : Q!AfterPush(q, x, FALSE) = R!AfterPush(q, x, FALSE)
  BY Zenon
  DEF Q!Ring, Q!Index, Q!Slot, R!Ring, R!Index, R!Slot,
      Q!Occupancy, Q!Contents, Q!SlotOf, Q!IndexFrom,
      R!Occupancy, R!Contents, R!SlotOf, R!IndexFrom,
      Q!CalcCount, Q!ToSigned, Q!ToUnsigned, Q!Word,
      R!CalcCount, R!ToSigned, R!ToUnsigned, R!Word,
      Q!SeemsEmpty, Q!SeemsFull, Q!Oldest, Q!AfterPop, Q!PushErr, Q!Cleared,
      R!SeemsEmpty, R!SeemsFull, R!Oldest, R!AfterPop, R!PushErr, R!Cleared,
      Q!AfterPush, Q!Stored, Q!Evicted, Q!UpdateIdx,
      R!AfterPush, R!Stored, R!Evicted, R!UpdateIdx

LEMMA QueueTypes ==
    ASSUME NEW q \in Q!Ring, NEW x \in Node \X Event
    PROVE  /\ Q!AfterPush(q, x, FALSE) \in Q!Ring
           /\ Q!AfterPop(q) \in Q!Ring
           /\ Q!Cleared(q) \in Q!Ring
           /\ Q!Oldest(q) \in Node \X Event
  BY DepthFits, SameRing, R!RingTypes

LEMMA QueuePush ==
    ASSUME NEW q \in Q!Ring, NEW x \in Node \X Event, Q!Occupancy(q) < QueueMax
    PROVE  \/ Q!AfterPush(q, x, FALSE) = q
           \/ /\ Q!Contents(Q!AfterPush(q, x, FALSE)) = Append(Q!Contents(q), x)
              /\ Q!Occupancy(Q!AfterPush(q, x, FALSE)) = Q!Occupancy(q) + 1
  BY DepthFits, SameRing, R!PushAppends

LEMMA QueuePop ==
    ASSUME NEW q \in Q!Ring, Q!Occupancy(q) < QueueMax
    PROVE  /\ Q!SeemsEmpty(q) <=> Q!Contents(q) = << >>
           /\ ~Q!SeemsEmpty(q) =>
                /\ Q!Oldest(q) = Head(Q!Contents(q))
                /\ Q!Contents(Q!AfterPop(q)) = Tail(Q!Contents(q))
                /\ Q!Occupancy(Q!AfterPop(q)) = Q!Occupancy(q) - 1
  BY DepthFits, SameRing, R!PopTakesHead

LEMMA QueueContents ==
    ASSUME NEW q \in Q!Ring, Q!Occupancy(q) < QueueMax
    PROVE  /\ Q!Contents(q) \in Seq(Node \X Event)
           /\ Len(Q!Contents(q)) = Q!Occupancy(q)
  BY DepthFits, SameRing, R!ContentsSeq

LEMMA QueueOccupancy ==
    ASSUME NEW q \in Q!Ring
    PROVE  /\ Q!Occupancy(q) \in Nat
           /\ Q!Occupancy(q) = 0 <=> Q!Contents(q) = << >>
           /\ Q!Occupancy(Q!Cleared(q)) = 0
  BY DepthFits, SameRing, R!OccupancyType, R!EmptyContents, R!ClearedIsEmpty

-----------------------------------------------------------------------------
\* What no client can upset: the types, which node belongs to a client, and
\* that a node that belongs to none is as good as new.
CleanNodes == \A n \in Node : pool[n].fn = NoFunc => Task(pool[n]) = Task(Cleared)

Owned ==
    /\ TypeOK
    /\ NodesNotLeaked
    /\ CleanNodes
    /\ pc \in {"call", "handle"} => current \in Node

LEMMA Constants ==
    /\ TasksMax \in Nat /\ 0 < TasksMax /\ 0 \in Node /\ NoNode \notin Node /\ Node \subseteq Nat
    /\ HalfWord \in Nat /\ 1 < HalfWord
    /\ INIT_EVT \in Event /\ EVT_TICK \in Event /\ Event \subseteq Nat
    /\ QueueMax \in Nat /\ 0 < QueueMax
    /\ \A cfg \in Cfg : cfg.fn # NoFunc /\ cfg.first \in Event /\ cfg.last \in Event
  BY SchedulerAssumption DEF Node, NoNode, Event, INIT_EVT, EVT_TICK

\* FindOrCreateFreeTaskNode finds a node, and one that is free.
LEMMA FreeNodeFree ==
    ASSUME FreeNodes # {}
    PROVE  FreeNode \in Node /\ pool[FreeNode].fn = NoFunc
<1>1. FreeNodes \subseteq Nat
  BY Constants DEF FreeNodes
<1>2. \E n \in FreeNodes : \A m \in FreeNodes : n <= m
  BY <1>1, LeastOf
<1>3. FreeNode \in FreeNodes
  BY <1>2 DEF FreeNode
<1> QED
  BY <1>3 DEF FreeNodes

\* A broadcast is a loop over the table: what holds of the queue at first, and
\* after each post if before it, holds of the queue it leaves.  <<k, r>> in Good
\* says that it holds of a queue r after k posts.
LEMMA BroadcastLoop ==
    ASSUME TypeOK, NEW q \in Q!Ring, NEW Good,
           <<0, q>> \in Good,
           \A k \in 1 .. Len(table), r \in Q!Ring :
              <<k - 1, r>> \in Good => <<k, Post(r, table[k], EVT_TICK)>> \in Good
    PROVE  <<Len(table), Broadcast(q)>> \in Good /\ Broadcast(q) \in Q!Ring
<1>1. table \in Seq(Node) /\ Len(table) \in Nat
  BY DEF TypeOK
<1> DEFINE N == Len(table)
           Step == [kr \in (1 .. N) \X Q!Ring |-> Post(kr[2], table[kr[1]], EVT_TICK)]
           Is(f) == f = [k \in 0 .. N |-> IF k = 0 THEN q ELSE Post(f[k - 1], table[k], EVT_TICK)]
           after == CHOOSE f : Is(f)
<1>2. ASSUME NEW k \in 1 .. N, NEW r \in Q!Ring PROVE Post(r, table[k], EVT_TICK) \in Q!Ring
  <2>1. <<table[k], EVT_TICK>> \in Node \X Event
    BY <1>1, Constants
  <2> QED
    BY <2>1, QueueTypes DEF Post
<1>3. Step \in [(1 .. N) \X Q!Ring -> Q!Ring]
  BY <1>2
<1>4. PICK f : Goes(f, N, Q!Ring, q, Step)
  <2> HIDE DEF Step
  <2> QED
    BY <1>1, <1>3, RecursionDefines
<1>5. Is(f)
  <2>1. ASSUME NEW k \in 1 .. N PROVE f[k] = Post(f[k - 1], table[k], EVT_TICK)
    <3>1. k - 1 \in 0 .. N
      BY <1>1
    <3>2. <<k, f[k - 1]>> \in (1 .. N) \X Q!Ring
      BY <1>4, <3>1 DEF Goes
    <3>3. f[k] = Step[<<k, f[k - 1]>>]
      <4> HIDE DEF Step
      <4> QED
        BY <1>4 DEF Goes
    <3> QED
      BY <3>2, <3>3
  <2> DEFINE g == [k \in 0 .. N |-> IF k = 0 THEN q ELSE Post(f[k - 1], table[k], EVT_TICK)]
  <2>2. ASSUME NEW k \in 0 .. N PROVE f[k] = g[k]
    <3>1. g[k] = IF k = 0 THEN q ELSE Post(f[k - 1], table[k], EVT_TICK)
      OBVIOUS
    <3>2. k = 0 \/ k \in 1 .. N
      BY <1>1
    <3> HIDE DEF g, Step
    <3> QED
      BY <1>4, <2>1, <3>1, <3>2 DEF Goes
  <2>3. f \in [0 .. N -> Q!Ring] /\ g = [k \in 0 .. N |-> g[k]]
    BY <1>4 DEF Goes
  <2>4. f = g
    <3> HIDE DEF g, Step
    <3> QED
      BY <2>2, <2>3
  <2> QED
    BY <2>4
<1>6. Is(after)
  <2> HIDE DEF Is
  <2> QED
    BY <1>5
<1>7. after[0] = q /\ \A k \in 1 .. N : after[k] = Post(after[k - 1], table[k], EVT_TICK)
  <2> HIDE DEF after
  <2> QED
    BY <1>1, <1>6
<1> DEFINE S == {k \in 0 .. N : after[k] \in Q!Ring /\ <<k, after[k]>> \in Good}
<1>8. 0 .. N \subseteq S
  <2> HIDE DEF after
  <2>1. 0 \in S
    BY <1>1, <1>7
  <2>2. ASSUME NEW k \in 0 .. N - 1, k \in S PROVE k + 1 \in S
    <3>1. /\ k + 1 \in 1 .. N /\ (k + 1) - 1 = k
          /\ after[k + 1] = Post(after[k], table[k + 1], EVT_TICK)
      BY <1>1, <1>7
    <3>2. <<k + 1, after[k + 1]>> \in Good
      BY <2>2, <3>1
    <3> QED
      BY <1>2, <2>2, <3>1, <3>2
  <2> HIDE DEF S
  <2> QED
    BY <1>1, <2>1, <2>2, UpTo
<1>9. Broadcast(q) = after[N]
  BY DEF Broadcast
<1> HIDE DEF after
<1> QED
  BY <1>1, <1>8, <1>9

\* A cleared or a popped queue needs no event to be pushed.
LEMMA QueueLeft ==
    ASSUME NEW q \in Q!Ring
    PROVE  Q!AfterPop(q) \in Q!Ring /\ Q!Cleared(q) \in Q!Ring /\ Q!Oldest(q) \in Node \X Event
<1>1. <<0, INIT_EVT>> \in Node \X Event
  BY Constants
<1> QED
  BY <1>1, QueueTypes

LEMMA CallSpent ==
    ASSUME Owned, calls > 0
    PROVE  calls - 1 \in 0 .. MaxCalls
  BY SchedulerAssumption DEF Owned, TypeOK

LEMMA PostType ==
    ASSUME NEW q \in Q!Ring, NEW n \in Node, NEW e \in Event
    PROVE  Post(q, n, e) \in Q!Ring
  BY QueueTypes DEF Post

LEMMA BroadcastType == ASSUME TypeOK, NEW q \in Q!Ring PROVE Broadcast(q) \in Q!Ring
<1>1. ASSUME NEW k \in 1 .. Len(table), NEW r \in Q!Ring
      PROVE  Post(r, table[k], EVT_TICK) \in Q!Ring
  <2>1. table[k] \in Node
    BY DEF TypeOK
  <2> QED
    BY <2>1, PostType, Constants
<1> DEFINE Good == (0 .. Len(table)) \X Q!Ring
<1>2. Len(table) \in Nat
  BY DEF TypeOK
<1>3. <<0, q>> \in Good
  BY <1>2
<1>4. ASSUME NEW k \in 1 .. Len(table), NEW r \in Q!Ring
      PROVE  <<k, Post(r, table[k], EVT_TICK)>> \in Good
  BY <1>1, <1>2
<1> HIDE DEF Good
<1> QED
  BY <1>3, <1>4, BroadcastLoop

-----------------------------------------------------------------------------
LEMMA ClearedIsFree == Cleared \in TaskNode /\ Cleared.fn = NoFunc
<1>1. 0 \in Event /\ INIT_EVT \in Event /\ 0 \in -HalfWord .. HalfWord - 1
  BY Constants DEF INIT_EVT
<1> QED
  BY <1>1 DEF Cleared, TaskNode

LEMMA InitOwned == ASSUME Init PROVE Owned
<1>1. Cleared \in TaskNode
  BY ClearedIsFree
<1>2. queue \in Q!Ring
  <2>1. <<0, INIT_EVT>> \in Node \X Event
    BY Constants
  <2>2. LET rb == [wr |-> 0, rd |-> 0, buf |-> [s \in R!Slot |-> <<0, INIT_EVT>>]]
        IN  rb \in R!Ring
    BY <2>1, DepthFits, R!FreshRing
  <2> QED
    BY <2>2, SameRing DEF Init
<1>3. TypeOK
  <2>1. taskNum \in -HalfWord .. HalfWord - 1 /\ 0 <= TableMax /\ MaxCalls \in 0 .. MaxCalls
    BY SchedulerAssumption DEF Init
  <2>2. pool \in [Node -> TaskNode]
    BY <1>1 DEF Init
  <2>3. table \in Seq(Node) /\ Len(table) <= TableMax
    BY <2>1 DEF Init
  <2> QED
    BY <1>2, <2>1, <2>2, <2>3, Constants DEF Init, TypeOK
<1>4. NodesNotLeaked /\ CleanNodes
  BY DEF Init, NodesNotLeaked, CleanNodes, Cleared
<1> QED
  BY <1>3, <1>4 DEF Owned, Init

LEMMA RegisterOwned == ASSUME Owned, TaskRegister PROVE Owned'
<1>1. /\ calls' = calls - 1 /\ calls > 0 /\ taskNum' = NextId
      /\ UNCHANGED <<queue, table, sleeps, pc, polled, current, evt, tickDue>>
      /\ FreeNode \in Node /\ pool[FreeNode].fn = NoFunc
  BY FreeNodeFree DEF TaskRegister
<1>2. NextId \in -HalfWord .. HalfWord - 1
  BY Constants DEF Owned, TypeOK, NextId
<1>3. pool \in [Node -> TaskNode]
  BY DEF Owned, TypeOK
<1>4. PICK cfg \in Cfg :
         LET node == [fn |-> cfg.fn, first |-> cfg.first, last |-> cfg.last, id |-> NextId,
                      trigger |-> pool[FreeNode].trigger]
         IN  IF NextId < 0
             THEN /\ pool' = [pool EXCEPT ![FreeNode] = Cleared]
                  /\ UNCHANGED granted
             ELSE /\ pool' = [pool EXCEPT ![FreeNode] = node]
                  /\ granted' = granted \cup {FreeNode}
  BY DEF TaskRegister, Overflowed
<1> DEFINE node == [fn |-> cfg.fn, first |-> cfg.first, last |-> cfg.last, id |-> NextId,
                    trigger |-> pool[FreeNode].trigger]
<1>5. node \in TaskNode /\ node.fn # NoFunc
  BY <1>1, <1>2, <1>3, Constants DEF TaskNode
<1>6. Cleared \in TaskNode /\ Cleared.fn = NoFunc
  BY ClearedIsFree
<1> HIDE DEF node
<1>7. /\ pool' \in [Node -> TaskNode] /\ granted' \subseteq Node
      /\ \A n \in Node : pool'[n].fn # NoFunc <=> n \in granted'
      /\ \A n \in Node : pool'[n].fn = NoFunc => Task(pool'[n]) = Task(Cleared)
  <2>1. /\ granted \subseteq Node
        /\ \A n \in Node : pool[n].fn # NoFunc <=> n \in granted
        /\ \A n \in Node : pool[n].fn = NoFunc => Task(pool[n]) = Task(Cleared)
    BY DEF Owned, TypeOK, NodesNotLeaked, CleanNodes
  <2>2. CASE NextId < 0
    BY <1>1, <1>3, <1>4, <1>6, <2>1, <2>2
  <2>3. CASE ~(NextId < 0)
    <3>1. pool' = [pool EXCEPT ![FreeNode] = node] /\ granted' = granted \cup {FreeNode}
      BY <1>4, <2>3 DEF node
    <3> QED
      BY <1>1, <1>3, <1>5, <2>1, <3>1
  <2> QED
    BY <2>2, <2>3
<1>8. calls' \in 0 .. MaxCalls
  BY <1>1, CallSpent
<1> QED
  BY <1>1, <1>2, <1>7, <1>8 DEF Owned, TypeOK, NodesNotLeaked, CleanNodes

LEMMA UnRegisterOwned == ASSUME Owned, TaskUnRegister PROVE Owned'
<1>1. PICK n \in granted : pool' = [pool EXCEPT ![n] = Cleared] /\ granted' = granted \ {n}
  BY DEF TaskUnRegister
<1>2. /\ calls' = calls - 1 /\ calls > 0
      /\ UNCHANGED <<taskNum, queue, table, sleeps, pc, polled, current, evt, tickDue>>
  BY DEF TaskUnRegister
<1>3. Cleared \in TaskNode /\ Cleared.fn = NoFunc
  BY ClearedIsFree
<1>4. /\ pool \in [Node -> TaskNode] /\ granted \subseteq Node
      /\ \A m \in Node : pool[m].fn # NoFunc <=> m \in granted
      /\ \A m \in Node : pool[m].fn = NoFunc => Task(pool[m]) = Task(Cleared)
  BY DEF Owned, TypeOK, NodesNotLeaked, CleanNodes
<1>5. /\ pool' \in [Node -> TaskNode] /\ granted' \subseteq Node
      /\ \A m \in Node : pool'[m].fn # NoFunc <=> m \in granted'
      /\ \A m \in Node : pool'[m].fn = NoFunc => Task(pool'[m]) = Task(Cleared)
  BY <1>1, <1>3, <1>4
<1>6. calls' \in 0 .. MaxCalls
  BY <1>2, CallSpent
<1> QED
  BY <1>2, <1>5, <1>6 DEF Owned, TypeOK, NodesNotLeaked, CleanNodes

LEMMA PullOwned == ASSUME Owned, Pull PROVE Owned'
<1> DEFINE e == Q!Oldest(queue)
<1>1. /\ pc' \in {"call", "sleep"} /\ queue' = Q!AfterPop(queue) /\ current' = e[1]
      /\ pool' = [pool EXCEPT ![e[1]].trigger = e[2]]
      /\ UNCHANGED <<taskNum, table, sleeps, polled, evt, tickDue, calls, granted>>
  BY DEF Pull, Triggered
<1>2. queue' \in Q!Ring /\ e \in Node \X Event
  BY <1>1, QueueLeft DEF Owned, TypeOK
<1>3. e[1] \in Node /\ e[2] \in Event
  BY <1>2
<1> HIDE DEF e
<1>4. /\ pool \in [Node -> TaskNode]
      /\ pool' \in [Node -> TaskNode]
      /\ \A n \in Node : pool'[n].fn = pool[n].fn /\ Task(pool'[n]) = Task(pool[n])
  <2>1. pool \in [Node -> TaskNode]
    BY DEF Owned, TypeOK
  <2>2. \A n \in Node : /\ pool[n] \in TaskNode
                        /\ [pool[n] EXCEPT !.trigger = e[2]] \in TaskNode
                        /\ [pool[n] EXCEPT !.trigger = e[2]].fn = pool[n].fn
                        /\ Task([pool[n] EXCEPT !.trigger = e[2]]) = Task(pool[n])
    BY <1>3, <2>1 DEF TaskNode, Task
  <2>3. pool' = [n \in Node |-> IF n = e[1] THEN [pool[n] EXCEPT !.trigger = e[2]] ELSE pool[n]]
    BY <1>1, <1>3, <2>1
  <2> QED
    BY <2>1, <2>2, <2>3
<1> QED
  BY <1>1, <1>2, <1>3, <1>4 DEF Owned, TypeOK, NodesNotLeaked, CleanNodes

\* The steps that leave the pool, and who has it, alone
LEMMA PostOwned == ASSUME Owned, SetEvent \/ Start \/ Sleep PROVE Owned'
<1>1. queue' \in Q!Ring
  <2>1. CASE SetEvent
    <3>1. PICK n \in granted, e \in Posted : queue' = Post(queue, n, e)
      BY <2>1 DEF SetEvent
    <3> QED
      BY <3>1, PostType, SchedulerAssumption DEF Owned, TypeOK
  <2>2. CASE Start
    BY <2>2, QueueLeft DEF Start, Owned, TypeOK
  <2>3. CASE Sleep
    BY <2>3, BroadcastType DEF Sleep, Owned, TypeOK
  <2> QED
    BY <2>1, <2>2, <2>3
<1>2. /\ calls' \in 0 .. MaxCalls /\ tickDue' \in BOOLEAN
      /\ pc' \in {"setup", "pull", "call", "handle"}
      /\ pc' \in {"call", "handle"} => current \in Node
  <2>1. CASE SetEvent
    BY <2>1, CallSpent DEF SetEvent, Calling, Owned, TypeOK
  <2>2. CASE Start
    BY <2>2 DEF Start, Owned, TypeOK
  <2>3. CASE Sleep
    BY <2>3 DEF Sleep, Owned, TypeOK
  <2> QED
    BY <2>1, <2>2, <2>3
<1>3. UNCHANGED <<pool, taskNum, table, sleeps, polled, current, evt, granted>>
  BY DEF SetEvent, Start, Sleep
<1> QED
  BY <1>1, <1>2, <1>3 DEF Owned, TypeOK, NodesNotLeaked, CleanNodes

LEMMA OtherOwned ==
    ASSUME Owned,
           TickRegister \/ RegSleepMethod \/ PullNothing \/ Call \/ Return \/ TickInterrupt
    PROVE  Owned'
<1>1. UNCHANGED <<pool, taskNum, queue, polled, calls, granted>>
  BY DEF TickRegister, RegSleepMethod, PullNothing, Call, Return, TickInterrupt
<1>2. table' \in Seq(Node) /\ Len(table') <= TableMax
  <2>1. CASE TickRegister
    <3>1. PICK n \in granted : table' = Append(table, n)
      BY <2>1 DEF TickRegister
    <3>2. n \in Node /\ table \in Seq(Node) /\ Len(table) < TableMax /\ TableMax \in Nat
      BY <2>1, <3>1, SchedulerAssumption DEF TickRegister, Owned, TypeOK
    <3> QED
      BY <3>1, <3>2, AppendProperties
  <2>2. CASE ~TickRegister
    BY <2>2 DEF Owned, TypeOK, RegSleepMethod, PullNothing, Call, Return, TickInterrupt
  <2> QED
    BY <2>1, <2>2
<1>3. /\ sleeps' \in BOOLEAN /\ tickDue' \in BOOLEAN
      /\ pc' \in {"setup", "pull", "sleep", "call", "handle", "sleepAgain", "lost"}
      /\ current' \in Node \cup {NoNode}
      /\ pc' \in {"call", "handle"} => current' \in Node
  BY DEF Owned, TypeOK, TickRegister, RegSleepMethod, PullNothing, Call, Return, TickInterrupt
<1>4. evt' \in Event
  <2>1. CASE Call
    <3>1. pool[current] \in TaskNode /\ evt' = pool[current].trigger
      BY <2>1 DEF Call, Owned, TypeOK
    <3> QED
      BY <3>1 DEF TaskNode
  <2>2. CASE ~Call
    BY <2>2, Constants
    DEF Owned, TypeOK, TickRegister, RegSleepMethod, PullNothing, Return, TickInterrupt
  <2> QED
    BY <2>1, <2>2
<1> QED
  BY <1>1, <1>2, <1>3, <1>4 DEF Owned, TypeOK, NodesNotLeaked, CleanNodes

LEMMA StepOwned == ASSUME Owned, [Next]_vars PROVE Owned'
<1>1. CASE UNCHANGED vars
  BY <1>1 DEF vars, Owned, TypeOK, NodesNotLeaked, CleanNodes
<1>2. CASE TaskRegister
  BY <1>2, RegisterOwned
<1>3. CASE TaskUnRegister
  BY <1>3, UnRegisterOwned
<1>4. CASE Pull
  BY <1>4, PullOwned
<1>5. CASE SetEvent \/ Start \/ Sleep
  BY <1>5, PostOwned
<1>6. CASE TickRegister \/ RegSleepMethod \/ PullNothing \/ Call \/ Return \/ TickInterrupt
  BY <1>6, OtherOwned
<1> QED
  BY <1>1, <1>2, <1>3, <1>4, <1>5, <1>6 DEF Next, Clients, Loop

LEMMA OwnedAlways == Spec => []Owned
<1>1. Init => Owned
  BY InitOwned
<1>2. Owned /\ [Next]_vars => Owned'
  BY StepOwned
<1> QED
  BY <1>1, <1>2, PTL DEF Spec

-----------------------------------------------------------------------------
\* What the loop relies on between polite clients.
Queued == Q!Contents(queue)

\* A broadcast comes only when no tick waits, and whoever posts leaves room for
\* one: what stands behind the last tick, and a broadcast, never fill the queue.
Roomed ==
    /\ Q!Occupancy(queue) < QueueMax
    /\ tickDue => Len(Queued) + Len(table) < QueueMax
    /\ \A k \in 0 .. Len(Queued) :
          (\A j \in k + 1 .. Len(Queued) : Queued[j][2] # EVT_TICK)
             => Len(Queued) - k + Len(table) < QueueMax

\* No node that the queue or the loop points at has been cleared.
Live ==
    /\ \A k \in 1 .. Len(Queued) : pool[Queued[k][1]].fn # NoFunc
    /\ pc \in {"sleep", "call"} /\ current # NoNode => pool[current].fn # NoFunc

IInv ==
    /\ Owned /\ Roomed /\ Live
    /\ pc = "setup" => Queued = << >>
    /\ pc # "lost"

LEMMA QueuedSeq ==
    ASSUME IInv
    PROVE  /\ queue \in Q!Ring /\ Q!Occupancy(queue) < QueueMax
           /\ Queued \in Seq(Node \X Event) /\ Len(Queued) = Q!Occupancy(queue)
           /\ Len(Queued) \in Nat /\ Len(table) \in Nat /\ QueueMax \in Nat
           /\ table \in Seq(Node)
  BY QueueContents, Constants DEF IInv, Owned, TypeOK, Roomed, Queued

\* An event goes in behind the others if it is accepted, and the ring takes it.
LEMMA PostAppends ==
    ASSUME NEW q \in Q!Ring, Q!Occupancy(q) < QueueMax, NEW n \in Node, NEW e \in Event
    PROVE  \/ Post(q, n, e) = q
           \/ /\ Accepted(n, e)
              /\ Q!Contents(Post(q, n, e)) = Append(Q!Contents(q), <<n, e>>)
              /\ Q!Occupancy(Post(q, n, e)) = Q!Occupancy(q) + 1
  BY QueuePush DEF Post

\* A broadcast puts ticks behind what waits, for tasks of the table that accept
\* them.
LEMMA BroadcastAppends ==
    ASSUME TypeOK, NEW q \in Q!Ring, Q!Occupancy(q) + Len(table) < QueueMax
    PROVE  /\ Q!Occupancy(Broadcast(q)) <= Q!Occupancy(q) + Len(table)
           /\ \E added \in Seq({<<n, EVT_TICK>> : n \in {m \in Node : Accepted(m, EVT_TICK)}}) :
                 Q!Contents(Broadcast(q)) = Q!Contents(q) \o added
<1> DEFINE N == Len(table)
           Ticks == {<<n, EVT_TICK>> : n \in {m \in Node : Accepted(m, EVT_TICK)}}
           Good == {kr \in (0 .. N) \X Q!Ring :
                       /\ Q!Occupancy(kr[2]) <= Q!Occupancy(q) + kr[1]
                       /\ \E added \in Seq(Ticks) :
                             Q!Contents(kr[2]) = Q!Contents(q) \o added}
<1>1. N \in Nat /\ table \in Seq(Node) /\ QueueMax \in Nat /\ Q!Occupancy(q) \in Nat
  BY QueueOccupancy, Constants DEF TypeOK
<1>2. Q!Contents(q) \in Seq(Node \X Event)
  BY <1>1, QueueContents
<1>3. Ticks \subseteq Node \X Event
  BY Constants
<1> HIDE DEF Ticks
<1>4. <<0, q>> \in Good
  <2>1. << >> \in Seq(Ticks) /\ Q!Contents(q) = Q!Contents(q) \o << >>
    BY <1>2, ConcatEmptySeq
  <2>2. \E added \in Seq(Ticks) : Q!Contents(q) = Q!Contents(q) \o added
    BY <2>1
  <2>3. 0 \in 0 .. N /\ Q!Occupancy(q) <= Q!Occupancy(q) + 0
    BY <1>1
  <2> HIDE DEF N
  <2> QED
    BY <2>2, <2>3
<1>5. ASSUME NEW k \in 1 .. N, NEW r \in Q!Ring, <<k - 1, r>> \in Good
      PROVE  <<k, Post(r, table[k], EVT_TICK)>> \in Good
  <2> DEFINE s == Post(r, table[k], EVT_TICK)
  <2>1. /\ Q!Occupancy(r) <= Q!Occupancy(q) + (k - 1)
        /\ \E added \in Seq(Ticks) : Q!Contents(r) = Q!Contents(q) \o added
    BY <1>5
  <2>2. table[k] \in Node /\ EVT_TICK \in Event
    BY <1>1, Constants
  <2>3. Q!Occupancy(r) \in Nat /\ Q!Occupancy(r) < QueueMax
    BY <1>1, <2>1, QueueOccupancy
  <2>4. s \in Q!Ring
    BY <2>2, PostType
  <2>5. \/ s = r
        \/ /\ Accepted(table[k], EVT_TICK)
           /\ Q!Contents(s) = Append(Q!Contents(r), <<table[k], EVT_TICK>>)
           /\ Q!Occupancy(s) = Q!Occupancy(r) + 1
    BY <2>2, <2>3, PostAppends
  <2> HIDE DEF s
  <2>6. Q!Occupancy(s) <= Q!Occupancy(q) + k
    BY <1>1, <2>1, <2>3, <2>5
  <2>7. \E added \in Seq(Ticks) : Q!Contents(s) = Q!Contents(q) \o added
    <3>1. PICK added \in Seq(Ticks) : Q!Contents(r) = Q!Contents(q) \o added
      BY <2>1
    <3>2. CASE s = r
      BY <3>1, <3>2
    <3>3. CASE s # r
      <4> DEFINE tick == <<table[k], EVT_TICK>>
      <4>1. tick \in Ticks /\ tick \in Node \X Event
        BY <1>3, <2>2, <2>5, <3>3 DEF Ticks
      <4>2. /\ Q!Contents(r) \in Seq(Node \X Event)
            /\ Q!Contents(s) = Append(Q!Contents(r), tick)
        BY <2>3, <2>5, <3>3, QueueContents
      <4> HIDE DEF tick
      <4>3. /\ Q!Contents(s) = (Q!Contents(q) \o added) \o <<tick>>
            /\ <<tick>> \in Seq(Node \X Event) /\ added \in Seq(Node \X Event)
            /\ added \o <<tick>> \in Seq(Ticks)
        <5>1. <<tick>> \in Seq(Ticks) /\ <<tick>> \in Seq(Node \X Event)
          BY <4>1
        <5>2. added \in Seq(Node \X Event)
          BY <1>3
        <5>3. added \o <<tick>> \in Seq(Ticks)
          BY <5>1, ConcatProperties
        <5> QED
          BY <3>1, <4>1, <4>2, <5>1, <5>2, <5>3, AppendIsConcat
      <4>4. Q!Contents(s) = Q!Contents(q) \o (added \o <<tick>>)
        BY <1>2, <4>3, ConcatAssociative
      <4> QED
        BY <4>3, <4>4
    <3> QED
      BY <3>2, <3>3
  <2>8. s \in Q!Ring /\ k \in 0 .. N
    BY <1>1, <2>4
  <2> HIDE DEF N
  <2> QED
    BY <2>6, <2>7, <2>8 DEF s
<1>6. <<N, Broadcast(q)>> \in Good
  <2> HIDE DEF Good
  <2> QED
    BY <1>4, <1>5, BroadcastLoop
<1> QED
  BY <1>1, <1>6 DEF Ticks

-----------------------------------------------------------------------------
LEMMA InitIInv == ASSUME Init PROVE IInv
<1>1. Owned
  BY InitOwned
<1>2. Q!Occupancy(queue) = 0 /\ Queued = << >>
  <2>1. <<0, INIT_EVT>> \in Node \X Event
    BY Constants
  <2>2. LET rb == [wr |-> 0, rd |-> 0, buf |-> [s \in R!Slot |-> <<0, INIT_EVT>>]]
        IN  R!Occupancy(rb) = 0 /\ R!Contents(rb) = << >>
    BY <2>1, DepthFits, R!FreshRing
  <2> QED
    BY <2>2, SameRing DEF Init, Queued
<1>3. Roomed
  <2>1. Len(Queued) = 0 /\ Len(table) = 0 /\ ~tickDue
    BY <1>2 DEF Init
  <2> QED
    BY <1>2, <2>1, Constants DEF Roomed
<1>4. Live /\ pc = "setup"
  BY <1>2 DEF Init, Live
<1> QED
  BY <1>1, <1>2, <1>3, <1>4 DEF IInv

\* Which nodes are taken only a registration and a retirement change.
LEMMA RegisterKeeps == ASSUME IInv, TaskRegister PROVE IInv'
<1>1. Owned'
  BY RegisterOwned DEF IInv
<1>2. /\ UNCHANGED <<queue, table, pc, current, tickDue>> /\ pc \in {"setup", "handle"}
      /\ FreeNode \in Node /\ pool[FreeNode].fn = NoFunc
  BY FreeNodeFree DEF TaskRegister, Calling
<1>3. \A n \in Node : pool[n].fn # NoFunc => pool'[n] = pool[n]
  BY <1>2 DEF TaskRegister, IInv, Owned, TypeOK
<1>4. \A k \in 1 .. Len(Queued) : Queued[k][1] \in Node
  BY QueuedSeq
<1>5. Queued' = Queued
  BY <1>2 DEF Queued
<1>6. Roomed' /\ Live'
  BY <1>2, <1>3, <1>4, <1>5 DEF IInv, Roomed, Live
<1> QED
  BY <1>1, <1>2, <1>5, <1>6 DEF IInv

LEMMA UnRegisterKeeps == ASSUME Polite, IInv, TaskUnRegister PROVE IInv'
<1>1. Owned'
  BY UnRegisterOwned DEF IInv
<1>2. UNCHANGED <<queue, table, pc, current, tickDue>> /\ pc \in {"setup", "handle"}
  BY DEF TaskUnRegister, Calling
<1>3. PICK n \in granted : ~Waiting(n) /\ pool' = [pool EXCEPT ![n] = Cleared]
  BY DEF TaskUnRegister
<1>4. \A m \in Node : m # n => pool'[m] = pool[m]
  BY <1>3 DEF IInv, Owned, TypeOK
<1>5. \A k \in 1 .. Len(Queued) : Queued[k][1] \in Node /\ Queued[k][1] # n
  BY <1>3, QueuedSeq DEF Waiting, Queued
<1>6. Queued' = Queued
  BY <1>2 DEF Queued
<1>7. Roomed' /\ Live'
  BY <1>2, <1>4, <1>5, <1>6 DEF IInv, Roomed, Live
<1> QED
  BY <1>1, <1>2, <1>6, <1>7 DEF IInv

LEMMA SetEventKeeps == ASSUME Polite, IInv, SetEvent PROVE IInv'
<1>1. Owned'
  BY PostOwned DEF IInv
<1>2. /\ UNCHANGED <<pool, table, pc, current, tickDue>> /\ pc = "handle"
      /\ Q!Occupancy(queue) + Len(table) + 1 < QueueMax
  BY DEF SetEvent, Calling, Roomy
<1>3. PICK n \in granted, e \in Posted : queue' = Post(queue, n, e)
  BY DEF SetEvent
<1>4. n \in Node /\ e \in Event
  BY SchedulerAssumption DEF IInv, Owned, TypeOK
<1>5. CASE queue' = queue
  <2>1. Queued' = Queued
    BY <1>5 DEF Queued
  <2> QED
    BY <1>1, <1>2, <1>5, <2>1 DEF IInv, Roomed, Live
<1>6. CASE queue' # queue
  <2>1. /\ Accepted(n, e)
        /\ Queued' = Append(Queued, <<n, e>>)
        /\ Q!Occupancy(queue') = Q!Occupancy(queue) + 1
    BY <1>3, <1>4, <1>6, QueuedSeq, PostAppends DEF Queued
  <2>2. /\ Len(Queued') = Len(Queued) + 1 /\ Len(Queued) = Q!Occupancy(queue)
        /\ \A k \in 1 .. Len(Queued) : Queued'[k] = Queued[k]
        /\ Queued'[Len(Queued) + 1] = <<n, e>>
        /\ Len(Queued) \in Nat /\ Len(table) \in Nat /\ QueueMax \in Nat
    BY <1>4, <2>1, QueuedSeq, AppendProperties
  <2>3. Roomed'
    <3>1. Len(Queued') + Len(table) < QueueMax /\ Q!Occupancy(queue') < QueueMax
      BY <1>2, <2>1, <2>2
    <3>2. ASSUME NEW k \in 0 .. Len(Queued') PROVE Len(Queued') - k + Len(table) < QueueMax
      BY <2>2, <3>1
    <3> QED
      BY <1>2, <3>1, <3>2 DEF Roomed
  <2>4. Live'
    <3>1. ASSUME NEW k \in 1 .. Len(Queued') PROVE pool[Queued'[k][1]].fn # NoFunc
      <4>1. CASE k \in 1 .. Len(Queued)
        BY <2>2, <4>1 DEF IInv, Live
      <4>2. CASE k = Len(Queued) + 1
        BY <2>1, <2>2, <4>2 DEF Accepted
      <4> QED
        BY <2>2, <4>1, <4>2
    <3> QED
      BY <1>2, <3>1 DEF Live
  <2> QED
    BY <1>1, <1>2, <2>3, <2>4 DEF IInv
<1> QED
  BY <1>5, <1>6

LEMMA TickRegisterKeeps == ASSUME Polite, IInv, TickRegister PROVE IInv'
<1>1. Owned'
  BY OtherOwned DEF IInv
<1>2. /\ UNCHANGED <<pool, queue, pc, current, tickDue>>
      /\ Q!Occupancy(queue) + Len(table) + 1 < QueueMax
  BY DEF TickRegister, Roomy
<1>3. PICK n \in granted : table' = Append(table, n)
  BY DEF TickRegister
<1>4. /\ Len(table') = Len(table) + 1 /\ Len(Queued) = Q!Occupancy(queue)
      /\ Len(Queued) \in Nat /\ Len(table) \in Nat /\ QueueMax \in Nat
  BY <1>3, QueuedSeq, AppendProperties DEF IInv, Owned, TypeOK
<1>5. Queued' = Queued
  BY <1>2 DEF Queued
<1>6. Roomed'
  <2>1. Len(Queued) + Len(table') < QueueMax /\ Q!Occupancy(queue) < QueueMax
    BY <1>2, <1>4
  <2>2. ASSUME NEW k \in 0 .. Len(Queued) PROVE Len(Queued) - k + Len(table') < QueueMax
    BY <1>4, <2>1
  <2> QED
    BY <1>2, <1>5, <2>1, <2>2 DEF Roomed
<1>7. Live'
  BY <1>2, <1>5 DEF IInv, Live
<1> QED
  BY <1>1, <1>2, <1>5, <1>6, <1>7 DEF IInv

LEMMA StartKeeps == ASSUME IInv, Start PROVE IInv'
<1>1. Owned'
  BY PostOwned DEF IInv
<1>2. UNCHANGED <<pool, table, current, tickDue>> /\ pc = "setup" /\ pc' \in {"setup", "pull"}
  BY DEF Start
<1>3. Queued = << >> /\ Q!Occupancy(queue) = 0
  BY <1>2, QueuedSeq, QueueOccupancy DEF IInv, Queued
<1>4. Queued' = << >> /\ Q!Occupancy(queue') = 0
  <2>1. CASE queue' = queue
    BY <1>3, <2>1 DEF Queued
  <2>2. CASE queue' = Q!Cleared(queue)
    BY <2>2, QueuedSeq, QueueOccupancy, QueueLeft DEF Queued
  <2> QED
    BY <2>1, <2>2 DEF Start
<1>5. Roomed'
  BY <1>2, <1>3, <1>4 DEF IInv, Roomed
<1>6. Live'
  BY <1>2, <1>4 DEF Live
<1> QED
  BY <1>1, <1>2, <1>4, <1>5, <1>6 DEF IInv

\* Pulling an event: what is left of the queue has no more to fear, and the
\* node the event is for has not been cleared.
LEMMA Pulled ==
    ASSUME IInv, Pull
    PROVE  /\ Queued # << >> /\ Queued' = Tail(Queued)
           /\ Q!Occupancy(queue') = Q!Occupancy(queue) - 1
           /\ current' = Head(Queued)[1] /\ current' \in Node
           /\ pool'[current'].trigger = Head(Queued)[2]
           /\ Head(Queued) \in Node \X Event
           /\ \A n \in Node : pool'[n].fn = pool[n].fn /\ Task(pool'[n]) = Task(pool[n])
<1>1. /\ Queued # << >> /\ Queued' = Tail(Queued)
      /\ Q!Occupancy(queue') = Q!Occupancy(queue) - 1
      /\ Q!Oldest(queue) = Head(Queued)
      /\ current' = Q!Oldest(queue)[1]
  BY QueuedSeq, QueuePop DEF Pull, Queued
<1> DEFINE e == Q!Oldest(queue)
<1>2. e \in Node \X Event /\ pool \in [Node -> TaskNode]
  BY QueuedSeq, QueueLeft DEF IInv, Owned, TypeOK
<1>3. pool' = [pool EXCEPT ![e[1]].trigger = e[2]]
  BY DEF Pull, Triggered
<1> HIDE DEF e
<1>4. \A n \in Node : /\ pool[n] \in TaskNode
                      /\ [pool[n] EXCEPT !.trigger = e[2]].trigger = e[2]
                      /\ [pool[n] EXCEPT !.trigger = e[2]].fn = pool[n].fn
                      /\ Task([pool[n] EXCEPT !.trigger = e[2]]) = Task(pool[n])
  BY <1>2 DEF TaskNode, Task
<1>5. pool' = [n \in Node |-> IF n = e[1] THEN [pool[n] EXCEPT !.trigger = e[2]] ELSE pool[n]]
  BY <1>2, <1>3
<1>6. /\ pool'[e[1]].trigger = e[2]
      /\ \A n \in Node : pool'[n].fn = pool[n].fn /\ Task(pool'[n]) = Task(pool[n])
  BY <1>2, <1>4, <1>5
<1> QED
  BY <1>1, <1>2, <1>6 DEF e

LEMMA PullKeeps == ASSUME IInv, Pull PROVE IInv'
<1>1. Owned'
  BY PullOwned DEF IInv
<1>2. UNCHANGED <<table, tickDue>> /\ pc' \in {"call", "sleep"}
  BY DEF Pull
<1>3. /\ Queued \in Seq(Node \X Event) /\ Len(Queued) = Q!Occupancy(queue)
      /\ Len(Queued') = Len(Queued) - 1 /\ Len(Queued) \in Nat /\ Len(Queued) > 0
      /\ Queued[1] = Head(Queued)
      /\ \A k \in 1 .. Len(Queued') : Queued'[k] = Queued[k + 1]
      /\ Len(table) \in Nat /\ QueueMax \in Nat
  <2>1. Queued \in Seq(Node \X Event) /\ Queued # << >> /\ Queued' = Tail(Queued)
    BY QueuedSeq, Pulled
  <2> QED
    BY <2>1, QueuedSeq, HeadTailProperties, EmptySeq, LenProperties
<1>4. Roomed'
  <2>1. Q!Occupancy(queue') < QueueMax
    BY <1>3, Pulled, QueuedSeq
  <2>2. tickDue' => Len(Queued') + Len(table') < QueueMax
    BY <1>2, <1>3 DEF IInv, Roomed
  <2>3. ASSUME NEW k \in 0 .. Len(Queued'),
               \A j \in k + 1 .. Len(Queued') : Queued'[j][2] # EVT_TICK
        PROVE  Len(Queued') - k + Len(table) < QueueMax
    <3>1. k + 1 \in 0 .. Len(Queued)
      BY <1>3
    <3>2. ASSUME NEW j \in (k + 1) + 1 .. Len(Queued) PROVE Queued[j][2] # EVT_TICK
      <4>1. j - 1 \in k + 1 .. Len(Queued') /\ j - 1 \in 1 .. Len(Queued') /\ (j - 1) + 1 = j
        BY <1>3
      <4>2. Queued'[j - 1] = Queued[j] /\ Queued'[j - 1][2] # EVT_TICK
        BY <1>3, <2>3, <4>1
      <4> QED
        BY <4>2
    <3>3. Len(Queued) - (k + 1) + Len(table) < QueueMax
      BY <3>1, <3>2 DEF IInv, Roomed
    <3> QED
      BY <1>3, <3>3
  <2> QED
    BY <1>2, <2>1, <2>2, <2>3 DEF Roomed
<1>5. Live'
  <2>1. ASSUME NEW k \in 1 .. Len(Queued')
        PROVE  Queued'[k][1] \in Node /\ pool[Queued'[k][1]].fn # NoFunc
    <3>1. k + 1 \in 1 .. Len(Queued) /\ Queued'[k] = Queued[k + 1]
      BY <1>3
    <3> QED
      BY <1>3, <3>1 DEF IInv, Live
  <2>2. 1 \in 1 .. Len(Queued) /\ pool[Head(Queued)[1]].fn # NoFunc
    BY <1>3 DEF IInv, Live
  <2> QED
    BY <2>1, <2>2, Pulled DEF Live
<1> QED
  BY <1>1, <1>2, <1>4, <1>5 DEF IInv

\* What a broadcast adds are ticks, for live nodes.
LEMMA Slept ==
    ASSUME IInv, Sleep
    PROVE  \E added \in Seq(Node \X Event) :
              /\ Queued' = Queued \o added
              /\ \A k \in 1 .. Len(added) :
                    added[k][2] = EVT_TICK /\ added[k][1] \in Node /\ Accepted(added[k][1], EVT_TICK)
<1>1. CASE tickDue
  <2> DEFINE Ticks == {<<n, EVT_TICK>> : n \in {m \in Node : Accepted(m, EVT_TICK)}}
  <2>1. TypeOK /\ queue \in Q!Ring /\ Q!Occupancy(queue) + Len(table) < QueueMax
    BY <1>1, QueuedSeq DEF IInv, Owned, Roomed
  <2>2. PICK added \in Seq(Ticks) : Q!Contents(Broadcast(queue)) = Q!Contents(queue) \o added
    BY <2>1, BroadcastAppends
  <2>3. Queued' = Queued \o added
    BY <1>1, <2>2 DEF Sleep, Queued
  <2>4. added \in Seq(Node \X Event)
    BY Constants
  <2>5. ASSUME NEW k \in 1 .. Len(added)
        PROVE  /\ added[k][2] = EVT_TICK /\ added[k][1] \in Node
               /\ Accepted(added[k][1], EVT_TICK)
    <3>1. added[k] \in Ticks
      <4> HIDE DEF Ticks
      <4> QED
        OBVIOUS
    <3> QED
      BY <3>1
  <2> QED
    BY <2>3, <2>4, <2>5
<1>2. CASE ~tickDue
  <2>1. Queued' = Queued /\ Queued = Queued \o << >> /\ << >> \in Seq(Node \X Event)
    BY <1>2, QueuedSeq, ConcatEmptySeq DEF Sleep, Queued
  <2>2. 1 .. Len(<< >>) = {}
    OBVIOUS
  <2> QED
    BY <2>1, <2>2
<1> QED
  BY <1>1, <1>2

LEMMA SleepKeeps == ASSUME IInv, Sleep PROVE IInv'
<1>1. Owned'
  BY PostOwned DEF IInv
<1>2. /\ UNCHANGED <<pool, table, current>> /\ tickDue' = FALSE /\ pc' \in {"call", "pull"}
      /\ pc' = "call" => pc = "sleep" /\ current # NoNode
  BY DEF Sleep
<1>3. PICK added \in Seq(Node \X Event) :
         /\ Queued' = Queued \o added
         /\ \A k \in 1 .. Len(added) :
               added[k][2] = EVT_TICK /\ added[k][1] \in Node /\ Accepted(added[k][1], EVT_TICK)
  BY Slept
<1>4. /\ Queued \in Seq(Node \X Event) /\ Len(Queued) \in Nat /\ Len(added) \in Nat
      /\ Len(Queued') = Len(Queued) + Len(added)
      /\ \A k \in 1 .. Len(Queued) : Queued'[k] = Queued[k]
      /\ \A k \in 1 .. Len(added) : Queued'[Len(Queued) + k] = added[k]
      /\ Len(table) \in Nat /\ QueueMax \in Nat
  <2>1. Queued \in Seq(Node \X Event)
    BY QueuedSeq
  <2>2. \A k \in 1 .. Len(added) : Len(Queued) + k \in Len(Queued) + 1 .. Len(Queued) + Len(added)
    BY <2>1, LenProperties
  <2>3. \A k \in 1 .. Len(added) : (Len(Queued) + k) - Len(Queued) = k
    BY <2>1, LenProperties
  <2> QED
    BY <1>3, <2>1, <2>2, <2>3, ConcatProperties, LenProperties, QueuedSeq
<1>5. Roomed'
  <2>1. Q!Occupancy(queue') < QueueMax
    <3>1. CASE tickDue
      BY <3>1, <1>4, QueuedSeq, BroadcastAppends, BroadcastType, QueueOccupancy
      DEF Sleep, IInv, Owned, Roomed
    <3>2. CASE ~tickDue
      BY <3>2, QueuedSeq DEF Sleep
    <3> QED
      BY <3>1, <3>2
  <2>2. ASSUME NEW k \in 0 .. Len(Queued'),
               \A j \in k + 1 .. Len(Queued') : Queued'[j][2] # EVT_TICK
        PROVE  Len(Queued') - k + Len(table) < QueueMax
    <3>1. CASE Len(added) = 0
      <4>1. k \in 0 .. Len(Queued) /\ Len(Queued') = Len(Queued)
        BY <1>4, <3>1
      <4>2. \A j \in k + 1 .. Len(Queued) : Queued[j][2] # EVT_TICK
        BY <1>4, <2>2, <4>1
      <4> QED
        BY <4>1, <4>2 DEF IInv, Roomed
    <3>2. CASE Len(added) # 0
      <4>1. Len(added) \in 1 .. Len(added)
        BY <1>4, <3>2
      <4>2. Queued'[Len(Queued')][2] = EVT_TICK
        BY <1>3, <1>4, <4>1
      <4>3. k = Len(Queued')
        BY <1>4, <2>2, <4>2
      <4>4. Len(Queued) \in 0 .. Len(Queued) /\ Len(Queued) + 1 .. Len(Queued) = {}
        BY <1>4
      <4>5. Len(Queued) - Len(Queued) + Len(table) < QueueMax
        BY <4>4 DEF IInv, Roomed
      <4> QED
        BY <1>4, <4>3, <4>5
    <3> QED
      BY <3>1, <3>2
  <2> QED
    BY <1>2, <2>1, <2>2 DEF Roomed
<1>6. Live'
  <2>1. ASSUME NEW k \in 1 .. Len(Queued') PROVE pool[Queued'[k][1]].fn # NoFunc
    <3>1. CASE k \in 1 .. Len(Queued)
      BY <1>4, <3>1 DEF IInv, Live
    <3>2. CASE k \notin 1 .. Len(Queued)
      <4>1. k - Len(Queued) \in 1 .. Len(added) /\ Len(Queued) + (k - Len(Queued)) = k
        BY <1>4, <3>2
      <4>2. Queued'[k] = added[k - Len(Queued)]
        BY <1>4, <4>1
      <4> QED
        BY <1>3, <4>1, <4>2 DEF Accepted
    <3> QED
      BY <3>1, <3>2
  <2> QED
    BY <1>2, <2>1 DEF IInv, Live
<1> QED
  BY <1>1, <1>2, <1>5, <1>6 DEF IInv

\* The steps after which the same events wait for the same nodes
LEMMA OtherKeeps ==
    ASSUME Polite, IInv, RegSleepMethod \/ PullNothing \/ Call \/ Return \/ TickInterrupt
    PROVE  IInv'
<1>1. Owned'
  BY OtherOwned DEF IInv
<1>2. UNCHANGED <<pool, queue, table>> /\ Queued' = Queued
  BY DEF RegSleepMethod, PullNothing, Call, Return, TickInterrupt, Queued
<1>3. tickDue' => Len(Queued) + Len(table) < QueueMax
  <2>1. CASE TickInterrupt
    <3>1. \A k \in 1 .. Len(Queued) : Queued[k][2] # EVT_TICK
      BY <2>1 DEF TickInterrupt, Queued
    <3>2. 0 \in 0 .. Len(Queued) /\ 0 + 1 = 1 /\ Len(Queued) - 0 = Len(Queued)
      BY QueuedSeq
    <3> QED
      BY <3>1, <3>2 DEF IInv, Roomed
  <2>2. CASE ~TickInterrupt
    BY <2>2 DEF RegSleepMethod, PullNothing, Call, Return, IInv, Roomed
  <2> QED
    BY <2>1, <2>2
<1>4. /\ pc' = "setup" => Queued = << >>
      /\ pc' # "lost"
      /\ pc' \in {"sleep", "call"} /\ current' # NoNode => pool[current'].fn # NoFunc
  <2>1. CASE Call
    <3>1. current # NoNode
      BY <2>1, Constants DEF Call, IInv, Owned
    <3> QED
      BY <2>1, <3>1 DEF Call, IInv, Live
  <2>2. CASE ~Call
    BY <2>2 DEF RegSleepMethod, PullNothing, Return, TickInterrupt, IInv, Live
  <2> QED
    BY <2>1, <2>2
<1> QED
  BY <1>1, <1>2, <1>3, <1>4 DEF IInv, Roomed, Live

LEMMA StepKeeps == ASSUME Polite, IInv, [Next]_vars PROVE IInv'
<1>1. CASE UNCHANGED vars
  <2>1. Owned'
    BY <1>1, StepOwned DEF IInv
  <2> QED
    BY <1>1, <2>1 DEF vars, IInv, Roomed, Live, Queued
<1>2. CASE TaskRegister
  BY <1>2, RegisterKeeps
<1>3. CASE TaskUnRegister
  BY <1>3, UnRegisterKeeps
<1>4. CASE SetEvent
  BY <1>4, SetEventKeeps
<1>5. CASE TickRegister
  BY <1>5, TickRegisterKeeps
<1>6. CASE Start
  BY <1>6, StartKeeps
<1>7. CASE Pull
  BY <1>7, PullKeeps
<1>8. CASE Sleep
  BY <1>8, SleepKeeps
<1>9. CASE RegSleepMethod \/ PullNothing \/ Call \/ Return \/ TickInterrupt
  BY <1>9, OtherKeeps
<1> QED
  BY <1>1, <1>2, <1>3, <1>4, <1>5, <1>6, <1>7, <1>8, <1>9 DEF Next, Clients, Loop

LEMMA OrderlyAlways == ASSUME Polite PROVE Spec => []IInv
<1>1. Init => IInv
  BY InitIInv
<1>2. IInv /\ [Next]_vars => IInv'
  BY StepKeeps
<1> QED
  BY <1>1, <1>2, PTL DEF Spec

-----------------------------------------------------------------------------
\* What Dispatch sees of the scheduler
TaskOf    == [n \in Node |-> Task(pool[n])]
PendingOf == Taken \o Queued
RunningOf == IF pc = "handle" THEN <<current, evt>> ELSE <<NoNode, INIT_EVT>>

\* Steps that Dispatch does not see
Unseen == UNCHANGED <<TaskOf, PendingOf, RunningOf>>

LEMMA TakenAtRest ==
    ASSUME pc \notin {"sleep", "call"}, IInv
    PROVE  Taken = << >> /\ PendingOf = Queued
  BY QueuedSeq, ConcatEmptySeq DEF Taken, PendingOf

LEMMA InitMaps == ASSUME Init PROVE D!Init
<1>1. IInv /\ pc = "setup" /\ Queued = << >>
  BY InitIInv DEF Init, IInv
<1>2. PendingOf = << >>
  BY <1>1, TakenAtRest
<1>3. TaskOf = [n \in Node |-> Task(Cleared)] /\ RunningOf = <<NoNode, INIT_EVT>>
  BY DEF Init, TaskOf, RunningOf
<1> QED
  BY <1>2, <1>3 DEF D!Init, TaskOf, PendingOf, RunningOf, Queued

LEMMA RegisterMaps ==
    ASSUME IInv, IInv', TaskRegister
    PROVE  (\E n \in Node : D!Register(n)) \/ Unseen
<1>1. /\ UNCHANGED <<queue, pc, current, evt>> /\ pc \in {"setup", "handle"}
      /\ FreeNode \in Node /\ pool[FreeNode].fn = NoFunc
  BY FreeNodeFree DEF TaskRegister, Calling
<1>2. PendingOf' = PendingOf /\ RunningOf' = RunningOf
  <2>1. Taken = << >> /\ Taken' = << >> /\ Queued' = Queued
    BY <1>1 DEF Taken, Queued
  <2> QED
    BY <1>1, <2>1 DEF PendingOf, RunningOf
<1>3. pool \in [Node -> TaskNode] /\ Task(pool[FreeNode]) = Task(Cleared)
  BY <1>1 DEF IInv, Owned, TypeOK, CleanNodes
<1>4. TaskOf \in [Node -> {TaskOf[n] : n \in Node}] /\ TaskOf[FreeNode] = Task(Cleared)
  BY <1>1, <1>3 DEF TaskOf
<1>5. CASE NextId < 0
  <2>1. pool' = [pool EXCEPT ![FreeNode] = Cleared]
    BY <1>5 DEF TaskRegister, Overflowed
  <2>2. \A n \in Node : Task(pool'[n]) = Task(pool[n])
    BY <1>1, <1>3, <2>1
  <2> QED
    BY <1>2, <2>2 DEF Unseen, TaskOf
<1>6. CASE ~(NextId < 0)
  <2>1. PICK cfg \in Cfg :
           pool' = [pool EXCEPT ![FreeNode] =
                      [fn |-> cfg.fn, first |-> cfg.first, last |-> cfg.last, id |-> NextId,
                       trigger |-> pool[FreeNode].trigger]]
    BY <1>6 DEF TaskRegister
  <2>2. \A n \in Node : Task(pool'[n]) = IF n = FreeNode THEN Task(cfg) ELSE Task(pool[n])
    BY <1>1, <1>3, <2>1 DEF Task
  <2>3. TaskOf' = [TaskOf EXCEPT ![FreeNode] = Task(cfg)]
    BY <1>1, <2>2 DEF TaskOf
  <2>4. D!Register(FreeNode)
    <3>1. Task(cfg) \in {Task(c) : c \in Cfg}
      OBVIOUS
    <3> QED
      BY <1>2, <1>4, <2>3, <3>1 DEF D!Register, TaskOf, PendingOf, RunningOf, Queued
  <2> QED
    BY <1>1, <2>4
<1> QED
  BY <1>5, <1>6

LEMMA UnRegisterMaps ==
    ASSUME Polite, IInv, TaskUnRegister
    PROVE  \E n \in Node : D!Retire(n)
<1>1. UNCHANGED <<queue, pc, current, evt>> /\ pc \in {"setup", "handle"}
  BY DEF TaskUnRegister, Calling
<1>2. PICK n \in granted : ~Waiting(n) /\ pool' = [pool EXCEPT ![n] = Cleared]
  BY DEF TaskUnRegister
<1>3. n \in Node /\ pool \in [Node -> TaskNode] /\ pool[n].fn # NoFunc
  BY <1>2 DEF IInv, Owned, TypeOK, NodesNotLeaked
<1>4. PendingOf = Queued /\ PendingOf' = PendingOf /\ RunningOf' = RunningOf
  <2>1. Taken = << >> /\ Taken' = << >> /\ Queued' = Queued
    BY <1>1 DEF Taken, Queued
  <2> QED
    BY <1>1, <2>1, TakenAtRest DEF PendingOf, RunningOf
<1>5. TaskOf[n] # Task(Cleared)
  <2>1. TaskOf[n].fn = pool[n].fn /\ Task(Cleared).fn = NoFunc
    BY <1>3 DEF TaskOf, Task, Cleared
  <2> QED
    BY <1>3, <2>1
<1>6. TaskOf' = [TaskOf EXCEPT ![n] = Task(Cleared)]
  BY <1>2, <1>3 DEF TaskOf
<1>7. \A k \in 1 .. Len(PendingOf) : PendingOf[k][1] # n
  BY <1>2, <1>4 DEF Waiting, Queued
<1>8. D!Retire(n)
  BY <1>4, <1>5, <1>6, <1>7 DEF D!Retire, TaskOf, PendingOf, RunningOf, Queued
<1> QED
  BY <1>3, <1>8

\* Events go in behind the others, each accepted by the task it is for.
LEMMA AcceptMaps ==
    ASSUME IInv, NEW before \in Seq(Node \X Event), NEW added \in Seq(Node \X Event),
           PendingOf = before \o Queued, PendingOf' = before \o (Queued \o added),
           \A k \in 1 .. Len(added) : Accepted(added[k][1], added[k][2]),
           TaskOf' = TaskOf, RunningOf' = RunningOf
    PROVE  D!Accept \/ Unseen
<1>1. Queued \in Seq(Node \X Event) /\ pool \in [Node -> TaskNode]
  BY QueuedSeq DEF IInv, Owned, TypeOK
<1>2. PendingOf \in Seq(Node \X Event) /\ PendingOf' = PendingOf \o added
  BY <1>1, ConcatAssociative, ConcatProperties
<1>3. CASE added = << >>
  <2>1. PendingOf' = PendingOf
    BY <1>2, <1>3, ConcatEmptySeq
  <2> QED
    BY <2>1 DEF Unseen
<1>4. CASE added # << >>
  <2>1. /\ Len(added) \in Nat /\ Len(added) > 0 /\ Len(PendingOf) \in Nat
        /\ Len(PendingOf') = Len(PendingOf) + Len(added)
        /\ \A k \in 1 .. Len(PendingOf) : PendingOf'[k] = PendingOf[k]
        /\ \A k \in Len(PendingOf) + 1 .. Len(PendingOf') :
              PendingOf'[k] = added[k - Len(PendingOf)]
    <3>1. PendingOf' \in Seq(Node \X Event)
      BY <1>2, ConcatProperties
    <3> QED
      BY <1>2, <1>4, <3>1, ConcatProperties, LenProperties, EmptySeq
  <2>2. SubSeq(PendingOf', 1, Len(PendingOf)) = PendingOf
    <3>1. PendingOf' \in Seq(Node \X Event)
      BY <1>2, ConcatProperties
    <3>2. /\ SubSeq(PendingOf', 1, Len(PendingOf)) \in Seq(Node \X Event)
          /\ Len(SubSeq(PendingOf', 1, Len(PendingOf))) = Len(PendingOf)
          /\ \A k \in 1 .. Len(PendingOf) :
                SubSeq(PendingOf', 1, Len(PendingOf))[k] = PendingOf'[k]
      BY <2>1, <3>1, SubSeqProperties
    <3> QED
      BY <1>2, <2>1, <3>2, SeqEqual
  <2>3. ASSUME NEW k \in Len(PendingOf) + 1 .. Len(PendingOf')
        PROVE  /\ PendingOf'[k] \in Node \X Event
               /\ TaskOf[PendingOf'[k][1]] # Task(Cleared)
               /\ D!Accepts(TaskOf[PendingOf'[k][1]], PendingOf'[k][2])
    <3> DEFINE j == k - Len(PendingOf)
    <3>1. j \in 1 .. Len(added) /\ PendingOf'[k] = added[j]
      BY <2>1
    <3> DEFINE n == added[j][1]
               e == added[j][2]
    <3>2. n \in Node /\ e \in Event /\ Accepted(n, e) /\ added[j] \in Node \X Event
      BY <3>1
    <3>3. PendingOf'[k][1] = n /\ PendingOf'[k][2] = e
      BY <3>1
    <3> HIDE DEF j, n, e
    <3>4. TaskOf[n] = Task(pool[n]) /\ pool[n] \in TaskNode
      BY <1>1, <3>2 DEF TaskOf
    <3>5. TaskOf[n] # Task(Cleared)
      BY <3>2, <3>4 DEF Accepted, Task, Cleared
    <3>6. D!Accepts(TaskOf[n], e)
      <4>1. e \in Nat /\ pool[n].first \in Nat /\ pool[n].last \in Nat
        BY <3>2, <3>4, Constants DEF TaskNode
      <4>2. InRange(pool[n], e)
        BY <3>2 DEF Accepted
      <4>3. TaskOf[n].first = pool[n].first /\ TaskOf[n].last = pool[n].last
        BY <3>4 DEF Task
      <4> QED
        BY <4>1, <4>2, <4>3 DEF InRange, D!Accepts
    <3> QED
      BY <3>1, <3>2, <3>3, <3>5, <3>6
  <2>4. D!Accept
    <3>1. Len(PendingOf') > Len(PendingOf)
      BY <2>1
    <3> QED
      BY <2>2, <2>3, <3>1 DEF D!Accept, TaskOf, PendingOf, RunningOf, Queued
  <2> QED
    BY <2>4
<1> QED
  BY <1>3, <1>4

LEMMA SetEventMaps ==
    ASSUME Polite, IInv, IInv', SetEvent
    PROVE  D!Accept \/ Unseen
<1>1. UNCHANGED <<pool, pc, current, evt>> /\ pc = "handle" /\ Q!Occupancy(queue) < QueueMax
  BY QueuedSeq DEF SetEvent, Calling
<1>2. PICK n \in granted, e \in Posted : queue' = Post(queue, n, e)
  BY DEF SetEvent
<1>3. n \in Node /\ e \in Event
  BY SchedulerAssumption DEF IInv, Owned, TypeOK
<1>4. TaskOf' = TaskOf /\ RunningOf' = RunningOf
  BY <1>1 DEF TaskOf, RunningOf
<1>5. /\ Queued \in Seq(Node \X Event) /\ << >> \in Seq(Node \X Event)
      /\ PendingOf = << >> \o Queued /\ PendingOf' = << >> \o Queued'
  BY <1>1, QueuedSeq DEF PendingOf, Taken
<1>6. CASE queue' = queue
  <2>1. Queued' = Queued \o << >> /\ 1 .. Len(<< >>) = {}
    BY <1>5, <1>6, ConcatEmptySeq DEF Queued
  <2> QED
    BY <1>4, <1>5, <2>1, AcceptMaps
<1>7. CASE queue' # queue
  <2>1. Accepted(n, e) /\ Queued' = Append(Queued, <<n, e>>)
    BY <1>1, <1>2, <1>3, <1>7, QueuedSeq, PostAppends DEF Queued
  <2> DEFINE added == << <<n, e>> >>
  <2>2. added \in Seq(Node \X Event) /\ Queued' = Queued \o added
    <3>1. <<n, e>> \in Node \X Event
      BY <1>3
    <3> QED
      BY <1>5, <2>1, <3>1, AppendIsConcat
  <2>3. \A k \in 1 .. Len(added) : Accepted(added[k][1], added[k][2])
    BY <2>1
  <2> HIDE DEF added
  <2> QED
    BY <1>4, <1>5, <2>2, <2>3, AcceptMaps
<1> QED
  BY <1>6, <1>7

LEMMA SleepMaps == ASSUME IInv, Sleep PROVE D!Accept \/ Unseen
<1>1. UNCHANGED <<pool, current, evt>>
  BY DEF Sleep
<1>2. Taken' = Taken /\ Taken \in Seq(Node \X Event)
  <2>1. CASE pc = "sleep" /\ current # NoNode
    <3>1. pc' = "call" /\ current \in Node
      BY <2>1 DEF Sleep, IInv, Owned, TypeOK
    <3>2. <<current, pool[current].trigger>> \in Node \X Event
      <4>1. pool[current] \in TaskNode
        BY <3>1 DEF IInv, Owned, TypeOK
      <4> QED
        BY <3>1, <4>1 DEF TaskNode
    <3> QED
      BY <1>1, <2>1, <3>1, <3>2 DEF Taken
  <2>2. CASE ~(pc = "sleep" /\ current # NoNode)
    BY <2>2 DEF Sleep, Taken
  <2> QED
    BY <2>1, <2>2
<1>3. PICK added \in Seq(Node \X Event) :
         /\ Queued' = Queued \o added
         /\ \A k \in 1 .. Len(added) :
               added[k][2] = EVT_TICK /\ added[k][1] \in Node /\ Accepted(added[k][1], EVT_TICK)
  BY Slept
<1>4. PendingOf = Taken \o Queued /\ PendingOf' = Taken \o (Queued \o added)
  BY <1>2, <1>3 DEF PendingOf
<1>5. TaskOf' = TaskOf /\ RunningOf' = RunningOf
  BY <1>1 DEF TaskOf, RunningOf, Sleep
<1>6. \A k \in 1 .. Len(added) : Accepted(added[k][1], added[k][2])
  BY <1>3
<1> QED
  BY <1>2, <1>4, <1>5, <1>6, AcceptMaps

\* An event pulled is still pending, and in the order it was.
LEMMA PullMaps == ASSUME IInv, Pull PROVE Unseen
<1>1. Taken = << >> /\ PendingOf = Queued /\ pc = "pull"
  BY TakenAtRest DEF Pull
<1>2. pc' \in {"call", "sleep"} /\ current' # NoNode
  BY Pulled, Constants DEF Pull
<1>3. Taken' = << Head(Queued) >>
  BY <1>2, Pulled DEF Taken
<1>4. << Head(Queued) >> \o Tail(Queued) = Queued
  BY QueuedSeq, Pulled, HeadThenTail
<1>5. PendingOf' = PendingOf
  BY <1>1, <1>3, <1>4, Pulled DEF PendingOf
<1>6. TaskOf' = TaskOf /\ RunningOf' = RunningOf
  BY <1>1, <1>2, Pulled DEF TaskOf, RunningOf
<1> QED
  BY <1>5, <1>6 DEF Unseen

LEMMA CallMaps == ASSUME IInv, Call PROVE D!Take
<1>1. /\ pc = "call" /\ evt' = pool[current].trigger /\ UNCHANGED <<pool, queue, current>>
      /\ current \in Node /\ current # NoNode /\ pc' = "handle"
  BY Constants DEF Call, IInv, Owned, Live
<1> DEFINE event == <<current, pool[current].trigger>>
<1>2. event \in Node \X Event
  <2>1. pool[current] \in TaskNode
    BY <1>1 DEF IInv, Owned, TypeOK
  <2> QED
    BY <1>1, <2>1 DEF TaskNode
<1>3. PendingOf = <<event>> \o Queued /\ PendingOf' = Queued
  BY <1>1, QueuedSeq, ConcatEmptySeq DEF PendingOf, Taken, Queued
<1>4. RunningOf = <<NoNode, INIT_EVT>> /\ RunningOf' = event /\ TaskOf' = TaskOf
  BY <1>1 DEF RunningOf, TaskOf
<1> HIDE DEF event
<1>5. PendingOf # << >> /\ Head(PendingOf) = event /\ Tail(PendingOf) = Queued
  BY <1>2, <1>3, QueuedSeq, PutBefore
<1> QED
  BY <1>3, <1>4, <1>5 DEF D!Take, TaskOf, PendingOf, RunningOf, Queued

LEMMA ReturnMaps == ASSUME IInv, Return PROVE D!Done
<1>1. /\ pc = "handle" /\ pc' = "sleepAgain" /\ UNCHANGED <<pool, queue>>
      /\ current \in Node /\ current # NoNode
  BY Constants DEF Return, IInv, Owned
<1>2. RunningOf # <<NoNode, INIT_EVT>> /\ RunningOf' = <<NoNode, INIT_EVT>>
  BY <1>1 DEF RunningOf
<1>3. TaskOf' = TaskOf /\ PendingOf' = PendingOf
  BY <1>1 DEF TaskOf, PendingOf, Taken, Queued
<1> QED
  BY <1>2, <1>3 DEF D!Done, TaskOf, PendingOf, RunningOf, Queued

\* The rest of the steps only prepare the loop, or set a tick due.
LEMMA OtherMaps ==
    ASSUME IInv, TickRegister \/ RegSleepMethod \/ Start \/ PullNothing \/ TickInterrupt
    PROVE  Unseen
<1>1. UNCHANGED <<pool, evt>>
  BY DEF TickRegister, RegSleepMethod, Start, PullNothing, TickInterrupt
<1>2. RunningOf' = RunningOf /\ Taken' = Taken
  <2>1. CASE PullNothing
    BY <2>1 DEF PullNothing, RunningOf, Taken
  <2>2. CASE Start
    BY <2>2 DEF Start, RunningOf, Taken
  <2>3. CASE TickRegister \/ RegSleepMethod \/ TickInterrupt
    BY <2>3 DEF TickRegister, RegSleepMethod, TickInterrupt, RunningOf, Taken
  <2> QED
    BY <2>1, <2>2, <2>3
<1>3. Queued' = Queued
  <2>1. CASE Start
    <3>1. Queued = << >> /\ IInv'
      BY <2>1, StartKeeps DEF Start, IInv
    <3>2. queue' = queue \/ queue' = Q!Cleared(queue)
      BY <2>1 DEF Start
    <3>3. Q!Contents(Q!Cleared(queue)) = << >>
      BY QueuedSeq, QueueLeft, QueueOccupancy
    <3> QED
      BY <3>1, <3>2, <3>3 DEF Queued
  <2>2. CASE ~Start
    BY <2>2 DEF TickRegister, RegSleepMethod, PullNothing, TickInterrupt, Queued
  <2> QED
    BY <2>1, <2>2
<1> QED
  BY <1>1, <1>2, <1>3 DEF Unseen, TaskOf, PendingOf

LEMMA StepMaps ==
    ASSUME Polite, IInv, IInv', [Next]_vars
    PROVE  D!Next \/ Unseen
<1>1. CASE UNCHANGED vars
  BY <1>1 DEF vars, Unseen, TaskOf, PendingOf, RunningOf, Taken, Queued
<1>2. CASE TaskRegister
  BY <1>2, RegisterMaps DEF D!Next
<1>3. CASE TaskUnRegister
  BY <1>3, UnRegisterMaps DEF D!Next
<1>4. CASE SetEvent
  BY <1>4, SetEventMaps DEF D!Next
<1>5. CASE Sleep
  BY <1>5, SleepMaps DEF D!Next
<1>6. CASE Pull
  BY <1>6, PullMaps
<1>7. CASE Call
  BY <1>7, CallMaps DEF D!Next
<1>8. CASE Return
  BY <1>8, ReturnMaps DEF D!Next
<1>9. CASE TickRegister \/ RegSleepMethod \/ Start \/ PullNothing \/ TickInterrupt
  BY <1>9, OtherMaps
<1> QED
  BY <1>1, <1>2, <1>3, <1>4, <1>5, <1>6, <1>7, <1>8, <1>9 DEF Next, Clients, Loop

-----------------------------------------------------------------------------
\* The types, whatever the clients do: no pointer leaves the pool, and no queue
\* or table its bounds.
THEOREM TypeCorrect == Spec => []TypeOK
<1>1. Owned => TypeOK
  BY DEF Owned
<1> QED
  BY <1>1, OwnedAlways, PTL

\* Whatever the clients do, a node is taken exactly while one of them holds its
\* handle: EventSchedul_TaskRegister gives back the node that it finds no id for.
THEOREM NoNodeLeaks == Spec => []NodesNotLeaked
<1>1. Owned => NodesNotLeaked
  BY DEF Owned
<1> QED
  BY <1>1, OwnedAlways, PTL

\* Between polite clients the scheduler never calls through a cleared node.
THEOREM NeverLost == ASSUME Polite PROVE Spec => [](pc # "lost")
<1>1. IInv => pc # "lost"
  BY DEF IInv
<1> QED
  BY <1>1, OrderlyAlways, PTL

\* Between polite clients, and for every pool, queue, table and set of tasks,
\* the scheduler does what Dispatch says: every step of it is a step of Dispatch
\* or changes nothing that Dispatch sees.
THEOREM Refinement == ASSUME Polite PROVE Spec => ImplementsDispatch
<1>1. Init => D!Init
  BY InitMaps
<1>2. IInv /\ IInv' /\ [Next]_vars => [D!Next]_(D!dispatchVars)
  <2> SUFFICES ASSUME IInv, IInv', [Next]_vars PROVE D!Next \/ UNCHANGED D!dispatchVars
    OBVIOUS
  <2>1. Unseen => UNCHANGED D!dispatchVars
    BY DEF Unseen, D!dispatchVars, TaskOf, PendingOf, RunningOf, Queued
  <2> QED
    BY <2>1, StepMaps
<1> QED
  BY <1>1, <1>2, OrderlyAlways, PTL DEF Spec, ImplementsDispatch, D!Spec
=============================================================================
