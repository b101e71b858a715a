----------------------------- MODULE RingBuffer -----------------------------
(***************************************************************************)
(* compoent/ringBuffer as its callers drive it: one ring, shared by the    *)
(* main loop and an interrupt service routine.  ringBuf_count, push, pop   *)
(* and peek run inside a __critical section and are one action each; the   *)
(* *_multi calls enter and leave that section once per element, so the ISR *)
(* may run between two elements.  The ISR makes single calls only, as      *)
(* uart1_isr does.  ringBuf_init and ringBuf_clear are outside __critical: *)
(* their callers run them before the interrupt is enabled, and they are    *)
(* one action.                                                             *)
(*                                                                         *)
(* MaxLive is an obligation of the clients, not of the code: they never    *)
(* push while MaxLive items are outstanding.  With MaxLive = Depth the     *)
(* clients use the ring to its capacity.                                   *)
(***************************************************************************)
EXTENDS RingOps

CONSTANTS
    Overwritable,
    MaxLive,
    MaxMulti   \* longest *_multi call, and highest index peek_multi starts at

ASSUME OverwritableAssumption == Overwritable \in BOOLEAN
ASSUME MaxLiveAssumption == MaxLive \in 0 .. Depth
ASSUME MultiAssumption == MaxMulti \in 0 .. HalfWord - 1

\* What the unsigned itemIdx of peek ranges over.
ItemIdx == 0 .. Word - 1

Thread == {"main", "isr"}

VARIABLES
    rb,    \* the ring control block and its storage
    ret,   \* the last single-element call, who made it and what it returned
    job    \* the *_multi call main is in, and how many elements it has done

vars == <<rb, ret, job>>

-----------------------------------------------------------------------------
NoCall == [by |-> "main", op |-> "none", err |-> "OK"]

Answers ==
    {NoCall}
    \cup [by : Thread, op : {"push"}, err : {"OK", "WR_DENIED"}]
    \cup [by : Thread, op : {"pop", "peek"}, err : {"EMPTY"}]
    \cup [by : Thread, op : {"peek"}, err : {"IDX"}]
    \cup [by : Thread, op : {"pop", "peek"}, err : {"OK"}, item : Item]
    \cup [by : Thread, op : {"count"}, err : {"OK"}, count : - Depth .. Depth]
    \cup [by : Thread, op : {"clear"}, err : {"OK"}]

Multi == {"push_multi", "pop_multi", "peek_multi"}

Jobs == [op : Multi \cup {"none"},
         at : 0 .. MaxMulti, want : 0 .. MaxMulti, done : 0 .. MaxMulti]

\* The ring and every answer have the shape the declarations give them.
TypeOK ==
    /\ rb \in Ring
    /\ ret \in Answers
    /\ job \in Jobs
    /\ job.op # "none" => job.done < job.want

Init ==
    /\ rb \in [wr : {0}, rd : {0}, buf : [Slot -> Item]]
    /\ ret = NoCall
    /\ job = [op |-> "none", at |-> 0, want |-> 0, done |-> 0]

-----------------------------------------------------------------------------
\* The critical section of each entry point, run by thread t.

PushCore(t, x) ==
    /\ Occupancy(rb) < MaxLive
    /\ rb' = AfterPush(rb, x, Overwritable)
    /\ ret' = [by |-> t, op |-> "push", err |-> PushErr(rb, Overwritable)]

PopCore(t) ==
    /\ rb' = AfterPop(rb)
    /\ ret' = IF PopErr(rb) = "OK"
              THEN [by |-> t, op |-> "pop", err |-> "OK", item |-> Oldest(rb)]
              ELSE [by |-> t, op |-> "pop", err |-> "EMPTY"]

PeekCore(t, i) ==
    /\ IF PeekErr(rb, i) = "OK"
       THEN \E x \in PeekValues(rb, i) :
                ret' = [by |-> t, op |-> "peek", err |-> "OK", item |-> x]
       ELSE ret' = [by |-> t, op |-> "peek", err |-> PeekErr(rb, i)]
    /\ UNCHANGED rb

CountCore(t) ==
    /\ ret' = [by |-> t, op |-> "count", err |-> "OK", count |-> CalcCount(rb)]
    /\ UNCHANGED rb

-----------------------------------------------------------------------------
\* A thread may make a single-element call: the ISR at any time, main when it
\* is not in the middle of a *_multi call.
Free(t) == t = "main" => job.op = "none"

Push(t, x) == Free(t) /\ PushCore(t, x) /\ UNCHANGED job
Pop(t)     == Free(t) /\ PopCore(t)     /\ UNCHANGED job
Peek(t, i) == Free(t) /\ PeekCore(t, i) /\ UNCHANGED job
Count(t)   == Free(t) /\ CountCore(t)   /\ UNCHANGED job

Clear ==
    /\ Free("main")
    /\ rb' = Cleared(rb)
    /\ ret' = [by |-> "main", op |-> "clear", err |-> "OK"]
    /\ UNCHANGED job

-----------------------------------------------------------------------------
\* ringBuf_*_multi: main enters the loop with a count it asks for (and, for
\* peek, the index it starts at); a call for no element returns at once.
StartMulti(op, at, n) ==
    /\ Free("main")
    /\ at # 0 => op = "peek_multi"
    /\ job' = [op |-> IF n = 0 THEN "none" ELSE op,
               at |-> at, want |-> n, done |-> 0]
    /\ UNCHANGED <<rb, ret>>

\* One turn of the loop is over: a failed element ends the call and is not
\* counted, the last element ends it and is.
Advance ==
    job' = IF ret'.err # "OK" THEN [job EXCEPT !.op = "none"]
           ELSE IF job.done + 1 = job.want
                THEN [job EXCEPT !.op = "none", !.done = @ + 1]
                ELSE [job EXCEPT !.done = @ + 1]

MultiPush(x) == job.op = "push_multi" /\ PushCore("main", x) /\ Advance
MultiPop     == job.op = "pop_multi"  /\ PopCore("main")     /\ Advance
MultiPeek ==
    job.op = "peek_multi" /\ PeekCore("main", job.at + job.done) /\ Advance

-----------------------------------------------------------------------------
Next ==
    \/ \E t \in Thread :
          \/ \E x \in Item : Push(t, x)
          \/ Pop(t)
          \/ \E i \in ItemIdx : Peek(t, i)
          \/ Count(t)
    \/ Clear
    \/ \E op \in Multi, at, n \in 0 .. MaxMulti : StartMulti(op, at, n)
    \/ \E x \in Item : MultiPush(x)
    \/ MultiPop
    \/ MultiPeek

Spec == Init /\ [][Next]_vars

-----------------------------------------------------------------------------
\* A ring that refuses a push always holds an item its reader can take: the
\* writer that spins on a refusal (UART1_WriteByte) never waits for a reader
\* that has nothing left to do.
RefusalMeansWork == SeemsFull(rb) => ~SeemsEmpty(rb) /\ Occupancy(rb) > 0

\* A ring that refuses a push goes on refusing until its reader has drained
\* it: the write index stands at 0 and the read index has to come round to it.
RefusesUntilDrained ==
    [][SeemsFull(rb) => SeemsFull(rb)' \/ Occupancy(rb)' = 0]_vars

LossyFifo ==
    INSTANCE BoundedFifo WITH
        Capacity <- Depth, PeekIdx <- ItemIdx,
        queue <- Contents(rb)

\* What is stored comes out once, complete and in order, whichever thread
\* stores and takes; only the fullness a push is refused for may be false.
ImplementsLossyFifo == LossyFifo!Spec
=============================================================================
