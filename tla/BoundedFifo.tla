---------------------------- MODULE BoundedFifo ----------------------------
(***************************************************************************)
(* What a client may rely on when it calls a ring: a first-in first-out    *)
(* queue, whatever the interleaving of the main loop and the interrupt     *)
(* service routine.                                                        *)
(*                                                                         *)
(* The queue may plead fullness at any time, and its count says no more    *)
(* than whether the queue is empty: that is as much as the ring keeps.     *)
(* What is never lost is order and content.                                *)
(***************************************************************************)
EXTENDS Integers, Sequences

CONSTANTS
    Item, Capacity, Thread,
    Overwritable,  \* a full queue drops its oldest item instead of refusing
    PeekIdx        \* item indices that clients peek at

VARIABLES
    queue,  \* the items, oldest first
    ret     \* the last call, who made it and what it returned

vars == <<queue, ret>>

\* No call has returned yet.
NoCall == [by |-> "main", op |-> "none", err |-> "OK"]

Init ==
    /\ queue = << >>
    /\ ret = NoCall

Push(t, x) ==
    /\ Len(queue) < Capacity
    /\ queue' = Append(queue, x)
    /\ ret' = [by |-> t, op |-> "push", err |-> "OK"]

Refuse(t) ==
    /\ ~Overwritable
    /\ ret' = [by |-> t, op |-> "push", err |-> "WR_DENIED"]
    /\ UNCHANGED queue

Evict(t, x) ==
    /\ Overwritable
    /\ queue # << >>
    /\ queue' = Append(Tail(queue), x)
    /\ ret' = [by |-> t, op |-> "push", err |-> "OK"]

Pop(t) ==
    /\ queue # << >>
    /\ ret' = [by |-> t, op |-> "pop", err |-> "OK", item |-> Head(queue)]
    /\ queue' = Tail(queue)

PopEmpty(t) ==
    /\ queue = << >>
    /\ ret' = [by |-> t, op |-> "pop", err |-> "EMPTY"]
    /\ UNCHANGED queue

Peek(t, i) ==
    /\ \/ /\ i < Len(queue)
          /\ ret' = [by |-> t, op |-> "peek", err |-> "OK", item |-> queue[i + 1]]
       \/ /\ queue # << >>
          /\ i >= Len(queue)
          /\ \E x \in Item :
                ret' = [by |-> t, op |-> "peek", err |-> "OK", item |-> x]
       \/ /\ queue # << >>
          /\ i >= Len(queue)
          /\ ret' = [by |-> t, op |-> "peek", err |-> "IDX"]
       \/ /\ queue = << >>
          /\ ret' = [by |-> t, op |-> "peek", err |-> "EMPTY"]
    /\ UNCHANGED queue

Count(t) ==
    /\ \E c \in - Capacity .. Capacity :
          /\ c = 0 <=> queue = << >>
          /\ ret' = [by |-> t, op |-> "count", err |-> "OK", count |-> c]
    /\ UNCHANGED queue

Clear(t) ==
    /\ queue' = << >>
    /\ ret' = [by |-> t, op |-> "clear", err |-> "OK"]

Next ==
    \E t \in Thread :
        \/ \E x \in Item : Push(t, x) \/ Evict(t, x)
        \/ Refuse(t)
        \/ Pop(t) \/ PopEmpty(t)
        \/ \E i \in PeekIdx : Peek(t, i)
        \/ Count(t)
        \/ Clear(t)

Spec == Init /\ [][Next]_vars
=============================================================================
