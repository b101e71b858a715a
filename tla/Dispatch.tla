------------------------------ MODULE Dispatch ------------------------------
(***************************************************************************)
(* What the event scheduler is for: a handler runs once for every event    *)
(* that was accepted for its task, in the order of acceptance over all     *)
(* tasks, and only with events of the range the task registered.           *)
(***************************************************************************)
EXTENDS Integers, Sequences

CONSTANTS
    Node, Cfg, Event,
    NoTask,  \* what a node holds that is given to no task
    Idle     \* no handler runs

VARIABLES
    task,     \* the task each node is given to, or NoTask
    pending,  \* accepted events, <<node, event>>, oldest first
    running   \* the node and event being handled, or Idle

dispatchVars == <<task, pending, running>>

\* EventSchedul_setEventToTask's ranges: [first, last), or, when first is the
\* larger, all but [last, first).
Accepts(cfg, evt) ==
    IF cfg.first > cfg.last THEN evt >= cfg.first \/ evt < cfg.last
                            ELSE evt >= cfg.first /\ evt < cfg.last

Init ==
    /\ task = [n \in Node |-> NoTask]
    /\ pending = << >>
    /\ running = Idle

Register(n) ==
    /\ task[n] = NoTask
    /\ \E cfg \in Cfg : task' = [task EXCEPT ![n] = cfg]
    /\ UNCHANGED <<pending, running>>

Retire(n) ==
    /\ task[n] # NoTask
    /\ \A k \in 1 .. Len(pending) : pending[k][1] # n
    /\ task' = [task EXCEPT ![n] = NoTask]
    /\ UNCHANGED <<pending, running>>

\* One call or one broadcast: several events may be accepted in one step.
Accept ==
    /\ Len(pending') > Len(pending)
    /\ SubSeq(pending', 1, Len(pending)) = pending
    /\ \A k \in Len(pending) + 1 .. Len(pending') :
          /\ pending'[k] \in Node \X Event
          /\ task[pending'[k][1]] # NoTask
          /\ Accepts(task[pending'[k][1]], pending'[k][2])
    /\ UNCHANGED <<task, running>>

Take ==
    /\ running = Idle /\ pending # << >>
    /\ running' = Head(pending)
    /\ pending' = Tail(pending)
    /\ UNCHANGED task

Done ==
    /\ running # Idle
    /\ running' = Idle
    /\ UNCHANGED <<task, pending>>

Next == (\E n \in Node : Register(n) \/ Retire(n)) \/ Accept \/ Take \/ Done

Spec == Init /\ [][Next]_dispatchVars
=============================================================================
