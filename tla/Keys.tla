-------------------------------- MODULE Keys --------------------------------
(***************************************************************************)
(* From a key's line to its press: board_bus_poll samples the lines into   *)
(* debouncers (debounce.c) and pushes their edges into the button queue,   *)
(* from which userButton.c takes them and follows each key's state, with   *)
(* a count of the ticks it has been held for.                              *)
(*                                                                         *)
(* This is the detail below DoorTask, which takes the edges as given.  All *)
(* of it runs in handlers of the main loop, one after another; between two *)
(* samples a bouncing line may have any level.                             *)
(***************************************************************************)
EXTENDS Integers, FiniteSetsExt

CONSTANTS
    Channels,   \* BUTTON_CNT, 8
    Samples,    \* DEBOUNCE_SAMPLES, 3
    Depth,      \* BUTTON_EVT_QUEUE_DEPTH, 8
    HalfWord,   \* 2^15
    HoldWord,   \* values of the unsigned short holdCnt, 2^16
    LongPress,  \* longpressThreshold, 1500
    Calm        \* assume one edge to a poll, and the queue drained in between

\* cnt is a field of seven bits.
ASSUME KeysAssumption ==
    /\ Channels \in Nat \ {0} /\ Samples \in 1 .. 127
    /\ HoldWord \in Nat \ {0} /\ LongPress \in 1 .. HoldWord - 1
    /\ HalfWord \in Nat /\ Depth \in 1 .. HalfWord - 1
    /\ Calm \in BOOLEAN

Key == 0 .. Channels - 1

VARIABLES
    db,        \* debounce_t of each line
    queue,     \* evtQueue, raw edges
    ch,        \* button_channel_t of each key
    scanning,  \* in doorLockTask_handleBtnScan
    steady,    \* history: the last level of each line, and for how many samples
    held       \* history: ticks since the press, up to LongPress

keyVars == <<db, queue, ch, scanning, steady, held>>

Ring == INSTANCE RingOps WITH Item <- Key \X {0, 1}

KeysTypeOK ==
    /\ db \in [Key -> [stable : {0, 1}, cnt : 0 .. Samples - 1]]
    /\ queue \in Ring!Ring
    /\ ch \in [Key -> [pressed : BOOLEAN, holdCnt : 0 .. HoldWord - 1, fired : BOOLEAN]]
    /\ scanning \in BOOLEAN
    /\ steady \in [Key -> [level : {0, 1}, n : 0 .. Samples]]
    /\ held \in [Key -> 0 .. LongPress]

\* board_bus_init and button_init: the lines idle high.
KeysInit ==
    /\ db = [k \in Key |-> [stable |-> 1, cnt |-> 0]]
    /\ queue = [wr |-> 0, rd |-> 0, buf |-> [s \in Ring!Slot |-> <<0, 1>>]]
    /\ ch = [k \in Key |-> [pressed |-> FALSE, holdCnt |-> 0, fired |-> FALSE]]
    /\ scanning = FALSE
    /\ steady = [k \in Key |-> [level |-> 1, n |-> Samples]]
    /\ held = [k \in Key |-> 0]

-----------------------------------------------------------------------------
(***************************************************************************)
(* Plausible slips, for mutation runs only: a debouncer that is not reset  *)
(* by a bounce, one that keeps its count past an edge, an edge that leaves *)
(* the hold count, a queue read newest first.                              *)
(***************************************************************************)
SampledThroughBounce(b, level) ==
    IF level = b.stable THEN b
    ELSE IF b.cnt + 1 >= Samples THEN [stable |-> level, cnt |-> 0]
    ELSE [b EXCEPT !.cnt = @ + 1]

SampledKeepingCount(b, level) ==
    IF level = b.stable THEN [b EXCEPT !.cnt = 0]
    ELSE IF b.cnt + 1 >= Samples THEN [stable |-> level, cnt |-> b.cnt + 1]
    ELSE [b EXCEPT !.cnt = @ + 1]

EdgeTakenHoldKept(c, level) ==
    IF level = 0 THEN [c EXCEPT !.pressed = TRUE, !.fired = FALSE]
                 ELSE [c EXCEPT !.pressed = FALSE]

OldLevel(before, after, k) == before[k].stable

-----------------------------------------------------------------------------
\* debounce_sample: an edge is a change of stable.
Sampled(b, level) ==
    IF level = b.stable THEN [b EXCEPT !.cnt = 0]
    ELSE IF b.cnt + 1 >= Samples THEN [stable |-> level, cnt |-> 0]
    ELSE [b EXCEPT !.cnt = @ + 1]

\* The level an edge is reported with: debounce_state after the sample.
EdgeLevel(before, after, k) == after[k].stable

Edges(before, after) == {k \in Key : after[k].stable # before[k].stable}

\* button_push, channel after channel; a refused edge is lost.
Pushed(q, keys, levels) ==
    LET after[n \in 0 .. Channels] ==
            IF n = 0 THEN q
            ELSE IF n - 1 \in keys THEN Ring!AfterPush(after[n - 1], <<n - 1, levels[n - 1]>>, FALSE)
            ELSE after[n - 1]
    IN  after[Channels]

\* button_poll, past the queue: what an edge does to its key.
EdgeTaken(c, level) ==
    IF level = 0 THEN [pressed |-> TRUE, holdCnt |-> 0, fired |-> FALSE]
                 ELSE [c EXCEPT !.pressed = FALSE, !.holdCnt = 0]

\* button_tick for one key
Held(c) == IF c.pressed THEN [c EXCEPT !.holdCnt = (@ + 1) % HoldWord] ELSE c

Steadied(s, level) ==
    [level |-> level,
     n |-> IF level # s.level THEN 1 ELSE IF s.n < Samples THEN s.n + 1 ELSE s.n]

-----------------------------------------------------------------------------
\* board_bus_poll, when it is due
PollLines ==
    \E lines \in [Key -> {0, 1}] :
        /\ db' = [k \in Key |-> Sampled(db[k], lines[k])]
        /\ steady' = [k \in Key |-> Steadied(steady[k], lines[k])]
        /\ queue' = Pushed(queue, Edges(db, db'), [k \in Key |-> EdgeLevel(db, db', k)])
        /\ Calm => Ring!SeemsEmpty(queue) /\ \A j, k \in Edges(db, db') : j = k

\* EVT_DOORLOCK_TICK: the poll, if it is due, and the hold counters.
Tick ==
    /\ ~scanning
    /\ PollLines \/ UNCHANGED <<db, steady, queue>>
    /\ ch' = [k \in Key |-> Held(ch[k])]
    /\ held' = [k \in Key |-> IF ch[k].pressed /\ held[k] < LongPress
                              THEN held[k] + 1 ELSE held[k]]
    /\ UNCHANGED scanning

\* EVT_DOORLOCK_BTN_SCAN: button_poll takes one edge after another ...
ScanNext ==
    /\ ~Ring!SeemsEmpty(queue)
    /\ queue' = Ring!AfterPop(queue)
    /\ LET edge == Ring!Oldest(queue)
       IN  /\ ch' = [ch EXCEPT ![edge[1]] = EdgeTaken(@, edge[2])]
           /\ held' = [held EXCEPT ![edge[1]] = 0]
    /\ scanning' = TRUE
    /\ UNCHANGED <<db, steady>>

\* ... until there is none left.
ScanDone ==
    /\ scanning /\ Ring!SeemsEmpty(queue)
    /\ scanning' = FALSE
    /\ UNCHANGED <<db, queue, ch, steady, held>>

\* button_isLongpress says yes.  Nothing in the firmware asks yet.
IsLongpress ==
    /\ ~scanning
    /\ \E k \in Key :
        /\ ch[k].pressed /\ ~ch[k].fired /\ ch[k].holdCnt >= LongPress
        /\ ch' = [ch EXCEPT ![k].fired = TRUE]
    /\ UNCHANGED <<db, queue, scanning, steady, held>>

KeysNext == Tick \/ ScanNext \/ ScanDone \/ IsLongpress

KeysSpec == KeysInit /\ [][KeysNext]_keyVars
-----------------------------------------------------------------------------
\* A debouncer changes its mind exactly when the line has shown the other
\* level in Samples samples running (debounce.h: "the stable level only
\* changes once the raw level has differed from it for DEBOUNCE_SAMPLES
\* consecutive samples"), and never later than that.
SettlesExactly ==
    [][\A k \in Key : db'[k].stable # db[k].stable
                      <=> steady'[k].level # db[k].stable /\ steady'[k].n >= Samples]_keyVars

\* The last level the button layer knows of a key, or will know when it has
\* taken what is queued, is the debounced level of its line: no edge is lost,
\* doubled or overtaken.
KnowsLevel ==
    \A k \in Key :
        LET edges == Ring!Contents(queue)
            mine  == {i \in 1 .. Ring!Occupancy(queue) : edges[i][1] = k}
        IN  db[k].stable = IF mine # {} THEN edges[Max(mine)][2]
                           ELSE IF ch[k].pressed THEN 0 ELSE 1

\* A long press is reported only for a key that has been down, in this press,
\* for as many ticks as it takes.
LongpressEarned == \A k \in Key : ch[k].pressed /\ ch[k].fired => held[k] = LongPress
=============================================================================
