------------------------------ MODULE TimerHal ------------------------------
(***************************************************************************)
(* uni-stc/hal/timer-hal.c: how a divisor of the system clock becomes a    *)
(* prescaler, the 12-fold divider and a reload value, and the registers    *)
(* that start and stop a timer.                                            *)
(***************************************************************************)
EXTENDS Integers

CONSTANTS
    TmrFamily,       \* MCU_FAMILY
    TmrPrescalers,   \* TIMER_HAS_PRESCALERS
    COUNTER_MAX,     \* 65536, or 256 on the STC12
    PRESCALER_MAX,   \* 256
    TmrTimers,       \* the timers this chip has, of 0 1 2 3 4 11
    TmrDivisors,     \* bound: the divisors asked for
    TmrChips,        \* bound: chips, [family, pins, timers, lacks, onP1, switch], for their pins
    TmrCalls         \* bound: the calls made

VARIABLES
    tmrRegs,    \* per timer: running, gate, clkout, interrupt, by12, prescaler
                \* and reload, whatever registers they are in
    tmrAsked,   \* history: per timer, the divisor it runs by; 0 if none
    tmrCalls    \* bound: the calls so far

tmrVars == <<tmrRegs, tmrAsked, tmrCalls>>

TmrInit ==
    /\ tmrRegs = [t \in TmrTimers |-> [run |-> FALSE, gate |-> FALSE, out |-> FALSE, ie |-> FALSE, by12 |-> TRUE,
                                       prescaler |-> 0, reload |-> 0]]
    /\ tmrAsked = [t \in TmrTimers |-> 0]
    /\ tmrCalls = 0

HasPrescaler(t) == TmrPrescalers /\ t \notin {0, 1}

-----------------------------------------------------------------------------
\* What startTimer computes: [status, by12, prescaler, divisor]
Refused(status) == [status |-> status, by12 |-> FALSE, prescaler |-> 0, divisor |-> 0]
Taken(by12, prescaler, divisor) ==
    [status |-> "OK", by12 |-> by12, prescaler |-> prescaler, divisor |-> divisor]

\* Without a prescaler, the divider by 12 is all that helps.
Plain(divisor) ==
    CASE divisor <= COUNTER_MAX -> Taken(FALSE, 0, divisor)
      [] divisor > COUNTER_MAX /\ divisor <= 12 * COUNTER_MAX -> Taken(TRUE, 0, divisor \div 12)
      [] divisor > 12 * COUNTER_MAX -> Refused("TOO_LOW")

\* A slip, for mutation runs only: the divisor left as it was when the divider
\* by 12 is switched on.
PrescaledWhole(divisor) ==
    IF divisor <= COUNTER_MAX THEN Taken(FALSE, 0, divisor)
    ELSE LET ratio == divisor \div COUNTER_MAX
             by12  == ratio > PRESCALER_MAX
             first == IF by12 THEN ratio \div 12 ELSE ratio
             scale == IF divisor % first # 0 THEN first + 1 ELSE first
         IN  Taken(by12, scale - 1, divisor \div scale)

\* With one: the least that fits, one more if it does not divide evenly
Prescaled(divisor) ==
    IF divisor <= COUNTER_MAX THEN Taken(FALSE, 0, divisor)
    ELSE LET ratio == divisor \div COUNTER_MAX
             by12  == ratio > PRESCALER_MAX
             first == IF by12 THEN ratio \div 12 ELSE ratio
             left  == IF by12 THEN divisor \div 12 ELSE divisor
             scale == IF left % first # 0 THEN first + 1 ELSE first
         IN  Taken(by12, scale - 1, left \div scale)

Setting(t, divisor) ==
    IF divisor = 0 THEN Refused("TOO_HIGH")
    ELSE IF HasPrescaler(t) THEN Prescaled(divisor) ELSE Plain(divisor)

\* Timers 0 and 1: a gate, no prescaler, and no output on family 90
SetGated(r, s, out, ie, gated) ==
    [r EXCEPT !.run = TRUE, !.gate = gated, !.out = IF TmrFamily = 90 THEN @ ELSE out, !.ie = ie,
              !.by12 = s.by12, !.reload = (COUNTER_MAX - s.divisor) % COUNTER_MAX]

\* Timer 2, which on an STC12 is its baud rate timer and has no interrupt
SetSecond(r, s, out, ie) ==
    [r EXCEPT !.run = TRUE, !.out = out, !.ie = IF TmrFamily = 12 THEN @ ELSE ie,
              !.by12 = s.by12, !.reload = (COUNTER_MAX - s.divisor) % COUNTER_MAX]

\* Timers 3, 4 and 11
SetOther(r, s, out, ie) ==
    [r EXCEPT !.run = TRUE, !.out = out, !.ie = ie,
              !.by12 = s.by12, !.reload = (COUNTER_MAX - s.divisor) % COUNTER_MAX]

\* The byte of a prescaler
Scaled(r, t, s) == [r EXCEPT !.prescaler = IF HasPrescaler(t) THEN s.prescaler % PRESCALER_MAX ELSE 0]

\* startTimer.  The reload value has 16 bits, of which an STC12 keeps 8.  A
\* refusal changes nothing.
startTimer ==
    \E t \in TmrTimers, divisor \in TmrDivisors :
        LET s == Setting(t, divisor)
            r == Scaled(tmrRegs[t], t, s)
        IN  \/ s.status # "OK" /\ UNCHANGED <<tmrRegs, tmrAsked>>
            \/ /\ s.status = "OK"
               /\ \E out, ie, gated \in BOOLEAN :
                    tmrRegs' = [tmrRegs EXCEPT ![t] = CASE t \in {0, 1} -> SetGated(r, s, out, ie, gated)
                                                        [] t = 2 -> SetSecond(r, s, out, ie)
                                                        [] OTHER -> SetOther(r, s, out, ie)]
               /\ tmrAsked' = [tmrAsked EXCEPT ![t] = divisor]

\* stopTimer; it returns what the counter has reached
stopTimer ==
    \E t \in TmrTimers :
        /\ tmrRegs' = [tmrRegs EXCEPT ![t].run = FALSE, ![t].out = FALSE]
        /\ tmrAsked' = [tmrAsked EXCEPT ![t] = 0]

-----------------------------------------------------------------------------
(***************************************************************************)
(* getTimerPin: a timer's input and output, <<port, line>> each, by what   *)
(* the chip's header says: how many pins there are, which `lacks`, whether *)
(* timer 0 is `onP1`, whether timers 3 and 4 have a `switch`.              *)
(***************************************************************************)
NoPin  == << >>
NoPins == [input |-> NoPin, output |-> NoPin]
OnPins(port, input, output) == [input |-> <<port, input>>, output |-> <<port, output>>]

\* A slip, for mutation runs only: timer 1 as timer 0
SameForBoth(chip, t) == IF chip.family = 8 /\ chip.pins = 8 THEN OnPins(5, 4, 5) ELSE OnPins(3, 4, 5)

\* Timers 0 and 1, each with its output on the other's input
FirstPins(chip, t) ==
    CASE chip.family = 8 /\ chip.pins = 8 -> OnPins(5, 4 + t, 5 - t)
      [] chip.family = 15 /\ <<3, 4>> \in chip.lacks -> (IF chip.onP1 THEN OnPins(1, 2, 4) ELSE NoPins)
      [] OTHER -> OnPins(3, 4 + t, 5 - t)

SecondPins(chip) ==
    CASE chip.family = 12 -> [input |-> NoPin, output |-> <<1, 0>>]
      [] chip.family = 15 -> OnPins(3, 1, 0)
      [] chip.family = 8 /\ <<1, 2>> \in chip.lacks -> [input |-> <<5, 4>>, output |-> <<1, 3>>]
      [] chip.family = 8 /\ <<1, 3>> \in chip.lacks -> [input |-> <<1, 2>>, output |-> NoPin]
      [] OTHER -> OnPins(1, 2, 3)

\* Timers 3 and 4, n of 0 and 1
OtherPins(chip, n, switched) ==
    CASE chip.family = 15 -> (IF chip.pins > 32 THEN OnPins(0, 5 + 2 * n, 4 + 2 * n) ELSE NoPins)
      [] chip.switch /\ ~switched -> (IF chip.pins > 32 THEN OnPins(0, 4 + 2 * n, 5 + 2 * n) ELSE NoPins)
      [] OTHER -> OnPins(0, 2 * n, 2 * n + 1)

getTimerPin(chip, t, switched) ==
    CASE t \in {0, 1} -> FirstPins(chip, t)
      [] t = 2 -> SecondPins(chip)
      [] t \in {3, 4} -> OtherPins(chip, t - 3, switched)
      [] t = 11 -> OnPins(1, 4, 5)

TmrNext ==
    /\ tmrCalls < TmrCalls /\ tmrCalls' = tmrCalls + 1
    /\ startTimer \/ stopTimer
-----------------------------------------------------------------------------
\* The clocks between two overflows, by the registers
Period(r) == (IF r.by12 THEN 12 ELSE 1) * (r.prescaler + 1) * (COUNTER_MAX - r.reload)

\* The divisors, by the count that fits them, that startTimer does not round as
\* it means to: an even division that leaves too much to count, and a scale
\* that its byte cannot hold
Divider(divisor) == IF divisor \div COUNTER_MAX > PRESCALER_MAX THEN 12 ELSE 1
Fit(divisor)     == (divisor \div COUNTER_MAX) \div Divider(divisor)
Even(divisor)    == (divisor \div Divider(divisor)) % Fit(divisor) = 0
Misrounded(divisor) ==
    /\ divisor > COUNTER_MAX
    /\ IF Even(divisor) THEN divisor \div Divider(divisor) > COUNTER_MAX * Fit(divisor)
       ELSE Fit(divisor) >= PRESCALER_MAX

\* A running timer divides the clock by what was asked, short of it by less
\* than a step of its dividers: timers 0 and 1 by every divisor they accept,
\* one with a prescaler by all but those it misrounds.
DividesAsAsked ==
    \A t \in TmrTimers :
        LET asked == tmrAsked[t]
            step  == 12 * (tmrRegs[t].prescaler + 2)
        IN  /\ asked > 0 /\ ~(HasPrescaler(t) /\ Misrounded(asked)) =>
                  /\ Period(tmrRegs[t]) <= asked
                  /\ asked - Period(tmrRegs[t]) < (IF tmrRegs[t].by12 THEN step ELSE tmrRegs[t].prescaler + 1)
            /\ tmrRegs[t].run <=> asked > 0

\* Whatever position the switch of timers 3 and 4 is in, no two timers have an
\* input in common, nor an output, nor one on the other's, but timers 0 and 1; and
\* none is on a pin the chip lacks.
TimerPinsApart ==
    \A chip \in TmrChips, switched \in BOOLEAN :
        \A t \in chip.timers :
            LET pins == getTimerPin(chip, t, switched)
                others == {getTimerPin(chip, u, switched) : u \in chip.timers \ {t}}
            IN  /\ pins.input # NoPin => pins.input \notin {o.input : o \in others} \cup {pins.output}
                /\ pins.output # NoPin => pins.output \notin {o.output : o \in others}
                /\ t > 1 /\ pins.output # NoPin => pins.output \notin {o.input : o \in others}
                /\ {pins.input, pins.output} \cap chip.lacks = {}
=============================================================================
