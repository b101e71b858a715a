------------------------------ MODULE AdcComp ------------------------------
(***************************************************************************)
(* uni-stc/hal/adc-comp-hal.c: the converter, whose one register holds its *)
(* power, the channel, the order to start and the flag of a result, and    *)
(* the comparator, which may watch the converter's channel.  The converter *)
(* itself, the PWM that may trigger it and the application's interrupt     *)
(* handler are external.  Callers start a conversion when the one before   *)
(* has been read.                                                          *)
(***************************************************************************)
EXTENDS Pins

CONSTANTS
    AdcChannels,   \* bound: the channels converted
    AdcClocks,     \* bound: [freq, cycles, max] of the chip, in one unit
    AdcCalls       \* bound: the calls made

VARIABLES
    adcPower, adcChs, adcStart, adcFlag, adcTrigger,   \* ADC_CONTR
    adcSpeed,     \* the ADC_SPEED field
    adcIE,        \* ADCIE
    adcRight,     \* _rightAligned and RESFMT
    adcRes,       \* the sample in ADC_RES, [channel, right], or NoSample
    adcWaiting,   \* adcBlockingRead is in its loop
    adcAsked,     \* the application's: the channel it waits for, or NoChannel
    adcClock, cmp, cmpFlag,
    adcGot,       \* history: what was read last, [asked, got, width], or NoSample
    adcCalls      \* bound: the calls so far

contrVars == <<adcPower, adcChs, adcStart, adcFlag, adcTrigger>>
setupVars == <<adcSpeed, adcIE, adcRight, adcClock>>
cmpVars   == <<cmp, cmpFlag>>
adcVars   == <<contrVars, setupVars, adcRes, adcWaiting, adcAsked, cmpVars, adcGot, adcCalls>>

NoSample  == [channel |-> -1]
NoChannel == -1
NoCmp     == [positive |-> 0, negative |-> 0, hysteresis |-> 0, invert |-> FALSE, output |-> FALSE, filter |-> 0, edge |-> 0]

AdcInit ==
    /\ adcPower = FALSE /\ adcChs = 0 /\ adcStart = FALSE /\ adcFlag = FALSE /\ adcTrigger = FALSE
    /\ adcSpeed = 0 /\ adcIE = FALSE /\ adcRight = FALSE
    /\ adcClock \in AdcClocks
    /\ adcRes = NoSample /\ adcWaiting = FALSE /\ adcAsked = NoChannel
    /\ cmp = NoCmp /\ cmpFlag = FALSE
    /\ adcGot = NoSample /\ adcCalls = 0

-----------------------------------------------------------------------------
\* SPEED of the other families with the ADC_CYCLES they have unless told
\* otherwise, and SPEED and ADJ_SPEED of family 8
SPEED == 3

Speed(clock) == ((clock.freq \div 2) \div clock.cycles) \div clock.max
\* A slip, for mutation runs only: one step too fast.
AdjSpeedFast(clock) ==
    CASE Speed(clock) >= 16 -> 15 [] Speed(clock) \in 2 .. 15 -> Speed(clock) - 2 [] OTHER -> 0

AdjSpeed(clock) ==
    CASE Speed(clock) >= 16 -> 15 [] Speed(clock) \in 1 .. 15 -> Speed(clock) - 1 [] OTHER -> 0

\* _adcClearResult
Cleared == IF pinChip.family = 8 THEN adcRes ELSE NoSample

\* adcReadResult
Result == [asked |-> adcAsked, got |-> adcRes.channel, width |-> IF adcRight THEN "full" ELSE "high"]

\* The application has what it waited for, but for a trigger that goes on.
Noted == adcGot' = Result /\ adcAsked' = IF adcTrigger THEN adcAsked ELSE NoChannel

\* A slip, for mutation runs only: the flag left set after a read.
FetchedKept == Noted /\ UNCHANGED adcFlag

\* ADC_CONTR &= ~M_ADCIF, and the read
Fetched == Noted /\ adcFlag' = FALSE

AdcCall == adcCalls < AdcCalls /\ adcCalls' = adcCalls + 1 /\ ~adcWaiting

\* The application waits for nothing.
Settled == adcPower /\ adcAsked = NoChannel

-----------------------------------------------------------------------------
\* adcInitialise: the register is written whole; the interrupt is enabled, and
\* stays so whatever a later call says.
adcInitialise ==
    /\ AdcCall
    /\ \E right, ie \in BOOLEAN : adcRight' = right /\ adcIE' = (adcIE \/ ie)
    /\ adcSpeed' = IF pinChip.family = 8 THEN AdjSpeed(adcClock) ELSE SPEED
    /\ adcPower' = TRUE /\ adcChs' = 0 /\ adcStart' = FALSE /\ adcFlag' = FALSE /\ adcTrigger' = FALSE
    /\ adcAsked' = NoChannel
    /\ UNCHANGED <<adcClock, adcRes, adcWaiting, cmpVars, adcGot, pinVars>>

adcPowerOn ==
    /\ AdcCall
    /\ adcPower' = TRUE
    /\ UNCHANGED <<adcChs, adcStart, adcFlag, adcTrigger, setupVars, adcRes, adcWaiting, adcAsked, cmpVars, adcGot, pinVars>>

adcPowerOff ==
    /\ AdcCall /\ ~adcStart
    /\ adcPower' = FALSE
    /\ UNCHANGED <<adcChs, adcStart, adcFlag, adcTrigger, setupVars, adcRes, adcWaiting, adcAsked, cmpVars, adcGot, pinVars>>

\* adcStartConversion, for an application with an interrupt handler
adcStartConversion ==
    /\ AdcCall /\ Settled /\ adcIE
    /\ \E channel \in AdcChannels : adcChs' = channel /\ adcAsked' = channel
    /\ adcRes' = Cleared
    /\ adcStart' = TRUE
    /\ UNCHANGED <<adcPower, adcFlag, adcTrigger, setupVars, adcWaiting, cmpVars, adcGot, pinVars>>

\* adcPwmTriggered, likewise
adcPwmTriggered ==
    /\ AdcCall /\ Settled /\ adcIE /\ pinChip.family = 8
    /\ \E channel \in AdcChannels : adcChs' = channel /\ adcAsked' = channel
    /\ adcTrigger' = TRUE
    /\ UNCHANGED <<adcPower, adcStart, adcFlag, setupVars, adcRes, adcWaiting, cmpVars, adcGot, pinVars>>

\* adcBlockingRead, for one without: up to its loop, and from there
adcBlockingRead ==
    /\ AdcCall /\ Settled /\ ~adcIE
    /\ \E channel \in AdcChannels : adcChs' = channel /\ adcAsked' = channel
    /\ adcRes' = Cleared
    /\ adcStart' = TRUE /\ adcWaiting' = TRUE
    /\ UNCHANGED <<adcPower, adcFlag, adcTrigger, setupVars, cmpVars, adcGot, pinVars>>

adcBlockingReadEnds ==
    /\ adcWaiting /\ adcFlag
    /\ Fetched
    /\ adcWaiting' = FALSE
    /\ UNCHANGED <<adcPower, adcChs, adcStart, adcTrigger, setupVars, adcRes, cmpVars, adcCalls, pinVars>>

\* The application's interrupt handler reads and clears the flag as the loop does.
adcIsr ==
    /\ adcIE /\ adcFlag /\ ~adcWaiting
    /\ Fetched
    /\ UNCHANGED <<adcPower, adcChs, adcStart, adcTrigger, setupVars, adcRes, adcWaiting, cmpVars, adcCalls, pinVars>>

\* The PWM starts a conversion, and the converter ends one.
PwmTriggers ==
    /\ adcPower /\ adcTrigger /\ ~adcStart /\ ~adcFlag
    /\ adcStart' = TRUE
    /\ UNCHANGED <<adcPower, adcChs, adcFlag, adcTrigger, setupVars, adcRes, adcWaiting, adcAsked, cmpVars, adcGot, adcCalls, pinVars>>

Converts ==
    /\ adcPower /\ adcStart
    /\ adcRes' = [channel |-> adcChs]
    /\ adcFlag' = TRUE /\ adcStart' = FALSE
    /\ UNCHANGED <<adcPower, adcChs, adcTrigger, setupVars, adcWaiting, adcAsked, cmpVars, adcGot, adcCalls, pinVars>>

\* compInitialise; with the ADC's channel for its input it turns the converter
\* on, and to that channel: a converter that the PWM is to trigger would convert
\* the wrong one, so a caller sets the comparator up when nothing is to convert.
POSITIVE_INPUT_ADC_IN == 3

compInitialise ==
    /\ AdcCall /\ ~adcStart /\ ~adcTrigger /\ pinChip.family = 8
    /\ \E positive \in {0, POSITIVE_INPUT_ADC_IN}, channel \in AdcChannels, output \in {0, 2, 3}, filter \in {0, 70} :
          /\ cmp' = [positive |-> positive % 2, negative |-> 1, hysteresis |-> 0, invert |-> output % 2 = 1,
                     output |-> output # 0, filter |-> filter % 64, edge |-> 3]
          /\ IF positive = POSITIVE_INPUT_ADC_IN
             THEN /\ adcPower' = TRUE
                  /\ adcChs' = channel
                  /\ pinRegs' = SetUp(IF channel \in DOMAIN AdcPins(pinChip)
                                      THEN <<AnalogInput(AdcPins(pinChip)[channel])>> ELSE << >>)
             ELSE UNCHANGED <<adcPower, adcChs, pinRegs>>
    /\ cmpFlag' = FALSE
    /\ UNCHANGED <<adcStart, adcFlag, adcTrigger, setupVars, adcRes, adcWaiting, adcAsked, adcGot,
                   pinChip, pSw1, pSw2, pcaPinSwitch, pinTold, pinRouted, pinCalls>>

\* The comparator's output changes, and compRead tells it.
CmpChanges ==
    /\ cmp.edge # 0 /\ ~cmpFlag
    /\ cmpFlag' = TRUE
    /\ UNCHANGED <<contrVars, setupVars, adcRes, adcWaiting, adcAsked, cmp, adcGot, adcCalls, pinVars>>

compRead ==
    /\ AdcCall
    /\ cmpFlag' = FALSE
    /\ UNCHANGED <<contrVars, setupVars, adcRes, adcWaiting, adcAsked, cmp, adcGot, pinVars>>

AdcNext ==
    \/ adcInitialise \/ adcPowerOn \/ adcPowerOff
    \/ adcStartConversion \/ adcPwmTriggered \/ adcBlockingRead \/ adcBlockingReadEnds
    \/ adcIsr \/ PwmTriggers \/ Converts
    \/ compInitialise \/ CmpChanges \/ compRead
-----------------------------------------------------------------------------
\* What is read is the sample of the channel that was asked for last, however it
\* was asked for, and an interrupted or blocking reader never gets the one before.
ReadsWhatWasAsked == adcGot # NoSample => adcGot.got = adcGot.asked

\* A reader that waits is told: nothing else takes the flag it waits for.
WaitsForOne == adcWaiting => adcPower /\ (adcStart # adcFlag)

\* The converter runs at less than twice the highest sample rate (the divisor is
\* rounded down although it is to "stay below ADC_MAX_SAMPLE_RATE").
SpeedBounded ==
    Speed(adcClock) < 16
        => adcClock.freq < 2 * (2 * adcClock.cycles * adcClock.max * (AdjSpeed(adcClock) + 1))
=============================================================================
