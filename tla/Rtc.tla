-------------------------------- MODULE Rtc ---------------------------------
(***************************************************************************)
(* The real-time clock of the STC8H and the oscillators it and the CPU run *)
(* on: rtc-hal.c and sysclk-hal.c of uni-stc/hal.  A time is three         *)
(* registers, <<hour, minute, second>>, counted in RtcRadix instead of     *)
(* <<24, 60, 60>>.  The counter, its comparison with the alarm and the     *)
(* registers behind M_RTCSET are the chip's; the handler and the main loop *)
(* are the application's.                                                  *)
(***************************************************************************)
EXTENDS Integers, Sequences

CONSTANTS
    RtcRadix,        \* how many hours, minutes and seconds there are
    RtcTimes,        \* bound: the times the clock and the alarm are set to
    RtcInternal,     \* HAL_RTC_USE_RC_OSCILLATOR
    RtcCalls, RtcTicks   \* bounds: the calls made, and the seconds that go by

VARIABLES
    rtcOscillators, rtcSystem,   \* the oscillators that run, and the one the CPU runs on (CKSEL)
    rtcInternal, rtcRuns,        \* RTCCKS: counts the internal oscillator; RTCRUN
    rtcIni, rtcNow,              \* the registers INI* and the counters RTC*
    rtcAlarm, rtcAlarmOn,        \* ALAHOUR, ALAMIN, ALASEC; ALAIE
    rtcIF,                       \* ALAIF
    rtcHandling,                 \* rtcOnAlarm() is running
    rtcWriting,                  \* rtcAlarmSetTime under way: what it has left to write
    rtcSet, rtcElapsed,          \* history: what the clock was started from, and the seconds since
    rtcDue,                      \* history: the alarm's time came, and no rtcOnAlarm() began since
    rtcCalls                     \* bound: the calls so far

rtcVars == <<rtcOscillators, rtcSystem, rtcInternal, rtcRuns, rtcIni, rtcNow, rtcAlarm, rtcAlarmOn, rtcIF, rtcHandling,
             rtcWriting, rtcSet, rtcElapsed, rtcDue, rtcCalls>>

Oscillators == {"CLK_HIGH_SPEED_IRC", "CLK_HIGH_SPEED_XTAL", "CLK_32KHZ_XTAL", "CLK_32KHZ_IRC"}

SecondsOf(time) == (time[1] * RtcRadix[2] + time[2]) * RtcRadix[3] + time[3]
Day             == RtcRadix[1] * RtcRadix[2] * RtcRadix[3]
TimeAt(second)  == <<second \div (RtcRadix[2] * RtcRadix[3]), (second \div RtcRadix[3]) % RtcRadix[2], second % RtcRadix[3]>>
Later(time, n)  == TimeAt((SecondsOf(time) + n) % Day)

Midnight == <<0, 0, 0>>

RtcInit ==
    /\ rtcOscillators = {"CLK_HIGH_SPEED_IRC"} /\ rtcSystem = "CLK_HIGH_SPEED_IRC"
    /\ rtcInternal = FALSE /\ rtcRuns = FALSE
    /\ rtcIni = Midnight /\ rtcNow = Midnight /\ rtcAlarm = Midnight
    /\ rtcAlarmOn = FALSE /\ rtcIF = FALSE /\ rtcHandling = FALSE
    /\ rtcWriting = <<>>
    /\ rtcSet = Midnight /\ rtcElapsed = 0 /\ rtcDue = FALSE
    /\ rtcCalls = 0

\* A call is made by the program the chip runs, between two others.
RtcCall == rtcCalls < RtcCalls /\ rtcWriting = <<>> /\ rtcCalls' = rtcCalls + 1

-----------------------------------------------------------------------------
(***************************************************************************)
(* sysclk-hal.c: both calls wait until the oscillator does as it is told.  *)
(***************************************************************************)
OscillatorStarted(osc) == rtcOscillators \cup {osc}
OscillatorStopped(osc) == rtcOscillators \ {osc}

ClockUnchanged == UNCHANGED <<rtcInternal, rtcRuns, rtcIni, rtcNow, rtcSet, rtcElapsed>>
AlarmUnchanged == UNCHANGED <<rtcAlarm, rtcAlarmOn, rtcIF, rtcHandling, rtcWriting, rtcDue>>

clkStartOscillator ==
    /\ RtcCall
    /\ \E osc \in Oscillators : rtcOscillators' = OscillatorStarted(osc)
    /\ UNCHANGED rtcSystem /\ ClockUnchanged /\ AlarmUnchanged

\* Nobody stops what he runs on.
clkStopOscillator ==
    /\ RtcCall
    /\ \E osc \in rtcOscillators \ {rtcSystem} :
          /\ rtcRuns => osc # (IF rtcInternal THEN "CLK_32KHZ_IRC" ELSE "CLK_32KHZ_XTAL")
          /\ rtcOscillators' = OscillatorStopped(osc)
    /\ UNCHANGED rtcSystem /\ ClockUnchanged /\ AlarmUnchanged

\* "The oscillator must be started before" (sysclk-hal.h:68).
clkSelectOscillator ==
    /\ RtcCall
    /\ rtcSystem' \in rtcOscillators
    /\ UNCHANGED rtcOscillators /\ ClockUnchanged /\ AlarmUnchanged

-----------------------------------------------------------------------------
(***************************************************************************)
(* rtc-hal.c.                                                              *)
(***************************************************************************)
rtcClockSetTime ==
    /\ RtcCall
    /\ rtcIni' \in RtcTimes
    /\ UNCHANGED <<rtcOscillators, rtcSystem, rtcInternal, rtcRuns, rtcNow, rtcSet, rtcElapsed>> /\ AlarmUnchanged

\* A slip, for mutation runs only: the crystal is started, whichever is counted.
CrystalStarted == "CLK_32KHZ_XTAL"

SourceStarted == IF RtcInternal THEN "CLK_32KHZ_IRC" ELSE "CLK_32KHZ_XTAL"

\* A slip, for mutation runs only: the counters go on from where they were.
TimeNotLoaded == rtcNow

TimeLoaded == rtcIni

rtcClockEnable ==
    /\ RtcCall
    /\ rtcOscillators' = OscillatorStarted(SourceStarted)
    /\ rtcInternal' = RtcInternal
    /\ rtcNow' = TimeLoaded
    /\ rtcRuns' = TRUE
    /\ rtcSet' = rtcIni /\ rtcElapsed' = 0
    /\ UNCHANGED <<rtcSystem, rtcIni>> /\ AlarmUnchanged

\* A second goes by; the counters are compared with the alarm as they change.
RtcTick ==
    /\ rtcRuns /\ rtcElapsed < RtcTicks
    /\ rtcNow' = Later(rtcNow, 1)
    /\ rtcElapsed' = rtcElapsed + 1
    /\ IF rtcNow' = rtcAlarm THEN rtcIF' = TRUE /\ rtcDue' = TRUE ELSE UNCHANGED <<rtcIF, rtcDue>>
    /\ UNCHANGED <<rtcOscillators, rtcSystem, rtcInternal, rtcRuns, rtcIni, rtcSet, rtcAlarm, rtcAlarmOn, rtcHandling,
                   rtcWriting, rtcCalls>>

\* rtcClockGetHour, -Minute and -Second: one register each
rtcClockGet(part) == rtcNow[part]

\* rtcAlarmSetTime writes the three registers in turn.
rtcAlarmSetTime ==
    /\ RtcCall
    /\ rtcWriting' \in RtcTimes
    /\ UNCHANGED <<rtcOscillators, rtcSystem>> /\ ClockUnchanged
    /\ UNCHANGED <<rtcAlarm, rtcAlarmOn, rtcIF, rtcHandling, rtcDue>>

AlarmRegisterWritten ==
    /\ rtcWriting # <<>>
    /\ rtcAlarm' = [rtcAlarm EXCEPT ![4 - Len(rtcWriting)] = Head(rtcWriting)]
    /\ rtcWriting' = Tail(rtcWriting)
    /\ UNCHANGED <<rtcOscillators, rtcSystem, rtcAlarmOn, rtcIF, rtcHandling, rtcDue, rtcCalls>>
    /\ ClockUnchanged

rtcAlarmEnable ==
    /\ RtcCall
    /\ rtcAlarmOn' = TRUE
    /\ UNCHANGED <<rtcOscillators, rtcSystem, rtcWriting, rtcAlarm, rtcIF, rtcHandling, rtcDue>> /\ ClockUnchanged

rtcAlarmDisable ==
    /\ RtcCall
    /\ rtcAlarmOn' = FALSE
    /\ UNCHANGED <<rtcOscillators, rtcSystem, rtcWriting, rtcAlarm, rtcIF, rtcHandling, rtcDue>> /\ ClockUnchanged

\* A slip, for mutation runs only: the flag is cleared when the handler is back.
FlagClearedLate == [before |-> FALSE, after |-> TRUE]

FlagCleared == [before |-> TRUE, after |-> FALSE]

\* rtc_isr: the flag is cleared, then the application's handler runs, for as long
\* as it takes.
rtc_isr ==
    /\ rtcAlarmOn /\ rtcIF /\ ~rtcHandling
    /\ rtcHandling' = TRUE /\ rtcDue' = FALSE
    /\ rtcIF' = ~FlagCleared.before
    /\ UNCHANGED <<rtcOscillators, rtcSystem, rtcWriting, rtcAlarm, rtcAlarmOn, rtcCalls>> /\ ClockUnchanged

AlarmHandled ==
    /\ rtcHandling
    /\ rtcHandling' = FALSE
    /\ rtcIF' = (rtcIF /\ ~FlagCleared.after)
    /\ UNCHANGED <<rtcOscillators, rtcSystem, rtcWriting, rtcAlarm, rtcAlarmOn, rtcDue, rtcCalls>> /\ ClockUnchanged

RtcNext ==
    \/ clkStartOscillator \/ clkStopOscillator \/ clkSelectOscillator
    \/ rtcClockSetTime \/ rtcClockEnable \/ RtcTick
    \/ rtcAlarmSetTime \/ AlarmRegisterWritten \/ rtcAlarmEnable \/ rtcAlarmDisable
    \/ rtc_isr \/ AlarmHandled
-----------------------------------------------------------------------------
\* The clock tells the time it was started from and the seconds since, and what
\* it counts and what the CPU runs on is there to be counted.
ClockTells ==
    /\ rtcRuns => \A part \in 1 .. 3 : rtcClockGet(part) = Later(rtcSet, rtcElapsed)[part]
    /\ rtcRuns => (IF rtcInternal THEN "CLK_32KHZ_IRC" ELSE "CLK_32KHZ_XTAL") \in rtcOscillators
    /\ rtcSystem \in rtcOscillators

\* An alarm whose time has come stays to be told until its handler began, an
\* alarm that was set by the handler and comes while it runs included.
AlarmNotLost == rtcDue => rtcIF

ClockKept == ClockTells /\ AlarmNotLost
=============================================================================
