-------------------------------- MODULE Pca --------------------------------
(***************************************************************************)
(* uni-stc/hal/pca-hal.c: a counter array whose channels capture pulses,   *)
(* time periods or output PWM, its calls and its interrupt.  The channels  *)
(* share the counter and the interrupt.                                    *)
(*                                                                         *)
(* _channelData[c] is a union: a capture reads it as 32 bits, a timer as   *)
(* its value (low half) and its period (high half).                        *)
(***************************************************************************)
EXTENDS Integers, AdvPwm

CONSTANTS
    PcaScale,    \* 2^16
    PcaByte,     \* 2^8, PcaScale's square root
    PcaUse,      \* [channel -> "capture", "timer" or "pwm"], how the
                 \* application uses each
    PcaShifts,   \* bound: the shiftBits it asks for
    PcaPeriod,   \* the period it asks for
    PcaDuties,   \* bound: the duty cycles it asks for, [bits, high]
    PcaTicks,    \* bound: ticks of the counter in a behaviour
    PcaStarts    \* bound: starts and stops of a channel in a behaviour

VARIABLES
    pcaNow,       \* ticks since the start of the behaviour
    pcaCtr,       \* PCA_CTR
    pcaCf,        \* CF
    pcaFlags,     \* the channels whose CCIF is set
    pcaOn,        \* the channels whose CCAPM is not 0
    pcaCcap,      \* CCAPn
    pcaReload,    \* of a PWM channel: [bits, value], its reload
    pcaOver,      \* _overflowCounter
    pcaData,      \* _channelData, [lo, hi]
    pcaMode,      \* _channelConfig[c].mode
    pcaShot,      \* _channelConfig[c].settings.capture, [one, shift]
    pcaReport,    \* what pcaOnInterrupt was last given
    pcaStarted,   \* starts and stops so far
    pcaEdge,      \* history: per channel, when its pin moved last and whether
                  \* a wrap has been pending with that edge
    pcaPrev,      \* history: per channel, the edge reported before
    pcaTrue,      \* history: what the last report ought to say; -1 if nothing
    pcaMatch      \* history: per timer, its last match and the gap before it

pcaVars == <<pcaNow, pcaCtr, pcaCf, pcaFlags, pcaOn, pcaCcap, pcaReload, pcaOver, pcaData, pcaMode, pcaShot,
             pcaReport, pcaStarted, pcaEdge, pcaPrev, pcaTrue, pcaMatch>>

PcaChannel == DOMAIN PcaUse

ASSUME PcaAssumption ==
    /\ PcaByte \in Nat \ {0} /\ PcaScale = PcaByte * PcaByte
    /\ PcaChannel \subseteq 0 .. 3
    /\ PcaShifts \subseteq 0 .. 31
    /\ PcaPeriod \in 0 .. PcaScale - 1

NoEdge  == [at |-> -1, skew |-> TRUE]
NoMatch == [at |-> -1, gap |-> -1]

PcaInit ==
    /\ pcaNow = 0 /\ pcaCtr = 0 /\ pcaCf = FALSE /\ pcaFlags = {} /\ pcaOn = {}
    /\ pcaCcap = [c \in PcaChannel |-> 0]
    /\ pcaReload = [c \in PcaChannel |-> [bits |-> 8, value |-> 256, asked |-> 0]]
    /\ pcaOver = [c \in PcaChannel |-> 0]
    /\ pcaData = [c \in PcaChannel |-> [lo |-> 0, hi |-> 0]]
    /\ pcaMode = [c \in PcaChannel |-> "UNUSED"]
    /\ pcaShot = [c \in PcaChannel |-> [one |-> FALSE, shift |-> 0]]
    /\ pcaReport = [channel |-> -1, width |-> 0]
    /\ pcaStarted = 0
    /\ pcaEdge = [c \in PcaChannel |-> NoEdge]
    /\ pcaPrev = [c \in PcaChannel |-> NoEdge]
    /\ pcaTrue = -1
    /\ pcaMatch = [c \in PcaChannel |-> NoMatch]

PcaStart == pcaStarted < PcaStarts /\ pcaStarted' = pcaStarted + 1

\* pcaStartCapture: it stops and zeroes the counter all channels use, so what
\* they timed before is lost.
pcaStartCapture ==
    /\ PcaStart
    /\ \E c \in PcaChannel, one \in BOOLEAN, shift \in PcaShifts :
          /\ PcaUse[c] = "capture"
          /\ pcaOver' = [pcaOver EXCEPT ![c] = 0]
          /\ pcaData' = [pcaData EXCEPT ![c] = [lo |-> 0, hi |-> 0]]
          /\ pcaShot' = [pcaShot EXCEPT ![c] = [one |-> one, shift |-> shift]]
          /\ pcaMode' = [pcaMode EXCEPT ![c] = "CAPTURE"]
          /\ pcaOn' = pcaOn \cup {c}
          /\ pcaCcap' = [pcaCcap EXCEPT ![c] = 0]
          /\ pcaPrev' = [d \in PcaChannel |-> IF d = c THEN [at |-> pcaNow, skew |-> pcaCf \/ c \in pcaFlags] ELSE NoEdge]
    /\ pcaCtr' = 0
    /\ pcaEdge' = [c \in PcaChannel |-> NoEdge]
    /\ pcaMatch' = [c \in PcaChannel |-> NoMatch]
    /\ UNCHANGED <<pcaNow, pcaCf, pcaFlags, pcaReload, pcaReport, pcaTrue>>

\* pcaStartTimer, with or without an output
pcaStartTimer ==
    /\ PcaStart
    /\ \E c \in PcaChannel :
          /\ PcaUse[c] = "timer"
          /\ pcaData' = [pcaData EXCEPT ![c] = [lo |-> PcaPeriod, hi |-> PcaPeriod]]
          /\ pcaMode' = [pcaMode EXCEPT ![c] = "TIMER"]
          /\ pcaOn' = pcaOn \cup {c}
          /\ pcaCcap' = [pcaCcap EXCEPT ![c] = PcaPeriod]
          /\ pcaMatch' = [pcaMatch EXCEPT ![c] = NoMatch]
    /\ UNCHANGED <<pcaNow, pcaCtr, pcaCf, pcaFlags, pcaReload, pcaOver, pcaShot, pcaReport, pcaEdge, pcaPrev, pcaTrue>>

\* pcaStopChannel and the mode that pcaStartCounter gives every channel: the
\* first leaves the mode, the second leaves CCAPM.
pcaStopChannel ==
    /\ PcaStart
    /\ \E c \in pcaOn : pcaOn' = pcaOn \ {c} /\ pcaMatch' = [pcaMatch EXCEPT ![c] = NoMatch]
    /\ UNCHANGED <<pcaNow, pcaCtr, pcaCf, pcaFlags, pcaCcap, pcaReload, pcaOver, pcaData, pcaMode, pcaShot,
                   pcaReport, pcaEdge, pcaPrev, pcaTrue>>

pcaStartCounter ==
    /\ PcaStart
    /\ pcaMode' = [c \in PcaChannel |-> "UNUSED"]
    /\ pcaCtr' = 0 /\ pcaCf' = FALSE /\ pcaFlags' = {}
    /\ pcaEdge' = [c \in PcaChannel |-> NoEdge]
    /\ pcaPrev' = [c \in PcaChannel |-> NoEdge]
    /\ pcaMatch' = [c \in PcaChannel |-> NoMatch]
    /\ UNCHANGED <<pcaNow, pcaOn, pcaCcap, pcaReload, pcaOver, pcaData, pcaShot, pcaReport, pcaTrue>>

-----------------------------------------------------------------------------
\* _configurePWM.  The macro that guards the cases of 6 and 7 bits is defined
\* nowhere, so their maximum is 0.
MaxValue(bits) == CASE bits = 8 -> 256 [] bits = 10 -> 1024 [] OTHER -> 0

\* A slip, for mutation runs only: a duty cycle that may reach the maximum.
ReloadFull(bits, high) ==
    MaxValue(bits) - (IF high >= MaxValue(bits) THEN MaxValue(bits) ELSE high)

Reload(bits, high) ==
    MaxValue(bits) - (IF high >= MaxValue(bits) THEN MaxValue(bits) - 1 ELSE high)

\* pcaStartPwm, and pcaSetDutyCycle with the bits it was started with
pcaDutyCycle ==
    /\ PcaStart
    /\ \E c \in PcaChannel, d \in PcaDuties :
          LET bits == IF c \in pcaOn THEN pcaReload[c].bits ELSE d.bits
          IN  /\ PcaUse[c] = "pwm"
              /\ pcaOn' = pcaOn \cup {c}
              /\ pcaMode' = [pcaMode EXCEPT ![c] = "PWM"]
              /\ pcaReload' = [pcaReload EXCEPT ![c] = [bits |-> bits, value |-> Reload(bits, d.high), asked |-> d.high]]
    /\ UNCHANGED <<pcaNow, pcaCtr, pcaCf, pcaFlags, pcaCcap, pcaOver, pcaData, pcaShot,
                   pcaReport, pcaEdge, pcaPrev, pcaTrue, pcaMatch>>

-----------------------------------------------------------------------------
\* The counter, in hardware: a timer whose value it reaches raises its flag.
PcaTick ==
    /\ pcaNow < PcaTicks
    /\ pcaNow' = pcaNow + 1
    /\ pcaCtr' = (pcaCtr + 1) % PcaScale
    /\ pcaCf' = (pcaCf \/ pcaCtr' = 0)
    /\ LET hit == {c \in pcaOn : PcaUse[c] = "timer" /\ pcaCcap[c] = pcaCtr'}
       IN  /\ pcaFlags' = pcaFlags \cup hit
           /\ pcaMatch' = [c \in PcaChannel |->
                             IF c \notin hit THEN pcaMatch[c]
                             ELSE [at |-> pcaNow', gap |-> IF pcaMatch[c].at = -1 \/ c \in pcaFlags THEN -1
                                                           ELSE pcaNow' - pcaMatch[c].at]]
    /\ pcaEdge' = [c \in PcaChannel |->
                     IF c \in pcaFlags /\ pcaCtr' = 0 THEN [at |-> pcaEdge[c].at, skew |-> TRUE] ELSE pcaEdge[c]]
    /\ pcaPrev' = IF pcaCf /\ pcaCtr' = 0 THEN [c \in PcaChannel |-> NoEdge] ELSE pcaPrev
    /\ UNCHANGED <<pcaOn, pcaCcap, pcaReload, pcaOver, pcaData, pcaMode, pcaShot, pcaReport, pcaStarted, pcaTrue>>

PcaEdgeComes ==
    /\ \E c \in pcaOn :
          /\ PcaUse[c] = "capture"
          /\ pcaFlags' = pcaFlags \cup {c}
          /\ pcaCcap' = [pcaCcap EXCEPT ![c] = pcaCtr]
          /\ pcaEdge' = [pcaEdge EXCEPT ![c] = [at |-> pcaNow, skew |-> FALSE]]
    /\ UNCHANGED <<pcaNow, pcaCtr, pcaCf, pcaOn, pcaReload, pcaOver, pcaData, pcaMode, pcaShot,
                   pcaReport, pcaStarted, pcaPrev, pcaTrue, pcaMatch>>

-----------------------------------------------------------------------------
\* The value a capture works with, and the duration it makes of a width
Count32(data) == data.hi * PcaScale + data.lo
Duration(new, old, shift) ==
    LET width == ((Count32(new) - Count32(old)) % (PcaScale * PcaScale)) \div 2^shift
    IN  IF (width \div PcaScale) % PcaByte # 0 THEN PcaScale - 1 ELSE width % PcaScale

\* History: the duration of a pulse of so many ticks; none if it lasted as long
\* as the overflow counter counts, or is shifted and that counter wrapped
PulseWidth(ticks, shift, wrapped) ==
    IF ticks >= PcaScale * PcaByte \/ (shift > 0 /\ wrapped) THEN -1
    ELSE IF ticks \div 2^shift >= PcaScale THEN PcaScale - 1 ELSE ticks \div 2^shift

PcaHighest(channels) == CHOOSE c \in channels : \A d \in channels : d <= c

\* A slip, for mutation runs only: a timer that adds to what the counter shows.
NextValueLate(c) == (pcaCtr + pcaData[c].hi) % PcaScale

NextValue(c) == (pcaData[c].lo + pcaData[c].hi) % PcaScale

\* A slip, for mutation runs only: overflows that are not counted.
OverflowsNot == pcaOver

Overflows == [c \in PcaChannel |-> IF pcaCf THEN (pcaOver[c] + 1) % PcaByte ELSE pcaOver[c]]

\* pca_isr.  `channel` ends as the last flagged, `isCapture` and `ccap` as
\* those of the last flagged that captures, if one does.
PcaIsr ==
    LET captures == {c \in pcaFlags : pcaMode[c] = "CAPTURE"}
        timers   == {c \in pcaFlags : pcaMode[c] = "TIMER"}
        oneShots == {c \in captures : pcaShot[c].one}
        stepped  == [c \in PcaChannel |-> IF c \in timers THEN [pcaData[c] EXCEPT !.lo = NextValue(c)] ELSE pcaData[c]]
    IN  /\ pcaCf \/ pcaFlags # {}
        /\ pcaCf' = FALSE /\ pcaFlags' = {}
        /\ pcaOver' = Overflows
        /\ pcaOn' = pcaOn \ oneShots
        /\ pcaMode' = [c \in PcaChannel |-> IF c \in oneShots THEN "UNUSED" ELSE pcaMode[c]]
        /\ pcaCcap' = [c \in PcaChannel |-> IF c \in timers THEN stepped[c].lo ELSE pcaCcap[c]]
        /\ IF pcaFlags = {} THEN UNCHANGED <<pcaData, pcaReport, pcaPrev, pcaTrue>>
           ELSE LET channel == PcaHighest(pcaFlags)
                    new == [lo |-> pcaCcap[PcaHighest(captures)], hi |-> pcaOver'[channel]]
                IN  IF captures = {}
                    THEN /\ pcaReport' = [channel |-> channel, width |-> 0]
                         /\ pcaData' = stepped
                         /\ pcaTrue' = -1
                         /\ UNCHANGED pcaPrev
                    ELSE /\ pcaReport' = [channel |-> channel,
                                          width |-> Duration(new, stepped[channel], pcaShot[channel].shift)]
                         /\ pcaData' = [stepped EXCEPT ![channel] = new]
                         /\ pcaPrev' = [pcaPrev EXCEPT ![channel] = pcaEdge[channel]]
                         /\ pcaTrue' = IF pcaPrev[channel].skew \/ pcaEdge[channel].skew \/ pcaMode[channel] # "CAPTURE"
                                       THEN -1 ELSE PulseWidth(pcaEdge[channel].at - pcaPrev[channel].at, pcaShot[channel].shift,
                                                  Count32(new) < Count32(stepped[channel]))
        /\ UNCHANGED <<pcaNow, pcaCtr, pcaReload, pcaShot, pcaStarted, pcaEdge, pcaMatch>>

PcaNext ==
    \/ pcaStartCounter \/ pcaStartCapture \/ pcaStartTimer \/ pcaStopChannel \/ pcaDutyCycle
    \/ PcaTick \/ PcaEdgeComes \/ PcaIsr

PcaSpec == PcaInit /\ [][PcaNext]_pcaVars
-----------------------------------------------------------------------------
\* A pulse is reported with its width, shifted, or 0xffff when that is too
\* long, whatever the other channels do.  The exceptions: the counter wrapped
\* between one of its edges and the interrupt, or twice before one; another
\* capture was started meanwhile; the pulse lasted as long as the byte that
\* counts the wraps, or is shifted and met the wrap of that byte.
PulseWidths == pcaTrue # -1 => pcaReport.width = pcaTrue

\* What a capture reports is the time that went by, on the engine with a counter
\* to two inputs and on the one whose counter all its channels share
\* (advpwm-hal.c, the handlers; pca-hal.c, the handler).
CapturesAsElapsed == CapturesElapsed /\ PulseWidths

\* A timer's interrupts are its period apart, whenever the handler ran in
\* between and however late.
TimersOnTime ==
    \A c \in PcaChannel :
        pcaMatch[c].gap # -1 /\ pcaMode[c] = "TIMER" => (pcaMatch[c].gap - PcaPeriod) % PcaScale = 0

\* The output is high for the clocks asked for, short of all of them; asked
\* for none, it is high for good, and so it nearly is with 6 or 7 bits.
HighClocks(r) == LET full == 2^r.bits IN full - (r.value % full)
DutyAsAsked ==
    \A c \in PcaChannel :
        PcaUse[c] = "pwm" /\ c \in pcaOn =>
            LET r == pcaReload[c]
                full == 2^r.bits
            IN  HighClocks(r) = CASE r.bits \in {6, 7} -> full - 1
                                  [] r.bits \notin {6, 7} /\ r.asked = 0 -> full
                                  [] r.bits \notin {6, 7} /\ r.asked # 0 -> IF r.asked < full THEN r.asked ELSE full - 1
=============================================================================
