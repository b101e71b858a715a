------------------------------- MODULE EnhPwm -------------------------------
(***************************************************************************)
(* uni-stc/hal/enhpwm-hal.c: the enhanced PWM of four kinds of MCU behind  *)
(* one set of calls.  On the STC15 the initial levels and the enabling of  *)
(* the channels are bits of registers they share, and a lock is emulated;  *)
(* on the others each channel has its own control and hold registers.      *)
(***************************************************************************)
EXTENDS Integers, AdvPwm

CONSTANTS
    EnhCalls    \* bound: calls in a behaviour

ENH_COUNTER_MAX == 32767

VARIABLES
    enhKind,     \* the MCU: STC15, STC8A, STC8AD or STC8G2K
    enhSwitch,   \* _pinSwitchAndMode
    enhPin,      \* the pin each channel's mode was last given to
    enhCr,       \* PWMxxCR, per channel
    enhHold,     \* PWMxxHLD, per channel
    enhFlip,     \* PWMxxT1 and PWMxxT2, per channel
    enhPwmcr,    \* PWMCR on the STC15: the channels enabled
    enhPwmcfg,   \* PWMCFG on the STC15: the channels that start high
    enhCounter,  \* the counter: is it running, with its interrupt, fault detection
    enhAsked,    \* history: per channel, what its outputs ought to be
    enhHigh,     \* history: the channels ever started or locked high
    enhLeft      \* calls left

enhVars == <<enhKind, enhSwitch, enhPin, enhCr, enhHold, enhFlip, enhPwmcr, enhPwmcfg, enhCounter,
             enhAsked, enhHigh, enhLeft>>

EnhChannel == IF enhKind = "STC15" THEN 0 .. 5 ELSE 0 .. 7

\* _pinConfigurations
EnhPins(kind) ==
    CASE kind = "STC15" -> << << <<3, 7>>, <<2, 1>>, <<2, 2>>, <<2, 3>>, <<1, 6>>, <<1, 7>> >>,
                              << <<2, 7>>, <<4, 5>>, <<4, 4>>, <<4, 2>>, <<0, 7>>, <<0, 6>> >> >>
      [] kind \in {"STC8A", "STC8AD"} -> << [c \in 1 .. 8 |-> <<2, c - 1>>], [c \in 1 .. 8 |-> <<1, c - 1>>],
                                            [c \in 1 .. 8 |-> <<6, c - 1>>] >>
      [] kind = "STC8G2K" -> << [c \in 1 .. 8 |-> <<2, c - 1>>] >>

EnhPinConfigs(kind) == IF kind = "STC15" THEN 2 ELSE IF kind = "STC8G2K" THEN 1 ELSE 3

Off == [on |-> FALSE, switch |-> 0, level |-> 0, irq |-> 0]
NoAsk == [state |-> "off", level |-> 0, switch |-> 0]

EnhInit ==
    /\ enhKind \in {"STC15", "STC8A", "STC8AD", "STC8G2K"}
    /\ enhSwitch = [c \in EnhChannel |-> 0]
    /\ enhPin = [c \in EnhChannel |-> << >>]
    /\ enhCr = [c \in EnhChannel |-> Off]
    /\ enhHold = [c \in EnhChannel |-> "none"]
    /\ enhFlip = [c \in EnhChannel |-> <<0, 0>>]
    /\ enhPwmcr = {} /\ enhPwmcfg = {}
    /\ enhCounter = [run |-> FALSE, irq |-> FALSE, fault |-> 0]
    /\ enhAsked = [c \in EnhChannel |-> NoAsk]
    /\ enhHigh = {}
    /\ enhLeft = EnhCalls

EnhCall == enhLeft > 0 /\ enhLeft' = enhLeft - 1 /\ UNCHANGED enhKind

\* pwmConfigureOutput
EnhConfigureOutput ==
    /\ EnhCall
    /\ \E c \in {0, 5}, asked \in 0 .. 2 :
          LET switch == IF asked >= EnhPinConfigs(enhKind) THEN 0 ELSE asked
          IN  /\ enhSwitch' = [enhSwitch EXCEPT ![c] = switch]
              /\ enhPin' = [enhPin EXCEPT ![c] = EnhPins(enhKind)[switch + 1][c + 1]]
    /\ UNCHANGED <<enhCr, enhHold, enhFlip, enhPwmcr, enhPwmcfg, enhCounter, enhAsked, enhHigh>>

\* pwmStartCounter; on the STC15 and STC8A it writes PWMCR whole.
EnhStartCounter ==
    /\ EnhCall
    /\ \E irq \in BOOLEAN : enhCounter' = [enhCounter EXCEPT !.run = TRUE, !.irq = irq]
    /\ enhPwmcr' = {}
    /\ enhAsked' = [c \in EnhChannel |-> IF enhKind = "STC15" THEN [enhAsked[c] EXCEPT !.state = "off"] ELSE enhAsked[c]]
    /\ UNCHANGED <<enhSwitch, enhPin, enhCr, enhHold, enhFlip, enhPwmcfg, enhHigh>>

\* pwmStopCounter and pwmConfigureFaultDetection
EnhStopCounter ==
    /\ EnhCall
    /\ \/ /\ enhCounter' = [run |-> FALSE, irq |-> FALSE, fault |-> 0]
          /\ enhPwmcr' = {}
          /\ enhAsked' = [c \in EnhChannel |-> IF enhKind = "STC15" THEN [enhAsked[c] EXCEPT !.state = "off"] ELSE enhAsked[c]]
       \/ enhCounter' = [enhCounter EXCEPT !.fault = 42] /\ UNCHANGED <<enhPwmcr, enhAsked>>
    /\ UNCHANGED <<enhSwitch, enhPin, enhCr, enhHold, enhFlip, enhPwmcfg, enhHigh>>

-----------------------------------------------------------------------------
\* A slip, for mutation runs only: every channel's level in the first bit.
LevelsSetFirst(c, level) == enhPwmcfg \cup (IF level = 1 THEN {0} ELSE {})

\* PWMCFG |= initialLevel << channel: a level once high stays high.
LevelsSet(c, level) == enhPwmcfg \cup (IF level = 1 THEN {c} ELSE {})

\* pwmStartChannel, and the _pwmSetFlipPoints it calls
Started(c, level, irq, flip) ==
    /\ enhCr' = [enhCr EXCEPT ![c] = [on     |-> enhKind # "STC15",
                                      switch |-> IF enhKind = "STC8G2K" THEN 0 ELSE enhSwitch[c],
                                      level  |-> IF enhKind = "STC15" THEN 0 ELSE level,
                                      irq    |-> irq]]
    /\ enhFlip' = [enhFlip EXCEPT ![c] = flip]
    /\ IF enhKind = "STC15"
       THEN enhPwmcfg' = LevelsSet(c, level) /\ enhPwmcr' = enhPwmcr \cup {c}
       ELSE UNCHANGED <<enhPwmcfg, enhPwmcr>>
    /\ enhHigh' = IF level = 1 THEN enhHigh \cup {c} ELSE enhHigh

EnhStartChannel ==
    /\ EnhCall
    /\ \E c \in {0, 5}, level \in {0, 1}, irq \in {0, 5} :
          /\ Started(c, level, irq, <<1, 9>>)
          /\ enhAsked' = [enhAsked EXCEPT ![c] = [state  |-> IF @.state = "locked" /\ enhKind # "STC15" THEN "locked" ELSE "runs",
                                                  level  |-> IF @.state = "locked" /\ enhKind # "STC15" THEN @.level ELSE level,
                                                  switch |-> enhSwitch[c]]]
    /\ UNCHANGED <<enhSwitch, enhPin, enhHold, enhCounter>>

\* pwmStopChannel, which leaves the hold register
EnhStopChannel ==
    /\ EnhCall
    /\ \E c \in {0, 5} :
          /\ enhCr' = [enhCr EXCEPT ![c] = Off]
          /\ enhPwmcr' = enhPwmcr \ {c}
          /\ enhAsked' = [enhAsked EXCEPT ![c].state = IF @ = "locked" /\ enhKind # "STC15" THEN @ ELSE "off"]
    /\ UNCHANGED <<enhSwitch, enhPin, enhHold, enhFlip, enhPwmcfg, enhCounter, enhHigh>>

\* pwmSetFlipPoints
EnhSetFlipPoints ==
    /\ EnhCall
    /\ \E c \in {0, 5} : enhAsked[c].state = "runs" /\ enhFlip' = [enhFlip EXCEPT ![c] = <<2, 8>>]
    /\ UNCHANGED <<enhSwitch, enhPin, enhCr, enhHold, enhPwmcr, enhPwmcfg, enhCounter, enhAsked, enhHigh>>

\* pwmLockChannel: without a hold register, a channel that never flips
EnhLockChannel ==
    /\ EnhCall
    /\ \E c \in {0, 5}, level \in {0, 1} :
          /\ IF enhKind = "STC15"
             THEN Started(c, level, 0, <<ENH_COUNTER_MAX, ENH_COUNTER_MAX>>) /\ UNCHANGED enhHold
             ELSE /\ enhHold' = [enhHold EXCEPT ![c] = IF level = 1 THEN "high" ELSE "low"]
                  /\ UNCHANGED <<enhCr, enhFlip, enhPwmcr, enhPwmcfg, enhHigh>>
          /\ enhAsked' = [enhAsked EXCEPT ![c] = [state |-> "locked", level |-> level, switch |-> @.switch]]
    /\ UNCHANGED <<enhSwitch, enhPin, enhCounter>>

\* pwmUnlockChannel, which the STC15 does not have
EnhUnlockChannel ==
    /\ EnhCall
    /\ enhKind # "STC15"
    /\ \E c \in {0, 5} :
          /\ enhHold' = [enhHold EXCEPT ![c] = "none"]
          /\ enhAsked' = [enhAsked EXCEPT ![c] = [@ EXCEPT !.state = IF enhCr[c].on THEN "runs" ELSE "off",
                                                            !.level = enhCr[c].level]]
    /\ UNCHANGED <<enhSwitch, enhPin, enhCr, enhFlip, enhPwmcr, enhPwmcfg, enhCounter, enhHigh>>

EnhNext ==
    \/ EnhConfigureOutput \/ EnhStartCounter \/ EnhStopCounter
    \/ EnhStartChannel \/ EnhStopChannel \/ EnhSetFlipPoints \/ EnhLockChannel \/ EnhUnlockChannel

EnhSpec == EnhInit /\ [][EnhNext]_enhVars
-----------------------------------------------------------------------------
\* The level a channel's output is at before its first flip point, and whether
\* it flips
LevelOf(c) ==
    IF enhHold[c] # "none" THEN IF enhHold[c] = "high" THEN 1 ELSE 0
    ELSE IF enhKind = "STC15" THEN IF c \in enhPwmcfg THEN 1 ELSE 0
    ELSE enhCr[c].level
Flips(c) ==
    /\ enhHold[c] = "none"
    /\ IF enhKind = "STC15" THEN c \in enhPwmcr ELSE enhCr[c].on
    /\ enhFlip[c][1] # ENH_COUNTER_MAX

\* A channel does what it was last told, by whatever calls about it and the
\* other channels: it runs from its level, or is locked at one, or is off.  On
\* the STC15, one that was ever high starts, and is locked, high.
OutputsAsTold ==
    \A c \in EnhChannel :
        LET a == enhAsked[c]
        IN  /\ a.state = "runs" <=> Flips(c)
            /\ a.state # "off" =>
                  LevelOf(c) = IF enhKind = "STC15" /\ c \in enhHigh THEN 1 ELSE a.level

\* A PWM output does what was last asked of its own channel, though the channels
\* share the registers that say so, in the advanced and in the enhanced engine;
\* complementary outputs are kept apart for the time asked for (advpwm-hal.c,
\* enhpwm-hal.c).
OutputsAsAsked == ChannelsApart /\ DeadTimeAsAsked /\ ParametersFit /\ OutputsAsTold
=============================================================================
