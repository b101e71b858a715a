------------------------------- MODULE Upkeep -------------------------------
(***************************************************************************)
(* What an application keeps its chip going with: delay.c, reset-hal.c and *)
(* power-hal.c of uni-stc/hal.  The delays, the watchdog and the wake-up   *)
(* timer are arithmetic on the clock's frequency; the flags that tell one  *)
(* reset from another, the supply and the sleep are a machine.  The supply *)
(* and the watchdog's bite are external.                                   *)
(***************************************************************************)
EXTENDS Integers

CONSTANTS
    UpChips,     \* [family, cycles, kHz]: MCU_FAMILY, MCU_CYCLES and MCU_FREQ / 1000
    UpTimes,     \* bound: what is asked for, in milliseconds
    UpPorts,     \* the ports of the chip
    UpUnused,    \* bound: [port, mask] of the pins declared unused
    UpCalls      \* bound: the calls made

VARIABLES
    upChip, upTime,   \* the chip, and a time that is asked for
    upFlags,          \* POF and LVDIF of PCON
    upDetector,       \* what the low voltage detector does: "off", "interrupt" or "reset"
    upWatchdog,       \* WDT_CONTR, [on, prescaler, idle]
    upSleep,          \* "awake", "idle" or "down"
    upPins,           \* per port, the lines with PnM1 set, with PnM0 set, and high
    upSpared,         \* history: the lines declared unused, <<port, line>>
    upCause, upTold,  \* history: what reset the chip, and what getResetOrigin made of it
    upKnown,          \* history: the reset came from a program that had armed the detector, or with power
    upCalls           \* bound: the calls so far

upVars == <<upChip, upTime, upFlags, upDetector, upWatchdog, upSleep, upPins, upSpared, upCause, upTold, upKnown, upCalls>>

NoWatchdog == [on |-> FALSE, prescaler |-> 0, idle |-> FALSE]
UpLines    == 0 .. 7
ResetPins  == [p \in UpPorts |-> [M1 |-> UpLines, M0 |-> {}, high |-> UpLines]]

\* The machine runs for one time only: it does not look at it.
UpInit ==
    /\ upChip \in UpChips /\ upTime \in UpTimes
    /\ upFlags \in {{"POF"}, {"POF", "LVDIF"}}
    /\ upDetector = "off" /\ upWatchdog = NoWatchdog /\ upSleep = "awake"
    /\ upPins = ResetPins /\ upSpared = {}
    /\ upCause = "PowerOnReset" /\ upTold = "none" /\ upKnown = TRUE
    /\ upCalls = IF upTime = 0 /\ upChip.family = 8 THEN 0 ELSE UpCalls

-----------------------------------------------------------------------------
(***************************************************************************)
(* delay.c.  A loop: `less` and `step` make the count of MCU_FREQ; a turn  *)
(* of it takes `turn` cycles, `carry` more every 256, a unit `each` more,  *)
(* a call `base`: the cycles are the comments', measured.                  *)
(***************************************************************************)
Loop(less, step, turn, carry, each, base) ==
    [less |-> less, step |-> step, turn |-> turn, carry |-> carry, each |-> each, base |-> base]

\* An unsigned long, negative standing for 2^32 + x, by d; the low 16 bits
Quotient(x, d) ==
    IF x >= 0 THEN (x \div d) % 65536 ELSE (((65535 % d) * 65536 + 65536 + x) \div d) % 65536

\* A slip, for mutation runs only: the count is cut off, not rounded.
MsLoopCut(chip) ==
    CASE chip.family = 8  -> Loop(27, 13, 13, -1, 17, 10)
      [] chip.family = 15 -> Loop(39, 18, 18, 2, 25, 14)
      [] chip.family = 12 -> Loop(39, 18, 19, 3, 26, 14)
      [] chip.cycles = 6  -> Loop(150, 72, 72, 6, 90, 60)
      [] OTHER            -> Loop(300, 144, 144, 12, 180, 120)

MsLoop(chip) ==
    CASE chip.family = 8  -> Loop(20, 13, 13, -1, 17, 10)
      [] chip.family = 15 -> Loop(30, 18, 18, 2, 25, 14)
      [] chip.family = 12 -> Loop(30, 18, 19, 3, 26, 14)
      [] chip.cycles = 6  -> Loop(114, 72, 72, 6, 90, 60)
      [] OTHER            -> Loop(228, 144, 144, 12, 180, 120)

TenUsLoop(chip) ==
    CASE chip.family = 8  -> Loop(16, 6, 6, 0, 11, 8)
      [] chip.family = 15 -> Loop(23, 10, 10, 0, 17, 11)
      [] chip.family = 12 -> Loop(23, 10, 10, 0, 16, 10)
      [] chip.cycles = 6  -> Loop(84, 36, 36, 0, 60, 42)
      [] OTHER            -> Loop(168, 72, 72, 0, 120, 84)

DELAY_1ms(chip)  == Quotient(chip.kHz - MsLoop(chip).less, MsLoop(chip).step)
DELAY_10us(chip) == Quotient(chip.kHz \div 100 - TenUsLoop(chip).less, TenUsLoop(chip).step) % 256

Cycles(loop, n, units) ==
    units * (loop.turn * n + loop.carry * (n \div 256) + loop.each) + loop.carry * (units \div 256) + loop.base

delay1ms(chip, ms)   == Cycles(MsLoop(chip), DELAY_1ms(chip), ms)
delay10us(chip, us)  == Cycles(TenUsLoop(chip), DELAY_10us(chip), us)

\* delay1us has a loop of its own where the clock is fast enough; elsewhere it is
\* delay10us(us / 10).
HasMicroseconds(chip) ==
    (chip.family = 8 /\ chip.kHz >= 19000) \/ (chip.family \in {12, 15} /\ chip.kHz >= 32000)

DELAY_1us(chip) ==
    IF chip.family = 8 THEN (((chip.kHz \div 10 + 41) \div 100) - 13) \div 4
    ELSE (((chip.kHz \div 10 + 44) \div 100) - 17) \div 10

UsLoop(chip) == IF chip.family = 8 THEN Loop(0, 1, 4, 0, 15, 9) ELSE Loop(0, 1, 10, 0, 22, 6)

delay1us(chip, us) ==
    IF HasMicroseconds(chip) THEN Cycles(UsLoop(chip), DELAY_1us(chip), us) ELSE delay10us(chip, (us \div 10) % 256)

-----------------------------------------------------------------------------
(***************************************************************************)
(* reset-hal.c: the watchdog takes 2^(prescaler + 1) of its units, 12 times*)
(* 32768 cycles each.                                                      *)
(***************************************************************************)
WatchdogUnit == 12 * 32768
WDT_SYSCLCK_DIV_3072 == 7

Divisor(chip, ms) == ((ms * chip.kHz) \div WatchdogUnit) % 65536

\* The digits of a number in base two
Magnitude(n) == CHOOSE p \in 0 .. 16 : n < 2 ^ p /\ (p > 0 => n >= 2 ^ (p - 1))

\* A slip, for mutation runs only: rounded down to a power of two.
RoundedDown(divisor) == Magnitude(divisor) - 2

\* The rounding's test never holds: a divisor of p digits is less than 2^p.
Rounded(divisor) ==
    LET p == Magnitude(divisor)
    IN  (IF divisor + 2 ^ (p - 1) >= 2 ^ (p + 1) THEN p + 1 ELSE p) - 1

millisecondsToWatchdogPrescaler(chip, ms) ==
    LET divisor == Divisor(chip, ms)
    IN  CASE divisor >= 256 -> WDT_SYSCLCK_DIV_3072 [] divisor \in 3 .. 255 -> Rounded(divisor) [] OTHER -> 0

watchdogPrescalerToMilliseconds(chip, prescaler) ==
    (((WatchdogUnit \div chip.kHz) % 65536) * 2 ^ (prescaler + 1)) % 65536

UpCall == upCalls < UpCalls /\ upCalls' = upCalls + 1 /\ UNCHANGED <<upChip, upTime>>
Awake  == upTold # "none" /\ upSleep = "awake"

\* A program asks what reset it before it does anything else.
getResetOrigin ==
    /\ UpCall /\ upTold = "none"
    /\ IF "POF" \in upFlags THEN upTold' = "PowerOnReset" /\ upFlags' = upFlags \ {"POF"}
       ELSE IF "LVDIF" \in upFlags THEN upTold' = "LowVoltageDetected" /\ upFlags' = upFlags \ {"LVDIF"}
       ELSE upTold' = "OtherReset" /\ UNCHANGED upFlags
    /\ UNCHANGED <<upDetector, upWatchdog, upSleep, upPins, upSpared, upCause, upKnown>>

\* A slip, for mutation runs only: the flag of a reset before is left.
DetectorFlagsKept == upFlags

DetectorFlags == upFlags \ {"LVDIF"}

enableLowVoltageDetector ==
    /\ UpCall /\ Awake
    /\ upDetector' \in {"interrupt", "reset"}
    /\ upFlags' = DetectorFlags
    /\ UNCHANGED <<upWatchdog, upSleep, upPins, upSpared, upCause, upTold, upKnown>>

startWatchdog ==
    /\ UpCall /\ Awake
    /\ \E idle \in BOOLEAN :
          upWatchdog' = [on |-> TRUE, prescaler |-> millisecondsToWatchdogPrescaler(upChip, upTime), idle |-> idle]
    /\ UNCHANGED <<upFlags, upDetector, upSleep, upPins, upSpared, upCause, upTold, upKnown>>

\* Any reset: the registers are as at first, the flags stay.
ResetBy(cause) ==
    /\ upDetector' = "off" /\ upWatchdog' = NoWatchdog /\ upSleep' = "awake"
    /\ upPins' = ResetPins /\ upSpared' = {}
    /\ upCause' = cause /\ upTold' = "none"
    /\ upKnown' = (cause = "PowerOnReset" \/ upDetector = "reset")
    /\ UNCHANGED <<upChip, upTime>>

softwareReset == UpCall /\ Awake /\ ResetBy("OtherReset") /\ UNCHANGED upFlags

\* A watchdog nobody cleared bites; in idle mode if it was told to.
WatchdogBites ==
    /\ upWatchdog.on /\ upSleep # "down" /\ (upSleep = "idle" => upWatchdog.idle)
    /\ ResetBy("OtherReset")
    /\ UNCHANGED <<upFlags, upCalls>>

\* The supply dips: the flag is set, and the detector does what it was told to;
\* or it fails, and comes back.
SupplyDips ==
    /\ upTold # "none"
    /\ upFlags' = upFlags \cup {"LVDIF"}
    /\ IF upDetector = "reset" THEN ResetBy("LowVoltageDetected")
       ELSE UNCHANGED <<upChip, upTime, upDetector, upWatchdog, upSleep, upPins, upSpared, upCause, upTold, upKnown>>
    /\ UNCHANGED upCalls

SupplyFails ==
    /\ upTold # "none"
    /\ upFlags' \in {{"POF"}, {"POF", "LVDIF"}}
    /\ ResetBy("PowerOnReset")
    /\ UNCHANGED upCalls

-----------------------------------------------------------------------------
(***************************************************************************)
(* power-hal.c.                                                            *)
(***************************************************************************)
\* A slip, for mutation runs only: the least count for any time too long.
WakeUpClampedLow(divisor) == IF divisor > 32767 THEN 0 ELSE divisor - 1

WakeUpClamped(divisor) == IF divisor > 32767 THEN 32767 ELSE divisor - 1

millisecondsToWakeUpCount(ms) ==
    LET divisor == (32000 * ms) \div 16000 IN IF divisor > 0 THEN WakeUpClamped(divisor) ELSE 0

enterIdleMode ==
    /\ UpCall /\ Awake
    /\ upSleep' = "idle"
    /\ UNCHANGED <<upFlags, upDetector, upWatchdog, upPins, upSpared, upCause, upTold, upKnown>>

enterPowerDownMode ==
    /\ UpCall /\ Awake
    /\ upSleep' = "down"
    /\ UNCHANGED <<upFlags, upDetector, upWatchdog, upPins, upSpared, upCause, upTold, upKnown>>

\* An interrupt, the wake-up timer's included, ends a sleep.
Wakes ==
    /\ upSleep # "awake"
    /\ upSleep' = "awake"
    /\ UNCHANGED <<upChip, upTime, upFlags, upDetector, upWatchdog, upPins, upSpared, upCause, upTold, upKnown, upCalls>>

\* A slip, for mutation runs only: the mask taken for the whole port.
UnusedPort(was, mask) == [M1 |-> UpLines \ mask, M0 |-> UpLines \ mask, high |-> was.high \cup mask]

Unused(was, mask) == [M1 |-> was.M1 \ mask, M0 |-> was.M0 \ mask, high |-> was.high \cup mask]

\* configureUnusedGpioPins; port 6 has its case under a name no header defines.
configureUnusedGpioPins ==
    /\ UpCall /\ Awake
    /\ \E pins \in UpUnused :
          /\ upPins' = IF pins.port \in UpPorts \ {6}
                       THEN [upPins EXCEPT ![pins.port] = Unused(@, pins.mask)] ELSE upPins
          /\ upSpared' = upSpared \cup {<<pins.port, line>> : line \in pins.mask}
    /\ UNCHANGED <<upFlags, upDetector, upWatchdog, upSleep, upCause, upTold, upKnown>>

UpNext ==
    \/ getResetOrigin \/ enableLowVoltageDetector \/ startWatchdog \/ softwareReset
    \/ enterIdleMode \/ enterPowerDownMode \/ configureUnusedGpioPins
    \/ WatchdogBites \/ SupplyDips \/ SupplyFails \/ Wakes
-----------------------------------------------------------------------------
Distance(a, b) == IF a < b THEN b - a ELSE a - b

\* A single millisecond, and ten microseconds, are as close as a turn of the loop
\* allows, half of one, the carries aside ("in order to round the result of the
\* division to the closest integer", delay.c).  The STC12 divides by another turn
\* than it has, and is up to 6 % long and 7 cycles off; and where the clock is too
\* slow for the overhead of a call the count wraps: DELAY_10us of the STC90 with
\* twelve cycles needs 16.8 MHz to be of use.
DelaysCalibrated ==
    LET ms == MsLoop(upChip)
        us == TenUsLoop(upChip)
        target == upChip.kHz \div 100
    IN  /\ IF upChip.family = 12 THEN 100 * Distance(delay1ms(upChip, 1), upChip.kHz) <= 6 * upChip.kHz
           ELSE 2 * Distance(delay1ms(upChip, 1), upChip.kHz)
                    <= ms.turn + 1 + 2 * Distance(0, ms.carry) * (DELAY_1ms(upChip) \div 256)
        /\ target >= us.less
               => 2 * Distance(delay10us(upChip, 1), target) <= us.turn + (IF upChip.family = 12 THEN 4 ELSE 0)
        /\ HasMicroseconds(upChip)
               => 2 * Distance(delay1us(upChip, 100), upChip.kHz \div 10) <= 100 * (UsLoop(upChip).turn + 1)

\* The watchdog does not bite before the time that was asked for, but where that
\* is two units and a bit or more than it has, nor after twice as long; and who
\* feeds it within the time it is told to take is not bitten.
WatchdogInTime ==
    LET prescaler == millisecondsToWatchdogPrescaler(upChip, upTime)
        takes == WatchdogUnit * 2 ^ (prescaler + 1)
        asked == upTime * upChip.kHz
    IN  /\ prescaler < WDT_SYSCLCK_DIV_3072 /\ Divisor(upChip, upTime) # 2 => takes > asked
        /\ prescaler > 0 => takes \div 2 <= asked
        /\ watchdogPrescalerToMilliseconds(upChip, prescaler) * upChip.kHz <= takes

\* The wake-up timer counts half milliseconds, one more than its count, and no
\* more than 15 bits: the 16th is its switch.
WakesOnTime ==
    LET count == millisecondsToWakeUpCount(upTime)
    IN  /\ count < 32768
        /\ upTime \in 1 .. 16384 => count + 1 = 2 * upTime
        /\ upTime > 16384 => count + 1 = 32768

\* A reset is told from the others, if the program before had the detector reset
\* the chip: without it the flag of an older dip is taken for the reason.
OriginTold == upTold # "none" /\ upKnown => upTold = upCause

\* The pins declared unused are weakly pulled up, those of port 6 excepted, and
\* no other pin is touched.
UnusedPinsRest ==
    \A port \in UpPorts, line \in UpLines :
        IF <<port, line>> \in upSpared /\ port # 6
        THEN line \notin upPins[port].M1 \cup upPins[port].M0 /\ line \in upPins[port].high
        ELSE line \in upPins[port].M1 /\ line \notin upPins[port].M0

Upkept == DelaysCalibrated /\ WatchdogInTime /\ WakesOnTime /\ OriginTold /\ UnusedPinsRest
=============================================================================
