------------------------------- MODULE AdvPwm -------------------------------
(***************************************************************************)
(* uni-stc/hal/advpwm-hal.c: the channels and counters of the advanced     *)
(* PWM, as its calls leave their registers.  Eight channels share a dozen  *)
(* registers by bit fields; a register is the set of its bits that are 1.  *)
(*                                                                         *)
(* Channel c here is PWM_Channel<c>, whose value in the code is 2 * c; the *)
(* first four belong to counter A, the others to counter B.                *)
(***************************************************************************)
EXTENDS Integers, Sequences

CONSTANTS
    AdvPackage,   \* MCU_PINS
    AdvNoP12,     \* GPIO_NO_P12
    AdvOutputs,   \* bound: the outputs configured, records of the parameters
    AdvInputs,    \* bound: likewise the captures
    AdvPulses,    \* bound: the dead times asked for
    AdvClocks,    \* bound: MCU_FREQ
    AdvTargets,   \* bound: the frequencies a counter is to reload at
    AdvCalls      \* bound: calls in a behaviour

VARIABLES
    advBits,     \* the registers channels share, per counter
    advCcmr,     \* PWMx_CCMRn, per channel
    advCcr,      \* PWMx_CCRn, per channel
    advCtr,      \* the registers of a counter
    advUsage,    \* _channelUsage
    advModes,    \* the pins given a mode, with it
    advAsked,    \* history: what was last asked of each channel
    advDead,     \* history: the dead time last asked for
    advLeft      \* calls left

advVars == <<advBits, advCcmr, advCcr, advCtr, advUsage, advModes, advAsked, advDead, advLeft>>

Channel == 0 .. 7
Counter == {"A", "B"}

\* The calls are given channels of the MCU, in range, and a frequency the clock can
\* be divided down to.
ASSUME AdvAssumption ==
    /\ \A o \in AdvOutputs : o.channel \in Channel /\ o.polarity \in {0, 1} /\ o.switch \in Nat
    /\ \A i \in AdvInputs : i.channel \in Channel /\ i.edge \in {0, 1} /\ i.switch \in Nat
    /\ AdvPulses \subseteq Nat
    /\ AdvClocks \subseteq Nat
    /\ \A freq \in AdvClocks, target \in AdvTargets : target \in 1 .. freq

CounterOf(c) == IF c < 4 THEN "A" ELSE "B"

PIN_CONFIG_MAX == 3
RELOAD_MAX == 65535
NO_PIN == <<15, 15>>

\* The bits of a small number, at a position
BitsAt(value, position) == {b + position : b \in {i \in 0 .. 7 : (value \div 2^i) % 2 = 1}}

-----------------------------------------------------------------------------
\* _channelPinConfigurations: columns PWM1P PWM1N ... PWM4N PWM5 ... PWM8
FullPin(row, column) ==
    CASE row = 0 -> IF column >= 8 THEN <<2, column - 8>>
                    ELSE IF column = 2 /\ (AdvPackage = 64 \/ AdvNoP12) THEN <<5, 4>>
                    ELSE <<1, column>>
      [] row = 1 -> IF column >= 8 THEN << <<1, 7>>, <<5, 4>>, <<3, 3>>, <<3, 4>> >>[column - 7]
                    ELSE <<2, column>>
      [] row = 2 -> IF column >= 8 THEN <<0, column - 8>> ELSE <<6, column>>
      [] row = 3 -> IF column >= 8 THEN <<7, column - 4>>
                    ELSE IF column >= 6 THEN <<3, 10 - column>> ELSE NO_PIN

OnPackage(row, column, pin) ==
    CASE AdvPackage = 64 -> TRUE
      [] AdvPackage \in 21 .. 63 -> pin[1] \notin {6, 7}
      [] AdvPackage = 20 -> pin[1] \in {1, 3} \/ pin = <<5, 4>>
      [] AdvPackage < 20 -> (pin[1] \in {1, 3} \/ pin = <<5, 4>>) /\ ~(row = 0 /\ column \in 2 .. 5)

\* The check that every function makes of its pinSwitch
Switch(pinSwitch) == IF pinSwitch >= PIN_CONFIG_MAX THEN 0 ELSE pinSwitch

\* _getChannelPin
ChannelPin(c, pinSwitch, offset) ==
    LET column == IF c < 4 THEN 2 * c + offset ELSE 4 + c
        pin    == FullPin(Switch(pinSwitch), column)
    IN  IF OnPackage(Switch(pinSwitch), column, pin) THEN pin ELSE NO_PIN

\* _configurePin
IsPin(pin) == pin[1] < 8 /\ pin[2] < 8
Configure(modes, pin, mode) ==
    IF IsPin(pin) THEN {m \in modes : m[1] # pin} \cup {<<pin, mode>>} ELSE modes

\* The position of a channel in registers with one, and with two, bits per output
OutputBit(c, offset)  == 2 * (c % 4) + (IF c < 4 THEN offset ELSE 0)
ChannelBit(c, offset) == 2 * OutputBit(c, offset)

\* _applyPinSwitch
AppliedSwitch(bits, c, pinSwitch) ==
    LET position == 2 * (c % 4)
    IN  [bits EXCEPT ![CounterOf(c)].PS =
            (@ \ {position, position + 1}) \cup BitsAt(Switch(pinSwitch), position)]

\* _enableOutput and _disableOutput
EnabledOutput(bits, c, offset)  == [bits EXCEPT ![CounterOf(c)].ENO = @ \cup {OutputBit(c, offset)}]
DisabledOutput(bits, c, offset) == [bits EXCEPT ![CounterOf(c)].ENO = @ \ {OutputBit(c, offset)}]

\* A slip, for mutation runs only: a second register that is never reached.
EnabledChannelLow(bits, c, offset, polarity) ==
    LET position == ChannelBit(c, offset) % 8
    IN  [bits EXCEPT ![CounterOf(c)]["CCER1"] =
            (@ \ {position, position + 1}) \cup BitsAt(2 * polarity + 1, position)]

\* _enableChannel: positions 8 and up are in CCER2.
EnabledChannel(bits, c, offset, polarity) ==
    LET position == ChannelBit(c, offset) % 8
        register == IF ChannelBit(c, offset) > 7 THEN "CCER2" ELSE "CCER1"
    IN  [bits EXCEPT ![CounterOf(c)][register] =
            (@ \ {position, position + 1}) \cup BitsAt(2 * polarity + 1, position)]

\* _closeChannel: both halves of the channel
ClosedChannel(bits, c) ==
    LET register == IF c % 4 \in {0, 1} THEN "CCER1" ELSE "CCER2"
    IN  [bits EXCEPT ![CounterOf(c)][register] = @ \ (IF c % 2 = 0 THEN 0 .. 3 ELSE 4 .. 7)]

\* _enableFaultControl: bits are set and never cleared.
FaultControlled(bits, c, offset, fault, idle) ==
    IF ~fault THEN bits
    ELSE [bits EXCEPT ![CounterOf(c)].IOAUX = @ \cup {OutputBit(c, offset)},
                      ![CounterOf(c)].OISR = @ \cup (IF idle = 1 THEN {OutputBit(c, offset)} ELSE {})]

\* _enableChannelInterrupt
EnabledInterrupt(bits, c) == [bits EXCEPT ![CounterOf(c)].IER = @ \cup {(c % 4) + 1}]
-----------------------------------------------------------------------------
NothingAsked == [on |-> <<2, 2>>, out |-> {}, switch |-> 0, irq |-> FALSE]

AdvInit ==
    /\ advBits = [n \in Counter |-> [PS |-> {}, ENO |-> {}, CCER1 |-> {}, CCER2 |-> {},
                                     IOAUX |-> {}, OISR |-> {}, IER |-> {}]]
    /\ advCcmr = [c \in Channel |-> [io |-> "out", oc |-> 0, pe |-> FALSE]]
    /\ advCcr = [c \in Channel |-> 0]
    /\ advCtr = [n \in Counter |-> [mode |-> 0, psc |-> 0, arr |-> RELOAD_MAX, cen |-> FALSE, moe |-> FALSE,
                                    dtr |-> 0, bkps |-> 0, etps |-> 0]]
    /\ advUsage = [c \in Channel |-> "UNUSED"]
    /\ advModes = {}
    /\ advAsked = [c \in Channel |-> NothingAsked]
    /\ advDead = [n \in Counter |-> 0]
    /\ advLeft = AdvCalls

AdvCall == advLeft > 0 /\ advLeft' = advLeft - 1

\* The outputs a channel's call is about: N only exists on counter A.
OutputsOf(c, enable) ==
    (IF c > 3 \/ enable \in {1, 3} THEN {0} ELSE {}) \cup (IF c <= 3 /\ enable \in {2, 3} THEN {1} ELSE {})

\* What configuring one output of o does to the shared registers
OneOutput(bits, o, offset) ==
    FaultControlled(EnabledChannel(EnabledOutput(bits, o.channel, offset), o.channel, offset, o.polarity),
                    o.channel, offset, o.fault, o.idle)

\* pwmConfigureOutput.  An output whose pin the package lacks is left out.
pwmConfigureOutput ==
    /\ AdvCall
    /\ \E o \in AdvOutputs :
          LET c     == o.channel
              real  == {f \in OutputsOf(c, o.enable) : IsPin(ChannelPin(c, o.switch, f))}
              mode  == IF o.mode = 2 THEN 1 ELSE o.mode
              afterP == IF 0 \in real THEN OneOutput(advBits, o, 0) ELSE advBits
              afterN == IF 1 \in real THEN OneOutput(afterP, o, 1) ELSE afterP
              modeP  == IF 0 \in real THEN Configure(advModes, ChannelPin(c, o.switch, 0), mode) ELSE advModes
          IN  /\ advBits' = IF real = {} THEN advBits ELSE AppliedSwitch(afterN, c, o.switch)
              /\ advModes' = IF 1 \in real THEN Configure(modeP, ChannelPin(c, o.switch, 1), mode) ELSE modeP
              /\ advAsked' = IF real = {} THEN advAsked
                             ELSE [advAsked EXCEPT ![c] =
                                     [on     |-> [i \in 1 .. 2 |-> IF i - 1 \in real THEN o.polarity ELSE @.on[i]],
                                      out    |-> @.out \cup real,
                                      switch |-> Switch(o.switch),
                                      irq    |-> @.irq]]
    /\ UNCHANGED <<advCcmr, advCcr, advCtr, advUsage, advDead>>

\* pwmEnableChannelOutput and pwmDisableChannelOutput
pwmSwitchChannelOutput ==
    /\ AdvCall
    /\ \E o \in AdvOutputs, enable \in BOOLEAN :
          LET outs == OutputsOf(o.channel, o.enable)
              one(bits, f) == IF f \notin outs THEN bits
                              ELSE IF enable THEN EnabledOutput(bits, o.channel, f)
                              ELSE DisabledOutput(bits, o.channel, f)
          IN  /\ advBits' = one(one(advBits, 0), 1)
              /\ advAsked' = [advAsked EXCEPT ![o.channel].out = IF enable THEN @ \cup outs ELSE @ \ outs]
    /\ UNCHANGED <<advCcmr, advCcr, advCtr, advUsage, advModes, advDead>>

\* pwmInitialisePWM, and the pwmSetDutyCycle it calls
pwmInitialisePWM ==
    /\ AdvCall
    /\ \E o \in AdvOutputs, irq \in BOOLEAN :
          LET c == o.channel
              closed == ClosedChannel(advBits, c)
          IN  /\ advBits' = IF irq THEN EnabledInterrupt(closed, c) ELSE closed
              /\ advCcr' = [advCcr EXCEPT ![c] = o.ticks]
              /\ advCcmr' = [advCcmr EXCEPT ![c] = [io |-> "out", oc |-> IF o.level = 0 THEN 7 ELSE 6, pe |-> o.buffered]]
              /\ advUsage' = [advUsage EXCEPT ![c] = "PWM"]
              /\ advAsked' = [advAsked EXCEPT ![c] =
                                [on |-> <<2, 2>>, out |-> @.out, switch |-> @.switch, irq |-> @.irq \/ irq]]
    /\ UNCHANGED <<advCtr, advModes, advDead>>

\* pwmStopPWM, pwmLockPWM and pwmSetDutyCycle of a channel used as PWM
pwmChange ==
    /\ AdvCall
    /\ \E c \in Channel :
          /\ advUsage[c] = "PWM"
          /\ \/ advCcmr' = [advCcmr EXCEPT ![c] = [io |-> "out", oc |-> 0, pe |-> FALSE]] /\ UNCHANGED advCcr
             \/ \E level \in {0, 1} : advCcmr' = [advCcmr EXCEPT ![c].oc = 4 + level] /\ UNCHANGED advCcr
             \/ advCcr' = [advCcr EXCEPT ![c] = 2] /\ UNCHANGED advCcmr
    /\ UNCHANGED <<advBits, advCtr, advUsage, advModes, advAsked, advDead>>

\* _configureInput, of the switch, the pin and the channel
Inputted(bits, i, c) == EnabledChannel(AppliedSwitch(bits, c, i.switch), c, 0, i.edge)

\* History: what is asked of a channel that is to listen
Listening(old, i, irq) == [old EXCEPT !.on[1] = i.edge, !.switch = Switch(i.switch), !.irq = irq]

\* pwmInitialiseCapture
pwmInitialiseCapture ==
    /\ AdvCall
    /\ \E i \in AdvInputs :
          LET c == i.channel
          IN  /\ advBits' = EnabledInterrupt(Inputted(advBits, i, c), c)
              /\ advModes' = Configure(advModes, ChannelPin(c, i.switch, 0), 2)
              /\ advCcmr' = [advCcmr EXCEPT ![c] = [io |-> "in", oc |-> i.source, pe |-> FALSE]]
              /\ advUsage' = [advUsage EXCEPT ![c] = "CAPTURE"]
              /\ advAsked' = [advAsked EXCEPT ![c] = Listening(@, i, TRUE)]
    /\ UNCHANGED <<advCcr, advCtr, advDead>>

\* pwmConfigureCounter: the control register is written whole, which stops it.
CounterSet(ctr, n, mode, psc, arr, cen) ==
    [ctr EXCEPT ![n] = [@ EXCEPT !.mode = mode, !.psc = psc, !.arr = arr, !.cen = cen]]
CounterIer(bits, n, com, update) ==
    [bits EXCEPT ![n].IER = (@ \ {0, 5}) \cup (IF com THEN {5} ELSE {}) \cup (IF update THEN {0} ELSE {})]

pwmConfigureCounter ==
    /\ AdvCall
    /\ \E n \in Counter, com, update \in BOOLEAN :
          /\ advCtr' = CounterSet(advCtr, n, 0, 1, 9, FALSE)
          /\ advBits' = CounterIer(advBits, n, com, update)
    /\ UNCHANGED <<advCcmr, advCcr, advUsage, advModes, advAsked, advDead>>

\* pwmInitialiseQuadratureEncoder: the first two channels of the counter
FirstOf(n) == IF n = "A" THEN 0 ELSE 4
EncoderBits(bits, n, i) ==
    LET counter == CounterIer(bits, n, FALSE, FALSE)
        first   == Inputted(counter, i, FirstOf(n))
    IN  EnabledInterrupt(Inputted(first, i, FirstOf(n) + 1), FirstOf(n))
EncoderAsked(asked, n, i) ==
    [c \in Channel |-> IF c = FirstOf(n) THEN Listening(asked[c], i, TRUE)
                       ELSE IF c = FirstOf(n) + 1 THEN Listening(asked[c], i, asked[c].irq)
                       ELSE asked[c]]

pwmInitialiseQuadratureEncoder ==
    /\ AdvCall
    /\ \E n \in Counter, i \in AdvInputs :
          LET first == FirstOf(n)
              both  == {first, first + 1}
          IN  /\ advBits' = EncoderBits(advBits, n, i)
              /\ advModes' = Configure(Configure(advModes, ChannelPin(first, i.switch, 0), 2),
                                       ChannelPin(first + 1, i.switch, 0), 2)
              /\ advCcmr' = [c \in Channel |-> IF c \in both THEN [io |-> "in", oc |-> 1, pe |-> FALSE] ELSE advCcmr[c]]
              /\ advUsage' = [c \in Channel |-> IF c \in both THEN "ENCODER" ELSE advUsage[c]]
              /\ advCtr' = CounterSet(advCtr, n, 3, 0, RELOAD_MAX, TRUE)
              /\ advAsked' = EncoderAsked(advAsked, n, i)
    /\ UNCHANGED <<advCcr, advDead>>

\* pwmEnableMainOutput, pwmEnableCounter and their opposites
pwmSwitchCounter ==
    /\ AdvCall
    /\ \E n \in Counter, on \in BOOLEAN :
          \/ advCtr' = [advCtr EXCEPT ![n].moe = on]
          \/ advCtr' = [advCtr EXCEPT ![n].cen = on]
    /\ UNCHANGED <<advBits, advCcmr, advCcr, advUsage, advModes, advAsked, advDead>>

-----------------------------------------------------------------------------
\* A slip, for mutation runs only: the bias of the first range for the second.
DeadTimeRegisterBias(pulses) ==
    CASE pulses < 128 -> pulses
      [] pulses \in 128 .. 254 -> 128 + (((pulses \div 2) - 32) % 128)
      [] OTHER -> 255

\* The dead time register: shifts, a bias and a selector, or-ed into a byte
DeadTimeRegister(pulses) ==
    IF pulses < 128 THEN pulses
    ELSE IF pulses < 255 THEN 128 + (((pulses \div 2) - 64) % 128)
    ELSE IF pulses < 505 THEN 192 + (((pulses \div 8) - 32) % 64)
    ELSE IF pulses <= 1008 THEN 224 + (((pulses \div 16) - 32) % 32)
    ELSE 255

\* pwmConfigureDeadTime
pwmConfigureDeadTime ==
    /\ AdvCall
    /\ \E n \in Counter, pulses \in AdvPulses :
          /\ advCtr' = [advCtr EXCEPT ![n].dtr = DeadTimeRegister(pulses)]
          /\ advDead' = [advDead EXCEPT ![n] = pulses]
    /\ UNCHANGED <<advBits, advCcmr, advCcr, advUsage, advModes, advAsked>>

\* pwmConfigureFaultDetection: the comparator stands for a pin that is none.
FaultPin(trigger) == IF trigger = 1 THEN <<9, 9>> ELSE <<3, 5>>
pwmConfigureFaultDetection ==
    /\ AdvCall
    /\ \E n \in Counter, trigger \in {0, 1}, irq \in BOOLEAN :
          /\ advModes' = Configure(advModes, FaultPin(trigger), 2)
          /\ advCtr' = [advCtr EXCEPT ![n] = [@ EXCEPT !.moe = TRUE, !.bkps = trigger]]
          /\ advBits' = [advBits EXCEPT ![n].IER = IF irq THEN @ \cup {7} ELSE @]
    /\ UNCHANGED <<advCcmr, advCcr, advUsage, advAsked, advDead>>

\* pwmConfigureExternalTrigger
TriggerPin(pinSwitch, n) ==
    << <<3, 2>>, IF n = "A" THEN <<4, 1>> ELSE <<0, 6>>, IF n = "A" THEN <<7, 3>> ELSE NO_PIN >>[Switch(pinSwitch) + 1]
pwmConfigureExternalTrigger ==
    /\ AdvCall
    /\ \E n \in Counter, pinSwitch \in 0 .. 3, irq \in BOOLEAN :
          IF TriggerPin(pinSwitch, n) = NO_PIN THEN UNCHANGED <<advModes, advCtr, advBits>>
          ELSE /\ advModes' = Configure(advModes, TriggerPin(pinSwitch, n), 2)
               /\ advCtr' = [advCtr EXCEPT ![n].etps = Switch(pinSwitch)]
               /\ advBits' = [advBits EXCEPT ![n].IER = IF irq THEN @ \cup {6} ELSE @]
    /\ UNCHANGED <<advCcmr, advCcr, advUsage, advAsked, advDead>>

AdvNext ==
    \/ pwmConfigureOutput \/ pwmSwitchChannelOutput \/ pwmInitialisePWM \/ pwmChange
    \/ pwmInitialiseCapture \/ pwmInitialiseQuadratureEncoder
    \/ pwmConfigureCounter \/ pwmSwitchCounter
    \/ pwmConfigureDeadTime \/ pwmConfigureFaultDetection \/ pwmConfigureExternalTrigger

AdvSpec == AdvInit /\ [][AdvNext]_advVars
-----------------------------------------------------------------------------
\* pwmCalculatePrescalerAndReloadValue: [prescaler, reload], of 16 bits each.  The
\* remainder looked at is the clock's, not the ratio's.
PWM_COUNTER_SCALE == 65536

First(freq, target) == (freq \div target) \div PWM_COUNTER_SCALE

\* A slip, for mutation runs only: the ratio left as it was.
UndividedRatio(freq, target, scale) == freq \div target

DividedRatio(freq, target, scale) == (freq \div target) \div scale

PwmParameters(freq, target) ==
    LET first == First(freq, target)
        scale == IF freq \div target <= PWM_COUNTER_SCALE THEN 1
                 ELSE IF freq % first # 0 THEN first + 1 ELSE first
    IN  [prescaler |-> scale - 1, reload |-> (DividedRatio(freq, target, scale) - 1) % PWM_COUNTER_SCALE]
-----------------------------------------------------------------------------
\* A field of two bits, as the channel's hardware reads it: 2 is off.
ReadOn(c, offset) ==
    LET position == ChannelBit(c, offset)
        ccer == advBits[CounterOf(c)].CCER1 \cup {b + 8 : b \in advBits[CounterOf(c)].CCER2}
    IN  IF position \notin ccer THEN 2 ELSE IF position + 1 \in ccer THEN 1 ELSE 0

\* Whatever was asked of the other channels and of the counters, a channel's
\* fields of the shared registers say what was last asked of it: which outputs
\* are on and with what polarity, the pins it is switched to, its interrupt.
ChannelsApart ==
    \A c \in Channel :
        /\ ReadOn(c, 0) = advAsked[c].on[1]
        /\ c < 4 => ReadOn(c, 1) = advAsked[c].on[2]
        /\ \A offset \in {0} \cup (IF c < 4 THEN {1} ELSE {}) :
              OutputBit(c, offset) \in advBits[CounterOf(c)].ENO <=> offset \in advAsked[c].out
        /\ {b - 2 * (c % 4) : b \in advBits[CounterOf(c)].PS \cap {2 * (c % 4), 2 * (c % 4) + 1}}
              = BitsAt(advAsked[c].switch, 0)
        /\ (c % 4) + 1 \in advBits[CounterOf(c)].IER <=> advAsked[c].irq

\* What the hardware makes of the register
DeadTime(dtr) ==
    IF dtr < 128 THEN dtr
    ELSE IF dtr < 192 THEN 2 * (64 + (dtr % 64))
    ELSE IF dtr < 224 THEN 8 * (32 + (dtr % 32))
    ELSE 16 * (32 + (dtr % 32))

\* The dead time is the one asked for, short of it by less than a step and
\* never more than 1008; at 255 and from 505 to 511, where the bias of a range
\* exceeds the shifted value, it is the longest there is, not the one asked for.
DeadTimeAsAsked ==
    \A n \in Counter :
        LET got == DeadTime(advCtr[n].dtr)
            step == IF advDead[n] < 128 THEN 1 ELSE IF advDead[n] < 255 THEN 2 ELSE IF advDead[n] < 505 THEN 8 ELSE 16
        IN  IF advDead[n] > 1008 \/ advDead[n] \in {255} \cup 505 .. 511 THEN got = 1008
            ELSE got <= advDead[n] /\ got > advDead[n] - step
\* A counter set by the two reloads at the frequency asked for, above it by less
\* than a step of the prescaler, but where the first prescaler divides the clock
\* and leaves more than 16 bits to count: for a ratio from 65537 to 131071 it
\* always does.
ParametersFit ==
    \A freq \in AdvClocks, target \in AdvTargets :
        LET ratio == freq \div target
            first == First(freq, target)
            got   == PwmParameters(freq, target)
            count == (got.prescaler + 1) * (got.reload + 1)
        IN  IF first > 0 /\ ratio > PWM_COUNTER_SCALE * first /\ freq % first = 0 /\ ratio \div first > PWM_COUNTER_SCALE
            THEN count < ratio
            ELSE count <= ratio /\ ratio - count <= got.prescaler
-----------------------------------------------------------------------------
(***************************************************************************)
(* Capture: pwmA_isr and pwmB_isr, which differ in names only, and what    *)
(* they tell the application.  The counter counts up to the full scale and *)
(* wraps; an edge on a channel's pin latches it.  The interrupt is a       *)
(* single step and may come any time after its cause.                      *)
(***************************************************************************)
CONSTANTS
    CapScale,    \* 2^16, the values of a 16-bit counter
    CapUsage,    \* how the channels are used, [channel -> usage]
    CapTicks     \* bound: ticks of the counter in a behaviour

VARIABLES
    capNow,        \* ticks since the start; the counter is this % CapScale
    capFlags,      \* PWMx_SR1, the counter's flags
    capPending,    \* PWMx_SR1, the channels whose flag is set
    capCcr,        \* the latched counter of each channel
    capBrake,      \* the brake input is active
    capOverflow,   \* _counterOverflow
    capLast,       \* _channelLastCount, [counter, overflow]
    capReport,     \* what pwmOnChannelInterrupt was last given
    capEvent,      \* what pwmOnCounterInterrupt was last given
    capEdge,       \* history: when each channel's pin last moved
    capSeen,       \* history: the edge each channel last reported; -1 if none
    capTrue        \* history: the time between the edges of the last report

capVars == <<capNow, capFlags, capPending, capCcr, capBrake, capOverflow, capLast, capReport, capEvent,
             capEdge, capSeen, capTrue>>

CapChannel == DOMAIN CapUsage
CapturesOn(c) == CapUsage[c] \in {"SAME_PIN", "OTHER_PIN"}

\* The channel a capture is timed from, the other of its pair or itself
Reference(c) == IF CapUsage[c] = "OTHER_PIN" THEN (IF c % 2 = 0 THEN c + 1 ELSE c - 1) ELSE c

ASSUME CapAssumption ==
    /\ CapScale \in Nat \ {0}
    /\ CapChannel \subseteq Channel
    /\ \A c \in CapChannel : Reference(c) \in CapChannel

CapInit ==
    /\ capNow = 0 /\ capFlags = {} /\ capPending = {} /\ capBrake = FALSE
    /\ capCcr = [c \in CapChannel |-> 0]
    /\ capOverflow = 0
    /\ capLast = [c \in CapChannel |-> [counter |-> 0, overflow |-> 0]]
    /\ capReport = [channel |-> -1, value |-> 0] /\ capEvent = "none"
    /\ capEdge = [c \in CapChannel |-> 0]
    /\ capSeen = [c \in CapChannel |-> -1]
    /\ capTrue = -1

\* The counter, in hardware
Count ==
    /\ capNow < CapTicks
    /\ capNow' = capNow + 1
    /\ capFlags' = IF capNow' % CapScale = 0 THEN capFlags \cup {"UIF"} ELSE capFlags
    /\ UNCHANGED <<capPending, capCcr, capBrake, capOverflow, capLast, capReport, capEvent, capEdge, capSeen, capTrue>>

\* A channel's flag is set: its pin moved, or its PWM matched.
ChannelEvent ==
    /\ \E c \in CapChannel :
          /\ capPending' = capPending \cup {c}
          /\ IF CapturesOn(c)
             THEN /\ capCcr' = [capCcr EXCEPT ![c] = capNow % CapScale]
                  /\ capEdge' = [capEdge EXCEPT ![c] = capNow]
             ELSE UNCHANGED <<capCcr, capEdge>>
    /\ UNCHANGED <<capNow, capFlags, capBrake, capOverflow, capLast, capReport, capEvent, capSeen, capTrue>>

\* The brake input, a trigger
CounterEvent ==
    /\ \/ /\ capBrake' = ~capBrake
          /\ capFlags' = IF capBrake THEN capFlags ELSE capFlags \cup {"BIF"}
       \/ capFlags' = capFlags \cup {"TIF"} /\ UNCHANGED capBrake
    /\ UNCHANGED <<capNow, capPending, capCcr, capOverflow, capLast, capReport, capEvent, capEdge, capSeen, capTrue>>

\* pwmInitialiseCapture forgets the last count.
Recapture ==
    /\ \E c \in CapChannel :
          /\ CapturesOn(c)
          /\ capLast' = [capLast EXCEPT ![c] = [counter |-> 0, overflow |-> 0]]
          /\ capSeen' = [capSeen EXCEPT ![c] = -1]
    /\ UNCHANGED <<capNow, capFlags, capPending, capCcr, capBrake, capOverflow, capReport, capEvent, capEdge, capTrue>>

-----------------------------------------------------------------------------
\* The interrupt keeps the last channel and the last event it looks at, and
\* clears every flag it finds; the brake's stays while the input is active.
LastChannel == CHOOSE c \in capPending : \A d \in capPending : d <= c
LastEvent == IF "BIF" \in capFlags THEN "FAULT" ELSE IF "UIF" \in capFlags THEN "UPDATE"
             ELSE IF "TIF" \in capFlags THEN "TRIGGER" ELSE capEvent

Value(count) == count.overflow * CapScale + count.counter
Elapsed(new, last) == (Value(new) - Value(last)) % CapScale

\* A slip, for mutation runs only: the last count updated before it is used.
ReferenceCountNew(c, new) == IF Reference(c) = c THEN new ELSE capLast[Reference(c)]

ReferenceCount(c, new) == capLast[Reference(c)]

\* Who is told of a channel, and what a capture latched: the counter as of the edge,
\* the overflow as of now
IsTold(c) == CapUsage[c] # "UNUSED"

Latched(c, overflow) == [counter |-> capCcr[c], overflow |-> overflow]

CapIsr ==
    /\ capFlags # {} \/ capPending # {}
    /\ capPending' = {}
    /\ capFlags' = IF capBrake THEN capFlags \cap {"BIF"} ELSE {}
    /\ capOverflow' = IF "UIF" \in capFlags THEN (capOverflow + 1) % CapScale ELSE capOverflow
    /\ capEvent' = LastEvent
    /\ IF capPending = {} \/ ~IsTold(LastChannel)
       THEN UNCHANGED <<capLast, capReport, capSeen, capTrue>>
       ELSE LET c   == LastChannel
                new == Latched(c, capOverflow')
            IN  IF ~CapturesOn(c)
                THEN /\ capReport' = [channel |-> c, value |-> 0]
                     /\ UNCHANGED <<capLast, capSeen, capTrue>>
                ELSE /\ capReport' = [channel |-> c, value |-> Elapsed(new, ReferenceCount(c, new))]
                     /\ capLast' = [capLast EXCEPT ![c] = new]
                     /\ capSeen' = [capSeen EXCEPT ![c] = capEdge[c]]
                     /\ capTrue' = IF capSeen[Reference(c)] = -1 THEN -1
                                   ELSE capEdge[c] - capSeen[Reference(c)]
    /\ UNCHANGED <<capNow, capCcr, capBrake, capEdge>>

CapNext == Count \/ ChannelEvent \/ CounterEvent \/ Recapture \/ CapIsr

CapSpec == CapInit /\ [][CapNext]_capVars
-----------------------------------------------------------------------------
\* A capture reports the time since the last reported edge of its reference,
\* modulo the counter, however late the interrupt, whether the counter wrapped
\* before or after the edge, and whatever edges it had to leave out.
CapturesElapsed ==
    capReport.channel # -1 /\ CapturesOn(capReport.channel) /\ capTrue # -1 =>
        capReport.value = capTrue % CapScale
=============================================================================
