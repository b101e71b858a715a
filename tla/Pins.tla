-------------------------------- MODULE Pins --------------------------------
(***************************************************************************)
(* Which pins the SPI, I2C, PCA and ADC of a chip have, and what the four  *)
(* HALs make of them (spi-hal.c, i2c-hal.c, pca-hal.c, adc-comp-hal.c):    *)
(* each sets its field of a switch register they share and hands its pins  *)
(* to gpioConfigure (Gpio), which goes by the mask in the configuration,   *)
(* not by its pin number.  A pin is ten times its port plus its bit.       *)
(***************************************************************************)
EXTENDS Integers, Sequences, SequencesExt

CONSTANTS
    PinChips,    \* the chips: family, series, pins, the channels pca and adc,
                 \* noChannel3, the pins it lacks, master (HAL_SPI_MASTER_MODE)
    PinPorts,    \* the ports of all of them
    PinFeature,  \* the GPIO registers they have, as in Gpio
    PinCalls     \* bound: the calls made

VARIABLES
    pinChip,     \* the chip
    pinRegs,     \* the registers of the ports, as in Gpio
    pSw1, pSw2,  \* P_SW1 and P_SW2
    pcaPinSwitch,
    pinTold,     \* history: [by, mode] of the last call that was about a pin
    pinRouted,   \* history: per unit, the switch it asked for last
    pinCalls     \* bound: the calls so far

pinVars == <<pinChip, pinRegs, pSw1, pSw2, pcaPinSwitch, pinTold, pinRouted, pinCalls>>

G == INSTANCE Gpio WITH Port <- PinPorts, Feature <- PinFeature

Pin == {10 * p + b : p \in PinPorts, b \in G!Bit}


\* Out of reset the ports of family 8 are inputs, the others weakly driven.
ResetMode(chip) == IF chip.family = 8 THEN G!HIGH_IMPEDANCE ELSE G!BIDIRECTIONAL

PinsInit ==
    /\ pinChip \in PinChips
    /\ pinRegs = [p \in PinPorts |->
                     [r \in G!Reg |-> IF r = "IE" \/ (r = "M1" /\ pinChip.family = 8) THEN G!Bit ELSE {}]]
    /\ pSw1 = 0 /\ pSw2 = 0 /\ pcaPinSwitch = 0
    /\ pinTold = [p \in Pin |-> [by |-> "reset", mode |-> ResetMode(pinChip)]]
    /\ pinRouted = [u \in {"spi", "i2c", "pca"} |-> 0]
    /\ pinCalls = 0

-----------------------------------------------------------------------------
(***************************************************************************)
(* The tables.                                                             *)
(***************************************************************************)
When(condition, rows) == IF condition THEN rows ELSE {}

SpiRow(switch, ss, mosi, miso, sclk) ==
    [switch |-> switch, ss |-> ss, mosi |-> mosi, miso |-> miso, sclk |-> sclk]

SpiRows8(chip) ==
    When(chip.pins = 8, {SpiRow(0, 55, 54, 33, 32)})
    \cup When(chip.pins > 8 /\ {13, 14, 15} \cap chip.lacks = {},
              IF chip.series = "H" /\ 12 \in chip.lacks THEN {SpiRow(0, 54, 13, 14, 15)}
              ELSE When(chip.pins >= 20, {SpiRow(0, 12, 13, 14, 15)}))
    \cup When(chip.pins >= 28, {SpiRow(1, 22, 23, 24, 25)})
    \cup When(chip.series \in {"G", "H"} /\ chip.pins >= 44, {SpiRow(2, 54, 40, 41, 43)})
    \cup When(chip.series = "A" /\ chip.pins = 64, {SpiRow(2, 74, 75, 76, 77)})
    \cup When(chip.pins > 8, {SpiRow(3, 35, 34, 33, 32)})

SpiRows15(chip) ==
    {SpiRow(0, 12, 13, 14, 15)}
    \cup When(chip.pins >= 28, {SpiRow(1, 24, 23, 22, 21)})
    \cup When(chip.pins >= 44, {SpiRow(2, 54, 40, 41, 43)})

SpiRows12(chip) ==
    {SpiRow(0, 14, 15, 16, 17)} \cup When(chip.pins >= 44, {SpiRow(1, 40, 41, 42, 43)})

SpiRows(chip) ==
    CASE chip.family = 8 -> SpiRows8(chip) [] chip.family = 15 -> SpiRows15(chip) [] chip.family = 12 -> SpiRows12(chip)

I2cRow(switch, scl, sda) == [switch |-> switch, scl |-> scl, sda |-> sda]

I2cRows(chip) ==
    IF chip.pins = 8 THEN {I2cRow(0, 32, 33), I2cRow(1, 54, 55)}
    ELSE When(chip.pins >= 20, {I2cRow(0, 15, 14)}) \cup When(chip.pins >= 28, {I2cRow(1, 25, 24)})
         \cup When(chip.pins = 64, {I2cRow(2, 77, 76)}) \cup {I2cRow(3, 32, 33)}

\* The rows of the PCA, by switch, and in them its channels and its clock
PcaRows(chip) ==
    CASE chip.family = 8 /\ chip.series = "G" /\ chip.pins = 8 ->
            <<<<32, 33, 54, 55>>, <<32, 33, 55, 31>>, <<31, 33, 54, 55>>>>
      [] chip.family = 8 /\ chip.series = "A" ->
            <<<<17, 16, 15, 14, 12>>, <<23, 24, 25, 26, 22>>, <<70, 71, 72, 73, 74>>, <<33, 32, 31, 30, 35>>>>
      [] chip.family = 15 /\ chip.pca = 2 -> <<<<11, 10, 12>>, <<35, 36, 34>>, <<25, 26, 24>>>>
      [] (chip.family = 8 /\ chip.series = "G" /\ chip.pins > 8) \/ (chip.family = 15 /\ chip.pca # 2) ->
            <<<<11, 10, 37, 12>>, <<35, 36, 37, 34>>>>
            \o (IF 25 \in chip.lacks THEN << >> ELSE <<<<25, 26, 27, 24>>>>)
      [] chip.family = 12 -> <<<<13, 14, 12>>, <<42, 43, 41>>>>
      [] OTHER -> << >>

\* The ADC channels that have a pin
Run(first, last, pin) == [c \in first .. last |-> pin + c - first]

AdcPins(chip) ==
    CASE chip.family # 8 -> Run(0, 7, 10)
      [] chip.series = "H" /\ chip.adc = 9 -> Run(0, 1, 10) @@ Run(8, 14, 30)
      [] chip.series = "H" /\ chip.adc = 15 -> Run(0, 1, 10) @@ Run(2, 2, 54) @@ Run(6, 7, 16) @@ Run(8, 14, 0)
      [] chip.series = "H" /\ chip.adc = 12 /\ chip.noChannel3 -> Run(0, 2, 10) @@ Run(6, 7, 16) @@ Run(8, 14, 0)
      [] chip.series = "H" /\ chip.adc = 12 /\ ~chip.noChannel3 -> Run(0, 7, 10) @@ Run(8, 11, 0)
      [] chip.series # "H" /\ chip.adc = 6 -> Run(0, 3, 30) @@ Run(4, 5, 54)
      [] OTHER -> Run(0, 7, 10) @@ Run(8, 14, 0)

-----------------------------------------------------------------------------
(***************************************************************************)
(* What is handed to gpioConfigure, which sets one pin up after the other. *)
(***************************************************************************)
Cfg(pin, mask, mode) ==
    [port |-> pin \div 10, pin |-> pin % 10, count |-> 1, mode |-> mode, pins |-> {mask}, options |-> {"IE"}]

\* A slip, for mutation runs only: the mask of the pins around.
SingleWide(pin, mode) == [Cfg(pin, pin % 10, mode) EXCEPT !.pins = {pin % 10, ((pin % 10) + 1) % 8}]

\* GPIO_PIN_CONFIG
Single(pin, mode) == Cfg(pin, pin % 10, mode)

\* What SPI and I2C make of GPIO_PIN_CONFIG(GPIO_PORT3, GPIO_PIN0, ...): they
\* override its port and its pin, and leave the mask of GPIO_PIN0.
Overridden(pin, mode) == Cfg(pin, 0, mode)

SpiPins(row, mode) ==
    IF pinChip.master
    THEN <<Overridden(row.miso, G!HIGH_IMPEDANCE), Overridden(row.mosi, mode), Overridden(row.sclk, mode)>>
    ELSE <<Overridden(row.mosi, G!HIGH_IMPEDANCE), Overridden(row.sclk, G!HIGH_IMPEDANCE),
           Overridden(row.ss, G!HIGH_IMPEDANCE), Overridden(row.miso, mode)>>

I2cPins(row) == <<Overridden(row.sda, G!OPEN_DRAIN), Overridden(row.scl, G!OPEN_DRAIN)>>

SetUp(cfgs) == FoldLeft(G!Configured, pinRegs, cfgs)
Tell(by, cfgs) ==
    FoldLeft(LAMBDA told, c : [told EXCEPT ![10 * c.port + c.pin] = [by |-> by, mode |-> c.mode]], pinTold, cfgs)

\* A field of a switch register: `width` values from bit 2^k = weight on
Field(register, weight, width) == (register \div weight) % width
WithField(register, weight, width, value) ==
    register - Field(register, weight, width) * weight + (value % width) * weight

SpiField(chip) == IF chip.family = 12 THEN [weight |-> 32, width |-> 2] ELSE [weight |-> 4, width |-> 4]
PcaField(chip) == IF chip.family = 12 THEN [weight |-> 64, width |-> 2] ELSE [weight |-> 16, width |-> 4]

\* A slip, for mutation runs only: the SPI's field left as it was, the new
\* value put over it.
SpiSwitchedOver(switch) == pSw1 + (switch % SpiField(pinChip).width) * SpiField(pinChip).weight

SpiSwitched(switch) == WithField(pSw1, SpiField(pinChip).weight, SpiField(pinChip).width, switch)
PcaSwitched(switch) == WithField(pSw1, PcaField(pinChip).weight, PcaField(pinChip).width, switch)

-----------------------------------------------------------------------------
Modes == G!BIDIRECTIONAL .. G!OPEN_DRAIN

PinCall == pinCalls < PinCalls /\ pinCalls' = pinCalls + 1 /\ UNCHANGED pinChip

\* spiConfigure's pins: a switch the table lacks changes nothing.
spiConfigurePins ==
    /\ PinCall
    /\ \E switch \in 0 .. 3, mode \in {G!BIDIRECTIONAL, G!PUSH_PULL} :
          \/ /\ \A row \in SpiRows(pinChip) : row.switch # switch
             /\ UNCHANGED <<pinRegs, pSw1, pinTold, pinRouted>>
          \/ \E row \in SpiRows(pinChip) :
                /\ row.switch = switch
                /\ pSw1' = SpiSwitched(switch)
                /\ pinRegs' = SetUp(SpiPins(row, mode))
                /\ pinTold' = Tell("spi", SpiPins(row, mode))
                /\ pinRouted' = [pinRouted EXCEPT !["spi"] = switch]
    /\ UNCHANGED <<pSw2, pcaPinSwitch>>

\* _i2cConfigurePins, of a master
i2cConfigurePins ==
    /\ PinCall /\ pinChip.family = 8
    /\ \E row \in I2cRows(pinChip) :
          /\ pSw2' = WithField(pSw2, 16, 4, row.switch)
          /\ pinRegs' = SetUp(I2cPins(row))
          /\ pinTold' = Tell("i2c", I2cPins(row))
          /\ pinRouted' = [pinRouted EXCEPT !["i2c"] = row.switch]
    /\ UNCHANGED <<pSw1, pcaPinSwitch>>

\* pcaStartCounter's switch
pcaStartCounterPins ==
    /\ PinCall
    /\ \E switch \in 0 .. Len(PcaRows(pinChip)) - 1 :
          /\ pcaPinSwitch' = switch
          /\ pSw1' = PcaSwitched(switch)
          /\ pinRouted' = [pinRouted EXCEPT !["pca"] = switch]
    /\ UNCHANGED <<pinRegs, pSw2, pinTold>>

\* _configureChannel
ConfigureChannel(channel, mode) ==
    LET cfg == Single(PcaRows(pinChip)[pcaPinSwitch + 1][channel], mode)
    IN  /\ pinRegs' = SetUp(<<cfg>>)
        /\ pinTold' = Tell("pca", <<cfg>>)

\* pcaConfigureOutput and pcaConfigureInput, which correct a mode that is not
\* for an output or an input
OutputMode(mode) == IF mode = G!HIGH_IMPEDANCE THEN G!BIDIRECTIONAL ELSE mode
InputMode(mode)  == IF mode \in {G!PUSH_PULL, G!OPEN_DRAIN} THEN G!HIGH_IMPEDANCE ELSE mode

pcaConfigureOutput ==
    /\ PinCall /\ PcaRows(pinChip) # << >>
    /\ \E channel \in 1 .. pinChip.pca, mode \in Modes : ConfigureChannel(channel, OutputMode(mode))
    /\ UNCHANGED <<pSw1, pSw2, pcaPinSwitch, pinRouted>>

pcaConfigureInput ==
    /\ PinCall /\ PcaRows(pinChip) # << >>
    /\ \E channel \in 1 .. pinChip.pca, mode \in Modes : ConfigureChannel(channel, InputMode(mode))
    /\ UNCHANGED <<pSw1, pSw2, pcaPinSwitch, pinRouted>>

\* adcConfigureChannel: an input, without its digital buffer where there is one;
\* a channel without a pin changes nothing.
AnalogInput(pin) == [Single(pin, G!HIGH_IMPEDANCE) EXCEPT !.options = {}]

adcConfigureChannel ==
    /\ PinCall
    /\ \E channel \in 0 .. 15 :
          IF channel \in DOMAIN AdcPins(pinChip)
          THEN LET cfg == AnalogInput(AdcPins(pinChip)[channel])
               IN  pinRegs' = SetUp(<<cfg>>) /\ pinTold' = Tell("adc", <<cfg>>)
          ELSE UNCHANGED <<pinRegs, pinTold>>
    /\ UNCHANGED <<pSw1, pSw2, pcaPinSwitch, pinRouted>>

PinsNext ==
    \/ spiConfigurePins \/ i2cConfigurePins
    \/ pcaStartCounterPins \/ pcaConfigureOutput \/ pcaConfigureInput
    \/ adcConfigureChannel
-----------------------------------------------------------------------------
Mode(pin) == G!Mode(pinRegs, pin \div 10, pin % 10)

\* Each unit is switched to the pins it asked for last, though the fields that
\* say so share a register.
SwitchedAsAsked ==
    /\ Field(pSw1, SpiField(pinChip).weight, SpiField(pinChip).width) = pinRouted["spi"] % SpiField(pinChip).width
    /\ Field(pSw1, PcaField(pinChip).weight, PcaField(pinChip).width) = pinRouted["pca"] % PcaField(pinChip).width
    /\ Field(pSw2, 16, 4) = pinRouted["i2c"]

\* A pin is as the last call about it wanted, whatever was set up for the units
\* around it; but pin 0 of any port, and the pins of the SPI and the I2C, may not
\* be (PinsConfigured).
PinsKept ==
    \A pin \in Pin :
        pin % 10 # 0 /\ pinTold[pin].by \in {"reset", "pca", "adc"} => Mode(pin) = pinTold[pin].mode

\* The pins of the SPI are in the mode it was configured with.  "On all STC8G,
\* STC8H and the STC8A8K64D4, GPIO ports are configured in high-impedance mode by
\* default, so configuring the output pins mode is *REQUIRED*" (spi-hal.c 98-100).
PinsConfigured == \A pin \in Pin : pinTold[pin].by = "spi" => Mode(pin) = pinTold[pin].mode
=============================================================================
