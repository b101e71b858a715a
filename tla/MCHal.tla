------------------------------- MODULE MCHal -------------------------------
(***************************************************************************)
(* The uni-stc library, each unit on its own: one serial port, the PWM and *)
(* capture engines, the timers, the two buses, the flash, and the drivers  *)
(* of the displays and of the temperature sensor.  A behaviour is one of   *)
(* any of them; Frame keeps what belongs to the others.                    *)
(***************************************************************************)
EXTENDS UartHal, AdvPwm, EnhPwm, Pca, TimerHal, Buses, Eeprom, LcdPanel, LcdGraphics, Menu,
        OneWire, Upkeep, Rtc, MCPins, TLC

VARIABLE halUnit    \* the one that runs

CONSTANTS x0, x1

MCHalBlocks == {<<x0>>, <<x0, x1>>, <<x1, x0, x1>>}

\* Outputs with every field away from its default on channels of one counter,
\* and with the defaults on channels with and without a complementary output
MCOutputs ==
    {[channel |-> c, switch |-> 1, mode |-> 2, polarity |-> 1, fault |-> TRUE, idle |-> 1,
      enable |-> 3, ticks |-> 1, level |-> 0, buffered |-> FALSE] : c \in {0, 1, 3}}
    \cup {[channel |-> c, switch |-> 0, mode |-> 1, polarity |-> 0, fault |-> FALSE, idle |-> 0,
           enable |-> 1, ticks |-> 1, level |-> 1, buffered |-> TRUE] : c \in {2, 6}}

MCInputs == {[channel |-> c, switch |-> c % 3, edge |-> 1, source |-> 1] : c \in {2, 5}}

MCCapUsage == 0 :> "SAME_PIN" @@ 1 :> "OTHER_PIN" @@ 3 :> "OUTPUT"

MCPcaUse == 0 :> "timer" @@ 1 :> "capture" @@ 2 :> "pwm"
MCPcaDuties == {[bits |-> 8, high |-> 0], [bits |-> 8, high |-> 1], [bits |-> 8, high |-> 256], [bits |-> 6, high |-> 0]}

\* Around the limits of the counter, with and without its division by 12, and
\* of the prescaler
MCDivisors == {0, 65536, 65537, 131072, 65536 * 12, 65536 * 12 + 1, 65536 * 256, 65536 * 3071 + 5, 65536 * 3072 + 5}

\* With the switch of timers 3 and 4 and without, with few pins, and with the pins
\* of a timer left out of the package
MCTmrChip(family, pins, timers, lacks, onP1, switch) ==
    [family |-> family, pins |-> pins, timers |-> timers, lacks |-> lacks, onP1 |-> onP1, switch |-> switch]
MCTmrChips ==
    {MCTmrChip(8, 64, 0 .. 4, {<<1, 2>>}, FALSE, TRUE), MCTmrChip(8, 32, 0 .. 4, {<<1, 3>>}, FALSE, TRUE),
     MCTmrChip(8, 20, {0, 1, 2, 11}, {<<1, 2>>}, FALSE, FALSE), MCTmrChip(8, 48, 0 .. 4, {}, FALSE, FALSE),
     MCTmrChip(8, 8, {0, 1}, {}, FALSE, FALSE), MCTmrChip(15, 44, 0 .. 4, {}, FALSE, FALSE),
     MCTmrChip(15, 28, 0 .. 4, {}, FALSE, FALSE), MCTmrChip(15, 16, {0, 2}, {<<3, 4>>, <<3, 5>>}, TRUE, FALSE),
     MCTmrChip(15, 8, {0, 2}, {<<3, 4>>, <<3, 5>>}, FALSE, FALSE), MCTmrChip(12, 40, 0 .. 2, {}, FALSE, FALSE)}

MCSpiSizes == <<{1, 3}, {2}>>

\* Blocks that end at a page's last byte, begin at its last byte, fill it, lie
\* over two, and stay inside one
MCEeBlock(at, values) == [at |-> at, data |-> [i \in DOMAIN values |-> BitsAt(values[i], 0)]]
MCEeBlocks ==
    {MCEeBlock(0, <<17, 90>>), MCEeBlock(2, <<3, 0, 255, 1>>), MCEeBlock(4, <<8, 9, 10, 11>>),
     MCEeBlock(11, <<7>>), MCEeBlock(9, <<1, 2, 4>>)}
MCEeBytes == {BitsAt(90, 0), BitsAt(165, 0)}

MCLcdModels ==
    {<<"HD44780", "parallel8", 2>>, <<"HD44780", "parallel4", 4>>, <<"HD44780", "i2c", 2>>, <<"HD44780", "i2c", 1>>,
     <<"ST7920", "parallel8", 4>>, <<"ST7920", "serial", 4>>, <<"PCD8544", "spi", 0>>, <<"ST756x", "spi", 0>>,
     <<"UC1609", "spi", 0>>}

\* A panel whose memory has a byte to a column, one whose memory a reset left
\* full, and one of words in two halves
MCGfxDevices ==
    {[controller |-> "PCD8544", width |-> 84, height |-> 40, before |-> {}],
     [controller |-> "UC1609", width |-> 24, height |-> 16, before |-> (0 .. 1) \X (0 .. 23) \X (0 .. 7)],
     [controller |-> "ST7920", width |-> 128, height |-> 64, before |-> {}]}

MCGfxPoints     == {<<0, 0>>, <<17, 9>>}
MCGfxLines      == {<<<<0, 0>>, <<13, 5>>>>, <<<<20, 3>>, <<17, 12>>>>, <<<<9, 8>>, <<2, 8>>>>, <<<<5, 14>>, <<5, 2>>>>,
                    <<<<100, 20>>, <<70, 43>>>>}
MCGfxRectangles == {<<0, 3, <<1, 1>>>>, <<3, 2, <<14, 30>>>>}
MCGfxImages     == {[width |-> 9, height |-> 3, bits |-> {<<0, 0>>, <<8, 2>>, <<4, 1>>}]}
MCGfxFont       == [width |-> 6, offset |-> -65, glyphs |-> 0 :> {<<0, 0>>, <<5, 6>>} @@ 1 :> {<<2, 3>>}]
MCGfxTexts      == {<<66, 32, 65, 66, 65>>}

\* Labels as long as the screen is wide, longer than a label may be, and short;
\* options that are not enabled, a default that is not the first, places of
\* their own, and widths given and not
MCOption(label, enabled, default, value, row, col) ==
    [label |-> label, isEnabled |-> enabled, isDefault |-> default, value |-> value, row |-> row, col |-> col]
MCOptions == {<<MCOption(<<"a", "b">>, TRUE, FALSE, 1, 1, 0),
                MCOption(<<"c", "d", "e", "f", "g", "h">>, TRUE, d, 2, 2, 3),
                MCOption(<<"i">>, e, FALSE, 3, 0, 6)>> : d, e \in BOOLEAN}
MCMenus == {[options |-> o, mode |-> m, width |-> 0, row |-> 1, col |-> 2] :
               o \in MCOptions, m \in {"list", "single", "positionned"}}
MCMenuLabels == {<<"k">>, <<"l", "m", "n", "o", "p", "q", "r">>}

MCOwRom == <<40, 177>>

\* Every family at clocks from the slowest to the fastest, some of them of crystals
\* for baud rates; the STC90 has two counts of cycles
MCUpClocks == {2000, 5529, 6000, 11059, 12000, 16000, 18432, 20000, 22118, 24000, 30000, 32000, 33177, 35000, 45000}
MCUpChips ==
    {[family |-> f, cycles |-> 1, kHz |-> k] : f \in {8, 12, 15}, k \in MCUpClocks}
    \cup {[family |-> 90, cycles |-> c, kHz |-> k] : c \in {6, 12}, k \in MCUpClocks}
MCUpUnused == {[port |-> 0, mask |-> {1, 2}], [port |-> 6, mask |-> {1, 2}], [port |-> 3, mask |-> {7}]}

MCRtcRadix == <<2, 2, 2>>
MCRtcTimes == {<<0, 0, 1>>, <<1, 1, 1>>}

HalUnits == {"uart", "advpwm", "capture", "enhpwm", "pca", "timer", "spi", "i2c", "eeprom", "panel", "graphics", "menu",
             "onewire", "pins", "adc", "upkeep", "rtc"}

Frame ==
    /\ UNCHANGED halUnit
    /\ halUnit # "uart"    => UNCHANGED halVars
    /\ halUnit # "advpwm"  => UNCHANGED advVars
    /\ halUnit # "capture" => UNCHANGED capVars
    /\ halUnit # "enhpwm"  => UNCHANGED enhVars
    /\ halUnit # "pca"     => UNCHANGED pcaVars
    /\ halUnit # "timer"   => UNCHANGED tmrVars
    /\ halUnit # "spi"     => UNCHANGED spiVars
    /\ halUnit # "i2c"     => UNCHANGED i2cVars
    /\ halUnit # "eeprom"  => UNCHANGED eeVars
    /\ halUnit # "panel"    => UNCHANGED lcdVars
    /\ halUnit # "graphics" => UNCHANGED gfxVars
    /\ halUnit # "menu"     => UNCHANGED menuVars
    /\ halUnit # "onewire"  => UNCHANGED owVars
    /\ halUnit \notin {"pins", "adc"} => UNCHANGED pinVars
    /\ halUnit # "adc"      => UNCHANGED adcVars
    /\ halUnit # "upkeep"   => UNCHANGED upVars
    /\ halUnit # "rtc"      => UNCHANGED rtcVars

UnitsInit ==
    /\ halUnit \in HalUnits
    /\ HalInit /\ AdvInit /\ CapInit /\ PcaInit /\ TmrInit /\ SpiInit /\ I2cInit /\ EeInit
    /\ EnhInit /\ (halUnit # "enhpwm" => enhKind = "STC15")
    /\ GfxInit /\ (halUnit # "graphics" => gfxDevice.controller = "PCD8544")
    /\ LcdInit /\ (halUnit # "panel" => lcdModel.controller = "PCD8544")
    /\ MenuInit /\ (halUnit # "menu" => menu.mode = "single" /\ selectedOption = 1
                                         /\ ~menu.options[2].isDefault /\ menu.options[3].isEnabled)
    /\ PinsInit /\ (halUnit # "pins" => pinChip.pins = 64 \/ (halUnit = "adc" /\ pinChip.family = 12))
    /\ AdcInit /\ (halUnit # "adc" \/ pinChip.family # 8 => adcClock.freq = 240)
    /\ OwInit /\ (halUnit # "onewire" => owSensor.present /\ owSensor.asked = 0)
    /\ UpInit /\ (halUnit # "upkeep" => upChip = [family |-> 8, cycles |-> 1, kHz |-> 24000] /\ upTime = 1
                                         /\ upFlags = {"POF"})
    /\ RtcInit

UnitsNext ==
    /\ Frame
    /\ \/ halUnit = "uart" /\ HalNext
       \/ halUnit = "advpwm" /\ AdvNext
       \/ halUnit = "capture" /\ CapNext
       \/ halUnit = "enhpwm" /\ EnhNext
       \/ halUnit = "pca" /\ PcaNext
       \/ halUnit = "timer" /\ TmrNext
       \/ halUnit = "spi" /\ SpiNext
       \/ halUnit = "i2c" /\ I2cNext
       \/ halUnit = "eeprom" /\ EeNext
       \/ halUnit = "panel" /\ LcdNext
       \/ halUnit = "graphics" /\ GfxNext
       \/ halUnit = "menu" /\ MenuNext
       \/ halUnit = "onewire" /\ OwNext
       \/ halUnit = "pins" /\ PinsNext
       \/ halUnit = "adc" /\ AdcNext
       \/ halUnit = "upkeep" /\ UpNext
       \/ halUnit = "rtc" /\ RtcNext

HalUnitsSpec ==
    UnitsInit /\ [][UnitsNext]_<<halUnit, halVars, advVars, capVars, enhVars, pcaVars, tmrVars, spiVars, i2cVars, eeVars,
                                lcdVars, gfxVars, menuVars, owVars, pinVars, adcVars, upVars,
                                rtcVars>>
-----------------------------------------------------------------------------
\* Each of these looks at the units it is about, while they run.
About(units) == halUnit \in units

\* A delay, the watchdog, the wake-up timer and the clock go by the time they were
\* given; a reset is told from another, and an alarm not lost (delay.c,
\* reset-hal.c, power-hal.c, rtc-hal.c, sysclk-hal.c).
TimeKept ==
    /\ About({"upkeep"}) => Upkept
    /\ About({"rtc"}) => ClockKept

\* What a timer, a timer channel or a duty cycle was set to is what the counters
\* then do (timer-hal.c, pca-hal.c); and so is what else goes by the clock, the
\* speed of a bus among it (spi-hal.c, i2c-hal.c).
PeriodsAsAsked ==
    /\ About({"timer"}) => DividesAsAsked /\ TimerPinsApart
    /\ About({"pca"}) => TimersOnTime /\ DutyAsAsked
    /\ About({"spi"}) => BusSpeedsAsAsked
    /\ TimeKept

\* Units that share the registers of the pins keep out of each other's, and a
\* reader of the converter gets the channel it asked for (spi-hal.c, i2c-hal.c,
\* pca-hal.c and adc-comp-hal.c).
PinsAsAsked ==
    /\ About({"pins"}) => SwitchedAsAsked /\ PinsKept
    /\ About({"adc"}) => ReadsWhatWasAsked /\ WaitsForOne /\ SpeedBounded

\* A panel is in the mode, of the width and at the half byte that its driver takes
\* it to be, and its screen shows every figure that was drawn, where it was asked
\* to be (the controllers, lcd-graphics.c).
DisplaysAsAsked ==
    /\ PanelDoesAsAsked
    /\ About({"graphics"}) => ScreenFollowsBuffer /\ FiguresAsAsked
=============================================================================
