-------------------------------- MODULE Gpio --------------------------------
(***************************************************************************)
(* uni-stc/hal/gpio-hal.c: the port registers and the functions that       *)
(* change them, as operators.  A byte is the set of its bits that are 1,   *)
(* so setMask is a set of pins and clearMask its complement.               *)
(*                                                                         *)
(* Reading a port gives the levels of its lines, not what was last written *)
(* to its latch: `P1 |= m` works on the latch, `x = P1` on the lines.      *)
(***************************************************************************)
EXTENDS Integers

CONSTANTS
    Port,      \* the ports this chip has
    Feature    \* of "PU_NCS", "SR_DR_IE", "INT_WK", what GPIO_HAS_... says

Bit == 0 .. 7

BIDIRECTIONAL  == 0
PUSH_PULL      == 1
HIGH_IMPEDANCE == 2
OPEN_DRAIN     == 3

\* The registers of a port, beside its latch
InputRegs ==
    (IF "PU_NCS" \in Feature THEN {"NCS", "PU"} ELSE {})
    \cup (IF "SR_DR_IE" \in Feature THEN {"IE"} ELSE {})
    \cup (IF "INT_WK" \in Feature THEN {"IM1", "IM0", "INTF", "INTE", "WKUE"} ELSE {})
OutputRegs == IF "SR_DR_IE" \in Feature THEN {"DR", "SR"} ELSE {}
ModeRegs   == {"M1", "M0"}
Reg == ModeRegs \cup InputRegs \cup OutputRegs

\* _isInput and _isOutput
IsInput(cfg)  == cfg.mode \in {BIDIRECTIONAL, HIGH_IMPEDANCE}
IsOutput(cfg) == cfg.mode \in {BIDIRECTIONAL, PUSH_PULL, OPEN_DRAIN}

\* _gpio_setBits
SetBits(value, on, cfg) == IF on THEN value \cup cfg.pins ELSE value \ cfg.pins

\* The ports, as the two switches of gpioConfigure list them
LowPort  == Port \cap 0 .. 3
HighPort == Port \cap 4 .. 7

\* The first switch: a port the chip lacks reads as zeros.
LowRegs(regs, cfg)  == IF cfg.port \in LowPort THEN regs[cfg.port] ELSE [r \in Reg |-> {}]
HighRegs(regs, cfg) == IF cfg.port \in HighPort THEN regs[cfg.port] ELSE [r \in Reg |-> {}]

PortRegs(regs, cfg) == [r \in Reg |-> LowRegs(regs, cfg)[r] \cup HighRegs(regs, cfg)[r]]

\* What the configuration asks of its pins in each register; interrupt flags
\* are cleared whatever it asks.
Wanted(cfg) ==
    (IF cfg.mode \in {HIGH_IMPEDANCE, OPEN_DRAIN} THEN {"M1"} ELSE {})
    \cup (IF cfg.mode \in {PUSH_PULL, OPEN_DRAIN} THEN {"M0"} ELSE {})
    \cup (cfg.options \ {"INTF"})

Merged(old, cfg) ==
    [r \in Reg |->
        IF r \in ModeRegs \/ (r \in InputRegs /\ IsInput(cfg)) \/ (r \in OutputRegs /\ IsOutput(cfg))
        THEN SetBits(old[r], r \in Wanted(cfg), cfg)
        ELSE old[r]]

\* The second switch: the port gets all its registers back, or no port does.
SetLow(regs, cfg, new)  == IF cfg.port \in LowPort THEN [regs EXCEPT ![cfg.port] = new] ELSE regs
SetHigh(regs, cfg, new) == IF cfg.port \in HighPort THEN [regs EXCEPT ![cfg.port] = new] ELSE regs

\* gpioConfigure
Configured(regs, cfg) ==
    LET new == Merged(PortRegs(regs, cfg), cfg)
    IN  SetHigh(SetLow(regs, cfg, new), cfg, new)

Mode(regs, p, b) ==
    (IF b \in regs[p]["M1"] THEN 2 ELSE 0) + (IF b \in regs[p]["M0"] THEN 1 ELSE 0)

\* What a line carries: a push-pull output its latch, an input whatever the
\* outside does (`low` are the lines pulled low, the others are pulled up),
\* the other modes a low of either.
Lines(regs, latch, low, p) ==
    {b \in Bit :
        CASE Mode(regs, p, b) = PUSH_PULL      -> b \in latch[p]
          [] Mode(regs, p, b) = HIGH_IMPEDANCE -> b \notin low[p]
          [] OTHER                             -> b \in latch[p] /\ b \notin low[p]}

\* _getPort
GetPort(lines, port) == IF port \in Port THEN lines ELSE {}

\* gpioRead, in the bits of the configured pins
Read(lines, cfg) == {b - cfg.pin : b \in GetPort(lines, cfg.port) \cap cfg.pins}

\* gpioWrite of one pin: the latch alone, bit by bit
WriteOne(latch, lines, cfg, value) ==
    IF value # {} THEN latch \cup cfg.pins ELSE latch \ cfg.pins

\* gpioWrite of several: the other bits are written back as the lines read
WriteSeveral(latch, lines, cfg, value) ==
    ({b + cfg.pin : b \in value} \cap cfg.pins) \cup (GetPort(lines, cfg.port) \ cfg.pins)

Written(latch, lines, cfg, value) ==
    IF cfg.port \notin Port THEN latch
    ELSE [latch EXCEPT ![cfg.port] =
             IF cfg.count = 1 THEN WriteOne(@, lines, cfg, value)
                              ELSE WriteSeveral(@, lines, cfg, value)]

\* gpioToggle
Toggled(latch, lines, cfg) ==
    Written(latch, lines, cfg, IF Read(lines, cfg) = {} THEN {0} ELSE {})
=============================================================================
