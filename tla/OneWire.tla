------------------------------ MODULE OneWire ------------------------------
(***************************************************************************)
(* The 1-Wire bus and the temperature sensor on it (drivers/onewire,       *)
(* drivers/DS18B20).  One line carries everything: who pulls it low, when  *)
(* and for how long is all there is to a bit.  The times below are the     *)
(* microseconds the driver waits; the sensor takes any time the data sheet *)
(* quoted in the driver's comments allows.                                 *)
(***************************************************************************)
EXTENDS Integers, Sequences

CONSTANTS OwRom,            \* the code of the sensor, a sequence of bytes (eight in the code)
          OwTemperatures,   \* what it may measure, 16 bits
          OwCalls           \* bound: the readings after the initialisation

\* A sensor has an identity of some bytes, and measures words of 16 bits.
ASSUME OwRomAssumption == OwRom \in Seq(0 .. 255) /\ OwRom # << >>
ASSUME OwTemperaturesAssumption == \A t \in OwTemperatures : t \in Nat /\ t < 65536

VARIABLES owTodo,      \* what the driver still does, slot by slot
          owGot,       \* the bytes received by the call, and the bits of the next one
          romCode,     \* sensor->__romCode
          owResult,    \* what the last call returned, [call, value]
          owSensor, owCalls

owVars == <<owTodo, owGot, romCode, owResult, owSensor, owCalls>>

OwBit(byte, k) == (byte \div 2 ^ k) % 2
LowByte(n)  == n % 256
HighByte(n) == (n \div 256) % 256

\* ---- the sensor: it is reset, then takes a command that names it, then one
\* that it executes; out is what it answers bit by bit to read slots

\* The status of the initialisation
InitOK == 0
NoOneWireSlave == 2

\* Bits go over the line least significant first.
BitsOf(bytes) == [n \in 1 .. 8 * Len(bytes) |-> OwBit(bytes[((n - 1) \div 8) + 1], (n - 1) % 8)]

OwValue(bits) ==
    bits[1] + 2 * bits[2] + 4 * bits[3] + 8 * bits[4] + 16 * bits[5] + 32 * bits[6] + 64 * bits[7] + 128 * bits[8]

Scratchpad(s) == <<LowByte(s.measured), HighByte(s.measured)>> \o s.limits \o <<255, 12, 16, 0>>

Now(s, mode, out) == [s EXCEPT !.mode = mode, !.in = << >>, !.out = out]

RomCommand(s, v) ==
    IF v = 51 THEN Now(s, "function", BitsOf(OwRom))
    ELSE IF v = 85 THEN Now(s, "match", s.out)
    ELSE Now(s, "idle", s.out)

FunctionCommand(s, v) ==
    IF v = 68 THEN Now(s, "converting", << >>)
    ELSE IF v = 78 THEN Now(s, "limits", << >>)
    ELSE IF v = 190 THEN Now(s, "idle", BitsOf(Scratchpad(s)))
    ELSE Now(s, "idle", s.out)

Limits(s) == [Now(s, "idle", s.out) EXCEPT !.limits = [i \in 1 .. 3 |-> OwValue(SubSeq(s.in, 8 * i - 7, 8 * i))]]

\* Eight bits of a command, or all those of its data, have come in
Understood(s) ==
    IF s.mode = "rom" /\ Len(s.in) = 8 THEN RomCommand(s, OwValue(s.in))
    ELSE IF s.mode = "match" /\ Len(s.in) = 8 * Len(OwRom)
         THEN Now(s, IF s.in = BitsOf(OwRom) THEN "function" ELSE "idle", s.out)
    ELSE IF s.mode = "function" /\ Len(s.in) = 8 THEN FunctionCommand(s, OwValue(s.in))
    ELSE IF s.mode = "limits" /\ Len(s.in) = 24 THEN Limits(s)
    ELSE s

Takes(s, bit) == IF s.mode \in {"idle", "converting"} THEN s ELSE Understood([s EXCEPT !.in = Append(@, bit)])

\* ---- slots

\* The driver pulls the line low for 480 microseconds and looks at it 70 after it
\* let go: a sensor answers 15 to 60 after that, for 60 to 240.  It waits 410 more.
Pause == {15, 40, 60}
Pulse == {60, 150, 240}

onewireReset(pause, pulse) ==
    [low  |-> owSensor.present /\ 70 >= pause /\ 70 < pause + pulse,
     free |-> ~owSensor.present \/ pause + pulse <= 70 + 410]

\* The line is low for the time of a write slot when the bit is zero, for a moment
\* when it is one; the sensor looks at it 15 to 60 later
SlotLow(bit) == IF bit = 0 THEN 60 ELSE 1
BitSampled(bit, when) == IF when < SlotLow(bit) THEN 0 ELSE 1

\* Of a read slot the driver looks at the line after 10; the sensor that has a zero
\* to send holds it until 15 at least
Answer(s) ==
    IF ~s.present THEN 1
    ELSE IF s.mode = "converting" THEN 0
    ELSE IF s.out # << >> THEN Head(s.out)
    ELSE 1

Seen(s, until) == IF Answer(s) = 0 /\ 10 < until THEN 0 ELSE 1

AfterRead(s) == IF s.out = << >> \/ s.mode = "converting" THEN s ELSE [s EXCEPT !.out = Tail(@)]

\* ---- what the calls do

SendOf(byte) == [op |-> "send", byte |-> byte, bit |-> 0]
Send(bytes)  == [i \in 1 .. Len(bytes) |-> SendOf(bytes[i])]
Receive(n)  == [op |-> "receive", left |-> 8 * n]
Op(name)    == [op |-> name]

Command(byte) == Send(<<byte>>)

ds18b20InitialiseSteps(precision) ==
    <<Op("check"), Op("command")>> \o Command(51) \o <<Receive(Len(OwRom)), Op("keep")>>
    \o Command(78) \o Send(<<0, 0, 31 + 32 * precision>>) \o <<Op("initialised")>>

ds18b20ReadSteps ==
    <<Op("reset")>> \o Command(85) \o Send(romCode) \o Command(68) \o <<Op("wait"), Op("reset")>>
    \o Command(85) \o Send(romCode) \o Command(190) \o <<Receive(9), Op("temperature")>>

Doing(op) == owTodo # << >> /\ Head(owTodo).op = op
OwRest == Tail(owTodo)

\* A reset: the first of the initialisation is also what tells if there is a sensor
Reset ==
    /\ Doing("reset") \/ Doing("check")
    /\ \E pause \in Pause, pulse \in Pulse :
          LET line == onewireReset(pause, pulse)
          IN  /\ owTodo' = IF Doing("check") /\ ~line.low THEN << >> ELSE OwRest
              /\ owResult' = IF Doing("check") /\ ~line.low THEN [call |-> "initialise", value |-> NoOneWireSlave]
                             ELSE owResult
              /\ owSensor' = IF owSensor.present
                             THEN [owSensor EXCEPT !.mode = IF line.free THEN "rom" ELSE "idle", !.in = << >>, !.out = << >>]
                             ELSE owSensor
    /\ UNCHANGED <<owGot, romCode, owCalls>>

\* The call has a command to send: what was received before is let go
Begin ==
    /\ Doing("command")
    /\ owTodo' = OwRest
    /\ owGot' = << >>
    /\ UNCHANGED <<romCode, owResult, owSensor, owCalls>>

\* _writeBit, of the next bit of a byte, least significant first
NextSentHigh == OwBit(Head(owTodo).byte, 7 - Head(owTodo).bit)   \* a slip: the most significant first
NextSent == OwBit(Head(owTodo).byte, Head(owTodo).bit)

WriteBit ==
    /\ Doing("send")
    /\ \E when \in {15, 30, 59} :
          owSensor' = IF owSensor.present THEN Takes(owSensor, BitSampled(NextSent, when)) ELSE owSensor
    /\ owTodo' = IF Head(owTodo).bit = 7 THEN OwRest ELSE <<[Head(owTodo) EXCEPT !.bit = @ + 1]>> \o OwRest
    /\ UNCHANGED <<owGot, romCode, owResult, owCalls>>

\* _readBit: shifted in from the top
ReadBit ==
    /\ Doing("receive")
    /\ \E until \in {15, 60} :
          owGot' = Append(owGot, Seen(owSensor, until))
    /\ owSensor' = AfterRead(owSensor)
    /\ owTodo' = IF Head(owTodo).left = 1 THEN OwRest ELSE <<[Head(owTodo) EXCEPT !.left = @ - 1]>> \o OwRest
    /\ UNCHANGED <<romCode, owResult, owCalls>>

\* onewireWaitForCompletion: read slots until one is not low
WaitForCompletion ==
    /\ Doing("wait")
    /\ owTodo' = IF Seen(owSensor, 15) = 1 THEN OwRest ELSE owTodo
    /\ UNCHANGED <<owGot, romCode, owResult, owSensor, owCalls>>

Received == [i \in 1 .. Len(owGot) \div 8 |-> OwValue(SubSeq(owGot, 8 * i - 7, 8 * i))]

Keep ==
    /\ Doing("keep")
    /\ romCode' = Received /\ owGot' = << >>
    /\ owTodo' = OwRest
    /\ UNCHANGED <<owResult, owSensor, owCalls>>

Return ==
    /\ Doing("initialised") \/ Doing("temperature")
    /\ owTodo' = << >> /\ owGot' = << >>
    /\ owResult' = IF Doing("initialised") THEN [call |-> "initialise", value |-> InitOK]
                   ELSE [call |-> "read", value |-> Received[2] * 256 + Received[1]]
    /\ UNCHANGED <<romCode, owSensor, owCalls>>

\* ---- the calls, and the conversion

ds18b20ReadTemperature ==
    /\ owTodo = << >> /\ owCalls > 0
    /\ owResult # [call |-> "initialise", value |-> NoOneWireSlave]
    /\ owCalls' = owCalls - 1
    /\ owTodo' = ds18b20ReadSteps /\ owGot' = << >>
    /\ UNCHANGED <<romCode, owResult, owSensor>>

Converted ==
    /\ owSensor.mode = "converting"
    /\ \E t \in OwTemperatures : owSensor' = [owSensor EXCEPT !.measured = t, !.mode = "idle"]
    /\ UNCHANGED <<owTodo, owGot, romCode, owResult, owCalls>>

OwInit ==
    \E present \in BOOLEAN, precision \in 0 .. 3 :
        /\ owSensor = [mode |-> "idle", in |-> << >>, out |-> << >>, present |-> present,
                       measured |-> 1360, limits |-> <<75, 70, 127>>, asked |-> precision]
        /\ owTodo = ds18b20InitialiseSteps(precision)
        /\ owGot = << >> /\ romCode = [i \in DOMAIN OwRom |-> 0]
        /\ owResult = [call |-> "none", value |-> 0]
        /\ owCalls = OwCalls

OwNext ==
    \/ Reset \/ Begin \/ WriteBit \/ ReadBit \/ WaitForCompletion \/ Keep \/ Return
    \/ ds18b20ReadTemperature
    \/ Converted

OwSpec == OwInit /\ [][OwNext]_owVars

\* What a call returns is true of the sensor: it is there or not, it has the
\* precision that was asked for, and the temperature is the one it measured for
\* this reading, whenever it answers within what it is allowed (onewire.c 58-119,
\* DS18B20.c 60-109)
SensorIsTold ==
    owTodo = << >> =>
        /\ owResult.call = "initialise" => owSensor.present = (owResult.value = InitOK)
        /\ owResult = [call |-> "initialise", value |-> InitOK] => romCode = OwRom /\ owSensor.limits = <<0, 0, 31 + 32 * owSensor.asked>>
        /\ owResult.call = "read" => owResult.value = owSensor.measured
=============================================================================
