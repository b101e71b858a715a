------------------------------- MODULE Board -------------------------------
(***************************************************************************)
(* The start of the firmware: main brings the bus up (board_bus_init walks *)
(* the resource table of board_bus.c through bus_io_management.c), then    *)
(* registers the doors, each configuring its own pins, and runs.  The pins *)
(* are those of gpio-hal.c (module Gpio).                                  *)
(*                                                                         *)
(* What main does besides (UART1, Timer0, the scheduler, the debouncers)   *)
(* touches no port register and is left to their own modules.              *)
(***************************************************************************)
EXTENDS Gpio, Sequences

CONSTANTS
    BoardDoors,  \* DOORLOCK_DOOR_MAX, 4
    CfgKeys,     \* CFG_KEY_CNT, 4
    Models       \* bound: resource tables, [type, pins, ok] each; the board's
                 \* own, and others bus_io_management has to tell from it

VARIABLES
    portRegs,   \* the mode registers of every port
    portLatch,  \* what was last written to every port
    portLow,    \* the lines the outside pulls low
    model,      \* the table main passes
    managed,    \* g_mgr.initialized
    bringUp,    \* reset -> bus -> doors -> run, or failed
    nextUp,     \* the next resource, or the next door
    commanded   \* history: per door, the level last written to its relay

boardVars == <<portRegs, portLatch, portLow, model, managed, bringUp, nextUp, commanded>>

BoardDoor == 0 .. BoardDoors - 1

\* door0_io to door3_io and button_io
DetectPin(d) == <<1, d>>
ButtonPin(d) == <<0, d>>
RelayPin(d)  == <<2, d>>
KeyPin(k)    == <<3, k + 2>>
InputPins  == {DetectPin(d) : d \in BoardDoor} \cup {ButtonPin(d) : d \in BoardDoor}
              \cup {KeyPin(k) : k \in 0 .. CfgKeys - 1}
UartPins   == {<<3, 0>>, <<3, 1>>}

\* board_all_resources: only the buttons have pins to configure here.
BoardModel ==
    [i \in 1 .. BoardDoors |-> [type |-> "custom", pins |-> << >>, ok |-> TRUE]]
    \o << [type |-> "custom", pins |-> [k \in 1 .. CfgKeys |-> KeyPin(k - 1)], ok |-> TRUE],
          [type |-> "UART", pins |-> << >>, ok |-> TRUE] >>

\* A chip with the ports the tables name and pins for the doors and keys there;
\* and every table of this board that can come up configures all of its keys.
Resource == [type : STRING, pins : Seq({KeyPin(k) : k \in 0 .. CfgKeys - 1}), ok : BOOLEAN]

Known(m) == m # << >> /\ \A i \in 1 .. Len(m) : m[i].type \in {"UART", "custom"}

ASSUME BoardAssumption ==
    /\ 0 .. 3 \subseteq Port
    /\ BoardDoors \in 1 .. 8 /\ CfgKeys \in 1 .. 6
    /\ Models \subseteq Seq(Resource)
    /\ \A m \in Models :
          Known(m) /\ (\A i \in 1 .. Len(m) : m[i].ok)
          => \A k \in 0 .. CfgKeys - 1 :
                \E i \in 1 .. Len(m) : \E j \in 1 .. Len(m[i].pins) : m[i].pins[j] = KeyPin(k)

\* Ports after reset: bidirectional, ones in the latches
BoardInit ==
    /\ portRegs = [p \in Port |-> [r \in Reg |-> {}]]
    /\ portLatch = [p \in Port |-> Bit]
    /\ portLow = [p \in Port |-> {}]
    /\ model \in Models
    /\ managed = FALSE /\ bringUp = "reset" /\ nextUp = 0
    /\ commanded = [d \in BoardDoor |-> 1]

LinesOf(p) == Lines(portRegs, portLatch, portLow, p)

\* A slip, for mutation runs only: a mask for the first `pin` pins, not for it.
IoToCfgMask(pin, mode) ==
    [port |-> pin[1], pin |-> pin[2], count |-> 1, mode |-> mode, pins |-> 0 .. pin[2], options |-> {}]

\* io_to_cfg
IoToCfg(pin, mode) ==
    [port |-> pin[1], pin |-> pin[2], count |-> 1, mode |-> mode, pins |-> {pin[2]}, options |-> {}]

\* gpioConfigure of one pin after another
ConfiguredAll(regs, pins, mode) ==
    LET after[n \in 0 .. Len(pins)] ==
            IF n = 0 THEN regs ELSE Configured(after[n - 1], IoToCfg(pins[n], mode))
    IN  after[Len(pins)]

-----------------------------------------------------------------------------
\* busManage_manager_init: a table with no resources, or one of a type the
\* manager does not know, is not taken, and main stops.
ManagerInit ==
    /\ bringUp = "reset"
    /\ managed' = Known(model)
    /\ bringUp' = IF Known(model) THEN "bus" ELSE "failed"
    /\ UNCHANGED <<portRegs, portLatch, portLow, model, nextUp, commanded>>

\* busManage_manager_allocate: with a table taken, the callback decides.
Allocated(res) ==
    CASE ~managed -> "INVALID_ARG" [] managed /\ ~res.ok -> "INIT_FAIL" [] OTHER -> "OK"

\* A slip, for mutation runs only: a failed callback that is not looked at.
AllocateAnyway ==
    /\ bringUp = "bus" /\ nextUp < Len(model)
    /\ portRegs' = ConfiguredAll(portRegs, model[nextUp + 1].pins, HIGH_IMPEDANCE)
    /\ IF nextUp + 1 = Len(model) THEN bringUp' = "doors" /\ nextUp' = 0
                                  ELSE nextUp' = nextUp + 1 /\ UNCHANGED bringUp
    /\ UNCHANGED <<portLatch, portLow, model, managed, commanded>>

\* board_bus_init, the next resource: its callback configures its pins as
\* floating inputs (button_busInit) or does nothing.
Allocate ==
    /\ bringUp = "bus" /\ nextUp < Len(model)
    /\ portRegs' = ConfiguredAll(portRegs, model[nextUp + 1].pins, HIGH_IMPEDANCE)
    /\ IF Allocated(model[nextUp + 1]) # "OK" THEN bringUp' = "failed" /\ UNCHANGED nextUp
       ELSE IF nextUp + 1 = Len(model) THEN bringUp' = "doors" /\ nextUp' = 0
       ELSE nextUp' = nextUp + 1 /\ UNCHANGED bringUp
    /\ UNCHANGED <<portLatch, portLow, model, managed, commanded>>

\* board_registerDoors, one door: doorLock_register calls board_doorInit, which
\* configures contact, button and relay and writes the relay.
DoorInit ==
    /\ bringUp = "doors" /\ nextUp < BoardDoors
    /\ LET inputs == ConfiguredAll(portRegs, <<DetectPin(nextUp), ButtonPin(nextUp)>>, HIGH_IMPEDANCE)
           relay  == IoToCfg(RelayPin(nextUp), PUSH_PULL)
       IN  /\ portRegs' = Configured(inputs, relay)
           /\ portLatch' = Written(portLatch, Lines(portRegs', portLatch, portLow, relay.port), relay, {0})
    /\ commanded' = [commanded EXCEPT ![nextUp] = 1]
    /\ nextUp' = nextUp + 1
    /\ bringUp' = IF nextUp' = BoardDoors THEN "run" ELSE "doors"
    /\ UNCHANGED <<portLow, model, managed>>

\* board_doorLockCtrl, whenever the door manager asks for it
DoorLockCtrl ==
    /\ bringUp = "run"
    /\ \E d \in BoardDoor, level \in {0, 1} :
          LET relay == IoToCfg(RelayPin(d), PUSH_PULL)
          IN  /\ portLatch' = Written(portLatch, LinesOf(relay.port), relay,
                                      IF level = 1 THEN {0} ELSE {})
              /\ commanded' = [commanded EXCEPT ![d] = level]
    /\ UNCHANGED <<portRegs, portLow, model, managed, bringUp, nextUp>>

\* The outside: contacts close, keys are pressed, a byte comes in.
LineMoves ==
    /\ \E pin \in {DetectPin(0), ButtonPin(0), KeyPin(0), <<3, 0>>} :
          portLow' = [portLow EXCEPT ![pin[1]] = IF pin[2] \in @ THEN @ \ {pin[2]} ELSE @ \cup {pin[2]}]
    /\ UNCHANGED <<portRegs, portLatch, model, managed, bringUp, nextUp, commanded>>

\* main: the manager, the resources, the doors, and then the loop; a failure stops it.
Main == ManagerInit \/ Allocate \/ DoorInit

BoardNext == Main \/ DoorLockCtrl \/ LineMoves

BoardSpec == BoardInit /\ [][BoardNext]_boardVars
-----------------------------------------------------------------------------
\* From reset on, in whatever mode its pin is, a relay line carries what was
\* last commanded, and 1, locked, before: no start-up step and no write to
\* another door lets a bolt go.
RelaysAsCommanded ==
    \A d \in BoardDoor : d \in LinesOf(2) <=> commanded[d] = 1

\* The loop runs only on a board that is up: the manager has the table, every
\* input can be read and drives nothing, and the UART's pins are as at reset.
RunsWhole ==
    bringUp = "run" =>
        /\ managed /\ \A i \in 1 .. Len(model) : model[i].ok
        /\ \A pin \in InputPins :
              /\ Mode(portRegs, pin[1], pin[2]) = HIGH_IMPEDANCE
              /\ Read(LinesOf(pin[1]), IoToCfg(pin, HIGH_IMPEDANCE)) = {} <=> pin[2] \in portLow[pin[1]]
        /\ \A pin \in UartPins :
              Mode(portRegs, pin[1], pin[2]) = BIDIRECTIONAL /\ pin[2] \in portLatch[pin[1]]
=============================================================================
