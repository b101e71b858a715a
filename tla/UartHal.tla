------------------------------ MODULE UartHal ------------------------------
(***************************************************************************)
(* uni-stc/hal/uart-hal.c and the serial console over it: one UART with    *)
(* its two FIFOs, its interrupt service routine and a client of the block  *)
(* calls.  The UARTs share no state, so one stands for each.               *)
(*                                                                         *)
(* The client runs with interrupts on except between EA = 0 and EA = 1;    *)
(* those pieces and the interrupt are single steps.  uartSendBlock looks   *)
(* at the transmit status after EA = 1.                                    *)
(***************************************************************************)
EXTENDS Integers, Sequences, FiniteSets

(***************************************************************************)
(* uni-stc/hal/fifo-buffer.c as operators on a FifoState.  An index rests  *)
(* at `size` after the last slot and is wrapped by the next access only.   *)
(***************************************************************************)
CONSTANTS FifoSize, Byte

\* FIFO_BUFFER, the declaration
EmptyFifo == [length |-> 0, rIndex |-> 0, wIndex |-> 0, status |-> 0,
              data |-> [i \in 0 .. FifoSize - 1 |-> CHOOSE b \in Byte : TRUE]]

fifoClear(f) == [f EXCEPT !.length = 0, !.rIndex = 0, !.wIndex = 0, !.status = 0]

fifoBytesFree(f) == FifoSize - f.length

fifoIsFull(f) == f.length = FifoSize

\* The slot the n-th access from an index goes to
SlotAt(index, n) == (index + n) % FifoSize

\* A slip, for mutation runs only: the index of the last access, not the next.
RestAtLast(index, count) ==
    IF count = 0 THEN index ELSE SlotAt(index, count - 1)

\* Where an index rests after `count` accesses
Rest(index, count) ==
    IF count = 0 THEN index ELSE SlotAt(index, count - 1) + 1

\* fifoWrite: all of the bytes or none
Accepts(f, count) == fifoBytesFree(f) >= count

WrittenTo(f, bytes) ==
    [f EXCEPT !.wIndex = Rest(f.wIndex, Len(bytes)),
              !.length = f.length + Len(bytes),
              !.data = [i \in DOMAIN f.data |->
                          IF \E n \in 1 .. Len(bytes) : SlotAt(f.wIndex, n - 1) = i
                          THEN bytes[CHOOSE n \in 1 .. Len(bytes) : SlotAt(f.wIndex, n - 1) = i]
                          ELSE f.data[i]]]

\* fifoRead, likewise
Holds(f, count) == f.length >= count

ReadBytes(f, count) == [n \in 1 .. count |-> f.data[SlotAt(f.rIndex, n - 1)]]

ReadFrom(f, count) == [f EXCEPT !.rIndex = Rest(f.rIndex, count), !.length = f.length - count]

\* The bytes in use, oldest first
InUse(f) == ReadBytes(f, f.length)

-----------------------------------------------------------------------------

CONSTANTS
    HalBlocks,  \* bound: the blocks a client sends, sequences of bytes
    HalSends,   \* bound: calls that send in a behaviour
    HalRecvs,   \* bound: bytes that arrive in a behaviour
    HalGets     \* bound: the sizes of block a client asks for

\* A FIFO has a slot, and its counters are bytes; a block has a byte: of an empty
\* one, uartSendBlock would send whatever its variable held.
ASSUME HalAssumption ==
    /\ FifoSize \in 1 .. 255 /\ Byte # {}
    /\ \A block \in HalBlocks : block \in Seq(Byte) /\ block # << >>
    /\ HalGets \subseteq Nat

STATUS_CLEAR   == 0
STATUS_SENDING == 1

VARIABLES
    halTx, halRx,      \* _UARTn_transmitBuffer and _UARTn_receiveBuffer
    halRegs,           \* the flags uartInitialise sets; {} before it
    halClock,          \* history: the UART, and the timer started for it; 0 if none
    halTxif, halRxif,  \* the interrupt flags of SnCON
    halShift,          \* the byte on its way out, << >> if none
    halRbuf,           \* what the receiver last put into SnBUF
    halCall,           \* the client: idle, in a send with this block, ...
    halFresh,          \* the byte on its way out was begun during the call
    halAccepted, halWire,    \* history: bytes accepted for sending, bytes sent
    halArrived, halTaken     \* history: bytes put into the receive FIFO, and taken

halVars == <<halTx, halRx, halRegs, halClock, halTxif, halRxif, halShift, halRbuf, halCall, halFresh,
             halAccepted, halWire, halArrived, halTaken>>

NoCall == [op |-> "idle", block |-> << >>]

HalInit ==
    /\ halTx = EmptyFifo /\ halRx = EmptyFifo
    /\ halRegs = {} /\ halClock = [uart |-> 1, timer |-> 0]
    /\ halTxif = FALSE /\ halRxif = FALSE
    /\ halShift = << >> /\ halRbuf = << >>
    /\ halCall = NoCall /\ halFresh = FALSE
    /\ halAccepted = << >> /\ halWire = << >> /\ halArrived = << >> /\ halTaken = << >>

-----------------------------------------------------------------------------
\* uartInitialise's operationMode.  For UART1 out of 8N1 the `baud rate` is
\* one of the four Uart1_9BitMode_Clock values.
OperationMode(uart, mode, baud) ==
    IF mode = "8N1" THEN IF uart = 1 THEN 1 ELSE 0
    ELSE IF uart = 1 THEN 2 + ((baud \div 2) % 2) ELSE 1

UsesTimer(uart, mode) == uart # 1 \/ mode = "8N1"

\* startTimer is called for this timer
TimerOf(uart, own) == IF own THEN uart ELSE 2

\* The mode flags of SnCON
Scon(op, mode) ==
    {"REN"} \cup (IF mode = "MULTI" THEN {"SM2"} ELSE {}) \cup (IF op >= 2 THEN {"SM0"} ELSE {})

\* The flags of SnCON, of which S1ST2, SMOD and UART_M0x6 are not
SconFlags(uart) == {"SM0", "SM2", "REN"} \cup (IF uart = 1 THEN {"SM1"} ELSE IF uart \in {3, 4} THEN {"SnSTn"} ELSE {})

Put(regs, flag, on) == IF on THEN regs \cup {flag} ELSE regs \ {flag}

\* The clock source of UART1, on an MCU with a timer 2 that may clock it; the
\* `baud rate` of an 11-bit frame says how sysclk is divided
ClockUart1(regs, op, baud, timer) ==
    CASE op = 1 -> Put(regs, "S1ST2", timer = 2)
      [] op = 2 -> Put(regs, "SMOD", baud % 2 = 1)
      [] op = 3 -> Put(regs, "UART_M0x6", baud % 2 = 1)

\* That of UART3 and UART4, which is a flag of SnCON
ClockUart34(regs, own) == Put(regs, "SnSTn", own)

\* SnCON is then assigned as a whole.  The pins are in Pins.
Initialised(regs, uart, mode, baud, own) ==
    LET op == OperationMode(uart, mode, baud)
        clocked == CASE uart = 1 -> ClockUart1(regs, op, baud, TimerOf(uart, own))
                     [] uart = 2 -> regs
                     [] uart \in {3, 4} -> ClockUart34(regs, own)
    IN  (clocked \ SconFlags(uart)) \cup Scon(op, mode) \cup {"ES"}
        \cup (IF uart = 1 /\ op % 2 = 1 THEN {"SM1"} ELSE {})

\* A timer that cannot make the frequency leaves the UART alone.
Initialise ==
    /\ halRegs = {}
    /\ \E uart \in 1 .. 4, mode \in {"8N1", "8E1", "MULTI"}, baud \in 0 .. 3, own, timerOk \in BOOLEAN :
          /\ UsesTimer(uart, mode) => timerOk
          /\ halRegs' = Initialised(halRegs, uart, mode, baud, own)
          /\ halClock' = [uart |-> uart, timer |-> IF UsesTimer(uart, mode) THEN TimerOf(uart, own) ELSE 0]
    /\ halTx' = [halTx EXCEPT !.status = STATUS_CLEAR]
    /\ UNCHANGED <<halRx, halTxif, halRxif, halShift, halRbuf, halCall, halFresh,
                   halAccepted, halWire, halArrived, halTaken>>

-----------------------------------------------------------------------------
\* A slip, for mutation runs only: a start that trusts the FIFO's length, not
\* the status.
StartsOnLength == halTx.length > 0

Starts == halTx.status = STATUS_CLEAR

\* uartSendBlock, through EA = 1.  A blocking call tries again, a
\* non-blocking one gives up; either may be all that happens.
SendBlock ==
    /\ halRegs # {} /\ halCall = NoCall
    /\ \E block \in HalBlocks :
          /\ Len(halAccepted) + Len(block) <= HalSends
          /\ Accepts(halTx, Len(block))
          /\ halTx' = WrittenTo(halTx, block)
          /\ halAccepted' = halAccepted \o block
          /\ halCall' = [op |-> "sending", block |-> block]
    /\ halFresh' = FALSE
    /\ UNCHANGED <<halRx, halRegs, halClock, halTxif, halRxif, halShift, halRbuf, halWire, halArrived, halTaken>>

\* ... and what it does after: the first byte is sent by hand when the status
\* says that no interrupt will.  An empty FIFO yields whatever `data` was.
SendStart ==
    /\ halCall.op = "sending"
    /\ IF Starts
       THEN /\ halTx' = [(IF Holds(halTx, 1) THEN ReadFrom(halTx, 1) ELSE halTx)
                            EXCEPT !.status = STATUS_SENDING]
            /\ \E garbage \in Byte :
                  halShift' = IF Holds(halTx, 1) THEN ReadBytes(halTx, 1) ELSE <<garbage>>
       ELSE UNCHANGED <<halTx, halShift>>
    /\ halCall' = NoCall
    /\ UNCHANGED <<halRx, halRegs, halClock, halTxif, halRxif, halRbuf, halFresh,
                   halAccepted, halWire, halArrived, halTaken>>

\* uartGetBlock: all that was asked for, or nothing
GetBlock ==
    /\ halRegs # {} /\ halCall = NoCall
    /\ \E size \in HalGets :
          /\ Holds(halRx, size)
          /\ halTaken' = halTaken \o ReadBytes(halRx, size)
          /\ halRx' = ReadFrom(halRx, size)
    /\ UNCHANGED <<halTx, halRegs, halClock, halTxif, halRxif, halShift, halRbuf, halCall, halFresh,
                   halAccepted, halWire, halArrived>>

\* uartFlushReceiveBuffer: what was in it counts as taken.
FlushReceive ==
    /\ halRegs # {} /\ halCall = NoCall
    /\ halTaken' = halTaken \o InUse(halRx)
    /\ halRx' = fifoClear(halRx)
    /\ UNCHANGED <<halTx, halRegs, halClock, halTxif, halRxif, halShift, halRbuf, halCall, halFresh,
                   halAccepted, halWire, halArrived>>

-----------------------------------------------------------------------------
\* The transmitter is done with a byte.  The few instructions between EA = 1
\* and the look at the status last less than a byte takes to go out.
TransmitDone ==
    /\ halShift # << >>
    /\ halCall.op = "sending" => ~halFresh
    /\ halWire' = halWire \o halShift
    /\ halShift' = << >>
    /\ halTxif' = TRUE
    /\ UNCHANGED <<halTx, halRx, halRegs, halClock, halRxif, halRbuf, halCall, halFresh, halAccepted, halArrived, halTaken>>

\* A byte has come in; one that the interrupt has not fetched is lost.
ReceiveDone ==
    /\ "REN" \in halRegs /\ Len(halArrived) < HalRecvs
    /\ \E b \in Byte : halRbuf' = <<b>>
    /\ halRxif' = TRUE
    /\ UNCHANGED <<halTx, halRx, halRegs, halClock, halTxif, halShift, halCall, halFresh,
                   halAccepted, halWire, halArrived, halTaken>>

\* uartN_isr
HalIsr ==
    /\ "ES" \in halRegs /\ (halTxif \/ halRxif)
    /\ halTxif' = FALSE /\ halRxif' = FALSE
    /\ halFresh' = (halFresh \/ (halTxif /\ Holds(halTx, 1)))
    /\ IF ~halTxif THEN UNCHANGED <<halTx, halShift>>
       ELSE IF Holds(halTx, 1)
       THEN halShift' = ReadBytes(halTx, 1) /\ halTx' = ReadFrom(halTx, 1)
       ELSE halTx' = [halTx EXCEPT !.status = STATUS_CLEAR] /\ UNCHANGED halShift
    /\ IF halRxif /\ Accepts(halRx, 1)
       THEN halRx' = WrittenTo(halRx, halRbuf) /\ halArrived' = halArrived \o halRbuf
       ELSE UNCHANGED <<halRx, halArrived>>
    /\ UNCHANGED <<halRegs, halClock, halRbuf, halCall, halAccepted, halWire, halTaken>>

HalNext ==
    \/ Initialise
    \/ SendBlock \/ SendStart \/ GetBlock \/ FlushReceive
    \/ TransmitDone \/ ReceiveDone \/ HalIsr

HalSpec == HalInit /\ [][HalNext]_halVars
-----------------------------------------------------------------------------
\* A slip, for mutation runs only: the FIFO's length is looked at, not the status.
NothingWaits == halTx.length = 0

uartIsTransmissionComplete == halTx.status = STATUS_CLEAR

uartTransmitBufferHasBytesFree(bytes) == fifoBytesFree(halTx) >= bytes

uartReceiveBufferBytes == halRx.length

\* What the port says of itself between two calls is so: a transmission that is
\* complete has every byte on the wire, one that is not has the transmitter at
\* work, and as many bytes may be had as came in, or sent as went out.
TellsTheTruth ==
    halCall = NoCall /\ halRegs # {} =>
        /\ IF uartIsTransmissionComplete THEN halWire = halAccepted ELSE halShift # << >> \/ halTxif
        /\ \A n \in 0 .. FifoSize :
              uartTransmitBufferHasBytesFree(n) <=> n + Len(halAccepted) - Len(halWire \o halShift) <= FifoSize
        /\ uartReceiveBufferBytes = Len(halArrived) - Len(halTaken)

\* What is on the wire, being shifted and waiting is what was accepted, in
\* order; what was taken and waits to be taken is what arrived.
HalBytesInOrder ==
    /\ halWire \o halShift \o InUse(halTx) = halAccepted
    /\ halTaken \o InUse(halRx) = halArrived

\* Bytes never wait for an interrupt that will not come: outside a call, a
\* FIFO with bytes in it has the transmitter at work or its interrupt pending.
HalNeverStranded ==
    halCall = NoCall /\ halTx.length > 0 => halShift # << >> \/ halTxif

\* The timer whose overflows clock the UART: its own or timer 2
ClockOf(uart) ==
    CASE uart = 1 -> IF "S1ST2" \in halRegs THEN 2 ELSE 1
      [] uart = 2 -> 2
      [] uart \in {3, 4} -> IF "SnSTn" \in halRegs THEN uart ELSE 2

\* The timer that was started at the baud rate is the one that clocks the UART.
\* UART_USE_OWN_TIMER promises it for all four (uart-hal.h 97-100, and uart-hal.c
\* 356, 375: configure UART clock source).
ClockedByOwnTimer == halClock.timer # 0 => ClockOf(halClock.uart) = halClock.timer

\* ... as it is for the two that do not have the choice in SnCON
ClockedAsSet == halClock.uart \in {1, 2} => ClockedByOwnTimer

\* A serial port keeps its promises in both directions: bytes in order, none
\* left without the interrupt that sends it (uart-hal.c 257-470).
SerialKept == HalBytesInOrder /\ HalNeverStranded /\ ClockedAsSet /\ TellsTheTruth
=============================================================================
