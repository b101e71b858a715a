------------------------------- MODULE Buses --------------------------------
(***************************************************************************)
(* The two buses of the uni-stc library, a master and a slave on each.     *)
(***************************************************************************)
EXTENDS Integers, SequencesExt, FiniteSets

(***************************************************************************)
(* uni-stc/hal/spi-hal.c: a buffer exchanged byte by byte in an interrupt, *)
(* built as a master at one end of the wire and as a slave at the other,   *)
(* and the choice of speed; the pins are left to Gpio.                     *)
(*                                                                         *)
(* The wire swaps the two data registers.  A slave has until the next swap *)
(* to read its register and to put its reply there.                        *)
(***************************************************************************)
CONSTANTS
    SpiClock,       \* MCU_FREQ
    SpiHighSpeed,   \* SPI_HAS_HIGH_SPEED
    SpiRates,       \* bound: the device rates asked for
    SpiSizes,       \* bound: the sizes of a master's and of a slave's buffers
    SpiTransfers    \* bound: transfers of either side

\* A buffer has a byte: of an empty one, spiSend would send what follows it.
ASSUME SpiAssumption ==
    SpiTransfers \in Nat /\ SpiSizes[1] \subseteq Nat \ {0} /\ SpiSizes[2] \subseteq Nat \ {0}

VARIABLES
    spiMaster,   \* _spiState and SPDAT of either side, whether its interrupt is
    spiSlave,    \* flagged, and what its buffer held at first (history)
    spiOut,      \* the master has written SPDAT: a swap is due
    spiArming,   \* the slave's spiSend has yet to clear the index
    spiSent,     \* history: what the master has sent since the slave was armed
    spiBase,     \* history: how many of them before this transfer; -1 if none
    spiStale,    \* history: the slave's SPDAT at its arming
    spiClean     \* history: armed between transfers, and in time ever since

spiVars == <<spiMaster, spiSlave, spiOut, spiArming, spiSent, spiBase, spiStale, spiClean>>

SpiIdle == [buf |-> << >>, index |-> 0, ready |-> TRUE, dat |-> 0, flag |-> FALSE, gave |-> << >>, left |-> SpiTransfers]

SpiInit ==
    /\ spiMaster = SpiIdle /\ spiSlave = SpiIdle
    /\ spiOut = FALSE /\ spiArming = FALSE
    /\ spiSent = << >> /\ spiBase = -1 /\ spiStale = 0 /\ spiClean = FALSE

-----------------------------------------------------------------------------
\* spiSelectSpeed: the least power of two at or above the 16-bit ratio, then
\* the least divisor the chip has for it
Pot(divisor) == CHOOSE n \in 0 .. 16 : 2^n >= divisor /\ \A k \in 0 .. n - 1 : 2^k < divisor

SelectSpeed(rate) ==
    LET pot == Pot(((SpiClock + rate - 1) \div rate) % 65536)
    IN  CASE pot < 2 -> IF SpiHighSpeed THEN 2 ELSE 4
          [] pot = 2 -> 4
          [] pot = 3 -> 8
          [] pot = 4 -> 16
          [] pot > 4 -> IF SpiHighSpeed THEN 16 ELSE 32

\* The buffer of a side's next transfer; spiReceive's holds zeros.
Buffer(side, left, size, zeros) == [i \in 1 .. size |-> IF zeros THEN 0 ELSE <<side, left, i>>]

Loaded(state, buffer) == [state EXCEPT !.buf = buffer, !.gave = buffer, !.ready = FALSE, !.left = @ - 1]

\* spiSend and spiReceive of the master, which waits for its ready flag
spiSend ==
    /\ spiMaster.ready /\ spiMaster.left > 0
    /\ \E size \in SpiSizes[1], zeros \in BOOLEAN :
          LET buffer == Buffer("m", spiMaster.left, size, zeros)
          IN  spiMaster' = [Loaded(spiMaster, buffer) EXCEPT !.index = 0, !.dat = buffer[1]]
    /\ spiOut' = TRUE
    /\ spiBase' = Len(spiSent)
    /\ UNCHANGED <<spiSlave, spiArming, spiSent, spiStale, spiClean>>

\* ... and spiSend of the slave.  Its interrupt may come before the index is cleared.
SlaveSend ==
    /\ spiSlave.ready /\ ~spiArming /\ spiSlave.left > 0
    /\ \E size \in SpiSizes[2] :
          spiSlave' = Loaded(spiSlave, Buffer("s", spiSlave.left, size, FALSE))
    /\ spiArming' = TRUE
    /\ spiSent' = << >> /\ spiBase' = -1 /\ spiStale' = spiSlave.dat
    /\ spiClean' = (spiMaster.ready /\ ~spiSlave.flag)
    /\ UNCHANGED <<spiMaster, spiOut>>

SlaveArmed ==
    /\ spiArming
    /\ spiArming' = FALSE
    /\ spiSlave' = [spiSlave EXCEPT !.index = 0]
    /\ UNCHANGED <<spiMaster, spiOut, spiSent, spiBase, spiStale, spiClean>>

\* The wire
Swap ==
    /\ spiOut
    /\ spiOut' = FALSE
    /\ spiMaster' = [spiMaster EXCEPT !.dat = spiSlave.dat, !.flag = TRUE]
    /\ spiSlave' = [spiSlave EXCEPT !.dat = spiMaster.dat, !.flag = TRUE]
    /\ spiSent' = Append(spiSent, spiMaster.gave[spiMaster.index + 1])
    /\ spiClean' = (spiClean /\ ~spiSlave.flag /\ ~spiArming)
    /\ UNCHANGED <<spiArming, spiBase, spiStale>>

\* spi_isr of the master
MasterIsr ==
    /\ spiMaster.flag
    /\ LET got  == [spiMaster.buf EXCEPT ![spiMaster.index + 1] = spiMaster.dat]
           next == spiMaster.index + 1
           took == [spiMaster EXCEPT !.flag = FALSE, !.buf = got, !.index = next]
       IN  IF next < Len(got) THEN spiMaster' = [took EXCEPT !.dat = got[next + 1]] /\ spiOut' = TRUE
           ELSE spiMaster' = [took EXCEPT !.ready = TRUE] /\ spiOut' = FALSE
    /\ UNCHANGED <<spiSlave, spiArming, spiSent, spiBase, spiStale, spiClean>>

\* A slip, for mutation runs only: the byte that came in is the one sent back.
SlaveIsrEcho ==
    /\ spiSlave.flag
    /\ LET n == spiSlave.index + 1
       IN  spiSlave' = IF n <= Len(spiSlave.buf)
                       THEN [spiSlave EXCEPT !.flag = FALSE, !.buf[n] = spiSlave.dat, !.index = n,
                                             !.ready = @ \/ n = Len(spiSlave.buf)]
                       ELSE [spiSlave EXCEPT !.flag = FALSE, !.dat = 0]
    /\ UNCHANGED <<spiMaster, spiOut, spiArming, spiSent, spiBase, spiStale, spiClean>>

\* spi_isr of the slave: reply from the buffer, then store what came in; zeros
\* past its end
SlaveIsr ==
    /\ spiSlave.flag
    /\ LET n == spiSlave.index + 1
       IN  spiSlave' = IF n <= Len(spiSlave.buf)
                       THEN [spiSlave EXCEPT !.flag = FALSE, !.dat = spiSlave.buf[n], !.buf[n] = spiSlave.dat,
                                             !.index = n, !.ready = @ \/ n = Len(spiSlave.buf)]
                       ELSE [spiSlave EXCEPT !.flag = FALSE, !.dat = 0]
    /\ UNCHANGED <<spiMaster, spiOut, spiArming, spiSent, spiBase, spiStale, spiClean>>

SpiNext ==
    spiSend \/ SlaveSend \/ SlaveArmed \/ Swap \/ MasterIsr \/ SlaveIsr

SpiSpec == SpiInit /\ [][SpiNext]_spiVars
-----------------------------------------------------------------------------
\* What the slave replies with in the n-th swap since it was armed, from 0: its
\* buffer comes one swap late, behind whatever its register held.
Reply(n) ==
    IF n = 0 THEN spiStale ELSE IF n <= Len(spiSlave.gave) THEN spiSlave.gave[n] ELSE 0

\* Both buffers end with what the other side gave, in order, the slave's one
\* swap late.  The exceptions: a slave armed during a transfer, or whose interrupt
\* is later than a swap.
SpiDelivers ==
    spiClean =>
        /\ ~spiArming => \A j \in 1 .. spiSlave.index : spiSlave.buf[j] = spiSent[j]
        /\ ~spiArming => (spiSlave.ready <=> spiSlave.index = Len(spiSlave.buf))
        /\ spiBase # -1 => \A i \in 1 .. spiMaster.index : spiMaster.buf[i] = Reply(spiBase + i - 1)

-----------------------------------------------------------------------------
(***************************************************************************)
(* uni-stc/hal/i2c-hal.c: the calls of a master, each waiting for the end  *)
(* of what it asked of the hardware, and the interrupt of a slave, which   *)
(* tells the application what happened, one flag at a time.  The slave's   *)
(* application is a small one: it hands out 1, 2, 3... when read, and has  *)
(* room for so many bytes of each write.                                   *)
(*                                                                         *)
(* The hardware sets a flag at each event on the bus and does not wait for *)
(* the slave: it answers a byte with the acknowledgement it has been left. *)
(***************************************************************************)
CONSTANTS
    I2cClock,    \* MCU_FREQ
    I2cRates,    \* bound: the frequencies asked for
    I2cRoom,     \* bound: how many bytes of a write the slave takes
    I2cEvents    \* bound: events on the bus

ASSUME I2cAssumption == I2cRoom \in Nat

VARIABLES
    i2cPhase,      \* of the bus: idle, started, addressed, WRITE, sent, READ, got,
                   \* done after a byte that was refused on either side
    i2cPlan,       \* what the command in I2CMSCR has still to do; the call waits
    i2cOut,        \* I2CTXD of the master
    i2cAckOut,     \* MSACKO
    i2cFlags,      \* I2CSLST of the slave, of "STA", "RX", "TX", "STO"
    i2cRxd, i2cTxd, i2cAckIn,
    i2cStarted,    \* _i2cStartReceived
    i2cSlackO,     \* SLACKO: how the slave answers the next byte
    i2cLeft,       \* the room the slave's application has left
    i2cTold,       \* what the slave's application was told
    i2cWas,        \* history: what happened
    i2cGot,        \* history: what the master read
    i2cAnswers,    \* history: how the bytes of the write at hand were answered
    i2cClean       \* history: told before the next event could be mistaken

I2C_ACK   == 0
I2C_NAK   == 1
I2C_WRITE == 0    \* I2C_Command, here the whole byte: one slave, address 0
I2C_READ  == 1
I2cByte   == {0, 1}

i2cVars == <<i2cPhase, i2cPlan, i2cOut, i2cAckOut, i2cFlags, i2cRxd, i2cTxd, i2cAckIn, i2cStarted, i2cSlackO,
             i2cLeft, i2cTold, i2cWas, i2cGot, i2cAnswers, i2cClean>>

masterVars == <<i2cPlan, i2cOut, i2cAckOut>>
appVars    == <<i2cTxd, i2cStarted, i2cSlackO, i2cLeft, i2cTold>>

\* i2cInitialiseSlave, i2cInitialiseMaster, and a bus at rest
I2cInit ==
    /\ i2cPhase = "idle" /\ i2cPlan = << >> /\ i2cOut = 0 /\ i2cAckOut = I2C_ACK
    /\ i2cFlags = {} /\ i2cSlackO = I2C_ACK
    /\ i2cRxd = 0 /\ i2cTxd = 0 /\ i2cAckIn = 0
    /\ i2cStarted = FALSE /\ i2cLeft = I2cRoom
    /\ i2cTold = << >> /\ i2cWas = << >> /\ i2cGot = << >> /\ i2cAnswers = << >>
    /\ i2cClean = TRUE

\* i2cInitialiseMaster: the hardware divides its clock by 4 * (MSSPEED + 2),
\* of which the code computes a byte.
\* A slip, for mutation runs only: the 2 forgotten.
MsSpeedBare(freq) == LET byte == ((I2cClock \div freq) \div 4) % 256 IN IF byte > 63 THEN 63 ELSE byte

MsSpeed(freq) == LET byte == ((I2cClock \div freq) \div 4 - 2) % 256 IN IF byte > 63 THEN 63 ELSE byte

-----------------------------------------------------------------------------
\* I2C_Operations: what a command makes the hardware do, one thing after another
Start          == <<"start">>
SendData       == <<"send">>
ReceiveAck     == <<"answer">>
ReceiveData    == <<"receive">>
SendAck(value) == <<IF value = I2C_NAK THEN "nak" ELSE "ack">>
Stop           == <<"stop">>
StartSendDataReceiveAck == Start \o SendData \o ReceiveAck
SendDataReceiveAck      == SendData \o ReceiveAck
ReceiveDataSendAck(nak) == ReceiveData \o SendAck(nak)

\* A call of the master: it writes I2CMSCR and returns when all is done, which
\* _waitForCompletion waits for.  It is made on a bus in one of these phases.
Asks(plan, phases) ==
    /\ i2cClean /\ i2cPlan = << >>
    /\ i2cPhase \in phases
    /\ i2cPlan' = plan
    /\ UNCHANGED <<i2cPhase, i2cFlags, i2cRxd, i2cAckIn, appVars, i2cWas, i2cGot, i2cAnswers, i2cClean>>

Restartable == {"idle", "WRITE", "READ", "done"}

i2cStart == Asks(Start, Restartable) /\ UNCHANGED <<i2cOut, i2cAckOut>>

i2cStop == Asks(Stop, {"started", "WRITE", "READ", "done"}) /\ UNCHANGED <<i2cOut, i2cAckOut>>

i2cSendAck ==
    \E value \in {I2C_ACK, I2C_NAK} :
        /\ i2cAckOut' = value
        /\ Asks(<<"msacko">>, {"got"})
        /\ UNCHANGED i2cOut

i2cSendData ==
    \E byte \in I2cByte :
        /\ i2cOut' = byte
        /\ Asks(SendData, {"started", "WRITE"})
        /\ UNCHANGED i2cAckOut

i2cReceiveAck == Asks(ReceiveAck, {"addressed", "sent"}) /\ UNCHANGED <<i2cOut, i2cAckOut>>

i2cReceiveData == Asks(ReceiveData, {"READ"}) /\ UNCHANGED <<i2cOut, i2cAckOut>>

i2cStartCommand ==
    \E command \in {I2C_WRITE, I2C_READ} :
        /\ i2cOut' = command
        /\ Asks(StartSendDataReceiveAck, Restartable)
        /\ UNCHANGED i2cAckOut

i2cSendByte ==
    \E byte \in I2cByte :
        /\ i2cOut' = byte
        /\ Asks(SendDataReceiveAck, {"WRITE"})
        /\ UNCHANGED i2cAckOut

i2cReadByteSendAck ==
    \E nak \in {I2C_ACK, I2C_NAK} : Asks(ReceiveDataSendAck(nak), {"READ"}) /\ UNCHANGED <<i2cOut, i2cAckOut>>

-----------------------------------------------------------------------------
\* The bus does the next thing of a command.
Does(what) == i2cPlan # << >> /\ what = Head(i2cPlan) /\ i2cPlan' = Tail(i2cPlan) /\ UNCHANGED <<i2cOut, i2cAckOut>>

\* An event on the bus.  One that finds another still flagged may be taken for
\* it, but for a start that follows a stop; a behaviour ends there.
Event(flag, happened) ==
    /\ Len(i2cWas) < I2cEvents
    /\ i2cFlags' = i2cFlags \cup {flag}
    /\ i2cWas' = i2cWas \o happened
    /\ i2cClean' = (i2cClean /\ (i2cFlags = {} \/ (i2cFlags = {"STO"} /\ flag = "STA")))
    /\ UNCHANGED appVars

BusStart ==
    /\ Does("start")
    /\ i2cPhase' = "started" /\ i2cAnswers' = << >>
    /\ Event("STA", << >>)
    /\ UNCHANGED <<i2cRxd, i2cAckIn, i2cGot>>

BusSend ==
    /\ Does("send")
    /\ i2cPhase' = IF i2cPhase = "started" THEN "addressed" ELSE "sent"
    /\ UNCHANGED <<i2cFlags, i2cRxd, i2cAckIn, appVars, i2cWas, i2cGot, i2cAnswers, i2cClean>>

\* The slave has the byte, and answers it; its address is answered by the
\* hardware that knows it.
BusAnswer ==
    /\ Does("answer")
    /\ i2cRxd' = i2cOut
    /\ IF i2cPhase = "addressed"
       THEN /\ i2cPhase' = IF i2cOut = I2C_READ THEN "READ" ELSE "WRITE"
            /\ Event("RX", << <<"command", i2cOut>> >>)
            /\ UNCHANGED i2cAnswers
       ELSE /\ i2cPhase' = IF i2cSlackO = I2C_NAK THEN "done" ELSE "WRITE"
            /\ Event("RX", << <<"data", i2cOut>> >>)
            /\ i2cAnswers' = Append(i2cAnswers, i2cSlackO)
    /\ UNCHANGED <<i2cAckIn, i2cGot>>

\* ... or the master takes the slave's byte, which must be there by then.
BusReceive ==
    /\ Does("receive")
    /\ i2cPhase' = "got"
    /\ i2cGot' = Append(i2cGot, i2cTxd)
    /\ i2cClean' = (i2cClean /\ i2cFlags = {})
    /\ UNCHANGED <<i2cFlags, i2cRxd, i2cAckIn, appVars, i2cWas, i2cAnswers>>

BusAcknowledge ==
    \E how \in {"ack", "nak", "msacko"} :
        /\ Does(how)
        /\ i2cAckIn' = CASE how = "ack" -> I2C_ACK [] how = "nak" -> I2C_NAK [] OTHER -> i2cAckOut
        /\ i2cPhase' = IF i2cAckIn' = I2C_NAK THEN "done" ELSE "READ"
        /\ Event("TX", << <<"sent", i2cAckIn'>> >>)
        /\ UNCHANGED <<i2cRxd, i2cGot, i2cAnswers>>

BusStop ==
    /\ Does("stop")
    /\ i2cPhase' = "idle" /\ i2cAnswers' = << >>
    /\ Event("STO", << <<"stop">> >>)
    /\ UNCHANGED <<i2cRxd, i2cAckIn, i2cGot>>

-----------------------------------------------------------------------------
\* What the interrupt tells the application about a byte that came in
Incoming == IF i2cStarted THEN <<"command", i2cRxd>> ELSE <<"data", i2cRxd>>

\* A slip, for mutation runs only: a start that is remembered past its command.
StillStartedKept(flag) == flag = "STA" \/ (i2cStarted /\ flag # "STO")

\* _i2cStartReceived after a flag
StillStarted(flag) == flag = "STA" \/ (i2cStarted /\ flag = "TX")

\* The slave's application has this much room left when it has been told this:
\* its bytes are of one write
RoomAfter(told) ==
    CASE told[1] \in {"command", "stop"} -> I2cRoom
      [] told[1] = "data" -> i2cLeft - 1
      [] OTHER -> i2cLeft

\* A slip, for mutation runs only: the answer is to the byte at hand.
SlackOf(left) == IF left < 0 THEN I2C_NAK ELSE I2C_ACK

\* i2cSendAck of the slave, called from the handlers: for the byte to come
SlackFor(left) == IF left < 1 THEN I2C_NAK ELSE I2C_ACK

\* i2c_isr: the first flag of these, and no other
I2cIsr ==
    /\ i2cFlags # {}
    /\ LET flag == CASE "STO" \in i2cFlags -> "STO"
                     [] "TX" \in i2cFlags /\ "STO" \notin i2cFlags -> "TX"
                     [] "RX" \in i2cFlags /\ i2cFlags \cap {"STO", "TX"} = {} -> "RX"
                     [] i2cFlags = {"STA"} -> "STA"
           told == CASE flag = "STO" -> << <<"stop">> >>
                     [] flag = "TX"  -> << <<"sent", i2cAckIn>> >>
                     [] flag = "RX"  -> << Incoming >>
                     [] flag = "STA" -> << >>
       IN  /\ i2cFlags' = i2cFlags \ {flag}
           /\ i2cTold' = i2cTold \o told
           /\ i2cStarted' = StillStarted(flag)
           /\ i2cTxd' = IF told \in {<< <<"command", I2C_READ>> >>, << <<"sent", 0>> >>} THEN i2cTxd + 1 ELSE i2cTxd
           /\ i2cLeft' = IF told = << >> THEN i2cLeft ELSE RoomAfter(told[1])
           /\ i2cSlackO' = SlackFor(i2cLeft')
    /\ UNCHANGED <<i2cPhase, masterVars, i2cRxd, i2cAckIn, i2cWas, i2cGot, i2cAnswers, i2cClean>>

I2cNext ==
    \/ i2cStart \/ i2cStop \/ i2cSendAck \/ i2cSendData \/ i2cReceiveAck \/ i2cReceiveData
    \/ i2cStartCommand \/ i2cSendByte \/ i2cReadByteSendAck
    \/ BusStart \/ BusSend \/ BusAnswer \/ BusReceive \/ BusAcknowledge \/ BusStop
    \/ I2cIsr

I2cSpec == I2cInit /\ [][I2cNext]_i2cVars
-----------------------------------------------------------------------------
\* The slave gives no byte twice; one that the master refused is skipped.
ReadOrder == \A n \in 2 .. Len(i2cGot) : i2cGot[n] > i2cGot[n - 1]

\* The bytes of a write are taken as long as there is room, and the first that
\* finds none is refused: the answer is given before the byte is seen.
AnswersRoom == \A n \in DOMAIN i2cAnswers : i2cAnswers[n] = I2C_NAK <=> n > I2cRoom

\* A slave in time is told what happened, in order, commands as commands and
\* data as data, the master reads its bytes in the order it wrote them and is
\* refused those it has no room for.
TellsRight ==
    i2cClean =>
        /\ i2cTold = SubSeq(i2cWas, 1, Len(i2cWas) - Cardinality(i2cFlags \ {"STA"}))
        /\ ReadOrder /\ AnswersRoom

\* Master and slave understand each other on both buses, however the slave's
\* interrupt and the calls of either side fall among the bytes (spi-hal.c 231-283,
\* i2c-hal.c).
BusesDeliver == SpiDelivers /\ TellsRight

\* The speed chosen for a device is none too fast for it, unless it is slower
\* than the chip can be; the divider of the other bus is what was asked for,
\* rounded down, or the greatest there is, unless a byte cannot hold it or it is
\* less than 2.
BusSpeedsAsAsked ==
    /\ \A rate \in SpiRates :
          rate * SelectSpeed(rate) >= SpiClock \/ rate * (IF SpiHighSpeed THEN 16 ELSE 32) < SpiClock
    /\ \A freq \in I2cRates :
          LET asked == (I2cClock \div freq) \div 4
              set   == MsSpeed(freq) + 2
          IN  asked \in 2 .. 257 => set = IF asked > 65 THEN 65 ELSE asked
=============================================================================
