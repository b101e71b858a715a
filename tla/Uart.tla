-------------------------------- MODULE Uart --------------------------------
(***************************************************************************)
(* src/userUART_init.c: UART1 with a transmit and a receive FIFO between   *)
(* the main loop and uart1_isr.                                            *)
(*                                                                         *)
(* The main loop pushes a byte, and then, with the UART interrupt masked,  *)
(* starts the transmitter if nobody else will; from there on the interrupt *)
(* feeds it, and the two agree through txBusy.  The ringBuf_* calls are    *)
(* critical sections and one step each, the interrupt handler one step.    *)
(* The loop of WriteByte that pushes until the FIFO accepts, and the loop  *)
(* of FlushTx, change nothing while they wait: waiting is not being        *)
(* enabled.                                                                *)
(*                                                                         *)
(* A byte is a tag, numbered so that all the bytes under way differ.       *)
(***************************************************************************)
EXTENDS Integers, SequencesExt

CONSTANTS
    UartDepth,     \* UART_BUF_DEPTH, 32
    UartHalfWord,  \* 2^15
    Tags,        \* bound: how many bytes are told apart
    MaxBacklog,  \* obligation of the callers: bytes under way in one direction
    MaxRead      \* bound: the longest userUART_ReadBuffer

\* The depth is one that RINGBUF_ARG_CHECK lets pass.
ASSUME UartAssumption ==
    /\ UartHalfWord \in Nat /\ UartDepth \in 1 .. UartHalfWord - 1
    /\ Tags \in Nat /\ MaxBacklog \in 0 .. Tags - 1 /\ MaxRead \in Nat

Byte   == 0 .. Tags - 1
NoByte == Tags

VARIABLES
    txFifo, rxFifo,
    txBusy,       \* the interrupt will run again for the transmitter
    shifting,     \* the byte in the transmitter, NoByte if it is idle
    ti, ri,       \* M_UART_TXIF, M_UART_RXIF
    arrived,      \* the receive side of S1BUF
    pc,           \* main: which call it is in and how far
    left,         \* what ReadBuffer may still take
    nextTx, nextRx,  \* history: the tags of the next bytes
    unsent,       \* history: bytes accepted by WriteByte, not yet on the line
    unread        \* history: bytes that came in, were not dropped and not yet read

txVars == <<txFifo, txBusy, shifting, ti, nextTx, unsent>>
rxVars == <<rxFifo, ri, arrived, nextRx, unread>>
uartVars   == <<txVars, rxVars, pc, left>>

Fifo == INSTANCE RingOps WITH Depth <- UartDepth, HalfWord <- UartHalfWord, Item <- Byte

UartTypeOK ==
    /\ txFifo \in Fifo!Ring /\ rxFifo \in Fifo!Ring
    /\ txBusy \in BOOLEAN /\ ti \in BOOLEAN /\ ri \in BOOLEAN
    /\ shifting \in Byte \cup {NoByte} /\ arrived \in Byte
    /\ pc \in {"idle", "push", "kick", "flush", "flushBusy", "read"}
    /\ left \in 0 .. MaxRead
    /\ nextTx \in Byte /\ nextRx \in Byte
    /\ unsent \in Seq(Byte) /\ Len(unsent) <= MaxBacklog
    /\ unread \in Seq(Byte) /\ Len(unread) <= MaxBacklog

\* userUART_init
UartInit ==
    /\ txFifo = [wr |-> 0, rd |-> 0, buf |-> [s \in Fifo!Slot |-> 0]]
    /\ rxFifo = txFifo
    /\ txBusy = FALSE /\ shifting = NoByte
    /\ ti = FALSE /\ ri = FALSE /\ arrived = 0
    /\ pc = "idle" /\ left = 0
    /\ nextTx = 0 /\ nextRx = 0
    /\ unsent = <<>> /\ unread = <<>>

Following(tag) == (tag + 1) % Tags

-----------------------------------------------------------------------------
(***************************************************************************)
(* Plausible slips, for mutation runs only: a transmitter declared idle    *)
(* with its last byte, one never declared idle, a kick that does not look  *)
(* at txBusy, a flush that waits for the FIFO alone, a read that does not  *)
(* count, an interrupt handler that leaves the receive flag set.           *)
(***************************************************************************)
FeedIdlesEarly ==
    IF Fifo!SeemsEmpty(txFifo)
    THEN /\ txBusy' = FALSE
         /\ UNCHANGED <<txFifo, shifting>>
    ELSE /\ shifting' = Fifo!Oldest(txFifo)
         /\ txFifo' = Fifo!AfterPop(txFifo)
         /\ txBusy' = ~Fifo!SeemsEmpty(txFifo')

FeedStaysBusy ==
    IF Fifo!SeemsEmpty(txFifo)
    THEN UNCHANGED <<txBusy, txFifo, shifting>>
    ELSE /\ shifting' = Fifo!Oldest(txFifo)
         /\ txFifo' = Fifo!AfterPop(txFifo)
         /\ txBusy' = TRUE

\* Transmit the oldest byte of the FIFO, or find that there is none and leave
\* the transmitter to whoever writes next.
Feed ==
    IF Fifo!SeemsEmpty(txFifo)
    THEN /\ txBusy' = FALSE
         /\ UNCHANGED <<txFifo, shifting>>
    ELSE /\ shifting' = Fifo!Oldest(txFifo)
         /\ txFifo' = Fifo!AfterPop(txFifo)
         /\ txBusy' = TRUE

\* Take one byte from the receive FIFO, if it says it holds one.
Receive ==
    /\ rxFifo' = Fifo!AfterPop(rxFifo)
    /\ unread' = IF Fifo!SeemsEmpty(rxFifo) THEN unread ELSE Tail(unread)

\* More slips.
KickAlways ==
    /\ pc = "kick"
    /\ Feed
    /\ pc' = "idle"
    /\ UNCHANGED <<ti, nextTx, unsent, rxVars, left>>

FlushBusyIgnored ==
    /\ pc = "flushBusy"
    /\ pc' = "idle"
    /\ UNCHANGED <<txVars, rxVars, left>>

ReadNextUncounted ==
    /\ pc = "read"
    /\ Receive
    /\ left' = left - 1
    /\ pc' = IF Fifo!SeemsEmpty(rxFifo) THEN "idle" ELSE "read"
    /\ UNCHANGED <<txVars, ri, arrived, nextRx>>

IsrKeepsFlag ==
    /\ ri \/ ti
    /\ ri' = ri /\ ti' = FALSE
    /\ rxFifo' = IF ri THEN Fifo!AfterPush(rxFifo, arrived, FALSE) ELSE rxFifo
    /\ IF ti THEN Feed ELSE UNCHANGED <<txFifo, txBusy, shifting>>
    /\ UNCHANGED <<arrived, nextTx, nextRx, unsent, unread, pc, left>>

-----------------------------------------------------------------------------
\* userUART_WriteByte, from main, printf's putchar or WriteString ...
WriteByte ==
    /\ pc = "idle" /\ Len(unsent) < MaxBacklog
    /\ pc' = "push"
    /\ UNCHANGED <<txVars, rxVars, left>>

\* ... pushes until the FIFO takes the byte ...
UartPush ==
    /\ pc = "push" /\ Fifo!PushErr(txFifo, FALSE) = "OK"
    /\ txFifo' = Fifo!AfterPush(txFifo, nextTx, FALSE)
    /\ unsent' = Append(unsent, nextTx)
    /\ nextTx' = Following(nextTx)
    /\ pc' = "kick"
    /\ UNCHANGED <<txBusy, shifting, ti, rxVars, left>>

\* ... and, the interrupt masked, starts an idle transmitter.
Kick ==
    /\ pc = "kick"
    /\ IF txBusy THEN UNCHANGED <<txFifo, txBusy, shifting>> ELSE Feed
    /\ pc' = "idle"
    /\ UNCHANGED <<ti, nextTx, unsent, rxVars, left>>

\* userUART_FlushTx reads the count, then txBusy, and starts over.
FlushTx ==
    /\ pc = "idle"
    /\ pc' = "flush"
    /\ UNCHANGED <<txVars, rxVars, left>>

FlushCount ==
    /\ pc = "flush" /\ ~(Fifo!CalcCount(txFifo) > 0)
    /\ pc' = "flushBusy"
    /\ UNCHANGED <<txVars, rxVars, left>>

FlushBusy ==
    /\ pc = "flushBusy"
    /\ pc' = IF txBusy THEN "flush" ELSE "idle"
    /\ UNCHANGED <<txVars, rxVars, left>>

ReadByte ==
    /\ pc = "idle"
    /\ Receive
    /\ UNCHANGED <<txVars, ri, arrived, nextRx, pc, left>>

\* userUART_Available: the signed count as a byte
Available == Fifo!CalcCount(rxFifo) % 256

\* userUART_ReadBuffer: ringBuf_pop_multi, a critical section to the byte.
ReadBuffer ==
    /\ pc = "idle"
    /\ left' \in 1 .. MaxRead
    /\ pc' = "read"
    /\ UNCHANGED <<txVars, rxVars>>

ReadNext ==
    /\ pc = "read"
    /\ Receive
    /\ \/ Fifo!SeemsEmpty(rxFifo) /\ left' = 0
       \/ ~Fifo!SeemsEmpty(rxFifo) /\ left' = left - 1
    /\ pc' = IF left' = 0 THEN "idle" ELSE "read"
    /\ UNCHANGED <<txVars, ri, arrived, nextRx>>

-----------------------------------------------------------------------------
\* uart1_isr: the receive flag, then the transmit flag.  A byte the receive
\* FIFO refuses is dropped.
Isr ==
    /\ ri \/ ti
    /\ ri' = FALSE /\ ti' = FALSE
    /\ rxFifo' = IF ri THEN Fifo!AfterPush(rxFifo, arrived, FALSE) ELSE rxFifo
    /\ unread' = IF ri /\ Fifo!PushErr(rxFifo, FALSE) = "WR_DENIED"
                 THEN Front(unread) ELSE unread
    /\ IF ti THEN Feed ELSE UNCHANGED <<txFifo, txBusy, shifting>>
    /\ UNCHANGED <<arrived, nextTx, nextRx, unsent, pc, left>>

\* The transmitter has shifted its byte out.
ShiftOut ==
    /\ shifting # NoByte
    /\ shifting' = NoByte
    /\ ti' = TRUE
    /\ unsent' = IF unsent = <<>> THEN unsent ELSE Tail(unsent)
    /\ UNCHANGED <<txFifo, txBusy, nextTx, rxVars, pc, left>>

\* A byte comes in on the line.  The handler runs within a byte time, so the
\* receive buffer is free.
Arrive ==
    /\ ~ri /\ Len(unread) < MaxBacklog
    /\ arrived' = nextRx
    /\ nextRx' = Following(nextRx)
    /\ ri' = TRUE
    /\ unread' = Append(unread, nextRx)
    /\ UNCHANGED <<txVars, rxFifo, pc, left>>

-----------------------------------------------------------------------------
UartMain ==
    \/ WriteByte \/ UartPush \/ Kick
    \/ FlushTx \/ FlushCount \/ FlushBusy
    \/ ReadByte \/ ReadBuffer \/ ReadNext

\* A call that main has made and that is not over.
InCall == UartPush \/ Kick \/ FlushCount \/ FlushBusy \/ ReadNext

UartNext == UartMain \/ Isr \/ ShiftOut \/ Arrive

UartSpec == UartInit /\ [][UartNext]_uartVars

\* Main goes on with the call it is in, a pending interrupt is taken and the
\* line moves at its baud rate.  Nothing makes main start a call.
UartFairSpec == UartSpec /\ WF_uartVars(InCall) /\ WF_uartVars(Isr) /\ WF_uartVars(ShiftOut)
-----------------------------------------------------------------------------
\* What is in the transmitter is the oldest byte written and not yet sent:
\* every byte goes out once and in the order it was written.
SendsInOrder == shifting # NoByte => unsent # <<>> /\ shifting = Head(unsent)

\* txBusy: between calls, an idle transmitter means that nothing is waiting;
\* no byte is left for an interrupt that will not come.
NothingStranded == pc # "kick" /\ ~txBusy => unsent = <<>>

\* FlushTx returns only when the last byte has been shifted out ("Block until
\* the TX FIFO is drained and the last byte fully shifted out").
FlushMeansSent == [][pc = "flushBusy" /\ pc' = "idle" => unsent = <<>>]_uartVars

\* What the main loop reads is what came in, once and in order, but for the
\* bytes that the full FIFO dropped; and Available, whatever number it gives, is
\* zero only if there is nothing to read.
ReceivesInOrder ==
    /\ Fifo!Contents(rxFifo) \o (IF ri THEN <<arrived>> ELSE <<>>) = unread
    /\ Available = 0 <=> Fifo!Contents(rxFifo) = <<>>

\* WriteByte "blocks while the TX FIFO is full": it stores no byte while Depth
\* of them are waiting behind the one in the transmitter.
BlocksWhileFull ==
    [][Len(unsent') > Len(unsent)
       => Len(unsent) < UartDepth + (IF shifting = NoByte THEN 0 ELSE 1)]_uartVars

\* WriteByte does not spin for ever and FlushTx comes back, although a full
\* FIFO and an idle transmitter are both possible.
CallsReturn == pc # "idle" ~> pc = "idle"
=============================================================================
