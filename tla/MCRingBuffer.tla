---------------------------- MODULE MCRingBuffer ----------------------------
(***************************************************************************)
(* The ring and its most demanding user, each on its own.                  *)
(*                                                                         *)
(* Two items tell reordering, loss and duplication apart; three slots make *)
(* six index values, so that wr passes the end of the doubled range while  *)
(* rd is still in its first and its second half.  A word of 14 values      *)
(* (HalfWord = 7) is the least that RINGBUF_ARG_CHECK leaves some room in, *)
(* and few enough indices to peek at them all.                             *)
(*                                                                         *)
(* The UART has FIFOs of three bytes and callers that never have more than *)
(* two under way in one direction.                                         *)
(***************************************************************************)
EXTENDS RingBuffer, Uart

CONSTANTS a, b

MCItem == {a, b}

VARIABLE client    \* whose turn it is, of "ring" and "uart"

ClientInit == client \in {"ring", "uart"} /\ Init /\ UartInit /\ (client = "uart" => rb.buf = [s \in Slot |-> a])

ClientNext ==
    /\ UNCHANGED client
    /\ \/ client = "ring" /\ Next /\ UNCHANGED uartVars
       \/ client = "uart" /\ UartNext /\ UNCHANGED vars

\* The fairness is that of the UART, when it is there
ClientSpec ==
    /\ ClientInit /\ [][ClientNext]_<<client, vars, uartVars>>
    /\ WF_uartVars(client = "uart" /\ InCall)
    /\ WF_uartVars(client = "uart" /\ Isr)
    /\ WF_uartVars(client = "uart" /\ ShiftOut)
=============================================================================
