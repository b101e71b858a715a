------------------------------ MODULE RingOps ------------------------------
(***************************************************************************)
(* The arithmetic of compoent/ringBuffer/ringBuffer.c, as operators on a   *)
(* ring control block.  A component that owns a ring (the event queue, the *)
(* button queue, the UART FIFOs) instantiates this module with its depth   *)
(* and its items and calls these operators where the code calls ringBuf_*. *)
(*                                                                         *)
(* Indices run over twice the depth, so that a full ring and an empty ring *)
(* differ.  `unsigned int`, `unsigned short` and `short` all have the      *)
(* width of one machine word, and the operators keep that width: HalfWord  *)
(* is 2^15 on mcs51, and may be smaller in a model that is to reach the    *)
(* largest depth a word allows.                                            *)
(***************************************************************************)
EXTENDS Integers, Sequences

CONSTANTS
    Depth,     \* number of slots, ringbuf_t.depth
    Item,      \* what one slot holds
    HalfWord   \* half the number of values of a machine word

\* What RINGBUF_ARG_CHECK demands of `depth`, at most half the largest word;
\* every entry point returns RINGBUF_ERR_ARG otherwise and no ring in the
\* firmware is declared so.
ASSUME DepthAssumption == HalfWord \in Nat /\ Depth \in 1 .. HalfWord - 1

Word == 2 * HalfWord

ToUnsigned(n) == n % Word

ToSigned(n) ==
    LET u == n % Word IN IF u < HalfWord THEN u ELSE u - Word

Index == 0 .. 2 * Depth - 1
Slot  == 0 .. Depth - 1
Ring  == [wr : Index, rd : Index, buf : [Slot -> Item]]

-----------------------------------------------------------------------------
(***************************************************************************)
(* Plausible slips in that arithmetic, for mutation runs only: wrapping at *)
(* the depth, not wrapping, and counting equal indices as a full ring.     *)
(***************************************************************************)
UpdateIdxAtDepth(i) == IF i + 1 >= Depth THEN i + 1 - Depth ELSE i + 1

UpdateIdxUnwrapped(i) == i + 1

CalcCountStrict(rb) ==
    ToSigned(ToUnsigned(IF rb.wr > rb.rd THEN rb.wr - rb.rd
                                         ELSE rb.wr + Depth - rb.rd))

-----------------------------------------------------------------------------
\* RINGBUF_UPDATE_IDX
UpdateIdx(i) == IF i + 1 >= 2 * Depth THEN i + 1 - 2 * Depth ELSE i + 1

\* _get_item_ptr: one conditional subtraction stands for idx % depth.
SlotOf(i) == IF i >= Depth THEN i - Depth ELSE i

\* _calc_count, the element count every entry point decides by: word-wide
\* unsigned arithmetic converted to the signed ringbuf_cnt_t.
CalcCount(rb) ==
    ToSigned(ToUnsigned(IF rb.wr >= rb.rd THEN rb.wr - rb.rd
                                          ELSE rb.wr + Depth - rb.rd))

\* ringBuf_init and ringBuf_clear: the slots keep what they held.
Cleared(rb) == [rb EXCEPT !.wr = 0, !.rd = 0]

-----------------------------------------------------------------------------
\* push_core's `count >= rb->depth`: int against unsigned short converts the
\* count to unsigned, so a negative count compares as a huge one.
SeemsFull(rb) == ToUnsigned(CalcCount(rb)) >= Depth

\* push_core past the fullness test: store, then advance wr.
Stored(rb, x) ==
    [rb EXCEPT !.buf[SlotOf(rb.wr)] = x, !.wr = UpdateIdx(rb.wr)]

\* push_core of an overwritable ring that seems full drops the oldest first.
Evicted(rb) == [rb EXCEPT !.rd = UpdateIdx(rb.rd)]

PushErr(rb, overwritable) ==
    IF SeemsFull(rb) /\ ~overwritable THEN "WR_DENIED" ELSE "OK"

\* A slip, for mutation runs only: the refusal is reported but not obeyed.
AfterPushUnguarded(rb, x, overwritable) == Stored(rb, x)

AfterPush(rb, x, overwritable) ==
    IF SeemsFull(rb)
    THEN IF overwritable THEN Stored(Evicted(rb), x) ELSE rb
    ELSE Stored(rb, x)

-----------------------------------------------------------------------------
\* pop_core
SeemsEmpty(rb) == CalcCount(rb) = 0

PopErr(rb) == IF SeemsEmpty(rb) THEN "EMPTY" ELSE "OK"

Oldest(rb) == rb.buf[SlotOf(rb.rd)]

AfterPop(rb) ==
    IF SeemsEmpty(rb) THEN rb ELSE [rb EXCEPT !.rd = UpdateIdx(rb.rd)]

-----------------------------------------------------------------------------
\* peek_core: itemIdx is unsigned, so it too is compared with the count
\* converted to unsigned.
PeekErr(rb, itemIdx) ==
    IF SeemsEmpty(rb) THEN "EMPTY"
    ELSE IF itemIdx >= ToUnsigned(CalcCount(rb)) THEN "IDX"
    ELSE "OK"

\* The slot peek_core reads: one conditional subtraction of 2*depth.
PeekSlot(rb, itemIdx) ==
    LET target == ToUnsigned(rb.rd + itemIdx)
    IN  SlotOf(IF target >= 2 * Depth THEN target - 2 * Depth ELSE target)

\* What a read of that slot may yield.  Outside the buffer the program reads
\* whatever memory is there: any item.
PeekValues(rb, itemIdx) ==
    IF PeekSlot(rb, itemIdx) \in Slot
    THEN {rb.buf[PeekSlot(rb, itemIdx)]}
    ELSE Item

-----------------------------------------------------------------------------
(***************************************************************************)
(* The view of a ring that the code does not compute but means: how many   *)
(* items lie between rd and wr, and which they are, oldest first.          *)
(***************************************************************************)
Occupancy(rb) ==
    IF rb.wr >= rb.rd THEN rb.wr - rb.rd ELSE rb.wr + 2 * Depth - rb.rd

\* The index k places past rd.
IndexFrom(rb, k) ==
    IF rb.rd + k >= 2 * Depth THEN rb.rd + k - 2 * Depth ELSE rb.rd + k

Contents(rb) ==
    [k \in 1 .. Occupancy(rb) |-> rb.buf[SlotOf(IndexFrom(rb, k - 1))]]
=============================================================================
