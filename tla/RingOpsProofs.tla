--------------------------- MODULE RingOpsProofs ---------------------------
(***************************************************************************)
(* What the ring's arithmetic does, for every depth the code accepts: the  *)
(* facts the proofs about a ring's clients rest on.                        *)
(***************************************************************************)
EXTENDS RingOps, Basics

LEMMA WordPositive == Word \in Nat /\ 0 < Word /\ 2 * Depth < Word
  BY DepthAssumption DEF Word

\* What a number that fits a word becomes as an unsigned word.
LEMMA UnsignedOfNat ==
    ASSUME NEW n \in Int, 0 <= n, n < Word
    PROVE  ToUnsigned(n) = n
  BY WordPositive, Z3 DEF ToUnsigned

LEMMA UnsignedOfNegative ==
    ASSUME NEW n \in Int, n < 0, -Word <= n
    PROVE  ToUnsigned(n) = n + Word
  BY WordPositive, Z3 DEF ToUnsigned

\* A number that fits a signed word survives both conversions.
LEMMA SignedFits ==
    ASSUME NEW n \in Int, -HalfWord <= n, n < HalfWord
    PROVE  ToSigned(ToUnsigned(n)) = n
<1> USE DepthAssumption
<1>1. CASE n >= 0
  <2>1. ToUnsigned(n) = n /\ n % Word = n
    BY <1>1, UnsignedOfNat DEF Word, ToUnsigned
  <2> QED
    BY <1>1, <2>1 DEF ToSigned
<1>2. CASE n < 0
  <2>1. ToUnsigned(n) = n + Word
    BY <1>2, UnsignedOfNegative DEF Word
  <2>2. (n + Word) \in Int /\ 0 <= n + Word /\ n + Word < Word
    BY <1>2 DEF Word
  <2>3. (n + Word) % Word = n + Word
    BY <2>2, UnsignedOfNat DEF ToUnsigned
  <2>4. ~(n + Word < HalfWord) /\ (n + Word) - Word = n
    BY <1>2 DEF Word
  <2> QED
    BY <2>1, <2>3, <2>4 DEF ToSigned
<1> QED
  BY <1>1, <1>2

\* The bounds of the two indices, as numbers.
LEMMA RingIndices ==
    ASSUME NEW rb \in Ring
    PROVE  /\ rb.wr \in Int /\ 0 <= rb.wr /\ rb.wr < 2 * Depth
           /\ rb.rd \in Int /\ 0 <= rb.rd /\ rb.rd < 2 * Depth
           /\ Depth \in Int /\ 0 < Depth /\ 2 * Depth < Word /\ Word \in Int
  BY DepthAssumption DEF Ring, Index, Word

\* Below capacity, the count is the number of items while the write index is
\* ahead, and that number less the depth once it has wrapped.
LEMMA CountValue ==
    ASSUME NEW rb \in Ring, Occupancy(rb) < Depth
    PROVE  /\ rb.wr >= rb.rd => CalcCount(rb) = Occupancy(rb)
           /\ rb.wr < rb.rd => CalcCount(rb) = Occupancy(rb) - Depth
<1> USE DepthAssumption
<1>1. rb.wr \in Index /\ rb.rd \in Index
  BY DEF Ring
<1> DEFINE wr == rb.wr
           rd == rb.rd
<1>2. wr \in Int /\ rd \in Int /\ 0 <= wr /\ 0 <= rd /\ wr < 2 * Depth /\ rd < 2 * Depth
  BY <1>1 DEF Index
<1> HIDE DEF wr, rd
<1>3. CASE wr >= rd
  <2>1. wr - rd < Depth
    BY <1>3 DEF Occupancy, wr, rd
  <2>2. wr - rd \in Int /\ 0 <= wr - rd
    BY <1>2, <1>3
  <2>3. Depth \in Int /\ Depth < HalfWord
    OBVIOUS
  <2>4. wr - rd < HalfWord
    BY <1>2, <2>1, <2>3
  <2>5. ToSigned(ToUnsigned(wr - rd)) = wr - rd
    BY <2>2, <2>4, SignedFits
  <2> QED
    BY <1>2, <1>3, <2>5 DEF CalcCount, Occupancy, wr, rd
<1>4. CASE wr < rd
  <2>1. wr + Depth - rd \in Int /\ -HalfWord <= wr + Depth - rd /\ wr + Depth - rd < HalfWord
    BY <1>2, <1>4
  <2>2. ToSigned(ToUnsigned(wr + Depth - rd)) = wr + Depth - rd
    BY <2>1, SignedFits
  <2>3. CalcCount(rb) = wr + Depth - rd
    BY <1>2, <1>4, <2>2 DEF CalcCount, wr, rd
  <2>4. Occupancy(rb) = wr + 2 * Depth - rd
    BY <1>2, <1>4 DEF Occupancy, wr, rd
  <2> QED
    BY <1>2, <1>4, <2>3, <2>4 DEF wr, rd
<1> QED
  BY <1>2, <1>3, <1>4 DEF wr, rd

\* Below capacity, push_core takes the ring for full exactly when the write
\* index has wrapped and the read index has not; pop_core is never mistaken.
LEMMA SeemsFullIff ==
    ASSUME NEW rb \in Ring, Occupancy(rb) < Depth
    PROVE  /\ SeemsFull(rb) <=> rb.wr < rb.rd
           /\ SeemsEmpty(rb) <=> Occupancy(rb) = 0
           /\ SeemsFull(rb) => Occupancy(rb) > 0
<1> USE DepthAssumption
<1>1. /\ rb.wr \in Int /\ 0 <= rb.wr /\ rb.wr < 2 * Depth
      /\ rb.rd \in Int /\ 0 <= rb.rd /\ rb.rd < 2 * Depth
      /\ Depth \in Int /\ 2 * Depth < Word /\ Word \in Int
  BY RingIndices
<1>2. Occupancy(rb) \in Int /\ 0 <= Occupancy(rb)
  BY <1>1 DEF Occupancy
<1>3. CASE rb.wr >= rb.rd
  <2>1. CalcCount(rb) = Occupancy(rb)
    BY <1>3, CountValue
  <2>2. ToUnsigned(CalcCount(rb)) = Occupancy(rb)
    BY <1>1, <1>2, <2>1, UnsignedOfNat
  <2> QED
    BY <1>1, <1>2, <1>3, <2>1, <2>2 DEF SeemsFull, SeemsEmpty
<1>4. CASE rb.wr < rb.rd
  <2>1. CalcCount(rb) = Occupancy(rb) - Depth
    BY <1>4, CountValue
  <2>2. ToUnsigned(CalcCount(rb)) = Occupancy(rb) - Depth + Word
    BY <1>1, <1>2, <2>1, UnsignedOfNegative
  <2>3. Occupancy(rb) > 0
    BY <1>1, <1>4 DEF Occupancy
  <2> QED
    BY <1>1, <1>2, <1>4, <2>1, <2>2, <2>3 DEF SeemsFull, SeemsEmpty
<1> QED
  BY <1>1, <1>3, <1>4

-----------------------------------------------------------------------------
\* Indices wrap inside their range, and slots inside the buffer.
LEMMA UpdateIdxType ==
    ASSUME NEW i \in Index
    PROVE  UpdateIdx(i) \in Index
  BY DepthAssumption DEF Index, UpdateIdx

LEMMA SlotOfType ==
    ASSUME NEW i \in Index
    PROVE  SlotOf(i) \in Slot
  BY DepthAssumption DEF Index, Slot, SlotOf

LEMMA IndexFromType ==
    ASSUME NEW rb \in Ring, NEW k \in 0 .. Depth
    PROVE  IndexFrom(rb, k) \in Index
  BY DepthAssumption DEF Ring, Index, IndexFrom

LEMMA OccupancyType ==
    ASSUME NEW rb \in Ring
    PROVE  /\ Occupancy(rb) \in Nat
           /\ Occupancy(rb) = 0 <=> rb.wr = rb.rd
  BY DepthAssumption DEF Ring, Index, Occupancy

\* The write index is the one Occupancy places past the read index, and no
\* stored item below capacity shares its slot.
LEMMA WriteIndex ==
    ASSUME NEW rb \in Ring
    PROVE  IndexFrom(rb, Occupancy(rb)) = rb.wr
  BY DepthAssumption DEF Ring, Index, Occupancy, IndexFrom

LEMMA WriteSlotFree ==
    ASSUME NEW rb \in Ring, Occupancy(rb) < Depth,
           NEW k \in 0 .. Occupancy(rb) - 1
    PROVE  SlotOf(IndexFrom(rb, k)) # SlotOf(rb.wr)
<1>1. /\ rb.wr \in Int /\ 0 <= rb.wr /\ rb.wr < 2 * Depth
      /\ rb.rd \in Int /\ 0 <= rb.rd /\ rb.rd < 2 * Depth
      /\ Depth \in Int /\ Depth > 0
      /\ k \in Int /\ 0 <= k /\ k < Occupancy(rb)
  BY RingIndices, OccupancyType
<1>2. CASE rb.wr >= rb.rd
  BY <1>1, <1>2 DEF Occupancy, IndexFrom, SlotOf
<1>3. CASE rb.wr < rb.rd
  BY <1>1, <1>3 DEF Occupancy, IndexFrom, SlotOf
<1> QED
  BY <1>1, <1>2, <1>3

-----------------------------------------------------------------------------
\* The contents are a sequence of items, one per place between rd and wr.
LEMMA ContentsType ==
    ASSUME NEW rb \in Ring, Occupancy(rb) <= Depth
    PROVE  /\ Contents(rb) \in Seq(Item)
           /\ Len(Contents(rb)) = Occupancy(rb)
           /\ \A k \in 1 .. Occupancy(rb) :
                 Contents(rb)[k] = rb.buf[SlotOf(IndexFrom(rb, k - 1))]
<1>1. Occupancy(rb) \in Nat
  BY OccupancyType
<1>2. ASSUME NEW k \in 1 .. Occupancy(rb)
      PROVE  rb.buf[SlotOf(IndexFrom(rb, k - 1))] \in Item
  <2>1. k - 1 \in 0 .. Depth
    BY <1>1, DepthAssumption
  <2>2. SlotOf(IndexFrom(rb, k - 1)) \in Slot
    BY <2>1, IndexFromType, SlotOfType
  <2> QED
    BY <2>2 DEF Ring
<1>3. Contents(rb) \in [1 .. Occupancy(rb) -> Item]
  BY <1>2 DEF Contents
<1> QED
  BY <1>1, <1>3 DEF Contents

\* Storing appends, as long as the ring is below capacity.
LEMMA StoredAppends ==
    ASSUME NEW rb \in Ring, NEW x \in Item, Occupancy(rb) < Depth
    PROVE  /\ Stored(rb, x) \in Ring
           /\ Occupancy(Stored(rb, x)) = Occupancy(rb) + 1
           /\ Contents(Stored(rb, x)) = Append(Contents(rb), x)
<1> DEFINE new == Stored(rb, x)
           n == Occupancy(rb)
<1>1. /\ rb.wr \in Index /\ rb.rd \in Index /\ rb.buf \in [Slot -> Item]
      /\ SlotOf(rb.wr) \in Slot
  BY SlotOfType DEF Ring
<1>2. /\ new \in Ring
      /\ new.wr = UpdateIdx(rb.wr) /\ new.rd = rb.rd
      /\ new.buf = [rb.buf EXCEPT ![SlotOf(rb.wr)] = x]
  BY <1>1, UpdateIdxType DEF Ring, Stored
<1>3. n \in Nat /\ n < Depth /\ Depth \in Nat
  BY OccupancyType, DepthAssumption
<1>4. Occupancy(new) = n + 1
  BY <1>2, <1>3, RingIndices DEF Occupancy, UpdateIdx
<1>5. \A k \in 0 .. n : IndexFrom(new, k) = IndexFrom(rb, k)
  BY <1>2 DEF IndexFrom
<1> HIDE DEF new, n
<1>6. /\ Contents(rb) \in Seq(Item) /\ Len(Contents(rb)) = n
      /\ \A k \in 1 .. n :
            Contents(rb)[k] = rb.buf[SlotOf(IndexFrom(rb, k - 1))]
  BY <1>3, ContentsType DEF n
<1>7. /\ Contents(new) \in Seq(Item) /\ Len(Contents(new)) = n + 1
      /\ \A k \in 1 .. n + 1 :
            Contents(new)[k] = new.buf[SlotOf(IndexFrom(new, k - 1))]
  <2>1. Occupancy(new) <= Depth
    BY <1>3, <1>4
  <2> QED
    BY <1>2, <1>4, <2>1, ContentsType
<1>8. /\ Append(Contents(rb), x) \in Seq(Item)
      /\ Len(Append(Contents(rb), x)) = n + 1
      /\ \A k \in 1 .. n : Append(Contents(rb), x)[k] = Contents(rb)[k]
      /\ Append(Contents(rb), x)[n + 1] = x
  BY <1>6, AppendProperties
<1>9. ASSUME NEW k \in 1 .. n + 1
      PROVE  Contents(new)[k] = Append(Contents(rb), x)[k]
  <2>1. CASE k = n + 1
    <3>1. IndexFrom(new, k - 1) = rb.wr
      BY <1>3, <1>5, <2>1, WriteIndex DEF n
    <3> QED
      BY <1>1, <1>2, <1>7, <1>8, <2>1, <3>1
  <2>2. CASE k # n + 1
    <3>1. k \in 1 .. n /\ k - 1 \in 0 .. n - 1 /\ k - 1 \in 0 .. n /\ k - 1 \in 0 .. Depth
      BY <1>3, <2>2
    <3>2. SlotOf(IndexFrom(rb, k - 1)) # SlotOf(rb.wr)
      BY <3>1, WriteSlotFree DEF n
    <3>3. SlotOf(IndexFrom(rb, k - 1)) \in Slot
      BY <3>1, IndexFromType, SlotOfType
    <3>4. new.buf[SlotOf(IndexFrom(new, k - 1))] = rb.buf[SlotOf(IndexFrom(rb, k - 1))]
      BY <1>1, <1>2, <1>5, <3>1, <3>2, <3>3
    <3> QED
      BY <1>6, <1>7, <1>8, <3>1, <3>4
  <2> QED
    BY <2>1, <2>2
<1>10. Contents(new) = Append(Contents(rb), x)
  BY <1>7, <1>8, <1>9, SeqEqual
<1> QED
  BY <1>2, <1>4, <1>10 DEF new, n

\* Advancing rd in a ring that holds something drops its oldest item and
\* nothing else.
LEMMA AdvanceDrops ==
    ASSUME NEW rb \in Ring, 0 < Occupancy(rb), Occupancy(rb) <= Depth
    PROVE  /\ Evicted(rb) \in Ring
           /\ Occupancy(Evicted(rb)) = Occupancy(rb) - 1
           /\ Contents(rb) # << >>
           /\ Oldest(rb) = Head(Contents(rb))
           /\ Contents(Evicted(rb)) = Tail(Contents(rb))
<1> DEFINE new == Evicted(rb)
           n == Occupancy(rb)
<1>1. /\ rb.wr \in Index /\ rb.rd \in Index /\ rb.buf \in [Slot -> Item]
  BY DEF Ring
<1>2. /\ new \in Ring
      /\ new.rd = UpdateIdx(rb.rd) /\ new.wr = rb.wr /\ new.buf = rb.buf
  BY <1>1, UpdateIdxType DEF Ring, Evicted
<1>3. n \in Nat /\ 0 < n /\ n <= Depth /\ Depth \in Nat
  BY OccupancyType, DepthAssumption
<1>4. /\ rb.wr \in Int /\ 0 <= rb.wr /\ rb.wr < 2 * Depth
      /\ rb.rd \in Int /\ 0 <= rb.rd /\ rb.rd < 2 * Depth
  BY RingIndices
<1>5. Occupancy(new) = n - 1
  BY <1>2, <1>3, <1>4 DEF Occupancy, UpdateIdx
<1>6. ASSUME NEW k \in 0 .. n - 1
      PROVE  IndexFrom(new, k) = IndexFrom(rb, k + 1)
  BY <1>2, <1>3, <1>4 DEF IndexFrom, UpdateIdx
<1>7. IndexFrom(rb, 0) = rb.rd
  BY <1>3, <1>4 DEF IndexFrom
<1> HIDE DEF new, n
<1>8. /\ Contents(rb) \in Seq(Item) /\ Len(Contents(rb)) = n
      /\ \A k \in 1 .. n :
            Contents(rb)[k] = rb.buf[SlotOf(IndexFrom(rb, k - 1))]
  BY <1>3, ContentsType DEF n
<1>9. /\ Contents(new) \in Seq(Item) /\ Len(Contents(new)) = n - 1
      /\ \A k \in 1 .. n - 1 :
            Contents(new)[k] = new.buf[SlotOf(IndexFrom(new, k - 1))]
  <2>1. Occupancy(new) <= Depth
    BY <1>3, <1>5
  <2> QED
    BY <1>2, <1>5, <2>1, ContentsType
<1>10. Contents(rb) # << >> /\ Head(Contents(rb)) = Contents(rb)[1]
  BY <1>3, <1>8, EmptySeq
<1>11. /\ Tail(Contents(rb)) \in Seq(Item)
       /\ Len(Tail(Contents(rb))) = n - 1
       /\ \A k \in 1 .. n - 1 : Tail(Contents(rb))[k] = Contents(rb)[k + 1]
  BY <1>3, <1>8, <1>10, HeadTailProperties
<1>12. ASSUME NEW k \in 1 .. n - 1
       PROVE  Contents(new)[k] = Tail(Contents(rb))[k]
  <2>1. k + 1 \in 1 .. n /\ k - 1 \in 0 .. n - 1 /\ (k - 1) + 1 = (k + 1) - 1
    BY <1>3
  <2>2. IndexFrom(new, k - 1) = IndexFrom(rb, (k + 1) - 1)
    BY <1>6, <2>1
  <2> QED
    BY <1>2, <1>8, <1>9, <1>11, <2>1, <2>2
<1>13. Contents(new) = Tail(Contents(rb))
  BY <1>9, <1>11, <1>12, SeqEqual
<1>14. Oldest(rb) = Contents(rb)[1]
  BY <1>3, <1>7, <1>8 DEF Oldest
<1> QED
  BY <1>2, <1>5, <1>10, <1>13, <1>14 DEF new, n

\* A peek below the number of items is admitted and reads that item; one
\* admitted beyond it, or refused, finds a ring that is not empty.  The sum of
\* the read index and the item index has to fit a word: it does when the write
\* index has not passed 0, and it may not when it has, in a ring deeper than a
\* third of the word (RINGBUF_ARG_CHECK admits half of it).
LEMMA PeekReads ==
    ASSUME NEW rb \in Ring, Occupancy(rb) < Depth, NEW i \in 0 .. Word - 1,
           (rb.wr < rb.rd => rb.wr = 0) \/ 3 * Depth <= Word + 2
    PROVE  /\ Occupancy(rb) = 0 <=> PeekErr(rb, i) = "EMPTY"
           /\ PeekErr(rb, i) \in {"OK", "IDX", "EMPTY"}
           /\ PeekErr(rb, i) = "IDX" => i >= Occupancy(rb)
           /\ i < Occupancy(rb) =>
                /\ PeekErr(rb, i) = "OK"
                /\ PeekValues(rb, i) = {Contents(rb)[i + 1]}
           /\ PeekValues(rb, i) \subseteq Item
<1>1. /\ rb.wr \in Int /\ 0 <= rb.wr /\ rb.wr < 2 * Depth
      /\ rb.rd \in Int /\ 0 <= rb.rd /\ rb.rd < 2 * Depth
      /\ Depth \in Int /\ 0 < Depth /\ 2 * Depth < Word /\ Word \in Int
      /\ i \in Int /\ 0 <= i
  BY RingIndices
<1>2. Occupancy(rb) \in Nat
  BY OccupancyType
<1>3. SeemsEmpty(rb) <=> Occupancy(rb) = 0
  BY SeemsFullIff
<1>4. ToUnsigned(CalcCount(rb)) \in Int /\ Occupancy(rb) <= ToUnsigned(CalcCount(rb))
  <2>1. CASE rb.wr >= rb.rd
    BY <1>1, <1>2, <2>1, CountValue, UnsignedOfNat
  <2>2. CASE rb.wr < rb.rd
    <3>1. CalcCount(rb) = Occupancy(rb) - Depth
      BY <2>2, CountValue
    <3>2. ToUnsigned(Occupancy(rb) - Depth) = Occupancy(rb) - Depth + Word
      BY <1>1, <1>2, UnsignedOfNegative
    <3> QED
      BY <1>1, <1>2, <3>1, <3>2
  <2> QED
    BY <1>1, <2>1, <2>2
<1>5. PeekValues(rb, i) \subseteq Item
  BY DEF PeekValues, Ring
<1>6. ASSUME i < Occupancy(rb)
      PROVE  /\ PeekErr(rb, i) = "OK"
             /\ PeekValues(rb, i) = {Contents(rb)[i + 1]}
  <2>1. ToUnsigned(rb.rd + i) = rb.rd + i
    <3>1. rb.rd + i \in Int /\ 0 <= rb.rd + i /\ rb.rd + i < Word
      BY <1>1, <1>2, <1>6 DEF Occupancy
    <3> QED
      BY <3>1, UnsignedOfNat
  <2>2. PeekSlot(rb, i) = SlotOf(IndexFrom(rb, i))
    BY <1>1, <2>1 DEF PeekSlot, IndexFrom
  <2>3. i \in 0 .. Depth /\ i + 1 \in 1 .. Occupancy(rb) /\ (i + 1) - 1 = i
    BY <1>1, <1>2, <1>6
  <2>4. PeekSlot(rb, i) \in Slot
    BY <2>2, <2>3, IndexFromType, SlotOfType
  <2>5. PeekValues(rb, i) = {rb.buf[SlotOf(IndexFrom(rb, i))]}
    BY <2>2, <2>4 DEF PeekValues
  <2>6. Contents(rb)[i + 1] = rb.buf[SlotOf(IndexFrom(rb, i))]
    BY <1>1, <1>2, <2>3, ContentsType
  <2>7. PeekErr(rb, i) = "OK"
    BY <1>1, <1>2, <1>3, <1>4, <1>6 DEF PeekErr
  <2> QED
    BY <2>5, <2>6, <2>7
<1>7. PeekErr(rb, i) = "IDX" => i >= Occupancy(rb)
  BY <1>1, <1>2, <1>6
<1> QED
  BY <1>3, <1>5, <1>6, <1>7 DEF PeekErr

\* Clearing empties the ring.
LEMMA ClearedIsEmpty ==
    ASSUME NEW rb \in Ring
    PROVE  /\ Cleared(rb) \in Ring
           /\ Cleared(rb).wr = 0 /\ Cleared(rb).rd = 0
           /\ Occupancy(Cleared(rb)) = 0
<1>1. 0 \in Index
  BY DepthAssumption DEF Index
<1>2. /\ Cleared(rb) \in Ring
      /\ Cleared(rb).wr = 0 /\ Cleared(rb).rd = 0
  BY <1>1 DEF Cleared, Ring
<1> QED
  BY <1>2 DEF Occupancy

LEMMA EmptyContents ==
    ASSUME NEW rb \in Ring
    PROVE  Occupancy(rb) = 0 <=> Contents(rb) = << >>
<1>1. ASSUME Occupancy(rb) = 0 PROVE Contents(rb) = << >>
  BY <1>1 DEF Contents
<1>2. ASSUME Contents(rb) = << >> PROVE Occupancy(rb) = 0
  <2>1. DOMAIN Contents(rb) = 1 .. Occupancy(rb)
    BY DEF Contents
  <2>2. 1 \notin 1 .. Occupancy(rb)
    BY <1>2, <2>1
  <2> QED
    BY <2>2, OccupancyType
<1> QED
  BY <1>1, <1>2

-----------------------------------------------------------------------------
(***************************************************************************)
(* What an entry point does to the contents, for a client that stays below *)
(* the ring's capacity and never overwrites: what the proofs about such    *)
(* clients need, and all they need, of the arithmetic above.               *)
(***************************************************************************)

\* A push appends its item or, of a ring that holds something, changes nothing.
LEMMA PushAppends ==
    ASSUME NEW rb \in Ring, NEW x \in Item, Occupancy(rb) < Depth
    PROVE  /\ AfterPush(rb, x, FALSE) \in Ring
           /\ PushErr(rb, FALSE) \in {"OK", "WR_DENIED"}
           /\ PushErr(rb, FALSE) = "OK" =>
                /\ Contents(AfterPush(rb, x, FALSE)) = Append(Contents(rb), x)
                /\ Occupancy(AfterPush(rb, x, FALSE)) = Occupancy(rb) + 1
           /\ PushErr(rb, FALSE) # "OK" =>
                AfterPush(rb, x, FALSE) = rb /\ Contents(rb) # << >>
<1>1. CASE SeemsFull(rb)
  <2>1. Contents(rb) # << >>
    BY <1>1, SeemsFullIff, EmptyContents
  <2> QED
    BY <1>1, <2>1 DEF AfterPush, PushErr
<1>2. CASE ~SeemsFull(rb)
  BY <1>2, StoredAppends DEF AfterPush, PushErr
<1> QED
  BY <1>1, <1>2

\* A pop takes the oldest item, and finds none only in an empty ring.
LEMMA PopTakesHead ==
    ASSUME NEW rb \in Ring, Occupancy(rb) < Depth
    PROVE  /\ AfterPop(rb) \in Ring
           /\ SeemsEmpty(rb) <=> Contents(rb) = << >>
           /\ SeemsEmpty(rb) => AfterPop(rb) = rb
           /\ ~SeemsEmpty(rb) =>
                /\ Oldest(rb) \in Item
                /\ Oldest(rb) = Head(Contents(rb))
                /\ Contents(AfterPop(rb)) = Tail(Contents(rb))
                /\ Occupancy(AfterPop(rb)) = Occupancy(rb) - 1
<1>1. SeemsEmpty(rb) <=> Contents(rb) = << >>
  BY SeemsFullIff, EmptyContents
<1>2. CASE SeemsEmpty(rb)
  BY <1>1, <1>2 DEF AfterPop
<1>3. CASE ~SeemsEmpty(rb)
  <2>1. 0 < Occupancy(rb) /\ Occupancy(rb) <= Depth
    BY <1>3, SeemsFullIff, OccupancyType, DepthAssumption
  <2>2. AfterPop(rb) = Evicted(rb)
    BY <1>3 DEF AfterPop, Evicted
  <2>3. Oldest(rb) \in Item
    BY SlotOfType DEF Oldest, Ring
  <2> QED
    BY <1>1, <1>3, <2>1, <2>2, <2>3, AdvanceDrops
<1> QED
  BY <1>2, <1>3

\* The contents of such a ring are a sequence as long as it is occupied.
LEMMA ContentsSeq ==
    ASSUME NEW rb \in Ring, Occupancy(rb) < Depth
    PROVE  /\ Contents(rb) \in Seq(Item)
           /\ Len(Contents(rb)) = Occupancy(rb)
           /\ Occupancy(rb) \in Nat
  BY ContentsType, OccupancyType, DepthAssumption

\* The count is zero of an empty ring only, and within the depth of zero.
LEMMA CountBounds ==
    ASSUME NEW rb \in Ring, Occupancy(rb) < Depth
    PROVE  /\ CalcCount(rb) \in Int
           /\ - Depth < CalcCount(rb) /\ CalcCount(rb) < Depth
           /\ CalcCount(rb) = 0 <=> Contents(rb) = << >>
<1>1. Occupancy(rb) \in Nat /\ Depth \in Nat
  BY OccupancyType, DepthAssumption
<1>2. CalcCount(rb) = 0 <=> Contents(rb) = << >>
  BY SeemsFullIff, EmptyContents DEF SeemsEmpty
<1>3. rb.wr < rb.rd => Occupancy(rb) > 0
  BY RingIndices DEF Occupancy
<1> QED
  BY <1>1, <1>2, <1>3, CountValue, RingIndices

\* A ring whose indices are both 0 is one, and holds nothing.
LEMMA FreshRing ==
    ASSUME NEW x \in Item
    PROVE  LET rb == [wr |-> 0, rd |-> 0, buf |-> [s \in Slot |-> x]]
           IN  rb \in Ring /\ Occupancy(rb) = 0 /\ Contents(rb) = << >>
<1> DEFINE rb == [wr |-> 0, rd |-> 0, buf |-> [s \in Slot |-> x]]
<1>1. rb \in Ring
  BY DepthAssumption DEF Ring, Index
<1>2. Occupancy(rb) = 0
  BY DEF Occupancy
<1> QED
  BY <1>1, <1>2, EmptyContents

\* What the operations yield is a ring again, of items, however full it is.
LEMMA RingTypes ==
    ASSUME NEW rb \in Ring, NEW x \in Item
    PROVE  /\ AfterPush(rb, x, FALSE) \in Ring
           /\ AfterPop(rb) \in Ring
           /\ Cleared(rb) \in Ring
           /\ Oldest(rb) \in Item
<1>1. /\ rb.wr \in Index /\ rb.rd \in Index /\ rb.buf \in [Slot -> Item]
      /\ UpdateIdx(rb.wr) \in Index /\ UpdateIdx(rb.rd) \in Index
      /\ SlotOf(rb.wr) \in Slot /\ SlotOf(rb.rd) \in Slot
  BY UpdateIdxType, SlotOfType DEF Ring
<1>2. Stored(rb, x) \in Ring
  BY <1>1 DEF Stored, Ring
<1>3. AfterPop(rb) \in Ring
  BY <1>1 DEF AfterPop, Ring
<1> QED
  BY <1>1, <1>2, <1>3, ClearedIsEmpty DEF AfterPush, Oldest

-----------------------------------------------------------------------------
(***************************************************************************)
(* For a client that may come to overfill its ring, in the middle of a run *)
(* of pushes: as long as nothing has been overwritten, e waits in rb at    *)
(* most n times.                                                           *)
(***************************************************************************)
AtMost(rb, e, n) == Occupancy(rb) <= Depth => Times(Contents(rb), e) <= n

\* A push that leaves nothing overwritten has appended its item or changed
\* nothing, or has wrapped the write index onto the read index, and what was
\* left of the contents is gone.
LEMMA PushGives ==
    ASSUME NEW rb \in Ring, NEW x \in Item, Occupancy(AfterPush(rb, x, FALSE)) <= Depth
    PROVE  \/ AfterPush(rb, x, FALSE) = rb
           \/ /\ Occupancy(rb) < Depth
              /\ Contents(AfterPush(rb, x, FALSE)) = Append(Contents(rb), x)
           \/ Contents(AfterPush(rb, x, FALSE)) = << >>
<1> DEFINE new == Stored(rb, x)
<1>1. CASE SeemsFull(rb)
  BY <1>1 DEF AfterPush
<1>2. CASE ~SeemsFull(rb) /\ Occupancy(rb) < Depth
  BY <1>2, StoredAppends DEF AfterPush
<1>3. CASE ~SeemsFull(rb) /\ ~(Occupancy(rb) < Depth)
  <2>1. AfterPush(rb, x, FALSE) = new
    BY <1>3 DEF AfterPush
  <2>2. new.wr = UpdateIdx(rb.wr) /\ new.rd = rb.rd
    BY DEF Stored, Ring
  <2>3. Occupancy(new) <= Depth
    BY <2>1
  <2> HIDE DEF new
  <2>4. Occupancy(new) = 0
    BY <1>3, <2>2, <2>3, RingIndices DEF Occupancy, UpdateIdx
  <2>5. Contents(new) = << >>
    BY <2>4 DEF Contents
  <2> QED
    BY <2>1, <2>5
<1> QED
  BY <1>1, <1>2, <1>3

LEMMA AtMostNone ==
    ASSUME NEW rb, Contents(rb) = << >>, NEW e
    PROVE  AtMost(rb, e, 0)
<1>1. Times(Contents(rb), e) = 0
  BY TimesEmpty
<1> QED
  BY <1>1 DEF AtMost

LEMMA AtMostPush ==
    ASSUME NEW rb \in Ring, NEW x \in Item, NEW e, NEW n \in Nat, AtMost(rb, e, n)
    PROVE  AtMost(AfterPush(rb, x, FALSE), e, IF x = e THEN n + 1 ELSE n)
<1> DEFINE new == AfterPush(rb, x, FALSE)
           m   == IF x = e THEN n + 1 ELSE n
<1> SUFFICES ASSUME Occupancy(new) <= Depth PROVE Times(Contents(new), e) <= m
  BY DEF AtMost
<1>1. m \in Nat /\ n <= m
  OBVIOUS
<1>2. CASE new = rb
  <2>1. Contents(rb) \in Seq(Item)
    BY <1>2, ContentsType
  <2>2. Times(Contents(rb), e) <= n /\ Times(Contents(rb), e) \in Nat
    BY <1>2, <2>1, TimesType DEF AtMost
  <2> HIDE DEF m, new
  <2> QED
    BY <1>1, <1>2, <2>2
<1>3. CASE Occupancy(rb) < Depth /\ Contents(new) = Append(Contents(rb), x)
  <2>1. Contents(rb) \in Seq(Item) /\ Occupancy(rb) <= Depth
    BY <1>3, ContentsSeq, OccupancyType, DepthAssumption
  <2>2. Times(Contents(rb), e) <= n /\ Times(Contents(rb), e) \in Nat
    BY <2>1, TimesType DEF AtMost
  <2>3. Times(Contents(new), e) = Times(Contents(rb), e) + (IF x = e THEN 1 ELSE 0)
    <3>1. Times(Append(Contents(rb), x), e) = Times(Contents(rb), e) + (IF x = e THEN 1 ELSE 0)
      BY <2>1, TimesAppend
    <3> HIDE DEF new
    <3> QED
      BY <1>3, <3>1
  <2> HIDE DEF new
  <2> QED
    BY <2>2, <2>3
<1>4. CASE Contents(new) = << >>
  <2>1. Times(Contents(new), e) = 0
    BY <1>4, TimesEmpty
  <2> HIDE DEF m, new
  <2> QED
    BY <1>1, <2>1
<1> QED
  BY <1>2, <1>3, <1>4, PushGives

\* What a pop takes out is one fewer.
LEMMA AtMostPop ==
    ASSUME NEW rb \in Ring, Occupancy(rb) <= Depth, ~SeemsEmpty(rb),
           NEW e, NEW n \in Nat, AtMost(rb, e, n)
    PROVE  /\ Oldest(rb) = e => n > 0
           /\ AtMost(AfterPop(rb), e, IF Oldest(rb) = e THEN n - 1 ELSE n)
<1>1. 0 < Occupancy(rb)
  <2>1. CASE Occupancy(rb) = 0
    BY <2>1, SeemsFullIff, DepthAssumption
  <2> QED
    BY <2>1, OccupancyType
<1>2. AfterPop(rb) = Evicted(rb)
  BY DEF AfterPop, Evicted
<1>3. /\ Contents(rb) # << >>
      /\ Oldest(rb) = Head(Contents(rb))
      /\ Contents(AfterPop(rb)) = Tail(Contents(rb))
  BY <1>1, <1>2, AdvanceDrops
<1>4. Contents(rb) \in Seq(Item)
  BY ContentsType
<1>5. Tail(Contents(rb)) \in Seq(Item)
  BY <1>3, <1>4, HeadTailProperties
<1>6. Times(Tail(Contents(rb)), e) \in Nat
  BY <1>5, TimesType
<1>7. Times(Contents(rb), e) = Times(Tail(Contents(rb)), e) + (IF Oldest(rb) = e THEN 1 ELSE 0)
  BY <1>3, <1>4, TimesTail
<1>8. Times(Contents(rb), e) <= n
  BY DEF AtMost
<1> QED
  BY <1>3, <1>6, <1>7, <1>8 DEF AtMost
=============================================================================
