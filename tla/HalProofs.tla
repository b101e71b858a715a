----------------------------- MODULE HalProofs -----------------------------
(***************************************************************************)
(* Units of the uni-stc library, for every size of buffers and counters: a *)
(* serial port on two FIFOs, between its interrupt, its client and the     *)
(* line; the flash memory, whatever moment a reset comes at; the two buses,*)
(* with a slave that is interrupted whenever it pleases the bus; the two PWM*)
(* engines, whose channels share the registers that say what each does; and*)
(* what the capturing channels of a PWM engine and of the PCA report.      *)
(***************************************************************************)
EXTENDS UartHal, Eeprom, Buses, EnhPwm, Pca, Basics

-----------------------------------------------------------------------------
(***************************************************************************)
(* The FIFO.                                                               *)
(***************************************************************************)

\* The fields of a FIFO.  Its write index is where `length` accesses from the
\* read index end, up to a turn of either index that has not been taken yet.
Fifo == [length : 0 .. FifoSize, rIndex : 0 .. FifoSize, wIndex : 0 .. FifoSize,
         status : {STATUS_CLEAR, STATUS_SENDING}, data : [0 .. FifoSize - 1 -> Byte]]

FifoOK(f) ==
    /\ f \in Fifo
    /\ f.rIndex + f.length - f.wIndex \in {-FifoSize, 0, FifoSize, 2 * FifoSize}

LEMMA SizeFits == FifoSize \in Nat /\ 0 < FifoSize
  BY HalAssumption

\* An access goes to the slot that many places on, or a turn before it.
LEMMA SlotIs ==
    ASSUME NEW index \in 0 .. FifoSize, NEW n \in 0 .. FifoSize - 1
    PROVE  SlotAt(index, n) = IF index + n < FifoSize THEN index + n ELSE index + n - FifoSize
<1>1. FifoSize \in Nat /\ 0 < FifoSize
  BY SizeFits
<1>2. CASE index + n < FifoSize
  BY <1>1, <1>2 DEF SlotAt
<1>3. CASE index + n >= FifoSize /\ index + n < 2 * FifoSize
  <2> DEFINE a == index + n
  <2>1. a \in Nat /\ FifoSize <= a /\ a < 2 * FifoSize
    BY <1>1, <1>3
  <2>2. a % FifoSize = a - FifoSize
    <3> HIDE DEF a
    <3> QED
      BY <1>1, <2>1
  <2> QED
    BY <1>1, <1>3, <2>2 DEF SlotAt
<1> QED
  BY <1>1, <1>2, <1>3

LEMMA SlotType ==
    ASSUME NEW index \in 0 .. FifoSize, NEW n \in 0 .. FifoSize - 1
    PROVE  SlotAt(index, n) \in 0 .. FifoSize - 1
  BY SizeFits, SlotIs

\* Where an index rests, it has gone that far, or a turn less.
LEMMA RestIs ==
    ASSUME NEW index \in 0 .. FifoSize, NEW count \in 0 .. FifoSize
    PROVE  /\ Rest(index, count) \in 0 .. FifoSize
           /\ index + count - Rest(index, count) \in {0, FifoSize}
<1>1. CASE count = 0
  BY <1>1, SizeFits DEF Rest
<1>2. CASE count # 0
  <2>1. count - 1 \in 0 .. FifoSize - 1
    BY <1>2, SizeFits
  <2>2. Rest(index, count) = SlotAt(index, count - 1) + 1
    BY <1>2 DEF Rest
  <2>3. SlotAt(index, count - 1) = IF index + (count - 1) < FifoSize THEN index + (count - 1)
                                   ELSE index + (count - 1) - FifoSize
    BY <2>1, SlotIs
  <2>4. FifoSize \in Nat /\ 0 < FifoSize
    BY SizeFits
  <2> QED
    BY <2>1, <2>2, <2>3, <2>4
<1> QED
  BY <1>1, <1>2

\* Within a turn no slot is gone to twice ...
LEMMA SlotsDiffer ==
    ASSUME NEW index \in 0 .. FifoSize, NEW n \in 0 .. FifoSize - 1, NEW m \in 0 .. FifoSize - 1,
           SlotAt(index, n) = SlotAt(index, m)
    PROVE  n = m
  BY SlotIs, SizeFits

\* ... and those from the write index on follow those in use.
LEMMA SlotFollows ==
    ASSUME NEW f, FifoOK(f), NEW n \in 0 .. FifoSize - 1 - f.length
    PROVE  SlotAt(f.wIndex, n) = SlotAt(f.rIndex, f.length + n)
<1>1. /\ f.length \in 0 .. FifoSize /\ f.rIndex \in 0 .. FifoSize /\ f.wIndex \in 0 .. FifoSize
      /\ f.rIndex + f.length - f.wIndex \in {-FifoSize, 0, FifoSize, 2 * FifoSize}
  BY DEF FifoOK, Fifo
<1>2. FifoSize \in Nat /\ 0 < FifoSize /\ n \in 0 .. FifoSize - 1 /\ f.length + n \in 0 .. FifoSize - 1
  BY <1>1, SizeFits
<1>3. SlotAt(f.wIndex, n) = IF f.wIndex + n < FifoSize THEN f.wIndex + n ELSE f.wIndex + n - FifoSize
  BY <1>1, <1>2, SlotIs
<1>4. SlotAt(f.rIndex, f.length + n)
        = IF f.rIndex + (f.length + n) < FifoSize THEN f.rIndex + (f.length + n)
          ELSE f.rIndex + (f.length + n) - FifoSize
  BY <1>1, <1>2, SlotIs
<1> QED
  BY <1>1, <1>2, <1>3, <1>4

LEMMA InUseType ==
    ASSUME NEW f, FifoOK(f)
    PROVE  /\ InUse(f) \in Seq(Byte) /\ Len(InUse(f)) = f.length
           /\ \A m \in 1 .. f.length : InUse(f)[m] = f.data[SlotAt(f.rIndex, m - 1)]
<1>1. f.length \in Nat /\ InUse(f) = [m \in 1 .. f.length |-> f.data[SlotAt(f.rIndex, m - 1)]]
  BY SizeFits DEF FifoOK, Fifo, InUse, ReadBytes
<1>2. ASSUME NEW m \in 1 .. f.length PROVE f.data[SlotAt(f.rIndex, m - 1)] \in Byte
  <2>1. m - 1 \in 0 .. FifoSize - 1 /\ f.rIndex \in 0 .. FifoSize
    BY SizeFits DEF FifoOK, Fifo
  <2>2. SlotAt(f.rIndex, m - 1) \in 0 .. FifoSize - 1
    BY <2>1, SlotType
  <2> QED
    BY <2>2 DEF FifoOK, Fifo
<1> QED
  BY <1>1, <1>2

\* What a write puts where
LEMMA WrittenSlots ==
    ASSUME NEW f, FifoOK(f), NEW bytes \in Seq(Byte), Accepts(f, Len(bytes))
    PROVE  LET data == WrittenTo(f, bytes).data
           IN  /\ data \in [0 .. FifoSize - 1 -> Byte]
               /\ \A n \in 1 .. Len(bytes) : data[SlotAt(f.wIndex, n - 1)] = bytes[n]
               /\ \A m \in 1 .. f.length : data[SlotAt(f.rIndex, m - 1)] = f.data[SlotAt(f.rIndex, m - 1)]
<1> DEFINE data == [i \in DOMAIN f.data |->
                      IF \E n \in 1 .. Len(bytes) : SlotAt(f.wIndex, n - 1) = i
                      THEN bytes[CHOOSE n \in 1 .. Len(bytes) : SlotAt(f.wIndex, n - 1) = i]
                      ELSE f.data[i]]
<1>1. WrittenTo(f, bytes).data = data
  BY DEF WrittenTo, FifoOK
<1>2. /\ f.length \in 0 .. FifoSize /\ Len(bytes) \in Nat /\ f.length + Len(bytes) <= FifoSize
      /\ f.rIndex \in 0 .. FifoSize /\ f.wIndex \in 0 .. FifoSize
      /\ f.data \in [0 .. FifoSize - 1 -> Byte] /\ FifoSize \in Nat
  BY SizeFits DEF FifoOK, Fifo, Accepts, fifoBytesFree
<1>3. ASSUME NEW n \in 1 .. Len(bytes)
      PROVE  /\ SlotAt(f.wIndex, n - 1) \in 0 .. FifoSize - 1
             /\ \A k \in 1 .. Len(bytes) : SlotAt(f.wIndex, k - 1) = SlotAt(f.wIndex, n - 1) => k = n
  <2>1. n - 1 \in 0 .. FifoSize - 1
    BY <1>2
  <2>2. ASSUME NEW k \in 1 .. Len(bytes), SlotAt(f.wIndex, k - 1) = SlotAt(f.wIndex, n - 1) PROVE k = n
    <3>1. k - 1 \in 0 .. FifoSize - 1
      BY <1>2
    <3>2. k - 1 = n - 1
      BY <1>2, <2>1, <2>2, <3>1, SlotsDiffer
    <3> QED
      BY <3>2
  <2> QED
    BY <1>2, <2>1, <2>2, SlotType
<1>4. ASSUME NEW n \in 1 .. Len(bytes) PROVE data[SlotAt(f.wIndex, n - 1)] = bytes[n]
  <2>1. (CHOOSE k \in 1 .. Len(bytes) : SlotAt(f.wIndex, k - 1) = SlotAt(f.wIndex, n - 1)) = n
    BY <1>3
  <2> QED
    BY <1>2, <1>3, <2>1
<1>5. ASSUME NEW m \in 1 .. f.length
      PROVE  data[SlotAt(f.rIndex, m - 1)] = f.data[SlotAt(f.rIndex, m - 1)]
  <2>1. m - 1 \in 0 .. FifoSize - 1
    BY <1>2
  <2>2. SlotAt(f.rIndex, m - 1) \in 0 .. FifoSize - 1
    BY <1>2, <2>1, SlotType
  <2>3. ASSUME NEW n \in 1 .. Len(bytes), SlotAt(f.wIndex, n - 1) = SlotAt(f.rIndex, m - 1) PROVE FALSE
    <3>1. n - 1 \in 0 .. FifoSize - 1 - f.length /\ f.length + (n - 1) \in 0 .. FifoSize - 1
      BY <1>2, SMTT(30)
    <3>2. SlotAt(f.wIndex, n - 1) = SlotAt(f.rIndex, f.length + (n - 1))
      BY <3>1, SlotFollows
    <3>3. f.length + (n - 1) = m - 1
      BY <1>2, <2>1, <2>3, <3>1, <3>2, SlotsDiffer
    <3> QED
      BY <1>2, <3>3
  <2> QED
    BY <1>2, <2>2, <2>3
<1>6. data \in [0 .. FifoSize - 1 -> Byte]
  <2>1. ASSUME NEW i \in DOMAIN f.data, \E n \in 1 .. Len(bytes) : SlotAt(f.wIndex, n - 1) = i
        PROVE  bytes[CHOOSE n \in 1 .. Len(bytes) : SlotAt(f.wIndex, n - 1) = i] \in Byte
    BY <2>1
  <2> QED
    BY <1>2, <2>1
<1> HIDE DEF data
<1> QED
  BY <1>1, <1>4, <1>5, <1>6

\* An index that goes on keeps its distance to the other, but for turns.
LEMMA GoesAhead ==
    ASSUME NEW N \in Nat, 0 < N, NEW r \in 0 .. N, NEW l \in 0 .. N, NEW w \in 0 .. N,
           NEW c \in 0 .. N, l + c <= N, NEW v \in 0 .. N,
           r + l - w \in {-N, 0, N, 2 * N}, w + c - v \in {0, N}
    PROVE  r + (l + c) - v \in {-N, 0, N, 2 * N}
  OBVIOUS

LEMMA GoesAfter ==
    ASSUME NEW N \in Nat, 0 < N, NEW r \in 0 .. N, NEW l \in 0 .. N, NEW w \in 0 .. N,
           NEW c \in 0 .. N, c <= l, NEW v \in 0 .. N,
           r + l - w \in {-N, 0, N, 2 * N}, r + c - v \in {0, N}
    PROVE  v + (l - c) - w \in {-N, 0, N, 2 * N}
  OBVIOUS

LEMMA SameSlot ==
    ASSUME NEW N \in Nat, 0 < N, NEW r \in 0 .. N, NEW c \in 0 .. N, NEW v \in 0 .. N, r + c - v \in {0, N},
           NEW n \in 0 .. N - 1, c + n < N
    PROVE  (IF v + n < N THEN v + n ELSE v + n - N) = (IF r + (c + n) < N THEN r + (c + n) ELSE r + (c + n) - N)
  OBVIOUS

\* A place in the first part of a sequence, or in the second
LEMMA PlaceInOne ==
    ASSUME NEW l \in Nat, NEW c \in Nat, NEW m \in 1 .. l + c
    PROVE  m \in 1 .. l \/ \E n \in 1 .. c : m = l + n
<1>1. m > l => m - l \in 1 .. c /\ m = l + (m - l)
  OBVIOUS
<1> QED
  BY <1>1

LEMMA ConcatPlaces ==
    ASSUME NEW S, NEW s \in Seq(S), NEW t \in Seq(S)
    PROVE  /\ s \o t \in Seq(S) /\ Len(s \o t) = Len(s) + Len(t)
           /\ \A m \in 1 .. Len(s) : (s \o t)[m] = s[m]
           /\ \A n \in 1 .. Len(t) : (s \o t)[Len(s) + n] = t[n]
  OBVIOUS

\* Two sequences of the same length, place by place
LEMMA SameSeq ==
    ASSUME NEW S, NEW s \in Seq(S), NEW t \in Seq(S), Len(s) = Len(t), \A i \in 1 .. Len(s) : s[i] = t[i]
    PROVE  s = t
  OBVIOUS

\* fifoWrite keeps a FIFO one, and appends.
LEMMA WriteAppends ==
    ASSUME NEW f, FifoOK(f), NEW bytes \in Seq(Byte), Accepts(f, Len(bytes))
    PROVE  LET g == WrittenTo(f, bytes)
           IN  /\ FifoOK(g) /\ g.length = f.length + Len(bytes) /\ g.status = f.status
               /\ InUse(g) = InUse(f) \o bytes
<1>1. PICK g : g = WrittenTo(f, bytes)
  OBVIOUS
<1>2. PICK w : w = Rest(f.wIndex, Len(bytes))
  OBVIOUS
<1>3. /\ f.length \in 0 .. FifoSize /\ Len(bytes) \in 0 .. FifoSize /\ f.length + Len(bytes) <= FifoSize
      /\ f.rIndex \in 0 .. FifoSize /\ f.wIndex \in 0 .. FifoSize /\ FifoSize \in Nat /\ 0 < FifoSize
      /\ f.rIndex + f.length - f.wIndex \in {-FifoSize, 0, FifoSize, 2 * FifoSize}
  BY SizeFits DEF FifoOK, Fifo, Accepts, fifoBytesFree
<1>4. w \in 0 .. FifoSize /\ f.wIndex + Len(bytes) - w \in {0, FifoSize}
  BY <1>2, <1>3, RestIs
<1>5. /\ g.data \in [0 .. FifoSize - 1 -> Byte]
      /\ \A n \in 1 .. Len(bytes) : g.data[SlotAt(f.wIndex, n - 1)] = bytes[n]
      /\ \A m \in 1 .. f.length : g.data[SlotAt(f.rIndex, m - 1)] = f.data[SlotAt(f.rIndex, m - 1)]
  BY <1>1, WrittenSlots
<1>6. PICK data : g = [f EXCEPT !.wIndex = w, !.length = f.length + Len(bytes), !.data = data]
  BY <1>1, <1>2 DEF WrittenTo
<1>7. /\ g.length = f.length + Len(bytes) /\ g.rIndex = f.rIndex /\ g.wIndex = w /\ g.status = f.status
      /\ g.data = data
  BY <1>6 DEF FifoOK, Fifo
<1>8. FifoOK(g)
  <2>1. f.rIndex + (f.length + Len(bytes)) - w \in {-FifoSize, 0, FifoSize, 2 * FifoSize}
    BY <1>3, <1>4, GoesAhead
  <2>2. f.length + Len(bytes) \in 0 .. FifoSize
    BY <1>3
  <2>3. g \in Fifo
    BY <1>4, <1>5, <1>6, <1>7, <2>2 DEF FifoOK, Fifo
  <2> QED
    BY <1>7, <2>1, <2>3 DEF FifoOK
<1>9. InUse(g) = InUse(f) \o bytes
  <2>1. /\ InUse(g) \in Seq(Byte) /\ Len(InUse(g)) = f.length + Len(bytes)
        /\ \A m \in 1 .. f.length + Len(bytes) : InUse(g)[m] = g.data[SlotAt(f.rIndex, m - 1)]
    BY <1>7, <1>8, InUseType
  <2>2. /\ InUse(f) \in Seq(Byte) /\ Len(InUse(f)) = f.length
        /\ \A m \in 1 .. f.length : InUse(f)[m] = f.data[SlotAt(f.rIndex, m - 1)]
    BY InUseType
  <2>3. PICK s : s = InUse(f)
    OBVIOUS
  <2>4. /\ s \o bytes \in Seq(Byte) /\ Len(s \o bytes) = f.length + Len(bytes)
        /\ \A m \in 1 .. f.length : (s \o bytes)[m] = s[m]
        /\ \A n \in 1 .. Len(bytes) : (s \o bytes)[f.length + n] = bytes[n]
    <3>1. s \in Seq(Byte) /\ Len(s) = f.length
      BY <2>2, <2>3
    <3>2. /\ s \o bytes \in Seq(Byte) /\ Len(s \o bytes) = Len(s) + Len(bytes)
          /\ \A m \in 1 .. Len(s) : (s \o bytes)[m] = s[m]
          /\ \A n \in 1 .. Len(bytes) : (s \o bytes)[Len(s) + n] = bytes[n]
      BY <3>1, ConcatPlaces, SMTT(30)
    <3> QED
      BY <3>1, <3>2, Zenon
  <2>5. ASSUME NEW m \in 1 .. f.length + Len(bytes) PROVE InUse(g)[m] = (s \o bytes)[m]
    <3>1. CASE m \in 1 .. f.length
      BY <1>5, <2>1, <2>2, <2>3, <2>4, <3>1
    <3>2. CASE \E n \in 1 .. Len(bytes) : m = f.length + n
      <4>1. PICK n \in 1 .. Len(bytes) : m = f.length + n
        BY <3>2
      <4>2. n - 1 \in 0 .. FifoSize - 1 - f.length /\ f.length + (n - 1) = m - 1
        BY <1>3, <4>1
      <4>3. SlotAt(f.wIndex, n - 1) = SlotAt(f.rIndex, m - 1)
        BY <4>2, SlotFollows
      <4>4. InUse(g)[m] = bytes[n]
        BY <1>5, <2>1, <4>3
      <4> QED
        BY <2>4, <4>1, <4>4
    <3>3. f.length \in Nat /\ Len(bytes) \in Nat
      BY <1>3
    <3> QED
      BY <3>1, <3>2, <3>3, PlaceInOne
  <2> QED
    BY <2>1, <2>3, <2>4, <2>5, SameSeq
<1> QED
  BY <1>1, <1>7, <1>8, <1>9

\* fifoRead keeps a FIFO one, and takes from the front.
LEMMA ReadTakes ==
    ASSUME NEW f, FifoOK(f), NEW count \in Nat, Holds(f, count)
    PROVE  LET g == ReadFrom(f, count)
           IN  /\ FifoOK(g) /\ g.length = f.length - count /\ g.status = f.status
               /\ ReadBytes(f, count) \in Seq(Byte) /\ Len(ReadBytes(f, count)) = count
               /\ ReadBytes(f, count) \o InUse(g) = InUse(f)
<1>1. PICK g : g = ReadFrom(f, count)
  OBVIOUS
<1>2. PICK r : r = Rest(f.rIndex, count)
  OBVIOUS
<1>3. /\ f.length \in 0 .. FifoSize /\ count \in 0 .. FifoSize /\ count <= f.length
      /\ f.rIndex \in 0 .. FifoSize /\ f.wIndex \in 0 .. FifoSize /\ FifoSize \in Nat /\ 0 < FifoSize
      /\ f.rIndex + f.length - f.wIndex \in {-FifoSize, 0, FifoSize, 2 * FifoSize}
  BY SizeFits DEF FifoOK, Fifo, Holds
<1>4. r \in 0 .. FifoSize /\ f.rIndex + count - r \in {0, FifoSize}
  BY <1>2, <1>3, RestIs
<1>5. g = [f EXCEPT !.rIndex = r, !.length = f.length - count]
  BY <1>1, <1>2 DEF ReadFrom
<1>6. g.length = f.length - count /\ g.rIndex = r /\ g.wIndex = f.wIndex /\ g.status = f.status /\ g.data = f.data
  BY <1>5 DEF FifoOK, Fifo
<1>7. FifoOK(g)
  <2>1. g.rIndex + g.length - g.wIndex \in {-FifoSize, 0, FifoSize, 2 * FifoSize}
    BY <1>3, <1>4, <1>6, GoesAfter
  <2>2. f.length - count \in 0 .. FifoSize
    BY <1>3
  <2>3. g \in Fifo
    BY <1>4, <1>5, <2>2 DEF FifoOK, Fifo
  <2> QED
    BY <2>1, <2>3 DEF FifoOK
<1>8. /\ InUse(f) \in Seq(Byte) /\ Len(InUse(f)) = f.length
      /\ \A m \in 1 .. f.length : InUse(f)[m] = f.data[SlotAt(f.rIndex, m - 1)]
  BY InUseType
<1>9. /\ InUse(g) \in Seq(Byte) /\ Len(InUse(g)) = f.length - count
      /\ \A m \in 1 .. f.length - count : InUse(g)[m] = f.data[SlotAt(r, m - 1)]
  BY <1>6, <1>7, InUseType
<1>10. PICK first : first = ReadBytes(f, count)
  OBVIOUS
<1>11. first \in Seq(Byte) /\ Len(first) = count /\ \A m \in 1 .. count : first[m] = InUse(f)[m]
  <2>1. first = [m \in 1 .. count |-> f.data[SlotAt(f.rIndex, m - 1)]]
    BY <1>10 DEF ReadBytes
  <2>2. ASSUME NEW m \in 1 .. count PROVE f.data[SlotAt(f.rIndex, m - 1)] = InUse(f)[m] /\ InUse(f)[m] \in Byte
    <3>1. m \in 1 .. f.length
      BY <1>3
    <3>2. InUse(f)[m] = f.data[SlotAt(f.rIndex, m - 1)]
      BY <1>8, <3>1
    <3>3. InUse(f)[m] \in Byte
      BY <1>8, <3>1
    <3> QED
      BY <3>2, <3>3
  <2>3. DOMAIN first = 1 .. count /\ \A m \in 1 .. count : first[m] = InUse(f)[m] /\ first[m] \in Byte
    BY <2>1, <2>2
  <2>4. first \in [1 .. count -> Byte] /\ count \in Nat
    BY <2>1, <2>3
  <2> QED
    BY <2>3, <2>4
<1>12. PICK s : s = InUse(g)
  OBVIOUS
<1>13. PICK l \in Nat : l = f.length - count
  BY <1>3
<1>14. /\ first \o s \in Seq(Byte) /\ Len(first \o s) = f.length
       /\ \A m \in 1 .. count : (first \o s)[m] = first[m]
       /\ \A n \in 1 .. l : (first \o s)[count + n] = s[n]
  <2>1. s \in Seq(Byte) /\ Len(s) = l /\ count + l = f.length
    BY <1>3, <1>9, <1>12, <1>13
  <2> QED
    <3>1. /\ first \o s \in Seq(Byte) /\ Len(first \o s) = count + l
          /\ \A m \in 1 .. count : (first \o s)[m] = first[m]
          /\ \A n \in 1 .. l : (first \o s)[count + n] = s[n]
      <4>0. first \in Seq(Byte) /\ s \in Seq(Byte)
        BY <1>11, <2>1
      <4>1. /\ first \o s \in Seq(Byte) /\ Len(first \o s) = Len(first) + Len(s)
            /\ \A m \in 1 .. Len(first) : (first \o s)[m] = first[m]
            /\ \A n \in 1 .. Len(s) : (first \o s)[Len(first) + n] = s[n]
        BY <4>0, ConcatPlaces
      <4>2. Len(first) = count /\ Len(s) = l
        BY <1>11, <2>1
      <4> QED
        BY <4>1, <4>2, Zenon
    <3> QED
      BY <2>1, <3>1
<1>15. ASSUME NEW m \in 1 .. f.length PROVE (first \o s)[m] = InUse(f)[m]
  <2>1. CASE m \in 1 .. count
    BY <1>11, <1>14, <2>1
  <2>2. CASE \E n \in 1 .. l : m = count + n
    <3>1. PICK n \in 1 .. l : m = count + n
      BY <2>2
    <3>2. n - 1 \in 0 .. FifoSize - 1 /\ m - 1 \in 0 .. FifoSize - 1 /\ m - 1 = count + (n - 1) /\ count + (n - 1) < FifoSize
      BY <1>3, <1>13, <3>1
    <3>3. SlotAt(r, n - 1) = SlotAt(f.rIndex, m - 1)
      <4>1. SlotAt(r, n - 1) = IF r + (n - 1) < FifoSize THEN r + (n - 1) ELSE r + (n - 1) - FifoSize
        BY <1>4, <3>2, SlotIs
      <4>2. SlotAt(f.rIndex, count + (n - 1))
              = IF f.rIndex + (count + (n - 1)) < FifoSize THEN f.rIndex + (count + (n - 1))
                ELSE f.rIndex + (count + (n - 1)) - FifoSize
        BY <1>3, <3>2, SlotIs
      <4> QED
        BY <1>3, <1>4, <3>2, <4>1, <4>2, SameSlot
    <3> QED
      BY <1>8, <1>9, <1>12, <1>13, <1>14, <3>1, <3>3
  <2>3. m \in 1 .. count + l
    BY <1>3, <1>13
  <2> QED
    BY <2>1, <2>2, <2>3, PlaceInOne
<1>16. first \o s = InUse(f)
  BY <1>8, <1>14, <1>15, SameSeq
<1> QED
  BY <1>1, <1>6, <1>7, <1>10, <1>11, <1>12, <1>16

-----------------------------------------------------------------------------
(***************************************************************************)
(* The serial port.                                                        *)
(***************************************************************************)
HalTypeOK ==
    /\ FifoOK(halTx) /\ FifoOK(halRx)
    /\ halShift \in Seq(Byte) /\ halRbuf \in Seq(Byte)
    /\ halAccepted \in Seq(Byte) /\ halWire \in Seq(Byte)
    /\ halArrived \in Seq(Byte) /\ halTaken \in Seq(Byte)
    /\ halCall = NoCall \/ halCall.op = "sending"
    /\ halRxif => Len(halRbuf) = 1

\* The status tells whether the transmitter is at work: when it is, a byte is on
\* its way out or its interrupt is to come, and never both.
StatusTells ==
    /\ halTx.status = STATUS_CLEAR => halShift = << >> /\ ~halTxif
    /\ halTx.status = STATUS_SENDING => halShift # << >> \/ halTxif
    /\ halTxif => halShift = << >>

\* Between calls, only a transmitter at work has bytes to send.  In a call the
\* bytes it wrote are still there for SendStart, or an interrupt began the next
\* one after they were written, and it is not out yet.
CallKnows ==
    /\ halCall = NoCall /\ halTx.status = STATUS_CLEAR => halTx.length = 0
    /\ halCall.op = "sending" => IF halFresh THEN halShift # << >> ELSE halTx.length > 0
    /\ halRegs = {} => halCall = NoCall /\ halTx.status = STATUS_CLEAR

HalInv == HalTypeOK /\ StatusTells /\ CallKnows /\ HalBytesInOrder /\ ClockedAsSet

LEMMA StatusApart == STATUS_CLEAR # STATUS_SENDING
  BY DEF STATUS_CLEAR, STATUS_SENDING

\* What a FIFO holds does not depend on its status.
LEMMA StatusSet ==
    ASSUME NEW f, FifoOK(f), NEW status \in {STATUS_CLEAR, STATUS_SENDING}
    PROVE  LET g == [f EXCEPT !.status = status]
           IN  FifoOK(g) /\ g.status = status /\ g.length = f.length /\ InUse(g) = InUse(f)
<1>1. PICK g : g = [f EXCEPT !.status = status]
  OBVIOUS
<1>2. /\ g \in Fifo /\ g.status = status /\ g.length = f.length
      /\ g.rIndex = f.rIndex /\ g.wIndex = f.wIndex /\ g.data = f.data
  BY <1>1 DEF FifoOK, Fifo
<1>3. FifoOK(g) /\ InUse(g) = InUse(f)
  BY <1>2 DEF FifoOK, InUse, ReadBytes
<1> QED
  BY <1>1, <1>2, <1>3

LEMMA EmptyInUse ==
    ASSUME NEW f, FifoOK(f), f.length = 0
    PROVE  InUse(f) = << >>
  BY InUseType

LEMMA CellCleared ==
    ASSUME NEW f, FifoOK(f)
    PROVE  FifoOK(fifoClear(f)) /\ InUse(fifoClear(f)) = << >>
<1>1. PICK g : g = fifoClear(f)
  OBVIOUS
<1>2. g \in Fifo /\ g.length = 0 /\ g.rIndex = 0 /\ g.wIndex = 0
  <2>1. 0 \in 0 .. FifoSize /\ 0 \in {STATUS_CLEAR, STATUS_SENDING}
    BY SizeFits DEF STATUS_CLEAR
  <2>2. PICK Z : Z = 0 .. FifoSize
    OBVIOUS
  <2>3. PICK D : D = [0 .. FifoSize - 1 -> Byte]
    OBVIOUS
  <2>4. PICK X : X = {STATUS_CLEAR, STATUS_SENDING}
    OBVIOUS
  <2>5. f \in [length : Z, rIndex : Z, wIndex : Z, status : X, data : D]
    BY <2>2, <2>3, <2>4 DEF FifoOK, Fifo
  <2>6. g \in [length : Z, rIndex : Z, wIndex : Z, status : X, data : D]
    BY <1>1, <2>1, <2>2, <2>4, <2>5 DEF fifoClear
  <2>7. g.length = 0 /\ g.rIndex = 0 /\ g.wIndex = 0
    BY <1>1, <2>5 DEF fifoClear
  <2> QED
    BY <2>2, <2>3, <2>4, <2>6, <2>7 DEF Fifo
<1>3. FifoOK(g)
  BY <1>2, SizeFits DEF FifoOK
<1> QED
  BY <1>1, <1>2, <1>3, EmptyInUse

LEMMA FreshFifo == FifoOK(EmptyFifo) /\ EmptyFifo.length = 0 /\ EmptyFifo.status = STATUS_CLEAR
<1>1. (CHOOSE b \in Byte : TRUE) \in Byte
  BY HalAssumption
<1> QED
  BY <1>1, SizeFits DEF EmptyFifo, FifoOK, Fifo, STATUS_CLEAR

\* Sequences put together
LEMMA Regroup ==
    ASSUME NEW S, NEW a \in Seq(S), NEW b \in Seq(S), NEW c \in Seq(S)
    PROVE  (a \o b) \o c = a \o (b \o c)
  OBVIOUS

LEMMA EmptyConcat ==
    ASSUME NEW S, NEW a \in Seq(S)
    PROVE  a \o << >> = a /\ << >> \o a = a
  OBVIOUS

\* A byte that goes from the FIFO to an empty transmitter stays in its place.
LEMMA ByteStarts ==
    ASSUME NEW f, FifoOK(f), Holds(f, 1), NEW wire \in Seq(Byte)
    PROVE  /\ ReadBytes(f, 1) # << >> /\ ReadBytes(f, 1) \in Seq(Byte)
           /\ (wire \o ReadBytes(f, 1)) \o InUse(ReadFrom(f, 1)) = (wire \o << >>) \o InUse(f)
<1>1. PICK g : g = ReadFrom(f, 1)
  OBVIOUS
<1>2. PICK b : b = ReadBytes(f, 1)
  OBVIOUS
<1>3. FifoOK(g) /\ b \in Seq(Byte) /\ Len(b) = 1 /\ b \o InUse(g) = InUse(f)
  BY <1>1, <1>2, ReadTakes
<1>4. InUse(g) \in Seq(Byte)
  BY <1>3, InUseType
<1>5. b \in Seq(Byte) /\ Len(b) = 1
  BY <1>3
<1>6. (wire \o b) \o InUse(g) = wire \o (b \o InUse(g))
  BY <1>4, <1>5, Regroup
<1>7. wire \o << >> = wire
  BY EmptyConcat
<1>8. b # << >>
  BY <1>5, LenProperties
<1> QED
  BY <1>1, <1>2, <1>3, <1>6, <1>7, <1>8

LEMMA HalInvInit == HalInit => HalInv
<1> SUFFICES ASSUME HalInit PROVE HalInv
  OBVIOUS
<1>1. FifoOK(halTx) /\ halTx.length = 0 /\ halTx.status = STATUS_CLEAR /\ FifoOK(halRx) /\ halRx.length = 0
  BY FreshFifo DEF HalInit
<1>2. InUse(halTx) = << >> /\ InUse(halRx) = << >>
  BY <1>1, EmptyInUse
<1>3. HalTypeOK
  BY <1>1 DEF HalInit, HalTypeOK
<1>4. StatusTells /\ CallKnows
  BY <1>1, StatusApart DEF HalInit, StatusTells, CallKnows, NoCall
<1>5. HalBytesInOrder
  BY <1>2 DEF HalInit, HalBytesInOrder
<1>6. ClockedAsSet
  BY DEF HalInit, ClockedAsSet, ClockedByOwnTimer
<1> QED
  BY <1>3, <1>4, <1>5, <1>6 DEF HalInv

\* What the port is clocked by, once and for all
LEMMA ClockSet ==
    ASSUME HalInv, Initialise
    PROVE  ClockedAsSet' /\ halRegs' # {}
<1>1. PICK uart \in 1 .. 4, mode \in {"8N1", "8E1", "MULTI"}, baud \in 0 .. 3, own \in BOOLEAN, timerOk \in BOOLEAN :
         /\ halRegs' = Initialised(halRegs, uart, mode, baud, own)
         /\ halClock' = [uart |-> uart, timer |-> IF UsesTimer(uart, mode) THEN TimerOf(uart, own) ELSE 0]
  BY DEF Initialise
<1>2. halRegs = {}
  BY DEF Initialise
<1>3. halClock'.uart = uart /\ halClock'.timer = IF UsesTimer(uart, mode) THEN TimerOf(uart, own) ELSE 0
  BY <1>1
<1>4. "ES" \in halRegs'
  BY <1>1 DEF Initialised
<1>5. ASSUME uart = 2 PROVE ClockedAsSet'
  BY <1>3, <1>5 DEF ClockedAsSet, ClockedByOwnTimer, ClockOf, TimerOf
<1>6. ASSUME uart = 1, mode # "8N1" PROVE ClockedAsSet'
  BY <1>3, <1>6 DEF ClockedAsSet, ClockedByOwnTimer, UsesTimer
<1>7. ASSUME uart = 1, mode = "8N1" PROVE ClockedAsSet'
  <2>1. OperationMode(uart, mode, baud) = 1
    BY <1>7 DEF OperationMode
  <2>2. "S1ST2" \in halRegs' <=> TimerOf(1, own) = 2
    BY <1>1, <1>2, <1>7, <2>1 DEF Initialised, ClockUart1, Put, SconFlags, Scon
  <2>3. TimerOf(1, own) \in {1, 2} /\ halClock'.timer = TimerOf(1, own)
    BY <1>3, <1>7 DEF TimerOf, UsesTimer
  <2> QED
    BY <1>3, <1>7, <2>2, <2>3 DEF ClockedAsSet, ClockedByOwnTimer, ClockOf
<1>8. ASSUME uart \notin {1, 2} PROVE ClockedAsSet'
  BY <1>3, <1>8 DEF ClockedAsSet
<1> QED
  BY <1>4, <1>5, <1>6, <1>7, <1>8

\* A block goes behind what waits ...
LEMMA SendBlockKeeps == ASSUME HalInv, SendBlock PROVE HalInv'
<1>1. PICK block \in HalBlocks :
         /\ Accepts(halTx, Len(block)) /\ halTx' = WrittenTo(halTx, block)
         /\ halAccepted' = halAccepted \o block
         /\ halCall' = [op |-> "sending", block |-> block]
  BY DEF SendBlock
<1>2. block \in Seq(Byte) /\ Len(block) \in Nat /\ Len(block) > 0
  <2>1. block \in Seq(Byte) /\ block # << >>
    BY HalAssumption
  <2> QED
    BY <2>1, EmptySeq
<1>3. /\ FifoOK(halTx) /\ halTx.length \in Nat /\ halShift \in Seq(Byte) /\ halWire \in Seq(Byte) /\ halAccepted \in Seq(Byte)
      /\ InUse(halTx) \in Seq(Byte)
  <2>1. FifoOK(halTx) /\ halShift \in Seq(Byte) /\ halWire \in Seq(Byte) /\ halAccepted \in Seq(Byte)
    BY DEF HalInv, HalTypeOK
  <2>2. InUse(halTx) \in Seq(Byte)
    BY <2>1, InUseType
  <2>3. halTx.length \in Nat
    BY <2>1, SizeFits DEF FifoOK, Fifo
  <2> QED
    BY <2>1, <2>2, <2>3
<1>4. /\ FifoOK(halTx') /\ halTx'.length = halTx.length + Len(block) /\ halTx'.status = halTx.status
      /\ InUse(halTx') = InUse(halTx) \o block
  BY <1>1, <1>2, <1>3, WriteAppends
<1>5. UNCHANGED <<halRx, halRegs, halClock, halTxif, halRxif, halShift, halRbuf, halWire, halArrived, halTaken>> /\ ~halFresh'
  BY DEF SendBlock
<1>6. HalTypeOK'
  BY <1>1, <1>2, <1>3, <1>4, <1>5 DEF HalInv, HalTypeOK
<1>7. StatusTells'
  BY <1>4, <1>5 DEF HalInv, StatusTells
<1>8. CallKnows'
  <2>1. halCall' # NoCall /\ halCall'.op = "sending" /\ halRegs # {}
    BY <1>1 DEF NoCall, SendBlock
  <2>2. halTx'.length > 0
    BY <1>2, <1>3, <1>4
  <2> QED
    BY <1>5, <2>1, <2>2 DEF CallKnows
<1>9. HalBytesInOrder'
  <2>1. PICK sent : sent = halWire \o halShift
    OBVIOUS
  <2>2. sent \in Seq(Byte) /\ sent \o InUse(halTx) = halAccepted
    BY <1>3, <2>1 DEF HalInv, HalBytesInOrder
  <2>3. (sent \o InUse(halTx)) \o block = sent \o (InUse(halTx) \o block)
    <3>1. sent \in Seq(Byte) /\ InUse(halTx) \in Seq(Byte) /\ block \in Seq(Byte)
      BY <1>2, <1>3, <2>2
    <3> QED
      BY <3>1, Regroup
  <2>4. halWire' \o halShift' \o InUse(halTx') = halAccepted'
    BY <1>1, <1>4, <1>5, <2>1, <2>2, <2>3
  <2> QED
    BY <1>5, <2>4 DEF HalInv, HalBytesInOrder
<1>10. ClockedAsSet'
  BY <1>5 DEF HalInv, ClockedAsSet, ClockedByOwnTimer, ClockOf
<1> QED
  BY <1>6, <1>7, <1>8, <1>9, <1>10 DEF HalInv

\* ... and the transmitter is put to work when it is not.
LEMMA SendStartKeeps == ASSUME HalInv, SendStart PROVE HalInv'
<1>1. /\ halCall.op = "sending" /\ halCall' = NoCall
      /\ UNCHANGED <<halRx, halRegs, halClock, halTxif, halRxif, halRbuf, halFresh, halAccepted, halWire, halArrived, halTaken>>
  BY DEF SendStart
<1>2. /\ FifoOK(halTx) /\ halTx.length \in Nat /\ halShift \in Seq(Byte) /\ halWire \in Seq(Byte) /\ halRegs # {}
      /\ halTx.status \in {STATUS_CLEAR, STATUS_SENDING}
  <2>1. halCall # NoCall
    BY <1>1 DEF NoCall
  <2> QED
    <3>1. FifoOK(halTx) /\ halShift \in Seq(Byte) /\ halWire \in Seq(Byte)
      BY DEF HalInv, HalTypeOK
    <3>2. halTx.length \in Nat /\ halTx.status \in {STATUS_CLEAR, STATUS_SENDING}
      BY <3>1, SizeFits DEF FifoOK, Fifo
    <3> QED
      BY <2>1, <3>1, <3>2 DEF HalInv, CallKnows
<1>3. ClockedAsSet'
  BY <1>1 DEF HalInv, ClockedAsSet, ClockedByOwnTimer, ClockOf
<1>4. CASE ~Starts
  <2>1. UNCHANGED <<halTx, halShift>> /\ halTx.status = STATUS_SENDING
    BY <1>2, <1>4 DEF SendStart, Starts
  <2>2. HalTypeOK' /\ StatusTells' /\ HalBytesInOrder'
    BY <1>1, <2>1 DEF HalInv, HalTypeOK, StatusTells, HalBytesInOrder
  <2>3. CallKnows'
    BY <1>1, <1>2, <2>1, StatusApart DEF CallKnows, NoCall
  <2> QED
    BY <1>3, <2>2, <2>3 DEF HalInv
<1>5. CASE Starts
  <2>1. halTx.status = STATUS_CLEAR /\ halShift = << >> /\ ~halTxif /\ halTx.length > 0
    BY <1>1, <1>5 DEF Starts, HalInv, StatusTells, CallKnows
  <2>2. Holds(halTx, 1)
    BY <1>2, <2>1 DEF Holds
  <2>3. PICK f : f = ReadFrom(halTx, 1)
    OBVIOUS
  <2>4. halTx' = [f EXCEPT !.status = STATUS_SENDING] /\ halShift' = ReadBytes(halTx, 1)
    BY <1>5, <2>2, <2>3 DEF SendStart
  <2>5. FifoOK(f)
    BY <1>2, <2>2, <2>3, ReadTakes
  <2>6. FifoOK(halTx') /\ halTx'.status = STATUS_SENDING /\ InUse(halTx') = InUse(f)
    BY <2>4, <2>5, StatusSet
  <2>7. /\ halShift' # << >> /\ halShift' \in Seq(Byte)
        /\ (halWire \o halShift') \o InUse(f) = (halWire \o << >>) \o InUse(halTx)
    BY <1>2, <2>2, <2>3, <2>4, ByteStarts
  <2>8. HalTypeOK'
    BY <1>1, <2>6, <2>7 DEF HalInv, HalTypeOK
  <2>9. StatusTells' /\ CallKnows'
    BY <1>1, <1>2, <2>1, <2>6, <2>7, StatusApart DEF StatusTells, CallKnows, NoCall
  <2>10. HalBytesInOrder'
    BY <1>1, <2>1, <2>6, <2>7 DEF HalInv, HalBytesInOrder
  <2> QED
    BY <1>3, <2>8, <2>9, <2>10 DEF HalInv
<1> QED
  BY <1>4, <1>5

\* Bytes that are taken come off the front of the receive FIFO ...
LEMMA GetBlockKeeps == ASSUME HalInv, GetBlock PROVE HalInv'
<1>1. PICK size \in HalGets :
         Holds(halRx, size) /\ halTaken' = halTaken \o ReadBytes(halRx, size) /\ halRx' = ReadFrom(halRx, size)
  BY DEF GetBlock
<1>2. PICK bytes : bytes = ReadBytes(halRx, size)
  OBVIOUS
<1>3. size \in Nat /\ FifoOK(halRx) /\ halTaken \in Seq(Byte)
  BY HalAssumption DEF HalInv, HalTypeOK
<1>4. FifoOK(halRx') /\ bytes \in Seq(Byte) /\ bytes \o InUse(halRx') = InUse(halRx)
  BY <1>1, <1>2, <1>3, ReadTakes
<1>5. UNCHANGED <<halTx, halRegs, halClock, halTxif, halRxif, halShift, halRbuf, halCall, halFresh, halAccepted, halWire,
                  halArrived>>
  BY DEF GetBlock
<1>6. halTaken' \in Seq(Byte)
  BY <1>1, <1>2, <1>3, <1>4
<1>7. (halTaken \o bytes) \o InUse(halRx') = halTaken \o (bytes \o InUse(halRx'))
  <2>1. halTaken \in Seq(Byte) /\ bytes \in Seq(Byte) /\ InUse(halRx') \in Seq(Byte)
    BY <1>3, <1>4, InUseType
  <2> QED
    BY <2>1, Regroup
<1>8. HalTypeOK' /\ StatusTells' /\ CallKnows'
  BY <1>4, <1>5, <1>6 DEF HalInv, HalTypeOK, StatusTells, CallKnows
<1>9. HalBytesInOrder'
  BY <1>1, <1>2, <1>4, <1>5, <1>7 DEF HalInv, HalBytesInOrder
<1>10. ClockedAsSet'
  BY <1>5 DEF HalInv, ClockedAsSet, ClockedByOwnTimer, ClockOf
<1> QED
  BY <1>8, <1>9, <1>10 DEF HalInv

\* ... all of them, when it is flushed.
LEMMA FlushKeeps == ASSUME HalInv, FlushReceive PROVE HalInv'
<1>1. /\ halTaken' = halTaken \o InUse(halRx) /\ halRx' = fifoClear(halRx)
      /\ UNCHANGED <<halTx, halRegs, halClock, halTxif, halRxif, halShift, halRbuf, halCall, halFresh, halAccepted, halWire,
                     halArrived>>
  BY DEF FlushReceive
<1>2. FifoOK(halRx) /\ halTaken \in Seq(Byte)
  BY DEF HalInv, HalTypeOK
<1>3. InUse(halRx) \in Seq(Byte)
  BY <1>2, InUseType
<1>4. FifoOK(halRx') /\ InUse(halRx') = << >>
  BY <1>1, <1>2, CellCleared
<1>5. halTaken' \in Seq(Byte)
  BY <1>1, <1>2, <1>3
<1>6. halTaken' \o << >> = halTaken'
  BY <1>5, EmptyConcat
<1>7. HalTypeOK' /\ StatusTells' /\ CallKnows'
  BY <1>1, <1>4, <1>5 DEF HalInv, HalTypeOK, StatusTells, CallKnows
<1>8. HalBytesInOrder'
  BY <1>1, <1>4, <1>6 DEF HalInv, HalBytesInOrder
<1>9. ClockedAsSet'
  BY <1>1 DEF HalInv, ClockedAsSet, ClockedByOwnTimer, ClockOf
<1> QED
  BY <1>7, <1>8, <1>9 DEF HalInv

LEMMA TransmitDoneKeeps == ASSUME HalInv, TransmitDone PROVE HalInv'
<1>1. /\ halShift # << >> /\ (halCall.op = "sending" => ~halFresh)
      /\ halWire' = halWire \o halShift /\ halShift' = << >> /\ halTxif' = TRUE
      /\ UNCHANGED <<halTx, halRx, halRegs, halClock, halRxif, halRbuf, halCall, halFresh, halAccepted, halArrived, halTaken>>
  BY DEF TransmitDone
<1>2. halWire \in Seq(Byte) /\ halShift \in Seq(Byte)
  BY DEF HalInv, HalTypeOK
<1>3. halWire' \in Seq(Byte)
  BY <1>1, <1>2
<1>4. halWire' \o << >> = halWire'
  BY <1>3, EmptyConcat
<1>5. << >> \in Seq(Byte)
  OBVIOUS
<1>6. HalTypeOK'
  BY <1>1, <1>3, <1>5 DEF HalInv, HalTypeOK
<1>7. StatusTells' /\ CallKnows'
  BY <1>1 DEF HalInv, StatusTells, CallKnows
<1>8. HalBytesInOrder'
  BY <1>1, <1>4 DEF HalInv, HalBytesInOrder
<1>9. ClockedAsSet'
  BY <1>1 DEF HalInv, ClockedAsSet, ClockedByOwnTimer, ClockOf
<1> QED
  BY <1>6, <1>7, <1>8, <1>9 DEF HalInv

LEMMA ReceiveDoneKeeps == ASSUME HalInv, ReceiveDone PROVE HalInv'
<1>1. PICK b \in Byte : halRbuf' = <<b>>
  BY DEF ReceiveDone
<1>2. halRbuf' \in Seq(Byte) /\ Len(halRbuf') = 1
  BY <1>1
<1>3. UNCHANGED <<halTx, halRx, halRegs, halClock, halTxif, halShift, halCall, halFresh, halAccepted, halWire, halArrived, halTaken>>
  BY DEF ReceiveDone
<1> QED
  BY <1>2, <1>3 DEF HalInv, HalTypeOK, StatusTells, CallKnows, HalBytesInOrder, ClockedAsSet, ClockedByOwnTimer, ClockOf

\* The interrupt, on the side of the transmitter: the next byte that waits is
\* begun, or the status says that none was left.
LEMMA IsrTransmits ==
    ASSUME HalInv, HalIsr
    PROVE  /\ FifoOK(halTx') /\ halShift' \in Seq(Byte) /\ StatusTells' /\ CallKnows'
           /\ halWire' \o halShift' \o InUse(halTx') = halAccepted'
<1>1. /\ ~halTxif' /\ halFresh' = (halFresh \/ (halTxif /\ Holds(halTx, 1))) /\ "ES" \in halRegs
      /\ UNCHANGED <<halRegs, halClock, halRbuf, halCall, halAccepted, halWire, halTaken>>
  BY DEF HalIsr
<1>2. /\ FifoOK(halTx) /\ halTx.length \in Nat /\ halShift \in Seq(Byte) /\ halWire \in Seq(Byte) /\ halRegs # {}
      /\ halTx.status \in {STATUS_CLEAR, STATUS_SENDING}
      /\ halWire \o halShift \o InUse(halTx) = halAccepted
  <2>1. FifoOK(halTx) /\ halShift \in Seq(Byte) /\ halWire \in Seq(Byte)
    BY DEF HalInv, HalTypeOK
  <2>2. halTx.length \in Nat /\ halTx.status \in {STATUS_CLEAR, STATUS_SENDING}
    BY <2>1, SizeFits DEF FifoOK, Fifo
  <2>3. halRegs # {} /\ halWire \o halShift \o InUse(halTx) = halAccepted
    BY <1>1 DEF HalInv, HalBytesInOrder
  <2> QED
    BY <2>1, <2>2, <2>3
<1>3. CASE ~halTxif
  <2>1. UNCHANGED <<halTx, halShift>>
    BY <1>3 DEF HalIsr
  <2>2. halFresh' <=> halFresh
    BY <1>1, <1>3
  <2> QED
    BY <1>1, <1>2, <1>3, <2>1, <2>2 DEF HalInv, StatusTells, CallKnows
<1>4. CASE halTxif /\ Holds(halTx, 1)
  <2>1. halShift' = ReadBytes(halTx, 1) /\ halTx' = ReadFrom(halTx, 1) /\ halFresh'
    BY <1>1, <1>4 DEF HalIsr
  <2>2. halShift = << >> /\ halTx.status = STATUS_SENDING
    BY <1>2, <1>4 DEF HalInv, StatusTells
  <2>3. FifoOK(halTx') /\ halTx'.status = STATUS_SENDING
    BY <1>2, <1>4, <2>1, <2>2, ReadTakes
  <2>4. /\ halShift' # << >> /\ halShift' \in Seq(Byte)
        /\ (halWire \o halShift') \o InUse(halTx') = (halWire \o << >>) \o InUse(halTx)
    BY <1>2, <1>4, <2>1, ByteStarts
  <2>5. StatusTells' /\ CallKnows'
    BY <1>1, <1>2, <2>1, <2>3, <2>4, StatusApart DEF StatusTells, CallKnows
  <2> QED
    BY <1>1, <1>2, <2>2, <2>3, <2>4, <2>5
<1>5. CASE halTxif /\ ~Holds(halTx, 1)
  <2>1. halTx' = [halTx EXCEPT !.status = STATUS_CLEAR] /\ halShift' = halShift
    BY <1>5 DEF HalIsr
  <2>2. halTx.length = 0 /\ halShift = << >>
    BY <1>2, <1>5 DEF Holds, HalInv, StatusTells
  <2>3. halCall.op # "sending"
    BY <2>2 DEF HalInv, CallKnows
  <2>4. FifoOK(halTx') /\ halTx'.status = STATUS_CLEAR /\ halTx'.length = 0 /\ InUse(halTx') = InUse(halTx)
    BY <1>2, <2>1, <2>2, StatusSet
  <2>5. StatusTells'
    BY <1>1, <2>1, <2>2, <2>4, StatusApart DEF StatusTells
  <2>6. CallKnows'
    BY <1>1, <1>2, <2>3, <2>4 DEF CallKnows
  <2> QED
    BY <1>1, <1>2, <2>1, <2>4, <2>5, <2>6
<1> QED
  BY <1>3, <1>4, <1>5

\* ... and of the receiver: a byte there is room for goes behind the others.
LEMMA IsrReceives ==
    ASSUME HalInv, HalIsr
    PROVE  FifoOK(halRx') /\ halArrived' \in Seq(Byte) /\ halTaken' \o InUse(halRx') = halArrived'
<1>1. /\ FifoOK(halRx) /\ halTaken \in Seq(Byte) /\ halArrived \in Seq(Byte)
      /\ halTaken \o InUse(halRx) = halArrived /\ halTaken' = halTaken
  BY DEF HalInv, HalTypeOK, HalBytesInOrder, HalIsr
<1>2. CASE ~(halRxif /\ Accepts(halRx, 1))
  <2>1. UNCHANGED <<halRx, halArrived>>
    BY <1>2 DEF HalIsr
  <2> QED
    BY <1>1, <2>1
<1>3. CASE halRxif /\ Accepts(halRx, 1)
  <2>1. halRx' = WrittenTo(halRx, halRbuf) /\ halArrived' = halArrived \o halRbuf
    BY <1>3 DEF HalIsr
  <2>2. halRbuf \in Seq(Byte) /\ Len(halRbuf) = 1
    BY <1>3 DEF HalInv, HalTypeOK
  <2>3. FifoOK(halRx') /\ InUse(halRx') = InUse(halRx) \o halRbuf
    BY <1>1, <1>3, <2>1, <2>2, WriteAppends
  <2>4. InUse(halRx) \in Seq(Byte)
    BY <1>1, InUseType
  <2>5. (halTaken \o InUse(halRx)) \o halRbuf = halTaken \o (InUse(halRx) \o halRbuf)
    <3>1. halTaken \in Seq(Byte) /\ halRbuf \in Seq(Byte)
      BY <1>1, <2>2
    <3> QED
      BY <2>4, <3>1, Regroup
  <2>6. halArrived' \in Seq(Byte)
    BY <1>1, <2>1, <2>2
  <2> QED
    BY <1>1, <2>1, <2>3, <2>5, <2>6
<1> QED
  BY <1>2, <1>3

LEMMA IsrKeeps == ASSUME HalInv, HalIsr PROVE HalInv'
<1>1. /\ ~halRxif' /\ UNCHANGED <<halRegs, halClock, halRbuf, halCall, halAccepted, halWire, halTaken>>
  BY DEF HalIsr
<1>2. HalTypeOK'
  BY <1>1, IsrTransmits, IsrReceives DEF HalInv, HalTypeOK
<1>3. HalBytesInOrder'
  BY IsrTransmits, IsrReceives DEF HalBytesInOrder
<1>4. ClockedAsSet'
  BY <1>1 DEF HalInv, ClockedAsSet, ClockedByOwnTimer, ClockOf
<1> QED
  BY <1>2, <1>3, <1>4, IsrTransmits DEF HalInv

LEMMA InitialiseKeeps == ASSUME HalInv, Initialise PROVE HalInv'
<1>1. /\ halRegs = {} /\ halTx' = [halTx EXCEPT !.status = STATUS_CLEAR]
      /\ UNCHANGED <<halRx, halTxif, halRxif, halShift, halRbuf, halCall, halFresh, halAccepted, halWire, halArrived, halTaken>>
  BY DEF Initialise
<1>2. FifoOK(halTx) /\ halTx.status = STATUS_CLEAR /\ halCall = NoCall
  BY <1>1 DEF HalInv, HalTypeOK, CallKnows
<1>3. FifoOK(halTx') /\ halTx'.status = STATUS_CLEAR /\ halTx'.length = halTx.length /\ InUse(halTx') = InUse(halTx)
  BY <1>1, <1>2, StatusSet
<1>4. HalTypeOK' /\ HalBytesInOrder'
  BY <1>1, <1>3 DEF HalInv, HalTypeOK, HalBytesInOrder
<1>5. StatusTells' /\ CallKnows'
  BY <1>1, <1>2, <1>3, ClockSet, StatusApart DEF HalInv, StatusTells, CallKnows, NoCall
<1> QED
  BY <1>4, <1>5, ClockSet DEF HalInv

LEMMA HalInvNext == ASSUME HalInv, [HalNext]_halVars PROVE HalInv'
<1>1. CASE UNCHANGED halVars
  BY <1>1 DEF halVars, HalInv, HalTypeOK, StatusTells, CallKnows, HalBytesInOrder, ClockedAsSet, ClockedByOwnTimer, ClockOf
<1> QED
  BY <1>1, SendBlockKeeps, SendStartKeeps, GetBlockKeeps, FlushKeeps, TransmitDoneKeeps, ReceiveDoneKeeps, IsrKeeps,
     InitialiseKeeps DEF HalNext

\* The invariant is strong enough for all that the port promises: what it says
\* of itself follows from how the bytes are spread over its parts.
LEMMA HalPromises == HalInv => SerialKept
<1> SUFFICES ASSUME HalInv PROVE SerialKept
  OBVIOUS
<1>1. /\ FifoOK(halTx) /\ halTx.length \in Nat /\ halTx.status \in {STATUS_CLEAR, STATUS_SENDING}
      /\ FifoOK(halRx) /\ halRx.length \in Nat
  <2>1. FifoOK(halTx) /\ FifoOK(halRx)
    BY DEF HalInv, HalTypeOK
  <2>2. \A f : FifoOK(f) => f.length \in Nat /\ f.status \in {STATUS_CLEAR, STATUS_SENDING}
    BY SizeFits DEF FifoOK, Fifo
  <2> QED
    BY <2>1, <2>2
<1>2. HalNeverStranded
  BY <1>1 DEF HalInv, StatusTells, CallKnows, HalNeverStranded
<1>3. TellsTheTruth
  <2> SUFFICES ASSUME halCall = NoCall, halRegs # {}
               PROVE  /\ IF uartIsTransmissionComplete THEN halWire = halAccepted ELSE halShift # << >> \/ halTxif
                      /\ \A n \in 0 .. FifoSize :
                            uartTransmitBufferHasBytesFree(n) <=> n + Len(halAccepted) - Len(halWire \o halShift) <= FifoSize
                      /\ uartReceiveBufferBytes = Len(halArrived) - Len(halTaken)
    BY DEF TellsTheTruth
  <2>1. PICK sent : sent = halWire \o halShift
    OBVIOUS
  <2>2. /\ halWire \in Seq(Byte) /\ halShift \in Seq(Byte) /\ halTaken \in Seq(Byte)
        /\ InUse(halTx) \in Seq(Byte) /\ Len(InUse(halTx)) = halTx.length
        /\ InUse(halRx) \in Seq(Byte) /\ Len(InUse(halRx)) = halRx.length
    BY <1>1, InUseType DEF HalInv, HalTypeOK
  <2>3. sent \in Seq(Byte) /\ sent \o InUse(halTx) = halAccepted /\ halTaken \o InUse(halRx) = halArrived
    BY <2>1, <2>2 DEF HalInv, HalBytesInOrder
  <2>4. Len(halAccepted) = Len(sent) + halTx.length /\ Len(sent) \in Nat
    <3>1. sent \in Seq(Byte) /\ InUse(halTx) \in Seq(Byte)
      BY <2>2, <2>3
    <3>2. Len(sent \o InUse(halTx)) = Len(sent) + Len(InUse(halTx)) /\ Len(sent) \in Nat
      BY <3>1, ConcatPlaces
    <3> QED
      BY <2>2, <2>3, <3>2
  <2>5. Len(halArrived) = Len(halTaken) + halRx.length /\ Len(halTaken) \in Nat
    <3>1. halTaken \in Seq(Byte) /\ InUse(halRx) \in Seq(Byte)
      BY <2>2
    <3>2. Len(halTaken \o InUse(halRx)) = Len(halTaken) + Len(InUse(halRx)) /\ Len(halTaken) \in Nat
      BY <3>1, ConcatPlaces
    <3> QED
      BY <2>2, <2>3, <3>2
  <2>6. uartIsTransmissionComplete => halWire = halAccepted
    <3>1. SUFFICES ASSUME halTx.status = STATUS_CLEAR PROVE halWire = halAccepted
      BY DEF uartIsTransmissionComplete
    <3>2. halShift = << >> /\ halTx.length = 0
      BY <3>1 DEF HalInv, StatusTells, CallKnows
    <3>3. InUse(halTx) = << >>
      BY <1>1, <3>2, EmptyInUse
    <3>4. halWire \o << >> = halWire
      BY <2>2, EmptyConcat
    <3> QED
      BY <2>1, <2>3, <3>2, <3>3, <3>4
  <2>7. ~uartIsTransmissionComplete => halShift # << >> \/ halTxif
    BY <1>1 DEF uartIsTransmissionComplete, HalInv, StatusTells
  <2>8. ASSUME NEW n \in 0 .. FifoSize
        PROVE  uartTransmitBufferHasBytesFree(n) <=> n + Len(halAccepted) - Len(sent) <= FifoSize
    <3>1. PICK l \in Nat : l = halTx.length
      BY <1>1
    <3>2. PICK k \in Nat : k = Len(sent)
      BY <2>4
    <3>3. n + (k + l) - k <= FifoSize <=> FifoSize - l >= n
      BY SizeFits
    <3> QED
      BY <2>4, <3>1, <3>2, <3>3 DEF uartTransmitBufferHasBytesFree, fifoBytesFree
  <2>9. uartReceiveBufferBytes = Len(halArrived) - Len(halTaken)
    BY <1>1, <2>5 DEF uartReceiveBufferBytes
  <2> QED
    BY <2>1, <2>6, <2>7, <2>8, <2>9
<1> QED
  BY <1>2, <1>3 DEF HalInv, SerialKept

\* Whatever the interrupt interrupts, bytes leave and arrive in order, none waits
\* for an interrupt that will not come, and what the port says of itself between
\* two calls is so, for FIFOs of every size (uart-hal.c 257-470, fifo-buffer.c).
THEOREM SerialPortKept == HalSpec => []SerialKept
<1>1. HalSpec => []HalInv
  BY HalInvInit, HalInvNext, PTL DEF HalSpec
<1> QED
  BY <1>1, HalPromises, PTL

-----------------------------------------------------------------------------
(***************************************************************************)
(* The flash memory.                                                       *)
(***************************************************************************)

\* Where a page begins
PageStart(p) == \E k \in Nat : p = EePage * k

LEMMA NextMultiple ==
    ASSUME NEW p \in Nat, NEW j \in Nat, NEW k \in Nat, j < k
    PROVE  p * j + p <= p * k
<1>1. PICK d \in Nat : k = j + 1 + d
  <2>1. k - j - 1 \in Nat /\ k = j + 1 + (k - j - 1)
    OBVIOUS
  <2> QED
    BY <2>1
<1>2. p * k = p * j + p + p * d
  BY <1>1
<1>3. p * d >= 0 /\ p * d \in Int /\ p * j \in Int
  OBVIOUS
<1> QED
  BY <1>2, <1>3

\* A byte is in the page that its address is rounded down to ...
LEMMA PageHolds ==
    ASSUME NEW a \in Nat
    PROVE  PageStart(EePageOf(a)) /\ EePageOf(a) \in Nat /\ EePageOf(a) <= a /\ a < EePageOf(a) + EePage
<1>1. EePage \in Nat /\ EePage > 0
  BY EeAssumption
<1>2. a \div EePage \in Nat /\ a % EePage \in Nat /\ a % EePage < EePage /\ a = EePage * (a \div EePage) + (a % EePage)
  BY <1>1
<1>3. EePageOf(a) = EePage * (a \div EePage) /\ EePageOf(a) \in Nat
  BY <1>1, <1>2 DEF EePageOf
<1> QED
  BY <1>1, <1>2, <1>3 DEF PageStart, EePageOf

\* ... pages do not overlap ...
LEMMA PagesApart ==
    ASSUME NEW p, NEW q, PageStart(p), PageStart(q), p < q
    PROVE  p \in Nat /\ q \in Nat /\ p + EePage <= q
<1>1. EePage \in Nat /\ EePage > 0
  BY EeAssumption
<1>2. PICK j \in Nat, k \in Nat : p = EePage * j /\ q = EePage * k
  BY DEF PageStart
<1>3. p \in Nat /\ q \in Nat
  BY <1>1, <1>2
<1>4. j < k
  <2> SUFFICES ASSUME ~(j < k) PROVE FALSE
    OBVIOUS
  <2>1. CASE j = k
    BY <1>2, <1>3, <2>1
  <2>2. CASE k < j
    <3>1. EePage * k + EePage <= EePage * j
      BY <1>1, <2>2, NextMultiple
    <3> QED
      BY <1>1, <1>2, <1>3, <3>1
  <2> QED
    BY <2>1, <2>2
<1>5. EePage * j + EePage <= EePage * k
  BY <1>1, <1>4, NextMultiple
<1> QED
  BY <1>2, <1>3, <1>5

\* ... so a page has the bytes that come before the next one, and no others.
LEMMA PageIs ==
    ASSUME NEW p, PageStart(p), NEW a \in Nat, p <= a, a < p + EePage
    PROVE  EePageOf(a) = p
<1>1. PICK q : q = EePageOf(a)
  OBVIOUS
<1>2. PageStart(q) /\ q \in Nat /\ q <= a /\ a < q + EePage
  BY <1>1, PageHolds
<1>3. EePage \in Nat /\ p \in Nat
  BY EeAssumption DEF PageStart
<1>4. ~(p < q)
  BY <1>2, <1>3, PagesApart
<1>5. ASSUME q < p PROVE FALSE
  <2>1. q + EePage <= p
    BY <1>2, <1>5, PagesApart
  <2> QED
    BY <1>2, <1>3, <2>1
<1> QED
  BY <1>1, <1>2, <1>3, <1>4, <1>5

LEMMA PageAfter == ASSUME NEW p, PageStart(p) PROVE PageStart(p + EePage) /\ p \in Nat /\ p + EePage \in Nat
<1>1. EePage \in Nat
  BY EeAssumption
<1>2. PICK k \in Nat : p = EePage * k
  BY DEF PageStart
<1>3. k + 1 \in Nat /\ p + EePage = EePage * (k + 1) /\ p \in Nat
  BY <1>1, <1>2
<1> QED
  BY <1>1, <1>3 DEF PageStart

\* The bytes of a block; one that fits in the memory
Places(b) == 1 .. Len(b.data)

Place(b, i) == b.at + i - 1

InMemory(b) ==
    b \in [at : Nat, data : Seq(EeByte)] /\ Len(b.data) > 0 /\ b.at + Len(b.data) <= EeSize

ReadsBack(b, i) == eeMemory[Place(b, i)] = b.data[i]

Blank(b, i) == eeMemory[Place(b, i)] = EeErased

\* The blocks that are kept read back, and none of them has a page of the block
\* that is being written.
EeKeptReads ==
    \A b \in eeKept :
        /\ InMemory(b) /\ \A i \in Places(b) : ReadsBack(b, i)
        /\ eeTask # EeIdle => \A i \in Places(b) : EePageOf(Place(b, i)) \notin EePagesOf(eeTask.block)

\* The bytes of the block being written are blank as far as its pages have been
\* erased, all of them by the time the first is written, and a byte that has been
\* written reads back.
EeTaskOK ==
    eeTask # EeIdle =>
        /\ iap /\ InMemory(eeTask.block)
        /\ eeTask \in [step : {"erase", "write"}, block : EeBlocks, page : Nat, index : Nat \ {0}]
        /\ eeTask.step = "erase" =>
              /\ eeTask.index = 1
              /\ PageStart(eeTask.page) /\ FirstPage(eeTask.block) <= eeTask.page
              /\ \A i \in Places(eeTask.block) : Place(eeTask.block, i) < eeTask.page => Blank(eeTask.block, i)
        /\ eeTask.step = "write" =>
              \A i \in Places(eeTask.block) :
                 IF i < eeTask.index THEN ReadsBack(eeTask.block, i) ELSE Blank(eeTask.block, i)

EeInv == eeMemory \in [0 .. EeSize - 1 -> EeByte] /\ EeKeptReads /\ EeTaskOK

LEMMA PlaceType ==
    ASSUME NEW b, InMemory(b), NEW i \in Places(b)
    PROVE  /\ b.at \in Nat /\ i \in Nat /\ i >= 1 /\ i <= Len(b.data) /\ Len(b.data) \in Nat
           /\ Place(b, i) \in Nat /\ Place(b, i) \in 0 .. EeSize - 1
           /\ b.data[i] \in EeByte /\ EePageOf(Place(b, i)) \in EePagesOf(b)
<1>1. b.at \in Nat /\ b.data \in Seq(EeByte) /\ Len(b.data) \in Nat /\ b.at + Len(b.data) <= EeSize /\ EeSize \in Nat
  BY EeAssumption DEF InMemory
<1>2. i \in Nat /\ i >= 1 /\ i <= Len(b.data)
  BY <1>1 DEF Places
<1>3. b.data[i] \in EeByte
  BY <1>1, <1>2
<1>4. EePageOf(Place(b, i)) \in EePagesOf(b)
  BY <1>1, <1>2 DEF EePagesOf, Place
<1> QED
  BY <1>1, <1>2, <1>3, <1>4 DEF Place

\* Erasing changes the bytes of one page ...
LEMMA Erases ==
    ASSUME NEW page, eeMemory \in [0 .. EeSize - 1 -> EeByte],
           NEW new, new = [a \in DOMAIN eeMemory |-> IF EePageOf(a) = page THEN EeErased ELSE eeMemory[a]]
    PROVE  /\ new \in [0 .. EeSize - 1 -> EeByte]
           /\ \A a \in 0 .. EeSize - 1 :
                 new[a] = IF EePageOf(a) = page THEN EeErased ELSE eeMemory[a]
<1>1. EeErased \in EeByte
  BY DEF EeErased, EeByte
<1> QED
  BY <1>1

\* ... and writing those bits of one byte that are not in both.
LEMMA Writes ==
    ASSUME NEW address \in 0 .. EeSize - 1, NEW byte \in EeByte, eeMemory \in [0 .. EeSize - 1 -> EeByte],
           NEW new, new = [eeMemory EXCEPT ![address] = @ \cap byte]
    PROVE  /\ new \in [0 .. EeSize - 1 -> EeByte]
           /\ eeMemory[address] = EeErased => new[address] = byte
           /\ \A a \in 0 .. EeSize - 1 : a # address => new[a] = eeMemory[a]
<1>1. eeMemory[address] \cap byte \in EeByte
  BY DEF EeByte
<1>2. EeErased \cap byte = byte
  BY DEF EeErased, EeByte
<1> QED
  BY <1>1, <1>2

LEMMA EeInvInit == EeInit => EeInv
<1> SUFFICES ASSUME EeInit PROVE EeInv
  OBVIOUS
<1>1. {} \in EeByte /\ EeErased \in EeByte
  BY DEF EeErased, EeByte
<1>2. eeMemory \in [0 .. EeSize - 1 -> EeByte]
  BY <1>1 DEF EeInit
<1> QED
  BY <1>2 DEF EeInit, EeInv, EeKeptReads, EeTaskOK

\* A block begins: those with a page of it are no longer kept.
LEMMA BlockBegins == ASSUME NEW block \in EeBlocks, EeInv, eepromWriteBlock(block) PROVE EeInv'
<1>1. /\ block \in [at : Nat, data : Seq(EeByte)] /\ Len(block.data) > 0 /\ block.at + Len(block.data) <= EeSize
      /\ eeTask' = [step |-> "erase", block |-> block, page |-> FirstPage(block), index |-> 1] /\ iap'
      /\ eeKept' = {b \in eeKept : EePagesOf(b) \cap EePagesOf(block) = {}} /\ eeMemory' = eeMemory
  BY EeAssumption DEF eepromWriteBlock, IapEnable
<1>2. InMemory(block)
  BY <1>1 DEF InMemory
<1>3. PageStart(FirstPage(block)) /\ FirstPage(block) \in Nat /\ FirstPage(block) <= block.at /\ block.at \in Nat
  BY <1>1, PageHolds DEF FirstPage
<1>4. eeMemory' \in [0 .. EeSize - 1 -> EeByte]
  BY <1>1 DEF EeInv
<1>5. EeKeptReads'
  <2> SUFFICES ASSUME NEW b \in eeKept'
               PROVE  /\ InMemory(b) /\ \A i \in Places(b) : ReadsBack(b, i)'
                      /\ \A i \in Places(b) : EePageOf(Place(b, i)) \notin EePagesOf(eeTask'.block)
    BY DEF EeKeptReads, InMemory, Places, Place, EePageOf, EePagesOf
  <2>1. b \in eeKept /\ InMemory(b) /\ (\A i \in Places(b) : ReadsBack(b, i)) /\ EePagesOf(b) \cap EePagesOf(block) = {}
    BY <1>1 DEF EeInv, EeKeptReads
  <2>2. \A i \in Places(b) : EePageOf(Place(b, i)) \in EePagesOf(b)
    BY <2>1, PlaceType
  <2>3. \A i \in Places(b) : ReadsBack(b, i)'
    BY <1>1, <2>1 DEF ReadsBack
  <2>4. eeTask'.block = block
    BY <1>1
  <2> QED
    BY <2>1, <2>2, <2>3, <2>4
<1>6. EeTaskOK'
  <2>1. /\ eeTask' \in [step : {"erase", "write"}, block : EeBlocks, page : Nat, index : Nat \ {0}]
        /\ eeTask'.step = "erase" /\ eeTask'.index = 1 /\ eeTask'.block = block /\ eeTask'.page = FirstPage(block)
    BY <1>1, <1>3
  <2>2. ASSUME NEW i \in Places(block), Place(block, i) < FirstPage(block) PROVE FALSE
    BY <1>2, <1>3, <2>2, PlaceType DEF Place
  <2> QED
    BY <1>1, <1>2, <1>3, <2>1, <2>2 DEF EeTaskOK, Places, InMemory, FirstPage, Place
<1> QED
  BY <1>4, <1>5, <1>6 DEF EeInv


\* A step of the loop that erases: the page is one of the block's, since it lies
\* between the first one and the last, and what lies before the next is blank then.
LEMMA PageErased == ASSUME EeInv, ErasePage, eeTask.page <= LastPage(eeTask.block) PROVE EeInv'
<1> DEFINE block == eeTask.block
           page == eeTask.page
<1>1. eeTask # EeIdle /\ eeTask.step = "erase"
  BY DEF ErasePage, EeIdle
<1>2. /\ iap /\ InMemory(block) /\ eeTask.index = 1 /\ PageStart(page) /\ FirstPage(block) <= page
      /\ \A i \in Places(block) : Place(block, i) < page => Blank(block, i)
      /\ eeTask \in [step : {"erase", "write"}, block : EeBlocks, page : Nat, index : Nat \ {0}]
      /\ eeMemory \in [0 .. EeSize - 1 -> EeByte]
  BY <1>1 DEF EeInv, EeTaskOK
<1>3. /\ eeMemory' = [a \in DOMAIN eeMemory |-> IF EePageOf(a) = page THEN EeErased ELSE eeMemory[a]]
      /\ eeTask' = [eeTask EXCEPT !.page = page + EePage] /\ eeKept' = eeKept /\ iap' = iap
  BY <1>2 DEF ErasePage, eeErase
<1>4. PageStart(page + EePage) /\ page \in Nat /\ page + EePage \in Nat
  BY <1>2, PageAfter
<1>5. /\ eeTask' \in [step : {"erase", "write"}, block : EeBlocks, page : Nat, index : Nat \ {0}]
      /\ eeTask'.step = "erase" /\ eeTask'.index = 1 /\ eeTask'.block = block /\ eeTask'.page = page + EePage
      /\ eeTask' # EeIdle
  BY <1>1, <1>2, <1>3, <1>4 DEF EeIdle
<1>6. /\ eeMemory' \in [0 .. EeSize - 1 -> EeByte]
      /\ \A a \in 0 .. EeSize - 1 : eeMemory'[a] = IF EePageOf(a) = page THEN EeErased ELSE eeMemory[a]
  BY <1>2, <1>3, Erases
<1>7. block.at \in Nat /\ Len(block.data) \in Nat /\ Len(block.data) > 0
  BY <1>2 DEF InMemory
<1>8. page \in EePagesOf(block)
  <2>1. PageStart(FirstPage(block)) /\ FirstPage(block) \in Nat /\ block.at < FirstPage(block) + EePage
    BY <1>7, PageHolds DEF FirstPage
  <2>2. CASE page = FirstPage(block)
    <3>1. 1 \in 1 .. Len(block.data) /\ block.at + 1 - 1 = block.at
      BY <1>7
    <3> QED
      BY <2>2, <3>1 DEF FirstPage, EePagesOf
  <2>3. CASE page # FirstPage(block)
    <3>1. FirstPage(block) < page
      BY <1>2, <1>4, <2>1, <2>3
    <3>2. FirstPage(block) + EePage <= page
      BY <1>2, <2>1, <3>1, PagesApart
    <3>3. PICK last \in Nat : last = block.at + Len(block.data) - 1
      BY <1>7
    <3>4. EePageOf(last) \in Nat /\ EePageOf(last) <= last
      BY PageHolds
    <3>5. page <= last /\ block.at <= page
      <4>1. page <= EePageOf(last)
        BY <3>3 DEF LastPage
      <4> QED
        BY EeAssumption, <1>4, <1>7, <2>1, <3>2, <3>4, <4>1
    <3>6. PICK i \in 1 .. Len(block.data) : block.at + i - 1 = page
      <4>1. PICK start \in Nat, length \in Nat, p \in Nat : start = block.at /\ length = Len(block.data) /\ p = page
        BY <1>4, <1>7
      <4>2. p <= start + length - 1 /\ start <= p
        BY <3>3, <3>5, <4>1
      <4>3. p - start + 1 \in 1 .. length /\ start + (p - start + 1) - 1 = p
        BY <4>2
      <4> QED
        BY <4>1, <4>3
    <3>7. EePageOf(page) = page
      BY EeAssumption, <1>2, <1>4, PageIs
    <3> QED
      BY <3>6, <3>7 DEF EePagesOf
  <2> QED
    BY <2>2, <2>3
<1>9. EeKeptReads'
  <2> SUFFICES ASSUME NEW b \in eeKept'
               PROVE  /\ InMemory(b) /\ \A i \in Places(b) : ReadsBack(b, i)'
                      /\ \A i \in Places(b) : EePageOf(Place(b, i)) \notin EePagesOf(eeTask'.block)
    BY DEF EeKeptReads, InMemory, Places, Place, EePageOf, EePagesOf
  <2>1. b \in eeKept /\ InMemory(b) /\ (\A i \in Places(b) : ReadsBack(b, i))
        /\ (\A i \in Places(b) : EePageOf(Place(b, i)) \notin EePagesOf(block))
    BY <1>1, <1>3 DEF EeInv, EeKeptReads
  <2>2. ASSUME NEW i \in Places(b) PROVE ReadsBack(b, i)'
    <3>1. Place(b, i) \in 0 .. EeSize - 1
      BY <2>1, PlaceType
    <3>2. EePageOf(Place(b, i)) # page
      BY <1>8, <2>1
    <3>3. eeMemory'[Place(b, i)] = eeMemory[Place(b, i)]
      BY <1>6, <3>1, <3>2
    <3> QED
      BY <2>1, <3>3 DEF ReadsBack, Place
  <2> QED
    BY <1>5, <2>1, <2>2
<1>10. EeTaskOK'
  <2>1. FirstPage(block) <= page + EePage
    <3>1. FirstPage(block) \in Nat
      BY <1>7, PageHolds DEF FirstPage
    <3> QED
      BY EeAssumption, <1>2, <1>4, <3>1
  <2>2. ASSUME NEW i \in Places(block), Place(block, i) < page + EePage PROVE Blank(block, i)'
    <3>1. Place(block, i) \in Nat /\ Place(block, i) \in 0 .. EeSize - 1
      BY <1>2, PlaceType
    <3>2. EePageOf(Place(block, i)) = page \/ eeMemory[Place(block, i)] = EeErased
      <4>1. CASE Place(block, i) < page
        BY <1>2, <4>1 DEF Blank
      <4>2. CASE page <= Place(block, i)
        BY <1>2, <2>2, <3>1, <4>2, PageIs
      <4> QED
        BY <1>4, <3>1, <4>1, <4>2
    <3>3. eeMemory'[Place(block, i)] = EeErased
      BY <1>6, <3>1, <3>2
    <3> QED
      BY <1>5, <3>3 DEF Blank, Place
  <2>3. InMemory(block) /\ iap' /\ PageStart(page + EePage)
    BY <1>2, <1>3, <1>4
  <2> QED
    BY <1>5, <2>1, <2>2, <2>3 DEF EeTaskOK, Places, InMemory, FirstPage, Place, EePageOf, Blank, PageStart
<1> QED
  BY <1>6, <1>9, <1>10 DEF EeInv

\* Past the last page, all of the block is blank.
LEMMA PagesErased == ASSUME EeInv, ErasePage, ~(eeTask.page <= LastPage(eeTask.block)) PROVE EeInv'
<1> DEFINE block == eeTask.block
           page == eeTask.page
<1>1. eeTask # EeIdle /\ eeTask.step = "erase"
  BY DEF ErasePage, EeIdle
<1>2. /\ iap /\ InMemory(block) /\ eeTask.index = 1 /\ PageStart(page)
      /\ \A i \in Places(block) : Place(block, i) < page => Blank(block, i)
      /\ eeTask \in [step : {"erase", "write"}, block : EeBlocks, page : Nat, index : Nat \ {0}]
  BY <1>1 DEF EeInv, EeTaskOK
<1>3. eeTask' = [eeTask EXCEPT !.step = "write"] /\ UNCHANGED <<eeMemory, iap, eeKept>>
  BY DEF ErasePage
<1>4. /\ eeTask' \in [step : {"erase", "write"}, block : EeBlocks, page : Nat, index : Nat \ {0}]
      /\ eeTask'.step = "write" /\ eeTask'.index = 1 /\ eeTask'.block = block /\ eeTask' # EeIdle
  BY <1>1, <1>2, <1>3 DEF EeIdle
<1>5. block.at \in Nat /\ Len(block.data) \in Nat /\ Len(block.data) > 0 /\ page \in Nat
  BY <1>2 DEF InMemory
<1>6. PICK last \in Nat : last = block.at + Len(block.data) - 1
  BY <1>5
<1>7. last < page
  <2>1. PICK q : q = EePageOf(last)
    OBVIOUS
  <2>2. PageStart(q) /\ q \in Nat /\ last < q + EePage
    BY <2>1, PageHolds
  <2>3. q < page
    BY <1>5, <1>6, <2>1, <2>2 DEF LastPage
  <2>4. q + EePage <= page
    BY <1>2, <2>2, <2>3, PagesApart
  <2> QED
    BY EeAssumption, <1>5, <2>2, <2>4
<1>8. ASSUME NEW i \in Places(block) PROVE Blank(block, i)'
  <2>1. Place(block, i) < page
    <3>1. Place(block, i) = block.at + i - 1 /\ i \in Nat /\ i <= Len(block.data)
      BY <1>2, PlaceType DEF Place
    <3> QED
      BY <1>5, <1>6, <1>7, <3>1, SMTT(30)
  <2> QED
    BY <1>2, <1>3, <1>4, <2>1 DEF Blank, Place
<1>9. EeKeptReads'
  BY <1>1, <1>3, <1>4 DEF EeInv, EeKeptReads, ReadsBack, InMemory, Places, Place, EePageOf, EePagesOf
<1>10. ASSUME NEW i \in Places(block) PROVE ~(i < 1)
  BY <1>5 DEF Places
<1>11. EeTaskOK'
  BY <1>2, <1>3, <1>4, <1>8, <1>10 DEF EeTaskOK, Places, InMemory
<1> QED
  BY <1>3, <1>9, <1>11 DEF EeInv

\* A byte is written where the memory is blank, and on a page of the block's own.
LEMMA ByteWritten == ASSUME EeInv, WriteNext, eeTask.index <= Len(eeTask.block.data) PROVE EeInv'
<1> DEFINE block == eeTask.block
           index == eeTask.index
<1>1. eeTask # EeIdle /\ eeTask.step = "write"
  BY DEF WriteNext, EeIdle
<1>2. /\ iap /\ InMemory(block)
      /\ \A i \in Places(block) : IF i < index THEN ReadsBack(block, i) ELSE Blank(block, i)
      /\ eeTask \in [step : {"erase", "write"}, block : EeBlocks, page : Nat, index : Nat \ {0}]
      /\ eeMemory \in [0 .. EeSize - 1 -> EeByte]
  BY <1>1 DEF EeInv, EeTaskOK
<1>3. /\ eeMemory' = [eeMemory EXCEPT ![Place(block, index)] = @ \cap block.data[index]]
      /\ eeTask' = [eeTask EXCEPT !.index = index + 1] /\ eeKept' = eeKept /\ iap' = iap
  BY <1>2 DEF WriteNext, eeWrite, Place
<1>4. /\ eeTask' \in [step : {"erase", "write"}, block : EeBlocks, page : Nat, index : Nat \ {0}]
      /\ eeTask'.step = "write" /\ eeTask'.index = index + 1 /\ eeTask'.block = block /\ eeTask' # EeIdle
  BY <1>1, <1>2, <1>3 DEF EeIdle
<1>5. index \in Places(block) /\ index \in Nat
  <2>1. Len(block.data) \in Nat
    BY <1>2 DEF InMemory
  <2> QED
    BY <1>2, <2>1 DEF Places
<1>6. Place(block, index) \in 0 .. EeSize - 1 /\ block.data[index] \in EeByte
      /\ EePageOf(Place(block, index)) \in EePagesOf(block)
  BY <1>2, <1>5, PlaceType
<1>7. PICK here \in 0 .. EeSize - 1 : here = Place(block, index)
  BY <1>6
<1>8. PICK byte \in EeByte : byte = block.data[index]
  BY <1>6
<1>9. eeMemory' = [eeMemory EXCEPT ![here] = @ \cap byte]
  BY <1>3, <1>7, <1>8
<1>10. /\ eeMemory' \in [0 .. EeSize - 1 -> EeByte]
       /\ eeMemory[here] = EeErased => eeMemory'[here] = byte
       /\ \A a \in 0 .. EeSize - 1 : a # here => eeMemory'[a] = eeMemory[a]
  BY <1>2, <1>9, Writes
<1>11. eeMemory'[here] = byte
  <2>1. Blank(block, index)
    BY <1>2, <1>5
  <2> QED
    BY <1>7, <1>10, <2>1 DEF Blank
<1>12. EeKeptReads'
  <2> SUFFICES ASSUME NEW b \in eeKept'
               PROVE  /\ InMemory(b) /\ \A i \in Places(b) : ReadsBack(b, i)'
                      /\ \A i \in Places(b) : EePageOf(Place(b, i)) \notin EePagesOf(eeTask'.block)
    BY DEF EeKeptReads, InMemory, Places, Place, EePageOf, EePagesOf
  <2>1. b \in eeKept /\ InMemory(b) /\ (\A i \in Places(b) : ReadsBack(b, i))
        /\ (\A i \in Places(b) : EePageOf(Place(b, i)) \notin EePagesOf(block))
    BY <1>1, <1>3 DEF EeInv, EeKeptReads
  <2>2. ASSUME NEW i \in Places(b) PROVE ReadsBack(b, i)'
    <3>1. Place(b, i) \in 0 .. EeSize - 1
      BY <2>1, PlaceType
    <3>2. Place(b, i) # here
      BY <1>6, <1>7, <2>1
    <3>3. eeMemory'[Place(b, i)] = eeMemory[Place(b, i)]
      BY <1>10, <3>1, <3>2
    <3> QED
      BY <2>1, <3>3 DEF ReadsBack, Place
  <2> QED
    BY <1>4, <2>1, <2>2
<1>13. ASSUME NEW i \in Places(block)
       PROVE  IF i < index + 1 THEN ReadsBack(block, i)' ELSE Blank(block, i)'
  <2>1. Place(block, i) \in 0 .. EeSize - 1 /\ i \in Nat /\ block.at \in Nat
    BY <1>2, PlaceType
  <2>2. CASE i = index
    <3>1. eeMemory'[Place(block, i)] = block.data[i]
      BY <1>7, <1>8, <1>11, <2>2
    <3>2. ReadsBack(block, i)'
      BY <1>4, <3>1 DEF ReadsBack, Place
    <3> QED
      BY <1>5, <2>2, <3>2
  <2>3. CASE i # index
    <3>1. Place(block, i) # here
      BY <1>5, <1>7, <2>1, <2>3 DEF Place
    <3>2. eeMemory'[Place(block, i)] = eeMemory[Place(block, i)]
      BY <1>10, <2>1, <3>1
    <3>3. i < index + 1 <=> i < index
      BY <1>5, <2>1, <2>3
    <3>4. ReadsBack(block, i) => ReadsBack(block, i)'
      BY <1>4, <3>2 DEF ReadsBack, Place
    <3>5. Blank(block, i) => Blank(block, i)'
      BY <1>4, <3>2 DEF Blank, Place
    <3>6. IF i < index THEN ReadsBack(block, i) ELSE Blank(block, i)
      BY <1>2
    <3> QED
      BY <3>3, <3>4, <3>5, <3>6
  <2> QED
    BY <2>2, <2>3
<1>14. EeTaskOK'
  BY <1>2, <1>3, <1>4, <1>13 DEF EeTaskOK, Places, InMemory
<1> QED
  BY <1>10, <1>12, <1>14 DEF EeInv

\* The block that was written to its end is kept from there on.
LEMMA BlockEnds == ASSUME EeInv, WriteNext, ~(eeTask.index <= Len(eeTask.block.data)) PROVE EeInv'
<1> DEFINE block == eeTask.block
<1>1. eeTask # EeIdle /\ eeTask.step = "write"
  BY DEF WriteNext, EeIdle
<1>2. InMemory(block) /\ eeTask.index \in Nat
      /\ \A i \in Places(block) : IF i < eeTask.index THEN ReadsBack(block, i) ELSE Blank(block, i)
  BY <1>1 DEF EeInv, EeTaskOK
<1>3. eeTask' = EeIdle /\ eeMemory' = eeMemory /\ eeKept' = eeKept \cup {block}
  BY DEF WriteNext
<1>4. ASSUME NEW i \in Places(block) PROVE ReadsBack(block, i)
  <2>1. i < eeTask.index
    <3>1. i \in Nat /\ i <= Len(block.data) /\ Len(block.data) \in Nat
      BY <1>2, PlaceType
    <3> QED
      BY <1>2, <3>1
  <2> QED
    BY <1>2, <2>1
<1>5. ASSUME NEW b \in eeKept' PROVE InMemory(b) /\ \A i \in Places(b) : ReadsBack(b, i)
  BY <1>2, <1>3, <1>4 DEF EeInv, EeKeptReads
<1>6. EeKeptReads'
  BY <1>3, <1>5 DEF EeKeptReads, ReadsBack, InMemory, Places, Place
<1> QED
  BY <1>3, <1>6 DEF EeInv, EeTaskOK

\* One page erased alone: no block is kept that has a byte of it.
LEMMA PageErasedAlone == ASSUME NEW address \in EeAddresses, EeInv, eepromErasePage(address) PROVE EeInv'
<1>1. PICK page : page = EePageOf(address)
  OBVIOUS
<1>2. /\ eeTask = EeIdle /\ eeTask' = eeTask
      /\ eeMemory' = [a \in DOMAIN eeMemory |-> IF EePageOf(a) = page THEN EeErased ELSE eeMemory[a]]
      /\ eeKept' = {b \in eeKept : page \notin EePagesOf(b)}
  BY <1>1 DEF eepromErasePage
<1>3. /\ eeMemory' \in [0 .. EeSize - 1 -> EeByte]
      /\ \A a \in 0 .. EeSize - 1 : eeMemory'[a] = IF EePageOf(a) = page THEN EeErased ELSE eeMemory[a]
  BY <1>2, Erases DEF EeInv
<1>4. ASSUME NEW b \in eeKept' PROVE InMemory(b) /\ \A i \in Places(b) : ReadsBack(b, i)'
  <2>1. b \in eeKept /\ InMemory(b) /\ (\A i \in Places(b) : ReadsBack(b, i)) /\ page \notin EePagesOf(b)
    BY <1>2 DEF EeInv, EeKeptReads
  <2>2. ASSUME NEW i \in Places(b) PROVE ReadsBack(b, i)'
    <3>1. Place(b, i) \in 0 .. EeSize - 1 /\ EePageOf(Place(b, i)) \in EePagesOf(b)
      BY <2>1, PlaceType
    <3>2. EePageOf(Place(b, i)) # page
      BY <2>1, <3>1
    <3>3. eeMemory'[Place(b, i)] = eeMemory[Place(b, i)]
      BY <1>3, <3>1, <3>2
    <3> QED
      BY <2>1, <3>3 DEF ReadsBack, Place
  <2> QED
    BY <2>1, <2>2
<1>5. EeKeptReads'
  BY <1>2, <1>4 DEF EeKeptReads, InMemory, Places
<1> QED
  BY <1>2, <1>3, <1>5 DEF EeInv, EeTaskOK

\* One byte written alone: it is kept if it fell on a blank one.
LEMMA ByteWrittenAlone ==
    ASSUME NEW address \in EeAddresses, NEW byte \in EeBytes, EeInv, eepromWriteByte(address, byte)
    PROVE  EeInv'
<1>1. address \in 0 .. EeSize - 1 /\ byte \in EeByte /\ address \in Nat /\ EeSize \in Nat
  BY EeAssumption
<1>2. PICK single : single = [at |-> address, data |-> <<byte>>]
  OBVIOUS
<1>3. /\ eeTask = EeIdle /\ eeTask' = eeTask /\ eeMemory' = [eeMemory EXCEPT ![address] = @ \cap byte]
      /\ \A b \in eeKept' : \/ b \in eeKept /\ address \notin b.at .. b.at + Len(b.data) - 1
                            \/ b = single /\ eeMemory[address] = EeErased
  BY <1>2 DEF eepromWriteByte
<1>4. /\ eeMemory' \in [0 .. EeSize - 1 -> EeByte]
      /\ eeMemory[address] = EeErased => eeMemory'[address] = byte
      /\ \A a \in 0 .. EeSize - 1 : a # address => eeMemory'[a] = eeMemory[a]
  <2>1. eeMemory \in [0 .. EeSize - 1 -> EeByte]
    BY DEF EeInv
  <2> QED
    BY <1>1, <1>3, <2>1, Writes
<1>5. ASSUME NEW b \in eeKept' PROVE InMemory(b) /\ \A i \in Places(b) : ReadsBack(b, i)'
  <2>1. CASE b \in eeKept /\ address \notin b.at .. b.at + Len(b.data) - 1
    <3>1. InMemory(b) /\ (\A i \in Places(b) : ReadsBack(b, i))
      BY <2>1 DEF EeInv, EeKeptReads
    <3>2. ASSUME NEW i \in Places(b) PROVE ReadsBack(b, i)'
      <4>1. /\ Place(b, i) \in 0 .. EeSize - 1 /\ b.at \in Nat /\ i \in Nat /\ i >= 1 /\ i <= Len(b.data)
            /\ Len(b.data) \in Nat
        BY <3>1, PlaceType
      <4>2. Place(b, i) \in b.at .. b.at + Len(b.data) - 1
        BY <4>1 DEF Place
      <4>3. eeMemory'[Place(b, i)] = eeMemory[Place(b, i)]
        BY <1>4, <2>1, <4>1, <4>2
      <4> QED
        BY <3>1, <4>3 DEF ReadsBack, Place
    <3> QED
      BY <3>1, <3>2
  <2>2. CASE b = single /\ eeMemory[address] = EeErased
    <3>1. b.at = address /\ b.data = <<byte>> /\ b.data \in Seq(EeByte) /\ Len(b.data) = 1 /\ b.data[1] = byte
      BY <1>1, <1>2, <2>2
    <3>2. b \in [at : Nat, data : Seq(EeByte)]
      BY <1>1, <1>2, <2>2
    <3>3. InMemory(b)
      BY <1>1, <3>1, <3>2 DEF InMemory
    <3>4. ASSUME NEW i \in Places(b) PROVE ReadsBack(b, i)'
      <4>1. i = 1 /\ Place(b, i) = address
        BY <1>1, <3>1 DEF Places, Place
      <4> QED
        BY <1>4, <2>2, <3>1, <4>1 DEF ReadsBack, Place
    <3> QED
      BY <3>3, <3>4
  <2> QED
    BY <1>3, <2>1, <2>2
<1>6. EeKeptReads'
  BY <1>3, <1>5 DEF EeKeptReads, InMemory, Places
<1> QED
  BY <1>3, <1>4, <1>6 DEF EeInv, EeTaskOK

LEMMA EeInvNext == ASSUME EeInv, [EeNext]_eeVars PROVE EeInv'
<1>1. CASE UNCHANGED eeVars
  <2>1. eeMemory' = eeMemory /\ iap' = iap /\ eeTask' = eeTask /\ eeKept' = eeKept
    BY <1>1 DEF eeVars
  <2>2. EeKeptReads'
    <3>1. \A b \in eeKept :
             /\ InMemory(b) /\ \A i \in Places(b) : ReadsBack(b, i)
             /\ eeTask # EeIdle => \A i \in Places(b) : EePageOf(Place(b, i)) \notin EePagesOf(eeTask.block)
      BY DEF EeInv, EeKeptReads
    <3>2. \A b, i : ReadsBack(b, i)' <=> ReadsBack(b, i)
      BY <2>1 DEF ReadsBack
    <3> QED
      BY <2>1, <3>1, <3>2 DEF EeKeptReads
  <2>3. EeTaskOK'
    BY <2>1 DEF EeInv, EeTaskOK, ReadsBack, Blank, Places, Place, FirstPage, EePageOf, InMemory, PageStart
  <2> QED
    BY <2>1, <2>2, <2>3 DEF EeInv
<1>2. CASE EeReset
  BY <1>2 DEF EeReset, EeInv, EeKeptReads, EeTaskOK, ReadsBack, InMemory, Places, Place
<1>3. ErasePage => EeInv'
  BY PageErased, PagesErased
<1>4. WriteNext => EeInv'
  BY ByteWritten, BlockEnds
<1> QED
  BY <1>1, <1>2, <1>3, <1>4, BlockBegins, PageErasedAlone, ByteWrittenAlone DEF EeNext

LEMMA KeptReadsBack == EeInv => BlocksReadBack
<1> SUFFICES ASSUME EeInv, NEW b \in eeKept PROVE eepromReadBlock(b.at, Len(b.data)) = b.data
  BY DEF BlocksReadBack
<1>1. b.data \in Seq(EeByte) /\ \A i \in 1 .. Len(b.data) : eeMemory[b.at + i - 1] = b.data[i]
  BY DEF EeInv, EeKeptReads, InMemory, ReadsBack, Place, Places
<1>2. b.data = [i \in 1 .. Len(b.data) |-> b.data[i]]
  BY <1>1
<1> QED
  BY <1>1, <1>2 DEF eepromReadBlock, eepromReadByte

\* A block that was written reads back until something is written over one of its
\* pages, whenever a reset comes in the writing of another: for every size of
\* memory and of page, and every block (eeprom-hal.c 105-121).
THEOREM FlashKeepsBlocks == EeSpec => []BlocksReadBack
<1>1. EeSpec => []EeInv
  BY EeInvInit, EeInvNext, PTL DEF EeSpec
<1> QED
  BY <1>1, KeptReadsBack, PTL

-----------------------------------------------------------------------------
(***************************************************************************)
(* The two ends of an SPI bus.                                             *)
(***************************************************************************)

SpiByte == {0} \cup ({"m", "s"} \X Nat \X Nat)

SpiSide == [buf : Seq(SpiByte), index : Nat, ready : BOOLEAN, dat : SpiByte, flag : BOOLEAN, gave : Seq(SpiByte),
            left : Nat]

SpiTypeOK ==
    /\ spiMaster \in SpiSide /\ spiSlave \in SpiSide
    /\ spiOut \in BOOLEAN /\ spiArming \in BOOLEAN /\ spiClean \in BOOLEAN
    /\ spiSent \in Seq(SpiByte) /\ spiBase \in Nat \cup {-1} /\ spiStale \in SpiByte

\* What a side has not exchanged yet is what its buffer held at first.
RestIsOwn(side) ==
    /\ Len(side.buf) = Len(side.gave)
    /\ \A k \in 1 .. Len(side.buf) : side.index < k => side.buf[k] = side.gave[k]

\* A master in a transfer has either put its next byte into the register, or the
\* slave's is there and its interrupt due.
MasterWorks ==
    IF spiMaster.ready THEN ~spiMaster.flag /\ ~spiOut
    ELSE /\ spiMaster.flag <=> ~spiOut
         /\ spiMaster.index < Len(spiMaster.buf) /\ RestIsOwn(spiMaster)
         /\ spiOut => spiMaster.dat = spiMaster.gave[spiMaster.index + 1]

\* Swaps of the master's transfer, and those the slave's interrupt has seen
Swapped == IF spiMaster.flag THEN spiMaster.index + 1 ELSE spiMaster.index
SlaveSeen    == IF spiSlave.flag THEN Len(spiSent) - 1 ELSE Len(spiSent)

\* What a slave armed with this buffer replies in the n-th swap since, from 0
SlaveAnswer(stale, gave, n) ==
    IF n = 0 THEN stale ELSE IF n <= Len(gave) THEN gave[n] ELSE 0

\* A slave armed in time answers every swap with its next byte: what the master
\* has to fetch is the answer to the last one, what it will get next is there
\* once the slave's interrupt was served.
SlaveKeepsUp ==
    spiClean =>
        /\ IF spiBase = -1 THEN spiMaster.ready /\ spiSent = << >> ELSE spiBase + Swapped = Len(spiSent)
        /\ IF spiSlave.flag THEN Len(spiSent) > 0 /\ spiSlave.dat = spiSent[Len(spiSent)]
           ELSE spiSlave.dat = SlaveAnswer(spiStale, spiSlave.gave, Len(spiSent))
        /\ spiMaster.flag => spiMaster.dat = SlaveAnswer(spiStale, spiSlave.gave, Len(spiSent) - 1)
        /\ spiBase # -1 => \A i \in 1 .. spiMaster.index : spiMaster.buf[i] = SlaveAnswer(spiStale, spiSlave.gave, spiBase + i - 1)
        /\ Len(spiSlave.gave) > 0 /\ Len(spiSlave.buf) = Len(spiSlave.gave)
        /\ IF spiArming THEN spiSent = << >> /\ ~spiSlave.flag /\ ~spiSlave.ready /\ spiSlave.buf = spiSlave.gave
           ELSE /\ spiSlave.index = IF SlaveSeen <= Len(spiSlave.gave) THEN SlaveSeen ELSE Len(spiSlave.gave)
                /\ spiSlave.ready <=> spiSlave.index = Len(spiSlave.buf)
                /\ RestIsOwn(spiSlave)
                /\ \A j \in 1 .. spiSlave.index : spiSlave.buf[j] = spiSent[j]

SpiInv == SpiTypeOK /\ MasterWorks /\ SlaveKeepsUp

LEMMA ByteType == 0 \in SpiByte
  BY DEF SpiByte

LEMMA PutByte ==
    ASSUME NEW S, NEW s \in Seq(S), NEW n \in 1 .. Len(s), NEW e \in S
    PROVE  LET t == [s EXCEPT ![n] = e]
           IN  /\ t \in Seq(S) /\ Len(t) = Len(s) /\ t[n] = e
               /\ \A k \in 1 .. Len(s) : k # n => t[k] = s[k]
  OBVIOUS

LEMMA LastPut ==
    ASSUME NEW S, NEW s \in Seq(S), NEW e \in S
    PROVE  LET t == Append(s, e)
           IN  /\ t \in Seq(S) /\ Len(t) = Len(s) + 1 /\ t[Len(t)] = e
               /\ \A k \in 1 .. Len(s) : t[k] = s[k]
  OBVIOUS

\* A buffer of the application is one of bytes.
LEMMA BufferType ==
    ASSUME NEW side \in {"m", "s"}, NEW left \in Nat, NEW size \in Nat, NEW zeros \in BOOLEAN
    PROVE  Buffer(side, left, size, zeros) \in Seq(SpiByte) /\ Len(Buffer(side, left, size, zeros)) = size
<1>1. \A i \in 1 .. size : (IF zeros THEN 0 ELSE <<side, left, i>>) \in SpiByte
  BY DEF SpiByte
<1> QED
  BY <1>1 DEF Buffer

LEMMA SpiInvInit == SpiInit => SpiInv
<1> SUFFICES ASSUME SpiInit PROVE SpiInv
  OBVIOUS
<1>1. SpiIdle \in SpiSide
  <2>1. << >> \in Seq(SpiByte)
    OBVIOUS
  <2> QED
    BY SpiAssumption, <2>1, ByteType DEF SpiIdle, SpiSide
<1>2. SpiTypeOK
  <2>1. << >> \in Seq(SpiByte) /\ -1 \in Nat \cup {-1}
    OBVIOUS
  <2> QED
    BY <1>1, <2>1, ByteType DEF SpiInit, SpiTypeOK
<1> QED
  BY <1>2 DEF SpiInit, SpiInv, MasterWorks, SlaveKeepsUp, SpiIdle

\* A reply does not depend on the master.
LEMMA MasterSends == ASSUME SpiInv, spiSend PROVE SpiInv'
<1>1. PICK size \in SpiSizes[1], zeros \in BOOLEAN :
         spiMaster' = [Loaded(spiMaster, Buffer("m", spiMaster.left, size, zeros))
                          EXCEPT !.index = 0, !.dat = Buffer("m", spiMaster.left, size, zeros)[1]]
  BY DEF spiSend
<1>2. PICK b : b = Buffer("m", spiMaster.left, size, zeros)
  OBVIOUS
<1>3. /\ spiMaster.ready /\ spiMaster.left > 0 /\ spiOut' /\ spiOut' \in BOOLEAN /\ spiBase' = Len(spiSent)
      /\ UNCHANGED <<spiSlave, spiArming, spiSent, spiStale, spiClean>>
  BY DEF spiSend
<1>4. spiMaster \in SpiSide /\ spiMaster.left \in Nat /\ spiSent \in Seq(SpiByte)
  BY DEF SpiInv, SpiTypeOK, SpiSide
<1>5. size \in Nat /\ size > 0
  BY SpiAssumption
<1>6. b \in Seq(SpiByte) /\ Len(b) = size /\ b[1] \in SpiByte
  <2>1. b \in Seq(SpiByte) /\ Len(b) = size
    BY <1>2, <1>4, <1>5, BufferType
  <2> QED
    BY <1>5, <2>1
<1>7. PICK left \in Nat, first \in SpiByte :
         spiMaster' = [spiMaster EXCEPT !.buf = b, !.gave = b, !.ready = FALSE, !.left = left, !.index = 0, !.dat = first]
         /\ first = b[1]
  <2>1. PICK left \in Nat : left = spiMaster.left - 1
    BY <1>3, <1>4
  <2> QED
    BY <1>1, <1>2, <1>4, <1>6, <2>1 DEF Loaded, SpiSide
<1>8. /\ spiMaster' \in SpiSide
      /\ spiMaster'.buf = b /\ spiMaster'.gave = b /\ ~spiMaster'.ready /\ spiMaster'.index = 0 /\ spiMaster'.dat = b[1]
      /\ spiMaster'.flag = spiMaster.flag
  BY <1>4, <1>6, <1>7 DEF SpiSide
<1>9. ~spiMaster.flag /\ Len(spiSent) \in Nat
  BY <1>3, <1>4 DEF SpiInv, MasterWorks
<1>10. SpiTypeOK'
  BY <1>3, <1>8, <1>9 DEF SpiInv, SpiTypeOK
<1>11. MasterWorks'
  BY <1>3, <1>5, <1>6, <1>8, <1>9 DEF MasterWorks, RestIsOwn
<1>12. SlaveKeepsUp'
  <2>1. spiBase' # -1 /\ spiBase' + Swapped' = Len(spiSent)'
    BY <1>3, <1>8, <1>9 DEF Swapped
  <2>2. \A i \in 1 .. spiMaster'.index : FALSE
    BY <1>8
  <2> QED
    BY <1>3, <1>8, <1>9, <2>1, <2>2 DEF SpiInv, SlaveKeepsUp, SlaveSeen, RestIsOwn
<1> QED
  BY <1>10, <1>11, <1>12 DEF SpiInv

\* A slave that is armed between transfers has nothing to catch up with ...
LEMMA SlaveSends == ASSUME SpiInv, SlaveSend PROVE SpiInv'
<1>1. PICK size \in SpiSizes[2] : spiSlave' = Loaded(spiSlave, Buffer("s", spiSlave.left, size, FALSE))
  BY DEF SlaveSend
<1>2. PICK b : b = Buffer("s", spiSlave.left, size, FALSE)
  OBVIOUS
<1>3. /\ spiSlave.left > 0 /\ spiArming' /\ spiArming' \in BOOLEAN /\ spiSent' = << >> /\ spiBase' = -1
      /\ spiStale' = spiSlave.dat /\ spiClean' = (spiMaster.ready /\ ~spiSlave.flag)
      /\ UNCHANGED <<spiMaster, spiOut>>
  BY DEF SlaveSend
<1>4. spiSlave \in SpiSide /\ spiSlave.left \in Nat /\ spiSlave.dat \in SpiByte
  BY DEF SpiInv, SpiTypeOK, SpiSide
<1>5. size \in Nat /\ size > 0
  BY SpiAssumption
<1>6. b \in Seq(SpiByte) /\ Len(b) = size
  BY <1>2, <1>4, <1>5, BufferType
<1>7. PICK left \in Nat : spiSlave' = [spiSlave EXCEPT !.buf = b, !.gave = b, !.ready = FALSE, !.left = left]
  <2>1. PICK left \in Nat : left = spiSlave.left - 1
    BY <1>3, <1>4
  <2> QED
    BY <1>1, <1>2, <2>1 DEF Loaded
<1>8. /\ spiSlave' \in SpiSide
      /\ spiSlave'.buf = b /\ spiSlave'.gave = b /\ ~spiSlave'.ready
      /\ spiSlave'.dat = spiSlave.dat /\ spiSlave'.flag = spiSlave.flag
  BY <1>4, <1>6, <1>7 DEF SpiSide
<1>9. << >> \in Seq(SpiByte) /\ Len(<< >>) = 0 /\ spiClean' \in BOOLEAN
  BY <1>3
<1>10. SpiTypeOK'
  BY <1>3, <1>4, <1>8, <1>9 DEF SpiInv, SpiTypeOK
<1>11. MasterWorks'
  BY <1>3 DEF SpiInv, MasterWorks, RestIsOwn
<1>12. SlaveKeepsUp'
  <2> SUFFICES ASSUME spiMaster.ready, ~spiSlave.flag PROVE SlaveKeepsUp'
    BY <1>3 DEF SlaveKeepsUp
  <2>1. ~spiMaster.flag
    BY DEF SpiInv, MasterWorks
  <2>2. spiSlave'.dat = SlaveAnswer(spiStale', spiSlave'.gave, 0)
    BY <1>3, <1>8 DEF SlaveAnswer
  <2> QED
    BY <1>3, <1>5, <1>6, <1>8, <1>9, <2>1, <2>2 DEF SlaveKeepsUp
<1> QED
  BY <1>10, <1>11, <1>12 DEF SpiInv

\* ... and begins with its first byte.
LEMMA SlaveIsArmed == ASSUME SpiInv, SlaveArmed PROVE SpiInv'
<1>1. /\ spiArming /\ ~spiArming' /\ spiArming' \in BOOLEAN /\ spiSlave' = [spiSlave EXCEPT !.index = 0]
      /\ UNCHANGED <<spiMaster, spiOut, spiSent, spiBase, spiStale, spiClean>>
  BY DEF SlaveArmed
<1>2. spiSlave \in SpiSide
  BY DEF SpiInv, SpiTypeOK
<1>3. /\ spiSlave' \in SpiSide /\ spiSlave'.index = 0 /\ spiSlave'.buf = spiSlave.buf /\ spiSlave'.gave = spiSlave.gave
      /\ spiSlave'.ready = spiSlave.ready /\ spiSlave'.dat = spiSlave.dat /\ spiSlave'.flag = spiSlave.flag
  BY <1>1, <1>2 DEF SpiSide
<1>4. SpiTypeOK'
  BY <1>1, <1>3 DEF SpiInv, SpiTypeOK
<1>5. MasterWorks'
  BY <1>1 DEF SpiInv, MasterWorks, RestIsOwn
<1>6. SlaveKeepsUp'
  <2> SUFFICES ASSUME spiClean PROVE SlaveKeepsUp'
    BY <1>1 DEF SlaveKeepsUp
  <2>1. spiSent = << >> /\ ~spiSlave.flag /\ ~spiSlave.ready /\ spiSlave.buf = spiSlave.gave /\ Len(spiSlave.gave) > 0
    BY <1>1 DEF SpiInv, SlaveKeepsUp
  <2>2. Len(spiSent) = 0 /\ SlaveSeen' = 0 /\ Len(spiSlave.gave) \in Nat
    BY <1>1, <1>2, <1>3, <2>1 DEF SlaveSeen, SpiSide
  <2>3. \A j \in 1 .. spiSlave'.index : FALSE
    BY <1>3
  <2>4. RestIsOwn(spiSlave)'
    BY <1>3, <2>1 DEF RestIsOwn
  <2> QED
    BY <1>1, <1>3, <2>1, <2>2, <2>3, <2>4 DEF SpiInv, SlaveKeepsUp, Swapped
<1> QED
  BY <1>4, <1>5, <1>6 DEF SpiInv

\* A swap gives the slave the master's next byte, and the master the answer to
\* the swap before.
LEMMA SwapKeeps == ASSUME SpiInv, Swap PROVE SpiInv'
<1>1. /\ spiOut /\ ~spiOut' /\ spiOut' \in BOOLEAN
      /\ spiMaster' = [spiMaster EXCEPT !.dat = spiSlave.dat, !.flag = TRUE]
      /\ spiSlave' = [spiSlave EXCEPT !.dat = spiMaster.dat, !.flag = TRUE]
      /\ spiSent' = Append(spiSent, spiMaster.gave[spiMaster.index + 1])
      /\ spiClean' = (spiClean /\ ~spiSlave.flag /\ ~spiArming)
      /\ UNCHANGED <<spiArming, spiBase, spiStale>>
  BY DEF Swap
<1>2. /\ spiMaster \in SpiSide /\ spiSlave \in SpiSide /\ spiMaster.index \in Nat /\ spiSent \in Seq(SpiByte)
      /\ spiMaster.gave \in Seq(SpiByte) /\ Len(spiSent) \in Nat /\ spiSlave.dat \in SpiByte /\ spiMaster.dat \in SpiByte
  BY DEF SpiInv, SpiTypeOK, SpiSide
<1>3. /\ ~spiMaster.ready /\ ~spiMaster.flag /\ spiMaster.index < Len(spiMaster.gave)
      /\ spiMaster.dat = spiMaster.gave[spiMaster.index + 1]
  BY <1>1 DEF SpiInv, MasterWorks, RestIsOwn
<1>4. /\ spiMaster' \in SpiSide /\ spiMaster'.dat = spiSlave.dat /\ spiMaster'.flag /\ ~spiMaster'.ready
      /\ spiMaster'.index = spiMaster.index /\ spiMaster'.buf = spiMaster.buf /\ spiMaster'.gave = spiMaster.gave
      /\ spiSlave' \in SpiSide /\ spiSlave'.dat = spiMaster.dat /\ spiSlave'.flag
      /\ spiSlave'.index = spiSlave.index /\ spiSlave'.buf = spiSlave.buf /\ spiSlave'.gave = spiSlave.gave
      /\ spiSlave'.ready = spiSlave.ready
  BY <1>1, <1>2, <1>3 DEF SpiSide
<1>5. /\ spiSent' \in Seq(SpiByte) /\ Len(spiSent') = Len(spiSent) + 1 /\ spiSent'[Len(spiSent')] = spiMaster.dat
      /\ \A k \in 1 .. Len(spiSent) : spiSent'[k] = spiSent[k]
  BY <1>1, <1>2, <1>3, LastPut
<1>6. SpiTypeOK'
  BY <1>1, <1>4, <1>5 DEF SpiInv, SpiTypeOK
<1>7. MasterWorks'
  BY <1>1, <1>3, <1>4 DEF SpiInv, MasterWorks, RestIsOwn
<1>8. SlaveKeepsUp'
  <2> SUFFICES ASSUME spiClean, ~spiSlave.flag, ~spiArming PROVE SlaveKeepsUp'
    BY <1>1 DEF SlaveKeepsUp
  <2>1. /\ spiBase # -1 /\ spiBase + Swapped = Len(spiSent) /\ spiSlave.dat = SlaveAnswer(spiStale, spiSlave.gave, Len(spiSent))
        /\ \A i \in 1 .. spiMaster.index : spiMaster.buf[i] = SlaveAnswer(spiStale, spiSlave.gave, spiBase + i - 1)
        /\ Len(spiSlave.gave) > 0 /\ Len(spiSlave.buf) = Len(spiSlave.gave)
        /\ spiSlave.index = IF SlaveSeen <= Len(spiSlave.gave) THEN SlaveSeen ELSE Len(spiSlave.gave)
        /\ spiSlave.ready <=> spiSlave.index = Len(spiSlave.buf)
        /\ RestIsOwn(spiSlave)
        /\ \A j \in 1 .. spiSlave.index : spiSlave.buf[j] = spiSent[j]
    BY <1>3 DEF SpiInv, SlaveKeepsUp
  <2>2. spiBase \in Int /\ Swapped = spiMaster.index /\ Swapped' = spiMaster.index + 1 /\ SlaveSeen = Len(spiSent) /\ SlaveSeen' = Len(spiSent)
    BY <1>2, <1>3, <1>4, <1>5 DEF Swapped, SlaveSeen, SpiInv, SpiTypeOK
  <2>3. spiBase' + Swapped' = Len(spiSent')
    BY <1>1, <1>2, <1>5, <2>1, <2>2
  <2>4. Len(spiSent') - 1 = Len(spiSent) /\ Len(spiSent') > 0
    BY <1>2, <1>5
  <2>5. spiStale' = spiStale /\ spiSlave'.gave = spiSlave.gave
    BY <1>1, <1>4
  <2>6. spiMaster'.dat = SlaveAnswer(spiStale', spiSlave'.gave, Len(spiSent') - 1)
    BY <1>4, <2>1, <2>4, <2>5
  <2>7. \A i \in 1 .. spiMaster'.index : spiMaster'.buf[i] = SlaveAnswer(spiStale', spiSlave'.gave, spiBase' + i - 1)
    BY <1>1, <1>4, <2>1, <2>5
  <2>8. Len(spiSlave.gave) \in Nat /\ spiSlave.index <= Len(spiSent) /\ spiSlave.index \in Nat
    BY <1>2, <2>1, <2>2 DEF SpiSide
  <2>9. \A j \in 1 .. spiSlave'.index : spiSlave'.buf[j] = spiSent'[j]
    BY <1>2, <1>4, <1>5, <2>1, <2>8
  <2>10. RestIsOwn(spiSlave)'
    BY <1>4, <2>1 DEF RestIsOwn
  <2> QED
    BY <1>1, <1>4, <1>5, <2>1, <2>2, <2>3, <2>4, <2>6, <2>7, <2>9, <2>10 DEF SlaveKeepsUp
<1> QED
  BY <1>6, <1>7, <1>8 DEF SpiInv

\* The master's interrupt takes the answer, and puts out the next byte of what
\* its buffer held.
LEMMA MasterTakes == ASSUME SpiInv, MasterIsr PROVE SpiInv'
<1>1. PICK got, next :
         /\ got = [spiMaster.buf EXCEPT ![spiMaster.index + 1] = spiMaster.dat] /\ next = spiMaster.index + 1
         /\ IF next < Len(got)
            THEN spiMaster' = [spiMaster EXCEPT !.flag = FALSE, !.buf = got, !.index = next, !.dat = got[next + 1]]
                 /\ spiOut' = TRUE
            ELSE spiMaster' = [spiMaster EXCEPT !.flag = FALSE, !.buf = got, !.index = next, !.ready = TRUE]
                 /\ spiOut' = FALSE
  BY DEF MasterIsr
<1>2. spiMaster.flag /\ UNCHANGED <<spiSlave, spiArming, spiSent, spiBase, spiStale, spiClean>>
  BY DEF MasterIsr
<1>3. /\ spiMaster \in SpiSide /\ spiMaster.index \in Nat /\ spiMaster.buf \in Seq(SpiByte) /\ spiMaster.dat \in SpiByte
      /\ Len(spiMaster.buf) \in Nat
  BY DEF SpiInv, SpiTypeOK, SpiSide
<1>4. ~spiMaster.ready /\ spiMaster.index < Len(spiMaster.buf) /\ RestIsOwn(spiMaster)
  BY <1>2 DEF SpiInv, MasterWorks
<1>5. /\ got \in Seq(SpiByte) /\ Len(got) = Len(spiMaster.buf) /\ got[next] = spiMaster.dat
      /\ \A k \in 1 .. Len(spiMaster.buf) : k # next => got[k] = spiMaster.buf[k]
  <2>1. next \in 1 .. Len(spiMaster.buf)
    BY <1>1, <1>3, <1>4
  <2> QED
    BY <1>1, <1>3, <2>1, PutByte
<1>6. next \in Nat
  BY <1>1, <1>3
<1>7. /\ spiMaster' \in SpiSide /\ ~spiMaster'.flag /\ spiMaster'.buf = got /\ spiMaster'.index = next
      /\ spiMaster'.gave = spiMaster.gave /\ spiOut' \in BOOLEAN
      /\ IF next < Len(got) THEN ~spiMaster'.ready /\ spiOut' /\ spiMaster'.dat = got[next + 1]
         ELSE spiMaster'.ready /\ ~spiOut'
  <2>1. CASE next < Len(got)
    <3>1. PICK out \in SpiByte : out = got[next + 1]
      BY <1>3, <1>5, <1>6, <2>1
    <3>2. spiMaster' = [spiMaster EXCEPT !.flag = FALSE, !.buf = got, !.index = next, !.dat = out] /\ spiOut' = TRUE
      BY <1>1, <2>1, <3>1
    <3> QED
      BY <1>3, <1>4, <1>5, <1>6, <2>1, <3>1, <3>2 DEF SpiSide
  <2>2. CASE ~(next < Len(got))
    <3>1. spiMaster' = [spiMaster EXCEPT !.flag = FALSE, !.buf = got, !.index = next, !.ready = TRUE] /\ spiOut' = FALSE
      BY <1>1, <2>2
    <3> QED
      BY <1>3, <1>5, <1>6, <2>2, <3>1 DEF SpiSide
  <2> QED
    BY <2>1, <2>2
<1>8. spiMaster'.buf = got /\ spiMaster'.index = next /\ ~spiMaster'.flag
  BY <1>7
<1>10. SpiTypeOK'
  BY <1>2, <1>7 DEF SpiInv, SpiTypeOK
<1>11. RestIsOwn(spiMaster)'
  <2>1. ASSUME NEW k \in 1 .. Len(got), next < k PROVE got[k] = spiMaster.gave[k]
    BY <1>1, <1>3, <1>4, <1>5, <2>1 DEF RestIsOwn
  <2> QED
    BY <1>4, <1>5, <1>7, <2>1 DEF RestIsOwn
<1>12. MasterWorks'
  BY <1>3, <1>5, <1>6, <1>7, <1>11 DEF MasterWorks, RestIsOwn
<1>13. SlaveKeepsUp'
  <2> SUFFICES ASSUME spiClean PROVE SlaveKeepsUp'
    BY <1>2 DEF SlaveKeepsUp
  <2>1. /\ spiBase # -1 /\ spiBase + Swapped = Len(spiSent) /\ spiMaster.dat = SlaveAnswer(spiStale, spiSlave.gave, Len(spiSent) - 1)
        /\ \A i \in 1 .. spiMaster.index : spiMaster.buf[i] = SlaveAnswer(spiStale, spiSlave.gave, spiBase + i - 1)
    BY <1>2, <1>4 DEF SpiInv, SlaveKeepsUp
  <2>2. Swapped = next /\ Swapped' = next /\ spiBase \in Int
    BY <1>1, <1>2, <1>8 DEF Swapped, SpiInv, SpiTypeOK
  <2>3. spiBase + next - 1 = Len(spiSent) - 1
    BY <1>6, <2>1, <2>2
  <2>4. ASSUME NEW i \in 1 .. next PROVE got[i] = SlaveAnswer(spiStale, spiSlave.gave, spiBase + i - 1)
    <3>1. CASE i = next
      BY <1>5, <2>1, <2>3, <3>1
    <3>2. CASE i # next
      BY <1>1, <1>3, <1>4, <1>5, <2>1, <3>2, SMTT(30)
    <3> QED
      BY <3>1, <3>2
  <2>5. \A i \in 1 .. spiMaster'.index : spiMaster'.buf[i] = SlaveAnswer(spiStale', spiSlave'.gave, spiBase' + i - 1)
    BY <1>2, <1>8, <2>4
  <2> QED
    BY <1>2, <1>8, <2>1, <2>2, <2>5 DEF SpiInv, SlaveKeepsUp, SlaveSeen, RestIsOwn
<1> QED
  BY <1>10, <1>12, <1>13 DEF SpiInv

\* The slave's interrupt stores what came in and puts out its next byte.
LEMMA SlaveTakes == ASSUME SpiInv, SlaveIsr PROVE SpiInv'
<1>1. /\ spiSlave.flag /\ UNCHANGED <<spiMaster, spiOut, spiArming, spiSent, spiBase, spiStale, spiClean>>
  BY DEF SlaveIsr
<1>2. PICK n : n = spiSlave.index + 1
  OBVIOUS
<1>3. /\ spiSlave \in SpiSide /\ spiSlave.index \in Nat /\ spiSlave.buf \in Seq(SpiByte) /\ spiSlave.dat \in SpiByte
      /\ Len(spiSlave.buf) \in Nat /\ n \in Nat /\ n > 0 /\ spiSlave.ready \in BOOLEAN /\ spiSent \in Seq(SpiByte)
      /\ Len(spiSent) \in Nat /\ Len(spiSlave.gave) \in Nat
  BY <1>2 DEF SpiInv, SpiTypeOK, SpiSide
<1>4. MasterWorks'
  BY <1>1 DEF SpiInv, MasterWorks, RestIsOwn
<1>5. spiClean => /\ ~spiArming /\ Len(spiSent) > 0 /\ spiSlave.dat = spiSent[Len(spiSent)] /\ SlaveSeen = Len(spiSent) - 1
                  /\ Len(spiSlave.buf) = Len(spiSlave.gave) /\ Len(spiSlave.gave) > 0 /\ RestIsOwn(spiSlave)
                  /\ spiSlave.index = (IF SlaveSeen <= Len(spiSlave.gave) THEN SlaveSeen ELSE Len(spiSlave.gave))
                  /\ (spiSlave.ready <=> spiSlave.index = Len(spiSlave.buf))
                  /\ \A j \in 1 .. spiSlave.index : spiSlave.buf[j] = spiSent[j]
  BY <1>1 DEF SpiInv, SlaveKeepsUp, SlaveSeen
<1>6. CASE n <= Len(spiSlave.buf)
  <2>1. PICK kept \in Seq(SpiByte), out \in SpiByte, ready \in BOOLEAN :
           /\ kept = [spiSlave.buf EXCEPT ![n] = spiSlave.dat] /\ out = spiSlave.buf[n]
           /\ ready = (spiSlave.ready \/ n = Len(spiSlave.buf)) /\ (ready <=> spiSlave.ready \/ n = Len(spiSlave.buf))
    <3>1. PICK ready \in BOOLEAN :
             ready = (spiSlave.ready \/ n = Len(spiSlave.buf)) /\ (ready <=> spiSlave.ready \/ n = Len(spiSlave.buf))
      BY Zenon
    <3>2. n \in 1 .. Len(spiSlave.buf)
      BY <1>3, <1>6
    <3>3. PICK kept \in Seq(SpiByte) : kept = [spiSlave.buf EXCEPT ![n] = spiSlave.dat]
      BY <1>3, <3>2, PutByte
    <3>4. spiSlave.buf[n] \in SpiByte
      BY <1>3, <3>2
    <3> QED
      BY <3>1, <3>3, <3>4
  <2>2. spiSlave' = [spiSlave EXCEPT !.flag = FALSE, !.dat = out, !.buf = kept, !.index = n, !.ready = ready]
    BY <1>2, <1>3, <1>6, <2>1 DEF SlaveIsr, SpiSide
  <2>3. /\ spiSlave' \in SpiSide /\ ~spiSlave'.flag /\ spiSlave'.dat = out /\ spiSlave'.buf = kept /\ spiSlave'.index = n
        /\ spiSlave'.ready = ready /\ spiSlave'.gave = spiSlave.gave
    BY <1>3, <2>1, <2>2 DEF SpiSide
  <2>4. Len(kept) = Len(spiSlave.buf) /\ kept[n] = spiSlave.dat /\ \A k \in 1 .. Len(spiSlave.buf) : k # n => kept[k] = spiSlave.buf[k]
    BY <1>3, <1>6, <2>1, PutByte
  <2>5. SpiTypeOK'
    BY <1>1, <2>3 DEF SpiInv, SpiTypeOK
  <2>6. SlaveKeepsUp'
    <3> SUFFICES ASSUME spiClean PROVE SlaveKeepsUp'
      BY <1>1 DEF SlaveKeepsUp
    <3>1. n = Len(spiSent) /\ SlaveSeen' = Len(spiSent)
      BY <1>1, <1>2, <1>3, <1>5, <1>6, <2>3 DEF SlaveSeen
    <3>2. out = SlaveAnswer(spiStale, spiSlave.gave, Len(spiSent))
      <4>1. out = spiSlave.gave[n]
        BY <1>2, <1>3, <1>5, <1>6, <2>1 DEF RestIsOwn
      <4> QED
        BY <1>3, <1>5, <1>6, <3>1, <4>1 DEF SlaveAnswer
    <3>3. \A j \in 1 .. n : kept[j] = spiSent[j]
      BY <1>2, <1>3, <1>5, <1>6, <2>4, <3>1
    <3>4. ASSUME NEW k \in 1 .. Len(kept), n < k PROVE kept[k] = spiSlave.gave[k]
      BY <1>2, <1>3, <1>5, <2>4, <3>4 DEF RestIsOwn
    <3>5. ready <=> n = Len(spiSlave.buf)
      BY <1>2, <1>3, <1>5, <1>6, <2>1
    <3>6. RestIsOwn(spiSlave)'
      BY <1>5, <2>3, <2>4, <3>4 DEF RestIsOwn
    <3>7. spiSlave'.dat = SlaveAnswer(spiStale', spiSlave'.gave, Len(spiSent'))
      BY <1>1, <2>3, <3>2
    <3>8. spiSlave'.ready <=> spiSlave'.index = Len(spiSlave'.buf)
      BY <2>3, <2>4, <3>5
    <3>9. \A j \in 1 .. spiSlave'.index : spiSlave'.buf[j] = spiSent'[j]
      BY <1>1, <2>3, <3>3
    <3>10. spiSlave'.index = (IF SlaveSeen' <= Len(spiSlave'.gave) THEN SlaveSeen' ELSE Len(spiSlave'.gave))
      BY <1>3, <1>5, <1>6, <2>3, <3>1
    <3> QED
      BY <1>1, <1>5, <2>3, <2>4, <3>6, <3>7, <3>8, <3>9, <3>10 DEF SpiInv, SlaveKeepsUp, Swapped
  <2> QED
    BY <1>4, <2>5, <2>6 DEF SpiInv
<1>7. CASE ~(n <= Len(spiSlave.buf))
  <2>1. spiSlave' = [spiSlave EXCEPT !.flag = FALSE, !.dat = 0]
    BY <1>2, <1>7 DEF SlaveIsr
  <2>2. /\ spiSlave' \in SpiSide /\ ~spiSlave'.flag /\ spiSlave'.dat = 0 /\ spiSlave'.buf = spiSlave.buf
        /\ spiSlave'.index = spiSlave.index /\ spiSlave'.ready = spiSlave.ready /\ spiSlave'.gave = spiSlave.gave
    BY <1>3, <2>1, ByteType DEF SpiSide
  <2>3. SpiTypeOK'
    BY <1>1, <2>2 DEF SpiInv, SpiTypeOK
  <2>4. SlaveKeepsUp'
    <3> SUFFICES ASSUME spiClean PROVE SlaveKeepsUp'
      BY <1>1 DEF SlaveKeepsUp
    <3>1. SlaveSeen >= Len(spiSlave.gave) /\ spiSlave.index = Len(spiSlave.gave) /\ SlaveSeen' = Len(spiSent)
      BY <1>1, <1>2, <1>3, <1>5, <1>7, <2>2 DEF SlaveSeen
    <3>2. spiSlave'.dat = SlaveAnswer(spiStale', spiSlave'.gave, Len(spiSent'))
      BY <1>1, <1>3, <1>5, <2>2, <3>1 DEF SlaveAnswer
    <3>3. spiSlave'.index = (IF SlaveSeen' <= Len(spiSlave'.gave) THEN SlaveSeen' ELSE Len(spiSlave'.gave))
      BY <1>3, <1>5, <2>2, <3>1
    <3> QED
      BY <1>1, <1>5, <2>2, <3>2, <3>3 DEF SpiInv, SlaveKeepsUp, Swapped, RestIsOwn
  <2> QED
    BY <1>4, <2>3, <2>4 DEF SpiInv
<1> QED
  BY <1>6, <1>7

LEMMA SpiInvNext == ASSUME SpiInv, [SpiNext]_spiVars PROVE SpiInv'
<1>1. CASE UNCHANGED spiVars
  BY <1>1 DEF spiVars, SpiInv, SpiTypeOK, MasterWorks, SlaveKeepsUp, RestIsOwn, Swapped, SlaveSeen
<1> QED
  BY <1>1, MasterSends, SlaveSends, SlaveIsArmed, SwapKeeps, MasterTakes, SlaveTakes DEF SpiNext

LEMMA SpiPromises == SpiInv => SpiDelivers
<1> SUFFICES ASSUME SpiInv, spiClean PROVE SpiDelivers
  BY DEF SpiDelivers
<1>1. \A n : SlaveAnswer(spiStale, spiSlave.gave, n) = Reply(n)
  BY DEF SlaveAnswer, Reply
<1> QED
  BY <1>1 DEF SpiInv, SlaveKeepsUp, SpiDelivers

-----------------------------------------------------------------------------
(***************************************************************************)
(* The two ends of an I2C bus.                                             *)
(***************************************************************************)

I2cMessage == {<<"stop">>} \cup ({"command", "data", "sent"} \X I2cByte)

\* What the master still asks of the bus fits what the bus does.
PlanFits ==
    \/ i2cPlan = << >>
    \/ i2cPlan \in {<<"start">>, <<"start", "send", "answer">>} /\ i2cPhase \in {"idle", "WRITE", "READ", "done"}
    \/ i2cPlan \in {<<"send">>, <<"send", "answer">>} /\ i2cPhase \in {"started", "WRITE"}
    \/ i2cPlan = <<"answer">> /\ i2cPhase \in {"addressed", "sent"}
    \/ i2cPlan \in {<<"receive">>, <<"receive", "ack">>, <<"receive", "nak">>} /\ i2cPhase = "READ"
    \/ i2cPlan \in {<<"ack">>, <<"nak">>, <<"msacko">>} /\ i2cPhase = "got"
    \/ i2cPlan = <<"stop">> /\ i2cPhase \in {"started", "WRITE", "READ", "done"}

I2cTypeOK ==
    /\ i2cPhase \in {"idle", "started", "addressed", "WRITE", "sent", "READ", "got", "done"}
    /\ PlanFits
    /\ i2cOut \in I2cByte /\ i2cAckOut \in {I2C_ACK, I2C_NAK} /\ i2cAckIn \in {I2C_ACK, I2C_NAK}
    /\ i2cRxd \in I2cByte /\ i2cTxd \in Nat /\ i2cLeft \in Int /\ i2cStarted \in BOOLEAN
    /\ i2cTold \in Seq(I2cMessage) /\ i2cWas \in Seq(I2cMessage)
    /\ i2cGot \in Seq(Nat) /\ i2cAnswers \in Seq({I2C_ACK, I2C_NAK})

\* What a flag stands for is what its interrupt will tell, and a start is
\* remembered until the command that it announces was told.
FlagsTell ==
    /\ \/ i2cFlags \in {{}, {"STA"}} /\ i2cTold = i2cWas
       \/ i2cFlags = {"RX"} /\ i2cWas = Append(i2cTold, Incoming)
       \/ i2cFlags = {"TX"} /\ i2cWas = Append(i2cTold, <<"sent", i2cAckIn>>)
       \/ i2cFlags \in {{"STO"}, {"STO", "STA"}} /\ i2cWas = Append(i2cTold, <<"stop">>)
    /\ IF i2cPhase \in {"started", "addressed"} THEN i2cFlags \in {{}, {"STA"}, {"STO", "STA"}} /\ ("STA" \in i2cFlags \/ i2cStarted)
       ELSE "STA" \notin i2cFlags /\ (i2cStarted => i2cFlags \in {{"RX"}, {"STO"}})

\* The next byte is there before it is read: greater than those read before.
NextIsThere ==
    /\ ReadOrder /\ \A n \in 1 .. Len(i2cGot) : i2cGot[n] <= i2cTxd
    /\ i2cPhase = "READ" =>
          \/ i2cFlags = {} /\ \A n \in 1 .. Len(i2cGot) : i2cGot[n] < i2cTxd
          \/ i2cFlags = {"RX"} /\ i2cStarted /\ i2cRxd = I2C_READ
          \/ i2cFlags = {"TX"} /\ i2cAckIn = I2C_ACK

\* In a write, the application has room for what was not taken, and the answer to
\* the byte to come is ready once it was told of the last one.
RoomIsKnown ==
    /\ \A n \in 1 .. Len(i2cAnswers) : i2cAnswers[n] = I2C_NAK <=> n > I2cRoom
    /\ i2cPhase \in {"started", "addressed"} => i2cAnswers = << >>
    /\ i2cPhase \in {"WRITE", "sent"} =>
          /\ Len(i2cAnswers) <= I2cRoom
          /\ \/ i2cFlags = {} /\ i2cLeft = I2cRoom - Len(i2cAnswers) /\ i2cSlackO = SlackFor(i2cLeft)
             \/ i2cFlags = {"RX"} /\ IF i2cStarted THEN i2cAnswers = << >> ELSE i2cLeft - 1 = I2cRoom - Len(i2cAnswers)

I2cInv == i2cClean => I2cTypeOK /\ FlagsTell /\ NextIsThere /\ RoomIsKnown

LEMMA I2cConstants ==
    /\ I2C_ACK = 0 /\ I2C_NAK = 1 /\ I2C_WRITE = 0 /\ I2C_READ = 1 /\ I2cByte = {0, 1}
    /\ I2cRoom \in Nat
  BY I2cAssumption DEF I2C_ACK, I2C_NAK, I2C_WRITE, I2C_READ, I2cByte

LEMMA MessageType ==
    /\ <<"stop">> \in I2cMessage
    /\ \A kind \in {"command", "data", "sent"}, byte \in I2cByte : <<kind, byte>> \in I2cMessage
  BY DEF I2cMessage

LEMMA AddedLast ==
    ASSUME NEW S, NEW s \in Seq(S), NEW e \in S
    PROVE  LET t == Append(s, e)
           IN  /\ t \in Seq(S) /\ Len(t) = Len(s) + 1 /\ t[Len(s) + 1] = e /\ t = s \o <<e>>
               /\ \A k \in 1 .. Len(s) : t[k] = s[k]
  OBVIOUS

LEMMA OneThenOne == ASSUME NEW a, NEW b PROVE <<a>> \o <<b>> = <<a, b>>
<1> DEFINE S == {a, b}
<1>1. <<a>> \in Seq(S) /\ <<b>> \in Seq(S) /\ <<a, b>> \in Seq(S) /\ Len(<<a>>) = 1 /\ Len(<<b>>) = 1 /\ Len(<<a, b>>) = 2
  OBVIOUS
<1>2. <<a>> \o <<b>> \in Seq(S) /\ Len(<<a>> \o <<b>>) = 2 /\ (<<a>> \o <<b>>)[1] = a /\ (<<a>> \o <<b>>)[2] = b
  BY <1>1, ConcatPlaces
<1>3. <<a, b>>[1] = a /\ <<a, b>>[2] = b
  OBVIOUS
<1> HIDE DEF S
<1>4. \A i \in 1 .. Len(<<a, b>>) : (<<a>> \o <<b>>)[i] = <<a, b>>[i]
  BY <1>1, <1>2, <1>3
<1> QED
  BY <1>1, <1>2, <1>4, SameSeq

LEMMA TwoThenOne == ASSUME NEW a, NEW b, NEW c PROVE <<a, b>> \o <<c>> = <<a, b, c>>
<1> DEFINE S == {a, b, c}
<1>1. /\ <<a, b>> \in Seq(S) /\ <<c>> \in Seq(S) /\ <<a, b, c>> \in Seq(S)
      /\ Len(<<a, b>>) = 2 /\ Len(<<c>>) = 1 /\ Len(<<a, b, c>>) = 3
  OBVIOUS
<1>2. /\ <<a, b>>[1] = a /\ <<a, b>>[2] = b
      /\ <<a, b, c>>[1] = a /\ <<a, b, c>>[2] = b /\ <<a, b, c>>[3] = c
  OBVIOUS
<1>3. /\ <<a, b>> \o <<c>> \in Seq(S) /\ Len(<<a, b>> \o <<c>>) = 3
      /\ (<<a, b>> \o <<c>>)[1] = a /\ (<<a, b>> \o <<c>>)[2] = b /\ (<<a, b>> \o <<c>>)[3] = c
  BY <1>1, <1>2, ConcatPlaces
<1> HIDE DEF S
<1>4. \A i \in 1 .. Len(<<a, b, c>>) : (<<a, b>> \o <<c>>)[i] = <<a, b, c>>[i]
  BY <1>1, <1>2, <1>3
<1> QED
  BY <1>1, <1>3, <1>4, SameSeq

\* The commands, spelt out
LEMMA Commands ==
    /\ StartSendDataReceiveAck = <<"start", "send", "answer">> /\ SendDataReceiveAck = <<"send", "answer">>
    /\ \A nak \in {I2C_ACK, I2C_NAK} : ReceiveDataSendAck(nak) \in {<<"receive", "ack">>, <<"receive", "nak">>}
<1>1. StartSendDataReceiveAck = <<"start", "send", "answer">> /\ SendDataReceiveAck = <<"send", "answer">>
  <2>1. <<"start">> \o <<"send">> = <<"start", "send">> /\ <<"send">> \o <<"answer">> = <<"send", "answer">>
    BY OneThenOne, Zenon
  <2>2. <<"start", "send">> \o <<"answer">> = <<"start", "send", "answer">>
    BY TwoThenOne, Zenon
  <2>3. StartSendDataReceiveAck = (<<"start">> \o <<"send">>) \o <<"answer">>
    BY Zenon DEF StartSendDataReceiveAck, Start, SendData, ReceiveAck
  <2>4. SendDataReceiveAck = <<"send">> \o <<"answer">>
    BY Zenon DEF SendDataReceiveAck, SendData, ReceiveAck
  <2> QED
    BY <2>1, <2>2, <2>3, <2>4, Zenon
<1>2. ASSUME NEW nak \in {I2C_ACK, I2C_NAK} PROVE ReceiveDataSendAck(nak) \in {<<"receive", "ack">>, <<"receive", "nak">>}
  <2>1. CASE nak = I2C_NAK
    BY <2>1, OneThenOne DEF ReceiveDataSendAck, ReceiveData, SendAck
  <2>2. CASE nak # I2C_NAK
    BY <2>2, OneThenOne DEF ReceiveDataSendAck, ReceiveData, SendAck
  <2> QED
    BY <2>1, <2>2
<1> QED
  BY <1>1, <1>2

\* What is left of a command when the bus has done the first thing of it
LEMMA PlanStep ==
    ASSUME PlanFits, NEW what, Does(what)
    PROVE  \/ what = "start" /\ i2cPhase \in {"idle", "WRITE", "READ", "done"} /\ i2cPlan' \in {<< >>, <<"send", "answer">>}
           \/ what = "send" /\ i2cPhase \in {"started", "WRITE"} /\ i2cPlan' \in {<< >>, <<"answer">>}
           \/ what = "answer" /\ i2cPhase \in {"addressed", "sent"} /\ i2cPlan' = << >>
           \/ what = "receive" /\ i2cPhase = "READ" /\ i2cPlan' \in {<< >>, <<"ack">>, <<"nak">>}
           \/ what \in {"ack", "nak", "msacko"} /\ i2cPhase = "got" /\ i2cPlan' = << >>
           \/ what = "stop" /\ i2cPhase \in {"started", "WRITE", "READ", "done"} /\ i2cPlan' = << >>
<1>1. i2cPlan # << >> /\ what = Head(i2cPlan) /\ i2cPlan' = Tail(i2cPlan)
  BY DEF Does
<1>2. \A a : Head(<<a>>) = a /\ Tail(<<a>>) = << >>
  OBVIOUS
<1>3. \A a, b : Head(<<a, b>>) = a /\ Tail(<<a, b>>) = <<b>>
  OBVIOUS
<1>4. \A a, b, c : Head(<<a, b, c>>) = a /\ Tail(<<a, b, c>>) = <<b, c>>
  OBVIOUS
<1>5. CASE i2cPlan = <<"start">>
  BY <1>1, <1>2, <1>5 DEF PlanFits
<1>6. CASE i2cPlan = <<"start", "send", "answer">>
  BY <1>1, <1>4, <1>6 DEF PlanFits
<1>7. CASE i2cPlan = <<"send">>
  BY <1>1, <1>2, <1>7 DEF PlanFits
<1>8. CASE i2cPlan = <<"send", "answer">>
  BY <1>1, <1>3, <1>8 DEF PlanFits
<1>9. CASE i2cPlan = <<"answer">>
  BY <1>1, <1>2, <1>9 DEF PlanFits
<1>10. CASE i2cPlan = <<"receive">>
  BY <1>1, <1>2, <1>10 DEF PlanFits
<1>11. CASE i2cPlan = <<"receive", "ack">>
  BY <1>1, <1>3, <1>11 DEF PlanFits
<1>12. CASE i2cPlan = <<"receive", "nak">>
  BY <1>1, <1>3, <1>12 DEF PlanFits
<1>13. CASE i2cPlan \in {<<"ack">>, <<"nak">>, <<"msacko">>}
  BY <1>1, <1>2, <1>13 DEF PlanFits
<1>14. CASE i2cPlan = <<"stop">>
  BY <1>1, <1>2, <1>14 DEF PlanFits
<1> QED
  BY <1>1, <1>5, <1>6, <1>7, <1>8, <1>9, <1>10, <1>11, <1>12, <1>13, <1>14 DEF PlanFits

\* A call of the master leaves all but its own registers alone.
LEMMA CallKeeps ==
    ASSUME I2cInv, i2cClean, PlanFits', i2cOut' \in I2cByte, i2cAckOut' \in {I2C_ACK, I2C_NAK},
           UNCHANGED <<i2cPhase, i2cFlags, i2cRxd, i2cAckIn, appVars, i2cWas, i2cGot, i2cAnswers, i2cClean>>
    PROVE  I2cInv'
  BY DEF I2cInv, I2cTypeOK, FlagsTell, NextIsThere, ReadOrder, RoomIsKnown, Incoming, appVars

LEMMA MasterCalls ==
    ASSUME I2cInv,
           i2cStart \/ i2cStop \/ i2cSendAck \/ i2cSendData \/ i2cReceiveAck \/ i2cReceiveData
           \/ i2cStartCommand \/ i2cSendByte \/ i2cReadByteSendAck
    PROVE  I2cInv'
<1>1. i2cClean
  BY DEF i2cStart, i2cStop, i2cSendAck, i2cSendData, i2cReceiveAck, i2cReceiveData, i2cStartCommand, i2cSendByte,
         i2cReadByteSendAck, Asks
<1>2. UNCHANGED <<i2cPhase, i2cFlags, i2cRxd, i2cAckIn, appVars, i2cWas, i2cGot, i2cAnswers, i2cClean>>
  BY DEF i2cStart, i2cStop, i2cSendAck, i2cSendData, i2cReceiveAck, i2cReceiveData, i2cStartCommand, i2cSendByte,
         i2cReadByteSendAck, Asks
<1>3. i2cOut \in I2cByte /\ i2cAckOut \in {I2C_ACK, I2C_NAK}
  BY <1>1 DEF I2cInv, I2cTypeOK
<1>4. i2cOut' \in I2cByte /\ i2cAckOut' \in {I2C_ACK, I2C_NAK}
  BY <1>3, I2cConstants
  DEF i2cStart, i2cStop, i2cSendAck, i2cSendData, i2cReceiveAck, i2cReceiveData, i2cStartCommand, i2cSendByte,
      i2cReadByteSendAck
<1>5. PlanFits'
  BY <1>2, Commands
  DEF i2cStart, i2cStop, i2cSendAck, i2cSendData, i2cReceiveAck, i2cReceiveData, i2cStartCommand, i2cSendByte,
      i2cReadByteSendAck, Asks, Restartable, PlanFits, Start, Stop, SendData, ReceiveAck, ReceiveData
<1> QED
  BY <1>1, <1>2, <1>4, <1>5, CallKeeps

LEMMA I2cInvInit == I2cInit => I2cInv
<1> SUFFICES ASSUME I2cInit PROVE I2cInv
  OBVIOUS
<1>1. << >> \in Seq(I2cMessage) /\ << >> \in Seq(Nat) /\ << >> \in Seq({I2C_ACK, I2C_NAK}) /\ Len(<< >>) = 0
  OBVIOUS
<1>2. PlanFits
  BY DEF I2cInit, PlanFits
<1>3. I2cTypeOK
  <2>1. 0 \in I2cByte /\ I2C_ACK \in {I2C_ACK, I2C_NAK} /\ 0 \in {I2C_ACK, I2C_NAK} /\ 0 \in Nat /\ I2cRoom \in Int
    BY I2cConstants
  <2>2. /\ i2cPhase = "idle" /\ i2cOut = 0 /\ i2cAckOut = I2C_ACK /\ i2cAckIn = 0 /\ i2cRxd = 0 /\ i2cTxd = 0
        /\ i2cLeft = I2cRoom /\ i2cStarted = FALSE /\ i2cTold = << >> /\ i2cWas = << >> /\ i2cGot = << >> /\ i2cAnswers = << >>
    BY DEF I2cInit
  <2> QED
    BY <1>1, <1>2, <2>1, <2>2, Zenon DEF I2cTypeOK
<1> QED
  BY <1>1, <1>3, I2cConstants DEF I2cInit, I2cInv, FlagsTell, NextIsThere, ReadOrder, RoomIsKnown

LEMMA BusStarts == ASSUME I2cInv, BusStart PROVE I2cInv'
<1> SUFFICES ASSUME i2cClean' PROVE I2cInv'
  BY DEF I2cInv
<1>1. /\ Does("start") /\ i2cPhase' = "started" /\ i2cAnswers' = << >> /\ i2cFlags' = i2cFlags \cup {"STA"}
      /\ i2cWas' = i2cWas \o << >> /\ UNCHANGED <<i2cRxd, i2cAckIn, i2cGot, appVars, i2cOut, i2cAckOut>>
      /\ i2cClean /\ i2cFlags \in {{}, {"STO"}}
  BY DEF BusStart, Event, Does
<1>2. I2cTypeOK /\ FlagsTell /\ NextIsThere
  BY <1>1 DEF I2cInv
<1>3. i2cWas' = i2cWas
  BY <1>1, <1>2 DEF I2cTypeOK
<1>4. i2cPlan' \in {<< >>, <<"send", "answer">>}
  BY <1>1, <1>2, PlanStep DEF I2cTypeOK
<1>5. PlanFits'
  BY <1>1, <1>4 DEF PlanFits
<1>6. << >> \in Seq({I2C_ACK, I2C_NAK}) /\ Len(<< >>) = 0
  OBVIOUS
<1>7. I2cTypeOK'
  BY <1>1, <1>2, <1>3, <1>5, <1>6 DEF I2cTypeOK, appVars
<1>8. FlagsTell'
  <2>1. i2cFlags' \in {{"STA"}, {"STO", "STA"}}
    BY <1>1
  <2>2. i2cFlags = {} => i2cTold' = i2cWas'
    BY <1>1, <1>2, <1>3 DEF FlagsTell, appVars
  <2>3. i2cFlags = {"STO"} => i2cWas' = Append(i2cTold', <<"stop">>)
    BY <1>1, <1>2, <1>3 DEF FlagsTell, appVars
  <2> QED
    BY <1>1, <2>1, <2>2, <2>3 DEF FlagsTell
<1>9. NextIsThere'
  BY <1>1, <1>2 DEF NextIsThere, ReadOrder, appVars
<1>10. RoomIsKnown'
  BY <1>1, <1>6 DEF RoomIsKnown
<1> QED
  BY <1>7, <1>8, <1>9, <1>10 DEF I2cInv

LEMMA BusSends == ASSUME I2cInv, BusSend PROVE I2cInv'
<1> SUFFICES ASSUME i2cClean' PROVE I2cInv'
  BY DEF I2cInv
<1>1. /\ Does("send") /\ i2cPhase' = (IF i2cPhase = "started" THEN "addressed" ELSE "sent")
      /\ UNCHANGED <<i2cFlags, i2cRxd, i2cAckIn, appVars, i2cWas, i2cGot, i2cAnswers, i2cClean, i2cOut, i2cAckOut>>
  BY DEF BusSend, Does
<1>2. I2cTypeOK /\ FlagsTell /\ NextIsThere /\ RoomIsKnown
  BY <1>1 DEF I2cInv
<1>3. i2cPhase \in {"started", "WRITE"} /\ i2cPlan' \in {<< >>, <<"answer">>}
  BY <1>1, <1>2, PlanStep DEF I2cTypeOK
<1>4. PlanFits'
  BY <1>1, <1>3 DEF PlanFits
<1>5. I2cTypeOK'
  BY <1>1, <1>2, <1>4 DEF I2cTypeOK, appVars
<1>6. FlagsTell'
  BY <1>1, <1>2, <1>3 DEF FlagsTell, Incoming, appVars
<1>7. NextIsThere'
  BY <1>1, <1>2, <1>3 DEF NextIsThere, ReadOrder, appVars
<1>8. RoomIsKnown'
  BY <1>1, <1>2, <1>3 DEF RoomIsKnown, appVars
<1> QED
  BY <1>5, <1>6, <1>7, <1>8 DEF I2cInv

\* An event that leaves a behaviour clean found no other flagged.
LEMMA EventAlone ==
    ASSUME NEW flag \in {"RX", "TX", "STO"}, NEW happened \in I2cMessage, Event(flag, <<happened>>), i2cClean', I2cTypeOK, FlagsTell
    PROVE  /\ i2cClean /\ i2cFlags = {} /\ i2cFlags' = {flag} /\ UNCHANGED appVars
           /\ i2cWas' = Append(i2cTold, happened) /\ i2cWas' \in Seq(I2cMessage)
<1>1. i2cClean /\ i2cFlags = {} /\ i2cFlags' = {flag} /\ UNCHANGED appVars
  BY DEF Event
<1>2. i2cTold = i2cWas /\ i2cWas \in Seq(I2cMessage) /\ i2cWas' = i2cWas \o <<happened>>
  BY <1>1 DEF FlagsTell, Event, I2cTypeOK
<1>3. i2cWas' = Append(i2cWas, happened) /\ Append(i2cWas, happened) \in Seq(I2cMessage)
  BY <1>2, AddedLast
<1> QED
  BY <1>1, <1>2, <1>3

LEMMA BusAnswers == ASSUME I2cInv, BusAnswer PROVE I2cInv'
<1> SUFFICES ASSUME i2cClean' PROVE I2cInv'
  BY DEF I2cInv
<1>1. Does("answer") /\ i2cRxd' = i2cOut /\ UNCHANGED <<i2cAckIn, i2cGot, i2cOut, i2cAckOut>> /\ i2cClean
  BY DEF BusAnswer, Event, Does
<1>2. I2cTypeOK /\ FlagsTell /\ NextIsThere /\ RoomIsKnown
  BY <1>1 DEF I2cInv
<1>3. i2cPhase \in {"addressed", "sent"} /\ i2cPlan' = << >>
  BY <1>1, <1>2, PlanStep DEF I2cTypeOK
<1>4. i2cOut \in I2cByte /\ <<"command", i2cOut>> \in I2cMessage /\ <<"data", i2cOut>> \in I2cMessage
  BY <1>2, MessageType DEF I2cTypeOK
<1>5. PlanFits'
  BY <1>3 DEF PlanFits
<1>6. CASE i2cPhase = "addressed"
  <2>1. i2cPhase' = (IF i2cOut = I2C_READ THEN "READ" ELSE "WRITE") /\ Event("RX", << <<"command", i2cOut>> >>) /\ i2cAnswers' = i2cAnswers
    BY <1>6 DEF BusAnswer
  <2>2. /\ i2cFlags = {} /\ i2cFlags' = {"RX"} /\ UNCHANGED appVars
        /\ i2cWas' = Append(i2cTold, <<"command", i2cOut>>) /\ i2cWas' \in Seq(I2cMessage)
    BY <1>2, <1>4, <2>1, EventAlone
  <2>3. i2cStarted /\ i2cStarted' /\ i2cAnswers = << >> /\ Len(<< >>) = 0
    BY <1>2, <1>6, <2>2 DEF FlagsTell, RoomIsKnown, appVars
  <2>4. I2cTypeOK'
    BY <1>1, <1>2, <1>5, <2>1, <2>2 DEF I2cTypeOK, appVars
  <2>5. Incoming' = <<"command", i2cOut>> /\ i2cTold' = i2cTold
    BY <1>1, <2>2, <2>3 DEF Incoming, appVars
  <2>6. FlagsTell'
    BY <2>1, <2>2, <2>5 DEF FlagsTell
  <2>7. NextIsThere'
    BY <1>1, <1>2, <2>1, <2>2, <2>3 DEF NextIsThere, ReadOrder, appVars
  <2>8. RoomIsKnown'
    BY <1>2, <2>1, <2>2, <2>3, I2cConstants DEF RoomIsKnown
  <2> QED
    BY <2>4, <2>6, <2>7, <2>8 DEF I2cInv
<1>7. CASE i2cPhase = "sent"
  <2>1. /\ i2cPhase' = (IF i2cSlackO = I2C_NAK THEN "done" ELSE "WRITE") /\ Event("RX", << <<"data", i2cOut>> >>)
        /\ i2cAnswers' = Append(i2cAnswers, i2cSlackO)
    BY <1>7 DEF BusAnswer
  <2>2. /\ i2cFlags = {} /\ i2cFlags' = {"RX"} /\ UNCHANGED appVars
        /\ i2cWas' = Append(i2cTold, <<"data", i2cOut>>) /\ i2cWas' \in Seq(I2cMessage)
    BY <1>2, <1>4, <2>1, EventAlone
  <2>3. ~i2cStarted /\ ~i2cStarted'
    BY <1>2, <1>7, <2>2 DEF FlagsTell, appVars
  <2>4. i2cLeft = I2cRoom - Len(i2cAnswers) /\ i2cSlackO = SlackFor(i2cLeft) /\ Len(i2cAnswers) <= I2cRoom
    BY <1>2, <1>7, <2>2 DEF RoomIsKnown
  <2>5. i2cSlackO \in {I2C_ACK, I2C_NAK} /\ (i2cSlackO = I2C_NAK <=> i2cLeft < 1)
    BY <2>4, I2cConstants DEF SlackFor
  <2>6. /\ i2cAnswers' \in Seq({I2C_ACK, I2C_NAK}) /\ Len(i2cAnswers') = Len(i2cAnswers) + 1
        /\ i2cAnswers'[Len(i2cAnswers) + 1] = i2cSlackO /\ \A k \in 1 .. Len(i2cAnswers) : i2cAnswers'[k] = i2cAnswers[k]
    BY <1>2, <2>1, <2>5, AddedLast DEF I2cTypeOK
  <2>7. I2cTypeOK'
    BY <1>1, <1>2, <1>5, <2>1, <2>2, <2>6 DEF I2cTypeOK, appVars
  <2>8. Incoming' = <<"data", i2cOut>> /\ i2cTold' = i2cTold
    BY <1>1, <2>2, <2>3 DEF Incoming, appVars
  <2>9. FlagsTell'
    BY <2>1, <2>2, <2>8 DEF FlagsTell
  <2>10. NextIsThere'
    BY <1>1, <1>2, <2>1, <2>2 DEF NextIsThere, ReadOrder, appVars
  <2>11. RoomIsKnown'
    <3>1. PICK d \in Nat : d = Len(i2cAnswers)
      BY <1>2 DEF I2cTypeOK
    <3>2. i2cLeft \in Int /\ i2cLeft' = i2cLeft /\ i2cLeft = I2cRoom - d /\ Len(i2cAnswers') = d + 1
      BY <1>2, <2>2, <2>4, <2>6, <3>1 DEF I2cTypeOK, appVars
    <3>3. \A n \in 1 .. Len(i2cAnswers') : i2cAnswers'[n] = I2C_NAK <=> n > I2cRoom
      BY <1>2, <2>5, <2>6, <3>1, <3>2, I2cConstants DEF RoomIsKnown
    <3>4. i2cPhase' = "WRITE" => Len(i2cAnswers') <= I2cRoom /\ i2cLeft' - 1 = I2cRoom - Len(i2cAnswers')
      BY <2>1, <2>5, <3>2, I2cConstants
    <3> QED
      BY <2>1, <2>2, <2>3, <3>3, <3>4 DEF RoomIsKnown
  <2> QED
    BY <2>7, <2>9, <2>10, <2>11 DEF I2cInv
<1> QED
  BY <1>3, <1>6, <1>7

LEMMA BusReceives == ASSUME I2cInv, BusReceive PROVE I2cInv'
<1> SUFFICES ASSUME i2cClean' PROVE I2cInv'
  BY DEF I2cInv
<1>1. /\ Does("receive") /\ i2cPhase' = "got" /\ i2cGot' = Append(i2cGot, i2cTxd) /\ i2cClean /\ i2cFlags = {}
      /\ UNCHANGED <<i2cFlags, i2cRxd, i2cAckIn, appVars, i2cWas, i2cAnswers, i2cOut, i2cAckOut>>
  BY DEF BusReceive, Does
<1>2. I2cTypeOK /\ FlagsTell /\ NextIsThere /\ RoomIsKnown
  BY <1>1 DEF I2cInv
<1>3. i2cPhase = "READ" /\ i2cPlan' \in {<< >>, <<"ack">>, <<"nak">>}
  BY <1>1, <1>2, PlanStep DEF I2cTypeOK
<1>4. PlanFits'
  BY <1>1, <1>3 DEF PlanFits
<1>5. /\ i2cGot' \in Seq(Nat) /\ Len(i2cGot') = Len(i2cGot) + 1 /\ i2cGot'[Len(i2cGot) + 1] = i2cTxd
      /\ \A k \in 1 .. Len(i2cGot) : i2cGot'[k] = i2cGot[k]
  BY <1>1, <1>2, AddedLast DEF I2cTypeOK
<1>6. \A n \in 1 .. Len(i2cGot) : i2cGot[n] < i2cTxd
  BY <1>1, <1>2, <1>3 DEF NextIsThere
<1>7. I2cTypeOK'
  BY <1>1, <1>2, <1>4, <1>5 DEF I2cTypeOK, appVars
<1>8. FlagsTell'
  BY <1>1, <1>2, <1>3 DEF FlagsTell, Incoming, appVars
<1>9. NextIsThere'
  <2>1. PICK d \in Nat : d = Len(i2cGot)
    BY <1>2 DEF I2cTypeOK
  <2>2. \A n \in 1 .. d : i2cGot[n] \in Nat /\ i2cGot'[n] = i2cGot[n] /\ i2cGot[n] < i2cTxd
    BY <1>2, <1>5, <1>6, <2>1 DEF I2cTypeOK
  <2>3. i2cTxd \in Nat /\ i2cTxd' = i2cTxd /\ Len(i2cGot') = d + 1 /\ i2cGot'[d + 1] = i2cTxd
    BY <1>1, <1>2, <1>5, <2>1 DEF I2cTypeOK, appVars
  <2>4. ReadOrder'
    <3> SUFFICES ASSUME NEW n \in 2 .. d + 1 PROVE i2cGot'[n] > i2cGot'[n - 1]
      BY <2>3 DEF ReadOrder
    <3>1. CASE n = d + 1
      BY <2>1, <2>2, <2>3, <3>1
    <3>2. CASE n # d + 1
      <4>1. n \in 2 .. Len(i2cGot) /\ n \in 1 .. d /\ n - 1 \in 1 .. d
        BY <2>1, <3>2
      <4> QED
        BY <1>2, <2>2, <4>1 DEF NextIsThere, ReadOrder
    <3> QED
      BY <3>1, <3>2
  <2>5. \A n \in 1 .. Len(i2cGot') : i2cGot'[n] <= i2cTxd'
    BY <2>1, <2>2, <2>3
  <2> QED
    BY <1>1, <2>4, <2>5 DEF NextIsThere
<1>10. RoomIsKnown'
  BY <1>1, <1>2 DEF RoomIsKnown
<1> QED
  BY <1>7, <1>8, <1>9, <1>10 DEF I2cInv

LEMMA BusAcknowledges == ASSUME I2cInv, BusAcknowledge PROVE I2cInv'
<1> SUFFICES ASSUME i2cClean' PROVE I2cInv'
  BY DEF I2cInv
<1>1. PICK how \in {"ack", "nak", "msacko"} :
        /\ Does(how)
        /\ i2cAckIn' = CASE how = "ack" -> I2C_ACK [] how = "nak" -> I2C_NAK [] OTHER -> i2cAckOut
        /\ i2cPhase' = IF i2cAckIn' = I2C_NAK THEN "done" ELSE "READ"
        /\ Event("TX", << <<"sent", i2cAckIn'>> >>)
        /\ UNCHANGED <<i2cRxd, i2cGot, i2cAnswers>>
  BY DEF BusAcknowledge
<1>2. i2cClean /\ UNCHANGED <<i2cOut, i2cAckOut>>
  BY <1>1 DEF Event, Does
<1>3. I2cTypeOK /\ FlagsTell /\ NextIsThere /\ RoomIsKnown
  BY <1>2 DEF I2cInv
<1>4. i2cPhase = "got" /\ i2cPlan' = << >>
  BY <1>1, <1>3, PlanStep DEF I2cTypeOK
<1>5. PlanFits'
  BY <1>4 DEF PlanFits
<1>6. i2cAckIn' \in {I2C_ACK, I2C_NAK} /\ <<"sent", i2cAckIn'>> \in I2cMessage
  <2>1. i2cAckIn' \in {I2C_ACK, I2C_NAK}
    BY <1>1, <1>3 DEF I2cTypeOK
  <2> QED
    BY <2>1, I2cConstants, MessageType
<1>7. /\ i2cFlags = {} /\ i2cFlags' = {"TX"} /\ UNCHANGED appVars
      /\ i2cWas' = Append(i2cTold, <<"sent", i2cAckIn'>>) /\ i2cWas' \in Seq(I2cMessage)
  <2>1. PICK ack : ack = i2cAckIn'
    OBVIOUS
  <2>2. Event("TX", << <<"sent", ack>> >>) /\ <<"sent", ack>> \in I2cMessage
    BY <1>1, <1>6, <2>1
  <2> QED
    BY <1>3, <2>1, <2>2, EventAlone
<1>8. I2cTypeOK'
  BY <1>1, <1>2, <1>3, <1>5, <1>6, <1>7 DEF I2cTypeOK, appVars
<1>9. ~i2cStarted /\ ~i2cStarted' /\ i2cTold' = i2cTold
  BY <1>3, <1>4, <1>7 DEF FlagsTell, appVars
<1>10. FlagsTell'
  BY <1>1, <1>7, <1>9 DEF FlagsTell
<1>11. NextIsThere'
  BY <1>1, <1>3, <1>6, <1>7, I2cConstants DEF NextIsThere, ReadOrder, appVars
<1>12. RoomIsKnown'
  BY <1>1, <1>3 DEF RoomIsKnown
<1> QED
  BY <1>8, <1>10, <1>11, <1>12 DEF I2cInv

LEMMA BusStops == ASSUME I2cInv, BusStop PROVE I2cInv'
<1> SUFFICES ASSUME i2cClean' PROVE I2cInv'
  BY DEF I2cInv
<1>1. /\ Does("stop") /\ i2cPhase' = "idle" /\ i2cAnswers' = << >> /\ Event("STO", << <<"stop">> >>)
      /\ UNCHANGED <<i2cRxd, i2cAckIn, i2cGot, i2cOut, i2cAckOut>> /\ i2cClean
  BY DEF BusStop, Event, Does
<1>2. I2cTypeOK /\ FlagsTell /\ NextIsThere /\ RoomIsKnown
  BY <1>1 DEF I2cInv
<1>3. i2cPlan' = << >>
  BY <1>1, <1>2, PlanStep DEF I2cTypeOK
<1>4. PlanFits'
  BY <1>3 DEF PlanFits
<1>5. << >> \in Seq({I2C_ACK, I2C_NAK}) /\ Len(<< >>) = 0
  OBVIOUS
<1>6. /\ i2cFlags' = {"STO"} /\ UNCHANGED appVars
      /\ i2cWas' = Append(i2cTold, <<"stop">>) /\ i2cWas' \in Seq(I2cMessage)
  BY <1>1, <1>2, EventAlone, MessageType
<1>7. I2cTypeOK'
  BY <1>1, <1>2, <1>4, <1>5, <1>6 DEF I2cTypeOK, appVars
<1>8. FlagsTell'
  BY <1>1, <1>6 DEF FlagsTell, appVars
<1>9. NextIsThere'
  BY <1>1, <1>2, <1>6 DEF NextIsThere, ReadOrder, appVars
<1>10. RoomIsKnown'
  BY <1>1, <1>5 DEF RoomIsKnown
<1> QED
  BY <1>7, <1>8, <1>9, <1>10 DEF I2cInv

\* What the slave's interrupt does of the flag it takes
HandlerTakes(flag, told) ==
    /\ i2cFlags' = i2cFlags \ {flag}
    /\ i2cTold' = i2cTold \o told
    /\ i2cStarted' = StillStarted(flag)
    /\ i2cTxd' = IF told \in {<< <<"command", I2C_READ>> >>, << <<"sent", 0>> >>} THEN i2cTxd + 1 ELSE i2cTxd
    /\ i2cLeft' = IF told = << >> THEN i2cLeft ELSE RoomAfter(told[1])

LEMMA IsrTakes ==
    ASSUME I2cIsr, FlagsTell
    PROVE  /\ UNCHANGED <<i2cPhase, masterVars, i2cRxd, i2cAckIn, i2cWas, i2cGot, i2cAnswers, i2cClean>>
           /\ i2cSlackO' = SlackFor(i2cLeft')
           /\ \/ i2cFlags = {"STA"} /\ HandlerTakes("STA", << >>)
              \/ i2cFlags = {"RX"} /\ HandlerTakes("RX", << Incoming >>)
              \/ i2cFlags = {"TX"} /\ HandlerTakes("TX", << <<"sent", i2cAckIn>> >>)
              \/ i2cFlags \in {{"STO"}, {"STO", "STA"}} /\ HandlerTakes("STO", << <<"stop">> >>)
<1>1. i2cFlags \in {{"STA"}, {"RX"}, {"TX"}, {"STO"}, {"STO", "STA"}}
  BY DEF I2cIsr, FlagsTell
<1>2. UNCHANGED <<i2cPhase, masterVars, i2cRxd, i2cAckIn, i2cWas, i2cGot, i2cAnswers, i2cClean>> /\ i2cSlackO' = SlackFor(i2cLeft')
  BY DEF I2cIsr
<1> DEFINE flag == CASE "STO" \in i2cFlags -> "STO"
                     [] "TX" \in i2cFlags /\ "STO" \notin i2cFlags -> "TX"
                     [] "RX" \in i2cFlags /\ i2cFlags \cap {"STO", "TX"} = {} -> "RX"
                     [] i2cFlags = {"STA"} -> "STA"
<1> DEFINE told == CASE flag = "STO" -> << <<"stop">> >>
                     [] flag = "TX"  -> << <<"sent", i2cAckIn>> >>
                     [] flag = "RX"  -> << Incoming >>
                     [] flag = "STA" -> << >>
<1>3. HandlerTakes(flag, told)
  BY Zenon DEF I2cIsr, HandlerTakes
<1>4. CASE i2cFlags = {"STA"}
  <2>1. flag = "STA"
    BY <1>4
  <2>2. told = << >>
    BY <2>1
  <2> QED
    BY <1>2, <1>3, <1>4, <2>1, <2>2, Zenon
<1>5. CASE i2cFlags = {"RX"}
  <2>1. flag = "RX"
    BY <1>5
  <2>2. told = << Incoming >>
    BY <2>1
  <2> QED
    BY <1>2, <1>3, <1>5, <2>1, <2>2, Zenon
<1>6. CASE i2cFlags = {"TX"}
  <2>1. flag = "TX"
    BY <1>6
  <2>2. told = << <<"sent", i2cAckIn>> >>
    BY <2>1
  <2> QED
    BY <1>2, <1>3, <1>6, <2>1, <2>2, Zenon
<1>7. CASE i2cFlags \in {{"STO"}, {"STO", "STA"}}
  <2>1. flag = "STO"
    BY <1>7
  <2>2. told = << <<"stop">> >>
    BY <2>1
  <2> QED
    BY <1>2, <1>3, <1>7, <2>1, <2>2, Zenon
<1> QED
  BY <1>1, <1>4, <1>5, <1>6, <1>7

LEMMA BusStarted ==
    ASSUME NEW flag, NEW told, HandlerTakes(flag, told)
    PROVE  i2cStarted' \in BOOLEAN /\ (i2cStarted' <=> flag = "STA" \/ (i2cStarted /\ flag = "TX"))
<1>1. PICK b \in BOOLEAN : b = StillStarted(flag) /\ (b <=> flag = "STA" \/ (i2cStarted /\ flag = "TX"))
  BY Zenon DEF StillStarted
<1> QED
  BY <1>1, Zenon DEF HandlerTakes

\* The interrupt leaves the bus and the master alone.
LEMMA IsrLeaves ==
    ASSUME I2cTypeOK, UNCHANGED <<i2cPhase, masterVars, i2cRxd, i2cAckIn, i2cWas, i2cGot, i2cAnswers, i2cClean>>,
           NEW flag, NEW message \in I2cMessage, HandlerTakes(flag, <<message>>) \/ HandlerTakes(flag, << >>),
           i2cTxd' \in Nat, i2cLeft' \in Int
    PROVE  I2cTypeOK'
<1>1. i2cTold' \in Seq(I2cMessage)
  <2>1. i2cTold \in Seq(I2cMessage) /\ << >> \in Seq(I2cMessage) /\ <<message>> \in Seq(I2cMessage)
    BY DEF I2cTypeOK
  <2>2. i2cTold' = i2cTold \o <<message>> \/ i2cTold' = i2cTold \o << >>
    BY DEF HandlerTakes
  <2> QED
    BY <2>1, <2>2, ConcatPlaces
<1>2. i2cStarted' \in BOOLEAN
  BY BusStarted
<1>3. PlanFits'
  BY DEF I2cTypeOK, PlanFits, masterVars
<1> QED
  BY <1>1, <1>2, <1>3 DEF I2cTypeOK, masterVars

LEMMA FlagSets ==
    /\ \A a, b : {a} = {b} => a = b
    /\ {"STA"} # {} /\ {"RX"} # {} /\ {"TX"} # {} /\ {"STO"} # {} /\ {"STO", "STA"} # {}
    /\ {"STO", "STA"} \notin {{"STA"}, {"RX"}, {"TX"}, {"STO"}}
<1>1. \A a, b : {a} = {b} => a = b
  OBVIOUS
<1>2. {"STA"} # {} /\ {"RX"} # {} /\ {"TX"} # {} /\ {"STO"} # {} /\ {"STO", "STA"} # {}
  OBVIOUS
<1>3. "STO" \in {"STO", "STA"} /\ "STA" \in {"STO", "STA"}
  OBVIOUS
<1> QED
  BY <1>1, <1>2, <1>3

LEMMA IsrTells == ASSUME I2cInv, I2cIsr PROVE I2cInv'
<1> SUFFICES ASSUME i2cClean' PROVE I2cInv'
  BY DEF I2cInv
<1>1. i2cClean
  BY DEF I2cIsr
<1>2. I2cTypeOK /\ FlagsTell /\ NextIsThere /\ RoomIsKnown
  BY <1>1 DEF I2cInv
<1>3. /\ UNCHANGED <<i2cPhase, masterVars, i2cRxd, i2cAckIn, i2cWas, i2cGot, i2cAnswers, i2cClean>>
      /\ i2cSlackO' = SlackFor(i2cLeft')
  BY <1>2, IsrTakes
<1>4. i2cTxd \in Nat /\ i2cLeft \in Int /\ i2cTold \in Seq(I2cMessage) /\ i2cTold \o << >> = i2cTold /\ << >> # <<Incoming>>
  BY <1>2 DEF I2cTypeOK
<1>5. ReadOrder' /\ \A n \in 1 .. Len(i2cAnswers') : i2cAnswers'[n] = I2C_NAK <=> n > I2cRoom
  BY <1>2, <1>3 DEF NextIsThere, ReadOrder, RoomIsKnown
<1>6. \A n \in 1 .. Len(i2cGot) : i2cGot[n] \in Nat /\ i2cGot[n] <= i2cTxd
  BY <1>2 DEF NextIsThere, I2cTypeOK
<1>7. CASE i2cFlags = {"STA"} /\ HandlerTakes("STA", << >>)
  <2>1. i2cPhase \in {"started", "addressed"} /\ i2cTold = i2cWas /\ i2cAnswers = << >> /\ Len(<< >>) = 0
    <3>1. i2cFlags = {"STA"} /\ "STA" \in i2cFlags
      BY <1>7
    <3>2. i2cPhase \in {"started", "addressed"}
      BY <1>2, <3>1 DEF FlagsTell
    <3>3. i2cTold = i2cWas
      BY <1>2, <3>1, FlagSets DEF FlagsTell
    <3>4. Len(<< >>) = 0
      OBVIOUS
    <3> QED
      BY <1>2, <3>2, <3>3, <3>4 DEF RoomIsKnown
  <2>2. i2cFlags' = {} /\ i2cTold' = i2cTold /\ i2cStarted' /\ i2cTxd' = i2cTxd /\ i2cLeft' = i2cLeft
    <3>1. << >> \notin {<< <<"command", I2C_READ>> >>, << <<"sent", 0>> >>}
      OBVIOUS
    <3> QED
      BY <1>4, <1>7, <3>1, BusStarted DEF HandlerTakes
  <2>3. I2cTypeOK'
    BY <1>2, <1>3, <1>4, <1>7, <2>2, IsrLeaves, MessageType
  <2> QED
    BY <1>3, <1>5, <1>6, <2>1, <2>2, <2>3 DEF I2cInv, FlagsTell, NextIsThere, RoomIsKnown
<1>8. CASE i2cFlags \in {{"STO"}, {"STO", "STA"}} /\ HandlerTakes("STO", << <<"stop">> >>)
  <2>1. i2cPhase \notin {"WRITE", "sent", "READ"} /\ i2cWas = Append(i2cTold, <<"stop">>)
    <3>1. i2cFlags \in {{"STO"}, {"STO", "STA"}}
      BY <1>8
    <3>2. i2cWas = Append(i2cTold, <<"stop">>)
      BY <1>2, <3>1, FlagSets DEF FlagsTell
    <3>3. i2cPhase \notin {"WRITE", "sent"}
      BY <1>2, <3>1, FlagSets DEF RoomIsKnown
    <3>4. i2cPhase # "READ"
      BY <1>2, <3>1, FlagSets DEF NextIsThere
    <3> QED
      BY <3>2, <3>3, <3>4
  <2>2. i2cFlags' = i2cFlags \ {"STO"} /\ ~i2cStarted'
    BY <1>8, BusStarted DEF HandlerTakes
  <2>3. i2cTold' = i2cWas'
    BY <1>3, <1>4, <1>8, <2>1, AddedLast, MessageType DEF HandlerTakes
  <2>4. i2cTxd' = i2cTxd /\ i2cLeft' = I2cRoom
    <3>1. << <<"stop">> >> \notin {<< <<"command", I2C_READ>> >>, << <<"sent", 0>> >>}
      OBVIOUS
    <3>2. RoomAfter(<<"stop">>) = I2cRoom /\ << <<"stop">> >>[1] = <<"stop">> /\ << <<"stop">> >> # << >>
      BY DEF RoomAfter
    <3> QED
      BY <1>8, <3>1, <3>2 DEF HandlerTakes
  <2>5. I2cTypeOK'
    <3>1. i2cTxd' \in Nat /\ i2cLeft' \in Int /\ <<"stop">> \in I2cMessage
      BY <1>4, <2>4, MessageType, I2cConstants
    <3>2. HandlerTakes("STO", << <<"stop">> >>)
      BY <1>8
    <3> QED
      BY <1>2, <1>3, <3>1, <3>2, IsrLeaves, Zenon
  <2>6. FlagsTell'
    BY <1>2, <1>3, <1>8, <2>1, <2>2, <2>3 DEF FlagsTell
  <2> QED
    BY <1>2, <1>3, <1>5, <1>6, <2>1, <2>4, <2>5, <2>6 DEF I2cInv, NextIsThere, RoomIsKnown
<1>9. CASE i2cFlags = {"TX"} /\ HandlerTakes("TX", << <<"sent", i2cAckIn>> >>)
  <2>1. /\ i2cPhase \notin {"started", "addressed", "WRITE", "sent"} /\ i2cWas = Append(i2cTold, <<"sent", i2cAckIn>>)
        /\ ~i2cStarted /\ (i2cPhase = "READ" => i2cAckIn = I2C_ACK)
    BY <1>2, <1>9 DEF FlagsTell, NextIsThere, RoomIsKnown
  <2>2. i2cFlags' = {} /\ ~i2cStarted'
    <3>1. HandlerTakes("TX", << <<"sent", i2cAckIn>> >>) /\ i2cFlags = {"TX"}
      BY <1>9
    <3>2. i2cFlags' = {}
      BY <3>1 DEF HandlerTakes
    <3>3. ~i2cStarted'
      BY <2>1, <3>1, BusStarted
    <3> QED
      BY <3>2, <3>3
  <2>3. <<"sent", i2cAckIn>> \in I2cMessage
    BY <1>2, MessageType, I2cConstants DEF I2cTypeOK
  <2>4. i2cTold' = i2cWas'
    BY <1>3, <1>4, <1>9, <2>1, <2>3, AddedLast DEF HandlerTakes
  <2>5. /\ i2cTxd' \in Nat /\ i2cTxd' >= i2cTxd /\ (i2cAckIn = I2C_ACK => i2cTxd' = i2cTxd + 1)
        /\ i2cLeft' = i2cLeft
    <3>1. i2cAckIn = I2C_ACK => << <<"sent", i2cAckIn>> >> \in {<< <<"command", I2C_READ>> >>, << <<"sent", 0>> >>}
      BY I2cConstants
    <3>2. RoomAfter(<<"sent", i2cAckIn>>) = i2cLeft /\ << <<"sent", i2cAckIn>> >>[1] = <<"sent", i2cAckIn>> /\ << <<"sent", i2cAckIn>> >> # << >>
      BY DEF RoomAfter
    <3>3. i2cTxd' = i2cTxd \/ i2cTxd' = i2cTxd + 1
      BY <1>9 DEF HandlerTakes
    <3>4. i2cAckIn = I2C_ACK => i2cTxd' = i2cTxd + 1
      BY <1>9, <3>1 DEF HandlerTakes
    <3>5. i2cLeft' = i2cLeft
      BY <1>9, <3>2 DEF HandlerTakes
    <3> QED
      BY <1>4, <3>3, <3>4, <3>5
  <2>6. I2cTypeOK'
    BY <1>2, <1>3, <1>4, <1>9, <2>3, <2>5, IsrLeaves
  <2>7. FlagsTell'
    BY <1>3, <2>1, <2>2, <2>4 DEF FlagsTell
  <2>8. NextIsThere'
    BY <1>3, <1>4, <1>5, <1>6, <2>1, <2>2, <2>5 DEF NextIsThere
  <2> QED
    BY <1>3, <1>5, <2>1, <2>6, <2>7, <2>8 DEF I2cInv, RoomIsKnown
<1>10. CASE i2cFlags = {"RX"} /\ HandlerTakes("RX", << Incoming >>)
  <2>1. /\ i2cPhase \notin {"started", "addressed"} /\ i2cWas = Append(i2cTold, Incoming)
        /\ (i2cPhase = "READ" => i2cStarted /\ i2cRxd = I2C_READ)
    BY <1>2, <1>10 DEF FlagsTell, NextIsThere
  <2>2. i2cFlags' = {} /\ ~i2cStarted'
    <3>1. HandlerTakes("RX", << Incoming >>) /\ i2cFlags = {"RX"}
      BY <1>10
    <3>2. i2cFlags' = {}
      BY <3>1 DEF HandlerTakes
    <3>3. ~i2cStarted'
      BY <3>1, BusStarted
    <3> QED
      BY <3>2, <3>3
  <2>3. /\ i2cStarted => Incoming = <<"command", i2cRxd>>
        /\ ~i2cStarted => Incoming = <<"data", i2cRxd>>
        /\ Incoming \in I2cMessage
    BY <1>2, MessageType DEF Incoming, I2cTypeOK
  <2>4. i2cTold' = i2cWas'
    BY <1>3, <1>4, <1>10, <2>1, <2>3, AddedLast DEF HandlerTakes
  <2>5. i2cTxd' \in Nat /\ i2cTxd' >= i2cTxd /\ (i2cStarted /\ i2cRxd = I2C_READ => i2cTxd' = i2cTxd + 1)
    <3>1. i2cStarted /\ i2cRxd = I2C_READ => << Incoming >> \in {<< <<"command", I2C_READ>> >>, << <<"sent", 0>> >>}
      BY <2>3
    <3>2. i2cTxd' = i2cTxd \/ i2cTxd' = i2cTxd + 1
      BY <1>10 DEF HandlerTakes
    <3>3. i2cStarted /\ i2cRxd = I2C_READ => i2cTxd' = i2cTxd + 1
      BY <1>10, <3>1 DEF HandlerTakes
    <3> QED
      BY <1>4, <3>2, <3>3
  <2>6. i2cLeft' = IF i2cStarted THEN I2cRoom ELSE i2cLeft - 1
    <3>1. i2cLeft' = RoomAfter(Incoming)
      BY <1>10 DEF HandlerTakes
    <3>2. RoomAfter(<<"command", i2cRxd>>) = I2cRoom /\ RoomAfter(<<"data", i2cRxd>>) = i2cLeft - 1
      BY DEF RoomAfter
    <3> QED
      BY <2>3, <3>1, <3>2
  <2>7. I2cTypeOK'
    <3>1. i2cTxd' \in Nat /\ i2cLeft' \in Int
      BY <1>4, <2>5, <2>6, I2cConstants
    <3>2. HandlerTakes("RX", << Incoming >>)
      BY <1>10
    <3> QED
      BY <1>2, <1>3, <2>3, <3>1, <3>2, IsrLeaves, Zenon
  <2>8. FlagsTell'
    BY <1>3, <2>1, <2>2, <2>4 DEF FlagsTell
  <2>9. NextIsThere'
    BY <1>3, <1>4, <1>5, <1>6, <2>1, <2>2, <2>5 DEF NextIsThere
  <2>10. RoomIsKnown'
    <3>1. i2cPhase \in {"WRITE", "sent"} => Len(i2cAnswers) <= I2cRoom /\ i2cLeft' = I2cRoom - Len(i2cAnswers)
      <4>1. Len(<< >>) = 0
        OBVIOUS
      <4> QED
        BY <1>2, <1>4, <1>10, <2>6, <4>1, I2cConstants DEF RoomIsKnown
    <3> QED
      BY <1>3, <1>5, <2>1, <2>2, <3>1 DEF RoomIsKnown
  <2> QED
    BY <2>7, <2>8, <2>9, <2>10 DEF I2cInv
<1> QED
  BY <1>2, <1>7, <1>8, <1>9, <1>10, IsrTakes

LEMMA I2cInvNext == I2cInv /\ [I2cNext]_i2cVars => I2cInv'
<1> SUFFICES ASSUME I2cInv, [I2cNext]_i2cVars PROVE I2cInv'
  OBVIOUS
<1>1. CASE i2cStart \/ i2cStop \/ i2cSendAck \/ i2cSendData \/ i2cReceiveAck \/ i2cReceiveData
           \/ i2cStartCommand \/ i2cSendByte \/ i2cReadByteSendAck
  BY <1>1, MasterCalls
<1>2. CASE BusStart
  BY <1>2, BusStarts
<1>3. CASE BusSend
  BY <1>3, BusSends
<1>4. CASE BusAnswer
  BY <1>4, BusAnswers
<1>5. CASE BusReceive
  BY <1>5, BusReceives
<1>6. CASE BusAcknowledge
  BY <1>6, BusAcknowledges
<1>7. CASE BusStop
  BY <1>7, BusStops
<1>8. CASE I2cIsr
  BY <1>8, IsrTells
<1>9. CASE UNCHANGED i2cVars
  BY <1>9
  DEF i2cVars, I2cInv, I2cTypeOK, PlanFits, FlagsTell, NextIsThere, ReadOrder, RoomIsKnown, Incoming
<1> QED
  BY <1>1, <1>2, <1>3, <1>4, <1>5, <1>6, <1>7, <1>8, <1>9 DEF I2cNext

LEMMA I2cPromises == I2cInv => TellsRight
<1> SUFFICES ASSUME I2cInv, i2cClean PROVE TellsRight
  BY DEF TellsRight
<1>1. I2cTypeOK /\ FlagsTell /\ NextIsThere /\ RoomIsKnown
  BY DEF I2cInv
<1>2. AnswersRoom
  BY <1>1 DEF AnswersRoom, RoomIsKnown, I2cTypeOK
<1>3. i2cTold \in Seq(I2cMessage) /\ i2cWas \in Seq(I2cMessage) /\ Len(i2cTold) \in Nat
  BY <1>1 DEF I2cTypeOK
<1>4. i2cTold = SubSeq(i2cWas, 1, Len(i2cWas) - Cardinality(i2cFlags \ {"STA"}))
  <2>1. CASE i2cFlags \in {{}, {"STA"}} /\ i2cTold = i2cWas
    <3>1. Cardinality(i2cFlags \ {"STA"}) = 0
      <4>1. i2cFlags \ {"STA"} = {}
        BY <2>1
      <4> QED
        BY <4>1, FS_EmptySet, Zenon
    <3>2. PICK n \in Nat : n = Len(i2cWas)
      BY <1>3
    <3>3. Len(i2cWas) - Cardinality(i2cFlags \ {"STA"}) = n
      BY <3>1, <3>2
    <3>4. SubSeq(i2cWas, 1, n) = i2cWas
      BY <1>3, <3>2
    <3> QED
      BY <2>1, <3>3, <3>4
  <2>2. CASE ~(i2cFlags \in {{}, {"STA"}} /\ i2cTold = i2cWas)
    <3>1. PICK message \in I2cMessage, flag \in {"RX", "TX", "STO"} : i2cWas = Append(i2cTold, message) /\ i2cFlags \ {"STA"} = {flag}
      <4>1. CASE i2cFlags = {"RX"} /\ i2cWas = Append(i2cTold, Incoming)
        <5>1. Incoming \in I2cMessage /\ i2cFlags \ {"STA"} = {"RX"}
          BY <1>1, <4>1, MessageType DEF Incoming, I2cTypeOK
        <5> QED
          BY <4>1, <5>1
      <4>2. CASE i2cFlags = {"TX"} /\ i2cWas = Append(i2cTold, <<"sent", i2cAckIn>>)
        <5>1. <<"sent", i2cAckIn>> \in I2cMessage /\ i2cFlags \ {"STA"} = {"TX"}
          BY <1>1, <4>2, MessageType, I2cConstants DEF I2cTypeOK
        <5> QED
          BY <4>2, <5>1
      <4>3. CASE i2cFlags \in {{"STO"}, {"STO", "STA"}} /\ i2cWas = Append(i2cTold, <<"stop">>)
        <5>1. <<"stop">> \in I2cMessage /\ i2cFlags \ {"STA"} = {"STO"}
          BY <4>3, MessageType
        <5> QED
          BY <4>3, <5>1
      <4> QED
        BY <1>1, <2>2, <4>1, <4>2, <4>3 DEF FlagsTell
    <3>2. Cardinality(i2cFlags \ {"STA"}) = 1
      BY <3>1, FS_Singleton
    <3>3. /\ Len(i2cWas) = Len(i2cTold) + 1 /\ \A k \in 1 .. Len(i2cTold) : i2cWas[k] = i2cTold[k]
      BY <1>3, <3>1, AddedLast
    <3>4. PICK n \in Nat : n = Len(i2cTold)
      BY <1>3
    <3>5. Len(i2cWas) - Cardinality(i2cFlags \ {"STA"}) = n
      BY <3>2, <3>3, <3>4
    <3>6. SubSeq(i2cWas, 1, n) \in Seq(I2cMessage) /\ Len(SubSeq(i2cWas, 1, n)) = n /\ \A k \in 1 .. n : SubSeq(i2cWas, 1, n)[k] = i2cWas[k]
      BY <1>3, <3>3, <3>4
    <3>7. i2cTold = SubSeq(i2cWas, 1, n)
      BY <1>3, <3>3, <3>4, <3>6, SameSeq
    <3> QED
      BY <3>5, <3>7
  <2> QED
    BY <2>1, <2>2
<1> QED
  BY <1>1, <1>2, <1>4 DEF TellsRight, NextIsThere

\* On both buses master and slave understand each other, however the slave's
\* interrupt and the calls of either side fall among the bytes: for buffers of any
\* size, any number of transfers and any room of the slave (spi-hal.c 231-283,
\* i2c-hal.c).
THEOREM BusesKept == SpiSpec /\ I2cSpec => []BusesDeliver
<1>1. SpiSpec => []SpiInv
  BY SpiInvInit, SpiInvNext, PTL DEF SpiSpec
<1>2. I2cSpec => []I2cInv
  BY I2cInvInit, I2cInvNext, PTL DEF I2cSpec
<1>3. SpiInv /\ I2cInv => BusesDeliver
  BY SpiPromises, I2cPromises DEF BusesDeliver
<1> QED
  BY <1>1, <1>2, <1>3, PTL

-----------------------------------------------------------------------------
(***************************************************************************)
(* The advanced PWM: dead times and the settings of a counter.             *)
(***************************************************************************)
\* How far short of what was asked a dead time may be.
DeadTimeStep(pulses) ==
    IF pulses < 128 THEN 1 ELSE IF pulses < 255 THEN 2 ELSE IF pulses < 505 THEN 8 ELSE 16

\* The dead time that comes of any number of pulses asked for.
LEMMA DeadTimeOf ==
    ASSUME NEW pulses \in Nat
    PROVE  IF pulses > 1008 \/ pulses \in {255} \cup 505 .. 511
           THEN DeadTime(DeadTimeRegister(pulses)) = 1008
           ELSE /\ DeadTime(DeadTimeRegister(pulses)) <= pulses
                /\ DeadTime(DeadTimeRegister(pulses)) > pulses - DeadTimeStep(pulses)
<1> DEFINE dtr == DeadTimeRegister(pulses)
<1> HIDE DEF dtr
<1>1. CASE pulses < 128
  <2>1. dtr = pulses
    BY <1>1 DEF dtr, DeadTimeRegister
  <2>2. DeadTime(dtr) = pulses
    BY <1>1, <2>1 DEF DeadTime
  <2> QED
    BY <1>1, <2>2 DEF DeadTimeStep, dtr
<1>2. CASE pulses \in 128 .. 254
  <2>1. dtr = 128 + (((pulses \div 2) - 64) % 128) /\ pulses \div 2 \in 64 .. 127
    BY <1>2 DEF dtr, DeadTimeRegister
  <2>2. dtr = 64 + (pulses \div 2) /\ dtr \in 128 .. 191
    BY <2>1
  <2>3. DeadTime(dtr) = 2 * (64 + (dtr % 64))
    BY <2>2 DEF DeadTime
  <2>4. DeadTime(dtr) = 2 * (pulses \div 2)
    BY <2>1, <2>2, <2>3
  <2> HIDE DEF dtr
  <2> QED
    BY <1>2, <2>4 DEF DeadTimeStep, dtr
<1>3. CASE pulses \in 255 .. 504
  <2>1. dtr = 192 + (((pulses \div 8) - 32) % 64) /\ pulses \div 8 \in 31 .. 63
    BY <1>3 DEF dtr, DeadTimeRegister
  <2>2. CASE pulses = 255
    <3>1. \A q \in 0 .. 31 : (q - 32) % 64 = q + 32
      OBVIOUS
    <3>4. pulses \div 8 = 31
      BY <2>2
    <3>3. dtr = 255
      BY <2>1, <3>1, <3>4
    <3>2. DeadTime(255) = 1008
      BY DEF DeadTime
    <3> QED
      BY <2>2, <3>2, <3>3 DEF dtr
  <2>3. CASE pulses # 255
    <3>4. pulses \div 8 \in 32 .. 63
      BY <1>3, <2>3
    <3>5. \A q \in 32 .. 63 : (q - 32) % 64 = q - 32
      OBVIOUS
    <3>6. ((pulses \div 8) - 32) % 64 = (pulses \div 8) - 32
      BY <3>4, <3>5
    <3>1. dtr = 160 + (pulses \div 8) /\ dtr \in 192 .. 223
      BY <2>1, <3>4, <3>6
    <3>2. DeadTime(dtr) = 8 * (32 + (dtr % 32))
      BY <3>1 DEF DeadTime
    <3>3. DeadTime(dtr) = 8 * (pulses \div 8)
      BY <3>1, <3>2
    <3> HIDE DEF dtr
    <3> QED
      BY <1>3, <2>3, <3>3 DEF DeadTimeStep, dtr
  <2> QED
    BY <2>2, <2>3
<1>4. CASE pulses \in 505 .. 1008
  <2>1. dtr = 224 + (((pulses \div 16) - 32) % 32) /\ pulses \div 16 \in 31 .. 63
    BY <1>4 DEF dtr, DeadTimeRegister
  <2>2. dtr \in 224 .. 255
    BY <2>1
  <2>3. DeadTime(dtr) = 16 * (32 + (dtr % 32))
    BY <2>2 DEF DeadTime
  <2>4. CASE pulses \in 505 .. 511
    <3>1. \A q \in 0 .. 31 : (q - 32) % 32 = q
      OBVIOUS
    <3>2. pulses \div 16 = 31
      BY <2>4
    <3>3. dtr = 255
      BY <2>1, <3>1, <3>2
    <3> QED
      BY <2>3, <2>4, <3>3 DEF dtr
  <2>5. CASE pulses \in 512 .. 1008
    <3>1. dtr = 192 + (pulses \div 16)
      BY <2>1, <2>5
    <3>2. DeadTime(dtr) = 16 * (pulses \div 16)
      BY <2>1, <2>2, <2>3, <2>5, <3>1
    <3> HIDE DEF dtr
    <3> QED
      BY <2>5, <3>2 DEF DeadTimeStep, dtr
  <2> QED
    BY <1>4, <2>4, <2>5
<1>5. CASE pulses > 1008
  <2>1. dtr = 255 /\ DeadTime(255) = 1008
    BY <1>5 DEF dtr, DeadTimeRegister, DeadTime
  <2> QED
    BY <1>5, <2>1 DEF dtr
<1> QED
  BY <1>1, <1>2, <1>3, <1>4, <1>5

\* A product of the parts of a number, and what it leaves over.
LEMMA PartsOf ==
    \A ratio \in Nat, scale \in Nat \ {0} :
        \E part \in Nat : part = ratio \div scale /\ scale * part <= ratio /\ ratio - scale * part <= scale - 1
<1> SUFFICES ASSUME NEW ratio \in Nat, NEW scale \in Nat \ {0}
    PROVE  /\ ratio \div scale \in Nat
           /\ scale * (ratio \div scale) <= ratio
           /\ ratio - scale * (ratio \div scale) <= scale - 1
  OBVIOUS
<1>1. ratio = scale * (ratio \div scale) + (ratio % scale)
  OBVIOUS
<1>2. ratio % scale \in 0 .. scale - 1 /\ ratio \div scale \in Nat
  OBVIOUS
<1> QED
  BY <1>1, <1>2

LEMMA ProductsGrow == \A p, q, r \in Nat : p <= q => r * p <= r * q
  OBVIOUS

\* A prescaler that is the ratio's high half or one more, and the whole part of the
\* ratio to it.
LEMMA ScaleIs ==
    ASSUME NEW ratio \in Nat \ {0}, NEW first \in Nat, 65536 * first <= ratio, ratio < 65536 * first + 65536,
           NEW exact \in BOOLEAN,
           NEW scale, scale = IF ratio <= 65536 THEN 1 ELSE IF exact THEN first ELSE first + 1
    PROVE  scale \in Nat \ {0} /\ scale <= ratio /\ (ratio > 65536 => first > 0)
<1>1. ratio > 65536 => first > 0
  OBVIOUS
<1>2. CASE ratio <= 65536
  BY <1>2
<1>3. CASE ratio > 65536
  BY <1>1, <1>3
<1> QED
  BY <1>1, <1>2, <1>3

LEMMA SomePart ==
    ASSUME NEW ratio \in Nat \ {0}, NEW scale \in Nat \ {0}, scale <= ratio,
           NEW part \in Nat, ratio - scale * part <= scale - 1
    PROVE  part # 0
<1> SUFFICES ASSUME part = 0 PROVE FALSE
  OBVIOUS
<1>1. scale * part = 0
  OBVIOUS
<1> QED
  BY <1>1

\* The part exceeds 16 bits only for a prescaler that is the high half itself.
LEMMA LargePart ==
    ASSUME NEW ratio \in Nat \ {0}, NEW first \in Nat, 65536 * first <= ratio, ratio < 65536 * first + 65536,
           NEW exact \in BOOLEAN,
           NEW scale, scale = IF ratio <= 65536 THEN 1 ELSE IF exact THEN first ELSE first + 1,
           NEW part \in Nat, part > 65536, scale * part <= ratio
    PROVE  scale = first /\ exact /\ first > 0 /\ ratio > 65536 * first
<1>1. CASE ratio <= 65536
  <2>1. scale * part = part
    BY <1>1
  <2> QED
    BY <1>1, <2>1
<1>2. CASE ratio > 65536 /\ ~exact
  <2>1. (first + 1) * 65537 <= (first + 1) * part
    BY ProductsGrow
  <2>2. scale * part = (first + 1) * part
    BY <1>2
  <2>3. (first + 1) * 65537 <= ratio
    <3> QED
      BY <2>1, <2>2
  <2> QED
    BY <2>3
<1>3. CASE ratio > 65536 /\ exact
  <2>1. scale = first /\ first > 0
    BY <1>3
  <2>2. first * 65537 <= first * part
    BY ProductsGrow
  <2>3. first * 65537 <= ratio
    BY <2>1, <2>2
  <2> QED
    BY <1>3, <2>1, <2>3
<1> QED
  BY <1>1, <1>2, <1>3

\* What is counted with them and a reload that is cut to 16 bits.
LEMMA SettingsFit ==
    ASSUME NEW ratio \in Nat \ {0}, NEW first \in Nat, 65536 * first <= ratio, ratio < 65536 * first + 65536,
           NEW exact \in BOOLEAN,
           NEW scale, scale = IF ratio <= 65536 THEN 1 ELSE IF exact THEN first ELSE first + 1
    PROVE  LET reload == ((ratio \div scale) - 1) % 65536
           IN  /\ scale \in Nat \ {0} /\ reload \in Nat
               /\ IF first > 0 /\ ratio > 65536 * first /\ exact /\ ratio \div first > 65536
                  THEN scale * (reload + 1) < ratio
                  ELSE scale * (reload + 1) <= ratio /\ ratio - scale * (reload + 1) <= scale - 1
<1>1. scale \in Nat \ {0} /\ scale <= ratio /\ (ratio > 65536 => first > 0)
  BY ScaleIs
<1>2. PICK part \in Nat : part = ratio \div scale /\ scale * part <= ratio /\ ratio - scale * part <= scale - 1
  BY <1>1, PartsOf
<1>3. part # 0
  BY <1>1, <1>2, SomePart
<1>4. PICK reload \in Nat : reload = (part - 1) % 65536
  BY <1>2
<1>5. CASE part <= 65536
  <2>1. reload + 1 = part
    BY <1>3, <1>4, <1>5
  <2>2. ratio > 65536 * first /\ first > 0 /\ exact => scale = first
    <3>1. ratio > 65536 * first /\ first > 0 => ratio > 65536
      OBVIOUS
    <3> QED
      BY <3>1
  <2>3. ~(first > 0 /\ ratio > 65536 * first /\ exact /\ ratio \div first > 65536)
    BY <1>2, <1>5, <2>2
  <2> QED
    BY <1>1, <1>2, <1>4, <2>1, <2>3
<1>6. CASE part > 65536
  <2>1. scale = first /\ exact /\ first > 0 /\ ratio > 65536 * first
    BY <1>2, <1>6, LargePart
  <2>2. reload + 1 \in Nat /\ reload + 1 <= 65536
    BY <1>2, <1>4
  <2>3. first * (reload + 1) <= first * 65536
    BY <2>2, ProductsGrow
  <2>4. scale * (reload + 1) < ratio
    BY <2>1, <2>2, <2>3
  <2>5. ratio \div first > 65536
    BY <1>2, <1>6, <2>1
  <2> QED
    BY <1>1, <1>2, <1>4, <2>1, <2>4, <2>5
<1> QED
  BY <1>2, <1>5, <1>6

\* The settings of a counter fit what it was asked to reload at, for every clock.
LEMMA ParametersFitAlways == ParametersFit
<1> SUFFICES ASSUME NEW freq \in AdvClocks, NEW target \in AdvTargets
    PROVE  LET ratio == freq \div target
               first == First(freq, target)
               got   == PwmParameters(freq, target)
               count == (got.prescaler + 1) * (got.reload + 1)
           IN  IF first > 0 /\ ratio > PWM_COUNTER_SCALE * first /\ freq % first = 0
                  /\ ratio \div first > PWM_COUNTER_SCALE
               THEN count < ratio
               ELSE count <= ratio /\ ratio - count <= got.prescaler
  BY DEF ParametersFit
<1>1. freq \in Nat /\ target \in Nat \ {0} /\ target <= freq
  BY AdvAssumption
<1>2. PICK ratio \in Nat \ {0} : ratio = freq \div target
  <2>1. freq \div target \in Nat /\ freq - target * (freq \div target) <= target - 1
    BY <1>1, PartsOf
  <2>2. target * 0 = 0
    BY <1>1
  <2>3. freq \div target # 0
    BY <1>1, <2>1, <2>2
  <2> QED
    BY <2>1, <2>3
<1>3. PICK first \in Nat : first = ratio \div 65536
  OBVIOUS
<1>4. 65536 * first <= ratio /\ ratio < 65536 * first + 65536
  BY <1>3
<1>5. PICK exact \in BOOLEAN : exact <=> freq % first = 0
  BY Zenon
<1>6. PICK scale : scale = IF ratio <= 65536 THEN 1 ELSE IF exact THEN first ELSE first + 1
  OBVIOUS
<1>8. PICK reload : reload = ((ratio \div scale) - 1) % 65536
  OBVIOUS
<1>9. First(freq, target) = first
  BY <1>2, <1>3 DEF First, PWM_COUNTER_SCALE
<1>10. scale = IF ratio <= 65536 THEN 1 ELSE IF freq % first # 0 THEN first + 1 ELSE first
  BY <1>5, <1>6
<1>11. PwmParameters(freq, target) = [prescaler |-> scale - 1, reload |-> reload]
  BY <1>2, <1>8, <1>9, <1>10, SMT DEF PwmParameters, DividedRatio, PWM_COUNTER_SCALE
<1>12. /\ scale \in Nat \ {0} /\ reload \in Nat
       /\ IF first > 0 /\ ratio > 65536 * first /\ exact /\ ratio \div first > 65536
          THEN scale * (reload + 1) < ratio
          ELSE scale * (reload + 1) <= ratio /\ ratio - scale * (reload + 1) <= scale - 1
  BY <1>4, <1>6, <1>8, SettingsFit
<1> DEFINE got == PwmParameters(freq, target)
<1>13. got.prescaler + 1 = scale /\ got.prescaler = scale - 1 /\ got.reload = reload
  BY <1>11, <1>12
<1> HIDE DEF got
<1>14. IF first > 0 /\ ratio > PWM_COUNTER_SCALE * first /\ freq % first = 0
          /\ ratio \div first > PWM_COUNTER_SCALE
       THEN (got.prescaler + 1) * (got.reload + 1) < ratio
       ELSE /\ (got.prescaler + 1) * (got.reload + 1) <= ratio
            /\ ratio - (got.prescaler + 1) * (got.reload + 1) <= got.prescaler
  BY <1>5, <1>12, <1>13, SMT DEF PWM_COUNTER_SCALE
<1> QED
  BY <1>2, <1>9, <1>14, Zenon DEF got

-----------------------------------------------------------------------------
(***************************************************************************)
(* The advanced PWM: the registers that channels share.  A field is read   *)
(* back from the registers; each helper changes one field of one channel.  *)
(***************************************************************************)
Outs(c) == IF c < 4 THEN {0, 1} ELSE {0}

BitsType ==
    [Counter -> [PS : SUBSET Nat, ENO : SUBSET Nat, CCER1 : SUBSET (0 .. 7), CCER2 : SUBSET (0 .. 7),
                 IOAUX : SUBSET Nat, OISR : SUBSET Nat, IER : SUBSET Nat]]

HasBit(bits, n, b) == IF b > 7 THEN b - 8 \in bits[n].CCER2 ELSE b \in bits[n].CCER1

\* What the registers say of an output, of where a channel's pins are, and of its
\* interrupt
Reads(bits, c, f) ==
    IF ~HasBit(bits, CounterOf(c), ChannelBit(c, f)) THEN 2
    ELSE IF HasBit(bits, CounterOf(c), ChannelBit(c, f) + 1) THEN 1 ELSE 0
IsOut(bits, c, f)  == OutputBit(c, f) \in bits[CounterOf(c)].ENO
IsAt(bits, c, k)   == 2 * (c % 4) + k \in bits[CounterOf(c)].PS
HasIrq(bits, c)    == (c % 4) + 1 \in bits[CounterOf(c)].IER

SameReads(old, new)  == \A c \in Channel : \A f \in Outs(c) : Reads(new, c, f) = Reads(old, c, f)
SameOuts(old, new)   == \A c \in Channel : \A f \in Outs(c) : IsOut(new, c, f) <=> IsOut(old, c, f)
SamePlaces(old, new) == \A c \in Channel : \A k \in {0, 1} : IsAt(new, c, k) <=> IsAt(old, c, k)
SameIrqs(old, new)   == \A c \in Channel : HasIrq(new, c) <=> HasIrq(old, c)

\* No two outputs have a position in common, nor two channels.
LEMMA Positions ==
    /\ \A c \in Channel : CounterOf(c) \in Counter
    /\ \A c \in Channel : \A f \in Outs(c) :
          OutputBit(c, f) \in Nat /\ ChannelBit(c, f) \in 0 .. 14 /\ ChannelBit(c, f) % 2 = 0
          /\ (ChannelBit(c, f) > 7 <=> c % 4 \in {2, 3})
    /\ \A c, d \in Channel : CounterOf(c) = CounterOf(d) /\ c % 4 = d % 4 => c = d
    /\ \A c, d \in Channel : \A f \in Outs(c), g \in Outs(d) :
          CounterOf(c) = CounterOf(d) /\ (OutputBit(c, f) = OutputBit(d, g) \/ ChannelBit(c, f) = ChannelBit(d, g))
          => c = d /\ f = g
<1>1. \A c \in Channel : CounterOf(c) \in Counter
  BY DEF CounterOf, Counter
<1>2. \A c \in Channel : \A f \in Outs(c) :
          OutputBit(c, f) \in Nat /\ ChannelBit(c, f) \in 0 .. 14 /\ ChannelBit(c, f) % 2 = 0
          /\ (ChannelBit(c, f) > 7 <=> c % 4 \in {2, 3})
  BY DEF Channel, Outs, OutputBit, ChannelBit
<1>3. \A c, d \in Channel : CounterOf(c) = CounterOf(d) /\ c % 4 = d % 4 => c = d
  BY DEF Channel, CounterOf
<1>4. ASSUME NEW c \in Channel, NEW d \in Channel, NEW f \in Outs(c), NEW g \in Outs(d),
             CounterOf(c) = CounterOf(d), OutputBit(c, f) = OutputBit(d, g)
      PROVE  c = d /\ f = g
  <2>1. (c < 4 <=> d < 4) /\ c % 4 = d % 4 /\ f = g
    BY <1>4 DEF Channel, Outs, OutputBit, CounterOf
  <2> QED
    BY <1>3, <1>4, <2>1
<1> QED
  <2>1. \A c, d \in Channel : \A f \in Outs(c), g \in Outs(d) :
           ChannelBit(c, f) = ChannelBit(d, g) => OutputBit(c, f) = OutputBit(d, g)
    BY <1>2 DEF ChannelBit
  <2> QED
    BY <1>1, <1>2, <1>3, <1>4, <2>1

LEMMA SmallBits ==
    /\ \A v \in 0 .. 3, p \in Nat : BitsAt(v, p) = (IF v % 2 = 1 THEN {p} ELSE {}) \cup (IF v \div 2 = 1 THEN {p + 1} ELSE {})
    /\ \A s \in Nat : Switch(s) \in 0 .. 2
<1>1. ASSUME NEW v \in 0 .. 3, NEW p \in Nat
      PROVE  BitsAt(v, p) = (IF v % 2 = 1 THEN {p} ELSE {}) \cup (IF v \div 2 = 1 THEN {p + 1} ELSE {})
  <2> DEFINE Ones == {i \in 0 .. 7 : (v \div 2^i) % 2 = 1}
  <2>1. 0 \in Ones <=> v % 2 = 1
    BY v \div 2^0 = v
  <2>2. 1 \in Ones <=> v \div 2 = 1
    <3>1. (v \div 2^1) % 2 = 1 <=> v \div 2 = 1
      OBVIOUS
    <3> QED
      BY <3>1
  <2>3. Ones \subseteq {0, 1}
    <3>1. ASSUME NEW i \in 2 .. 7 PROVE \E q \in 4 .. 128 : 2^i = q
      <4>1. 2^2 = 4 /\ 2^3 = 8 /\ 2^4 = 16 /\ 2^5 = 32 /\ 2^6 = 64 /\ 2^7 = 128
        OBVIOUS
      <4>2. i = 2 \/ i = 3 \/ i = 4 \/ i = 5 \/ i = 6 \/ i = 7
        OBVIOUS
      <4>3. 2^i \in {2^2, 2^3, 2^4, 2^5, 2^6, 2^7}
        BY <4>2, Zenon
      <4>4. \A j \in {2^2, 2^3, 2^4, 2^5, 2^6, 2^7} : j \in 4 .. 128
        BY <4>1
      <4> QED
        BY <4>3, <4>4, Zenon
    <3>2. \A q \in 4 .. 128 : (v \div q) % 2 # 1
      OBVIOUS
    <3>3. ASSUME NEW i \in 2 .. 7 PROVE (v \div 2^i) % 2 # 1
      BY <3>1, <3>2
    <3>4. \A i \in 0 .. 7 : i \in {0, 1} \/ i \in 2 .. 7
      OBVIOUS
    <3> QED
      BY <3>3, <3>4
  <2> HIDE DEF Ones
  <2>4. {b + p : b \in Ones} = (IF 0 \in Ones THEN {p} ELSE {}) \cup (IF 1 \in Ones THEN {p + 1} ELSE {})
    <3>1. 0 + p = p /\ 1 + p = p + 1
      OBVIOUS
    <3>2. ASSUME NEW x \in {b + p : b \in Ones} PROVE (x = p /\ 0 \in Ones) \/ (x = p + 1 /\ 1 \in Ones)
      BY <2>3
    <3>3. /\ 0 \in Ones => p \in {b + p : b \in Ones}
          /\ 1 \in Ones => p + 1 \in {b + p : b \in Ones}
      BY <3>1
    <3> QED
      BY <3>2, <3>3
  <2> QED
    BY <2>1, <2>2, <2>4 DEF BitsAt, Ones
<1>2. \A s \in Nat : Switch(s) \in 0 .. 2
  BY DEF Switch, PIN_CONFIG_MAX
<1> QED
  BY <1>1, <1>2

\* Turning an output on or off
LEMMA OutputSwitched ==
    ASSUME NEW bits \in BitsType, NEW c \in Channel, NEW f \in Outs(c)
    PROVE  /\ LET new == EnabledOutput(bits, c, f)
              IN  /\ new \in BitsType /\ SameReads(bits, new) /\ SamePlaces(bits, new) /\ SameIrqs(bits, new)
                  /\ \A d \in Channel : \A g \in Outs(d) :
                        IsOut(new, d, g) <=> IsOut(bits, d, g) \/ (d = c /\ g = f)
           /\ LET new == DisabledOutput(bits, c, f)
              IN  /\ new \in BitsType /\ SameReads(bits, new) /\ SamePlaces(bits, new) /\ SameIrqs(bits, new)
                  /\ \A d \in Channel : \A g \in Outs(d) :
                        IsOut(new, d, g) <=> IsOut(bits, d, g) /\ ~(d = c /\ g = f)
<1> DEFINE n   == CounterOf(c)
           pos == OutputBit(c, f)
<1>1. n \in Counter /\ pos \in Nat /\ bits[n].ENO \in SUBSET Nat
  BY Positions DEF BitsType
<1> HIDE DEF n, pos
<1>2. ASSUME NEW S \in SUBSET Nat, NEW new, new = [bits EXCEPT ![n].ENO = S]
      PROVE  /\ new \in BitsType /\ SameReads(bits, new) /\ SamePlaces(bits, new) /\ SameIrqs(bits, new)
             /\ \A d \in Channel : \A g \in Outs(d) :
                   IsOut(new, d, g) <=> IF CounterOf(d) = n THEN OutputBit(d, g) \in S ELSE IsOut(bits, d, g)
  <2>1. /\ new \in BitsType
        /\ \A m \in Counter : /\ new[m].ENO = (IF m = n THEN S ELSE bits[m].ENO)
                              /\ new[m].PS = bits[m].PS /\ new[m].IER = bits[m].IER
                              /\ new[m].CCER1 = bits[m].CCER1 /\ new[m].CCER2 = bits[m].CCER2
    BY <1>1, <1>2 DEF BitsType
  <2>2. \A d \in Channel : CounterOf(d) \in Counter
    BY Positions
  <2> QED
    BY <2>1, <2>2 DEF SameReads, SamePlaces, SameIrqs, Reads, HasBit, IsAt, HasIrq, IsOut
<1>3. \A d \in Channel : \A g \in Outs(d) : CounterOf(d) = n /\ OutputBit(d, g) = pos <=> d = c /\ g = f
  BY Positions DEF n, pos
<1> DEFINE on == EnabledOutput(bits, c, f)
           off == DisabledOutput(bits, c, f)
<1>4. /\ on = [bits EXCEPT ![n].ENO = bits[n].ENO \cup {pos}] /\ bits[n].ENO \cup {pos} \in SUBSET Nat
      /\ off = [bits EXCEPT ![n].ENO = bits[n].ENO \ {pos}] /\ bits[n].ENO \ {pos} \in SUBSET Nat
  BY <1>1 DEF EnabledOutput, DisabledOutput, n, pos
<1> HIDE DEF on, off
<1>5. /\ on \in BitsType /\ SameReads(bits, on) /\ SamePlaces(bits, on) /\ SameIrqs(bits, on)
      /\ \A d \in Channel : \A g \in Outs(d) :
            IsOut(on, d, g) <=> IF CounterOf(d) = n THEN OutputBit(d, g) \in bits[n].ENO \cup {pos} ELSE IsOut(bits, d, g)
  BY <1>2, <1>4
<1>6. /\ off \in BitsType /\ SameReads(bits, off) /\ SamePlaces(bits, off) /\ SameIrqs(bits, off)
      /\ \A d \in Channel : \A g \in Outs(d) :
            IsOut(off, d, g) <=> IF CounterOf(d) = n THEN OutputBit(d, g) \in bits[n].ENO \ {pos} ELSE IsOut(bits, d, g)
  BY <1>2, <1>4
<1>7. \A d \in Channel : \A g \in Outs(d) :
         /\ IsOut(on, d, g) <=> IsOut(bits, d, g) \/ (d = c /\ g = f)
         /\ IsOut(off, d, g) <=> IsOut(bits, d, g) /\ ~(d = c /\ g = f)
  <2> SUFFICES ASSUME NEW d \in Channel, NEW g \in Outs(d)
      PROVE  /\ IsOut(on, d, g) <=> IsOut(bits, d, g) \/ (d = c /\ g = f)
             /\ IsOut(off, d, g) <=> IsOut(bits, d, g) /\ ~(d = c /\ g = f)
    OBVIOUS
  <2>1. CounterOf(d) = n => (IsOut(bits, d, g) <=> OutputBit(d, g) \in bits[n].ENO)
    BY DEF IsOut
  <2> QED
    BY <1>3, <1>5, <1>6, <2>1
<1> QED
  BY <1>5, <1>6, <1>7 DEF on, off

\* What a write of a register of the channels' outputs leaves
CcerSet(bits, n, r, S) == [bits EXCEPT ![n][r] = S]

LEMMA CcerWritten ==
    ASSUME NEW bits \in BitsType, NEW n \in Counter, NEW S \in SUBSET (0 .. 7), NEW r \in {"CCER1", "CCER2"},
           NEW new, new = CcerSet(bits, n, r, S)
    PROVE  /\ new \in BitsType /\ SameOuts(bits, new) /\ SamePlaces(bits, new) /\ SameIrqs(bits, new)
           /\ \A m \in Counter, b \in 0 .. 15 :
                 HasBit(new, m, b) <=> IF m = n /\ (b > 7 <=> r = "CCER2") THEN b % 8 \in S ELSE HasBit(bits, m, b)
<1>1. \A d \in Channel : CounterOf(d) \in Counter
  BY Positions
<1>2. \A b \in 0 .. 15 : b % 8 = IF b > 7 THEN b - 8 ELSE b
  OBVIOUS
<1>3. CASE r = "CCER1"
  <2>1. new = [bits EXCEPT ![n].CCER1 = S]
    BY <1>3 DEF CcerSet
  <2>2. /\ new \in BitsType
        /\ \A m \in Counter : /\ new[m].CCER1 = (IF m = n THEN S ELSE bits[m].CCER1)
                              /\ new[m].ENO = bits[m].ENO /\ new[m].PS = bits[m].PS
                              /\ new[m].IER = bits[m].IER /\ new[m].CCER2 = bits[m].CCER2
    BY <2>1 DEF BitsType
  <2>3. /\ new \in BitsType /\ SameOuts(bits, new) /\ SamePlaces(bits, new) /\ SameIrqs(bits, new)
    BY <1>1, <2>2 DEF SameOuts, SamePlaces, SameIrqs, IsAt, HasIrq, IsOut
  <2> QED
    BY <1>2, <1>3, <2>2, <2>3 DEF HasBit
<1>4. CASE r = "CCER2"
  <2>1. new = [bits EXCEPT ![n].CCER2 = S]
    BY <1>4 DEF CcerSet
  <2>2. /\ new \in BitsType
        /\ \A m \in Counter : /\ new[m].CCER2 = (IF m = n THEN S ELSE bits[m].CCER2)
                              /\ new[m].ENO = bits[m].ENO /\ new[m].PS = bits[m].PS
                              /\ new[m].IER = bits[m].IER /\ new[m].CCER1 = bits[m].CCER1
    BY <2>1 DEF BitsType
  <2>3. /\ new \in BitsType /\ SameOuts(bits, new) /\ SamePlaces(bits, new) /\ SameIrqs(bits, new)
    BY <1>1, <2>2 DEF SameOuts, SamePlaces, SameIrqs, IsAt, HasIrq, IsOut
  <2> QED
    BY <1>2, <1>4, <2>2, <2>3 DEF HasBit
<1> QED
  BY <1>3, <1>4

\* Giving an output its polarity turns it on and leaves the others.
LEMMA ChannelEnabled ==
    ASSUME NEW bits \in BitsType, NEW c \in Channel, NEW f \in Outs(c), NEW polarity \in {0, 1},
           NEW new, new = EnabledChannel(bits, c, f, polarity)
    PROVE  /\ new \in BitsType /\ SameOuts(bits, new) /\ SamePlaces(bits, new) /\ SameIrqs(bits, new)
           /\ \A d \in Channel : \A g \in Outs(d) :
                 Reads(new, d, g) = IF d = c /\ g = f THEN polarity ELSE Reads(bits, d, g)
<1>1. PICK n \in Counter : n = CounterOf(c)
  BY Positions
<1>2. PICK at \in 0 .. 14 : at = ChannelBit(c, f) /\ at % 2 = 0
  BY Positions
<1>3. PICK r \in {"CCER1", "CCER2"} : r = IF at > 7 THEN "CCER2" ELSE "CCER1"
  OBVIOUS
<1>4. PICK old \in SUBSET (0 .. 7) : old = bits[n][r] /\ old = IF at > 7 THEN bits[n].CCER2 ELSE bits[n].CCER1
  <2>1. bits[n].CCER2 \in SUBSET (0 .. 7) /\ bits[n].CCER1 \in SUBSET (0 .. 7)
    BY DEF BitsType
  <2>2. CASE at > 7
    <3>1. bits[n][r] = bits[n].CCER2
      BY <1>3, <2>2
    <3> QED
      BY <2>1, <2>2, <3>1
  <2>3. CASE ~(at > 7)
    <3>1. bits[n][r] = bits[n].CCER1
      BY <1>3, <2>3
    <3> QED
      BY <2>1, <2>3, <3>1
  <2> QED
    BY <2>2, <2>3
<1>5. PICK p \in {0, 2, 4, 6} : p = at % 8
  BY <1>2
<1>6. BitsAt(2 * polarity + 1, p) = {p} \cup (IF polarity = 1 THEN {p + 1} ELSE {})
  <2>1. /\ 2 * polarity + 1 \in 0 .. 3
        /\ (2 * polarity + 1) % 2 = 1
        /\ (2 * polarity + 1) \div 2 = 1 <=> polarity = 1
    OBVIOUS
  <2> QED
    BY <2>1, SmallBits
<1>7. PICK S \in SUBSET (0 .. 7) : S = (old \ {p, p + 1}) \cup BitsAt(2 * polarity + 1, p)
  <2>1. BitsAt(2 * polarity + 1, p) \subseteq 0 .. 7
    BY <1>6
  <2> QED
    BY <2>1
<1>8. new = CcerSet(bits, n, r, S)
  BY <1>1, <1>2, <1>3, <1>4, <1>5, <1>7 DEF EnabledChannel, CcerSet
<1>9. /\ new \in BitsType /\ SameOuts(bits, new) /\ SamePlaces(bits, new) /\ SameIrqs(bits, new)
      /\ \A m \in Counter, b \in 0 .. 15 :
            HasBit(new, m, b) <=> IF m = n /\ (b > 7 <=> r = "CCER2") THEN b % 8 \in S ELSE HasBit(bits, m, b)
  BY <1>8, CcerWritten
<1>10. \A m \in Counter, b \in 0 .. 15 :
         HasBit(new, m, b) <=> IF m = n /\ b \in {at, at + 1} THEN b = at \/ polarity = 1 ELSE HasBit(bits, m, b)
  <2> SUFFICES ASSUME NEW b \in 0 .. 15
      PROVE  HasBit(new, n, b) <=> IF b \in {at, at + 1} THEN b = at \/ polarity = 1 ELSE HasBit(bits, n, b)
    BY <1>9
  <2>1. CASE ~(b > 7 <=> at > 7)
    <3>1. b \notin {at, at + 1}
      BY <1>2, <2>1
    <3> QED
      BY <1>3, <1>9, <2>1, <3>1
  <2>2. CASE b > 7 <=> at > 7
    <3>1. HasBit(new, n, b) <=> b % 8 \in S
      BY <1>3, <1>9, <2>2
    <3>2. HasBit(bits, n, b) <=> b % 8 \in old
      <4>1. b % 8 = IF b > 7 THEN b - 8 ELSE b
        OBVIOUS
      <4> QED
        BY <1>4, <2>2, <4>1 DEF HasBit
    <3>3. (b % 8 = p <=> b = at) /\ (b % 8 = p + 1 <=> b = at + 1)
      BY <1>2, <1>5, <2>2
    <3>4. b % 8 \in S <=> IF b % 8 \in {p, p + 1} THEN b % 8 = p \/ polarity = 1 ELSE b % 8 \in old
      BY <1>6, <1>7
    <3> QED
      BY <3>1, <3>2, <3>3, <3>4
  <2> QED
    BY <2>1, <2>2
<1>11. ASSUME NEW d \in Channel, NEW g \in Outs(d)
       PROVE  Reads(new, d, g) = IF d = c /\ g = f THEN polarity ELSE Reads(bits, d, g)
  <2>1. PICK m \in Counter : m = CounterOf(d)
    BY Positions
  <2>2. PICK b \in 0 .. 14 : b = ChannelBit(d, g) /\ b % 2 = 0
    BY Positions
  <2>3. m = n /\ b = at <=> d = c /\ g = f
    BY <1>1, <1>2, <2>1, <2>2, Positions
  <2>4. b + 1 \in 0 .. 15 /\ b \in 0 .. 15 /\ b + 1 # at /\ b # at + 1
    BY <1>2, <2>2
  <2>5. Reads(new, d, g) = IF ~HasBit(new, m, b) THEN 2 ELSE IF HasBit(new, m, b + 1) THEN 1 ELSE 0
    BY <2>1, <2>2 DEF Reads
  <2>6. Reads(bits, d, g) = IF ~HasBit(bits, m, b) THEN 2 ELSE IF HasBit(bits, m, b + 1) THEN 1 ELSE 0
    BY <2>1, <2>2 DEF Reads
  <2>7. CASE m = n /\ b = at
    BY <1>10, <2>3, <2>4, <2>5, <2>7
  <2>8. CASE ~(m = n /\ b = at)
    <3>1. HasBit(new, m, b) <=> HasBit(bits, m, b)
      BY <1>10, <2>4, <2>8
    <3>2. HasBit(new, m, b + 1) <=> HasBit(bits, m, b + 1)
      BY <1>10, <2>4, <2>8
    <3> QED
      BY <2>3, <2>5, <2>6, <2>8, <3>1, <3>2
  <2> QED
    BY <2>7, <2>8
<1> QED
  BY <1>9, <1>11

\* Closing a channel turns both its outputs off.
LEMMA ChannelClosed ==
    ASSUME NEW bits \in BitsType, NEW c \in Channel, NEW new, new = ClosedChannel(bits, c)
    PROVE  /\ new \in BitsType /\ SameOuts(bits, new) /\ SamePlaces(bits, new) /\ SameIrqs(bits, new)
           /\ \A d \in Channel : \A g \in Outs(d) :
                 Reads(new, d, g) = IF d = c THEN 2 ELSE Reads(bits, d, g)
<1>1. PICK n \in Counter : n = CounterOf(c)
  BY Positions
<1>2. PICK q \in 0 .. 3 : q = c % 4
  BY DEF Channel
<1>3. PICK r \in {"CCER1", "CCER2"} : r = IF q \in {0, 1} THEN "CCER1" ELSE "CCER2"
  OBVIOUS
<1>4. PICK old \in SUBSET (0 .. 7) : old = bits[n][r] /\ old = IF q \in {0, 1} THEN bits[n].CCER1 ELSE bits[n].CCER2
  <2>1. bits[n].CCER2 \in SUBSET (0 .. 7) /\ bits[n].CCER1 \in SUBSET (0 .. 7)
    BY DEF BitsType
  <2>2. CASE q \notin {0, 1}
    <3>1. bits[n][r] = bits[n].CCER2
      BY <1>3, <2>2
    <3> QED
      BY <2>1, <2>2, <3>1
  <2>3. CASE q \in {0, 1}
    <3>1. bits[n][r] = bits[n].CCER1
      BY <1>3, <2>3
    <3> QED
      BY <2>1, <2>3, <3>1
  <2> QED
    BY <2>2, <2>3
<1>5. PICK half \in {0 .. 3, 4 .. 7} : half = IF c % 2 = 0 THEN 0 .. 3 ELSE 4 .. 7
  OBVIOUS
<1>6. PICK S \in SUBSET (0 .. 7) : S = old \ half
  OBVIOUS
<1>7. new = CcerSet(bits, n, r, S)
  BY <1>1, <1>2, <1>3, <1>4, <1>5, <1>6 DEF ClosedChannel, CcerSet
<1>8. /\ new \in BitsType /\ SameOuts(bits, new) /\ SamePlaces(bits, new) /\ SameIrqs(bits, new)
      /\ \A m \in Counter, b \in 0 .. 15 :
            HasBit(new, m, b) <=> IF m = n /\ (b > 7 <=> r = "CCER2") THEN b % 8 \in S ELSE HasBit(bits, m, b)
  BY <1>7, CcerWritten
<1>9. \A m \in Counter, b \in 0 .. 15 :
         HasBit(new, m, b) <=> HasBit(bits, m, b) /\ ~(m = n /\ b \div 4 = q)
  <2> SUFFICES ASSUME NEW b \in 0 .. 15
      PROVE  HasBit(new, n, b) <=> HasBit(bits, n, b) /\ b \div 4 # q
    BY <1>8
  <2>1. CASE ~(b > 7 <=> q \notin {0, 1})
    <3>1. b \div 4 # q
      BY <2>1
    <3> QED
      BY <1>3, <1>8, <2>1, <3>1
  <2>2. CASE b > 7 <=> q \notin {0, 1}
    <3>1. HasBit(new, n, b) <=> b % 8 \in S
      BY <1>3, <1>8, <2>2
    <3>2. HasBit(bits, n, b) <=> b % 8 \in old
      <4>1. b % 8 = IF b > 7 THEN b - 8 ELSE b
        OBVIOUS
      <4> QED
        BY <1>4, <2>2, <4>1 DEF HasBit
    <3>3. b % 8 \in half <=> b \div 4 = q
      <4>1. c % 2 = 0 <=> q \in {0, 2}
        BY <1>2 DEF Channel
      <4>2. b % 8 \in 0 .. 3 \/ b % 8 \in 4 .. 7
        OBVIOUS
      <4>3. b % 8 \in 0 .. 3 <=> b \div 4 \in {0, 2}
        OBVIOUS
      <4>4. b \div 4 \in 0 .. 3 /\ (b \div 4 \in {2, 3} <=> b > 7)
        OBVIOUS
      <4> QED
        BY <1>5, <2>2, <4>1, <4>2, <4>3, <4>4
    <3> QED
      BY <1>6, <3>1, <3>2, <3>3
  <2> QED
    BY <2>1, <2>2
<1>10. ASSUME NEW d \in Channel, NEW g \in Outs(d)
       PROVE  Reads(new, d, g) = IF d = c THEN 2 ELSE Reads(bits, d, g)
  <2>1. PICK m \in Counter : m = CounterOf(d)
    BY Positions
  <2>2. PICK b \in 0 .. 14 : b = ChannelBit(d, g) /\ b % 2 = 0
    BY Positions
  <2>3. b \div 4 = d % 4 /\ (b + 1) \div 4 = d % 4 /\ d % 4 \in 0 .. 3
    <3>1. d % 4 \in 0 .. 3 /\ (b = 4 * (d % 4) \/ b = 4 * (d % 4) + 2)
      BY <2>2 DEF ChannelBit, OutputBit, Outs, Channel
    <3>2. \A e \in 0 .. 3 : (4 * e) \div 4 = e /\ (4 * e + 1) \div 4 = e /\ (4 * e + 2) \div 4 = e /\ (4 * e + 3) \div 4 = e
      OBVIOUS
    <3> QED
      BY <3>1, <3>2
  <2>4. m = n /\ d % 4 = q <=> d = c
    BY <1>1, <1>2, <2>1, Positions
  <2>5. Reads(new, d, g) = IF ~HasBit(new, m, b) THEN 2 ELSE IF HasBit(new, m, b + 1) THEN 1 ELSE 0
    BY <2>1, <2>2 DEF Reads
  <2>6. Reads(bits, d, g) = IF ~HasBit(bits, m, b) THEN 2 ELSE IF HasBit(bits, m, b + 1) THEN 1 ELSE 0
    BY <2>1, <2>2 DEF Reads
  <2>7. b \in 0 .. 15 /\ b + 1 \in 0 .. 15
    OBVIOUS
  <2> QED
    BY <1>9, <2>3, <2>4, <2>5, <2>6, <2>7
<1> QED
  BY <1>8, <1>10

\* Fault control is in registers of its own.
LEMMA FaultsApart ==
    ASSUME NEW bits \in BitsType, NEW c \in Channel, NEW f \in Outs(c), NEW fault, NEW idle,
           NEW new, new = FaultControlled(bits, c, f, fault, idle)
    PROVE  new \in BitsType /\ SameReads(bits, new) /\ SameOuts(bits, new) /\ SamePlaces(bits, new) /\ SameIrqs(bits, new)
<1>1. CASE ~fault
  <2>1. new = bits
    BY <1>1 DEF FaultControlled
  <2> QED
    BY <2>1 DEF SameReads, SameOuts, SamePlaces, SameIrqs
<1>2. CASE fault
  <2>1. PICK n \in Counter : n = CounterOf(c)
    BY Positions
  <2>2. PICK S \in SUBSET Nat : S = bits[n].IOAUX \cup {OutputBit(c, f)}
    <3>1. bits[n].IOAUX \in SUBSET Nat /\ OutputBit(c, f) \in Nat
      BY Positions DEF BitsType
    <3>2. bits[n].IOAUX \cup {OutputBit(c, f)} \in SUBSET Nat
      BY <3>1
    <3> QED
      BY <3>2
  <2>3. PICK mid : mid = [bits EXCEPT ![n].IOAUX = S]
    OBVIOUS
  <2>4. /\ mid \in BitsType
        /\ \A m \in Counter : /\ mid[m].ENO = bits[m].ENO /\ mid[m].PS = bits[m].PS /\ mid[m].IER = bits[m].IER
                              /\ mid[m].CCER1 = bits[m].CCER1 /\ mid[m].CCER2 = bits[m].CCER2
                              /\ mid[m].OISR = bits[m].OISR
    BY <2>3 DEF BitsType
  <2>7. PICK T \in SUBSET Nat : T = bits[n].OISR \cup (IF idle = 1 THEN {OutputBit(c, f)} ELSE {})
    <3>1. bits[n].OISR \in SUBSET Nat /\ OutputBit(c, f) \in Nat
      BY Positions DEF BitsType
    <3>2. bits[n].OISR \cup (IF idle = 1 THEN {OutputBit(c, f)} ELSE {}) \in SUBSET Nat
      BY <3>1
    <3> QED
      BY <3>2
  <2>8. new = [mid EXCEPT ![n].OISR = T]
    <3>1. new = [bits EXCEPT ![n].IOAUX = S, ![n].OISR = bits[n].OISR \cup (IF idle = 1 THEN {OutputBit(c, f)} ELSE {})]
      <4>1. [bits EXCEPT ![n].IOAUX = S][n].OISR = bits[n].OISR
        BY <2>3, <2>4
      <4> QED
        BY <1>2, <2>1, <2>2, <4>1 DEF FaultControlled
    <3> QED
      BY <2>3, <2>7, <3>1
  <2>5. /\ new \in BitsType
        /\ \A m \in Counter : /\ new[m].ENO = bits[m].ENO /\ new[m].PS = bits[m].PS /\ new[m].IER = bits[m].IER
                              /\ new[m].CCER1 = bits[m].CCER1 /\ new[m].CCER2 = bits[m].CCER2
    <3>1. /\ new \in BitsType
          /\ \A m \in Counter : /\ new[m].ENO = mid[m].ENO /\ new[m].PS = mid[m].PS /\ new[m].IER = mid[m].IER
                                /\ new[m].CCER1 = mid[m].CCER1 /\ new[m].CCER2 = mid[m].CCER2
      BY <2>4, <2>8 DEF BitsType
    <3> QED
      BY <2>4, <3>1
  <2>6. \A d \in Channel : CounterOf(d) \in Counter
    BY Positions
  <2> QED
    BY <2>5, <2>6 DEF SameReads, SameOuts, SamePlaces, SameIrqs, Reads, HasBit, IsAt, HasIrq, IsOut
<1> QED
  BY <1>1, <1>2

\* The two bits of a number below 4
BitOf(v, k) == IF k = 0 THEN v % 2 = 1 ELSE v \div 2 = 1

\* Where a channel's pins are is a field of its own.
LEMMA SwitchApplied ==
    ASSUME NEW bits \in BitsType, NEW c \in Channel, NEW s \in Nat,
           NEW new, new = AppliedSwitch(bits, c, s)
    PROVE  /\ new \in BitsType /\ SameReads(bits, new) /\ SameOuts(bits, new) /\ SameIrqs(bits, new)
           /\ \A d \in Channel : \A k \in {0, 1} :
                 IsAt(new, d, k) <=> IF d = c THEN BitOf(Switch(s), k) ELSE IsAt(bits, d, k)
<1>1. PICK n \in Counter : n = CounterOf(c)
  BY Positions
<1>2. PICK p \in Nat : p = 2 * (c % 4)
  BY DEF Channel
<1>3. PICK v \in 0 .. 2 : v = Switch(s)
  BY SmallBits
<1>4. BitsAt(v, p) = (IF BitOf(v, 0) THEN {p} ELSE {}) \cup (IF BitOf(v, 1) THEN {p + 1} ELSE {})
  <2>1. v \in 0 .. 3
    OBVIOUS
  <2>2. BitsAt(v, p) = (IF v % 2 = 1 THEN {p} ELSE {}) \cup (IF v \div 2 = 1 THEN {p + 1} ELSE {})
    BY <2>1, SmallBits
  <2> QED
    BY <2>2 DEF BitOf
<1>5. PICK S \in SUBSET Nat : S = (bits[n].PS \ {p, p + 1}) \cup BitsAt(v, p)
  <2>1. bits[n].PS \in SUBSET Nat /\ BitsAt(v, p) \in SUBSET Nat
    BY <1>4 DEF BitsType
  <2>2. (bits[n].PS \ {p, p + 1}) \cup BitsAt(v, p) \in SUBSET Nat
    BY <2>1
  <2> QED
    BY <2>2
<1>6. new = [bits EXCEPT ![n].PS = S]
  BY <1>1, <1>2, <1>3, <1>5 DEF AppliedSwitch
<1>7. /\ new \in BitsType
      /\ \A m \in Counter : /\ new[m].PS = (IF m = n THEN S ELSE bits[m].PS)
                            /\ new[m].ENO = bits[m].ENO /\ new[m].IER = bits[m].IER
                            /\ new[m].CCER1 = bits[m].CCER1 /\ new[m].CCER2 = bits[m].CCER2
  BY <1>6 DEF BitsType
<1>8. \A d \in Channel : CounterOf(d) \in Counter
  BY Positions
<1>9. SameReads(bits, new) /\ SameOuts(bits, new) /\ SameIrqs(bits, new)
  BY <1>7, <1>8 DEF SameReads, SameOuts, SameIrqs, Reads, HasBit, HasIrq, IsOut
<1>10. ASSUME NEW d \in Channel, NEW k \in {0, 1}
       PROVE  IsAt(new, d, k) <=> IF d = c THEN BitOf(v, k) ELSE IsAt(bits, d, k)
  <2>1. PICK m \in Counter : m = CounterOf(d)
    BY Positions
  <2>2. PICK b \in Nat : b = 2 * (d % 4) + k
    BY DEF Channel
  <2>3. /\ IsAt(new, d, k) <=> b \in new[m].PS
        /\ IsAt(bits, d, k) <=> b \in bits[m].PS
    BY <2>1, <2>2 DEF IsAt
  <2>4. CASE d = c
    <3>1. m = n /\ b = p + k
      BY <1>1, <1>2, <2>1, <2>2, <2>4
    <3>2. b \in S <=> BitOf(v, k)
      BY <1>4, <1>5, <3>1
    <3> QED
      BY <1>7, <2>3, <2>4, <3>1, <3>2
  <2>5. CASE d # c
    <3>1. m = n => b \notin {p, p + 1}
      <4>1. m = n => d % 4 # c % 4
        BY <1>1, <2>1, <2>5, Positions
      <4> QED
        BY <1>2, <2>2, <4>1 DEF Channel
    <3>2. m = n => (b \in S <=> b \in bits[m].PS)
      BY <1>4, <1>5, <3>1
    <3> QED
      BY <1>7, <2>3, <2>5, <3>2
  <2> QED
    BY <2>4, <2>5
<1> QED
  BY <1>3, <1>7, <1>9, <1>10

\* A channel's interrupt
LEMMA InterruptEnabled ==
    ASSUME NEW bits \in BitsType, NEW c \in Channel, NEW new, new = EnabledInterrupt(bits, c)
    PROVE  /\ new \in BitsType /\ SameReads(bits, new) /\ SameOuts(bits, new) /\ SamePlaces(bits, new)
           /\ \A d \in Channel : HasIrq(new, d) <=> HasIrq(bits, d) \/ d = c
<1>1. PICK n \in Counter : n = CounterOf(c)
  BY Positions
<1>2. PICK b \in Nat : b = (c % 4) + 1
  BY DEF Channel
<1>3. bits[n].IER \in SUBSET Nat /\ bits[n].IER \cup {b} \in SUBSET Nat
  BY DEF BitsType
<1>4. new = [bits EXCEPT ![n].IER = bits[n].IER \cup {b}]
  BY <1>1, <1>2 DEF EnabledInterrupt
<1>5. /\ new \in BitsType
      /\ \A m \in Counter : /\ new[m].IER = (IF m = n THEN bits[n].IER \cup {b} ELSE bits[m].IER)
                            /\ new[m].ENO = bits[m].ENO /\ new[m].PS = bits[m].PS
                            /\ new[m].CCER1 = bits[m].CCER1 /\ new[m].CCER2 = bits[m].CCER2
  BY <1>3, <1>4 DEF BitsType
<1>6. \A d \in Channel : CounterOf(d) \in Counter
  BY Positions
<1>7. \A d \in Channel : CounterOf(d) = n /\ (d % 4) + 1 = b <=> d = c
  <2>1. \A d \in Channel : (d % 4) + 1 = b <=> d % 4 = c % 4
    BY <1>2 DEF Channel
  <2> QED
    BY <1>1, <2>1, Positions
<1>8. \A d \in Channel : HasIrq(new, d) <=> HasIrq(bits, d) \/ d = c
  BY <1>5, <1>6, <1>7 DEF HasIrq
<1> QED
  BY <1>5, <1>6, <1>8 DEF SameReads, SameOuts, SamePlaces, Reads, HasBit, IsOut, IsAt

\* A counter's own interrupts are none of the channels'.
LEMMA CounterInterrupts ==
    ASSUME NEW bits \in BitsType, NEW n \in Counter, NEW S \in SUBSET Nat, \A b \in 1 .. 4 : b \in S <=> b \in bits[n].IER,
           NEW new, new = [bits EXCEPT ![n].IER = S]
    PROVE  new \in BitsType /\ SameReads(bits, new) /\ SameOuts(bits, new) /\ SamePlaces(bits, new) /\ SameIrqs(bits, new)
<1>1. /\ new \in BitsType
      /\ \A m \in Counter : /\ new[m].IER = (IF m = n THEN S ELSE bits[m].IER)
                            /\ new[m].ENO = bits[m].ENO /\ new[m].PS = bits[m].PS
                            /\ new[m].CCER1 = bits[m].CCER1 /\ new[m].CCER2 = bits[m].CCER2
  BY DEF BitsType
<1>2. \A d \in Channel : CounterOf(d) \in Counter /\ (d % 4) + 1 \in 1 .. 4
  BY Positions DEF Channel
<1> QED
  BY <1>1, <1>2 DEF SameReads, SameOuts, SamePlaces, SameIrqs, Reads, HasBit, HasIrq, IsOut, IsAt

-----------------------------------------------------------------------------
\* The registers say of every channel what was asked of it.
AskType   == [on : [1 .. 2 -> 0 .. 2], out : SUBSET {0, 1}, switch : 0 .. 2, irq : BOOLEAN]
AskedType == [Channel -> AskType]

Tells(bits, ask, c) ==
    /\ \A f \in Outs(c) : Reads(bits, c, f) = ask.on[f + 1] /\ (IsOut(bits, c, f) <=> f \in ask.out)
    /\ \A k \in {0, 1} : IsAt(bits, c, k) <=> BitOf(ask.switch, k)
    /\ HasIrq(bits, c) <=> ask.irq

TellAll(bits, asked) == bits \in BitsType /\ asked \in AskedType /\ \A c \in Channel : Tells(bits, asked[c], c)

\* Only one channel was asked for anything, and of the others nothing was changed.
LEMMA OneAsked ==
    ASSUME NEW bits, NEW asked, TellAll(bits, asked), NEW c \in Channel, NEW ask \in AskType,
           NEW new \in BitsType, Tells(new, ask, c),
           \A d \in Channel : d # c => Tells(new, asked[d], d),
           NEW asks, asks = [asked EXCEPT ![c] = ask]
    PROVE  TellAll(new, asks)
  BY DEF TellAll, AskedType

LEMMA OneOutputSet ==
    ASSUME NEW bits \in BitsType, NEW o \in AdvOutputs, NEW f \in Outs(o.channel),
           NEW new, new = OneOutput(bits, o, f)
    PROVE  /\ new \in BitsType /\ SamePlaces(bits, new) /\ SameIrqs(bits, new)
           /\ \A d \in Channel : \A g \in Outs(d) :
                 /\ Reads(new, d, g) = IF d = o.channel /\ g = f THEN o.polarity ELSE Reads(bits, d, g)
                 /\ IsOut(new, d, g) <=> IsOut(bits, d, g) \/ (d = o.channel /\ g = f)
<1>1. PICK c \in Channel : c = o.channel
  BY AdvAssumption
<1>2. PICK polarity \in {0, 1} : polarity = o.polarity
  BY AdvAssumption
<1>3. PICK out : out = EnabledOutput(bits, c, f)
  OBVIOUS
<1>4. PICK on : on = EnabledChannel(out, c, f, polarity)
  OBVIOUS
<1>5. new = FaultControlled(on, c, f, o.fault, o.idle)
  BY <1>1, <1>2, <1>3, <1>4 DEF OneOutput
<1>6. f \in Outs(c)
  BY <1>1
<1>7. /\ out \in BitsType /\ SameReads(bits, out) /\ SamePlaces(bits, out) /\ SameIrqs(bits, out)
      /\ \A d \in Channel : \A g \in Outs(d) : IsOut(out, d, g) <=> IsOut(bits, d, g) \/ (d = c /\ g = f)
  BY <1>3, <1>6, OutputSwitched
<1>8. /\ on \in BitsType /\ SameOuts(out, on) /\ SamePlaces(out, on) /\ SameIrqs(out, on)
      /\ \A d \in Channel : \A g \in Outs(d) :
            Reads(on, d, g) = IF d = c /\ g = f THEN polarity ELSE Reads(out, d, g)
  BY <1>4, <1>6, <1>7, ChannelEnabled
<1>9. new \in BitsType /\ SameReads(on, new) /\ SameOuts(on, new) /\ SamePlaces(on, new) /\ SameIrqs(on, new)
  BY <1>5, <1>6, <1>8, FaultsApart
<1> QED
  BY <1>1, <1>2, <1>7, <1>8, <1>9 DEF SameReads, SameOuts, SamePlaces, SameIrqs

\* What pwmConfigureOutput writes, of the outputs whose pins the package has
OutputsConfigured(bits, o, real) ==
    LET afterP == IF 0 \in real THEN OneOutput(bits, o, 0) ELSE bits
        afterN == IF 1 \in real THEN OneOutput(afterP, o, 1) ELSE afterP
    IN  AppliedSwitch(afterN, o.channel, o.switch)

LEMMA OutputConfigured ==
    ASSUME NEW bits \in BitsType, NEW o \in AdvOutputs, NEW real \in SUBSET Outs(o.channel),
           NEW new, new = OutputsConfigured(bits, o, real)
    PROVE  /\ new \in BitsType
           /\ \A d \in Channel : \A g \in Outs(d) :
                 /\ Reads(new, d, g) = IF d = o.channel /\ g \in real THEN o.polarity ELSE Reads(bits, d, g)
                 /\ IsOut(new, d, g) <=> IsOut(bits, d, g) \/ (d = o.channel /\ g \in real)
           /\ \A d \in Channel : HasIrq(new, d) <=> HasIrq(bits, d)
           /\ \A d \in Channel : \A k \in {0, 1} :
                 IsAt(new, d, k) <=> IF d = o.channel THEN BitOf(Switch(o.switch), k) ELSE IsAt(bits, d, k)
<1>1. PICK c \in Channel : c = o.channel
  BY AdvAssumption
<1>2. o.polarity \in {0, 1} /\ o.switch \in Nat
  BY AdvAssumption
<1> DEFINE afterP == IF 0 \in real THEN OneOutput(bits, o, 0) ELSE bits
           afterN == IF 1 \in real THEN OneOutput(afterP, o, 1) ELSE afterP
<1>0. new = AppliedSwitch(afterN, c, o.switch)
  BY <1>1 DEF OutputsConfigured
<1>3. /\ afterP \in BitsType /\ SamePlaces(bits, afterP) /\ SameIrqs(bits, afterP)
      /\ \A d \in Channel : \A g \in Outs(d) :
            /\ Reads(afterP, d, g) = IF d = c /\ g = 0 /\ 0 \in real THEN o.polarity ELSE Reads(bits, d, g)
            /\ IsOut(afterP, d, g) <=> IsOut(bits, d, g) \/ (d = c /\ g = 0 /\ 0 \in real)
  <2>1. CASE 0 \in real
    <3>1. PICK mid : mid = OneOutput(bits, o, 0)
      OBVIOUS
    <3>2. /\ mid \in BitsType /\ SamePlaces(bits, mid) /\ SameIrqs(bits, mid)
          /\ \A d \in Channel : \A g \in Outs(d) :
                /\ Reads(mid, d, g) = IF d = o.channel /\ g = 0 THEN o.polarity ELSE Reads(bits, d, g)
                /\ IsOut(mid, d, g) <=> IsOut(bits, d, g) \/ (d = o.channel /\ g = 0)
      BY <2>1, <3>1, OneOutputSet
    <3>3. afterP = mid
      BY <2>1, <3>1
    <3> HIDE DEF afterP
    <3> QED
      BY <1>1, <2>1, <3>2, <3>3
  <2>2. CASE 0 \notin real
    <3>1. afterP = bits
      BY <2>2
    <3> HIDE DEF afterP
    <3> QED
      BY <2>2, <3>1 DEF SamePlaces, SameIrqs
  <2> QED
    BY <2>1, <2>2
<1>4. /\ afterN \in BitsType /\ SamePlaces(afterP, afterN) /\ SameIrqs(afterP, afterN)
      /\ \A d \in Channel : \A g \in Outs(d) :
            /\ Reads(afterN, d, g) = IF d = c /\ g = 1 /\ 1 \in real THEN o.polarity ELSE Reads(afterP, d, g)
            /\ IsOut(afterN, d, g) <=> IsOut(afterP, d, g) \/ (d = c /\ g = 1 /\ 1 \in real)
  <2> HIDE DEF afterP
  <2>1. CASE 1 \in real
    <3>1. PICK mid : mid = OneOutput(afterP, o, 1)
      OBVIOUS
    <3>2. /\ mid \in BitsType /\ SamePlaces(afterP, mid) /\ SameIrqs(afterP, mid)
          /\ \A d \in Channel : \A g \in Outs(d) :
                /\ Reads(mid, d, g) = IF d = o.channel /\ g = 1 THEN o.polarity ELSE Reads(afterP, d, g)
                /\ IsOut(mid, d, g) <=> IsOut(afterP, d, g) \/ (d = o.channel /\ g = 1)
      <4>1. afterP \in BitsType
        BY <1>3
      <4> QED
        BY <2>1, <3>1, <4>1, OneOutputSet
    <3>3. afterN = mid
      BY <2>1, <3>1
    <3> HIDE DEF afterN
    <3> QED
      BY <1>1, <2>1, <3>2, <3>3
  <2>2. CASE 1 \notin real
    <3>1. afterN = afterP
      BY <2>2
    <3> HIDE DEF afterN
    <3> QED
      BY <1>3, <2>2, <3>1 DEF SamePlaces, SameIrqs
  <2> QED
    BY <2>1, <2>2
<1> HIDE DEF afterP, afterN
<1>5. /\ new \in BitsType /\ SameReads(afterN, new) /\ SameOuts(afterN, new) /\ SameIrqs(afterN, new)
      /\ \A d \in Channel : \A k \in {0, 1} :
            IsAt(new, d, k) <=> IF d = c THEN BitOf(Switch(o.switch), k) ELSE IsAt(afterN, d, k)
  <2>1. afterN \in BitsType
    BY <1>4
  <2> QED
    BY <1>0, <1>2, <2>1, SwitchApplied
<1>6. \A d \in Channel : \A g \in Outs(d) : g = 0 \/ g = 1
  BY DEF Outs
<1>7. \A d \in Channel : \A g \in Outs(d) :
         /\ Reads(new, d, g) = IF d = c /\ g \in real THEN o.polarity ELSE Reads(bits, d, g)
         /\ IsOut(new, d, g) <=> IsOut(bits, d, g) \/ (d = c /\ g \in real)
  <2> SUFFICES ASSUME NEW d \in Channel, NEW g \in Outs(d)
      PROVE  /\ Reads(new, d, g) = IF d = c /\ g \in real THEN o.polarity ELSE Reads(bits, d, g)
             /\ IsOut(new, d, g) <=> IsOut(bits, d, g) \/ (d = c /\ g \in real)
    OBVIOUS
  <2>1. Reads(new, d, g) = Reads(afterN, d, g) /\ (IsOut(new, d, g) <=> IsOut(afterN, d, g))
    BY <1>5 DEF SameReads, SameOuts
  <2>2. CASE g = 0
    BY <1>3, <1>4, <2>1, <2>2
  <2>3. CASE g = 1
    BY <1>3, <1>4, <2>1, <2>3
  <2> QED
    BY <1>6, <2>2, <2>3
<1>8. \A d \in Channel : HasIrq(new, d) <=> HasIrq(bits, d)
  BY <1>3, <1>4, <1>5 DEF SameIrqs
<1>9. \A d \in Channel : \A k \in {0, 1} :
         IsAt(new, d, k) <=> IF d = c THEN BitOf(Switch(o.switch), k) ELSE IsAt(bits, d, k)
  BY <1>3, <1>4, <1>5 DEF SamePlaces
<1> QED
  BY <1>1, <1>5, <1>7, <1>8, <1>9
LEMMA ConfigureOutputTells ==
    ASSUME TellAll(advBits, advAsked), pwmConfigureOutput PROVE TellAll(advBits, advAsked)'
<1>1. advBits \in BitsType /\ advAsked \in AskedType
  BY DEF TellAll
<1>2. PICK o \in AdvOutputs, real \in SUBSET {0, 1} :
         /\ real = {f \in OutputsOf(o.channel, o.enable) : IsPin(ChannelPin(o.channel, o.switch, f))}
         /\ advBits' = IF real = {} THEN advBits ELSE OutputsConfigured(advBits, o, real)
         /\ advAsked' = IF real = {} THEN advAsked
                        ELSE [advAsked EXCEPT ![o.channel] =
                                [on     |-> [i \in 1 .. 2 |-> IF i - 1 \in real THEN o.polarity ELSE advAsked[o.channel].on[i]],
                                 out    |-> advAsked[o.channel].out \cup real,
                                 switch |-> Switch(o.switch),
                                 irq    |-> advAsked[o.channel].irq]]
  <2>1. \A o \in AdvOutputs :
           {f \in OutputsOf(o.channel, o.enable) : IsPin(ChannelPin(o.channel, o.switch, f))} \in SUBSET {0, 1}
    BY DEF OutputsOf
  <2>2. \A o \in AdvOutputs : o.channel \in Channel
    BY AdvAssumption
  <2> QED
    BY <1>1, <2>1, <2>2 DEF pwmConfigureOutput, OutputsConfigured, AskedType
<1>3. PICK c \in Channel : c = o.channel
  BY AdvAssumption
<1>4. o.polarity \in {0, 1} /\ o.switch \in Nat
  BY AdvAssumption
<1>5. CASE real = {}
  <2>1. advBits' = advBits /\ advAsked' = advAsked
    BY <1>2, <1>5
  <2> QED
    BY <2>1
<1>6. CASE real # {}
  <2>1. PICK new : new = OutputsConfigured(advBits, o, real)
    OBVIOUS
  <2>2. advBits' = new
    BY <1>2, <1>6, <2>1
  <2>3. real \in SUBSET Outs(o.channel)
    <3>1. OutputsOf(c, o.enable) \subseteq Outs(c)
      BY DEF OutputsOf, Outs, Channel
    <3> QED
      BY <1>2, <1>3, <3>1
  <2>4. /\ new \in BitsType
        /\ \A d \in Channel : \A g \in Outs(d) :
              /\ Reads(new, d, g) = IF d = o.channel /\ g \in real THEN o.polarity ELSE Reads(advBits, d, g)
              /\ IsOut(new, d, g) <=> IsOut(advBits, d, g) \/ (d = o.channel /\ g \in real)
        /\ \A d \in Channel : HasIrq(new, d) <=> HasIrq(advBits, d)
        /\ \A d \in Channel : \A k \in {0, 1} :
              IsAt(new, d, k) <=> IF d = o.channel THEN BitOf(Switch(o.switch), k) ELSE IsAt(advBits, d, k)
    BY <1>1, <2>1, <2>3, OutputConfigured
  <2>5. PICK old \in AskType : old = advAsked[c] /\ Tells(advBits, old, c)
    BY DEF TellAll, AskedType
  <2>6. PICK on \in [1 .. 2 -> 0 .. 2] : on = [i \in 1 .. 2 |-> IF i - 1 \in real THEN o.polarity ELSE old.on[i]]
    <3>1. old.on \in [1 .. 2 -> 0 .. 2]
      BY DEF AskType
    <3>2. [i \in 1 .. 2 |-> IF i - 1 \in real THEN o.polarity ELSE old.on[i]] \in [1 .. 2 -> 0 .. 2]
      BY <1>4, <3>1
    <3> QED
      BY <3>2
  <2>7. PICK ask \in AskType : ask = [on |-> on, out |-> old.out \cup real, switch |-> Switch(o.switch), irq |-> old.irq]
    <3>1. old.out \cup real \in SUBSET {0, 1} /\ Switch(o.switch) \in 0 .. 2 /\ old.irq \in BOOLEAN
      BY <1>4, SmallBits DEF AskType
    <3>2. [on |-> on, out |-> old.out \cup real, switch |-> Switch(o.switch), irq |-> old.irq] \in AskType
      BY <3>1 DEF AskType
    <3> QED
      BY <3>2
  <2>8. advAsked' = [advAsked EXCEPT ![c] = ask]
    BY <1>2, <1>3, <1>6, <2>5, <2>6, <2>7
  <2>9. Tells(new, ask, c)
    <3>1. ask.on = on /\ ask.out = old.out \cup real /\ ask.switch = Switch(o.switch) /\ ask.irq = old.irq
      BY <2>7
    <3>2. \A f \in Outs(c) : (f = 0 \/ f = 1) /\ on[f + 1] = IF f \in real THEN o.polarity ELSE old.on[f + 1]
      BY <2>6 DEF Outs
    <3>3. \A f \in Outs(c) : Reads(new, c, f) = ask.on[f + 1] /\ (IsOut(new, c, f) <=> f \in ask.out)
      BY <1>3, <2>4, <2>5, <3>1, <3>2 DEF Tells
    <3>4. HasIrq(new, c) <=> ask.irq
      BY <2>4, <2>5, <3>1 DEF Tells
    <3>5. \A k \in {0, 1} : IsAt(new, c, k) <=> BitOf(ask.switch, k)
      BY <1>3, <2>4, <3>1
    <3> QED
      BY <3>3, <3>4, <3>5 DEF Tells
  <2>10. \A d \in Channel : d # c => Tells(new, advAsked[d], d)
    BY <1>3, <2>4 DEF Tells, TellAll
  <2> QED
    BY <2>2, <2>4, <2>8, <2>9, <2>10, OneAsked
<1> QED
  BY <1>5, <1>6

\* What pwmEnableChannelOutput and pwmDisableChannelOutput write
OneSwitched(bits, c, f, enable) == IF enable THEN EnabledOutput(bits, c, f) ELSE DisabledOutput(bits, c, f)

LEMMA SwitchedOutput ==
    ASSUME NEW bits \in BitsType, NEW c \in Channel, NEW outs \in SUBSET Outs(c), NEW f \in {0, 1}, NEW enable \in BOOLEAN,
           NEW new, new = IF f \notin outs THEN bits ELSE OneSwitched(bits, c, f, enable)
    PROVE  /\ new \in BitsType /\ SameReads(bits, new) /\ SamePlaces(bits, new) /\ SameIrqs(bits, new)
           /\ \A d \in Channel : \A g \in Outs(d) :
                 IsOut(new, d, g) <=> IF d = c /\ g = f /\ f \in outs THEN enable ELSE IsOut(bits, d, g)
<1>1. CASE f \notin outs
  <2>1. new = bits
    BY <1>1
  <2> QED
    BY <1>1, <2>1 DEF SameReads, SamePlaces, SameIrqs
<1>2. CASE f \in outs /\ enable
  <2>1. new = EnabledOutput(bits, c, f) /\ f \in Outs(c)
    BY <1>2 DEF OneSwitched
  <2>2. /\ new \in BitsType /\ SameReads(bits, new) /\ SamePlaces(bits, new) /\ SameIrqs(bits, new)
        /\ \A d \in Channel : \A g \in Outs(d) : IsOut(new, d, g) <=> IsOut(bits, d, g) \/ (d = c /\ g = f)
    BY <2>1, OutputSwitched
  <2> QED
    BY <1>2, <2>2
<1>3. CASE f \in outs /\ ~enable
  <2>1. new = DisabledOutput(bits, c, f) /\ f \in Outs(c)
    BY <1>3 DEF OneSwitched
  <2>2. /\ new \in BitsType /\ SameReads(bits, new) /\ SamePlaces(bits, new) /\ SameIrqs(bits, new)
        /\ \A d \in Channel : \A g \in Outs(d) : IsOut(new, d, g) <=> IsOut(bits, d, g) /\ ~(d = c /\ g = f)
    BY <2>1, OutputSwitched
  <2> QED
    BY <1>3, <2>2
<1> QED
  BY <1>1, <1>2, <1>3

LEMMA SwitchChannelOutputTells ==
    ASSUME TellAll(advBits, advAsked), pwmSwitchChannelOutput PROVE TellAll(advBits, advAsked)'
<1>1. advBits \in BitsType /\ advAsked \in AskedType
  BY DEF TellAll
<1>0. PICK o \in AdvOutputs, enable \in BOOLEAN : \E first :
         LET outs == OutputsOf(o.channel, o.enable)
         IN  /\ first = IF 0 \notin outs THEN advBits ELSE OneSwitched(advBits, o.channel, 0, enable)
             /\ advBits' = IF 1 \notin outs THEN first ELSE OneSwitched(first, o.channel, 1, enable)
             /\ advAsked' = [advAsked EXCEPT ![o.channel].out = IF enable THEN @ \cup outs ELSE @ \ outs]
  BY DEF pwmSwitchChannelOutput, OneSwitched
<1>2. PICK first :
         LET outs == OutputsOf(o.channel, o.enable)
         IN  /\ first = IF 0 \notin outs THEN advBits ELSE OneSwitched(advBits, o.channel, 0, enable)
             /\ advBits' = IF 1 \notin outs THEN first ELSE OneSwitched(first, o.channel, 1, enable)
             /\ advAsked' = [advAsked EXCEPT ![o.channel].out = IF enable THEN @ \cup outs ELSE @ \ outs]
  BY <1>0
<1>3. PICK c \in Channel : c = o.channel
  BY AdvAssumption
<1>4. PICK outs \in SUBSET Outs(c) : outs = OutputsOf(o.channel, o.enable)
  <2>1. OutputsOf(c, o.enable) \subseteq Outs(c)
    BY DEF OutputsOf, Outs, Channel
  <2> QED
    BY <1>3, <2>1
<1>5. /\ first \in BitsType /\ SameReads(advBits, first) /\ SamePlaces(advBits, first) /\ SameIrqs(advBits, first)
      /\ \A d \in Channel : \A g \in Outs(d) :
            IsOut(first, d, g) <=> IF d = c /\ g = 0 /\ 0 \in outs THEN enable ELSE IsOut(advBits, d, g)
  <2>1. first = IF 0 \notin outs THEN advBits ELSE OneSwitched(advBits, c, 0, enable)
    BY <1>2, <1>3, <1>4
  <2> QED
    BY <1>1, <2>1, SwitchedOutput
<1>6. PICK new : new = advBits'
  OBVIOUS
<1>7. /\ new \in BitsType /\ SameReads(first, new) /\ SamePlaces(first, new) /\ SameIrqs(first, new)
      /\ \A d \in Channel : \A g \in Outs(d) :
            IsOut(new, d, g) <=> IF d = c /\ g = 1 /\ 1 \in outs THEN enable ELSE IsOut(first, d, g)
  <2>1. new = IF 1 \notin outs THEN first ELSE OneSwitched(first, c, 1, enable)
    BY <1>2, <1>3, <1>4, <1>6
  <2>2. first \in BitsType
    BY <1>5
  <2> QED
    BY <2>1, <2>2, SwitchedOutput
<1>8. PICK old \in AskType : old = advAsked[c] /\ Tells(advBits, old, c)
  BY DEF TellAll, AskedType
<1>9. PICK set \in SUBSET {0, 1} : set = IF enable THEN old.out \cup outs ELSE old.out \ outs
  <2>1. old.out \in SUBSET {0, 1} /\ outs \in SUBSET {0, 1}
    BY DEF AskType, Outs
  <2>2. (IF enable THEN old.out \cup outs ELSE old.out \ outs) \in SUBSET {0, 1}
    BY <2>1
  <2> QED
    BY <2>2
<1>10. PICK ask \in AskType : ask = [old EXCEPT !.out = set]
  <2>1. [old EXCEPT !.out = set] \in AskType
    BY DEF AskType
  <2> QED
    BY <2>1
<1>11. advAsked' = [advAsked EXCEPT ![c] = ask]
  BY <1>2, <1>3, <1>4, <1>8, <1>9, <1>10
<1>12. \A f \in Outs(c) : f = 0 \/ f = 1
  BY DEF Outs
<1>13. Tells(new, ask, c)
  <2>1. ask.on = old.on /\ ask.out = set /\ ask.switch = old.switch /\ ask.irq = old.irq
    BY <1>10 DEF AskType
  <2>2. \A f \in Outs(c) : Reads(new, c, f) = ask.on[f + 1]
    BY <1>5, <1>7, <1>8, <2>1 DEF Tells, SameReads
  <2>3. \A f \in Outs(c) : IsOut(new, c, f) <=> f \in ask.out
    BY <1>5, <1>7, <1>8, <1>9, <1>12, <2>1 DEF Tells
  <2> QED
    BY <1>5, <1>7, <1>8, <2>1, <2>2, <2>3 DEF Tells, SamePlaces, SameIrqs
<1>14. ASSUME NEW d \in Channel, d # c PROVE Tells(new, advAsked[d], d)
  BY <1>5, <1>7, <1>14 DEF Tells, TellAll, SameReads, SamePlaces, SameIrqs
<1> QED
  BY <1>6, <1>7, <1>11, <1>13, <1>14, OneAsked
LEMMA InitialisePWMTells ==
    ASSUME TellAll(advBits, advAsked), pwmInitialisePWM PROVE TellAll(advBits, advAsked)'
<1>1. advBits \in BitsType /\ advAsked \in AskedType
  BY DEF TellAll
<1>2. PICK o \in AdvOutputs, irq \in BOOLEAN :
         /\ advBits' = IF irq THEN EnabledInterrupt(ClosedChannel(advBits, o.channel), o.channel)
                       ELSE ClosedChannel(advBits, o.channel)
         /\ advAsked' = [advAsked EXCEPT ![o.channel] =
                           [on |-> <<2, 2>>, out |-> @.out, switch |-> @.switch, irq |-> @.irq \/ irq]]
  BY DEF pwmInitialisePWM
<1>3. PICK c \in Channel : c = o.channel
  BY AdvAssumption
<1>4. PICK closed : closed = ClosedChannel(advBits, c)
  OBVIOUS
<1>5. /\ closed \in BitsType /\ SameOuts(advBits, closed) /\ SamePlaces(advBits, closed) /\ SameIrqs(advBits, closed)
      /\ \A d \in Channel : \A g \in Outs(d) :
            Reads(closed, d, g) = IF d = c THEN 2 ELSE Reads(advBits, d, g)
  BY <1>1, <1>4, ChannelClosed
<1>6. PICK new : new = IF irq THEN EnabledInterrupt(closed, c) ELSE closed
  OBVIOUS
<1>7. /\ new \in BitsType /\ SameReads(closed, new) /\ SameOuts(closed, new) /\ SamePlaces(closed, new)
      /\ \A d \in Channel : HasIrq(new, d) <=> HasIrq(closed, d) \/ (irq /\ d = c)
  <2>1. CASE irq
    <3>1. new = EnabledInterrupt(closed, c)
      BY <1>6, <2>1
    <3>2. /\ new \in BitsType /\ SameReads(closed, new) /\ SameOuts(closed, new) /\ SamePlaces(closed, new)
          /\ \A d \in Channel : HasIrq(new, d) <=> HasIrq(closed, d) \/ d = c
      BY <1>5, <3>1, InterruptEnabled
    <3> QED
      BY <2>1, <3>2
  <2>2. CASE ~irq
    <3>1. new = closed
      BY <1>6, <2>2
    <3> QED
      BY <1>5, <2>2, <3>1 DEF SameReads, SameOuts, SamePlaces
  <2> QED
    BY <2>1, <2>2
<1>8. PICK old \in AskType : old = advAsked[c] /\ Tells(advBits, old, c)
  BY DEF TellAll, AskedType
<1>9. PICK on \in [1 .. 2 -> 0 .. 2] : on = [i \in 1 .. 2 |-> 2]
  <2>1. [i \in 1 .. 2 |-> 2] \in [1 .. 2 -> 0 .. 2]
    OBVIOUS
  <2> QED
    BY <2>1
<1>10. PICK has \in BOOLEAN : has = (old.irq \/ irq)
  BY Zenon
<1>11. PICK ask \in AskType : ask = [on |-> on, out |-> old.out, switch |-> old.switch, irq |-> has]
  <2>1. [on |-> on, out |-> old.out, switch |-> old.switch, irq |-> has] \in AskType
    BY DEF AskType
  <2> QED
    BY <2>1
<1>12. ask.on = on /\ ask.out = old.out /\ ask.switch = old.switch /\ ask.irq = has
  BY <1>11 DEF AskType
<1>13. advAsked' = [advAsked EXCEPT ![c] = ask]
  <2>1. on = <<2, 2>>
    BY <1>9, <<2, 2>> = [i \in 1 .. 2 |-> 2]
  <2>2. [on |-> <<2, 2>>, out |-> old.out, switch |-> old.switch, irq |-> old.irq \/ irq] = ask
    BY <1>10, <1>11, <2>1, Zenon
  <2> QED
    BY <1>2, <1>3, <1>8, <2>2
<1>14. advBits' = new
  BY <1>2, <1>3, <1>4, <1>6
<1>15. Tells(new, ask, c)
  <2>1. \A f \in Outs(c) : on[f + 1] = 2
    BY <1>9 DEF Outs
  <2>2. \A f \in Outs(c) : Reads(new, c, f) = ask.on[f + 1] /\ (IsOut(new, c, f) <=> f \in ask.out)
    BY <1>5, <1>7, <1>8, <1>12, <2>1 DEF Tells, SameReads, SameOuts
  <2>3. HasIrq(new, c) <=> ask.irq
    BY <1>5, <1>7, <1>8, <1>10, <1>12 DEF Tells, SameIrqs
  <2>4. \A k \in {0, 1} : IsAt(new, c, k) <=> BitOf(ask.switch, k)
    BY <1>5, <1>7, <1>8, <1>12 DEF Tells, SamePlaces
  <2> QED
    BY <2>2, <2>3, <2>4 DEF Tells
<1>16. ASSUME NEW d \in Channel, d # c PROVE Tells(new, advAsked[d], d)
  BY <1>5, <1>7, <1>16 DEF Tells, TellAll, SameReads, SameOuts, SamePlaces, SameIrqs
<1> QED
  BY <1>7, <1>13, <1>14, <1>15, <1>16, OneAsked

\* A channel that listens: its polarity is that of its edge, and its pin is elsewhere.
LEMMA InputSet ==
    ASSUME NEW bits \in BitsType, NEW i \in AdvInputs, NEW c \in Channel, NEW new, new = Inputted(bits, i, c)
    PROVE  /\ new \in BitsType /\ SameOuts(bits, new) /\ SameIrqs(bits, new)
           /\ \A d \in Channel : \A g \in Outs(d) :
                 Reads(new, d, g) = IF d = c /\ g = 0 THEN i.edge ELSE Reads(bits, d, g)
           /\ \A d \in Channel : \A k \in {0, 1} :
                 IsAt(new, d, k) <=> IF d = c THEN BitOf(Switch(i.switch), k) ELSE IsAt(bits, d, k)
<1>1. PICK edge \in {0, 1} : edge = i.edge
  BY AdvAssumption
<1>2. i.switch \in Nat /\ 0 \in Outs(c)
  BY AdvAssumption DEF Outs
<1>3. PICK mid : mid = AppliedSwitch(bits, c, i.switch)
  OBVIOUS
<1>4. /\ mid \in BitsType /\ SameReads(bits, mid) /\ SameOuts(bits, mid) /\ SameIrqs(bits, mid)
      /\ \A d \in Channel : \A k \in {0, 1} :
            IsAt(mid, d, k) <=> IF d = c THEN BitOf(Switch(i.switch), k) ELSE IsAt(bits, d, k)
  BY <1>2, <1>3, SwitchApplied
<1>5. new = EnabledChannel(mid, c, 0, edge)
  BY <1>1, <1>3 DEF Inputted
<1>6. /\ new \in BitsType /\ SameOuts(mid, new) /\ SamePlaces(mid, new) /\ SameIrqs(mid, new)
      /\ \A d \in Channel : \A g \in Outs(d) :
            Reads(new, d, g) = IF d = c /\ g = 0 THEN edge ELSE Reads(mid, d, g)
  BY <1>2, <1>4, <1>5, ChannelEnabled
<1> QED
  BY <1>1, <1>4, <1>6 DEF SameReads, SameOuts, SamePlaces, SameIrqs

LEMMA ListeningIs ==
    ASSUME NEW old \in AskType, NEW i \in AdvInputs, NEW irq \in BOOLEAN, NEW ask, ask = Listening(old, i, irq)
    PROVE  /\ ask \in AskType
           /\ ask.on[1] = i.edge /\ ask.on[2] = old.on[2]
           /\ ask.out = old.out /\ ask.switch = Switch(i.switch) /\ ask.irq = irq
<1>1. PICK edge \in 0 .. 2 : edge = i.edge
  BY AdvAssumption
<1>2. PICK switch \in 0 .. 2 : switch = Switch(i.switch)
  BY AdvAssumption, SmallBits
<1>3. PICK on \in [1 .. 2 -> 0 .. 2] : on = [old.on EXCEPT ![1] = edge]
  <2>1. old.on \in [1 .. 2 -> 0 .. 2]
    BY DEF AskType
  <2>2. [old.on EXCEPT ![1] = edge] \in [1 .. 2 -> 0 .. 2]
    BY <2>1
  <2> QED
    BY <2>2
<1>4. on[1] = edge /\ on[2] = old.on[2]
  <2>1. old.on \in [1 .. 2 -> 0 .. 2]
    BY DEF AskType
  <2> QED
    BY <1>3, <2>1
<1>5. ask = [old EXCEPT !.on = on, !.switch = switch, !.irq = irq]
  BY <1>1, <1>2, <1>3 DEF Listening
<1>6. /\ ask \in AskType
      /\ ask.on = on /\ ask.out = old.out /\ ask.switch = switch /\ ask.irq = irq
  BY <1>5 DEF AskType
<1> QED
  BY <1>1, <1>2, <1>4, <1>6

\* The channel that came to listen is as asked, and any other is as it was.
LEMMA ListeningTells ==
    ASSUME NEW bits, NEW asked, TellAll(bits, asked), NEW i \in AdvInputs, NEW c \in Channel, NEW irq \in BOOLEAN,
           NEW new \in BitsType, NEW ask \in AskType, ask = Listening(asked[c], i, irq),
           \A d \in Channel : \A g \in Outs(d) :
              /\ Reads(new, d, g) = IF d = c /\ g = 0 THEN i.edge ELSE Reads(bits, d, g)
              /\ IsOut(new, d, g) <=> IsOut(bits, d, g),
           \A d \in Channel : \A k \in {0, 1} :
              IsAt(new, d, k) <=> IF d = c THEN BitOf(Switch(i.switch), k) ELSE IsAt(bits, d, k),
           \A d \in Channel : HasIrq(new, d) <=> IF d = c THEN irq ELSE HasIrq(bits, d)
    PROVE  TellAll(new, [asked EXCEPT ![c] = ask])
<1>1. PICK old \in AskType : old = asked[c] /\ Tells(bits, old, c)
  BY DEF TellAll, AskedType
<1>2. /\ ask.on[1] = i.edge /\ ask.on[2] = old.on[2]
      /\ ask.out = old.out /\ ask.switch = Switch(i.switch) /\ ask.irq = irq
  BY <1>1, ListeningIs
<1>3. \A f \in Outs(c) : (f = 0 /\ f + 1 = 1) \/ (f = 1 /\ f + 1 = 2)
  BY DEF Outs
<1>4. Tells(new, ask, c)
  <2>1. \A f \in Outs(c) : Reads(new, c, f) = ask.on[f + 1] /\ (IsOut(new, c, f) <=> f \in ask.out)
    BY <1>1, <1>2, <1>3 DEF Tells
  <2> QED
    BY <1>1, <1>2, <2>1 DEF Tells
<1>5. ASSUME NEW d \in Channel, d # c PROVE Tells(new, asked[d], d)
  BY <1>5 DEF Tells, TellAll
<1> QED
  BY <1>4, <1>5, OneAsked

LEMMA InitialiseCaptureTells ==
    ASSUME TellAll(advBits, advAsked), pwmInitialiseCapture PROVE TellAll(advBits, advAsked)'
<1>1. advBits \in BitsType /\ advAsked \in AskedType
  BY DEF TellAll
<1>2. PICK i \in AdvInputs :
         /\ advBits' = EnabledInterrupt(Inputted(advBits, i, i.channel), i.channel)
         /\ advAsked' = [advAsked EXCEPT ![i.channel] = Listening(@, i, TRUE)]
  BY DEF pwmInitialiseCapture
<1>3. PICK c \in Channel : c = i.channel
  BY AdvAssumption
<1>4. PICK mid : mid = Inputted(advBits, i, c)
  OBVIOUS
<1>5. /\ mid \in BitsType /\ SameOuts(advBits, mid) /\ SameIrqs(advBits, mid)
      /\ \A d \in Channel : \A g \in Outs(d) :
            Reads(mid, d, g) = IF d = c /\ g = 0 THEN i.edge ELSE Reads(advBits, d, g)
      /\ \A d \in Channel : \A k \in {0, 1} :
            IsAt(mid, d, k) <=> IF d = c THEN BitOf(Switch(i.switch), k) ELSE IsAt(advBits, d, k)
  BY <1>1, <1>4, InputSet
<1>6. PICK new : new = EnabledInterrupt(mid, c)
  OBVIOUS
<1>7. /\ new \in BitsType /\ SameReads(mid, new) /\ SameOuts(mid, new) /\ SamePlaces(mid, new)
      /\ \A d \in Channel : HasIrq(new, d) <=> HasIrq(mid, d) \/ d = c
  BY <1>5, <1>6, InterruptEnabled
<1>8. PICK ask : ask = Listening(advAsked[c], i, TRUE)
  OBVIOUS
<1>9. ask \in AskType
  <2>1. advAsked[c] \in AskType
    BY <1>1 DEF AskedType
  <2> QED
    BY <1>8, <2>1, ListeningIs
<1>10. advBits' = new
  BY <1>2, <1>3, <1>4, <1>6
<1>11. advAsked' = [advAsked EXCEPT ![c] = ask]
  BY <1>2, <1>3, <1>8
<1>12. /\ \A d \in Channel : \A g \in Outs(d) :
             /\ Reads(new, d, g) = IF d = c /\ g = 0 THEN i.edge ELSE Reads(advBits, d, g)
             /\ IsOut(new, d, g) <=> IsOut(advBits, d, g)
       /\ \A d \in Channel : \A k \in {0, 1} :
             IsAt(new, d, k) <=> IF d = c THEN BitOf(Switch(i.switch), k) ELSE IsAt(advBits, d, k)
       /\ \A d \in Channel : HasIrq(new, d) <=> IF d = c THEN TRUE ELSE HasIrq(advBits, d)
  BY <1>5, <1>7 DEF SameReads, SameOuts, SamePlaces, SameIrqs
<1>13. TellAll(new, [advAsked EXCEPT ![c] = ask])
  BY <1>7, <1>8, <1>9, <1>12, ListeningTells
<1> QED
  BY <1>10, <1>11, <1>13
\* A write that leaves every channel's fields as they were
LEMMA NothingTold ==
    ASSUME NEW bits, NEW asked, TellAll(bits, asked), NEW new \in BitsType,
           SameReads(bits, new), SameOuts(bits, new), SamePlaces(bits, new), SameIrqs(bits, new)
    PROVE  TellAll(new, asked)
  BY DEF TellAll, Tells, SameReads, SameOuts, SamePlaces, SameIrqs

LEMMA InputTells ==
    ASSUME NEW bits, NEW asked, TellAll(bits, asked), NEW i \in AdvInputs, NEW c \in Channel
    PROVE  TellAll(Inputted(bits, i, c), [asked EXCEPT ![c] = Listening(asked[c], i, asked[c].irq)])
<1>1. bits \in BitsType
  BY DEF TellAll
<1>2. PICK new : new = Inputted(bits, i, c)
  OBVIOUS
<1>3. /\ new \in BitsType /\ SameOuts(bits, new) /\ SameIrqs(bits, new)
      /\ \A d \in Channel : \A g \in Outs(d) :
            Reads(new, d, g) = IF d = c /\ g = 0 THEN i.edge ELSE Reads(bits, d, g)
      /\ \A d \in Channel : \A k \in {0, 1} :
            IsAt(new, d, k) <=> IF d = c THEN BitOf(Switch(i.switch), k) ELSE IsAt(bits, d, k)
  BY <1>1, <1>2, InputSet
<1>4. PICK irq \in BOOLEAN : irq = asked[c].irq /\ (irq <=> HasIrq(bits, c))
  <2>1. asked[c].irq \in BOOLEAN /\ (asked[c].irq <=> HasIrq(bits, c))
    BY DEF TellAll, AskedType, AskType, Tells
  <2> QED
    BY <2>1, Zenon
<1>5. PICK ask : ask = Listening(asked[c], i, irq)
  OBVIOUS
<1>6. ask \in AskType
  <2>1. asked[c] \in AskType
    BY DEF TellAll, AskedType
  <2> QED
    BY <1>5, <2>1, ListeningIs
<1>7. /\ \A d \in Channel : \A g \in Outs(d) :
            /\ Reads(new, d, g) = IF d = c /\ g = 0 THEN i.edge ELSE Reads(bits, d, g)
            /\ IsOut(new, d, g) <=> IsOut(bits, d, g)
      /\ \A d \in Channel : HasIrq(new, d) <=> IF d = c THEN irq ELSE HasIrq(bits, d)
  BY <1>3, <1>4 DEF SameOuts, SameIrqs
<1>8. TellAll(new, [asked EXCEPT ![c] = ask])
  BY <1>3, <1>5, <1>6, <1>7, ListeningTells
<1> QED
  BY <1>2, <1>4, <1>5, <1>8

\* A channel whose interrupt is enabled, whether it was or not
LEMMA InterruptTells ==
    ASSUME NEW bits, NEW asked, TellAll(bits, asked), NEW c \in Channel
    PROVE  TellAll(EnabledInterrupt(bits, c), [asked EXCEPT ![c] = [asked[c] EXCEPT !.irq = TRUE]])
<1>1. bits \in BitsType
  BY DEF TellAll
<1>2. PICK new : new = EnabledInterrupt(bits, c)
  OBVIOUS
<1>3. /\ new \in BitsType /\ SameReads(bits, new) /\ SameOuts(bits, new) /\ SamePlaces(bits, new)
      /\ \A d \in Channel : HasIrq(new, d) <=> HasIrq(bits, d) \/ d = c
  BY <1>1, <1>2, InterruptEnabled
<1>4. PICK old \in AskType : old = asked[c] /\ Tells(bits, old, c)
  BY DEF TellAll, AskedType
<1>5. PICK ask \in AskType : ask = [old EXCEPT !.irq = TRUE]
  <2>1. [old EXCEPT !.irq = TRUE] \in AskType
    BY DEF AskType
  <2> QED
    BY <2>1
<1>6. ask.on = old.on /\ ask.out = old.out /\ ask.switch = old.switch /\ ask.irq = TRUE
  BY <1>5 DEF AskType
<1>7. Tells(new, ask, c)
  BY <1>3, <1>4, <1>6 DEF Tells, SameReads, SameOuts, SamePlaces
<1>8. ASSUME NEW d \in Channel, d # c PROVE Tells(new, asked[d], d)
  BY <1>3, <1>8 DEF Tells, TellAll, SameReads, SameOuts, SamePlaces
<1>9. TellAll(new, [asked EXCEPT ![c] = ask])
  BY <1>3, <1>7, <1>8, OneAsked
<1> QED
  BY <1>2, <1>4, <1>5, <1>9

LEMMA CounterIerTells ==
    ASSUME NEW bits, NEW asked, TellAll(bits, asked), NEW n \in Counter, NEW com, NEW update
    PROVE  TellAll(CounterIer(bits, n, com, update), asked)
<1>1. bits \in BitsType
  BY DEF TellAll
<1>2. PICK S \in SUBSET Nat : S = (bits[n].IER \ {0, 5}) \cup (IF com THEN {5} ELSE {}) \cup (IF update THEN {0} ELSE {})
  <2>1. bits[n].IER \in SUBSET Nat
    BY <1>1 DEF BitsType
  <2>2. (bits[n].IER \ {0, 5}) \cup (IF com THEN {5} ELSE {}) \cup (IF update THEN {0} ELSE {}) \in SUBSET Nat
    BY <2>1
  <2> QED
    BY <2>2
<1>3. PICK new : new = CounterIer(bits, n, com, update)
  OBVIOUS
<1>4. new = [bits EXCEPT ![n].IER = S]
  BY <1>2, <1>3 DEF CounterIer
<1>5. \A b \in 1 .. 4 : b \in S <=> b \in bits[n].IER
  BY <1>2
<1>6. new \in BitsType /\ SameReads(bits, new) /\ SameOuts(bits, new) /\ SamePlaces(bits, new) /\ SameIrqs(bits, new)
  BY <1>1, <1>4, <1>5, CounterInterrupts
<1> QED
  BY <1>3, <1>6, NothingTold

\* pwmConfigureFaultDetection and pwmConfigureExternalTrigger
LEMMA CounterInterruptTells ==
    ASSUME NEW bits, NEW asked, TellAll(bits, asked), NEW n \in Counter, NEW irq, NEW b \in {6, 7}
    PROVE  TellAll([bits EXCEPT ![n].IER = IF irq THEN @ \cup {b} ELSE @], asked)
<1>1. bits \in BitsType
  BY DEF TellAll
<1>2. PICK S \in SUBSET Nat : S = IF irq THEN bits[n].IER \cup {b} ELSE bits[n].IER
  <2>1. bits[n].IER \in SUBSET Nat
    BY <1>1 DEF BitsType
  <2>2. (IF irq THEN bits[n].IER \cup {b} ELSE bits[n].IER) \in SUBSET Nat
    BY <2>1
  <2> QED
    BY <2>2
<1>3. PICK new : new = [bits EXCEPT ![n].IER = IF irq THEN @ \cup {b} ELSE @]
  OBVIOUS
<1>4. new = [bits EXCEPT ![n].IER = S]
  BY <1>2, <1>3
<1>5. \A a \in 1 .. 4 : a \in S <=> a \in bits[n].IER
  BY <1>2
<1>6. new \in BitsType /\ SameReads(bits, new) /\ SameOuts(bits, new) /\ SamePlaces(bits, new) /\ SameIrqs(bits, new)
  BY <1>1, <1>4, <1>5, CounterInterrupts
<1> QED
  BY <1>3, <1>6, NothingTold

LEMMA QuadratureTells ==
    ASSUME TellAll(advBits, advAsked), pwmInitialiseQuadratureEncoder PROVE TellAll(advBits, advAsked)'
<1>1. PICK n \in Counter, i \in AdvInputs : advBits' = EncoderBits(advBits, n, i) /\ advAsked' = EncoderAsked(advAsked, n, i)
  BY DEF pwmInitialiseQuadratureEncoder
<1>2. PICK first \in {0, 4} : first = FirstOf(n)
  BY DEF FirstOf
<1>3. PICK second \in {1, 5} : second = first + 1 /\ second \in Channel /\ first \in Channel /\ first # second
  BY DEF Channel
<1>4. PICK bits1 : bits1 = CounterIer(advBits, n, FALSE, FALSE)
  OBVIOUS
<1>5. TellAll(bits1, advAsked)
  BY <1>4, CounterIerTells
<1>6. PICK bits2 : bits2 = Inputted(bits1, i, first)
  OBVIOUS
<1>7. PICK asked2 : asked2 = [advAsked EXCEPT ![first] = Listening(advAsked[first], i, advAsked[first].irq)]
  OBVIOUS
<1>8. TellAll(bits2, asked2)
  BY <1>3, <1>5, <1>6, <1>7, InputTells
<1>9. PICK bits3 : bits3 = Inputted(bits2, i, second)
  OBVIOUS
<1>10. PICK asked3 : asked3 = [asked2 EXCEPT ![second] = Listening(asked2[second], i, asked2[second].irq)]
  OBVIOUS
<1>11. TellAll(bits3, asked3)
  BY <1>3, <1>8, <1>9, <1>10, InputTells
<1>12. PICK asked4 : asked4 = [asked3 EXCEPT ![first] = [asked3[first] EXCEPT !.irq = TRUE]]
  OBVIOUS
<1>13. TellAll(EnabledInterrupt(bits3, first), asked4)
  BY <1>3, <1>11, <1>12, InterruptTells
<1>14. advBits' = EnabledInterrupt(bits3, first)
  BY <1>1, <1>2, <1>3, <1>4, <1>6, <1>9 DEF EncoderBits
<1>15. advAsked \in AskedType /\ asked2 \in AskedType /\ asked3 \in AskedType /\ asked4 \in AskedType
  BY <1>5, <1>8, <1>11, <1>13 DEF TellAll
<1>16. /\ asked2[first] = Listening(advAsked[first], i, advAsked[first].irq)
       /\ \A c \in Channel \ {first} : asked2[c] = advAsked[c]
  BY <1>3, <1>7, <1>15 DEF AskedType
<1>17. /\ asked3[second] = Listening(asked2[second], i, asked2[second].irq)
       /\ \A c \in Channel \ {second} : asked3[c] = asked2[c]
  BY <1>3, <1>10, <1>15 DEF AskedType
<1>18. /\ asked4[first] = [asked3[first] EXCEPT !.irq = TRUE]
       /\ \A c \in Channel \ {first} : asked4[c] = asked3[c]
  BY <1>3, <1>12, <1>15 DEF AskedType
<1>19. \A c \in Channel :
          EncoderAsked(advAsked, n, i)[c] = IF c = first THEN Listening(advAsked[c], i, TRUE)
                                            ELSE IF c = second THEN Listening(advAsked[c], i, advAsked[c].irq)
                                            ELSE advAsked[c]
  BY <1>2, <1>3 DEF EncoderAsked
<1>20. ASSUME NEW c \in Channel PROVE EncoderAsked(advAsked, n, i)[c] = asked4[c]
  <2>1. CASE c = first
    <3>1. PICK old \in AskType : old = advAsked[c]
      BY <1>15 DEF AskedType
    <3>2. PICK was \in AskType : was = Listening(old, i, old.irq)
      <4>1. old.irq \in BOOLEAN
        BY DEF AskType
      <4> QED
        BY <4>1, ListeningIs
    <3>3. asked4[c] = [was EXCEPT !.irq = TRUE]
      BY <1>3, <1>16, <1>17, <1>18, <2>1, <3>1, <3>2
    <3>4. [was EXCEPT !.irq = TRUE] = Listening(old, i, TRUE)
      BY <3>2 DEF Listening, AskType
    <3> QED
      BY <1>19, <2>1, <3>1, <3>3, <3>4
  <2>2. CASE c = second
    BY <1>3, <1>16, <1>17, <1>18, <1>19, <2>2
  <2>3. CASE c # first /\ c # second
    <3>1. asked4[c] = asked3[c] /\ asked3[c] = asked2[c] /\ asked2[c] = advAsked[c]
      BY <1>16, <1>17, <1>18, <2>3
    <3> QED
      BY <1>19, <2>3, <3>1
  <2> QED
    BY <2>1, <2>2, <2>3
<1>21. EncoderAsked(advAsked, n, i) = asked4
  <2>1. EncoderAsked(advAsked, n, i) = [c \in Channel |-> EncoderAsked(advAsked, n, i)[c]]
    BY DEF EncoderAsked
  <2>2. asked4 = [c \in Channel |-> asked4[c]]
    BY <1>15 DEF AskedType
  <2> QED
    BY <1>20, <2>1, <2>2
<1> QED
  BY <1>1, <1>13, <1>14, <1>21
-----------------------------------------------------------------------------
CtrType == [Counter -> [mode : Nat, psc : Nat, arr : Nat, cen : BOOLEAN, moe : BOOLEAN, dtr : Nat, bkps : Nat, etps : Nat]]

DeadTold(ctr, dead) ==
    /\ ctr \in CtrType /\ dead \in [Counter -> Nat]
    /\ \A n \in Counter : ctr[n].dtr = DeadTimeRegister(dead[n])

\* The invariant of the advanced PWM
AdvInv == TellAll(advBits, advAsked) /\ DeadTold(advCtr, advDead)

LEMMA RegisterType == \A pulses \in Nat : DeadTimeRegister(pulses) \in Nat
<1> SUFFICES ASSUME NEW pulses \in Nat PROVE DeadTimeRegister(pulses) \in Nat
  OBVIOUS
<1>1. ((pulses \div 2) - 64) % 128 \in Nat /\ ((pulses \div 8) - 32) % 64 \in Nat /\ ((pulses \div 16) - 32) % 32 \in Nat
  <2>1. pulses \div 2 \in Nat /\ pulses \div 8 \in Nat /\ pulses \div 16 \in Nat
    OBVIOUS
  <2>2. \A q \in Nat : (q - 64) % 128 \in Nat /\ (q - 32) % 64 \in Nat /\ (q - 32) % 32 \in Nat
    OBVIOUS
  <2> QED
    BY <2>1, <2>2
<1> QED
  BY <1>1 DEF DeadTimeRegister

\* What does not write a dead time leaves it as it was told.
LEMMA DeadTimeLeft ==
    ASSUME NEW ctr, NEW dead, DeadTold(ctr, dead), NEW new \in CtrType, \A n \in Counter : new[n].dtr = ctr[n].dtr
    PROVE  DeadTold(new, dead)
  BY DEF DeadTold

LEMMA ReloadMax == RELOAD_MAX \in Nat
  BY SMT DEF RELOAD_MAX

LEMMA CounterSetType ==
    ASSUME NEW ctr \in CtrType, NEW n \in Counter, NEW mode \in Nat, NEW psc \in Nat, NEW arr \in Nat, NEW cen \in BOOLEAN
    PROVE  /\ CounterSet(ctr, n, mode, psc, arr, cen) \in CtrType
           /\ \A m \in Counter : CounterSet(ctr, n, mode, psc, arr, cen)[m].dtr = ctr[m].dtr
<1>1. PICK rec : rec = [ctr[n] EXCEPT !.mode = mode, !.psc = psc, !.arr = arr, !.cen = cen]
  OBVIOUS
<1>2. /\ rec \in [mode : Nat, psc : Nat, arr : Nat, cen : BOOLEAN, moe : BOOLEAN, dtr : Nat, bkps : Nat, etps : Nat]
      /\ rec.dtr = ctr[n].dtr
  <2>1. PICK old \in [mode : Nat, psc : Nat, arr : Nat, cen : BOOLEAN, moe : BOOLEAN, dtr : Nat, bkps : Nat, etps : Nat] :
           old = ctr[n]
    BY DEF CtrType
  <2>2. rec = [mode |-> mode, psc |-> psc, arr |-> arr, cen |-> cen, moe |-> old.moe, dtr |-> old.dtr,
               bkps |-> old.bkps, etps |-> old.etps]
    BY <1>1, <2>1
  <2> QED
    BY <2>1, <2>2
<1>3. CounterSet(ctr, n, mode, psc, arr, cen) = [ctr EXCEPT ![n] = rec]
  BY <1>1 DEF CounterSet
<1> QED
  BY <1>2, <1>3 DEF CtrType

LEMMA AdvInvInit == AdvInit => AdvInv
<1> SUFFICES ASSUME AdvInit PROVE AdvInv
  OBVIOUS
<1>1. /\ advBits \in BitsType
      /\ \A n \in Counter : /\ advBits[n].CCER1 = {} /\ advBits[n].CCER2 = {} /\ advBits[n].ENO = {}
                            /\ advBits[n].PS = {} /\ advBits[n].IER = {}
  BY DEF AdvInit, BitsType
<1>2. PICK on \in [1 .. 2 -> 0 .. 2] : on = [i \in 1 .. 2 |-> 2]
  <2>1. [i \in 1 .. 2 |-> 2] \in [1 .. 2 -> 0 .. 2]
    OBVIOUS
  <2> QED
    BY <2>1
<1>3. NothingAsked \in AskType /\ NothingAsked.on = on /\ NothingAsked.out = {} /\ NothingAsked.switch = 0
      /\ NothingAsked.irq = FALSE
  <2>1. on = <<2, 2>>
    BY <1>2, <<2, 2>> = [i \in 1 .. 2 |-> 2]
  <2> QED
    BY <2>1 DEF NothingAsked, AskType
<1>4. advAsked \in AskedType /\ \A c \in Channel : advAsked[c] = NothingAsked
  BY <1>3 DEF AdvInit, AskedType
<1>5. ASSUME NEW c \in Channel PROVE Tells(advBits, NothingAsked, c)
  <2>1. CounterOf(c) \in Counter /\ \A f \in Outs(c) : f + 1 \in 1 .. 2
    BY Positions DEF Outs
  <2>2. \A f \in Outs(c) : Reads(advBits, c, f) = 2 /\ ~IsOut(advBits, c, f)
    BY <1>1, <2>1 DEF Reads, IsOut, HasBit
  <2>3. ~HasIrq(advBits, c) /\ \A k \in {0, 1} : ~IsAt(advBits, c, k)
    BY <1>1, <2>1 DEF HasIrq, IsAt
  <2>4. \A k \in {0, 1} : ~BitOf(0, k)
    BY DEF BitOf
  <2> QED
    BY <1>2, <1>3, <2>1, <2>2, <2>3, <2>4 DEF Tells
<1>6. advCtr \in CtrType /\ advDead \in [Counter -> Nat] /\ \A n \in Counter : advCtr[n].dtr = 0 /\ advDead[n] = 0
  BY ReloadMax DEF AdvInit, CtrType
<1>7. DeadTimeRegister(0) = 0
  BY DEF DeadTimeRegister
<1> QED
  BY <1>1, <1>4, <1>5, <1>6, <1>7 DEF AdvInv, TellAll, DeadTold

LEMMA CounterCalls ==
    ASSUME AdvInv,
           pwmConfigureCounter \/ pwmSwitchCounter \/ pwmConfigureDeadTime \/ pwmConfigureFaultDetection \/ pwmConfigureExternalTrigger
    PROVE  AdvInv'
<1>1. advCtr \in CtrType
  BY DEF AdvInv, DeadTold
<1>2. TellAll(advBits, advAsked) /\ DeadTold(advCtr, advDead)
  BY DEF AdvInv
<1>3. CASE pwmConfigureCounter
  <2>1. PICK n \in Counter, com \in BOOLEAN, update \in BOOLEAN :
           /\ advCtr' = CounterSet(advCtr, n, 0, 1, 9, FALSE)
           /\ advBits' = CounterIer(advBits, n, com, update)
           /\ advAsked' = advAsked /\ advDead' = advDead
    BY <1>3 DEF pwmConfigureCounter
  <2>2. TellAll(advBits', advAsked')
    BY <1>2, <2>1, CounterIerTells
  <2>3. advCtr' \in CtrType /\ \A m \in Counter : advCtr'[m].dtr = advCtr[m].dtr
    <3>1. PICK cen \in BOOLEAN : cen = FALSE
      OBVIOUS
    <3>2. advCtr' = CounterSet(advCtr, n, 0, 1, 9, cen)
      BY <2>1, <3>1
    <3> QED
      BY <1>1, <3>2, CounterSetType, SMTT(30)
  <2>4. DeadTold(advCtr', advDead)
    BY <1>2, <2>3, DeadTimeLeft
  <2> QED
    BY <2>1, <2>2, <2>4 DEF AdvInv
<1>4. CASE pwmSwitchCounter
  <2>1. advBits' = advBits /\ advAsked' = advAsked /\ advDead' = advDead
    BY <1>4 DEF pwmSwitchCounter
  <2>2. advCtr' \in CtrType /\ \A m \in Counter : advCtr'[m].dtr = advCtr[m].dtr
    <3>1. PICK n \in Counter, on \in BOOLEAN : advCtr' = [advCtr EXCEPT ![n].moe = on] \/ advCtr' = [advCtr EXCEPT ![n].cen = on]
      BY <1>4 DEF pwmSwitchCounter
    <3> QED
      BY <1>1, <3>1 DEF CtrType
  <2>3. DeadTold(advCtr', advDead)
    BY <1>2, <2>2, DeadTimeLeft
  <2> QED
    BY <1>2, <2>1, <2>3 DEF AdvInv
<1>5. CASE pwmConfigureDeadTime
  <2>1. PICK n \in Counter, pulses \in AdvPulses :
           /\ advCtr' = [advCtr EXCEPT ![n].dtr = DeadTimeRegister(pulses)]
           /\ advDead' = [advDead EXCEPT ![n] = pulses]
           /\ advBits' = advBits /\ advAsked' = advAsked
    BY <1>5 DEF pwmConfigureDeadTime
  <2>2. PICK dtr \in Nat : dtr = DeadTimeRegister(pulses)
    BY RegisterType, AdvAssumption
  <2>3. pulses \in Nat
    BY AdvAssumption
  <2>4. /\ advCtr' \in CtrType
        /\ \A m \in Counter : advCtr'[m].dtr = IF m = n THEN dtr ELSE advCtr[m].dtr
    BY <1>1, <2>1, <2>2 DEF CtrType
  <2>5. /\ advDead' \in [Counter -> Nat]
        /\ \A m \in Counter : advDead'[m] = IF m = n THEN pulses ELSE advDead[m]
    BY <1>2, <2>1, <2>3 DEF DeadTold
  <2>6. DeadTold(advCtr', advDead')
    BY <1>2, <2>2, <2>4, <2>5 DEF DeadTold
  <2> QED
    BY <1>2, <2>1, <2>6 DEF AdvInv
<1>6. CASE pwmConfigureFaultDetection
  <2>1. PICK n \in Counter, trigger \in {0, 1}, irq \in BOOLEAN :
           /\ advCtr' = [advCtr EXCEPT ![n] = [@ EXCEPT !.moe = TRUE, !.bkps = trigger]]
           /\ advBits' = [advBits EXCEPT ![n].IER = IF irq THEN @ \cup {7} ELSE @]
           /\ advAsked' = advAsked /\ advDead' = advDead
    BY <1>6 DEF pwmConfigureFaultDetection
  <2>2. TellAll(advBits', advAsked')
    BY <1>2, <2>1, CounterInterruptTells
  <2>3. advCtr' \in CtrType /\ \A m \in Counter : advCtr'[m].dtr = advCtr[m].dtr
    <3> DEFINE Regs == [mode : Nat, psc : Nat, arr : Nat, cen : BOOLEAN, moe : BOOLEAN, dtr : Nat, bkps : Nat, etps : Nat]
    <3>1. PICK old \in Regs : old = advCtr[n]
      BY <1>1 DEF CtrType
    <3>2. PICK moe \in BOOLEAN : moe = TRUE
      OBVIOUS
    <3>4. PICK rec \in Regs : rec = [old EXCEPT !.moe = moe, !.bkps = trigger] /\ rec.dtr = old.dtr
      <4>1. PICK rec : rec = [old EXCEPT !.moe = moe, !.bkps = trigger]
        OBVIOUS
      <4>2. rec = [mode |-> old.mode, psc |-> old.psc, arr |-> old.arr, cen |-> old.cen, moe |-> moe, dtr |-> old.dtr,
                   bkps |-> trigger, etps |-> old.etps]
        BY <4>1
      <4>3. rec \in Regs /\ rec.dtr = old.dtr
        BY <4>2
      <4> QED
        BY <4>1, <4>3
    <3>3. advCtr' = [advCtr EXCEPT ![n] = rec]
      BY <2>1, <3>1, <3>2, <3>4
    <3> QED
      BY <1>1, <3>1, <3>3, <3>4 DEF CtrType
  <2>4. DeadTold(advCtr', advDead)
    BY <1>2, <2>3, DeadTimeLeft
  <2> QED
    BY <2>1, <2>2, <2>4 DEF AdvInv
<1>7. CASE pwmConfigureExternalTrigger
  <2>1. PICK n \in Counter, pinSwitch \in 0 .. 3, irq \in BOOLEAN :
           IF TriggerPin(pinSwitch, n) = NO_PIN THEN UNCHANGED <<advModes, advCtr, advBits>>
           ELSE /\ advModes' = Configure(advModes, TriggerPin(pinSwitch, n), 2)
                /\ advCtr' = [advCtr EXCEPT ![n].etps = Switch(pinSwitch)]
                /\ advBits' = [advBits EXCEPT ![n].IER = IF irq THEN @ \cup {6} ELSE @]
    BY <1>7 DEF pwmConfigureExternalTrigger
  <2>2. advAsked' = advAsked /\ advDead' = advDead
    BY <1>7 DEF pwmConfigureExternalTrigger
  <2>3. CASE TriggerPin(pinSwitch, n) = NO_PIN
    <3>1. advCtr' = advCtr /\ advBits' = advBits
      BY <2>1, <2>3
    <3> QED
      BY <1>2, <2>2, <3>1 DEF AdvInv
  <2>4. CASE TriggerPin(pinSwitch, n) # NO_PIN
    <3>1. /\ advCtr' = [advCtr EXCEPT ![n].etps = Switch(pinSwitch)]
          /\ advBits' = [advBits EXCEPT ![n].IER = IF irq THEN @ \cup {6} ELSE @]
      BY <2>1, <2>4
    <3>2. TellAll(advBits', advAsked')
      BY <1>2, <2>2, <3>1, CounterInterruptTells
    <3>3. PICK switch \in Nat : switch = Switch(pinSwitch)
      BY SmallBits
    <3>4. advCtr' \in CtrType /\ \A m \in Counter : advCtr'[m].dtr = advCtr[m].dtr
      BY <1>1, <3>1, <3>3 DEF CtrType
    <3>5. DeadTold(advCtr', advDead)
      BY <1>2, <3>4, DeadTimeLeft
    <3> QED
      BY <2>2, <3>2, <3>5 DEF AdvInv
  <2> QED
    BY <2>3, <2>4
<1> QED
  BY <1>3, <1>4, <1>5, <1>6, <1>7

LEMMA AdvInvNext == ASSUME AdvInv, [AdvNext]_advVars PROVE AdvInv'
<1>1. TellAll(advBits, advAsked) /\ DeadTold(advCtr, advDead)
  BY DEF AdvInv
<1>2. CASE UNCHANGED advVars
  <2>1. advBits' = advBits /\ advAsked' = advAsked /\ advCtr' = advCtr /\ advDead' = advDead
    BY <1>2 DEF advVars
  <2> QED
    BY <1>1, <2>1 DEF AdvInv
<1>3. CASE pwmConfigureOutput \/ pwmSwitchChannelOutput \/ pwmInitialisePWM \/ pwmInitialiseCapture
  <2>1. advCtr' = advCtr /\ advDead' = advDead
    BY <1>3 DEF pwmConfigureOutput, pwmSwitchChannelOutput, pwmInitialisePWM, pwmInitialiseCapture
  <2>2. TellAll(advBits, advAsked)'
    BY <1>1, <1>3, ConfigureOutputTells, SwitchChannelOutputTells, InitialisePWMTells, InitialiseCaptureTells
  <2> QED
    BY <1>1, <2>1, <2>2 DEF AdvInv
<1>4. CASE pwmChange
  <2>1. advBits' = advBits /\ advAsked' = advAsked /\ advCtr' = advCtr /\ advDead' = advDead
    BY <1>4 DEF pwmChange
  <2> QED
    BY <1>1, <2>1 DEF AdvInv
<1>5. CASE pwmInitialiseQuadratureEncoder
  <2>1. PICK n \in Counter : advCtr' = CounterSet(advCtr, n, 3, 0, RELOAD_MAX, TRUE)
    BY <1>5 DEF pwmInitialiseQuadratureEncoder
  <2>2. advCtr \in CtrType
    BY <1>1 DEF DeadTold
  <2>3. advCtr' \in CtrType /\ \A m \in Counter : advCtr'[m].dtr = advCtr[m].dtr
    <3>1. PICK reload \in Nat, cen \in BOOLEAN : reload = RELOAD_MAX /\ cen = TRUE
      BY ReloadMax
    <3>2. advCtr' = CounterSet(advCtr, n, 3, 0, reload, cen)
      BY <2>1, <3>1
    <3> QED
      BY <2>2, <3>2, CounterSetType
  <2>4. DeadTold(advCtr', advDead)
    BY <1>1, <2>3, DeadTimeLeft
  <2>5. advDead' = advDead
    BY <1>5 DEF pwmInitialiseQuadratureEncoder
  <2>6. TellAll(advBits, advAsked)'
    BY <1>1, <1>5, QuadratureTells
  <2> QED
    BY <2>4, <2>5, <2>6 DEF AdvInv
<1> QED
  BY <1>2, <1>3, <1>4, <1>5, CounterCalls DEF AdvNext

LEMMA AdvPromises == AdvInv => ChannelsApart /\ DeadTimeAsAsked
<1> SUFFICES ASSUME AdvInv PROVE ChannelsApart /\ DeadTimeAsAsked
  OBVIOUS
<1>1. advBits \in BitsType /\ advAsked \in AskedType /\ \A c \in Channel : Tells(advBits, advAsked[c], c)
  BY DEF AdvInv, TellAll
<1>2. ASSUME NEW c \in Channel, NEW f \in Outs(c) PROVE ReadOn(c, f) = Reads(advBits, c, f)
  <2>1. PICK n \in Counter : n = CounterOf(c)
    BY Positions
  <2>2. PICK p \in 0 .. 14 : p = ChannelBit(c, f)
    BY Positions
  <2>3. advBits[n].CCER1 \subseteq 0 .. 7 /\ advBits[n].CCER2 \subseteq 0 .. 7
    BY <1>1 DEF BitsType
  <2> DEFINE ccer == advBits[n].CCER1 \cup {b + 8 : b \in advBits[n].CCER2}
  <2>4. \A q \in 0 .. 15 : q \in ccer <=> HasBit(advBits, n, q)
    <3> SUFFICES ASSUME NEW q \in 0 .. 15 PROVE q \in ccer <=> HasBit(advBits, n, q)
      OBVIOUS
    <3>1. CASE q > 7
      <4>1. q \notin advBits[n].CCER1
        BY <2>3, <3>1
      <4>2. q \in {b + 8 : b \in advBits[n].CCER2} <=> q - 8 \in advBits[n].CCER2
        BY <2>3
      <4> QED
        BY <3>1, <4>1, <4>2 DEF HasBit
    <3>2. CASE ~(q > 7)
      <4>1. q \notin {b + 8 : b \in advBits[n].CCER2}
        BY <2>3, <3>2
      <4> QED
        BY <3>2, <4>1 DEF HasBit
    <3> QED
      BY <3>1, <3>2
  <2>5. (p \in ccer <=> HasBit(advBits, n, p)) /\ (p + 1 \in ccer <=> HasBit(advBits, n, p + 1))
    <3>1. p \in 0 .. 15 /\ p + 1 \in 0 .. 15
      OBVIOUS
    <3> HIDE DEF ccer
    <3> QED
      BY <2>4, <3>1
  <2>6. ReadOn(c, f) = IF p \notin ccer THEN 2 ELSE IF p + 1 \in ccer THEN 1 ELSE 0
    BY <2>1, <2>2 DEF ReadOn
  <2> HIDE DEF ccer
  <2> QED
    BY <2>1, <2>2, <2>5, <2>6 DEF Reads
<1>3. ChannelsApart
  <2> SUFFICES ASSUME NEW c \in Channel
      PROVE  /\ ReadOn(c, 0) = advAsked[c].on[1]
             /\ c < 4 => ReadOn(c, 1) = advAsked[c].on[2]
             /\ \A offset \in {0} \cup (IF c < 4 THEN {1} ELSE {}) :
                   OutputBit(c, offset) \in advBits[CounterOf(c)].ENO <=> offset \in advAsked[c].out
             /\ {b - 2 * (c % 4) : b \in advBits[CounterOf(c)].PS \cap {2 * (c % 4), 2 * (c % 4) + 1}}
                   = BitsAt(advAsked[c].switch, 0)
             /\ (c % 4) + 1 \in advBits[CounterOf(c)].IER <=> advAsked[c].irq
    BY DEF ChannelsApart
  <2>1. PICK ask \in AskType : ask = advAsked[c] /\ Tells(advBits, ask, c)
    BY <1>1 DEF AskedType
  <2>2. 0 \in Outs(c) /\ 0 + 1 = 1
    BY DEF Outs
  <2>3. ReadOn(c, 0) = ask.on[1]
    BY <1>2, <2>1, <2>2 DEF Tells
  <2>4. c < 4 => ReadOn(c, 1) = ask.on[2]
    <3>1. c < 4 => 1 \in Outs(c) /\ 1 + 1 = 2
      BY DEF Outs
    <3> QED
      BY <1>2, <2>1, <3>1 DEF Tells
  <2>5. \A offset \in Outs(c) : OutputBit(c, offset) \in advBits[CounterOf(c)].ENO <=> offset \in ask.out
    BY <2>1 DEF Tells, IsOut
  <2>6. (c % 4) + 1 \in advBits[CounterOf(c)].IER <=> ask.irq
    BY <2>1 DEF Tells, HasIrq
  <2>7. {b - 2 * (c % 4) : b \in advBits[CounterOf(c)].PS \cap {2 * (c % 4), 2 * (c % 4) + 1}} = BitsAt(ask.switch, 0)
    <3>1. PICK p \in Nat : p = 2 * (c % 4)
      BY DEF Channel
    <3>2. PICK v \in 0 .. 3 : v = ask.switch
      BY DEF AskType
    <3>3. PICK PS : PS = advBits[CounterOf(c)].PS
      OBVIOUS
    <3>4. (p \in PS <=> v % 2 = 1) /\ (p + 1 \in PS <=> v \div 2 = 1)
      <4>1. \A k \in {0, 1} : p + k \in PS <=> BitOf(v, k)
        BY <2>1, <3>1, <3>2, <3>3 DEF Tells, IsAt
      <4>2. p + 0 = p
        OBVIOUS
      <4> QED
        BY <4>1, <4>2 DEF BitOf
    <3>5. BitsAt(v, 0) = (IF v % 2 = 1 THEN {0} ELSE {}) \cup (IF v \div 2 = 1 THEN {1} ELSE {})
      <4>1. BitsAt(v, 0) = (IF v % 2 = 1 THEN {0} ELSE {}) \cup (IF v \div 2 = 1 THEN {0 + 1} ELSE {})
        BY SmallBits
      <4> QED
        BY <4>1
    <3>6. {b - p : b \in PS \cap {p, p + 1}} = (IF p \in PS THEN {0} ELSE {}) \cup (IF p + 1 \in PS THEN {1} ELSE {})
      <4>1. p - p = 0 /\ (p + 1) - p = 1
        OBVIOUS
      <4>2. ASSUME NEW x \in {b - p : b \in PS \cap {p, p + 1}} PROVE (x = 0 /\ p \in PS) \/ (x = 1 /\ p + 1 \in PS)
        BY <4>1
      <4>3. /\ p \in PS => 0 \in {b - p : b \in PS \cap {p, p + 1}}
            /\ p + 1 \in PS => 1 \in {b - p : b \in PS \cap {p, p + 1}}
        BY <4>1
      <4> QED
        BY <4>2, <4>3
    <3> QED
      BY <3>1, <3>2, <3>3, <3>4, <3>5, <3>6
  <2> QED
    BY <2>1, <2>3, <2>4, <2>5, <2>6, <2>7 DEF Outs
<1>4. DeadTimeAsAsked
  <2> SUFFICES ASSUME NEW n \in Counter
      PROVE  LET got == DeadTime(advCtr[n].dtr)
                 step == IF advDead[n] < 128 THEN 1 ELSE IF advDead[n] < 255 THEN 2 ELSE IF advDead[n] < 505 THEN 8 ELSE 16
             IN  IF advDead[n] > 1008 \/ advDead[n] \in {255} \cup 505 .. 511 THEN got = 1008
                 ELSE got <= advDead[n] /\ got > advDead[n] - step
    BY DEF DeadTimeAsAsked
  <2>1. PICK pulses \in Nat : pulses = advDead[n] /\ advCtr[n].dtr = DeadTimeRegister(pulses)
    BY DEF AdvInv, DeadTold
  <2>2. IF pulses > 1008 \/ pulses \in {255} \cup 505 .. 511
        THEN DeadTime(DeadTimeRegister(pulses)) = 1008
        ELSE /\ DeadTime(DeadTimeRegister(pulses)) <= pulses
             /\ DeadTime(DeadTimeRegister(pulses)) > pulses - DeadTimeStep(pulses)
    BY DeadTimeOf
  <2> QED
    BY <2>1, <2>2 DEF DeadTimeStep
<1> QED
  BY <1>3, <1>4

LEMMA AdvInvAlways == AdvSpec => []AdvInv
  BY AdvInvInit, AdvInvNext, PTL DEF AdvSpec

-----------------------------------------------------------------------------
(***************************************************************************)
(* The enhanced PWM.                                                       *)
(***************************************************************************)
EnhCrs  == [on : BOOLEAN, switch : Nat, level : {0, 1}, irq : Nat]
EnhAsks == [state : {"off", "runs", "locked"}, level : {0, 1}, switch : Nat]

EnhTypeOK ==
    /\ enhKind \in {"STC15", "STC8A", "STC8AD", "STC8G2K"}
    /\ enhSwitch \in [EnhChannel -> Nat]
    /\ enhCr \in [EnhChannel -> EnhCrs]
    /\ enhHold \in [EnhChannel -> {"none", "high", "low"}]
    /\ enhFlip \in [EnhChannel -> Nat \X Nat]
    /\ enhAsked \in [EnhChannel -> EnhAsks]

\* A channel does as told, and it is locked by the register its MCU has for that.
OutputIs(c) ==
    /\ enhAsked[c].state = "runs" <=> Flips(c)
    /\ enhAsked[c].state # "off" =>
          LevelOf(c) = IF enhKind = "STC15" /\ c \in enhHigh THEN 1 ELSE enhAsked[c].level
    /\ IF enhKind = "STC15" THEN enhHold[c] = "none"
       ELSE (enhAsked[c].state = "locked" <=> enhHold[c] # "none") /\ enhFlip[c][1] # ENH_COUNTER_MAX

\* The invariant of the enhanced PWM
EnhInv ==
    /\ EnhTypeOK
    /\ enhKind = "STC15" => enhPwmcfg = enhHigh
    /\ \A c \in EnhChannel : OutputIs(c)

LEMMA CounterMax == ENH_COUNTER_MAX \in Nat /\ ENH_COUNTER_MAX > 2
  BY SMT DEF ENH_COUNTER_MAX

LEMMA EnhChannels == {0, 5} \subseteq EnhChannel
  BY DEF EnhChannel

LEMMA EnhKindFixed == ASSUME enhKind' = enhKind PROVE EnhChannel' = EnhChannel
  BY DEF EnhChannel

LEMMA EnhInvInit == EnhInit => EnhInv
<1> SUFFICES ASSUME EnhInit PROVE EnhInv
  OBVIOUS
<1>1. PICK S : S = EnhChannel
  OBVIOUS
<1>2. /\ enhSwitch = [c \in S |-> 0] /\ enhCr = [c \in S |-> Off] /\ enhHold = [c \in S |-> "none"]
      /\ enhFlip = [c \in S |-> <<0, 0>>] /\ enhAsked = [c \in S |-> NoAsk]
      /\ enhPwmcr = {} /\ enhPwmcfg = {} /\ enhHigh = {}
      /\ enhKind \in {"STC15", "STC8A", "STC8AD", "STC8G2K"}
  BY <1>1 DEF EnhInit
<1>3. Off \in EnhCrs /\ Off.on = FALSE /\ NoAsk \in EnhAsks /\ NoAsk.state = "off" /\ <<0, 0>> \in Nat \X Nat
      /\ <<0, 0>>[1] # ENH_COUNTER_MAX
  BY CounterMax DEF Off, EnhCrs, NoAsk, EnhAsks
<1>4. EnhTypeOK
  BY <1>1, <1>2, <1>3 DEF EnhTypeOK
<1>5. ASSUME NEW c \in EnhChannel PROVE OutputIs(c)
  <2>1. /\ enhAsked[c].state = "off" /\ ~enhCr[c].on /\ enhHold[c] = "none" /\ enhFlip[c][1] # ENH_COUNTER_MAX
        /\ c \notin enhPwmcr
    BY <1>1, <1>2, <1>3
  <2> QED
    BY <2>1 DEF OutputIs, Flips
<1> QED
  BY <1>2, <1>4, <1>5 DEF EnhInv

\* A channel that a call leaves alone
LEMMA ChannelLeft ==
    ASSUME NEW c, OutputIs(c), enhKind' = enhKind,
           enhAsked'[c] = enhAsked[c], enhHold'[c] = enhHold[c], enhCr'[c] = enhCr[c], enhFlip'[c] = enhFlip[c],
           c \in enhPwmcr' <=> c \in enhPwmcr, c \in enhPwmcfg' <=> c \in enhPwmcfg, c \in enhHigh' <=> c \in enhHigh
    PROVE  OutputIs(c)'
  BY DEF OutputIs, Flips, LevelOf

LEMMA ConfigureOutputIs == ASSUME EnhInv, EnhConfigureOutput PROVE EnhInv'
<1>1. /\ enhKind' = enhKind /\ enhCr' = enhCr /\ enhHold' = enhHold /\ enhFlip' = enhFlip /\ enhPwmcr' = enhPwmcr
      /\ enhPwmcfg' = enhPwmcfg /\ enhAsked' = enhAsked /\ enhHigh' = enhHigh
  BY DEF EnhConfigureOutput, EnhCall
<1>2. EnhChannel' = EnhChannel
  BY <1>1, EnhKindFixed
<1>3. enhSwitch' \in [EnhChannel -> Nat]
  <2>1. PICK c \in {0, 5}, asked \in 0 .. 2 :
           enhSwitch' = [enhSwitch EXCEPT ![c] = IF asked >= EnhPinConfigs(enhKind) THEN 0 ELSE asked]
    BY DEF EnhConfigureOutput
  <2>2. PICK switch \in Nat : switch = IF asked >= EnhPinConfigs(enhKind) THEN 0 ELSE asked
    OBVIOUS
  <2>3. enhSwitch' = [enhSwitch EXCEPT ![c] = switch]
    BY <2>1, <2>2
  <2> QED
    BY <2>3 DEF EnhInv, EnhTypeOK
<1>4. EnhTypeOK'
  BY <1>1, <1>2, <1>3 DEF EnhInv, EnhTypeOK
<1>5. ASSUME NEW c \in EnhChannel PROVE OutputIs(c)'
  BY <1>1, ChannelLeft DEF EnhInv
<1> QED
  BY <1>1, <1>2, <1>4, <1>5 DEF EnhInv

\* On the STC15 the counter takes its channels with it.
LEMMA CounterTakes ==
    ASSUME EnhInv, enhPwmcr' = {},
           enhAsked' = [c \in EnhChannel |-> IF enhKind = "STC15" THEN [enhAsked[c] EXCEPT !.state = "off"] ELSE enhAsked[c]],
           enhKind' = enhKind,
           UNCHANGED <<enhSwitch, enhPin, enhCr, enhHold, enhFlip, enhPwmcfg, enhHigh>>
    PROVE  EnhInv'
<1>1. EnhChannel' = EnhChannel
  BY EnhKindFixed
<1>2. enhAsked' \in [EnhChannel -> EnhAsks]
  BY DEF EnhInv, EnhTypeOK, EnhAsks
<1>3. EnhTypeOK'
  BY <1>1, <1>2 DEF EnhInv, EnhTypeOK
<1>4. ASSUME NEW c \in EnhChannel PROVE OutputIs(c)'
  <2>1. CASE enhKind = "STC15"
    <3>1. enhAsked'[c].state = "off"
      <4>1. enhAsked[c] \in EnhAsks
        BY DEF EnhInv, EnhTypeOK
      <4> QED
        BY <2>1, <4>1 DEF EnhAsks
    <3>2. OutputIs(c)
      BY DEF EnhInv
    <3> QED
      BY <2>1, <3>1, <3>2 DEF OutputIs, Flips
  <2>2. CASE enhKind # "STC15"
    <3>1. enhAsked'[c] = enhAsked[c]
      BY <2>2
    <3>2. OutputIs(c)
      BY DEF EnhInv
    <3> QED
      BY <2>2, <3>1, <3>2 DEF OutputIs, Flips, LevelOf
  <2> QED
    BY <2>1, <2>2
<1> QED
  BY <1>1, <1>3, <1>4 DEF EnhInv

LEMMA CounterIs == ASSUME EnhInv, EnhStartCounter \/ EnhStopCounter PROVE EnhInv'
<1>1. CASE EnhStartCounter
  BY <1>1, CounterTakes DEF EnhStartCounter, EnhCall
<1>2. CASE EnhStopCounter
  <2>1. CASE enhPwmcr' = {} /\ enhAsked' = [c \in EnhChannel |-> IF enhKind = "STC15" THEN [enhAsked[c] EXCEPT !.state = "off"] ELSE enhAsked[c]]
    BY <1>2, <2>1, CounterTakes DEF EnhStopCounter, EnhCall
  <2>2. CASE UNCHANGED <<enhPwmcr, enhAsked>>
    <3>1. /\ enhKind' = enhKind /\ enhCr' = enhCr /\ enhHold' = enhHold /\ enhFlip' = enhFlip /\ enhPwmcr' = enhPwmcr
          /\ enhPwmcfg' = enhPwmcfg /\ enhAsked' = enhAsked /\ enhHigh' = enhHigh /\ enhSwitch' = enhSwitch
      BY <1>2, <2>2 DEF EnhStopCounter, EnhCall
    <3>2. EnhChannel' = EnhChannel
      BY <3>1, EnhKindFixed
    <3>3. EnhTypeOK'
      BY <3>1, <3>2 DEF EnhInv, EnhTypeOK
    <3>4. ASSUME NEW c \in EnhChannel PROVE OutputIs(c)'
      BY <3>1, ChannelLeft DEF EnhInv
    <3> QED
      BY <3>1, <3>2, <3>3, <3>4 DEF EnhInv
  <2> QED
    BY <1>2, <2>1, <2>2 DEF EnhStopCounter
<1> QED
  BY <1>1, <1>2

\* Started, of a channel whose call it is: what it leaves of the registers
LEMMA StartedWrites ==
    ASSUME EnhInv, NEW c \in EnhChannel, NEW level \in {0, 1}, NEW irq \in Nat, NEW flip \in Nat \X Nat,
           enhKind' = enhKind, Started(c, level, irq, flip)
    PROVE  /\ enhCr' \in [EnhChannel -> EnhCrs] /\ enhFlip' \in [EnhChannel -> Nat \X Nat]
           /\ \A d \in EnhChannel \ {c} : enhCr'[d] = enhCr[d] /\ enhFlip'[d] = enhFlip[d]
           /\ enhCr'[c].on <=> enhKind # "STC15"
           /\ enhKind # "STC15" => enhCr'[c].level = level
           /\ enhFlip'[c] = flip
           /\ \A d \in EnhChannel \ {c} : /\ d \in enhPwmcr' <=> d \in enhPwmcr
                                          /\ d \in enhPwmcfg' <=> d \in enhPwmcfg
                                          /\ d \in enhHigh' <=> d \in enhHigh
           /\ enhKind = "STC15" => /\ c \in enhPwmcr' /\ enhPwmcfg' = enhHigh'
                                   /\ c \in enhPwmcfg' <=> c \in enhHigh \/ level = 1
<1>1. PICK on \in BOOLEAN : on = (enhKind # "STC15")
  BY Zenon
<1>2. PICK switch \in Nat : switch = IF enhKind = "STC8G2K" THEN 0 ELSE enhSwitch[c]
  BY DEF EnhInv, EnhTypeOK
<1>3. PICK first \in {0, 1} : first = IF enhKind = "STC15" THEN 0 ELSE level
  OBVIOUS
<1>4. PICK cr \in EnhCrs : cr = [on |-> on, switch |-> switch, level |-> first, irq |-> irq]
  BY DEF EnhCrs
<1>5. enhCr' = [enhCr EXCEPT ![c] = cr]
  BY <1>1, <1>2, <1>3, <1>4 DEF Started
<1>6. /\ enhCr' \in [EnhChannel -> EnhCrs] /\ enhCr'[c] = cr
      /\ \A d \in EnhChannel \ {c} : enhCr'[d] = enhCr[d]
  BY <1>5 DEF EnhInv, EnhTypeOK
<1>7. cr.on = on /\ cr.level = first
  BY <1>4
<1>8. /\ enhFlip' \in [EnhChannel -> Nat \X Nat] /\ enhFlip'[c] = flip
      /\ \A d \in EnhChannel \ {c} : enhFlip'[d] = enhFlip[d]
  <2>1. enhFlip' = [enhFlip EXCEPT ![c] = flip]
    BY DEF Started
  <2> QED
    BY <2>1 DEF EnhInv, EnhTypeOK
<1>9. enhHigh' = IF level = 1 THEN enhHigh \cup {c} ELSE enhHigh
  BY DEF Started
<1>10. CASE enhKind = "STC15"
  <2>1. enhPwmcfg' = enhPwmcfg \cup (IF level = 1 THEN {c} ELSE {}) /\ enhPwmcr' = enhPwmcr \cup {c} /\ enhPwmcfg = enhHigh
    BY <1>10 DEF Started, LevelsSet, EnhInv
  <2> QED
    BY <1>1, <1>3, <1>6, <1>7, <1>8, <1>9, <1>10, <2>1
<1>11. CASE enhKind # "STC15"
  <2>1. enhPwmcfg' = enhPwmcfg /\ enhPwmcr' = enhPwmcr
    BY <1>11 DEF Started
  <2> QED
    BY <1>1, <1>3, <1>6, <1>7, <1>8, <1>9, <1>11, <2>1
<1> QED
  BY <1>10, <1>11

\* A call about one channel
LEMMA OneChannelIs ==
    ASSUME EnhInv, NEW c \in EnhChannel, enhKind' = enhKind, enhSwitch' = enhSwitch, NEW ask \in EnhAsks,
           enhAsked' = [enhAsked EXCEPT ![c] = ask],
           enhCr' \in [EnhChannel -> EnhCrs], enhHold' \in [EnhChannel -> {"none", "high", "low"}],
           enhFlip' \in [EnhChannel -> Nat \X Nat],
           \A d \in EnhChannel \ {c} :
              /\ enhHold'[d] = enhHold[d] /\ enhCr'[d] = enhCr[d] /\ enhFlip'[d] = enhFlip[d]
              /\ d \in enhPwmcr' <=> d \in enhPwmcr
              /\ d \in enhPwmcfg' <=> d \in enhPwmcfg
              /\ d \in enhHigh' <=> d \in enhHigh,
           enhKind = "STC15" => enhPwmcfg' = enhHigh',
           OutputIs(c)'
    PROVE  EnhInv'
<1>1. EnhChannel' = EnhChannel
  BY EnhKindFixed
<1>2. enhAsked' \in [EnhChannel -> EnhAsks] /\ \A d \in EnhChannel \ {c} : enhAsked'[d] = enhAsked[d]
  BY DEF EnhInv, EnhTypeOK
<1>3. EnhTypeOK'
  BY <1>1, <1>2 DEF EnhInv, EnhTypeOK
<1>4. ASSUME NEW d \in EnhChannel \ {c} PROVE OutputIs(d)'
  BY <1>2, <1>4, ChannelLeft DEF EnhInv
<1> QED
  BY <1>1, <1>3, <1>4 DEF EnhInv

LEMMA StartChannelIs == ASSUME EnhInv, EnhStartChannel PROVE EnhInv'
<1>1. PICK c \in {0, 5}, level \in {0, 1}, irq \in {0, 5} :
         /\ Started(c, level, irq, <<1, 9>>)
         /\ enhAsked' = [enhAsked EXCEPT ![c] =
                           [state  |-> IF @.state = "locked" /\ enhKind # "STC15" THEN "locked" ELSE "runs",
                            level  |-> IF @.state = "locked" /\ enhKind # "STC15" THEN @.level ELSE level,
                            switch |-> enhSwitch[c]]]
  BY DEF EnhStartChannel
<1>2. c \in EnhChannel
  BY EnhChannels
<1>3. enhKind' = enhKind /\ enhSwitch' = enhSwitch /\ enhHold' = enhHold
  BY DEF EnhStartChannel, EnhCall
<1>4. PICK flip \in Nat \X Nat : flip = <<1, 9>> /\ flip[1] # ENH_COUNTER_MAX
  <2>1. <<1, 9>> \in Nat \X Nat /\ <<1, 9>>[1] = 1
    OBVIOUS
  <2>2. 1 # ENH_COUNTER_MAX
    BY CounterMax
  <2> QED
    BY <2>1, <2>2, Zenon
<1>5. PICK n \in Nat : n = irq
  OBVIOUS
<1>6. Started(c, level, n, flip)
  BY <1>1, <1>4, <1>5
<1>7. /\ enhCr' \in [EnhChannel -> EnhCrs] /\ enhFlip' \in [EnhChannel -> Nat \X Nat]
      /\ \A d \in EnhChannel \ {c} : enhCr'[d] = enhCr[d] /\ enhFlip'[d] = enhFlip[d]
      /\ enhCr'[c].on <=> enhKind # "STC15"
      /\ enhKind # "STC15" => enhCr'[c].level = level
      /\ enhFlip'[c] = flip
      /\ \A d \in EnhChannel \ {c} : /\ d \in enhPwmcr' <=> d \in enhPwmcr
                                     /\ d \in enhPwmcfg' <=> d \in enhPwmcfg
                                     /\ d \in enhHigh' <=> d \in enhHigh
      /\ enhKind = "STC15" => /\ c \in enhPwmcr' /\ enhPwmcfg' = enhHigh'
                              /\ c \in enhPwmcfg' <=> c \in enhHigh \/ level = 1
  BY <1>2, <1>3, <1>6, StartedWrites
<1>8. PICK old \in EnhAsks : old = enhAsked[c]
  BY <1>2 DEF EnhInv, EnhTypeOK
<1>9. PICK ask \in EnhAsks :
         ask = [state  |-> IF old.state = "locked" /\ enhKind # "STC15" THEN "locked" ELSE "runs",
                level  |-> IF old.state = "locked" /\ enhKind # "STC15" THEN old.level ELSE level,
                switch |-> enhSwitch[c]]
  <2>1. enhSwitch[c] \in Nat
    BY <1>2 DEF EnhInv, EnhTypeOK
  <2> QED
    BY <2>1 DEF EnhAsks
<1>10. enhAsked' = [enhAsked EXCEPT ![c] = ask] /\ enhAsked'[c] = ask
  <2>1. enhAsked' = [enhAsked EXCEPT ![c] = ask]
    BY <1>1, <1>8, <1>9
  <2> QED
    BY <1>2, <2>1 DEF EnhInv, EnhTypeOK
<1>11. OutputIs(c)'
  <2>1. OutputIs(c)
    BY <1>2 DEF EnhInv
  <2>2. CASE enhKind = "STC15"
    <3>1. ask.state = "runs" /\ ask.level = level
      BY <1>9, <2>2
    <3>2. enhHold'[c] = "none"
      BY <1>3, <2>1, <2>2 DEF OutputIs
    <3>3. c \in enhHigh' <=> c \in enhPwmcfg'
      BY <1>7, <2>2
    <3> QED
      BY <1>3, <1>4, <1>7, <1>10, <2>2, <3>1, <3>2, <3>3 DEF OutputIs, Flips, LevelOf
  <2>3. CASE enhKind # "STC15" /\ old.state = "locked"
    <3>1. ask.state = "locked" /\ ask.level = old.level
      BY <1>9, <2>3
    <3> QED
      BY <1>3, <1>4, <1>7, <1>8, <1>10, <2>1, <2>3, <3>1 DEF OutputIs, Flips, LevelOf
  <2>4. CASE enhKind # "STC15" /\ old.state # "locked"
    <3>1. ask.state = "runs" /\ ask.level = level
      BY <1>9, <2>4
    <3>2. enhHold'[c] = "none"
      BY <1>3, <1>8, <2>1, <2>4 DEF OutputIs
    <3> QED
      BY <1>3, <1>4, <1>7, <1>10, <2>4, <3>1, <3>2 DEF OutputIs, Flips, LevelOf
  <2> QED
    BY <2>2, <2>3, <2>4
<1>12. enhHold' \in [EnhChannel -> {"none", "high", "low"}]
  BY <1>3 DEF EnhInv, EnhTypeOK
<1> QED
  BY <1>2, <1>3, <1>7, <1>10, <1>11, <1>12, OneChannelIs

LEMMA StopChannelIs == ASSUME EnhInv, EnhStopChannel PROVE EnhInv'
<1>1. PICK c \in {0, 5} :
         /\ enhCr' = [enhCr EXCEPT ![c] = Off] /\ enhPwmcr' = enhPwmcr \ {c}
         /\ enhAsked' = [enhAsked EXCEPT ![c].state = IF @ = "locked" /\ enhKind # "STC15" THEN @ ELSE "off"]
  BY DEF EnhStopChannel
<1>2. c \in EnhChannel
  BY EnhChannels
<1>3. /\ enhKind' = enhKind /\ enhSwitch' = enhSwitch /\ enhHold' = enhHold /\ enhFlip' = enhFlip
      /\ enhPwmcfg' = enhPwmcfg /\ enhHigh' = enhHigh
  BY DEF EnhStopChannel, EnhCall
<1>4. Off \in EnhCrs /\ ~Off.on
  BY DEF Off, EnhCrs
<1>5. /\ enhCr' \in [EnhChannel -> EnhCrs] /\ enhCr'[c] = Off
      /\ \A d \in EnhChannel \ {c} : enhCr'[d] = enhCr[d] /\ (d \in enhPwmcr' <=> d \in enhPwmcr)
  BY <1>1, <1>2, <1>4 DEF EnhInv, EnhTypeOK
<1>6. PICK old \in EnhAsks : old = enhAsked[c]
  BY <1>2 DEF EnhInv, EnhTypeOK
<1>7. PICK state \in {"off", "locked"} : state = IF old.state = "locked" /\ enhKind # "STC15" THEN old.state ELSE "off"
  OBVIOUS
<1>8. PICK ask : ask = [old EXCEPT !.state = state]
  OBVIOUS
<1>9. ask \in EnhAsks /\ ask.state = state /\ ask.level = old.level
  BY <1>8 DEF EnhAsks
<1>10. enhAsked' = [enhAsked EXCEPT ![c] = ask]
  BY <1>1, <1>6, <1>7, <1>8
<1>11. enhAsked'[c] = ask
  BY <1>2, <1>10 DEF EnhInv, EnhTypeOK
<1>12. OutputIs(c)'
  <2>1. OutputIs(c)
    BY <1>2 DEF EnhInv
  <2>2. c \notin enhPwmcr'
    BY <1>1
  <2>3. CASE state = "off"
    BY <1>3, <1>4, <1>5, <1>6, <1>7, <1>9, <1>11, <2>1, <2>2, <2>3 DEF OutputIs, Flips
  <2>4. CASE state = "locked"
    <3>1. old.state = "locked" /\ enhKind # "STC15"
      BY <1>7, <2>4
    <3> QED
      BY <1>3, <1>4, <1>5, <1>6, <1>9, <1>11, <2>1, <2>4, <3>1 DEF OutputIs, Flips, LevelOf
  <2> QED
    BY <2>3, <2>4
<1>13. /\ enhHold' \in [EnhChannel -> {"none", "high", "low"}]
       /\ enhFlip' \in [EnhChannel -> Nat \X Nat]
       /\ enhKind = "STC15" => enhPwmcfg' = enhHigh'
  BY <1>3 DEF EnhInv, EnhTypeOK
<1>14. \A d \in EnhChannel \ {c} :
          /\ enhHold'[d] = enhHold[d] /\ enhCr'[d] = enhCr[d] /\ enhFlip'[d] = enhFlip[d]
          /\ d \in enhPwmcr' <=> d \in enhPwmcr
          /\ d \in enhPwmcfg' <=> d \in enhPwmcfg
          /\ d \in enhHigh' <=> d \in enhHigh
  BY <1>3, <1>5
<1> QED
  BY <1>2, <1>3, <1>5, <1>9, <1>10, <1>12, <1>13, <1>14, OneChannelIs

LEMMA SetFlipPointsIs == ASSUME EnhInv, EnhSetFlipPoints PROVE EnhInv'
<1>1. PICK c \in {0, 5} : enhAsked[c].state = "runs" /\ enhFlip' = [enhFlip EXCEPT ![c] = <<2, 8>>]
  BY DEF EnhSetFlipPoints
<1>2. c \in EnhChannel
  BY EnhChannels
<1>3. /\ enhKind' = enhKind /\ enhSwitch' = enhSwitch /\ enhHold' = enhHold /\ enhCr' = enhCr /\ enhPwmcr' = enhPwmcr
      /\ enhPwmcfg' = enhPwmcfg /\ enhHigh' = enhHigh /\ enhAsked' = enhAsked
  BY DEF EnhSetFlipPoints, EnhCall
<1>4. PICK flip \in Nat \X Nat : flip = <<2, 8>> /\ flip[1] # ENH_COUNTER_MAX
  <2>1. <<2, 8>> \in Nat \X Nat /\ <<2, 8>>[1] = 2
    OBVIOUS
  <2>2. 2 # ENH_COUNTER_MAX
    BY CounterMax
  <2> QED
    BY <2>1, <2>2, Zenon
<1>5. /\ enhFlip' \in [EnhChannel -> Nat \X Nat] /\ enhFlip'[c] = flip
      /\ \A d \in EnhChannel \ {c} : enhFlip'[d] = enhFlip[d]
  <2>1. enhFlip' = [enhFlip EXCEPT ![c] = flip]
    BY <1>1, <1>4
  <2> QED
    BY <1>2, <2>1 DEF EnhInv, EnhTypeOK
<1>6. EnhChannel' = EnhChannel
  BY <1>3, EnhKindFixed
<1>7. EnhTypeOK'
  BY <1>3, <1>5, <1>6 DEF EnhInv, EnhTypeOK
<1>8. ASSUME NEW d \in EnhChannel PROVE OutputIs(d)'
  <2>1. OutputIs(d)
    BY DEF EnhInv
  <2>2. CASE d = c
    BY <1>1, <1>3, <1>4, <1>5, <2>1, <2>2 DEF OutputIs, Flips, LevelOf
  <2>3. CASE d # c
    BY <1>3, <1>5, <2>1, <2>3, ChannelLeft
  <2> QED
    BY <2>2, <2>3
<1> QED
  BY <1>3, <1>6, <1>7, <1>8 DEF EnhInv

LEMMA LockChannelIs == ASSUME EnhInv, EnhLockChannel PROVE EnhInv'
<1>1. PICK c \in {0, 5}, level \in {0, 1} :
         /\ IF enhKind = "STC15"
            THEN Started(c, level, 0, <<ENH_COUNTER_MAX, ENH_COUNTER_MAX>>) /\ UNCHANGED enhHold
            ELSE /\ enhHold' = [enhHold EXCEPT ![c] = IF level = 1 THEN "high" ELSE "low"]
                 /\ UNCHANGED <<enhCr, enhFlip, enhPwmcr, enhPwmcfg, enhHigh>>
         /\ enhAsked' = [enhAsked EXCEPT ![c] = [state |-> "locked", level |-> level, switch |-> @.switch]]
  BY DEF EnhLockChannel
<1>2. c \in EnhChannel
  BY EnhChannels
<1>3. enhKind' = enhKind /\ enhSwitch' = enhSwitch
  BY DEF EnhLockChannel, EnhCall
<1>4. PICK old \in EnhAsks : old = enhAsked[c]
  BY <1>2 DEF EnhInv, EnhTypeOK
<1>5. PICK ask \in EnhAsks : ask = [state |-> "locked", level |-> level, switch |-> old.switch]
  BY DEF EnhAsks
<1>6. enhAsked' = [enhAsked EXCEPT ![c] = ask]
  BY <1>1, <1>4, <1>5
<1>7. enhAsked'[c] = ask /\ ask.state = "locked" /\ ask.level = level
  BY <1>2, <1>5, <1>6 DEF EnhInv, EnhTypeOK
<1>8. OutputIs(c)
  BY <1>2 DEF EnhInv
<1>9. CASE enhKind = "STC15"
  <2>1. enhHold' = enhHold
    BY <1>1, <1>9
  <2>2. PICK flip \in Nat \X Nat : flip = <<ENH_COUNTER_MAX, ENH_COUNTER_MAX>> /\ flip[1] = ENH_COUNTER_MAX
    <3>1. PICK max \in Nat : max = ENH_COUNTER_MAX
      BY CounterMax
    <3>2. <<max, max>> \in Nat \X Nat /\ <<max, max>>[1] = max
      OBVIOUS
    <3> QED
      BY <3>1, <3>2, Zenon
  <2>3. Started(c, level, 0, flip)
    BY <1>1, <1>9, <2>2
  <2>4. /\ enhCr' \in [EnhChannel -> EnhCrs] /\ enhFlip' \in [EnhChannel -> Nat \X Nat]
        /\ \A d \in EnhChannel \ {c} : enhCr'[d] = enhCr[d] /\ enhFlip'[d] = enhFlip[d]
        /\ enhFlip'[c] = flip
        /\ \A d \in EnhChannel \ {c} : /\ d \in enhPwmcr' <=> d \in enhPwmcr
                                       /\ d \in enhPwmcfg' <=> d \in enhPwmcfg
                                       /\ d \in enhHigh' <=> d \in enhHigh
        /\ c \in enhPwmcr' /\ enhPwmcfg' = enhHigh'
        /\ c \in enhPwmcfg' <=> c \in enhHigh \/ level = 1
    BY <1>2, <1>3, <1>9, <2>3, StartedWrites
  <2>5. enhHold'[c] = "none" /\ enhHold' \in [EnhChannel -> {"none", "high", "low"}]
    BY <1>8, <1>9, <2>1 DEF OutputIs, EnhInv, EnhTypeOK
  <2>6. OutputIs(c)'
    BY <1>3, <1>7, <1>9, <2>2, <2>4, <2>5 DEF OutputIs, Flips, LevelOf
  <2> QED
    BY <1>2, <1>3, <1>6, <2>1, <2>4, <2>5, <2>6, OneChannelIs
<1>10. CASE enhKind # "STC15"
  <2>1. enhCr' = enhCr /\ enhFlip' = enhFlip /\ enhPwmcr' = enhPwmcr /\ enhPwmcfg' = enhPwmcfg /\ enhHigh' = enhHigh
    BY <1>1, <1>10
  <2>2. PICK hold \in {"high", "low"} : hold = IF level = 1 THEN "high" ELSE "low"
    OBVIOUS
  <2>3. /\ enhHold' \in [EnhChannel -> {"none", "high", "low"}] /\ enhHold'[c] = hold
        /\ \A d \in EnhChannel \ {c} : enhHold'[d] = enhHold[d]
    <3>1. enhHold' = [enhHold EXCEPT ![c] = hold]
      BY <1>1, <1>10, <2>2
    <3> QED
      BY <1>2, <3>1 DEF EnhInv, EnhTypeOK
  <2>4. OutputIs(c)'
    BY <1>3, <1>7, <1>8, <1>10, <2>1, <2>2, <2>3 DEF OutputIs, Flips, LevelOf
  <2>5. enhCr' \in [EnhChannel -> EnhCrs] /\ enhFlip' \in [EnhChannel -> Nat \X Nat]
    BY <2>1 DEF EnhInv, EnhTypeOK
  <2> QED
    BY <1>2, <1>3, <1>6, <1>10, <2>1, <2>3, <2>4, <2>5, OneChannelIs
<1> QED
  BY <1>9, <1>10

LEMMA UnlockChannelIs == ASSUME EnhInv, EnhUnlockChannel PROVE EnhInv'
<1>1. PICK c \in {0, 5} :
         /\ enhHold' = [enhHold EXCEPT ![c] = "none"]
         /\ enhAsked' = [enhAsked EXCEPT ![c] = [@ EXCEPT !.state = IF enhCr[c].on THEN "runs" ELSE "off",
                                                         !.level = enhCr[c].level]]
  BY DEF EnhUnlockChannel
<1>2. c \in EnhChannel
  BY EnhChannels
<1>3. /\ enhKind' = enhKind /\ enhSwitch' = enhSwitch /\ enhCr' = enhCr /\ enhFlip' = enhFlip /\ enhPwmcr' = enhPwmcr
      /\ enhPwmcfg' = enhPwmcfg /\ enhHigh' = enhHigh /\ enhKind # "STC15"
  BY DEF EnhUnlockChannel, EnhCall
<1>4. PICK old \in EnhAsks : old = enhAsked[c]
  BY <1>2 DEF EnhInv, EnhTypeOK
<1>5. PICK state \in {"runs", "off"} : state = IF enhCr[c].on THEN "runs" ELSE "off"
  OBVIOUS
<1>6. PICK level \in {0, 1} : level = enhCr[c].level
  BY <1>2 DEF EnhInv, EnhTypeOK, EnhCrs
<1>7. PICK ask : ask = [old EXCEPT !.state = state, !.level = level]
  OBVIOUS
<1>8. ask = [state |-> state, level |-> level, switch |-> old.switch]
  BY <1>7 DEF EnhAsks
<1>9. ask \in EnhAsks /\ ask.state = state /\ ask.level = level
  BY <1>8 DEF EnhAsks
<1>10. enhAsked' = [enhAsked EXCEPT ![c] = ask]
  BY <1>1, <1>4, <1>5, <1>6, <1>7
<1>11. enhAsked'[c] = ask
  BY <1>2, <1>10 DEF EnhInv, EnhTypeOK
<1>12. /\ enhHold' \in [EnhChannel -> {"none", "high", "low"}] /\ enhHold'[c] = "none"
       /\ \A d \in EnhChannel \ {c} : enhHold'[d] = enhHold[d]
  BY <1>1, <1>2 DEF EnhInv, EnhTypeOK
<1>13. OutputIs(c)
  BY <1>2 DEF EnhInv
<1>14. OutputIs(c)'
  BY <1>3, <1>5, <1>6, <1>9, <1>11, <1>12, <1>13 DEF OutputIs, Flips, LevelOf
<1>15. enhCr' \in [EnhChannel -> EnhCrs] /\ enhFlip' \in [EnhChannel -> Nat \X Nat]
  BY <1>3 DEF EnhInv, EnhTypeOK
<1> QED
  BY <1>2, <1>3, <1>9, <1>10, <1>12, <1>14, <1>15, OneChannelIs

LEMMA EnhInvNext == ASSUME EnhInv, [EnhNext]_enhVars PROVE EnhInv'
<1>1. CASE UNCHANGED enhVars
  <2>1. /\ enhKind' = enhKind /\ enhCr' = enhCr /\ enhHold' = enhHold /\ enhFlip' = enhFlip /\ enhPwmcr' = enhPwmcr
        /\ enhPwmcfg' = enhPwmcfg /\ enhAsked' = enhAsked /\ enhHigh' = enhHigh /\ enhSwitch' = enhSwitch
    BY <1>1 DEF enhVars
  <2>2. EnhChannel' = EnhChannel
    BY <2>1, EnhKindFixed
  <2>3. EnhTypeOK'
    BY <2>1, <2>2 DEF EnhInv, EnhTypeOK
  <2>4. ASSUME NEW c \in EnhChannel PROVE OutputIs(c)'
    BY <2>1, ChannelLeft DEF EnhInv
  <2> QED
    BY <2>1, <2>2, <2>3, <2>4 DEF EnhInv
<1> QED
  BY <1>1, ConfigureOutputIs, CounterIs, StartChannelIs, StopChannelIs, SetFlipPointsIs, LockChannelIs, UnlockChannelIs
     DEF EnhNext

LEMMA EnhPromises == EnhInv => OutputsAsTold
  BY DEF EnhInv, OutputIs, OutputsAsTold

LEMMA EnhInvAlways == EnhSpec => []EnhInv
  BY EnhInvInit, EnhInvNext, PTL DEF EnhSpec

-----------------------------------------------------------------------------
\* Whatever is asked of one channel of a PWM engine, in whatever order, the others
\* go on as they were asked to, and dead times and frequencies come out as asked:
\* for any calls, of any number, with any settings (advpwm-hal.c, enhpwm-hal.c).
THEOREM OutputsKept == AdvSpec /\ EnhSpec => []OutputsAsAsked
<1>1. AdvInv /\ EnhInv /\ ParametersFit => OutputsAsAsked
  BY AdvPromises, EnhPromises DEF OutputsAsAsked
<1> QED
  BY <1>1, AdvInvAlways, EnhInvAlways, ParametersFitAlways, PTL

-----------------------------------------------------------------------------
(***************************************************************************)
(* Captures.                                                               *)
(***************************************************************************)
\* A number is a multiple of the modulus more than its remainder, ...
LEMMA Remainder ==
    ASSUME NEW m \in Nat \ {0}, NEW x \in Int
    PROVE  x % m \in 0 .. m - 1 /\ \E k \in Int : x = (x % m) + k * m
<1>1. x \div m \in Int /\ x % m \in 0 .. m - 1 /\ x = (x % m) + (x \div m) * m
  OBVIOUS
<1> QED
  BY <1>1

LEMMA Division ==
    ASSUME NEW m \in Nat \ {0}, NEW x \in Int
    PROVE  \E r \in 0 .. m - 1, q \in Int : r = x % m /\ q = x \div m /\ x = r + q * m
<1>1. x \div m \in Int /\ x % m \in 0 .. m - 1 /\ x = (x % m) + (x \div m) * m
  OBVIOUS
<1> QED
  BY <1>1

LEMMA TimesOver ==
    ASSUME NEW m \in Int, NEW a \in Int, NEW b \in Int
    PROVE  /\ (a + b) * m = a * m + b * m
           /\ (a - b) * m = a * m - b * m
  OBVIOUS

\* ... of which there is one only, ...
LEMMA OneRemainder ==
    ASSUME NEW m \in Nat \ {0}, NEW r \in 0 .. m - 1, NEW s \in 0 .. m - 1, NEW k \in Int, r = s + k * m
    PROVE  r = s
<1>1. CASE k = 0
  BY <1>1
<1>2. CASE k > 0
  <2>1. k * m >= m
    <3>1. PICK j \in Nat : k = j + 1
      BY <1>2
    <3>2. k * m = j * m + m /\ j * m >= 0
      BY <3>1
    <3> QED
      BY <3>2
  <2> QED
    BY <2>1
<1>3. CASE k < 0
  <2>1. k * m <= -m
    <3>1. PICK j \in Nat : k = -1 - j
      BY <1>3
    <3>2. k * m = -m - j * m /\ j * m >= 0
      BY <3>1
    <3> QED
      BY <3>2
  <2> QED
    BY <2>1
<1> QED
  BY <1>1, <1>2, <1>3

\* ... the same for all that are a multiple of the modulus apart.
LEMMA Congruent ==
    ASSUME NEW m \in Nat \ {0}, NEW x \in Int, NEW y \in Int, NEW k \in Int, x = y + k * m
    PROVE  x % m = y % m
<1>1. PICK r \in 0 .. m - 1, a \in Int : r = x % m /\ x = r + a * m
  BY Remainder
<1>2. PICK s \in 0 .. m - 1, b \in Int : s = y % m /\ y = s + b * m
  BY Remainder
<1>3. PICK j \in Int : j = k + b - a
  OBVIOUS
<1>4. j * m = k * m + b * m - a * m
  <2>1. (k + b) * m = k * m + b * m /\ ((k + b) - a) * m = (k + b) * m - a * m
    BY TimesOver
  <2> QED
    BY <1>3, <2>1
<1>5. PICK u \in Int, v \in Int, w \in Int : u = k * m /\ v = a * m /\ w = b * m
  OBVIOUS
<1>6. r = s + (u + w - v)
  BY <1>1, <1>2, <1>5
<1>7. j * m = u + w - v
  BY <1>4, <1>5
<1>8. r = s + j * m
  BY <1>6, <1>7
<1> QED
  BY <1>1, <1>2, <1>8, OneRemainder

\* A channel is in a set of channels after all that are in it.
LEMMA LastOfChannels ==
    ASSUME NEW S, S \subseteq 0 .. 7, S # {}
    PROVE  (CHOOSE c \in S : \A d \in S : d <= c) \in S
<1>1. \E c \in S : \A d \in S : d <= c
  <2>1. PICK x \in S : x \in 0 .. 7
    OBVIOUS
  <2>2. x = 0 \/ x = 1 \/ x = 2 \/ x = 3 \/ x = 4 \/ x = 5 \/ x = 6 \/ x = 7
    BY <2>1
  <2>3. 7 \in S \/ 6 \in S \/ 5 \in S \/ 4 \in S \/ 3 \in S \/ 2 \in S \/ 1 \in S \/ 0 \in S
    BY <2>1, <2>2
  <2> QED
    BY <2>3
<1> QED
  BY <1>1

Caught == [counter : Nat, overflow : Nat]

\* A channel's register holds the count of its last edge, and what was kept of the
\* edge it reported last holds the count of that one, whatever the overflows.
CapInv ==
    /\ capNow \in Nat /\ capOverflow \in Nat
    /\ capPending \subseteq CapChannel
    /\ capCcr \in [CapChannel -> Nat] /\ capEdge \in [CapChannel -> Nat]
    /\ capLast \in [CapChannel -> Caught] /\ capSeen \in [CapChannel -> Nat \cup {-1}]
    /\ \A c \in CapChannel :
          /\ capCcr[c] = capEdge[c] % CapScale
          /\ capSeen[c] # -1 => capLast[c].counter = capSeen[c] % CapScale
    /\ CapturesElapsed

LEMMA CapInvInit == CapInit => CapInv
  BY CapAssumption DEF CapInit, CapInv, CapturesElapsed, Caught

LEMMA CountCaps == ASSUME CapInv, Count PROVE CapInv'
  BY CapAssumption DEF CapInv, Count, CapturesElapsed

LEMMA ChannelEventCaps == ASSUME CapInv, ChannelEvent PROVE CapInv'
<1>1. PICK c \in CapChannel :
         /\ capPending' = capPending \cup {c}
         /\ \/ /\ capCcr' = [capCcr EXCEPT ![c] = capNow % CapScale]
               /\ capEdge' = [capEdge EXCEPT ![c] = capNow]
            \/ UNCHANGED <<capCcr, capEdge>>
  BY DEF ChannelEvent
<1>2. capNow % CapScale \in Nat /\ capNow \in Nat
  BY CapAssumption DEF CapInv
<1> QED
  BY <1>1, <1>2 DEF CapInv, ChannelEvent, CapturesElapsed

LEMMA CounterEventCaps == ASSUME CapInv, CounterEvent PROVE CapInv'
  BY DEF CapInv, CounterEvent, CapturesElapsed

LEMMA RecaptureCaps == ASSUME CapInv, Recapture PROVE CapInv'
<1>1. PICK c \in CapChannel : /\ capLast' = [capLast EXCEPT ![c] = [counter |-> 0, overflow |-> 0]]
                              /\ capSeen' = [capSeen EXCEPT ![c] = -1]
  BY DEF Recapture
<1>2. [counter |-> 0, overflow |-> 0] \in Caught
  BY DEF Caught
<1> QED
  BY <1>1, <1>2 DEF CapInv, Recapture, CapturesElapsed

\* The difference of two counts with overflows, of which the modulus leaves what it
\* leaves of the difference between the edges.
Between(p, edge, q, seen) == ((p * CapScale + (edge % CapScale)) - (q * CapScale + (seen % CapScale))) % CapScale

LEMMA DifferenceIs ==
    ASSUME NEW p \in Int, NEW q \in Int, NEW edge \in Int, NEW seen \in Int
    PROVE  Between(p, edge, q, seen) = (edge - seen) % CapScale
<1>0. PICK m \in Nat \ {0} : m = CapScale
  BY CapAssumption
<1>1. PICK r \in 0 .. m - 1, a \in Int : r = edge % m /\ edge = r + a * m
  BY Remainder
<1>2. PICK s \in 0 .. m - 1, b \in Int : s = seen % m /\ seen = s + b * m
  BY Remainder
<1>3. PICK u \in Int, v \in Int, w \in Int, z \in Int : u = p * m /\ v = q * m /\ w = a * m /\ z = b * m
  OBVIOUS
<1>4. PICK k \in Int : k = (p - q) + (b - a)
  OBVIOUS
<1>5. k * m = (u - v) + (z - w)
  <2>1. /\ (p - q) * m = p * m - q * m
        /\ (b - a) * m = b * m - a * m
        /\ ((p - q) + (b - a)) * m = (p - q) * m + (b - a) * m
    BY TimesOver
  <2> QED
    BY <1>3, <1>4, <2>1
<1>6. PICK x \in Int, y \in Int : x = (u + r) - (v + s) /\ y = edge - seen
  OBVIOUS
<1>7. edge = r + w /\ seen = s + z
  BY <1>1, <1>2, <1>3
<1>8. x = y + ((u - v) + (z - w))
  BY <1>6, <1>7
<1>9. x = y + k * m
  BY <1>5, <1>8, Zenon
<1>10. x % m = y % m
  BY <1>9, Congruent
<1>11. Between(p, edge, q, seen) = ((p * m + (edge % m)) - (q * m + (seen % m))) % m
  BY <1>0, Zenon DEF Between
<1> QED
  BY <1>0, <1>1, <1>2, <1>3, <1>6, <1>10, <1>11, Zenon

\* What the handler makes of two counts is the time between their edges.
LEMMA ElapsedIs ==
    ASSUME NEW new \in Caught, NEW last \in Caught, NEW edge \in Nat, NEW seen \in Nat,
           new.counter = edge % CapScale, last.counter = seen % CapScale
    PROVE  Elapsed(new, last) = (edge - seen) % CapScale
<1>1. PICK p \in Int, q \in Int : p = new.overflow /\ q = last.overflow
  BY DEF Caught
<1>2. Between(p, edge, q, seen) = (edge - seen) % CapScale
  BY DifferenceIs
<1>3. Elapsed(new, last) = Between(p, edge, q, seen)
  BY <1>1, Zenon DEF Elapsed, Value, Between
<1> QED
  BY <1>2, <1>3, Zenon

LEMMA CapIsrCaps == ASSUME CapInv, CapIsr PROVE CapInv'
<1>1. capOverflow' \in Nat
  BY CapAssumption DEF CapInv, CapIsr
<1>2. capNow' = capNow /\ capCcr' = capCcr /\ capEdge' = capEdge /\ capPending' = {}
  BY DEF CapIsr
<1>3. CASE UNCHANGED <<capLast, capReport, capSeen, capTrue>>
  BY <1>1, <1>2, <1>3 DEF CapInv, CapturesElapsed
<1>4. ASSUME NEW c, c = LastChannel, capPending # {},
             capReport' = [channel |-> c, value |-> 0], ~CapturesOn(c), UNCHANGED <<capLast, capSeen, capTrue>>
      PROVE  CapInv'
  BY <1>1, <1>2, <1>4 DEF CapInv, CapturesElapsed
<1>5. ASSUME NEW c \in CapChannel, NEW new, new = Latched(c, capOverflow'),
             capReport' = [channel |-> c, value |-> Elapsed(new, ReferenceCount(c, new))],
             capLast' = [capLast EXCEPT ![c] = new], capSeen' = [capSeen EXCEPT ![c] = capEdge[c]],
             capTrue' = IF capSeen[Reference(c)] = -1 THEN -1 ELSE capEdge[c] - capSeen[Reference(c)]
      PROVE  CapInv'
  <2>1. new \in Caught /\ new.counter = capCcr[c]
    BY <1>1, <1>5 DEF Latched, Caught, CapInv
  <2>2. Reference(c) \in CapChannel
    BY CapAssumption
  <2>3. capTrue' # -1 => capReport'.value = capTrue' % CapScale
    <3> SUFFICES ASSUME capTrue' # -1 PROVE capReport'.value = capTrue' % CapScale
      OBVIOUS
    <3>1. capSeen[Reference(c)] # -1 /\ capTrue' = capEdge[c] - capSeen[Reference(c)]
      BY <1>5
    <3>2. capSeen[Reference(c)] \in Nat /\ capLast[Reference(c)] \in Caught /\ capEdge[c] \in Nat
      BY <2>2, <3>1 DEF CapInv
    <3>3. /\ capLast[Reference(c)].counter = capSeen[Reference(c)] % CapScale
          /\ new.counter = capEdge[c] % CapScale
      BY <2>1, <2>2, <3>1 DEF CapInv
    <3>4. Elapsed(new, capLast[Reference(c)]) = (capEdge[c] - capSeen[Reference(c)]) % CapScale
      BY <2>1, <3>2, <3>3, ElapsedIs
    <3> QED
      BY <1>5, <3>1, <3>4 DEF ReferenceCount
  <2>4. CapturesElapsed'
    BY <2>3 DEF CapturesElapsed
  <2>5. capLast' \in [CapChannel -> Caught] /\ capSeen' \in [CapChannel -> Nat \cup {-1}]
    BY <1>5, <2>1 DEF CapInv
  <2>6. ASSUME NEW d \in CapChannel
        PROVE  capCcr'[d] = capEdge'[d] % CapScale /\ (capSeen'[d] # -1 => capLast'[d].counter = capSeen'[d] % CapScale)
    BY <1>2, <1>5, <2>1 DEF CapInv
  <2> QED
    BY <1>1, <1>2, <2>4, <2>5, <2>6 DEF CapInv
<1>6. CASE capPending # {} /\ IsTold(LastChannel)
  <2>1. PICK c \in CapChannel : c = LastChannel
    <3>1. capPending \subseteq CapChannel /\ capPending \subseteq 0 .. 7
      BY CapAssumption DEF CapInv, Channel
    <3> QED
      BY <1>6, <3>1, LastOfChannels DEF LastChannel
  <2>2. CASE CapturesOn(c)
    <3>1. PICK new : new = Latched(c, capOverflow')
      OBVIOUS
    <3> QED
      BY <1>5, <1>6, <2>1, <2>2, <3>1 DEF CapIsr
  <2>3. CASE ~CapturesOn(c)
    BY <1>4, <1>6, <2>1, <2>3 DEF CapIsr
  <2> QED
    BY <2>2, <2>3
<1> QED
  BY <1>3, <1>6 DEF CapIsr

LEMMA CapInvAlways == CapSpec => []CapInv
<1>1. CapInv /\ [CapNext]_capVars => CapInv'
  <2>1. CapInv /\ UNCHANGED capVars => CapInv'
    BY DEF CapInv, capVars, CapturesElapsed
  <2> QED
    BY <2>1, CountCaps, ChannelEventCaps, CounterEventCaps, RecaptureCaps, CapIsrCaps DEF CapNext
<1> QED
  BY CapInvInit, <1>1, PTL DEF CapSpec

-----------------------------------------------------------------------------
\* The ticks after which the byte that counts the wraps has wrapped itself
PcaWrap == PcaScale * PcaByte

\* Where the counter stands for a channel, the wrap that is still to be counted
\* included
Position(c) == pcaOver[c] * PcaScale + (IF pcaCf THEN PcaScale ELSE 0) + pcaCtr

Moments == [at : Int, skew : BOOLEAN]

PcaTypeOK ==
    /\ pcaNow \in Nat /\ pcaCtr \in 0 .. PcaScale - 1 /\ pcaCf \in BOOLEAN
    /\ pcaFlags \subseteq PcaChannel /\ pcaOn \subseteq PcaChannel
    /\ pcaCcap \in [PcaChannel -> Int]
    /\ pcaOver \in [PcaChannel -> 0 .. PcaByte - 1]
    /\ pcaData \in [PcaChannel -> [lo : Int, hi : Int]]
    /\ pcaMode \in [PcaChannel -> {"UNUSED", "CAPTURE", "TIMER", "PWM"}]
    /\ pcaShot \in [PcaChannel -> [one : BOOLEAN, shift : 0 .. 31]]
    /\ pcaEdge \in [PcaChannel -> Moments] /\ pcaPrev \in [PcaChannel -> Moments]

ModeFits(c) ==
    /\ pcaMode[c] = "CAPTURE" => PcaUse[c] = "capture"
    /\ pcaMode[c] = "TIMER" => PcaUse[c] = "timer"
    /\ PcaUse[c] = "capture" => pcaCcap[c] \in 0 .. PcaScale - 1

\* The register of a channel whose flag is set is as far behind the counter as the
\* edge is behind the present, unless the counter wrapped since.
EdgeStands(c) ==
    ~pcaEdge[c].skew =>
        /\ PcaUse[c] = "capture"
        /\ c \in pcaFlags => pcaEdge[c].at \in 0 .. pcaNow /\ pcaCcap[c] - pcaCtr = pcaEdge[c].at - pcaNow

\* What was kept of the last edge is as far behind the counter with its wraps, up
\* to those that the byte has lost.
CountsTo(c) == \E k \in Int : Count32(pcaData[c]) - Position(c) = pcaPrev[c].at - pcaNow + k * PcaWrap
PrevStands(c) ==
    pcaMode[c] = "CAPTURE" /\ ~pcaPrev[c].skew =>
        /\ pcaPrev[c].at \in 0 .. pcaNow
        /\ ~pcaEdge[c].skew /\ c \in pcaFlags => pcaPrev[c].at <= pcaEdge[c].at
        /\ pcaData[c].hi \in 0 .. PcaByte - 1 /\ pcaData[c].lo \in 0 .. PcaScale - 1
        /\ CountsTo(c)

PcaInv ==
    /\ PcaTypeOK
    /\ \A c \in PcaChannel : ModeFits(c) /\ EdgeStands(c) /\ PrevStands(c)
    /\ PulseWidths

LEMMA TimesGrows ==
    ASSUME NEW m \in Nat, NEW k \in Nat \ {0}
    PROVE  k * m \in Nat /\ k * m >= m
<1>1. PICK j \in Nat : k = j + 1
  OBVIOUS
<1>2. k * m = j * m + m /\ j * m \in Nat
  BY <1>1
<1> QED
  BY <1>2

LEMMA ScalesFit ==
    /\ PcaByte \in Nat \ {0} /\ PcaScale \in Nat \ {0} /\ PcaWrap \in Nat \ {0}
    /\ PcaByte <= PcaScale /\ PcaScale <= PcaWrap /\ PcaWrap = PcaByte * PcaScale
<1>1. PcaByte \in Nat \ {0} /\ PcaScale = PcaByte * PcaByte
  BY PcaAssumption
<1>2. PcaScale \in Nat \ {0} /\ PcaByte <= PcaScale
  BY <1>1, TimesGrows
<1>3. PcaByte * PcaScale \in Nat \ {0} /\ PcaScale <= PcaByte * PcaScale
  BY <1>1, <1>2, TimesGrows
<1>4. PcaWrap = PcaByte * PcaScale
  BY <1>1, <1>2 DEF PcaWrap
<1> QED
  BY <1>1, <1>2, <1>3, <1>4

LEMMA QuotientIs ==
    ASSUME NEW m \in Nat \ {0}, NEW q \in Int, NEW r \in 0 .. m - 1, NEW x \in Int, x = r + q * m
    PROVE  x \div m = q /\ x % m = r
<1>2. PICK s \in 0 .. m - 1, d \in Int : s = x % m /\ d = x \div m /\ x = s + d * m
  BY Division
<1>3. PICK k \in Int : k = q - d
  OBVIOUS
<1>4. k * m = q * m - d * m
  BY <1>3, TimesOver
<1>5. PICK u \in Int, v \in Int : u = q * m /\ v = d * m
  OBVIOUS
<1>6. s = r + (u - v)
  BY <1>2, <1>5
<1>7. s = r + k * m
  BY <1>4, <1>5, <1>6, Zenon
<1>8. s = r
  BY <1>7, OneRemainder
<1>9. k * m = 0
  BY <1>4, <1>5, <1>6, <1>8
<1>10. k = 0
  <2>1. CASE k > 0
    BY <1>9, <2>1, TimesGrows
  <2>2. CASE k < 0
    <3>1. PICK j \in Nat \ {0} : j = -k
      BY <2>2
    <3>2. j * m = -(k * m)
      BY <3>1
    <3> QED
      BY <1>9, <3>2, TimesGrows
  <2> QED
    BY <2>1, <2>2
<1> QED
  BY <1>2, <1>3, <1>8, <1>10

LEMMA SmallRemainder == ASSUME NEW m \in Nat \ {0}, NEW x \in 0 .. m - 1 PROVE x % m = x /\ x \div m = 0
<1>1. x = x + 0 * m
  OBVIOUS
<1> QED
  BY <1>1, QuotientIs

LEMMA TimesOrder ==
    ASSUME NEW m \in Nat, NEW a \in Int, NEW b \in Int, a <= b
    PROVE  a * m <= b * m
<1>1. PICK d \in Nat : d = b - a
  OBVIOUS
<1>2. d * m = b * m - a * m /\ d * m \in Nat
  BY <1>1, TimesOver
<1>3. PICK u \in Int, v \in Int : u = a * m /\ v = b * m
  OBVIOUS
<1> QED
  BY <1>2, <1>3

\* Of what fits the counter and its byte of wraps, the high half is no more than a
\* byte, and 0 when the counter alone counts it.
LEMMA HighHalf ==
    ASSUME NEW w \in 0 .. PcaWrap - 1
    PROVE  /\ w \div PcaScale \in 0 .. PcaByte - 1
           /\ (w \div PcaScale) % PcaByte = w \div PcaScale
           /\ w \div PcaScale # 0 <=> w >= PcaScale
           /\ w < PcaScale => w % PcaScale = w
<1>1. PICK r \in 0 .. PcaScale - 1, q \in Int : q = w \div PcaScale /\ w = r + q * PcaScale
  <2>1. w \in Int /\ PcaScale \in Nat \ {0}
    BY ScalesFit
  <2> QED
    BY <2>1, Division
<1>2. q >= 0
  <2> SUFFICES ASSUME q <= -1 PROVE FALSE
    OBVIOUS
  <2>1. q * PcaScale <= (-1) * PcaScale
    BY ScalesFit, TimesOrder
  <2>2. (-1) * PcaScale = -PcaScale
    BY ScalesFit
  <2> QED
    BY <1>1, <2>1, <2>2, ScalesFit
<1>3. q < PcaByte
  <2> SUFFICES ASSUME PcaByte <= q PROVE FALSE
    BY ScalesFit
  <2>1. PcaByte * PcaScale <= q * PcaScale
    BY ScalesFit, TimesOrder
  <2> QED
    BY <1>1, <2>1, ScalesFit
<1>4. q \in 0 .. PcaByte - 1
  BY <1>2, <1>3, ScalesFit
<1>5. q % PcaByte = q
  BY <1>4, ScalesFit, SmallRemainder
<1>6. q # 0 => w >= PcaScale
  <2> SUFFICES ASSUME q # 0 PROVE w >= PcaScale
    OBVIOUS
  <2>1. q \in Nat \ {0}
    BY <1>2
  <2>2. q * PcaScale >= PcaScale
    BY <2>1, ScalesFit, TimesGrows
  <2> QED
    BY <1>1, <2>2, ScalesFit
<1>7. q = 0 => w < PcaScale
  BY <1>1, ScalesFit
<1>8. w < PcaScale => w % PcaScale = w
  BY ScalesFit, SmallRemainder
<1>9. q # 0 <=> w >= PcaScale
  BY <1>6, <1>7, ScalesFit
<1> QED
  BY <1>1, <1>4, <1>5, <1>8, <1>9, Zenon

LEMMA QuotientLess ==
    ASSUME NEW p \in Nat \ {0}, NEW t \in Nat
    PROVE  t \div p \in 0 .. t
<1>1. PICK q \in Int, r \in 0 .. p - 1 : q = t \div p /\ t = r + q * p
  <2>1. t \in Int
    OBVIOUS
  <2> QED
    BY <2>1, Division
<1>2. q >= 0
  <2> SUFFICES ASSUME q <= -1 PROVE FALSE
    OBVIOUS
  <2>1. q * p <= (-1) * p
    BY TimesOrder
  <2> QED
    BY <1>1, <2>1
<1>3. CASE q = 0
  BY <1>1, <1>3
<1>4. CASE q > 0
  <2>1. p * q \in Nat /\ p * q >= q
    BY <1>4, TimesGrows
  <2>2. p * q = q * p
    OBVIOUS
  <2> QED
    BY <1>1, <1>4, <2>1, <2>2
<1> QED
  BY <1>2, <1>3, <1>4

\* The 32 bits less the counts that wrapped: a multiple of the scale, by a multiple
\* of the byte
LEMMA ScaleSquared ==
    \E D \in Nat, E \in Nat :
        /\ D * PcaScale = PcaScale * PcaScale - PcaWrap
        /\ D = E * PcaByte
        /\ PcaScale * PcaScale \in Nat \ {0} /\ PcaWrap <= PcaScale * PcaScale
<1>1. PICK D \in Nat : D = PcaScale - PcaByte
  BY ScalesFit
<1>2. D * PcaScale = PcaScale * PcaScale - PcaByte * PcaScale
  BY <1>1, ScalesFit, TimesOver
<1>3. PICK E \in Nat : E = PcaByte - 1
  BY ScalesFit
<1>4. E * PcaByte = PcaByte * PcaByte - 1 * PcaByte
  BY <1>3, ScalesFit, TimesOver
<1>5. D = E * PcaByte
  BY <1>1, <1>4, ScalesFit, PcaAssumption
<1>6. PcaScale * PcaScale \in Nat \ {0} /\ PcaByte * PcaScale <= PcaScale * PcaScale
  <2>1. PcaScale * PcaScale >= PcaScale /\ PcaScale * PcaScale \in Nat
    BY ScalesFit, TimesGrows
  <2>2. PcaByte * PcaScale <= PcaScale * PcaScale
    BY ScalesFit, TimesOrder
  <2> QED
    BY <2>1, <2>2, ScalesFit
<1> QED
  BY <1>2, <1>5, <1>6, ScalesFit

\* What the handler makes of two counts that are so many ticks apart, wraps left
\* out: the ticks shifted, or the most there is.
LEMMA DurationIs ==
    ASSUME NEW x \in 0 .. PcaWrap - 1, NEW y \in 0 .. PcaWrap - 1, NEW ticks \in 0 .. PcaWrap - 1,
           NEW k \in Int, x - y = ticks + k * PcaWrap, NEW p \in Nat \ {0}, x < y => p = 1
    PROVE  LET width == ((x - y) % (PcaScale * PcaScale)) \div p
           IN  (IF (width \div PcaScale) % PcaByte # 0 THEN PcaScale - 1 ELSE width % PcaScale)
                  = IF ticks \div p >= PcaScale THEN PcaScale - 1 ELSE ticks \div p
<1>1. PICK D \in Nat, E \in Nat, Q \in Nat \ {0} :
         D * PcaScale = Q - PcaWrap /\ D = E * PcaByte /\ Q = PcaScale * PcaScale /\ PcaWrap <= Q
  BY ScaleSquared
<1>2. k = 0 \/ k = -1
  <2>1. k < 1
    <3> SUFFICES ASSUME 1 <= k PROVE FALSE
      OBVIOUS
    <3>1. 1 * PcaWrap <= k * PcaWrap
      BY ScalesFit, TimesOrder
    <3>2. PICK u \in Int : u = k * PcaWrap
      BY ScalesFit
    <3> QED
      BY <3>1, <3>2, ScalesFit
  <2>2. k > -2
    <3> SUFFICES ASSUME k <= -2 PROVE FALSE
      OBVIOUS
    <3>1. k * PcaWrap <= (-2) * PcaWrap
      BY ScalesFit, TimesOrder
    <3>2. PICK u \in Int : u = k * PcaWrap
      BY ScalesFit
    <3>3. (-2) * PcaWrap = -PcaWrap - PcaWrap
      BY ScalesFit
    <3> QED
      BY <3>1, <3>2, <3>3, ScalesFit
  <2> QED
    BY <2>1, <2>2
<1>3. CASE k = 0
  <2>1. x - y = ticks
    BY <1>3, ScalesFit
  <2>2. ticks \in 0 .. Q - 1
    BY <1>1, ScalesFit
  <2>3. (x - y) % Q = ticks
    BY <2>1, <2>2, SmallRemainder
  <2>4. PICK w \in 0 .. ticks : w = ticks \div p
    BY QuotientLess
  <2>5. w \in 0 .. PcaWrap - 1
    BY ScalesFit
  <2>6. /\ (w \div PcaScale) % PcaByte = w \div PcaScale
        /\ w \div PcaScale # 0 <=> w >= PcaScale
        /\ w < PcaScale => w % PcaScale = w
    BY <2>5, HighHalf
  <2>7. (IF (w \div PcaScale) % PcaByte # 0 THEN PcaScale - 1 ELSE w % PcaScale)
           = IF w >= PcaScale THEN PcaScale - 1 ELSE w
    <3>1. w < PcaScale \/ w >= PcaScale
      BY ScalesFit
    <3>2. w < PcaScale => ~(w >= PcaScale)
      BY ScalesFit
    <3> QED
      BY <2>6, <3>1, <3>2, Zenon
  <2> QED
    BY <1>1, <2>3, <2>4, <2>7, Zenon
<1>4. CASE k = -1
  <2>1. x - y = ticks - PcaWrap /\ x < y
    BY <1>4, ScalesFit
  <2>2. p = 1
    BY <2>1
  <2>3. PICK w \in 0 .. Q - 1 : w = ticks + D * PcaScale
    BY <1>1, ScalesFit
  <2>4. PICK z \in Int : z = x - y
    OBVIOUS
  <2>5. (x - y) % Q = w
    <3>1. z = w + (-1) * Q
      BY <1>1, <2>1, <2>3, <2>4, ScalesFit
    <3>2. -1 \in Int /\ w \in Int
      OBVIOUS
    <3>3. z % Q = w % Q
      BY <2>4, <3>1, <3>2, Congruent, Zenon
    <3> QED
      BY <2>4, <3>3, SmallRemainder
  <2>6. w \div p = w /\ ticks \div p = ticks
    <3>1. \A t \in Nat : t \div 1 = t
      OBVIOUS
    <3> QED
      BY <2>2, <3>1
  <2>7. PICK r \in 0 .. PcaScale - 1, q \in 0 .. PcaByte - 1 :
           q = ticks \div PcaScale /\ ticks = r + q * PcaScale /\ (q # 0 <=> ticks >= PcaScale)
    <3>1. ticks = (ticks % PcaScale) + (ticks \div PcaScale) * PcaScale /\ ticks % PcaScale \in 0 .. PcaScale - 1
      <4>1. \A t \in Int, m \in Nat \ {0} : t % m \in 0 .. m - 1 /\ t = (t % m) + (t \div m) * m
        OBVIOUS
      <4> QED
        BY <4>1, ScalesFit
    <3> QED
      BY <3>1, HighHalf
  <2>8. w \div PcaScale = q + D /\ w % PcaScale = r
    <3>1. (q + D) * PcaScale = q * PcaScale + D * PcaScale
      BY ScalesFit, TimesOver
    <3>2. PICK u \in Int, v \in Int : u = q * PcaScale /\ v = D * PcaScale
      BY ScalesFit
    <3>3. w = r + (u + v)
      BY <2>3, <2>7, <3>2
    <3>4. w = r + (q + D) * PcaScale
      BY <3>1, <3>2, <3>3, Zenon
    <3>5. q + D \in Int
      OBVIOUS
    <3> QED
      BY <3>4, <3>5, QuotientIs, ScalesFit
  <2>9. (q + D) % PcaByte = q
    <3>1. PICK s \in Int : s = q + D
      OBVIOUS
    <3>2. s = q + E * PcaByte
      BY <1>1, <3>1
    <3>3. s % PcaByte = q % PcaByte
      <4>1. q \in Int /\ E \in Int /\ PcaByte \in Nat \ {0}
        BY ScalesFit
      <4> QED
        BY <3>1, <3>2, <4>1, Congruent, Zenon
    <3>4. q % PcaByte = q
      BY SmallRemainder, ScalesFit
    <3> QED
      BY <3>1, <3>3, <3>4
  <2>10. q = 0 => r = ticks
    BY <2>7, ScalesFit
  <2>11. (IF (w \div PcaScale) % PcaByte # 0 THEN PcaScale - 1 ELSE w % PcaScale)
            = IF ticks >= PcaScale THEN PcaScale - 1 ELSE ticks
    BY <2>7, <2>8, <2>9, <2>10, Zenon
  <2> QED
    BY <1>1, <2>5, <2>6, <2>11, Zenon
<1> QED
  BY <1>2, <1>3, <1>4

-----------------------------------------------------------------------------
LEMMA PcaInvInit == PcaInit => PcaInv
<1> SUFFICES ASSUME PcaInit PROVE PcaInv
  OBVIOUS
<1>1. PcaTypeOK
  <2>1. NoEdge \in Moments
    BY DEF NoEdge, Moments
  <2>2. pcaEdge \in [PcaChannel -> Moments] /\ pcaPrev \in [PcaChannel -> Moments]
    BY <2>1 DEF PcaInit
  <2>3. 0 \in 0 .. PcaScale - 1 /\ 0 \in 0 .. PcaByte - 1 /\ 0 \in 0 .. 31
    BY ScalesFit
  <2>4. pcaShot \in [PcaChannel -> [one : BOOLEAN, shift : 0 .. 31]] /\ pcaData \in [PcaChannel -> [lo : Int, hi : Int]]
    BY <2>3 DEF PcaInit
  <2> QED
    BY <2>2, <2>3, <2>4 DEF PcaInit, PcaTypeOK
<1>2. \A c \in PcaChannel : ModeFits(c) /\ EdgeStands(c) /\ PrevStands(c)
  BY ScalesFit DEF PcaInit, ModeFits, EdgeStands, PrevStands, NoEdge
<1> QED
  BY <1>1, <1>2 DEF PcaInit, PcaInv, PulseWidths

\* What a channel stands for, as long as none of what it hangs on changes
LEMMA CaptureLeft ==
    ASSUME NEW c \in PcaChannel, ModeFits(c), EdgeStands(c), PrevStands(c),
           pcaNow' = pcaNow, pcaCtr' = pcaCtr, pcaCf' = pcaCf, pcaFlags' = pcaFlags,
           pcaCcap'[c] = pcaCcap[c], pcaOver'[c] = pcaOver[c], pcaData'[c] = pcaData[c],
           pcaMode'[c] = pcaMode[c], pcaEdge'[c] = pcaEdge[c], pcaPrev'[c] = pcaPrev[c]
    PROVE  ModeFits(c)' /\ EdgeStands(c)' /\ PrevStands(c)'
<1>1. CountsTo(c)' <=> CountsTo(c)
  BY DEF CountsTo, Position, Count32
<1> QED
  BY <1>1 DEF ModeFits, EdgeStands, PrevStands

LEMMA StartCaptureKeeps == ASSUME PcaInv, pcaStartCapture PROVE PcaInv'
<1>1. PICK c \in PcaChannel, one \in BOOLEAN, shift \in PcaShifts :
         /\ PcaUse[c] = "capture"
         /\ pcaOver' = [pcaOver EXCEPT ![c] = 0]
         /\ pcaData' = [pcaData EXCEPT ![c] = [lo |-> 0, hi |-> 0]]
         /\ pcaShot' = [pcaShot EXCEPT ![c] = [one |-> one, shift |-> shift]]
         /\ pcaMode' = [pcaMode EXCEPT ![c] = "CAPTURE"]
         /\ pcaOn' = pcaOn \cup {c}
         /\ pcaCcap' = [pcaCcap EXCEPT ![c] = 0]
         /\ pcaPrev' = [d \in PcaChannel |-> IF d = c THEN [at |-> pcaNow, skew |-> pcaCf \/ c \in pcaFlags] ELSE NoEdge]
  BY DEF pcaStartCapture
<1>2. /\ pcaCtr' = 0 /\ pcaEdge' = [d \in PcaChannel |-> NoEdge]
      /\ UNCHANGED <<pcaNow, pcaCf, pcaFlags, pcaReport, pcaTrue>>
  BY DEF pcaStartCapture
<1>3. PcaTypeOK'
  <2>1. PICK skew \in BOOLEAN : skew = (pcaCf \/ c \in pcaFlags)
    BY DEF PcaInv, PcaTypeOK
  <2>2. [at |-> pcaNow, skew |-> skew] \in Moments /\ NoEdge \in Moments
    BY DEF PcaInv, PcaTypeOK, Moments, NoEdge
  <2>3. pcaPrev' \in [PcaChannel -> Moments] /\ pcaEdge' \in [PcaChannel -> Moments]
    BY <1>1, <1>2, <2>1, <2>2
  <2>4. shift \in 0 .. 31
    BY PcaAssumption
  <2> QED
    BY <1>1, <1>2, <2>3, <2>4, ScalesFit DEF PcaInv, PcaTypeOK
<1>4. ASSUME NEW d \in PcaChannel PROVE ModeFits(d)' /\ EdgeStands(d)' /\ PrevStands(d)'
  <2>1. ModeFits(d)'
    BY <1>1, ScalesFit DEF PcaInv, PcaTypeOK, ModeFits
  <2>2. pcaEdge'[d].skew
    BY <1>2 DEF NoEdge
  <2>3. EdgeStands(d)'
    BY <2>2 DEF EdgeStands
  <2>4. CASE d # c
    BY <1>1, <2>1, <2>3, <2>4 DEF PrevStands, NoEdge
  <2>5. CASE d = c
    <3> SUFFICES ASSUME ~pcaPrev'[c].skew PROVE PrevStands(c)'
      BY <2>1, <2>3, <2>5 DEF PrevStands
    <3>1. PICK skew \in BOOLEAN : skew = (pcaCf \/ c \in pcaFlags) /\ pcaPrev'[c] = [at |-> pcaNow, skew |-> skew]
      <4>1. (pcaCf \/ c \in pcaFlags) \in BOOLEAN
        BY DEF PcaInv, PcaTypeOK
      <4> QED
        BY <1>1, <4>1
    <3>2. ~skew /\ pcaPrev'[c].at = pcaNow
      BY <3>1
    <3>3. pcaOver'[c] = 0 /\ pcaData'[c] = [lo |-> 0, hi |-> 0]
      BY <1>1 DEF PcaInv, PcaTypeOK
    <3>4. Count32(pcaData[c])' = 0 /\ Position(c)' = 0
      <4>1. ~pcaCf'
        BY <1>2, <3>1, <3>2, Zenon
      <4>2. pcaCtr' = 0 /\ 0 * PcaScale = 0 /\ 0 * PcaScale + 0 = 0 /\ 0 * PcaScale + 0 + 0 = 0
        BY <1>2, ScalesFit
      <4>3. Position(c)' = pcaOver'[c] * PcaScale + 0 + pcaCtr'
        BY <4>1 DEF Position
      <4> QED
        BY <3>3, <4>2, <4>3 DEF Count32
    <3>5. pcaPrev'[c].at - pcaNow' = 0 /\ pcaNow \in Nat
      BY <1>2, <3>2 DEF PcaInv, PcaTypeOK
    <3>6. CountsTo(c)'
      <4>1. 0 - 0 = 0 + 0 * PcaWrap /\ 0 \in Int
        BY ScalesFit
      <4> QED
        BY <3>4, <3>5, <4>1 DEF CountsTo
    <3> QED
      BY <1>2, <2>2, <2>5, <3>2, <3>3, <3>5, <3>6, ScalesFit DEF PrevStands
  <2> QED
    BY <2>1, <2>3, <2>4, <2>5
<1> QED
  BY <1>2, <1>3, <1>4 DEF PcaInv, PulseWidths

LEMMA StartTimerKeeps == ASSUME PcaInv, pcaStartTimer PROVE PcaInv'
<1>1. PICK c \in PcaChannel :
         /\ PcaUse[c] = "timer"
         /\ pcaData' = [pcaData EXCEPT ![c] = [lo |-> PcaPeriod, hi |-> PcaPeriod]]
         /\ pcaMode' = [pcaMode EXCEPT ![c] = "TIMER"]
         /\ pcaOn' = pcaOn \cup {c}
         /\ pcaCcap' = [pcaCcap EXCEPT ![c] = PcaPeriod]
  BY DEF pcaStartTimer
<1>2. UNCHANGED <<pcaNow, pcaCtr, pcaCf, pcaFlags, pcaOver, pcaShot, pcaReport, pcaEdge, pcaPrev, pcaTrue>>
  BY DEF pcaStartTimer
<1>3. PcaPeriod \in Int
  BY PcaAssumption, ScalesFit
<1>4. PcaTypeOK'
  BY <1>1, <1>2, <1>3 DEF PcaInv, PcaTypeOK
<1>5. ASSUME NEW d \in PcaChannel PROVE ModeFits(d)' /\ EdgeStands(d)' /\ PrevStands(d)'
  <2>1. CASE d # c
    BY <1>1, <1>2, <2>1, CaptureLeft DEF PcaInv, PcaTypeOK
  <2>2. CASE d = c
    BY <1>1, <1>2, <2>2 DEF PcaInv, PcaTypeOK, ModeFits, EdgeStands, PrevStands
  <2> QED
    BY <2>1, <2>2
<1> QED
  BY <1>2, <1>4, <1>5 DEF PcaInv, PulseWidths

LEMMA StopKeeps == ASSUME PcaInv, pcaStopChannel PROVE PcaInv'
<1>1. /\ UNCHANGED <<pcaNow, pcaCtr, pcaCf, pcaFlags, pcaCcap, pcaOver, pcaData, pcaMode, pcaShot,
                     pcaReport, pcaEdge, pcaPrev, pcaTrue>>
      /\ pcaOn' \subseteq pcaOn
  BY DEF pcaStopChannel
<1>2. PcaTypeOK'
  BY <1>1 DEF PcaInv, PcaTypeOK
<1>3. ASSUME NEW d \in PcaChannel PROVE ModeFits(d)' /\ EdgeStands(d)' /\ PrevStands(d)'
  BY <1>1, CaptureLeft DEF PcaInv
<1> QED
  BY <1>1, <1>2, <1>3 DEF PcaInv, PulseWidths

LEMMA StartPcaCounterKeeps == ASSUME PcaInv, pcaStartCounter PROVE PcaInv'
<1>1. /\ pcaMode' = [c \in PcaChannel |-> "UNUSED"]
      /\ pcaCtr' = 0 /\ pcaCf' = FALSE /\ pcaFlags' = {}
      /\ pcaEdge' = [c \in PcaChannel |-> NoEdge]
      /\ pcaPrev' = [c \in PcaChannel |-> NoEdge]
      /\ UNCHANGED <<pcaNow, pcaOn, pcaCcap, pcaOver, pcaData, pcaShot, pcaReport, pcaTrue>>
  BY DEF pcaStartCounter
<1>2. NoEdge \in Moments /\ NoEdge.skew
  BY DEF NoEdge, Moments
<1>3. PcaTypeOK'
  <2>1. pcaEdge' \in [PcaChannel -> Moments] /\ pcaPrev' \in [PcaChannel -> Moments]
    BY <1>1, <1>2
  <2>2. pcaMode' \in [PcaChannel -> {"UNUSED", "CAPTURE", "TIMER", "PWM"}]
    BY <1>1
  <2>3. 0 \in 0 .. PcaScale - 1
    BY ScalesFit
  <2> QED
    BY <1>1, <2>1, <2>2, <2>3 DEF PcaInv, PcaTypeOK
<1>4. ASSUME NEW d \in PcaChannel PROVE ModeFits(d)' /\ EdgeStands(d)' /\ PrevStands(d)'
  BY <1>1, <1>2 DEF PcaInv, ModeFits, EdgeStands, PrevStands
<1> QED
  BY <1>1, <1>3, <1>4 DEF PcaInv, PulseWidths

LEMMA DutyCycleKeeps == ASSUME PcaInv, pcaDutyCycle PROVE PcaInv'
<1>1. PICK c \in PcaChannel : /\ PcaUse[c] = "pwm" /\ pcaOn' = pcaOn \cup {c}
                              /\ pcaMode' = [pcaMode EXCEPT ![c] = "PWM"]
  BY DEF pcaDutyCycle
<1>2. UNCHANGED <<pcaNow, pcaCtr, pcaCf, pcaFlags, pcaCcap, pcaOver, pcaData, pcaShot,
                  pcaReport, pcaEdge, pcaPrev, pcaTrue>>
  BY DEF pcaDutyCycle
<1>3. PcaTypeOK'
  BY <1>1, <1>2 DEF PcaInv, PcaTypeOK
<1>4. ASSUME NEW d \in PcaChannel PROVE ModeFits(d)' /\ EdgeStands(d)' /\ PrevStands(d)'
  <2>1. CASE d # c
    BY <1>1, <1>2, <2>1, CaptureLeft DEF PcaInv, PcaTypeOK
  <2>2. CASE d = c
    BY <1>1, <1>2, <2>2 DEF PcaInv, PcaTypeOK, ModeFits, EdgeStands, PrevStands
  <2> QED
    BY <2>1, <2>2
<1> QED
  BY <1>2, <1>3, <1>4 DEF PcaInv, PulseWidths

\* Ticks and edges: nothing is reported.
LEMMA TickKeeps == ASSUME PcaInv, PcaTick PROVE PcaInv'
<1>1. PICK hit : /\ hit = {c \in pcaOn : PcaUse[c] = "timer" /\ pcaCcap[c] = pcaCtr'}
                 /\ pcaFlags' = pcaFlags \cup hit
  BY DEF PcaTick
<1>2. /\ pcaNow' = pcaNow + 1 /\ pcaCtr' = (pcaCtr + 1) % PcaScale /\ pcaCf' = (pcaCf \/ pcaCtr' = 0)
      /\ pcaEdge' = [c \in PcaChannel |->
                       IF c \in pcaFlags /\ pcaCtr' = 0 THEN [at |-> pcaEdge[c].at, skew |-> TRUE] ELSE pcaEdge[c]]
      /\ pcaPrev' = IF pcaCf /\ pcaCtr' = 0 THEN [c \in PcaChannel |-> NoEdge] ELSE pcaPrev
      /\ UNCHANGED <<pcaOn, pcaCcap, pcaOver, pcaData, pcaMode, pcaShot, pcaReport, pcaTrue>>
  BY DEF PcaTick
<1>3. pcaCtr \in 0 .. PcaScale - 1 /\ pcaNow \in Nat /\ pcaCf \in BOOLEAN
  BY DEF PcaInv, PcaTypeOK
<1>4. IF pcaCtr = PcaScale - 1 THEN pcaCtr' = 0 ELSE pcaCtr' = pcaCtr + 1
  <2>1. CASE pcaCtr = PcaScale - 1
    <3>1. pcaCtr + 1 = 0 + 1 * PcaScale /\ 0 \in 0 .. PcaScale - 1 /\ pcaCtr + 1 \in Int
      BY <2>1, ScalesFit
    <3>2. (pcaCtr + 1) % PcaScale = 0
      BY <3>1, ScalesFit, QuotientIs
    <3> QED
      BY <1>2, <2>1, <3>2
  <2>2. CASE pcaCtr # PcaScale - 1
    <3>1. pcaCtr + 1 \in 0 .. PcaScale - 1
      BY <1>3, <2>2, ScalesFit
    <3> QED
      BY <1>2, <2>2, <3>1, ScalesFit, SmallRemainder
  <2> QED
    BY <2>1, <2>2
<1>5. pcaCtr' \in 0 .. PcaScale - 1 /\ (pcaCtr' # 0 => pcaCtr' = pcaCtr + 1)
  BY <1>3, <1>4, ScalesFit
<1>6. PcaTypeOK'
  <2>0. NoEdge \in Moments
    BY DEF NoEdge, Moments
  <2>1. \A e \in Moments : [at |-> e.at, skew |-> TRUE] \in Moments
    BY DEF Moments
  <2>2. pcaEdge' \in [PcaChannel -> Moments] /\ pcaPrev' \in [PcaChannel -> Moments]
    BY <1>2, <2>0, <2>1 DEF PcaInv, PcaTypeOK
  <2>3. pcaCf' \in BOOLEAN /\ pcaNow' \in Nat /\ pcaFlags' \subseteq PcaChannel
    BY <1>1, <1>2, <1>3 DEF PcaInv, PcaTypeOK
  <2> QED
    BY <1>2, <1>5, <2>2, <2>3 DEF PcaInv, PcaTypeOK
<1>7. ASSUME NEW c \in PcaChannel, PcaUse[c] = "capture", c \in pcaFlags', ~pcaEdge'[c].skew
      PROVE  c \in pcaFlags /\ pcaCtr' # 0 /\ pcaEdge'[c] = pcaEdge[c] /\ ~pcaEdge[c].skew
  <2>1. c \in pcaFlags
    BY <1>1, <1>7
  <2>2. pcaEdge[c] \in Moments
    BY DEF PcaInv, PcaTypeOK
  <2>3. [at |-> pcaEdge[c].at, skew |-> TRUE].skew
    BY <2>2 DEF Moments
  <2>4. pcaCtr' # 0
    BY <1>2, <1>7, <2>1, <2>3
  <2> QED
    BY <1>2, <1>7, <2>1, <2>4
<1>8. ASSUME NEW c \in PcaChannel PROVE EdgeStands(c)'
  <2> SUFFICES ASSUME ~pcaEdge'[c].skew
               PROVE  /\ PcaUse[c] = "capture"
                      /\ c \in pcaFlags' => pcaEdge'[c].at \in 0 .. pcaNow' /\ pcaCcap'[c] - pcaCtr' = pcaEdge'[c].at - pcaNow'
    BY DEF EdgeStands
  <2>1. ~pcaEdge[c].skew
    <3>1. pcaEdge[c] \in Moments
      BY DEF PcaInv, PcaTypeOK
    <3>2. [at |-> pcaEdge[c].at, skew |-> TRUE].skew
      BY <3>1 DEF Moments
    <3> QED
      BY <1>2, <3>2
  <2>2. PcaUse[c] = "capture"
    BY <2>1 DEF PcaInv, EdgeStands
  <2>3. ASSUME c \in pcaFlags'
        PROVE  pcaEdge'[c].at \in 0 .. pcaNow' /\ pcaCcap'[c] - pcaCtr' = pcaEdge'[c].at - pcaNow'
    <3>1. c \in pcaFlags /\ pcaCtr' # 0 /\ pcaEdge'[c] = pcaEdge[c]
      BY <1>7, <2>2, <2>3
    <3>2. pcaEdge[c].at \in 0 .. pcaNow /\ pcaCcap[c] - pcaCtr = pcaEdge[c].at - pcaNow
      BY <2>1, <3>1 DEF PcaInv, EdgeStands
    <3>3. pcaCtr' = pcaCtr + 1 /\ pcaNow' = pcaNow + 1 /\ pcaCcap' = pcaCcap
      BY <1>2, <1>5, <3>1
    <3>4. pcaCcap[c] \in Int
      BY DEF PcaInv, PcaTypeOK
    <3> QED
      BY <1>3, <3>1, <3>2, <3>3, <3>4
  <2> QED
    BY <2>2, <2>3
<1>9. ASSUME NEW c \in PcaChannel PROVE PrevStands(c)'
  <2> SUFFICES ASSUME pcaMode'[c] = "CAPTURE", ~pcaPrev'[c].skew
               PROVE  /\ pcaPrev'[c].at \in 0 .. pcaNow'
                      /\ ~pcaEdge'[c].skew /\ c \in pcaFlags' => pcaPrev'[c].at <= pcaEdge'[c].at
                      /\ pcaData'[c].hi \in 0 .. PcaByte - 1 /\ pcaData'[c].lo \in 0 .. PcaScale - 1
                      /\ CountsTo(c)'
    BY DEF PrevStands
  <2>1. ~(pcaCf /\ pcaCtr' = 0) /\ pcaPrev' = pcaPrev
    <3>1. NoEdge.skew
      BY DEF NoEdge
    <3> QED
      BY <1>2, <3>1
  <2>2. PcaUse[c] = "capture" /\ pcaMode[c] = "CAPTURE"
    BY <1>2 DEF PcaInv, ModeFits
  <2>3. /\ pcaPrev[c].at \in 0 .. pcaNow
        /\ ~pcaEdge[c].skew /\ c \in pcaFlags => pcaPrev[c].at <= pcaEdge[c].at
        /\ pcaData[c].hi \in 0 .. PcaByte - 1 /\ pcaData[c].lo \in 0 .. PcaScale - 1
        /\ CountsTo(c)
    BY <2>1, <2>2 DEF PcaInv, PrevStands
  <2>4. ~pcaEdge'[c].skew /\ c \in pcaFlags' => pcaPrev[c].at <= pcaEdge'[c].at
    BY <1>7, <2>2, <2>3
  <2>5. PICK over \in Int : over = pcaOver[c] * PcaScale
    BY ScalesFit DEF PcaInv, PcaTypeOK
  <2>6. Position(c)' = Position(c) + 1
    <3>1. CASE pcaCtr' = 0
      <4>1. ~pcaCf /\ pcaCf' /\ pcaCtr + 1 = PcaScale
        <5>1. pcaCtr + 1 = PcaScale
          BY <1>3, <1>4, <3>1, ScalesFit
        <5>2. ~pcaCf /\ pcaCf'
          BY <1>2, <2>1, <3>1, Zenon
        <5> QED
          BY <5>1, <5>2
      <4>2. Position(c) = over + 0 + pcaCtr /\ Position(c)' = over + PcaScale + 0
        BY <1>2, <2>5, <3>1, <4>1 DEF Position
      <4> QED
        BY <1>3, <4>1, <4>2, ScalesFit
    <3>2. CASE pcaCtr' # 0
      <4>1. pcaCf' = pcaCf /\ pcaCtr' = pcaCtr + 1
        BY <1>2, <1>3, <1>5, <3>2
      <4>2. PICK wrap \in Int : wrap = IF pcaCf THEN PcaScale ELSE 0
        BY ScalesFit
      <4>3. Position(c) = over + wrap + pcaCtr /\ Position(c)' = over + wrap + (pcaCtr + 1)
        BY <1>2, <2>5, <4>1, <4>2 DEF Position
      <4> QED
        BY <1>3, <4>3
    <3> QED
      BY <3>1, <3>2
  <2>7. CountsTo(c)'
    <3>1. PICK k \in Int : Count32(pcaData[c]) - Position(c) = pcaPrev[c].at - pcaNow + k * PcaWrap
      BY <2>3 DEF CountsTo
    <3>2. PICK count \in Int, place \in Int, wraps \in Int, at \in Int :
             count = Count32(pcaData[c]) /\ place = Position(c) /\ wraps = k * PcaWrap /\ at = pcaPrev[c].at
      <4>1. Count32(pcaData[c]) \in Int /\ k * PcaWrap \in Int
        BY <2>3, ScalesFit DEF Count32
      <4>2. Position(c) \in Int
        BY <1>3, <2>5, ScalesFit DEF Position
      <4> QED
        BY <2>3, <4>1, <4>2
    <3>3. count - (place + 1) = at - (pcaNow + 1) + wraps
      BY <1>3, <3>1, <3>2
    <3>4. Count32(pcaData[c])' - Position(c)' = pcaPrev'[c].at - pcaNow' + k * PcaWrap
      <4>1. Count32(pcaData[c])' = Count32(pcaData[c])
        BY <1>2 DEF Count32
      <4> QED
        BY <1>2, <2>1, <2>6, <3>2, <3>3, <4>1
    <3> QED
      BY <3>4 DEF CountsTo
  <2> QED
    BY <1>2, <1>3, <2>1, <2>3, <2>4, <2>7
<1>10. ASSUME NEW c \in PcaChannel PROVE ModeFits(c)'
  BY <1>2 DEF PcaInv, ModeFits
<1> QED
  BY <1>2, <1>6, <1>8, <1>9, <1>10 DEF PcaInv, PulseWidths

LEMMA EdgeComesKeeps == ASSUME PcaInv, PcaEdgeComes PROVE PcaInv'
<1>1. PICK c \in PcaChannel :
         /\ PcaUse[c] = "capture"
         /\ pcaFlags' = pcaFlags \cup {c}
         /\ pcaCcap' = [pcaCcap EXCEPT ![c] = pcaCtr]
         /\ pcaEdge' = [pcaEdge EXCEPT ![c] = [at |-> pcaNow, skew |-> FALSE]]
  BY DEF PcaEdgeComes, PcaInv, PcaTypeOK
<1>2. UNCHANGED <<pcaNow, pcaCtr, pcaCf, pcaOn, pcaOver, pcaData, pcaMode, pcaShot, pcaReport, pcaPrev, pcaTrue>>
  BY DEF PcaEdgeComes
<1>3. pcaCtr \in 0 .. PcaScale - 1 /\ pcaCtr \in Int /\ pcaNow \in Nat
  BY ScalesFit DEF PcaInv, PcaTypeOK
<1>4. [at |-> pcaNow, skew |-> FALSE] \in Moments
  BY <1>3 DEF Moments
<1>5. PcaTypeOK'
  BY <1>1, <1>2, <1>3, <1>4 DEF PcaInv, PcaTypeOK
<1>6. pcaCcap'[c] = pcaCtr /\ pcaEdge'[c] = [at |-> pcaNow, skew |-> FALSE] /\ c \in pcaFlags'
  BY <1>1 DEF PcaInv, PcaTypeOK
<1>7. ASSUME NEW d \in PcaChannel, d # c
      PROVE  pcaCcap'[d] = pcaCcap[d] /\ pcaEdge'[d] = pcaEdge[d] /\ (d \in pcaFlags' <=> d \in pcaFlags)
  BY <1>1, <1>7 DEF PcaInv, PcaTypeOK
<1>8. ASSUME NEW d \in PcaChannel PROVE ModeFits(d)' /\ EdgeStands(d)'
  <2>1. CASE d = c
    BY <1>1, <1>2, <1>3, <1>6, <2>1 DEF PcaInv, ModeFits, EdgeStands
  <2>2. CASE d # c
    BY <1>2, <1>7, <2>2 DEF PcaInv, ModeFits, EdgeStands
  <2> QED
    BY <2>1, <2>2
<1>9. ASSUME NEW d \in PcaChannel PROVE PrevStands(d)'
  <2>1. CountsTo(d)' <=> CountsTo(d)
    BY <1>2 DEF CountsTo, Position, Count32
  <2>2. CASE d = c
    <3>1. pcaEdge'[c].at = pcaNow
      BY <1>6
    <3> QED
      BY <1>2, <1>3, <2>1, <2>2, <3>1 DEF PcaInv, PrevStands
  <2>3. CASE d # c
    BY <1>2, <1>7, <2>1, <2>3 DEF PcaInv, PrevStands
  <2> QED
    BY <2>2, <2>3
<1> QED
  BY <1>2, <1>5, <1>8, <1>9 DEF PcaInv, PulseWidths

-----------------------------------------------------------------------------
\* The channels whose flags the interrupt finds, by what they do, and what it
\* leaves of the data of those that time
Captures == {c \in pcaFlags : pcaMode[c] = "CAPTURE"}
TimersDue == {c \in pcaFlags : pcaMode[c] = "TIMER"}
OneShots == {c \in Captures : pcaShot[c].one}
Stepped == [c \in PcaChannel |-> IF c \in TimersDue THEN [pcaData[c] EXCEPT !.lo = NextValue(c)] ELSE pcaData[c]]

LEMMA ChannelNumbers == \A c \in PcaChannel : c \in Int
<1>1. PcaChannel \subseteq 0 .. 3
  BY PcaAssumption
<1> QED
  BY <1>1

LEMMA HighestOf ==
    ASSUME NEW S, S \subseteq PcaChannel, S # {}
    PROVE  PcaHighest(S) \in S /\ \A d \in S : d <= PcaHighest(S)
<1>1. \E c \in S : \A d \in S : d <= c
  <2>1. PcaChannel \subseteq 0 .. 3
    BY PcaAssumption
  <2>2. \A d \in S : d = 0 \/ d = 1 \/ d = 2 \/ d = 3
    BY <2>1
  <2>3. 3 \in S \/ 2 \in S \/ 1 \in S \/ 0 \in S
    BY <2>2
  <2> QED
    BY <2>2, <2>3
<1> QED
  BY <1>1 DEF PcaHighest

\* A wrap that is counted moves from the flag to the byte, or off its end.
LEMMA WrapCounted ==
    ASSUME PcaInv, pcaOver' = Overflows, NEW c \in PcaChannel
    PROVE  /\ pcaOver'[c] \in 0 .. PcaByte - 1
           /\ \E j \in Int : Position(c) = pcaOver'[c] * PcaScale + pcaCtr + j * PcaWrap
<1>1. pcaOver[c] \in 0 .. PcaByte - 1 /\ pcaCtr \in Int /\ pcaOver[c] \in Int
  BY ScalesFit DEF PcaInv, PcaTypeOK
<1>2. CASE pcaCf
  <2>1. pcaOver'[c] = (pcaOver[c] + 1) % PcaByte
    BY <1>2 DEF Overflows
  <2>2. PICK r \in 0 .. PcaByte - 1, q \in Int : r = (pcaOver[c] + 1) % PcaByte /\ pcaOver[c] + 1 = r + q * PcaByte
    <3>1. pcaOver[c] + 1 \in Int
      BY <1>1
    <3> QED
      BY <3>1, ScalesFit, Division
  <2>3. PICK s \in Int, t \in Int : s = q * PcaByte /\ t = r * PcaScale
    BY ScalesFit
  <2>4. s * PcaScale = q * PcaWrap
    BY <2>3, ScalesFit
  <2>5. (pcaOver[c] + 1) * PcaScale = pcaOver[c] * PcaScale + PcaScale
    BY <1>1, ScalesFit
  <2>6. (r + s) * PcaScale = t + s * PcaScale
    BY <2>3, TimesOver, ScalesFit
  <2>7. pcaOver[c] * PcaScale + PcaScale = t + q * PcaWrap
    BY <2>2, <2>3, <2>4, <2>5, <2>6
  <2>8. Position(c) = pcaOver[c] * PcaScale + PcaScale + pcaCtr
    BY <1>2 DEF Position
  <2>9. PICK u \in Int : u = q * PcaWrap
    BY ScalesFit
  <2>10. Position(c) = t + pcaCtr + u
    BY <1>1, <2>7, <2>8, <2>9
  <2> QED
    BY <2>1, <2>2, <2>3, <2>9, <2>10
<1>3. CASE ~pcaCf
  <2>1. pcaOver'[c] = pcaOver[c]
    BY <1>3 DEF Overflows
  <2>2. PICK u \in Int : u = pcaOver[c] * PcaScale
    BY <1>1, ScalesFit
  <2>3. Position(c) = u + 0 + pcaCtr
    BY <1>3, <2>2 DEF Position
  <2>4. u + 0 + pcaCtr = u + pcaCtr + 0 * PcaWrap
    BY <1>1, ScalesFit
  <2> QED
    BY <1>1, <2>1, <2>2, <2>3, <2>4
<1> QED
  BY <1>2, <1>3 DEF PcaInv, PcaTypeOK

\* What the interrupt does whatever it finds
LEMMA PcaIsrIs ==
    ASSUME PcaInv, PcaIsr
    PROVE  /\ pcaCf' = FALSE /\ pcaFlags' = {} /\ pcaOver' = Overflows /\ pcaOn' = pcaOn \ OneShots
           /\ pcaMode' = [c \in PcaChannel |-> IF c \in OneShots THEN "UNUSED" ELSE pcaMode[c]]
           /\ pcaCcap' = [c \in PcaChannel |-> IF c \in TimersDue THEN Stepped[c].lo ELSE pcaCcap[c]]
           /\ UNCHANGED <<pcaNow, pcaCtr, pcaShot, pcaEdge>>
           /\ \/ pcaFlags = {} /\ UNCHANGED <<pcaData, pcaReport, pcaPrev, pcaTrue>>
              \/ Captures = {} /\ pcaData' = Stepped /\ pcaTrue' = -1 /\ UNCHANGED pcaPrev
              \/ /\ Captures # {}
                 /\ \E channel, new :
                       /\ channel = PcaHighest(pcaFlags)
                       /\ new = [lo |-> pcaCcap[PcaHighest(Captures)], hi |-> pcaOver'[channel]]
                       /\ pcaReport' = [channel |-> channel,
                                        width |-> Duration(new, Stepped[channel], pcaShot[channel].shift)]
                       /\ pcaData' = [Stepped EXCEPT ![channel] = new]
                       /\ pcaPrev' = [pcaPrev EXCEPT ![channel] = pcaEdge[channel]]
                       /\ pcaTrue' = IF pcaPrev[channel].skew \/ pcaEdge[channel].skew \/ pcaMode[channel] # "CAPTURE"
                                     THEN -1
                                     ELSE PulseWidth(pcaEdge[channel].at - pcaPrev[channel].at, pcaShot[channel].shift,
                                                     Count32(new) < Count32(Stepped[channel]))
<1>1. /\ pcaCf' = FALSE /\ pcaFlags' = {} /\ pcaOver' = Overflows /\ pcaOn' = pcaOn \ OneShots
      /\ pcaMode' = [c \in PcaChannel |-> IF c \in OneShots THEN "UNUSED" ELSE pcaMode[c]]
      /\ pcaCcap' = [c \in PcaChannel |-> IF c \in TimersDue THEN Stepped[c].lo ELSE pcaCcap[c]]
      /\ UNCHANGED <<pcaNow, pcaCtr, pcaShot, pcaEdge>>
  BY DEF PcaIsr, Captures, TimersDue, OneShots, Stepped
<1>2. CASE pcaFlags = {}
  BY <1>1, <1>2 DEF PcaIsr
<1>3. CASE pcaFlags # {} /\ Captures = {}
  BY <1>1, <1>3 DEF PcaIsr, Captures, TimersDue, Stepped
<1>4. CASE pcaFlags # {} /\ Captures # {}
  BY <1>1, <1>4 DEF PcaIsr, Captures, TimersDue, Stepped
<1> QED
  BY <1>2, <1>3, <1>4

\* A channel the interrupt reports nothing of keeps what it stands for.
LEMMA PcaIsrLeaves ==
    ASSUME PcaInv, PcaIsr, NEW c \in PcaChannel, c \in TimersDue \/ pcaData'[c] = pcaData[c], pcaPrev'[c] = pcaPrev[c]
    PROVE  ModeFits(c)' /\ EdgeStands(c)' /\ PrevStands(c)'
<1>1. /\ pcaFlags' = {} /\ pcaOver' = Overflows /\ pcaCf' = FALSE
      /\ pcaMode' = [d \in PcaChannel |-> IF d \in OneShots THEN "UNUSED" ELSE pcaMode[d]]
      /\ pcaCcap' = [d \in PcaChannel |-> IF d \in TimersDue THEN Stepped[d].lo ELSE pcaCcap[d]]
      /\ UNCHANGED <<pcaNow, pcaCtr, pcaShot, pcaEdge>>
  BY PcaIsrIs
<1>2. ModeFits(c)'
  <2>1. pcaMode'[c] = "UNUSED" \/ pcaMode'[c] = pcaMode[c]
    BY <1>1
  <2>2. c \in TimersDue => PcaUse[c] = "timer"
    BY DEF PcaInv, ModeFits, TimersDue
  <2>3. PcaUse[c] = "capture" => pcaCcap'[c] = pcaCcap[c]
    BY <1>1, <2>2
  <2> QED
    BY <2>1, <2>3 DEF PcaInv, ModeFits
<1>3. EdgeStands(c)'
  BY <1>1 DEF PcaInv, EdgeStands
<1>4. PrevStands(c)'
  <2> SUFFICES ASSUME pcaMode'[c] = "CAPTURE", ~pcaPrev'[c].skew PROVE PrevStands(c)'
    BY DEF PrevStands
  <2>1. pcaMode[c] = "CAPTURE" /\ ~pcaPrev[c].skew
    BY <1>1
  <2>2. pcaData'[c] = pcaData[c]
    BY <2>1 DEF TimersDue
  <2>3. /\ pcaPrev[c].at \in 0 .. pcaNow
        /\ pcaData[c].hi \in 0 .. PcaByte - 1 /\ pcaData[c].lo \in 0 .. PcaScale - 1
        /\ CountsTo(c)
    BY <2>1 DEF PcaInv, PrevStands
  <2>4. PICK k \in Int : Count32(pcaData[c]) - Position(c) = pcaPrev[c].at - pcaNow + k * PcaWrap
    BY <2>3 DEF CountsTo
  <2>5. PICK j \in Int : Position(c) = pcaOver'[c] * PcaScale + pcaCtr + j * PcaWrap
    BY <1>1, WrapCounted
  <2>6. Position(c)' = pcaOver'[c] * PcaScale + 0 + pcaCtr
    BY <1>1 DEF Position
  <2>7. PICK over \in Int, kw \in Int, jw \in Int, count \in Int :
           /\ over = pcaOver'[c] * PcaScale /\ kw = k * PcaWrap /\ jw = j * PcaWrap
           /\ count = Count32(pcaData[c])
    <3>1. pcaOver'[c] * PcaScale \in Int
      BY <1>1, WrapCounted, ScalesFit
    <3>2. k * PcaWrap \in Int /\ j * PcaWrap \in Int
      BY ScalesFit
    <3>3. Count32(pcaData[c]) \in Int
      BY <2>3, ScalesFit DEF Count32
    <3> QED
      BY <3>1, <3>2, <3>3
  <2>8. (k + j) * PcaWrap = kw + jw
    BY <2>7, TimesOver, ScalesFit
  <2>9. pcaCtr \in Int /\ pcaNow \in Int /\ pcaPrev[c].at \in Int
    BY <2>3, ScalesFit DEF PcaInv, PcaTypeOK
  <2>10. count - (over + 0 + pcaCtr) = pcaPrev[c].at - pcaNow + (kw + jw)
    BY <2>4, <2>5, <2>7, <2>9
  <2>11. Count32(pcaData[c])' = count
    BY <2>2, <2>7 DEF Count32
  <2>12. CountsTo(c)'
    <3>1. k + j \in Int
      OBVIOUS
    <3>2. Count32(pcaData[c])' - Position(c)' = pcaPrev'[c].at - pcaNow' + (k + j) * PcaWrap
      BY <1>1, <2>6, <2>7, <2>8, <2>10, <2>11, Zenon
    <3> QED
      BY <3>1, <3>2 DEF CountsTo
  <2> QED
    BY <1>1, <2>2, <2>3, <2>12 DEF PrevStands
<1> QED
  BY <1>2, <1>3, <1>4

LEMMA PowerOfTwo == ASSUME NEW s \in 0 .. 31 PROVE 2^s \in Nat \ {0} /\ (s = 0 => 2^s = 1)
<1>0. s = 0 => 2^s = 1
  <2>1. 2^0 = 1
    OBVIOUS
  <2> QED
    BY <2>1, Zenon
<1>1. CASE s \in 0 .. 7
  <2>1. /\ 2^0 \in Nat \ {0} /\ 2^1 \in Nat \ {0} /\ 2^2 \in Nat \ {0} /\ 2^3 \in Nat \ {0}
        /\ 2^4 \in Nat \ {0} /\ 2^5 \in Nat \ {0} /\ 2^6 \in Nat \ {0} /\ 2^7 \in Nat \ {0}
    OBVIOUS
  <2>2. s = 0 \/ s = 1 \/ s = 2 \/ s = 3 \/ s = 4 \/ s = 5 \/ s = 6 \/ s = 7
    BY <1>1
  <2> QED
    BY <1>0, <2>1, <2>2, Zenon
<1>2. CASE s \in 8 .. 15
  <2>1. /\ 2^8 \in Nat \ {0} /\ 2^9 \in Nat \ {0} /\ 2^10 \in Nat \ {0} /\ 2^11 \in Nat \ {0}
        /\ 2^12 \in Nat \ {0} /\ 2^13 \in Nat \ {0} /\ 2^14 \in Nat \ {0} /\ 2^15 \in Nat \ {0}
    OBVIOUS
  <2>2. s = 8 \/ s = 9 \/ s = 10 \/ s = 11 \/ s = 12 \/ s = 13 \/ s = 14 \/ s = 15
    BY <1>2
  <2> QED
    BY <1>0, <2>1, <2>2, Zenon
<1>3. CASE s \in 16 .. 23
  <2>1. /\ 2^16 \in Nat \ {0} /\ 2^17 \in Nat \ {0} /\ 2^18 \in Nat \ {0} /\ 2^19 \in Nat \ {0}
        /\ 2^20 \in Nat \ {0} /\ 2^21 \in Nat \ {0} /\ 2^22 \in Nat \ {0} /\ 2^23 \in Nat \ {0}
    OBVIOUS
  <2>2. s = 16 \/ s = 17 \/ s = 18 \/ s = 19 \/ s = 20 \/ s = 21 \/ s = 22 \/ s = 23
    BY <1>3
  <2> QED
    BY <1>0, <2>1, <2>2, Zenon
<1>4. CASE s \in 24 .. 31
  <2>1. /\ 2^24 \in Nat \ {0} /\ 2^25 \in Nat \ {0} /\ 2^26 \in Nat \ {0} /\ 2^27 \in Nat \ {0}
        /\ 2^28 \in Nat \ {0} /\ 2^29 \in Nat \ {0} /\ 2^30 \in Nat \ {0} /\ 2^31 \in Nat \ {0}
    OBVIOUS
  <2>2. s = 24 \/ s = 25 \/ s = 26 \/ s = 27 \/ s = 28 \/ s = 29 \/ s = 30 \/ s = 31
    BY <1>4
  <2> QED
    BY <1>0, <2>1, <2>2, Zenon
<1> QED
  BY <1>1, <1>2, <1>3, <1>4

\* What the interrupt reports of a capture, and what it keeps of it
LEMMA PcaIsrReports ==
    ASSUME PcaInv, PcaIsr, Captures # {}, NEW c, c = PcaHighest(pcaFlags), NEW new,
           new = [lo |-> pcaCcap[PcaHighest(Captures)], hi |-> pcaOver'[c]],
           pcaReport' = [channel |-> c, width |-> Duration(new, Stepped[c], pcaShot[c].shift)],
           pcaData' = [Stepped EXCEPT ![c] = new],
           pcaPrev' = [pcaPrev EXCEPT ![c] = pcaEdge[c]],
           pcaTrue' = IF pcaPrev[c].skew \/ pcaEdge[c].skew \/ pcaMode[c] # "CAPTURE" THEN -1
                      ELSE PulseWidth(pcaEdge[c].at - pcaPrev[c].at, pcaShot[c].shift, Count32(new) < Count32(Stepped[c]))
    PROVE  /\ ModeFits(c)' /\ EdgeStands(c)' /\ PrevStands(c)'
           /\ PulseWidths'
<1>1. /\ pcaFlags' = {} /\ pcaOver' = Overflows /\ pcaCf' = FALSE
      /\ pcaMode' = [d \in PcaChannel |-> IF d \in OneShots THEN "UNUSED" ELSE pcaMode[d]]
      /\ pcaCcap' = [d \in PcaChannel |-> IF d \in TimersDue THEN Stepped[d].lo ELSE pcaCcap[d]]
      /\ UNCHANGED <<pcaNow, pcaCtr, pcaShot, pcaEdge>>
  BY PcaIsrIs
<1>2. c \in pcaFlags /\ c \in PcaChannel /\ \A d \in pcaFlags : d <= c
  <2>1. pcaFlags \subseteq PcaChannel /\ pcaFlags # {}
    BY DEF PcaInv, PcaTypeOK, Captures
  <2> QED
    BY <2>1, HighestOf
<1>3. ModeFits(c)'
  <2>1. pcaMode'[c] = "UNUSED" \/ pcaMode'[c] = pcaMode[c]
    BY <1>1, <1>2
  <2>2. c \in TimersDue => PcaUse[c] = "timer"
    BY <1>2 DEF PcaInv, ModeFits, TimersDue
  <2>3. PcaUse[c] = "capture" => pcaCcap'[c] = pcaCcap[c]
    BY <1>1, <1>2, <2>2
  <2> QED
    BY <1>2, <2>1, <2>3 DEF PcaInv, ModeFits
<1>4. EdgeStands(c)'
  BY <1>1, <1>2 DEF PcaInv, EdgeStands
<1>5. pcaPrev'[c] = pcaEdge[c] /\ pcaData'[c] = new
  BY <1>2 DEF PcaInv, PcaTypeOK, Stepped
<1>6. ASSUME pcaMode[c] = "CAPTURE"
      PROVE  new.lo = pcaCcap[c] /\ new.hi = pcaOver'[c] /\ Stepped[c] = pcaData[c]
  <2>1. c \in Captures /\ Captures \subseteq pcaFlags /\ Captures \subseteq PcaChannel
    BY <1>2, <1>6 DEF Captures, PcaInv, PcaTypeOK
  <2>2. PcaHighest(Captures) \in Captures /\ c <= PcaHighest(Captures)
    BY <2>1, HighestOf
  <2>3. PcaHighest(Captures) <= c
    BY <1>2, <2>1, <2>2
  <2>4. PcaHighest(Captures) \in Int /\ c \in Int
    BY <1>2, <2>1, <2>2, ChannelNumbers, Zenon
  <2>5. PcaHighest(Captures) = c
    BY <2>2, <2>3, <2>4
  <2>6. c \notin TimersDue
    BY <1>6 DEF TimersDue
  <2> QED
    BY <1>2, <2>5, <2>6 DEF Stepped
<1>7. ASSUME pcaMode[c] = "CAPTURE", ~pcaEdge[c].skew
      PROVE  /\ pcaEdge[c].at \in 0 .. pcaNow /\ pcaCcap[c] - pcaCtr = pcaEdge[c].at - pcaNow
             /\ new.lo \in 0 .. PcaScale - 1 /\ new.hi \in 0 .. PcaByte - 1
             /\ Count32(new) = pcaOver'[c] * PcaScale + pcaCcap[c]
  <2>1. pcaEdge[c].at \in 0 .. pcaNow /\ pcaCcap[c] - pcaCtr = pcaEdge[c].at - pcaNow
    BY <1>2, <1>7 DEF PcaInv, EdgeStands
  <2>2. pcaCcap[c] \in 0 .. PcaScale - 1
    BY <1>2, <1>7 DEF PcaInv, ModeFits
  <2>3. pcaOver'[c] \in 0 .. PcaByte - 1
    BY <1>1, <1>2, WrapCounted
  <2> QED
    BY <1>6, <1>7, <2>1, <2>2, <2>3 DEF Count32
<1>8. PrevStands(c)'
  <2> SUFFICES ASSUME pcaMode'[c] = "CAPTURE", ~pcaPrev'[c].skew PROVE PrevStands(c)'
    BY DEF PrevStands
  <2>1. pcaMode[c] = "CAPTURE" /\ ~pcaEdge[c].skew
    BY <1>1, <1>2, <1>5
  <2>2. Position(c)' = pcaOver'[c] * PcaScale + 0 + pcaCtr
    BY <1>1 DEF Position
  <2>3. PICK over \in Int : over = pcaOver'[c] * PcaScale
    <3>1. pcaOver'[c] \in Int
      BY <1>1, <1>2, WrapCounted
    <3> QED
      BY <3>1, ScalesFit
  <2>4. pcaCcap[c] \in Int /\ pcaCtr \in Int /\ pcaNow \in Int /\ pcaEdge[c].at \in Int
    BY <1>2, <2>1, <1>7, ScalesFit DEF PcaInv, PcaTypeOK
  <2>5. (over + pcaCcap[c]) - (over + 0 + pcaCtr) = pcaEdge[c].at - pcaNow + 0 * PcaWrap
    BY <1>7, <2>1, <2>4, ScalesFit
  <2>6. CountsTo(c)'
    <3>1. Count32(pcaData[c])' = Count32(new)
      BY <1>5 DEF Count32
    <3>2. Count32(pcaData[c])' - Position(c)' = pcaPrev'[c].at - pcaNow' + 0 * PcaWrap
      BY <1>1, <1>5, <1>7, <2>1, <2>2, <2>3, <2>5, <3>1, Zenon
    <3> QED
      BY <3>2 DEF CountsTo
  <2> QED
    BY <1>1, <1>5, <1>7, <2>1, <2>6 DEF PrevStands
<1>9. PulseWidths'
  <2> SUFFICES ASSUME pcaTrue' # -1 PROVE pcaReport'.width = pcaTrue'
    BY DEF PulseWidths
  <2>1. ~pcaPrev[c].skew /\ ~pcaEdge[c].skew /\ pcaMode[c] = "CAPTURE"
    OBVIOUS
  <2>2. PICK ticks : ticks = pcaEdge[c].at - pcaPrev[c].at
    OBVIOUS
  <2>3. PICK shift \in 0 .. 31 : shift = pcaShot[c].shift
    BY <1>2 DEF PcaInv, PcaTypeOK
  <2>4. PICK x : x = Count32(new)
    OBVIOUS
  <2>5. PICK y : y = Count32(pcaData[c])
    OBVIOUS
  <2>6. pcaTrue' = PulseWidth(ticks, shift, x < y) /\ pcaReport'.width = Duration(new, pcaData[c], shift)
    BY <1>6, <2>1, <2>2, <2>3, <2>4, <2>5
  <2>7. ~(ticks >= PcaWrap) /\ ~(shift > 0 /\ x < y)
        /\ pcaTrue' = IF ticks \div 2^shift >= PcaScale THEN PcaScale - 1 ELSE ticks \div 2^shift
    BY <2>6 DEF PulseWidth, PcaWrap
  <2>8. /\ pcaPrev[c].at \in 0 .. pcaNow /\ pcaPrev[c].at <= pcaEdge[c].at
        /\ pcaData[c].hi \in 0 .. PcaByte - 1 /\ pcaData[c].lo \in 0 .. PcaScale - 1
        /\ CountsTo(c)
    BY <1>2, <2>1 DEF PcaInv, PrevStands
  <2>9. /\ pcaNow \in Nat /\ pcaCtr \in Int /\ pcaEdge[c].at \in Int /\ pcaPrev[c].at \in Int /\ pcaCcap[c] \in Int
        /\ pcaOver'[c] \in Int
    BY <1>1, <1>2, <1>7, <2>1, <2>8, WrapCounted, ScalesFit DEF PcaInv, PcaTypeOK
  <2>10. ticks \in 0 .. PcaWrap - 1
    BY <2>2, <2>7, <2>8, <2>9, ScalesFit
  <2>11. x \in 0 .. PcaWrap - 1 /\ y \in 0 .. PcaWrap - 1
    <3>1. ASSUME NEW hi \in 0 .. PcaByte - 1, NEW lo \in 0 .. PcaScale - 1 PROVE hi * PcaScale + lo \in 0 .. PcaWrap - 1
      <4>1. hi + 1 <= PcaByte /\ hi + 1 \in Int /\ hi \in Nat
        BY ScalesFit
      <4>2. (hi + 1) * PcaScale <= PcaByte * PcaScale
        BY <4>1, TimesOrder, ScalesFit
      <4>3. (hi + 1) * PcaScale = hi * PcaScale + PcaScale
        BY <4>1, ScalesFit
      <4>4. PICK high \in Nat : high = hi * PcaScale
        BY <4>1, ScalesFit
      <4>5. high + PcaScale <= PcaWrap
        BY <4>2, <4>3, <4>4, ScalesFit
      <4>6. high + lo \in 0 .. PcaWrap - 1
        BY <4>5, ScalesFit
      <4> QED
        BY <4>4, <4>6
    <3> QED
      BY <1>7, <2>1, <2>4, <2>5, <2>8, <3>1 DEF Count32
  <2>12. \E n \in Int : x - y = ticks + n * PcaWrap
    <3>1. PICK k \in Int : y - Position(c) = pcaPrev[c].at - pcaNow + k * PcaWrap
      BY <2>5, <2>8 DEF CountsTo
    <3>2. PICK j \in Int : Position(c) = pcaOver'[c] * PcaScale + pcaCtr + j * PcaWrap
      BY <1>1, <1>2, WrapCounted
    <3>3. PICK over \in Int, kw \in Int, jw \in Int :
             over = pcaOver'[c] * PcaScale /\ kw = k * PcaWrap /\ jw = j * PcaWrap
      BY <2>9, ScalesFit
    <3>4. x = over + pcaCcap[c]
      BY <1>7, <2>1, <2>4, <3>3
    <3>5. pcaCcap[c] - pcaCtr = pcaEdge[c].at - pcaNow
      BY <1>7, <2>1
    <3>6. x - y = ticks + (0 - kw - jw)
      BY <2>2, <2>9, <2>11, <3>1, <3>2, <3>3, <3>4, <3>5
    <3>7. PICK n \in Int : n = 0 - (k + j)
      OBVIOUS
    <3>8. n * PcaWrap = 0 - kw - jw
      <4>1. 0 * PcaWrap = 0 /\ (0 - (k + j)) * PcaWrap = 0 * PcaWrap - (k + j) * PcaWrap
        BY TimesOver, ScalesFit
      <4>2. (k + j) * PcaWrap = kw + jw
        BY <3>3, TimesOver, ScalesFit
      <4> QED
        BY <3>7, <4>1, <4>2
    <3> QED
      BY <3>6, <3>8
  <2>13. PICK p \in Nat \ {0} : p = 2^shift /\ (x < y => p = 1)
    <3>1. x < y => shift = 0
      BY <2>7
    <3>2. 2^shift \in Nat \ {0} /\ (shift = 0 => 2^shift = 1)
      BY PowerOfTwo
    <3> QED
      BY <3>1, <3>2, Zenon
  <2>14. PICK n \in Int : x - y = ticks + n * PcaWrap
    BY <2>12
  <2>15. LET width == ((x - y) % (PcaScale * PcaScale)) \div p
         IN  (IF (width \div PcaScale) % PcaByte # 0 THEN PcaScale - 1 ELSE width % PcaScale)
                = IF ticks \div p >= PcaScale THEN PcaScale - 1 ELSE ticks \div p
    BY <2>10, <2>11, <2>13, <2>14, DurationIs
  <2> QED
    BY <2>4, <2>5, <2>6, <2>7, <2>13, <2>15, Zenon DEF Duration
<1> QED
  BY <1>3, <1>4, <1>8, <1>9

LEMMA PcaIsrKeeps == ASSUME PcaInv, PcaIsr PROVE PcaInv'
<1>1. /\ pcaFlags' = {} /\ pcaOver' = Overflows /\ pcaCf' = FALSE /\ pcaOn' \subseteq pcaOn
      /\ pcaMode' = [d \in PcaChannel |-> IF d \in OneShots THEN "UNUSED" ELSE pcaMode[d]]
      /\ pcaCcap' = [d \in PcaChannel |-> IF d \in TimersDue THEN Stepped[d].lo ELSE pcaCcap[d]]
      /\ UNCHANGED <<pcaNow, pcaCtr, pcaShot, pcaEdge>>
  BY PcaIsrIs
<1>2. Stepped \in [PcaChannel -> [lo : Int, hi : Int]]
  <2>1. \A d \in PcaChannel : NextValue(d) \in Int
    BY ScalesFit DEF PcaInv, PcaTypeOK, NextValue
  <2>2. \A d \in PcaChannel : [pcaData[d] EXCEPT !.lo = NextValue(d)] \in [lo : Int, hi : Int]
    BY <2>1 DEF PcaInv, PcaTypeOK
  <2> QED
    BY <2>2 DEF Stepped, PcaInv, PcaTypeOK
<1>3. ASSUME pcaData' \in [PcaChannel -> [lo : Int, hi : Int]], pcaPrev' \in [PcaChannel -> Moments] PROVE PcaTypeOK'
  <2>1. pcaOver' \in [PcaChannel -> 0 .. PcaByte - 1]
    <3>1. \A d \in PcaChannel : pcaOver'[d] \in 0 .. PcaByte - 1
      BY <1>1, WrapCounted
    <3> QED
      BY <1>1, <3>1 DEF Overflows
  <2>2. pcaMode' \in [PcaChannel -> {"UNUSED", "CAPTURE", "TIMER", "PWM"}]
    BY <1>1 DEF PcaInv, PcaTypeOK
  <2>3. pcaCcap' \in [PcaChannel -> Int]
    BY <1>1, <1>2 DEF PcaInv, PcaTypeOK
  <2> QED
    BY <1>1, <1>3, <2>1, <2>2, <2>3 DEF PcaInv, PcaTypeOK
<1>4. CASE pcaFlags = {} /\ UNCHANGED <<pcaData, pcaReport, pcaPrev, pcaTrue>>
  BY <1>3, <1>4, PcaIsrLeaves DEF PcaInv, PcaTypeOK, PulseWidths
<1>5. CASE Captures = {} /\ pcaData' = Stepped /\ pcaTrue' = -1 /\ UNCHANGED pcaPrev
  <2>1. ASSUME NEW d \in PcaChannel PROVE d \in TimersDue \/ pcaData'[d] = pcaData[d]
    BY <1>5 DEF Stepped
  <2>2. PcaTypeOK'
    BY <1>2, <1>3, <1>5 DEF PcaInv, PcaTypeOK
  <2>3. \A d \in PcaChannel : ModeFits(d)' /\ EdgeStands(d)' /\ PrevStands(d)'
    BY <1>5, <2>1, PcaIsrLeaves
  <2> QED
    BY <1>5, <2>2, <2>3 DEF PcaInv, PulseWidths
<1>6. ASSUME Captures # {}, NEW c, c = PcaHighest(pcaFlags), NEW new,
             new = [lo |-> pcaCcap[PcaHighest(Captures)], hi |-> pcaOver'[c]],
             pcaReport' = [channel |-> c, width |-> Duration(new, Stepped[c], pcaShot[c].shift)],
             pcaData' = [Stepped EXCEPT ![c] = new],
             pcaPrev' = [pcaPrev EXCEPT ![c] = pcaEdge[c]],
             pcaTrue' = IF pcaPrev[c].skew \/ pcaEdge[c].skew \/ pcaMode[c] # "CAPTURE" THEN -1
                        ELSE PulseWidth(pcaEdge[c].at - pcaPrev[c].at, pcaShot[c].shift, Count32(new) < Count32(Stepped[c]))
      PROVE  PcaInv'
  <2>1. Captures \subseteq PcaChannel /\ pcaFlags \subseteq PcaChannel /\ pcaFlags # {}
    BY <1>6 DEF PcaInv, PcaTypeOK, Captures
  <2>2. c \in PcaChannel /\ PcaHighest(Captures) \in PcaChannel
    BY <1>6, <2>1, HighestOf
  <2>3. new \in [lo : Int, hi : Int]
    <3>1. pcaCcap[PcaHighest(Captures)] \in Int /\ pcaOver'[c] \in Int
      BY <1>1, <2>2, WrapCounted DEF PcaInv, PcaTypeOK
    <3> QED
      BY <1>6, <3>1
  <2>4. PcaTypeOK'
    BY <1>2, <1>3, <1>6, <2>2, <2>3 DEF PcaInv, PcaTypeOK
  <2>5. ASSUME NEW d \in PcaChannel, d # c
        PROVE  (d \in TimersDue \/ pcaData'[d] = pcaData[d]) /\ pcaPrev'[d] = pcaPrev[d]
    BY <1>6, <2>2, <2>5 DEF Stepped, PcaInv, PcaTypeOK
  <2>6. \A d \in PcaChannel : d # c => ModeFits(d)' /\ EdgeStands(d)' /\ PrevStands(d)'
    BY <2>5, PcaIsrLeaves
  <2>7. ModeFits(c)' /\ EdgeStands(c)' /\ PrevStands(c)' /\ PulseWidths'
    BY <1>6, PcaIsrReports
  <2> QED
    BY <2>4, <2>6, <2>7 DEF PcaInv
<1> QED
  BY <1>4, <1>5, <1>6, PcaIsrIs

LEMMA PcaInvAlways == PcaSpec => []PcaInv
<1>1. PcaInv /\ [PcaNext]_pcaVars => PcaInv'
  <2>1. ASSUME PcaInv, UNCHANGED pcaVars PROVE PcaInv'
    <3>1. UNCHANGED <<pcaNow, pcaCtr, pcaCf, pcaFlags, pcaOn, pcaCcap, pcaOver, pcaData, pcaMode, pcaShot,
                      pcaReport, pcaEdge, pcaPrev, pcaTrue>>
      BY <2>1 DEF pcaVars
    <3>2. \A c \in PcaChannel : ModeFits(c)' /\ EdgeStands(c)' /\ PrevStands(c)'
      BY <2>1, <3>1, CaptureLeft DEF PcaInv
    <3> QED
      BY <2>1, <3>1, <3>2 DEF PcaInv, PcaTypeOK, PulseWidths
  <2> QED
    BY <2>1, StartPcaCounterKeeps, StartCaptureKeeps, StartTimerKeeps, StopKeeps, DutyCycleKeeps, TickKeeps,
       EdgeComesKeeps, PcaIsrKeeps DEF PcaNext
<1> QED
  BY PcaInvInit, <1>1, PTL DEF PcaSpec

\* What a capture reports is the time that went by since the edge it is measured
\* from, however late the interrupt and whatever the other channels did: for
\* counters of any width and behaviours of any length (advpwm-hal.c, pca-hal.c).
THEOREM CapturesKept == CapSpec /\ PcaSpec => []CapturesAsElapsed
<1>1. CapInv /\ PcaInv => CapturesAsElapsed
  BY DEF CapInv, PcaInv, CapturesAsElapsed
<1> QED
  BY <1>1, CapInvAlways, PcaInvAlways, PTL
=============================================================================
