------------------------------ MODULE FifoProofs ------------------------------
(***************************************************************************)
(* The ring and the UART that is built on two of them, for every depth,    *)
(* every word width and every number of items, between clients that stay   *)
(* below the depth: BelowCapacity of the ring, Uncrowded of the UART.  It  *)
(* is necessary: a ring that fills just as its write index wraps counts    *)
(* zero items, and is then overwritten as if it were empty.                *)
(***************************************************************************)
EXTENDS RingBuffer, Uart, RingOpsProofs

BelowCapacity == MaxLive < Depth

\* RINGBUF_ARG_CHECK admits depths whose peek arithmetic overflows the word;
\* only an overwritable ring can get into the states where it does.
PeekFits == Overwritable => 3 * Depth <= Word + 2

\* Past the first place of the doubled range the write index never trails the
\* read index: a ring that does not overwrite takes no push there.
WrapHolds == ~Overwritable /\ rb.wr < rb.rd => rb.wr = 0

\* The inductive invariant.  The occupancy bound is what makes the count say
\* "empty" only of an empty ring.
Inv ==
    /\ TypeOK
    /\ Occupancy(rb) <= MaxLive
    /\ WrapHolds

-----------------------------------------------------------------------------
LEMMA LiveBound ==
    ASSUME BelowCapacity, rb \in Ring, Occupancy(rb) <= MaxLive
    PROVE  /\ Occupancy(rb) \in Nat
           /\ Occupancy(rb) < Depth
           /\ MaxLive \in Nat /\ Depth \in Nat
  BY OccupancyType, MaxLiveAssumption, DepthAssumption DEF BelowCapacity

\* The ring after a push, whoever makes it and however it ends.
LEMMA PushKeepsRing ==
    ASSUME BelowCapacity, Inv, NEW t \in Thread, NEW x \in Item, PushCore(t, x)
    PROVE  /\ rb' \in Ring /\ (Occupancy(rb) <= MaxLive)' /\ WrapHolds'
           /\ ret' \in Answers
<1>1. rb \in Ring /\ Occupancy(rb) < Depth /\ Occupancy(rb) < MaxLive
      /\ Occupancy(rb) \in Nat /\ MaxLive \in Nat /\ Depth \in Nat
  BY LiveBound DEF Inv, TypeOK, PushCore
<1>2. rb' = AfterPush(rb, x, Overwritable)
  BY DEF PushCore
<1>3. ret' \in Answers
  BY DEF PushCore, PushErr, Answers
<1>4. CASE SeemsFull(rb) /\ ~Overwritable
  <2>1. rb' = rb
    BY <1>2, <1>4 DEF AfterPush
  <2> QED
    BY <1>1, <1>3, <2>1 DEF Inv, WrapHolds
<1>5. CASE SeemsFull(rb) /\ Overwritable
  <2>1. Occupancy(rb) > 0
    BY <1>1, <1>5, SeemsFullIff
  <2>2. Evicted(rb) \in Ring /\ Occupancy(Evicted(rb)) = Occupancy(rb) - 1
    BY <1>1, <2>1, AdvanceDrops
  <2>3. Stored(Evicted(rb), x) \in Ring
        /\ Occupancy(Stored(Evicted(rb), x)) = Occupancy(rb)
    BY <1>1, <2>1, <2>2, StoredAppends
  <2>4. rb' = Stored(Evicted(rb), x)
    BY <1>2, <1>5 DEF AfterPush
  <2> QED
    BY <1>1, <1>3, <1>5, <2>3, <2>4 DEF WrapHolds
<1>6. CASE ~SeemsFull(rb)
  <2>1. rb' = Stored(rb, x)
    BY <1>2, <1>6 DEF AfterPush
  <2>2. rb' \in Ring /\ Occupancy(rb') = Occupancy(rb) + 1
    BY <1>1, <2>1, StoredAppends
  <2>3. rb.wr >= rb.rd
    BY <1>1, <1>6, SeemsFullIff, RingIndices
  <2>4. rb'.rd = rb.rd /\ rb'.wr = UpdateIdx(rb.wr)
    BY <1>1, <2>1 DEF Stored, Ring
  <2>5. WrapHolds'
    BY <1>1, <2>3, <2>4, RingIndices DEF WrapHolds, UpdateIdx
  <2> QED
    BY <1>1, <1>3, <2>2, <2>5
<1> QED
  BY <1>4, <1>5, <1>6

LEMMA PopKeepsRing ==
    ASSUME BelowCapacity, Inv, NEW t \in Thread, PopCore(t)
    PROVE  /\ rb' \in Ring /\ (Occupancy(rb) <= MaxLive)' /\ WrapHolds'
           /\ ret' \in Answers
<1>1. rb \in Ring /\ Occupancy(rb) < Depth /\ Occupancy(rb) <= MaxLive
      /\ Occupancy(rb) \in Nat /\ MaxLive \in Nat /\ Depth \in Nat
  BY LiveBound DEF Inv, TypeOK
<1>2. ret' \in Answers
  <2>1. Oldest(rb) \in Item
    BY <1>1, SlotOfType DEF Oldest, Ring
  <2> QED
    BY <2>1 DEF PopCore, Answers
<1>3. CASE SeemsEmpty(rb)
  BY <1>1, <1>2, <1>3 DEF PopCore, AfterPop, Inv, WrapHolds
<1>4. CASE ~SeemsEmpty(rb)
  <2>1. Occupancy(rb) > 0
    BY <1>1, <1>4, SeemsFullIff
  <2>2. rb' = Evicted(rb)
    BY <1>4 DEF PopCore, AfterPop, Evicted
  <2>3. rb' \in Ring /\ Occupancy(rb') = Occupancy(rb) - 1
    BY <1>1, <2>1, <2>2, AdvanceDrops
  <2>4. rb'.wr = rb.wr /\ rb'.rd = UpdateIdx(rb.rd)
    BY <1>1, <2>2 DEF Evicted, Ring
  <2>5. WrapHolds'
    <3>1. CASE rb.wr >= rb.rd
      <4>1. rb.rd < rb.wr
        BY <1>1, <2>1, <3>1, RingIndices DEF Occupancy
      <4> QED
        BY <1>1, <2>4, <4>1, RingIndices DEF WrapHolds, UpdateIdx
    <3>2. CASE rb.wr < rb.rd
      BY <2>4, <3>2 DEF Inv, WrapHolds
    <3> QED
      BY <1>1, <3>1, <3>2, RingIndices
  <2> QED
    BY <1>1, <1>2, <2>3, <2>5
<1> QED
  BY <1>3, <1>4

LEMMA PeekKeepsRing ==
    ASSUME BelowCapacity, PeekFits, Inv,
           NEW t \in Thread, NEW i \in ItemIdx, PeekCore(t, i)
    PROVE  rb' = rb /\ ret' \in Answers
<1>1. rb \in Ring /\ Occupancy(rb) < Depth
  BY LiveBound DEF Inv, TypeOK
<1>2. (rb.wr < rb.rd => rb.wr = 0) \/ 3 * Depth <= Word + 2
  BY OverwritableAssumption DEF Inv, WrapHolds, PeekFits
<1>3. /\ PeekErr(rb, i) \in {"OK", "IDX", "EMPTY"}
      /\ PeekValues(rb, i) \subseteq Item
  BY <1>1, <1>2, PeekReads DEF ItemIdx
<1> QED
  BY <1>3 DEF PeekCore, Answers

LEMMA CountKeepsRing ==
    ASSUME BelowCapacity, Inv, NEW t \in Thread, CountCore(t)
    PROVE  /\ rb' = rb /\ ret' \in Answers
           /\ CalcCount(rb) \in - Depth .. Depth
           /\ CalcCount(rb) = 0 <=> Occupancy(rb) = 0
<1>1. rb \in Ring /\ Occupancy(rb) < Depth /\ Occupancy(rb) \in Nat
      /\ Depth \in Nat
  BY LiveBound DEF Inv, TypeOK
<1>2. CalcCount(rb) \in - Depth .. Depth
  BY <1>1, CountValue, RingIndices
<1>3. CalcCount(rb) = 0 <=> Occupancy(rb) = 0
  BY <1>1, SeemsFullIff DEF SeemsEmpty
<1> QED
  BY <1>2, <1>3 DEF CountCore, Answers

\* The index a turn of peek_multi's loop peeks at fits the unsigned itemIdx.
LEMMA MultiPeekIdx ==
    ASSUME TypeOK, job.op = "peek_multi"
    PROVE  job.at + job.done \in ItemIdx
<1>1. /\ job.at \in Int /\ 0 <= job.at /\ job.at <= MaxMulti
      /\ job.done \in Int /\ 0 <= job.done /\ job.done < MaxMulti
  BY MultiAssumption, DepthAssumption DEF TypeOK, Jobs
<1> QED
  BY <1>1, MultiAssumption, DepthAssumption DEF ItemIdx, Word

LEMMA AdvanceType ==
    ASSUME TypeOK, job.op # "none", Advance
    PROVE  job' \in Jobs /\ (job.op # "none" => job.done < job.want)'
<1>1. /\ job \in Jobs
      /\ job.done \in Int /\ 0 <= job.done
      /\ job.want \in Int /\ job.done < job.want /\ job.want <= MaxMulti
  BY MultiAssumption, DepthAssumption DEF TypeOK, Jobs
<1>2. job.done + 1 \in 0 .. MaxMulti /\ (job.done + 1 # job.want => job.done + 1 < job.want)
  BY <1>1, MultiAssumption, DepthAssumption
<1>3. CASE ret'.err # "OK"
  BY <1>1, <1>3 DEF Advance, Jobs
<1>4. CASE ret'.err = "OK" /\ job.done + 1 = job.want
  BY <1>1, <1>2, <1>4 DEF Advance, Jobs
<1>5. CASE ret'.err = "OK" /\ job.done + 1 # job.want
  BY <1>1, <1>2, <1>5 DEF Advance, Jobs
<1> QED
  BY <1>3, <1>4, <1>5

-----------------------------------------------------------------------------
LEMMA InvInit ==
    ASSUME BelowCapacity, Init
    PROVE  Inv
<1>1. rb \in Ring /\ rb.wr = 0 /\ rb.rd = 0
  BY DepthAssumption DEF Init, Ring, Index
<1>2. ret \in Answers /\ job \in Jobs /\ job.op = "none"
  BY MultiAssumption, DepthAssumption DEF Init, Answers, Jobs
<1> QED
  BY <1>1, <1>2, MaxLiveAssumption, DepthAssumption
     DEF Inv, TypeOK, Occupancy, WrapHolds

LEMMA InvNext ==
    ASSUME BelowCapacity, PeekFits, Inv, [Next]_vars
    PROVE  Inv'
<1> USE DEF Inv
<1>1. ASSUME NEW t \in Thread, NEW x \in Item, Push(t, x)
      PROVE  Inv'
  BY <1>1, PushKeepsRing DEF Push, TypeOK
<1>2. ASSUME NEW t \in Thread, Pop(t)
      PROVE  Inv'
  BY <1>2, PopKeepsRing DEF Pop, TypeOK
<1>3. ASSUME NEW t \in Thread, NEW i \in ItemIdx, Peek(t, i)
      PROVE  Inv'
  BY <1>3, PeekKeepsRing DEF Peek, TypeOK, WrapHolds
<1>4. ASSUME NEW t \in Thread, Count(t)
      PROVE  Inv'
  BY <1>4, CountKeepsRing DEF Count, TypeOK, WrapHolds
<1>5. CASE Clear
  <2>1. rb' \in Ring /\ rb'.wr = 0 /\ rb'.rd = 0
    BY <1>5, ClearedIsEmpty DEF Clear, TypeOK
  <2>2. ret' \in Answers
    BY <1>5 DEF Clear, Answers, Thread
  <2> QED
    BY <1>5, <2>1, <2>2, MaxLiveAssumption, DepthAssumption
       DEF Clear, TypeOK, Occupancy, WrapHolds
<1>6. ASSUME NEW op \in Multi, NEW at \in 0 .. MaxMulti,
             NEW n \in 0 .. MaxMulti, StartMulti(op, at, n)
      PROVE  Inv'
  <2>1. job' \in Jobs /\ (job.op # "none" => job.done < job.want)'
    BY <1>6, MultiAssumption, DepthAssumption DEF StartMulti, Jobs
  <2> QED
    BY <1>6, <2>1 DEF StartMulti, TypeOK, WrapHolds
<1>7. ASSUME NEW x \in Item, MultiPush(x)
      PROVE  Inv'
  <2>1. "main" \in Thread /\ job.op # "none"
    BY <1>7 DEF MultiPush, Thread
  <2> QED
    BY <1>7, <2>1, PushKeepsRing, AdvanceType DEF MultiPush, TypeOK
<1>8. CASE MultiPop
  <2>1. "main" \in Thread /\ job.op # "none"
    BY <1>8 DEF MultiPop, Thread
  <2> QED
    BY <1>8, <2>1, PopKeepsRing, AdvanceType DEF MultiPop, TypeOK
<1>9. CASE MultiPeek
  <2>1. "main" \in Thread /\ job.op # "none" /\ job.at + job.done \in ItemIdx
    BY <1>9, MultiPeekIdx DEF MultiPeek, Thread
  <2> QED
    BY <1>9, <2>1, PeekKeepsRing, AdvanceType DEF MultiPeek, TypeOK, WrapHolds
<1>10. CASE UNCHANGED vars
  BY <1>10 DEF vars, TypeOK, WrapHolds
<1> QED
  BY <1>1, <1>2, <1>3, <1>4, <1>5, <1>6, <1>7, <1>8, <1>9, <1>10 DEF Next

THEOREM RingInvariance ==
    ASSUME BelowCapacity, PeekFits
    PROVE  Spec => []Inv
  BY InvInit, InvNext, PTL DEF Spec

\* The ring and every answer keep their declared shape.
THEOREM RingTypeCorrect ==
    ASSUME BelowCapacity, PeekFits
    PROVE  Spec => []TypeOK
<1>1. Inv => TypeOK
  BY DEF Inv
<1> QED
  BY <1>1, RingInvariance, PTL

\* A refused push always leaves the reader something to take.
THEOREM RefusalMeansWorkHolds ==
    ASSUME BelowCapacity, PeekFits
    PROVE  Spec => []RefusalMeansWork
<1>1. Inv => RefusalMeansWork
  <2> SUFFICES ASSUME Inv PROVE RefusalMeansWork
    OBVIOUS
  <2>1. rb \in Ring /\ Occupancy(rb) < Depth
    BY LiveBound DEF Inv, TypeOK
  <2> QED
    BY <2>1, SeemsFullIff, OccupancyType DEF RefusalMeansWork
<1> QED
  BY <1>1, RingInvariance, PTL

-----------------------------------------------------------------------------
(***************************************************************************)
(* The refinement: each critical section maps to the queue's operation or  *)
(* to its refusal, and everything else to a stutter.                       *)
(***************************************************************************)
LEMMA PushRefines ==
    ASSUME BelowCapacity, Inv, NEW t \in Thread, NEW x \in Item, PushCore(t, x)
    PROVE  \/ LossyFifo!Push(t, x)
           \/ LossyFifo!Refuse(t)
           \/ LossyFifo!Evict(t, x)
<1>1. rb \in Ring /\ Occupancy(rb) < Depth /\ Occupancy(rb) <= Depth
      /\ Occupancy(rb) \in Nat /\ Depth \in Nat
  BY LiveBound DEF Inv, TypeOK
<1>2. rb' = AfterPush(rb, x, Overwritable)
      /\ ret' = [by |-> t, op |-> "push", err |-> PushErr(rb, Overwritable)]
  BY DEF PushCore
<1>3. CASE SeemsFull(rb) /\ ~Overwritable
  <2>1. rb' = rb /\ PushErr(rb, Overwritable) = "WR_DENIED"
    BY <1>2, <1>3 DEF AfterPush, PushErr
  <2> QED
    BY <1>2, <1>3, <2>1 DEF LossyFifo!Refuse
<1>4. CASE SeemsFull(rb) /\ Overwritable
  <2>1. Occupancy(rb) > 0
    BY <1>1, <1>4, SeemsFullIff
  <2>2. /\ Evicted(rb) \in Ring /\ Occupancy(Evicted(rb)) = Occupancy(rb) - 1
        /\ Contents(rb) # << >>
        /\ Contents(Evicted(rb)) = Tail(Contents(rb))
    BY <1>1, <2>1, AdvanceDrops
  <2>3. Contents(Stored(Evicted(rb), x)) = Append(Tail(Contents(rb)), x)
    BY <1>1, <2>1, <2>2, StoredAppends
  <2>4. rb' = Stored(Evicted(rb), x) /\ PushErr(rb, Overwritable) = "OK"
    BY <1>2, <1>4 DEF AfterPush, PushErr
  <2> QED
    BY <1>2, <1>4, <2>2, <2>3, <2>4 DEF LossyFifo!Evict
<1>5. CASE ~SeemsFull(rb)
  <2>1. rb' = Stored(rb, x) /\ PushErr(rb, Overwritable) = "OK"
    BY <1>2, <1>5 DEF AfterPush, PushErr
  <2>2. Contents(rb') = Append(Contents(rb), x)
    BY <1>1, <2>1, StoredAppends
  <2>3. Len(Contents(rb)) < Depth
    BY <1>1, ContentsType
  <2> QED
    BY <1>2, <2>1, <2>2, <2>3 DEF LossyFifo!Push
<1> QED
  BY <1>3, <1>4, <1>5

LEMMA PopRefines ==
    ASSUME BelowCapacity, Inv, NEW t \in Thread, PopCore(t)
    PROVE  LossyFifo!Pop(t) \/ LossyFifo!PopEmpty(t)
<1>1. rb \in Ring /\ Occupancy(rb) < Depth /\ Occupancy(rb) <= Depth
      /\ Occupancy(rb) \in Nat /\ Depth \in Nat
  BY LiveBound DEF Inv, TypeOK
<1>2. SeemsEmpty(rb) <=> Contents(rb) = << >>
  BY <1>1, SeemsFullIff, EmptyContents
<1>3. CASE SeemsEmpty(rb)
  BY <1>2, <1>3 DEF PopCore, PopErr, AfterPop, LossyFifo!PopEmpty
<1>4. CASE ~SeemsEmpty(rb)
  <2>1. Occupancy(rb) > 0
    BY <1>1, <1>4, SeemsFullIff
  <2>2. rb' = Evicted(rb)
    BY <1>4 DEF PopCore, AfterPop, Evicted
  <2>3. /\ Oldest(rb) = Head(Contents(rb))
        /\ Contents(rb') = Tail(Contents(rb))
    BY <1>1, <2>1, <2>2, AdvanceDrops
  <2> QED
    BY <1>2, <1>4, <2>3 DEF PopCore, PopErr, LossyFifo!Pop
<1> QED
  BY <1>3, <1>4

LEMMA PeekRefines ==
    ASSUME BelowCapacity, PeekFits, Inv,
           NEW t \in Thread, NEW i \in ItemIdx, PeekCore(t, i)
    PROVE  LossyFifo!Peek(t, i)
<1>1. rb \in Ring /\ Occupancy(rb) < Depth /\ Occupancy(rb) <= Depth
      /\ Occupancy(rb) \in Nat /\ Depth \in Nat
      /\ i \in Int
  BY LiveBound DEF Inv, TypeOK, ItemIdx
<1>2. (rb.wr < rb.rd => rb.wr = 0) \/ 3 * Depth <= Word + 2
  BY OverwritableAssumption DEF Inv, WrapHolds, PeekFits
<1>3. /\ Occupancy(rb) = 0 <=> PeekErr(rb, i) = "EMPTY"
      /\ PeekErr(rb, i) \in {"OK", "IDX", "EMPTY"}
      /\ PeekErr(rb, i) = "IDX" => i >= Occupancy(rb)
      /\ i < Occupancy(rb) =>
            /\ PeekErr(rb, i) = "OK"
            /\ PeekValues(rb, i) = {Contents(rb)[i + 1]}
      /\ PeekValues(rb, i) \subseteq Item
  BY <1>1, <1>2, PeekReads DEF ItemIdx
<1>4. Len(Contents(rb)) = Occupancy(rb) /\ (Occupancy(rb) = 0 <=> Contents(rb) = << >>)
  BY <1>1, ContentsType, EmptyContents
<1>5. Contents(rb') = Contents(rb)
  BY DEF PeekCore
<1>6. CASE PeekErr(rb, i) = "OK"
  <2>1. PICK x \in PeekValues(rb, i) :
            ret' = [by |-> t, op |-> "peek", err |-> "OK", item |-> x]
    BY <1>6 DEF PeekCore
  <2>2. CASE i < Occupancy(rb)
    BY <1>3, <1>4, <1>5, <2>1, <2>2 DEF LossyFifo!Peek
  <2>3. CASE i >= Occupancy(rb)
    <3>1. x \in Item /\ Contents(rb) # << >>
      BY <1>3, <1>4, <1>6, <2>1
    <3> QED
      BY <1>4, <1>5, <2>1, <2>3, <3>1 DEF LossyFifo!Peek
  <2> QED
    BY <1>1, <2>2, <2>3
<1>7. CASE PeekErr(rb, i) = "IDX"
  BY <1>3, <1>4, <1>5, <1>7 DEF PeekCore, LossyFifo!Peek
<1>8. CASE PeekErr(rb, i) = "EMPTY"
  BY <1>3, <1>4, <1>5, <1>8 DEF PeekCore, LossyFifo!Peek
<1> QED
  BY <1>3, <1>6, <1>7, <1>8

LEMMA CountRefines ==
    ASSUME BelowCapacity, Inv, NEW t \in Thread, CountCore(t)
    PROVE  LossyFifo!Count(t)
<1>1. rb \in Ring
  BY DEF Inv, TypeOK
<1>2. CalcCount(rb) \in - Depth .. Depth
      /\ (CalcCount(rb) = 0 <=> Contents(rb) = << >>)
  BY <1>1, CountKeepsRing, EmptyContents
<1> QED
  BY <1>2 DEF CountCore, LossyFifo!Count

LEMMA ClearRefines ==
    ASSUME Inv, Clear
    PROVE  LossyFifo!Clear("main")
<1>1. rb' = Cleared(rb) /\ rb \in Ring /\ rb' \in Ring /\ Occupancy(rb') = 0
  BY ClearedIsEmpty DEF Clear, Inv, TypeOK
<1>2. Contents(rb') = << >>
  BY <1>1, EmptyContents
<1> QED
  BY <1>2 DEF Clear, LossyFifo!Clear

LEMMA InitRefines ==
    ASSUME Init
    PROVE  LossyFifo!Init
<1>1. rb \in Ring /\ Occupancy(rb) = 0
  BY DepthAssumption DEF Init, Ring, Index, Occupancy
<1> QED
  BY <1>1, EmptyContents DEF Init, NoCall, LossyFifo!Init, LossyFifo!NoCall

LEMMA StepRefines ==
    ASSUME BelowCapacity, PeekFits, Inv, [Next]_vars
    PROVE  [LossyFifo!Next]_(LossyFifo!vars)
<1> USE DEF LossyFifo!Next
<1>0. "main" \in Thread
  BY DEF Thread
<1>1. ASSUME NEW t \in Thread, NEW x \in Item, Push(t, x)
      PROVE  LossyFifo!Next
  BY <1>1, PushRefines DEF Push
<1>2. ASSUME NEW t \in Thread, Pop(t)
      PROVE  LossyFifo!Next
  BY <1>2, PopRefines DEF Pop
<1>3. ASSUME NEW t \in Thread, NEW i \in ItemIdx, Peek(t, i)
      PROVE  LossyFifo!Next
  BY <1>3, PeekRefines DEF Peek
<1>4. ASSUME NEW t \in Thread, Count(t)
      PROVE  LossyFifo!Next
  BY <1>4, CountRefines DEF Count
<1>5. CASE Clear
  BY <1>0, <1>5, ClearRefines
<1>6. ASSUME NEW op \in Multi, NEW at \in 0 .. MaxMulti,
             NEW n \in 0 .. MaxMulti, StartMulti(op, at, n)
      PROVE  UNCHANGED LossyFifo!vars
  BY <1>6 DEF StartMulti, LossyFifo!vars
<1>7. ASSUME NEW x \in Item, MultiPush(x)
      PROVE  LossyFifo!Next
  BY <1>0, <1>7, PushRefines DEF MultiPush
<1>8. CASE MultiPop
  BY <1>0, <1>8, PopRefines DEF MultiPop
<1>9. CASE MultiPeek
  <2>1. job.at + job.done \in ItemIdx /\ PeekCore("main", job.at + job.done)
    BY <1>9, MultiPeekIdx DEF MultiPeek, Inv
  <2> QED
    BY <1>0, <2>1, PeekRefines
<1>10. CASE UNCHANGED vars
  BY <1>10 DEF vars, LossyFifo!vars
<1> QED
  BY <1>1, <1>2, <1>3, <1>4, <1>5, <1>6, <1>7, <1>8, <1>9, <1>10 DEF Next

\* Whatever main and the ISR do below capacity, the ring behaves as the lossy
\* FIFO: order and content are never lost.
THEOREM RingRefinement ==
    ASSUME BelowCapacity, PeekFits
    PROVE  Spec => ImplementsLossyFifo
<1>1. Init => LossyFifo!Init
  BY InitRefines
<1>2. Inv /\ [Next]_vars => [LossyFifo!Next]_(LossyFifo!vars)
  BY StepRefines
<1> QED
  BY <1>1, <1>2, RingInvariance, PTL DEF Spec, ImplementsLossyFifo, LossyFifo!Spec

-----------------------------------------------------------------------------
LEMMA StepKeepsRefusing ==
    ASSUME BelowCapacity, PeekFits, ~Overwritable, Inv, [Next]_vars,
           SeemsFull(rb)
    PROVE  SeemsFull(rb)' \/ Occupancy(rb)' = 0
<1>1. Inv'
  BY InvNext
<1>2. rb \in Ring /\ Occupancy(rb) < Depth /\ rb' \in Ring /\ Occupancy(rb') < Depth
  BY <1>1, OccupancyType, MaxLiveAssumption, DepthAssumption
     DEF BelowCapacity, Inv, TypeOK
<1>3. rb.wr = 0 /\ rb.wr < rb.rd
  BY <1>2, SeemsFullIff DEF Inv, WrapHolds
<1>4. ASSUME NEW t \in Thread, NEW x \in Item, PushCore(t, x)
      PROVE  rb' = rb
  BY <1>4 DEF PushCore, AfterPush
<1>5. ASSUME NEW t \in Thread, PopCore(t)
      PROVE  SeemsFull(rb)' \/ Occupancy(rb)' = 0
  <2>1. CASE SeemsEmpty(rb)
    BY <1>5, <2>1 DEF PopCore, AfterPop
  <2>2. CASE ~SeemsEmpty(rb)
    <3>1. rb'.wr = 0 /\ rb'.rd = UpdateIdx(rb.rd)
      BY <1>2, <1>3, <1>5, <2>2 DEF PopCore, AfterPop, Ring
    <3>2. rb'.rd = 0 \/ rb'.rd > 0
      BY <1>2, RingIndices
    <3>3. CASE rb'.rd = 0
      BY <3>1, <3>3 DEF Occupancy
    <3>4. CASE rb'.rd > 0
      BY <1>2, <3>1, <3>4, SeemsFullIff
    <3> QED
      BY <3>2, <3>3, <3>4
  <2> QED
    BY <2>1, <2>2
<1>6. CASE Clear
  BY <1>2, <1>6, ClearedIsEmpty DEF Clear
<1> QED
  BY <1>4, <1>5, <1>6
     DEF Next, vars, Push, Pop, Peek, Count, StartMulti, MultiPush, MultiPop,
         MultiPeek, PeekCore, CountCore, Thread

\* A ring that has refused a push refuses every push until it is drained.
THEOREM RefusesUntilDrainedHolds ==
    ASSUME BelowCapacity, PeekFits, ~Overwritable
    PROVE  Spec => RefusesUntilDrained
<1>1. Inv /\ [Next]_vars
        => [SeemsFull(rb) => SeemsFull(rb)' \/ Occupancy(rb)' = 0]_vars
  BY StepKeepsRefusing
<1> QED
  BY <1>1, RingInvariance, PTL DEF Spec, RefusesUntilDrained
-----------------------------------------------------------------------------
(***************************************************************************)
(* The UART sends and receives in order and strands nothing.               *)
(***************************************************************************)
\* The obligation of the callers
Uncrowded == MaxBacklog < UartDepth

\* What a byte can count to, each way: Available tells none from some only of
\* FIFOs that are not deeper.  UART_BUF_DEPTH is 32.
CountFitsByte == UartDepth <= 256

\* The facts about rings, of this ring
R == INSTANCE RingOpsProofs WITH Depth <- UartDepth, HalfWord <- UartHalfWord, Item <- Byte

LEMMA DepthFits == R!DepthAssumption
  BY UartAssumption DEF R!DepthAssumption

\* They are about the same operators by another name.
LEMMA SameRing ==
    /\ Fifo!Ring = R!Ring
    /\ \A q : /\ Fifo!Occupancy(q) = R!Occupancy(q)
              /\ Fifo!Contents(q) = R!Contents(q)
              /\ Fifo!CalcCount(q) = R!CalcCount(q)
              /\ Fifo!SeemsEmpty(q) = R!SeemsEmpty(q)
              /\ Fifo!Oldest(q) = R!Oldest(q)
              /\ Fifo!AfterPop(q) = R!AfterPop(q)
              /\ Fifo!PushErr(q, FALSE) = R!PushErr(q, FALSE)
              /\ \A x : Fifo!AfterPush(q, x, FALSE) = R!AfterPush(q, x, FALSE)
  BY Zenon
  DEF Fifo!Ring, Fifo!Index, Fifo!Slot, R!Ring, R!Index, R!Slot,
      Fifo!Occupancy, Fifo!Contents, Fifo!SlotOf, Fifo!IndexFrom,
      R!Occupancy, R!Contents, R!SlotOf, R!IndexFrom,
      Fifo!CalcCount, Fifo!ToSigned, Fifo!ToUnsigned, Fifo!Word,
      R!CalcCount, R!ToSigned, R!ToUnsigned, R!Word,
      Fifo!SeemsEmpty, Fifo!SeemsFull, Fifo!Oldest, Fifo!AfterPop, Fifo!PushErr,
      R!SeemsEmpty, R!SeemsFull, R!Oldest, R!AfterPop, R!PushErr,
      Fifo!AfterPush, Fifo!Stored, Fifo!Evicted, Fifo!UpdateIdx,
      R!AfterPush, R!Stored, R!Evicted, R!UpdateIdx

LEMMA FifoPush ==
    ASSUME NEW q \in Fifo!Ring, NEW x \in Byte, Fifo!Occupancy(q) < UartDepth
    PROVE  /\ Fifo!AfterPush(q, x, FALSE) \in Fifo!Ring
           /\ Fifo!PushErr(q, FALSE) \in {"OK", "WR_DENIED"}
           /\ Fifo!PushErr(q, FALSE) = "OK" =>
                /\ Fifo!Contents(Fifo!AfterPush(q, x, FALSE)) = Append(Fifo!Contents(q), x)
                /\ Fifo!Occupancy(Fifo!AfterPush(q, x, FALSE)) = Fifo!Occupancy(q) + 1
           /\ Fifo!PushErr(q, FALSE) # "OK" => Fifo!AfterPush(q, x, FALSE) = q
  BY DepthFits, SameRing, R!PushAppends

LEMMA FifoPop ==
    ASSUME NEW q \in Fifo!Ring, Fifo!Occupancy(q) < UartDepth
    PROVE  /\ Fifo!AfterPop(q) \in Fifo!Ring
           /\ Fifo!SeemsEmpty(q) <=> Fifo!Contents(q) = << >>
           /\ Fifo!SeemsEmpty(q) => Fifo!AfterPop(q) = q
           /\ ~Fifo!SeemsEmpty(q) =>
                /\ Fifo!Oldest(q) \in Byte
                /\ Fifo!Oldest(q) = Head(Fifo!Contents(q))
                /\ Fifo!Contents(Fifo!AfterPop(q)) = Tail(Fifo!Contents(q))
                /\ Fifo!Occupancy(Fifo!AfterPop(q)) = Fifo!Occupancy(q) - 1
  BY DepthFits, SameRing, R!PopTakesHead

LEMMA FifoContents ==
    ASSUME NEW q \in Fifo!Ring, Fifo!Occupancy(q) < UartDepth
    PROVE  /\ Fifo!Contents(q) \in Seq(Byte)
           /\ Len(Fifo!Contents(q)) = Fifo!Occupancy(q)
           /\ Fifo!Occupancy(q) \in Nat
  BY DepthFits, SameRing, R!ContentsSeq

LEMMA FifoCount ==
    ASSUME NEW q \in Fifo!Ring, Fifo!Occupancy(q) < UartDepth
    PROVE  /\ Fifo!CalcCount(q) \in Int
           /\ - UartDepth < Fifo!CalcCount(q) /\ Fifo!CalcCount(q) < UartDepth
           /\ Fifo!CalcCount(q) = 0 <=> Fifo!Contents(q) = << >>
  BY DepthFits, SameRing, R!CountBounds

-----------------------------------------------------------------------------
\* What is on its way out: the byte in the transmitter, and the FIFO behind it.
Shifted == IF shifting = NoByte THEN << >> ELSE <<shifting>>

\* What has come in: the FIFO, and the byte the handler has not taken yet.
Waiting == IF ri THEN <<arrived>> ELSE << >>

\* Whoever finds the transmitter idle and nothing pending knows that nobody
\* else will start it: txBusy says just that.  Only between the push and the
\* kick of WriteByte may bytes wait for it.
TxHolds ==
    /\ unsent = Shifted \o Fifo!Contents(txFifo)
    /\ Fifo!Occupancy(txFifo) + (IF shifting = NoByte THEN 0 ELSE 1) = Len(unsent)
    /\ txBusy <=> shifting # NoByte \/ ti
    /\ ~(shifting # NoByte /\ ti)
    /\ pc # "kick" /\ ~txBusy => unsent = << >>
    /\ pc = "push" => Len(unsent) < MaxBacklog

RxHolds ==
    /\ unread = Fifo!Contents(rxFifo) \o Waiting
    /\ Fifo!Occupancy(rxFifo) + (IF ri THEN 1 ELSE 0) = Len(unread)
    /\ pc = "read" => left > 0

IInv == UartTypeOK /\ TxHolds /\ RxHolds

LEMMA Bounds ==
    ASSUME Uncrowded, IInv
    PROVE  /\ txFifo \in Fifo!Ring /\ Fifo!Occupancy(txFifo) < UartDepth
           /\ rxFifo \in Fifo!Ring /\ Fifo!Occupancy(rxFifo) < UartDepth
           /\ Fifo!Occupancy(txFifo) \in Nat /\ Fifo!Occupancy(rxFifo) \in Nat
           /\ Len(unsent) \in Nat /\ Len(unread) \in Nat
           /\ UartDepth \in Nat /\ MaxBacklog \in Nat /\ NoByte \notin Byte
<1>1. /\ Len(unsent) \in Nat /\ Len(unsent) <= MaxBacklog
      /\ Len(unread) \in Nat /\ Len(unread) <= MaxBacklog
      /\ MaxBacklog \in Nat /\ UartDepth \in Nat /\ MaxBacklog < UartDepth
  BY UartAssumption DEF IInv, UartTypeOK, Uncrowded
<1>2. Fifo!Occupancy(txFifo) \in Nat /\ Fifo!Occupancy(rxFifo) \in Nat
  BY DepthFits, SameRing, R!OccupancyType DEF IInv, UartTypeOK
<1>3. NoByte \notin Byte
  BY UartAssumption DEF NoByte, Byte
<1> QED
  BY <1>1, <1>2, <1>3 DEF IInv, UartTypeOK, TxHolds, RxHolds

LEMMA InitIInv == ASSUME UartInit PROVE IInv
<1>1. 0 \in Byte /\ NoByte \notin Byte
  BY UartAssumption DEF Byte, NoByte
<1>2. /\ txFifo \in Fifo!Ring
      /\ Fifo!Occupancy(txFifo) = 0
      /\ Fifo!Contents(txFifo) = << >>
  <2>1. Fifo!Slot = R!Slot
    BY DEF Fifo!Slot, R!Slot
  <2>2. LET new == [wr |-> 0, rd |-> 0, buf |-> [s \in R!Slot |-> 0]]
        IN  new \in R!Ring /\ R!Occupancy(new) = 0 /\ R!Contents(new) = << >>
    BY <1>1, DepthFits, R!FreshRing
  <2> QED
    BY <2>1, <2>2, SameRing DEF UartInit
<1>3. << >> \in Seq(Byte) /\ Len(<< >>) = 0 /\ << >> \o << >> = << >>
  OBVIOUS
<1>4. UartTypeOK
  <2>1. 0 \in 0 .. MaxRead /\ 0 <= MaxBacklog
    BY UartAssumption
  <2> QED
    BY <1>1, <1>2, <1>3, <2>1 DEF UartInit, UartTypeOK
<1>5. TxHolds
  BY <1>2, <1>3 DEF UartInit, TxHolds, Shifted
<1>6. RxHolds
  BY <1>2, <1>3 DEF UartInit, RxHolds, Waiting
<1> QED
  BY <1>4, <1>5, <1>6 DEF IInv

\* Feeding an idle transmitter moves the oldest byte and none of the bytes
\* under way changes its place; what stays idle has nothing to send.
LEMMA FeedKeeps ==
    ASSUME Uncrowded, IInv, shifting = NoByte, Feed
    PROVE  /\ txFifo' \in Fifo!Ring /\ shifting' \in Byte \cup {NoByte} /\ txBusy' \in BOOLEAN
           /\ unsent = Shifted' \o Fifo!Contents(txFifo')
           /\ Fifo!Occupancy(txFifo') + (IF shifting' = NoByte THEN 0 ELSE 1) = Len(unsent)
           /\ txBusy' <=> shifting' # NoByte
           /\ ~txBusy' => unsent = << >>
<1>1. /\ txFifo \in Fifo!Ring /\ Fifo!Occupancy(txFifo) < UartDepth
      /\ Fifo!Occupancy(txFifo) \in Nat
      /\ NoByte \notin Byte
  BY Bounds
<1>2. Fifo!Contents(txFifo) \in Seq(Byte)
  BY <1>1, FifoContents
<1>3. unsent = Fifo!Contents(txFifo) /\ Len(unsent) = Fifo!Occupancy(txFifo)
  <2>1. << >> \o Fifo!Contents(txFifo) = Fifo!Contents(txFifo)
    BY <1>2, ConcatEmptySeq
  <2> QED
    BY <1>1, <2>1 DEF IInv, TxHolds, Shifted
<1>4. CASE Fifo!SeemsEmpty(txFifo)
  <2>1. Fifo!Contents(txFifo) = << >> /\ ~txBusy' /\ txFifo' = txFifo /\ shifting' = NoByte
    BY <1>1, <1>4, FifoPop DEF Feed
  <2>2. txFifo' \in Fifo!Ring /\ shifting' \in Byte \cup {NoByte} /\ txBusy' \in BOOLEAN
    BY <1>1, <1>4, <2>1 DEF Feed
  <2>3. Shifted' \o Fifo!Contents(txFifo') = unsent
    BY <1>2, <1>3, <2>1, ConcatEmptySeq DEF Shifted
  <2> QED
    BY <1>1, <1>3, <2>1, <2>2, <2>3
<1>5. CASE ~Fifo!SeemsEmpty(txFifo)
  <2>1. /\ Fifo!AfterPop(txFifo) \in Fifo!Ring
        /\ Fifo!Oldest(txFifo) \in Byte
        /\ Fifo!Contents(txFifo) # << >>
        /\ Fifo!Oldest(txFifo) = Head(Fifo!Contents(txFifo))
        /\ Fifo!Contents(Fifo!AfterPop(txFifo)) = Tail(Fifo!Contents(txFifo))
        /\ Fifo!Occupancy(Fifo!AfterPop(txFifo)) = Fifo!Occupancy(txFifo) - 1
    BY <1>1, <1>5, FifoPop
  <2>2. shifting' = Fifo!Oldest(txFifo) /\ txFifo' = Fifo!AfterPop(txFifo) /\ txBusy' = TRUE
    BY <1>5 DEF Feed
  <2>3. Shifted' = <<Head(unsent)>>
    BY <1>1, <1>3, <2>1, <2>2 DEF Shifted
  <2>4. unsent = <<Head(unsent)>> \o Tail(unsent)
    BY <1>2, <1>3, <2>1, HeadThenTail
  <2> QED
    BY <1>1, <1>3, <2>1, <2>2, <2>3, <2>4
<1> QED
  BY <1>4, <1>5

\* Taking a byte, or finding none, leaves what has come in in its order.
LEMMA ReceiveKeeps ==
    ASSUME Uncrowded, IInv, Receive, UNCHANGED <<ri, arrived>>
    PROVE  /\ rxFifo' \in Fifo!Ring
           /\ unread' \in Seq(Byte) /\ Len(unread') <= MaxBacklog
           /\ unread' = Fifo!Contents(rxFifo') \o Waiting'
           /\ Fifo!Occupancy(rxFifo') + (IF ri' THEN 1 ELSE 0) = Len(unread')
<1>1. /\ rxFifo \in Fifo!Ring /\ Fifo!Occupancy(rxFifo) < UartDepth
      /\ Fifo!Occupancy(rxFifo) \in Nat /\ Len(unread) \in Nat
      /\ arrived \in Byte /\ MaxBacklog \in Nat
      /\ unread \in Seq(Byte) /\ Len(unread) <= MaxBacklog
      /\ unread = Fifo!Contents(rxFifo) \o Waiting
      /\ Fifo!Occupancy(rxFifo) + (IF ri THEN 1 ELSE 0) = Len(unread)
  BY Bounds DEF IInv, UartTypeOK, RxHolds
<1>2. Waiting' = Waiting
  BY DEF Waiting
<1>3. CASE Fifo!SeemsEmpty(rxFifo)
  <2>1. rxFifo' = rxFifo /\ unread' = unread
    BY <1>1, <1>3, FifoPop DEF Receive
  <2> QED
    BY <1>1, <1>2, <2>1
<1>4. CASE ~Fifo!SeemsEmpty(rxFifo)
  <2> DEFINE held == Fifo!Contents(rxFifo)
  <2>1. /\ rxFifo' \in Fifo!Ring /\ held \in Seq(Byte) /\ held # << >>
        /\ Fifo!Contents(rxFifo') = Tail(held)
        /\ Fifo!Occupancy(rxFifo') = Fifo!Occupancy(rxFifo) - 1
    BY <1>1, <1>4, FifoPop, FifoContents DEF Receive
  <2>2. unread' = Tail(unread)
    BY <1>4 DEF Receive
  <2>3. Tail(unread) = Tail(held) \o Waiting
    <3>1. CASE ri
      BY <1>1, <2>1, <3>1, PutAfter DEF Waiting
    <3>2. CASE ~ri
      BY <1>1, <2>1, <3>2, ConcatEmptySeq, HeadTailProperties DEF Waiting
    <3> QED
      BY <3>1, <3>2
  <2>4. unread # << >> /\ Tail(unread) \in Seq(Byte) /\ Len(Tail(unread)) = Len(unread) - 1
    <3>1. Len(held) = Fifo!Occupancy(rxFifo) /\ Len(held) > 0
      BY <1>1, <2>1, FifoContents, LenProperties, EmptySeq
    <3>2. Len(unread) > 0
      BY <1>1, <3>1
    <3> QED
      BY <1>1, <3>2, HeadTailProperties, EmptySeq
  <2> QED
    BY <1>1, <1>2, <2>1, <2>2, <2>3, <2>4
<1> QED
  BY <1>3, <1>4

-----------------------------------------------------------------------------
LEMMA NextTag == ASSUME NEW tag \in Byte PROVE Following(tag) \in Byte
  BY UartAssumption, Z3 DEF Byte, Following

\* One step of each kind, and the types first: the tags and the program counter
\* go their way whatever the FIFOs hold.
LEMMA PushKeeps == ASSUME Uncrowded, IInv, UartPush PROVE IInv'
<1>1. /\ txFifo \in Fifo!Ring /\ Fifo!Occupancy(txFifo) < UartDepth
      /\ Fifo!Occupancy(txFifo) \in Nat /\ Len(unsent) \in Nat /\ MaxBacklog \in Nat
      /\ nextTx \in Byte /\ unsent \in Seq(Byte)
  BY Bounds DEF IInv, UartTypeOK
<1>2. /\ txFifo' = Fifo!AfterPush(txFifo, nextTx, FALSE)
      /\ unsent' = Append(unsent, nextTx) /\ nextTx' = Following(nextTx)
      /\ pc = "push" /\ pc' = "kick"
      /\ UNCHANGED <<txBusy, shifting, ti, rxVars, left>>
  BY DEF UartPush
<1>3. /\ txFifo' \in Fifo!Ring
      /\ Fifo!Contents(txFifo') = Append(Fifo!Contents(txFifo), nextTx)
      /\ Fifo!Occupancy(txFifo') = Fifo!Occupancy(txFifo) + 1
  BY <1>1, <1>2, FifoPush DEF UartPush
<1>4. /\ unsent' \in Seq(Byte) /\ Len(unsent') = Len(unsent) + 1
      /\ Len(unsent) < MaxBacklog
  BY <1>1, <1>2, AppendProperties DEF IInv, TxHolds
<1>5. UartTypeOK'
  <2>1. Len(unsent') <= MaxBacklog
    BY <1>1, <1>4
  <2>2. nextTx' \in Byte
    BY <1>1, <1>2, NextTag
  <2>3. rxFifo' = rxFifo /\ ri' = ri /\ arrived' = arrived /\ nextRx' = nextRx /\ unread' = unread
    BY <1>2 DEF rxVars
  <2> QED
    BY <1>2, <1>3, <1>4, <2>1, <2>2, <2>3 DEF IInv, UartTypeOK
<1>6. TxHolds'
  <2>1. unsent' = Shifted' \o Fifo!Contents(txFifo')
    <3>1. Shifted \in Seq(Byte) /\ Fifo!Contents(txFifo) \in Seq(Byte) /\ Shifted' = Shifted
      BY <1>1, <1>2, FifoContents DEF Shifted, IInv, UartTypeOK
    <3>2. <<nextTx>> \in Seq(Byte)
      BY <1>1
    <3>3. unsent' = (Shifted \o Fifo!Contents(txFifo)) \o <<nextTx>>
      BY <1>1, <1>2, PutAfter DEF IInv, TxHolds
    <3>4. @ = Shifted \o (Fifo!Contents(txFifo) \o <<nextTx>>)
      BY <3>1, <3>2, ConcatAssociative
    <3>5. Fifo!Contents(txFifo) \o <<nextTx>> = Fifo!Contents(txFifo')
      BY <1>1, <1>3, <3>1, PutAfter
    <3> QED
      BY <3>1, <3>3, <3>4, <3>5
  <2>2. shifting' = shifting /\ ti' = ti /\ txBusy' = txBusy
    BY <1>2
  <2>3. Fifo!Occupancy(txFifo') + (IF shifting' = NoByte THEN 0 ELSE 1) = Len(unsent')
    BY <1>1, <1>3, <1>4, <2>2 DEF IInv, TxHolds
  <2>4. (txBusy <=> shifting # NoByte \/ ti) /\ ~(shifting # NoByte /\ ti)
    BY DEF IInv, TxHolds
  <2>5. pc' = "kick"
    BY <1>2
  <2> QED
    BY <2>1, <2>2, <2>3, <2>4, <2>5 DEF TxHolds
<1>7. RxHolds'
  BY <1>2 DEF IInv, RxHolds, Waiting, rxVars
<1> QED
  BY <1>5, <1>6, <1>7 DEF IInv

LEMMA KickKeeps == ASSUME Uncrowded, IInv, Kick PROVE IInv'
<1>1. /\ pc = "kick" /\ pc' = "idle"
      /\ UNCHANGED <<ti, nextTx, unsent, rxVars, left>>
  BY DEF Kick
<1>2. RxHolds'
  BY <1>1 DEF IInv, RxHolds, Waiting, rxVars
<1>3. CASE txBusy
  <2>1. UNCHANGED <<txFifo, txBusy, shifting>>
    BY <1>3 DEF Kick
  <2>2. UartTypeOK'
    BY <1>1, <2>1 DEF IInv, UartTypeOK, rxVars
  <2>3. TxHolds'
    BY <1>1, <1>3, <2>1 DEF IInv, TxHolds, Shifted
  <2> QED
    BY <1>2, <2>2, <2>3 DEF IInv
<1>4. CASE ~txBusy
  <2>1. Feed /\ shifting = NoByte /\ ~ti
    BY <1>4 DEF Kick, IInv, TxHolds
  <2>2. /\ txFifo' \in Fifo!Ring /\ shifting' \in Byte \cup {NoByte} /\ txBusy' \in BOOLEAN
        /\ unsent = Shifted' \o Fifo!Contents(txFifo')
        /\ Fifo!Occupancy(txFifo') + (IF shifting' = NoByte THEN 0 ELSE 1) = Len(unsent)
        /\ txBusy' <=> shifting' # NoByte
        /\ ~txBusy' => unsent = << >>
    BY <2>1, FeedKeeps
  <2>3. UartTypeOK'
    BY <1>1, <2>2 DEF IInv, UartTypeOK, rxVars
  <2>4. TxHolds'
    BY <1>1, <2>1, <2>2 DEF TxHolds
  <2> QED
    BY <1>2, <2>3, <2>4 DEF IInv
<1> QED
  BY <1>3, <1>4

LEMMA ReadKeeps == ASSUME Uncrowded, IInv, ReadByte \/ ReadNext PROVE IInv'
<1>1. /\ Receive
      /\ UNCHANGED <<txVars, ri, arrived, nextRx>>
  BY DEF ReadByte, ReadNext
<1>2. /\ rxFifo' \in Fifo!Ring
      /\ unread' \in Seq(Byte) /\ Len(unread') <= MaxBacklog
      /\ unread' = Fifo!Contents(rxFifo') \o Waiting'
      /\ Fifo!Occupancy(rxFifo') + (IF ri' THEN 1 ELSE 0) = Len(unread')
  BY <1>1, ReceiveKeeps
<1>3. /\ pc' \in {"idle", "read"} /\ pc \in {"idle", "read"}
      /\ left' \in 0 .. MaxRead
      /\ pc' = "read" => left' > 0
  <2>1. left \in 0 .. MaxRead /\ MaxRead \in Nat /\ (pc = "read" => left > 0)
    BY UartAssumption DEF IInv, UartTypeOK, RxHolds
  <2>2. CASE ReadByte
    BY <2>1, <2>2 DEF ReadByte
  <2>3. CASE ReadNext
    BY <2>1, <2>3 DEF ReadNext
  <2> QED
    BY <2>2, <2>3
<1>4. UartTypeOK'
  BY <1>1, <1>2, <1>3 DEF IInv, UartTypeOK, txVars
<1>5. TxHolds'
  BY <1>1, <1>3 DEF IInv, TxHolds, Shifted, txVars
<1>6. RxHolds'
  BY <1>2, <1>3 DEF RxHolds
<1> QED
  BY <1>4, <1>5, <1>6 DEF IInv

LEMMA IsrKeeps == ASSUME Uncrowded, IInv, Isr PROVE IInv'
<1>1. /\ ri' = FALSE /\ ti' = FALSE
      /\ UNCHANGED <<arrived, nextTx, nextRx, unsent, pc, left>>
  BY DEF Isr
<1>2. /\ rxFifo' \in Fifo!Ring
      /\ unread' \in Seq(Byte) /\ Len(unread') <= MaxBacklog
      /\ unread' = Fifo!Contents(rxFifo')
      /\ Fifo!Occupancy(rxFifo') = Len(unread')
  <2>1. /\ rxFifo \in Fifo!Ring /\ Fifo!Occupancy(rxFifo) < UartDepth
        /\ Fifo!Occupancy(rxFifo) \in Nat /\ arrived \in Byte
        /\ Fifo!Contents(rxFifo) \in Seq(Byte) /\ Len(Fifo!Contents(rxFifo)) = Fifo!Occupancy(rxFifo)
        /\ unread \in Seq(Byte) /\ Len(unread) <= MaxBacklog /\ MaxBacklog \in Nat
        /\ unread = Fifo!Contents(rxFifo) \o Waiting
        /\ Fifo!Occupancy(rxFifo) + (IF ri THEN 1 ELSE 0) = Len(unread)
    BY Bounds, FifoContents DEF IInv, UartTypeOK, RxHolds
  <2>2. CASE ~ri
    BY <2>1, <2>2, ConcatEmptySeq DEF Isr, Waiting
  <2>3. CASE ri /\ Fifo!PushErr(rxFifo, FALSE) = "OK"
    <3>1. /\ rxFifo' = Fifo!AfterPush(rxFifo, arrived, FALSE) /\ unread' = unread
          /\ unread = Fifo!Contents(rxFifo) \o <<arrived>>
      BY <2>1, <2>3 DEF Isr, Waiting
    <3> QED
      BY <2>1, <2>3, <3>1, FifoPush, PutAfter
  <2>4. CASE ri /\ Fifo!PushErr(rxFifo, FALSE) = "WR_DENIED"
    <3>1. /\ rxFifo' = rxFifo /\ unread' = Front(unread)
          /\ unread = Fifo!Contents(rxFifo) \o <<arrived>>
      BY <2>1, <2>4, FifoPush DEF Isr, Waiting
    <3>2. unread' = Fifo!Contents(rxFifo)
      BY <2>1, <3>1, PutAfter
    <3> QED
      BY <2>1, <3>1, <3>2
  <2> QED
    BY <2>1, <2>2, <2>3, <2>4, FifoPush
<1>3. RxHolds'
  <2>1. Fifo!Contents(rxFifo') \in Seq(Byte)
    BY <1>2
  <2> QED
    BY <1>1, <1>2, <2>1, ConcatEmptySeq DEF IInv, RxHolds, Waiting
<1>4. CASE ti
  <2>1. Feed /\ shifting = NoByte
    BY <1>4 DEF Isr, IInv, TxHolds
  <2>2. /\ txFifo' \in Fifo!Ring /\ shifting' \in Byte \cup {NoByte} /\ txBusy' \in BOOLEAN
        /\ unsent = Shifted' \o Fifo!Contents(txFifo')
        /\ Fifo!Occupancy(txFifo') + (IF shifting' = NoByte THEN 0 ELSE 1) = Len(unsent)
        /\ txBusy' <=> shifting' # NoByte
        /\ ~txBusy' => unsent = << >>
    BY <2>1, FeedKeeps
  <2>3. UartTypeOK'
    BY <1>1, <1>2, <2>2 DEF IInv, UartTypeOK
  <2>4. TxHolds'
    BY <1>1, <2>2 DEF IInv, TxHolds
  <2> QED
    BY <1>3, <2>3, <2>4 DEF IInv
<1>5. CASE ~ti
  <2>1. UNCHANGED <<txFifo, txBusy, shifting>>
    BY <1>5 DEF Isr
  <2>2. UartTypeOK'
    BY <1>1, <1>2, <2>1 DEF IInv, UartTypeOK
  <2>3. TxHolds'
    BY <1>1, <1>5, <2>1 DEF IInv, TxHolds, Shifted
  <2> QED
    BY <1>3, <2>2, <2>3 DEF IInv
<1> QED
  BY <1>4, <1>5

LEMMA ShiftOutKeeps == ASSUME Uncrowded, IInv, ShiftOut PROVE IInv'
<1>1. /\ shifting # NoByte /\ shifting' = NoByte /\ ti' = TRUE
      /\ UNCHANGED <<txFifo, txBusy, nextTx, rxVars, pc, left>>
  BY DEF ShiftOut
<1>2. /\ txFifo \in Fifo!Ring /\ Fifo!Occupancy(txFifo) < UartDepth
      /\ Fifo!Occupancy(txFifo) \in Nat /\ Len(unsent) \in Nat /\ MaxBacklog \in Nat
      /\ Fifo!Contents(txFifo) \in Seq(Byte) /\ shifting \in Byte
      /\ Len(unsent) <= MaxBacklog
  BY <1>1, Bounds, FifoContents DEF IInv, UartTypeOK
<1>3. /\ unsent = <<shifting>> \o Fifo!Contents(txFifo)
      /\ Fifo!Occupancy(txFifo) + 1 = Len(unsent)
      /\ txBusy /\ ~ti
      /\ pc = "push" => Len(unsent) < MaxBacklog
  BY <1>1 DEF IInv, TxHolds, Shifted
<1>4. unsent' = Fifo!Contents(txFifo)
  BY <1>2, <1>3, PutBefore DEF ShiftOut
<1>5. unsent' \in Seq(Byte) /\ Len(unsent') = Fifo!Occupancy(txFifo) /\ Len(unsent') < Len(unsent)
  BY <1>2, <1>3, <1>4, FifoContents
<1>6. UartTypeOK'
  <2>1. Len(unsent') <= MaxBacklog
    BY <1>2, <1>5
  <2> QED
    BY <1>1, <1>2, <1>5, <2>1 DEF IInv, UartTypeOK, rxVars
<1>7. TxHolds'
  <2>1. Fifo!Contents(txFifo') = Fifo!Contents(txFifo) /\ Fifo!Occupancy(txFifo') = Fifo!Occupancy(txFifo)
    BY <1>1
  <2>2. unsent' = Shifted' \o Fifo!Contents(txFifo')
    BY <1>1, <1>2, <1>4, <2>1, ConcatEmptySeq DEF Shifted
  <2>3. Fifo!Occupancy(txFifo') + (IF shifting' = NoByte THEN 0 ELSE 1) = Len(unsent')
    BY <1>1, <1>2, <1>5, <2>1
  <2>4. pc' = "push" => Len(unsent') < MaxBacklog
    BY <1>1, <1>2, <1>3, <1>5
  <2> QED
    BY <1>1, <1>3, <2>2, <2>3, <2>4 DEF TxHolds
<1>8. RxHolds'
  BY <1>1 DEF IInv, RxHolds, Waiting, rxVars
<1> QED
  BY <1>6, <1>7, <1>8 DEF IInv

LEMMA ArriveKeeps == ASSUME Uncrowded, IInv, Arrive PROVE IInv'
<1>1. /\ ~ri /\ ri' = TRUE /\ arrived' = nextRx
      /\ nextRx' = Following(nextRx) /\ unread' = Append(unread, nextRx)
      /\ Len(unread) < MaxBacklog
      /\ UNCHANGED <<txVars, rxFifo, pc, left>>
  BY DEF Arrive
<1>2. /\ rxFifo \in Fifo!Ring /\ Fifo!Occupancy(rxFifo) < UartDepth
      /\ Fifo!Occupancy(rxFifo) \in Nat /\ Len(unread) \in Nat /\ MaxBacklog \in Nat
      /\ Fifo!Contents(rxFifo) \in Seq(Byte) /\ unread \in Seq(Byte) /\ nextRx \in Byte
  BY Bounds, FifoContents DEF IInv, UartTypeOK
<1>3. unread = Fifo!Contents(rxFifo) /\ Fifo!Occupancy(rxFifo) = Len(unread)
  BY <1>1, <1>2, ConcatEmptySeq DEF IInv, RxHolds, Waiting
<1>4. unread' \in Seq(Byte) /\ Len(unread') = Len(unread) + 1
  BY <1>1, <1>2, AppendProperties
<1>5. UartTypeOK'
  <2>1. Len(unread') <= MaxBacklog
    BY <1>1, <1>2, <1>4
  <2>2. nextRx' \in Byte
    BY <1>1, <1>2, NextTag
  <2> QED
    BY <1>1, <1>2, <1>4, <2>1, <2>2 DEF IInv, UartTypeOK, txVars
<1>6. TxHolds'
  BY <1>1 DEF IInv, TxHolds, Shifted, txVars
<1>7. RxHolds'
  <2>1. unread' = Fifo!Contents(rxFifo') \o Waiting'
    BY <1>1, <1>2, <1>3, PutAfter DEF Waiting
  <2>2. Fifo!Occupancy(rxFifo') + (IF ri' THEN 1 ELSE 0) = Len(unread')
    BY <1>1, <1>2, <1>3, <1>4
  <2> QED
    BY <1>1, <2>1, <2>2 DEF IInv, RxHolds
<1> QED
  BY <1>5, <1>6, <1>7 DEF IInv

\* The steps that only move main on, into a call, past a look at the FIFO or
\* out of FlushTx.
LEMMA CallKeeps ==
    ASSUME IInv, WriteByte \/ FlushTx \/ FlushCount \/ FlushBusy \/ ReadBuffer
    PROVE  IInv'
<1>1. /\ UNCHANGED <<txVars, rxVars>>
      /\ pc' \in {"idle", "push", "flush", "flushBusy", "read"} /\ pc # "kick"
      /\ left' \in 0 .. MaxRead
      /\ pc' = "push" => Len(unsent) < MaxBacklog
      /\ pc' = "read" => left' > 0
  <2>1. left \in 0 .. MaxRead /\ MaxRead \in Nat
    BY UartAssumption DEF IInv, UartTypeOK
  <2> QED
    BY <2>1 DEF WriteByte, FlushTx, FlushCount, FlushBusy, ReadBuffer
<1>2. UartTypeOK'
  BY <1>1 DEF IInv, UartTypeOK, txVars, rxVars
<1>3. TxHolds'
  BY <1>1 DEF IInv, TxHolds, Shifted, txVars
<1>4. RxHolds'
  BY <1>1 DEF IInv, RxHolds, Waiting, rxVars
<1> QED
  BY <1>2, <1>3, <1>4 DEF IInv

LEMMA StepKeeps == ASSUME Uncrowded, IInv, [UartNext]_uartVars PROVE IInv'
<1>1. CASE UNCHANGED uartVars
  BY <1>1
  DEF uartVars, txVars, rxVars, IInv, UartTypeOK, TxHolds, RxHolds, Shifted, Waiting
<1>2. CASE UartPush
  BY <1>2, PushKeeps
<1>3. CASE Kick
  BY <1>3, KickKeeps
<1>4. CASE ReadByte \/ ReadNext
  BY <1>4, ReadKeeps
<1>5. CASE Isr
  BY <1>5, IsrKeeps
<1>6. CASE ShiftOut
  BY <1>6, ShiftOutKeeps
<1>7. CASE Arrive
  BY <1>7, ArriveKeeps
<1>8. CASE WriteByte \/ FlushTx \/ FlushCount \/ FlushBusy \/ ReadBuffer
  BY <1>8, CallKeeps
<1> QED
  BY <1>1, <1>2, <1>3, <1>4, <1>5, <1>6, <1>7, <1>8 DEF UartNext, UartMain

LEMMA UartInvariance == ASSUME Uncrowded PROVE UartSpec => []IInv
<1>1. UartInit => IInv
  BY InitIInv
<1>2. IInv /\ [UartNext]_uartVars => IInv'
  BY StepKeeps
<1> QED
  BY <1>1, <1>2, PTL DEF UartSpec

-----------------------------------------------------------------------------
\* The types, for every depth and number of tags.
THEOREM UartTypeCorrect == ASSUME Uncrowded PROVE UartSpec => []UartTypeOK
<1>1. IInv => UartTypeOK
  BY DEF IInv
<1> QED
  BY <1>1, UartInvariance, PTL

\* Every byte that userUART_WriteByte accepts is shifted out once, in the order
\* of the calls, whatever the interrupt handler comes between.
THEOREM SentInOrder == ASSUME Uncrowded PROVE UartSpec => []SendsInOrder
<1>1. IInv => SendsInOrder
  <2> SUFFICES ASSUME IInv, shifting # NoByte
               PROVE  unsent # << >> /\ shifting = Head(unsent)
    BY DEF SendsInOrder
  <2>1. shifting \in Byte /\ Fifo!Contents(txFifo) \in Seq(Byte)
    BY Bounds, FifoContents DEF IInv, UartTypeOK
  <2>2. unsent = <<shifting>> \o Fifo!Contents(txFifo)
    BY DEF IInv, TxHolds, Shifted
  <2> QED
    BY <2>1, <2>2, PutBefore
<1> QED
  BY <1>1, UartInvariance, PTL

\* txBusy never says that the interrupt will come when it will not: between
\* two calls no byte waits behind an idle transmitter.
THEOREM NoneStranded == ASSUME Uncrowded PROVE UartSpec => []NothingStranded
<1>1. IInv => NothingStranded
  BY DEF IInv, TxHolds, NothingStranded
<1> QED
  BY <1>1, UartInvariance, PTL

\* The receive FIFO holds what came in and was not refused, in order, and
\* userUART_Available, the signed count cut to a byte, is zero only for none.
THEOREM ReceivedInOrder ==
    ASSUME Uncrowded, CountFitsByte
    PROVE  UartSpec => []ReceivesInOrder
<1>1. IInv => ReceivesInOrder
  <2> SUFFICES ASSUME IInv PROVE ReceivesInOrder
    OBVIOUS
  <2>1. rxFifo \in Fifo!Ring /\ Fifo!Occupancy(rxFifo) < UartDepth
    BY Bounds
  <2>2. /\ Fifo!CalcCount(rxFifo) \in Int
        /\ - 256 < Fifo!CalcCount(rxFifo) /\ Fifo!CalcCount(rxFifo) < 256
        /\ Fifo!CalcCount(rxFifo) = 0 <=> Fifo!Contents(rxFifo) = << >>
    <3>1. UartDepth \in Int /\ UartDepth <= 256
      BY UartAssumption DEF CountFitsByte
    <3> QED
      BY <2>1, <3>1, FifoCount
  <2>3. Available = 0 <=> Fifo!CalcCount(rxFifo) = 0
    BY <2>2, Z3 DEF Available
  <2>4. Fifo!Contents(rxFifo) \o (IF ri THEN <<arrived>> ELSE << >>) = unread
    BY DEF IInv, RxHolds, Waiting
  <2> QED
    BY <2>2, <2>3, <2>4 DEF ReceivesInOrder
<1> QED
  BY <1>1, UartInvariance, PTL

\* userUART_FlushTx comes back only when the last byte has left the transmitter,
\* although it looks at the count and at txBusy one after the other.
THEOREM FlushedMeansSent == ASSUME Uncrowded PROVE UartSpec => FlushMeansSent
<1>1. IInv /\ [UartNext]_uartVars
        => [pc = "flushBusy" /\ pc' = "idle" => unsent = << >>]_uartVars
  <2> SUFFICES ASSUME IInv, UartNext, pc = "flushBusy", pc' = "idle" PROVE unsent = << >>
    BY DEF uartVars
  <2>1. ~txBusy
    BY DEF UartNext, UartMain, WriteByte, UartPush, Kick, FlushTx, FlushCount, FlushBusy,
           ReadByte, ReadBuffer, ReadNext, Isr, ShiftOut, Arrive
  <2> QED
    BY <2>1 DEF IInv, TxHolds
<1> QED
  BY <1>1, UartInvariance, PTL DEF UartSpec, FlushMeansSent
=============================================================================
