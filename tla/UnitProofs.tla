----------------------------- MODULE UnitProofs -----------------------------
(***************************************************************************)
(* The units of the firmware that work each on their own.  The lines of    *)
(* the board, for any number of keys and doors: what a key press has to be *)
(* before the firmware believes it, and what the relay lines carry from    *)
(* reset on.  The serial console for every size of the tree, of the pool   *)
(* and of a line: whatever was registered, in whatever order, a line runs  *)
(* the deepest command it begins with; a line is cut by the rules of the   *)
(* comment above the scanner; and its table is given back on every way     *)
(* out.  The temperature sensor at the other end of the 1-Wire bus, for    *)
(* any identity and any temperature: what it is told is what was meant.    *)
(***************************************************************************)
EXTENDS Board, Keys, Console, OneWire, Basics

-----------------------------------------------------------------------------
\* The facts about rings, of the button queue
R == INSTANCE RingOpsProofs WITH Item <- Key \X {0, 1}

LEMMA KeyDepthFits == R!DepthAssumption
  BY KeysAssumption DEF R!DepthAssumption

LEMMA SameKeyRing ==
    /\ Ring!Ring = R!Ring /\ Ring!Slot = R!Slot
    /\ \A q : /\ Ring!Occupancy(q) = R!Occupancy(q)
              /\ Ring!Contents(q) = R!Contents(q)
              /\ Ring!SeemsEmpty(q) = R!SeemsEmpty(q)
              /\ Ring!Oldest(q) = R!Oldest(q)
              /\ Ring!AfterPop(q) = R!AfterPop(q)
              /\ \A x : Ring!AfterPush(q, x, FALSE) = R!AfterPush(q, x, FALSE)
  BY Zenon
  DEF Ring!Ring, Ring!Index, Ring!Slot, R!Ring, R!Index, R!Slot,
      Ring!Occupancy, R!Occupancy, Ring!Contents, R!Contents,
      Ring!IndexFrom, R!IndexFrom, Ring!SlotOf, R!SlotOf,
      Ring!SeemsEmpty, R!SeemsEmpty, Ring!CalcCount, R!CalcCount,
      Ring!ToSigned, R!ToSigned, Ring!ToUnsigned, R!ToUnsigned, Ring!Word, R!Word,
      Ring!Oldest, R!Oldest, Ring!AfterPop, R!AfterPop, Ring!UpdateIdx, R!UpdateIdx,
      Ring!AfterPush, R!AfterPush, Ring!SeemsFull, R!SeemsFull,
      Ring!Stored, R!Stored, Ring!Evicted, R!Evicted

\* While there is an item to spare, the button queue takes an edge when it is
\* empty, and gives it back.
LEMMA EmptyTakesEdge ==
    ASSUME Depth > 1, NEW q \in Ring!Ring, Ring!Occupancy(q) = 0, NEW e \in Key \X {0, 1}
    PROVE  LET new == Ring!AfterPush(q, e, FALSE)
           IN  new \in Ring!Ring /\ Ring!Occupancy(new) = 1 /\ Ring!Oldest(new) = e
<1> DEFINE new == R!AfterPush(q, e, FALSE)
<1>1. q \in R!Ring /\ R!Occupancy(q) = 0 /\ R!Occupancy(q) < Depth
  BY SameKeyRing, KeysAssumption
<1>2. R!Contents(q) = << >>
  BY <1>1, KeyDepthFits, R!EmptyContents
<1>3. /\ new \in R!Ring
      /\ R!Contents(new) = Append(<< >>, e) /\ R!Occupancy(new) = 1
  <2>1. /\ new \in R!Ring
        /\ R!PushErr(q, FALSE) = "OK" =>
             /\ R!Contents(new) = Append(R!Contents(q), e)
             /\ R!Occupancy(new) = R!Occupancy(q) + 1
        /\ R!PushErr(q, FALSE) # "OK" => R!Contents(q) # << >>
    BY <1>1, KeyDepthFits, R!PushAppends
  <2> HIDE DEF new
  <2>2. R!PushErr(q, FALSE) = "OK"
    BY <1>2, <2>1
  <2>3. R!Occupancy(new) = 0 + 1
    BY <1>1, <2>1, <2>2
  <2> QED
    BY <1>2, <2>1, <2>2, <2>3
<1>4. R!Oldest(new) = e
  <2> HIDE DEF new
  <2>1. R!Occupancy(new) < Depth /\ R!Contents(new) # << >>
    BY <1>3, KeysAssumption
  <2>2. R!Oldest(new) = Head(R!Contents(new))
    BY <1>3, <2>1, KeyDepthFits, R!PopTakesHead
  <2> QED
    BY <1>3, <2>2
<1> QED
  BY <1>3, <1>4, SameKeyRing

-----------------------------------------------------------------------------
\* The values of the keys' variables
Debouncer == [stable : {0, 1}, cnt : 0 .. Samples - 1]
Count     == [level : {0, 1}, n : 0 .. Samples]
Channel   == [pressed : BOOLEAN, holdCnt : 0 .. HoldWord - 1, fired : BOOLEAN]

\* A debouncer's count is that of the last samples that differ from its level.
Settling(b, s) ==
    IF s.level = b.stable THEN b.cnt = 0 ELSE b.cnt = s.n /\ s.n < Samples

\* One sample keeps it so, and changes the level when it has to.
LEMMA SampleSettles ==
    ASSUME NEW b \in Debouncer, NEW s \in Count, NEW level \in {0, 1}, Settling(b, s)
    PROVE  /\ Sampled(b, level) \in Debouncer
           /\ Steadied(s, level) \in Count
           /\ Settling(Sampled(b, level), Steadied(s, level))
           /\ Sampled(b, level).stable # b.stable
              <=> Steadied(s, level).level # b.stable /\ Steadied(s, level).n >= Samples
<1> DEFINE c == Sampled(b, level)
           t == Steadied(s, level)
<1>1. /\ b.stable \in {0, 1} /\ b.cnt \in 0 .. Samples - 1
      /\ s.level \in {0, 1} /\ s.n \in 0 .. Samples /\ Samples \in 1 .. 127
  BY KeysAssumption DEF Debouncer, Count
<1>2. /\ t \in Count /\ t.level = level
      /\ t.n = IF level # s.level THEN 1 ELSE IF s.n < Samples THEN s.n + 1 ELSE s.n
  BY <1>1 DEF Steadied, Count
<1>3. CASE level = b.stable
  <2>1. c \in Debouncer /\ c.stable = b.stable /\ c.cnt = 0
    BY <1>1, <1>3 DEF Sampled, Debouncer
  <2> HIDE DEF c, t
  <2>2. Settling(c, t)
    BY <1>2, <1>3, <2>1 DEF Settling
  <2> QED
    BY <1>2, <1>3, <2>1, <2>2 DEF c, t
<1>4. CASE level # b.stable /\ b.cnt + 1 >= Samples
  <2>1. c \in Debouncer /\ c.stable = level /\ c.cnt = 0
    BY <1>1, <1>4 DEF Sampled, Debouncer
  <2>2. t.n >= Samples
    BY <1>1, <1>2, <1>4 DEF Settling
  <2> HIDE DEF c, t
  <2>3. Settling(c, t)
    BY <1>2, <2>1 DEF Settling
  <2> QED
    BY <1>2, <1>4, <2>1, <2>2, <2>3 DEF c, t
<1>5. CASE level # b.stable /\ b.cnt + 1 < Samples
  <2>1. c \in Debouncer /\ c.stable = b.stable /\ c.cnt = b.cnt + 1
    BY <1>1, <1>5 DEF Sampled, Debouncer
  <2>2. t.n = b.cnt + 1
    BY <1>1, <1>2, <1>5 DEF Settling
  <2> HIDE DEF c, t
  <2>3. Settling(c, t)
    BY <1>1, <1>2, <1>5, <2>1, <2>2 DEF Settling
  <2> QED
    BY <1>1, <1>2, <1>5, <2>1, <2>2, <2>3 DEF c, t
<1> QED
  BY <1>1, <1>3, <1>4, <1>5

\* What is known of a key that is down: it has been held for as many ticks as
\* its count says, or for long enough; and it is reported only when for long enough.
Holding(c, h) ==
    c.pressed => (h = LongPress \/ h = c.holdCnt) /\ (c.fired => h = LongPress)

LEMMA HeldHolds ==
    ASSUME NEW c \in Channel, NEW h \in 0 .. LongPress, Holding(c, h)
    PROVE  LET g == IF c.pressed /\ h < LongPress THEN h + 1 ELSE h
           IN  Held(c) \in Channel /\ g \in 0 .. LongPress /\ Holding(Held(c), g)
<1> DEFINE d == Held(c)
           g == IF c.pressed /\ h < LongPress THEN h + 1 ELSE h
<1>1. /\ LongPress \in Int /\ 1 <= LongPress /\ LongPress < HoldWord /\ HoldWord \in Int
      /\ h \in Int /\ 0 <= h /\ h <= LongPress
      /\ c.pressed \in BOOLEAN /\ c.fired \in BOOLEAN
      /\ c.holdCnt \in Int /\ 0 <= c.holdCnt /\ c.holdCnt < HoldWord
  BY KeysAssumption DEF Channel
<1>2. g \in 0 .. LongPress
  BY <1>1
<1>3. CASE ~c.pressed
  BY <1>1, <1>2, <1>3 DEF Held, Holding
<1>4. CASE c.pressed
  <2>1. /\ (c.holdCnt + 1) % HoldWord \in 0 .. HoldWord - 1
        /\ c.holdCnt + 1 < HoldWord => (c.holdCnt + 1) % HoldWord = c.holdCnt + 1
    <3> DEFINE m == c.holdCnt + 1
    <3>1. m \in Int /\ 0 <= m /\ m <= HoldWord
      BY <1>1
    <3> HIDE DEF m
    <3>2. m % HoldWord \in 0 .. HoldWord - 1 /\ (m < HoldWord => m % HoldWord = m)
      BY <1>1, <3>1
    <3> QED
      BY <3>2 DEF m
  <2>2. /\ d \in Channel /\ d.pressed = c.pressed /\ d.fired = c.fired
        /\ d.holdCnt = (c.holdCnt + 1) % HoldWord
    BY <1>4, <2>1 DEF Held, Channel
  <2>3. h = LongPress => g = LongPress
    BY <1>1
  <2>4. h < LongPress => g = h + 1 /\ g <= LongPress
    BY <1>1, <1>4
  <2> HIDE DEF d, g
  <2>5. ASSUME h < LongPress PROVE Holding(d, g)
    <3>1. h = c.holdCnt /\ ~c.fired
      BY <1>1, <1>4, <2>5 DEF Holding
    <3>2. d.holdCnt = h + 1
      BY <1>1, <2>1, <2>2, <2>5, <3>1
    <3> QED
      BY <2>2, <2>4, <2>5, <3>1, <3>2 DEF Holding
  <2>6. ASSUME h = LongPress PROVE Holding(d, g)
    BY <2>3, <2>6 DEF Holding
  <2> QED
    BY <1>1, <1>2, <2>2, <2>5, <2>6 DEF d, g
<1> QED
  BY <1>1, <1>3, <1>4

-----------------------------------------------------------------------------
\* button_push of one channel's edge, if it has one
Pushing(r, n, keys, levels) ==
    IF n - 1 \in keys THEN Ring!AfterPush(r, <<n - 1, levels[n - 1]>>, FALSE) ELSE r

LEMMA PushingType ==
    ASSUME NEW r \in Ring!Ring, NEW n \in 1 .. Channels,
           NEW keys \in SUBSET Key, NEW levels \in [Key -> {0, 1}]
    PROVE  Pushing(r, n, keys, levels) \in Ring!Ring
<1>1. n - 1 \in Key
  BY KeysAssumption DEF Key
<1>2. <<n - 1, levels[n - 1]>> \in Key \X {0, 1}
  BY <1>1
<1> QED
  BY <1>2, SameKeyRing, KeyDepthFits, R!RingTypes DEF Pushing

\* What holds of the queue before the first channel, and after a channel if
\* before it, holds of the queue that board_bus_poll leaves.
LEMMA PushedLoop ==
    ASSUME NEW q \in Ring!Ring, NEW keys \in SUBSET Key, NEW levels \in [Key -> {0, 1}],
           NEW Good, <<0, q>> \in Good,
           \A n \in 1 .. Channels, r \in Ring!Ring :
              <<n - 1, r>> \in Good => <<n, Pushing(r, n, keys, levels)>> \in Good
    PROVE  <<Channels, Pushed(q, keys, levels)>> \in Good /\ Pushed(q, keys, levels) \in Ring!Ring
<1>1. Channels \in Nat
  BY KeysAssumption
<1> DEFINE N == Channels
           Step == [nr \in (1 .. N) \X Ring!Ring |-> Pushing(nr[2], nr[1], keys, levels)]
           Is(f) == f = [n \in 0 .. N |->
                           IF n = 0 THEN q
                           ELSE IF n - 1 \in keys
                                THEN Ring!AfterPush(f[n - 1], <<n - 1, levels[n - 1]>>, FALSE)
                           ELSE f[n - 1]]
           after == CHOOSE f : Is(f)
<1>2. Step \in [(1 .. N) \X Ring!Ring -> Ring!Ring]
  BY PushingType
<1>3. PICK f : Goes(f, N, Ring!Ring, q, Step)
  <2> HIDE DEF Step
  <2> QED
    BY <1>1, <1>2, RecursionDefines
<1>4. Is(f)
  <2>1. ASSUME NEW n \in 1 .. N PROVE f[n] = Pushing(f[n - 1], n, keys, levels)
    <3>1. n - 1 \in 0 .. N
      BY <1>1
    <3>2. <<n, f[n - 1]>> \in (1 .. N) \X Ring!Ring
      BY <1>3, <3>1 DEF Goes
    <3>3. f[n] = Step[<<n, f[n - 1]>>]
      <4> HIDE DEF Step
      <4> QED
        BY <1>3 DEF Goes
    <3> QED
      BY <3>2, <3>3
  <2> DEFINE g == [n \in 0 .. N |->
                     IF n = 0 THEN q
                     ELSE IF n - 1 \in keys
                          THEN Ring!AfterPush(f[n - 1], <<n - 1, levels[n - 1]>>, FALSE)
                     ELSE f[n - 1]]
  <2>2. ASSUME NEW n \in 0 .. N PROVE f[n] = g[n]
    <3>1. g[n] = IF n = 0 THEN q ELSE Pushing(f[n - 1], n, keys, levels)
      BY DEF Pushing
    <3>2. n = 0 \/ n \in 1 .. N
      BY <1>1
    <3> HIDE DEF g, Step
    <3> QED
      BY <1>3, <2>1, <3>1, <3>2 DEF Goes
  <2>3. f \in [0 .. N -> Ring!Ring] /\ g = [n \in 0 .. N |-> g[n]]
    BY <1>3 DEF Goes
  <2>4. f = g
    <3> HIDE DEF g, Step
    <3> QED
      BY <2>2, <2>3
  <2> QED
    BY <2>4
<1>5. Is(after)
  <2> HIDE DEF Is
  <2> QED
    BY <1>4
<1>6. after[0] = q /\ \A n \in 1 .. N : after[n] = Pushing(after[n - 1], n, keys, levels)
  <2> HIDE DEF after
  <2>1. ASSUME NEW n \in 0 .. N
        PROVE  after[n] = IF n = 0 THEN q
                          ELSE IF n - 1 \in keys
                               THEN Ring!AfterPush(after[n - 1], <<n - 1, levels[n - 1]>>, FALSE)
                          ELSE after[n - 1]
    BY <1>5
  <2>2. ASSUME NEW n \in 1 .. N PROVE after[n] = Pushing(after[n - 1], n, keys, levels)
    <3>1. n \in 0 .. N /\ n # 0
      BY <1>1
    <3> QED
      BY <2>1, <3>1 DEF Pushing
  <2>3. after[0] = q
    <3>1. 0 \in 0 .. N
      BY <1>1
    <3> QED
      BY <2>1, <3>1
  <2> QED
    BY <2>2, <2>3
<1> DEFINE S == {n \in 0 .. N : after[n] \in Ring!Ring /\ <<n, after[n]>> \in Good}
<1>7. 0 .. N \subseteq S
  <2> HIDE DEF after
  <2>1. 0 \in S
    BY <1>1, <1>6
  <2>2. ASSUME NEW n \in 0 .. N - 1, n \in S PROVE n + 1 \in S
    <3>1. /\ n + 1 \in 1 .. N /\ (n + 1) - 1 = n
          /\ after[n + 1] = Pushing(after[n], n + 1, keys, levels)
      BY <1>1, <1>6
    <3> QED
      BY <2>2, <3>1, PushingType
  <2> HIDE DEF S
  <2> QED
    BY <1>1, <2>1, <2>2, UpTo
<1>8. Pushed(q, keys, levels) = after[N]
  BY DEF Pushed
<1> HIDE DEF after
<1> QED
  BY <1>1, <1>7, <1>8

\* An edge of one key, if any, into an empty queue: it is all there is.
LEMMA OneEdgeIsQueued ==
    ASSUME Depth > 1, NEW q \in Ring!Ring, Ring!Occupancy(q) = 0,
           NEW keys \in SUBSET Key, NEW levels \in [Key -> {0, 1}],
           \A j, k \in keys : j = k
    PROVE  LET new == Pushed(q, keys, levels)
           IN  /\ keys = {} => Ring!Occupancy(new) = 0
               /\ \A k \in keys : Ring!Occupancy(new) = 1 /\ Ring!Oldest(new) = <<k, levels[k]>>
<1> DEFINE With(r, k) == Ring!Occupancy(r) = 1 /\ Ring!Oldest(r) = <<k, levels[k]>>
           Right(n, r) == /\ (\A k \in keys : k >= n) => r = q
                          /\ \A k \in keys : k < n => With(r, k)
           Good == {nr \in (0 .. Channels) \X Ring!Ring : Right(nr[1], nr[2])}
<1>1. Channels \in Nat /\ keys \subseteq 0 .. Channels - 1
  BY KeysAssumption DEF Key
<1>2. <<0, q>> \in Good
  BY <1>1
<1>3. ASSUME NEW n \in 1 .. Channels, NEW r \in Ring!Ring, <<n - 1, r>> \in Good
      PROVE  <<n, Pushing(r, n, keys, levels)>> \in Good
  <2> DEFINE new == Pushing(r, n, keys, levels)
  <2>1. new \in Ring!Ring
    BY PushingType
  <2>2. Right(n - 1, r)
    BY <1>3
  <2>3. CASE n - 1 \in keys
    <3>1. r = q /\ \A k \in keys : k = n - 1
      BY <1>1, <2>2, <2>3
    <3>2. <<n - 1, levels[n - 1]>> \in Key \X {0, 1}
      BY <2>3
    <3>3. With(new, n - 1)
      BY <2>3, <3>1, <3>2, EmptyTakesEdge DEF Pushing
    <3>4. Right(n, new)
      <4>1. ~ \A k \in keys : k >= n
        BY <1>1, <2>3
      <4>2. ASSUME NEW k \in keys PROVE With(new, k)
        <5>1. k = n - 1
          BY <3>1
        <5> HIDE DEF new, With
        <5> QED
          BY <3>3, <5>1
      <4> HIDE DEF new, With
      <4> QED
        BY <4>1, <4>2
    <3> HIDE DEF With
    <3> QED
      BY <1>1, <2>1, <3>4
  <2>4. CASE n - 1 \notin keys
    <3>1. new = r
      BY <2>4 DEF Pushing
    <3>2. ASSUME NEW k \in keys PROVE (k >= n <=> k >= n - 1) /\ (k < n <=> k < n - 1)
      BY <1>1, <2>4
    <3> HIDE DEF With
    <3>3. Right(n, new)
      <4> HIDE DEF new
      <4> QED
        BY <2>2, <3>1, <3>2
    <3> QED
      BY <1>1, <2>1, <3>3
  <2> QED
    BY <2>3, <2>4
<1>4. <<Channels, Pushed(q, keys, levels)>> \in Good
  <2> HIDE DEF Good
  <2> QED
    BY <1>2, <1>3, PushedLoop
<1>5. Right(Channels, Pushed(q, keys, levels))
  BY <1>4
<1> QED
  BY <1>1, <1>5

-----------------------------------------------------------------------------
(***************************************************************************)
(* The keys.  KeysInv is inductive whatever the lines do; Told, what the   *)
(* button layer knows or will know, needs a calm board.                    *)
(***************************************************************************)
KeysTyped ==
    /\ db \in [Key -> Debouncer]
    /\ queue \in Ring!Ring
    /\ ch \in [Key -> Channel]
    /\ scanning \in BOOLEAN
    /\ steady \in [Key -> Count]
    /\ held \in [Key -> 0 .. LongPress]

KeysInv ==
    /\ KeysTyped
    /\ \A k \in Key : Settling(db[k], steady[k])
    /\ \A k \in Key : Holding(ch[k], held[k])

LEMMA KeysInitInv == ASSUME KeysInit PROVE KeysInv
<1>1. queue \in Ring!Ring
  <2>1. <<0, 1>> \in Key \X {0, 1}
    BY KeysAssumption DEF Key
  <2>2. LET rb == [wr |-> 0, rd |-> 0, buf |-> [s \in R!Slot |-> <<0, 1>>]]
        IN  rb \in R!Ring
    BY <2>1, KeyDepthFits, R!FreshRing
  <2> QED
    BY <2>2, SameKeyRing DEF KeysInit
<1>2. ASSUME NEW k \in Key
      PROVE  /\ db[k] \in Debouncer /\ ch[k] \in Channel /\ steady[k] \in Count
             /\ held[k] \in 0 .. LongPress
             /\ Settling(db[k], steady[k]) /\ Holding(ch[k], held[k])
  BY KeysAssumption DEF KeysInit, Debouncer, Channel, Count, Settling, Holding
<1>3. KeysTyped
  <2>1. /\ db \in [Key -> Debouncer] /\ ch \in [Key -> Channel]
        /\ steady \in [Key -> Count] /\ held \in [Key -> 0 .. LongPress]
        /\ scanning \in BOOLEAN
    BY <1>2 DEF KeysInit
  <2> QED
    BY <1>1, <2>1 DEF KeysTyped
<1> QED
  BY <1>2, <1>3 DEF KeysInv

\* Whether a step takes its samples or not, the debouncers stay right, and
\* change their minds when they have to.
Debouncing ==
    /\ db' \in [Key -> Debouncer] /\ steady' \in [Key -> Count]
    /\ \A k \in Key :
          /\ Settling(db'[k], steady'[k])
          /\ db'[k].stable # db[k].stable
             <=> steady'[k].level # db[k].stable /\ steady'[k].n >= Samples

LEMMA PollDebounces == ASSUME KeysInv, PollLines PROVE Debouncing /\ queue' \in Ring!Ring
<1>1. PICK lines \in [Key -> {0, 1}] :
         /\ db' = [k \in Key |-> Sampled(db[k], lines[k])]
         /\ steady' = [k \in Key |-> Steadied(steady[k], lines[k])]
         /\ queue' = Pushed(queue, Edges(db, db'), [k \in Key |-> EdgeLevel(db, db', k)])
  BY DEF PollLines
<1>2. ASSUME NEW k \in Key
      PROVE  /\ db'[k] \in Debouncer /\ steady'[k] \in Count
             /\ Settling(db'[k], steady'[k])
             /\ db'[k].stable # db[k].stable
                <=> steady'[k].level # db[k].stable /\ steady'[k].n >= Samples
  <2>1. db[k] \in Debouncer /\ steady[k] \in Count /\ Settling(db[k], steady[k])
    BY DEF KeysInv, KeysTyped
  <2>2. db'[k] = Sampled(db[k], lines[k]) /\ steady'[k] = Steadied(steady[k], lines[k])
    BY <1>1
  <2> QED
    BY <2>1, <2>2, SampleSettles
<1>3. db' \in [Key -> Debouncer] /\ steady' \in [Key -> Count]
  <2>1. /\ db' = [k \in Key |-> db'[k]]
        /\ steady' = [k \in Key |-> steady'[k]]
    BY <1>1
  <2> QED
    BY <1>2, <2>1
<1>4. queue' \in Ring!Ring
  <2> DEFINE levels == [k \in Key |-> EdgeLevel(db, db', k)]
             Good == (0 .. Channels) \X Ring!Ring
  <2>1. queue \in Ring!Ring /\ Edges(db, db') \in SUBSET Key
    BY DEF KeysInv, KeysTyped, Edges
  <2>2. levels \in [Key -> {0, 1}]
    BY <1>2 DEF EdgeLevel, Debouncer
  <2>3. <<0, queue>> \in Good
    BY <2>1, KeysAssumption
  <2>4. ASSUME NEW n \in 1 .. Channels, NEW r \in Ring!Ring
        PROVE  <<n, Pushing(r, n, Edges(db, db'), levels)>> \in Good
    <3> HIDE DEF levels
    <3> QED
      BY <2>1, <2>2, PushingType
  <2> HIDE DEF Good, levels
  <2>5. Pushed(queue, Edges(db, db'), levels) \in Ring!Ring
    BY <2>1, <2>2, <2>3, <2>4, PushedLoop
  <2> QED
    BY <1>1, <2>5 DEF levels
<1> QED
  BY <1>2, <1>3, <1>4 DEF Debouncing

LEMMA UntouchedDebounces ==
    ASSUME KeysInv, UNCHANGED <<db, steady>>
    PROVE  Debouncing
<1> SUFFICES ASSUME NEW k \in Key
             PROVE  ~ (steady[k].level # db[k].stable /\ steady[k].n >= Samples)
  BY DEF KeysInv, KeysTyped, Debouncing
<1>1. steady[k] \in Count /\ Settling(db[k], steady[k])
  BY DEF KeysInv, KeysTyped
<1> QED
  BY <1>1, KeysAssumption DEF Settling, Count

LEMMA EdgeTakenType ==
    ASSUME NEW c \in Channel, NEW level \in {0, 1}
    PROVE  /\ EdgeTaken(c, level) \in Channel
           /\ EdgeTaken(c, level).pressed <=> level = 0
           /\ Holding(EdgeTaken(c, level), 0)
<1>1. 0 \in 0 .. HoldWord - 1
  BY KeysAssumption
<1> QED
  BY <1>1 DEF EdgeTaken, Channel, Holding

\* An edge taken from the queue is that of a key, with a level.
LEMMA QueuedEdge ==
    ASSUME KeysTyped
    PROVE  /\ Ring!Oldest(queue) \in Key \X {0, 1}
           /\ Ring!AfterPop(queue) \in Ring!Ring
<1>1. queue \in R!Ring /\ <<0, 1>> \in Key \X {0, 1}
  BY SameKeyRing, KeysAssumption DEF Key, KeysTyped
<1> QED
  BY <1>1, SameKeyRing, KeyDepthFits, R!RingTypes

LEMMA KeysStepInv == ASSUME KeysInv, [KeysNext]_keyVars PROVE KeysInv' /\ Debouncing
<1> USE DEF KeysTyped
<1>1. CASE Tick
  <2>1. /\ \A k \in Key : ch'[k] = Held(ch[k])
        /\ \A k \in Key : held'[k] = IF ch[k].pressed /\ held[k] < LongPress THEN held[k] + 1 ELSE held[k]
        /\ ch' = [k \in Key |-> ch'[k]] /\ held' = [k \in Key |-> held'[k]]
        /\ UNCHANGED scanning
        /\ PollLines \/ UNCHANGED <<db, steady, queue>>
    BY <1>1 DEF Tick
  <2>2. Debouncing /\ queue' \in Ring!Ring
    BY <2>1, PollDebounces, UntouchedDebounces DEF KeysInv
  <2>3. ASSUME NEW k \in Key
        PROVE  ch'[k] \in Channel /\ held'[k] \in 0 .. LongPress /\ Holding(ch'[k], held'[k])
    <3>1. ch[k] \in Channel /\ held[k] \in 0 .. LongPress /\ Holding(ch[k], held[k])
      BY DEF KeysInv
    <3> QED
      BY <2>1, <3>1, HeldHolds
  <2>4. ch' \in [Key -> Channel] /\ held' \in [Key -> 0 .. LongPress]
    BY <2>1, <2>3
  <2>5. scanning' \in BOOLEAN
    BY <2>1 DEF KeysInv
  <2> QED
    BY <2>2, <2>3, <2>4, <2>5 DEF KeysInv, Debouncing
<1>2. CASE ScanNext
  <2> DEFINE k == Ring!Oldest(queue)[1]
             l == Ring!Oldest(queue)[2]
  <2>1. /\ queue' = Ring!AfterPop(queue)
        /\ ch' = [ch EXCEPT ![k] = EdgeTaken(ch[k], l)]
        /\ held' = [held EXCEPT ![k] = 0]
        /\ scanning' = TRUE
        /\ UNCHANGED <<db, steady>>
    BY <1>2 DEF ScanNext
  <2>2. k \in Key /\ l \in {0, 1} /\ queue' \in Ring!Ring
    BY <2>1, QueuedEdge DEF KeysInv
  <2>3. Debouncing
    BY <2>1, UntouchedDebounces
  <2> HIDE DEF k, l
  <2>4. /\ EdgeTaken(ch[k], l) \in Channel /\ Holding(EdgeTaken(ch[k], l), 0)
        /\ 0 \in 0 .. LongPress
    BY <2>2, EdgeTakenType, KeysAssumption DEF KeysInv
  <2>5. ch' \in [Key -> Channel] /\ held' \in [Key -> 0 .. LongPress]
    BY <2>1, <2>4 DEF KeysInv
  <2>6. ASSUME NEW j \in Key PROVE Holding(ch'[j], held'[j])
    <3>1. CASE j = k
      BY <2>1, <2>4, <3>1 DEF KeysInv
    <3>2. CASE j # k
      BY <2>1, <3>2 DEF KeysInv
    <3> QED
      BY <3>1, <3>2
  <2> QED
    BY <2>1, <2>2, <2>3, <2>5, <2>6 DEF KeysInv, Debouncing
<1>3. CASE ScanDone
  <2>1. scanning' = FALSE /\ UNCHANGED <<db, queue, ch, steady, held>>
    BY <1>3 DEF ScanDone
  <2> QED
    BY <2>1, UntouchedDebounces DEF KeysInv
<1>4. CASE IsLongpress
  <2>1. PICK k \in Key : /\ ch[k].pressed /\ ch[k].holdCnt >= LongPress
                         /\ ch' = [ch EXCEPT ![k] = [ch[k] EXCEPT !.fired = TRUE]]
    BY <1>4 DEF IsLongpress
  <2>2. UNCHANGED <<db, queue, scanning, steady, held>>
    BY <1>4 DEF IsLongpress
  <2>3. ch[k] \in Channel /\ held[k] \in 0 .. LongPress /\ Holding(ch[k], held[k])
    BY DEF KeysInv
  <2> DEFINE fired == [ch[k] EXCEPT !.fired = TRUE]
  <2>4. fired \in Channel /\ held[k] = LongPress
    <3>1. fired \in Channel
      BY <2>3 DEF Channel
    <3>2. held[k] = LongPress
      <4>1. /\ ch[k].holdCnt \in Int /\ held[k] \in Int /\ held[k] <= LongPress /\ LongPress \in Int
            /\ held[k] = LongPress \/ held[k] = ch[k].holdCnt
        BY <2>1, <2>3, KeysAssumption DEF Channel, Holding
      <4> QED
        BY <2>1, <4>1
    <3> QED
      BY <3>1, <3>2
  <2> HIDE DEF fired
  <2>5. ch' \in [Key -> Channel]
    BY <2>1, <2>4 DEF KeysInv, fired
  <2>6. ASSUME NEW j \in Key PROVE Holding(ch'[j], held'[j])
    <3>1. CASE j = k
      <4>1. ch'[k] = fired /\ held'[k] = LongPress
        BY <2>1, <2>2, <2>4 DEF KeysInv, fired
      <4> QED
        BY <3>1, <4>1 DEF Holding
    <3>2. CASE j # k
      BY <2>1, <2>2, <3>2 DEF KeysInv
    <3> QED
      BY <3>1, <3>2
  <2> QED
    BY <2>2, <2>5, <2>6, UntouchedDebounces DEF KeysInv
<1>5. CASE UNCHANGED keyVars
  BY <1>5, UntouchedDebounces DEF keyVars, KeysInv
<1> QED
  BY <1>1, <1>2, <1>3, <1>4, <1>5 DEF KeysNext

\* The debouncers, the queue and the hold counters keep the ranges of their
\* types, the seven-bit count of a debouncer and the 16-bit hold count among
\* them, whatever the lines do (debounce.c, userButton.c).
THEOREM KeysTypeCorrect == KeysSpec => []KeysTypeOK
<1>1. KeysInit => KeysInv
  BY KeysInitInv
<1>2. KeysInv /\ [KeysNext]_keyVars => KeysInv'
  BY KeysStepInv
<1>3. KeysInv => KeysTypeOK
  BY DEF KeysInv, KeysTyped, KeysTypeOK, Debouncer, Count, Channel
<1> QED
  BY <1>1, <1>2, <1>3, PTL DEF KeysSpec

\* A debouncer changes its level with exactly the sample that completes Samples
\* samples running of the other level, neither earlier nor later, whatever the
\* line does (debounce_sample).
THEOREM DebouncesExactly == KeysSpec => SettlesExactly
<1>1. KeysInit => KeysInv
  BY KeysInitInv
<1>2. KeysInv /\ [KeysNext]_keyVars
      => KeysInv' /\ [\A k \in Key : db'[k].stable # db[k].stable
                        <=> steady'[k].level # db[k].stable /\ steady'[k].n >= Samples]_keyVars
  BY KeysStepInv DEF Debouncing
<1> QED
  BY <1>1, <1>2, PTL DEF KeysSpec, SettlesExactly

\* A long press is reported only for a key that has been down for LongPress
\* ticks of this very press, although the count that decides it wraps at
\* HoldWord and the flag that it was reported outlives the press (button_tick,
\* button_isLongpress).
THEOREM LongpressIsEarned == KeysSpec => []LongpressEarned
<1>1. KeysInit => KeysInv
  BY KeysInitInv
<1>2. KeysInv /\ [KeysNext]_keyVars => KeysInv'
  BY KeysStepInv
<1>3. KeysInv => LongpressEarned
  BY DEF KeysInv, Holding, LongpressEarned
<1> QED
  BY <1>1, <1>2, <1>3, PTL DEF KeysSpec

-----------------------------------------------------------------------------
\* On a calm board no more than one edge waits, and it is the last thing to know.
Told ==
    /\ KeysInv
    /\ Ring!Occupancy(queue) \in {0, 1}
    /\ \A k \in Key :
          db[k].stable = IF Ring!Occupancy(queue) = 1 /\ Ring!Oldest(queue)[1] = k
                         THEN Ring!Oldest(queue)[2]
                         ELSE IF ch[k].pressed THEN 0 ELSE 1

\* With an item to spare, the count of the button queue tells whether it is empty.
LEMMA EmptyIsSeen ==
    ASSUME Depth > 1, KeysTyped, Ring!Occupancy(queue) \in {0, 1}
    PROVE  /\ Ring!SeemsEmpty(queue) <=> Ring!Occupancy(queue) = 0
           /\ ~Ring!SeemsEmpty(queue) => Ring!Occupancy(Ring!AfterPop(queue)) = 0
<1>1. queue \in R!Ring /\ R!Occupancy(queue) < Depth /\ R!Occupancy(queue) \in {0, 1}
  BY SameKeyRing, KeysAssumption DEF KeysTyped
<1>2. /\ R!SeemsEmpty(queue) <=> R!Contents(queue) = << >>
      /\ ~R!SeemsEmpty(queue) => R!Occupancy(R!AfterPop(queue)) = R!Occupancy(queue) - 1
  BY <1>1, KeyDepthFits, R!PopTakesHead
<1>3. R!Occupancy(queue) = 0 <=> R!Contents(queue) = << >>
  BY <1>1, KeyDepthFits, R!EmptyContents
<1>4. ~R!SeemsEmpty(queue) => R!Occupancy(R!AfterPop(queue)) = 0
  BY <1>1, <1>2, <1>3
<1> QED
  BY <1>2, <1>3, <1>4, SameKeyRing

LEMMA InitTold == ASSUME KeysInit PROVE Told
<1>1. Ring!Occupancy(queue) = 0
  BY DEF KeysInit, Ring!Occupancy
<1>2. \A k \in Key : db[k].stable = 1 /\ ~ch[k].pressed
  BY DEF KeysInit
<1> QED
  BY <1>1, <1>2, KeysInitInv DEF Told

LEMMA StepTold == ASSUME Calm, Depth > 1, Told, [KeysNext]_keyVars PROVE Told'
<1> DEFINE At(q, b, c, k) ==
             b[k].stable = IF Ring!Occupancy(q) = 1 /\ Ring!Oldest(q)[1] = k
                           THEN Ring!Oldest(q)[2]
                           ELSE IF c[k].pressed THEN 0 ELSE 1
<1>1. KeysInv /\ KeysInv'
  BY KeysStepInv DEF Told
<1>2. /\ Ring!Occupancy(queue) \in {0, 1}
      /\ \A k \in Key : At(queue, db, ch, k)
  BY DEF Told
<1> SUFFICES /\ Ring!Occupancy(queue') \in {0, 1}
             /\ \A k \in Key : At(queue', db', ch', k)
  BY <1>1 DEF Told
<1>3. CASE Tick /\ PollLines
  <2>1. /\ Ring!SeemsEmpty(queue) /\ \A j, k \in Edges(db, db') : j = k
        /\ queue' = Pushed(queue, Edges(db, db'), [k \in Key |-> EdgeLevel(db, db', k)])
    BY <1>3 DEF PollLines
  <2>2. queue \in Ring!Ring /\ Ring!Occupancy(queue) = 0
    BY <1>1, <1>2, <2>1, EmptyIsSeen DEF KeysInv, KeysTyped
  <2>3. \A k \in Key : ch'[k].pressed <=> ch[k].pressed
    <3>1. ASSUME NEW k \in Key PROVE Held(ch[k]).pressed <=> ch[k].pressed
      BY <1>1 DEF KeysInv, KeysTyped, Channel, Held
    <3> QED
      BY <1>3, <3>1 DEF Tick
  <2>4. db' \in [Key -> Debouncer]
    BY <1>1 DEF KeysInv, KeysTyped
  <2> DEFINE levels == [k \in Key |-> EdgeLevel(db, db', k)]
  <2>5. /\ levels \in [Key -> {0, 1}] /\ Edges(db, db') \in SUBSET Key
        /\ \A k \in Key : levels[k] = db'[k].stable
    BY <2>4 DEF EdgeLevel, Debouncer, Edges
  <2> HIDE DEF levels
  <2>6. /\ Edges(db, db') = {} => Ring!Occupancy(queue') = 0
        /\ \A k \in Edges(db, db') :
              Ring!Occupancy(queue') = 1 /\ Ring!Oldest(queue') = <<k, levels[k]>>
    BY <2>1, <2>2, <2>5, OneEdgeIsQueued DEF levels
  <2>7. ASSUME NEW j \in Edges(db, db')
        PROVE  /\ Ring!Occupancy(queue') = 1
               /\ \A k \in Key : At(queue', db', ch', k)
    <3>1. /\ Ring!Occupancy(queue') = 1
          /\ Ring!Oldest(queue')[1] = j /\ Ring!Oldest(queue')[2] = db'[j].stable
      BY <2>5, <2>6, <2>7
    <3>2. ASSUME NEW k \in Key, k # j PROVE db'[k].stable = db[k].stable
      BY <2>1, <2>7, <3>2 DEF Edges
    <3> QED
      BY <1>2, <2>2, <2>3, <3>1, <3>2
  <2>8. ASSUME Edges(db, db') = {}
        PROVE  /\ Ring!Occupancy(queue') = 0
               /\ \A k \in Key : At(queue', db', ch', k)
    <3>1. \A k \in Key : db'[k].stable = db[k].stable
      BY <2>8 DEF Edges
    <3>2. Ring!Occupancy(queue') = 0
      BY <2>6, <2>8
    <3> QED
      BY <1>2, <2>2, <2>3, <3>1, <3>2
  <2> QED
    BY <2>7, <2>8
<1>4. CASE Tick /\ UNCHANGED <<db, steady, queue>>
  <2>1. ASSUME NEW k \in Key PROVE ch'[k].pressed <=> ch[k].pressed
    <3>1. Held(ch[k]).pressed <=> ch[k].pressed
      BY <1>1 DEF KeysInv, KeysTyped, Channel, Held
    <3> QED
      BY <1>4, <3>1 DEF Tick
  <2> QED
    BY <1>2, <1>4, <2>1
<1>5. CASE ScanNext
  <2> DEFINE j == Ring!Oldest(queue)[1]
             l == Ring!Oldest(queue)[2]
  <2>1. /\ ~Ring!SeemsEmpty(queue)
        /\ queue' = Ring!AfterPop(queue)
        /\ ch' = [ch EXCEPT ![j] = EdgeTaken(ch[j], l)]
        /\ UNCHANGED <<db, steady>>
    BY <1>5 DEF ScanNext
  <2>2. Ring!Occupancy(queue) = 1 /\ Ring!Occupancy(queue') = 0
    BY <1>1, <1>2, <2>1, EmptyIsSeen DEF KeysInv
  <2>3. j \in Key /\ l \in {0, 1} /\ ch[j] \in Channel
    BY <1>1, QueuedEdge DEF KeysInv, KeysTyped
  <2>4. EdgeTaken(ch[j], l).pressed <=> l = 0
    BY <2>3, EdgeTakenType
  <2> HIDE DEF l
  <2>5. db'[j].stable = l /\ (ch'[j].pressed <=> l = 0)
    BY <1>1, <1>2, <2>1, <2>2, <2>3, <2>4 DEF l, KeysInv, KeysTyped
  <2> HIDE DEF j
  <2>6. ASSUME NEW k \in Key, k # j PROVE ch'[k] = ch[k] /\ db'[k].stable = IF ch[k].pressed THEN 0 ELSE 1
    BY <1>1, <1>2, <2>1, <2>6 DEF KeysInv, KeysTyped, j
  <2> QED
    BY <2>2, <2>3, <2>5, <2>6
<1>6. CASE ScanDone
  BY <1>2, <1>6 DEF ScanDone
<1>7. CASE IsLongpress
  <2>1. ASSUME NEW k \in Key PROVE ch'[k].pressed <=> ch[k].pressed
    <3>1. PICK j \in Key : ch' = [ch EXCEPT ![j] = [ch[j] EXCEPT !.fired = TRUE]]
      BY <1>7 DEF IsLongpress
    <3>2. ch \in [Key -> Channel] /\ [ch[j] EXCEPT !.fired = TRUE].pressed = ch[j].pressed
      BY <1>1 DEF KeysInv, KeysTyped, Channel
    <3> QED
      BY <3>1, <3>2
  <2> QED
    BY <1>2, <1>7, <2>1 DEF IsLongpress
<1>8. CASE UNCHANGED keyVars
  BY <1>2, <1>8 DEF keyVars
<1> QED
  BY <1>3, <1>4, <1>5, <1>6, <1>7, <1>8 DEF KeysNext, Tick

LEMMA ToldKnows == ASSUME Depth > 1, Told PROVE KnowsLevel
<1> SUFFICES ASSUME NEW k \in Key
             PROVE  LET edges == Ring!Contents(queue)
                        mine  == {i \in 1 .. Ring!Occupancy(queue) : edges[i][1] = k}
                    IN  db[k].stable = IF mine # {} THEN edges[Max(mine)][2]
                                       ELSE IF ch[k].pressed THEN 0 ELSE 1
  BY DEF KnowsLevel
<1> DEFINE edges == Ring!Contents(queue)
           mine  == {i \in 1 .. Ring!Occupancy(queue) : edges[i][1] = k}
<1>1. /\ Ring!Occupancy(queue) \in {0, 1} /\ KeysTyped
      /\ db[k].stable = IF Ring!Occupancy(queue) = 1 /\ Ring!Oldest(queue)[1] = k
                        THEN Ring!Oldest(queue)[2]
                        ELSE IF ch[k].pressed THEN 0 ELSE 1
  BY DEF Told, KeysInv
<1>2. CASE Ring!Occupancy(queue) = 0
  <2>1. mine = {}
    BY <1>2
  <2> HIDE DEF mine
  <2> QED
    BY <1>1, <1>2, <2>1
<1>3. CASE Ring!Occupancy(queue) = 1
  <2>1. Ring!Oldest(queue) = edges[1]
    <3>1. queue \in R!Ring /\ R!Occupancy(queue) = 1 /\ R!Occupancy(queue) < Depth
      BY <1>1, <1>3, SameKeyRing, KeysAssumption DEF KeysTyped
    <3>2. R!Contents(queue) \in Seq(Key \X {0, 1}) /\ Len(R!Contents(queue)) = 1
      BY <3>1, KeyDepthFits, R!ContentsSeq
    <3>3. R!Contents(queue) # << >> /\ Head(R!Contents(queue)) = R!Contents(queue)[1]
      <4> DEFINE c == R!Contents(queue)
      <4>1. c \in Seq(Key \X {0, 1}) /\ Len(c) = 1
        BY <3>2
      <4> HIDE DEF c
      <4>2. c # << >> /\ Head(c) = c[1]
        BY <4>1, EmptySeq, HeadTailProperties
      <4> QED
        BY <4>2 DEF c
    <3>4. R!Oldest(queue) = Head(R!Contents(queue))
      BY <3>1, <3>3, KeyDepthFits, R!PopTakesHead
    <3> QED
      BY <3>3, <3>4, SameKeyRing
  <2>2. mine = IF edges[1][1] = k THEN {1} ELSE {}
    <3> HIDE DEF edges
    <3> QED
      BY <1>3
  <2>3. Max({1}) = 1
    BY DEF Max
  <2> HIDE DEF mine, edges
  <2> QED
    BY <1>1, <1>3, <2>1, <2>2, <2>3 DEF mine, edges
<1> QED
  BY <1>1, <1>2, <1>3

\* On a calm board with room for two edges or more, the last level the button
\* layer knows of a key, or will know when it has taken what is queued, is the
\* debounced one: no edge is lost, doubled or overtaken, although the queue's own
\* count refuses a second edge once its indices have wrapped (board_bus_poll,
\* button_push, button_poll).
THEOREM LevelsAreKnown ==
    ASSUME Calm, Depth > 1
    PROVE  KeysSpec => []KnowsLevel
<1>1. KeysInit => Told
  BY InitTold
<1>2. Told /\ [KeysNext]_keyVars => Told'
  BY StepTold
<1>3. Told => KnowsLevel
  BY ToldKnows
<1> QED
  BY <1>1, <1>2, <1>3, PTL DEF KeysSpec

-----------------------------------------------------------------------------
(***************************************************************************)
(* The ports.  What gpioConfigure of one pin does to its two mode bits, and *)
(* what it leaves alone.                                                   *)
(***************************************************************************)
Pin      == (0 .. 3) \X Bit
Regs == [Port -> [Reg -> SUBSET Bit]]

M1(regs, pin) == pin[2] \in regs[pin[1]]["M1"]
M0(regs, pin) == pin[2] \in regs[pin[1]]["M0"]

HighZ(regs, pin) == M1(regs, pin) /\ ~M0(regs, pin)

SameMode(regs, new, pin) ==
    (M1(new, pin) <=> M1(regs, pin)) /\ (M0(new, pin) <=> M0(regs, pin))

LEMMA PinConfigured ==
    ASSUME NEW regs \in Regs, NEW pin \in Pin, NEW mode \in {PUSH_PULL, HIGH_IMPEDANCE}
    PROVE  LET new == Configured(regs, IoToCfg(pin, mode))
           IN  /\ new \in Regs
               /\ M1(new, pin) <=> mode = HIGH_IMPEDANCE
               /\ M0(new, pin) <=> mode = PUSH_PULL
               /\ \A other \in Pin : other # pin => SameMode(regs, new, other)
<1> DEFINE cfg  == IoToCfg(pin, mode)
           mine == Merged(PortRegs(regs, cfg), cfg)
           new  == Configured(regs, cfg)
<1>1. /\ cfg.port = pin[1] /\ cfg.pins = {pin[2]} /\ cfg.mode = mode /\ cfg.options = {}
      /\ pin[1] \in 0 .. 3 /\ pin[2] \in Bit
      /\ pin[1] \in Port /\ pin[1] \in LowPort /\ pin[1] \notin HighPort
  BY BoardAssumption DEF Pin, IoToCfg, LowPort, HighPort
<1>2. PortRegs(regs, cfg) = regs[pin[1]]
  <2> DEFINE old == regs[pin[1]]
  <2>1. old \in [Reg -> SUBSET Bit]
    BY <1>1 DEF Regs
  <2>2. LowRegs(regs, cfg) = old /\ HighRegs(regs, cfg) = [r \in Reg |-> {}]
    BY <1>1 DEF LowRegs, HighRegs
  <2> HIDE DEF old, cfg
  <2>3. PortRegs(regs, cfg) = [r \in Reg |-> old[r]]
    BY <2>2 DEF PortRegs
  <2> QED
    BY <2>1, <2>3 DEF old
<1>3. new = [regs EXCEPT ![pin[1]] = mine]
  <2> HIDE DEF cfg, mine
  <2> QED
    BY <1>1 DEF Configured, SetLow, SetHigh, mine
<1>4. /\ mine \in [Reg -> SUBSET Bit]
      /\ mine["M1"] = IF mode = HIGH_IMPEDANCE THEN regs[pin[1]]["M1"] \cup {pin[2]}
                                              ELSE regs[pin[1]]["M1"] \ {pin[2]}
      /\ mine["M0"] = IF mode = PUSH_PULL THEN regs[pin[1]]["M0"] \cup {pin[2]}
                                         ELSE regs[pin[1]]["M0"] \ {pin[2]}
  <2> DEFINE old == regs[pin[1]]
             Set(r) == SetBits(old[r], r \in Wanted(cfg), cfg)
  <2>1. old \in [Reg -> SUBSET Bit]
    BY <1>1 DEF Regs
  <2>2. /\ "M1" \in Wanted(cfg) <=> mode = HIGH_IMPEDANCE
        /\ "M0" \in Wanted(cfg) <=> mode = PUSH_PULL
    <3> HIDE DEF cfg
    <3> QED
      BY <1>1 DEF Wanted, BIDIRECTIONAL, PUSH_PULL, HIGH_IMPEDANCE, OPEN_DRAIN
  <2>3. \A r : Set(r) = IF r \in Wanted(cfg) THEN old[r] \cup {pin[2]} ELSE old[r] \ {pin[2]}
    <3> HIDE DEF cfg
    <3> QED
      BY <1>1 DEF SetBits
  <2>4. "M1" \in Reg /\ "M0" \in Reg /\ "M1" \in ModeRegs /\ "M0" \in ModeRegs
    BY DEF Reg, ModeRegs
  <2>5. mine = [r \in Reg |->
                  IF r \in ModeRegs \/ (r \in InputRegs /\ IsInput(cfg)) \/ (r \in OutputRegs /\ IsOutput(cfg))
                  THEN Set(r) ELSE old[r]]
    BY <1>2 DEF Merged
  <2>6. \A r \in Reg : Set(r) \in SUBSET Bit /\ old[r] \in SUBSET Bit
    BY <1>1, <2>1, <2>3
  <2> HIDE DEF cfg, mine, Set, old
  <2>7. mine \in [Reg -> SUBSET Bit]
    BY <2>5, <2>6
  <2>8. mine["M1"] = Set("M1") /\ mine["M0"] = Set("M0")
    BY <2>4, <2>5
  <2> QED
    BY <2>2, <2>3, <2>7, <2>8 DEF old
<1> HIDE DEF mine, new, cfg
<1>5. new \in Regs
  BY <1>1, <1>3, <1>4 DEF Regs
<1>6. new[pin[1]] = mine /\ \A q \in Port : q # pin[1] => new[q] = regs[q]
  BY <1>1, <1>3 DEF Regs
<1>7. (M1(new, pin) <=> mode = HIGH_IMPEDANCE) /\ (M0(new, pin) <=> mode = PUSH_PULL)
  BY <1>4, <1>6 DEF M1, M0
<1>8. ASSUME NEW other \in Pin, other # pin PROVE SameMode(regs, new, other)
  <2>1. other[1] \in Port /\ (other[1] # pin[1] \/ other[2] # pin[2])
    BY <1>8, BoardAssumption DEF Pin
  <2>2. CASE other[1] # pin[1]
    BY <1>6, <2>1, <2>2 DEF SameMode, M1, M0
  <2>3. CASE other[1] = pin[1] /\ other[2] # pin[2]
    BY <1>4, <1>6, <2>3 DEF SameMode, M1, M0
  <2> QED
    BY <2>1, <2>2, <2>3
<1> QED
  BY <1>5, <1>7, <1>8 DEF new, cfg

\* What gpioConfigure of the first n pins as floating inputs has done
Floating(regs, pins, n, new) ==
    /\ new \in Regs
    /\ \A j \in 1 .. n : HighZ(new, pins[j])
    /\ \A other \in Pin : HighZ(regs, other) => HighZ(new, other)
    /\ \A other \in Pin : (\A j \in 1 .. n : pins[j] # other) => SameMode(regs, new, other)

LEMMA AllFloating ==
    ASSUME NEW regs \in Regs, NEW pins \in Seq(Pin)
    PROVE  Floating(regs, pins, Len(pins), ConfiguredAll(regs, pins, HIGH_IMPEDANCE))
<1> DEFINE N == Len(pins)
           Conf(r, n) == Configured(r, IoToCfg(pins[n], HIGH_IMPEDANCE))
           Step == [nr \in (1 .. N) \X Regs |-> Conf(nr[2], nr[1])]
           Is(f) == f = [n \in 0 .. N |->
                           IF n = 0 THEN regs ELSE Configured(f[n - 1], IoToCfg(pins[n], HIGH_IMPEDANCE))]
           after == CHOOSE f : Is(f)
<1>1. N \in Nat /\ \A n \in 1 .. N : pins[n] \in Pin
  OBVIOUS
<1>2. ASSUME NEW r \in Regs, NEW n \in 1 .. N
      PROVE  /\ Conf(r, n) \in Regs /\ HighZ(Conf(r, n), pins[n])
             /\ \A other \in Pin : other # pins[n] => SameMode(r, Conf(r, n), other)
  <2> DEFINE pin == pins[n]
             new == Configured(r, IoToCfg(pin, HIGH_IMPEDANCE))
  <2>1. pin \in Pin /\ HIGH_IMPEDANCE \in {PUSH_PULL, HIGH_IMPEDANCE} /\ HIGH_IMPEDANCE # PUSH_PULL
    BY <1>1 DEF PUSH_PULL, HIGH_IMPEDANCE
  <2> HIDE DEF pin
  <2>2. /\ new \in Regs
        /\ M1(new, pin) <=> HIGH_IMPEDANCE = HIGH_IMPEDANCE
        /\ M0(new, pin) <=> HIGH_IMPEDANCE = PUSH_PULL
        /\ \A other \in Pin : other # pin => SameMode(r, new, other)
    BY <2>1, PinConfigured
  <2> QED
    BY <2>1, <2>2 DEF HighZ, pin
<1>3. Step \in [(1 .. N) \X Regs -> Regs]
  BY <1>2
<1>4. PICK f : Goes(f, N, Regs, regs, Step)
  <2> HIDE DEF Step
  <2> QED
    BY <1>1, <1>3, RecursionDefines
<1>5. Is(f)
  <2>1. ASSUME NEW n \in 1 .. N PROVE f[n] = Conf(f[n - 1], n)
    <3>1. n - 1 \in 0 .. N
      BY <1>1
    <3>2. <<n, f[n - 1]>> \in (1 .. N) \X Regs
      BY <1>4, <3>1 DEF Goes
    <3>3. f[n] = Step[<<n, f[n - 1]>>]
      <4> HIDE DEF Step
      <4> QED
        BY <1>4 DEF Goes
    <3> QED
      BY <3>2, <3>3
  <2> DEFINE g == [n \in 0 .. N |->
                     IF n = 0 THEN regs ELSE Configured(f[n - 1], IoToCfg(pins[n], HIGH_IMPEDANCE))]
  <2>2. ASSUME NEW n \in 0 .. N PROVE f[n] = g[n]
    <3>1. g[n] = IF n = 0 THEN regs ELSE Conf(f[n - 1], n)
      OBVIOUS
    <3>2. n = 0 \/ n \in 1 .. N
      BY <1>1
    <3> HIDE DEF g, Step
    <3> QED
      BY <1>4, <2>1, <3>1, <3>2 DEF Goes
  <2>3. f \in [0 .. N -> Regs] /\ g = [n \in 0 .. N |-> g[n]]
    BY <1>4 DEF Goes
  <2>4. f = g
    <3> HIDE DEF g, Step
    <3> QED
      BY <2>2, <2>3
  <2> QED
    BY <2>4
<1>6. Is(after)
  <2> HIDE DEF Is
  <2> QED
    BY <1>5
<1>7. after[0] = regs /\ \A n \in 1 .. N : after[n] = Conf(after[n - 1], n)
  <2> HIDE DEF after
  <2> QED
    BY <1>1, <1>6
<1> DEFINE S == {n \in 0 .. N : Floating(regs, pins, n, after[n])}
<1>8. 0 .. N \subseteq S
  <2> HIDE DEF after
  <2>1. 0 \in S
    BY <1>1, <1>7 DEF Floating, SameMode
  <2>2. ASSUME NEW n \in 0 .. N - 1, n \in S PROVE n + 1 \in S
    <3>1. n + 1 \in 1 .. N /\ (n + 1) - 1 = n
      BY <1>1
    <3> DEFINE old == after[n]
               new == after[n + 1]
               pin == pins[n + 1]
    <3>2. new = Conf(old, n + 1)
      BY <1>7, <3>1
    <3>3. Floating(regs, pins, n, old)
      BY <2>2
    <3> HIDE DEF new, old
    <3>4. /\ new \in Regs /\ HighZ(new, pin)
          /\ \A other \in Pin : other # pin => SameMode(old, new, other)
      BY <1>2, <3>1, <3>2, <3>3 DEF Floating
    <3>5. ASSUME NEW other \in Pin, HighZ(old, other) PROVE HighZ(new, other)
      BY <3>4, <3>5 DEF SameMode, HighZ
    <3>6. ASSUME NEW j \in 1 .. n + 1 PROVE HighZ(new, pins[j])
      <4>1. j \in 1 .. n \/ j = n + 1
        OBVIOUS
      <4>2. pins[j] \in Pin
        BY <1>1, <3>1
      <4> QED
        BY <3>3, <3>4, <3>5, <4>1, <4>2 DEF Floating
    <3>7. ASSUME NEW other \in Pin, \A j \in 1 .. n + 1 : pins[j] # other
          PROVE  SameMode(regs, new, other)
      <4>1. SameMode(regs, old, other)
        BY <3>3, <3>7 DEF Floating
      <4>2. SameMode(old, new, other)
        BY <3>1, <3>4, <3>7
      <4> QED
        BY <4>1, <4>2 DEF SameMode
    <3>8. Floating(regs, pins, n + 1, new)
      BY <3>3, <3>4, <3>5, <3>6, <3>7 DEF Floating
    <3> QED
      BY <3>1, <3>8 DEF new
  <2> HIDE DEF S
  <2> QED
    BY <1>1, <2>1, <2>2, UpTo
<1>9. ConfiguredAll(regs, pins, HIGH_IMPEDANCE) = after[N]
  BY DEF ConfiguredAll
<1> HIDE DEF after
<1> QED
  BY <1>1, <1>8, <1>9

-----------------------------------------------------------------------------
(***************************************************************************)
(* The board.  What is up so far, and what the start-up leaves alone.      *)
(***************************************************************************)
KeyPins == {KeyPin(k) : k \in 0 .. CfgKeys - 1}

BoardTyped ==
    /\ portRegs \in Regs
    /\ portLatch \in [Port -> SUBSET Bit]
    /\ portLow \in [Port -> SUBSET Bit]
    /\ model \in Models
    /\ managed \in BOOLEAN
    /\ bringUp \in {"reset", "bus", "doors", "run", "failed"}
    /\ nextUp \in Nat
    /\ commanded \in [BoardDoor -> {0, 1}]

\* No relay pin ever floats, and its latch holds what was commanded.
RelaysDriven ==
    /\ portLow[2] = {}
    /\ \A d \in BoardDoor :
          ~M1(portRegs, RelayPin(d)) /\ (d \in portLatch[2] <=> commanded[d] = 1)

UartUntouched ==
    \A pin \in UartPins : ~M1(portRegs, pin) /\ ~M0(portRegs, pin) /\ pin[2] \in portLatch[3]

Brought(n) ==
    \A i \in 1 .. n :
        /\ model[i].ok
        /\ \A j \in 1 .. Len(model[i].pins) : HighZ(portRegs, model[i].pins[j])

DoorUp(d) == HighZ(portRegs, DetectPin(d)) /\ HighZ(portRegs, ButtonPin(d))

BroughtUp ==
    /\ bringUp = "reset" => nextUp = 0
    /\ bringUp \in {"bus", "doors", "run"} => managed
    /\ bringUp \in {"bus", "doors", "run"} => Known(model)
    /\ bringUp = "bus" => Brought(nextUp)
    /\ bringUp \in {"doors", "run"} => Brought(Len(model))
    /\ bringUp = "doors" => \A d \in BoardDoor : d < nextUp => DoorUp(d)
    /\ bringUp = "run" => \A d \in BoardDoor : DoorUp(d)

BoardInv == BoardTyped /\ RelaysDriven /\ UartUntouched /\ BroughtUp

LEMMA BoardPins ==
    /\ {0, 1, 2, 3} \subseteq Port
    /\ BoardDoor \subseteq Bit /\ BoardDoor \subseteq Nat
    /\ BoardDoors \in Nat
    /\ \A d \in BoardDoor : /\ DetectPin(d) \in Pin /\ ButtonPin(d) \in Pin /\ RelayPin(d) \in Pin
                            /\ DetectPin(d)[1] = 1 /\ ButtonPin(d)[1] = 0
                            /\ RelayPin(d)[1] = 2 /\ RelayPin(d)[2] = d
    /\ KeyPins \subseteq Pin
    /\ \A pin \in KeyPins : pin[1] = 3 /\ pin[2] > 1
    /\ UartPins \subseteq Pin
    /\ \A pin \in UartPins : pin[1] = 3 /\ pin[2] \in {0, 1}
  BY BoardAssumption
  DEF Bit, BoardDoor, DetectPin, ButtonPin, RelayPin, KeyPin, KeyPins, UartPins, Pin

LEMMA ModelPins ==
    ASSUME NEW m \in Models, NEW i \in 1 .. Len(m)
    PROVE  m[i].pins \in Seq(KeyPins) /\ m[i].pins \in Seq(Pin) /\ m[i].ok \in BOOLEAN
<1>1. m \in Seq(Resource)
  BY BoardAssumption
<1>2. m[i] \in Resource
  BY <1>1
<1>3. m[i].pins \in Seq(KeyPins) /\ m[i].ok \in BOOLEAN
  BY <1>2 DEF Resource, KeyPins
<1> HIDE DEF KeyPins
<1>4. m[i].pins \in Seq(Pin)
  <2> DEFINE pins == m[i].pins
  <2>1. pins \in Seq(KeyPins)
    BY <1>3
  <2> HIDE DEF pins
  <2>2. Len(pins) \in Nat /\ pins \in [1 .. Len(pins) -> KeyPins]
    BY <2>1
  <2>3. pins \in [1 .. Len(pins) -> Pin]
    BY <2>2, BoardPins
  <2> QED
    BY <2>2, <2>3, SeqDef DEF pins
<1> QED
  BY <1>3, <1>4

LEMMA BoardInitInv == ASSUME BoardInit PROVE BoardInv
<1>1. /\ portRegs = [p \in Port |-> [r \in Reg |-> {}]]
      /\ portLatch = [p \in Port |-> Bit]
      /\ portLow = [p \in Port |-> {}]
      /\ model \in Models /\ managed = FALSE /\ bringUp = "reset" /\ nextUp = 0
      /\ commanded = [d \in BoardDoor |-> 1]
  BY DEF BoardInit
<1>2. BoardTyped
  BY <1>1 DEF BoardTyped, Regs
<1>3. \A pin \in Pin : ~M1(portRegs, pin) /\ ~M0(portRegs, pin)
  <2>1. "M1" \in Reg /\ "M0" \in Reg
    BY DEF Reg, ModeRegs
  <2> SUFFICES ASSUME NEW pin \in Pin PROVE ~M1(portRegs, pin) /\ ~M0(portRegs, pin)
    OBVIOUS
  <2>2. pin[1] \in Port
    BY BoardPins DEF Pin
  <2> QED
    BY <1>1, <2>1, <2>2 DEF M1, M0
<1>4. portLatch[2] = Bit /\ portLatch[3] = Bit /\ portLow[2] = {} /\ {0, 1} \subseteq Bit
  BY <1>1, BoardPins DEF Bit
<1>5. RelaysDriven
  BY <1>1, <1>3, <1>4, BoardPins DEF RelaysDriven
<1>6. UartUntouched
  BY <1>3, <1>4, BoardPins DEF UartUntouched
<1> QED
  BY <1>1, <1>2, <1>5, <1>6 DEF BoardInv, BroughtUp

\* Pins that stay floating keep up what is up.
LEMMA StaysUp ==
    ASSUME \A pin \in Pin : HighZ(portRegs, pin) => HighZ(portRegs', pin),
           UNCHANGED model, BoardTyped
    PROVE  /\ \A d \in BoardDoor : DoorUp(d) => DoorUp(d)'
           /\ \A n \in 0 .. Len(model) : Brought(n) => Brought(n)'
<1>1. ASSUME NEW d \in BoardDoor, DoorUp(d) PROVE DoorUp(d)'
  <2>1. DetectPin(d)' = DetectPin(d) /\ ButtonPin(d)' = ButtonPin(d)
    BY DEF DetectPin, ButtonPin
  <2> QED
    BY <1>1, <2>1, BoardPins DEF DoorUp
<1>2. ASSUME NEW n \in 0 .. Len(model), Brought(n) PROVE Brought(n)'
  <2> SUFFICES ASSUME NEW i \in 1 .. n, NEW j \in 1 .. Len(model[i].pins)
               PROVE  model[i].ok /\ HighZ(portRegs', model[i].pins[j])
    <3>1. ASSUME NEW i \in 1 .. n PROVE model[i].ok
      BY <1>2 DEF Brought
    <3> QED
      BY <3>1 DEF Brought
  <2>1. i \in 1 .. Len(model) /\ model \in Models
    BY BoardAssumption DEF BoardTyped
  <2>2. model[i].pins \in Seq(Pin)
    BY <2>1, ModelPins
  <2>3. model[i].pins[j] \in Pin
    BY <2>2
  <2> QED
    BY <1>2, <2>3 DEF Brought
<1> QED
  BY <1>1, <1>2

LEMMA ManagerInitInv == ASSUME BoardInv, ManagerInit PROVE BoardInv'
<1>1. /\ bringUp = "reset" /\ managed' = Known(model)
      /\ bringUp' = IF Known(model) THEN "bus" ELSE "failed"
      /\ UNCHANGED <<portRegs, portLatch, portLow, model, nextUp, commanded>>
  BY DEF ManagerInit
<1>2. BoardTyped'
  BY <1>1 DEF BoardInv, BoardTyped, Known
<1>3. RelaysDriven' /\ UartUntouched'
  BY <1>1 DEF BoardInv, RelaysDriven, UartUntouched, RelayPin, UartPins
<1>4. BroughtUp'
  <2>1. nextUp' = 0 /\ Known(model)' = Known(model)
    BY <1>1 DEF BoardInv, BroughtUp, Known
  <2>2. Brought(nextUp)'
    BY <2>1 DEF Brought
  <2> HIDE DEF Known
  <2> QED
    BY <1>1, <2>1, <2>2 DEF BroughtUp
<1> QED
  BY <1>2, <1>3, <1>4 DEF BoardInv

LEMMA AllocateInv == ASSUME BoardInv, Allocate PROVE BoardInv'
<1> DEFINE i    == nextUp + 1
           pins == model[i].pins
<1>1. /\ bringUp = "bus" /\ nextUp < Len(model)
      /\ portRegs' = ConfiguredAll(portRegs, pins, HIGH_IMPEDANCE)
      /\ IF Allocated(model[i]) # "OK" THEN bringUp' = "failed" /\ UNCHANGED nextUp
         ELSE IF i = Len(model) THEN bringUp' = "doors" /\ nextUp' = 0
         ELSE nextUp' = i /\ UNCHANGED bringUp
      /\ UNCHANGED <<portLatch, portLow, model, managed, commanded>>
  BY DEF Allocate
<1>2. i \in 1 .. Len(model) /\ model \in Models /\ portRegs \in Regs /\ managed
  BY <1>1, BoardAssumption DEF BoardInv, BoardTyped, BroughtUp
<1>3. pins \in Seq(KeyPins) /\ pins \in Seq(Pin) /\ model[i].ok \in BOOLEAN
  <2> HIDE DEF i
  <2> QED
    BY <1>2, ModelPins
<1>4. Floating(portRegs, pins, Len(pins), portRegs')
  <2> HIDE DEF pins
  <2> QED
    BY <1>1, <1>2, <1>3, AllFloating
<1>5. portRegs' \in Regs
  BY <1>4 DEF Floating
<1>6. BoardTyped'
  BY <1>1, <1>2, <1>5 DEF BoardInv, BoardTyped
<1>7. ASSUME NEW pin \in Pin, pin \notin KeyPins PROVE SameMode(portRegs, portRegs', pin)
  <2> HIDE DEF pins
  <2>1. \A j \in 1 .. Len(pins) : pins[j] # pin
    BY <1>3, <1>7
  <2> QED
    BY <1>4, <2>1 DEF Floating
<1>8. RelaysDriven'
  <2>1. ASSUME NEW d \in BoardDoor PROVE ~M1(portRegs', RelayPin(d))
    BY <1>7, BoardPins DEF BoardInv, RelaysDriven, SameMode
  <2> QED
    BY <1>1, <2>1 DEF BoardInv, RelaysDriven, RelayPin
<1>9. UartUntouched'
  <2>1. ASSUME NEW pin \in UartPins PROVE ~M1(portRegs', pin) /\ ~M0(portRegs', pin)
    <3>1. pin \in Pin /\ pin \notin KeyPins
      BY BoardPins
    <3> QED
      BY <1>7, <3>1 DEF BoardInv, UartUntouched, SameMode
  <2> QED
    BY <1>1, <2>1 DEF BoardInv, UartUntouched, UartPins
<1>10. /\ \A pin \in Pin : HighZ(portRegs, pin) => HighZ(portRegs', pin)
       /\ \A j \in 1 .. Len(pins) : HighZ(portRegs', pins[j])
  <2> HIDE DEF pins
  <2> QED
    BY <1>4 DEF Floating
<1>11. ASSUME model[i].ok
       PROVE  \A k \in 1 .. i : /\ model[k].ok
                                 /\ \A j \in 1 .. Len(model[k].pins) : HighZ(portRegs', model[k].pins[j])
  <2> DEFINE n == nextUp
  <2>1. n \in 0 .. Len(model) /\ Brought(n)
    BY <1>1, <1>2 DEF BoardInv, BroughtUp, BoardTyped
  <2>2. \A k \in 1 .. n : /\ model[k].ok
                          /\ \A j \in 1 .. Len(model[k].pins) : HighZ(portRegs', model[k].pins[j])
    <3> SUFFICES ASSUME NEW k \in 1 .. n, NEW j \in 1 .. Len(model[k].pins)
                 PROVE  HighZ(portRegs', model[k].pins[j])
      BY <2>1 DEF Brought
    <3>1. k \in 1 .. Len(model) /\ HighZ(portRegs, model[k].pins[j])
      BY <1>2, <2>1 DEF Brought
    <3>2. model[k].pins[j] \in Pin
      <4>1. model[k].pins \in Seq(Pin)
        BY <1>2, <3>1, ModelPins
      <4> QED
        BY <4>1
    <3> QED
      BY <1>10, <3>1, <3>2
  <2>3. \A k \in 1 .. i : k = i \/ k \in 1 .. n
    BY <2>1
  <2> QED
    BY <1>10, <1>11, <2>2, <2>3
<1>12. BroughtUp'
  <2>1. Allocated(model[i]) = "OK" <=> model[i].ok
    BY <1>2, <1>3 DEF Allocated
  <2> HIDE DEF pins
  <2>2. CASE ~model[i].ok
    BY <1>1, <2>1, <2>2 DEF BroughtUp
  <2>3. CASE model[i].ok /\ i = Len(model)
    <3>1. bringUp' = "doors" /\ nextUp' = 0
      BY <1>1, <2>1, <2>3
    <3>2. Brought(Len(model))'
      BY <1>1, <1>11, <2>3 DEF Brought
    <3>3. \A d \in BoardDoor : ~(d < 0)
      BY BoardPins
    <3>4. managed' /\ Known(model)'
      BY <1>1, <1>2 DEF BoardInv, BroughtUp, Known
    <3> QED
      BY <3>1, <3>2, <3>3, <3>4 DEF BroughtUp
  <2>4. CASE model[i].ok /\ i # Len(model)
    <3>1. bringUp' = "bus" /\ nextUp' = i
      BY <1>1, <2>1, <2>4
    <3>2. Brought(nextUp)'
      <4>1. \A k \in 1 .. nextUp' : /\ model'[k].ok
                                    /\ \A j \in 1 .. Len(model'[k].pins) : HighZ(portRegs', model'[k].pins[j])
        <5> HIDE DEF i
        <5> QED
          BY <1>1, <1>11, <2>4, <3>1
      <4> QED
        BY <4>1 DEF Brought
    <3>4. managed' /\ Known(model)'
      BY <1>1, <1>2 DEF BoardInv, BroughtUp, Known
    <3> HIDE DEF i
    <3> QED
      BY <3>1, <3>2, <3>4 DEF BroughtUp
  <2> QED
    BY <2>2, <2>3, <2>4
<1> QED
  BY <1>6, <1>8, <1>9, <1>12 DEF BoardInv

LEMMA LineMovesInv == ASSUME BoardInv, LineMoves PROVE BoardInv'
<1>1. UNCHANGED <<portRegs, portLatch, model, managed, bringUp, nextUp, commanded>>
  BY DEF LineMoves
<1>2. portLow' \in [Port -> SUBSET Bit] /\ portLow'[2] = portLow[2]
  <2>1. PICK pin \in {DetectPin(0), ButtonPin(0), KeyPin(0), <<3, 0>>} :
           portLow' = [portLow EXCEPT ![pin[1]] = IF pin[2] \in portLow[pin[1]]
                                                  THEN portLow[pin[1]] \ {pin[2]}
                                                  ELSE portLow[pin[1]] \cup {pin[2]}]
    BY DEF LineMoves
  <2>2. pin[1] \in Port /\ pin[1] # 2 /\ pin[2] \in Bit
    BY BoardPins DEF DetectPin, ButtonPin, KeyPin, Bit
  <2>3. portLow \in [Port -> SUBSET Bit]
    BY DEF BoardInv, BoardTyped
  <2>4. portLow[pin[1]] \in SUBSET Bit
    BY <2>2, <2>3
  <2> QED
    BY <2>1, <2>2, <2>3, <2>4, BoardPins
<1>3. BoardTyped'
  BY <1>1, <1>2 DEF BoardInv, BoardTyped
<1>4. RelaysDriven' /\ UartUntouched'
  BY <1>1, <1>2 DEF BoardInv, RelaysDriven, UartUntouched, RelayPin, UartPins
<1>5. BroughtUp'
  BY <1>1 DEF BoardInv, BroughtUp, Brought, Known, DoorUp, DetectPin, ButtonPin
<1> QED
  BY <1>3, <1>4, <1>5 DEF BoardInv

\* gpioWrite to a relay's pin: its latch alone
RelaySet(latch, d, on, new) ==
    /\ new \in [Port -> SUBSET Bit]
    /\ \A p \in Port : p # 2 => new[p] = latch[p]
    /\ \A b \in Bit : b \in new[2] <=> IF b = d THEN on ELSE b \in latch[2]

LEMMA RelayWritten ==
    ASSUME NEW latch \in [Port -> SUBSET Bit], NEW lines, NEW d \in BoardDoor, NEW value
    PROVE  RelaySet(latch, d, value # {}, Written(latch, lines, IoToCfg(RelayPin(d), PUSH_PULL), value))
<1> DEFINE cfg == IoToCfg(RelayPin(d), PUSH_PULL)
           new == Written(latch, lines, cfg, value)
           two == IF value # {} THEN latch[2] \cup {d} ELSE latch[2] \ {d}
<1>1. cfg.port = 2 /\ cfg.count = 1 /\ cfg.pins = {d} /\ 2 \in Port /\ d \in Bit
  BY BoardPins DEF IoToCfg, RelayPin
<1> HIDE DEF cfg
<1>2. new = [latch EXCEPT ![2] = two]
  BY <1>1 DEF Written, WriteOne
<1> HIDE DEF new
<1>3. two \in SUBSET Bit /\ \A b \in Bit : b \in two <=> IF b = d THEN value # {} ELSE b \in latch[2]
  BY <1>1
<1> HIDE DEF two
<1>4. new \in [Port -> SUBSET Bit] /\ new[2] = two /\ \A p \in Port : p # 2 => new[p] = latch[p]
  BY <1>1, <1>2, <1>3
<1> QED
  BY <1>3, <1>4 DEF new, cfg, RelaySet

LEMMA DoorLockCtrlInv == ASSUME BoardInv, DoorLockCtrl PROVE BoardInv'
<1>1. PICK d \in BoardDoor, level \in {0, 1} :
         /\ portLatch' = Written(portLatch, LinesOf(IoToCfg(RelayPin(d), PUSH_PULL).port),
                                 IoToCfg(RelayPin(d), PUSH_PULL), IF level = 1 THEN {0} ELSE {})
         /\ commanded' = [commanded EXCEPT ![d] = level]
  BY DEF DoorLockCtrl
<1>2. UNCHANGED <<portRegs, portLow, model, managed, bringUp, nextUp>>
  BY DEF DoorLockCtrl
<1>3. /\ portLatch' \in [Port -> SUBSET Bit]
      /\ \A p \in Port : p # 2 => portLatch'[p] = portLatch[p]
      /\ \A b \in Bit : b \in portLatch'[2] <=> IF b = d THEN (IF level = 1 THEN {0} ELSE {}) # {}
                                                         ELSE b \in portLatch[2]
  <2> DEFINE lines == LinesOf(IoToCfg(RelayPin(d), PUSH_PULL).port)
             value == IF level = 1 THEN {0} ELSE {}
  <2>1. portLatch \in [Port -> SUBSET Bit]
    BY DEF BoardInv, BoardTyped
  <2>2. portLatch' = Written(portLatch, lines, IoToCfg(RelayPin(d), PUSH_PULL), value)
    BY <1>1
  <2> HIDE DEF lines, value
  <2>3. RelaySet(portLatch, d, value # {}, portLatch')
    BY <2>1, <2>2, RelayWritten
  <2> QED
    BY <2>3 DEF value, RelaySet
<1>4. commanded \in [BoardDoor -> {0, 1}]
  BY DEF BoardInv, BoardTyped
<1>5. BoardTyped'
  BY <1>1, <1>2, <1>3, <1>4 DEF BoardInv, BoardTyped
<1>6. RelaysDriven'
  <2>1. ASSUME NEW e \in BoardDoor PROVE e \in portLatch'[2] <=> commanded'[e] = 1
    <3>1. e \in Bit /\ (e \in portLatch[2] <=> commanded[e] = 1)
      BY BoardPins DEF BoardInv, RelaysDriven
    <3>2. CASE e = d
      BY <1>1, <1>3, <1>4, <3>1, <3>2
    <3>3. CASE e # d
      BY <1>1, <1>3, <1>4, <3>1, <3>3
    <3> QED
      BY <3>2, <3>3
  <2> QED
    BY <1>2, <2>1 DEF BoardInv, RelaysDriven, RelayPin
<1>7. UartUntouched'
  BY <1>2, <1>3, BoardPins DEF BoardInv, UartUntouched, UartPins
<1>8. BroughtUp'
  BY <1>2 DEF BoardInv, BroughtUp, Brought, Known, DoorUp, DetectPin, ButtonPin
<1> QED
  BY <1>5, <1>6, <1>7, <1>8 DEF BoardInv

LEMMA DoorInitInv == ASSUME BoardInv, DoorInit PROVE BoardInv'
<1> DEFINE d      == nextUp
           pins   == <<DetectPin(d), ButtonPin(d)>>
           inputs == ConfiguredAll(portRegs, pins, HIGH_IMPEDANCE)
           relay  == IoToCfg(RelayPin(d), PUSH_PULL)
<1>1. /\ bringUp = "doors" /\ d < BoardDoors
      /\ portRegs' = Configured(inputs, relay)
      /\ portLatch' = Written(portLatch, Lines(portRegs', portLatch, portLow, relay.port), relay, {0})
      /\ commanded' = [commanded EXCEPT ![d] = 1]
      /\ nextUp' = d + 1
      /\ bringUp' = IF nextUp' = BoardDoors THEN "run" ELSE "doors"
      /\ UNCHANGED <<portLow, model, managed>>
  BY DEF DoorInit
<1>2. d \in BoardDoor /\ d \in Nat /\ portRegs \in Regs /\ portLatch \in [Port -> SUBSET Bit]
  BY <1>1, BoardPins DEF BoardInv, BoardTyped, BoardDoor
<1>3. /\ pins \in Seq(Pin) /\ Len(pins) = 2
      /\ pins[1] = DetectPin(d) /\ pins[2] = ButtonPin(d)
  <2>1. DetectPin(d) \in Pin /\ ButtonPin(d) \in Pin
    BY <1>2, BoardPins
  <2> QED
    BY <2>1
<1> HIDE DEF d
<1>4. Floating(portRegs, pins, 2, inputs)
  <2> HIDE DEF pins
  <2>1. Floating(portRegs, pins, Len(pins), inputs)
    BY <1>2, <1>3, AllFloating
  <2> QED
    BY <1>3, <2>1
<1> HIDE DEF pins, inputs
<1>5. inputs \in Regs /\ RelayPin(d) \in Pin /\ RelayPin(d)[1] = 2 /\ RelayPin(d)[2] = d
  BY <1>2, <1>4, BoardPins DEF Floating
<1>6. /\ portRegs' \in Regs
      /\ ~M1(portRegs', RelayPin(d))
      /\ \A other \in Pin : other # RelayPin(d) => SameMode(inputs, portRegs', other)
  <2>1. PUSH_PULL \in {PUSH_PULL, HIGH_IMPEDANCE} /\ PUSH_PULL # HIGH_IMPEDANCE
    BY DEF PUSH_PULL, HIGH_IMPEDANCE
  <2> QED
    BY <1>1, <1>5, <2>1, PinConfigured
<1> HIDE DEF relay
<1>7. ASSUME NEW pin \in Pin, pin[1] # 2 PROVE pin # RelayPin(d) /\ SameMode(inputs, portRegs', pin)
  BY <1>5, <1>6, <1>7
<1>8. ASSUME NEW pin \in Pin, pin[1] \in {2, 3} PROVE SameMode(portRegs, inputs, pin)
  <2>1. \A j \in 1 .. 2 : pins[j] # pin
    <3>1. DetectPin(d)[1] = 1 /\ ButtonPin(d)[1] = 0
      BY <1>2, BoardPins
    <3>2. \A j \in 1 .. 2 : j = 1 \/ j = 2
      OBVIOUS
    <3> QED
      BY <1>3, <1>8, <3>1, <3>2
  <2> QED
    BY <1>4, <2>1 DEF Floating
<1>9. /\ portLatch' \in [Port -> SUBSET Bit]
      /\ \A p \in Port : p # 2 => portLatch'[p] = portLatch[p]
      /\ \A b \in Bit : b \in portLatch'[2] <=> IF b = d THEN {0} # {} ELSE b \in portLatch[2]
  <2> DEFINE lines == Lines(portRegs', portLatch, portLow, relay.port)
  <2>1. portLatch' = Written(portLatch, lines, IoToCfg(RelayPin(d), PUSH_PULL), {0})
    BY <1>1 DEF relay
  <2> HIDE DEF lines
  <2>2. RelaySet(portLatch, d, {0} # {}, portLatch')
    BY <1>2, <2>1, RelayWritten
  <2> QED
    BY <2>2 DEF RelaySet
<1>10. commanded \in [BoardDoor -> {0, 1}]
  BY DEF BoardInv, BoardTyped
<1>11. BoardTyped'
  <2>1. nextUp' \in Nat /\ bringUp' \in {"run", "doors"}
    BY <1>1, <1>2
  <2>2. commanded' \in [BoardDoor -> {0, 1}]
    BY <1>1, <1>10
  <2> QED
    BY <1>1, <1>6, <1>9, <2>1, <2>2 DEF BoardInv, BoardTyped
<1>12. RelaysDriven'
  <2>1. ASSUME NEW e \in BoardDoor
        PROVE  ~M1(portRegs', RelayPin(e)) /\ (e \in portLatch'[2] <=> commanded'[e] = 1)
    <3>1. /\ e \in Bit /\ RelayPin(e) \in Pin /\ RelayPin(e)[1] = 2 /\ RelayPin(e)[2] = e
          /\ ~M1(portRegs, RelayPin(e)) /\ (e \in portLatch[2] <=> commanded[e] = 1)
      BY BoardPins DEF BoardInv, RelaysDriven
    <3>2. CASE e = d
      BY <1>1, <1>6, <1>9, <1>10, <3>1, <3>2
    <3>3. CASE e # d
      <4>1. SameMode(portRegs, inputs, RelayPin(e)) /\ SameMode(inputs, portRegs', RelayPin(e))
        BY <1>5, <1>6, <1>8, <3>1, <3>3
      <4> QED
        BY <1>1, <1>9, <1>10, <3>1, <3>3, <4>1 DEF SameMode
    <3> QED
      BY <3>2, <3>3
  <2> QED
    BY <1>1, <2>1 DEF BoardInv, RelaysDriven, RelayPin
<1>13. UartUntouched'
  <2>1. ASSUME NEW pin \in UartPins
        PROVE  ~M1(portRegs', pin) /\ ~M0(portRegs', pin) /\ pin[2] \in portLatch'[3]
    <3>1. pin \in Pin /\ pin[1] = 3
      BY BoardPins
    <3>2. SameMode(portRegs, inputs, pin) /\ SameMode(inputs, portRegs', pin)
      BY <1>7, <1>8, <3>1
    <3> QED
      BY <1>9, <3>2, BoardPins DEF BoardInv, UartUntouched, SameMode
  <2> QED
    BY <2>1 DEF UartUntouched, UartPins
<1>14. /\ \A pin \in Pin : HighZ(portRegs, pin) => HighZ(portRegs', pin)
       /\ HighZ(portRegs', DetectPin(d)) /\ HighZ(portRegs', ButtonPin(d))
  <2>1. ASSUME NEW pin \in Pin, HighZ(inputs, pin) PROVE HighZ(portRegs', pin)
    <3>1. CASE pin = RelayPin(d)
      <4>1. SameMode(portRegs, inputs, RelayPin(d))
        BY <1>5, <1>8
      <4> QED
        BY <1>2, <2>1, <3>1, <4>1 DEF BoardInv, RelaysDriven, HighZ, SameMode
    <3>2. CASE pin # RelayPin(d)
      BY <1>6, <2>1, <3>2 DEF HighZ, SameMode
    <3> QED
      BY <3>1, <3>2
  <2>2. HighZ(inputs, DetectPin(d)) /\ HighZ(inputs, ButtonPin(d))
    BY <1>3, <1>4 DEF Floating
  <2>3. DetectPin(d) \in Pin /\ ButtonPin(d) \in Pin
    BY <1>2, BoardPins
  <2> QED
    BY <1>4, <2>1, <2>2, <2>3 DEF Floating
<1>15. BroughtUp'
  <2>1. /\ \A e \in BoardDoor : DoorUp(e) => DoorUp(e)'
        /\ \A n \in 0 .. Len(model) : Brought(n) => Brought(n)'
    BY <1>1, <1>14, StaysUp DEF BoardInv
  <2>2. /\ managed /\ Known(model) /\ Brought(Len(model))
        /\ \A e \in BoardDoor : e < d => DoorUp(e)
    BY <1>1 DEF BoardInv, BroughtUp, d
  <2>3. managed' /\ Known(model)'
    BY <1>1, <2>2 DEF Known
  <2>4. Brought(Len(model))'
    <3>1. Len(model) \in 0 .. Len(model)
      <4>1. model \in Seq(Resource)
        BY BoardAssumption DEF BoardInv, BoardTyped
      <4> QED
        BY <4>1
    <3>2. model' = model
      BY <1>1
    <3> QED
      BY <2>1, <2>2, <3>1, <3>2 DEF Brought
  <2>5. ASSUME NEW e \in BoardDoor, e < d + 1 PROVE DoorUp(e)'
    <3>1. e \in Nat
      BY BoardPins
    <3>2. CASE e = d
      BY <1>14, <3>2 DEF DoorUp, DetectPin, ButtonPin
    <3>3. CASE e # d
      BY <1>2, <2>1, <2>2, <2>5, <3>1, <3>3
    <3> QED
      BY <3>2, <3>3
  <2>6. nextUp' = d + 1 /\ (bringUp' = "doors" \/ (bringUp' = "run" /\ d + 1 = BoardDoors))
    BY <1>1
  <2>7. \A e \in BoardDoor : e < BoardDoors
    BY BoardAssumption DEF BoardDoor
  <2> QED
    BY <2>3, <2>4, <2>5, <2>6, <2>7 DEF BroughtUp
<1> QED
  BY <1>11, <1>12, <1>13, <1>15 DEF BoardInv

LEMMA BoardStepInv == ASSUME BoardInv, [BoardNext]_boardVars PROVE BoardInv'
<1>1. CASE UNCHANGED boardVars
  <2>1. BoardTyped' /\ RelaysDriven' /\ UartUntouched'
    BY <1>1 DEF boardVars, BoardInv, BoardTyped, RelaysDriven, UartUntouched, RelayPin, UartPins
  <2>2. BroughtUp'
    BY <1>1 DEF boardVars, BoardInv, BroughtUp, Brought, Known, DoorUp, DetectPin, ButtonPin
  <2> QED
    BY <2>1, <2>2 DEF BoardInv
<1> QED
  BY <1>1, ManagerInitInv, AllocateInv, DoorInitInv, DoorLockCtrlInv, LineMovesInv DEF BoardNext, Main

LEMMA DrivenIsCommanded == ASSUME BoardInv PROVE RelaysAsCommanded
<1> SUFFICES ASSUME NEW d \in BoardDoor PROVE d \in LinesOf(2) <=> commanded[d] = 1
  BY DEF RelaysAsCommanded
<1>1. /\ d \in Bit /\ portLow[2] = {}
      /\ d \notin portRegs[2]["M1"] /\ (d \in portLatch[2] <=> commanded[d] = 1)
  BY BoardPins DEF BoardInv, RelaysDriven, M1, RelayPin
<1>2. Mode(portRegs, 2, d) \in {PUSH_PULL, BIDIRECTIONAL}
  BY <1>1 DEF Mode, PUSH_PULL, BIDIRECTIONAL
<1>3. d \in LinesOf(2) <=> d \in portLatch[2]
  BY <1>1, <1>2 DEF LinesOf, Lines, PUSH_PULL, BIDIRECTIONAL, HIGH_IMPEDANCE
<1> QED
  BY <1>1, <1>3

\* A floating pin's bit, and what gpioRead makes of it
LEMMA FloatingReads ==
    ASSUME NEW pin \in Pin, HighZ(portRegs, pin)
    PROVE  /\ Mode(portRegs, pin[1], pin[2]) = HIGH_IMPEDANCE
           /\ Read(LinesOf(pin[1]), IoToCfg(pin, HIGH_IMPEDANCE)) = {} <=> pin[2] \in portLow[pin[1]]
<1> DEFINE cfg   == IoToCfg(pin, HIGH_IMPEDANCE)
           lines == LinesOf(pin[1])
<1>1. Mode(portRegs, pin[1], pin[2]) = HIGH_IMPEDANCE
  BY DEF HighZ, M1, M0, Mode, HIGH_IMPEDANCE
<1>2. pin[2] \in Bit /\ pin[1] \in Port
  BY BoardPins DEF Pin
<1>3. pin[2] \in lines <=> pin[2] \notin portLow[pin[1]]
  BY <1>1, <1>2 DEF LinesOf, Lines, PUSH_PULL, HIGH_IMPEDANCE
<1>4. cfg.port = pin[1] /\ cfg.pin = pin[2] /\ cfg.pins = {pin[2]}
  BY DEF IoToCfg
<1> HIDE DEF cfg, lines
<1>5. Read(lines, cfg) = {b - pin[2] : b \in lines \cap {pin[2]}}
  BY <1>2, <1>4 DEF Read, GetPort
<1>6. Read(lines, cfg) = {} <=> pin[2] \notin lines
  BY <1>5
<1> QED
  BY <1>1, <1>3, <1>6 DEF cfg, lines

LEMMA UpIsWhole == ASSUME BoardInv PROVE RunsWhole
<1> SUFFICES ASSUME bringUp = "run"
             PROVE  /\ managed /\ \A i \in 1 .. Len(model) : model[i].ok
                    /\ \A pin \in InputPins :
                          /\ Mode(portRegs, pin[1], pin[2]) = HIGH_IMPEDANCE
                          /\ Read(LinesOf(pin[1]), IoToCfg(pin, HIGH_IMPEDANCE)) = {} <=> pin[2] \in portLow[pin[1]]
                    /\ \A pin \in UartPins :
                          Mode(portRegs, pin[1], pin[2]) = BIDIRECTIONAL /\ pin[2] \in portLatch[pin[1]]
  BY DEF RunsWhole
<1>1. managed /\ Known(model) /\ Brought(Len(model)) /\ \A d \in BoardDoor : DoorUp(d)
  BY DEF BoardInv, BroughtUp
<1>2. model \in Models /\ \A i \in 1 .. Len(model) : model[i].ok
  BY <1>1 DEF BoardInv, BoardTyped, Brought
<1>3. ASSUME NEW pin \in InputPins PROVE pin \in Pin /\ HighZ(portRegs, pin)
  <2>1. CASE pin \in KeyPins
    <3>1. PICK k \in 0 .. CfgKeys - 1 : pin = KeyPin(k)
      BY <2>1 DEF KeyPins
    <3>2. PICK i \in 1 .. Len(model) : \E j \in 1 .. Len(model[i].pins) : model[i].pins[j] = KeyPin(k)
      BY <1>1, <1>2, BoardAssumption
    <3> QED
      BY <1>1, <2>1, <3>1, <3>2, BoardPins DEF Brought
  <2>2. CASE \E d \in BoardDoor : pin = DetectPin(d) \/ pin = ButtonPin(d)
    BY <1>1, <2>2, BoardPins DEF DoorUp
  <2> QED
    BY <2>1, <2>2 DEF InputPins, KeyPins
<1>4. ASSUME NEW pin \in UartPins
      PROVE  Mode(portRegs, pin[1], pin[2]) = BIDIRECTIONAL /\ pin[2] \in portLatch[pin[1]]
  BY BoardPins DEF BoardInv, UartUntouched, M1, M0, Mode, BIDIRECTIONAL
<1> QED
  BY <1>1, <1>2, <1>3, <1>4, FloatingReads

\* From reset on, whatever the table and wherever the start-up is or stops, a
\* relay line carries what was last commanded, and 1, locked, before: no start-up
\* step and no write to another door lets a bolt go (board_doorInit,
\* board_doorLockCtrl, gpioConfigure, gpioWrite).
THEOREM RelaysObey == BoardSpec => []RelaysAsCommanded
<1>1. BoardInit => BoardInv
  BY BoardInitInv
<1>2. BoardInv /\ [BoardNext]_boardVars => BoardInv'
  BY BoardStepInv
<1>3. BoardInv => RelaysAsCommanded
  BY DrivenIsCommanded
<1> QED
  BY <1>1, <1>2, <1>3, PTL DEF BoardSpec

\* The loop runs only on a board that is up: the manager has its table, every
\* callback succeeded, every input floats and reads its line, and the UART's pins
\* are as at reset (main, board_bus_init, busManage_manager_allocate).
THEOREM RunsOnlyWhole == BoardSpec => []RunsWhole
<1>1. BoardInit => BoardInv
  BY BoardInitInv
<1>2. BoardInv /\ [BoardNext]_boardVars => BoardInv'
  BY BoardStepInv
<1>3. BoardInv => RunsWhole
  BY UpIsWhole
<1> QED
  BY <1>1, <1>2, <1>3, PTL DEF BoardSpec

-----------------------------------------------------------------------------
(***************************************************************************)
(* The command tree in its array.  The nodes are taken in the order of     *)
(* their places, so the newest of some nodes is the one at the last place, *)
(* and what is linked is told without following a link: from a parent its  *)
(* newest child, from a node the newest of its older siblings.             *)
(***************************************************************************)
Place == Index \cup {Null}

Node == [used : BOOLEAN, hash : {0} \cup {Hash(w) : w \in Commands}, handler : BOOLEAN,
         parent : Place, first : Place, next : Place]

ChildrenOf(i) == {j \in Parents : nodes[j].parent = i}

IsNewest(i, S) == IF S = {} THEN i = Null ELSE i \in S /\ \A j \in S : j <= i

TreeHolds ==
    /\ nodes \in [Index -> Node]
    /\ \A i \in Parents, j \in Slots : i < j
    /\ 0 \in Parents => nodes[0].parent = Null
    /\ \A i \in Parents \ {0} : nodes[i].parent \in Parents
    /\ \A i \in Parents : IsNewest(nodes[i].first, ChildrenOf(i))
    /\ \A i \in Parents \ {0} :
          IsNewest(nodes[i].next, {j \in ChildrenOf(nodes[i].parent) : j < i})

LEMMA Places ==
    /\ MaxNodes \in Nat /\ MaxNodes > 0 /\ 0 \in Index
    /\ Null = -1 /\ Null \notin Index
    /\ \A i \in Index : i \in Nat /\ i >= 0 /\ i < MaxNodes
  BY ConsoleAssumption DEF Index, Null

\* The first free place is free, and none before it is.
LEMMA FirstFree ==
    ASSUME NEW S, S \subseteq Index, S # {}
    PROVE  Min(S) \in S /\ \A i \in S : Min(S) <= i
<1>1. S \subseteq Nat
  BY Places
<1>2. \E i \in S : \A j \in S : i <= j
  BY <1>1, LeastOf
<1> QED
  BY <1>1, <1>2 DEF Min

-----------------------------------------------------------------------------
\* What find_child is at after a place, which it leaves only for the next.
GoOn(i, hash) == IF i = Null \/ nodes[i].hash = hash THEN i ELSE nodes[i].next

\* What holds before the first place find_child looks at, and after a place if
\* before it, holds of what it finds.
LEMMA FoundLoop ==
    ASSUME nodes \in [Index -> Node], NEW start \in Place, NEW hash,
           NEW Good, <<0, start>> \in Good,
           \A n \in 1 .. MaxNodes, i \in Place :
              <<n - 1, i>> \in Good => <<n, GoOn(i, hash)>> \in Good
    PROVE  Found(start, hash) \in Place /\ <<MaxNodes, Found(start, hash)>> \in Good
<1> DEFINE N == MaxNodes
           Step == [ni \in (1 .. N) \X Place |-> GoOn(ni[2], hash)]
           Is(f) == f = [n \in 0 .. N |->
                           IF n = 0 THEN start
                           ELSE LET j == f[n - 1]
                                IN  IF j = Null \/ nodes[j].hash = hash THEN j ELSE nodes[j].next]
           after == CHOOSE f : Is(f)
<1>1. N \in Nat
  BY Places
<1>2. \A i \in Place : GoOn(i, hash) \in Place
  BY DEF GoOn, Place, Node
<1>3. Step \in [(1 .. N) \X Place -> Place]
  BY <1>2
<1>4. PICK f : Goes(f, N, Place, start, Step)
  <2> HIDE DEF Step
  <2> QED
    BY <1>1, <1>3, RecursionDefines
<1>5. Is(f)
  <2>1. ASSUME NEW n \in 1 .. N PROVE f[n] = GoOn(f[n - 1], hash)
    <3>1. n - 1 \in 0 .. N
      BY <1>1
    <3>2. <<n, f[n - 1]>> \in (1 .. N) \X Place
      BY <1>4, <3>1 DEF Goes
    <3>3. f[n] = Step[<<n, f[n - 1]>>]
      <4> HIDE DEF Step
      <4> QED
        BY <1>4 DEF Goes
    <3> QED
      BY <3>2, <3>3
  <2> DEFINE g == [n \in 0 .. N |->
                     IF n = 0 THEN start
                     ELSE LET j == f[n - 1]
                          IN  IF j = Null \/ nodes[j].hash = hash THEN j ELSE nodes[j].next]
  <2>2. ASSUME NEW n \in 0 .. N PROVE f[n] = g[n]
    <3>1. g[n] = IF n = 0 THEN start ELSE GoOn(f[n - 1], hash)
      BY DEF GoOn
    <3>2. n = 0 \/ n \in 1 .. N
      BY <1>1
    <3> HIDE DEF g, Step
    <3> QED
      BY <1>4, <2>1, <3>1, <3>2 DEF Goes
  <2>3. f \in [0 .. N -> Place] /\ g = [n \in 0 .. N |-> g[n]]
    BY <1>4 DEF Goes
  <2>4. f = g
    <3> HIDE DEF g, Step
    <3> QED
      BY <2>2, <2>3
  <2> QED
    BY <2>4
<1>6. Is(after)
  <2> HIDE DEF Is
  <2> QED
    BY <1>5
<1>7. after[0] = start /\ \A n \in 1 .. N : after[n] = GoOn(after[n - 1], hash)
  <2> HIDE DEF after
  <2>1. ASSUME NEW n \in 0 .. N
        PROVE  after[n] = IF n = 0 THEN start ELSE GoOn(after[n - 1], hash)
    BY <1>6 DEF GoOn
  <2>2. ASSUME NEW n \in 1 .. N PROVE after[n] = GoOn(after[n - 1], hash)
    <3>1. n \in 0 .. N /\ n # 0
      BY <1>1
    <3> QED
      BY <2>1, <3>1
  <2>3. after[0] = start
    <3>1. 0 \in 0 .. N
      BY <1>1
    <3> QED
      BY <2>1, <3>1
  <2> QED
    BY <2>2, <2>3, SMTT(40)
<1> DEFINE S == {n \in 0 .. N : after[n] \in Place /\ <<n, after[n]>> \in Good}
<1>8. 0 .. N \subseteq S
  <2> HIDE DEF after
  <2>1. 0 \in S
    BY <1>1, <1>7
  <2>2. ASSUME NEW n \in 0 .. N - 1, n \in S PROVE n + 1 \in S
    <3>1. /\ n + 1 \in 1 .. N /\ (n + 1) - 1 = n
          /\ after[n + 1] = GoOn(after[n], hash)
      BY <1>1, <1>7
    <3> QED
      BY <1>2, <2>2, <3>1
  <2> HIDE DEF S
  <2> QED
    BY <1>1, <2>1, <2>2, UpTo
<1>9. Found(start, hash) = after[N]
  BY DEF Found
<1> HIDE DEF after
<1> QED
  BY <1>1, <1>8, <1>9

\* find_child finds the newest child of that hash, if there is one.
LEMMA FindsNewest ==
    ASSUME TreeHolds, NEW i \in Parents, NEW hash
    PROVE  IsNewest(Found(nodes[i].first, hash), {j \in ChildrenOf(i) : nodes[j].hash = hash})
<1> DEFINE C == ChildrenOf(i)
           H == {j \in C : nodes[j].hash = hash}
           \* What is at hand is among the children, none sought is newer, and
           \* unless it is one, as many are done with as the loop has looked at.
           Good == {nj \in (0 .. MaxNodes) \X Place :
                      /\ nj[2] # Null => nj[2] \in C
                      /\ \A j \in H : j <= nj[2]
                      /\ nj[2] \in H \/ nj[2] <= MaxNodes - 1 - nj[1]}
<1>1. /\ C \subseteq Index /\ H \subseteq C /\ i \in Index
      /\ nodes \in [Index -> Node] /\ nodes[i].first \in Place
      /\ IsNewest(nodes[i].first, C)
  BY DEF TreeHolds, ChildrenOf, Parents, Node
<1>2. \A j \in C : /\ j \in Parents \ {0} /\ nodes[j].parent = i
                   /\ IsNewest(nodes[j].next, {k \in C : k < j}) /\ nodes[j].next \in Place
  BY <1>1, Places DEF TreeHolds, ChildrenOf, Parents, Node
<1> HIDE DEF C
<1>3. <<0, nodes[i].first>> \in Good
  <2> DEFINE x == nodes[i].first
  <2>1. x # Null => x \in C
    BY <1>1 DEF IsNewest
  <2>2. \A j \in H : j <= x
    BY <1>1 DEF IsNewest
  <2>3. x <= MaxNodes - 1 - 0
    BY <1>1, Places DEF Place
  <2> QED
    BY <1>1, <2>1, <2>2, <2>3, Places
<1>4. ASSUME NEW n \in 1 .. MaxNodes, NEW x \in Place, <<n - 1, x>> \in Good
      PROVE  <<n, GoOn(x, hash)>> \in Good
  <2>1. n \in Int /\ n - 1 \in 0 .. MaxNodes /\ n \in 0 .. MaxNodes
    BY Places
  <2>2. /\ x # Null => x \in C
        /\ \A j \in H : j <= x
        /\ x \in H \/ x <= MaxNodes - 1 - (n - 1)
    BY <1>4
  <2>3. CASE x = Null
    <3>1. GoOn(x, hash) = Null
      BY <2>3 DEF GoOn
    <3> QED
      BY <1>4, <2>1, <2>2, <2>3, <3>1, Places
  <2>4. CASE x # Null /\ nodes[x].hash = hash
    <3>1. GoOn(x, hash) = x /\ x \in H
      BY <2>2, <2>4 DEF GoOn
    <3> QED
      BY <1>4, <2>1, <2>2, <3>1
  <2>5. CASE x # Null /\ nodes[x].hash # hash
    <3> DEFINE y == nodes[x].next
    <3>1. GoOn(x, hash) = y /\ x \in C /\ x \notin H /\ x \in Index
      BY <1>1, <2>2, <2>5 DEF GoOn
    <3>2. IsNewest(y, {k \in C : k < x}) /\ y \in Place
      BY <1>2, <3>1
    <3> HIDE DEF y
    <3>3. y # Null => y \in C
      BY <3>2 DEF IsNewest
    <3>4. ASSUME NEW j \in H PROVE j <= y
      <4>1. j \in C /\ j \in Nat /\ x \in Nat /\ j < x
        BY <1>1, <2>2, <3>1, Places
      <4> QED
        BY <3>2, <4>1 DEF IsNewest
    <3>5. y < x
      BY <3>1, <3>2, Places DEF IsNewest
    <3>6. y <= MaxNodes - 1 - n
      BY <2>1, <2>2, <3>1, <3>2, <3>5, Places DEF Place
    <3> QED
      BY <2>1, <3>1, <3>2, <3>3, <3>4, <3>6
  <2> QED
    BY <2>3, <2>4, <2>5
<1> DEFINE r == Found(nodes[i].first, hash)
<1>5. r \in Place /\ <<MaxNodes, r>> \in Good
  <2> HIDE DEF Good
  <2> QED
    BY <1>1, <1>3, <1>4, FoundLoop
<1> HIDE DEF r
<1>6. /\ r # Null => r \in C
      /\ \A j \in H : j <= r
      /\ r \in H \/ r <= MaxNodes - 1 - MaxNodes
  BY <1>5
<1>7. CASE r \in H
  BY <1>6, <1>7 DEF IsNewest, r, C
<1>8. CASE r \notin H
  <2>1. r = Null
    BY <1>5, <1>6, <1>8, Places DEF Place
  <2>2. H = {}
    BY <1>1, <1>6, <2>1, Places
  <2> QED
    BY <2>1, <2>2 DEF IsNewest, r, C
<1> QED
  BY <1>7, <1>8

-----------------------------------------------------------------------------
\* A new node is the newest child of its parent.
LEMMA RegisterKeepsTree == ASSUME TreeHolds, CmdRegister PROVE TreeHolds'
<1>1. CASE UNCHANGED nodes
  BY <1>1 DEF TreeHolds, Parents, Slots, ChildrenOf
<1>2. CASE ~ UNCHANGED nodes
  <2>1. PICK parent \in Parents, word \in Commands, handler \in BOOLEAN :
           /\ Slots # {}
           /\ LET slot == Min(Slots)
              IN  nodes' = [Linked(slot, parent) EXCEPT
                               ![slot] = [@ EXCEPT !.used = TRUE, !.hash = Hash(word),
                                                   !.handler = handler, !.parent = parent,
                                                   !.first = Null]]
    BY <1>2 DEF CmdRegister
  <2>2. PICK slot : slot = Min(Slots)
    OBVIOUS
  <2>3. slot \in Slots /\ \A i \in Slots : slot <= i
    <3>1. Slots \subseteq Index
      BY DEF Slots
    <3> QED
      BY <2>1, <2>2, <3>1, FirstFree
  <2>4. /\ nodes \in [Index -> Node]
        /\ slot \in Index /\ parent \in Index /\ parent # slot /\ slot # 0 /\ slot # Null
        /\ parent < slot /\ 0 \in Parents
    <3>1. nodes \in [Index -> Node] /\ \A i \in Parents, j \in Slots : i < j
      BY DEF TreeHolds
    <3>2. slot \in Index /\ slot \notin Parents /\ parent \in Index
      BY <2>3 DEF Slots, Parents
    <3>3. 0 \in Parents
      BY Places DEF CmdRegister, Parents
    <3> QED
      BY <2>3, <3>1, <3>2, <3>3, Places
  <2> DEFINE old == nodes[parent].first
             new == [used |-> TRUE, hash |-> Hash(word), handler |-> handler,
                     parent |-> parent, first |-> Null, next |-> old]
  <2>5. /\ nodes' \in [Index -> Node]
        /\ nodes'[slot] = new
        /\ nodes'[parent] = [nodes[parent] EXCEPT !.first = slot]
        /\ \A i \in Index \ {slot, parent} : nodes'[i] = nodes[i]
    <3>1. new \in Node /\ [nodes[parent] EXCEPT !.first = slot] \in Node
      BY <2>4 DEF Node, Place
    <3>2. nodes' = [i \in Index |-> IF i = slot THEN new
                                   ELSE IF i = parent THEN [nodes[parent] EXCEPT !.first = slot]
                                   ELSE nodes[i]]
      <4> DEFINE L == Linked(slot, parent)
                 last == [L[slot] EXCEPT !.used = TRUE, !.hash = Hash(word),
                                         !.handler = handler, !.parent = parent, !.first = Null]
      <4>1. /\ L \in [Index -> Node]
            /\ L[slot] = [nodes[slot] EXCEPT !.next = old]
            /\ L[parent] = [nodes[parent] EXCEPT !.first = slot]
            /\ \A i \in Index \ {slot, parent} : L[i] = nodes[i]
        BY <2>4 DEF Linked, Node, Place
      <4>2. last = new
        <5> HIDE DEF L
        <5>1. L[slot] \in Node /\ L[slot].next = old
          BY <2>4, <4>1 DEF Node
        <5> HIDE DEF old
        <5>2. ASSUME NEW l \in Node, l.next = old
              PROVE  [l EXCEPT !.used = TRUE, !.hash = Hash(word), !.handler = handler,
                               !.parent = parent, !.first = Null] = new
          <6> DEFINE m == [l EXCEPT !.used = TRUE, !.hash = Hash(word), !.handler = handler,
                                    !.parent = parent, !.first = Null]
          <6>1. /\ m \in Node
                /\ m.used = TRUE /\ m.hash = Hash(word) /\ m.handler = handler
                /\ m.parent = parent /\ m.first = Null /\ m.next = old
            BY <2>4, <5>2 DEF Node, Place
          <6> HIDE DEF m
          <6>2. m = new
            BY <6>1 DEF Node
          <6> QED
            BY <6>2 DEF m
        <5> QED
          BY <5>1, <5>2
      <4>3. nodes' = [L EXCEPT ![slot] = last]
        BY <2>1, <2>2
      <4> HIDE DEF L, last, new
      <4> QED
        BY <2>4, <4>1, <4>2, <4>3
    <3> HIDE DEF new
    <3> QED
      BY <2>4, <3>1, <3>2
  <2>6. \A i \in Index \ {slot} : /\ nodes'[i].used = nodes[i].used
                                  /\ nodes'[i].parent = nodes[i].parent
                                  /\ nodes'[i].next = nodes[i].next
                                  /\ i # parent => nodes'[i].first = nodes[i].first
    BY <2>4, <2>5 DEF Node
  <2>7. nodes'[slot].used /\ nodes'[slot].parent = parent /\ nodes'[slot].next = old
        /\ nodes'[slot].first = Null /\ nodes'[parent].first = slot
    BY <2>4, <2>5 DEF Node
  <2>8. Parents' = Parents \cup {slot} /\ Slots' = Slots \ {slot}
        /\ Parents \subseteq Index /\ slot \notin Parents
    BY <2>3, <2>6, <2>7 DEF Parents, Slots
  <2>9. \A i \in Parents : i < slot
    BY <2>3 DEF TreeHolds
  <2>10. \A i \in Parents \ {parent} : ChildrenOf(i)' = ChildrenOf(i)
    BY <2>6, <2>7, <2>8 DEF ChildrenOf
  <2>11. ChildrenOf(parent)' = ChildrenOf(parent) \cup {slot}
    BY <2>6, <2>7, <2>8 DEF ChildrenOf
  <2>12. \A i \in Parents \ {0} : nodes[i].parent \in Parents
    BY DEF TreeHolds
  <2>13. nodes[0].parent = Null /\ slot # Null /\ Null \notin Parents
    BY <2>4, <2>8, Places DEF TreeHolds
  <2>14. ChildrenOf(slot)' = {}
    BY <2>6, <2>7, <2>8, <2>12, <2>13, <2>4 DEF ChildrenOf
  <2>15. \A i \in Parents', j \in Slots' : i < j
    <3>1. \A j \in Slots' : j \in Slots /\ j # slot /\ slot <= j /\ j \in Nat /\ slot \in Nat
      BY <2>3, <2>8, Places DEF Slots
    <3> QED
      BY <2>8, <3>1 DEF TreeHolds
  <2>16. 0 \in Parents' => nodes'[0].parent = Null
    BY <2>4, <2>6, <2>13, Places
  <2>17. \A i \in Parents' \ {0} : nodes'[i].parent \in Parents'
    BY <2>6, <2>7, <2>8, <2>12
  <2>18. \A i \in Parents' : IsNewest(nodes'[i].first, ChildrenOf(i)')
    <3>1. ASSUME NEW i \in Parents' PROVE IsNewest(nodes'[i].first, ChildrenOf(i)')
      <4>1. CASE i = slot
        BY <2>7, <2>14, <4>1 DEF IsNewest
      <4>2. CASE i = parent
        <5>1. \A j \in ChildrenOf(parent) : j < slot /\ j \in Nat /\ slot \in Nat
          BY <2>4, <2>8, <2>9, Places DEF ChildrenOf
        <5>2. slot <= slot
          BY <2>4, Places
        <5> QED
          BY <2>7, <2>11, <4>2, <5>1, <5>2 DEF IsNewest
      <4>3. CASE i # slot /\ i # parent
        BY <2>6, <2>8, <2>10, <4>3 DEF TreeHolds
      <4> QED
        BY <4>1, <4>2, <4>3
    <3> QED
      BY <3>1
  <2>19. \A i \in Parents' \ {0} :
            \E p \in Parents' : /\ p = nodes'[i].parent
                                /\ IsNewest(nodes'[i].next, {j \in ChildrenOf(p)' : j < i})
    <3>1. ASSUME NEW i \in Parents' \ {0}
          PROVE  \E p \in Parents' : /\ p = nodes'[i].parent
                                     /\ IsNewest(nodes'[i].next, {j \in ChildrenOf(p)' : j < i})
      <4>1. CASE i = slot
        <5>1. {j \in ChildrenOf(parent)' : j < slot} = ChildrenOf(parent)
          <6>1. \A j \in ChildrenOf(parent) : j < slot
            BY <2>9 DEF ChildrenOf
          <6>2. ~(slot < slot)
            BY <2>4, Places
          <6> QED
            BY <2>11, <6>1, <6>2
        <5>2. IsNewest(old, ChildrenOf(parent))
          BY DEF TreeHolds
        <5> QED
          BY <2>7, <2>8, <4>1, <5>1, <5>2
      <4>2. CASE i # slot
        <5>1. i \in Parents \ {0} /\ i < slot /\ i \in Index
          BY <2>8, <2>9, <4>2
        <5>2. ~(slot < i)
          BY <2>4, <5>1, Places
        <5>3. PICK p \in Parents : p = nodes[i].parent
          BY <2>12, <5>1
        <5>4. nodes'[i].parent = p /\ nodes'[i].next = nodes[i].next
          BY <2>6, <4>2, <5>1, <5>3
        <5>5. {j \in ChildrenOf(p)' : j < i} = {j \in ChildrenOf(p) : j < i}
          BY <2>10, <2>11, <5>2
        <5>6. IsNewest(nodes[i].next, {j \in ChildrenOf(p) : j < i})
          BY <5>1, <5>3 DEF TreeHolds
        <5> QED
          BY <2>8, <5>4, <5>5, <5>6
      <4> QED
        BY <4>1, <4>2
    <3> QED
      BY <3>1
  <2> QED
    BY <2>5, <2>15, <2>16, <2>17, <2>18, <2>19 DEF TreeHolds
<1> QED
  BY <1>1, <1>2

\* A tree of its root alone, and none at all.
LEMMA FreshTree ==
    /\ nodes' = [i \in Index |-> IF i = 0 THEN Root ELSE Free] => TreeHolds'
    /\ nodes' = [i \in Index |-> Free] => TreeHolds'
<1>1. Root \in Node /\ Free \in Node /\ Root.used /\ ~Free.used
      /\ Root.parent = Null /\ Root.first = Null
  BY Places DEF Root, Free, Node, Place
<1>2. ASSUME nodes' = [i \in Index |-> IF i = 0 THEN Root ELSE Free] PROVE TreeHolds'
  <2>1. /\ nodes' \in [Index -> Node]
        /\ Parents' = {0} /\ Slots' = Index \ {0}
        /\ nodes'[0] = Root
    BY <1>1, <1>2, Places DEF Parents, Slots
  <2>2. ChildrenOf(0)' = {}
    BY <1>1, <2>1, Places DEF ChildrenOf
  <2>3. \A j \in Slots' : 0 < j
    BY <2>1, Places
  <2> QED
    BY <1>1, <2>1, <2>2, <2>3 DEF TreeHolds, IsNewest
<1>3. ASSUME nodes' = [i \in Index |-> Free] PROVE TreeHolds'
  <2>1. nodes' \in [Index -> Node] /\ Parents' = {}
    BY <1>1, <1>3 DEF Parents
  <2> QED
    BY <2>1 DEF TreeHolds
<1> QED
  BY <1>2, <1>3

-----------------------------------------------------------------------------
(***************************************************************************)
(* The walk down the tree.                                                 *)
(***************************************************************************)
Trip == [cur : Place, best : [node : Place, depth : 0 .. MaxDepth]]

Deep(words) == IF Len(words) < MaxDepth THEN Len(words) ELSE MaxDepth

LEMMA DescendType ==
    ASSUME nodes \in [Index -> Node], NEW way \in Trip, NEW words, NEW depth \in 1 .. MaxDepth
    PROVE  Descend(way, words, depth) \in Trip
<1>1. MaxDepth \in Nat /\ depth \in 0 .. MaxDepth
  BY ConsoleAssumption
<1> DEFINE child == IF way.cur = Null THEN Null ELSE Found(nodes[way.cur].first, Hash(words[depth]))
<1>2. child \in Place
  <2>1. CASE way.cur = Null
    BY <2>1 DEF Place
  <2>2. CASE way.cur # Null
    <3>1. nodes[way.cur].first \in Place
      BY <2>2 DEF Trip, Place, Node
    <3> DEFINE Way == (0 .. MaxNodes) \X Place
    <3>2. <<0, nodes[way.cur].first>> \in Way
      BY <3>1, Places
    <3>3. ASSUME NEW n \in 1 .. MaxNodes, NEW i \in Place
          PROVE  <<n, GoOn(i, Hash(words[depth]))>> \in Way
      BY Places DEF GoOn, Place, Node
    <3> HIDE DEF Way
    <3>4. Found(nodes[way.cur].first, Hash(words[depth])) \in Place
      BY <3>1, <3>2, <3>3, FoundLoop
    <3> QED
      BY <2>2, <3>4
  <2> QED
    BY <2>1, <2>2
<1>3. Descend(way, words, depth) = IF child = Null THEN [way EXCEPT !.cur = Null]
                                   ELSE [cur |-> child, best |-> Better(way.best, child, depth)]
  BY DEF Descend
<1> HIDE DEF child
<1>4. Better(way.best, child, depth) \in [node : Place, depth : 0 .. MaxDepth]
  BY <1>1, <1>2 DEF Better, Trip
<1>5. [way EXCEPT !.cur = Null] \in Trip
  BY DEF Trip, Place
<1> QED
  BY <1>2, <1>3, <1>4, <1>5 DEF Trip

\* What holds at the root, and a word further down if before it, holds of the
\* trip whose best match the walk returns.
LEMMA WalkLoop ==
    ASSUME nodes \in [Index -> Node], NEW words, Len(words) \in Nat,
           NEW Good, <<0, [cur |-> 0, best |-> NoMatch]>> \in Good,
           \A n \in 1 .. Deep(words), way \in Trip :
              <<n - 1, way>> \in Good => <<n, Descend(way, words, n)>> \in Good
    PROVE  \E way \in Trip : Walk(words) = way.best /\ <<Deep(words), way>> \in Good
<1> DEFINE N == Deep(words)
           base == [cur |-> 0, best |-> NoMatch]
           Step == [nw \in (1 .. N) \X Trip |-> Descend(nw[2], words, nw[1])]
           Is(f) == f = [n \in 0 .. N |-> IF n = 0 THEN base ELSE Descend(f[n - 1], words, n)]
           after == CHOOSE f : Is(f)
<1>1. N \in Nat /\ MaxDepth \in Nat /\ N <= MaxDepth
  BY ConsoleAssumption DEF Deep
<1>2. base \in Trip
  BY <1>1, Places DEF Trip, Place, NoMatch
<1> HIDE DEF N, base
<1>3. \A n \in 1 .. N, way \in Trip : Descend(way, words, n) \in Trip
  BY <1>1, DescendType
<1>4. Step \in [(1 .. N) \X Trip -> Trip]
  BY <1>3
<1>5. PICK f : Goes(f, N, Trip, base, Step)
  <2> HIDE DEF Step
  <2> QED
    BY <1>1, <1>2, <1>4, RecursionDefines
<1>6. Is(f)
  <2>1. ASSUME NEW n \in 1 .. N PROVE f[n] = Descend(f[n - 1], words, n)
    <3>1. n - 1 \in 0 .. N
      BY <1>1
    <3>2. <<n, f[n - 1]>> \in (1 .. N) \X Trip
      BY <1>5, <3>1 DEF Goes
    <3>3. f[n] = Step[<<n, f[n - 1]>>]
      <4> HIDE DEF Step
      <4> QED
        BY <1>5 DEF Goes
    <3> QED
      BY <3>2, <3>3
  <2> DEFINE g == [n \in 0 .. N |-> IF n = 0 THEN base ELSE Descend(f[n - 1], words, n)]
  <2>2. ASSUME NEW n \in 0 .. N PROVE f[n] = g[n]
    <3>1. g[n] = IF n = 0 THEN base ELSE Descend(f[n - 1], words, n)
      OBVIOUS
    <3>2. n = 0 \/ n \in 1 .. N
      BY <1>1
    <3> HIDE DEF g, Step
    <3> QED
      BY <1>5, <2>1, <3>1, <3>2 DEF Goes
  <2>3. f \in [0 .. N -> Trip] /\ g = [n \in 0 .. N |-> g[n]]
    BY <1>5 DEF Goes
  <2>4. f = g
    <3> HIDE DEF g, Step
    <3> QED
      BY <2>2, <2>3
  <2> QED
    BY <2>4
<1>7. Is(after)
  <2> HIDE DEF Is
  <2> QED
    BY <1>6
<1>8. after[0] = base /\ \A n \in 1 .. N : after[n] = Descend(after[n - 1], words, n)
  <2> HIDE DEF after
  <2>1. ASSUME NEW n \in 0 .. N
        PROVE  after[n] = IF n = 0 THEN base ELSE Descend(after[n - 1], words, n)
    BY <1>7
  <2>2. ASSUME NEW n \in 1 .. N PROVE after[n] = Descend(after[n - 1], words, n)
    <3>1. n \in 0 .. N /\ n # 0
      BY <1>1
    <3> QED
      BY <2>1, <3>1
  <2>3. after[0] = base
    <3>1. 0 \in 0 .. N
      BY <1>1
    <3> QED
      BY <2>1, <3>1
  <2> QED
    BY <2>2, <2>3
<1> DEFINE S == {n \in 0 .. N : after[n] \in Trip /\ <<n, after[n]>> \in Good}
<1>9. 0 .. N \subseteq S
  <2> HIDE DEF after
  <2>1. 0 \in S
    BY <1>1, <1>2, <1>8 DEF base
  <2>2. ASSUME NEW n \in 0 .. N - 1, n \in S PROVE n + 1 \in S
    <3>1. /\ n + 1 \in 1 .. N /\ (n + 1) - 1 = n
          /\ after[n + 1] = Descend(after[n], words, n + 1)
      BY <1>1, <1>8
    <3> QED
      BY <1>3, <2>2, <3>1 DEF N
  <2> HIDE DEF S
  <2> QED
    BY <1>1, <2>1, <2>2, UpTo
<1>10. Walk(words) = after[N].best
  BY DEF Walk, N, Deep, base
<1> HIDE DEF after
<1> QED
  BY <1>1, <1>9, <1>10 DEF N

\* The words on a way down are those of the line.
Spells(way, hashes, depth) == \A d \in 1 .. depth : nodes[way[d]].hash = hashes[d]

\* One node further down a way: the children at hand are the nodes that can
\* come next.
LEMMA FurtherDown ==
    ASSUME TreeHolds, NEW n \in Nat, n > 0, NEW i \in Index,
           NEW e \in Nat, n <= e, NEW way \in Ways(e), way[n - 1] = i
    PROVE  /\ way[n] \in ChildrenOf(i) /\ way[n] \in Index
           /\ \A j \in ChildrenOf(i) :
                 nodes[j].hash = nodes[way[n]].hash => j <= way[n]
<1>1. n \in 1 .. e /\ n \in 0 .. e
  OBVIOUS
<1>2. way \in [0 .. e -> Index] /\ way[n] # 0 /\ nodes[way[n]].used /\ ~Hidden(way[n])
      /\ nodes[way[n]].parent = i
  BY <1>1 DEF Ways
<1>3. way[n] \in Index
  BY <1>1, <1>2
<1>4. way[n] \in ChildrenOf(i)
  BY <1>2, <1>3 DEF ChildrenOf, Parents
<1>5. ASSUME NEW j \in ChildrenOf(i), nodes[j].hash = nodes[way[n]].hash PROVE j <= way[n]
  <2>1. j \in Index /\ nodes[j].used /\ nodes[j].parent = i
    BY DEF ChildrenOf, Parents
  <2>2. ~(j > way[n])
    BY <1>2, <1>5, <2>1 DEF Hidden
  <2> QED
    BY <1>3, <2>1, <2>2, Places
<1> QED
  BY <1>3, <1>4, <1>5

\* A way goes on to the newest child of its hash.
LEMMA WayGoesOn ==
    ASSUME TreeHolds, NEW n \in Nat, n > 0, NEW way \in Ways(n - 1), NEW hash,
           NEW child, child \in ChildrenOf(way[n - 1]), nodes[child].hash = hash,
           \A j \in ChildrenOf(way[n - 1]) : nodes[j].hash = hash => j <= child
    PROVE  \E on \in Ways(n) : /\ on[n] = child
                               /\ \A d \in 0 .. n - 1 : on[d] = way[d]
<1> DEFINE on == [d \in 0 .. n |-> IF d = n THEN child ELSE way[d]]
<1>1. /\ way \in [0 .. n - 1 -> Index] /\ way[0] = 0
      /\ \A d \in 1 .. n - 1 : /\ way[d] # 0 /\ nodes[way[d]].used /\ ~Hidden(way[d])
                               /\ nodes[way[d]].parent = way[d - 1]
  BY DEF Ways
<1>2. way[n - 1] \in Index
  BY <1>1
<1>3. /\ child \in Index /\ nodes[child].used /\ nodes[child].parent = way[n - 1]
  BY DEF ChildrenOf, Parents
<1>4. child # 0
  BY <1>2, <1>3, Places DEF TreeHolds, Parents
<1>5. ~Hidden(child)
  <2>1. ASSUME NEW j \in Index, j > child, nodes[j].used,
               nodes[j].parent = nodes[child].parent, nodes[j].hash = nodes[child].hash
        PROVE  FALSE
    <3>1. j \in ChildrenOf(way[n - 1])
      BY <1>3, <2>1 DEF ChildrenOf, Parents
    <3>2. j <= child
      BY <2>1, <3>1
    <3> QED
      BY <1>3, <2>1, <3>2, Places
  <2> QED
    BY <2>1 DEF Hidden
<1>6. on \in [0 .. n -> Index] /\ on[n] = child /\ \A d \in 0 .. n - 1 : on[d] = way[d]
  BY <1>1, <1>3
<1> HIDE DEF on
<1>7. ASSUME NEW d \in 1 .. n
      PROVE  /\ on[d] # 0 /\ nodes[on[d]].used /\ ~Hidden(on[d])
             /\ nodes[on[d]].parent = on[d - 1]
  <2>1. CASE d = n
    <3>1. on[d - 1] = way[n - 1]
      BY <1>6, <2>1
    <3> QED
      BY <1>3, <1>4, <1>5, <1>6, <2>1, <3>1
  <2>2. CASE d # n
    <3>1. d \in 1 .. n - 1 /\ d \in 0 .. n - 1 /\ d - 1 \in 0 .. n - 1
      BY <2>2
    <3> QED
      BY <1>1, <1>6, <3>1
  <2> QED
    BY <2>1, <2>2
<1>8. on[0] = 0
  BY <1>1, <1>6
<1>9. on \in Ways(n)
  BY <1>6, <1>7, <1>8 DEF Ways
<1> QED
  BY <1>6, <1>9

\* What is known of a trip n words down: the node it is at, if any, is the one
\* every way there leads to, and the best match is the deepest so far.
Knows(way, n, hashes) ==
    /\ IF way.cur = Null
       THEN \A m \in Meant(hashes) : m.depth < n
       ELSE /\ \E w \in Ways(n) : w[n] = way.cur /\ Spells(w, hashes, n)
            /\ \A e \in Nat : \A w \in Ways(e) :
                  n <= e /\ Spells(w, hashes, n) => w[n] = way.cur
    /\ IF way.best = NoMatch
       THEN \A m \in Meant(hashes) : m.depth > n
       ELSE /\ way.best \in Meant(hashes) /\ way.best.depth <= n
            /\ \A m \in Meant(hashes) : m.depth <= n => m.depth <= way.best.depth

LEMMA MeantIs ==
    ASSUME NEW hashes, NEW m \in Meant(hashes)
    PROVE  /\ m \in [node : Index, depth : 1 .. MaxDepth] /\ m.depth \in Nat /\ m.depth > 0
           /\ m.depth <= Len(hashes) /\ nodes[m.node].handler
           /\ \E w \in Ways(m.depth) : w[m.depth] = m.node /\ Spells(w, hashes, m.depth)
  BY ConsoleAssumption DEF Meant, Spells

LEMMA DescendKnows ==
    ASSUME TreeHolds, 0 \in Parents, NEW words, Len(words) \in Nat,
           NEW hashes, Len(hashes) = Len(words),
           \A d \in 1 .. Len(words) : hashes[d] = Hash(words[d]),
           NEW n \in 1 .. Deep(words), NEW way \in Trip, Knows(way, n - 1, hashes)
    PROVE  Knows(Descend(way, words, n), n, hashes)
<1>1. /\ n \in Nat /\ n > 0 /\ n \in 1 .. Len(words) /\ n <= MaxDepth /\ n - 1 \in Nat
      /\ MaxDepth \in Nat /\ n \in 1 .. MaxDepth /\ n <= Len(hashes)
  BY ConsoleAssumption DEF Deep
<1>2. hashes[n] = Hash(words[n])
  BY <1>1
<1>3. Null \notin Index /\ NoMatch.node = Null /\ way.cur \in Place
      /\ way.best \in [node : Place, depth : 0 .. MaxDepth]
  BY Places DEF NoMatch, Trip
<1>4. CASE way.cur = Null
  <2>1. Descend(way, words, n) = [way EXCEPT !.cur = Null]
    BY <1>4 DEF Descend
  <2> DEFINE on == [way EXCEPT !.cur = Null]
  <2>2. on.cur = Null /\ on.best = way.best
    BY DEF Trip
  <2> HIDE DEF on
  <2>3. \A m \in Meant(hashes) : m.depth < n - 1
    BY <1>4 DEF Knows
  <2>4. \A m \in Meant(hashes) : m.depth \in Nat
    BY MeantIs
  <2>5. \A m \in Meant(hashes) : m.depth < n /\ (m.depth <= n => m.depth <= n - 1)
    BY <1>1, <2>3, <2>4
  <2>6. IF way.best = NoMatch
        THEN Meant(hashes) = {}
        ELSE /\ way.best \in Meant(hashes) /\ way.best.depth <= n - 1
             /\ \A m \in Meant(hashes) : m.depth <= n - 1 => m.depth <= way.best.depth
    BY <1>1, <2>3, <2>4 DEF Knows
  <2>7. Knows(on, n, hashes)
    BY <1>1, <2>2, <2>4, <2>5, <2>6 DEF Knows
  <2> QED
    BY <2>1, <2>7 DEF on
<1>5. CASE way.cur # Null
  <2> DEFINE i == way.cur
             C == ChildrenOf(i)
             child == Found(nodes[i].first, hashes[n])
             H == {j \in C : nodes[j].hash = hashes[n]}
  <2>1. PICK w \in Ways(n - 1) : w[n - 1] = i /\ Spells(w, hashes, n - 1)
    BY <1>5 DEF Knows
  <2>2. \A e \in Nat : \A v \in Ways(e) :
           n - 1 <= e /\ Spells(v, hashes, n - 1) => v[n - 1] = i
    BY <1>5 DEF Knows
  <2>3. i \in Parents /\ i \in Index
    <3>1. CASE n - 1 = 0
      <4>1. i = 0
        BY <2>1, <3>1 DEF Ways
      <4> QED
        BY <4>1, Places
    <3>2. CASE n - 1 # 0
      <4>1. n - 1 \in 1 .. n - 1 /\ n - 1 \in 0 .. n - 1
        BY <1>1, <3>2
      <4> QED
        BY <2>1, <4>1 DEF Ways, Parents
    <3> QED
      BY <3>1, <3>2
  <2>4. IsNewest(child, H)
    BY <2>3, FindsNewest
  <2>5. Descend(way, words, n) = IF child = Null THEN [way EXCEPT !.cur = Null]
                                 ELSE [cur |-> child, best |-> Better(way.best, child, n)]
    BY <1>2, <1>5 DEF Descend
  <2>6. H \subseteq C /\ C \subseteq Index /\ H \subseteq Index
    BY DEF ChildrenOf, Parents
  <2> HIDE DEF i, C, child
  \* Every way that spells n words takes the newest child of the n-th.
  <2>7. ASSUME NEW e \in Nat, NEW v \in Ways(e), n <= e, Spells(v, hashes, n)
        PROVE  v[n] \in H /\ v[n] = child
    <3>1. Spells(v, hashes, n - 1) /\ nodes[v[n]].hash = hashes[n]
      BY <1>1, <2>7 DEF Spells
    <3>2. v[n - 1] = i
      BY <1>1, <2>2, <2>7, <3>1
    <3>3. v[n] \in C /\ v[n] \in Index
          /\ \A j \in C : nodes[j].hash = nodes[v[n]].hash => j <= v[n]
      BY <1>1, <2>3, <2>7, <3>2, FurtherDown DEF C
    <3>4. v[n] \in H /\ \A j \in H : j <= v[n]
      BY <3>1, <3>3
    <3>5. child \in H /\ v[n] <= child /\ child <= v[n]
      BY <2>4, <3>4 DEF IsNewest
    <3> QED
      BY <2>6, <3>3, <3>4, <3>5, Places
  <2>8. ASSUME NEW m \in Meant(hashes), n <= m.depth PROVE H # {}
    <3>1. PICK v \in Ways(m.depth) : Spells(v, hashes, m.depth)
      BY MeantIs
    <3>2. m.depth \in Nat /\ Spells(v, hashes, n)
      BY <1>1, <2>8, <3>1, MeantIs DEF Spells
    <3> QED
      BY <2>7, <2>8, <3>1, <3>2
  <2>9. CASE child = Null
    <3>1. H = {}
      BY <2>4, <2>6, <2>9, <1>3 DEF IsNewest
    <3> DEFINE on == [way EXCEPT !.cur = Null]
    <3>2. on.cur = Null /\ on.best = way.best
      BY DEF Trip
    <3> HIDE DEF on
    <3>3. \A m \in Meant(hashes) : m.depth \in Nat /\ m.depth < n
      BY <1>1, <2>8, <3>1, MeantIs
    <3>4. Knows(on, n, hashes)
      <4>1. CASE way.best = NoMatch
        BY <1>1, <3>2, <3>3, <4>1 DEF Knows
      <4>2. CASE way.best # NoMatch
        BY <1>1, <3>2, <3>3, <4>2 DEF Knows
      <4> QED
        BY <4>1, <4>2
    <3> QED
      BY <2>5, <2>9, <3>4 DEF on
  <2>10. CASE child # Null
    <3>1. child \in H /\ \A j \in H : j <= child
      BY <2>4, <2>10 DEF IsNewest
    <3>2. child \in C /\ nodes[child].hash = hashes[n] /\ child \in Index
      BY <2>6, <3>1
    <3>3. \A j \in ChildrenOf(w[n - 1]) : nodes[j].hash = hashes[n] => j <= child
      BY <2>1, <3>1 DEF C
    <3>4. PICK on \in Ways(n) : on[n] = child /\ \A d \in 0 .. n - 1 : on[d] = w[d]
      BY <1>1, <2>1, <3>2, <3>3, WayGoesOn DEF C
    <3>5. Spells(on, hashes, n)
      <4>1. ASSUME NEW d \in 1 .. n PROVE nodes[on[d]].hash = hashes[d]
        <5>1. CASE d = n
          BY <3>2, <3>4, <5>1
        <5>2. CASE d # n
          <6>1. d \in 1 .. n - 1 /\ d \in 0 .. n - 1
            BY <1>1, <5>2
          <6> QED
            BY <2>1, <3>4, <6>1 DEF Spells
        <5> QED
          BY <5>1, <5>2
      <4> QED
        BY <4>1 DEF Spells
    <3> DEFINE found == [node |-> child, depth |-> n]
               best == Better(way.best, child, n)
               new == [cur |-> child, best |-> best]
    <3>6. ASSUME nodes[child].handler PROVE found \in Meant(hashes)
      <4>1. found \in [node : Index, depth : 1 .. MaxDepth] /\ found.node = child /\ found.depth = n
        BY <1>1, <3>2
      <4> HIDE DEF found
      <4> QED
        BY <1>1, <3>4, <3>5, <3>6, <4>1 DEF Meant, Spells
    <3>7. ASSUME NEW m \in Meant(hashes), m.depth = n PROVE nodes[child].handler
      <4>1. PICK v \in Ways(n) : v[n] = m.node /\ Spells(v, hashes, n)
        BY <3>7, MeantIs
      <4>2. v[n] = child
        BY <1>1, <2>7, <4>1
      <4> QED
        BY <4>1, <4>2, MeantIs
    <3>8. \A m \in Meant(hashes) : m.depth \in Nat
      BY MeantIs
    <3>9. IF best = NoMatch
          THEN \A m \in Meant(hashes) : m.depth > n
          ELSE /\ best \in Meant(hashes) /\ best.depth <= n
               /\ \A m \in Meant(hashes) : m.depth <= n => m.depth <= best.depth
      <4>1. CASE nodes[child].handler
        <5>1. best = found /\ found.node = child /\ found.depth = n /\ found # NoMatch
          BY <1>3, <3>2, <4>1 DEF Better
        <5> HIDE DEF found, best
        <5> QED
          BY <1>1, <3>6, <4>1, <5>1
      <4>2. CASE ~nodes[child].handler
        <5>1. best = way.best
          BY <4>2 DEF Better
        <5>2. \A m \in Meant(hashes) : m.depth # n
          BY <3>7, <4>2
        <5> HIDE DEF best
        <5>3. CASE best = NoMatch
          <6>1. \A m \in Meant(hashes) : m.depth > n - 1
            BY <5>1, <5>3 DEF Knows
          <6> QED
            BY <1>1, <3>8, <5>2, <5>3, <6>1
        <5>4. CASE best # NoMatch
          <6>1. /\ best \in Meant(hashes) /\ best.depth <= n - 1
                /\ \A m \in Meant(hashes) : m.depth <= n - 1 => m.depth <= best.depth
            BY <5>1, <5>4 DEF Knows
          <6>2. \A m \in Meant(hashes) : m.depth <= n => m.depth <= n - 1
            BY <1>1, <3>8, <5>2
          <6> QED
            BY <1>1, <3>8, <5>4, <6>1, <6>2
        <5> QED
          BY <5>3, <5>4
      <4> QED
        BY <4>1, <4>2
    <3>10. new.cur = child /\ new.best = best
      OBVIOUS
    <3> HIDE DEF new, best
    <3>11. Knows(new, n, hashes)
      <4>1. \A e \in Nat : \A v \in Ways(e) :
               n <= e /\ Spells(v, hashes, n) => v[n] = child
        BY <2>7
      <4> QED
        BY <2>10, <3>4, <3>5, <3>9, <3>10, <4>1 DEF Knows
    <3> QED
      BY <2>5, <2>10, <3>11 DEF new, best
  <2> QED
    BY <2>9, <2>10
<1> QED
  BY <1>4, <1>5

\* The walk returns the deepest command that is meant, or none if none is.
LEMMA WalkFindsDeepest ==
    ASSUME TreeHolds, 0 \in Parents, NEW words, Len(words) \in Nat,
           NEW hashes, Len(hashes) = Len(words),
           \A d \in 1 .. Len(words) : hashes[d] = Hash(words[d])
    PROVE  /\ Walk(words) \in [node : Place, depth : 0 .. MaxDepth]
           /\ Walk(words) = NoMatch => Meant(hashes) = {}
           /\ Walk(words) # NoMatch =>
                /\ Walk(words) \in Meant(hashes)
                /\ \A m \in Meant(hashes) : m.depth <= Walk(words).depth
<1> DEFINE N == Deep(words)
           base == [cur |-> 0, best |-> NoMatch]
           Good == {nw \in (0 .. N) \X Trip : Knows(nw[2], nw[1], hashes)}
<1>1. N \in Nat /\ MaxDepth \in Nat /\ N <= MaxDepth /\ N <= Len(hashes)
      /\ (N = MaxDepth \/ N = Len(hashes))
  BY ConsoleAssumption DEF Deep
<1>2. \A m \in Meant(hashes) : m.depth \in Nat /\ m.depth > 0 /\ m.depth <= N
  <2>1. ASSUME NEW m \in Meant(hashes) PROVE m.depth \in Nat /\ m.depth > 0 /\ m.depth <= N
    <3>1. m.depth \in Nat /\ m.depth > 0 /\ m.depth <= MaxDepth /\ m.depth <= Len(hashes)
      BY <1>1, MeantIs
    <3> QED
      BY <1>1, <3>1
  <2> QED
    BY <2>1
<1>3. base \in Trip
  BY <1>1, Places DEF Trip, Place, NoMatch
<1>4. Knows(base, 0, hashes)
  <2>1. base.cur = 0 /\ base.best = NoMatch
    OBVIOUS
  <2> HIDE DEF base
  <2>2. 0 # Null
    BY Places
  <2> DEFINE w == [d \in 0 .. 0 |-> 0]
  <2>3. w \in [0 .. 0 -> Index] /\ w[0] = 0 /\ 1 .. 0 = {}
    BY Places
  <2> HIDE DEF w
  <2>4. w \in Ways(0) /\ Spells(w, hashes, 0)
    BY <2>3 DEF Ways, Spells
  <2>5. \A e \in Nat : \A v \in Ways(e) : v[0] = 0
    BY DEF Ways
  <2> QED
    BY <1>2, <2>1, <2>2, <2>3, <2>4, <2>5 DEF Knows
<1>5. <<0, base>> \in Good
  BY <1>1, <1>3, <1>4
<1>6. ASSUME NEW n \in 1 .. N, NEW way \in Trip, <<n - 1, way>> \in Good
      PROVE  <<n, Descend(way, words, n)>> \in Good
  <2>1. Knows(way, n - 1, hashes)
    BY <1>6
  <2>2. Knows(Descend(way, words, n), n, hashes)
    BY <2>1, DescendKnows
  <2>3. n \in 1 .. MaxDepth /\ n \in 0 .. N
    BY <1>1
  <2>4. Descend(way, words, n) \in Trip
    BY <2>3, DescendType DEF TreeHolds
  <2> QED
    BY <2>2, <2>3, <2>4
<1>7. PICK way \in Trip : Walk(words) = way.best /\ <<N, way>> \in Good
  <2>1. nodes \in [Index -> Node]
    BY DEF TreeHolds
  <2> HIDE DEF Good
  <2> QED
    BY <1>5, <1>6, <2>1, WalkLoop
<1>8. Knows(way, N, hashes)
  BY <1>7
<1>9. way.best \in [node : Place, depth : 0 .. MaxDepth]
  BY DEF Trip
<1> HIDE DEF N
<1>10. CASE way.best = NoMatch
  <2>1. \A m \in Meant(hashes) : m.depth > N
    BY <1>8, <1>10 DEF Knows
  <2>2. Meant(hashes) = {}
    BY <1>1, <1>2, <2>1
  <2> QED
    BY <1>7, <1>9, <1>10, <2>2
<1>11. CASE way.best # NoMatch
  <2>1. /\ way.best \in Meant(hashes)
        /\ \A m \in Meant(hashes) : m.depth <= N => m.depth <= way.best.depth
    BY <1>8, <1>11 DEF Knows
  <2> QED
    BY <1>2, <1>7, <1>9, <1>11, <2>1
<1> QED
  BY <1>10, <1>11

-----------------------------------------------------------------------------
(***************************************************************************)
(* The tokens of a line.  The quotes before a place tell whether it is     *)
(* outside: a quote changes the side, nothing else does.                   *)
(***************************************************************************)
LEMMA QuoteChangesSide ==
    ASSUME NEW s, NEW i \in Nat, i > 0
    PROVE  /\ Outside(s, i) \in BOOLEAN
           /\ s[i] = Quote => Outside(s, i + 1) = ~Outside(s, i)
           /\ s[i] # Quote => Outside(s, i + 1) = Outside(s, i)
<1> DEFINE B == {j \in 1 .. i - 1 : s[j] = Quote}
           A == {j \in 1 .. (i + 1) - 1 : s[j] = Quote}
<1>1. IsFiniteSet(B) /\ Cardinality(B) \in Nat
  <2>1. IsFiniteSet(1 .. i - 1)
    BY FS_Interval
  <2> QED
    BY <2>1, FS_Subset, FS_CardinalityType
<1>2. Outside(s, i) <=> Cardinality(B) % 2 = 0
  BY DEF Outside, QuotesBefore
<1>3. Outside(s, i + 1) <=> Cardinality(A) % 2 = 0
  BY DEF Outside, QuotesBefore
<1>4. Outside(s, i) \in BOOLEAN /\ Outside(s, i + 1) \in BOOLEAN
  BY DEF Outside
<1>5. CASE s[i] = Quote
  <2>1. A = B \cup {i} /\ i \notin B
    BY <1>5
  <2> HIDE DEF A, B
  <2>2. Cardinality(A) = Cardinality(B) + 1
    BY <1>1, <2>1, FS_AddElement
  <2>3. \A n \in Nat : (n + 1) % 2 = 0 <=> ~(n % 2 = 0)
    OBVIOUS
  <2>4. Outside(s, i + 1) <=> ~Outside(s, i)
    BY <1>1, <1>2, <1>3, <2>2, <2>3
  <2> QED
    BY <1>4, <1>5, <2>4
<1>6. CASE s[i] # Quote
  <2>1. A = B
    BY <1>6
  <2> HIDE DEF A, B
  <2> QED
    BY <1>2, <1>3, <1>4, <1>6, <2>1
<1> QED
  BY <1>5, <1>6

LEMMA FirstIsOutside == \A s : Outside(s, 1)
<1> SUFFICES ASSUME NEW s PROVE Outside(s, 1)
  OBVIOUS
<1>1. {j \in 1 .. 1 - 1 : s[j] = Quote} = {}
  OBVIOUS
<1>2. QuotesBefore(s, 1) = 0
  BY <1>1, FS_EmptySet DEF QuotesBefore
<1> QED
  BY <1>2 DEF Outside

\* Without a quote between them two places are on one side.
LEMMA SameSide ==
    ASSUME NEW s, NEW i \in Nat, i > 0, NEW j \in Nat, i <= j,
           \A k \in i .. j - 1 : s[k] # Quote
    PROVE  Outside(s, j) = Outside(s, i)
<1> DEFINE N == j - i
           S == {n \in 0 .. N : Outside(s, i + n) = Outside(s, i)}
<1>1. N \in Nat
  OBVIOUS
<1>2. 0 \in S
  BY <1>1
<1>3. ASSUME NEW n \in 0 .. N - 1, n \in S PROVE n + 1 \in S
  <2>1. i + n \in Nat /\ i + n > 0 /\ i + n \in i .. j - 1 /\ (i + n) + 1 = i + (n + 1)
    BY <1>3
  <2>2. Outside(s, (i + n) + 1) = Outside(s, i + n)
    BY <2>1, QuoteChangesSide
  <2> QED
    BY <1>3, <2>1, <2>2
<1>4. N \in S
  <2> HIDE DEF S
  <2>1. 0 .. N \subseteq S
    BY <1>1, <1>2, <1>3, UpTo
  <2> QED
    BY <1>1, <2>1
<1> QED
  BY <1>4

\* The first place a scan stops at.
LEMMA FirstSuch ==
    ASSUME NEW n \in Nat, NEW i \in 1 .. n + 1, NEW S, S \subseteq i .. n, S # {}
    PROVE  \E j \in S : \A k \in i .. j - 1 : k \notin S
<1>1. S \subseteq Nat
  OBVIOUS
<1>2. PICK j \in S : \A k \in S : j <= k
  BY <1>1, LeastOf
<1>3. j \in Nat
  BY <1>1
<1> QED
  BY <1>2, <1>3

LEMMA ReachStops ==
    ASSUME NEW s, Len(s) \in Nat, NEW i \in 1 .. Len(s) + 1, NEW stop
    PROVE  /\ Reach(s, i, stop) \in i .. Len(s) + 1
           /\ \A k \in i .. Reach(s, i, stop) - 1 : s[k] \notin stop
           /\ Reach(s, i, stop) <= Len(s) => s[Reach(s, i, stop)] \in stop
<1> DEFINE S == {j \in i .. Len(s) : s[j] \in stop}
           e == Reach(s, i, stop)
<1>1. CASE S # {}
  <2>1. \E j \in S : \A k \in i .. j - 1 : k \notin S
    <3>1. S \subseteq i .. Len(s)
      OBVIOUS
    <3> HIDE DEF S
    <3> QED
      BY <1>1, <3>1, FirstSuch
  <2>2. \E j \in i .. Len(s) : s[j] \in stop /\ \A k \in i .. j - 1 : s[k] \notin stop
    <3>1. PICK j \in S : \A k \in i .. j - 1 : k \notin S
      BY <2>1
    <3>2. \A k \in i .. j - 1 : k \in i .. Len(s)
      BY <3>1
    <3> QED
      BY <3>1, <3>2
  <2>3. e \in i .. Len(s) /\ s[e] \in stop /\ \A k \in i .. e - 1 : s[k] \notin stop
    BY <1>1, <2>2 DEF Reach
  <2> HIDE DEF e
  <2> QED
    BY <2>3 DEF e
<1>2. CASE S = {}
  <2>1. e = Len(s) + 1
    BY <1>2 DEF Reach
  <2> HIDE DEF e
  <2> QED
    BY <1>2, <2>1 DEF e
<1> QED
  BY <1>1, <1>2

LEMMA SkipBlanksStops ==
    ASSUME NEW s, Len(s) \in Nat, NEW i \in 1 .. Len(s) + 1
    PROVE  /\ SkipBlanks(s, i) \in i .. Len(s) + 1
           /\ \A k \in i .. SkipBlanks(s, i) - 1 : s[k] = Blank
           /\ SkipBlanks(s, i) <= Len(s) => s[SkipBlanks(s, i)] # Blank
<1> DEFINE S == {j \in i .. Len(s) : s[j] # Blank}
           e == SkipBlanks(s, i)
<1>1. CASE S # {}
  <2>1. \E j \in S : \A k \in i .. j - 1 : k \notin S
    <3>1. S \subseteq i .. Len(s)
      OBVIOUS
    <3> HIDE DEF S
    <3> QED
      BY <1>1, <3>1, FirstSuch
  <2>2. \E j \in i .. Len(s) : s[j] # Blank /\ \A k \in i .. j - 1 : s[k] = Blank
    <3>1. PICK j \in S : \A k \in i .. j - 1 : k \notin S
      BY <2>1
    <3>2. \A k \in i .. j - 1 : k \in i .. Len(s)
      BY <3>1
    <3> QED
      BY <3>1, <3>2
  <2>3. e \in i .. Len(s) /\ s[e] # Blank /\ \A k \in i .. e - 1 : s[k] = Blank
    BY <1>1, <2>2 DEF SkipBlanks
  <2> HIDE DEF e
  <2> QED
    BY <2>3 DEF e
<1>2. CASE S = {}
  <2>1. e = Len(s) + 1
    BY <1>2 DEF SkipBlanks
  <2> HIDE DEF e
  <2> QED
    BY <1>2, <2>1 DEF e
<1> QED
  BY <1>1, <1>2

-----------------------------------------------------------------------------
Token(s) == [head : 1 .. Len(s) + 1, len : 0 .. Len(s)]

EndOf(t) == t.head + t.len - 1

\* The scanner is outside quotes, not inside a plain token, and has the tokens
\* that end before the place it is at, each once and in order.
Scanned(s, scan) ==
    /\ scan \in [at : 1 .. Len(s) + 1, tokens : Seq(Token(s))]
    /\ scan.at <= Len(s) => Outside(s, scan.at)
    /\ ~(Plain(s, scan.at - 1) /\ Plain(s, scan.at))
    /\ Range(scan.tokens) = {t \in TokensOf(s) : EndOf(t) < scan.at}
    /\ \A k \in DOMAIN scan.tokens : scan.at <= Len(s) => scan.tokens[k].head < scan.at
    /\ \A j, k \in DOMAIN scan.tokens : j < k => scan.tokens[j].head < scan.tokens[k].head

LEMMA TokenIs ==
    ASSUME NEW s, Len(s) \in Nat, NEW t
    PROVE  t \in TokensOf(s) <=> /\ t \in Token(s) /\ EndOf(t) <= Len(s)
                                 /\ IsToken(s, t)
  BY DEF TokensOf, Token, EndOf

\* What begins before the scanner's place ends before it.
LEMMA NoneStraddles ==
    ASSUME NEW s, Len(s) \in Nat, NEW p \in 1 .. Len(s), Outside(s, p),
           ~(Plain(s, p - 1) /\ Plain(s, p)),
           NEW h \in p .. Len(s) + 1, \A k \in p .. h - 1 : s[k] = Blank,
           NEW t \in TokensOf(s), EndOf(t) >= p
    PROVE  \/ /\ t.head > 1 /\ t.head - 1 >= h /\ s[t.head - 1] = Quote /\ Outside(s, t.head - 1)
              /\ \A i \in t.head .. EndOf(t) : s[i] # Quote
              /\ EndOf(t) = Len(s) \/ s[EndOf(t) + 1] = Quote
           \/ /\ t.len > 0 /\ t.head >= h
              /\ \A i \in t.head .. EndOf(t) : Plain(s, i)
              /\ ~Plain(s, t.head - 1) /\ ~Plain(s, EndOf(t) + 1)
<1>1. /\ t \in Token(s) /\ t.head \in Nat /\ t.head > 0 /\ t.len \in Nat
      /\ EndOf(t) \in Int /\ EndOf(t) <= Len(s) /\ EndOf(t) = t.head + t.len - 1
      /\ h \in Nat /\ p \in Nat /\ p > 0
      /\ IsToken(s, t)
  BY TokenIs DEF Token, EndOf
<1>2. CASE /\ t.head > 1 /\ s[t.head - 1] = Quote /\ Outside(s, t.head - 1)
           /\ \A i \in t.head .. EndOf(t) : s[i] # Quote
           /\ EndOf(t) = Len(s) \/ s[EndOf(t) + 1] = Quote
  <2> DEFINE q == t.head - 1
  <2>1. q \in Nat /\ q > 0 /\ t.head = q + 1
    <3>1. t.head \in Nat /\ t.head > 1
      BY <1>1, <1>2
    <3> QED
      BY <3>1
  <2>2. ~(q < p)
    <3> SUFFICES ASSUME q < p PROVE FALSE
      OBVIOUS
    <3>1. Outside(s, t.head) = ~Outside(s, q)
      BY <1>2, <2>1, QuoteChangesSide
    <3>2. t.head <= p /\ \A k \in t.head .. p - 1 : s[k] # Quote
      BY <1>1, <1>2, <2>1
    <3>3. Outside(s, p) = Outside(s, t.head)
      BY <1>1, <3>2, SameSide
    <3> QED
      BY <1>2, <3>1, <3>3
  <2>3. ~(q < h)
    <3> SUFFICES ASSUME q < h PROVE FALSE
      OBVIOUS
    <3>1. s[q] = Blank
      BY <1>1, <2>1, <2>2
    <3> QED
      BY <1>2, <3>1, ConsoleAssumption
  <2> QED
    BY <1>1, <1>2, <2>1, <2>3
<1>3. CASE /\ t.len > 0 /\ \A i \in t.head .. EndOf(t) : Plain(s, i)
           /\ ~Plain(s, t.head - 1) /\ ~Plain(s, EndOf(t) + 1)
  <2>1. ~(t.head < p)
    <3> SUFFICES ASSUME t.head < p PROVE FALSE
      OBVIOUS
    <3>1. p - 1 \in t.head .. EndOf(t) /\ p \in t.head .. EndOf(t)
      BY <1>1
    <3> QED
      BY <1>3, <3>1
  <2>2. Plain(s, t.head)
    BY <1>1, <1>3, SMTT(40)
  <2>3. ~(t.head < h)
    <3> SUFFICES ASSUME t.head < h PROVE FALSE
      OBVIOUS
    <3>1. s[t.head] = Blank
      BY <1>1, <2>1
    <3> QED
      BY <2>2, <3>1 DEF Plain
  <2> QED
    BY <1>1, <1>3, <2>3
<1> QED
  BY <1>1, <1>2, <1>3 DEF IsToken, EndOf

\* A quoted and a plain token, h .. e - 1 or h + 1 .. e - 1, the next after place p.
FromOutside(s, p, h) ==
    /\ p \in 1 .. Len(s) /\ Outside(s, p) /\ ~(Plain(s, p - 1) /\ Plain(s, p))
    /\ h \in p .. Len(s) /\ \A k \in p .. h - 1 : s[k] = Blank

QuotedFrom(s, p, h, e) ==
    /\ FromOutside(s, p, h) /\ s[h] = Quote
    /\ e \in h + 1 .. Len(s) + 1 /\ \A k \in h + 1 .. e - 1 : s[k] # Quote
    /\ e <= Len(s) => s[e] = Quote

PlainFrom(s, p, h, e) ==
    /\ FromOutside(s, p, h) /\ s[h] \notin {Blank, Quote}
    /\ e \in h .. Len(s) + 1 /\ \A k \in h .. e - 1 : s[k] \notin {Blank, Quote}
    /\ e <= Len(s) => s[e] \in {Blank, Quote}

\* A token in quotes: it is the one that ends next.
LEMMA QuotedIsNext ==
    ASSUME NEW s, Len(s) \in Nat, NEW p, NEW h, NEW e, QuotedFrom(s, p, h, e),
           NEW t0, t0 = [head |-> h + 1, len |-> e - (h + 1)],
           NEW at, at = (IF e > Len(s) THEN e ELSE e + 1)
    PROVE  /\ t0 \in TokensOf(s)
           /\ \A t \in TokensOf(s) : EndOf(t) >= p /\ EndOf(t) < at => t = t0
           /\ p <= EndOf(t0) + 1 /\ EndOf(t0) < at
           /\ at <= Len(s) => Outside(s, at)
           /\ ~Plain(s, at - 1) \/ ~Plain(s, at)
<1> SUFFICES ASSUME p \in 1 .. Len(s), Outside(s, p), ~(Plain(s, p - 1) /\ Plain(s, p)),
                    h \in p .. Len(s), \A k \in p .. h - 1 : s[k] = Blank,
                    s[h] = Quote,
                    e \in h + 1 .. Len(s) + 1, \A k \in h + 1 .. e - 1 : s[k] # Quote,
                    e <= Len(s) => s[e] = Quote
             PROVE  /\ t0 \in TokensOf(s)
                    /\ \A t \in TokensOf(s) : EndOf(t) >= p /\ EndOf(t) < at => t = t0
                    /\ p <= EndOf(t0) + 1 /\ EndOf(t0) < at
                    /\ at <= Len(s) => Outside(s, at)
                    /\ ~Plain(s, at - 1) \/ ~Plain(s, at)
  BY DEF QuotedFrom, FromOutside
<1>1. /\ Len(s) \in Nat /\ p \in Nat /\ h \in Nat /\ e \in Nat /\ p > 0 /\ h >= p /\ h > 0
      /\ h <= Len(s) /\ e > h /\ e <= Len(s) + 1
  OBVIOUS
<1>2. Outside(s, h)
  <2>1. \A k \in p .. h - 1 : s[k] # Quote
    BY ConsoleAssumption
  <2> QED
    BY <1>1, <2>1, SameSide
<1>3. ~Outside(s, h + 1)
  BY <1>1, <1>2, QuoteChangesSide
<1>4. ASSUME NEW k \in h + 1 .. e PROVE ~Outside(s, k)
  <2>1. k \in Nat /\ h + 1 \in Nat /\ h + 1 > 0 /\ h + 1 <= k
        /\ \A i \in h + 1 .. k - 1 : s[i] # Quote
    BY <1>1
  <2>2. Outside(s, k) = Outside(s, h + 1)
    BY <2>1, SameSide
  <2> QED
    BY <1>3, <2>2
<1>5. /\ t0.head = h + 1 /\ t0.len = e - (h + 1) /\ EndOf(t0) = e - 1 /\ t0 \in Token(s)
  BY <1>1 DEF Token, EndOf
<1>6. IsToken(s, t0)
  <2>1. t0.head > 1 /\ t0.head - 1 = h /\ t0.head + t0.len - 1 = e - 1
    BY <1>1, <1>5
  <2>2. e - 1 = Len(s) \/ s[(e - 1) + 1] = Quote
    BY <1>1
  <2> QED
    BY <1>2, <1>5, <2>1, <2>2 DEF IsToken
<1>7. t0 \in TokensOf(s)
  BY <1>1, <1>5, <1>6, TokenIs
<1>8. ASSUME NEW t \in TokensOf(s), EndOf(t) >= p, EndOf(t) < at PROVE t = t0
  <2>1. /\ t \in Token(s) /\ t.head \in Nat /\ t.head > 0 /\ t.head <= Len(s) + 1 /\ t.len \in Nat
        /\ EndOf(t) \in Int /\ EndOf(t) <= Len(s) /\ EndOf(t) = t.head + t.len - 1
    BY TokenIs DEF Token, EndOf
  <2>2. h \in p .. Len(s) + 1
    BY <1>1
  <2>3. CASE /\ t.head > 1 /\ t.head - 1 >= h /\ s[t.head - 1] = Quote /\ Outside(s, t.head - 1)
             /\ \A i \in t.head .. EndOf(t) : s[i] # Quote
             /\ EndOf(t) = Len(s) \/ s[EndOf(t) + 1] = Quote
    <3>1. CASE t.head - 1 = h
      <4>1. ~(EndOf(t) + 1 < e)
        <5> SUFFICES ASSUME EndOf(t) + 1 < e PROVE FALSE
          OBVIOUS
        <5>1. t.head = h + 1
          BY <1>1, <2>1, <3>1, SMTT(40)
        <5>2. EndOf(t) >= h /\ EndOf(t) + 1 <= e - 1 /\ EndOf(t) < Len(s)
          BY <1>1, <2>1, <5>1, SMTT(40)
        <5>3. EndOf(t) + 1 \in h + 1 .. e - 1 /\ EndOf(t) # Len(s)
          BY <1>1, <2>1, <5>2, SMTT(40)
        <5> QED
          BY <2>3, <5>3
      <4>2. ~(EndOf(t) + 1 > e)
        <5> SUFFICES ASSUME EndOf(t) + 1 > e PROVE FALSE
          OBVIOUS
        <5>1. t.head = h + 1
          BY <1>1, <2>1, <3>1
        <5>2. e <= EndOf(t) /\ t.head <= e
          BY <1>1, <2>1, <5>1
        <5>3. e \in t.head .. EndOf(t) /\ e <= Len(s)
          BY <1>1, <2>1, <5>2
        <5> QED
          BY <2>3, <5>3
      <4>3. t.head = h + 1 /\ t.len = e - (h + 1)
        <5>1. /\ t.len \in Nat /\ t.head \in Nat /\ h \in Nat /\ e \in Nat
              /\ EndOf(t) = t.head + t.len - 1 /\ EndOf(t) \in Int
          BY <1>1, <2>1
        <5>2. EndOf(t) + 1 = e
          <6>1. PICK z \in Int : z = EndOf(t) + 1
            BY <5>1
          <6>2. ~(z < e) /\ ~(z > e)
            BY <4>1, <4>2, <6>1
          <6>3. z = e
            BY <5>1, <6>2
          <6> QED
            BY <6>1, <6>3
        <5>3. t.head = h + 1
          BY <3>1, <5>1
        <5>4. (h + 1) + t.len = e
          BY <5>1, <5>2, <5>3
        <5>5. t.len = e - (h + 1)
          BY <5>1, <5>4
        <5> QED
          BY <5>3, <5>5
      <4> QED
        BY <2>1, <4>3 DEF Token
    <3>2. CASE t.head - 1 # h
      <4>1. t.head - 1 \in Nat /\ t.head - 1 >= h + 1
        <5>1. t.head - 1 >= h
          BY <2>3
        <5>2. t.head \in Nat /\ h \in Nat
          BY <1>1, <2>1
        <5> QED
          BY <3>2, <5>1, <5>2
      <4>2. ~(t.head - 1 <= e)
        <5> SUFFICES ASSUME t.head - 1 <= e PROVE FALSE
          OBVIOUS
        <5>1. t.head - 1 \in h + 1 .. e
          BY <1>1, <4>1
        <5> QED
          BY <1>4, <2>3, <5>1
      <4> QED
        BY <1>1, <1>8, <2>1, <4>1, <4>2, SMTT(40)
    <3> QED
      BY <3>1, <3>2
  <2>4. CASE /\ t.len > 0 /\ t.head >= h
             /\ \A i \in t.head .. EndOf(t) : Plain(s, i)
    <3>1. Plain(s, t.head)
      BY <2>1, <2>4, SMTT(40)
    <3>2. t.head # h /\ Outside(s, t.head)
      BY <3>1 DEF Plain
    <3>3. ~(t.head <= e)
      BY <1>1, <1>4, <2>1, <2>4, <3>2
    <3> QED
      BY <1>1, <1>8, <2>1, <2>4, <3>3
  <2> QED
    BY <1>8, <2>2, <2>3, <2>4, NoneStraddles
<1>9. at <= Len(s) => Outside(s, at)
  <2>1. CASE e <= Len(s)
    <3>1. at = e + 1 /\ s[e] = Quote /\ ~Outside(s, e)
      BY <1>1, <1>4, <2>1
    <3> QED
      BY <1>1, <3>1, QuoteChangesSide
  <2>2. CASE e > Len(s)
    BY <1>1, <2>2
  <2> QED
    BY <1>1, <2>1, <2>2
<1>10. ~Plain(s, at - 1) \/ ~Plain(s, at)
  <2>1. CASE e <= Len(s)
    <3>1. at - 1 = e /\ s[e] = Quote
      BY <1>1, <2>1
    <3> QED
      BY <3>1 DEF Plain
  <2>2. CASE e > Len(s)
    BY <1>1, <2>2 DEF Plain
  <2> QED
    BY <1>1, <2>1, <2>2
<1> QED
  BY <1>1, <1>5, <1>7, <1>8, <1>9, <1>10

\* The same of a plain token.
LEMMA PlainIsNext ==
    ASSUME NEW s, Len(s) \in Nat, NEW p, NEW h, NEW e, PlainFrom(s, p, h, e),
           NEW t0, t0 = [head |-> h, len |-> e - h]
    PROVE  /\ t0 \in TokensOf(s) /\ e > h
           /\ \A t \in TokensOf(s) : EndOf(t) >= p /\ EndOf(t) < e => t = t0
           /\ p <= EndOf(t0) + 1 /\ EndOf(t0) < e
           /\ e <= Len(s) => Outside(s, e)
           /\ ~Plain(s, e)
<1> SUFFICES ASSUME p \in 1 .. Len(s), Outside(s, p), ~(Plain(s, p - 1) /\ Plain(s, p)),
                    h \in p .. Len(s), \A k \in p .. h - 1 : s[k] = Blank,
                    s[h] \notin {Blank, Quote},
                    e \in h .. Len(s) + 1, \A k \in h .. e - 1 : s[k] \notin {Blank, Quote},
                    e <= Len(s) => s[e] \in {Blank, Quote}
             PROVE  /\ t0 \in TokensOf(s) /\ e > h
                    /\ \A t \in TokensOf(s) : EndOf(t) >= p /\ EndOf(t) < e => t = t0
                    /\ p <= EndOf(t0) + 1 /\ EndOf(t0) < e
                    /\ e <= Len(s) => Outside(s, e)
                    /\ ~Plain(s, e)
  BY DEF PlainFrom, FromOutside
<1>1. /\ Len(s) \in Nat /\ p \in Nat /\ h \in Nat /\ e \in Nat /\ p > 0 /\ h >= p /\ h > 0
      /\ h <= Len(s) /\ e >= h /\ e <= Len(s) + 1 /\ e # h
  OBVIOUS
<1>2. Outside(s, h)
  <2>1. \A k \in p .. h - 1 : s[k] # Quote
    BY ConsoleAssumption
  <2> QED
    BY <1>1, <2>1, SameSide
<1>3. ASSUME NEW k \in h .. e PROVE Outside(s, k)
  <2>1. k \in Nat /\ h <= k /\ \A i \in h .. k - 1 : s[i] # Quote
    BY <1>1
  <2>2. Outside(s, k) = Outside(s, h)
    BY <1>1, <2>1, SameSide
  <2> QED
    BY <1>2, <2>2
<1>4. \A k \in h .. e - 1 : Plain(s, k)
  BY <1>1, <1>3 DEF Plain
<1>5. ~Plain(s, e)
  BY <1>1 DEF Plain
<1>6. ~Plain(s, h - 1)
  <2>1. CASE h = p
    BY <1>1, <1>4, <2>1
  <2>2. CASE h # p
    <3>1. s[h - 1] = Blank
      BY <1>1, <2>2
    <3> QED
      BY <3>1 DEF Plain
  <2> QED
    BY <2>1, <2>2
<1>7. /\ t0.head = h /\ t0.len = e - h /\ EndOf(t0) = e - 1 /\ t0 \in Token(s)
  BY <1>1 DEF Token, EndOf
<1>8. IsToken(s, t0)
  <2>1. t0.len > 0 /\ t0.head + t0.len - 1 = e - 1 /\ (e - 1) + 1 = e
    BY <1>1, <1>7
  <2> QED
    BY <1>4, <1>5, <1>6, <1>7, <2>1 DEF IsToken
<1>9. t0 \in TokensOf(s)
  BY <1>1, <1>7, <1>8, TokenIs
<1>10. ASSUME NEW t \in TokensOf(s), EndOf(t) >= p, EndOf(t) < e PROVE t = t0
  <2>1. /\ t \in Token(s) /\ t.head \in Nat /\ t.head > 0 /\ t.len \in Nat
        /\ EndOf(t) \in Int /\ EndOf(t) <= Len(s) /\ EndOf(t) = t.head + t.len - 1
    BY TokenIs DEF Token, EndOf
  <2>2. h \in p .. Len(s) + 1
    BY <1>1
  <2>3. ~(/\ t.head > 1 /\ t.head - 1 >= h /\ s[t.head - 1] = Quote)
    BY <1>1, <1>10, <2>1
  <2>4. CASE /\ t.len > 0 /\ t.head >= h
             /\ \A i \in t.head .. EndOf(t) : Plain(s, i)
             /\ ~Plain(s, t.head - 1) /\ ~Plain(s, EndOf(t) + 1)
    <3>4. t.len > 0 /\ t.head >= h
      BY <2>4
    <3>5. EndOf(t) >= t.head /\ EndOf(t) < e
      BY <1>1, <1>10, <2>1, <3>4
    <3>1. t.head = h
      <4>1. ~(t.head > h)
        <5> SUFFICES ASSUME t.head > h PROVE FALSE
          OBVIOUS
        <5>1. t.head - 1 \in h .. e - 1
          BY <1>1, <2>1, <3>5
        <5> QED
          BY <1>4, <2>4, <5>1
      <4>2. t.head >= h
        BY <2>4
      <4> QED
        BY <1>1, <2>1, <4>1, <4>2
    <3>2. EndOf(t) = e - 1
      <4>1. ~(EndOf(t) < e - 1)
        <5> SUFFICES ASSUME EndOf(t) < e - 1 PROVE FALSE
          OBVIOUS
        <5>1. EndOf(t) + 1 \in h .. e - 1
          BY <1>1, <2>1, <3>1, <3>5, SMTT(40)
        <5> QED
          BY <1>4, <2>4, <5>1
      <4> QED
        BY <1>1, <2>1, <3>5, <4>1
    <3>3. t.len = e - h
      <4>1. h + t.len - 1 = e - 1
        BY <2>1, <3>1, <3>2
      <4>2. t.len \in Nat /\ h \in Nat /\ e \in Nat
        BY <1>1, <2>1
      <4> QED
        BY <4>1, <4>2
    <3> QED
      BY <2>1, <3>1, <3>3 DEF Token
  <2> QED
    BY <1>10, <2>2, <2>3, <2>4, NoneStraddles
<1> QED
  BY <1>1, <1>3, <1>5, <1>7, <1>9, <1>10

LEMMA AppendIsLast ==
    ASSUME NEW T, NEW q \in Seq(T), NEW x \in T
    PROVE  /\ Append(q, x) \in Seq(T)
           /\ DOMAIN Append(q, x) = DOMAIN q \cup {Len(q) + 1}
           /\ DOMAIN q = 1 .. Len(q) /\ Len(q) \in Nat
           /\ \A k \in DOMAIN q : Append(q, x)[k] = q[k]
           /\ Append(q, x)[Len(q) + 1] = x
           /\ Range(Append(q, x)) = Range(q) \cup {x}
<1> DEFINE a == Append(q, x)
<1>1. /\ a \in Seq(T) /\ Len(a) = Len(q) + 1 /\ Len(q) \in Nat
      /\ \A k \in 1 .. Len(q) : a[k] = q[k]
      /\ a[Len(q) + 1] = x
      /\ DOMAIN q = 1 .. Len(q)
  BY AppendProperties, LenProperties
<1> HIDE DEF a
<1>2. DOMAIN a = 1 .. Len(q) + 1
  BY <1>1, LenProperties
<1>3. DOMAIN a = DOMAIN q \cup {Len(q) + 1}
  BY <1>1, <1>2
<1>4. Range(a) = Range(q) \cup {x}
  BY <1>1, <1>3 DEF Range
<1> QED
  BY <1>1, <1>3, <1>4 DEF a

\* A token t0 that is the next after p, and at where it leaves the scanner.
IsNext(s, p, t0, at) ==
    /\ t0 \in TokensOf(s) /\ at \in 1 .. Len(s) + 1
    /\ p < at /\ p <= t0.head /\ (at <= Len(s) => t0.head < at) /\ EndOf(t0) < at
    /\ \A t \in TokensOf(s) : EndOf(t) >= p /\ EndOf(t) < at => t = t0
    /\ at <= Len(s) => Outside(s, at)
    /\ ~Plain(s, at - 1) \/ ~Plain(s, at)

LEMMA TokenAdded ==
    ASSUME NEW s, Len(s) \in Nat, NEW scan, Scanned(s, scan), scan.at <= Len(s),
           NEW t0, NEW at, IsNext(s, scan.at, t0, at)
    PROVE  Scanned(s, [at |-> at, tokens |-> Append(scan.tokens, t0)])
<1> SUFFICES ASSUME t0 \in TokensOf(s), at \in 1 .. Len(s) + 1,
                    scan.at < at, scan.at <= t0.head, at <= Len(s) => t0.head < at,
                    EndOf(t0) < at,
                    \A t \in TokensOf(s) : EndOf(t) >= scan.at /\ EndOf(t) < at => t = t0,
                    at <= Len(s) => Outside(s, at),
                    ~Plain(s, at - 1) \/ ~Plain(s, at)
             PROVE  Scanned(s, [at |-> at, tokens |-> Append(scan.tokens, t0)])
  BY DEF IsNext
<1> DEFINE a == Append(scan.tokens, t0)
           new == [at |-> at, tokens |-> a]
<1>1. /\ scan.tokens \in Seq(Token(s)) /\ scan.at \in 1 .. Len(s) + 1
      /\ Range(scan.tokens) = {t \in TokensOf(s) : EndOf(t) < scan.at}
      /\ \A k \in DOMAIN scan.tokens : scan.tokens[k].head < scan.at
      /\ \A j, k \in DOMAIN scan.tokens : j < k => scan.tokens[j].head < scan.tokens[k].head
  BY DEF Scanned
<1>2. t0 \in Token(s)
  BY TokenIs
<1>3. /\ a \in Seq(Token(s))
      /\ DOMAIN a = DOMAIN scan.tokens \cup {Len(scan.tokens) + 1}
      /\ DOMAIN scan.tokens = 1 .. Len(scan.tokens) /\ Len(scan.tokens) \in Nat
      /\ \A k \in DOMAIN scan.tokens : a[k] = scan.tokens[k]
      /\ a[Len(scan.tokens) + 1] = t0
      /\ Range(a) = Range(scan.tokens) \cup {t0}
  BY <1>1, <1>2, AppendIsLast
<1>4. \A k \in DOMAIN scan.tokens : scan.tokens[k].head \in Nat
  <2>1. \A k \in 1 .. Len(scan.tokens) : scan.tokens[k] \in Token(s)
    BY <1>1, ElementOfSeq
  <2>2. \A x \in Token(s) : x.head \in Nat
    BY DEF Token
  <2> QED
    BY <1>3, <2>1, <2>2
<1>5. new.at = at /\ new.tokens = a /\ new \in [at : 1 .. Len(s) + 1, tokens : Seq(Token(s))]
  BY <1>3
<1> HIDE DEF a, new
<1>6. Range(a) = {t \in TokensOf(s) : EndOf(t) < at}
  <2>1. \A t \in TokensOf(s) : EndOf(t) \in Int
    BY TokenIs DEF Token, EndOf
  <2>2. ASSUME NEW t \in TokensOf(s) PROVE EndOf(t) < at <=> EndOf(t) < scan.at \/ t = t0
    <3>1. EndOf(t) \in Int /\ scan.at \in Int /\ at \in Int /\ scan.at < at
      BY <1>1, <2>1
    <3>2. EndOf(t) >= scan.at /\ EndOf(t) < at => t = t0
      OBVIOUS
    <3>3. t = t0 => EndOf(t) < at
      OBVIOUS
    <3> QED
      BY <3>1, <3>2, <3>3
  <2> QED
    BY <1>1, <1>3, <2>2
<1>7. ASSUME NEW k \in DOMAIN a, at <= Len(s) PROVE a[k].head < at
  <2>1. CASE k \in DOMAIN scan.tokens
    BY <1>1, <1>3, <1>4, <2>1
  <2>2. CASE k = Len(scan.tokens) + 1
    BY <1>3, <1>7, <2>2
  <2> QED
    BY <1>3, <2>1, <2>2
<1>8. ASSUME NEW j \in DOMAIN a, NEW k \in DOMAIN a, j < k PROVE a[j].head < a[k].head
  <2>1. j \in DOMAIN scan.tokens
    <3>1. j \in 1 .. Len(scan.tokens) + 1 /\ k \in 1 .. Len(scan.tokens) + 1
      BY <1>3
    <3> QED
      BY <1>3, <1>8, <3>1
  <2>2. CASE k \in DOMAIN scan.tokens
    BY <1>1, <1>3, <1>8, <2>1, <2>2
  <2>3. CASE k = Len(scan.tokens) + 1
    <3>1. /\ a[j].head = scan.tokens[j].head /\ a[k].head = t0.head /\ t0.head \in Nat
          /\ scan.tokens[j].head \in Nat /\ scan.tokens[j].head < scan.at
      <4>1. a[j] = scan.tokens[j] /\ a[k] = t0
        BY <1>3, <2>1, <2>3
      <4>2. t0.head \in Nat
        BY <1>2 DEF Token
      <4>3. scan.tokens[j].head \in Nat /\ scan.tokens[j].head < scan.at
        BY <1>1, <1>4, <2>1
      <4> QED
        BY <4>1, <4>2, <4>3
    <3> QED
      BY <1>1, <3>1
  <2> QED
    BY <1>3, <2>2, <2>3
<1> QED
  BY <1>5, <1>6, <1>7, <1>8 DEF Scanned, new, a

\* What a scan comes to, by what is at the first place that is not blank.
LEMMA ScanIs ==
    ASSUME NEW s, Len(s) \in Nat, NEW scan, NEW h \in Nat, h = SkipBlanks(s, scan.at)
    PROVE  /\ h > Len(s) => TakeToken(s, scan) = scan
           /\ \A e, at : h <= Len(s) /\ s[h] = Quote /\ e = QuotedEnd(s, h + 1)
                         /\ at = (IF e > Len(s) THEN e ELSE e + 1) =>
                 TakeToken(s, scan) =
                    [at |-> at, tokens |-> Append(scan.tokens, [head |-> h + 1, len |-> e - (h + 1)])]
           /\ \A e : h <= Len(s) /\ s[h] # Quote /\ e = PlainEnd(s, h) =>
                 TakeToken(s, scan) =
                    [at |-> e, tokens |-> Append(scan.tokens, [head |-> h, len |-> e - h])]
<1>1. h > Len(s) => TakeToken(s, scan) = scan
  BY DEF TakeToken
<1>2. h <= Len(s) => ~(h > Len(s))
  OBVIOUS
<1>3. ASSUME NEW e, NEW at, h <= Len(s), s[h] = Quote, e = QuotedEnd(s, h + 1),
             at = (IF e > Len(s) THEN e ELSE e + 1)
      PROVE  TakeToken(s, scan) =
                [at |-> at, tokens |-> Append(scan.tokens, [head |-> h + 1, len |-> e - (h + 1)])]
  BY <1>2, <1>3, Zenon DEF TakeToken
<1>4. ASSUME NEW e, h <= Len(s), s[h] # Quote, e = PlainEnd(s, h)
      PROVE  TakeToken(s, scan) =
                [at |-> e, tokens |-> Append(scan.tokens, [head |-> h, len |-> e - h])]
  BY <1>2, <1>4, Zenon DEF TakeToken
<1> QED
  BY <1>1, <1>3, <1>4

\* A scan takes one token, if there is one left.
LEMMA ScanKeeps ==
    ASSUME NEW s, Len(s) \in Nat, NEW scan, Scanned(s, scan), NEW n \in Nat,
           scan.at > n \/ SkipBlanks(s, scan.at) > Len(s)
    PROVE  /\ Scanned(s, TakeToken(s, scan))
           /\ \/ TakeToken(s, scan).at > n + 1
              \/ SkipBlanks(s, TakeToken(s, scan).at) > Len(s)
<1>p. PICK p : p = scan.at
  OBVIOUS
<1>1. /\ p \in 1 .. Len(s) + 1 /\ p \in Nat /\ p > 0
      /\ p <= Len(s) => Outside(s, p)
      /\ ~(Plain(s, p - 1) /\ Plain(s, p))
  BY <1>p DEF Scanned
<1>2. PICK h \in p .. Len(s) + 1 :
         /\ h = SkipBlanks(s, scan.at)
         /\ \A k \in p .. h - 1 : s[k] = Blank
         /\ h <= Len(s) => s[h] # Blank
  BY <1>p, <1>1, SkipBlanksStops
<1>3. h \in Nat /\ p <= h
  BY <1>1, <1>2
<1>4. CASE h > Len(s)
  <2>1. TakeToken(s, scan) = scan
    BY <1>2, <1>3, <1>4, ScanIs
  <2> QED
    BY <1>2, <1>4, <2>1
<1>5. ASSUME h <= Len(s)
      PROVE  p > n /\ p \in 1 .. Len(s) /\ h \in p .. Len(s) /\ h \in 1 .. Len(s)
  <2>1. p > n
    BY <1>p, <1>2, <1>3, <1>5
  <2> QED
    BY <1>1, <1>3, <1>5, <2>1
<1>6. CASE h <= Len(s) /\ s[h] = Quote
  <2>1. h + 1 \in 1 .. Len(s) + 1
    BY <1>3, <1>6
  <2>2. PICK e \in h + 1 .. Len(s) + 1 :
           /\ e = QuotedEnd(s, h + 1)
           /\ \A k \in h + 1 .. e - 1 : s[k] # Quote
           /\ e <= Len(s) => s[e] = Quote
    BY <2>1, ReachStops DEF QuotedEnd
  <2>3. PICK at : at = (IF e > Len(s) THEN e ELSE e + 1)
    OBVIOUS
  <2>4. PICK t0 : t0 = [head |-> h + 1, len |-> e - (h + 1)]
    OBVIOUS
  <2>5. TakeToken(s, scan) = [at |-> at, tokens |-> Append(scan.tokens, t0)]
    BY <1>2, <1>3, <1>6, <2>2, <2>3, <2>4, ScanIs
  <2>6. /\ t0 \in TokensOf(s)
        /\ \A t \in TokensOf(s) : EndOf(t) >= p /\ EndOf(t) < at => t = t0
        /\ EndOf(t0) < at
        /\ at <= Len(s) => Outside(s, at)
        /\ ~Plain(s, at - 1) \/ ~Plain(s, at)
    <3>1. /\ p \in 1 .. Len(s) /\ Outside(s, p) /\ ~(Plain(s, p - 1) /\ Plain(s, p))
          /\ h \in p .. Len(s)
      BY <1>1, <1>5, <1>6
    <3>2. \A k \in p .. h - 1 : s[k] = Blank
      BY <1>2
    <3>3. QuotedFrom(s, p, h, e)
      BY <1>6, <2>2, <3>1, <3>2 DEF QuotedFrom, FromOutside
    <3> QED
      BY <2>3, <2>4, <3>3, QuotedIsNext
  <2>7. /\ at \in 1 .. Len(s) + 1 /\ at > h /\ (at <= Len(s) => h + 1 < at)
    <3>1. e \in Nat /\ e >= h + 1 /\ e <= Len(s) + 1
      BY <1>3, <2>2
    <3>2. \/ e > Len(s) /\ at = e
          \/ e <= Len(s) /\ at = e + 1
      BY <2>3, <3>1
    <3> QED
      BY <1>3, <1>6, <3>1, <3>2
  <2>8. t0.head = h + 1
    BY <2>4
  <2>9. at > p /\ p <= t0.head /\ (at <= Len(s) => t0.head < at)
    <3>1. p \in Nat /\ h \in Nat /\ at \in Nat
      BY <1>1, <1>3, <2>7
    <3>2. p <= h
      BY <1>3
    <3> QED
      BY <2>7, <2>8, <3>1, <3>2
  <2>10. Scanned(s, [at |-> at, tokens |-> Append(scan.tokens, t0)])
    <3>1. IsNext(s, scan.at, t0, at)
      BY <1>p, <2>6, <2>7, <2>9 DEF IsNext
    <3>2. scan.at <= Len(s)
      BY <1>p, <1>5, <1>6
    <3> QED
      BY <3>1, <3>2, TokenAdded
  <2>11. TakeToken(s, scan).at = at
    BY <2>5
  <2>12. at > n + 1
    <3>1. p > n /\ at > p /\ at \in Nat
      BY <1>5, <1>6, <2>7, <2>9
    <3> QED
      BY <1>1, <3>1
  <2> QED
    BY <2>5, <2>10, <2>11, <2>12
<1>7. CASE h <= Len(s) /\ s[h] # Quote
  <2>1. s[h] \notin {Blank, Quote}
    BY <1>2, <1>7
  <2>2. PICK e \in h .. Len(s) + 1 :
           /\ e = PlainEnd(s, h)
           /\ \A k \in h .. e - 1 : s[k] \notin {Blank, Quote}
           /\ e <= Len(s) => s[e] \in {Blank, Quote}
    <3>1. h \in 1 .. Len(s) + 1
      BY <1>3, <1>5, <1>7
    <3> QED
      BY <3>1, ReachStops DEF PlainEnd
  <2>4. PICK t0 : t0 = [head |-> h, len |-> e - h]
    OBVIOUS
  <2>5. TakeToken(s, scan) = [at |-> e, tokens |-> Append(scan.tokens, t0)]
    BY <1>2, <1>3, <1>7, <2>2, <2>4, ScanIs
  <2>6. /\ t0 \in TokensOf(s) /\ e > h
        /\ \A t \in TokensOf(s) : EndOf(t) >= p /\ EndOf(t) < e => t = t0
        /\ EndOf(t0) < e
        /\ e <= Len(s) => Outside(s, e)
        /\ ~Plain(s, e)
    <3>1. /\ p \in 1 .. Len(s) /\ Outside(s, p) /\ ~(Plain(s, p - 1) /\ Plain(s, p))
          /\ h \in p .. Len(s)
      BY <1>1, <1>5, <1>7
    <3>2. \A k \in p .. h - 1 : s[k] = Blank
      BY <1>2
    <3>3. PlainFrom(s, p, h, e)
      BY <2>1, <2>2, <3>1, <3>2 DEF PlainFrom, FromOutside
    <3> QED
      BY <2>4, <3>3, PlainIsNext
  <2>7. e \in 1 .. Len(s) + 1 /\ e \in Nat
    BY <1>3, <1>5, <1>7, <2>2
  <2>8. t0.head = h
    BY <2>4
  <2>9. e > p /\ p <= t0.head /\ t0.head < e
    <3>1. p \in Nat /\ h \in Nat /\ e \in Nat
      BY <1>1, <1>3, <2>7
    <3>2. p <= h /\ h < e
      BY <1>3, <2>6, <3>1
    <3> QED
      BY <2>8, <3>1, <3>2
  <2>10. Scanned(s, [at |-> e, tokens |-> Append(scan.tokens, t0)])
    <3>1. ~Plain(s, e - 1) \/ ~Plain(s, e)
      BY <2>6
    <3>2. IsNext(s, scan.at, t0, e)
      BY <1>p, <2>6, <2>7, <2>9, <3>1 DEF IsNext
    <3>3. scan.at <= Len(s)
      BY <1>p, <1>5, <1>7
    <3> QED
      BY <3>2, <3>3, TokenAdded
  <2>11. TakeToken(s, scan).at = e
    BY <2>5
  <2>12. e > n + 1
    <3>1. p > n /\ e > p
      BY <1>5, <1>7, <2>9
    <3> QED
      BY <1>1, <2>7, <3>1
  <2> QED
    BY <2>5, <2>10, <2>11, <2>12
<1> QED
  BY <1>3, <1>4, <1>6, <1>7

LEMMA ScanStarts ==
    ASSUME NEW s, Len(s) \in Nat
    PROVE  Scanned(s, [at |-> 1, tokens |-> <<>>])
<1> DEFINE scan == [at |-> 1, tokens |-> <<>>]
<1>1. scan.at = 1 /\ scan.tokens = <<>> /\ DOMAIN <<>> = {}
  OBVIOUS
<1>2. scan \in [at : 1 .. Len(s) + 1, tokens : Seq(Token(s))]
  <2>1. 1 \in 1 .. Len(s) + 1 /\ <<>> \in Seq(Token(s))
    OBVIOUS
  <2> QED
    BY <2>1
<1>3. ~Plain(s, 1 - 1)
  BY DEF Plain
<1>4. Range(<<>>) = {}
  BY DEF Range
<1>5. ASSUME NEW t \in TokensOf(s), EndOf(t) < 1 PROVE FALSE
  <2>1. t.head \in Nat /\ t.head > 0 /\ t.len \in Nat /\ IsToken(s, t) /\ t.head + t.len - 1 < 1
    BY <1>5, TokenIs DEF Token, EndOf
  <2>2. t.head = 1 /\ t.len = 0
    BY <2>1
  <2> QED
    BY <2>1, <2>2 DEF IsToken
<1>6. {t \in TokensOf(s) : EndOf(t) < 1} = {}
  BY <1>5
<1> HIDE DEF scan
<1> QED
  BY <1>1, <1>2, <1>3, <1>4, <1>6, FirstIsOutside DEF Scanned

\* The scanner has gone n tokens on, or to the end.
FarEnough(s, scan, n) == scan.at > n \/ SkipBlanks(s, scan.at) > Len(s)

LEMMA TokenizeLoop ==
    ASSUME NEW s, Len(s) \in Nat
    PROVE  \E scan : /\ Tokenize(s) = scan.tokens
                     /\ Scanned(s, scan) /\ FarEnough(s, scan, Len(s))
<1> DEFINE N == Len(s)
           S == {scan \in [at : 1 .. Len(s) + 1, tokens : Seq(Token(s))] : Scanned(s, scan)}
           base == [at |-> 1, tokens |-> <<>>]
           Step == [ns \in (1 .. N) \X S |-> TakeToken(s, ns[2])]
           Is(f) == f = [n \in 0 .. N |-> IF n = 0 THEN base ELSE TakeToken(s, f[n - 1])]
           after == CHOOSE f : Is(f)
<1>1. N \in Nat
  OBVIOUS
<1>2. base \in S /\ Scanned(s, base)
  BY ScanStarts DEF Scanned
<1>3. \A scan : scan \in S <=> Scanned(s, scan)
  BY DEF Scanned
<1>4. ASSUME NEW scan, Scanned(s, scan), NEW n \in Nat, FarEnough(s, scan, n)
      PROVE  Scanned(s, TakeToken(s, scan)) /\ FarEnough(s, TakeToken(s, scan), n + 1)
  BY <1>4, ScanKeeps DEF FarEnough
<1>5. ASSUME NEW scan, Scanned(s, scan) PROVE FarEnough(s, scan, 0)
  <2>1. scan.at \in 1 .. Len(s) + 1
    BY <1>5 DEF Scanned
  <2> QED
    BY <2>1 DEF FarEnough
<1> HIDE DEF N, base, S
<1>6. \A n \in 1 .. N, scan \in S : TakeToken(s, scan) \in S
  <2> SUFFICES ASSUME NEW scan \in S PROVE TakeToken(s, scan) \in S
    OBVIOUS
  <2>1. Scanned(s, scan) /\ 0 \in Nat
    BY <1>3
  <2> QED
    BY <1>3, <1>4, <1>5, <2>1
<1>7. Step \in [(1 .. N) \X S -> S]
  BY <1>6
<1>8. PICK f : Goes(f, N, S, base, Step)
  <2> HIDE DEF Step
  <2> QED
    BY <1>1, <1>2, <1>7, RecursionDefines
<1>9. Is(f)
  <2>1. ASSUME NEW n \in 1 .. N PROVE f[n] = TakeToken(s, f[n - 1])
    <3>1. n - 1 \in 0 .. N
      BY <1>1
    <3>2. <<n, f[n - 1]>> \in (1 .. N) \X S
      BY <1>8, <3>1 DEF Goes
    <3>3. f[n] = Step[<<n, f[n - 1]>>]
      <4> HIDE DEF Step
      <4> QED
        BY <1>8 DEF Goes
    <3> QED
      BY <3>2, <3>3
  <2> DEFINE g == [n \in 0 .. N |-> IF n = 0 THEN base ELSE TakeToken(s, f[n - 1])]
  <2>2. ASSUME NEW n \in 0 .. N PROVE f[n] = g[n]
    <3>1. g[n] = IF n = 0 THEN base ELSE TakeToken(s, f[n - 1])
      OBVIOUS
    <3>2. n = 0 \/ n \in 1 .. N
      BY <1>1
    <3> HIDE DEF g, Step
    <3> QED
      BY <1>8, <2>1, <3>1, <3>2 DEF Goes
  <2>3. f \in [0 .. N -> S] /\ g = [n \in 0 .. N |-> g[n]]
    BY <1>8 DEF Goes
  <2>4. f = g
    <3> HIDE DEF g, Step
    <3> QED
      BY <2>2, <2>3
  <2> QED
    BY <2>4
<1>10. Is(after)
  <2> HIDE DEF Is
  <2> QED
    BY <1>9
<1>11. after[0] = base /\ \A n \in 1 .. N : after[n] = TakeToken(s, after[n - 1])
  <2> HIDE DEF after
  <2>1. ASSUME NEW n \in 0 .. N
        PROVE  after[n] = IF n = 0 THEN base ELSE TakeToken(s, after[n - 1])
    BY <1>10
  <2>2. ASSUME NEW n \in 1 .. N PROVE after[n] = TakeToken(s, after[n - 1])
    <3>1. n \in 0 .. N /\ n # 0
      BY <1>1
    <3> QED
      BY <2>1, <3>1
  <2>3. after[0] = base
    <3>1. 0 \in 0 .. N
      BY <1>1
    <3> QED
      BY <2>1, <3>1
  <2> QED
    BY <2>2, <2>3
<1> DEFINE Far == {n \in 0 .. N : Scanned(s, after[n]) /\ FarEnough(s, after[n], n)}
<1>12. 0 .. N \subseteq Far
  <2> HIDE DEF after
  <2>1. 0 \in Far
    BY <1>1, <1>2, <1>5, <1>11
  <2>2. ASSUME NEW n \in 0 .. N - 1, n \in Far PROVE n + 1 \in Far
    <3>1. /\ n \in Nat /\ n + 1 \in 0 .. N
          /\ after[n + 1] = TakeToken(s, after[n])
      <4>1. n + 1 \in 1 .. N /\ (n + 1) - 1 = n
        BY <1>1
      <4> QED
        BY <1>1, <1>11, <4>1
    <3> QED
      BY <1>4, <2>2, <3>1
  <2> HIDE DEF Far
  <2> QED
    BY <1>1, <2>1, <2>2, UpTo
<1>13. Tokenize(s) = after[N].tokens
  BY DEF Tokenize, N, base
<1> HIDE DEF after
<1>14. N \in 0 .. N
  BY <1>1
<1> QED
  BY <1>12, <1>13, <1>14 DEF N

\* Whatever the line, the table is what the comment's rules make of it.
LEMMA TokenizeTabulates ==
    ASSUME NEW s, Len(s) \in Nat
    PROVE  Tokenize(s) \in Seq(Token(s)) /\ Tabulates(Tokenize(s), s)
<1>1. PICK scan : /\ Tokenize(s) = scan.tokens
                  /\ Scanned(s, scan) /\ FarEnough(s, scan, Len(s))
  BY TokenizeLoop
<1>2. PICK p : p = scan.at
  OBVIOUS
<1>3. ASSUME NEW t \in TokensOf(s) PROVE EndOf(t) < p
  <2>1. /\ p \in 1 .. Len(s) + 1 /\ EndOf(t) \in Int /\ EndOf(t) <= Len(s)
        /\ t.head \in Nat /\ t.len \in Nat /\ EndOf(t) = t.head + t.len - 1 /\ t.head <= Len(s) + 1
    BY <1>1, <1>2, TokenIs DEF Scanned, Token, EndOf
  <2>2. CASE p > Len(s)
    BY <2>1, <2>2
  <2>3. CASE p <= Len(s)
    <3> SUFFICES ASSUME EndOf(t) >= p PROVE FALSE
      BY <2>1
    <3>1. PICK h \in p .. Len(s) + 1 :
            h = SkipBlanks(s, p) /\ \A k \in p .. h - 1 : s[k] = Blank
      BY <2>1, SkipBlanksStops
    <3>2. h > Len(s)
      BY <1>1, <1>2, <2>1, <2>3, <3>1 DEF FarEnough
    <3>3. p \in 1 .. Len(s) /\ Outside(s, p) /\ ~(Plain(s, p - 1) /\ Plain(s, p))
      BY <1>1, <1>2, <2>1, <2>3 DEF Scanned
    <3>4. \/ t.head - 1 >= h
          \/ t.len > 0 /\ t.head >= h
      BY <3>1, <3>3, NoneStraddles
    <3>5. h \in Nat
      BY <2>1, <3>1
    <3> QED
      BY <2>1, <3>2, <3>4, <3>5
  <2> QED
    BY <2>1, <2>2, <2>3
<1>4. {t \in TokensOf(s) : EndOf(t) < p} = TokensOf(s)
  BY <1>3
<1> QED
  BY <1>1, <1>2, <1>4 DEF Scanned, Tabulates

-----------------------------------------------------------------------------
(***************************************************************************)
(* The console as a whole.                                                 *)
(***************************************************************************)
LEMMA DroppedIsLine ==
    ASSUME NEW raw \in Input
    PROVE  Len(Dropped(raw)) \in Nat
<1> DEFINE N == Len(raw)
           S == Seq(Range(raw))
           Put(s, i) == IF raw[i] = Newline THEN s ELSE Append(s, raw[i])
           Step == [ns \in (1 .. N) \X S |-> Put(ns[2], ns[1])]
           Is(f) == f = [i \in 0 .. N |->
                           IF i = 0 THEN <<>>
                           ELSE IF raw[i] = Newline THEN f[i - 1] ELSE Append(f[i - 1], raw[i])]
           kept == CHOOSE f : Is(f)
<1>1. N \in Nat /\ DOMAIN raw = 1 .. N
  BY ConsoleAssumption, LenProperties
<1>2. \A i \in 1 .. N : raw[i] \in Range(raw)
  BY <1>1 DEF Range
<1> HIDE DEF N
<1>3. ASSUME NEW i \in 1 .. N, NEW s \in S PROVE Put(s, i) \in S
  <2>1. Append(s, raw[i]) \in S
    BY <1>2, AppendProperties
  <2> QED
    BY <2>1
<1>4. Step \in [(1 .. N) \X S -> S] /\ <<>> \in S
  <2> HIDE DEF Put
  <2>1. <<>> \in S
    OBVIOUS
  <2> HIDE DEF S
  <2> QED
    BY <1>3, <2>1
<1> HIDE DEF S
<1>5. PICK f : Goes(f, N, S, <<>>, Step)
  <2> HIDE DEF Step
  <2> QED
    BY <1>1, <1>4, RecursionDefines
<1>6. Is(f)
  <2>1. ASSUME NEW i \in 1 .. N PROVE f[i] = Put(f[i - 1], i)
    <3>1. i - 1 \in 0 .. N
      BY <1>1
    <3>2. <<i, f[i - 1]>> \in (1 .. N) \X S
      BY <1>5, <3>1 DEF Goes
    <3>3. f[i] = Step[<<i, f[i - 1]>>]
      <4> HIDE DEF Step
      <4> QED
        BY <1>5 DEF Goes
    <3> HIDE DEF Put
    <3> QED
      BY <3>2, <3>3
  <2> DEFINE g == [i \in 0 .. N |->
                     IF i = 0 THEN <<>>
                     ELSE IF raw[i] = Newline THEN f[i - 1] ELSE Append(f[i - 1], raw[i])]
  <2>2. ASSUME NEW i \in 0 .. N PROVE f[i] = g[i]
    <3>1. g[i] = IF i = 0 THEN <<>> ELSE Put(f[i - 1], i)
      OBVIOUS
    <3>2. i = 0 \/ i \in 1 .. N
      BY <1>1
    <3> HIDE DEF g, Step, Put
    <3> QED
      BY <1>5, <2>1, <3>1, <3>2 DEF Goes
  <2>3. f \in [0 .. N -> S] /\ g = [i \in 0 .. N |-> g[i]]
    BY <1>5 DEF Goes
  <2>4. f = g
    <3> HIDE DEF g, Step
    <3> QED
      BY <2>2, <2>3
  <2> QED
    BY <2>4
<1>7. Is(kept)
  <2> HIDE DEF Is
  <2> QED
    BY <1>6
<1> DEFINE Formed == {i \in 0 .. N : kept[i] \in S}
<1>8. 0 .. N \subseteq Formed
  <2> HIDE DEF kept
  <2>1. ASSUME NEW i \in 0 .. N
        PROVE  kept[i] = IF i = 0 THEN <<>> ELSE Put(kept[i - 1], i)
    BY <1>7
  <2> HIDE DEF Put
  <2>2. 0 \in Formed
    BY <1>1, <1>4, <2>1
  <2>3. ASSUME NEW i \in 0 .. N - 1, i \in Formed PROVE i + 1 \in Formed
    <3>1. /\ i + 1 \in 1 .. N /\ i + 1 \in 0 .. N /\ (i + 1) - 1 = i /\ i + 1 # 0
      BY <1>1
    <3>2. kept[i + 1] = Put(kept[i], i + 1)
      BY <2>1, <3>1
    <3> QED
      BY <1>3, <2>3, <3>1, <3>2
  <2> HIDE DEF Formed
  <2> QED
    BY <1>1, <2>2, <2>3, UpTo
<1>9. Dropped(raw) = kept[N]
  BY DEF Dropped, N
<1> HIDE DEF kept
<1>10. Dropped(raw) \in S
  BY <1>1, <1>8, <1>9
<1> QED
  BY <1>10 DEF S

Errors == {"OK", "NOT_FOUND", "NULL_PARENT", "MEM", "NOT_INIT"}

\* The tree is in order; there is one while a line is parsed; while the pool is
\* taken it holds the tokens of that line, and a handler runs with it taken; the
\* active node is a command.
ConsoleInv ==
    /\ TreeHolds
    /\ pc \in {"idle", "parse", "handler"} /\ poolBusy \in BOOLEAN /\ lastError \in Errors
    /\ matched \in [node : Place, depth : 0 .. MaxDepth]
    /\ Len(line) \in Nat
    /\ pc # "idle" => 0 \in Parents
    /\ poolBusy => pc # "idle" /\ userData = Tokenize(line) /\ Len(userData) <= PoolTokens
    /\ ~poolBusy => userData = <<>> /\ pc # "handler"
    /\ activeNode \in Place
    /\ activeNode # Null => activeNode \in Parents /\ nodes[activeNode].handler
    /\ pc = "handler" => activeNode # Null /\ activeNode = matched.node

LEMMA NoMatchIsType == NoMatch \in [node : Place, depth : 0 .. MaxDepth] /\ Null \in Place
  BY ConsoleAssumption DEF NoMatch, Place

LEMMA ConsoleInvInit == ConsoleInit => ConsoleInv
<1> SUFFICES ASSUME ConsoleInit PROVE ConsoleInv
  OBVIOUS
<1>1. nodes \in [Index -> Node] /\ Parents = {}
  BY Places DEF ConsoleInit, Parents, Free, Node, Place
<1>2. TreeHolds
  BY <1>1 DEF TreeHolds
<1>3. Len(<<>>) \in Nat
  OBVIOUS
<1> QED
  BY <1>2, <1>3, NoMatchIsType DEF ConsoleInit, ConsoleInv, Errors

\* A tree that stays as it is, and an active node in it.
LEMMA TreeStays ==
    ASSUME TreeHolds, nodes' = nodes PROVE TreeHolds' /\ Parents' = Parents
  BY DEF TreeHolds, Parents, Slots, ChildrenOf

\* Registering a command takes none of the others away.
LEMMA CommandsStay ==
    ASSUME TreeHolds, CmdRegister, NEW i \in Parents, nodes[i].handler
    PROVE  i \in Parents' /\ nodes'[i].handler
<1>1. CASE UNCHANGED nodes
  BY <1>1 DEF Parents
<1>2. CASE ~UNCHANGED nodes
  <2>1. PICK parent \in Parents, word \in Commands, handler \in BOOLEAN :
           /\ Slots # {}
           /\ LET slot == Min(Slots)
              IN  nodes' = [Linked(slot, parent) EXCEPT
                               ![slot] = [@ EXCEPT !.used = TRUE, !.hash = Hash(word),
                                                   !.handler = handler, !.parent = parent,
                                                   !.first = Null]]
    BY <1>2 DEF CmdRegister
  <2>2. PICK slot \in Slots : slot = Min(Slots)
    BY <2>1, FirstFree DEF Slots
  <2> DEFINE on == Linked(slot, parent)
  <2>3. nodes' = [on EXCEPT ![slot] = [@ EXCEPT !.used = TRUE, !.hash = Hash(word),
                                                !.handler = handler, !.parent = parent,
                                                !.first = Null]]
    BY <2>1, <2>2
  <2>4. i \in Index /\ i # slot /\ nodes \in [Index -> Node] /\ nodes[i].used
    BY <2>2 DEF Slots, Parents, TreeHolds
  <2>5. on[i].used /\ on[i].handler /\ DOMAIN on = Index
    <3>1. on = [nodes EXCEPT ![slot].next = nodes[parent].first, ![parent].first = slot]
      BY DEF Linked
    <3> QED
      BY <2>4, <3>1 DEF Node
  <2> HIDE DEF on
  <2>6. nodes'[i] = on[i]
    BY <2>3, <2>4, <2>5
  <2> QED
    BY <2>4, <2>5, <2>6 DEF Parents
<1> QED
  BY <1>1, <1>2

\* The table as the walk down the tree reads it.
LEMMA TableRead ==
    ASSUME Len(userData) \in Nat, DOMAIN userData = 1 .. Len(userData)
    PROVE  \E hashes : /\ hashes = [k \in DOMAIN userData |-> Hash(Words[k])]
                       /\ Len(Words) \in Nat /\ Len(hashes) = Len(Words)
                       /\ \A d \in 1 .. Len(Words) : hashes[d] = Hash(Words[d])
<1> DEFINE n == Len(userData)
           hashes == [k \in DOMAIN userData |-> Hash(Words[k])]
<1>1. Len(Words) = n
  <2>1. Words = [k \in 1 .. n |-> WordOf(line, userData[k])]
    BY DEF Words
  <2> QED
    BY <2>1
<1>2. Len(hashes) = n
  <2>1. hashes = [k \in 1 .. n |-> Hash(Words[k])]
    OBVIOUS
  <2> HIDE DEF hashes
  <2> QED
    BY <2>1
<1>3. \A d \in 1 .. n : hashes[d] = Hash(Words[d])
  OBVIOUS
<1> HIDE DEF n, hashes
<1> QED
  BY <1>1, <1>2, <1>3 DEF hashes, n

\* What the walk finds is what the line means.
LEMMA WalkIsMeant ==
    ASSUME ConsoleInv, pc = "parse", poolBusy
    PROVE  \E meant : /\ meant = Meant([k \in DOMAIN userData |-> Hash(Words[k])])
                      /\ Walk(Words) \in [node : Place, depth : 0 .. MaxDepth]
                      /\ Walk(Words) = NoMatch => meant = {}
                      /\ Walk(Words) # NoMatch =>
                            Walk(Words) \in meant /\ \A m \in meant : m.depth <= Walk(Words).depth
<1>1. Len(userData) \in Nat /\ DOMAIN userData = 1 .. Len(userData)
  BY TokenizeTabulates, LenProperties DEF ConsoleInv
<1>2. PICK hashes : /\ hashes = [k \in DOMAIN userData |-> Hash(Words[k])]
                    /\ Len(Words) \in Nat /\ Len(hashes) = Len(Words)
                    /\ \A d \in 1 .. Len(Words) : hashes[d] = Hash(Words[d])
  BY <1>1, TableRead
<1>3. TreeHolds /\ 0 \in Parents
  BY DEF ConsoleInv
<1>4. /\ Walk(Words) \in [node : Place, depth : 0 .. MaxDepth]
      /\ Walk(Words) = NoMatch => Meant(hashes) = {}
      /\ Walk(Words) # NoMatch =>
           /\ Walk(Words) \in Meant(hashes)
           /\ \A m \in Meant(hashes) : m.depth <= Walk(Words).depth
  BY <1>2, <1>3, WalkFindsDeepest
<1> QED
  BY <1>2, <1>4

LEMMA MeantIsCommand ==
    ASSUME NEW hashes, NEW m \in Meant(hashes)
    PROVE  m.node \in Parents /\ m.node # Null /\ nodes[m.node].handler
<1>1. /\ m.node \in Index /\ m.depth \in Nat /\ m.depth > 0 /\ nodes[m.node].handler
      /\ \E w \in Ways(m.depth) : w[m.depth] = m.node
  BY MeantIs
<1>2. PICK w \in Ways(m.depth) : w[m.depth] = m.node
  BY <1>1
<1>3. m.depth \in 1 .. m.depth
  BY <1>1
<1>4. nodes[w[m.depth]].used
  BY <1>3 DEF Ways
<1> QED
  BY <1>1, <1>2, <1>4, Places DEF Parents

LEMMA ConsoleInvNext == ConsoleInv /\ [ConsoleNext]_consoleVars => ConsoleInv'
<1> SUFFICES ASSUME ConsoleInv, [ConsoleNext]_consoleVars PROVE ConsoleInv'
  OBVIOUS
<1> DEFINE Match == [node : Place, depth : 0 .. MaxDepth]
<1>t. NoMatch \in Match /\ Null \in Place /\ Len(<<>>) \in Nat
  BY NoMatchIsType
<1> HIDE DEF Match
\* An action that leaves the tree alone.
<1>s. ASSUME nodes' = nodes, activeNode' = activeNode
      PROVE  /\ TreeHolds' /\ Parents' = Parents /\ activeNode' \in Place
             /\ activeNode' # Null => activeNode' \in Parents' /\ nodes'[activeNode'].handler
  BY <1>s, TreeStays DEF ConsoleInv
\* A new tree, or none.
<1>f. ASSUME \/ nodes' = [i \in Index |-> IF i = 0 THEN Root ELSE Free]
             \/ nodes' = [i \in Index |-> Free],
             activeNode' = Null
      PROVE  TreeHolds' /\ activeNode' \in Place
  BY <1>f, <1>t, FreshTree
<1>1. CASE TreeInit
  <2>1. TreeHolds' /\ activeNode' = Null /\ activeNode' \in Place
    BY <1>1, <1>f DEF TreeInit
  <2> QED
    BY <1>1, <2>1 DEF ConsoleInv, Errors, TreeInit, tokenVars
<1>2. CASE TreeReset
  <2>1. TreeHolds' /\ activeNode' = Null /\ activeNode' \in Place
    BY <1>2, <1>f DEF TreeReset
  <2> QED
    BY <1>2, <2>1 DEF ConsoleInv, Errors, TreeReset, tokenVars
<1>3. CASE CmdRegister
  <2>1. TreeHolds'
    BY <1>3, RegisterKeepsTree DEF ConsoleInv
  <2>2. activeNode # Null => activeNode \in Parents' /\ nodes'[activeNode].handler
    BY <1>3, CommandsStay DEF ConsoleInv
  <2>3. /\ pc = "idle" /\ lastError' \in Errors
        /\ UNCHANGED <<activeNode, poolBusy, userData, pc, line, matched>>
    BY <1>3 DEF CmdRegister, Errors, tokenVars
  <2> QED
    BY <2>1, <2>2, <2>3 DEF ConsoleInv
<1>4. CASE NotInit
  <2>1. nodes' = nodes /\ activeNode' = activeNode
    BY <1>4 DEF NotInit, treeVars
  <2> QED
    BY <1>4, <1>s, <2>1 DEF ConsoleInv, Errors, NotInit, tokenVars
<1>5. CASE CmdsPoll
  <2>1. /\ nodes' = nodes /\ activeNode' = activeNode /\ pc = "idle" /\ 0 \in Parents
        /\ UNCHANGED <<lastError, poolBusy, userData, matched>> /\ pc' = "parse"
    BY <1>5, Places DEF CmdsPoll, treeVars, tokenVars, Parents
  <2>2. Len(line') \in Nat
    BY <1>5, DroppedIsLine DEF CmdsPoll
  <2> QED
    BY <1>s, <2>1, <2>2 DEF ConsoleInv
<1>6. CASE TooLong
  <2>1. /\ nodes' = nodes /\ activeNode' = activeNode /\ matched' = matched
        /\ lastError' \in Errors /\ pc' = "idle" /\ userData' = <<>> /\ poolBusy' = FALSE
        /\ line' = <<>>
    BY <1>6 DEF TooLong, GiveUp, treeVars, Errors
  <2> QED
    BY <1>s, <1>t, <2>1 DEF ConsoleInv
<1>7. CASE ParseSpace
  <2>1. /\ nodes' = nodes /\ activeNode' = activeNode /\ pc = "parse"
        /\ UNCHANGED <<lastError, pc, line, matched>>
        /\ poolBusy' = TRUE /\ userData' = Tokenize(line)
        /\ ~PoolRefuses(Len(Tokenize(line)))
    BY <1>7 DEF ParseSpace, treeVars
  <2>2. Len(Tokenize(line)) \in Nat
    BY TokenizeTabulates, LenProperties DEF ConsoleInv
  <2>3. Len(userData') <= PoolTokens
    BY <2>1, <2>2, ConsoleAssumption DEF PoolRefuses
  <2>4. userData' = Tokenize(line')
    BY <2>1
  <2> QED
    BY <1>s, <2>1, <2>3, <2>4 DEF ConsoleInv
<1>8. CASE Dispatch
  <2>1. nodes' = nodes /\ pc = "parse" /\ poolBusy
    BY <1>8 DEF Dispatch
  <2>2. CASE Walk(Words) # NoMatch
    <3>1. /\ UNCHANGED <<lastError, poolBusy, userData, line>> /\ pc' = "handler"
          /\ matched' = Walk(Words) /\ activeNode' = matched'.node
      BY <1>8, <2>2 DEF Dispatch, tokenVars
    <3>2. /\ Walk(Words) \in Match
          /\ Walk(Words) \in Meant([k \in DOMAIN userData |-> Hash(Words[k])])
      BY <2>1, <2>2, WalkIsMeant DEF Match
    <3>3. LET i == Walk(Words).node IN i \in Parents /\ i # Null /\ nodes[i].handler
      BY <3>2, MeantIsCommand
    <3>4. activeNode' \in Parents /\ activeNode' # Null /\ nodes[activeNode'].handler
      BY <3>1, <3>3
    <3>5. TreeHolds' /\ Parents' = Parents
      BY <2>1, TreeStays DEF ConsoleInv
    <3>6. activeNode' \in Place
      BY <3>4 DEF Parents, Place
    <3> QED
      BY <2>1, <3>1, <3>2, <3>4, <3>5, <3>6 DEF ConsoleInv, Match
  <2>3. CASE Walk(Words) = NoMatch
    <3>1. /\ activeNode' = activeNode /\ matched' = matched
          /\ lastError' \in Errors /\ pc' = "idle" /\ userData' = <<>> /\ poolBusy' = FALSE
          /\ line' = <<>>
      BY <1>8, <2>3 DEF Dispatch, GiveUp, Errors
    <3> QED
      BY <1>s, <1>t, <2>1, <3>1 DEF ConsoleInv
  <2> QED
    BY <2>2, <2>3
<1>9. CASE HandlerReturns
  <2>1. /\ nodes' = nodes /\ activeNode' = activeNode /\ matched' = NoMatch
        /\ lastError' \in Errors /\ pc' = "idle" /\ userData' = <<>> /\ poolBusy' = FALSE
        /\ line' = <<>>
    BY <1>9 DEF HandlerReturns, GiveUp, treeVars, Errors
  <2> QED
    BY <1>s, <1>t, <2>1 DEF ConsoleInv, Match
<1>10. CASE HandlerRestarts
  <2>1. TreeHolds' /\ activeNode' = Null /\ activeNode' \in Place
    BY <1>10, <1>f DEF HandlerRestarts
  <2> QED
    BY <1>10, <1>t, <2>1 DEF ConsoleInv, Match, Errors, HandlerRestarts
<1>11. CASE UNCHANGED consoleVars
  <2>1. nodes' = nodes /\ activeNode' = activeNode
    BY <1>11 DEF consoleVars, treeVars
  <2> QED
    BY <1>11, <1>s, <2>1 DEF ConsoleInv, consoleVars, tokenVars
<1> QED
  BY <1>1, <1>2, <1>3, <1>4, <1>5, <1>6, <1>7, <1>8, <1>9, <1>10, <1>11 DEF ConsoleNext

LEMMA ConsoleInvariance == ConsoleSpec => []ConsoleInv
  BY ConsoleInvInit, ConsoleInvNext, PTL DEF ConsoleSpec

-----------------------------------------------------------------------------
\* The console's state stays of its type: among it the links of the command
\* tree (`cmdTree_nodes`) and a table that fits the pool (`userStrings`).
THEOREM ConsoleTypeCorrect == ConsoleSpec => []ConsoleTypeOK
<1>1. ConsoleInv => ConsoleTypeOK
  <2> SUFFICES ASSUME ConsoleInv PROVE ConsoleTypeOK
    OBVIOUS
  <2>1. \A i \in Index :
           /\ nodes[i].used \in BOOLEAN /\ nodes[i].handler \in BOOLEAN
           /\ {nodes[i].parent, nodes[i].first, nodes[i].next} \subseteq Index \cup {Null}
           /\ nodes[i].hash \in {0} \cup {Hash(w) : w \in Commands}
    BY DEF ConsoleInv, TreeHolds, Node, Place
  <2>2. Len(userData) <= PoolTokens
    <3>1. Len(<<>>) <= PoolTokens
      BY ConsoleAssumption
    <3> QED
      BY <3>1 DEF ConsoleInv
  <2> QED
    BY <2>1, <2>2 DEF ConsoleInv, ConsoleTypeOK, Place, Errors
<1> QED
  BY <1>1, ConsoleInvariance, PTL

\* Whatever the line, while it is parsed the table holds its tokens, by the
\* rules of the comment above scanNextToken, and in the end it is given back.
THEOREM TableHolds == ConsoleSpec => []TableIsTheLines
<1>1. ConsoleInv => TableIsTheLines
  <2> SUFFICES ASSUME ConsoleInv PROVE TableIsTheLines
    OBVIOUS
  <2>1. poolBusy => Tabulates(userData, line)
    BY TokenizeTabulates DEF ConsoleInv
  <2> QED
    BY <2>1 DEF ConsoleInv, TableIsTheLines
<1> QED
  BY <1>1, ConsoleInvariance, PTL

\* cmdTree_getActiveHandler has the handler that runs, or the last one that
\* ran, however many commands are registered after it.
THEOREM ActiveHolds == ConsoleSpec => []ActiveIsKnown
<1>1. ConsoleInv => ActiveIsKnown
  BY DEF ConsoleInv, ActiveIsKnown, HasActiveHandler
<1> QED
  BY <1>1, ConsoleInvariance, PTL

\* Whatever commands were registered, in whatever order and with whatever
\* names, a line runs the deepest one it begins with, and is only refused if
\* there is none (cmdTree_CommandParse).
THEOREM DeepestRuns == ConsoleSpec => RunsDeepestCommand
<1> DEFINE Runs ==
              LET meant == Meant([k \in DOMAIN userData |-> Hash(Words[k])])
              IN  /\ pc = "parse" /\ pc' = "handler" =>
                        matched' \in meant /\ \A m \in meant : m.depth <= matched'.depth
                  /\ pc = "parse" /\ pc' = "idle" /\ lastError' = "NOT_FOUND" => meant = {}
<1>1. ConsoleInv /\ [ConsoleNext]_consoleVars => [Runs]_consoleVars
  <2> SUFFICES ASSUME ConsoleInv, ConsoleNext PROVE Runs
    OBVIOUS
  <2>1. CASE Dispatch
    <3>1. pc = "parse" /\ poolBusy
      BY <2>1 DEF Dispatch
    <3>2. PICK meant : /\ meant = Meant([k \in DOMAIN userData |-> Hash(Words[k])])
                       /\ Walk(Words) = NoMatch => meant = {}
                       /\ Walk(Words) # NoMatch =>
                             /\ Walk(Words) \in meant
                             /\ \A m \in meant : m.depth <= Walk(Words).depth
      BY <3>1, WalkIsMeant
    <3>3. CASE Walk(Words) # NoMatch
      <4>1. matched' = Walk(Words) /\ pc' = "handler"
        BY <2>1, <3>3 DEF Dispatch
      <4> QED
        BY <3>2, <3>3, <4>1
    <3>4. CASE Walk(Words) = NoMatch
      <4>1. pc' = "idle"
        BY <2>1, <3>4 DEF Dispatch, GiveUp
      <4> QED
        BY <3>2, <3>4, <4>1
    <3> QED
      BY <3>3, <3>4
  <2>2. CASE TooLong
    BY <2>2 DEF TooLong, GiveUp
  <2>3. CASE pc # "parse" \/ pc' = "parse"
    BY <2>3
  <2>4. ConsoleNext => Dispatch \/ TooLong \/ pc # "parse" \/ pc' = "parse"
    BY DEF ConsoleNext, TreeInit, TreeReset, CmdRegister, NotInit, CmdsPoll, ParseSpace,
           HandlerReturns, HandlerRestarts
  <2> QED
    BY <2>1, <2>2, <2>3, <2>4
<1> QED
  BY <1>1, ConsoleInvariance, PTL DEF ConsoleSpec, RunsDeepestCommand

-----------------------------------------------------------------------------
(***************************************************************************)
(* The 1-Wire bus: driver and sensor exchange bits, and each knows where   *)
(* the other is only from the bits it has seen.                            *)
(***************************************************************************)

BitSet == {0, 1}

OwStep ==
    [op : {"send"}, byte : 0 .. 255, bit : 0 .. 7] \cup [op : {"receive"}, left : Nat]
    \cup [op : {"check", "command", "keep", "initialised", "reset", "wait", "temperature"}]

\* What is left of sending these bytes from the i-th on, and what comes after
SendingOn(bytes, i, rest) == Send(SubSeq(bytes, i, Len(bytes))) \o rest

LEMMA SendType ==
    ASSUME NEW bytes \in Seq(0 .. 255)
    PROVE  /\ Send(bytes) \in Seq(OwStep) /\ Len(Send(bytes)) = Len(bytes)
           /\ \A i \in 1 .. Len(bytes) : Send(bytes)[i] = SendOf(bytes[i])
<1>1. \A byte \in 0 .. 255 : SendOf(byte) \in OwStep
  BY DEF SendOf, OwStep
<1>2. \A i \in 1 .. Len(bytes) : SendOf(bytes[i]) \in OwStep
  BY <1>1, ElementOfSeq
<1>3. Len(bytes) \in Nat
  OBVIOUS
<1> QED
  BY <1>2, <1>3 DEF Send

LEMMA SendingOnIs ==
    ASSUME NEW bytes \in Seq(0 .. 255), NEW rest \in Seq(OwStep), NEW i \in 1 .. Len(bytes)
    PROVE  /\ SendingOn(bytes, i, rest) \in Seq(OwStep) /\ SendingOn(bytes, i, rest) # << >>
           /\ Head(SendingOn(bytes, i, rest)) = SendOf(bytes[i])
           /\ Tail(SendingOn(bytes, i, rest)) = SendingOn(bytes, i + 1, rest)
           /\ SendingOn(bytes, Len(bytes) + 1, rest) = rest
<1>0. Len(bytes) \in Nat /\ i \in Nat /\ i >= 1 /\ i <= Len(bytes)
  OBVIOUS
<1>1. PICK s, t : s = SubSeq(bytes, i, Len(bytes)) /\ t = SubSeq(bytes, i + 1, Len(bytes))
  OBVIOUS
<1>2. /\ s \in Seq(0 .. 255) /\ Len(s) = Len(bytes) - i + 1 /\ \A k \in 1 .. Len(s) : s[k] = bytes[i + k - 1]
      /\ t \in Seq(0 .. 255) /\ Len(t) = Len(bytes) - i /\ \A k \in 1 .. Len(t) : t[k] = bytes[i + k]
  <2>1. \A k \in 1 .. Len(bytes) : bytes[k] \in 0 .. 255
    BY ElementOfSeq
  <2>2. PICK n \in Nat, m \in Nat : n = Len(bytes) /\ m = i + 1 /\ m <= n + 1
    BY <1>0
  <2>3. \A k \in i .. n : bytes[k] \in 0 .. 255
    BY <2>1, <2>2
  <2>4. \A k \in m .. n : bytes[k] \in 0 .. 255
    BY <2>1, <2>2
  <2>5. /\ SubSeq(bytes, i, n) \in Seq(0 .. 255) /\ Len(SubSeq(bytes, i, n)) = n - i + 1
        /\ \A k \in 1 .. n - i + 1 : SubSeq(bytes, i, n)[k] = bytes[i + k - 1]
    BY <1>0, <2>2, <2>3, SubSeqProperties
  <2>6. /\ SubSeq(bytes, m, n) \in Seq(0 .. 255) /\ Len(SubSeq(bytes, m, n)) = n - m + 1
        /\ \A k \in 1 .. n - m + 1 : SubSeq(bytes, m, n)[k] = bytes[m + k - 1]
    BY <1>0, <2>2, <2>4, SubSeqProperties
  <2>7. s = SubSeq(bytes, i, n) /\ t = SubSeq(bytes, m, n)
    BY <1>1, <2>2
  <2> HIDE <1>1
  <2> QED
    BY <1>0, <2>2, <2>5, <2>6, <2>7
<1>3. PICK x, y : x = Send(s) /\ y = Send(t)
  OBVIOUS
<1>4. /\ x \in Seq(OwStep) /\ Len(x) = Len(s) /\ \A k \in 1 .. Len(s) : x[k] = SendOf(s[k])
      /\ y \in Seq(OwStep) /\ Len(y) = Len(t) /\ \A k \in 1 .. Len(t) : y[k] = SendOf(t[k])
  BY <1>2, <1>3, SendType
<1>5. \A k \in 1 .. Len(y) : x[k + 1] = y[k]
  <2> TAKE k \in 1 .. Len(y)
  <2>1. k + 1 \in 1 .. Len(s) /\ k \in 1 .. Len(t) /\ k \in Nat
    BY <1>0, <1>2, <1>4
  <2>2. s[k + 1] = bytes[i + (k + 1) - 1] /\ t[k] = bytes[i + k] /\ i + (k + 1) - 1 = i + k
    BY <1>0, <1>2, <2>1
  <2> QED
    BY <1>4, <2>1, <2>2
<1>6. PICK u, v : u = x \o rest /\ v = y \o rest
  OBVIOUS
<1>7. /\ u \in Seq(OwStep) /\ Len(u) = Len(x) + Len(rest)
      /\ \A k \in 1 .. Len(x) + Len(rest) : u[k] = IF k <= Len(x) THEN x[k] ELSE rest[k - Len(x)]
  BY <1>4, <1>6, ConcatProperties, ZenonT(60)
<1>8. /\ v \in Seq(OwStep) /\ Len(v) = Len(y) + Len(rest)
      /\ \A k \in 1 .. Len(y) + Len(rest) : v[k] = IF k <= Len(y) THEN y[k] ELSE rest[k - Len(y)]
  BY <1>4, <1>6, ConcatProperties, ZenonT(60)
<1>9. Len(x) = Len(y) + 1 /\ Len(y) \in Nat /\ Len(rest) \in Nat
  BY <1>0, <1>2, <1>4
<1>10. u # << >> /\ Head(u) = x[1]
  BY <1>7, <1>9
<1>11. Tail(u) = v
  <2>1. Tail(u) \in Seq(OwStep) /\ Len(Tail(u)) = Len(u) - 1 /\ \A k \in 1 .. Len(Tail(u)) : Tail(u)[k] = u[k + 1]
    BY <1>7, <1>10, HeadTailProperties
  <2>2. ASSUME NEW k \in 1 .. Len(v) PROVE Tail(u)[k] = v[k]
    BY <1>5, <1>7, <1>8, <1>9, <2>1, SMTT(30)
  <2> QED
    BY <1>7, <1>8, <1>9, <2>1, <2>2, SeqEqual
<1>12. SendingOn(bytes, Len(bytes) + 1, rest) = rest
  <2>1. SubSeq(bytes, Len(bytes) + 1, Len(bytes)) = << >>
    BY <1>0, SubSeqEmpty
  <2>2. Send(<< >>) = << >>
    BY DEF Send
  <2> QED
    BY <2>1, <2>2, ConcatEmptySeq DEF SendingOn
<1>13. x[1] = SendOf(bytes[i])
  <2>1. 1 \in 1 .. Len(s) /\ s[1] = bytes[i + 1 - 1] /\ i + 1 - 1 = i
    BY <1>0, <1>2
  <2> QED
    BY <1>4, <2>1
<1> QED
  BY <1>1, <1>3, <1>6, <1>7, <1>10, <1>11, <1>12, <1>13 DEF SendingOn

LEMMA EightPowers == 2^0 = 1 /\ 2^1 = 2 /\ 2^2 = 4 /\ 2^3 = 8 /\ 2^4 = 16 /\ 2^5 = 32 /\ 2^6 = 64 /\ 2^7 = 128
  OBVIOUS

LEMMA BitsApart ==
    ASSUME NEW byte \in 0 .. 255
    PROVE  /\ OwBit(byte, 0) = byte % 2 /\ OwBit(byte, 1) = (byte \div 2) % 2
           /\ OwBit(byte, 2) = (byte \div 4) % 2 /\ OwBit(byte, 3) = (byte \div 8) % 2
           /\ OwBit(byte, 4) = (byte \div 16) % 2 /\ OwBit(byte, 5) = (byte \div 32) % 2
           /\ OwBit(byte, 6) = (byte \div 64) % 2 /\ OwBit(byte, 7) = (byte \div 128) % 2
<1>1. byte \div 1 = byte
  OBVIOUS
<1> QED
  BY <1>1, EightPowers DEF OwBit

LEMMA BitType == ASSUME NEW byte \in 0 .. 255, NEW k \in 0 .. 7 PROVE OwBit(byte, k) \in BitSet
<1>1. k = 0 \/ k = 1 \/ k = 2 \/ k = 3 \/ k = 4 \/ k = 5 \/ k = 6 \/ k = 7
  OBVIOUS
<1> QED
  BY <1>1, BitsApart DEF BitSet

\* Eight bits in the order they go over the line make the byte again.
LEMMA ByteAgain ==
    ASSUME NEW byte \in 0 .. 255, NEW bits, \A k \in 1 .. 8 : bits[k] = OwBit(byte, k - 1)
    PROVE  OwValue(bits) = byte
<1>1. /\ bits[1] = byte % 2 /\ bits[2] = (byte \div 2) % 2
      /\ bits[3] = (byte \div 4) % 2 /\ bits[4] = (byte \div 8) % 2
      /\ bits[5] = (byte \div 16) % 2 /\ bits[6] = (byte \div 32) % 2
      /\ bits[7] = (byte \div 64) % 2 /\ bits[8] = (byte \div 128) % 2
  <2>1. /\ bits[1] = OwBit(byte, 0) /\ bits[2] = OwBit(byte, 1) /\ bits[3] = OwBit(byte, 2) /\ bits[4] = OwBit(byte, 3)
        /\ bits[5] = OwBit(byte, 4) /\ bits[6] = OwBit(byte, 5) /\ bits[7] = OwBit(byte, 6) /\ bits[8] = OwBit(byte, 7)
    OBVIOUS
  <2>2. /\ OwBit(byte, 0) = byte % 2 /\ OwBit(byte, 1) = (byte \div 2) % 2
        /\ OwBit(byte, 2) = (byte \div 4) % 2 /\ OwBit(byte, 3) = (byte \div 8) % 2
        /\ OwBit(byte, 4) = (byte \div 16) % 2 /\ OwBit(byte, 5) = (byte \div 32) % 2
        /\ OwBit(byte, 6) = (byte \div 64) % 2 /\ OwBit(byte, 7) = (byte \div 128) % 2
    BY BitsApart
  <2> QED
    BY ONLY <2>1, <2>2
<1>2. (byte % 2) + 2 * ((byte \div 2) % 2) + 4 * ((byte \div 4) % 2) + 8 * ((byte \div 8) % 2)
      + 16 * ((byte \div 16) % 2) + 32 * ((byte \div 32) % 2) + 64 * ((byte \div 64) % 2) + 128 * ((byte \div 128) % 2) = byte
  BY SMTT(30)
<1> QED
  BY <1>1, <1>2 DEF OwValue

\* Bit b of the i-th byte
LEMMA BitsAre ==
    ASSUME NEW bytes \in Seq(0 .. 255)
    PROVE  /\ BitsOf(bytes) \in Seq(BitSet) /\ Len(BitsOf(bytes)) = 8 * Len(bytes)
           /\ \A i \in 1 .. Len(bytes), b \in 0 .. 7 : BitsOf(bytes)[8 * (i - 1) + b + 1] = OwBit(bytes[i], b)
<1>1. Len(bytes) \in Nat /\ \A i \in 1 .. Len(bytes) : bytes[i] \in 0 .. 255
  BY ElementOfSeq
<1>2. ASSUME NEW n \in 1 .. 8 * Len(bytes) PROVE OwBit(bytes[((n - 1) \div 8) + 1], (n - 1) % 8) \in BitSet
  <2>1. ((n - 1) \div 8) + 1 \in 1 .. Len(bytes) /\ (n - 1) % 8 \in 0 .. 7
    BY <1>1
  <2> QED
    BY <1>1, <2>1, BitType
<1>3. ASSUME NEW i \in 1 .. Len(bytes), NEW b \in 0 .. 7
      PROVE  BitsOf(bytes)[8 * (i - 1) + b + 1] = OwBit(bytes[i], b)
  <2>1. PICK n \in 1 .. 8 * Len(bytes) : n = 8 * (i - 1) + b + 1 /\ (n - 1) \div 8 = i - 1 /\ (n - 1) % 8 = b
    BY <1>1
  <2>2. BitsOf(bytes)[n] = OwBit(bytes[((n - 1) \div 8) + 1], (n - 1) % 8)
    BY DEF BitsOf
  <2>3. (n - 1) \div 8 + 1 = i
    BY <2>1
  <2> QED
    BY <2>1, <2>2, <2>3
<1> QED
  BY <1>1, <1>2, <1>3 DEF BitsOf

\* The bits of the i-th byte
LEMMA ByteOf ==
    ASSUME NEW bytes \in Seq(0 .. 255), NEW i \in 1 .. Len(bytes)
    PROVE  OwValue(SubSeq(BitsOf(bytes), 8 * i - 7, 8 * i)) = bytes[i]
<1>0. bytes[i] \in 0 .. 255 /\ Len(bytes) \in Nat
  BY ElementOfSeq
<1>1. PICK n \in Nat, byte \in 0 .. 255 : n = Len(bytes) /\ byte = bytes[i]
  BY <1>0
<1>b. PICK bits \in Seq(BitSet) : bits = BitsOf(bytes)
  BY BitsAre
<1>2. bits \in Seq(BitSet) /\ Len(bits) = 8 * n /\ \A b \in 0 .. 7 : bits[8 * (i - 1) + b + 1] = OwBit(byte, b)
  BY <1>1, <1>b, BitsAre
<1>3. PICK p \in Int, q \in Int : p = 8 * i - 7 /\ q = 8 * i /\ p >= 1 /\ q <= 8 * n
  BY <1>1
<1>4. \A k \in p .. q : bits[k] \in BitSet
  <2>1. \A k \in p .. q : k \in 1 .. Len(bits)
    BY <1>2, <1>3
  <2> QED
    BY <1>2, <2>1, ElementOfSeq
<1>5. \A k \in 1 .. q - p + 1 : SubSeq(bits, p, q)[k] = bits[p + k - 1]
  BY <1>3, <1>4, SubSeqProperties
<1>6. ASSUME NEW k \in 1 .. 8 PROVE SubSeq(bits, p, q)[k] = OwBit(byte, k - 1)
  <2>1. k \in 1 .. q - p + 1 /\ k - 1 \in 0 .. 7 /\ p + k - 1 = 8 * (i - 1) + (k - 1) + 1
    BY <1>3
  <2> QED
    BY <1>2, <1>5, <2>1
<1>7. OwValue(SubSeq(bits, p, q)) = byte
  BY <1>6, ByteAgain
<1> QED
  BY <1>1, <1>b, <1>3, <1>7

Word == {n \in Nat : n < 65536}
BitSeq == Seq(BitSet)
ThreeBytes == {l \in Seq(0 .. 255) : Len(l) = 3}

Modes == {"idle", "rom", "match", "function", "limits", "converting"}

SensorType ==
    [mode : Modes, in : BitSeq, out : BitSeq,
     present : BOOLEAN, measured : Word, limits : ThreeBytes, asked : 0 .. 3]

LEMMA SensorWith ==
    ASSUME NEW s \in SensorType, NEW in \in BitSeq
    PROVE  /\ [s EXCEPT !.in = in] \in SensorType
           /\ [s EXCEPT !.in = in].in = in /\ [s EXCEPT !.in = in].mode = s.mode
           /\ [s EXCEPT !.in = in].out = s.out /\ [s EXCEPT !.in = in].present = s.present
           /\ [s EXCEPT !.in = in].asked = s.asked /\ [s EXCEPT !.in = in].measured = s.measured
           /\ [s EXCEPT !.in = in].limits = s.limits
  BY DEF SensorType

\* The first n of these bits
FirstBits(in, bits, n) == in \in Seq(BitSet) /\ Len(in) = n /\ \A k \in 1 .. n : in[k] = bits[k]

\* The driver sends these bytes, the sensor takes them in this mode, and as many
\* bits have come in as have gone out.
Sends(bytes, rest, mode) ==
    \E i \in 1 .. Len(bytes), b \in 0 .. 7 :
        /\ owTodo \in Seq(OwStep) /\ owTodo # << >>
        /\ Head(owTodo) = [op |-> "send", byte |-> bytes[i], bit |-> b]
        /\ Tail(owTodo) = SendingOn(bytes, i + 1, rest)
        /\ owSensor.mode = mode /\ FirstBits(owSensor.in, BitsOf(bytes), 8 * (i - 1) + b)
        /\ owGot = << >>

\* The bits after which the sensor understands what came in
Whole(mode) == IF mode = "match" THEN 8 * Len(OwRom) ELSE IF mode = "limits" THEN 24 ELSE 8

LEMMA SampledAsSent == \A bit \in BitSet, when \in {15, 30, 59} : BitSampled(bit, when) = bit
  BY DEF BitSet, BitSampled, SlotLow

LEMMA NotYet ==
    ASSUME NEW s \in SensorType, s.mode \in {"rom", "match", "function", "limits"}, Len(s.in) # Whole(s.mode)
    PROVE  Understood(s) = s
  BY DEF Understood, Whole

LEMMA NextBit ==
    ASSUME NEW bits, NEW n \in Nat, NEW in, FirstBits(in, bits, n), bits[n + 1] \in BitSet
    PROVE  FirstBits(Append(in, bits[n + 1]), bits, n + 1)
  BY DEF FirstBits

LEMMA AllBits ==
    ASSUME NEW bits \in Seq(BitSet), NEW in, FirstBits(in, bits, Len(bits))
    PROVE  in = bits
  BY SeqEqual DEF FirstBits

LEMMA PutFirst ==
    ASSUME NEW S, NEW e \in S, NEW s \in Seq(S)
    PROVE  /\ <<e>> \o s \in Seq(S) /\ <<e>> \o s # << >>
           /\ Head(<<e>> \o s) = e /\ Tail(<<e>> \o s) = s
<1>1. PICK t : t = <<e>> \o s
  OBVIOUS
<1>2. <<e>> \in Seq(S) /\ Len(<<e>>) = 1 /\ <<e>>[1] = e
  OBVIOUS
<1>3. /\ t \in Seq(S) /\ Len(t) = 1 + Len(s) /\ Len(s) \in Nat
      /\ \A k \in 1 .. 1 + Len(s) : t[k] = IF k <= 1 THEN <<e>>[k] ELSE s[k - 1]
  BY <1>1, <1>2, ConcatProperties
<1>4. t # << >> /\ Head(t) = e
  BY <1>2, <1>3
<1>5. Tail(t) = s
  <2>1. Tail(t) \in Seq(S) /\ Len(Tail(t)) = Len(t) - 1 /\ \A k \in 1 .. Len(Tail(t)) : Tail(t)[k] = t[k + 1]
    BY <1>3, <1>4, HeadTailProperties
  <2>2. ASSUME NEW k \in 1 .. Len(s) PROVE Tail(t)[k] = s[k]
    BY <1>3, <2>1
  <2> QED
    BY <1>3, <2>1, <2>2, SeqEqual
<1> QED
  BY <1>1, <1>3, <1>4, <1>5

\* One slot: the next bit of the same bytes, or the last and the sensor has them all.
LEMMA SendsOn ==
    ASSUME NEW bytes \in Seq(0 .. 255), NEW rest \in Seq(OwStep), NEW mode \in {"rom", "match", "function", "limits"},
           owSensor \in SensorType, owSensor.present, Sends(bytes, rest, mode), 8 * Len(bytes) = Whole(mode), WriteBit
    PROVE  \/ Sends(bytes, rest, mode)' /\ \E in \in BitSeq : owSensor' = [owSensor EXCEPT !.in = in]
           \/ owTodo' = rest /\ owGot' = << >> /\ owSensor' = Understood([owSensor EXCEPT !.in = BitsOf(bytes)])
<1>1. PICK i \in 1 .. Len(bytes), b \in 0 .. 7 :
         /\ owTodo \in Seq(OwStep) /\ owTodo # << >>
         /\ Head(owTodo) = [op |-> "send", byte |-> bytes[i], bit |-> b]
         /\ Tail(owTodo) = SendingOn(bytes, i + 1, rest)
         /\ owSensor.mode = mode /\ FirstBits(owSensor.in, BitsOf(bytes), 8 * (i - 1) + b)
         /\ owGot = << >>
  BY DEF Sends
<1>2. PICK n \in Nat : n = 8 * (i - 1) + b
  OBVIOUS
<1>3. PICK bits \in Seq(BitSet) : bits = BitsOf(bytes)
  BY BitsAre
<1>4. /\ Len(bits) = 8 * Len(bytes) /\ Len(bytes) \in Nat /\ n < Len(bits)
      /\ bits[n + 1] = OwBit(bytes[i], b) /\ bits[n + 1] \in BitSet
  <2>1. Len(bits) = 8 * Len(bytes) /\ bits[n + 1] = OwBit(bytes[i], b)
    BY <1>2, <1>3, BitsAre
  <2>2. bytes[i] \in 0 .. 255
    BY ElementOfSeq
  <2>3. OwBit(bytes[i], b) \in BitSet
    BY <2>2, BitType
  <2> QED
    BY <1>2, <2>1, <2>3
<1>5. NextSent = bits[n + 1] /\ Head(owTodo).bit = b
  BY <1>1, <1>4 DEF NextSent
<1>6. PICK in : in = Append(owSensor.in, bits[n + 1])
  OBVIOUS
<1>7. FirstBits(in, bits, n + 1) /\ in \in Seq(BitSet) /\ Len(in) = n + 1
  <2>1. FirstBits(in, bits, n + 1)
    BY <1>1, <1>2, <1>3, <1>4, <1>6, NextBit
  <2> QED
    BY <2>1 DEF FirstBits
<1>8. PICK s : s = [owSensor EXCEPT !.in = in]
  OBVIOUS
<1>9. s \in SensorType /\ s.in = in /\ s.mode = mode
  <2>1. in \in BitSeq
    BY <1>7 DEF BitSeq
  <2> QED
    BY <1>1, <1>8, <2>1, SensorWith
<1>10. owSensor' = Understood(s)
  <2>1. PICK when \in {15, 30, 59} : owSensor' = Takes(owSensor, BitSampled(NextSent, when))
    BY DEF WriteBit
  <2>2. BitSampled(NextSent, when) = bits[n + 1]
    BY <1>4, <1>5, SampledAsSent
  <2>3. owSensor.mode \notin {"idle", "converting"}
    BY <1>1
  <2> QED
    BY <1>6, <1>8, <2>1, <2>2, <2>3 DEF Takes
<1>g. owGot' = << >>
  BY <1>1 DEF WriteBit
<1>i. in \in BitSeq
  BY <1>7 DEF BitSeq
<1>11. CASE n + 1 = Len(bits)
  <2>1. i = Len(bytes) /\ b = 7
    BY <1>2, <1>4, <1>11
  <2>2. owTodo' = Tail(owTodo)
    BY <1>5, <2>1 DEF WriteBit, OwRest
  <2>3. Tail(owTodo) = rest
    BY <1>1, <2>1, SendingOnIs
  <2>4. in = bits
    BY <1>7, <1>11, AllBits
  <2> QED
    BY <1>3, <1>8, <1>10, <1>g, <2>2, <2>3, <2>4
<1>12. CASE n + 1 # Len(bits)
  <2>1. Understood(s) = s
    BY <1>4, <1>7, <1>9, <1>12, NotYet
  <2>2. owSensor' = s /\ owSensor'.mode = mode /\ owSensor'.in = in
    BY <1>9, <1>10, <2>1
  <2>3. CASE b = 7
    <3>0. i # Len(bytes)
      <4>1. n + 1 = 8 * i
        BY <1>2, <2>3
      <4>2. n + 1 # 8 * Len(bytes)
        BY <1>4, <1>12
      <4> QED
        BY <4>1, <4>2
    <3>1. PICK j \in 1 .. Len(bytes) : j = i + 1 /\ n + 1 = 8 * (j - 1) + 0
      <4>1. i + 1 \in 1 .. Len(bytes)
        BY <1>4, <3>0
      <4>2. n + 1 = 8 * ((i + 1) - 1) + 0
        BY <1>2, <2>3
      <4> QED
        BY <4>1, <4>2
    <3>2. owTodo' = Tail(owTodo)
      BY <1>5, <2>3 DEF WriteBit, OwRest
    <3>3. /\ owTodo' \in Seq(OwStep) /\ owTodo' # << >> /\ Head(owTodo') = SendOf(bytes[j])
          /\ Tail(owTodo') = SendingOn(bytes, j + 1, rest)
      <4>1. owTodo' = SendingOn(bytes, j, rest)
        BY <1>1, <3>1, <3>2
      <4> QED
        BY <4>1, SendingOnIs
    <3>4. Sends(bytes, rest, mode)'
      <4>1. FirstBits(owSensor'.in, BitsOf(bytes), 8 * (j - 1) + 0)
        BY <1>3, <1>7, <2>2, <3>1
      <4>2. SendOf(bytes[j]) = [op |-> "send", byte |-> bytes[j], bit |-> 0] /\ 0 \in 0 .. 7
        BY DEF SendOf
      <4> QED
        BY <1>g, <2>2, <3>3, <4>1, <4>2 DEF Sends
    <3> QED
      BY <1>i, <1>8, <2>2, <3>4
  <2>4. CASE b # 7
    <3>1. b + 1 \in 0 .. 7 /\ n + 1 = 8 * (i - 1) + (b + 1)
      BY <1>2, <2>4
    <3>2. owTodo' = <<[Head(owTodo) EXCEPT !.bit = @ + 1]>> \o Tail(owTodo)
      BY <1>5, <2>4 DEF WriteBit, OwRest
    <3>3. PICK e : e = [op |-> "send", byte |-> bytes[i], bit |-> b + 1]
      OBVIOUS
    <3>4. [Head(owTodo) EXCEPT !.bit = @ + 1] = e
      <4>1. \A byte : [[op |-> "send", byte |-> byte, bit |-> b] EXCEPT !.bit = @ + 1]
                       = [op |-> "send", byte |-> byte, bit |-> b + 1]
        OBVIOUS
      <4> QED
        BY <1>1, <3>3, <4>1
    <3>5. e \in OwStep
      <4>1. bytes[i] \in 0 .. 255
        BY ElementOfSeq
      <4> QED
        BY <3>1, <3>3, <4>1 DEF OwStep
    <3>6. Tail(owTodo) \in Seq(OwStep)
      BY <1>1, HeadTailProperties
    <3>7. owTodo' \in Seq(OwStep) /\ owTodo' # << >> /\ Head(owTodo') = e /\ Tail(owTodo') = Tail(owTodo)
      <4>1. PICK t \in Seq(OwStep) : t = Tail(owTodo)
        BY <3>6
      <4>2. owTodo' = <<e>> \o t
        BY <3>2, <3>4, <4>1
      <4> QED
        BY <3>5, <4>1, <4>2, PutFirst
    <3>8. Sends(bytes, rest, mode)'
      BY <1>1, <1>3, <1>7, <1>g, <2>2, <3>1, <3>3, <3>7 DEF Sends
    <3> QED
      BY <1>i, <1>8, <2>2, <3>8
  <2> QED
    BY <2>3, <2>4
<1> QED
  BY <1>11, <1>12

\* The driver is at this operation, and does these after it.
At(name, rest) == owTodo \in Seq(OwStep) /\ owTodo # << >> /\ Head(owTodo) = Op(name) /\ Tail(owTodo) = rest

\* What has not gone out yet
LastBits(out, bits, n) ==
    out \in Seq(BitSet) /\ Len(out) = Len(bits) - n /\ \A k \in 1 .. Len(out) : out[k] = bits[n + k]

\* The sensor answers with these bytes, and what has come in is what has gone out.
Receives(bytes, rest) ==
    \E n \in 0 .. 8 * Len(bytes) - 1 :
        /\ owTodo \in Seq(OwStep) /\ owTodo # << >>
        /\ Head(owTodo) = [op |-> "receive", left |-> 8 * Len(bytes) - n]
        /\ Tail(owTodo) = rest
        /\ FirstBits(owGot, BitsOf(bytes), n) /\ LastBits(owSensor.out, BitsOf(bytes), n)

LEMMA FullSubSeq ==
    ASSUME NEW S, NEW s \in Seq(S)
    PROVE  SubSeq(s, 1, Len(s)) = s
<1>1. PICK n \in Nat : n = Len(s)
  OBVIOUS
<1>2. \A k \in 1 .. n : s[k] \in S
  BY <1>1, ElementOfSeq
<1>3. PICK t : t = SubSeq(s, 1, n)
  OBVIOUS
<1>4. t \in Seq(S) /\ Len(t) = n /\ \A k \in 1 .. n : t[k] = s[k]
  <2>1. CASE n = 0
    <3>1. t = << >>
      BY <1>3, <2>1, SubSeqEmpty
    <3> QED
      BY <2>1, <3>1
  <2>2. CASE n # 0
    <3>1. 1 <= n /\ n - 1 + 1 = n /\ \A k \in 1 .. n : 1 + k - 1 = k
      BY <2>2
    <3>2. t \in Seq(S) /\ Len(t) = n - 1 + 1 /\ \A k \in 1 .. n - 1 + 1 : t[k] = s[1 + k - 1]
      BY <1>2, <1>3, <3>1, SubSeqProperties
    <3> QED
      BY <3>1, <3>2
  <2> QED
    BY <2>1, <2>2
<1>5. t = s
  BY <1>1, <1>4, SeqEqual
<1> QED
  BY <1>1, <1>3, <1>5

\* A program that begins with some bytes begins to send them.
LEMMA StartsSending ==
    ASSUME NEW bytes \in Seq(0 .. 255), bytes # << >>, NEW rest \in Seq(OwStep), NEW mode,
           owTodo' = Send(bytes) \o rest, owSensor'.mode = mode, owSensor'.in = << >>, owGot' = << >>
    PROVE  Sends(bytes, rest, mode)'
<1>1. Len(bytes) \in Nat /\ 1 \in 1 .. Len(bytes)
  OBVIOUS
<1>2. owTodo' = SendingOn(bytes, 1, rest)
  <2>1. SubSeq(bytes, 1, Len(bytes)) = bytes
    BY FullSubSeq
  <2>2. SendingOn(bytes, 1, rest) = Send(bytes) \o rest
    BY ONLY <2>1 DEF SendingOn
  <2> QED
    BY ONLY <2>2, owTodo' = Send(bytes) \o rest
<1>3. /\ owTodo' \in Seq(OwStep) /\ owTodo' # << >> /\ Head(owTodo') = SendOf(bytes[1])
      /\ Tail(owTodo') = SendingOn(bytes, 1 + 1, rest)
  <2>1. PICK on : on = SendingOn(bytes, 1, rest)
    OBVIOUS
  <2>2. on \in Seq(OwStep) /\ on # << >> /\ Head(on) = SendOf(bytes[1]) /\ Tail(on) = SendingOn(bytes, 1 + 1, rest)
    BY <1>1, <2>1, SendingOnIs, Zenon
  <2>3. owTodo' = on
    BY ONLY <1>2, <2>1
  <2> QED
    BY ONLY <2>2, <2>3, Zenon
<1>4. SendOf(bytes[1]) = [op |-> "send", byte |-> bytes[1], bit |-> 0] /\ 0 \in 0 .. 7
  BY DEF SendOf
<1>5. FirstBits(owSensor'.in, BitsOf(bytes), 8 * (1 - 1) + 0)
  BY DEF FirstBits
<1> QED
  BY <1>1, <1>3, <1>4, <1>5 DEF Sends

LEMMA GoesOn ==
    ASSUME NEW name, Op(name) \in OwStep, NEW rest \in Seq(OwStep), owTodo' = <<Op(name)>> \o rest
    PROVE  At(name, rest)'
  BY PutFirst DEF At

\* ---- the two programs, told from each operation on

Precision(p) == <<0, 0, 31 + 32 * p>>

SaysInitialised == <<Op("initialised")>>
Configures(p) == Send(Precision(p)) \o SaysInitialised
AsksLimits(p) == Send(<< 78 >>) \o Configures(p)
Keeps(p) == <<Op("keep")>> \o AsksLimits(p)
GetsRom(p) == <<Receive(Len(OwRom))>> \o Keeps(p)
AsksRom(p) == Send(<< 51 >>) \o GetsRom(p)
BeginsCommand(p) == <<Op("command")>> \o AsksRom(p)
Initialises(p) == <<Op("check")>> \o BeginsCommand(p)

ReportsIt == <<Op("temperature")>>
GetsPad == <<Receive(9)>> \o ReportsIt
AsksPad == Send(<< 190 >>) \o GetsPad
Names2 == Send(OwRom) \o AsksPad
Matches2 == Send(<< 85 >>) \o Names2
Resets2 == <<Op("reset")>> \o Matches2
Waits == <<Op("wait")>> \o Resets2
Converts == Send(<< 68 >>) \o Waits
Names1 == Send(OwRom) \o Converts
Matches1 == Send(<< 85 >>) \o Names1
ReadsIt == <<Op("reset")>> \o Matches1

LEMMA OpType ==
    /\ \A name \in {"check", "command", "keep", "initialised", "reset", "wait", "temperature"} : Op(name) \in OwStep
    /\ \A n \in Nat : Receive(n) \in OwStep
<1>1. \A name \in {"check", "command", "keep", "initialised", "reset", "wait", "temperature"} : Op(name) \in OwStep
  BY DEF Op, OwStep
<1>2. \A n \in Nat : Receive(n) \in OwStep
  BY DEF Receive, OwStep
<1> QED
  BY <1>1, <1>2

LEMMA BeforeType ==
    ASSUME NEW rest \in Seq(OwStep)
    PROVE  /\ \A bytes \in Seq(0 .. 255) : Send(bytes) \o rest \in Seq(OwStep)
           /\ \A step \in OwStep : <<step>> \o rest \in Seq(OwStep)
<1>1. ASSUME NEW bytes \in Seq(0 .. 255) PROVE Send(bytes) \o rest \in Seq(OwStep)
  <2>1. PICK s \in Seq(OwStep) : s = Send(bytes)
    BY SendType
  <2> QED
    BY <2>1, ConcatProperties
<1>2. ASSUME NEW step \in OwStep PROVE <<step>> \o rest \in Seq(OwStep)
  BY PutFirst
<1> QED
  BY <1>1, <1>2

LEMMA OneByte == \A byte \in 0 .. 255 : <<byte>> \in Seq(0 .. 255) /\ <<byte>> # << >> /\ Len(<<byte>>) = 1
  OBVIOUS

LEMMA PrecisionType == ASSUME NEW p \in 0 .. 3 PROVE Precision(p) \in Seq(0 .. 255) /\ Precision(p) # << >> /\ Len(Precision(p)) = 3
<1>1. PICK n \in 0 .. 255 : n = 31 + 32 * p
  OBVIOUS
<1>2. <<0, 0, n>> \in Seq(0 .. 255) /\ <<0, 0, n>> # << >> /\ Len(<<0, 0, n>>) = 3
  OBVIOUS
<1> QED
  BY <1>1, <1>2 DEF Precision

LEMMA RomType == OwRom \in Seq(0 .. 255) /\ OwRom # << >> /\ Len(OwRom) \in Nat
  BY OwRomAssumption

LEMMA Programs1 ==
    ASSUME NEW p \in 0 .. 3
    PROVE  /\ SaysInitialised \in Seq(OwStep) /\ Configures(p) \in Seq(OwStep) /\ AsksLimits(p) \in Seq(OwStep)
           /\ Keeps(p) \in Seq(OwStep) /\ GetsRom(p) \in Seq(OwStep) /\ AsksRom(p) \in Seq(OwStep)
           /\ BeginsCommand(p) \in Seq(OwStep) /\ Initialises(p) \in Seq(OwStep)
<1>1. Op("initialised") \in OwStep /\ Op("keep") \in OwStep /\ Op("command") \in OwStep /\ Op("check") \in OwStep
  BY OpType
<1>2. Receive(Len(OwRom)) \in OwStep
  BY OpType, RomType
<1>3. << 51 >> \in Seq(0 .. 255) /\ << 78 >> \in Seq(0 .. 255) /\ Precision(p) \in Seq(0 .. 255)
  BY OneByte, PrecisionType
<1>4. SaysInitialised \in Seq(OwStep)
  BY <1>1 DEF SaysInitialised
<1>5. Configures(p) \in Seq(OwStep)
  BY <1>3, <1>4, BeforeType DEF Configures
<1>6. AsksLimits(p) \in Seq(OwStep)
  BY <1>3, <1>5, BeforeType DEF AsksLimits
<1>7. Keeps(p) \in Seq(OwStep)
  BY <1>1, <1>6, BeforeType DEF Keeps
<1>8. GetsRom(p) \in Seq(OwStep)
  BY <1>2, <1>7, BeforeType DEF GetsRom
<1>9. AsksRom(p) \in Seq(OwStep)
  BY <1>3, <1>8, BeforeType DEF AsksRom
<1>10. BeginsCommand(p) \in Seq(OwStep)
  BY <1>1, <1>9, BeforeType DEF BeginsCommand
<1> QED
  BY <1>1, <1>4, <1>5, <1>6, <1>7, <1>8, <1>9, <1>10, BeforeType DEF Initialises

LEMMA Programs2 ==
    /\ ReportsIt \in Seq(OwStep) /\ GetsPad \in Seq(OwStep) /\ AsksPad \in Seq(OwStep) /\ Names2 \in Seq(OwStep)
    /\ Matches2 \in Seq(OwStep) /\ Resets2 \in Seq(OwStep) /\ Waits \in Seq(OwStep) /\ Converts \in Seq(OwStep)
    /\ Names1 \in Seq(OwStep) /\ Matches1 \in Seq(OwStep) /\ ReadsIt \in Seq(OwStep)
<1>1. Op("temperature") \in OwStep /\ Op("reset") \in OwStep /\ Op("wait") \in OwStep
  BY OpType
<1>2. Receive(9) \in OwStep
  BY OpType
<1>3. << 190 >> \in Seq(0 .. 255) /\ << 85 >> \in Seq(0 .. 255) /\ << 68 >> \in Seq(0 .. 255) /\ OwRom \in Seq(0 .. 255)
  BY OneByte, RomType
<1>4. ReportsIt \in Seq(OwStep)
  BY <1>1 DEF ReportsIt
<1>5. GetsPad \in Seq(OwStep)
  BY <1>2, <1>4, BeforeType DEF GetsPad
<1>6. AsksPad \in Seq(OwStep)
  BY <1>3, <1>5, BeforeType DEF AsksPad
<1>7. Names2 \in Seq(OwStep)
  BY <1>3, <1>6, BeforeType DEF Names2
<1>8. Matches2 \in Seq(OwStep)
  BY <1>3, <1>7, BeforeType DEF Matches2
<1>9. Resets2 \in Seq(OwStep)
  BY <1>1, <1>8, BeforeType DEF Resets2
<1>10. Waits \in Seq(OwStep)
  BY <1>1, <1>9, BeforeType DEF Waits
<1>11. Converts \in Seq(OwStep)
  BY <1>3, <1>10, BeforeType DEF Converts
<1>12. Names1 \in Seq(OwStep)
  BY <1>3, <1>11, BeforeType DEF Names1
<1>13. Matches1 \in Seq(OwStep)
  BY <1>3, <1>12, BeforeType DEF Matches1
<1> QED
  BY <1>1, <1>4, <1>5, <1>6, <1>7, <1>8, <1>9, <1>10, <1>11, <1>12, <1>13, BeforeType DEF ReadsIt

\* One program, and then another
Steps == Seq(OwStep)
One(a) == <<a>>
Then(a, b) == a \o b

LEMMA CommandBytes ==
    51 \in 0 .. 255 /\ 78 \in 0 .. 255 /\ 85 \in 0 .. 255 /\ 68 \in 0 .. 255 /\ 190 \in 0 .. 255
  OBVIOUS

LEMMA SendSteps == \A bytes \in Seq(0 .. 255) : Send(bytes) \in Steps
  BY SendType DEF Steps

LEMMA SendByte == \A byte \in 0 .. 255 : Send(<<byte>>) \in Steps
  BY SendSteps, OneByte

LEMMA Assoc ==
    ASSUME NEW a \in Steps, NEW b \in Steps, NEW c \in Steps
    PROVE  Then(Then(a, b), c) = Then(a, Then(b, c)) /\ Then(a, b) \in Steps
  BY ConcatAssociative, ConcatProperties DEF Steps, Then

LEMMA Pair == ASSUME NEW a \in OwStep, NEW b \in OwStep
              PROVE  <<a, b>> = Then(One(a), One(b)) /\ One(a) \in Steps /\ One(b) \in Steps /\ <<a, b>> \in Steps
<1>1. <<a>> \in Steps /\ <<b>> \in Steps /\ <<a, b>> \in Steps
  BY DEF Steps
<1>2. PICK s \in Seq(OwStep), t \in Seq(OwStep) : s = <<a, b>> /\ t = <<a>> \o <<b>>
  BY <1>1, ConcatProperties DEF Steps
<1>3. Len(s) = 2 /\ s[1] = a /\ s[2] = b
  BY <1>2
<1>4. Len(t) = 2 /\ t[1] = a /\ t[2] = b
  <2>1. PICK u \in Seq(OwStep), v \in Seq(OwStep) : u = <<a>> /\ v = <<b>>
    BY <1>1 DEF Steps
  <2>2. Len(u) = 1 /\ Len(v) = 1 /\ u[1] = a /\ v[1] = b
    BY <2>1
  <2>3. t = u \o v
    BY <1>2, <2>1
  <2>4. Len(t) = Len(u) + Len(v) /\ \A k \in 1 .. Len(u) + Len(v) : t[k] = IF k <= Len(u) THEN u[k] ELSE v[k - Len(u)]
    BY <2>3, ConcatProperties
  <2> QED
    BY <2>2, <2>4
<1>5. s = t
  BY <1>3, <1>4, SeqEqual
<1> QED
  BY <1>1, <1>2, <1>5 DEF Then, One, One

\* The programs of the two calls, one operation after the other
LEMMA InitialisesIs == ASSUME NEW p \in 0 .. 3 PROVE ds18b20InitialiseSteps(p) = Initialises(p)
<1>1. PICK a \in OwStep, b \in OwStep : a = Op("check") /\ b = Op("command")
  BY OpType
<1>2. PICK c \in OwStep, d \in OwStep : c = Receive(Len(OwRom)) /\ d = Op("keep")
  BY OpType, RomType
<1>3. PICK u \in Steps, v \in Steps, w \in Steps, x \in Steps :
         u = Send(<< 51 >>) /\ v = Send(<< 78 >>) /\ w = Send(Precision(p)) /\ x = SaysInitialised
  <2>1. /\ Send(<< 51 >>) \in Steps /\ Send(<< 78 >>) \in Steps /\ Send(Precision(p)) \in Steps
    <3>1. PICK m \in 0 .. 255, n \in 0 .. 255 : m = 51 /\ n = 78
      OBVIOUS
    <3>2. Send(<<m>>) \in Steps /\ Send(<<n>>) \in Steps
      BY SendByte
    <3>3. Send(Precision(p)) \in Steps
      BY SendSteps, PrecisionType
    <3> QED
      BY <3>1, <3>2, <3>3
  <2>2. SaysInitialised \in Steps
    BY Programs1 DEF Steps
  <2> QED
    BY <2>1, <2>2
<1>4. ds18b20InitialiseSteps(p) = Then(Then(Then(Then(Then(<<a, b>>, u), <<c, d>>), v), w), x)
  BY <1>1, <1>2, <1>3 DEF Then, One, ds18b20InitialiseSteps, Command, Precision, SaysInitialised
<1>5. /\ Configures(p) = Then(w, x) /\ AsksLimits(p) = Then(v, Configures(p)) /\ Keeps(p) = Then(One(d), AsksLimits(p))
      /\ GetsRom(p) = Then(One(c), Keeps(p)) /\ AsksRom(p) = Then(u, GetsRom(p)) /\ BeginsCommand(p) = Then(One(b), AsksRom(p))
      /\ Initialises(p) = Then(One(a), BeginsCommand(p))
  BY <1>1, <1>2, <1>3
     DEF Then, One, Configures, AsksLimits, Keeps, GetsRom, AsksRom, BeginsCommand, Initialises
<1>6. /\ Configures(p) \in Steps /\ AsksLimits(p) \in Steps /\ Keeps(p) \in Steps
      /\ GetsRom(p) \in Steps /\ AsksRom(p) \in Steps
  BY Programs1 DEF Steps
<1>7. PICK ab \in Steps, cd \in Steps : ab = <<a, b>> /\ cd = <<c, d>>
  BY Pair
<1>8. Then(ab, u) \in Steps /\ Then(Then(ab, u), cd) \in Steps /\ Then(Then(Then(ab, u), cd), v) \in Steps
  BY Assoc
<1>9. Then(Then(Then(Then(Then(ab, u), cd), v), w), x) = Then(Then(Then(Then(ab, u), cd), v), Configures(p))
  BY <1>5, <1>8, Assoc
<1>10. Then(Then(Then(Then(ab, u), cd), v), Configures(p)) = Then(Then(Then(ab, u), cd), AsksLimits(p))
  BY <1>5, <1>6, <1>8, Assoc
<1>11. Then(Then(Then(ab, u), cd), AsksLimits(p)) = Then(Then(ab, u), Then(cd, AsksLimits(p)))
  BY <1>6, <1>8, Assoc
<1>a. /\ ab = Then(One(a), One(b)) /\ cd = Then(One(c), One(d))
      /\ One(a) \in Steps /\ One(b) \in Steps /\ One(c) \in Steps /\ One(d) \in Steps
  BY <1>7, Pair
<1>12. Then(cd, AsksLimits(p)) = GetsRom(p)
  BY <1>5, <1>6, <1>a, Assoc
<1>13. Then(Then(ab, u), GetsRom(p)) = Then(ab, AsksRom(p))
  BY <1>5, <1>6, Assoc
<1>14. Then(ab, AsksRom(p)) = Initialises(p)
  BY <1>5, <1>6, <1>a, Assoc
<1> QED
  BY <1>4, <1>7, <1>9, <1>10, <1>11, <1>12, <1>13, <1>14

LEMMA ReadsItIs == ASSUME romCode = OwRom PROVE ds18b20ReadSteps = ReadsIt
<1>1. PICK a \in OwStep, b \in OwStep : a = Op("reset") /\ b = Op("wait")
  BY OpType
<1>2. PICK c \in OwStep, d \in OwStep : c = Receive(9) /\ d = Op("temperature")
  BY OpType
<1>3. PICK u \in Steps, v \in Steps, w \in Steps, x \in Steps :
         u = Send(<< 85 >>) /\ v = Send(OwRom) /\ w = Send(<< 68 >>) /\ x = Send(<< 190 >>)
  <2>1. Send(<< 85 >>) \in Steps /\ Send(OwRom) \in Steps /\ Send(<< 68 >>) \in Steps /\ Send(<< 190 >>) \in Steps
    BY SendByte, SendSteps, RomType, CommandBytes, Zenon
  <2> QED
    BY <2>1
<1>4. PICK aa \in Steps, ba \in Steps, cd \in Steps : aa = One(a) /\ ba = <<b, a>> /\ cd = <<c, d>>
  BY Pair
<1>5. ds18b20ReadSteps = Then(Then(Then(Then(Then(Then(Then(Then(aa, u), v), w), ba), u), v), x), cd)
  BY <1>1, <1>2, <1>3, <1>4 DEF Then, One, ds18b20ReadSteps, Command
<1>6. /\ GetsPad = cd /\ AsksPad = Then(x, GetsPad) /\ Names2 = Then(v, AsksPad) /\ Matches2 = Then(u, Names2)
      /\ Resets2 = Then(aa, Matches2) /\ Waits = Then(One(b), Resets2) /\ Converts = Then(w, Waits) /\ Names1 = Then(v, Converts)
      /\ Matches1 = Then(u, Names1) /\ ReadsIt = Then(aa, Matches1)
  BY <1>1, <1>2, <1>3, <1>4, Pair
     DEF Then, One, ReportsIt, GetsPad, AsksPad, Names2, Matches2, Resets2, Waits, Converts, Names1, Matches1, ReadsIt
<1>7. /\ GetsPad \in Steps /\ AsksPad \in Steps /\ Names2 \in Steps /\ Matches2 \in Steps
      /\ Waits \in Steps /\ Converts \in Steps /\ Names1 \in Steps
  BY Programs2 DEF Steps
<1>8. PICK k \in Steps, l \in Steps, m \in Steps, n \in Steps :
         k = Then(aa, u) /\ l = Then(k, v) /\ m = Then(l, w) /\ n = Then(m, ba)
  BY Assoc
<1>9. PICK o \in Steps, q \in Steps : o = Then(n, u) /\ q = Then(o, v)
  BY Assoc
<1>10. ds18b20ReadSteps = Then(Then(q, x), cd)
  BY <1>5, <1>8, <1>9
<1>11. Then(Then(q, x), cd) = Then(q, AsksPad)
  BY <1>6, Assoc
<1>12. Then(q, AsksPad) = Then(o, Names2)
  BY <1>6, <1>7, <1>9, Assoc
<1>13. Then(o, Names2) = Then(n, Matches2)
  BY <1>6, <1>7, <1>9, Assoc
<1>14. Then(n, Matches2) = Then(m, Waits)
  <2>1. Then(n, Matches2) = Then(m, Then(ba, Matches2))
    BY <1>7, <1>8, Assoc
  <2>2. ba = Then(One(b), One(a)) /\ One(b) \in Steps /\ One(a) \in Steps /\ aa = One(a)
    BY <1>4, Pair
  <2>3. Then(ba, Matches2) = Waits
    BY <1>6, <1>7, <2>2, Assoc
  <2> QED
    BY <2>1, <2>3
<1>15. Then(m, Waits) = Then(l, Converts)
  BY <1>6, <1>7, <1>8, Assoc
<1>16. Then(l, Converts) = Then(k, Names1)
  BY <1>6, <1>7, <1>8, Assoc
<1>17. Then(k, Names1) = Then(aa, Matches1)
  BY <1>6, <1>7, <1>8, Assoc
<1> QED
  BY <1>6, <1>10, <1>11, <1>12, <1>13, <1>14, <1>15, <1>16, <1>17

LEMMA SensorWithOut ==
    ASSUME NEW s \in SensorType, NEW out \in BitSeq
    PROVE  /\ [s EXCEPT !.out = out] \in SensorType /\ [s EXCEPT !.out = out].out = out
           /\ [s EXCEPT !.out = out].in = s.in /\ [s EXCEPT !.out = out].mode = s.mode
           /\ [s EXCEPT !.out = out].present = s.present /\ [s EXCEPT !.out = out].asked = s.asked
           /\ [s EXCEPT !.out = out].measured = s.measured /\ [s EXCEPT !.out = out].limits = s.limits
  BY DEF SensorType

LEMMA SensorWithLimits ==
    ASSUME NEW s \in SensorType, NEW limits \in ThreeBytes
    PROVE  /\ [s EXCEPT !.limits = limits] \in SensorType /\ [s EXCEPT !.limits = limits].limits = limits
           /\ [s EXCEPT !.limits = limits].mode = s.mode
           /\ [s EXCEPT !.limits = limits].present = s.present /\ [s EXCEPT !.limits = limits].asked = s.asked
  BY DEF SensorType

LEMMA InitialisedIs == ASSUME owTodo' = SaysInitialised PROVE At("initialised", << >>)'
<1>1. PICK step \in OwStep : step = Op("initialised")
  BY OpType
<1>2. owTodo' = <<step>>
  BY <1>1 DEF SaysInitialised
<1>3. owTodo' \in Seq(OwStep) /\ owTodo' # << >> /\ Head(owTodo') = step /\ Tail(owTodo') = << >>
  BY <1>2
<1> QED
  BY <1>1, <1>3 DEF At

LEMMA ToldIs == ASSUME owTodo' = ReportsIt PROVE At("temperature", << >>)'
<1>1. PICK step \in OwStep : step = Op("temperature")
  BY OpType
<1>2. owTodo' = <<step>>
  BY <1>1 DEF ReportsIt
<1>3. owTodo' \in Seq(OwStep) /\ owTodo' # << >> /\ Head(owTodo') = step /\ Tail(owTodo') = << >>
  BY <1>2
<1> QED
  BY <1>1, <1>3 DEF At

LEMMA StartsReceiving ==
    ASSUME NEW bytes \in Seq(0 .. 255), bytes # << >>, NEW rest \in Seq(OwStep),
           owTodo' = <<Receive(Len(bytes))>> \o rest, owGot' = << >>, owSensor'.out = BitsOf(bytes)
    PROVE  Receives(bytes, rest)'
<1>1. Len(bytes) \in Nat /\ 0 \in 0 .. 8 * Len(bytes) - 1 /\ 8 * Len(bytes) - 0 = 8 * Len(bytes)
  OBVIOUS
<1>2. Receive(Len(bytes)) \in OwStep
  BY <1>1, OpType
<1>3. /\ owTodo' \in Seq(OwStep) /\ owTodo' # << >> /\ Head(owTodo') = Receive(Len(bytes)) /\ Tail(owTodo') = rest
  BY <1>2, PutFirst
<1>4. Head(owTodo') = [op |-> "receive", left |-> 8 * Len(bytes) - 0]
  BY <1>1, <1>3 DEF Receive
<1>5. PICK bits \in Seq(BitSet) : bits = BitsOf(bytes)
  BY BitsAre
<1>6. FirstBits(owGot', bits, 0) /\ LastBits(owSensor'.out, bits, 0)
  BY <1>5 DEF FirstBits, LastBits
<1> QED
  BY <1>1, <1>3, <1>4, <1>5, <1>6 DEF Receives

LEMMA NextLast ==
    ASSUME NEW bits \in Seq(BitSet), NEW n \in Nat, NEW out, LastBits(out, bits, n), n < Len(bits)
    PROVE  out # << >> /\ Head(out) = bits[n + 1] /\ LastBits(Tail(out), bits, n + 1)
<1>1. out \in Seq(BitSet) /\ Len(out) = Len(bits) - n /\ \A k \in 1 .. Len(out) : out[k] = bits[n + k]
  BY DEF LastBits
<1>2. out # << >> /\ Head(out) = bits[n + 1]
  BY <1>1
<1>3. Tail(out) \in Seq(BitSet) /\ Len(Tail(out)) = Len(out) - 1 /\ \A k \in 1 .. Len(Tail(out)) : Tail(out)[k] = out[k + 1]
  BY <1>1, <1>2, HeadTailProperties
<1>4. ASSUME NEW k \in 1 .. Len(Tail(out)) PROVE Tail(out)[k] = bits[(n + 1) + k]
  <2>1. k + 1 \in 1 .. Len(out) /\ n + (k + 1) = (n + 1) + k
    BY <1>1, <1>3
  <2> QED
    BY <1>1, <1>3, <2>1
<1>5. Len(Tail(out)) = Len(bits) - (n + 1)
  BY <1>1, <1>3
<1> QED
  BY <1>2, <1>3, <1>4, <1>5 DEF LastBits

LEMMA SeenAsSent ==
    ASSUME NEW s, s.present, s.mode # "converting", s.out # << >>, Head(s.out) \in BitSet, NEW until \in {15, 60}
    PROVE  Seen(s, until) = Head(s.out)
  BY DEF Seen, Answer, BitSet

\* One slot: the next bit is in, or it was the last.
LEMMA ReceivesOn ==
    ASSUME NEW bytes \in Seq(0 .. 255), NEW rest \in Seq(OwStep),
           owSensor \in SensorType, owSensor.present, owSensor.mode # "converting", Receives(bytes, rest), ReadBit
    PROVE  /\ \E out \in BitSeq : owSensor' = [owSensor EXCEPT !.out = out]
           /\ Receives(bytes, rest)' \/ (owTodo' = rest /\ owGot' = BitsOf(bytes))
<1>1. PICK n \in 0 .. 8 * Len(bytes) - 1 :
         /\ owTodo \in Seq(OwStep) /\ owTodo # << >>
         /\ Head(owTodo) = [op |-> "receive", left |-> 8 * Len(bytes) - n]
         /\ Tail(owTodo) = rest
         /\ FirstBits(owGot, BitsOf(bytes), n) /\ LastBits(owSensor.out, BitsOf(bytes), n)
  BY DEF Receives
<1>2. PICK bits \in Seq(BitSet) : bits = BitsOf(bytes) /\ Len(bits) = 8 * Len(bytes)
  BY BitsAre
<1>3. n \in Nat /\ n < Len(bits) /\ Len(bits) \in Nat /\ Head(owTodo).left = Len(bits) - n
  BY <1>1, <1>2
<1>4. bits[n + 1] \in BitSet
  <2>1. n + 1 \in 1 .. Len(bits)
    BY <1>3
  <2> QED
    BY <2>1, ElementOfSeq
<1>5. /\ owSensor.out # << >> /\ Head(owSensor.out) = bits[n + 1]
      /\ LastBits(Tail(owSensor.out), bits, n + 1)
  BY <1>1, <1>2, <1>3, NextLast
<1>6. owGot' = Append(owGot, bits[n + 1])
  <2>1. PICK until \in {15, 60} : owGot' = Append(owGot, Seen(owSensor, until))
    BY DEF ReadBit
  <2>2. Seen(owSensor, until) = bits[n + 1]
    BY <1>4, <1>5, SeenAsSent
  <2> QED
    BY <2>1, <2>2
<1>7. FirstBits(owGot', bits, n + 1)
  BY <1>1, <1>2, <1>3, <1>4, <1>6, NextBit
<1>8. PICK out \in BitSeq : out = Tail(owSensor.out)
  BY <1>5 DEF LastBits, BitSeq
<1>9. owSensor' = [owSensor EXCEPT !.out = out]
  BY <1>5, <1>8 DEF ReadBit, AfterRead
<1>10. CASE n + 1 = Len(bits)
  <2>1. owTodo' = rest
    BY <1>1, <1>3, <1>10 DEF ReadBit, OwRest
  <2>2. owGot' = bits
    BY <1>7, <1>10, AllBits
  <2> QED
    BY <1>2, <1>9, <2>1, <2>2
<1>11. CASE n + 1 # Len(bits)
  <2>1. PICK m \in 0 .. 8 * Len(bytes) - 1 : m = n + 1
    <3>1. PICK l \in Nat : l = 8 * Len(bytes) /\ l = Len(bits)
      BY <1>2, <1>3
    <3>2. n + 1 \in 0 .. l - 1
      BY <1>3, <1>11, <3>1
    <3> QED
      BY <3>1, <3>2
  <2>2. owTodo' = <<[Head(owTodo) EXCEPT !.left = @ - 1]>> \o rest
    <3>1. Head(owTodo).left # 1
      BY <1>3, <1>11
    <3>2. Doing("receive") /\ OwRest = rest
      BY <1>1 DEF Doing, OwRest
    <3> QED
      BY <3>1, <3>2 DEF ReadBit
  <2>3. PICK e : e = [op |-> "receive", left |-> 8 * Len(bytes) - m]
    OBVIOUS
  <2>4. [Head(owTodo) EXCEPT !.left = @ - 1] = e
    <3>1. (8 * Len(bytes) - n) - 1 = 8 * Len(bytes) - m
      BY <1>2, <1>3, <2>1
    <3>2. \A left : [[op |-> "receive", left |-> left] EXCEPT !.left = @ - 1] = [op |-> "receive", left |-> left - 1]
      OBVIOUS
    <3> QED
      BY <1>1, <2>3, <3>1, <3>2
  <2>5. e \in OwStep
    <3>1. 8 * Len(bytes) - m \in Nat
      BY <1>2, <1>3, <2>1
    <3> QED
      BY <2>3, <3>1 DEF OwStep
  <2>6. owTodo' = <<e>> \o rest
    BY <2>2, <2>4
  <2>7. owTodo' \in Seq(OwStep) /\ owTodo' # << >> /\ Head(owTodo') = e /\ Tail(owTodo') = rest
    BY <2>5, <2>6, PutFirst
  <2>8. LastBits(owSensor'.out, bits, m) /\ FirstBits(owGot', bits, m)
    <3>1. owSensor'.out = out
      BY <1>9, SensorWithOut
    <3> QED
      BY <1>5, <1>7, <1>8, <2>1, <3>1
  <2>9. Receives(bytes, rest)'
    BY <1>2, <2>3, <2>7, <2>8 DEF Receives
  <2> QED
    BY <1>9, <2>9
<1> QED
  BY <1>10, <1>11

\* ---- what the sensor understands

LEMMA OneCommand ==
    ASSUME NEW v \in 0 .. 255
    PROVE  BitsOf(<<v>>) \in Seq(BitSet) /\ Len(BitsOf(<<v>>)) = 8 /\ OwValue(BitsOf(<<v>>)) = v
<1>1. PICK bytes \in Seq(0 .. 255) : bytes = <<v>> /\ Len(bytes) = 1 /\ bytes[1] = v
  BY OneByte
<1>2. BitsOf(bytes) \in Seq(BitSet) /\ Len(BitsOf(bytes)) = 8
  <2>1. BitsOf(bytes) \in Seq(BitSet) /\ Len(BitsOf(bytes)) = 8 * Len(bytes)
    BY BitsAre
  <2> QED
    BY <1>1, <2>1
<1>3. ASSUME NEW k \in 1 .. 8 PROVE BitsOf(bytes)[k] = OwBit(v, k - 1)
  <2>1. PICK i \in 1 .. Len(bytes), b \in 0 .. 7 : i = 1 /\ b = k - 1 /\ k = 8 * (i - 1) + b + 1
    BY <1>1
  <2> QED
    BY <1>1, <2>1, BitsAre
<1>4. OwValue(BitsOf(bytes)) = v
  BY <1>3, ByteAgain
<1> QED
  BY <1>1, <1>2, <1>4

LEMMA NoBits == << >> \in BitSeq
  BY DEF BitSeq

LEMMA TheModes ==
    "idle" \in Modes /\ "rom" \in Modes /\ "match" \in Modes /\ "function" \in Modes /\ "limits" \in Modes
    /\ "converting" \in Modes
  BY DEF Modes

LEMMA NowIs ==
    ASSUME NEW s \in SensorType, NEW mode \in Modes, NEW out \in BitSeq
    PROVE  /\ Now(s, mode, out) \in SensorType
           /\ Now(s, mode, out).mode = mode /\ Now(s, mode, out).in = << >> /\ Now(s, mode, out).out = out
           /\ Now(s, mode, out).present = s.present /\ Now(s, mode, out).asked = s.asked
           /\ Now(s, mode, out).measured = s.measured /\ Now(s, mode, out).limits = s.limits
  BY NoBits DEF Now, SensorType

LEMMA UnderstandsRom ==
    ASSUME NEW s, s.mode = "rom"
    PROVE  /\ s.in = BitsOf(<< 51 >>) => Understood(s) = Now(s, "function", BitsOf(OwRom))
           /\ s.in = BitsOf(<< 85 >>) => Understood(s) = Now(s, "match", s.out)
<1>1. ASSUME NEW v \in 0 .. 255, s.in = BitsOf(<<v>>) PROVE Understood(s) = RomCommand(s, v)
  BY <1>1, OneCommand DEF Understood
<1>2. s.in = BitsOf(<< 51 >>) => Understood(s) = RomCommand(s, 51)
  BY <1>1
<1>3. s.in = BitsOf(<< 85 >>) => Understood(s) = RomCommand(s, 85)
  BY <1>1
<1> QED
  BY <1>2, <1>3 DEF RomCommand

LEMMA UnderstandsFunction ==
    ASSUME NEW s, s.mode = "function"
    PROVE  /\ s.in = BitsOf(<< 68 >>) => Understood(s) = Now(s, "converting", << >>)
           /\ s.in = BitsOf(<< 78 >>) => Understood(s) = Now(s, "limits", << >>)
           /\ s.in = BitsOf(<< 190 >>) => Understood(s) = Now(s, "idle", BitsOf(Scratchpad(s)))
<1>1. ASSUME NEW v \in 0 .. 255, s.in = BitsOf(<<v>>) PROVE Understood(s) = FunctionCommand(s, v)
  BY <1>1, OneCommand DEF Understood
<1>2. s.in = BitsOf(<< 68 >>) => Understood(s) = FunctionCommand(s, 68)
  BY <1>1
<1>3. s.in = BitsOf(<< 78 >>) => Understood(s) = FunctionCommand(s, 78)
  BY <1>1
<1>4. s.in = BitsOf(<< 190 >>) => Understood(s) = FunctionCommand(s, 190)
  BY <1>1
<1> QED
  BY <1>2, <1>3, <1>4 DEF FunctionCommand

LEMMA UnderstandsMatch ==
    ASSUME NEW s, s.mode = "match", s.in = BitsOf(OwRom)
    PROVE  Understood(s) = Now(s, "function", s.out)
<1>1. Len(s.in) = 8 * Len(OwRom)
  BY RomType, BitsAre
<1> QED
  BY <1>1 DEF Understood

LEMMA UnderstandsLimits ==
    ASSUME NEW s, s.mode = "limits", NEW p \in 0 .. 3, s.in = BitsOf(Precision(p))
    PROVE  Understood(s) = [Now(s, "idle", s.out) EXCEPT !.limits = Precision(p)]
<1>1. PICK bytes \in Seq(0 .. 255) : bytes = Precision(p) /\ Len(bytes) = 3
  BY PrecisionType
<1>2. Len(s.in) = 24
  <2>1. Len(BitsOf(bytes)) = 8 * Len(bytes)
    BY BitsAre
  <2> QED
    BY <1>1, <2>1
<1>3. \A i \in 1 .. 3 : OwValue(SubSeq(s.in, 8 * i - 7, 8 * i)) = bytes[i]
  BY <1>1, ByteOf
<1>4. PICK got : got = [i \in 1 .. 3 |-> OwValue(SubSeq(s.in, 8 * i - 7, 8 * i))]
  OBVIOUS
<1>5. got = [i \in 1 .. 3 |-> bytes[i]]
  BY <1>3, <1>4
<1>6. [i \in 1 .. 3 |-> bytes[i]] = bytes
  BY <1>1
<1>7. Understood(s) = Limits(s)
  BY <1>2 DEF Understood
<1>8. Limits(s) = [Now(s, "idle", s.out) EXCEPT !.limits = got]
  BY <1>4 DEF Limits
<1> QED
  BY <1>1, <1>5, <1>6, <1>7, <1>8

\* ---- the invariant: where the two ends are, told together

NotBusy == owSensor.mode # "converting"

\* There is no sensor: nothing but its absence is found out.
Absent(p) ==
    /\ ~owSensor.present /\ NotBusy
    /\ \/ At("check", BeginsCommand(p))
       \/ owTodo = << >> /\ owResult = [call |-> "initialise", value |-> NoOneWireSlave]

Sending(p) ==
    \/ Sends(<< 51 >>, GetsRom(p), "rom")
    \/ /\ romCode = OwRom
       /\ \/ Sends(<< 78 >>, Configures(p), "function")
          \/ Sends(Precision(p), SaysInitialised, "limits")
          \/ Sends(<< 85 >>, Names1, "rom")
          \/ Sends(OwRom, Converts, "match")
          \/ Sends(<< 68 >>, Waits, "function")
          \/ Sends(<< 85 >>, Names2, "rom")
          \/ Sends(OwRom, AsksPad, "match")
          \/ Sends(<< 190 >>, GetsPad, "function")

Receiving(p) ==
    \/ Receives(OwRom, Keeps(p)) /\ owSensor.mode = "function" /\ owSensor.in = << >>
    \/ /\ romCode = OwRom /\ NotBusy
       /\ \E pad \in Seq(0 .. 255) : pad = Scratchpad(owSensor) /\ Receives(pad, ReportsIt)

InHand(p) ==
    \/ At("check", BeginsCommand(p)) /\ NotBusy
    \/ At("command", AsksRom(p)) /\ owSensor.mode = "rom" /\ owSensor.in = << >>
    \/ At("keep", AsksLimits(p)) /\ owGot = BitsOf(OwRom) /\ owSensor.mode = "function" /\ owSensor.in = << >>
    \/ romCode = OwRom /\ At("temperature", << >>) /\ owGot = BitsOf(Scratchpad(owSensor)) /\ NotBusy
    \/ /\ romCode = OwRom /\ owGot = << >>
       /\ \/ At("initialised", << >>) /\ owSensor.limits = Precision(p) /\ NotBusy
          \/ At("reset", Matches1) /\ NotBusy
          \/ At("wait", Resets2) /\ owSensor.mode \in {"converting", "idle"} /\ owSensor.out = << >>
          \/ At("reset", Matches2) /\ NotBusy

Returned(p) ==
    /\ owTodo = << >> /\ NotBusy /\ romCode = OwRom
    /\ \/ owResult = [call |-> "initialise", value |-> InitOK] /\ owSensor.limits = Precision(p)
       \/ owResult = [call |-> "read", value |-> owSensor.measured]

Stage(p) == Sending(p) \/ Receiving(p) \/ InHand(p) \/ Returned(p)

OwAt(p) ==
    /\ owSensor \in SensorType /\ owSensor.asked = p
    /\ Absent(p) \/ (owSensor.present /\ Stage(p))

OwInv == \E p \in 0 .. 3 : OwAt(p)

LEMMA Heads ==
    /\ \A name, rest : At(name, rest) => owTodo # << >> /\ Head(owTodo).op = name
    /\ \A bytes, rest, mode : Sends(bytes, rest, mode) => owTodo # << >> /\ Head(owTodo).op = "send"
    /\ \A bytes, rest : Receives(bytes, rest) => owTodo # << >> /\ Head(owTodo).op = "receive"
<1>1. \A name, rest : At(name, rest) => owTodo # << >> /\ Head(owTodo).op = name
  BY DEF At, Op
<1>2. \A bytes, rest, mode : Sends(bytes, rest, mode) => owTodo # << >> /\ Head(owTodo).op = "send"
  BY DEF Sends
<1>3. \A bytes, rest : Receives(bytes, rest) => owTodo # << >> /\ Head(owTodo).op = "receive"
  BY DEF Receives
<1> QED
  BY <1>1, <1>2, <1>3

\* What the driver does next tells where it is.
LEMMA Which ==
    ASSUME NEW p, OwAt(p)
    PROVE  /\ Doing("send") => owSensor.present /\ Sending(p)
           /\ Doing("receive") => owSensor.present /\ Receiving(p)
           /\ Doing("check") => (~owSensor.present \/ Stage(p)) /\ At("check", BeginsCommand(p)) /\ NotBusy
           /\ Doing("command") => owSensor.present /\ At("command", AsksRom(p)) /\ owSensor.mode = "rom" /\ owSensor.in = << >>
           /\ Doing("keep") => owSensor.present /\ At("keep", AsksLimits(p)) /\ owGot = BitsOf(OwRom)
                               /\ owSensor.mode = "function" /\ owSensor.in = << >>
           /\ Doing("temperature") => owSensor.present /\ romCode = OwRom /\ owGot = BitsOf(Scratchpad(owSensor)) /\ NotBusy
           /\ Doing("initialised") => owSensor.present /\ romCode = OwRom /\ owSensor.limits = Precision(p) /\ NotBusy
           /\ Doing("reset") => owSensor.present /\ romCode = OwRom /\ owGot = << >>
                                /\ (At("reset", Matches1) \/ At("reset", Matches2))
           /\ Doing("wait") => owSensor.present /\ romCode = OwRom /\ owGot = << >> /\ At("wait", Resets2)
                               /\ owSensor.mode \in {"converting", "idle"} /\ owSensor.out = << >>
           /\ owTodo = << >> => Absent(p) \/ (owSensor.present /\ Returned(p))
<1>1. Sending(p) => owTodo # << >> /\ Head(owTodo).op = "send"
  BY Heads DEF Sending
<1>2. Receiving(p) => owTodo # << >> /\ Head(owTodo).op = "receive"
  BY Heads DEF Receiving
<1>3. /\ At("check", BeginsCommand(p)) => owTodo # << >> /\ Head(owTodo).op = "check"
      /\ At("command", AsksRom(p)) => owTodo # << >> /\ Head(owTodo).op = "command"
      /\ At("keep", AsksLimits(p)) => owTodo # << >> /\ Head(owTodo).op = "keep"
      /\ At("temperature", << >>) => owTodo # << >> /\ Head(owTodo).op = "temperature"
      /\ At("initialised", << >>) => owTodo # << >> /\ Head(owTodo).op = "initialised"
      /\ At("reset", Matches1) => owTodo # << >> /\ Head(owTodo).op = "reset"
      /\ At("reset", Matches2) => owTodo # << >> /\ Head(owTodo).op = "reset"
      /\ At("wait", Resets2) => owTodo # << >> /\ Head(owTodo).op = "wait"
  BY Heads
<1>4. Absent(p) \/ (owSensor.present /\ Stage(p))
  BY DEF OwAt
<1>5. CASE Absent(p)
  BY <1>3, <1>5 DEF Absent, Doing
<1>6. CASE owSensor.present /\ Sending(p)
  BY <1>1, <1>6 DEF Doing
<1>7. CASE owSensor.present /\ Receiving(p)
  BY <1>2, <1>7 DEF Doing
<1>8. CASE owSensor.present /\ InHand(p)
  BY <1>3, <1>8 DEF InHand, Doing, Stage
<1>9. CASE owSensor.present /\ Returned(p)
  BY <1>9 DEF Returned, Doing
<1> QED
  BY <1>4, <1>5, <1>6, <1>7, <1>8, <1>9 DEF Stage

\* ---- the scratchpad

LEMMA SensorParts ==
    ASSUME NEW s \in SensorType
    PROVE  s.measured \in Word /\ s.limits \in ThreeBytes /\ s.out \in BitSeq
  BY DEF SensorType

LEMMA WordIs == (\A n \in Word : n \in Nat /\ n <= 65535) /\ \A n \in Nat : n < 65536 => n \in Word
<1>1. \A n \in Word : n \in Nat /\ n <= 65535
  BY DEF Word
<1>2. ASSUME NEW n \in Nat, n < 65536 PROVE n \in Word
  <2>1. n \in Int /\ 0 <= n /\ n <= 65535
    BY <1>2
  <2> QED
    BY <2>1 DEF Word
<1> QED
  BY <1>1, <1>2

LEMMA TwoBytes == \A l \in 0 .. 255, h \in 0 .. 255 :
    <<l, h>> \in Seq(0 .. 255) /\ Len(<<l, h>>) = 2 /\ <<l, h>>[1] = l /\ <<l, h>>[2] = h
  OBVIOUS

LEMMA PadTail == <<255, 12, 16, 0>> \in Seq(0 .. 255) /\ Len(<<255, 12, 16, 0>>) = 4
<1>1. PICK a \in 0 .. 255, b \in 0 .. 255 : a = 255 /\ b = 12
  OBVIOUS
<1>2. PICK c \in 0 .. 255, d \in 0 .. 255 : c = 16 /\ d = 0
  OBVIOUS
<1>3. <<a, b, c, d>> \in Seq(0 .. 255) /\ Len(<<a, b, c, d>>) = 4
  BY SMTT(30)
<1> QED
  BY <1>1, <1>2, <1>3

LEMMA BytesThen ==
    ASSUME NEW u \in Seq(0 .. 255), NEW v \in Seq(0 .. 255)
    PROVE  u \o v \in Seq(0 .. 255) /\ Len(u \o v) = Len(u) + Len(v) /\ \A k \in 1 .. Len(u) : (u \o v)[k] = u[k]
<1>1. PICK w : w = u \o v
  OBVIOUS
<1>2. /\ w \in Seq(0 .. 255) /\ Len(w) = Len(u) + Len(v)
      /\ \A k \in 1 .. Len(u) + Len(v) : w[k] = IF k <= Len(u) THEN u[k] ELSE v[k - Len(u)]
  BY <1>1, ConcatProperties
<1>3. ASSUME NEW k \in 1 .. Len(u) PROVE w[k] = u[k]
  <2>1. k \in 1 .. Len(u) + Len(v) /\ k <= Len(u)
    OBVIOUS
  <2> QED
    BY <1>2, <2>1
<1> QED
  BY <1>1, <1>2, <1>3

LEMMA NineBytes == ASSUME NEW bytes \in Seq(0 .. 255), Len(bytes) = 9 PROVE bytes # << >>
<1>1. Len(<< >>) = 0 /\ 9 # 0
  OBVIOUS
<1> QED
  BY ONLY <1>1, Len(bytes) = 9, Zenon

LEMMA PadIs ==
    ASSUME NEW s \in SensorType
    PROVE  /\ Scratchpad(s) \in Seq(0 .. 255) /\ Len(Scratchpad(s)) = 9 /\ Scratchpad(s) # << >>
           /\ Scratchpad(s)[1] = LowByte(s.measured) /\ Scratchpad(s)[2] = HighByte(s.measured)
           /\ \A t : t.measured = s.measured /\ t.limits = s.limits => Scratchpad(t) = Scratchpad(s)
<1>1. PICK l \in 0 .. 255, h \in 0 .. 255 : l = LowByte(s.measured) /\ h = HighByte(s.measured)
  <2>1. s.measured \in Nat
    BY SensorParts, WordIs
  <2>2. PICK n \in Nat : n = s.measured
    BY <2>1
  <2>3. n % 256 \in 0 .. 255 /\ (n \div 256) % 256 \in 0 .. 255
    OBVIOUS
  <2> QED
    BY <2>2, <2>3 DEF LowByte, HighByte
<1>2. PICK m \in Seq(0 .. 255) : m = s.limits /\ Len(m) = 3
  BY SensorParts DEF ThreeBytes
<1>3. PICK u \in Seq(0 .. 255) : u = <<l, h>> /\ Len(u) = 2 /\ u[1] = l /\ u[2] = h
  <2>1. PICK u : u = <<l, h>>
    OBVIOUS
  <2>2. u \in Seq(0 .. 255) /\ Len(u) = 2 /\ u[1] = l /\ u[2] = h
    BY <2>1
  <2> QED
    BY <2>1, <2>2
<1>4. PICK v \in Seq(0 .. 255) : v = <<255, 12, 16, 0>> /\ Len(v) = 4
  BY PadTail
<1>5. PICK w \in Seq(0 .. 255) : w = u \o m /\ Len(w) = Len(u) + Len(m) /\ \A k \in 1 .. Len(u) : w[k] = u[k]
  BY BytesThen, ZenonT(30)
<1>6. PICK x \in Seq(0 .. 255) : x = w \o v /\ Len(x) = Len(w) + Len(v) /\ \A k \in 1 .. Len(w) : x[k] = w[k]
  BY BytesThen, ZenonT(30)
<1>7. Len(x) = 9 /\ x[1] = l /\ x[2] = h
  <2>1. Len(w) = 5 /\ Len(x) = 9
    BY <1>2, <1>3, <1>4, <1>5, <1>6
  <2>2. w[1] = l /\ w[2] = h
    BY <1>3, <1>5
  <2> QED
    BY <1>6, <2>1, <2>2
<1>8. Scratchpad(s) = x
  BY <1>1, <1>2, <1>3, <1>4, <1>5, <1>6 DEF Scratchpad
<1>9. x # << >>
  BY <1>7, NineBytes
<1>10. \A t : t.measured = s.measured /\ t.limits = s.limits => Scratchpad(t) = Scratchpad(s)
  BY DEF Scratchpad
<1> QED
  BY ONLY <1>1, <1>7, <1>8, <1>9, <1>10, Zenon

\* ---- each action

\* A slot of a send, as the stages need it: on with the same bytes, or the sensor
\* has them all
Sent(bytes, rest, mode) ==
    \/ /\ Sends(bytes, rest, mode)' /\ owSensor' \in SensorType
       /\ owSensor'.present = owSensor.present /\ owSensor'.asked = owSensor.asked
    \/ \E s \in SensorType :
          /\ s.mode = mode /\ s.in = BitsOf(bytes)
          /\ s.present = owSensor.present /\ s.asked = owSensor.asked
          /\ owSensor' = Understood(s) /\ owTodo' = rest /\ owGot' = << >>

LEMMA SentOn ==
    ASSUME NEW bytes \in Seq(0 .. 255), NEW rest \in Seq(OwStep), NEW mode \in {"rom", "match", "function", "limits"},
           owSensor \in SensorType, owSensor.present, Sends(bytes, rest, mode), 8 * Len(bytes) = Whole(mode), WriteBit
    PROVE  Sent(bytes, rest, mode)
<1>2. ASSUME Sends(bytes, rest, mode)', NEW in \in BitSeq, owSensor' = [owSensor EXCEPT !.in = in]
      PROVE  Sent(bytes, rest, mode)
  <2>1. /\ owSensor' \in SensorType /\ owSensor'.present = owSensor.present /\ owSensor'.asked = owSensor.asked
    BY <1>2, SensorWith
  <2> QED
    BY <1>2, <2>1 DEF Sent
<1>3. CASE owTodo' = rest /\ owGot' = << >> /\ owSensor' = Understood([owSensor EXCEPT !.in = BitsOf(bytes)])
  <2>1. PICK in \in BitSeq : in = BitsOf(bytes)
    BY BitsAre DEF BitSeq
  <2>2. PICK s \in SensorType : s = [owSensor EXCEPT !.in = in]
    BY SensorWith
  <2>3. s.mode = owSensor.mode /\ s.in = in /\ s.present = owSensor.present /\ s.asked = owSensor.asked
    BY <2>2, SensorWith
  <2>4. owSensor.mode = mode
    BY DEF Sends
  <2> QED
    BY <1>3, <2>1, <2>2, <2>3, <2>4 DEF Sent
<1> QED
  BY <1>2, <1>3, SendsOn

LEMMA CommandIn ==
    ASSUME NEW v \in 0 .. 255, NEW rest \in Seq(OwStep), NEW mode \in {"rom", "function"},
           owSensor \in SensorType, owSensor.present, Sends(<<v>>, rest, mode), WriteBit
    PROVE  Sent(<<v>>, rest, mode)
<1>1. PICK bytes \in Seq(0 .. 255) : bytes = <<v>> /\ Len(bytes) = 1
  BY OneByte
<1>2. 8 * Len(bytes) = Whole(mode)
  BY <1>1 DEF Whole
<1>3. Sends(bytes, rest, mode) /\ mode \in {"rom", "match", "function", "limits"}
  BY <1>1
<1>4. Sent(bytes, rest, mode)
  BY <1>2, <1>3, SentOn
<1> QED
  BY <1>1, <1>4

LEMMA InitialisesBySending ==
    ASSUME NEW p \in 0 .. 3, OwAt(p), owSensor.present, WriteBit,
           \/ Sends(<< 51 >>, GetsRom(p), "rom")
           \/ romCode = OwRom /\ (Sends(<< 78 >>, Configures(p), "function") \/ Sends(Precision(p), SaysInitialised, "limits"))
    PROVE  OwAt(p)'
<1>1. owSensor \in SensorType /\ owSensor.asked = p /\ romCode' = romCode
  BY DEF OwAt, WriteBit
<1>2. GetsRom(p) \in Seq(OwStep) /\ Configures(p) \in Seq(OwStep) /\ SaysInitialised \in Seq(OwStep)
  BY Programs1
<1>3. CASE Sends(<< 51 >>, GetsRom(p), "rom")
  <2>1. Sent(<< 51 >>, GetsRom(p), "rom")
    BY <1>1, <1>2, <1>3, CommandIn, CommandBytes, Zenon
  <2>2. ASSUME Sends(<< 51 >>, GetsRom(p), "rom")', owSensor' \in SensorType,
               owSensor'.present = owSensor.present, owSensor'.asked = owSensor.asked
        PROVE  OwAt(p)'
    BY <1>1, <2>2 DEF OwAt, Stage, Sending
  <2>3. ASSUME NEW s \in SensorType, s.mode = "rom", s.in = BitsOf(<< 51 >>), s.present = owSensor.present,
               s.asked = owSensor.asked, owSensor' = Understood(s), owTodo' = GetsRom(p), owGot' = << >>
        PROVE  OwAt(p)'
    <3>1. PICK bits \in BitSeq : bits = BitsOf(OwRom)
      BY BitsAre, RomType DEF BitSeq
    <3>2. PICK n : n = Now(s, "function", bits)
      OBVIOUS
    <3>n. /\ n \in SensorType /\ n.mode = "function" /\ n.in = << >> /\ n.out = bits
          /\ n.present = s.present /\ n.asked = s.asked
      <4>1. PICK mode \in Modes : mode = "function"
        BY TheModes
      <4>2. n = Now(s, mode, bits)
        BY <3>2, <4>1
      <4>3. /\ n \in SensorType /\ n.mode = mode /\ n.in = << >> /\ n.out = bits
            /\ n.present = s.present /\ n.asked = s.asked
        BY <4>2, NowIs
      <4> QED
        BY <4>1, <4>3
    <3>s. owSensor' = n
      BY <2>3, <3>1, <3>2, UnderstandsRom
    <3>3. /\ owSensor' \in SensorType /\ owSensor'.mode = "function" /\ owSensor'.in = << >>
          /\ owSensor'.out = bits /\ owSensor'.present = owSensor.present /\ owSensor'.asked = p
      BY <1>1, <2>3, <3>n, <3>s
    <3>4. Keeps(p) \in Seq(OwStep)
      BY Programs1
    <3>5. Receives(OwRom, Keeps(p))'
      BY <2>3, <3>1, <3>3, <3>4, RomType, StartsReceiving DEF GetsRom
    <3> QED
      BY <3>3, <3>5 DEF OwAt, Stage, Receiving
  <2> QED
    BY <2>1, <2>2, <2>3 DEF Sent
<1>4. CASE romCode = OwRom /\ Sends(<< 78 >>, Configures(p), "function")
  <2>1. Sent(<< 78 >>, Configures(p), "function")
    BY <1>1, <1>2, <1>4, CommandIn, CommandBytes, Zenon
  <2>2. ASSUME Sends(<< 78 >>, Configures(p), "function")', owSensor' \in SensorType,
               owSensor'.present = owSensor.present, owSensor'.asked = owSensor.asked
        PROVE  OwAt(p)'
    BY <1>1, <1>4, <2>2 DEF OwAt, Stage, Sending
  <2>3. ASSUME NEW s \in SensorType, s.mode = "function", s.in = BitsOf(<< 78 >>), s.present = owSensor.present,
               s.asked = owSensor.asked, owSensor' = Understood(s), owTodo' = Configures(p), owGot' = << >>
        PROVE  OwAt(p)'
    <3>1. PICK bits \in BitSeq : bits = << >>
      BY NoBits
    <3>2. PICK n : n = Now(s, "limits", bits)
      OBVIOUS
    <3>n. /\ n \in SensorType /\ n.mode = "limits" /\ n.in = << >> /\ n.out = bits
          /\ n.present = s.present /\ n.asked = s.asked
      <4>1. PICK mode \in Modes : mode = "limits"
        BY TheModes
      <4>2. n = Now(s, mode, bits)
        BY <3>2, <4>1
      <4>3. /\ n \in SensorType /\ n.mode = mode /\ n.in = << >> /\ n.out = bits
            /\ n.present = s.present /\ n.asked = s.asked
        BY <4>2, NowIs
      <4> QED
        BY <4>1, <4>3
    <3>s. owSensor' = n
      BY <2>3, <3>1, <3>2, UnderstandsFunction
    <3>3. /\ owSensor' \in SensorType /\ owSensor'.mode = "limits" /\ owSensor'.in = << >>
          /\ owSensor'.present = owSensor.present /\ owSensor'.asked = p
      BY <1>1, <2>3, <3>n, <3>s
    <3>4. Sends(Precision(p), SaysInitialised, "limits")'
      BY <1>2, <2>3, <3>3, PrecisionType, StartsSending DEF Configures
    <3> QED
      BY <1>1, <1>4, <3>3, <3>4 DEF OwAt, Stage, Sending
  <2> QED
    BY <2>1, <2>2, <2>3 DEF Sent
<1>5. CASE romCode = OwRom /\ Sends(Precision(p), SaysInitialised, "limits")
  <2>1. Sent(Precision(p), SaysInitialised, "limits")
    <3>1. 8 * Len(Precision(p)) = Whole("limits")
      <4>1. Len(Precision(p)) = 3
        BY PrecisionType
      <4>2. Whole("limits") = 24
        BY DEF Whole
      <4> QED
        BY <4>1, <4>2
    <3> QED
      BY <1>1, <1>2, <1>5, <3>1, PrecisionType, SentOn
  <2>2. ASSUME Sends(Precision(p), SaysInitialised, "limits")', owSensor' \in SensorType,
               owSensor'.present = owSensor.present, owSensor'.asked = owSensor.asked
        PROVE  OwAt(p)'
    BY <1>1, <1>5, <2>2 DEF OwAt, Stage, Sending
  <2>3. ASSUME NEW s \in SensorType, s.mode = "limits", s.in = BitsOf(Precision(p)), s.present = owSensor.present,
               s.asked = owSensor.asked, owSensor' = Understood(s), owTodo' = SaysInitialised, owGot' = << >>
        PROVE  OwAt(p)'
    <3>1. PICK n \in SensorType : n = Now(s, "idle", s.out)
      BY SensorParts, TheModes, NowIs
    <3>2. n.mode = "idle" /\ n.present = s.present /\ n.asked = s.asked
      BY <3>1, SensorParts, TheModes, NowIs
    <3>3. owSensor' = [n EXCEPT !.limits = Precision(p)]
      BY <2>3, <3>1, UnderstandsLimits
    <3>4. /\ owSensor' \in SensorType /\ owSensor'.mode = "idle"
          /\ owSensor'.present = owSensor.present /\ owSensor'.asked = p /\ owSensor'.limits = Precision(p)
      <4>1. PICK limits \in ThreeBytes : limits = Precision(p)
        BY PrecisionType DEF ThreeBytes
      <4>2. owSensor' = [n EXCEPT !.limits = limits]
        BY <3>3, <4>1
      <4> QED
        <5>1. PICK m : m = [n EXCEPT !.limits = limits]
          OBVIOUS
        <5>2. m \in SensorType /\ m.limits = limits /\ m.mode = n.mode /\ m.present = n.present /\ m.asked = n.asked
          BY <5>1, SensorWithLimits
        <5> QED
          BY <1>1, <2>3, <3>2, <4>1, <4>2, <5>1, <5>2
    <3>5. At("initialised", << >>)'
      BY <2>3, InitialisedIs
    <3> QED
      BY <1>1, <1>5, <2>3, <3>4, <3>5 DEF OwAt, Stage, InHand, NotBusy
  <2> QED
    BY <2>1, <2>2, <2>3 DEF Sent
<1> QED
  BY <1>3, <1>4, <1>5

\* The sensor after its command is another mode of the same sensor.
LEMMA NowOf ==
    ASSUME NEW s \in SensorType, NEW mode \in Modes, NEW out \in BitSeq, owSensor' = Now(s, mode, out),
           owSensor \in SensorType, owSensor.present, s.present = owSensor.present, s.asked = owSensor.asked
    PROVE  /\ owSensor' \in SensorType /\ owSensor'.mode = mode /\ owSensor'.in = << >> /\ owSensor'.out = out
           /\ owSensor'.present /\ owSensor'.asked = owSensor.asked
<1>1. PICK n : n = Now(s, mode, out)
  OBVIOUS
<1>2. n \in SensorType /\ n.mode = mode /\ n.in = << >> /\ n.out = out /\ n.present = s.present /\ n.asked = s.asked
  BY <1>1, NowIs
<1> QED
  BY <1>1, <1>2

LEMMA NamesIt ==
    ASSUME NEW rest \in Seq(OwStep), owSensor \in SensorType, owSensor.present,
           Sends(<< 85 >>, Send(OwRom) \o rest, "rom"), WriteBit
    PROVE  /\ owSensor' \in SensorType /\ owSensor'.present /\ owSensor'.asked = owSensor.asked
           /\ Sends(<< 85 >>, Send(OwRom) \o rest, "rom")' \/ Sends(OwRom, rest, "match")'
<1>1. PICK names \in Seq(OwStep) : names = Send(OwRom) \o rest
  BY BeforeType, RomType
<1>2. Sent(<< 85 >>, names, "rom")
  <2>1. Sends(<< 85 >>, names, "rom")
    BY <1>1
  <2> QED
    BY <2>1, CommandIn, CommandBytes, Zenon
<1>3. ASSUME Sends(<< 85 >>, names, "rom")', owSensor' \in SensorType,
             owSensor'.present = owSensor.present, owSensor'.asked = owSensor.asked
      PROVE  /\ owSensor' \in SensorType /\ owSensor'.present /\ owSensor'.asked = owSensor.asked
             /\ Sends(<< 85 >>, names, "rom")'
  BY <1>3
<1>4. ASSUME NEW s \in SensorType, s.mode = "rom", s.in = BitsOf(<< 85 >>), s.present = owSensor.present,
             s.asked = owSensor.asked, owSensor' = Understood(s), owTodo' = names, owGot' = << >>
      PROVE  /\ owSensor' \in SensorType /\ owSensor'.present /\ owSensor'.asked = owSensor.asked
             /\ Sends(OwRom, rest, "match")'
  <2>1. PICK mode \in Modes, out \in BitSeq : mode = "match" /\ out = s.out
    BY TheModes, SensorParts
  <2>2. owSensor' = Now(s, mode, out)
    BY <1>4, <2>1, UnderstandsRom
  <2>3. /\ owSensor' \in SensorType /\ owSensor'.mode = mode /\ owSensor'.in = << >>
        /\ owSensor'.present /\ owSensor'.asked = owSensor.asked
    BY <1>4, <2>2, NowOf
  <2>4. Sends(OwRom, rest, mode)'
    BY <1>1, <1>4, <2>3, RomType, StartsSending
  <2> QED
    BY <2>1, <2>3, <2>4
<1> QED
  BY <1>1, <1>2, <1>3, <1>4 DEF Sent

LEMMA TellsIt ==
    ASSUME NEW v \in 0 .. 255, NEW rest \in Seq(OwStep), owSensor \in SensorType, owSensor.present,
           Sends(OwRom, Send(<<v>>) \o rest, "match"), WriteBit
    PROVE  /\ owSensor' \in SensorType /\ owSensor'.present /\ owSensor'.asked = owSensor.asked
           /\ Sends(OwRom, Send(<<v>>) \o rest, "match")' \/ Sends(<<v>>, rest, "function")'
<1>1. PICK tells \in Seq(OwStep) : tells = Send(<<v>>) \o rest
  BY BeforeType, OneByte
<1>2. Sent(OwRom, tells, "match")
  <2>1. Whole("match") = 8 * Len(OwRom)
    BY DEF Whole
  <2> QED
    BY <1>1, <2>1, RomType, SentOn
<1>3. ASSUME Sends(OwRom, tells, "match")', owSensor' \in SensorType,
             owSensor'.present = owSensor.present, owSensor'.asked = owSensor.asked
      PROVE  /\ owSensor' \in SensorType /\ owSensor'.present /\ owSensor'.asked = owSensor.asked
             /\ Sends(OwRom, tells, "match")'
  BY <1>3
<1>4. ASSUME NEW s \in SensorType, s.mode = "match", s.in = BitsOf(OwRom), s.present = owSensor.present,
             s.asked = owSensor.asked, owSensor' = Understood(s), owTodo' = tells, owGot' = << >>
      PROVE  /\ owSensor' \in SensorType /\ owSensor'.present /\ owSensor'.asked = owSensor.asked
             /\ Sends(<<v>>, rest, "function")'
  <2>1. PICK mode \in Modes, out \in BitSeq : mode = "function" /\ out = s.out
    BY TheModes, SensorParts
  <2>2. owSensor' = Now(s, mode, out)
    BY <1>4, <2>1, UnderstandsMatch
  <2>3. /\ owSensor' \in SensorType /\ owSensor'.mode = mode /\ owSensor'.in = << >>
        /\ owSensor'.present /\ owSensor'.asked = owSensor.asked
    BY <1>4, <2>2, NowOf
  <2>4. PICK bytes \in Seq(0 .. 255) : bytes = <<v>> /\ bytes # << >>
    BY OneByte
  <2>5. Sends(bytes, rest, mode)'
    BY <1>1, <1>4, <2>3, <2>4, StartsSending
  <2> QED
    BY <2>1, <2>3, <2>4, <2>5
<1> QED
  BY <1>1, <1>2, <1>3, <1>4 DEF Sent

LEMMA ConvertsIt ==
    ASSUME owSensor \in SensorType, owSensor.present, Sends(<< 68 >>, Waits, "function"), WriteBit
    PROVE  /\ owSensor' \in SensorType /\ owSensor'.present /\ owSensor'.asked = owSensor.asked
           /\ \/ Sends(<< 68 >>, Waits, "function")'
              \/ At("wait", Resets2)' /\ owSensor'.mode = "converting" /\ owSensor'.out = << >> /\ owGot' = << >>
<1>1. Waits \in Seq(OwStep) /\ Resets2 \in Seq(OwStep)
  BY Programs2
<1>2. Sent(<< 68 >>, Waits, "function")
  BY <1>1, CommandIn, CommandBytes, Zenon
<1>3. ASSUME NEW s \in SensorType, s.mode = "function", s.in = BitsOf(<< 68 >>), s.present = owSensor.present,
             s.asked = owSensor.asked, owSensor' = Understood(s), owTodo' = Waits, owGot' = << >>
      PROVE  /\ owSensor' \in SensorType /\ owSensor'.present /\ owSensor'.asked = owSensor.asked
             /\ At("wait", Resets2)' /\ owSensor'.mode = "converting" /\ owSensor'.out = << >>
  <2>1. PICK mode \in Modes, out \in BitSeq : mode = "converting" /\ out = << >>
    BY TheModes, NoBits
  <2>2. owSensor' = Now(s, mode, out)
    BY <1>3, <2>1, UnderstandsFunction
  <2>3. /\ owSensor' \in SensorType /\ owSensor'.mode = mode /\ owSensor'.out = out
        /\ owSensor'.present /\ owSensor'.asked = owSensor.asked
    BY <1>3, <2>2, NowOf
  <2>4. At("wait", Resets2)'
    BY <1>1, <1>3, OpType, GoesOn DEF Waits
  <2> QED
    BY <2>1, <2>3, <2>4
<1>4. ASSUME Sends(<< 68 >>, Waits, "function")', owSensor' \in SensorType,
             owSensor'.present = owSensor.present, owSensor'.asked = owSensor.asked
      PROVE  /\ owSensor' \in SensorType /\ owSensor'.present /\ owSensor'.asked = owSensor.asked
             /\ Sends(<< 68 >>, Waits, "function")'
  BY <1>4
<1> QED
  BY <1>2, <1>3, <1>4 DEF Sent

LEMMA AsksIt ==
    ASSUME owSensor \in SensorType, owSensor.present, Sends(<< 190 >>, GetsPad, "function"), WriteBit
    PROVE  /\ owSensor' \in SensorType /\ owSensor'.present /\ owSensor'.asked = owSensor.asked
           /\ \/ Sends(<< 190 >>, GetsPad, "function")'
              \/ /\ owSensor'.mode = "idle"
                 /\ \E pad \in Seq(0 .. 255) : pad = Scratchpad(owSensor') /\ Receives(pad, ReportsIt)'
<1>1. GetsPad \in Seq(OwStep) /\ ReportsIt \in Seq(OwStep)
  BY Programs2
<1>2. Sent(<< 190 >>, GetsPad, "function")
  BY <1>1, CommandIn, CommandBytes, Zenon
<1>3. ASSUME NEW s \in SensorType, s.mode = "function", s.in = BitsOf(<< 190 >>), s.present = owSensor.present,
             s.asked = owSensor.asked, owSensor' = Understood(s), owTodo' = GetsPad, owGot' = << >>
      PROVE  /\ owSensor' \in SensorType /\ owSensor'.present /\ owSensor'.asked = owSensor.asked
             /\ owSensor'.mode = "idle"
             /\ \E pad \in Seq(0 .. 255) : pad = Scratchpad(owSensor') /\ Receives(pad, ReportsIt)'
  <2>0. PICK pad \in Seq(0 .. 255) : pad = Scratchpad(s) /\ Len(pad) = 9 /\ pad # << >>
    BY PadIs
  <2>1. PICK mode \in Modes, out \in BitSeq : mode = "idle" /\ out = BitsOf(pad)
    BY TheModes, BitsAre DEF BitSeq
  <2>2. owSensor' = Now(s, mode, out)
    BY <1>3, <2>0, <2>1, UnderstandsFunction
  <2>3. /\ owSensor' \in SensorType /\ owSensor'.mode = mode /\ owSensor'.out = out
        /\ owSensor'.present /\ owSensor'.asked = owSensor.asked
    BY <1>3, <2>2, NowOf
  <2>4. Scratchpad(owSensor') = pad
    <3>1. owSensor'.measured = s.measured /\ owSensor'.limits = s.limits
      BY <2>2, NowIs
    <3> QED
      BY <2>0, <3>1, PadIs
  <2>5. owTodo' = <<Receive(Len(pad))>> \o ReportsIt
    BY <1>3, <2>0 DEF GetsPad
  <2>6. Receives(pad, ReportsIt)'
    BY <1>1, <1>3, <2>0, <2>1, <2>3, <2>5, StartsReceiving
  <2> QED
    BY <2>1, <2>3, <2>4, <2>6
<1>4. ASSUME Sends(<< 190 >>, GetsPad, "function")', owSensor' \in SensorType,
             owSensor'.present = owSensor.present, owSensor'.asked = owSensor.asked
      PROVE  /\ owSensor' \in SensorType /\ owSensor'.present /\ owSensor'.asked = owSensor.asked
             /\ Sends(<< 190 >>, GetsPad, "function")'
  BY <1>4
<1> QED
  BY <1>2, <1>3, <1>4 DEF Sent

LEMMA ReadsBySending ==
    ASSUME NEW p \in 0 .. 3, OwAt(p), owSensor.present, WriteBit, romCode = OwRom,
           \/ Sends(<< 85 >>, Names1, "rom") \/ Sends(OwRom, Converts, "match") \/ Sends(<< 68 >>, Waits, "function")
           \/ Sends(<< 85 >>, Names2, "rom") \/ Sends(OwRom, AsksPad, "match") \/ Sends(<< 190 >>, GetsPad, "function")
    PROVE  OwAt(p)'
<1>1. owSensor \in SensorType /\ owSensor.asked = p /\ romCode' = OwRom
  BY DEF OwAt, WriteBit
<1>2. Converts \in Seq(OwStep) /\ AsksPad \in Seq(OwStep) /\ Waits \in Seq(OwStep) /\ GetsPad \in Seq(OwStep)
  BY Programs2
<1>3. CASE Sends(<< 85 >>, Names1, "rom")
  <2>1. /\ owSensor' \in SensorType /\ owSensor'.present /\ owSensor'.asked = owSensor.asked
        /\ Sends(<< 85 >>, Names1, "rom")' \/ Sends(OwRom, Converts, "match")'
    BY <1>1, <1>2, <1>3, NamesIt, Zenon DEF Names1
  <2> QED
    BY <1>1, <2>1 DEF OwAt, Stage, Sending
<1>4. CASE Sends(OwRom, Converts, "match")
  <2>1. /\ owSensor' \in SensorType /\ owSensor'.present /\ owSensor'.asked = owSensor.asked
        /\ Sends(OwRom, Converts, "match")' \/ Sends(<< 68 >>, Waits, "function")'
    BY <1>1, <1>2, <1>4, TellsIt, CommandBytes, Zenon DEF Converts
  <2> QED
    BY <1>1, <2>1, SMTT(40) DEF OwAt, Stage, Sending
<1>5. CASE Sends(<< 68 >>, Waits, "function")
  <2>1. /\ owSensor' \in SensorType /\ owSensor'.present /\ owSensor'.asked = owSensor.asked
        /\ \/ Sends(<< 68 >>, Waits, "function")'
           \/ At("wait", Resets2)' /\ owSensor'.mode = "converting" /\ owSensor'.out = << >> /\ owGot' = << >>
    BY <1>1, <1>5, ConvertsIt
  <2> QED
    BY <1>1, <2>1 DEF OwAt, Stage, Sending, InHand
<1>6. CASE Sends(<< 85 >>, Names2, "rom")
  <2>1. /\ owSensor' \in SensorType /\ owSensor'.present /\ owSensor'.asked = owSensor.asked
        /\ Sends(<< 85 >>, Names2, "rom")' \/ Sends(OwRom, AsksPad, "match")'
    BY <1>1, <1>2, <1>6, NamesIt, Zenon DEF Names2
  <2> QED
    BY <1>1, <2>1 DEF OwAt, Stage, Sending
<1>7. CASE Sends(OwRom, AsksPad, "match")
  <2>1. /\ owSensor' \in SensorType /\ owSensor'.present /\ owSensor'.asked = owSensor.asked
        /\ Sends(OwRom, AsksPad, "match")' \/ Sends(<< 190 >>, GetsPad, "function")'
    BY <1>1, <1>2, <1>7, TellsIt, CommandBytes, Zenon DEF AsksPad
  <2> QED
    BY <1>1, <2>1 DEF OwAt, Stage, Sending
<1>8. CASE Sends(<< 190 >>, GetsPad, "function")
  <2>1. /\ owSensor' \in SensorType /\ owSensor'.present /\ owSensor'.asked = owSensor.asked
        /\ \/ Sends(<< 190 >>, GetsPad, "function")'
           \/ /\ owSensor'.mode = "idle"
              /\ \E pad \in Seq(0 .. 255) : pad = Scratchpad(owSensor') /\ Receives(pad, ReportsIt)'
    BY <1>1, <1>8, AsksIt
  <2> QED
    BY <1>1, <2>1 DEF OwAt, Stage, Sending, Receiving, NotBusy
<1> QED
  BY <1>3, <1>4, <1>5, <1>6, <1>7, <1>8

LEMMA WriteBitKeeps == ASSUME NEW p \in 0 .. 3, OwAt(p), WriteBit PROVE OwAt(p)'
<1>1. owSensor.present /\ Sending(p)
  BY Which DEF WriteBit
<1> QED
  BY <1>1, InitialisesBySending, ReadsBySending DEF Sending

LEMMA ReadBitKeeps == ASSUME NEW p \in 0 .. 3, OwAt(p), ReadBit PROVE OwAt(p)'
<1>1. /\ owSensor.present /\ Receiving(p) /\ owSensor \in SensorType /\ owSensor.asked = p
      /\ romCode' = romCode
  BY Which DEF ReadBit, OwAt
<1>2. Keeps(p) \in Seq(OwStep) /\ AsksLimits(p) \in Seq(OwStep) /\ ReportsIt \in Seq(OwStep)
  BY Programs1, Programs2
<1>3. ASSUME NEW out \in BitSeq, owSensor' = [owSensor EXCEPT !.out = out]
      PROVE  /\ owSensor' \in SensorType /\ owSensor'.in = owSensor.in /\ owSensor'.mode = owSensor.mode
             /\ owSensor'.present = owSensor.present /\ owSensor'.asked = owSensor.asked
             /\ owSensor'.measured = owSensor.measured /\ owSensor'.limits = owSensor.limits
  BY <1>1, <1>3, SensorWithOut
<1>4. CASE Receives(OwRom, Keeps(p)) /\ owSensor.mode = "function" /\ owSensor.in = << >>
  <2>1. /\ \E out \in BitSeq : owSensor' = [owSensor EXCEPT !.out = out]
        /\ Receives(OwRom, Keeps(p))' \/ (owTodo' = Keeps(p) /\ owGot' = BitsOf(OwRom))
    BY <1>1, <1>2, <1>4, RomType, ReceivesOn
  <2>2. owTodo' = Keeps(p) => At("keep", AsksLimits(p))'
    BY <1>2, OpType, GoesOn DEF Keeps
  <2> QED
    BY <1>1, <1>3, <1>4, <2>1, <2>2 DEF OwAt, Stage, Receiving, InHand
<1>5. ASSUME romCode = OwRom, NotBusy, NEW pad \in Seq(0 .. 255), pad = Scratchpad(owSensor), Receives(pad, ReportsIt)
      PROVE  OwAt(p)'
  <2>1. /\ \E out \in BitSeq : owSensor' = [owSensor EXCEPT !.out = out]
        /\ Receives(pad, ReportsIt)' \/ (owTodo' = ReportsIt /\ owGot' = BitsOf(pad))
    BY <1>1, <1>2, <1>5, ReceivesOn DEF NotBusy
  <2>2. /\ owSensor' \in SensorType /\ owSensor'.mode = owSensor.mode
        /\ owSensor'.present = owSensor.present /\ owSensor'.asked = owSensor.asked
        /\ owSensor'.measured = owSensor.measured /\ owSensor'.limits = owSensor.limits
    BY <1>3, <2>1
  <2>3. Scratchpad(owSensor') = pad
    BY <1>1, <1>5, <2>2, PadIs
  <2>4. owTodo' = ReportsIt => At("temperature", << >>)'
    BY ToldIs
  <2> QED
    BY <1>1, <1>5, <2>1, <2>2, <2>3, <2>4 DEF OwAt, Stage, Receiving, InHand, NotBusy
<1> QED
  BY <1>1, <1>4, <1>5 DEF Receiving

LEMMA ResetLine ==
    ASSUME NEW pause \in Pause, NEW pulse \in Pulse
    PROVE  /\ owSensor.present => onewireReset(pause, pulse).low /\ onewireReset(pause, pulse).free
           /\ ~owSensor.present => ~onewireReset(pause, pulse).low
<1>1. 70 >= pause /\ 70 < pause + pulse /\ pause + pulse <= 70 + 410
  BY DEF Pause, Pulse
<1> QED
  BY <1>1 DEF onewireReset

LEMMA ResetKeeps == ASSUME NEW p \in 0 .. 3, OwAt(p), Reset PROVE OwAt(p)'
<1>1. owSensor \in SensorType /\ owSensor.asked = p /\ owGot' = owGot /\ romCode' = romCode
  BY DEF OwAt, Reset
<1>2. CASE ~owSensor.present
  <2>1. Doing("check") /\ NotBusy
    BY <1>2, Which DEF Reset
  <2>2. /\ owTodo' = << >> /\ owResult' = [call |-> "initialise", value |-> NoOneWireSlave]
        /\ owSensor' = owSensor
    BY <1>2, <2>1, ResetLine DEF Reset
  <2> QED
    BY <1>1, <1>2, <2>1, <2>2 DEF OwAt, Absent, NotBusy
<1>3. CASE owSensor.present
  <2>1. /\ owTodo' = OwRest
        /\ owSensor' = [owSensor EXCEPT !.mode = "rom", !.in = << >>, !.out = << >>]
    BY <1>3, ResetLine DEF Reset
  <2>m. PICK mode \in Modes, out \in BitSeq : mode = "rom" /\ out = << >>
    BY NoBits, TheModes, Zenon
  <2>2. PICK s \in SensorType : s = Now(owSensor, "rom", << >>)
    BY <1>1, NoBits, TheModes, NowIs, Zenon
  <2>3. owSensor' = s
    BY <2>1, <2>2 DEF Now
  <2>s. s = Now(owSensor, mode, out)
    BY ONLY <2>2, <2>m, Zenon
  <2>n. s.mode = mode /\ s.in = << >> /\ s.present = owSensor.present /\ s.asked = owSensor.asked
    BY <1>1, <2>s, NowIs
  <2>4. s.mode = "rom" /\ s.in = << >> /\ s.present = owSensor.present /\ s.asked = owSensor.asked
    BY ONLY <2>m, <2>n, Zenon
  <2>5. CASE Doing("check")
    <3>1. At("check", BeginsCommand(p))
      BY <2>5, Which
    <3>2. owTodo' = BeginsCommand(p)
      BY <2>1, <3>1 DEF At, OwRest
    <3>3. At("command", AsksRom(p))'
      BY <3>2, OpType, Programs1, GoesOn DEF BeginsCommand
    <3> QED
      BY <1>1, <1>3, <2>3, <2>4, <3>3 DEF OwAt, Stage, InHand
  <2>6. CASE Doing("reset")
    <3>1. romCode = OwRom /\ owGot = << >> /\ (At("reset", Matches1) \/ At("reset", Matches2))
      BY <2>6, Which
    <3>2. owTodo' = Matches1 \/ owTodo' = Matches2
      BY <2>1, <3>1 DEF At, OwRest
    <3>3. Names1 \in Seq(OwStep) /\ Names2 \in Seq(OwStep)
      BY Programs2
    <3>4. owSensor'.mode = "rom" /\ owSensor'.in = << >> /\ owGot' = << >>
      BY <1>1, <2>3, <2>4, <3>1
    <3>v. PICK v \in 0 .. 255 : v = 85
      OBVIOUS
    <3>5. PICK bytes \in Seq(0 .. 255) : bytes = << 85 >> /\ bytes # << >>
      BY <3>v, OneByte
    <3>6. Sends(<< 85 >>, Names1, "rom")' \/ Sends(<< 85 >>, Names2, "rom")'
      BY <3>2, <3>3, <3>4, <3>5, StartsSending DEF Matches1, Matches2
    <3> QED
      BY <1>1, <1>3, <2>3, <2>4, <3>1, <3>6 DEF OwAt, Stage, Sending
  <2> QED
    BY <2>5, <2>6 DEF Reset
<1> QED
  BY <1>2, <1>3

LEMMA BeginKeeps == ASSUME NEW p \in 0 .. 3, OwAt(p), Begin PROVE OwAt(p)'
<1>1. /\ owSensor \in SensorType /\ owSensor.asked = p /\ owSensor' = owSensor /\ owGot' = << >>
      /\ owSensor.present /\ At("command", AsksRom(p)) /\ owSensor.mode = "rom" /\ owSensor.in = << >>
  BY Which DEF OwAt, Begin
<1>2. owTodo' = AsksRom(p)
  BY <1>1 DEF At, Begin, OwRest
<1>3. GetsRom(p) \in Seq(OwStep)
  BY Programs1
<1>4. PICK v \in 0 .. 255 : v = 51
  OBVIOUS
<1>5. PICK bytes \in Seq(0 .. 255) : bytes = << 51 >> /\ bytes # << >>
  BY <1>4, OneByte
<1>6. Sends(<< 51 >>, GetsRom(p), "rom")'
  BY <1>1, <1>2, <1>3, <1>5, StartsSending DEF AsksRom
<1> QED
  BY <1>1, <1>6 DEF OwAt, Stage, Sending

LEMMA WaitKeeps == ASSUME NEW p \in 0 .. 3, OwAt(p), WaitForCompletion PROVE OwAt(p)'
<1>1. /\ owSensor \in SensorType /\ owSensor.asked = p /\ owSensor.present /\ romCode = OwRom /\ owGot = << >>
      /\ At("wait", Resets2)
      /\ owSensor.mode \in {"converting", "idle"} /\ owSensor.out = << >>
  BY Which DEF OwAt, WaitForCompletion
<1>2. owSensor' = owSensor /\ romCode' = romCode /\ owGot' = owGot
  BY DEF WaitForCompletion
<1>3. CASE owSensor.mode = "converting"
  <2>1. Seen(owSensor, 15) = 0
    BY <1>1, <1>3 DEF Seen, Answer
  <2>2. owTodo' = owTodo
    BY <2>1 DEF WaitForCompletion
  <2>3. At("wait", Resets2)'
    BY <1>1, <2>2 DEF At
  <2> QED
    BY <1>1, <1>2, <1>3, <2>3 DEF OwAt, Stage, InHand
<1>4. CASE owSensor.mode = "idle"
  <2>1. Seen(owSensor, 15) = 1
    BY <1>1, <1>4 DEF Seen, Answer
  <2>2. owTodo' = Resets2
    BY <1>1, <2>1 DEF WaitForCompletion, At, OwRest
  <2>3. At("reset", Matches2)'
    BY <2>2, OpType, Programs2, GoesOn DEF Resets2
  <2> QED
    BY <1>1, <1>2, <1>4, <2>3 DEF OwAt, Stage, InHand, NotBusy
<1> QED
  BY <1>1, <1>3, <1>4

\* The bytes the bits make are the bytes that were sent.
LEMMA ReceivedIs == ASSUME NEW bytes \in Seq(0 .. 255), owGot = BitsOf(bytes) PROVE Received = bytes
<1>1. Len(owGot) = 8 * Len(bytes)
  BY BitsAre
<1>2. PICK n \in Nat : n = Len(bytes) /\ (8 * n) \div 8 = n
  OBVIOUS
<1>3. Len(owGot) \div 8 = n
  BY <1>1, <1>2
<1>4. \A i \in 1 .. n : OwValue(SubSeq(owGot, 8 * i - 7, 8 * i)) = bytes[i]
  BY <1>2, ByteOf
<1>5. Received = [i \in 1 .. n |-> OwValue(SubSeq(owGot, 8 * i - 7, 8 * i))]
  BY <1>3 DEF Received
<1>6. Received = [i \in 1 .. n |-> bytes[i]]
  BY <1>4, <1>5
<1>7. [i \in 1 .. n |-> bytes[i]] = bytes
  BY <1>2
<1> QED
  BY <1>6, <1>7

LEMMA KeepKeeps == ASSUME NEW p \in 0 .. 3, OwAt(p), Keep PROVE OwAt(p)'
<1>1. /\ owSensor \in SensorType /\ owSensor.asked = p /\ owSensor' = owSensor /\ owGot' = << >>
      /\ owSensor.present /\ At("keep", AsksLimits(p)) /\ owGot = BitsOf(OwRom)
      /\ owSensor.mode = "function" /\ owSensor.in = << >>
  BY Which DEF OwAt, Keep
<1>2. owTodo' = AsksLimits(p)
  BY <1>1 DEF At, Keep, OwRest
<1>3. romCode' = OwRom
  BY <1>1, RomType, ReceivedIs DEF Keep
<1>4. Configures(p) \in Seq(OwStep)
  BY Programs1
<1>5. PICK v \in 0 .. 255 : v = 78
  OBVIOUS
<1>6. PICK bytes \in Seq(0 .. 255) : bytes = << 78 >> /\ bytes # << >>
  BY <1>5, OneByte
<1>7. Sends(<< 78 >>, Configures(p), "function")'
  BY <1>1, <1>2, <1>4, <1>6, StartsSending DEF AsksLimits
<1> QED
  BY <1>1, <1>3, <1>7 DEF OwAt, Stage, Sending

LEMMA BothBytes == ASSUME NEW n \in Word PROVE HighByte(n) * 256 + LowByte(n) = n
<1>1. n \in Nat /\ n <= 65535
  BY WordIs
<1>2. PICK m \in Nat : m = n /\ m <= 65535
  BY <1>1
<1>3. ((m \div 256) % 256) * 256 + (m % 256) = m
  BY <1>2
<1> QED
  BY <1>2, <1>3 DEF HighByte, LowByte

LEMMA ReturnKeeps == ASSUME NEW p \in 0 .. 3, OwAt(p), Return PROVE OwAt(p)'
<1>1. /\ owSensor \in SensorType /\ owSensor.asked = p /\ owSensor' = owSensor /\ romCode' = romCode
      /\ owGot' = << >> /\ owTodo' = << >>
  BY DEF OwAt, Return
<1>2. CASE Doing("initialised")
  <2>1. owSensor.present /\ romCode = OwRom /\ owSensor.limits = Precision(p) /\ NotBusy
    BY <1>2, Which
  <2>2. owResult' = [call |-> "initialise", value |-> InitOK]
    BY <1>2 DEF Return
  <2> QED
    BY <1>1, <2>1, <2>2 DEF OwAt, Stage, Returned, NotBusy
<1>3. CASE Doing("temperature")
  <2>1. owSensor.present /\ romCode = OwRom /\ owGot = BitsOf(Scratchpad(owSensor)) /\ NotBusy
    BY <1>3, Which
  <2>2. PICK pad \in Seq(0 .. 255) : pad = Scratchpad(owSensor)
    BY <1>1, PadIs
  <2>3. pad[1] = LowByte(owSensor.measured) /\ pad[2] = HighByte(owSensor.measured)
    BY <1>1, <2>2, PadIs
  <2>4. Received = pad
    BY <2>1, <2>2, ReceivedIs
  <2>5. ~Doing("initialised")
    BY <1>3 DEF Doing
  <2>6. owResult' = [call |-> "read", value |-> Received[2] * 256 + Received[1]]
    BY <2>5 DEF Return
  <2>7. Received[2] * 256 + Received[1] = owSensor.measured
    <3>1. PICK n \in Word : n = owSensor.measured
      BY <1>1, SensorParts
    <3> QED
      BY <2>3, <2>4, <3>1, BothBytes
  <2> QED
    BY <1>1, <2>1, <2>6, <2>7 DEF OwAt, Stage, Returned, NotBusy
<1> QED
  BY <1>2, <1>3 DEF Return

LEMMA ReadKeeps == ASSUME NEW p \in 0 .. 3, OwAt(p), ds18b20ReadTemperature PROVE OwAt(p)'
<1>1. /\ owSensor \in SensorType /\ owSensor.asked = p /\ owSensor' = owSensor /\ romCode' = romCode /\ owGot' = << >>
  BY DEF OwAt, ds18b20ReadTemperature
<1>2. owSensor.present /\ romCode = OwRom /\ NotBusy
  <2>1. Absent(p) \/ (owSensor.present /\ Returned(p))
    BY Which DEF ds18b20ReadTemperature
  <2>2. ~Absent(p)
    <3>1. owTodo = << >> /\ owResult # [call |-> "initialise", value |-> NoOneWireSlave]
      BY DEF ds18b20ReadTemperature
    <3>2. ~At("check", BeginsCommand(p))
      BY <3>1, Heads
    <3> QED
      BY <3>1, <3>2 DEF Absent
  <2> QED
    BY <2>1, <2>2 DEF Returned
<1>3. owTodo' = ReadsIt
  BY <1>2, ReadsItIs DEF ds18b20ReadTemperature
<1>4. At("reset", Matches1)'
  BY <1>3, OpType, Programs2, GoesOn DEF ReadsIt
<1> QED
  BY <1>1, <1>2, <1>4 DEF OwAt, Stage, InHand, NotBusy

\* A conversion ends only while the driver waits for it.
LEMMA ConvertedKeeps == ASSUME NEW p \in 0 .. 3, OwAt(p), Converted PROVE OwAt(p)'
<1>1. /\ owSensor \in SensorType /\ owSensor.asked = p /\ owSensor.mode = "converting"
      /\ owTodo' = owTodo /\ owGot' = owGot /\ romCode' = romCode /\ owResult' = owResult
  BY DEF OwAt, Converted
<1>2. /\ owSensor.present /\ romCode = OwRom /\ owGot = << >> /\ At("wait", Resets2) /\ owSensor.out = << >>
  <2>1. ~Absent(p) /\ ~Receiving(p) /\ ~Returned(p)
    BY <1>1 DEF Absent, NotBusy, Receiving, Returned
  <2>2. ~Sending(p)
    BY <1>1 DEF Sending, Sends
  <2>3. owSensor.present /\ InHand(p)
    BY <2>1, <2>2 DEF OwAt, Stage
  <2> QED
    BY <1>1, <2>3 DEF InHand, NotBusy
<1>3. PICK t \in OwTemperatures : owSensor' = [owSensor EXCEPT !.measured = t, !.mode = "idle"]
  BY DEF Converted
<1>4. t \in Word
  <2>1. t \in Nat /\ t < 65536
    BY OwTemperaturesAssumption
  <2> QED
    BY <2>1, WordIs
<1>5. /\ owSensor' \in SensorType /\ owSensor'.asked = p /\ owSensor'.present
      /\ owSensor'.mode = "idle" /\ owSensor'.out = owSensor.out
  <2>1. "idle" \in Modes
    BY TheModes
  <2> QED
    BY <1>1, <1>2, <1>3, <1>4, <2>1 DEF SensorType
<1>6. At("wait", Resets2)'
  BY <1>1, <1>2 DEF At
<1> QED
  BY <1>1, <1>2, <1>5, <1>6 DEF OwAt, Stage, InHand

LEMMA OwStutterKeeps == ASSUME NEW p \in 0 .. 3, OwAt(p), UNCHANGED owVars PROVE OwAt(p)'
<1>1. owTodo' = owTodo /\ owGot' = owGot /\ romCode' = romCode /\ owResult' = owResult /\ owSensor' = owSensor
  BY DEF owVars
<1>2. ASSUME NEW name, NEW rest PROVE At(name, rest) => At(name, rest)'
  BY <1>1 DEF At
<1>3. ASSUME NEW bytes, NEW rest, NEW mode PROVE Sends(bytes, rest, mode) => Sends(bytes, rest, mode)'
  BY <1>1 DEF Sends
<1>4. ASSUME NEW bytes, NEW rest PROVE Receives(bytes, rest) => Receives(bytes, rest)'
  BY <1>1 DEF Receives
<1>5. Absent(p) => Absent(p)'
  BY <1>1, <1>2 DEF Absent, NotBusy
<1>6. Sending(p) => Sending(p)'
  BY <1>1, <1>3 DEF Sending
<1>7. Receiving(p) => Receiving(p)'
  BY <1>1, <1>4 DEF Receiving, NotBusy
<1>8. InHand(p) => InHand(p)'
  BY <1>1, <1>2 DEF InHand, NotBusy
<1>9. Returned(p) => Returned(p)'
  BY <1>1 DEF Returned, NotBusy
<1> QED
  BY <1>1, <1>5, <1>6, <1>7, <1>8, <1>9 DEF OwAt, Stage

LEMMA OwInvInit == OwInit => OwInv
<1> SUFFICES ASSUME OwInit PROVE OwInv
  OBVIOUS
<1>1. PICK present \in BOOLEAN, p \in 0 .. 3 :
         /\ owSensor = [mode |-> "idle", in |-> << >>, out |-> << >>, present |-> present,
                        measured |-> 1360, limits |-> <<75, 70, 127>>, asked |-> p]
         /\ owTodo = ds18b20InitialiseSteps(p) /\ owGot = << >>
  BY DEF OwInit
<1>2. owSensor \in SensorType /\ owSensor.mode = "idle" /\ owSensor.asked = p
  <2>1. <<75, 70, 127>> \in ThreeBytes
    <3>1. PICK a \in 0 .. 255, b \in 0 .. 255 : a = 75 /\ b = 70
      OBVIOUS
    <3>2. PICK c \in 0 .. 255 : c = 127
      OBVIOUS
    <3>3. <<a, b, c>> \in Seq(0 .. 255) /\ Len(<<a, b, c>>) = 3
      OBVIOUS
    <3> QED
      BY <3>1, <3>2, <3>3 DEF ThreeBytes
  <2>2. 1360 \in Word
    BY WordIs
  <2>3. PICK m \in Word, l \in ThreeBytes : m = 1360 /\ l = <<75, 70, 127>>
    BY <2>1, <2>2
  <2>4. PICK mode \in Modes, bits \in BitSeq : mode = "idle" /\ bits = << >>
    BY TheModes, NoBits
  <2>5. owSensor = [mode |-> mode, in |-> bits, out |-> bits, present |-> present,
                    measured |-> m, limits |-> l, asked |-> p]
    BY <1>1, <2>3, <2>4
  <2> QED
    BY <2>4, <2>5 DEF SensorType
<1>3. At("check", BeginsCommand(p))
  <2>1. owTodo = <<Op("check")>> \o BeginsCommand(p)
    BY <1>1, InitialisesIs DEF Initialises
  <2>2. BeginsCommand(p) \in Seq(OwStep) /\ Op("check") \in OwStep
    BY OpType, Programs1
  <2> QED
    BY <2>1, <2>2, PutFirst DEF At
<1>4. OwAt(p)
  BY <1>2, <1>3 DEF OwAt, Absent, Stage, InHand, NotBusy
<1> QED
  BY <1>4 DEF OwInv

LEMMA OwInvNext == OwInv /\ [OwNext]_owVars => OwInv'
<1> SUFFICES ASSUME OwInv, [OwNext]_owVars PROVE OwInv'
  OBVIOUS
<1>1. PICK p \in 0 .. 3 : OwAt(p)
  BY DEF OwInv
<1>2. OwAt(p)'
  BY <1>1, ResetKeeps, BeginKeeps, WriteBitKeeps, ReadBitKeeps, WaitKeeps, KeepKeeps, ReturnKeeps, ReadKeeps,
     ConvertedKeeps, OwStutterKeeps DEF OwNext
<1> QED
  BY <1>2 DEF OwInv

LEMMA OwInvTells == OwInv => SensorIsTold
<1> SUFFICES ASSUME OwInv, owTodo = << >> PROVE
       /\ owResult.call = "initialise" => owSensor.present = (owResult.value = InitOK)
       /\ owResult = [call |-> "initialise", value |-> InitOK]
          => romCode = OwRom /\ owSensor.limits = <<0, 0, 31 + 32 * owSensor.asked>>
       /\ owResult.call = "read" => owResult.value = owSensor.measured
  BY DEF SensorIsTold
<1>1. PICK p \in 0 .. 3 : OwAt(p)
  BY DEF OwInv
<1>2. owSensor.asked = p /\ owSensor.present \in BOOLEAN
  BY <1>1 DEF OwAt, SensorType
<1>3. CASE Absent(p)
  <2>1. ~owSensor.present /\ owResult = [call |-> "initialise", value |-> NoOneWireSlave]
    <3>1. ~At("check", BeginsCommand(p))
      BY Heads
    <3> QED
      BY <1>3, <3>1 DEF Absent
  <2> QED
    BY <1>2, <2>1 DEF InitOK, NoOneWireSlave
<1>4. CASE owSensor.present /\ Returned(p)
  <2>1. owSensor.limits = Precision(p) => owSensor.limits = <<0, 0, 31 + 32 * owSensor.asked>>
    BY <1>2 DEF Precision
  <2>2. owSensor.present = TRUE
    BY <1>2, <1>4
  <2>3. CASE owResult = [call |-> "initialise", value |-> InitOK] /\ owSensor.limits = Precision(p)
    <3>1. owResult.call = "initialise" /\ owResult.value = InitOK /\ romCode = OwRom
      BY <1>4, <2>3 DEF Returned
    <3> QED
      BY <2>1, <2>2, <2>3, <3>1
  <2>4. CASE owResult = [call |-> "read", value |-> owSensor.measured]
    BY <2>4
  <2> QED
    BY <1>4, <2>3, <2>4 DEF Returned
<1> QED
  BY <1>1, <1>3, <1>4, Which

\* What a call returns is true of the sensor: it is there or not, it has the
\* precision that was asked for, and the temperature is the one it measured for
\* this reading (onewire.c 58-119, DS18B20.c 60-109).
THEOREM SensorKept == OwSpec => []SensorIsTold
<1>1. OwInit => OwInv
  BY OwInvInit
<1>2. OwInv /\ [OwNext]_owVars => OwInv'
  BY OwInvNext
<1>3. OwInv => SensorIsTold
  BY OwInvTells
<1> QED
  BY <1>1, <1>2, <1>3, PTL DEF OwSpec
=============================================================================
