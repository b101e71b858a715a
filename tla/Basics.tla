------------------------------- MODULE Basics -------------------------------
(***************************************************************************)
(* What the proofs about several components need of numbers and sequences: *)
(* induction and definition by recursion up to a number, for sets and      *)
(* functions in place of predicates and operators, on which the proofs     *)
(* about loops rest; and sequences that grow or shrink at one end, and how *)
(* often something occurs in one.                                          *)
(***************************************************************************)
EXTENDS Integers, SequencesExt, SequenceTheorems, FiniteSetTheorems, WellFoundedInduction, TLAPS

\* A set with zero in it, and with every successor of a member, has them all.
LEMMA InductiveSet ==
    ASSUME NEW S, 0 \in S, \A n \in Nat : n \in S => n + 1 \in S
    PROVE  Nat \subseteq S
<1> DEFINE Missing == Nat \ S
           Below   == OpToRel(<, Nat)
<1> SUFFICES ASSUME Missing # {} PROVE FALSE
  OBVIOUS
<1>1. PICK x \in Missing : \A y \in Missing : <<y, x>> \notin Below
  <2>1. IsWellFoundedOn(Below, Nat)
    BY NatLessThanWellFounded
  <2>2. Missing \subseteq Nat
    OBVIOUS
  <2> HIDE DEF Below, Missing
  <2> QED
    BY <2>1, <2>2, WFMin
<1>2. x \in Nat /\ x - 1 \in Nat
  <2> HIDE DEF Below
  <2> QED
    OBVIOUS
<1>3. <<x - 1, x>> \in Below
  BY <1>2 DEF OpToRel
<1>4. x - 1 \in S /\ x \notin S
  <2> HIDE DEF Below
  <2> QED
    BY <1>1, <1>2, <1>3
<1> HIDE DEF Below, Missing
<1> QED
  BY <1>2, <1>4

\* The same up to a bound: what holds at first, and after a step if before it,
\* holds all the way.
LEMMA UpTo ==
    ASSUME NEW N \in Nat, NEW S, 0 \in S, \A n \in 0 .. N - 1 : n \in S => n + 1 \in S
    PROVE  0 .. N \subseteq S
<1> DEFINE Good == {n \in Nat : n <= N => n \in S}
<1>1. 0 \in Good
  OBVIOUS
<1>2. ASSUME NEW n \in Nat, n \in Good PROVE n + 1 \in Good
  BY <1>2
<1>3. Nat \subseteq Good
  <2> HIDE DEF Good
  <2> QED
    BY <1>1, <1>2, InductiveSet
<1> QED
  BY <1>3

\* A set of natural numbers that is not empty has a least member.
LEMMA LeastOf ==
    ASSUME NEW S, S \subseteq Nat, S # {}
    PROVE  \E x \in S : \A y \in S : x <= y
<1> DEFINE Below == OpToRel(<, Nat)
<1>1. PICK x \in S : \A y \in S : <<y, x>> \notin Below
  <2>1. IsWellFoundedOn(Below, Nat)
    BY NatLessThanWellFounded
  <2> HIDE DEF Below
  <2> QED
    BY <2>1, WFMin
<1> QED
  <2> SUFFICES ASSUME NEW y \in S PROVE x <= y
    BY <1>1
  <2>1. <<y, x>> \notin Below /\ x \in Nat /\ y \in Nat
    BY <1>1
  <2>2. ~(y < x)
    BY <2>1 DEF OpToRel
  <2> HIDE DEF Below
  <2> QED
    BY <2>1, <2>2

\* f goes from base through N steps: Step[k, s] is where step k leads from s.
Goes(f, N, S, base, Step) ==
    /\ f \in [0 .. N -> S]
    /\ f[0] = base
    /\ \A k \in 1 .. N : f[k] = Step[<<k, f[k - 1]>>]

\* Whatever the steps, there is such a function.
LEMMA RecursionDefines ==
    ASSUME NEW N \in Nat, NEW S, NEW base \in S, NEW Step \in [(1 .. N) \X S -> S]
    PROVE  \E f : Goes(f, N, S, base, Step)
<1> USE DEF Goes
<1> DEFINE Defined == {n \in 0 .. N : \E f : Goes(f, n, S, base, Step)}
<1>1. 0 \in Defined
  <2> DEFINE f == [k \in 0 .. 0 |-> base]
  <2>1. f \in [0 .. 0 -> S] /\ f[0] = base /\ 1 .. 0 = {} /\ 0 \in 0 .. N
    OBVIOUS
  <2> HIDE DEF f
  <2> QED
    BY <2>1
<1>2. ASSUME NEW n \in 0 .. N - 1, n \in Defined PROVE n + 1 \in Defined
  <2>1. PICK f : Goes(f, n, S, base, Step)
    BY <1>2
  <2> DEFINE g == [k \in 0 .. n + 1 |-> IF k = n + 1 THEN Step[<<n + 1, f[n]>>] ELSE f[k]]
  <2>2. f[n] \in S /\ n + 1 \in 1 .. N /\ f \in [0 .. n -> S]
    BY <2>1
  <2>3. g \in [0 .. n + 1 -> S]
    BY <2>2
  <2>4. g[0] = base
    BY <2>1
  <2>5. ASSUME NEW k \in 1 .. n + 1 PROVE g[k] = Step[<<k, g[k - 1]>>]
    <3>1. k - 1 \in 0 .. n
      OBVIOUS
    <3>2. g[k - 1] = f[k - 1]
      BY <3>1
    <3>3. CASE k = n + 1
      <4>1. g[k] = Step[<<n + 1, f[n]>>] /\ k - 1 = n
        BY <3>3
      <4> HIDE DEF g
      <4> QED
        BY <3>2, <3>3, <4>1
    <3>4. CASE k # n + 1
      BY <2>1, <3>2, <3>4
    <3> QED
      BY <3>3, <3>4
  <2> HIDE DEF g
  <2> QED
    BY <2>3, <2>4, <2>5
<1>3. N \in Defined
  <2> HIDE DEF Defined
  <2> QED
    BY <1>1, <1>2, UpTo
<1> QED
  BY <1>3

-----------------------------------------------------------------------------
\* Sequences with an element put before them ...
LEMMA PutBefore ==
    ASSUME NEW S, NEW x \in S, NEW s \in Seq(S)
    PROVE  /\ <<x>> \o s # << >>
           /\ Head(<<x>> \o s) = x
           /\ Tail(<<x>> \o s) = s
           /\ Len(<<x>> \o s) = Len(s) + 1
<1>1. <<x>> \in Seq(S) /\ Len(<<x>>) = 1 /\ <<x>>[1] = x
  OBVIOUS
<1>2. /\ <<x>> \o s \in Seq(S)
      /\ Len(<<x>> \o s) = Len(s) + 1
      /\ (<<x>> \o s)[1] = x
      /\ \A i \in 1 .. Len(s) : (<<x>> \o s)[i + 1] = s[i]
  BY <1>1, ConcatProperties, LenProperties
<1>3. <<x>> \o s # << >> /\ Head(<<x>> \o s) = x
  BY <1>2, LenProperties
<1>4. Tail(<<x>> \o s) = s
  BY <1>2, <1>3, HeadTailProperties, SeqEqual, LenProperties
<1> QED
  BY <1>2, <1>3, <1>4

\* ... or after them.
LEMMA PutAfter ==
    ASSUME NEW S, NEW x \in S, NEW s \in Seq(S)
    PROVE  /\ s \o <<x>> = Append(s, x)
           /\ Len(s \o <<x>>) = Len(s) + 1
           /\ Front(s \o <<x>>) = s
           /\ s # << >> => Tail(s \o <<x>>) = Tail(s) \o <<x>>
<1>1. <<x>> \in Seq(S) /\ s \o <<x>> = Append(s, x)
  BY AppendIsConcat
<1>2. /\ Append(s, x) \in Seq(S) /\ Len(Append(s, x)) = Len(s) + 1
      /\ \A i \in 1 .. Len(s) : Append(s, x)[i] = s[i]
      /\ Append(s, x)[Len(s) + 1] = x
  BY AppendProperties
<1>3. Front(Append(s, x)) = s
  <2>1. Front(Append(s, x)) = SubSeq(Append(s, x), 1, Len(s))
    BY <1>2, LenProperties DEF Front
  <2> QED
    BY <1>2, <2>1, SubSeqProperties, SeqEqual, LenProperties
<1>4. ASSUME s # << >> PROVE Tail(Append(s, x)) = Append(Tail(s), x)
  BY <1>2, <1>4, HeadTailProperties, AppendProperties, SeqEqual, LenProperties, EmptySeq
<1>5. ASSUME s # << >> PROVE Append(Tail(s), x) = Tail(s) \o <<x>>
  BY <1>5, HeadTailProperties, AppendIsConcat
<1> QED
  BY <1>1, <1>2, <1>3, <1>4, <1>5

\* A sequence that is not empty is its head and then its tail.
LEMMA HeadThenTail ==
    ASSUME NEW S, NEW s \in Seq(S), s # << >>
    PROVE  /\ Head(s) \in S /\ Tail(s) \in Seq(S)
           /\ s = <<Head(s)>> \o Tail(s)
<1>1. /\ Head(s) \in S /\ Tail(s) \in Seq(S) /\ Len(Tail(s)) = Len(s) - 1
      /\ \A k \in 1 .. Len(Tail(s)) : Tail(s)[k] = s[k + 1]
      /\ s[1] = Head(s) /\ Len(s) \in Nat /\ Len(s) > 0
  BY HeadTailProperties, EmptySeq, LenProperties
<1> DEFINE h == <<Head(s)>>
<1>2. h \in Seq(S) /\ Len(h) = 1 /\ h[1] = Head(s)
  BY <1>1
<1> HIDE DEF h
<1>3. /\ h \o Tail(s) \in Seq(S) /\ Len(h \o Tail(s)) = Len(s)
      /\ \A k \in 1 .. Len(s) : (h \o Tail(s))[k] = s[k]
  <2>1. /\ h \o Tail(s) \in Seq(S)
        /\ Len(h \o Tail(s)) = 1 + Len(Tail(s))
        /\ \A k \in 1 .. 1 + Len(Tail(s)) :
              (h \o Tail(s))[k] = IF k <= 1 THEN h[k] ELSE Tail(s)[k - 1]
    <3> DEFINE t == Tail(s)
    <3>1. h \in Seq(S) /\ t \in Seq(S) /\ Len(h) = 1
      BY <1>1, <1>2
    <3> HIDE DEF t
    <3>2. /\ h \o t \in Seq(S) /\ Len(h \o t) = Len(h) + Len(t)
          /\ \A k \in 1 .. Len(h) + Len(t) :
                (h \o t)[k] = IF k <= Len(h) THEN h[k] ELSE t[k - Len(h)]
      BY <3>1, ConcatProperties
    <3> QED
      BY <3>1, <3>2 DEF t
  <2>2. ASSUME NEW k \in 1 .. Len(s) PROVE (h \o Tail(s))[k] = s[k]
    <3>1. CASE k = 1
      BY <1>1, <1>2, <2>1, <3>1
    <3>2. CASE k # 1
      <4>1. k - 1 \in 1 .. Len(Tail(s)) /\ (k - 1) + 1 = k
        BY <1>1, <3>2
      <4>2. (h \o Tail(s))[k] = Tail(s)[k - 1]
        BY <1>1, <2>1, <3>2, <4>1
      <4> QED
        BY <1>1, <4>1, <4>2
    <3> QED
      BY <3>1, <3>2
  <2> QED
    BY <1>1, <2>1, <2>2
<1> QED
  BY <1>1, <1>3, SeqEqual DEF h

-----------------------------------------------------------------------------
\* How often e occurs in the sequence s.
Times(s, e) == Cardinality({k \in 1 .. Len(s) : s[k] = e})

LEMMA TimesType ==
    ASSUME NEW S, NEW s \in Seq(S), NEW e
    PROVE  /\ IsFiniteSet({k \in 1 .. Len(s) : s[k] = e})
           /\ Times(s, e) \in Nat
<1>1. Len(s) \in Nat
  BY LenProperties
<1>2. IsFiniteSet(1 .. Len(s))
  BY <1>1, FS_Interval
<1>3. IsFiniteSet({k \in 1 .. Len(s) : s[k] = e})
  BY <1>2, FS_Subset
<1> QED
  BY <1>3, FS_CardinalityType DEF Times

LEMMA TimesEmpty == \A e : Times(<< >>, e) = 0
<1> SUFFICES ASSUME NEW e PROVE Times(<< >>, e) = 0
  OBVIOUS
<1>1. {k \in 1 .. Len(<< >>) : << >>[k] = e} = {}
  OBVIOUS
<1> QED
  BY <1>1, FS_EmptySet DEF Times

LEMMA TimesAppend ==
    ASSUME NEW S, NEW s \in Seq(S), NEW x \in S, NEW e
    PROVE  Times(Append(s, x), e) = Times(s, e) + (IF x = e THEN 1 ELSE 0)
<1> DEFINE n == Len(s)
           At == {k \in 1 .. n : s[k] = e}
           t  == Append(s, x)
           New == {k \in 1 .. Len(t) : t[k] = e}
<1>1. n \in Nat
  BY LenProperties
<1>2. /\ Len(t) = n + 1
      /\ \A k \in 1 .. n : t[k] = s[k]
      /\ t[n + 1] = x
  BY AppendProperties
<1>3. IsFiniteSet(At) /\ Cardinality(At) \in Nat
  BY TimesType DEF Times
<1> HIDE DEF t, n
<1>4. CASE x = e
  <2>1. New = At \cup {n + 1} /\ n + 1 \notin At
    BY <1>1, <1>2, <1>4
  <2> HIDE DEF At, New
  <2>2. Cardinality(New) = Cardinality(At) + 1
    BY <1>3, <2>1, FS_AddElement
  <2> QED
    BY <1>4, <2>2 DEF Times, At, New, t, n
<1>5. CASE x # e
  <2>1. New = At
    BY <1>1, <1>2, <1>5
  <2>2. Times(t, e) = Times(s, e)
    BY <2>1 DEF Times, n
  <2>3. Times(s, e) \in Nat
    BY TimesType
  <2> QED
    BY <1>5, <2>2, <2>3 DEF t
<1> QED
  BY <1>4, <1>5

LEMMA TimesTail ==
    ASSUME NEW S, NEW s \in Seq(S), s # << >>, NEW e
    PROVE  Times(s, e) = Times(Tail(s), e) + (IF Head(s) = e THEN 1 ELSE 0)
<1> DEFINE n == Len(s)
           t == Tail(s)
           At == {k \in 1 .. n : s[k] = e}
           Rest == {k \in 1 .. Len(t) : t[k] = e}
           Moved == {k \in 2 .. n : s[k] = e}
           f == [k \in Rest |-> k + 1]
<1>1. /\ n \in Nat /\ n > 0 /\ t \in Seq(S) /\ Len(t) = n - 1
      /\ \A k \in 1 .. n - 1 : t[k] = s[k + 1]
      /\ s[1] = Head(s)
  BY HeadTailProperties, EmptySeq, LenProperties
<1>2. IsFiniteSet(Rest) /\ Cardinality(Rest) = Times(t, e) /\ Times(t, e) \in Nat
  BY <1>1, TimesType DEF Times
<1> HIDE DEF t, n
<1>3. f \in Bijection(Rest, Moved)
  <2>1. \A k \in Rest : k + 1 \in Moved /\ k \in Nat
    BY <1>1
  <2>2. \A k \in Moved : k - 1 \in Rest /\ k = (k - 1) + 1
    BY <1>1
  <2> HIDE DEF Rest, Moved
  <2>3. f \in [Rest -> Moved] /\ \A k \in Rest : f[k] = k + 1
    BY <2>1
  <2> HIDE DEF f
  <2>4. \A j, k \in Rest : f[j] = f[k] => j = k
    BY <2>1, <2>3
  <2>5. \A k \in Moved : \E j \in Rest : f[j] = k
    BY <2>2, <2>3
  <2> QED
    BY <2>3, <2>4, <2>5 DEF Bijection, Injection, Surjection, IsInjective
<1>4. IsFiniteSet(Moved) /\ Cardinality(Moved) = Times(t, e)
  <2> HIDE DEF Rest, Moved, f
  <2> QED
    BY <1>2, <1>3, FS_Bijection DEF ExistsBijection
<1>5. CASE Head(s) = e
  <2>1. At = Moved \cup {1} /\ 1 \notin Moved
    BY <1>1, <1>5
  <2> HIDE DEF At, Moved
  <2>2. Cardinality(At) = Times(t, e) + 1
    BY <1>2, <1>4, <2>1, FS_AddElement
  <2> QED
    BY <1>5, <2>2 DEF Times, At, t, n
<1>6. CASE Head(s) # e
  <2>1. At = Moved
    BY <1>1, <1>6
  <2> HIDE DEF Moved
  <2>2. Cardinality(At) = Times(t, e)
    BY <1>4, <2>1
  <2>3. Times(s, e) = Times(t, e)
    BY <2>2 DEF Times, At, n
  <2> QED
    BY <1>2, <1>6, <2>3 DEF t
<1> QED
  BY <1>5, <1>6
=============================================================================
