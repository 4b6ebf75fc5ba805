----------------------------- MODULE DataLemmas -----------------------------
(***************************************************************************)
(* Facts about natural numbers, sets of them and sequences that the proofs *)
(* of several components cite.                                             *)
(***************************************************************************)
EXTENDS Integers, Sequences, SequencesExt, FiniteSetsExt,
        WellFoundedInduction, FiniteSetTheorems, SequenceTheorems, TLAPS

-----------------------------------------------------------------------------
(* Least and greatest elements *)

(* A set of naturals that is not empty has a least element: the intervals  *)
(* 0..n of its members are finite sets, and finite sets are well founded   *)
(* under inclusion.  It stands in for induction over the naturals.         *)
LEMMA Least ==
  ASSUME NEW T \in SUBSET Nat, T # {}
  PROVE  \E x \in T : \A y \in T : x <= y
<1>. DEFINE U == { 0..n : n \in T }
<1>1. U \subseteq FiniteSubsetsOf(Nat)
  <2>1. \A n \in T : IsFiniteSet(0..n)
    BY FS_Interval
  <2>. QED  BY <2>1 DEF FiniteSubsetsOf
<1>2. PICK x \in U : \A y \in U : <<y, x>> \notin StrictSubsetOrdering(Nat)
  <2>1. IsWellFoundedOn(StrictSubsetOrdering(Nat), FiniteSubsetsOf(Nat))
    BY FS_StrictSubsetOrderingWellFounded
  <2>2. U # {}
    OBVIOUS
  <2>. HIDE DEF U
  <2>. QED  BY <1>1, <2>1, <2>2, WFMin
<1>3. PICK n \in T : x = 0..n
  OBVIOUS
<1>4. ASSUME NEW m \in T, m < n PROVE FALSE
  <2>1. 0..m \in U /\ 0..m \subseteq 0..n /\ 0..m # 0..n /\ 0..n \in SUBSET Nat
    BY <1>4
  <2>2. <<0..m, 0..n>> \in StrictSubsetOrdering(Nat)
    BY <2>1 DEF StrictSubsetOrdering
  <2>. QED  BY <1>2, <1>3, <2>1, <2>2
<1>. QED  BY <1>4

(* A set that has 0 and with each number the next has all of them: it is   *)
(* induction, with the property as a set.                                  *)
LEMMA Induction ==
  ASSUME NEW S, 0 \in S, \A n \in Nat : n \in S => n + 1 \in S
  PROVE  \A n \in Nat : n \in S
<1>. SUFFICES ASSUME NEW m \in Nat, m \notin S
              PROVE  FALSE
  OBVIOUS
<1>. DEFINE T == { n \in Nat : n \notin S }
<1>1. PICK x \in T : \A y \in T : x <= y
  <2>. T \in SUBSET Nat /\ T # {}
    OBVIOUS
  <2>. HIDE DEF T
  <2>. QED  BY Least
<1>2. x \in Nat /\ x # 0
  OBVIOUS
<1>3. x - 1 \in Nat /\ x - 1 \notin T
  BY <1>1, <1>2
<1>. QED  BY <1>3

(* A bounded set of naturals that is not empty has a greatest element.     *)
LEMMA Greatest ==
  ASSUME NEW n \in Nat, NEW T \in SUBSET (0..n), T # {}
  PROVE  \E x \in T : \A y \in T : x >= y
<1>. DEFINE U == { n - x : x \in T }
<1>1. PICK u \in U : \A y \in U : u <= y
  <2>1. \A x \in T : n - x \in Nat
    OBVIOUS
  <2>2. U \in SUBSET Nat /\ U # {}
    BY <2>1
  <2>. HIDE DEF U
  <2>. QED  BY <2>2, Least
<1>2. PICK x \in T : u = n - x
  OBVIOUS
<1>3. ASSUME NEW y \in T PROVE x >= y
  <2>1. n - y \in U
    OBVIOUS
  <2>. QED  BY <2>1, <1>1, <1>2
<1>. QED  BY <1>3

(* What Min and Max of the community modules choose.                       *)
LEMMA MinIs ==
  ASSUME NEW T \in SUBSET Nat, T # {}
  PROVE  Min(T) \in T /\ \A y \in T : Min(T) <= y
BY Least DEF Min

(* and the greatest.                                                       *)
LEMMA MaxIs ==
  ASSUME NEW n \in Nat, NEW T \in SUBSET (0..n), T # {}
  PROVE  Max(T) \in T /\ \A y \in T : Max(T) >= y
BY Greatest DEF Max

(* Min and Max of two integers.                                            *)
LEMMA MinMaxOfTwo ==
  ASSUME NEW a \in Int, NEW b \in Int
  PROVE  /\ Max({a, b}) = IF a >= b THEN a ELSE b
         /\ Min({a, b}) = IF a <= b THEN a ELSE b
BY DEF Max, Min

-----------------------------------------------------------------------------
(* Sequences *)

(* Concatenation is associative, with names for its parts.                 *)
LEMMA Regroup ==
  ASSUME NEW S, NEW g \in Seq(S), NEW x \in Seq(S), NEW y \in Seq(S),
         NEW b, b = x \o y, NEW h, h = g \o x
  PROVE  h \o y = g \o b
BY ConcatAssociative

(* The sequence without its i-th element.                                  *)
LEMMA RemoveAtIs ==
  ASSUME NEW S, NEW s \in Seq(S), NEW i \in DOMAIN s
  PROVE  /\ RemoveAt(s, i) \in Seq(S)
         /\ Len(RemoveAt(s, i)) = Len(s) - 1
         /\ \A k \in 1..(Len(s) - 1) : RemoveAt(s, i)[k] = s[IF k < i THEN k ELSE k + 1]
<1>. DEFINE a == SubSeq(s, 1, i - 1)
            b == SubSeq(s, i + 1, Len(s))
<1>1. a \in Seq(S) /\ Len(a) = i - 1 /\ \A k \in 1..(i - 1) : a[k] = s[k]
  BY SubSeqProperties
<1>2. b \in Seq(S) /\ Len(b) = Len(s) - i /\ \A k \in 1..(Len(s) - i) : b[k] = s[k + i]
  BY SubSeqProperties
<1>3. RemoveAt(s, i) = a \o b
  BY DEF RemoveAt
<1>. HIDE DEF a, b
<1>4. a \o b \in Seq(S) /\ Len(a \o b) = Len(s) - 1
  BY <1>1, <1>2, ConcatProperties
<1>5. ASSUME NEW k \in 1..(Len(s) - 1)
      PROVE  (a \o b)[k] = s[IF k < i THEN k ELSE k + 1]
  <2>1. k \in 1..(Len(a) + Len(b))
    BY <1>1, <1>2
  <2>2. (a \o b)[k] = IF k <= Len(a) THEN a[k] ELSE b[k - Len(a)]
    BY <2>1, <1>1, <1>2, ConcatProperties
  <2>. QED  BY <2>2, <1>1, <1>2
<1>. QED  BY <1>3, <1>4, <1>5

(* Appending an element, and taking one away, in terms of the range.       *)
LEMMA AppendRange ==
  ASSUME NEW S, NEW s \in Seq(S), NEW e \in S
  PROVE  /\ Range(Append(s, e)) = Range(s) \cup {e}
         /\ IsInjective(s) /\ e \notin Range(s) => IsInjective(Append(s, e))
<1>. DEFINE t == Append(s, e)
<1>1. /\ t \in Seq(S) /\ Len(t) = Len(s) + 1 /\ t[Len(s) + 1] = e
      /\ \A k \in 1..Len(s) : t[k] = s[k]
  BY AppendProperties
<1>. HIDE DEF t
<1>2. DOMAIN t = 1..(Len(s) + 1) /\ DOMAIN s = 1..Len(s) /\ Len(s) \in Nat
  BY <1>1, LenProperties
<1>3. Range(t) = Range(s) \cup {e}
  <2>1. ASSUME NEW x \in Range(t) PROVE x \in Range(s) \cup {e}
    BY <1>1, <1>2 DEF Range
  <2>2. ASSUME NEW x \in Range(s) \cup {e} PROVE x \in Range(t)
    <3>1. CASE x = e
      BY <3>1, <1>1, <1>2 DEF Range
    <3>2. CASE x \in Range(s)
      <4>1. PICK k \in 1..Len(s) : s[k] = x
        BY <3>2, <1>2 DEF Range
      <4>2. k \in DOMAIN t /\ t[k] = x
        BY <4>1, <1>1, <1>2
      <4>. QED  BY <4>2 DEF Range
    <3>. QED  BY <3>1, <3>2
  <2>. QED  BY <2>1, <2>2
<1>4. ASSUME IsInjective(s), e \notin Range(s), NEW a \in DOMAIN t, NEW b \in DOMAIN t, t[a] = t[b]
      PROVE  a = b
  <2>1. \A k \in 1..Len(s) : t[k] # e
    BY <1>4, <1>1, <1>2 DEF Range
  <2>. QED  BY <1>4, <2>1, <1>1, <1>2 DEF IsInjective
<1>. QED  BY <1>3, <1>4 DEF t, IsInjective

(* What is left in a sequence without repetitions.                         *)
LEMMA RemoveAtRange ==
  ASSUME NEW S, NEW s \in Seq(S), NEW i \in DOMAIN s, IsInjective(s)
  PROVE  /\ Range(RemoveAt(s, i)) = Range(s) \ {s[i]}
         /\ IsInjective(RemoveAt(s, i))
<1>. DEFINE t == RemoveAt(s, i)
<1>1. /\ t \in Seq(S) /\ Len(t) = Len(s) - 1
      /\ \A k \in 1..(Len(s) - 1) : t[k] = s[IF k < i THEN k ELSE k + 1]
  BY RemoveAtIs
<1>. HIDE DEF t
<1>2. DOMAIN t = 1..(Len(s) - 1) /\ DOMAIN s = 1..Len(s) /\ Len(s) \in Nat /\ i \in 1..Len(s)
  BY <1>1, LenProperties
<1>3. ASSUME NEW a \in DOMAIN t, NEW b \in DOMAIN t, t[a] = t[b] PROVE a = b
  <2>. DEFINE f(k) == IF k < i THEN k ELSE k + 1
  <2>1. f(a) \in DOMAIN s /\ f(b) \in DOMAIN s /\ s[f(a)] = s[f(b)]
    BY <1>1, <1>2, <1>3
  <2>2. f(a) = f(b)
    BY <2>1 DEF IsInjective
  <2>. QED  BY <2>2, <1>2
<1>4. ASSUME NEW x \in Range(t) PROVE x \in Range(s) \ {s[i]}
  <2>1. PICK k \in 1..(Len(s) - 1) : t[k] = x
    BY <1>2 DEF Range
  <2>2. (IF k < i THEN k ELSE k + 1) \in 1..Len(s) \ {i}
    BY <1>2
  <2>. QED  BY <2>1, <2>2, <1>1, <1>2 DEF Range, IsInjective
<1>5. ASSUME NEW x \in Range(s) \ {s[i]} PROVE x \in Range(t)
  <2>1. PICK k \in 1..Len(s) : s[k] = x /\ k # i
    BY <1>2 DEF Range
  <2>2. PICK j \in 1..(Len(s) - 1) : k = IF j < i THEN j ELSE j + 1
    <3>1. CASE k < i
      BY <3>1, <1>2
    <3>2. CASE k > i
      <4>1. k - 1 \in 1..(Len(s) - 1) /\ ~(k - 1 < i)
        BY <3>2, <1>2
      <4>. QED  BY <4>1
    <3>. QED  BY <3>1, <3>2, <2>1, <1>2
  <2>3. t[j] = x /\ j \in DOMAIN t
    BY <2>1, <2>2, <1>1, <1>2
  <2>. QED  BY <2>3 DEF Range
<1>. QED  BY <1>3, <1>4, <1>5 DEF t, IsInjective

(* The head of a queue and what is behind it.                              *)
LEMMA HeadTailRange ==
  ASSUME NEW S, NEW s \in Seq(S), s # <<>>
  PROVE  Head(s) \in Range(s) /\ Range(Tail(s)) \subseteq Range(s)
<1>1. Len(s) \in Nat \ {0} /\ DOMAIN s = 1..Len(s)
  BY EmptySeq, LenProperties
<1>2. Head(s) = s[1] /\ 1 \in DOMAIN s
  BY <1>1
<1>3. /\ Tail(s) \in Seq(S) /\ Len(Tail(s)) = Len(s) - 1
      /\ \A k \in 1..Len(Tail(s)) : Tail(s)[k] = s[k + 1]
  BY HeadTailProperties
<1>4. DOMAIN Tail(s) = 1..(Len(s) - 1)
  BY <1>3, LenProperties
<1>5. ASSUME NEW x \in Range(Tail(s)) PROVE x \in Range(s)
  <2>1. PICK k \in 1..(Len(s) - 1) : Tail(s)[k] = x
    BY <1>4 DEF Range
  <2>2. s[k + 1] = x /\ k + 1 \in DOMAIN s
    BY <2>1, <1>1, <1>3
  <2>. QED  BY <2>2 DEF Range
<1>. QED  BY <1>2, <1>5 DEF Range

(* Sequences that agree up to n begin with the same n elements.            *)
LEMMA SameBeginning ==
  ASSUME NEW S, NEW s \in Seq(S), NEW t \in Seq(S), NEW n \in Nat, n <= Len(s), n <= Len(t),
         \A k \in 1..n : s[k] = t[k]
  PROVE  SubSeq(s, 1, n) = SubSeq(t, 1, n)
<1>. DEFINE u == SubSeq(s, 1, n)
            v == SubSeq(t, 1, n)
<1>1. /\ u \in Seq(S) /\ v \in Seq(S)
      /\ \A k \in 1..n : u[k] = s[k] /\ v[k] = t[k]
  <2>1. Len(s) \in Nat /\ Len(t) \in Nat /\ s \in [1..Len(s) -> S] /\ t \in [1..Len(t) -> S]
    BY LenProperties
  <2>2. \A k \in 1..n : s[k] \in S /\ t[k] \in S
    BY <2>1
  <2>3. n - 1 + 1 = n /\ \A k \in 1..n : 1 + k - 1 = k
    OBVIOUS
  <2>4. u \in Seq(S) /\ \A k \in 1..(n - 1 + 1) : u[k] = s[1 + k - 1]
    BY <2>2, SubSeqProperties
  <2>5. v \in Seq(S) /\ \A k \in 1..(n - 1 + 1) : v[k] = t[1 + k - 1]
    BY <2>2, SubSeqProperties
  <2>. HIDE DEF u, v
  <2>. QED  BY <2>3, <2>4, <2>5
<1>2. Len(u) = n /\ Len(v) = n
  <2>1. Len(s) \in Nat /\ Len(t) \in Nat /\ s \in [1..Len(s) -> S] /\ t \in [1..Len(t) -> S]
    BY LenProperties
  <2>2. \A k \in 1..n : s[k] \in S /\ t[k] \in S
    BY <2>1
  <2>3. /\ Len(u) = IF 1 <= n THEN n - 1 + 1 ELSE 0
        /\ Len(v) = IF 1 <= n THEN n - 1 + 1 ELSE 0
    BY <2>2, SubSeqProperties
  <2>. HIDE DEF u, v
  <2>. QED  BY <2>3
<1>. HIDE DEF u, v
<1>3. u = v
  BY <1>1, <1>2, SeqEqual
<1>. QED  BY <1>3 DEF u, v

(* A function on an initial segment of the numbers is a sequence.          *)
LEMMA FunctionIsSeq ==
  ASSUME NEW S, NEW n \in Nat, NEW v \in [1..n -> S]
  PROVE  v \in Seq(S)
OBVIOUS
=============================================================================
