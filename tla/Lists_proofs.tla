------------------------------- MODULE Lists_proofs -------------------------------
(***************************************************************************)
(* Lemmas about Lists.                                                      *)
(***************************************************************************)
EXTENDS Lists, SequenceTheorems, FiniteSetTheorems, WellFoundedInduction, TLAPS

\* Numbers have a least one.
LEMMA Smallest ==
  ASSUME NEW S \in SUBSET Nat, S # {}
  PROVE  \E m \in S : \A n \in S : m <= n
<1>1. PICK x \in S : \A y \in S : <<y, x>> \notin OpToRel(<, Nat)
  BY WFMin, NatLessThanWellFounded
<1>2. \A y \in S : ~(y < x)
  BY <1>1 DEF OpToRel
<1> QED BY <1>2

\* Numbers up to a bound have a greatest one.
LEMMA Greatest ==
  ASSUME NEW n \in Nat, NEW S \in SUBSET (0..n), S # {}
  PROVE  \E m \in S : \A k \in S : k <= m
<1> DEFINE above == {n - k : k \in S}
<1>1. above \in SUBSET Nat /\ above # {}
  <2>1. \A k \in S : n - k \in Nat
    OBVIOUS
  <2> QED BY <2>1
<1>2. PICK a \in above : \A b \in above : a <= b
  BY <1>1, Smallest
<1>3. PICK m \in S : a = n - m
  OBVIOUS
<1>4. \A k \in S : n - m <= n - k
  BY <1>2, <1>3
<1> QED BY <1>4

-----------------------------------------------------------------------------
\* How many places there are up to one.
UpTo(places, i) == {j \in places : j <= i}

LEMMA UpToGrows ==
  ASSUME NEW n \in Nat, NEW S \in SUBSET (1..n), NEW i \in 1..n
  PROVE  /\ IsFiniteSet(UpTo(S, i)) /\ Cardinality(UpTo(S, i)) \in Nat
         /\ Cardinality(UpTo(S, i)) =
              Cardinality(UpTo(S, i - 1)) + (IF i \in S THEN 1 ELSE 0)
         /\ Cardinality(UpTo(S, i - 1)) \in Nat
<1>1. IsFiniteSet(1..n)
  BY FS_Interval
<1>2. IsFiniteSet(UpTo(S, i - 1)) /\ IsFiniteSet(UpTo(S, i))
  BY <1>1, FS_Subset DEF UpTo
<1>3. Cardinality(UpTo(S, i - 1)) \in Nat /\ Cardinality(UpTo(S, i)) \in Nat
  BY <1>2, FS_CardinalityType
<1>4. S \subseteq Int /\ \A j \in S : j <= i <=> j <= i - 1 \/ j = i
  OBVIOUS
<1>5. CASE i \in S
  <2>1. UpTo(S, i) = UpTo(S, i - 1) \cup {i} /\ i \notin UpTo(S, i - 1)
    <3>1. \A j : j \in UpTo(S, i) <=> j \in UpTo(S, i - 1) \/ j = i
      BY <1>4, <1>5 DEF UpTo
    <3>2. i \notin UpTo(S, i - 1)
      <4>1. ~(i <= i - 1)
        OBVIOUS
      <4> QED BY <4>1 DEF UpTo
    <3> QED BY <3>1, <3>2
  <2> DEFINE before == UpTo(S, i - 1)
  <2>2. IsFiniteSet(before) /\ i \notin before /\ UpTo(S, i) = before \cup {i}
    BY <1>2, <2>1
  <2> HIDE DEF before
  <2>3. Cardinality(before \cup {i}) = Cardinality(before) + 1
    BY <2>2, FS_AddElement
  <2>4. Cardinality(UpTo(S, i)) = Cardinality(before) + 1
    BY <2>2, <2>3
  <2> QED BY <1>2, <1>3, <1>5, <2>4 DEF before
<1>6. CASE i \notin S
  <2>1. UpTo(S, i) = UpTo(S, i - 1)
    BY <1>4, <1>6 DEF UpTo
  <2> QED BY <1>2, <1>3, <1>6, <2>1
<1> QED BY <1>2, <1>3, <1>5, <1>6

\* The k-th place is one of them.
LEMMA NthIsPlace ==
  ASSUME NEW n \in Nat, NEW S \in SUBSET (1..n), NEW k \in 1..Cardinality(S)
  PROVE  Nth(S, k) \in S /\ Cardinality(UpTo(S, Nth(S, k))) = k
<1>1. IsFiniteSet(S) /\ Cardinality(S) \in Nat
  <2>1. IsFiniteSet(1..n)
    BY FS_Interval
  <2> QED BY <2>1, FS_Subset, FS_CardinalityType
<1> DEFINE enough == {i \in 1..n : Cardinality(UpTo(S, i)) >= k}
<1>2. n \in enough
  <2>1. UpTo(S, n) = S
    <3>1. \A j \in S : j <= n
      OBVIOUS
    <3> QED BY <3>1 DEF UpTo
  <2>2. n # 0
    <3>1. Cardinality(S) # 0
      BY <1>1
    <3>2. S # {}
      BY <3>1, FS_EmptySet
    <3>3. PICK j \in S : TRUE
      BY <3>2
    <3> QED BY <3>3
  <2>3. Cardinality(UpTo(S, n)) = Cardinality(S)
    BY <2>1
  <2>4. Cardinality(UpTo(S, n)) >= k /\ n \in 1..n
    BY <1>1, <2>2, <2>3
  <2> QED BY <2>4
<1>3. PICK i \in enough : \A j \in enough : i <= j
  <2>1. enough \in SUBSET Nat
    OBVIOUS
  <2> QED BY <1>2, <2>1, Smallest
<1>4. Cardinality(UpTo(S, i - 1)) < k
  <2>1. CASE i = 1
    <3>1. UpTo(S, i - 1) = {}
      <4>1. \A j \in S : ~(j <= 0)
        OBVIOUS
      <4>2. i - 1 = 0
        BY <2>1
      <4>3. \A j : j \notin UpTo(S, i - 1)
        BY <4>1, <4>2 DEF UpTo
      <4> QED BY <4>3
    <3>2. Cardinality(UpTo(S, i - 1)) = 0
      <4>1. Cardinality({}) = 0
        BY FS_EmptySet
      <4> QED BY <3>1, <4>1
    <3> QED BY <3>2
  <2>2. CASE i # 1
    BY <1>3, <2>2, UpToGrows
  <2> QED BY <2>1, <2>2
<1>5. Cardinality(UpTo(S, i)) = k /\ i \in S
  BY <1>1, <1>3, <1>4, UpToGrows
<1>6. \E j \in S : Cardinality(UpTo(S, j)) = k
  BY <1>5
<1> QED BY <1>6 DEF Nth, UpTo

\* Every place has a number of its own.
LEMMA UpToStrict ==
  ASSUME NEW n \in Nat, NEW S \in SUBSET (1..n), NEW i \in S, NEW j \in S, i < j
  PROVE  Cardinality(UpTo(S, i)) < Cardinality(UpTo(S, j))
<1>1. j \in 1..n /\ i \in 1..n /\ j - 1 \in 1..n
  OBVIOUS
<1>2. /\ IsFiniteSet(UpTo(S, j - 1)) /\ Cardinality(UpTo(S, j - 1)) \in Nat
      /\ Cardinality(UpTo(S, j)) = Cardinality(UpTo(S, j - 1)) + 1
      /\ Cardinality(UpTo(S, i)) \in Nat
  BY <1>1, UpToGrows
<1>3. UpTo(S, i) \subseteq UpTo(S, j - 1)
  <2>1. \A h \in S : h <= i => h <= j - 1
    OBVIOUS
  <2> QED BY <2>1 DEF UpTo
<1>4. Cardinality(UpTo(S, i)) <= Cardinality(UpTo(S, j - 1))
  BY <1>2, <1>3, FS_Subset
<1> QED BY <1>2, <1>4

LEMMA NthOnto ==
  ASSUME NEW n \in Nat, NEW S \in SUBSET (1..n), NEW i \in S
  PROVE  \E k \in 1..Cardinality(S) : Nth(S, k) = i
<1> DEFINE k == Cardinality(UpTo(S, i))
<1>1. IsFiniteSet(S) /\ Cardinality(S) \in Nat
  <2>1. IsFiniteSet(1..n)
    BY FS_Interval
  <2> QED BY <2>1, FS_Subset, FS_CardinalityType
<1>2. k \in Nat /\ IsFiniteSet(UpTo(S, i))
  BY UpToGrows
<1>3. k <= Cardinality(S)
  <2>1. UpTo(S, i) \subseteq S
    BY DEF UpTo
  <2> QED BY <1>1, <2>1, FS_Subset
<1>4. k # 0
  <2>1. i \in UpTo(S, i)
    <3>1. i <= i
      OBVIOUS
    <3> QED BY <3>1 DEF UpTo
  <2> QED BY <1>2, <2>1, FS_EmptySet
<1>5. k \in 1..Cardinality(S)
  BY <1>1, <1>2, <1>3, <1>4
<1>6. Nth(S, k) \in S /\ Cardinality(UpTo(S, Nth(S, k))) = k
  <2> HIDE DEF k
  <2> QED BY <1>5, NthIsPlace
<1>7. Nth(S, k) = i
  <2> DEFINE j == Nth(S, k)
  <2>1. j \in S /\ Cardinality(UpTo(S, j)) = Cardinality(UpTo(S, i))
    BY <1>6
  <2> HIDE DEF j
  <2>2. ~(i < j)
    <3>1. ASSUME i < j PROVE FALSE
      <4>1. Cardinality(UpTo(S, i)) < Cardinality(UpTo(S, j))
        BY <2>1, <3>1, UpToStrict
      <4> QED BY <1>2, <2>1, <4>1
    <3> QED BY <3>1
  <2>3. ~(j < i)
    <3>1. ASSUME j < i PROVE FALSE
      <4>1. Cardinality(UpTo(S, j)) < Cardinality(UpTo(S, i))
        BY <2>1, <3>1, UpToStrict
      <4> QED BY <1>2, <2>1, <4>1
    <3> QED BY <3>1
  <2>4. i = j
    BY <2>1, <2>2, <2>3
  <2> QED BY <2>4 DEF j
<1> QED BY <1>5, <1>7

\* The places of an interval.
LEMMA NthOfInterval ==
  ASSUME NEW a \in Nat, NEW b \in Nat, NEW k \in 1..b
  PROVE  Nth((a + 1)..(a + b), k) = a + k
<1> DEFINE S == (a + 1)..(a + b)
<1>1. \A i \in S : {j \in S : j <= i} = (a + 1)..i
  OBVIOUS
<1>2. \A i \in S : Cardinality((a + 1)..i) = i - a
  BY FS_Interval
<1>3. \A i \in S : Cardinality({j \in S : j <= i}) = k <=> i = a + k
  <2> TAKE i \in S
  <2>1. Cardinality({j \in S : j <= i}) = i - a
    BY <1>1, <1>2
  <2> QED BY <2>1
<1>4. a + k \in S
  OBVIOUS
<1> HIDE DEF S
<1>5. Nth(S, k) = a + k
  BY <1>3, <1>4 DEF Nth
<1> QED BY <1>5 DEF S

-----------------------------------------------------------------------------
\* Items are items of the list, as many as there are places.
LEMMA ItemsAtType ==
  ASSUME NEW n \in Nat, NEW list, NEW S \in SUBSET (1..n)
  PROVE  /\ Cardinality(S) \in Nat
         /\ Len(ItemsAt(list, S)) = Cardinality(S)
         /\ DOMAIN ItemsAt(list, S) = 1..Cardinality(S)
         /\ \A k \in 1..Cardinality(S) : ItemsAt(list, S)[k] = list[Nth(S, k)] /\ Nth(S, k) \in S
         /\ \A T : (\A i \in S : list[i] \in T) => ItemsAt(list, S) \in Seq(T)
<1>1. Cardinality(S) \in Nat
  <2>1. IsFiniteSet(1..n)
    BY FS_Interval
  <2> QED BY <2>1, FS_Subset, FS_CardinalityType
<1>2. \A k \in 1..Cardinality(S) : Nth(S, k) \in S
  BY NthIsPlace
<1>3. /\ DOMAIN ItemsAt(list, S) = 1..Cardinality(S)
      /\ \A k \in 1..Cardinality(S) : ItemsAt(list, S)[k] = list[Nth(S, k)]
  BY DEF ItemsAt
<1>4. \A T : (\A i \in S : list[i] \in T) => ItemsAt(list, S) \in Seq(T)
  <2> TAKE T
  <2> HAVE \A i \in S : list[i] \in T
  <2>1. \A k \in 1..Cardinality(S) : list[Nth(S, k)] \in T
    BY <1>2
  <2> HIDE DEF Nth
  <2> QED BY <1>1, <2>1, IsASeq DEF ItemsAt
<1>5. Len(ItemsAt(list, S)) = Cardinality(S)
  BY <1>1 DEF ItemsAt
<1> QED BY <1>1, <1>2, <1>3, <1>4, <1>5
=============================================================================
