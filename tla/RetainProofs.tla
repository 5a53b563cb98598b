---------------------------- MODULE RetainProofs ----------------------------
(***************************************************************************)
(* What retain leaves of a list (Retain): a list of the same kind, with    *)
(* the kept entries and no others, none of them twice that was there once. *)
(***************************************************************************)
EXTENDS Retain, FiniteSetTheorems, WellFoundedInduction, TLAPS

\* A list names h, and names nothing twice.
Lists(list, h) == \E i \in DOMAIN list : list[i] = h
Once(list) == \A i, j \in DOMAIN list : list[i] = list[j] => i = j

\* A set of natural numbers that is not empty has a least element: the
\* induction behind the facts about retain.
LEMMA LeastElement ==
  ASSUME NEW T, T \subseteq Nat, T # {}
  PROVE  \E x \in T : \A y \in T : x <= y
<1>1. \E x \in T : \A y \in T : ~ (<<y, x>> \in OpToRel(<, Nat))
  BY NatLessThanWellFounded, WFMin
<1>2. OpToRel(<, Nat) = {ss \in Nat \X Nat : ss[1] < ss[2]}
  BY Zenon DEF OpToRel
<1>3. PICK x \in T : \A y \in T : ~ (<<y, x>> \in {ss \in Nat \X Nat : ss[1] < ss[2]})
  BY <1>1, <1>2, Zenon
<1>4. ASSUME NEW y \in T, y < x PROVE FALSE
  <2>1. <<y, x>> \in Nat \X Nat /\ <<y, x>>[1] < <<y, x>>[2]
    BY <1>4
  <2>2. <<y, x>> \in {ss \in Nat \X Nat : ss[1] < ss[2]}
    BY <2>1, Zenon
  <2> QED BY <1>3, <2>2, Zenon
<1> QED BY <1>4

\* How many entries up to position i are kept: 0 before the list, all of them
\* at its end, and one more exactly at a kept position.
LEMMA KeptUpToProperties ==
  ASSUME NEW T, NEW list \in Seq(T), NEW S
  PROVE  /\ Cardinality(Kept(list, S)) \in Nat
         /\ \A i \in 0..Len(list) : KeptUpTo(list, S, i) \in 0..Cardinality(Kept(list, S))
         /\ KeptUpTo(list, S, 0) = 0
         /\ KeptUpTo(list, S, Len(list)) = Cardinality(Kept(list, S))
         /\ \A i \in 1..Len(list) :
              KeptUpTo(list, S, i) = IF i \in Kept(list, S) THEN KeptUpTo(list, S, i - 1) + 1
                                     ELSE KeptUpTo(list, S, i - 1)
         /\ \A i, k \in 0..Len(list) : i <= k => KeptUpTo(list, S, i) <= KeptUpTo(list, S, k)
<1> DEFINE K == Kept(list, S)
           P(i) == {j \in K : j <= i}
<1>1. K \subseteq 1..Len(list) /\ IsFiniteSet(K)
  <2>1. K \subseteq 1..Len(list)
    BY DEF Kept
  <2>2. IsFiniteSet(1..Len(list))
    BY FS_Interval
  <2> QED BY <2>1, <2>2, FS_Subset
<1>2. Cardinality(K) \in Nat
  BY <1>1, FS_CardinalityType
<1>3. \A i : KeptUpTo(list, S, i) = Cardinality(P(i))
  BY DEF KeptUpTo
<1>3a. Len(list) \in Nat /\ \A j \in K : j \in Nat /\ 1 <= j /\ j <= Len(list)
  BY <1>1
<1> HIDE DEF K
<1>4. ASSUME NEW i PROVE IsFiniteSet(P(i)) /\ Cardinality(P(i)) \in Nat /\ Cardinality(P(i)) <= Cardinality(K)
  <2>1. P(i) \subseteq K
    OBVIOUS
  <2> HIDE DEF P
  <2> QED BY <1>1, <2>1, FS_Subset, FS_CardinalityType
<1>5. Cardinality(P(0)) = 0
  <2>1. P(0) = {}
    BY <1>3a
  <2> QED BY <2>1, FS_EmptySet
<1>6. P(Len(list)) = K
  BY <1>3a
<1>7. ASSUME NEW i \in 1..Len(list)
      PROVE  Cardinality(P(i)) = IF i \in K THEN Cardinality(P(i - 1)) + 1 ELSE Cardinality(P(i - 1))
  <2>1. CASE i \in K
    <3>1. P(i) = P(i - 1) \cup {i} /\ i \notin P(i - 1)
      <4>1. \A j \in K : j <= i <=> j <= i - 1 \/ j = i
        BY <1>3a
      <4>2. ~(i <= i - 1) /\ i <= i
        OBVIOUS
      <4> QED BY <2>1, <4>1, <4>2, Zenon
    <3>2. IsFiniteSet(P(i - 1))
      BY <1>4
    <3> HIDE DEF P
    <3> QED BY <2>1, <3>1, <3>2, FS_AddElement
  <2>2. CASE i \notin K
    <3>1. P(i) = P(i - 1)
      BY <1>3a, <2>2
    <3> QED BY <2>2, <3>1
  <2> QED BY <2>1, <2>2
<1>8. ASSUME NEW i \in 0..Len(list), NEW k \in 0..Len(list), i <= k
      PROVE  Cardinality(P(i)) <= Cardinality(P(k))
  <2>1. P(i) \subseteq P(k)
    BY <1>3a, <1>8
  <2>2. IsFiniteSet(P(k))
    BY <1>4
  <2> HIDE DEF P
  <2> QED BY <2>1, <2>2, FS_Subset
<1> HIDE DEF P
<1>9. \A i \in 0..Len(list) : Cardinality(P(i)) \in 0..Cardinality(K)
  BY <1>2, <1>4
<1> QED BY <1>2, <1>3, <1>5, <1>6, <1>7, <1>8, <1>9 DEF K

\* What is left is what was there and is kept, and nothing twice.
LEMMA RetainProperties ==
  ASSUME NEW T, NEW list \in Seq(T), NEW S
  PROVE  /\ Retain(list, S) \in Seq(T)
         /\ \A x : Lists(Retain(list, S), x) <=> Lists(list, x) /\ x \in S
         /\ Once(list) => Once(Retain(list, S))
<1> DEFINE K == Kept(list, S)
           c == Cardinality(K)
           up(i) == KeptUpTo(list, S, i)
           pos(n) == CHOOSE i \in K : up(i) = n
           w == [n \in 1..c |-> list[pos(n)]]
<1>1. Retain(list, S) = w
  BY DEF Retain
<1>2. \A i : i \in K <=> i \in 1..Len(list) /\ list[i] \in S
  BY DEF Kept
<1>3. /\ c \in Nat /\ up(0) = 0 /\ up(Len(list)) = c
      /\ \A i \in 0..Len(list) : up(i) \in 0..c
      /\ \A i \in 1..Len(list) : up(i) = IF i \in K THEN up(i - 1) + 1 ELSE up(i - 1)
      /\ \A i, k \in 0..Len(list) : i <= k => up(i) <= up(k)
  BY KeptUpToProperties
<1> HIDE DEF K, up, c
<1>4. ASSUME NEW n \in 1..c PROVE \E i \in K : up(i) = n
  <2> DEFINE U == {i \in 0..Len(list) : up(i) >= n}
  <2>1. U \subseteq Nat /\ Len(list) \in U
    BY <1>3
  <2>2. PICK x \in U : \A y \in U : x <= y
    BY <2>1, LeastElement
  <2>3. x \in 1..Len(list) /\ up(x) >= n
    BY <1>3, <2>2
  <2>4. x - 1 \in 0..Len(list) /\ x - 1 \notin U
    BY <2>2, <2>3
  <2>5. up(x - 1) < n
    BY <1>3, <2>4
  <2> QED BY <1>3, <2>3, <2>5
<1>5. \A n \in 1..c : pos(n) \in K /\ up(pos(n)) = n
  BY <1>4
<1>6. ASSUME NEW i \in K PROVE up(i) \in 1..c /\ pos(up(i)) = i
  <2>1. i \in 1..Len(list) /\ i - 1 \in 0..Len(list)
    BY <1>2
  <2>2. up(i) \in 1..c
    BY <1>3, <2>1
  <2>3. pos(up(i)) \in K /\ up(pos(up(i))) = up(i)
    BY <1>5, <2>2
  <2> DEFINE k == pos(up(i))
  <2>4. k \in 1..Len(list) /\ k - 1 \in 0..Len(list) /\ k \in K /\ up(k) = up(i)
    BY <1>2, <2>3
  <2> HIDE DEF k
  <2>5. ~(k < i)
    BY <1>3, <2>1, <2>4
  <2>6. ~(i < k)
    BY <1>3, <2>1, <2>4
  <2>7. k = i
    BY <2>1, <2>4, <2>5, <2>6
  <2> QED BY <2>2, <2>7 DEF k
<1> HIDE DEF pos
<1>7. DOMAIN w = 1..c /\ \A n \in 1..c : w[n] = list[pos(n)]
  OBVIOUS
<1>8. w \in Seq(T)
  <2>1. \A n \in 1..c : list[pos(n)] \in T
    BY <1>2, <1>5
  <2> QED BY <1>3, <2>1
<1> HIDE DEF w
<1>9. ASSUME NEW x PROVE Lists(w, x) <=> Lists(list, x) /\ x \in S
  <2>1. ASSUME Lists(w, x) PROVE Lists(list, x) /\ x \in S
    <3>1. PICK n \in 1..c : w[n] = x
      BY <1>7, <2>1 DEF Lists
    <3>2. pos(n) \in 1..Len(list) /\ list[pos(n)] = x /\ x \in S
      BY <1>2, <1>5, <1>7, <3>1
    <3> QED BY <3>2 DEF Lists
  <2>2. ASSUME Lists(list, x), x \in S PROVE Lists(w, x)
    <3>1. PICK i \in 1..Len(list) : list[i] = x
      BY <2>2 DEF Lists
    <3>2. i \in K
      BY <1>2, <2>2, <3>1
    <3>3. up(i) \in 1..c /\ w[up(i)] = x
      BY <1>6, <1>7, <3>1, <3>2
    <3> QED BY <1>7, <3>3 DEF Lists
  <2> QED BY <2>1, <2>2
<1>10. ASSUME Once(list) PROVE Once(w)
  <2> SUFFICES ASSUME NEW m \in 1..c, NEW n \in 1..c, w[m] = w[n] PROVE m = n
    BY <1>7 DEF Once
  <2>1. pos(m) \in 1..Len(list) /\ pos(n) \in 1..Len(list) /\ list[pos(m)] = list[pos(n)]
    BY <1>2, <1>5, <1>7
  <2>2. pos(m) = pos(n)
    BY <1>10, <2>1 DEF Once
  <2> QED BY <1>5, <2>2
<1> QED BY <1>1, <1>8, <1>9, <1>10

\* What remove takes away, and nothing else.
LEMMA WithoutProperties ==
  ASSUME NEW T, NEW list \in Seq(T), NEW h
  PROVE  /\ Without(list, h) \in Seq(T)
         /\ \A x : Lists(Without(list, h), x) <=> Lists(list, x) /\ x # h
         /\ Once(list) => Once(Without(list, h))
<1> DEFINE S == {list[i] : i \in DOMAIN list} \ {h}
<1>1. Without(list, h) = Retain(list, S)
  BY DEF Without
<1>2. \A x : x \in S <=> Lists(list, x) /\ x # h
  BY DEF Lists
<1> HIDE DEF S
<1> QED BY <1>1, <1>2, RetainProperties
=============================================================================
