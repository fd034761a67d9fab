----------------------------- MODULE Foundations -----------------------------
(***************************************************************************)
(* Facts about numbers, sets and sequences that the proofs share.  The     *)
(* library states induction for a predicate; here it is stated for a set,  *)
(* which the provers can find, and so is definition by recursion.          *)
(***************************************************************************)
EXTENDS Integers, FiniteSets, Sequences, SequencesExt, Selections,
        TLAPS, WellFoundedInduction, FiniteSetTheorems

LEMMA Smallest ==
  ASSUME NEW S, S \subseteq Nat, S # {}
  PROVE  \E m \in S : \A k \in S : m <= k
<1>1. PICK m \in S : \A y \in S : ~ (<<y, m>> \in OpToRel(<, Nat))
  BY WFMin, NatLessThanWellFounded
<1>2. \A y \in S : ~(y < m)
  BY <1>1 DEF OpToRel
<1> QED BY <1>2

LEMMA Largest ==
  ASSUME NEW S, S \subseteq Nat, S # {}, NEW b \in Nat, \A k \in S : k <= b
  PROVE  \E m \in S : \A k \in S : k <= m
<1> DEFINE T == {b - k : k \in S}
<1>1. T \subseteq Nat /\ T # {}
  <2>1. PICK x \in S : TRUE
    OBVIOUS
  <2>2. b - x \in T
    BY <2>1
  <2> QED BY <2>2
<1>2. PICK n \in T : \A k \in T : n <= k
  BY <1>1, Smallest
<1>3. PICK m \in S : n = b - m
  BY <1>2
<1>4. ASSUME NEW k \in S PROVE k <= m
  <2>1. n <= b - k
    BY <1>2
  <2> QED BY <2>1, <1>3
<1> QED BY <1>4

(* Min and Max of the community modules.                                   *)
LEMMA MinIs ==
  ASSUME NEW S, S \subseteq Nat, S # {}
  PROVE  Min(S) \in S /\ \A k \in S : Min(S) <= k
BY Smallest DEF Min

LEMMA MaxIs ==
  ASSUME NEW S, S \subseteq Nat, S # {}, NEW b \in Nat, \A k \in S : k <= b
  PROVE  Max(S) \in S /\ \A k \in S : k <= Max(S)
BY Largest DEF Max

LEMMA Induction ==
  ASSUME NEW N \in Nat, NEW S, 0 \in S, \A n \in 1..N : n - 1 \in S => n \in S
  PROVE  0..N \subseteq S
<1> DEFINE T == (0..N) \ S
<1> SUFFICES ASSUME T # {} PROVE FALSE
  OBVIOUS
<1>1. PICK m \in T : \A k \in T : m <= k
  <2>1. T \subseteq Nat
    OBVIOUS
  <2> QED BY <2>1, Smallest
<1>2. m \in 1..N
  BY <1>1
<1>3. m - 1 \in S
  BY <1>1, <1>2
<1> QED BY <1>1, <1>2, <1>3

(* s is the loop of N steps from base.                                     *)
Loop(s, N, base, step) == s[0] = base /\ \A n \in 1..N : s[n] = step[<<s[n - 1], n>>]

LEMMA Recursion ==
  ASSUME NEW N \in Nat, NEW Val, NEW base \in Val, NEW step \in [Val \X (1..N) -> Val]
  PROVE  \E s \in [0..N -> Val] : Loop(s, N, base, step)
<1> DEFINE Upto(m, s) == s[0] = base /\ \A n \in 1..m : s[n] = step[<<s[n - 1], n>>]
           P == {m \in 0..N : \E s \in [0..m -> Val] : Upto(m, s)}
<1>1. 0 \in P
  <2> DEFINE z == [n \in 0..0 |-> base]
  <2>1. z \in [0..0 -> Val] /\ z[0] = base
    OBVIOUS
  <2>2. Upto(0, z)
    BY <2>1
  <2> HIDE DEF Upto, z
  <2> QED BY <2>1, <2>2
<1>2. ASSUME NEW m \in 1..N, m - 1 \in P PROVE m \in P
  <2>1. PICK s \in [0..(m - 1) -> Val] : Upto(m - 1, s)
    BY <1>2
  <2> DEFINE t == [n \in 0..m |-> IF n = m THEN step[<<s[m - 1], m>>] ELSE s[n]]
  <2>2. step[<<s[m - 1], m>>] \in Val
    OBVIOUS
  <2>3. t \in [0..m -> Val]
    BY <2>2
  <2>4. t[0] = base
    BY <2>1
  <2>5. ASSUME NEW n \in 1..m PROVE t[n] = step[<<t[n - 1], n>>]
    <3>1. t[n - 1] = s[n - 1]
      OBVIOUS
    <3>2. CASE n = m
      BY <3>1, <3>2
    <3>3. CASE n \in 1..(m - 1)
      <4>1. t[n] = s[n] /\ s[n] = step[<<s[n - 1], n>>]
        BY <2>1, <3>3
      <4> QED BY <3>1, <4>1
    <3> QED BY <3>2, <3>3
  <2>6. Upto(m, t)
    BY <2>4, <2>5
  <2> HIDE DEF Upto, t
  <2> QED BY <2>3, <2>6
<1>3. N \in P
  <2> HIDE DEF P
  <2> QED BY <1>1, <1>2, Induction
<1> QED BY <1>3 DEF Loop
(* A finite set of numbers has a greatest.                                 *)
LEMMA FiniteLargest ==
  ASSUME NEW S, IsFiniteSet(S), S \subseteq Nat, S # {}
  PROVE  \E m \in S : \A k \in S : k <= m
<1> DEFINE Top(T) == T # {} => \E m \in T : \A k \in T : k <= m
           P == {n \in 0..Cardinality(S) : \A T \in SUBSET S : Cardinality(T) = n => Top(T)}
<1>1. Cardinality(S) \in Nat
  BY FS_CardinalityType
<1>2. \A T \in SUBSET S : IsFiniteSet(T)
  BY FS_Subset
<1>3. 0 \in P
  <2>1. \A T \in SUBSET S : Cardinality(T) = 0 => T = {}
    BY <1>2, FS_EmptySet
  <2>2. \A T \in SUBSET S : Cardinality(T) = 0 => Top(T)
    BY <2>1
  <2> HIDE DEF Top
  <2> QED BY <1>1, <2>2
<1>4. ASSUME NEW n \in 1..Cardinality(S), n - 1 \in P PROVE n \in P
  <2> SUFFICES ASSUME NEW T \in SUBSET S, Cardinality(T) = n, T # {} PROVE Top(T)
    BY <1>1
  <2>1. PICK x \in T : TRUE
    OBVIOUS
  <2> DEFINE U == T \ {x}
  <2>2. U \in SUBSET S /\ T = U \cup {x} /\ x \in Nat
    BY <2>1
  <2>3. Cardinality(U) = n - 1
    BY <1>2, <2>1, FS_RemoveElement
  <2>4. Top(U)
    BY <1>4, <2>2, <2>3
  <2> HIDE DEF U
  <2>5. CASE U = {}
    BY <2>2, <2>5
  <2>6. CASE U # {}
    <3>1. PICK m \in U : \A k \in U : k <= m
      BY <2>4, <2>6
    <3>2. m \in Nat /\ \A k \in U : k \in Nat
      BY <2>2, <3>1
    <3>3. CASE m <= x
      <4>1. \A k \in T : k <= x
        BY <2>2, <3>1, <3>2, <3>3
      <4> QED BY <2>1, <4>1
    <3>4. CASE x <= m
      <4>1. \A k \in T : k <= m
        BY <2>2, <3>1, <3>2, <3>4
      <4> QED BY <2>2, <3>1, <4>1
    <3> QED BY <2>2, <3>2, <3>3, <3>4
  <2> QED BY <2>5, <2>6
<1>5. Cardinality(S) \in P
  <2> HIDE DEF P
  <2> QED BY <1>1, <1>3, <1>4, Induction
<1> QED BY <1>5
-----------------------------------------------------------------------------
(* The places of a sequence and their ranks (Selections).                  *)

LEMMA Finite ==
  ASSUME NEW n \in Nat, NEW I \in SUBSET (1..n)
  PROVE  IsFiniteSet(I) /\ Cardinality(I) \in 0..n
<1>1. IsFiniteSet(1..n) /\ Cardinality(1..n) = n
  BY FS_Interval
<1>2. IsFiniteSet(I) /\ Cardinality(I) <= Cardinality(1..n)
  BY <1>1, FS_Subset
<1>3. Cardinality(I) \in Nat /\ Cardinality(1..n) = n
  BY <1>1, <1>2, FS_CardinalityType
<1> QED BY <1>2, <1>3

LEMMA RankTypes ==
  ASSUME NEW n \in Nat, NEW I \in SUBSET (1..n), NEW i \in I
  PROVE  Rank(I, i) \in 1..Cardinality(I)
<1> DEFINE J == {j \in I : j <= i}
<1>1. IsFiniteSet(I) /\ J \in SUBSET I /\ i \in J
  BY Finite
<1>2. IsFiniteSet(J) /\ Cardinality(J) <= Cardinality(I) /\ Cardinality(J) \in Nat
  BY <1>1, FS_Subset, FS_CardinalityType
<1>3. Cardinality(J) # 0
  BY <1>1, <1>2, FS_EmptySet
<1>4. Cardinality(I) \in Nat
  BY <1>1, FS_CardinalityType
<1> QED BY <1>2, <1>3, <1>4 DEF Rank

LEMMA RankGrows ==
  ASSUME NEW n \in Nat, NEW I \in SUBSET (1..n), NEW i \in I, NEW j \in I, i < j
  PROVE  Rank(I, i) < Rank(I, j)
<1> DEFINE A == {k \in I : k <= i}
           B == {k \in I : k <= j}
<1>1. IsFiniteSet(B) /\ A \in SUBSET B /\ j \in B /\ j \notin A
  <2>1. B \in SUBSET I /\ IsFiniteSet(I)
    BY Finite
  <2>2. IsFiniteSet(B)
    BY <2>1, FS_Subset
  <2>3. \A k \in I : k \in Int
    OBVIOUS
  <2>4. A \in SUBSET B
    <3>1. \A k \in I : k <= i => k <= j
      BY <2>3
    <3> QED BY <3>1
  <2>5. j \in B /\ j \notin A
    BY <2>3
  <2> HIDE DEF A, B
  <2> QED BY <2>2, <2>4, <2>5
<1>2. Cardinality(A) <= Cardinality(B) /\ (Cardinality(A) = Cardinality(B) => A = B)
  BY <1>1, FS_Subset
<1>3. A # B
  BY <1>1
<1>4. Cardinality(A) \in Nat /\ Cardinality(B) \in Nat
  BY <1>1, FS_Subset, FS_CardinalityType
<1> QED BY <1>2, <1>3, <1>4 DEF Rank

(* Every rank up to the number of places is taken.                         *)
LEMMA RankOnto ==
  ASSUME NEW n \in Nat, NEW I \in SUBSET (1..n), NEW k \in 1..Cardinality(I)
  PROVE  \E i \in I : Rank(I, i) = k
<1> DEFINE Low(m) == {j \in I : j <= m}
           Good(m) == \A c \in 1..Cardinality(Low(m)) : \E i \in I : Rank(I, i) = c
           S == {m \in 0..n : Good(m)}
<1>0. \A j \in I : j \in Int /\ 1 <= j /\ j <= n
  OBVIOUS
<1>1. \A m \in 0..n : IsFiniteSet(Low(m)) /\ Cardinality(Low(m)) \in Nat
  <2> SUFFICES ASSUME NEW m \in 0..n PROVE IsFiniteSet(Low(m)) /\ Cardinality(Low(m)) \in Nat
    OBVIOUS
  <2>1. Low(m) \in SUBSET (1..n)
    OBVIOUS
  <2> QED BY <2>1, Finite
<1>2. 0 \in S
  <2>1. \A j \in I : ~(j <= 0)
    BY <1>0
  <2>2. Low(0) = {}
    BY <2>1
  <2>3. Cardinality(Low(0)) = 0
    BY <2>2, FS_EmptySet
  <2> HIDE DEF Low
  <2> QED BY <2>3
<1>3. ASSUME NEW m \in 1..n, m - 1 \in S PROVE m \in S
  <2>1. CASE m \notin I
    <3>1. \A j \in I : j <= m <=> j <= m - 1
      BY <1>0, <2>1
    <3>2. Low(m) = Low(m - 1)
      BY <3>1
    <3> QED BY <1>3, <3>2
  <2>2. CASE m \in I
    <3>1. Low(m) = Low(m - 1) \cup {m} /\ m \notin Low(m - 1)
      <4>1. \A j \in I : j <= m <=> j <= m - 1 \/ j = m
        BY <1>0
      <4>2. ~(m <= m - 1)
        OBVIOUS
      <4> QED BY <2>2, <4>1, <4>2
    <3>2. m - 1 \in 0..n
      OBVIOUS
    <3>3. Cardinality(Low(m)) = Cardinality(Low(m - 1)) + 1
      <4> HIDE DEF Low
      <4> QED BY <1>1, <3>1, <3>2, FS_AddElement
    <3>4. Rank(I, m) = Cardinality(Low(m))
      BY DEF Rank
    <3> HIDE DEF Low
    <3>5. ASSUME NEW c \in 1..Cardinality(Low(m)) PROVE \E i \in I : Rank(I, i) = c
      <4>1. CASE c = Cardinality(Low(m))
        BY <2>2, <3>4, <4>1
      <4>2. CASE c # Cardinality(Low(m))
        <5>1. c \in 1..Cardinality(Low(m - 1))
          BY <1>1, <3>2, <3>3, <4>2
        <5> QED BY <1>3, <5>1
      <4> QED BY <4>1, <4>2
    <3> QED BY <3>5
  <2> QED BY <2>1, <2>2
<1>4. n \in S
  <2> HIDE DEF S
  <2> QED BY <1>2, <1>3, Induction
<1>5. Low(n) = I
  BY <1>0
<1> HIDE DEF Low
<1> QED BY <1>4, <1>5

LEMMA KthIs ==
  ASSUME NEW n \in Nat, NEW I \in SUBSET (1..n)
  PROVE  /\ \A k \in 1..Cardinality(I) : Kth(I, k) \in I /\ Rank(I, Kth(I, k)) = k
         /\ \A i \in I : Kth(I, Rank(I, i)) = i
         /\ \A k, l \in 1..Cardinality(I) : k < l => Kth(I, k) < Kth(I, l)
<1>1. \A k \in 1..Cardinality(I) : Kth(I, k) \in I /\ Rank(I, Kth(I, k)) = k
  BY RankOnto DEF Kth
<1>2. \A i, j \in I : i < j => Rank(I, i) < Rank(I, j)
  BY RankGrows
<1>3. \A i \in I : Rank(I, i) \in 1..Cardinality(I)
  BY RankTypes
<1>4. Cardinality(I) \in Nat
  BY Finite
<1>5. ASSUME NEW i \in I PROVE Kth(I, Rank(I, i)) = i
  <2> DEFINE j == Kth(I, Rank(I, i))
  <2>1. j \in I /\ Rank(I, j) = Rank(I, i)
    BY <1>1, <1>3
  <2> HIDE DEF j
  <2>2. Rank(I, i) \in Int
    BY <1>3
  <2>3. ~(i < j) /\ ~(j < i)
    BY <1>2, <2>1, <2>2
  <2>4. i = j
    BY <2>1, <2>3
  <2> QED BY <2>4 DEF j
<1>6. ASSUME NEW k \in 1..Cardinality(I), NEW l \in 1..Cardinality(I), k < l
      PROVE  Kth(I, k) < Kth(I, l)
  <2> DEFINE a == Kth(I, k)
             b == Kth(I, l)
  <2>1. a \in I /\ b \in I /\ Rank(I, a) = k /\ Rank(I, b) = l
    BY <1>1
  <2> HIDE DEF a, b
  <2>2. ~(b < a) /\ a # b
    BY <1>2, <1>6, <2>1
  <2>3. a < b
    BY <2>1, <2>2
  <2> QED BY <2>3 DEF a, b
<1> QED BY <1>1, <1>5, <1>6

(* Picking places of a sequence: the entries there, no others, in order.   *)
LEMMA PickIs ==
  ASSUME NEW S, NEW s \in Seq(S), NEW I \in SUBSET (DOMAIN s)
  PROVE  /\ Pick(s, I) \in Seq(S) /\ Len(Pick(s, I)) <= Len(s)
         /\ Len(Pick(s, I)) = Cardinality(I)
         /\ \A k \in DOMAIN Pick(s, I) : Kth(I, k) \in I /\ Pick(s, I)[k] = s[Kth(I, k)]
         /\ \A i \in I : Rank(I, i) \in DOMAIN Pick(s, I) /\ Pick(s, I)[Rank(I, i)] = s[i]
<1>1. Len(s) \in Nat /\ I \in SUBSET (1..Len(s)) /\ \A i \in I : s[i] \in S
  OBVIOUS
<1>2. Cardinality(I) \in 0..Len(s)
  BY <1>1, Finite
<1>3. /\ \A k \in 1..Cardinality(I) : Kth(I, k) \in I
      /\ \A i \in I : Kth(I, Rank(I, i)) = i
  BY <1>1, KthIs
<1>4. \A i \in I : Rank(I, i) \in 1..Cardinality(I)
  BY <1>1, RankTypes
<1>5. Pick(s, I) \in [1..Cardinality(I) -> S]
  BY <1>1, <1>3 DEF Pick
<1>6. Pick(s, I) \in Seq(S) /\ Len(Pick(s, I)) = Cardinality(I) /\ DOMAIN Pick(s, I) = 1..Cardinality(I)
  BY <1>2, <1>5
<1> QED BY <1>1, <1>2, <1>3, <1>4, <1>6 DEF Pick

(* One entry of a sequence is removed, the others stay.                    *)
LEMMA RemoveAtIs ==
  ASSUME NEW S, NEW s \in Seq(S), NEW k \in DOMAIN s
  PROVE  /\ RemoveAt(s, k) \in Seq(S) /\ Len(RemoveAt(s, k)) = Len(s) - 1
         /\ \A i \in DOMAIN s \ {k} : \E j \in DOMAIN RemoveAt(s, k) : RemoveAt(s, k)[j] = s[i]
<1> DEFINE a == SubSeq(s, 1, k - 1)
           b == SubSeq(s, k + 1, Len(s))
<1>1. k \in 1..Len(s) /\ Len(s) \in Nat
  OBVIOUS
<1>2. a \in Seq(S) /\ Len(a) = k - 1 /\ \A i \in 1..(k - 1) : a[i] = s[i]
  BY <1>1
<1>3. b \in Seq(S) /\ Len(b) = Len(s) - k /\ \A i \in 1..(Len(s) - k) : b[i] = s[k + i]
  BY <1>1
<1>4. RemoveAt(s, k) = a \o b
  BY DEF RemoveAt
<1> HIDE DEF a, b
<1>5. a \o b \in Seq(S) /\ Len(a \o b) = Len(s) - 1 /\ DOMAIN (a \o b) = 1..(Len(s) - 1)
  BY <1>1, <1>2, <1>3
<1>6. ASSUME NEW i \in DOMAIN s \ {k} PROVE \E j \in DOMAIN (a \o b) : (a \o b)[j] = s[i]
  <2>1. CASE i < k
    <3>1. i \in 1..(k - 1) /\ i \in 1..(Len(s) - 1)
      BY <1>1, <2>1
    <3>2. (a \o b)[i] = a[i]
      BY <1>2, <1>3, <3>1
    <3> QED BY <1>2, <1>5, <3>1, <3>2
  <2>2. CASE i > k
    <3>1. i - 1 \in 1..(Len(s) - 1) /\ i - k \in 1..(Len(s) - k)
      BY <1>1, <2>2
    <3>2. (a \o b)[i - 1] = b[i - k]
      <4>1. \A n \in 1..(Len(a) + Len(b)) : n > Len(a) => (a \o b)[n] = b[n - Len(a)]
        <5>1. a \in Seq(S) /\ b \in Seq(S)
          BY <1>2, <1>3
        <5> QED BY <5>1
      <4>2. i - 1 \in 1..(Len(a) + Len(b)) /\ i - 1 > Len(a) /\ (i - 1) - Len(a) = i - k
        BY <1>1, <1>2, <1>3, <2>2
      <4> QED BY <4>1, <4>2
    <3>3. b[i - k] = s[i]
      BY <1>1, <1>3, <3>1
    <3> QED BY <1>5, <3>1, <3>2, <3>3
  <2> QED BY <1>1, <2>1, <2>2
<1> QED BY <1>4, <1>5, <1>6
-----------------------------------------------------------------------------
(* A finite set as a sequence: every element once.                         *)
LEMMA SetToSeqIs ==
  ASSUME NEW S, IsFiniteSet(S)
  PROVE  /\ SetToSeq(S) \in [1..Cardinality(S) -> S] /\ IsInjective(SetToSeq(S))
         /\ Cardinality(S) \in Nat /\ Len(SetToSeq(S)) = Cardinality(S)
         /\ \A x \in S : \E i \in 1..Cardinality(S) : SetToSeq(S)[i] = x
<1>1. Cardinality(S) \in Nat /\ ExistsBijection(1..Cardinality(S), S)
  BY FS_CardinalityType
<1>2. PICK f \in Bijection(1..Cardinality(S), S) : TRUE
  BY <1>1 DEF ExistsBijection
<1>3. f \in [1..Cardinality(S) -> S] /\ IsInjective(f)
  BY <1>2 DEF Bijection, Injection, IsInjective
<1>4. SetToSeq(S) \in [1..Cardinality(S) -> S] /\ IsInjective(SetToSeq(S))
  BY <1>3 DEF SetToSeq
<1> DEFINE t == SetToSeq(S)
<1>5. t \in Injection(1..Cardinality(S), S)
  BY <1>4 DEF Injection, IsInjective
<1>6. Cardinality(1..Cardinality(S)) = Cardinality(S)
  BY <1>1, FS_Interval
<1>7. t \in Surjection(1..Cardinality(S), S)
  <2> HIDE DEF t
  <2> QED BY <1>5, <1>6, FS_Injection
<1>8. \A x \in S : \E i \in 1..Cardinality(S) : t[i] = x
  <2> HIDE DEF t
  <2> QED BY <1>7 DEF Surjection
<1>9. Len(t) = Cardinality(S)
  BY <1>1, <1>4
<1> QED BY <1>1, <1>4, <1>8, <1>9
=============================================================================
