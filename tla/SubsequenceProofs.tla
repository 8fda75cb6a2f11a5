--------------------------- MODULE SubsequenceProofs ---------------------------
(***************************************************************************)
(* What Subsequence promises: the entries at the chosen places, in their    *)
(* order.  The library's induction theorems take a predicate, which the     *)
(* provers cannot instantiate; NatInduct says the same of a set.            *)
(***************************************************************************)
EXTENDS Subsequence, FiniteSetTheorems, WellFoundedInduction, TLAPS

LEMMA LeastElement ==
    ASSUME NEW S \in SUBSET Nat, S # {}
    PROVE  \E n \in S : \A m \in S : n <= m
<1> DEFINE R == {p \in Nat \X Nat : p[1] < p[2]}
<1>1. IsWellFoundedOn(R, Nat)
  BY NatLessThanWellFounded, IsWellFoundedOnSubrelation DEF OpToRel
<1>2. \E n \in S : \A m \in S : <<m, n>> \notin R
  <2> HIDE DEF R
  <2> QED BY <1>1, WFMin
<1>3. PICK n \in S : \A m \in S : <<m, n>> \notin R
  BY <1>2
<1>4. \A m \in S : ~(m < n)
  BY <1>3
<1> QED BY <1>4

LEMMA NatInduct ==
    ASSUME NEW S \in SUBSET Nat, 0 \in S, \A n \in S : n + 1 \in S
    PROVE  S = Nat
<1> SUFFICES ASSUME S # Nat PROVE FALSE
  OBVIOUS
<1>1. PICK n \in Nat \ S : \A m \in Nat \ S : n <= m
  BY LeastElement
<1>2. n # 0 /\ n - 1 \in Nat
  OBVIOUS
<1> QED BY <1>1, <1>2

LEMMA UpTo ==
    ASSUME NEW n \in Nat, NEW I \in SUBSET (1 .. n)
    PROVE  /\ IsFiniteSet(I) /\ Cardinality(I) \in Nat
           /\ \A j : LET J == {i \in I : i <= j}
                     IN IsFiniteSet(J) /\ Cardinality(J) \in Nat
<1>1. IsFiniteSet(1 .. n)
  BY FS_Interval
<1> QED BY <1>1, FS_Subset, FS_CardinalityType

LEMMA RankExists ==
    ASSUME NEW n \in Nat, NEW I \in SUBSET (1 .. n), NEW k \in 1 .. Cardinality(I)
    PROVE  \E j \in I : Rank(I, j) = k
<1> DEFINE T == {m \in Nat : \A J \in SUBSET (1 .. m) : \A h \in 1 .. Cardinality(J) :
                    \E j \in J : Rank(J, j) = h}
<1>1. 0 \in T
  <2> SUFFICES ASSUME NEW J \in SUBSET (1 .. 0) PROVE Cardinality(J) = 0
    OBVIOUS
  <2>1. J = {}
    OBVIOUS
  <2> QED BY <2>1, FS_EmptySet
<1>2. ASSUME NEW m \in T PROVE m + 1 \in T
  <2> SUFFICES ASSUME NEW J \in SUBSET (1 .. m + 1), NEW h \in 1 .. Cardinality(J)
               PROVE  \E j \in J : Rank(J, j) = h
    OBVIOUS
  <2>1. CASE m + 1 \notin J
    <3>1. J \in SUBSET (1 .. m)
      BY <2>1
    <3> QED BY <1>2, <3>1
  <2>2. CASE m + 1 \in J
    <3> DEFINE L == J \ {m + 1}
    <3>1. L \in SUBSET (1 .. m) /\ J = L \cup {m + 1}
      BY <2>2
    <3>2. IsFiniteSet(L) /\ Cardinality(L) \in Nat
      BY <3>1, UpTo
    <3>3. Cardinality(J) = Cardinality(L) + 1
      BY <3>1, <3>2, FS_AddElement
    <3>4. CASE h = Cardinality(J)
      <4>1. {i \in J : i <= m + 1} = J
        <5>1. m \in Nat /\ \A i \in J : i \in Int /\ i <= m + 1
          BY <1>2
        <5> QED BY <5>1
      <4> QED BY <2>2, <3>4, <4>1 DEF Rank
    <3>5. CASE h # Cardinality(J)
      <4>1. h \in 1 .. Cardinality(L)
        BY <3>2, <3>3, <3>5
      <4>2. PICK j \in L : Rank(L, j) = h
        BY <1>2, <3>1, <4>1
      <4>3. {i \in J : i <= j} = {i \in L : i <= j}
        BY <3>1
      <4> QED BY <4>2, <4>3 DEF Rank
    <3> QED BY <3>4, <3>5
  <2> QED BY <2>1, <2>2
<1>3. T = Nat
  <2> HIDE DEF T
  <2>1. T \in SUBSET Nat
    BY DEF T
  <2> QED BY <1>1, <1>2, <2>1, NatInduct
<1> QED BY <1>3

LEMMA RankOrder ==
    ASSUME NEW n \in Nat, NEW I \in SUBSET (1 .. n), NEW i \in I, NEW j \in I
    PROVE  /\ Rank(I, i) \in 1 .. Cardinality(I)
           /\ i < j => Rank(I, i) < Rank(I, j)
<1> DEFINE A == {h \in I : h <= i}
           B == {h \in I : h <= j}
<1>1. IsFiniteSet(I) /\ IsFiniteSet(A) /\ IsFiniteSet(B)
  BY UpTo
<1>2. Rank(I, i) <= Cardinality(I) /\ Rank(I, i) \in Nat /\ Rank(I, j) \in Nat
  BY <1>1, FS_Subset, FS_CardinalityType DEF Rank
<1>3. Rank(I, i) # 0
  BY <1>1, FS_EmptySet DEF Rank
<1>4. ASSUME i < j PROVE Rank(I, i) < Rank(I, j)
  <2>1. i \in Int /\ j \in Int /\ \A h \in I : h \in Int
    OBVIOUS
  <2>2. \A h \in I : h <= i => h <= j
    BY <1>4, <2>1
  <2>3. A \in SUBSET B
    BY <2>2
  <2>4. j \in B /\ j \notin A
    BY <1>4, <2>1
  <2>5. Cardinality(A) < Cardinality(B)
    <3> HIDE DEF A, B
    <3>1. Cardinality(A) \in Nat /\ Cardinality(B) \in Nat
      BY <1>1, FS_CardinalityType
    <3>2. Cardinality(A) <= Cardinality(B) /\ Cardinality(B) # Cardinality(A)
      BY <1>1, <2>3, <2>4, FS_Subset
    <3> QED BY <3>1, <3>2
  <2> QED BY <2>5 DEF Rank
<1> QED BY <1>1, <1>2, <1>3, <1>4, FS_CardinalityType

\* at tells where in s, at which of the places I, each entry of r comes from.
Picks(at, r, s, I) ==
    /\ at \in [1 .. Cardinality(I) -> I]
    /\ \A k \in 1 .. Cardinality(I) : r[k] = s[at[k]]
    /\ \A k, l \in 1 .. Cardinality(I) : k < l => at[k] < at[l]
    /\ \A j \in I : \E k \in 1 .. Cardinality(I) : at[k] = j

\* The entries picked are those at the places I, each once, in their order.
THEOREM SubsequenceIs ==
    ASSUME NEW S, NEW s \in Seq(S), NEW I \in SUBSET DOMAIN s
    PROVE  /\ Subsequence(s, I) \in Seq(S)
           /\ Len(Subsequence(s, I)) = Cardinality(I)
           /\ \E at : Picks(at, Subsequence(s, I), s, I)
<1> DEFINE N == 1 .. Cardinality(I)
           at == [k \in N |-> CHOOSE j \in I : Rank(I, j) = k]
<1>1. Len(s) \in Nat /\ I \in SUBSET (1 .. Len(s)) /\ \A j \in I : s[j] \in S
  OBVIOUS
<1>2. Cardinality(I) \in Nat
  BY <1>1, UpTo
<1>3. \A k \in N : at[k] \in I /\ Rank(I, at[k]) = k
  BY <1>1, RankExists
<1>4. Subsequence(s, I) = [k \in N |-> s[at[k]]]
  BY DEF Subsequence
<1>5. Subsequence(s, I) \in [N -> S]
  BY <1>1, <1>3, <1>4
<1>6. Subsequence(s, I) \in Seq(S) /\ Len(Subsequence(s, I)) = Cardinality(I)
  BY <1>2, <1>5
<1>7. ASSUME NEW k \in N, NEW l \in N, k < l PROVE at[k] < at[l]
  <2> HIDE DEF at
  <2>1. at[k] \in 1 .. Len(s) /\ at[l] \in 1 .. Len(s) /\ at[k] \in I /\ at[l] \in I
    BY <1>1, <1>3
  <2>2. ~(at[l] < at[k])
    <3>1. at[l] < at[k] => Rank(I, at[l]) < Rank(I, at[k])
      BY <1>1, <2>1, RankOrder
    <3>2. Rank(I, at[l]) = l /\ Rank(I, at[k]) = k
      BY <1>3
    <3> QED BY <1>7, <3>1, <3>2
  <2>3. at[l] # at[k]
    BY <1>3, <1>7
  <2> QED BY <2>1, <2>2, <2>3
<1>8. ASSUME NEW j \in I PROVE \E k \in N : at[k] = j
  <2> HIDE DEF at
  <2>1. Rank(I, j) \in N
    BY <1>1, RankOrder
  <2>2. at[Rank(I, j)] \in I /\ Rank(I, at[Rank(I, j)]) = Rank(I, j)
    BY <1>3, <2>1
  <2>3. PICK i \in I : i = at[Rank(I, j)] /\ Rank(I, i) = Rank(I, j)
    BY <2>2
  <2>4. Rank(I, i) \in Int /\ i \in Int /\ j \in Int
    BY <1>1, <2>1, <2>3
  <2>5. ~(i < j)
    <3>1. i < j => Rank(I, i) < Rank(I, j)
      BY <1>1, RankOrder
    <3> QED BY <2>3, <2>4, <3>1
  <2>6. ~(j < i)
    <3>1. j < i => Rank(I, j) < Rank(I, i)
      BY <1>1, RankOrder
    <3> QED BY <2>3, <2>4, <3>1
  <2> QED BY <2>1, <2>3, <2>4, <2>5, <2>6
<1>9. at \in [N -> I]
  BY <1>3
<1> QED
  <2> HIDE DEF at
  <2>1. Picks(at, Subsequence(s, I), s, I)
    BY <1>4, <1>7, <1>8, <1>9 DEF Picks
  <2> QED BY <1>6, <2>1
================================================================================
