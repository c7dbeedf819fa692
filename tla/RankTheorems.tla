----------------------------- MODULE RankTheorems -----------------------------
(***************************************************************************)
(* What the orders of Ranks are, for any finite set and any strict order   *)
(* on it: each member once, from the least on; what a selection from a     *)
(* sequence holds; and what a loop that is written as a function computes, *)
(* by a set of the naturals in place of an induction.                      *)
(***************************************************************************)
EXTENDS TLAPS, WellFoundedInduction, FiniteSetTheorems, SequenceTheorems, Ranks

StrictOrder(S, R) ==
  /\ \A a \in S : <<a, a>> \notin R
  /\ \A a, b, c \in S : <<a, b>> \in R /\ <<b, c>> \in R => <<a, c>> \in R
  /\ \A a, b \in S : a # b => <<a, b>> \in R \/ <<b, a>> \in R

\* The rank of a member is less than that of one that comes later.
LEMMA RanksRise ==
  ASSUME NEW S, NEW R, IsFiniteSet(S), StrictOrder(S, R), NEW a \in S
  PROVE  /\ Cardinality(Below(S, R, a)) \in 0..(Cardinality(S) - 1)
         /\ \A b \in S : <<a, b>> \in R =>
              Cardinality(Below(S, R, a)) < Cardinality(Below(S, R, b))
<1>1. ASSUME NEW b \in S
      PROVE  IsFiniteSet(Below(S, R, b)) /\ Cardinality(Below(S, R, b)) \in Nat
  <2>1. Below(S, R, b) \in SUBSET S
    BY DEF Below
  <2>2. QED
    BY <2>1, FS_Subset, FS_CardinalityType
<1>2. Cardinality(Below(S, R, a)) <= Cardinality(S) - 1
  <2>1. Below(S, R, a) \in SUBSET (S \ {a})
    BY DEF Below, StrictOrder
  <2>2. IsFiniteSet(S \ {a}) /\ Cardinality(S \ {a}) = Cardinality(S) - 1
    BY FS_RemoveElement
  <2>3. QED
    BY <2>1, <2>2, FS_Subset
<1>3. ASSUME NEW b \in S, <<a, b>> \in R
      PROVE  Cardinality(Below(S, R, a)) < Cardinality(Below(S, R, b))
  <2>1. Below(S, R, a) \in SUBSET Below(S, R, b)
    BY <1>3 DEF Below, StrictOrder
  <2>2. a \in Below(S, R, b) /\ a \notin Below(S, R, a)
    BY <1>3 DEF Below, StrictOrder
  <2>3. /\ Cardinality(Below(S, R, a)) <= Cardinality(Below(S, R, b))
        /\ Cardinality(Below(S, R, a)) # Cardinality(Below(S, R, b))
    BY <1>1, <2>1, <2>2, FS_Subset
  <2>4. QED
    BY <1>1, <2>3
<1>4. Cardinality(S) \in Nat
  BY FS_CardinalityType
<1>5. QED
  BY <1>1, <1>2, <1>3, <1>4

\* A ranking names each member of the set once, in order.
LEMMA RankedEnumerates ==
  ASSUME NEW S, NEW R, IsFiniteSet(S), StrictOrder(S, R)
  PROVE  /\ Ranked(S, R) \in [1..Cardinality(S) -> S]
         /\ \A a \in S : \E k \in 1..Cardinality(S) : Ranked(S, R)[k] = a
         /\ \A j, k \in 1..Cardinality(S) : j < k => <<Ranked(S, R)[j], Ranked(S, R)[k]>> \in R
<1> DEFINE n == Cardinality(S)
           rank == [a \in S |-> Cardinality(Below(S, R, a)) + 1]
<1>1. n \in Nat
  BY FS_CardinalityType
<1>2. rank \in [S -> 1..n] /\ \A a \in S : rank[a] = Cardinality(Below(S, R, a)) + 1
  <2>1. \A a \in S : Cardinality(Below(S, R, a)) \in 0..(n - 1)
    BY RanksRise
  <2>2. QED
    BY <1>1, <2>1
<1>3. \A a, b \in S : <<a, b>> \in R => rank[a] < rank[b]
  <2> SUFFICES ASSUME NEW a \in S, NEW b \in S, <<a, b>> \in R PROVE rank[a] < rank[b]
    OBVIOUS
  <2>1. Cardinality(Below(S, R, a)) < Cardinality(Below(S, R, b))
    BY RanksRise
  <2>2. Cardinality(Below(S, R, a)) \in 0..(n - 1) /\ Cardinality(Below(S, R, b)) \in 0..(n - 1)
    BY RanksRise
  <2>3. QED
    BY <1>1, <1>2, <2>1, <2>2
<1>4. \A a, b \in S : a # b => rank[a] # rank[b]
  <2> SUFFICES ASSUME NEW a \in S, NEW b \in S, a # b PROVE rank[a] # rank[b]
    OBVIOUS
  <2>1. rank[a] \in 1..n /\ rank[b] \in 1..n
    BY <1>2
  <2>2. <<a, b>> \in R \/ <<b, a>> \in R
    BY DEF StrictOrder
  <2> HIDE DEF rank, n
  <2>3. rank[a] < rank[b] \/ rank[b] < rank[a]
    BY <1>3, <2>2
  <2>4. QED
    BY <1>1, <2>1, <2>3
<1> HIDE DEF rank
<1>5. rank \in Surjection(S, 1..n)
  <2>1. rank \in Injection(S, 1..n)
    BY <1>2, <1>4 DEF Injection, IsInjective
  <2>2. IsFiniteSet(1..n) /\ Cardinality(1..n) = n
    BY <1>1, FS_Interval
  <2>3. QED
    BY <2>1, <2>2, FS_Injection
<1>6. ASSUME NEW k \in 1..n
      PROVE  Ranked(S, R)[k] \in S /\ rank[Ranked(S, R)[k]] = k
  <2>1. PICK a \in S : rank[a] = k
    BY <1>5 DEF Surjection
  <2>2. Cardinality(Below(S, R, a)) = k - 1
    <3>1. Cardinality(Below(S, R, a)) \in 0..(n - 1)
      BY RanksRise
    <3>2. QED
      BY <1>1, <1>2, <2>1, <3>1
  <2>3. Ranked(S, R)[k] = CHOOSE c \in S : Cardinality(Below(S, R, c)) = k - 1
    BY DEF Ranked
  <2>4. Ranked(S, R)[k] \in S /\ Cardinality(Below(S, R, Ranked(S, R)[k])) = k - 1
    BY <2>2, <2>3
  <2>5. QED
    BY <1>1, <1>2, <2>4
<1>7. Ranked(S, R) \in [1..n -> S]
  BY <1>6 DEF Ranked
<1>8. ASSUME NEW a \in S PROVE \E k \in 1..n : Ranked(S, R)[k] = a
  <2>1. rank[a] \in 1..n
    BY <1>2
  <2>2. Ranked(S, R)[rank[a]] \in S /\ rank[Ranked(S, R)[rank[a]]] = rank[a]
    BY <1>6, <2>1
  <2>3. QED
    BY <1>4, <2>1, <2>2
<1>9. ASSUME NEW j \in 1..n, NEW k \in 1..n, j < k
      PROVE  <<Ranked(S, R)[j], Ranked(S, R)[k]>> \in R
  <2>1. /\ Ranked(S, R)[j] \in S /\ rank[Ranked(S, R)[j]] = j
        /\ Ranked(S, R)[k] \in S /\ rank[Ranked(S, R)[k]] = k
    BY <1>6
  <2>2. Ranked(S, R)[j] # Ranked(S, R)[k]
    BY <1>1, <1>9, <2>1
  <2>3. ~ (<<Ranked(S, R)[k], Ranked(S, R)[j]>> \in R)
    BY <1>1, <1>3, <1>9, <2>1
  <2>4. QED
    BY <2>1, <2>2, <2>3 DEF StrictOrder
<1>10. QED
  BY <1>7, <1>8, <1>9

\* The order of the positions of a sequence is strict.
LEMMA EarlierIsStrict ==
  ASSUME NEW n \in Nat, NEW I \in SUBSET (1..n)
  PROVE  StrictOrder(I, Earlier(n))
<1>1. \A a, b \in I : <<a, b>> \in Earlier(n) <=> a < b
  BY DEF Earlier
<1>2. \A a \in I : a \in Nat
  OBVIOUS
<1>3. QED
  BY <1>1, <1>2 DEF StrictOrder

\* The positions a selection takes, in their order.
PlacesOf(s, I) == Ranked(I, Earlier(Len(s)))

\* What a selection holds: the elements at the positions, each once, in their order.
LEMMA SelectedAt ==
  ASSUME NEW T, NEW s \in Seq(T), NEW I \in SUBSET (1..Len(s))
  PROVE  /\ Cardinality(I) \in Nat /\ IsFiniteSet(I)
         /\ Selected(s, I) \in Seq(T) /\ Len(Selected(s, I)) = Cardinality(I)
         /\ PlacesOf(s, I) \in [1..Cardinality(I) -> I]
         /\ Selected(s, I) = [k \in 1..Cardinality(I) |-> s[PlacesOf(s, I)[k]]]
         /\ \A k \in 1..Cardinality(I) : Selected(s, I)[k] = s[PlacesOf(s, I)[k]]
         /\ \A i \in I : \E k \in 1..Cardinality(I) : PlacesOf(s, I)[k] = i
         /\ \A j, k \in 1..Cardinality(I) : j < k => PlacesOf(s, I)[j] < PlacesOf(s, I)[k]
<1> DEFINE n == Cardinality(I)
<1>1. Len(s) \in Nat /\ \A i \in 1..Len(s) : s[i] \in T
  BY LenProperties, ElementOfSeq
<1>2. IsFiniteSet(I) /\ n \in Nat
  <2>1. IsFiniteSet(1..Len(s))
    BY <1>1, FS_Interval
  <2>2. QED
    BY <2>1, FS_Subset, FS_CardinalityType
<1>3. StrictOrder(I, Earlier(Len(s)))
  BY <1>1, EarlierIsStrict
<1>4. /\ PlacesOf(s, I) \in [1..n -> I]
      /\ \A i \in I : \E k \in 1..n : PlacesOf(s, I)[k] = i
      /\ \A j, k \in 1..n : j < k => <<PlacesOf(s, I)[j], PlacesOf(s, I)[k]>> \in Earlier(Len(s))
  BY <1>2, <1>3, RankedEnumerates DEF PlacesOf
<1>5. Selected(s, I) = [k \in 1..n |-> s[PlacesOf(s, I)[k]]]
  BY DEF Selected, PlacesOf
<1> HIDE DEF n
<1>6. \A j, k \in 1..n : j < k => PlacesOf(s, I)[j] < PlacesOf(s, I)[k]
  BY <1>4 DEF Earlier
<1>7. \A k \in 1..n : s[PlacesOf(s, I)[k]] \in T
  BY <1>1, <1>4
<1>8. Selected(s, I) \in Seq(T) /\ Len(Selected(s, I)) = n
  BY <1>2, <1>5, <1>7, IsASeq
<1>9. QED
  BY <1>2, <1>4, <1>5, <1>6, <1>8 DEF n

\* Of a sequence that names each element once a selection does so too; it holds the
\* elements at the selected positions, and these only.
LEMMA SelectedOnce ==
  ASSUME NEW T, NEW s \in Seq(T), NEW I \in SUBSET (1..Len(s)),
         \A i, j \in 1..Len(s) : i # j => s[i] # s[j]
  PROVE  /\ Selected(s, I) \in Seq(T) /\ Len(Selected(s, I)) \in Nat
         /\ \A i, j \in 1..Len(Selected(s, I)) : i # j => Selected(s, I)[i] # Selected(s, I)[j]
         /\ \A i \in I : \E k \in 1..Len(Selected(s, I)) : Selected(s, I)[k] = s[i]
         /\ \A k \in 1..Len(Selected(s, I)) : \E i \in I : Selected(s, I)[k] = s[i]
<1> DEFINE n == Cardinality(I)
           r == Selected(s, I)
           at == PlacesOf(s, I)
<1>1. /\ n \in Nat /\ r \in Seq(T) /\ Len(r) = n /\ at \in [1..n -> I]
      /\ \A k \in 1..n : r[k] = s[at[k]]
      /\ \A i \in I : \E k \in 1..n : at[k] = i
      /\ \A j, k \in 1..n : j < k => at[j] < at[k]
  BY SelectedAt
<1>2. Len(s) \in Nat
  BY LenProperties
<1> HIDE DEF n, r, at
<1>3. ASSUME NEW j \in 1..n, NEW k \in 1..n, j # k
      PROVE  r[j] # r[k]
  <2>1. at[j] \in 1..Len(s) /\ at[k] \in 1..Len(s)
    BY <1>1
  <2>2. j < k \/ k < j
    BY <1>1, <1>3
  <2>3. at[j] < at[k] \/ at[k] < at[j]
    BY <1>1, <2>2
  <2>4. at[j] # at[k]
    BY <1>2, <2>1, <2>3
  <2>5. QED
    BY <1>1, <2>1, <2>4
<1>4. \A i \in I : \E k \in 1..n : r[k] = s[i]
  BY <1>1
<1>5. \A k \in 1..n : \E i \in I : r[k] = s[i]
  BY <1>1
<1>6. QED
  BY <1>1, <1>3, <1>4, <1>5 DEF r

\* At all positions a selection is the sequence itself.
LEMMA SelectedAll ==
  ASSUME NEW T, NEW s \in Seq(T)
  PROVE  Selected(s, 1..Len(s)) = s
<1> DEFINE n == Len(s)
<1>1. n \in Nat
  BY LenProperties
<1>2. s \in [1..n -> T]
  BY LenProperties
<1> HIDE DEF n
<1>3. ASSUME NEW a \in 1..n
      PROVE  Cardinality(Below(1..n, Earlier(n), a)) = a - 1
  <2>1. Below(1..n, Earlier(n), a) = 1..(a - 1)
    BY <1>1 DEF Below, Earlier
  <2>2. a - 1 \in Nat
    BY <1>1
  <2>3. QED
    BY <2>1, <2>2, FS_Interval
<1>4. ASSUME NEW k \in 1..n
      PROVE  (CHOOSE a \in 1..n : Cardinality(Below(1..n, Earlier(n), a)) = k - 1) = k
  <2>1. \A a \in 1..n : Cardinality(Below(1..n, Earlier(n), a)) = k - 1 => a = k
    BY <1>1, <1>3
  <2>2. Cardinality(Below(1..n, Earlier(n), k)) = k - 1
    BY <1>3
  <2>3. QED
    BY <2>1, <2>2
<1>5. Cardinality(1..n) = n
  BY <1>1, FS_Interval
<1>6. Selected(s, 1..n) = [k \in 1..n |-> s[k]]
  <2>1. \A k \in 1..n : Ranked(1..n, Earlier(n))[k] = k
    BY <1>4, <1>5 DEF Ranked
  <2>2. Selected(s, 1..n) = [k \in 1..n |-> s[Ranked(1..n, Earlier(n))[k]]]
    BY <1>5 DEF Selected, n
  <2>3. QED
    BY <2>1, <2>2
<1>7. QED
  BY <1>2, <1>6 DEF n

\* A set of natural numbers has a least member.
LEMMA LeastNatural ==
  ASSUME NEW T, T \subseteq Nat, T # {}
  PROVE  \E m \in T : \A k \in T : m <= k
<1> DEFINE R == OpToRel(<, Nat)
<1>1. IsWellFoundedOn(R, Nat)
  BY NatLessThanWellFounded
<1>2. \A x, y \in Nat : x < y => <<x, y>> \in R
  BY DEF OpToRel
<1> HIDE DEF R
<1>3. PICK m \in T : \A k \in T : ~ (<<k, m>> \in R)
  BY <1>1, WFMin, Zenon
<1>4. ASSUME NEW k \in T PROVE m <= k
  <2>1. m \in Nat /\ k \in Nat
    OBVIOUS
  <2>2. ~(k < m)
    BY <1>2, <1>3, <2>1, Zenon
  <2>3. QED
    BY <2>1, <2>2
<1>5. QED
  BY <1>4, Zenon

\* What holds of 0, and of each number up to n after one of which it holds, holds up to n.
LEMMA InductionUpTo ==
  ASSUME NEW n \in Nat, NEW T, 0 \in T, \A k \in 1..n : k - 1 \in T => k \in T
  PROVE  \A k \in 0..n : k \in T
<1> DEFINE U == {k \in 0..n : k \notin T}
<1> SUFFICES ASSUME U # {} PROVE FALSE
  OBVIOUS
<1>1. U \subseteq Nat
  OBVIOUS
<1>2. PICK m \in U : \A k \in U : m <= k
  <2> HIDE DEF U
  <2>1. QED
    BY <1>1, LeastNatural
<1>3. m \in 1..n
  BY <1>2
<1>4. m - 1 \in 0..n /\ ~(m <= m - 1)
  BY <1>3
<1>5. m - 1 \in T
  BY <1>2, <1>4
<1>6. QED
  BY <1>2, <1>3, <1>5

\* A loop has a value after each of its passes.
LEMMA Iterates ==
  ASSUME NEW D, NEW p \in D, NEW n \in Nat, NEW step \in [1..n -> [D -> D]]
  PROVE  \E g \in [0..n -> D] : g[0] = p /\ \A k \in 1..n : g[k] = step[k][g[k - 1]]
<1> DEFINE Run(m, g) == g[0] = p /\ \A k \in 1..m : g[k] = step[k][g[k - 1]]
           T == {m \in 0..n : \E g \in [0..m -> D] : Run(m, g)}
<1>1. 0 \in T
  <2> DEFINE h == [k \in 0..0 |-> p]
  <2>1. h \in [0..0 -> D] /\ h[0] = p /\ 1..0 = {} /\ 0 \in 0..n
    OBVIOUS
  <2> HIDE DEF h
  <2>2. Run(0, h)
    BY <2>1
  <2>3. QED
    BY <2>1, <2>2
<1>2. ASSUME NEW m \in 1..n, m - 1 \in T PROVE m \in T
  <2>1. PICK g \in [0..(m - 1) -> D] : Run(m - 1, g)
    BY <1>2
  <2> DEFINE h == [k \in 0..m |-> IF k = m THEN step[m][g[m - 1]] ELSE g[k]]
  <2>2. m - 1 \in 0..(m - 1) /\ m \in 0..n
    OBVIOUS
  <2>3. step[m][g[m - 1]] \in D
    BY <2>2
  <2>4. h \in [0..m -> D]
    BY <2>3
  <2>5. h[m] = step[m][h[m - 1]]
    BY <2>2
  <2>6. \A k \in 1..(m - 1) : h[k] = step[k][h[k - 1]]
    BY <2>1
  <2>7. h[0] = p
    BY <2>1
  <2> HIDE DEF h
  <2>8. Run(m, h)
    BY <2>5, <2>6, <2>7
  <2>9. QED
    BY <2>2, <2>4, <2>8
<1>3. n \in T
  <2> HIDE DEF T
  <2>1. \A k \in 1..n : k - 1 \in T => k \in T
    BY <1>2
  <2>2. \A k \in 0..n : k \in T
    BY <1>1, <2>1, InductionUpTo
  <2>3. QED
    BY <2>2
<1>4. QED
  BY <1>3
===============================================================================
