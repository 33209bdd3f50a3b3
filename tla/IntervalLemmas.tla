--------------------------- MODULE IntervalLemmas ---------------------------
(* The least and the greatest number of a set: what the searches for the     *)
(* first frame, the first free block and the last node of a name return.     *)
EXTENDS Integers, FiniteSetsExt, FiniteSetTheorems, WellFoundedInduction, TLAPS

\* A set of numbers up to n has a least one: the intervals that its elements
\* end are ordered by inclusion, which is well founded.
LEMMA LeastExists ==
  ASSUME NEW n \in Nat, NEW S \in SUBSET (0 .. n), S # {}
  PROVE  Min(S) \in S /\ \A k \in S : Min(S) <= k
  <1>. DEFINE U == 0 .. n
              T == {0 .. k : k \in S}
  <1>1. IsFiniteSet(U)
    BY FS_Interval
  <1>2. IsWellFoundedOn(StrictSubsetOrdering(U), SUBSET U)
    BY <1>1, FS_FiniteSubsetsOfFinite, FS_StrictSubsetOrderingWellFounded
  <1>3. T \subseteq SUBSET U /\ T # {}
    <2>1. ASSUME NEW k \in U
          PROVE  0 .. k \in SUBSET U
      OBVIOUS
    <2>2. \A k \in S : 0 .. k \in SUBSET U
      BY <2>1
    <2>. QED  BY <2>2
  <1>4. PICK X \in T : \A Y \in T : ~ (<<Y, X>> \in StrictSubsetOrdering(U))
    <2>. HIDE DEF T, U
    <2>. QED  BY <1>2, <1>3, WFMin
  <1>5. PICK m \in S : X = 0 .. m
    OBVIOUS
  <1>6. ASSUME NEW k \in S
        PROVE  m <= k
    <2>1. m \in Nat /\ k \in Nat
      OBVIOUS
    <2>2. ASSUME k < m
          PROVE  FALSE
      <3>1. 0 .. k \in T /\ 0 .. m \in T
        OBVIOUS
      <3>2. 0 .. k \in SUBSET U /\ 0 .. m \in SUBSET U
        BY <3>1, <1>3
      <3>3. 0 .. k \subseteq 0 .. m /\ m \in 0 .. m /\ m \notin 0 .. k
        BY <2>1, <2>2
      <3>4. <<0 .. k, 0 .. m>> \in StrictSubsetOrdering(U)
        BY <3>2, <3>3 DEF StrictSubsetOrdering
      <3>. QED  BY <1>4, <1>5, <3>1, <3>4
    <2>. QED  BY <2>1, <2>2
  <1>. QED  BY <1>6 DEF Min

\* The greatest number, by counting from n down.
LEMMA GreatestExists ==
  ASSUME NEW n \in Nat, NEW S \in SUBSET (0 .. n), S # {}
  PROVE  Max(S) \in S /\ \A k \in S : k <= Max(S)
  <1>. DEFINE T == {n - k : k \in S}
  <1>1. T \in SUBSET (0 .. n) /\ T # {}
    <2>1. \A k \in S : n - k \in 0 .. n
      OBVIOUS
    <2>2. PICK k \in S : TRUE
      OBVIOUS
    <2>3. n - k \in T
      OBVIOUS
    <2>. QED  BY <2>1, <2>3
  <1>2. Min(T) \in T /\ \A k \in T : Min(T) <= k
    <2>. HIDE DEF T
    <2>. QED  BY <1>1, LeastExists
  <1>3. PICK m \in S : Min(T) = n - m
    BY <1>2
  <1>4. ASSUME NEW k \in S
        PROVE  m >= k
    <2>1. n - m <= n - k
      BY <1>2, <1>3
    <2>. QED  BY <2>1
  <1>. QED  BY <1>4 DEF Max
-----------------------------------------------------------------------------
(* Induction up to a number, over a set, and what it gives of recursion.     *)

\* What holds of 0, and of m when it holds of m - 1, holds up to n: there is
\* no least number that is left out.
LEMMA UpTo ==
  ASSUME NEW n \in Nat, NEW T, 0 \in T, \A m \in 1 .. n : m - 1 \in T => m \in T
  PROVE  0 .. n \subseteq T
  <1>. DEFINE S == (0 .. n) \ T
  <1>. SUFFICES ASSUME S # {} PROVE FALSE
    OBVIOUS
  <1>1. PICK m \in S : \A k \in S : m <= k
    <2>. HIDE DEF S
    <2>1. S \in SUBSET (0 .. n)
      BY DEF S
    <2>. QED  BY <2>1, LeastExists
  <1>2. m \in 1 .. n /\ m - 1 \in 0 .. n /\ ~ (m <= m - 1)
    OBVIOUS
  <1>3. m - 1 \in T
    BY <1>1, <1>2
  <1>. QED  BY <1>2, <1>3

\* A function on X, and the values of its first n applications to x.
Into(F, X) == F \in [X -> X]
Iterates(g, n, x, F, X) ==
    g \in [0 .. n -> X] /\ g[0] = x /\ \A k \in 1 .. n : g[k] = F[g[k - 1]]

\* A function may be applied n times over: the recursive functions that follow
\* a node's parents exist.
LEMMA IterationExists ==
  ASSUME NEW n \in Nat, NEW X, NEW x \in X, NEW F, Into(F, X)
  PROVE  \E g : Iterates(g, n, x, F, X)
  <1>. DEFINE T == {m \in 0 .. n : \E g : Iterates(g, m, x, F, X)}
  <1>1. 0 \in T
    <2>. DEFINE g == [k \in 0 .. 0 |-> x]
    <2>1. g \in [0 .. 0 -> X] /\ g[0] = x /\ \A k \in 1 .. 0 : g[k] = F[g[k - 1]]
      OBVIOUS
    <2>2. Iterates(g, 0, x, F, X)
      <3>. HIDE DEF g
      <3>. QED  BY <2>1 DEF Iterates
    <2>. QED  BY <2>2
  <1>2. ASSUME NEW m \in 1 .. n, m - 1 \in T
        PROVE  m \in T
    <2>. PICK g : Iterates(g, m - 1, x, F, X)
      BY <1>2
    <2>1. /\ g \in [0 .. m - 1 -> X] /\ g[0] = x /\ F \in [X -> X]
          /\ \A k \in 1 .. m - 1 : g[k] = F[g[k - 1]]
      BY DEF Iterates, Into
    <2>. DEFINE h == [k \in 0 .. m |-> IF k < m THEN g[k] ELSE F[g[m - 1]]]
    <2>2. h \in [0 .. m -> X] /\ h[0] = x
      BY <2>1
    <2>3. \A k \in 1 .. m : h[k] = F[h[k - 1]]
      <3>. TAKE k \in 1 .. m
      <3>1. k \in 0 .. m /\ k - 1 \in 0 .. m /\ k - 1 < m
        OBVIOUS
      <3>2. h[k - 1] = g[k - 1]
        BY <3>1
      <3>3. h[k] = IF k < m THEN g[k] ELSE F[g[m - 1]]
        BY <3>1
      <3>. HIDE DEF h
      <3>4. CASE k < m
        BY <2>1, <3>2, <3>3, <3>4
      <3>5. CASE k = m
        BY <3>2, <3>3, <3>5
      <3>. QED  BY <3>4, <3>5
    <2>4. Iterates(h, m, x, F, X)
      <3>. HIDE DEF h
      <3>. QED  BY <2>2, <2>3 DEF Iterates
    <2>. QED  BY <2>4
  <1>3. 0 .. n \subseteq T
    <2>. HIDE DEF T
    <2>. QED  BY <1>1, <1>2, UpTo
  <1>4. n \in T
    <2>. HIDE DEF T
    <2>. QED  BY <1>3
  <1>. QED  BY <1>4
=============================================================================
