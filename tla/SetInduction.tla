----------------------------- MODULE SetInduction -----------------------------
(***************************************************************************)
(* Induction and recursion stated with sets and functions instead of       *)
(* operators, for the proof modules: what a fold over a sequence returns,  *)
(* and what a recursive function is.  A set of the numbers a statement     *)
(* holds of takes the place of the statement.                              *)
(***************************************************************************)
EXTENDS Integers, FiniteSets, FiniteSetsExt, TLAPS, WellFoundedInduction,
        FiniteSetTheorems

\* Of a set of finite sets, one has no smaller one in it.
LEMMA LeastSubset ==
  ASSUME NEW S, NEW T, T \subseteq FiniteSubsetsOf(S), T # {}
  PROVE  \E U \in T : \A V \in T : V \subseteq U => V = U
<1>1. PICK U \in T : \A V \in T : ~ (<<V, U>> \in StrictSubsetOrdering(S))
  BY WFMin, FS_StrictSubsetOrderingWellFounded
<1>2. \A V \in T : V \subseteq S
  BY DEF FiniteSubsetsOf
<1> QED BY <1>1, <1>2 DEF StrictSubsetOrdering

\* A set of natural numbers has a least one: of the intervals from 1 to each of
\* them, one has no smaller one.
LEMMA LeastNat ==
  ASSUME NEW T, T \subseteq Nat, T # {}
  PROVE  \E x \in T : \A y \in T : x <= y
<1> DEFINE I == {1..x : x \in T}
<1>1. I \subseteq FiniteSubsetsOf(Nat)
  <2> SUFFICES ASSUME NEW x \in T PROVE 1..x \in FiniteSubsetsOf(Nat)
    OBVIOUS
  <2>1. IsFiniteSet(1..x)
    BY FS_Interval
  <2>2. 1..x \subseteq Nat
    OBVIOUS
  <2> QED BY <2>1, <2>2 DEF FiniteSubsetsOf
<1>2. I # {} /\ \A x \in T : 1..x \in I
  OBVIOUS
<1>3. \A U \in I : \E x \in T : U = 1..x
  OBVIOUS
<1> HIDE DEF I
<1>4. PICK U \in I : \A V \in I : V \subseteq U => V = U
  BY <1>1, <1>2, LeastSubset
<1>5. PICK x \in T : U = 1..x
  BY <1>3
<1>6. SUFFICES ASSUME NEW y \in T, y < x PROVE FALSE
  BY <1>5
<1>7. 1..y \subseteq 1..x
  BY <1>6
<1>8. 1..y = 1..x
  BY <1>2, <1>4, <1>5, <1>7
<1>9. x \in 1..x /\ ~(x \in 1..y)
  BY <1>6
<1> QED BY <1>8, <1>9

\* Induction: a set that has 0, and with each number the next, has them all.
LEMMA SetInduction ==
  ASSUME NEW T, 0 \in T, \A n \in Nat : n \in T => n + 1 \in T
  PROVE  Nat \subseteq T
<1> SUFFICES ASSUME Nat \ T # {} PROVE FALSE
  OBVIOUS
<1>1. PICK x \in Nat \ T : \A y \in Nat \ T : x <= y
  <2>1. Nat \ T \subseteq Nat
    OBVIOUS
  <2> QED BY <2>1, LeastNat
<1>2. x # 0 /\ x - 1 \in Nat
  BY <1>1
<1>3. x - 1 \in T
  BY <1>1, <1>2
<1> QED BY <1>1, <1>2, <1>3

\* The same up to a bound.
LEMMA IntervalInduction ==
  ASSUME NEW N \in Nat, NEW T, 0 \in T,
         \A k \in 1..N : k - 1 \in T => k \in T
  PROVE  0..N \subseteq T
<1> DEFINE U == T \cup {n \in Nat : n > N}
<1>1. 0 \in U
  OBVIOUS
<1>2. ASSUME NEW n \in Nat, n \in U PROVE n + 1 \in U
  <2>1. CASE n >= N
    BY <2>1
  <2>2. CASE n < N
    <3>1. n \in T /\ n + 1 \in 1..N /\ (n + 1) - 1 = n
      BY <1>2, <2>2
    <3> QED BY <3>1
  <2> QED BY <2>1, <2>2
<1> HIDE DEF U
<1>3. Nat \subseteq U
  BY <1>1, <1>2, SetInduction
<1> QED BY <1>3 DEF U

\* A set of positions has a last one, and Max finds it.
LEMMA MaxOfPositions ==
  ASSUME NEW N \in Nat, NEW s \in SUBSET (1..N), s # {}
  PROVE  /\ Max(s) \in s
         /\ \A x \in s : x <= Max(s)
<1> DEFINE T == {N - x : x \in s}
<1>0. \A x \in s : x \in Int /\ 1 <= x /\ x <= N
  <2>1. \A x \in s : x \in 1..N
    OBVIOUS
  <2> QED BY <2>1
<1>1. T \subseteq Nat /\ T # {}
  <2>1. \A x \in s : N - x \in Nat
    BY <1>0
  <2> QED BY <2>1
<1>2. PICK t \in T : \A u \in T : t <= u
  <2> HIDE DEF T
  <2> QED BY <1>1, LeastNat
<1>3. PICK x \in s : t = N - x
  OBVIOUS
<1>4. \A y \in s : N - y \in T
  OBVIOUS
<1>5. \A y \in s : x >= y
  <2> SUFFICES ASSUME NEW y \in s PROVE x >= y
    OBVIOUS
  <2>1. N - x <= N - y
    BY <1>2, <1>3, <1>4
  <2>2. x \in Int /\ y \in Int
    BY <1>0
  <2> QED BY <2>1, <2>2
<1>6. Max(s) \in s /\ \A y \in s : Max(s) >= y
  BY <1>3, <1>5 DEF Max
<1>7. Max(s) \in Int /\ \A y \in s : y \in Int
  BY <1>0, <1>6
<1> QED BY <1>6, <1>7

LEMMA MaxOfInterval ==
  ASSUME NEW k \in Nat, k # 0
  PROVE  /\ Max(1..k) = k
         /\ (1..k) \ {k} = 1..(k - 1)
<1>1. 1..k \in SUBSET (1..k) /\ k \in 1..k
  OBVIOUS
<1>2. Max(1..k) \in 1..k /\ k <= Max(1..k)
  BY <1>1, MaxOfPositions
<1>3. Max(1..k) = k
  BY <1>2
<1>4. ASSUME NEW x PROVE x \in (1..k) \ {k} <=> x \in 1..(k - 1)
  OBVIOUS
<1> QED BY <1>3, <1>4

\* A fold over a finite set from base, which takes the set apart by its last
\* element and applies the step F with it: the recursion that MapThenFoldSet is
\* defined by.  F keeps the values in D.
IsFold(S, last, D, base, F) ==
    /\ IsFiniteSet(S)
    /\ base \in D /\ F \in [D \X S -> D]
    /\ \A s \in SUBSET S : s # {} => last[s] \in s

FoldSolution(h, S, last, D, base, F) ==
    /\ h \in [SUBSET S -> D]
    /\ \A s \in SUBSET S :
          h[s] = IF s = {} THEN base ELSE F[<<h[s \ {last[s]}], last[s]>>]

\* By induction on the size of the sets it is defined on.
LEMMA FoldExists ==
  ASSUME NEW S, NEW last, NEW D, NEW base, NEW F, IsFold(S, last, D, base, F)
  PROVE  \E h : FoldSolution(h, S, last, D, base, F)
<1> USE DEF IsFold
<1> DEFINE Small(n) == {s \in SUBSET S : Cardinality(s) <= n}
           Step(g, s) == IF s = {} THEN base ELSE F[<<g[s \ {last[s]}], last[s]>>]
           Solves(h, n) == /\ h \in [SUBSET S -> D]
                           /\ \A s \in Small(n) : h[s] = Step(h, s)
           N == Cardinality(S)
           T == {n \in 0..N : \E h : Solves(h, n)}
<1>1. /\ N \in Nat
      /\ \A s \in SUBSET S : IsFiniteSet(s) /\ Cardinality(s) \in Nat /\ Cardinality(s) <= N
  BY FS_Subset, FS_CardinalityType
<1>2. \A s \in SUBSET S : s # {} =>
          /\ last[s] \in S /\ s \ {last[s]} \in SUBSET S
          /\ Cardinality(s \ {last[s]}) = Cardinality(s) - 1
  BY <1>1, FS_RemoveElement
<1>3. 0 \in T
  <2> DEFINE h == [s \in SUBSET S |-> base]
  <2>1. \A s \in Small(0) : s = {}
    <3> SUFFICES ASSUME NEW s \in SUBSET S, Cardinality(s) <= 0 PROVE s = {}
      OBVIOUS
    <3>1. Cardinality(s) = 0 /\ IsFiniteSet(s)
      BY <1>1
    <3> QED BY <3>1, FS_EmptySet
  <2>2. h \in [SUBSET S -> D] /\ \A s \in Small(0) : h[s] = Step(h, s)
    BY <2>1
  <2>3. Solves(h, 0)
    BY <2>2
  <2> HIDE DEF h, Solves
  <2> QED BY <1>1, <2>3
<1>4. ASSUME NEW n \in 1..N, n - 1 \in T PROVE n \in T
  <2>1. PICK g : Solves(g, n - 1)
    BY <1>4
  <2> DEFINE h == [s \in SUBSET S |-> Step(g, s)]
  <2>2. h \in [SUBSET S -> D]
    <3> SUFFICES ASSUME NEW s \in SUBSET S, s # {}
                 PROVE  F[<<g[s \ {last[s]}], last[s]>>] \in D
      OBVIOUS
    <3>1. g[s \ {last[s]}] \in D /\ last[s] \in S
      BY <1>2, <2>1
    <3> QED BY <3>1
  <2>3. ASSUME NEW s \in Small(n) PROVE h[s] = Step(h, s)
    <3>1. CASE s = {}
      BY <3>1
    <3>2. CASE s # {}
      <4> DEFINE r == s \ {last[s]}
      <4>1. r \in SUBSET S /\ Cardinality(r) = Cardinality(s) - 1 /\ s \in SUBSET S
        BY <1>2, <3>2
      <4>2. Cardinality(r) <= n - 1
        <5>1. Cardinality(s) <= n /\ Cardinality(s) \in Nat
          BY <1>1
        <5> QED BY <4>1, <5>1
      <4>3. r \in Small(n - 1)
        BY <4>1, <4>2
      <4>4. g[r] = Step(g, r)
        BY <2>1, <4>3
      <4>5. h[r] = Step(g, r) /\ h[s] = Step(g, s)
        BY <4>1
      <4> HIDE DEF h
      <4> QED BY <3>2, <4>4, <4>5
    <3> QED BY <3>1, <3>2
  <2>4. Solves(h, n)
    BY <2>2, <2>3
  <2> HIDE DEF h, Solves
  <2> QED BY <1>1, <2>4
<1>5. N \in T
  <2> HIDE DEF T, N
  <2>1. N \in 0..N
    BY <1>1
  <2> QED BY <1>1, <1>3, <1>4, <2>1, IntervalInduction
<1>6. PICK h : Solves(h, N)
  BY <1>5
<1>7. \A s \in SUBSET S : s \in Small(N)
  BY <1>1
<1>8. FoldSolution(h, S, last, D, base, F)
  BY <1>6, <1>7 DEF FoldSolution
<1> QED BY <1>8

\* Induction over such a fold: what holds of the empty set, and of a set when it
\* holds of the set without its last element, holds of all.
LEMMA FoldInduction ==
  ASSUME NEW S, NEW last, NEW T, IsFiniteSet(S),
         \A s \in SUBSET S : s # {} => last[s] \in s,
         {} \in T,
         \A s \in SUBSET S : s # {} /\ s \ {last[s]} \in T => s \in T
  PROVE  SUBSET S \subseteq T
<1> DEFINE W == {s \in SUBSET S : s \notin T}
<1> SUFFICES ASSUME W # {} PROVE FALSE
  BY DEF W
<1>1. W \subseteq FiniteSubsetsOf(S)
  BY FS_Subset DEF FiniteSubsetsOf
<1>2. PICK s \in W : \A r \in W : r \subseteq s => r = s
  <2> HIDE DEF W
  <2> QED BY <1>1, LeastSubset
<1>3. s # {} /\ last[s] \in s
  OBVIOUS
<1>4. s \ {last[s]} \in W
  BY <1>3
<1> QED BY <1>2, <1>3, <1>4

-----------------------------------------------------------------------------
(* Folds over the positions of a sequence, and recursion over numbers.     *)

LastPosition(N) == [s \in SUBSET (1..N) |-> Max(s)]

LEMMA PositionsFold ==
  ASSUME NEW N \in Nat
  PROVE  /\ IsFiniteSet(1..N)
         /\ \A s \in SUBSET (1..N) : s # {} => LastPosition(N)[s] \in s
         /\ \A s \in SUBSET (1..N) : LastPosition(N)[s] = Max(s)
<1>1. IsFiniteSet(1..N)
  BY FS_Interval
<1>2. \A s \in SUBSET (1..N) : LastPosition(N)[s] = Max(s)
  BY DEF LastPosition
<1>3. \A s \in SUBSET (1..N) : s # {} => Max(s) \in s
  BY MaxOfPositions
<1> QED BY <1>1, <1>2, <1>3

\* The fold over the first k positions: its k-th value.
LEMMA FoldPrefixes ==
  ASSUME NEW N, NEW D, NEW base, NEW F, NEW h, N \in Nat,
         FoldSolution(h, 1..N, LastPosition(N), D, base, F)
  PROVE  /\ h[1..0] = base
         /\ \A k \in 1..N : h[1..k] = F[<<h[1..(k - 1)], k>>]
<1>1. 1..0 = {} /\ 1..0 \in SUBSET (1..N)
  OBVIOUS
<1>2. ASSUME NEW k \in 1..N PROVE h[1..k] = F[<<h[1..(k - 1)], k>>]
  <2>1. k \in Nat /\ k # 0 /\ k <= N
    OBVIOUS
  <2>2. 1..k \in SUBSET (1..N) /\ 1..k # {}
    BY <2>1
  <2>3. LastPosition(N)[1..k] = k /\ (1..k) \ {k} = 1..(k - 1)
    BY <2>1, <2>2, MaxOfInterval DEF LastPosition
  <2> QED BY <2>2, <2>3 DEF FoldSolution
<1> QED BY <1>1, <1>2 DEF FoldSolution

Recursion(f, N, D, base, F) ==
    /\ f \in [0..N -> D]
    /\ f[0] = base
    /\ \A k \in 1..N : f[k] = F[<<f[k - 1], k>>]

\* A function defined by recursion over 0..N has a value everywhere.
LEMMA RecursionExists ==
  ASSUME NEW N, NEW D, NEW base, NEW F, N \in Nat, base \in D, F \in [D \X (1..N) -> D]
  PROVE  \E f : Recursion(f, N, D, base, F)
<1>0. IsFold(1..N, LastPosition(N), D, base, F)
  BY PositionsFold DEF IsFold
<1>1. PICK h : FoldSolution(h, 1..N, LastPosition(N), D, base, F)
  BY <1>0, FoldExists
<1> DEFINE f == [k \in 0..N |-> h[1..k]]
<1>2. h[1..0] = base /\ \A k \in 1..N : h[1..k] = F[<<h[1..(k - 1)], k>>]
  BY <1>1, FoldPrefixes
<1>3. \A k \in 0..N : h[1..k] \in D
  <2>1. \A k \in 0..N : 1..k \in SUBSET (1..N)
    OBVIOUS
  <2> QED BY <1>1, <2>1 DEF FoldSolution
<1>4. f \in [0..N -> D]
  BY <1>3
<1>5. \A k \in 1..N : k \in 0..N /\ k - 1 \in 0..N
  OBVIOUS
<1>6. f[0] = base /\ \A k \in 1..N : f[k] = F[<<f[k - 1], k>>]
  BY <1>2, <1>5
<1>7. Recursion(f, N, D, base, F)
  BY <1>4, <1>6 DEF Recursion
<1> QED BY <1>7
===============================================================================
