----------------------------- MODULE NaturalSets -----------------------------
(***************************************************************************)
(* Induction and recursion over the naturals, stated with sets and         *)
(* functions.                                                              *)
(***************************************************************************)
EXTENDS Integers, WellFoundedInduction, TLAPS

NatOrder == {pair \in Nat \X Nat : pair[1] < pair[2]}

LEMMA NatOrderWellFounded == IsWellFoundedOn(NatOrder, Nat)
BY NatLessThanWellFounded DEF NatOrder, OpToRel

LEMMA LeastNatural ==
  ASSUME NEW T \in SUBSET Nat, T # {}
  PROVE  \E n \in T : \A m \in T : n <= m
<1>1. PICK x \in T : \A y \in T : ~ (<<y, x>> \in NatOrder)
  BY NatOrderWellFounded, WFMin
<1>2. \A y \in T : <<y, x>> \in NatOrder <=> y < x
  BY DEF NatOrder
<1>3. \A y \in T : y \in Nat /\ ~ (y < x)
  BY <1>1, <1>2
<1> QED BY <1>3

\* A set that holds 0, and with each number below N the next, holds 0 .. N.
LEMMA Induction ==
  ASSUME NEW N \in Nat, NEW T, 0 \in T, \A n \in 0 .. N - 1 : n \in T => n + 1 \in T
  PROVE  0 .. N \subseteq T
<1> DEFINE Missing == (0 .. N) \ T
<1> SUFFICES ASSUME Missing # {} PROVE FALSE
  OBVIOUS
<1>1. Missing \in SUBSET Nat
  OBVIOUS
<1>2. PICK n \in Missing : \A m \in Missing : n <= m
  BY <1>1, LeastNatural
<1>3. n # 0 /\ n - 1 \in 0 .. N - 1 /\ n - 1 \notin Missing
  BY <1>2
<1> QED BY <1>2, <1>3

LEMMA GreatestNatural ==
  ASSUME NEW N \in Nat, NEW T \in SUBSET (0 .. N), T # {}
  PROVE  \E n \in T : \A m \in T : m <= n
<1> DEFINE Gaps == {N - n : n \in T}
<1>1. Gaps \in SUBSET Nat
  OBVIOUS
<1>2. PICK gap \in Gaps : \A other \in Gaps : gap <= other
  <2>1. PICK m \in T : TRUE
    OBVIOUS
  <2>2. N - m \in Gaps
    OBVIOUS
  <2> QED BY <1>1, <2>2, LeastNatural
<1>3. PICK n \in T : gap = N - n
  OBVIOUS
<1>4. \A m \in T : gap <= N - m
  BY <1>2
<1> QED BY <1>3, <1>4

\* f starts with base, and each value comes from the one before.
IsIteration(f, N, base, step) ==
  f = [n \in 0 .. N |-> IF n = 0 THEN base ELSE step[n][f[n - 1]]]

\* Such a function exists: a recursive definition over 0 .. N has its meaning.
LEMMA Recursion ==
  ASSUME NEW N \in Nat, NEW S, NEW base \in S, NEW step,
         \A n \in 1 .. N, x \in S : step[n][x] \in S
  PROVE  \E f \in [0 .. N -> S] : IsIteration(f, N, base, step)
<1> DEFINE T == {m \in 0 .. N : \E g \in [0 .. m -> S] : IsIteration(g, m, base, step)}
<1>1. 0 \in T
  <2> DEFINE g == [n \in 0 .. 0 |-> base]
  <2>1. g \in [0 .. 0 -> S]
    OBVIOUS
  <2>2. IsIteration(g, 0, base, step)
    BY DEF IsIteration
  <2> HIDE DEF g
  <2> QED BY <2>1, <2>2
<1>2. ASSUME NEW m \in 0 .. N - 1, m \in T
      PROVE  m + 1 \in T
  <2>1. PICK g \in [0 .. m -> S] : IsIteration(g, m, base, step)
    BY <1>2
  <2> DEFINE h == [n \in 0 .. m + 1 |-> IF n <= m THEN g[n] ELSE step[n][g[m]]]
  <2>2. h \in [0 .. m + 1 -> S]
    <3>1. m \in 0 .. m /\ m + 1 \in 1 .. N
      OBVIOUS
    <3>2. \A n \in 0 .. m + 1 : n <= m => n \in 0 .. m
      OBVIOUS
    <3>3. \A n \in 0 .. m + 1 : ~ (n <= m) => n = m + 1
      OBVIOUS
    <3> QED BY <3>1, <3>2, <3>3
  <2>3. ASSUME NEW n \in 0 .. m + 1
        PROVE  h[n] = IF n = 0 THEN base ELSE step[n][h[n - 1]]
    <3>1. CASE n <= m
      <4>1. h[n] = g[n] /\ (n # 0 => h[n - 1] = g[n - 1])
        BY <3>1
      <4>2. g[n] = IF n = 0 THEN base ELSE step[n][g[n - 1]]
        BY <2>1, <3>1 DEF IsIteration
      <4> HIDE DEF h
      <4> QED BY <4>1, <4>2
    <3>2. CASE n = m + 1
      BY <3>2
    <3> QED BY <3>1, <3>2
  <2>4. IsIteration(h, m + 1, base, step)
    BY <2>3 DEF IsIteration
  <2>5. m + 1 \in 0 .. N
    OBVIOUS
  <2> HIDE DEF h
  <2> QED BY <2>2, <2>4, <2>5
<1> HIDE DEF T
<1>3. N \in T
  BY <1>1, <1>2, Induction
<1> QED BY <1>3 DEF T
=============================================================================
