----------------------------- MODULE LoopLemmas -----------------------------
(***************************************************************************)
(* Induction over the natural numbers, for sets, and loops: the recursive  *)
(* functions by which the models walk a list exist and can be unrolled.    *)
(***************************************************************************)
EXTENDS Integers, FiniteSetsExt, WellFoundedInduction, FiniteSetTheorems, TLAPS

\* A set of natural numbers that is not empty has a least element.
LEMMA LeastNat ==
    ASSUME NEW T, T \subseteq Nat, T # {}
    PROVE  \E x \in T : \A y \in T : x <= y
<1> DEFINE U == {0..n : n \in T}
<1>1. U \subseteq FiniteSubsetsOf(Nat) /\ U # {}
  <2>1. ASSUME NEW n \in T PROVE 0..n \in FiniteSubsetsOf(Nat)
    <3>1. IsFiniteSet(0..n)
        BY FS_Interval
    <3> QED
        BY <3>1 DEF FiniteSubsetsOf
  <2> QED
    BY <2>1
<1>2. IsWellFoundedOn(StrictSubsetOrdering(Nat), FiniteSubsetsOf(Nat))
    BY FS_StrictSubsetOrderingWellFounded
<1>3. PICK u \in U : \A v \in U : <<v, u>> \notin StrictSubsetOrdering(Nat)
  <2> HIDE DEF U
  <2> QED
    BY Zenon, <1>1, <1>2, WFMin
<1>4. PICK x \in T : u = 0..x
    BY <1>3
<1>5. ASSUME NEW y \in T PROVE x <= y
  <2>1. 0..y \in U /\ x \in Nat /\ y \in Nat
    OBVIOUS
  <2>2. <<0..y, 0..x>> \notin StrictSubsetOrdering(Nat)
    BY <1>3, <1>4, <2>1
  <2>3. 0..y \in SUBSET Nat /\ 0..x \in SUBSET Nat
    BY <2>1
  <2>4. ~(0..y \subseteq 0..x /\ 0..y # 0..x)
    BY <2>2, <2>3 DEF StrictSubsetOrdering
  <2> QED
    BY <2>1, <2>4
<1> QED
    BY <1>4, <1>5

\* Induction: a set that holds 0 and with every number the next one holds all.
LEMMA NatSetInduction ==
    ASSUME NEW S, 0 \in S, \A n \in Nat : n \in S => n + 1 \in S
    PROVE  Nat \subseteq S
<1> SUFFICES ASSUME Nat \ S # {} PROVE FALSE
    OBVIOUS
<1>1. PICK x \in Nat \ S : \A y \in Nat \ S : x <= y
    BY LeastNat
<1>2. x # 0 /\ x - 1 \in Nat /\ ~(x <= x - 1)
    BY <1>1
<1> QED
    BY <1>1, <1>2

\* g[i] is what a loop that starts with a holds after i of its n passes, pass i
\* making next[<<i, v>>] of v.
Unrolls(g, n, a, next) == g[0] = a /\ \A i \in 1..n : g[i] = next[<<i, g[i - 1]>>]

\* A loop has a value after each of its passes.
LEMMA Unroll ==
    ASSUME NEW S, NEW n \in Nat, NEW a \in S, NEW next \in [(1..n) \X S -> S]
    PROVE  \E g \in [0..n -> S] : Unrolls(g, n, a, next)
<1> DEFINE T == {m \in Nat : m <= n => \E g \in [0..m -> S] : Unrolls(g, m, a, next)}
<1>1. 0 \in T
  <2> DEFINE g0 == [i \in 0..0 |-> a]
  <2>1. g0 \in [0..0 -> S] /\ Unrolls(g0, 0, a, next)
    BY DEF Unrolls
  <2> QED
    BY <2>1
<1>2. ASSUME NEW m \in Nat, m \in T PROVE m + 1 \in T
  <2> SUFFICES ASSUME m + 1 <= n PROVE \E g \in [0..(m + 1) -> S] : Unrolls(g, m + 1, a, next)
    OBVIOUS
  <2>1. PICK g \in [0..m -> S] : Unrolls(g, m, a, next)
    BY <1>2
  <2> DEFINE h == [i \in 0..(m + 1) |-> IF i <= m THEN g[i] ELSE next[<<m + 1, g[m]>>]]
  <2>2. g[m] \in S /\ m + 1 \in 1..n
    BY <2>1
  <2>3. next[<<m + 1, g[m]>>] \in S
    BY <2>2
  <2>4. h \in [0..(m + 1) -> S]
    BY <2>1, <2>3
  <2>5. ASSUME NEW i \in 1..(m + 1) PROVE h[i] = next[<<i, h[i - 1]>>]
    <3>1. CASE i = m + 1
      <4>1. i - 1 = m /\ i \in 0..(m + 1) /\ m \in 0..(m + 1) /\ ~(i <= m)
        BY <3>1
      <4>2. h[i] = next[<<m + 1, g[m]>>] /\ h[m] = g[m]
        BY <4>1
      <4> QED
        BY <3>1, <4>1, <4>2
    <3>2. CASE i # m + 1
      <4>1. /\ i \in 1..m /\ i <= m /\ i - 1 <= m
            /\ i \in 0..(m + 1) /\ i - 1 \in 0..(m + 1)
        BY <3>2
      <4>2. h[i] = g[i] /\ h[i - 1] = g[i - 1]
        BY <4>1
      <4> QED
        BY <2>1, <4>1, <4>2 DEF Unrolls
    <3> QED
      BY <3>1, <3>2
  <2>6. h[0] = a
    BY <2>1 DEF Unrolls
  <2>7. Unrolls(h, m + 1, a, next)
    BY <2>5, <2>6 DEF Unrolls
  <2> HIDE DEF h
  <2> QED
    BY <2>4, <2>7
<1>3. n \in T
  <2> HIDE DEF T
  <2> QED
    BY <1>1, <1>2, NatSetInduction
<1> QED
    BY <1>3

\* Max of a bounded set of natural numbers that is not empty is its largest element.
LEMMA MaxOfBounded ==
    ASSUME NEW S, S \subseteq Nat, S # {}, NEW b \in Nat, \A y \in S : y <= b
    PROVE  Max(S) \in S /\ \A y \in S : y <= Max(S)
<1> DEFINE T == {m \in Nat : \A y \in S : y <= m}
<1>1. PICK x \in T : \A m \in T : x <= m
  <2>1. b \in T /\ T \subseteq Nat
    BY Zenon
  <2> QED
    BY Zenon, <2>1, LeastNat
<1>2. x \in S
  <2> SUFFICES ASSUME x \notin S PROVE FALSE
    BY Zenon
  <2>1. \A y \in S : y < x /\ y \in Nat
    OBVIOUS
  <2>2. x - 1 \in Nat /\ \A y \in S : y <= x - 1
    <3>1. x \in Nat /\ \E y \in S : y < x /\ y \in Nat
        BY Zenon, <2>1
    <3> QED
        BY <2>1, <3>1
  <2> QED
    BY <1>1, <2>2
<1>3. \E z \in S : \A y \in S : z >= y
    BY Zenon, <1>2
<1>4. Max(S) \in S /\ \A y \in S : Max(S) >= y
    BY Zenon, <1>3 DEF Max
<1> QED
    BY Zenon, <1>4
=============================================================================
