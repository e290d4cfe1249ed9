----------------------------- MODULE Induction -----------------------------
(***************************************************************************)
(* Induction over numbers for sets, and the existence of functions defined *)
(* by recursion: what the proofs about sequences built step by step need.  *)
(***************************************************************************)
EXTENDS Naturals, NaturalsInduction, WellFoundedInduction, TLAPS

\* A set of naturals that is not empty has a least element.
LEMMA LeastElement ==
    ASSUME NEW S \in SUBSET Nat, S # {}
    PROVE  \E x \in S : \A y \in S : x <= y
<1> DEFINE R == OpToRel(<, Nat)
<1>1. IsWellFoundedOn(R, Nat) BY NatLessThanWellFounded
<1>2. \A a, b \in Nat : a < b => <<a, b>> \in R BY DEF OpToRel
<1> HIDE DEF R
<1>3. \E x \in S : \A y \in S : ~(<<y, x>> \in R) BY <1>1, WFMin
<1>4. PICK x \in S : \A y \in S : ~(<<y, x>> \in R) BY <1>3
<1>5. \A y \in S : x <= y
  <2> SUFFICES ASSUME NEW y \in S PROVE x <= y OBVIOUS
  <2>1. x \in Nat /\ y \in Nat OBVIOUS
  <2>2. ~(y < x) BY <1>2, <1>4, <2>1
  <2> QED BY <2>1, <2>2
<1> QED BY <1>5

\* A bounded one that is not empty has a greatest.
LEMMA GreatestElement ==
    ASSUME NEW N \in Nat, NEW S \in SUBSET (0 .. N), S # {}
    PROVE  \E x \in S : \A y \in S : x >= y
<1> DEFINE U == {k \in Nat : \A y \in S : y <= k}
<1>1. N \in U OBVIOUS
<1>2. PICK k \in U : \A u \in U : k <= u
  <2>1. U \in SUBSET Nat /\ U # {} BY <1>1
  <2> HIDE DEF U
  <2> QED BY <2>1, LeastElement
<1>3. k \in Nat /\ \A y \in S : y <= k /\ y \in Nat BY <1>2
<1>4. k \in S
  <2> SUFFICES ASSUME k \notin S PROVE FALSE OBVIOUS
  <2>1. \A y \in S : y <= k - 1 /\ y < k BY <1>3
  <2>2. k - 1 \in Nat
    <3>1. PICK y \in S : TRUE OBVIOUS
    <3>2. y \in Nat /\ y < k BY <1>3, <2>1
    <3> QED BY <1>3, <3>2
  <2>3. k - 1 \in U BY <2>1, <2>2
  <2>4. k <= k - 1 BY <1>2, <2>3
  <2> QED BY <1>3, <2>4
<1> QED BY <1>3, <1>4

\* Induction up to a bound, for a set.
LEMMA BoundedInduction ==
    ASSUME NEW N \in Nat, NEW T, 0 \in T,
           \A n \in 0 .. N : n \in T /\ n < N => n + 1 \in T
    PROVE  \A n \in 0 .. N : n \in T
<1> DEFINE S == {n \in 0 .. N : n \notin T}
<1> SUFFICES ASSUME S # {} PROVE FALSE OBVIOUS
<1>0. S \in SUBSET Nat OBVIOUS
<1> HIDE DEF S
<1>1. PICK m \in S : \A y \in S : m <= y BY <1>0, LeastElement
<1> USE DEF S
<1>2. m \in Nat /\ m # 0 /\ m <= N OBVIOUS
<1>3. m - 1 \in 0 .. N /\ m - 1 < N /\ ~(m <= m - 1) BY <1>2
<1>4. m - 1 \in T BY <1>1, <1>3
<1>5. (m - 1) + 1 \in T BY <1>3, <1>4
<1>6. (m - 1) + 1 = m BY <1>2
<1> QED BY <1>5, <1>6

\* A function given by its value at 0 and a step from each value to the next.
Recursion(g, N, V, v0, step) ==
    /\ g \in [0 .. N -> V] /\ g[0] = v0
    /\ \A i \in 1 .. N : g[i] = step[i][g[i - 1]]

LEMMA RecursionRuns ==
    ASSUME NEW N \in Nat, NEW V, NEW v0 \in V, NEW step \in [1 .. N -> [V -> V]]
    PROVE  \E g : Recursion(g, N, V, v0, step)
<1> DEFINE Run(g, n) == g[0] = v0 /\ \A i \in 1 .. n : g[i] = step[i][g[i - 1]]
           T == {n \in 0 .. N : \E g \in [0 .. n -> V] : Run(g, n)}
<1>1. 0 \in T
  <2> DEFINE g == [i \in 0 .. 0 |-> v0]
  <2>1. g \in [0 .. 0 -> V] /\ Run(g, 0) OBVIOUS
  <2> HIDE DEF Run, g
  <2> QED BY <2>1
<1>2. ASSUME NEW n \in 0 .. N, n \in T, n < N PROVE n + 1 \in T
  <2>1. PICK g \in [0 .. n -> V] : Run(g, n) BY <1>2
  <2>2. n \in Nat /\ n + 1 \in 1 .. N /\ n \in 0 .. n BY <1>2
  <2> DEFINE next == step[n + 1][g[n]]
             h == [i \in 0 .. n + 1 |-> IF i = n + 1 THEN next ELSE g[i]]
  <2>3. next \in V BY <2>2
  <2> HIDE DEF next
  <2>4. h \in [0 .. n + 1 -> V] BY <2>2, <2>3
  <2>5. h[0] = v0 BY <2>1, <2>2
  <2>6. ASSUME NEW i \in 1 .. n + 1 PROVE h[i] = step[i][h[i - 1]]
    <3>1. CASE i = n + 1
      <4>1. h[i] = next /\ h[i - 1] = g[n] BY <2>2, <3>1
      <4> QED BY <3>1, <4>1 DEF next
    <3>2. CASE i \in 1 .. n
      <4>1. h[i] = g[i] /\ h[i - 1] = g[i - 1] BY <2>2, <3>2
      <4> QED BY <2>1, <3>2, <4>1
    <3> QED BY <2>2, <3>1, <3>2
  <2> HIDE DEF h
  <2>7. Run(h, n + 1) BY <2>5, <2>6
  <2> HIDE DEF Run
  <2> QED BY <2>2, <2>4, <2>7
<1> HIDE DEF Run
<1>3. \A n \in 0 .. N : n \in T
  <2> HIDE DEF T
  <2> QED BY <1>1, <1>2, BoundedInduction
<1>4. N \in T BY <1>3
<1> QED BY <1>4 DEF Run, Recursion
=============================================================================
