----------------------------- MODULE Induction ------------------------------
(***************************************************************************)
(* Induction over the naturals in the form the proofs use: for a set, not  *)
(* for a predicate, from the library's theorem that a well-founded         *)
(* relation has minimal elements.                                          *)
(***************************************************************************)
EXTENDS Naturals, TLAPS, WellFoundedInduction

(* Induction over the naturals for a set: the least number that is not in  *)
(* it would have its predecessor in it.                                    *)
LEMMA SetInduction ==
    ASSUME NEW S, 0 \in S, \A n \in Nat : n \in S => n + 1 \in S
    PROVE  Nat \subseteq S
  <1> SUFFICES ASSUME Nat \ S # {} PROVE FALSE
    OBVIOUS
  <1> DEFINE T == Nat \ S
             R == OpToRel(<, Nat)
  <1>1. IsWellFoundedOn(R, Nat)
    BY NatLessThanWellFounded
  <1>2. \A x, y \in Nat : x < y => <<x, y>> \in R
    BY Zenon DEF OpToRel
  <1> HIDE DEF R
  <1>3. T \subseteq Nat /\ T # {}
    OBVIOUS
  <1>4. PICK x \in T : \A y \in T : ~(<<y, x>> \in R)
    <2> HIDE DEF T
    <2> QED BY <1>1, <1>3, WFMin
  <1>5. x # 0 /\ x - 1 \in Nat /\ x - 1 \in T /\ x - 1 < x
    BY <1>4
  <1> QED BY <1>2, <1>4, <1>5

(* A set of numbers that is not empty has a least one. *)
LEMMA LeastElement ==
    ASSUME NEW T, T \subseteq Nat, T # {}
    PROVE  \E i \in T : \A j \in T : i <= j
  <1> DEFINE G == {n \in Nat : \A k \in 0..n : k \notin T}
  <1> SUFFICES ASSUME \A i \in T : \E j \in T : ~(i <= j) PROVE FALSE
    OBVIOUS
  <1>1. 0 \in G
    OBVIOUS
  <1>2. ASSUME NEW n \in Nat, n \in G PROVE n + 1 \in G
    <2>1. n + 1 \notin T
      BY <1>2
    <2> QED BY <1>2, <2>1
  <1>3. Nat \subseteq G
    <2> HIDE DEF G
    <2> QED BY <1>1, <1>2, SetInduction
  <1>4. ASSUME NEW n \in T PROVE FALSE
    <2>1. n \in Nat /\ n \in G
      <3> HIDE DEF G
      <3> QED BY <1>3
    <2> QED BY <2>1
  <1> QED BY <1>4

(* h is the sequence of the first K iterates of F, from a on. *)
Orbit(h, S, F, a, K) ==
    h \in [0..K -> S] /\ h[0] = a /\ \A k \in 1..K : h[k] = F[h[k-1]]

(* A function on S can be applied again and again: there is the sequence   *)
(* of its iterates.                                                        *)
LEMMA Iterates ==
    ASSUME NEW S, NEW F \in [S -> S], NEW a \in S, NEW K \in Nat
    PROVE  \E h : Orbit(h, S, F, a, K)
  <1> DEFINE Is(h, n) == h[0] = a /\ \A k \in 1..n : h[k] = F[h[k-1]]
             G == {n \in Nat : \E h \in [0..n -> S] : Is(h, n)}
  <1>1. 0 \in G
    <2> DEFINE h == [k \in 0..0 |-> a]
    <2>1. h \in [0..0 -> S] /\ Is(h, 0)
      OBVIOUS
    <2> HIDE DEF Is, h
    <2> QED BY <2>1
  <1>2. ASSUME NEW n \in Nat, n \in G PROVE n + 1 \in G
    <2>1. PICK h \in [0..n -> S] : Is(h, n)
      BY <1>2
    <2> DEFINE g == [k \in 0..(n+1) |-> IF k = n+1 THEN F[h[n]] ELSE h[k]]
    <2>2. g \in [0..(n+1) -> S] /\ g[0] = a
      BY <2>1
    <2>3. ASSUME NEW k \in 1..(n+1) PROVE g[k] = F[g[k-1]]
      <3>1. k-1 \in 0..n /\ k-1 \in 0..(n+1) /\ g[k-1] = h[k-1]
        OBVIOUS
      <3>2. CASE k = n+1
        BY <3>1, <3>2
      <3>3. CASE k # n+1
        <4>1. k \in 1..n /\ g[k] = h[k]
          BY <3>3
        <4> HIDE DEF g
        <4> QED BY <2>1, <3>1, <4>1
      <3> QED BY <3>2, <3>3
    <2> HIDE DEF g
    <2>4. Is(g, n+1)
      BY <2>2, <2>3
    <2> HIDE DEF Is
    <2> QED BY <2>2, <2>4
  <1>3. K \in G
    <2> HIDE DEF G
    <2> QED BY <1>1, <1>2, SetInduction
  <1> QED BY <1>3 DEF Orbit

(* Induction over an interval. *)
LEMMA IntervalInduction ==
    ASSUME NEW S, NEW K \in Nat, 0 \in S, \A k \in 1..K : k - 1 \in S => k \in S
    PROVE  0..K \subseteq S
  <1> DEFINE G == {n \in Nat : n \in 0..K => n \in S}
  <1>1. 0 \in G
    OBVIOUS
  <1>2. ASSUME NEW n \in Nat, n \in G PROVE n + 1 \in G
    <2> SUFFICES ASSUME n + 1 \in 0..K PROVE n + 1 \in S
      OBVIOUS
    <2>1. n \in 0..K /\ n + 1 \in 1..K /\ (n + 1) - 1 = n
      OBVIOUS
    <2> QED BY <1>2, <2>1
  <1> QED
    <2>1. Nat \subseteq G
      <3> HIDE DEF G
      <3> QED BY <1>1, <1>2, SetInduction
    <2> QED BY <2>1

(* h starts with a and goes on by the step that belongs to each number. *)
Recursive(h, V, a, K, step) ==
    h \in [0..K -> V] /\ h[0] = a /\ \A k \in 1..K : h[k] = step[k][h[k-1]]

(* A recursive function on an interval exists.                              *)
LEMMA Recursion ==
    ASSUME NEW V, NEW a \in V, NEW K \in Nat, NEW step \in [1..K -> [V -> V]]
    PROVE  \E h : Recursive(h, V, a, K, step)
  <1> DEFINE Is(h, n) == h[0] = a /\ \A k \in 1..n : h[k] = step[k][h[k-1]]
             G == {n \in 0..K : \E h \in [0..n -> V] : Is(h, n)}
  <1>1. 0 \in G
    <2> DEFINE h == [k \in 0..0 |-> a]
    <2>1. h \in [0..0 -> V] /\ Is(h, 0)
      OBVIOUS
    <2> HIDE DEF Is, h
    <2> QED BY <2>1
  <1>2. ASSUME NEW n \in 1..K, n - 1 \in G PROVE n \in G
    <2>1. PICK h \in [0..(n-1) -> V] : Is(h, n - 1)
      BY <1>2
    <2> DEFINE g == [k \in 0..n |-> IF k = n THEN step[n][h[n-1]] ELSE h[k]]
    <2>2. g \in [0..n -> V] /\ g[0] = a
      BY <2>1
    <2>3. ASSUME NEW k \in 1..n PROVE g[k] = step[k][g[k-1]]
      <3>1. k-1 \in 0..(n-1) /\ k-1 \in 0..n /\ g[k-1] = h[k-1]
        OBVIOUS
      <3>2. CASE k = n
        BY <3>1, <3>2
      <3>3. CASE k # n
        <4>1. k \in 1..(n-1) /\ g[k] = h[k]
          BY <3>3
        <4> HIDE DEF g
        <4> QED BY <2>1, <3>1, <4>1
      <3> QED BY <3>2, <3>3
    <2> HIDE DEF g
    <2>4. Is(g, n)
      BY <2>2, <2>3
    <2> HIDE DEF Is
    <2> QED BY <2>2, <2>4
  <1>3. K \in G
    <2> HIDE DEF G
    <2>1. 0..K \subseteq G
      BY <1>1, <1>2, IntervalInduction
    <2> QED BY <2>1
  <1> QED BY <1>3 DEF Recursive
=============================================================================
