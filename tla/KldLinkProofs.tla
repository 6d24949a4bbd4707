--------------------------- MODULE KldLinkProofs ----------------------------
(***************************************************************************)
(* Theorems about KldLink and the libraries of KldElf: for any directories *)
(* and files, any symbols, any number of options and lines, and any number *)
(* of system calls that fail.                                              *)
(***************************************************************************)
EXTENDS KldLink, TLAPS, SequenceTheorems, FiniteSetTheorems, Induction

(* Induction over the sequences of a set, from the front. *)
LEMMA SeqInduction ==
    ASSUME NEW X, NEW T, <<>> \in T,
           \A s \in Seq(X), x \in X : s \in T => Append(s, x) \in T
    PROVE  Seq(X) \subseteq T
  <1> DEFINE G == {n \in Nat : \A s \in Seq(X) : Len(s) = n => s \in T}
  <1>1. 0 \in G
    OBVIOUS
  <1>2. ASSUME NEW n \in Nat, n \in G PROVE n + 1 \in G
    <2> SUFFICES ASSUME NEW s \in Seq(X), Len(s) = n + 1 PROVE s \in T
      OBVIOUS
    <2>1. s # <<>>
      OBVIOUS
    <2>2. PICK t \in Seq(X), x \in X : s = Append(t, x)
      BY <2>1, SequenceEmptyOrAppend
    <2>3. Len(t) = n
      BY <2>2
    <2> QED BY <1>2, <2>2, <2>3
  <1>3. Nat \subseteq G
    <2> HIDE DEF G
    <2> QED BY <1>1, <1>2, SetInduction
  <1>4. ASSUME NEW s \in Seq(X) PROVE s \in T
    <2>1. Len(s) \in G
      <3> HIDE DEF G
      <3> QED BY <1>3
    <2> QED BY <2>1
  <1> QED BY <1>4

(* A function on an initial segment is a sequence. *)
LEMMA MapSeq ==
    ASSUME NEW n \in Nat, NEW f, f = [k \in 1..n |-> f[k]]
    PROVE  f \in Seq(Range(f)) /\ Len(f) = n
  <1>1. f \in [1..n -> Range(f)]
    BY DEF Range
  <1> QED BY <1>1

(* When a sequence is another one with an element more. *)
LEMMA IsAppend ==
    ASSUME NEW V, NEW v \in Seq(V), NEW w \in Seq(V), NEW y \in V, Len(w) = Len(v) + 1,
           \A k \in 1..Len(v) : w[k] = v[k], w[Len(v) + 1] = y
    PROVE  w = Append(v, y)
  <1>1. Append(v, y) \in Seq(V) /\ Len(Append(v, y)) = Len(w)
    OBVIOUS
  <1>2. ASSUME NEW k \in 1..Len(w) PROVE w[k] = Append(v, y)[k]
    OBVIOUS
  <1> QED BY <1>1, <1>2, SeqEqual

(* A function on 1..(m + 1) is its first m values and its last one. *)
LEMMA AppendMap ==
    ASSUME NEW m \in Nat, NEW h, h = [n \in 1..(m + 1) |-> h[n]]
    PROVE  h = Append([n \in 1..m |-> h[n]], h[m + 1])
  <1> DEFINE g == [n \in 1..m |-> h[n]]
             V == Range(h)
  <1>1. \A n \in 1..(m + 1) : h[n] \in V
    BY DEF Range
  <1> HIDE DEF V
  <1>2. h \in [1..(m + 1) -> V] /\ g \in [1..m -> V]
    BY <1>1
  <1>3. \A n \in 1..m : g[n] = h[n]
    OBVIOUS
  <1> HIDE DEF g
  <1>4. h \in Seq(V) /\ Len(h) = m + 1 /\ g \in Seq(V) /\ Len(g) = m /\ h[m + 1] \in V
    BY <1>1, <1>2
  <1>5. h = Append(g, h[m + 1])
    <2>1. PICK y : y = h[m + 1]
      OBVIOUS
    <2>2. \A k \in 1..Len(g) : h[k] = g[k]
      BY <1>3, <1>4, Zenon
    <2>3. Len(h) = Len(g) + 1 /\ h[Len(g) + 1] = y /\ y \in V
      BY <1>4, <2>1
    <2>4. h = Append(g, y)
      BY <1>4, <2>2, <2>3, IsAppend
    <2> QED BY <2>1, <2>4
  <1> QED BY <1>5 DEF g

Follow(f, g, K) == f[0] = g[0] /\ \A k \in 1..K : f[k-1] = g[k-1] => f[k] = g[k]
Agree(f, g, K) == \A k \in 0..K : f[k] = g[k]

(* Two recursive functions with the same steps are the same. *)
LEMMA SameRecursion ==
    ASSUME NEW K \in Nat, NEW f, NEW g, Follow(f, g, K)
    PROVE  Agree(f, g, K)
  <1> DEFINE S == {k \in 0..K : f[k] = g[k]}
  <1>1. 0 \in S
    BY DEF Follow
  <1>2. \A k \in 1..K : k - 1 \in S => k \in S
    BY DEF Follow
  <1>3. 0..K \subseteq S
    <2> HIDE DEF S
    <2> QED BY <1>1, <1>2, IntervalInduction
  <1> QED BY <1>3 DEF Agree
-----------------------------------------------------------------------------
(* Among *)

(* The function that Among is the last value of. *)
AmongSteps(f, s, S) ==
    /\ f[0] = <<>>
    /\ \A k \in 1..Len(s) : f[k] = IF s[k] \in S THEN Append(f[k-1], s[k]) ELSE f[k-1]

(* Among is computed by its steps. *)
LEMMA AmongIs ==
    ASSUME NEW X, NEW s \in Seq(X), NEW S
    PROVE  \E f \in [0..Len(s) -> Seq(X)] : AmongSteps(f, s, S) /\ Among(s, S) = f[Len(s)]
  <1> DEFINE K == Len(s)
             V == Seq(X)
             none == <<>>
             Next1(k, v) == IF s[k] \in S THEN Append(v, s[k]) ELSE v
             step == [k \in 1..K |-> [v \in V |-> Next1(k, v)]]
             Eqn(f) == f = [k \in 0..K |-> IF k = 0 THEN none ELSE Next1(k, f[k - 1])]
             g == CHOOSE f : Eqn(f)
  <1>1. Among(s, S) = g[K]
    BY Zenon DEF Among
  <1>2. K \in Nat /\ none \in V /\ \A k \in 1..K, v \in V : Next1(k, v) \in V
    OBVIOUS
  <1> HIDE DEF K, V, none, Next1
  <1>3. step \in [1..K -> [V -> V]]
    BY <1>2
  <1>h. PICK h : Recursive(h, V, none, K, step)
    <2> HIDE DEF step
    <2> QED BY <1>2, <1>3, Recursion
  <1>4. h \in [0..K -> V] /\ h[0] = none /\ \A k \in 1..K : h[k] = step[k][h[k-1]]
    BY <1>h DEF Recursive
  <1>5. \A k \in 1..K : h[k] = Next1(k, h[k-1])
    BY <1>2, <1>4
  <1>6. Eqn(h)
    <2>1. ASSUME NEW k \in 0..K
          PROVE  h[k] = IF k = 0 THEN none ELSE Next1(k, h[k - 1])
      BY <1>2, <1>4, <1>5
    <2> QED BY <1>2, <1>4, <2>1
  <1>7. Eqn(g)
    <2> HIDE DEF Eqn
    <2> QED BY <1>6
  <1>8. Follow(g, h, K)
    <2> HIDE DEF g
    <2>1. \A k \in 0..K : g[k] = IF k = 0 THEN none ELSE Next1(k, g[k - 1])
      BY <1>7, Zenon
    <2> QED BY <1>2, <1>4, <1>5, <2>1 DEF Follow
  <1>9. g[K] = h[K]
    <2> HIDE DEF g
    <2>1. Agree(g, h, K)
      BY <1>2, <1>8, SameRecursion
    <2> QED BY <1>2, <2>1 DEF Agree
  <1> HIDE DEF g
  <1> QED BY <1>1, <1>4, <1>5, <1>9 DEF AmongSteps, K, V, none, Next1

(* The elements that are taken keep their type. *)
LEMMA AmongType ==
    ASSUME NEW X, NEW s \in Seq(X), NEW S
    PROVE  Among(s, S) \in Seq(X)
  BY AmongIs

(* Nothing is taken from nothing. *)
LEMMA AmongEmpty == \A S : Among(<<>>, S) = <<>>
  <1> SUFFICES ASSUME NEW S PROVE Among(<<>>, S) = <<>>
    OBVIOUS
  <1>1. <<>> \in Seq({}) /\ Len(<<>>) = 0
    OBVIOUS
  <1>2. PICK f : AmongSteps(f, <<>>, S) /\ Among(<<>>, S) = f[0]
    BY <1>1, AmongIs
  <1> QED BY <1>2 DEF AmongSteps

(* An element that comes last is taken last, or not at all. *)
LEMMA AmongAppend ==
    ASSUME NEW X, NEW s \in Seq(X), NEW x \in X, NEW S
    PROVE  Among(Append(s, x), S) = IF x \in S THEN Append(Among(s, S), x) ELSE Among(s, S)
  <1> DEFINE K == Len(s)
             t == Append(s, x)
  <1>1. t \in Seq(X) /\ K \in Nat /\ Len(t) = K + 1 /\ t[K + 1] = x /\ \A k \in 1..K : t[k] = s[k]
    OBVIOUS
  <1> HIDE DEF t
  <1>2. PICK f \in [0..K -> Seq(X)] : AmongSteps(f, s, S) /\ Among(s, S) = f[K]
    BY AmongIs
  <1>3. PICK g \in [0..Len(t) -> Seq(X)] : AmongSteps(g, t, S) /\ Among(t, S) = g[Len(t)]
    BY <1>1, AmongIs
  <1>4. Follow(g, f, K)
    <2>1. g[0] = f[0]
      BY <1>2, <1>3 DEF AmongSteps
    <2>2. ASSUME NEW k \in 1..K, g[k-1] = f[k-1] PROVE g[k] = f[k]
      <3>1. k \in 1..Len(t) /\ t[k] = s[k]
        BY <1>1
      <3>2. g[k] = IF t[k] \in S THEN Append(g[k-1], t[k]) ELSE g[k-1]
        BY <1>3, <3>1 DEF AmongSteps
      <3>3. f[k] = IF s[k] \in S THEN Append(f[k-1], s[k]) ELSE f[k-1]
        BY <1>2 DEF AmongSteps
      <3> QED BY <2>2, <3>1, <3>2, <3>3
    <2> QED BY <2>1, <2>2 DEF Follow
  <1>5. g[K] = f[K]
    <2>1. Agree(g, f, K)
      <3> HIDE DEF K
      <3> QED BY <1>1, <1>4, SameRecursion
    <2> QED BY <1>1, <2>1 DEF Agree
  <1>6. g[K + 1] = IF x \in S THEN Append(g[K], x) ELSE g[K]
    <2>1. K + 1 \in 1..Len(t) /\ (K + 1) - 1 = K
      BY <1>1
    <2> QED BY <1>1, <1>3, <2>1 DEF AmongSteps
  <1> QED BY <1>1, <1>2, <1>3, <1>5, <1>6 DEF t

(* Only what is in the sequence matters. *)
LEMMA AmongSame ==
    ASSUME NEW X, NEW s \in Seq(X), NEW S, NEW T, \A k \in 1..Len(s) : s[k] \in S <=> s[k] \in T
    PROVE  Among(s, S) = Among(s, T)
  <1>1. PICK f \in [0..Len(s) -> Seq(X)] : AmongSteps(f, s, S) /\ Among(s, S) = f[Len(s)]
    BY AmongIs
  <1>2. PICK g \in [0..Len(s) -> Seq(X)] : AmongSteps(g, s, T) /\ Among(s, T) = g[Len(s)]
    BY AmongIs
  <1>3. Follow(f, g, Len(s)) /\ Len(s) \in Nat
    <2>1. f[0] = g[0]
      BY <1>1, <1>2 DEF AmongSteps
    <2>2. ASSUME NEW k \in 1..Len(s), f[k-1] = g[k-1] PROVE f[k] = g[k]
      <3>1. f[k] = IF s[k] \in S THEN Append(f[k-1], s[k]) ELSE f[k-1]
        BY <1>1 DEF AmongSteps
      <3>2. g[k] = IF s[k] \in T THEN Append(g[k-1], s[k]) ELSE g[k-1]
        BY <1>2 DEF AmongSteps
      <3> QED BY <2>2, <3>1, <3>2
    <2> QED BY <2>1, <2>2 DEF Follow
  <1>4. Agree(f, g, Len(s))
    BY <1>3, SameRecursion
  <1> QED BY <1>1, <1>2, <1>3, <1>4 DEF Agree

(* What is taken is what the sequence has of the set. *)
LEMMA AmongHas ==
    ASSUME NEW X, NEW s \in Seq(X), NEW S
    PROVE  Among(s, S) # <<>> <=> \E k \in 1..Len(s) : s[k] \in S
  <1> DEFINE Taken(t) == Among(t, S) # <<>> <=> \E k \in 1..Len(t) : t[k] \in S
             T == {t \in Seq(X) : Taken(t)}
  <1>1. <<>> \in T
    BY AmongEmpty
  <1>2. ASSUME NEW t \in Seq(X), NEW x \in X, t \in T PROVE Append(t, x) \in T
    <2>1. Among(Append(t, x), S) = IF x \in S THEN Append(Among(t, S), x) ELSE Among(t, S)
      BY AmongAppend
    <2>2. Among(t, S) \in Seq(X)
      BY AmongType
    <2>3. Append(t, x) \in Seq(X) /\ Len(Append(t, x)) = Len(t) + 1 /\ Len(t) \in Nat
          /\ Append(t, x)[Len(t) + 1] = x /\ \A k \in 1..Len(t) : Append(t, x)[k] = t[k]
      OBVIOUS
    <2>4. Taken(t)
      BY <1>2
    <2>5. CASE x \in S
      <3>1. Append(Among(t, S), x) # <<>>
        BY <2>2
      <3>2. \E k \in 1..Len(Append(t, x)) : Append(t, x)[k] \in S
        BY <2>3, <2>5
      <3> QED BY <2>1, <2>3, <2>5, <3>1, <3>2
    <2>6. CASE x \notin S
      <3>1. (\E k \in 1..Len(Append(t, x)) : Append(t, x)[k] \in S) <=> \E k \in 1..Len(t) : t[k] \in S
        BY <2>3, <2>6
      <3> QED BY <2>1, <2>3, <2>4, <2>6, <3>1
    <2> QED BY <2>5, <2>6
  <1>3. s \in T
    <2> HIDE DEF T
    <2> QED BY <1>1, <1>2, SeqInduction
  <1> QED BY <1>3

(* The first that is taken is the first of the set. *)
LEMMA AmongFirst ==
    ASSUME NEW X, NEW s \in Seq(X), NEW S, NEW j \in 1..Len(s),
           s[j] \in S, \A m \in 1..(j - 1) : s[m] \notin S
    PROVE  Among(s, S) # <<>> /\ Among(s, S)[1] = s[j]
  <1> DEFINE First(t, k) == t[k] \in S /\ \A m \in 1..(k - 1) : t[m] \notin S
             Is(t) == \A k \in 1..Len(t) : First(t, k) => Among(t, S)[1] = t[k]
             T == {t \in Seq(X) : Is(t)}
  <1>1. <<>> \in T
    OBVIOUS
  <1>2. ASSUME NEW t \in Seq(X), NEW x \in X, t \in T PROVE Append(t, x) \in T
    <2> DEFINE u == Append(t, x)
    <2>1. Among(u, S) = IF x \in S THEN Append(Among(t, S), x) ELSE Among(t, S)
      BY AmongAppend
    <2>2. Among(t, S) \in Seq(X)
      BY AmongType
    <2>3. u \in Seq(X) /\ Len(u) = Len(t) + 1 /\ Len(t) \in Nat
          /\ u[Len(t) + 1] = x /\ \A k \in 1..Len(t) : u[k] = t[k]
      OBVIOUS
    <2>4. Among(t, S) # <<>> <=> \E k \in 1..Len(t) : t[k] \in S
      BY AmongHas
    <2> SUFFICES ASSUME NEW k \in 1..Len(u), First(u, k) PROVE Among(u, S)[1] = u[k]
      BY <2>3
    <2> HIDE DEF u
    <2>5. CASE k = Len(t) + 1
      <3>1. Among(t, S) = <<>> /\ x \in S /\ u[k] = x
        BY <2>3, <2>4, <2>5
      <3>2. Append(<<>>, x)[1] = x
        OBVIOUS
      <3> QED BY <2>1, <3>1, <3>2
    <2>6. CASE k # Len(t) + 1
      <3>1. k \in 1..Len(t) /\ First(t, k) /\ u[k] = t[k]
        BY <2>3, <2>6
      <3>2. Among(t, S)[1] = t[k] /\ Among(t, S) # <<>>
        BY <1>2, <2>4, <3>1
      <3>3. Append(Among(t, S), x)[1] = Among(t, S)[1]
        BY <2>2, <3>2
      <3> QED BY <2>1, <3>1, <3>2, <3>3
    <2> QED BY <2>5, <2>6
  <1>3. s \in T
    <2> HIDE DEF T
    <2> QED BY <1>1, <1>2, SeqInduction
  <1> QED BY <1>3, AmongHas

(* Whatever the sequence has of the set is taken. *)
LEMMA AmongEvery ==
    ASSUME NEW X, NEW s \in Seq(X), NEW S, NEW j \in 1..Len(s), s[j] \in S
    PROVE  \E k \in 1..Len(Among(s, S)) : Among(s, S)[k] = s[j]
  <1> DEFINE In(x, t) == \E k \in 1..Len(Among(t, S)) : Among(t, S)[k] = x
             T == {t \in Seq(X) : \A n \in 1..Len(t) : t[n] \in S => In(t[n], t)}
  <1>1. <<>> \in T
    OBVIOUS
  <1>2. ASSUME NEW t \in Seq(X), NEW x \in X, t \in T PROVE Append(t, x) \in T
    <2>1. Among(Append(t, x), S) = IF x \in S THEN Append(Among(t, S), x) ELSE Among(t, S)
      BY AmongAppend
    <2>2. Among(t, S) \in Seq(X)
      BY AmongType
    <2>3. Append(t, x) \in Seq(X) /\ Len(Append(t, x)) = Len(t) + 1 /\ Len(t) \in Nat
          /\ Append(t, x)[Len(t) + 1] = x /\ \A n \in 1..Len(t) : Append(t, x)[n] = t[n]
      OBVIOUS
    <2>4. \A y : In(y, t) => In(y, Append(t, x))
      BY <2>1, <2>2
    <2>5. x \in S => In(x, Append(t, x))
      BY <2>1, <2>2
    <2>6. \A n \in 1..Len(t) : t[n] \in S => In(t[n], t)
      BY <1>2
    <2>7. ASSUME NEW n \in 1..Len(Append(t, x)), Append(t, x)[n] \in S
          PROVE  In(Append(t, x)[n], Append(t, x))
      <3>1. CASE n \in 1..Len(t)
        <4> HIDE DEF In
        <4> QED BY <2>3, <2>4, <2>6, <2>7, <3>1, Zenon
      <3>2. CASE n = Len(t) + 1
        <4> HIDE DEF In
        <4> QED BY <2>3, <2>5, <2>7, <3>2, Zenon
      <3> QED BY <2>3, <3>1, <3>2
    <2> HIDE DEF In
    <2> QED BY <2>3, <2>7
  <1>3. s \in T
    <2> HIDE DEF T
    <2> QED BY <1>1, <1>2, SeqInduction
  <1> QED BY <1>3
-----------------------------------------------------------------------------
(* String tables *)

Entry == [name : DOMAIN NameLen, addr : Nat, bind : {"GLOBAL", "WEAK"},
          type : {"ABS", "BSS", "DATA", "RODATA", "FUNC"}]

LensSteps(n, es) ==
    /\ n \in [0..Len(es) -> Nat] /\ n[0] = 0
    /\ \A k \in 1..Len(es) : n[k] = n[k-1] + NameLen[es[k].name] + 1

(* Every name has a length. *)
LEMMA Names ==
    ASSUME NEW es \in Seq(Entry), NEW k \in 1..Len(es)
    PROVE  es[k] \in Entry /\ NameLen[es[k].name] \in Nat
  <1>1. es[k] \in Entry
    OBVIOUS
  <1>2. es[k].name \in DOMAIN NameLen
    BY <1>1 DEF Entry
  <1> QED BY <1>1, <1>2, NameLenAssumption

(* nmstrlen is computed by its steps. *)
LEMMA LensIs ==
    ASSUME NEW es \in Seq(Entry)
    PROVE  \E n : LensSteps(n, es) /\ nmstrlen(es) = n[Len(es)]
  <1> DEFINE K == Len(es)
             Next1(k, v) == v + NameLen[es[k].name] + 1
             step == [k \in 1..K |-> [v \in Nat |-> Next1(k, v)]]
             Eqn(f) == f = [k \in 0..K |-> IF k = 0 THEN 0 ELSE f[k - 1] + NameLen[es[k].name] + 1]
             g == CHOOSE f : Eqn(f)
  <1>1. nmstrlen(es) = g[K]
    BY Zenon DEF nmstrlen
  <1>2. K \in Nat /\ \A k \in 1..K : NameLen[es[k].name] \in Nat
    BY Names
  <1> HIDE DEF K
  <1>3. step \in [1..K -> [Nat -> Nat]]
    BY <1>2
  <1>h. PICK h : Recursive(h, Nat, 0, K, step)
    <2> HIDE DEF step
    <2> QED BY <1>2, <1>3, Recursion
  <1>4. h \in [0..K -> Nat] /\ h[0] = 0 /\ \A k \in 1..K : h[k] = step[k][h[k-1]]
    BY <1>h DEF Recursive
  <1>5. ASSUME NEW k \in 1..K PROVE h[k] = h[k - 1] + NameLen[es[k].name] + 1
    <2>1. h[k - 1] \in Nat
      BY <1>2, <1>4
    <2>2. step[k][h[k - 1]] = Next1(k, h[k - 1])
      BY <2>1
    <2> QED BY <1>4, <2>2
  <1>6. Eqn(h)
    <2>1. ASSUME NEW k \in 0..K
          PROVE  h[k] = IF k = 0 THEN 0 ELSE h[k - 1] + NameLen[es[k].name] + 1
      BY <1>2, <1>4, <1>5
    <2> QED BY <1>2, <1>4, <2>1
  <1>7. Eqn(g)
    <2> HIDE DEF Eqn
    <2> QED BY <1>6
  <1>8. Follow(g, h, K)
    <2> HIDE DEF g
    <2>1. \A k \in 0..K : g[k] = IF k = 0 THEN 0 ELSE g[k - 1] + NameLen[es[k].name] + 1
      BY <1>7, Zenon
    <2> QED BY <1>2, <1>4, <1>5, <2>1 DEF Follow
  <1>9. g[K] = h[K]
    <2> HIDE DEF g
    <2>1. Agree(g, h, K)
      BY <1>2, <1>8, SameRecursion
    <2> QED BY <1>2, <2>1 DEF Agree
  <1> HIDE DEF g
  <1> QED BY <1>1, <1>2, <1>4, <1>5, <1>9 DEF LensSteps, K

(* No names need nothing, and one more needs its length and a terminator. *)
LEMMA LensEmpty == nmstrlen(<<>>) = 0
  <1>1. <<>> \in Seq(Entry) /\ Len(<<>>) = 0
    OBVIOUS
  <1>2. PICK n : LensSteps(n, <<>>) /\ nmstrlen(<<>>) = n[0]
    BY <1>1, LensIs
  <1> QED BY <1>2 DEF LensSteps

LEMMA LensAppend ==
    ASSUME NEW es \in Seq(Entry), NEW e \in Entry
    PROVE  nmstrlen(es) \in Nat /\ nmstrlen(Append(es, e)) = nmstrlen(es) + NameLen[e.name] + 1
  <1> DEFINE K == Len(es)
             t == Append(es, e)
  <1>1. t \in Seq(Entry) /\ K \in Nat /\ Len(t) = K + 1 /\ t[K + 1] = e /\ \A k \in 1..K : t[k] = es[k]
    OBVIOUS
  <1> HIDE DEF t
  <1>2. PICK f : LensSteps(f, es) /\ nmstrlen(es) = f[K]
    BY LensIs
  <1>3. PICK g : LensSteps(g, t) /\ nmstrlen(t) = g[Len(t)]
    BY <1>1, LensIs
  <1> HIDE DEF K
  <1>4. K = Len(es)
    BY DEF K
  <1>5. Follow(g, f, K)
    <2>1. g[0] = f[0]
      BY <1>2, <1>3 DEF LensSteps
    <2>2. ASSUME NEW k \in 1..K, g[k-1] = f[k-1] PROVE g[k] = f[k]
      <3>1. k \in 1..Len(t) /\ t[k] = es[k] /\ k \in 1..Len(es)
        BY <1>1, <1>4
      <3>2. g[k] = g[k-1] + NameLen[t[k].name] + 1
        BY <1>3, <3>1, Zenon DEF LensSteps
      <3>3. f[k] = f[k-1] + NameLen[es[k].name] + 1
        BY <1>2, <3>1, Zenon DEF LensSteps
      <3> QED BY <2>2, <3>1, <3>2, <3>3
    <2> QED BY <2>1, <2>2 DEF Follow
  <1>6. g[K] = f[K]
    <2>1. Agree(g, f, K)
      BY <1>1, <1>5, SameRecursion
    <2> QED BY <1>1, <2>1 DEF Agree
  <1>7. g[K + 1] = g[K] + NameLen[e.name] + 1
    <2>1. K + 1 \in 1..Len(t) /\ (K + 1) - 1 = K
      BY <1>1
    <2>2. g[K + 1] = g[(K + 1) - 1] + NameLen[t[K + 1].name] + 1
      BY <1>3, <2>1, Zenon DEF LensSteps
    <2> QED BY <1>1, <2>1, <2>2
  <1>8. f[K] \in Nat
    BY <1>1, <1>2, <1>4 DEF LensSteps
  <1> QED BY <1>1, <1>2, <1>3, <1>6, <1>7, <1>8 DEF t

(* The offset of a name is one more than the bytes of the names before it. *)
LEMMA OffsetsAre ==
    ASSUME NEW es \in Seq(Entry), NEW n, LensSteps(n, es)
    PROVE  sym_offsets(es) = [k \in 1..(Len(es) + 1) |-> 1 + n[k - 1]]
  <1> DEFINE K == Len(es)
             Eqn(f) == f = [k \in 1..(K + 1) |->
                              IF k = 1 THEN 1 ELSE f[k - 1] + NameLen[es[k - 1].name] + 1]
             g == CHOOSE f : Eqn(f)
             h == [k \in 1..(K + 1) |-> 1 + n[k - 1]]
  <1>1. sym_offsets(es) = g
    BY Zenon DEF sym_offsets
  <1>2. K \in Nat /\ \A k \in 1..K : NameLen[es[k].name] \in Nat
    BY Names
  <1>3. n \in [0..K -> Nat] /\ n[0] = 0 /\ \A k \in 1..K : n[k] = n[k-1] + NameLen[es[k].name] + 1
    BY DEF LensSteps
  <1> HIDE DEF K
  <1>4. ASSUME NEW k \in 1..(K + 1), k # 1
        PROVE  h[k] = h[k - 1] + NameLen[es[k - 1].name] + 1
    <2>1. k - 1 \in 1..K /\ k - 1 \in 1..(K + 1) /\ (k - 1) - 1 \in 0..K
      BY <1>2, <1>4
    <2>2. h[k] = 1 + n[k - 1] /\ h[k - 1] = 1 + n[(k - 1) - 1]
      BY <2>1
    <2>3. n[k - 1] = n[(k - 1) - 1] + NameLen[es[k - 1].name] + 1 /\ n[k - 1] \in Nat /\ n[(k - 1) - 1] \in Nat
      BY <1>3, <2>1
    <2>4. NameLen[es[k - 1].name] \in Nat
      BY <1>2, <2>1
    <2>5. \A a, b, l \in Nat : b = a + l + 1 => 1 + b = (1 + a) + l + 1
      OBVIOUS
    <2> HIDE DEF h
    <2>6. 1 + n[k - 1] = (1 + n[(k - 1) - 1]) + NameLen[es[k - 1].name] + 1
      BY <2>3, <2>4, <2>5, Zenon
    <2> QED BY <2>2, <2>6, Zenon
  <1>5. h[1] = 1
    BY <1>2, <1>3
  <1>6. Eqn(h)
    <2>1. ASSUME NEW k \in 1..(K + 1)
          PROVE  h[k] = IF k = 1 THEN 1 ELSE h[k - 1] + NameLen[es[k - 1].name] + 1
      <3> HIDE DEF h
      <3> QED BY <1>4, <1>5
    <2>2. h = [k \in 1..(K + 1) |-> h[k]]
      OBVIOUS
    <2> HIDE DEF h
    <2> QED BY <2>1, <2>2
  <1>7. Eqn(g)
    <2> HIDE DEF Eqn, h
    <2> QED BY <1>6
  <1>8. \A k \in 0..K : g[k + 1] = h[k + 1]
    <2> DEFINE S == {k \in 0..K : g[k + 1] = h[k + 1]}
    <2>1. \A k \in 1..(K + 1) : g[k] = IF k = 1 THEN 1 ELSE g[k - 1] + NameLen[es[k - 1].name] + 1
      <3> HIDE DEF g, h
      <3> QED BY <1>7, Zenon
    <2> HIDE DEF g, h
    <2>2. 0 \in S
      BY <1>2, <1>5, <2>1
    <2>3. ASSUME NEW k \in 1..K, k - 1 \in S PROVE k \in S
      <3>1. k + 1 \in 1..(K + 1) /\ k + 1 # 1 /\ (k + 1) - 1 = k /\ (k - 1) + 1 = k
        BY <1>2
      <3>2. g[k] = h[k]
        BY <2>3, <3>1
      <3> QED BY <1>4, <2>1, <3>1, <3>2
    <2>4. 0..K \subseteq S
      <3> HIDE DEF S
      <3> QED BY <1>2, <2>2, <2>3, IntervalInduction
    <2> QED BY <2>4
  <1>9. g = h
    <2>1. g = [k \in 1..(K + 1) |-> g[k]]
      <3> HIDE DEF g, h
      <3> QED BY <1>7, Zenon
    <2>2. h = [k \in 1..(K + 1) |-> h[k]]
      OBVIOUS
    <2>3. \A k \in 1..(K + 1) : g[k] = h[k]
      <3> HIDE DEF g, h
      <3>1. \A k \in 1..(K + 1) : k - 1 \in 0..K /\ (k - 1) + 1 = k
        BY <1>2
      <3> QED BY <1>8, <3>1
    <2> HIDE DEF g, h
    <2> QED BY <2>1, <2>2, <2>3
  <1> QED BY <1>1, <1>9 DEF K

(* No name reaches the offset of a later one, and the last offset is the   *)
(* size the names need.                                                    *)
LEMMA OffsetsApart ==
    ASSUME NEW es \in Seq(Entry)
    PROVE  /\ \A k \in 1..(Len(es) + 1) : sym_offsets(es)[k] \in Nat
           /\ \A j, k \in 1..Len(es) : j < k =>
                 sym_offsets(es)[k] > sym_offsets(es)[j] + NameLen[es[j].name]
           /\ sym_offsets(es)[Len(es) + 1] = nmstrlen(es) + 1
           /\ nmstrlen(es) \in Nat
  <1> DEFINE K == Len(es)
             off == sym_offsets(es)
  <1>1. PICK n : LensSteps(n, es) /\ nmstrlen(es) = n[K]
    BY LensIs
  <1>2. off = [k \in 1..(K + 1) |-> 1 + n[k - 1]]
    BY <1>1, OffsetsAre
  <1>3. n \in [0..K -> Nat] /\ \A k \in 1..K : n[k] = n[k-1] + NameLen[es[k].name] + 1
    BY <1>1 DEF LensSteps
  <1>4. K \in Nat /\ \A k \in 1..K : NameLen[es[k].name] \in Nat
    BY Names
  <1> HIDE DEF K, off
  <1>5. ASSUME NEW k \in 1..(K + 1) PROVE k - 1 \in 0..K /\ n[k - 1] \in Nat /\ off[k] = 1 + n[k - 1]
    BY <1>2, <1>3, <1>4
  <1>6. \A k \in 0..K : \A j \in 0..k : n[j] <= n[k]
    <2> DEFINE S == {k \in 0..K : \A j \in 0..k : n[j] <= n[k]}
    <2>1. 0 \in S
      BY <1>3, <1>4
    <2>2. ASSUME NEW k \in 1..K, k - 1 \in S PROVE k \in S
      <3>1. n[k - 1] \in Nat /\ n[k] \in Nat /\ NameLen[es[k].name] \in Nat
        BY <1>3, <1>4
      <3>2. n[k - 1] <= n[k]
        BY <1>3, <3>1
      <3>3. ASSUME NEW j \in 0..k PROVE n[j] <= n[k]
        <4>1. CASE j = k
          BY <3>1, <4>1
        <4>2. CASE j # k
          <5>1. j \in 0..(k - 1) /\ n[j] <= n[k - 1]
            BY <2>2, <4>2
          <5>2. n[j] \in Nat
            BY <1>3, <1>4, <5>1
          <5> QED BY <3>1, <3>2, <5>1, <5>2
        <4> QED BY <4>1, <4>2
      <3> QED BY <3>3
    <2>3. 0..K \subseteq S
      <3> HIDE DEF S
      <3> QED BY <1>4, <2>1, <2>2, IntervalInduction
    <2> QED BY <2>3
  <1>7. ASSUME NEW j \in 1..K, NEW k \in 1..K, j < k
        PROVE  off[k] > off[j] + NameLen[es[j].name]
    <2>1. j \in 0..(k - 1) /\ k - 1 \in 0..K /\ j - 1 \in 0..K /\ j \in 1..(K + 1) /\ k \in 1..(K + 1)
      BY <1>4, <1>7
    <2>2. off[k] = 1 + n[k - 1] /\ off[j] = 1 + n[j - 1]
      BY <1>5, <2>1
    <2>3. n[j] = n[j - 1] + NameLen[es[j].name] + 1 /\ n[j] <= n[k - 1]
      BY <1>3, <1>6, <2>1
    <2>4. n[j] \in Nat /\ n[k - 1] \in Nat /\ n[j - 1] \in Nat /\ NameLen[es[j].name] \in Nat
      BY <1>3, <1>4, <2>1
    <2>5. \A a, b, c, l \in Nat : b = a + l + 1 /\ b <= c => 1 + c > (1 + a) + l
      OBVIOUS
    <2>6. 1 + n[k - 1] > (1 + n[j - 1]) + NameLen[es[j].name]
      BY <2>3, <2>4, <2>5, Zenon
    <2> QED BY <2>2, <2>6, Zenon
  <1>8. off[K + 1] = n[K] + 1 /\ n[K] \in Nat
    <2>1. K + 1 \in 1..(K + 1) /\ (K + 1) - 1 = K
      BY <1>4
    <2> QED BY <1>5, <2>1
  <1> QED BY <1>1, <1>5, <1>7, <1>8 DEF K, off

(* The symbol a linker is to find. *)
SymbolOf(e) ==
    [name |-> e.name, addr |-> e.addr, weak |-> e.bind = "WEAK", func |-> e.type = "FUNC"]

(* Every name can be found where it was put. *)
LEMMA StrtabReads ==
    ASSUME NEW es \in Seq(Entry), NEW k \in 1..Len(es)
    PROVE  sym_offsets(es)[k] \in DOMAIN strtab(es) /\ strtab(es)[sym_offsets(es)[k]] = es[k].name
  <1> DEFINE off == sym_offsets(es)
             Ends(j) == off[j] + NameLen[es[j].name]
             Whole(j) == \A m \in (j + 1)..Len(es) : off[m] > Ends(j)
             D == {off[j] : j \in {m \in 1..Len(es) : Whole(m)}}
             At(o) == CHOOSE j \in 1..Len(es) : off[j] = o /\ Whole(j)
  <1>1. strtab(es) = [o \in D |-> es[At(o)].name]
    BY Zenon DEF strtab
  <1>2. ASSUME NEW j \in 1..Len(es) PROVE Whole(j) /\ off[j] \in D
    <2>1. Whole(j)
      <3> SUFFICES ASSUME NEW m \in (j + 1)..Len(es) PROVE off[m] > Ends(j)
        OBVIOUS
      <3>1. m \in 1..Len(es) /\ j < m
        OBVIOUS
      <3> HIDE DEF off
      <3> QED BY <3>1, OffsetsApart DEF off
    <2> HIDE DEF Whole
    <2> QED BY <2>1
  <1>3. ASSUME NEW j \in 1..Len(es), off[j] = off[k] PROVE j = k
    <2>1. off[j] \in Nat /\ off[k] \in Nat /\ NameLen[es[j].name] \in Nat /\ NameLen[es[k].name] \in Nat
      BY OffsetsApart, Names
    <2>2. j < k => off[k] > off[j] + NameLen[es[j].name]
      BY OffsetsApart
    <2>3. k < j => off[j] > off[k] + NameLen[es[k].name]
      BY OffsetsApart
    <2> HIDE DEF off
    <2> QED BY <1>3, <2>1, <2>2, <2>3
  <1>4. At(off[k]) = k
    <2> HIDE DEF Whole, off
    <2> QED BY <1>2, <1>3
  <1> HIDE DEF At, D
  <1> QED BY <1>1, <1>2, <1>4

(* A library reads back as the symbols it was made of, and its string      *)
(* table is filled to its end if its size is that of the names.            *)
LEMMA ImageReads ==
    ASSUME NEW es \in Seq(Entry), NEW len
    PROVE  /\ elf_image(es, len).buf = len + 1
           /\ elf_image(es, len).top = nmstrlen(es) + 1
           /\ Len(elf_image(es, len).dynsym) = Len(es)
           /\ elf_image(es, len).hash = h_buf(Len(es))
           /\ \A k \in 1..Len(es) : SymbolAt(elf_image(es, len), k) = SymbolOf(es[k])
  <1> DEFINE img == elf_image(es, len)
             off == sym_offsets(es)
             ds == [k \in 1..Len(es) |-> Sym(es[k], off[k])]
  <1>1. /\ img.buf = len + 1 /\ img.top = off[Len(es) + 1] /\ img.strtab = strtab(es)
        /\ img.dynsym = ds /\ img.hash = h_buf(Len(es))
    BY DEF elf_image
  <1>2. Len(es) \in Nat
    OBVIOUS
  <1>3. ASSUME NEW k \in 1..Len(es)
        PROVE  SymbolAt(img, k) = SymbolOf(es[k])
    <2>1. ds[k] = Sym(es[k], off[k])
      OBVIOUS
    <2>2. off[k] \in DOMAIN strtab(es) /\ strtab(es)[off[k]] = es[k].name
      BY StrtabReads
    <2>3. SymbolAt(img, k) = LET s == Sym(es[k], off[k])
                             IN [name |-> IF s.st_name \in DOMAIN strtab(es) THEN strtab(es)[s.st_name] ELSE "?",
                                 addr |-> s.st_value, weak |-> s.bind = "STB_WEAK", func |-> s.type = "STT_FUNC"]
      <3> HIDE DEF img, off
      <3> QED BY <1>1, <2>1 DEF SymbolAt
    <2>4. /\ Sym(es[k], off[k]).st_name = off[k] /\ Sym(es[k], off[k]).st_value = es[k].addr
          /\ (Sym(es[k], off[k]).bind = "STB_WEAK") = (es[k].bind = "WEAK")
          /\ (Sym(es[k], off[k]).type = "STT_FUNC") = (es[k].type = "FUNC")
      BY DEF Sym
    <2> HIDE DEF img, off
    <2> QED BY <2>2, <2>3, <2>4 DEF SymbolOf
  <1>4. Len(ds) = Len(es)
    BY <1>2, MapSeq
  <1> HIDE DEF img, ds
  <1> QED BY <1>1, <1>3, <1>4, OffsetsApart DEF img

(* The bucket is empty. *)
LEMMA Bucket == ASSUME NEW n \in Nat PROVE h_buf(n)[3] = 0
  <1> DEFINE a == <<1, n + 1, 0>>
             b == [k \in 1..n |-> k]
  <1>1. a \in Seq(Nat) /\ Len(a) = 3 /\ a[3] = 0
    OBVIOUS
  <1>2. b \in Seq(Nat) /\ Len(b) = n
    OBVIOUS
  <1>3. h_buf(n) = a \o b
    BY Zenon DEF h_buf
  <1> HIDE DEF a, b
  <1>4. (a \o b)[3] = a[3]
    <2>1. \A k \in 1..Len(a) + Len(b) : (a \o b)[k] = IF k <= Len(a) THEN a[k] ELSE b[k - Len(a)]
      BY <1>1, <1>2, ConcatProperties
    <2>2. 3 \in 1..Len(a) + Len(b) /\ 3 <= Len(a)
      <3>1. PICK la, lb \in Nat : la = Len(a) /\ lb = Len(b) /\ la = 3
        BY <1>1, <1>2
      <3>2. 3 \in 1..la + lb /\ 3 <= la
        BY <3>1
      <3> QED BY <3>1, <3>2, Zenon
    <2> QED BY <2>1, <2>2, Zenon
  <1> QED BY <1>1, <1>3, <1>4, Zenon

(* So the walk of a dynamic linker ends at once. *)
LEMMA WalkEnds ==
    ASSUME NEW es \in Seq(Entry), NEW len
    PROVE  HashWalk(elf_image(es, len)) = [k \in 0..(Len(es) + 1) |-> 0]
  <1> DEFINE img == elf_image(es, len)
             K == Len(img.dynsym) + 1
             chain(v) == IF 4 + v <= Len(img.hash) THEN img.hash[4 + v] ELSE -1
             Eqn(w) == w = [k \in 0..K |-> IF k = 0 THEN img.hash[3]
                                           ELSE IF w[k - 1] <= 0 THEN w[k - 1] ELSE chain(w[k - 1])]
             g == CHOOSE w : Eqn(w)
             h == [k \in 0..K |-> 0]
  <1>1. HashWalk(img) = g
    BY Zenon DEF HashWalk
  <1>2. img.hash[3] = 0 /\ K = Len(es) + 1 /\ K \in Nat
    BY ImageReads, Bucket
  <1> HIDE DEF img, K, chain
  <1>3. Eqn(h)
    <2>1. ASSUME NEW k \in 0..K
          PROVE  h[k] = IF k = 0 THEN img.hash[3]
                        ELSE IF h[k - 1] <= 0 THEN h[k - 1] ELSE chain(h[k - 1])
      BY <1>2
    <2>2. h = [k \in 0..K |-> h[k]]
      OBVIOUS
    <2> HIDE DEF h
    <2> QED BY <2>1, <2>2
  <1>4. Eqn(g)
    <2> HIDE DEF Eqn, h
    <2> QED BY <1>3
  <1>5. Agree(g, h, K)
    <2>1. \A k \in 0..K : g[k] = IF k = 0 THEN img.hash[3]
                                 ELSE IF g[k - 1] <= 0 THEN g[k - 1] ELSE chain(g[k - 1])
      <3> HIDE DEF g, h
      <3> QED BY <1>4, Zenon
    <2>2. Follow(g, h, K)
      <3> HIDE DEF g
      <3> QED BY <1>2, <2>1 DEF Follow
    <2> HIDE DEF g, h
    <2> QED BY <1>2, <2>2, SameRecursion
  <1>6. g = h
    <2>1. g = [k \in 0..K |-> g[k]]
      <3> HIDE DEF g, h
      <3> QED BY <1>4, Zenon
    <2>2. h = [k \in 0..K |-> h[k]]
      OBVIOUS
    <2> HIDE DEF g, h
    <2> QED BY <1>5, <2>1, <2>2 DEF Agree
  <1> QED BY <1>1, <1>2, <1>6 DEF img
-----------------------------------------------------------------------------
(* The symbols of an object *)

FlattenSteps(f, ss) == f[0] = <<>> /\ \A k \in 1..Len(ss) : f[k] = f[k-1] \o ss[k]

(* FlattenSeq is computed by its steps. *)
LEMMA FlattenIs ==
    ASSUME NEW X, NEW ss \in Seq(Seq(X))
    PROVE  \E f \in [0..Len(ss) -> Seq(X)] : FlattenSteps(f, ss) /\ FlattenSeq(ss) = f[Len(ss)]
  <1> DEFINE K == Len(ss)
             V == Seq(X)
             none == <<>>
             step == [k \in 1..K |-> [v \in V |-> v \o ss[k]]]
             Eqn(f) == f = [k \in 1..K |-> IF k = 1 THEN ss[k] ELSE f[k - 1] \o ss[k]]
             g == CHOOSE f : Eqn(f)
  <1>1. FlattenSeq(ss) = IF K = 0 THEN ss ELSE g[K]
    BY Zenon DEF FlattenSeq
  <1>2. K \in Nat /\ none \in V /\ \A k \in 1..K : ss[k] \in V /\ none \o ss[k] = ss[k]
    OBVIOUS
  <1>3. \A v, w \in V : v \o w \in V
    OBVIOUS
  <1>4. K = 0 => ss = none
    OBVIOUS
  <1> HIDE DEF K, V, none
  <1>5. step \in [1..K -> [V -> V]]
    BY <1>2, <1>3
  <1>6. PICK h : Recursive(h, V, none, K, step)
    <2> HIDE DEF step
    <2> QED BY <1>2, <1>5, Recursion
  <1>7. h \in [0..K -> V] /\ h[0] = none
    BY <1>6 DEF Recursive
  <1>8. ASSUME NEW k \in 1..K PROVE h[k] = h[k - 1] \o ss[k]
    <2>1. h[k - 1] \in V
      BY <1>2, <1>7
    <2>2. h[k] = step[k][h[k - 1]]
      BY <1>6 DEF Recursive
    <2>3. step[k][h[k - 1]] = h[k - 1] \o ss[k]
      BY <2>1
    <2> HIDE DEF step
    <2> QED BY <2>2, <2>3
  <1> DEFINE r == [k \in 1..K |-> h[k]]
  <1>9. Eqn(r)
    <2>1. ASSUME NEW k \in 1..K PROVE r[k] = IF k = 1 THEN ss[k] ELSE r[k - 1] \o ss[k]
      <3>1. CASE k = 1
        <4>1. h[k] = h[k - 1] \o ss[k]
          BY <1>8
        <4>2. h[k - 1] = none
          BY <1>7, <3>1
        <4>3. h[k] = ss[k]
          BY <1>2, <4>1, <4>2
        <4> QED BY <3>1, <4>3
      <3>2. CASE k # 1
        <4>1. k - 1 \in 1..K
          BY <1>2, <3>2
        <4>2. r[k] = h[k] /\ r[k - 1] = h[k - 1]
          BY <4>1
        <4> HIDE DEF r
        <4> QED BY <1>8, <3>2, <4>2
      <3> QED BY <3>1, <3>2
    <2>2. r = [k \in 1..K |-> r[k]]
      OBVIOUS
    <2> HIDE DEF r
    <2> QED BY <2>1, <2>2
  <1>10. Eqn(g)
    <2> HIDE DEF Eqn, r
    <2> QED BY <1>9
  <1>11. \A k \in 1..K : g[k] = IF k = 1 THEN ss[k] ELSE g[k - 1] \o ss[k]
    <2> HIDE DEF g
    <2> QED BY <1>10, Zenon
  <1> HIDE DEF g
  <1>12. \A k \in 0..K : k # 0 => g[k] = h[k]
    <2> DEFINE S == {k \in 0..K : k # 0 => g[k] = h[k]}
    <2>1. 0 \in S
      BY <1>2
    <2>2. ASSUME NEW k \in 1..K, k - 1 \in S PROVE k \in S
      <3>1. CASE k = 1
        <4>1. g[k] = ss[k]
          BY <1>11, <3>1
        <4>2. h[k] = h[k - 1] \o ss[k]
          BY <1>8
        <4>3. h[k - 1] = none
          BY <1>7, <3>1
        <4>4. h[k] = ss[k]
          BY <1>2, <4>2, <4>3
        <4> QED BY <1>2, <4>1, <4>4
      <3>2. CASE k # 1
        <4>1. g[k - 1] = h[k - 1]
          BY <2>2, <3>2
        <4>2. g[k] = g[k - 1] \o ss[k]
          BY <1>11, <3>2, Zenon
        <4>3. h[k] = h[k - 1] \o ss[k]
          BY <1>8
        <4>4. g[k] = h[k]
          BY <4>1, <4>2, <4>3, Zenon
        <4> QED BY <1>2, <4>4
      <3> QED BY <3>1, <3>2
    <2>3. 0..K \subseteq S
      <3> HIDE DEF S
      <3> QED BY <1>2, <2>1, <2>2, IntervalInduction
    <2> QED BY <2>3
  <1>13. FlattenSeq(ss) = h[K]
    BY <1>1, <1>2, <1>4, <1>7, <1>12
  <1> QED BY <1>7, <1>8, <1>13 DEF FlattenSteps, K, V, none

(* Flattening keeps the type, nothing gives nothing, and what comes last   *)
(* ends up last.                                                           *)
LEMMA FlattenType ==
    ASSUME NEW X, NEW ss \in Seq(Seq(X))
    PROVE  FlattenSeq(ss) \in Seq(X)
  BY FlattenIs

LEMMA FlattenEmpty == FlattenSeq(<<>>) = <<>>
  BY DEF FlattenSeq

LEMMA FlattenAppend ==
    ASSUME NEW X, NEW ss \in Seq(Seq(X)), NEW x \in Seq(X)
    PROVE  FlattenSeq(Append(ss, x)) = FlattenSeq(ss) \o x
  <1> DEFINE V == Seq(X)
             t == Append(ss, x)
  <1>1. ss \in Seq(V) /\ x \in V
    OBVIOUS
  <1> HIDE DEF V
  <1>2. /\ t \in Seq(V) /\ Len(ss) \in Nat /\ Len(t) = Len(ss) + 1
        /\ t[Len(ss) + 1] = x /\ \A k \in 1..Len(ss) : t[k] = ss[k]
    BY <1>1
  <1> HIDE DEF t
  <1>3. PICK f : FlattenSteps(f, ss) /\ FlattenSeq(ss) = f[Len(ss)]
    BY <1>1, FlattenIs DEF V
  <1>4. PICK g : FlattenSteps(g, t) /\ FlattenSeq(t) = g[Len(t)]
    BY <1>2, FlattenIs DEF V
  <1>5. Follow(g, f, Len(ss))
    <2>1. g[0] = f[0]
      BY <1>3, <1>4 DEF FlattenSteps
    <2>2. ASSUME NEW k \in 1..Len(ss), g[k-1] = f[k-1] PROVE g[k] = f[k]
      <3>1. k \in 1..Len(t) /\ t[k] = ss[k]
        BY <1>2
      <3>2. g[k] = g[k-1] \o t[k]
        BY <1>4, <3>1 DEF FlattenSteps
      <3>3. f[k] = f[k-1] \o ss[k]
        BY <1>3 DEF FlattenSteps
      <3> QED BY <2>2, <3>1, <3>2, <3>3
    <2> QED BY <2>1, <2>2 DEF Follow
  <1>6. g[Len(ss)] = f[Len(ss)]
    <2>1. Agree(g, f, Len(ss))
      BY <1>2, <1>5, SameRecursion
    <2> QED BY <1>2, <2>1 DEF Agree
  <1>7. g[Len(t)] = g[Len(ss)] \o x
    <2>1. Len(t) \in 1..Len(t) /\ Len(t) - 1 = Len(ss)
      BY <1>2
    <2>2. g[Len(t)] = g[Len(t) - 1] \o t[Len(t)]
      BY <1>4, <2>1 DEF FlattenSteps
    <2> QED BY <1>2, <2>1, <2>2
  <1> QED BY <1>3, <1>4, <1>6, <1>7 DEF t

FlatTables(syms, ss, S) == FlattenSeq([k \in 1..Len(Among(ss, S)) |-> syms[Among(ss, S)[k]]])
FlatSections(syms, ss, S) ==
    FlattenSeq([k \in 1..Len(ss) |-> IF ss[k] \in S THEN syms[ss[k]] ELSE <<>>])

(* The symbol tables of an object, flattened, are its sections flattened   *)
(* with nothing for the other ones.                                        *)
LEMMA TablesFlat ==
    ASSUME NEW X, NEW D, NEW syms \in [D -> Seq(X)], NEW S, NEW ss \in Seq(D)
    PROVE  FlatTables(syms, ss, S) = FlatSections(syms, ss, S)
  <1> DEFINE V == Seq(X)
             none == <<>>
             Taken(t) == [k \in 1..Len(Among(t, S)) |-> syms[Among(t, S)[k]]]
             All(t) == [k \in 1..Len(t) |-> IF t[k] \in S THEN syms[t[k]] ELSE none]
             Same(t) == FlattenSeq(Taken(t)) = FlattenSeq(All(t))
             T == {t \in Seq(D) : Same(t)}
  <1>1. none \in V /\ \A v \in V : v \o none = v
    OBVIOUS
  <1>2. \A v \in Seq(V), x \in V : FlattenSeq(Append(v, x)) = FlattenSeq(v) \o x /\ FlattenSeq(v) \in V
    BY FlattenAppend, FlattenType
  <1>3. syms \in [D -> V]
    OBVIOUS
  <1>4. <<>> \in T
    <2>1. Taken(<<>>) = <<>> /\ All(<<>>) = <<>>
      BY AmongEmpty
    <2> HIDE DEF Taken, All
    <2> QED BY <2>1
  <1> HIDE DEF V, none
  <1>5. ASSUME NEW t \in Seq(D) PROVE Taken(t) \in Seq(V) /\ All(t) \in Seq(V)
    <2>1. Among(t, S) \in Seq(D)
      BY AmongType
    <2>2. Taken(t) \in Seq(V)
      <3>1. \A k \in 1..Len(Among(t, S)) : syms[Among(t, S)[k]] \in V
        BY <1>3, <2>1
      <3> QED BY <2>1, <3>1
    <2>3. All(t) \in Seq(V)
      <3>1. \A k \in 1..Len(t) : (IF t[k] \in S THEN syms[t[k]] ELSE none) \in V
        BY <1>1, <1>3
      <3> QED BY <3>1
    <2> QED BY <2>2, <2>3
  <1>6. ASSUME NEW t \in Seq(D), NEW x \in D, t \in T PROVE Append(t, x) \in T
    <2> DEFINE u == Append(t, x)
               a == Among(t, S)
    <2>1. u \in Seq(D) /\ Len(u) = Len(t) + 1 /\ u[Len(t) + 1] = x /\ Len(t) \in Nat
          /\ \A k \in 1..Len(t) : u[k] = t[k]
      OBVIOUS
    <2>2. Among(u, S) = IF x \in S THEN Append(a, x) ELSE a
      BY AmongAppend
    <2>3. a \in Seq(D)
      BY AmongType
    <2> SUFFICES u \in T
      OBVIOUS
    <2> HIDE DEF u, a
    <2>4. All(u) = Append(All(t), IF x \in S THEN syms[x] ELSE none)
      <3> DEFINE y == IF x \in S THEN syms[x] ELSE none
      <3>1. y \in V
        BY <1>1, <1>3
      <3>2. All(u) \in Seq(V) /\ All(t) \in Seq(V)
        BY <1>5, <2>1
      <3>3. Len(All(u)) = Len(t) + 1 /\ Len(All(t)) = Len(t)
        BY <2>1, <3>2
      <3>4. \A k \in 1..Len(t) : All(u)[k] = All(t)[k]
        BY <2>1
      <3>5. All(u)[Len(t) + 1] = y
        BY <2>1
      <3> HIDE DEF All, y
      <3>6. All(u) = Append(All(t), y)
        BY <3>1, <3>2, <3>3, <3>4, <3>5, IsAppend
      <3> QED BY <3>6 DEF y
    <2>5. CASE x \in S
      <3>1. Taken(u) = Append(Taken(t), syms[x])
        <4>1. Among(u, S) = Append(a, x)
          BY <2>2, <2>5
        <4>2. /\ Append(a, x) \in Seq(D) /\ Len(Append(a, x)) = Len(a) + 1 /\ Len(a) \in Nat
              /\ Append(a, x)[Len(a) + 1] = x /\ \A k \in 1..Len(a) : Append(a, x)[k] = a[k]
          BY <2>3
        <4>3. Taken(u) \in Seq(V) /\ Taken(t) \in Seq(V) /\ syms[x] \in V
          BY <1>3, <1>5, <2>1
        <4>4. Taken(u) = [k \in 1..(Len(a) + 1) |-> syms[Append(a, x)[k]]]
          BY <4>1, <4>2
        <4>5. Taken(t) = [k \in 1..Len(a) |-> syms[a[k]]]
          BY DEF a
        <4> HIDE DEF Taken
        <4>6. Len(Taken(u)) = Len(a) + 1 /\ Len(Taken(t)) = Len(a)
          BY <4>2, <4>3, <4>4, <4>5
        <4>7. \A k \in 1..Len(a) : Taken(u)[k] = Taken(t)[k]
          BY <4>2, <4>4, <4>5
        <4>8. Taken(u)[Len(a) + 1] = syms[x]
          BY <4>2, <4>4
        <4> QED BY <4>3, <4>6, <4>7, <4>8, IsAppend
      <3>2. Taken(t) \in Seq(V) /\ All(t) \in Seq(V) /\ syms[x] \in V
        BY <1>3, <1>5
      <3>3. Same(t)
        BY <1>6
      <3> HIDE DEF Taken, All
      <3> QED BY <1>2, <2>1, <2>4, <2>5, <3>1, <3>2, <3>3
    <2>6. CASE x \notin S
      <3>1. Taken(u) = Taken(t)
        BY <2>2, <2>6 DEF a
      <3>2. All(t) \in Seq(V)
        BY <1>5
      <3>3. Same(t)
        BY <1>6
      <3>4. FlattenSeq(All(t)) \in V
        <4> HIDE DEF All
        <4> QED BY <1>1, <1>2, <3>2
      <3> HIDE DEF Taken, All
      <3>5. FlattenSeq(All(u)) = FlattenSeq(All(t)) \o none
        BY <1>1, <1>2, <2>4, <2>6, <3>2
      <3> QED BY <1>1, <2>1, <3>1, <3>3, <3>4, <3>5
    <2> QED BY <2>5, <2>6
  <1>7. ss \in T
    <2> HIDE DEF T
    <2> QED BY <1>4, <1>6, SeqInduction
  <1> QED BY <1>7 DEF none, FlatTables, FlatSections

ObjSym == [name : DOMAIN NameLen, value : Nat, undef : BOOLEAN]
Sec == [type : STRING, syms : Seq(ObjSym)]

(* What elf_read_syms gives is what a library of the object has to have. *)
LEMMA ObjectEntries ==
    ASSUME NEW ko \in DOMAIN Objects
    PROVE  /\ elf_read_syms(Objects[ko]) \in Seq(Entry)
           /\ KoSymbols(ko) = [n \in 1..Len(elf_read_syms(Objects[ko])) |->
                                  SymbolOf(elf_read_syms(Objects[ko])[n])]
  <1> DEFINE ss == Objects[ko]
             Table(s) == s.type \in {"SYMTAB", "DYNSYM"}
             S == {s \in Range(ss) : Table(s)}
             tabs == Among(ss, S)
             flat == FlattenSeq([k \in 1..Len(tabs) |-> tabs[k].syms])
             all == FlattenSeq([k \in 1..Len(ss) |-> IF Table(ss[k]) THEN ss[k].syms ELSE <<>>])
             Kept(q) == {s \in Range(q) : ~(s.name = "" /\ s.value = 0)}
             ents == Among(flat, Kept(flat))
             es == [k \in 1..Len(ents) |-> seInit(ents[k])]
             named == Among(all, {s \in Range(all) : s.name # "" \/ s.value # 0})
             symf == [x \in Sec |-> x.syms]
             V == Seq(ObjSym)
  <1>1. ss \in Seq(Sec)
    BY ConstantsAssumption DEF Sec, ObjSym
  <1>2. elf_read_syms(ss) = es
    BY Zenon DEF elf_read_syms
  <1>3. KoSymbols(ko) = [n \in 1..Len(named) |-> [name |-> named[n].name, weak |-> FALSE, func |-> FALSE,
                                addr |-> IF named[n].undef THEN 0 ELSE named[n].value]]
    BY Zenon DEF KoSymbols
  <1>4. symf \in [Sec -> V]
    BY DEF Sec
  <1>5. tabs \in Seq(Sec)
    BY <1>1, AmongType
  <1>6. \A k \in 1..Len(ss) : ss[k] \in Sec /\ (ss[k] \in S <=> Table(ss[k])) /\ symf[ss[k]] = ss[k].syms
    <2>1. \A k \in 1..Len(ss) : ss[k] \in Range(ss) /\ ss[k] \in Sec
      <3> HIDE DEF ss
      <3> QED BY <1>1 DEF Range
    <2> HIDE DEF ss, Table
    <2> QED BY <2>1
  <1> HIDE DEF ss, S
  <1>7. flat = all
    <2>1. [k \in 1..Len(tabs) |-> tabs[k].syms] = [k \in 1..Len(tabs) |-> symf[tabs[k]]]
      <3>1. \A x \in Sec : symf[x] = x.syms
        OBVIOUS
      <3>2. \A k \in 1..Len(tabs) : tabs[k] \in Sec
        <4> HIDE DEF tabs
        <4> QED BY <1>5
      <3> HIDE DEF tabs, symf
      <3> QED BY <3>1, <3>2
    <2>2. [k \in 1..Len(ss) |-> IF Table(ss[k]) THEN ss[k].syms ELSE <<>>]
        = [k \in 1..Len(ss) |-> IF ss[k] \in S THEN symf[ss[k]] ELSE <<>>]
      <3> HIDE DEF symf, Table
      <3> QED BY <1>6
    <2>3. FlattenSeq([k \in 1..Len(tabs) |-> symf[tabs[k]]])
        = FlattenSeq([k \in 1..Len(ss) |-> IF ss[k] \in S THEN symf[ss[k]] ELSE <<>>])
      <3> HIDE DEF symf
      <3>1. FlatTables(symf, ss, S) = FlatSections(symf, ss, S)
        BY <1>1, <1>4, TablesFlat DEF V
      <3> QED BY <3>1, Zenon DEF FlatTables, FlatSections
    <2> HIDE DEF tabs, Table, symf
    <2> QED BY <2>1, <2>2, <2>3
  <1>8. flat \in V
    <2>1. \A k \in 1..Len(tabs) : tabs[k].syms \in V
      <3>1. \A x \in Sec : symf[x] = x.syms
        OBVIOUS
      <3> HIDE DEF tabs, symf, V
      <3> QED BY <1>4, <1>5, <3>1
    <2>2. [k \in 1..Len(tabs) |-> tabs[k].syms] \in Seq(V)
      <3> HIDE DEF tabs, V
      <3> QED BY <1>5, <2>1
    <2> QED BY <2>2, FlattenType
  <1>9. named = ents
    <2> HIDE DEF flat, all
    <2>1. {s \in Range(all) : s.name # "" \/ s.value # 0} = Kept(flat)
      BY <1>7
    <2> QED BY <1>7, <2>1
  <1>10. ents \in V
    <2> HIDE DEF flat
    <2> QED BY <1>8, AmongType
  <1> HIDE DEF ents, named
  <1>11. ASSUME NEW k \in 1..Len(ents)
         PROVE  /\ seInit(ents[k]) \in Entry
                /\ SymbolOf(seInit(ents[k])) = [name |-> ents[k].name, weak |-> FALSE, func |-> FALSE,
                                addr |-> IF ents[k].undef THEN 0 ELSE ents[k].value]
    <2>1. ents[k] \in ObjSym
      BY <1>10
    <2>2. ents[k].name \in DOMAIN NameLen /\ (IF ents[k].undef THEN 0 ELSE ents[k].value) \in Nat
      BY <2>1 DEF ObjSym
    <2> QED BY <2>2 DEF seInit, SymbolEntry, SymbolOf, Entry
  <1>12. es \in Seq(Entry) /\ Len(es) = Len(ents) /\ \A k \in 1..Len(ents) : es[k] = seInit(ents[k])
    <2>1. Len(ents) \in Nat /\ \A k \in 1..Len(ents) : es[k] = seInit(ents[k]) /\ es[k] \in Entry
      <3>1. Len(ents) \in Nat
        BY <1>10
      <3>2. \A k \in 1..Len(ents) : es[k] = seInit(ents[k])
        OBVIOUS
      <3> HIDE DEF es
      <3> QED BY <1>11, <3>1, <3>2
    <2>2. es = [k \in 1..Len(ents) |-> es[k]]
      OBVIOUS
    <2> HIDE DEF es
    <2> QED BY <2>1, <2>2
  <1> HIDE DEF es
  <1>13. KoSymbols(ko) = [n \in 1..Len(es) |-> SymbolOf(es[n])]
    BY <1>3, <1>9, <1>11, <1>12
  <1> QED BY <1>2, <1>12, <1>13 DEF ss
-----------------------------------------------------------------------------
(* Descriptors *)

IsFds(F) == F = [n \in DOMAIN F |-> F[n]] /\ IsFiniteSet(DOMAIN F)

(* There is always a lowest free descriptor, and below it all are taken. *)
LEMMA LowestIs ==
    ASSUME NEW F, IsFds(F)
    PROVE  /\ Lowest(F) \in 3..(3 + Cardinality(DOMAIN F)) /\ Lowest(F) \notin DOMAIN F
           /\ Lowest(F) \in Nat /\ Cardinality(DOMAIN F) \in Nat
  <1> DEFINE D == DOMAIN F
             c == Cardinality(D)
             T == {n \in 3..(3 + c) : n \notin D}
             P(n) == n \notin D /\ \A m \in 3..(n - 1) : m \in D
  <1>1. IsFiniteSet(D) /\ c \in Nat
    BY FS_CardinalityType DEF IsFds
  <1> HIDE DEF D, c
  <1>2. T # {}
    <2> SUFFICES ASSUME 3..(3 + c) \subseteq D PROVE FALSE
      OBVIOUS
    <2>1. Cardinality(3..(3 + c)) = c + 1 /\ 3 \in Int /\ 3 + c \in Int
      BY <1>1, FS_Interval
    <2>2. Cardinality(3..(3 + c)) <= Cardinality(D)
      BY <1>1, FS_Subset
    <2> QED BY <1>1, <2>1, <2>2 DEF c
  <1>3. T \subseteq Nat
    BY <1>1
  <1>4. PICK n \in T : \A j \in T : n <= j
    <2> HIDE DEF T
    <2> QED BY <1>2, <1>3, LeastElement
  <1>5. n \in 3..(3 + c) /\ P(n)
    BY <1>1, <1>4
  <1>6. Lowest(F) = CHOOSE m \in 3..(3 + c) : P(m)
    BY Zenon DEF Lowest, c, D
  <1>7. Lowest(F) \in 3..(3 + c) /\ P(Lowest(F))
    <2> HIDE DEF P
    <2> QED BY <1>5, <1>6
  <1> QED BY <1>1, <1>7 DEF c, D

(* What open and close do to the descriptors. *)
LEMMA OpenIs ==
    ASSUME NEW F, IsFds(F), NEW what
    PROVE  /\ IsFds(OpenFd(F, what)) /\ DOMAIN OpenFd(F, what) = DOMAIN F \cup {Lowest(F)}
           /\ OpenFd(F, what)[Lowest(F)] = what
           /\ \A n \in DOMAIN F : OpenFd(F, what)[n] = F[n]
           /\ Cardinality(DOMAIN OpenFd(F, what)) = Cardinality(DOMAIN F) + 1
  <1>1. Lowest(F) \notin DOMAIN F /\ IsFiniteSet(DOMAIN F)
    BY LowestIs DEF IsFds
  <1>2. /\ IsFiniteSet(DOMAIN F \cup {Lowest(F)})
        /\ Cardinality(DOMAIN F \cup {Lowest(F)}) = Cardinality(DOMAIN F) + 1
    BY <1>1, FS_AddElement
  <1>3. DOMAIN OpenFd(F, what) = DOMAIN F \cup {Lowest(F)}
    BY DEF OpenFd
  <1>4. \A n \in DOMAIN F \cup {Lowest(F)} :
            OpenFd(F, what)[n] = IF n = Lowest(F) THEN what ELSE F[n]
    BY DEF OpenFd
  <1>5. OpenFd(F, what) = [n \in DOMAIN OpenFd(F, what) |-> OpenFd(F, what)[n]]
    BY DEF OpenFd
  <1> QED BY <1>1, <1>2, <1>3, <1>4, <1>5 DEF IsFds

LEMMA RestrictIs ==
    ASSUME NEW F, IsFds(F), NEW D, D \subseteq DOMAIN F
    PROVE  /\ IsFds(Restrict(F, D)) /\ DOMAIN Restrict(F, D) = D
           /\ \A n \in D : Restrict(F, D)[n] = F[n]
  <1>1. IsFiniteSet(D)
    BY FS_Subset DEF IsFds
  <1> QED BY <1>1 DEF IsFds, Restrict

LEMMA CloseIs ==
    ASSUME NEW F, IsFds(F), NEW n
    PROVE  /\ IsFds(CloseFd(F, n)) /\ DOMAIN CloseFd(F, n) = DOMAIN F \ {n}
           /\ \A m \in DOMAIN F \ {n} : CloseFd(F, n)[m] = F[m]
           /\ n \notin DOMAIN F => CloseFd(F, n) = F
  <1>1. CloseFd(F, n) = Restrict(F, DOMAIN F \ {n})
    BY DEF CloseFd
  <1>2. n \notin DOMAIN F => Restrict(F, DOMAIN F \ {n}) = F
    <2> SUFFICES ASSUME n \notin DOMAIN F PROVE Restrict(F, DOMAIN F \ {n}) = F
      OBVIOUS
    <2>1. DOMAIN F \ {n} = DOMAIN F
      OBVIOUS
    <2> QED BY <2>1 DEF Restrict, IsFds
  <1> QED BY <1>1, <1>2, RestrictIs

(* What is opened and closed again leaves no trace. *)
LEMMA CloseOpened ==
    ASSUME NEW F, IsFds(F), NEW what
    PROVE  CloseFd(OpenFd(F, what), Lowest(F)) = F
  <1> DEFINE G == OpenFd(F, what)
             C == CloseFd(G, Lowest(F))
  <1>1. /\ IsFds(G) /\ DOMAIN G = DOMAIN F \cup {Lowest(F)} /\ Lowest(F) \notin DOMAIN F
        /\ \A n \in DOMAIN F : G[n] = F[n]
    BY OpenIs, LowestIs
  <1> HIDE DEF G
  <1>2. IsFds(C) /\ DOMAIN C = DOMAIN G \ {Lowest(F)} /\ \A m \in DOMAIN G \ {Lowest(F)} : C[m] = G[m]
    BY <1>1, CloseIs
  <1> HIDE DEF C
  <1>3. DOMAIN C = DOMAIN F /\ \A n \in DOMAIN F : C[n] = F[n]
    BY <1>1, <1>2
  <1>4. C = F
    BY <1>2, <1>3 DEF IsFds
  <1> QED BY <1>4 DEF C, G
-----------------------------------------------------------------------------
(* The inductive invariant, in parts *)

Early == {"init", "opts", "bos", "exec", "open"}
Late == {"kallsyms", "lines", "mods", "cleanup"}

Opts == {parsekospec(s).kldopts : s \in Specs}
SoNames == {sofullpath(x[1], parsekospec(x[2]).modnm) : x \in Range(Tree) \X Specs}
Bo == [kofnm : Range(Tree), kldopts : Opts, kofd : Nat, sofnm : SoNames, sofd : Nat]
Modules == {l.module : l \in Lines} \cup {None}
SymTab == [name : Modules, entries : Seq(Entry), max : Nat, nmstrlen : Nat]

(* The arrays hold what was given, and have room for it. *)
Arrays ==
    /\ dirs \in Seq(Dirs) /\ dirmax \in Nat /\ Len(dirs) <= dirmax
    /\ kospec \in Seq(Specs) /\ kospecmax \in Nat /\ Len(kospec) <= kospecmax
    /\ bos \in Seq(Bo)

(* Where the program is, and what it has not come to yet. *)
Place ==
    /\ pc \in Early \cup {"prc", "down"} \cup Late
    /\ i \in Nat \ {0} /\ faults \in 0..MaxFaults
    /\ prockallsyms \in BOOLEAN /\ wild \in BOOLEAN
    /\ status \in {None, "success", "failure", "crash"}
    /\ status # None <=> pc \in {"cleanup", "down"}
    /\ status = "crash" => pc = "down"
    /\ Len(bos) <= Len(kospec)
    /\ pc \in {"init", "opts"} => bos = <<>> /\ i = 1
    /\ pc = "bos" => i = Len(bos) + 1
    /\ pc \in {"exec", "open", "prc"} \cup Late => Len(bos) = Len(kospec)
    /\ pc = "prc" => i <= Len(bos) + 1
    /\ pc \in Early => kotblf = <<>>
    /\ pc \in Early \cup {"prc"} => kotbl = <<>>
    /\ pc \in Early \cup {"prc", "kallsyms"} => klines = <<>> /\ kern = NoSyms /\ mods = <<>>
    /\ wild => pc \in {"prc", "down"} \cup Late
    /\ wild /\ pc # "down" => faults # 0

(* The objects are those of the specifications, each once. *)
Parsed(n) == parsekospec(kospec[n])
Line(n) == <<bos[n].kofnm, bos[n].kldopts>>
Objs ==
    /\ \A n \in 1..Len(bos) : LineFor(kospec[n], Line(n))
    /\ \A j, k \in 1..Len(bos) : bos[j].kofnm = bos[k].kofnm => j = k

(* The descriptors: each is a stream or that of an object, and those of    *)
(* different objects differ.  The table and kallsyms are open once, and    *)
(* only when they should be; besides them a descriptor that is no object's *)
(* stands for a call that failed.                                          *)
Streams == {<<"mem">>, <<"kotbl">>, <<"kallsyms">>}
KoOf(n, k) == bos[k].kofd = n /\ fds[n] = <<"ko", bos[k].kofnm>>
SoOf(n, k) == bos[k].sofd = n /\ fds[n] = <<"so", bos[k].sofnm>>
Own == {n \in DOMAIN fds : fds[n][1] \in {"ko", "so"}}
Expected == {n \in DOMAIN fds : \/ pc = "prc" /\ fds[n] = <<"kotbl">>
                                \/ pc \in {"lines", "mods"} /\ fds[n] = <<"kallsyms">>}
Top == 3 + 2 * Len(kospec) + MaxFaults

Descriptors ==
    /\ fds = [n \in DOMAIN fds |-> fds[n]] /\ DOMAIN fds \subseteq 3..Top
    /\ \A n \in DOMAIN fds : fds[n] \in Streams \/ \E k \in 1..Len(bos) : KoOf(n, k) \/ SoOf(n, k)
    /\ \A m, n \in DOMAIN fds : fds[m] = fds[n] /\ fds[m] \in {<<"kotbl">>, <<"kallsyms">>} => m = n
    /\ \A n \in DOMAIN fds : /\ fds[n] = <<"kotbl">> => pc \in {"prc", "down"}
                             /\ fds[n] = <<"kallsyms">> => pc \in {"lines", "mods", "cleanup", "down"}
    /\ \A j, k \in 1..Len(bos) : /\ bos[j].kofd # bos[k].sofd
                                 /\ bos[j].kofd = bos[k].kofd \/ bos[j].sofd = bos[k].sofd => j = k
    /\ ~wild => \A k \in 1..Len(bos) : /\ bos[k].kofd \in DOMAIN fds /\ KoOf(bos[k].kofd, k)
                                       /\ bos[k].sofd \in DOMAIN fds /\ SoOf(bos[k].sofd, k)
    /\ ~wild => Cardinality(Own) = 2 * Len(bos)
    /\ pc # "down" \/ (~wild /\ status # "crash") =>
          Cardinality(DOMAIN fds \ Expected) <= 2 * Len(bos) + faults
    /\ ~wild /\ pc = "prc" => \E n \in DOMAIN fds : fds[n] = <<"kotbl">>

(* The stream has a line for each object gone through so far. *)
Table ==
    /\ pc = "prc" => kotblf = [n \in 1..(i - 1) |-> Line(n)]
    /\ KotblRight

(* The symbols of the kernel and of the modules are those of the lines. *)
LinesOf(ks, m) == Among(ks, {l \in Lines : l.module = m})
EntryOf(l) == SymbolEntry(l.name, l.addr, initSE[l.type].bind, initSE[l.type].type)
EntriesOf(ks, m) == [n \in 1..Len(LinesOf(ks, m)) |-> EntryOf(LinesOf(ks, m)[n])]
TabOf(t, m) == t.name = m /\ t.entries = EntriesOf(klines, m) /\ t.nmstrlen = nmstrlen(t.entries)
Symbols ==
    /\ kern \in SymTab /\ Len(kern.entries) <= kern.max
    /\ mods \in Seq(SymTab) /\ \A n \in 1..Len(mods) : Len(mods[n].entries) <= mods[n].max
    /\ klines \in Seq(Lines)
    /\ pc # "down" =>
          /\ \A k \in 1..Len(klines) : klines[k].type \in DOMAIN initSE
          /\ TabOf(kern, None)
          /\ \A n \in 1..Len(mods) : mods[n].name # None /\ TabOf(mods[n], mods[n].name)
          /\ \A j, k \in 1..Len(mods) : mods[j].name = mods[k].name => j = k
          /\ \A k \in 1..Len(klines) : klines[k].module # None =>
                \E n \in 1..Len(mods) : mods[n].name = klines[k].module
          /\ \A n \in 1..Len(mods) : \E k \in 1..Len(klines) : klines[k].module = mods[n].name
    /\ pc = "mods" => i <= Len(mods) + 1

(* The libraries: what is written in full is the image of the symbols of   *)
(* an object, or of the kernel or a module once kallsyms has been read.    *)
KPath(m) == <<kdir, <<IF m = None THEN "kern" ELSE m, "">>>>
Image(f, es) == f = <<"whole", elf_image(es, nmstrlen(es))>>
KoSource(es, p) ==
    \E n \in 1..Len(bos) : /\ bos[n].sofnm = p /\ bos[n].kofnm \in DOMAIN Objects
                           /\ es = elf_read_syms(Objects[bos[n].kofnm])
LineSource(es, p) ==
    \E n \in 1..Len(klines) : p = KPath(klines[n].module) /\ es = EntriesOf(klines, klines[n].module)
Source(es, p) == pc # "down" => KoSource(es, p) \/ (pc \in {"mods", "cleanup"} /\ LineSource(es, p))
Libraries ==
    /\ \A n \in 1..Len(bos) : bos[n].sofnm \in DOMAIN files
    /\ \A p \in DOMAIN files : \/ files[p] \in {<<"empty">>, <<"torn">>}
                               \/ \E es \in Seq(Entry) : Image(files[p], es) /\ Source(es, p)

(* As long as nothing failed, everything gone through has its library. *)
Done == {p \in DOMAIN files : IsImage(files[p])}
Complete ==
    faults = 0 =>
        /\ pc = "prc" => \A n \in 1..(i - 1) : bos[n].kofnm \in DOMAIN Objects => bos[n].sofnm \in Done
        /\ pc \in Late => \A n \in 1..Len(bos) : bos[n].kofnm \in DOMAIN Objects => bos[n].sofnm \in Done
        /\ pc = "mods" => /\ kern.entries # <<>> => libkern \in Done
                          /\ \A n \in 1..(i - 1) : KPath(mods[n].name) \in Done
        /\ pc = "cleanup" => \A n \in 1..Len(klines) : KPath(klines[n].module) \in Done
-----------------------------------------------------------------------------
(* Place *)

(* An array has room for one more after it has grown. *)
LEMMA GrowIs ==
    ASSUME NEW n \in Nat, NEW max \in Nat, NEW first \in Nat \ {0}, n <= max
    PROVE  Grow(n, max, first) \in Nat /\ n + 1 <= Grow(n, max, first)
  BY DEF Grow

(* The arrays are empty at first. *)
LEMMA ArraysInit == Init => Arrays
  BY DEF Init, Arrays

(* addDir adds a directory and makes room for it. *)
LEMMA ArraysAddDir ==
    ASSUME Arrays, NEW d, addDir(d)
    PROVE  dirs' \in Seq(Dirs) /\ dirmax' \in Nat /\ Len(dirs') <= dirmax'
  <1>1. Len(dirs) \in Nat /\ dirmax \in Nat /\ Len(dirs) <= dirmax /\ dirs \in Seq(Dirs)
    BY DEF Arrays
  <1>2. Grow(Len(dirs), dirmax, DirMax) \in Nat /\ Len(dirs) + 1 <= Grow(Len(dirs), dirmax, DirMax)
    BY <1>1, GrowIs, ConstantsAssumption
  <1> QED BY <1>1, <1>2 DEF addDir

(* How addbo ends when it adds an object, found at ko after the first n    *)
(* directories were tried.                                                 *)
NewBo(ko) ==
    [kofnm |-> ko, kldopts |-> Parsed(i).kldopts, kofd |-> Lowest(fds),
     sofnm |-> sofullpath(ko, Parsed(i).modnm), sofd |-> Lowest(OpenFd(fds, <<"ko", ko>>))]
MoreFaults == faults' \in Int /\ faults <= faults' /\ faults' <= MaxFaults
AddsBo(ko, n) ==
    /\ pc = "bos" /\ i <= Len(kospec) /\ Parsed(i).ok
    /\ n \in 0..Len(dirs) /\ ko = openko(Parsed(i).fnm, n) /\ ko # NoPath
    /\ "ko" \notin unseen' => Has(Parsed(i).fnm, 1) \subseteq Has(Parsed(i).fnm, n + 1)
    /\ \A b \in Range(bos) : b.kofnm # ko
    /\ bos' = Append(bos, NewBo(ko)) /\ i' = i + 1
    /\ fds' = OpenFd(OpenFd(fds, <<"ko", ko>>), <<"so", NewBo(ko).sofnm>>)
    /\ files' = Truncated(NewBo(ko).sofnm) /\ MoreFaults /\ unseen \subseteq unseen'
    /\ UNCHANGED <<pc, opts, kotblf, kotbl, klines, kern, mods, status, wild>>

(* And when it does not: what it opened is closed, but with no directory a *)
(* descriptor that is not its own may be closed too.                       *)
NoBo ==
    /\ pc = "bos" /\ pc' = "down" /\ status' = "failure"
    /\ files' = files \/ \E so : files' = Truncated(so)
    /\ \/ fds' = fds /\ UNCHANGED wild
       \/ wild' = TRUE /\ \E n : fds' = CloseFd(fds, n)
    /\ MoreFaults /\ unseen \subseteq unseen'
    /\ UNCHANGED <<i, opts, bos, kotblf, kotbl, klines, kern, mods>>

(* addbo adds an object or fails. *)
LEMMA AddboIs ==
    ASSUME Arrays, Place, IsFds(fds), -1 \notin DOMAIN fds, addbo
    PROVE  (\E ko, n : AddsBo(ko, n)) \/ NoBo
  <1> DEFINE p == Parsed(i)
             Passed(n) == Has(p.fnm, 1) \ Has(p.fnm, n + 1)
             Ko(n) == openko(p.fnm, n)
             So(k) == IF k = NoPath THEN NoPath ELSE sofullpath(k, p.modnm)
             kofd == Lowest(fds)
             Fd(k) == OpenFd(fds, <<"ko", k>>)
             Gd(k) == OpenFd(Fd(k), <<"so", So(k)>>)
             New(k) == [kofnm |-> k, kldopts |-> p.kldopts, kofd |-> kofd, sofnm |-> So(k),
                        sofd |-> Lowest(Fd(k))]
             Ends(k, c) ==
                \/ AddFails(fds, files) /\ Fails(c) /\ UNCHANGED wild
                \/ Fails(c) /\ wild' = TRUE /\ \E w : AddFails(Release(fds, w, -1), files)
                \/ /\ p.ok /\ k # NoPath /\ UNCHANGED wild
                   /\ \/ AddFails(Release(Fd(k), kofd, -1), files) /\ Fails(c + 1)
                      \/ AddFails(Release(Gd(k), kofd, Lowest(Fd(k))), Truncated(So(k))) /\ Fails(c)
                      \/ /\ \A b \in Range(bos) : b.kofnm # k
                         /\ bos' = Append(bos, New(k))
                         /\ fds' = Gd(k) /\ files' = Truncated(So(k)) /\ i' = i + 1 /\ Fails(c)
                         /\ UNCHANGED <<pc, status>>
  <1>1. PICK n \in 0..Len(dirs) :
            /\ unseen' = IF Cardinality(Passed(n)) = 0 THEN unseen ELSE unseen \cup {"ko"}
            /\ Ends(Ko(n), Cardinality(Passed(n)))
    BY DEF addbo, Parsed
  <1>2. PICK ko, c, so, F, sofd, G, new :
            /\ ko = Ko(n) /\ c = Cardinality(Passed(n)) /\ so = So(ko) /\ F = Fd(ko) /\ sofd = Lowest(F)
            /\ G = Gd(ko) /\ new = New(ko)
    OBVIOUS
  <1>3. /\ pc = "bos" /\ i <= Len(kospec) /\ UNCHANGED <<opts, kotblf, kotbl, klines, kern, mods>>
        /\ \/ AddFails(fds, files) /\ Fails(c) /\ UNCHANGED wild
           \/ Fails(c) /\ wild' = TRUE /\ \E w : AddFails(Release(fds, w, -1), files)
           \/ /\ p.ok /\ ko # NoPath /\ UNCHANGED wild
              /\ \/ AddFails(Release(F, kofd, -1), files) /\ Fails(c + 1)
                 \/ AddFails(Release(G, kofd, sofd), Truncated(so)) /\ Fails(c)
                 \/ /\ \A b \in Range(bos) : b.kofnm # ko
                    /\ bos' = Append(bos, new)
                    /\ fds' = G /\ files' = Truncated(so) /\ i' = i + 1 /\ Fails(c)
                    /\ UNCHANGED <<pc, status>>
    <2>1. /\ pc = "bos" /\ i <= Len(kospec) /\ UNCHANGED <<opts, kotblf, kotbl, klines, kern, mods>>
      BY DEF addbo
    <2>2. Ends(ko, c)
      <3> HIDE DEF Ends
      <3> QED BY <1>1, <1>2
    <2> HIDE DEF p, kofd, Fd, Gd, So, New
    <2> QED BY <1>2, <2>1, <2>2, Zenon
  <1>4. c \in Nat /\ (c = 0 => Passed(n) = {}) /\ Len(dirs) \in Nat
    <2>1. Len(dirs) \in Nat
      BY DEF Arrays
    <2>2. IsFiniteSet(1..Len(dirs)) /\ Passed(n) \subseteq 1..Len(dirs)
      BY <2>1, FS_Interval DEF Has
    <2>3. IsFiniteSet(Passed(n))
      BY <2>2, FS_Subset
    <2> HIDE DEF Passed
    <2> QED BY <1>2, <2>1, <2>3, FS_CardinalityType, FS_EmptySet
  <1>5. /\ unseen \subseteq unseen'
        /\ "ko" \notin unseen' => Has(p.fnm, 1) \subseteq Has(p.fnm, n + 1)
    <2>1. "ko" \notin unseen' => c = 0
      <3> HIDE DEF Passed
      <3> QED BY <1>1, <1>2
    <2>2. Passed(n) = {} => Has(p.fnm, 1) \subseteq Has(p.fnm, n + 1)
      OBVIOUS
    <2>3. unseen \subseteq unseen'
      <3> HIDE DEF Passed
      <3> QED BY <1>1
    <2> HIDE DEF Passed, p
    <2> QED BY <1>4, <2>1, <2>2, <2>3
  <1>6. Fails(c) \/ Fails(c + 1) => MoreFaults
    BY <1>4, ConstantsAssumption DEF Fails, MoreFaults, Place
  <1>7. IsFds(F) /\ CloseFd(F, kofd) = fds
    BY <1>2, CloseOpened, OpenIs
  <1>8. Release(F, kofd, -1) = fds
    BY <1>7, CloseIs DEF Release
  <1>9. Release(G, kofd, sofd) = fds
    <2> DEFINE H == CloseFd(G, kofd)
               C == CloseFd(H, sofd)
    <2>1. kofd \notin DOMAIN fds /\ DOMAIN F = DOMAIN fds \cup {kofd} /\ \A m \in DOMAIN fds : F[m] = fds[m]
      <3>1. PICK what : F = OpenFd(fds, what) /\ kofd = Lowest(fds)
        BY <1>2
      <3> HIDE DEF kofd
      <3>2. /\ kofd \notin DOMAIN fds /\ DOMAIN OpenFd(fds, what) = DOMAIN fds \cup {Lowest(fds)}
            /\ \A m \in DOMAIN fds : OpenFd(fds, what)[m] = fds[m]
        BY <3>1, LowestIs, OpenIs
      <3> QED BY <3>1, <3>2
    <2>2. /\ IsFds(G) /\ sofd \notin DOMAIN F /\ DOMAIN G = DOMAIN F \cup {sofd}
          /\ \A m \in DOMAIN F : G[m] = F[m]
      <3>1. PICK what : G = OpenFd(F, what)
        BY <1>2
      <3>2. sofd = Lowest(F)
        BY <1>2
      <3>3. /\ Lowest(F) \notin DOMAIN F /\ IsFds(OpenFd(F, what))
            /\ DOMAIN OpenFd(F, what) = DOMAIN F \cup {Lowest(F)}
            /\ \A m \in DOMAIN F : OpenFd(F, what)[m] = F[m]
        BY <1>7, LowestIs, OpenIs
      <3> QED BY <3>1, <3>2, <3>3
    <2>3. IsFds(H) /\ DOMAIN H = DOMAIN G \ {kofd} /\ \A m \in DOMAIN G \ {kofd} : H[m] = G[m]
      BY <2>2, CloseIs
    <2>4. IsFds(C) /\ DOMAIN C = DOMAIN H \ {sofd} /\ \A m \in DOMAIN H \ {sofd} : C[m] = H[m]
      <3> HIDE DEF H
      <3> QED BY <2>3, CloseIs
    <2>5. Release(G, kofd, sofd) = C
      BY DEF Release
    <2> HIDE DEF H, C, kofd
    <2>6. DOMAIN C = DOMAIN fds /\ \A m \in DOMAIN fds : C[m] = fds[m]
      BY <2>1, <2>2, <2>3, <2>4
    <2> QED BY <2>4, <2>5, <2>6 DEF IsFds
  <1>10. ASSUME NEW w PROVE Release(fds, w, -1) = CloseFd(fds, w)
    <2>1. IsFds(CloseFd(fds, w)) /\ -1 \notin DOMAIN CloseFd(fds, w)
      BY CloseIs
    <2> QED BY <2>1, CloseIs DEF Release
  <1>11. ASSUME NEW H, NEW L, AddFails(H, L)
         PROVE  /\ fds' = H /\ files' = L /\ pc' = "down" /\ status' = "failure" /\ UNCHANGED <<i, bos>>
    BY <1>3, <1>11 DEF AddFails, Exit
  <1>12. ko # NoPath => /\ new = NewBo(ko) /\ so = NewBo(ko).sofnm
                        /\ G = OpenFd(OpenFd(fds, <<"ko", ko>>), <<"so", NewBo(ko).sofnm>>)
    BY <1>2 DEF NewBo
  <1>13. ko = openko(Parsed(i).fnm, n) /\ p = Parsed(i)
    BY <1>2
  <1> HIDE DEF p, Passed, Ko, So, kofd, Fd, Gd, New, Ends
  <1>14. CASE AddFails(fds, files) /\ Fails(c) /\ UNCHANGED wild
    BY <1>3, <1>5, <1>6, <1>11, <1>14 DEF NoBo
  <1>15. CASE Fails(c) /\ wild' = TRUE /\ \E w : AddFails(Release(fds, w, -1), files)
    <2>1. PICK w : AddFails(Release(fds, w, -1), files)
      BY <1>15
    <2>2. fds' = CloseFd(fds, w) /\ files' = files /\ pc' = "down" /\ status' = "failure" /\ UNCHANGED <<i, bos>>
      BY <1>10, <1>11, <2>1
    <2> QED BY <1>3, <1>5, <1>6, <1>15, <2>2 DEF NoBo
  <1>16. CASE UNCHANGED wild /\ AddFails(Release(F, kofd, -1), files) /\ Fails(c + 1)
    BY <1>3, <1>5, <1>6, <1>8, <1>11, <1>16 DEF NoBo
  <1>17. CASE UNCHANGED wild /\ AddFails(Release(G, kofd, sofd), Truncated(so)) /\ Fails(c)
    BY <1>3, <1>5, <1>6, <1>9, <1>11, <1>17 DEF NoBo
  <1>18. CASE /\ p.ok /\ ko # NoPath /\ UNCHANGED wild
              /\ \A b \in Range(bos) : b.kofnm # ko
              /\ bos' = Append(bos, new)
              /\ fds' = G /\ files' = Truncated(so) /\ i' = i + 1 /\ Fails(c)
              /\ UNCHANGED <<pc, status>>
    <2>1. AddsBo(ko, n)
      BY <1>3, <1>5, <1>6, <1>12, <1>13, <1>18, Zenon DEF AddsBo
    <2> QED BY <2>1
  <1> QED BY <1>3, <1>14, <1>15, <1>16, <1>17, <1>18

(* The descriptors are finitely many, and none is negative. *)
LEMMA FdsAre ==
    ASSUME Arrays, Descriptors
    PROVE  IsFds(fds) /\ -1 \notin DOMAIN fds /\ Cardinality(DOMAIN fds) \in Nat
  <1>1. Len(kospec) \in Nat /\ MaxFaults \in Nat
    BY ConstantsAssumption DEF Arrays
  <1>2. Top \in Int
    BY <1>1 DEF Top
  <1>3. IsFiniteSet(3..Top)
    BY <1>2, FS_Interval
  <1>4. DOMAIN fds \subseteq 3..Top /\ fds = [n \in DOMAIN fds |-> fds[n]]
    BY DEF Descriptors
  <1>5. IsFiniteSet(DOMAIN fds)
    BY <1>3, <1>4, FS_Subset
  <1>6. -1 \notin 3..Top
    BY <1>2
  <1> QED BY <1>4, <1>5, <1>6, FS_CardinalityType DEF IsFds

(* openko takes the first directory after the n tried that has the file. *)
LEMMA OpenkoIs ==
    ASSUME Arrays, NEW f, NEW n \in 0..Len(dirs), openko(f, n) # NoPath
    PROVE  \E j \in Has(f, n + 1) : /\ openko(f, n) = Tree[<<dirs[j], f>>] /\ j \in 1..Len(dirs)
                                    /\ <<dirs[j], f>> \in DOMAIN Tree /\ \A k \in Has(f, n + 1) : j <= k
  <1> DEFINE has == Has(f, n + 1)
             First(j) == \A k \in has : j <= k
             c == CHOOSE j \in has : First(j)
  <1>1. openko(f, n) = IF has = {} THEN NoPath ELSE Tree[<<dirs[c], f>>]
    BY Zenon DEF openko
  <1>2. Len(dirs) \in Nat /\ has \subseteq 1..Len(dirs) /\ \A j \in has : <<dirs[j], f>> \in DOMAIN Tree
    BY DEF Arrays, Has
  <1> HIDE DEF has
  <1>3. has # {} /\ has \subseteq Nat
    BY <1>1, <1>2
  <1>4. \E j \in has : First(j)
    BY <1>3, LeastElement
  <1>5. c \in has /\ First(c)
    <2> HIDE DEF First
    <2> QED BY <1>4
  <1> HIDE DEF c
  <1> QED BY <1>1, <1>2, <1>3, <1>5 DEF has

(* The new object. *)
LEMMA NewBoIs ==
    ASSUME Arrays, Place, Descriptors, NEW ko, NEW n, AddsBo(ko, n)
    PROVE  NewBo(ko) \in Bo
  <1>1. i \in 1..Len(kospec) /\ kospec[i] \in Specs
    BY DEF Arrays, Place, AddsBo
  <1>2. ko \in Range(Tree)
    BY OpenkoIs DEF AddsBo, Range
  <1>3. Parsed(i).kldopts \in Opts
    BY <1>1 DEF Parsed, Opts
  <1>4. sofullpath(ko, Parsed(i).modnm) \in SoNames
    <2> DEFINE x == <<ko, kospec[i]>>
    <2>1. x \in Range(Tree) \X Specs /\ x[1] = ko /\ x[2] = kospec[i]
      BY <1>1, <1>2
    <2> HIDE DEF x
    <2> QED BY <2>1 DEF SoNames, Parsed
  <1>5. Lowest(fds) \in Nat
    BY FdsAre, LowestIs
  <1>6. Lowest(OpenFd(fds, <<"ko", ko>>)) \in Nat
    BY FdsAre, OpenIs, LowestIs
  <1> QED BY <1>2, <1>3, <1>4, <1>5, <1>6 DEF NewBo, Bo

(* Only addDir, optk and addbo change the arrays, and cleanup. *)
LEMMA ArraysStep ==
    ASSUME Arrays, Place, Descriptors, [Next]_vars
    PROVE  Arrays'
  <1>1. CASE UNCHANGED <<opts, bos>>
    BY <1>1 DEF Arrays, opts
  <1>2. ASSUME NEW d, addDir(d), UNCHANGED <<kospec, kospecmax, bos>> PROVE Arrays'
    BY <1>2, ArraysAddDir DEF Arrays
  <1>3. CASE Getcwd
    BY <1>1, <1>2, <1>3 DEF Getcwd, opts
  <1>4. ASSUME NEW d \in Paths, optK(d) PROVE Arrays'
    BY <1>2, <1>4 DEF optK, Option
  <1>5. ASSUME NEW s \in Specs, optk(s) PROVE Arrays'
    <2>1. Len(kospec) \in Nat /\ kospecmax \in Nat /\ Len(kospec) <= kospecmax /\ kospec \in Seq(Specs)
      BY DEF Arrays
    <2>2. Grow(Len(kospec), kospecmax, 2) \in Nat /\ Len(kospec) + 1 <= Grow(Len(kospec), kospecmax, 2)
      BY <2>1, GrowIs
    <2>3. kospec' = Append(kospec, s) /\ kospecmax' = Grow(Len(kospec), kospecmax, 2)
          /\ UNCHANGED <<dirs, dirmax, bos>>
      BY <1>5 DEF optk, Option
    <2> QED BY <2>1, <2>2, <2>3 DEF Arrays
  <1>6. CASE addbo
    <2>1. ASSUME NEW ko, NEW n, AddsBo(ko, n) PROVE Arrays'
      <3>1. NewBo(ko) \in Bo /\ bos' = Append(bos, NewBo(ko)) /\ UNCHANGED opts
        BY <2>1, NewBoIs DEF AddsBo
      <3> QED BY <3>1 DEF Arrays, opts
    <2>2. CASE NoBo
      BY <1>1, <2>2 DEF NoBo
    <2> QED BY <1>6, <2>1, <2>2, AddboIs, FdsAre
  <1>7. CASE cleanup
    BY <1>7 DEF cleanup, Arrays, opts
  <1>8. CASE optN \/ usage
    <2>1. UNCHANGED <<dirs, kospec, dirmax, kospecmax, bos>>
      BY <1>8 DEF optN, usage, Option, opts
    <2> QED BY <2>1 DEF Arrays
  <1>9. ASSUME NEW l \in Lines, GetLine(l) PROVE Arrays'
    BY <1>1, <1>9 DEF GetLine
  <1>10. CASE main
    <2>1. CASE EndOfOptions \/ EndOfSpecs \/ prcExec
      BY <1>1, <2>1 DEF EndOfOptions, EndOfSpecs, prcExec
    <2>2. CASE OpenKotbl \/ prcBO \/ CloseKotbl
      BY <1>1, <2>2 DEF OpenKotbl, prcBO, CloseKotbl
    <2>3. CASE OpenKallsyms \/ WriteKern \/ WriteMod \/ EndOfKallsyms
      BY <1>1, <2>3 DEF OpenKallsyms, WriteKern, WriteMod, EndOfKallsyms
    <2> QED BY <1>3, <1>6, <1>7, <1>10, <2>1, <2>2, <2>3 DEF main
  <1>11. CASE UNCHANGED vars
    BY <1>1, <1>11 DEF vars
  <1> QED BY <1>4, <1>5, <1>8, <1>9, <1>10, <1>11 DEF Next
-----------------------------------------------------------------------------
(* Place *)

(* Nothing has been done at first. *)
LEMMA PlaceInit == Init => Place
  <1> SUFFICES ASSUME Init PROVE Place
    OBVIOUS
  <1>1. Len(bos) = 0 /\ Len(kospec) = 0 /\ MaxFaults \in Nat
    BY ConstantsAssumption DEF Init
  <1>2. pc \in Early /\ i \in Nat \ {0} /\ faults \in 0..MaxFaults
    BY <1>1 DEF Init, Early
  <1>3. prockallsyms \in BOOLEAN /\ wild \in BOOLEAN
    BY DEF Init
  <1>4. ~wild
    BY DEF Init
  <1>5. status = None /\ pc = "init"
    BY DEF Init
  <1>6. kotblf = <<>> /\ kotbl = <<>> /\ klines = <<>> /\ kern = NoSyms /\ mods = <<>> /\ bos = <<>> /\ i = 1
    BY DEF Init
  <1> QED BY <1>1, <1>2, <1>3, <1>4, <1>5, <1>6 DEF Place, Early, Late, None

(* What writeso does besides writing. *)
LEMMA WritesoIs ==
    ASSUME NEW path, NEW fd, NEW es, NEW len, writeso(path, fd, es, len)
    PROVE  /\ wild' \in {wild, TRUE} /\ status' \in {status, "crash"}
           /\ status' = "crash" => status = "crash" \/ wild'
           /\ wild' => wild \/ faults' = faults + 1
           /\ faults' = faults \/ (faults < MaxFaults /\ faults' = faults + 1)
  <1>1. CASE wild' = wild /\ status' = status /\ (NoFault \/ Fault)
    BY <1>1, Zenon DEF Fault, NoFault
  <1>2. CASE wild' = TRUE /\ status' \in {status, "crash"} /\ Fault
    BY <1>2, Zenon DEF Fault
  <1> QED BY <1>1, <1>2, Zenon DEF writeso

(* Options and objects. *)
LEMMA PlaceFirst ==
    ASSUME Arrays, Place, Descriptors,
           \/ Getcwd \/ EndOfOptions \/ optN \/ usage \/ addbo \/ EndOfSpecs \/ prcExec
           \/ (\E d \in Paths : optK(d)) \/ (\E s \in Specs : optk(s))
    PROVE  Place'
  <1>1. Len(bos) \in Nat /\ Len(kospec) \in Nat /\ MaxFaults \in Nat
    BY ConstantsAssumption DEF Arrays
  <1> USE DEF Place, Early, Late, None
  <1>2. CASE Getcwd
    BY <1>1, <1>2 DEF Getcwd, Exit, Fault, NoFault, tables
  <1>3. CASE EndOfOptions \/ EndOfSpecs \/ prcExec
    BY <1>1, <1>3 DEF EndOfOptions, EndOfSpecs, prcExec, opts, tables, NoFault
  <1>4. CASE optN
    BY <1>1, <1>4 DEF optN, Option, tables
  <1>5. CASE usage
    BY <1>1, <1>5 DEF usage, Option, Exit, opts, tables
  <1>6. ASSUME NEW d \in Paths, optK(d) PROVE Place'
    BY <1>1, <1>6 DEF optK, Option, tables
  <1>7. ASSUME NEW s \in Specs, optk(s) PROVE Place'
    <2>1. kospec' = Append(kospec, s) /\ pc = "opts" /\ bos' = bos
          /\ UNCHANGED <<pc, prockallsyms, status, i, tables, faults, wild>>
      BY <1>7 DEF optk, Option
    <2>2. Len(bos') = 0 /\ Len(kospec') \in Nat
      BY <2>1 DEF Arrays
    <2> QED BY <1>1, <2>1, <2>2 DEF tables
  <1>8. CASE addbo
    <2>1. ASSUME NEW ko, NEW n, AddsBo(ko, n) PROVE Place'
      <3>1. Len(bos') = Len(bos) + 1
        BY <2>1 DEF AddsBo, Arrays
      <3>2. /\ pc = "bos" /\ i <= Len(kospec) /\ i' = i + 1
            /\ UNCHANGED <<pc, opts, kotblf, kotbl, klines, kern, mods, status, wild>>
        BY <2>1 DEF AddsBo
      <3>3. faults' \in 0..MaxFaults
        BY <1>1, <2>1 DEF AddsBo, MoreFaults
      <3> QED BY <1>1, <3>1, <3>2, <3>3 DEF opts
    <2>2. CASE NoBo
      <3>1. /\ pc = "bos" /\ pc' = "down" /\ status' = "failure"
            /\ UNCHANGED <<i, opts, bos, kotblf, kotbl, klines, kern, mods>>
        BY <2>2 DEF NoBo
      <3>2. wild' \in BOOLEAN
        BY <2>2 DEF NoBo
      <3>3. faults' \in 0..MaxFaults
        BY <1>1, <2>2 DEF NoBo, MoreFaults
      <3> QED BY <1>1, <3>1, <3>2, <3>3 DEF opts
    <2> QED BY <1>8, <2>1, <2>2, AddboIs, FdsAre
  <1> QED BY <1>2, <1>3, <1>4, <1>5, <1>6, <1>7, <1>8

(* The table, kallsyms and the end. *)
LEMMA PlaceSecond ==
    ASSUME Arrays, Place,
           \/ OpenKotbl \/ prcBO \/ CloseKotbl \/ OpenKallsyms \/ WriteKern \/ WriteMod
           \/ EndOfKallsyms \/ cleanup \/ (\E l \in Lines : GetLine(l))
    PROVE  Place'
  <1>1. Len(bos) \in Nat /\ Len(kospec) \in Nat /\ MaxFaults \in Nat
    BY ConstantsAssumption DEF Arrays
  <1> USE DEF Place, Early, Late, None
  <1>2. CASE OpenKotbl
    BY <1>1, <1>2 DEF OpenKotbl, Exit, Fault, NoFault, opts, tables
  <1>3. CASE prcBO
    <2>1. /\ pc = "prc" /\ i <= Len(bos) /\ i' = i + 1 /\ AfterWrite("prc")
          /\ UNCHANGED <<opts, bos, klines, kern, mods>>
          /\ status' # "crash" => UNCHANGED kotbl
      BY <1>3 DEF prcBO
    <2>2. /\ wild' \in BOOLEAN /\ status' \in {status, "crash"}
          /\ status' = "crash" => status = "crash" \/ wild'
          /\ wild' => wild \/ faults' = faults + 1
          /\ faults' = faults \/ (faults < MaxFaults /\ faults' = faults + 1)
      BY <1>3, WritesoIs DEF prcBO, NoFault
    <2> QED BY <1>1, <2>1, <2>2 DEF AfterWrite, opts
  <1>4. CASE CloseKotbl
    BY <1>1, <1>4 DEF CloseKotbl, Fault, NoFault, opts
  <1>5. CASE OpenKallsyms
    BY <1>1, <1>5 DEF OpenKallsyms, Exit, Fault, NoFault, opts, tables
  <1>6. CASE WriteKern \/ WriteMod
    <2>1. /\ pc \in {"lines", "mods"} /\ i' \in {1, i + 1} /\ AfterWrite("mods")
          /\ UNCHANGED <<opts, bos, tables>>
      BY <1>6 DEF WriteKern, WriteMod
    <2>2. /\ wild' \in BOOLEAN /\ status' \in {status, "crash"}
          /\ status' = "crash" => status = "crash" \/ wild'
          /\ wild' => wild \/ faults' = faults + 1
          /\ faults' = faults \/ (faults < MaxFaults /\ faults' = faults + 1)
      BY <1>6, WritesoIs DEF WriteKern, WriteMod, NoFault
    <2> QED BY <1>1, <2>1, <2>2 DEF AfterWrite, opts, tables
  <1>7. CASE EndOfKallsyms
    BY <1>1, <1>7 DEF EndOfKallsyms, Exit, opts, tables
  <1>8. CASE cleanup
    <2>1. Len(bos') = 0
      BY <1>8 DEF cleanup
    <2> QED BY <1>1, <1>8, <2>1 DEF cleanup, opts, tables
  <1>9. ASSUME NEW l \in Lines, GetLine(l) PROVE Place'
    BY <1>1, <1>9 DEF GetLine, opts
  <1> QED BY <1>2, <1>3, <1>4, <1>5, <1>6, <1>7, <1>8, <1>9

(* Place in every step. *)
LEMMA PlaceStep ==
    ASSUME Arrays, Place, Descriptors, [Next]_vars
    PROVE  Place'
  <1>1. CASE UNCHANGED vars
    BY <1>1 DEF vars, opts, tables, Place
  <1> QED BY <1>1, PlaceFirst, PlaceSecond DEF Next, main
-----------------------------------------------------------------------------
(* The objects *)

(* A line stays one of its specification: opens that failed are not        *)
(* forgotten.                                                              *)
LEMMA LineStays ==
    ASSUME UNCHANGED dirs, unseen \subseteq unseen'
    PROVE  \A s, l : LineFor(s, l) => LineFor(s, l)'
  BY DEF LineFor

(* What addbo found is a line of its specification. *)
LEMMA LineIs ==
    ASSUME Arrays, Place, NEW ko, NEW n, AddsBo(ko, n),
           NEW s, s = kospec[i], NEW l, l = <<ko, Parsed(i).kldopts>>
    PROVE  LineFor(s, l)'
  <1>1. s \in Specs /\ Len(s) \in Nat
    <2>1. i \in 1..Len(kospec)
      BY DEF Place, Arrays, AddsBo
    <2> QED BY <2>1, ConstantsAssumption DEF Arrays
  <1>2. Parsed(i).fnm = s[1] /\ Len(s) <= 3 /\ l[2] = IF Len(s) >= 3 /\ s[3] # "" THEN s[3] ELSE "EXCLUSIVE"
    BY DEF AddsBo, Parsed, parsekospec
  <1>3. l[2] = IF Len(s) = 3 /\ s[3] # "" THEN s[3] ELSE "EXCLUSIVE"
    <2>1. PICK L \in Nat : L = Len(s)
      BY <1>1
    <2>2. L <= 3
      BY <1>2, <2>1, Zenon
    <2>3. L >= 3 <=> L = 3
      BY <2>2
    <2> QED BY <1>2, <2>1, <2>3, Zenon
  <1>4. PICK f, S : f = s[1] /\ S = {d \in Dirs : <<d, f>> \in DOMAIN Tree}
    OBVIOUS
  <1>5. PICK j \in Has(f, n + 1) : /\ ko = Tree[<<dirs[j], f>>] /\ j \in 1..Len(dirs)
                                   /\ <<dirs[j], f>> \in DOMAIN Tree /\ \A k \in Has(f, n + 1) : j <= k
    BY <1>2, <1>4, OpenkoIs DEF AddsBo
  <1>6. dirs \in Seq(Dirs) /\ dirs[j] \in S /\ dirs' = dirs
    BY <1>4, <1>5 DEF Arrays, AddsBo, opts
  <1>7. PICK found : found = Among(dirs, S)
    OBVIOUS
  <1>8. \E k \in 1..Len(found) : found[k] = dirs[j]
    BY <1>5, <1>6, <1>7, AmongEvery
  <1>9. "ko" \notin unseen' => 1 \in 1..Len(found) /\ found[1] = dirs[j]
    <2> SUFFICES ASSUME "ko" \notin unseen' PROVE found # <<>> /\ found[1] = dirs[j]
      <3>1. found \in Seq(Dirs)
        BY <1>6, <1>7, AmongType
      <3> QED BY <3>1
    <2>1. Has(f, 1) \subseteq Has(f, n + 1)
      BY <1>2, <1>4 DEF AddsBo
    <2>2. ASSUME NEW m \in 1..(j - 1) PROVE dirs[m] \notin S
      <3>1. m \in 1..Len(dirs) /\ m < j /\ Len(dirs) \in Nat
        BY <1>5 DEF Arrays
      <3>2. dirs[m] \in S => m \in Has(f, 1)
        BY <1>4, <3>1 DEF Has
      <3> QED BY <1>5, <2>1, <3>1, <3>2
    <2> QED BY <1>5, <1>6, <1>7, <2>2, AmongFirst
  <1>10. PICK k \in 1..Len(found) : found[k] = dirs[j] /\ ("ko" \notin unseen' => k = 1)
    BY <1>8, <1>9
  <1>11. l[1] = Tree[<<found[k], f>>]
    BY <1>5, <1>10
  <1>12. found = Among(dirs', {d \in Dirs : <<d, s[1]>> \in DOMAIN Tree})
    BY <1>4, <1>6, <1>7
  <1> QED BY <1>3, <1>4, <1>10, <1>11, <1>12 DEF LineFor

(* The steps that leave the options and the objects alone; no failed open  *)
(* is forgotten.                                                           *)
LEMMA OptsStay ==
    ASSUME Arrays, Place, Descriptors, Next
    PROVE  /\ unseen \subseteq unseen'
           /\ \/ UNCHANGED <<opts, bos>>
              \/ bos' = <<>>
              \/ \E ko, n : AddsBo(ko, n)
  <1>1. CASE Getcwd \/ optN \/ usage \/ (\E d \in Paths : optK(d)) \/ (\E s \in Specs : optk(s))
    BY <1>1 DEF Getcwd, optN, usage, optK, optk, Option, Place, tables
  <1>2. CASE EndOfOptions \/ EndOfSpecs \/ prcExec \/ OpenKotbl \/ prcBO
    BY <1>2 DEF EndOfOptions, EndOfSpecs, prcExec, OpenKotbl, prcBO, tables
  <1>3. CASE CloseKotbl
    BY <1>3 DEF CloseKotbl
  <1>4. CASE OpenKallsyms \/ WriteKern \/ WriteMod \/ EndOfKallsyms \/ cleanup
    BY <1>4 DEF OpenKallsyms, WriteKern, WriteMod, EndOfKallsyms, cleanup, tables
  <1>5. CASE \E l \in Lines : GetLine(l)
    BY <1>5 DEF GetLine
  <1>6. CASE addbo
    <2>1. (\E ko, n : AddsBo(ko, n)) \/ NoBo
      BY <1>6, AddboIs, FdsAre
    <2> QED BY <2>1 DEF AddsBo, NoBo
  <1> QED BY <1>1, <1>2, <1>3, <1>4, <1>5, <1>6 DEF Next, main

LEMMA ObjsInit == Init => Objs
  <1> SUFFICES ASSUME Init PROVE Objs
    OBVIOUS
  <1>1. Len(bos) = 0
    BY DEF Init
  <1> QED BY <1>1 DEF Objs

LEMMA ObjsStep ==
    ASSUME Arrays, Place, Descriptors, Objs, [Next]_vars
    PROVE  Objs'
  <1>1. ASSUME UNCHANGED <<opts, bos>>, unseen \subseteq unseen' PROVE Objs'
    <2>1. \A s, l : LineFor(s, l) => LineFor(s, l)'
      BY <1>1, LineStays DEF opts
    <2>2. ASSUME NEW n \in 1..Len(bos) PROVE LineFor(kospec[n], Line(n))'
      <3>1. PICK s, l : s = kospec[n] /\ l = Line(n)
        OBVIOUS
      <3>2. s = kospec'[n] /\ l = Line(n)'
        BY <1>1, <3>1 DEF opts, Line
      <3>3. LineFor(s, l)
        BY <3>1 DEF Objs
      <3> QED BY <2>1, <3>2, <3>3
    <2> QED BY <1>1, <2>2 DEF Objs
  <1>2. CASE bos' = <<>>
    <2>1. Len(bos') = 0
      BY <1>2
    <2> QED BY <2>1 DEF Objs
  <1>3. ASSUME NEW ko, NEW m, AddsBo(ko, m) PROVE Objs'
    <2>1. \A s, l : LineFor(s, l) => LineFor(s, l)'
      BY <1>3, LineStays DEF AddsBo, opts
    <2>2. /\ Len(bos) \in Nat /\ Len(bos') = Len(bos) + 1 /\ bos'[Len(bos) + 1] = NewBo(ko)
          /\ \A n \in 1..Len(bos) : bos'[n] = bos[n]
      <3>1. NewBo(ko) \in Bo /\ bos \in Seq(Bo) /\ bos' = Append(bos, NewBo(ko))
        BY <1>3, NewBoIs DEF AddsBo, Arrays
      <3> QED BY <3>1
    <2>3. i = Len(bos) + 1 /\ kospec' = kospec
      BY <1>3 DEF AddsBo, Place, opts
    <2>4. NewBo(ko).kofnm = ko /\ NewBo(ko).kldopts = Parsed(i).kldopts
      BY DEF NewBo
    <2>5. \A n \in 1..Len(bos) : bos[n].kofnm # ko
      <3>1. \A n \in 1..Len(bos) : bos[n] \in Range(bos)
        BY DEF Arrays, Range
      <3> QED BY <1>3, <3>1 DEF AddsBo
    <2>6. ASSUME NEW n \in 1..Len(bos') PROVE LineFor(kospec[n], Line(n))'
      <3>1. PICK s, l : s = kospec'[n] /\ l = Line(n)'
        OBVIOUS
      <3>2. LineFor(s, l)'
        <4>1. CASE n \in 1..Len(bos)
          <5>1. s = kospec[n] /\ l = Line(n)
            BY <2>2, <2>3, <3>1, <4>1 DEF Line
          <5>2. LineFor(s, l)
            BY <4>1, <5>1 DEF Objs
          <5> QED BY <2>1, <5>2
        <4>2. CASE n = Len(bos) + 1
          <5>1. s = kospec[i] /\ l = <<ko, Parsed(i).kldopts>>
            BY <2>2, <2>3, <2>4, <3>1, <4>2 DEF Line
          <5> QED BY <1>3, <5>1, LineIs
        <4> QED BY <2>2, <4>1, <4>2
      <3> QED BY <3>1, <3>2
    <2>7. ASSUME NEW j \in 1..Len(bos'), NEW k \in 1..Len(bos'), bos'[j].kofnm = bos'[k].kofnm PROVE j = k
      <3>1. bos'[Len(bos) + 1].kofnm = ko
        BY <2>2, <2>4
      <3>2. \A x, y \in 1..Len(bos) : bos[x].kofnm = bos[y].kofnm => x = y
        BY DEF Objs
      <3> QED BY <2>2, <2>5, <2>7, <3>1, <3>2
    <2> QED BY <2>6, <2>7 DEF Objs
  <1>4. CASE UNCHANGED vars
    BY <1>1, <1>4 DEF vars, tables
  <1> QED BY <1>1, <1>2, <1>3, <1>4, OptsStay
-----------------------------------------------------------------------------
(* The descriptors *)

(* Nothing is open at first. *)
LEMMA DescriptorsInit == Init => Descriptors
  <1> SUFFICES ASSUME Init PROVE Descriptors
    OBVIOUS
  <1>1. Len(bos) = 0 /\ DOMAIN fds = {} /\ fds = <<>> /\ pc = "init" /\ faults = 0
    BY DEF Init
  <1>2. fds = [n \in DOMAIN fds |-> fds[n]]
    BY <1>1
  <1>3. Own = {} /\ DOMAIN fds \ Expected = {}
    BY <1>1 DEF Own
  <1>4. Cardinality(Own) = 0 /\ Cardinality(DOMAIN fds \ Expected) = 0
    BY <1>3, FS_EmptySet
  <1> QED BY <1>1, <1>2, <1>4 DEF Descriptors

(* Fewer descriptors: if an object's is missing, wild tells so. *)
LEMMA DescriptorsLess ==
    ASSUME Arrays, Descriptors, wild \in BOOLEAN, wild' \in BOOLEAN, pc # "down",
           NEW D, D \subseteq DOMAIN fds, fds' = Restrict(fds, D), bos' = bos,
           Len(kospec') \in Nat, Len(kospec) <= Len(kospec'),
           faults \in Nat, faults' \in Nat, faults <= faults',
           wild' \/ (~wild /\ Own \subseteq D),
           \A n \in D : /\ fds[n] = <<"kotbl">> => pc' \in {"prc", "down"}
                        /\ fds[n] = <<"kallsyms">> => pc' \in {"lines", "mods", "cleanup", "down"},
           pc' # "down" \/ (~wild' /\ status' # "crash") => \A n \in D : n \in Expected => n \in Expected',
           pc' = "prc" => pc = "prc" /\ (wild' \/ D = DOMAIN fds)
    PROVE  Descriptors'
  <1>1. DOMAIN fds' = D /\ (\A n \in D : fds'[n] = fds[n]) /\ fds' = [n \in DOMAIN fds' |-> fds'[n]]
    <2>1. IsFds(fds)
      BY FdsAre
    <2> QED BY <2>1, RestrictIs DEF IsFds
  <1>2. DOMAIN fds' \subseteq 3..Top'
    <2>1. DOMAIN fds \subseteq 3..Top /\ Len(kospec) \in Nat /\ MaxFaults \in Nat
      BY ConstantsAssumption DEF Descriptors, Arrays
    <2> QED BY <1>1, <2>1 DEF Top
  <1>3. \A n \in DOMAIN fds' : fds'[n] \in Streams \/ \E k \in 1..Len(bos') : KoOf(n, k)' \/ SoOf(n, k)'
    <2>1. \A n \in DOMAIN fds : fds[n] \in Streams \/ \E k \in 1..Len(bos) : KoOf(n, k) \/ SoOf(n, k)
      BY DEF Descriptors
    <2>2. \A n \in D : \A k : (KoOf(n, k)' <=> KoOf(n, k)) /\ (SoOf(n, k)' <=> SoOf(n, k))
      BY <1>1 DEF KoOf, SoOf
    <2>3. bos' = bos /\ D \subseteq DOMAIN fds
      OBVIOUS
    <2> QED BY <1>1, <2>1, <2>2, <2>3, Zenon
  <1>4. \A m, n \in DOMAIN fds' : fds'[m] = fds'[n] /\ fds'[m] \in {<<"kotbl">>, <<"kallsyms">>} => m = n
    BY <1>1 DEF Descriptors
  <1>5. ~wild' => Own' = Own
    <2> SUFFICES ASSUME ~wild' PROVE Own' = Own
      OBVIOUS
    <2>1. Own \subseteq D
      OBVIOUS
    <2>2. \A n \in D : n \in Own' <=> n \in Own
      BY <1>1, Zenon DEF Own
    <2>3. \A n \in Own' : n \in D
      BY <1>1 DEF Own
    <2> HIDE DEF Own
    <2> QED BY <2>1, <2>2, <2>3
  <1>6. ~wild' => \A k \in 1..Len(bos') : /\ bos'[k].kofd \in DOMAIN fds' /\ KoOf(bos[k].kofd, k)'
                                          /\ bos'[k].sofd \in DOMAIN fds' /\ SoOf(bos[k].sofd, k)'
    <2> SUFFICES ASSUME ~wild', NEW k \in 1..Len(bos)
                 PROVE  /\ bos[k].kofd \in DOMAIN fds' /\ KoOf(bos[k].kofd, k)'
                        /\ bos[k].sofd \in DOMAIN fds' /\ SoOf(bos[k].sofd, k)'
      OBVIOUS
    <2>1. /\ bos[k].kofd \in DOMAIN fds /\ fds[bos[k].kofd] = <<"ko", bos[k].kofnm>>
          /\ bos[k].sofd \in DOMAIN fds /\ fds[bos[k].sofd] = <<"so", bos[k].sofnm>>
      BY DEF Descriptors, KoOf, SoOf
    <2>2. bos[k].kofd \in Own /\ bos[k].sofd \in Own
      BY <2>1 DEF Own
    <2> QED BY <1>1, <2>1, <2>2 DEF KoOf, SoOf
  <1>7. pc' # "down" \/ (~wild' /\ status' # "crash") =>
            Cardinality(DOMAIN fds' \ Expected') <= 2 * Len(bos') + faults'
    <2> SUFFICES ASSUME pc' # "down" \/ (~wild' /\ status' # "crash")
                 PROVE  Cardinality(DOMAIN fds' \ Expected') <= 2 * Len(bos') + faults'
      OBVIOUS
    <2>1. DOMAIN fds' \ Expected' \subseteq DOMAIN fds \ Expected
      BY <1>1
    <2>2. IsFiniteSet(DOMAIN fds \ Expected)
      BY FdsAre, FS_Subset DEF IsFds
    <2>3. Cardinality(DOMAIN fds' \ Expected') <= Cardinality(DOMAIN fds \ Expected)
          /\ Cardinality(DOMAIN fds \ Expected) \in Nat /\ Cardinality(DOMAIN fds' \ Expected') \in Nat
      BY <2>1, <2>2, FS_Subset, FS_CardinalityType
    <2>4. Cardinality(DOMAIN fds \ Expected) <= 2 * Len(bos) + faults
      BY DEF Descriptors
    <2>5. Len(bos) \in Nat
      BY DEF Arrays
    <2> QED BY <2>3, <2>4, <2>5
  <1>8. ~wild' /\ pc' = "prc" => \E n \in DOMAIN fds' : fds'[n] = <<"kotbl">>
    BY <1>1 DEF Descriptors
  <1>9. \A j, k \in 1..Len(bos') : /\ bos'[j].kofd # bos'[k].sofd
                                   /\ bos'[j].kofd = bos'[k].kofd \/ bos'[j].sofd = bos'[k].sofd => j = k
    BY DEF Descriptors
  <1>10. ~wild' => Cardinality(Own') = 2 * Len(bos')
    BY <1>5 DEF Descriptors
  <1>11. \A n \in DOMAIN fds' : /\ fds'[n] = <<"kotbl">> => pc' \in {"prc", "down"}
                                /\ fds'[n] = <<"kallsyms">> => pc' \in {"lines", "mods", "cleanup", "down"}
    BY <1>1
  <1>12. ~wild' => \A k \in 1..Len(bos') : /\ bos'[k].kofd \in DOMAIN fds' /\ KoOf(bos[k].kofd, k)'
                                           /\ bos'[k].sofd \in DOMAIN fds' /\ SoOf(bos[k].sofd, k)'
    BY <1>6
  <1> QED BY <1>1, <1>2, <1>3, <1>4, <1>7, <1>8, <1>9, <1>10, <1>11, <1>12 DEF Descriptors

(* One descriptor at most is expected to be open besides those of objects. *)
LEMMA ExpectedOne ==
    ASSUME Arrays, Descriptors
    PROVE  /\ Cardinality(DOMAIN fds \ Expected) \in Nat
           /\ Cardinality(DOMAIN fds) <= Cardinality(DOMAIN fds \ Expected) + 1
           /\ Expected = {} => Cardinality(DOMAIN fds) = Cardinality(DOMAIN fds \ Expected)
  <1>1. IsFiniteSet(DOMAIN fds) /\ Cardinality(DOMAIN fds) \in Nat
    BY FdsAre DEF IsFds
  <1>2. \A m, n \in Expected : m = n
    <2>1. \A m, n \in DOMAIN fds : fds[m] = fds[n] /\ fds[m] \in {<<"kotbl">>, <<"kallsyms">>} => m = n
      BY DEF Descriptors
    <2> QED BY <2>1 DEF Expected
  <1>3. Expected \subseteq DOMAIN fds
    BY DEF Expected
  <1> HIDE DEF Expected
  <1>4. IsFiniteSet(DOMAIN fds \ Expected) /\ Cardinality(DOMAIN fds \ Expected) \in Nat
    BY <1>1, FS_Subset, FS_CardinalityType
  <1>5. CASE Expected = {}
    <2>1. DOMAIN fds \ Expected = DOMAIN fds
      BY <1>5
    <2> QED BY <1>1, <1>4, <2>1
  <1>6. CASE Expected # {}
    <2>1. PICK x : x \in Expected
      BY <1>6
    <2>2. DOMAIN fds = (DOMAIN fds \ Expected) \cup {x} /\ x \notin DOMAIN fds \ Expected
      BY <1>2, <1>3, <2>1
    <2>3. Cardinality(DOMAIN fds) = Cardinality(DOMAIN fds \ Expected) + 1
      BY <1>4, <2>2, FS_AddElement
    <2> QED BY <1>4, <1>6, <2>3
  <1> QED BY <1>5, <1>6

(* One stream more: it is expected, or it stands for a call that failed. *)
LEMMA DescriptorsOpen ==
    ASSUME Arrays, Place, Descriptors, pc # "down",
           NEW w \in Streams, fds' = OpenFd(fds, w), UNCHANGED <<bos, kospec, wild>>,
           faults' \in 0..MaxFaults,
           w # <<"mem">> => \A n \in DOMAIN fds : fds[n] # w,
           \A x \in {w} \cup Range(fds) :
              /\ x = <<"kotbl">> => pc' \in {"prc", "down"}
              /\ x = <<"kallsyms">> => pc' \in {"lines", "mods", "cleanup", "down"},
           Expected \subseteq Expected',
           \/ faults' = faults + 1
           \/ faults' = faults /\ Lowest(fds) \in Expected' /\ Expected = {},
           pc' = "prc" => pc = "prc" \/ w = <<"kotbl">>
    PROVE  Descriptors'
  <1> DEFINE new == Lowest(fds)
  <1>1. /\ DOMAIN fds' = DOMAIN fds \cup {new} /\ fds'[new] = w /\ new \notin DOMAIN fds
        /\ (\A n \in DOMAIN fds : fds'[n] = fds[n]) /\ fds' = [n \in DOMAIN fds' |-> fds'[n]]
        /\ new \in 3..(3 + Cardinality(DOMAIN fds)) /\ Cardinality(DOMAIN fds) \in Nat
    <2>1. IsFds(fds) /\ Cardinality(DOMAIN fds) \in Nat
      BY FdsAre
    <2> QED BY <2>1, OpenIs, LowestIs DEF IsFds
  <1> HIDE DEF new
  <1>2. Len(bos) \in Nat /\ Len(kospec) \in Nat /\ MaxFaults \in Nat /\ Len(bos) <= Len(kospec) /\ faults \in Nat
    BY ConstantsAssumption DEF Arrays, Place
  <1>3. /\ Cardinality(DOMAIN fds \ Expected) \in Nat
        /\ Cardinality(DOMAIN fds \ Expected) <= 2 * Len(bos) + faults
        /\ Cardinality(DOMAIN fds) <= Cardinality(DOMAIN fds \ Expected) + 1
        /\ Expected = {} => Cardinality(DOMAIN fds) = Cardinality(DOMAIN fds \ Expected)
    <2>1. Cardinality(DOMAIN fds \ Expected) <= 2 * Len(bos) + faults
      BY DEF Descriptors
    <2> QED BY <2>1, ExpectedOne
  <1>4. DOMAIN fds' \subseteq 3..Top'
    <2>1. DOMAIN fds \subseteq 3..Top
      BY DEF Descriptors
    <2>2. 3 + Cardinality(DOMAIN fds) <= Top
      BY <1>1, <1>2, <1>3 DEF Top
    <2>3. Top' = Top /\ Top \in Nat
      BY <1>2 DEF Top
    <2>4. new \in 3..Top
      BY <1>1, <2>2, <2>3
    <2> QED BY <1>1, <2>1, <2>3, <2>4
  <1>5. \A n \in DOMAIN fds' : fds'[n] \in Streams \/ \E k \in 1..Len(bos') : KoOf(n, k)' \/ SoOf(n, k)'
    <2>1. \A n \in DOMAIN fds : fds[n] \in Streams \/ \E k \in 1..Len(bos) : KoOf(n, k) \/ SoOf(n, k)
      BY DEF Descriptors
    <2>2. \A n \in DOMAIN fds : \A k : (KoOf(n, k)' <=> KoOf(n, k)) /\ (SoOf(n, k)' <=> SoOf(n, k))
      BY <1>1 DEF KoOf, SoOf
    <2>3. bos' = bos
      OBVIOUS
    <2>4. \A n \in DOMAIN fds' : n \in DOMAIN fds \/ fds'[n] \in Streams
      BY <1>1
    <2> QED BY <1>1, <2>1, <2>2, <2>3, <2>4, Zenon
  <1>6. \A m, n \in DOMAIN fds' : fds'[m] = fds'[n] /\ fds'[m] \in {<<"kotbl">>, <<"kallsyms">>} => m = n
    <2>1. \A m, n \in DOMAIN fds : fds[m] = fds[n] /\ fds[m] \in {<<"kotbl">>, <<"kallsyms">>} => m = n
      BY DEF Descriptors
    <2>2. w \in {<<"kotbl">>, <<"kallsyms">>} => \A n \in DOMAIN fds : fds[n] # w
      OBVIOUS
    <2> QED BY <1>1, <2>1, <2>2
  <1>7. \A n \in DOMAIN fds' : /\ fds'[n] = <<"kotbl">> => pc' \in {"prc", "down"}
                               /\ fds'[n] = <<"kallsyms">> => pc' \in {"lines", "mods", "cleanup", "down"}
    BY <1>1 DEF Range
  <1>8. Own' = Own
    <2>1. w[1] \notin {"ko", "so"}
      BY DEF Streams
    <2> QED BY <1>1, <2>1 DEF Own
  <1>9. \A j, k \in 1..Len(bos') : /\ bos'[j].kofd # bos'[k].sofd
                                   /\ bos'[j].kofd = bos'[k].kofd \/ bos'[j].sofd = bos'[k].sofd => j = k
    BY DEF Descriptors
  <1>10. ~wild' => \A k \in 1..Len(bos') : /\ bos'[k].kofd \in DOMAIN fds' /\ KoOf(bos[k].kofd, k)'
                                           /\ bos'[k].sofd \in DOMAIN fds' /\ SoOf(bos[k].sofd, k)'
    <2>1. ~wild => \A k \in 1..Len(bos) : /\ bos[k].kofd \in DOMAIN fds /\ KoOf(bos[k].kofd, k)
                                          /\ bos[k].sofd \in DOMAIN fds /\ SoOf(bos[k].sofd, k)
      BY DEF Descriptors
    <2> QED BY <1>1, <2>1 DEF KoOf, SoOf
  <1>11. ~wild' => Cardinality(Own') = 2 * Len(bos')
    BY <1>8 DEF Descriptors
  <1>12. Cardinality(DOMAIN fds' \ Expected') <= 2 * Len(bos') + faults'
    <2> DEFINE C == DOMAIN fds \ Expected
    <2>1. IsFiniteSet(C)
      BY FdsAre, FS_Subset DEF IsFds
    <2>2. CASE faults' = faults + 1
      <3>1. DOMAIN fds' \ Expected' \subseteq C \cup {new}
        BY <1>1
      <3>2. IsFiniteSet(C \cup {new}) /\ Cardinality(C \cup {new}) = Cardinality(C) + 1
        BY <1>1, <2>1, FS_AddElement
      <3>3. /\ Cardinality(DOMAIN fds' \ Expected') <= Cardinality(C \cup {new})
            /\ Cardinality(DOMAIN fds' \ Expected') \in Nat
        BY <3>1, <3>2, FS_Subset, FS_CardinalityType
      <3> QED BY <1>2, <1>3, <2>2, <3>2, <3>3
    <2>3. CASE faults' = faults /\ new \in Expected' /\ Expected = {}
      <3>1. DOMAIN fds' \ Expected' \subseteq C
        BY <1>1, <2>3
      <3>2. /\ Cardinality(DOMAIN fds' \ Expected') <= Cardinality(C)
            /\ Cardinality(DOMAIN fds' \ Expected') \in Nat
        BY <2>1, <3>1, FS_Subset, FS_CardinalityType
      <3> QED BY <1>2, <1>3, <2>3, <3>2
    <2> QED BY <2>2, <2>3 DEF new
  <1>13. ~wild' /\ pc' = "prc" => \E n \in DOMAIN fds' : fds'[n] = <<"kotbl">>
    <2>1. ~wild /\ pc = "prc" => \E n \in DOMAIN fds : fds[n] = <<"kotbl">>
      BY DEF Descriptors
    <2> QED BY <1>1, <2>1
  <1> QED BY <1>1, <1>4, <1>5, <1>6, <1>7, <1>9, <1>10, <1>11, <1>12, <1>13 DEF Descriptors

(* A new object brings its two descriptors. *)
LEMMA DescriptorsAdd ==
    ASSUME Arrays, Place, Descriptors, NEW path, NEW tried, AddsBo(path, tried)
    PROVE  Descriptors'
  <1> DEFINE new == NewBo(path)
             ko == <<"ko", path>>
             so == <<"so", new.sofnm>>
             F == OpenFd(fds, ko)
  <1>0. PICK a, b, L : a = Lowest(fds) /\ b = Lowest(F) /\ L = Len(bos)
    OBVIOUS
  <1>1. IsFds(fds) /\ Cardinality(DOMAIN fds) \in Nat
    BY FdsAre
  <1>2. new.kofd = a /\ new.sofd = b /\ new.kofnm = path
    BY <1>0 DEF NewBo
  <1>3. /\ IsFds(F) /\ DOMAIN F = DOMAIN fds \cup {a} /\ F[a] = ko /\ a \notin DOMAIN fds
        /\ (\A n \in DOMAIN fds : F[n] = fds[n]) /\ Cardinality(DOMAIN F) = Cardinality(DOMAIN fds) + 1
        /\ a \in 3..(3 + Cardinality(DOMAIN fds))
    <2> HIDE DEF ko
    <2> QED BY <1>0, <1>1, OpenIs, LowestIs
  <1>4. fds' = OpenFd(F, so)
    BY DEF AddsBo
  <1> HIDE DEF F
  <1>5. /\ IsFds(fds') /\ DOMAIN fds' = DOMAIN F \cup {b} /\ fds'[b] = so /\ b \notin DOMAIN F
        /\ (\A n \in DOMAIN F : fds'[n] = F[n]) /\ Cardinality(DOMAIN fds') = Cardinality(DOMAIN F) + 1
        /\ b \in 3..(3 + Cardinality(DOMAIN F))
    <2> HIDE DEF so, ko
    <2>1. IsFds(F)
      BY <1>3
    <2>2. /\ b \notin DOMAIN F /\ b \in 3..(3 + Cardinality(DOMAIN F)) /\ b = Lowest(F)
      BY <1>0, <2>1, LowestIs
    <2>3. /\ IsFds(OpenFd(F, so)) /\ DOMAIN OpenFd(F, so) = DOMAIN F \cup {Lowest(F)}
          /\ OpenFd(F, so)[Lowest(F)] = so
          /\ (\A n \in DOMAIN F : OpenFd(F, so)[n] = F[n])
          /\ Cardinality(DOMAIN OpenFd(F, so)) = Cardinality(DOMAIN F) + 1
      BY <2>1, OpenIs
    <2> QED BY <1>4, <2>2, <2>3, Zenon
  <1>6. /\ DOMAIN fds' = DOMAIN fds \cup {a, b} /\ fds'[a] = ko /\ fds'[b] = so
        /\ a # b /\ a \notin DOMAIN fds /\ b \notin DOMAIN fds
        /\ \A n \in DOMAIN fds : fds'[n] = fds[n]
    <2> HIDE DEF ko, so
    <2> QED BY <1>3, <1>5
  <1>7. /\ new \in Bo /\ L \in Nat /\ Len(bos') = L + 1 /\ bos'[L + 1] = new
        /\ \A n \in 1..L : bos'[n] = bos[n]
    <2>1. new \in Bo /\ bos \in Seq(Bo) /\ bos' = Append(bos, new)
      BY NewBoIs DEF AddsBo, Arrays
    <2> QED BY <1>0, <2>1
  <1>8. /\ ~wild /\ ~wild' /\ pc = "bos" /\ pc' = "bos" /\ kospec' = kospec
        /\ faults' \in Nat /\ faults <= faults'
        /\ faults \in 0..MaxFaults /\ Len(kospec) \in Nat /\ MaxFaults \in Nat /\ L + 1 <= Len(kospec)
    <2>1. pc = "bos" /\ ~wild
      BY DEF AddsBo, Place, Late
    <2>2. UNCHANGED <<pc, kospec, wild>> /\ faults' \in Nat /\ faults <= faults'
      BY ConstantsAssumption DEF AddsBo, opts, MoreFaults, Place
    <2>3. i <= Len(kospec) /\ i = L + 1
      BY <1>0 DEF AddsBo, Place
    <2> QED BY <2>1, <2>2, <2>3, ConstantsAssumption DEF Place, Arrays
  <1>9. Expected = {} /\ Expected' = {}
    BY <1>8 DEF Expected
  <1>10. Cardinality(DOMAIN fds) <= 2 * L + faults
    <2>1. Cardinality(DOMAIN fds \ Expected) <= 2 * L + faults
      BY <1>0, <1>8 DEF Descriptors
    <2>2. DOMAIN fds \ Expected = DOMAIN fds
      BY <1>9
    <2> QED BY <2>1, <2>2
  <1>11. \A k \in 1..L : /\ bos[k].kofd \in DOMAIN fds /\ KoOf(bos[k].kofd, k)
                         /\ bos[k].sofd \in DOMAIN fds /\ SoOf(bos[k].sofd, k)
    BY <1>0, <1>8 DEF Descriptors
  <1>12. DOMAIN fds' \subseteq 3..Top' /\ fds' = [n \in DOMAIN fds' |-> fds'[n]]
    <2>1. DOMAIN fds \subseteq 3..Top
      BY DEF Descriptors
    <2>2. 4 + Cardinality(DOMAIN fds) <= Top /\ Top \in Nat /\ Top' = Top
      BY <1>1, <1>7, <1>8, <1>10 DEF Top
    <2>3. a \in 3..Top /\ b \in 3..Top
      BY <1>1, <1>3, <1>5, <2>2
    <2>4. fds' = [n \in DOMAIN fds' |-> fds'[n]]
      BY <1>5 DEF IsFds
    <2> QED BY <1>6, <2>1, <2>2, <2>3, <2>4
  <1>13. KoOf(a, L + 1)' /\ SoOf(b, L + 1)'
    BY <1>2, <1>6, <1>7 DEF KoOf, SoOf
  <1>14. \A n \in DOMAIN fds : \A k \in 1..L : (KoOf(n, k)' <=> KoOf(n, k)) /\ (SoOf(n, k)' <=> SoOf(n, k))
    BY <1>6, <1>7 DEF KoOf, SoOf
  <1>15. 1..Len(bos') = (1..L) \cup {L + 1} /\ L + 1 \in 1..Len(bos')
    BY <1>7
  <1>16. \A n \in DOMAIN fds' : fds'[n] \in Streams \/ \E k \in 1..Len(bos') : KoOf(n, k)' \/ SoOf(n, k)'
    <2>1. \A n \in DOMAIN fds : fds[n] \in Streams \/ \E k \in 1..L : KoOf(n, k) \/ SoOf(n, k)
      BY <1>0 DEF Descriptors
    <2>2. \A n \in DOMAIN fds' : n \in DOMAIN fds \/ n = a \/ n = b
      BY <1>6
    <2> QED BY <1>6, <1>13, <1>14, <1>15, <2>1, <2>2, Zenon
  <1>17. \A n \in DOMAIN fds' : fds'[n] \in {<<"kotbl">>, <<"kallsyms">>} => n \in DOMAIN fds
    BY <1>6
  <1>18. \A m, n \in DOMAIN fds' : fds'[m] = fds'[n] /\ fds'[m] \in {<<"kotbl">>, <<"kallsyms">>} => m = n
    <2>1. \A m, n \in DOMAIN fds : fds[m] = fds[n] /\ fds[m] \in {<<"kotbl">>, <<"kallsyms">>} => m = n
      BY DEF Descriptors
    <2> QED BY <1>6, <1>17, <2>1
  <1>19. \A n \in DOMAIN fds' : /\ fds'[n] = <<"kotbl">> => pc' \in {"prc", "down"}
                                /\ fds'[n] = <<"kallsyms">> => pc' \in {"lines", "mods", "cleanup", "down"}
    <2>1. \A n \in DOMAIN fds : fds[n] # <<"kotbl">> /\ fds[n] # <<"kallsyms">>
      BY <1>8 DEF Descriptors
    <2> QED BY <1>6, <1>17, <2>1
  <1>20. \A j, k \in 1..Len(bos') : /\ bos'[j].kofd # bos'[k].sofd
                                    /\ bos'[j].kofd = bos'[k].kofd \/ bos'[j].sofd = bos'[k].sofd => j = k
    <2>1. \A j, k \in 1..L : /\ bos[j].kofd # bos[k].sofd
                             /\ bos[j].kofd = bos[k].kofd \/ bos[j].sofd = bos[k].sofd => j = k
      BY <1>0 DEF Descriptors
    <2>2. bos'[L + 1].kofd = a /\ bos'[L + 1].sofd = b
      BY <1>2, <1>7
    <2>3. \A k \in 1..L : bos'[k].kofd \in DOMAIN fds /\ bos'[k].sofd \in DOMAIN fds /\ bos'[k] = bos[k]
      BY <1>7, <1>11
    <2> QED BY <1>6, <1>15, <2>1, <2>2, <2>3
  <1>21. \A k \in 1..Len(bos') : /\ bos'[k].kofd \in DOMAIN fds' /\ KoOf(bos[k].kofd, k)'
                                 /\ bos'[k].sofd \in DOMAIN fds' /\ SoOf(bos[k].sofd, k)'
    <2>1. bos'[L + 1].kofd = a /\ bos'[L + 1].sofd = b /\ a \in DOMAIN fds' /\ b \in DOMAIN fds'
      BY <1>2, <1>6, <1>7
    <2>2. \A k \in 1..L : bos'[k] = bos[k] /\ \A n \in DOMAIN fds : n \in DOMAIN fds'
      BY <1>6, <1>7
    <2> QED BY <1>11, <1>13, <1>14, <1>15, <2>1, <2>2, Zenon
  <1>22. Cardinality(Own') = 2 * Len(bos')
    <2>1. Own' = (Own \cup {a}) \cup {b} /\ a \notin Own /\ b \notin Own \cup {a}
      <3>1. fds'[a][1] = "ko" /\ fds'[b][1] = "so"
        BY <1>6
      <3> QED BY <1>6, <3>1 DEF Own
    <2>2. IsFiniteSet(Own)
      BY <1>1, FS_Subset DEF Own, IsFds
    <2>3. IsFiniteSet(Own \cup {a}) /\ Cardinality(Own \cup {a}) = Cardinality(Own) + 1
      BY <2>1, <2>2, FS_AddElement
    <2>4. Cardinality(Own') = Cardinality(Own \cup {a}) + 1
      BY <2>1, <2>3, FS_AddElement
    <2>5. Cardinality(Own) = 2 * L
      BY <1>0, <1>8 DEF Descriptors
    <2> QED BY <1>7, <2>3, <2>4, <2>5
  <1>23. Cardinality(DOMAIN fds' \ Expected') <= 2 * Len(bos') + faults'
    <2>1. DOMAIN fds' \ Expected' = DOMAIN fds'
      BY <1>9
    <2>2. Cardinality(DOMAIN fds' \ Expected') = Cardinality(DOMAIN fds')
      BY <2>1, Zenon
    <2>3. Cardinality(DOMAIN fds') = Cardinality(DOMAIN fds) + 2
      BY <1>1, <1>3, <1>5
    <2>4. Cardinality(DOMAIN fds) + 2 <= 2 * Len(bos') + faults'
      BY <1>1, <1>7, <1>8, <1>10
    <2> QED BY <2>2, <2>3, <2>4
  <1> QED BY <1>8, <1>12, <1>16, <1>18, <1>19, <1>20, <1>21, <1>22, <1>23 DEF Descriptors

(* cleanup closes the descriptors of the objects. *)
LEMMA DescriptorsClean ==
    ASSUME Arrays, Place, Descriptors, cleanup
    PROVE  Descriptors'
  <1> DEFINE C == UNION {{b.kofd, b.sofd} : b \in Range(bos)}
             D == DOMAIN fds \ C
  <1>1. /\ pc = "cleanup" /\ pc' = "down" /\ bos' = <<>> /\ fds' = Restrict(fds, D)
        /\ UNCHANGED <<kospec, status, faults, wild>>
    BY DEF cleanup, opts
  <1>2. /\ DOMAIN fds' = D /\ (\A n \in D : fds'[n] = fds[n]) /\ fds' = [n \in DOMAIN fds' |-> fds'[n]]
        /\ IsFiniteSet(DOMAIN fds) /\ Len(bos') = 0
    <2>1. IsFds(fds) /\ D \subseteq DOMAIN fds
      BY FdsAre
    <2> HIDE DEF D
    <2> QED BY <1>1, <2>1, RestrictIs DEF IsFds
  <1>3. \A n \in C : \E k \in 1..Len(bos) : n \in {bos[k].kofd, bos[k].sofd}
    BY DEF Range, Arrays
  <1>4. \A k \in 1..Len(bos) : bos[k].kofd \in C /\ bos[k].sofd \in C
    <2> SUFFICES ASSUME NEW k \in 1..Len(bos) PROVE bos[k].kofd \in C /\ bos[k].sofd \in C
      OBVIOUS
    <2>1. bos[k] \in Range(bos)
      BY DEF Range, Arrays
    <2> QED BY <2>1
  <1>5. \A n \in DOMAIN fds : fds[n] \in Streams \/ n \in C
    <2>1. \A n \in DOMAIN fds : fds[n] \in Streams \/ \E k \in 1..Len(bos) : KoOf(n, k) \/ SoOf(n, k)
      BY DEF Descriptors
    <2>2. \A n, k : (KoOf(n, k) => bos[k].kofd = n) /\ (SoOf(n, k) => bos[k].sofd = n)
      BY DEF KoOf, SoOf
    <2> HIDE DEF C
    <2> QED BY <1>4, <2>1, <2>2
  <1> HIDE DEF C
  <1>6. \A n \in DOMAIN fds' : n \in DOMAIN fds /\ fds'[n] = fds[n] /\ fds'[n] \in Streams
    BY <1>2, <1>5
  <1>7. DOMAIN fds' \subseteq 3..Top'
    <2>1. DOMAIN fds \subseteq 3..Top /\ Top' = Top
      BY <1>1 DEF Descriptors, Top
    <2> QED BY <1>2, <2>1
  <1>8. \A m, n \in DOMAIN fds' : fds'[m] = fds'[n] /\ fds'[m] \in {<<"kotbl">>, <<"kallsyms">>} => m = n
    BY <1>6 DEF Descriptors
  <1>9. Own' = {}
    <2>1. \A w \in Streams : w[1] \notin {"ko", "so"}
      BY DEF Streams
    <2> QED BY <1>6, <2>1 DEF Own
  <1>10. Cardinality(Own') = 0
    BY <1>9, FS_EmptySet
  <1>11. ASSUME ~wild PROVE Cardinality(DOMAIN fds' \ Expected') <= faults'
    <2>1. Expected = {} /\ Expected' = {}
      BY <1>1 DEF Expected
    <2>2. Own \subseteq C
      <3>1. \A w \in Streams : w[1] \notin {"ko", "so"}
        BY DEF Streams
      <3> QED BY <1>5, <3>1 DEF Own
    <2>3. C \subseteq Own
      <3>1. \A k \in 1..Len(bos) : /\ bos[k].kofd \in DOMAIN fds /\ fds[bos[k].kofd] = <<"ko", bos[k].kofnm>>
                                   /\ bos[k].sofd \in DOMAIN fds /\ fds[bos[k].sofd] = <<"so", bos[k].sofnm>>
        BY <1>11 DEF Descriptors, KoOf, SoOf
      <3>2. \A k \in 1..Len(bos) : bos[k].kofd \in Own /\ bos[k].sofd \in Own
        BY <3>1 DEF Own
      <3> QED BY <1>3, <3>2
    <2>4. D = DOMAIN fds \ Own /\ DOMAIN fds \cap Own = Own
      BY <2>2, <2>3 DEF Own
    <2>5. Cardinality(D) = Cardinality(DOMAIN fds) - Cardinality(Own)
      BY <1>2, <2>4, FS_Difference
    <2>6. Cardinality(DOMAIN fds \ Expected) <= 2 * Len(bos) + faults /\ Cardinality(Own) = 2 * Len(bos)
      BY <1>1, <1>11 DEF Descriptors
    <2>7. DOMAIN fds \ Expected = DOMAIN fds /\ DOMAIN fds' \ Expected' = D
      BY <1>2, <2>1
    <2>8. Cardinality(DOMAIN fds) \in Nat /\ Len(bos) \in Nat /\ faults \in Nat /\ faults' = faults
      BY <1>1, FdsAre, ConstantsAssumption DEF Arrays, Place
    <2> HIDE DEF D
    <2>9. /\ Cardinality(DOMAIN fds \ Expected) = Cardinality(DOMAIN fds)
          /\ Cardinality(DOMAIN fds' \ Expected') = Cardinality(D)
      BY <2>7, Zenon
    <2> QED BY <2>5, <2>6, <2>8, <2>9
  <1>12. /\ faults' \in Nat /\ wild' = wild /\ wild \in BOOLEAN /\ pc' = "down"
         /\ 2 * Len(bos') + faults' = faults' /\ Cardinality(Own') = 2 * Len(bos')
    BY <1>1, <1>2, <1>10, ConstantsAssumption DEF Place
  <1>13. ~wild' => Cardinality(DOMAIN fds' \ Expected') <= 2 * Len(bos') + faults'
    BY <1>11, <1>12
  <1>14. 1..Len(bos') = {}
    BY <1>2
  <1> HIDE DEF D
  <1> QED BY <1>1, <1>2, <1>6, <1>7, <1>8, <1>12, <1>13, <1>14 DEF Descriptors

(* A step that opens and closes nothing. *)
LEMMA DescriptorsKeep ==
    ASSUME Arrays, Place, Descriptors, pc # "down", UNCHANGED <<fds, bos, wild>>,
           Len(kospec') \in Nat, Len(kospec) <= Len(kospec'), faults' \in Nat, faults <= faults',
           \/ pc' = pc
           \/ pc = "lines" /\ pc' = "mods"
           \/ pc' = "down" /\ status' = "crash"
           \/ pc \in Early \cup {"kallsyms"} /\ pc' # "prc"
    PROVE  Descriptors'
  <1>1. fds' = Restrict(fds, DOMAIN fds)
    BY DEF Descriptors, Restrict
  <1>2. wild \in BOOLEAN /\ wild' \in BOOLEAN /\ faults \in Nat
    BY ConstantsAssumption DEF Place
  <1>3. wild' \/ (~wild /\ Own \subseteq DOMAIN fds)
    BY <1>2 DEF Own
  <1>4. \A n \in DOMAIN fds : /\ fds[n] = <<"kotbl">> => pc = "prc"
                              /\ fds[n] = <<"kallsyms">> => pc \in {"lines", "mods", "cleanup"}
    BY DEF Descriptors
  <1>5. \A n \in DOMAIN fds : /\ fds[n] = <<"kotbl">> => pc' \in {"prc", "down"}
                              /\ fds[n] = <<"kallsyms">> => pc' \in {"lines", "mods", "cleanup", "down"}
    BY <1>4 DEF Early
  <1>6. pc' # "down" \/ (~wild' /\ status' # "crash") =>
            \A n \in DOMAIN fds : n \in Expected => n \in Expected'
    BY <1>4 DEF Expected, Early
  <1>7. pc' = "prc" => pc = "prc"
    OBVIOUS
  <1> HIDE DEF Expected, Own
  <1> QED BY <1>1, <1>2, <1>3, <1>5, <1>6, <1>7, DescriptorsLess

(* What writeso does to the descriptors. *)
WritesFds ==
    \/ UNCHANGED <<fds, wild, status>>
    \/ fds' = OpenFd(fds, <<"mem">>) /\ faults' = faults + 1 /\ UNCHANGED <<wild, status>>
    \/ wild' = TRUE /\ \E n : fds' = CloseFd(fds, n)

LEMMA WritesoFds ==
    ASSUME IsFds(fds), NEW path, NEW fd, NEW es, NEW len, writeso(path, fd, es, len)
    PROVE  WritesFds
  <1>1. CloseFd(OpenFd(fds, <<"mem">>), Lowest(fds)) = fds
    BY CloseOpened
  <1>2. CASE fds' = CloseFd(OpenFd(fds, <<"mem">>), Lowest(fds)) /\ UNCHANGED <<wild, status>>
    BY <1>1, <1>2 DEF WritesFds
  <1>3. CASE Fault /\ fds' = OpenFd(fds, <<"mem">>) /\ UNCHANGED <<wild, status>>
    BY <1>3 DEF Fault, WritesFds
  <1>4. CASE wild' = TRUE /\ \E n \in DOMAIN fds \cup {Wild} : fds' = CloseFd(fds, n)
    BY <1>4 DEF WritesFds
  <1> QED BY <1>2, <1>3, <1>4, Zenon DEF writeso

LEMMA DescriptorsWrite ==
    ASSUME Arrays, Place, Descriptors, WritesFds, UNCHANGED <<bos, kospec>>,
           faults' \in {faults, faults + 1} \cap 0..MaxFaults, status' \in {status, "crash"},
           NEW next, AfterWrite(next),
           \/ pc = "prc" /\ next = "prc"
           \/ pc \in {"lines", "mods"} /\ next = "mods"
    PROVE  Descriptors'
  <1>1. IsFds(fds) /\ Len(kospec) \in Nat /\ MaxFaults \in Nat
    BY FdsAre, ConstantsAssumption DEF Arrays
  <1>2. status # "crash" /\ pc # "down" /\ faults \in Nat
    BY <1>1 DEF Place
  <1>3. pc' = IF status' = "crash" THEN "down" ELSE next
    BY DEF AfterWrite
  <1>4. faults' \in Nat /\ faults <= faults' /\ Len(kospec') \in Nat /\ Len(kospec) <= Len(kospec')
    BY <1>1, <1>2
  <1>5. CASE UNCHANGED <<fds, wild, status>>
    BY <1>2, <1>3, <1>4, <1>5, DescriptorsKeep
  <1>6. \A n \in DOMAIN fds : /\ fds[n] = <<"kotbl">> => pc = "prc"
                              /\ fds[n] = <<"kallsyms">> => pc \in {"lines", "mods", "cleanup"}
    BY <1>2 DEF Descriptors
  <1>7. CASE fds' = OpenFd(fds, <<"mem">>) /\ faults' = faults + 1 /\ UNCHANGED <<wild, status>>
    <2>1. <<"mem">> \in Streams /\ <<"mem">> # <<"kotbl">> /\ <<"mem">> # <<"kallsyms">>
      BY DEF Streams
    <2>2. pc' = next
      BY <1>2, <1>3, <1>7
    <2>3. DOMAIN fds \subseteq DOMAIN fds' /\ \A n \in DOMAIN fds : fds'[n] = fds[n]
      <3>1. /\ DOMAIN OpenFd(fds, <<"mem">>) = DOMAIN fds \cup {Lowest(fds)}
            /\ \A n \in DOMAIN fds : OpenFd(fds, <<"mem">>)[n] = fds[n]
        BY <1>1, OpenIs
      <3> QED BY <1>7, <3>1, Zenon
    <2>4. Expected \subseteq Expected'
      BY <2>2, <2>3 DEF Expected
    <2>5. \A x \in {<<"mem">>} \cup Range(fds) :
              /\ x = <<"kotbl">> => pc' \in {"prc", "down"}
              /\ x = <<"kallsyms">> => pc' \in {"lines", "mods", "cleanup", "down"}
      <3>1. \A x \in Range(fds) : \E n \in DOMAIN fds : x = fds[n]
        BY DEF Range
      <3>2. (pc = "prc" => pc' = "prc") /\ (pc \in {"lines", "mods", "cleanup"} => pc' = "mods")
        BY <2>2
      <3> QED BY <1>6, <2>1, <3>1, <3>2
    <2>6. pc' = "prc" => pc = "prc"
      BY <2>2
    <2>7. faults' \in 0..MaxFaults
      OBVIOUS
    <2> HIDE DEF Expected
    <2> QED BY <1>2, <1>7, <2>1, <2>4, <2>5, <2>6, <2>7, DescriptorsOpen
  <1>8. CASE wild' = TRUE /\ \E n : fds' = CloseFd(fds, n)
    <2>1. PICK n : fds' = CloseFd(fds, n)
      BY <1>8
    <2> DEFINE D == DOMAIN fds \ {n}
    <2>2. fds' = Restrict(fds, D) /\ D \subseteq DOMAIN fds
      BY <2>1 DEF CloseFd
    <2> HIDE DEF D
    <2>3. \A x \in D : /\ fds[x] = <<"kotbl">> => pc' \in {"prc", "down"}
                       /\ fds[x] = <<"kallsyms">> => pc' \in {"lines", "mods", "cleanup", "down"}
      BY <1>3, <1>6, <2>2
    <2>4. wild \in BOOLEAN /\ wild' \in BOOLEAN /\ wild'
      BY <1>8 DEF Place
    <2>5. pc' # "down" \/ (~wild' /\ status' # "crash") => pc' = next
      BY <1>3, <2>4
    <2>6. pc' = next => \A x \in D : x \in Expected => x \in Expected'
      <3>1. \A x \in D : x \in DOMAIN fds' /\ fds'[x] = fds[x]
        BY <1>1, <2>2, RestrictIs
      <3> QED BY <1>2, <3>1 DEF Expected
    <2>7. pc' = "prc" => pc = "prc"
      BY <1>3
    <2> HIDE DEF Expected
    <2> QED BY <1>2, <1>4, <2>2, <2>3, <2>4, <2>5, <2>6, <2>7, DescriptorsLess
  <1> QED BY <1>5, <1>7, <1>8 DEF WritesFds

(* The descriptors in the first part of the program. *)
LEMMA DescriptorsFirst ==
    ASSUME Arrays, Place, Descriptors,
           \/ Getcwd \/ EndOfOptions \/ optN \/ usage \/ addbo \/ EndOfSpecs \/ prcExec
           \/ (\E d \in Paths : optK(d)) \/ (\E s \in Specs : optk(s))
    PROVE  Descriptors'
  <1>1. Len(kospec) \in Nat /\ MaxFaults \in Nat /\ IsFds(fds) /\ -1 \notin DOMAIN fds /\ faults \in Nat
    BY FdsAre, ConstantsAssumption DEF Arrays, Place
  <1>2. ASSUME UNCHANGED <<fds, bos, wild>>, Len(kospec') \in Nat, Len(kospec) <= Len(kospec'),
               faults' \in Nat, faults <= faults', pc \in Early, pc' # "prc"
        PROVE  Descriptors'
    <2>1. pc # "down" /\ faults' \in Nat /\ faults <= faults'
      BY <1>1, <1>2 DEF Early
    <2> QED BY <1>2, <2>1, DescriptorsKeep
  <1>3. CASE Getcwd
    BY <1>1, <1>2, <1>3 DEF Getcwd, Exit, Fault, NoFault, Early
  <1>4. CASE EndOfOptions \/ EndOfSpecs
    BY <1>1, <1>2, <1>4 DEF EndOfOptions, EndOfSpecs, opts, Early
  <1>5. CASE prcExec
    <2>1. CloseFd(OpenFd(fds, <<"exec">>), Lowest(fds)) = fds
      BY <1>1, CloseOpened
    <2>2. fds' = fds
      BY <1>5, <2>1 DEF prcExec, elf_open_secdata, elf_close_secdata
    <2>3. UNCHANGED <<kospec, bos, wild, faults>> /\ pc = "exec" /\ pc' = "open"
      BY <1>5 DEF prcExec, opts, NoFault
    <2> QED BY <1>1, <1>2, <2>2, <2>3 DEF Early
  <1>6. CASE optN
    BY <1>1, <1>2, <1>6 DEF optN, Option, Early
  <1>7. CASE usage
    BY <1>1, <1>2, <1>7 DEF usage, Option, Exit, opts, Early
  <1>8. ASSUME NEW d \in Paths, optK(d) PROVE Descriptors'
    BY <1>1, <1>2, <1>8 DEF optK, Option, Early
  <1>9. ASSUME NEW s \in Specs, optk(s) PROVE Descriptors'
    <2>1. kospec' = Append(kospec, s) /\ pc = "opts" /\ UNCHANGED <<pc, bos, fds, faults, wild>>
      BY <1>9 DEF optk, Option
    <2>2. Len(kospec') = Len(kospec) + 1
      BY <2>1 DEF Arrays
    <2> QED BY <1>1, <1>2, <2>1, <2>2 DEF Early
  <1>10. CASE NoBo
    <2>1. /\ pc = "bos" /\ pc' = "down" /\ UNCHANGED <<opts, bos>> /\ faults' \in Nat /\ faults <= faults'
          /\ \/ fds' = fds /\ UNCHANGED wild
             \/ wild' = TRUE /\ \E n : fds' = CloseFd(fds, n)
      BY <1>1, <1>10 DEF NoBo, MoreFaults
    <2>2. kospec' = kospec
      BY <2>1 DEF opts
    <2>3. CASE fds' = fds /\ UNCHANGED wild
      BY <1>1, <1>2, <2>1, <2>2, <2>3 DEF Early
    <2>4. CASE wild' = TRUE /\ \E n : fds' = CloseFd(fds, n)
      <3>1. PICK n : fds' = CloseFd(fds, n)
        BY <2>4
      <3> DEFINE D == DOMAIN fds \ {n}
      <3>2. fds' = Restrict(fds, D) /\ D \subseteq DOMAIN fds
        BY <3>1 DEF CloseFd
      <3> HIDE DEF D
      <3>3. wild \in BOOLEAN /\ wild' \in BOOLEAN /\ wild'
        BY <2>4 DEF Place
      <3>4. faults' \in Nat /\ faults <= faults' /\ bos' = bos
        BY <1>1, <2>1
      <3> QED BY <1>1, <2>1, <2>2, <3>2, <3>3, <3>4, DescriptorsLess
    <2> QED BY <2>1, <2>3, <2>4
  <1>11. CASE addbo
    BY <1>1, <1>10, <1>11, DescriptorsAdd, AddboIs
  <1> QED BY <1>3, <1>4, <1>5, <1>6, <1>7, <1>8, <1>9, <1>11

(* And in the second. *)
LEMMA DescriptorsSecond ==
    ASSUME Arrays, Place, Descriptors,
           \/ OpenKotbl \/ prcBO \/ CloseKotbl \/ OpenKallsyms \/ WriteKern \/ WriteMod
           \/ EndOfKallsyms \/ cleanup \/ (\E l \in Lines : GetLine(l))
    PROVE  Descriptors'
  <1>1. /\ Len(kospec) \in Nat /\ MaxFaults \in Nat /\ IsFds(fds) /\ faults \in Nat /\ faults \in 0..MaxFaults
        /\ wild \in BOOLEAN
    BY FdsAre, ConstantsAssumption DEF Arrays, Place
  <1>2. ASSUME UNCHANGED <<fds, bos, wild, kospec>>, faults' \in {faults, faults + 1}, pc # "down",
               \/ pc' = pc
               \/ pc = "lines" /\ pc' = "mods"
               \/ pc' = "down" /\ status' = "crash"
               \/ pc \in Early \cup {"kallsyms"} /\ pc' # "prc"
        PROVE  Descriptors'
    <2>1. faults' \in Nat /\ faults <= faults' /\ Len(kospec') \in Nat /\ Len(kospec) <= Len(kospec')
      BY <1>1, <1>2
    <2> QED BY <1>2, <2>1, DescriptorsKeep
  <1>3. ASSUME NEW w \in {<<"kotbl">>, <<"kallsyms">>}, fds' = OpenFd(fds, w),
               UNCHANGED <<bos, kospec, wild>>,
               w = <<"kotbl">> => pc = "open" /\ pc' = "prc" /\ NoFault,
               w = <<"kallsyms">> => /\ pc = "kallsyms"
                                     /\ \/ pc' = "lines" /\ NoFault
                                        \/ pc' = "cleanup" /\ Fault
        PROVE  Descriptors'
    <2>1. w \in Streams /\ <<"kotbl">> # <<"kallsyms">> /\ pc \in {"open", "kallsyms"}
      BY <1>3 DEF Streams
    <2>2. \A n \in DOMAIN fds : fds[n] # <<"kotbl">> /\ fds[n] # <<"kallsyms">>
      BY <2>1 DEF Descriptors
    <2>3. Expected = {}
      BY <2>1 DEF Expected
    <2>4. Lowest(fds) \in DOMAIN fds' /\ fds'[Lowest(fds)] = w
      BY <1>1, <1>3, OpenIs
    <2>5. \/ faults' = faults + 1
          \/ faults' = faults /\ Lowest(fds) \in Expected'
      BY <1>3, <2>1, <2>4 DEF Expected, Fault, NoFault
    <2>6. faults' \in 0..MaxFaults
      BY <1>1, <1>3 DEF Fault, NoFault
    <2>7. \A x \in {w} \cup Range(fds) :
              /\ x = <<"kotbl">> => pc' \in {"prc", "down"}
              /\ x = <<"kallsyms">> => pc' \in {"lines", "mods", "cleanup", "down"}
      <3>1. \A x \in Range(fds) : x # <<"kotbl">> /\ x # <<"kallsyms">>
        BY <2>2 DEF Range
      <3> QED BY <1>3, <3>1
    <2>8. (pc' = "prc" => w = <<"kotbl">>) /\ pc # "down"
      BY <1>3, <2>1
    <2>9. \A n \in DOMAIN fds : fds[n] # w
      BY <2>2
    <2> HIDE DEF Expected
    <2> QED BY <1>3, <2>1, <2>3, <2>5, <2>6, <2>7, <2>8, <2>9, DescriptorsOpen
  <1>4. CASE OpenKotbl
    <2>1. UNCHANGED <<bos, kospec, wild>> /\ pc = "open"
      BY <1>4 DEF OpenKotbl, opts
    <2>2. CASE pc' # "prc" /\ (NoFault \/ Fault) /\ UNCHANGED fds
      BY <1>2, <2>1, <2>2 DEF Early, NoFault, Fault
    <2>3. CASE pc' = "prc" /\ fds' = OpenFd(fds, <<"kotbl">>) /\ NoFault
      BY <1>3, <2>1, <2>3
    <2> QED BY <1>4, <2>2, <2>3 DEF OpenKotbl, Exit
  <1>5. CASE OpenKallsyms
    <2>1. UNCHANGED <<bos, kospec, wild>> /\ pc = "kallsyms"
      BY <1>5 DEF OpenKallsyms, opts
    <2>2. CASE pc' = "cleanup" /\ (NoFault \/ Fault) /\ UNCHANGED fds
      BY <1>2, <2>1, <2>2 DEF NoFault, Fault
    <2>3. CASE fds' = OpenFd(fds, <<"kallsyms">>) /\ ((pc' = "lines" /\ NoFault) \/ (pc' = "cleanup" /\ Fault))
      BY <1>3, <2>1, <2>3
    <2> QED BY <1>5, <2>2, <2>3 DEF OpenKallsyms, Exit
  <1>6. ASSUME NEW D, D \subseteq DOMAIN fds, fds' = Restrict(fds, D), UNCHANGED <<bos, kospec, wild>>,
               faults' \in {faults, faults + 1}, pc # "down", pc' \in {"kallsyms", "cleanup"}, Own \subseteq D,
               \A n \in D : n \notin Expected,
               \A n \in D : /\ fds[n] # <<"kotbl">>
                            /\ fds[n] = <<"kallsyms">> => pc' = "cleanup"
        PROVE  Descriptors'
    <2>1. wild' \in BOOLEAN /\ (wild' \/ (~wild /\ Own \subseteq D))
      BY <1>1, <1>6
    <2>2. \A n \in D : n \in Expected => n \in Expected'
      BY <1>6
    <2>3. faults' \in Nat /\ faults <= faults' /\ Len(kospec') \in Nat /\ Len(kospec) <= Len(kospec') /\ bos' = bos
      BY <1>1, <1>6
    <2>4. \A n \in D : /\ fds[n] = <<"kotbl">> => pc' \in {"prc", "down"}
                       /\ fds[n] = <<"kallsyms">> => pc' \in {"lines", "mods", "cleanup", "down"}
      BY <1>6
    <2>5. pc' # "prc"
      BY <1>6
    <2> HIDE DEF Expected, Own
    <2> QED BY <1>1, <1>6, <2>1, <2>2, <2>3, <2>4, <2>5, DescriptorsLess
  <1>7. \A n \in Own : fds[n] # <<"kotbl">> /\ fds[n] # <<"kallsyms">> /\ n \in DOMAIN fds
    BY DEF Own
  <1>8. CASE CloseKotbl
    <2> DEFINE D == DOMAIN fds \ {n \in DOMAIN fds : fds[n] = <<"kotbl">>}
    <2>1. /\ pc = "prc" /\ pc' = "kallsyms" /\ fds' = Restrict(fds, D) /\ UNCHANGED <<bos, kospec, wild>>
          /\ faults' \in {faults, faults + 1}
      BY <1>8 DEF CloseKotbl, Fault, NoFault, opts
    <2>2. D \subseteq DOMAIN fds /\ Own \subseteq D
      BY <1>7
    <2>3. \A n \in D : n \notin Expected /\ fds[n] # <<"kotbl">> /\ fds[n] # <<"kallsyms">>
      BY <2>1 DEF Expected, Descriptors
    <2> HIDE DEF D, Expected, Own
    <2> QED BY <1>6, <2>1, <2>2, <2>3
  <1>9. CASE EndOfKallsyms
    <2> DEFINE D == {n \in DOMAIN fds : fds[n] # <<"kallsyms">>}
    <2>1. /\ pc = "mods" /\ pc' = "cleanup" /\ fds' = Restrict(fds, D) /\ UNCHANGED <<bos, kospec, wild, faults>>
      BY <1>9 DEF EndOfKallsyms, Exit, opts
    <2>2. D \subseteq DOMAIN fds /\ Own \subseteq D
      BY <1>7
    <2>3. \A n \in D : n \notin Expected /\ fds[n] # <<"kotbl">> /\ fds[n] # <<"kallsyms">>
      BY <2>1 DEF Expected, Descriptors
    <2> HIDE DEF D, Expected, Own
    <2> QED BY <1>6, <2>1, <2>2, <2>3
  <1>10. ASSUME NEW l \in Lines, GetLine(l) PROVE Descriptors'
    BY <1>2, <1>10 DEF GetLine, opts
  <1>11. CASE prcBO
    <2>1. pc = "prc" /\ AfterWrite("prc") /\ UNCHANGED <<bos, kospec>>
      BY <1>11 DEF prcBO, opts
    <2>2. \/ \E es : writeso(bos[i].sofnm, bos[i].sofd, es, nmstrlen(es))
          \/ NoFault /\ UNCHANGED <<fds, wild, status>>
      BY <1>11 DEF prcBO
    <2>3. WritesFds /\ faults' \in {faults, faults + 1} \cap 0..MaxFaults /\ status' \in {status, "crash"}
      <3>1. CASE NoFault /\ UNCHANGED <<fds, wild, status>>
        BY <1>1, <3>1 DEF NoFault, WritesFds
      <3>2. CASE \E es : writeso(bos[i].sofnm, bos[i].sofd, es, nmstrlen(es))
        <4>1. PICK path, fd, es, len : writeso(path, fd, es, len)
          BY <3>2
        <4>2. WritesFds
          BY <1>1, <4>1, WritesoFds
        <4>3. /\ status' \in {status, "crash"}
              /\ faults' = faults \/ (faults < MaxFaults /\ faults' = faults + 1)
          BY <4>1, WritesoIs
        <4> QED BY <1>1, <4>2, <4>3
      <3> QED BY <2>2, <3>1, <3>2
    <2> QED BY <2>1, <2>3, DescriptorsWrite
  <1>12. CASE WriteKern \/ WriteMod
    <2>1. pc \in {"lines", "mods"} /\ AfterWrite("mods") /\ UNCHANGED <<bos, kospec>>
      BY <1>12 DEF WriteKern, WriteMod, opts
    <2>2. \/ \E path, fd, es, len : writeso(path, fd, es, len)
          \/ NoFault /\ UNCHANGED <<fds, wild, status>>
      BY <1>12 DEF WriteKern, WriteMod
    <2>3. WritesFds /\ faults' \in {faults, faults + 1} \cap 0..MaxFaults /\ status' \in {status, "crash"}
      <3>1. CASE NoFault /\ UNCHANGED <<fds, wild, status>>
        BY <1>1, <3>1 DEF NoFault, WritesFds
      <3>2. CASE \E path, fd, es, len : writeso(path, fd, es, len)
        <4>1. PICK path, fd, es, len : writeso(path, fd, es, len)
          BY <3>2
        <4>2. WritesFds
          BY <1>1, <4>1, WritesoFds
        <4>3. /\ status' \in {status, "crash"}
              /\ faults' = faults \/ (faults < MaxFaults /\ faults' = faults + 1)
          BY <4>1, WritesoIs
        <4> QED BY <1>1, <4>2, <4>3
      <3> QED BY <2>2, <3>1, <3>2
    <2> QED BY <2>1, <2>3, DescriptorsWrite
  <1> QED BY <1>4, <1>5, <1>8, <1>9, <1>10, <1>11, <1>12, DescriptorsClean

(* The descriptors in every step. *)
LEMMA DescriptorsStep ==
    ASSUME Arrays, Place, Descriptors, [Next]_vars
    PROVE  Descriptors'
  <1>1. CASE UNCHANGED vars
    <2>1. UNCHANGED <<pc, kospec, bos, fds, status, faults, wild>>
      BY <1>1 DEF vars, opts
    <2> QED BY <2>1 DEF Descriptors, Own, Expected, Top, KoOf, SoOf
  <1> QED BY <1>1, DescriptorsFirst, DescriptorsSecond DEF Next, main
-----------------------------------------------------------------------------
(* The table of objects *)

LEMMA TableInit == Init => Table
  <1> SUFFICES ASSUME Init PROVE Table
    OBVIOUS
  <1>1. pc = "init" /\ kotbl = <<>> /\ Len(kotbl) = 0 /\ 1..Len(kotbl) = {}
    BY DEF Init
  <1> QED BY <1>1 DEF Table, KotblRight

(* The lines of t that are whole are lines of s in the same order, and at  *)
(* most one is not whole; g says where in s they are.                      *)
WholeLines(t) == {x \in 1..Len(t) : t[x] # Torn}
Embeds(t, s, g) ==
    /\ \A x \in WholeLines(t) : g[x] \in 1..Len(s) /\ t[x] = s[g[x]]
    /\ \A x, y \in WholeLines(t) : x < y => g[x] < g[y]
    /\ \A x, y \in (1..Len(t)) \ WholeLines(t) : x = y

(* The elements of a part of a sequence, and of two sequences joined. *)
LEMMA PartIs ==
    ASSUME NEW X, NEW s \in Seq(X), NEW m \in Nat \ {0}, NEW n \in Nat, m <= n + 1, n <= Len(s)
    PROVE  /\ SubSeq(s, m, n) \in Seq(X) /\ Len(SubSeq(s, m, n)) = n - m + 1
           /\ \A x \in 1..(n - m + 1) : SubSeq(s, m, n)[x] = s[m + x - 1]
  OBVIOUS

LEMMA JoinIs ==
    ASSUME NEW X, NEW s \in Seq(X), NEW t \in Seq(X)
    PROVE  /\ s \o t \in Seq(X) /\ Len(s \o t) = Len(s) + Len(t)
           /\ \A x \in 1..(Len(s) + Len(t)) : (s \o t)[x] = IF x <= Len(s) THEN s[x] ELSE t[x - Len(s)]
  OBVIOUS

(* Which parts are left of a table that lost a stretch. *)
LEMMA CutIs ==
    ASSUME NEW s, NEW b, NEW t \in Cut(s, b)
    PROVE  \E a \in 0..(b - 1), m \in {<<>>, <<Torn>>} : t = SubSeq(s, 1, a) \o m \o SubSeq(s, b, Len(s))
  <1> DEFINE P(a, m) == SubSeq(s, 1, a) \o m \o SubSeq(s, b, Len(s))
  <1>1. Cut(s, b) = {P(a, m) : a \in 0..(b - 1), m \in {<<>>, <<Torn>>}}
    BY DEF Cut
  <1> HIDE DEF P
  <1>2. ASSUME NEW S, NEW R PROVE \A x \in {P(a, m) : a \in S, m \in R} : \E a \in S, m \in R : x = P(a, m)
    OBVIOUS
  <1>3. \E a \in 0..(b - 1), m \in {<<>>, <<Torn>>} : t = P(a, m)
    BY <1>1, <1>2
  <1> QED BY <1>3 DEF P

(* They have the lines of the table in its order. *)
LEMMA CutEmbeds ==
    ASSUME NEW X, NEW s \in Seq(X), Torn \notin X, NEW b \in 1..(Len(s) + 1), NEW t \in Cut(s, b)
    PROVE  \E g : Embeds(t, s, g)
  <1> DEFINE L == Len(s)
  <1>1. PICK a \in 0..(b - 1), m \in {<<>>, <<Torn>>} : t = SubSeq(s, 1, a) \o m \o SubSeq(s, b, Len(s))
    BY CutIs
  <1>2. PICK c : c = Len(m) /\ c \in {0, 1} /\ m \in Seq({Torn}) /\ \A x \in 1..c : m[x] = Torn
    <2> HIDE DEF Torn
    <2>1. CASE m = <<>>
      BY <2>1
    <2>2. CASE m = <<Torn>>
      BY <2>2
    <2> QED BY <2>1, <2>2
  <1>3. L \in Nat /\ b \in Nat \ {0} /\ a \in Nat /\ a < b /\ b <= L + 1
    OBVIOUS
  <1>4. PICK u : /\ u = SubSeq(s, 1, a) /\ u \in Seq(X) /\ Len(u) = a /\ \A x \in 1..a : u[x] = s[x]
    <2>1. /\ SubSeq(s, 1, a) \in Seq(X) /\ Len(SubSeq(s, 1, a)) = a - 1 + 1
          /\ \A x \in 1..(a - 1 + 1) : SubSeq(s, 1, a)[x] = s[1 + x - 1]
      <3>1. 1 \in Nat \ {0} /\ 1 <= a + 1 /\ a <= Len(s)
        BY <1>3
      <3> QED BY <1>3, <3>1, PartIs
    <2>2. a - 1 + 1 = a /\ \A x \in 1..a : 1 + x - 1 = x
      BY <1>3
    <2> QED BY <2>1, <2>2
  <1>5. PICK v : /\ v = SubSeq(s, b, L) /\ v \in Seq(X) /\ Len(v) = L - b + 1
                 /\ \A x \in 1..(L - b + 1) : v[x] = s[b + x - 1]
    <2>1. L <= Len(s)
      BY <1>3
    <2>2. /\ SubSeq(s, b, L) \in Seq(X) /\ Len(SubSeq(s, b, L)) = L - b + 1
          /\ \A x \in 1..(L - b + 1) : SubSeq(s, b, L)[x] = s[b + x - 1]
      BY <1>3, <2>1, PartIs
    <2> QED BY <2>2, Zenon
  <1>6. /\ Len(t) = a + c + (L - b + 1)
        /\ \A x \in 1..Len(t) : t[x] = IF x <= a THEN u[x] ELSE IF x <= a + c THEN m[x - a]
                                      ELSE v[x - a - c]
    <2>1. PICK Y : Y = X \cup {Torn}
      OBVIOUS
    <2>2. u \in Seq(Y) /\ m \in Seq(Y) /\ v \in Seq(Y)
      BY <1>2, <1>4, <1>5, <2>1
    <2>3. t = u \o m \o v
      BY <1>1, <1>4, <1>5
    <2>4. PICK w : /\ w = u \o m /\ w \in Seq(Y) /\ Len(w) = a + c
                   /\ \A x \in 1..(a + c) : w[x] = IF x <= a THEN u[x] ELSE m[x - a]
      <3>1. /\ u \o m \in Seq(Y) /\ Len(u \o m) = Len(u) + Len(m)
            /\ \A x \in 1..(Len(u) + Len(m)) : (u \o m)[x] = IF x <= Len(u) THEN u[x] ELSE m[x - Len(u)]
        BY <2>2, JoinIs
      <3>2. Len(u) = a /\ Len(m) = c
        BY <1>2, <1>4
      <3>3. Len(u \o m) = a + c /\ \A x \in 1..(a + c) : (u \o m)[x] = IF x <= a THEN u[x] ELSE m[x - a]
        BY <3>1, <3>2
      <3> QED BY <3>1, <3>3, Zenon
    <2>5. /\ Len(t) = a + c + (L - b + 1)
          /\ \A x \in 1..(a + c + (L - b + 1)) : t[x] = IF x <= a + c THEN w[x] ELSE v[x - (a + c)]
      <3>1. t = w \o v
        BY <2>3, <2>4
      <3>2. /\ Len(w \o v) = Len(w) + Len(v)
            /\ \A x \in 1..(Len(w) + Len(v)) : (w \o v)[x] = IF x <= Len(w) THEN w[x] ELSE v[x - Len(w)]
        BY <2>2, <2>4, JoinIs
      <3> HIDE DEF L
      <3> QED BY <1>5, <2>4, <3>1, <3>2
    <2> HIDE DEF L
    <2>6. ASSUME NEW x \in 1..Len(t)
          PROVE  t[x] = IF x <= a THEN u[x] ELSE IF x <= a + c THEN m[x - a] ELSE v[x - a - c]
      <3>1. x - (a + c) = x - a - c /\ (x <= a => x <= a + c) /\ (x <= a + c => x \in 1..(a + c))
            /\ x \in 1..(a + c + (L - b + 1))
        BY <1>2, <1>3, <2>5
      <3> QED BY <2>4, <2>5, <3>1, Zenon
    <2> QED BY <2>5, <2>6
  <1> DEFINE g == [x \in 1..Len(t) |-> IF x <= a THEN x ELSE x - a - c + b - 1]
  <1>7. \A x \in 1..L : s[x] \in X
    OBVIOUS
  <1>8. PICK n : n = L /\ n \in Nat
    BY <1>3
  <1> HIDE DEF L
  <1>9. ASSUME NEW x \in 1..Len(t)
        PROVE  /\ x \in WholeLines(t) <=> ~(a < x /\ x <= a + c)
               /\ x \in WholeLines(t) => g[x] \in 1..n /\ t[x] = s[g[x]]
    <2>1. CASE x <= a
      <3>1. t[x] = s[x] /\ x \in 1..n /\ g[x] = x
        BY <1>3, <1>4, <1>6, <1>8, <2>1
      <3> QED BY <1>3, <1>7, <1>8, <2>1, <3>1 DEF WholeLines
    <2>2. CASE a < x /\ x <= a + c
      <3>1. t[x] = Torn
        BY <1>2, <1>3, <1>6, <2>2
      <3> QED BY <2>2, <3>1 DEF WholeLines
    <2>3. CASE a + c < x
      <3>1. x - a - c \in 1..(n - b + 1)
        <4>1. Len(t) = a + c + (n - b + 1)
          BY <1>6, <1>8, Zenon
        <4>2. x \in Nat /\ x <= a + c + (n - b + 1)
          BY <1>2, <1>3, <1>8, <4>1
        <4> QED BY <1>2, <1>3, <1>8, <2>3, <4>2
      <3>2. t[x] = v[x - a - c] /\ v[x - a - c] = s[b + (x - a - c) - 1]
        <4>1. ~(x <= a) /\ ~(x <= a + c)
          BY <1>2, <1>3, <2>3
        <4> QED BY <1>5, <1>6, <1>8, <3>1, <4>1, Zenon
      <3>3. g[x] = b + (x - a - c) - 1 /\ g[x] \in 1..n
        BY <1>2, <1>3, <1>8, <2>3, <3>1
      <3>4. t[x] = s[g[x]] /\ s[g[x]] \in X
        BY <1>7, <1>8, <3>2, <3>3
      <3>5. ~(a < x /\ x <= a + c)
        BY <1>2, <1>3, <2>3
      <3> QED BY <3>3, <3>4, <3>5 DEF WholeLines
    <2> QED BY <1>2, <1>3, <2>1, <2>2, <2>3
  <1>10. ASSUME NEW x \in WholeLines(t), NEW y \in WholeLines(t), x < y PROVE g[x] < g[y]
    <2>1. x \in 1..Len(t) /\ y \in 1..Len(t)
      BY DEF WholeLines
    <2>2. ~(a < x /\ x <= a + c) /\ ~(a < y /\ y <= a + c)
      BY <1>9, <2>1
    <2>3. /\ g[x] = IF x <= a THEN x ELSE x - a - c + b - 1
          /\ g[y] = IF y <= a THEN y ELSE y - a - c + b - 1
      BY <2>1
    <2>4. x \in Nat /\ y \in Nat
      BY <2>1
    <2> HIDE DEF g
    <2> QED BY <1>2, <1>3, <1>10, <2>2, <2>3, <2>4
  <1>11. ASSUME NEW x \in (1..Len(t)) \ WholeLines(t), NEW y \in (1..Len(t)) \ WholeLines(t) PROVE x = y
    <2>1. a < x /\ x <= a + c /\ a < y /\ y <= a + c
      BY <1>9, <1>11
    <2>2. x \in Nat /\ y \in Nat
      BY <1>11
    <2>3. (c = 0 \/ c = 1) /\ a \in Nat
      BY <1>2, <1>3, Zenon
    <2> HIDE DEF g
    <2> QED BY <2>1, <2>2, <2>3
  <1>12. \A x \in WholeLines(t) : x \in 1..Len(t)
    BY DEF WholeLines
  <1> HIDE DEF g
  <1>13. Embeds(t, s, g)
    BY <1>8, <1>9, <1>10, <1>11, <1>12 DEF Embeds, L
  <1> QED BY <1>13

(* A table whose lines are those of the stream. *)
LEMMA TableFrom ==
    ASSUME Arrays, Place, Objs, unseen \subseteq unseen', UNCHANGED <<dirs, kospec>>,
           NEW n \in 0..Len(bos), NEW s, s = [k \in 1..n |-> Line(k)],
           NEW t, t = kotbl', NEW g, Embeds(t, s, g),
           /\ "kotbl" \notin unseen' /\ status' # "crash" =>
                 /\ t # <<>> \/ pc' \in {"kallsyms", "lines", "mods"} => Len(t) = Len(kospec)
                 /\ \A x \in 1..Len(t) : x \in WholeLines(t) /\ g[x] = x
    PROVE  KotblRight'
  <1>1. Len(s) = n /\ Len(bos) \in Nat /\ Len(kospec) \in Nat /\ Len(bos) <= Len(kospec)
    BY DEF Arrays, Place
  <1>2. PICK N \in Nat : N = Len(kospec)
    BY <1>1
  <1>3. ASSUME NEW x \in WholeLines(t)
        PROVE  /\ g[x] \in 1..n /\ g[x] \in 1..N /\ t[x] = Line(g[x]) /\ t[x][1] = bos[g[x]].kofnm
               /\ LineFor(kospec[g[x]], t[x])'
    <2>1. g[x] \in 1..n /\ t[x] = s[g[x]]
      BY <1>1 DEF Embeds
    <2>2. g[x] \in 1..Len(bos) /\ g[x] \in 1..N
      BY <1>1, <1>2, <2>1
    <2>3. t[x] = Line(g[x]) /\ t[x][1] = bos[g[x]].kofnm
      BY <2>1 DEF Line
    <2>4. PICK r, l : r = kospec[g[x]] /\ l = t[x]
      OBVIOUS
    <2>5. LineFor(r, l)
      BY <2>2, <2>3, <2>4 DEF Objs
    <2>6. LineFor(r, l)'
      BY <2>5, LineStays
    <2> QED BY <2>1, <2>2, <2>3, <2>4, <2>6
  <1>4. \A x, y \in WholeLines(t) : x < y =>
            /\ t[x][1] # t[y][1]
            /\ \E j, k \in 1..N : j < k /\ LineFor(kospec[j], t[x])' /\ LineFor(kospec[k], t[y])'
    <2> SUFFICES ASSUME NEW x \in WholeLines(t), NEW y \in WholeLines(t), x < y
                 PROVE  /\ t[x][1] # t[y][1]
                        /\ \E j, k \in 1..N : j < k /\ LineFor(kospec[j], t[x])' /\ LineFor(kospec[k], t[y])'
      OBVIOUS
    <2>1. g[x] < g[y]
      BY DEF Embeds
    <2>2. g[x] \in 1..Len(bos) /\ g[y] \in 1..Len(bos) /\ g[x] # g[y]
      BY <1>1, <1>3, <2>1
    <2>3. t[x][1] # t[y][1]
      BY <1>3, <2>2 DEF Objs
    <2> QED BY <1>3, <2>1, <2>3
  <1>5. \A x, y \in (1..Len(t)) \ WholeLines(t) : x = y
    BY DEF Embeds
  <1>6. \A x \in WholeLines(t) : \E k \in 1..N : LineFor(kospec[k], t[x])'
    BY <1>3
  <1>7. "kotbl" \notin unseen' /\ status' # "crash" =>
            /\ t # <<>> \/ pc' \in {"kallsyms", "lines", "mods"} => Len(t) = N
            /\ \A x \in 1..Len(t) : LineFor(kospec[x], t[x])'
    BY <1>2, <1>3
  <1>8. kospec' = kospec /\ kotbl' = t /\ Len(kospec') = N
    BY <1>2
  <1> HIDE DEF WholeLines
  <1> QED BY <1>4, <1>5, <1>6, <1>7, <1>8 DEF KotblRight, WholeLines

(* A table that is not there is right while its stream is not closed. *)
LEMMA TableEmpty ==
    ASSUME kotbl' = <<>>, pc' \in {"kallsyms", "lines", "mods"} => Len(kospec') = 0
    PROVE  KotblRight'
  <1>1. Len(kotbl') = 0 /\ 1..Len(kotbl') = {}
    OBVIOUS
  <1> QED BY <1>1 DEF KotblRight

(* A table that is left alone stays right. *)
LEMMA TableStays ==
    ASSUME KotblRight, unseen \subseteq unseen', UNCHANGED <<dirs, kospec, kotbl>>,
           status = "crash" => status' = "crash",
           pc' \in {"kallsyms", "lines", "mods"} => pc \in {"kallsyms", "lines", "mods"}
    PROVE  KotblRight'
  <1>1. \A s, l : LineFor(s, l) => LineFor(s, l)'
    BY LineStays
  <1>2. \A n, k : LineFor(kospec[n], kotbl[k]) => LineFor(kospec[n], kotbl[k])'
    <2> TAKE n, k
    <2>1. PICK s, l : s = kospec[n] /\ l = kotbl[k]
      OBVIOUS
    <2>2. s = kospec'[n] /\ l = kotbl'[k]
      BY <2>1
    <2> QED BY <1>1, <2>1, <2>2
  <1>3. "kotbl" \notin unseen' => "kotbl" \notin unseen
    OBVIOUS
  <1> QED BY <1>2, <1>3 DEF KotblRight

(* Append makes the next line of the stream. *)
LEMMA LinesAppend ==
    ASSUME NEW n \in Nat \ {0}
    PROVE  Append([k \in 1..(n - 1) |-> Line(k)], Line(n)) = [k \in 1..n |-> Line(k)]
  <1> DEFINE h == [k \in 1..n |-> Line(k)]
  <1>1. n - 1 \in Nat /\ (n - 1) + 1 = n
    OBVIOUS
  <1>2. h = [k \in 1..n |-> h[k]] /\ h[n] = Line(n) /\ \A k \in 1..(n - 1) : h[k] = Line(k)
    OBVIOUS
  <1> HIDE DEF h
  <1>3. h = Append([k \in 1..(n - 1) |-> h[k]], h[n])
    BY <1>1, <1>2, AppendMap
  <1>4. [k \in 1..(n - 1) |-> h[k]] = [k \in 1..(n - 1) |-> Line(k)]
    BY <1>2
  <1> QED BY <1>2, <1>3, <1>4 DEF h

(* The stream is a sequence of lines that are whole. *)
LEMMA LinesWhole ==
    ASSUME Arrays, NEW n \in 0..Len(bos), NEW s, s = [k \in 1..n |-> Line(k)]
    PROVE  \E X : s \in Seq(X) /\ Torn \notin X /\ Len(s) = n
  <1>1. Len(bos) \in Nat /\ \A k \in 1..Len(bos) : bos[k] \in Bo
    BY DEF Arrays
  <1>2. PICK X : X = {Line(k) : k \in 1..n}
    OBVIOUS
  <1>3. \A k \in 1..n : Line(k)[1] # NoPath
    <2>1. \A k \in 1..n : bos[k].kofnm \in Range(Tree)
      BY <1>1 DEF Bo
    <2>2. \A x \in Range(Tree) : x # NoPath
      BY ConstantsAssumption DEF Range, NoPath
    <2> QED BY <2>1, <2>2 DEF Line
  <1>4. Torn \notin X
    BY <1>2, <1>3 DEF Torn
  <1>5. s \in [1..n -> X] /\ n \in Nat
    BY <1>1, <1>2
  <1> QED BY <1>4, <1>5

LEMMA TableStep ==
    ASSUME Arrays, Place, Objs, Descriptors, Table, [Next]_vars
    PROVE  Table'
  <1> DEFINE After == {"kallsyms", "lines", "mods"}
  <1>1. ASSUME kotbl' = <<>>, pc' \notin After \cup {"prc"}
        PROVE  Table'
    BY <1>1, TableEmpty DEF Table
  <1>2. ASSUME UNCHANGED <<opts, kotbl, unseen>>, pc \notin {"prc", "down"}, pc' # "prc", pc' \in After => pc \in After
        PROVE  Table'
    <2>1. KotblRight /\ status # "crash" /\ UNCHANGED <<dirs, kospec>>
      BY <1>2 DEF Table, Place, opts
    <2>2. KotblRight'
      BY <1>2, <2>1, TableStays
    <2> QED BY <1>2, <2>2 DEF Table
  <1>3. /\ Len(bos) \in Nat /\ i \in Nat \ {0} /\ wild \in BOOLEAN
        /\ pc \in Early \cup {"prc"} => kotbl = <<>>
    BY DEF Arrays, Place
  <1>4. CASE \/ Getcwd \/ EndOfOptions \/ optN \/ usage \/ EndOfSpecs \/ prcExec
             \/ (\E d \in Paths : optK(d)) \/ (\E s \in Specs : optk(s))
    <2>1. CASE Getcwd \/ usage
      BY <1>1, <1>3, <2>1 DEF Getcwd, usage, Option, Exit, tables, Early
    <2>2. CASE EndOfOptions \/ EndOfSpecs \/ prcExec
      BY <1>1, <1>3, <2>2 DEF EndOfOptions, EndOfSpecs, prcExec, tables, Early
    <2>3. CASE optN \/ (\E d \in Paths : optK(d)) \/ (\E s \in Specs : optk(s))
      BY <1>1, <1>3, <2>3 DEF optN, optK, optk, Option, tables, Early
    <2> QED BY <1>4, <2>1, <2>2, <2>3
  <1>5. CASE addbo
    <2>1. kotbl' = kotbl /\ pc = "bos" /\ pc' \in {"bos", "down"}
      <3>1. (\E ko, n : AddsBo(ko, n)) \/ NoBo
        BY <1>5, AddboIs, FdsAre
      <3> QED BY <3>1 DEF AddsBo, NoBo
    <2> QED BY <1>1, <1>3, <2>1 DEF Early
  <1>6. CASE OpenKotbl
    <2>1. pc = "open" /\ i' = 1 /\ UNCHANGED <<opts, tables, bos>> /\ Len(bos) = Len(kospec)
      BY <1>6 DEF OpenKotbl, Place
    <2>2. kotbl' = <<>> /\ kotblf' = <<>> /\ kospec' = kospec
      BY <2>1 DEF Place, Early, tables, opts
    <2>3. CASE pc' = "prc"
      <3>1. <<>> = [n \in 1..(i' - 1) |-> Line(n)']
        BY <2>1
      <3>2. KotblRight'
        BY <2>2, <2>3, TableEmpty
      <3> QED BY <2>2, <2>3, <3>1, <3>2 DEF Table
    <2>4. CASE bos = <<>> /\ pc' = "kallsyms"
      <3>1. Len(kospec') = 0
        BY <2>1, <2>2, <2>4
      <3> QED BY <2>2, <2>4, <3>1, TableEmpty DEF Table
    <2>5. CASE pc' = "cleanup"
      BY <1>1, <2>2, <2>5
    <2> QED BY <1>6, <2>1, <2>3, <2>4, <2>5 DEF OpenKotbl, Exit
  <1>7. CASE prcBO
    <2>1. /\ pc = "prc" /\ i <= Len(bos) /\ i' = i + 1 /\ UNCHANGED <<bos, opts, unseen>>
          /\ kotblf' = Append(kotblf, Line(i))
          /\ pc' = IF status' = "crash" THEN "down" ELSE "prc"
          /\ kotbl' \in IF status' = "crash" THEN Cut(kotblf, Len(kotblf) + 1) ELSE {kotbl}
      BY <1>7 DEF prcBO, AfterWrite, Line
    <2>2. PICK s : s = [n \in 1..(i - 1) |-> Line(n)] /\ kotblf = s
      BY <2>1 DEF Table
    <2>3. CASE status' = "crash"
      <3>1. i - 1 \in 0..Len(bos) /\ UNCHANGED <<dirs, kospec>>
        BY <1>3, <2>1 DEF opts
      <3>2. PICK X : s \in Seq(X) /\ Torn \notin X /\ Len(s) = i - 1
        BY <2>2, <3>1, LinesWhole
      <3>3. PICK t : t = kotbl' /\ t \in Cut(s, Len(s) + 1)
        BY <2>1, <2>2, <2>3
      <3>4. PICK g : Embeds(t, s, g)
        BY <3>2, <3>3, CutEmbeds
      <3>5. KotblRight'
        BY <2>1, <2>2, <2>3, <3>1, <3>3, <3>4, TableFrom
      <3> QED BY <2>1, <2>3, <3>5 DEF Table
    <2>4. CASE status' # "crash"
      <3>1. kotblf' = [n \in 1..i |-> Line(n)]
        BY <1>3, <2>1, <2>2, LinesAppend
      <3>2. kotblf' = [n \in 1..(i' - 1) |-> Line(n)']
        <4>1. i' - 1 = i /\ \A n : Line(n)' = Line(n)
          BY <1>3, <2>1 DEF Line
        <4> HIDE DEF Line
        <4> QED BY <3>1, <4>1
      <3>3. KotblRight'
        BY <1>3, <2>1, <2>4, TableEmpty
      <3> QED BY <3>2, <3>3 DEF Table
    <2> QED BY <2>3, <2>4
  <1>8. CASE CloseKotbl
    <2>1. /\ pc = "prc" /\ i > Len(bos) /\ pc' = "kallsyms" /\ UNCHANGED <<opts, bos>>
          /\ unseen \subseteq unseen'
          /\ \/ kotbl' = kotblf
             \/ /\ "kotbl" \in unseen'
                /\ \E b \in 1..(Len(kotblf) + 1) : kotbl' \in Cut(kotblf, b)
      <3>1. PICK s : s = kotblf
        OBVIOUS
      <3>2. Len(s) \in Nat
        <4>1. i - 1 \in Nat /\ pc = "prc"
          BY <1>3, <1>8 DEF CloseKotbl
        <4>2. s = [n \in 1..(i - 1) |-> Line(n)]
          BY <3>1, <4>1 DEF Table
        <4> QED BY <4>1, <4>2
      <3>3. Len(s) + 1 \in 1..(Len(s) + 1)
        BY <3>2
      <3> QED BY <1>8, <3>1, <3>3 DEF CloseKotbl
    <2>2. i - 1 = Len(bos) /\ Len(bos) = Len(kospec) /\ UNCHANGED <<dirs, kospec>>
      BY <1>3, <2>1 DEF Place, opts
    <2>3. PICK s : s = [n \in 1..Len(bos) |-> Line(n)] /\ kotblf = s
      BY <2>1, <2>2 DEF Table
    <2>4. PICK t, X : t = kotbl' /\ s \in Seq(X) /\ Torn \notin X /\ Len(s) = Len(bos)
      <3>1. Len(bos) \in 0..Len(bos)
        BY <1>3
      <3> QED BY <2>3, <3>1, LinesWhole
    <2>5. CASE kotbl' = kotblf
      <3> DEFINE g == [x \in 1..Len(bos) |-> x]
      <3>1. WholeLines(s) = 1..Len(bos)
        BY <2>4 DEF WholeLines
      <3>2. Embeds(s, s, g)
        BY <1>3, <2>4, <3>1 DEF Embeds
      <3>3. \A x \in 1..Len(s) : x \in WholeLines(s) /\ g[x] = x
        BY <2>4, <3>1
      <3>4. t = s /\ Len(t) = Len(kospec)
        BY <2>2, <2>3, <2>4, <2>5
      <3> HIDE DEF g
      <3>5. KotblRight'
        <4>1. Len(bos) \in 0..Len(bos)
          BY <1>3
        <4> QED BY <2>1, <2>2, <2>3, <2>4, <3>2, <3>3, <3>4, <4>1, TableFrom
      <3> QED BY <2>1, <3>5 DEF Table
    <2>6. CASE "kotbl" \in unseen' /\ \E b \in 1..(Len(kotblf) + 1) : kotbl' \in Cut(kotblf, b)
      <3>1. PICK b \in 1..(Len(s) + 1) : t \in Cut(s, b)
        BY <2>3, <2>4, <2>6
      <3>2. PICK g : Embeds(t, s, g)
        BY <2>4, <3>1, CutEmbeds
      <3>3. KotblRight'
        <4>1. Len(bos) \in 0..Len(bos)
          BY <1>3
        <4> QED BY <2>1, <2>2, <2>3, <2>4, <2>6, <3>2, <4>1, TableFrom
      <3> QED BY <2>1, <3>3 DEF Table
    <2> QED BY <2>1, <2>5, <2>6
  <1>9. CASE OpenKallsyms \/ EndOfKallsyms \/ cleanup
    BY <1>2, <1>9 DEF OpenKallsyms, EndOfKallsyms, cleanup, Exit, tables
  <1>10. CASE WriteKern \/ WriteMod
    <2>1. /\ UNCHANGED <<opts, kotbl, unseen>> /\ pc \in {"lines", "mods"} /\ pc' \in {"mods", "down"}
      BY <1>10 DEF WriteKern, WriteMod, tables, AfterWrite
    <2> QED BY <1>2, <2>1
  <1>11. ASSUME NEW l \in Lines, GetLine(l) PROVE Table'
    BY <1>2, <1>11 DEF GetLine
  <1>12. CASE UNCHANGED vars
    <2>1. UNCHANGED <<pc, i, dirs, kospec, bos, kotblf, kotbl, unseen, status>>
      BY <1>12 DEF vars, opts, tables
    <2>2. KotblRight'
      BY <2>1, TableStays DEF Table
    <2>3. pc' = "prc" => kotblf' = [n \in 1..(i' - 1) |-> Line(n)']
      BY <2>1 DEF Table, Line
    <2> QED BY <2>2, <2>3 DEF Table
  <1> QED BY <1>4, <1>5, <1>6, <1>7, <1>8, <1>9, <1>10, <1>11, <1>12 DEF Next, main
-----------------------------------------------------------------------------
(* The symbols *)

Known == {l \in Lines : l.type \in DOMAIN initSE}

(* A line of a known type makes an entry. *)
LEMMA LineEntry ==
    ASSUME NEW l \in Known
    PROVE  /\ EntryOf(l) \in Entry /\ EntryOf(l).name = l.name
           /\ SymbolOf(EntryOf(l)) = [name |-> l.name, addr |-> l.addr, weak |-> l.type \in {"V", "W"},
                                      func |-> l.type \in {"T", "V", "W"}]
  <1>1. l.type \in {"A", "B", "D", "R", "T", "V", "W"}
    BY DEF Known, initSE
  <1>2. l \in [name : DOMAIN NameLen, addr : Nat, type : STRING, module : STRING]
    BY ConstantsAssumption DEF Known
  <1>3. l.name \in DOMAIN NameLen /\ l.addr \in Nat
    BY <1>2
  <1>4. /\ initSE[l.type].bind = IF l.type \in {"V", "W"} THEN "WEAK" ELSE "GLOBAL"
        /\ initSE[l.type].type = IF l.type \in {"T", "V", "W"} THEN "FUNC" ELSE
                                 IF l.type = "A" THEN "ABS" ELSE IF l.type = "B" THEN "BSS" ELSE
                                 IF l.type = "D" THEN "DATA" ELSE "RODATA"
    BY <1>1 DEF initSE
  <1>5. PICK b, t : b = initSE[l.type].bind /\ t = initSE[l.type].type
    OBVIOUS
  <1>6. /\ b \in {"GLOBAL", "WEAK"} /\ t \in {"ABS", "BSS", "DATA", "RODATA", "FUNC"}
        /\ (b = "WEAK" <=> l.type \in {"V", "W"}) /\ (t = "FUNC" <=> l.type \in {"T", "V", "W"})
    BY <1>4, <1>5
  <1>7. EntryOf(l) = [name |-> l.name, addr |-> l.addr, bind |-> b, type |-> t]
    BY <1>5, Zenon DEF EntryOf, SymbolEntry
  <1>8. EntryOf(l) \in Entry /\ EntryOf(l).name = l.name
    BY <1>3, <1>6, <1>7 DEF Entry
  <1>9. /\ SymbolOf(EntryOf(l)) = [name |-> l.name, addr |-> l.addr, weak |-> l.type \in {"V", "W"},
                                      func |-> l.type \in {"T", "V", "W"}]
    BY <1>6, <1>7 DEF SymbolOf
  <1> QED BY <1>8, <1>9

(* As long as every line was known, all entries are. *)
LEMMA EntriesAre ==
    ASSUME NEW ks \in Seq(Known), NEW m
    PROVE  /\ LinesOf(ks, m) \in Seq(Known) /\ EntriesOf(ks, m) \in Seq(Entry)
           /\ Len(EntriesOf(ks, m)) = Len(LinesOf(ks, m))
  <1> DEFINE s == LinesOf(ks, m)
             es == EntriesOf(ks, m)
  <1>1. s \in Seq(Known)
    BY AmongType DEF LinesOf
  <1>2. es = [n \in 1..Len(s) |-> EntryOf(s[n])]
    BY DEF EntriesOf
  <1> HIDE DEF s, es
  <1>3. \A n \in 1..Len(s) : EntryOf(s[n]) \in Entry
    BY <1>1, LineEntry
  <1>4. es \in Seq(Entry) /\ Len(es) = Len(s)
    BY <1>1, <1>2, <1>3
  <1> QED BY <1>1, <1>4 DEF s, es

(* A line makes an entry of its module and leaves the others alone. *)
LEMMA EntriesStep ==
    ASSUME NEW ks \in Seq(Known), NEW l \in Known, NEW m
    PROVE  EntriesOf(Append(ks, l), m) =
              IF l.module = m THEN Append(EntriesOf(ks, m), EntryOf(l)) ELSE EntriesOf(ks, m)
  <1>1. LinesOf(Append(ks, l), m) = IF l.module = m THEN Append(LinesOf(ks, m), l) ELSE LinesOf(ks, m)
    <2>1. PICK S : S = {x \in Lines : x.module = m}
      OBVIOUS
    <2>2. Among(Append(ks, l), S) = IF l \in S THEN Append(Among(ks, S), l) ELSE Among(ks, S)
      BY AmongAppend
    <2>3. l \in S <=> l.module = m
      BY <2>1 DEF Known
    <2>4. LinesOf(ks, m) = Among(ks, S) /\ LinesOf(Append(ks, l), m) = Among(Append(ks, l), S)
      BY <2>1 DEF LinesOf
    <2> QED BY <2>2, <2>3, <2>4
  <1>2. CASE l.module # m
    BY <1>1, <1>2 DEF EntriesOf
  <1>3. CASE l.module = m
    <2>1. PICK s : s = LinesOf(ks, m)
      OBVIOUS
    <2>2. PICK L \in Nat : L = Len(s)
      BY <2>1, EntriesAre
    <2>3. PICK t : t = Append(s, l)
      OBVIOUS
    <2>4. Len(t) = L + 1 /\ t[L + 1] = l /\ \A n \in 1..L : t[n] = s[n]
      BY <2>1, <2>2, <2>3, EntriesAre
    <2>5. PICK h : h = [n \in 1..(L + 1) |-> EntryOf(t[n])]
      OBVIOUS
    <2>6. h = [n \in 1..(L + 1) |-> h[n]] /\ h[L + 1] = EntryOf(l) /\ \A n \in 1..L : h[n] = EntryOf(s[n])
      BY <2>2, <2>4, <2>5
    <2>7. h = Append([n \in 1..L |-> h[n]], h[L + 1])
      BY <2>2, <2>6, AppendMap
    <2>8. [n \in 1..L |-> h[n]] = [n \in 1..L |-> EntryOf(s[n])]
      BY <2>6
    <2>9. EntriesOf(ks, m) = [n \in 1..L |-> EntryOf(s[n])]
      BY <2>1, <2>2, Zenon DEF EntriesOf
    <2>10. EntriesOf(Append(ks, l), m) = h
      <3>1. LinesOf(Append(ks, l), m) = t
        BY <1>1, <1>3, <2>1, <2>3
      <3>2. EntriesOf(Append(ks, l), m) = [n \in 1..Len(t) |-> EntryOf(t[n])]
        BY <3>1, Zenon DEF EntriesOf
      <3> QED BY <2>4, <2>5, <3>2
    <2> QED BY <1>3, <2>6, <2>7, <2>8, <2>9, <2>10
  <1> QED BY <1>2, <1>3

(* A table of symbols and its new symbol. *)
LEMMA AddSymIs ==
    ASSUME NEW t \in SymTab, Len(t.entries) <= t.max, t.nmstrlen = nmstrlen(t.entries), NEW l \in Known
    PROVE  /\ AddSym(t, l) \in SymTab /\ AddSym(t, l).name = t.name
           /\ Len(AddSym(t, l).entries) <= AddSym(t, l).max
           /\ AddSym(t, l).entries = Append(t.entries, EntryOf(l))
           /\ AddSym(t, l).nmstrlen = nmstrlen(AddSym(t, l).entries)
  <1> DEFINE e == EntryOf(l)
             es == t.entries
             new == Grow(Len(es), t.max, SymMax)
             len == t.nmstrlen + NameLen[l.name] + 1
  <1>1. /\ es \in Seq(Entry) /\ t.max \in Nat /\ t.name \in Modules /\ t.nmstrlen \in Nat
        /\ t = [name |-> t.name, entries |-> t.entries, max |-> t.max, nmstrlen |-> t.nmstrlen]
    BY DEF SymTab
  <1>2. e \in Entry /\ e.name = l.name
    BY LineEntry
  <1> HIDE DEF e
  <1>3. AddSym(t, l) = [t EXCEPT !.max = new, !.nmstrlen = len, !.entries = Append(es, e)]
    BY Zenon DEF AddSym, e, EntryOf
  <1> HIDE DEF es
  <1>4. new \in Nat /\ Len(es) + 1 <= new
    <2>1. Len(es) \in Nat /\ t.max \in Nat /\ Len(es) <= t.max /\ SymMax \in Nat \ {0}
      BY <1>1, ConstantsAssumption DEF es
    <2> QED BY <2>1, GrowIs
  <1>5. nmstrlen(es) \in Nat /\ nmstrlen(Append(es, e)) = nmstrlen(es) + NameLen[e.name] + 1
    BY <1>1, <1>2, LensAppend
  <1>6. len \in Nat /\ len = nmstrlen(Append(es, e))
    <2>1. NameLen[e.name] \in Nat
      BY <1>2, NameLenAssumption DEF Entry
    <2> QED BY <1>1, <1>2, <1>5, <2>1 DEF es
  <1>7. Append(es, e) \in Seq(Entry) /\ Len(Append(es, e)) = Len(es) + 1
    BY <1>1, <1>2
  <1> HIDE DEF new, len
  <1>8. AddSym(t, l) = [name |-> t.name, entries |-> Append(es, e), max |-> new, nmstrlen |-> len]
    BY <1>1, <1>3
  <1>9. AddSym(t, l) \in SymTab
    BY <1>1, <1>4, <1>6, <1>7, <1>8 DEF SymTab
  <1> QED BY <1>4, <1>6, <1>7, <1>8, <1>9 DEF es, e

LEMMA SymbolsInit == Init => Symbols
  <1> SUFFICES ASSUME Init PROVE Symbols
    OBVIOUS
  <1>1. /\ klines = <<>> /\ mods = <<>> /\ kern = [name |-> None, entries |-> <<>>, max |-> 0, nmstrlen |-> 0]
        /\ pc = "init" /\ Len(klines) = 0 /\ Len(mods) = 0
    BY DEF Init, NoSyms
  <1>2. kern \in SymTab /\ Len(kern.entries) <= kern.max
    <2>1. None \in Modules /\ <<>> \in Seq(Entry) /\ Len(<<>>) = 0
      BY DEF Modules
    <2> QED BY <1>1, <2>1 DEF SymTab
  <1>3. TabOf(kern, None)
    <2>1. LinesOf(klines, None) = <<>>
      BY <1>1, AmongEmpty DEF LinesOf
    <2>2. EntriesOf(klines, None) = <<>>
      BY <2>1 DEF EntriesOf
    <2> QED BY <1>1, <2>2, LensEmpty DEF TabOf
  <1>4. klines \in Seq(Lines) /\ mods \in Seq(SymTab)
    BY <1>1
  <1> QED BY <1>1, <1>2, <1>3, <1>4 DEF Symbols

(* The symbols as the lines that were read leave them. *)
LEMMA SymbolsKeep ==
    ASSUME Symbols, UNCHANGED <<klines, kern, mods>>, pc # "down" \/ pc' = "down",
           pc' = "mods" => i' <= Len(mods) + 1
    PROVE  Symbols'
  <1>1. \A t, m : TabOf(t, m)' = TabOf(t, m)
    BY DEF TabOf, EntriesOf, LinesOf, EntryOf
  <1>2. TabOf(kern, None)' = TabOf(kern, None)
    BY DEF TabOf, EntriesOf, LinesOf, EntryOf
  <1>3. \A n : TabOf(mods[n], mods[n].name)' = TabOf(mods[n], mods[n].name)
    BY DEF TabOf, EntriesOf, LinesOf, EntryOf
  <1> QED BY <1>2, <1>3 DEF Symbols

(* A line of kallsyms. *)
LEMMA SymbolsLine ==
    ASSUME Symbols, pc = "lines", NEW l \in Lines, GetLine(l)
    PROVE  Symbols'
  <1>1. klines' = Append(klines, l) /\ klines \in Seq(Lines) /\ kern \in SymTab /\ mods \in Seq(SymTab)
    BY DEF GetLine, Symbols
  <1>2. PICK L \in Nat, M \in Nat : L = Len(klines) /\ M = Len(mods)
    BY <1>1
  <1>3. /\ klines' \in Seq(Lines) /\ Len(klines') = L + 1 /\ klines'[L + 1] = l
        /\ \A k \in 1..L : klines'[k] = klines[k]
    BY <1>1, <1>2
  <1>4. 1..(L + 1) = (1..L) \cup {L + 1}
    BY <1>2
  <1>5. CASE l.type \notin DOMAIN initSE
    <2>1. pc' = "down" /\ UNCHANGED <<kern, mods>>
      BY <1>5 DEF GetLine
    <2> QED BY <1>3, <2>1 DEF Symbols
  <1>6. CASE l.type \in DOMAIN initSE
    <2>1. AddLine(l) /\ pc' = "lines"
      BY <1>6 DEF GetLine
    <2>2. l \in Known
      BY <1>6 DEF Known
    <2>3. /\ \A k \in 1..L : klines[k].type \in DOMAIN initSE
          /\ TabOf(kern, None) /\ Len(kern.entries) <= kern.max
          /\ \A n \in 1..M : /\ mods[n].name # None /\ TabOf(mods[n], mods[n].name)
                             /\ Len(mods[n].entries) <= mods[n].max
          /\ \A j, k \in 1..M : mods[j].name = mods[k].name => j = k
          /\ \A k \in 1..L : klines[k].module # None => \E n \in 1..M : mods[n].name = klines[k].module
          /\ \A n \in 1..M : \E k \in 1..L : klines[k].module = mods[n].name
      BY <1>2 DEF Symbols
    <2>4. klines \in Seq(Known)
      <3>1. \A k \in 1..L : klines[k] \in Known
        BY <1>1, <1>2, <2>3 DEF Known
      <3>2. klines \in [1..L -> Known]
        BY <1>1, <1>2, <3>1
      <3> QED BY <1>2, <3>2
    <2>5. \A k \in 1..Len(klines') : klines'[k].type \in DOMAIN initSE
      BY <1>3, <1>4, <1>6, <2>3
    <2>6. \A m : EntriesOf(klines', m) = IF l.module = m THEN Append(EntriesOf(klines, m), EntryOf(l)) ELSE EntriesOf(klines, m)
      BY <1>1, <2>2, <2>4, EntriesStep
    <2> DEFINE Good(t) == t \in SymTab /\ Len(t.entries) <= t.max
               Tab(t, m) == t.name = m /\ t.entries = EntriesOf(klines', m) /\ t.nmstrlen = nmstrlen(t.entries)
    <2>7. ASSUME NEW t, Good(t), TabOf(t, l.module)
          PROVE  Good(AddSym(t, l)) /\ Tab(AddSym(t, l), l.module)
      <3>1. t.name = l.module /\ t.entries = EntriesOf(klines, l.module) /\ t.nmstrlen = nmstrlen(t.entries)
        BY <2>7 DEF TabOf
      <3>2. /\ AddSym(t, l) \in SymTab /\ AddSym(t, l).name = t.name
            /\ Len(AddSym(t, l).entries) <= AddSym(t, l).max
            /\ AddSym(t, l).entries = Append(t.entries, EntryOf(l))
            /\ AddSym(t, l).nmstrlen = nmstrlen(AddSym(t, l).entries)
        BY <2>2, <2>7, <3>1, AddSymIs
      <3>3. EntriesOf(klines', l.module) = Append(EntriesOf(klines, l.module), EntryOf(l))
        BY <2>6
      <3> QED BY <3>1, <3>2, <3>3
    <2>8. ASSUME NEW t, NEW m, TabOf(t, m), m # l.module PROVE Tab(t, m)
      BY <2>6, <2>8 DEF TabOf
    <2>9. Good(kern) /\ \A n \in 1..M : Good(mods[n])
      BY <1>1, <1>2, <2>3
    <2>10. /\ \A k \in 1..Len(klines') : klines'[k] = IF k = L + 1 THEN l ELSE klines[k]
      BY <1>2, <1>3
    <2> HIDE DEF Good
    <2>11. ASSUME Good(kern'), Tab(kern', None), mods' \in Seq(SymTab),
                  \A n \in 1..Len(mods') : Good(mods'[n]) /\ mods'[n].name # None /\ Tab(mods'[n], mods'[n].name),
                  \A j, k \in 1..Len(mods') : mods'[j].name = mods'[k].name => j = k,
                  \A k \in 1..(L + 1) : klines'[k].module # None =>
                      \E n \in 1..Len(mods') : mods'[n].name = klines'[k].module,
                  \A n \in 1..Len(mods') : \E k \in 1..(L + 1) : klines'[k].module = mods'[n].name
           PROVE  Symbols'
      <3>1. TabOf(kern, None)' /\ \A n \in 1..Len(mods') : TabOf(mods[n], mods[n].name)'
        BY <2>11 DEF TabOf, Tab
      <3>2. /\ kern' \in SymTab /\ Len(kern'.entries) <= kern'.max
            /\ \A n \in 1..Len(mods') : Len(mods'[n].entries) <= mods'[n].max
        BY <2>11 DEF Good
      <3>3. pc' # "mods"
        BY <2>1
      <3> HIDE DEF Tab
      <3> QED BY <1>3, <2>5, <2>11, <3>1, <3>2, <3>3 DEF Symbols
    <2>12. CASE l.module = None
      <3>1. kern' = AddSym(kern, l) /\ mods' = mods
        BY <2>1, <2>12 DEF AddLine
      <3>2. Good(kern') /\ Tab(kern', None)
        BY <2>3, <2>7, <2>9, <2>12, <3>1
      <3>3. \A n \in 1..M : Tab(mods[n], mods[n].name)
        <4>1. \A n \in 1..M : TabOf(mods[n], mods[n].name) /\ mods[n].name # l.module
          BY <2>3, <2>12
        <4> HIDE DEF Tab
        <4> QED BY <2>8, <4>1
      <3> HIDE DEF Tab
      <3>4. \A k \in 1..(L + 1) : klines'[k].module # None => \E n \in 1..M : mods[n].name = klines'[k].module
        BY <1>3, <1>4, <2>3, <2>12
      <3>5. \A n \in 1..M : \E k \in 1..(L + 1) : klines'[k].module = mods[n].name
        BY <1>3, <1>4, <2>3
      <3> QED BY <1>1, <1>2, <2>3, <2>9, <2>11, <3>1, <3>2, <3>3, <3>4, <3>5
    <2> DEFINE at == {n \in 1..Len(mods) : mods[n].name = l.module}
    <2>13. CASE l.module # None /\ at = {}
      <3> DEFINE none == [NoSyms EXCEPT !.name = l.module]
                 t == AddSym(none, l)
      <3>1. kern' = kern /\ mods' = Append(mods, t)
        BY <2>1, <2>13 DEF AddLine
      <3>2. none = [name |-> l.module, entries |-> <<>>, max |-> 0, nmstrlen |-> 0]
        BY DEF NoSyms
      <3>3. \A k \in 1..L : klines[k].module # l.module
        <4>1. \A n \in 1..M : mods[n].name # l.module
          BY <1>2, <2>13
        <4>2. \A k \in 1..L : klines[k].module # None => \E n \in 1..M : mods[n].name = klines[k].module
          BY <2>3
        <4> QED BY <2>13, <4>1, <4>2, Zenon
      <3>4. EntriesOf(klines, l.module) = <<>>
        <4>1. PICK S : S = {x \in Lines : x.module = l.module}
          OBVIOUS
        <4>2. \A k \in 1..Len(klines) : klines[k] \notin S
          BY <1>2, <3>3, <4>1
        <4>3. Among(klines, S) = <<>>
          BY <1>1, <4>2, AmongHas
        <4>4. LinesOf(klines, l.module) = <<>>
          BY <4>1, <4>3 DEF LinesOf
        <4> QED BY <4>4 DEF EntriesOf
      <3>5. Good(none) /\ TabOf(none, l.module)
        <4>1. l.module \in Modules /\ <<>> \in Seq(Entry) /\ Len(<<>>) = 0
          BY DEF Modules
        <4>2. none \in SymTab
          <5>1. \A x \in Modules, y \in Seq(Entry) :
                    [name |-> x, entries |-> y, max |-> 0, nmstrlen |-> 0] \in SymTab
            BY DEF SymTab
          <5> HIDE DEF none
          <5> QED BY <3>2, <4>1, <5>1
        <4> HIDE DEF none
        <4> QED BY <3>2, <3>4, <4>1, <4>2, LensEmpty DEF Good, TabOf
      <3> HIDE DEF none
      <3>6. Good(t) /\ Tab(t, l.module)
        BY <2>7, <3>5
      <3> HIDE DEF t
      <3>7. t.name = l.module /\ t \in SymTab
        BY <3>6 DEF Good
      <3>8. Good(kern) /\ Tab(kern, None) /\ \A n \in 1..M : Tab(mods[n], mods[n].name) /\ mods[n].name # l.module
        <4>1. \A n \in 1..M : mods[n].name # l.module
          BY <1>2, <2>13
        <4>2. TabOf(kern, None) /\ \A n \in 1..M : TabOf(mods[n], mods[n].name)
          BY <2>3
        <4> HIDE DEF Tab, at
        <4> QED BY <2>8, <2>9, <2>13, <4>1, <4>2
      <3>9. /\ mods' \in Seq(SymTab) /\ Len(mods') = M + 1 /\ mods'[M + 1] = t /\ 1..(M + 1) = (1..M) \cup {M + 1}
            /\ \A n \in 1..M : mods'[n] = mods[n]
        BY <1>1, <1>2, <3>1, <3>7
      <3> HIDE DEF Tab
      <3>10. \A n \in 1..(M + 1) : Good(mods'[n]) /\ mods'[n].name # None /\ Tab(mods'[n], mods'[n].name)
        BY <2>3, <2>9, <2>13, <3>6, <3>7, <3>8, <3>9
      <3>11. \A j, k \in 1..(M + 1) : mods'[j].name = mods'[k].name => j = k
        BY <2>3, <3>7, <3>8, <3>9
      <3>12. \A k \in 1..(L + 1) : klines'[k].module # None =>
                 \E n \in 1..(M + 1) : mods'[n].name = klines'[k].module
        <4>1. \A k \in 1..L : klines'[k].module # None => \E n \in 1..M : mods'[n].name = klines'[k].module
          BY <1>3, <2>3, <3>9
        <4>2. klines'[L + 1].module = mods'[M + 1].name
          BY <1>3, <3>7, <3>9
        <4> QED BY <1>4, <3>9, <4>1, <4>2
      <3>13. \A n \in 1..(M + 1) : \E k \in 1..(L + 1) : klines'[k].module = mods'[n].name
        <4>1. \A n \in 1..M : \E k \in 1..L : klines'[k].module = mods'[n].name
          BY <1>3, <2>3, <3>9
        <4>2. klines'[L + 1].module = mods'[M + 1].name
          BY <1>3, <3>7, <3>9
        <4> QED BY <1>4, <3>9, <4>1, <4>2, Zenon
      <3> QED BY <2>11, <3>1, <3>8, <3>9, <3>10, <3>11, <3>12, <3>13
    <2>14. CASE l.module # None /\ at # {}
      <3>1. /\ kern' = kern
            /\ mods' = [n \in 1..Len(mods) |-> IF n \in at THEN AddSym(mods[n], l) ELSE mods[n]]
        BY <2>1, <2>14 DEF AddLine
      <3>2. \A n \in 1..M : n \in at <=> mods[n].name = l.module
        BY <1>2
      <3>3. PICK a \in 1..M : mods[a].name = l.module
        BY <1>2, <2>14
      <3> HIDE DEF at
      <3>4. /\ DOMAIN mods' = 1..M /\ mods' = [n \in 1..M |-> mods'[n]]
            /\ \A n \in 1..M : mods'[n] = IF mods[n].name = l.module THEN AddSym(mods[n], l) ELSE mods[n]
        BY <1>2, <3>1, <3>2
      <3>5. ASSUME NEW n \in 1..M
            PROVE  Good(mods'[n]) /\ mods'[n].name = mods[n].name /\ Tab(mods'[n], mods[n].name)
        <4>1. CASE mods[n].name = l.module
          <5>1. Good(mods[n]) /\ TabOf(mods[n], l.module)
            BY <2>3, <2>9, <4>1
          <5>2. Good(AddSym(mods[n], l)) /\ Tab(AddSym(mods[n], l), l.module)
            BY <2>7, <5>1
          <5>3. mods'[n] = AddSym(mods[n], l)
            BY <3>4, <4>1
          <5> QED BY <4>1, <5>2, <5>3
        <4>2. CASE mods[n].name # l.module
          <5>1. Tab(mods[n], mods[n].name) /\ Good(mods[n])
            <6>1. TabOf(mods[n], mods[n].name) /\ Good(mods[n])
              BY <2>3, <2>9
            <6> HIDE DEF Tab
            <6> QED BY <2>8, <4>2, <6>1
          <5>2. mods'[n] = mods[n]
            BY <3>4, <4>2
          <5> QED BY <5>1, <5>2
        <4> QED BY <4>1, <4>2
      <3>6. mods' \in Seq(SymTab) /\ Len(mods') = M
        <4>1. \A n \in 1..M : mods'[n] \in SymTab
          BY <3>5 DEF Good
        <4> QED BY <1>2, <3>4, <4>1
      <3>7. Good(kern) /\ Tab(kern, None)
        BY <2>3, <2>8, <2>9, <2>14
      <3> HIDE DEF Tab
      <3>8. \A n \in 1..M : Good(mods'[n]) /\ mods'[n].name # None /\ Tab(mods'[n], mods'[n].name)
        BY <2>3, <3>5
      <3>9. \A j, k \in 1..M : mods'[j].name = mods'[k].name => j = k
        BY <2>3, <3>5
      <3>10. \A k \in 1..(L + 1) : klines'[k].module # None =>
                 \E n \in 1..M : mods'[n].name = klines'[k].module
        <4>1. \A k \in 1..L : klines'[k].module # None => \E n \in 1..M : mods'[n].name = klines'[k].module
          BY <1>3, <2>3, <3>5
        <4>2. klines'[L + 1].module = mods'[a].name
          BY <1>3, <3>3, <3>5
        <4> QED BY <1>4, <3>3, <4>1, <4>2
      <3>11. \A n \in 1..M : \E k \in 1..(L + 1) : klines'[k].module = mods'[n].name
        BY <1>3, <1>4, <2>3, <3>5
      <3> QED BY <2>11, <3>1, <3>6, <3>7, <3>8, <3>9, <3>10, <3>11
    <2> QED BY <2>12, <2>13, <2>14
  <1> QED BY <1>5, <1>6

LEMMA SymbolsStep ==
    ASSUME Place, Symbols, [Next]_vars
    PROVE  Symbols'
  <1>1. i \in Nat /\ Len(mods) \in Nat
    BY DEF Place, Symbols
  <1>2. CASE Getcwd \/ usage \/ EndOfOptions \/ EndOfSpecs \/ prcExec
    BY <1>2, SymbolsKeep DEF Getcwd, usage, Option, Exit, EndOfOptions, EndOfSpecs, prcExec, tables
  <1>3. CASE optN \/ (\E d \in Paths : optK(d)) \/ (\E s \in Specs : optk(s))
    BY <1>3, SymbolsKeep DEF optN, optK, optk, Option, tables
  <1>4. CASE addbo
    BY <1>4, SymbolsKeep DEF addbo, AddFails, Exit, tables
  <1>5. CASE OpenKotbl \/ CloseKotbl \/ OpenKallsyms \/ EndOfKallsyms \/ cleanup
    BY <1>5, SymbolsKeep DEF OpenKotbl, CloseKotbl, OpenKallsyms, EndOfKallsyms, cleanup, Exit, tables
  <1>6. CASE prcBO
    <2>1. UNCHANGED <<klines, kern, mods>> /\ pc = "prc" /\ pc' \in {"prc", "down"}
      BY <1>6 DEF prcBO, AfterWrite
    <2> QED BY <2>1, SymbolsKeep
  <1>7. CASE WriteKern
    <2>1. UNCHANGED <<klines, kern, mods>> /\ pc = "lines" /\ i' = 1
      BY <1>7 DEF WriteKern, tables
    <2> QED BY <1>1, <2>1, SymbolsKeep
  <1>8. CASE WriteMod
    <2>1. UNCHANGED <<klines, kern, mods>> /\ pc = "mods" /\ i' = i + 1 /\ i <= Len(mods)
      BY <1>8 DEF WriteMod, tables
    <2> QED BY <1>1, <2>1, SymbolsKeep
  <1>9. ASSUME NEW l \in Lines, GetLine(l) PROVE Symbols'
    BY <1>9, SymbolsLine DEF GetLine
  <1>10. CASE UNCHANGED vars
    <2>1. UNCHANGED <<pc, i, klines, kern, mods>>
      BY <1>10 DEF vars, tables
    <2>2. pc = "mods" => i <= Len(mods) + 1
      BY DEF Symbols
    <2> QED BY <2>1, <2>2, SymbolsKeep
  <1> QED BY <1>2, <1>3, <1>4, <1>5, <1>6, <1>7, <1>8, <1>9, <1>10 DEF Next, main
-----------------------------------------------------------------------------
(* The libraries *)

LEMMA LibrariesInit == Init => Libraries
  <1> SUFFICES ASSUME Init PROVE Libraries
    OBVIOUS
  <1>1. Len(bos) = 0 /\ DOMAIN files = {}
    BY DEF Init
  <1> QED BY <1>1 DEF Libraries

(* A step that leaves v in one file, if it touches any. *)
Sets(p, v) == files' = [q \in DOMAIN files \cup {p} |-> IF q = p THEN v ELSE files[q]]
Whole(es) == <<"whole", elf_image(es, nmstrlen(es))>>
Writes(p, es) == \/ files' = files
                 \/ \E v \in {<<"empty">>, <<"torn">>, Whole(es)} : Sets(p, v)

(* A file that is there is set when it is overwritten. *)
LEMMA PutIs ==
    ASSUME NEW L, NEW p, NEW v, p \in DOMAIN L
    PROVE  Put(L, <<"so", p>>, v) = [q \in DOMAIN L |-> IF q = p THEN v ELSE L[q]]
  <1>1. Put(L, <<"so", p>>, v) = [L EXCEPT ![p] = v]
    BY DEF Put
  <1> QED BY <1>1

LEMMA PutElse ==
    ASSUME NEW L, NEW what, what[1] # "so", NEW v
    PROVE  Put(L, what, v) = L
  BY DEF Put

(* A truncated file and then written is set. *)
LEMMA PutTruncated ==
    ASSUME NEW p, NEW v
    PROVE  Put(Truncated(p), <<"so", p>>, v) = [q \in DOMAIN files \cup {p} |-> IF q = p THEN v ELSE files[q]]
  <1> DEFINE L == Truncated(p)
  <1>1. L = [f \in DOMAIN files \cup {p} |-> IF f = p THEN <<"empty">> ELSE files[f]]
    BY DEF Truncated
  <1>2. DOMAIN L = DOMAIN files \cup {p} /\ p \in DOMAIN L /\ \A q \in DOMAIN L : q # p => L[q] = files[q]
    BY <1>1
  <1> HIDE DEF L
  <1>3. Put(L, <<"so", p>>, v) = [q \in DOMAIN L |-> IF q = p THEN v ELSE L[q]]
    BY <1>2, PutIs
  <1>4. [q \in DOMAIN L |-> IF q = p THEN v ELSE L[q]]
      = [q \in DOMAIN files \cup {p} |-> IF q = p THEN v ELSE files[q]]
    BY <1>2
  <1> QED BY <1>3, <1>4 DEF L

(* writeso through a path, for the kernel and the modules. *)
LEMMA WritesPath ==
    ASSUME faults \in Nat, NEW path, NEW es, writeso(path, -1, es, nmstrlen(es))
    PROVE  Writes(path, es) /\ (faults' = faults => Sets(path, Whole(es)))
  <1> DEFINE target == <<"so", path>>
             L == Truncated(path)
  <1>1. \A v : Put(L, target, v) = [q \in DOMAIN files \cup {path} |-> IF q = path THEN v ELSE files[q]]
    BY PutTruncated
  <1>2. L = [q \in DOMAIN files \cup {path} |-> IF q = path THEN <<"empty">> ELSE files[q]]
    BY DEF Truncated
  <1> HIDE DEF L, target
  <1>3. \/ NoFault /\ files' = Put(L, target, Whole(es))
        \/ Fault /\ files' \in {files, L, Put(L, target, <<"torn">>)}
    BY DEF writeso, L, target, Whole
  <1>4. faults' = faults => ~Fault
    BY DEF Fault
  <1>5. CASE NoFault /\ files' = Put(L, target, Whole(es))
    <2>1. Sets(path, Whole(es))
      BY <1>1, <1>5 DEF Sets
    <2> QED BY <2>1 DEF Writes
  <1>6. CASE Fault /\ files' \in {files, L, Put(L, target, <<"torn">>)}
    <2>1. files' = files \/ Sets(path, <<"empty">>) \/ Sets(path, <<"torn">>)
      BY <1>1, <1>2, <1>6 DEF Sets
    <2> QED BY <1>4, <1>6, <2>1 DEF Writes
  <1> QED BY <1>3, <1>5, <1>6

(* writeso through a descriptor, for an object: it writes the library that *)
(* the descriptor was opened for, if any.                                  *)
LEMMA WritesFd ==
    ASSUME IsFds(fds), faults \in Nat, NEW path \in DOMAIN files, NEW fd \in Nat, NEW es,
           fd \in DOMAIN fds => fds[fd] = <<"so", path>> \/ fds[fd][1] # "so",
           writeso(path, fd, es, nmstrlen(es))
    PROVE  /\ Writes(path, es)
           /\ faults' = faults /\ fd \in DOMAIN fds /\ fds[fd] = <<"so", path>> => Sets(path, Whole(es))
  <1> DEFINE M == OpenFd(fds, <<"mem">>)
             target == IF fd \in DOMAIN M THEN M[fd] ELSE <<None>>
  <1>1. \/ NoFault /\ files' = Put(files, target, Whole(es))
        \/ Fault /\ files' \in {files, Put(files, target, <<"torn">>)}
    <2>1. fd # -1
      OBVIOUS
    <2> QED BY <2>1, Zenon DEF writeso, Whole
  <1>2. /\ DOMAIN M = DOMAIN fds \cup {Lowest(fds)} /\ M[Lowest(fds)] = <<"mem">>
        /\ \A n \in DOMAIN fds : M[n] = fds[n]
    <2>1. PICK w : w = <<"mem">>
      OBVIOUS
    <2>2. /\ DOMAIN OpenFd(fds, w) = DOMAIN fds \cup {Lowest(fds)} /\ OpenFd(fds, w)[Lowest(fds)] = w
          /\ \A n \in DOMAIN fds : OpenFd(fds, w)[n] = fds[n]
      BY OpenIs
    <2> QED BY <2>1, <2>2
  <1> HIDE DEF M
  <1>3. \/ fd \in DOMAIN fds /\ target = fds[fd]
        \/ target \in {<<"mem">>, <<None>>}
    BY <1>2
  <1>4. fd \in DOMAIN fds => target = fds[fd]
    BY <1>2
  <1> HIDE DEF target
  <1>5. target = <<"so", path>> \/ target[1] # "so"
    BY <1>3 DEF None
  <1>6. target = <<"so", path>> =>
           \A v : files' = Put(files, target, v) => Sets(path, v)
    <2> SUFFICES ASSUME target = <<"so", path>>, NEW v, files' = Put(files, target, v) PROVE Sets(path, v)
      OBVIOUS
    <2>1. files' = [q \in DOMAIN files |-> IF q = path THEN v ELSE files[q]]
      BY PutIs
    <2>2. DOMAIN files \cup {path} = DOMAIN files
      OBVIOUS
    <2> QED BY <2>1, <2>2, Zenon DEF Sets
  <1>7. target[1] # "so" => \A v : Put(files, target, v) = files
    BY PutElse
  <1>8. faults' = faults => ~Fault
    BY DEF Fault
  <1>9. Writes(path, es)
    BY <1>1, <1>5, <1>6, <1>7 DEF Writes
  <1>10. ASSUME faults' = faults, fd \in DOMAIN fds, fds[fd] = <<"so", path>> PROVE Sets(path, Whole(es))
    BY <1>1, <1>4, <1>6, <1>8, <1>10
  <1> QED BY <1>9, <1>10

(* The libraries after a step that sets a file, or none, as they should be. *)
LEMMA LibrariesSets ==
    ASSUME Libraries, NEW p, NEW v, files' = files \/ Sets(p, v),
           Sets(p, v) => \/ v \in {<<"empty">>, <<"torn">>}
                         \/ \E es \in Seq(Entry) : v = Whole(es) /\ Source(es, p)',
           \A es, q : Source(es, q) => Source(es, q)',
           \A n \in 1..Len(bos') : bos'[n].sofnm \in DOMAIN files'
    PROVE  Libraries'
  <1>1. \A q \in DOMAIN files : \/ files[q] \in {<<"empty">>, <<"torn">>}
                                \/ \E es \in Seq(Entry) : files[q] = Whole(es) /\ Source(es, q)
    BY DEF Libraries, Image, Whole
  <1>2. \A q \in DOMAIN files : \/ files[q] \in {<<"empty">>, <<"torn">>}
                                \/ \E es \in Seq(Entry) : files[q] = Whole(es) /\ Source(es, q)'
    BY <1>1, Zenon
  <1>3. \A q \in DOMAIN files' : \/ files'[q] \in {<<"empty">>, <<"torn">>}
                                 \/ \E es \in Seq(Entry) : files'[q] = Whole(es) /\ Source(es, q)'
    <2>1. CASE files' = files
      BY <1>2, <2>1, Zenon
    <2>2. CASE Sets(p, v)
      <3>1. /\ DOMAIN files' = DOMAIN files \cup {p}
            /\ \A q \in DOMAIN files' : files'[q] = IF q = p THEN v ELSE files[q]
        BY <2>2 DEF Sets
      <3>2. TAKE q \in DOMAIN files'
      <3>3. CASE q = p
        BY <2>2, <3>1, <3>3, Zenon
      <3>4. CASE q # p
        BY <1>2, <3>1, <3>4, Zenon
      <3> QED BY <3>3, <3>4
    <2> QED BY <2>1, <2>2
  <1> QED BY <1>3, Zenon DEF Libraries, Image, Whole

(* The library of an object, when it is written through its descriptor. *)
LEMMA SoFd ==
    ASSUME Arrays, Descriptors, NEW n \in 1..Len(bos)
    PROVE  /\ bos[n].sofd \in Nat
           /\ bos[n].sofd \in DOMAIN fds => \/ fds[bos[n].sofd] = <<"so", bos[n].sofnm>>
                                            \/ fds[bos[n].sofd][1] # "so"
           /\ ~wild => bos[n].sofd \in DOMAIN fds /\ fds[bos[n].sofd] = <<"so", bos[n].sofnm>>
  <1>1. bos[n].sofd \in Nat
    <2>1. bos[n] \in Bo
      BY DEF Arrays
    <2> QED BY <2>1 DEF Bo
  <1>2. ~wild => bos[n].sofd \in DOMAIN fds /\ fds[bos[n].sofd] = <<"so", bos[n].sofnm>>
    BY DEF Descriptors, SoOf
  <1>3. ASSUME bos[n].sofd \in DOMAIN fds, fds[bos[n].sofd][1] = "so"
        PROVE  fds[bos[n].sofd] = <<"so", bos[n].sofnm>>
    <2>1. PICK d : d = bos[n].sofd
      OBVIOUS
    <2>2. fds[d] \in Streams \/ \E k \in 1..Len(bos) : KoOf(d, k) \/ SoOf(d, k)
      BY <1>3, <2>1 DEF Descriptors
    <2>3. fds[d] \notin Streams
      BY <1>3, <2>1 DEF Streams
    <2>4. PICK k \in 1..Len(bos) : KoOf(d, k) \/ SoOf(d, k)
      BY <2>2, <2>3
    <2>5. ~KoOf(d, k)
      BY <1>3, <2>1 DEF KoOf
    <2>6. bos[k].sofd = d /\ fds[d] = <<"so", bos[k].sofnm>>
      BY <2>4, <2>5 DEF SoOf
    <2>7. k = n
      BY <2>1, <2>6 DEF Descriptors
    <2> QED BY <2>1, <2>6, <2>7
  <1> QED BY <1>1, <1>2, <1>3

(* What prcBO does to the libraries. *)
LEMMA PrcBOWrites ==
    ASSUME Arrays, Place, Descriptors, Libraries, prcBO
    PROVE  /\ pc = "prc" /\ i \in 1..Len(bos) /\ i' = i + 1 /\ pc' \in {"prc", "down"} /\ UNCHANGED <<bos, klines, kern, mods>>
           /\ \/ files' = files
              \/ /\ bos[i].kofnm \in DOMAIN Objects
                 /\ Writes(bos[i].sofnm, elf_read_syms(Objects[bos[i].kofnm]))
           /\ faults' = 0 => faults = 0 /\ (bos[i].kofnm \notin DOMAIN Objects => files' = files)
           /\ faults' = 0 /\ bos[i].kofnm \in DOMAIN Objects =>
                 Sets(bos[i].sofnm, Whole(elf_read_syms(Objects[bos[i].kofnm])))
  <1> DEFINE b == bos[i]
             es == elf_read_syms(Objects[b.kofnm])
             readable == /\ b.kofd \in DOMAIN fds /\ fds[b.kofd] = <<"ko", b.kofnm>>
                         /\ b.kofnm \in DOMAIN Objects
  <1>1. /\ pc = "prc" /\ i <= Len(bos) /\ i' = i + 1 /\ AfterWrite("prc") /\ UNCHANGED <<bos, klines, kern, mods>>
        /\ IF readable THEN writeso(b.sofnm, b.sofd, es, nmstrlen(es))
           ELSE NoFault /\ UNCHANGED <<fds, files, wild, status>>
    BY DEF prcBO
  <1>2. i \in 1..Len(bos) /\ faults \in Nat /\ (faults = 0 => ~wild) /\ wild \in BOOLEAN
    BY <1>1, ConstantsAssumption DEF Place, Arrays
  <1>3. IsFds(fds) /\ b.sofnm \in DOMAIN files
    BY <1>2, FdsAre DEF Libraries
  <1>4. faults = 0 /\ b.kofnm \in DOMAIN Objects => readable
    <2>1. ~wild => b.kofd \in DOMAIN fds /\ fds[b.kofd] = <<"ko", b.kofnm>>
      BY <1>2 DEF Descriptors, KoOf
    <2> QED BY <1>2, <2>1
  <1>5. /\ b.sofd \in Nat
        /\ b.sofd \in DOMAIN fds => fds[b.sofd] = <<"so", b.sofnm>> \/ fds[b.sofd][1] # "so"
        /\ ~wild => b.sofd \in DOMAIN fds /\ fds[b.sofd] = <<"so", b.sofnm>>
    BY <1>2, SoFd
  <1>6. pc' \in {"prc", "down"}
    BY <1>1 DEF AfterWrite
  <1> HIDE DEF es, b
  <1>7. CASE ~readable
    <2>1. faults' = faults /\ files' = files
      BY <1>1, <1>7 DEF NoFault
    <2> QED BY <1>1, <1>2, <1>4, <1>6, <1>7, <2>1 DEF b
  <1>8. CASE readable
    <2>1. writeso(b.sofnm, b.sofd, es, nmstrlen(es))
      BY <1>1, <1>8
    <2>2. /\ Writes(b.sofnm, es)
          /\ faults' = faults /\ b.sofd \in DOMAIN fds /\ fds[b.sofd] = <<"so", b.sofnm>> => Sets(b.sofnm, Whole(es))
      BY <1>2, <1>3, <1>5, <2>1, WritesFd
    <2>3. faults' = faults \/ faults' = faults + 1
      BY <2>1, WritesoIs
    <2>4. faults' = 0 => faults = 0 /\ Sets(b.sofnm, Whole(es))
      BY <1>2, <1>5, <2>2, <2>3
    <2>5. b.kofnm \in DOMAIN Objects
      BY <1>8
    <2> QED BY <1>1, <1>2, <1>6, <2>2, <2>4, <2>5 DEF b, es
  <1> QED BY <1>7, <1>8

(* The lines of a module, if there are any, make entries. *)
LEMMA HasEntries ==
    ASSUME Symbols, pc # "down", NEW m
    PROVE  /\ EntriesOf(klines, m) \in Seq(Entry)
           /\ EntriesOf(klines, m) # <<>> <=> \E n \in 1..Len(klines) : klines[n].module = m
  <1>1. klines \in Seq(Lines) /\ \A k \in 1..Len(klines) : klines[k].type \in DOMAIN initSE
    BY DEF Symbols
  <1>2. klines \in Seq(Known)
    <2>1. \A k \in 1..Len(klines) : klines[k] \in Known
      BY <1>1 DEF Known
    <2>2. klines \in [1..Len(klines) -> Known] /\ Len(klines) \in Nat
      BY <1>1, <2>1
    <2> QED BY <2>2
  <1>3. /\ LinesOf(klines, m) \in Seq(Known) /\ EntriesOf(klines, m) \in Seq(Entry)
        /\ Len(EntriesOf(klines, m)) = Len(LinesOf(klines, m))
    BY <1>2, EntriesAre
  <1>4. LinesOf(klines, m) # <<>> <=> \E n \in 1..Len(klines) : klines[n].module = m
    <2>1. PICK S : S = {x \in Lines : x.module = m}
      OBVIOUS
    <2>2. Among(klines, S) # <<>> <=> \E k \in 1..Len(klines) : klines[k] \in S
      BY <1>1, AmongHas
    <2>3. \A k \in 1..Len(klines) : klines[k] \in S <=> klines[k].module = m
      BY <1>1, <2>1
    <2> QED BY <2>1, <2>2, <2>3, Zenon DEF LinesOf
  <1>5. EntriesOf(klines, m) = <<>> <=> LinesOf(klines, m) = <<>>
    BY <1>3
  <1> QED BY <1>3, <1>4, <1>5

(* What WriteKern and WriteMod do to the libraries. *)
LEMMA WriteKernWrites ==
    ASSUME Place, Symbols, WriteKern
    PROVE  /\ pc = "lines" /\ i' = 1 /\ pc' \in {"mods", "down"} /\ UNCHANGED <<bos, klines, kern, mods>>
           /\ kern.entries = EntriesOf(klines, None) /\ libkern = KPath(None)
           /\ kern.entries = <<>> => files' = files /\ faults' = faults
           /\ kern.entries # <<>> => Writes(libkern, kern.entries)
           /\ faults' = 0 => faults = 0 /\ (kern.entries # <<>> => Sets(libkern, Whole(kern.entries)))
  <1>1. /\ pc = "lines" /\ i' = 1 /\ AfterWrite("mods") /\ UNCHANGED <<bos, klines, kern, mods>>
        /\ IF kern.entries # <<>> THEN writeso(libkern, -1, kern.entries, kern.nmstrlen)
           ELSE NoFault /\ UNCHANGED <<fds, files, wild, status>>
    BY DEF WriteKern, tables
  <1>2. kern.entries = EntriesOf(klines, None) /\ kern.nmstrlen = nmstrlen(kern.entries)
    BY <1>1 DEF Symbols, TabOf
  <1>3. libkern = KPath(None) /\ faults \in Nat
    BY ConstantsAssumption DEF libkern, KPath, Place
  <1>4. pc' \in {"mods", "down"}
    BY <1>1 DEF AfterWrite
  <1>5. CASE kern.entries = <<>>
    <2>1. faults' = faults /\ files' = files
      BY <1>1, <1>5 DEF NoFault
    <2> QED BY <1>1, <1>2, <1>3, <1>4, <1>5, <2>1
  <1>6. CASE kern.entries # <<>>
    <2>1. PICK es : es = kern.entries
      OBVIOUS
    <2>2. writeso(libkern, -1, es, nmstrlen(es))
      BY <1>1, <1>2, <1>6, <2>1
    <2>3. Writes(libkern, es) /\ (faults' = faults => Sets(libkern, Whole(es)))
      BY <1>3, <2>2, WritesPath
    <2>4. faults' = faults \/ faults' = faults + 1
      BY <2>2, WritesoIs
    <2>5. faults' = 0 => faults = 0 /\ Sets(libkern, Whole(es))
      BY <1>3, <2>3, <2>4
    <2> QED BY <1>1, <1>2, <1>3, <1>4, <1>6, <2>1, <2>3, <2>5
  <1> QED BY <1>5, <1>6

LEMMA WriteModWrites ==
    ASSUME Place, Symbols, WriteMod
    PROVE  /\ pc = "mods" /\ i \in 1..Len(mods) /\ i' = i + 1 /\ pc' \in {"mods", "down"}
           /\ UNCHANGED <<bos, klines, kern, mods>>
           /\ Writes(KPath(mods[i].name), EntriesOf(klines, mods[i].name))
           /\ faults' = 0 => faults = 0 /\ Sets(KPath(mods[i].name), Whole(EntriesOf(klines, mods[i].name)))
  <1>1. /\ pc = "mods" /\ i <= Len(mods) /\ i' = i + 1 /\ AfterWrite("mods") /\ UNCHANGED <<bos, klines, kern, mods>>
        /\ writeso(<<kdir, <<mods[i].name, "">>>>, -1, mods[i].entries, mods[i].nmstrlen)
    BY DEF WriteMod, tables
  <1>2. i \in 1..Len(mods) /\ faults \in Nat
    <2>1. i \in Nat \ {0} /\ faults \in Nat
      BY ConstantsAssumption DEF Place
    <2>2. Len(mods) \in Nat
      BY DEF Symbols
    <2>3. i <= Len(mods)
      BY DEF WriteMod
    <2> QED BY <2>1, <2>2, <2>3
  <1>3. PICK m, es, p : m = mods[i].name /\ es = mods[i].entries /\ p = KPath(m)
    OBVIOUS
  <1>4. es = EntriesOf(klines, m) /\ mods[i].nmstrlen = nmstrlen(es) /\ m # None
    BY <1>1, <1>2, <1>3 DEF Symbols, TabOf
  <1>5. p = <<kdir, <<mods[i].name, "">>>>
    BY <1>3, <1>4 DEF KPath
  <1>6. writeso(p, -1, es, nmstrlen(es))
    BY <1>1, <1>3, <1>4, <1>5, Zenon
  <1>7. Writes(p, es) /\ (faults' = faults => Sets(p, Whole(es)))
    BY <1>2, <1>6, WritesPath
  <1>8. faults' = faults \/ faults' = faults + 1
    BY <1>6, WritesoIs
  <1>9. faults' = 0 => faults = 0 /\ Sets(p, Whole(es))
    BY <1>2, <1>7, <1>8
  <1>10. pc' \in {"mods", "down"}
    BY <1>1 DEF AfterWrite
  <1>11. p = KPath(mods[i].name) /\ es = EntriesOf(klines, mods[i].name)
    BY <1>3, <1>4
  <1> QED BY <1>1, <1>2, <1>7, <1>9, <1>10, <1>11

(* When the sources of the libraries stay. *)
LEMMA SourceStay ==
    ASSUME UNCHANGED bos,
           pc' # "down" => /\ pc # "down"
                           /\ pc \in {"mods", "cleanup"} => pc' \in {"mods", "cleanup"} /\ klines' = klines
    PROVE  \A es, q : Source(es, q) => Source(es, q)'
  <1>1. \A es, q : KoSource(es, q)' <=> KoSource(es, q)
    BY DEF KoSource
  <1>2. klines' = klines => \A es, q : LineSource(es, q)' <=> LineSource(es, q)
    BY DEF LineSource, EntriesOf, LinesOf, EntryOf
  <1> QED BY <1>1, <1>2, Zenon DEF Source

(* Steps that write no library. *)
LEMMA LibrariesKeep ==
    ASSUME Libraries, UNCHANGED <<bos, files>>,
           pc' # "down" => /\ pc # "down"
                           /\ pc \in {"mods", "cleanup"} => pc' \in {"mods", "cleanup"} /\ klines' = klines
    PROVE  Libraries'
  <1>1. \A es, q : Source(es, q) => Source(es, q)'
    BY SourceStay
  <1>2. \A n \in 1..Len(bos') : bos'[n].sofnm \in DOMAIN files'
    BY DEF Libraries
  <1>3. PICK p, v : p = <<>> /\ v = <<"empty">>
    OBVIOUS
  <1> QED BY <1>1, <1>2, <1>3, LibrariesSets

(* A library that is written for its source. *)
LEMMA LibrariesWrite ==
    ASSUME Libraries, UNCHANGED bos, NEW p, NEW es \in Seq(Entry), Writes(p, es), Source(es, p)',
           pc' # "down" => /\ pc # "down"
                           /\ pc \in {"mods", "cleanup"} => pc' \in {"mods", "cleanup"} /\ klines' = klines
    PROVE  Libraries'
  <1>1. \A e, q : Source(e, q) => Source(e, q)'
    BY SourceStay
  <1>2. \A n \in 1..Len(bos) : bos[n].sofnm \in DOMAIN files
    BY DEF Libraries
  <1>3. CASE files' = files
    <2>1. \A n \in 1..Len(bos') : bos'[n].sofnm \in DOMAIN files'
      BY <1>2, <1>3
    <2>2. PICK v : v = <<"empty">>
      OBVIOUS
    <2> QED BY <1>1, <1>3, <2>1, <2>2, LibrariesSets
  <1>4. CASE \E v \in {<<"empty">>, <<"torn">>, Whole(es)} : Sets(p, v)
    <2>1. PICK v \in {<<"empty">>, <<"torn">>, Whole(es)} : Sets(p, v)
      BY <1>4
    <2>2. \A n \in 1..Len(bos') : bos'[n].sofnm \in DOMAIN files'
      <3>1. DOMAIN files' = DOMAIN files \cup {p}
        BY <2>1 DEF Sets
      <3> QED BY <1>2, <3>1
    <2>3. v \in {<<"empty">>, <<"torn">>} \/ \E e \in Seq(Entry) : v = Whole(e) /\ Source(e, p)'
      BY Zenon
    <2> QED BY <1>1, <2>1, <2>2, <2>3, LibrariesSets
  <1> QED BY <1>3, <1>4 DEF Writes

(* A library that is truncated. *)
LEMMA TruncatedSets ==
    ASSUME NEW so, files' = Truncated(so)
    PROVE  Sets(so, <<"empty">>)
  BY DEF Truncated, Sets

LEMMA LibrariesAdd ==
    ASSUME Arrays, Place, Descriptors, Libraries, NEW ko, NEW tried, AddsBo(ko, tried)
    PROVE  Libraries'
  <1>1. PICK so : so = NewBo(ko).sofnm
    OBVIOUS
  <1>2. PICK v : v = <<"empty">> /\ Sets(so, v)
    BY <1>1, TruncatedSets DEF AddsBo
  <1>3. PICK L \in Nat : L = Len(bos)
    BY DEF Arrays
  <1>4. /\ Len(bos') = L + 1 /\ bos'[L + 1] = NewBo(ko) /\ \A n \in 1..L : bos'[n] = bos[n]
    <2>1. NewBo(ko) \in Bo /\ bos \in Seq(Bo) /\ bos' = Append(bos, NewBo(ko))
      BY NewBoIs DEF AddsBo, Arrays
    <2> QED BY <1>3, <2>1
  <1>5. 1..(L + 1) = (1..L) \cup {L + 1}
    BY <1>3
  <1>6. DOMAIN files' = DOMAIN files \cup {so}
    BY <1>2 DEF Sets
  <1>7. \A n \in 1..Len(bos') : bos'[n].sofnm \in DOMAIN files'
    <2>1. \A n \in 1..L : bos[n].sofnm \in DOMAIN files
      BY <1>3 DEF Libraries
    <2> QED BY <1>1, <1>4, <1>5, <1>6, <2>1
  <1>8. \A es, q : Source(es, q) => Source(es, q)'
    <2>1. pc = "bos" /\ pc' = "bos"
      BY DEF AddsBo
    <2>2. \A es, q : KoSource(es, q) => KoSource(es, q)'
      <3>1. TAKE es, q
      <3>2. HAVE KoSource(es, q)
      <3>3. PICK n \in 1..L : /\ bos[n].sofnm = q /\ bos[n].kofnm \in DOMAIN Objects
                              /\ es = elf_read_syms(Objects[bos[n].kofnm])
        BY <1>3, <3>2 DEF KoSource
      <3>4. n \in 1..Len(bos') /\ bos'[n] = bos[n]
        BY <1>4, <1>5
      <3> QED BY <3>3, <3>4 DEF KoSource
    <2> QED BY <2>1, <2>2 DEF Source
  <1> QED BY <1>2, <1>7, <1>8, LibrariesSets

(* The libraries once the program has ended. *)
LEMMA LibrariesDown ==
    ASSUME Libraries, pc' = "down", bos' = bos \/ bos' = <<>>, NEW so, files' \in {files, Truncated(so)}
    PROVE  Libraries'
  <1>1. \A es, q : Source(es, q)'
    BY DEF Source
  <1>2. PICK v : v = <<"empty">>
    OBVIOUS
  <1>3. files' = files \/ Sets(so, v)
    BY <1>2, TruncatedSets
  <1>4. DOMAIN files \subseteq DOMAIN files'
    BY <1>3 DEF Sets
  <1>5. \A n \in 1..Len(bos') : bos'[n].sofnm \in DOMAIN files'
    <2>1. \A n \in 1..Len(bos) : bos[n].sofnm \in DOMAIN files
      BY DEF Libraries
    <2>2. bos' = <<>> => 1..Len(bos') = {}
      OBVIOUS
    <2> QED BY <1>4, <2>1, <2>2
  <1> QED BY <1>1, <1>2, <1>3, <1>5, LibrariesSets

LEMMA LibrariesStep ==
    ASSUME Arrays, Place, Descriptors, Symbols, Libraries, [Next]_vars
    PROVE  Libraries'
  <1>1. CASE Getcwd \/ usage \/ EndOfOptions \/ EndOfSpecs \/ prcExec
    BY <1>1, LibrariesKeep DEF Getcwd, usage, Option, Exit, EndOfOptions, EndOfSpecs, prcExec, tables
  <1>2. CASE optN \/ (\E d \in Paths : optK(d)) \/ (\E s \in Specs : optk(s))
    BY <1>2, LibrariesKeep DEF optN, optK, optk, Option, tables
  <1>3. CASE addbo
    <2>1. CASE NoBo
      <3>1. pc' = "down" /\ bos' = bos /\ \E so : files' \in {files, Truncated(so)}
        BY <2>1 DEF NoBo
      <3> QED BY <3>1, LibrariesDown
    <2> QED BY <1>3, <2>1, AddboIs, FdsAre, LibrariesAdd
  <1>4. CASE OpenKotbl \/ CloseKotbl \/ OpenKallsyms \/ EndOfKallsyms
    BY <1>4, LibrariesKeep DEF OpenKotbl, CloseKotbl, OpenKallsyms, EndOfKallsyms, Exit, tables
  <1>5. CASE prcBO
    <2>1. /\ pc = "prc" /\ i \in 1..Len(bos) /\ pc' \in {"prc", "down"} /\ UNCHANGED <<bos, klines>>
          /\ \/ files' = files
             \/ /\ bos[i].kofnm \in DOMAIN Objects
                /\ Writes(bos[i].sofnm, elf_read_syms(Objects[bos[i].kofnm]))
      BY <1>5, PrcBOWrites
    <2>2. CASE files' = files
      BY <2>1, <2>2, LibrariesKeep
    <2>3. CASE /\ bos[i].kofnm \in DOMAIN Objects
               /\ Writes(bos[i].sofnm, elf_read_syms(Objects[bos[i].kofnm]))
      <3>1. PICK p, es : p = bos[i].sofnm /\ es = elf_read_syms(Objects[bos[i].kofnm])
        OBVIOUS
      <3>2. Writes(p, es) /\ es \in Seq(Entry)
        BY <2>3, <3>1, ObjectEntries
      <3>3. KoSource(es, p)'
        <4>1. PICK n : n = i /\ n \in 1..Len(bos)
          BY <2>1
        <4>2. bos'[n].sofnm = p /\ bos'[n].kofnm \in DOMAIN Objects /\ es = elf_read_syms(Objects[bos'[n].kofnm])
          BY <2>1, <2>3, <3>1, <4>1
        <4>3. n \in 1..Len(bos')
          BY <2>1, <4>1
        <4> QED BY <4>2, <4>3 DEF KoSource
      <3>4. Source(es, p)'
        BY <3>3 DEF Source
      <3> QED BY <2>1, <3>2, <3>4, LibrariesWrite
    <2> QED BY <2>1, <2>2, <2>3
  <1>6. CASE WriteKern
    <2>1. /\ pc = "lines" /\ pc' \in {"mods", "down"} /\ UNCHANGED <<bos, klines>>
          /\ kern.entries = EntriesOf(klines, None) /\ libkern = KPath(None)
          /\ kern.entries = <<>> => files' = files
          /\ kern.entries # <<>> => Writes(libkern, kern.entries)
      BY <1>6, WriteKernWrites
    <2>2. CASE kern.entries = <<>>
      BY <2>1, <2>2, LibrariesKeep
    <2>3. CASE kern.entries # <<>>
      <3>1. PICK p, es : p = libkern /\ es = EntriesOf(klines, None)
        OBVIOUS
      <3>2. /\ es \in Seq(Entry)
            /\ es # <<>> <=> \E n \in 1..Len(klines) : klines[n].module = None
        BY <2>1, <3>1, HasEntries
      <3>3. Writes(p, es) /\ es # <<>>
        BY <2>1, <2>3, <3>1
      <3>4. PICK n \in 1..Len(klines) : klines[n].module = None
        BY <3>2, <3>3
      <3>5. LineSource(es, p)'
        <4>1. p = KPath(klines'[n].module) /\ es = EntriesOf(klines', klines'[n].module) /\ n \in 1..Len(klines')
          BY <2>1, <3>1, <3>4
        <4> QED BY <4>1 DEF LineSource, KPath
      <3>6. Source(es, p)'
        BY <2>1, <3>5 DEF Source
      <3> QED BY <2>1, <3>2, <3>3, <3>6, LibrariesWrite
    <2> QED BY <2>2, <2>3
  <1>7. CASE WriteMod
    <2>1. /\ pc = "mods" /\ i \in 1..Len(mods) /\ pc' \in {"mods", "down"} /\ UNCHANGED <<bos, klines>>
          /\ Writes(KPath(mods[i].name), EntriesOf(klines, mods[i].name))
      BY <1>7, WriteModWrites
    <2>2. PICK m, p, es : m = mods[i].name /\ p = KPath(m) /\ es = EntriesOf(klines, m)
      OBVIOUS
    <2>3. Writes(p, es) /\ es \in Seq(Entry)
      BY <2>1, <2>2, HasEntries
    <2>4. PICK n \in 1..Len(klines) : klines[n].module = m
      BY <2>1, <2>2 DEF Symbols
    <2>5. LineSource(es, p)'
      <3>1. p = KPath(klines'[n].module) /\ es = EntriesOf(klines', klines'[n].module) /\ n \in 1..Len(klines')
        BY <2>1, <2>2, <2>4
      <3> QED BY <3>1 DEF LineSource, KPath
    <2>6. Source(es, p)'
      BY <2>1, <2>5 DEF Source
    <2> QED BY <2>1, <2>3, <2>6, LibrariesWrite
  <1>8. CASE cleanup
    <2>1. pc' = "down" /\ bos' = <<>> /\ files' = files
      BY <1>8 DEF cleanup
    <2> QED BY <2>1, LibrariesDown
  <1>9. ASSUME NEW l \in Lines, GetLine(l) PROVE Libraries'
    BY <1>9, LibrariesKeep DEF GetLine
  <1>10. CASE UNCHANGED vars
    BY <1>10, LibrariesKeep DEF vars, tables
  <1> QED BY <1>1, <1>2, <1>3, <1>4, <1>5, <1>6, <1>7, <1>8, <1>9, <1>10 DEF Next, main
-----------------------------------------------------------------------------
(* What has been written when nothing failed *)

LEMMA CompleteInit == Init => Complete
  BY DEF Init, Complete, Late

(* A library that is whole stays so until it is opened again. *)
LEMMA DoneGrows ==
    ASSUME NEW p, NEW es, Sets(p, Whole(es))
    PROVE  Done \cup {p} \subseteq Done'
  <1>1. PICK v : v = Whole(es)
    OBVIOUS
  <1>2. IsImage(v)
    BY <1>1 DEF IsImage, Whole
  <1>3. /\ DOMAIN files' = DOMAIN files \cup {p}
        /\ \A q \in DOMAIN files' : files'[q] = IF q = p THEN v ELSE files[q]
    BY <1>1 DEF Sets
  <1>4. ASSUME NEW q \in Done \cup {p} PROVE q \in Done'
    <2>1. q \in DOMAIN files'
      BY <1>3 DEF Done
    <2>2. CASE q = p
      BY <1>2, <1>3, <2>1, <2>2 DEF Done
    <2>3. CASE q # p
      <3>1. IsImage(files[q]) /\ files'[q] = files[q]
        BY <1>3, <2>1, <2>3 DEF Done
      <3> QED BY <2>1, <3>1 DEF Done
    <2> QED BY <2>2, <2>3
  <1> QED BY <1>4

(* Steps to a place that asks for nothing, and steps of the same place. *)
LEMMA CompleteKeep ==
    ASSUME Complete, UNCHANGED <<files, bos>>, faults' = 0 => faults = 0,
           \/ pc' \in Early \cup {"down"}
           \/ pc \in Late /\ pc' \in {"kallsyms", "lines"}
           \/ pc \in Late /\ pc' = "cleanup" /\ klines' = <<>>
           \/ pc' = pc /\ i' = i /\ UNCHANGED <<klines, kern, mods>>
    PROVE  Complete'
  <1> SUFFICES ASSUME faults' = 0 PROVE Complete'
    BY DEF Complete
  <1>1. Done' = Done
    BY DEF Done
  <1>2. CASE pc' \in Early \cup {"down"}
    BY <1>2 DEF Complete, Early, Late
  <1>3. CASE pc \in Late /\ pc' \in {"kallsyms", "lines"}
    BY <1>1, <1>3 DEF Complete, Late
  <1>4. CASE pc \in Late /\ pc' = "cleanup" /\ klines' = <<>>
    <2>1. Len(klines') = 0
      BY <1>4
    <2> QED BY <1>1, <1>4, <2>1 DEF Complete, Late
  <1>5. CASE pc' = pc /\ i' = i /\ UNCHANGED <<klines, kern, mods>>
    <2>1. \A m : KPath(m)' = KPath(m)
      BY DEF KPath
    <2> QED BY <1>1, <1>5, <2>1 DEF Complete
  <1> QED BY <1>2, <1>3, <1>4, <1>5

LEMMA CompletePrcBO ==
    ASSUME Arrays, Place, Descriptors, Libraries, Complete, prcBO
    PROVE  Complete'
  <1> SUFFICES ASSUME faults' = 0, pc' # "down" PROVE Complete'
    BY DEF Complete, Late
  <1>1. /\ pc = "prc" /\ i \in 1..Len(bos) /\ i' = i + 1 /\ pc' \in {"prc", "down"} /\ bos' = bos
        /\ faults = 0 /\ (bos[i].kofnm \notin DOMAIN Objects => files' = files)
        /\ bos[i].kofnm \in DOMAIN Objects => Sets(bos[i].sofnm, Whole(elf_read_syms(Objects[bos[i].kofnm])))
    BY PrcBOWrites
  <1>2. Done \subseteq Done' /\ (bos[i].kofnm \in DOMAIN Objects => bos[i].sofnm \in Done')
    <2>1. CASE bos[i].kofnm \in DOMAIN Objects
      <3>1. PICK p, es : p = bos[i].sofnm /\ es = elf_read_syms(Objects[bos[i].kofnm])
        OBVIOUS
      <3>2. Sets(p, Whole(es))
        BY <1>1, <2>1, <3>1
      <3>3. Done \cup {p} \subseteq Done'
        BY <3>2, DoneGrows
      <3> QED BY <3>1, <3>3
    <2>2. CASE bos[i].kofnm \notin DOMAIN Objects
      BY <1>1, <2>2 DEF Done
    <2> QED BY <2>1, <2>2
  <1>3. \A n \in 1..(i - 1) : bos[n].kofnm \in DOMAIN Objects => bos[n].sofnm \in Done
    BY <1>1 DEF Complete
  <1>4. 1..(i' - 1) = (1..(i - 1)) \cup {i}
    BY <1>1
  <1>5. \A n \in 1..(i' - 1) : bos'[n].kofnm \in DOMAIN Objects => bos'[n].sofnm \in Done'
    BY <1>1, <1>2, <1>3, <1>4
  <1>6. pc' = "prc"
    BY <1>1
  <1> QED BY <1>5, <1>6 DEF Complete, Late

LEMMA CompleteKern ==
    ASSUME Place, Symbols, Complete, WriteKern
    PROVE  Complete'
  <1> SUFFICES ASSUME faults' = 0, pc' # "down" PROVE Complete'
    BY DEF Complete, Late
  <1>1. /\ pc = "lines" /\ i' = 1 /\ pc' \in {"mods", "down"} /\ UNCHANGED <<bos, klines, kern, mods>>
        /\ faults = 0 /\ (kern.entries = <<>> => files' = files)
        /\ kern.entries # <<>> => Sets(libkern, Whole(kern.entries))
    BY WriteKernWrites
  <1>2. Done \subseteq Done' /\ (kern.entries # <<>> => libkern \in Done')
    <2>1. CASE kern.entries # <<>>
      <3>1. PICK p, es : p = libkern /\ es = kern.entries
        OBVIOUS
      <3>2. Sets(p, Whole(es))
        BY <1>1, <2>1, <3>1
      <3>3. Done \cup {p} \subseteq Done'
        BY <3>2, DoneGrows
      <3> QED BY <3>1, <3>3
    <2>2. CASE kern.entries = <<>>
      BY <1>1, <2>2 DEF Done
    <2> QED BY <2>1, <2>2
  <1>3. \A n \in 1..Len(bos') : bos'[n].kofnm \in DOMAIN Objects => bos'[n].sofnm \in Done'
    <2>1. \A n \in 1..Len(bos) : bos[n].kofnm \in DOMAIN Objects => bos[n].sofnm \in Done
      BY <1>1 DEF Complete, Late
    <2> QED BY <1>1, <1>2, <2>1
  <1>4. 1..(i' - 1) = {}
    BY <1>1
  <1>5. (kern.entries # <<>> => libkern \in Done)' /\ pc' = "mods"
    BY <1>1, <1>2 DEF libkern
  <1> QED BY <1>3, <1>4, <1>5 DEF Complete

LEMMA CompleteMod ==
    ASSUME Place, Symbols, Complete, WriteMod
    PROVE  Complete'
  <1> SUFFICES ASSUME faults' = 0, pc' # "down" PROVE Complete'
    BY DEF Complete, Late
  <1>1. /\ pc = "mods" /\ i \in 1..Len(mods) /\ i' = i + 1 /\ pc' \in {"mods", "down"}
        /\ UNCHANGED <<bos, klines, kern, mods>>
        /\ faults = 0 /\ Sets(KPath(mods[i].name), Whole(EntriesOf(klines, mods[i].name)))
    BY WriteModWrites
  <1>2. Done \subseteq Done' /\ KPath(mods[i].name) \in Done'
    <2>1. PICK p, es : p = KPath(mods[i].name) /\ es = EntriesOf(klines, mods[i].name)
      OBVIOUS
    <2>2. Done \cup {p} \subseteq Done'
      BY <1>1, <2>1, DoneGrows
    <2> QED BY <2>1, <2>2
  <1>3. /\ \A n \in 1..Len(bos) : bos[n].kofnm \in DOMAIN Objects => bos[n].sofnm \in Done
        /\ kern.entries # <<>> => libkern \in Done
        /\ \A n \in 1..(i - 1) : KPath(mods[n].name) \in Done
    BY <1>1 DEF Complete, Late
  <1>4. 1..(i' - 1) = (1..(i - 1)) \cup {i}
    BY <1>1
  <1>5. \A n \in 1..(i' - 1) : KPath(mods'[n].name) \in Done'
    BY <1>1, <1>2, <1>3, <1>4
  <1>6. /\ \A n \in 1..Len(bos') : bos'[n].kofnm \in DOMAIN Objects => bos'[n].sofnm \in Done'
        /\ kern'.entries # <<>> => libkern \in Done'
    BY <1>1, <1>2, <1>3
  <1>7. pc' = "mods"
    BY <1>1
  <1> QED BY <1>5, <1>6, <1>7 DEF Complete, KPath, libkern

LEMMA CompleteEnd ==
    ASSUME Place, Symbols, Complete, EndOfKallsyms
    PROVE  Complete'
  <1> SUFFICES ASSUME faults' = 0 PROVE Complete'
    BY DEF Complete
  <1>1. /\ pc = "mods" /\ i > Len(mods) /\ pc' = "cleanup" /\ UNCHANGED <<bos, klines, files, faults>>
    BY DEF EndOfKallsyms, Exit, tables
  <1>2. i - 1 = Len(mods)
    <2>1. i \in Nat /\ Len(mods) \in Nat /\ i <= Len(mods) + 1
      BY <1>1 DEF Place, Symbols
    <2>2. i > Len(mods)
      BY <1>1
    <2> QED BY <2>1, <2>2
  <1>3. /\ \A n \in 1..Len(bos) : bos[n].kofnm \in DOMAIN Objects => bos[n].sofnm \in Done
        /\ kern.entries # <<>> => libkern \in Done
        /\ \A n \in 1..Len(mods) : KPath(mods[n].name) \in Done
    BY <1>1, <1>2 DEF Complete, Late
  <1>4. Done' = Done
    BY <1>1 DEF Done
  <1>5. ASSUME NEW n \in 1..Len(klines) PROVE KPath(klines[n].module) \in Done
    <2>1. CASE klines[n].module = None
      <3>1. EntriesOf(klines, None) # <<>>
        BY <1>1, <2>1, HasEntries
      <3>2. kern.entries = EntriesOf(klines, None)
        BY <1>1 DEF Symbols, TabOf
      <3>3. KPath(None) = libkern
        BY DEF KPath, libkern
      <3> QED BY <1>3, <2>1, <3>1, <3>2, <3>3, Zenon
    <2>2. CASE klines[n].module # None
      <3>1. PICK k \in 1..Len(mods) : mods[k].name = klines[n].module
        BY <1>1, <2>2 DEF Symbols
      <3> QED BY <1>3, <3>1, Zenon
    <2> QED BY <2>1, <2>2
  <1>6. \A n \in 1..Len(klines') : KPath(klines'[n].module) \in Done'
    BY <1>1, <1>4, <1>5
  <1>7. \A n \in 1..Len(bos') : bos'[n].kofnm \in DOMAIN Objects => bos'[n].sofnm \in Done'
    BY <1>1, <1>3, <1>4
  <1> QED BY <1>1, <1>6, <1>7 DEF Complete, KPath

LEMMA CompleteStep ==
    ASSUME Arrays, Place, Descriptors, Symbols, Libraries, Complete, [Next]_vars
    PROVE  Complete'
  <1>1. faults \in Nat /\ Len(bos) \in Nat
    BY ConstantsAssumption DEF Place, Arrays
  <1>2. CASE Getcwd \/ usage \/ EndOfOptions \/ EndOfSpecs \/ prcExec \/ addbo
    <2>1. pc' \in Early \cup {"down"}
      <3>1. CASE addbo
        <4>1. (\E ko, n : AddsBo(ko, n)) \/ NoBo
          BY <3>1, AddboIs, FdsAre
        <4> QED BY <4>1 DEF AddsBo, NoBo, Early
      <3> QED BY <1>2, <3>1 DEF Getcwd, usage, Option, Exit, EndOfOptions, EndOfSpecs, prcExec, Early
    <2> QED BY <2>1 DEF Complete, Early, Late
  <1>3. CASE optN \/ (\E d \in Paths : optK(d)) \/ (\E s \in Specs : optk(s))
    <2>1. pc' \in Early
      BY <1>3 DEF optN, optK, optk, Option, Early
    <2> QED BY <2>1 DEF Complete, Early, Late
  <1>4. CASE OpenKotbl
    <2> SUFFICES ASSUME faults' = 0 PROVE Complete'
      BY DEF Complete
    <2>1. ~Fault
      BY <1>1 DEF Fault
    <2>2. i' = 1 /\ bos' = bos /\ (pc' = "prc" \/ (pc' = "kallsyms" /\ bos = <<>>))
      BY <1>4, <2>1 DEF OpenKotbl
    <2>3. 1..(i' - 1) = {} /\ (bos' = <<>> => 1..Len(bos') = {})
      BY <2>2
    <2> QED BY <2>2, <2>3 DEF Complete, Late
  <1>5. CASE CloseKotbl
    <2> SUFFICES ASSUME faults' = 0 PROVE Complete'
      BY DEF Complete
    <2>1. pc = "prc" /\ i > Len(bos) /\ pc' = "kallsyms" /\ UNCHANGED <<bos, files, faults>>
      BY <1>1, <1>5 DEF CloseKotbl, Fault, NoFault
    <2>2. i - 1 = Len(bos)
      <3>1. i \in Nat /\ i <= Len(bos) + 1 /\ i > Len(bos)
        BY <2>1 DEF Place
      <3> QED BY <1>1, <3>1
    <2>3. \A n \in 1..Len(bos) : bos[n].kofnm \in DOMAIN Objects => bos[n].sofnm \in Done
      BY <2>1, <2>2 DEF Complete
    <2>4. Done' = Done
      BY <2>1 DEF Done
    <2> QED BY <2>1, <2>3, <2>4 DEF Complete
  <1>6. CASE OpenKallsyms
    <2>1. /\ pc = "kallsyms" /\ pc' \in {"lines", "cleanup"} /\ UNCHANGED <<bos, files, klines>>
          /\ faults' = faults \/ faults' = faults + 1
      BY <1>6 DEF OpenKallsyms, Exit, tables, Fault, NoFault
    <2>2. klines' = <<>>
      BY <2>1 DEF Place
    <2>3. faults' = 0 => faults = 0
      BY <1>1, <2>1
    <2> QED BY <2>1, <2>2, <2>3, CompleteKeep DEF Late
  <1>7. CASE cleanup
    BY <1>7 DEF cleanup, Complete, Late
  <1>8. ASSUME NEW l \in Lines, GetLine(l) PROVE Complete'
    <2>1. pc = "lines" /\ pc' \in {"lines", "down"} /\ UNCHANGED <<bos, files, faults>>
      BY <1>8 DEF GetLine
    <2> QED BY <2>1, CompleteKeep DEF Late
  <1>9. CASE UNCHANGED vars
    <2>1. UNCHANGED <<files, bos, faults, pc, i, klines, kern, mods>>
      BY <1>9 DEF vars, tables
    <2> QED BY <2>1, CompleteKeep
  <1> QED BY <1>2, <1>3, <1>4, <1>5, <1>6, <1>7, <1>8, <1>9, CompletePrcBO, CompleteKern, CompleteMod, CompleteEnd
          DEF Next, main
-----------------------------------------------------------------------------
(* The invariant *)
Sound ==
    Arrays /\ Place /\ Objs /\ Descriptors /\ Table /\ Symbols /\ Libraries /\ Complete

(* Sound holds at the start and every step of kld keeps it. *)
THEOREM SoundAlways == Spec => []Sound
  <1>1. Init => Sound
    BY ArraysInit, PlaceInit, ObjsInit, DescriptorsInit, TableInit, SymbolsInit, LibrariesInit,
       CompleteInit DEF Sound
  <1>2. Sound /\ [Next]_vars => Sound'
    BY ArraysStep, PlaceStep, ObjsStep, DescriptorsStep, TableStep, SymbolsStep, LibrariesStep,
       CompleteStep DEF Sound
  <1> QED BY <1>1, <1>2, PTL DEF Spec

(* The program's place, its arrays and its descriptors have their types;   *)
(* descriptors are at most two for each -k, and one for each call that     *)
(* failed besides the stream that is open.                                 *)
THEOREM TypeCorrect == Spec => []TypeOK
  <1>1. Sound => TypeOK
    <2> SUFFICES ASSUME Sound PROVE TypeOK
      OBVIOUS
    <2>1. /\ pc \in {"init", "opts", "bos", "exec", "open", "prc", "kallsyms", "lines", "mods",
                     "cleanup", "down"}
          /\ i \in Nat \ {0} /\ faults \in 0..MaxFaults /\ prockallsyms \in BOOLEAN /\ wild \in BOOLEAN
          /\ status \in {None, "success", "failure", "crash"}
          /\ status # None <=> pc \in {"cleanup", "down"}
      BY DEF Sound, Place, Early, Late
    <2>2. Range(dirs) \subseteq Dirs /\ Range(kospec) \subseteq Specs /\ Range(klines) \subseteq Lines
      BY DEF Sound, Arrays, Symbols, Range
    <2>3. DOMAIN fds \subseteq 3..(3 + 2 * Len(kospec) + MaxFaults)
      BY DEF Sound, Descriptors, Top
    <2> QED BY <2>1, <2>2, <2>3 DEF TypeOK
  <1> QED BY <1>1, SoundAlways, PTL

(* Whatever fails in addbo, prcBO or writeso, the descriptors of kernel    *)
(* objects and their libraries are those of the objects in the table, each *)
(* open on its own file, and none is left when cleanup is through.         *)
THEOREM DescriptorsAreOwned == Spec => []Owned
  <1>1. Sound => Owned
    <2> SUFFICES ASSUME Sound, ~wild PROVE Owned
      BY DEF Owned
    <2>1. Descriptors /\ Arrays
      BY DEF Sound
    <2>2. ASSUME NEW b \in Range(bos)
          PROVE  /\ {b.kofd, b.sofd} \subseteq DOMAIN fds
                 /\ fds[b.kofd] = <<"ko", b.kofnm>> /\ fds[b.sofd] = <<"so", b.sofnm>>
      <3>1. PICK k \in 1..Len(bos) : b = bos[k]
        BY <2>1 DEF Arrays, Range
      <3>2. /\ bos[k].kofd \in DOMAIN fds /\ KoOf(bos[k].kofd, k)
            /\ bos[k].sofd \in DOMAIN fds /\ SoOf(bos[k].sofd, k)
        BY <2>1 DEF Descriptors
      <3> QED BY <3>1, <3>2 DEF KoOf, SoOf
    <2>3. Cardinality(Own) = 2 * Len(bos)
      BY <2>1 DEF Descriptors
    <2>4. ASSUME pc = "down", status # "crash"
          PROVE  Cardinality(DOMAIN fds) <= 2 * Len(bos) + faults
      <3>1. DOMAIN fds \ Expected = DOMAIN fds
        BY <2>4 DEF Expected
      <3>2. Cardinality(DOMAIN fds \ Expected) <= 2 * Len(bos) + faults
        BY <2>1, <2>4 DEF Descriptors
      <3> QED BY <3>1, <3>2
    <2> QED BY <2>2, <2>3, <2>4, Zenon DEF Owned, Own
  <1> QED BY <1>1, SoundAlways, PTL

(* Unless the writing of the table failed, which nobody looks at, or kld   *)
(* crashed, the table has one line for every -k, in order, each for a file *)
(* openko may find and for the first one when no open failed, or there is  *)
(* no table; and whatever failed, the lines that are whole are lines for   *)
(* some -k, in order, no object is in it twice, and at most one line is    *)
(* torn.                                                                   *)
THEOREM TableIsRight == Spec => []KotblRight
  <1>1. Sound => KotblRight
    BY DEF Sound, Table
  <1> QED BY <1>1, SoundAlways, PTL

(* The image of some entries, as a linker reads it. *)
Read(img) == [n \in 1..Len(img.dynsym) |-> SymbolAt(img, n)]

LEMMA ReadIs ==
    ASSUME NEW es \in Seq(Entry), NEW len
    PROVE  Read(elf_image(es, len)) = [n \in 1..Len(es) |-> SymbolOf(es[n])]
  <1>1. PICK img : img = elf_image(es, len)
    OBVIOUS
  <1>2. Len(img.dynsym) = Len(es) /\ \A k \in 1..Len(es) : SymbolAt(img, k) = SymbolOf(es[k])
    BY <1>1, ImageReads
  <1> QED BY <1>1, <1>2 DEF Read

(* The entries of a module are the symbols its library has to have. *)
LEMMA LineEntries ==
    ASSUME Symbols, pc # "down", NEW m
    PROVE  LineSymbols(m) = [n \in 1..Len(EntriesOf(klines, m)) |-> SymbolOf(EntriesOf(klines, m)[n])]
  <1>1. klines \in Seq(Known)
    <2>1. klines \in Seq(Lines) /\ \A k \in 1..Len(klines) : klines[k].type \in DOMAIN initSE
      BY DEF Symbols
    <2>2. \A k \in 1..Len(klines) : klines[k] \in Known
      BY <2>1 DEF Known
    <2>3. klines \in [1..Len(klines) -> Known] /\ Len(klines) \in Nat
      BY <2>1, <2>2
    <2> QED BY <2>3
  <1>2. PICK ls, es : ls = LinesOf(klines, m) /\ es = EntriesOf(klines, m)
    OBVIOUS
  <1>3. ls \in Seq(Known) /\ Len(es) = Len(ls) /\ es = [n \in 1..Len(ls) |-> EntryOf(ls[n])]
    BY <1>1, <1>2, EntriesAre DEF EntriesOf
  <1>4. ASSUME NEW n \in 1..Len(ls)
        PROVE  SymbolOf(es[n]) = [name |-> ls[n].name, addr |-> ls[n].addr, weak |-> ls[n].type \in {"V", "W"},
                                  func |-> ls[n].type \in {"T", "V", "W"}]
    <2>1. PICK l : l = ls[n] /\ l \in Known
      BY <1>3
    <2>2. es[n] = EntryOf(l)
      BY <1>3, <2>1
    <2> QED BY <2>1, <2>2, LineEntry
  <1>5. LineSymbols(m) = [n \in 1..Len(ls) |-> [name |-> ls[n].name, addr |-> ls[n].addr,
                             weak |-> ls[n].type \in {"V", "W"}, func |-> ls[n].type \in {"T", "V", "W"}]]
    BY <1>2, Zenon DEF LineSymbols, LinesOf
  <1> QED BY <1>2, <1>3, <1>4, <1>5

(* Every library writeso wrote in full reads back as the symbols of what   *)
(* it is the library of; and when no call failed, no library is missing.   *)
THEOREM LibrariesReadBack == Spec => []LibsRight
  <1>1. Sound => LibsRight
    <2> SUFFICES ASSUME Sound PROVE LibsRight
      OBVIOUS
    <2> DEFINE Kos(p) == {KoSymbols(b.kofnm) : b \in {c \in Range(bos) : c.sofnm = p /\ c.kofnm \in DOMAIN Objects}}
               Mods(p) == {l.module : l \in {k \in Range(klines) : p = KPath(k.module)}}
               Sources(p) == Kos(p) \cup {LineSymbols(m) : m \in Mods(p)}
    <2>1. Arrays /\ Symbols /\ Libraries /\ Complete
      BY DEF Sound
    <2>2. /\ \A n \in 1..Len(bos) : bos[n] \in Range(bos)
          /\ \A b \in Range(bos) : \E n \in 1..Len(bos) : b = bos[n]
          /\ \A n \in 1..Len(klines) : klines[n] \in Range(klines)
          /\ \A l \in Range(klines) : \E n \in 1..Len(klines) : l = klines[n]
      BY <2>1 DEF Arrays, Symbols, Range
    <2>3. ASSUME pc # "down", NEW p \in DOMAIN files, IsImage(files[p])
          PROVE  Read(files[p][2]) \in Sources(p)
      <3>1. files[p] \notin {<<"empty">>, <<"torn">>}
        BY <2>3 DEF IsImage
      <3>2. PICK es \in Seq(Entry) : Image(files[p], es) /\ Source(es, p)
        BY <2>1, <3>1 DEF Libraries
      <3>3. PICK syms : syms = [n \in 1..Len(es) |-> SymbolOf(es[n])]
        OBVIOUS
      <3>4. Read(files[p][2]) = syms
        <4>1. files[p][2] = elf_image(es, nmstrlen(es))
          BY <3>2 DEF Image
        <4> QED BY <3>3, <4>1, ReadIs
      <3>5. CASE KoSource(es, p)
        <4>1. PICK n \in 1..Len(bos) : /\ bos[n].sofnm = p /\ bos[n].kofnm \in DOMAIN Objects
                                       /\ es = elf_read_syms(Objects[bos[n].kofnm])
          BY <3>5 DEF KoSource
        <4>2. PICK ko : ko = bos[n].kofnm
          OBVIOUS
        <4>3. KoSymbols(ko) = syms
          BY <3>3, <4>1, <4>2, ObjectEntries
        <4>4. syms \in Kos(p)
          BY <2>2, <4>1, <4>2, <4>3
        <4> QED BY <3>4, <4>4
      <3>6. CASE LineSource(es, p)
        <4>1. PICK n \in 1..Len(klines) : p = KPath(klines[n].module) /\ es = EntriesOf(klines, klines[n].module)
          BY <3>6 DEF LineSource
        <4>2. PICK m : m = klines[n].module
          OBVIOUS
        <4>3. LineSymbols(m) = syms
          BY <2>1, <2>3, <3>3, <4>1, <4>2, LineEntries
        <4>4. m \in Mods(p)
          BY <2>2, <4>1, <4>2
        <4> HIDE DEF Mods, Kos
        <4> QED BY <3>4, <4>3, <4>4
      <3> QED BY <2>3, <3>2, <3>5, <3>6 DEF Source
    <2>4. ASSUME faults = 0, pc = "cleanup"
          PROVE  /\ \A b \in Range(bos) : b.kofnm \in DOMAIN Objects => IsImage(files[b.sofnm])
                 /\ \A l \in Range(klines) : \E p \in DOMAIN files : p = KPath(l.module) /\ IsImage(files[p])
      <3>1. /\ \A n \in 1..Len(bos) : bos[n].kofnm \in DOMAIN Objects => bos[n].sofnm \in Done
            /\ \A n \in 1..Len(klines) : KPath(klines[n].module) \in Done
        BY <2>1, <2>4 DEF Complete, Late
      <3>2. \A b \in Range(bos) : b.kofnm \in DOMAIN Objects => IsImage(files[b.sofnm])
        BY <2>2, <3>1, Zenon DEF Done
      <3>3. \A l \in Range(klines) : \E p \in DOMAIN files : p = KPath(l.module) /\ IsImage(files[p])
        BY <2>2, <3>1, Zenon DEF Done
      <3> QED BY <3>2, <3>3
    <2>5. \A p : Sources(p) = {KoSymbols(b.kofnm) : b \in {c \in Range(bos) : c.sofnm = p /\ c.kofnm \in DOMAIN Objects}}
            \cup {LineSymbols(m) : m \in {l.module : l \in {k \in Range(klines) :
                     p = <<kdir, <<IF k.module = None THEN "kern" ELSE k.module, "">>>>}}}
      BY Zenon DEF KPath
    <2> HIDE DEF Sources
    <2> QED BY <2>3, <2>4, <2>5, Zenon DEF LibsRight, Read, KPath
  <1> QED BY <1>1, SoundAlways, PTL

(* No name is put past the end of a string table, no option, symbol or     *)
(* module past the end of its array, and the links of a library's hash     *)
(* table are symbols of the library.                                       *)
THEOREM NothingOverruns == Spec => []Inside
  <1>1. Sound => Inside
    <2> SUFFICES ASSUME Sound PROVE Inside
      OBVIOUS
    <2>1. Arrays /\ Symbols /\ Libraries
      BY DEF Sound
    <2>2. ASSUME NEW p \in DOMAIN files, IsImage(files[p])
          PROVE  /\ files[p][2].top <= files[p][2].buf
                 /\ \A k \in DOMAIN HashWalk(files[p][2]) :
                       HashWalk(files[p][2])[k] \in 0..Len(files[p][2].dynsym)
      <3>1. files[p] \notin {<<"empty">>, <<"torn">>}
        BY <2>2 DEF IsImage
      <3>2. PICK es \in Seq(Entry) : Image(files[p], es)
        BY <2>1, <3>1 DEF Libraries
      <3>3. PICK len, img : len = nmstrlen(es) /\ img = elf_image(es, len)
        OBVIOUS
      <3>4. files[p][2] = img
        BY <3>2, <3>3 DEF Image
      <3>5. img.top = len + 1 /\ img.buf = len + 1 /\ Len(img.dynsym) = Len(es)
        BY <3>3, ImageReads
      <3>6. len \in Nat /\ Len(es) \in Nat
        <4>1. PICK n : LensSteps(n, es) /\ nmstrlen(es) = n[Len(es)]
          BY LensIs
        <4> QED BY <3>3, <4>1 DEF LensSteps
      <3>7. HashWalk(img) = [k \in 0..(Len(es) + 1) |-> 0]
        BY <3>3, WalkEnds
      <3>8. \A k \in DOMAIN HashWalk(img) : HashWalk(img)[k] \in 0..Len(img.dynsym)
        BY <3>5, <3>6, <3>7
      <3> QED BY <3>4, <3>5, <3>6, <3>8
    <2>3. \A m \in Range(mods) \cup {kern} : Len(m.entries) <= m.max
      <3>1. \A m \in Range(mods) : \E n \in 1..Len(mods) : m = mods[n]
        BY <2>1 DEF Symbols, Range
      <3> QED BY <2>1, <3>1 DEF Symbols
    <2>4. Len(dirs) <= dirmax /\ Len(kospec) <= kospecmax
      BY <2>1 DEF Arrays
    <2> QED BY <2>2, <2>3, <2>4, Zenon DEF Inside
  <1> QED BY <1>1, SoundAlways, PTL
=============================================================================
