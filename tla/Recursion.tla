------------------------------ MODULE Recursion ------------------------------
(***************************************************************************)
(* Loops as recursive functions: f[0] is the state before the loop, f[k]   *)
(* the state after k rounds.  These lemmas say that such a function exists *)
(* and what its values keep, for loops of any length.                      *)
(***************************************************************************)
EXTENDS Naturals, FiniteSetTheorems, TLAPS

(* Induction over the naturals, for a set given as such.                    *)
LEMMA SetInduction ==
  ASSUME NEW S \in SUBSET Nat, 0 \in S, \A m \in S : m + 1 \in S
  PROVE  S = Nat
<1> SUFFICES ASSUME NEW m \in Nat, m \notin S PROVE FALSE
  OBVIOUS
<1> DEFINE D == S \cap (0..m)
           T == D \ {0}
           f == [i \in D |-> i + 1]
<1>1. IsFiniteSet(D)
  <2>1. IsFiniteSet(0..m)
    BY FS_Interval
  <2> QED BY <2>1, FS_Subset
<1>2. IsFiniteSet(T) /\ Cardinality(T) = Cardinality(D) - 1
  <2>1. 0 \in D
    OBVIOUS
  <2> HIDE DEF D
  <2> QED BY <1>1, <2>1, FS_RemoveElement
<1>3. Cardinality(T) < Cardinality(D)
  BY <1>1, <1>2, FS_CardinalityType
<1>4. f \in [D -> T]
  <2>1. ASSUME NEW i \in D PROVE i + 1 \in T
    <3>1. i \in Nat /\ i <= m /\ i # m
      OBVIOUS
    <3>2. i + 1 \in 0..m /\ i + 1 # 0
      BY <3>1
    <3> QED BY <3>2
  <2> QED BY <2>1
<1>5. \A x, y \in D : f[x] = f[y] => x = y
  OBVIOUS
<1> HIDE DEF T, f, D
<1>6. \E x, y \in D : x # y /\ f[x] = f[y]
  BY <1>1, <1>2, <1>3, <1>4, FS_PigeonHole
<1> QED BY <1>5, <1>6

(* What holds before a loop, and after a round if it held before it, holds  *)
(* after every round.                                                       *)
LEMMA Rounds ==
  ASSUME NEW m \in Nat, NEW f, NEW S,
         f[0] \in S[0], \A k \in 1..m : f[k - 1] \in S[k - 1] => f[k] \in S[k]
  PROVE  \A k \in 0..m : f[k] \in S[k]
<1> DEFINE D == {k \in Nat : k <= m => f[k] \in S[k]}
<1>1. 0 \in D
  OBVIOUS
<1>2. ASSUME NEW k \in D PROVE k + 1 \in D
  <2> SUFFICES ASSUME k + 1 <= m PROVE f[k + 1] \in S[k + 1]
    OBVIOUS
  <2>1. k + 1 \in 1..m /\ (k + 1) - 1 = k /\ f[k] \in S[k]
    OBVIOUS
  <2> QED BY <2>1
<1>3. D \in SUBSET Nat
  OBVIOUS
<1> HIDE DEF D
<1>4. D = Nat
  BY <1>1, <1>2, <1>3, SetInduction
<1> QED BY <1>4 DEF D

(* The same for one set of states.                                          *)
LEMMA Stays ==
  ASSUME NEW m \in Nat, NEW f, NEW S, f[0] \in S, \A k \in 1..m : f[k - 1] \in S => f[k] \in S
  PROVE  \A k \in 0..m : f[k] \in S
<1> DEFINE T == [k \in 0..m |-> S]
<1>1. \A k \in 0..m : T[k] = S
  OBVIOUS
<1>2. 0 \in 0..m /\ \A k \in 1..m : k - 1 \in 0..m /\ k \in 0..m
  OBVIOUS
<1> HIDE DEF T
<1>3. f[0] \in T[0] /\ \A k \in 1..m : f[k - 1] \in T[k - 1] => f[k] \in T[k]
  BY <1>1, <1>2
<1> QED BY <1>1, <1>3, Rounds

(* g is a loop of m rounds over the states S: round k is F[k].               *)
Loop(g, m, S, s, F) ==
  g \in [0..m -> S] /\ g[0] = s /\ \A k \in 1..m : g[k] = F[k][g[k - 1]]

(* Whatever its rounds do, there is one.                                    *)
LEMMA LoopExists ==
  ASSUME NEW m \in Nat, NEW S, NEW s \in S, NEW F \in [1..m -> [S -> S]]
  PROVE  \E g : Loop(g, m, S, s, F)
<1> DEFINE D == {n \in Nat : n <= m => \E g : Loop(g, n, S, s, F)}
<1>1. 0 \in D
  <2>1. Loop([k \in 0..0 |-> s], 0, S, s, F)
    BY DEF Loop
  <2> QED BY <2>1
<1>2. ASSUME NEW n \in D PROVE n + 1 \in D
  <2> SUFFICES ASSUME n + 1 <= m PROVE \E g : Loop(g, n + 1, S, s, F)
    OBVIOUS
  <2>1. PICK g : Loop(g, n, S, s, F)
    OBVIOUS
  <2> DEFINE h == [k \in 0..(n + 1) |-> IF k = n + 1 THEN F[n + 1][g[n]] ELSE g[k]]
  <2>2. g \in [0..n -> S] /\ g[0] = s /\ \A k \in 1..n : g[k] = F[k][g[k - 1]]
    BY <2>1 DEF Loop
  <2>3. g[n] \in S /\ n + 1 \in 1..m
    BY <2>2
  <2>4. F[n + 1][g[n]] \in S
    BY <2>3
  <2>5. h \in [0..(n + 1) -> S] /\ h[0] = s
    BY <2>2, <2>4
  <2>6. ASSUME NEW k \in 1..(n + 1) PROVE h[k] = F[k][h[k - 1]]
    <3>1. k - 1 \in 0..(n + 1) /\ k - 1 # n + 1 /\ h[k - 1] = g[k - 1]
      OBVIOUS
    <3>2. CASE k = n + 1
      BY <3>1, <3>2
    <3>3. CASE k # n + 1
      <4>1. k \in 1..n /\ h[k] = g[k]
        BY <3>3
      <4> HIDE DEF h
      <4> QED BY <2>2, <3>1, <4>1
    <3> QED BY <3>2, <3>3
  <2> HIDE DEF h
  <2>7. Loop(h, n + 1, S, s, F)
    BY <2>5, <2>6 DEF Loop
  <2> QED BY <2>7
<1>3. D \in SUBSET Nat
  OBVIOUS
<1> HIDE DEF D
<1>4. D = Nat
  BY <1>1, <1>2, <1>3, SetInduction
<1>5. m \in D /\ m <= m
  BY <1>4
<1> QED BY <1>5 DEF D
=============================================================================
