-------------------------- MODULE SampleStreamProofs -------------------------
(***************************************************************************)
(* What the lookups of a sample stream find, for every stream: the lemmas  *)
(* the proofs about the sending and the receiving handle share.            *)
(***************************************************************************)
EXTENDS SampleStream, Recursion

(* A set of numbers up to n has a greatest one.                             *)
LEMMA GreatestExists ==
  ASSUME NEW n \in Nat, NEW S \in SUBSET (0..n), S # {}
  PROVE  Max(S) \in S /\ \A x \in S : x <= Max(S)
<1> DEFINE HasMax(T) == \E x \in T : \A y \in T : x >= y
           D == {m \in Nat : \A T \in SUBSET (0..m) : T # {} => HasMax(T)}
<1>1. 0 \in D
  <2> SUFFICES ASSUME NEW T \in SUBSET (0..0), T # {} PROVE HasMax(T)
    OBVIOUS
  <2>1. PICK x \in T : TRUE
    OBVIOUS
  <2>2. \A y \in T : y \in Nat /\ y = 0
    OBVIOUS
  <2> QED BY <2>1, <2>2
<1>2. ASSUME NEW m \in D PROVE m + 1 \in D
  <2> SUFFICES ASSUME NEW T \in SUBSET (0..(m + 1)), T # {} PROVE HasMax(T)
    OBVIOUS
  <2>1. CASE m + 1 \in T
    BY <2>1
  <2>2. CASE m + 1 \notin T
    <3>1. T \in SUBSET (0..m)
      BY <2>2
    <3> QED BY <3>1
  <2> QED BY <2>1, <2>2
<1>3. D \in SUBSET Nat
  OBVIOUS
<1> HIDE DEF D
<1>4. D = Nat
  BY <1>1, <1>2, <1>3, SetInduction
<1>5. HasMax(S)
  BY <1>4 DEF D
<1>6. Max(S) = CHOOSE x \in S : \A y \in S : x >= y
  BY DEF Max
<1> QED BY <1>5, <1>6

(* find_free_gof: one past the last GoF that has a unit of the type.        *)
LEMMA FreeGof ==
  ASSUME NEW s, Len(s) \in Nat, NEW t
  PROVE  LET k == FindFreeGof(s, t)
         IN /\ k \in 1..(Len(s) + 1)
            /\ k > 1 => t \in DOMAIN s[k - 1].units
            /\ \A j \in k..Len(s) : t \notin DOMAIN s[j].units
<1> DEFINE have == {k \in 1..Len(s) : t \in DOMAIN s[k].units}  S == {0} \cup have
<1>1. S \in SUBSET (0..Len(s)) /\ S # {}
  OBVIOUS
<1>2. \A j \in 1..Len(s) : t \in DOMAIN s[j].units => j \in S
  OBVIOUS
<1>3. \A j \in S : j # 0 => j \in 1..Len(s) /\ t \in DOMAIN s[j].units
  OBVIOUS
<1>4. FindFreeGof(s, t) = 1 + Max(S)
  BY DEF FindFreeGof
<1> HIDE DEF S
<1>5. Max(S) \in S /\ \A x \in S : x <= Max(S)
  BY <1>1, GreatestExists
<1> DEFINE n == Max(S)
<1>6. n \in 0..Len(s) /\ n \in S
  BY <1>1, <1>5
<1> HIDE DEF n
<1>7. 1 + n \in 1..(Len(s) + 1) /\ (1 + n) - 1 = n
  BY <1>6
<1>8. 1 + n > 1 => t \in DOMAIN s[n].units
  BY <1>3, <1>6
<1>9. \A j \in (1 + n)..Len(s) : t \notin DOMAIN s[j].units
  <2> SUFFICES ASSUME NEW j \in (1 + n)..Len(s), t \in DOMAIN s[j].units PROVE FALSE
    OBVIOUS
  <2>1. j \in 1..Len(s) /\ j > n
    BY <1>6
  <2>2. j <= n
    BY <1>2, <1>5, <2>1 DEF n
  <2> QED BY <2>1, <2>2, <1>6
<1> QED BY <1>4, <1>7, <1>8, <1>9 DEF n

(* find_timestamp: a GoF that has the timestamp, or none.                   *)
LEMMA FoundGof ==
  ASSUME NEW s, Len(s) \in Nat, NEW ts
  PROVE  LET k == FindTimestamp(s, ts)
         IN k \in 1..(Len(s) + 1) /\ (k <= Len(s) => TsOf(s[k].ts) = ts)
<1> DEFINE at == {k \in 2..Len(s) : TsOf(s[k].ts) = ts}
<1>1. ASSUME at # {} PROVE Max(at) \in at
  <2>1. at \in SUBSET (0..Len(s))
    OBVIOUS
  <2> HIDE DEF at
  <2> QED BY <1>1, <2>1, GreatestExists
<1>2. CASE s = <<>> \/ ~ InRange(s, ts)
  <2>1. FindTimestamp(s, ts) = Len(s) + 1
    BY <1>2 DEF FindTimestamp
  <2> QED BY <2>1
<1>3. CASE ~ (s = <<>> \/ ~ InRange(s, ts)) /\ ts = FrontTs(s)
  <2>1. FindTimestamp(s, ts) = 1 /\ TsOf(s[1].ts) = ts
    BY <1>3 DEF FindTimestamp, FrontTs
  <2> QED BY <2>1
<1>4. CASE ~ (s = <<>> \/ ~ InRange(s, ts)) /\ ts # FrontTs(s)
  <2>1. FindTimestamp(s, ts) = IF at = {} THEN Len(s) + 1 ELSE Max(at)
    BY <1>4 DEF FindTimestamp
  <2>2. CASE at = {}
    <3>1. FindTimestamp(s, ts) = Len(s) + 1
      BY <2>1, <2>2
    <3> QED BY <3>1
  <2>3. CASE at # {}
    <3> DEFINE k == FindTimestamp(s, ts)
    <3>1. k \in at
      BY <1>1, <2>1, <2>3
    <3> HIDE DEF k
    <3>2. k \in 2..Len(s) /\ TsOf(s[k].ts) = ts
      BY <3>1
    <3> QED BY <3>2 DEF k
  <2> QED BY <2>2, <2>3
<1> QED BY <1>2, <1>3, <1>4
=============================================================================
