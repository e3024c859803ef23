------------------------- MODULE UnitAssemblyProofs -------------------------
(***************************************************************************)
(* What a call of receive_v3c_unit makes of the NALUs it is offered, one   *)
(* pass of the loop at a time: the recursive definition of UnitAssembly    *)
(* unfolded, for any NALUs, any expected size and any buffer.              *)
(***************************************************************************)
EXTENDS UnitAssembly, Recursion, SequenceTheorems

(* The function that the recursive definition of Passes chooses.            *)
Unfolds(g, m, n, b, q) ==
  g = [k \in 0..m |-> IF k = 0 THEN NewCall ELSE TakeNalu(g[k - 1], n, b, q[k])]

(* It exists for every number of passes.                                    *)
LEMMA PassesExist ==
  ASSUME NEW n, NEW b, NEW q, NEW m \in Nat
  PROVE  \E g : Unfolds(g, m, n, b, q)
<1> DEFINE S == {i \in Nat : \E g : Unfolds(g, i, n, b, q)}
<1>1. 0 \in S
  <2>1. Unfolds([k \in 0..0 |-> NewCall], 0, n, b, q)
    BY DEF Unfolds
  <2> QED BY <2>1
<1>2. ASSUME NEW i \in S PROVE i + 1 \in S
  <2>1. PICK g : Unfolds(g, i, n, b, q)
    OBVIOUS
  <2> DEFINE h == [k \in 0..(i + 1) |->
                     IF k = i + 1 THEN TakeNalu(g[i], n, b, q[i + 1]) ELSE g[k]]
  <2>2. \A k \in 0..i : h[k] = g[k]
    OBVIOUS
  <2>3. \A k \in 0..i :
          g[k] = IF k = 0 THEN NewCall ELSE TakeNalu(g[k - 1], n, b, q[k])
    BY <2>1 DEF Unfolds
  <2>4. ASSUME NEW k \in 0..(i + 1)
        PROVE  h[k] = IF k = 0 THEN NewCall ELSE TakeNalu(h[k - 1], n, b, q[k])
    <3>1. CASE k = i + 1
      BY <2>2, <3>1
    <3>2. CASE k # i + 1
      <4>1. k \in 0..i /\ (k # 0 => k - 1 \in 0..i)
        BY <3>2
      <4>2. h[k] = g[k] /\ (k # 0 => h[k - 1] = g[k - 1])
        BY <2>2, <4>1
      <4> HIDE DEF h
      <4> QED BY <2>3, <4>1, <4>2
    <3> QED BY <3>1, <3>2
  <2>5. h = [k \in 0..(i + 1) |-> h[k]]
    OBVIOUS
  <2> HIDE DEF h
  <2>6. Unfolds(h, i + 1, n, b, q)
    BY <2>4, <2>5 DEF Unfolds
  <2> QED BY <2>6
<1> HIDE DEF S
<1>3. S \in SUBSET Nat
  BY DEF S
<1>4. S = Nat
  BY <1>1, <1>2, <1>3, SetInduction
<1> QED BY <1>4 DEF S

(* The recursive function is equal to its body.                             *)
LEMMA PassesUnfold ==
  ASSUME NEW n, NEW b, NEW q, Len(q) \in Nat
  PROVE  /\ Passes(n, b, q)[0] = NewCall
         /\ \A k \in 1..Len(q) :
              Passes(n, b, q)[k] = TakeNalu(Passes(n, b, q)[k - 1], n, b, q[k])
<1> DEFINE f == Passes(n, b, q)
<1>1. f = CHOOSE g : Unfolds(g, Len(q), n, b, q)
  BY DEF Passes, Unfolds
<1>2. \E g : Unfolds(g, Len(q), n, b, q)
  BY PassesExist
<1>3. Unfolds(f, Len(q), n, b, q)
  BY <1>1, <1>2
<1> HIDE DEF f
<1>4. \A k \in 0..Len(q) :
          f[k] = IF k = 0 THEN NewCall ELSE TakeNalu(f[k - 1], n, b, q[k])
  BY <1>3 DEF Unfolds
<1> QED BY <1>4 DEF f

(* The first passes depend on the first NALUs only.                         *)
LEMMA PassesAgree ==
  ASSUME NEW n, NEW b, NEW p, NEW q, Len(p) \in Nat, Len(q) \in Nat, Len(p) <= Len(q),
         \A i \in 1..Len(p) : p[i] = q[i]
  PROVE  \A k \in 0..Len(p) : Passes(n, b, p)[k] = Passes(n, b, q)[k]
<1> DEFINE f == Passes(n, b, p)  g == Passes(n, b, q)
           S == {k \in Nat : k <= Len(p) => f[k] = g[k]}
<1>1. /\ f[0] = NewCall /\ g[0] = NewCall
      /\ \A k \in 1..Len(p) : f[k] = TakeNalu(f[k - 1], n, b, p[k])
      /\ \A k \in 1..Len(q) : g[k] = TakeNalu(g[k - 1], n, b, q[k])
  BY PassesUnfold
<1> HIDE DEF f, g
<1>2. 0 \in S
  BY <1>1
<1>3. ASSUME NEW k \in S PROVE k + 1 \in S
  <2> SUFFICES ASSUME k + 1 <= Len(p) PROVE f[k + 1] = g[k + 1]
    OBVIOUS
  <2>1. k + 1 \in 1..Len(p) /\ k + 1 \in 1..Len(q) /\ (k + 1) - 1 = k /\ f[k] = g[k]
    OBVIOUS
  <2>2. f[k + 1] = TakeNalu(f[k], n, b, p[k + 1]) /\ g[k + 1] = TakeNalu(g[k], n, b, q[k + 1])
    BY <1>1, <2>1
  <2> QED BY <2>1, <2>2
<1>4. S \in SUBSET Nat
  OBVIOUS
<1> HIDE DEF S
<1>5. S = Nat
  BY <1>2, <1>3, <1>4, SetInduction
<1> QED BY <1>5 DEF S, f, g

(* A call that was offered one NALU more has made one pass more.            *)
LEMMA LastPassAppend ==
  ASSUME NEW n, NEW b, NEW S, NEW q \in Seq(S), NEW e \in S
  PROVE  /\ LastPass(n, b, <<>>) = NewCall
         /\ LastPass(n, b, Append(q, e)) = TakeNalu(LastPass(n, b, q), n, b, e)
<1>1. LastPass(n, b, <<>>) = NewCall
  <2>1. Len(<<>>) = 0
    OBVIOUS
  <2> QED BY <2>1, PassesUnfold DEF LastPass
<1> DEFINE r == Append(q, e)
<1>2. /\ Len(q) \in Nat /\ Len(r) = Len(q) + 1 /\ Len(r) \in Nat /\ Len(q) <= Len(r)
      /\ \A i \in 1..Len(q) : q[i] = r[i]
      /\ r[Len(r)] = e
  OBVIOUS
<1> HIDE DEF r
<1>3. Passes(n, b, q)[Len(q)] = Passes(n, b, r)[Len(q)]
  <2>1. Len(q) \in 0..Len(q)
    BY <1>2
  <2> QED BY <1>2, <2>1, PassesAgree
<1>4. Passes(n, b, r)[Len(r)] = TakeNalu(Passes(n, b, r)[Len(q)], n, b, e)
  <2>1. Len(r) \in 1..Len(r) /\ Len(r) - 1 = Len(q)
    BY <1>2
  <2> QED BY <1>2, <2>1, PassesUnfold
<1> QED BY <1>1, <1>3, <1>4 DEF LastPass, r

(* Once the loop is over, the NALUs that follow are not looked at.          *)
LEMMA LastPassOver ==
  ASSUME NEW n, NEW b, NEW S, NEW q \in Seq(S), NEW r \in Seq(S),
         LastPass(n, b, q).stopped \/ LastPass(n, b, q).received >= n
  PROVE  LastPass(n, b, q \o r) = LastPass(n, b, q)
<1> DEFINE t == q \o r  g == Passes(n, b, t)  c == LastPass(n, b, q)
           T == {k \in Nat : k <= Len(r) => g[Len(q) + k] = c}
<1>1. /\ Len(q) \in Nat /\ Len(r) \in Nat /\ Len(t) = Len(q) + Len(r) /\ Len(t) \in Nat
      /\ Len(q) <= Len(t) /\ \A i \in 1..Len(q) : q[i] = t[i]
  OBVIOUS
<1> HIDE DEF t
<1>2. g[Len(q)] = c
  <2>1. Len(q) \in 0..Len(q)
    BY <1>1
  <2> QED BY <1>1, <2>1, PassesAgree DEF LastPass
<1>3. \A k \in 1..Len(t) : g[k] = TakeNalu(g[k - 1], n, b, t[k])
  BY <1>1, PassesUnfold
<1>4. \A nalu : TakeNalu(c, n, b, nalu) = c
  BY DEF TakeNalu
<1> HIDE DEF g, c
<1>5. 0 \in T
  BY <1>1, <1>2
<1>6. ASSUME NEW k \in T PROVE k + 1 \in T
  <2> SUFFICES ASSUME k + 1 <= Len(r) PROVE g[Len(q) + (k + 1)] = c
    OBVIOUS
  <2>1. /\ Len(q) + (k + 1) \in 1..Len(t) /\ (Len(q) + (k + 1)) - 1 = Len(q) + k
        /\ g[Len(q) + k] = c
    BY <1>1
  <2> QED BY <1>3, <1>4, <2>1
<1>7. T \in SUBSET Nat
  OBVIOUS
<1> HIDE DEF T
<1>8. T = Nat
  BY <1>5, <1>6, <1>7, SetInduction
<1>9. g[Len(q) + Len(r)] = c
  BY <1>1, <1>8 DEF T
<1> QED BY <1>1, <1>9 DEF g, c, LastPass, t

(* NALUs with a timestamp of T; the locals of a call that is offered some.  *)
Stamped(P, T) == P \subseteq [id : Nat, ts : T] /\ Unset \notin T
Locals(P, T) ==
  [unit : [ts : T \cup {Unset}, nalus : Seq(P)], received : Nat, mismatch : BOOLEAN,
   taken : Nat, kept : Seq(P), stopped : BOOLEAN]

IdsIn(q) == {q[i].id : i \in DOMAIN q}
NoneTwiceIn(q) == \A i, j \in DOMAIN q : q[i].id = q[j].id => i = j

(* The unit is uniform; it has no timestamp only as long as nothing was     *)
(* taken up; every pass takes a NALU until the loop is over.                *)
UnitOk(u) ==
  /\ \A i \in DOMAIN u.nalus : u.nalus[i].ts = u.ts
  /\ u.nalus = <<>> <=> u.ts = Unset
TakesAll(c, k, n) ==
  /\ c.taken <= k /\ (c.taken < k => c.stopped \/ c.received >= n)
  /\ c.unit.nalus = <<>> => c.received = 0 /\ c.kept = <<>>
  /\ n = 0 => c.unit.nalus = <<>>
(* What was taken is in the unit or kept, and in one place only.            *)
Splits(c, q) ==
  /\ IdsIn(c.unit.nalus) \cup IdsIn(c.kept) \subseteq {q[i].id : i \in 1..c.taken}
  /\ IdsIn(c.unit.nalus) \cap IdsIn(c.kept) = {}
  /\ NoneTwiceIn(c.unit.nalus) /\ NoneTwiceIn(c.kept)

(* A NALU that is offered to a running loop joins the unit or is kept.      *)
Taken(c, d, e, P, T) ==
  /\ d \in Locals(P, T) /\ UnitOk(d.unit)
  /\ d.taken = c.taken + 1 /\ d.unit.nalus # <<>>
  /\ \/ d.unit.nalus = Append(c.unit.nalus, e) /\ d.kept = c.kept
     \/ d.unit = c.unit /\ d.kept = Append(c.kept, e)

(* The ids of a queue that a NALU is appended to.                           *)
LEMMA AppendIds ==
  ASSUME NEW P, NEW q \in Seq(P), NEW e \in P
  PROVE  /\ IdsIn(Append(q, e)) = IdsIn(q) \cup {e.id}
         /\ NoneTwiceIn(q) /\ e.id \notin IdsIn(q) => NoneTwiceIn(Append(q, e))
<1> DEFINE r == Append(q, e)
<1>1. /\ DOMAIN r = DOMAIN q \cup {Len(q) + 1} /\ Len(q) + 1 \notin DOMAIN q
      /\ r[Len(q) + 1] = e /\ \A i \in DOMAIN q : r[i] = q[i]
  OBVIOUS
<1> HIDE DEF r
<1>2. IdsIn(r) = IdsIn(q) \cup {e.id}
  BY <1>1 DEF IdsIn
<1>3. ASSUME NoneTwiceIn(q), e.id \notin IdsIn(q) PROVE NoneTwiceIn(r)
  BY <1>1, <1>3 DEF NoneTwiceIn, IdsIn
<1> QED BY <1>2, <1>3 DEF r

(* One pass of the loop takes the next NALU.                                *)
LEMMA TakeShape ==
  ASSUME NEW T, NEW P, Stamped(P, T), NEW c \in Locals(P, T), NEW n \in Nat, NEW b \in Nat,
         NEW e \in P, UnitOk(c.unit), ~ c.stopped, c.received < n
  PROVE  Taken(c, TakeNalu(c, n, b, e), e, P, T)
<1> DEFINE d == TakeNalu(c, n, b, e)
<1>1. /\ e = [id |-> e.id, ts |-> e.ts] /\ e.ts \in T /\ e.ts # Unset
      /\ c.unit.nalus \in Seq(P) /\ c.kept \in Seq(P) /\ c.taken \in Nat /\ c.received \in Nat
      /\ c.unit.ts \in T \cup {Unset} /\ c.mismatch \in BOOLEAN /\ c.stopped \in BOOLEAN
      /\ c.unit = [ts |-> c.unit.ts, nalus |-> c.unit.nalus]
      /\ c = [unit |-> c.unit, received |-> c.received, mismatch |-> c.mismatch,
              taken |-> c.taken, kept |-> c.kept, stopped |-> c.stopped]
  BY DEF Stamped, Locals
<1>2. CASE c.unit.ts \in {Unset, e.ts}
  <2> DEFINE q == Append(c.unit.nalus, e)
  <2>1. d = AcceptNalu(c, e)
    BY <1>1, <1>2 DEF TakeNalu
  <2>2. d = [unit |-> [ts |-> e.ts, nalus |-> q], received |-> c.received + 1, mismatch |-> FALSE,
             taken |-> c.taken + 1, kept |-> c.kept, stopped |-> c.stopped]
    BY <1>1, <2>1 DEF AcceptNalu
  <2>3. q \in Seq(P) /\ q # <<>> /\ DOMAIN q = DOMAIN c.unit.nalus \cup {Len(c.unit.nalus) + 1}
        /\ q[Len(c.unit.nalus) + 1] = e /\ \A i \in DOMAIN c.unit.nalus : q[i] = c.unit.nalus[i]
    BY <1>1
  <2>4. \A i \in DOMAIN q : q[i].ts = e.ts
    BY <1>1, <1>2, <2>3 DEF UnitOk
  <2> HIDE DEF q, d
  <2>5. d.unit.ts = e.ts /\ d.unit.nalus = q /\ d.taken = c.taken + 1 /\ d.kept = c.kept
    BY <2>2
  <2>6. d \in Locals(P, T)
    BY <1>1, <2>2, <2>3 DEF Locals
  <2>7. UnitOk(d.unit)
    BY <1>1, <2>3, <2>4, <2>5 DEF UnitOk
  <2> QED BY <2>3, <2>5, <2>6, <2>7 DEF q, d, Taken
<1>3. CASE c.unit.ts \notin {Unset, e.ts}
  <2> DEFINE stop == n = SizeMax /\ c.received > 0
             m == IF ~ stop /\ c.mismatch /\ c.taken + 1 >= b THEN c.received + 1 ELSE c.received
             q == Append(c.kept, e)
  <2>1. d = RejectNalu(c, n, b, e)
    BY <1>1, <1>3 DEF TakeNalu
  <2>2. d = [unit |-> c.unit, received |-> m, mismatch |-> TRUE,
             taken |-> c.taken + 1, kept |-> q, stopped |-> stop]
    BY <1>1, <2>1 DEF RejectNalu
  <2>3. q \in Seq(P) /\ m \in Nat /\ stop \in BOOLEAN
    BY <1>1
  <2>4. c.unit.nalus # <<>>
    BY <1>3 DEF UnitOk
  <2> HIDE DEF q, d, stop, m
  <2>5. d.unit = c.unit /\ d.taken = c.taken + 1 /\ d.kept = q
    BY <2>2
  <2>6. d \in Locals(P, T)
    BY <1>1, <2>2, <2>3 DEF Locals
  <2> QED BY <2>4, <2>5, <2>6 DEF q, d, Taken
<1> QED BY <1>2, <1>3

(* A pass copies no NALU.                                                   *)
LEMMA TakeSplits ==
  ASSUME NEW T, NEW P, Stamped(P, T), NEW c \in Locals(P, T), NEW n \in Nat, NEW b \in Nat,
         UnitOk(c.unit), ~ c.stopped, c.received < n,
         NEW q \in Seq(P), NoneTwiceIn(q), c.taken + 1 <= Len(q), Splits(c, q)
  PROVE  Splits(TakeNalu(c, n, b, q[c.taken + 1]), q)
<1> DEFINE m == c.taken + 1  e == q[m]  d == TakeNalu(c, n, b, e)
           A == IdsIn(c.unit.nalus)  K == IdsIn(c.kept)  B == {q[i].id : i \in 1..c.taken}
<1>1. /\ c.taken \in Nat /\ m \in 1..Len(q) /\ e \in P /\ 1..m = (1..c.taken) \cup {m}
      /\ Len(q) \in Nat /\ c.unit.nalus \in Seq(P) /\ c.kept \in Seq(P)
      /\ m \notin 1..c.taken /\ 1..c.taken \subseteq 1..Len(q) /\ DOMAIN q = 1..Len(q)
  BY DEF Locals
<1> HIDE DEF m
<1>2. {q[i].id : i \in 1..m} = B \cup {e.id}
  BY <1>1
<1>3. e.id \notin B
  BY <1>1 DEF NoneTwiceIn
<1>4. A \subseteq B /\ K \subseteq B /\ A \cap K = {}
      /\ NoneTwiceIn(c.unit.nalus) /\ NoneTwiceIn(c.kept)
  BY DEF Splits
<1>5. /\ d.taken = m
      /\ \/ d.unit.nalus = Append(c.unit.nalus, e) /\ d.kept = c.kept
         \/ d.unit = c.unit /\ d.kept = Append(c.kept, e)
  <2> HIDE DEF e
  <2>1. Taken(c, d, e, P, T)
    BY <1>1, TakeShape
  <2> QED BY <2>1 DEF Taken, m
<1>6. ASSUME NEW f \in Seq(P)
      PROVE  /\ IdsIn(Append(f, e)) = IdsIn(f) \cup {e.id}
             /\ NoneTwiceIn(f) /\ e.id \notin IdsIn(f) => NoneTwiceIn(Append(f, e))
  <2> HIDE DEF e
  <2> QED BY <1>1, AppendIds
<1>7. CASE d.unit.nalus = Append(c.unit.nalus, e) /\ d.kept = c.kept
  <2> HIDE DEF d, e, B
  <2>1. /\ IdsIn(d.unit.nalus) = A \cup {e.id} /\ IdsIn(d.kept) = K
        /\ NoneTwiceIn(d.unit.nalus) /\ NoneTwiceIn(d.kept)
    BY <1>1, <1>3, <1>4, <1>6, <1>7
  <2> HIDE DEF A, K
  <2> QED BY <1>2, <1>3, <1>4, <1>5, <2>1 DEF Splits, d, e, m
<1>8. CASE d.unit = c.unit /\ d.kept = Append(c.kept, e)
  <2> HIDE DEF d, e, B
  <2>1. /\ IdsIn(d.unit.nalus) = A /\ IdsIn(d.kept) = K \cup {e.id}
        /\ NoneTwiceIn(d.unit.nalus) /\ NoneTwiceIn(d.kept)
    BY <1>1, <1>3, <1>4, <1>6, <1>8
  <2> HIDE DEF A, K
  <2> QED BY <1>2, <1>3, <1>4, <1>5, <2>1 DEF Splits, d, e, m
<1> QED BY <1>5, <1>7, <1>8

(* What was taken is in the unit or kept; nothing is dropped.               *)
Covers(c, q) == {q[i].id : i \in 1..c.taken} \subseteq IdsIn(c.unit.nalus) \cup IdsIn(c.kept)

LEMMA TakeCovers ==
  ASSUME NEW T, NEW P, Stamped(P, T), NEW c \in Locals(P, T), NEW n \in Nat, NEW b \in Nat,
         UnitOk(c.unit), ~ c.stopped, c.received < n,
         NEW q \in Seq(P), c.taken + 1 <= Len(q), Covers(c, q)
  PROVE  Covers(TakeNalu(c, n, b, q[c.taken + 1]), q)
<1> DEFINE m == c.taken + 1  e == q[m]  d == TakeNalu(c, n, b, e)
           A == IdsIn(c.unit.nalus)  K == IdsIn(c.kept)  B == {q[i].id : i \in 1..c.taken}
<1>1. /\ c.taken \in Nat /\ m \in 1..Len(q) /\ e \in P /\ 1..m = (1..c.taken) \cup {m}
      /\ c.unit.nalus \in Seq(P) /\ c.kept \in Seq(P)
  BY DEF Locals
<1> HIDE DEF m
<1>2. {q[i].id : i \in 1..m} = B \cup {e.id} /\ B \subseteq A \cup K
  BY <1>1 DEF Covers
<1>3. /\ d.taken = m
      /\ \/ d.unit.nalus = Append(c.unit.nalus, e) /\ d.kept = c.kept
         \/ d.unit = c.unit /\ d.kept = Append(c.kept, e)
  <2> HIDE DEF e
  <2>1. Taken(c, d, e, P, T)
    BY <1>1, TakeShape
  <2> QED BY <2>1 DEF Taken, m
<1>4. \A f \in Seq(P) : IdsIn(Append(f, e)) = IdsIn(f) \cup {e.id}
  <2> HIDE DEF e
  <2> QED BY <1>1, AppendIds
<1> HIDE DEF d, e, B
<1>5. IdsIn(d.unit.nalus) \cup IdsIn(d.kept) = A \cup K \cup {e.id}
  BY <1>1, <1>3, <1>4
<1> HIDE DEF A, K
<1> QED BY <1>2, <1>3, <1>5 DEF Covers, d, e, m

(* What holds of the locals after k passes over q.                          *)
Handled(c, k, n, q, P, T) ==
  /\ c \in Locals(P, T) /\ UnitOk(c.unit) /\ TakesAll(c, k, n) /\ Covers(c, q)
  /\ NoneTwiceIn(q) => Splits(c, q)

(* A pass that is over leaves the locals as they are.                       *)
LEMMA PassHandles ==
  ASSUME NEW T, NEW P, Stamped(P, T), NEW n \in Nat, NEW b \in Nat, NEW q \in Seq(P),
         NEW k \in 1..Len(q), NEW c, Handled(c, k - 1, n, q, P, T)
  PROVE  Handled(TakeNalu(c, n, b, q[k]), k, n, q, P, T)
<1>1. /\ c \in Locals(P, T) /\ UnitOk(c.unit) /\ TakesAll(c, k - 1, n) /\ Covers(c, q)
      /\ NoneTwiceIn(q) => Splits(c, q)
  BY DEF Handled
<1>2. /\ c.taken \in Nat /\ c.received \in Nat /\ c.stopped \in BOOLEAN /\ k - 1 \in Nat
      /\ q[k] \in P /\ k \in Nat /\ k <= Len(q) /\ Len(q) \in Nat
  BY <1>1 DEF Locals
<1>3. CASE c.stopped \/ c.received >= n
  <2>1. TakeNalu(c, n, b, q[k]) = c
    BY <1>3 DEF TakeNalu
  <2>2. TakesAll(c, k, n)
    BY <1>1, <1>2, <1>3 DEF TakesAll
  <2> QED BY <1>1, <2>1, <2>2 DEF Handled
<1>4. CASE ~ (c.stopped \/ c.received >= n)
  <2> DEFINE d == TakeNalu(c, n, b, q[k])
  <2>1. c.taken = k - 1 /\ c.taken + 1 = k /\ ~ c.stopped /\ c.received < n
    BY <1>1, <1>2, <1>4 DEF TakesAll
  <2>2. d \in Locals(P, T) /\ UnitOk(d.unit) /\ d.taken = c.taken + 1 /\ d.unit.nalus # <<>>
    <3> DEFINE e == q[k]
    <3>1. e \in P
      BY <1>2
    <3> HIDE DEF e
    <3>2. Taken(c, TakeNalu(c, n, b, e), e, P, T)
      BY <1>1, <2>1, <3>1, TakeShape
    <3> QED BY <3>2 DEF e, Taken
  <2>3. Covers(d, q) /\ (NoneTwiceIn(q) => Splits(d, q))
    <3>1. c.taken + 1 <= Len(q)
      BY <1>2, <2>1
    <3>2. NoneTwiceIn(q) => Splits(TakeNalu(c, n, b, q[c.taken + 1]), q)
      BY <1>1, <2>1, <3>1, TakeSplits
    <3>3. Covers(TakeNalu(c, n, b, q[c.taken + 1]), q)
      BY <1>1, <2>1, <3>1, TakeCovers
    <3> QED BY <2>1, <3>2, <3>3
  <2> HIDE DEF d
  <2>4. TakesAll(d, k, n)
    BY <1>2, <2>1, <2>2 DEF TakesAll
  <2> QED BY <2>2, <2>3, <2>4 DEF Handled, d
<1> QED BY <1>3, <1>4

(* The locals after all passes.                                             *)
LEMMA LastPassHandles ==
  ASSUME NEW T, NEW P, Stamped(P, T), NEW n \in Nat, NEW b \in Nat, NEW q \in Seq(P)
  PROVE  Handled(LastPass(n, b, q), Len(q), n, q, P, T)
<1> DEFINE f == Passes(n, b, q)
           S == [k \in 0..Len(q) |-> {c \in Locals(P, T) : Handled(c, k, n, q, P, T)}]
<1>1. Len(q) \in Nat
  OBVIOUS
<1>2. f[0] = NewCall /\ \A k \in 1..Len(q) : f[k] = TakeNalu(f[k - 1], n, b, q[k])
  BY <1>1, PassesUnfold
<1>3. Handled(NewCall, 0, n, q, P, T)
  <2>1. NewCall \in Locals(P, T)
    BY DEF NewCall, EmptyUnit, Locals
  <2>2. UnitOk(NewCall.unit) /\ TakesAll(NewCall, 0, n) /\ Covers(NewCall, q) /\ Splits(NewCall, q)
    BY DEF NewCall, EmptyUnit, UnitOk, TakesAll, Covers, Splits, IdsIn, NoneTwiceIn
  <2> QED BY <2>1, <2>2 DEF Handled
<1> HIDE DEF f
<1>4. \A k \in 0..Len(q) : \A c : c \in S[k] <=> Handled(c, k, n, q, P, T)
  BY DEF Handled
<1> HIDE DEF S
<1>5. f[0] \in S[0]
  BY <1>1, <1>2, <1>3, <1>4
<1>6. \A k \in 1..Len(q) : f[k - 1] \in S[k - 1] => f[k] \in S[k]
  <2> SUFFICES ASSUME NEW k \in 1..Len(q), f[k - 1] \in S[k - 1] PROVE f[k] \in S[k]
    OBVIOUS
  <2>1. k - 1 \in 0..Len(q) /\ k \in 0..Len(q)
    BY <1>1
  <2>2. Handled(f[k - 1], k - 1, n, q, P, T)
    BY <1>4, <2>1
  <2>3. Handled(f[k], k, n, q, P, T)
    BY <1>2, <2>2, PassHandles
  <2> QED BY <1>4, <2>1, <2>3
<1>7. \A k \in 0..Len(q) : f[k] \in S[k]
  BY <1>1, <1>5, <1>6, Rounds
<1>8. Len(q) \in 0..Len(q)
  BY <1>1
<1> QED BY <1>4, <1>7, <1>8 DEF LastPass, f

(* The ids of joined queues, and of a queue cut in two.                     *)
LEMMA JoinIds ==
  ASSUME NEW P, NEW x \in Seq(P), NEW y \in Seq(P)
  PROVE  /\ IdsIn(x \o y) = IdsIn(x) \cup IdsIn(y)
         /\ NoneTwiceIn(x \o y)
              <=> NoneTwiceIn(x) /\ NoneTwiceIn(y) /\ IdsIn(x) \cap IdsIn(y) = {}
<1> DEFINE q == x \o y  m == Len(x)
<1>1. /\ m \in Nat /\ Len(y) \in Nat /\ Len(q) = m + Len(y)
      /\ DOMAIN q = 1..(m + Len(y)) /\ DOMAIN x = 1..m /\ DOMAIN y = 1..Len(y)
      /\ \A i \in 1..m : q[i] = x[i]
      /\ \A i \in 1..Len(y) : q[m + i] = y[i]
  OBVIOUS
<1> HIDE DEF q, m
<1>2. \A i \in DOMAIN q : i \in DOMAIN x \/ (i - m \in DOMAIN y /\ m + (i - m) = i)
  BY <1>1
<1>3. \A i \in DOMAIN x : i \in DOMAIN q /\ q[i] = x[i]
  BY <1>1
<1>4. \A i \in DOMAIN y : m + i \in DOMAIN q /\ q[m + i] = y[i] /\ m + i \notin DOMAIN x
  BY <1>1
<1>5. IdsIn(q) = IdsIn(x) \cup IdsIn(y)
  <2>1. IdsIn(x) \subseteq IdsIn(q)
    BY <1>3 DEF IdsIn
  <2>2. IdsIn(y) \subseteq IdsIn(q)
    BY <1>4 DEF IdsIn
  <2>3. IdsIn(q) \subseteq IdsIn(x) \cup IdsIn(y)
    <3> SUFFICES ASSUME NEW i \in DOMAIN q PROVE q[i].id \in IdsIn(x) \cup IdsIn(y)
      BY DEF IdsIn
    <3>1. CASE i \in DOMAIN x
      BY <1>3, <3>1 DEF IdsIn
    <3>2. CASE i - m \in DOMAIN y /\ m + (i - m) = i
      BY <1>4, <3>2 DEF IdsIn
    <3> QED BY <1>2, <3>1, <3>2
  <2> QED BY <2>1, <2>2, <2>3
<1>6. ASSUME NoneTwiceIn(q) PROVE NoneTwiceIn(x) /\ NoneTwiceIn(y) /\ IdsIn(x) \cap IdsIn(y) = {}
  <2>1. NoneTwiceIn(x)
    BY <1>3, <1>6 DEF NoneTwiceIn
  <2>2. NoneTwiceIn(y)
    <3> SUFFICES ASSUME NEW i \in DOMAIN y, NEW j \in DOMAIN y, y[i].id = y[j].id PROVE i = j
      BY DEF NoneTwiceIn
    <3>1. m + i = m + j
      BY <1>4, <1>6 DEF NoneTwiceIn
    <3> QED BY <1>1, <3>1
  <2>3. IdsIn(x) \cap IdsIn(y) = {}
    <3> SUFFICES ASSUME NEW i \in DOMAIN x, NEW j \in DOMAIN y, x[i].id = y[j].id PROVE FALSE
      BY DEF IdsIn
    <3>1. i = m + j
      BY <1>3, <1>4, <1>6 DEF NoneTwiceIn
    <3> QED BY <1>4, <3>1
  <2> QED BY <2>1, <2>2, <2>3
<1>7. ASSUME NoneTwiceIn(x), NoneTwiceIn(y), IdsIn(x) \cap IdsIn(y) = {} PROVE NoneTwiceIn(q)
  <2> SUFFICES ASSUME NEW i \in DOMAIN q, NEW j \in DOMAIN q, q[i].id = q[j].id PROVE i = j
    BY DEF NoneTwiceIn
  <2>1. ASSUME NEW k \in DOMAIN q
        PROVE  \/ k \in DOMAIN x /\ q[k].id = x[k].id /\ q[k].id \in IdsIn(x)
               \/ k - m \in DOMAIN y /\ q[k].id = y[k - m].id /\ q[k].id \in IdsIn(y)
    <3>1. CASE k \in DOMAIN x
      BY <1>3, <3>1 DEF IdsIn
    <3>2. CASE k - m \in DOMAIN y /\ m + (k - m) = k
      <4>1. q[k] = y[k - m]
        BY <1>4, <3>2
      <4> QED BY <3>2, <4>1 DEF IdsIn
    <3> QED BY <1>2, <3>1, <3>2
  <2>2. \/ i \in DOMAIN x /\ j \in DOMAIN x /\ x[i].id = x[j].id
        \/ i - m \in DOMAIN y /\ j - m \in DOMAIN y /\ y[i - m].id = y[j - m].id
    BY <1>7, <2>1
  <2>3. i - m = j - m => i = j
    BY <1>1
  <2> QED BY <1>7, <2>2, <2>3 DEF NoneTwiceIn
<1> QED BY <1>5, <1>6, <1>7 DEF q

LEMMA DropIds ==
  ASSUME NEW P, NEW q \in Seq(P), NEW k \in Nat
  PROVE  /\ Drop(q, k) \in Seq(P) /\ IdsIn(Drop(q, k)) = {q[i].id : i \in (k + 1)..Len(q)}
         /\ NoneTwiceIn(q) => NoneTwiceIn(Drop(q, k))
<1> DEFINE r == Drop(q, k)
<1>1. Len(q) \in Nat /\ DOMAIN q = 1..Len(q) /\ \A i \in 1..Len(q) : q[i] \in P
  OBVIOUS
<1>2. CASE k > Len(q)
  <2>1. r = <<>>
    BY <1>1, <1>2, SubSeqEmpty DEF Drop
  <2>2. (k + 1)..Len(q) = {}
    BY <1>1, <1>2
  <2> HIDE DEF r
  <2>3. r \in Seq(P) /\ IdsIn(r) = {} /\ NoneTwiceIn(r)
    BY <2>1 DEF IdsIn, NoneTwiceIn
  <2> QED BY <2>2, <2>3 DEF r
<1>3. CASE k <= Len(q)
  <2>1. /\ r \in Seq(P) /\ DOMAIN r = 1..(Len(q) - k)
        /\ \A i \in 1..(Len(q) - k) : r[i] = q[k + i] /\ k + i \in (k + 1)..Len(q)
    <3>1. k + 1 \in 1..(Len(q) + 1) /\ \A i \in (k + 1)..Len(q) : q[i] \in P
      BY <1>1, <1>3
    <3>2. /\ r \in Seq(P) /\ Len(r) = Len(q) - k /\ \A i \in 1..(Len(q) - k) : r[i] = q[k + i]
      <4> DEFINE w == SubSeq(q, k + 1, Len(q))
      <4>1. w \in Seq(P) /\ Len(w) = Len(q) - k /\ \A i \in 1..(Len(q) - k) : w[i] = q[k + i]
        <5> DEFINE m == k + 1  n == Len(q)
        <5>1. m \in Int /\ n \in Int /\ \A i \in m..n : q[i] \in P
          BY <1>1, <1>3, <3>1
        <5>2. n \in Nat /\ k \in Nat /\ k <= n
          BY <1>1, <1>3
        <5> HIDE DEF n
        <5>3. n - m + 1 = n - k /\ (m <= n \/ n - k = 0)
          BY <5>2
        <5>4. \A i \in 1..(n - k) : m + i - 1 = k + i
          BY <5>2
        <5> HIDE DEF m
        <5>5. /\ SubSeq(q, m, n) \in Seq(P)
              /\ Len(SubSeq(q, m, n)) = IF m <= n THEN n - m + 1 ELSE 0
              /\ \A i \in 1..(n - m + 1) : SubSeq(q, m, n)[i] = q[m + i - 1]
          BY <5>1, SubSeqProperties
        <5>6. \A i \in 1..(n - k) : SubSeq(q, m, n)[i] = q[k + i]
          BY <5>5, <5>3, <5>4
        <5>7. Len(SubSeq(q, m, n)) = n - k
          BY <5>2, <5>5, <5>3
        <5> QED BY <5>5, <5>6, <5>7 DEF m, n
      <4>2. r = w
        BY DEF Drop
      <4> HIDE DEF r, w
      <4> QED BY <4>1, <4>2
    <3> HIDE DEF r
    <3> QED BY <1>1, <1>3, <3>2
  <2>2. \A i \in (k + 1)..Len(q) : i - k \in DOMAIN r /\ k + (i - k) = i
    BY <1>1, <1>3, <2>1
  <2> HIDE DEF r
  <2>3. IdsIn(r) = {q[i].id : i \in (k + 1)..Len(q)}
    <3>1. IdsIn(r) \subseteq {q[i].id : i \in (k + 1)..Len(q)}
      BY <2>1 DEF IdsIn
    <3>2. ASSUME NEW i \in (k + 1)..Len(q) PROVE q[i].id \in IdsIn(r)
      <4>1. r[i - k] = q[i]
        BY <2>1, <2>2
      <4> QED BY <2>2, <4>1 DEF IdsIn
    <3> QED BY <3>1, <3>2
  <2>4. NoneTwiceIn(q) => NoneTwiceIn(r)
    <3> SUFFICES ASSUME NoneTwiceIn(q), NEW i \in DOMAIN r, NEW j \in DOMAIN r, r[i].id = r[j].id
                 PROVE  i = j
      BY DEF NoneTwiceIn
    <3>1. k + i \in DOMAIN q /\ k + j \in DOMAIN q
      BY <1>1, <2>1
    <3>2. q[k + i] = r[i] /\ q[k + j] = r[j]
      BY <2>1
    <3>3. q[k + i].id = q[k + j].id
      BY <3>2
    <3>4. k + i = k + j
      BY <3>1, <3>3 DEF NoneTwiceIn
    <3> QED BY <2>1, <3>4
  <2> QED BY <2>1, <2>3, <2>4 DEF r
<1> QED BY <1>1, <1>2, <1>3

(* What a call makes of queues of such NALUs: a uniform unit, empty only    *)
(* when nothing was asked for, and queues of the rest; nothing is copied or *)
(* dropped, and the buffer of the VPS stays empty.                          *)
Assembled(r, t, n, buf, sock, P, T) ==
  /\ r.unit \in [ts : T \cup {Unset}, nalus : Seq(P)] /\ UnitOk(r.unit)
  /\ r.buffer \in Seq(P) /\ r.socket \in Seq(P) /\ r.timeout \in BOOLEAN
  /\ ~ r.timeout /\ n > 0 => r.unit.nalus # <<>>
  /\ t = VPS /\ buf = <<>> => r.buffer = <<>>
OnePlace(r, buf, sock) ==
  NoneTwiceIn(buf \o sock) =>
    /\ NoneTwiceIn(r.unit.nalus) /\ NoneTwiceIn(r.buffer \o r.socket)
    /\ IdsIn(r.unit.nalus) \cap IdsIn(r.buffer \o r.socket) = {}
    /\ IdsIn(r.unit.nalus) \cup IdsIn(r.buffer \o r.socket) \subseteq IdsIn(buf \o sock)
Retains(r, buf, sock) ==
  IdsIn(buf) \cup IdsIn(sock)
    \subseteq IdsIn(r.unit.nalus) \cup IdsIn(r.buffer) \cup IdsIn(r.socket)

(* The branch of the VPS, which has no NALU framing.                        *)
LEMMA VPSKeeps ==
  ASSUME NEW T, NEW P, Stamped(P, T), NEW n \in Nat, NEW buf \in Seq(P), NEW sock \in Seq(P)
  PROVE  /\ Assembled(AssembleVPS(buf, sock), VPS, n, buf, sock, P, T)
         /\ OnePlace(AssembleVPS(buf, sock), buf, sock)
         /\ Retains(AssembleVPS(buf, sock), buf, sock)
<1> DEFINE r == AssembleVPS(buf, sock)
<1>1. CASE sock = <<>>
  <2>1. r.unit = EmptyUnit /\ r.buffer = buf /\ r.socket = sock /\ r.timeout = TRUE
    BY <1>1 DEF AssembleVPS
  <2> HIDE DEF r
  <2>2. Assembled(r, VPS, n, buf, sock, P, T)
    <3>1. r.unit = [ts |-> Unset, nalus |-> <<>>] /\ <<>> \in Seq(P)
      BY <2>1 DEF EmptyUnit
    <3>2. r.unit \in [ts : T \cup {Unset}, nalus : Seq(P)] /\ UnitOk(r.unit)
      BY <3>1 DEF UnitOk
    <3>3. r.buffer \in Seq(P) /\ r.socket \in Seq(P) /\ r.buffer = buf
      BY <2>1
    <3> QED BY <2>1, <3>2, <3>3, Zenon DEF Assembled
  <2>3. OnePlace(r, buf, sock)
    BY <2>1 DEF OnePlace, EmptyUnit, NoneTwiceIn, IdsIn
  <2>4. Retains(r, buf, sock)
    BY <2>1 DEF Retains
  <2> QED BY <2>2, <2>3, <2>4 DEF r
<1>2. CASE sock # <<>>
  <2> DEFINE h == Head(sock)
  <2>1. r.unit = [ts |-> h.ts, nalus |-> <<h>>] /\ r.buffer = buf /\ r.socket = Tail(sock)
        /\ r.timeout = FALSE
    BY <1>2 DEF AssembleVPS
  <2>2. h \in P /\ Tail(sock) \in Seq(P) /\ <<h>> \in Seq(P) /\ sock = <<h>> \o Tail(sock)
        /\ <<h>> # <<>>
    BY <1>2
  <2>3. h.ts \in T /\ h.ts # Unset
    BY <2>2 DEF Stamped
  <2> HIDE DEF r, h
  <2>4. Assembled(r, VPS, n, buf, sock, P, T)
    <3>1. UnitOk(r.unit)
      BY <2>1, <2>2, <2>3 DEF UnitOk
    <3>2. r.unit \in [ts : T \cup {Unset}, nalus : Seq(P)] /\ r.unit.nalus # <<>>
      BY <2>1, <2>2, <2>3
    <3>3. r.buffer \in Seq(P) /\ r.socket \in Seq(P) /\ r.buffer = buf
      BY <2>1, <2>2
    <3> QED BY <2>1, <3>1, <3>2, <3>3, Zenon DEF Assembled
  <2>5. OnePlace(r, buf, sock)
    <3> DEFINE x == <<h>>  w == Tail(sock)  A == IdsIn(x)  B == IdsIn(buf)  C == IdsIn(w)
    <3> SUFFICES ASSUME NoneTwiceIn(buf \o sock)
                 PROVE  /\ NoneTwiceIn(x) /\ NoneTwiceIn(buf \o w)
                        /\ A \cap IdsIn(buf \o w) = {}
                        /\ A \cup IdsIn(buf \o w) \subseteq IdsIn(buf \o sock)
      BY <2>1 DEF OnePlace
    <3>0. x \in Seq(P) /\ w \in Seq(P) /\ sock = x \o w
      BY <2>2
    <3> HIDE DEF x, w
    <3>1. /\ IdsIn(sock) = A \cup C /\ IdsIn(buf \o sock) = B \cup IdsIn(sock)
          /\ IdsIn(buf \o w) = B \cup C
      <4>1. IdsIn(x \o w) = A \cup C
        BY <3>0, JoinIds
      <4>2. IdsIn(buf \o sock) = B \cup IdsIn(sock)
        BY JoinIds
      <4>3. IdsIn(buf \o w) = B \cup C
        BY <3>0, JoinIds
      <4> QED BY <3>0, <4>1, <4>2, <4>3
    <3>2. NoneTwiceIn(buf) /\ NoneTwiceIn(sock) /\ B \cap IdsIn(sock) = {}
      BY JoinIds
    <3>3. NoneTwiceIn(x) /\ NoneTwiceIn(w) /\ A \cap C = {}
      BY <3>0, <3>2, JoinIds
    <3> HIDE DEF A, B, C
    <3>4. B \cap C = {}
      BY <3>1, <3>2
    <3>5. NoneTwiceIn(buf \o w)
      BY <3>0, <3>2, <3>3, <3>4, JoinIds DEF B, C
    <3> QED BY <3>1, <3>2, <3>3, <3>5
  <2>6. Retains(r, buf, sock)
    <3> DEFINE x == <<h>>  w == Tail(sock)
    <3>1. x \in Seq(P) /\ w \in Seq(P) /\ sock = x \o w
      BY <2>2
    <3>2. r.unit.nalus = x /\ r.buffer = buf /\ r.socket = w
      BY <2>1
    <3> HIDE DEF x, w
    <3>3. IdsIn(x \o w) = IdsIn(x) \cup IdsIn(w)
      BY <3>1, JoinIds
    <3> QED BY <3>1, <3>2, <3>3 DEF Retains
  <2> QED BY <2>4, <2>5, <2>6 DEF r
<1> QED BY <1>1, <1>2

(* The loop over NALUs.                                                     *)
LEMMA NalusKeep ==
  ASSUME NEW T, NEW P, Stamped(P, T), NEW n \in Nat, NEW t,
         t = VPS => n = 0, NEW buf \in Seq(P), NEW sock \in Seq(P)
  PROVE  /\ Assembled(AssembleNalus(n, buf, sock), t, n, buf, sock, P, T)
         /\ OnePlace(AssembleNalus(n, buf, sock), buf, sock)
         /\ Retains(AssembleNalus(n, buf, sock), buf, sock)
<1> DEFINE r == AssembleNalus(n, buf, sock)  q == buf \o sock  c == LastPass(n, Len(buf), q)
           d == Drop(buf, c.taken)
           z == IF c.taken < Len(buf) THEN sock ELSE Drop(sock, c.taken - Len(buf))
<1>1. q \in Seq(P) /\ Len(buf) \in Nat /\ Len(sock) \in Nat /\ Len(q) = Len(buf) + Len(sock)
  OBVIOUS
<1>2. Handled(c, Len(q), n, q, P, T)
  <2> HIDE DEF q
  <2> QED BY <1>1, LastPassHandles
<1>3. r.unit = c.unit /\ r.buffer = d \o c.kept /\ r.socket = z
      /\ r.timeout = (c.received = 0 /\ n > 0)
  BY DEF AssembleNalus
<1>4. c \in Locals(P, T) /\ UnitOk(c.unit) /\ TakesAll(c, Len(q), n) /\ Covers(c, q)
      /\ (NoneTwiceIn(q) => Splits(c, q))
  BY <1>2 DEF Handled
<1> HIDE DEF c
<1>5. c.unit \in [ts : T \cup {Unset}, nalus : Seq(P)] /\ c.kept \in Seq(P) /\ c.taken \in Nat
      /\ c.received \in Nat /\ c.taken <= Len(q)
  BY <1>4 DEF Locals, TakesAll
<1>6. d \in Seq(P) /\ IdsIn(d) = {buf[i].id : i \in (c.taken + 1)..Len(buf)}
      /\ (NoneTwiceIn(buf) => NoneTwiceIn(d))
  BY <1>5, DropIds
<1>7. /\ z \in Seq(P) /\ (NoneTwiceIn(sock) => NoneTwiceIn(z))
      /\ IdsIn(z) = {sock[i].id : i \in {j \in 1..Len(sock) : Len(buf) + j > c.taken}}
  <2>1. CASE c.taken < Len(buf)
    <3>1. \A j \in 1..Len(sock) : Len(buf) + j > c.taken
      BY <1>1, <1>5, <2>1
    <3>2. 1..Len(sock) = DOMAIN sock
      OBVIOUS
    <3>3. {j \in 1..Len(sock) : Len(buf) + j > c.taken} = DOMAIN sock
      BY <3>1, <3>2
    <3> QED BY <2>1, <3>3 DEF IdsIn
  <2>2. CASE ~ (c.taken < Len(buf))
    <3>1. c.taken - Len(buf) \in Nat
      BY <1>1, <1>5, <2>2
    <3>2. (c.taken - Len(buf) + 1)..Len(sock) = {j \in 1..Len(sock) : Len(buf) + j > c.taken}
      BY <1>1, <1>5, <2>2
    <3> DEFINE m == c.taken - Len(buf)
    <3>3. Drop(sock, m) \in Seq(P) /\ IdsIn(Drop(sock, m)) = {sock[i].id : i \in (m + 1)..Len(sock)}
          /\ (NoneTwiceIn(sock) => NoneTwiceIn(Drop(sock, m)))
      BY <3>1, DropIds
    <3> QED BY <2>2, <3>2, <3>3
  <2> QED BY <2>1, <2>2
<1> HIDE DEF r, d, z
<1>8. Assembled(r, t, n, buf, sock, P, T)
  <2>1. r.buffer \in Seq(P)
    BY <1>3, <1>5, <1>6
  <2>2. r.timeout \in BOOLEAN
    BY <1>3
  <2>3. ~ r.timeout /\ n > 0 => r.unit.nalus # <<>>
    BY <1>3, <1>4 DEF TakesAll
  <2>4. t = VPS /\ buf = <<>> => r.buffer = <<>>
    <3> SUFFICES ASSUME t = VPS, buf = <<>> PROVE r.buffer = <<>>
      OBVIOUS
    <3>1. c.kept = <<>>
      BY <1>4 DEF TakesAll
    <3>2. d = <<>>
      BY <1>5, SubSeqEmpty DEF d, Drop
    <3> QED BY <1>3, <3>1, <3>2
  <2> QED BY <1>3, <1>4, <1>5, <1>7, <2>1, <2>2, <2>3, <2>4 DEF Assembled
<1>9. OnePlace(r, buf, sock)
  <2> DEFINE A == IdsIn(c.unit.nalus)  K == IdsIn(c.kept)  B == {q[i].id : i \in 1..c.taken}
             D == IdsIn(d)  Z == IdsIn(z)
  <2> SUFFICES ASSUME NoneTwiceIn(q)
               PROVE  /\ NoneTwiceIn(c.unit.nalus) /\ NoneTwiceIn((d \o c.kept) \o z)
                      /\ A \cap IdsIn((d \o c.kept) \o z) = {}
                      /\ A \cup IdsIn((d \o c.kept) \o z) \subseteq IdsIn(q)
    BY <1>3 DEF OnePlace
  <2>1. A \cup K \subseteq B /\ A \cap K = {} /\ NoneTwiceIn(c.unit.nalus) /\ NoneTwiceIn(c.kept)
    BY <1>4 DEF Splits
  <2>2. NoneTwiceIn(buf) /\ NoneTwiceIn(sock) /\ IdsIn(buf) \cap IdsIn(sock) = {}
        /\ IdsIn(q) = IdsIn(buf) \cup IdsIn(sock)
    BY JoinIds
  <2>3. DOMAIN q = 1..Len(q) /\ DOMAIN buf = 1..Len(buf) /\ DOMAIN sock = 1..Len(sock)
        /\ (\A i \in 1..Len(buf) : q[i] = buf[i])
        /\ (\A i \in 1..Len(sock) : q[Len(buf) + i] = sock[i])
    BY <1>1
  <2> HIDE DEF q
  <2>4. B \subseteq IdsIn(q)
    BY <1>1, <1>5, <2>3 DEF IdsIn
  <2>5. D \subseteq IdsIn(buf) /\ D \cap B = {}
    <3> SUFFICES ASSUME NEW i \in (c.taken + 1)..Len(buf)
                 PROVE  buf[i].id \in IdsIn(buf) /\ buf[i].id \notin B
      BY <1>6
    <3>1. i \in 1..Len(buf) /\ i \in DOMAIN q /\ i \notin 1..c.taken /\ 1..c.taken \subseteq DOMAIN q
      BY <1>1, <1>5, <2>3
    <3>2. q[i] = buf[i]
      BY <2>3, <3>1
    <3> QED BY <2>3, <3>1, <3>2 DEF IdsIn, NoneTwiceIn
  <2>6. Z \subseteq IdsIn(sock) /\ Z \cap B = {}
    <3> SUFFICES ASSUME NEW i \in 1..Len(sock), Len(buf) + i > c.taken
                 PROVE  sock[i].id \in IdsIn(sock) /\ sock[i].id \notin B
      BY <1>7
    <3> DEFINE m == Len(buf) + i
    <3>1. m \in DOMAIN q /\ m \notin 1..c.taken /\ 1..c.taken \subseteq DOMAIN q
      BY <1>1, <1>5, <2>3
    <3>2. q[m] = sock[i]
      BY <2>3
    <3> HIDE DEF m
    <3>3. q[m].id \notin B
      BY <3>1 DEF NoneTwiceIn
    <3> QED BY <2>3, <3>2, <3>3 DEF IdsIn
  <2>7. IdsIn(d \o c.kept) = D \cup K /\ d \o c.kept \in Seq(P)
    BY <1>5, <1>6, JoinIds
  <2>8. IdsIn((d \o c.kept) \o z) = D \cup K \cup Z
    <3>1. IdsIn((d \o c.kept) \o z) = IdsIn(d \o c.kept) \cup Z
      BY <1>7, <2>7, JoinIds, ZenonT(30)
    <3> QED BY <2>7, <3>1
  <2> HIDE DEF A, K, B, D, Z
  <2>9. NoneTwiceIn(d \o c.kept)
    <3>1. D \cap K = {}
      BY <2>1, <2>5
    <3> QED BY <1>5, <1>6, <2>1, <2>2, <3>1, JoinIds DEF D, K
  <2>10. NoneTwiceIn((d \o c.kept) \o z)
    <3> DEFINE x == d \o c.kept
    <3>1. x \in Seq(P) /\ IdsIn(x) = D \cup K /\ NoneTwiceIn(x)
      BY <2>7, <2>9
    <3>2. IdsIn(x) \cap IdsIn(z) = {}
      BY <2>1, <2>2, <2>5, <2>6, <3>1 DEF Z
    <3> HIDE DEF x
    <3>3. NoneTwiceIn(x \o z)
      BY <1>7, <2>2, <3>1, <3>2, JoinIds
    <3> QED BY <3>3 DEF x
  <2> QED BY <2>1, <2>2, <2>4, <2>5, <2>6, <2>8, <2>10
<1>10. Retains(r, buf, sock)
  <2> DEFINE A == IdsIn(c.unit.nalus)  K == IdsIn(c.kept)  D == IdsIn(d)  Z == IdsIn(z)
  <2>1. \A i \in 1..c.taken : q[i].id \in A \cup K
    BY <1>4 DEF Covers
  <2>2. /\ (\A i \in 1..Len(buf) : q[i] = buf[i]) /\ (\A i \in 1..Len(sock) : q[Len(buf) + i] = sock[i])
        /\ DOMAIN buf = 1..Len(buf) /\ DOMAIN sock = 1..Len(sock)
    BY <1>1
  <2> HIDE DEF q
  <2>3. IdsIn(d \o c.kept) = D \cup K
    BY <1>5, <1>6, JoinIds
  <2> HIDE DEF A, K, D, Z
  <2>4. ASSUME NEW i \in 1..Len(buf) PROVE buf[i].id \in A \cup K \cup D
    <3>1. CASE i \in 1..c.taken
      <4>1. q[i] = buf[i]
        BY <2>2
      <4> QED BY <2>1, <3>1, <4>1
    <3>2. CASE i \notin 1..c.taken
      <4>1. i \in (c.taken + 1)..Len(buf)
        BY <1>1, <1>5, <3>2
      <4> QED BY <1>6, <4>1 DEF D
    <3> QED BY <3>1, <3>2
  <2>5. ASSUME NEW i \in 1..Len(sock) PROVE sock[i].id \in A \cup K \cup Z
    <3>1. CASE Len(buf) + i \in 1..c.taken
      <4>1. q[Len(buf) + i] = sock[i]
        BY <2>2
      <4>2. q[Len(buf) + i].id \in A \cup K
        BY <2>1, <3>1
      <4> QED BY <4>1, <4>2
    <3>2. CASE Len(buf) + i \notin 1..c.taken
      <4>1. Len(buf) + i > c.taken
        BY <1>1, <1>5, <3>2
      <4> QED BY <1>7, <4>1 DEF Z
    <3> QED BY <3>1, <3>2
  <2>6. IdsIn(buf) \cup IdsIn(sock) \subseteq A \cup (D \cup K) \cup Z
    BY <2>2, <2>4, <2>5 DEF IdsIn
  <2> QED BY <1>3, <2>3, <2>6 DEF Retains, A, Z
<1> QED BY <1>8, <1>9, <1>10 DEF r

(* Either of them.                                                          *)
LEMMA AssembleKeeps ==
  ASSUME NEW T, NEW P, Stamped(P, T), NEW n \in Nat, NEW t,
         NEW buf \in Seq(P), NEW sock \in Seq(P)
  PROVE  /\ Assembled(Assemble(t, n, buf, sock), t, n, buf, sock, P, T)
         /\ OnePlace(Assemble(t, n, buf, sock), buf, sock)
         /\ Retains(Assemble(t, n, buf, sock), buf, sock)
<1>1. CASE t = VPS /\ n > 0
  BY <1>1, VPSKeeps DEF Assemble
<1>2. CASE ~ (t = VPS /\ n > 0)
  BY <1>2, NalusKeep DEF Assemble
<1> QED BY <1>1, <1>2

(* NALUs of one instant follow each other.                                  *)
Grouped(q) ==
  \A i, j, k \in DOMAIN q : i < j /\ j < k /\ q[i].ts = q[k].ts => q[j].ts = q[i].ts

(* In such a queue, with at most two NALUs buffered and no more than two    *)
(* asked for by number, a call takes up the first NALUs and keeps those     *)
(* that follow, two at most.                                                *)
Short(n) == n \in {0, 1, 2, SizeMax}
InLine(c, n, q) ==
  LET m == Len(c.unit.nalus)  j == Len(c.kept)
  IN /\ c.taken = m + j /\ (m = 0 => j = 0)
     /\ \A i \in 1..m : c.unit.nalus[i] = q[i]
     /\ \A i \in 1..j : c.kept[i] = q[m + i] /\ q[m + i].ts # c.unit.ts
     /\ (c.mismatch <=> j > 0) /\ j <= 2
     /\ c.received = IF n = SizeMax \/ j = 0 THEN m ELSE m + j - 1
     /\ (c.stopped <=> n = SizeMax /\ j > 0)

(* A pass keeps them in line.                                               *)
LEMMA TakeInLine ==
  ASSUME NEW T, NEW P, Stamped(P, T), NEW c \in Locals(P, T), NEW n \in Nat, Short(n),
         NEW b \in 0..2, NEW q \in Seq(P), Grouped(q), UnitOk(c.unit), ~ c.stopped, c.received < n,
         c.taken + 1 <= Len(q), InLine(c, n, q)
  PROVE  InLine(TakeNalu(c, n, b, q[c.taken + 1]), n, q)
<1> DEFINE k == c.taken + 1  e == q[k]  d == TakeNalu(c, n, b, e)
           u == c.unit.nalus  w == c.kept  m == Len(u)  j == Len(w)
<1>1. /\ u \in Seq(P) /\ w \in Seq(P) /\ m \in Nat /\ j \in Nat /\ c.taken \in Nat /\ Len(q) \in Nat
      /\ c.received \in Nat /\ DOMAIN q = 1..Len(q) /\ k \in 1..Len(q)
      /\ DOMAIN u = 1..m /\ DOMAIN w = 1..j
      /\ c = [unit |-> c.unit, received |-> c.received, mismatch |-> c.mismatch,
              taken |-> c.taken, kept |-> w, stopped |-> c.stopped]
      /\ c.unit = [ts |-> c.unit.ts, nalus |-> u]
  BY DEF Locals
<1>2. e \in P /\ e.ts \in T /\ e.ts # Unset
  BY <1>1 DEF Stamped
<1>3. /\ c.taken = m + j /\ (m = 0 => j = 0)
      /\ \A i \in 1..m : u[i] = q[i]
      /\ \A i \in 1..j : w[i] = q[m + i] /\ q[m + i].ts # c.unit.ts
      /\ (c.mismatch <=> j > 0) /\ j <= 2
      /\ c.received = IF n = SizeMax \/ j = 0 THEN m ELSE m + j - 1
      /\ (c.stopped <=> n = SizeMax /\ j > 0)
  BY DEF InLine
<1>4. (\A i \in 1..m : u[i].ts = c.unit.ts) /\ (m = 0 <=> c.unit.ts = Unset)
  <2>1. m = 0 <=> u = <<>>
    BY <1>1
  <2> QED BY <1>1, <2>1 DEF UnitOk
<1>5. c.unit.nalus = u /\ c.kept = w /\ Len(u) = m /\ Len(w) = j /\ k = c.taken + 1
  OBVIOUS
<1> HIDE DEF e, k, u, w, m, j
<1>6. CASE c.unit.ts \in {Unset, e.ts}
  <2>1. j = 0
    <3> SUFFICES ASSUME j > 0 PROVE FALSE
      BY <1>1
    <3>1. m \in 1..m /\ 1 \in 1..j /\ m + 1 < k /\ m \in DOMAIN q /\ m + 1 \in DOMAIN q
      BY <1>1, <1>3, <1>5
    <3>2. q[m].ts = c.unit.ts /\ q[m + 1].ts # c.unit.ts /\ c.unit.ts = q[k].ts
      BY <1>3, <1>4, <1>6, <3>1 DEF e
    <3>3. k \in DOMAIN q /\ m < m + 1
      BY <1>1
    <3> QED BY <3>1, <3>2, <3>3 DEF Grouped
  <2> DEFINE v == Append(u, e)
  <2>2. d = AcceptNalu(c, e)
    BY <1>1, <1>6 DEF TakeNalu
  <2>3. d = [unit |-> [ts |-> e.ts, nalus |-> v], received |-> c.received + 1, mismatch |-> FALSE,
             taken |-> c.taken + 1, kept |-> w, stopped |-> c.stopped]
    BY <1>1, <1>5, <2>2 DEF AcceptNalu
  <2>4. Len(v) = m + 1 /\ v[m + 1] = e /\ \A i \in 1..m : v[i] = u[i]
    BY <1>1, <1>2
  <2>5. k = m + 1
    BY <1>1, <1>3, <1>5, <2>1
  <2>6. \A i \in 1..(m + 1) : v[i] = q[i]
    <3> SUFFICES ASSUME NEW i \in 1..(m + 1) PROVE v[i] = q[i]
      OBVIOUS
    <3>1. CASE i = m + 1
      BY <2>4, <2>5, <3>1 DEF e
    <3>2. CASE i # m + 1
      <4>1. i \in 1..m
        BY <1>1, <3>2
      <4> QED BY <1>3, <2>4, <4>1
    <3> QED BY <3>1, <3>2
  <2> HIDE DEF v, d
  <2>7. d.unit.nalus = v /\ d.kept = w /\ d.taken = c.taken + 1 /\ d.mismatch = FALSE
        /\ d.received = c.received + 1 /\ d.stopped = c.stopped
    BY <2>3
  <2>8. d.taken = (m + 1) + j /\ d.received = m + 1 /\ d.stopped = FALSE
    BY <1>1, <1>3, <2>1, <2>7
  <2>9. Len(d.unit.nalus) = m + 1 /\ Len(d.kept) = 0
    BY <1>5, <2>1, <2>4, <2>7
  <2>10. (d.stopped <=> n = SizeMax /\ 0 > 0) /\ (d.mismatch <=> 0 > 0) /\ m + 1 # 0
    BY <1>1, <2>7, <2>8
  <2>11. InLine(d, n, q)
    <3>1. d.taken = (m + 1) + 0 /\ 1..0 = {}
      BY <1>1, <2>1, <2>8
    <3> DEFINE y == Len(d.unit.nalus)  z == Len(d.kept)
    <3>2. /\ d.taken = y + z /\ (y = 0 => z = 0) /\ z <= 2 /\ 1..z = {}
          /\ d.received = IF n = SizeMax \/ z = 0 THEN y ELSE y + z - 1
          /\ (d.mismatch <=> z > 0) /\ (d.stopped <=> n = SizeMax /\ z > 0)
      BY <2>8, <2>9, <2>10, <3>1
    <3>3. \A i \in 1..y : d.unit.nalus[i] = q[i]
      BY <2>6, <2>7, <2>9
    <3> QED BY <3>2, <3>3 DEF InLine
  <2> QED BY <1>5, <2>11 DEF d, e
<1>7. CASE c.unit.ts \notin {Unset, e.ts}
  <2> DEFINE stop == n = SizeMax /\ c.received > 0
             x == IF ~ stop /\ c.mismatch /\ c.taken + 1 >= b THEN c.received + 1 ELSE c.received
             v == Append(w, e)
  <2>1. d = RejectNalu(c, n, b, e)
    BY <1>1, <1>7 DEF TakeNalu
  <2>2. d = [unit |-> c.unit, received |-> x, mismatch |-> TRUE,
             taken |-> c.taken + 1, kept |-> v, stopped |-> stop]
    BY <1>1, <1>5, <2>1 DEF RejectNalu
  <2>3. Len(v) = j + 1 /\ v[j + 1] = e /\ \A i \in 1..j : v[i] = w[i]
    BY <1>1, <1>2
  <2>4. m > 0
    BY <1>1, <1>4, <1>7
  <2>5. \A i \in 1..(j + 1) : v[i] = q[m + i] /\ q[m + i].ts # c.unit.ts
    <3> SUFFICES ASSUME NEW i \in 1..(j + 1) PROVE v[i] = q[m + i] /\ q[m + i].ts # c.unit.ts
      OBVIOUS
    <3>1. CASE i = j + 1
      <4>1. m + i = k
        BY <1>1, <1>3, <1>5, <3>1
      <4> QED BY <1>7, <2>3, <3>1, <4>1 DEF e
    <3>2. CASE i # j + 1
      <4>1. i \in 1..j
        BY <1>1, <3>2
      <4> QED BY <1>3, <2>3, <4>1
    <3> QED BY <3>1, <3>2
  <2>6. (stop <=> n = SizeMax) /\ (n = SizeMax => j = 0)
    <3>1. m > 0 /\ j \in Nat /\ m \in Nat
      BY <1>1, <2>4
    <3>2. n = SizeMax => j = 0 /\ c.received = m
      BY <1>3, <3>1
    <3> QED BY <3>1, <3>2
  <2>7. x = (IF n = SizeMax THEN m ELSE m + (j + 1) - 1) /\ j + 1 <= 2
    <3>1. CASE n = SizeMax
      BY <1>1, <1>3, <2>4, <2>6, <3>1
    <3>2. CASE n # SizeMax
      <4>1. n <= 2 /\ stop = FALSE
        BY <2>6, <3>2 DEF Short
      <4> HIDE DEF stop
      <4>2. c.received = IF j = 0 THEN m ELSE m + j - 1
        BY <1>3, <3>2
      <4>3. j < 2
        BY <1>1, <2>4, <4>1, <4>2
      <4>4. x = IF j > 0 /\ c.taken + 1 >= b THEN c.received + 1 ELSE c.received
        BY <1>3, <4>1
      <4>5. j > 0 => c.taken + 1 >= b
        BY <1>1, <1>3, <2>4
      <4> HIDE DEF x
      <4>6. m \in Nat /\ j \in Nat
        BY <1>1
      <4>7. CASE j = 0
        BY <3>2, <4>2, <4>4, <4>6, <4>7
      <4>8. CASE j # 0
        <5>1. j > 0 /\ x = c.received + 1 /\ c.received = m + j - 1
          BY <4>2, <4>4, <4>5, <4>6, <4>8
        <5> QED BY <3>2, <4>3, <4>6, <5>1
      <4> QED BY <4>7, <4>8
    <3> QED BY <3>1, <3>2
  <2> HIDE DEF v, d, stop, x
  <2>8. d.unit = c.unit /\ d.kept = v /\ d.taken = c.taken + 1 /\ d.mismatch = TRUE
        /\ d.received = x /\ d.stopped = stop
    BY <2>2
  <2>9. d.taken = m + (j + 1)
    BY <1>1, <1>3, <2>8
  <2>10. j + 1 > 0 /\ j + 1 # 0
    BY <1>1
  <2>11. Len(d.unit.nalus) = m /\ Len(d.kept) = j + 1 /\ d.unit.nalus = u
    BY <1>5, <2>3, <2>8
  <2>12. d.received = IF n = SizeMax \/ j + 1 = 0 THEN m ELSE m + (j + 1) - 1
    BY <2>7, <2>8, <2>10
  <2>13. (d.stopped <=> n = SizeMax /\ j + 1 > 0) /\ (d.mismatch <=> j + 1 > 0)
    BY <2>6, <2>8, <2>10
  <2>14. InLine(d, n, q)
    BY <1>3, <2>4, <2>5, <2>7, <2>8, <2>9, <2>11, <2>12, <2>13 DEF InLine
  <2> QED BY <1>5, <2>14 DEF d, e
<1> QED BY <1>6, <1>7 DEF e

(* All passes.                                                              *)
LEMMA LastPassInLine ==
  ASSUME NEW T, NEW P, Stamped(P, T), NEW n \in Nat, Short(n), NEW b \in 0..2, NEW q \in Seq(P),
         Grouped(q)
  PROVE  InLine(LastPass(n, b, q), n, q)
<1> DEFINE f == Passes(n, b, q)
           Ok(c, k) == Handled(c, k, n, q, P, T) /\ InLine(c, n, q)
           S == [k \in 0..Len(q) |-> {c \in Locals(P, T) : Ok(c, k)}]
<1>1. Len(q) \in Nat /\ b \in Nat
  OBVIOUS
<1>2. f[0] = NewCall /\ \A k \in 1..Len(q) : f[k] = TakeNalu(f[k - 1], n, b, q[k])
  BY <1>1, PassesUnfold
<1>3. Ok(NewCall, 0)
  <2>1. NewCall \in Locals(P, T)
    BY DEF NewCall, EmptyUnit, Locals
  <2>2. UnitOk(NewCall.unit) /\ TakesAll(NewCall, 0, n) /\ Covers(NewCall, q) /\ Splits(NewCall, q)
    BY DEF NewCall, EmptyUnit, UnitOk, TakesAll, Covers, Splits, IdsIn, NoneTwiceIn
  <2>3. InLine(NewCall, n, q)
    BY DEF NewCall, EmptyUnit, InLine
  <2> QED BY <2>1, <2>2, <2>3 DEF Handled
<1> HIDE DEF f
<1>4. \A k \in 0..Len(q) : \A c : c \in S[k] <=> Ok(c, k)
  BY DEF Handled
<1> HIDE DEF S
<1>5. f[0] \in S[0]
  BY <1>1, <1>2, <1>3, <1>4
<1>6. \A k \in 1..Len(q) : f[k - 1] \in S[k - 1] => f[k] \in S[k]
  <2> SUFFICES ASSUME NEW k \in 1..Len(q), f[k - 1] \in S[k - 1] PROVE f[k] \in S[k]
    OBVIOUS
  <2> DEFINE c == f[k - 1]
  <2>1. k - 1 \in 0..Len(q) /\ k \in 0..Len(q)
    BY <1>1
  <2>2. Handled(c, k - 1, n, q, P, T) /\ InLine(c, n, q)
    BY <1>4, <2>1
  <2> HIDE DEF c
  <2>3. Handled(TakeNalu(c, n, b, q[k]), k, n, q, P, T)
    BY <1>1, <2>2, PassHandles
  <2>4. c \in Locals(P, T) /\ UnitOk(c.unit) /\ TakesAll(c, k - 1, n)
    BY <2>2 DEF Handled
  <2>5. c.taken \in Nat /\ c.received \in Nat
    BY <2>4 DEF Locals
  <2>6. InLine(TakeNalu(c, n, b, q[k]), n, q)
    <3>1. CASE c.stopped \/ c.received >= n
      BY <2>2, <3>1 DEF TakeNalu
    <3>2. CASE ~ (c.stopped \/ c.received >= n)
      <4>1. c.taken + 1 = k /\ c.taken + 1 <= Len(q) /\ ~ c.stopped /\ c.received < n
        BY <1>1, <2>1, <2>4, <2>5, <3>2 DEF TakesAll
      <4>2. InLine(TakeNalu(c, n, b, q[c.taken + 1]), n, q)
        BY <2>2, <2>4, <4>1, TakeInLine
      <4> QED BY <4>1, <4>2
    <3> QED BY <3>1, <3>2
  <2> QED BY <1>2, <1>4, <2>1, <2>3, <2>6 DEF c
<1>7. \A k \in 0..Len(q) : f[k] \in S[k]
  BY <1>1, <1>5, <1>6, Rounds
<1>8. Len(q) \in 0..Len(q)
  BY <1>1
<1> QED BY <1>4, <1>7, <1>8 DEF LastPass, f

(* A call cuts the queue: the unit is its first part, buffer and socket are *)
(* the rest in the same order.  A NALU of the unit's instant stays in the   *)
(* buffer only when two were there and one was asked for; a call finds      *)
(* nothing only when nothing is there.                                      *)
CutAt(r, q, m) ==
  /\ Len(r.unit.nalus) = m /\ m <= Len(q) /\ Len(r.buffer) + Len(r.socket) = Len(q) - m
  /\ \A i \in 1..m : r.unit.nalus[i] = q[i]
  /\ \A i \in 1..Len(r.buffer) : r.buffer[i] = q[m + i]
  /\ \A i \in 1..Len(r.socket) : r.socket[i] = q[m + Len(r.buffer) + i]
Cuts(r, n, buf, sock) ==
  /\ CutAt(r, buf \o sock, Len(r.unit.nalus)) /\ Len(r.buffer) <= 2
  /\ \A i \in 1..Len(r.buffer) :
       r.buffer[i].ts = r.unit.ts => Len(r.buffer) = 1 /\ Len(buf) = 2
  /\ n > 0 /\ buf \o sock # <<>> => Len(r.unit.nalus) > 0 /\ ~ r.timeout

(* It ends where enough were taken up, or another instant begins.           *)
Fills(r, n, q) ==
  LET m == Len(r.unit.nalus) IN m < Len(q) => m >= n \/ q[m + 1].ts # r.unit.ts

(* The rest of a queue, and two queues joined, NALU by NALU.                *)
LEMMA DropIs ==
  ASSUME NEW P, NEW q \in Seq(P), NEW k \in 0..Len(q)
  PROVE  /\ Drop(q, k) \in Seq(P) /\ Len(Drop(q, k)) = Len(q) - k
         /\ \A i \in 1..Len(q) - k : Drop(q, k)[i] = q[k + i]
<1> DEFINE m == k + 1  n == Len(q)
<1>1. /\ m \in Int /\ n \in Int /\ n \in Nat /\ k \in Nat /\ k <= n
      /\ \A i \in m..n : q[i] \in P
  OBVIOUS
<1> HIDE DEF n
<1>2. n - m + 1 = n - k /\ (m <= n \/ n - k = 0) /\ \A i \in 1..(n - k) : m + i - 1 = k + i
  BY <1>1
<1> HIDE DEF m
<1>3. /\ SubSeq(q, m, n) \in Seq(P)
      /\ Len(SubSeq(q, m, n)) = IF m <= n THEN n - m + 1 ELSE 0
      /\ \A i \in 1..(n - m + 1) : SubSeq(q, m, n)[i] = q[m + i - 1]
  BY <1>1, SubSeqProperties
<1>4. Drop(q, k) = SubSeq(q, m, n)
  BY DEF Drop, m, n
<1>5. Len(Drop(q, k)) = n - k
  BY <1>1, <1>2, <1>3, <1>4
<1>6. \A i \in 1..(n - k) : Drop(q, k)[i] = q[k + i]
  BY <1>2, <1>3, <1>4
<1> QED BY <1>3, <1>4, <1>5, <1>6 DEF n

LEMMA JoinIs ==
  ASSUME NEW P, NEW x \in Seq(P), NEW y \in Seq(P)
  PROVE  /\ x \o y \in Seq(P) /\ Len(x) \in Nat /\ Len(y) \in Nat /\ Len(x \o y) = Len(x) + Len(y)
         /\ \A i \in 1..Len(x) : (x \o y)[i] = x[i]
         /\ \A i \in 1..Len(y) : (x \o y)[Len(x) + i] = y[i]
<1>1. \A i \in 1..Len(x) : (x \o y)[i] = x[i]
  OBVIOUS
<1>2. \A i \in 1..Len(y) : (x \o y)[Len(x) + i] = y[i]
  OBVIOUS
<1> QED BY <1>1, <1>2

(* The loop over NALUs cuts the queue.                                      *)
LEMMA NalusCut ==
  ASSUME NEW T, NEW P, Stamped(P, T), NEW n \in Nat, Short(n),
         NEW buf \in Seq(P), NEW sock \in Seq(P), Grouped(buf \o sock), Len(buf) \in 0..2
  PROVE  /\ Cuts(AssembleNalus(n, buf, sock), n, buf, sock)
         /\ Fills(AssembleNalus(n, buf, sock), n, buf \o sock)
<1>0. /\ buf \o sock \in Seq(P) /\ Len(buf) \in 0..2 /\ Len(sock) \in Nat
      /\ Len(buf \o sock) = Len(buf) + Len(sock)
      /\ \A i \in 1..Len(buf) : (buf \o sock)[i] = buf[i]
      /\ \A i \in 1..Len(sock) : (buf \o sock)[Len(buf) + i] = sock[i]
  BY JoinIs
<1> DEFINE r == AssembleNalus(n, buf, sock)  q == buf \o sock  b == Len(buf)  a == Len(sock)
           c == LastPass(n, b, q)  m == Len(c.unit.nalus)  j == Len(c.kept)
           d == Drop(buf, c.taken)
           z == IF c.taken < b THEN sock ELSE Drop(sock, c.taken - b)
<1>1. /\ q \in Seq(P) /\ b \in 0..2 /\ b \in Nat /\ a \in Nat /\ Len(q) = b + a
      /\ (\A i \in 1..b : q[i] = buf[i]) /\ (\A i \in 1..a : q[b + i] = sock[i])
  BY <1>0
<1>2. r.unit = c.unit /\ r.buffer = d \o c.kept /\ r.socket = z
      /\ r.timeout = (c.received = 0 /\ n > 0)
  BY DEF AssembleNalus
<1> HIDE DEF q
<1>3. Handled(c, Len(q), n, q, P, T) /\ InLine(c, n, q)
  BY <1>1, LastPassHandles, LastPassInLine DEF q
<1> HIDE DEF c
<1>4. c \in Locals(P, T) /\ UnitOk(c.unit) /\ TakesAll(c, Len(q), n)
  BY <1>3 DEF Handled
<1>5. /\ c.unit.nalus \in Seq(P) /\ c.kept \in Seq(P) /\ c.taken \in Nat /\ c.received \in Nat
      /\ m \in Nat /\ j \in Nat /\ DOMAIN c.unit.nalus = 1..m
  BY <1>4 DEF Locals
<1>6. /\ c.taken = m + j /\ (m = 0 => j = 0)
      /\ \A i \in 1..m : c.unit.nalus[i] = q[i]
      /\ \A i \in 1..j : c.kept[i] = q[m + i] /\ q[m + i].ts # c.unit.ts
      /\ j <= 2 /\ c.received = IF n = SizeMax \/ j = 0 THEN m ELSE m + j - 1
      /\ (c.stopped <=> n = SizeMax /\ j > 0)
  BY <1>3 DEF InLine
<1>7. c.taken <= Len(q)
  BY <1>4 DEF TakesAll
<1> HIDE DEF m, j, a, b
<1>8. j > 0 => c.taken >= b
  BY <1>1, <1>5, <1>6
<1>9. /\ d \in Seq(P) /\ Len(d) = (IF c.taken < b THEN b - c.taken ELSE 0)
      /\ \A i \in 1..Len(d) : d[i] = buf[c.taken + i]
  <2>1. CASE c.taken <= b
    <3>1. c.taken \in 0..b
      BY <1>1, <1>5, <2>1
    <3>2. d \in Seq(P) /\ Len(d) = b - c.taken /\ \A i \in 1..b - c.taken : d[i] = buf[c.taken + i]
      BY <3>1, DropIs DEF b
    <3> HIDE DEF d
    <3>3. Len(d) = IF c.taken < b THEN b - c.taken ELSE 0
      BY <1>1, <1>5, <2>1, <3>2
    <3>4. \A i \in 1..Len(d) : d[i] = buf[c.taken + i]
      BY <3>2
    <3> QED BY <3>2, <3>3, <3>4
  <2>2. CASE c.taken > b
    <3>1. d = <<>>
      BY <1>1, <1>5, <2>2, SubSeqEmpty DEF Drop, b
    <3> HIDE DEF d
    <3> QED BY <1>1, <1>5, <2>2, <3>1
  <2> HIDE DEF d
  <2> QED BY <1>1, <1>5, <2>1, <2>2
<1>10. /\ z \in Seq(P) /\ Len(z) = (IF c.taken < b THEN a ELSE a - (c.taken - b))
       /\ \A i \in 1..Len(z) : z[i] = IF c.taken < b THEN sock[i] ELSE sock[c.taken - b + i]
  <2>1. CASE c.taken < b
    BY <1>1, <2>1 DEF a
  <2>2. CASE ~ (c.taken < b)
    <3>1. c.taken - b \in 0..a
      BY <1>1, <1>5, <1>7, <2>2, SMTT(30)
    <3> QED BY <1>1, <2>2, <3>1, DropIs, ZenonT(30) DEF a
  <2> QED BY <2>1, <2>2
<1> HIDE DEF d, z
<1> DEFINE e == d \o c.kept
<1>11. /\ e \in Seq(P) /\ Len(e) = Len(d) + j /\ Len(d) \in Nat
       /\ (\A i \in 1..Len(d) : e[i] = d[i]) /\ (\A i \in 1..j : e[Len(d) + i] = c.kept[i])
  <2> DEFINE w == c.kept
  <2>1. d \in Seq(P) /\ w \in Seq(P)
    BY <1>5, <1>9
  <2> HIDE DEF w
  <2>2. /\ d \o w \in Seq(P) /\ Len(d) \in Nat
        /\ Len(d \o w) = Len(d) + Len(w)
        /\ \A i \in 1..Len(d) : (d \o w)[i] = d[i]
        /\ \A i \in 1..Len(w) : (d \o w)[Len(d) + i] = w[i]
    BY <2>1, JoinIs
  <2> QED BY <2>2 DEF j, w
<1> HIDE DEF e, r
<1>12. Len(e) <= 2 /\ Len(e) + Len(z) = Len(q) - m /\ m <= Len(q)
  BY <1>1, <1>5, <1>6, <1>7, <1>8, <1>9, <1>10, <1>11
<1>13. \A i \in 1..Len(e) : e[i] = q[m + i] /\ (j > 0 => e[i].ts # c.unit.ts)
  <2>1. CASE j = 0
    <3> SUFFICES ASSUME NEW i \in 1..Len(e) PROVE e[i] = q[m + i]
      BY <2>1
    <3>1. i \in 1..Len(d) /\ c.taken < b /\ c.taken = m /\ m + i \in 1..b
      BY <1>1, <1>5, <1>6, <1>9, <1>11, <2>1
    <3> QED BY <1>1, <1>9, <1>11, <3>1
  <2>2. CASE j > 0
    <3>1. Len(d) = 0 /\ Len(e) = j
      BY <1>1, <1>5, <1>8, <1>9, <1>11, <2>2, SMTT(30)
    <3>2. \A i \in 1..j : e[i] = c.kept[i]
      BY <1>5, <1>11, <3>1
    <3> QED BY <1>6, <3>1, <3>2
  <2> QED BY <1>5, <2>1, <2>2
<1>14. \A i \in 1..Len(z) : z[i] = q[m + Len(e) + i]
  <2> SUFFICES ASSUME NEW i \in 1..Len(z) PROVE z[i] = q[m + Len(e) + i]
    OBVIOUS
  <2>1. CASE c.taken < b
    <3>1. m + Len(e) = b /\ i \in 1..a /\ z[i] = sock[i]
      BY <1>1, <1>5, <1>6, <1>8, <1>9, <1>10, <1>11, <2>1
    <3> QED BY <1>1, <3>1
  <2>2. CASE ~ (c.taken < b)
    <3> DEFINE k == c.taken - b + i
    <3>1. m + Len(e) = c.taken /\ k \in 1..a /\ z[i] = sock[k] /\ b + k = m + Len(e) + i
      BY <1>1, <1>5, <1>6, <1>7, <1>9, <1>10, <1>11, <2>2
    <3> HIDE DEF k
    <3> QED BY <1>1, <3>1
  <2> QED BY <2>1, <2>2
<1>15. ASSUME NEW i \in 1..Len(e), e[i].ts = c.unit.ts PROVE Len(e) = 1 /\ b = 2
  <2>1. j = 0
    BY <1>5, <1>13, <1>15
  <2>2. m > 0
    <3> SUFFICES ASSUME m = 0 PROVE FALSE
      BY <1>5
    <3>1. c.unit.nalus = <<>> /\ c.unit.ts = Unset
      BY <1>4, <1>5 DEF UnitOk, m
    <3>2. e[i] \in P
      BY <1>11
    <3> QED BY <1>15, <3>1, <3>2 DEF Stamped
  <2>3. Len(e) = Len(d) /\ c.taken = m /\ Len(e) >= 1
    BY <1>5, <1>6, <1>11, <1>15, <2>1
  <2>4. c.taken < b /\ Len(d) = b - m
    BY <1>1, <1>5, <1>9, <2>3
  <2> QED BY <1>1, <1>5, <2>2, <2>3, <2>4, SMTT(30)
<1>16. ASSUME n > 0, q # <<>> PROVE m > 0 /\ ~ r.timeout
  <2>1. m > 0
    <3> SUFFICES ASSUME m = 0 PROVE FALSE
      BY <1>5
    <3>1. c.taken = 0 /\ Len(q) > 0 /\ c.received = 0 /\ j = 0
      <4>1. Len(q) # 0 /\ Len(q) \in Nat
        BY <1>1, <1>16
      <4> QED BY <1>5, <1>6, <4>1
    <3> QED BY <1>1, <1>4, <1>6, <1>16, <3>1 DEF TakesAll
  <2>2. c.received # 0
    BY <1>5, <1>6, <2>1
  <2> QED BY <1>2, <2>1, <2>2
<1>17. CutAt(r, q, m)
  <2>1. r.buffer = e /\ r.unit.nalus = c.unit.nalus /\ r.socket = z /\ Len(c.unit.nalus) = m
    BY <1>2 DEF e, m
  <2> QED BY <1>6, <1>12, <1>13, <1>14, <2>1 DEF CutAt
<1>18. m < Len(q) => m >= n \/ q[m + 1].ts # c.unit.ts
  <2>1. CASE j = 0
    BY <1>1, <1>4, <1>5, <1>6, <2>1 DEF TakesAll
  <2>2. CASE j # 0
    <3>1. 1 \in 1..j
      BY <1>5, <2>2
    <3> QED BY <1>6, <3>1
  <2> QED BY <2>1, <2>2
<1>19. Fills(r, n, q)
  BY <1>2, <1>18 DEF Fills, m
<1>20. Cuts(r, n, buf, sock)
  BY <1>2, <1>12, <1>15, <1>16, <1>17 DEF Cuts, q, e, m, b
<1> QED BY <1>19, <1>20 DEF q, r

(* Either of them, for the VPS past the empty buffer.                       *)
LEMMA AssembleCuts ==
  ASSUME NEW T, NEW P, Stamped(P, T), NEW n \in Nat, NEW t, t # VPS => Short(n),
         NEW buf \in Seq(P), NEW sock \in Seq(P), Grouped(buf \o sock), Len(buf) \in 0..2,
         t = VPS => buf = <<>>
  PROVE  /\ Cuts(Assemble(t, n, buf, sock), n, buf, sock)
         /\ n > 0 => Fills(Assemble(t, n, buf, sock), IF t = VPS THEN 1 ELSE n, buf \o sock)
<1>1. CASE t = VPS /\ n > 0
  <2> DEFINE r == AssembleVPS(buf, sock)
  <2>1. Assemble(t, n, buf, sock) = r /\ buf = <<>>
    BY <1>1 DEF Assemble
  <2>2. buf \o sock = sock /\ Len(sock) \in Nat
    BY <2>1
  <2>3. CASE sock = <<>>
    <3>1. r = [unit |-> EmptyUnit, buffer |-> buf, socket |-> sock, timeout |-> TRUE, cut |-> TRUE]
      BY <2>3 DEF AssembleVPS
    <3>2. r.unit.nalus = <<>> /\ r.buffer = <<>> /\ r.socket = <<>> /\ buf \o sock = <<>>
      BY <2>1, <2>2, <2>3, <3>1 DEF EmptyUnit
    <3> HIDE DEF r
    <3> QED BY <2>1, <3>2 DEF Cuts, CutAt, Fills
  <2>4. CASE sock # <<>>
    <3>1. r = [unit |-> [ts |-> Head(sock).ts, nalus |-> <<Head(sock)>>], buffer |-> buf,
               socket |-> Tail(sock), timeout |-> FALSE, cut |-> FALSE]
      BY <2>4 DEF AssembleVPS
    <3>2. /\ r.unit.nalus = <<sock[1]>> /\ r.buffer = <<>> /\ r.socket = Tail(sock)
          /\ r.timeout = FALSE
      BY <2>1, <2>4, <3>1
    <3>3. Len(sock) >= 1 /\ Len(Tail(sock)) = Len(sock) - 1
          /\ \A i \in 1..(Len(sock) - 1) : Tail(sock)[i] = sock[1 + i]
      BY <2>2, <2>4
    <3>4. Len(r.unit.nalus) = 1 /\ r.unit.nalus[1] = sock[1] /\ Len(r.buffer) = 0
          /\ \A i \in 1..1 : i = 1
      BY <3>2
    <3> HIDE DEF r
    <3>5. CutAt(r, sock, 1)
      <4>1. \A i \in 1..Len(r.socket) : r.socket[i] = sock[1 + 0 + i]
        BY <3>2, <3>3
      <4> QED BY <2>2, <3>2, <3>3, <3>4, <4>1 DEF CutAt
    <3>6. Fills(r, 1, sock)
      BY <3>4 DEF Fills
    <3> QED BY <1>1, <2>1, <2>2, <3>2, <3>4, <3>5, <3>6 DEF Cuts
  <2> QED BY <2>3, <2>4
<1>2. CASE ~ (t = VPS /\ n > 0)
  <2>1. Short(n)
    BY <1>2 DEF Short
  <2>2. n > 0 => t # VPS
    BY <1>2
  <2>3. Assemble(t, n, buf, sock) = AssembleNalus(n, buf, sock)
    BY <1>2 DEF Assemble
  <2> QED BY <2>1, <2>2, <2>3, NalusCut
<1> QED BY <1>1, <1>2
=============================================================================
