------------------------ MODULE SenderStreamProofs ------------------------
(***************************************************************************)
(* Theorems about SenderStream.  The stream of a sending handle is a table *)
(* of GoFs, at consecutive instants and with the numbers of their units.   *)
(* The lemmas say what each operation of the containers makes of such a    *)
(* table; the invariant says which units its numbers are.                  *)
(***************************************************************************)
EXTENDS SenderStream, SampleStreamProofs

(* A unit of one NALU, a GoF of such units with the numbers ids, at one instant. *)
Unit(id, ts) == [ts |-> ts, nalus |-> <<[id |-> id, ts |-> ts]>>]
Gof(ts, ids) == [ts |-> ts, units |-> [t \in DOMAIN ids |-> Unit(ids[t], ts)],
                 sizes |-> [t \in DOMAIN ids |-> 1]]
IdMaps == UNION {[D -> Nat] : D \in (SUBSET Types) \ {{}}}
Timed == {Gof(ts, ids) : ts \in Nat, ids \in IdMaps}
Untimed == {Gof(Unset, ids) : ids \in IdMaps}

(* A function on 1..1 is the sequence of its one value.                       *)
LEMMA OneNalu == ASSUME NEW f, f = [i \in 1..1 |-> f[1]] PROVE f = <<f[1]>>
OBVIOUS

(* SetUnitTimestamp on a unit of one NALU.                                    *)
LEMMA Stamping ==
  ASSUME NEW id, NEW ts, NEW ts2 PROVE StampUnit(Unit(id, ts), ts2) = Unit(id, ts2)
<1> DEFINE u == Unit(id, ts)  q == [i \in DOMAIN u.nalus |-> [u.nalus[i] EXCEPT !.ts = ts2]]
<1>1. StampUnit(u, ts2) = [u EXCEPT !.ts = ts2, !.nalus = q]
  BY DEF StampUnit
<1>2. DOMAIN u.nalus = 1..1 /\ u.nalus[1] = [id |-> id, ts |-> ts]
  BY DEF Unit
<1>3. q[1] = [id |-> id, ts |-> ts2]
  BY <1>2
<1>4. q = <<[id |-> id, ts |-> ts2]>>
  BY <1>2, <1>3, OneNalu
<1>5. u = [ts |-> ts, nalus |-> <<[id |-> id, ts |-> ts]>>]
  BY DEF Unit
<1> HIDE DEF u, q
<1>6. [u EXCEPT !.ts = ts2, !.nalus = q] = [[u EXCEPT !.ts = ts2] EXCEPT !.nalus = q]
  OBVIOUS
<1>7. [u EXCEPT !.ts = ts2] = [ts |-> ts2, nalus |-> <<[id |-> id, ts |-> ts]>>]
  BY <1>5, Z3
<1>8. [[ts |-> ts2, nalus |-> <<[id |-> id, ts |-> ts]>>] EXCEPT !.nalus = q]
        = [ts |-> ts2, nalus |-> q]
  BY Z3
<1> QED BY <1>1, <1>4, <1>6, <1>7, <1>8 DEF Unit, u

(* V3C_Gof::set_timestamp reaches every unit of the GoF.                      *)
LEMMA StampingGof ==
  ASSUME NEW ids, NEW ts, NEW ts2 PROVE StampGof(Gof(ts, ids), ts2) = Gof(ts2, ids)
<1> DEFINE g == Gof(ts, ids)
           u == [t \in DOMAIN ids |-> Unit(ids[t], ts)]  c == [t \in DOMAIN ids |-> 1]
           x == [t \in DOMAIN g.units |-> StampUnit(g.units[t], ts2)]
<1>1. StampGof(g, ts2) = [g EXCEPT !.ts = ts2, !.units = x]
  BY DEF StampGof
<1>2. \A t \in DOMAIN ids : StampUnit(Unit(ids[t], ts), ts2) = Unit(ids[t], ts2)
  BY Stamping
<1>3. x = [t \in DOMAIN ids |-> Unit(ids[t], ts2)]
  BY <1>2 DEF Gof
<1>4. g = [ts |-> ts, units |-> u, sizes |-> c]
  BY DEF Gof
<1>5. [ts |-> ts2, units |-> x, sizes |-> c] = Gof(ts2, ids)
  BY <1>3 DEF Gof
<1> HIDE DEF g, x, u, c
<1>6. [g EXCEPT !.ts = ts2, !.units = x] = [[g EXCEPT !.ts = ts2] EXCEPT !.units = x]
  OBVIOUS
<1>7. [g EXCEPT !.ts = ts2] = [ts |-> ts2, units |-> u, sizes |-> c]
  BY <1>4, Z3
<1>8. [[ts |-> ts2, units |-> u, sizes |-> c] EXCEPT !.units = x]
        = [ts |-> ts2, units |-> x, sizes |-> c]
  BY Z3
<1> QED BY <1>1, <1>5, <1>6, <1>7, <1>8 DEF g

(* The numbers of a GoF that has one unit.                                    *)
One(t, id) == [x \in {t} |-> id]

(* The GoF a unit goes to.                                                  *)
Slot(s, t, ts) == IF IsSet(ts) THEN FindTimestamp(s, ts) ELSE FindFreeGof(s, t)
NewTs(s, ts) == IF s # <<>> /\ IsSet(s[Len(s)].ts) /\ ~ IsSet(ts)
                  THEN NextInstant(BackTs(s)) ELSE ts

(* V3C_Gof::set on a new GoF.                                                 *)
LEMMA FreshGof ==
  ASSUME NEW t, NEW id, NEW ts
  PROVE  GofSet(EmptyGof, t, Unit(id, ts))
           = [ts |-> ts, units |-> [x \in {t} |-> Unit(id, ts)], sizes |-> <<>>]
<1> DEFINE u == Unit(id, ts)  e == Emplace(EmptyGof.units, t, u)
<1>1. EmptyGof.units = <<>> /\ EmptyGof.ts = Unset /\ DOMAIN EmptyGof.units = {}
  BY DEF EmptyGof
<1>2. u.ts = ts
  BY DEF Unit
<1> HIDE DEF u
<1>3. e = [x \in {t} |-> u]
  BY <1>1 DEF Emplace
<1>4. GofSet(EmptyGof, t, u) = [EmptyGof EXCEPT !.ts = ts, !.units = e]
  BY <1>1, <1>2 DEF GofSet, IsSet
<1> HIDE DEF e
<1>5. [EmptyGof EXCEPT !.ts = ts, !.units = e] = [[EmptyGof EXCEPT !.ts = ts] EXCEPT !.units = e]
  OBVIOUS
<1>6. EmptyGof = [ts |-> Unset, units |-> <<>>, sizes |-> <<>>]
  BY DEF EmptyGof
<1>7. [EmptyGof EXCEPT !.ts = ts] = [ts |-> ts, units |-> <<>>, sizes |-> <<>>]
  BY <1>6, Z3
<1>8. [[ts |-> ts, units |-> <<>>, sizes |-> <<>>] EXCEPT !.units = e]
        = [ts |-> ts, units |-> e, sizes |-> <<>>]
  BY Z3
<1> QED BY <1>3, <1>4, <1>5, <1>7, <1>8 DEF u

(* push_back of a unit that finds no GoF adds one.                            *)
LEMMA PushNew ==
  ASSUME NEW s, Len(s) \in Nat, NEW t, NEW id, NEW ts, Slot(s, t, ts) > Len(s)
  PROVE  PushUnit(s, t, Unit(id, ts)).stream = Append(s, Gof(NewTs(s, ts), One(t, id)))
<1> DEFINE u == Unit(id, ts)  g == GofSet(EmptyGof, t, u)  us == [x \in {t} |-> u]
           next == NextInstant(BackTs(s))
           backSet == s # <<>> /\ IsSet(s[Len(s)].ts)
           p == IF backSet /\ ~ IsSet(g.ts) THEN StampGof(g, next) ELSE g
           c == [x \in DOMAIN g.units |-> UnitSize(g.units[x])]
<1>1. u.ts = ts /\ Len(u.nalus) = 1
  BY DEF Unit
<1>2. PushUnit(s, t, u).stream = PushGof(s, g).stream
  <2> HIDE DEF u
  <2> QED BY <1>1 DEF PushUnit, Slot
<1>3. PushGof(s, g).stream = Append(s, [p EXCEPT !.sizes = c])
  <2> HIDE DEF g
  <2> QED BY DEF PushGof
<1>4. g = [ts |-> ts, units |-> us, sizes |-> <<>>]
  BY FreshGof
<1>5. c = [x \in {t} |-> 1]
  <2> HIDE DEF u
  <2> QED BY <1>1, <1>4 DEF UnitSize
<1>6. [[ts |-> ts, units |-> us, sizes |-> <<>>] EXCEPT !.sizes = c]
        = [ts |-> ts, units |-> us, sizes |-> c]
  <2> HIDE DEF us, c
  <2> QED BY Z3
<1> DEFINE ids == One(t, id)
<1>7. [ts |-> ts, units |-> us, sizes |-> c] = Gof(ts, ids)
  BY <1>5 DEF Gof, One
<1>8. CASE ~ (backSet /\ ~ IsSet(ts))
  <2>1. p = g /\ NewTs(s, ts) = ts
    <3> HIDE DEF g
    <3> QED BY <1>4, <1>8 DEF NewTs
  <2> HIDE DEF p, g, us, c, u, ids
  <2> QED BY <1>2, <1>3, <1>4, <1>6, <1>7, <1>8, <2>1 DEF u, ids
<1>9. CASE backSet /\ ~ IsSet(ts)
  <2>1. p = StampGof(g, next) /\ NewTs(s, ts) = next
    <3> HIDE DEF g
    <3> QED BY <1>4, <1>9 DEF NewTs
  <2> DEFINE vs == [x \in DOMAIN g.units |-> StampUnit(g.units[x], next)]
  <2>2. StampGof(g, next) = [g EXCEPT !.ts = next, !.units = vs]
    <3> HIDE DEF g
    <3> QED BY DEF StampGof
  <2>3. vs = [x \in {t} |-> Unit(id, next)]
    <3>1. StampUnit(u, next) = Unit(id, next)
      BY Stamping
    <3> HIDE DEF g, u, next
    <3> QED BY <1>4, <3>1
  <2>4. [ts |-> next, units |-> vs, sizes |-> c] = Gof(next, ids)
    <3> HIDE DEF g, next, c, vs
    <3> QED BY <1>5, <2>3 DEF Gof, One
  <2> HIDE DEF vs, g, next, c, us, ids
  <2>5. [g EXCEPT !.ts = next, !.units = vs] = [[g EXCEPT !.ts = next] EXCEPT !.units = vs]
    OBVIOUS
  <2>6. [g EXCEPT !.ts = next] = [ts |-> next, units |-> us, sizes |-> <<>>]
    BY <1>4, Z3
  <2>7. [[ts |-> next, units |-> us, sizes |-> <<>>] EXCEPT !.units = vs]
          = [ts |-> next, units |-> vs, sizes |-> <<>>]
    BY Z3
  <2>8. [[ts |-> next, units |-> vs, sizes |-> <<>>] EXCEPT !.sizes = c]
          = [ts |-> next, units |-> vs, sizes |-> c]
    BY Z3
  <2> HIDE DEF p, u
  <2> QED BY <1>2, <1>3, <2>1, <2>2, <2>4, <2>5, <2>6, <2>7, <2>8 DEF u, ids
<1> QED BY <1>8, <1>9

(* push_back of a unit that finds a GoF adds it there, or discards it.        *)
LEMMA PushOld ==
  ASSUME NEW s, Len(s) \in Nat, NEW t, NEW id, NEW ts, NEW ts0, NEW ids,
         Slot(s, t, ts) \in 1..Len(s), s[Slot(s, t, ts)] = Gof(ts0, ids), ts \in {Unset, ts0}
  PROVE  PushUnit(s, t, Unit(id, ts)).stream
           = [s EXCEPT ![Slot(s, t, ts)] = Gof(ts0, Emplace(ids, t, id))]
<1> DEFINE k == Slot(s, t, ts)  u == Unit(id, ts)  c == Assign(s[k].sizes, t, UnitSize(u))
           us == [x \in DOMAIN ids |-> Unit(ids[x], ts0)]  cs == [x \in DOMAIN ids |-> 1]
           g == [s[k] EXCEPT !.sizes = c]
           v == IF IsSet(g.ts) /\ ~ IsSet(u.ts) THEN StampUnit(u, g.ts) ELSE u
           e == Emplace(g.units, t, v)  i == Emplace(ids, t, id)
           n == IF g.units = <<>> /\ ~ IsSet(g.ts) THEN u.ts ELSE g.ts
<1>1. u.ts = ts /\ UnitSize(u) = 1
  BY DEF Unit, UnitSize
<1>2. s[k] = [ts |-> ts0, units |-> us, sizes |-> cs]
  BY DEF Gof
<1>3. g = [ts |-> ts0, units |-> us, sizes |-> c]
  <2> HIDE DEF k, c, us, cs
  <2> QED BY <1>2, Z3
<1>4. c = [x \in DOMAIN i |-> 1]
  <2> HIDE DEF k, u
  <2> QED BY <1>1, <1>2 DEF Assign, Emplace
<1>5. GofAccepts(g, u)
  <2> HIDE DEF g, u, us, c
  <2> QED BY <1>1, <1>3 DEF GofAccepts, IsSet
<1>6. n = ts0
  <2> HIDE DEF g, u, us, c
  <2> QED BY <1>1, <1>3 DEF IsSet
<1>7. v = Unit(id, ts0)
  <2>1. StampUnit(u, ts0) = Unit(id, ts0)
    BY Stamping
  <2> HIDE DEF g, us, c, k
  <2>2. g.ts = ts0
    BY <1>3
  <2>3. v = IF IsSet(ts0) /\ ~ IsSet(ts) THEN Unit(id, ts0) ELSE Unit(id, ts)
    <3> HIDE DEF u
    <3> QED BY <1>1, <2>1, <2>2 DEF u
  <2> HIDE DEF v
  <2> QED BY <2>3 DEF IsSet
<1>8. e = [x \in DOMAIN i |-> Unit(i[x], ts0)]
  <2> HIDE DEF g, v, c
  <2> QED BY <1>3, <1>7 DEF Emplace
<1>9. PushUnit(s, t, u).stream = [s EXCEPT ![k] = GofSet(g, t, u)]
  <2>1. k <= Len(s) /\ ~ k > Len(s)
    OBVIOUS
  <2> HIDE DEF u, k
  <2> QED BY <1>1, <1>5, <2>1 DEF PushUnit, k, Slot
<1>10. GofSet(g, t, u) = [g EXCEPT !.ts = n, !.units = e]
  <2> HIDE DEF g, u
  <2> QED BY DEF GofSet
<1> HIDE DEF g, e, n, us, c, u, k
<1>11. [g EXCEPT !.ts = n, !.units = e] = [[g EXCEPT !.ts = n] EXCEPT !.units = e]
  OBVIOUS
<1>12. [g EXCEPT !.ts = n] = [ts |-> n, units |-> us, sizes |-> c]
  BY <1>3, Z3
<1>13. [[ts |-> n, units |-> us, sizes |-> c] EXCEPT !.units = e]
         = [ts |-> n, units |-> e, sizes |-> c]
  BY Z3
<1>14. GofSet(g, t, u) = Gof(ts0, i)
  <2> HIDE DEF i
  <2> QED BY <1>4, <1>6, <1>8, <1>10, <1>11, <1>12, <1>13 DEF Gof
<1> QED BY <1>9, <1>14 DEF k, u

(* The GoFs of a stream whose instants are of the kind of ts.                 *)
Like(ts) == IF IsSet(ts) THEN Timed ELSE Untimed

(* The instant after another is a number.                                     *)
LEMMA NextIsNat == ASSUME NEW s PROVE TsOf(s) \in Nat => NextInstant(TsOf(s)) \in Nat
<1> SUFFICES ASSUME TsOf(s) \in Nat PROVE NextInstant(TsOf(s)) \in Nat
  OBVIOUS
<1> DEFINE a == TsOf(s) + FrameDuration
<1>1. a \in Nat
  BY ClockAssumption
<1> HIDE DEF a
<1>2. (a % Wrap) \in Nat
  BY <1>1, ClockAssumption
<1> QED BY <1>2 DEF NextInstant, a

(* The numbers of the first unit of a GoF.                                    *)
LEMMA OneIdMap == ASSUME NEW t \in Types, NEW id \in Nat PROVE One(t, id) \in IdMaps
<1>1. One(t, id) \in [{t} -> Nat] /\ {t} \in (SUBSET Types) \ {{}}
  BY DEF One
<1> QED BY <1>1 DEF IdMaps

(* The numbers of a GoF after another unit.                                   *)
LEMMA MoreIdMap ==
  ASSUME NEW ids \in IdMaps, NEW t \in Types, NEW id \in Nat PROVE Emplace(ids, t, id) \in IdMaps
<1>1. PICK D \in (SUBSET Types) \ {{}} : ids \in [D -> Nat]
  BY DEF IdMaps
<1>2. Emplace(ids, t, id) \in [D \cup {t} -> Nat]
  BY <1>1 DEF Emplace
<1>3. D \cup {t} \in (SUBSET Types) \ {{}}
  OBVIOUS
<1> QED BY <1>2, <1>3 DEF IdMaps

(* The elements of a stream, spelled out.                                     *)
LEMMA GofTimed ==
  /\ \A g \in Timed : \E ids \in IdMaps, ts \in Nat : g = Gof(ts, ids) /\ g.ts = ts
  /\ \A g \in Untimed : \E ids \in IdMaps : g = Gof(Unset, ids) /\ g.ts = Unset
BY DEF Timed, Untimed, Gof

(* push_back of a unit keeps a stream stamped, or unstamped.                  *)
LEMMA Closed ==
  ASSUME NEW ts \in Stamps, NEW s \in Seq(Like(ts)), NEW t \in Types, NEW id \in Nat
  PROVE  PushUnit(s, t, Unit(id, ts)).stream \in Seq(Like(ts))
<1> DEFINE L == Like(ts)  k == Slot(s, t, ts)  r == PushUnit(s, t, Unit(id, ts)).stream
<1>1. Len(s) \in Nat /\ k \in 1..(Len(s) + 1)
  BY FreeGof, FoundGof DEF Slot
<1>2. CASE k > Len(s)
  <2>1. r = Append(s, Gof(NewTs(s, ts), One(t, id)))
    BY <1>1, <1>2, PushNew
  <2>2. NewTs(s, ts) = ts
    <3>1. CASE IsSet(ts)
      BY <3>1 DEF NewTs
    <3>2. CASE ~ IsSet(ts)
      <4>1. s # <<>> => s[Len(s)] \in Untimed
        BY <3>2 DEF Like
      <4>2. s # <<>> => s[Len(s)].ts = Unset
        BY <4>1, GofTimed
      <4> QED BY <4>2 DEF NewTs, IsSet
    <3> QED BY <3>1, <3>2
  <2>3. Gof(ts, One(t, id)) \in L
    BY OneIdMap DEF Like, Timed, Untimed, Stamps, IsSet
  <2> HIDE DEF L, r
  <2> QED BY <2>1, <2>2, <2>3 DEF L, r
<1>3. CASE ~ k > Len(s)
  <2>1. k \in 1..Len(s) /\ s[k] \in L
    <3>1. k \in 1..Len(s)
      BY <1>1, <1>3
    <3> HIDE DEF k, L
    <3> QED BY <3>1 DEF L
  <2>2. PICK ids \in IdMaps : s[k] = Gof(ts, ids)
    <3>1. CASE IsSet(ts)
      <4>1. TsOf(s[k].ts) = ts
        BY <3>1, <1>1, <2>1, FoundGof DEF Slot
      <4>2. s[k] \in Timed
        BY <2>1, <3>1 DEF Like
      <4> HIDE DEF k
      <4>3. PICK ids \in IdMaps, x \in Nat : s[k] = Gof(x, ids) /\ s[k].ts = x
        BY <4>2, GofTimed
      <4>4. x = ts
        BY <4>1, <4>3, ClockAssumption DEF TsOf, IsSet
      <4> QED BY <4>3, <4>4
    <3>2. CASE ~ IsSet(ts)
      BY <2>1, <3>2, GofTimed DEF Like, IsSet
    <3> QED BY <3>1, <3>2
  <2>3. r = [s EXCEPT ![k] = Gof(ts, Emplace(ids, t, id))]
    BY <1>1, <2>1, <2>2, PushOld
  <2>4. Gof(ts, Emplace(ids, t, id)) \in L
    BY MoreIdMap DEF Like, Timed, Untimed, Stamps, IsSet
  <2> HIDE DEF L, r, k
  <2> QED BY <2>1, <2>3, <2>4 DEF L, r
<1> QED BY <1>2, <1>3

(* push_back of an unstamped unit leaves a stamped stream stamped.            *)
LEMMA ClosedTimed ==
  ASSUME NEW s \in Seq(Timed), s # <<>>, NEW t \in Types, NEW id \in Nat
  PROVE  PushUnit(s, t, Unit(id, Unset)).stream \in Seq(Timed)
<1> DEFINE k == Slot(s, t, Unset)  r == PushUnit(s, t, Unit(id, Unset)).stream
<1>1. Len(s) \in Nat /\ Len(s) \in 1..Len(s) /\ k \in 1..(Len(s) + 1)
  BY FreeGof DEF Slot, IsSet
<1>2. CASE k > Len(s)
  <2>1. r = Append(s, Gof(NewTs(s, Unset), One(t, id)))
    BY <1>1, <1>2, PushNew
  <2>2. NewTs(s, Unset) \in Nat
    <3>1. s[Len(s)] \in Timed
      BY <1>1
    <3>2. s[Len(s)].ts \in Nat
      BY <3>1, GofTimed
    <3>3. TsOf(s[Len(s)].ts) \in Nat
      BY <3>2, ClockAssumption DEF TsOf
    <3>4. IsSet(s[Len(s)].ts)
      BY <3>2, ClockAssumption DEF IsSet
    <3> QED BY <3>3, <3>4, NextIsNat DEF NewTs, IsSet, BackTs
  <2>3. Gof(NewTs(s, Unset), One(t, id)) \in Timed
    BY <2>2, OneIdMap DEF Timed
  <2> HIDE DEF r
  <2> QED BY <2>1, <2>3 DEF r
<1>3. CASE ~ k > Len(s)
  <2>1. k \in 1..Len(s) /\ s[k] \in Timed
    <3>1. k \in 1..Len(s)
      BY <1>1, <1>3
    <3> HIDE DEF k
    <3> QED BY <3>1
  <2> HIDE DEF k
  <2>2. PICK ids \in IdMaps, ts \in Nat : s[k] = Gof(ts, ids) /\ s[k].ts = ts
    BY <2>1, GofTimed
  <2>3. r = [s EXCEPT ![k] = Gof(ts, Emplace(ids, t, id))]
    BY <1>1, <2>1, <2>2, PushOld DEF k
  <2>4. Gof(ts, Emplace(ids, t, id)) \in Timed
    BY MoreIdMap DEF Timed
  <2> HIDE DEF r
  <2> QED BY <2>1, <2>3, <2>4 DEF r
<1> QED BY <1>2, <1>3

(* f is the loop of parse_bitstream over the units of a chunk.              *)
ParseLoop(f, chunk, n) ==
  /\ f \in [0..Len(chunk) -> Seq(Untimed)] /\ f[0] = <<>>
  /\ \A i \in 1..Len(chunk) : f[i] = PushUnit(f[i - 1], chunk[i], Unit(n + i, Unset)).stream
  /\ ParseBitstream(chunk, n) = f[Len(chunk)]

(* It exists.                                                                 *)
LEMMA ParseLoops ==
  ASSUME NEW chunk \in Seq(Types), NEW n \in Nat PROVE \E f : ParseLoop(f, chunk, n)
<1> DEFINE m == Len(chunk)  S == Seq(Untimed)
           Push(i, s) == PushUnit(s, chunk[i], NewUnit(n + i)).stream
           F == [i \in 1..m |-> [s \in S |-> Push(i, s)]]
           f == CHOOSE g : g = [i \in 0..m |-> IF i = 0 THEN <<>> ELSE Push(i, g[i - 1])]
<1>1. \A id : NewUnit(id) = Unit(id, Unset)
  BY DEF NewUnit, Unit
<1>2. ASSUME NEW i \in 1..m, NEW s \in S PROVE Push(i, s) \in S
  <2>1. chunk[i] \in Types /\ n + i \in Nat
    OBVIOUS
  <2>2. Like(Unset) = Untimed /\ Unset \in Stamps
    BY DEF Like, IsSet, Stamps
  <2> QED BY <1>1, <2>1, <2>2, Closed
<1> HIDE DEF Push
<1>3. F \in [1..m -> [S -> S]]
  BY <1>2
<1>4. \A k \in 1..m, s \in S : F[k][s] = Push(k, s)
  OBVIOUS
<1>5. m \in Nat /\ ParseBitstream(chunk, n) = f[m] /\ <<>> \in S
  BY DEF ParseBitstream, Push
<1> HIDE DEF F, m, S
<1>6. PICK g : Loop(g, m, S, <<>>, F)
  BY <1>3, <1>5, LoopExists
<1>7. g \in [0..m -> S] /\ g[0] = <<>> /\ \A k \in 1..m : g[k] = F[k][g[k - 1]]
  BY <1>6 DEF Loop
<1>8. ASSUME NEW k \in 1..m PROVE g[k] = Push(k, g[k - 1])
  <2>1. k - 1 \in 0..m
    BY <1>5
  <2> QED BY <1>4, <1>7, <2>1
<1>9. g = [i \in 0..m |-> IF i = 0 THEN <<>> ELSE Push(i, g[i - 1])]
  BY <1>5, <1>7, <1>8
<1>10. f = [i \in 0..m |-> IF i = 0 THEN <<>> ELSE Push(i, f[i - 1])]
  BY <1>9
<1> HIDE DEF f
<1>11. f[0] = <<>> /\ \A i \in 1..m : f[i] = Push(i, f[i - 1])
  BY <1>5, <1>10
<1>12. \A k \in 0..m : f[k] \in S
  <2>1. f[0] \in S /\ \A k \in 1..m : f[k - 1] \in S => f[k] \in S
    BY <1>2, <1>5, <1>11
  <2> QED BY <1>5, <2>1, Stays
<1>13. f \in [0..m -> S]
  BY <1>10, <1>12
<1>14. ParseLoop(f, chunk, n)
  BY <1>1, <1>5, <1>11, <1>13 DEF ParseLoop, m, S, Push
<1> QED BY <1>14

(* f is the loop over the types of the units of a GoF that is pushed.       *)
UnitsLoop(f, s, g, L) ==
  /\ f \in [0..NumTypes -> Seq(L)] /\ f[0] = s
  /\ \A t \in 1..NumTypes :
       f[t] = IF t - 1 \in DOMAIN g.units
                THEN PushUnit(f[t - 1], t - 1, g.units[t - 1]).stream ELSE f[t - 1]
  /\ PushUnits(s, g) = f[NumTypes]

(* It exists.                                                                 *)
LEMMA UnitsLoops ==
  ASSUME NEW L \in {Timed, Untimed}, NEW s \in Seq(L), NEW g \in L
  PROVE  \E f : UnitsLoop(f, s, g, L)
<1> DEFINE m == NumTypes  S == Seq(L)
           Push(t, q) == IF t - 1 \in DOMAIN g.units
                           THEN PushUnit(q, t - 1, g.units[t - 1]).stream ELSE q
           F == [t \in 1..m |-> [q \in S |-> Push(t, q)]]
           f == CHOOSE h : h = [t \in 0..m |-> IF t = 0 THEN s ELSE Push(t, h[t - 1])]
<1>1. PICK ids \in IdMaps, ts \in Stamps : g = Gof(ts, ids) /\ L = Like(ts)
  BY ClockAssumption DEF Timed, Untimed, Like, Stamps, IsSet
<1>2. ASSUME NEW t \in 1..m, NEW q \in S PROVE Push(t, q) \in S
  <2>1. g.units = [x \in DOMAIN ids |-> Unit(ids[x], ts)]
    BY <1>1 DEF Gof
  <2>2. ASSUME t - 1 \in DOMAIN g.units PROVE PushUnit(q, t - 1, g.units[t - 1]).stream \in S
    <3> DEFINE x == t - 1
    <3>1. x \in DOMAIN ids /\ g.units[x] = Unit(ids[x], ts)
      BY <2>1, <2>2
    <3>2. x \in Types /\ ids[x] \in Nat
      BY <3>1 DEF IdMaps
    <3> HIDE DEF x
    <3>3. PushUnit(q, x, Unit(ids[x], ts)).stream \in Seq(Like(ts))
      BY <1>1, <3>2, Closed
    <3> QED BY <1>1, <3>1, <3>3 DEF x
  <2> QED BY <2>2
<1> HIDE DEF Push
<1>3. F \in [1..m -> [S -> S]]
  BY <1>2
<1>4. \A k \in 1..m, q \in S : F[k][q] = Push(k, q)
  OBVIOUS
<1>5. m \in Nat /\ PushUnits(s, g) = f[m] /\ s \in S
  BY DEF PushUnits, Push, NumTypes
<1> HIDE DEF F, m, S
<1>6. PICK h : Loop(h, m, S, s, F)
  BY <1>3, <1>5, LoopExists
<1>7. h \in [0..m -> S] /\ h[0] = s /\ \A k \in 1..m : h[k] = F[k][h[k - 1]]
  BY <1>6 DEF Loop
<1>8. ASSUME NEW k \in 1..m PROVE h[k] = Push(k, h[k - 1])
  <2>1. k - 1 \in 0..m
    BY <1>5
  <2> QED BY <1>4, <1>7, <2>1
<1>9. h = [t \in 0..m |-> IF t = 0 THEN s ELSE Push(t, h[t - 1])]
  BY <1>5, <1>7, <1>8
<1>10. f = [t \in 0..m |-> IF t = 0 THEN s ELSE Push(t, f[t - 1])]
  BY <1>9
<1> HIDE DEF f
<1>11. f[0] = s /\ \A t \in 1..m : f[t] = Push(t, f[t - 1])
  BY <1>5, <1>10
<1>12. \A k \in 0..m : f[k] \in S
  <2>1. f[0] \in S /\ \A k \in 1..m : f[k - 1] \in S => f[k] \in S
    BY <1>2, <1>5, <1>11
  <2> QED BY <1>5, <2>1, Stays
<1>13. f \in [0..m -> S]
  BY <1>10, <1>12
<1>14. UnitsLoop(f, s, g, L)
  BY <1>5, <1>11, <1>13 DEF UnitsLoop, m, S, Push
<1> QED BY <1>14

(* Pushing a GoF keeps a stream stamped, or unstamped.                        *)
LEMMA UnitsClosed ==
  ASSUME NEW L \in {Timed, Untimed}, NEW s \in Seq(L), NEW g \in L
  PROVE  PushUnits(s, g) \in Seq(L)
<1>1. PICK f : UnitsLoop(f, s, g, L)
  BY UnitsLoops
<1> QED BY <1>1 DEF UnitsLoop, NumTypes

(* What PushStream pushes on s, and f its loop over the GoFs o.             *)
Stamped(s, other) ==
  IF s # <<>> /\ IsSet(s[Len(s)].ts) /\ ~ IsSet(other[1].ts)
    THEN SetTimestamps(other, NextInstant(BackTs(s))) ELSE other
JoinLoop(f, s, o, L) ==
  /\ f \in [0..Len(o) -> Seq(L)] /\ f[0] = s
  /\ \A k \in 1..Len(o) : f[k] = PushUnits(f[k - 1], o[k])

(* It exists.                                                                 *)
LEMMA JoinLoops ==
  ASSUME NEW L \in {Timed, Untimed}, NEW s \in Seq(L), NEW other,
         Stamped(s, other) \in Seq(L), Len(Stamped(s, other)) = Len(other)
  PROVE  \E f : JoinLoop(f, s, Stamped(s, other), L) /\ PushStream(s, other) = f[Len(other)]
<1> DEFINE o == Stamped(s, other)  m == Len(other)  S == Seq(L)
           Push(k, q) == PushUnits(q, o[k])
           F == [k \in 1..m |-> [q \in S |-> Push(k, q)]]
           f == CHOOSE h : h = [k \in 0..m |-> IF k = 0 THEN s ELSE Push(k, h[k - 1])]
<1>1. m = Len(o) /\ m \in Nat
  OBVIOUS
<1>2. ASSUME NEW k \in 1..m, NEW q \in S PROVE Push(k, q) \in S
  <2>1. o[k] \in L
    <3> HIDE DEF o
    <3> QED BY <1>1 DEF o
  <2> HIDE DEF o
  <2> QED BY <2>1, UnitsClosed
<1>3. PushStream(s, other) = f[m] /\ s \in S
  BY DEF PushStream, Stamped
<1> HIDE DEF Push, o
<1>4. F \in [1..m -> [S -> S]]
  BY <1>2
<1>5. \A k \in 1..m, q \in S : F[k][q] = Push(k, q)
  OBVIOUS
<1> HIDE DEF F, m, S
<1>6. PICK h : Loop(h, m, S, s, F)
  BY <1>1, <1>4, <1>3, LoopExists
<1>7. h \in [0..m -> S] /\ h[0] = s /\ \A k \in 1..m : h[k] = F[k][h[k - 1]]
  BY <1>6 DEF Loop
<1>8. ASSUME NEW k \in 1..m PROVE h[k] = Push(k, h[k - 1])
  <2>1. k - 1 \in 0..m
    BY <1>1
  <2> QED BY <1>5, <1>7, <2>1
<1>9. h = [k \in 0..m |-> IF k = 0 THEN s ELSE Push(k, h[k - 1])]
  BY <1>1, <1>7, <1>8
<1>10. f = [k \in 0..m |-> IF k = 0 THEN s ELSE Push(k, f[k - 1])]
  BY <1>9
<1> HIDE DEF f
<1>11. f[0] = s /\ \A k \in 1..m : f[k] = Push(k, f[k - 1])
  <2>1. m \in Nat
    BY <1>1
  <2>2. \A k \in 0..m : f[k] = IF k = 0 THEN s ELSE Push(k, f[k - 1])
    BY <1>10
  <2> HIDE DEF Push
  <2> QED BY <2>1, <2>2
<1>12. \A k \in 0..m : f[k] \in S
  <2>1. f[0] \in S /\ \A k \in 1..m : f[k - 1] \in S => f[k] \in S
    BY <1>2, <1>3, <1>11
  <2> QED BY <1>1, <2>1, Stays
<1>13. f \in [0..m -> S]
  BY <1>10, <1>12
<1>14. JoinLoop(f, s, o, L)
  BY <1>1, <1>11, <1>13 DEF JoinLoop, S, Push
<1> QED BY <1>3, <1>14 DEF o, m

(* set_timestamps stamps every GoF and keeps their number.                    *)
LEMMA StampsAll ==
  ASSUME NEW s \in Seq(Timed \cup Untimed), NEW ts \in Nat
  PROVE  SetTimestamps(s, ts) \in Seq(Timed) /\ Len(SetTimestamps(s, ts)) = Len(s)
<1>1. ASSUME NEW k \in 1..Len(s)
      PROVE  StampGof(s[k], (ts + (k - 1) * FrameDuration) % Wrap) \in Timed
  <2> DEFINE x == ts + (k - 1) * FrameDuration
  <2>1. x \in Nat
    <3>1. k - 1 \in Nat /\ FrameDuration \in Nat
      BY ClockAssumption
    <3>2. (k - 1) * FrameDuration \in Nat
      BY <3>1
    <3> QED BY <3>2
  <2> HIDE DEF x
  <2>2. (x % Wrap) \in Nat
    BY <2>1, ClockAssumption
  <2>3. PICK ids, ts0 : ids \in IdMaps /\ s[k] = Gof(ts0, ids)
    <3>1. s[k] \in Timed \cup Untimed
      OBVIOUS
    <3> QED BY <3>1, GofTimed
  <2>4. StampGof(s[k], x % Wrap) = Gof(x % Wrap, ids)
    BY <2>3, StampingGof
  <2> QED BY <2>2, <2>3, <2>4 DEF Timed, x
<1> DEFINE G(k) == StampGof(s[k], (ts + (k - 1) * FrameDuration) % Wrap)
<1>2. SetTimestamps(s, ts) = [k \in 1..Len(s) |-> G(k)]
  BY DEF SetTimestamps
<1>3. \A k \in 1..Len(s) : G(k) \in Timed
  BY <1>1
<1> HIDE DEF G
<1>4. Len(s) \in Nat
  OBVIOUS
<1> QED BY <1>2, <1>3, <1>4

(* parse_bitstream leaves unstamped GoFs.                                     *)
LEMMA ParseClosed ==
  ASSUME NEW chunk \in Seq(Types), NEW n \in Nat PROVE ParseBitstream(chunk, n) \in Seq(Untimed)
<1>1. PICK f : ParseLoop(f, chunk, n)
  BY ParseLoops
<1>2. Len(chunk) \in 0..Len(chunk)
  OBVIOUS
<1> QED BY <1>1, <1>2 DEF ParseLoop

(* push_back of a stream: unstamped GoFs joined to stamped ones are stamped.  *)
LEMMA JoinClosed ==
  ASSUME NEW s \in Seq(Timed), NEW other \in Seq(Untimed)
  PROVE  PushStream(s, other) \in Seq(IF s = <<>> THEN Untimed ELSE Timed)
<1> DEFINE L == IF s = <<>> THEN Untimed ELSE Timed  o == Stamped(s, other)
<1>1. o \in Seq(L) /\ Len(o) = Len(other)
  <2>1. CASE s = <<>>
    BY <2>1 DEF Stamped
  <2>2. CASE s # <<>> /\ other = <<>>
    <3>1. SetTimestamps(other, NextInstant(BackTs(s))) = <<>>
      BY <2>2 DEF SetTimestamps
    <3>2. o = <<>>
      BY <2>2, <3>1 DEF Stamped
    <3>3. L = Timed /\ Len(o) = Len(other)
      BY <2>2, <3>2
    <3> HIDE DEF o
    <3>4. o \in Seq(Timed)
      BY <3>2
    <3> QED BY <3>3, <3>4
  <2>3. CASE s # <<>> /\ other # <<>>
    <3>1. s[Len(s)] \in Timed /\ other[1] \in Untimed
      BY <2>3
    <3>2. s[Len(s)].ts \in Nat /\ other[1].ts = Unset
      BY <3>1, GofTimed
    <3>3. o = SetTimestamps(other, NextInstant(BackTs(s)))
      BY <2>3, <3>2, ClockAssumption DEF Stamped, IsSet
    <3>4. TsOf(s[Len(s)].ts) \in Nat
      BY <3>2, ClockAssumption DEF TsOf
    <3>5. NextInstant(BackTs(s)) \in Nat
      BY <3>4, NextIsNat DEF BackTs
    <3>6. other \in Seq(Timed \cup Untimed)
      OBVIOUS
    <3>7. o \in Seq(Timed) /\ Len(o) = Len(other)
      BY <3>3, <3>5, <3>6, StampsAll
    <3> QED BY <2>3, <3>7
  <2> QED BY <2>1, <2>2, <2>3
<1>2. L \in {Timed, Untimed} /\ s \in Seq(L)
  OBVIOUS
<1> HIDE DEF L
<1>3. PICK f : JoinLoop(f, s, o, L) /\ PushStream(s, other) = f[Len(other)]
  BY <1>1, <1>2, JoinLoops
<1>4. Len(other) \in 0..Len(o)
  BY <1>1
<1> HIDE DEF o
<1>5. f[Len(other)] \in Seq(L)
  BY <1>3, <1>4 DEF JoinLoop
<1> QED BY <1>3, <1>5 DEF L

-----------------------------------------------------------------------------
(* The stream always consists of stamped GoFs with current sizes.           *)
StreamInv ==
  /\ initial_timestamp \in Nat /\ given \in Seq(Types)
  /\ data # NoData => data \in Seq(Timed)

(* A handle starts with such a stream, or with none.                          *)
LEMMA StreamInvInit == Init => StreamInv
BY SenderAssumption DEF Init, StreamInv

(* Every call keeps it so.                                                    *)
LEMMA StreamInvNext == StreamInv /\ [Next]_vars => StreamInv'
<1> SUFFICES ASSUME StreamInv, [Next]_vars PROVE StreamInv'
  OBVIOUS
<1>1. Parsed \in Nat
  BY DEF StreamInv, Parsed
<1>2. CASE InitEmpty
  BY <1>2 DEF InitEmpty, StreamInv
<1>3. ASSUME NEW c \in InitChunks, InitBitstream(c) PROVE StreamInv'
  <2>1. c \in Seq(Types)
    BY SenderAssumption
  <2>2. ParseBitstream(c, Parsed) \in Seq(Untimed)
    BY <1>1, <2>1, ParseClosed
  <2>3. ParseBitstream(c, Parsed) \in Seq(Timed \cup Untimed)
    BY <2>2
  <2>4. data' \in Seq(Timed)
    BY <1>3, <2>3, StampsAll DEF InitBitstream, StreamInv
  <2> QED BY <1>3, <2>1, <2>4 DEF InitBitstream, StreamInv
<1>4. ASSUME NEW c \in AppendChunks, AppendBitstream(c) PROVE StreamInv'
  <2>1. c \in Seq(Types)
    BY SenderAssumption
  <2>2. CASE UNCHANGED <<data, given>>
    BY <1>4, <2>2 DEF AppendBitstream, StreamInv
  <2> DEFINE p == ParseBitstream(c, Parsed)  s == PushStream(data, p)
  <2>3. CASE /\ data' = IF data = <<>> THEN SetTimestamps(s, initial_timestamp) ELSE s
             /\ given' = given \o c
    <3>1. p \in Seq(Untimed) /\ data \in Seq(Timed)
      BY <1>1, <1>4, <2>1, ParseClosed DEF AppendBitstream, StreamInv
    <3> HIDE DEF p
    <3>2. s \in Seq(IF data = <<>> THEN Untimed ELSE Timed)
      BY <3>1, JoinClosed
    <3> HIDE DEF s
    <3>3. CASE data = <<>>
      <4>1. s \in Seq(Timed \cup Untimed)
        BY <3>2, <3>3
      <4>2. data' \in Seq(Timed)
        BY <2>3, <3>3, <4>1, StampsAll DEF StreamInv
      <4> QED BY <1>4, <2>1, <2>3, <4>2 DEF AppendBitstream, StreamInv
    <3>4. CASE data # <<>>
      BY <1>4, <2>1, <2>3, <3>2, <3>4 DEF AppendBitstream, StreamInv
    <3> QED BY <3>3, <3>4
  <2> QED BY <1>4, <2>2, <2>3 DEF AppendBitstream
<1>5. ASSUME NEW t \in AppendTypes, AppendUnit(t) PROVE StreamInv'
  <2>1. t \in Types /\ Parsed + 1 \in Nat /\ data \in Seq(Timed)
    BY <1>1, <1>5, SenderAssumption DEF AppendUnit, StreamInv
  <2> DEFINE u == NewUnit(Parsed + 1)  s == PushUnit(data, t, u).stream
  <2>2. u = Unit(Parsed + 1, Unset)
    BY DEF NewUnit, Unit
  <2> HIDE DEF u
  <2>3. data' = IF data = <<>> THEN SetTimestamps(s, initial_timestamp) ELSE s
    BY <1>5 DEF AppendUnit, u
  <2>4. CASE data = <<>>
    <3>1. data \in Seq(Like(Unset)) /\ Unset \in Stamps /\ Like(Unset) = Untimed
      BY <2>4 DEF Like, IsSet, Stamps
    <3>2. s \in Seq(Untimed)
      BY <2>1, <2>2, <3>1, Closed
    <3>3. s \in Seq(Timed \cup Untimed)
      BY <3>2
    <3> HIDE DEF s
    <3>4. data' \in Seq(Timed)
      BY <2>3, <2>4, <3>3, StampsAll DEF StreamInv
    <3> QED BY <1>5, <2>1, <3>4 DEF AppendUnit, StreamInv
  <2>5. CASE data # <<>>
    <3>1. s \in Seq(Timed)
      BY <2>1, <2>2, <2>5, ClosedTimed
    <3> HIDE DEF s
    <3> QED BY <1>5, <2>1, <2>3, <2>5, <3>1 DEF AppendUnit, StreamInv
  <2> QED BY <2>4, <2>5
<1>6. CASE ClearSampleStream
  <2>1. initial_timestamp' \in Nat
    <3>1. CASE data = <<>>
      BY <1>6, <3>1 DEF ClearSampleStream, StreamInv
    <3>2. CASE data # <<>>
      <4>1. data[Len(data)] \in Timed
        BY <1>6, <3>2 DEF ClearSampleStream, StreamInv
      <4>2. TsOf(data[Len(data)].ts) \in Nat
        BY <4>1, GofTimed, ClockAssumption DEF TsOf
      <4>3. NextInstant(BackTs(data)) \in Nat
        BY <4>2, NextIsNat DEF BackTs
      <4> QED BY <1>6, <3>2, <4>3 DEF ClearSampleStream
    <3> QED BY <3>1, <3>2
  <2> QED BY <1>6, <2>1 DEF ClearSampleStream, StreamInv
<1>7. CASE UNCHANGED <<data, initial_timestamp, given>>
  BY <1>7 DEF StreamInv
<1>8. SendBitstream => UNCHANGED <<data, initial_timestamp, given>>
  BY DEF SendBitstream
<1>9. \A k \in 1..MaxUnits : SendGof(k) => UNCHANGED <<data, initial_timestamp, given>>
  BY DEF SendGof
<1>10. \A k \in 1..MaxUnits, t \in Types :
         SendUnit(k, t) => UNCHANGED <<data, initial_timestamp, given>>
  BY DEF SendUnit
<1>11. UNCHANGED vars => UNCHANGED <<data, initial_timestamp, given>>
  BY DEF vars
<1> QED BY <1>2, <1>3, <1>4, <1>5, <1>6, <1>7, <1>8, <1>9, <1>10, <1>11 DEF Next, Stopped

(* The inductive invariant of stamps and sizes.                               *)
THEOREM StreamInvariant == Spec => []StreamInv
<1>1. Init => StreamInv
  BY StreamInvInit
<1>2. StreamInv /\ [Next]_vars => StreamInv'
  BY StreamInvNext
<1> QED BY <1>1, <1>2, PTL DEF Spec

(* The GoFs that a handle holds.                                              *)
LEMMA HeldTimed ==
  ASSUME StreamInv, NEW k \in DOMAIN Held
  PROVE  \E ids \in IdMaps, ts \in Nat : Held[k] = Gof(ts, ids)
<1>1. data # NoData /\ Held \in Seq(Timed)
  BY DEF Held, StreamInv
<1>2. Held[k] \in Timed
  BY <1>1
<1> QED BY <1>2 DEF Timed

(* In a sending handle every GoF, unit and NALU has the timestamp of its GoF, *)
(* whatever was loaded, appended, sent or cleared                             *)
(* (Sample_Stream::set_timestamps, push_back).                                *)
THEOREM AllStamped == Spec => []StampedThroughout
<1>1. StreamInv => StampedThroughout
  <2> SUFFICES ASSUME StreamInv, NEW k \in DOMAIN Held, NEW t \in DOMAIN Held[k].units
      PROVE /\ Held[k].units[t].ts = Held[k].ts
            /\ \A i \in DOMAIN Held[k].units[t].nalus : Held[k].units[t].nalus[i].ts = Held[k].ts
    BY DEF StampedThroughout
  <2>1. PICK ids \in IdMaps, ts \in Nat : Held[k] = Gof(ts, ids)
    BY HeldTimed
  <2>2. Held[k].ts = ts /\ Held[k].units[t] = Unit(ids[t], ts)
    BY <2>1 DEF Gof
  <2> QED BY <2>2 DEF Unit
<1> QED BY <1>1, StreamInvariant, PTL

(* The size that the stream records for a unit is always the unit's size      *)
(* (Sample_Stream::push_back, the map of sizes).                              *)
THEOREM SizesKept == Spec => []SizesCurrent
<1>1. StreamInv => SizesCurrent
  <2> SUFFICES ASSUME StreamInv, NEW k \in DOMAIN Held
      PROVE Held[k].sizes = [t \in DOMAIN Held[k].units |-> UnitSize(Held[k].units[t])]
    BY DEF SizesCurrent
  <2>1. PICK ids \in IdMaps, ts \in Nat : Held[k] = Gof(ts, ids)
    BY HeldTimed
  <2>2. \A t : UnitSize(Unit(ids[t], ts)) = 1
    BY DEF UnitSize, Unit
  <2> QED BY <2>1, <2>2 DEF Gof
<1> QED BY <1>1, StreamInvariant, PTL

-----------------------------------------------------------------------------
(* Instants modulo Wrap.                                                    *)
LEMMA Division ==
  ASSUME NEW a \in Nat
  PROVE  /\ (a % Wrap) \in 0..(Wrap - 1) /\ a \div Wrap \in Nat
         /\ a = (Wrap * (a \div Wrap)) + (a % Wrap)
BY ClockAssumption

(* A number has one remainder.                                                *)
LEMMA SameRemainder ==
  ASSUME NEW q \in Int, NEW r \in 0..(Wrap - 1), NEW p \in Int, NEW s \in 0..(Wrap - 1),
         (Wrap * q) + r = (Wrap * p) + s
  PROVE  r = s
<1>1. Wrap * (q - p) = s - r
  BY ClockAssumption
<1>2. q - p <= 0
  <2> SUFFICES ASSUME q - p >= 1 PROVE FALSE
    OBVIOUS
  <2>1. Wrap * (q - p) >= Wrap
    BY ClockAssumption
  <2> QED BY <2>1, <1>1, ClockAssumption
<1>3. q - p >= 0
  <2> SUFFICES ASSUME p - q >= 1 PROVE FALSE
    OBVIOUS
  <2>1. Wrap * (p - q) >= Wrap
    BY ClockAssumption
  <2>2. Wrap * (p - q) = r - s
    BY ClockAssumption
  <2> QED BY <2>1, <2>2, ClockAssumption
<1> QED BY <1>1, <1>2, <1>3, ClockAssumption

(* The remainder may be taken before adding.                                  *)
LEMMA ModAdd ==
  ASSUME NEW a \in Nat, NEW b \in Nat PROVE ((a % Wrap) + b) % Wrap = (a + b) % Wrap
<1> DEFINE x == (a % Wrap) + b  y == a + b
<1>1. x \in Nat /\ y \in Nat /\ y = x + Wrap * (a \div Wrap) /\ a \div Wrap \in Nat
  BY Division, ClockAssumption
<1>2. x = (Wrap * (x \div Wrap)) + (x % Wrap) /\ x \div Wrap \in Nat /\ (x % Wrap) \in 0..(Wrap - 1)
  BY Division, <1>1
<1>3. y = (Wrap * (y \div Wrap)) + (y % Wrap) /\ y \div Wrap \in Nat /\ (y % Wrap) \in 0..(Wrap - 1)
  BY Division, <1>1
<1> HIDE DEF x, y
<1>4. Wrap * ((x \div Wrap) + (a \div Wrap)) = Wrap * (x \div Wrap) + Wrap * (a \div Wrap)
  BY <1>1, <1>2, ClockAssumption
<1>5. Wrap * ((x \div Wrap) + (a \div Wrap)) + (x % Wrap) = (Wrap * (y \div Wrap)) + (y % Wrap)
  BY <1>1, <1>2, <1>3, <1>4, ClockAssumption
<1>6. (x \div Wrap) + (a \div Wrap) \in Int /\ y \div Wrap \in Int
  BY <1>1, <1>2, <1>3
<1>7. x % Wrap = y % Wrap
  BY <1>2, <1>3, <1>5, <1>6, SameRemainder
<1> QED BY <1>7 DEF x, y

(* Two numbers less than Wrap apart have different remainders.              *)
LEMMA Apart ==
  ASSUME NEW a \in Nat, NEW b \in Nat, a < b, b - a < Wrap PROVE a % Wrap # b % Wrap
<1> SUFFICES ASSUME a % Wrap = b % Wrap PROVE FALSE
  OBVIOUS
<1> DEFINE p == a \div Wrap  q == b \div Wrap
<1>1. a = (Wrap * p) + (a % Wrap) /\ p \in Nat /\ (a % Wrap) \in 0..(Wrap - 1)
  BY Division
<1>2. b = (Wrap * q) + (b % Wrap) /\ q \in Nat
  BY Division
<1> HIDE DEF p, q
<1>3. Wrap * (q - p) = (Wrap * q) - (Wrap * p)
  BY <1>1, <1>2, ClockAssumption
<1>4. Wrap * p \in Nat /\ Wrap * q \in Nat
  BY <1>1, <1>2, ClockAssumption
<1>5. Wrap * (q - p) = b - a
  BY <1>1, <1>2, <1>3, <1>4
<1>6. q - p >= 1
  <2> SUFFICES ASSUME p - q >= 0 PROVE FALSE
    BY <1>1, <1>2
  <2>1. Wrap * (p - q) >= 0
    BY <1>1, <1>2, ClockAssumption
  <2>2. Wrap * (p - q) = (Wrap * p) - (Wrap * q)
    BY <1>1, <1>2, ClockAssumption
  <2> QED BY <2>1, <2>2, <1>3, <1>4, <1>5
<1>7. Wrap * (q - p) >= Wrap
  BY <1>1, <1>2, <1>6, ClockAssumption
<1> QED BY <1>5, <1>7, ClockAssumption

(* The instant of the k-th GoF of a stream that starts at start.            *)
Instant(start, k) == IF IsSet(start) THEN (start + (k - 1) * FrameDuration) % Wrap ELSE Unset

(* Multiples of the frame duration.                                           *)
LEMMA Times ==
  /\ \A k \in Nat : k * FrameDuration \in Nat
  /\ \A j, k \in Nat : (j + k) * FrameDuration = j * FrameDuration + k * FrameDuration
  /\ \A j, k \in Nat : j <= k => j * FrameDuration <= k * FrameDuration
  /\ \A j, k \in Nat : j < k => j * FrameDuration < k * FrameDuration
<1>1. FrameDuration \in Nat /\ FrameDuration > 0
  BY ClockAssumption
<1>2. \A j, k \in Nat : j <= k => j * FrameDuration <= k * FrameDuration
  BY <1>1
<1>3. \A j, k \in Nat : j < k => j * FrameDuration < k * FrameDuration
  BY <1>1
<1> QED BY <1>1, <1>2, <1>3

(* The instants of a stream that starts at a timestamp.                       *)
LEMMA InstantIs ==
  ASSUME NEW start \in Nat
  PROVE  \A j \in Nat : /\ Instant(start, j + 1) = (start + j * FrameDuration) % Wrap
                        /\ Instant(start, j + 1) \in 0..(Wrap - 1)
<1> TAKE j \in Nat
<1>1. (j + 1) - 1 = j /\ IsSet(start)
  BY ClockAssumption DEF IsSet
<1>2. j * FrameDuration \in Nat
  BY Times
<1> DEFINE a == start + j * FrameDuration
<1>3. a \in Nat
  BY <1>2
<1>4. (a % Wrap) \in 0..(Wrap - 1)
  BY <1>3, Division
<1> QED BY <1>1, <1>4 DEF Instant

(* They are timestamps.                                                       *)
LEMMA InstantStamp ==
  ASSUME NEW start \in Nat, NEW k \in Nat, k > 0
  PROVE  /\ Instant(start, k) \in Nat /\ IsSet(Instant(start, k))
         /\ TsOf(Instant(start, k)) = Instant(start, k)
<1> DEFINE j == k - 1
<1>1. j \in Nat /\ k = j + 1
  OBVIOUS
<1> HIDE DEF j
<1>2. Instant(start, j + 1) \in Nat
  BY <1>1, InstantIs, ClockAssumption
<1> QED BY <1>1, <1>2, ClockAssumption DEF IsSet, TsOf

(* The instants from the k-th on.                                           *)
LEMMA InstantFrom ==
  ASSUME NEW start \in Nat, NEW j \in Nat, NEW k \in Nat
  PROVE  Instant(Instant(start, j + 1), k + 1) = Instant(start, j + k + 1)
<1> DEFINE a == start + j * FrameDuration  b == k * FrameDuration  c == (j + k) * FrameDuration
<1>1. a \in Nat /\ b \in Nat /\ start + c = a + b
  <2> DEFINE d == j * FrameDuration
  <2>1. d \in Nat /\ b \in Nat
    BY Times
  <2>2. c = d + b
    BY Times
  <2> HIDE DEF b, c, d
  <2> QED BY <2>1, <2>2 DEF d
<1>2. Instant(start, j + 1) = a % Wrap /\ Instant(start, j + 1) \in Nat
  BY InstantIs, ClockAssumption
<1>3. Instant(Instant(start, j + 1), k + 1) = ((a % Wrap) + b) % Wrap
  BY <1>2, InstantIs
<1>4. Instant(start, (j + k) + 1) = (start + c) % Wrap
  BY InstantIs
<1> HIDE DEF a, b, c
<1>5. ((a % Wrap) + b) % Wrap = (a + b) % Wrap
  BY <1>1, ModAdd
<1> QED BY <1>1, <1>3, <1>4, <1>5

(* next_timestamp gives the instant that follows.                             *)
LEMMA InstantNext ==
  ASSUME NEW start \in Nat, NEW j \in Nat
  PROVE  NextInstant(Instant(start, j + 1)) = Instant(start, j + 2)
<1>1. Instant(start, j + 1) \in Nat
  BY InstantIs, ClockAssumption
<1>2. Instant(Instant(start, j + 1), 1 + 1) = (Instant(start, j + 1) + 1 * FrameDuration) % Wrap
  BY <1>1, InstantIs
<1>3. 1 * FrameDuration = FrameDuration
  BY ClockAssumption
<1>4. Instant(Instant(start, j + 1), 1 + 1) = Instant(start, j + 1 + 1)
  BY InstantFrom
<1>5. j + 1 + 1 = j + 2
  OBVIOUS
<1> QED BY <1>2, <1>3, <1>4, <1>5 DEF NextInstant

(* Two instants less than the clock apart differ.                             *)
LEMMA InstantsApart ==
  ASSUME NEW start \in Nat, NEW j \in Nat, NEW k \in Nat, j < k, k * FrameDuration < Wrap
  PROVE  Instant(start, j + 1) # Instant(start, k + 1)
<1> DEFINE a == j * FrameDuration  b == k * FrameDuration
<1>1. a \in Nat /\ b \in Nat /\ a < b
  BY Times
<1>2. Instant(start, j + 1) = (start + a) % Wrap /\ Instant(start, k + 1) = (start + b) % Wrap
  BY InstantIs
<1> HIDE DEF a, b
<1>3. b < Wrap
  BY DEF b
<1>4. /\ start + a \in Nat /\ start + b \in Nat
      /\ start + a < start + b /\ (start + b) - (start + a) < Wrap
  BY <1>1, <1>3, ClockAssumption
<1> QED BY <1>2, <1>4, Apart

-----------------------------------------------------------------------------
(* A stream of GoFs at the instants from start on.                          *)
Table(start, ids) == [k \in 1..Len(ids) |-> Gof(Instant(start, k), ids[k])]

(* Its parts.                                                                 *)
LEMMA TableIs ==
  ASSUME NEW start \in Stamps, NEW ids \in Seq(IdMaps)
  PROVE  /\ Table(start, ids) \in Seq(Like(start)) /\ Len(Table(start, ids)) = Len(ids)
         /\ Len(ids) \in Nat /\ (Table(start, ids) = <<>> <=> ids = <<>>)
         /\ DOMAIN Table(start, ids) = 1..Len(ids)
         /\ \A k \in 1..Len(ids) : /\ Table(start, ids)[k] = Gof(Instant(start, k), ids[k])
                                   /\ ids[k] \in IdMaps
                                   /\ Table(start, ids)[k].ts = Instant(start, k)
                                   /\ DOMAIN Table(start, ids)[k].units = DOMAIN ids[k]
<1> DEFINE s == Table(start, ids)
<1>1. \A k \in 1..Len(ids) : s[k] = Gof(Instant(start, k), ids[k]) /\ ids[k] \in IdMaps
  BY DEF Table
<1>2. \A k \in 1..Len(ids) : s[k].ts = Instant(start, k) /\ DOMAIN s[k].units = DOMAIN ids[k]
  <2>1. \A ts, i : Gof(ts, i).ts = ts /\ DOMAIN Gof(ts, i).units = DOMAIN i
    BY DEF Gof
  <2> HIDE DEF s
  <2> QED BY <1>1, <2>1
<1>3. ASSUME NEW k \in 1..Len(ids) PROVE s[k] \in Like(start)
  <2>1. CASE start = Unset
    BY <1>1, <2>1 DEF Like, Untimed, Instant, IsSet
  <2>2. CASE start \in Nat
    <3>1. Instant(start, k) \in Nat
      BY <2>2, InstantStamp
    <3> HIDE DEF s
    <3>2. s[k] \in Timed
      BY <1>1, <3>1 DEF Timed
    <3> QED BY <2>2, <3>2, ClockAssumption DEF Like, IsSet
  <2> QED BY <2>1, <2>2 DEF Stamps
<1>4. s \in [1..Len(ids) -> Like(start)] /\ Len(ids) \in Nat
  BY <1>3 DEF Table
<1>5. s \in Seq(Like(start)) /\ Len(s) = Len(ids) /\ DOMAIN s = 1..Len(ids)
  <2> HIDE DEF s
  <2> QED BY <1>4
<1>6. s = <<>> <=> ids = <<>>
  <2> HIDE DEF s
  <2> QED BY <1>5
<1> QED BY <1>1, <1>2, <1>4, <1>5, <1>6

(* set_timestamps on such a stream only moves its start.                      *)
LEMMA TableStamped ==
  ASSUME NEW start \in Stamps, NEW ids \in Seq(IdMaps), NEW ts \in Nat
  PROVE  SetTimestamps(Table(start, ids), ts) = Table(ts, ids)
<1> DEFINE s == Table(start, ids)
<1>1. DOMAIN s = 1..Len(ids) /\ \A k \in 1..Len(ids) : s[k] = Gof(Instant(start, k), ids[k])
  BY TableIs
<1> HIDE DEF s
<1>2. ASSUME NEW k \in 1..Len(ids)
      PROVE StampGof(s[k], (ts + (k - 1) * FrameDuration) % Wrap) = Gof(Instant(ts, k), ids[k])
  <2>1. (ts + (k - 1) * FrameDuration) % Wrap = Instant(ts, k)
    BY ClockAssumption DEF Instant, IsSet
  <2> HIDE DEF Instant
  <2>2. StampGof(Gof(Instant(start, k), ids[k]), Instant(ts, k)) = Gof(Instant(ts, k), ids[k])
    BY StampingGof
  <2> QED BY <1>1, <2>1, <2>2
<1> DEFINE G(k) == StampGof(s[k], (ts + (k - 1) * FrameDuration) % Wrap)
<1>3. SetTimestamps(s, ts) = [k \in 1..Len(ids) |-> G(k)]
  BY <1>1 DEF SetTimestamps
<1>4. \A k \in 1..Len(ids) : G(k) = Gof(Instant(ts, k), ids[k])
  BY <1>2
<1> HIDE DEF G
<1> QED BY <1>3, <1>4 DEF Table, s

(* Appending a GoF at the next instant.                                       *)
LEMMA TableAppend ==
  ASSUME NEW start \in Stamps, NEW ids \in Seq(IdMaps), NEW m \in IdMaps
  PROVE  Append(Table(start, ids), Gof(Instant(start, Len(ids) + 1), m))
           = Table(start, Append(ids, m))
<1> DEFINE s == Table(start, ids)  g == Gof(Instant(start, Len(ids) + 1), m)  n == Len(ids)
           q == Append(ids, m)  r == Table(start, q)
<1>1. n \in Nat /\ s \in Seq(Like(start)) /\ Len(s) = n
  BY TableIs
<1>2. \A k \in 1..n : s[k] = Gof(Instant(start, k), ids[k])
  BY TableIs
<1>3. q \in Seq(IdMaps) /\ Len(q) = n + 1 /\ q[n + 1] = m /\ \A k \in 1..n : q[k] = ids[k]
  OBVIOUS
<1>4. r \in Seq(Like(start)) /\ Len(r) = n + 1
  BY <1>3, TableIs
<1>5. \A k \in 1..(n + 1) : r[k] = Gof(Instant(start, k), q[k])
  BY <1>3, TableIs
<1> HIDE DEF s, g, q, r, n
<1>6. \A S : \A x \in Seq(S) : \A y : DOMAIN Append(x, y) = 1..(Len(x) + 1) /\ Len(x) \in Nat
        /\ Append(x, y)[Len(x) + 1] = y /\ \A k \in 1..Len(x) : Append(x, y)[k] = x[k]
  OBVIOUS
<1>7. DOMAIN Append(s, g) = 1..(n + 1) /\ Append(s, g)[n + 1] = g
      /\ \A k \in 1..n : Append(s, g)[k] = s[k]
  BY <1>1, <1>6
<1>8. \A k \in 1..(n + 1) : Append(s, g)[k] = r[k]
  <2>1. g = Gof(Instant(start, n + 1), q[n + 1])
    BY <1>3 DEF g, n
  <2>2. \A k \in 1..(n + 1) : k \in 1..n \/ k = n + 1
    BY <1>1
  <2>3. n + 1 \in 1..(n + 1)
    BY <1>1
  <2> QED BY <1>2, <1>3, <1>5, <1>7, <2>1, <2>2, <2>3
<1>9. \A S : \A x \in Seq(S) : x = [k \in 1..Len(x) |-> x[k]]
  OBVIOUS
<1>10. r = [k \in 1..(n + 1) |-> r[k]]
  BY <1>4, <1>9
<1>11. Append(s, g) = [k \in 1..(n + 1) |-> Append(s, g)[k]]
  <2>1. g \in Like(start)
    <3>1. n + 1 \in 1..(n + 1) /\ r[n + 1] = g
      BY <1>1, <1>3, <1>5 DEF g, n
    <3> QED BY <1>4, <3>1
  <2>2. \A S : \A x \in Seq(S), y \in S : Append(x, y) \in Seq(S) /\ Len(Append(x, y)) = Len(x) + 1
    OBVIOUS
  <2>3. Append(s, g) \in Seq(Like(start)) /\ Len(Append(s, g)) = n + 1
    BY <1>1, <2>1, <2>2
  <2> QED BY <1>9, <2>3
<1>12. Append(s, g) = r
  BY <1>8, <1>10, <1>11
<1> QED BY <1>12 DEF s, g, r, q, n

(* Replacing a GoF by one with other units.                                   *)
LEMMA TableSet ==
  ASSUME NEW start \in Stamps, NEW ids \in Seq(IdMaps), NEW m \in IdMaps, NEW k \in 1..Len(ids)
  PROVE  [Table(start, ids) EXCEPT ![k] = Gof(Instant(start, k), m)]
           = Table(start, [ids EXCEPT ![k] = m])
<1> DEFINE s == Table(start, ids)  q == [ids EXCEPT ![k] = m]
<1>1. q \in Seq(IdMaps) /\ Len(q) = Len(ids) /\ q[k] = m
      /\ \A j \in 1..Len(ids) : j # k => q[j] = ids[j]
  OBVIOUS
<1>2. DOMAIN s = 1..Len(ids) /\ \A j \in 1..Len(ids) : s[j] = Gof(Instant(start, j), ids[j])
  BY TableIs
<1>3. s = [j \in 1..Len(ids) |-> s[j]]
  BY DEF Table
<1> HIDE DEF s, q
<1>4. [s EXCEPT ![k] = Gof(Instant(start, k), m)]
        = [j \in 1..Len(ids) |-> IF j = k THEN Gof(Instant(start, k), m) ELSE s[j]]
  BY <1>2, <1>3
<1>5. \A j \in 1..Len(ids) : (IF j = k THEN Gof(Instant(start, k), m) ELSE s[j])
                               = Gof(Instant(start, j), q[j])
  BY <1>1, <1>2
<1>6. Table(start, q) = [j \in 1..Len(ids) |-> Gof(Instant(start, j), q[j])]
  BY <1>1 DEF Table
<1>7. [s EXCEPT ![k] = Gof(Instant(start, k), m)] = Table(start, q)
  BY <1>4, <1>5, <1>6, Zenon
<1> QED BY <1>7 DEF s, q

-----------------------------------------------------------------------------
(* Filing by type, seen on the numbers of the units alone.                  *)
Free(ids, t, k) ==
  /\ k \in 1..(Len(ids) + 1) /\ (k > 1 => t \in DOMAIN ids[k - 1])
  /\ \A j \in k..Len(ids) : t \notin DOMAIN ids[j]

(* There is one such place.                                                   *)
LEMMA FreeUnique ==
  ASSUME NEW ids \in Seq(IdMaps), NEW t, NEW j, NEW k, Free(ids, t, j), Free(ids, t, k)
  PROVE  j = k
<1>1. Len(ids) \in Nat
  OBVIOUS
<1>2. ASSUME NEW a \in 1..(Len(ids) + 1), NEW b \in 1..(Len(ids) + 1), a < b,
             \A i \in a..Len(ids) : t \notin DOMAIN ids[i], b > 1 => t \in DOMAIN ids[b - 1]
      PROVE FALSE
  <2>1. b - 1 \in a..Len(ids) /\ b > 1
    BY <1>1, <1>2
  <2> QED BY <1>2, <2>1
<1>3. j \in 1..(Len(ids) + 1) /\ k \in 1..(Len(ids) + 1)
  BY DEF Free
<1>4. ~ j < k
  BY <1>2, <1>3 DEF Free
<1>5. ~ k < j
  BY <1>2, <1>3 DEF Free
<1> QED BY <1>1, <1>3, <1>4, <1>5

(* That place, and the numbers after filing the unit id of type t there.      *)
FreeSlot(ids, t) == CHOOSE k : Free(ids, t, k)
File(ids, t, id) ==
  LET k == FreeSlot(ids, t)
  IN IF k > Len(ids) THEN Append(ids, One(t, id)) ELSE [ids EXCEPT ![k] = Emplace(ids[k], t, id)]

(* find_free_gof finds it.                                                    *)
LEMMA FreeInTable ==
  ASSUME NEW start \in Stamps, NEW ids \in Seq(IdMaps), NEW t
  PROVE  FindFreeGof(Table(start, ids), t) = FreeSlot(ids, t) /\ Free(ids, t, FreeSlot(ids, t))
<1> DEFINE s == Table(start, ids)  k == FindFreeGof(s, t)
<1>1. /\ Len(s) = Len(ids) /\ Len(s) \in Nat
      /\ \A j \in 1..Len(ids) : DOMAIN s[j].units = DOMAIN ids[j]
  BY TableIs
<1> HIDE DEF s
<1>2. /\ k \in 1..(Len(s) + 1) /\ (k > 1 => t \in DOMAIN s[k - 1].units)
      /\ \A j \in k..Len(s) : t \notin DOMAIN s[j].units
  BY <1>1, FreeGof
<1> HIDE DEF k
<1>3. k > 1 => k - 1 \in 1..Len(ids)
  BY <1>1, <1>2
<1>4. \A j \in k..Len(ids) : j \in 1..Len(ids)
  BY <1>1, <1>2
<1>5. Free(ids, t, k)
  BY <1>1, <1>2, <1>3, <1>4 DEF Free
<1>6. Free(ids, t, FreeSlot(ids, t))
  BY <1>5 DEF FreeSlot
<1>7. FreeSlot(ids, t) = k
  BY <1>5, <1>6, FreeUnique
<1> QED BY <1>6, <1>7 DEF k, s

(* Filing makes the stream at most one GoF longer.                            *)
LEMMA FileIs ==
  ASSUME NEW ids \in Seq(IdMaps), NEW t \in Types, NEW id \in Nat
  PROVE  /\ File(ids, t, id) \in Seq(IdMaps) /\ File(ids, t, id) # <<>>
         /\ Len(File(ids, t, id)) \in {Len(ids), Len(ids) + 1}
<1> DEFINE k == FreeSlot(ids, t)
<1>1. k \in 1..(Len(ids) + 1) /\ Len(ids) \in Nat
  BY FreeInTable DEF Free, Stamps
<1> HIDE DEF k
<1>2. CASE k > Len(ids)
  <2>1. File(ids, t, id) = Append(ids, One(t, id))
    BY <1>2 DEF File, k
  <2>2. One(t, id) \in IdMaps
    BY OneIdMap
  <2> QED BY <2>1, <2>2
<1>3. CASE ~ k > Len(ids)
  <2>1. File(ids, t, id) = [ids EXCEPT ![k] = Emplace(ids[k], t, id)]
    BY <1>3 DEF File, k
  <2>2. k \in 1..Len(ids) /\ ids[k] \in IdMaps
    BY <1>1, <1>3
  <2>3. Emplace(ids[k], t, id) \in IdMaps
    BY <2>2, MoreIdMap
  <2> QED BY <2>1, <2>2, <2>3
<1> QED BY <1>2, <1>3

(* A unit without timestamp is filed by its type, and a new GoF gets the    *)
(* instant after the last one.                                              *)
LEMMA PushFiles ==
  ASSUME NEW start \in Stamps, NEW ids \in Seq(IdMaps), IsSet(start) => ids # <<>>,
         NEW t \in Types, NEW id \in Nat
  PROVE  PushUnit(Table(start, ids), t, Unit(id, Unset)).stream = Table(start, File(ids, t, id))
<1> DEFINE s == Table(start, ids)  k == Slot(s, t, Unset)  n == Len(ids)
           r == PushUnit(s, t, Unit(id, Unset)).stream
<1>1. n \in Nat /\ Len(s) = n /\ (s = <<>> <=> ids = <<>>)
  BY TableIs
<1>2. \A j \in 1..n : s[j] = Gof(Instant(start, j), ids[j]) /\ s[j].ts = Instant(start, j)
                      /\ ids[j] \in IdMaps
  BY TableIs
<1>3. k = FreeSlot(ids, t) /\ k \in 1..(n + 1)
  BY FreeInTable DEF Slot, IsSet, Free
<1> HIDE DEF s
<1>4. CASE k > n
  <2>1. r = Append(s, Gof(NewTs(s, Unset), One(t, id)))
    BY <1>1, <1>4, PushNew
  <2>2. NewTs(s, Unset) = Instant(start, n + 1)
    <3>1. CASE start = Unset
      <4>1. s # <<>> => s[n].ts = Unset
        BY <1>1, <1>2, <3>1 DEF Instant, IsSet
      <4> QED BY <1>1, <3>1, <4>1 DEF NewTs, Instant, IsSet
    <3>2. CASE start \in Nat
      <4>1. IsSet(start) /\ s # <<>> /\ n \in 1..n
        BY <1>1, <3>2, ClockAssumption DEF IsSet
      <4>2. s[n].ts = Instant(start, n)
        BY <1>2, <4>1
      <4>3. n > 0 /\ n \in Nat
        BY <4>1
      <4>4. IsSet(Instant(start, n)) /\ TsOf(Instant(start, n)) = Instant(start, n)
        BY <3>2, <4>3, InstantStamp
      <4>5. NextInstant(Instant(start, n)) = Instant(start, n + 1)
        <5> DEFINE j == n - 1
        <5>1. j \in Nat /\ n = j + 1 /\ n + 1 = j + 2
          BY <4>3
        <5> HIDE DEF j, n
        <5>2. NextInstant(Instant(start, j + 1)) = Instant(start, j + 2)
          BY <3>2, <5>1, InstantNext
        <5> QED BY <5>1, <5>2
      <4> QED BY <1>1, <4>1, <4>2, <4>4, <4>5 DEF NewTs, BackTs, IsSet
    <3> QED BY <3>1, <3>2 DEF Stamps
  <2>3. Append(s, Gof(Instant(start, n + 1), One(t, id))) = Table(start, Append(ids, One(t, id)))
    BY TableAppend, OneIdMap DEF s
  <2>4. File(ids, t, id) = Append(ids, One(t, id))
    BY <1>3, <1>4 DEF File
  <2> QED BY <2>1, <2>2, <2>3, <2>4 DEF s
<1>5. CASE ~ k > n
  <2>1. k \in 1..n
    BY <1>1, <1>3, <1>5
  <2> DEFINE m == Emplace(ids[k], t, id)
  <2>2. s[k] = Gof(Instant(start, k), ids[k]) /\ ids[k] \in IdMaps
    BY <1>2, <2>1
  <2>3. r = [s EXCEPT ![k] = Gof(Instant(start, k), m)]
    BY <1>1, <2>1, <2>2, PushOld
  <2>4. m \in IdMaps
    BY <2>2, MoreIdMap
  <2>5. File(ids, t, id) = [ids EXCEPT ![k] = m]
    <3> HIDE DEF k
    <3> QED BY <1>3, <1>5 DEF File
  <2> HIDE DEF m, k, r
  <2>6. [s EXCEPT ![k] = Gof(Instant(start, k), m)] = Table(start, [ids EXCEPT ![k] = m])
    BY <2>1, <2>4, TableSet DEF s
  <2> QED BY <2>3, <2>5, <2>6 DEF r, s
<1> QED BY <1>4, <1>5

-----------------------------------------------------------------------------
(* How many units of a type there are, and which of them the i-th unit is.  *)
Count(g, t) == Cardinality({j \in 1..Len(g) : g[j] = t})
RankIn(g, i) == Cardinality({j \in 1..i : g[j] = g[i]})

(* Subsets of an interval are finite.                                         *)
LEMMA Finite ==
  ASSUME NEW n \in Nat, NEW S \in SUBSET (1..n)
  PROVE  IsFiniteSet(S) /\ Cardinality(S) \in Nat
<1>1. IsFiniteSet(1..n)
  BY FS_Interval
<1>2. IsFiniteSet(S)
  BY <1>1, FS_Subset
<1> QED BY <1>2, FS_CardinalityType

(* The rank of a unit is at most the number of units of its type.             *)
LEMMA RankCount ==
  ASSUME NEW g \in Seq(Types)
  PROVE  /\ Len(g) \in Nat /\ \A t : Count(g, t) \in Nat
         /\ \A i \in 1..Len(g) : RankIn(g, i) \in 1..Count(g, g[i])
<1>1. Len(g) \in Nat
  OBVIOUS
<1>2. ASSUME NEW t PROVE Count(g, t) \in Nat
  <2> DEFINE S == {j \in 1..Len(g) : g[j] = t}
  <2>1. S \in SUBSET (1..Len(g))
    OBVIOUS
  <2> HIDE DEF S
  <2>2. Cardinality(S) \in Nat
    BY <1>1, <2>1, Finite
  <2> QED BY <2>2 DEF Count, S
<1>3. ASSUME NEW i \in 1..Len(g) PROVE RankIn(g, i) \in 1..Count(g, g[i])
  <2> DEFINE S == {j \in 1..Len(g) : g[j] = g[i]}  R == {j \in 1..i : g[j] = g[i]}
  <2>1. S \in SUBSET (1..Len(g)) /\ R \in SUBSET S /\ R # {}
    BY <1>1
  <2> HIDE DEF S, R
  <2>2. IsFiniteSet(S) /\ Cardinality(S) \in Nat
    BY <1>1, <2>1, Finite
  <2>3. IsFiniteSet(R) /\ Cardinality(R) <= Cardinality(S)
    BY <2>1, <2>2, FS_Subset
  <2>4. Cardinality(R) \in Nat /\ Cardinality(R) # 0
    BY <2>1, <2>3, FS_CardinalityType, FS_EmptySet
  <2> QED BY <2>2, <2>3, <2>4 DEF Count, RankIn, S, R
<1> QED BY <1>1, <1>2, <1>3

(* Counts and ranks after one more unit.                                      *)
LEMMA CountAppend ==
  ASSUME NEW g \in Seq(Types), NEW t \in Types
  PROVE  LET h == Append(g, t)
         IN /\ Count(h, t) = Count(g, t) + 1
            /\ \A x \in Types : x # t => Count(h, x) = Count(g, x)
            /\ \A i \in 1..Len(g) : RankIn(h, i) = RankIn(g, i)
            /\ RankIn(h, Len(g) + 1) = Count(g, t) + 1
<1> DEFINE h == Append(g, t)  n == Len(g)
<1>1. n \in Nat /\ Len(h) = n + 1 /\ h[n + 1] = t /\ \A j \in 1..n : h[j] = g[j]
  OBVIOUS
<1> HIDE DEF h, n
<1> DEFINE S == {j \in 1..n : g[j] = t}  T == {j \in 1..(n + 1) : h[j] = t}
<1>2. T = S \cup {n + 1}
  BY <1>1
<1>3. S \in SUBSET (1..n) /\ n + 1 \notin S
  BY <1>1
<1> HIDE DEF S, T
<1>4. IsFiniteSet(S) /\ Cardinality(S) \in Nat
  BY <1>1, <1>3, Finite
<1>5. Cardinality(T) = Cardinality(S) + 1
  BY <1>2, <1>3, <1>4, FS_AddElement
<1>6. Count(h, t) = Cardinality(T) /\ Count(g, t) = Cardinality(S)
  BY <1>1 DEF Count, S, T, n
<1>7. RankIn(h, n + 1) = Cardinality(T)
  BY <1>1 DEF RankIn, T
<1>8. ASSUME NEW x \in Types, x # t PROVE Count(h, x) = Count(g, x)
  <2>1. {j \in 1..(n + 1) : h[j] = x} = {j \in 1..n : g[j] = x}
    BY <1>1, <1>8
  <2> QED BY <1>1, <2>1 DEF Count, n
<1>9. ASSUME NEW i \in 1..n PROVE RankIn(h, i) = RankIn(g, i)
  <2>1. {j \in 1..i : h[j] = h[i]} = {j \in 1..i : g[j] = g[i]}
    BY <1>1
  <2> QED BY <2>1 DEF RankIn
<1> QED BY <1>5, <1>6, <1>7, <1>8, <1>9 DEF h, n

(* The units of g are filed: the k-th of each type is in the k-th GoF.      *)
FiledNumbers(ids, g) ==
  \A k \in 1..Len(ids) : \A t \in DOMAIN ids[k] :
    ids[k][t] \in 1..Len(g) /\ g[ids[k][t]] = t /\ RankIn(g, ids[k][t]) = k
FiledTypes(ids, g) ==
  \A t \in Types : /\ Count(g, t) <= Len(ids)
                   /\ \A k \in 1..Len(ids) : t \in DOMAIN ids[k] <=> k <= Count(g, t)
Filed(ids, g) == FiledNumbers(ids, g) /\ FiledTypes(ids, g)

(* The free place of a type is behind all its units.                          *)
LEMMA FiledSlot ==
  ASSUME NEW ids \in Seq(IdMaps), NEW g \in Seq(Types), NEW t \in Types, FiledTypes(ids, g)
  PROVE  FreeSlot(ids, t) = Count(g, t) + 1
<1> DEFINE k == FreeSlot(ids, t)  c == Count(g, t)
<1>1. Free(ids, t, k)
  BY FreeInTable DEF Stamps
<1>2. c \in Nat /\ c <= Len(ids) /\ Len(ids) \in Nat
  BY RankCount DEF FiledTypes
<1>3. \A j \in 1..Len(ids) : t \in DOMAIN ids[j] <=> j <= c
  BY DEF FiledTypes
<1> HIDE DEF k, c
<1>4. k \in 1..(Len(ids) + 1) /\ (k > 1 => t \in DOMAIN ids[k - 1])
      /\ \A j \in k..Len(ids) : t \notin DOMAIN ids[j]
  BY <1>1 DEF Free
<1>5. ~ k > c + 1
  <2> SUFFICES ASSUME k > c + 1 PROVE FALSE
    OBVIOUS
  <2>1. k - 1 \in 1..Len(ids) /\ k > 1 /\ ~ k - 1 <= c
    BY <1>2, <1>4
  <2> QED BY <1>3, <1>4, <2>1
<1>6. ~ k < c + 1
  <2> SUFFICES ASSUME k < c + 1 PROVE FALSE
    OBVIOUS
  <2>1. k \in 1..Len(ids) /\ k <= c /\ k \in k..Len(ids)
    BY <1>2, <1>4
  <2> QED BY <1>3, <1>4, <2>1
<1> QED BY <1>2, <1>4, <1>5, <1>6 DEF k, c

(* Filing the next unit keeps the units filed.                                *)
LEMMA FiledStep ==
  ASSUME NEW ids \in Seq(IdMaps), NEW g \in Seq(Types), NEW t \in Types, Filed(ids, g)
  PROVE  Filed(File(ids, t, Len(g) + 1), Append(g, t))
<1> DEFINE h == Append(g, t)  n == Len(g)  c == Count(g, t)  m == Len(ids)
           q == File(ids, t, n + 1)
<1>1. n \in Nat /\ Len(h) = n + 1 /\ h[n + 1] = t /\ \A j \in 1..n : h[j] = g[j]
  OBVIOUS
<1>2. /\ Count(h, t) = c + 1 /\ \A x \in Types : x # t => Count(h, x) = Count(g, x)
      /\ \A i \in 1..n : RankIn(h, i) = RankIn(g, i)
      /\ RankIn(h, n + 1) = c + 1
  BY CountAppend
<1>3. FreeSlot(ids, t) = c + 1 /\ c \in Nat /\ m \in Nat /\ c <= m
  BY FiledSlot, RankCount DEF Filed, FiledTypes
<1>4. /\ \A x \in Types : Count(g, x) <= m /\ Count(g, x) \in Nat
      /\ \A x \in Types : \A k \in 1..m : x \in DOMAIN ids[k] <=> k <= Count(g, x)
      /\ \A k \in 1..m : \A x \in DOMAIN ids[k] :
           ids[k][x] \in 1..n /\ g[ids[k][x]] = x /\ RankIn(g, ids[k][x]) = k
  BY RankCount DEF Filed, FiledTypes, FiledNumbers
<1>5. \A k \in 1..m : ids[k] \in IdMaps /\ \A x \in DOMAIN ids[k] : x \in Types
  <2>1. \A i \in IdMaps : \A x \in DOMAIN i : x \in Types
    BY DEF IdMaps
  <2> QED BY <2>1
(* The files after the step: the last has its number n + 1.                  *)
<1>6. /\ Len(q) >= m /\ Len(q) >= c + 1 /\ Len(q) \in Nat
      /\ \A k \in 1..Len(q) : k # c + 1 => k \in 1..m /\ q[k] = ids[k]
      /\ \A x : x \in DOMAIN q[c + 1] <=> (x = t \/ (c + 1 \in 1..m /\ x \in DOMAIN ids[c + 1]))
      /\ \A x \in DOMAIN q[c + 1] : q[c + 1][x] = IF c + 1 \in 1..m /\ x \in DOMAIN ids[c + 1]
                                                THEN ids[c + 1][x] ELSE n + 1
      /\ Len(q) \in {m, m + 1} /\ (Len(q) = m + 1 => c = m)
  <2>1. CASE c + 1 > m
    <3>1. q = Append(ids, One(t, n + 1)) /\ c = m
      BY <1>3, <2>1 DEF File
    <3>2. DOMAIN One(t, n + 1) = {t} /\ One(t, n + 1)[t] = n + 1
      BY DEF One
    <3>3. Len(q) = m + 1 /\ q[m + 1] = One(t, n + 1) /\ \A k \in 1..m : q[k] = ids[k]
      BY <3>1
    <3>4. c + 1 = m + 1 /\ c + 1 \notin 1..m /\ \A k \in 1..(m + 1) : k # m + 1 => k \in 1..m
      BY <1>3, <3>1
    <3> HIDE DEF q, m, c, n
    <3> QED BY <1>3, <3>1, <3>2, <3>3, <3>4
  <2>2. CASE ~ c + 1 > m
    <3> DEFINE e == Emplace(ids[c + 1], t, n + 1)
    <3>1. q = [ids EXCEPT ![c + 1] = e]
      BY <1>3, <2>2 DEF File
    <3>2. c + 1 \in 1..m
      BY <1>3, <2>2
    <3>3. DOMAIN e = DOMAIN ids[c + 1] \cup {t}
          /\ \A x \in DOMAIN e : e[x] = IF x \in DOMAIN ids[c + 1] THEN ids[c + 1][x] ELSE n + 1
      BY DEF Emplace
    <3> HIDE DEF e, c
    <3>4. Len(q) = m /\ q[c + 1] = e /\ \A k \in 1..m : k # c + 1 => q[k] = ids[k]
      BY <3>1, <3>2
    <3> HIDE DEF q, m, n
    <3> QED BY <1>3, <3>2, <3>3, <3>4, SMTT(30)
  <2> QED BY <2>1, <2>2
<1> HIDE DEF q, h, m, c, n
<1>7. FiledTypes(q, h)
  <2> SUFFICES ASSUME NEW x \in Types
      PROVE Count(h, x) <= Len(q)
            /\ \A k \in 1..Len(q) : x \in DOMAIN q[k] <=> k <= Count(h, x)
    BY DEF FiledTypes
  <2>1. CASE x = t
    <3>1. Count(h, x) = c + 1 /\ Count(g, x) = c
      BY <1>2, <2>1 DEF c
    <3>2. ASSUME NEW k \in 1..Len(q) PROVE x \in DOMAIN q[k] <=> k <= c + 1
      <4>1. CASE k = c + 1
        BY <1>3, <1>6, <2>1, <4>1
      <4>2. CASE k # c + 1
        <5>1. k \in 1..m /\ q[k] = ids[k] /\ (x \in DOMAIN ids[k] <=> k <= c)
          BY <1>4, <1>6, <3>1, <4>2
        <5> QED BY <1>3, <4>2, <5>1
      <4> QED BY <4>1, <4>2
    <3> QED BY <1>6, <3>1, <3>2
  <2>2. CASE x # t
    <3>1. Count(h, x) = Count(g, x) /\ Count(g, x) <= m /\ Count(g, x) \in Nat
      BY <1>2, <1>4, <2>2
    <3>2. ASSUME NEW k \in 1..Len(q) PROVE x \in DOMAIN q[k] <=> k <= Count(g, x)
      <4>1. CASE k = c + 1
        <5>1. x \in DOMAIN q[k] <=> (k \in 1..m /\ x \in DOMAIN ids[k])
          BY <1>6, <2>2, <4>1
        <5>2. CASE k \in 1..m
          BY <1>4, <5>1, <5>2
        <5>3. CASE k \notin 1..m
          <6>1. ~ k <= Count(g, x)
            BY <1>3, <3>1, <5>3
          <6> QED BY <5>1, <5>3, <6>1
        <5> QED BY <5>2, <5>3
      <4>2. CASE k # c + 1
        BY <1>4, <1>6, <4>2
      <4> QED BY <4>1, <4>2
    <3> QED BY <1>3, <1>6, <3>1, <3>2
  <2> QED BY <2>1, <2>2
<1>8. FiledNumbers(q, h)
  <2> SUFFICES ASSUME NEW k \in 1..Len(q), NEW x \in DOMAIN q[k]
      PROVE q[k][x] \in 1..Len(h) /\ h[q[k][x]] = x /\ RankIn(h, q[k][x]) = k
    BY DEF FiledNumbers
  <2>1. CASE k \in 1..m /\ x \in DOMAIN ids[k]
    <3>1. q[k][x] = ids[k][x]
      BY <1>6, <2>1
    <3>2. ids[k][x] \in 1..n /\ g[ids[k][x]] = x /\ RankIn(g, ids[k][x]) = k
      BY <1>4, <2>1
    <3> DEFINE i == ids[k][x]
    <3> HIDE DEF i
    <3>3. i \in 1..(n + 1) /\ h[i] = g[i] /\ RankIn(h, i) = RankIn(g, i)
      BY <1>1, <1>2, <3>2 DEF i
    <3> QED BY <1>1, <3>1, <3>2, <3>3 DEF i
  <2>2. CASE ~ (k \in 1..m /\ x \in DOMAIN ids[k])
    <3>1. k = c + 1 /\ x = t
      BY <1>6, <2>2
    <3>2. q[k][x] = n + 1
      BY <1>6, <2>2, <3>1
    <3>3. n + 1 \in 1..(n + 1)
      BY <1>1
    <3> QED BY <1>1, <1>2, <3>1, <3>2, <3>3
  <2> QED BY <2>1, <2>2
<1> QED BY <1>7, <1>8 DEF Filed, q, h, n

(* A GoF has the types only that the GoF before it has.                     *)
Dense(ids) == \A k \in 2..Len(ids) : DOMAIN ids[k] \subseteq DOMAIN ids[k - 1]

(* Filing a unit at its free place keeps the stream without holes.            *)
LEMMA DenseStep ==
  ASSUME NEW ids \in Seq(IdMaps), NEW t \in Types, NEW id \in Nat, Dense(ids)
  PROVE  Dense(File(ids, t, id))
<1> DEFINE k == FreeSlot(ids, t)  n == Len(ids)  q == File(ids, t, id)
<1>1. Free(ids, t, k) /\ n \in Nat
  BY FreeInTable DEF Stamps
<1>2. k \in 1..(n + 1) /\ (k > 1 => t \in DOMAIN ids[k - 1])
  BY <1>1 DEF Free
<1> HIDE DEF k
<1>3. /\ Len(q) \in Nat /\ Len(q) >= k
      /\ \A j \in 1..Len(q) : j # k => j \in 1..n /\ q[j] = ids[j]
      /\ \A x \in DOMAIN q[k] : x = t \/ (k \in 1..n /\ x \in DOMAIN ids[k])
      /\ k \in 1..n => DOMAIN ids[k] \subseteq DOMAIN q[k]
  <2>1. CASE k > n
    <3>1. q = Append(ids, One(t, id)) /\ k = n + 1
      BY <1>1, <1>2, <2>1 DEF File, k
    <3>2. DOMAIN One(t, id) = {t}
      BY DEF One
    <3>3. Len(q) = n + 1 /\ q[n + 1] = One(t, id) /\ \A j \in 1..n : q[j] = ids[j]
      BY <3>1
    <3> HIDE DEF q, n
    <3> QED BY <1>1, <3>1, <3>2, <3>3
  <2>2. CASE ~ k > n
    <3> DEFINE e == Emplace(ids[k], t, id)
    <3>1. q = [ids EXCEPT ![k] = e] /\ k \in 1..n
      BY <1>1, <1>2, <2>2 DEF File, k
    <3>2. DOMAIN e = DOMAIN ids[k] \cup {t}
      BY DEF Emplace
    <3> HIDE DEF e
    <3>3. Len(q) = n /\ q[k] = e /\ \A j \in 1..n : j # k => q[j] = ids[j]
      BY <3>1
    <3> HIDE DEF q, n
    <3> QED BY <1>1, <3>1, <3>2, <3>3
  <2> QED BY <2>1, <2>2
<1>4. \A j \in 2..n : DOMAIN ids[j] \subseteq DOMAIN ids[j - 1]
  BY DEF Dense
<1> HIDE DEF q, n
<1>5. ASSUME NEW j \in 2..Len(q), NEW x \in DOMAIN q[j] PROVE x \in DOMAIN q[j - 1]
  <2>1. j \in 1..Len(q) /\ j - 1 \in 1..Len(q)
    BY <1>3
  <2>2. CASE j = k
    <3>1. q[j - 1] = ids[j - 1] /\ j - 1 \in 1..n
      BY <1>2, <1>3, <2>1, <2>2
    <3>2. x = t \/ (k \in 1..n /\ x \in DOMAIN ids[k])
      BY <1>3, <1>5, <2>2
    <3>3. x = t => x \in DOMAIN ids[j - 1]
      BY <1>2, <2>2
    <3>4. k \in 1..n /\ x \in DOMAIN ids[k] => x \in DOMAIN ids[j - 1]
      BY <1>1, <1>4, <2>2
    <3> QED BY <3>1, <3>2, <3>3, <3>4
  <2>3. CASE j # k
    <3>1. j \in 1..n /\ q[j] = ids[j]
      BY <1>3, <2>1, <2>3
    <3>2. x \in DOMAIN ids[j - 1]
      BY <1>1, <1>4, <1>5, <3>1
    <3>3. CASE j - 1 = k
      <4>1. k \in 1..n /\ x \in DOMAIN ids[k]
        BY <1>1, <3>1, <3>2, <3>3
      <4>2. x \in DOMAIN q[k]
        BY <1>3, <4>1
      <4> QED BY <3>3, <4>2
    <3>4. CASE j - 1 # k
      BY <1>3, <2>1, <3>2, <3>4
    <3> QED BY <3>3, <3>4
  <2> QED BY <2>2, <2>3
<1> QED BY <1>5 DEF Dense, q

(* Behind GoFs that have every type, units are filed as if they were first. *)
Complete(ids) == \A k \in 1..Len(ids) : DOMAIN ids[k] = Types

(* The values of a concatenation.                                             *)
LEMMA SeqAfter ==
  ASSUME NEW S, NEW a \in Seq(S), NEW p \in Seq(S)
  PROVE  /\ a \o p \in Seq(S) /\ Len(a \o p) = Len(a) + Len(p)
         /\ \A j \in 1..Len(a) : (a \o p)[j] = a[j]
         /\ \A j \in 1..Len(p) : (a \o p)[Len(a) + j] = p[j]
OBVIOUS

(* Sequences with the same values are equal.                                  *)
LEMMA SeqSame ==
  ASSUME NEW S, NEW a \in Seq(S), NEW p \in Seq(S), Len(a) = Len(p),
         \A j \in 1..Len(a) : a[j] = p[j]
  PROVE  a = p
OBVIOUS

(* Appending to the second of two sequences.                                  *)
LEMMA AppendAfter ==
  ASSUME NEW S, NEW a \in Seq(S), NEW p \in Seq(S), NEW x \in S
  PROVE  Append(a \o p, x) = a \o Append(p, x)
<1> DEFINE l == Append(a \o p, x)  r == a \o Append(p, x)
<1>1. l \in Seq(S) /\ r \in Seq(S) /\ Len(l) = Len(a) + Len(p) + 1 /\ Len(r) = Len(l)
  OBVIOUS
<1>2. \A j \in 1..Len(l) : l[j] = r[j]
  OBVIOUS
<1> HIDE DEF l, r
<1>3. l = r
  BY <1>1, <1>2, SeqSame
<1> QED BY <1>3 DEF l, r

(* Changing a value of the second of two sequences.                           *)
LEMMA SetAfter ==
  ASSUME NEW S, NEW a \in Seq(S), NEW p \in Seq(S), NEW k \in 1..Len(p), NEW x \in S
  PROVE  [(a \o p) EXCEPT ![Len(a) + k] = x] = a \o [p EXCEPT ![k] = x]
<1> DEFINE c == a \o p  l == [c EXCEPT ![Len(a) + k] = x]  q == [p EXCEPT ![k] = x]  r == a \o q
<1>1. c \in Seq(S) /\ Len(c) = Len(a) + Len(p) /\ Len(a) + k \in 1..Len(c)
      /\ (\A j \in 1..Len(a) : c[j] = a[j]) /\ \A j \in 1..Len(p) : c[Len(a) + j] = p[j]
  OBVIOUS
<1>2. q \in Seq(S) /\ Len(q) = Len(p) /\ \A j \in 1..Len(p) : q[j] = IF j = k THEN x ELSE p[j]
  OBVIOUS
<1> HIDE DEF c
<1>3. /\ l \in Seq(S) /\ Len(l) = Len(c)
      /\ \A j \in 1..Len(c) : l[j] = IF j = Len(a) + k THEN x ELSE c[j]
  BY <1>1
<1> HIDE DEF q, l
<1>4. r \in Seq(S) /\ Len(r) = Len(a) + Len(q) /\ (\A j \in 1..Len(a) : r[j] = a[j])
      /\ \A j \in 1..Len(q) : r[Len(a) + j] = q[j]
  <2>1. q \in Seq(S)
    BY <1>2
  <2> QED BY <2>1, SeqAfter
<1> HIDE DEF r
<1>5. ASSUME NEW j \in 1..Len(l) PROVE l[j] = r[j]
  <2>1. Len(a) \in Nat /\ Len(p) \in Nat
    OBVIOUS
  <2>2. CASE j \in 1..Len(a)
    <3>1. j # Len(a) + k /\ j \in 1..Len(c)
      BY <1>1, <2>1, <2>2
    <3> QED BY <1>1, <1>3, <1>4, <2>2, <3>1
  <2>3. CASE j \notin 1..Len(a)
    <3> DEFINE i == j - Len(a)
    <3>1. i \in 1..Len(p) /\ j = Len(a) + i
      BY <1>1, <1>3, <2>1, <2>3
    <3> HIDE DEF i
    <3>2. r[j] = IF i = k THEN x ELSE p[i]
      BY <1>2, <1>4, <3>1
    <3>3. l[j] = IF i = k THEN x ELSE c[j]
      <4>1. j \in 1..Len(c) /\ (j = Len(a) + k <=> i = k)
        BY <1>3, <3>1, <2>1
      <4> QED BY <1>3, <4>1
    <3> QED BY <1>1, <3>1, <3>2, <3>3
  <2> QED BY <2>2, <2>3
<1>6. l = r
  BY <1>1, <1>2, <1>3, <1>4, <1>5, SeqSame
<1> QED BY <1>6 DEF l, r, q, c

(* Hence the file of the whole stream is that of the second part.             *)
LEMMA FileAfter ==
  ASSUME NEW a \in Seq(IdMaps), Complete(a), NEW p \in Seq(IdMaps), NEW t \in Types, NEW id \in Nat
  PROVE  File(a \o p, t, id) = a \o File(p, t, id)
<1> DEFINE c == a \o p  la == Len(a)  lp == Len(p)  k == FreeSlot(p, t)
<1>1. /\ c \in Seq(IdMaps) /\ Len(c) = la + lp /\ la \in Nat /\ lp \in Nat
      /\ \A j \in 1..la : c[j] = a[j]
      /\ \A j \in 1..lp : c[la + j] = p[j]
  BY SeqAfter
<1>2. Free(p, t, k) /\ Free(c, t, FreeSlot(c, t))
  BY <1>1, FreeInTable DEF Stamps
<1>3. k \in 1..(lp + 1) /\ (k > 1 => t \in DOMAIN p[k - 1])
      /\ \A j \in k..lp : t \notin DOMAIN p[j]
  BY <1>2 DEF Free
<1>4. \A j \in 1..la : DOMAIN a[j] = Types
  BY DEF Complete
<1> HIDE DEF c, la, lp, k
<1>5. Free(c, t, la + k)
  <2>1. la + k \in 1..(Len(c) + 1)
    BY <1>1, <1>3
  <2>2. ASSUME la + k > 1 PROVE t \in DOMAIN c[(la + k) - 1]
    <3>1. CASE k > 1
      <4>1. k - 1 \in 1..lp /\ (la + k) - 1 = la + (k - 1)
        BY <1>1, <1>3, <3>1
      <4> QED BY <1>1, <1>3, <3>1, <4>1
    <3>2. CASE ~ k > 1
      <4>1. (la + k) - 1 = la /\ la \in 1..la
        BY <1>1, <1>3, <2>2, <3>2
      <4> QED BY <1>1, <1>4, <4>1
    <3> QED BY <3>1, <3>2
  <2>3. ASSUME NEW j \in (la + k)..Len(c) PROVE t \notin DOMAIN c[j]
    <3> DEFINE i == j - la
    <3>1. i \in k..lp /\ i \in 1..lp /\ j = la + i
      BY <1>1, <1>3
    <3> HIDE DEF i
    <3> QED BY <1>1, <1>3, <3>1
  <2> QED BY <2>1, <2>2, <2>3 DEF Free
<1>6. FreeSlot(c, t) = la + k
  BY <1>1, <1>2, <1>5, FreeUnique
<1>7. CASE k > lp
  <2>1. la + k > Len(c)
    BY <1>1, <1>3, <1>7
  <2>2. File(c, t, id) = Append(c, One(t, id))
    BY <1>6, <2>1 DEF File
  <2>3. File(p, t, id) = Append(p, One(t, id))
    BY <1>7 DEF File, k, lp
  <2>4. Append(a \o p, One(t, id)) = a \o Append(p, One(t, id))
    BY OneIdMap, AppendAfter
  <2> QED BY <2>2, <2>3, <2>4 DEF c
<1>8. CASE ~ k > lp
  <2>1. ~ la + k > Len(c) /\ k \in 1..lp /\ c[la + k] = p[k]
    BY <1>1, <1>3, <1>8
  <2>2. File(c, t, id) = [c EXCEPT ![la + k] = Emplace(p[k], t, id)]
    BY <1>6, <2>1 DEF File
  <2>3. File(p, t, id) = [p EXCEPT ![k] = Emplace(p[k], t, id)]
    BY <1>8 DEF File, k, lp
  <2>4. Emplace(p[k], t, id) \in IdMaps
    <3>1. p[k] \in IdMaps
      BY <2>1 DEF lp
    <3> QED BY <3>1, MoreIdMap
  <2>5. [(a \o p) EXCEPT ![Len(a) + k] = Emplace(p[k], t, id)]
          = a \o [p EXCEPT ![k] = Emplace(p[k], t, id)]
    BY <2>1, <2>4, SetAfter DEF lp
  <2> QED BY <2>2, <2>3, <2>5 DEF c, la
<1> QED BY <1>7, <1>8 DEF c

-----------------------------------------------------------------------------
(* What a bitstream parses to: unstamped GoFs, in which the units are filed *)
(* behind the complete GoFs a of the units g parsed before.                 *)
ParsesTo(chunk, ids, a, g) ==
  /\ ids \in Seq(IdMaps) /\ ids # <<>> /\ Len(ids) <= Len(chunk) /\ Dense(ids)
  /\ ParseBitstream(chunk, Len(g)) = Table(Unset, ids)
  /\ Complete(a) /\ Filed(a, g) => Filed(a \o ids, g \o chunk)

(* A prefix that is one longer.                                               *)
LEMMA SubSeqAppend ==
  ASSUME NEW S, NEW q \in Seq(S), NEW k \in 0..(Len(q) - 1)
  PROVE  /\ SubSeq(q, 1, k) \in Seq(S) /\ Len(SubSeq(q, 1, k)) = k
         /\ SubSeq(q, 1, k + 1) = Append(SubSeq(q, 1, k), q[k + 1])
<1> DEFINE l == SubSeq(q, 1, k + 1)  p == SubSeq(q, 1, k)  r == Append(p, q[k + 1])
<1>1. p \in Seq(S) /\ Len(p) = k /\ \A j \in 1..k : p[j] = q[j]
  OBVIOUS
<1>2. l \in Seq(S) /\ Len(l) = k + 1 /\ \A j \in 1..(k + 1) : l[j] = q[j]
  OBVIOUS
<1>3. q[k + 1] \in S
  OBVIOUS
<1> HIDE DEF l, p
<1>4. r \in Seq(S) /\ Len(r) = k + 1 /\ \A j \in 1..(k + 1) : r[j] = q[j]
  BY <1>1, <1>3
<1> HIDE DEF r
<1>5. l = r
  BY <1>2, <1>4, SeqSame
<1> QED BY <1>1, <1>5 DEF l, p, r

(* Every bitstream parses so.                                                 *)
LEMMA ParseFiles ==
  ASSUME NEW chunk \in Seq(Types), chunk # <<>>, NEW a \in Seq(IdMaps), NEW g \in Seq(Types)
  PROVE  \E ids : ParsesTo(chunk, ids, a, g)
<1> DEFINE m == Len(chunk)  n == Len(g)  q == g \o chunk
           G(k) == {ids \in Seq(IdMaps) :
                      /\ Len(ids) <= k /\ Dense(ids) /\ (k > 0 => ids # <<>>)
                      /\ Complete(a) /\ Filed(a, g) => Filed(a \o ids, SubSeq(q, 1, n + k))}
           S == [k \in 0..m |-> {Table(Unset, ids) : ids \in G(k)}]
<1>1. m \in Nat /\ n \in Nat /\ m > 0
  OBVIOUS
<1>2. /\ q \in Seq(Types) /\ Len(q) = n + m
      /\ \A i \in 1..m : q[n + i] = chunk[i] /\ chunk[i] \in Types
  BY SeqAfter
<1>3. SubSeq(q, 1, n + 0) = g /\ SubSeq(q, 1, n + m) = q
  <2>1. n + 0 = n /\ n \in 0..Len(q)
    BY <1>1, <1>2
  <2>2. /\ SubSeq(q, 1, n) \in Seq(Types) /\ Len(SubSeq(q, 1, n)) = n
        /\ \A j \in 1..n : SubSeq(q, 1, n)[j] = g[j]
    OBVIOUS
  <2>3. SubSeq(q, 1, n) = g
    <3> HIDE DEF q
    <3> QED BY <2>2, SeqSame
  <2>4. \A x \in Seq(Types) : SubSeq(x, 1, Len(x)) = x
    OBVIOUS
  <2> HIDE DEF q, n, m
  <2> QED BY <1>2, <2>1, <2>3, <2>4
<1> HIDE DEF q, m, n
<1>4. PICK f : ParseLoop(f, chunk, n)
  BY <1>1, ParseLoops
<1>5. /\ f[0] = <<>> /\ ParseBitstream(chunk, n) = f[m]
      /\ \A i \in 1..m : f[i] = PushUnit(f[i - 1], chunk[i], Unit(n + i, Unset)).stream
  BY <1>4 DEF ParseLoop, m
<1>6. f[0] \in S[0]
  <2>1. <<>> \in Seq(IdMaps) /\ Len(<<>>) = 0
    OBVIOUS
  <2>2. Dense(<<>>)
    BY DEF Dense
  <2>3. a \o <<>> = a
    OBVIOUS
  <2>4. <<>> \in G(0)
    <3>1. Filed(a, g) => Filed(a \o <<>>, SubSeq(q, 1, n + 0))
      BY <1>3, <2>3, Zenon
    <3>2. Len(<<>>) <= 0 /\ ~ 0 > 0
      OBVIOUS
    <3> QED BY <2>1, <2>2, <3>1, <3>2, Zenon
  <2>5. Table(Unset, <<>>) = <<>>
    BY <2>1, TableIs DEF Stamps
  <2> HIDE DEF G
  <2>6. S[0] = {Table(Unset, ids) : ids \in G(0)}
    BY <1>1
  <2> QED BY <1>5, <2>4, <2>5, <2>6
<1>7. ASSUME NEW k \in 1..m, f[k - 1] \in S[k - 1] PROVE f[k] \in S[k]
  <2> DEFINE j == k - 1
  <2>1. j \in 0..m /\ k = j + 1 /\ k - 1 = j /\ j \in Nat
    BY <1>1
  <2> HIDE DEF j, G
  <2>2. PICK ids \in G(j) : f[j] = Table(Unset, ids)
    <3>1. S[j] = {Table(Unset, ids) : ids \in G(j)}
      BY <2>1
    <3> HIDE DEF S
    <3> QED BY <1>7, <2>1, <3>1
  <2>3. /\ ids \in Seq(IdMaps) /\ Len(ids) <= j /\ Dense(ids)
        /\ Complete(a) /\ Filed(a, g) => Filed(a \o ids, SubSeq(q, 1, n + j))
    BY <2>2 DEF G
  <2> DEFINE t == chunk[k]  new == File(ids, t, n + k)
  <2>4. t \in Types /\ n + k \in Nat /\ q[n + k] = t
    BY <1>1, <1>2, <2>1
  <2> HIDE DEF t, S
  <2>5. f[k] = Table(Unset, new)
    <3>1. PushUnit(Table(Unset, ids), t, Unit(n + k, Unset)).stream = Table(Unset, new)
      BY <2>3, <2>4, PushFiles DEF Stamps, IsSet
    <3> QED BY <1>5, <2>1, <2>2, <3>1 DEF t
  <2>6. new \in Seq(IdMaps) /\ new # <<>> /\ Len(new) \in {Len(ids), Len(ids) + 1}
    BY <2>3, <2>4, FileIs
  <2>7. Dense(new)
    BY <2>3, <2>4, DenseStep
  <2>8. Len(new) <= k
    <3>1. Len(ids) \in Nat
      BY <2>3
    <3> HIDE DEF new
    <3> QED BY <2>1, <2>3, <2>6, <3>1
  <2>9. ASSUME Complete(a), Filed(a, g) PROVE Filed(a \o new, SubSeq(q, 1, n + k))
    <3> DEFINE p == SubSeq(q, 1, n + j)
    <3>1. n + j \in 0..(Len(q) - 1) /\ (n + j) + 1 = n + k
      BY <1>1, <1>2, <2>1
    <3>2. p \in Seq(Types) /\ Len(p) = n + j /\ SubSeq(q, 1, n + k) = Append(p, t)
      BY <1>2, <2>4, <3>1, SubSeqAppend
    <3>3. a \o ids \in Seq(IdMaps) /\ Filed(a \o ids, p)
      BY <2>3, <2>9, SeqAfter
    <3> HIDE DEF p, new
    <3>4. Filed(File(a \o ids, t, Len(p) + 1), Append(p, t))
      BY <2>4, <3>2, <3>3, FiledStep
    <3>5. File(a \o ids, t, n + k) = a \o new
      BY <2>3, <2>4, <2>9, FileAfter DEF new
    <3>6. Len(p) + 1 = n + k
      BY <3>1, <3>2
    <3> QED BY <3>2, <3>4, <3>5, <3>6
  <2>10. new \in G(k)
    <3> HIDE DEF new
    <3> QED BY <2>6, <2>7, <2>8, <2>9 DEF G
  <2>11. S[k] = {Table(Unset, i) : i \in G(k)}
    <3>1. k \in 0..m
      BY <1>1
    <3> QED BY <3>1 DEF S
  <2> HIDE DEF new
  <2> QED BY <2>5, <2>10, <2>11
<1> HIDE DEF S
<1>8. \A k \in 0..m : f[k] \in S[k]
  BY <1>1, <1>6, <1>7, Rounds
<1>9. PICK ids \in G(m) : f[m] = Table(Unset, ids)
  <2>1. m \in 0..m
    BY <1>1
  <2> HIDE DEF G
  <2> QED BY <1>8, <2>1 DEF S
<1>10. ParsesTo(chunk, ids, a, g)
  BY <1>1, <1>3, <1>5, <1>9 DEF ParsesTo, m, n, q
<1> QED BY <1>10

-----------------------------------------------------------------------------
(* Replacing the last value of a sequence.                                    *)
LEMMA LastReplaced ==
  ASSUME NEW S, NEW s \in Seq(S), NEW y \in S, NEW z \in S
  PROVE  [Append(s, y) EXCEPT ![Len(s) + 1] = z] = Append(s, z)
<1> DEFINE a == Append(s, y)  u == [a EXCEPT ![Len(s) + 1] = z]  v == Append(s, z)
<1>1. a \in Seq(S) /\ Len(a) = Len(s) + 1 /\ Len(s) \in Nat /\ \A i \in 1..Len(s) : a[i] = s[i]
  OBVIOUS
<1>2. v \in Seq(S) /\ Len(v) = Len(s) + 1 /\ v[Len(s) + 1] = z /\ \A i \in 1..Len(s) : v[i] = s[i]
  OBVIOUS
<1> HIDE DEF a, v
<1>3. u \in Seq(S) /\ Len(u) = Len(s) + 1 /\ u[Len(s) + 1] = z /\ \A i \in 1..Len(s) : u[i] = s[i]
  BY <1>1
<1> HIDE DEF u
<1>4. \A i \in 1..Len(u) : u[i] = v[i]
  <2>1. \A i \in 1..(Len(s) + 1) : i = Len(s) + 1 \/ i \in 1..Len(s)
    BY <1>1
  <2> QED BY <1>2, <1>3, <2>1
<1>5. u = v
  BY <1>2, <1>3, <1>4, SeqSame
<1> QED BY <1>5 DEF u, v, a

(* Adding the units of a GoF to a stream that has no place for the first of   *)
(* them, and whose last GoF then is the place for the others, adds the GoF.   *)
LEMMA AddUnits ==
  ASSUME NEW ts \in Stamps, NEW s \in Seq(Like(ts)), NEW m \in IdMaps,
         \A t \in DOMAIN m : Slot(s, t, ts) = Len(s) + 1,
         \A p \in IdMaps : \A t \in (DOMAIN m) \ DOMAIN p :
            Slot(Append(s, Gof(ts, p)), t, ts) = Len(s) + 1
  PROVE  PushUnits(s, Gof(ts, m)) = Append(s, Gof(ts, m))
<1> DEFINE g == Gof(ts, m)  L == Like(ts)
           B(k) == {x \in DOMAIN m : x < k}
           P(k) == [x \in B(k) |-> m[x]]
           R(k) == IF B(k) = {} THEN s ELSE Append(s, Gof(ts, P(k)))
           S == [k \in 0..NumTypes |-> {R(k)}]
<1>1. L \in {Timed, Untimed} /\ g \in L
  BY ClockAssumption DEF Like, Timed, Untimed, Stamps, IsSet
<1>2. PICK f : UnitsLoop(f, s, g, L)
  BY <1>1, UnitsLoops
<1>3. /\ f[0] = s /\ PushUnits(s, g) = f[NumTypes]
      /\ \A t \in 1..NumTypes :
           f[t] = IF t - 1 \in DOMAIN g.units
                    THEN PushUnit(f[t - 1], t - 1, g.units[t - 1]).stream ELSE f[t - 1]
  BY <1>2 DEF UnitsLoop
<1>4. g.units = [x \in DOMAIN m |-> Unit(m[x], ts)] /\ DOMAIN g.units = DOMAIN m
  BY DEF Gof
<1>5. PICK D \in (SUBSET Types) \ {{}} : m \in [D -> Nat]
  BY DEF IdMaps
<1>6. DOMAIN m = D /\ D # {} /\ \A x \in D : x \in 0..(NumTypes - 1) /\ x \in Types /\ m[x] \in Nat
  BY <1>5, SenderAssumption
<1>7. Len(s) \in Nat /\ NumTypes \in Nat /\ NumTypes = 7
  BY DEF NumTypes
<1> HIDE DEF g, L
<1>8. R(0) = s
  <2>1. B(0) = {}
    BY <1>6, <1>7
  <2> QED BY <2>1
<1>9. R(NumTypes) = Append(s, Gof(ts, m))
  <2>1. B(NumTypes) = DOMAIN m
    BY <1>6, <1>7
  <2>2. P(NumTypes) = m
    BY <1>5, <1>6, <2>1
  <2> QED BY <1>6, <2>1, <2>2
<1>10. ASSUME NEW k \in 1..NumTypes, f[k - 1] = R(k - 1) PROVE f[k] = R(k)
  <2> DEFINE t == k - 1
  <2>1. t \in Nat /\ k = t + 1
    BY <1>7
  <2>2. CASE t \notin DOMAIN m
    <3>1. B(k) = B(t)
      BY <1>6, <1>7, <2>1, <2>2
    <3>2. P(k) = P(t)
      BY <3>1
    <3>3. f[k] = f[t]
      BY <1>3, <1>4, <2>2
    <3> QED BY <1>10, <3>1, <3>2, <3>3
  <2>3. CASE t \in DOMAIN m
    <3>1. B(k) = B(t) \cup {t} /\ t \notin B(t)
      BY <1>6, <1>7, <2>1, <2>3
    <3>2. f[k] = PushUnit(f[t], t, Unit(m[t], ts)).stream
      BY <1>3, <1>4, <2>3
    <3>3. t \in Types /\ m[t] \in Nat
      BY <1>6, <2>3
    <3>4. B(k) # {} /\ R(k) = Append(s, Gof(ts, P(k)))
      BY <3>1
    <3>5. CASE B(t) = {}
      <4>1. f[t] = s
        BY <1>10, <3>5
      <4>2. Slot(s, t, ts) > Len(s)
        BY <1>7, <2>3
      <4>3. f[k] = Append(s, Gof(NewTs(s, ts), One(t, m[t])))
        BY <1>7, <3>2, <4>1, <4>2, PushNew
      <4>4. NewTs(s, ts) = ts
        <5>1. ts = Unset /\ s # <<>> => s[Len(s)].ts = Unset
          <6> SUFFICES ASSUME ts = Unset, s # <<>> PROVE s[Len(s)].ts = Unset
            OBVIOUS
          <6>1. s[Len(s)] \in Untimed
            BY DEF Like, IsSet
          <6> QED BY <6>1, GofTimed
        <5> QED BY <5>1 DEF NewTs, IsSet
      <4>5. P(k) = One(t, m[t])
        <5>1. B(k) = {t}
          BY <3>1, <3>5
        <5> HIDE DEF B
        <5> QED BY <5>1 DEF One
      <4> QED BY <3>4, <4>3, <4>4, <4>5
    <3>6. CASE B(t) # {}
      <4> DEFINE p == P(t)  r == Append(s, Gof(ts, p))
      <4>1. f[t] = r
        BY <1>10, <3>6
      <4>2. DOMAIN p = B(t) /\ p \in IdMaps
        <5>1. B(t) \in (SUBSET Types) \ {{}} /\ p \in [B(t) -> Nat]
          BY <1>6, <3>6
        <5> QED BY <5>1 DEF IdMaps
      <4>3. Gof(ts, p) \in L
        BY <4>2 DEF Like, Timed, Untimed, Stamps, IsSet, L
      <4> HIDE DEF p, B, P
      <4>4. r \in Seq(L) /\ Len(r) = Len(s) + 1 /\ r[Len(s) + 1] = Gof(ts, p)
        <5> DEFINE x == Gof(ts, p)
        <5> HIDE DEF x
        <5> QED BY <4>3 DEF L, x
      <4>5. Slot(r, t, ts) = Len(s) + 1
        <5>1. t \in (DOMAIN m) \ DOMAIN p
          BY <2>3, <3>1, <4>2
        <5> QED BY <4>2, <5>1
      <4>6. Len(r) \in Nat /\ Slot(r, t, ts) \in 1..Len(r) /\ r[Slot(r, t, ts)] = Gof(ts, p)
        <5> HIDE DEF r
        <5> QED BY <1>7, <4>4, <4>5
      <4> HIDE DEF r
      <4>7. f[k] = [r EXCEPT ![Slot(r, t, ts)] = Gof(ts, Emplace(p, t, m[t]))]
        BY <3>2, <4>1, <4>6, PushOld
      <4>8. Emplace(p, t, m[t]) = P(k)
        <5>1. P(k) = [x \in B(k) |-> m[x]] /\ p = [x \in B(t) |-> m[x]]
          BY DEF P, p
        <5>2. DOMAIN p \cup {t} = B(k)
          BY <3>1, <4>2
        <5>3. \A x \in B(k) : (IF x \in DOMAIN p THEN p[x] ELSE m[t]) = m[x]
          BY <3>1, <4>2, <5>1
        <5> QED BY <5>1, <5>2, <5>3 DEF Emplace
      <4>10. Gof(ts, P(k)) \in L
        <5>1. P(k) \in IdMaps
          <6>1. B(k) \in (SUBSET Types) \ {{}} /\ P(k) \in [B(k) -> Nat]
            BY <1>6, <3>4 DEF B, P
          <6> QED BY <6>1 DEF IdMaps
        <5> QED BY <5>1 DEF Like, Timed, Untimed, Stamps, IsSet, L
      <4>11. f[k] = Append(s, Gof(ts, P(k)))
        <5>1. [Append(s, Gof(ts, p)) EXCEPT ![Len(s) + 1] = Gof(ts, P(k))]
                = Append(s, Gof(ts, P(k)))
          BY <4>3, <4>10, LastReplaced DEF L
        <5> QED BY <4>5, <4>7, <4>8, <5>1 DEF r
      <4> QED BY <3>4, <4>11
    <3> QED BY <3>5, <3>6
  <2> QED BY <2>2, <2>3
<1> HIDE DEF R
<1>11. f[0] \in S[0] /\ \A k \in 1..NumTypes : f[k - 1] \in S[k - 1] => f[k] \in S[k]
  <2>1. \A k \in 0..NumTypes : S[k] = {R(k)}
    OBVIOUS
  <2>2. 0 \in 0..NumTypes /\ \A k \in 1..NumTypes : k - 1 \in 0..NumTypes /\ k \in 0..NumTypes
    BY <1>7
  <2> HIDE DEF S
  <2> QED BY <1>3, <1>8, <1>10, <2>1, <2>2
<1>12. f[NumTypes] = R(NumTypes)
  <2>1. S[NumTypes] = {R(NumTypes)} /\ NumTypes \in 0..NumTypes
    BY <1>7
  <2> HIDE DEF S
  <2>2. \A k \in 0..NumTypes : f[k] \in S[k]
    BY <1>7, <1>11, Rounds
  <2> QED BY <2>1, <2>2
<1> QED BY <1>3, <1>9, <1>12 DEF g

(* The last instant of a stream shorter than the clock is found at its end. *)
LEMMA LastFound ==
  ASSUME NEW start \in Nat, NEW ids \in Seq(IdMaps), ids # <<>>, Len(ids) * FrameDuration < Wrap
  PROVE  FindTimestamp(Table(start, ids), Instant(start, Len(ids))) = Len(ids)
<1> DEFINE s == Table(start, ids)  n == Len(ids)  ts == Instant(start, n)
           at == {k \in 2..n : TsOf(s[k].ts) = ts}
<1>1. n \in Nat /\ n >= 1 /\ Len(s) = n /\ s # <<>>
  BY TableIs DEF Stamps
<1>2. \A k \in 1..n : TsOf(s[k].ts) = Instant(start, k)
  <2> SUFFICES ASSUME NEW k \in 1..n PROVE TsOf(s[k].ts) = Instant(start, k)
    OBVIOUS
  <2>1. s[k].ts = Instant(start, k)
    BY TableIs DEF Stamps
  <2>2. k \in Nat /\ k > 0
    BY <1>1
  <2> HIDE DEF s
  <2> QED BY <2>1, <2>2, InstantStamp
<1>3. Instant(start, 1) \in Nat /\ ts \in Nat
  BY <1>1, InstantStamp
<1>4. ASSUME n # 1 PROVE Instant(start, 1) # ts
  <2> DEFINE k == n - 1
  <2>1. k \in Nat /\ 0 < k /\ n = k + 1 /\ k <= n
    BY <1>1, <1>4
  <2>2. /\ k * FrameDuration \in Nat /\ n * FrameDuration \in Nat
        /\ k * FrameDuration <= n * FrameDuration
    BY <1>1, <2>1, Times
  <2> DEFINE a == k * FrameDuration  b == n * FrameDuration
  <2>3. b < Wrap /\ a \in Nat /\ b \in Nat /\ a <= b
    BY <2>2
  <2> HIDE DEF a, b, k
  <2>4. a < Wrap
    BY <2>3, ClockAssumption
  <2>5. Instant(start, 0 + 1) # Instant(start, k + 1)
    BY <2>1, <2>4, InstantsApart DEF a
  <2> QED BY <2>1, <2>5
<1> HIDE DEF s, n, ts
<1>5. FrontTs(s) = Instant(start, 1) /\ BackTs(s) = ts
  BY <1>1, <1>2 DEF FrontTs, BackTs, ts
<1>6. InRange(s, ts)
  BY <1>3, <1>5 DEF InRange
<1>7. CASE ts = FrontTs(s)
  <2>1. n = 1
    BY <1>4, <1>5, <1>7
  <2> QED BY <1>1, <1>6, <1>7, <2>1 DEF FindTimestamp, s, n, ts
<1>8. CASE ts # FrontTs(s)
  <2>1. n # 1
    BY <1>5, <1>8 DEF ts
  <2>2. n \in at /\ at \in SUBSET (0..n) /\ at # {}
    BY <1>1, <1>2, <2>1 DEF ts
  <2> HIDE DEF at
  <2>3. Max(at) \in at /\ n <= Max(at)
    BY <1>1, <2>2, GreatestExists
  <2>4. Max(at) = n
    <3> DEFINE x == Max(at)
    <3>1. x \in 0..n /\ n <= x
      BY <2>2, <2>3
    <3> HIDE DEF x
    <3>2. x = n
      BY <1>1, <3>1
    <3> QED BY <3>2 DEF x
  <2>5. FindTimestamp(s, ts) = Max(at)
    BY <1>1, <1>6, <1>8, <2>2 DEF FindTimestamp, at
  <2> QED BY <2>4, <2>5 DEF s, n, ts
<1> QED BY <1>7, <1>8

(* The instant after the last is not found: the clock has not come round.     *)
LEMMA NextNotFound ==
  ASSUME NEW start \in Nat, NEW ids \in Seq(IdMaps), Len(ids) * FrameDuration < Wrap
  PROVE  FindTimestamp(Table(start, ids), Instant(start, Len(ids) + 1)) = Len(ids) + 1
<1> DEFINE s == Table(start, ids)  n == Len(ids)  ts == Instant(start, n + 1)
           k == FindTimestamp(s, ts)
<1>1. n \in Nat /\ Len(s) = n
  BY TableIs DEF Stamps
<1>2. k \in 1..(n + 1) /\ (k <= n => TsOf(s[k].ts) = ts)
  BY <1>1, FoundGof
<1> HIDE DEF k
<1>3. ASSUME k <= n PROVE FALSE
  <2> DEFINE j == k - 1
  <2>1. j \in Nat /\ k = j + 1 /\ j < n /\ k \in 1..n /\ k > 0 /\ k \in Nat
    BY <1>1, <1>2, <1>3
  <2> HIDE DEF j
  <2>2. s[k].ts = Instant(start, k)
    BY <2>1, TableIs DEF Stamps
  <2>3. TsOf(Instant(start, k)) = Instant(start, k)
    BY <2>1, InstantStamp
  <2>4. Instant(start, j + 1) # Instant(start, n + 1)
    BY <1>1, <2>1, InstantsApart
  <2> QED BY <1>2, <1>3, <2>1, <2>2, <2>3, <2>4
<1>4. k = n + 1
  BY <1>1, <1>2, <1>3
<1> QED BY <1>4 DEF k

(* Pushing a GoF at the next instant appends it.                              *)
LEMMA AddTimed ==
  ASSUME NEW start \in Nat, NEW ids \in Seq(IdMaps), NEW m \in IdMaps,
         (Len(ids) + 1) * FrameDuration < Wrap
  PROVE  PushUnits(Table(start, ids), Gof(Instant(start, Len(ids) + 1), m))
           = Table(start, Append(ids, m))
<1> DEFINE s == Table(start, ids)  n == Len(ids)  ts == Instant(start, n + 1)
<1>1. n \in Nat /\ Len(s) = n /\ s \in Seq(Like(start)) /\ start \in Stamps
  BY TableIs DEF Stamps
<1>2. ts \in Nat /\ IsSet(ts) /\ ts \in Stamps /\ Like(ts) = Like(start)
  <2>1. n + 1 \in Nat /\ n + 1 > 0
    BY <1>1
  <2>2. ts \in Nat
    BY <2>1, InstantStamp
  <2> HIDE DEF ts
  <2> QED BY <2>2, ClockAssumption DEF Like, IsSet, Stamps
<1>3. n * FrameDuration < Wrap
  <2> DEFINE a == n * FrameDuration  b == (n + 1) * FrameDuration
  <2>1. a \in Nat /\ b \in Nat /\ a <= b
    BY <1>1, Times
  <2>2. b < Wrap
    OBVIOUS
  <2> HIDE DEF a, b
  <2>3. a < Wrap
    BY <2>1, <2>2, ClockAssumption
  <2> QED BY <2>3 DEF a
<1>4. \A t \in DOMAIN m : Slot(s, t, ts) = Len(s) + 1
  BY <1>1, <1>2, <1>3, NextNotFound DEF Slot
<1>5. ASSUME NEW p \in IdMaps, NEW t \in (DOMAIN m) \ DOMAIN p
      PROVE Slot(Append(s, Gof(ts, p)), t, ts) = Len(s) + 1
  <2> DEFINE q == Append(ids, p)
  <2>1. Append(s, Gof(ts, p)) = Table(start, q)
    BY <1>1, TableAppend
  <2>2. q \in Seq(IdMaps) /\ q # <<>> /\ Len(q) = n + 1
    OBVIOUS
  <2> HIDE DEF q
  <2>3. FindTimestamp(Table(start, q), Instant(start, Len(q))) = Len(q)
    BY <2>2, LastFound
  <2> HIDE DEF s
  <2> QED BY <1>1, <1>2, <2>1, <2>2, <2>3 DEF Slot
<1>6. Append(s, Gof(ts, m)) = Table(start, Append(ids, m))
  BY <1>1, TableAppend
<1> HIDE DEF s, ts
<1>7. PushUnits(s, Gof(ts, m)) = Append(s, Gof(ts, m))
  BY <1>1, <1>2, <1>4, <1>5, AddUnits
<1> QED BY <1>6, <1>7 DEF s, ts

(* Pushing an unstamped GoF appends it, if the stream stays without holes.    *)
LEMMA AddUntimed ==
  ASSUME NEW ids \in Seq(IdMaps), NEW m \in IdMaps, Dense(Append(ids, m))
  PROVE  PushUnits(Table(Unset, ids), Gof(Unset, m)) = Table(Unset, Append(ids, m))
<1> DEFINE s == Table(Unset, ids)  n == Len(ids)
<1>1. n \in Nat /\ Len(s) = n /\ s \in Seq(Like(Unset)) /\ Unset \in Stamps /\ ~ IsSet(Unset)
  BY TableIs DEF Stamps, IsSet
<1>2. \A t \in DOMAIN m : n > 0 => t \in DOMAIN ids[n]
  <2> SUFFICES ASSUME NEW t \in DOMAIN m, n > 0 PROVE t \in DOMAIN ids[n]
    OBVIOUS
  <2> DEFINE q == Append(ids, m)
  <2>1. Len(q) = n + 1 /\ q[n + 1] = m /\ n \in 1..n /\ q[n] = ids[n]
    BY <1>1
  <2> HIDE DEF q
  <2>2. DOMAIN q[n + 1] \subseteq DOMAIN q[(n + 1) - 1]
    <3>1. n + 1 \in 2..Len(q)
      BY <1>1, <2>1
    <3>2. Dense(q)
      BY DEF q
    <3> QED BY <3>1, <3>2 DEF Dense
  <2>3. (n + 1) - 1 = n
    BY <1>1
  <2> QED BY <2>1, <2>2, <2>3
<1>3. \A t \in DOMAIN m : Slot(s, t, Unset) = Len(s) + 1
  <2> SUFFICES ASSUME NEW t \in DOMAIN m PROVE Slot(s, t, Unset) = n + 1
    BY <1>1
  <2>1. FindFreeGof(s, t) = FreeSlot(ids, t) /\ Free(ids, t, FreeSlot(ids, t))
    BY <1>1, FreeInTable
  <2>2. Free(ids, t, n + 1)
    <3>1. n + 1 \in 1..(n + 1) /\ (n + 1) - 1 = n /\ (n + 1)..n = {}
      BY <1>1
    <3> QED BY <1>1, <1>2, <3>1 DEF Free
  <2>3. FreeSlot(ids, t) = n + 1
    BY <2>1, <2>2, FreeUnique
  <2> QED BY <1>1, <2>1, <2>3 DEF Slot
<1>4. ASSUME NEW p \in IdMaps, NEW t \in (DOMAIN m) \ DOMAIN p
      PROVE Slot(Append(s, Gof(Unset, p)), t, Unset) = Len(s) + 1
  <2> DEFINE q == Append(ids, p)
  <2>1. Append(s, Gof(Instant(Unset, n + 1), p)) = Table(Unset, q) /\ Instant(Unset, n + 1) = Unset
    BY <1>1, TableAppend DEF Instant
  <2>2. q \in Seq(IdMaps) /\ Len(q) = n + 1 /\ q[n + 1] = p /\ \A j \in 1..n : q[j] = ids[j]
    OBVIOUS
  <2> HIDE DEF q
  <2>3. FindFreeGof(Table(Unset, q), t) = FreeSlot(q, t) /\ Free(q, t, FreeSlot(q, t))
    BY <1>1, <2>2, FreeInTable
  <2>4. Free(q, t, n + 1)
    <3>1. n + 1 \in 1..(Len(q) + 1) /\ (n + 1) - 1 = n /\ \A j \in (n + 1)..Len(q) : j = n + 1
      BY <1>1, <2>2
    <3>2. n + 1 > 1 => t \in DOMAIN q[n]
      BY <1>1, <1>2, <2>2
    <3> QED BY <1>4, <2>2, <3>1, <3>2 DEF Free
  <2>5. FreeSlot(q, t) = n + 1
    BY <2>2, <2>3, <2>4, FreeUnique
  <2> HIDE DEF s
  <2> QED BY <1>1, <2>1, <2>3, <2>5 DEF Slot
<1>5. Append(s, Gof(Unset, m)) = Table(Unset, Append(ids, m))
  <2>1. Instant(Unset, n + 1) = Unset
    BY <1>1 DEF Instant
  <2>2. Append(s, Gof(Instant(Unset, n + 1), m)) = Table(Unset, Append(ids, m))
    BY <1>1, TableAppend
  <2> QED BY <2>1, <2>2
<1> HIDE DEF s
<1>6. PushUnits(s, Gof(Unset, m)) = Append(s, Gof(Unset, m))
  BY <1>1, <1>3, <1>4, AddUnits
<1> QED BY <1>5, <1>6 DEF s

(* Joining to a stamped stream: the added GoFs get the instants that follow.*)
LEMMA JoinTimed ==
  ASSUME NEW start \in Nat, NEW ids \in Seq(IdMaps), NEW oids \in Seq(IdMaps),
         ids # <<>>, oids # <<>>, (Len(ids) + Len(oids)) * FrameDuration < Wrap
  PROVE  PushStream(Table(start, ids), Table(Unset, oids)) = Table(start, ids \o oids)
<1> DEFINE s == Table(start, ids)  n == Len(ids)  m == Len(oids)  c == ids \o oids
           other == Table(Unset, oids)  next == Instant(start, n + 1)  o == Stamped(s, other)
           Q(k) == SubSeq(c, 1, n + k)
           S == [k \in 0..m |-> {Table(start, Q(k))}]
<1>1. n \in Nat /\ m \in Nat /\ n > 0 /\ m > 0 /\ start \in Stamps /\ Unset \in Stamps
  BY DEF Stamps
<1>2. /\ Len(s) = n /\ s # <<>> /\ s \in Seq(Timed) /\ s[n].ts = Instant(start, n)
      /\ Len(other) = m /\ ~ IsSet(other[1].ts)
  <2>1. Like(start) = Timed
    BY ClockAssumption DEF Like, IsSet
  <2>2. n \in 1..n /\ 1 \in 1..m
    BY <1>1
  <2>3. Len(s) = n /\ s # <<>> /\ s \in Seq(Timed) /\ s[n].ts = Instant(start, n)
    BY <1>1, <2>1, <2>2, TableIs
  <2>4. Len(other) = m /\ other[1].ts = Instant(Unset, 1)
    BY <1>1, <2>2, TableIs
  <2> HIDE DEF s, other
  <2> QED BY <2>3, <2>4 DEF Instant, IsSet
<1>3. next \in Nat /\ NextInstant(BackTs(s)) = next /\ IsSet(s[n].ts)
  <2> DEFINE j == n - 1
  <2>1. j \in Nat /\ n = j + 1 /\ n + 1 = j + 2
    BY <1>1
  <2>2. IsSet(Instant(start, n)) /\ TsOf(Instant(start, n)) = Instant(start, n) /\ next \in Nat
    <3>1. n + 1 \in Nat /\ n + 1 > 0
      BY <1>1
    <3>2. next \in Nat
      BY <3>1, InstantStamp
    <3> QED BY <1>1, <3>2, InstantStamp
  <2> HIDE DEF j
  <2>3. NextInstant(Instant(start, j + 1)) = Instant(start, j + 2)
    BY <2>1, InstantNext
  <2> HIDE DEF s
  <2>4. BackTs(s) = Instant(start, j + 1) /\ next = Instant(start, j + 2)
    BY <1>2, <2>1, <2>2 DEF BackTs
  <2> HIDE DEF next
  <2> QED BY <1>2, <2>2, <2>3, <2>4
<1>4. o = Table(next, oids)
  <2>1. SetTimestamps(other, next) = Table(next, oids)
    BY <1>1, <1>3, TableStamped
  <2> HIDE DEF s, other, next
  <2> QED BY <1>2, <1>3, <2>1 DEF Stamped
<1>5. /\ o \in Seq(Timed) /\ Len(o) = m
      /\ \A k \in 1..m : o[k] = Gof(Instant(start, n + k), oids[k]) /\ oids[k] \in IdMaps
  <2>1. next \in Stamps /\ Like(next) = Timed
    BY <1>3, ClockAssumption DEF Like, IsSet, Stamps
  <2> HIDE DEF next, o
  <2>2. o \in Seq(Timed) /\ Len(o) = m
    BY <1>4, <2>1, TableIs
  <2>3. \A k \in 1..m : o[k] = Gof(Instant(next, k), oids[k]) /\ oids[k] \in IdMaps
    BY <1>4, <2>1, TableIs
  <2>4. ASSUME NEW k \in 1..m PROVE Instant(next, k) = Instant(start, n + k)
    <3> DEFINE j == k - 1
    <3>1. j \in Nat /\ k = j + 1 /\ n + k = n + j + 1
      BY <1>1
    <3> HIDE DEF j
    <3>2. Instant(Instant(start, n + 1), j + 1) = Instant(start, n + j + 1)
      BY <1>1, <3>1, InstantFrom
    <3> QED BY <3>1, <3>2 DEF next
  <2> QED BY <2>2, <2>3, <2>4
<1>6. c \in Seq(IdMaps) /\ Len(c) = n + m /\ \A k \in 1..m : c[n + k] = oids[k]
  BY SeqAfter
<1>7. Q(0) = ids /\ Q(m) = c
  <2>1. \A j \in 1..n : c[j] = ids[j]
    BY SeqAfter
  <2> HIDE DEF c
  <2>2. Q(0) \in Seq(IdMaps) /\ Len(Q(0)) = n /\ \A j \in 1..n : Q(0)[j] = ids[j]
    BY <1>1, <1>6, <2>1
  <2>3. Q(0) = ids
    <3> HIDE DEF Q
    <3> QED BY <2>2, SeqSame
  <2>4. \A x \in Seq(IdMaps) : SubSeq(x, 1, Len(x)) = x
    OBVIOUS
  <2> HIDE DEF n, m
  <2> QED BY <1>6, <2>3, <2>4
<1> HIDE DEF c
<1>8. PICK f : JoinLoop(f, s, o, Timed) /\ PushStream(s, other) = f[m]
  <2> HIDE DEF s, other, o
  <2> QED BY <1>2, <1>5, JoinLoops DEF o
<1>9. f[0] = s /\ \A k \in 1..m : f[k] = PushUnits(f[k - 1], o[k])
  <2> HIDE DEF o
  <2> QED BY <1>5, <1>8 DEF JoinLoop
<1> HIDE DEF n, m, o, other
<1>10. ASSUME NEW k \in 1..m, f[k - 1] = Table(start, Q(k - 1)) PROVE f[k] = Table(start, Q(k))
  <2> DEFINE j == k - 1  p == Q(j)
  <2>1. j \in Nat /\ k = j + 1 /\ n + j \in 0..(Len(c) - 1) /\ (n + j) + 1 = n + k /\ k <= m
    BY <1>1, <1>6
  <2>2. p \in Seq(IdMaps) /\ Len(p) = n + j /\ Q(k) = Append(p, oids[k])
    <3>1. /\ SubSeq(c, 1, n + j) \in Seq(IdMaps) /\ Len(SubSeq(c, 1, n + j)) = n + j
          /\ SubSeq(c, 1, (n + j) + 1) = Append(SubSeq(c, 1, n + j), c[(n + j) + 1])
      BY <1>6, <2>1, SubSeqAppend
    <3>2. c[(n + j) + 1] = oids[k]
      BY <1>6, <2>1
    <3> QED BY <2>1, <3>1, <3>2
  <2>3. (Len(p) + 1) * FrameDuration < Wrap
    <3> DEFINE a == (n + k) * FrameDuration  b == (n + m) * FrameDuration
    <3>1. n + k \in Nat /\ n + m \in Nat /\ n + k <= n + m
      BY <1>1, <2>1
    <3>2. a \in Nat /\ b \in Nat /\ a <= b
      BY <3>1, Times
    <3>3. b < Wrap
      BY DEF n, m
    <3>4. Len(p) + 1 = n + k
      BY <2>1, <2>2
    <3> HIDE DEF a, b, p
    <3>5. a < Wrap
      BY <3>2, <3>3, ClockAssumption
    <3> QED BY <3>4, <3>5 DEF a
  <2>4. Instant(start, n + k) = Instant(start, Len(p) + 1)
    <3> HIDE DEF p
    <3> QED BY <2>1, <2>2
  <2> HIDE DEF Q, p, j
  <2>5. PushUnits(Table(start, p), Gof(Instant(start, Len(p) + 1), oids[k]))
          = Table(start, Append(p, oids[k]))
    BY <1>5, <2>2, <2>3, AddTimed
  <2>6. f[j] = Table(start, p)
    BY <1>10 DEF j, p
  <2>7. f[k] = PushUnits(f[j], o[k])
    BY <1>9 DEF j
  <2> QED BY <1>5, <2>2, <2>4, <2>5, <2>6, <2>7
<1> HIDE DEF Q
<1>11. f[m] = Table(start, Q(m))
  <2>1. \A k \in 0..m : S[k] = {Table(start, Q(k))}
    OBVIOUS
  <2>2. 0 \in 0..m /\ m \in 0..m /\ \A k \in 1..m : k - 1 \in 0..m /\ k \in 0..m
    BY <1>1
  <2> HIDE DEF S
  <2>3. f[0] \in S[0] /\ \A k \in 1..m : f[k - 1] \in S[k - 1] => f[k] \in S[k]
    BY <1>7, <1>9, <1>10, <2>1, <2>2 DEF s
  <2>4. \A k \in 0..m : f[k] \in S[k]
    BY <1>1, <2>3, Rounds
  <2> QED BY <2>1, <2>2, <2>4
<1> QED BY <1>7, <1>8, <1>11 DEF s, other, c

(* Joining to an empty stream: the GoFs are added as they are.              *)
LEMMA JoinUntimed ==
  ASSUME NEW oids \in Seq(IdMaps), Dense(oids)
  PROVE  PushStream(<<>>, Table(Unset, oids)) = Table(Unset, oids)
<1> DEFINE m == Len(oids)  other == Table(Unset, oids)
           Q(k) == SubSeq(oids, 1, k)
           S == [k \in 0..m |-> {Table(Unset, Q(k))}]
<1>1. m \in Nat /\ Unset \in Stamps /\ Like(Unset) = Untimed
  BY DEF Stamps, Like, IsSet
<1>2. other \in Seq(Untimed) /\ Len(other) = m
  BY <1>1, TableIs
<1>3. \A k \in 1..m : other[k] = Gof(Unset, oids[k]) /\ oids[k] \in IdMaps
  <2>1. \A k \in 1..m : other[k] = Gof(Instant(Unset, k), oids[k]) /\ oids[k] \in IdMaps
    BY <1>1, TableIs
  <2> HIDE DEF other
  <2> QED BY <2>1 DEF Instant, IsSet
<1>4. Q(0) = <<>> /\ Q(m) = oids
  OBVIOUS
<1> HIDE DEF other
<1>5. Stamped(<<>>, other) = other
  BY DEF Stamped
<1>6. PICK f : /\ JoinLoop(f, <<>>, Stamped(<<>>, other), Untimed)
               /\ PushStream(<<>>, other) = f[Len(other)]
  <2>1. <<>> \in Seq(Untimed)
    OBVIOUS
  <2> QED BY <1>2, <1>5, <2>1, JoinLoops
<1>7. /\ f[0] = <<>> /\ PushStream(<<>>, other) = f[m]
      /\ \A k \in 1..m : f[k] = PushUnits(f[k - 1], other[k])
  BY <1>2, <1>5, <1>6 DEF JoinLoop
<1>8. ASSUME NEW k \in 1..m, f[k - 1] = Table(Unset, Q(k - 1)) PROVE f[k] = Table(Unset, Q(k))
  <2> DEFINE j == k - 1  p == Q(j)
  <2>1. j \in 0..(m - 1) /\ k = j + 1
    BY <1>1
  <2>2. p \in Seq(IdMaps) /\ Q(k) = Append(p, oids[k])
    BY <2>1, SubSeqAppend
  <2>3. Dense(Q(k))
    <3>1. /\ Len(Q(k)) = k /\ \A i \in 1..k : Q(k)[i] = oids[i]
      BY <1>1
    <3> HIDE DEF Q
    <3>2. \A i \in 2..k : i \in 2..m /\ i \in 1..k /\ i - 1 \in 1..k
      BY <1>1
    <3>3. \A i \in 2..m : DOMAIN oids[i] \subseteq DOMAIN oids[i - 1]
      BY DEF Dense
    <3>4. \A i \in 2..k : DOMAIN Q(k)[i] \subseteq DOMAIN Q(k)[i - 1]
      BY <3>1, <3>2, <3>3
    <3> QED BY <3>1, <3>4 DEF Dense
  <2> HIDE DEF Q, p, j
  <2>4. PushUnits(Table(Unset, p), Gof(Unset, oids[k])) = Table(Unset, Append(p, oids[k]))
    BY <1>3, <2>2, <2>3, AddUntimed
  <2>5. f[j] = Table(Unset, p)
    BY <1>8 DEF j, p
  <2>6. f[k] = PushUnits(f[j], other[k])
    BY <1>7 DEF j
  <2> QED BY <1>3, <2>2, <2>4, <2>5, <2>6
<1>9. f[0] = Table(Unset, Q(0))
  <2>1. <<>> \in Seq(IdMaps)
    OBVIOUS
  <2>2. Table(Unset, <<>>) = <<>>
    BY <1>1, <2>1, TableIs
  <2> QED BY <1>4, <1>7, <2>2
<1> HIDE DEF Q
<1>10. f[m] = Table(Unset, Q(m))
  <2>1. \A k \in 0..m : S[k] = {Table(Unset, Q(k))}
    OBVIOUS
  <2>2. 0 \in 0..m /\ m \in 0..m /\ \A k \in 1..m : k - 1 \in 0..m /\ k \in 0..m
    BY <1>1
  <2> HIDE DEF S, m
  <2>3. f[0] \in S[0] /\ \A k \in 1..m : f[k - 1] \in S[k - 1] => f[k] \in S[k]
    BY <1>8, <1>9, <2>1, <2>2
  <2>4. \A k \in 0..m : f[k] \in S[k]
    BY <1>1, <2>3, Rounds
  <2> QED BY <2>1, <2>2, <2>4
<1> QED BY <1>4, <1>7, <1>10 DEF other

-----------------------------------------------------------------------------
(* The clock does not come round within one stream.                         *)
NoWrapAround == MaxUnits * FrameDuration < Wrap

(* The stream is a table of consecutive instants, from the one that follows *)
(* the GoFs cleared before, and units are filed in it by their rank.        *)
Tabled(ids) ==
  /\ ids \in Seq(IdMaps) /\ data = Table(initial_timestamp, ids) /\ Len(ids) <= Len(given)
  /\ ~ CutAppends => Filed(ids, given)
TableInv ==
  /\ retired \in Nat /\ initial_timestamp = Instant(InitialInstant, retired + 1)
  /\ given \in Seq(Types) /\ Len(given) <= MaxUnits
  /\ IF data = NoData THEN given = <<>> ELSE \E ids : Tabled(ids)

(* A stream of stamped GoFs is not the missing stream.                      *)
LEMMA TimedGofs == Seq(Timed) \subseteq Seq(Gofs)
<1> SUFFICES ASSUME NEW ids \in IdMaps, NEW ts \in Nat PROVE Gof(ts, ids) \in Gofs
  <2>1. Timed \subseteq Gofs => Seq(Timed) \subseteq Seq(Gofs)
    OBVIOUS
  <2> QED BY <2>1 DEF Timed
<1>1. PICK D \in (SUBSET Types) \ {{}} : ids \in [D -> Nat]
  BY DEF IdMaps
<1>2. \A id \in Nat : Unit(id, ts) \in Units
  BY DEF Unit, Units, Stamps
<1> DEFINE us == [t \in DOMAIN ids |-> Unit(ids[t], ts)]  cs == [t \in DOMAIN ids |-> 1]
<1>3. us \in [D -> Units] /\ cs \in [D -> Nat]
  BY <1>1, <1>2
<1>4. Gof(ts, ids) = [ts |-> ts, units |-> us, sizes |-> cs]
  BY DEF Gof
<1> HIDE DEF us, cs
<1>5. /\ us \in UNION {[E -> Units] : E \in SUBSET Types}
      /\ cs \in UNION {[E -> Nat] : E \in SUBSET Types}
  BY <1>3
<1> QED BY <1>4, <1>5 DEF Gofs, Stamps

(* A stream without units is filed.                                           *)
LEMMA EmptyFiled == Filed(<<>>, <<>>) /\ Dense(<<>>) /\ Complete(<<>>)
<1>1. ASSUME NEW t \in Types PROVE Count(<<>>, t) = 0
  <2>1. {j \in 1..Len(<<>>) : <<>>[j] = t} = {}
    OBVIOUS
  <2> QED BY <2>1, FS_EmptySet DEF Count
<1>2. FiledTypes(<<>>, <<>>)
  BY <1>1 DEF FiledTypes
<1>3. FiledNumbers(<<>>, <<>>)
  BY DEF FiledNumbers
<1> QED BY <1>2, <1>3 DEF Filed, Dense, Complete

(* Stamping a stream of unstamped GoFs, as the first data are.              *)
LEMMA FirstData ==
  ASSUME NEW ids \in Seq(IdMaps), initial_timestamp \in Nat
  PROVE  SetTimestamps(Table(Unset, ids), initial_timestamp) = Table(initial_timestamp, ids)
<1>1. Unset \in Stamps
  BY DEF Stamps
<1> QED BY <1>1, TableStamped

(* A handle starts with no data.                                              *)
LEMMA TableInvInit == Init => TableInv
<1> SUFFICES ASSUME Init PROVE TableInv
  OBVIOUS
<1>1. retired = 0 /\ given = <<>> /\ data = NoData /\ initial_timestamp = InitialInstant
  BY DEF Init
<1>2. InitialInstant \in Nat /\ InitialInstant < Wrap /\ MaxUnits \in Nat
  BY SenderAssumption, ClockAssumption
<1>3. Instant(InitialInstant, 0 + 1) = (InitialInstant + 0 * FrameDuration) % Wrap
  BY <1>2, InstantIs
<1>4. InitialInstant + 0 * FrameDuration = InitialInstant
  BY <1>2, ClockAssumption
<1>5. InitialInstant % Wrap = InitialInstant
  BY <1>2, ClockAssumption
<1>6. Instant(InitialInstant, 0 + 1) = InitialInstant
  BY <1>3, <1>4, <1>5
<1> QED BY <1>1, <1>2, <1>6 DEF TableInv

(* Every stream that a handle may hold is shorter than the clock.             *)
LEMMA Fits ==
  ASSUME NoWrapAround, NEW n \in Nat, n <= MaxUnits PROVE n * FrameDuration < Wrap
<1> DEFINE a == n * FrameDuration  b == MaxUnits * FrameDuration
<1>1. MaxUnits \in Nat
  BY SenderAssumption
<1>2. a \in Nat /\ b \in Nat /\ a <= b
  BY <1>1, Times
<1>3. b < Wrap
  BY DEF NoWrapAround
<1> HIDE DEF a, b
<1>4. a < Wrap
  BY <1>2, <1>3, ClockAssumption
<1> QED BY <1>4 DEF a

(* Every call keeps the table.                                                *)
LEMMA TableInvNext == NoWrapAround /\ TableInv /\ [Next]_vars => TableInv'
<1> SUFFICES ASSUME NoWrapAround, TableInv, [Next]_vars PROVE TableInv'
  OBVIOUS
<1>1. /\ retired \in Nat /\ initial_timestamp = Instant(InitialInstant, retired + 1)
      /\ given \in Seq(Types) /\ Len(given) <= MaxUnits /\ Len(given) \in Nat /\ Parsed = Len(given)
      /\ data = NoData => given = <<>>
      /\ data # NoData => \E ids : Tabled(ids)
  BY DEF TableInv, Parsed
<1>2. initial_timestamp \in Nat /\ InitialInstant \in Nat /\ initial_timestamp \in Stamps
  <2>1. InitialInstant \in Nat
    BY SenderAssumption, ClockAssumption
  <2>2. initial_timestamp \in Nat
    BY <1>1, <2>1, InstantIs, ClockAssumption
  <2> QED BY <2>1, <2>2 DEF Stamps
<1>3. ASSUME UNCHANGED <<retired, initial_timestamp>>,
             given' \in Seq(Types), Len(given') <= MaxUnits,
             NEW ids, Tabled(ids)'
      PROVE TableInv'
  <2>1. data' = NoData => given' = <<>>
    <3> SUFFICES ASSUME data' = NoData PROVE FALSE
      OBVIOUS
    <3>1. ids \in Seq(IdMaps) /\ data' = Table(initial_timestamp, ids)
      BY <1>3 DEF Tabled
    <3>2. data' \in Seq(Like(initial_timestamp))
      BY <1>2, <3>1, TableIs
    <3>3. data' \in Seq(Timed)
      BY <1>2, <3>2, ClockAssumption DEF Like, IsSet
    <3> QED BY <3>3, TimedGofs, SenderAssumption
  <2>2. IF data' = NoData THEN given' = <<>> ELSE \E i : Tabled(i)'
    BY <1>3, <2>1
  <2> QED BY <1>1, <1>3, <2>2 DEF TableInv
<1>4. CASE InitEmpty
  <2>1. data' = <<>> /\ given' = <<>> /\ UNCHANGED <<retired, initial_timestamp, given>>
    BY <1>1, <1>4 DEF InitEmpty
  <2>2. <<>> \in Seq(IdMaps) /\ Len(<<>>) <= Len(<<>>)
    OBVIOUS
  <2>3. Table(initial_timestamp, <<>>) = <<>>
    BY <1>2, <2>2, TableIs
  <2>4. Tabled(<<>>)'
    BY <2>1, <2>2, <2>3, EmptyFiled DEF Tabled
  <2> QED BY <1>1, <1>3, <2>1, <2>4
<1>5. ASSUME NEW c \in InitChunks, InitBitstream(c) PROVE TableInv'
  <2>1. c \in Seq(Types) /\ c # <<>>
    BY SenderAssumption
  <2>2. given = <<>> /\ given' = given \o c /\ Len(c) <= MaxUnits
        /\ UNCHANGED <<retired, initial_timestamp>>
        /\ data' = SetTimestamps(ParseBitstream(c, Len(given)), initial_timestamp)
    BY <1>1, <1>5 DEF InitBitstream
  <2>3. PICK ids : ParsesTo(c, ids, <<>>, given)
    <3>1. <<>> \in Seq(IdMaps)
      OBVIOUS
    <3> QED BY <1>1, <2>1, <3>1, ParseFiles
  <2>4. /\ ids \in Seq(IdMaps) /\ Len(ids) <= Len(c)
        /\ ParseBitstream(c, Len(given)) = Table(Unset, ids)
        /\ Filed(<<>> \o ids, given \o c)
    BY <2>2, <2>3, EmptyFiled DEF ParsesTo
  <2>5. data' = Table(initial_timestamp, ids)
    BY <1>2, <2>2, <2>4, FirstData
  <2>6. <<>> \o ids = ids /\ given' = c
    BY <2>1, <2>2, <2>4
  <2>7. Tabled(ids)'
    BY <2>2, <2>4, <2>5, <2>6 DEF Tabled
  <2> QED BY <1>3, <2>1, <2>2, <2>6, <2>7
<1>6. ASSUME NEW c \in AppendChunks, AppendBitstream(c) PROVE TableInv'
  <2>1. c \in Seq(Types) /\ c # <<>> /\ Len(c) \in Nat
    BY SenderAssumption
  <2>2. /\ data # NoData /\ Len(given) + Len(c) <= MaxUnits
        /\ CutAppends \/ \A k \in DOMAIN data : DOMAIN data[k].units = Types
        /\ UNCHANGED <<retired, initial_timestamp>>
    BY <1>1, <1>6 DEF AppendBitstream
  <2>3. PICK ids : Tabled(ids)
    BY <1>1, <2>2
  <2>4. /\ ids \in Seq(IdMaps) /\ data = Table(initial_timestamp, ids) /\ Len(ids) <= Len(given)
        /\ ~ CutAppends => Filed(ids, given)
    BY <2>3 DEF Tabled
  <2>5. Len(ids) \in Nat /\ (data = <<>> <=> ids = <<>>) /\ (~ CutAppends => Complete(ids))
    <3>1. /\ Len(ids) \in Nat /\ (data = <<>> <=> ids = <<>>) /\ DOMAIN data = 1..Len(ids)
          /\ \A k \in 1..Len(ids) : DOMAIN data[k].units = DOMAIN ids[k]
      BY <1>2, <2>4, TableIs
    <3> QED BY <2>2, <3>1 DEF Complete
  <2>6. CASE UNCHANGED <<data, given>>
    <3>1. Tabled(ids)'
      BY <2>2, <2>4, <2>6 DEF Tabled
    <3> QED BY <1>1, <1>3, <2>2, <2>6, <3>1
  <2> DEFINE p == ParseBitstream(c, Parsed)  s == PushStream(data, p)
  <2>7. CASE /\ data' = IF data = <<>> THEN SetTimestamps(s, initial_timestamp) ELSE s
             /\ given' = given \o c
    <3>1. PICK oids : ParsesTo(c, oids, ids, given)
      BY <1>1, <2>1, <2>4, ParseFiles
    <3>2. /\ oids \in Seq(IdMaps) /\ oids # <<>> /\ Len(oids) <= Len(c) /\ Dense(oids)
          /\ p = Table(Unset, oids) /\ Len(oids) \in Nat
          /\ Complete(ids) /\ Filed(ids, given) => Filed(ids \o oids, given \o c)
      BY <1>1, <3>1 DEF ParsesTo
    <3> HIDE DEF p
    <3>3. given' \in Seq(Types) /\ Len(given') = Len(given) + Len(c)
      BY <1>1, <2>1, <2>7
    <3>4. data' = Table(initial_timestamp, ids \o oids)
      <4>1. CASE data = <<>>
        <5>1. s = Table(Unset, oids)
          BY <3>2, <4>1, JoinUntimed
        <5>2. data' = Table(initial_timestamp, oids)
          BY <1>2, <2>7, <3>2, <4>1, <5>1, FirstData
        <5>3. ids \o oids = oids
          BY <2>5, <3>2, <4>1
        <5> QED BY <5>2, <5>3
      <4>2. CASE data # <<>>
        <5>1. Len(ids) + Len(oids) \in Nat /\ Len(ids) + Len(oids) <= MaxUnits
          BY <1>1, <2>1, <2>2, <2>4, <2>5, <3>2, SenderAssumption
        <5>2. (Len(ids) + Len(oids)) * FrameDuration < Wrap
          BY <5>1, Fits
        <5>3. s = Table(initial_timestamp, ids \o oids)
          BY <1>2, <2>4, <2>5, <3>2, <4>2, <5>2, JoinTimed
        <5> QED BY <2>7, <4>2, <5>3
      <4> QED BY <4>1, <4>2
    <3>5. ids \o oids \in Seq(IdMaps) /\ Len(ids \o oids) = Len(ids) + Len(oids)
      BY <2>4, <3>2
    <3>6. Len(ids \o oids) <= Len(given')
      BY <1>1, <2>1, <2>4, <2>5, <3>2, <3>3, <3>5
    <3>7. ~ CutAppends => Filed(ids \o oids, given')
      BY <2>4, <2>5, <2>7, <3>2
    <3>8. Tabled(ids \o oids)'
      BY <2>2, <3>4, <3>5, <3>6, <3>7 DEF Tabled
    <3> QED BY <1>3, <2>2, <3>3, <3>8
  <2> QED BY <1>6, <2>6, <2>7 DEF AppendBitstream
<1>7. ASSUME NEW t \in AppendTypes, AppendUnit(t) PROVE TableInv'
  <2>1. t \in Types /\ Len(given) + 1 \in Nat /\ MaxUnits \in Nat
    BY <1>1, SenderAssumption
  <2> DEFINE u == NewUnit(Parsed + 1)  s == PushUnit(data, t, u).stream
  <2>2. /\ data # NoData /\ Len(given) < MaxUnits /\ given' = Append(given, t)
        /\ UNCHANGED <<retired, initial_timestamp>>
        /\ data' = IF data = <<>> THEN SetTimestamps(s, initial_timestamp) ELSE s
    BY <1>1, <1>7 DEF AppendUnit
  <2>3. u = Unit(Len(given) + 1, Unset)
    BY <1>1 DEF NewUnit, Unit
  <2>4. PICK ids : Tabled(ids)
    BY <1>1, <2>2
  <2>5. /\ ids \in Seq(IdMaps) /\ data = Table(initial_timestamp, ids) /\ Len(ids) <= Len(given)
        /\ ~ CutAppends => Filed(ids, given)
    BY <2>4 DEF Tabled
  <2>6. Len(ids) \in Nat /\ (data = <<>> <=> ids = <<>>)
    BY <1>2, <2>5, TableIs
  <2> DEFINE new == File(ids, t, Len(given) + 1)
  <2>7. data' = Table(initial_timestamp, new)
    <3>1. CASE data = <<>>
      <4>1. Unset \in Stamps /\ ~ IsSet(Unset) /\ data = Table(Unset, ids)
        <5>1. Table(Unset, ids) = <<>>
          BY <2>5, <2>6, <3>1, TableIs DEF Stamps
        <5> QED BY <3>1, <5>1 DEF Stamps, IsSet
      <4>2. PushUnit(Table(Unset, ids), t, Unit(Len(given) + 1, Unset)).stream = Table(Unset, new)
        BY <2>1, <2>5, <4>1, PushFiles
      <4>3. new \in Seq(IdMaps)
        BY <2>1, <2>5, FileIs
      <4> HIDE DEF new, u
      <4>4. SetTimestamps(Table(Unset, new), initial_timestamp) = Table(initial_timestamp, new)
        BY <1>2, <4>3, FirstData
      <4> QED BY <2>2, <2>3, <3>1, <4>1, <4>2, <4>4
    <3>2. CASE data # <<>>
      <4>1. PushUnit(Table(initial_timestamp, ids), t, Unit(Len(given) + 1, Unset)).stream
              = Table(initial_timestamp, new)
        BY <1>2, <2>1, <2>5, <2>6, <3>2, PushFiles
      <4> HIDE DEF new, u
      <4> QED BY <2>2, <2>3, <2>5, <3>2, <4>1
    <3> QED BY <3>1, <3>2
  <2>8. new \in Seq(IdMaps) /\ Len(new) \in {Len(ids), Len(ids) + 1}
    BY <2>1, <2>5, FileIs
  <2>9. given' \in Seq(Types) /\ Len(given') = Len(given) + 1
    BY <1>1, <2>1, <2>2
  <2>10. ~ CutAppends => Filed(new, given')
    BY <1>1, <2>1, <2>2, <2>5, FiledStep
  <2> HIDE DEF new
  <2>11. Len(new) <= Len(given')
    BY <1>1, <2>5, <2>6, <2>8, <2>9
  <2>12. Len(given') <= MaxUnits
    BY <1>1, <2>1, <2>2, <2>9
  <2>13. PICK q : q = new
    OBVIOUS
  <2>14. Tabled(q)'
    BY <2>2, <2>7, <2>8, <2>10, <2>11, <2>13 DEF Tabled
  <2> QED BY <1>3, <2>2, <2>9, <2>12, <2>14
<1>8. CASE ClearSampleStream
  <2>1. /\ data # NoData /\ data' = NoData /\ given' = <<>> /\ retired' = retired + Len(data)
        /\ initial_timestamp' = IF data # <<>> THEN NextInstant(BackTs(data)) ELSE initial_timestamp
    BY <1>8 DEF ClearSampleStream
  <2>2. PICK ids : Tabled(ids)
    BY <1>1, <2>1
  <2>3. ids \in Seq(IdMaps) /\ data = Table(initial_timestamp, ids)
    BY <2>2 DEF Tabled
  <2> DEFINE n == Len(ids)
  <2>4. n \in Nat /\ Len(data) = n /\ (data = <<>> <=> ids = <<>>)
        /\ \A k \in 1..n : data[k].ts = Instant(initial_timestamp, k)
    BY <1>2, <2>3, TableIs
  <2>5. initial_timestamp' = Instant(InitialInstant, retired' + 1)
    <3>1. CASE ids = <<>>
      <4>1. retired' = retired
        BY <1>1, <2>1, <2>4, <3>1
      <4> QED BY <1>1, <2>1, <2>4, <3>1, <4>1
    <3>2. CASE ids # <<>>
      <4> DEFINE j == n - 1
      <4>1. j \in Nat /\ n = j + 1 /\ n + 1 = j + 2 /\ n > 0 /\ n \in 1..n
        BY <2>4, <3>2
      <4>2. data[n].ts = Instant(initial_timestamp, n)
        BY <2>4, <4>1
      <4>3. TsOf(Instant(initial_timestamp, n)) = Instant(initial_timestamp, n)
        BY <1>2, <2>4, <4>1, InstantStamp
      <4>4. BackTs(data) = Instant(initial_timestamp, n)
        BY <2>4, <4>2, <4>3 DEF BackTs
      <4> HIDE DEF j, n
      <4>5. NextInstant(Instant(initial_timestamp, j + 1)) = Instant(initial_timestamp, j + 2)
        BY <1>2, <4>1, InstantNext
      <4>6. initial_timestamp' = Instant(initial_timestamp, n + 1)
        BY <2>1, <2>4, <3>2, <4>1, <4>4, <4>5
      <4>7. Instant(Instant(InitialInstant, retired + 1), n + 1)
              = Instant(InitialInstant, retired + n + 1)
        BY <1>1, <1>2, <2>4, InstantFrom
      <4>8. retired' = retired + n
        BY <2>1, <2>4
      <4> QED BY <1>1, <4>6, <4>7, <4>8
    <3> QED BY <3>1, <3>2
  <2>6. retired' \in Nat /\ given' \in Seq(Types) /\ Len(given') <= MaxUnits
    <3>1. given' \in Seq(Types) /\ Len(given') = 0
      BY <2>1
    <3> QED BY <1>1, <2>1, <2>4, <3>1, SenderAssumption
  <2> QED BY <2>1, <2>5, <2>6 DEF TableInv
<1>9. CASE UNCHANGED <<data, initial_timestamp, given, retired>>
  BY <1>9 DEF TableInv, Tabled
<1>10. SendBitstream => UNCHANGED <<data, initial_timestamp, given, retired>>
  BY DEF SendBitstream
<1>11. \A k \in 1..MaxUnits : SendGof(k) => UNCHANGED <<data, initial_timestamp, given, retired>>
  BY DEF SendGof
<1>12. \A k \in 1..MaxUnits, t \in Types :
         SendUnit(k, t) => UNCHANGED <<data, initial_timestamp, given, retired>>
  BY DEF SendUnit
<1>13. UNCHANGED vars => UNCHANGED <<data, initial_timestamp, given, retired>>
  BY DEF vars
<1> QED BY <1>4, <1>5, <1>6, <1>7, <1>8, <1>9, <1>10, <1>11, <1>12, <1>13 DEF Next, Stopped

(* The inductive invariant of instants and filing.                            *)
THEOREM TableInvariant == NoWrapAround => (Spec => []TableInv)
<1> SUFFICES ASSUME NoWrapAround PROVE Spec => []TableInv
  OBVIOUS
<1>1. Init => TableInv
  BY TableInvInit
<1>2. TableInv /\ [Next]_vars => TableInv'
  BY TableInvNext
<1> QED BY <1>1, <1>2, PTL DEF Spec

(* The k-th GoF of a handle has the instant of the k-th GoF ever given to it, *)
(* over data loaded, appended and cleared (V3C_Sender::send_bitstream and     *)
(* clear_sample_stream of the API).                                           *)
THEOREM InstantsContinue == NoWrapAround => (Spec => []TimestampsContinue)
<1> SUFFICES ASSUME NoWrapAround PROVE Spec => []TimestampsContinue
  OBVIOUS
<1>1. TableInv => TimestampsContinue
  <2> SUFFICES ASSUME TableInv, NEW k \in DOMAIN Held
      PROVE Held[k].ts = (InitialInstant + (retired + k - 1) * FrameDuration) % Wrap
    BY DEF TimestampsContinue
  <2>1. retired \in Nat /\ initial_timestamp = Instant(InitialInstant, retired + 1)
    BY DEF TableInv
  <2>2. InitialInstant \in Nat
    BY SenderAssumption, ClockAssumption
  <2>3. initial_timestamp \in Nat /\ initial_timestamp \in Stamps
    BY <2>1, <2>2, InstantIs, ClockAssumption DEF Stamps
  <2>4. data # NoData /\ Held = data
    BY DEF Held
  <2>5. PICK ids : Tabled(ids)
    BY <2>4 DEF TableInv
  <2>6. ids \in Seq(IdMaps) /\ data = Table(initial_timestamp, ids)
    BY <2>5 DEF Tabled
  <2>7. k \in 1..Len(ids) /\ data[k].ts = Instant(initial_timestamp, k)
    BY <2>3, <2>4, <2>6, TableIs
  <2> DEFINE j == k - 1
  <2>8. /\ j \in Nat /\ k = j + 1 /\ retired + k - 1 = retired + j
        /\ retired + j + 1 = (retired + j) + 1
    BY <2>1, <2>7
  <2> HIDE DEF j
  <2>9. Instant(Instant(InitialInstant, retired + 1), j + 1)
          = Instant(InitialInstant, retired + j + 1)
    BY <2>1, <2>2, <2>8, InstantFrom
  <2>10. retired + j \in Nat
    BY <2>1, <2>8
  <2>11. Instant(InitialInstant, (retired + j) + 1)
           = (InitialInstant + (retired + j) * FrameDuration) % Wrap
    BY <2>2, <2>10, InstantIs
  <2> QED BY <2>1, <2>4, <2>7, <2>8, <2>9, <2>11
<1> QED BY <1>1, TableInvariant, PTL

(* Every unit parsed since the last clear is held, the k-th of its type in    *)
(* the k-th GoF, and every held unit is one of them, when no bitstream is cut *)
(* inside a GoF (Sample_Stream::find_free_gof, push_back of a stream).        *)
THEOREM UnitsAligned == NoWrapAround /\ ~ CutAppends => (Spec => []Aligned)
<1> SUFFICES ASSUME NoWrapAround, ~ CutAppends PROVE Spec => []Aligned
  OBVIOUS
<1>1. TableInv => Aligned
  <2> SUFFICES ASSUME TableInv PROVE Aligned
    OBVIOUS
  <2>1. \A i : Rank(i) = RankIn(given, i)
    BY DEF Rank, RankIn
  <2>2. CASE data = NoData
    <3>1. Held = <<>> /\ given = <<>> /\ DOMAIN Held = {} /\ DOMAIN given = {}
      BY <2>2 DEF TableInv, Held
    <3> QED BY <3>1 DEF Aligned
  <2>3. CASE data # NoData
    <3>1. PICK ids : Tabled(ids)
      BY <2>3 DEF TableInv
    <3>2. ids \in Seq(IdMaps) /\ data = Table(initial_timestamp, ids) /\ Filed(ids, given)
      BY <3>1 DEF Tabled
    <3>3. initial_timestamp \in Stamps
      <4>1. InitialInstant \in Nat /\ retired \in Nat
        BY SenderAssumption, ClockAssumption DEF TableInv
      <4> QED BY <4>1, InstantIs, ClockAssumption DEF TableInv, Stamps
    <3>4. /\ Len(ids) \in Nat /\ DOMAIN data = 1..Len(ids)
          /\ \A k \in 1..Len(ids) : /\ data[k] = Gof(Instant(initial_timestamp, k), ids[k])
                                    /\ ids[k] \in IdMaps /\ DOMAIN data[k].units = DOMAIN ids[k]
      BY <3>2, <3>3, TableIs
    <3>5. Held = data /\ given \in Seq(Types) /\ DOMAIN given = 1..Len(given)
      BY <2>3 DEF Held, TableInv
    <3>6. /\ \A t \in Types : /\ Count(given, t) <= Len(ids)
                              /\ \A k \in 1..Len(ids) : t \in DOMAIN ids[k] <=> k <= Count(given, t)
          /\ \A k \in 1..Len(ids) : \A t \in DOMAIN ids[k] :
               ids[k][t] \in 1..Len(given) /\ given[ids[k][t]] = t /\ RankIn(given, ids[k][t]) = k
      BY <3>2 DEF Filed, FiledTypes, FiledNumbers
    <3>7. ASSUME NEW i \in DOMAIN given
          PROVE Rank(i) \in DOMAIN Held /\ given[i] \in DOMAIN Held[Rank(i)].units
      <4> DEFINE t == given[i]  r == RankIn(given, i)  c == Count(given, t)
      <4>1. t \in Types /\ r \in 1..c /\ c \in Nat
        BY <3>5, RankCount
      <4> HIDE DEF t, r, c
      <4>2. c <= Len(ids)
        BY <3>6, <4>1 DEF c
      <4>3. r \in 1..Len(ids) /\ r <= c
        BY <3>4, <4>1, <4>2
      <4>4. t \in DOMAIN ids[r]
        BY <3>6, <4>1, <4>3 DEF c
      <4> QED BY <2>1, <3>4, <3>5, <4>3, <4>4 DEF t, r
    <3>8. ASSUME NEW k \in DOMAIN Held, NEW t \in DOMAIN Held[k].units
          PROVE LET id == Held[k].units[t].nalus[1].id
                IN id \in DOMAIN given /\ given[id] = t /\ Rank(id) = k
      <4>1. k \in 1..Len(ids) /\ t \in DOMAIN ids[k]
        BY <3>4, <3>5
      <4>2. Held[k].units[t] = Unit(ids[k][t], Instant(initial_timestamp, k))
        BY <3>4, <3>5, <4>1 DEF Gof
      <4>3. Held[k].units[t].nalus[1].id = ids[k][t]
        BY <4>2 DEF Unit
      <4> QED BY <2>1, <3>5, <3>6, <4>1, <4>3
    <3> QED BY <3>7, <3>8 DEF Aligned
  <2> QED BY <2>2, <2>3
<1> QED BY <1>1, TableInvariant, PTL

-----------------------------------------------------------------------------
(* Frames on the wire.                                                      *)
Frames == [type : Nat, id : Nat, ts : Nat]
Ordered(w) ==
  \A i \in 1..(Len(w) - 1) :
    /\ IsSet(w[i].ts)
    /\ w[i + 1].ts \in {w[i].ts, NextInstant(w[i].ts)}
    /\ w[i + 1].ts = w[i].ts => w[i + 1].type > w[i].type

(* Frames sent before a push failed are in order, too.                        *)
LEMMA OrderedPrefix ==
  ASSUME NEW w \in Seq(Frames), Ordered(w), NEW n \in 0..Len(w)
  PROVE  Ordered(SubSeq(w, 1, n))
<1> DEFINE p == SubSeq(w, 1, n)
<1>1. Len(w) \in Nat /\ Len(p) = n /\ \A i \in 1..n : p[i] = w[i]
  OBVIOUS
<1> HIDE DEF p
<1>2. \A i \in 1..(n - 1) : i \in 1..n /\ i + 1 \in 1..n /\ i \in 1..(Len(w) - 1)
  BY <1>1
<1>3. Ordered(p)
  BY <1>1, <1>2 DEF Ordered
<1> QED BY <1>3 DEF p

(* One run after the other.                                                 *)
LEMMA OrderedJoin ==
  ASSUME NEW a \in Seq(Frames), NEW b \in Seq(Frames), Ordered(a), Ordered(b),
         a # <<>> /\ b # <<>> => /\ b[1].ts \in {a[Len(a)].ts, NextInstant(a[Len(a)].ts)}
                                 /\ b[1].ts = a[Len(a)].ts => b[1].type > a[Len(a)].type
  PROVE  Ordered(a \o b)
<1> DEFINE c == a \o b  n == Len(a)  m == Len(b)
<1>1. n \in Nat /\ m \in Nat /\ Len(c) = n + m
      /\ (\A i \in 1..n : c[i] = a[i]) /\ \A i \in 1..m : c[n + i] = b[i]
  BY SeqAfter
<1>2. \A i \in 1..n : IsSet(a[i].ts)
  <2>1. \A i \in 1..n : a[i] \in Frames
    OBVIOUS
  <2> QED BY <2>1, ClockAssumption DEF Frames, IsSet
<1> HIDE DEF c
<1>3. ASSUME NEW i \in 1..(Len(c) - 1)
      PROVE /\ IsSet(c[i].ts)
            /\ c[i + 1].ts \in {c[i].ts, NextInstant(c[i].ts)}
            /\ c[i + 1].ts = c[i].ts => c[i + 1].type > c[i].type
  <2>1. CASE i < n
    <3>1. i \in 1..(Len(a) - 1) /\ i \in 1..n /\ i + 1 \in 1..n
      BY <1>1, <2>1
    <3>2. c[i] = a[i] /\ c[i + 1] = a[i + 1]
      BY <1>1, <3>1
    <3> QED BY <3>1, <3>2 DEF Ordered
  <2>2. CASE i = n
    <3>1. n \in 1..n /\ 1 \in 1..m /\ a # <<>> /\ b # <<>>
      BY <1>1, <2>2
    <3>2. c[i] = a[n] /\ c[i + 1] = b[1]
      BY <1>1, <2>2, <3>1
    <3> DEFINE x == a[Len(a)]  y == b[1]
    <3>3. c[i] = x /\ c[i + 1] = y /\ IsSet(x.ts)
      BY <1>2, <3>1, <3>2
    <3>4. y.ts \in {x.ts, NextInstant(x.ts)} /\ (y.ts = x.ts => y.type > x.type)
      BY <3>1
    <3> HIDE DEF x, y
    <3> QED BY <3>3, <3>4
  <2>3. CASE i > n
    <3> DEFINE j == i - n
    <3>1. j \in 1..(Len(b) - 1) /\ j \in 1..m /\ j + 1 \in 1..m /\ i = n + j /\ i + 1 = n + (j + 1)
      BY <1>1, <2>3
    <3> HIDE DEF j
    <3>2. c[i] = b[j] /\ c[i + 1] = b[j + 1]
      BY <1>1, <3>1
    <3> QED BY <3>1, <3>2 DEF Ordered
  <2> QED BY <1>1, <2>1, <2>2, <2>3
<1>4. Ordered(c)
  BY <1>3 DEF Ordered
<1> QED BY <1>4 DEF c

(* The frame of a unit.                                                       *)
Frame(t, id, ts) == [type |-> t, id |-> id, ts |-> ts]

(* A unit is sent as one frame.                                               *)
LEMMA FramesOfUnit ==
  ASSUME NEW t, NEW id, NEW ts PROVE UnitFrames(t, Unit(id, ts)) = <<Frame(t, id, ts)>>
<1> DEFINE u == Unit(id, ts)
           f == [i \in DOMAIN u.nalus |-> [type |-> t, id |-> u.nalus[i].id, ts |-> u.nalus[i].ts]]
<1>1. DOMAIN u.nalus = 1..1 /\ u.nalus[1] = [id |-> id, ts |-> ts]
  BY DEF Unit
<1> HIDE DEF u
<1>2. f = [i \in 1..1 |-> f[1]] /\ f[1] = Frame(t, id, ts)
  BY <1>1 DEF Frame
<1> HIDE DEF f
<1>3. f = <<f[1]>>
  BY <1>2, OneNalu
<1> QED BY <1>2, <1>3 DEF UnitFrames, f, u

(* The frames of a GoF: all at its instant, one after the other by type.    *)
AtInstant(w, ts, b) ==
  /\ w \in Seq(Frames) /\ Ordered(w)
  /\ \A i \in 1..Len(w) : w[i].ts = ts /\ w[i].type < b

(* send_gof sends the units of a GoF so, and sends at least one.              *)
LEMMA FramesOfGof ==
  ASSUME NEW ts \in Nat, NEW m \in IdMaps, Types \subseteq StreamTypes
  PROVE  AtInstant(GofFrames(Gof(ts, m)), ts, NumTypes) /\ GofFrames(Gof(ts, m)) # <<>>
<1> DEFINE g == Gof(ts, m)  n == NumTypes
           One1(t) == IF t - 1 \in DOMAIN g.units \cap StreamTypes
                        THEN UnitFrames(t - 1, g.units[t - 1]) ELSE <<>>
           Push(t, q) == q \o One1(t)
           f == CHOOSE h : h = [t \in 0..n |-> IF t = 0 THEN <<>> ELSE Push(t, h[t - 1])]
           F == [t \in 1..n |-> [q \in Seq(Frames) |-> Push(t, q)]]
<1>1. GofFrames(g) = f[n] /\ n \in Nat /\ n = 7
  BY DEF GofFrames, NumTypes
<1>2. PICK D \in (SUBSET Types) \ {{}} : m \in [D -> Nat]
  BY DEF IdMaps
<1>3. /\ DOMAIN m = D /\ D # {} /\ D \subseteq StreamTypes
      /\ \A x \in D : x \in 0..(n - 1) /\ m[x] \in Nat
  BY <1>2, SenderAssumption
<1>4. ASSUME NEW t \in 1..n
      PROVE One1(t) = IF t - 1 \in D THEN <<Frame(t - 1, m[t - 1], ts)>> ELSE <<>>
  <2>1. DOMAIN g.units = D /\ \A x \in D : g.units[x] = Unit(m[x], ts)
    BY <1>3 DEF Gof
  <2> HIDE DEF g
  <2>2. CASE t - 1 \in D
    <3> DEFINE x == t - 1
    <3>1. UnitFrames(x, Unit(m[x], ts)) = <<Frame(x, m[x], ts)>>
      BY FramesOfUnit
    <3> QED BY <1>3, <2>1, <2>2, <3>1
  <2>3. CASE t - 1 \notin D
    BY <2>1, <2>3
  <2> QED BY <2>2, <2>3
<1>5. ASSUME NEW t \in 1..n PROVE One1(t) \in Seq(Frames) /\ AtInstant(One1(t), ts, t)
  <2>1. CASE t - 1 \in D
    <3> DEFINE x == t - 1  r == Frame(x, m[x], ts)
    <3>1. x \in Nat /\ m[x] \in Nat /\ x < t
      <4>1. x \in 0..(n - 1) /\ m[x] \in Nat
        BY <1>3, <2>1
      <4> HIDE DEF One1, n
      <4> QED BY <1>1, <4>1
    <3>2. r \in Frames /\ r.ts = ts /\ r.type = x
      BY <3>1 DEF Frame, Frames
    <3>3. One1(t) = <<r>>
      BY <1>4, <2>1
    <3> HIDE DEF r, x, One1
    <3>4. <<r>> \in Seq(Frames) /\ Len(<<r>>) = 1 /\ <<r>>[1] = r
      BY <3>2
    <3>5. Ordered(<<r>>)
      BY <3>4 DEF Ordered
    <3> QED BY <3>1, <3>2, <3>3, <3>4, <3>5 DEF AtInstant
  <2>2. CASE t - 1 \notin D
    <3>1. One1(t) = <<>>
      BY <1>4, <2>2
    <3> HIDE DEF One1
    <3>2. Ordered(<<>>)
      BY DEF Ordered
    <3> QED BY <3>1, <3>2 DEF AtInstant
  <2> QED BY <2>1, <2>2
<1> HIDE DEF g, n, One1, Push
<1>6. F \in [1..n -> [Seq(Frames) -> Seq(Frames)]] /\ <<>> \in Seq(Frames)
  <2>1. \A t \in 1..n, q \in Seq(Frames) : Push(t, q) \in Seq(Frames)
    BY <1>5 DEF Push
  <2> QED BY <2>1
<1>7. \A t \in 1..n, q \in Seq(Frames) : F[t][q] = Push(t, q)
  OBVIOUS
<1> HIDE DEF F
<1>8. PICK h : Loop(h, n, Seq(Frames), <<>>, F)
  BY <1>1, <1>6, LoopExists
<1>9. h \in [0..n -> Seq(Frames)] /\ h[0] = <<>> /\ \A t \in 1..n : h[t] = F[t][h[t - 1]]
  BY <1>8 DEF Loop
<1>10. ASSUME NEW t \in 1..n PROVE h[t] = Push(t, h[t - 1])
  <2>1. t - 1 \in 0..n
    BY <1>1
  <2>2. h[t - 1] \in Seq(Frames)
    BY <1>9, <2>1
  <2> QED BY <1>7, <1>9, <2>2
<1>11. h = [t \in 0..n |-> IF t = 0 THEN <<>> ELSE Push(t, h[t - 1])]
  BY <1>1, <1>9, <1>10
<1>12. f = [t \in 0..n |-> IF t = 0 THEN <<>> ELSE Push(t, f[t - 1])]
  BY <1>11
<1> HIDE DEF f
<1>13. f[0] = <<>> /\ \A t \in 1..n : f[t] = f[t - 1] \o One1(t)
  <2>1. \A t \in 0..n : f[t] = IF t = 0 THEN <<>> ELSE Push(t, f[t - 1])
    BY <1>12
  <2>2. f[0] = <<>> /\ \A t \in 1..n : f[t] = Push(t, f[t - 1])
    BY <1>1, <2>1
  <2> QED BY <2>2 DEF Push
<1> DEFINE S == [t \in 0..n |-> {w \in Seq(Frames) :
                    AtInstant(w, ts, t) /\ ((\E x \in D : x < t) => w # <<>>)}]
<1>14. f[0] \in S[0]
  <2>1. ~ \E x \in D : x < 0
    BY <1>1, <1>3
  <2>2. AtInstant(<<>>, ts, 0)
    BY DEF AtInstant, Ordered
  <2>3. 0 \in 0..n
    BY <1>1
  <2> QED BY <1>6, <1>13, <2>1, <2>2, <2>3
<1>15. ASSUME NEW t \in 1..n, f[t - 1] \in S[t - 1] PROVE f[t] \in S[t]
  <2> DEFINE a == f[t - 1]  b == One1(t)
  <2>1. t - 1 \in 0..n /\ t \in 0..n /\ t \in Nat
    BY <1>1
  <2>2. a \in Seq(Frames) /\ AtInstant(a, ts, t - 1) /\ ((\E x \in D : x < t - 1) => a # <<>>)
    BY <1>15, <2>1
  <2>3. b \in Seq(Frames) /\ AtInstant(b, ts, t)
    BY <1>5
  <2>4. CASE t - 1 \notin D
    <3>1. b = <<>>
      BY <1>4, <2>4
    <3> HIDE DEF a, b
    <3>2. a \o b = a
      BY <2>2, <3>1
    <3>3. f[t] = a
      BY <1>13, <3>2 DEF a, b
    <3>4. AtInstant(a, ts, t)
      <4>1. \A i \in 1..Len(a) : a[i].type \in Nat
        <5>1. \A i \in 1..Len(a) : a[i] \in Frames
          BY <2>2
        <5> QED BY <5>1 DEF Frames
      <4> QED BY <2>1, <2>2, <4>1 DEF AtInstant
    <3>5. (\E x \in D : x < t) => \E x \in D : x < t - 1
      BY <1>1, <1>3, <2>1, <2>4
    <3> QED BY <2>1, <2>2, <3>3, <3>4, <3>5
  <2>5. CASE t - 1 \in D
    <3> DEFINE r == Frame(t - 1, m[t - 1], ts)
    <3>1. b = <<r>> /\ r.ts = ts /\ r.type = t - 1
      BY <1>4, <2>5 DEF Frame
    <3> HIDE DEF a, b, r
    <3>2. Len(b) = 1 /\ b[1] = r
      BY <3>1
    <3>3. a # <<>> => a[Len(a)].ts = ts /\ a[Len(a)].type < t - 1 /\ a[Len(a)].type \in Nat
      <4> SUFFICES ASSUME a # <<>>
                   PROVE  /\ a[Len(a)].ts = ts /\ a[Len(a)].type < t - 1
                          /\ a[Len(a)].type \in Nat
        OBVIOUS
      <4>1. Len(a) \in 1..Len(a) /\ a[Len(a)] \in Frames
        BY <2>2
      <4> QED BY <2>2, <4>1 DEF AtInstant, Frames
    <3>4. Ordered(a \o b)
      <4>1. a # <<>> => b[1].ts = a[Len(a)].ts /\ b[1].type > a[Len(a)].type
        BY <2>1, <3>1, <3>2, <3>3
      <4> QED BY <2>2, <2>3, <4>1, OrderedJoin DEF AtInstant
    <3>5. a \o b \in Seq(Frames) /\ a \o b # <<>> /\ Len(a \o b) = Len(a) + 1 /\ Len(a) \in Nat
          /\ (\A i \in 1..Len(a) : (a \o b)[i] = a[i]) /\ (a \o b)[Len(a) + 1] = r
      <4>1. Len(a) \in Nat /\ a \o b \in Seq(Frames) /\ Len(a \o b) = Len(a) + Len(b)
            /\ (\A i \in 1..Len(a) : (a \o b)[i] = a[i])
            /\ \A i \in 1..Len(b) : (a \o b)[Len(a) + i] = b[i]
        BY <2>2, <2>3, SeqAfter
      <4>2. 1 \in 1..Len(b)
        BY <3>2
      <4>3. a \o b # <<>>
        BY <3>2, <4>1
      <4> QED BY <3>2, <4>1, <4>2, <4>3
    <3> DEFINE c == a \o b
    <3> HIDE DEF c
    <3>6. \A i \in 1..Len(c) : c[i].ts = ts /\ c[i].type < t
      <4> SUFFICES ASSUME NEW i \in 1..Len(c) PROVE c[i].ts = ts /\ c[i].type < t
        OBVIOUS
      <4>1. CASE i = Len(a) + 1
        BY <2>1, <3>1, <3>5, <4>1 DEF c
      <4>2. CASE i # Len(a) + 1
        <5>1. i \in 1..Len(a) /\ c[i] = a[i] /\ a[i] \in Frames
          BY <2>2, <3>5, <4>2 DEF c
        <5>2. a[i].ts = ts /\ a[i].type < t - 1 /\ a[i].type \in Nat
          BY <2>2, <5>1 DEF AtInstant, Frames
        <5> QED BY <2>1, <5>1, <5>2
      <4> QED BY <4>1, <4>2
    <3>7. c \in Seq(Frames) /\ c # <<>> /\ AtInstant(c, ts, t)
      BY <3>4, <3>5, <3>6 DEF AtInstant, c
    <3>8. f[t] = c
      BY <1>13 DEF a, b, c
    <3> QED BY <2>1, <3>7, <3>8
  <2> QED BY <2>4, <2>5
<1>16. f[n] \in S[n]
  <2> HIDE DEF S
  <2>1. \A t \in 0..n : f[t] \in S[t]
    BY <1>1, <1>14, <1>15, Rounds
  <2>2. n \in 0..n
    BY <1>1
  <2> QED BY <2>1, <2>2
<1>17. AtInstant(f[n], ts, n) /\ f[n] # <<>>
  <2>1. n \in 0..n /\ \E x \in D : x < n
    BY <1>1, <1>3
  <2> QED BY <1>16, <2>1
<1> QED BY <1>1, <1>17 DEF n, g

(* The frames of a stream: GoF after GoF.                                   *)
LEMMA FramesOfTable ==
  ASSUME NEW start \in Nat, NEW ids \in Seq(IdMaps), Types \subseteq StreamTypes,
         Len(ids) * FrameDuration < Wrap
  PROVE  LET w == StreamFrames(Table(start, ids)) IN w \in Seq(Frames) /\ Ordered(w)
<1> DEFINE s == Table(start, ids)  n == Len(ids)
           G(k) == GofFrames(s[k])
           Push(k, q) == q \o G(k)
           f == CHOOSE h : h = [k \in 0..n |-> IF k = 0 THEN <<>> ELSE Push(k, h[k - 1])]
           F == [k \in 1..n |-> [q \in Seq(Frames) |-> Push(k, q)]]
<1>1. start \in Stamps /\ n \in Nat
  BY DEF Stamps
<1>2. /\ Len(s) = n
      /\ \A k \in 1..n : s[k] = Gof(Instant(start, k), ids[k]) /\ ids[k] \in IdMaps
  BY <1>1, TableIs
<1>3. StreamFrames(s) = f[n]
  <2> HIDE DEF s
  <2> QED BY <1>2 DEF StreamFrames
<1>4. ASSUME NEW k \in 1..n
      PROVE /\ G(k) \in Seq(Frames) /\ Ordered(G(k)) /\ G(k) # <<>>
            /\ \A i \in 1..Len(G(k)) : G(k)[i].ts = Instant(start, k)
  <2>1. k \in Nat /\ k > 0
    BY <1>1
  <2>2. Instant(start, k) \in Nat
    BY <2>1, InstantStamp
  <2>3. /\ AtInstant(GofFrames(Gof(Instant(start, k), ids[k])), Instant(start, k), NumTypes)
        /\ GofFrames(Gof(Instant(start, k), ids[k])) # <<>>
    BY <1>2, <2>2, FramesOfGof
  <2> HIDE DEF s
  <2>4. G(k) = GofFrames(Gof(Instant(start, k), ids[k]))
    BY <1>2
  <2> HIDE DEF G
  <2> QED BY <2>3, <2>4 DEF AtInstant
<1> HIDE DEF s, n, G, Push
<1>5. F \in [1..n -> [Seq(Frames) -> Seq(Frames)]] /\ <<>> \in Seq(Frames)
  <2>1. \A k \in 1..n, q \in Seq(Frames) : Push(k, q) \in Seq(Frames)
    BY <1>4 DEF Push
  <2> QED BY <2>1
<1>6. \A k \in 1..n, q \in Seq(Frames) : F[k][q] = Push(k, q)
  OBVIOUS
<1> HIDE DEF F
<1>7. PICK h : Loop(h, n, Seq(Frames), <<>>, F)
  BY <1>1, <1>5, LoopExists
<1>8. h \in [0..n -> Seq(Frames)] /\ h[0] = <<>> /\ \A k \in 1..n : h[k] = F[k][h[k - 1]]
  BY <1>7 DEF Loop
<1>9. ASSUME NEW k \in 1..n PROVE h[k] = Push(k, h[k - 1])
  <2>1. k - 1 \in 0..n
    BY <1>1
  <2>2. h[k - 1] \in Seq(Frames)
    BY <1>8, <2>1
  <2> QED BY <1>6, <1>8, <2>2
<1>10. h = [k \in 0..n |-> IF k = 0 THEN <<>> ELSE Push(k, h[k - 1])]
  BY <1>1, <1>8, <1>9
<1>11. f = [k \in 0..n |-> IF k = 0 THEN <<>> ELSE Push(k, f[k - 1])]
  BY <1>10
<1> HIDE DEF f
<1>12. f[0] = <<>> /\ \A k \in 1..n : f[k] = f[k - 1] \o G(k)
  <2>1. \A k \in 0..n : f[k] = IF k = 0 THEN <<>> ELSE Push(k, f[k - 1])
    BY <1>11
  <2>2. f[0] = <<>> /\ \A k \in 1..n : f[k] = Push(k, f[k - 1])
    BY <1>1, <2>1
  <2> QED BY <2>2 DEF Push
<1> DEFINE S == [k \in 0..n |-> {w \in Seq(Frames) :
                    Ordered(w) /\ (w # <<>> => k > 0 /\ w[Len(w)].ts = Instant(start, k))}]
<1>13. f[0] \in S[0]
  <2>1. Ordered(<<>>)
    BY DEF Ordered
  <2>2. 0 \in 0..n
    BY <1>1
  <2> QED BY <1>5, <1>12, <2>1, <2>2
<1>14. ASSUME NEW k \in 1..n, f[k - 1] \in S[k - 1] PROVE f[k] \in S[k]
  <2> DEFINE a == f[k - 1]  b == G(k)  c == a \o b  j == k - 1
  <2>1. j \in 0..n /\ k \in 0..n /\ k > 0 /\ j \in Nat /\ k = j + 1
    BY <1>1
  <2>2. a \in Seq(Frames) /\ Ordered(a) /\ (a # <<>> => j > 0 /\ a[Len(a)].ts = Instant(start, j))
    BY <1>14, <2>1
  <2>3. /\ b \in Seq(Frames) /\ Ordered(b) /\ b # <<>>
        /\ \A i \in 1..Len(b) : b[i].ts = Instant(start, k)
    BY <1>4
  <2>4. Len(a) \in Nat /\ c \in Seq(Frames) /\ Len(c) = Len(a) + Len(b)
        /\ \A i \in 1..Len(b) : c[Len(a) + i] = b[i]
    BY <2>2, <2>3, SeqAfter
  <2> HIDE DEF a, b, c, j
  <2>5. 1 \in 1..Len(b) /\ Len(b) \in 1..Len(b)
    BY <2>3
  <2>6. a # <<>> => /\ b[1].ts = NextInstant(a[Len(a)].ts)
                    /\ b[1].ts # a[Len(a)].ts
    <3> SUFFICES ASSUME a # <<>> PROVE b[1].ts = NextInstant(a[Len(a)].ts) /\ b[1].ts # a[Len(a)].ts
      OBVIOUS
    <3> DEFINE i == j - 1
    <3>1. i \in Nat /\ j = i + 1 /\ k = i + 2 /\ i < j
      BY <2>1, <2>2
    <3> HIDE DEF i
    <3>2. NextInstant(Instant(start, i + 1)) = Instant(start, i + 2)
      BY <3>1, InstantNext
    <3>3. j * FrameDuration < Wrap
      <4> DEFINE x == j * FrameDuration  y == n * FrameDuration
      <4>1. j \in Nat /\ n \in Nat /\ j <= n
        BY <1>1, <2>1
      <4>2. x \in Nat /\ y \in Nat /\ x <= y
        BY <4>1, Times
      <4>3. y < Wrap
        BY DEF n
      <4> HIDE DEF x, y
      <4>4. x < Wrap
        BY <4>3, <4>2, ClockAssumption
      <4> QED BY <4>4 DEF x
    <3>4. Instant(start, i + 1) # Instant(start, j + 1)
      BY <2>1, <3>1, <3>3, InstantsApart
    <3> QED BY <2>1, <2>2, <2>3, <2>5, <3>1, <3>2, <3>4
  <2>7. Ordered(c)
    BY <2>2, <2>3, <2>6, OrderedJoin DEF c
  <2>8. c # <<>> => c[Len(c)].ts = Instant(start, k)
    <3>1. c[Len(c)] = b[Len(b)]
      BY <2>4, <2>5
    <3> QED BY <2>3, <2>5, <3>1
  <2>9. f[k] = c
    BY <1>12 DEF a, b, c
  <2> QED BY <2>1, <2>4, <2>7, <2>8, <2>9
<1>15. f[n] \in S[n]
  <2> HIDE DEF S
  <2>1. \A k \in 0..n : f[k] \in S[k]
    BY <1>1, <1>13, <1>14, Rounds
  <2>2. n \in 0..n
    BY <1>1
  <2> QED BY <2>1, <2>2
<1>16. f[n] \in Seq(Frames) /\ Ordered(f[n])
  <2>1. n \in 0..n
    BY <1>1
  <2> QED BY <1>15, <2>1
<1> QED BY <1>3, <1>16 DEF s

(* A send of ordered frames keeps the action property.                        *)
LEMMA SentOrdered ==
  ASSUME NEW w \in Seq(Frames), Ordered(w), Sent(w) PROVE WireInOrder'
<1>1. PICK n \in 0..Len(w) : wire' = SubSeq(w, 1, n)
  BY DEF Sent
<1>2. Ordered(wire')
  BY <1>1, OrderedPrefix
<1> QED BY <1>2 DEF Ordered, WireInOrder

(* What one call sends leaves in order of instants, consecutive ones, and     *)
(* within an instant in order of types, also when it stops after a failed     *)
(* push (V3C_Sender::send_bitstream, send_gof, send_v3c_unit).                *)
THEOREM SentInOrder ==
  NoWrapAround /\ Types \subseteq StreamTypes => (Spec => []WireInOrder)
<1> SUFFICES ASSUME NoWrapAround, Types \subseteq StreamTypes PROVE Spec => []WireInOrder
  OBVIOUS
<1>1. Init => WireInOrder
  BY DEF Init, WireInOrder
<1>2. ASSUME wire' = <<>> PROVE WireInOrder'
  BY <1>2 DEF WireInOrder
<1>3. ASSUME UNCHANGED wire, WireInOrder PROVE WireInOrder'
  BY <1>3 DEF WireInOrder
<1>4. ASSUME TableInv, data # NoData
      PROVE \E ids \in Seq(IdMaps) :
              /\ data = Table(initial_timestamp, ids) /\ initial_timestamp \in Nat
              /\ Len(ids) * FrameDuration < Wrap
  <2>1. PICK ids : Tabled(ids)
    BY <1>4 DEF TableInv
  <2>2. ids \in Seq(IdMaps) /\ data = Table(initial_timestamp, ids) /\ Len(ids) <= Len(given)
    BY <2>1 DEF Tabled
  <2>3. Len(given) <= MaxUnits /\ given \in Seq(Types) /\ MaxUnits \in Nat
    BY <1>4, SenderAssumption DEF TableInv
  <2>4. Len(ids) \in Nat /\ Len(ids) <= MaxUnits
    BY <2>2, <2>3
  <2>5. Len(ids) * FrameDuration < Wrap
    BY <2>4, Fits
  <2>6. initial_timestamp \in Nat
    <3>1. InitialInstant \in Nat /\ retired \in Nat
      BY <1>4, SenderAssumption, ClockAssumption DEF TableInv
    <3> QED BY <1>4, <3>1, InstantIs, ClockAssumption DEF TableInv
  <2> QED BY <2>2, <2>5, <2>6
<1>5. TableInv /\ WireInOrder /\ [Next]_vars => WireInOrder'
  <2> SUFFICES ASSUME TableInv, WireInOrder, [Next]_vars PROVE WireInOrder'
    OBVIOUS
  <2>1. CASE SendBitstream
    <3>1. PICK ids \in Seq(IdMaps) :
            /\ data = Table(initial_timestamp, ids) /\ initial_timestamp \in Nat
            /\ Len(ids) * FrameDuration < Wrap
      BY <1>4, <2>1 DEF SendBitstream
    <3> DEFINE w == StreamFrames(Table(initial_timestamp, ids))
    <3>2. w \in Seq(Frames) /\ Ordered(w)
      BY <3>1, FramesOfTable
    <3>3. Sent(w)
      BY <2>1, <3>1 DEF SendBitstream
    <3> HIDE DEF w
    <3> QED BY <3>2, <3>3, SentOrdered
  <2>2. ASSUME NEW k \in DOMAIN data, data # NoData
        PROVE \E ids \in IdMaps, ts \in Nat : data[k] = Gof(ts, ids)
    <3>1. PICK ids \in Seq(IdMaps) :
            data = Table(initial_timestamp, ids) /\ initial_timestamp \in Nat
      BY <1>4, <2>2
    <3>2. data \in Seq(Timed)
      <4>1. data \in Seq(Like(initial_timestamp))
        BY <3>1, TableIs DEF Stamps
      <4> QED BY <3>1, <4>1, ClockAssumption DEF Like, IsSet
    <3>3. data[k] \in Timed
      BY <2>2, <3>2
    <3> QED BY <3>3 DEF Timed
  <2>3. ASSUME NEW k \in 1..MaxUnits, SendGof(k) PROVE WireInOrder'
    <3>1. PICK ids \in IdMaps, ts \in Nat : data[k] = Gof(ts, ids)
      BY <2>2, <2>3 DEF SendGof
    <3> DEFINE w == GofFrames(data[k])
    <3>2. w \in Seq(Frames) /\ Ordered(w)
      BY <3>1, FramesOfGof DEF AtInstant
    <3>3. Sent(w)
      BY <2>3 DEF SendGof
    <3> HIDE DEF w
    <3> QED BY <3>2, <3>3, SentOrdered
  <2>4. ASSUME NEW k \in 1..MaxUnits, NEW t \in Types, SendUnit(k, t) PROVE WireInOrder'
    <3>1. PICK ids \in IdMaps, ts \in Nat : data[k] = Gof(ts, ids)
      BY <2>2, <2>4 DEF SendUnit
    <3>2. t \in DOMAIN ids /\ data[k].units[t] = Unit(ids[t], ts)
      <4>1. t \in DOMAIN data[k].units
        BY <2>4 DEF SendUnit
      <4> QED BY <3>1, <4>1 DEF Gof
    <3> DEFINE r == Frame(t, ids[t], ts)
    <3>3. Sent(<<r>>)
      <4>1. Sent(UnitFrames(t, Unit(ids[t], ts)))
        BY <2>4, <3>2 DEF SendUnit
      <4> QED BY <4>1, FramesOfUnit
    <3>4. r \in Frames
      <4>1. ids[t] \in Nat /\ t \in Nat
        BY <3>2, SenderAssumption DEF IdMaps, NumTypes
      <4> QED BY <4>1 DEF Frame, Frames
    <3> HIDE DEF r
    <3>5. <<r>> \in Seq(Frames) /\ Len(<<r>>) = 1
      BY <3>4
    <3>6. Ordered(<<r>>)
      BY <3>5 DEF Ordered
    <3> QED BY <3>3, <3>5, <3>6, SentOrdered
  <2>5. InitEmpty => UNCHANGED wire
    BY DEF InitEmpty
  <2>6. \A c \in InitChunks : InitBitstream(c) => UNCHANGED wire
    BY DEF InitBitstream
  <2>7. \A c \in AppendChunks : AppendBitstream(c) => UNCHANGED wire
    BY DEF AppendBitstream
  <2>8. \A t \in AppendTypes : AppendUnit(t) => UNCHANGED wire
    BY DEF AppendUnit
  <2>9. ClearSampleStream => wire' = <<>>
    BY DEF ClearSampleStream
  <2>10. UNCHANGED vars => UNCHANGED wire
    BY DEF vars
  <2> QED BY <1>2, <1>3, <2>1, <2>3, <2>4, <2>5, <2>6, <2>7, <2>8, <2>9, <2>10 DEF Next, Stopped
<1> QED BY <1>1, <1>5, TableInvariant, PTL DEF Spec
===========================================================================
