------------------------ MODULE StreamReceiverProofs ------------------------
(***************************************************************************)
(* Theorems about StreamReceiver, for every number of types, every schedule *)
(* of frames and every sequence of calls.  The stream of a receiving handle *)
(* consists of GoFs of one instant, or opened by an empty unit; the lemmas  *)
(* say that each operation of the containers keeps it so, and where the    *)
(* NALUs it files come to be.                                              *)
(***************************************************************************)
EXTENDS StreamReceiver, SampleStreamProofs, SequenceTheorems, FiniteSetTheorems

Passing == INSTANCE UnitAssemblyProofs

Times == 0..Wrap - 1
Nalus == [id : Nat, ts : Stamps]
SizeMaps == UNION {[D -> Nat] : D \in SUBSET Types}
UnitMaps == UNION {[D -> Units] : D \in SUBSET Types}

(* The frames sent of a type, and the units a call makes of them.           *)
FramesOf(t) == {Frame(t, i) : i \in DOMAIN Frames[t]}
Received(t) ==
  {u \in [ts : Stamps, nalus : Seq(FramesOf(t))] :
     /\ \A i \in DOMAIN u.nalus : u.nalus[i].ts = u.ts
     /\ u.nalus = <<>> <=> u.ts = Unset
     /\ u.nalus = <<>> => t = VPS}

(* A GoF of a stream has units, of which that of the VPS alone may be       *)
(* empty; without an empty one it is of one instant.                        *)
UnitAt(u, t, ts) ==
  u.ts = ts /\ \A i \in DOMAIN u.nalus : u.nalus[i] \in FramesOf(t) /\ u.nalus[i].ts = ts
Exact(g) == g.ts \in Times /\ \A t \in DOMAIN g.units : UnitAt(g.units[t], t, g.ts)
GoodGofs ==
  {g \in Gofs : /\ DOMAIN g.units # {}
                /\ \A t \in DOMAIN g.units : g.units[t].nalus = <<>> => t = VPS
                /\ Padded(g) \/ Exact(g)}

(* The clock is not empty, and an unset timestamp is none of its instants.  *)
LEMMA Clock ==
  /\ Wrap \in Nat /\ Wrap > 0 /\ Times \subseteq Nat /\ 0 \in Times /\ Unset \notin Times
  /\ Stamps = Times \cup {Unset}
<1>1. Wrap \in Nat /\ Wrap > 0 /\ Unset \notin Nat
  BY ClockAssumption
<1> QED BY <1>1 DEF Times, Stamps

(* The instant after another is one of the clock.                           *)
LEMMA NextStamp == ASSUME NEW n \in Nat PROVE NextInstant(n) \in Times
<1>1. Wrap \in Nat /\ Wrap > 0 /\ n + FrameDuration \in Nat
  BY ClockAssumption
<1> DEFINE m == n + FrameDuration
<1>2. (m % Wrap) \in 0..(Wrap - 1)
  <2> HIDE DEF m
  <2> QED BY <1>1 DEF m
<1> QED BY <1>2 DEF NextInstant, Times

(* A frame has the timestamp of an instant.                                 *)
LEMMA FrameIs ==
  ASSUME NEW t \in Types
  PROVE  /\ FramesOf(t) \subseteq [id : Nat, ts : Times] /\ FramesOf(t) \subseteq Nalus
         /\ \A n \in FramesOf(t) : n.id \in DOMAIN Frames[t] /\ n = Frame(t, n.id)
<1> SUFFICES ASSUME NEW i \in DOMAIN Frames[t]
             PROVE  /\ Frame(t, i) \in [id : Nat, ts : Times] /\ Frame(t, i) \in Nalus
                    /\ Frame(t, i).id = i
  BY DEF FramesOf
<1>1. Frames[t] \in Seq(DOMAIN Instants) /\ Instants \in Seq(Times)
  BY ReceiverAssumption DEF Times
<1>2. i \in Nat /\ Frames[t][i] \in DOMAIN Instants
  BY <1>1
<1> DEFINE k == Frames[t][i]
<1>3. k \in DOMAIN Instants
  BY <1>2
<1> HIDE DEF k
<1>4. Instants[k] \in Times
  BY <1>1, <1>3
<1>5. Instants[k] \in Stamps
  BY <1>4, Clock
<1> QED BY <1>2, <1>4, <1>5 DEF Frame, k, Nalus

(* A unit received is a unit.                                               *)
LEMMA ReceivedIsUnit ==
  ASSUME NEW t \in Types, NEW u \in Received(t)
  PROVE  /\ u \in Units /\ u.nalus \in Seq(FramesOf(t)) /\ u.nalus \in Seq(Nalus)
         /\ u = [ts |-> u.ts, nalus |-> u.nalus] /\ u.ts \in Stamps
         /\ u.nalus # <<>> => u.ts \in Times /\ UnitAt(u, t, u.ts)
<1>1. u \in [ts : Stamps, nalus : Seq(FramesOf(t))] /\ FramesOf(t) \subseteq Nalus
      /\ (\A i \in DOMAIN u.nalus : u.nalus[i].ts = u.ts) /\ (u.nalus = <<>> <=> u.ts = Unset)
  BY FrameIs DEF Received
<1>2. u.nalus \in Seq(FramesOf(t)) /\ u.ts \in Stamps /\ u = [ts |-> u.ts, nalus |-> u.nalus]
  BY <1>1
<1>3. u.nalus \in Seq(Nalus)
  BY <1>1, <1>2, SeqMonotonic
<1>4. u \in Units
  BY <1>2, <1>3 DEF Units, Nalus
<1>5. ASSUME u.nalus # <<>> PROVE u.ts \in Times /\ UnitAt(u, t, u.ts)
  <2>1. u.ts \in Times
    BY <1>1, <1>2, <1>5, Clock
  <2>2. \A i \in DOMAIN u.nalus : u.nalus[i] \in FramesOf(t)
    BY <1>2
  <2> QED BY <1>1, <2>1, <2>2 DEF UnitAt
<1> QED BY <1>2, <1>3, <1>4, <1>5

(* V3C_Unit::set_timestamp.                                                 *)
LEMMA StampingUnit ==
  ASSUME NEW u \in Units, NEW ts \in Stamps
  PROVE  LET v == StampUnit(u, ts)
         IN /\ v \in Units /\ v.ts = ts /\ Ids(v.nalus) = Ids(u.nalus)
            /\ v.nalus = <<>> <=> u.nalus = <<>>
<1> DEFINE q == [i \in DOMAIN u.nalus |-> [u.nalus[i] EXCEPT !.ts = ts]]
<1>1. StampUnit(u, ts) = [u EXCEPT !.ts = ts, !.nalus = q]
  BY DEF StampUnit
<1>2. u = [ts |-> u.ts, nalus |-> u.nalus] /\ u.nalus \in Seq(Nalus)
  BY DEF Units, Nalus
<1>3. /\ q \in Seq(Nalus) /\ DOMAIN q = DOMAIN u.nalus
      /\ \A i \in DOMAIN q : q[i].id = u.nalus[i].id
      /\ q = <<>> <=> u.nalus = <<>>
  <2> DEFINE w == u.nalus
  <2>1. w \in Seq(Nalus)
    BY <1>2
  <2>2. \A i \in DOMAIN w : w[i] \in Nalus
    BY <2>1
  <2>3. ASSUME NEW n \in Nalus
        PROVE  [n EXCEPT !.ts = ts] = [id |-> n.id, ts |-> ts] /\ [n EXCEPT !.ts = ts] \in Nalus
    <3>1. n = [id |-> n.id, ts |-> n.ts] /\ n.id \in Nat
      BY DEF Nalus
    <3>2. [n EXCEPT !.ts = ts] = [id |-> n.id, ts |-> ts]
      BY <3>1, Z3
    <3> QED BY <3>1, <3>2 DEF Nalus
  <2>4. \A i \in DOMAIN w : [w[i] EXCEPT !.ts = ts] \in Nalus
    BY <2>2, <2>3
  <2>5. Len(w) \in Nat /\ DOMAIN w = 1..Len(w)
    BY <2>1
  <2>6. q = [i \in 1..Len(w) |-> [w[i] EXCEPT !.ts = ts]]
    BY <2>5
  <2>7. q \in Seq(Nalus) /\ Len(q) = Len(w) /\ DOMAIN q = 1..Len(w)
    BY <2>4, <2>5, <2>6
  <2>8. \A i \in DOMAIN w : q[i].id = w[i].id
    <3> SUFFICES ASSUME NEW i \in DOMAIN w PROVE q[i].id = w[i].id
      OBVIOUS
    <3>1. q[i] = [id |-> w[i].id, ts |-> ts]
      BY <2>2, <2>3
    <3> HIDE DEF q
    <3> QED BY <3>1
  <2> HIDE DEF q, w
  <2>9. (q = <<>> <=> Len(q) = 0) /\ (w = <<>> <=> Len(w) = 0)
    BY <2>1, <2>7
  <2> QED BY <2>5, <2>7, <2>8, <2>9 DEF w
<1> HIDE DEF q
<1> DEFINE w == u.nalus
<1>4. [u EXCEPT !.ts = ts, !.nalus = q] = [[u EXCEPT !.ts = ts] EXCEPT !.nalus = q]
  OBVIOUS
<1>5. [u EXCEPT !.ts = ts] = [ts |-> ts, nalus |-> w]
  BY <1>2, Z3
<1>6. [[ts |-> ts, nalus |-> w] EXCEPT !.nalus = q] = [ts |-> ts, nalus |-> q]
  BY Z3
<1>7. StampUnit(u, ts) = [ts |-> ts, nalus |-> q]
  BY <1>1, <1>4, <1>5, <1>6
<1>8. StampUnit(u, ts) \in Units
  BY <1>3, <1>7 DEF Units, Nalus
<1>9. Ids(q) = Ids(u.nalus)
  BY <1>3 DEF Ids
<1> QED BY <1>3, <1>7, <1>8, <1>9

(* The fields of a GoF, and a GoF with some of them replaced.               *)
LEMMA Fields ==
  ASSUME NEW g, NEW a, NEW b, NEW c, NEW x, NEW y, g = [ts |-> a, units |-> b, sizes |-> c]
  PROVE  /\ [g EXCEPT !.ts = x, !.units = y] = [ts |-> x, units |-> y, sizes |-> c]
         /\ [g EXCEPT !.sizes = x] = [ts |-> a, units |-> b, sizes |-> x]
         /\ [g EXCEPT !.units = y] = [ts |-> a, units |-> y, sizes |-> c]
<1>1. [g EXCEPT !.ts = x, !.units = y] = [[g EXCEPT !.ts = x] EXCEPT !.units = y]
  OBVIOUS
<1>2. [g EXCEPT !.ts = x] = [ts |-> x, units |-> b, sizes |-> c]
  BY Z3
<1>3. [[ts |-> x, units |-> b, sizes |-> c] EXCEPT !.units = y]
        = [ts |-> x, units |-> y, sizes |-> c]
  BY Z3
<1>4. [g EXCEPT !.sizes = x] = [ts |-> a, units |-> b, sizes |-> x]
  BY Z3
<1>5. [g EXCEPT !.units = y] = [ts |-> a, units |-> y, sizes |-> c]
  BY Z3
<1> QED BY <1>1, <1>2, <1>3, <1>4, <1>5

(* A GoF has the three fields, and is made of any three good ones.          *)
LEMMA GofFields ==
  ASSUME NEW g \in Gofs
  PROVE  /\ g = [ts |-> g.ts, units |-> g.units, sizes |-> g.sizes]
         /\ g.ts \in Stamps /\ g.sizes \in SizeMaps /\ DOMAIN g.units \subseteq Types
         /\ g.units = [t \in DOMAIN g.units |-> g.units[t]]
         /\ \A t \in DOMAIN g.units : g.units[t] \in Units
<1>1. /\ g = [ts |-> g.ts, units |-> g.units, sizes |-> g.sizes]
      /\ g.ts \in Stamps /\ g.sizes \in SizeMaps /\ g.units \in UnitMaps
  BY DEF Gofs, SizeMaps, UnitMaps
<1>2. PICK D \in SUBSET Types : g.units \in [D -> Units]
  BY <1>1 DEF UnitMaps
<1> QED BY <1>1, <1>2

LEMMA GofOf ==
  ASSUME NEW a \in Stamps, NEW b, NEW c \in SizeMaps, b = [t \in DOMAIN b |-> b[t]],
         DOMAIN b \subseteq Types, \A t \in DOMAIN b : b[t] \in Units
  PROVE  [ts |-> a, units |-> b, sizes |-> c] \in Gofs
<1> DEFINE D == DOMAIN b
<1>1. b \in [D -> Units] /\ D \in SUBSET Types
  OBVIOUS
<1> HIDE DEF D
<1>2. b \in UnitMaps
  BY <1>1 DEF UnitMaps
<1> QED BY <1>2 DEF Gofs, UnitMaps, SizeMaps

(* A function on nothing is the empty sequence.                             *)
LEMMA NoUnits ==
  ASSUME NEW f, f = [x \in DOMAIN f |-> f[x]] PROVE f = <<>> <=> DOMAIN f = {}
<1>1. ASSUME DOMAIN f = {} PROVE f = <<>>
  <2>1. <<>> = [x \in 1..0 |-> f[x]] /\ 1..0 = {}
    OBVIOUS
  <2> QED BY <1>1, <2>1
<1>2. ASSUME f = <<>> PROVE DOMAIN f = {}
  BY <1>2
<1> QED BY <1>1, <1>2

(* What V3C_Gof::set puts into the GoF.                                     *)
LEMMA SetUnit ==
  ASSUME NEW t \in Types, NEW g \in GoodGofs \cup {EmptyGof}, NEW u \in Received(t)
  PROVE  LET v == IF IsSet(g.ts) /\ ~ IsSet(u.ts) THEN StampUnit(u, g.ts) ELSE u
             h == GofSet(g, t, u)
         IN /\ h = [ts |-> h.ts, units |-> Emplace(g.units, t, v), sizes |-> g.sizes]
            /\ h.ts = IF g = EmptyGof THEN u.ts ELSE g.ts
            /\ v \in Units /\ Ids(v.nalus) = Ids(u.nalus) /\ (v.nalus = <<>> <=> u.nalus = <<>>)
            /\ v.ts = u.ts \/ u.nalus = <<>>
            /\ g.ts \in Stamps /\ g.sizes \in SizeMaps /\ DOMAIN g.units \subseteq Types
            /\ \A x \in DOMAIN g.units : g.units[x] \in Units
            /\ g = EmptyGof <=> DOMAIN g.units = {}
<1> DEFINE v == IF IsSet(g.ts) /\ ~ IsSet(u.ts) THEN StampUnit(u, g.ts) ELSE u
           e == Emplace(g.units, t, v)
           n == IF g.units = <<>> /\ ~ IsSet(g.ts) THEN u.ts ELSE g.ts
<1>1. /\ g = [ts |-> g.ts, units |-> g.units, sizes |-> g.sizes]
      /\ g.ts \in Stamps /\ g.sizes \in SizeMaps /\ DOMAIN g.units \subseteq Types
      /\ \A x \in DOMAIN g.units : g.units[x] \in Units
      /\ g = EmptyGof <=> DOMAIN g.units = {}
      /\ g = EmptyGof <=> g.units = <<>>
      /\ g = EmptyGof => g.ts = Unset
  <2>1. CASE g = EmptyGof
    <3>1. <<>> \in SizeMaps
      <4>1. <<>> \in [{} -> Nat] /\ {} \in SUBSET Types
        OBVIOUS
      <4> QED BY <4>1 DEF SizeMaps
    <3>2. DOMAIN g.units = {} /\ g.units = <<>> /\ g.sizes = <<>> /\ g.ts = Unset
      BY <2>1 DEF EmptyGof
    <3> QED BY <2>1, <3>1, <3>2 DEF EmptyGof, Stamps
  <2>2. CASE g \in GoodGofs
    <3>1. g \in Gofs /\ DOMAIN g.units # {}
      BY <2>2 DEF GoodGofs
    <3>2. g.units # <<>>
      BY <3>1, GofFields, NoUnits
    <3>3. g # EmptyGof
      BY <3>2 DEF EmptyGof
    <3> QED BY <3>1, <3>2, <3>3, GofFields
  <2> QED BY <2>1, <2>2
<1>2. GofSet(g, t, u) = [g EXCEPT !.ts = n, !.units = e]
  BY DEF GofSet
<1>3. u \in Units /\ u.ts \in Stamps /\ (u.nalus # <<>> => u.ts \in Times)
  BY ReceivedIsUnit
<1>4. v \in Units /\ Ids(v.nalus) = Ids(u.nalus) /\ (v.nalus = <<>> <=> u.nalus = <<>>)
  BY <1>1, <1>3, StampingUnit
<1>5. v.ts = u.ts \/ u.nalus = <<>>
  BY <1>3, Clock DEF IsSet
<1> HIDE DEF v
<1>6. n = IF g = EmptyGof THEN u.ts ELSE g.ts
  BY <1>1 DEF IsSet
<1> HIDE DEF n, e
<1>7. GofSet(g, t, u) = [ts |-> n, units |-> e, sizes |-> g.sizes]
  BY <1>1, <1>2, Fields
<1> QED BY <1>1, <1>4, <1>5, <1>6, <1>7 DEF v, e

(* The NALUs of a GoF h are those of g, of type t also those in M.          *)
Gains(g, h, t, M) ==
  \A x \in Types : UnitIds(h, x) \subseteq UnitIds(g, x) \cup (IF x = t THEN M ELSE {})

(* V3C_Gof::set makes a good GoF of one, or of a new one.                   *)
LEMMA SetGood ==
  ASSUME NEW t \in Types, NEW g \in GoodGofs \cup {EmptyGof}, NEW u \in Received(t),
         GofAccepts(g, u)
  PROVE  /\ GofSet(g, t, u) \in GoodGofs
         /\ DOMAIN GofSet(g, t, u).units = DOMAIN g.units \cup {t}
         /\ g # EmptyGof => GofSet(g, t, u).ts = g.ts
         /\ Gains(g, GofSet(g, t, u), t, Ids(u.nalus))
         /\ \A x \in DOMAIN g.units : GofSet(g, t, u).units[x] = g.units[x]
         /\ t \notin DOMAIN g.units =>
              /\ Ids(GofSet(g, t, u).units[t].nalus) = Ids(u.nalus)
              /\ u.nalus # <<>> => GofSet(g, t, u).units[t] = u
<1> DEFINE v == IF IsSet(g.ts) /\ ~ IsSet(u.ts) THEN StampUnit(u, g.ts) ELSE u
           h == GofSet(g, t, u)  e == Emplace(g.units, t, v)
<1>1. /\ h = [ts |-> h.ts, units |-> e, sizes |-> g.sizes]
      /\ h.ts = IF g = EmptyGof THEN u.ts ELSE g.ts
      /\ v \in Units /\ Ids(v.nalus) = Ids(u.nalus) /\ (v.nalus = <<>> <=> u.nalus = <<>>)
      /\ v.ts = u.ts \/ u.nalus = <<>>
      /\ g.ts \in Stamps /\ g.sizes \in SizeMaps /\ DOMAIN g.units \subseteq Types
      /\ \A x \in DOMAIN g.units : g.units[x] \in Units
      /\ g = EmptyGof <=> DOMAIN g.units = {}
  BY SetUnit
<1>2. /\ u \in Units /\ u.ts \in Stamps /\ u.nalus \in Seq(FramesOf(t))
      /\ u.nalus # <<>> => u.ts \in Times /\ UnitAt(u, t, u.ts)
      /\ u.nalus = <<>> => t = VPS
  BY ReceivedIsUnit DEF Received
<1>3. u.nalus # <<>> => v = u
  BY <1>2, Clock DEF IsSet
<1> HIDE DEF v, h
<1>4. /\ DOMAIN e = DOMAIN g.units \cup {t} /\ e = [x \in DOMAIN e |-> e[x]]
      /\ \A x \in DOMAIN g.units : e[x] = g.units[x]
      /\ t \notin DOMAIN g.units => e[t] = v
  BY DEF Emplace
<1> HIDE DEF e
<1>5. h.units = e
  BY <1>1
<1>6. h.ts \in Stamps
  BY <1>1, <1>2
<1>7. \A x \in DOMAIN e : e[x] \in Units
  BY <1>1, <1>4
<1>8. h \in Gofs
  <2>1. DOMAIN e \subseteq Types
    BY <1>1, <1>4
  <2> QED BY <1>1, <1>4, <1>6, <1>7, <2>1, GofOf
<1>9. \A x \in DOMAIN e : e[x].nalus = <<>> => x = VPS
  <2>1. \A x \in DOMAIN g.units : g.units[x].nalus = <<>> => x = VPS
    BY <1>1 DEF GoodGofs
  <2> QED BY <1>1, <1>2, <1>4, <2>1
<1>10. Padded(h) \/ Exact(h)
  <2>1. CASE Padded(g)
    BY <1>4, <1>5, <2>1 DEF Padded
  <2>2. CASE t \notin DOMAIN g.units /\ u.nalus = <<>>
    BY <1>1, <1>4, <1>5, <2>2 DEF Padded
  <2>3. CASE ~ Padded(g) /\ t \in DOMAIN g.units
    <3>1. Exact(g) /\ h.ts = g.ts /\ DOMAIN e = DOMAIN g.units
      BY <1>1, <1>4, <2>3 DEF GoodGofs
    <3> QED BY <1>4, <1>5, <3>1 DEF Exact
  <2>4. CASE ~ Padded(g) /\ t \notin DOMAIN g.units /\ u.nalus # <<>>
    <3>1. v = u /\ u.ts \in Times /\ UnitAt(u, t, u.ts) /\ e[t] = u
      BY <1>2, <1>3, <1>4, <2>4
    <3>2. CASE g = EmptyGof
      <4>1. h.ts = u.ts /\ DOMAIN e = {t}
        BY <1>1, <1>4, <3>2
      <4> QED BY <1>5, <3>1, <4>1 DEF Exact
    <3>3. CASE g # EmptyGof
      <4>1. Exact(g) /\ h.ts = g.ts /\ g.ts \in Times
        BY <1>1, <2>4, <3>3 DEF GoodGofs, Exact
      <4>2. u.ts = g.ts
        BY <3>1, <4>1, Clock DEF GofAccepts, IsSet
      <4> QED BY <1>4, <1>5, <3>1, <4>1, <4>2 DEF Exact
    <3> QED BY <3>2, <3>3
  <2> QED BY <2>1, <2>2, <2>3, <2>4
<1>11. h \in GoodGofs
  BY <1>4, <1>5, <1>8, <1>9, <1>10 DEF GoodGofs
<1>12. Gains(g, h, t, Ids(u.nalus))
  BY <1>1, <1>4, <1>5 DEF Gains, UnitIds
<1> QED BY <1>1, <1>3, <1>4, <1>5, <1>11, <1>12 DEF h

(* V3C_Gof::set_timestamp, of a GoF that had none: an empty unit opened it. *)
LEMMA StampGood ==
  ASSUME NEW g \in GoodGofs, ~ IsSet(g.ts), NEW ts \in Stamps
  PROVE  LET h == StampGof(g, ts)
         IN /\ h \in GoodGofs /\ h.ts = ts /\ DOMAIN h.units = DOMAIN g.units
            /\ \A x \in Types : UnitIds(h, x) = UnitIds(g, x)
<1> DEFINE e == [t \in DOMAIN g.units |-> StampUnit(g.units[t], ts)]  h == StampGof(g, ts)
<1>1. h = [g EXCEPT !.ts = ts, !.units = e]
  BY DEF StampGof
<1>2. /\ g \in Gofs /\ DOMAIN g.units # {}
      /\ \A t \in DOMAIN g.units : g.units[t].nalus = <<>> => t = VPS
      /\ Padded(g) \/ Exact(g)
  BY DEF GoodGofs
<1>3. /\ g = [ts |-> g.ts, units |-> g.units, sizes |-> g.sizes] /\ g.sizes \in SizeMaps
      /\ DOMAIN g.units \subseteq Types /\ \A t \in DOMAIN g.units : g.units[t] \in Units
  BY <1>2, GofFields
<1>4. Padded(g)
  BY <1>2, Clock DEF Exact, IsSet
<1>5. /\ DOMAIN e = DOMAIN g.units /\ e = [t \in DOMAIN e |-> e[t]]
      /\ \A t \in DOMAIN g.units : e[t] = StampUnit(g.units[t], ts)
  OBVIOUS
<1> HIDE DEF e, h
<1>6. \A t \in DOMAIN g.units : /\ e[t] \in Units /\ Ids(e[t].nalus) = Ids(g.units[t].nalus)
                                /\ e[t].nalus = <<>> <=> g.units[t].nalus = <<>>
  BY <1>3, <1>5, StampingUnit
<1>7. h = [ts |-> ts, units |-> e, sizes |-> g.sizes]
  BY <1>1, <1>3, Fields
<1>8. h \in Gofs
  BY <1>3, <1>5, <1>6, <1>7, GofOf
<1>9. h.ts = ts /\ h.units = e
  BY <1>7
<1>10. Padded(h)
  BY <1>4, <1>5, <1>6, <1>9 DEF Padded
<1>11. h \in GoodGofs
  BY <1>2, <1>5, <1>6, <1>8, <1>9, <1>10 DEF GoodGofs
<1>12. \A x \in Types : UnitIds(h, x) = UnitIds(g, x)
  BY <1>5, <1>6, <1>9 DEF UnitIds
<1> QED BY <1>5, <1>9, <1>11, <1>12 DEF h

(* The size map of a GoF may be any.                                        *)
LEMMA SizesGood ==
  ASSUME NEW g \in GoodGofs, NEW c \in SizeMaps
  PROVE  LET h == [g EXCEPT !.sizes = c]
         IN h \in GoodGofs /\ h.ts = g.ts /\ h.units = g.units
<1> DEFINE h == [g EXCEPT !.sizes = c]
<1>1. g \in Gofs
  BY DEF GoodGofs
<1>2. g = [ts |-> g.ts, units |-> g.units, sizes |-> g.sizes] /\ g.ts \in Stamps
      /\ DOMAIN g.units \subseteq Types /\ g.units = [t \in DOMAIN g.units |-> g.units[t]]
      /\ \A t \in DOMAIN g.units : g.units[t] \in Units
  BY <1>1, GofFields
<1>3. h = [ts |-> g.ts, units |-> g.units, sizes |-> c]
  <2> DEFINE a == g.ts  b == g.units  d == g.sizes
  <2>1. g = [ts |-> a, units |-> b, sizes |-> d]
    BY <1>2
  <2> HIDE DEF a, b, d
  <2>2. h = [ts |-> a, units |-> b, sizes |-> c]
    BY <2>1, Z3
  <2> QED BY <2>2 DEF a, b
<1> HIDE DEF h
<1>4. h \in Gofs
  BY <1>2, <1>3, GofOf
<1>5. h.ts = g.ts /\ h.units = g.units
  BY <1>3
<1>6. Padded(h) <=> Padded(g)
  BY <1>5 DEF Padded
<1>7. Exact(h) <=> Exact(g)
  BY <1>5 DEF Exact
<1> QED BY <1>4, <1>5, <1>6, <1>7 DEF GoodGofs, h

(* V3C_Unit::push_back, into a GoF of the instant of the NALU.              *)
LEMMA PushedGood ==
  ASSUME NEW t \in Types, t # VPS, NEW g \in GoodGofs, t \in DOMAIN g.units,
         NEW n \in FramesOf(t), TsOf(g.ts) = n.ts, UnitAccepts(g.units[t], n)
  PROVE  LET h == [g EXCEPT !.units[t] = UnitPush(@, n)]
         IN /\ h \in GoodGofs /\ h.ts = g.ts /\ Gains(g, h, t, {n.id})
            /\ DOMAIN h.units = DOMAIN g.units
            /\ \A x \in DOMAIN g.units : h.units[x].ts = g.units[x].ts
            /\ \A x \in Types : UnitIds(g, x) \subseteq UnitIds(h, x)
            /\ n.id \in UnitIds(h, t)
            /\ h.units[t].nalus = Append(g.units[t].nalus, n)
            /\ \A x \in DOMAIN g.units : x # t => h.units[x] = g.units[x]
            /\ Padded(g) => Padded(h)
<1> DEFINE u == g.units[t]  e == [g.units EXCEPT ![t] = UnitPush(u, n)]
           h == [g EXCEPT !.units[t] = UnitPush(@, n)]
           ts == IF u.nalus = <<>> /\ ~ IsSet(u.ts) THEN n.ts ELSE u.ts
           m == IF IsSet(u.ts) THEN [n EXCEPT !.ts = u.ts] ELSE n
           q == Append(u.nalus, m)
<1>1. /\ g \in Gofs /\ DOMAIN g.units # {}
      /\ \A x \in DOMAIN g.units : g.units[x].nalus = <<>> => x = VPS
      /\ Padded(g) \/ Exact(g)
  BY DEF GoodGofs
<1>2. /\ g = [ts |-> g.ts, units |-> g.units, sizes |-> g.sizes] /\ g.sizes \in SizeMaps
      /\ g.ts \in Stamps /\ DOMAIN g.units \subseteq Types
      /\ g.units = [x \in DOMAIN g.units |-> g.units[x]]
      /\ \A x \in DOMAIN g.units : g.units[x] \in Units
  BY <1>1, GofFields
<1>3. u \in Units /\ u = [ts |-> u.ts, nalus |-> u.nalus] /\ u.ts \in Stamps
      /\ u.nalus \in Seq(Nalus) /\ u.nalus # <<>>
  BY <1>1, <1>2 DEF Units, Nalus
<1>4. n = [id |-> n.id, ts |-> n.ts] /\ n.id \in Nat /\ n.ts \in Times /\ n.ts \in Stamps
  BY FrameIs, Clock
<1>5. m = n
  <2>1. ASSUME IsSet(u.ts) PROVE [n EXCEPT !.ts = u.ts] = n
    <3>1. u.ts = n.ts
      BY <1>4, <2>1, Clock DEF UnitAccepts, IsSet
    <3> QED BY <1>4, <3>1, Z3
  <2> QED BY <2>1
<1>6. UnitPush(u, n) = [u EXCEPT !.ts = ts, !.nalus = q]
  <2> HIDE DEF u
  <2> QED BY DEF UnitPush
<1>7. n \in Nalus
  BY <1>4 DEF Nalus
<1>8. /\ q \in Seq(Nalus) /\ DOMAIN q = DOMAIN u.nalus \cup {Len(u.nalus) + 1} /\ q # <<>>
      /\ q[Len(u.nalus) + 1] = n /\ \A i \in DOMAIN u.nalus : q[i] = u.nalus[i]
  <2> HIDE DEF u, m
  <2> QED BY <1>3, <1>5, <1>7
<1>9. h = [g EXCEPT !.units = e]
  BY <1>2
<1> DEFINE v == [ts |-> ts, nalus |-> q]
<1>10. UnitPush(u, n) = v
  <2> DEFINE w == u.nalus
  <2> HIDE DEF u, q, ts
  <2>1. [u EXCEPT !.ts = ts, !.nalus = q] = [[u EXCEPT !.ts = ts] EXCEPT !.nalus = q]
    OBVIOUS
  <2>2. [u EXCEPT !.ts = ts] = [ts |-> ts, nalus |-> w]
    BY <1>3, Z3
  <2>3. [[ts |-> ts, nalus |-> w] EXCEPT !.nalus = q] = [ts |-> ts, nalus |-> q]
    BY Z3
  <2> QED BY <1>6, <2>1, <2>2, <2>3
<1>11. ts = u.ts
  BY <1>3
<1>12. v \in Units
  <2> HIDE DEF q, ts, u
  <2> QED BY <1>3, <1>8, <1>11 DEF Units, Nalus
<1>13. /\ DOMAIN e = DOMAIN g.units /\ e = [x \in DOMAIN e |-> e[x]] /\ e[t] = v
       /\ \A x \in DOMAIN g.units : x # t => e[x] = g.units[x]
  <2> HIDE DEF v, u
  <2> QED BY <1>2, <1>10
<1> HIDE DEF h, e
<1>14. h = [ts |-> g.ts, units |-> e, sizes |-> g.sizes]
  BY <1>2, <1>9, Fields
<1>15. \A x \in DOMAIN e : e[x] \in Units
  <2> HIDE DEF v
  <2> QED BY <1>2, <1>12, <1>13
<1>16. h \in Gofs
  BY <1>2, <1>13, <1>14, <1>15, GofOf
<1>17. h.ts = g.ts /\ h.units = e
  BY <1>14
<1>18. v.ts = u.ts /\ v.nalus = q
  BY <1>11
<1> HIDE DEF v, q, ts, m
<1>19. \A x \in DOMAIN e : e[x].nalus = <<>> => x = VPS
  BY <1>1, <1>8, <1>13, <1>18
<1>20. ASSUME Padded(g) PROVE Padded(h)
  <2>1. PICK x \in DOMAIN g.units : g.units[x].nalus = <<>>
    BY <1>20 DEF Padded
  <2>2. x # t
    BY <1>3, <2>1
  <2> QED BY <1>13, <1>17, <2>1, <2>2 DEF Padded
<1>21. ASSUME Exact(g) PROVE Exact(h)
  <2>1. g.ts = n.ts
    BY <1>4, <1>21, Clock DEF Exact, TsOf, IsSet
  <2>2. UnitAt(v, t, g.ts)
    <3>1. UnitAt(u, t, g.ts)
      BY <1>21 DEF Exact
    <3> HIDE DEF u
    <3> QED BY <1>8, <1>18, <2>1, <3>1 DEF UnitAt
  <2> QED BY <1>13, <1>17, <1>21, <2>2 DEF Exact
<1>22. h \in GoodGofs
  BY <1>1, <1>13, <1>16, <1>17, <1>19, <1>20, <1>21 DEF GoodGofs
<1>23. Gains(g, h, t, {n.id}) /\ n.id \in UnitIds(h, t)
       /\ \A x \in Types : UnitIds(g, x) \subseteq UnitIds(h, x)
  <2>1. Ids(q) = Ids(u.nalus) \cup {n.id}
    <3> HIDE DEF u
    <3> QED BY <1>8 DEF Ids
  <2> QED BY <1>13, <1>17, <1>18, <2>1 DEF Gains, UnitIds
<1>24. \A x \in DOMAIN g.units : h.units[x].ts = g.units[x].ts
  BY <1>13, <1>17, <1>18
<1>25. /\ h.units[t].nalus = Append(u.nalus, n)
       /\ \A x \in DOMAIN g.units : x # t => h.units[x] = g.units[x]
  <2> HIDE DEF u
  <2> QED BY <1>5, <1>13, <1>17, <1>18 DEF q
<1> QED BY <1>13, <1>17, <1>20, <1>22, <1>23, <1>24, <1>25 DEF h, u

(* Streams of such GoFs.  What an operation makes of one: it may add a GoF  *)
(* but moves no instant, and puts the NALUs M[x] of type x into one GoF.    *)
Streams == Seq(GoodGofs)
Extends(s, r) ==
  Len(r) \in {Len(s), Len(s) + 1} /\ \A k \in 1..Len(s) : r[k].ts = s[k].ts
IdsAt(s, j, x) == IF j \in 1..Len(s) THEN UnitIds(s[j], x) ELSE {}
Files(s, r, M) ==
  \E k \in Nat : \A j \in 1..Len(r), x \in Types :
    UnitIds(r[j], x) \subseteq IdsAt(s, j, x) \cup (IF j = k THEN M[x] ELSE {})
Only(t, M) == [x \in Types |-> IF x = t THEN M ELSE {}]
OfGof(g) == [x \in Types |-> UnitIds(g, x)]

(* A stream that is left as it is.                                          *)
LEMMA Untouched ==
  ASSUME NEW s \in Streams, NEW M PROVE Extends(s, s) /\ Files(s, s, M)
<1>1. Len(s) \in Nat
  BY DEF Streams
<1>2. \A j \in 1..Len(s), x \in Types :
        UnitIds(s[j], x) \subseteq IdsAt(s, j, x) \cup (IF j = 0 THEN M[x] ELSE {})
  BY DEF IdsAt
<1> QED BY <1>1, <1>2 DEF Extends, Files

(* A stream one GoF of which is replaced.                                   *)
LEMMA Replaced ==
  ASSUME NEW s \in Streams, NEW k \in 1..Len(s), NEW h \in GoodGofs, h.ts = s[k].ts,
         NEW t, NEW M, Gains(s[k], h, t, M)
  PROVE  LET r == [s EXCEPT ![k] = h]
         IN r \in Streams /\ Len(r) = Len(s) /\ Extends(s, r) /\ Files(s, r, Only(t, M))
<1> DEFINE r == [s EXCEPT ![k] = h]
<1>1. /\ r \in Streams /\ Len(r) = Len(s) /\ Len(s) \in Nat /\ k \in Nat
      /\ \A j \in 1..Len(s) : r[j] = IF j = k THEN h ELSE s[j]
  BY DEF Streams
<1> HIDE DEF r
<1>2. Extends(s, r)
  BY <1>1 DEF Extends
<1>3. Files(s, r, Only(t, M))
  <2>1. ASSUME NEW j \in 1..Len(r), NEW x \in Types
        PROVE  UnitIds(r[j], x) \subseteq IdsAt(s, j, x) \cup (IF j = k THEN Only(t, M)[x] ELSE {})
    <3>1. j \in 1..Len(s) /\ IdsAt(s, j, x) = UnitIds(s[j], x)
          /\ Only(t, M)[x] = IF x = t THEN M ELSE {}
      BY <1>1 DEF IdsAt, Only
    <3>2. CASE j = k
      <4>1. r[j] = h
        BY <1>1, <3>1, <3>2
      <4>2. UnitIds(h, x) \subseteq UnitIds(s[k], x) \cup (IF x = t THEN M ELSE {})
        BY DEF Gains
      <4> QED BY <3>1, <3>2, <4>1, <4>2
    <3>3. CASE j # k
      BY <1>1, <3>1, <3>3
    <3> QED BY <3>2, <3>3
  <2> QED BY <1>1, <2>1 DEF Files
<1> QED BY <1>1, <1>2, <1>3 DEF r

(* The NALUs of a type in a stream, and those of different GoFs apart.      *)
FiledIn(s, x) == UNION {UnitIds(s[k], x) : k \in 1..Len(s)}
ApartIn(s, x) ==
  \A i, j \in 1..Len(s) : i # j => UnitIds(s[i], x) \cap UnitIds(s[j], x) = {}

(* No NALU leaves the stream; its GoFs and units keep their instants.       *)
KeepsFiled(s, r) == \A x \in Types : FiledIn(s, x) \subseteq FiledIn(r, x)
SameShape(s, r) ==
  /\ Len(r) = Len(s)
  /\ \A k \in 1..Len(s) :
       /\ r[k].ts = s[k].ts /\ DOMAIN r[k].units = DOMAIN s[k].units
       /\ \A x \in DOMAIN s[k].units : r[k].units[x].ts = s[k].units[x].ts

(* Replacing a GoF by one that has its NALUs keeps them all.                *)
LEMMA ReplacedKeeps ==
  ASSUME NEW s \in Streams, NEW k \in 1..Len(s), NEW h \in GoodGofs, h.ts = s[k].ts,
         \A x \in Types : UnitIds(s[k], x) \subseteq UnitIds(h, x)
  PROVE  LET r == [s EXCEPT ![k] = h]
         IN /\ KeepsFiled(s, r) /\ Len(r) = Len(s) /\ r[k] = h
            /\ \A j \in 1..Len(s) : j # k => r[j] = s[j]
            /\ \A x \in Types : UnitIds(h, x) \subseteq FiledIn(r, x)
            /\ /\ DOMAIN h.units = DOMAIN s[k].units
               /\ \A x \in DOMAIN s[k].units : h.units[x].ts = s[k].units[x].ts
               => SameShape(s, r)
<1> DEFINE r == [s EXCEPT ![k] = h]
<1>1. /\ Len(r) = Len(s) /\ k \in 1..Len(r) /\ r[k] = h
      /\ \A j \in 1..Len(s) : j # k => r[j] = s[j]
  BY DEF Streams
<1> HIDE DEF r
<1>2. KeepsFiled(s, r)
  <2> SUFFICES ASSUME NEW x \in Types, NEW j \in 1..Len(s)
               PROVE  UnitIds(s[j], x) \subseteq UnitIds(r[j], x)
    BY <1>1 DEF KeepsFiled, FiledIn
  <2> QED BY <1>1
<1>3. \A x \in Types : UnitIds(h, x) \subseteq FiledIn(r, x)
  BY <1>1 DEF FiledIn
<1>4. ASSUME DOMAIN h.units = DOMAIN s[k].units,
             \A x \in DOMAIN s[k].units : h.units[x].ts = s[k].units[x].ts
      PROVE  SameShape(s, r)
  BY <1>1, <1>4 DEF SameShape
<1> QED BY <1>1, <1>2, <1>3, <1>4 DEF r

(* push_back of a GoF.                                                      *)
LEMMA PushGofGood ==
  ASSUME NEW s \in Streams, NEW g \in GoodGofs
  PROVE  LET r == PushGof(s, g).stream
         IN /\ r \in Streams /\ Len(r) = Len(s) + 1 /\ Extends(s, r) /\ Files(s, r, OfGof(g))
            /\ \A j \in 1..Len(s) : r[j] = s[j]
            /\ \A x \in Types : UnitIds(r[Len(s) + 1], x) = UnitIds(g, x)
            /\ DOMAIN r[Len(s) + 1].units = DOMAIN g.units
            /\ IsSet(g.ts) => r[Len(s) + 1].ts = g.ts /\ r[Len(s) + 1].units = g.units
<1> DEFINE backSet == s # <<>> /\ IsSet(s[Len(s)].ts)
           next == NextInstant(BackTs(s))
           p == IF backSet /\ ~ IsSet(g.ts) THEN StampGof(g, next) ELSE g
           c == [t \in DOMAIN g.units |-> UnitSize(g.units[t])]
           h == [p EXCEPT !.sizes = c]
           r == PushGof(s, g).stream
<1>1. r = Append(s, h)
  BY DEF PushGof
<1>2. Len(s) \in Nat /\ (s # <<>> => s[Len(s)] \in GoodGofs)
  BY DEF Streams
<1>3. g \in Gofs /\ DOMAIN g.units \subseteq Types /\ \A t \in DOMAIN g.units : g.units[t] \in Units
  BY GofFields DEF GoodGofs
<1>4. c \in SizeMaps
  <2>1. \A t \in DOMAIN g.units : UnitSize(g.units[t]) \in Nat
    BY <1>3 DEF UnitSize, Units
  <2> DEFINE D == DOMAIN g.units
  <2>2. c \in [D -> Nat] /\ D \in SUBSET Types
    BY <1>3, <2>1
  <2> HIDE DEF c, D
  <2> QED BY <2>2 DEF SizeMaps
<1> HIDE DEF c
<1>5. /\ p \in GoodGofs /\ DOMAIN p.units = DOMAIN g.units
      /\ \A x \in Types : UnitIds(p, x) = UnitIds(g, x)
  <2>1. CASE backSet /\ ~ IsSet(g.ts)
    <3>1. s[Len(s)].ts \in Stamps
      BY <1>2, <2>1 DEF GoodGofs, Gofs
    <3>2. BackTs(s) \in Nat
      BY <3>1, Clock DEF BackTs, TsOf, IsSet
    <3>3. next \in Stamps
      BY <3>2, NextStamp, Clock
    <3> HIDE DEF next
    <3>4. /\ StampGof(g, next) \in GoodGofs /\ DOMAIN StampGof(g, next).units = DOMAIN g.units
          /\ \A x \in Types : UnitIds(StampGof(g, next), x) = UnitIds(g, x)
      BY <2>1, <3>3, StampGood
    <3>5. p = StampGof(g, next)
      BY <2>1
    <3> HIDE DEF p
    <3> QED BY <3>4, <3>5
  <2>2. CASE ~ (backSet /\ ~ IsSet(g.ts))
    BY <2>2
  <2> QED BY <2>1, <2>2
<1>6. IsSet(g.ts) => p = g
  OBVIOUS
<1> HIDE DEF p
<1>7. h \in GoodGofs /\ h.units = p.units /\ h.ts = p.ts
  BY <1>4, <1>5, SizesGood
<1> HIDE DEF h
<1>8. \A x \in Types : UnitIds(h, x) = UnitIds(g, x) /\ UnitIds(h, x) = OfGof(g)[x]
  BY <1>5, <1>7 DEF UnitIds, OfGof
<1>9. /\ r \in Streams /\ Len(r) = Len(s) + 1 /\ r[Len(s) + 1] = h
      /\ \A j \in 1..Len(s) : r[j] = s[j]
  BY <1>1, <1>7 DEF Streams
<1> HIDE DEF r
<1>10. Extends(s, r)
  BY <1>2, <1>9 DEF Extends
<1>11. Files(s, r, OfGof(g))
  <2> DEFINE k == Len(s) + 1
  <2>1. \A j \in 1..Len(r) : j = k \/ j \in 1..Len(s)
    BY <1>2, <1>9
  <2>2. ASSUME NEW j \in 1..Len(r), NEW x \in Types
        PROVE  UnitIds(r[j], x) \subseteq IdsAt(s, j, x) \cup (IF j = k THEN OfGof(g)[x] ELSE {})
    <3>1. CASE j = k
      BY <1>8, <1>9, <3>1
    <3>2. CASE j \in 1..Len(s)
      BY <1>9, <3>2 DEF IdsAt
    <3> QED BY <2>1, <3>1, <3>2
  <2>3. k \in Nat
    BY <1>2
  <2> HIDE DEF k
  <2> QED BY <2>2, <2>3 DEF Files
<1> QED BY <1>5, <1>7, <1>8, <1>9, <1>10, <1>11, <1>6 DEF r

(* The GoF a unit is sent to has one of its type already.                   *)
Occupied(s, t, u) ==
  \E j \in 1..Len(s) : t \in DOMAIN s[j].units /\ IsSet(u.ts) /\ TsOf(s[j].ts) = u.ts

(* A unit of the type that was not there is of the instant of its GoF.      *)
FitsAt(s, r, t, j) ==
  \/ j \in 1..Len(s) /\ t \in DOMAIN s[j].units
  \/ r[j].units[t].ts = TsOf(r[j].ts)

(* push_back of a unit.                                                     *)
LEMMA PushUnitGood ==
  ASSUME NEW s \in Streams, NEW t \in Types, NEW u \in Received(t)
  PROVE  LET r == PushUnit(s, t, u).stream
         IN /\ r \in Streams /\ Extends(s, r) /\ Files(s, r, Only(t, Ids(u.nalus)))
            /\ KeepsFiled(s, r) /\ (Ids(u.nalus) \subseteq FiledIn(r, t) \/ Occupied(s, t, u))
            /\ u.nalus # <<>> =>
                 \A j \in 1..Len(r) : t \in DOMAIN r[j].units => FitsAt(s, r, t, j)
<1> DEFINE k == IF IsSet(u.ts) THEN FindTimestamp(s, u.ts) ELSE FindFreeGof(s, t)
           r == PushUnit(s, t, u).stream  M == Ids(u.nalus)
<1>1. Len(s) \in Nat /\ k \in 1..(Len(s) + 1)
  <2>1. Len(s) \in Nat
    BY DEF Streams
  <2>2. FindTimestamp(s, u.ts) \in 1..(Len(s) + 1)
    BY <2>1, FoundGof
  <2>3. FindFreeGof(s, t) \in 1..(Len(s) + 1)
    BY <2>1, FreeGof
  <2> QED BY <2>1, <2>2, <2>3
<1>2. /\ u.nalus # <<>> => u.ts \in Times /\ IsSet(u.ts)
      /\ u.nalus = <<>> => Ids(u.nalus) = {} /\ ~ IsSet(u.ts)
  BY ReceivedIsUnit, Clock DEF Received, IsSet, Ids
<1>3. CASE k > Len(s)
  <2> DEFINE g == GofSet(EmptyGof, t, u)
  <2>1. r = PushGof(s, g).stream
    BY <1>3 DEF PushUnit
  <2>2. GofAccepts(EmptyGof, u)
    BY DEF GofAccepts, EmptyGof, IsSet
  <2>3. /\ g \in GoodGofs /\ Gains(EmptyGof, g, t, M) /\ g.ts = u.ts
        /\ DOMAIN g.units = {t} /\ Ids(g.units[t].nalus) = M
        /\ u.nalus # <<>> => g.units[t] = u
    <3>1. DOMAIN EmptyGof.units = {}
      BY DEF EmptyGof
    <3> QED BY <2>2, <3>1, SetGood, SetUnit
  <2> HIDE DEF g, r
  <2>4. /\ r \in Streams /\ Extends(s, r) /\ Files(s, r, OfGof(g)) /\ Len(r) = Len(s) + 1
        /\ \A j \in 1..Len(s) : r[j] = s[j]
        /\ \A x \in Types : UnitIds(r[Len(s) + 1], x) = UnitIds(g, x)
        /\ IsSet(g.ts) => r[Len(s) + 1].ts = g.ts /\ r[Len(s) + 1].units = g.units
    BY <2>1, <2>3, PushGofGood
  <2>5. \A x \in Types : OfGof(g)[x] \subseteq Only(t, M)[x]
    <3>1. \A x \in Types : UnitIds(EmptyGof, x) = {}
      BY DEF UnitIds, EmptyGof
    <3> QED BY <2>3, <3>1 DEF Gains, OfGof, Only
  <2>6. Files(s, r, Only(t, M))
    <3>1. PICK i \in Nat : \A j \in 1..Len(r), x \in Types :
            UnitIds(r[j], x) \subseteq IdsAt(s, j, x) \cup (IF j = i THEN OfGof(g)[x] ELSE {})
      BY <2>4 DEF Files
    <3>2. \A j \in 1..Len(r), x \in Types :
            UnitIds(r[j], x) \subseteq IdsAt(s, j, x) \cup (IF j = i THEN Only(t, M)[x] ELSE {})
      BY <2>5, <3>1
    <3> QED BY <3>2 DEF Files
  <2>7. KeepsFiled(s, r) /\ M \subseteq FiledIn(r, t)
    <3>1. Len(s) + 1 \in 1..Len(r) /\ \A j \in 1..Len(s) : j \in 1..Len(r)
      BY <1>1, <2>4
    <3>2. \A j \in 1..Len(r), x \in Types : UnitIds(r[j], x) \subseteq FiledIn(r, x)
      BY DEF FiledIn
    <3>3. M \subseteq UnitIds(r[Len(s) + 1], t)
      BY <2>3, <2>4 DEF UnitIds
    <3>4. M \subseteq FiledIn(r, t)
      BY <3>1, <3>2, <3>3
    <3>5. ASSUME NEW x \in Types, NEW j \in 1..Len(s)
          PROVE  UnitIds(s[j], x) \subseteq FiledIn(r, x)
      BY <2>4, <3>1, <3>2
    <3>6. KeepsFiled(s, r)
      BY <3>5 DEF KeepsFiled, FiledIn
    <3> QED BY <3>4, <3>6
  <2>8. ASSUME u.nalus # <<>>, NEW j \in 1..Len(r), t \in DOMAIN r[j].units
        PROVE  FitsAt(s, r, t, j)
    <3>1. CASE j \in 1..Len(s)
      BY <2>4, <2>8, <3>1 DEF FitsAt
    <3>2. CASE j \notin 1..Len(s)
      <4>1. j = Len(s) + 1
        BY <1>1, <2>4, <3>2
      <4>2. r[j].units[t] = u /\ r[j].ts = u.ts
        BY <1>2, <2>3, <2>4, <2>8, <4>1
      <4> QED BY <1>2, <2>8, <4>2 DEF FitsAt, TsOf
    <3> QED BY <3>1, <3>2
  <2> QED BY <2>4, <2>6, <2>7, <2>8 DEF r
<1>4. CASE k <= Len(s)
  <2> DEFINE c == Assign(s[k].sizes, t, UnitSize(u))  g == [s[k] EXCEPT !.sizes = c]
             h == IF GofAccepts(g, u) THEN GofSet(g, t, u) ELSE g
  <2>1. k \in 1..Len(s) /\ ~ (k > Len(s)) /\ s[k] \in GoodGofs
    BY <1>1, <1>4 DEF Streams
  <2>2. IsSet(u.ts) => TsOf(s[k].ts) = u.ts
    BY <1>1, <1>4, FoundGof
  <2>3. r = [s EXCEPT ![k] = h]
    BY <2>1 DEF PushUnit
  <2> HIDE DEF k
  <2>4. c \in SizeMaps
    <3>1. UnitSize(u) \in Nat
      BY ReceivedIsUnit DEF UnitSize
    <3>2. s[k].sizes \in SizeMaps
      BY <2>1, GofFields DEF GoodGofs
    <3> DEFINE f == s[k].sizes
    <3>3. PICK D \in SUBSET Types : f \in [D -> Nat]
      BY <3>2 DEF SizeMaps
    <3> DEFINE E == D \cup {t}
    <3> HIDE DEF f
    <3>4. c \in [E -> Nat] /\ E \in SUBSET Types
      BY <3>1, <3>3 DEF Assign, f
    <3> HIDE DEF c, E
    <3> QED BY <3>4 DEF SizeMaps
  <2> HIDE DEF c
  <2>5. g \in GoodGofs /\ g.ts = s[k].ts /\ g.units = s[k].units
    BY <2>1, <2>4, SizesGood
  <2> HIDE DEF g
  <2>6. g # EmptyGof
    BY <2>5 DEF GoodGofs, EmptyGof
  <2>7. GofAccepts(g, u)
    BY <2>5, <2>2 DEF GofAccepts, TsOf
  <2>8. /\ h \in GoodGofs /\ h.ts = g.ts /\ Gains(g, h, t, M)
        /\ DOMAIN h.units = DOMAIN g.units \cup {t}
        /\ \A x \in DOMAIN g.units : h.units[x] = g.units[x]
        /\ t \notin DOMAIN g.units =>
             Ids(h.units[t].nalus) = M /\ (u.nalus # <<>> => h.units[t] = u)
    BY <2>5, <2>6, <2>7, SetGood
  <2>9. Gains(s[k], h, t, M)
    BY <2>5, <2>8 DEF Gains, UnitIds
  <2>10. \A x \in Types : UnitIds(s[k], x) \subseteq UnitIds(h, x)
    BY <2>5, <2>8 DEF UnitIds
  <2> HIDE DEF h, r, M
  <2> DEFINE e == [s EXCEPT ![k] = h]
  <2>11. h \in GoodGofs /\ h.ts = s[k].ts
    BY <2>5, <2>8
  <2>12. LET d == [s EXCEPT ![k] = h]
         IN /\ KeepsFiled(s, d) /\ Len(d) = Len(s) /\ d[k] = h
            /\ \A j \in 1..Len(s) : j # k => d[j] = s[j]
            /\ \A x \in Types : UnitIds(h, x) \subseteq FiledIn(d, x)
            /\ /\ DOMAIN h.units = DOMAIN s[k].units
               /\ \A x \in DOMAIN s[k].units : h.units[x].ts = s[k].units[x].ts
               => SameShape(s, d)
    BY <2>1, <2>10, <2>11, ReplacedKeeps
  <2> HIDE DEF e
  <2>13. /\ KeepsFiled(s, e) /\ Len(e) = Len(s) /\ e[k] = h
         /\ \A j \in 1..Len(s) : j # k => e[j] = s[j]
         /\ \A x \in Types : UnitIds(h, x) \subseteq FiledIn(e, x)
    BY <2>12 DEF e
  <2> USE DEF e
  <2>14. e \in Streams /\ Extends(s, e) /\ Files(s, e, Only(t, M))
    BY <2>1, <2>9, <2>11, Replaced
  <2>15. r = e
    BY <2>3
  <2> HIDE DEF e
  <2>16. /\ KeepsFiled(s, r) /\ Len(r) = Len(s) /\ r[k] = h
         /\ \A j \in 1..Len(s) : j # k => r[j] = s[j]
         /\ \A x \in Types : UnitIds(h, x) \subseteq FiledIn(r, x)
    BY <2>13, <2>15
  <2>17. M \subseteq FiledIn(r, t) \/ Occupied(s, t, u)
    <3>1. CASE t \notin DOMAIN g.units
      BY <2>8, <2>16, <3>1 DEF UnitIds
    <3>2. CASE t \in DOMAIN g.units /\ u.nalus # <<>>
      BY <1>2, <2>1, <2>5, <2>2, <3>2 DEF Occupied
    <3>3. CASE u.nalus = <<>>
      BY <1>2, <3>3 DEF M
    <3> QED BY <3>1, <3>2, <3>3
  <2>18. ASSUME u.nalus # <<>>, NEW j \in 1..Len(r), t \in DOMAIN r[j].units
         PROVE  FitsAt(s, r, t, j)
    <3>1. CASE t \in DOMAIN s[j].units
      BY <2>16, <3>1 DEF FitsAt
    <3>2. CASE t \notin DOMAIN s[j].units
      <4>1. j = k
        BY <2>16, <2>18, <3>2
      <4>2. h.units[t] = u
        BY <2>5, <2>8, <2>18, <3>2, <4>1
      <4>3. u.ts = TsOf(s[k].ts)
        BY <1>2, <2>2, <2>18
      <4> QED BY <2>5, <2>8, <2>16, <4>1, <4>2, <4>3 DEF FitsAt
    <3> QED BY <3>1, <3>2
  <2> QED BY <2>16, <2>17, <2>18, <2>14, <2>15 DEF r, M
<1> QED BY <1>1, <1>3, <1>4

(* A NALU is lost with its GoF where the unit is of another instant.        *)
Clash(s, t, n) ==
  \E k \in 1..Len(s) :
    /\ t \in DOMAIN s[k].units /\ TsOf(s[k].ts) = n.ts /\ s[k].units[t].ts # n.ts
    /\ Padded(s[k])

(* push_back of a NALU; only the VPS has no late ones.                      *)
LEMMA PushNaluGood ==
  ASSUME NEW s \in Streams, NEW t \in Types, t # VPS, NEW n \in FramesOf(t)
  PROVE  LET p == PushNalu(s, t, n)
         IN /\ p.stream \in Streams /\ Len(p.stream) = Len(s) /\ Extends(s, p.stream)
            /\ p.outcome \in {"refused", "thrown", "mixed", "pushed"}
            /\ p.outcome = "pushed" => Files(s, p.stream, Only(t, {n.id}))
            /\ p.outcome # "pushed" => p.stream = s
            /\ SameShape(s, p.stream) /\ KeepsFiled(s, p.stream)
            /\ p.outcome = "pushed" => n.id \in FiledIn(p.stream, t)
            /\ p.outcome = "mixed" => Clash(s, t, n)
<1> DEFINE p == PushNalu(s, t, n)  k == FindTimestamp(s, n.ts)
<1>1. Len(s) \in Nat /\ k \in 1..(Len(s) + 1) /\ (k <= Len(s) => TsOf(s[k].ts) = n.ts)
  <2>1. Len(s) \in Nat
    BY DEF Streams
  <2> QED BY <2>1, FoundGof
<1>2. SameShape(s, s) /\ KeepsFiled(s, s)
  BY DEF SameShape, KeepsFiled
<1>3. CASE s = <<>> \/ ~ IsSet(n.ts) \/ k > Len(s)
  <2>1. p.stream = s /\ p.outcome = "refused"
    BY <1>3 DEF PushNalu
  <2> HIDE DEF p
  <2> QED BY <1>2, <2>1, Untouched DEF p
<1>4. CASE ~ (s = <<>> \/ ~ IsSet(n.ts) \/ k > Len(s))
  <2>1. k \in 1..Len(s) /\ s[k] \in GoodGofs /\ TsOf(s[k].ts) = n.ts
    BY <1>1, <1>4 DEF Streams
  <2>2. CASE t \notin DOMAIN s[k].units
    <3>1. p.stream = s /\ p.outcome = "thrown"
      BY <1>4, <2>2 DEF PushNalu
    <3> HIDE DEF p
    <3> QED BY <1>2, <3>1, Untouched DEF p
  <2>3. CASE t \in DOMAIN s[k].units /\ ~ UnitAccepts(s[k].units[t], n)
    <3>1. p.stream = s /\ p.outcome = "mixed"
      BY <1>4, <2>3 DEF PushNalu
    <3>2. s[k].units[t].ts # n.ts
      BY <2>3 DEF UnitAccepts
    <3>3. Padded(s[k])
      <4>1. ~ Exact(s[k])
        BY <2>1, <2>3, <3>2, <1>4, Clock DEF Exact, UnitAt, TsOf, IsSet
      <4> QED BY <2>1, <4>1 DEF GoodGofs
    <3>4. Clash(s, t, n)
      BY <2>1, <2>3, <3>2, <3>3 DEF Clash
    <3> HIDE DEF p
    <3> QED BY <1>2, <3>1, <3>4, Untouched DEF p
  <2>4. CASE t \in DOMAIN s[k].units /\ UnitAccepts(s[k].units[t], n)
    <3> DEFINE h == [s[k] EXCEPT !.units[t] = UnitPush(@, n)]  r == [s EXCEPT ![k] = h]
    <3>1. p.stream = [s EXCEPT ![k].units[t] = UnitPush(@, n)] /\ p.outcome = "pushed"
      BY <1>4, <2>4 DEF PushNalu
    <3> HIDE DEF k
    <3>2. [s EXCEPT ![k].units[t] = UnitPush(@, n)] = r
      OBVIOUS
    <3>3. /\ h \in GoodGofs /\ h.ts = s[k].ts /\ Gains(s[k], h, t, {n.id})
          /\ DOMAIN h.units = DOMAIN s[k].units
          /\ \A x \in DOMAIN s[k].units : h.units[x].ts = s[k].units[x].ts
          /\ \A x \in Types : UnitIds(s[k], x) \subseteq UnitIds(h, x)
          /\ n.id \in UnitIds(h, t)
      <4> DEFINE g == s[k]
      <4>1. g \in GoodGofs /\ t \in DOMAIN g.units /\ TsOf(g.ts) = n.ts
            /\ UnitAccepts(g.units[t], n)
        BY <2>1, <2>4
      <4>2. h = [g EXCEPT !.units[t] = UnitPush(@, n)]
        OBVIOUS
      <4> HIDE DEF g, h
      <4>3. LET e == [g EXCEPT !.units[t] = UnitPush(@, n)]
            IN /\ e \in GoodGofs /\ e.ts = g.ts /\ Gains(g, e, t, {n.id})
               /\ DOMAIN e.units = DOMAIN g.units
               /\ \A x \in DOMAIN g.units : e.units[x].ts = g.units[x].ts
               /\ \A x \in Types : UnitIds(g, x) \subseteq UnitIds(e, x)
               /\ n.id \in UnitIds(e, t)
               /\ e.units[t].nalus = Append(g.units[t].nalus, n)
               /\ \A x \in DOMAIN g.units : x # t => e.units[x] = g.units[x]
               /\ Padded(g) => Padded(e)
        BY <4>1, PushedGood
      <4>4. /\ h \in GoodGofs /\ h.ts = g.ts /\ Gains(g, h, t, {n.id})
            /\ DOMAIN h.units = DOMAIN g.units
            /\ \A x \in DOMAIN g.units : h.units[x].ts = g.units[x].ts
            /\ \A x \in Types : UnitIds(g, x) \subseteq UnitIds(h, x)
            /\ n.id \in UnitIds(h, t)
        BY <4>2, <4>3
      <4> QED BY <4>4 DEF g
    <3> HIDE DEF h
    <3>4. r \in Streams /\ Len(r) = Len(s) /\ Extends(s, r) /\ Files(s, r, Only(t, {n.id}))
      BY <2>1, <3>3, Replaced
    <3>5. SameShape(s, r) /\ KeepsFiled(s, r) /\ n.id \in FiledIn(r, t)
      BY <2>1, <3>3, ReplacedKeeps
    <3> HIDE DEF p, r
    <3> QED BY <3>1, <3>2, <3>4, <3>5 DEF p
  <2> QED BY <2>2, <2>3, <2>4
<1> QED BY <1>3, <1>4

(* NALUs new to a stream are filed apart from the others.                   *)
LEMMA FilesApart ==
  ASSUME NEW s, NEW r, NEW M, NEW x \in Types, Files(s, r, M),
         ApartIn(s, x), M[x] \cap FiledIn(s, x) = {}
  PROVE  ApartIn(r, x) /\ FiledIn(r, x) \subseteq FiledIn(s, x) \cup M[x]
<1>1. PICK k \in Nat : \A j \in 1..Len(r), y \in Types :
        UnitIds(r[j], y) \subseteq IdsAt(s, j, y) \cup (IF j = k THEN M[y] ELSE {})
  BY DEF Files
<1>2. \A j \in 1..Len(r) :
        UnitIds(r[j], x) \subseteq IdsAt(s, j, x) \cup (IF j = k THEN M[x] ELSE {})
  BY <1>1
<1>3. \A j : IdsAt(s, j, x) \subseteq FiledIn(s, x)
  BY DEF IdsAt, FiledIn
<1>4. \A i, j : i # j => IdsAt(s, i, x) \cap IdsAt(s, j, x) = {}
  BY DEF IdsAt, ApartIn
<1>5. FiledIn(r, x) \subseteq FiledIn(s, x) \cup M[x]
  <2> SUFFICES ASSUME NEW j \in 1..Len(r) PROVE UnitIds(r[j], x) \subseteq FiledIn(s, x) \cup M[x]
    BY DEF FiledIn
  <2> QED BY <1>2, <1>3
<1>6. ApartIn(r, x)
  <2> SUFFICES ASSUME NEW i \in 1..Len(r), NEW j \in 1..Len(r), i # j
               PROVE  UnitIds(r[i], x) \cap UnitIds(r[j], x) = {}
    BY DEF ApartIn
  <2> DEFINE I == IdsAt(s, i, x)  J == IdsAt(s, j, x)
  <2>1. I \cap J = {} /\ M[x] \cap I = {} /\ M[x] \cap J = {}
    BY <1>3, <1>4
  <2>2. /\ UnitIds(r[i], x) \subseteq I \cup (IF i = k THEN M[x] ELSE {})
        /\ UnitIds(r[j], x) \subseteq J \cup (IF j = k THEN M[x] ELSE {})
    BY <1>2
  <2> HIDE DEF I, J
  <2>3. i # k \/ j # k
    OBVIOUS
  <2> QED BY <2>1, <2>2, <2>3
<1> QED BY <1>5, <1>6

(* A recursive function over the rounds of a loop exists, with values in S. *)
Recurs(g, m, s, F) == g = [k \in 0..m |-> IF k = 0 THEN s ELSE F[k][g[k - 1]]]

LEMMA LoopIs ==
  ASSUME NEW m \in Nat, NEW S, NEW s \in S, NEW F \in [1..m -> [S -> S]]
  PROVE  \E g \in [0..m -> S] : Recurs(g, m, s, F)
<1>1. PICK g : Loop(g, m, S, s, F)
  BY LoopExists
<1>2. g \in [0..m -> S] /\ g[0] = s /\ \A k \in 1..m : g[k] = F[k][g[k - 1]]
  BY <1>1 DEF Loop
<1>3. \A k \in 0..m : k # 0 => k \in 1..m
  OBVIOUS
<1>4. \A k \in 0..m : g[k] = IF k = 0 THEN s ELSE F[k][g[k - 1]]
  BY <1>2, <1>3
<1>5. g = [k \in 0..m |-> IF k = 0 THEN s ELSE F[k][g[k - 1]]]
  BY <1>2, <1>4
<1> QED BY <1>2, <1>5 DEF Recurs

(* push_buffer_to_sample_stream: the locals of its loop over a buffer.      *)
Offers(t) ==
  [stream : Streams, outcome : {"filed", "thrown", "mixed"}, popped : Nat, kept : Seq(FramesOf(t))]

(* One NALU of the buffer is offered to the stream.                         *)
LEMMA OfferIs ==
  ASSUME NEW t \in Types, t # VPS, NEW n \in FramesOf(t), NEW a \in Offers(t)
  PROVE  LET p == PushNalu(a.stream, t, n)  b == Offer(a, t, n)
         IN /\ b \in Offers(t)
            /\ a.outcome # "filed" => b = a
            /\ a.outcome = "filed" =>
                 /\ b.stream = p.stream /\ b.popped = a.popped + 1
                 /\ b.kept = IF p.outcome = "refused" THEN Append(a.kept, n) ELSE a.kept
<1> DEFINE p == PushNalu(a.stream, t, n)  b == Offer(a, t, n)
<1>1. a.stream \in Streams /\ a.popped \in Nat /\ a.kept \in Seq(FramesOf(t))
  BY DEF Offers
<1>2. p.stream \in Streams /\ p.outcome \in {"refused", "thrown", "mixed", "pushed"}
  BY <1>1, PushNaluGood
<1> HIDE DEF p
<1>3. CASE a.outcome # "filed"
  <2>1. b = a
    BY <1>3 DEF Offer, Offered
  <2> QED BY <1>3, <2>1
<1>4. CASE a.outcome = "filed"
  <2> DEFINE q == IF p.outcome = "refused" THEN Append(a.kept, n) ELSE a.kept
  <2>1. b = [stream |-> p.stream, outcome |-> AfterNalu(p), popped |-> a.popped + 1, kept |-> q]
    BY <1>4 DEF Offer, Offered, p
  <2>2. q \in Seq(FramesOf(t)) /\ AfterNalu(p) \in {"filed", "thrown", "mixed"}
    BY <1>1, <1>2 DEF AfterNalu
  <2> HIDE DEF b, q
  <2>3. b \in Offers(t)
    BY <1>1, <1>2, <2>1, <2>2 DEF Offers
  <2>4. b.stream = p.stream /\ b.popped = a.popped + 1 /\ b.kept = q
    BY <2>1
  <2> QED BY <1>4, <2>3, <2>4 DEF b, q, p
<1> QED BY <1>3, <1>4

OfferLoop(f, s, t, q) ==
  /\ f \in [0..Len(q) -> Offers(t)] /\ f[0] = StartOffer(s)
  /\ \A k \in 1..Len(q) : f[k] = Offer(f[k - 1], t, q[k])
  /\ OfferAll(s, t, q) = f[Len(q)]

(* The loop over the buffer is such a recursive function.                   *)
LEMMA OfferLoops ==
  ASSUME NEW s \in Streams, NEW t \in Types, NEW q \in Seq(FramesOf(t)), t # VPS \/ q = <<>>
  PROVE  \E f : OfferLoop(f, s, t, q)
<1> DEFINE m == Len(q)  S == Offers(t)  Step(k, a) == Offer(a, t, q[k])
           z == StartOffer(s)  F == [k \in 1..m |-> [a \in S |-> Step(k, a)]]
           f == CHOOSE g : g = [k \in 0..m |-> IF k = 0 THEN z ELSE Step(k, g[k - 1])]
<1>1. m \in Nat /\ \A k \in 1..m : q[k] \in FramesOf(t) /\ t # VPS
  OBVIOUS
<1>2. \A k \in 1..m, a \in S : Step(k, a) \in S
  BY <1>1, OfferIs
<1>3. z \in S
  BY DEF StartOffer, Offers
<1>4. OfferAll(s, t, q) = f[m]
  BY DEF OfferAll
<1> HIDE DEF S, Step
<1>5. F \in [1..m -> [S -> S]] /\ \A k \in 1..m, a \in S : F[k][a] = Step(k, a)
  BY <1>2
<1> HIDE DEF F, m, z
<1>6. PICK g \in [0..m -> S] : Recurs(g, m, z, F)
  BY <1>1, <1>3, <1>5, LoopIs
<1>7. ASSUME NEW k \in 0..m, k # 0 PROVE F[k][g[k - 1]] = Step(k, g[k - 1])
  <2>1. k \in 1..m /\ k - 1 \in 0..m
    BY <1>1, <1>7
  <2> QED BY <1>5, <1>6, <2>1
<1>8. g = [k \in 0..m |-> IF k = 0 THEN z ELSE Step(k, g[k - 1])]
  BY <1>6, <1>7 DEF Recurs
<1>9. f = [k \in 0..m |-> IF k = 0 THEN z ELSE Step(k, f[k - 1])]
  BY <1>8
<1> HIDE DEF f
<1>10. f[0] = z /\ \A k \in 1..m : f[k] = Step(k, f[k - 1])
  BY <1>1, <1>9
<1>11. \A k \in 0..m : f[k] \in S
  <2>1. f[0] \in S /\ \A k \in 1..m : f[k - 1] \in S => f[k] \in S
    BY <1>2, <1>3, <1>10
  <2> QED BY <1>1, <2>1, Stays
<1>12. f \in [0..m -> S]
  BY <1>9, <1>11
<1> QED BY <1>4, <1>10, <1>12 DEF OfferLoop, m, S, Step, z

(* A round keeps the length and the instants of the stream; as long as the  *)
(* NALUs are different and not yet filed, a NALU is filed or kept, once.    *)
Popped(q, a) == {q[i].id : i \in 1..a.popped}
NoneTwice(q) == \A i, j \in DOMAIN q : q[i].id = q[j].id => i = j
NewTo(s, t, q) == NoneTwice(q) /\ ApartIn(s, t) /\ FiledIn(s, t) \cap Ids(q) = {}
OfferOnce(a, s, t, q) ==
  /\ ApartIn(a.stream, t) /\ FiledIn(a.stream, t) \subseteq FiledIn(s, t) \cup Popped(q, a)
  /\ NoneTwice(a.kept) /\ Ids(a.kept) \subseteq Popped(q, a)
  /\ Ids(a.kept) \cap FiledIn(a.stream, t) = {}
OfferState(a, k, s, t, q) ==
  /\ a \in Offers(t) /\ Len(a.stream) = Len(s) /\ Extends(s, a.stream)
  /\ a.popped <= k /\ (a.outcome = "filed" => a.popped = k) /\ (a.popped = 0 => a.kept = <<>>)
  /\ \A x \in Types : x # t /\ ApartIn(s, x) =>
       ApartIn(a.stream, x) /\ FiledIn(a.stream, x) \subseteq FiledIn(s, x)
  /\ NewTo(s, t, q) => OfferOnce(a, s, t, q)

LEMMA OfferRound ==
  ASSUME NEW t \in Types, t # VPS, NEW s \in Streams, NEW q \in Seq(FramesOf(t)),
         NEW k \in 1..Len(q), NEW a, OfferState(a, k - 1, s, t, q)
  PROVE  OfferState(Offer(a, t, q[k]), k, s, t, q)
<1> DEFINE n == q[k]  p == PushNalu(a.stream, t, n)  b == Offer(a, t, n)
<1>1. /\ a \in Offers(t) /\ Len(a.stream) = Len(s) /\ Extends(s, a.stream)
      /\ a.popped <= k - 1 /\ (a.outcome = "filed" => a.popped = k - 1)
      /\ (a.popped = 0 => a.kept = <<>>)
      /\ \A x \in Types : x # t /\ ApartIn(s, x) =>
           ApartIn(a.stream, x) /\ FiledIn(a.stream, x) \subseteq FiledIn(s, x)
      /\ NewTo(s, t, q) => OfferOnce(a, s, t, q)
  BY DEF OfferState
<1>2. /\ n \in FramesOf(t) /\ k \in DOMAIN q /\ Len(q) \in Nat /\ k \in Nat /\ DOMAIN q = 1..Len(q)
      /\ a.stream \in Streams /\ a.popped \in Nat /\ a.kept \in Seq(FramesOf(t))
      /\ Len(s) \in Nat
  BY <1>1 DEF Offers, Streams
<1> HIDE DEF n
<1>3. /\ b \in Offers(t) /\ (a.outcome # "filed" => b = a)
      /\ a.outcome = "filed" =>
           /\ b.stream = p.stream /\ b.popped = a.popped + 1
           /\ b.kept = IF p.outcome = "refused" THEN Append(a.kept, n) ELSE a.kept
  BY <1>1, <1>2, OfferIs
<1>4. /\ p.stream \in Streams /\ Len(p.stream) = Len(a.stream) /\ Extends(a.stream, p.stream)
      /\ p.outcome = "pushed" => Files(a.stream, p.stream, Only(t, {n.id}))
      /\ p.outcome # "pushed" => p.stream = a.stream
  BY <1>2, PushNaluGood
<1> HIDE DEF b, p
<1>5. CASE a.outcome # "filed"
  <2>1. b = a /\ a.popped <= k
    BY <1>1, <1>2, <1>3, <1>5
  <2> QED BY <1>1, <1>5, <2>1 DEF OfferState, b, n
<1>6. CASE a.outcome = "filed"
  <2>1. b.stream = p.stream /\ b.popped = k /\ a.popped = k - 1
        /\ b.kept = IF p.outcome = "refused" THEN Append(a.kept, n) ELSE a.kept
    BY <1>1, <1>2, <1>3, <1>6
  <2>2. Len(b.stream) = Len(s) /\ Extends(s, b.stream)
    BY <1>1, <1>2, <1>4, <2>1 DEF Extends
  <2>3. ASSUME NEW x \in Types, x # t, ApartIn(s, x)
        PROVE  ApartIn(b.stream, x) /\ FiledIn(b.stream, x) \subseteq FiledIn(s, x)
    <3>1. ApartIn(a.stream, x) /\ FiledIn(a.stream, x) \subseteq FiledIn(s, x)
      BY <1>1, <2>3
    <3>2. CASE p.outcome = "pushed"
      <4>1. Only(t, {n.id})[x] = {}
        BY <2>3 DEF Only
      <4> DEFINE M == Only(t, {n.id})
      <4>2. Files(a.stream, p.stream, M) /\ M[x] = {}
        BY <1>4, <3>2, <4>1
      <4> HIDE DEF M
      <4>3. ApartIn(p.stream, x) /\ FiledIn(p.stream, x) \subseteq FiledIn(a.stream, x) \cup M[x]
        BY <3>1, <4>2, FilesApart
      <4> QED BY <2>1, <3>1, <4>2, <4>3
    <3>3. CASE p.outcome # "pushed"
      BY <1>4, <2>1, <3>1, <3>3
    <3> QED BY <3>2, <3>3
  <2>4. ASSUME NewTo(s, t, q) PROVE OfferOnce(b, s, t, q)
    <3> DEFINE A == FiledIn(a.stream, t)  B == FiledIn(b.stream, t)  S == FiledIn(s, t)
               P == Popped(q, a)  K == Ids(a.kept)
    <3>1. ApartIn(a.stream, t) /\ A \subseteq S \cup P /\ NoneTwice(a.kept) /\ K \subseteq P
          /\ K \cap A = {}
      BY <1>1, <2>4 DEF OfferOnce
    <3>2. Popped(q, b) = P \cup {n.id}
      <4>1. 1..k = (1..(k - 1)) \cup {k}
        BY <1>2
      <4> QED BY <2>1, <4>1 DEF Popped, n
    <3>3. n.id \notin P /\ n.id \notin S
      <4>1. n.id \notin P
        <5>1. \A i \in 1..(k - 1) : i \in DOMAIN q /\ i # k
          BY <1>2
        <5>2. \A i \in 1..(k - 1) : q[i].id # q[k].id
          BY <1>2, <2>4, <5>1 DEF NewTo, NoneTwice
        <5> QED BY <2>1, <5>2 DEF Popped, n
      <4>2. n.id \in Ids(q)
        BY <1>2 DEF Ids, n
      <4> QED BY <2>4, <4>1, <4>2 DEF NewTo
    <3>4. CASE p.outcome = "pushed"
      <4> DEFINE M == Only(t, {n.id})
      <4>1. Files(a.stream, p.stream, M) /\ M[t] = {n.id}
        BY <1>4, <3>4 DEF Only
      <4>2. n.id \notin A
        BY <3>1, <3>3
      <4> HIDE DEF M
      <4>3. ApartIn(p.stream, t) /\ FiledIn(p.stream, t) \subseteq A \cup {n.id}
        BY <3>1, <4>1, <4>2, FilesApart
      <4>4. b.kept = a.kept
        BY <2>1, <3>4
      <4>5. ApartIn(b.stream, t) /\ B \subseteq A \cup {n.id}
        BY <2>1, <4>3
      <4> HIDE DEF A, B, S, P, K
      <4>6. B \subseteq S \cup (P \cup {n.id}) /\ K \subseteq P \cup {n.id} /\ K \cap B = {}
        BY <3>1, <3>3, <4>5
      <4> QED BY <3>1, <3>2, <4>4, <4>5, <4>6 DEF OfferOnce, B, S, K
    <3>5. CASE p.outcome # "pushed"
      <4>1. b.stream = a.stream
        BY <1>4, <2>1, <3>5
      <4>2. /\ Ids(b.kept) \subseteq K \cup {n.id} /\ NoneTwice(b.kept)
        <5>1. CASE p.outcome = "refused"
          <6> DEFINE w == a.kept  r == Append(w, n)
          <6>1. /\ DOMAIN r = DOMAIN w \cup {Len(w) + 1} /\ Len(w) + 1 \notin DOMAIN w
                /\ r[Len(w) + 1] = n /\ \A i \in DOMAIN w : r[i] = w[i]
            BY <1>2
          <6>2. b.kept = r
            BY <2>1, <5>1
          <6>3. n.id \notin K
            BY <3>1, <3>3
          <6> HIDE DEF w, r
          <6>4. Ids(r) \subseteq Ids(w) \cup {n.id}
            BY <6>1 DEF Ids
          <6>5. n.id \notin Ids(w) /\ NoneTwice(w)
            BY <3>1, <6>3 DEF w
          <6>6. NoneTwice(r)
            BY <6>1, <6>5 DEF NoneTwice, Ids
          <6> QED BY <6>2, <6>4, <6>6 DEF w
        <5>2. CASE p.outcome # "refused"
          BY <2>1, <3>1, <5>2
        <5> QED BY <5>1, <5>2
      <4>3. n.id \notin A
        BY <3>1, <3>3
      <4> HIDE DEF A, B, S, P, K
      <4>4. /\ Ids(b.kept) \subseteq P \cup {n.id} /\ Ids(b.kept) \cap A = {}
            /\ A \subseteq S \cup (P \cup {n.id})
        BY <3>1, <4>2, <4>3
      <4> QED BY <3>1, <3>2, <4>1, <4>2, <4>4 DEF OfferOnce, A, S
    <3> QED BY <3>4, <3>5
  <2> HIDE DEF n
  <2>5. b.popped <= k /\ b.popped = k /\ b.popped # 0
    BY <1>2, <2>1
  <2> QED BY <1>3, <2>2, <2>3, <2>4, <2>5 DEF OfferState, b, n
<1> QED BY <1>5, <1>6

(* The whole loop.                                                          *)
LEMMA OffersGood ==
  ASSUME NEW t \in Types, NEW s \in Streams, NEW q \in Seq(FramesOf(t)), t # VPS \/ q = <<>>
  PROVE  OfferState(OfferAll(s, t, q), Len(q), s, t, q)
<1>1. PICK f : OfferLoop(f, s, t, q)
  BY OfferLoops
<1>2. /\ f[0] = StartOffer(s) /\ \A k \in 1..Len(q) : f[k] = Offer(f[k - 1], t, q[k])
      /\ OfferAll(s, t, q) = f[Len(q)] /\ Len(q) \in Nat /\ Len(q) \in 0..Len(q)
      /\ f \in [0..Len(q) -> Offers(t)] /\ 0 \in 0..Len(q)
  BY <1>1 DEF OfferLoop
<1>3. OfferState(f[0], 0, s, t, q)
  <2>1. f[0].stream = s /\ f[0].outcome = "filed" /\ f[0].popped = 0 /\ f[0].kept = <<>>
    BY <1>2 DEF StartOffer
  <2>2. f[0] \in Offers(t)
    BY <1>2
  <2>3. Extends(s, s)
    BY Untouched
  <2>4. NewTo(s, t, q) => OfferOnce(f[0], s, t, q)
    BY <2>1 DEF NewTo, OfferOnce, NoneTwice, Ids
  <2> QED BY <2>1, <2>2, <2>3, <2>4 DEF OfferState
<1> DEFINE S == [k \in 0..Len(q) |-> {a \in Offers(t) : OfferState(a, k, s, t, q)}]
<1>4. \A k \in 0..Len(q) : \A a : a \in S[k] <=> OfferState(a, k, s, t, q)
  BY DEF OfferState
<1> HIDE DEF S
<1>5. f[0] \in S[0]
  BY <1>2, <1>3, <1>4
<1>6. ASSUME NEW k \in 1..Len(q), f[k - 1] \in S[k - 1] PROVE f[k] \in S[k]
  <2>1. k \in 0..Len(q) /\ k - 1 \in 0..Len(q)
    BY <1>2
  <2>2. OfferState(f[k - 1], k - 1, s, t, q)
    BY <1>4, <1>6, <2>1
  <2>3. OfferState(f[k], k, s, t, q)
    <3>1. t # VPS
      BY <1>2
    <3> QED BY <1>2, <2>2, <3>1, OfferRound
  <2> QED BY <1>4, <2>1, <2>3
<1>7. f[Len(q)] \in S[Len(q)]
  BY <1>2, <1>5, <1>6, Rounds
<1> QED BY <1>2, <1>4, <1>7

(* The queues of the types hold frames of theirs; the VPS has no buffer.    *)
Queues == {f \in [Types -> Seq(Nalus)] : \A t \in Types : f[t] \in Seq(FramesOf(t))}
Buffers == {f \in Queues : VPS \in Types => f[VPS] = <<>>}

(* One queue is replaced.                                                   *)
LEMMA QueueSet ==
  ASSUME NEW f \in Queues, NEW t \in Types, NEW q \in Seq(FramesOf(t))
  PROVE  /\ [f EXCEPT ![t] = q] \in Queues
         /\ \A x \in Types : [f EXCEPT ![t] = q][x] = IF x = t THEN q ELSE f[x]
<1>1. q \in Seq(Nalus)
  BY FrameIs, SeqMonotonic
<1> QED BY <1>1 DEF Queues

LEMMA BufferSet ==
  ASSUME NEW f \in Buffers, NEW t \in Types, NEW q \in Seq(FramesOf(t)), t = VPS => q = <<>>
  PROVE  /\ [f EXCEPT ![t] = q] \in Buffers
         /\ \A x \in Types : [f EXCEPT ![t] = q][x] = IF x = t THEN q ELSE f[x]
<1>1. f \in Queues /\ (VPS \in Types => f[VPS] = <<>>)
  BY DEF Buffers
<1>2. /\ [f EXCEPT ![t] = q] \in Queues
      /\ \A x \in Types : [f EXCEPT ![t] = q][x] = IF x = t THEN q ELSE f[x]
  BY <1>1, QueueSet
<1> QED BY <1>1, <1>2 DEF Buffers

(* Joined queues and cut ones.                                              *)
LEMMA Joined ==
  ASSUME NEW P, NEW x \in Seq(P), NEW y \in Seq(P)
  PROVE  /\ Ids(x \o y) = Ids(x) \cup Ids(y)
         /\ NoneTwice(x \o y) <=> NoneTwice(x) /\ NoneTwice(y) /\ Ids(x) \cap Ids(y) = {}
<1>1. \A q : Ids(q) = Passing!IdsIn(q) /\ (NoneTwice(q) <=> Passing!NoneTwiceIn(q))
  BY DEF Ids, NoneTwice, Passing!IdsIn, Passing!NoneTwiceIn
<1>2. /\ Passing!IdsIn(x \o y) = Passing!IdsIn(x) \cup Passing!IdsIn(y)
      /\ Passing!NoneTwiceIn(x \o y)
           <=> /\ Passing!NoneTwiceIn(x) /\ Passing!NoneTwiceIn(y)
               /\ Passing!IdsIn(x) \cap Passing!IdsIn(y) = {}
  BY Passing!JoinIds
<1> QED BY <1>1, <1>2

LEMMA Dropped ==
  ASSUME NEW P, NEW q \in Seq(P), NEW k \in Nat
  PROVE  /\ Drop(q, k) \in Seq(P) /\ Ids(Drop(q, k)) = {q[i].id : i \in (k + 1)..Len(q)}
         /\ NoneTwice(q) => NoneTwice(Drop(q, k))
<1>1. \A f : Ids(f) = Passing!IdsIn(f) /\ (NoneTwice(f) <=> Passing!NoneTwiceIn(f))
  BY DEF Ids, NoneTwice, Passing!IdsIn, Passing!NoneTwiceIn
<1>2. Drop(q, k) = Passing!Drop(q, k)
  BY DEF Drop, Passing!Drop
<1>3. /\ Passing!Drop(q, k) \in Seq(P)
      /\ Passing!IdsIn(Passing!Drop(q, k)) = {q[i].id : i \in (k + 1)..Len(q)}
      /\ Passing!NoneTwiceIn(q) => Passing!NoneTwiceIn(Passing!Drop(q, k))
  BY Passing!DropIds
<1> QED BY <1>1, <1>2, <1>3

(* NALUs move from the buffers to the stream; none is in two places.        *)
Moves(s, f, r, h) ==
  \A x \in Types : NewTo(s, x, f[x]) =>
    /\ NewTo(r, x, h[x])
    /\ FiledIn(r, x) \cup Ids(h[x]) \subseteq FiledIn(s, x) \cup Ids(f[x])

Pushes == [stream : Streams, buffer : Buffers, outcome : {"filed", "thrown", "mixed"}]
PushState(a, s, f) ==
  /\ a \in Pushes /\ Len(a.stream) = Len(s) /\ Extends(s, a.stream)
  /\ Moves(s, f, a.stream, a.buffer)

(* The buffer of one type is tried.                                         *)
LEMMA PushBufferGood ==
  ASSUME NEW t \in Types, NEW a \in Pushes
  PROVE  PushState(PushBuffer(a, t), a.stream, a.buffer)
<1> DEFINE s == a.stream  f == a.buffer  q == f[t]  o == OfferAll(s, t, q)
           d == Drop(q, o.popped)  w == d \o o.kept  h == [f EXCEPT ![t] = w]
           b == PushBuffer(a, t)
<1>1. s \in Streams /\ f \in Buffers /\ Len(s) \in Nat
  BY DEF Pushes, Streams
<1>2. q \in Seq(FramesOf(t)) /\ (t # VPS \/ q = <<>>)
  BY <1>1 DEF Buffers, Queues
<1>3. Extends(s, s)
  BY <1>1, Untouched
<1>4. CASE a.outcome # "filed"
  <2>1. b = a
    BY <1>4 DEF PushBuffer
  <2>2. Moves(s, f, s, f)
    BY DEF Moves
  <2> HIDE DEF b, s, f
  <2> QED BY <1>3, <2>1, <2>2 DEF PushState, b, s, f
<1>5. CASE a.outcome = "filed"
  <2> HIDE DEF q
  <2>1. OfferState(o, Len(q), s, t, q)
    BY <1>1, <1>2, OffersGood
  <2> HIDE DEF o
  <2>2. /\ o \in Offers(t) /\ Len(o.stream) = Len(s) /\ Extends(s, o.stream)
        /\ o.popped <= Len(q) /\ (o.popped = 0 => o.kept = <<>>)
        /\ \A x \in Types : x # t /\ ApartIn(s, x) =>
             ApartIn(o.stream, x) /\ FiledIn(o.stream, x) \subseteq FiledIn(s, x)
        /\ NewTo(s, t, q) => OfferOnce(o, s, t, q)
    BY <2>1 DEF OfferState
  <2>3. o.stream \in Streams /\ o.outcome \in {"filed", "thrown", "mixed"} /\ o.popped \in Nat
        /\ o.kept \in Seq(FramesOf(t))
    BY <2>2 DEF Offers
  <2>4. /\ d \in Seq(FramesOf(t)) /\ Ids(d) = {q[i].id : i \in (o.popped + 1)..Len(q)}
        /\ NoneTwice(q) => NoneTwice(d)
    BY <1>2, <2>3, Dropped
  <2>5. t = VPS => w = <<>>
    <3> SUFFICES ASSUME t = VPS PROVE w = <<>>
      OBVIOUS
    <3>1. q = <<>> /\ o.popped = 0 /\ o.kept = <<>>
      BY <1>2, <2>2, <2>3
    <3>2. d = <<>>
      BY <3>1, SubSeqEmpty DEF Drop
    <3> QED BY <3>1, <3>2
  <2> HIDE DEF d
  <2>6. w \in Seq(FramesOf(t)) /\ Ids(w) = Ids(d) \cup Ids(o.kept)
        /\ (NoneTwice(w) <=> NoneTwice(d) /\ NoneTwice(o.kept) /\ Ids(d) \cap Ids(o.kept) = {})
    BY <2>3, <2>4, Joined
  <2> HIDE DEF w
  <2>7. h \in Buffers /\ \A x \in Types : h[x] = IF x = t THEN w ELSE f[x]
    <3> HIDE DEF f
    <3> QED BY <1>1, <2>5, <2>6, BufferSet
  <2> HIDE DEF h
  <2>8. b.stream = o.stream /\ b.outcome = o.outcome /\ b.buffer = h
        /\ b = [stream |-> o.stream, outcome |-> o.outcome, buffer |-> h]
    BY <1>5 DEF PushBuffer, AfterOffer, h, w, d, o, q
  <2> HIDE DEF b
  <2>9. b \in Pushes
    BY <2>3, <2>7, <2>8 DEF Pushes
  <2>10. ASSUME NEW x \in Types, NewTo(s, x, f[x])
         PROVE  /\ NewTo(o.stream, x, h[x])
                /\ FiledIn(o.stream, x) \cup Ids(h[x]) \subseteq FiledIn(s, x) \cup Ids(f[x])
    <3>1. CASE x # t
      <4>1. h[x] = f[x] /\ ApartIn(o.stream, x) /\ FiledIn(o.stream, x) \subseteq FiledIn(s, x)
        BY <2>2, <2>7, <2>10, <3>1 DEF NewTo
      <4> HIDE DEF s, f
      <4> QED BY <2>10, <4>1 DEF NewTo
    <3>2. CASE x = t
      <4> DEFINE A == FiledIn(o.stream, t)  S == FiledIn(s, t)  P == Popped(q, o)
                 D == Ids(d)  K == Ids(o.kept)  Q == Ids(q)
      <4>1. NewTo(s, t, q) /\ h[t] = w
        BY <2>7, <2>10, <3>2 DEF q
      <4>2. /\ ApartIn(o.stream, t) /\ A \subseteq S \cup P /\ NoneTwice(o.kept) /\ K \subseteq P
            /\ K \cap A = {}
        BY <2>2, <4>1 DEF OfferOnce
      <4>3. NoneTwice(q) /\ S \cap Q = {}
        BY <4>1 DEF NewTo
      <4>4. P \subseteq Q /\ D \subseteq Q /\ P \cap D = {}
        <5>1. /\ Len(q) \in Nat /\ DOMAIN q = 1..Len(q)
              /\ 1..o.popped \subseteq 1..Len(q) /\ (o.popped + 1)..Len(q) \subseteq 1..Len(q)
              /\ \A i \in 1..o.popped, j \in (o.popped + 1)..Len(q) : i # j
          BY <1>2, <2>2, <2>3
        <5>2. P \subseteq Q
          BY <5>1 DEF Popped, Ids
        <5>3. D \subseteq Q /\ \A y \in D : \E j \in (o.popped + 1)..Len(q) : y = q[j].id
          BY <2>4, <5>1 DEF Ids
        <5>4. ASSUME NEW i \in 1..o.popped, NEW j \in (o.popped + 1)..Len(q), q[i].id = q[j].id
              PROVE  FALSE
          BY <4>3, <5>1, <5>4 DEF NoneTwice
        <5> QED BY <5>2, <5>3, <5>4 DEF Popped
      <4>5. Ids(w) = D \cup K /\ NoneTwice(d)
        BY <2>4, <2>6, <4>3
      <4> HIDE DEF A, S, P, D, K, Q
      <4>6. D \cap K = {} /\ A \cap (D \cup K) = {} /\ A \cup (D \cup K) \subseteq S \cup Q
        BY <4>2, <4>3, <4>4
      <4>7. NoneTwice(w)
        BY <2>6, <4>2, <4>5, <4>6 DEF D, K
      <4>8. NewTo(o.stream, t, w)
        BY <4>2, <4>5, <4>6, <4>7 DEF NewTo, A
      <4> QED BY <3>2, <4>1, <4>5, <4>6, <4>8 DEF A, S, Q, q
    <3> QED BY <3>1, <3>2
  <2>11. Moves(s, f, b.stream, b.buffer)
    BY <2>8, <2>10 DEF Moves
  <2> QED BY <2>2, <2>8, <2>9, <2>11 DEF PushState, b
<1> QED BY <1>4, <1>5

(* The loop over the types.                                                 *)
PushTo(a, t, types) == IF t \in types THEN PushBuffer(a, t) ELSE a
PushLoop(f, s, buf, types) ==
  /\ f \in [0..NumTypes -> Pushes] /\ f[0] = [stream |-> s, buffer |-> buf, outcome |-> "filed"]
  /\ \A k \in 1..NumTypes : f[k] = PushTo(f[k - 1], k - 1, types)
  /\ PushBuffers(s, buf, types) = f[NumTypes]

LEMMA PushLoops ==
  ASSUME NEW s \in Streams, NEW buf \in Buffers, NEW types \in SUBSET Types
  PROVE  \E f : PushLoop(f, s, buf, types)
<1> DEFINE m == NumTypes  S == Pushes  Step(k, a) == PushTo(a, k - 1, types)
           z == [stream |-> s, buffer |-> buf, outcome |-> "filed"]
           F == [k \in 1..m |-> [a \in S |-> Step(k, a)]]
           f == CHOOSE g : g = [k \in 0..m |-> IF k = 0 THEN z ELSE Step(k, g[k - 1])]
<1>1. m \in Nat
  BY DEF NumTypes
<1>2. \A k \in 1..m, a \in S : Step(k, a) \in S
  BY PushBufferGood DEF PushState, PushTo
<1>3. z \in S
  BY DEF Pushes
<1>4. PushBuffers(s, buf, types) = f[m]
  BY DEF PushBuffers, PushTo
<1> HIDE DEF S, Step
<1>5. F \in [1..m -> [S -> S]] /\ \A k \in 1..m, a \in S : F[k][a] = Step(k, a)
  BY <1>2
<1> HIDE DEF F, m, z
<1>6. PICK g \in [0..m -> S] : Recurs(g, m, z, F)
  BY <1>1, <1>3, <1>5, LoopIs
<1>7. ASSUME NEW k \in 0..m, k # 0 PROVE F[k][g[k - 1]] = Step(k, g[k - 1])
  <2>1. k \in 1..m /\ k - 1 \in 0..m
    BY <1>1, <1>7
  <2> QED BY <1>5, <1>6, <2>1
<1>8. g = [k \in 0..m |-> IF k = 0 THEN z ELSE Step(k, g[k - 1])]
  BY <1>6, <1>7 DEF Recurs
<1>9. f = [k \in 0..m |-> IF k = 0 THEN z ELSE Step(k, f[k - 1])]
  BY <1>8
<1> HIDE DEF f
<1>10. f[0] = z /\ \A k \in 1..m : f[k] = Step(k, f[k - 1])
  BY <1>1, <1>9
<1>11. \A k \in 0..m : f[k] \in S
  <2>1. f[0] \in S /\ \A k \in 1..m : f[k - 1] \in S => f[k] \in S
    BY <1>2, <1>3, <1>10
  <2> QED BY <1>1, <2>1, Stays
<1>12. f \in [0..m -> S]
  BY <1>9, <1>11
<1> QED BY <1>4, <1>10, <1>12 DEF PushLoop, m, S, Step, z

(* One round of it.                                                         *)
LEMMA PushRound ==
  ASSUME NEW s \in Streams, NEW buf \in Buffers, NEW t, NEW types \in SUBSET Types,
         NEW a, PushState(a, s, buf)
  PROVE  PushState(PushTo(a, t, types), s, buf)
<1>1. a \in Pushes /\ Len(a.stream) = Len(s) /\ Extends(s, a.stream)
      /\ Moves(s, buf, a.stream, a.buffer)
  BY DEF PushState
<1>2. CASE t \notin types
  BY <1>2 DEF PushTo
<1>3. CASE t \in types
  <2> DEFINE b == PushBuffer(a, t)
  <2>1. PushState(b, a.stream, a.buffer)
    BY <1>1, <1>3, PushBufferGood
  <2> HIDE DEF b
  <2>2. b \in Pushes /\ Len(b.stream) = Len(a.stream) /\ Extends(a.stream, b.stream)
        /\ Moves(a.stream, a.buffer, b.stream, b.buffer)
    BY <2>1 DEF PushState
  <2>3. Len(b.stream) = Len(s) /\ Extends(s, b.stream)
    BY <1>1, <2>2 DEF Extends
  <2>4. Moves(s, buf, b.stream, b.buffer)
    BY <1>1, <2>2 DEF Moves
  <2>5. PushTo(a, t, types) = b
    BY <1>3 DEF PushTo, b
  <2> QED BY <2>2, <2>3, <2>4, <2>5 DEF PushState
<1> QED BY <1>2, <1>3

(* All rounds.                                                              *)
LEMMA PushesGood ==
  ASSUME NEW s \in Streams, NEW buf \in Buffers, NEW types \in SUBSET Types
  PROVE  PushState(PushBuffers(s, buf, types), s, buf)
<1>1. PICK f : PushLoop(f, s, buf, types)
  BY PushLoops
<1>2. /\ f \in [0..NumTypes -> Pushes] /\ f[0] = [stream |-> s, buffer |-> buf, outcome |-> "filed"]
      /\ \A k \in 1..NumTypes : f[k] = PushTo(f[k - 1], k - 1, types)
      /\ PushBuffers(s, buf, types) = f[NumTypes]
      /\ NumTypes \in Nat /\ NumTypes \in 0..NumTypes /\ 0 \in 0..NumTypes
  BY <1>1 DEF PushLoop, NumTypes
<1> DEFINE S == {a \in Pushes : PushState(a, s, buf)}
<1>3. \A a : a \in S <=> PushState(a, s, buf)
  BY DEF PushState
<1>4. PushState(f[0], s, buf)
  <2>1. f[0].stream = s /\ f[0].buffer = buf /\ f[0] \in Pushes /\ Extends(s, s)
    BY <1>2, Untouched
  <2>2. Moves(s, buf, s, buf)
    BY DEF Moves
  <2> QED BY <2>1, <2>2 DEF PushState
<1> HIDE DEF S
<1>5. \A k \in 1..NumTypes : f[k - 1] \in S => f[k] \in S
  BY <1>2, <1>3, PushRound
<1>6. f[NumTypes] \in S
  BY <1>2, <1>3, <1>4, <1>5, Stays
<1> QED BY <1>2, <1>3, <1>6

(* A call that receives a unit.  The VPS alone may be asked for in no NALUs.*)
Once(r, buf, sock) ==
  NoneTwice(buf \o sock) =>
    /\ NoneTwice(r.buffer \o r.socket)
    /\ Ids(r.unit.nalus) \cap Ids(r.buffer \o r.socket) = {}
    /\ Ids(r.unit.nalus) \cup Ids(r.buffer \o r.socket) \subseteq Ids(buf \o sock)

LEMMA AssembleGood ==
  ASSUME NEW t \in Types, NEW n \in Nat, n > 0 \/ t = VPS, NEW buf \in Seq(FramesOf(t)),
         t = VPS => buf = <<>>, NEW sock \in Seq(FramesOf(t))
  PROVE  LET r == Assemble(t, n, buf, sock)
         IN /\ ~ r.timeout => r.unit \in Received(t)
            /\ r.buffer \in Seq(FramesOf(t)) /\ (t = VPS => r.buffer = <<>>)
            /\ r.socket \in Seq(FramesOf(t)) /\ Once(r, buf, sock)
            /\ Ids(buf) \cup Ids(sock)
                 \subseteq Ids(r.unit.nalus) \cup Ids(r.buffer) \cup Ids(r.socket)
<1> DEFINE r == Assemble(t, n, buf, sock)
<1>1. r = Passing!Assemble(t, n, buf, sock)
  BY DEF Assemble, Passing!Assemble, AssembleVPS, Passing!AssembleVPS, AssembleNalus,
         Passing!AssembleNalus, EmptyUnit, Passing!EmptyUnit, LastPass, Passing!LastPass,
         Passes, Passing!Passes, NewCall, Passing!NewCall, TakeNalu, Passing!TakeNalu,
         AcceptNalu, Passing!AcceptNalu, RejectNalu, Passing!RejectNalu, Drop, Passing!Drop
<1> DEFINE P == FramesOf(t)
<1>2. Passing!Stamped(P, Times)
  BY FrameIs, Clock DEF Passing!Stamped
<1> HIDE DEF P, r
<1>3. /\ Passing!Assembled(r, t, n, buf, sock, P, Times) /\ Passing!OnePlace(r, buf, sock)
      /\ Passing!Retains(r, buf, sock)
  <2>1. buf \in Seq(P) /\ sock \in Seq(P)
    BY DEF P
  <2> QED BY <1>1, <1>2, <2>1, Passing!AssembleKeeps
<1>4. /\ r.unit \in [ts : Times \cup {Unset}, nalus : Seq(P)]
      /\ \A i \in DOMAIN r.unit.nalus : r.unit.nalus[i].ts = r.unit.ts
      /\ r.unit.nalus = <<>> <=> r.unit.ts = Unset
      /\ r.buffer \in Seq(P) /\ r.socket \in Seq(P)
      /\ ~ r.timeout /\ n > 0 => r.unit.nalus # <<>>
      /\ t = VPS /\ buf = <<>> => r.buffer = <<>>
  BY <1>3 DEF Passing!Assembled, Passing!UnitOk
<1>5. ASSUME ~ r.timeout PROVE r.unit \in Received(t)
  <2>1. r.unit \in [ts : Stamps, nalus : Seq(P)]
    BY <1>4, Clock
  <2>2. r.unit.nalus = <<>> => t = VPS
    BY <1>4, <1>5
  <2> QED BY <1>4, <2>1, <2>2 DEF Received, P
<1>6. Once(r, buf, sock)
  <2>1. \A f : Ids(f) = Passing!IdsIn(f) /\ (NoneTwice(f) <=> Passing!NoneTwiceIn(f))
    BY DEF Ids, NoneTwice, Passing!IdsIn, Passing!NoneTwiceIn
  <2> QED BY <1>3, <2>1 DEF Once, Passing!OnePlace
<1>7. Ids(buf) \cup Ids(sock) \subseteq Ids(r.unit.nalus) \cup Ids(r.buffer) \cup Ids(r.socket)
  <2>1. \A f : Ids(f) = Passing!IdsIn(f)
    BY DEF Ids, Passing!IdsIn
  <2> QED BY <1>3, <2>1 DEF Passing!Retains
<1> QED BY <1>4, <1>5, <1>6, <1>7 DEF P, r

(* receive_gof: the GoF and the queues after some of its types.             *)
Accs == [gof : GoodGofs \cup {EmptyGof}, socket : Queues, buffer : Buffers, ok : BOOLEAN]
Taking(g, f, h, buf, sock) ==
  \A x \in Types : NoneTwice(buf[x] \o sock[x]) =>
    /\ NoneTwice(f[x] \o h[x]) /\ UnitIds(g, x) \cap Ids(f[x] \o h[x]) = {}
    /\ UnitIds(g, x) \cup Ids(f[x] \o h[x]) \subseteq Ids(buf[x] \o sock[x])
GofState(a, buf, sock) == a \in Accs /\ Taking(a.gof, a.buffer, a.socket, buf, sock)

(* The sizes a call may be given: of the VPS alone zero.                    *)
Sizes == {f \in [Types -> Nat] : \A t \in Types \ {VPS} : f[t] > 0}

(* The unit of one type joins the GoF.                                      *)
LEMMA AddGood ==
  ASSUME NEW t \in Types, NEW n \in Nat, n > 0 \/ t = VPS, NEW buf, NEW sock,
         NEW a \in Accs
  PROVE  /\ AddUnit(a, t, n) \in Accs
         /\ GofState(a, buf, sock) => GofState(AddUnit(a, t, n), buf, sock)
<1> DEFINE g == a.gof  f == a.buffer  h == a.socket  r == Assemble(t, n, f[t], h[t])
           f2 == [f EXCEPT ![t] = r.buffer]  h2 == [h EXCEPT ![t] = r.socket]
           ok == GofAccepts(g, r.unit)
           g2 == IF ok THEN GofSet(g, t, r.unit) ELSE EmptyGof
           b == AddUnit(a, t, n)
<1>1. /\ g \in GoodGofs \cup {EmptyGof} /\ h \in Queues /\ f \in Buffers
      /\ GofState(a, buf, sock) => Taking(g, f, h, buf, sock)
  BY DEF GofState, Accs
<1>2. f[t] \in Seq(FramesOf(t)) /\ (t = VPS => f[t] = <<>>) /\ h[t] \in Seq(FramesOf(t))
  BY <1>1 DEF Buffers, Queues
<1>3. CASE ~ a.ok \/ r.timeout
  <2>1. b = a
    BY <1>3 DEF AddUnit, AddReceived
  <2> QED BY <2>1
<1>4. CASE ~ (~ a.ok \/ r.timeout)
  <2>1. b = [gof |-> g2, socket |-> h2, buffer |-> f2, ok |-> ok]
    BY <1>4 DEF AddUnit, AddReceived
  <2> HIDE DEF f, h
  <2>2. /\ r.unit \in Received(t)
        /\ r.buffer \in Seq(FramesOf(t)) /\ (t = VPS => r.buffer = <<>>)
        /\ r.socket \in Seq(FramesOf(t)) /\ Once(r, f[t], h[t])
    BY <1>2, <1>4, AssembleGood DEF f, h
  <2> HIDE DEF r
  <2>3. f2 \in Buffers /\ \A x \in Types : f2[x] = IF x = t THEN r.buffer ELSE f[x]
    BY <1>1, <2>2, BufferSet
  <2>4. h2 \in Queues /\ \A x \in Types : h2[x] = IF x = t THEN r.socket ELSE h[x]
    BY <1>1, <2>2, QueueSet
  <2>5. g2 \in GoodGofs \cup {EmptyGof}
        /\ \A x \in Types : UnitIds(g2, x)
                              \subseteq UnitIds(g, x) \cup (IF x = t THEN Ids(r.unit.nalus) ELSE {})
    <3> HIDE DEF g
    <3>1. CASE ok
      <4>1. g2 = GofSet(g, t, r.unit)
        BY <3>1
      <4>2. /\ GofSet(g, t, r.unit) \in GoodGofs
            /\ Gains(g, GofSet(g, t, r.unit), t, Ids(r.unit.nalus))
        BY <1>1, <2>2, <3>1, SetGood
      <4> HIDE DEF g2
      <4> QED BY <4>1, <4>2 DEF Gains
    <3>2. CASE ~ ok
      <4>1. g2 = EmptyGof
        BY <3>2
      <4>2. \A x : UnitIds(EmptyGof, x) = {}
        BY DEF UnitIds, EmptyGof
      <4> HIDE DEF g2
      <4> QED BY <4>1, <4>2
    <3> QED BY <3>1, <3>2
  <2>6. ok \in BOOLEAN
    BY DEF GofAccepts
  <2> HIDE DEF f2, h2, g2, ok, b, g
  <2>7. b \in Accs
    BY <2>1, <2>3, <2>4, <2>5, <2>6 DEF Accs
  <2>8. ASSUME GofState(a, buf, sock) PROVE Taking(g2, f2, h2, buf, sock)
    <3> SUFFICES ASSUME NEW x \in Types, NoneTwice(buf[x] \o sock[x])
                 PROVE  /\ NoneTwice(f2[x] \o h2[x]) /\ UnitIds(g2, x) \cap Ids(f2[x] \o h2[x]) = {}
                        /\ UnitIds(g2, x) \cup Ids(f2[x] \o h2[x]) \subseteq Ids(buf[x] \o sock[x])
      BY DEF Taking
    <3>1. /\ NoneTwice(f[x] \o h[x]) /\ UnitIds(g, x) \cap Ids(f[x] \o h[x]) = {}
          /\ UnitIds(g, x) \cup Ids(f[x] \o h[x]) \subseteq Ids(buf[x] \o sock[x])
      BY <1>1, <2>8 DEF Taking
    <3>2. CASE x # t
      <4>1. f2[x] = f[x] /\ h2[x] = h[x] /\ UnitIds(g2, x) \subseteq UnitIds(g, x)
        BY <2>3, <2>4, <2>5, <3>2
      <4> QED BY <3>1, <4>1
    <3>3. CASE x = t
      <4> DEFINE U == UnitIds(g, t)  V == UnitIds(g2, t)  Q == Ids(f[t] \o h[t])
                 R == Ids(r.buffer \o r.socket)  N == Ids(r.unit.nalus)  Z == Ids(buf[t] \o sock[t])
      <4>1. f2[t] = r.buffer /\ h2[t] = r.socket /\ V \subseteq U \cup N
        BY <2>3, <2>4, <2>5
      <4>2. NoneTwice(r.buffer \o r.socket) /\ N \cap R = {} /\ N \cup R \subseteq Q
        BY <2>2, <3>1, <3>3 DEF Once
      <4>3. U \cap Q = {} /\ U \cup Q \subseteq Z
        BY <3>1, <3>3
      <4> HIDE DEF U, V, Q, R, N, Z
      <4>4. V \cap R = {} /\ V \cup R \subseteq Z
        BY <4>1, <4>2, <4>3
      <4> QED BY <3>3, <4>1, <4>2, <4>4 DEF V, R, Z
    <3> QED BY <3>2, <3>3
  <2>9. b.gof = g2 /\ b.buffer = f2 /\ b.socket = h2
    BY <2>1
  <2> QED BY <2>7, <2>8, <2>9 DEF GofState, b
<1> QED BY <1>3, <1>4

AddTo(a, t, sizes) == IF t \in Types THEN AddUnit(a, t, sizes[t]) ELSE a
GofLoop(f, sizes) ==
  /\ f \in [0..NumTypes -> Accs] /\ f[0] = StartGof
  /\ \A k \in 1..NumTypes : f[k] = AddTo(f[k - 1], k - 1, sizes)
  /\ ReceivedGof(sizes) = f[NumTypes]

(* One round of the loop over the types.                                    *)
LEMMA AddRound ==
  ASSUME NEW t, NEW sizes \in Sizes, NEW buf, NEW sock, NEW a \in Accs
  PROVE  /\ AddTo(a, t, sizes) \in Accs
         /\ GofState(a, buf, sock) => GofState(AddTo(a, t, sizes), buf, sock)
<1>1. CASE t \in Types
  <2>1. sizes[t] \in Nat /\ (sizes[t] > 0 \/ t = VPS)
    BY <1>1 DEF Sizes
  <2> DEFINE n == sizes[t]
  <2>2. AddTo(a, t, sizes) = AddUnit(a, t, n)
    BY <1>1 DEF AddTo
  <2> HIDE DEF n
  <2> QED BY <1>1, <2>1, <2>2, AddGood DEF n
<1>2. CASE t \notin Types
  BY <1>2 DEF AddTo
<1> QED BY <1>1, <1>2

(* The loop is such a recursive function.                                   *)
LEMMA GofLoops ==
  ASSUME socket \in Queues, buffer \in Buffers, NEW sizes \in Sizes
  PROVE  \E f : GofLoop(f, sizes)
<1> DEFINE m == NumTypes  S == Accs  Step(k, a) == AddTo(a, k - 1, sizes)
           z == StartGof
           F == [k \in 1..m |-> [a \in S |-> Step(k, a)]]
           f == CHOOSE g : g = [k \in 0..m |-> IF k = 0 THEN z ELSE Step(k, g[k - 1])]
<1>1. m \in Nat
  BY DEF NumTypes
<1>2. \A k \in 1..m, a \in S : Step(k, a) \in S
  BY AddRound
<1>3. z \in S
  BY DEF StartGof, Accs
<1>4. ReceivedGof(sizes) = f[m]
  BY DEF ReceivedGof, AddTo
<1> HIDE DEF S, Step
<1>5. F \in [1..m -> [S -> S]] /\ \A k \in 1..m, a \in S : F[k][a] = Step(k, a)
  BY <1>2
<1> HIDE DEF F, m, z
<1>6. PICK g \in [0..m -> S] : Recurs(g, m, z, F)
  BY <1>1, <1>3, <1>5, LoopIs
<1>7. ASSUME NEW k \in 0..m, k # 0 PROVE F[k][g[k - 1]] = Step(k, g[k - 1])
  <2>1. k \in 1..m /\ k - 1 \in 0..m
    BY <1>1, <1>7
  <2> QED BY <1>5, <1>6, <2>1
<1>8. g = [k \in 0..m |-> IF k = 0 THEN z ELSE Step(k, g[k - 1])]
  BY <1>6, <1>7 DEF Recurs
<1>9. f = [k \in 0..m |-> IF k = 0 THEN z ELSE Step(k, f[k - 1])]
  BY <1>8
<1> HIDE DEF f
<1>10. f[0] = z /\ \A k \in 1..m : f[k] = Step(k, f[k - 1])
  BY <1>1, <1>9
<1>11. \A k \in 0..m : f[k] \in S
  <2>1. f[0] \in S /\ \A k \in 1..m : f[k - 1] \in S => f[k] \in S
    BY <1>2, <1>3, <1>10
  <2> QED BY <1>1, <2>1, Stays
<1>12. f \in [0..m -> S]
  BY <1>9, <1>11
<1> QED BY <1>4, <1>10, <1>12 DEF GofLoop, m, S, Step, z

(* The GoF received is good, and its NALUs left the queues.                 *)
LEMMA GofGood ==
  ASSUME socket \in Queues, buffer \in Buffers, NEW sizes \in Sizes
  PROVE  GofState(ReceivedGof(sizes), buffer, socket)
<1>1. PICK f : GofLoop(f, sizes)
  BY GofLoops
<1>2. /\ f \in [0..NumTypes -> Accs] /\ f[0] = StartGof
      /\ \A k \in 1..NumTypes : f[k] = AddTo(f[k - 1], k - 1, sizes)
      /\ ReceivedGof(sizes) = f[NumTypes]
      /\ NumTypes \in Nat /\ NumTypes \in 0..NumTypes /\ 0 \in 0..NumTypes
  BY <1>1 DEF GofLoop, NumTypes
<1> DEFINE b == buffer  h == socket  S == {a \in Accs : GofState(a, b, h)}
<1>3. \A a : a \in S <=> GofState(a, b, h)
  BY DEF GofState
<1>4. GofState(f[0], b, h)
  <2>0. f[0] = [gof |-> EmptyGof, socket |-> h, buffer |-> b, ok |-> TRUE]
    BY <1>2 DEF StartGof
  <2>1. f[0].gof = EmptyGof /\ f[0].buffer = b /\ f[0].socket = h /\ f[0] \in Accs
    <3>1. f[0] \in Accs
      BY <1>2
    <3> HIDE DEF b, h
    <3> QED BY <2>0, <3>1
  <2>2. \A x : UnitIds(EmptyGof, x) = {}
    BY DEF UnitIds, EmptyGof
  <2>3. Taking(EmptyGof, b, h, b, h)
    <3> HIDE DEF b, h
    <3> QED BY <2>2 DEF Taking
  <2> QED BY <2>1, <2>3 DEF GofState
<1> HIDE DEF S
<1>5. ASSUME NEW k \in 1..NumTypes, f[k - 1] \in S PROVE f[k] \in S
  <2>1. GofState(f[k - 1], b, h) /\ f[k - 1] \in Accs
    BY <1>3, <1>5 DEF GofState
  <2> DEFINE i == k - 1  a == f[i]
  <2>2. f[k] = AddTo(a, i, sizes)
    BY <1>2
  <2> HIDE DEF i, a, b, h
  <2>3. GofState(AddTo(a, i, sizes), b, h)
    BY <2>1, AddRound DEF a, i
  <2> QED BY <1>3, <2>2, <2>3
<1>6. f[NumTypes] \in S
  BY <1>2, <1>3, <1>4, <1>5, Stays
<1> QED BY <1>2, <1>3, <1>6

(* What a call makes of the stream s, the buffers f and the queues h: NALUs *)
(* that were in one place each still are.                                   *)
KeptApart(s, f, h, r, f2, h2) ==
  \A x \in Types : NewTo(s, x, f[x] \o h[x]) =>
    /\ NewTo(r, x, f2[x] \o h2[x])
    /\ FiledIn(r, x) \cup Ids(f2[x] \o h2[x]) \subseteq FiledIn(s, x) \cup Ids(f[x] \o h[x])
FiledOk(r, s, f, h) ==
  /\ r.stream \in Streams /\ r.socket \in Queues /\ r.buffer \in Buffers /\ r.outcome \in Outcome
  /\ Extends(s, r.stream) /\ KeptApart(s, f, h, r.stream, r.buffer, r.socket)
  /\ r.outcome = "timeout" => r.stream = s

(* What two queues hold together.                                           *)
LEMMA QueueOf ==
  ASSUME NEW f \in Buffers, NEW h \in Queues, NEW t \in Types
  PROVE  /\ f[t] \in Seq(FramesOf(t)) /\ h[t] \in Seq(FramesOf(t)) /\ (t = VPS => f[t] = <<>>)
         /\ Ids(f[t] \o h[t]) = Ids(f[t]) \cup Ids(h[t])
         /\ NoneTwice(f[t] \o h[t])
              <=> NoneTwice(f[t]) /\ NoneTwice(h[t]) /\ Ids(f[t]) \cap Ids(h[t]) = {}
<1>1. f[t] \in Seq(FramesOf(t)) /\ h[t] \in Seq(FramesOf(t)) /\ (t = VPS => f[t] = <<>>)
  BY DEF Buffers, Queues
<1> QED BY <1>1, Joined

(* The same of the numbers alone.                                           *)
LEMMA QueueIds ==
  ASSUME NEW f \in Buffers, NEW h \in Queues, NEW t \in Types
  PROVE  Ids(f[t] \o h[t]) = Ids(f[t]) \cup Ids(h[t])
BY QueueOf

(* Moves from the buffers alone.                                            *)
LEMMA MovesApart ==
  ASSUME NEW s, NEW r, NEW f \in Buffers, NEW f2 \in Buffers, NEW h \in Queues, Moves(s, f, r, f2)
  PROVE  KeptApart(s, f, h, r, f2, h)
<1> SUFFICES ASSUME NEW x \in Types, NewTo(s, x, f[x] \o h[x])
             PROVE  /\ NewTo(r, x, f2[x] \o h[x])
                    /\ FiledIn(r, x) \cup Ids(f2[x] \o h[x])
                         \subseteq FiledIn(s, x) \cup Ids(f[x] \o h[x])
  BY DEF KeptApart
<1> DEFINE S == FiledIn(s, x)  R == FiledIn(r, x)  F == Ids(f[x])  G == Ids(f2[x])  H == Ids(h[x])
<1>1. /\ Ids(f[x] \o h[x]) = F \cup H
      /\ NoneTwice(f[x] \o h[x]) <=> NoneTwice(f[x]) /\ NoneTwice(h[x]) /\ F \cap H = {}
  BY QueueOf
<1>2. /\ Ids(f2[x] \o h[x]) = G \cup H
      /\ NoneTwice(f2[x] \o h[x]) <=> NoneTwice(f2[x]) /\ NoneTwice(h[x]) /\ G \cap H = {}
  BY QueueOf
<1>3. /\ NoneTwice(f[x]) /\ NoneTwice(h[x]) /\ F \cap H = {} /\ ApartIn(s, x)
      /\ S \cap (F \cup H) = {}
  BY <1>1 DEF NewTo
<1>4. NewTo(s, x, f[x])
  BY <1>3 DEF NewTo
<1>5. NewTo(r, x, f2[x]) /\ R \cup G \subseteq S \cup F
  BY <1>4 DEF Moves
<1>6. NoneTwice(f2[x]) /\ ApartIn(r, x) /\ R \cap G = {}
  BY <1>5 DEF NewTo
<1> HIDE DEF S, R, F, G, H
<1>7. G \cap H = {} /\ R \cap (G \cup H) = {} /\ R \cup (G \cup H) \subseteq S \cup (F \cup H)
  BY <1>3, <1>5, <1>6
<1>8. NewTo(r, x, f2[x] \o h[x])
  BY <1>2, <1>3, <1>6, <1>7 DEF NewTo, R
<1> QED BY <1>1, <1>2, <1>7, <1>8 DEF S, R

(* One after the other.                                                     *)
LEMMA ApartTrans ==
  ASSUME NEW s, NEW f, NEW h, NEW s2, NEW f2, NEW h2, NEW s3, NEW f3, NEW h3,
         KeptApart(s, f, h, s2, f2, h2), KeptApart(s2, f2, h2, s3, f3, h3)
  PROVE  KeptApart(s, f, h, s3, f3, h3)
<1> SUFFICES ASSUME NEW x \in Types, NewTo(s, x, f[x] \o h[x])
             PROVE  /\ NewTo(s3, x, f3[x] \o h3[x])
                    /\ FiledIn(s3, x) \cup Ids(f3[x] \o h3[x])
                         \subseteq FiledIn(s, x) \cup Ids(f[x] \o h[x])
  BY DEF KeptApart
<1>1. /\ NewTo(s2, x, f2[x] \o h2[x])
      /\ FiledIn(s2, x) \cup Ids(f2[x] \o h2[x]) \subseteq FiledIn(s, x) \cup Ids(f[x] \o h[x])
  BY DEF KeptApart
<1>2. /\ NewTo(s3, x, f3[x] \o h3[x])
      /\ FiledIn(s3, x) \cup Ids(f3[x] \o h3[x]) \subseteq FiledIn(s2, x) \cup Ids(f2[x] \o h2[x])
  BY <1>1 DEF KeptApart
<1> QED BY <1>1, <1>2

(* After the push of what was received: the buffers are tried as well.      *)
LEMMA AfterPushGood ==
  ASSUME NEW s \in Streams, NEW f, NEW h, NEW p, NEW f2 \in Buffers, NEW h2 \in Queues,
         NEW types \in SUBSET Types, p.stream \in Streams, Extends(s, p.stream),
         KeptApart(s, f, h, p.stream, f2, h2)
  PROVE  FiledOk(AfterPush(p, h2, f2, types), s, f, h)
<1> DEFINE r == AfterPush(p, h2, f2, types)  b == PushBuffers(p.stream, f2, types)
<1>1. CASE p.ok
  <2>1. r = [stream |-> b.stream, socket |-> h2, buffer |-> b.buffer, outcome |-> b.outcome]
    BY <1>1 DEF AfterPush, AfterBuffers
  <2>2. PushState(b, p.stream, f2)
    BY PushesGood
  <2> HIDE DEF b, r
  <2>3. /\ b.stream \in Streams /\ b.buffer \in Buffers /\ b.outcome \in {"filed", "thrown", "mixed"}
        /\ Len(b.stream) = Len(p.stream) /\ Extends(p.stream, b.stream)
        /\ Moves(p.stream, f2, b.stream, b.buffer)
    BY <2>2 DEF PushState, Pushes
  <2>4. KeptApart(p.stream, f2, h2, b.stream, b.buffer, h2)
    BY <2>3, MovesApart
  <2>5. KeptApart(s, f, h, b.stream, b.buffer, h2)
    BY <2>4, ApartTrans
  <2>6. Extends(s, b.stream)
    <3>1. Len(s) \in Nat /\ Len(p.stream) \in Nat
      BY DEF Streams
    <3> QED BY <2>3, <3>1 DEF Extends
  <2>7. r.stream = b.stream /\ r.socket = h2 /\ r.buffer = b.buffer /\ r.outcome = b.outcome
    BY <2>1
  <2>8. r.outcome \in Outcome /\ r.outcome # "timeout"
    BY <2>3, <2>7 DEF Outcome
  <2> QED BY <2>3, <2>5, <2>6, <2>7, <2>8 DEF FiledOk, r
<1>2. CASE ~ p.ok
  <2>1. r = [stream |-> p.stream, socket |-> h2, buffer |-> f2, outcome |-> "gap"]
    BY <1>2 DEF AfterPush
  <2> HIDE DEF r
  <2>2. r.stream = p.stream /\ r.socket = h2 /\ r.buffer = f2 /\ r.outcome = "gap"
    BY <2>1
  <2> QED BY <2>2 DEF FiledOk, Outcome, r
<1> QED BY <1>1, <1>2

(* Nothing moves.                                                           *)
LEMMA SameApart == ASSUME NEW s, NEW f, NEW h PROVE KeptApart(s, f, h, s, f, h)
BY DEF KeptApart

(* receive_gof, with the GoF g received from the buffers f and queues h.    *)
LEMMA FileGofGood ==
  ASSUME NEW s \in Streams, NEW f \in Buffers, NEW h \in Queues, NEW g, GofState(g, f, h)
  PROVE  FiledOk(FileGof(s, g), s, f, h)
<1> DEFINE r == FileGof(s, g)
<1>1. /\ g.gof \in GoodGofs \cup {EmptyGof} /\ g.socket \in Queues /\ g.buffer \in Buffers
      /\ Taking(g.gof, g.buffer, g.socket, f, h)
  BY DEF GofState, Accs
<1>2. Extends(s, s)
  BY Untouched
<1>3. CASE g.ok /\ g.gof.units # <<>>
  <2> DEFINE p == PushGof(s, g.gof)
  <2>1. r = AfterPush(p, g.socket, g.buffer, Types)
    BY <1>3 DEF FileGof
  <2>2. g.gof \in GoodGofs
    BY <1>1, <1>3 DEF EmptyGof
  <2>3. p.stream \in Streams /\ Extends(s, p.stream) /\ Files(s, p.stream, OfGof(g.gof))
    BY <2>2, PushGofGood
  <2> HIDE DEF p, r
  <2>4. KeptApart(s, f, h, p.stream, g.buffer, g.socket)
    <3> SUFFICES ASSUME NEW x \in Types, NewTo(s, x, f[x] \o h[x])
                 PROVE  /\ NewTo(p.stream, x, g.buffer[x] \o g.socket[x])
                        /\ FiledIn(p.stream, x) \cup Ids(g.buffer[x] \o g.socket[x])
                             \subseteq FiledIn(s, x) \cup Ids(f[x] \o h[x])
      BY DEF KeptApart
    <3> DEFINE S == FiledIn(s, x)  A == FiledIn(p.stream, x)  Q == Ids(f[x] \o h[x])
               R == Ids(g.buffer[x] \o g.socket[x])  U == UnitIds(g.gof, x)
    <3>1. NoneTwice(f[x] \o h[x]) /\ ApartIn(s, x) /\ S \cap Q = {}
      BY DEF NewTo
    <3>2. NoneTwice(g.buffer[x] \o g.socket[x]) /\ U \cap R = {} /\ U \cup R \subseteq Q
      BY <1>1, <3>1 DEF Taking
    <3> DEFINE M == OfGof(g.gof)
    <3>3. M[x] = U
      BY DEF OfGof
    <3> HIDE DEF M, U, Q, R
    <3>4. M[x] \cap S = {}
      BY <3>1, <3>2, <3>3
    <3>5. ApartIn(p.stream, x) /\ A \subseteq S \cup U
      BY <2>3, <3>1, <3>3, <3>4, FilesApart DEF M
    <3> HIDE DEF S, A
    <3>6. A \cap R = {} /\ A \cup R \subseteq S \cup Q
      BY <3>1, <3>2, <3>5
    <3> QED BY <3>2, <3>5, <3>6 DEF NewTo, S, A, Q, R
  <2>5. FiledOk(AfterPush(p, g.socket, g.buffer, Types), s, f, h)
    BY <1>1, <2>3, <2>4, AfterPushGood
  <2> QED BY <2>1, <2>5 DEF r
<1>4. CASE ~ (g.ok /\ g.gof.units # <<>>)
  <2>1. r = [stream |-> s, socket |-> g.socket, buffer |-> g.buffer,
             outcome |-> IF g.ok THEN "timeout" ELSE "mixed"]
    BY <1>4 DEF FileGof
  <2> HIDE DEF r
  <2>2. r.stream = s /\ r.socket = g.socket /\ r.buffer = g.buffer /\ r.outcome \in Outcome
    BY <2>1 DEF Outcome
  <2>3. KeptApart(s, f, h, s, g.buffer, g.socket)
    <3> SUFFICES ASSUME NEW x \in Types, NewTo(s, x, f[x] \o h[x])
                 PROVE  /\ NewTo(s, x, g.buffer[x] \o g.socket[x])
                        /\ FiledIn(s, x) \cup Ids(g.buffer[x] \o g.socket[x])
                             \subseteq FiledIn(s, x) \cup Ids(f[x] \o h[x])
      BY DEF KeptApart
    <3>1. NoneTwice(f[x] \o h[x]) /\ ApartIn(s, x) /\ FiledIn(s, x) \cap Ids(f[x] \o h[x]) = {}
      BY DEF NewTo
    <3>2. NoneTwice(g.buffer[x] \o g.socket[x])
          /\ Ids(g.buffer[x] \o g.socket[x]) \subseteq Ids(f[x] \o h[x])
      BY <1>1, <3>1 DEF Taking
    <3>3. FiledIn(s, x) \cap Ids(g.buffer[x] \o g.socket[x]) = {}
      BY <3>1, <3>2
    <3> QED BY <3>1, <3>2, <3>3 DEF NewTo
  <2> QED BY <1>1, <1>2, <2>2, <2>3 DEF FiledOk, r
<1> QED BY <1>3, <1>4

(* receive_unit.                                                            *)
LEMMA FileUnitGood ==
  ASSUME NEW s \in Streams, NEW t \in Types, NEW n \in Nat, n > 0 \/ t = VPS,
         buffer \in Buffers, socket \in Queues
  PROVE  FiledOk(FileUnit(s, t, Assemble(t, n, buffer[t], socket[t])), s, buffer, socket)
<1> DEFINE f == buffer  h == socket  a == Assemble(t, n, f[t], h[t])  r == FileUnit(s, t, a)
           f2 == [f EXCEPT ![t] = a.buffer]  h2 == [h EXCEPT ![t] = a.socket]
<1>1. f \in Buffers /\ h \in Queues /\ f[t] \in Seq(FramesOf(t)) /\ h[t] \in Seq(FramesOf(t))
      /\ (t = VPS => f[t] = <<>>)
  BY QueueOf
<1>2. CASE a.timeout
  <2>1. r = [stream |-> s, socket |-> h, buffer |-> f, outcome |-> "timeout"]
    BY <1>2 DEF FileUnit
  <2>2. Extends(s, s)
    BY Untouched
  <2> HIDE DEF r, f, h
  <2>3. r.stream = s /\ r.socket = h /\ r.buffer = f /\ r.outcome \in Outcome
    BY <2>1 DEF Outcome
  <2>4. KeptApart(s, f, h, s, f, h)
    BY SameApart
  <2>5. FiledOk(r, s, f, h)
    BY <1>1, <2>2, <2>3, <2>4 DEF FiledOk
  <2> QED BY <2>5 DEF r, f, h
<1>3. CASE ~ a.timeout
  <2> DEFINE p == PushUnit(s, t, a.unit)
  <2>1. r = AfterPush(p, h2, f2, {t})
    BY <1>3 DEF FileUnit
  <2> HIDE DEF f, h
  <2>2. /\ a.unit \in Received(t) /\ a.buffer \in Seq(FramesOf(t)) /\ (t = VPS => a.buffer = <<>>)
        /\ a.socket \in Seq(FramesOf(t)) /\ Once(a, f[t], h[t])
    BY <1>1, <1>3, AssembleGood
  <2> HIDE DEF a
  <2>3. f2 \in Buffers /\ \A x \in Types : f2[x] = IF x = t THEN a.buffer ELSE f[x]
    BY <1>1, <2>2, BufferSet
  <2>4. h2 \in Queues /\ \A x \in Types : h2[x] = IF x = t THEN a.socket ELSE h[x]
    BY <1>1, <2>2, QueueSet
  <2>5. p.stream \in Streams /\ Extends(s, p.stream)
        /\ Files(s, p.stream, Only(t, Ids(a.unit.nalus)))
    BY <2>2, PushUnitGood
  <2> HIDE DEF f2, h2, p, r
  <2>6. KeptApart(s, f, h, p.stream, f2, h2)
    <3> SUFFICES ASSUME NEW x \in Types, NewTo(s, x, f[x] \o h[x])
                 PROVE  /\ NewTo(p.stream, x, f2[x] \o h2[x])
                        /\ FiledIn(p.stream, x) \cup Ids(f2[x] \o h2[x])
                             \subseteq FiledIn(s, x) \cup Ids(f[x] \o h[x])
      BY DEF KeptApart
    <3> DEFINE S == FiledIn(s, x)  A == FiledIn(p.stream, x)  Q == Ids(f[x] \o h[x])
               R == Ids(f2[x] \o h2[x])  M == Only(t, Ids(a.unit.nalus))
    <3>1. NoneTwice(f[x] \o h[x]) /\ ApartIn(s, x) /\ S \cap Q = {}
      BY DEF NewTo
    <3>2. NoneTwice(f2[x] \o h2[x]) /\ M[x] \cap R = {} /\ M[x] \cup R \subseteq Q
      <4>1. CASE x = t
        <5>1. f2[x] = a.buffer /\ h2[x] = a.socket /\ M[x] = Ids(a.unit.nalus)
          BY <2>3, <2>4, <4>1 DEF Only
        <5> HIDE DEF M
        <5> QED BY <2>2, <3>1, <4>1, <5>1 DEF Once
      <4>2. CASE x # t
        <5>1. f2[x] = f[x] /\ h2[x] = h[x] /\ M[x] = {}
          BY <2>3, <2>4, <4>2 DEF Only
        <5> HIDE DEF M
        <5> QED BY <3>1, <5>1
      <4> QED BY <4>1, <4>2
    <3> HIDE DEF M, Q, R
    <3>4. M[x] \cap S = {}
      BY <3>1, <3>2
    <3>5. ApartIn(p.stream, x) /\ A \subseteq S \cup M[x]
      BY <2>5, <3>1, <3>4, FilesApart DEF M
    <3> HIDE DEF S, A
    <3>6. A \cap R = {} /\ A \cup R \subseteq S \cup Q
      BY <3>1, <3>2, <3>5
    <3> QED BY <3>2, <3>5, <3>6 DEF NewTo, S, A, Q, R
  <2>7. FiledOk(AfterPush(p, h2, f2, {t}), s, f, h)
    BY <2>3, <2>4, <2>5, <2>6, AfterPushGood
  <2> QED BY <2>1, <2>7 DEF r, f, h, a
<1> QED BY <1>2, <1>3

(***************************************************************************)
(* The invariant.                                                          *)
(***************************************************************************)
Calls == [stream : Streams, left : Nat, sizes : Sizes]
Results == {"ok", "timeout", "timestamp", "general", "invalid_it"}
NetworkOk ==
  /\ network \in [Types -> SUBSET Nat]
  /\ \A t \in Types : network[t] \subseteq DOMAIN Frames[t]
QueuesOk == NetworkOk /\ socket \in Queues /\ buffer \in Buffers
StreamOk ==
  /\ stream \in Streams \cup {NoData} /\ (mode # "bitstream" => stream \in Streams)
  /\ running \in Calls \cup {NoCall} /\ (running # NoCall => stream = NoData)
ResultOk == mode \in Modes /\ calls \in 0..MaxCalls /\ last.result \in Results
Inv == ResultOk /\ QueuesOk /\ StreamOk /\ OkMeansContiguous

(* "Nothing" is no stream and no call.                                      *)
LEMMA Nothing ==
  /\ NoData \notin Streams /\ NoCall \notin Calls /\ <<>> \in Streams
  /\ \A f \in Calls : f.stream \in Streams /\ f.left \in Nat /\ f.sizes \in Sizes
<1>1. GoodGofs \subseteq Gofs
  BY DEF GoodGofs
<1>2. Streams \subseteq Seq(Gofs)
  BY <1>1, SeqMonotonic DEF Streams
<1>3. Sizes \subseteq [Types -> Nat]
  BY DEF Sizes
<1>4. Calls \subseteq Call
  BY <1>2, <1>3 DEF Calls, Call
<1>5. <<>> \in Streams
  BY DEF Streams
<1>6. NoData \notin Seq(Gofs) /\ NoCall \notin Call
  BY ReceiverAssumption
<1> QED BY <1>2, <1>4, <1>5, <1>6 DEF Calls

(* A call that returns OK extends a contiguous stream to a contiguous one:  *)
(* its test of the last two GoFs is enough.                                 *)
LEMMA Contiguity ==
  ASSUME NEW s \in Streams, NEW r, NEW types, r.stream \in Streams, Extends(s, r.stream),
         Contiguous(s, 1), Verdict(r, types) = "ok"
  PROVE  Contiguous(r.stream, 1)
<1> DEFINE n == r.stream  k == Max({1, Len(n) - 1})
<1>1. Contiguous(n, k)
  <2>1. CASE r.outcome = "timeout"
    BY <2>1 DEF Verdict
  <2>2. CASE r.outcome = "thrown"
    BY <2>2 DEF Verdict
  <2>3. CASE r.outcome \in {"mixed", "gap"}
    BY <2>3 DEF Verdict
  <2>4. CASE r.outcome \notin {"timeout", "thrown", "mixed", "gap"}
    BY <2>4 DEF Verdict
  <2> QED BY <2>1, <2>2, <2>3, <2>4
<1>2. Len(n) \in Nat /\ Len(s) \in Nat
  BY DEF Streams
<1>3. k = IF Len(n) >= 2 THEN Len(n) - 1 ELSE 1
  <2> DEFINE S == {1, Len(n) - 1}
  <2>1. CASE Len(n) >= 2
    <3>1. S \in SUBSET (0..Len(n)) /\ S # {}
      BY <1>2, <2>1
    <3>2. Max(S) \in S /\ \A x \in S : x <= Max(S)
      BY <1>2, <3>1, GreatestExists
    <3> HIDE DEF n
    <3> QED BY <1>2, <2>1, <3>2
  <2>2. CASE Len(n) = 1
    <3>1. S = {0, 1}
      BY <2>2
    <3> HIDE DEF S
    <3>2. S \in SUBSET (0..1) /\ S # {}
      BY <3>1
    <3>3. Max(S) \in S /\ \A x \in S : x <= Max(S)
      BY <3>2, GreatestExists
    <3>4. Max(S) = 1
      BY <3>1, <3>3
    <3> QED BY <2>2, <3>4 DEF S
  <2>3. CASE Len(n) = 0
    <3>1. S = {1, -1}
      BY <2>3
    <3> HIDE DEF S
    <3>2. 1 \in S /\ \A y \in S : 1 >= y
      BY <3>1
    <3>3. \E x \in S : \A y \in S : x >= y
      BY <3>2
    <3>4. Max(S) \in S /\ \A y \in S : Max(S) >= y
      BY <3>3 DEF Max
    <3>5. Max(S) = 1
      BY <3>1, <3>2, <3>4
    <3> QED BY <2>3, <3>5 DEF S
  <2>4. Len(n) >= 2 \/ Len(n) = 1 \/ Len(n) = 0
    <3> DEFINE l == Len(n)
    <3>1. l \in Nat
      BY <1>2
    <3> HIDE DEF l
    <3>2. l >= 2 \/ l = 1 \/ l = 0
      BY <3>1
    <3> QED BY <3>2 DEF l
  <2> QED BY <2>1, <2>2, <2>3, <2>4
<1> HIDE DEF n, k
<1> SUFFICES ASSUME NEW i \in 1..Len(n) - 1
             PROVE  TsOf(n[i + 1].ts) = NextInstant(TsOf(n[i].ts))
  BY DEF Contiguous, n
<1>4. CASE i \in k..Len(n) - 1
  BY <1>1, <1>4 DEF Contiguous
<1>5. CASE i \notin k..Len(n) - 1
  <2>1. Len(n) >= 2 /\ k = Len(n) - 1 /\ i < Len(n) - 1
    BY <1>2, <1>3, <1>5
  <2>2. Len(n) \in {Len(s), Len(s) + 1} /\ \A j \in 1..Len(s) : n[j].ts = s[j].ts
    BY DEF Extends, n
  <2>3. i \in 1..Len(s) - 1 /\ i \in 1..Len(s) /\ i + 1 \in 1..Len(s)
    BY <1>2, <2>1, <2>2
  <2>4. n[i].ts = s[i].ts /\ n[i + 1].ts = s[i + 1].ts
    BY <2>2, <2>3
  <2> QED BY <2>3, <2>4 DEF Contiguous
<1> QED BY <1>4, <1>5

(* What an API call reports.                                                *)
LEMMA VerdictIs ==
  ASSUME NEW r, NEW types PROVE Verdict(r, types) \in Results
<1>1. CASE r.outcome = "timeout"
  BY <1>1 DEF Verdict, Results
<1>2. CASE r.outcome = "thrown"
  BY <1>2 DEF Verdict, Results
<1>3. CASE r.outcome \in {"mixed", "gap"}
  BY <1>3 DEF Verdict, Results
<1>4. CASE r.outcome \notin {"timeout", "thrown", "mixed", "gap"}
  BY <1>4 DEF Verdict, Results
<1> QED BY <1>1, <1>2, <1>3, <1>4

(* local_exp_num_nalus.at(V3C_VPS) -= 1.                                    *)
LEMMA CountedSizes ==
  ASSUME NEW sizes \in Sizes, NEW g PROVE CountVPS(sizes, g) \in Sizes
<1>1. SizeMax \in Nat
  BY ReceiverAssumption
<1>2. sizes \in [Types -> Nat] /\ \A t \in Types \ {VPS} : sizes[t] > 0
  BY DEF Sizes
<1>3. CASE VPS \in DOMAIN g.units /\ VPS \in Types
  <2> DEFINE v == IF sizes[VPS] = 0 THEN SizeMax ELSE sizes[VPS] - 1
             c == [sizes EXCEPT ![VPS] = v]
  <2>1. v \in Nat
    BY <1>1, <1>2, <1>3
  <2> HIDE DEF v
  <2>2. c \in [Types -> Nat] /\ \A t \in Types \ {VPS} : c[t] = sizes[t]
    BY <1>2, <2>1
  <2>3. CountVPS(sizes, g) = c
    BY <1>3 DEF CountVPS, v
  <2> HIDE DEF c
  <2> QED BY <1>2, <2>2, <2>3 DEF Sizes
<1>4. CASE VPS \in DOMAIN g.units /\ VPS \notin Types
  <2>1. CountVPS(sizes, g) = sizes
    BY <1>2, <1>4 DEF CountVPS
  <2> QED BY <2>1
<1>5. CASE VPS \notin DOMAIN g.units
  BY <1>5 DEF CountVPS
<1> QED BY <1>3, <1>4, <1>5

(* The application passes such sizes.                                       *)
LEMMA GivenSizes == UnitSizes \subseteq Sizes
BY ReceiverAssumption DEF Sizes

(* A new handle satisfies it.                                               *)
LEMMA InitInv == Init => Inv
<1> SUFFICES ASSUME Init PROVE Inv
  OBVIOUS
<1>1. /\ mode \in Modes /\ network = [t \in Types |-> DOMAIN Frames[t]]
      /\ socket = [t \in Types |-> <<>>] /\ buffer = [t \in Types |-> <<>>]
      /\ stream = InitStream /\ running = NoCall
      /\ last = [call |-> "init", result |-> "ok"] /\ calls = 0
  BY DEF Init
<1>2. ResultOk
  <2>1. MaxCalls \in Nat
    BY ReceiverAssumption
  <2> QED BY <1>1, <2>1 DEF ResultOk, Results
<1>3. QueuesOk
  <2>1. \A t \in Types : Frames[t] \in Seq(DOMAIN Instants)
    BY ReceiverAssumption
  <2>2. \A t \in Types : DOMAIN Frames[t] \subseteq Nat
    BY <2>1
  <2>3. NetworkOk
    BY <1>1, <2>2 DEF NetworkOk
  <2>4. socket \in Queues /\ buffer \in Buffers
    <3> DEFINE e == [t \in Types |-> <<>>]
    <3>1. e \in [Types -> Seq(Nalus)] /\ \A t \in Types : e[t] = <<>> /\ <<>> \in Seq(FramesOf(t))
      OBVIOUS
    <3>2. socket = e /\ buffer = e
      BY <1>1
    <3> HIDE DEF e
    <3> QED BY <3>1, <3>2 DEF Queues, Buffers
  <2> QED BY <2>3, <2>4 DEF QueuesOk
<1>4. StreamOk
  BY <1>1, Nothing DEF StreamOk, InitStream
<1>5. OkMeansContiguous
  <2>1. stream # NoData => stream = <<>>
    BY <1>1 DEF InitStream
  <2> QED BY <2>1 DEF OkMeansContiguous, Contiguous
<1> QED BY <1>2, <1>3, <1>4, <1>5 DEF Inv

(* A frame that arrives is queued.                                          *)
LEMMA ArrivalOk ==
  ASSUME QueuesOk, NEW t \in Types, NEW i \in network[t],
         network' = [network EXCEPT ![t] = @ \ {i}],
         socket' = [socket EXCEPT ![t] = Append(@, Frame(t, i))]
  PROVE  NetworkOk' /\ socket' \in Queues /\ i \in DOMAIN Frames[t] /\ Frame(t, i) \in FramesOf(t)
<1>1. network \in [Types -> SUBSET Nat] /\ \A x \in Types : network[x] \subseteq DOMAIN Frames[x]
  BY DEF QueuesOk, NetworkOk
<1>2. NetworkOk'
  BY <1>1 DEF NetworkOk
<1>3. i \in DOMAIN Frames[t] /\ Frame(t, i) \in FramesOf(t)
  BY <1>1 DEF FramesOf
<1>4. socket \in Queues /\ socket[t] \in Seq(FramesOf(t))
  BY DEF QueuesOk, Queues
<1>5. Append(socket[t], Frame(t, i)) \in Seq(FramesOf(t))
  BY <1>3, <1>4
<1>6. socket' \in Queues
  BY <1>4, <1>5, QueueSet
<1> QED BY <1>2, <1>3, <1>6

(* The first of the frames under way.                                       *)
LEMMA LeastExists ==
  ASSUME NEW S \in SUBSET Nat, S # {} PROVE Min(S) \in S /\ \A x \in S : Min(S) <= x
<1> DEFINE Least == \E x \in S : \A y \in S : x =< y
           D == {m \in Nat : (\E z \in S : z <= m) => Least}
<1>1. 0 \in D
  <2> SUFFICES ASSUME NEW z \in S, z <= 0 PROVE \A y \in S : z =< y
    OBVIOUS
  <2> QED OBVIOUS
<1>2. ASSUME NEW m \in D PROVE m + 1 \in D
  <2> SUFFICES ASSUME NEW z \in S, z <= m + 1, ~ Least PROVE FALSE
    OBVIOUS
  <2>1. \A x \in S : ~ (x <= m)
    OBVIOUS
  <2>2. z = m + 1 /\ \A y \in S : z =< y
    BY <2>1
  <2> QED BY <2>2
<1>3. D \in SUBSET Nat
  OBVIOUS
<1> HIDE DEF D
<1>4. D = Nat
  BY <1>1, <1>2, <1>3, SetInduction
<1> HIDE DEF Least
<1>5. PICK m \in S : TRUE
  OBVIOUS
<1>6. m \in D /\ m <= m
  BY <1>4, <1>5
<1>7. Least
  BY <1>5, <1>6 DEF D
<1> QED BY <1>7 DEF Least, Min

(* Frames that arrive, overtake or are lost.                                *)
LEMMA MovingInv ==
  ASSUME Inv, NEW t \in Types, Arrive(t) \/ Overtake(t) \/ Lose(t) PROVE Inv'
<1>1. ResultOk /\ QueuesOk /\ StreamOk /\ OkMeansContiguous
  BY DEF Inv
<1>2. UNCHANGED <<mode, buffer, stream, running, last, calls, clean>>
  BY DEF Arrive, Overtake, Lose
<1>3. ResultOk' /\ StreamOk' /\ OkMeansContiguous'
  BY <1>1, <1>2 DEF ResultOk, StreamOk, OkMeansContiguous, Contiguous
<1>4. network[t] \in SUBSET Nat
  BY <1>1 DEF QueuesOk, NetworkOk
<1>5. CASE Arrive(t)
  <2>1. /\ network[t] # {} /\ network' = [network EXCEPT ![t] = @ \ {Min(@)}]
        /\ socket' = [socket EXCEPT ![t] = Append(@, Frame(t, Min(network[t])))]
    BY <1>5 DEF Arrive
  <2>2. Min(network[t]) \in network[t]
    BY <1>4, <2>1, LeastExists
  <2>3. network' = [network EXCEPT ![t] = @ \ {Min(network[t])}]
    BY <2>1
  <2>4. NetworkOk' /\ socket' \in Queues
    BY <1>1, <2>1, <2>2, <2>3, ArrivalOk
  <2>5. QueuesOk'
    BY <1>1, <1>2, <2>4 DEF QueuesOk
  <2> QED BY <1>3, <2>5 DEF Inv
<1>6. CASE Overtake(t)
  <2>1. PICK i \in network[t] :
             /\ network' = [network EXCEPT ![t] = @ \ {i}]
             /\ socket' = [socket EXCEPT ![t] = Append(@, Frame(t, i))]
    BY <1>6 DEF Overtake
  <2>2. NetworkOk' /\ socket' \in Queues
    BY <1>1, <2>1, ArrivalOk
  <2>3. QueuesOk'
    BY <1>1, <1>2, <2>2 DEF QueuesOk
  <2> QED BY <1>3, <2>3 DEF Inv
<1>7. CASE Lose(t)
  <2>1. network' = [network EXCEPT ![t] = @ \ {Min(@)}] /\ socket' = socket
    BY <1>7 DEF Lose
  <2>2. network \in [Types -> SUBSET Nat] /\ \A x \in Types : network[x] \subseteq DOMAIN Frames[x]
    BY <1>1 DEF QueuesOk, NetworkOk
  <2>3. NetworkOk'
    BY <2>1, <2>2 DEF NetworkOk
  <2>4. QueuesOk'
    BY <1>1, <1>2, <2>1, <2>3 DEF QueuesOk
  <2> QED BY <1>3, <2>4 DEF Inv
<1> QED BY <1>5, <1>6, <1>7

(* receive_gof and receive_unit: r is what the call makes of its data.      *)
LEMMA CallInv ==
  ASSUME Inv, NEW call \in Modes, call # "bitstream", Begin(call), NEW types, NEW r,
         FiledOk(r, stream, buffer, socket), Install(r), Done(call, Verdict(r, types))
  PROVE  Inv'
<1>1. ResultOk /\ QueuesOk /\ StreamOk /\ OkMeansContiguous
  BY DEF Inv
<1>2. /\ mode = call /\ running = NoCall /\ calls < MaxCalls /\ calls' = calls + 1
      /\ UNCHANGED <<mode, network>>
  BY DEF Begin
<1>3. stream' = r.stream /\ socket' = r.socket /\ buffer' = r.buffer
  BY DEF Install
<1>4. /\ last' = [call |-> call, result |-> Verdict(r, types)] /\ running' = NoCall
      /\ clean' = (clean /\ Verdict(r, types) = "ok")
  BY DEF Done
<1>5. /\ r.stream \in Streams /\ r.socket \in Queues /\ r.buffer \in Buffers
      /\ Extends(stream, r.stream)
  BY DEF FiledOk
<1>6. stream \in Streams /\ NoData \notin Streams
  BY <1>1, <1>2, Nothing DEF StreamOk
<1>7. ResultOk'
  <2>1. MaxCalls \in Nat
    BY ReceiverAssumption
  <2>2. last'.result \in Results
    BY <1>4, VerdictIs
  <2> QED BY <1>1, <1>2, <2>1, <2>2 DEF ResultOk
<1>8. QueuesOk'
  BY <1>1, <1>2, <1>3, <1>5 DEF QueuesOk, NetworkOk
<1>9. StreamOk'
  BY <1>3, <1>4, <1>5 DEF StreamOk
<1>10. OkMeansContiguous'
  <2> SUFFICES ASSUME clean' PROVE Contiguous(stream, 1)'
    BY DEF OkMeansContiguous
  <2>1. Contiguous(stream, 1) /\ Verdict(r, types) = "ok"
    BY <1>1, <1>4, <1>6 DEF OkMeansContiguous
  <2>2. Contiguous(r.stream, 1)
    BY <1>5, <1>6, <2>1, Contiguity
  <2> QED BY <1>3, <2>2 DEF Contiguous
<1> QED BY <1>7, <1>8, <1>9, <1>10 DEF Inv

(* The data a call on one handle works on are well formed.                  *)
LEMMA CallData ==
  ASSUME Inv
  PROVE  /\ socket \in Queues /\ buffer \in Buffers /\ mode \in Modes
         /\ (mode # "bitstream" => stream \in Streams)
         /\ (running # NoCall =>
               /\ running.stream \in Streams /\ running.left \in Nat /\ running.sizes \in Sizes
               /\ stream = NoData)
BY Nothing DEF Inv, QueuesOk, ResultOk, StreamOk

(* receive_gof and receive_unit on well formed data.                        *)
LEMMA GofFiled ==
  ASSUME Inv, NEW s \in Streams, NEW sizes \in Sizes
  PROVE  FiledOk(FileGof(s, ReceivedGof(sizes)), s, buffer, socket)
<1>1. socket \in Queues /\ buffer \in Buffers
  BY CallData
<1>2. GofState(ReceivedGof(sizes), buffer, socket)
  BY <1>1, GofGood
<1> QED BY <1>1, <1>2, FileGofGood

LEMMA UnitFiled ==
  ASSUME Inv, NEW s \in Streams, NEW t \in Types, NEW sizes \in Sizes
  PROVE  FiledOk(FileUnit(s, t, Assemble(t, sizes[t], buffer[t], socket[t])), s, buffer, socket)
<1>1. socket \in Queues /\ buffer \in Buffers
  BY CallData
<1>2. sizes[t] \in Nat /\ (sizes[t] > 0 \/ t = VPS)
  BY DEF Sizes
<1> QED BY <1>1, <1>2, FileUnitGood

(* The two calls keep the invariant.                                        *)
LEMMA GofInv == ASSUME Inv, NEW sizes \in UnitSizes, ReceiveGof(sizes) PROVE Inv'
<1>1. Begin("gof")
  BY DEF ReceiveGof
<1>2. PICK r \in {FileGof(stream, ReceivedGof(sizes))} :
             Install(r) /\ Done("gof", Verdict(r, Types))
  BY DEF ReceiveGof
<1>3. mode = "gof" /\ "gof" \in Modes /\ stream \in Streams
  BY <1>1, CallData DEF Begin
<1>4. FiledOk(r, stream, buffer, socket)
  BY <1>2, <1>3, GofFiled, GivenSizes
<1> QED BY <1>1, <1>2, <1>3, <1>4, CallInv

LEMMA UnitInv ==
  ASSUME Inv, NEW sizes \in UnitSizes, NEW t \in Types, ReceiveUnit(t, sizes[t]) PROVE Inv'
<1>1. Begin("unit")
  BY DEF ReceiveUnit
<1>2. PICK r \in {FileUnit(stream, t, Assemble(t, sizes[t], buffer[t], socket[t]))} :
             Install(r) /\ Done("unit", Verdict(r, {t}))
  BY DEF ReceiveUnit
<1>3. mode = "unit" /\ "unit" \in Modes /\ stream \in Streams
  BY <1>1, CallData DEF Begin
<1>4. FiledOk(r, stream, buffer, socket)
  BY <1>2, <1>3, UnitFiled, GivenSizes
<1> QED BY <1>1, <1>2, <1>3, <1>4, CallInv

(* receive_bitstream begins with an empty stream of its own.                *)
LEMMA BeginInv ==
  ASSUME Inv, NEW sizes \in UnitSizes, NEW n \in GofCounts, BeginBitstream(n, sizes) PROVE Inv'
<1>1. ResultOk /\ QueuesOk /\ StreamOk /\ OkMeansContiguous
  BY DEF Inv
<1>2. /\ mode = "bitstream" /\ calls < MaxCalls /\ calls' = calls + 1 /\ stream = NoData
      /\ running' = [stream |-> <<>>, left |-> n, sizes |-> sizes]
      /\ UNCHANGED <<mode, network, socket, buffer, stream, last, clean>>
  BY DEF BeginBitstream, Begin
<1>3. n \in Nat /\ sizes \in Sizes /\ <<>> \in Streams /\ MaxCalls \in Nat
  BY ReceiverAssumption, GivenSizes, Nothing
<1>4. running' \in Calls
  BY <1>2, <1>3 DEF Calls
<1>5. ResultOk' /\ QueuesOk'
  BY <1>1, <1>2, <1>3 DEF ResultOk, QueuesOk, NetworkOk
<1>6. StreamOk'
  BY <1>2, <1>4 DEF StreamOk
<1>7. OkMeansContiguous'
  BY <1>2 DEF OkMeansContiguous
<1> QED BY <1>5, <1>6, <1>7 DEF Inv

(* receive_bitstream hands over its stream.                                 *)
LEMMA HandedOver ==
  ASSUME Inv, NEW s \in Streams, NEW buf, HandOver(s, buf), UNCHANGED <<mode, network, calls>>,
         socket' \in Queues, buffer' \in Buffers
  PROVE  Inv'
<1> DEFINE v == IF Leftover(buf, Types) \/ ~ Contiguous(s, 1) THEN "timestamp"
                ELSE IF s = <<>> THEN "invalid_it" ELSE "ok"
<1>1. ResultOk /\ QueuesOk
  BY DEF Inv
<1>2. /\ stream' = s /\ running' = NoCall /\ clean' = (clean /\ v = "ok")
      /\ last' = [call |-> "bitstream", result |-> v]
  BY DEF HandOver, Done
<1>3. v \in Results
  BY DEF Results
<1>4. v = "ok" => Contiguous(s, 1)
  OBVIOUS
<1> HIDE DEF v
<1>5. ResultOk'
  BY <1>1, <1>2, <1>3 DEF ResultOk
<1>6. QueuesOk'
  BY <1>1 DEF QueuesOk, NetworkOk
<1>7. StreamOk'
  BY <1>2 DEF StreamOk
<1>8. OkMeansContiguous'
  BY <1>2, <1>4 DEF OkMeansContiguous, Contiguous
<1> QED BY <1>5, <1>6, <1>7, <1>8 DEF Inv

(* A step of receive_bitstream.                                             *)
LEMMA BitstreamInv == ASSUME Inv, BitstreamStep PROVE Inv'
<1>1. ResultOk /\ QueuesOk /\ StreamOk /\ OkMeansContiguous
  BY DEF Inv
<1>2. running # NoCall /\ UNCHANGED <<mode, network, calls>>
  BY DEF BitstreamStep, BitstreamGof, BitstreamDone, Running
<1>3. /\ running.stream \in Streams /\ running.left \in Nat /\ running.sizes \in Sizes
      /\ stream = NoData /\ socket \in Queues /\ buffer \in Buffers
      /\ (mode # "bitstream" => stream \in Streams)
  BY <1>2, CallData
<1>4. CASE BitstreamDone
  <2>1. HandOver(running.stream, buffer) /\ socket' = socket /\ buffer' = buffer
    BY <1>4 DEF BitstreamDone
  <2> QED BY <1>2, <1>3, <2>1, HandedOver
<1>5. CASE BitstreamGof
  <2>1. PICK r \in {FileGof(running.stream, ReceivedGof(running.sizes))} :
             /\ socket' = r.socket /\ buffer' = r.buffer
             /\ \/ r.outcome = "timeout" /\ HandOver(running.stream, r.buffer)
                \/ /\ r.outcome \in {"mixed", "gap", "thrown"}
                   /\ Done("bitstream", Verdict(r, Types)) /\ UNCHANGED stream
                \/ /\ r.outcome = "filed"
                   /\ running' = [stream |-> r.stream, left |-> running.left - 1,
                                  sizes |-> CountVPS(running.sizes, Last(r.stream))]
                   /\ UNCHANGED <<stream, last, clean>>
    BY <1>5 DEF BitstreamGof
  <2>2. FiledOk(r, running.stream, buffer, socket)
    BY <1>3, <2>1, GofFiled
  <2>3. socket' \in Queues /\ buffer' \in Buffers /\ r.stream \in Streams
    BY <2>1, <2>2 DEF FiledOk
  <2>4. QueuesOk'
    BY <1>1, <1>2, <2>3 DEF QueuesOk, NetworkOk
  <2>5. CASE r.outcome = "timeout" /\ HandOver(running.stream, r.buffer)
    BY <1>2, <1>3, <2>3, <2>5, HandedOver
  <2>6. CASE /\ r.outcome \in {"mixed", "gap", "thrown"}
             /\ Done("bitstream", Verdict(r, Types)) /\ UNCHANGED stream
    <3>1. last'.result \in Results /\ running' = NoCall /\ stream' = NoData
      BY <1>3, <2>6, VerdictIs DEF Done
    <3>2. ResultOk'
      BY <1>1, <1>2, <3>1 DEF ResultOk
    <3>3. StreamOk' /\ OkMeansContiguous'
      BY <1>1, <1>2, <1>3, <3>1 DEF StreamOk, OkMeansContiguous
    <3> QED BY <2>4, <3>2, <3>3 DEF Inv
  <2>7. CASE /\ r.outcome = "filed"
             /\ running' = [stream |-> r.stream, left |-> running.left - 1,
                            sizes |-> CountVPS(running.sizes, Last(r.stream))]
             /\ UNCHANGED <<stream, last, clean>>
    <3>1. running.left > 0
      BY <1>5 DEF BitstreamGof
    <3>2. running.left - 1 \in Nat /\ CountVPS(running.sizes, Last(r.stream)) \in Sizes
      BY <1>3, <3>1, CountedSizes
    <3>3. running' \in Calls
      BY <2>3, <2>7, <3>2 DEF Calls
    <3>4. ResultOk'
      BY <1>1, <1>2, <2>7 DEF ResultOk
    <3>5. StreamOk' /\ OkMeansContiguous'
      BY <1>1, <1>2, <1>3, <2>7, <3>3 DEF StreamOk, OkMeansContiguous
    <3> QED BY <2>4, <3>4, <3>5 DEF Inv
  <2> QED BY <2>1, <2>5, <2>6, <2>7
<1> QED BY <1>4, <1>5 DEF BitstreamStep

(* clear_sample_stream.                                                     *)
LEMMA ClearInv == ASSUME Inv, ClearSampleStream PROVE Inv'
<1>1. ResultOk /\ QueuesOk /\ StreamOk
  BY DEF Inv
<1>2. /\ running = NoCall /\ calls < MaxCalls /\ stream' = InitStream
      /\ last' = [call |-> "clear", result |-> "ok"] /\ calls' = calls + 1
      /\ UNCHANGED <<mode, network, socket, buffer, running>>
  BY DEF ClearSampleStream
<1>3. MaxCalls \in Nat /\ <<>> \in Streams
  BY ReceiverAssumption, Nothing
<1>4. ResultOk' /\ QueuesOk'
  BY <1>1, <1>2, <1>3 DEF ResultOk, QueuesOk, NetworkOk, Results
<1>5. StreamOk'
  BY <1>2, <1>3 DEF StreamOk, InitStream
<1>6. OkMeansContiguous'
  <2>1. stream' # NoData => stream' = <<>>
    BY <1>2 DEF InitStream
  <2> QED BY <2>1 DEF OkMeansContiguous, Contiguous
<1> QED BY <1>4, <1>5, <1>6 DEF Inv

(* Every step.                                                              *)
LEMMA StepInv == ASSUME Inv, [Next]_vars PROVE Inv'
<1>1. CASE \E t \in Types : Arrive(t) \/ Overtake(t) \/ Lose(t)
  BY <1>1, MovingInv
<1>2. CASE \E sizes \in UnitSizes : ReceiveGof(sizes)
  BY <1>2, GofInv
<1>3. CASE \E sizes \in UnitSizes, t \in Types : ReceiveUnit(t, sizes[t])
  BY <1>3, UnitInv
<1>4. CASE \E sizes \in UnitSizes, n \in GofCounts : BeginBitstream(n, sizes)
  BY <1>4, BeginInv
<1>5. CASE BitstreamStep
  BY <1>5, BitstreamInv
<1>6. CASE ClearSampleStream
  BY <1>6, ClearInv
<1>7. CASE UNCHANGED vars
  BY <1>7 DEF vars, Inv, ResultOk, QueuesOk, NetworkOk, StreamOk, OkMeansContiguous, Contiguous
<1> QED BY <1>1, <1>2, <1>3, <1>4, <1>5, <1>6, <1>7 DEF Next

(* Every reachable state satisfies the invariant.                           *)
THEOREM ReceiverInvariant == Spec => []Inv
<1>1. Init => Inv
  BY InitInv
<1>2. Inv /\ [Next]_vars => Inv'
  BY StepInv
<1> QED BY <1>1, <1>2, PTL DEF Spec

(* As long as every call returned OK, the GoFs received are a frame apart.  *)
THEOREM OkContiguous == Spec => []OkMeansContiguous
<1>1. Inv => OkMeansContiguous
  BY DEF Inv
<1> QED BY <1>1, ReceiverInvariant, PTL

(* The data of the handle, whether a bitstream is being received or not.    *)
LEMMA DataStream == ASSUME Inv PROVE Data \in Streams
<1>1. CASE running # NoCall
  BY <1>1, CallData DEF Data
<1>2. CASE running = NoCall
  <2>1. stream \in Streams \cup {NoData}
    BY DEF Inv, StreamOk
  <2> QED BY <1>2, <2>1, Nothing DEF Data
<1> QED BY <1>1, <1>2

(* The queues hold frames of their own stream, GoFs units of the types.     *)
THEOREM TypesKept == Spec => []TypeOK
<1>1. ASSUME Inv PROVE TypeOK
  <2>1. /\ mode \in Modes /\ calls \in 0..MaxCalls /\ last.result \in Results
        /\ socket \in Queues /\ buffer \in Buffers /\ Data \in Streams
        /\ \A t \in Types : network[t] \subseteq DOMAIN Frames[t]
    BY <1>1, DataStream DEF Inv, ResultOk, QueuesOk, NetworkOk
  <2>2. ASSUME NEW t \in Types, NEW q \in {socket[t], buffer[t]}, NEW i \in DOMAIN q
        PROVE  q[i].id \in DOMAIN Frames[t] /\ q[i] = Frame(t, q[i].id)
    <3>1. q \in Seq(FramesOf(t))
      BY <2>1 DEF Buffers, Queues
    <3>2. q[i] \in FramesOf(t)
      BY <3>1
    <3> QED BY <3>2, FrameIs
  <2>3. ASSUME NEW k \in DOMAIN Data
        PROVE  Data[k].ts \in {Unset} \cup 0..Wrap - 1 /\ DOMAIN Data[k].units \subseteq Types
    <3>1. Data[k] \in GoodGofs
      BY <2>1 DEF Streams
    <3>2. Data[k] \in Gofs
      BY <3>1 DEF GoodGofs
    <3>3. Data[k].ts \in Stamps /\ DOMAIN Data[k].units \subseteq Types
      BY <3>2, GofFields
    <3> QED BY <3>3 DEF Stamps
  <2> QED BY <2>1, <2>2, <2>3 DEF TypeOK, Results
<1> QED BY <1>1, ReceiverInvariant, PTL

(* Every NALU is filed in a GoF of the instant it was sampled at.           *)
THEOREM ByInstant == Spec => []FiledByInstant
<1>1. ASSUME Inv PROVE FiledByInstant
  <2> SUFFICES ASSUME NEW k \in DOMAIN Data, ~ Padded(Data[k]), NEW t \in Types,
                      NEW id \in UnitIds(Data[k], t)
               PROVE  Data[k].ts = Frame(t, id).ts
    BY DEF FiledByInstant
  <2>1. Data[k] \in GoodGofs
    BY <1>1, DataStream DEF Streams
  <2>2. Exact(Data[k])
    BY <2>1 DEF GoodGofs
  <2>3. t \in DOMAIN Data[k].units /\ id \in Ids(Data[k].units[t].nalus)
    BY DEF UnitIds
  <2>4. UnitAt(Data[k].units[t], t, Data[k].ts)
    BY <2>2, <2>3 DEF Exact
  <2>5. PICK i \in DOMAIN Data[k].units[t].nalus : id = Data[k].units[t].nalus[i].id
    BY <2>3 DEF Ids
  <2> DEFINE n == Data[k].units[t].nalus[i]
  <2>6. n \in FramesOf(t) /\ n.ts = Data[k].ts
    BY <2>4, <2>5 DEF UnitAt
  <2>7. n = Frame(t, id)
    BY <2>5, <2>6, FrameIs
  <2> QED BY <2>6, <2>7
<1> QED BY <1>1, ReceiverInvariant, PTL

(***************************************************************************)
(* No NALU is in two places.                                               *)
(***************************************************************************)
Placed(s, f, h, net) ==
  \A x \in Types : /\ NewTo(s, x, f[x] \o h[x])
                   /\ net[x] \cap (FiledIn(s, x) \cup Ids(f[x] \o h[x])) = {}
AllPlaced == Placed(Data, buffer, socket, network)

(* A call keeps them apart, and the call that throws its stream away does.  *)
LEMMA KeptPlaced ==
  ASSUME NEW s, NEW f, NEW h, NEW net, NEW r, NEW f2, NEW h2,
         Placed(s, f, h, net), KeptApart(s, f, h, r, f2, h2)
  PROVE  Placed(r, f2, h2, net) /\ Placed(<<>>, f2, h2, net)
<1>1. Placed(r, f2, h2, net)
  BY DEF Placed, KeptApart
<1>2. \A x \in Types : ApartIn(<<>>, x) /\ FiledIn(<<>>, x) = {}
  BY DEF ApartIn, FiledIn
<1> QED BY <1>1, <1>2 DEF Placed, NewTo

(* A frame that arrives leaves the network.                                 *)
LEMMA ArrivedPlaced ==
  ASSUME QueuesOk, NEW s, Placed(s, buffer, socket, network), NEW t \in Types,
         NEW i \in network[t], network' = [network EXCEPT ![t] = @ \ {i}],
         socket' = [socket EXCEPT ![t] = Append(@, Frame(t, i))]
  PROVE  Placed(s, buffer, socket', network')
<1>1. /\ buffer \in Buffers /\ socket \in Queues /\ socket' \in Queues
      /\ network \in [Types -> SUBSET Nat] /\ i \in DOMAIN Frames[t]
  BY ArrivalOk DEF QueuesOk, NetworkOk
<1>2. ASSUME NEW x \in Types
      PROVE  /\ socket'[x] = IF x = t THEN Append(socket[t], Frame(t, i)) ELSE socket[x]
             /\ network'[x] = IF x = t THEN network[t] \ {i} ELSE network[x]
  BY <1>1 DEF Queues
<1> SUFFICES ASSUME NEW x \in Types
             PROVE  /\ NewTo(s, x, buffer[x] \o socket'[x])
                    /\ network'[x] \cap (FiledIn(s, x) \cup Ids(buffer[x] \o socket'[x])) = {}
  BY DEF Placed
<1>3. /\ NewTo(s, x, buffer[x] \o socket[x])
      /\ network[x] \cap (FiledIn(s, x) \cup Ids(buffer[x] \o socket[x])) = {}
  BY DEF Placed
<1>4. CASE x # t
  BY <1>2, <1>3, <1>4
<1>5. CASE x = t
  <2> DEFINE n == Frame(t, i)  q == socket[t]  p == Append(q, n)
  <2>1. q \in Seq(FramesOf(t)) /\ n \in FramesOf(t) /\ n.id = i
    <3>1. n.id = i
      BY DEF Frame
    <3> QED BY <1>1, <3>1, QueueOf DEF FramesOf
  <2>2. socket'[x] = p /\ network'[x] = network[t] \ {i}
    BY <1>2, <1>5
  <2> HIDE DEF n, q
  <2>3. Ids(p) = Ids(q) \cup {i} /\ (NoneTwice(p) <=> NoneTwice(q) /\ i \notin Ids(q))
    <3> DEFINE e == <<n>>
    <3>1. e \in Seq(FramesOf(t)) /\ p = q \o e
      BY <2>1
    <3>2. DOMAIN e = {1} /\ e[1] = n
      OBVIOUS
    <3>3. Ids(e) = {i} /\ NoneTwice(e)
      BY <2>1, <3>2 DEF Ids, NoneTwice
    <3> HIDE DEF e, p
    <3> QED BY <2>1, <3>1, <3>3, Joined
  <2>4. /\ Ids(buffer[t] \o q) = Ids(buffer[t]) \cup Ids(q)
        /\ NoneTwice(buffer[t] \o q)
             <=> NoneTwice(buffer[t]) /\ NoneTwice(q) /\ Ids(buffer[t]) \cap Ids(q) = {}
    BY <1>1, QueueOf DEF q
  <2>5. /\ Ids(buffer[t] \o socket'[t]) = Ids(buffer[t]) \cup Ids(socket'[t])
        /\ NoneTwice(buffer[t] \o socket'[t])
             <=> NoneTwice(buffer[t]) /\ NoneTwice(socket'[t])
                 /\ Ids(buffer[t]) \cap Ids(socket'[t]) = {}
    <3>1. \A h \in Queues :
             /\ Ids(buffer[t] \o h[t]) = Ids(buffer[t]) \cup Ids(h[t])
             /\ NoneTwice(buffer[t] \o h[t])
                  <=> NoneTwice(buffer[t]) /\ NoneTwice(h[t]) /\ Ids(buffer[t]) \cap Ids(h[t]) = {}
      BY <1>1, QueueOf
    <3> QED BY <1>1, <3>1
  <2>6. i \notin FiledIn(s, t) /\ i \notin Ids(buffer[t]) /\ i \notin Ids(q)
    BY <1>3, <1>5, <2>4 DEF q
  <2> QED BY <1>3, <1>5, <2>2, <2>3, <2>4, <2>5, <2>6 DEF NewTo, q
<1> QED BY <1>4, <1>5

(* At first all NALUs are in the network.                                   *)
LEMMA InitPlaced == Init => AllPlaced
<1> SUFFICES ASSUME Init PROVE AllPlaced
  OBVIOUS
<1>1. /\ socket = [t \in Types |-> <<>>] /\ buffer = [t \in Types |-> <<>>]
      /\ stream = InitStream /\ running = NoCall
  BY DEF Init
<1>2. Data = <<>>
  BY <1>1 DEF Data, InitStream
<1>3. \A x \in Types : ApartIn(<<>>, x) /\ FiledIn(<<>>, x) = {}
  BY DEF ApartIn, FiledIn
<1>4. <<>> \o <<>> = <<>> /\ Ids(<<>>) = {} /\ NoneTwice(<<>>)
  BY DEF Ids, NoneTwice
<1>5. \A x \in Types : buffer[x] \o socket[x] = <<>>
  BY <1>1, <1>4
<1> QED BY <1>2, <1>3, <1>4, <1>5 DEF AllPlaced, Placed, NewTo

(* Every step keeps the places apart.                                       *)
LEMMA StepPlaced == ASSUME Inv, AllPlaced, [Next]_vars PROVE AllPlaced'
<1>1. QueuesOk /\ NoData \notin Streams /\ <<>> \in Streams
  BY Nothing DEF Inv
<1>2. Placed(Data, buffer, socket, network)
  BY DEF AllPlaced
<1>3. Placed(<<>>, buffer, socket, network)
  BY <1>2, KeptPlaced, SameApart
<1>4. ASSUME NEW t \in Types, Arrive(t) \/ Overtake(t) \/ Lose(t) PROVE AllPlaced'
  <2>1. Data' = Data /\ buffer' = buffer
    BY <1>4 DEF Arrive, Overtake, Lose, Data
  <2>2. network[t] \in SUBSET Nat
    BY <1>1 DEF QueuesOk, NetworkOk
  <2>3. CASE Arrive(t)
    <3>1. /\ network[t] # {} /\ network' = [network EXCEPT ![t] = @ \ {Min(@)}]
          /\ socket' = [socket EXCEPT ![t] = Append(@, Frame(t, Min(network[t])))]
      BY <2>3 DEF Arrive
    <3>2. Min(network[t]) \in network[t]
      BY <2>2, <3>1, LeastExists
    <3>3. network' = [network EXCEPT ![t] = @ \ {Min(network[t])}]
      BY <3>1
    <3>4. Placed(Data, buffer, socket', network')
      BY <1>1, <1>2, <3>1, <3>2, <3>3, ArrivedPlaced
    <3> QED BY <2>1, <3>4 DEF AllPlaced
  <2>4. CASE Overtake(t)
    <3>1. PICK i \in network[t] :
               /\ network' = [network EXCEPT ![t] = @ \ {i}]
               /\ socket' = [socket EXCEPT ![t] = Append(@, Frame(t, i))]
      BY <2>4 DEF Overtake
    <3>2. Placed(Data, buffer, socket', network')
      BY <1>1, <1>2, <3>1, ArrivedPlaced
    <3> QED BY <2>1, <3>2 DEF AllPlaced
  <2>5. CASE Lose(t)
    <3>1. network' = [network EXCEPT ![t] = @ \ {Min(@)}] /\ socket' = socket
      BY <2>5 DEF Lose
    <3>2. network \in [Types -> SUBSET Nat]
      BY <1>1 DEF QueuesOk, NetworkOk
    <3>3. \A x \in Types : network'[x] \subseteq network[x]
      BY <3>1, <3>2
    <3>4. Placed(Data, buffer, socket, network')
      BY <1>2, <3>3 DEF Placed
    <3> QED BY <2>1, <3>1, <3>4 DEF AllPlaced
  <2> QED BY <1>4, <2>3, <2>4, <2>5
<1>5. ASSUME NEW r, mode # "bitstream", running = NoCall, running' = NoCall, Install(r),
             FiledOk(r, stream, buffer, socket), UNCHANGED network
      PROVE  AllPlaced'
  <2>1. stream \in Streams /\ r.stream \in Streams
    BY <1>5, CallData DEF FiledOk
  <2>2. Data = stream /\ Data' = r.stream
    BY <1>1, <1>5, <2>1 DEF Data, Install
  <2>3. Placed(r.stream, r.buffer, r.socket, network)
    BY <1>2, <1>5, <2>2, KeptPlaced DEF FiledOk
  <2> QED BY <1>5, <2>2, <2>3 DEF AllPlaced, Install
<1>6. ASSUME NEW sizes \in UnitSizes, ReceiveGof(sizes) PROVE AllPlaced'
  <2>1. mode = "gof" /\ running = NoCall /\ UNCHANGED network
    BY <1>6 DEF ReceiveGof, Begin
  <2>2. PICK r \in {FileGof(stream, ReceivedGof(sizes))} :
             Install(r) /\ Done("gof", Verdict(r, Types))
    BY <1>6 DEF ReceiveGof
  <2>3. FiledOk(r, stream, buffer, socket)
    BY <2>1, <2>2, CallData, GofFiled, GivenSizes
  <2>4. running' = NoCall
    BY <2>2 DEF Done
  <2> QED BY <1>5, <2>1, <2>2, <2>3, <2>4
<1>7. ASSUME NEW sizes \in UnitSizes, NEW t \in Types, ReceiveUnit(t, sizes[t]) PROVE AllPlaced'
  <2>1. mode = "unit" /\ running = NoCall /\ UNCHANGED network
    BY <1>7 DEF ReceiveUnit, Begin
  <2>2. PICK r \in {FileUnit(stream, t, Assemble(t, sizes[t], buffer[t], socket[t]))} :
             Install(r) /\ Done("unit", Verdict(r, {t}))
    BY <1>7 DEF ReceiveUnit
  <2>3. FiledOk(r, stream, buffer, socket)
    BY <2>1, <2>2, CallData, UnitFiled, GivenSizes
  <2>4. running' = NoCall
    BY <2>2 DEF Done
  <2> QED BY <1>5, <2>1, <2>2, <2>3, <2>4
<1>8. ASSUME NEW sizes \in UnitSizes, NEW n \in GofCounts, BeginBitstream(n, sizes)
      PROVE  AllPlaced'
  <2>1. /\ running' = [stream |-> <<>>, left |-> n, sizes |-> sizes]
        /\ UNCHANGED <<network, socket, buffer, stream>> /\ running = NoCall /\ stream = NoData
    BY <1>8 DEF BeginBitstream, Begin
  <2>2. n \in Nat /\ sizes \in Sizes
    BY ReceiverAssumption, GivenSizes
  <2>3. running' \in Calls
    BY <1>1, <2>1, <2>2 DEF Calls
  <2>4. running' # NoCall /\ running'.stream = <<>>
    BY <2>1, <2>3, Nothing
  <2>5. Data' = <<>>
    BY <2>4 DEF Data
  <2> QED BY <1>3, <2>1, <2>5 DEF AllPlaced
<1>9. ASSUME BitstreamStep PROVE AllPlaced'
  <2>1. running # NoCall /\ UNCHANGED network
    BY <1>9 DEF BitstreamStep, BitstreamGof, BitstreamDone, Running
  <2>2. /\ running.stream \in Streams /\ running.left \in Nat /\ running.sizes \in Sizes
        /\ stream = NoData /\ Data = running.stream
    BY <2>1, CallData DEF Data
  <2>3. ASSUME NEW buf, HandOver(running.stream, buf) PROVE Data' = running.stream
    <3>1. stream' = running.stream /\ running' = NoCall
      BY <2>3 DEF HandOver, Done
    <3> QED BY <1>1, <2>2, <3>1 DEF Data
  <2>4. CASE BitstreamDone
    <3>1. HandOver(running.stream, buffer) /\ socket' = socket /\ buffer' = buffer
      BY <2>4 DEF BitstreamDone
    <3>2. Data' = Data
      BY <2>2, <2>3, <3>1
    <3> QED BY <1>2, <2>1, <3>1, <3>2 DEF AllPlaced
  <2>5. CASE BitstreamGof
    <3>1. PICK r \in {FileGof(running.stream, ReceivedGof(running.sizes))} :
               /\ socket' = r.socket /\ buffer' = r.buffer
               /\ \/ r.outcome = "timeout" /\ HandOver(running.stream, r.buffer)
                  \/ /\ r.outcome \in {"mixed", "gap", "thrown"}
                     /\ Done("bitstream", Verdict(r, Types)) /\ UNCHANGED stream
                  \/ /\ r.outcome = "filed"
                     /\ running' = [stream |-> r.stream, left |-> running.left - 1,
                                    sizes |-> CountVPS(running.sizes, Last(r.stream))]
                     /\ UNCHANGED <<stream, last, clean>>
      BY <2>5 DEF BitstreamGof
    <3>2. FiledOk(r, running.stream, buffer, socket)
      BY <2>2, <3>1, GofFiled
    <3>3. Placed(r.stream, buffer', socket', network') /\ Placed(<<>>, buffer', socket', network')
      BY <1>2, <2>1, <2>2, <3>1, <3>2, KeptPlaced DEF FiledOk
    <3>4. CASE r.outcome = "timeout" /\ HandOver(running.stream, r.buffer)
      <4>1. Data' = r.stream
        BY <2>3, <3>2, <3>4 DEF FiledOk
      <4> QED BY <3>3, <4>1 DEF AllPlaced
    <3>5. CASE /\ r.outcome \in {"mixed", "gap", "thrown"}
               /\ Done("bitstream", Verdict(r, Types)) /\ UNCHANGED stream
      <4>1. Data' = <<>>
        BY <2>2, <3>5 DEF Data, Done
      <4> QED BY <3>3, <4>1 DEF AllPlaced
    <3>6. CASE /\ r.outcome = "filed"
               /\ running' = [stream |-> r.stream, left |-> running.left - 1,
                              sizes |-> CountVPS(running.sizes, Last(r.stream))]
               /\ UNCHANGED <<stream, last, clean>>
      <4>1. running.left > 0
        BY <2>5 DEF BitstreamGof
      <4>2. running.left - 1 \in Nat /\ CountVPS(running.sizes, Last(r.stream)) \in Sizes
        BY <2>2, <4>1, CountedSizes
      <4>3. running' \in Calls /\ running'.stream = r.stream
        BY <3>2, <3>6, <4>2 DEF Calls, FiledOk
      <4>4. Data' = r.stream
        BY <4>3, Nothing DEF Data
      <4> QED BY <3>3, <4>4 DEF AllPlaced
    <3> QED BY <3>1, <3>4, <3>5, <3>6
  <2> QED BY <1>9, <2>4, <2>5 DEF BitstreamStep
<1>10. ASSUME ClearSampleStream PROVE AllPlaced'
  <2>1. stream' = InitStream /\ running' = NoCall /\ UNCHANGED <<mode, network, socket, buffer>>
    BY <1>10 DEF ClearSampleStream
  <2>2. Data' = <<>>
    BY <2>1 DEF Data, InitStream
  <2> QED BY <1>3, <2>1, <2>2 DEF AllPlaced
<1>11. CASE UNCHANGED vars
  <2>1. Data' = Data
    BY <1>11 DEF vars, Data
  <2> QED BY <1>2, <1>11, <2>1 DEF vars, AllPlaced
<1> QED BY <1>4, <1>6, <1>7, <1>8, <1>9, <1>10, <1>11 DEF Next

(* A NALU is in one place only: on its way, queued, buffered, or in one     *)
(* unit of the stream.                                                      *)
THEOREM PlacedOnce == Spec => []NothingTwice
<1>1. Init => Inv /\ AllPlaced
  BY InitInv, InitPlaced
<1>2. (Inv /\ AllPlaced) /\ [Next]_vars => (Inv /\ AllPlaced)'
  BY StepInv, StepPlaced
<1>3. ASSUME Inv, AllPlaced PROVE NothingTwice
  <2> DEFINE Ends(t) == <<network[t], Ids(socket[t]), Ids(buffer[t])>>
             Filings(t) == [k \in DOMAIN Data |-> UnitIds(Data[k], t)]
             Places(t) == Ends(t) \o Filings(t)
  <2> SUFFICES ASSUME NEW t \in Types, NEW i \in DOMAIN Places(t), NEW j \in DOMAIN Places(t), i # j
               PROVE  Places(t)[i] \cap Places(t)[j] = {}
    BY DEF NothingTwice
  <2> DEFINE q == Filings(t)  d == Data
  <2>1. d \in Streams /\ Len(d) \in Nat /\ DOMAIN d = 1..Len(d)
    BY <1>3, DataStream DEF Streams
  <2>2. q = [k \in 1..Len(d) |-> UnitIds(d[k], t)]
    BY <2>1
  <2> HIDE DEF d
  <2>3. Len(q) = Len(d) /\ DOMAIN q = 1..Len(d) /\ \A k \in 1..Len(d) : q[k] = UnitIds(d[k], t)
    BY <2>1, <2>2
  <2>4. /\ network[t] \cap (FiledIn(d, t) \cup Ids(buffer[t] \o socket[t])) = {}
        /\ NewTo(d, t, buffer[t] \o socket[t])
    BY <1>3 DEF AllPlaced, Placed, d
  <2>5. /\ Ids(buffer[t] \o socket[t]) = Ids(buffer[t]) \cup Ids(socket[t])
        /\ NoneTwice(buffer[t] \o socket[t]) => Ids(buffer[t]) \cap Ids(socket[t]) = {}
    BY <1>3, CallData, QueueOf
  <2>6. \A k, l \in 1..Len(d) : k # l => q[k] \cap q[l] = {}
    BY <2>3, <2>4 DEF NewTo, ApartIn
  <2>7. \A k \in 1..Len(d) : q[k] \subseteq FiledIn(d, t)
    BY <2>3 DEF FiledIn
  <2> DEFINE a == network[t]  b == Ids(socket[t])  c == Ids(buffer[t])  p == <<a, b, c>> \o q
  <2>8. a \cap b = {} /\ a \cap c = {} /\ b \cap c = {}
    BY <2>4, <2>5 DEF NewTo
  <2>9. \A k \in 1..Len(d) : a \cap q[k] = {} /\ b \cap q[k] = {} /\ c \cap q[k] = {}
    BY <2>4, <2>5, <2>7 DEF NewTo
  <2>10. i \in DOMAIN p /\ j \in DOMAIN p /\ Places(t) = p
    OBVIOUS
  <2> HIDE DEF a, b, c
  <2>11. q \in Seq({UnitIds(d[k], t) : k \in 1..Len(d)})
    BY <2>1, <2>2
  <2> HIDE DEF q
  <2>12. /\ p[1] = a /\ p[2] = b /\ p[3] = c /\ Len(p) = 3 + Len(d) /\ DOMAIN p = 1..3 + Len(d)
         /\ \A k \in 4..3 + Len(d) : p[k] = q[k - 3]
    BY <2>1, <2>3, <2>11
  <2> HIDE DEF p, Places
  <2>13. p[i] \cap p[j] = {}
    <3>1. CASE i <= 3 /\ j <= 3
      BY <2>8, <2>10, <2>12, <3>1
    <3>2. CASE i <= 3 /\ j > 3
      <4>1. j - 3 \in 1..Len(d) /\ p[j] = q[j - 3] /\ p[i] \in {a, b, c}
        BY <2>1, <2>10, <2>12, <3>2
      <4> QED BY <2>9, <4>1
    <3>3. CASE i > 3 /\ j <= 3
      <4>1. i - 3 \in 1..Len(d) /\ p[i] = q[i - 3] /\ p[j] \in {a, b, c}
        BY <2>1, <2>10, <2>12, <3>3
      <4> QED BY <2>9, <4>1
    <3>4. CASE i > 3 /\ j > 3
      <4>1. i - 3 \in 1..Len(d) /\ p[i] = q[i - 3] /\ j - 3 \in 1..Len(d) /\ p[j] = q[j - 3]
        BY <2>1, <2>10, <2>12, <3>4
      <4>2. i - 3 # j - 3
        BY <2>1, <2>10, <2>12
      <4> QED BY <2>6, <4>1, <4>2
    <3>5. i \in Nat /\ j \in Nat
      BY <2>1, <2>10, <2>12
    <3> QED BY <3>1, <3>2, <3>3, <3>4, <3>5
  <2> QED BY <2>10, <2>13
<1>4. Inv /\ AllPlaced => NothingTwice
  BY <1>3
<1> QED BY <1>1, <1>2, <1>4, PTL DEF Spec

(***************************************************************************)
(* What a call loses.  Of each type, the NALUs in the stream s, the buffers *)
(* f and the queues h; after a call all but those in L are there.           *)
(***************************************************************************)
Inside(s, f, h, x) == FiledIn(s, x) \cup Ids(f[x]) \cup Ids(h[x])
Loses(s, f, h, r, f2, h2, L) ==
  \A x \in Types : Inside(s, f, h, x) \subseteq Inside(r, f2, h2, x) \cup L[x]
None == [x \in Types |-> {}]

(* A step that leaves the stream as it is.                                  *)
LEMMA SameKeeps == ASSUME NEW s PROVE SameShape(s, s) /\ KeepsFiled(s, s)
BY DEF SameShape, KeepsFiled

(* Two steps that keep the instants of GoFs and units.                      *)
LEMMA ShapeTrans ==
  ASSUME NEW s, NEW r, NEW p, SameShape(s, r), SameShape(r, p) PROVE SameShape(s, p)
<1>1. /\ Len(r) = Len(s) /\ Len(p) = Len(r)
      /\ \A k \in 1..Len(s) :
           /\ r[k].ts = s[k].ts /\ DOMAIN r[k].units = DOMAIN s[k].units
           /\ \A x \in DOMAIN s[k].units : r[k].units[x].ts = s[k].units[x].ts
      /\ \A k \in 1..Len(r) :
           /\ p[k].ts = r[k].ts /\ DOMAIN p[k].units = DOMAIN r[k].units
           /\ \A x \in DOMAIN r[k].units : p[k].units[x].ts = r[k].units[x].ts
  BY DEF SameShape
<1>2. ASSUME NEW k \in 1..Len(s)
      PROVE  /\ p[k].ts = s[k].ts /\ DOMAIN p[k].units = DOMAIN s[k].units
             /\ \A x \in DOMAIN s[k].units : p[k].units[x].ts = s[k].units[x].ts
  BY <1>1
<1> QED BY <1>1, <1>2 DEF SameShape

(* The loop over a buffer: what was popped is filed or kept, but for a NALU *)
(* that threw.                                                              *)
Lost(a, t, q) == Popped(q, a) \ (FiledIn(a.stream, t) \cup Ids(a.kept))
Threw(s, o, t, n) == t # VPS /\ n \in FramesOf(t) /\ (o = "mixed" => Clash(s, t, n))
OfferKeeps(a, s, t, q) ==
  /\ SameShape(s, a.stream) /\ KeepsFiled(s, a.stream)
  /\ a.outcome = "filed" => Lost(a, t, q) = {}
  /\ a.outcome # "filed" =>
       \E n \in FramesOf(t) : Threw(a.stream, a.outcome, t, n) /\ Lost(a, t, q) \subseteq {n.id}

(* One NALU is filed, kept, or lost by throwing.                            *)
LEMMA OfferKept ==
  ASSUME NEW t \in Types, t # VPS, NEW s \in Streams, NEW q \in Seq(FramesOf(t)),
         NEW k \in 1..Len(q), NEW a, OfferState(a, k - 1, s, t, q), OfferKeeps(a, s, t, q)
  PROVE  OfferKeeps(Offer(a, t, q[k]), s, t, q)
<1> DEFINE n == q[k]  p == PushNalu(a.stream, t, n)  b == Offer(a, t, n)
<1>1. /\ a \in Offers(t) /\ (a.outcome = "filed" => a.popped = k - 1)
      /\ SameShape(s, a.stream) /\ KeepsFiled(s, a.stream)
      /\ (a.outcome = "filed" => Lost(a, t, q) = {})
  BY DEF OfferState, OfferKeeps
<1>2. /\ n \in FramesOf(t) /\ k \in Nat /\ a.stream \in Streams /\ a.kept \in Seq(FramesOf(t))
  BY <1>1 DEF Offers
<1> HIDE DEF n
<1>3. /\ (a.outcome # "filed" => b = a)
      /\ a.outcome = "filed" =>
           /\ b.stream = p.stream /\ b.popped = a.popped + 1
           /\ b.kept = IF p.outcome = "refused" THEN Append(a.kept, n) ELSE a.kept
  BY <1>1, <1>2, OfferIs
<1>4. /\ p.outcome \in {"refused", "thrown", "mixed", "pushed"}
      /\ p.outcome # "pushed" => p.stream = a.stream
      /\ SameShape(a.stream, p.stream) /\ KeepsFiled(a.stream, p.stream)
      /\ p.outcome = "pushed" => n.id \in FiledIn(p.stream, t)
      /\ p.outcome = "mixed" => Clash(a.stream, t, n)
  BY <1>2, PushNaluGood
<1>5. a.outcome = "filed" => b.outcome = AfterNalu(p)
  BY DEF Offer, Offered
<1> HIDE DEF b, p
<1>6. CASE a.outcome # "filed"
  <2>1. b = a
    BY <1>3, <1>6
  <2> QED BY <2>1 DEF b, n
<1>7. CASE a.outcome = "filed"
  <2>1. b.stream = p.stream /\ b.popped = k /\ a.popped = k - 1
        /\ b.kept = IF p.outcome = "refused" THEN Append(a.kept, n) ELSE a.kept
    BY <1>1, <1>2, <1>3, <1>7
  <2>2. SameShape(s, b.stream) /\ KeepsFiled(s, b.stream)
    <3>1. SameShape(s, p.stream)
      BY <1>1, <1>4, ShapeTrans
    <3>2. KeepsFiled(s, p.stream)
      BY <1>1, <1>4 DEF KeepsFiled
    <3> QED BY <2>1, <3>1, <3>2
  <2> DEFINE A == FiledIn(a.stream, t)  B == FiledIn(b.stream, t)  P == Popped(q, a)
             K == Ids(a.kept)  N == Ids(b.kept)
  <2>3. Popped(q, b) = P \cup {n.id}
    <3>1. 1..k = (1..(k - 1)) \cup {k}
      BY <1>2
    <3> QED BY <2>1, <3>1 DEF Popped, n
  <2>4. P \subseteq A \cup K /\ A \subseteq B
    BY <1>1, <1>4, <1>7, <2>1 DEF Lost, KeepsFiled
  <2>5. K \subseteq N /\ (p.outcome = "refused" => n.id \in N)
    <3>1. CASE p.outcome = "refused"
      <4> DEFINE w == a.kept  r == Append(w, n)
      <4>1. /\ DOMAIN r = DOMAIN w \cup {Len(w) + 1}
            /\ r[Len(w) + 1] = n /\ \A i \in DOMAIN w : r[i] = w[i]
        BY <1>2
      <4>2. b.kept = r
        BY <2>1, <3>1
      <4> HIDE DEF w, r
      <4>3. Ids(w) \subseteq Ids(r) /\ n.id \in Ids(r)
        BY <4>1 DEF Ids
      <4> QED BY <4>2, <4>3 DEF w
    <3>2. CASE p.outcome # "refused"
      BY <2>1, <3>2
    <3> QED BY <3>1, <3>2
  <2>6. Lost(b, t, q) \subseteq {n.id}
        /\ (n.id \in B \cup N => Lost(b, t, q) = {})
    <3> HIDE DEF A, B, P, K, N
    <3>1. Lost(b, t, q) = (P \cup {n.id}) \ (B \cup N)
      BY <2>3 DEF Lost, B, N
    <3> QED BY <2>4, <2>5, <3>1
  <2>7. CASE p.outcome \in {"refused", "pushed"}
    <3>1. b.outcome = "filed" /\ n.id \in B \cup N
      BY <1>4, <1>5, <1>7, <2>1, <2>5, <2>7 DEF AfterNalu
    <3> QED BY <2>2, <2>6, <3>1 DEF OfferKeeps, b, n
  <2>8. CASE p.outcome \in {"thrown", "mixed"}
    <3>1. b.outcome = p.outcome /\ b.outcome # "filed" /\ b.stream = a.stream
      BY <1>4, <1>5, <1>7, <2>1, <2>8 DEF AfterNalu
    <3>2. Threw(b.stream, b.outcome, t, n)
      BY <1>2, <1>4, <3>1 DEF Threw
    <3> QED BY <1>2, <2>2, <2>6, <3>1, <3>2 DEF OfferKeeps, b, n
  <2> QED BY <1>4, <2>7, <2>8
<1> QED BY <1>6, <1>7

(* The whole loop.                                                          *)
LEMMA OffersKept ==
  ASSUME NEW t \in Types, NEW s \in Streams, NEW q \in Seq(FramesOf(t)), t # VPS \/ q = <<>>
  PROVE  OfferKeeps(OfferAll(s, t, q), s, t, q)
<1>1. PICK f : OfferLoop(f, s, t, q)
  BY OfferLoops
<1>2. /\ f[0] = StartOffer(s) /\ \A k \in 1..Len(q) : f[k] = Offer(f[k - 1], t, q[k])
      /\ OfferAll(s, t, q) = f[Len(q)] /\ Len(q) \in Nat /\ Len(q) \in 0..Len(q)
      /\ f \in [0..Len(q) -> Offers(t)] /\ 0 \in 0..Len(q)
  BY <1>1 DEF OfferLoop
<1> DEFINE Ok(a, k) == OfferState(a, k, s, t, q) /\ OfferKeeps(a, s, t, q)
<1>3. Ok(f[0], 0)
  <2>1. f[0].stream = s /\ f[0].outcome = "filed" /\ f[0].popped = 0 /\ f[0].kept = <<>>
    BY <1>2 DEF StartOffer
  <2>2. f[0] \in Offers(t)
    BY <1>2
  <2>3. Extends(s, s) /\ SameShape(s, s) /\ KeepsFiled(s, s)
    BY Untouched, SameKeeps
  <2>4. NewTo(s, t, q) => OfferOnce(f[0], s, t, q)
    BY <2>1 DEF NewTo, OfferOnce, NoneTwice, Ids
  <2>5. Lost(f[0], t, q) = {}
    BY <2>1 DEF Lost, Popped
  <2> QED BY <2>1, <2>2, <2>3, <2>4, <2>5 DEF OfferState, OfferKeeps
<1> DEFINE S == [k \in 0..Len(q) |-> {a \in Offers(t) : Ok(a, k)}]
<1>4. \A k \in 0..Len(q) : \A a : a \in S[k] <=> Ok(a, k)
  BY DEF OfferState
<1> HIDE DEF S, Ok
<1>5. f[0] \in S[0]
  BY <1>2, <1>3, <1>4
<1>6. ASSUME NEW k \in 1..Len(q), f[k - 1] \in S[k - 1] PROVE f[k] \in S[k]
  <2>1. k \in 0..Len(q) /\ k - 1 \in 0..Len(q)
    BY <1>2
  <2>2. Ok(f[k - 1], k - 1)
    BY <1>4, <1>6, <2>1
  <2>3. Ok(f[k], k)
    <3>1. t # VPS
      BY <1>2
    <3>2. OfferState(f[k - 1], k - 1, s, t, q) /\ OfferKeeps(f[k - 1], s, t, q)
      BY <2>2 DEF Ok
    <3>3. OfferState(f[k], k, s, t, q)
      BY <1>2, <3>1, <3>2, OfferRound
    <3>4. OfferKeeps(f[k], s, t, q)
      BY <1>2, <3>1, <3>2, OfferKept
    <3> QED BY <3>3, <3>4 DEF Ok
  <2> QED BY <1>4, <2>1, <2>3
<1>7. f[Len(q)] \in S[Len(q)]
  BY <1>2, <1>5, <1>6, Rounds
<1> QED BY <1>2, <1>4, <1>7 DEF Ok

(* push_buffer_to_sample_stream loses nothing, or one NALU that threw.      *)
ThrewOne(s, f, h, r, f2, h2, o, types) ==
  \E t \in types : \E n \in FramesOf(t) :
    Threw(r, o, t, n) /\ Loses(s, f, h, r, f2, h2, Only(t, {n.id}))
PushKeeps(a, s, f, h, types) ==
  /\ SameShape(s, a.stream)
  /\ a.outcome = "filed" => Loses(s, f, h, a.stream, a.buffer, h, None)
  /\ a.outcome # "filed" => ThrewOne(s, f, h, a.stream, a.buffer, h, a.outcome, types)

(* Nothing was lost before, so what is lost now is all.                     *)
LEMMA LosesTrans ==
  ASSUME NEW s, NEW f, NEW h, NEW r, NEW f2, NEW h2, NEW p, NEW f3, NEW h3, NEW L,
         Loses(s, f, h, r, f2, h2, None), Loses(r, f2, h2, p, f3, h3, L)
  PROVE  Loses(s, f, h, p, f3, h3, L)
<1> SUFFICES ASSUME NEW x \in Types
             PROVE  Inside(s, f, h, x) \subseteq Inside(p, f3, h3, x) \cup L[x]
  BY DEF Loses
<1>1. None[x] = {}
  BY DEF None
<1>2. /\ Inside(s, f, h, x) \subseteq Inside(r, f2, h2, x) \cup None[x]
      /\ Inside(r, f2, h2, x) \subseteq Inside(p, f3, h3, x) \cup L[x]
  BY DEF Loses
<1> QED BY <1>1, <1>2

(* What stays as it is loses nothing.                                       *)
LEMMA SameLoses == ASSUME NEW s, NEW f, NEW h, NEW L PROVE Loses(s, f, h, s, f, h, L)
BY DEF Loses

(* The buffer of one type is tried.                                         *)
LEMMA PushBufferKept ==
  ASSUME NEW t \in Types, NEW a \in Pushes, NEW h, a.outcome = "filed"
  PROVE  PushKeeps(PushBuffer(a, t), a.stream, a.buffer, h, {t})
<1> DEFINE s == a.stream  f == a.buffer  q == f[t]  o == OfferAll(s, t, q)
           d == Drop(q, o.popped)  w == d \o o.kept  f2 == [f EXCEPT ![t] = w]
           b == PushBuffer(a, t)
<1>1. s \in Streams /\ f \in Buffers /\ f \in Queues
  BY DEF Pushes, Buffers
<1>2. q \in Seq(FramesOf(t)) /\ (t # VPS \/ q = <<>>) /\ f \in [Types -> Seq(Nalus)]
  BY <1>1 DEF Buffers, Queues
<1> HIDE DEF q
<1>3. OfferState(o, Len(q), s, t, q) /\ OfferKeeps(o, s, t, q)
  BY <1>1, <1>2, OffersGood, OffersKept
<1>4. b.stream = o.stream /\ b.outcome = o.outcome /\ b.buffer = f2
  BY DEF PushBuffer, AfterOffer, q
<1> HIDE DEF o, b, s, f
<1>5. /\ o.kept \in Seq(FramesOf(t)) /\ o.popped \in Nat /\ o.popped <= Len(q)
      /\ SameShape(s, o.stream) /\ KeepsFiled(s, o.stream)
      /\ o.outcome = "filed" => Lost(o, t, q) = {}
      /\ o.outcome # "filed" =>
           \E n \in FramesOf(t) :
             Threw(o.stream, o.outcome, t, n) /\ Lost(o, t, q) \subseteq {n.id}
  BY <1>3 DEF OfferState, Offers, OfferKeeps
<1>6. d \in Seq(FramesOf(t)) /\ Ids(d) = {q[i].id : i \in (o.popped + 1)..Len(q)}
  BY <1>2, <1>5, Dropped
<1> HIDE DEF d
<1>7. Ids(w) = Ids(d) \cup Ids(o.kept)
  BY <1>5, <1>6, Joined
<1> HIDE DEF w
<1>8. \A x \in Types : f2[x] = IF x = t THEN w ELSE f[x]
  BY <1>2
<1> HIDE DEF f2
<1>9. Ids(q) \subseteq Popped(q, o) \cup Ids(d)
  <2>1. DOMAIN q = 1..Len(q) /\ Len(q) \in Nat
    BY <1>2
  <2>2. \A i \in DOMAIN q : i \in 1..o.popped \/ i \in (o.popped + 1)..Len(q)
    BY <1>5, <2>1
  <2> QED BY <1>6, <2>2 DEF Popped, Ids
<1>10. ASSUME NEW L, Lost(o, t, q) \subseteq L[t] PROVE Loses(s, f, h, o.stream, f2, h, L)
  <2> SUFFICES ASSUME NEW x \in Types
               PROVE  Inside(s, f, h, x) \subseteq Inside(o.stream, f2, h, x) \cup L[x]
    BY DEF Loses
  <2>1. FiledIn(s, x) \subseteq FiledIn(o.stream, x)
    BY <1>5 DEF KeepsFiled
  <2>2. CASE x # t
    BY <1>8, <2>1, <2>2 DEF Inside
  <2>3. CASE x = t
    <3> DEFINE A == FiledIn(o.stream, t)  P == Popped(q, o)  D == Ids(d)  K == Ids(o.kept)
    <3>1. P \subseteq A \cup K \cup L[t]
      BY <1>10 DEF Lost
    <3>2. Ids(f2[t]) = D \cup K /\ Ids(f[t]) \subseteq P \cup D
      BY <1>7, <1>8, <1>9 DEF q
    <3> HIDE DEF A, P, D, K
    <3>3. Ids(f[t]) \subseteq A \cup Ids(f2[t]) \cup L[t]
      BY <3>1, <3>2
    <3> QED BY <2>1, <2>3, <3>3 DEF Inside, A
  <2> QED BY <2>2, <2>3
<1>11. ASSUME b.outcome = "filed" PROVE Loses(s, f, h, b.stream, b.buffer, h, None)
  <2>1. Lost(o, t, q) \subseteq None[t]
    BY <1>4, <1>5, <1>11
  <2> DEFINE L == None
  <2> HIDE DEF L
  <2>2. Loses(s, f, h, o.stream, f2, h, L)
    BY <1>10, <2>1 DEF L
  <2> QED BY <1>4, <2>2 DEF L
<1>12. ASSUME b.outcome # "filed"
       PROVE  ThrewOne(s, f, h, b.stream, b.buffer, h, b.outcome, {t})
  <2>1. PICK n \in FramesOf(t) :
               Threw(o.stream, o.outcome, t, n) /\ Lost(o, t, q) \subseteq {n.id}
    BY <1>4, <1>5, <1>12
  <2> DEFINE L == Only(t, {n.id})
  <2>2. L[t] = {n.id}
    BY DEF Only
  <2> HIDE DEF L
  <2>3. Loses(s, f, h, o.stream, f2, h, L)
    BY <1>10, <2>1, <2>2
  <2> QED BY <1>4, <2>1, <2>3 DEF ThrewOne, L
<1> QED BY <1>4, <1>5, <1>11, <1>12 DEF PushKeeps, b, s, f

(* One round of the loop over the types, and all of them.                   *)
LEMMA PushKept ==
  ASSUME NEW s \in Streams, NEW f, NEW h, NEW t, NEW types \in SUBSET Types, NEW a \in Pushes,
         PushKeeps(a, s, f, h, types)
  PROVE  PushKeeps(PushTo(a, t, types), s, f, h, types)
<1>1. CASE t \notin types \/ a.outcome # "filed"
  <2>1. PushTo(a, t, types) = a
    BY <1>1 DEF PushTo, PushBuffer
  <2> QED BY <2>1
<1>2. CASE t \in types /\ a.outcome = "filed"
  <2> DEFINE b == PushBuffer(a, t)
  <2>1. PushTo(a, t, types) = b
    BY <1>2 DEF PushTo
  <2>2. PushKeeps(b, a.stream, a.buffer, h, {t})
    BY <1>2, PushBufferKept
  <2> HIDE DEF b
  <2>3. SameShape(s, a.stream) /\ Loses(s, f, h, a.stream, a.buffer, h, None)
    BY <1>2 DEF PushKeeps
  <2>4. SameShape(s, b.stream)
    BY <2>2, <2>3, ShapeTrans DEF PushKeeps
  <2>5. ASSUME b.outcome = "filed" PROVE Loses(s, f, h, b.stream, b.buffer, h, None)
    BY <2>2, <2>3, <2>5, LosesTrans DEF PushKeeps
  <2>6. ASSUME b.outcome # "filed"
        PROVE  ThrewOne(s, f, h, b.stream, b.buffer, h, b.outcome, types)
    <3>1. PICK n \in FramesOf(t) :
                 /\ Threw(b.stream, b.outcome, t, n)
                 /\ Loses(a.stream, a.buffer, h, b.stream, b.buffer, h, Only(t, {n.id}))
      BY <2>2, <2>6 DEF PushKeeps, ThrewOne
    <3>2. Loses(s, f, h, b.stream, b.buffer, h, Only(t, {n.id}))
      BY <2>3, <3>1, LosesTrans
    <3> QED BY <1>2, <3>1, <3>2 DEF ThrewOne
  <2> QED BY <2>1, <2>4, <2>5, <2>6 DEF PushKeeps
<1> QED BY <1>1, <1>2

(* All rounds.                                                              *)
LEMMA PushesKept ==
  ASSUME NEW s \in Streams, NEW buf \in Buffers, NEW h, NEW types \in SUBSET Types
  PROVE  PushKeeps(PushBuffers(s, buf, types), s, buf, h, types)
<1>1. PICK f : PushLoop(f, s, buf, types)
  BY PushLoops
<1>2. /\ f \in [0..NumTypes -> Pushes] /\ f[0] = [stream |-> s, buffer |-> buf, outcome |-> "filed"]
      /\ \A k \in 1..NumTypes : f[k] = PushTo(f[k - 1], k - 1, types)
      /\ PushBuffers(s, buf, types) = f[NumTypes]
      /\ NumTypes \in Nat /\ NumTypes \in 0..NumTypes /\ 0 \in 0..NumTypes
  BY <1>1 DEF PushLoop, NumTypes
<1> DEFINE S == {a \in Pushes : PushKeeps(a, s, buf, h, types)}
<1>3. PushKeeps(f[0], s, buf, h, types)
  <2>1. f[0].stream = s /\ f[0].buffer = buf /\ f[0].outcome = "filed"
    BY <1>2
  <2> QED BY <2>1, SameKeeps, SameLoses DEF PushKeeps
<1>4. f[0] \in S
  BY <1>2, <1>3
<1>5. ASSUME NEW k \in 1..NumTypes, f[k - 1] \in S PROVE f[k] \in S
  <2>1. k - 1 \in 0..NumTypes /\ k \in 0..NumTypes
    BY <1>2
  <2> DEFINE a == f[k - 1]  i == k - 1
  <2>2. a \in Pushes /\ PushKeeps(a, s, buf, h, types) /\ f[k] = PushTo(a, i, types)
        /\ f[k] \in Pushes
    BY <1>2, <1>5, <2>1
  <2> HIDE DEF a, i
  <2>3. PushKeeps(PushTo(a, i, types), s, buf, h, types)
    BY <2>2, PushKept
  <2> QED BY <2>2, <2>3
<1> HIDE DEF S
<1>6. f[NumTypes] \in S
  BY <1>2, <1>4, <1>5, Stays
<1> QED BY <1>2, <1>6 DEF S

(* receive_gof: a GoF that has a timestamp has a frame of it.               *)
Dated(g) ==
  IsSet(g.ts) => \E x \in DOMAIN g.units : \E n \in FramesOf(x) :
                   n.ts = g.ts /\ n.id \in UnitIds(g, x)

(* A unit of a new type joins the GoF with all its NALUs.                   *)
LEMMA SetKeeps ==
  ASSUME NEW t \in Types, NEW g \in GoodGofs \cup {EmptyGof}, NEW u \in Received(t),
         GofAccepts(g, u), t \notin DOMAIN g.units, Dated(g)
  PROVE  LET h == GofSet(g, t, u)
         IN /\ DOMAIN h.units = DOMAIN g.units \cup {t} /\ Dated(h)
            /\ \A x \in Types : UnitIds(g, x) \subseteq UnitIds(h, x)
            /\ Ids(u.nalus) \subseteq UnitIds(h, t)
<1> DEFINE h == GofSet(g, t, u)
<1>1. /\ DOMAIN h.units = DOMAIN g.units \cup {t}
      /\ \A x \in DOMAIN g.units : h.units[x] = g.units[x]
      /\ Ids(h.units[t].nalus) = Ids(u.nalus)
  BY SetGood
<1>2. h.ts = IF g = EmptyGof THEN u.ts ELSE g.ts
  BY SetUnit
<1> HIDE DEF h
<1>3. /\ \A x \in Types : UnitIds(g, x) \subseteq UnitIds(h, x)
      /\ Ids(u.nalus) \subseteq UnitIds(h, t)
  BY <1>1 DEF UnitIds
<1>4. Dated(h)
  <2>1. CASE g = EmptyGof /\ IsSet(u.ts)
    <3>1. u.nalus \in Seq(FramesOf(t)) /\ (\A i \in DOMAIN u.nalus : u.nalus[i].ts = u.ts)
          /\ u.nalus # <<>>
      BY <2>1, ReceivedIsUnit DEF Received, IsSet
    <3> DEFINE n == u.nalus[1]
    <3>2. 1 \in DOMAIN u.nalus
      BY <3>1
    <3>3. n \in FramesOf(t) /\ n.ts = u.ts
      BY <3>1, <3>2
    <3>4. n.id \in Ids(u.nalus)
      BY <3>2 DEF Ids
    <3> HIDE DEF n
    <3> QED BY <1>1, <1>2, <1>3, <2>1, <3>3, <3>4 DEF Dated
  <2>2. CASE g = EmptyGof /\ ~ IsSet(u.ts)
    BY <1>2, <2>2 DEF Dated
  <2>3. CASE g # EmptyGof
    <3> SUFFICES ASSUME IsSet(h.ts)
                 PROVE  \E x \in DOMAIN h.units : \E n \in FramesOf(x) :
                          n.ts = h.ts /\ n.id \in UnitIds(h, x)
      BY DEF Dated
    <3>1. h.ts = g.ts
      BY <1>2, <2>3
    <3>2. PICK x \in DOMAIN g.units : \E n \in FramesOf(x) : n.ts = g.ts /\ n.id \in UnitIds(g, x)
      BY <3>1 DEF Dated
    <3>3. DOMAIN g.units \subseteq Types
      BY SetUnit
    <3> QED BY <1>1, <1>3, <3>1, <3>2, <3>3
  <2> QED BY <2>1, <2>2, <2>3
<1> QED BY <1>1, <1>3, <1>4 DEF h

(* As long as no unit is refused, all that left the queues is in the GoF;   *)
(* when one is, frames of two instants are lost.                            *)
Queued(f, h, x) == Ids(f[x]) \cup Ids(h[x])
Left(f, h, f2, h2, x, n) ==
  n \in FramesOf(x) /\ n.id \in Queued(f, h, x) /\ n.id \notin Queued(f2, h2, x)
SeveralLeft(f, h, f2, h2) ==
  \E x, y \in Types : \E n, m : /\ Left(f, h, f2, h2, x, n) /\ Left(f, h, f2, h2, y, m)
                                /\ n.ts # m.ts
GofKeeps(a, k, f, h) ==
  /\ \A x \in DOMAIN a.gof.units : x < k
  /\ Dated(a.gof)
  /\ a.ok => \A x \in Types :
                Queued(f, h, x) \subseteq UnitIds(a.gof, x) \cup Queued(a.buffer, a.socket, x)
  /\ ~ a.ok => SeveralLeft(f, h, a.buffer, a.socket)

(* The types of a GoF are numbers.                                          *)
LEMMA TypesOf ==
  ASSUME NEW g \in GoodGofs \cup {EmptyGof}
  PROVE  DOMAIN g.units \subseteq Types /\ DOMAIN g.units \subseteq Nat
<1>1. Types \subseteq Nat
  BY ReceiverAssumption DEF NumTypes
<1>2. CASE g = EmptyGof
  BY <1>2 DEF EmptyGof
<1>3. CASE g \in GoodGofs
  BY <1>1, <1>3, GofFields DEF GoodGofs
<1> QED BY <1>2, <1>3

(* One type of receive_gof.                                                 *)
LEMMA AddKept ==
  ASSUME NEW t \in Types, NEW n \in Nat, n > 0 \/ t = VPS, NEW f \in Buffers, NEW h \in Queues,
         \A x \in Types : NoneTwice(f[x] \o h[x]),
         NEW a, GofState(a, f, h), GofKeeps(a, t, f, h)
  PROVE  GofKeeps(AddUnit(a, t, n), t + 1, f, h)
<1> DEFINE g == a.gof  p == a.buffer  q == a.socket  r == Assemble(t, n, p[t], q[t])
           p2 == [p EXCEPT ![t] = r.buffer]  q2 == [q EXCEPT ![t] = r.socket]
           ok == GofAccepts(g, r.unit)
           g2 == IF ok THEN GofSet(g, t, r.unit) ELSE EmptyGof
           b == AddUnit(a, t, n)
<1>1. /\ g \in GoodGofs \cup {EmptyGof} /\ q \in Queues /\ p \in Buffers
      /\ Taking(g, p, q, f, h)
  BY DEF GofState, Accs
<1>2. /\ \A x \in DOMAIN g.units : x < t
      /\ Dated(g)
      /\ a.ok => \A x \in Types : Queued(f, h, x) \subseteq UnitIds(g, x) \cup Queued(p, q, x)
  BY DEF GofKeeps
<1>3. DOMAIN g.units \subseteq Types /\ DOMAIN g.units \subseteq Nat /\ t \in Nat
  <2>1. t \in Nat
    BY ReceiverAssumption DEF NumTypes
  <2> HIDE DEF g
  <2> QED BY <1>1, <2>1, TypesOf
<1>4. \A x \in DOMAIN g.units : x < t + 1
  <2> SUFFICES ASSUME NEW x \in DOMAIN g.units PROVE x < t + 1
    OBVIOUS
  <2>1. x < t /\ x \in Nat
    BY <1>2, <1>3
  <2> QED BY <1>3, <2>1
<1>5. CASE ~ a.ok \/ r.timeout
  <2>1. b = a
    BY <1>5 DEF AddUnit, AddReceived
  <2> HIDE DEF b
  <2> QED BY <1>4, <2>1 DEF GofKeeps, b
<1>6. CASE ~ (~ a.ok \/ r.timeout)
  <2>1. b.gof = g2 /\ b.socket = q2 /\ b.buffer = p2 /\ b.ok = ok
    BY <1>6 DEF AddUnit, AddReceived
  <2> HIDE DEF p, q, g, b
  <2>2. /\ p[t] \in Seq(FramesOf(t)) /\ (t = VPS => p[t] = <<>>) /\ q[t] \in Seq(FramesOf(t))
    BY <1>1, QueueOf
  <2>3. /\ r.unit \in Received(t)
        /\ r.buffer \in Seq(FramesOf(t)) /\ (t = VPS => r.buffer = <<>>)
        /\ r.socket \in Seq(FramesOf(t)) /\ Once(r, p[t], q[t])
        /\ Ids(p[t]) \cup Ids(q[t])
             \subseteq Ids(r.unit.nalus) \cup Ids(r.buffer) \cup Ids(r.socket)
    BY <1>6, <2>2, AssembleGood
  <2> DEFINE u == r.unit
  <2> HIDE DEF r
  <2>4. p2 \in Buffers /\ \A x \in Types : p2[x] = IF x = t THEN r.buffer ELSE p[x]
    BY <1>1, <2>3, BufferSet
  <2>5. q2 \in Queues /\ \A x \in Types : q2[x] = IF x = t THEN r.socket ELSE q[x]
    BY <1>1, <2>3, QueueSet
  <2> HIDE DEF p2, q2
  <2>6. \A x \in Types : Queued(p2, q2, x)
                           = IF x = t THEN Ids(r.buffer) \cup Ids(r.socket) ELSE Queued(p, q, x)
    BY <2>4, <2>5 DEF Queued
  <2>7. ASSUME NEW x \in Types
        PROVE  /\ NoneTwice(p[x] \o q[x]) /\ UnitIds(g, x) \cap Queued(p, q, x) = {}
               /\ UnitIds(g, x) \cup Queued(p, q, x) \subseteq Queued(f, h, x)
    <3>1. p \in Buffers /\ q \in Queues /\ f \in Buffers /\ h \in Queues
      BY <1>1
    <3>2. Ids(p[x] \o q[x]) = Queued(p, q, x)
      BY <3>1, QueueIds, Zenon DEF Queued
    <3>3. Ids(f[x] \o h[x]) = Queued(f, h, x)
      BY <3>1, QueueIds, Zenon DEF Queued
    <3> QED BY <1>1, <3>2, <3>3 DEF Taking
  <2>8. /\ Ids(u.nalus) \cap (Ids(r.buffer) \cup Ids(r.socket)) = {}
        /\ Ids(u.nalus) \subseteq Queued(p, q, t)
    <3>1. Ids(r.buffer \o r.socket) = Ids(r.buffer) \cup Ids(r.socket)
      BY <2>3, Joined
    <3>2. Ids(p[t] \o q[t]) = Queued(p, q, t)
      BY <1>1, QueueOf DEF Queued
    <3> QED BY <2>3, <2>7, <3>1, <3>2 DEF Once
  <2>9. t \notin DOMAIN g.units
    BY <1>2, <1>3
  <2>10. CASE ok
    <3>1. g2 = GofSet(g, t, u)
      BY <2>10
    <3> HIDE DEF g2
    <3>2. /\ DOMAIN g2.units = DOMAIN g.units \cup {t} /\ Dated(g2)
          /\ \A x \in Types : UnitIds(g, x) \subseteq UnitIds(g2, x)
          /\ Ids(u.nalus) \subseteq UnitIds(g2, t)
      BY <1>1, <1>2, <2>3, <2>9, <2>10, <3>1, SetKeeps
    <3>3. \A x \in DOMAIN g2.units : x < t + 1
      <4>1. t < t + 1
        BY <1>3
      <4> QED BY <1>4, <3>2, <4>1
    <3>4. ASSUME NEW x \in Types
          PROVE  Queued(f, h, x) \subseteq UnitIds(g2, x) \cup Queued(p2, q2, x)
      <4>1. Queued(f, h, x) \subseteq UnitIds(g, x) \cup Queued(p, q, x)
        BY <1>2, <1>6
      <4>2. CASE x = t
        <5>1. Queued(p, q, t) \subseteq Ids(u.nalus) \cup Queued(p2, q2, t)
          BY <2>3, <2>6 DEF Queued
        <5> QED BY <3>2, <4>1, <4>2, <5>1
      <4>3. CASE x # t
        BY <2>6, <3>2, <4>1, <4>3
      <4> QED BY <4>2, <4>3
    <3> HIDE DEF ok
    <3> QED BY <2>1, <2>10, <3>2, <3>3, <3>4 DEF GofKeeps, b
  <2>11. CASE ~ ok
    <3>1. g2 = EmptyGof
      BY <2>11
    <3>2. DOMAIN g2.units = {} /\ ~ IsSet(g2.ts)
      BY <3>1 DEF EmptyGof, IsSet
    <3> HIDE DEF g2
    <3>3. IsSet(g.ts) /\ IsSet(u.ts) /\ u.ts # g.ts
      BY <2>11 DEF GofAccepts
    <3>4. PICK x \in DOMAIN g.units : \E m \in FramesOf(x) : m.ts = g.ts /\ m.id \in UnitIds(g, x)
      BY <1>2, <3>3 DEF Dated
    <3>5. PICK m \in FramesOf(x) : m.ts = g.ts /\ m.id \in UnitIds(g, x)
      BY <3>4
    <3>6. x \in Types /\ x # t
      BY <1>3, <2>9, <3>4
    <3>7. Left(f, h, p2, q2, x, m)
      BY <2>6, <2>7, <3>5, <3>6 DEF Left
    <3> DEFINE l == u.nalus[1]
    <3>8. u.nalus \in Seq(FramesOf(t)) /\ (\A i \in DOMAIN u.nalus : u.nalus[i].ts = u.ts)
          /\ u.nalus # <<>>
      BY <2>3, <3>3, ReceivedIsUnit DEF Received, IsSet
    <3>9. 1 \in DOMAIN u.nalus
      BY <3>8
    <3>10. l \in FramesOf(t) /\ l.ts = u.ts
      BY <3>8, <3>9
    <3>11. l.id \in Ids(u.nalus)
      BY <3>9 DEF Ids
    <3> HIDE DEF l, ok
    <3>12. Left(f, h, p2, q2, t, l)
      BY <2>6, <2>7, <2>8, <3>10, <3>11 DEF Left
    <3>13. SeveralLeft(f, h, p2, q2)
      BY <3>3, <3>5, <3>6, <3>7, <3>10, <3>12 DEF SeveralLeft
    <3> QED BY <2>1, <2>11, <3>2, <3>13 DEF GofKeeps, Dated, b
  <2> QED BY <2>10, <2>11
<1> QED BY <1>5, <1>6

(* All rounds.                                                              *)
LEMMA GofKept ==
  ASSUME socket \in Queues, buffer \in Buffers, NEW sizes \in Sizes,
         \A x \in Types : NoneTwice(buffer[x] \o socket[x])
  PROVE  GofKeeps(ReceivedGof(sizes), NumTypes, buffer, socket)
<1>1. PICK w : GofLoop(w, sizes)
  BY GofLoops
<1>2. /\ w \in [0..NumTypes -> Accs] /\ w[0] = StartGof
      /\ \A k \in 1..NumTypes : w[k] = AddTo(w[k - 1], k - 1, sizes)
      /\ ReceivedGof(sizes) = w[NumTypes]
      /\ NumTypes \in Nat /\ NumTypes \in 0..NumTypes /\ 0 \in 0..NumTypes
  BY <1>1 DEF GofLoop, NumTypes
<1> DEFINE f == buffer  h == socket
           Ok(a, k) == GofState(a, f, h) /\ GofKeeps(a, k, f, h)
           S == [k \in 0..NumTypes |-> {a \in Accs : Ok(a, k)}]
<1>3. \A k \in 0..NumTypes : \A a : a \in S[k] <=> Ok(a, k)
  BY DEF GofState
<1> HIDE DEF S
<1>4. w[0].gof = EmptyGof /\ w[0].buffer = f /\ w[0].socket = h /\ w[0].ok = TRUE /\ w[0] \in Accs
  <2>1. w[0] = [gof |-> EmptyGof, socket |-> h, buffer |-> f, ok |-> TRUE] /\ w[0] \in Accs
    BY <1>2 DEF StartGof
  <2> HIDE DEF f, h
  <2> QED BY <2>1
<1>5. f \in Buffers /\ h \in Queues /\ \A x \in Types : NoneTwice(f[x] \o h[x])
  OBVIOUS
<1> HIDE DEF f, h
<1>6. Ok(w[0], 0)
  <2>1. (\A x : UnitIds(EmptyGof, x) = {}) /\ DOMAIN EmptyGof.units = {} /\ ~ IsSet(EmptyGof.ts)
    BY DEF UnitIds, EmptyGof, IsSet
  <2>2. Taking(EmptyGof, f, h, f, h)
    BY <2>1 DEF Taking
  <2>3. Dated(EmptyGof)
    BY <2>1 DEF Dated
  <2> QED BY <1>4, <2>1, <2>2, <2>3 DEF GofState, GofKeeps
<1>7. ASSUME NEW k \in 1..NumTypes, w[k - 1] \in S[k - 1] PROVE w[k] \in S[k]
  <2> DEFINE i == k - 1  a == w[i]
  <2>1. k \in 0..NumTypes /\ i \in 0..NumTypes /\ i \in Nat /\ k = i + 1
    BY <1>2
  <2>2. w[k] = AddTo(a, i, sizes)
    BY <1>2
  <2>3. Ok(a, i)
    BY <1>3, <1>7, <2>1
  <2> HIDE DEF i, a
  <2>4. a \in Accs /\ GofState(a, f, h) /\ GofKeeps(a, i, f, h)
    BY <2>3 DEF GofState
  <2>5. GofState(AddTo(a, i, sizes), f, h)
    BY <2>4, AddRound
  <2>6. GofKeeps(AddTo(a, i, sizes), k, f, h)
    <3>1. CASE i \in Types
      <4> DEFINE n == sizes[i]
      <4>1. n \in Nat /\ (n > 0 \/ i = VPS) /\ AddTo(a, i, sizes) = AddUnit(a, i, n)
        BY <3>1 DEF Sizes, AddTo
      <4> HIDE DEF n
      <4> QED BY <1>5, <2>1, <2>4, <3>1, <4>1, AddKept
    <3>2. CASE i \notin Types
      <4>1. a.gof \in GoodGofs \cup {EmptyGof}
        BY <2>4 DEF Accs
      <4>2. ASSUME NEW x \in DOMAIN a.gof.units PROVE x < k
        <5>1. x \in Nat
          BY <4>1, TypesOf
        <5>2. x < i
          BY <2>4 DEF GofKeeps
        <5> QED BY <2>1, <5>1, <5>2
      <4> QED BY <2>4, <3>2, <4>2 DEF GofKeeps, AddTo
    <3> QED BY <3>1, <3>2
  <2> QED BY <1>3, <2>1, <2>2, <2>5, <2>6
<1> HIDE DEF Ok
<1>8. w[0] \in S[0]
  BY <1>2, <1>3, <1>6
<1>9. w[NumTypes] \in S[NumTypes]
  BY <1>2, <1>7, <1>8, Rounds
<1> QED BY <1>2, <1>3, <1>9 DEF Ok, f, h

(* What was received is pushed, then the buffers are tried.                 *)
LEMMA AfterPushKept ==
  ASSUME NEW p, p.stream \in Streams, NEW f \in Buffers, NEW h, NEW types \in SUBSET Types
  PROVE  LET r == AfterPush(p, h, f, types)
         IN /\ r.socket = h /\ SameShape(p.stream, r.stream)
            /\ \/ /\ r.outcome \in {"gap", "filed"}
                  /\ Loses(p.stream, f, h, r.stream, r.buffer, h, None)
               \/ /\ r.outcome \in {"thrown", "mixed"}
                  /\ ThrewOne(p.stream, f, h, r.stream, r.buffer, h, r.outcome, types)
<1> DEFINE r == AfterPush(p, h, f, types)  b == PushBuffers(p.stream, f, types)
<1>1. CASE p.ok
  <2>1. /\ r.stream = b.stream /\ r.socket = h /\ r.buffer = b.buffer /\ r.outcome = b.outcome
    BY <1>1 DEF AfterPush, AfterBuffers
  <2>2. PushState(b, p.stream, f) /\ PushKeeps(b, p.stream, f, h, types)
    BY PushesGood, PushesKept
  <2> HIDE DEF b, r
  <2>3. b.outcome \in {"filed", "thrown", "mixed"}
    BY <2>2 DEF PushState, Pushes
  <2>4. /\ SameShape(p.stream, b.stream)
        /\ b.outcome = "filed" => Loses(p.stream, f, h, b.stream, b.buffer, h, None)
        /\ b.outcome # "filed" =>
             ThrewOne(p.stream, f, h, b.stream, b.buffer, h, b.outcome, types)
    BY <2>2 DEF PushKeeps
  <2> QED BY <2>1, <2>3, <2>4 DEF r
<1>2. CASE ~ p.ok
  <2>1. r.stream = p.stream /\ r.socket = h /\ r.buffer = f /\ r.outcome = "gap"
    BY <1>2 DEF AfterPush
  <2> HIDE DEF r
  <2> QED BY <2>1, SameKeeps, SameLoses DEF r
<1> QED BY <1>1, <1>2

(* receive_gof, with the GoF g received from the buffers f and queues h.    *)
GofLoses(r, s, f, h) ==
  \/ /\ r.outcome \in {"timeout", "gap", "filed"}
     /\ Loses(s, f, h, r.stream, r.buffer, r.socket, None)
  \/ /\ r.outcome \in {"thrown", "mixed"}
     /\ ThrewOne(s, f, h, r.stream, r.buffer, r.socket, r.outcome, Types)
  \/ r.outcome = "mixed" /\ r.stream = s /\ SeveralLeft(f, h, r.buffer, r.socket)

(* The GoF is filed, or refused with frames of two instants.                *)
LEMMA FileGofKept ==
  ASSUME NEW s \in Streams, NEW f \in Buffers, NEW h \in Queues,
         NEW g, GofState(g, f, h), GofKeeps(g, NumTypes, f, h)
  PROVE  GofLoses(FileGof(s, g), s, f, h)
<1> DEFINE r == FileGof(s, g)
<1>1. /\ g.gof \in GoodGofs \cup {EmptyGof} /\ g.socket \in Queues /\ g.buffer \in Buffers
      /\ g.ok => \A x \in Types :
                   Queued(f, h, x) \subseteq UnitIds(g.gof, x) \cup Queued(g.buffer, g.socket, x)
      /\ ~ g.ok => SeveralLeft(f, h, g.buffer, g.socket)
  BY DEF GofState, Accs, GofKeeps
<1>2. CASE g.ok /\ g.gof.units # <<>>
  <2> DEFINE p == PushGof(s, g.gof)
  <2>1. r = AfterPush(p, g.socket, g.buffer, Types)
    BY <1>2 DEF FileGof
  <2>2. g.gof \in GoodGofs /\ Len(s) \in Nat
    BY <1>1, <1>2 DEF EmptyGof, Streams
  <2>3. /\ p.stream \in Streams /\ Len(p.stream) = Len(s) + 1
        /\ \A j \in 1..Len(s) : p.stream[j] = s[j]
        /\ \A x \in Types : UnitIds(p.stream[Len(s) + 1], x) = UnitIds(g.gof, x)
    BY <2>2, PushGofGood
  <2> HIDE DEF p, r
  <2>4. Loses(s, f, h, p.stream, g.buffer, g.socket, None)
    <3> SUFFICES ASSUME NEW x \in Types
                 PROVE  Inside(s, f, h, x)
                          \subseteq Inside(p.stream, g.buffer, g.socket, x) \cup None[x]
      BY DEF Loses
    <3>1. Len(s) + 1 \in 1..Len(p.stream) /\ \A j \in 1..Len(s) : j \in 1..Len(p.stream)
      BY <2>2, <2>3
    <3>2. UnitIds(g.gof, x) \subseteq FiledIn(p.stream, x)
      BY <2>3, <3>1 DEF FiledIn
    <3>3. FiledIn(s, x) \subseteq FiledIn(p.stream, x)
      <4> SUFFICES ASSUME NEW j \in 1..Len(s) PROVE UnitIds(s[j], x) \subseteq FiledIn(p.stream, x)
        BY DEF FiledIn
      <4> QED BY <2>3, <3>1 DEF FiledIn
    <3> QED BY <1>1, <1>2, <3>2, <3>3 DEF Inside, Queued
  <2>5. /\ r.socket = g.socket
        /\ \/ /\ r.outcome \in {"gap", "filed"}
              /\ Loses(p.stream, g.buffer, g.socket, r.stream, r.buffer, g.socket, None)
           \/ /\ r.outcome \in {"thrown", "mixed"}
              /\ ThrewOne(p.stream, g.buffer, g.socket, r.stream, r.buffer, g.socket,
                          r.outcome, Types)
    BY <1>1, <2>1, <2>3, AfterPushKept
  <2>6. ASSUME Loses(p.stream, g.buffer, g.socket, r.stream, r.buffer, g.socket, None)
        PROVE  Loses(s, f, h, r.stream, r.buffer, g.socket, None)
    BY <2>4, <2>6, LosesTrans
  <2>7. ASSUME ThrewOne(p.stream, g.buffer, g.socket, r.stream, r.buffer, g.socket,
                        r.outcome, Types)
        PROVE  ThrewOne(s, f, h, r.stream, r.buffer, g.socket, r.outcome, Types)
    <3>1. PICK t \in Types : \E n \in FramesOf(t) :
            /\ Threw(r.stream, r.outcome, t, n)
            /\ Loses(p.stream, g.buffer, g.socket, r.stream, r.buffer, g.socket, Only(t, {n.id}))
      BY <2>7 DEF ThrewOne
    <3>2. PICK n \in FramesOf(t) :
            /\ Threw(r.stream, r.outcome, t, n)
            /\ Loses(p.stream, g.buffer, g.socket, r.stream, r.buffer, g.socket, Only(t, {n.id}))
      BY <3>1
    <3>3. Loses(s, f, h, r.stream, r.buffer, g.socket, Only(t, {n.id}))
      BY <2>4, <3>2, LosesTrans
    <3> QED BY <3>2, <3>3 DEF ThrewOne
  <2> QED BY <2>5, <2>6, <2>7 DEF GofLoses, r
<1>3. CASE ~ (g.ok /\ g.gof.units # <<>>)
  <2>1. r.stream = s /\ r.socket = g.socket /\ r.buffer = g.buffer
        /\ r.outcome = IF g.ok THEN "timeout" ELSE "mixed"
    BY <1>3 DEF FileGof
  <2> HIDE DEF r
  <2>2. ASSUME g.ok PROVE Loses(s, f, h, s, g.buffer, g.socket, None)
    <3>1. g.gof.units = <<>>
      BY <1>3, <2>2
    <3>2. \A x : UnitIds(g.gof, x) = {}
      BY <3>1 DEF UnitIds
    <3> QED BY <1>1, <2>2, <3>2 DEF Loses, Inside, Queued
  <2> QED BY <1>1, <2>1, <2>2 DEF GofLoses, r
<1> QED BY <1>2, <1>3

(* receive_unit: M is the rest of a unit whose GoF has one, or a NALU whose *)
(* unit is of another instant; one more NALU may have thrown.               *)
Had(s, t, i) ==
  \E j \in 1..Len(s) : TsOf(s[j].ts) = Frame(t, i).ts /\ t \in DOMAIN s[j].units
UnitLoses(r, s, f, h, t) ==
  \/ r.outcome = "timeout" /\ Loses(s, f, h, r.stream, r.buffer, r.socket, None)
  \/ /\ r.outcome \in {"gap", "filed", "mixed", "thrown"}
     /\ \E M : /\ \A i \in M : Had(s, t, i)
               /\ \/ Loses(s, f, h, r.stream, r.buffer, r.socket, Only(t, M))
                  \/ /\ r.outcome = "thrown"
                     /\ \E i : Loses(s, f, h, r.stream, r.buffer, r.socket, Only(t, M \cup {i}))

(* The unit is filed as far as its GoF has none, then the buffer tried.     *)
LEMMA FileUnitKept ==
  ASSUME NEW s \in Streams, NEW t \in Types, NEW n \in Nat, n > 0 \/ t = VPS,
         buffer \in Buffers, socket \in Queues
  PROVE  UnitLoses(FileUnit(s, t, Assemble(t, n, buffer[t], socket[t])), s, buffer, socket, t)
<1> DEFINE f == buffer  h == socket  a == Assemble(t, n, f[t], h[t])  r == FileUnit(s, t, a)
           f2 == [f EXCEPT ![t] = a.buffer]  h2 == [h EXCEPT ![t] = a.socket]  u == a.unit
<1>1. f \in Buffers /\ h \in Queues /\ f[t] \in Seq(FramesOf(t)) /\ h[t] \in Seq(FramesOf(t))
      /\ (t = VPS => f[t] = <<>>)
  BY QueueOf
<1>2. CASE a.timeout
  <2>1. r.stream = s /\ r.socket = h /\ r.buffer = f /\ r.outcome = "timeout"
    BY <1>2 DEF FileUnit
  <2> HIDE DEF r, f, h
  <2> QED BY <2>1, SameLoses DEF UnitLoses, r, f, h
<1>3. CASE ~ a.timeout
  <2> DEFINE p == PushUnit(s, t, u)
  <2>1. r = AfterPush(p, h2, f2, {t})
    BY <1>3 DEF FileUnit
  <2> HIDE DEF f, h
  <2>2. /\ u \in Received(t) /\ a.buffer \in Seq(FramesOf(t)) /\ (t = VPS => a.buffer = <<>>)
        /\ a.socket \in Seq(FramesOf(t))
        /\ Ids(f[t]) \cup Ids(h[t]) \subseteq Ids(u.nalus) \cup Ids(a.buffer) \cup Ids(a.socket)
    BY <1>1, <1>3, AssembleGood
  <2> HIDE DEF a
  <2>3. f2 \in Buffers /\ \A x \in Types : f2[x] = IF x = t THEN a.buffer ELSE f[x]
    BY <1>1, <2>2, BufferSet
  <2>4. h2 \in Queues /\ \A x \in Types : h2[x] = IF x = t THEN a.socket ELSE h[x]
    BY <1>1, <2>2, QueueSet
  <2>5. /\ p.stream \in Streams /\ Extends(s, p.stream) /\ KeepsFiled(s, p.stream)
        /\ Ids(u.nalus) \subseteq FiledIn(p.stream, t) \/ Occupied(s, t, u)
        /\ u.nalus # <<>> =>
             \A j \in 1..Len(p.stream) :
               t \in DOMAIN p.stream[j].units => FitsAt(s, p.stream, t, j)
    BY <2>2, PushUnitGood
  <2> HIDE DEF f2, h2, p, r
  <2> DEFINE N == Ids(u.nalus) \ FiledIn(p.stream, t)
  <2>6. \A i \in N : Had(s, t, i)
    <3> SUFFICES ASSUME NEW i \in N PROVE Had(s, t, i)
      OBVIOUS
    <3>1. PICK k \in DOMAIN u.nalus : i = u.nalus[k].id
      BY DEF Ids
    <3>2. u.nalus[k] \in FramesOf(t) /\ u.nalus[k].ts = u.ts
      BY <2>2, <3>1, ReceivedIsUnit DEF Received
    <3>3. Frame(t, i).ts = u.ts
      BY <3>1, <3>2, FrameIs
    <3> QED BY <2>5, <3>3 DEF Occupied, Had
  <2>7. Loses(s, f, h, p.stream, f2, h2, Only(t, N))
    <3> SUFFICES ASSUME NEW x \in Types
                 PROVE  Inside(s, f, h, x) \subseteq Inside(p.stream, f2, h2, x) \cup Only(t, N)[x]
      BY DEF Loses
    <3>1. FiledIn(s, x) \subseteq FiledIn(p.stream, x)
      BY <2>5 DEF KeepsFiled
    <3>2. CASE x = t
      <4>1. Only(t, N)[x] = N
        BY <3>2 DEF Only
      <4>2. Ids(f2[x]) = Ids(a.buffer) /\ Ids(h2[x]) = Ids(a.socket)
        BY <2>3, <2>4, <3>2
      <4> QED BY <2>2, <3>1, <3>2, <4>1, <4>2 DEF Inside
    <3>3. CASE x # t
      BY <2>3, <2>4, <3>1, <3>3 DEF Inside
    <3> QED BY <3>2, <3>3
  <2> HIDE DEF N
  <2>8. /\ r.socket = h2 /\ SameShape(p.stream, r.stream)
        /\ \/ /\ r.outcome \in {"gap", "filed"}
              /\ Loses(p.stream, f2, h2, r.stream, r.buffer, h2, None)
           \/ /\ r.outcome \in {"thrown", "mixed"}
              /\ ThrewOne(p.stream, f2, h2, r.stream, r.buffer, h2, r.outcome, {t})
    BY <2>1, <2>3, <2>5, AfterPushKept
  <2>9. ASSUME NEW M, NEW L, Loses(p.stream, f2, h2, r.stream, r.buffer, h2, L),
               \A x \in Types : Only(t, N)[x] \cup L[x] \subseteq M[x]
        PROVE  Loses(s, f, h, r.stream, r.buffer, r.socket, M)
    <3> SUFFICES ASSUME NEW x \in Types
                 PROVE  Inside(s, f, h, x) \subseteq Inside(r.stream, r.buffer, h2, x) \cup M[x]
      BY <2>8 DEF Loses
    <3>1. /\ Inside(s, f, h, x) \subseteq Inside(p.stream, f2, h2, x) \cup Only(t, N)[x]
          /\ Inside(p.stream, f2, h2, x) \subseteq Inside(r.stream, r.buffer, h2, x) \cup L[x]
      BY <2>7, <2>9 DEF Loses
    <3> QED BY <2>9, <3>1
  <2> SUFFICES UnitLoses(r, s, f, h, t)
    BY DEF r, f, h, a
  <2>10. CASE /\ r.outcome \in {"gap", "filed"}
              /\ Loses(p.stream, f2, h2, r.stream, r.buffer, h2, None)
    <3>1. \A x \in Types : Only(t, N)[x] \cup None[x] \subseteq Only(t, N)[x]
      BY DEF None
    <3>2. Loses(s, f, h, r.stream, r.buffer, r.socket, Only(t, N))
      BY <2>9, <2>10, <3>1
    <3> QED BY <2>6, <2>10, <3>2 DEF UnitLoses
  <2>11. CASE /\ r.outcome \in {"thrown", "mixed"}
              /\ ThrewOne(p.stream, f2, h2, r.stream, r.buffer, h2, r.outcome, {t})
    <3>1. PICK m \in FramesOf(t) :
            /\ Threw(r.stream, r.outcome, t, m)
            /\ Loses(p.stream, f2, h2, r.stream, r.buffer, h2, Only(t, {m.id}))
      BY <2>11 DEF ThrewOne
    <3> DEFINE M == N \cup {m.id}
    <3>2. \A x \in Types : Only(t, N)[x] \cup Only(t, {m.id})[x] \subseteq Only(t, M)[x]
      BY DEF Only
    <3>3. Loses(s, f, h, r.stream, r.buffer, r.socket, Only(t, M))
      BY <2>9, <3>1, <3>2
    <3>4. CASE r.outcome = "thrown"
      BY <2>6, <3>3, <3>4 DEF UnitLoses
    <3>5. CASE r.outcome = "mixed"
      <4>1. t # VPS /\ Clash(r.stream, t, m)
        BY <3>1, <3>5 DEF Threw
      <4>2. u.nalus # <<>>
        BY <2>2, <4>1 DEF Received
      <4>3. PICK k \in 1..Len(r.stream) :
              /\ t \in DOMAIN r.stream[k].units /\ TsOf(r.stream[k].ts) = m.ts
              /\ r.stream[k].units[t].ts # m.ts
        BY <4>1 DEF Clash
      <4>4. k \in 1..Len(p.stream) /\ t \in DOMAIN p.stream[k].units
            /\ TsOf(p.stream[k].ts) = m.ts /\ p.stream[k].units[t].ts # m.ts
        BY <2>8, <4>3 DEF SameShape
      <4>5. k \in 1..Len(s) /\ t \in DOMAIN s[k].units
        BY <2>5, <4>2, <4>4 DEF FitsAt
      <4>6. TsOf(s[k].ts) = m.ts
        BY <2>5, <4>4, <4>5 DEF Extends
      <4>7. m = Frame(t, m.id)
        BY <3>1, FrameIs
      <4>8. Had(s, t, m.id)
        BY <4>5, <4>6, <4>7 DEF Had
      <4>9. \A i \in M : Had(s, t, i)
        BY <2>6, <4>8
      <4> HIDE DEF M
      <4> QED BY <3>3, <3>5, <4>9 DEF UnitLoses
    <3> QED BY <2>11, <3>4, <3>5
  <2> QED BY <2>8, <2>10, <2>11
<1> QED BY <1>2, <1>3

(* All NALUs a handle holds, and those of them a call loses.                *)
Here(s, f, h) == UNION {{t} \X Inside(s, f, h, t) : t \in Types}
HeldBy(s, f, h) ==
  UNION {{t} \X (Ids(h[t]) \cup Ids(f[t]) \cup UNION {UnitIds(s[k], t) : k \in DOMAIN s})
         : t \in Types}

(* Held, in terms of the stream and the queues.                             *)
LEMMA HeldHere ==
  ASSUME NEW s \in Streams, NEW f, NEW h PROVE HeldBy(s, f, h) = Here(s, f, h)
<1>1. DOMAIN s = 1..Len(s)
  BY DEF Streams
<1>2. \A t : Ids(h[t]) \cup Ids(f[t]) \cup UNION {UnitIds(s[k], t) : k \in DOMAIN s}
               = Inside(s, f, h, t)
  BY <1>1 DEF Inside, FiledIn
<1> QED BY <1>2 DEF HeldBy, Here

(* A NALU held has a type and a number.                                     *)
LEMMA InHere ==
  ASSUME NEW s, NEW f, NEW h, NEW p
  PROVE  p \in Here(s, f, h)
           <=> \E t \in Types : \E i \in Inside(s, f, h, t) : p = <<t, i>>
BY DEF Here

(* If what is lost is of type t and in M.                                   *)
LEMMA LostOnes ==
  ASSUME NEW s, NEW f, NEW h, NEW r, NEW f2, NEW h2, NEW t, NEW M,
         Loses(s, f, h, r, f2, h2, Only(t, M))
  PROVE  Here(s, f, h) \ Here(r, f2, h2) \subseteq {<<t, i>> : i \in M}
<1> SUFFICES ASSUME NEW p \in Here(s, f, h), p \notin Here(r, f2, h2)
             PROVE  p \in {<<t, i>> : i \in M}
  OBVIOUS
<1>1. PICK x \in Types : \E i \in Inside(s, f, h, x) : p = <<x, i>>
  BY InHere
<1>2. PICK i \in Inside(s, f, h, x) : p = <<x, i>>
  BY <1>1
<1>3. i \notin Inside(r, f2, h2, x)
  BY <1>2, InHere
<1>4. i \in Only(t, M)[x]
  BY <1>3 DEF Loses
<1>5. x = t /\ i \in M
  BY <1>4 DEF Only
<1> QED BY <1>2, <1>5

(* If nothing is lost.                                                      *)
LEMMA LostNone ==
  ASSUME NEW s, NEW f, NEW h, NEW r, NEW f2, NEW h2, Loses(s, f, h, r, f2, h2, None)
  PROVE  Here(s, f, h) \ Here(r, f2, h2) = {}
<1> SUFFICES ASSUME NEW p \in Here(s, f, h) PROVE p \in Here(r, f2, h2)
  OBVIOUS
<1>1. PICK x \in Types : \E i \in Inside(s, f, h, x) : p = <<x, i>>
  BY InHere
<1>2. PICK i \in Inside(s, f, h, x) : p = <<x, i>>
  BY <1>1
<1>3. i \in Inside(r, f2, h2, x)
  BY DEF Loses, None
<1> QED BY <1>2, <1>3, InHere

(* What the two calls lose.                                                 *)
LEMMA GofLost ==
  ASSUME Inv, NEW s \in Streams, Placed(s, buffer, socket, network), NEW sizes \in Sizes
  PROVE  GofLoses(FileGof(s, ReceivedGof(sizes)), s, buffer, socket)
<1>1. socket \in Queues /\ buffer \in Buffers
  BY CallData
<1>2. \A x \in Types : NoneTwice(buffer[x] \o socket[x])
  BY DEF Placed, NewTo
<1>3. /\ GofState(ReceivedGof(sizes), buffer, socket)
      /\ GofKeeps(ReceivedGof(sizes), NumTypes, buffer, socket)
  BY <1>1, <1>2, GofGood, GofKept
<1> QED BY <1>1, <1>3, FileGofKept

(* The same for receive_unit.                                               *)
LEMMA UnitLost ==
  ASSUME Inv, NEW s \in Streams, NEW t \in Types, NEW sizes \in Sizes
  PROVE  UnitLoses(FileUnit(s, t, Assemble(t, sizes[t], buffer[t], socket[t])),
                   s, buffer, socket, t)
<1>1. socket \in Queues /\ buffer \in Buffers
  BY CallData
<1>2. sizes[t] \in Nat /\ (sizes[t] > 0 \/ t = VPS)
  BY DEF Sizes
<1> QED BY <1>1, <1>2, FileUnitKept

(* Frames of two timestamps are of two instants.                            *)
LEMMA TwoInstants ==
  ASSUME NEW s, NEW r, NEW f \in Buffers, NEW h \in Queues, NEW f2, NEW h2, NEW net,
         Placed(s, f, h, net), SeveralLeft(f, h, f2, h2)
  PROVE  SeveralInstants(Here(s, f, h) \ Here(s, f2, h2))
<1>1. PICK x, y \in Types : \E n, m : /\ Left(f, h, f2, h2, x, n) /\ Left(f, h, f2, h2, y, m)
                                      /\ n.ts # m.ts
  BY DEF SeveralLeft
<1>2. PICK n, m : Left(f, h, f2, h2, x, n) /\ Left(f, h, f2, h2, y, m) /\ n.ts # m.ts
  BY <1>1
<1>3. ASSUME NEW z \in Types, NEW l, Left(f, h, f2, h2, z, l)
      PROVE  /\ <<z, l.id>> \in Here(s, f, h) \ Here(s, f2, h2)
             /\ l.ts = Instants[Frames[z][l.id]]
  <2>1. /\ l \in FramesOf(z) /\ l.id \in Ids(f[z]) \cup Ids(h[z])
        /\ l.id \notin Ids(f2[z]) \cup Ids(h2[z])
    BY <1>3 DEF Left, Queued
  <2>2. l.id \notin FiledIn(s, z)
    <3>1. Ids(f[z] \o h[z]) = Ids(f[z]) \cup Ids(h[z])
      BY QueueOf
    <3> QED BY <2>1, <3>1 DEF Placed, NewTo
  <2> DEFINE i == l.id
  <2>3. i \in Inside(s, f, h, z) /\ i \notin Inside(s, f2, h2, z)
    BY <2>1, <2>2 DEF Inside
  <2>4. l = Frame(z, i)
    BY <2>1, FrameIs
  <2> HIDE DEF i
  <2>5. <<z, i>> \in Here(s, f, h)
    BY <2>3, InHere
  <2>6. <<z, i>> \notin Here(s, f2, h2)
    BY <2>3, InHere
  <2>7. l.ts = Instants[Frames[z][i]]
    BY <2>4 DEF Frame
  <2> QED BY <2>5, <2>6, <2>7 DEF i
<1> DEFINE a == <<x, n.id>>  b == <<y, m.id>>  F == Here(s, f, h) \ Here(s, f2, h2)
<1>4. a \in F /\ b \in F /\ Frames[a[1]][a[2]] # Frames[b[1]][b[2]]
  BY <1>2, <1>3
<1> HIDE DEF a, b, F
<1>5. SeveralInstants(F)
  BY <1>4 DEF SeveralInstants
<1> QED BY <1>5 DEF F

(* receive_gof discards units of several instants, or one NALU.              *)
LEMMA GofExplained ==
  ASSUME Inv, AllPlaced, NEW sizes \in UnitSizes, ReceiveGof(sizes), Held \ Held' # {}
  PROVE  MayDiscard(Held \ Held', last'.call, last'.result)
<1>1. mode = "gof" /\ running = NoCall
  BY DEF ReceiveGof, Begin
<1>2. PICK r \in {FileGof(stream, ReceivedGof(sizes))} :
             Install(r) /\ Done("gof", Verdict(r, Types))
  BY DEF ReceiveGof
<1> DEFINE s == stream  f == buffer  h == socket
           F == Here(s, f, h) \ Here(r.stream, r.buffer, r.socket)
<1>3. s \in Streams /\ f \in Buffers /\ h \in Queues
  BY <1>1, CallData
<1>4. Data = s /\ Placed(s, f, h, network)
  <2>1. Data = s
    BY <1>1, <1>3, Nothing DEF Data
  <2> QED BY <2>1 DEF AllPlaced
<1>5. r.stream \in Streams
  BY <1>2, <1>3, GofFiled, GivenSizes DEF FiledOk
<1>6. Data' = r.stream /\ buffer' = r.buffer /\ socket' = r.socket
  BY <1>2, <1>5, Nothing DEF Data, Install, Done
<1>7. Held \ Held' = F
  <2>1. Held = HeldBy(s, f, h)
    BY <1>4 DEF Held, Filed, HeldBy
  <2>2. Held' = HeldBy(r.stream, r.buffer, r.socket)
    BY <1>6 DEF Held, Filed, HeldBy
  <2> QED BY <1>3, <1>5, <2>1, <2>2, HeldHere
<1>8. last'.call = "gof" /\ last'.result = Verdict(r, Types)
  BY <1>2 DEF Done
<1>9. GofLoses(r, s, f, h)
  BY <1>2, <1>3, <1>4, GofLost, GivenSizes
<1> HIDE DEF s, f, h, F
<1>10. CASE Loses(s, f, h, r.stream, r.buffer, r.socket, None)
  <2>1. F = {}
    BY <1>10, LostNone DEF F
  <2> QED BY <1>7, <2>1
<1>11. CASE /\ r.outcome \in {"thrown", "mixed"}
            /\ ThrewOne(s, f, h, r.stream, r.buffer, r.socket, r.outcome, Types)
  <2>1. PICK t \in Types : \E n \in FramesOf(t) :
          /\ Threw(r.stream, r.outcome, t, n)
          /\ Loses(s, f, h, r.stream, r.buffer, r.socket, Only(t, {n.id}))
    BY <1>11 DEF ThrewOne
  <2>2. PICK n \in FramesOf(t) :
          /\ Threw(r.stream, r.outcome, t, n)
          /\ Loses(s, f, h, r.stream, r.buffer, r.socket, Only(t, {n.id}))
    BY <2>1
  <2>3. F \subseteq {<<t, i>> : i \in {n.id}}
    BY <2>2, LostOnes DEF F
  <2> DEFINE e == <<t, n.id>>
  <2>4. {<<t, i>> : i \in {n.id}} = {e}
    OBVIOUS
  <2> HIDE DEF e
  <2>5. F = {e}
    BY <1>7, <2>3, <2>4
  <2>6. Cardinality(F) = 1
    BY <2>5, FS_Singleton
  <2>7. CASE r.outcome = "thrown"
    <3>1. Verdict(r, Types) = "general"
      BY <2>7 DEF Verdict
    <3> QED BY <1>7, <1>8, <2>6, <3>1 DEF MayDiscard
  <2>8. CASE r.outcome = "mixed"
    <3>1. Verdict(r, Types) = "timestamp"
      BY <2>8 DEF Verdict
    <3>2. PICK k \in 1..Len(r.stream) : Padded(r.stream[k])
      BY <2>2, <2>8 DEF Threw, Clash
    <3>3. k \in DOMAIN Data' /\ Padded(Data'[k])
      BY <1>5, <1>6, <3>2 DEF Streams
    <3>4. SomePadded
      BY <3>3 DEF SomePadded
    <3> QED BY <1>7, <1>8, <2>6, <3>1, <3>4 DEF MayDiscard
  <2> QED BY <1>11, <2>7, <2>8
<1>12. CASE r.outcome = "mixed" /\ r.stream = s /\ SeveralLeft(f, h, r.buffer, r.socket)
  <2>1. Verdict(r, Types) = "timestamp"
    BY <1>12 DEF Verdict
  <2>2. SeveralInstants(F)
    BY <1>3, <1>4, <1>12, TwoInstants DEF F
  <2> QED BY <1>7, <1>8, <2>1, <2>2 DEF MayDiscard
<1> QED BY <1>9, <1>10, <1>11, <1>12 DEF GofLoses

(* receive_unit discards the rest of a unit, and one NALU at most.           *)
LEMMA UnitExplained ==
  ASSUME Inv, NEW sizes \in UnitSizes, NEW t \in Types, ReceiveUnit(t, sizes[t]),
         Held \ Held' # {}
  PROVE  MayDiscard(Held \ Held', last'.call, last'.result)
<1>1. mode = "unit" /\ running = NoCall
  BY DEF ReceiveUnit, Begin
<1>2. PICK r \in {FileUnit(stream, t, Assemble(t, sizes[t], buffer[t], socket[t]))} :
             Install(r) /\ Done("unit", Verdict(r, {t}))
  BY DEF ReceiveUnit
<1> DEFINE s == stream  f == buffer  h == socket
           F == Here(s, f, h) \ Here(r.stream, r.buffer, r.socket)
<1>3. s \in Streams /\ f \in Buffers /\ h \in Queues
  BY <1>1, CallData
<1>4. Data = s
  BY <1>1, <1>3, Nothing DEF Data
<1>5. r.stream \in Streams
  BY <1>2, <1>3, UnitFiled, GivenSizes DEF FiledOk
<1>6. Data' = r.stream /\ buffer' = r.buffer /\ socket' = r.socket
  BY <1>2, <1>5, Nothing DEF Data, Install, Done
<1>7. Held \ Held' = F
  <2>1. Held = HeldBy(s, f, h)
    BY <1>4 DEF Held, Filed, HeldBy
  <2>2. Held' = HeldBy(r.stream, r.buffer, r.socket)
    BY <1>6 DEF Held, Filed, HeldBy
  <2> QED BY <1>3, <1>5, <2>1, <2>2, HeldHere
<1>8. last'.call = "unit" /\ last'.result = Verdict(r, {t})
  BY <1>2 DEF Done
<1>9. UnitLoses(r, s, f, h, t)
  BY <1>2, <1>3, UnitLost, GivenSizes
<1> DEFINE strays == {e \in F : ~ HasUnit(e)}
<1>10. ASSUME NEW i, Had(s, t, i) PROVE HasUnit(<<t, i>>)
  <2>1. PICK j \in 1..Len(s) : TsOf(s[j].ts) = Frame(t, i).ts /\ t \in DOMAIN s[j].units
    BY <1>10 DEF Had
  <2>2. j \in DOMAIN Data /\ Data[j] = s[j]
    BY <1>3, <1>4 DEF Streams
  <2> QED BY <2>1, <2>2 DEF HasUnit
<1> HIDE DEF s, f, h, F
<1>11. CASE Loses(s, f, h, r.stream, r.buffer, r.socket, None)
  <2>1. F = {}
    BY <1>11, LostNone DEF F
  <2> QED BY <1>7, <2>1
<1>12. ASSUME NEW M, \A i \in M : Had(s, t, i),
              Loses(s, f, h, r.stream, r.buffer, r.socket, Only(t, M)),
              r.outcome \in {"gap", "filed", "mixed", "thrown"}
       PROVE  MayDiscard(F, "unit", Verdict(r, {t}))
  <2>1. F \subseteq {<<t, i>> : i \in M}
    BY <1>12, LostOnes DEF F
  <2>2. strays = {}
    BY <1>10, <1>12, <2>1
  <2>3. Cardinality(strays) = 0
    BY <2>2, FS_EmptySet
  <2>4. Verdict(r, {t}) \in {"ok", "timestamp", "general"}
    BY <1>12 DEF Verdict
  <2>5. Cardinality(strays) <= 1
    BY <2>3
  <2> QED BY <2>2, <2>4, <2>5 DEF MayDiscard
<1>13. ASSUME NEW M, \A i \in M : Had(s, t, i), r.outcome = "thrown",
              NEW i, Loses(s, f, h, r.stream, r.buffer, r.socket, Only(t, M \cup {i}))
       PROVE  MayDiscard(F, "unit", Verdict(r, {t}))
  <2> DEFINE N == M \cup {i}  e == <<t, i>>
  <2>1. F \subseteq {<<t, j>> : j \in N}
    BY <1>13, LostOnes DEF F
  <2>2. strays \subseteq {e}
    BY <1>10, <1>13, <2>1
  <2>3. Verdict(r, {t}) = "general"
    BY <1>13 DEF Verdict
  <2> HIDE DEF e
  <2>4. strays = {} \/ strays = {e}
    BY <2>2
  <2> HIDE DEF strays
  <2>5. Cardinality(strays) = 0 \/ Cardinality(strays) = 1
    BY <2>4, FS_EmptySet, FS_Singleton
  <2>6. Cardinality(strays) <= 1
    BY <2>5
  <2> QED BY <2>3, <2>6 DEF MayDiscard, strays
<1> QED BY <1>7, <1>8, <1>9, <1>11, <1>12, <1>13 DEF UnitLoses

(* A step that loses nothing.                                               *)
LEMMA HeldStays ==
  ASSUME NEW s \in Streams, NEW r \in Streams, Data = s, Data' = r,
         Loses(s, buffer, socket, r, buffer', socket', None)
  PROVE  Held \ Held' = {}
<1>1. Held = HeldBy(s, buffer, socket)
  BY DEF Held, Filed, HeldBy
<1>2. Held' = HeldBy(r, buffer', socket')
  BY DEF Held, Filed, HeldBy
<1> QED BY <1>1, <1>2, HeldHere, LostNone

(* The network takes nothing from the handle.                               *)
LEMMA NetworkHeld ==
  ASSUME Inv, NEW t \in Types, Arrive(t) \/ Overtake(t) \/ Lose(t) PROVE Held \ Held' = {}
<1>1. QueuesOk /\ Data \in Streams /\ Data' = Data /\ buffer' = buffer
  BY DataStream DEF Inv, Arrive, Overtake, Lose, Data
<1>2. \A x \in Types : Ids(socket[x]) \subseteq Ids(socket'[x])
  <2>1. CASE socket' = socket
    BY <2>1
  <2>2. CASE \E i \in network[t] : socket' = [socket EXCEPT ![t] = Append(@, Frame(t, i))]
    <3>1. PICK i \in network[t] : socket' = [socket EXCEPT ![t] = Append(@, Frame(t, i))]
      BY <2>2
    <3> DEFINE w == socket[t]  n == Frame(t, i)  p == Append(w, n)
    <3>2. w \in Seq(FramesOf(t)) /\ socket \in [Types -> Seq(Nalus)]
      BY <1>1, QueueOf DEF QueuesOk, Queues
    <3>3. \A x \in Types : socket'[x] = IF x = t THEN p ELSE socket[x]
      BY <3>1, <3>2
    <3> HIDE DEF n
    <3>4. DOMAIN w \subseteq DOMAIN p /\ \A k \in DOMAIN w : p[k] = w[k]
      BY <3>2
    <3> HIDE DEF p, w
    <3>5. Ids(w) \subseteq Ids(p)
      BY <3>4 DEF Ids
    <3> QED BY <3>3, <3>5 DEF w
  <2>3. network[t] \in SUBSET Nat
    BY <1>1 DEF QueuesOk, NetworkOk
  <2>4. CASE Arrive(t)
    BY <2>2, <2>3, <2>4, LeastExists DEF Arrive
  <2>5. CASE Overtake(t)
    BY <2>2, <2>5 DEF Overtake
  <2>6. CASE Lose(t)
    BY <2>1, <2>6 DEF Lose
  <2> QED BY <2>4, <2>5, <2>6
<1>3. Loses(Data, buffer, socket, Data, buffer, socket', None)
  BY <1>2 DEF Loses, Inside
<1> QED BY <1>1, <1>3, HeldStays

(* receive_bitstream may discard what it received, when it fails.           *)
LEMMA BitstreamExplained ==
  ASSUME Inv, AllPlaced, BitstreamStep, Held \ Held' # {}
  PROVE  MayDiscard(Held \ Held', last'.call, last'.result)
<1>1. running # NoCall
  BY DEF BitstreamStep, BitstreamGof, BitstreamDone, Running
<1>2. /\ running.stream \in Streams /\ running.left \in Nat /\ running.sizes \in Sizes
      /\ stream = NoData /\ Data = running.stream /\ NoData \notin Streams
  BY <1>1, CallData, Nothing DEF Data
<1>3. ASSUME NEW buf, HandOver(running.stream, buf) PROVE Data' = running.stream
  <2>1. stream' = running.stream /\ running' = NoCall
    BY <1>3 DEF HandOver, Done
  <2> QED BY <1>2, <2>1 DEF Data
<1>4. CASE BitstreamDone
  <2>1. HandOver(running.stream, buffer) /\ socket' = socket /\ buffer' = buffer
    BY <1>4 DEF BitstreamDone
  <2>2. Loses(Data, buffer, socket, Data, buffer, socket, None)
    BY SameLoses
  <2> QED BY <1>2, <1>3, <2>1, <2>2, HeldStays
<1>5. CASE BitstreamGof
  <2>1. PICK r \in {FileGof(running.stream, ReceivedGof(running.sizes))} :
             /\ socket' = r.socket /\ buffer' = r.buffer
             /\ \/ r.outcome = "timeout" /\ HandOver(running.stream, r.buffer)
                \/ /\ r.outcome \in {"mixed", "gap", "thrown"}
                   /\ Done("bitstream", Verdict(r, Types)) /\ UNCHANGED stream
                \/ /\ r.outcome = "filed"
                   /\ running' = [stream |-> r.stream, left |-> running.left - 1,
                                  sizes |-> CountVPS(running.sizes, Last(r.stream))]
                   /\ UNCHANGED <<stream, last, clean>>
    BY <1>5 DEF BitstreamGof
  <2>2. FiledOk(r, running.stream, buffer, socket)
    BY <1>2, <2>1, GofFiled
  <2>3. GofLoses(r, running.stream, buffer, socket)
    BY <1>2, <2>1, GofLost DEF AllPlaced
  <2>4. CASE r.outcome = "timeout" /\ HandOver(running.stream, r.buffer)
    <3>1. r.stream = running.stream /\ Data' = r.stream
      BY <1>3, <2>2, <2>4 DEF FiledOk
    <3>2. Loses(running.stream, buffer, socket, r.stream, r.buffer, r.socket, None)
      BY <2>3, <2>4 DEF GofLoses
    <3> QED BY <1>2, <2>1, <3>1, <3>2, HeldStays
  <2>5. CASE /\ r.outcome \in {"mixed", "gap", "thrown"}
             /\ Done("bitstream", Verdict(r, Types)) /\ UNCHANGED stream
    <3>1. last'.call = "bitstream" /\ last'.result = Verdict(r, Types)
      BY <2>5 DEF Done
    <3>2. Verdict(r, Types) \in {"timestamp", "general"}
      BY <2>5 DEF Verdict
    <3> QED BY <3>1, <3>2 DEF MayDiscard
  <2>6. CASE /\ r.outcome = "filed"
             /\ running' = [stream |-> r.stream, left |-> running.left - 1,
                            sizes |-> CountVPS(running.sizes, Last(r.stream))]
             /\ UNCHANGED <<stream, last, clean>>
    <3>1. running.left > 0
      BY <1>5 DEF BitstreamGof
    <3>2. running.left - 1 \in Nat /\ CountVPS(running.sizes, Last(r.stream)) \in Sizes
      BY <1>2, <3>1, CountedSizes
    <3>3. r.stream \in Streams /\ running' \in Calls /\ running'.stream = r.stream
      BY <2>2, <2>6, <3>2 DEF Calls, FiledOk
    <3>4. Data' = r.stream
      BY <3>3, Nothing DEF Data
    <3>5. Loses(running.stream, buffer, socket, r.stream, r.buffer, r.socket, None)
      BY <2>3, <2>6 DEF GofLoses
    <3> QED BY <1>2, <2>1, <3>3, <3>4, <3>5, HeldStays
  <2> QED BY <2>1, <2>4, <2>5, <2>6
<1> QED BY <1>4, <1>5 DEF BitstreamStep

(* Whatever a call discards, its result and its kind explain.               *)
THEOREM LossExplained == Spec => DiscardsExplained
<1>1. Init => Inv /\ AllPlaced
  BY InitInv, InitPlaced
<1>2. (Inv /\ AllPlaced) /\ [Next]_vars => (Inv /\ AllPlaced)'
  BY StepInv, StepPlaced
<1>3. ASSUME Inv, AllPlaced, Next, Held \ Held' # {}
      PROVE  MayDiscard(Held \ Held', last'.call, last'.result)
  <2>1. ASSUME NEW t \in Types, Arrive(t) \/ Overtake(t) \/ Lose(t) PROVE FALSE
    BY <1>3, <2>1, NetworkHeld
  <2>2. ASSUME NEW sizes \in UnitSizes, ReceiveGof(sizes)
        PROVE  MayDiscard(Held \ Held', last'.call, last'.result)
    BY <1>3, <2>2, GofExplained
  <2>3. ASSUME NEW sizes \in UnitSizes, NEW t \in Types, ReceiveUnit(t, sizes[t])
        PROVE  MayDiscard(Held \ Held', last'.call, last'.result)
    BY <1>3, <2>3, UnitExplained
  <2>4. ASSUME NEW sizes \in UnitSizes, NEW n \in GofCounts, BeginBitstream(n, sizes) PROVE FALSE
    <3>1. /\ running' = [stream |-> <<>>, left |-> n, sizes |-> sizes]
          /\ UNCHANGED <<socket, buffer>> /\ running = NoCall /\ stream = NoData
      BY <2>4 DEF BeginBitstream, Begin
    <3>2. n \in Nat /\ sizes \in Sizes /\ <<>> \in Streams
      BY ReceiverAssumption, GivenSizes, Nothing
    <3>3. running' \in Calls
      BY <3>1, <3>2 DEF Calls
    <3>4. running' # NoCall /\ running'.stream = <<>>
      BY <3>1, <3>3, Nothing
    <3>5. Data = <<>> /\ Data' = <<>>
      BY <3>1, <3>4 DEF Data
    <3>6. Loses(<<>>, buffer, socket, <<>>, buffer, socket, None)
      BY SameLoses
    <3> QED BY <1>3, <3>1, <3>2, <3>5, <3>6, HeldStays
  <2>5. ASSUME BitstreamStep PROVE MayDiscard(Held \ Held', last'.call, last'.result)
    BY <1>3, <2>5, BitstreamExplained
  <2>6. ASSUME ClearSampleStream PROVE MayDiscard(Held \ Held', last'.call, last'.result)
    <3>1. last'.call = "clear"
      BY <2>6 DEF ClearSampleStream
    <3> QED BY <3>1 DEF MayDiscard
  <2> QED BY <1>3, <2>1, <2>2, <2>3, <2>4, <2>5, <2>6 DEF Next
<1>4. Inv /\ AllPlaced /\ [Next]_vars
        => [Held \ Held' # {} => MayDiscard(Held \ Held', last'.call, last'.result)]_vars
  BY <1>3
<1> QED BY <1>1, <1>2, <1>4, PTL DEF Spec, DiscardsExplained
=============================================================================
