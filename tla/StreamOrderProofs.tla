-------------------------- MODULE StreamOrderProofs -------------------------
(***************************************************************************)
(* Theorems about a receiving handle that asks for few NALUs by number, on *)
(* a network that does not overtake within a type: the NALUs of a type are *)
(* filed in the order they were sent in; find_timestamp finds every GoF of *)
(* the stream; and when nothing is lost, the stream holds the GoFs sent.   *)
(***************************************************************************)
EXTENDS StreamReceiverProofs

-----------------------------------------------------------------------------
(* The NALUs of a type in the order they were sent in.                      *)
Rising(q) == \A i, j \in DOMAIN q : i < j => q[i].id < q[j].id
Below(S, T) == \A x \in S, y \in T : x < y

(* Two queues joined.                                                       *)
LEMMA JoinedRising ==
  ASSUME NEW P, NEW x \in Seq(P), NEW y \in Seq(P)
  PROVE  Rising(x \o y) <=> Rising(x) /\ Rising(y) /\ Below(Ids(x), Ids(y))
<1> DEFINE q == x \o y  m == Len(x)  n == Len(y)
<1>1. /\ m \in Nat /\ n \in Nat /\ DOMAIN x = 1..m /\ DOMAIN y = 1..n /\ DOMAIN q = 1..(m + n)
      /\ \A i \in 1..m : q[i] = x[i]
      /\ \A i \in 1..n : q[m + i] = y[i]
  <2>1. /\ q \in Seq(P) /\ m \in Nat /\ n \in Nat /\ Len(q) = m + n
        /\ \A i \in 1..m : q[i] = x[i]
        /\ \A i \in 1..n : q[m + i] = y[i]
    BY Passing!JoinIs
  <2> HIDE DEF q
  <2> QED BY <2>1
<1> HIDE DEF q, m, n
<1>2. ASSUME Rising(q) PROVE Rising(x) /\ Rising(y) /\ Below(Ids(x), Ids(y))
  <2>1. ASSUME NEW i \in 1..m, NEW j \in 1..m, i < j PROVE x[i].id < x[j].id
    BY <1>1, <1>2, <2>1 DEF Rising
  <2>2. ASSUME NEW i \in 1..n, NEW j \in 1..n, i < j PROVE y[i].id < y[j].id
    <3>1. m + i \in DOMAIN q /\ m + j \in DOMAIN q /\ m + i < m + j
      BY <1>1, <2>2
    <3>2. q[m + i].id < q[m + j].id
      BY <1>2, <3>1 DEF Rising
    <3> QED BY <1>1, <3>2
  <2>3. ASSUME NEW i \in 1..m, NEW j \in 1..n PROVE x[i].id < y[j].id
    <3>1. i \in DOMAIN q /\ m + j \in DOMAIN q /\ i < m + j
      BY <1>1, <2>3
    <3>2. q[i].id < q[m + j].id
      BY <1>2, <3>1 DEF Rising
    <3> QED BY <1>1, <3>2
  <2> QED BY <1>1, <2>1, <2>2, <2>3 DEF Rising, Below, Ids
<1>3. ASSUME Rising(x), Rising(y), Below(Ids(x), Ids(y)) PROVE Rising(q)
  <2> SUFFICES ASSUME NEW i \in DOMAIN q, NEW j \in DOMAIN q, i < j PROVE q[i].id < q[j].id
    BY DEF Rising
  <2>1. CASE j <= m
    <3>1. i \in 1..m /\ j \in 1..m
      BY <1>1, <2>1
    <3> QED BY <1>1, <1>3, <3>1 DEF Rising
  <2>2. CASE i > m
    <3>1. i - m \in 1..n /\ j - m \in 1..n /\ i - m < j - m /\ m + (i - m) = i /\ m + (j - m) = j
      BY <1>1, <2>2
    <3>2. y[i - m].id < y[j - m].id
      BY <1>1, <1>3, <3>1 DEF Rising
    <3> QED BY <1>1, <3>1, <3>2
  <2>3. CASE i <= m /\ j > m
    <3>1. i \in 1..m /\ j - m \in 1..n /\ m + (j - m) = j
      BY <1>1, <2>3
    <3>2. x[i].id < y[j - m].id
      BY <1>1, <1>3, <3>1 DEF Below, Ids
    <3> QED BY <1>1, <3>1, <3>2
  <2> QED BY <1>1, <2>1, <2>2, <2>3
<1> QED BY <1>2, <1>3 DEF q

(* Frames of a type are sent instant by instant, within one turn of the     *)
(* clock.                                                                   *)
LEMMA SentOrder ==
  ASSUME NEW t \in Types, NEW i \in DOMAIN Frames[t], NEW j \in DOMAIN Frames[t], i <= j
  PROVE  /\ Age(Frame(t, i).ts) \in Nat /\ Age(Frame(t, i).ts) <= Age(Frame(t, j).ts)
         /\ Frames[t][i] <= Frames[t][j]
         /\ Frames[t][i] < Frames[t][j] => Age(Frame(t, i).ts) < Age(Frame(t, j).ts)
<1> DEFINE a == Frames[t][i]  b == Frames[t][j]
<1>1. Instants \in Seq(Times) /\ Frames[t] \in Seq(DOMAIN Instants) /\ Wrap \in Nat
  BY ReceiverAssumption, Clock DEF Times
<1>2. a \in DOMAIN Instants /\ b \in DOMAIN Instants /\ i \in Nat /\ j \in Nat
  BY <1>1
<1>3. DOMAIN Instants = 1..Len(Instants) /\ Len(Instants) \in Nat
      /\ \A k \in DOMAIN Instants : Instants[k] \in 0..Wrap - 1
  <2>1. Instants \in Seq(0..Wrap - 1)
    BY ReceiverAssumption
  <2>2. DOMAIN Instants = 1..Len(Instants) /\ Len(Instants) \in Nat
    BY <2>1
  <2>3. \A k \in DOMAIN Instants : Instants[k] \in Times
    BY <1>1
  <2> QED BY <2>2, <2>3 DEF Times
<1>4. \A k \in DOMAIN Instants : Age(Instants[k]) \in Nat
  <2> SUFFICES ASSUME NEW k \in DOMAIN Instants PROVE Age(Instants[k]) \in Nat
    OBVIOUS
  <2>1. 1 \in DOMAIN Instants /\ Instants[1] \in 0..Wrap - 1 /\ Instants[k] \in 0..Wrap - 1
    BY <1>3
  <2> QED BY <1>1, <2>1 DEF Age
<1>5. a <= b
  <2>1. i < j => a <= b
    BY SentAssumption
  <2>2. i = j => a = b /\ a \in Nat
    BY <1>2, <1>3
  <2> QED BY <1>2, <2>1, <2>2
<1>6. a < b => Age(Instants[a]) < Age(Instants[b])
  BY <1>2, SentAssumption
<1>7. Frame(t, i).ts = Instants[a] /\ Frame(t, j).ts = Instants[b]
  BY DEF Frame
<1>8. a \in Nat /\ b \in Nat /\ (a < b \/ a = b)
  BY <1>2, <1>3, <1>5
<1> HIDE DEF a, b
<1>9. Age(Instants[a]) \in Nat /\ Age(Instants[b]) \in Nat
  BY <1>2, <1>4
<1>10. Age(Instants[a]) <= Age(Instants[b])
  <2>1. CASE a < b
    BY <1>6, <1>9, <2>1
  <2>2. CASE a = b
    BY <1>9, <2>2
  <2> QED BY <1>8, <2>1, <2>2
<1> QED BY <1>5, <1>6, <1>7, <1>9, <1>10 DEF a, b

(* Between two frames of one instant there is no other.                     *)
LEMMA SentGrouped ==
  ASSUME NEW t \in Types, NEW i \in DOMAIN Frames[t], NEW j \in DOMAIN Frames[t],
         NEW k \in DOMAIN Frames[t], i <= j, j <= k, Frame(t, i).ts = Frame(t, k).ts
  PROVE  Frame(t, j).ts = Frame(t, i).ts
<1> DEFINE a == Frames[t][i]  b == Frames[t][j]  c == Frames[t][k]
           x == Age(Frame(t, i).ts)  y == Age(Frame(t, j).ts)  z == Age(Frame(t, k).ts)
<1>1. Frames[t] \in Seq(DOMAIN Instants) /\ DOMAIN Instants \subseteq Nat
  BY ReceiverAssumption
<1>2. a \in Nat /\ b \in Nat /\ c \in Nat
  BY <1>1
<1>3. a <= b /\ x \in Nat /\ x <= y /\ (a < b => x < y)
  BY SentOrder
<1>4. b <= c /\ y \in Nat /\ y <= z
  BY SentOrder
<1>6. x = z
  OBVIOUS
<1>7. Frame(t, i).ts = Instants[a] /\ Frame(t, j).ts = Instants[b]
  BY DEF Frame
<1> HIDE DEF a, b, c, x, y, z
<1>8. z \in Nat
  BY <1>3, <1>6
<1>9. ~ (a < b)
  BY <1>3, <1>4, <1>6, <1>8
<1>10. a = b
  BY <1>2, <1>3, <1>9
<1> QED BY <1>7, <1>10

(* What a call takes of a queue in order: q of the buffer p0 and the queue  *)
(* w0, of which it leaves p and w.                                          *)
PartedAs(q, p0, w0, p, w) ==
  /\ Rising(q) /\ Rising(p \o w) /\ Below(Ids(q), Ids(p \o w)) /\ Len(p) \in 0..2
  /\ Ids(q) \cup Ids(p \o w) = Ids(p0 \o w0)
  /\ q = <<>> => p = p0
  /\ \A i \in DOMAIN q : q[i].ts = q[1].ts
  /\ q # <<>> => \A i \in DOMAIN p : p[i].ts = q[1].ts =>
                    Len(p) = 1 /\ Len(p0) = 2 /\ q[1] = p0[1]
Asks(t, n) == (n > 0 \/ t = VPS) /\ (t # VPS => n \in {1, 2, SizeMax})

(* A queue of frames in order has those of an instant together.             *)
LEMMA RisingGrouped ==
  ASSUME NEW t \in Types, NEW q \in Seq(FramesOf(t)), Rising(q)
  PROVE  Passing!Grouped(q)
<1> SUFFICES ASSUME NEW i \in DOMAIN q, NEW j \in DOMAIN q, NEW k \in DOMAIN q,
                    i < j, j < k, q[i].ts = q[k].ts
             PROVE  q[j].ts = q[i].ts
  BY DEF Passing!Grouped
<1> DEFINE a == q[i].id  b == q[j].id  c == q[k].id
<1>1. q[i] \in FramesOf(t) /\ q[j] \in FramesOf(t) /\ q[k] \in FramesOf(t)
  OBVIOUS
<1>2. /\ a \in DOMAIN Frames[t] /\ b \in DOMAIN Frames[t] /\ c \in DOMAIN Frames[t]
      /\ q[i] = Frame(t, a) /\ q[j] = Frame(t, b) /\ q[k] = Frame(t, c)
      /\ a \in Nat /\ b \in Nat /\ c \in Nat
  BY <1>1, FrameIs
<1>3. a < b /\ b < c
  BY DEF Rising
<1> HIDE DEF a, b, c
<1>4. a <= b /\ b <= c
  BY <1>2, <1>3
<1>5. Frame(t, a).ts = Frame(t, c).ts
  BY <1>2
<1>6. Frame(t, b).ts = Frame(t, a).ts
  BY <1>2, <1>4, <1>5, SentGrouped
<1> QED BY <1>2, <1>6

(* The numbers in such a queue grow by one at least.                        *)
LEMMA RisingGap ==
  ASSUME NEW t \in Types, NEW l \in Seq(FramesOf(t)), Rising(l),
         NEW k \in DOMAIN l
  PROVE  l[k].id \in Nat /\ l[1].id \in Nat /\ l[k].id >= l[1].id + (k - 1)
<1> DEFINE D == {d \in Nat : d + 1 \in DOMAIN l => l[d + 1].id >= l[1].id + d}
<1>1. DOMAIN l = 1..Len(l) /\ Len(l) \in Nat
  OBVIOUS
<1>2. \A i \in DOMAIN l : l[i].id \in Nat
  <2>1. Frames[t] \in Seq(DOMAIN Instants)
    BY ReceiverAssumption
  <2>2. \A n \in FramesOf(t) : n.id \in Nat
    BY <2>1, FrameIs
  <2>3. \A i \in DOMAIN l : l[i] \in FramesOf(t)
    OBVIOUS
  <2> QED BY <2>2, <2>3
<1>3. 1 \in DOMAIN l /\ k - 1 \in Nat /\ (k - 1) + 1 = k
  BY <1>1
<1>4. 0 \in D
  BY <1>1, <1>2
<1>5. ASSUME NEW d \in D PROVE d + 1 \in D
  <2> SUFFICES ASSUME (d + 1) + 1 \in DOMAIN l PROVE l[(d + 1) + 1].id >= l[1].id + (d + 1)
    OBVIOUS
  <2>1. d \in Nat /\ d + 1 \in DOMAIN l /\ l[d + 1].id >= l[1].id + d
    BY <1>1, <1>5
  <2>2. l[d + 1].id < l[(d + 1) + 1].id
    BY <2>1 DEF Rising
  <2>3. l[1].id \in Nat /\ l[d + 1].id \in Nat /\ l[(d + 1) + 1].id \in Nat
    BY <1>2, <1>3, <2>1
  <2> QED BY <2>1, <2>2, <2>3
<1>6. D \in SUBSET Nat
  OBVIOUS
<1> HIDE DEF D
<1>7. D = Nat
  BY <1>4, <1>5, <1>6, SetInduction
<1> QED BY <1>2, <1>3, <1>7 DEF D

(* A unit q that ends where enough were taken up, or where another instant  *)
(* begins, holds all the NALUs of its instant.                              *)
TakesInstant(t, q, l) ==
  q # <<>> => \A i \in Ids(l) : Frames[t][i] = Frames[t][q[1].id] => i \in Ids(q)

(* When no instant has more NALUs than are asked for, a unit cut off a      *)
(* queue in order is such a unit.                                           *)
LEMMA InstantTaken ==
  ASSUME NEW t \in Types, NEW n \in Nat, Fits(t, n), NEW l \in Seq(FramesOf(t)), Rising(l),
         NEW q \in Seq(FramesOf(t)), Len(q) <= Len(l), \A i \in 1..Len(q) : q[i] = l[i],
         Len(q) < Len(l) =>
           Len(q) >= (IF t = VPS THEN 1 ELSE n) \/ l[Len(q) + 1].ts # q[1].ts
  PROVE  TakesInstant(t, q, l)
<1> DEFINE m == Len(q)  e == IF t = VPS THEN 1 ELSE n  F == Frames[t]
<1> SUFFICES ASSUME q # <<>>, NEW k \in DOMAIN l, F[l[k].id] = F[q[1].id]
             PROVE  l[k].id \in Ids(q)
  BY DEF TakesInstant, Ids
<1>1. /\ m \in Nat /\ m >= 1 /\ Len(l) \in Nat /\ e \in Nat /\ m <= Len(l)
      /\ DOMAIN l = 1..Len(l) /\ DOMAIN q = 1..m /\ 1 \in DOMAIN l /\ q[1] = l[1]
  OBVIOUS
<1>2. F \in Seq(DOMAIN Instants) /\ DOMAIN F = 1..Len(F) /\ Len(F) \in Nat
  BY ReceiverAssumption
<1>3. \A i \in DOMAIN l :
        /\ l[i] \in FramesOf(t) /\ l[i].id \in DOMAIN F /\ l[i] = Frame(t, l[i].id)
  <2>1. \A i \in DOMAIN l : l[i] \in FramesOf(t)
    OBVIOUS
  <2> QED BY <2>1, FrameIs
<1>4. CASE k <= m
  BY <1>1, <1>4 DEF Ids
<1>5. CASE k > m
  <2>1. m < Len(l) /\ m + 1 \in DOMAIN l /\ m + 1 <= k
    BY <1>1, <1>5
  <2> DEFINE x == l[1].id  y == l[k].id  z == l[m + 1].id
  <2>2. x \in DOMAIN F /\ y \in DOMAIN F /\ z \in DOMAIN F /\ F[y] = F[x]
    BY <1>1, <1>3, <2>1
  <2>3. x <= z /\ z <= y
    <3>1. 1 < m + 1 => l[1].id < l[m + 1].id
      BY <1>1, <2>1 DEF Rising
    <3>2. m + 1 < k => l[m + 1].id < l[k].id
      BY <2>1 DEF Rising
    <3> QED BY <1>1, <1>2, <2>1, <2>2, <3>1, <3>2
  <2>4. k - 1 >= m /\ e \in Nat
    BY <1>1, <1>5
  <2> HIDE DEF x, y, z, e
  <2>5. CASE l[m + 1].ts # q[1].ts
    <3>1. F[x] <= F[z] /\ F[z] <= F[y] /\ F[x] \in DOMAIN Instants /\ F[z] \in DOMAIN Instants
      <4>1. F[x] <= F[z]
        BY <2>2, <2>3, SentOrder
      <4>2. F[z] <= F[y]
        BY <2>2, <2>3, SentOrder
      <4>3. F[x] \in DOMAIN Instants /\ F[z] \in DOMAIN Instants
        BY <1>2, <2>2
      <4> QED BY <4>1, <4>2, <4>3
    <3>2. DOMAIN Instants \subseteq Nat
      <4>1. Instants \in Seq(0..Wrap - 1)
        BY ReceiverAssumption
      <4> QED BY <4>1
    <3>3. F[z] = F[x]
      BY <2>2, <3>1, <3>2
    <3>4. l[m + 1].ts = l[1].ts
      BY <1>1, <1>3, <2>1, <3>3 DEF Frame, x, z
    <3> QED BY <1>1, <2>5, <3>4
  <2>6. CASE m >= e
    <3>1. y >= x + (k - 1) /\ x \in Nat /\ y \in Nat
      BY RisingGap DEF x, y
    <3>2. x + e <= y /\ x <= x + e
      BY <1>1, <2>6, <2>4, <3>1
    <3>3. x + e \in DOMAIN F
      BY <1>2, <2>2, <2>4, <3>1, <3>2
    <3>4. F[x] <= F[x + e] /\ F[x + e] <= F[y] /\ F[x] \in DOMAIN Instants
          /\ F[x + e] \in DOMAIN Instants
      <4>1. F[x] <= F[x + e]
        BY <2>2, <3>2, <3>3, SentOrder
      <4>2. F[x + e] <= F[y]
        BY <2>2, <3>2, <3>3, SentOrder
      <4>3. F[x] \in DOMAIN Instants /\ F[x + e] \in DOMAIN Instants
        BY <1>2, <2>2, <3>3
      <4> QED BY <4>1, <4>2, <4>3
    <3>5. DOMAIN Instants \subseteq Nat
      <4>1. Instants \in Seq(0..Wrap - 1)
        BY ReceiverAssumption
      <4> QED BY <4>1
    <3>6. F[x + e] = F[x]
      BY <2>2, <3>4, <3>5
    <3>7. F[x + e] # F[x]
      BY <2>2, <3>3 DEF Fits, e
    <3> QED BY <3>6, <3>7
  <2> QED BY <2>1, <2>5, <2>6 DEF e
<1> QED BY <1>1, <1>4, <1>5

(* The call to receive_v3c_unit.                                            *)
LEMMA AssembleParts ==
  ASSUME NEW t \in Types, NEW n \in Nat, Asks(t, n), NEW f \in Seq(FramesOf(t)),
         t = VPS => f = <<>>, NEW h \in Seq(FramesOf(t)), Rising(f \o h), Len(f) \in 0..2
  PROVE  LET r == Assemble(t, n, f, h)
         IN /\ ~ r.timeout => PartedAs(r.unit.nalus, f, h, r.buffer, r.socket)
            /\ n > 0 /\ ~ r.timeout => r.unit.nalus # <<>>
            /\ n > 0 /\ f \o h # <<>> => ~ r.timeout
            /\ n > 0 /\ ~ r.timeout /\ Fits(t, n) => TakesInstant(t, r.unit.nalus, f \o h)
<1> DEFINE r == Assemble(t, n, f, h)  l == f \o h  q == r.unit.nalus
           p == r.buffer  w == r.socket
<1>1. r = Passing!Assemble(t, n, f, h)
  BY DEF Assemble, Passing!Assemble, AssembleVPS, Passing!AssembleVPS, AssembleNalus,
         Passing!AssembleNalus, EmptyUnit, Passing!EmptyUnit, LastPass, Passing!LastPass,
         Passes, Passing!Passes, NewCall, Passing!NewCall, TakeNalu, Passing!TakeNalu,
         AcceptNalu, Passing!AcceptNalu, RejectNalu, Passing!RejectNalu, Drop, Passing!Drop
<1> DEFINE P == FramesOf(t)
<1>2. Passing!Stamped(P, Times)
  BY FrameIs, Clock DEF Passing!Stamped
<1>3. Passing!Grouped(l) /\ l \in Seq(P)
  <2>1. l \in Seq(P)
    OBVIOUS
  <2> HIDE DEF l
  <2> QED BY <2>1, RisingGrouped DEF l
<1>4. t # VPS => Passing!Short(n)
  BY DEF Asks, Passing!Short
<1>5. n > 0 \/ t = VPS
  BY DEF Asks
<1>6. /\ ~ r.timeout => r.unit \in Received(t)
      /\ p \in Seq(P) /\ (t = VPS => p = <<>>) /\ w \in Seq(P)
      /\ Ids(f) \cup Ids(h) \subseteq Ids(q) \cup Ids(p) \cup Ids(w)
  BY <1>5, AssembleGood
<1> HIDE DEF r, P
<1>7. /\ Passing!Cuts(r, n, f, h)
      /\ n > 0 => Passing!Fills(r, IF t = VPS THEN 1 ELSE n, l)
  <2>1. f \in Seq(P) /\ h \in Seq(P)
    BY DEF P
  <2> QED BY <1>1, <1>2, <1>3, <1>4, <2>1, Passing!AssembleCuts
<1>8. /\ Passing!CutAt(r, l, Len(q)) /\ Len(p) <= 2
      /\ \A i \in 1..Len(p) : p[i].ts = r.unit.ts => Len(p) = 1 /\ Len(f) = 2
      /\ n > 0 /\ l # <<>> => Len(q) > 0 /\ ~ r.timeout
  BY <1>7 DEF Passing!Cuts
<1> DEFINE m == Len(q)  z == p \o w
<1>9. /\ m <= Len(l) /\ Len(p) + Len(w) = Len(l) - m
      /\ \A i \in 1..m : q[i] = l[i]
      /\ \A i \in 1..Len(p) : p[i] = l[m + i]
      /\ \A i \in 1..Len(w) : w[i] = l[m + Len(p) + i]
  BY <1>8 DEF Passing!CutAt
<1>10. n > 0 => (m < Len(l) => m >= (IF t = VPS THEN 1 ELSE n) \/ l[m + 1].ts # r.unit.ts)
  BY <1>7 DEF Passing!Fills
<1> SUFFICES ASSUME ~ r.timeout
             PROVE  /\ PartedAs(q, f, h, p, w) /\ (n > 0 => q # <<>>)
                    /\ n > 0 /\ Fits(t, n) => TakesInstant(t, q, l)
  BY <1>8 DEF r, l
<1>11. /\ q \in Seq(P) /\ (\A i \in DOMAIN q : q[i].ts = r.unit.ts) /\ (q = <<>> => t = VPS)
       /\ (q = <<>> <=> r.unit.ts = Unset)
  BY <1>6 DEF Received, P
<1>12. Len(q) \in Nat /\ DOMAIN q = 1..Len(q) /\ Len(p) \in Nat /\ DOMAIN p = 1..Len(p)
       /\ Len(w) \in Nat /\ DOMAIN w = 1..Len(w) /\ Len(l) \in Nat /\ DOMAIN l = 1..Len(l)
  BY <1>3, <1>6, <1>11
<1>13. m \in Nat
  BY <1>12
<1>14. Ids(l) \subseteq Ids(q) \cup Ids(z)
  <2>1. Ids(l) = Ids(f) \cup Ids(h)
    BY Joined
  <2> HIDE DEF p, w, l
  <2>2. Ids(z) = Ids(p) \cup Ids(w)
    BY <1>6, Joined
  <2> QED BY <1>6, <2>1, <2>2
<1>15. ASSUME n > 0, Fits(t, n) PROVE TakesInstant(t, q, l)
  <2> SUFFICES ASSUME q # <<>> PROVE TakesInstant(t, q, l)
    BY DEF TakesInstant
  <2>1. q[1].ts = r.unit.ts
    BY <1>11, <1>12
  <2>2. l \in Seq(P) /\ q \in Seq(P) /\ Rising(l)
    BY <1>3, <1>11
  <2>3. Len(q) < Len(l) => Len(q) >= (IF t = VPS THEN 1 ELSE n) \/ l[Len(q) + 1].ts # q[1].ts
    BY <1>10, <1>15, <2>1
  <2>4. Len(q) <= Len(l) /\ \A i \in 1..Len(q) : q[i] = l[i]
    BY <1>9
  <2> HIDE DEF q, l
  <2> QED BY <1>15, <2>2, <2>3, <2>4, InstantTaken DEF P
<1> HIDE DEF p, w, q, m
<1>16. /\ z \in Seq(P) /\ Len(z) = Len(p) + Len(w) /\ DOMAIN z = 1..(Len(l) - m)
       /\ \A i \in DOMAIN z : z[i] = l[m + i]
  <2>1. /\ z \in Seq(P) /\ Len(z) = Len(p) + Len(w)
        /\ \A i \in 1..Len(p) : z[i] = p[i]
        /\ \A i \in 1..Len(w) : z[Len(p) + i] = w[i]
    BY <1>6, Passing!JoinIs
  <2>2. DOMAIN z = 1..Len(z)
    BY <2>1
  <2> HIDE DEF z
  <2>3. ASSUME NEW i \in DOMAIN z PROVE z[i] = l[m + i]
    <3>1. CASE i \in 1..Len(p)
      BY <1>9, <2>1, <3>1
    <3>2. CASE i \notin 1..Len(p)
      <4>1. i - Len(p) \in 1..Len(w) /\ Len(p) + (i - Len(p)) = i
            /\ m + Len(p) + (i - Len(p)) = m + i
        BY <1>12, <1>13, <2>1, <2>2, <3>2
      <4>2. z[i] = w[i - Len(p)]
        BY <2>1, <4>1
      <4>3. w[i - Len(p)] = l[m + i]
        BY <1>9, <4>1
      <4> QED BY <4>2, <4>3
    <3> QED BY <3>1, <3>2
  <2> QED BY <1>9, <2>1, <2>2, <2>3
<1>17. Rising(l)
  OBVIOUS
<1>18. Len(f) \in 0..2 /\ (Len(f) = 2 => l[1] = f[1])
  <2>1. Len(f) = 2 => 1 \in 1..Len(f)
    OBVIOUS
  <2> QED BY <2>1, Passing!JoinIs
<1> HIDE DEF z, l
<1>19. Rising(q) /\ Rising(z) /\ Below(Ids(q), Ids(z))
  <2>1. m \in Nat /\ m = Len(q)
    BY <1>12 DEF m
  <2>2. \A i \in DOMAIN q : i \in DOMAIN l /\ q[i] = l[i] /\ i <= m
    BY <1>9, <1>12, <2>1
  <2>3. \A i \in DOMAIN z : m + i \in DOMAIN l /\ z[i] = l[m + i] /\ m + i > m
    BY <1>9, <1>12, <1>16, <2>1, SMTT(30)
  <2>4. Rising(q)
    <3> SUFFICES ASSUME NEW i \in DOMAIN q, NEW j \in DOMAIN q, i < j PROVE q[i].id < q[j].id
      BY DEF Rising
    <3> QED BY <1>17, <2>2 DEF Rising
  <2>5. Rising(z)
    <3> SUFFICES ASSUME NEW i \in DOMAIN z, NEW j \in DOMAIN z, i < j PROVE z[i].id < z[j].id
      BY DEF Rising
    <3>1. m + i < m + j
      BY <1>16, <2>1
    <3>2. l[m + i].id < l[m + j].id
      BY <1>17, <2>3, <3>1 DEF Rising
    <3> QED BY <2>3, <3>2
  <2>6. ASSUME NEW i \in DOMAIN q, NEW j \in DOMAIN z PROVE q[i].id < z[j].id
    <3>1. i < m + j
      BY <1>12, <1>16, <2>1
    <3>2. l[i].id < l[m + j].id
      BY <1>17, <2>2, <2>3, <3>1 DEF Rising
    <3> QED BY <2>2, <2>3, <3>2
  <2> QED BY <2>4, <2>5, <2>6 DEF Below, Ids
<1>20. Ids(q) \cup Ids(z) = Ids(l)
  <2>1. \A i \in DOMAIN q : i \in DOMAIN l /\ q[i] = l[i]
    BY <1>9, <1>12 DEF m
  <2>2. \A i \in DOMAIN z : m + i \in DOMAIN l /\ z[i] = l[m + i]
    BY <1>9, <1>12, <1>16 DEF m
  <2>3. Ids(q) \cup Ids(z) \subseteq Ids(l)
    BY <2>1, <2>2 DEF Ids
  <2> QED BY <1>14, <2>3
<1>21. Len(p) \in 0..2
  BY <1>8, <1>12
<1>22. q = <<>> => p = f
  BY <1>6, <1>11
<1>23. \A i \in DOMAIN q : q[i].ts = q[1].ts
  <2>1. ASSUME NEW i \in DOMAIN q PROVE 1 \in DOMAIN q
    BY <1>12, <2>1
  <2> QED BY <1>11, <2>1
<1>24. q # <<>> => \A i \in DOMAIN p : p[i].ts = q[1].ts => Len(p) = 1 /\ Len(f) = 2 /\ q[1] = f[1]
  <2> SUFFICES ASSUME q # <<>>, NEW i \in DOMAIN p, p[i].ts = q[1].ts
               PROVE  Len(p) = 1 /\ Len(f) = 2 /\ q[1] = f[1]
    OBVIOUS
  <2>1. 1 \in DOMAIN q /\ m >= 1
    BY <1>11, <1>12 DEF m
  <2>2. q[1].ts = r.unit.ts /\ q[1] = l[1]
    BY <1>9, <1>11, <1>12, <2>1 DEF m
  <2> QED BY <1>8, <1>12, <1>18, <2>2
<1>25. n > 0 => q # <<>>
  <2> SUFFICES ASSUME n > 0, q = <<>> PROVE FALSE
    OBVIOUS
  <2>1. Passing!Assembled(r, t, n, f, h, P, Times)
    <3>1. f \in Seq(P) /\ h \in Seq(P)
      BY DEF P
    <3> QED BY <1>1, <1>2, <3>1, Passing!AssembleKeeps
  <2> QED BY <2>1 DEF Passing!Assembled, q
<1>26. PartedAs(q, f, h, p, w)
  BY <1>19, <1>20, <1>21, <1>22, <1>23, <1>24 DEF PartedAs, z, l
<1> QED BY <1>25, <1>15, <1>26

(* The state of a type: p is its buffer, w its queue, N the frames in the   *)
(* network and s the stream.  A NALU may be buffered although one of its    *)
(* instant is filed: alone, and in the last GoF that has the type.          *)
Lined(p, w, N) == Rising(p \o w) /\ Below(Ids(p \o w), N) /\ Len(p) \in 0..2
FiledRising(s, t) ==
  /\ \A k, l \in 1..Len(s) : k < l => Below(UnitIds(s[k], t), UnitIds(s[l], t))
  /\ \A k \in 1..Len(s) : t \in DOMAIN s[k].units => Rising(s[k].units[t].nalus)
Tip(s, t, p) ==
  \A i \in DOMAIN p, k \in 1..Len(s) : \A y \in UnitIds(s[k], t) :
    Frame(t, y).ts = p[i].ts =>
      Len(p) = 1 /\ \A l \in 1..Len(s) : l > k => UnitIds(s[l], t) = {}
Unpadded(s) == \A k \in 1..Len(s) : ~ Padded(s[k])
Ordered(s, t, p, w, N) ==
  /\ Lined(p, w, N)
  /\ Unpadded(s) => /\ FiledRising(s, t) /\ Below(FiledIn(s, t), Ids(p \o w) \cup N)
                    /\ Tip(s, t, p)

(* A NALU that is filed is a frame of the instant of its GoF.               *)
LEMMA FiledFrame ==
  ASSUME NEW s \in Streams, Unpadded(s), NEW t \in Types, NEW k \in 1..Len(s)
  PROVE  /\ s[k].ts \in Times
         /\ \A y \in UnitIds(s[k], t) : y \in DOMAIN Frames[t] /\ Frame(t, y).ts = s[k].ts
         /\ t \in DOMAIN s[k].units =>
              /\ s[k].units[t].nalus \in Seq(FramesOf(t)) /\ s[k].units[t].nalus # <<>>
              /\ s[k].units[t].ts = s[k].ts
<1> DEFINE g == s[k]
<1>1. g \in GoodGofs /\ ~ Padded(g)
  BY DEF Streams, Unpadded
<1> HIDE DEF g
<1>2. Exact(g) /\ g \in Gofs
  BY <1>1 DEF GoodGofs
<1>3. g.ts \in Times /\ \A x \in DOMAIN g.units : UnitAt(g.units[x], x, g.ts)
  BY <1>2 DEF Exact
<1>4. ASSUME t \in DOMAIN g.units
      PROVE  /\ g.units[t].nalus \in Seq(FramesOf(t)) /\ g.units[t].nalus # <<>>
             /\ g.units[t].ts = g.ts
             /\ \A i \in DOMAIN g.units[t].nalus : g.units[t].nalus[i].ts = g.ts
  <2> DEFINE q == g.units[t].nalus
  <2>1. /\ \A i \in DOMAIN q : q[i] \in FramesOf(t) /\ q[i].ts = g.ts
        /\ g.units[t].ts = g.ts
    BY <1>3, <1>4 DEF UnitAt
  <2>2. g.units[t] \in Units
    BY <1>2, <1>4, GofFields
  <2>3. q \in Seq([id : Nat, ts : Stamps])
    BY <2>2 DEF Units
  <2>4. q # <<>>
    BY <1>1, <1>4 DEF Padded
  <2> HIDE DEF q
  <2>5. q \in Seq(FramesOf(t))
    BY <2>1, <2>3
  <2> QED BY <2>1, <2>4, <2>5 DEF q
<1>5. ASSUME NEW y \in UnitIds(g, t) PROVE y \in DOMAIN Frames[t] /\ Frame(t, y).ts = g.ts
  <2>1. t \in DOMAIN g.units /\ y \in Ids(g.units[t].nalus)
    BY <1>5 DEF UnitIds
  <2>2. PICK i \in DOMAIN g.units[t].nalus : y = g.units[t].nalus[i].id
    BY <2>1 DEF Ids
  <2> DEFINE n == g.units[t].nalus[i]
  <2>3. n \in FramesOf(t) /\ n.ts = g.ts /\ y = n.id
    BY <1>4, <2>1, <2>2
  <2> HIDE DEF n
  <2> QED BY <2>3, FrameIs
<1> QED BY <1>3, <1>4, <1>5 DEF g

(* What a GoF takes of a type keeps the type in order, whether the GoF is   *)
(* filed or lost.                                                           *)
LEMMA PartedOrdered ==
  ASSUME NEW t \in Types, NEW s \in Streams, NEW r \in Streams, NEW q \in Seq(FramesOf(t)),
         NEW p0 \in Seq(FramesOf(t)), NEW w0 \in Seq(FramesOf(t)),
         NEW p \in Seq(FramesOf(t)), NEW w \in Seq(FramesOf(t)), NEW N \in SUBSET DOMAIN Frames[t],
         PartedAs(q, p0, w0, p, w), Ordered(s, t, p0, w0, N),
         Len(r) \in {Len(s), Len(s) + 1}, \A j \in 1..Len(s) : r[j] = s[j],
         Len(r) = Len(s) + 1 /\ Unpadded(r) =>
           (t \in DOMAIN r[Len(r)].units => r[Len(r)].units[t].nalus = q)
  PROVE  Ordered(r, t, p, w, N)
<1> DEFINE Q == Ids(q)  L == Ids(p \o w)  L0 == Ids(p0 \o w0)  m == Len(s)  n == Len(r)
           F == FiledIn(s, t)
<1>1. /\ Rising(q) /\ Rising(p \o w) /\ Below(Q, L) /\ Len(p) \in 0..2 /\ Q \cup L = L0
      /\ q = <<>> => p = p0
      /\ \A i \in DOMAIN q : q[i].ts = q[1].ts
      /\ q # <<>> => \A i \in DOMAIN p : p[i].ts = q[1].ts =>
                        Len(p) = 1 /\ Len(p0) = 2 /\ q[1] = p0[1]
  BY DEF PartedAs
<1>2. Below(L0, N)
  BY DEF Ordered, Lined
<1>3. Lined(p, w, N)
  <2>1. Below(L, N)
    BY <1>1, <1>2 DEF Below
  <2> QED BY <1>1, <2>1 DEF Lined
<1> SUFFICES ASSUME Unpadded(r)
             PROVE  FiledRising(r, t) /\ Below(FiledIn(r, t), L \cup N) /\ Tip(r, t, p)
  BY <1>3 DEF Ordered
<1>4. /\ m \in Nat /\ n \in Nat /\ n \in {m, m + 1} /\ \A j \in 1..m : r[j] = s[j] /\ j \in 1..n
  BY DEF Streams
<1>5. Unpadded(s)
  BY <1>4 DEF Unpadded
<1>6. FiledRising(s, t) /\ Below(F, L0 \cup N) /\ Tip(s, t, p0)
  BY <1>5 DEF Ordered
<1>7. \A j \in 1..n : j \in 1..m \/ (j = m + 1 /\ n = m + 1)
  BY <1>4
<1>8. \A j \in 1..m : UnitIds(r[j], t) = UnitIds(s[j], t) /\ UnitIds(s[j], t) \subseteq F
  BY <1>4 DEF FiledIn
<1>9. n = m + 1 => /\ UnitIds(r[m + 1], t) \subseteq Q
                   /\ t \in DOMAIN r[m + 1].units => r[m + 1].units[t].nalus = q
  BY DEF UnitIds
<1> HIDE DEF m, n, F
<1>10. Below(F, Q)
  BY <1>1, <1>6 DEF Below
<1>11. FiledRising(r, t)
  <2>1. ASSUME NEW k \in 1..n, NEW l \in 1..n, k < l
        PROVE  Below(UnitIds(r[k], t), UnitIds(r[l], t))
    <3>1. k \in 1..m
      BY <1>4, <1>7, <2>1
    <3>2. CASE l \in 1..m
      BY <1>6, <1>8, <2>1, <3>1, <3>2 DEF FiledRising, m
    <3>3. CASE l = m + 1 /\ n = m + 1
      <4>1. UnitIds(r[k], t) \subseteq F /\ UnitIds(r[l], t) \subseteq Q
        BY <1>8, <1>9, <3>1, <3>3
      <4> QED BY <1>10, <4>1 DEF Below
    <3> QED BY <1>7, <3>2, <3>3
  <2>2. ASSUME NEW k \in 1..n, t \in DOMAIN r[k].units PROVE Rising(r[k].units[t].nalus)
    <3>1. CASE k \in 1..m
      BY <1>4, <1>6, <2>2, <3>1 DEF FiledRising, m
    <3>2. CASE k = m + 1 /\ n = m + 1
      BY <1>1, <1>9, <2>2, <3>2
    <3> QED BY <1>7, <3>1, <3>2
  <2> QED BY <2>1, <2>2 DEF FiledRising, n
<1>12. Below(FiledIn(r, t), L \cup N)
  <2>1. FiledIn(r, t) \subseteq F \cup Q
    <3> SUFFICES ASSUME NEW k \in 1..n PROVE UnitIds(r[k], t) \subseteq F \cup Q
      BY DEF FiledIn, n
    <3> QED BY <1>7, <1>8, <1>9
  <2>2. Below(F, L \cup N)
    BY <1>1, <1>6 DEF Below
  <2>3. Below(Q, L \cup N)
    BY <1>1, <1>2 DEF Below
  <2> HIDE DEF Q, L, L0
  <2> QED BY <2>1, <2>2, <2>3 DEF Below
<1>13. Tip(r, t, p)
  <2> SUFFICES ASSUME NEW i \in DOMAIN p, NEW k \in 1..n, NEW y \in UnitIds(r[k], t),
                      Frame(t, y).ts = p[i].ts
               PROVE  Len(p) = 1 /\ \A l \in 1..n : l > k => UnitIds(r[l], t) = {}
    BY DEF Tip, n
  <2>1. p[i].id \in L
    <3>1. Ids(p \o w) = Ids(p) \cup Ids(w)
      BY Joined
    <3> QED BY <3>1 DEF Ids
  <2>2. CASE q = <<>>
    <3>1. p = p0 /\ Q = {}
      BY <1>1, <2>2 DEF Ids
    <3>2. k \in 1..m
      BY <1>7, <1>9, <3>1
    <3>3. Len(p) = 1 /\ \A l \in 1..m : l > k => UnitIds(s[l], t) = {}
      BY <1>6, <1>8, <3>1, <3>2 DEF Tip, m
    <3> QED BY <1>7, <1>8, <1>9, <3>1, <3>3
  <2>3. CASE q # <<>>
    <3>1. 1 \in DOMAIN q
      BY <2>3
    <3>2. q[1].id \in Q /\ q[1] \in FramesOf(t)
      BY <3>1 DEF Ids
    <3>3. CASE k \in 1..m
      <4>1. y \in F /\ y \in UnitIds(s[k], t)
        BY <1>8, <3>3
      <4>2. y < q[1].id /\ q[1].id < p[i].id
        BY <1>1, <1>10, <2>1, <3>2, <4>1 DEF Below
      <4>3. y \in DOMAIN Frames[t] /\ y \in Nat
        <5>1. y \in DOMAIN Frames[t]
          BY <1>5, <3>3, <4>1, FiledFrame DEF m
        <5>2. Frames[t] \in Seq(DOMAIN Instants)
          BY ReceiverAssumption
        <5> QED BY <5>1, <5>2
      <4>4. /\ q[1].id \in DOMAIN Frames[t] /\ q[1] = Frame(t, q[1].id) /\ q[1].id \in Nat
        BY <3>2, FrameIs
      <4>5. /\ p[i].id \in DOMAIN Frames[t] /\ p[i] = Frame(t, p[i].id) /\ p[i].id \in Nat
        <5>1. p[i] \in FramesOf(t)
          OBVIOUS
        <5> QED BY <5>1, FrameIs
      <4> DEFINE a == q[1].id  b == p[i].id
      <4>6. y <= a /\ a <= b /\ Frame(t, y).ts = Frame(t, b).ts
        <5>1. y \in Nat /\ a \in Nat /\ b \in Nat /\ y < a /\ a < b
          BY <4>2, <4>3, <4>4, <4>5
        <5>2. Frame(t, y).ts = Frame(t, b).ts
          BY <4>5
        <5> HIDE DEF a, b
        <5> QED BY <5>1, <5>2
      <4>7. a \in DOMAIN Frames[t] /\ b \in DOMAIN Frames[t] /\ q[1].ts = Frame(t, a).ts
        BY <4>4, <4>5
      <4> HIDE DEF a, b
      <4>8. q[1].ts = Frame(t, y).ts
        BY <4>3, <4>6, <4>7, SentGrouped
      <4>9. Len(p0) = 2 /\ q[1] = p0[1]
        BY <1>1, <2>3, <4>8
      <4>10. 1 \in DOMAIN p0 /\ Frame(t, y).ts = p0[1].ts
        BY <4>8, <4>9
      <4>11. Len(p0) = 1
        BY <1>6, <3>3, <4>1, <4>10 DEF Tip, m
      <4>12. Len(p0) # 2
        BY <4>11
      <4> QED BY <4>9, <4>12
    <3>4. CASE k = m + 1 /\ n = m + 1
      <4>1. y \in Q
        BY <1>9, <3>4
      <4>2. PICK j \in DOMAIN q : y = q[j].id
        BY <4>1 DEF Ids
      <4>3. q[j] \in FramesOf(t) /\ q[j].ts = q[1].ts
        BY <1>1
      <4>4. Frame(t, y).ts = q[1].ts
        BY <4>2, <4>3, FrameIs
      <4>5. \A l \in 1..n : ~ (l > k)
        BY <1>4, <3>4
      <4> QED BY <1>1, <2>3, <4>4, <4>5
    <3> QED BY <1>7, <3>3, <3>4
  <2> QED BY <2>2, <2>3
<1> QED BY <1>11, <1>12, <1>13

(* A call's sizes, when few NALUs are asked for by number.                  *)
FewSizes == {z \in Sizes : \A t \in Types \ {VPS} : z[t] \in {1, 2, SizeMax}}

(* receive_gof, after the types below k: what each type gave to the GoF.    *)
TypePart(a, k, x, q, f, h, sizes) ==
  /\ PartedAs(q, f[x], h[x], a.buffer[x], a.socket[x])
  /\ x \in DOMAIN a.gof.units => a.gof.units[x].nalus = q /\ (sizes[x] > 0 => q # <<>>)
  /\ a.ok /\ x < k /\ sizes[x] > 0 /\ f[x] \o h[x] # <<>> => x \in DOMAIN a.gof.units
  /\ sizes[x] > 0 /\ Fits(x, sizes[x]) => TakesInstant(x, q, f[x] \o h[x])
GofParts(a, k, f, h, sizes) ==
  \A x \in Types :
    /\ x \in DOMAIN a.gof.units => x < k
    /\ x >= k => a.buffer[x] = f[x] /\ a.socket[x] = h[x]
    /\ \E q \in Seq(FramesOf(x)) : TypePart(a, k, x, q, f, h, sizes)
LinesOk(f, h) == \A x \in Types : Rising(f[x] \o h[x]) /\ Len(f[x]) \in 0..2

(* A sequence without NALUs.                                                *)
LEMMA NoIds == ASSUME NEW P, NEW q \in Seq(P) PROVE Ids(q) = {} <=> q = <<>>
<1>1. q # <<>> => 1 \in DOMAIN q
  OBVIOUS
<1>2. q = <<>> => DOMAIN q = {}
  OBVIOUS
<1> QED BY <1>1, <1>2 DEF Ids

(* Nothing taken.                                                           *)
LEMMA NonePart ==
  ASSUME NEW t \in Types, NEW p \in Seq(FramesOf(t)), NEW w \in Seq(FramesOf(t)),
         Rising(p \o w), Len(p) \in 0..2
  PROVE  PartedAs(<<>>, p, w, p, w) /\ <<>> \in Seq(FramesOf(t))
<1>1. <<>> \in Seq(FramesOf(t)) /\ DOMAIN <<>> = {}
  OBVIOUS
<1>2. Ids(<<>>) = {}
  BY <1>1 DEF Ids
<1> QED BY <1>1, <1>2 DEF PartedAs, Rising, Below

(* One type.                                                                *)
LEMMA AddParts ==
  ASSUME NEW t \in Types, NEW sizes \in FewSizes, NEW f \in Buffers, NEW h \in Queues,
         LinesOk(f, h), NEW a \in Accs, GofParts(a, t, f, h, sizes)
  PROVE  GofParts(AddUnit(a, t, sizes[t]), t + 1, f, h, sizes)
<1> DEFINE n == sizes[t]  g == a.gof  p == a.buffer  q == a.socket
           r == Assemble(t, n, p[t], q[t])
           p2 == [p EXCEPT ![t] = r.buffer]  q2 == [q EXCEPT ![t] = r.socket]
           ok == GofAccepts(g, r.unit)
           g2 == IF ok THEN GofSet(g, t, r.unit) ELSE EmptyGof
           b == AddUnit(a, t, n)
<1>1. g \in GoodGofs \cup {EmptyGof} /\ q \in Queues /\ p \in Buffers
  BY DEF Accs
<1>2. n \in Nat /\ Asks(t, n)
  BY DEF FewSizes, Sizes, Asks
<1>3. Types \subseteq Nat /\ t \in Nat
  BY ReceiverAssumption DEF NumTypes
<1>4. p[t] = f[t] /\ q[t] = h[t] /\ t \notin DOMAIN g.units
  BY <1>3 DEF GofParts
<1>5. /\ f[t] \in Seq(FramesOf(t)) /\ h[t] \in Seq(FramesOf(t)) /\ (t = VPS => f[t] = <<>>)
      /\ Rising(f[t] \o h[t]) /\ Len(f[t]) \in 0..2
  BY QueueOf DEF LinesOk
<1>6. \A x \in Types : (x < t => x < t + 1) /\ (x >= t + 1 => x >= t /\ x # t)
                       /\ (x < t + 1 => x < t \/ x = t) /\ t < t + 1
  BY <1>3
<1> HIDE DEF n
<1>7. r = Assemble(t, n, f[t], h[t])
  BY <1>4
<1> HIDE DEF r
<1>8. /\ ~ r.timeout => PartedAs(r.unit.nalus, f[t], h[t], r.buffer, r.socket)
      /\ n > 0 /\ ~ r.timeout => r.unit.nalus # <<>>
      /\ n > 0 /\ f[t] \o h[t] # <<>> => ~ r.timeout
      /\ n > 0 /\ ~ r.timeout /\ Fits(t, n) => TakesInstant(t, r.unit.nalus, f[t] \o h[t])
  BY <1>2, <1>5, <1>7, AssembleParts
<1>9. CASE ~ a.ok \/ r.timeout
  <2>1. b = a
    BY <1>9 DEF AddUnit, AddReceived, r
  <2> HIDE DEF b, g, p, q
  <2>2. ASSUME NEW x \in Types
        PROVE  \E v \in Seq(FramesOf(x)) : TypePart(a, t + 1, x, v, f, h, sizes)
    <3>1. PICK v \in Seq(FramesOf(x)) : TypePart(a, t, x, v, f, h, sizes)
      BY DEF GofParts
    <3>2. a.ok /\ x < t + 1 /\ sizes[x] > 0 /\ f[x] \o h[x] # <<>> => x < t
      BY <1>6, <1>8, <1>9 DEF n
    <3>3. TypePart(a, t + 1, x, v, f, h, sizes)
      BY <3>1, <3>2 DEF TypePart
    <3> QED BY <3>3
  <2>3. GofParts(a, t + 1, f, h, sizes)
    BY <1>6, <2>2 DEF GofParts
  <2> QED BY <2>1, <2>3 DEF b, n
<1>10. CASE ~ (~ a.ok \/ r.timeout)
  <2>1. b.gof = g2 /\ b.socket = q2 /\ b.buffer = p2 /\ b.ok = ok
    BY <1>10 DEF AddUnit, AddReceived, r
  <2> HIDE DEF p, q, g, b
  <2>2. /\ r.unit \in Received(t)
        /\ r.buffer \in Seq(FramesOf(t)) /\ (t = VPS => r.buffer = <<>>)
        /\ r.socket \in Seq(FramesOf(t))
    BY <1>2, <1>5, <1>7, <1>10, AssembleGood DEF Asks
  <2> DEFINE u == r.unit
  <2>3. p2 \in Buffers /\ \A x \in Types : p2[x] = IF x = t THEN r.buffer ELSE p[x]
    BY <1>1, <2>2, BufferSet
  <2>4. q2 \in Queues /\ \A x \in Types : q2[x] = IF x = t THEN r.socket ELSE q[x]
    BY <1>1, <2>2, QueueSet
  <2> HIDE DEF p2, q2
  <2>5. /\ \A x \in DOMAIN g2.units : x = t \/ (x \in DOMAIN g.units /\ g2.units[x] = g.units[x])
        /\ ok => DOMAIN g2.units = DOMAIN g.units \cup {t} /\ g2.units[t].nalus = u.nalus
        /\ ~ ok => DOMAIN g2.units = {}
    <3>1. CASE ok
      <4>1. g2 = GofSet(g, t, u)
        BY <3>1
      <4> HIDE DEF g2
      <4>2. /\ g2 \in GoodGofs /\ DOMAIN g2.units = DOMAIN g.units \cup {t}
            /\ \A x \in DOMAIN g.units : g2.units[x] = g.units[x]
            /\ Ids(g2.units[t].nalus) = Ids(u.nalus)
            /\ u.nalus # <<>> => g2.units[t] = u
        BY <1>1, <1>4, <2>2, <3>1, <4>1, SetGood DEF g
      <4>3. ASSUME u.nalus = <<>> PROVE g2.units[t].nalus = <<>>
        <5>1. g2 \in Gofs /\ t \in DOMAIN g2.units
          BY <4>2 DEF GoodGofs
        <5>2. g2.units[t] \in Units
          BY <5>1, GofFields
        <5>3. g2.units[t].nalus \in Seq([id : Nat, ts : Stamps])
          BY <5>2 DEF Units
        <5>4. Ids(u.nalus) = {}
          BY <4>3 DEF Ids
        <5> QED BY <4>2, <5>3, <5>4, NoIds
      <4>4. g2.units[t].nalus = u.nalus
        BY <4>2, <4>3
      <4> QED BY <3>1, <4>2, <4>4
    <3>2. CASE ~ ok
      <4>1. g2 = EmptyGof
        BY <3>2
      <4>2. DOMAIN g2.units = {}
        BY <4>1 DEF EmptyGof
      <4> HIDE DEF g2, ok
      <4> QED BY <3>2, <4>2
    <3> QED BY <3>1, <3>2
  <2> HIDE DEF g2, ok, u
  <2>6. ASSUME NEW x \in Types
        PROVE  \E v \in Seq(FramesOf(x)) : TypePart(b, t + 1, x, v, f, h, sizes)
    <3>1. CASE x = t
      <4>1. u.nalus \in Seq(FramesOf(t))
        BY <2>2 DEF Received, u
      <4>2. PartedAs(u.nalus, f[t], h[t], b.buffer[t], b.socket[t])
        BY <1>8, <1>10, <2>1, <2>3, <2>4 DEF u
      <4>3. t \in DOMAIN g2.units => g2.units[t].nalus = u.nalus
        BY <2>5
      <4>4. n > 0 => u.nalus # <<>>
        BY <1>8, <1>10 DEF u
      <4>5. ok => t \in DOMAIN g2.units
        BY <2>5
      <4>6. n > 0 /\ Fits(t, n) => TakesInstant(t, u.nalus, f[t] \o h[t])
        BY <1>8, <1>10 DEF u
      <4>7. TypePart(b, t + 1, t, u.nalus, f, h, sizes)
        BY <2>1, <4>2, <4>3, <4>4, <4>5, <4>6 DEF TypePart, n
      <4> QED BY <3>1, <4>1, <4>7
    <3>2. CASE x # t
      <4>1. PICK v \in Seq(FramesOf(x)) : TypePart(a, t, x, v, f, h, sizes)
        BY DEF GofParts
      <4>2. b.buffer[x] = p[x] /\ b.socket[x] = q[x]
        BY <2>1, <2>3, <2>4, <3>2
      <4>3. x \in DOMAIN b.gof.units => x \in DOMAIN g.units /\ b.gof.units[x] = g.units[x]
        BY <2>1, <2>5, <3>2
      <4>4. b.ok /\ x < t + 1 /\ sizes[x] > 0 /\ f[x] \o h[x] # <<>> => x \in DOMAIN b.gof.units
        <5> SUFFICES ASSUME b.ok, x < t + 1, sizes[x] > 0, f[x] \o h[x] # <<>>
                     PROVE  x \in DOMAIN b.gof.units
          OBVIOUS
        <5>1. x < t /\ a.ok
          BY <1>6, <1>10, <3>2
        <5>2. x \in DOMAIN g.units
          BY <4>1, <5>1 DEF TypePart, g
        <5> QED BY <2>1, <2>5, <5>2
      <4>5. TypePart(b, t + 1, x, v, f, h, sizes)
        BY <4>1, <4>2, <4>3, <4>4 DEF TypePart, p, q, g
      <4> QED BY <4>5
    <3> QED BY <3>1, <3>2
  <2>7. ASSUME NEW x \in Types
        PROVE  /\ x \in DOMAIN b.gof.units => x < t + 1
               /\ x >= t + 1 => b.buffer[x] = f[x] /\ b.socket[x] = h[x]
    <3>1. x \in DOMAIN b.gof.units => x = t \/ x \in DOMAIN g.units
      BY <2>1, <2>5
    <3>2. x \in DOMAIN g.units => x < t
      BY DEF GofParts, g
    <3>3. x >= t => p[x] = f[x] /\ q[x] = h[x]
      BY DEF GofParts, p, q
    <3>4. x # t => b.buffer[x] = p[x] /\ b.socket[x] = q[x]
      BY <2>1, <2>3, <2>4
    <3> QED BY <1>6, <3>1, <3>2, <3>3, <3>4
  <2> QED BY <2>6, <2>7 DEF GofParts, b, n
<1> QED BY <1>9, <1>10

(* A call with such sizes takes each type in order.                         *)
LEMMA GofPartsAll ==
  ASSUME socket \in Queues, buffer \in Buffers, NEW sizes \in FewSizes, LinesOk(buffer, socket)
  PROVE  GofParts(ReceivedGof(sizes), NumTypes, buffer, socket, sizes)
<1>0. sizes \in Sizes
  BY DEF FewSizes
<1>1. PICK w : GofLoop(w, sizes)
  BY <1>0, GofLoops
<1>2. /\ w \in [0..NumTypes -> Accs] /\ w[0] = StartGof
      /\ \A k \in 1..NumTypes : w[k] = AddTo(w[k - 1], k - 1, sizes)
      /\ ReceivedGof(sizes) = w[NumTypes]
      /\ NumTypes \in Nat /\ NumTypes \in 0..NumTypes /\ 0 \in 0..NumTypes
  BY <1>1 DEF GofLoop, NumTypes
<1> DEFINE f == buffer  h == socket
           Ok(a, k) == a \in Accs /\ GofParts(a, k, f, h, sizes)
           S == [k \in 0..NumTypes |-> {a \in Accs : Ok(a, k)}]
<1>3. \A k \in 0..NumTypes : \A a : a \in S[k] <=> Ok(a, k)
  OBVIOUS
<1> HIDE DEF S
<1>4. w[0].gof = EmptyGof /\ w[0].buffer = f /\ w[0].socket = h /\ w[0].ok = TRUE /\ w[0] \in Accs
  <2>1. w[0] = [gof |-> EmptyGof, socket |-> h, buffer |-> f, ok |-> TRUE] /\ w[0] \in Accs
    BY <1>2 DEF StartGof
  <2> HIDE DEF f, h
  <2> QED BY <2>1
<1>5. f \in Buffers /\ h \in Queues /\ LinesOk(f, h)
  OBVIOUS
<1> HIDE DEF f, h
<1>6. Ok(w[0], 0)
  <2>1. DOMAIN EmptyGof.units = {}
    BY DEF EmptyGof
  <2>2. ASSUME NEW x \in Types
        PROVE  \E v \in Seq(FramesOf(x)) : TypePart(w[0], 0, x, v, f, h, sizes)
    <3>1. f[x] \in Seq(FramesOf(x)) /\ h[x] \in Seq(FramesOf(x))
      BY <1>5, QueueOf
    <3>2. PartedAs(<<>>, f[x], h[x], f[x], h[x]) /\ <<>> \in Seq(FramesOf(x))
      BY <1>5, <3>1, NonePart DEF LinesOk
    <3>3. ~ (x < 0)
      BY ReceiverAssumption DEF NumTypes
    <3>4. TypePart(w[0], 0, x, <<>>, f, h, sizes)
      BY <1>4, <2>1, <3>2, <3>3 DEF TypePart, TakesInstant
    <3> QED BY <3>2, <3>4
  <2> QED BY <1>4, <2>1, <2>2 DEF GofParts
<1>7. ASSUME NEW k \in 1..NumTypes, w[k - 1] \in S[k - 1] PROVE w[k] \in S[k]
  <2> DEFINE i == k - 1  a == w[i]
  <2>1. k \in 0..NumTypes /\ i \in 0..NumTypes /\ i \in Nat /\ k = i + 1
    BY <1>2
  <2>2. w[k] = AddTo(a, i, sizes)
    BY <1>2
  <2>3. Ok(a, i)
    BY <1>3, <1>7, <2>1
  <2> HIDE DEF i, a
  <2>4. a \in Accs /\ GofParts(a, i, f, h, sizes)
    BY <2>3
  <2>5. AddTo(a, i, sizes) \in Accs
    BY <1>0, <2>4, AddRound
  <2>6. GofParts(AddTo(a, i, sizes), k, f, h, sizes)
    <3>1. CASE i \in Types
      <4>1. AddTo(a, i, sizes) = AddUnit(a, i, sizes[i])
        BY <3>1 DEF AddTo
      <4> QED BY <1>5, <2>1, <2>4, <3>1, <4>1, AddParts
    <3>2. CASE i \notin Types
      <4>1. \A x \in Types : (x < i => x < k) /\ (x >= k => x >= i) /\ (x < k => x < i)
        <5> SUFFICES ASSUME NEW x \in Types
                     PROVE  (x < i => x < k) /\ (x >= k => x >= i) /\ (x < k => x < i)
          OBVIOUS
        <5>1. x \in Nat /\ x # i
          BY <3>2, ReceiverAssumption DEF NumTypes
        <5> QED BY <2>1, <5>1
      <4>2. \A x \in Types : \A v :
              TypePart(a, i, x, v, f, h, sizes) => TypePart(a, k, x, v, f, h, sizes)
        BY <4>1 DEF TypePart
      <4>3. GofParts(a, k, f, h, sizes)
        BY <2>4, <4>1, <4>2 DEF GofParts
      <4> QED BY <3>2, <4>3 DEF AddTo
    <3> QED BY <3>1, <3>2
  <2> QED BY <1>3, <2>1, <2>2, <2>5, <2>6
<1> HIDE DEF Ok
<1>8. w[0] \in S[0]
  BY <1>2, <1>3, <1>6
<1>9. w[NumTypes] \in S[NumTypes]
  BY <1>2, <1>7, <1>8, Rounds
<1> QED BY <1>2, <1>3, <1>9 DEF Ok, f, h

(* The buffer, the queue and the network of every type.                     *)
AllOrdered(s, f, h, N) == \A t \in Types : Ordered(s, t, f[t], h[t], N[t])
Networks == {N \in [Types -> SUBSET Nat] : \A t \in Types : N[t] \subseteq DOMAIN Frames[t]}

(* A GoF that was received and is filed.                                    *)
LEMMA FiledOrdered ==
  ASSUME NEW s \in Streams, NEW g \in GoodGofs, NEW t \in Types,
         NEW q, t \in DOMAIN g.units => g.units[t].nalus = q,
         NEW r, r = PushGof(s, g).stream, Unpadded(r)
  PROVE  t \in DOMAIN r[Len(s) + 1].units => r[Len(s) + 1].units[t].nalus = q
<1> DEFINE e == r[Len(s) + 1]
<1>1. /\ r \in Streams /\ Len(r) = Len(s) + 1 /\ Len(s) \in Nat
      /\ \A x \in Types : UnitIds(e, x) = UnitIds(g, x)
      /\ DOMAIN e.units = DOMAIN g.units
      /\ IsSet(g.ts) => e.ts = g.ts /\ e.units = g.units
  BY PushGofGood DEF Streams
<1>2. ~ Padded(e)
  <2>1. Len(s) + 1 \in 1..Len(r)
    BY <1>1
  <2> QED BY <2>1 DEF Unpadded
<1>3. e \in GoodGofs
  <2>1. Len(s) + 1 \in 1..Len(r)
    BY <1>1
  <2> QED BY <1>1, <2>1 DEF Streams
<1> HIDE DEF e
<1>4. ~ Padded(g)
  <2> SUFFICES ASSUME NEW x \in DOMAIN g.units, g.units[x].nalus = <<>> PROVE FALSE
    BY DEF Padded
  <2>1. x \in Types /\ x \in DOMAIN e.units
    BY <1>1, GofFields DEF GoodGofs
  <2>2. UnitIds(e, x) = {}
    <3>1. UnitIds(g, x) = {}
      BY DEF UnitIds, Ids
    <3> QED BY <1>1, <2>1, <3>1
  <2>3. e.units[x] \in Units
    BY <1>3, <2>1, GofFields DEF GoodGofs
  <2>4. e.units[x].nalus \in Seq([id : Nat, ts : Stamps])
    BY <2>3 DEF Units
  <2>5. e.units[x].nalus = <<>>
    BY <2>1, <2>2, <2>4, NoIds DEF UnitIds
  <2> QED BY <1>2, <2>1, <2>5 DEF Padded
<1>5. IsSet(g.ts)
  BY <1>4, Clock DEF GoodGofs, Exact, IsSet
<1> QED BY <1>1, <1>5 DEF e

(* receive_gof before the buffers are tried: the GoF is filed.              *)
LEMMA GofOrdered ==
  ASSUME NEW s \in Streams, NEW f \in Buffers, NEW h \in Queues, NEW N \in Networks,
         AllOrdered(s, f, h, N), NEW sizes, NEW a \in Accs, GofParts(a, NumTypes, f, h, sizes)
  PROVE  /\ AllOrdered(s, a.buffer, a.socket, N)
         /\ a.gof \in GoodGofs => AllOrdered(PushGof(s, a.gof).stream, a.buffer, a.socket, N)
<1> DEFINE p == a.buffer  w == a.socket  g == a.gof  r == PushGof(s, g).stream
<1>1. p \in Buffers /\ w \in Queues
  BY DEF Accs
<1> HIDE DEF r
<1>2. ASSUME NEW t \in Types
      PROVE  /\ Ordered(s, t, p[t], w[t], N[t])
             /\ g \in GoodGofs => Ordered(r, t, p[t], w[t], N[t])
  <2>1. PICK q \in Seq(FramesOf(t)) : TypePart(a, NumTypes, t, q, f, h, sizes)
    BY DEF GofParts
  <2>2. /\ PartedAs(q, f[t], h[t], p[t], w[t])
        /\ t \in DOMAIN g.units => g.units[t].nalus = q
    BY <2>1 DEF TypePart
  <2>3. /\ f[t] \in Seq(FramesOf(t)) /\ h[t] \in Seq(FramesOf(t))
        /\ p[t] \in Seq(FramesOf(t)) /\ w[t] \in Seq(FramesOf(t))
        /\ N[t] \in SUBSET DOMAIN Frames[t]
    BY <1>1, QueueOf DEF Networks
  <2>4. Ordered(s, t, f[t], h[t], N[t])
    BY DEF AllOrdered
  <2>5. Len(s) \in Nat /\ Len(s) # Len(s) + 1
    BY DEF Streams
  <2>6. Ordered(s, t, p[t], w[t], N[t])
    <3> HIDE DEF p, w, g
    <3> QED BY <2>2, <2>3, <2>4, <2>5, PartedOrdered
  <2>7. ASSUME g \in GoodGofs PROVE Ordered(r, t, p[t], w[t], N[t])
    <3>1. /\ r \in Streams /\ Len(r) = Len(s) + 1 /\ \A j \in 1..Len(s) : r[j] = s[j]
      BY <2>7, PushGofGood DEF r
    <3>2. r = PushGof(s, g).stream
      BY DEF r
    <3> HIDE DEF p, w, g
    <3>3. t \in DOMAIN g.units => g.units[t].nalus = q
      BY <2>2
    <3>4. ASSUME Unpadded(r)
          PROVE  t \in DOMAIN r[Len(s) + 1].units => r[Len(s) + 1].units[t].nalus = q
      BY <2>7, <3>2, <3>3, <3>4, FiledOrdered
    <3>5. Unpadded(r) => (t \in DOMAIN r[Len(r)].units => r[Len(r)].units[t].nalus = q)
      BY <3>1, <3>4
    <3> QED BY <2>2, <2>3, <2>4, <3>1, <3>5, PartedOrdered
  <2> QED BY <2>6, <2>7
<1> QED BY <1>2 DEF AllOrdered, r

(* A NALU of the type t was filed: only units of this type changed, and no  *)
(* GoF lost its empty unit.                                                 *)
Filing(s, r, t) ==
  /\ Len(r) = Len(s) /\ (Unpadded(r) => Unpadded(s))
  /\ \A j \in 1..Len(s), x \in Types : x # t =>
       /\ x \in DOMAIN r[j].units <=> x \in DOMAIN s[j].units
       /\ x \in DOMAIN s[j].units => r[j].units[x] = s[j].units[x]

(* push_back of a NALU that finds its unit, the k-th GoF's.                 *)
FiledAt(s, r, t, n, k) ==
  /\ TsOf(s[k].ts) = n.ts /\ t \in DOMAIN s[k].units /\ t \in DOMAIN r[k].units
  /\ r[k].units[t].nalus = Append(s[k].units[t].nalus, n)
  /\ \A j \in 1..Len(s) : j # k => r[j] = s[j]

(* A NALU that is refused or throws leaves the stream as it is.             *)
LEMMA PushNaluIs ==
  ASSUME NEW s \in Streams, NEW t \in Types, t # VPS, NEW n \in FramesOf(t)
  PROVE  LET p == PushNalu(s, t, n)
         IN /\ Filing(s, p.stream, t)
            /\ p.outcome # "pushed" => p.stream = s
            /\ p.outcome = "pushed" => \E k \in 1..Len(s) : FiledAt(s, p.stream, t, n, k)
<1> DEFINE p == PushNalu(s, t, n)  k == FindTimestamp(s, n.ts)
<1>1. Len(s) \in Nat /\ k \in 1..(Len(s) + 1) /\ (k <= Len(s) => TsOf(s[k].ts) = n.ts)
  <2>1. Len(s) \in Nat
    BY DEF Streams
  <2> QED BY <2>1, FoundGof
<1>2. Filing(s, s, t)
  BY DEF Filing
<1>3. CASE p.outcome # "pushed"
  <2>1. p.stream = s
    BY <1>3, PushNaluGood
  <2> HIDE DEF p
  <2> QED BY <1>2, <1>3, <2>1 DEF p
<1>4. CASE p.outcome = "pushed"
  <2>1. /\ ~ (s = <<>> \/ ~ IsSet(n.ts) \/ k > Len(s))
        /\ t \in DOMAIN s[k].units /\ UnitAccepts(s[k].units[t], n)
        /\ p.stream = [s EXCEPT ![k].units[t] = UnitPush(@, n)]
    BY <1>4 DEF PushNalu
  <2>2. k \in 1..Len(s) /\ s[k] \in GoodGofs /\ TsOf(s[k].ts) = n.ts
    BY <1>1, <2>1 DEF Streams
  <2> DEFINE g == s[k]  h == [g EXCEPT !.units[t] = UnitPush(@, n)]  r == [s EXCEPT ![k] = h]
  <2> HIDE DEF p, k
  <2>3. p.stream = r
    BY <2>1
  <2>4. /\ DOMAIN h.units = DOMAIN g.units
        /\ h.units[t].nalus = Append(g.units[t].nalus, n)
        /\ \A x \in DOMAIN g.units : x # t => h.units[x] = g.units[x]
        /\ Padded(g) => Padded(h)
    <3>1. g \in GoodGofs /\ t \in DOMAIN g.units /\ TsOf(g.ts) = n.ts /\ UnitAccepts(g.units[t], n)
      BY <2>1, <2>2
    <3>2. h = [g EXCEPT !.units[t] = UnitPush(@, n)]
      OBVIOUS
    <3> HIDE DEF g, h
    <3>3. LET e == [g EXCEPT !.units[t] = UnitPush(@, n)]
          IN /\ e \in GoodGofs /\ e.ts = g.ts /\ Gains(g, e, t, {n.id})
             /\ DOMAIN e.units = DOMAIN g.units
             /\ \A x \in DOMAIN g.units : e.units[x].ts = g.units[x].ts
             /\ \A x \in Types : UnitIds(g, x) \subseteq UnitIds(e, x)
             /\ n.id \in UnitIds(e, t)
             /\ e.units[t].nalus = Append(g.units[t].nalus, n)
             /\ \A x \in DOMAIN g.units : x # t => e.units[x] = g.units[x]
             /\ Padded(g) => Padded(e)
      BY <3>1, PushedGood
    <3> QED BY <3>2, <3>3
  <2>5. Len(r) = Len(s) /\ r[k] = h /\ \A j \in 1..Len(s) : j # k => r[j] = s[j]
    <3> HIDE DEF h
    <3> QED BY <2>2 DEF Streams
  <2> HIDE DEF r, h
  <2>6. Filing(s, r, t)
    <3>1. ASSUME Unpadded(r), NEW j \in 1..Len(s), Padded(s[j]) PROVE FALSE
      <4>1. j # k => r[j] = s[j]
        BY <2>5
      <4>2. ~ Padded(r[j])
        BY <2>5, <3>1 DEF Unpadded
      <4> QED BY <2>4, <2>5, <3>1, <4>1, <4>2
    <3>2. ASSUME NEW j \in 1..Len(s), NEW x \in Types, x # t
          PROVE  /\ x \in DOMAIN r[j].units <=> x \in DOMAIN s[j].units
                 /\ x \in DOMAIN s[j].units => r[j].units[x] = s[j].units[x]
      <4>1. CASE j = k
        <5>1. r[j] = h /\ s[j] = g
          BY <2>5, <4>1
        <5>2. /\ x \in DOMAIN h.units <=> x \in DOMAIN g.units
              /\ x \in DOMAIN g.units => h.units[x] = g.units[x]
          BY <2>4, <3>2
        <5> HIDE DEF g
        <5> QED BY <5>1, <5>2
      <4>2. CASE j # k
        BY <2>5, <4>2, SMTT(30)
      <4> QED BY <4>1, <4>2
    <3> QED BY <2>5, <3>1, <3>2 DEF Filing, Unpadded
  <2>7. FiledAt(s, r, t, n, k)
    BY <2>1, <2>2, <2>4, <2>5 DEF FiledAt
  <2> QED BY <1>4, <2>2, <2>3, <2>6, <2>7 DEF p
<1> QED BY <1>3, <1>4

(* One filing after the other.                                              *)
LEMMA FilingTrans ==
  ASSUME NEW s, NEW r, NEW q, NEW t, Filing(s, r, t), Filing(r, q, t) PROVE Filing(s, q, t)
BY DEF Filing

(* The other types stay in order.                                           *)
LEMMA OtherOrdered ==
  ASSUME NEW s, NEW r, NEW t, Filing(s, r, t), NEW x \in Types, x # t,
         NEW p, NEW w, NEW N, Ordered(s, x, p, w, N)
  PROVE  Ordered(r, x, p, w, N)
<1> SUFFICES ASSUME Unpadded(r)
             PROVE  /\ FiledRising(r, x) /\ Below(FiledIn(r, x), Ids(p \o w) \cup N)
                    /\ Tip(r, x, p)
  BY DEF Ordered
<1>1. /\ Len(r) = Len(s) /\ Unpadded(s)
      /\ \A j \in 1..Len(s) :
           /\ x \in DOMAIN r[j].units <=> x \in DOMAIN s[j].units
           /\ x \in DOMAIN s[j].units => r[j].units[x] = s[j].units[x]
  BY DEF Filing
<1>2. /\ FiledRising(s, x) /\ Below(FiledIn(s, x), Ids(p \o w) \cup N) /\ Tip(s, x, p)
  BY <1>1 DEF Ordered
<1>3. \A j \in 1..Len(s) : UnitIds(r[j], x) = UnitIds(s[j], x)
  BY <1>1 DEF UnitIds
<1>4. FiledIn(r, x) = FiledIn(s, x)
  BY <1>1, <1>3 DEF FiledIn
<1>5. FiledRising(r, x)
  BY <1>1, <1>2, <1>3 DEF FiledRising
<1>6. Tip(r, x, p)
  BY <1>1, <1>2, <1>3 DEF Tip
<1> QED BY <1>2, <1>4, <1>5, <1>6

(* Fewer NALUs are buffered, and the stream is as it was or padded.         *)
Within(q, p) == q \in {p, <<>>} \cup {<<p[i]>> : i \in DOMAIN p}

(* Of a buffer of two, what is left is part of it.                          *)
LEMMA WithinIds ==
  ASSUME NEW P, NEW p \in Seq(P), NEW q, Within(q, p) PROVE Ids(q) \subseteq Ids(p)
<1>1. CASE q = p
  BY <1>1
<1>2. CASE q = <<>>
  BY <1>2 DEF Ids
<1>3. CASE \E i \in DOMAIN p : q = <<p[i]>>
  <2>1. PICK i \in DOMAIN p : q = <<p[i]>>
    BY <1>3
  <2>2. DOMAIN q = {1} /\ q[1] = p[i]
    BY <2>1
  <2> QED BY <2>2 DEF Ids
<1> QED BY <1>1, <1>2, <1>3 DEF Within

(* What is left of a buffer is in order.                                    *)
LEMMA WithinOrdered ==
  ASSUME NEW t \in Types, NEW s, NEW r, NEW p \in Seq(FramesOf(t)), NEW q, Within(q, p),
         NEW w \in Seq(FramesOf(t)), NEW N, Ordered(s, t, p, w, N), Unpadded(r) => r = s
  PROVE  Ordered(r, t, q, w, N)
<1> DEFINE P == FramesOf(t)
<1>1. /\ q \in Seq(P) /\ Ids(q) \subseteq Ids(p) /\ (q # p => Len(q) \in 0..1)
      /\ \A i \in DOMAIN q : (\E j \in DOMAIN p : q[i] = p[j]) /\ (q # p => Len(q) = 1)
      /\ q # p => Rising(q)
  <2>1. CASE q = p
    <3> QED BY <2>1
  <2>2. CASE q = <<>>
    BY <2>2 DEF Ids, Rising
  <2>3. CASE \E i \in DOMAIN p : q = <<p[i]>>
    <3>1. PICK i \in DOMAIN p : q = <<p[i]>>
      BY <2>3
    <3>2. p[i] \in P /\ DOMAIN q = {1} /\ q[1] = p[i] /\ Len(q) = 1 /\ q \in Seq(P)
      BY <3>1
    <3> HIDE DEF P
    <3> QED BY <3>2 DEF Ids, Rising
  <2> QED BY <2>1, <2>2, <2>3 DEF Within
<1>2. Rising(p \o w) /\ Below(Ids(p \o w), N) /\ Len(p) \in 0..2
  BY DEF Ordered, Lined
<1>3. Rising(q \o w)
  <2>1. Rising(p) /\ Rising(w) /\ Below(Ids(p), Ids(w))
    BY <1>2, JoinedRising
  <2>2. Rising(q) /\ Below(Ids(q), Ids(w))
    BY <1>1, <2>1 DEF Below
  <2> QED BY <1>1, <2>1, <2>2, JoinedRising
<1>4. Ids(q \o w) \subseteq Ids(p \o w)
  BY <1>1, Joined
<1>5. Lined(q, w, N)
  <2>1. Below(Ids(q \o w), N)
    BY <1>2, <1>4 DEF Below
  <2>2. Len(q) \in 0..2
    BY <1>1, <1>2
  <2> QED BY <1>3, <2>1, <2>2 DEF Lined
<1> SUFFICES ASSUME Unpadded(s), r = s
             PROVE  /\ FiledRising(s, t) /\ Below(FiledIn(s, t), Ids(q \o w) \cup N)
                    /\ Tip(s, t, q)
  BY <1>5 DEF Ordered
<1>6. FiledRising(s, t) /\ Below(FiledIn(s, t), Ids(p \o w) \cup N) /\ Tip(s, t, p)
  BY DEF Ordered
<1>7. Below(FiledIn(s, t), Ids(q \o w) \cup N)
  BY <1>4, <1>6 DEF Below
<1>8. Tip(s, t, q)
  <2> SUFFICES ASSUME NEW i \in DOMAIN q, NEW k \in 1..Len(s), NEW y \in UnitIds(s[k], t),
                      Frame(t, y).ts = q[i].ts
               PROVE  Len(q) = 1 /\ \A l \in 1..Len(s) : l > k => UnitIds(s[l], t) = {}
    BY DEF Tip
  <2>1. PICK j \in DOMAIN p : q[i] = p[j]
    BY <1>1
  <2>2. Len(p) = 1 /\ \A l \in 1..Len(s) : l > k => UnitIds(s[l], t) = {}
    BY <1>6, <2>1 DEF Tip
  <2> QED BY <1>1, <2>2
<1> QED BY <1>6, <1>7, <1>8

(* The one NALU of a buffer joins its unit, the last of the type.           *)
LEMMA PushedOrdered ==
  ASSUME NEW t \in Types, NEW s \in Streams, NEW r \in Streams, Filing(s, r, t),
         NEW p \in Seq(FramesOf(t)), NEW i \in DOMAIN p, NEW w \in Seq(FramesOf(t)), NEW N,
         Ordered(s, t, p, w, N), NEW k \in 1..Len(s), FiledAt(s, r, t, p[i], k)
  PROVE  Unpadded(r) => Len(p) = 1 /\ Ordered(r, t, <<>>, w, N)
<1> SUFFICES ASSUME Unpadded(r) PROVE Len(p) = 1 /\ Ordered(r, t, <<>>, w, N)
  OBVIOUS
<1> DEFINE n == p[i]  F == FiledIn(s, t)  old == s[k].units[t].nalus  L == Ids(p \o w)
<1>1. /\ Unpadded(s) /\ Len(r) = Len(s) /\ Len(s) \in Nat
  BY DEF Filing, Streams
<1>2. /\ TsOf(s[k].ts) = n.ts /\ t \in DOMAIN s[k].units /\ t \in DOMAIN r[k].units
      /\ r[k].units[t].nalus = Append(old, n)
      /\ \A j \in 1..Len(s) : j # k => r[j] = s[j]
  BY DEF FiledAt
<1>3. /\ s[k].ts \in Times /\ old \in Seq(FramesOf(t)) /\ old # <<>>
      /\ \A y \in UnitIds(s[k], t) : y \in DOMAIN Frames[t] /\ Frame(t, y).ts = s[k].ts
  BY <1>1, <1>2, FiledFrame
<1>4. n.ts = s[k].ts
  BY <1>2, <1>3, Clock DEF TsOf, IsSet
<1>5. /\ FiledRising(s, t) /\ Below(F, L \cup N) /\ Tip(s, t, p)
      /\ Rising(p \o w) /\ Below(L, N)
  BY <1>1 DEF Ordered, Lined
<1>6. UnitIds(s[k], t) = Ids(old) /\ UnitIds(s[k], t) # {}
  <2>1. Ids(old) # {}
    BY <1>3, NoIds
  <2> QED BY <1>2, <2>1 DEF UnitIds
<1>7. Len(p) = 1 /\ \A l \in 1..Len(s) : l > k => UnitIds(s[l], t) = {}
  BY <1>3, <1>4, <1>5, <1>6 DEF Tip
<1>8. L = {n.id} \cup Ids(w) /\ Rising(w) /\ Below({n.id}, Ids(w))
  <2>1. DOMAIN p = {1} /\ i = 1
    BY <1>7
  <2>2. Ids(p) = {n.id}
    BY <2>1 DEF Ids
  <2> HIDE DEF n
  <2>3. Rising(w) /\ Below(Ids(p), Ids(w)) /\ L = Ids(p) \cup Ids(w)
    BY <1>5, Joined, JoinedRising
  <2> QED BY <2>2, <2>3
<1>9. Rising(old) /\ Below(Ids(old), {n.id})
  <2>1. Rising(old)
    BY <1>2, <1>5 DEF FiledRising
  <2>2. Ids(old) \subseteq F
    BY <1>6 DEF FiledIn
  <2> HIDE DEF F, L, old, n
  <2>3. Below(F, L \cup N) /\ n.id \in L
    BY <1>5, <1>8
  <2>4. Below(Ids(old), {n.id})
    BY <2>2, <2>3 DEF Below
  <2> QED BY <2>1, <2>4
<1>10. n \in FramesOf(t)
  OBVIOUS
<1> HIDE DEF n, old, L, F
<1>11. Rising(Append(old, n)) /\ Ids(Append(old, n)) = Ids(old) \cup {n.id}
  <2> DEFINE e == <<n>>
  <2>1. e \in Seq(FramesOf(t)) /\ DOMAIN e = {1} /\ e[1] = n /\ Append(old, n) = old \o e
    BY <1>3, <1>10
  <2>2. Rising(e) /\ Ids(e) = {n.id}
    <3> HIDE DEF e
    <3> QED BY <2>1 DEF Rising, Ids
  <2> HIDE DEF e
  <2>3. Below(Ids(old), Ids(e)) /\ old \in Seq(FramesOf(t))
    BY <1>3, <1>9, <2>2
  <2>4. Rising(old \o e)
    BY <1>9, <2>1, <2>2, <2>3, JoinedRising
  <2>5. Ids(old \o e) = Ids(old) \cup Ids(e)
    BY <2>1, <2>3, Joined
  <2> QED BY <2>1, <2>2, <2>4, <2>5
<1>12. UnitIds(r[k], t) = UnitIds(s[k], t) \cup {n.id}
  BY <1>2, <1>6, <1>11 DEF UnitIds
<1>13. \A j \in 1..Len(s) : j # k => UnitIds(r[j], t) = UnitIds(s[j], t)
  BY <1>2
<1>14. FiledIn(r, t) \subseteq F \cup {n.id}
  <2> SUFFICES ASSUME NEW j \in 1..Len(s) PROVE UnitIds(r[j], t) \subseteq F \cup {n.id}
    BY <1>1 DEF FiledIn
  <2> QED BY <1>12, <1>13 DEF FiledIn, F
<1>15. FiledRising(r, t)
  <2>1. ASSUME NEW j \in 1..Len(s), NEW l \in 1..Len(s), j < l
        PROVE  Below(UnitIds(r[j], t), UnitIds(r[l], t))
    <3>1. Below(UnitIds(s[j], t), UnitIds(s[l], t))
      BY <1>5, <2>1 DEF FiledRising
    <3>2. CASE j = k
      <4>1. l # k /\ UnitIds(s[l], t) = {}
        <5>1. l > k /\ l # k
          BY <1>1, <2>1, <3>2
        <5> QED BY <1>7, <5>1
      <4> QED BY <1>13, <4>1 DEF Below
    <3>3. CASE l = k
      <4>1. j # k /\ UnitIds(s[j], t) \subseteq F
        BY <2>1, <3>3 DEF FiledIn, F
      <4>2. Below(UnitIds(s[j], t), {n.id})
        BY <1>5, <1>8, <4>1 DEF Below
      <4>3. Below(UnitIds(s[j], t), UnitIds(s[k], t) \cup {n.id})
        BY <3>1, <3>3, <4>2 DEF Below
      <4> QED BY <1>12, <1>13, <3>3, <4>1, <4>3
    <3>4. CASE j # k /\ l # k
      BY <1>13, <3>1, <3>4
    <3> QED BY <3>2, <3>3, <3>4
  <2>2. ASSUME NEW j \in 1..Len(s), t \in DOMAIN r[j].units PROVE Rising(r[j].units[t].nalus)
    <3>1. CASE j = k
      BY <1>2, <1>11, <3>1
    <3>2. CASE j # k
      BY <1>2, <1>5, <2>2, <3>2 DEF FiledRising
    <3> QED BY <3>1, <3>2
  <2> QED BY <1>1, <2>1, <2>2 DEF FiledRising
<1>16. <<>> \o w = w /\ DOMAIN <<>> = {} /\ Len(<<>>) = 0
  OBVIOUS
<1>17. Below(FiledIn(r, t), Ids(w) \cup N)
  <2>1. Below(F, Ids(w) \cup N) /\ Below({n.id}, Ids(w) \cup N)
    BY <1>5, <1>8 DEF Below
  <2> QED BY <1>14, <2>1 DEF Below
<1>18. Lined(<<>>, w, N) /\ Tip(r, t, <<>>)
  <2>1. Below(Ids(w), N)
    BY <1>5, <1>8 DEF Below
  <2> QED BY <1>8, <1>16, <2>1 DEF Lined, Tip
<1> QED BY <1>7, <1>15, <1>16, <1>17, <1>18 DEF Ordered

(* A NALU of the buffer is offered.                                         *)
LEMMA OfferRounds ==
  ASSUME NEW t \in Types, t # VPS, NEW n \in FramesOf(t), NEW a \in Offers(t)
  PROVE  LET b == Offer(a, t, n)
         IN /\ b \in Offers(t) /\ Filing(a.stream, b.stream, t)
            /\ a.outcome # "filed" => b = a
            /\ a.outcome = "filed" =>
                 /\ b.popped = a.popped + 1
                 /\ \/ b.stream = a.stream /\ b.kept = a.kept
                    \/ /\ b.stream = a.stream /\ b.kept = Append(a.kept, n)
                       /\ b.outcome = "filed"
                    \/ /\ b.kept = a.kept
                       /\ \E k \in 1..Len(a.stream) : FiledAt(a.stream, b.stream, t, n, k)
<1> DEFINE p == PushNalu(a.stream, t, n)  b == Offer(a, t, n)
<1>1. a.stream \in Streams
  BY DEF Offers
<1>2. /\ b \in Offers(t)
      /\ a.outcome # "filed" => b = a
      /\ a.outcome = "filed" =>
           /\ b.stream = p.stream /\ b.popped = a.popped + 1
           /\ b.kept = IF p.outcome = "refused" THEN Append(a.kept, n) ELSE a.kept
  BY OfferIs
<1>3. /\ Filing(a.stream, p.stream, t)
      /\ p.outcome # "pushed" => p.stream = a.stream
      /\ p.outcome = "pushed" => \E k \in 1..Len(a.stream) : FiledAt(a.stream, p.stream, t, n, k)
  BY <1>1, PushNaluIs
<1>4. a.outcome = "filed" /\ p.outcome = "refused" => b.outcome = "filed"
  BY DEF Offer, Offered, AfterNalu
<1> HIDE DEF p, b
<1>5. Filing(a.stream, a.stream, t)
  BY DEF Filing
<1> QED BY <1>2, <1>3, <1>4, <1>5 DEF b

(* A queue of two.                                                          *)
LEMMA TwoQueued ==
  ASSUME NEW P, NEW q \in Seq(P), Len(q) = 2
  PROVE  /\ q[1] \in P /\ q[2] \in P /\ q = Append(<<q[1]>>, q[2])
         /\ Drop(q, 1) = <<q[2]>> /\ Drop(q, 2) = <<>>
<1> DEFINE m == q[1]  n == q[2]
<1>1. 1 \in DOMAIN q /\ 2 \in DOMAIN q
  OBVIOUS
<1>2. m \in P /\ n \in P
  BY <1>1
<1> HIDE DEF m, n
<1> DEFINE z == Append(<<m>>, n)
<1>3. z \in Seq(P) /\ Len(z) = 2 /\ z[1] = m /\ z[2] = n
  <2> DEFINE e == <<m>>
  <2>1. e \in Seq(P) /\ Len(e) = 1 /\ e[1] = m
    BY <1>2
  <2> HIDE DEF e
  <2>2. LET y == Append(e, n) IN y \in Seq(P) /\ Len(y) = 2 /\ y[1] = m /\ y[2] = n
    BY <1>2, <2>1
  <2> QED BY <2>2 DEF e
<1> HIDE DEF z
<1>4. \A i \in 1..Len(q) : q[i] = z[i]
  BY <1>3 DEF m, n
<1>5. q = z
  BY <1>3, <1>4, SeqEqual
<1> DEFINE d == Drop(q, 1)  e == <<n>>
<1>6. d \in Seq(P) /\ Len(d) = 1 /\ d[1] = n
  BY <1>2 DEF Drop, n
<1>7. e \in Seq(P) /\ Len(e) = 1 /\ e[1] = n
  BY <1>2
<1> HIDE DEF d, e
<1>8. \A i \in 1..Len(d) : d[i] = e[i]
  BY <1>6, <1>7
<1>9. d = e
  BY <1>6, <1>7, <1>8, SeqEqual
<1>10. Drop(q, 2) = <<>>
  BY DEF Drop
<1> QED BY <1>2, <1>5, <1>9, <1>10 DEF m, n, z, d, e

(* push_buffer_to_sample_stream over the buffer of a type: what is refused  *)
(* goes back.                                                               *)
LEMMA OffersOrdered ==
  ASSUME NEW t \in Types, NEW s \in Streams, NEW q \in Seq(FramesOf(t)), t # VPS \/ q = <<>>,
         NEW w \in Seq(FramesOf(t)), NEW N, Ordered(s, t, q, w, N)
  PROVE  LET o == OfferAll(s, t, q)
         IN /\ Filing(s, o.stream, t) /\ o.stream \in Streams
            /\ Ordered(o.stream, t, Drop(q, o.popped) \o o.kept, w, N)
            /\ Within(Drop(q, o.popped) \o o.kept, q)
<1> DEFINE o == OfferAll(s, t, q)  P == FramesOf(t)
<1>1. PICK f : OfferLoop(f, s, t, q)
  BY OfferLoops
<1>2. /\ f \in [0..Len(q) -> Offers(t)] /\ f[0] = StartOffer(s)
      /\ \A k \in 1..Len(q) : f[k] = Offer(f[k - 1], t, q[k])
      /\ o = f[Len(q)] /\ Len(q) \in Nat
  BY <1>1 DEF OfferLoop
<1>3. f[0].stream = s /\ f[0].outcome = "filed" /\ f[0].popped = 0 /\ f[0].kept = <<>>
  BY <1>2 DEF StartOffer
<1>4. Filing(s, s, t)
  BY DEF Filing
<1>5. Len(q) \in 0..2
  BY DEF Ordered, Lined
<1> HIDE DEF o
<1>6. ASSUME Filing(s, o.stream, t), o.stream \in Streams, Unpadded(o.stream) => o.stream = s,
             Within(Drop(q, o.popped) \o o.kept, q)
      PROVE  Ordered(o.stream, t, Drop(q, o.popped) \o o.kept, w, N)
  BY <1>6, WithinOrdered
<1>7. CASE Len(q) = 0
  <2>1. q = <<>> /\ o.stream = s /\ o.popped = 0 /\ o.kept = <<>>
    BY <1>2, <1>3, <1>7
  <2>2. Drop(q, 0) \o <<>> = q
    BY <2>1 DEF Drop
  <2>3. Within(q, q)
    BY DEF Within
  <2> QED BY <1>4, <1>6, <2>1, <2>2, <2>3 DEF o
<1>8. ASSUME Len(q) >= 1
      PROVE  /\ f[1] \in Offers(t) /\ Filing(s, f[1].stream, t) /\ f[1].popped = 1
             /\ \/ f[1].stream = s /\ f[1].kept = <<>>
                \/ f[1].stream = s /\ f[1].kept = <<q[1]>> /\ f[1].outcome = "filed"
                \/ f[1].kept = <<>> /\ \E k \in 1..Len(s) : FiledAt(s, f[1].stream, t, q[1], k)
  <2>1. /\ 1 \in 1..Len(q) /\ q[1] \in P /\ f[0] \in Offers(t) /\ t # VPS /\ 1 - 1 = 0
        /\ 0 + 1 = 1
    BY <1>2, <1>5, <1>8
  <2>2. f[1] = Offer(f[0], t, q[1])
    BY <1>2, <2>1
  <2>3. Append(<<>>, q[1]) = <<q[1]>>
    OBVIOUS
  <2> DEFINE a == f[0]  n == q[1]
  <2>4. a \in Offers(t) /\ n \in FramesOf(t) /\ f[1] = Offer(a, t, n)
    BY <2>1, <2>2
  <2>5. a.stream = s /\ a.outcome = "filed" /\ a.popped = 0 /\ a.kept = <<>>
        /\ Append(a.kept, n) = <<n>>
    BY <1>3, <2>3
  <2> HIDE DEF a, n
  <2>6. LET b == Offer(a, t, n)
        IN /\ b \in Offers(t) /\ Filing(a.stream, b.stream, t)
           /\ a.outcome # "filed" => b = a
           /\ a.outcome = "filed" =>
                /\ b.popped = a.popped + 1
                /\ \/ b.stream = a.stream /\ b.kept = a.kept
                   \/ /\ b.stream = a.stream /\ b.kept = Append(a.kept, n)
                      /\ b.outcome = "filed"
                   \/ /\ b.kept = a.kept
                      /\ \E k \in 1..Len(a.stream) : FiledAt(a.stream, b.stream, t, n, k)
    BY <2>1, <2>4, OfferRounds
  <2> DEFINE b == f[1]
  <2>7. b = Offer(a, t, n)
    BY <2>4
  <2> HIDE DEF b
  <2>8. /\ b \in Offers(t) /\ Filing(s, b.stream, t) /\ b.popped = 1
        /\ \/ b.stream = s /\ b.kept = <<>>
           \/ b.stream = s /\ b.kept = <<n>> /\ b.outcome = "filed"
           \/ b.kept = <<>> /\ \E k \in 1..Len(s) : FiledAt(s, b.stream, t, n, k)
    BY <2>1, <2>5, <2>6, <2>7
  <2> QED BY <2>8 DEF b, n
<1>9. CASE Len(q) = 1
  <2>1. o = f[1] /\ 1 \in DOMAIN q
    BY <1>2, <1>9
  <2>2. Drop(q, 1) = <<>>
    BY <1>9 DEF Drop
  <2>3. /\ o \in Offers(t) /\ Filing(s, o.stream, t) /\ o.popped = 1
        /\ \/ o.stream = s /\ o.kept = <<>>
           \/ o.stream = s /\ o.kept = <<q[1]>>
           \/ o.kept = <<>> /\ \E k \in 1..Len(s) : FiledAt(s, o.stream, t, q[1], k)
    BY <1>8, <1>9, <2>1
  <2>4. o.stream \in Streams /\ o.kept \in Seq(P) /\ <<>> \o o.kept = o.kept
    BY <2>3 DEF Offers
  <2>5. Drop(q, o.popped) \o o.kept = o.kept
    BY <2>2, <2>3, <2>4
  <2>6. Within(<<>>, q) /\ Within(<<q[1]>>, q)
    BY <2>1 DEF Within
  <2>7. CASE o.stream = s /\ o.kept \in {<<>>, <<q[1]>>}
    BY <1>6, <2>3, <2>4, <2>5, <2>6, <2>7 DEF o
  <2>8. CASE o.kept = <<>> /\ \E k \in 1..Len(s) : FiledAt(s, o.stream, t, q[1], k)
    <3>1. Unpadded(o.stream) => Ordered(o.stream, t, <<>>, w, N)
      BY <2>1, <2>3, <2>4, <2>8, PushedOrdered
    <3>2. Unpadded(o.stream) \/ Ordered(o.stream, t, <<>>, w, N)
      BY <2>6, WithinOrdered
    <3> QED BY <2>3, <2>4, <2>5, <2>6, <2>8, <3>1, <3>2 DEF o
  <2> QED BY <2>3, <2>7, <2>8
<1>10. CASE Len(q) = 2
  <2> DEFINE a == f[1]  b == f[2]  m == q[1]  n == q[2]
  <2>1. /\ 1 \in DOMAIN q /\ 2 \in DOMAIN q /\ t # VPS /\ Len(q) # 1 /\ o = b
    <3>1. 1 \in DOMAIN q /\ 2 \in DOMAIN q /\ Len(q) # 1
      BY <1>10
    <3>2. t # VPS
      <4>1. q = <<>> => Len(q) = 0
        OBVIOUS
      <4>2. Len(q) # 0
        BY <1>10
      <4> QED BY <4>1, <4>2
    <3> QED BY <1>2, <1>10, <3>1, <3>2
  <2>2. /\ m \in P /\ n \in P /\ q = Append(<<m>>, n)
        /\ Drop(q, 1) = <<n>> /\ Drop(q, 2) = <<>>
    BY <1>10, TwoQueued
  <2>3. /\ a \in Offers(t) /\ Filing(s, a.stream, t) /\ a.popped = 1
        /\ \/ a.stream = s /\ a.kept = <<>>
           \/ a.stream = s /\ a.kept = <<m>> /\ a.outcome = "filed"
           \/ a.kept = <<>> /\ \E k \in 1..Len(s) : FiledAt(s, a.stream, t, m, k)
    BY <1>8, <1>10
  <2>4. b = Offer(a, t, n)
    <3>1. 2 \in 1..Len(q) /\ 2 - 1 = 1
      BY <1>10
    <3> QED BY <1>2, <3>1
  <2> HIDE DEF a, b, m, n
  <2>5. LET c == Offer(a, t, n)
        IN /\ c \in Offers(t) /\ Filing(a.stream, c.stream, t)
           /\ a.outcome # "filed" => c = a
           /\ a.outcome = "filed" =>
                /\ c.popped = a.popped + 1
                /\ \/ c.stream = a.stream /\ c.kept = a.kept
                   \/ /\ c.stream = a.stream /\ c.kept = Append(a.kept, n)
                      /\ c.outcome = "filed"
                   \/ /\ c.kept = a.kept
                      /\ \E k \in 1..Len(a.stream) : FiledAt(a.stream, c.stream, t, n, k)
    BY <2>1, <2>2, <2>3, OfferRounds
  <2>6. /\ b \in Offers(t) /\ Filing(a.stream, b.stream, t)
        /\ a.outcome # "filed" => b = a
        /\ a.outcome = "filed" =>
             /\ b.popped = 2
             /\ \/ b.stream = a.stream /\ b.kept = a.kept
                \/ b.stream = a.stream /\ b.kept = Append(a.kept, n)
                \/ /\ b.kept = a.kept
                   /\ \E k \in 1..Len(a.stream) : FiledAt(a.stream, b.stream, t, n, k)
    BY <2>3, <2>4, <2>5
  <2>7. a.stream \in Streams /\ b.stream \in Streams /\ b.kept \in Seq(P)
    BY <2>3, <2>6 DEF Offers
  <2>8. Filing(s, b.stream, t)
    BY <2>3, <2>6, FilingTrans
  <2>9. Unpadded(b.stream) => b.stream = s
    <3> SUFFICES ASSUME Unpadded(b.stream) PROVE b.stream = s
      OBVIOUS
    <3>1. Unpadded(a.stream)
      BY <2>6 DEF Filing
    <3>2. a.stream = s
      <4>1. ASSUME NEW k \in 1..Len(s), FiledAt(s, a.stream, t, m, k) PROVE FALSE
        <5>1. Len(q) = 1
          BY <2>1, <2>3, <2>7, <3>1, <4>1, PushedOrdered DEF m
        <5> QED BY <2>1, <5>1
      <4> QED BY <2>3, <4>1
    <3>3. ASSUME NEW k \in 1..Len(s), FiledAt(s, b.stream, t, n, k) PROVE FALSE
      <4>1. Len(q) = 1
        BY <2>1, <2>7, <2>8, <3>3, PushedOrdered DEF n
      <4> QED BY <2>1, <4>1
    <3> QED BY <2>6, <3>2, <3>3
  <2>10. Within(Drop(q, b.popped) \o b.kept, q)
    <3>1. Within(<<>>, q) /\ Within(<<m>>, q) /\ Within(<<n>>, q) /\ Within(q, q)
      BY <2>1 DEF Within, m, n
    <3>2. CASE a.outcome # "filed"
      <4>1. b.popped = 1 /\ b.kept = <<>>
        BY <2>3, <2>6, <3>2
      <4>2. <<n>> \o <<>> = <<n>>
        OBVIOUS
      <4> QED BY <2>2, <3>1, <4>1, <4>2
    <3>3. CASE a.outcome = "filed"
      <4>1. b.popped = 2 /\ <<>> \o b.kept = b.kept
        BY <2>6, <2>7, <3>3
      <4>2. a.kept \in {<<>>, <<m>>} /\ b.kept \in {a.kept, Append(a.kept, n)}
        BY <2>3, <2>6, <3>3
      <4>3. Append(<<>>, n) = <<n>>
        OBVIOUS
      <4>4. b.kept \in {<<>>, <<m>>, <<n>>, q}
        BY <2>2, <4>2, <4>3
      <4> QED BY <2>2, <3>1, <4>1, <4>4
    <3> QED BY <3>2, <3>3
  <2> QED BY <1>6, <2>1, <2>7, <2>8, <2>9, <2>10 DEF o
<1> QED BY <1>5, <1>7, <1>9, <1>10

(* The buffer of one type is tried.                                         *)
LEMMA BufferOrdered ==
  ASSUME NEW t \in Types, NEW a \in Pushes, NEW h \in Queues, NEW N,
         AllOrdered(a.stream, a.buffer, h, N)
  PROVE  LET b == PushBuffer(a, t)
         IN /\ AllOrdered(b.stream, b.buffer, h, N)
            /\ \A x \in Types : Ids(b.buffer[x]) \subseteq Ids(a.buffer[x])
<1> DEFINE s == a.stream  f == a.buffer  q == f[t]  o == OfferAll(s, t, q)
           w == Drop(q, o.popped) \o o.kept  g == [f EXCEPT ![t] = w]
           b == PushBuffer(a, t)
<1>1. s \in Streams /\ f \in Buffers
  BY DEF Pushes
<1>2. CASE a.outcome # "filed"
  <2>1. b = a
    BY <1>2 DEF PushBuffer
  <2> HIDE DEF b
  <2> QED BY <2>1 DEF b
<1>3. CASE a.outcome = "filed"
  <2>1. b.stream = o.stream /\ b.buffer = g
    BY <1>3 DEF PushBuffer, AfterOffer
  <2>2. /\ q \in Seq(FramesOf(t)) /\ (t # VPS \/ q = <<>>) /\ h[t] \in Seq(FramesOf(t))
    BY <1>1, QueueOf
  <2>3. \A x \in Types : g[x] = IF x = t THEN w ELSE f[x]
    BY <1>1 DEF Buffers, Queues
  <2>4. \A x \in Types : Ordered(s, x, f[x], h[x], N[x])
    BY DEF AllOrdered
  <2> HIDE DEF b, g, s, f
  <2>5. /\ Filing(s, o.stream, t) /\ o.stream \in Streams
        /\ Ordered(o.stream, t, w, h[t], N[t]) /\ Within(w, q)
    BY <1>1, <2>2, <2>4, OffersOrdered
  <2>6. Ids(w) \subseteq Ids(f[t])
    <3> HIDE DEF w, o, q
    <3> QED BY <2>2, <2>5, WithinIds DEF q
  <2> HIDE DEF o, w, q
  <2>7. \A x \in Types : Ids(g[x]) \subseteq Ids(f[x])
    BY <2>3, <2>6
  <2>8. ASSUME NEW x \in Types PROVE Ordered(o.stream, x, g[x], h[x], N[x])
    <3>1. CASE x = t
      BY <2>3, <2>5, <3>1
    <3>2. CASE x # t
      <4>1. Ordered(o.stream, x, f[x], h[x], N[x])
        BY <2>4, <2>5, <3>2, OtherOrdered
      <4> QED BY <2>3, <3>2, <4>1
    <3> QED BY <3>1, <3>2
  <2> QED BY <2>1, <2>8, <2>7 DEF AllOrdered, b, f
<1> QED BY <1>2, <1>3

(* Those of all types.                                                      *)
LEMMA BuffersOrdered ==
  ASSUME NEW s \in Streams, NEW buf \in Buffers, NEW types \in SUBSET Types,
         NEW h \in Queues, NEW N, AllOrdered(s, buf, h, N)
  PROVE  LET b == PushBuffers(s, buf, types)
         IN /\ AllOrdered(b.stream, b.buffer, h, N)
            /\ \A x \in Types : Ids(b.buffer[x]) \subseteq Ids(buf[x])
<1>1. PICK f : PushLoop(f, s, buf, types)
  BY PushLoops
<1>2. /\ f \in [0..NumTypes -> Pushes] /\ f[0] = [stream |-> s, buffer |-> buf, outcome |-> "filed"]
      /\ \A k \in 1..NumTypes : f[k] = PushTo(f[k - 1], k - 1, types)
      /\ PushBuffers(s, buf, types) = f[NumTypes]
      /\ NumTypes \in Nat /\ NumTypes \in 0..NumTypes /\ 0 \in 0..NumTypes
  BY <1>1 DEF PushLoop, NumTypes
<1> DEFINE Fewer(a) == \A x \in Types : Ids(a.buffer[x]) \subseteq Ids(buf[x])
           S == {a \in Pushes : AllOrdered(a.stream, a.buffer, h, N) /\ Fewer(a)}
<1>3. \A a : a \in S <=> a \in Pushes /\ AllOrdered(a.stream, a.buffer, h, N) /\ Fewer(a)
  OBVIOUS
<1>4. f[0].stream = s /\ f[0].buffer = buf /\ f[0] \in Pushes
  BY <1>2
<1> HIDE DEF S
<1>5. ASSUME NEW k \in 1..NumTypes, f[k - 1] \in S PROVE f[k] \in S
  <2> DEFINE i == k - 1  a == f[i]
  <2>1. f[k] = PushTo(a, i, types) /\ k \in 0..NumTypes
    BY <1>2
  <2>2. f[k] \in Pushes
    BY <1>2, <2>1
  <2> HIDE DEF i
  <2>3. a \in Pushes /\ AllOrdered(a.stream, a.buffer, h, N) /\ Fewer(a)
    BY <1>3, <1>5 DEF i
  <2> HIDE DEF a
  <2>4. CASE i \in types
    <3>1. i \in Types /\ f[k] = PushBuffer(a, i)
      BY <2>1, <2>4 DEF PushTo
    <3>2. /\ AllOrdered(f[k].stream, f[k].buffer, h, N)
          /\ \A x \in Types : Ids(f[k].buffer[x]) \subseteq Ids(a.buffer[x])
      BY <2>3, <3>1, BufferOrdered
    <3>3. Fewer(f[k])
      BY <2>3, <3>2
    <3> HIDE DEF Fewer
    <3> QED BY <1>3, <2>2, <3>2, <3>3
  <2>5. CASE i \notin types
    <3>1. f[k] = a
      BY <2>1, <2>5 DEF PushTo
    <3> QED BY <1>3, <2>3, <3>1
  <2> QED BY <2>4, <2>5
<1>6. f[NumTypes] \in S
  BY <1>2, <1>3, <1>4, <1>5, Stays
<1> QED BY <1>2, <1>3, <1>6

(* receive_gof keeps every type in order, also when it fails.               *)
LEMMA GofFiledOrdered ==
  ASSUME NEW s \in Streams, NEW f \in Buffers, NEW h \in Queues, NEW N \in Networks,
         AllOrdered(s, f, h, N), NEW sizes, NEW a \in Accs, GofParts(a, NumTypes, f, h, sizes)
  PROVE  LET r == FileGof(s, a) IN AllOrdered(r.stream, r.buffer, r.socket, N)
<1> DEFINE r == FileGof(s, a)
<1>1. /\ a.gof \in GoodGofs \cup {EmptyGof} /\ a.socket \in Queues /\ a.buffer \in Buffers
  BY DEF Accs
<1>2. /\ AllOrdered(s, a.buffer, a.socket, N)
      /\ a.gof \in GoodGofs => AllOrdered(PushGof(s, a.gof).stream, a.buffer, a.socket, N)
  BY GofOrdered
<1>3. CASE a.ok /\ a.gof.units # <<>>
  <2> DEFINE p == PushGof(s, a.gof)
  <2>1. r = AfterPush(p, a.socket, a.buffer, Types)
    BY <1>3 DEF FileGof
  <2>2. a.gof \in GoodGofs
    BY <1>1, <1>3 DEF EmptyGof
  <2>3. p.stream \in Streams /\ AllOrdered(p.stream, a.buffer, a.socket, N)
    BY <1>2, <2>2, PushGofGood
  <2> HIDE DEF p, r
  <2>4. CASE p.ok
    <3> DEFINE b == PushBuffers(p.stream, a.buffer, Types)
    <3>1. r.stream = b.stream /\ r.buffer = b.buffer /\ r.socket = a.socket
      BY <2>1, <2>4 DEF AfterPush, AfterBuffers
    <3>2. AllOrdered(b.stream, b.buffer, a.socket, N)
      BY <1>1, <2>3, BuffersOrdered
    <3> HIDE DEF b
    <3> QED BY <3>1, <3>2 DEF r
  <2>5. CASE ~ p.ok
    <3>1. r.stream = p.stream /\ r.buffer = a.buffer /\ r.socket = a.socket
      BY <2>1, <2>5 DEF AfterPush
    <3> QED BY <2>3, <3>1 DEF r
  <2> QED BY <2>4, <2>5
<1>4. CASE ~ (a.ok /\ a.gof.units # <<>>)
  <2>1. r.stream = s /\ r.buffer = a.buffer /\ r.socket = a.socket
    BY <1>4 DEF FileGof
  <2> HIDE DEF r
  <2> QED BY <1>2, <2>1 DEF r
<1> QED BY <1>3, <1>4

(* A stream that is thrown away, or cleared.                                *)
LEMMA ClearedOrdered ==
  ASSUME NEW s, NEW f, NEW h, NEW N, AllOrdered(s, f, h, N) PROVE AllOrdered(<<>>, f, h, N)
<1> SUFFICES ASSUME NEW t \in Types PROVE Ordered(<<>>, t, f[t], h[t], N[t])
  BY DEF AllOrdered
<1>1. Lined(f[t], h[t], N[t])
  BY DEF AllOrdered, Ordered
<1>2. 1..Len(<<>>) = {}
  OBVIOUS
<1>3. FiledIn(<<>>, t) = {}
  BY <1>2 DEF FiledIn
<1> QED BY <1>1, <1>2, <1>3 DEF Ordered, FiledRising, Below, Tip

(* The call, of the handle as it stands.                                    *)
LEMMA CallOrdered ==
  ASSUME Inv, NEW s \in Streams, NEW sizes \in FewSizes,
         AllOrdered(s, buffer, socket, network)
  PROVE  LET r == FileGof(s, ReceivedGof(sizes))
         IN AllOrdered(r.stream, r.buffer, r.socket, network)
<1>1. socket \in Queues /\ buffer \in Buffers /\ network \in Networks /\ sizes \in Sizes
  BY CallData DEF Inv, QueuesOk, NetworkOk, Networks, FewSizes
<1>2. LinesOk(buffer, socket)
  BY DEF AllOrdered, Ordered, Lined, LinesOk
<1> DEFINE a == ReceivedGof(sizes)
<1>3. GofParts(a, NumTypes, buffer, socket, sizes)
  BY <1>1, <1>2, GofPartsAll
<1>4. a \in Accs
  BY <1>1, GofGood DEF GofState
<1> HIDE DEF a
<1>5. LET r == FileGof(s, a) IN AllOrdered(r.stream, r.buffer, r.socket, network)
  BY <1>1, <1>3, <1>4, GofFiledOrdered
<1> QED BY <1>5 DEF a

(* A frame that arrives, the first of its type, comes last in its queue.    *)
LEMMA ArrivedOrdered ==
  ASSUME QueuesOk, NEW s, AllOrdered(s, buffer, socket, network), NEW t \in Types, Arrive(t)
  PROVE  AllOrdered(s, buffer, socket', network')
<1> DEFINE i == Min(network[t])  n == Frame(t, i)  w == socket[t]  p == buffer[t]
           v == Append(w, n)  N == network[t]
<1>1. /\ N # {} /\ network' = [network EXCEPT ![t] = @ \ {Min(@)}]
      /\ socket' = [socket EXCEPT ![t] = Append(@, n)]
  BY DEF Arrive
<1>2. /\ buffer \in Buffers /\ socket \in Queues /\ network \in [Types -> SUBSET Nat]
      /\ \A x \in Types : network[x] \subseteq DOMAIN Frames[x]
  BY DEF QueuesOk, NetworkOk
<1>3. /\ socket'[t] = v /\ network'[t] = N \ {i}
      /\ \A x \in Types : x # t => socket'[x] = socket[x] /\ network'[x] = network[x]
  BY <1>1, <1>2 DEF Queues
<1>4. i \in N /\ i \in Nat /\ N \subseteq Nat /\ i \in DOMAIN Frames[t]
  BY <1>1, <1>2, LeastExists
<1>5. \A j \in N \ {i} : i < j
  <2>1. \A j \in N : i <= j
    BY <1>1, <1>2, LeastExists
  <2> QED BY <1>4, <2>1
<1>6. n \in FramesOf(t) /\ n.id = i
  BY <1>4 DEF FramesOf, Frame
<1>7. p \in Seq(FramesOf(t)) /\ w \in Seq(FramesOf(t))
  BY <1>2, QueueOf
<1>8. Ordered(s, t, p, w, N)
  BY DEF AllOrdered
<1> HIDE DEF i, n, w, p, N
<1> DEFINE L == Ids(p \o w)
<1>9. Rising(p \o w) /\ Below(L, N) /\ Len(p) \in 0..2
  BY <1>8 DEF Ordered, Lined
<1>10. Rising(p \o v) /\ Ids(p \o v) = L \cup {i}
  <2> DEFINE e == <<n>>  l == p \o w
  <2>1. e \in Seq(FramesOf(t)) /\ DOMAIN e = {1} /\ e[1] = n /\ l \in Seq(FramesOf(t))
        /\ p \o v = l \o e
    BY <1>6, <1>7
  <2>2. Rising(e) /\ Ids(e) = {i}
    <3> HIDE DEF e
    <3> QED BY <1>6, <2>1 DEF Rising, Ids
  <2>3. Below(Ids(l), {i}) /\ Rising(l)
    BY <1>4, <1>9 DEF Below
  <2> HIDE DEF e, l
  <2>4. Rising(l \o e) /\ Ids(l \o e) = Ids(l) \cup {i}
    BY <2>1, <2>2, <2>3, JoinedRising, Joined
  <2> QED BY <2>1, <2>4 DEF l
<1> HIDE DEF L, v
<1>11. Lined(p, v, N \ {i})
  <2>1. Below(L \cup {i}, N \ {i})
    BY <1>5, <1>9 DEF Below
  <2> QED BY <1>9, <1>10, <2>1 DEF Lined
<1>12. Ordered(s, t, p, v, N \ {i})
  <2> SUFFICES ASSUME Unpadded(s)
               PROVE  /\ FiledRising(s, t) /\ Tip(s, t, p)
                      /\ Below(FiledIn(s, t), Ids(p \o v) \cup (N \ {i}))
    BY <1>11 DEF Ordered
  <2>1. FiledRising(s, t) /\ Below(FiledIn(s, t), L \cup N) /\ Tip(s, t, p)
    BY <1>8 DEF Ordered, L
  <2>2. Ids(p \o v) \cup (N \ {i}) = L \cup N
    BY <1>4, <1>10
  <2> QED BY <2>1, <2>2
<1>13. ASSUME NEW x \in Types PROVE Ordered(s, x, buffer[x], socket'[x], network'[x])
  <2>1. CASE x = t
    BY <1>3, <1>12, <2>1 DEF p
  <2>2. CASE x # t
    BY <1>3, <2>2 DEF AllOrdered
  <2> QED BY <2>1, <2>2
<1> QED BY <1>13 DEF AllOrdered

(* Few NALUs are asked for, nothing has been overtaken: all is in order.    *)
InOrder ==
  FewAsked /\ mode # "unit" /\ faults.overtaken = 0 =>
    /\ AllOrdered(Data, buffer, socket, network)
    /\ running # NoCall => running.sizes \in FewSizes
FaultsOk == faults \in [lost : Nat, overtaken : Nat]
OrderInv == FaultsOk /\ InOrder

(* The sizes the application passes ask for few, also after the VPSs are    *)
(* counted down.                                                            *)
LEMMA FewGiven == ASSUME FewAsked, NEW sizes \in UnitSizes PROVE sizes \in FewSizes
BY GivenSizes DEF FewAsked, FewSizes

LEMMA FewCounted ==
  ASSUME NEW sizes \in FewSizes, NEW g PROVE CountVPS(sizes, g) \in FewSizes
<1> DEFINE c == CountVPS(sizes, g)
<1>1. sizes \in [Types -> Nat] /\ sizes \in Sizes
  BY DEF FewSizes, Sizes
<1>2. c \in Sizes
  BY <1>1, CountedSizes
<1>3. \A t \in Types \ {VPS} : c[t] = sizes[t]
  BY <1>1 DEF CountVPS
<1> HIDE DEF c
<1> QED BY <1>2, <1>3 DEF FewSizes, c

(* At first all frames are in the network.                                  *)
LEMMA InitOrdered == Init => OrderInv
<1> SUFFICES ASSUME Init PROVE OrderInv
  OBVIOUS
<1>1. /\ socket = [t \in Types |-> <<>>] /\ buffer = [t \in Types |-> <<>>]
      /\ stream = InitStream /\ running = NoCall /\ faults = [lost |-> 0, overtaken |-> 0]
  BY DEF Init
<1>2. Data = <<>>
  BY <1>1 DEF Data, InitStream
<1>3. FaultsOk
  BY <1>1 DEF FaultsOk
<1>4. ASSUME NEW t \in Types PROVE Ordered(<<>>, t, <<>>, <<>>, network[t])
  <2>1. <<>> \o <<>> = <<>> /\ Ids(<<>>) = {} /\ Rising(<<>>) /\ Len(<<>>) = 0
        /\ 1..Len(<<>>) = {}
    BY DEF Ids, Rising
  <2>2. FiledIn(<<>>, t) = {}
    BY <2>1 DEF FiledIn
  <2> QED BY <2>1, <2>2 DEF Ordered, Lined, FiledRising, Below, Tip
<1>5. \A t \in Types : buffer[t] = <<>> /\ socket[t] = <<>>
  BY <1>1
<1>6. AllOrdered(Data, buffer, socket, network)
  BY <1>2, <1>4, <1>5 DEF AllOrdered
<1> QED BY <1>1, <1>3, <1>6 DEF OrderInv, InOrder

(* Every step keeps the order.                                              *)
LEMMA StepOrdered == ASSUME Inv, OrderInv, [Next]_vars PROVE OrderInv'
<1>1. QueuesOk /\ NoData \notin Streams /\ <<>> \in Streams /\ FaultsOk /\ InOrder
  BY Nothing DEF Inv, OrderInv
<1>2. CASE \E t \in Types : Overtake(t)
  <2>1. PICK t \in Types : Overtake(t)
    BY <1>2
  <2>2. faults' = [faults EXCEPT !.overtaken = @ + 1]
    BY <2>1 DEF Overtake
  <2>3. faults' \in [lost : Nat, overtaken : Nat] /\ faults'.overtaken # 0
    BY <1>1, <2>2 DEF FaultsOk
  <2> QED BY <2>3 DEF OrderInv, FaultsOk, InOrder
<1>3. CASE \E t \in Types : Lose(t)
  <2>1. PICK t \in Types : Lose(t)
    BY <1>3
  <2>2. /\ faults' = [faults EXCEPT !.lost = @ + 1]
        /\ network' = [network EXCEPT ![t] = @ \ {Min(@)}]
        /\ UNCHANGED <<mode, socket, buffer, stream, running>>
    BY <2>1 DEF Lose
  <2>3. FaultsOk' /\ faults'.overtaken = faults.overtaken
    BY <1>1, <2>2 DEF FaultsOk
  <2>4. network \in [Types -> SUBSET Nat]
    BY <1>1 DEF QueuesOk, NetworkOk
  <2>5. \A x \in Types : network'[x] \subseteq network[x]
    BY <2>2, <2>4
  <2>6. ASSUME AllOrdered(Data, buffer, socket, network)
        PROVE  AllOrdered(Data, buffer, socket, network')
    BY <2>5, <2>6 DEF AllOrdered, Ordered, Lined, Below
  <2>7. Data' = Data
    BY <2>2 DEF Data
  <2>8. InOrder'
    BY <1>1, <2>2, <2>3, <2>6, <2>7 DEF InOrder
  <2> QED BY <2>3, <2>8 DEF OrderInv
<1> SUFFICES ASSUME UNCHANGED faults,
                    ~ \E t \in Types : Overtake(t), ~ \E t \in Types : Lose(t)
             PROVE  OrderInv'
  <2>1. CASE UNCHANGED faults
    BY <1>2, <1>3, <2>1
  <2>2. CASE ~ UNCHANGED faults
    BY <1>2, <1>3, <2>2 DEF Next, vars, Arrive, ReceiveGof, ReceiveUnit, BeginBitstream, Begin,
       BitstreamStep, BitstreamGof, BitstreamDone, Running, ClearSampleStream
  <2> QED BY <2>1, <2>2
<1>4. FaultsOk'
  BY <1>1 DEF FaultsOk
<1>5. UNCHANGED mode
  BY DEF Next, vars, Arrive, ReceiveGof, ReceiveUnit, BeginBitstream, Begin,
     BitstreamStep, BitstreamGof, BitstreamDone, Running, ClearSampleStream
<1> SUFFICES ASSUME FewAsked, mode # "unit", faults.overtaken = 0
             PROVE  /\ AllOrdered(Data, buffer, socket, network)'
                    /\ running' # NoCall => running'.sizes \in FewSizes
  BY <1>4, <1>5 DEF OrderInv, InOrder
<1>6. /\ AllOrdered(Data, buffer, socket, network)
      /\ running # NoCall => running.sizes \in FewSizes
  BY <1>1 DEF InOrder
<1>7. AllOrdered(<<>>, buffer, socket, network)
  BY <1>6, ClearedOrdered
<1>8. CASE \E t \in Types : Arrive(t)
  <2>1. PICK t \in Types : Arrive(t)
    BY <1>8
  <2>2. Data' = Data /\ UNCHANGED <<buffer, running>>
    BY <2>1 DEF Arrive, Data
  <2>3. AllOrdered(Data, buffer, socket', network')
    BY <1>1, <1>6, <2>1, ArrivedOrdered
  <2> QED BY <1>6, <2>2, <2>3
<1>9. CASE \E sizes \in UnitSizes : ReceiveGof(sizes)
  <2>1. PICK sizes \in UnitSizes : ReceiveGof(sizes)
    BY <1>9
  <2>2. mode = "gof" /\ running = NoCall /\ UNCHANGED network
    BY <2>1 DEF ReceiveGof, Begin
  <2>3. PICK r \in {FileGof(stream, ReceivedGof(sizes))} :
             Install(r) /\ Done("gof", Verdict(r, Types))
    BY <2>1 DEF ReceiveGof
  <2>4. stream \in Streams /\ FiledOk(r, stream, buffer, socket)
    BY <2>2, <2>3, CallData, GofFiled, GivenSizes
  <2>5. /\ stream' = r.stream /\ socket' = r.socket /\ buffer' = r.buffer /\ running' = NoCall
    BY <2>3 DEF Install, Done
  <2>6. Data = stream /\ Data' = r.stream
    BY <1>1, <2>2, <2>4, <2>5 DEF Data, FiledOk
  <2>7. AllOrdered(r.stream, r.buffer, r.socket, network)
    BY <1>6, <2>3, <2>4, <2>6, FewGiven, CallOrdered
  <2> QED BY <2>2, <2>5, <2>6, <2>7
<1>10. CASE \E sizes \in UnitSizes, n \in GofCounts : BeginBitstream(n, sizes)
  <2>1. PICK sizes \in UnitSizes, n \in GofCounts : BeginBitstream(n, sizes)
    BY <1>10
  <2>2. /\ running' = [stream |-> <<>>, left |-> n, sizes |-> sizes]
        /\ UNCHANGED <<network, socket, buffer, stream>> /\ running = NoCall /\ stream = NoData
    BY <2>1 DEF BeginBitstream, Begin
  <2>3. n \in Nat /\ sizes \in Sizes
    BY ReceiverAssumption, GivenSizes
  <2>4. running' \in Calls
    BY <1>1, <2>2, <2>3 DEF Calls
  <2>5. running' # NoCall /\ running'.stream = <<>> /\ running'.sizes \in FewSizes
    BY <2>2, <2>4, Nothing, FewGiven
  <2>6. Data' = <<>>
    BY <2>5 DEF Data
  <2> QED BY <1>7, <2>2, <2>5, <2>6
<1>11. CASE BitstreamStep
  <2>1. running # NoCall /\ UNCHANGED network
    BY <1>11 DEF BitstreamStep, BitstreamGof, BitstreamDone, Running
  <2>2. /\ running.stream \in Streams /\ running.left \in Nat /\ running.sizes \in FewSizes
        /\ stream = NoData /\ Data = running.stream /\ running.sizes \in Sizes
    BY <1>6, <2>1, CallData DEF Data
  <2>3. ASSUME NEW buf, HandOver(running.stream, buf)
        PROVE  Data' = running.stream /\ running' = NoCall
    <3>1. stream' = running.stream /\ running' = NoCall
      BY <2>3 DEF HandOver, Done
    <3> QED BY <1>1, <2>2, <3>1 DEF Data
  <2>4. CASE BitstreamDone
    <3>1. HandOver(running.stream, buffer) /\ socket' = socket /\ buffer' = buffer
      BY <2>4 DEF BitstreamDone
    <3>2. Data' = Data /\ running' = NoCall
      BY <2>2, <2>3, <3>1
    <3> QED BY <1>6, <2>1, <3>1, <3>2
  <2>5. CASE BitstreamGof
    <3>1. PICK r \in {FileGof(running.stream, ReceivedGof(running.sizes))} :
               /\ socket' = r.socket /\ buffer' = r.buffer
               /\ \/ r.outcome = "timeout" /\ HandOver(running.stream, r.buffer)
                  \/ /\ r.outcome \in {"mixed", "gap", "thrown"}
                     /\ Done("bitstream", Verdict(r, Types)) /\ UNCHANGED stream
                  \/ /\ r.outcome = "filed"
                     /\ running' = [stream |-> r.stream, left |-> running.left - 1,
                                    sizes |-> CountVPS(running.sizes, Last(r.stream))]
                     /\ UNCHANGED <<stream, last, clean>>
      BY <2>5 DEF BitstreamGof
    <3>2. FiledOk(r, running.stream, buffer, socket)
      BY <2>2, <3>1, GofFiled
    <3>3. AllOrdered(r.stream, r.buffer, r.socket, network)
      BY <1>6, <2>2, <3>1, CallOrdered
    <3>4. AllOrdered(r.stream, buffer', socket', network')
          /\ AllOrdered(<<>>, buffer', socket', network')
      BY <2>1, <3>1, <3>3, ClearedOrdered
    <3>5. CASE r.outcome = "timeout" /\ HandOver(running.stream, r.buffer)
      <4>1. Data' = r.stream /\ running' = NoCall
        BY <2>3, <3>2, <3>5 DEF FiledOk
      <4> QED BY <3>4, <4>1
    <3>6. CASE /\ r.outcome \in {"mixed", "gap", "thrown"}
               /\ Done("bitstream", Verdict(r, Types)) /\ UNCHANGED stream
      <4>1. Data' = <<>> /\ running' = NoCall
        BY <2>2, <3>6 DEF Data, Done
      <4> QED BY <3>4, <4>1
    <3>7. CASE /\ r.outcome = "filed"
               /\ running' = [stream |-> r.stream, left |-> running.left - 1,
                              sizes |-> CountVPS(running.sizes, Last(r.stream))]
               /\ UNCHANGED <<stream, last, clean>>
      <4>1. running.left > 0
        BY <2>5 DEF BitstreamGof
      <4>2. running.left - 1 \in Nat /\ CountVPS(running.sizes, Last(r.stream)) \in FewSizes
        BY <2>2, <4>1, FewCounted
      <4>3. CountVPS(running.sizes, Last(r.stream)) \in Sizes
        BY <4>2 DEF FewSizes
      <4>4. /\ running' \in Calls /\ running'.stream = r.stream
            /\ running'.sizes \in FewSizes
        BY <3>2, <3>7, <4>2, <4>3 DEF Calls, FiledOk
      <4>5. Data' = r.stream
        BY <4>4, Nothing DEF Data
      <4> QED BY <3>4, <4>4, <4>5
    <3> QED BY <3>1, <3>5, <3>6, <3>7
  <2> QED BY <1>11, <2>4, <2>5 DEF BitstreamStep
<1>12. CASE ClearSampleStream
  <2>1. /\ stream' = InitStream /\ running' = NoCall
        /\ UNCHANGED <<mode, network, socket, buffer>>
    BY <1>12 DEF ClearSampleStream
  <2>2. Data' = <<>>
    BY <2>1 DEF Data, InitStream
  <2> QED BY <1>7, <2>1, <2>2
<1>13. CASE UNCHANGED vars
  <2>1. Data' = Data
    BY <1>13 DEF vars, Data
  <2> QED BY <1>6, <1>13, <2>1 DEF vars
<1>14. ASSUME NEW sizes \in UnitSizes, NEW t \in Types, ReceiveUnit(t, sizes[t]) PROVE FALSE
  BY <1>14 DEF ReceiveUnit, Begin
<1> QED BY <1>8, <1>9, <1>10, <1>11, <1>12, <1>13, <1>14 DEF Next

(* When at most two NALUs of a unit are asked for by number and frames of a *)
(* type do not overtake each other, its NALUs are filed in the order they   *)
(* were sent in, whatever is lost, late, split or put back.                 *)
THEOREM OrderKept == Spec => []TypesInOrder
<1>1. Init => Inv /\ OrderInv
  BY InitInv, InitOrdered
<1>2. (Inv /\ OrderInv) /\ [Next]_vars => (Inv /\ OrderInv)'
  BY StepInv, StepOrdered
<1>3. ASSUME Inv, OrderInv PROVE TypesInOrder
  <2> DEFINE d == Data
  <2> SUFFICES ASSUME FewAsked, mode # "unit", faults.overtaken = 0,
                      \A k \in DOMAIN d : ~ Padded(d[k]), NEW t \in Types
               PROVE  /\ \A k, l \in DOMAIN d : k < l => Before(t, k, l)
                      /\ \A k \in DOMAIN d : t \in DOMAIN d[k].units =>
                           LET nalus == d[k].units[t].nalus
                           IN \A i, j \in DOMAIN nalus : i < j => nalus[i].id < nalus[j].id
    BY DEF TypesInOrder
  <2>1. d \in Streams /\ DOMAIN d = 1..Len(d)
    BY <1>3, DataStream DEF Streams
  <2>2. Ordered(d, t, buffer[t], socket[t], network[t])
    BY <1>3 DEF OrderInv, InOrder, AllOrdered
  <2>3. Unpadded(d)
    BY <2>1 DEF Unpadded
  <2>4. FiledRising(d, t)
    BY <2>2, <2>3 DEF Ordered
  <2>5. \A k, l \in DOMAIN d : k < l => Before(t, k, l)
    BY <2>1, <2>4 DEF FiledRising, Below, Before
  <2>6. \A k \in DOMAIN d : t \in DOMAIN d[k].units => Rising(d[k].units[t].nalus)
    BY <2>1, <2>4 DEF FiledRising
  <2> QED BY <2>5, <2>6 DEF Rising
<1> QED BY <1>1, <1>2, <1>3, PTL DEF Spec

-----------------------------------------------------------------------------
(* The GoFs of the stream in the order they were sampled in.                *)

(* The GoFs of a stream are of instants sampled one after the other, none   *)
(* after one that has a frame under way.                                    *)
Sampled == {Instants[j] : j \in DOMAIN Instants}
Aged(s, U) ==
  /\ \A k \in 1..Len(s) : s[k].ts \in Sampled
  /\ \A k \in 1..Len(s), j \in U : Age(s[k].ts) <= Age(Instants[j])
  /\ \A k, l \in 1..Len(s) : k <= l => Age(s[k].ts) <= Age(s[l].ts)

(* The instants and their ages.                                             *)
LEMMA Ages ==
  /\ Sampled \subseteq Times
  /\ \A x \in Sampled : Age(x) \in Nat
  /\ \A j \in DOMAIN Instants : j \in Nat /\ Instants[j] \in Sampled
  /\ \A i, j \in DOMAIN Instants : i <= j => Age(Instants[i]) <= Age(Instants[j])
<1>1. Instants \in Seq(Times) /\ Wrap \in Nat
  BY ReceiverAssumption, Clock DEF Times
<1>2. DOMAIN Instants = 1..Len(Instants) /\ Len(Instants) \in Nat
      /\ \A j \in DOMAIN Instants : Instants[j] \in 0..Wrap - 1
  BY <1>1 DEF Times
<1>3. \A j \in DOMAIN Instants : Age(Instants[j]) \in Nat
  <2> SUFFICES ASSUME NEW j \in DOMAIN Instants PROVE Age(Instants[j]) \in Nat
    OBVIOUS
  <2>1. 1 \in DOMAIN Instants /\ Instants[1] \in 0..Wrap - 1 /\ Instants[j] \in 0..Wrap - 1
    BY <1>2
  <2> QED BY <1>1, <2>1 DEF Age
<1>4. ASSUME NEW i \in DOMAIN Instants, NEW j \in DOMAIN Instants, i <= j
      PROVE  Age(Instants[i]) <= Age(Instants[j])
  <2>1. i < j \/ i = j
    BY <1>2, <1>4
  <2>2. CASE i < j
    <3>1. Age(Instants[i]) < Age(Instants[j])
      BY <2>2, SentAssumption
    <3> QED BY <1>3, <3>1
  <2>3. CASE i = j
    BY <1>3, <2>3
  <2> QED BY <2>1, <2>2, <2>3
<1>5. \A x \in Sampled : x \in Times /\ Age(x) \in Nat
  BY <1>2, <1>3 DEF Sampled, Times
<1> QED BY <1>2, <1>4, <1>5 DEF Sampled

(* The range of the clock between two instants holds those between them.    *)
LEMMA Between ==
  ASSUME NEW x \in Sampled, NEW y \in Sampled, NEW z \in Sampled,
         Age(x) <= Age(z), Age(z) <= Age(y)
  PROVE  IF x <= y THEN x <= z /\ z <= y ELSE z <= y \/ x <= z
<1> DEFINE a == Instants[1]
<1>1. DOMAIN Instants = 1..Len(Instants) /\ Len(Instants) \in Nat /\ Sampled \subseteq Times
      /\ \A j \in DOMAIN Instants : Instants[j] \in Times
  <2>1. Instants \in Seq(Times) /\ Sampled \subseteq Times
    BY Ages, ReceiverAssumption DEF Times
  <2> QED BY <2>1
<1>2. 1 \in DOMAIN Instants
  BY <1>1 DEF Sampled
<1>3. /\ Wrap \in Nat /\ a \in 0..Wrap - 1 /\ x \in 0..Wrap - 1 /\ y \in 0..Wrap - 1
      /\ z \in 0..Wrap - 1
  BY <1>1, <1>2, Clock DEF Times
<1>4. \A v \in {x, y, z} : Age(v) = IF v >= a THEN v - a ELSE v + Wrap - a
  BY DEF Age
<1> HIDE DEF a
<1>5. /\ Age(x) = IF x >= a THEN x - a ELSE x + Wrap - a
      /\ Age(y) = IF y >= a THEN y - a ELSE y + Wrap - a
      /\ Age(z) = IF z >= a THEN z - a ELSE z + Wrap - a
  BY <1>4
<1> QED BY <1>3, <1>5

(* Such a stream's GoFs are all found.                                      *)
LEMMA AgedFound ==
  ASSUME NEW s \in Streams, NEW U, Aged(s, U), NEW k \in 1..Len(s)
  PROVE  LET found == FindTimestamp(s, s[k].ts)
         IN found <= Len(s) /\ s[found].ts = s[k].ts
<1> DEFINE z == s[k].ts  found == FindTimestamp(s, z)  n == Len(s)
           at == {j \in 2..n : TsOf(s[j].ts) = z}
<1>1. n \in Nat /\ 1 \in 1..n /\ n \in 1..n /\ s # <<>> /\ k \in Nat /\ 1 <= k /\ k <= n
  BY DEF Streams
<1>2. \A j \in 1..n : s[j].ts \in Sampled /\ s[j].ts \in Times /\ TsOf(s[j].ts) = s[j].ts
  BY Ages, Clock DEF Aged, TsOf, IsSet
<1>3. Age(s[1].ts) <= Age(z) /\ Age(z) <= Age(s[n].ts)
  BY <1>1 DEF Aged
<1>4. IF s[1].ts <= s[n].ts THEN s[1].ts <= z /\ z <= s[n].ts ELSE z <= s[n].ts \/ s[1].ts <= z
  BY <1>1, <1>2, <1>3, Between
<1>5. FrontTs(s) = s[1].ts /\ BackTs(s) = s[n].ts /\ TsOf(z) = z
  BY <1>1, <1>2 DEF FrontTs, BackTs
<1> HIDE DEF n, z
<1>6. InRange(s, z)
  BY <1>4, <1>5 DEF InRange
<1>7. found = IF z = s[1].ts THEN 1 ELSE IF at = {} THEN n + 1 ELSE Max(at)
  BY <1>1, <1>5, <1>6 DEF FindTimestamp, n
<1> HIDE DEF found
<1>8. found \in 1..n
  <2>1. CASE z = s[1].ts
    BY <1>1, <1>7, <2>1
  <2>2. CASE z # s[1].ts
    <3>1. k \in at
      BY <1>1, <1>5, <2>2 DEF z
    <3>2. at \in SUBSET (0..n)
      BY <1>1
    <3> HIDE DEF at
    <3>3. Max(at) \in at
      BY <1>1, <3>1, <3>2, GreatestExists
    <3> QED BY <1>7, <2>2, <3>1, <3>3 DEF at
  <2> QED BY <2>1, <2>2
<1>9. TsOf(s[found].ts) = z
  BY <1>1, <1>8, FoundGof DEF found, n
<1> QED BY <1>1, <1>2, <1>8, <1>9 DEF found, n, z

(* Less is under way; GoFs keep their instants.                             *)
LEMMA AgedLess ==
  ASSUME NEW s, NEW r, NEW U, NEW V, Aged(s, U), V \subseteq U,
         Len(r) = Len(s), \A k \in 1..Len(s) : r[k].ts = s[k].ts
  PROVE  Aged(r, V)
BY DEF Aged

(* A GoF of the oldest instant under way is filed.                          *)
LEMMA AgedPush ==
  ASSUME NEW s \in Streams, NEW U \in SUBSET DOMAIN Instants, Aged(s, U), NEW g \in GoodGofs,
         NEW j \in U, g.ts = Instants[j], \A i \in U : j <= i
  PROVE  Aged(PushGof(s, g).stream, U)
<1> DEFINE r == PushGof(s, g).stream  n == Len(s)
<1>1. g.ts \in Sampled /\ IsSet(g.ts)
  BY Ages, Clock DEF IsSet
<1>2. /\ r \in Streams /\ Len(r) = n + 1 /\ \A k \in 1..n : r[k] = s[k]
      /\ r[n + 1].ts = g.ts
  BY <1>1, PushGofGood
<1>3. n \in Nat
  BY DEF Streams
<1> HIDE DEF r
<1>4. \A k \in 1..n + 1 : k \in 1..n \/ k = n + 1
  BY <1>3
<1> HIDE DEF n
<1>5. \A i \in U : Age(g.ts) <= Age(Instants[i])
  BY Ages
<1>6. /\ \A k \in 1..n : s[k].ts \in Sampled
      /\ \A k \in 1..n, i \in U : Age(s[k].ts) <= Age(Instants[i])
      /\ \A k, l \in 1..n : k <= l => Age(s[k].ts) <= Age(s[l].ts)
  BY DEF Aged, n
<1>7. \A k \in 1..n + 1 : r[k].ts \in Sampled
  BY <1>1, <1>2, <1>4, <1>6
<1>8. \A k \in 1..n + 1, i \in U : Age(r[k].ts) <= Age(Instants[i])
  BY <1>2, <1>4, <1>5, <1>6
<1>9. ASSUME NEW k \in 1..n + 1, NEW l \in 1..n + 1, k <= l
      PROVE  Age(r[k].ts) <= Age(r[l].ts)
  <2>1. CASE l = n + 1
    BY <1>2, <1>8, <2>1
  <2>2. CASE l \in 1..n
    <3>1. k \in 1..n
      BY <1>3, <1>9, <2>2
    <3> QED BY <1>2, <1>6, <1>9, <2>2, <3>1
  <2> QED BY <1>4, <2>1, <2>2
<1> QED BY <1>2, <1>7, <1>8, <1>9 DEF Aged, r

(* What is under way, of the queues of a call.                              *)
Way(f, h, N) == UNION {{Frames[t][i] : i \in N[t] \cup Ids(h[t]) \cup Ids(f[t])} : t \in Types}

(* They are numbers of GoFs sent.                                           *)
LEMMA WayIs ==
  ASSUME NEW f \in Buffers, NEW h \in Queues, NEW N \in Networks
  PROVE  /\ Way(f, h, N) \in SUBSET DOMAIN Instants /\ Way(f, h, N) \in SUBSET Nat
         /\ \A t \in Types : \A i \in N[t] \cup Ids(f[t] \o h[t]) :
              i \in DOMAIN Frames[t] /\ Frames[t][i] \in Way(f, h, N)
<1>1. ASSUME NEW t \in Types, NEW i \in N[t] \cup Ids(h[t]) \cup Ids(f[t])
      PROVE  i \in DOMAIN Frames[t] /\ Frames[t][i] \in DOMAIN Instants
  <2>1. f[t] \in Seq(FramesOf(t)) /\ h[t] \in Seq(FramesOf(t)) /\ N[t] \subseteq DOMAIN Frames[t]
    BY QueueOf DEF Networks
  <2>2. \A n \in FramesOf(t) : n.id \in DOMAIN Frames[t]
    BY FrameIs
  <2>3. \A k \in DOMAIN f[t] : f[t][k].id \in DOMAIN Frames[t]
    BY <2>1, <2>2
  <2>4. \A k \in DOMAIN h[t] : h[t][k].id \in DOMAIN Frames[t]
    BY <2>1, <2>2
  <2>5. i \in DOMAIN Frames[t]
    BY <1>1, <2>1, <2>3, <2>4 DEF Ids
  <2>6. Frames[t] \in Seq(DOMAIN Instants)
    BY ReceiverAssumption
  <2> QED BY <2>5, <2>6
<1>2. ASSUME NEW t \in Types, NEW i \in N[t] \cup Ids(f[t] \o h[t])
      PROVE  i \in N[t] \cup Ids(h[t]) \cup Ids(f[t])
  BY <1>2, QueueOf
<1>3. Way(f, h, N) \in SUBSET DOMAIN Instants
  BY <1>1 DEF Way
<1>4. DOMAIN Instants \subseteq Nat
  BY Ages
<1> QED BY <1>1, <1>2, <1>3, <1>4 DEF Way

(* receive_gof leaves no frame under way that was not.                      *)
LEMMA FiledLess ==
  ASSUME NEW s \in Streams, NEW f \in Buffers, NEW h \in Queues, NEW N \in Networks,
         AllOrdered(s, f, h, N), NEW sizes, NEW a \in Accs, GofParts(a, NumTypes, f, h, sizes)
  PROVE  LET r == FileGof(s, a) IN Way(r.buffer, r.socket, N) \subseteq Way(f, h, N)
<1> DEFINE r == FileGof(s, a)
<1>1. a.socket \in Queues /\ a.buffer \in Buffers /\ a.gof \in GoodGofs \cup {EmptyGof}
  BY DEF Accs
<1>2. ASSUME NEW t \in Types
      PROVE  Ids(a.socket[t]) \cup Ids(a.buffer[t]) \subseteq Ids(h[t]) \cup Ids(f[t])
  <2>1. PICK q \in Seq(FramesOf(t)) : TypePart(a, NumTypes, t, q, f, h, sizes)
    BY DEF GofParts
  <2>2. Ids(a.buffer[t] \o a.socket[t]) \subseteq Ids(f[t] \o h[t])
    BY <2>1 DEF TypePart, PartedAs
  <2>3. Ids(f[t] \o h[t]) = Ids(f[t]) \cup Ids(h[t])
    BY QueueOf
  <2>4. Ids(a.buffer[t] \o a.socket[t]) = Ids(a.buffer[t]) \cup Ids(a.socket[t])
    <3>1. a.buffer \in Buffers /\ a.socket \in Queues
      BY <1>1
    <3> QED BY <3>1, QueueIds, Zenon
  <2> QED BY <2>2, <2>3, <2>4
<1>3. /\ r.socket = a.socket
      /\ \A t \in Types : Ids(r.buffer[t]) \subseteq Ids(a.buffer[t])
  <2>1. CASE a.ok /\ a.gof.units # <<>>
    <3> DEFINE p == PushGof(s, a.gof)
    <3>1. r = AfterPush(p, a.socket, a.buffer, Types)
      BY <2>1 DEF FileGof
    <3>2. a.gof \in GoodGofs
      BY <1>1, <2>1 DEF EmptyGof
    <3>3. p.stream \in Streams /\ AllOrdered(p.stream, a.buffer, a.socket, N)
      BY <3>2, GofOrdered, PushGofGood
    <3> HIDE DEF p, r
    <3>4. CASE p.ok
      <4> DEFINE b == PushBuffers(p.stream, a.buffer, Types)
      <4>1. r.buffer = b.buffer /\ r.socket = a.socket
        BY <3>1, <3>4 DEF AfterPush, AfterBuffers
      <4>2. \A x \in Types : Ids(b.buffer[x]) \subseteq Ids(a.buffer[x])
        BY <1>1, <3>3, BuffersOrdered
      <4> HIDE DEF b
      <4> QED BY <4>1, <4>2
    <3>5. CASE ~ p.ok
      BY <3>1, <3>5 DEF AfterPush
    <3> QED BY <3>4, <3>5
  <2>2. CASE ~ (a.ok /\ a.gof.units # <<>>)
    <3>1. r.buffer = a.buffer /\ r.socket = a.socket
      BY <2>2 DEF FileGof
    <3> HIDE DEF r
    <3> QED BY <3>1
  <2> QED BY <2>1, <2>2
<1> HIDE DEF r
<1>4. \A t \in Types : Ids(r.socket[t]) \cup Ids(r.buffer[t]) \subseteq Ids(h[t]) \cup Ids(f[t])
  BY <1>2, <1>3
<1>5. Way(r.buffer, r.socket, N) \subseteq Way(f, h, N)
  BY <1>4 DEF Way
<1> QED BY <1>5 DEF r

(* Asked for after it arrived, the GoF received is the oldest under way.    *)
LEMMA OldestReceived ==
  ASSUME NEW f \in Buffers, NEW h \in Queues, NEW N \in Networks, LinesOk(f, h),
         NEW sizes \in FewSizes, NEW a \in Accs, GofParts(a, NumTypes, f, h, sizes),
         a.ok, a.gof.units # <<>>, \A t \in Types : sizes[t] > 0,
         \A t \in Types : \A i \in N[t] : Frames[t][i] > Min(Way(f, h, N))
  PROVE  a.gof \in GoodGofs
         /\ \E j \in Way(f, h, N) : a.gof.ts = Instants[j] /\ \A i \in Way(f, h, N) : j <= i
<1> DEFINE g == a.gof  U == Way(f, h, N)  j == Min(U)
           Part(t, q) == TypePart(a, NumTypes, t, q, f, h, sizes)
<1>1. g \in GoodGofs
  BY DEF Accs, EmptyGof
<1>2. DOMAIN g.units # {} /\ DOMAIN g.units \subseteq Types /\ (Padded(g) \/ Exact(g))
  BY <1>1, GofFields DEF GoodGofs
<1>3. /\ U \in SUBSET Nat
      /\ \A t \in Types : \A i \in N[t] \cup Ids(f[t] \o h[t]) :
           i \in DOMAIN Frames[t] /\ Frames[t][i] \in U
  BY WayIs
<1>4. \A t \in Types : \E q \in Seq(FramesOf(t)) : Part(t, q)
  BY DEF GofParts
<1> HIDE DEF Part, g
<1>5. ASSUME NEW t \in Types, NEW q \in Seq(FramesOf(t)), Part(t, q)
      PROVE  /\ Rising(q) /\ Below(Ids(q), Ids(a.buffer[t] \o a.socket[t]))
             /\ Ids(q) \cup Ids(a.buffer[t] \o a.socket[t]) = Ids(f[t] \o h[t])
             /\ t \in DOMAIN g.units => g.units[t].nalus = q /\ q # <<>>
             /\ f[t] \o h[t] # <<>> => t \in DOMAIN g.units
  <2>1. t < NumTypes
    <3>1. t \in 0..NumTypes - 1
      BY ReceiverAssumption
    <3> QED BY <3>1 DEF NumTypes
  <2> QED BY <1>5, <2>1 DEF Part, TypePart, PartedAs, g
<1>6. ~ Padded(g)
  BY <1>2, <1>4, <1>5 DEF Padded
<1>7. U # {}
  <2>1. PICK t \in Types : t \in DOMAIN g.units
    BY <1>2
  <2>2. PICK q \in Seq(FramesOf(t)) : Part(t, q)
    BY <1>4
  <2>3. q # <<>>
    BY <1>5, <2>1, <2>2
  <2>4. PICK i \in Ids(q) : TRUE
    BY <2>3, NoIds
  <2>5. i \in Ids(f[t] \o h[t])
    BY <1>5, <2>2, <2>4
  <2> QED BY <1>3, <2>5
<1> HIDE DEF U
<1>8. j \in U /\ \A i \in U : j <= i
  BY <1>3, <1>7, LeastExists
<1> HIDE DEF j
<1>9. PICK t \in Types : \E i \in N[t] \cup Ids(h[t]) \cup Ids(f[t]) : Frames[t][i] = j
  BY <1>8 DEF U, Way
<1>10. PICK i \in N[t] \cup Ids(h[t]) \cup Ids(f[t]) : Frames[t][i] = j
  BY <1>9
<1>11. i \in Ids(f[t] \o h[t]) /\ i \in DOMAIN Frames[t]
  <2>1. i \notin N[t]
    <3>1. i \in N[t] => Frames[t][i] > j
      BY DEF U, j
    <3>2. j \in Nat
      BY <1>3, <1>8
    <3> QED BY <1>10, <3>1, <3>2
  <2>2. Ids(f[t] \o h[t]) = Ids(f[t]) \cup Ids(h[t])
    BY QueueOf
  <2> QED BY <1>3, <1>10, <2>1, <2>2
<1>12. PICK q \in Seq(FramesOf(t)) : Part(t, q)
  BY <1>4
<1>13. f[t] \o h[t] # <<>>
  <2>1. f[t] \o h[t] = <<>> => DOMAIN (f[t] \o h[t]) = {}
    OBVIOUS
  <2> QED BY <1>11, <2>1 DEF Ids
<1>14. g.units[t].nalus = q /\ q # <<>> /\ t \in DOMAIN g.units /\ 1 \in DOMAIN q
  BY <1>5, <1>12, <1>13
<1> DEFINE m == q[1].id
<1>15. q[1] \in FramesOf(t) /\ m \in Ids(q) /\ m \in Ids(f[t] \o h[t])
  <2>1. q[1] \in FramesOf(t) /\ m \in Ids(q)
    BY <1>14 DEF Ids
  <2>2. Ids(q) \subseteq Ids(f[t] \o h[t])
    BY <1>5, <1>12
  <2> QED BY <2>1, <2>2
<1>16. /\ m \in DOMAIN Frames[t] /\ q[1] = Frame(t, m) /\ Frames[t][m] \in U
       /\ DOMAIN Frames[t] \subseteq Nat
  <2>1. Frames[t] \in Seq(DOMAIN Instants)
    BY ReceiverAssumption
  <2> QED BY <1>3, <1>15, <2>1, FrameIs
<1> HIDE DEF m
<1>17. m <= i
  <2>1. m \in Nat /\ i \in Nat
    BY <1>11, <1>16
  <2>2. CASE i \in Ids(q)
    <3>1. PICK k \in DOMAIN q : q[k].id = i
      BY <2>2 DEF Ids
    <3>2. k = 1 \/ 1 < k
      OBVIOUS
    <3>3. 1 < k => q[1].id < q[k].id
      BY <1>5, <1>12, <1>14 DEF Rising
    <3> QED BY <2>1, <3>1, <3>2, <3>3 DEF m
  <2>3. CASE i \notin Ids(q)
    <3>1. i \in Ids(a.buffer[t] \o a.socket[t])
      BY <1>5, <1>11, <1>12, <2>3
    <3>2. m < i
      BY <1>5, <1>12, <1>15, <3>1 DEF Below
    <3> QED BY <2>1, <3>2
  <2> QED BY <2>2, <2>3
<1>18. Frames[t][m] = j
  <2>1. Frames[t][m] <= Frames[t][i]
    BY <1>11, <1>16, <1>17, SentOrder
  <2>2. j <= Frames[t][m] /\ j \in Nat /\ Frames[t][m] \in Nat
    BY <1>3, <1>8, <1>16
  <2> QED BY <1>10, <2>1, <2>2
<1>19. q[1].ts = g.ts
  BY <1>2, <1>6, <1>14 DEF Exact, UnitAt
<1>20. g.ts = Instants[j]
  BY <1>16, <1>18, <1>19 DEF Frame
<1> QED BY <1>1, <1>8, <1>20 DEF g, U

(* The GoF received is filed, the buffers are tried.                        *)
LEMMA FiledAged ==
  ASSUME NEW s \in Streams, NEW f \in Buffers, NEW h \in Queues, NEW N \in Networks,
         AllOrdered(s, f, h, N), NEW sizes \in FewSizes, NEW a \in Accs,
         GofParts(a, NumTypes, f, h, sizes),
         Aged(s, Way(f, h, N)), \A t \in Types : sizes[t] > 0,
         \A t \in Types : \A i \in N[t] : Frames[t][i] > Min(Way(f, h, N))
  PROVE  LET r == FileGof(s, a) IN Aged(r.stream, Way(r.buffer, r.socket, N))
<1> DEFINE r == FileGof(s, a)  U == Way(f, h, N)  V == Way(r.buffer, r.socket, N)
<1>1. V \subseteq U
  BY FiledLess
<1>2. CASE a.ok /\ a.gof.units # <<>>
  <2> DEFINE g == a.gof  p == PushGof(s, g)
  <2>1. LinesOk(f, h)
    BY DEF AllOrdered, Ordered, Lined, LinesOk
  <2>2. g \in GoodGofs /\ \E j \in U : g.ts = Instants[j] /\ \A i \in U : j <= i
    BY <1>2, <2>1, OldestReceived
  <2>3. U \in SUBSET DOMAIN Instants
    BY WayIs
  <2>4. r = AfterPush(p, a.socket, a.buffer, Types)
    BY <1>2 DEF FileGof
  <2> HIDE DEF U, V, g
  <2>5. p.stream \in Streams /\ Aged(p.stream, U)
    BY <2>2, <2>3, AgedPush, PushGofGood DEF U
  <2> HIDE DEF p, r
  <2>6. CASE p.ok
    <3> DEFINE b == PushBuffers(p.stream, a.buffer, Types)
    <3>1. r.stream = b.stream
      BY <2>4, <2>6 DEF AfterPush, AfterBuffers
    <3>2. a.buffer \in Buffers
      BY DEF Accs
    <3>3. PushState(b, p.stream, a.buffer)
      BY <2>5, <3>2, PushesGood
    <3> HIDE DEF b
    <3>4. /\ Len(r.stream) = Len(p.stream)
          /\ \A k \in 1..Len(p.stream) : r.stream[k].ts = p.stream[k].ts
      BY <3>1, <3>3 DEF PushState, Extends
    <3>5. Aged(r.stream, V)
      BY <1>1, <2>5, <3>4, AgedLess
    <3> QED BY <3>5 DEF V, r
  <2>7. CASE ~ p.ok
    <3>1. r.stream = p.stream
      BY <2>4, <2>7 DEF AfterPush
    <3>2. Aged(r.stream, V)
      BY <1>1, <2>5, <3>1, AgedLess
    <3> QED BY <3>2 DEF V, r
  <2> QED BY <2>6, <2>7
<1>3. CASE ~ (a.ok /\ a.gof.units # <<>>)
  <2>1. r.stream = s
    BY <1>3 DEF FileGof
  <2> HIDE DEF r
  <2>2. Aged(r.stream, V)
    <3> HIDE DEF U, V
    <3> QED BY <1>1, <2>1, AgedLess DEF U
  <2> QED BY <2>2 DEF r
<1> QED BY <1>2, <1>3

(* As long as no GoF was asked for before it had arrived.                   *)
LookInv ==
  FewAsked /\ mode # "unit" /\ faults.overtaken = 0 /\ regular => Aged(Data, UnderWay)

(* The same of the queues of the handle.                                    *)
LEMMA WayHere == UnderWay = Way(buffer, socket, network)
BY DEF UnderWay, Way

(* The call, of the handle as it stands.                                    *)
LEMMA CallAged ==
  ASSUME Inv, NEW s \in Streams, NEW sizes \in FewSizes,
         AllOrdered(s, buffer, socket, network), Aged(s, UnderWay)
  PROVE  LET r == FileGof(s, ReceivedGof(sizes))
         IN Regular(sizes) => Aged(r.stream, Way(r.buffer, r.socket, network))
<1> SUFFICES ASSUME Regular(sizes)
             PROVE  LET r == FileGof(s, ReceivedGof(sizes))
                    IN Aged(r.stream, Way(r.buffer, r.socket, network))
  OBVIOUS
<1>1. socket \in Queues /\ buffer \in Buffers /\ network \in Networks /\ sizes \in Sizes
  BY CallData DEF Inv, QueuesOk, NetworkOk, Networks, FewSizes
<1>2. LinesOk(buffer, socket)
  BY DEF AllOrdered, Ordered, Lined, LinesOk
<1> DEFINE a == ReceivedGof(sizes)
<1>3. GofParts(a, NumTypes, buffer, socket, sizes)
  BY <1>1, <1>2, GofPartsAll
<1>4. a \in Accs
  BY <1>1, GofGood DEF GofState
<1> HIDE DEF a
<1>5. /\ \A t \in Types : sizes[t] > 0
      /\ \A t \in Types : \A i \in network[t] : Frames[t][i] > Min(UnderWay)
  BY DEF Regular
<1>6. LET r == FileGof(s, a) IN Aged(r.stream, Way(r.buffer, r.socket, network))
  BY <1>1, <1>3, <1>4, <1>5, WayHere, FiledAged
<1> QED BY <1>6 DEF a

(* A frame that arrives stays under way, one that is lost no longer is.     *)
LEMMA NetworkAged ==
  ASSUME QueuesOk, NEW t \in Types, Arrive(t) \/ Lose(t)
  PROVE  UnderWay' \subseteq UnderWay
<1> DEFINE N == network[t]  i == Min(N)  n == Frame(t, i)
<1>1. /\ N # {} /\ network' = [network EXCEPT ![t] = @ \ {Min(@)}] /\ buffer' = buffer
      /\ socket' \in {socket, [socket EXCEPT ![t] = Append(@, n)]}
  BY DEF Arrive, Lose
<1>2. socket \in Queues /\ network \in [Types -> SUBSET Nat]
  BY DEF QueuesOk, NetworkOk
<1>3. i \in N
  BY <1>1, <1>2, LeastExists
<1>4. /\ network'[t] = N \ {i} /\ socket'[t] \in {socket[t], Append(socket[t], n)}
      /\ \A x \in Types : x # t => socket'[x] = socket[x] /\ network'[x] = network[x]
  BY <1>1, <1>2 DEF Queues
<1>5. socket[t] \in Seq(Nalus) /\ n.id = i
  BY <1>2 DEF Queues, Frame
<1> HIDE DEF i, n
<1>6. Ids(Append(socket[t], n)) \subseteq Ids(socket[t]) \cup {i}
  <2> DEFINE q == socket[t]
  <2>1. q \in Seq(Nalus)
    BY <1>5
  <2> HIDE DEF q
  <2>2. \A k \in DOMAIN Append(q, n) :
          Append(q, n)[k] = n \/ (k \in DOMAIN q /\ Append(q, n)[k] = q[k])
    BY <2>1
  <2>3. Ids(Append(q, n)) \subseteq Ids(q) \cup {i}
    BY <1>5, <2>2 DEF Ids
  <2> QED BY <2>3 DEF q
<1>7. ASSUME NEW x \in Types
      PROVE  network'[x] \cup Ids(socket'[x]) \cup Ids(buffer'[x])
               \subseteq network[x] \cup Ids(socket[x]) \cup Ids(buffer[x])
  <2>1. CASE x # t
    BY <1>1, <1>4, <2>1
  <2>2. CASE x = t
    <3>1. Ids(socket'[t]) \subseteq Ids(socket[t]) \cup {i}
      BY <1>4, <1>6
    <3> QED BY <1>1, <1>3, <1>4, <2>2, <3>1
  <2> QED BY <2>1, <2>2
<1>8. UnderWay' =
        UNION {{Frames[x][k] : k \in network'[x] \cup Ids(socket'[x]) \cup Ids(buffer'[x])}
                         : x \in Types}
  BY DEF UnderWay, Ids
<1> QED BY <1>7, <1>8 DEF UnderWay

(* Every step keeps the GoFs in the order they were sampled in.             *)
LEMMA StepAged == ASSUME Inv, OrderInv, LookInv, [Next]_vars PROVE LookInv'
<1>1. QueuesOk /\ NoData \notin Streams /\ <<>> \in Streams /\ FaultsOk /\ InOrder
  BY Nothing DEF Inv, OrderInv
<1> SUFFICES ASSUME FewAsked, mode' # "unit", faults'.overtaken = 0, regular'
             PROVE  Aged(Data', UnderWay')
  BY DEF LookInv, Aged
<1>2. ASSUME NEW t \in Types, Overtake(t) PROVE FALSE
  <2>1. faults' = [faults EXCEPT !.overtaken = @ + 1]
    BY <1>2 DEF Overtake
  <2> QED BY <1>1, <2>1 DEF FaultsOk
<1>3. mode' = mode /\ regular /\ faults.overtaken = 0
  <2>1. mode' = mode /\ (regular' => regular)
    BY DEF Next, vars, Arrive, Overtake, Lose, ReceiveGof, ReceiveUnit, BeginBitstream, Begin,
       BitstreamStep, BitstreamGof, BitstreamDone, Running, ClearSampleStream
  <2>2. CASE \E t \in Types : Lose(t)
    <3>1. faults' = [faults EXCEPT !.lost = @ + 1]
      BY <2>2 DEF Lose
    <3> QED BY <1>1, <2>1, <3>1 DEF FaultsOk
  <2>3. CASE ~ \E t \in Types : Lose(t)
    <3>1. faults' = faults
      BY <1>2, <2>3 DEF Next, vars, Arrive, ReceiveGof, ReceiveUnit, BeginBitstream, Begin,
         BitstreamStep, BitstreamGof, BitstreamDone, Running, ClearSampleStream
    <3> QED BY <2>1, <3>1
  <2> QED BY <2>2, <2>3
<1>4. /\ AllOrdered(Data, buffer, socket, network) /\ Aged(Data, UnderWay)
      /\ running # NoCall => running.sizes \in FewSizes
  BY <1>1, <1>3 DEF InOrder, LookInv
<1>5. \A U : Aged(<<>>, U)
  <2>1. Len(<<>>) = 0 /\ 1..0 = {}
    OBVIOUS
  <2> QED BY <2>1 DEF Aged
<1>6. ASSUME Data' = Data, UnderWay' \subseteq UnderWay PROVE Aged(Data', UnderWay')
  BY <1>4, <1>6, AgedLess
<1>7. ASSUME UNCHANGED <<network, socket, buffer>> PROVE UnderWay' = UnderWay
  BY <1>7 DEF UnderWay
<1>8. UnderWay' = Way(buffer', socket', network')
  BY DEF UnderWay, Way, Ids
<1>9. CASE \E t \in Types : Arrive(t) \/ Lose(t)
  <2>1. PICK t \in Types : Arrive(t) \/ Lose(t)
    BY <1>9
  <2>2. Data' = Data
    BY <2>1 DEF Arrive, Lose, Data
  <2> QED BY <1>1, <1>6, <2>1, <2>2, NetworkAged
<1>10. CASE \E sizes \in UnitSizes : ReceiveGof(sizes)
  <2>1. PICK sizes \in UnitSizes : ReceiveGof(sizes)
    BY <1>10
  <2>2. mode = "gof" /\ running = NoCall /\ network' = network /\ Regular(sizes)
    BY <2>1 DEF ReceiveGof, Begin
  <2>3. PICK r \in {FileGof(stream, ReceivedGof(sizes))} :
             Install(r) /\ Done("gof", Verdict(r, Types))
    BY <2>1 DEF ReceiveGof
  <2>4. stream \in Streams /\ FiledOk(r, stream, buffer, socket)
    BY <2>2, <2>3, CallData, GofFiled, GivenSizes
  <2>5. /\ stream' = r.stream /\ socket' = r.socket /\ buffer' = r.buffer /\ running' = NoCall
    BY <2>3 DEF Install, Done
  <2>6. Data = stream /\ Data' = r.stream
    BY <1>1, <2>2, <2>4, <2>5 DEF Data, FiledOk
  <2>7. Aged(r.stream, Way(r.buffer, r.socket, network))
    BY <1>4, <2>2, <2>3, <2>4, <2>6, FewGiven, CallAged
  <2> QED BY <1>8, <2>2, <2>5, <2>6, <2>7
<1>11. CASE \E sizes \in UnitSizes, n \in GofCounts : BeginBitstream(n, sizes)
  <2>1. PICK sizes \in UnitSizes, n \in GofCounts : BeginBitstream(n, sizes)
    BY <1>11
  <2>2. running' = [stream |-> <<>>, left |-> n, sizes |-> sizes]
    BY <2>1 DEF BeginBitstream
  <2>3. n \in Nat /\ sizes \in Sizes
    BY ReceiverAssumption, GivenSizes
  <2>4. running' \in Calls
    BY <1>1, <2>2, <2>3 DEF Calls
  <2>5. running' # NoCall /\ running'.stream = <<>>
    BY <2>2, <2>4, Nothing
  <2>6. Data' = <<>>
    BY <2>5 DEF Data
  <2> QED BY <1>5, <2>6
<1>12. CASE BitstreamStep
  <2>1. running # NoCall /\ network' = network
    BY <1>12 DEF BitstreamStep, BitstreamGof, BitstreamDone, Running
  <2>2. /\ running.stream \in Streams /\ running.left \in Nat /\ running.sizes \in FewSizes
        /\ stream = NoData /\ Data = running.stream /\ running.sizes \in Sizes
    BY <1>4, <2>1, CallData DEF Data
  <2>3. ASSUME NEW buf, HandOver(running.stream, buf)
        PROVE  Data' = running.stream
    <3>1. stream' = running.stream /\ running' = NoCall
      BY <2>3 DEF HandOver, Done
    <3> QED BY <1>1, <2>2, <3>1 DEF Data
  <2>4. CASE BitstreamDone
    <3>1. HandOver(running.stream, buffer) /\ socket' = socket /\ buffer' = buffer
      BY <2>4 DEF BitstreamDone
    <3>2. Data' = Data /\ UnderWay' \subseteq UnderWay
      BY <1>7, <2>1, <2>2, <2>3, <3>1
    <3> QED BY <1>6, <3>2
  <2>5. CASE BitstreamGof
    <3>1. PICK r \in {FileGof(running.stream, ReceivedGof(running.sizes))} :
               /\ socket' = r.socket /\ buffer' = r.buffer
               /\ \/ r.outcome = "timeout" /\ HandOver(running.stream, r.buffer)
                  \/ /\ r.outcome \in {"mixed", "gap", "thrown"}
                     /\ Done("bitstream", Verdict(r, Types)) /\ UNCHANGED stream
                  \/ /\ r.outcome = "filed"
                     /\ running' = [stream |-> r.stream, left |-> running.left - 1,
                                    sizes |-> CountVPS(running.sizes, Last(r.stream))]
                     /\ UNCHANGED <<stream, last, clean>>
      BY <2>5 DEF BitstreamGof
    <3>2. FiledOk(r, running.stream, buffer, socket) /\ Regular(running.sizes)
      BY <2>2, <2>5, <3>1, GofFiled DEF BitstreamGof
    <3>3. Aged(r.stream, Way(r.buffer, r.socket, network))
      BY <1>4, <2>2, <3>1, <3>2, CallAged
    <3>4. Aged(r.stream, UnderWay')
      BY <1>8, <2>1, <3>1, <3>3
    <3>5. CASE r.outcome = "timeout" /\ HandOver(running.stream, r.buffer)
      <4>1. Data' = r.stream
        BY <2>3, <3>2, <3>5 DEF FiledOk
      <4> QED BY <3>4, <4>1
    <3>6. CASE /\ r.outcome \in {"mixed", "gap", "thrown"}
               /\ Done("bitstream", Verdict(r, Types)) /\ UNCHANGED stream
      <4>1. Data' = <<>>
        BY <2>2, <3>6 DEF Data, Done
      <4> QED BY <1>5, <4>1
    <3>7. CASE /\ r.outcome = "filed"
               /\ running' = [stream |-> r.stream, left |-> running.left - 1,
                              sizes |-> CountVPS(running.sizes, Last(r.stream))]
               /\ UNCHANGED <<stream, last, clean>>
      <4>1. running.left > 0
        BY <2>5 DEF BitstreamGof
      <4>2. running.left - 1 \in Nat /\ CountVPS(running.sizes, Last(r.stream)) \in FewSizes
        BY <2>2, <4>1, FewCounted
      <4>3. CountVPS(running.sizes, Last(r.stream)) \in Sizes
        BY <4>2 DEF FewSizes
      <4>4. running' \in Calls /\ running'.stream = r.stream
        BY <3>2, <3>7, <4>2, <4>3 DEF Calls, FiledOk
      <4>5. Data' = r.stream
        BY <4>4, Nothing DEF Data
      <4> QED BY <3>4, <4>5
    <3> QED BY <3>1, <3>5, <3>6, <3>7
  <2> QED BY <1>12, <2>4, <2>5 DEF BitstreamStep
<1>13. CASE ClearSampleStream
  <2>1. stream' = InitStream /\ running' = NoCall /\ mode' = mode
    BY <1>13 DEF ClearSampleStream
  <2>2. Data' = <<>>
    BY <2>1 DEF Data, InitStream
  <2> QED BY <1>5, <2>2
<1>14. CASE UNCHANGED vars
  <2>1. Data' = Data /\ UnderWay' \subseteq UnderWay
    BY <1>7, <1>14 DEF vars, Data
  <2> QED BY <1>6, <2>1
<1>15. ASSUME NEW sizes \in UnitSizes, NEW t \in Types, ReceiveUnit(t, sizes[t]) PROVE FALSE
  BY <1>3, <1>15 DEF ReceiveUnit, Begin
<1> QED BY <1>2, <1>9, <1>10, <1>11, <1>12, <1>13, <1>14, <1>15 DEF Next

(* When moreover no GoF is asked for before it has arrived, find_timestamp  *)
(* finds every GoF of the stream, after losses and over the wrap of the     *)
(* clock too.                                                               *)
THEOREM LookupFound == Spec => []LookupFinds
<1>1. Init => Inv /\ OrderInv
  BY InitInv, InitOrdered
<1>2. Init => LookInv
  <2> SUFFICES ASSUME Init PROVE LookInv
    OBVIOUS
  <2>1. Data = <<>>
    BY DEF Init, Data, InitStream
  <2>2. Len(<<>>) = 0 /\ 1..0 = {}
    OBVIOUS
  <2> QED BY <2>1, <2>2 DEF LookInv, Aged
<1>3. (Inv /\ OrderInv /\ LookInv) /\ [Next]_vars => (Inv /\ OrderInv /\ LookInv)'
  BY StepInv, StepOrdered, StepAged
<1>4. ASSUME Inv, LookInv PROVE LookupFinds
  <2> DEFINE d == Data
  <2> SUFFICES ASSUME FewAsked, mode # "unit", faults.overtaken = 0, regular, NEW k \in DOMAIN d
               PROVE  LET found == FindTimestamp(d, d[k].ts)
                      IN found <= Len(d) /\ d[found].ts = d[k].ts
    BY DEF LookupFinds
  <2>1. d \in Streams /\ DOMAIN d = 1..Len(d)
    BY <1>4, DataStream DEF Streams
  <2>2. Aged(d, UnderWay)
    BY <1>4 DEF LookInv
  <2> HIDE DEF d
  <2> QED BY <2>1, <2>2, AgedFound
<1> QED BY <1>1, <1>2, <1>3, <1>4, PTL DEF Spec

-----------------------------------------------------------------------------
(* The stream that holds the GoFs sent.                                     *)

(* What is under way of a type is what was sent of it from the j-th GoF on. *)
Rest(t, j) == {i \in DOMAIN Frames[t] : Frames[t][i] >= j}
Remains(f, h, N, j) == \A t \in Types : N[t] \cup Ids(f[t] \o h[t]) = Rest(t, j)

(* The stream ends before the j-th GoF sent, its GoFs are those before it.  *)
WholeAt(g, i) ==
  /\ g.ts = Instants[i]
  /\ \A t \in Types : t \in DOMAIN g.units <=> SentOf(t, i) # {}
  /\ \A t \in Types : UnitIds(g, t) = SentOf(t, i)
Whole(s, j) ==
  /\ j \in 1..Len(Instants) + 1 /\ Len(s) < j
  /\ \A k \in 1..Len(s) : WholeAt(s[k], j - Len(s) + k - 1)

(* The sizes asked for take in every unit.                                  *)
AllFit(sizes) == \A t \in Types : sizes[t] > 0 /\ Fits(t, sizes[t])

(* The frames and the instants are numbered.                                *)
LEMMA Numbered ==
  /\ Len(Instants) \in Nat /\ DOMAIN Instants = 1..Len(Instants)
  /\ \A t \in Types : \A i \in DOMAIN Frames[t] :
       i \in Nat /\ Frames[t][i] \in DOMAIN Instants /\ Frames[t][i] \in Nat
<1>1. Instants \in Seq(Times)
  BY ReceiverAssumption DEF Times
<1>2. Len(Instants) \in Nat /\ DOMAIN Instants = 1..Len(Instants)
  BY <1>1
<1>3. ASSUME NEW t \in Types, NEW i \in DOMAIN Frames[t]
      PROVE  i \in Nat /\ Frames[t][i] \in DOMAIN Instants
  <2>1. Frames[t] \in Seq(DOMAIN Instants)
    BY ReceiverAssumption
  <2> QED BY <2>1
<1> QED BY <1>2, <1>3

(* No two GoFs are sampled at the same instant of the clock.                *)
LEMMA InstantOnce ==
  ASSUME NEW i \in DOMAIN Instants, NEW j \in DOMAIN Instants, Instants[i] = Instants[j]
  PROVE  i = j
<1>1. i \in Nat /\ j \in Nat
  BY Numbered
<1>2. Age(Instants[i]) \in Nat
  BY Ages
<1>3. ~ (i < j) /\ ~ (j < i)
  <2>1. i < j => Age(Instants[i]) < Age(Instants[j])
    BY SentAssumption
  <2>2. j < i => Age(Instants[j]) < Age(Instants[i])
    BY SentAssumption
  <2> DEFINE a == Age(Instants[i])
  <2>3. (i < j => a < a) /\ (j < i => a < a) /\ a \in Nat
    BY <1>2, <2>1, <2>2
  <2> HIDE DEF a
  <2> QED BY <2>3
<1> QED BY <1>1, <1>3

(* So a timestamp tells the number of the GoF.                              *)
LEMMA NumberIs == ASSUME NEW i \in DOMAIN Instants PROVE InstantNo(Instants[i]) = i
BY InstantOnce DEF InstantNo

(* A queue in order holds no frame twice.                                   *)
LEMMA RisingOnce ==
  ASSUME NEW q \in Seq(Nalus), Rising(q) PROVE NoneTwice(q)
<1> SUFFICES ASSUME NEW i \in DOMAIN q, NEW j \in DOMAIN q, q[i].id = q[j].id PROVE i = j
  BY DEF NoneTwice
<1>1. q[i] \in Nalus /\ q[j] \in Nalus /\ i \in Nat /\ j \in Nat
  OBVIOUS
<1>2. q[i].id \in Nat
  BY <1>1 DEF Nalus
<1>3. (i < j => q[i].id < q[j].id) /\ (j < i => q[j].id < q[i].id)
  BY DEF Rising
<1> DEFINE a == q[i].id
<1>4. (i < j => a < a) /\ (j < i => a < a)
  BY <1>3
<1> HIDE DEF a
<1> QED BY <1>1, <1>2, <1>4 DEF a

(* The oldest GoF that has a frame under way is the first that remains.     *)
LEMMA OldestIs ==
  ASSUME NEW f \in Buffers, NEW h \in Queues, NEW N \in Networks, NEW j \in DOMAIN Instants,
         Remains(f, h, N, j)
  PROVE  Min(Way(f, h, N)) = j
<1> DEFINE U == Way(f, h, N)
<1>1. U \in SUBSET Nat /\ j \in Nat
  BY WayIs, Numbered
<1>2. j \in U
  <2>1. PICK t \in Types : \E i \in DOMAIN Frames[t] : Frames[t][i] = j
    BY SentAssumption
  <2>2. PICK i \in DOMAIN Frames[t] : Frames[t][i] = j
    BY <2>1
  <2>3. i \in Rest(t, j)
    BY <1>1, <2>2 DEF Rest
  <2>4. i \in N[t] \cup Ids(f[t] \o h[t])
    BY <2>3 DEF Remains
  <2> QED BY <2>2, <2>4, WayIs
<1>3. ASSUME NEW u \in U PROVE u >= j
  <2>1. PICK t \in Types : \E i \in N[t] \cup Ids(h[t]) \cup Ids(f[t]) : Frames[t][i] = u
    BY <1>3 DEF U, Way
  <2>2. PICK i \in N[t] \cup Ids(h[t]) \cup Ids(f[t]) : Frames[t][i] = u
    BY <2>1
  <2>3. Ids(f[t] \o h[t]) = Ids(f[t]) \cup Ids(h[t])
    BY QueueOf
  <2>4. i \in Rest(t, j)
    BY <2>2, <2>3 DEF Remains
  <2> QED BY <2>2, <2>4 DEF Rest
<1> HIDE DEF U
<1>4. Min(U) \in U /\ \A u \in U : Min(U) <= u
  BY <1>1, <1>2, LeastExists
<1>5. Min(U) <= j /\ Min(U) >= j /\ Min(U) \in Nat
  BY <1>1, <1>2, <1>3, <1>4
<1>6. Min(U) = j
  BY <1>1, <1>5
<1> QED BY <1>6 DEF U

(* Asked for after it has arrived, all of that GoF is queued.               *)
LEMMA AllQueued ==
  ASSUME NEW f \in Buffers, NEW h \in Queues, NEW N \in Networks, NEW j \in DOMAIN Instants,
         Remains(f, h, N, j), \A t \in Types : \A i \in N[t] : Frames[t][i] > Min(Way(f, h, N)),
         NEW t \in Types
  PROVE  SentOf(t, j) \subseteq Ids(f[t] \o h[t]) /\ SentOf(t, j) \cap N[t] = {}
<1> SUFFICES ASSUME NEW i \in SentOf(t, j) PROVE i \in Ids(f[t] \o h[t]) /\ i \notin N[t]
  OBVIOUS
<1>1. j \in Nat /\ Frames[t][i] = j /\ i \in DOMAIN Frames[t]
  BY Numbered DEF SentOf
<1>2. i \notin N[t]
  <2>1. i \in N[t] => Frames[t][i] > j
    BY OldestIs
  <2> QED BY <1>1, <2>1
<1>3. i \in Rest(t, j)
  BY <1>1 DEF Rest
<1> QED BY <1>2, <1>3 DEF Remains

(* The j-th GoF is the first that remains, and it is asked for after it has *)
(* arrived, with sizes that take in every unit.                             *)
Awaits(f, h, N, j, sizes) ==
  /\ f \in Buffers /\ h \in Queues /\ N \in Networks /\ j \in Nat \ {0}
  /\ LinesOk(f, h) /\ NoneReturns /\ Remains(f, h, N, j) /\ AllFit(sizes)
  /\ \A t \in Types : \A i \in N[t] : Frames[t][i] > Min(Way(f, h, N))

(* A unit received of a type holds all its NALUs of that GoF.               *)
LEMMA UnitWhole ==
  ASSUME NEW f, NEW h, NEW N, NEW j, NEW sizes, Awaits(f, h, N, j, sizes),
         NEW a, NEW t \in Types, NEW q \in Seq(FramesOf(t)),
         TypePart(a, NumTypes, t, q, f, h, sizes), q # <<>>
  PROVE  j \in DOMAIN Instants /\ Ids(q) = SentOf(t, j)
         /\ \A i \in DOMAIN q : q[i].ts = Instants[j]
<1> SUFFICES ASSUME f \in Buffers, h \in Queues, N \in Networks, j \in Nat \ {0},
                    LinesOk(f, h), NoneReturns, Remains(f, h, N, j), AllFit(sizes),
                    \A x \in Types : \A i \in N[x] : Frames[x][i] > Min(Way(f, h, N))
             PROVE  j \in DOMAIN Instants /\ Ids(q) = SentOf(t, j)
                    /\ \A i \in DOMAIN q : q[i].ts = Instants[j]
  BY DEF Awaits
<1> DEFINE l == f[t] \o h[t]  m == q[1].id  rest == a.buffer[t] \o a.socket[t]
<1>1. /\ Rising(q) /\ Below(Ids(q), Ids(rest)) /\ Ids(q) \cup Ids(rest) = Ids(l)
      /\ \A i \in DOMAIN q : q[i].ts = q[1].ts
      /\ TakesInstant(t, q, l)
  BY DEF TypePart, PartedAs, AllFit
<1> HIDE DEF l, rest
<1>2. 1 \in DOMAIN q /\ \A i \in DOMAIN q : q[i] \in FramesOf(t) /\ i \in Nat
  OBVIOUS
<1>3. \A i \in DOMAIN q : /\ q[i].id \in DOMAIN Frames[t] /\ q[i] = Frame(t, q[i].id)
                          /\ q[i].id \in Ids(l)
  <2>1. \A i \in DOMAIN q : q[i].id \in Ids(q)
    BY DEF Ids
  <2> QED BY <1>1, <1>2, <2>1, FrameIs
<1>4. \A i \in Ids(l) : i \in DOMAIN Frames[t] /\ Frames[t][i] >= j
  BY DEF Remains, Rest, l
<1>5. m \in DOMAIN Frames[t] /\ m \in Ids(l) /\ Frames[t][m] >= j
  BY <1>2, <1>3, <1>4
<1>6. j \in DOMAIN Instants /\ SentOf(t, j) # {}
  <2> DEFINE k == Frames[t][m]
  <2>1. k \in DOMAIN Instants /\ k \in Nat /\ k >= j /\ m \in SentOf(t, k)
    BY <1>5, Numbered DEF SentOf
  <2> HIDE DEF k, m
  <2>2. j \in DOMAIN Instants
    <3>1. j >= 1
      OBVIOUS
    <3> QED BY <2>1, <3>1, Numbered
  <2>3. j < k \/ j = k
    BY <2>1
  <2> QED BY <2>1, <2>2, <2>3 DEF NoneReturns
<1>7. SentOf(t, j) \subseteq Ids(l)
  BY <1>6, AllQueued DEF l
<1>8. \A i \in Ids(l) : m <= i
  <2> SUFFICES ASSUME NEW i \in Ids(l) PROVE m <= i
    OBVIOUS
  <2>1. m \in Nat /\ i \in Nat /\ m \in Ids(q)
    BY <1>2, <1>4, <1>5, Numbered DEF Ids
  <2>2. CASE i \in Ids(q)
    <3>1. PICK k \in DOMAIN q : q[k].id = i
      BY <2>2 DEF Ids
    <3>2. k = 1 \/ 1 < k
      OBVIOUS
    <3>3. 1 < k => q[1].id < q[k].id
      BY <1>1, <1>2 DEF Rising
    <3> QED BY <2>1, <3>1, <3>2, <3>3
  <2>3. CASE i \notin Ids(q)
    <3>1. m < i
      BY <1>1, <2>1, <2>3 DEF Below
    <3> QED BY <2>1, <3>1
  <2> QED BY <2>2, <2>3
<1>9. Frames[t][m] = j
  <2>1. PICK i \in SentOf(t, j) : TRUE
    BY <1>6
  <2>2. i \in Ids(l) /\ i \in DOMAIN Frames[t] /\ Frames[t][i] = j
    BY <1>7, <2>1 DEF SentOf
  <2>3. m <= i
    BY <1>8, <2>2
  <2> HIDE DEF m
  <2>4. Frames[t][m] <= Frames[t][i]
    BY <1>5, <2>2, <2>3, SentOrder
  <2> QED BY <1>5, <2>2, <2>4, Numbered
<1>10. \A i \in DOMAIN q : Frames[t][q[i].id] = j
  <2> SUFFICES ASSUME NEW i \in DOMAIN q PROVE Frames[t][q[i].id] = j
    OBVIOUS
  <2>1. Instants[Frames[t][q[i].id]] = Instants[Frames[t][q[1].id]]
    BY <1>1, <1>2, <1>3 DEF Frame
  <2>2. Frames[t][q[i].id] \in DOMAIN Instants /\ Frames[t][q[1].id] \in DOMAIN Instants
    BY <1>2, <1>3, Numbered
  <2> QED BY <1>9, <2>1, <2>2, InstantOnce
<1>11. Ids(q) \subseteq SentOf(t, j)
  BY <1>3, <1>10 DEF Ids, SentOf
<1>12. SentOf(t, j) \subseteq Ids(q)
  BY <1>1, <1>7, <1>9 DEF TakesInstant, SentOf
<1>13. \A i \in DOMAIN q : q[i].ts = Instants[j]
  BY <1>3, <1>10 DEF Frame
<1> QED BY <1>6, <1>11, <1>12, <1>13

(* What receive_gof makes of it: nothing, or the first GoF that remains.    *)
Got(a, f, h, N, j) ==
  \/ a.gof.units = <<>> /\ Remains(a.buffer, a.socket, N, j)
  \/ /\ a.gof.units # <<>> /\ j \in DOMAIN Instants /\ WholeAt(a.gof, j)
     /\ Remains(a.buffer, a.socket, N, j + 1)

(* It is one of the two, and no unit is refused.                            *)
LEMMA GofWhole ==
  ASSUME NEW f \in Buffers, NEW h \in Queues, NEW N \in Networks, LinesOk(f, h), NoneReturns,
         NEW j \in 1..Len(Instants) + 1, Remains(f, h, N, j),
         \A t \in Types : \A i \in N[t] : Frames[t][i] > Min(Way(f, h, N)),
         NEW sizes \in FewSizes, AllFit(sizes), NEW a \in Accs,
         GofParts(a, NumTypes, f, h, sizes), GofKeeps(a, NumTypes, f, h)
  PROVE  a.ok /\ Got(a, f, h, N, j)
<1> DEFINE g == a.gof  Line(t) == Ids(f[t] \o h[t])  Over(t) == Ids(a.buffer[t] \o a.socket[t])
           Part(t, q) == TypePart(a, NumTypes, t, q, f, h, sizes)
<1>1. j \in Nat \ {0} /\ Len(Instants) \in Nat
  BY Numbered
<1>2. \A t \in Types : \E q \in Seq(FramesOf(t)) : Part(t, q)
  BY DEF GofParts
<1>3. /\ a.socket \in Queues /\ a.buffer \in Buffers /\ g \in GoodGofs \cup {EmptyGof}
      /\ a.ok \in BOOLEAN
  BY DEF Accs
<1>4. ASSUME NEW t \in Types, NEW q \in Seq(FramesOf(t)), Part(t, q), q # <<>>
      PROVE  /\ j \in DOMAIN Instants /\ Ids(q) = SentOf(t, j)
             /\ \A i \in DOMAIN q : q[i].ts = Instants[j]
  <2>1. TypePart(a, NumTypes, t, q, f, h, sizes) /\ q # <<>>
    BY <1>4
  <2>2. Awaits(f, h, N, j, sizes)
    BY <1>1 DEF Awaits
  <2> HIDE DEF Part
  <2> QED BY <2>1, <2>2, UnitWhole
<1>5. ASSUME NEW t \in Types, NEW q \in Seq(FramesOf(t)), Part(t, q)
      PROVE  /\ Ids(q) \cup Over(t) = Line(t) /\ Ids(q) \cap Over(t) = {}
             /\ t \in DOMAIN g.units => g.units[t].nalus = q /\ q # <<>>
             /\ a.ok /\ f[t] \o h[t] # <<>> => t \in DOMAIN g.units
  <2>1. t < NumTypes /\ sizes[t] > 0
    <3>1. t \in 0..NumTypes - 1
      BY ReceiverAssumption
    <3> QED BY <3>1 DEF NumTypes, AllFit
  <2>2. Below(Ids(q), Over(t)) /\ Ids(q) \cup Over(t) = Line(t)
    BY <1>5 DEF TypePart, PartedAs
  <2>3. Ids(q) \subseteq Nat
    <3>1. \A i \in DOMAIN q : q[i].id \in Nat
      <4>1. \A i \in DOMAIN q : q[i] \in FramesOf(t)
        OBVIOUS
      <4> QED BY <4>1, FrameIs, Numbered
    <3> QED BY <3>1 DEF Ids
  <2>4. Ids(q) \cap Over(t) = {}
    <3> SUFFICES ASSUME NEW x \in Ids(q), x \in Over(t) PROVE FALSE
      OBVIOUS
    <3>1. x < x /\ x \in Nat
      BY <2>2, <2>3 DEF Below
    <3> QED BY <3>1
  <2>5. /\ t \in DOMAIN g.units => g.units[t].nalus = q /\ q # <<>>
        /\ a.ok /\ f[t] \o h[t] # <<>> => t \in DOMAIN g.units
    BY <1>5, <2>1 DEF TypePart
  <2> QED BY <2>2, <2>4, <2>5
<1>6. \A t \in Types : Line(t) = Queued(f, h, t) /\ Over(t) = Queued(a.buffer, a.socket, t)
  <2> SUFFICES ASSUME NEW t \in Types
               PROVE  Line(t) = Queued(f, h, t) /\ Over(t) = Queued(a.buffer, a.socket, t)
    OBVIOUS
  <2>1. Line(t) = Ids(f[t]) \cup Ids(h[t])
    BY QueueOf
  <2>2. Over(t) = Ids(a.buffer[t]) \cup Ids(a.socket[t])
    <3>1. a.buffer \in Buffers /\ a.socket \in Queues
      BY <1>3
    <3> QED BY <3>1, QueueIds, Zenon
  <2> QED BY <2>1, <2>2 DEF Queued
<1> HIDE DEF Part, Line, Over, g
<1>7. a.ok
  <2> SUFFICES ASSUME ~ a.ok PROVE FALSE
    OBVIOUS
  <2>1. SeveralLeft(f, h, a.buffer, a.socket)
    BY DEF GofKeeps
  <2>2. PICK x, y \in Types : \E n, m : /\ Left(f, h, a.buffer, a.socket, x, n)
                                        /\ Left(f, h, a.buffer, a.socket, y, m) /\ n.ts # m.ts
    BY <2>1 DEF SeveralLeft
  <2>3. PICK n, m : /\ Left(f, h, a.buffer, a.socket, x, n)
                    /\ Left(f, h, a.buffer, a.socket, y, m) /\ n.ts # m.ts
    BY <2>2
  <2>4. ASSUME NEW t \in Types, NEW k, Left(f, h, a.buffer, a.socket, t, k)
        PROVE  k.ts = Instants[j]
    <3>1. PICK q \in Seq(FramesOf(t)) : Part(t, q)
      BY <1>2
    <3>2. k \in FramesOf(t) /\ k.id \in Line(t) /\ k.id \notin Over(t)
      BY <1>6, <2>4 DEF Left
    <3>3. k.id \in Ids(q)
      BY <1>5, <3>1, <3>2
    <3>4. PICK i \in DOMAIN q : q[i].id = k.id
      BY <3>3 DEF Ids
    <3>5. q # <<>>
      BY <3>4
    <3>6. q[i] \in FramesOf(t)
      OBVIOUS
    <3>7. q[i] = k
      BY <3>2, <3>4, <3>6, FrameIs
    <3> QED BY <1>4, <3>1, <3>5, <3>7
  <2> QED BY <2>3, <2>4
<1>8. ASSUME NEW t \in Types, NEW q \in Seq(FramesOf(t)), Part(t, q)
      PROVE  /\ q # <<>> <=> t \in DOMAIN g.units
             /\ q = <<>> => Line(t) = {}
  <2>1. CASE f[t] \o h[t] = <<>>
    <3>1. Line(t) = {}
      BY <2>1 DEF Line, Ids
    <3>2. Ids(q) = {}
      BY <1>5, <1>8, <3>1
    <3>3. q = <<>>
      BY <3>2, NoIds
    <3> QED BY <1>5, <1>8, <3>1, <3>3
  <2>2. CASE f[t] \o h[t] # <<>>
    BY <1>5, <1>7, <1>8, <2>2
  <2> QED BY <2>1, <2>2
<1>9. DOMAIN g.units \subseteq Types /\ (g.units = <<>> <=> DOMAIN g.units = {})
  <2>1. DOMAIN g.units \subseteq Types
    BY <1>3, TypesOf
  <2>2. CASE g = EmptyGof
    BY <2>1, <2>2 DEF EmptyGof
  <2>3. CASE g \in GoodGofs
    BY <2>1, <2>3, GofFields DEF GoodGofs
  <2> QED BY <1>3, <2>1, <2>2, <2>3
<1>10. CASE g.units = <<>>
  <2>1. ASSUME NEW t \in Types PROVE Over(t) = Line(t)
    <3>1. PICK q \in Seq(FramesOf(t)) : Part(t, q)
      BY <1>2
    <3>2. q = <<>> /\ Line(t) = {}
      BY <1>8, <1>9, <1>10, <3>1
    <3> QED BY <1>5, <3>1, <3>2
  <2>2. Remains(a.buffer, a.socket, N, j)
    BY <2>1 DEF Remains, Over, Line
  <2> QED BY <1>7, <1>10, <2>2 DEF Got, g
<1>11. CASE g.units # <<>>
  <2>1. PICK y \in Types : y \in DOMAIN g.units
    BY <1>9, <1>11
  <2>2. j \in DOMAIN Instants
    <3>1. PICK q \in Seq(FramesOf(y)) : Part(y, q)
      BY <1>2
    <3> QED BY <1>4, <1>8, <2>1, <3>1
  <2>3. ASSUME NEW t \in Types
        PROVE  /\ t \in DOMAIN g.units <=> SentOf(t, j) # {}
               /\ UnitIds(g, t) = SentOf(t, j)
               /\ N[t] \cup Over(t) = Rest(t, j + 1)
    <3>1. PICK q \in Seq(FramesOf(t)) : Part(t, q)
      BY <1>2
    <3>2. SentOf(t, j) \subseteq Line(t) /\ SentOf(t, j) \cap N[t] = {}
      BY <2>2, AllQueued DEF Line
    <3>3. Ids(q) = SentOf(t, j)
      <4>1. CASE q # <<>>
        BY <1>4, <3>1, <4>1
      <4>2. CASE q = <<>>
        <5>1. Line(t) = {}
          BY <1>8, <3>1, <4>2
        <5>2. Ids(q) = {}
          BY <4>2, NoIds
        <5> QED BY <3>2, <5>1, <5>2
      <4> QED BY <4>1, <4>2
    <3>4. t \in DOMAIN g.units <=> SentOf(t, j) # {}
      BY <1>8, <3>1, <3>3, NoIds
    <3>5. UnitIds(g, t) = SentOf(t, j)
      BY <1>5, <3>1, <3>3, <3>4 DEF UnitIds
    <3>6. Rest(t, j) = SentOf(t, j) \cup Rest(t, j + 1) /\ SentOf(t, j) \cap Rest(t, j + 1) = {}
      <4>1. \A i \in DOMAIN Frames[t] : Frames[t][i] \in Nat
        BY Numbered
      <4> QED BY <1>1, <4>1 DEF Rest, SentOf
    <3>7. N[t] \cup Line(t) = Rest(t, j)
      BY DEF Remains, Line
    <3>8. N[t] \cup Over(t) = Rest(t, j + 1)
      BY <1>5, <3>1, <3>2, <3>3, <3>6, <3>7
    <3> QED BY <3>4, <3>5, <3>8
  <2>4. g.ts = Instants[j]
    <3>1. \A t \in Types : sizes[t] > 0
      BY DEF AllFit
    <3>2. \E k \in Way(f, h, N) : a.gof.ts = Instants[k] /\ \A i \in Way(f, h, N) : k <= i
      BY <1>7, <1>11, <3>1, OldestReceived DEF g
    <3>3. PICK k \in Way(f, h, N) : a.gof.ts = Instants[k] /\ \A i \in Way(f, h, N) : k <= i
      BY <3>2
    <3> DEFINE U == Way(f, h, N)
    <3>4. U \in SUBSET Nat
      BY WayIs
    <3>5. Min(U) = j
      BY <2>2, OldestIs
    <3> HIDE DEF U
    <3>6. k \in U /\ \A i \in U : k <= i
      BY <3>3 DEF U
    <3>7. Min(U) \in U /\ \A i \in U : Min(U) <= i
      BY <3>4, <3>6, LeastExists
    <3>8. k = j
      <4>1. k <= j /\ j <= k /\ k \in Nat /\ j \in Nat
        BY <3>4, <3>5, <3>6, <3>7
      <4> QED BY <4>1
    <3> QED BY <3>3, <3>8 DEF g
  <2>5. Remains(a.buffer, a.socket, N, j + 1)
    BY <2>3 DEF Remains, Over
  <2>6. WholeAt(a.gof, j)
    BY <2>3, <2>4 DEF WholeAt, g
  <2> QED BY <1>7, <1>11, <2>2, <2>5, <2>6 DEF Got, g
<1> QED BY <1>10, <1>11

(* push_buffer_to_sample_stream, when the stream has no GoF of the instant  *)
(* of a buffered NALU: all are refused and put back.                        *)
Foreign(s, p) == \A i \in DOMAIN p, k \in 1..Len(s) : TsOf(s[k].ts) # p[i].ts

(* One NALU.                                                                *)
LEMMA NaluRefused ==
  ASSUME NEW s \in Streams, NEW t \in Types, NEW n \in FramesOf(t),
         \A k \in 1..Len(s) : TsOf(s[k].ts) # n.ts
  PROVE  PushNalu(s, t, n) = [stream |-> s, outcome |-> "refused"]
<1>1. Len(s) \in Nat
  BY DEF Streams
<1>2. FindTimestamp(s, n.ts) \in 1..(Len(s) + 1)
      /\ (FindTimestamp(s, n.ts) <= Len(s) => TsOf(s[FindTimestamp(s, n.ts)].ts) = n.ts)
  BY <1>1, FoundGof
<1> DEFINE k == FindTimestamp(s, n.ts)
<1>3. k > Len(s)
  <2> HIDE DEF k
  <2>1. k \in 1..(Len(s) + 1) /\ (k <= Len(s) => TsOf(s[k].ts) = n.ts)
    BY <1>2 DEF k
  <2> QED BY <1>1, <2>1
<1> QED BY <1>3 DEF PushNalu

(* The buffer of a type.                                                    *)
LEMMA OffersRefused ==
  ASSUME NEW s \in Streams, NEW t \in Types, NEW q \in Seq(FramesOf(t)), t # VPS \/ q = <<>>,
         Foreign(s, q)
  PROVE  LET o == OfferAll(s, t, q)
         IN o.stream = s /\ o.outcome = "filed" /\ Drop(q, o.popped) \o o.kept = q
<1> DEFINE m == Len(q)
           Ok(a, k) == /\ a.stream = s /\ a.outcome = "filed" /\ a.popped = k
                       /\ Len(a.kept) = k /\ \A i \in 1..k : a.kept[i] = q[i]
           S == [k \in 0..m |-> {a \in Offers(t) : Ok(a, k)}]
<1>1. PICK f : OfferLoop(f, s, t, q)
  BY OfferLoops
<1>2. /\ f \in [0..m -> Offers(t)] /\ f[0] = StartOffer(s)
      /\ \A k \in 1..m : f[k] = Offer(f[k - 1], t, q[k])
      /\ OfferAll(s, t, q) = f[m] /\ m \in Nat /\ m \in 0..m /\ 0 \in 0..m
  BY <1>1 DEF OfferLoop
<1>3. \A k \in 0..m : \A a : a \in S[k] <=> a \in Offers(t) /\ Ok(a, k)
  OBVIOUS
<1> HIDE DEF S
<1>4. f[0] \in S[0]
  <2>1. Ok(f[0], 0)
    BY <1>2 DEF StartOffer
  <2> HIDE DEF Ok
  <2> QED BY <1>2, <1>3, <2>1
<1>5. ASSUME NEW k \in 1..m, f[k - 1] \in S[k - 1] PROVE f[k] \in S[k]
  <2> DEFINE a == f[k - 1]  n == q[k]  b == f[k]
  <2>1. k - 1 \in 0..m /\ k \in 0..m /\ k - 1 \in Nat /\ (k - 1) + 1 = k /\ k \in DOMAIN q
    BY <1>2
  <2>2. a \in Offers(t) /\ Ok(a, k - 1)
    <3> HIDE DEF Ok
    <3> QED BY <1>3, <1>5, <2>1
  <2>3. n \in FramesOf(t) /\ \A i \in 1..Len(s) : TsOf(s[i].ts) # n.ts
    BY <2>1 DEF Foreign
  <2>4. PushNalu(a.stream, t, n) = [stream |-> s, outcome |-> "refused"]
    BY <2>2, <2>3, NaluRefused
  <2>5. b = Offer(a, t, n)
    BY <1>2
  <2> HIDE DEF a, n, b
  <2>6. b = [stream |-> s, outcome |-> "filed", popped |-> a.popped + 1,
             kept |-> Append(a.kept, n)]
    BY <2>2, <2>4, <2>5 DEF Offer, Offered, AfterNalu
  <2>7. a.kept \in Seq(FramesOf(t)) /\ t # VPS
    BY <2>1, <2>2 DEF Offers
  <2>8. b \in Offers(t)
    BY <1>2, <2>1 DEF b
  <2>9. Len(b.kept) = k /\ \A i \in 1..k : b.kept[i] = q[i]
    <3> DEFINE c == a.kept  d == Append(c, n)
    <3>1. c \in Seq(FramesOf(t)) /\ Len(c) = k - 1 /\ \A i \in 1..(k - 1) : c[i] = q[i]
      BY <2>2, <2>7
    <3> HIDE DEF c
    <3>2. Len(d) = (k - 1) + 1 /\ d[(k - 1) + 1] = n /\ \A i \in 1..(k - 1) : d[i] = c[i]
      BY <2>3, <3>1 DEF n
    <3>3. b.kept = d
      BY <2>6 DEF c
    <3> HIDE DEF d
    <3>4. \A i \in 1..k : i = k \/ i \in 1..(k - 1)
      BY <2>1
    <3> QED BY <2>1, <3>1, <3>2, <3>3, <3>4 DEF n
  <2>10. b.stream = s /\ b.outcome = "filed" /\ b.popped = k
    <3>1. b.stream = s /\ b.outcome = "filed" /\ b.popped = a.popped + 1 /\ a.popped = k - 1
      BY <2>2, <2>6
    <3> QED BY <2>1, <3>1
  <2>11. Ok(b, k)
    BY <2>9, <2>10
  <2> HIDE DEF Ok
  <2> QED BY <1>3, <2>1, <2>8, <2>11 DEF b
<1>6. f[m] \in S[m]
  <2>1. \A k \in 1..m : f[k - 1] \in S[k - 1] => f[k] \in S[k]
    BY <1>5
  <2> QED BY <1>2, <1>4, <2>1, Rounds
<1> DEFINE o == OfferAll(s, t, q)
<1>7. o \in Offers(t) /\ o.stream = s /\ o.outcome = "filed" /\ o.popped = m
      /\ Len(o.kept) = m /\ \A i \in 1..m : o.kept[i] = q[i]
  BY <1>2, <1>3, <1>6
<1> HIDE DEF o
<1>8. o.kept \in Seq(FramesOf(t))
  BY <1>7 DEF Offers
<1>9. o.kept = q
  <2> DEFINE c == o.kept
  <2>1. c \in Seq(FramesOf(t)) /\ Len(c) = Len(q) /\ \A i \in 1..Len(q) : c[i] = q[i]
    BY <1>7, <1>8
  <2> HIDE DEF c
  <2>2. c = q
    BY <2>1, SeqEqual
  <2> QED BY <2>2 DEF c
<1>10. Drop(q, m) = <<>>
  BY <1>2 DEF Drop
<1>11. <<>> \o q = q
  OBVIOUS
<1> QED BY <1>7, <1>9, <1>10, <1>11 DEF o

(* The buffers of all types.                                                *)
LEMMA BuffersRefused ==
  ASSUME NEW s \in Streams, NEW buf \in Buffers, \A t \in Types : Foreign(s, buf[t])
  PROVE  LET b == PushBuffers(s, buf, Types) IN b.stream = s /\ b.buffer = buf
<1>1. PICK f : PushLoop(f, s, buf, Types)
  BY PushLoops
<1> DEFINE z == [stream |-> s, buffer |-> buf, outcome |-> "filed"]
<1>2. /\ f[0] = z
      /\ \A k \in 1..NumTypes : f[k] = PushTo(f[k - 1], k - 1, Types)
      /\ PushBuffers(s, buf, Types) = f[NumTypes]
      /\ NumTypes \in Nat /\ NumTypes \in 0..NumTypes
  BY <1>1 DEF PushLoop, NumTypes
<1>3. ASSUME NEW t \in Types PROVE PushBuffer(z, t) = z
  <2> DEFINE q == buf[t]  o == OfferAll(s, t, q)
  <2>1. q \in Seq(FramesOf(t)) /\ (t = VPS => q = <<>>)
    BY DEF Buffers, Queues
  <2> HIDE DEF q
  <2>2. o.stream = s /\ o.outcome = "filed" /\ Drop(q, o.popped) \o o.kept = q
    BY <2>1, OffersRefused DEF q
  <2>3. PushBuffer(z, t) = AfterOffer(z, t, o)
    BY DEF PushBuffer, q
  <2> HIDE DEF o
  <2>4. AfterOffer(z, t, o)
          = [stream |-> s, outcome |-> "filed",
             buffer |-> [buf EXCEPT ![t] = Drop(@, o.popped) \o o.kept]]
    BY <2>2 DEF AfterOffer
  <2>5. [buf EXCEPT ![t] = Drop(@, o.popped) \o o.kept] = buf
    <3>1. buf \in [Types -> Seq(Nalus)]
      BY DEF Buffers, Queues
    <3> QED BY <2>2, <3>1 DEF q
  <2> QED BY <2>3, <2>4, <2>5
<1> HIDE DEF z
<1>4. \A k \in 1..NumTypes : f[k - 1] \in {z} => f[k] \in {z}
  BY <1>2, <1>3 DEF PushTo
<1>5. f[NumTypes] \in {z}
  BY <1>2, <1>4, Stays
<1>6. PushBuffers(s, buf, Types) = z
  BY <1>2, <1>5
<1> QED BY <1>6 DEF z

(* The GoF is filed after those before it.                                  *)
LEMMA PushWhole ==
  ASSUME NEW s \in Streams, NEW j \in DOMAIN Instants, Whole(s, j), NEW g \in GoodGofs,
         WholeAt(g, j)
  PROVE  LET r == PushGof(s, g).stream IN r \in Streams /\ Whole(r, j + 1)
<1> DEFINE r == PushGof(s, g).stream  n == Len(s)
<1>1. g.ts = Instants[j] /\ IsSet(g.ts)
  BY Ages, Clock DEF WholeAt, IsSet
<1>2. /\ r \in Streams /\ Len(r) = n + 1 /\ \A k \in 1..n : r[k] = s[k]
      /\ r[n + 1].ts = g.ts /\ r[n + 1].units = g.units
  BY <1>1, PushGofGood
<1>3. n \in Nat /\ j \in 1..Len(Instants) /\ Len(Instants) \in Nat /\ n < j
  BY Numbered DEF Streams, Whole
<1> HIDE DEF r
<1>4. ASSUME NEW k \in 1..n + 1 PROVE WholeAt(r[k], (j + 1) - (n + 1) + k - 1)
  <2>1. CASE k \in 1..n
    <3>1. WholeAt(s[k], j - n + k - 1)
      BY <2>1 DEF Whole
    <3>2. (j + 1) - (n + 1) + k - 1 = j - n + k - 1
      BY <1>3
    <3> QED BY <1>2, <2>1, <3>1, <3>2
  <2>2. CASE k = n + 1
    <3>1. (j + 1) - (n + 1) + k - 1 = j
      BY <1>3, <2>2
    <3>2. WholeAt(r[k], j)
      BY <1>2, <2>2 DEF WholeAt, UnitIds
    <3> QED BY <3>1, <3>2
  <2> QED BY <1>3, <2>1, <2>2
<1>5. j + 1 \in 1..Len(Instants) + 1 /\ Len(r) < j + 1
  BY <1>2, <1>3
<1>6. Whole(r, j + 1)
  BY <1>2, <1>4, <1>5 DEF Whole
<1> QED BY <1>2, <1>6 DEF r

(* What remains is of none of the GoFs filed.                               *)
LEMMA RestForeign ==
  ASSUME NEW s \in Streams, NEW j, Whole(s, j), NEW f \in Buffers, NEW h \in Queues, NEW N,
         Remains(f, h, N, j), NEW t \in Types
  PROVE  Foreign(s, f[t])
<1> SUFFICES ASSUME NEW i \in DOMAIN f[t], NEW k \in 1..Len(s) PROVE TsOf(s[k].ts) # f[t][i].ts
  BY DEF Foreign
<1> DEFINE x == f[t][i].id  l == j - Len(s) + k - 1
<1>1. f[t] \in Seq(FramesOf(t)) /\ Ids(f[t]) \subseteq Ids(f[t] \o h[t])
  BY QueueOf
<1>2. f[t][i] \in FramesOf(t) /\ x \in Ids(f[t])
  BY <1>1 DEF Ids
<1>3. x \in Rest(t, j) /\ f[t][i] = Frame(t, x)
  <2>1. x \in Rest(t, j)
    BY <1>1, <1>2 DEF Remains
  <2> QED BY <1>2, <2>1, FrameIs
<1> HIDE DEF x
<1>4. x \in DOMAIN Frames[t] /\ Frames[t][x] >= j /\ Frames[t][x] \in DOMAIN Instants
      /\ Frames[t][x] \in Nat
  BY <1>3, Numbered DEF Rest
<1>5. j \in 1..Len(Instants) + 1 /\ Len(s) < j /\ Len(s) \in Nat /\ Len(Instants) \in Nat
      /\ WholeAt(s[k], l)
  BY Numbered DEF Whole, Streams
<1>6. l \in 1..Len(Instants) /\ l < j
  BY <1>5
<1> HIDE DEF l
<1>7. l \in DOMAIN Instants /\ s[k].ts = Instants[l]
  BY <1>5, <1>6, Numbered DEF WholeAt
<1>8. TsOf(s[k].ts) = Instants[l]
  BY <1>7, Ages, Clock DEF TsOf, IsSet
<1>9. f[t][i].ts = Instants[Frames[t][x]]
  BY <1>3 DEF Frame
<1>10. l # Frames[t][x]
  BY <1>4, <1>5, <1>6
<1> QED BY <1>4, <1>7, <1>8, <1>9, <1>10, InstantOnce

(* The stream ends where what is under way begins.                          *)
Meets(s, f, h, N) == \E j \in 1..Len(Instants) + 1 : Remains(f, h, N, j) /\ Whole(s, j)

(* An empty stream ends anywhere.                                           *)
LEMMA EmptyMeets ==
  ASSUME NEW s \in Streams, NEW f, NEW h, NEW N, Meets(s, f, h, N)
  PROVE  Meets(<<>>, f, h, N)
<1>1. PICK j \in 1..Len(Instants) + 1 : Remains(f, h, N, j) /\ Whole(s, j)
  BY DEF Meets
<1>2. Len(<<>>) = 0 /\ 1..0 = {} /\ 0 < j
  BY <1>1, Numbered
<1>3. Whole(<<>>, j)
  BY <1>1, <1>2 DEF Whole
<1> QED BY <1>1, <1>3 DEF Meets

(* The GoF received, if any, is the one that continues the stream.          *)
LEMMA FiledWhole ==
  ASSUME NEW s \in Streams, NEW f \in Buffers, NEW h \in Queues, NEW N \in Networks,
         LinesOk(f, h), NoneReturns, Meets(s, f, h, N),
         \A t \in Types : \A i \in N[t] : Frames[t][i] > Min(Way(f, h, N)),
         NEW sizes \in FewSizes, AllFit(sizes), NEW a \in Accs,
         GofParts(a, NumTypes, f, h, sizes), GofKeeps(a, NumTypes, f, h)
  PROVE  LET r == FileGof(s, a) IN Meets(r.stream, r.buffer, r.socket, N)
<1> DEFINE r == FileGof(s, a)
<1>1. PICK j \in 1..Len(Instants) + 1 : Remains(f, h, N, j) /\ Whole(s, j)
  BY DEF Meets
<1>2. a.ok /\ Got(a, f, h, N, j)
  BY <1>1, GofWhole
<1>3. a.buffer \in Buffers /\ a.socket \in Queues
  BY DEF Accs
<1>4. CASE a.gof.units = <<>>
  <2>1. r.stream = s /\ r.buffer = a.buffer /\ r.socket = a.socket
    BY <1>4 DEF FileGof
  <2> HIDE DEF r
  <2>2. Remains(r.buffer, r.socket, N, j)
    BY <1>2, <1>4, <2>1 DEF Got
  <2> QED BY <1>1, <2>1, <2>2 DEF Meets, r
<1>5. CASE a.gof.units # <<>>
  <2> DEFINE g == a.gof  p == PushGof(s, g)
  <2>1. j \in DOMAIN Instants /\ WholeAt(g, j) /\ Remains(a.buffer, a.socket, N, j + 1)
    BY <1>2, <1>5 DEF Got
  <2>2. g \in GoodGofs
    BY <1>5 DEF Accs, EmptyGof
  <2>3. r = AfterPush(p, a.socket, a.buffer, Types)
    BY <1>2, <1>5 DEF FileGof
  <2> HIDE DEF g
  <2>4. p.stream \in Streams /\ Whole(p.stream, j + 1)
    BY <1>1, <2>1, <2>2, PushWhole
  <2> HIDE DEF p, r
  <2>5. r.stream = p.stream /\ r.buffer = a.buffer /\ r.socket = a.socket
    <3>1. CASE p.ok
      <4> DEFINE b == PushBuffers(p.stream, a.buffer, Types)
      <4>1. r.stream = b.stream /\ r.buffer = b.buffer /\ r.socket = a.socket
        BY <2>3, <3>1 DEF AfterPush, AfterBuffers
      <4>2. \A t \in Types : Foreign(p.stream, a.buffer[t])
        BY <1>3, <2>1, <2>4, RestForeign
      <4>3. b.stream = p.stream /\ b.buffer = a.buffer
        BY <1>3, <2>4, <4>2, BuffersRefused
      <4> HIDE DEF b
      <4> QED BY <4>1, <4>3
    <3>2. CASE ~ p.ok
      BY <2>3, <3>2 DEF AfterPush
    <3> QED BY <3>1, <3>2
  <2>6. j + 1 \in 1..Len(Instants) + 1
    BY <2>4 DEF Whole
  <2>7. Meets(r.stream, r.buffer, r.socket, N)
    BY <2>1, <2>4, <2>5, <2>6 DEF Meets
  <2> QED BY <2>7 DEF r
<1> QED BY <1>4, <1>5

(* The call, of the handle as it stands.                                    *)
LEMMA CallWhole ==
  ASSUME Inv, NEW s \in Streams, NEW sizes \in FewSizes, LinesOk(buffer, socket), NoneReturns,
         Meets(s, buffer, socket, network), \A t \in Types : Fits(t, sizes[t]), Regular(sizes)
  PROVE  LET r == FileGof(s, ReceivedGof(sizes))
         IN Meets(r.stream, r.buffer, r.socket, network)
<1>1. socket \in Queues /\ buffer \in Buffers /\ network \in Networks /\ sizes \in Sizes
  BY CallData DEF Inv, QueuesOk, NetworkOk, Networks, FewSizes
<1> DEFINE a == ReceivedGof(sizes)
<1>2. GofParts(a, NumTypes, buffer, socket, sizes)
  BY <1>1, GofPartsAll
<1>3. a \in Accs
  BY <1>1, GofGood DEF GofState
<1>4. ASSUME NEW x \in Types PROVE NoneTwice(buffer[x] \o socket[x])
  <2> DEFINE l == buffer[x] \o socket[x]
  <2>1. buffer[x] \in Seq(Nalus) /\ socket[x] \in Seq(Nalus)
    BY <1>1 DEF Buffers, Queues
  <2>2. l \in Seq(Nalus) /\ Rising(l)
    BY <2>1 DEF LinesOk
  <2> HIDE DEF l
  <2> QED BY <2>2, RisingOnce DEF l
<1>5. GofKeeps(a, NumTypes, buffer, socket)
  BY <1>1, <1>4, GofKept
<1> HIDE DEF a
<1>6. /\ \A t \in Types : sizes[t] > 0
      /\ \A t \in Types : \A i \in network[t] : Frames[t][i] > Min(Way(buffer, socket, network))
  BY WayHere DEF Regular
<1>7. AllFit(sizes)
  BY <1>6 DEF AllFit
<1>8. LET r == FileGof(s, a) IN Meets(r.stream, r.buffer, r.socket, network)
  BY <1>1, <1>2, <1>3, <1>5, <1>6, <1>7, FiledWhole
<1> QED BY <1>8 DEF a

(* Nothing arrives that was not under way, and all that does not arrive     *)
(* stays under way.                                                         *)
LEMMA ArrivedMeets ==
  ASSUME QueuesOk, NEW s, Meets(s, buffer, socket, network), NEW t \in Types, Arrive(t)
  PROVE  Meets(s, buffer, socket', network')
<1> DEFINE N == network[t]  i == Min(N)  n == Frame(t, i)  w == socket[t]  p == buffer[t]
<1>1. /\ N # {} /\ network' = [network EXCEPT ![t] = @ \ {Min(@)}]
      /\ socket' = [socket EXCEPT ![t] = Append(@, n)]
  BY DEF Arrive
<1>2. buffer \in Buffers /\ socket \in Queues /\ network \in [Types -> SUBSET Nat]
      /\ \A x \in Types : network[x] \subseteq DOMAIN Frames[x]
  BY DEF QueuesOk, NetworkOk
<1>3. i \in N /\ i \in DOMAIN Frames[t]
  BY <1>1, <1>2, LeastExists
<1>4. /\ network'[t] = N \ {i} /\ socket'[t] = Append(w, n)
      /\ \A x \in Types : x # t => socket'[x] = socket[x] /\ network'[x] = network[x]
  BY <1>1, <1>2 DEF Queues
<1>5. n \in FramesOf(t) /\ n.id = i /\ w \in Seq(FramesOf(t)) /\ p \in Seq(FramesOf(t))
  BY <1>2, <1>3, QueueOf DEF FramesOf, Frame
<1> HIDE DEF i, n, w, p, N
<1>6. Ids(p \o Append(w, n)) = Ids(p \o w) \cup {i}
  <2> DEFINE e == <<n>>  l == p \o w
  <2>1. /\ e \in Seq(FramesOf(t)) /\ DOMAIN e = {1} /\ e[1] = n /\ l \in Seq(FramesOf(t))
        /\ p \o Append(w, n) = l \o e
    BY <1>5
  <2>2. Ids(e) = {i}
    <3> HIDE DEF e
    <3> QED BY <1>5, <2>1 DEF Ids
  <2> HIDE DEF e, l
  <2>3. Ids(l \o e) = Ids(l) \cup {i}
    BY <2>1, <2>2, Joined
  <2> QED BY <2>1, <2>3 DEF l
<1>7. ASSUME NEW x \in Types
      PROVE  network'[x] \cup Ids(buffer[x] \o socket'[x])
               = network[x] \cup Ids(buffer[x] \o socket[x])
  <2>1. CASE x = t
    BY <1>3, <1>4, <1>6, <2>1 DEF N, w, p
  <2>2. CASE x # t
    BY <1>4, <2>2
  <2> QED BY <2>1, <2>2
<1>8. \A j : Remains(buffer, socket, network, j) => Remains(buffer, socket', network', j)
  BY <1>7 DEF Remains
<1> QED BY <1>8 DEF Meets

(* As long as nothing was lost or overtaken and every GoF was asked for     *)
(* after it had arrived.                                                    *)
AllWell ==
  /\ FewAsked /\ AllAsked /\ NoneReturns
  /\ Faults = 0 /\ regular /\ mode # "unit"
WholeInv ==
  AllWell => /\ Meets(Data, buffer, socket, network)
             /\ running # NoCall => \A t \in Types : Fits(t, running.sizes[t])

(* At first all GoFs are under way.                                         *)
LEMMA InitWhole == ASSUME Init PROVE WholeInv
<1>1. /\ network = [t \in Types |-> DOMAIN Frames[t]] /\ running = NoCall
      /\ socket = [t \in Types |-> <<>>] /\ buffer = [t \in Types |-> <<>>]
  BY DEF Init
<1>2. Data = <<>>
  BY DEF Init, Data, InitStream
<1>3. ASSUME NEW t \in Types PROVE network[t] \cup Ids(buffer[t] \o socket[t]) = Rest(t, 1)
  <2>1. buffer[t] \o socket[t] = <<>>
    BY <1>1
  <2>2. Ids(<<>>) = {}
    BY DEF Ids
  <2>3. \A i \in DOMAIN Frames[t] : Frames[t][i] >= 1
    BY Numbered
  <2>4. Rest(t, 1) = DOMAIN Frames[t]
    BY <2>3 DEF Rest
  <2> QED BY <1>1, <2>1, <2>2, <2>4
<1>4. 1 \in 1..Len(Instants) + 1
  BY Numbered
<1>5. Whole(<<>>, 1)
  <2>1. Len(<<>>) = 0 /\ 1..0 = {}
    OBVIOUS
  <2> QED BY <1>4, <2>1 DEF Whole
<1>6. Meets(Data, buffer, socket, network)
  BY <1>2, <1>3, <1>4, <1>5 DEF Meets, Remains
<1> QED BY <1>1, <1>6 DEF WholeInv

(* Counting the VPSs down leaves the sizes of the others.                   *)
LEMMA FitCounted ==
  ASSUME NEW sizes \in FewSizes, NEW g, \A t \in Types : Fits(t, sizes[t])
  PROVE  \A t \in Types : Fits(t, CountVPS(sizes, g)[t])
<1> DEFINE c == CountVPS(sizes, g)
<1>1. \A t \in Types \ {VPS} : c[t] = sizes[t]
  BY DEF CountVPS, FewSizes, Sizes
<1> HIDE DEF c
<1>2. \A t \in Types : t = VPS \/ c[t] = sizes[t]
  BY <1>1
<1>3. ASSUME NEW t \in Types PROVE Fits(t, c[t])
  <2>1. CASE t = VPS
    <3>1. Fits(t, sizes[t])
      OBVIOUS
    <3> QED BY <2>1, <3>1 DEF Fits
  <2>2. CASE t # VPS
    BY <1>2, <2>2
  <2> QED BY <2>1, <2>2
<1> QED BY <1>3 DEF c

(* Every step keeps the two together.                                       *)
LEMMA StepWhole == ASSUME Inv, OrderInv, WholeInv, [Next]_vars PROVE WholeInv'
<1>1. /\ QueuesOk /\ NoData \notin Streams /\ <<>> \in Streams
      /\ FaultsOk /\ InOrder /\ Data \in Streams
  BY Nothing, DataStream DEF Inv, OrderInv
<1> SUFFICES ASSUME AllWell'
             PROVE  /\ Meets(Data', buffer', socket', network')
                    /\ running' # NoCall => \A t \in Types : Fits(t, running'.sizes[t])
  BY DEF WholeInv, Meets, Remains, Whole, WholeAt, UnitIds, Ids, Rest, Fits, SentOf
<1>2. FewAsked /\ AllAsked /\ NoneReturns /\ Faults' = 0 /\ regular' /\ mode' # "unit"
  BY DEF AllWell, FewAsked, AllAsked, NoneReturns, Fits, SentOf
<1>3. ASSUME NEW t \in Types, Overtake(t) \/ Lose(t) PROVE FALSE
  <2>1. faults' \in {[faults EXCEPT !.overtaken = @ + 1], [faults EXCEPT !.lost = @ + 1]}
    BY <1>3 DEF Overtake, Lose
  <2>2. faults.lost \in Nat /\ faults.overtaken \in Nat /\ faults'.lost + faults'.overtaken = 0
    BY <1>1, <1>2 DEF FaultsOk, Faults
  <2>3. faults'.lost + faults'.overtaken = faults.lost + faults.overtaken + 1
    BY <1>1, <2>1 DEF FaultsOk
  <2> QED BY <2>2, <2>3
<1>4. mode' = mode /\ regular /\ faults' = faults
  BY <1>2, <1>3 DEF Next, vars, Arrive, ReceiveGof, ReceiveUnit, BeginBitstream, Begin,
     BitstreamStep, BitstreamGof, BitstreamDone, Running, ClearSampleStream
<1>5. faults.overtaken = 0 /\ Faults = 0
  <2>1. Faults = 0
    BY <1>2, <1>4 DEF Faults
  <2> QED BY <1>1, <2>1 DEF Faults, FaultsOk
<1>6. /\ Meets(Data, buffer, socket, network)
      /\ running # NoCall => \A t \in Types : Fits(t, running.sizes[t])
  BY <1>2, <1>4, <1>5 DEF WholeInv, AllWell
<1>7. /\ AllOrdered(Data, buffer, socket, network)
      /\ running # NoCall => running.sizes \in FewSizes
  BY <1>1, <1>2, <1>4, <1>5 DEF InOrder
<1>8. LinesOk(buffer, socket)
  BY <1>7 DEF AllOrdered, Ordered, Lined, LinesOk
<1>9. ASSUME UNCHANGED <<network, socket, buffer, running>>, Data' = Data
      PROVE  /\ Meets(Data', buffer', socket', network')
             /\ running' # NoCall => \A t \in Types : Fits(t, running'.sizes[t])
  BY <1>6, <1>9
<1>10. ASSUME UNCHANGED <<network, socket, buffer>>, Data' = <<>>
       PROVE  Meets(Data', buffer', socket', network')
  BY <1>1, <1>6, <1>10, EmptyMeets
<1>11. CASE \E t \in Types : Arrive(t)
  <2>1. PICK t \in Types : Arrive(t)
    BY <1>11
  <2>2. Data' = Data /\ buffer' = buffer /\ running' = running
    BY <2>1 DEF Arrive, Data
  <2>3. Meets(Data, buffer, socket', network')
    BY <1>1, <1>6, <2>1, ArrivedMeets
  <2> QED BY <1>6, <2>2, <2>3
<1>12. CASE \E sizes \in UnitSizes : ReceiveGof(sizes)
  <2>1. PICK sizes \in UnitSizes : ReceiveGof(sizes)
    BY <1>12
  <2>2. mode = "gof" /\ running = NoCall /\ network' = network /\ Regular(sizes)
    BY <1>2, <2>1 DEF ReceiveGof, Begin
  <2>3. PICK r \in {FileGof(stream, ReceivedGof(sizes))} :
             Install(r) /\ Done("gof", Verdict(r, Types))
    BY <2>1 DEF ReceiveGof
  <2>4. stream \in Streams /\ FiledOk(r, stream, buffer, socket)
    BY <2>2, <2>3, CallData, GofFiled, GivenSizes
  <2>5. /\ stream' = r.stream /\ socket' = r.socket /\ buffer' = r.buffer /\ running' = NoCall
    BY <2>3 DEF Install, Done
  <2>6. Data = stream /\ Data' = r.stream
    BY <1>1, <2>2, <2>4, <2>5 DEF Data, FiledOk
  <2>7. sizes \in FewSizes /\ \A t \in Types : Fits(t, sizes[t])
    BY <1>2, FewGiven DEF AllAsked
  <2>8. Meets(r.stream, r.buffer, r.socket, network)
    BY <1>2, <1>6, <1>8, <2>2, <2>3, <2>4, <2>6, <2>7, CallWhole
  <2> QED BY <2>2, <2>5, <2>6, <2>8
<1>13. CASE \E sizes \in UnitSizes, n \in GofCounts : BeginBitstream(n, sizes)
  <2>1. PICK sizes \in UnitSizes, n \in GofCounts : BeginBitstream(n, sizes)
    BY <1>13
  <2>2. /\ running' = [stream |-> <<>>, left |-> n, sizes |-> sizes]
        /\ UNCHANGED <<network, socket, buffer>>
    BY <2>1 DEF BeginBitstream, Begin
  <2>3. n \in Nat /\ sizes \in Sizes
    BY ReceiverAssumption, GivenSizes
  <2>4. running' \in Calls
    BY <1>1, <2>2, <2>3 DEF Calls
  <2>5. running' # NoCall /\ running'.stream = <<>> /\ running'.sizes = sizes
    BY <2>2, <2>4, Nothing
  <2>6. Data' = <<>>
    BY <2>5 DEF Data
  <2>7. \A t \in Types : Fits(t, sizes[t])
    BY <1>2 DEF AllAsked
  <2> QED BY <1>10, <2>2, <2>5, <2>6, <2>7
<1>14. CASE BitstreamStep
  <2>1. running # NoCall /\ network' = network
    BY <1>14 DEF BitstreamStep, BitstreamGof, BitstreamDone, Running
  <2>2. /\ running.stream \in Streams /\ running.left \in Nat /\ running.sizes \in FewSizes
        /\ stream = NoData /\ Data = running.stream /\ running.sizes \in Sizes
    BY <1>7, <2>1, CallData DEF Data
  <2>3. ASSUME NEW buf, HandOver(running.stream, buf)
        PROVE  Data' = running.stream /\ running' = NoCall
    <3>1. stream' = running.stream /\ running' = NoCall
      BY <2>3 DEF HandOver, Done
    <3> QED BY <1>1, <2>2, <3>1 DEF Data
  <2>4. CASE BitstreamDone
    <3>1. HandOver(running.stream, buffer) /\ socket' = socket /\ buffer' = buffer
      BY <2>4 DEF BitstreamDone
    <3>2. Data' = Data /\ running' = NoCall
      BY <2>2, <2>3, <3>1
    <3> QED BY <1>6, <2>1, <3>1, <3>2
  <2>5. CASE BitstreamGof
    <3>1. PICK r \in {FileGof(running.stream, ReceivedGof(running.sizes))} :
               /\ socket' = r.socket /\ buffer' = r.buffer
               /\ \/ r.outcome = "timeout" /\ HandOver(running.stream, r.buffer)
                  \/ /\ r.outcome \in {"mixed", "gap", "thrown"}
                     /\ Done("bitstream", Verdict(r, Types)) /\ UNCHANGED stream
                  \/ /\ r.outcome = "filed"
                     /\ running' = [stream |-> r.stream, left |-> running.left - 1,
                                    sizes |-> CountVPS(running.sizes, Last(r.stream))]
                     /\ UNCHANGED <<stream, last, clean>>
      BY <2>5 DEF BitstreamGof
    <3>2. FiledOk(r, running.stream, buffer, socket) /\ Regular(running.sizes)
      BY <1>2, <2>2, <2>5, <3>1, GofFiled DEF BitstreamGof
    <3>3. r.stream \in Streams
      BY <3>2 DEF FiledOk
    <3>4. Meets(r.stream, r.buffer, r.socket, network)
      BY <1>2, <1>6, <1>8, <2>1, <2>2, <3>1, <3>2, CallWhole
    <3>5. Meets(r.stream, buffer', socket', network') /\ Meets(<<>>, buffer', socket', network')
      BY <2>1, <3>1, <3>3, <3>4, EmptyMeets
    <3>6. CASE r.outcome = "timeout" /\ HandOver(running.stream, r.buffer)
      <4>1. Data' = r.stream /\ running' = NoCall
        BY <2>3, <3>2, <3>6 DEF FiledOk
      <4> QED BY <3>5, <4>1
    <3>7. CASE /\ r.outcome \in {"mixed", "gap", "thrown"}
               /\ Done("bitstream", Verdict(r, Types)) /\ UNCHANGED stream
      <4>1. Data' = <<>> /\ running' = NoCall
        BY <2>2, <3>7 DEF Data, Done
      <4> QED BY <3>5, <4>1
    <3>8. CASE /\ r.outcome = "filed"
               /\ running' = [stream |-> r.stream, left |-> running.left - 1,
                              sizes |-> CountVPS(running.sizes, Last(r.stream))]
               /\ UNCHANGED <<stream, last, clean>>
      <4> DEFINE c == CountVPS(running.sizes, Last(r.stream))
      <4>1. running.left > 0
        BY <2>5 DEF BitstreamGof
      <4>2. c \in FewSizes /\ \A t \in Types : Fits(t, c[t])
        BY <1>6, <2>1, <2>2, FewCounted, FitCounted
      <4>3. c \in Sizes
        BY <4>2 DEF FewSizes
      <4> HIDE DEF c
      <4>4. /\ running' \in Calls /\ running'.stream = r.stream /\ running'.sizes = c
        BY <2>2, <3>3, <3>8, <4>1, <4>3 DEF Calls, c
      <4>5. Data' = r.stream
        BY <4>4, Nothing DEF Data
      <4> QED BY <3>5, <4>2, <4>4, <4>5
    <3> QED BY <3>1, <3>6, <3>7, <3>8
  <2> QED BY <1>14, <2>4, <2>5 DEF BitstreamStep
<1>15. CASE ClearSampleStream
  <2>1. /\ stream' = InitStream /\ running' = NoCall
        /\ UNCHANGED <<mode, network, socket, buffer>>
    BY <1>15 DEF ClearSampleStream
  <2>2. Data' = <<>>
    BY <2>1 DEF Data, InitStream
  <2> QED BY <1>10, <2>1, <2>2
<1>16. CASE UNCHANGED vars
  <2>1. Data' = Data
    BY <1>16 DEF vars, Data
  <2> QED BY <1>9, <1>16, <2>1 DEF vars
<1>17. ASSUME NEW sizes \in UnitSizes, NEW t \in Types, ReceiveUnit(t, sizes[t]) PROVE FALSE
  BY <1>2, <1>4, <1>17 DEF ReceiveUnit, Begin
<1> QED BY <1>3, <1>11, <1>12, <1>13, <1>14, <1>15, <1>16, <1>17 DEF Next

(* When the units are taken in whole, no type that was missing comes back,  *)
(* nothing is lost or overtaken and each GoF is asked for after it has      *)
(* arrived, the stream holds the GoFs sent: complete, in order, without gap.*)
THEOREM StreamFaithful == Spec => []Faithful
<1>1. Init => Inv /\ OrderInv /\ WholeInv
  BY InitInv, InitOrdered, InitWhole
<1>2. (Inv /\ OrderInv /\ WholeInv) /\ [Next]_vars => (Inv /\ OrderInv /\ WholeInv)'
  BY StepInv, StepOrdered, StepWhole
<1>3. ASSUME Inv, WholeInv PROVE Faithful
  <2> DEFINE d == Data  units(k) == [t \in DOMAIN d[k].units |-> UnitIds(d[k], t)]
  <2> SUFFICES ASSUME AllWell, NEW k \in DOMAIN d
               PROVE  units(k) = SentGof(InstantNo(d[1].ts) + k - 1)
    BY DEF Faithful, AllWell
  <2>1. d \in Streams /\ DOMAIN d = 1..Len(d) /\ Len(d) \in Nat
    BY <1>3, DataStream DEF Streams
  <2>2. PICK j \in 1..Len(Instants) + 1 : Whole(d, j)
    BY <1>3 DEF WholeInv, Meets
  <2> HIDE DEF d
  <2> DEFINE n == Len(d)  l == j - n + k - 1
  <2>3. n < j /\ n \in Nat /\ k \in 1..n /\ Len(Instants) \in Nat /\ j \in 1..Len(Instants) + 1
        /\ 1 \in 1..n
    BY <2>1, <2>2, Numbered DEF Whole
  <2>4. WholeAt(d[k], l) /\ WholeAt(d[1], j - n + 1 - 1)
    BY <2>2, <2>3 DEF Whole
  <2>5. j - n \in DOMAIN Instants /\ j - n + 1 - 1 = j - n /\ (j - n) + k - 1 = l
    BY <2>3, Numbered
  <2>6. InstantNo(d[1].ts) = j - n
    BY <2>4, <2>5, NumberIs DEF WholeAt
  <2>7. d[k] \in GoodGofs
    BY <2>1, <2>3 DEF Streams
  <2>8. DOMAIN d[k].units \subseteq Types
    BY <2>7, TypesOf
  <2>9. DOMAIN d[k].units = {u \in Types : SentOf(u, l) # {}}
    BY <2>4, <2>8 DEF WholeAt
  <2>10. \A t \in DOMAIN d[k].units : UnitIds(d[k], t) = SentOf(t, l)
    BY <2>4, <2>8 DEF WholeAt
  <2>11. units(k) = SentGof(l)
    BY <2>9, <2>10 DEF SentGof
  <2> QED BY <2>5, <2>6, <2>11
<1> QED BY <1>1, <1>2, <1>3, PTL DEF Spec
=============================================================================
