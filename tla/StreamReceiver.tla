--------------------------- MODULE StreamReceiver ---------------------------
(***************************************************************************)
(* A receiving handle: receive_gof, receive_unit and receive_bitstream     *)
(* over the streams of several unit types, the receive buffers and the     *)
(* sample stream they fill.                                                *)
(*                                                                         *)
(* The sender's frames are fixed; a network loses some of them and may     *)
(* overtake within a type.  Assembling one unit is one step (UnitCalls),   *)
(* and so is a GoF, whose types share no queue; receive_bitstream takes a  *)
(* step per GoF, between which frames arrive.  NALUs are [id, ts], id      *)
(* being the number of the frame in the sender's stream of that type.      *)
(***************************************************************************)
EXTENDS SampleStream, SequencesExt

CONSTANTS
  Types,         \* unit types with a stream, numbers in the order of the enumeration
  VPS,           \* V3C_VPS
  SizeMax,       \* static_cast<size_t>(-1)
  Instants,      \* the timestamps of the GoFs sent, in order
  Frames,        \* per type: for each frame sent, in order, the number of its GoF
  UnitSizes,     \* the maps of expected sizes the application passes
  GofCounts,     \* the values of expected_num_gofs it passes
  Modes,         \* which receive call it uses: "gof", "unit", "bitstream"
  NoData,        \* data_ is nullptr
  NoCall,        \* no receive_bitstream is running
  MaxOvertaken,  \* bound: frames an overtaking frame passes
  MaxFaults,     \* bound: frames lost or overtaken
  MaxCalls       \* bound: API calls

NumTypes == 7   \* NUM_V3C_UNIT_TYPES

(* The time since the first GoF, on a clock that wraps *)
Age(ts) == IF ts >= Instants[1] THEN ts - Instants[1] ELSE ts + Wrap - Instants[1]

Stamps == 0..Wrap - 1 \cup {Unset}
Units == [ts : Stamps, nalus : Seq([id : Nat, ts : Stamps])]
Gofs == [ts : Stamps, units : UNION {[D -> Units] : D \in SUBSET Types},
         sizes : UNION {[D -> Nat] : D \in SUBSET Types}]
Call == [stream : Seq(Gofs), left : Nat, sizes : [Types -> Nat]]

(* An expected size of zero is passed for the VPS alone: a client that has  *)
(* counted its VPSs down passes it, and no stream of another type is set up *)
(* to receive nothing.                                                      *)
ASSUME ReceiverAssumption ==
  /\ Types \subseteq 0..NumTypes - 1 /\ VPS \in Nat /\ SizeMax \in Nat \ {0}
  /\ Instants \in Seq(0..Wrap - 1) /\ Frames \in [Types -> Seq(DOMAIN Instants)]
  /\ UnitSizes \subseteq [Types -> Nat] /\ GofCounts \subseteq Nat
  /\ \A f \in UnitSizes : \A t \in Types \ {VPS} : f[t] > 0
  /\ Modes \subseteq {"gof", "unit", "bitstream"}
  /\ MaxCalls \in Nat /\ NoData \notin Seq(Gofs) /\ NoCall \notin Call

(* GoFs are sent in the order they are sampled in, within one turn of the   *)
(* clock (2^32 ticks of 90 kHz, some 13 hours), each type GoF by GoF; one   *)
(* without frames is not sent.                                              *)
ASSUME SentAssumption ==
  /\ \A k, l \in DOMAIN Instants : k < l => Age(Instants[k]) < Age(Instants[l])
  /\ \A k \in DOMAIN Instants : \E t \in Types : \E i \in DOMAIN Frames[t] : Frames[t][i] = k
  /\ \A t \in Types : \A i, j \in DOMAIN Frames[t] : i < j => Frames[t][i] <= Frames[t][j]

VARIABLES
  mode,     \* the receive call this application uses
  network,  \* per type: frames sent and neither arrived nor lost
  socket,   \* per type: frames queued in the RTP stack
  buffer,   \* per type: receive_buffer_
  stream,   \* data_
  running,  \* receive_bitstream's new_stream, GoFs left and local_exp_num_nalus
  last,     \* result of the last API call
  calls,    \* API calls made
  faults,   \* history: frames lost, frames overtaken
  regular,  \* history: GoFs were asked for after they arrived, with sizes above zero
  clean     \* history: every call since the last clear returned OK

vars == <<mode, network, socket, buffer, stream, running, last, calls, faults, regular, clean>>

INSTANCE UnitAssembly

Frame(t, i) == [id |-> i, ts |-> Instants[Frames[t][i]]]
InitStream == IF mode = "bitstream" THEN NoData ELSE <<>>

Init ==
  /\ mode \in Modes
  /\ network = [t \in Types |-> DOMAIN Frames[t]]
  /\ socket = [t \in Types |-> <<>>] /\ buffer = [t \in Types |-> <<>>]
  /\ stream = InitStream /\ running = NoCall
  /\ last = [call |-> "init", result |-> "ok"] /\ calls = 0
  /\ faults = [lost |-> 0, overtaken |-> 0] /\ regular = TRUE /\ clean = TRUE

-----------------------------------------------------------------------------
(* The network and the RTP stack *)

Faults == faults.lost + faults.overtaken

Arrive(t) ==
  /\ network[t] # {}
  /\ network' = [network EXCEPT ![t] = @ \ {Min(@)}]
  /\ socket' = [socket EXCEPT ![t] = Append(@, Frame(t, Min(network[t])))]
  /\ UNCHANGED <<mode, buffer, stream, running, last, calls, faults, regular, clean>>

Overtake(t) ==
  /\ Faults < MaxFaults
  /\ \E i \in network[t] :
       /\ Cardinality({j \in network[t] : j < i}) \in 1..MaxOvertaken
       /\ network' = [network EXCEPT ![t] = @ \ {i}]
       /\ socket' = [socket EXCEPT ![t] = Append(@, Frame(t, i))]
  /\ faults' = [faults EXCEPT !.overtaken = @ + 1]
  /\ UNCHANGED <<mode, buffer, stream, running, last, calls, regular, clean>>

Lose(t) ==
  /\ Faults < MaxFaults /\ network[t] # {}
  /\ network' = [network EXCEPT ![t] = @ \ {Min(@)}]
  /\ faults' = [faults EXCEPT !.lost = @ + 1]
  /\ UNCHANGED <<mode, socket, buffer, stream, running, last, calls, regular, clean>>

-----------------------------------------------------------------------------
(* V3C_Receiver::receive_gof *)

StartGof == [gof |-> EmptyGof, socket |-> socket, buffer |-> buffer, ok |-> TRUE]

AddReceivedSkips(acc, t, r) ==   \* mutant: a unit of another instant is dropped silently
  IF r.timeout THEN acc
  ELSE [gof |-> IF GofAccepts(acc.gof, r.unit) THEN GofSet(acc.gof, t, r.unit) ELSE acc.gof,
        socket |-> [acc.socket EXCEPT ![t] = r.socket],
        buffer |-> [acc.buffer EXCEPT ![t] = r.buffer], ok |-> TRUE]

(* What was received of one type joins the GoF; a timeout leaves the type   *)
(* out, a unit of another instant throws and the GoF is lost.               *)
AddReceived(acc, t, r) ==
  IF ~ acc.ok \/ r.timeout THEN acc
  ELSE [gof    |-> IF GofAccepts(acc.gof, r.unit) THEN GofSet(acc.gof, t, r.unit) ELSE EmptyGof,
        socket |-> [acc.socket EXCEPT ![t] = r.socket],
        buffer |-> [acc.buffer EXCEPT ![t] = r.buffer],
        ok     |-> GofAccepts(acc.gof, r.unit)]

AddUnit(acc, t, n) == AddReceived(acc, t, Assemble(t, n, acc.buffer[t], acc.socket[t]))

(* The types in the order of the enumeration *)
ReceivedGof(sizes) ==
  LET received[t \in 0..NumTypes] ==
        IF t = 0 THEN StartGof
        ELSE IF t - 1 \in Types THEN AddUnit(received[t - 1], t - 1, sizes[t - 1])
        ELSE received[t - 1]
  IN received[NumTypes]

-----------------------------------------------------------------------------
(* V3C_Receiver::push_buffer_to_sample_stream *)

(* Each buffered NALU is popped, then offered to the stream; refused, it    *)
(* goes to the end of the buffer; an exception leaves the rest where it is. *)
AfterNalu(p) == IF p.outcome \in {"thrown", "mixed"} THEN p.outcome ELSE "filed"

OfferedCopied(acc, nalu, p) ==   \* mutant: a NALU that was filed stays in the buffer
  IF acc.outcome # "filed" THEN acc
  ELSE [stream |-> p.stream, outcome |-> AfterNalu(p), popped |-> acc.popped + 1,
        kept |-> Append(acc.kept, nalu)]

OfferedForgets(acc, nalu, p) ==   \* mutant: a refused NALU is not put back
  IF acc.outcome # "filed" THEN acc
  ELSE [stream |-> p.stream, outcome |-> AfterNalu(p), popped |-> acc.popped + 1, kept |-> <<>>]

OfferedReversed(acc, nalu, p) ==   \* mutant: refused NALUs are put back first in, last out
  IF acc.outcome # "filed" THEN acc
  ELSE [stream |-> p.stream, outcome |-> AfterNalu(p), popped |-> acc.popped + 1,
        kept |-> IF p.outcome = "refused" THEN <<nalu>> \o acc.kept ELSE acc.kept]

Offered(acc, nalu, p) ==
  IF acc.outcome # "filed" THEN acc
  ELSE [stream |-> p.stream, outcome |-> AfterNalu(p), popped |-> acc.popped + 1,
        kept |-> IF p.outcome = "refused" THEN Append(acc.kept, nalu) ELSE acc.kept]

StartOffer(s) == [stream |-> s, outcome |-> "filed", popped |-> 0, kept |-> <<>>]
Offer(acc, t, nalu) == Offered(acc, nalu, PushNalu(acc.stream, t, nalu))
OfferAll(s, t, nalus) ==
  LET offered[k \in 0..Len(nalus)] ==
        IF k = 0 THEN StartOffer(s) ELSE Offer(offered[k - 1], t, nalus[k])
  IN offered[Len(nalus)]

(* The buffer of one type, after those of the types before it *)
AfterOffer(acc, t, o) ==
  [stream |-> o.stream, outcome |-> o.outcome,
   buffer |-> [acc.buffer EXCEPT ![t] = Drop(@, o.popped) \o o.kept]]
PushBuffer(acc, t) ==
  IF acc.outcome # "filed" THEN acc ELSE AfterOffer(acc, t, OfferAll(acc.stream, t, acc.buffer[t]))

PushBuffers(s, buf, types) ==
  LET pushed[t \in 0..NumTypes] ==
        IF t = 0 THEN [stream |-> s, buffer |-> buf, outcome |-> "filed"]
        ELSE IF t - 1 \in types THEN PushBuffer(pushed[t - 1], t - 1)
        ELSE pushed[t - 1]
  IN pushed[NumTypes]

-----------------------------------------------------------------------------
(* The API calls *)

(* What a call made of its data: nothing came, units of several instants    *)
(* met, the data were filed after a gap and the buffers left alone, or the  *)
(* buffers were tried too, perhaps up to a NALU whose GoF lacks its unit.   *)
Outcome == {"timeout", "mixed", "gap", "filed", "thrown"}

AfterBuffers(sock, b) ==
  [stream |-> b.stream, socket |-> sock, buffer |-> b.buffer,
   outcome |-> b.outcome]

(* p is the result of a push_back to the stream *)
AfterPush(p, sock, buf, types) ==
  IF p.ok THEN AfterBuffers(sock, PushBuffers(p.stream, buf, types))
  ELSE [stream |-> p.stream, socket |-> sock, buffer |-> buf, outcome |-> "gap"]

FileGof(s, g) ==
  IF g.ok /\ g.gof.units # <<>> THEN AfterPush(PushGof(s, g.gof), g.socket, g.buffer, Types)
  ELSE [stream |-> s, socket |-> g.socket, buffer |-> g.buffer,
        outcome |-> IF g.ok THEN "timeout" ELSE "mixed"]

FileUnit(s, t, r) ==
  IF r.timeout THEN [stream |-> s, socket |-> socket, buffer |-> buffer, outcome |-> "timeout"]
  ELSE AfterPush(PushUnit(s, t, r.unit), [socket EXCEPT ![t] = r.socket],
                 [buffer EXCEPT ![t] = r.buffer], {t})

(* check_timestamps from the k-th GoF on *)
Contiguous(s, k) == \A i \in k..Len(s) - 1 : TsOf(s[i + 1].ts) = NextInstant(TsOf(s[i].ts))

(* NALUs left over and a gap before the last GoF are warnings *)
Leftover(buf, types) == \E t \in types : buf[t] # <<>>

VerdictNoGap(r, types) ==   \* mutant: a gap is not reported
  CASE r.outcome = "timeout" -> "timeout"
    [] r.outcome = "thrown" -> "general"
    [] r.outcome = "mixed" -> "timestamp"
    [] OTHER -> IF Leftover(r.buffer, types) THEN "timestamp" ELSE "ok"

Verdict(r, types) ==
  CASE r.outcome = "timeout" -> "timeout"
    [] r.outcome = "thrown" -> "general"
    [] r.outcome \in {"mixed", "gap"} -> "timestamp"
    [] OTHER -> IF Leftover(r.buffer, types) \/ ~ Contiguous(r.stream, Max({1, Len(r.stream) - 1}))
                  THEN "timestamp" ELSE "ok"

(* The oldest GoF that has a frame under way has none in the network *)
Ids(q) == {q[i].id : i \in DOMAIN q}
UnderWay == UNION {{Frames[t][i] : i \in network[t] \cup Ids(socket[t]) \cup Ids(buffer[t])}
                   : t \in Types}
Regular(sizes) ==
  /\ \A t \in Types : sizes[t] > 0
  /\ \A t \in Types : \A i \in network[t] : Frames[t][i] > Min(UnderWay)

Done(call, result) ==
  /\ last' = [call |-> call, result |-> result]
  /\ clean' = (clean /\ result = "ok")
  /\ running' = NoCall

Begin(call) ==
  /\ mode = call /\ running = NoCall /\ calls < MaxCalls
  /\ calls' = calls + 1
  /\ UNCHANGED <<mode, network, faults>>

Install(r) == stream' = r.stream /\ socket' = r.socket /\ buffer' = r.buffer

ReceiveGof(sizes) ==
  /\ Begin("gof")
  /\ regular' = (regular /\ Regular(sizes))
  /\ \E r \in {FileGof(stream, ReceivedGof(sizes))} : Install(r) /\ Done("gof", Verdict(r, Types))

(* Only the buffer of this type is tried against the stream *)
ReceiveUnit(t, n) ==
  /\ Begin("unit")
  /\ UNCHANGED regular
  /\ \E r \in {FileUnit(stream, t, Assemble(t, n, buffer[t], socket[t]))} :
       Install(r) /\ Done("unit", Verdict(r, {t}))

-----------------------------------------------------------------------------
(* receive_bitstream: one step per GoF, and one to hand over the stream *)

BeginBitstream(n, sizes) ==
  /\ Begin("bitstream") /\ stream = NoData
  /\ running' = [stream |-> <<>>, left |-> n, sizes |-> sizes]
  /\ UNCHANGED <<socket, buffer, stream, last, regular, clean>>

(* local_exp_num_nalus.at(V3C_VPS) -= 1, a size_t *)
CountVPS(sizes, g) ==
  IF VPS \in DOMAIN g.units
    THEN [sizes EXCEPT ![VPS] = IF @ = 0 THEN SizeMax ELSE @ - 1]
    ELSE sizes

Running == running # NoCall /\ UNCHANGED <<mode, network, calls, faults>>

HandOver(s, buf) ==
  /\ stream' = s
  /\ Done("bitstream", IF Leftover(buf, Types) \/ ~ Contiguous(s, 1) THEN "timestamp"
                       ELSE IF s = <<>> THEN "invalid_it" ELSE "ok")

BitstreamGofSkips ==   \* mutant: a timeout counts as a GoF, the unsigned counter passes zero
  /\ Running /\ running.left > 0
  /\ UNCHANGED regular
  /\ \E r \in {FileGof(running.stream, ReceivedGof(running.sizes))} :
       /\ socket' = r.socket /\ buffer' = r.buffer
       /\ \/ /\ r.outcome \in {"mixed", "gap", "thrown"}
             /\ Done("bitstream", Verdict(r, Types)) /\ UNCHANGED stream
          \/ /\ r.outcome = "timeout"
             /\ running' = [running EXCEPT !.left = IF @ = 1 THEN SizeMax ELSE @ - 1]
             /\ UNCHANGED <<stream, last, clean>>
          \/ /\ r.outcome = "filed"
             /\ running' = [running EXCEPT !.stream = r.stream, !.left = @ - 1]
             /\ UNCHANGED <<stream, last, clean>>

(* Only a timeout ends the call with what it has: after any other exception *)
(* its stream is gone.                                                      *)
BitstreamGof ==
  /\ Running /\ running.left > 0
  /\ regular' = (regular /\ Regular(running.sizes))
  /\ \E r \in {FileGof(running.stream, ReceivedGof(running.sizes))} :
       /\ socket' = r.socket /\ buffer' = r.buffer
       /\ \/ r.outcome = "timeout" /\ HandOver(running.stream, r.buffer)
          \/ /\ r.outcome \in {"mixed", "gap", "thrown"}
             /\ Done("bitstream", Verdict(r, Types)) /\ UNCHANGED stream
          \/ /\ r.outcome = "filed"
             /\ running' = [stream |-> r.stream, left |-> running.left - 1,
                            sizes |-> CountVPS(running.sizes, Last(r.stream))]
             /\ UNCHANGED <<stream, last, clean>>

BitstreamDone ==
  /\ Running /\ running.left = 0
  /\ HandOver(running.stream, buffer)
  /\ UNCHANGED <<socket, buffer, regular>>

BitstreamStep == BitstreamGof \/ BitstreamDone

(* clear_sample_stream does not touch the receive buffers; the application  *)
(* then initializes an empty stream or receives another bitstream.          *)
ClearSampleStream ==
  /\ running = NoCall /\ stream # InitStream /\ calls < MaxCalls
  /\ stream' = InitStream /\ clean' = TRUE
  /\ last' = [call |-> "clear", result |-> "ok"] /\ calls' = calls + 1
  /\ UNCHANGED <<mode, network, socket, buffer, running, faults, regular>>

-----------------------------------------------------------------------------
Next ==
  \/ \E t \in Types : Arrive(t) \/ Overtake(t) \/ Lose(t)
  \/ \E sizes \in UnitSizes :
       \/ ReceiveGof(sizes)
       \/ \E t \in Types : ReceiveUnit(t, sizes[t])
       \/ \E n \in GofCounts : BeginBitstream(n, sizes)
  \/ BitstreamStep
  \/ ClearSampleStream

Spec == Init /\ [][Next]_vars

(* The thread inside receive_bitstream keeps running; pull_frame has a      *)
(* finite timeout.                                                          *)
FairSpec == Spec /\ (<>[](running # NoCall) => []<><<BitstreamStep>>_vars)

-----------------------------------------------------------------------------
(* Properties *)

Data == IF running # NoCall THEN running.stream ELSE IF stream = NoData THEN <<>> ELSE stream

UnitIds(g, t) == IF t \in DOMAIN g.units THEN Ids(g.units[t].nalus) ELSE {}
Filed(t) == UNION {UnitIds(Data[k], t) : k \in DOMAIN Data}
Held == UNION {{t} \X (Ids(socket[t]) \cup Ids(buffer[t]) \cup Filed(t)) : t \in Types}

(* A GoF with a unit of expected size zero: the unit has neither NALUs nor  *)
(* timestamp, and opens the GoF without one.                                *)
Padded(g) == \E t \in DOMAIN g.units : g.units[t].nalus = <<>>

InstantNo(ts) == CHOOSE k \in DOMAIN Instants : Instants[k] = ts

(* The queues hold frames of their own stream, with their timestamps; GoFs  *)
(* hold units of the types received.                                        *)
TypeOK ==
  /\ mode \in Modes /\ calls \in 0..MaxCalls
  /\ \A t \in Types :
       /\ network[t] \subseteq DOMAIN Frames[t]
       /\ \A q \in {socket[t], buffer[t]} : \A i \in DOMAIN q :
            q[i].id \in DOMAIN Frames[t] /\ q[i] = Frame(t, q[i].id)
  /\ \A k \in DOMAIN Data :
       Data[k].ts \in {Unset} \cup 0..Wrap - 1 /\ DOMAIN Data[k].units \subseteq Types
  /\ last.result \in {"ok", "timeout", "timestamp", "general", "invalid_it"}

(* Every NALU is filed in a GoF of the instant it was sampled at, whether   *)
(* it came with its unit, in a unit of its own or late, through the receive *)
(* buffer; only a GoF opened by an empty unit may hold others.              *)
FiledByInstant ==
  \A k \in DOMAIN Data : ~ Padded(Data[k]) =>
    \A t \in Types : \A id \in UnitIds(Data[k], t) : Data[k].ts = Frame(t, id).ts

(* A NALU is in one place only: queued, buffered, or in one unit of the     *)
(* stream; what an exception leaves behind is not received again.           *)
NothingTwice ==
  \A t \in Types :
    LET places == <<network[t], Ids(socket[t]), Ids(buffer[t])>>
                    \o [k \in DOMAIN Data |-> UnitIds(Data[k], t)]
    IN \A i, j \in DOMAIN places : i # j => places[i] \cap places[j] = {}

(* What a call may discard: receive_bitstream that fails, all it received;  *)
(* receive_gof, units that turn out to be of several instants; receive_unit,*)
(* the rest of a unit whose GoF already has one; the last two, one buffered *)
(* NALU that found a GoF without a unit of its type, or, in a GoF opened by *)
(* an empty unit, a unit of another instant.  Nothing else is ever lost,    *)
(* and nothing at all by a call that times out.                             *)
HasUnit(f) ==
  \E k \in DOMAIN Data :
    TsOf(Data[k].ts) = Frame(f[1], f[2]).ts /\ f[1] \in DOMAIN Data[k].units
SeveralInstants(F) == \E f, g \in F : Frames[f[1]][f[2]] # Frames[g[1]][g[2]]
SomePadded == \E k \in DOMAIN Data' : Padded(Data'[k])
MayDiscard(F, call, result) ==
  LET strays == {f \in F : ~ HasUnit(f)}
  IN \/ call = "clear"
     \/ call = "bitstream" /\ result \in {"timestamp", "general"}
     \/ call = "gof" /\ result = "timestamp" /\ SeveralInstants(F)
     \/ call = "gof" /\ result = "general" /\ Cardinality(F) = 1
     \/ call = "gof" /\ result = "timestamp" /\ Cardinality(F) = 1 /\ SomePadded
     \/ call = "unit" /\ result = "general" /\ Cardinality(strays) <= 1
     \/ call = "unit" /\ result \in {"ok", "timestamp"} /\ strays = {}
DiscardsExplained ==
  [][Held \ Held' # {} => MayDiscard(Held \ Held', last'.call, last'.result)]_vars


(* As long as every call returned OK the GoFs are a frame apart, although   *)
(* each call compares the last two GoFs only and units are filed one by one.*)
OkMeansContiguous == clean /\ stream # NoData => Contiguous(stream, 1)

(* At most two NALUs per unit are asked for by number: a call then leaves   *)
(* two in the receive buffer at most.  With three, a call that stops among  *)
(* them, or a push_back that refuses one and throws at the next, leaves     *)
(* them in another order than they came in.                                 *)
FewAsked == \A sizes \in UnitSizes : \A t \in Types \ {VPS} : sizes[t] \in {1, 2, SizeMax}

(* No GoF has more NALUs of a type than are asked for, nor a second VPS.  A *)
(* type that is missing from a GoF does not come back: receive_gof takes    *)
(* its next unit for one of this GoF, throws, and the GoF is lost.          *)
SentOf(t, k) == {i \in DOMAIN Frames[t] : Frames[t][i] = k}
Fits(t, n) ==
  LET most == IF t = VPS THEN 1 ELSE n
  IN \A i \in DOMAIN Frames[t] :
       i + most \in DOMAIN Frames[t] => Frames[t][i + most] # Frames[t][i]
AllAsked == \A sizes \in UnitSizes, t \in Types : Fits(t, sizes[t])
NoneReturns ==
  \A t \in Types, k, l \in DOMAIN Instants : k < l /\ SentOf(t, l) # {} => SentOf(t, k) # {}

(* Then, when frames are neither lost nor overtaken and each GoF is asked   *)
(* for after it has arrived, the stream holds the GoFs sent, complete, in   *)
(* order and without gap.                                                   *)
SentGof(k) == [t \in {u \in Types : SentOf(u, k) # {}} |-> SentOf(t, k)]
Faithful ==
  (/\ FewAsked /\ AllAsked /\ NoneReturns
   /\ Faults = 0 /\ regular /\ mode # "unit") =>
    \A k \in DOMAIN Data :
      [t \in DOMAIN Data[k].units |-> UnitIds(Data[k], t)]
        = SentGof(InstantNo(Data[1].ts) + k - 1)

(* When few are asked for and frames are not overtaken within a type, its   *)
(* NALUs are filed in the order they were sent in, over all GoFs and units, *)
(* whatever was lost, late, split or put back: types may disagree, no type  *)
(* is shuffled.  (The GoF of an empty unit takes late NALUs of any instant, *)
(* so none is padded.)                                                      *)
Before(t, k, l) == \A x \in UnitIds(Data[k], t), y \in UnitIds(Data[l], t) : x < y
TypesInOrder ==
  (/\ FewAsked /\ mode # "unit" /\ faults.overtaken = 0
   /\ \A k \in DOMAIN Data : ~ Padded(Data[k])) =>
    \A t \in Types :
      /\ \A k, l \in DOMAIN Data : k < l => Before(t, k, l)
      /\ \A k \in DOMAIN Data : t \in DOMAIN Data[k].units =>
           LET nalus == Data[k].units[t].nalus
           IN \A i, j \in DOMAIN nalus : i < j => nalus[i].id < nalus[j].id

(* find_timestamp takes the first and the last GoF as the ends of a range   *)
(* of the clock.  As long as no GoF is asked for before it has arrived and  *)
(* no type is shuffled, it finds every GoF of the stream, also after losses *)
(* and over the wrap of the clock: late NALUs reach their unit.             *)
LookupFinds ==
  (FewAsked /\ mode # "unit" /\ faults.overtaken = 0 /\ regular) =>
    \A k \in DOMAIN Data :
      LET found == FindTimestamp(Data, Data[k].ts)
      IN found <= Len(Data) /\ Data[found].ts = Data[k].ts

(* receive_bitstream ends, also when it is asked for GoFs until none comes. *)
BitstreamReturns == (running # NoCall) ~> (running = NoCall)

(* Sample_Stream.cpp:499: a GoF is written in the size its map records.     *)
SizesCurrent ==
  \A k \in DOMAIN Data : \A t \in DOMAIN Data[k].units :
    Data[k].sizes[t] = UnitSize(Data[k].units[t])
=============================================================================
