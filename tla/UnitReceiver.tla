---------------------------- MODULE UnitReceiver ----------------------------
(***************************************************************************)
(* V3C_Receiver::receive_v3c_unit for one V3C unit type.                   *)
(*                                                                         *)
(* The RTP stack (uvgRTP, external) queues the frames that arrive for the  *)
(* stream; a call assembles one V3C unit from them.  A NALU whose RTP      *)
(* timestamp differs from the unit's is kept in receive_buffer_ and tried  *)
(* first by later calls.  Calls are made one after another by the          *)
(* application thread; frames arrive at any moment between two steps.      *)
(*                                                                         *)
(* A NALU is [id, ts]: the arrival number of its frame and the timestamp   *)
(* copied from the RTP header.  Sizes are counted in NALUs: every call the *)
(* API makes passes expected_size_as_num_nalus = true.                     *)
(***************************************************************************)
EXTENDS Naturals, Sequences, FiniteSets

CONSTANTS
  Timestamps,           \* RTP timestamps of the frames
  Unset,                \* a Timestamp object whose timestamp_set_ is false
  ExpectedSizes,        \* values of expected_size the application passes
  SizeMax,              \* static_cast<size_t>(-1): "until the timestamp changes"
  UnitTypes,            \* unit types a stream of which is received
  VPS,                  \* V3C_VPS, the type without NALU framing
  NumStreams,           \* receive_buffer_.size(): one queue per media stream
  RECEIVE_BUFFER_SIZE,  \* global.h
  Ordered,              \* TRUE: the network loses frames but never reorders them
  FramesPerInstant,     \* when Ordered, frames sent per timestamp
  OneSize,              \* TRUE: the application passes the same size every time
  MaxFrames,            \* bound: frames that arrive
  MaxCalls              \* bound: calls of receive_v3c_unit

ASSUME TimestampAssumption == Timestamps \subseteq Nat /\ Unset \notin Timestamps
ASSUME SizeAssumption ==
  /\ SizeMax \in Nat \ {0}
  /\ ExpectedSizes \subseteq 0..SizeMax
  /\ MaxFrames \in Nat /\ MaxCalls \in Nat /\ FramesPerInstant \in Nat
(* There are seven unit types and RECEIVE_BUFFER_SIZE is 1000. *)
ASSUME BufferAssumption ==
  /\ NumStreams \in Nat /\ RECEIVE_BUFFER_SIZE \in Nat
  /\ NumStreams < RECEIVE_BUFFER_SIZE

VARIABLES
  type,           \* the unit type this stream carries
  arrivals,       \* history: timestamps of the frames, in order of arrival
  socket,         \* frames queued in the RTP stack
  receive_buffer, \* receive_buffer_.at(type)
  pc,             \* "idle", or the blocking point of the running call
  expected_size, size_received, timestamp_mismatch, buffer_unprocessed_count,
  new_unit,       \* the unit being assembled: timestamp and NALUs
  pulls,          \* history: frames pulled from the RTP stack by this call
  delivered,      \* history: units returned; "cut" when a timeout ended them
  dropped         \* history: ids of NALUs thrown away with the receive buffer

callVars == <<expected_size, size_received, timestamp_mismatch,
              buffer_unprocessed_count, new_unit, pulls>>
vars == <<type, arrivals, socket, receive_buffer, pc, callVars, delivered, dropped>>

Nalu == [id : Nat, ts : Timestamps]
EmptyUnit == [ts |-> Unset, nalus |-> <<>>]

Init ==
  /\ type \in UnitTypes
  /\ arrivals = <<>> /\ socket = <<>> /\ receive_buffer = <<>>
  /\ pc = "idle"
  /\ expected_size = 0 /\ size_received = 0 /\ timestamp_mismatch = FALSE
  /\ buffer_unprocessed_count = 0 /\ new_unit = EmptyUnit /\ pulls = 0
  /\ delivered = <<>> /\ dropped = {}

-----------------------------------------------------------------------------
(* The network and the RTP stack *)

(* An ordered network delivers, in order, some of the FramesPerInstant      *)
(* frames sent for each timestamp; otherwise any frame may come at any time.*)
MayArrive(ts) ==
  Ordered =>
    /\ \A i \in DOMAIN arrivals : arrivals[i] <= ts
    /\ Cardinality({i \in DOMAIN arrivals : arrivals[i] = ts}) < FramesPerInstant

Arrive(ts) ==
  /\ Len(arrivals) < MaxFrames
  /\ MayArrive(ts)
  /\ arrivals' = Append(arrivals, ts)
  /\ socket' = Append(socket, [id |-> Len(arrivals) + 1, ts |-> ts])
  /\ UNCHANGED <<type, receive_buffer, pc, callVars, delivered, dropped>>

-----------------------------------------------------------------------------
(* V3C_Unit::push_back(Nalu&&): the first NALU gives the unit its timestamp *)

FitsUnchecked(nalu) == nalu.ts \in Timestamps   \* mutant: no comparison

Fits(nalu) == new_unit.ts \in {Unset, nalu.ts}

PushBack(nalu) ==
  new_unit' = [ts |-> nalu.ts, nalus |-> Append(new_unit.nalus, nalu)]

(* push_to_receive_buffer: the limit is compared with the number of queues. *)
(* "rest" is what remains of the queue once the NALU being handled is out.  *)
PushToReceiveBuffer(rest, nalu) ==
  IF NumStreams >= RECEIVE_BUFFER_SIZE
    THEN /\ receive_buffer' = Append(Tail(rest), nalu)
         /\ dropped' = dropped \cup {Head(rest).id}
    ELSE /\ receive_buffer' = Append(rest, nalu)
         /\ UNCHANGED dropped

(* The call ends: unit handed to the caller, locals of the call gone. *)
Return(cut) ==
  /\ pc' = "idle"
  /\ delivered' = Append(delivered, [ts |-> new_unit'.ts, nalus |-> new_unit'.nalus,
                                     cut |-> cut])

-----------------------------------------------------------------------------
(* One call of receive_v3c_unit *)

Begin(n, received, unprocessed) ==
  /\ pc = "idle" /\ Len(delivered) < MaxCalls
  /\ OneSize => expected_size \in {0, n}
  /\ pc' = IF type = VPS /\ n > 0 THEN "vps" ELSE "loop"
  /\ expected_size' = n
  /\ size_received' = received /\ timestamp_mismatch' = FALSE
  /\ buffer_unprocessed_count' = unprocessed
  /\ new_unit' = EmptyUnit /\ pulls' = 0
  /\ UNCHANGED <<type, arrivals, socket, receive_buffer, delivered, dropped>>

CallCountsAllBuffers(n) == Begin(n, 0, Len(receive_buffer) + NumStreams - 1)  \* mutant
CallKeepsCount(n) == Begin(n, size_received % n, Len(receive_buffer))         \* mutant
Call(n) == Begin(n, 0, Len(receive_buffer))

(* The VPS unit is one RTP frame, taken as it is, past the receive buffer. *)
PullVPS ==
  /\ pc = "vps" /\ socket # <<>>
  /\ PushBack(Head(socket))
  /\ socket' = Tail(socket)
  /\ pulls' = pulls + 1
  /\ Return(FALSE)
  /\ UNCHANGED <<type, arrivals, receive_buffer, expected_size, size_received,
                 timestamp_mismatch, buffer_unprocessed_count, dropped>>

InLoop == pc = "loop" /\ size_received < expected_size

(* The NALU has the unit's timestamp and goes into the unit. *)
Accept(nalu, rest) ==
  /\ Fits(nalu)
  /\ PushBack(nalu)
  /\ size_received' = size_received + 1
  /\ timestamp_mismatch' = FALSE
  /\ receive_buffer' = rest
  /\ UNCHANGED <<pc, delivered, dropped>>

RejectDropsOnStop(nalu, rest) ==   \* mutant: break before the NALU is stored
  /\ ~ Fits(nalu)
  /\ UNCHANGED new_unit
  /\ IF expected_size = SizeMax /\ size_received > 0
       THEN /\ Return(FALSE)
            /\ receive_buffer' = rest
            /\ UNCHANGED <<size_received, timestamp_mismatch, dropped>>
       ELSE /\ PushToReceiveBuffer(rest, nalu)
            /\ timestamp_mismatch' = TRUE
            /\ UNCHANGED <<size_received, pc, delivered>>

RejectNeverCounts(nalu, rest) ==   \* mutant: neither of the two loop exits
  /\ ~ Fits(nalu)
  /\ PushToReceiveBuffer(rest, nalu)
  /\ timestamp_mismatch' = TRUE
  /\ UNCHANGED <<new_unit, size_received, pc, delivered>>

(* TimestampException: the NALU goes (back) to the end of the buffer.  With *)
(* an automatic size the call stops; else a second mismatch in a row counts *)
(* as a received NALU, so that the loop ends.                               *)
Reject(nalu, rest) ==
  /\ ~ Fits(nalu)
  /\ PushToReceiveBuffer(rest, nalu)
  /\ UNCHANGED new_unit
  /\ IF expected_size = SizeMax /\ size_received > 0
       THEN Return(FALSE) /\ UNCHANGED <<size_received, timestamp_mismatch>>
       ELSE /\ IF timestamp_mismatch /\ buffer_unprocessed_count' = 0
                 THEN size_received' = size_received + 1 /\ UNCHANGED timestamp_mismatch
                 ELSE timestamp_mismatch' = TRUE /\ UNCHANGED size_received
            /\ UNCHANGED <<pc, delivered>>

(* Buffered NALUs come first, each at most once per call. *)
TakeBuffered ==
  /\ InLoop /\ buffer_unprocessed_count > 0
  /\ buffer_unprocessed_count' = buffer_unprocessed_count - 1
  /\ UNCHANGED <<type, arrivals, socket, expected_size, pulls>>

PullFrameFirst ==   \* mutant: the RTP stack is asked before the buffer is empty
  /\ InLoop /\ socket # <<>>
  /\ socket' = Tail(socket)
  /\ pulls' = pulls + 1
  /\ UNCHANGED <<type, arrivals, expected_size, buffer_unprocessed_count>>

PullFrame ==
  /\ InLoop /\ buffer_unprocessed_count = 0 /\ socket # <<>>
  /\ socket' = Tail(socket)
  /\ pulls' = pulls + 1
  /\ UNCHANGED <<type, arrivals, expected_size, buffer_unprocessed_count>>

AcceptBufferedNoPop == TakeBuffered /\ Accept(Head(receive_buffer), receive_buffer)   \* mutant

AcceptBuffered == TakeBuffered /\ Accept(Head(receive_buffer), Tail(receive_buffer))
RejectBuffered == TakeBuffered /\ Reject(Head(receive_buffer), Tail(receive_buffer))
AcceptPulled == PullFrame /\ Accept(Head(socket), receive_buffer)
RejectPulled == PullFrame /\ Reject(Head(socket), receive_buffer)

TimeoutThrows ==   \* mutant: TimeoutException whatever was received
  /\ socket = <<>>
  /\ pc = "vps" \/ (InLoop /\ buffer_unprocessed_count = 0)
  /\ pc' = "idle"
  /\ UNCHANGED <<type, arrivals, socket, receive_buffer, callVars, delivered, dropped>>

TimeoutRetries ==   \* mutant: a partial unit keeps waiting
  /\ socket = <<>>
  /\ pc = "vps" \/ (InLoop /\ buffer_unprocessed_count = 0)
  /\ pc' = IF size_received = 0 THEN "idle" ELSE pc
  /\ UNCHANGED <<type, arrivals, socket, receive_buffer, callVars, delivered, dropped>>

(* pull_frame returns no frame: TimeoutException if nothing was received,   *)
(* else the call ends with a partial unit.                                  *)
Timeout ==
  /\ socket = <<>>
  /\ \/ pc = "vps"
     \/ InLoop /\ buffer_unprocessed_count = 0
  /\ UNCHANGED <<type, arrivals, socket, receive_buffer, callVars, dropped>>
  /\ IF size_received = 0
       THEN pc' = "idle" /\ UNCHANGED delivered
       ELSE Return(TRUE)

(* while (size_received < expected_size) is over: return new_unit *)
Finish ==
  /\ pc = "loop" /\ size_received >= expected_size
  /\ UNCHANGED <<type, arrivals, socket, receive_buffer, callVars, dropped>>
  /\ Return(FALSE)

ClearReceiveBuffer ==
  /\ pc = "idle"
  /\ receive_buffer' = <<>>
  /\ dropped' = dropped \cup {receive_buffer[i].id : i \in DOMAIN receive_buffer}
  /\ UNCHANGED <<type, arrivals, socket, pc, callVars, delivered>>

-----------------------------------------------------------------------------
Step ==
  \/ PullVPS
  \/ AcceptBuffered \/ RejectBuffered
  \/ AcceptPulled \/ RejectPulled
  \/ Timeout
  \/ Finish

Next ==
  \/ \E ts \in Timestamps : Arrive(ts)
  \/ \E n \in ExpectedSizes : Call(n)
  \/ Step
  \/ ClearReceiveBuffer

Spec == Init /\ [][Next]_vars

(* The thread inside a call keeps running; pull_frame has a finite timeout. *)
FairSpec == Spec /\ WF_vars(Step)
-----------------------------------------------------------------------------
(* Properties *)

UnitOfNalus == [ts : Timestamps \cup {Unset}, nalus : Seq(Nalu)]
ReturnedUnit == [ts : Timestamps \cup {Unset}, nalus : Seq(Nalu), cut : BOOLEAN]

(* The variables keep their types; the unprocessed NALUs of a running call  *)
(* are still in the buffer.                                                 *)
TypeOK ==
  /\ type \in UnitTypes
  /\ arrivals \in Seq(Timestamps)
  /\ socket \in Seq(Nalu) /\ receive_buffer \in Seq(Nalu)
  /\ pc \in {"idle", "vps", "loop"}
  /\ expected_size \in 0..SizeMax /\ size_received \in Nat
  /\ timestamp_mismatch \in BOOLEAN
  /\ buffer_unprocessed_count \in Nat
  /\ pc = "loop" => buffer_unprocessed_count <= Len(receive_buffer)
  /\ new_unit \in UnitOfNalus
  /\ pulls \in Nat
  /\ delivered \in Seq(ReturnedUnit)
  /\ dropped \subseteq Nat

(* Every NALU of a unit, returned or in the making, carries the timestamp   *)
(* of the unit: receive_v3c_unit never mixes sampling instants, whatever    *)
(* the buffer and the network hand it and in whatever order.                *)
Uniform(unit) == \A i \in DOMAIN unit.nalus : unit.nalus[i].ts = unit.ts
UnitsUniform ==
  /\ Uniform(new_unit)
  /\ \A u \in DOMAIN delivered : Uniform(delivered[u])

Ids(s) == {s[i].id : i \in DOMAIN s}
Distinct(s) == \A i, j \in DOMAIN s : s[i].id = s[j].id => i = j
InHand == IF pc = "idle" THEN <<>> ELSE new_unit.nalus
DeliveredIds == UNION {Ids(delivered[u].nalus) : u \in DOMAIN delivered}

(* No NALU vanishes: each frame that arrived is queued, buffered, in the    *)
(* running call's unit, in a returned unit or was cleared with the buffer.  *)
(* In particular a call that throws TimeoutException discards nothing.      *)
NothingLost ==
  Ids(socket) \cup Ids(receive_buffer) \cup Ids(InHand) \cup DeliveredIds \cup dropped
    = 1..Len(arrivals)

(* No NALU is in two places or twice in one: rotating the receive buffer    *)
(* neither copies a NALU nor returns it in two units.                       *)
NothingTwice ==
  /\ \A s \in {socket, receive_buffer, InHand} : Distinct(s)
  /\ \A u, v \in DOMAIN delivered :
       /\ Distinct(delivered[u].nalus)
       /\ u # v => Ids(delivered[u].nalus) \cap Ids(delivered[v].nalus) = {}
  /\ LET place == <<Ids(socket), Ids(receive_buffer), Ids(InHand), DeliveredIds, dropped>>
     IN \A i, j \in DOMAIN place : i # j => place[i] \cap place[j] = {}

(* The loop of a call ends even if frames with other timestamps never stop  *)
(* arriving: the RTP stack is asked at most twice per expected NALU.        *)
PullBound == pulls <= 2 * expected_size

(* A call gives up with TimeoutException only when no NALU waits in the     *)
(* receive buffer and none was taken: data in hand is always returned.      *)
TimeoutOnlyEmptyHanded ==
  [][pc # "idle" /\ pc' = "idle" /\ delivered' = delivered
       => receive_buffer = <<>> /\ new_unit = EmptyUnit]_vars

(* On a network that loses frames but keeps their order, units come out in  *)
(* order of arrival and so do the NALUs inside them, and what stays behind  *)
(* in the buffer precedes what is still queued in the RTP stack.            *)
Precedes(S, T) == \A x \in S, y \in T : x < y
Increasing(s) == \A i, j \in DOMAIN s : i < j => s[i].id < s[j].id
InOrder ==
  (Ordered /\ OneSize /\ pc = "idle") =>
    /\ \A u, v \in DOMAIN delivered :
         u < v => Precedes(Ids(delivered[u].nalus), Ids(delivered[v].nalus))
    /\ \A s \in {delivered[u].nalus : u \in DOMAIN delivered} \cup {receive_buffer, socket} :
         Increasing(s)
    /\ Precedes(DeliveredIds, Ids(receive_buffer) \cup Ids(socket))
    /\ Precedes(Ids(receive_buffer), Ids(socket))

(* On such a network a unit is split over two calls only by a timeout: lost *)
(* NALUs of one instant never make a call hand over the rest of it early.   *)
WholeUnits ==
  (Ordered /\ OneSize /\ type # VPS) => \A u, v \in DOMAIN delivered :
    u < v /\ delivered[u].ts = delivered[v].ts /\ delivered[u].ts # Unset
      => delivered[u].cut

(* With the automatic size on such a network the buffer holds at most the   *)
(* one NALU that ended the previous unit.                                   *)
AutoKeepsOne ==
  (Ordered /\ pc = "idle" /\ expected_size = SizeMax) => Len(receive_buffer) <= 1

(* Every call returns or throws: the receive loop cannot hang as long as    *)
(* pull_frame honours its timeout.                                          *)
CallsReturn == (pc # "idle") ~> (pc = "idle")

(* global.h: "Max number of rtp frames the v3c receiver stores before       *)
(* dropping frames".                                                        *)
BufferLimited == Len(receive_buffer) <= RECEIVE_BUFFER_SIZE
=============================================================================
