---------------------------- MODULE SenderStream ----------------------------
(***************************************************************************)
(* The sample stream of a V3C_State<V3C_Sender>: built from bitstreams in  *)
(* one or several parts, cleared, rebuilt and sent.  The parsed bytes give *)
(* units without timestamps; the state gives them consecutive sampling     *)
(* instants.  A bitstream is a chunk: the sequence of its units' types.    *)
(*                                                                         *)
(* Calls that fail before they change anything (no data, data present,     *)
(* parse errors) are in V3CState.                                          *)
(***************************************************************************)
EXTENDS SampleStream, SequencesExt

CONSTANTS
  Types,          \* V3C_UNIT_TYPE values of the units, smaller ones first in a GoF
  StreamTypes,    \* types for which the connection has a media stream
  InitialInstant, \* get_new_sampling_instant()
  InitChunks,     \* bitstreams given to init_sample_stream
  AppendChunks,   \* bitstreams with headers given to append_to_sample_stream
  CutAppends,     \* bitstreams are also appended while the last GoF is incomplete
  AppendTypes,    \* types of single units given to append_to_sample_stream
  NoData,         \* data_ is null
  MaxUnits,       \* bound: units parsed since the last clear
  MaxClears       \* bound: clear_sample_stream calls that drop GoFs

NumTypes == 7   \* NUM_V3C_UNIT_TYPES

Stamps == Nat \cup {Unset}
Units == [ts : Stamps, nalus : Seq([id : Nat, ts : Stamps])]
Gofs == [ts : Stamps, units : UNION {[D -> Units] : D \in SUBSET Types},
         sizes : UNION {[D -> Nat] : D \in SUBSET Types}]

ASSUME SenderAssumption ==
  /\ Types \subseteq 0..NumTypes - 1 /\ InitialInstant \in 0..Wrap - 1
  /\ InitChunks \cup AppendChunks \subseteq Seq(Types) \ {<<>>} /\ AppendTypes \subseteq Types
  /\ MaxUnits \in Nat /\ MaxClears \in Nat
  /\ NoData \notin Seq(Gofs)

VARIABLES
  data,               \* *data_, or NoData
  initial_timestamp,  \* V3C_Sender::initial_timestamp_
  crashed,            \* the process died in undefined behaviour
  wire,               \* history: frames pushed to the RTP stack by the last send
  given,              \* history: types of the units parsed since the last clear, in order
  retired,            \* history: GoFs dropped by clear_sample_stream
  clears

vars == <<data, initial_timestamp, crashed, wire, given, retired, clears>>

(* A unit is known by its number in "given" *)
Parsed == Len(given)
NewUnit(id) == [ts |-> Unset, nalus |-> <<[id |-> id, ts |-> Unset]>>]

Init ==
  /\ data = NoData /\ initial_timestamp = InitialInstant /\ crashed = FALSE
  /\ wire = <<>> /\ given = <<>>
  /\ retired = 0 /\ clears = 0

-----------------------------------------------------------------------------
(* V3C::parse_bitstream: unit after unit into an empty stream; the first    *)
(* one has number n + 1.                                                    *)
ParseBitstream(chunk, n) ==
  LET parsed[i \in 0..Len(chunk)] ==
        IF i = 0 THEN <<>> ELSE PushUnit(parsed[i - 1], chunk[i], NewUnit(n + i)).stream
  IN parsed[Len(chunk)]

(* V3C_State::set_timestamps *)
SetTimestamps(s, ts) == [k \in DOMAIN s |-> StampGof(s[k], (ts + (k - 1) * FrameDuration) % Wrap)]

(* Sample_Stream::push_back(Sample_Stream&&): GoFs of the other stream get  *)
(* the instants that follow, then its units are pushed one by one.  The     *)
(* units of a GoF are a std::map, ordered by their types.                   *)
PushUnits(s, g) ==
  LET pushed[t \in 0..NumTypes] ==
        IF t = 0 THEN s
        ELSE IF t - 1 \in DOMAIN g.units
          THEN PushUnit(pushed[t - 1], t - 1, g.units[t - 1]).stream ELSE pushed[t - 1]
  IN pushed[NumTypes]
PushStream(s, other) ==
  LET initTs == s # <<>> /\ IsSet(s[Len(s)].ts) /\ ~ IsSet(other[1].ts)
      stamped == IF initTs THEN SetTimestamps(other, NextInstant(BackTs(s))) ELSE other
      joined[k \in 0..Len(other)] == IF k = 0 THEN s ELSE PushUnits(joined[k - 1], stamped[k])
  IN joined[Len(other)]

-----------------------------------------------------------------------------
(* init_sample_stream(size_precision) *)
InitEmpty ==
  /\ ~ crashed /\ data = NoData
  /\ data' = <<>>
  /\ UNCHANGED <<initial_timestamp, crashed, wire, given, retired, clears>>

(* init_sample_stream(bitstream, len) *)
InitBitstream(chunk) ==
  /\ ~ crashed /\ data = NoData /\ Len(chunk) <= MaxUnits
  /\ data' = SetTimestamps(ParseBitstream(chunk, Parsed), initial_timestamp)
  /\ given' = given \o chunk
  /\ UNCHANGED <<initial_timestamp, crashed, wire, retired, clears>>

(* append_to_sample_stream(..., has_sample_stream_headers = true).  On an   *)
(* empty stream push_back reads stream_.back(): the call may kill the       *)
(* process or, the value being unused then, go on.                          *)
AppendBitstream(chunk) ==
  /\ ~ crashed /\ data # NoData /\ Parsed + Len(chunk) <= MaxUnits
  /\ CutAppends \/ \A k \in DOMAIN data : DOMAIN data[k].units = Types
  /\ \/ /\ data = <<>> /\ crashed' = TRUE
        /\ UNCHANGED <<data, given>>
     \/ /\ LET s == PushStream(data, ParseBitstream(chunk, Parsed))
           IN data' = IF data = <<>> THEN SetTimestamps(s, initial_timestamp) ELSE s
        /\ given' = given \o chunk
        /\ UNCHANGED crashed
  /\ UNCHANGED <<initial_timestamp, wire, retired, clears>>

(* append_to_sample_stream of one V3C unit *)
AppendUnit(t) ==
  /\ ~ crashed /\ data # NoData /\ Parsed < MaxUnits
  /\ LET s == PushUnit(data, t, NewUnit(Parsed + 1)).stream
     IN data' = IF data = <<>> THEN SetTimestamps(s, initial_timestamp) ELSE s
  /\ given' = Append(given, t)
  /\ UNCHANGED <<initial_timestamp, crashed, wire, retired, clears>>

ClearKeepsInstant ==   \* mutant: the initial timestamp is not moved on
  /\ ~ crashed /\ data # NoData /\ clears < MaxClears
  /\ data' = NoData /\ retired' = retired + Len(data) /\ clears' = clears + 1
  /\ given' = <<>> /\ wire' = <<>>
  /\ UNCHANGED <<initial_timestamp, crashed>>

(* clear_sample_stream: the next data continue from the last timestamp *)
ClearSampleStream ==
  /\ ~ crashed /\ data # NoData /\ clears < MaxClears
  /\ initial_timestamp' = IF data # <<>> THEN NextInstant(BackTs(data)) ELSE initial_timestamp
  /\ data' = NoData /\ retired' = retired + Len(data) /\ clears' = clears + 1
  /\ given' = <<>> /\ wire' = <<>>
  /\ UNCHANGED crashed

-----------------------------------------------------------------------------
(* V3C_Sender *)

(* The frames of a unit: one per NALU; of a GoF: units that have a stream *)
UnitFrames(t, u) == [i \in DOMAIN u.nalus |-> [type |-> t, id |-> u.nalus[i].id, ts |-> u.nalus[i].ts]]
GofFrames(g) ==
  LET frames[t \in 0..NumTypes] ==
        IF t = 0 THEN <<>>
        ELSE frames[t - 1] \o (IF t - 1 \in DOMAIN g.units \cap StreamTypes
                                  THEN UnitFrames(t - 1, g.units[t - 1]) ELSE <<>>)
  IN frames[NumTypes]

StreamFramesByType(s) ==   \* mutant: one media stream after the other
  FlattenSeq([n \in 1..NumTypes |->
    SelectSeq(FlattenSeq([k \in DOMAIN s |-> GofFrames(s[k])]), LAMBDA f : f.type = n - 1)])

StreamFrames(s) ==
  LET frames[k \in 0..Len(s)] == IF k = 0 THEN <<>> ELSE frames[k - 1] \o GofFrames(s[k])
  IN frames[Len(s)]

(* push_frame fails at any frame: the call throws, what was sent is sent.   *)
Sent(frames) == \E n \in 0..Len(frames) : wire' = SubSeq(frames, 1, n)

(* send_bitstream; the GoFs of a sender's stream are stamped already, so    *)
(* its own timestamps for unset ones are never used.                        *)
SendBitstream ==
  /\ ~ crashed /\ data # NoData
  /\ Sent(StreamFrames(data))
  /\ UNCHANGED <<data, initial_timestamp, crashed, given, retired, clears>>

SendGof(k) ==
  /\ ~ crashed /\ data # NoData /\ k \in DOMAIN data
  /\ Sent(GofFrames(data[k]))
  /\ UNCHANGED <<data, initial_timestamp, crashed, given, retired, clears>>

(* send_unit throws when the GoF has no such unit or no stream carries it *)
SendUnit(k, t) ==
  /\ ~ crashed /\ data # NoData /\ k \in DOMAIN data
  /\ t \in DOMAIN data[k].units \cap StreamTypes
  /\ Sent(UnitFrames(t, data[k].units[t]))
  /\ UNCHANGED <<data, initial_timestamp, crashed, given, retired, clears>>

Stopped == crashed /\ UNCHANGED vars

Next ==
  \/ InitEmpty
  \/ \E c \in InitChunks : InitBitstream(c)
  \/ \E c \in AppendChunks : AppendBitstream(c)
  \/ \E t \in AppendTypes : AppendUnit(t)
  \/ ClearSampleStream
  \/ SendBitstream
  \/ \E k \in 1..MaxUnits : SendGof(k) \/ \E t \in Types : SendUnit(k, t)
  \/ Stopped

Spec == Init /\ [][Next]_vars

-----------------------------------------------------------------------------
(* Properties *)

Held == IF data = NoData THEN <<>> ELSE data

(* v3c_api.h promises continuous timestamps when data are sent in parts:    *)
(* over all parts, appended or sent after a clear, the k-th GoF is exactly  *)
(* k - 1 frame durations after the initial instant, across the wrap-around. *)
TimestampsContinue ==
  \A k \in DOMAIN Held :
    Held[k].ts = (InitialInstant + (retired + k - 1) * FrameDuration) % Wrap

(* A timestamp given to a GoF reaches all its units and NALUs.              *)
StampedThroughout ==
  \A k \in DOMAIN Held : \A t \in DOMAIN Held[k].units :
    LET u == Held[k].units[t]
    IN u.ts = Held[k].ts /\ \A i \in DOMAIN u.nalus : u.nalus[i].ts = Held[k].ts

(* In whatever order the units of the types are appended, the k-th unit of  *)
(* each type is in the k-th GoF: units sampled together stay together, none *)
(* is lost or filed twice.                                                  *)
Rank(i) == Cardinality({j \in 1..i : given[j] = given[i]})
Aligned ==
  /\ \A i \in DOMAIN given : Rank(i) \in DOMAIN Held /\ given[i] \in DOMAIN Held[Rank(i)].units
  /\ \A k \in DOMAIN Held : \A t \in DOMAIN Held[k].units :
       LET id == Held[k].units[t].nalus[1].id
       IN id \in DOMAIN given /\ given[id] = t /\ Rank(id) = k

(* The recorded sizes, from which a buffer is allocated, are the sizes that *)
(* write_bitstream will write.                                              *)
SizesCurrent ==
  \A k \in DOMAIN Held :
    Held[k].sizes = [t \in DOMAIN Held[k].units |-> UnitSize(Held[k].units[t])]

(* What a send call hands to the RTP stack, even one that fails half-way,   *)
(* is a run of whole instants: frames of one instant are contiguous and     *)
(* each instant follows the previous by one frame duration.                 *)
WireInOrder ==
  \A i \in 1..(Len(wire) - 1) :
    /\ IsSet(wire[i].ts)
    /\ wire[i + 1].ts \in {wire[i].ts, NextInstant(wire[i].ts)}
    /\ wire[i + 1].ts = wire[i].ts => wire[i + 1].type > wire[i].type
=============================================================================
