# A TLA+ model of uvgV3CRTP

uvgV3CRTP carries V3C (visual volumetric video) bitstreams over RTP. A sender
splits a bitstream into NAL units (NALUs) and pushes each as a frame of one RTP
stream per V3C unit type; a receiver pulls frames, groups NALUs with the same RTP
timestamp into V3C units, units into GoFs (groups of frames, one unit per type,
one sampling instant), and GoFs into a sample stream. The RTP stack itself
(uvgRTP) is a library outside the repository and is modelled from how `src/src`
uses it.

This directory holds TLA+ modules for the parts of the library where order,
failure and stale state matter, TLC configurations that check them on small
instances, and TLAPS proofs of the results that hold for every instance.

## The system

| Part | State | Operations | Hard because |
|---|---|---|---|
| `Timestamp` | value, set flag | set, unset, get | an unset timestamp reads as 0 |
| `Nalu`, `V3C_Unit` | payload, header, timestamp | `push_back`, codecs | the first NALU decides the unit's timestamp; the rest must agree |
| `V3C_Gof` | units by type, timestamp | `set`, `set_timestamp` | a second unit of a type is discarded silently |
| `Sample_Stream` | vector of (size map, GoF) | four `push_back`s, `find_timestamp`, `find_free_gof`, sizes, writing | sizes are cached; lookups assume a sorted, possibly wrapped clock; throws after changing |
| `V3C_Sender` | media streams, initial timestamp | `send_bitstream`, `send_gof`, `send_v3c_unit` | instants must continue over data sent in parts; a push may fail half-way |
| `V3C_Receiver` | media streams, one receive buffer per type | `receive_v3c_unit`, `receive_gof`, `receive_bitstream`, `push_buffer_to_sample_stream` | frames are lost, late and reordered; timeouts; NALUs kept for later calls |
| `V3C_State<T>` (API) | connection, data, current-GoF iterator, error flag | load, append, clear, navigate, send, receive | every exception becomes a sticky flag; the iterator points into a vector that grows |
| `V3C` base | stream map, parameters | parsing, size fields, port overlap, SSRC, out-of-band info | hand-packed bits, truncation, agreement between the two ends |
| examples, build | - | client programs | - |

The application calls the API from one thread. uvgRTP receives in threads of its
own and queues frames, so what is concurrent with a call is the arrival of
frames. A receive call goes `receive_bitstream -> receive_gof ->
receive_v3c_unit` per type; each unit is pushed to a GoF, each GoF to the sample
stream, and what the receive buffers hold is then tried against the stream.
Correctness means: no unit mixes instants, no NALU is lost, duplicated or filed
in the wrong GoF, calls end, instants are consecutive, the API's iterator and
results can be trusted.

## Modules

Receiving, from the frame to the API:

**UnitReceiver** - `V3C_Receiver::receive_v3c_unit` for one type, its receive
buffer and the RTP queue in front of it. `Arrive` is the network and uvgRTP
(external): any frame at any moment, or, when `Ordered`, lost but never reordered
frames. A call starts with `Call` (the locals), then takes one step per NALU:
`AcceptBuffered`/`RejectBuffered` from the buffer, then
`AcceptPulled`/`RejectPulled` from the RTP stack, `PullVPS` for the unit without
NALU framing; it ends in `Finish`, in `Reject` (automatic size) or in `Timeout`,
with a partial unit or a TimeoutException. `Fits` and `PushBack` are
`V3C_Unit::push_back` for stamped NALUs; `PushToReceiveBuffer` keeps the code's
limit test, which looks at the number of queues. `ClearReceiveBuffer` is the
public call. The variables `arrivals`, `pulls`, `delivered` and `dropped` are
history.

**UnitAssembly, UnitCalls** - what such a call promises: `Assemble` computes, from
the buffered and queued NALUs and the expected size, the unit and the queues it
leaves (`Passes` is the function of the loop's locals after each pass, `LastPass`
its last value); UnitCalls is the specification in which a call is that one step.
**UnitReceiverCalls** maps UnitReceiver to it: a call takes effect when it ends,
and until then the frames it has pulled (`pulled`) still count as queued and the
buffer is the one it found (`found`).

**StreamReceiver** - a receiving handle over several types: `ReceiveGof`,
`ReceiveUnit`, and `receive_bitstream` in one step per GoF (`BeginBitstream`,
`BitstreamGof`, `BitstreamDone`), between which frames arrive. It is built on
`Assemble`, which the refinement above justifies. A GoF collects the units of the
types in their order (`AddReceived`), is pushed to the stream (`PushGof`), and the
receive buffers are then tried against the stream NALU by NALU (`OfferAll`,
`PushNalu`); these loops are recursive functions. Outcomes name how far a call came: `timeout`, `mixed` (units of
several instants), `gap` (filed, then an exception), `filed`, `thrown` (a buffered
NALU whose GoF has no unit of its type). `Verdict` is the error the API call
reports. `Lose` and `Overtake` are the network's faults.

**UnitReceiverProofs** - theorems about UnitReceiver: the loop, where NALUs are, and
the order in which they are returned. It also has the refinement, which rests on what
`Assemble` computes, in **UnitAssemblyProofs**. **StreamReceiverProofs** and
**StreamOrderProofs** - theorems about StreamReceiver (all below).

Containers and sending:

**SampleStream** - pure operators for the containers: stamping, the acceptance
rules of `V3C_Gof::set` and `V3C_Unit::push_back`, `find_timestamp`,
`find_free_gof`, and the `push_back` overloads for a NALU, a unit, a GoF and, in
SenderStream, a stream. An index is one more than in C++ and "not found" is
`Len + 1`. A result carries `ok = FALSE` or an outcome for an exception thrown
after the change.

**SenderStream** - the sample stream of a sending handle: `InitEmpty`,
`InitBitstream`, `AppendBitstream`, `AppendUnit`, `ClearSampleStream`, and the
sends, each of which may stop after any frame because `push_frame` failed. A
bitstream is the sequence of its units' types. `given` is the sequence of the types
of all units parsed since the last clear; a unit is one NALU, whose number is its
place there. `retired` says how many GoFs were cleared before. The loops over
parsed units, over the types of a GoF and over GoFs are recursive functions.

**SampleStreamProofs, SenderStreamProofs** - what the lookups find, and theorems about
SenderStream (below).

The API:

**V3CState** - the handle itself: `state` holds the fields of `V3C_State`, `call`
the result of the last call and the error it raised itself. All calls that load,
append, clear, navigate, read, describe, send or receive are actions; exceptions
of lower layers are outcomes. Adding a GoF marks the iterator stale, as
`std::vector::emplace_back` does. Calls with undefined behaviour (a null
connection, `++` on `end()`, `back()` of an empty vector) end the behaviour with
`undefined`; `Risks` says which of them the client makes.

**V3CStateProofs** - theorems about V3CState (below).

**Recursion** - induction over the naturals for a set given as such, and the loops
that the proofs need: what every round keeps holds after all rounds (`Rounds`,
`Stays`), and a recursive function of a loop exists (`LoopExists`).

Formats:

**ByteCodec** - size fields and their precision; a byte has `ByteBits` bits.
**UnitHeader** - the headers of units and NALUs, bit by bit. **Base64** - the two
directions, group by group. **BitstreamFormat** - a stream as bytes:
`get_bitstream` of streams, GoFs and units with the sizes their maps record, and
`parse_bitstream`. **Connection** - which streams an end opens, on which port, and
with which SSRC. **OutOfBand** - the session information: a text is a sequence of
named values and marks; `Read` follows the parser field by field, its search from
the start included. **Formats** - a behaviour takes one sample of these, and the
invariants say what writing and reading make of it. OutOfBand was compared
with what the compiled V3C.cpp writes and parses.

**MCUnitReceiver, MCUnitReceiverCalls, MCStreamReceiver, MCSenderStream,
MCFormats** - sets used by the configurations.

Mutated definitions ("mutant" in their comment) sit next to what they mutate and
are used by no specification. They show that a property would notice the bug.

## Runs

Passing:

| Run | Checks | Bounds |
|---|---|---|
| `unit_any` | `TypeOK`, `UnitsUniform`, `NothingLost`, `NothingTwice`, `PullBound`, `CallsAtomic`, `TimeoutOnlyEmptyHanded`, `CallsReturn` | 5 frames of 2 instants in any order, 3 calls, sizes 0, 1, 2, automatic |
| `unit_ordered` | `InOrder`, `WholeUnits`, `AutoKeepsOne` | 7 of 9 frames, 3 instants of 3 frames, 4 calls, all of size 3 or all automatic |
| `receiver` | `TypeOK`, `FiledByInstant`, `NothingTwice`, `DiscardsExplained`, `Faithful`, `OkMeansContiguous`, `TypesInOrder`, `LookupFinds`, `BitstreamReturns` | 3 types, 3 GoFs of up to 4 frames, 3 calls, one frame lost or overtaken, a clock of 8 instants |
| `sender` | `TimestampsContinue`, `StampedThroughout`, `Aligned`, `SizesCurrent`, `WireInOrder` | 2 types, 6 units between clears, 1 clear, a clock of 14 ticks from tick 10 on |
| `state` | `TypeOK`, `ItSound`, `NavigationHonest`, `ErrorsFlagged`, `FlagSticky`, `PositionKept` | 3 GoFs, both roles, with and without connection |
| `formats` | `SizeFieldExact`, `HeadersSurvive`, `PayloadSurvives`, `UnitsSurvive`, `GofsSurvive`, `GrownThrows`, `RoutedHome`, `InfoSurvives`, `UnitInfoSurvives` | sizes around every power of the base, header fields at their ends, payloads of 1 to 4 bytes, streams of 1 to 3 GoFs, 4 types on 3 ports |

Why the bounds suffice. In `unit_any` five frames of two instants fill a unit,
reject two NALUs in a row, rotate the buffer and leave some for the next call, and
three calls see a buffer that two earlier ones filled; with a third instant the
same branches are taken again, since a unit only distinguishes its own timestamp
from others. The ordered run needs three instants: a lost NALU makes the second
unit start in the buffer, and its effect must reach the third. In `receiver` one
fault is enough to split a unit, to leave a NALU for a later call, to open a gap
or to mix the instants of a GoF; three GoFs have a first, a middle and a last for
the lookup; the clock advances by 2 of 8, so instants 6, 0, 2 wrap and pass zero;
the expected sizes are the exact ones, the automatic ones after a surplus of VPSs,
and a VPS counted down to zero; `receive_bitstream` asks for one GoF more than is
sent. In `sender` the clock starts at 10 of 14, so that the third GoF wraps; six
units are up to six GoFs, which is shorter than the clock, as a stream is. In `state`
three GoFs have a first, a middle, a last and an end. `formats` uses bytes of
three bits for sizes and payloads, so that every precision from 1 to 8 and every
boundary between them is reached by small numbers; headers have bytes of eight
bits, every field takes its ends and single bits on both sides of a byte boundary.
`receiver_sizes` asks for the numbers of NALUs the first GoF has, so that its trace
needs no empty unit: only the NALU that comes late.

Violations: each checks one statement of a doc or comment that the code does not
keep, listed with quotations under "findings" in `PROJECT.json`.

| Run | Statement | What happens |
|---|---|---|
| `unit_buffer_limit` | global.h: the receiver stores at most RECEIVE_BUFFER_SIZE frames | the limit is compared with the number of queues |
| `receiver_sizes` | Sample_Stream.cpp:499: a GoF is written in the size its map records | an AD unit cut short by a timeout is joined by the NALU it lacked, which arrives after the next GoF's; the recorded size stays |
| `state_returns` | v3c_api.h: OK on success, error otherwise | a failed append returns OK |
| `state_next_gof` | v3c_api.h: EOS at the end of the stream | the end iterator is incremented |
| `state_timeout` | v3c_api.h: a short bitstream sets the timeout error | the exception is swallowed |
| `session_documented` | v3c_api.h: LOGGING is supported for parsing | the first field loses its first digit |

Met while modelling, without a run of their own. Hazards in `PROJECT.json` that name
no property, with the reason beside them, are mostly among these: effects of the code
that a property could only restate.

In the unit receiver and the API: a buffered NALU that is the last unprocessed one
is counted although the comment above the test says buffered ones are not
(V3C_Receiver.cpp:256); `error_` is returned by a call that succeeds after an
earlier error, the info calls included; the PARSE error of `init_sample_stream` is
overwritten by DATA; `gof_at` with an index out of range deletes the iterator
that the documentation says is kept (v3c_api.cpp:324); a receiver whose iterator
could not be renewed restarts at its first GoF; a handle whose connection failed
calls members of a null pointer; a bitstream appended to an empty stream reads
`back()` of an empty vector (Sample_Stream.cpp:166); a bitstream cut inside a GoF
and appended in two parts gets a new instant for the second (set `CutAppends`).

In the stream receiver: the VPS count passes below zero, so that every later GoF
waits its full timeout for a VPS (V3C_Receiver.cpp:47, against the comment at
line 44); an expected VPS count of zero makes an empty VPS unit, which opens a
GoF without timestamp that is neither checked nor kept from being stamped anew
(`Padded`); a late NALU whose instant has two GoFs is offered to the first of them
and is lost with an `out_of_range` when that one lacks the type; the rest of a unit
split by a timeout is dropped by `receive_unit` with OK; an automatic size leaves a
NALU in the buffer, so that a faultless stream is reported as TIMESTAMP;
`clear_sample_stream` keeps the receive buffers; calls that mix automatic and fixed
sizes may deliver units out of order.

In the formats: the upper bit of an attribute index is never written (`>> 7`), the
upper two bits of a partition index are read without their shift, a layer id of 32
or more is not read back, video units with a NALU precision other than 4 cannot be
parsed, GoF boundaries are lost when a GoF lacks a type that a later one has, and
`get_bitstream` of a GoF or unit checks its size after it has written. Base 64 of
nothing is decoded from before the buffer. Two ends that share ports but are set up
for different types disagree on SSRCs. In the session information: in a
format with names a text that lacks an expected type throws; one with a type that
is not expected is read without an error, with numbers behind that type lost; in
RAW, which has no names, either shifts the fields and no read fails audibly, so that
`InfoSurvives` claims RAW only for the types of the stream; the NONE format cannot be parsed; headers written in
LOGGING and BASE64 together do not parse; a single unit's BASE64 header parses only
for a VPS; a GoF with a type that the first one lacks makes
`get_bitstream_info_string` throw, and one that lacks a type is not flagged as
variable; the flags of variable streams are never written.

## Fairness

`CallsReturn` needs `WF_histVars(StepH)`, the next step of a running call: the
thread inside a call keeps running, and `pull_frame` is always given a finite
timeout, so with an empty queue the call goes on to `Timeout`. `BitstreamReturns`
needs the same of `BitstreamStep`, spelled out as "if the call runs for ever,
steps are taken for ever"; such a step is possible whenever the call is running.
Nothing is assumed of the network, which may stop or deliver for ever, nor of
the application, which may make no further call. The other properties are safety
properties.

## Proofs

`UnitReceiverProofs` proves, for every set of timestamps, every expected size,
every number of calls and frames, and either kind of network:

- `TypeCorrect`: `Spec => []TypeOK`. The one conjunct that is not a type is that
  `buffer_unprocessed_count` is at most the length of the buffer; it makes
  `front()` and `pop()` defined. It is inductive because taking a buffered NALU
  decrements the count before a rejected NALU is appended again.
- `LoopInvariant`: `Spec => []IInv`, the inductive invariant of the other three:
  - `UnitsUniform`;
  - `UnsetIsEmpty`: a unit without timestamp has no NALU, so the first NALU may set it;
  - `PullsPaid`: the pulls of a call are at most twice `size_received`, plus one
    when `timestamp_mismatch` is set. Neither `PullBound` alone nor a bound by
    `size_received` is inductive: a first mismatch pulls without counting, and
    the flag is what remembers it;
  - `NothingTaken`: with nothing received the unit is still empty;
  - `NoBufferForVPS`: the branch for VPS has no unprocessed buffer.
- `UniformUnits`: `Spec => []UnitsUniform`.
- `BoundedPulls`: `Spec => []PullBound`, the reason why the receive loop ends
  under an endless stream of foreign frames.
- `EmptyHandedTimeout`: `Spec => TimeoutOnlyEmptyHanded`, an action property.

They rest on the three named assumptions of UnitReceiver: timestamps are natural
numbers and an unset one is not among them; the expected sizes are at most
`SizeMax`; there are fewer queues than RECEIVE_BUFFER_SIZE (seven against a
thousand), which is also what makes `PushNeverDrops` true. TLC evaluates them in
every run of MCUnitReceiver and MCUnitReceiverCalls.

`V3CStateProofs` proves, for streams of every length, every set of roles,
connections and risks:

- `HandleInvariant`: `Spec => []IInv`, with `IInv` the conjunction of `TypeOK`,
  `ItSound` and `NavigationHonest`. The conjunction is inductive because `ItSound`
  also fixes the handle without data (null iterator, index 0) and bounds
  `cur_gof_ind_` by the length even while the iterator is invalid: an append
  repositions to that index. The helper lemmas (`AtGood`, `InitCurGofGood`,
  `AddGofsGood`, ...) say that each step inside a call leaves a `Good` handle;
  `AddGofsGood` needs the iterator to be marked invalid before the vector grows,
  the order that the code keeps on every path. `ReturnGood` lifts them to calls.
- `HandleTypes`, `IteratorSound`, `HonestMoves`: its three parts.
- `StickyFlag`: `Spec => FlagSticky`, an action property, by one lemma per group
  of calls on handles whose flag is set.
- `FailuresFlagged`: `Spec => []ErrorsFlagged`, and `KeepsPosition`:
  `Spec => PositionKept`, both from `IInv`: a call that adds GoFs renews the iterator
  at `cur_gof_ind_`, which `ItSound` bounds.

They rest on `StateAssumption`: the roles, connections and risks are the listed
ones, and the null data and the null iterator are no number and no iterator.

`UnitReceiverProofs` also proves where the NALUs are, for every network:

- `AllAccounted`: `Spec => []Accounted`. The RTP queue, the receive buffer, the
  unit in hand, the units delivered and the NALUs dropped by a clear are disjoint,
  no queue has a NALU twice, and together they are all that arrived. Neither half
  is inductive alone: that a NALU taken from a queue is new where it is put needs
  the disjointness, that none is lost needs `PushNeverDrops`.
- `NoneLost`: `Spec => []NothingLost`. `NoneTwice`: `Spec => []NothingTwice`.

On a network that keeps the order (`Ordered`, part of the properties) it proves, for
streams of every length:

- `AutoBuffer`: `Spec => []AutoKeepsOne`. `AutoInv` adds that during an automatic
  call the buffer is empty once a NALU was received.
- `ReturnedInOrder`: `Spec => []InOrder`. During a call the buffer is a rotation: its
  first `buffer_unprocessed_count` NALUs were not looked at, the others were
  rejected in this call and come before them. `OrderInv` states that
  (`RotatedOrder`), that what was rejected is of a later instant than the unit
  (`RejectedLater`), that a count is never reached in the middle of a rotation
  (`RotationEnds`: a rejected buffered NALU does not count unless it is the last),
  and that delivered, in hand, buffered and queued NALUs follow each other.
- `UnitsWhole`: `Spec => []WholeUnits`, the same with `WholeInv`: until a NALU is
  rejected `size_received` is the length of the unit, so that the size of an
  instant is not reached before its last NALU.

Their hypotheses say how an application calls: `OneSize` is part of the properties,
`0 \notin ExpectedSizes` excludes the size that asks for no NALU (it is passed only
for a VPS that has been counted down), and `UnitsWhole` needs sizes of at least the
NALUs of an instant: a smaller one splits the unit. The runs satisfy all of them.

`UnitReceiverProofs` also proves `CallsAreAtomic`: `FairSpecH => CallsAtomic`, the
refinement on which StreamReceiver is built. `CallInv` says that in every state of
a call its locals are `LastPass` of the NALUs handled so far (`LoopTracks`): the front
of the buffer it found and the frames it has pulled. `UnitAssemblyProofs` has the lemmas
about `Passes`: handling one more NALU is one more value, and NALUs behind the one that
ended the loop do not matter (`LastPassOver`).

`SenderStreamProofs` proves about a sending handle, for bitstreams of every length, up
to seven types and any clock:

- `AllStamped`: `Spec => []StampedThroughout`, and `SizesKept`: `Spec => []SizesCurrent`.
  `StreamInv` says that the stream is a sequence of stamped GoFs whose units have
  one NALU and a recorded size. A freshly parsed stream is unstamped, and the
  lemmas show that no operation mixes the two kinds.
- `InstantsContinue`: `Spec => []TimestampsContinue`, and `UnitsAligned`:
  `Spec => []Aligned`. `TableInv` says that the stream is a `Table`: GoFs at consecutive
  instants from `initial_timestamp` on, which continues after the GoFs cleared, with
  numbers of units that are `Filed`: the k-th unit of a type is in the k-th GoF. The
  lemmas reduce each container operation to one on the numbers alone: `push_back` of a
  unit files it behind the others of its type (`PushFiles`), a parsed bitstream is
  `Dense` (no GoF has a type that the one before lacks), which makes pushing its units
  again one by one rebuild its GoFs (`AddUntimed`), and a stream pushed to a stamped
  one is found GoF by GoF at the end (`LastFound`, `AddTimed`, `JoinTimed`).
- `SentInOrder`: `Spec => []WireInOrder`, from the same table.

Their hypotheses: `NoWrapAround`, the data that a handle holds at one time are shorter
than the clock (2^32 ticks of 90 kHz, more than a million GoFs at 25 per second);
otherwise `find_timestamp` would take an old GoF for the new one. Across clears the
clock may wrap any number of times. `UnitsAligned` needs `~ CutAppends`: a bitstream
cut inside a GoF is the deviation listed above. `SentInOrder` needs a media stream
for every type held, as INIT_FLAGS for all types gives; this is how the run is set up.
`SenderAssumption` and `ClockAssumption` type the constants.

`StreamReceiverProofs` proves about a receiving handle, for any types, frames, expected
sizes and clock, in whatever order calls are made and frames arrive or are lost:

- `ReceiverInvariant`: `Spec => []Inv`. The queues hold frames of their own stream, the
  buffer of the VPS is empty, the stream is a sequence of `GoodGofs`: a GoF of one
  instant (`Exact`), or one opened by an empty unit (`Padded`), which the VPS alone may
  be. That is inductive because `push_back` of a unit or NALU finds its GoF by
  timestamp, and `V3C_Gof::set` refuses units of another instant.
- `TypesKept`: `Spec => []TypeOK`, `ByInstant`: `Spec => []FiledByInstant`, and
  `OkContiguous`: `Spec => []OkMeansContiguous`. The last needs that a call moves no
  instant and adds at most one GoF (`Extends`): only then is the test of the last two
  GoFs enough (`Contiguity`).
- `PlacedOnce`: `Spec => []NothingTwice`, from `Inv` and `AllPlaced`. Each operation says
  where the NALUs it is given come to be (`Files` for a push to the stream, `Moves` for
  the receive buffers, `Taking` for the GoF received, `KeptApart` for a call), and these
  compose over the loops of `push_buffer_to_sample_stream` and `receive_gof`, whose
  locals satisfy `OfferState`, `PushState` and `GofState` after every round. What
  `Assemble` leaves in the queues is `AssembleKeeps` in UnitAssemblyProofs.
- `LossExplained`: `Spec => DiscardsExplained`, from `Inv` and `AllPlaced`. What a push
  pops from the buffer is filed or kept but for one NALU that threw (`PushesKept`); what
  leaves the queues is in the GoF until a unit is refused, which then has a frame of
  another timestamp (`FileUnitKept`, `Retains` in UnitAssemblyProofs); and the rest of a
  unit is discarded only where the GoF had a unit of its type (`UnitExplained`).

`ReceiverAssumption` types the constants and says of the application that it passes
an expected size of zero for the VPS alone, as a client does that has counted its VPSs
down; a stream set up for another type to receive nothing would open GoFs without
timestamp. The sizes of the run satisfy it.

`StreamOrderProofs` proves about the same handle what holds when the network does not
overtake frames of a type and few NALUs are asked for by number:

- `OrderKept`: `Spec => []TypesInOrder`. `OrderInv` follows each type through the places
  its NALUs can be in: buffer, queue and network, in this order, are one rising line
  with at most two NALUs in the buffer (`Lined`); what is filed rises over GoFs and
  units and is before the line (`FiledRising`); and a buffered NALU whose instant is
  already filed is alone in the buffer, with no later NALU of its type filed (`Tip`), so
  that pushing it to its old GoF shuffles nothing.
- `LookupFound`: `Spec => []LookupFinds`. `LookInv` adds that the ages of the GoFs (time
  since the first GoF sent, on the wrapping clock) rise along the stream and do not
  pass those still under way (`Aged`). Then `find_timestamp`'s range test holds for
  every GoF of the stream, and its search ends there.
- `StreamFaithful`: `Spec => []Faithful`. `WholeInv` says that there is a GoF `j` such
  that all frames from `j` on are what is still on its way, queued or buffered
  (`Remains`), and the stream is the GoFs right before `j`, complete (`Whole`). Every call
  moves `j` on by one or leaves everything as it was; a timeout finds no type to have
  arrived in part. `receive_bitstream` keeps it after every GoF.

Their hypotheses are parts of the properties, and came out of proof attempts that
failed for a good reason:

- `FewAsked`: at most two NALUs of a type are asked for by number, or the automatic
  size. A call for three or more can stop among three rejected NALUs, and
  `push_buffer_to_sample_stream` can refuse one NALU, put it behind the others and throw
  at the next (V3C_Receiver.cpp:131-139): either way they stay in another order than
  they came in. With two the rotation is complete or has not begun.
- `AllAsked`: no GoF has more NALUs of a type than are asked for. The rest of one that
  has is filed later or not at all.
- `NoneReturns`: a type that is missing from a GoF stays missing. `receive_gof` asks every
  type and does not know which are missing; it takes the next unit of such a type for one
  of this GoF, `V3C_Gof::set` throws, and the GoF is lost although no frame was.

`SentAssumption` says of the sender that it sends GoFs in sampling order, each type GoF
by GoF, and within one turn of the clock (2^32 ticks of 90 kHz, some 13 hours);
the instances of the runs satisfy it, with instants that pass the wrap.

Inductions over loops are proved with `SetInduction` (a set of naturals that has 0 and
the successor of each member is Nat), which `Recursion` derives from the fact that a
finite set cannot be mapped one-to-one onto more than itself.

Only model-checked:

- liveness, `CallsReturn` and `BitstreamReturns`, which is outside what the prover
  does;
- the formats: BitstreamFormat and OutOfBand parse with RECURSIVE operators, whose
  results for every input would need an induction that the provers cannot
  instantiate.

## Abstractions and what is left out

- A NALU is a number and a timestamp where it is received or sent, and bytes where
  it is written; sizes count NALUs, as every API call asks
  (`expected_size_as_num_nalus = true`).
- Assembling a unit is one step of StreamReceiver, and so is a GoF, because the
  types share no queue: a frame that arrives between two units arrives before the
  GoF or after it. A timeout is an empty queue at that moment.
- The clock has 8 or 14 ticks and advances by 2; timestamps are compared and counted
  up modulo the wrap, as `uint32_t` does. `SizeMax` stands for `(size_t)-1`.
- A stack that gives frames no timestamp is not modelled: a sending handle stamps
  all its data.
- A receive hook bypasses `pull_frame`; with one installed the receiver is not used.
- The text of the session information is a sequence of fields: white space, number
  formats and warning lines are left out, and so are raw payload values, which the
  parser cuts at white space.
- Parsing is modelled for input as long as its size fields say; a truncated one
  reads past its buffer.

Not modelled: the example programs and the build files; the creation of the uvgRTP
session, its stream flags and RTCP; the pacing of sent frames; the parameter-set
ids that `receive_bitstream` writes into headers; error messages and printed
summaries; the lists of NALU pointers handed to clients.

## Plan

1. Proofs: facts about the size fields of ByteCodec (what fits is read back).
2. **Transport**: a sender, a lossy network and a receiver composed from
   SenderStream and StreamReceiver, with the abstract specification that the
   received GoFs are a subsequence of the sent ones; today `Faithful` states it
   for fixed frames.
3. A receiver that clears and reconnects while frames are under way.
