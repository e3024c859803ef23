----------------------------- MODULE UnitCalls ------------------------------
(***************************************************************************)
(* What V3C_Receiver::receive_v3c_unit promises its callers: a call is one *)
(* step.  Frames join the queue of the RTP stack; a call takes from the    *)
(* receive buffer and that queue what Assemble says and hands over one     *)
(* unit, or throws TimeoutException and changes nothing.  receive_gof and  *)
(* receive_bitstream (StreamReceiver) are built on this specification;     *)
(* UnitReceiver, where frames arrive between the steps of a call, is shown *)
(* to implement it.                                                        *)
(***************************************************************************)
EXTENDS UnitAssembly, SequencesExt

CONSTANTS
  Timestamps,     \* RTP timestamps of the frames
  ExpectedSizes   \* values of expected_size the application passes

VARIABLES
  type,       \* the unit type the stream carries
  socket,     \* frames queued in the RTP stack and not yet in a unit or buffer
  buffer,     \* receive_buffer_.at(type) between calls
  delivered   \* history: units handed over

unitVars == <<type, socket, buffer, delivered>>

Init == socket = <<>> /\ buffer = <<>> /\ delivered = <<>>

Arrive ==
  /\ socket' # <<>> /\ socket' = Append(socket, Last(socket'))
  /\ Last(socket').ts \in Timestamps
  /\ UNCHANGED <<type, buffer, delivered>>

Call(n) ==
  LET r == Assemble(type, n, buffer, socket)
  IN /\ ~ r.timeout
     /\ socket' = r.socket /\ buffer' = r.buffer
     /\ delivered' = Append(delivered, [ts |-> r.unit.ts, nalus |-> r.unit.nalus, cut |-> r.cut])
     /\ UNCHANGED type

ClearReceiveBuffer == buffer' = <<>> /\ UNCHANGED <<type, socket, delivered>>

Next == Arrive \/ (\E n \in ExpectedSizes : Call(n)) \/ ClearReceiveBuffer

Spec == Init /\ [][Next]_unitVars
=============================================================================
