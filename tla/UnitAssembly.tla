---------------------------- MODULE UnitAssembly ----------------------------
(***************************************************************************)
(* What one call of V3C_Receiver::receive_v3c_unit makes of the NALUs it   *)
(* finds, as a function: the buffered NALUs of the type, then the frames   *)
(* queued in the RTP stack, are offered to the new unit one after another. *)
(*                                                                         *)
(* A frame that arrives while the call runs counts as queued before: the   *)
(* queue is first in, first out, and the call times out only when it is    *)
(* empty.  The receive buffer never overflows (UnitReceiver shows why).    *)
(***************************************************************************)
EXTENDS Naturals, Sequences

CONSTANTS
  Unset,    \* a Timestamp whose timestamp_set_ is false
  SizeMax,  \* static_cast<size_t>(-1): "until the timestamp changes"
  VPS       \* V3C_VPS, the type without NALU framing

EmptyUnit == [ts |-> Unset, nalus |-> <<>>]

(* The locals of a call.  "taken" counts the NALUs handled, "kept" are      *)
(* those pushed to the receive buffer, "stopped" is the break that ends an  *)
(* automatic size.                                                          *)
NewCall == [unit |-> EmptyUnit, received |-> 0, mismatch |-> FALSE,
            taken |-> 0, kept |-> <<>>, stopped |-> FALSE]

AcceptNalu(c, nalu) ==
  [c EXCEPT !.unit = [ts |-> nalu.ts, nalus |-> Append(c.unit.nalus, nalu)],
            !.received = @ + 1, !.mismatch = FALSE, !.taken = @ + 1]

(* "buffered" NALUs were in the buffer when the call began; a second        *)
(* mismatch in a row counts as received once none of them is left.          *)
RejectNalu(c, n, buffered, nalu) ==
  LET stop == n = SizeMax /\ c.received > 0
      counts == ~ stop /\ c.mismatch /\ c.taken + 1 >= buffered
  IN [c EXCEPT !.kept = Append(@, nalu), !.taken = @ + 1, !.stopped = stop,
               !.received = IF counts THEN @ + 1 ELSE @, !.mismatch = TRUE]

(* One pass of the receive loop, if the loop still runs *)
TakeNalu(c, n, buffered, nalu) ==
  IF c.stopped \/ c.received >= n THEN c
  ELSE IF c.unit.ts \in {Unset, nalu.ts} THEN AcceptNalu(c, nalu)
  ELSE RejectNalu(c, n, buffered, nalu)

(* The locals after each pass, and after the last *)
Passes(n, buffered, nalus) ==
  LET call[k \in 0..Len(nalus)] ==
        IF k = 0 THEN NewCall ELSE TakeNalu(call[k - 1], n, buffered, nalus[k])
  IN call
LastPass(n, buffered, nalus) == Passes(n, buffered, nalus)[Len(nalus)]

Drop(s, k) == SubSeq(s, k + 1, Len(s))

(* A call that asks for n NALUs.  "timeout" is the TimeoutException, which  *)
(* leaves the rest of the result meaningless and both queues unchanged;     *)
(* "cut" is a unit ended by a timeout.                                      *)
AssembleNalus(n, buffer, socket) ==
  LET c == LastPass(n, Len(buffer), buffer \o socket)
  IN [unit    |-> c.unit,
      buffer  |-> Drop(buffer, c.taken) \o c.kept,
      socket  |-> IF c.taken < Len(buffer) THEN socket ELSE Drop(socket, c.taken - Len(buffer)),
      timeout |-> c.received = 0 /\ n > 0,
      cut     |-> c.received < n /\ ~ c.stopped]

(* The VPS is one frame, taken past the receive buffer *)
AssembleVPS(buffer, socket) ==
  IF socket = <<>>
    THEN [unit |-> EmptyUnit, buffer |-> buffer, socket |-> socket, timeout |-> TRUE, cut |-> TRUE]
    ELSE [unit |-> [ts |-> Head(socket).ts, nalus |-> <<Head(socket)>>],
          buffer |-> buffer, socket |-> Tail(socket), timeout |-> FALSE, cut |-> FALSE]

Assemble(type, n, buffer, socket) ==
  IF type = VPS /\ n > 0 THEN AssembleVPS(buffer, socket) ELSE AssembleNalus(n, buffer, socket)
=============================================================================
