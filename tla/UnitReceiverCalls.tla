-------------------------- MODULE UnitReceiverCalls -------------------------
(***************************************************************************)
(* UnitReceiver implements UnitCalls.  A call takes effect when it ends:   *)
(* until then the frames it has pulled are still queued and the buffer is  *)
(* the one it found, which two history variables remember.                 *)
(***************************************************************************)
EXTENDS UnitReceiver

VARIABLES
  found,   \* history: receive_buffer_.at(type) when the running call began
  pulled   \* history: frames the running call has pulled

histVars == <<vars, found, pulled>>

Remember ==
  /\ found' = IF pc' = "idle" THEN receive_buffer' ELSE found
  /\ pulled' = IF pc' = "idle" THEN <<>>
               ELSE IF pulls' > pulls THEN Append(pulled, Head(socket)) ELSE pulled

InitH == Init /\ found = <<>> /\ pulled = <<>>

StepH == Step /\ Remember

NextH ==
  \/ \E ts \in Timestamps : Arrive(ts) /\ Remember
  \/ \E n \in ExpectedSizes : Call(n) /\ Remember
  \/ StepH
  \/ ClearReceiveBuffer /\ Remember

FairSpecH == InitH /\ [][NextH]_histVars /\ WF_histVars(StepH)

Calls == INSTANCE UnitCalls WITH socket <- pulled \o socket, buffer <- found

(* Whatever arrives between its steps, a call hands over the unit, and      *)
(* leaves the queues, that it would have if it had run in one step on what  *)
(* was there when it ended: receive_gof and receive_bitstream may treat     *)
(* receive_v3c_unit as atomic, and a TimeoutException changes nothing.      *)
CallsAtomic == Calls!Spec
=============================================================================
