------------------------- MODULE UnitReceiverProofs -------------------------
(***************************************************************************)
(* Theorems about receive_v3c_unit for every set of timestamps, every      *)
(* sequence of calls and every network: types, uniform units and the bound *)
(* on the frames one call pulls; no NALU is lost and none is copied; on a  *)
(* network that keeps the order of frames, the order of what is returned;  *)
(* last, that UnitReceiver implements UnitCalls.                           *)
(***************************************************************************)
EXTENDS UnitReceiverCalls, SequenceTheorems, FiniteSetTheorems, TLAPS

(* The empty unit is a unit, and push_back makes a unit of a unit.          *)
LEMMA EmptyUnitType == EmptyUnit \in UnitOfNalus
BY DEF EmptyUnit, UnitOfNalus

(* V3C_Unit::push_back leaves a unit.                                       *)
LEMMA PushBackType ==
  ASSUME new_unit \in UnitOfNalus, NEW nalu \in Nalu, PushBack(nalu)
  PROVE  new_unit' \in UnitOfNalus
BY DEF UnitOfNalus, Nalu, PushBack

(* Handing over a unit appends a unit to those delivered.                   *)
LEMMA ReturnType ==
  ASSUME new_unit' \in UnitOfNalus, delivered \in Seq(ReturnedUnit),
         NEW cut \in BOOLEAN, Return(cut)
  PROVE  pc' = "idle" /\ delivered' \in Seq(ReturnedUnit)
BY DEF UnitOfNalus, ReturnedUnit, Return

(* The front of a non-empty queue is an element, its tail a shorter queue.  *)
LEMMA HeadTail ==
  ASSUME NEW S, NEW q \in Seq(S), q # <<>>
  PROVE  Head(q) \in S /\ Tail(q) \in Seq(S) /\ Len(Tail(q)) = Len(q) - 1
OBVIOUS

(* A queue with one element more.                                           *)
LEMMA AppendType ==
  ASSUME NEW S, NEW q \in Seq(S), NEW e \in S
  PROVE  Append(q, e) \in Seq(S) /\ Len(Append(q, e)) = Len(q) + 1
OBVIOUS

(* The receive buffer is far larger than the number of streams, so          *)
(* push_to_receive_buffer never drops a NALU.                               *)
LEMMA PushNeverDrops ==
  ASSUME NEW rest, NEW nalu, PushToReceiveBuffer(rest, nalu)
  PROVE  receive_buffer' = Append(rest, nalu) /\ dropped' = dropped
BY BufferAssumption DEF PushToReceiveBuffer

(* Accepting or rejecting a NALU, whichever queue it came from.             *)
LEMMA AcceptType ==
  ASSUME TypeOK, NEW nalu \in Nalu, NEW rest \in Seq(Nalu), Accept(nalu, rest)
  PROVE  /\ receive_buffer' = rest /\ new_unit' \in UnitOfNalus
         /\ size_received' \in Nat /\ timestamp_mismatch' \in BOOLEAN
         /\ UNCHANGED <<pc, delivered, dropped>>
<1>1. new_unit' \in UnitOfNalus
  BY PushBackType DEF Accept, TypeOK
<1>2. size_received' \in Nat
  BY DEF Accept, TypeOK
<1>3. timestamp_mismatch' \in BOOLEAN
  BY DEF Accept
<1> QED
  BY <1>1, <1>2, <1>3 DEF Accept

(* A rejected NALU leaves typed locals and one NALU more in the buffer.     *)
LEMMA RejectType ==
  ASSUME TypeOK, NEW nalu \in Nalu, NEW rest \in Seq(Nalu), Reject(nalu, rest)
  PROVE  /\ receive_buffer' \in Seq(Nalu) /\ Len(receive_buffer') = Len(rest) + 1
         /\ new_unit' \in UnitOfNalus /\ new_unit' = new_unit
         /\ size_received' \in Nat /\ timestamp_mismatch' \in BOOLEAN
         /\ pc' \in {"idle", pc} /\ delivered' \in Seq(ReturnedUnit)
         /\ UNCHANGED dropped
<1>1. receive_buffer' = Append(rest, nalu) /\ dropped' = dropped
  BY PushNeverDrops DEF Reject
<1>2. new_unit' = new_unit /\ new_unit' \in UnitOfNalus
  BY DEF Reject, TypeOK
<1>3. CASE expected_size = SizeMax /\ size_received > 0
  <2>1. Return(FALSE) /\ UNCHANGED <<size_received, timestamp_mismatch>>
    BY <1>3 DEF Reject
  <2> QED
    BY <1>1, <1>2, <2>1, AppendType, ReturnType DEF TypeOK
<1>4. CASE ~ (expected_size = SizeMax /\ size_received > 0)
  <2>1. UNCHANGED <<pc, delivered>>
    BY <1>4 DEF Reject
  <2>2. size_received' \in {size_received, size_received + 1}
    BY <1>4 DEF Reject
  <2>3. timestamp_mismatch' \in {TRUE, timestamp_mismatch}
    BY <1>4 DEF Reject
  <2>4. timestamp_mismatch' \in BOOLEAN
    BY <2>3 DEF TypeOK
  <2>5. size_received' \in Nat
    BY <2>2 DEF TypeOK
  <2> QED
    BY <1>1, <1>2, <2>1, <2>4, <2>5, AppendType DEF TypeOK
<1> QED
  BY <1>3, <1>4

(* Every variable keeps its type through every step of every call.          *)
LEMMA TypeInit == ASSUME Init PROVE TypeOK
<1>1. timestamp_mismatch \in BOOLEAN /\ pc = "idle"
  BY DEF Init
<1>2. new_unit \in UnitOfNalus
  BY EmptyUnitType DEF Init
<1>3. expected_size \in 0..SizeMax /\ size_received \in Nat /\ pulls \in Nat
      /\ buffer_unprocessed_count \in Nat
  BY SizeAssumption DEF Init
<1> QED
  BY <1>1, <1>2, <1>3 DEF Init, TypeOK

(* Every step keeps the types.                                              *)
LEMMA TypeStep == ASSUME TypeOK, [Next]_vars PROVE TypeOK'
<1>1. ASSUME NEW ts \in Timestamps, Arrive(ts) PROVE TypeOK'
  <2>1. /\ arrivals' \in Seq(Timestamps)
        /\ socket' = Append(socket, [id |-> Len(arrivals) + 1, ts |-> ts])
    BY <1>1 DEF Arrive, TypeOK
  <2>2. socket' \in Seq(Nalu)
    BY <2>1 DEF TypeOK, Nalu
  <2> QED
    BY <1>1, <2>1, <2>2 DEF Arrive, TypeOK, callVars
<1>2. ASSUME NEW n \in ExpectedSizes, Call(n) PROVE TypeOK'
  <2>1. timestamp_mismatch' \in BOOLEAN
    BY <1>2 DEF Call, Begin
  <2>2. new_unit' \in UnitOfNalus
    BY <1>2, EmptyUnitType DEF Call, Begin
  <2>3. pc' \in {"vps", "loop"}
    BY <1>2 DEF Call, Begin
  <2>4. expected_size' \in 0..SizeMax /\ size_received' \in Nat /\ pulls' \in Nat
    BY <1>2, SizeAssumption DEF Call, Begin
  <2>5. /\ buffer_unprocessed_count' = Len(receive_buffer)
        /\ UNCHANGED <<type, arrivals, socket, receive_buffer, delivered, dropped>>
    BY <1>2 DEF Call, Begin
  <2> QED
    BY <2>1, <2>2, <2>3, <2>4, <2>5 DEF TypeOK
<1>3. CASE PullVPS
  <2>1. Head(socket) \in Nalu /\ Tail(socket) \in Seq(Nalu)
    BY <1>3, HeadTail DEF PullVPS, TypeOK
  <2>2. new_unit' \in UnitOfNalus
    BY <1>3, <2>1, PushBackType DEF PullVPS, TypeOK
  <2>3. pc' = "idle" /\ delivered' \in Seq(ReturnedUnit)
    BY <1>3, <2>2, ReturnType DEF PullVPS, TypeOK
  <2> QED
    BY <1>3, <2>1, <2>2, <2>3 DEF PullVPS, TypeOK
<1>4. CASE AcceptBuffered
  <2>1. receive_buffer # <<>>
    BY <1>4 DEF AcceptBuffered, TakeBuffered, InLoop, TypeOK
  <2>2. Head(receive_buffer) \in Nalu /\ Tail(receive_buffer) \in Seq(Nalu)
        /\ Len(Tail(receive_buffer)) = Len(receive_buffer) - 1
    BY <2>1, HeadTail DEF TypeOK
  <2>3. /\ receive_buffer' = Tail(receive_buffer) /\ new_unit' \in UnitOfNalus
        /\ size_received' \in Nat /\ timestamp_mismatch' \in BOOLEAN
        /\ UNCHANGED <<pc, delivered, dropped>>
    BY <1>4, <2>2, AcceptType DEF AcceptBuffered
  <2> QED
    BY <1>4, <2>2, <2>3 DEF AcceptBuffered, TakeBuffered, InLoop, TypeOK
<1>5. CASE AcceptPulled
  <2>1. Head(socket) \in Nalu /\ Tail(socket) \in Seq(Nalu)
    BY <1>5, HeadTail DEF AcceptPulled, PullFrame, TypeOK
  <2>2. /\ receive_buffer' = receive_buffer /\ new_unit' \in UnitOfNalus
        /\ size_received' \in Nat /\ timestamp_mismatch' \in BOOLEAN
        /\ UNCHANGED <<pc, delivered, dropped>>
    BY <1>5, <2>1, AcceptType DEF AcceptPulled, TypeOK
  <2> QED
    BY <1>5, <2>1, <2>2 DEF AcceptPulled, PullFrame, TypeOK
<1>6. CASE RejectBuffered
  <2>1. receive_buffer # <<>>
    BY <1>6 DEF RejectBuffered, TakeBuffered, InLoop, TypeOK
  <2>2. Head(receive_buffer) \in Nalu /\ Tail(receive_buffer) \in Seq(Nalu)
        /\ Len(Tail(receive_buffer)) = Len(receive_buffer) - 1
    BY <2>1, HeadTail DEF TypeOK
  <2>3. /\ receive_buffer' \in Seq(Nalu)
        /\ Len(receive_buffer') = Len(Tail(receive_buffer)) + 1
        /\ new_unit' \in UnitOfNalus
        /\ size_received' \in Nat /\ timestamp_mismatch' \in BOOLEAN
        /\ pc' \in {"idle", pc} /\ delivered' \in Seq(ReturnedUnit)
        /\ UNCHANGED dropped
    BY <1>6, <2>2, RejectType DEF RejectBuffered
  <2> QED
    BY <1>6, <2>2, <2>3 DEF RejectBuffered, TakeBuffered, InLoop, TypeOK
<1>7. CASE RejectPulled
  <2>1. Head(socket) \in Nalu /\ Tail(socket) \in Seq(Nalu)
    BY <1>7, HeadTail DEF RejectPulled, PullFrame, TypeOK
  <2>2. /\ receive_buffer' \in Seq(Nalu)
        /\ Len(receive_buffer') = Len(receive_buffer) + 1
        /\ new_unit' \in UnitOfNalus
        /\ size_received' \in Nat /\ timestamp_mismatch' \in BOOLEAN
        /\ pc' \in {"idle", pc} /\ delivered' \in Seq(ReturnedUnit)
        /\ UNCHANGED dropped
    BY <1>7, <2>1, RejectType DEF RejectPulled, TypeOK
  <2> QED
    BY <1>7, <2>1, <2>2 DEF RejectPulled, PullFrame, InLoop, TypeOK
<1>8. CASE Timeout
  <2>1. CASE size_received = 0
    BY <1>8, <2>1 DEF Timeout, callVars, TypeOK
  <2>2. CASE size_received # 0
    <3>1. pc' = "idle" /\ delivered' \in Seq(ReturnedUnit)
      BY <1>8, <2>2, ReturnType DEF Timeout, callVars, TypeOK
    <3> QED
      BY <1>8, <3>1 DEF Timeout, callVars, TypeOK
  <2> QED
    BY <2>1, <2>2
<1>9. CASE Finish
  <2>1. pc' = "idle" /\ delivered' \in Seq(ReturnedUnit)
    BY <1>9, ReturnType DEF Finish, callVars, TypeOK
  <2> QED
    BY <1>9, <2>1 DEF Finish, callVars, TypeOK
<1>10. CASE ClearReceiveBuffer
  <2>1. ASSUME NEW i \in DOMAIN receive_buffer PROVE receive_buffer[i].id \in Nat
    <3>1. receive_buffer[i] \in Nalu
      BY DEF TypeOK
    <3> QED
      BY <3>1 DEF Nalu
  <2>2. dropped' \subseteq Nat
    BY <1>10, <2>1 DEF ClearReceiveBuffer, TypeOK
  <2> QED
    BY <1>10, <2>2 DEF ClearReceiveBuffer, callVars, TypeOK
<1>11. CASE UNCHANGED vars
  BY <1>11 DEF vars, callVars, TypeOK
<1> QED
  BY <1>1, <1>2, <1>3, <1>4, <1>5, <1>6, <1>7, <1>8, <1>9, <1>10, <1>11 DEF Next, Step

(* Every variable keeps its type, and a call counts at most the buffer's NALUs. *)
THEOREM TypeCorrect == Spec => []TypeOK
<1>1. Init => TypeOK
  BY TypeInit
<1>2. TypeOK /\ [Next]_vars => TypeOK'
  BY TypeStep
<1> QED
  BY <1>1, <1>2, PTL DEF Spec

-----------------------------------------------------------------------------
(* The invariant of the receive loop.  A unit without a timestamp is empty; *)
(* every frame pulled is paid for by a counted NALU or by the pending       *)
(* mismatch; and nothing counted means nothing was taken from the buffer.   *)
UnsetIsEmpty == new_unit.ts = Unset => new_unit.nalus = <<>>
PullsPaid ==
  /\ pulls <= 2 * expected_size
  /\ pc = "vps" => pulls = 0 /\ expected_size > 0 /\ size_received = 0
  /\ pc = "loop" => /\ size_received <= expected_size
                    /\ pulls <= 2 * size_received + 1
                    /\ timestamp_mismatch = FALSE => pulls <= 2 * size_received
NothingTaken ==
  /\ pc # "idle" /\ size_received = 0 => new_unit = EmptyUnit
  /\ pc = "loop" /\ size_received = 0 => buffer_unprocessed_count = Len(receive_buffer)
NoBufferForVPS ==
  /\ type = VPS => receive_buffer = <<>>
  /\ pc = "vps" => type = VPS
  /\ pc = "loop" /\ type = VPS => expected_size = 0
IInv == TypeOK /\ UnitsUniform /\ UnsetIsEmpty /\ PullsPaid /\ NothingTaken /\ NoBufferForVPS

(* Every step is one of the actions; the steps that touch neither units nor *)
(* the bookkeeping of a call are grouped.                                   *)
Quiet == UNCHANGED <<type, pc, callVars, delivered>>

(* A step begins a call, is a step of the running call, or leaves its locals alone. *)
LEMMA StepCases ==
  ASSUME [Next]_vars
  PROVE  \/ \E n \in ExpectedSizes : Call(n)
         \/ Step
         \/ Quiet /\ (receive_buffer' = receive_buffer \/ (pc = "idle" /\ receive_buffer' = <<>>))
<1>1. ASSUME NEW ts \in Timestamps, Arrive(ts)
      PROVE  Quiet /\ receive_buffer' = receive_buffer
  BY <1>1 DEF Arrive, Quiet
<1>2. ASSUME ClearReceiveBuffer
      PROVE  Quiet /\ pc = "idle" /\ receive_buffer' = <<>>
  BY <1>2 DEF ClearReceiveBuffer, Quiet
<1>3. ASSUME UNCHANGED vars
      PROVE  Quiet /\ receive_buffer' = receive_buffer
  BY <1>3 DEF vars, Quiet
<1> QED
  BY <1>1, <1>2, <1>3 DEF Next

(* push_back keeps a unit uniform: either the unit is empty and takes the   *)
(* timestamp of the NALU, or the timestamps are equal.                      *)
LEMMA PushBackUniform ==
  ASSUME new_unit \in UnitOfNalus, Uniform(new_unit), UnsetIsEmpty,
         NEW nalu \in Nalu, Fits(nalu), PushBack(nalu)
  PROVE  Uniform(new_unit') /\ UnsetIsEmpty'
<1>1. /\ new_unit'.ts = nalu.ts
      /\ new_unit'.nalus = Append(new_unit.nalus, nalu)
      /\ new_unit.nalus \in Seq(Nalu)
  BY DEF PushBack, UnitOfNalus
<1>2. nalu.ts \in Timestamps /\ nalu.ts # Unset
  BY TimestampAssumption DEF Nalu
<1>3. ASSUME NEW i \in DOMAIN new_unit'.nalus
      PROVE  new_unit'.nalus[i].ts = new_unit'.ts
  <2>1. CASE i \in DOMAIN new_unit.nalus
    <3>1. new_unit'.nalus[i] = new_unit.nalus[i] /\ new_unit.nalus # <<>>
      BY <1>1, <2>1
    <3>2. new_unit.ts = nalu.ts
      BY <3>1 DEF UnsetIsEmpty, Fits
    <3>3. new_unit.nalus[i].ts = new_unit.ts
      BY <2>1 DEF Uniform
    <3> QED
      BY <1>1, <3>1, <3>2, <3>3
  <2>2. CASE i \notin DOMAIN new_unit.nalus
    <3>1. new_unit'.nalus[i] = nalu
      BY <1>1, <1>3, <2>2
    <3> QED
      BY <1>1, <3>1
  <2> QED
    BY <2>1, <2>2
<1>4. Uniform(new_unit')
  BY <1>3 DEF Uniform
<1> QED
  BY <1>1, <1>2, <1>4 DEF UnsetIsEmpty

(* Returning a uniform unit keeps the returned units uniform.               *)
LEMMA ReturnUniform ==
  ASSUME delivered \in Seq(ReturnedUnit), new_unit' \in UnitOfNalus,
         \A u \in DOMAIN delivered : Uniform(delivered[u]),
         Uniform(new_unit'), NEW cut \in BOOLEAN, Return(cut)
  PROVE  \A u \in DOMAIN delivered' : Uniform(delivered'[u])
<1> DEFINE returned == [ts |-> new_unit'.ts, nalus |-> new_unit'.nalus, cut |-> cut]
<1>1. delivered' = Append(delivered, returned) /\ returned \in ReturnedUnit
  BY DEF Return, UnitOfNalus, ReturnedUnit
<1>2. Uniform(returned)
  BY DEF Uniform
<1>3. ASSUME NEW u \in DOMAIN delivered' PROVE Uniform(delivered'[u])
  <2> HIDE DEF returned
  <2>1. \/ u \in DOMAIN delivered /\ delivered'[u] = delivered[u]
        \/ delivered'[u] = returned
    BY <1>1, <1>3
  <2> QED
    BY <1>2, <2>1
<1> QED
  BY <1>3

(* No step mixes instants in a unit.                                        *)
LEMMA UniformStep ==
  ASSUME IInv, [Next]_vars, TypeOK'
  PROVE  UnitsUniform' /\ UnsetIsEmpty'
<1> USE DEF IInv
<1>1. ASSUME NEW n \in ExpectedSizes, Call(n) PROVE UnitsUniform' /\ UnsetIsEmpty'
  <2>1. new_unit' = EmptyUnit /\ delivered' = delivered
    BY <1>1 DEF Call, Begin
  <2>2. Uniform(new_unit') /\ UnsetIsEmpty'
    BY <2>1 DEF EmptyUnit, Uniform, UnsetIsEmpty
  <2> QED
    BY <2>1, <2>2 DEF UnitsUniform
<1>2. CASE PullVPS
  <2>1. Head(socket) \in Nalu /\ PushBack(Head(socket)) /\ Return(FALSE)
    BY <1>2, HeadTail DEF PullVPS, TypeOK
  <2>2. Fits(Head(socket))
    BY <1>2 DEF PullVPS, PullsPaid, NothingTaken, EmptyUnit, Fits
  <2>3. Uniform(new_unit') /\ UnsetIsEmpty'
    BY <2>1, <2>2, PushBackUniform DEF TypeOK, UnitsUniform
  <2> QED
    BY <2>1, <2>3, ReturnUniform DEF TypeOK, UnitsUniform
<1>3. ASSUME NEW nalu \in Nalu, NEW rest, Accept(nalu, rest)
      PROVE  UnitsUniform' /\ UnsetIsEmpty'
  <2>1. Fits(nalu) /\ PushBack(nalu) /\ delivered' = delivered
    BY <1>3 DEF Accept
  <2>2. Uniform(new_unit') /\ UnsetIsEmpty'
    BY <2>1, PushBackUniform DEF TypeOK, UnitsUniform
  <2> QED
    BY <2>1, <2>2 DEF UnitsUniform
<1>4. ASSUME NEW nalu, NEW rest, Reject(nalu, rest)
      PROVE  UnitsUniform' /\ UnsetIsEmpty'
  <2>1. new_unit' = new_unit /\ (delivered' = delivered \/ Return(FALSE))
    BY <1>4 DEF Reject
  <2> QED
    BY <2>1, ReturnUniform DEF TypeOK, UnitsUniform, UnsetIsEmpty
<1>5. ASSUME Timeout \/ Finish PROVE UnitsUniform' /\ UnsetIsEmpty'
  <2>1. new_unit' = new_unit /\ (delivered' = delivered \/ Return(FALSE) \/ Return(TRUE))
    BY <1>5 DEF Timeout, Finish, callVars
  <2> QED
    BY <2>1, ReturnUniform DEF TypeOK, UnitsUniform, UnsetIsEmpty
<1>6. CASE Quiet
  BY <1>6 DEF Quiet, callVars, UnitsUniform, UnsetIsEmpty
<1>7. CASE AcceptBuffered \/ AcceptPulled
  <2>1. CASE AcceptBuffered
    <3>1. Head(receive_buffer) \in Nalu
      BY <2>1, HeadTail DEF AcceptBuffered, TakeBuffered, InLoop, TypeOK
    <3> QED
      BY <2>1, <3>1, <1>3 DEF AcceptBuffered
  <2>2. CASE AcceptPulled
    <3>1. Head(socket) \in Nalu
      BY <2>2, HeadTail DEF AcceptPulled, PullFrame, TypeOK
    <3> QED
      BY <2>2, <3>1, <1>3 DEF AcceptPulled
  <2> QED
    BY <1>7, <2>1, <2>2
<1>8. CASE RejectBuffered \/ RejectPulled
  BY <1>8, <1>4 DEF RejectBuffered, RejectPulled
<1> QED
  BY StepCases, <1>1, <1>2, <1>5, <1>6, <1>7, <1>8 DEF Step

(* A pulled frame either fills the unit or is a mismatch; of two mismatches *)
(* in a row the second is counted, so pulls never outrun twice the count.   *)
LEMMA PullsStep ==
  ASSUME IInv, [Next]_vars, TypeOK'
  PROVE  PullsPaid'
<1> USE DEF IInv
<1> expected_size \in Nat /\ size_received \in Nat /\ pulls \in Nat
    /\ buffer_unprocessed_count \in Nat /\ timestamp_mismatch \in BOOLEAN
  BY SizeAssumption DEF TypeOK
<1>1. ASSUME NEW n \in ExpectedSizes, Call(n) PROVE PullsPaid'
  <2>1. n \in Nat
    BY SizeAssumption
  <2>2. expected_size' = n /\ size_received' = 0 /\ pulls' = 0
        /\ pc' = IF type = VPS /\ n > 0 THEN "vps" ELSE "loop"
    BY <1>1 DEF Call, Begin
  <2> QED
    BY <2>1, <2>2 DEF PullsPaid
<1>2. CASE PullVPS
  <2>1. pc' = "idle" /\ pulls' = pulls + 1 /\ expected_size' = expected_size /\ pc = "vps"
    BY <1>2 DEF PullVPS, Return
  <2> QED
    BY <2>1 DEF PullsPaid
<1>3. CASE AcceptBuffered
  <2>1. /\ pc = "loop" /\ size_received < expected_size /\ pc' = pc
        /\ size_received' = size_received + 1
        /\ pulls' = pulls /\ expected_size' = expected_size
    BY <1>3 DEF AcceptBuffered, TakeBuffered, InLoop, Accept
  <2> QED
    BY <2>1 DEF PullsPaid
<1>4. CASE AcceptPulled
  <2>1. /\ pc = "loop" /\ size_received < expected_size /\ pc' = pc
        /\ size_received' = size_received + 1
        /\ pulls' = pulls + 1 /\ expected_size' = expected_size
    BY <1>4 DEF AcceptPulled, PullFrame, InLoop, Accept
  <2> QED
    BY <2>1 DEF PullsPaid
<1>5. ASSUME NEW nalu, NEW rest, Reject(nalu, rest)
      PROVE  \/ pc' = "idle"
             \/ pc' = pc /\ size_received' = size_received + 1 /\ timestamp_mismatch # FALSE
             \/ pc' = pc /\ size_received' = size_received /\ timestamp_mismatch' # FALSE
                /\ (timestamp_mismatch = FALSE \/ buffer_unprocessed_count' # 0)
  <2>1. CASE expected_size = SizeMax /\ size_received > 0
    BY <1>5, <2>1 DEF Reject, Return
  <2>2. CASE ~ (expected_size = SizeMax /\ size_received > 0)
    BY <1>5, <2>2 DEF Reject
  <2> QED
    BY <2>1, <2>2
<1>6. CASE RejectBuffered
  <2>1. /\ pc = "loop" /\ size_received < expected_size
        /\ pulls' = pulls /\ expected_size' = expected_size
    BY <1>6 DEF RejectBuffered, TakeBuffered, InLoop
  <2>2. Reject(Head(receive_buffer), Tail(receive_buffer))
    BY <1>6 DEF RejectBuffered
  <2>3. /\ pulls <= 2 * size_received + 1
        /\ timestamp_mismatch = FALSE => pulls <= 2 * size_received
    BY <2>1 DEF PullsPaid
  <2>4. pulls' <= 2 * expected_size'
    BY <2>1 DEF PullsPaid
  <2>5. CASE pc' = "idle"
    BY <2>4, <2>5 DEF PullsPaid
  <2>6. CASE pc' = pc /\ size_received' = size_received + 1
    BY <2>1, <2>3, <2>4, <2>6 DEF PullsPaid
  <2>7. CASE pc' = pc /\ size_received' = size_received /\ timestamp_mismatch' # FALSE
    BY <2>1, <2>3, <2>4, <2>7 DEF PullsPaid
  <2> QED
    BY <2>2, <2>5, <2>6, <2>7, <1>5
<1>7. CASE RejectPulled
  <2>1. /\ pc = "loop" /\ size_received < expected_size
        /\ buffer_unprocessed_count' = 0
        /\ pulls' = pulls + 1 /\ expected_size' = expected_size
    BY <1>7 DEF RejectPulled, PullFrame, InLoop
  <2>2. Reject(Head(socket), receive_buffer)
    BY <1>7 DEF RejectPulled
  <2>3. /\ pulls <= 2 * size_received + 1
        /\ timestamp_mismatch = FALSE => pulls <= 2 * size_received
    BY <2>1 DEF PullsPaid
  <2>4. pulls' <= 2 * expected_size'
    BY <2>1, <2>3
  <2>5. CASE pc' = "idle"
    BY <2>4, <2>5 DEF PullsPaid
  <2>6. CASE pc' = pc /\ size_received' = size_received + 1
    BY <2>1, <2>3, <2>4, <2>6 DEF PullsPaid
  <2>7. CASE /\ pc' = pc /\ size_received' = size_received
             /\ timestamp_mismatch' # FALSE /\ timestamp_mismatch = FALSE
    <3>1. pulls <= 2 * size_received
      BY <2>3, <2>7
    <3>2. pulls' <= 2 * size_received' + 1 /\ size_received' <= expected_size'
      BY <2>1, <2>7, <3>1
    <3> QED
      BY <2>1, <2>4, <2>7, <3>2 DEF PullsPaid
  <2> QED
    BY <2>1, <2>2, <2>5, <2>6, <2>7, <1>5
<1>8. CASE Timeout \/ Finish
  <2>1. pc' = "idle" /\ pulls' = pulls /\ expected_size' = expected_size
    BY <1>8 DEF Timeout, Finish, Return, callVars
  <2> QED
    BY <2>1 DEF PullsPaid
<1>9. CASE Quiet
  BY <1>9 DEF Quiet, callVars, PullsPaid
<1> QED
  BY StepCases, <1>1, <1>2, <1>3, <1>4, <1>6, <1>7, <1>8, <1>9 DEF Step

(* As long as nothing is counted the unit is empty, so the first NALU that  *)
(* is looked at fits: only then can the buffer have been consulted at all.  *)
LEMMA TakenStep ==
  ASSUME IInv, [Next]_vars, TypeOK'
  PROVE  NothingTaken' /\ NoBufferForVPS'
<1> USE DEF IInv
<1> expected_size \in Nat /\ size_received \in Nat
  BY SizeAssumption DEF TypeOK
<1> DEFINE Goal == NothingTaken' /\ NoBufferForVPS'
<1>1. ASSUME NEW n \in ExpectedSizes, Call(n) PROVE Goal
  <2>1. n \in Nat
    BY SizeAssumption
  <2>2. /\ expected_size' = n /\ new_unit' = EmptyUnit
        /\ pc' = IF type = VPS /\ n > 0 THEN "vps" ELSE "loop"
        /\ buffer_unprocessed_count' = Len(receive_buffer)
        /\ receive_buffer' = receive_buffer /\ type' = type
    BY <1>1 DEF Call, Begin
  <2> QED
    BY <2>1, <2>2 DEF NothingTaken, NoBufferForVPS
<1>2. CASE PullVPS
  <2>1. pc' = "idle" /\ receive_buffer' = receive_buffer /\ type' = type
    BY <1>2 DEF PullVPS, Return
  <2> QED
    BY <2>1 DEF NothingTaken, NoBufferForVPS
<1>3. ASSUME AcceptBuffered \/ AcceptPulled PROVE Goal
  <2>1. /\ size_received' = size_received + 1 /\ pc = "loop" /\ pc' = pc
        /\ expected_size' = expected_size /\ type' = type /\ size_received < expected_size
    BY <1>3 DEF AcceptBuffered, AcceptPulled, TakeBuffered, PullFrame, Accept, InLoop
  <2>2. type # VPS
    BY <2>1 DEF NoBufferForVPS
  <2> QED
    BY <2>1, <2>2 DEF NothingTaken, NoBufferForVPS
<1>4. ASSUME RejectBuffered \/ RejectPulled PROVE Goal
  <2>1. /\ pc = "loop" /\ size_received < expected_size /\ type' = type
        /\ expected_size' = expected_size
        /\ \E nalu, rest : Reject(nalu, rest)
    BY <1>4 DEF RejectBuffered, RejectPulled, TakeBuffered, PullFrame, InLoop
  <2>2. /\ pc' \in {"idle", pc} /\ size_received' \in {size_received, size_received + 1}
        /\ new_unit # EmptyUnit
    BY <2>1 DEF Reject, Return, Fits, EmptyUnit
  <2>3. size_received > 0 /\ type # VPS
    BY <2>1, <2>2 DEF NothingTaken, NoBufferForVPS
  <2> QED
    BY <2>1, <2>2, <2>3 DEF NothingTaken, NoBufferForVPS
<1>5. CASE Timeout \/ Finish
  <2>1. pc' = "idle" /\ receive_buffer' = receive_buffer /\ type' = type
    BY <1>5 DEF Timeout, Finish, Return, callVars
  <2> QED
    BY <2>1 DEF NothingTaken, NoBufferForVPS
<1>6. CASE Quiet /\ (receive_buffer' = receive_buffer \/ (pc = "idle" /\ receive_buffer' = <<>>))
  BY <1>6 DEF Quiet, callVars, NothingTaken, NoBufferForVPS
<1> QED
  BY StepCases, <1>1, <1>2, <1>3, <1>4, <1>5, <1>6 DEF Step

(* The invariant holds before the first call.                               *)
LEMMA IInvInit == ASSUME Init PROVE IInv
<1>1. TypeOK
  BY TypeInit
<1>2. new_unit = EmptyUnit /\ delivered = <<>> /\ pc = "idle" /\ pulls = 0
      /\ receive_buffer = <<>> /\ expected_size = 0
  BY DEF Init
<1>3. UnitsUniform /\ UnsetIsEmpty
  BY <1>2 DEF UnitsUniform, Uniform, UnsetIsEmpty, EmptyUnit
<1>4. PullsPaid /\ NothingTaken /\ NoBufferForVPS
  BY <1>2 DEF PullsPaid, NothingTaken, NoBufferForVPS
<1> QED
  BY <1>1, <1>3, <1>4 DEF IInv

(* The loop invariant holds throughout.                                     *)
THEOREM LoopInvariant == Spec => []IInv
<1>1. Init => IInv
  BY IInvInit
<1>2. IInv /\ [Next]_vars => IInv'
  <2> SUFFICES ASSUME IInv, [Next]_vars PROVE IInv'
    OBVIOUS
  <2>1. TypeOK'
    BY TypeStep DEF IInv
  <2> QED
    BY <2>1, UniformStep, PullsStep, TakenStep DEF IInv
<1> QED
  BY <1>1, <1>2, PTL DEF Spec

(* receive_v3c_unit never mixes NALUs of two sampling instants in one unit, *)
(* for any network behaviour and any sequence of calls.                     *)
THEOREM UniformUnits == Spec => []UnitsUniform
<1>1. IInv => UnitsUniform
  BY DEF IInv
<1> QED
  BY <1>1, LoopInvariant, PTL

(* No call asks the RTP stack for more than two frames per expected NALU.   *)
THEOREM BoundedPulls == Spec => []PullBound
<1>1. IInv => PullBound
  BY DEF IInv, PullsPaid, PullBound
<1> QED
  BY <1>1, LoopInvariant, PTL

(* A call that throws TimeoutException found no NALU waiting in the receive *)
(* buffer and holds none.                                                   *)
THEOREM EmptyHandedTimeout == Spec => TimeoutOnlyEmptyHanded
<1> DEFINE Throws == pc # "idle" /\ pc' = "idle" /\ delivered' = delivered
           Empty == receive_buffer = <<>> /\ new_unit = EmptyUnit
<1>1. IInv /\ [Next]_vars => [Throws => Empty]_vars
  <2> SUFFICES ASSUME IInv, [Next]_vars, Throws PROVE Empty
    OBVIOUS
  <2> USE DEF IInv
  <2>1. ASSUME NEW cut, Return(cut) PROVE FALSE
    <3>1. Len(delivered') = Len(delivered) + 1
      BY <2>1 DEF Return, TypeOK
    <3> QED
      BY <3>1 DEF TypeOK
  <2>2. Timeout
    <3>1. ~ \E n \in ExpectedSizes : Call(n)
      BY DEF Call, Begin
    <3>2. ~ (AcceptBuffered \/ AcceptPulled)
      BY DEF AcceptBuffered, AcceptPulled, Accept
    <3>3. ~ (PullVPS \/ Finish)
      BY <2>1 DEF PullVPS, Finish
    <3>4. ~ (RejectBuffered \/ RejectPulled)
      BY <2>1 DEF RejectBuffered, RejectPulled, Reject
    <3> QED
      BY <3>1, <3>2, <3>3, <3>4, StepCases DEF Step, Quiet
  <2>3. size_received = 0 /\ (pc = "vps" \/ (pc = "loop" /\ buffer_unprocessed_count = 0))
    BY <2>1, <2>2 DEF Timeout, InLoop
  <2>4. new_unit = EmptyUnit
    BY <2>3 DEF NothingTaken
  <2>5. receive_buffer = <<>>
    BY <2>3 DEF NothingTaken, NoBufferForVPS, TypeOK
  <2> QED
    BY <2>4, <2>5
<1> QED
  BY <1>1, LoopInvariant, PTL DEF Spec, TimeoutOnlyEmptyHanded

(***************************************************************************)
(* What receive_v3c_unit does with the NALUs it is given: none is lost and *)
(* none is copied.                                                         *)
(***************************************************************************)

(* The ids of a queue after one of its NALUs is taken, or one is added.     *)
LEMMA IdsAppend ==
  ASSUME NEW q \in Seq(Nalu), NEW e \in Nalu
  PROVE  /\ Ids(Append(q, e)) = Ids(q) \cup {e.id}
         /\ Distinct(q) /\ e.id \notin Ids(q) => Distinct(Append(q, e))
<1> DEFINE r == Append(q, e)
<1>1. /\ DOMAIN r = DOMAIN q \cup {Len(q) + 1} /\ Len(q) + 1 \notin DOMAIN q
      /\ r[Len(q) + 1] = e /\ \A i \in DOMAIN q : r[i] = q[i]
  OBVIOUS
<1> HIDE DEF r
<1>2. Ids(r) = Ids(q) \cup {e.id}
  BY <1>1 DEF Ids
<1>3. ASSUME Distinct(q), e.id \notin Ids(q) PROVE Distinct(r)
  <2>1. \A i \in DOMAIN q : q[i].id # e.id
    BY <1>3 DEF Ids
  <2> SUFFICES ASSUME NEW i \in DOMAIN r, NEW j \in DOMAIN r, r[i].id = r[j].id PROVE i = j
    BY DEF Distinct
  <2> QED BY <1>1, <1>3, <2>1 DEF Distinct
<1> QED BY <1>2, <1>3 DEF r

(* The head of a queue and its tail share no NALU.                          *)
LEMMA IdsHeadTail ==
  ASSUME NEW q \in Seq(Nalu), q # <<>>
  PROVE  /\ Ids(q) = Ids(Tail(q)) \cup {Head(q).id}
         /\ Distinct(q) => Distinct(Tail(q)) /\ Head(q).id \notin Ids(Tail(q))
<1> DEFINE t == Tail(q)
<1>1. /\ DOMAIN q = 1..Len(q) /\ Len(q) \in Nat \ {0} /\ Head(q) = q[1]
      /\ DOMAIN t = 1..(Len(q) - 1) /\ \A i \in 1..(Len(q) - 1) : t[i] = q[i + 1]
  OBVIOUS
<1> HIDE DEF t
<1>2. \A i \in DOMAIN q : i = 1 \/ (i - 1 \in DOMAIN t /\ t[i - 1] = q[i])
  BY <1>1
<1>3. 1 \in DOMAIN q /\ \A i \in DOMAIN t : i + 1 \in DOMAIN q /\ t[i] = q[i + 1] /\ i + 1 # 1
  BY <1>1
<1>4. Ids(q) = Ids(t) \cup {Head(q).id}
  BY <1>1, <1>2, <1>3 DEF Ids
<1>5. ASSUME Distinct(q) PROVE Distinct(t) /\ Head(q).id \notin Ids(t)
  <2>1. ASSUME NEW i \in DOMAIN t, NEW j \in DOMAIN t, t[i].id = t[j].id PROVE i = j
    <3>1. i + 1 = j + 1
      BY <1>3, <1>5, <2>1 DEF Distinct
    <3> QED BY <1>1, <3>1
  <2>2. \A i \in DOMAIN t : t[i].id # Head(q).id
    BY <1>1, <1>3, <1>5 DEF Distinct
  <2> QED BY <2>1, <2>2 DEF Distinct, Ids
<1> QED BY <1>4, <1>5 DEF t

(* The places where a NALU can be, pairwise apart, and the units returned.  *)
Apart(a, b, c, d, e) ==
  /\ a \cap b = {} /\ a \cap c = {} /\ a \cap d = {} /\ a \cap e = {}
  /\ b \cap c = {} /\ b \cap d = {} /\ b \cap e = {}
  /\ c \cap d = {} /\ c \cap e = {} /\ d \cap e = {}
UnitsApart ==
  \A u, v \in DOMAIN delivered :
    /\ Distinct(delivered[u].nalus)
    /\ u # v => Ids(delivered[u].nalus) \cap Ids(delivered[v].nalus) = {}
Accounted ==
  /\ Distinct(socket) /\ Distinct(receive_buffer) /\ Distinct(InHand)
  /\ UnitsApart
  /\ Apart(Ids(socket), Ids(receive_buffer), Ids(InHand), DeliveredIds, dropped)
  /\ NothingLost

(* The two properties of the runs are the two halves of Accounted.          *)
LEMMA AccountedMeans == Accounted <=> NothingLost /\ NothingTwice
<1> DEFINE place == <<Ids(socket), Ids(receive_buffer), Ids(InHand), DeliveredIds, dropped>>
<1>1. (\A i, j \in DOMAIN place : i # j => place[i] \cap place[j] = {})
        <=> Apart(Ids(socket), Ids(receive_buffer), Ids(InHand), DeliveredIds, dropped)
  <2>1. ASSUME NEW a, NEW b, NEW c, NEW d, NEW e
        PROVE  (\A i, j \in DOMAIN <<a, b, c, d, e>> :
                  i # j => <<a, b, c, d, e>>[i] \cap <<a, b, c, d, e>>[j] = {})
                 <=> Apart(a, b, c, d, e)
    <3> DEFINE p == <<a, b, c, d, e>>
    <3>1. DOMAIN p = {1, 2, 3, 4, 5} /\ p[1] = a /\ p[2] = b /\ p[3] = c /\ p[4] = d /\ p[5] = e
      OBVIOUS
    <3> HIDE DEF p
    <3>2. (\A i, j \in DOMAIN p : i # j => p[i] \cap p[j] = {}) <=> Apart(a, b, c, d, e)
      BY <3>1 DEF Apart
    <3> QED BY <3>2 DEF p
  <2> QED BY <2>1
<1> HIDE DEF place
<1> QED BY <1>1 DEF Accounted, NothingTwice, UnitsApart, place

(* Handing over the unit moves what is in hand to the units delivered.      *)
LEMMA ReturnDelivers ==
  ASSUME TypeOK, new_unit' \in UnitOfNalus, NEW cut, Return(cut)
  PROVE  /\ InHand' = <<>>
         /\ DeliveredIds' = DeliveredIds \cup Ids(new_unit'.nalus)
         /\ /\ UnitsApart /\ Distinct(new_unit'.nalus)
            /\ DeliveredIds \cap Ids(new_unit'.nalus) = {}
            => UnitsApart'
<1> DEFINE r == [ts |-> new_unit'.ts, nalus |-> new_unit'.nalus, cut |-> cut]
<1>1. r.nalus = new_unit'.nalus
  OBVIOUS
<1>2. delivered' = Append(delivered, r) /\ pc' = "idle"
  BY DEF Return
<1> HIDE DEF r
<1> DEFINE k == Len(delivered) + 1
<1>3. /\ DOMAIN delivered' = DOMAIN delivered \cup {k} /\ k \notin DOMAIN delivered
      /\ delivered'[k] = r /\ \A u \in DOMAIN delivered : delivered'[u] = delivered[u]
  BY <1>2 DEF TypeOK
<1> HIDE DEF k
<1>4. DeliveredIds' = DeliveredIds \cup Ids(r.nalus)
  BY <1>3 DEF DeliveredIds
<1>5. ASSUME UnitsApart, Distinct(r.nalus), DeliveredIds \cap Ids(r.nalus) = {}
      PROVE  UnitsApart'
  <2>1. \A u \in DOMAIN delivered : Ids(delivered[u].nalus) \cap Ids(r.nalus) = {}
    BY <1>5 DEF DeliveredIds
  <2> SUFFICES ASSUME NEW u \in DOMAIN delivered', NEW v \in DOMAIN delivered'
               PROVE  /\ Distinct(delivered'[u].nalus)
                      /\ u # v => Ids(delivered'[u].nalus) \cap Ids(delivered'[v].nalus) = {}
    BY DEF UnitsApart
  <2> QED BY <1>3, <1>5, <2>1 DEF UnitsApart
<1> QED BY <1>1, <1>2, <1>4, <1>5 DEF InHand

(* Outside a call nothing is in hand.                                       *)
LEMMA InHandNalus ==
  ASSUME TypeOK
  PROVE  InHand \in Seq(Nalu) /\ (pc # "idle" => InHand = new_unit.nalus)
BY DEF InHand, TypeOK, UnitOfNalus

(* What the two ways of handling a NALU do with it: it joins the unit, or   *)
(* goes to the end of the buffer, and then the call may end.                *)
LEMMA AcceptMoves ==
  ASSUME TypeOK, pc # "idle", NEW nalu \in Nalu, NEW rest, Accept(nalu, rest)
  PROVE  /\ receive_buffer' = rest /\ InHand' = Append(InHand, nalu)
         /\ UNCHANGED <<delivered, dropped>>
BY DEF Accept, PushBack, InHand

(* A rejected NALU moves to the end of the receive buffer and nowhere else. *)
LEMMA RejectMoves ==
  ASSUME TypeOK, pc # "idle", NEW nalu \in Nalu, NEW rest, Reject(nalu, rest)
  PROVE  /\ receive_buffer' = Append(rest, nalu) /\ new_unit' = new_unit /\ UNCHANGED dropped
         /\ \/ InHand' = InHand /\ UNCHANGED delivered
            \/ Return(FALSE)
<1>1. receive_buffer' = Append(rest, nalu) /\ dropped' = dropped
  BY PushNeverDrops DEF Reject
<1> QED BY <1>1 DEF Reject, InHand

(* Each step moves NALUs between the places and keeps them apart.           *)
LEMMA AccountedStep ==
  ASSUME IInv, Accounted, [Next]_vars, TypeOK'
  PROVE  Accounted'
<1> TypeOK
  BY DEF IInv
<1> socket \in Seq(Nalu) /\ receive_buffer \in Seq(Nalu)
    /\ InHand \in Seq(Nalu) /\ new_unit' \in UnitOfNalus
  BY InHandNalus DEF TypeOK
<1> DEFINE S == Ids(socket)  B == Ids(receive_buffer)  H == Ids(InHand)
<1>1. ASSUME NEW cut, Return(cut), new_unit' = new_unit, pc # "idle", Accounted,
             UNCHANGED <<socket, arrivals, dropped>>,
             receive_buffer' \in Seq(Nalu), Ids(receive_buffer') = B, Distinct(receive_buffer')
      PROVE  Accounted'
  <2>1. new_unit'.nalus = InHand
    BY <1>1, InHandNalus
  <2>2. DeliveredIds \cap Ids(InHand) = {} /\ Distinct(InHand)
    BY DEF Accounted, Apart
  <2>3. InHand' = <<>> /\ DeliveredIds' = DeliveredIds \cup Ids(InHand) /\ UnitsApart'
    BY <1>1, <2>1, <2>2, ReturnDelivers DEF Accounted
  <2>4. Ids(<<>>) = {} /\ Distinct(<<>>)
    BY DEF Ids, Distinct
  <2>5. Distinct(socket') /\ Distinct(InHand') /\ Ids(InHand') = {} /\ Ids(socket') = S
    BY <1>1, <2>3, <2>4 DEF Accounted
  <2> HIDE DEF S, B, H
  <2>6. Apart(Ids(socket'), Ids(receive_buffer'), Ids(InHand'), DeliveredIds', dropped')
    BY <1>1, <2>3, <2>5 DEF Accounted, Apart, S, B
  <2>7. NothingLost'
    BY <1>1, <2>3, <2>5 DEF Accounted, NothingLost, S, B
  <2> QED BY <1>1, <2>3, <2>5, <2>6, <2>7 DEF Accounted
<1>2. ASSUME UNCHANGED <<delivered, arrivals, dropped>>,
             Distinct(socket'), Distinct(receive_buffer'), Distinct(InHand'),
             Ids(socket') \cup Ids(receive_buffer') \cup Ids(InHand') = S \cup B \cup H,
             Ids(socket') \cap Ids(receive_buffer') = {},
             Ids(socket') \cap Ids(InHand') = {}, Ids(receive_buffer') \cap Ids(InHand') = {}
      PROVE  Accounted'
  <2>1. DeliveredIds' = DeliveredIds /\ UnitsApart'
    <3>1. UnitsApart
      BY DEF Accounted
    <3>2. delivered' = delivered
      BY <1>2
    <3> QED BY <3>1, <3>2 DEF DeliveredIds, UnitsApart
  <2>2. Apart(Ids(socket'), Ids(receive_buffer'), Ids(InHand'), DeliveredIds, dropped)
    <3> HIDE DEF DeliveredIds, Ids
    <3> QED BY <1>2 DEF Accounted, Apart
  <2>3. NothingLost'
    BY <1>2, <2>1 DEF Accounted, NothingLost
  <2> QED BY <1>2, <2>1, <2>2, <2>3 DEF Accounted
<1>3. /\ Distinct(socket) /\ Distinct(receive_buffer) /\ Distinct(InHand)
      /\ S \cap B = {} /\ S \cap H = {} /\ B \cap H = {}
      /\ S \subseteq 1..Len(arrivals) /\ B \subseteq 1..Len(arrivals)
      /\ H \subseteq 1..Len(arrivals) /\ DeliveredIds \subseteq 1..Len(arrivals)
      /\ dropped \subseteq 1..Len(arrivals)
  <2> HIDE DEF Ids
  <2> QED BY DEF Accounted, Apart, NothingLost
<1>4. ASSUME receive_buffer # <<>>
      PROVE  LET e == Head(receive_buffer)  rest == Tail(receive_buffer)
             IN /\ e \in Nalu /\ rest \in Seq(Nalu) /\ B = Ids(rest) \cup {e.id}
                /\ Distinct(rest) /\ e.id \notin Ids(rest)
  BY <1>3, <1>4, IdsHeadTail, HeadTail
<1>5. ASSUME socket # <<>>
      PROVE  LET e == Head(socket)  rest == Tail(socket)
             IN /\ e \in Nalu /\ rest \in Seq(Nalu) /\ S = Ids(rest) \cup {e.id}
                /\ Distinct(rest) /\ e.id \notin Ids(rest)
  BY <1>3, <1>5, IdsHeadTail, HeadTail
<1>6. ASSUME NEW ts \in Timestamps, Arrive(ts)
      PROVE  Accounted'
  <2> DEFINE e == [id |-> Len(arrivals) + 1, ts |-> ts]
  <2>1. /\ socket' = Append(socket, e) /\ arrivals' = Append(arrivals, ts)
        /\ UNCHANGED <<receive_buffer, delivered, dropped>> /\ InHand' = InHand
    BY <1>6 DEF Arrive, callVars, InHand
  <2>2. e \in Nalu /\ e.id = Len(arrivals) + 1 /\ e.id \notin 1..Len(arrivals)
        /\ Len(arrivals') = Len(arrivals) + 1 /\ 1..Len(arrivals') = 1..Len(arrivals) \cup {e.id}
    BY <2>1 DEF Nalu, TypeOK
  <2> HIDE DEF e, S, B, H
  <2>3. e.id \notin S /\ e.id \notin B /\ e.id \notin H /\ e.id \notin DeliveredIds
        /\ e.id \notin dropped
    BY <1>3, <2>2
  <2>4. Ids(socket') = S \cup {e.id} /\ Distinct(socket')
    BY <1>3, <2>1, <2>2, <2>3, IdsAppend DEF S
  <2>5. DeliveredIds' = DeliveredIds /\ UnitsApart'
    BY <2>1 DEF Accounted, DeliveredIds, UnitsApart
  <2>6. Apart(Ids(socket'), Ids(receive_buffer'), Ids(InHand'), DeliveredIds', dropped')
    BY <2>1, <2>3, <2>4, <2>5 DEF Accounted, Apart, S, B, H
  <2>7. NothingLost'
    BY <2>1, <2>2, <2>4, <2>5 DEF Accounted, NothingLost, S
  <2> QED BY <2>1, <2>4, <2>5, <2>6, <2>7 DEF Accounted
<1>7. ASSUME NEW n \in ExpectedSizes, Call(n)
      PROVE  Accounted'
  <2>1. InHand = <<>> /\ InHand' = <<>>
    BY <1>7 DEF Call, Begin, InHand, EmptyUnit
  <2>2. UNCHANGED <<socket, receive_buffer, arrivals, delivered, dropped>>
    BY <1>7 DEF Call, Begin
  <2> QED BY <1>2, <1>3, <2>1, <2>2
<1>8. CASE PullVPS
  <2> DEFINE e == Head(socket)
  <2>1. /\ pc = "vps" /\ socket # <<>> /\ socket' = Tail(socket) /\ Return(FALSE)
        /\ UNCHANGED <<arrivals, receive_buffer, dropped>>
        /\ new_unit'.nalus = Append(new_unit.nalus, e)
    BY <1>8 DEF PullVPS, PushBack
  <2>2. InHand = new_unit.nalus /\ new_unit.nalus = <<>>
    BY <2>1, InHandNalus DEF IInv, PullsPaid, NothingTaken, EmptyUnit
  <2>3. Ids(<<>>) = {} /\ Distinct(<<>>) /\ <<>> \in Seq(Nalu)
    BY DEF Ids, Distinct
  <2>4. e \in Nalu /\ S = Ids(Tail(socket)) \cup {e.id} /\ e.id \notin Ids(Tail(socket))
        /\ Distinct(Tail(socket))
    BY <1>5, <2>1
  <2> HIDE DEF e
  <2>5. Ids(new_unit'.nalus) = {e.id} /\ Distinct(new_unit'.nalus)
    BY <2>1, <2>2, <2>3, <2>4, IdsAppend
  <2> HIDE DEF S, B, H
  <2>6. e.id \in S /\ e.id \notin DeliveredIds /\ e.id \notin B /\ e.id \notin dropped
    BY <2>4 DEF Accounted, Apart, S, B
  <2>7. InHand' = <<>> /\ DeliveredIds' = DeliveredIds \cup {e.id} /\ UnitsApart'
    BY <2>1, <2>5, <2>6, ReturnDelivers DEF Accounted
  <2>8. Apart(Ids(socket'), Ids(receive_buffer'), Ids(InHand'), DeliveredIds', dropped')
    BY <2>1, <2>3, <2>4, <2>6, <2>7 DEF Accounted, Apart, S, B
  <2>9. NothingLost'
    BY <2>1, <2>2, <2>3, <2>4, <2>7 DEF Accounted, NothingLost, S
  <2> QED BY <1>3, <2>1, <2>3, <2>4, <2>7, <2>8, <2>9 DEF Accounted
<1>9. CASE AcceptBuffered \/ RejectBuffered
  <2> DEFINE e == Head(receive_buffer)  rest == Tail(receive_buffer)
  <2>1. /\ pc = "loop" /\ receive_buffer # <<>> /\ UNCHANGED <<socket, arrivals>>
        /\ Accept(e, rest) \/ Reject(e, rest)
    BY <1>9 DEF AcceptBuffered, RejectBuffered, TakeBuffered, InLoop, TypeOK
  <2>2. /\ e \in Nalu /\ rest \in Seq(Nalu) /\ B = Ids(rest) \cup {e.id}
        /\ Distinct(rest) /\ e.id \notin Ids(rest)
    BY <1>4, <2>1
  <2> HIDE DEF e, rest, S, B, H
  <2>3. CASE Accept(e, rest)
    <3>1. receive_buffer' = rest /\ InHand' = Append(InHand, e) /\ UNCHANGED <<delivered, dropped>>
      BY <2>1, <2>2, <2>3, AcceptMoves
    <3>2. Ids(InHand') = H \cup {e.id} /\ Distinct(InHand')
      BY <1>3, <2>2, <3>1, IdsAppend DEF H
    <3>3. Ids(socket') = S /\ Ids(receive_buffer') = Ids(rest)
      BY <2>1, <3>1 DEF S
    <3>4. Ids(socket') \cup Ids(receive_buffer') \cup Ids(InHand') = S \cup B \cup H
      BY <2>2, <3>2, <3>3
    <3> QED BY <1>2, <1>3, <2>1, <2>2, <3>1, <3>2, <3>3, <3>4, ZenonT(30)
  <2>4. CASE Reject(e, rest)
    <3>1. /\ receive_buffer' = Append(rest, e) /\ new_unit' = new_unit /\ UNCHANGED dropped
          /\ (InHand' = InHand /\ UNCHANGED delivered) \/ Return(FALSE)
      BY <2>1, <2>2, <2>4, RejectMoves
    <3>2. Ids(receive_buffer') = B /\ Distinct(receive_buffer') /\ receive_buffer' \in Seq(Nalu)
      BY <2>2, <3>1, IdsAppend, AppendType
    <3> QED BY <1>1, <1>2, <1>3, <2>1, <3>1, <3>2 DEF S, H
  <2> QED BY <2>1, <2>3, <2>4
<1>10. CASE AcceptPulled \/ RejectPulled
  <2> DEFINE e == Head(socket)
  <2>1. /\ pc = "loop" /\ socket # <<>> /\ socket' = Tail(socket) /\ arrivals' = arrivals
        /\ Accept(e, receive_buffer) \/ Reject(e, receive_buffer)
    BY <1>10 DEF AcceptPulled, RejectPulled, PullFrame, InLoop
  <2>2. e \in Nalu /\ S = Ids(Tail(socket)) \cup {e.id} /\ e.id \notin Ids(Tail(socket))
        /\ Distinct(Tail(socket))
    BY <1>5, <2>1
  <2> HIDE DEF e, S, B, H
  <2>3. CASE Accept(e, receive_buffer)
    <3>1. /\ receive_buffer' = receive_buffer /\ InHand' = Append(InHand, e)
          /\ UNCHANGED <<delivered, dropped>>
      BY <2>1, <2>2, <2>3, AcceptMoves
    <3>2. Ids(InHand') = H \cup {e.id} /\ Distinct(InHand')
      BY <1>3, <2>2, <3>1, IdsAppend DEF H
    <3>3. Ids(receive_buffer') = B /\ Ids(socket') = Ids(Tail(socket))
      BY <2>1, <3>1 DEF B
    <3>4. Ids(socket') \cup Ids(receive_buffer') \cup Ids(InHand') = S \cup B \cup H
      BY <2>2, <3>2, <3>3
    <3> QED BY <1>2, <1>3, <2>1, <2>2, <3>1, <3>2, <3>3, <3>4
  <2>4. CASE Reject(e, receive_buffer)
    <3>1. /\ receive_buffer' = Append(receive_buffer, e) /\ new_unit' = new_unit
          /\ UNCHANGED dropped /\ ((InHand' = InHand /\ UNCHANGED delivered) \/ Return(FALSE))
      BY <2>1, <2>2, <2>4, RejectMoves
    <3>2. Ids(receive_buffer') = B \cup {e.id} /\ Distinct(receive_buffer')
          /\ receive_buffer' \in Seq(Nalu)
      BY <1>3, <2>2, <3>1, IdsAppend, AppendType DEF B
    <3>3. CASE InHand' = InHand /\ UNCHANGED delivered
      BY <1>2, <1>3, <2>1, <2>2, <3>1, <3>2, <3>3 DEF H
    <3>4. CASE Return(FALSE)
      <4>1. new_unit'.nalus = InHand
        BY <2>1, <3>1, InHandNalus
      <4>2. DeliveredIds \cap H = {} /\ DeliveredIds \cap S = {} /\ dropped \cap S = {}
            /\ H \cap dropped = {}
        BY DEF Accounted, Apart, H, S
      <4>3. InHand' = <<>> /\ DeliveredIds' = DeliveredIds \cup H /\ UnitsApart'
        BY <1>3, <3>4, <4>1, <4>2, ReturnDelivers DEF Accounted, H
      <4>4. Ids(<<>>) = {} /\ Distinct(<<>>)
        BY DEF Ids, Distinct
      <4>5. Apart(Ids(socket'), Ids(receive_buffer'), Ids(InHand'), DeliveredIds', dropped')
        BY <1>3, <2>1, <2>2, <3>1, <3>2, <4>2, <4>3, <4>4 DEF Accounted, Apart, S, B, H
      <4>6. NothingLost'
        BY <2>1, <2>2, <3>1, <3>2, <4>3, <4>4 DEF Accounted, NothingLost, S, B, H
      <4> QED BY <2>1, <2>2, <3>2, <4>3, <4>4, <4>5, <4>6 DEF Accounted
    <3> QED BY <3>1, <3>3, <3>4
  <2> QED BY <2>1, <2>3, <2>4
<1>11. CASE Timeout \/ Finish
  <2>1. /\ pc # "idle" /\ UNCHANGED <<arrivals, socket, receive_buffer, dropped, new_unit>>
        /\ \/ Return(FALSE) \/ Return(TRUE)
           \/ size_received = 0 /\ pc' = "idle" /\ UNCHANGED delivered
    BY <1>11 DEF Timeout, Finish, InLoop, callVars
  <2>2. CASE Return(FALSE) \/ Return(TRUE)
    BY <1>1, <1>3, <2>1, <2>2
  <2>3. CASE size_received = 0 /\ pc' = "idle" /\ UNCHANGED delivered
    <3>1. InHand = <<>> /\ InHand' = <<>>
      BY <2>1, <2>3, InHandNalus DEF IInv, NothingTaken, EmptyUnit, InHand
    <3> QED BY <1>2, <1>3, <2>1, <2>3, <3>1
  <2> QED BY <2>1, <2>2, <2>3
<1>12. CASE ClearReceiveBuffer
  <2>1. /\ receive_buffer' = <<>> /\ dropped' = dropped \cup B
        /\ UNCHANGED <<socket, arrivals, delivered>> /\ InHand' = InHand
    BY <1>12 DEF ClearReceiveBuffer, callVars, InHand, Ids
  <2>2. Ids(<<>>) = {} /\ Distinct(<<>>)
    BY DEF Ids, Distinct
  <2>3. DeliveredIds' = DeliveredIds /\ UnitsApart'
    BY <2>1 DEF Accounted, DeliveredIds, UnitsApart
  <2> HIDE DEF S, B, H
  <2>4. Apart(Ids(socket'), Ids(receive_buffer'), Ids(InHand'), DeliveredIds', dropped')
    BY <2>1, <2>2, <2>3 DEF Accounted, Apart, B
  <2>5. NothingLost'
    BY <2>1, <2>2, <2>3 DEF Accounted, NothingLost, B
  <2> QED BY <1>3, <2>1, <2>2, <2>3, <2>4, <2>5 DEF Accounted
<1>13. CASE UNCHANGED vars
  BY <1>2, <1>3, <1>13 DEF vars, callVars, InHand
<1> QED
  BY <1>6, <1>7, <1>8, <1>9, <1>10, <1>11, <1>12, <1>13 DEF Next, Step

(* The NALUs are accounted for throughout.                                  *)
THEOREM AllAccounted == Spec => []Accounted
<1>1. Init => Accounted
  <2> SUFFICES ASSUME Init PROVE Accounted
    OBVIOUS
  <2>1. /\ socket = <<>> /\ receive_buffer = <<>> /\ InHand = <<>> /\ delivered = <<>>
        /\ dropped = {} /\ Len(arrivals) = 0
    BY DEF Init, InHand
  <2>2. Ids(<<>>) = {} /\ Distinct(<<>>)
    BY DEF Ids, Distinct
  <2>3. DeliveredIds = {} /\ UnitsApart
    BY <2>1 DEF DeliveredIds, UnitsApart
  <2> QED BY <2>1, <2>2, <2>3 DEF Accounted, Apart, NothingLost
<1>2. IInv /\ IInv' /\ Accounted /\ [Next]_vars => Accounted'
  BY AccountedStep DEF IInv
<1> QED BY <1>1, <1>2, LoopInvariant, PTL DEF Spec

(* No NALU vanishes: a frame that arrived is queued, buffered, in the unit   *)
(* being assembled, in a returned unit, or was cleared with the buffer.      *)
THEOREM NoneLost == Spec => []NothingLost
BY AllAccounted, AccountedMeans, PTL

(* No NALU is in two places, and none is returned twice: handing a NALU      *)
(* back to the receive buffer never copies it.                               *)
THEOREM NoneTwice == Spec => []NothingTwice
BY AllAccounted, AccountedMeans, PTL

(***************************************************************************)
(* A network that keeps the order of frames, and an application that passes *)
(* the same expected size in every call: what the receive buffer holds     *)
(* between calls, and the order of what is returned.                       *)
(***************************************************************************)

(* The application passes one size, and not the size 0 that asks for no     *)
(* NALU at all (after which it could change its mind).                      *)
OneRealSize == OneSize /\ 0 \notin ExpectedSizes

(* With the automatic size the call empties the buffer before it pulls, and *)
(* ends at the first NALU that goes into it.                                *)
AutoInv ==
  /\ expected_size = 0 => pc = "idle" /\ receive_buffer = <<>>
  /\ expected_size = SizeMax =>
       /\ Len(receive_buffer) <= 1
       /\ pc = "loop" /\ size_received > 0 => receive_buffer = <<>>

(* Every step keeps the invariant of automatic sizes.                       *)
LEMMA AutoStep ==
  ASSUME OneRealSize, IInv, TypeOK', AutoInv, [Next]_vars
  PROVE  AutoInv'
<1> USE DEF IInv
<1> /\ expected_size \in Nat /\ size_received \in Nat /\ SizeMax \in Nat \ {0}
    /\ TypeOK /\ receive_buffer \in Seq(Nalu) /\ receive_buffer' \in Seq(Nalu)
  BY SizeAssumption DEF TypeOK
<1>1. ASSUME NEW n \in ExpectedSizes, Call(n) PROVE AutoInv'
  <2>1. /\ n # 0 /\ expected_size \in {0, n} /\ expected_size' = n /\ size_received' = 0
        /\ receive_buffer' = receive_buffer
    BY <1>1 DEF Call, Begin, OneRealSize
  <2> QED BY <2>1 DEF AutoInv
<1>2. ASSUME pc = "loop", expected_size' = expected_size, size_received < expected_size
      PROVE  expected_size # 0
             /\ (expected_size = SizeMax =>
                   /\ Len(receive_buffer) <= 1
                   /\ size_received > 0 => receive_buffer = <<>>
                   /\ size_received = 0 => buffer_unprocessed_count = Len(receive_buffer))
  BY <1>2 DEF AutoInv, NothingTaken
<1>3. CASE AcceptBuffered
  <2>1. /\ pc = "loop" /\ size_received < expected_size /\ expected_size' = expected_size
        /\ buffer_unprocessed_count > 0 /\ receive_buffer # <<>>
        /\ receive_buffer' = Tail(receive_buffer)
    BY <1>3 DEF AcceptBuffered, TakeBuffered, InLoop, Accept, TypeOK
  <2>2. Len(receive_buffer') = Len(receive_buffer) - 1
    BY <2>1, HeadTail
  <2> QED BY <1>2, <2>1, <2>2 DEF AutoInv
<1>4. CASE AcceptPulled
  <2>1. /\ pc = "loop" /\ size_received < expected_size /\ expected_size' = expected_size
        /\ buffer_unprocessed_count = 0 /\ receive_buffer' = receive_buffer
    BY <1>4 DEF AcceptPulled, PullFrame, InLoop, Accept, TypeOK
  <2> QED BY <1>2, <2>1 DEF AutoInv
<1>5. CASE RejectBuffered \/ RejectPulled
  <2>1. /\ pc = "loop" /\ size_received < expected_size /\ expected_size' = expected_size
    BY <1>5 DEF RejectBuffered, RejectPulled, TakeBuffered, PullFrame, InLoop
  <2>2. CASE expected_size # SizeMax
    BY <1>2, <2>1, <2>2 DEF AutoInv
  <2>3. CASE expected_size = SizeMax
    <3>1. size_received > 0
      <4>1. \E nalu : ~ Fits(nalu)
        BY <1>5 DEF RejectBuffered, RejectPulled, Reject
      <4>2. new_unit # EmptyUnit
        BY <4>1 DEF Fits, EmptyUnit
      <4> QED BY <2>1, <4>2 DEF NothingTaken
    <3>2. receive_buffer = <<>> /\ ~ RejectBuffered
      BY <1>2, <2>1, <2>3, <3>1 DEF RejectBuffered, TakeBuffered, TypeOK
    <3>3. Reject(Head(socket), receive_buffer)
      BY <1>5, <3>2 DEF RejectPulled
    <3>4. pc' = "idle"
      BY <2>3, <3>1, <3>3 DEF Reject, Return
    <3>5. receive_buffer' = Append(receive_buffer, Head(socket))
      BY <3>3, PushNeverDrops DEF Reject
    <3>6. Len(receive_buffer') = 1
      BY <3>2, <3>5
    <3> QED BY <2>1, <2>3, <3>4, <3>6 DEF AutoInv
  <2> QED BY <2>2, <2>3
<1>6. CASE PullVPS \/ Timeout \/ Finish
  <2>1. pc # "idle" /\ pc' = "idle" /\ UNCHANGED <<expected_size, receive_buffer>>
    BY <1>6 DEF PullVPS, Timeout, Finish, InLoop, Return, callVars
  <2> QED BY <2>1 DEF AutoInv
<1>7. CASE Quiet /\ (receive_buffer' = receive_buffer \/ (pc = "idle" /\ receive_buffer' = <<>>))
  BY <1>7 DEF Quiet, callVars, AutoInv
<1> QED BY StepCases, <1>1, <1>3, <1>4, <1>5, <1>6, <1>7 DEF Step

(* The invariant of the automatic size holds throughout.                    *)
THEOREM AutoInvariant == ASSUME OneRealSize PROVE Spec => []AutoInv
<1>1. Init => AutoInv
  BY SizeAssumption DEF Init, AutoInv
<1>2. IInv /\ IInv' /\ AutoInv /\ [Next]_vars => AutoInv'
  BY AutoStep DEF IInv
<1> QED BY <1>1, <1>2, LoopInvariant, PTL DEF Spec

(* If every call asks for a whole unit ("until the timestamp changes"), the *)
(* buffer holds at most the one NALU that ended the previous unit, whatever *)
(* the network does.                                                        *)
THEOREM AutoBuffer == ASSUME OneRealSize PROVE Spec => []AutoKeepsOne
<1>1. AutoInv => AutoKeepsOne
  BY DEF AutoInv, AutoKeepsOne
<1> QED BY <1>1, AutoInvariant, PTL

-----------------------------------------------------------------------------
(* The invariant behind the order.  During a call the first                 *)
(* buffer_unprocessed_count NALUs of the buffer have not been looked at, the *)
(* others were rejected in this call: they come from before the first ones, *)
(* and from after the NALUs of the unit.                                    *)
Unprocessed == IF pc = "loop" THEN buffer_unprocessed_count ELSE Len(receive_buffer)

Stamped(s) ==
  \A i \in DOMAIN s : s[i].id \in DOMAIN arrivals /\ s[i].ts = arrivals[s[i].id]
ArrivalsSorted == \A i, j \in DOMAIN arrivals : i < j => arrivals[i] <= arrivals[j]
AllStamped == Stamped(socket) /\ Stamped(receive_buffer) /\ Stamped(InHand)

RotatedOrder ==
  \A i, j \in DOMAIN receive_buffer :
    i < j => IF i <= Unprocessed /\ Unprocessed < j
               THEN receive_buffer[j].id < receive_buffer[i].id
               ELSE receive_buffer[i].id < receive_buffer[j].id
RejectedLater ==
  \A j \in DOMAIN receive_buffer :
    Unprocessed < j => new_unit.ts \in Timestamps /\ new_unit.ts < receive_buffer[j].ts
RotationEnds ==   \* the count is not reached in the middle of a rotation
  pc = "loop" /\ 0 < Unprocessed /\ Unprocessed < Len(receive_buffer)
    => size_received < expected_size
StampHasNalu == pc # "idle" /\ new_unit.ts # Unset => new_unit.nalus # <<>>
PlacesOrdered ==
  /\ Precedes(DeliveredIds, Ids(InHand)) /\ Precedes(DeliveredIds, Ids(receive_buffer))
  /\ Precedes(DeliveredIds, Ids(socket))
  /\ Precedes(Ids(InHand), Ids(receive_buffer)) /\ Precedes(Ids(InHand), Ids(socket))
  /\ Precedes(Ids(receive_buffer), Ids(socket))
UnitsOrdered ==
  /\ \A u \in DOMAIN delivered : Increasing(delivered[u].nalus)
  /\ \A u, v \in DOMAIN delivered :
       u < v => Precedes(Ids(delivered[u].nalus), Ids(delivered[v].nalus))

OrderInv ==
  /\ ArrivalsSorted /\ AllStamped
  /\ Increasing(socket) /\ Increasing(InHand)
  /\ RotatedOrder /\ RejectedLater /\ RotationEnds /\ StampHasNalu
  /\ PlacesOrdered /\ UnitsOrdered

(* Elementary facts about queues of NALUs.                                  *)
LEMMA QueueFacts ==
  ASSUME NEW q \in Seq(Nalu)
  PROVE  /\ Len(q) \in Nat /\ DOMAIN q = 1..Len(q) /\ (Len(q) = 0 => q = <<>>)
         /\ \A e \in Nalu : Append(q, e) # <<>>
         /\ q # <<>> => 1 \in DOMAIN q /\ Head(q) = q[1]
<1>1. Len(q) \in Nat /\ DOMAIN q = 1..Len(q)
  OBVIOUS
<1>2. q # <<>> => Len(q) # 0
  OBVIOUS
<1>3. ASSUME NEW e \in Nalu PROVE Append(q, e) # <<>>
  <2>1. Len(Append(q, e)) = Len(q) + 1 /\ Len(<<>>) = 0
    OBVIOUS
  <2> QED BY <1>1, <2>1
<1>4. q # <<>> => 1 \in DOMAIN q /\ Head(q) = q[1]
  BY <1>1, <1>2
<1> QED BY <1>1, <1>2, <1>3, <1>4

(* Order and stamps of a queue after one of its NALUs is taken or added.    *)
LEMMA AppendOrder ==
  ASSUME NEW q \in Seq(Nalu), NEW e \in Nalu
  PROVE  /\ Increasing(q) /\ Precedes(Ids(q), {e.id}) => Increasing(Append(q, e))
         /\ Stamped(q) /\ e.id \in DOMAIN arrivals /\ e.ts = arrivals[e.id]
              => Stamped(Append(q, e))
<1> DEFINE r == Append(q, e)  k == Len(q) + 1
<1>1. /\ DOMAIN q = 1..Len(q) /\ DOMAIN r = 1..k /\ k = Len(q) + 1 /\ Len(q) \in Nat
      /\ r[k] = e /\ \A i \in DOMAIN q : r[i] = q[i]
  OBVIOUS
<1> HIDE DEF r, k
<1>2. ASSUME Increasing(q), Precedes(Ids(q), {e.id}) PROVE Increasing(r)
  <2>1. \A i \in DOMAIN q : q[i].id < e.id
    BY <1>2 DEF Precedes, Ids
  <2> SUFFICES ASSUME NEW i \in DOMAIN r, NEW j \in DOMAIN r, i < j PROVE r[i].id < r[j].id
    BY DEF Increasing
  <2>2. i \in DOMAIN q
    BY <1>1
  <2>3. CASE j \in DOMAIN q
    BY <1>1, <1>2, <2>2, <2>3 DEF Increasing
  <2>4. CASE j = k
    BY <1>1, <2>1, <2>2, <2>4
  <2> QED BY <1>1, <2>3, <2>4
<1>3. ASSUME Stamped(q), e.id \in DOMAIN arrivals, e.ts = arrivals[e.id] PROVE Stamped(r)
  <2> SUFFICES ASSUME NEW i \in DOMAIN r
               PROVE  r[i].id \in DOMAIN arrivals /\ r[i].ts = arrivals[r[i].id]
    BY DEF Stamped
  <2>1. CASE i \in DOMAIN q
    BY <1>1, <1>3, <2>1 DEF Stamped
  <2>2. CASE i = k
    BY <1>1, <1>3, <2>2
  <2> QED BY <1>1, <2>1, <2>2
<1> QED BY <1>2, <1>3 DEF r

(* Taking the head of an ordered queue leaves an ordered queue behind it.   *)
LEMMA TailOrder ==
  ASSUME NEW q \in Seq(Nalu), q # <<>>
  PROVE  /\ Increasing(q) => Increasing(Tail(q)) /\ Precedes({Head(q).id}, Ids(Tail(q)))
         /\ Stamped(q) => /\ Stamped(Tail(q))
                          /\ Head(q).id \in DOMAIN arrivals
                          /\ Head(q).ts = arrivals[Head(q).id]
<1> DEFINE t == Tail(q)
<1>1. /\ DOMAIN q = 1..Len(q) /\ Len(q) \in Nat \ {0} /\ Head(q) = q[1]
      /\ DOMAIN t = 1..(Len(q) - 1) /\ \A i \in 1..(Len(q) - 1) : t[i] = q[i + 1]
  OBVIOUS
<1> HIDE DEF t
<1>2. 1 \in DOMAIN q
      /\ \A i \in DOMAIN t : i + 1 \in DOMAIN q /\ t[i] = q[i + 1] /\ 1 < i + 1 /\ i \in Nat
  BY <1>1
<1>3. ASSUME Increasing(q) PROVE Increasing(t) /\ Precedes({Head(q).id}, Ids(t))
  <2>1. Increasing(t)
    BY <1>2, <1>3 DEF Increasing
  <2>2. \A i \in DOMAIN t : Head(q).id < t[i].id
    BY <1>1, <1>2, <1>3 DEF Increasing
  <2> QED BY <2>1, <2>2 DEF Precedes, Ids
<1>4. Stamped(q) => /\ Stamped(t) /\ Head(q).id \in DOMAIN arrivals
                    /\ Head(q).ts = arrivals[Head(q).id]
  BY <1>1, <1>2 DEF Stamped
<1> QED BY <1>3, <1>4 DEF t

(* Handing over a unit that comes after all units delivered.                *)
LEMMA ReturnOrders ==
  ASSUME TypeOK, new_unit' \in UnitOfNalus, NEW cut, Return(cut), UnitsOrdered,
         Increasing(new_unit'.nalus), Precedes(DeliveredIds, Ids(new_unit'.nalus))
  PROVE  UnitsOrdered'
<1> DEFINE r == [ts |-> new_unit'.ts, nalus |-> new_unit'.nalus, cut |-> cut]
           k == Len(delivered) + 1
<1>1. r.nalus = new_unit'.nalus
  OBVIOUS
<1>2. delivered' = Append(delivered, r) /\ pc' = "idle"
  BY DEF Return
<1> HIDE DEF r
<1>3. /\ DOMAIN delivered = 1..Len(delivered) /\ Len(delivered) \in Nat
      /\ DOMAIN delivered' = 1..k /\ delivered'[k] = r
      /\ \A u \in DOMAIN delivered : delivered'[u] = delivered[u]
  BY <1>2 DEF TypeOK
<1>4. k = Len(delivered) + 1
  OBVIOUS
<1> HIDE DEF k
<1>5. \A u \in DOMAIN delivered : Precedes(Ids(delivered[u].nalus), Ids(r.nalus))
  BY <1>1 DEF DeliveredIds, Precedes
<1>6. ASSUME NEW u \in DOMAIN delivered' PROVE Increasing(delivered'[u].nalus)
  BY <1>1, <1>3, <1>4, <1>6 DEF UnitsOrdered
<1>7. ASSUME NEW u \in DOMAIN delivered', NEW v \in DOMAIN delivered', u < v
      PROVE  Precedes(Ids(delivered'[u].nalus), Ids(delivered'[v].nalus))
  <2>1. u \in DOMAIN delivered /\ (v \in DOMAIN delivered \/ v = k)
    BY <1>3, <1>4, <1>7
  <2> QED BY <1>3, <1>5, <1>7, <2>1 DEF UnitsOrdered
<1> QED BY <1>6, <1>7 DEF UnitsOrdered

(* What holds at the beginning of every step.                               *)
Before ==
  /\ Ordered /\ OneRealSize
  /\ IInv /\ Accounted /\ AutoInv /\ OrderInv
  /\ TypeOK' /\ Accounted'

(* Timestamps follow the order of arrival.                                  *)
LEMMA LaterIsNotEarlier ==
  ASSUME Before, NEW a \in Nalu, NEW b \in Nalu, a.id < b.id,
         a.id \in DOMAIN arrivals, a.ts = arrivals[a.id],
         b.id \in DOMAIN arrivals, b.ts = arrivals[b.id]
  PROVE  a.ts <= b.ts
BY DEF Before, OrderInv, ArrivalsSorted

(* A NALU that fits is accepted only before any is rejected; and what is    *)
(* rejected comes from a later instant than the unit.                       *)
LEMMA AcceptBeforeReject ==
  ASSUME Before, pc = "loop", NEW e \in Nalu, e.id \in DOMAIN arrivals, e.ts = arrivals[e.id],
         \A j \in DOMAIN receive_buffer : Unprocessed < j => receive_buffer[j].id < e.id,
         Fits(e)
  PROVE  Unprocessed = Len(receive_buffer)
<1>1. /\ Unprocessed \in Nat /\ Unprocessed <= Len(receive_buffer)
      /\ receive_buffer \in Seq(Nalu) /\ Timestamps \subseteq Nat /\ Unset \notin Timestamps
  BY TimestampAssumption DEF Before, IInv, TypeOK, Unprocessed
<1> SUFFICES ASSUME Unprocessed < Len(receive_buffer) PROVE FALSE
  BY <1>1
<1> DEFINE k == receive_buffer[Len(receive_buffer)]
<1>2. Len(receive_buffer) \in DOMAIN receive_buffer /\ k \in Nalu
  BY <1>1
<1>3. k.id < e.id /\ new_unit.ts \in Timestamps /\ new_unit.ts < k.ts
  BY <1>2 DEF Before, OrderInv, RejectedLater
<1>4. k.id \in DOMAIN arrivals /\ k.ts = arrivals[k.id]
  BY <1>2 DEF Before, OrderInv, AllStamped, Stamped
<1> HIDE DEF k
<1>5. k.ts <= e.ts
  BY <1>2, <1>3, <1>4, LaterIsNotEarlier
<1>6. k.ts \in Nat /\ e.ts \in Nat /\ new_unit.ts \in Nat
  BY <1>1, <1>2, <1>3 DEF Nalu
<1> QED BY <1>1, <1>3, <1>5, <1>6 DEF Fits

(* On an ordered network a rejected NALU is of a later instant than the unit. *)
LEMMA RejectIsLater ==
  ASSUME Before, pc = "loop", NEW e \in Nalu, e.id \in DOMAIN arrivals, e.ts = arrivals[e.id],
         Precedes(Ids(InHand), {e.id}), ~ Fits(e)
  PROVE  new_unit.ts \in Timestamps /\ new_unit.ts < e.ts /\ size_received > 0
<1>1. new_unit.ts # Unset /\ new_unit.ts # e.ts
  BY DEF Fits
<1>2. size_received > 0
  <2>1. size_received # 0
    BY <1>1 DEF Before, IInv, NothingTaken, EmptyUnit
  <2> QED BY <2>1 DEF Before, IInv, TypeOK
<1>3. /\ InHand = new_unit.nalus /\ new_unit \in UnitOfNalus /\ new_unit.nalus # <<>>
      /\ Uniform(new_unit) /\ InHand \in Seq(Nalu)
  BY <1>1, InHandNalus DEF Before, OrderInv, StampHasNalu, IInv, UnitsUniform, TypeOK
<1>4. new_unit.ts \in Timestamps
  BY <1>1, <1>3 DEF UnitOfNalus
<1> DEFINE h == InHand[1]
<1>5. 1 \in DOMAIN InHand /\ h \in Nalu
  BY <1>3
<1>6. h.ts = new_unit.ts /\ h.id \in DOMAIN arrivals /\ h.ts = arrivals[h.id]
  BY <1>3, <1>5 DEF Uniform, Before, OrderInv, AllStamped, Stamped
<1>7. h.id < e.id
  BY <1>5 DEF Precedes, Ids
<1> HIDE DEF h
<1>8. h.ts <= e.ts
  BY <1>5, <1>6, <1>7, LaterIsNotEarlier
<1>9. new_unit.ts \in Nat /\ e.ts \in Nat
  BY <1>4, TimestampAssumption DEF Nalu
<1> QED BY <1>1, <1>2, <1>4, <1>6, <1>8, <1>9

(* What the lemmas below use of the types.                                  *)
LEMMA QueueTypes ==
  ASSUME Before
  PROVE  /\ TypeOK /\ IInv /\ OrderInv
         /\ socket \in Seq(Nalu) /\ receive_buffer \in Seq(Nalu) /\ InHand \in Seq(Nalu)
         /\ new_unit' \in UnitOfNalus /\ InHand' \in Seq(Nalu)
         /\ Unprocessed \in Nat /\ Unprocessed <= Len(receive_buffer)
         /\ pc # "loop" => Unprocessed = Len(receive_buffer)
         /\ Ids(<<>>) = {} /\ Increasing(<<>>) /\ Stamped(<<>>)
<1>1. InHand' \in Seq(Nalu)
  BY DEF Before, InHand, TypeOK, UnitOfNalus
<1>2. Ids(<<>>) = {} /\ Increasing(<<>>) /\ Stamped(<<>>)
  BY DEF Ids, Increasing, Stamped
<1>3. TypeOK /\ IInv /\ OrderInv /\ new_unit' \in UnitOfNalus
  BY DEF Before, IInv, TypeOK
<1>4. InHand \in Seq(Nalu)
  BY <1>3, InHandNalus
<1>5. socket \in Seq(Nalu) /\ receive_buffer \in Seq(Nalu)
      /\ Unprocessed \in Nat /\ Unprocessed <= Len(receive_buffer)
      /\ (pc # "loop" => Unprocessed = Len(receive_buffer))
  BY <1>3 DEF TypeOK, Unprocessed
<1> QED BY <1>1, <1>2, <1>3, <1>4, <1>5

(* Frames arrive in the order in which they were stamped.                   *)
LEMMA ArriveOrder ==
  ASSUME Before, NEW ts \in Timestamps, Arrive(ts)
  PROVE  OrderInv'
<1> DEFINE e == [id |-> Len(arrivals) + 1, ts |-> ts]
<1>1. /\ MayArrive(ts) /\ arrivals' = Append(arrivals, ts) /\ socket' = Append(socket, e)
      /\ UNCHANGED <<pc, receive_buffer, delivered, new_unit, size_received, expected_size,
                     buffer_unprocessed_count>>
  BY DEF Arrive, callVars
<1>2. InHand' = InHand /\ Unprocessed' = Unprocessed /\ DeliveredIds' = DeliveredIds
  BY <1>1 DEF InHand, Unprocessed, DeliveredIds
<1>3. /\ arrivals \in Seq(Timestamps) /\ Len(arrivals) \in Nat /\ DOMAIN arrivals = 1..Len(arrivals)
      /\ Timestamps \subseteq Nat
  BY QueueTypes, TimestampAssumption DEF TypeOK
<1>4. /\ DOMAIN arrivals' = DOMAIN arrivals \cup {e.id} /\ arrivals'[e.id] = ts
      /\ e.id = Len(arrivals) + 1 /\ e.ts = ts /\ e \in Nalu
      /\ \A i \in DOMAIN arrivals : arrivals'[i] = arrivals[i] /\ i < e.id
  BY <1>1, <1>3 DEF Nalu
<1> HIDE DEF e
<1>5. ArrivalsSorted'
  <2>1. \A i \in DOMAIN arrivals : arrivals[i] <= ts
    BY <1>1 DEF MayArrive, Before
  <2> SUFFICES ASSUME NEW i \in DOMAIN arrivals', NEW j \in DOMAIN arrivals', i < j
               PROVE  arrivals'[i] <= arrivals'[j]
    BY DEF ArrivalsSorted
  <2>2. i \in DOMAIN arrivals
    BY <1>3, <1>4
  <2> QED BY <1>4, <2>1, <2>2, QueueTypes DEF OrderInv, ArrivalsSorted
<1>6. ASSUME NEW q, Stamped(q)
      PROVE  \A i \in DOMAIN q : q[i].id \in DOMAIN arrivals' /\ q[i].ts = arrivals'[q[i].id]
  BY <1>4, <1>6 DEF Stamped
<1>7. Stamped(socket)' /\ Stamped(receive_buffer)' /\ Stamped(InHand)'
  <2>1. /\ DOMAIN socket' = DOMAIN socket \cup {Len(socket) + 1} /\ socket'[Len(socket) + 1] = e
        /\ \A i \in DOMAIN socket : socket'[i] = socket[i]
    BY <1>1, QueueTypes
  <2>2. Stamped(socket) /\ Stamped(receive_buffer) /\ Stamped(InHand)
    BY DEF Before, OrderInv, AllStamped
  <2>3. Stamped(socket)'
    BY <1>4, <1>6, <2>1, <2>2 DEF Stamped
  <2>4. Stamped(receive_buffer)' /\ Stamped(InHand)'
    BY <1>1, <1>2, <1>6, <2>2 DEF Stamped
  <2> QED BY <2>3, <2>4
<1>8. Precedes(Ids(socket), {e.id}) /\ Precedes(Ids(receive_buffer), {e.id})
      /\ Precedes(Ids(InHand), {e.id}) /\ Precedes(DeliveredIds, {e.id})
  <2>1. /\ Ids(socket) \subseteq DOMAIN arrivals /\ Ids(receive_buffer) \subseteq DOMAIN arrivals
        /\ Ids(InHand) \subseteq DOMAIN arrivals /\ DeliveredIds \subseteq DOMAIN arrivals
    <3> HIDE DEF Ids
    <3> QED BY <1>3 DEF Before, Accounted, NothingLost
  <2> QED BY <1>4, <2>1 DEF Precedes
<1>9. Increasing(socket') /\ Ids(socket') = Ids(socket) \cup {e.id}
  BY <1>1, <1>4, <1>8, QueueTypes, AppendOrder, IdsAppend DEF OrderInv
<1>10. PlacesOrdered'
  BY <1>1, <1>2, <1>8, <1>9, QueueTypes DEF OrderInv, PlacesOrdered, Precedes
<1>11. RotatedOrder' /\ RejectedLater' /\ RotationEnds' /\ StampHasNalu' /\ UnitsOrdered'
  BY <1>1, <1>2, QueueTypes
     DEF OrderInv, RotatedOrder, RejectedLater, RotationEnds, StampHasNalu, UnitsOrdered
<1>12. Increasing(InHand')
  BY <1>2, QueueTypes DEF OrderInv
<1> QED BY <1>5, <1>7, <1>9, <1>10, <1>11, <1>12 DEF OrderInv, AllStamped

(* A call begins with the buffer unprocessed and nothing in hand.           *)
LEMMA CallOrder ==
  ASSUME Before, NEW n \in ExpectedSizes, Call(n)
  PROVE  OrderInv'
<1>1. /\ pc = "idle" /\ new_unit' = EmptyUnit /\ pc' # "idle"
      /\ buffer_unprocessed_count' = Len(receive_buffer)
      /\ UNCHANGED <<arrivals, socket, receive_buffer, delivered>>
  BY DEF Call, Begin
<1>2. InHand = <<>> /\ InHand' = <<>> /\ Unprocessed' = Len(receive_buffer)
      /\ Unprocessed = Len(receive_buffer) /\ DeliveredIds' = DeliveredIds
      /\ new_unit'.ts = Unset
  BY <1>1 DEF InHand, Unprocessed, EmptyUnit, DeliveredIds
<1>3. RotatedOrder' /\ RejectedLater' /\ RotationEnds' /\ StampHasNalu' /\ UnitsOrdered'
  BY <1>1, <1>2, QueueTypes
     DEF OrderInv, RotatedOrder, RejectedLater, RotationEnds, StampHasNalu, UnitsOrdered
<1>4. PlacesOrdered' /\ ArrivalsSorted' /\ AllStamped' /\ Increasing(socket') /\ Increasing(InHand')
  BY <1>1, <1>2, QueueTypes
     DEF OrderInv, PlacesOrdered, ArrivalsSorted, AllStamped, Stamped
<1> QED BY <1>3, <1>4 DEF OrderInv

(* An accepted NALU is the first of those not yet in the unit, and nothing  *)
(* has been rejected before it.                                             *)
LEMMA AcceptedOrder ==
  ASSUME Before, pc = "loop", NEW e \in Nalu, e.id \in DOMAIN arrivals, e.ts = arrivals[e.id],
         InHand' = Append(InHand, e), new_unit'.nalus # <<>>,
         UNCHANGED <<arrivals, delivered>>,
         Increasing(receive_buffer'), Stamped(receive_buffer'),
         Unprocessed' = Len(receive_buffer'), receive_buffer' \in Seq(Nalu),
         Increasing(socket'), Stamped(socket'),
         Ids(receive_buffer') \subseteq Ids(receive_buffer), Ids(socket') \subseteq Ids(socket),
         Precedes(Ids(InHand), {e.id}), Precedes(DeliveredIds, {e.id}),
         Precedes({e.id}, Ids(receive_buffer')), Precedes({e.id}, Ids(socket'))
  PROVE  OrderInv'
<1>1. Ids(InHand') = Ids(InHand) \cup {e.id} /\ Increasing(InHand') /\ Stamped(InHand')
  BY QueueTypes, IdsAppend, AppendOrder DEF OrderInv, AllStamped
<1>2. DeliveredIds' = DeliveredIds
  BY DEF DeliveredIds
<1>3. PlacesOrdered'
  BY <1>1, <1>2, QueueTypes DEF OrderInv, PlacesOrdered, Precedes
<1>4. ArrivalsSorted' /\ UnitsOrdered'
  BY QueueTypes DEF OrderInv, ArrivalsSorted, UnitsOrdered
<1>5. AllStamped'
  BY <1>1 DEF AllStamped, Stamped
<1>6. RotatedOrder' /\ RejectedLater' /\ RotationEnds' /\ StampHasNalu'
  <2>1. DOMAIN receive_buffer' = 1..Len(receive_buffer')
    OBVIOUS
  <2> QED BY <2>1 DEF RotatedOrder, RejectedLater, RotationEnds, StampHasNalu, Increasing
<1> QED BY <1>1, <1>3, <1>4, <1>5, <1>6 DEF OrderInv

(* An accepted NALU is taken when no NALU has been rejected in this call.   *)
LEMMA AcceptedFirst ==
  ASSUME Before, AcceptBuffered \/ AcceptPulled
  PROVE  Unprocessed = Len(receive_buffer)
<1>1. Stamped(socket) /\ Stamped(receive_buffer) /\ PlacesOrdered /\ RotatedOrder
  BY DEF Before, OrderInv, AllStamped
<1>2. CASE AcceptBuffered
  <2> DEFINE e == Head(receive_buffer)
  <2>1. pc = "loop" /\ receive_buffer # <<>> /\ buffer_unprocessed_count > 0 /\ Fits(e)
    BY <1>2 DEF AcceptBuffered, TakeBuffered, InLoop, Accept, Before, IInv, TypeOK
  <2>2. /\ e = receive_buffer[1] /\ 1 \in DOMAIN receive_buffer /\ e \in Nalu
        /\ e.id \in DOMAIN arrivals /\ e.ts = arrivals[e.id]
    BY <1>1, <2>1, QueueTypes, QueueFacts, HeadTail, TailOrder
  <2> HIDE DEF e
  <2>3. 1 <= Unprocessed /\ \A j \in DOMAIN receive_buffer : j \in Nat
    BY <2>1, QueueTypes, QueueFacts DEF Unprocessed
  <2>4. \A j \in DOMAIN receive_buffer : Unprocessed < j => receive_buffer[j].id < e.id
    BY <1>1, <2>2, <2>3, QueueTypes DEF RotatedOrder
  <2> QED BY <2>1, <2>2, <2>4, AcceptBeforeReject
<1>3. CASE AcceptPulled
  <2> DEFINE e == Head(socket)
  <2>1. pc = "loop" /\ socket # <<>> /\ Fits(e)
    BY <1>3 DEF AcceptPulled, PullFrame, InLoop, Accept
  <2>2. e \in Nalu /\ e.id \in DOMAIN arrivals /\ e.ts = arrivals[e.id]
    BY <1>1, <2>1, QueueTypes, HeadTail, TailOrder
  <2>3. Ids(socket) = Ids(Tail(socket)) \cup {e.id}
    BY <2>1, QueueTypes, IdsHeadTail
  <2> HIDE DEF e
  <2>4. Precedes(Ids(receive_buffer), {e.id})
    BY <1>1, <2>3 DEF PlacesOrdered, Precedes
  <2>5. \A j \in DOMAIN receive_buffer : receive_buffer[j].id < e.id
    BY <2>4 DEF Precedes, Ids
  <2> QED BY <2>1, <2>2, <2>5, AcceptBeforeReject
<1> QED BY <1>2, <1>3

(* A NALU that joins the unit comes after those the unit has.               *)
LEMMA AcceptOrder ==
  ASSUME Before, AcceptBuffered \/ AcceptPulled
  PROVE  OrderInv'
<1>1. /\ Increasing(socket) /\ Stamped(socket) /\ Stamped(receive_buffer) /\ PlacesOrdered
      /\ RotatedOrder
  BY DEF Before, OrderInv, AllStamped
<1>2. CASE AcceptBuffered
  <2> DEFINE e == Head(receive_buffer)  rest == Tail(receive_buffer)
  <2>1. /\ pc = "loop" /\ pc' = pc /\ receive_buffer # <<>> /\ buffer_unprocessed_count > 0
        /\ buffer_unprocessed_count' = buffer_unprocessed_count - 1
        /\ UNCHANGED <<socket, arrivals, delivered>> /\ Fits(e) /\ receive_buffer' = rest
        /\ new_unit'.nalus = Append(new_unit.nalus, e)
    BY <1>2 DEF AcceptBuffered, TakeBuffered, InLoop, Accept, PushBack, Before, IInv, TypeOK
  <2>2. e \in Nalu /\ rest \in Seq(Nalu) /\ Len(rest) = Len(receive_buffer) - 1
    BY <2>1, QueueTypes, HeadTail
  <2>3. /\ e = receive_buffer[1] /\ 1 \in DOMAIN receive_buffer
        /\ Ids(receive_buffer) = Ids(rest) \cup {e.id}
        /\ Stamped(rest) /\ e.id \in DOMAIN arrivals /\ e.ts = arrivals[e.id]
    BY <1>1, <2>1, QueueTypes, QueueFacts, IdsHeadTail, TailOrder
  <2> HIDE DEF e, rest
  <2>4. InHand' = Append(InHand, e) /\ new_unit'.nalus # <<>>
    BY <2>1, <2>2, QueueTypes, QueueFacts DEF InHand
  <2>5. Unprocessed = buffer_unprocessed_count /\ Unprocessed' = Unprocessed - 1
    BY <2>1 DEF Unprocessed
  <2>6. Unprocessed = Len(receive_buffer)
    BY AcceptedFirst
  <2>7. Increasing(receive_buffer)
    <3>1. \A j \in DOMAIN receive_buffer : ~ (Unprocessed < j)
      BY <2>6, QueueTypes, QueueFacts
    <3> QED BY <1>1, <3>1 DEF RotatedOrder, Increasing
  <2>8. Increasing(rest) /\ Precedes({e.id}, Ids(rest))
    BY <2>1, <2>7, QueueTypes, TailOrder DEF e, rest
  <2>9. /\ Precedes(Ids(InHand), {e.id}) /\ Precedes(DeliveredIds, {e.id})
        /\ Precedes({e.id}, Ids(socket))
    BY <1>1, <2>3 DEF PlacesOrdered, Precedes
  <2>10. Stamped(receive_buffer') /\ Stamped(socket')
    BY <1>1, <2>1, <2>3 DEF Stamped
  <2> QED BY <1>1, <2>1, <2>2, <2>3, <2>4, <2>5, <2>6, <2>8, <2>9, <2>10, AcceptedOrder
<1>3. CASE AcceptPulled
  <2> DEFINE e == Head(socket)  rest == Tail(socket)
  <2>1. /\ pc = "loop" /\ pc' = pc /\ socket # <<>> /\ socket' = rest
        /\ buffer_unprocessed_count = 0 /\ buffer_unprocessed_count' = 0
        /\ UNCHANGED <<receive_buffer, arrivals, delivered>> /\ Fits(e)
        /\ new_unit'.nalus = Append(new_unit.nalus, e)
    BY <1>3 DEF AcceptPulled, PullFrame, InLoop, Accept, PushBack
  <2>2. InHand' = Append(InHand, e) /\ new_unit'.nalus # <<>>
    <3>1. e \in Nalu
      BY <2>1, QueueTypes, HeadTail
    <3> QED BY <2>1, <3>1, QueueTypes, QueueFacts DEF InHand
  <2>3. /\ e \in Nalu /\ rest \in Seq(Nalu) /\ Ids(socket) = Ids(rest) \cup {e.id}
        /\ Stamped(rest) /\ e.id \in DOMAIN arrivals /\ e.ts = arrivals[e.id]
        /\ Increasing(rest) /\ Precedes({e.id}, Ids(rest))
    BY <1>1, <2>1, QueueTypes, HeadTail, IdsHeadTail, TailOrder
  <2> HIDE DEF e, rest
  <2>6. Unprocessed = Len(receive_buffer) /\ Unprocessed = 0 /\ Unprocessed' = 0
    BY <2>1, AcceptedFirst DEF Unprocessed
  <2>7. receive_buffer = <<>> /\ receive_buffer' = <<>> /\ Len(receive_buffer') = 0
    BY <2>1, <2>6, QueueTypes, QueueFacts
  <2>8. Precedes(Ids(InHand), {e.id}) /\ Precedes(DeliveredIds, {e.id})
    BY <1>1, <2>3 DEF PlacesOrdered, Precedes
  <2>9. Stamped(receive_buffer') /\ Stamped(socket') /\ Precedes({e.id}, Ids(receive_buffer'))
    BY <2>1, <2>3, <2>7, QueueTypes DEF Stamped, Precedes
  <2> QED BY <1>1, <2>1, <2>2, <2>3, <2>6, <2>7, <2>8, <2>9, QueueTypes, AcceptedOrder
<1> QED BY <1>2, <1>3

(* Between calls the buffer is in order and all of it is unprocessed.       *)
LEMMA IdleOrder ==
  ASSUME Before, pc' = "idle", UNCHANGED arrivals, receive_buffer' \in Seq(Nalu),
         Increasing(receive_buffer'), Stamped(receive_buffer'),
         Increasing(socket'), Stamped(socket'), UnitsOrdered',
         Precedes(DeliveredIds', Ids(receive_buffer')), Precedes(DeliveredIds', Ids(socket')),
         Precedes(Ids(receive_buffer'), Ids(socket'))
  PROVE  OrderInv'
<1>1. InHand' = <<>> /\ Unprocessed' = Len(receive_buffer')
  BY DEF InHand, Unprocessed
<1>2. DOMAIN receive_buffer' = 1..Len(receive_buffer')
  OBVIOUS
<1>3. RotatedOrder' /\ RejectedLater' /\ RotationEnds' /\ StampHasNalu'
  BY <1>1, <1>2 DEF RotatedOrder, RejectedLater, RotationEnds, StampHasNalu, Increasing
<1>4. PlacesOrdered' /\ Increasing(InHand')
  BY <1>1, QueueTypes DEF PlacesOrdered, Precedes
<1>5. ArrivalsSorted' /\ AllStamped'
  BY <1>1, QueueTypes DEF OrderInv, ArrivalsSorted, AllStamped, Stamped
<1> QED BY <1>3, <1>4, <1>5 DEF OrderInv

(* A call that ends hands over what it has in hand.                         *)
LEMMA ReturnedOrder ==
  ASSUME Before, pc # "idle", NEW cut, Return(cut), new_unit' = new_unit, UNCHANGED arrivals,
         receive_buffer' \in Seq(Nalu), Increasing(receive_buffer'), Stamped(receive_buffer'),
         Increasing(socket'), Stamped(socket'),
         Precedes(Ids(receive_buffer'), Ids(socket')),
         Ids(receive_buffer') \subseteq Ids(receive_buffer) \cup Ids(socket),
         Ids(socket') \subseteq Ids(socket)
  PROVE  OrderInv'
<1>1. InHand = new_unit'.nalus
  BY QueueTypes, InHandNalus
<1>2. PlacesOrdered /\ UnitsOrdered /\ Increasing(InHand)
  BY DEF Before, OrderInv
<1>3. UnitsOrdered' /\ DeliveredIds' = DeliveredIds \cup Ids(InHand)
  BY <1>1, <1>2, QueueTypes, ReturnOrders, ReturnDelivers DEF PlacesOrdered
<1>4. Precedes(DeliveredIds', Ids(receive_buffer')) /\ Precedes(DeliveredIds', Ids(socket'))
  BY <1>2, <1>3 DEF PlacesOrdered, Precedes
<1>5. pc' = "idle"
  BY DEF Return
<1> QED BY <1>3, <1>4, <1>5, IdleOrder

(* The steps that end a call, and the clearing of the buffer, keep the order. *)
LEMMA EndOrder ==
  ASSUME Before, PullVPS \/ Timeout \/ Finish \/ ClearReceiveBuffer
  PROVE  OrderInv'
<1>1. /\ Increasing(socket) /\ Stamped(socket) /\ Stamped(receive_buffer) /\ Stamped(InHand)
      /\ PlacesOrdered /\ RotatedOrder /\ UnitsOrdered /\ RotationEnds /\ Increasing(InHand)
  BY DEF Before, OrderInv, AllStamped
<1>2. CASE PullVPS
  <2> DEFINE e == Head(socket)  rest == Tail(socket)
  <2>1. /\ pc = "vps" /\ socket # <<>> /\ socket' = rest /\ Return(FALSE)
        /\ UNCHANGED <<receive_buffer, arrivals>>
        /\ new_unit'.nalus = Append(new_unit.nalus, e)
    BY <1>2 DEF PullVPS, PushBack
  <2>2. InHand = <<>> /\ new_unit.nalus = <<>> /\ receive_buffer = <<>> /\ receive_buffer' = <<>>
    BY <2>1, QueueTypes, InHandNalus DEF IInv, PullsPaid, NothingTaken, NoBufferForVPS, EmptyUnit
  <2>3. /\ e \in Nalu /\ Ids(socket) = Ids(rest) \cup {e.id}
        /\ Stamped(rest) /\ Increasing(rest) /\ Precedes({e.id}, Ids(rest))
    BY <1>1, <2>1, QueueTypes, HeadTail, IdsHeadTail, TailOrder
  <2> HIDE DEF e, rest
  <2>4. Ids(new_unit'.nalus) = {e.id} /\ Increasing(new_unit'.nalus)
    <3>1. new_unit'.nalus = Append(<<>>, e) /\ <<>> \in Seq(Nalu)
      BY <2>1, <2>2
    <3>2. Ids(<<>>) = {} /\ Increasing(<<>>) /\ Precedes({}, {e.id})
      BY QueueTypes DEF Precedes
    <3> QED BY <2>3, <3>1, <3>2, AppendOrder, IdsAppend
  <2>5. Precedes(DeliveredIds, {e.id}) /\ Precedes(DeliveredIds, Ids(rest))
    BY <1>1, <2>3 DEF PlacesOrdered, Precedes
  <2>6. UnitsOrdered' /\ DeliveredIds' = DeliveredIds \cup {e.id} /\ pc' = "idle"
    BY <1>1, <2>1, <2>4, <2>5, QueueTypes, ReturnOrders, ReturnDelivers DEF Return
  <2>7. Stamped(socket') /\ Stamped(receive_buffer')
    BY <2>1, <2>2, <2>3, QueueTypes DEF Stamped
  <2>8. /\ Precedes(DeliveredIds', Ids(socket')) /\ Precedes(DeliveredIds', Ids(receive_buffer'))
        /\ Precedes(Ids(receive_buffer'), Ids(socket'))
    BY <2>1, <2>2, <2>3, <2>5, <2>6, QueueTypes DEF Precedes
  <2> QED BY <2>1, <2>2, <2>3, <2>6, <2>7, <2>8, QueueTypes, IdleOrder
<1>3. CASE Timeout \/ Finish
  <2>1. /\ pc # "idle" /\ UNCHANGED <<arrivals, socket, receive_buffer, new_unit>>
        /\ \/ Return(FALSE) \/ Return(TRUE)
           \/ size_received = 0 /\ pc' = "idle" /\ UNCHANGED delivered
        /\ \/ pc = "vps"
           \/ pc = "loop" /\ buffer_unprocessed_count = 0
           \/ pc = "loop" /\ size_received >= expected_size
    BY <1>3 DEF Timeout, Finish, InLoop, callVars
  <2>2. Unprocessed = 0 \/ Unprocessed = Len(receive_buffer)
    <3>1. size_received \in Nat /\ expected_size \in Nat
      BY QueueTypes DEF TypeOK
    <3>2. pc = "loop" /\ size_received >= expected_size
            => ~ (0 < Unprocessed /\ Unprocessed < Len(receive_buffer))
      BY <1>1, <3>1 DEF RotationEnds
    <3> QED BY <2>1, <3>2, QueueTypes, QueueFacts DEF Unprocessed
  <2>3. Increasing(receive_buffer)
    <3>1. \A i, j \in DOMAIN receive_buffer : ~ (i <= Unprocessed /\ Unprocessed < j)
      BY <2>2, QueueTypes, QueueFacts
    <3> QED BY <1>1, <3>1 DEF RotatedOrder, Increasing
  <2>4. Stamped(socket') /\ Stamped(receive_buffer')
    BY <1>1, <2>1 DEF Stamped
  <2>5. CASE Return(FALSE) \/ Return(TRUE)
    BY <1>1, <2>1, <2>3, <2>4, <2>5, QueueTypes, ReturnedOrder DEF PlacesOrdered
  <2>6. CASE pc' = "idle" /\ UNCHANGED delivered
    <3>1. DeliveredIds' = DeliveredIds /\ UnitsOrdered'
      BY <1>1, <2>6 DEF DeliveredIds, UnitsOrdered
    <3> QED BY <1>1, <2>1, <2>3, <2>4, <2>6, <3>1, QueueTypes, IdleOrder DEF PlacesOrdered
  <2> QED BY <2>1, <2>5, <2>6
<1>4. CASE ClearReceiveBuffer
  <2>1. /\ pc' = "idle" /\ receive_buffer' = <<>> /\ UNCHANGED <<arrivals, socket, delivered>>
    BY <1>4 DEF ClearReceiveBuffer
  <2>2. /\ DeliveredIds' = DeliveredIds /\ UnitsOrdered'
        /\ Stamped(socket') /\ Stamped(receive_buffer')
    BY <1>1, <2>1 DEF DeliveredIds, UnitsOrdered, Stamped
  <2>3. /\ Precedes(DeliveredIds', Ids(receive_buffer'))
        /\ Precedes(Ids(receive_buffer'), Ids(socket'))
    BY <2>1, QueueTypes DEF Precedes
  <2> QED BY <1>1, <2>1, <2>2, <2>3, QueueTypes, IdleOrder DEF PlacesOrdered
<1> QED BY <1>2, <1>3, <1>4

(* A rejected NALU goes behind those rejected before it.                    *)
LEMMA RejectBufferedOrder ==
  ASSUME Before, RejectBuffered
  PROVE  OrderInv'
<1> DEFINE e == Head(receive_buffer)  rest == Tail(receive_buffer)  L == Len(receive_buffer)
<1>1. /\ Increasing(socket) /\ Stamped(socket) /\ Stamped(receive_buffer) /\ Stamped(InHand)
      /\ PlacesOrdered /\ RotatedOrder /\ RejectedLater /\ UnitsOrdered /\ StampHasNalu
      /\ Increasing(InHand) /\ ArrivalsSorted
  BY DEF Before, OrderInv, AllStamped
<1>2. /\ pc = "loop" /\ size_received < expected_size /\ receive_buffer # <<>>
      /\ buffer_unprocessed_count > 0
      /\ buffer_unprocessed_count' = buffer_unprocessed_count - 1
      /\ UNCHANGED <<socket, arrivals, expected_size>> /\ Reject(e, rest)
  BY QueueTypes DEF RejectBuffered, TakeBuffered, InLoop, TypeOK
<1>3. e \in Nalu /\ rest \in Seq(Nalu) /\ e = receive_buffer[1] /\ 1 \in DOMAIN receive_buffer
  BY <1>2, QueueTypes, QueueFacts, HeadTail
<1>4. Ids(receive_buffer) = Ids(rest) \cup {e.id} /\ Stamped(rest)
      /\ e.id \in DOMAIN arrivals /\ e.ts = arrivals[e.id]
  BY <1>1, <1>2, QueueTypes, IdsHeadTail, TailOrder
<1>5. /\ L \in Nat /\ DOMAIN receive_buffer = 1..L /\ DOMAIN Append(rest, e) = 1..L
      /\ Append(rest, e)[L] = e
      /\ \A i \in 1..(L - 1) : Append(rest, e)[i] = receive_buffer[i + 1]
      /\ Append(rest, e) \in Seq(Nalu) /\ Len(Append(rest, e)) = L
  BY <1>2, <1>3, QueueTypes
<1> HIDE DEF e, rest, L
<1>6. new_unit.ts \in Timestamps /\ new_unit.ts < e.ts /\ size_received > 0
  <2>1. Precedes(Ids(InHand), {e.id}) /\ ~ Fits(e)
    BY <1>1, <1>2, <1>4 DEF PlacesOrdered, Precedes, Reject
  <2> QED BY <1>2, <1>3, <1>4, <2>1, RejectIsLater
<1>7. expected_size # SizeMax
  BY <1>2, <1>6 DEF Before, AutoInv
<1>8. /\ receive_buffer' = Append(rest, e) /\ UNCHANGED <<pc, new_unit, delivered>>
      /\ buffer_unprocessed_count' # 0 => size_received' = size_received
  BY <1>2, <1>7, PushNeverDrops DEF Reject
<1>9. /\ InHand' = InHand /\ DeliveredIds' = DeliveredIds
      /\ Unprocessed = buffer_unprocessed_count /\ Unprocessed' = Unprocessed - 1
  BY <1>2, <1>8 DEF InHand, DeliveredIds, Unprocessed
<1>10. Unprocessed \in Nat /\ 1 <= Unprocessed /\ Unprocessed <= L
  BY <1>2, <1>9, QueueTypes DEF L
<1>11. Ids(receive_buffer') = Ids(receive_buffer) /\ Stamped(receive_buffer')
  <2>1. Ids(Append(rest, e)) = Ids(receive_buffer)
    BY <1>3, <1>4, IdsAppend
  <2>2. Stamped(Append(rest, e))
    BY <1>3, <1>4, AppendOrder
  <2> QED BY <1>8, <2>1, <2>2
<1>12. RotatedOrder'
  <2> SUFFICES ASSUME NEW i \in DOMAIN receive_buffer', NEW j \in DOMAIN receive_buffer', i < j
               PROVE  IF i <= Unprocessed' /\ Unprocessed' < j
                        THEN receive_buffer'[j].id < receive_buffer'[i].id
                        ELSE receive_buffer'[i].id < receive_buffer'[j].id
    BY DEF RotatedOrder
  <2>1. /\ i \in 1..(L - 1) /\ j \in 1..L /\ receive_buffer'[i] = receive_buffer[i + 1]
        /\ i + 1 \in DOMAIN receive_buffer /\ 1 < i + 1
    BY <1>5, <1>8
  <2>2. CASE j = L
    <3>1. receive_buffer'[j] = receive_buffer[1]
      BY <1>3, <1>5, <1>8, <2>2
    <3>2. IF 1 <= Unprocessed /\ Unprocessed < i + 1
            THEN receive_buffer[i + 1].id < receive_buffer[1].id
            ELSE receive_buffer[1].id < receive_buffer[i + 1].id
      BY <1>1, <1>3, <2>1 DEF RotatedOrder
    <3> QED BY <1>9, <1>10, <2>1, <2>2, <3>1, <3>2
  <2>3. CASE j # L
    <3>1. receive_buffer'[j] = receive_buffer[j + 1] /\ j + 1 \in DOMAIN receive_buffer
          /\ i + 1 < j + 1
      BY <1>5, <1>8, <2>1, <2>3
    <3>2. IF i + 1 <= Unprocessed /\ Unprocessed < j + 1
            THEN receive_buffer[j + 1].id < receive_buffer[i + 1].id
            ELSE receive_buffer[i + 1].id < receive_buffer[j + 1].id
      BY <1>1, <2>1, <3>1 DEF RotatedOrder
    <3> QED BY <1>9, <1>10, <2>1, <3>1, <3>2
  <2> QED BY <2>2, <2>3
<1>13. RejectedLater'
  <2> SUFFICES ASSUME NEW j \in DOMAIN receive_buffer', Unprocessed' < j
               PROVE  new_unit'.ts \in Timestamps /\ new_unit'.ts < receive_buffer'[j].ts
    BY DEF RejectedLater
  <2>1. CASE j = L
    BY <1>5, <1>6, <1>8, <2>1
  <2>2. CASE j # L
    <3>1. receive_buffer'[j] = receive_buffer[j + 1] /\ j + 1 \in DOMAIN receive_buffer
          /\ Unprocessed < j + 1
      BY <1>5, <1>8, <1>9, <1>10, <2>2
    <3> QED BY <1>1, <1>8, <3>1 DEF RejectedLater
  <2> QED BY <2>1, <2>2
<1>14. RotationEnds' /\ StampHasNalu'
  BY <1>1, <1>2, <1>8, <1>9 DEF RotationEnds, StampHasNalu, Unprocessed
<1>15. PlacesOrdered' /\ UnitsOrdered' /\ ArrivalsSorted'
  BY <1>1, <1>2, <1>8, <1>9, <1>11 DEF PlacesOrdered, UnitsOrdered, ArrivalsSorted
<1>16. AllStamped' /\ Increasing(socket') /\ Increasing(InHand')
  BY <1>1, <1>2, <1>9, <1>11 DEF AllStamped, Stamped
<1> QED BY <1>12, <1>13, <1>14, <1>15, <1>16 DEF OrderInv

(* A rejected frame of the stack goes behind everything in the buffer.      *)
LEMMA RejectPulledOrder ==
  ASSUME Before, RejectPulled
  PROVE  OrderInv'
<1> DEFINE e == Head(socket)  rest == Tail(socket)
<1>1. /\ Increasing(socket) /\ Stamped(socket) /\ Stamped(receive_buffer) /\ Stamped(InHand)
      /\ PlacesOrdered /\ RotatedOrder /\ RejectedLater /\ UnitsOrdered /\ StampHasNalu
      /\ Increasing(InHand) /\ ArrivalsSorted
  BY DEF Before, OrderInv, AllStamped
<1>2. /\ pc = "loop" /\ socket # <<>> /\ socket' = rest
      /\ buffer_unprocessed_count = 0 /\ buffer_unprocessed_count' = 0
      /\ UNCHANGED <<arrivals, expected_size>> /\ Reject(e, receive_buffer)
  BY DEF RejectPulled, PullFrame, InLoop
<1>3. /\ e \in Nalu /\ rest \in Seq(Nalu) /\ Ids(socket) = Ids(rest) \cup {e.id}
      /\ Stamped(rest) /\ Increasing(rest) /\ Precedes({e.id}, Ids(rest))
      /\ e.id \in DOMAIN arrivals /\ e.ts = arrivals[e.id]
  BY <1>1, <1>2, QueueTypes, HeadTail, IdsHeadTail, TailOrder
<1> HIDE DEF e, rest
<1>4. /\ Precedes(Ids(InHand), {e.id}) /\ Precedes(DeliveredIds, {e.id})
      /\ Precedes(Ids(receive_buffer), {e.id})
  BY <1>1, <1>3 DEF PlacesOrdered, Precedes
<1>5. new_unit.ts \in Timestamps /\ new_unit.ts < e.ts /\ size_received > 0
  <2>1. ~ Fits(e)
    BY <1>2 DEF Reject
  <2> QED BY <1>2, <1>3, <1>4, <2>1, RejectIsLater
<1>6. /\ receive_buffer' = Append(receive_buffer, e) /\ new_unit' = new_unit
      /\ Return(FALSE) \/ UNCHANGED <<pc, delivered>>
  BY <1>2, PushNeverDrops DEF Reject
<1>7. Unprocessed = 0
  BY <1>2 DEF Unprocessed
<1>8. Increasing(receive_buffer)
  <2>1. \A i \in DOMAIN receive_buffer : ~ (i <= Unprocessed)
    BY <1>7, QueueTypes, QueueFacts
  <2> QED BY <1>1, <2>1 DEF RotatedOrder, Increasing
<1>9. /\ Ids(receive_buffer') = Ids(receive_buffer) \cup {e.id} /\ Increasing(receive_buffer')
      /\ receive_buffer' \in Seq(Nalu)
  BY <1>3, <1>4, <1>6, <1>8, QueueTypes, IdsAppend, AppendOrder
<1>10. Stamped(receive_buffer') /\ Stamped(socket')
  <2>1. Stamped(Append(receive_buffer, e))
    BY <1>1, <1>3, QueueTypes, AppendOrder
  <2> QED BY <1>2, <1>3, <1>6, <2>1
<1>11. Increasing(socket') /\ Precedes(Ids(receive_buffer'), Ids(socket'))
  BY <1>1, <1>2, <1>3, <1>9 DEF PlacesOrdered, Precedes
<1>12. CASE Return(FALSE)
  BY <1>2, <1>3, <1>6, <1>9, <1>10, <1>11, <1>12, ReturnedOrder
<1>13. CASE UNCHANGED <<pc, delivered>>
  <2>1. InHand' = InHand /\ DeliveredIds' = DeliveredIds /\ Unprocessed' = 0
    BY <1>2, <1>6, <1>13 DEF InHand, DeliveredIds, Unprocessed
  <2>2. DOMAIN receive_buffer' = 1..Len(receive_buffer')
    BY <1>9
  <2>3. RotatedOrder' /\ RotationEnds' /\ StampHasNalu'
    BY <1>1, <1>6, <1>9, <1>13, <2>1, <2>2
       DEF RotatedOrder, RotationEnds, StampHasNalu, Increasing
  <2>4. RejectedLater'
    <3>1. \A j \in DOMAIN receive_buffer' :
            receive_buffer'[j] = e \/ (j \in DOMAIN receive_buffer
                                       /\ receive_buffer'[j] = receive_buffer[j] /\ 0 < j)
      BY <1>6, <1>3, QueueTypes
    <3> QED BY <1>1, <1>5, <1>6, <1>7, <3>1 DEF RejectedLater
  <2>5. PlacesOrdered'
    BY <1>1, <1>2, <1>3, <1>4, <1>9, <1>11, <2>1 DEF PlacesOrdered, Precedes
  <2>6. UnitsOrdered' /\ ArrivalsSorted' /\ AllStamped' /\ Increasing(InHand')
    BY <1>1, <1>2, <1>10, <1>13, <2>1 DEF UnitsOrdered, ArrivalsSorted, AllStamped, Stamped
  <2> QED BY <1>11, <2>3, <2>4, <2>5, <2>6 DEF OrderInv
<1> QED BY <1>6, <1>12, <1>13

(* Every step keeps the order of the places a NALU can be in.               *)
LEMMA OrderStep ==
  ASSUME Before, [Next]_vars
  PROVE  OrderInv'
<1>1. CASE UNCHANGED vars
  <2>1. UNCHANGED <<arrivals, socket, receive_buffer, pc, new_unit, delivered, size_received,
                    expected_size, buffer_unprocessed_count>>
    BY <1>1 DEF vars, callVars
  <2>2. UNCHANGED <<InHand, DeliveredIds, Unprocessed>>
    BY <2>1 DEF InHand, DeliveredIds, Unprocessed
  <2> QED BY <2>1, <2>2, QueueTypes
    DEF OrderInv, ArrivalsSorted, AllStamped, Stamped, RotatedOrder, RejectedLater, RotationEnds,
        StampHasNalu, PlacesOrdered, UnitsOrdered
<1> QED
  BY <1>1, ArriveOrder, CallOrder, AcceptOrder, RejectBufferedOrder, RejectPulledOrder, EndOrder
     DEF Next, Step

(* On a network that keeps the order of frames the invariant holds.         *)
THEOREM OrderInvariant == ASSUME Ordered, OneRealSize PROVE Spec => []OrderInv
<1>1. Init => OrderInv
  <2> SUFFICES ASSUME Init PROVE OrderInv
    OBVIOUS
  <2>1. /\ socket = <<>> /\ receive_buffer = <<>> /\ InHand = <<>> /\ delivered = <<>>
        /\ arrivals = <<>> /\ pc = "idle"
    BY DEF Init, InHand
  <2>2. Ids(<<>>) = {} /\ Increasing(<<>>) /\ Stamped(<<>>) /\ DeliveredIds = {}
    BY <2>1 DEF Ids, Increasing, Stamped, DeliveredIds
  <2>3. RotatedOrder /\ RejectedLater /\ RotationEnds /\ StampHasNalu /\ ArrivalsSorted
        /\ UnitsOrdered
    BY <2>1 DEF RotatedOrder, RejectedLater, RotationEnds, StampHasNalu, ArrivalsSorted,
                UnitsOrdered
  <2> QED BY <2>1, <2>2, <2>3 DEF OrderInv, AllStamped, PlacesOrdered, Precedes
<1>2. IInv /\ IInv' /\ Accounted /\ Accounted' /\ AutoInv /\ OrderInv /\ [Next]_vars => OrderInv'
  BY OrderStep DEF Before, IInv
<1> QED BY <1>1, <1>2, LoopInvariant, AllAccounted, AutoInvariant, PTL DEF Spec

(* If the network loses frames but keeps their order, units are returned in  *)
(* order of arrival, with their NALUs in order; what a call leaves in the    *)
(* buffer follows them and precedes what is still queued.                    *)
THEOREM ReturnedInOrder == ASSUME 0 \notin ExpectedSizes PROVE Spec => []InOrder
<1>1. CASE Ordered /\ OneSize
  <2>1. TypeOK /\ OrderInv => InOrder
    <3> SUFFICES ASSUME TypeOK, OrderInv, pc = "idle" PROVE InOrder
      BY DEF InOrder
    <3>1. Increasing(receive_buffer)
      <4>1. \A j \in DOMAIN receive_buffer : ~ (Unprocessed < j)
        BY QueueFacts DEF TypeOK, Unprocessed
      <4> QED BY <4>1 DEF OrderInv, RotatedOrder, Increasing
    <3>2. Precedes(DeliveredIds, Ids(receive_buffer) \cup Ids(socket))
      BY DEF OrderInv, PlacesOrdered, Precedes
    <3> QED BY <3>1, <3>2 DEF OrderInv, PlacesOrdered, UnitsOrdered, InOrder
  <2>2. Spec => []OrderInv
    BY <1>1, OrderInvariant DEF OneRealSize
  <2> QED BY <2>1, <2>2, TypeCorrect, PTL
<1>2. CASE ~ (Ordered /\ OneSize)
  <2>1. InOrder
    BY <1>2 DEF InOrder
  <2> QED BY <2>1, PTL
<1> QED BY <1>1, <1>2

-----------------------------------------------------------------------------
(* Whole units.  A unit that no timeout ended is complete: its instant is    *)
(* over, and none of its NALUs is left.                                      *)
Sent(a, ts) == {i \in DOMAIN a : a[i] = ts}
Over(a, ts) ==
  (\E i \in DOMAIN a : ts < a[i]) \/ FramesPerInstant <= Cardinality(Sent(a, ts))
Queues == {socket, receive_buffer, InHand}
Stamps(q) == {q[i].ts : i \in DOMAIN q}
NoneLeft(qs, ts) == \A q \in qs : ts \notin Stamps(q)
UnitsComplete ==
  \A u \in DOMAIN delivered :
    ~ delivered[u].cut /\ delivered[u].ts # Unset
      => Over(arrivals, delivered[u].ts) /\ NoneLeft(Queues, delivered[u].ts)
AtMostSent == \A ts \in Timestamps : Cardinality(Sent(arrivals, ts)) <= FramesPerInstant
CountsNalus ==   \* until a NALU is rejected the size received is that of the unit
  pc = "loop" => \/ Unprocessed < Len(receive_buffer)
                 \/ size_received = Len(new_unit.nalus)
SizeExpected == pc # "idle" => expected_size \in ExpectedSizes
WholeInv ==
  AtMostSent /\ SizeExpected
    /\ (type # VPS => CountsNalus /\ UnitsComplete /\ WholeUnits)

(* The frames of an instant are finitely many, and there are at least as    *)
(* many as NALUs of it in a queue without copies.                           *)
LEMMA SentFinite ==
  ASSUME NEW a \in Seq(Timestamps), NEW ts
  PROVE  IsFiniteSet(Sent(a, ts)) /\ Cardinality(Sent(a, ts)) \in Nat
<1>1. Sent(a, ts) \in SUBSET (1..Len(a)) /\ Len(a) \in Nat
  BY DEF Sent
<1>2. IsFiniteSet(1..Len(a))
  BY <1>1, FS_Interval
<1> QED BY <1>1, <1>2, FS_Subset, FS_CardinalityType

(* Different NALUs of an instant are at most as many as were sent of it.    *)
LEMMA CountIds ==
  ASSUME TypeOK, NEW q \in Seq(Nalu), Distinct(q), Stamped(q), NEW ts,
         \A i \in DOMAIN q : q[i].ts = ts
  PROVE  Len(q) <= Cardinality(Sent(arrivals, ts))
<1> DEFINE f == [i \in 1..Len(q) |-> q[i].id]
<1>1. Len(q) \in Nat /\ DOMAIN q = 1..Len(q)
  OBVIOUS
<1>2. f \in [1..Len(q) -> Sent(arrivals, ts)]
  BY <1>1 DEF Stamped, Sent
<1>3. \A x, y \in 1..Len(q) : f[x] = f[y] => x = y
  BY <1>1 DEF Distinct
<1>4. IsFiniteSet(1..Len(q)) /\ Cardinality(1..Len(q)) = Len(q)
  <2>1. 1 \in Int /\ Len(q) \in Int
    BY <1>1
  <2>2. /\ IsFiniteSet(1..Len(q))
        /\ Cardinality(1..Len(q)) = IF 1 > Len(q) THEN 0 ELSE Len(q) - 1 + 1
    BY <2>1, FS_Interval
  <2> QED BY <1>1, <2>2
<1> HIDE DEF f
<1>5. IsFiniteSet(Sent(arrivals, ts)) /\ Cardinality(Sent(arrivals, ts)) \in Nat
  BY SentFinite DEF TypeOK
<1>6. ~ (Cardinality(Sent(arrivals, ts)) < Cardinality(1..Len(q)))
  BY <1>2, <1>3, <1>4, <1>5, FS_PigeonHole
<1> QED BY <1>1, <1>4, <1>5, <1>6

(* An instant that is over stays over, and no frame of it arrives any more. *)
LEMMA OverStays ==
  ASSUME Ordered, TypeOK, TypeOK', NEW ts \in Timestamps, Arrive(ts),
         NEW t \in Timestamps, Over(arrivals, t)
  PROVE  Over(arrivals', t) /\ ts # t
<1>1. /\ MayArrive(ts) /\ arrivals' = Append(arrivals, ts) /\ arrivals \in Seq(Timestamps)
      /\ arrivals' \in Seq(Timestamps) /\ Timestamps \subseteq Nat
  BY TimestampAssumption DEF Arrive, TypeOK
<1>2. /\ DOMAIN arrivals' = DOMAIN arrivals \cup {Len(arrivals) + 1}
      /\ \A i \in DOMAIN arrivals : arrivals'[i] = arrivals[i] /\ arrivals[i] \in Nat
  <2>1. /\ DOMAIN arrivals = 1..Len(arrivals) /\ Len(arrivals) \in Nat
        /\ \A i \in DOMAIN arrivals : arrivals[i] \in Timestamps
    BY <1>1
  <2>2. \A q \in Seq(Timestamps) :
          /\ DOMAIN Append(q, ts) = 1..(Len(q) + 1)
          /\ \A i \in 1..Len(q) : Append(q, ts)[i] = q[i]
    OBVIOUS
  <2>3. DOMAIN arrivals' = 1..(Len(arrivals) + 1)
        /\ \A i \in 1..Len(arrivals) : arrivals'[i] = arrivals[i]
    BY <1>1, <2>2
  <2>4. \A i \in DOMAIN arrivals : arrivals'[i] = arrivals[i] /\ arrivals[i] \in Nat
    BY <1>1, <2>1, <2>3
  <2>5. DOMAIN arrivals' = DOMAIN arrivals \cup {Len(arrivals) + 1}
    BY <2>1, <2>3
  <2> QED BY <2>4, <2>5
<1>3. Cardinality(Sent(arrivals, t)) <= Cardinality(Sent(arrivals', t))
  <2>1. Sent(arrivals, t) \in SUBSET Sent(arrivals', t)
    BY <1>2 DEF Sent
  <2> QED BY <1>1, <2>1, SentFinite, FS_Subset
<1>4. FramesPerInstant \in Nat /\ Cardinality(Sent(arrivals, t)) \in Nat
      /\ Cardinality(Sent(arrivals', t)) \in Nat
  BY <1>1, SentFinite, SizeAssumption
<1>5. Over(arrivals', t)
  BY <1>2, <1>3, <1>4 DEF Over
<1>6. ASSUME ts = t PROVE FALSE
  <2>1. /\ \A i \in DOMAIN arrivals : arrivals[i] <= ts
        /\ Cardinality(Sent(arrivals, ts)) < FramesPerInstant
    BY <1>1 DEF MayArrive, Sent
  <2>2. t \in Nat
    BY <1>1
  <2> QED BY <1>2, <1>4, <1>6, <2>1, <2>2 DEF Over
<1> QED BY <1>5, <1>6

(* The invariant of a step, for a type other than the VPS.                  *)
WholeBefore ==
  /\ Before /\ OrderInv' /\ WholeInv
  /\ \A n \in ExpectedSizes : FramesPerInstant <= n
  /\ type # VPS

(* Handing over a unit: if no timeout ended it, its instant is over and     *)
(* nothing of it is left; and none of it was handed over before.            *)
LEMMA ReturnWhole ==
  ASSUME WholeBefore, pc # "idle", new_unit' = new_unit, NEW cut \in BOOLEAN, Return(cut),
         UNCHANGED arrivals,
         \A t \in Timestamps : NoneLeft(Queues, t) => NoneLeft(Queues', t),
         ~ cut /\ new_unit.ts # Unset =>
           Over(arrivals, new_unit.ts) /\ NoneLeft(Queues', new_unit.ts)
  PROVE  UnitsComplete' /\ WholeUnits'
<1> DEFINE r == [ts |-> new_unit'.ts, nalus |-> new_unit'.nalus, cut |-> cut]
           k == Len(delivered) + 1
<1>1. r.nalus = new_unit.nalus /\ r.ts = new_unit.ts /\ r.cut = cut
  OBVIOUS
<1>2. delivered' = Append(delivered, r)
  BY DEF Return
<1> HIDE DEF r
<1>3. /\ DOMAIN delivered = 1..Len(delivered) /\ Len(delivered) \in Nat
      /\ DOMAIN delivered' = 1..k /\ delivered'[k] = r /\ k = Len(delivered) + 1
      /\ \A u \in DOMAIN delivered : delivered'[u] = delivered[u] /\ delivered[u] \in ReturnedUnit
  BY <1>2 DEF WholeBefore, Before, IInv, TypeOK
<1> HIDE DEF k
<1>4. arrivals' = arrivals
  OBVIOUS
<1>5. UnitsComplete /\ (Ordered /\ OneSize => \A u, v \in DOMAIN delivered :
          u < v /\ delivered[u].ts = delivered[v].ts /\ delivered[u].ts # Unset
            => delivered[u].cut)
  BY DEF WholeBefore, WholeInv, WholeUnits
<1>6. ASSUME NEW u \in DOMAIN delivered', ~ delivered'[u].cut, delivered'[u].ts # Unset
      PROVE  Over(arrivals', delivered'[u].ts) /\ NoneLeft(Queues', delivered'[u].ts)
  <2>1. CASE u \in DOMAIN delivered
    <3>1. delivered[u].ts \in Timestamps
      BY <1>3, <1>6, <2>1 DEF ReturnedUnit
    <3> QED BY <1>3, <1>4, <1>5, <1>6, <2>1, <3>1 DEF UnitsComplete
  <2>2. CASE u = k
    BY <1>1, <1>3, <1>4, <1>6, <2>2
  <2> QED BY <1>3, <2>1, <2>2
<1>7. ASSUME NEW u \in DOMAIN delivered, delivered[u].ts = new_unit.ts, new_unit.ts # Unset,
             ~ delivered[u].cut
      PROVE  FALSE
  <2>1. NoneLeft(Queues, new_unit.ts)
    BY <1>5, <1>7 DEF UnitsComplete
  <2>2. InHand = new_unit.nalus /\ new_unit.nalus # <<>> /\ Uniform(new_unit)
        /\ new_unit.nalus \in Seq(Nalu)
    BY <1>7, QueueTypes, InHandNalus
       DEF WholeBefore, OrderInv, StampHasNalu, IInv, UnitsUniform, TypeOK, UnitOfNalus
  <2>3. 1 \in DOMAIN InHand /\ InHand[1].ts = new_unit.ts
    BY <2>2, QueueFacts DEF Uniform
  <2> QED BY <2>1, <2>3 DEF NoneLeft, Queues, Stamps
<1>8. ASSUME NEW u \in DOMAIN delivered', NEW v \in DOMAIN delivered', u < v,
             delivered'[u].ts = delivered'[v].ts, delivered'[u].ts # Unset
      PROVE  delivered'[u].cut
  <2>1. u \in DOMAIN delivered /\ delivered'[u] = delivered[u]
        /\ (v \in DOMAIN delivered \/ v = k)
    BY <1>3, <1>8
  <2>2. CASE v \in DOMAIN delivered
    BY <1>3, <1>5, <1>8, <2>1, <2>2 DEF WholeBefore, Before, OneRealSize
  <2>3. CASE v = k
    <3>1. delivered[u].ts = new_unit.ts /\ new_unit.ts # Unset
      BY <1>1, <1>3, <1>8, <2>1, <2>3
    <3> QED BY <1>7, <2>1, <3>1
  <2> QED BY <2>1, <2>2, <2>3
<1> QED BY <1>6, <1>8 DEF UnitsComplete, WholeUnits

(* A step that hands over nothing and brings no frames of an instant of     *)
(* which none is left.                                                      *)
LEMMA KeepWhole ==
  ASSUME WholeBefore, UNCHANGED delivered,
         \A t \in Timestamps : Over(arrivals, t) => Over(arrivals', t),
         \A t \in Timestamps : Over(arrivals, t) /\ NoneLeft(Queues, t) => NoneLeft(Queues', t)
  PROVE  UnitsComplete' /\ WholeUnits'
<1>1. \A u \in DOMAIN delivered : delivered[u].ts # Unset => delivered[u].ts \in Timestamps
  <2>1. \A u \in DOMAIN delivered : delivered[u] \in ReturnedUnit
    BY DEF WholeBefore, Before, IInv, TypeOK
  <2> QED BY <2>1 DEF ReturnedUnit
<1>2. UnitsComplete /\ WholeUnits
  BY DEF WholeBefore, WholeInv
<1>3. UnitsComplete'
  BY <1>1, <1>2 DEF UnitsComplete
<1> QED BY <1>2, <1>3 DEF WholeUnits, WholeBefore, Before, OneRealSize

(* The stamps of a queue after one of its NALUs is taken or added.          *)
LEMMA QueueStamps ==
  ASSUME NEW q \in Seq(Nalu)
  PROVE  /\ \A e \in Nalu : Stamps(Append(q, e)) = Stamps(q) \cup {e.ts}
         /\ q # <<>> => Stamps(q) = Stamps(Tail(q)) \cup {Head(q).ts}
<1>1. ASSUME NEW e \in Nalu PROVE Stamps(Append(q, e)) = Stamps(q) \cup {e.ts}
  <2> DEFINE r == Append(q, e)
  <2>1. /\ DOMAIN r = DOMAIN q \cup {Len(q) + 1}
        /\ r[Len(q) + 1] = e /\ \A i \in DOMAIN q : r[i] = q[i]
    OBVIOUS
  <2>2. Len(q) + 1 \notin DOMAIN q
    OBVIOUS
  <2> HIDE DEF r
  <2> QED BY <2>1, <2>2 DEF Stamps, r
<1>2. ASSUME q # <<>> PROVE Stamps(q) = Stamps(Tail(q)) \cup {Head(q).ts}
  <2> DEFINE t == Tail(q)
  <2>1. /\ DOMAIN q = 1..Len(q) /\ Len(q) \in Nat \ {0} /\ Head(q) = q[1]
        /\ DOMAIN t = 1..(Len(q) - 1) /\ \A i \in 1..(Len(q) - 1) : t[i] = q[i + 1]
    BY <1>2
  <2> HIDE DEF t
  <2>2. \A i \in DOMAIN q : i = 1 \/ (i - 1 \in DOMAIN t /\ t[i - 1] = q[i])
    BY <2>1
  <2>3. 1 \in DOMAIN q /\ \A i \in DOMAIN t : i + 1 \in DOMAIN q /\ t[i] = q[i + 1]
    BY <2>1
  <2>4. Stamps(q) = Stamps(t) \cup {Head(q).ts}
    BY <2>1, <2>2, <2>3 DEF Stamps
  <2> QED BY <2>4 DEF t
<1> QED BY <1>1, <1>2

(* A complete unit: so many NALUs were counted that none of its instant can *)
(* be anywhere else.                                                        *)
LEMMA FullUnit ==
  ASSUME WholeBefore, new_unit.ts \in Timestamps, FramesPerInstant <= Len(InHand),
         pc # "idle"
  PROVE  /\ Over(arrivals, new_unit.ts)
         /\ new_unit.ts \notin Stamps(socket) /\ new_unit.ts \notin Stamps(receive_buffer)
<1> DEFINE t == new_unit.ts
<1>1. /\ InHand \in Seq(Nalu) /\ Stamped(InHand) /\ Distinct(InHand)
      /\ \A i \in DOMAIN InHand : InHand[i].ts = t
  <2>1. InHand = new_unit.nalus /\ Uniform(new_unit) /\ InHand \in Seq(Nalu)
    BY QueueTypes, InHandNalus DEF WholeBefore, IInv, UnitsUniform
  <2> QED BY <2>1 DEF WholeBefore, Before, OrderInv, AllStamped, Accounted, Uniform
<1>2. TypeOK /\ arrivals \in Seq(Timestamps) /\ FramesPerInstant \in Nat /\ Len(InHand) \in Nat
  BY <1>1, QueueTypes, SizeAssumption DEF WholeBefore, TypeOK
<1>3. Len(InHand) <= Cardinality(Sent(arrivals, t)) /\ Cardinality(Sent(arrivals, t)) \in Nat
  BY <1>1, <1>2, CountIds, SentFinite
<1>4. Cardinality(Sent(arrivals, t)) <= FramesPerInstant
  BY DEF WholeBefore, WholeInv, AtMostSent
<1>5. ASSUME NEW q \in {socket, receive_buffer}, NEW i \in DOMAIN q, q[i].ts = t
      PROVE  FALSE
  <2> DEFINE x == q[i]
  <2>1. q \in Seq(Nalu) /\ x \in Nalu /\ Stamped(q)
    BY <1>5, QueueTypes DEF WholeBefore, OrderInv, AllStamped
  <2>2. x.id \in DOMAIN arrivals /\ x.ts = arrivals[x.id] /\ x.ts = t
    BY <1>5, <2>1 DEF Stamped
  <2>3. x.id \in Ids(q) /\ x.id \notin Ids(InHand)
    <3>1. x.id \in Ids(q)
      BY DEF Ids
    <3>2. Ids(q) \cap Ids(InHand) = {}
      BY DEF WholeBefore, Before, Accounted, Apart
    <3> QED BY <3>1, <3>2
  <2> HIDE DEF x
  <2>4. Distinct(Append(InHand, x)) /\ Stamped(Append(InHand, x))
    BY <1>1, <2>1, <2>2, <2>3, IdsAppend, AppendOrder
  <2>5. Append(InHand, x) \in Seq(Nalu) /\ Len(Append(InHand, x)) = Len(InHand) + 1
        /\ \A j \in DOMAIN Append(InHand, x) : Append(InHand, x)[j].ts = t
    BY <1>1, <2>1, <2>2
  <2> HIDE DEF t
  <2>6. Len(InHand) + 1 <= Cardinality(Sent(arrivals, t))
    BY <1>2, <2>4, <2>5, CountIds
  <2> QED BY <1>2, <1>3, <1>4, <2>6
<1>6. t \notin Stamps(socket) /\ t \notin Stamps(receive_buffer)
  BY <1>5 DEF Stamps
<1>7. Over(arrivals, t)
  BY <1>2, <1>3 DEF Over
<1> QED BY <1>6, <1>7

(* A later NALU shows that the instant of the unit is over.                 *)
LEMMA LaterSeen ==
  ASSUME WholeBefore, NEW e \in Nalu, e.id \in DOMAIN arrivals, e.ts = arrivals[e.id],
         new_unit.ts < e.ts
  PROVE  Over(arrivals, new_unit.ts)
BY DEF Over

(* What arrived after a NALU is not from an earlier instant.                *)
LEMMA AfterIsLater ==
  ASSUME WholeBefore, new_unit.ts \in Timestamps,
         NEW e \in Nalu, e.id \in DOMAIN arrivals, e.ts = arrivals[e.id], new_unit.ts < e.ts,
         NEW q \in Seq(Nalu), Stamped(q), Precedes({e.id}, Ids(q))
  PROVE  new_unit.ts \notin Stamps(q)
<1> SUFFICES ASSUME NEW i \in DOMAIN q, q[i].ts = new_unit.ts PROVE FALSE
  BY DEF Stamps
<1>1. q[i] \in Nalu /\ e.id < q[i].id /\ q[i].id \in DOMAIN arrivals /\ q[i].ts = arrivals[q[i].id]
  BY DEF Stamped, Precedes, Ids
<1>2. e.ts <= q[i].ts
  BY <1>1, LaterIsNotEarlier DEF WholeBefore
<1>3. e.ts \in Nat /\ q[i].ts \in Nat /\ new_unit.ts \in Nat
  BY <1>1, TimestampAssumption DEF Nalu
<1> QED BY <1>2, <1>3

(* A call that finishes without a timeout leaves nothing of its instant.    *)
LEMMA FinishWhole ==
  ASSUME WholeBefore, Finish, new_unit.ts # Unset
  PROVE  Over(arrivals, new_unit.ts) /\ NoneLeft(Queues', new_unit.ts)
<1> DEFINE t == new_unit.ts
<1>1. /\ pc = "loop" /\ pc' = "idle" /\ size_received >= expected_size
      /\ UNCHANGED <<socket, receive_buffer, arrivals>>
  BY DEF Finish, Return
<1>2. t \in Timestamps /\ size_received \in Nat /\ expected_size \in Nat
      /\ FramesPerInstant \in Nat /\ FramesPerInstant <= expected_size
  BY <1>1, QueueTypes, SizeAssumption
     DEF WholeBefore, TypeOK, UnitOfNalus, WholeInv, SizeExpected
<1>3. InHand' = <<>>
  BY <1>1 DEF InHand
<1>4. SUFFICES Over(arrivals, t) /\ t \notin Stamps(socket) /\ t \notin Stamps(receive_buffer)
  BY <1>1, <1>3 DEF NoneLeft, Queues, Stamps
<1>5. CASE size_received = Len(new_unit.nalus)
  <2>1. FramesPerInstant <= Len(InHand)
    BY <1>1, <1>2, <1>5 DEF InHand
  <2> QED BY <1>1, <1>2, <2>1, FullUnit
<1>6. CASE Unprocessed < Len(receive_buffer)
  <2>1. Unprocessed = 0
    BY <1>1, <1>2, <1>6, QueueTypes DEF WholeBefore, OrderInv, RotationEnds
  <2>2. /\ \A j \in DOMAIN receive_buffer : t < receive_buffer[j].ts /\ 0 < j
        /\ 1 \in DOMAIN receive_buffer
    BY <1>6, <2>1, QueueTypes, QueueFacts DEF WholeBefore, OrderInv, RejectedLater
  <2> DEFINE e == receive_buffer[1]
  <2>3. /\ e \in Nalu /\ e.id \in Ids(receive_buffer) /\ t < e.ts
        /\ e.id \in DOMAIN arrivals /\ e.ts = arrivals[e.id]
    BY <2>2, QueueTypes DEF WholeBefore, OrderInv, AllStamped, Stamped, Ids
  <2> HIDE DEF e
  <2>4. Precedes({e.id}, Ids(socket)) /\ Stamped(socket)
    BY <2>3, QueueTypes DEF WholeBefore, OrderInv, PlacesOrdered, Precedes, AllStamped
  <2>5. t \notin Stamps(socket)
    BY <1>2, <2>3, <2>4, QueueTypes, AfterIsLater DEF WholeBefore
  <2>6. t \notin Stamps(receive_buffer)
    <3>1. receive_buffer \in Seq(Nalu) /\ Timestamps \subseteq Nat
      BY QueueTypes, TimestampAssumption DEF WholeBefore
    <3>2. ASSUME NEW j \in DOMAIN receive_buffer
          PROVE  receive_buffer[j].ts \in Nat
      <4>1. receive_buffer[j] \in Nalu
        BY <3>1, QueueFacts
      <4> QED BY <3>1, <4>1 DEF Nalu
    <3>3. t \in Nat
      BY <1>2, <3>1
    <3> HIDE DEF t
    <3>4. \A j \in DOMAIN receive_buffer : receive_buffer[j].ts # t
      BY <2>2, <3>2, <3>3
    <3> QED BY <3>4 DEF Stamps
  <2> QED BY <2>3, <2>5, <2>6, LaterSeen
<1> QED BY <1>1, <1>5, <1>6 DEF WholeBefore, WholeInv, CountsNalus

(* Every step keeps complete units complete.                                *)
LEMMA WholeStep ==
  ASSUME WholeBefore, [Next]_vars
  PROVE  CountsNalus' /\ UnitsComplete' /\ WholeUnits'
<1>1. /\ Before /\ TypeOK /\ TypeOK' /\ CountsNalus /\ SizeExpected /\ type # VPS /\ IInv /\ Ordered
      /\ AutoInv /\ OrderInv
  BY DEF WholeBefore, Before, IInv, WholeInv
<1>2. /\ socket \in Seq(Nalu) /\ receive_buffer \in Seq(Nalu) /\ InHand \in Seq(Nalu)
      /\ Stamps(<<>>) = {}
  BY <1>1, QueueTypes DEF Stamps
<1>3. ASSUME UNCHANGED <<arrivals, delivered>>,
             Stamps(socket') \cup Stamps(receive_buffer') \cup Stamps(InHand')
               \subseteq Stamps(socket) \cup Stamps(receive_buffer) \cup Stamps(InHand)
      PROVE  UnitsComplete' /\ WholeUnits'
  <2>1. \A t : NoneLeft(Queues, t) => NoneLeft(Queues', t)
    BY <1>3 DEF NoneLeft, Queues
  <2> QED BY <1>3, <2>1, KeepWhole
<1>4. ASSUME NEW ts \in Timestamps, Arrive(ts)
      PROVE  CountsNalus' /\ UnitsComplete' /\ WholeUnits'
  <2> DEFINE e == [id |-> Len(arrivals) + 1, ts |-> ts]
  <2>1. /\ socket' = Append(socket, e) /\ e \in Nalu /\ e.ts = ts
        /\ UNCHANGED <<receive_buffer, pc, delivered, new_unit, size_received,
                       buffer_unprocessed_count>>
    BY <1>1, <1>4 DEF Arrive, callVars, Nalu, TypeOK
  <2> HIDE DEF e
  <2>2. Stamps(socket') = Stamps(socket) \cup {ts} /\ UNCHANGED <<InHand, Unprocessed>>
    BY <1>2, <2>1, QueueStamps DEF InHand, Unprocessed
  <2>3. \A t \in Timestamps : Over(arrivals, t) => Over(arrivals', t) /\ ts # t
    BY <1>1, <1>4, OverStays
  <2>4. \A t \in Timestamps : Over(arrivals, t) /\ NoneLeft(Queues, t) => NoneLeft(Queues', t)
    BY <2>1, <2>2, <2>3 DEF NoneLeft, Queues
  <2> QED BY <1>1, <2>1, <2>2, <2>3, <2>4, KeepWhole DEF CountsNalus
<1>5. ASSUME NEW n \in ExpectedSizes, Call(n)
      PROVE  CountsNalus' /\ UnitsComplete' /\ WholeUnits'
  <2>1. /\ size_received' = 0 /\ new_unit'.nalus = <<>> /\ InHand' = <<>>
        /\ UNCHANGED <<arrivals, socket, receive_buffer, delivered>>
    BY <1>5 DEF Call, Begin, EmptyUnit, InHand
  <2> QED BY <1>2, <1>3, <2>1 DEF CountsNalus
<1>6. CASE AcceptBuffered \/ AcceptPulled
  <2>1. Unprocessed = Len(receive_buffer)
    BY <1>1, <1>6, AcceptedFirst
  <2>2. /\ pc = "loop" /\ size_received' = size_received + 1
        /\ UNCHANGED <<pc, delivered, arrivals>>
        /\ \E e \in Nalu : new_unit'.nalus = Append(new_unit.nalus, e)
    <3>1. AcceptBuffered => Head(receive_buffer) \in Nalu
      BY <1>1, <1>2, HeadTail DEF AcceptBuffered, TakeBuffered, InLoop, TypeOK
    <3>2. AcceptPulled => Head(socket) \in Nalu
      BY <1>2, HeadTail DEF AcceptPulled, PullFrame
    <3> QED BY <1>6, <3>1, <3>2
            DEF AcceptBuffered, AcceptPulled, TakeBuffered, PullFrame, InLoop, Accept, PushBack
  <2>3. InHand = new_unit.nalus /\ Len(new_unit'.nalus) = Len(new_unit.nalus) + 1
        /\ InHand' = new_unit'.nalus
    BY <1>2, <2>2 DEF InHand
  <2>4. CountsNalus'
    BY <1>1, <1>2, <2>1, <2>2, <2>3 DEF CountsNalus
  <2>5. Stamps(socket') \cup Stamps(receive_buffer') \cup Stamps(InHand')
          \subseteq Stamps(socket) \cup Stamps(receive_buffer) \cup Stamps(InHand)
    <3>1. CASE AcceptBuffered
      <4>1. /\ receive_buffer # <<>> /\ receive_buffer' = Tail(receive_buffer) /\ socket' = socket
            /\ InHand' = Append(InHand, Head(receive_buffer)) /\ Head(receive_buffer) \in Nalu
        BY <1>1, <1>2, <2>2, <2>3, <3>1, HeadTail
           DEF AcceptBuffered, TakeBuffered, InLoop, Accept, PushBack, TypeOK
      <4> QED BY <1>2, <4>1, QueueStamps
    <3>2. CASE AcceptPulled
      <4>1. /\ socket # <<>> /\ socket' = Tail(socket) /\ receive_buffer' = receive_buffer
            /\ InHand' = Append(InHand, Head(socket)) /\ Head(socket) \in Nalu
        BY <1>2, <2>2, <2>3, <3>2, HeadTail DEF AcceptPulled, PullFrame, Accept, PushBack
      <4> QED BY <1>2, <4>1, QueueStamps
    <3> QED BY <1>6, <3>1, <3>2
  <2> QED BY <1>3, <2>2, <2>4, <2>5
<1>7. CASE RejectBuffered
  <2> DEFINE e == Head(receive_buffer)  rest == Tail(receive_buffer)
  <2>1. /\ pc = "loop" /\ receive_buffer # <<>> /\ UNCHANGED <<arrivals, socket>>
        /\ buffer_unprocessed_count' = buffer_unprocessed_count - 1 /\ Reject(e, rest)
    BY <1>1, <1>7 DEF RejectBuffered, TakeBuffered, InLoop, TypeOK
  <2>2. e \in Nalu /\ rest \in Seq(Nalu) /\ Len(rest) = Len(receive_buffer) - 1
        /\ Stamps(receive_buffer) = Stamps(rest) \cup {e.ts}
    BY <1>2, <2>1, HeadTail, QueueStamps
  <2>3. ~ (expected_size = SizeMax /\ size_received > 0)
    BY <1>1, <2>1 DEF AutoInv
  <2> HIDE DEF e, rest
  <2>4. receive_buffer' = Append(rest, e) /\ UNCHANGED <<pc, new_unit, delivered>>
    BY <2>1, <2>3, PushNeverDrops DEF Reject
  <2>5. Stamps(receive_buffer') = Stamps(receive_buffer) /\ InHand' = InHand
        /\ Len(receive_buffer') = Len(receive_buffer)
    BY <1>2, <2>2, <2>4, QueueStamps, QueueFacts, AppendType DEF InHand
  <2>6. Unprocessed' < Len(receive_buffer')
    <3>1. Unprocessed' = Unprocessed - 1
      BY <2>1, <2>4 DEF Unprocessed
    <3> QED BY <1>1, <2>5, <3>1, QueueTypes, QueueFacts
  <2> QED BY <1>3, <2>1, <2>4, <2>5, <2>6 DEF CountsNalus
<1>8. CASE RejectPulled
  <2> DEFINE e == Head(socket)  rest == Tail(socket)
  <2>1. /\ pc = "loop" /\ socket # <<>> /\ socket' = rest /\ UNCHANGED arrivals
        /\ buffer_unprocessed_count = 0 /\ buffer_unprocessed_count' = 0
        /\ Reject(e, receive_buffer)
    BY <1>8 DEF RejectPulled, PullFrame, InLoop
  <2>2. /\ e \in Nalu /\ rest \in Seq(Nalu) /\ Stamps(socket) = Stamps(rest) \cup {e.ts}
        /\ Ids(socket) = Ids(rest) \cup {e.id}
    BY <1>2, <2>1, HeadTail, QueueStamps, IdsHeadTail
  <2>3. /\ e.id \in DOMAIN arrivals /\ e.ts = arrivals[e.id] /\ Stamped(rest)
        /\ Precedes({e.id}, Ids(rest))
    BY <1>1, <1>2, <2>1, TailOrder DEF OrderInv, AllStamped
  <2> HIDE DEF e, rest
  <2>4. receive_buffer' = Append(receive_buffer, e) /\ new_unit' = new_unit
    BY <2>1, PushNeverDrops DEF Reject
  <2>5. Stamps(receive_buffer') = Stamps(receive_buffer) \cup {e.ts}
        /\ receive_buffer' \in Seq(Nalu) /\ Len(receive_buffer') = Len(receive_buffer) + 1
    BY <1>2, <2>2, <2>4, QueueStamps, AppendType
  <2>6. CASE expected_size = SizeMax /\ size_received > 0
    <3>1. Return(FALSE) /\ receive_buffer = <<>> /\ pc' = "idle"
      BY <1>1, <2>1, <2>6 DEF Reject, Return, AutoInv
    <3>2. InHand' = <<>>
      BY <3>1 DEF InHand
    <3>3. Stamps(socket') \cup Stamps(receive_buffer') \cup Stamps(InHand')
            \subseteq Stamps(socket) \cup Stamps(receive_buffer)
      BY <1>2, <2>1, <2>2, <2>5, <3>2
    <3>4. \A t : NoneLeft(Queues, t) => NoneLeft(Queues', t)
      BY <3>3 DEF NoneLeft, Queues
    <3>5. new_unit.ts \in Timestamps /\ new_unit.ts < e.ts
      <4>1. Precedes(Ids(InHand), {e.id}) /\ ~ Fits(e)
        BY <1>1, <2>1, <2>2 DEF OrderInv, PlacesOrdered, Precedes, Reject
      <4> QED BY <1>1, <2>1, <2>2, <2>3, <4>1, RejectIsLater
    <3>6. new_unit.ts \notin Stamps(rest) /\ new_unit.ts # e.ts
      <4>1. new_unit.ts \in Nat /\ e.ts \in Nat
        BY <2>2, <3>5, TimestampAssumption DEF Nalu
      <4>2. new_unit.ts # e.ts
        BY <3>5, <4>1
      <4>3. new_unit.ts \notin Stamps(rest)
        BY <2>2, <2>3, <3>5, AfterIsLater
      <4> QED BY <4>2, <4>3
    <3>7. Over(arrivals, new_unit.ts) /\ NoneLeft(Queues', new_unit.ts)
      BY <1>2, <2>1, <2>2, <2>3, <2>5, <3>1, <3>2, <3>5, <3>6, LaterSeen DEF NoneLeft, Queues
    <3> QED BY <2>1, <2>4, <3>1, <3>4, <3>7, ReturnWhole DEF CountsNalus
  <2>7. CASE ~ (expected_size = SizeMax /\ size_received > 0)
    <3>1. UNCHANGED <<pc, delivered>>
      BY <2>1, <2>7 DEF Reject
    <3>2. InHand' = InHand /\ Unprocessed' = 0
      BY <2>1, <2>4, <3>1 DEF InHand, Unprocessed
    <3>3. Stamps(socket') \cup Stamps(receive_buffer') \cup Stamps(InHand')
            \subseteq Stamps(socket) \cup Stamps(receive_buffer) \cup Stamps(InHand)
      BY <2>1, <2>2, <2>5, <3>2
    <3>4. CountsNalus'
      BY <1>2, <2>5, <3>2, QueueFacts DEF CountsNalus
    <3> QED BY <1>3, <2>1, <3>1, <3>3, <3>4
  <2> QED BY <2>6, <2>7
<1>9. CASE Timeout \/ Finish
  <2>1. /\ pc # "idle" /\ pc' = "idle" /\ new_unit' = new_unit
        /\ UNCHANGED <<arrivals, socket, receive_buffer>>
    BY <1>9 DEF Timeout, Finish, InLoop, Return, callVars
  <2>2. InHand' = <<>> /\ CountsNalus'
    BY <2>1 DEF InHand, CountsNalus
  <2>3. \A t : NoneLeft(Queues, t) => NoneLeft(Queues', t)
    BY <1>2, <2>1, <2>2 DEF NoneLeft, Queues
  <2>4. CASE Finish
    <3>1. Return(FALSE)
      BY <2>4 DEF Finish
    <3> QED BY <2>1, <2>2, <2>3, <2>4, <3>1, FinishWhole, ReturnWhole
  <2>5. CASE Return(TRUE)
    BY <2>1, <2>2, <2>3, <2>5, ReturnWhole
  <2>6. CASE UNCHANGED delivered
    BY <1>2, <1>3, <2>1, <2>2, <2>6
  <2> QED BY <1>9, <2>4, <2>5, <2>6 DEF Timeout
<1>10. CASE ClearReceiveBuffer
  <2>1. /\ receive_buffer' = <<>> /\ UNCHANGED <<arrivals, socket, delivered>> /\ pc' = "idle"
        /\ pc = "idle"
    BY <1>10 DEF ClearReceiveBuffer
  <2>2. InHand' = InHand /\ CountsNalus'
    BY <2>1 DEF InHand, CountsNalus
  <2> QED BY <1>2, <1>3, <2>1, <2>2
<1>11. CASE UNCHANGED vars
  <2>1. UNCHANGED <<arrivals, socket, receive_buffer, pc, new_unit, delivered, size_received,
                    buffer_unprocessed_count>>
    BY <1>11 DEF vars, callVars
  <2>2. InHand' = InHand /\ Unprocessed' = Unprocessed
    BY <2>1 DEF InHand, Unprocessed
  <2> QED BY <1>1, <1>3, <2>1, <2>2 DEF CountsNalus
<1>12. ~ PullVPS
  BY <1>1 DEF PullVPS, IInv, NoBufferForVPS
<1> QED
  BY <1>4, <1>5, <1>6, <1>7, <1>8, <1>9, <1>10, <1>11, <1>12 DEF Next, Step

(* The network never exceeds the frames of an instant, and a running call   *)
(* was given one of the expected sizes.                                     *)
LEMMA SentStep ==
  ASSUME Ordered, TypeOK, TypeOK', AtMostSent, SizeExpected, [Next]_vars
  PROVE  AtMostSent' /\ SizeExpected' /\ type' = type
<1>1. CASE \E ts \in Timestamps : Arrive(ts)
  <2> PICK ts \in Timestamps : Arrive(ts)
    BY <1>1
  <2>1. /\ MayArrive(ts) /\ arrivals' = Append(arrivals, ts) /\ arrivals \in Seq(Timestamps)
        /\ arrivals' \in Seq(Timestamps) /\ UNCHANGED <<type, pc, expected_size>>
    BY DEF Arrive, TypeOK, callVars
  <2>2. ASSUME NEW t \in Timestamps
        PROVE  Cardinality(Sent(arrivals', t)) <= FramesPerInstant
    <3>1. \A q \in Seq(Timestamps) : Sent(Append(q, ts), t) =
            Sent(q, t) \cup (IF t = ts THEN {Len(q) + 1} ELSE {})
      <4> SUFFICES ASSUME NEW q \in Seq(Timestamps)
                   PROVE  Sent(Append(q, ts), t) =
                            Sent(q, t) \cup (IF t = ts THEN {Len(q) + 1} ELSE {})
        OBVIOUS
      <4>1. /\ DOMAIN q = 1..Len(q) /\ Len(q) \in Nat
            /\ DOMAIN Append(q, ts) = 1..(Len(q) + 1)
            /\ Append(q, ts)[Len(q) + 1] = ts
            /\ \A i \in 1..Len(q) : Append(q, ts)[i] = q[i]
        OBVIOUS
      <4>2. DOMAIN Append(q, ts) = DOMAIN q \cup {Len(q) + 1}
        BY <4>1
      <4> QED BY <4>1, <4>2 DEF Sent
    <3>2. Cardinality(Sent(arrivals, t)) <= FramesPerInstant
      BY DEF AtMostSent
    <3>3. CASE t # ts
      BY <2>1, <3>1, <3>2, <3>3
    <3>4. CASE t = ts
      <4>1. Cardinality(Sent(arrivals, t)) < FramesPerInstant
        BY <2>1, <3>4 DEF MayArrive, Sent
      <4>2. IsFiniteSet(Sent(arrivals, t)) /\ Cardinality(Sent(arrivals, t)) \in Nat
        BY <2>1, SentFinite
      <4>3. Len(arrivals) + 1 \notin Sent(arrivals, t)
        BY <2>1 DEF Sent
      <4>4. Cardinality(Sent(arrivals, t) \cup {Len(arrivals) + 1})
              = Cardinality(Sent(arrivals, t)) + 1
        BY <4>2, <4>3, FS_AddElement
      <4>5. Sent(arrivals', t) = Sent(arrivals, t) \cup {Len(arrivals) + 1}
        BY <2>1, <3>1, <3>4
      <4> QED BY <4>1, <4>2, <4>4, <4>5, SizeAssumption
    <3> QED BY <3>3, <3>4
  <2> QED BY <2>1, <2>2 DEF AtMostSent, SizeExpected
<1>2. CASE \E n \in ExpectedSizes : Call(n)
  <2>1. UNCHANGED <<type, arrivals>> /\ expected_size' \in ExpectedSizes
    BY <1>2 DEF Call, Begin
  <2> QED BY <2>1 DEF AtMostSent, SizeExpected
<1>3. CASE Step \/ ClearReceiveBuffer
  <2>1. UNCHANGED <<type, arrivals, expected_size>> /\ (pc' # "idle" => pc # "idle")
    BY <1>3 DEF Step, ClearReceiveBuffer, PullVPS, AcceptBuffered, RejectBuffered, AcceptPulled,
                RejectPulled, TakeBuffered, PullFrame, InLoop, Timeout, Finish, Return, callVars
  <2> QED BY <2>1 DEF AtMostSent, SizeExpected
<1>4. CASE UNCHANGED vars
  BY <1>4 DEF vars, callVars, AtMostSent, SizeExpected
<1> QED BY <1>1, <1>2, <1>3, <1>4 DEF Next

(* On a network that keeps the order of frames, with every expected size at *)
(* least the number of frames of an instant, the invariant of whole units   *)
(* holds.                                                                   *)
THEOREM WholeInvariant ==
  ASSUME Ordered, OneRealSize, \A n \in ExpectedSizes : FramesPerInstant <= n
  PROVE  Spec => []WholeInv
<1>1. Init => WholeInv
  <2> SUFFICES ASSUME Init PROVE WholeInv
    OBVIOUS
  <2>1. arrivals = <<>> /\ pc = "idle" /\ delivered = <<>>
    BY DEF Init
  <2>2. \A ts : Sent(<<>>, ts) = {}
    BY DEF Sent
  <2>3. AtMostSent
    BY <2>1, <2>2, FS_EmptySet, SizeAssumption DEF AtMostSent
  <2> QED BY <2>1, <2>3 DEF WholeInv, SizeExpected, CountsNalus, UnitsComplete, WholeUnits
<1>2. IInv /\ IInv' /\ Accounted /\ Accounted' /\ AutoInv /\ OrderInv /\ OrderInv' /\ WholeInv
        /\ [Next]_vars => WholeInv'
  <2> SUFFICES ASSUME IInv, IInv', Accounted, Accounted', AutoInv, OrderInv, OrderInv', WholeInv,
                      [Next]_vars
               PROVE  WholeInv'
    OBVIOUS
  <2>1. Before
    BY DEF Before, IInv
  <2>2. AtMostSent' /\ SizeExpected' /\ type' = type
    BY SentStep DEF IInv, WholeInv
  <2>3. CASE type # VPS
    <3>1. CountsNalus' /\ UnitsComplete' /\ WholeUnits'
      BY <2>1, <2>3, WholeStep DEF WholeBefore
    <3> QED BY <2>2, <3>1 DEF WholeInv
  <2>4. CASE type = VPS
    BY <2>2, <2>4 DEF WholeInv
  <2> QED BY <2>3, <2>4
<1> QED BY <1>1, <1>2, LoopInvariant, AllAccounted, AutoInvariant, OrderInvariant, PTL DEF Spec

(* On such a network the NALUs of one sampling instant are split over two   *)
(* units only if a timeout ended the earlier one: frames lost on the way    *)
(* never make receive_v3c_unit hand over the rest of an instant early.      *)
THEOREM UnitsWhole ==
  ASSUME 0 \notin ExpectedSizes, \A n \in ExpectedSizes : FramesPerInstant <= n
  PROVE  Spec => []WholeUnits
<1>1. CASE Ordered /\ OneSize
  <2>1. WholeInv => WholeUnits
    BY DEF WholeInv, WholeUnits
  <2>2. Spec => []WholeInv
    BY <1>1, WholeInvariant DEF OneRealSize
  <2> QED BY <2>1, <2>2, PTL
<1>2. CASE ~ (Ordered /\ OneSize)
  <2>1. WholeUnits
    BY <1>2 DEF WholeUnits
  <2> QED BY <2>1, PTL
<1> QED BY <1>1, <1>2

-----------------------------------------------------------------------------
(* UnitReceiver implements UnitCalls: each step of a call is either no step *)
(* of UnitCalls or, if it ends the call, the whole call.                    *)

Passing == INSTANCE UnitAssemblyProofs

(* Cutting a queue in two, and moving the cut by one.                       *)
LEMMA CutQueue ==
  ASSUME NEW S, NEW f \in Seq(S), NEW k \in 0..Len(f)
  PROVE  /\ SubSeq(f, 1, k) \in Seq(S) /\ Len(SubSeq(f, 1, k)) = k
         /\ SubSeq(f, k + 1, Len(f)) \in Seq(S) /\ Len(SubSeq(f, k + 1, Len(f))) = Len(f) - k
         /\ SubSeq(f, 1, k) \o SubSeq(f, k + 1, Len(f)) = f
<1> DEFINE a == SubSeq(f, 1, k)  b == SubSeq(f, k + 1, Len(f))
<1>1. Len(f) \in Nat /\ k \in Nat /\ k <= Len(f) /\ \A i \in 1..Len(f) : f[i] \in S
  OBVIOUS
<1>2. a \in Seq(S) /\ Len(a) = k /\ \A i \in 1..k : a[i] = f[i]
  BY <1>1, SubSeqProperties
<1>3. b \in Seq(S) /\ Len(b) = Len(f) - k /\ \A i \in 1..(Len(f) - k) : b[i] = f[k + i]
  BY <1>1, SubSeqProperties
<1> HIDE DEF a, b
<1>4. a \o b \in Seq(S) /\ Len(a \o b) = Len(f)
      /\ \A i \in 1..Len(f) : (a \o b)[i] = IF i <= k THEN a[i] ELSE b[i - k]
  <2>1. /\ a \o b \in Seq(S) /\ Len(a \o b) = Len(a) + Len(b)
        /\ \A i \in 1..(Len(a) + Len(b)) :
             (a \o b)[i] = IF i <= Len(a) THEN a[i] ELSE b[i - Len(a)]
    BY <1>2, <1>3, ConcatProperties
  <2>2. Len(a) + Len(b) = Len(f)
    BY <1>1, <1>2, <1>3
  <2> QED BY <1>2, <2>1, <2>2
<1>5. \A i \in 1..Len(f) : (a \o b)[i] = f[i]
  BY <1>1, <1>2, <1>3, <1>4
<1>6. a \o b = f
  BY <1>4, <1>5, SeqEqual
<1> QED BY <1>2, <1>3, <1>6 DEF a, b

(* A buffer cut at its ends.                                                *)
LEMMA CutEnds ==
  ASSUME NEW S, NEW f \in Seq(S)
  PROVE  /\ SubSeq(f, 1, Len(f)) = f /\ SubSeq(f, Len(f) + 1, Len(f)) = <<>>
         /\ SubSeq(f, 1, 0) = <<>> /\ SubSeq(f, 0 + 1, Len(f)) = f
BY SubSeqFull, SubSeqEmpty

(* A buffer cut one NALU further.                                           *)
LEMMA CutNext ==
  ASSUME NEW S, NEW f \in Seq(S), NEW k \in 0..(Len(f) - 1)
  PROVE  /\ SubSeq(f, 1, k + 1) = Append(SubSeq(f, 1, k), f[k + 1])
         /\ SubSeq(f, k + 1, Len(f)) # <<>>
         /\ Head(SubSeq(f, k + 1, Len(f))) = f[k + 1]
         /\ Tail(SubSeq(f, k + 1, Len(f))) = SubSeq(f, (k + 1) + 1, Len(f))
         /\ f[k + 1] \in S
<1>1. /\ Len(f) \in Nat /\ k + 1 \in 1..Len(f) /\ k \in 0..Len(f) /\ (k + 1) - 1 = k
      /\ 1 \in 1..Len(f) /\ k + 1 \in 1..Len(f) /\ Len(f) \in (k + 1)..Len(f)
  OBVIOUS
<1>2. SubSeq(f, 1, k + 1) = SubSeq(f, 1, k) \o <<f[k + 1]>>
  BY <1>1, SubSeqRecursiveSecond
<1>3. SubSeq(f, 1, k) \in Seq(S) /\ f[k + 1] \in S
  BY <1>1, CutQueue
<1>4. SubSeq(f, 1, k) \o <<f[k + 1]>> = Append(SubSeq(f, 1, k), f[k + 1])
  BY <1>3, AppendIsConcat
<1>5. Len(SubSeq(f, k + 1, Len(f))) = Len(f) - k
  BY <1>1, CutQueue
<1>6. SubSeq(f, k + 1, Len(f)) # <<>>
  <2>1. Len(f) - k # 0
    BY <1>1
  <2>2. Len(SubSeq(f, k + 1, Len(f))) # 0
    BY <1>5, <2>1
  <2> QED BY <2>2, EmptySeq
<1> QED BY <1>1, <1>2, <1>3, <1>4, <1>6, HeadTailOfSubSeq

(* Two queues one after the other.                                          *)
LEMMA JoinedQueues ==
  ASSUME NEW S, NEW p \in Seq(S), NEW q \in Seq(S)
  PROVE  /\ p \o q \in Seq(S) /\ Len(p \o q) = Len(p) + Len(q)
         /\ p \o <<>> = p /\ <<>> \o q = q
         /\ q # <<>> => Append(p, Head(q)) \o Tail(q) = p \o q
         /\ p # <<>> => Head(p \o q) = Head(p) /\ Tail(p \o q) = Tail(p) \o q
         /\ SubSeq(p \o q, Len(p) + 1, Len(p \o q)) = q
<1>1. p \o q \in Seq(S) /\ Len(p \o q) = Len(p) + Len(q) /\ p \o <<>> = p /\ <<>> \o q = q
  BY ConcatProperties, ConcatEmptySeq
<1>2. ASSUME q # <<>> PROVE Append(p, Head(q)) \o Tail(q) = p \o q
  <2>1. Head(q) \in S /\ Tail(q) \in Seq(S) /\ <<Head(q)>> \in Seq(S)
    BY <1>2
  <2>2. <<Head(q)>> \o Tail(q) = q
    BY <1>2
  <2>3. Append(p, Head(q)) = p \o <<Head(q)>>
    BY <2>1, AppendIsConcat
  <2> QED BY <2>1, <2>2, <2>3, ConcatAssociative
<1>3. p # <<>> => Head(p \o q) = Head(p) /\ Tail(p \o q) = Tail(p) \o q
  OBVIOUS
<1>4. SubSeq(p \o q, Len(p) + 1, Len(p \o q)) = q
  <2> DEFINE r == p \o q  s == SubSeq(r, Len(p) + 1, Len(r))
  <2>1. /\ Len(p) \in Nat /\ Len(q) \in Nat /\ r \in Seq(S) /\ Len(r) = Len(p) + Len(q)
        /\ Len(p) \in 0..Len(r)
        /\ \A i \in 1..Len(q) : r[Len(p) + i] = q[i]
    BY <1>1
  <2> HIDE DEF r
  <2>2. s \in Seq(S) /\ Len(s) = Len(q)
    BY <2>1, CutQueue
  <2>3. \A i \in 1..Len(q) : s[i] = q[i]
    BY <2>1
  <2> HIDE DEF s
  <2>4. s = q
    BY <2>2, <2>3, SeqEqual
  <2> QED BY <2>4 DEF s, r
<1> QED BY <1>1, <1>2, <1>3, <1>4

(* The same of queues of NALUs, quantified.                                 *)
LEMMA Associative ==
  \A a, b, d \in Seq(Nalu) : (a \o b) \o d = a \o (b \o d)
BY ConcatAssociative

(* Appending to the second of two joined queues.                            *)
LEMMA AppendBehind ==
  \A p, q \in Seq(Nalu) : \A e \in Nalu : Append(p \o q, e) = p \o Append(q, e)
<1> SUFFICES ASSUME NEW p \in Seq(Nalu), NEW q \in Seq(Nalu), NEW e \in Nalu
             PROVE  Append(p \o q, e) = p \o Append(q, e)
  OBVIOUS
<1>1. <<e>> \in Seq(Nalu) /\ p \o q \in Seq(Nalu)
  BY ConcatProperties
<1>2. Append(p \o q, e) = (p \o q) \o <<e>> /\ Append(q, e) = q \o <<e>>
  BY <1>1, AppendIsConcat
<1> QED BY <1>1, <1>2, ConcatAssociative

(* A NALU moved from one queue to the one in front changes nothing.         *)
LEMMA MovedOver ==
  \A p, q \in Seq(Nalu) : q # <<>> => Append(p, Head(q)) \o Tail(q) = p \o q
BY JoinedQueues

-----------------------------------------------------------------------------
(* The passes of UnitCalls are those of UnitAssembly.                       *)
LEMMA SamePasses ==
  ASSUME NEW n, NEW b, NEW q
  PROVE  Calls!LastPass(n, b, q) = Passing!LastPass(n, b, q)
BY DEF Calls!LastPass, Passing!LastPass, Calls!Passes, Passing!Passes, Calls!NewCall,
       Passing!NewCall, Calls!EmptyUnit, Passing!EmptyUnit, Calls!TakeNalu, Passing!TakeNalu,
       Calls!AcceptNalu, Passing!AcceptNalu, Calls!RejectNalu, Passing!RejectNalu

(* LastPassAppend of UnitAssemblyProofs, for NALUs.                         *)
LEMMA OnePassMore ==
  ASSUME NEW n, NEW b, NEW q \in Seq(Nalu), NEW e \in Nalu
  PROVE  /\ Calls!LastPass(n, b, <<>>) = Calls!NewCall
         /\ Calls!LastPass(n, b, Append(q, e)) = Calls!TakeNalu(Calls!LastPass(n, b, q), n, b, e)
<1>1. Calls!NewCall = Passing!NewCall
  BY DEF Calls!NewCall, Passing!NewCall, Calls!EmptyUnit, Passing!EmptyUnit
<1>2. \A c : Calls!TakeNalu(c, n, b, e) = Passing!TakeNalu(c, n, b, e)
  BY DEF Calls!TakeNalu, Passing!TakeNalu, Calls!AcceptNalu, Passing!AcceptNalu,
         Calls!RejectNalu, Passing!RejectNalu
<1> QED BY <1>1, <1>2, SamePasses, Passing!LastPassAppend

(* LastPassOver of UnitAssemblyProofs, for NALUs.                           *)
LEMMA NoPassMore ==
  ASSUME NEW n, NEW b, NEW q \in Seq(Nalu), NEW r \in Seq(Nalu),
         \/ Calls!LastPass(n, b, q).stopped
         \/ Calls!LastPass(n, b, q).received >= n
         \/ r = <<>>
  PROVE  Calls!LastPass(n, b, q \o r) = Calls!LastPass(n, b, q)
<1>1. CASE r = <<>>
  BY <1>1, ConcatEmptySeq
<1>2. CASE r # <<>>
  BY <1>2, SamePasses, Passing!LastPassOver
<1> QED BY <1>1, <1>2

-----------------------------------------------------------------------------
(* One pass, when the loop still runs: the NALU is accepted or rejected.    *)
CallState ==
  [unit : UnitOfNalus, received : Nat, mismatch : BOOLEAN, taken : Nat, kept : Seq(Nalu),
   stopped : BOOLEAN]

(* The locals a call begins with.                                           *)
LEMMA NewCallState ==
  /\ Calls!NewCall \in CallState /\ Calls!NewCall.unit = EmptyUnit
  /\ Calls!NewCall.received = 0 /\ Calls!NewCall.mismatch = FALSE /\ Calls!NewCall.taken = 0
  /\ Calls!NewCall.kept = <<>> /\ Calls!NewCall.stopped = FALSE
BY EmptyUnitType DEF CallState, Calls!NewCall, Calls!EmptyUnit, EmptyUnit

(* A pass that accepts its NALU, as it changes the locals.                  *)
LEMMA AcceptPass ==
  ASSUME NEW c \in CallState, NEW e \in Nalu, NEW n \in Nat, NEW b, ~ c.stopped, c.received < n,
         c.unit.ts \in {Unset, e.ts}
  PROVE  LET d == Calls!TakeNalu(c, n, b, e)
         IN /\ d \in CallState /\ d.unit = [ts |-> e.ts, nalus |-> Append(c.unit.nalus, e)]
            /\ d.received = c.received + 1 /\ d.mismatch = FALSE
            /\ d.taken = c.taken + 1 /\ d.kept = c.kept /\ d.stopped = FALSE
<1> DEFINE u == [ts |-> e.ts, nalus |-> Append(c.unit.nalus, e)]
           received == c.received + 1  taken == c.taken + 1
           d == [c EXCEPT !.unit = u, !.received = received, !.mismatch = FALSE, !.taken = taken]
<1>1. u \in UnitOfNalus /\ received \in Nat /\ taken \in Nat
  BY DEF CallState, UnitOfNalus, Nalu
<1>2. Calls!TakeNalu(c, n, b, e) = d
  BY DEF Calls!TakeNalu, Calls!AcceptNalu, CallState
<1> HIDE DEF u, received, taken
<1>3. /\ d.unit = u /\ d.received = received /\ d.mismatch = FALSE
      /\ d.taken = taken /\ d.kept = c.kept /\ d.stopped = FALSE
  BY DEF CallState
<1>4. d \in CallState
  BY <1>1 DEF CallState
<1> HIDE DEF d
<1> QED BY <1>2, <1>3, <1>4 DEF u, received, taken

(* A pass that rejects its NALU, as it changes the locals.                  *)
LEMMA RejectPass ==
  ASSUME NEW c \in CallState, NEW e \in Nalu, NEW n \in Nat, NEW b \in Nat, ~ c.stopped,
         c.received < n, c.unit.ts \notin {Unset, e.ts}
  PROVE  LET d == Calls!TakeNalu(c, n, b, e)
         IN /\ d \in CallState /\ d.unit = c.unit /\ d.mismatch = TRUE
            /\ d.taken = c.taken + 1 /\ d.kept = Append(c.kept, e)
            /\ d.stopped = (n = SizeMax /\ c.received > 0)
            /\ d.received = IF ~ d.stopped /\ c.mismatch /\ c.taken + 1 >= b
                              THEN c.received + 1 ELSE c.received
<1> DEFINE stop == n = SizeMax /\ c.received > 0
           counts == ~ stop /\ c.mismatch /\ c.taken + 1 >= b
           received == IF counts THEN c.received + 1 ELSE c.received
           taken == c.taken + 1
           kept == Append(c.kept, e)
           d == [c EXCEPT !.kept = kept, !.taken = taken, !.stopped = stop,
                          !.received = received, !.mismatch = TRUE]
<1>1. Calls!TakeNalu(c, n, b, e) = d
  BY DEF Calls!TakeNalu, Calls!RejectNalu, CallState
<1>2. stop \in BOOLEAN /\ kept \in Seq(Nalu) /\ received \in Nat /\ taken \in Nat
  BY DEF CallState
<1> HIDE DEF stop, counts, received, taken, kept
<1>3. /\ d.unit = c.unit /\ d.mismatch = TRUE
      /\ d.taken = taken /\ d.kept = kept
      /\ d.stopped = stop /\ d.received = received
  BY DEF CallState
<1>4. d \in CallState
  BY <1>2 DEF CallState
<1> HIDE DEF d
<1> QED BY <1>1, <1>3, <1>4 DEF stop, counts, received, taken, kept

-----------------------------------------------------------------------------
(* The invariant of a running call: its locals are those that the NALUs     *)
(* handled so far, the front of the buffer it found and the frames it has   *)
(* pulled, give a call of UnitCalls; the receive buffer is the rest of what *)
(* it found, followed by the NALUs it has kept.                             *)
Handled(f, unprocessed, p) == SubSeq(f, 1, Len(f) - unprocessed) \o p
Untouched(f, unprocessed) == SubSeq(f, Len(f) - unprocessed + 1, Len(f))
Tracks(c) ==
  /\ c \in CallState /\ c.unit = new_unit /\ c.received = size_received
  /\ c.mismatch = timestamp_mismatch /\ c.stopped = FALSE
LoopTracks ==
  LET u == buffer_unprocessed_count
      c == Calls!LastPass(expected_size, Len(found), Handled(found, u, pulled))
  IN /\ u \in 0..Len(found) /\ (u # 0 => pulled = <<>>)
     /\ Tracks(c) /\ c.taken = Len(found) - u + Len(pulled)
     /\ receive_buffer = Untouched(found, u) \o c.kept
     /\ size_received = 0 => u = Len(found) /\ pulled = <<>>
CallInv ==
  /\ found \in Seq(Nalu) /\ pulled \in Seq(Nalu)
  /\ pc # "loop" => found = receive_buffer /\ pulled = <<>>
  /\ pc # "idle" => expected_size \in ExpectedSizes
  /\ pc = "loop" => LoopTracks

(* A call that ends after k buffered NALUs and the frames p has the effect  *)
(* of a call of UnitCalls.                                                  *)
LEMMA CallEnds ==
  ASSUME NEW n \in Nat, type = VPS => n = 0, found \in Seq(Nalu), pulled \in Seq(Nalu),
         socket \in Seq(Nalu), socket' \in Seq(Nalu), pulled' = <<>>, found' = receive_buffer',
         type' = type,
         NEW k \in 0..Len(found), NEW p \in Seq(Nalu), k = Len(found) \/ p = <<>>,
         p \o socket' = pulled \o socket,
         NEW c \in CallState, c = Calls!LastPass(n, Len(found), SubSeq(found, 1, k) \o p),
         c.taken = k + Len(p),
         c.stopped \/ c.received >= n \/ (k = Len(found) /\ socket' = <<>>),
         c.received > 0 \/ n = 0,
         c.unit = new_unit', NEW cut, cut = (c.received < n /\ ~ c.stopped), Return(cut),
         receive_buffer' = SubSeq(found, k + 1, Len(found)) \o c.kept
  PROVE  Calls!Call(n)
<1> DEFINE f == SubSeq(found, 1, k)  g == SubSeq(found, k + 1, Len(found))
           queue == pulled \o socket
<1>1. /\ f \in Seq(Nalu) /\ Len(f) = k /\ g \in Seq(Nalu) /\ f \o g = found
      /\ k \in Nat /\ Len(found) \in Nat /\ Len(p) \in Nat /\ k <= Len(found)
      /\ queue \in Seq(Nalu)
  <2>1. /\ f \in Seq(Nalu) /\ Len(f) = k /\ g \in Seq(Nalu) /\ f \o g = found
    BY CutQueue
  <2>2. queue \in Seq(Nalu)
    BY ConcatProperties
  <2> HIDE DEF f, g, queue
  <2> QED BY <2>1, <2>2
<1>2. k = Len(found) => g = <<>> /\ f = found
  BY <1>1, CutEnds
<1> HIDE DEF f, g, queue
<1>3. found \o queue = (f \o p) \o (g \o socket')
  <2>1. CASE k = Len(found)
    <3>1. g \o socket' = socket' /\ f = found
      BY <1>2, <2>1, ConcatEmptySeq
    <3>2. (found \o p) \o socket' = found \o (p \o socket')
      BY Associative, ZenonT(30)
    <3> QED BY <3>1, <3>2 DEF queue
  <2>2. CASE p = <<>>
    <3>1. f \o p = f /\ p \o socket' = socket'
      BY <1>1, <2>2, ConcatEmptySeq
    <3>2. (f \o g) \o socket' = f \o (g \o socket')
      <4>1. f \in Seq(Nalu) /\ g \in Seq(Nalu) /\ socket' \in Seq(Nalu)
        BY <1>1
      <4>2. \A b, d \in Seq(Nalu) : (f \o b) \o d = f \o (b \o d)
        BY <4>1, Associative, Zenon
      <4> QED BY <4>1, <4>2, Zenon
    <3> QED BY <1>1, <3>1, <3>2 DEF queue
  <2> QED BY <2>1, <2>2
<1>4. Calls!LastPass(n, Len(found), found \o queue) = c
  <2> DEFINE q == f \o p  rest == g \o socket'
  <2>1. q \in Seq(Nalu) /\ rest \in Seq(Nalu)
    BY <1>1, ConcatProperties
  <2>2. k = Len(found) /\ socket' = <<>> => rest = <<>>
    BY <1>1, <1>2, ConcatEmptySeq
  <2>3. c = Calls!LastPass(n, Len(found), q)
    BY DEF f
  <2>4. found \o queue = q \o rest
    BY <1>3
  <2> HIDE DEF q, rest
  <2>5. Calls!LastPass(n, Len(found), q \o rest) = Calls!LastPass(n, Len(found), q)
    BY <2>1, <2>2, <2>3, NoPassMore
  <2> QED BY <2>3, <2>4, <2>5
<1>5. SubSeq(found, c.taken + 1, Len(found)) = g
  <2>1. CASE p = <<>>
    <3>1. c.taken = k
      BY <1>1, <2>1
    <3> QED BY <3>1 DEF g
  <2>2. CASE k = Len(found)
    BY <1>1, <1>2, <2>2, SubSeqEmpty, SMTT(30)
  <2> QED BY <2>1, <2>2
<1>6. socket' = IF c.taken < Len(found) THEN queue
                ELSE SubSeq(queue, (c.taken - Len(found)) + 1, Len(queue))
  <2>1. CASE k = Len(found)
    <3>1. c.taken - Len(found) = Len(p) /\ ~ (c.taken < Len(found)) /\ queue = p \o socket'
      BY <1>1, <2>1 DEF queue
    <3>2. SubSeq(p \o socket', Len(p) + 1, Len(p \o socket')) = socket'
      BY JoinedQueues, SMTT(30)
    <3> QED BY <3>1, <3>2
  <2>2. CASE k # Len(found)
    <3>1. p = <<>>
      BY <2>2
    <3>2. p \o socket' = socket'
      BY <3>1, ConcatEmptySeq
    <3>3. k \in Nat /\ Len(found) \in Nat /\ k < Len(found) /\ Len(<<>>) = 0
      BY <2>2
    <3>4. c.taken < Len(found)
      <4>1. c.taken = k + Len(<<>>)
        BY <3>1
      <4> QED BY <3>3, <4>1
    <3> QED BY <3>1, <3>2, <3>4 DEF queue
  <2> QED BY <2>1, <2>2
<1> DEFINE r == Calls!AssembleNalus(n, found, queue)
<1>7. /\ r.unit = c.unit /\ r.buffer = g \o c.kept /\ r.socket = socket'
      /\ r.timeout = (c.received = 0 /\ n > 0) /\ r.cut = cut
  BY <1>4, <1>5, <1>6 DEF Calls!AssembleNalus, Calls!Drop
<1>8. Calls!Assemble(type, n, found, queue) = r
  BY DEF Calls!Assemble
<1>9. pulled' \o socket' = socket'
  BY ConcatEmptySeq
<1>10. ~ r.timeout /\ receive_buffer' = r.buffer
  <2>1. c.received \in Nat
    BY DEF CallState
  <2>2. receive_buffer' = g \o c.kept
    BY DEF g
  <2>3. ~ (c.received = 0 /\ n > 0)
    BY <2>1
  <2> HIDE DEF r
  <2> QED BY <1>7, <2>2, <2>3, Zenon
<1>11. delivered' = Append(delivered, [ts |-> r.unit.ts, nalus |-> r.unit.nalus, cut |-> r.cut])
  BY <1>7 DEF Return
<1> HIDE DEF r
<1> QED BY <1>7, <1>8, <1>9, <1>10, <1>11 DEF Calls!Call, queue

-----------------------------------------------------------------------------
(* The history variables: what a step remembers.                            *)
LEMMA Remembered ==
  ASSUME Remember, TypeOK
  PROVE  /\ pc' = "idle" => found' = receive_buffer' /\ pulled' = <<>>
         /\ pc' # "idle" => found' = found
         /\ pc' # "idle" /\ pulls' = pulls => pulled' = pulled
         /\ pc' # "idle" /\ pulls' = pulls + 1 => pulled' = Append(pulled, Head(socket))
         /\ pc' # "idle" /\ pulls' = 0 => pulled' = pulled
<1>1. /\ pulls \in Nat /\ (pulls' = pulls => ~ (pulls' > pulls))
      /\ (pulls' = pulls + 1 => pulls' > pulls) /\ (pulls' = 0 => ~ (pulls' > pulls))
  BY DEF TypeOK
<1> QED BY <1>1 DEF Remember

(* A pass of the loop that keeps the call running is no step of UnitCalls.  *)
Running ==
  /\ IInv /\ CallInv /\ TypeOK' /\ Remember
  /\ pc = "loop" /\ size_received < expected_size

(* What the invariant says of a call in its loop.                           *)
LEMMA RunningFacts ==
  ASSUME Running
  PROVE  LET u == buffer_unprocessed_count  k == Len(found) - u
         IN /\ found \in Seq(Nalu) /\ pulled \in Seq(Nalu) /\ socket \in Seq(Nalu)
            /\ socket' \in Seq(Nalu) /\ receive_buffer \in Seq(Nalu)
            /\ Len(found) \in Nat /\ Len(pulled) \in Nat /\ u \in Nat
            /\ k \in 0..Len(found) /\ u = Len(found) - k
            /\ expected_size \in Nat /\ size_received \in Nat /\ expected_size \in ExpectedSizes
            /\ type # VPS
            /\ SubSeq(found, 1, k) \in Seq(Nalu) /\ SubSeq(found, k + 1, Len(found)) \in Seq(Nalu)
            /\ Handled(found, u, pulled) \in Seq(Nalu)
            /\ \E c \in CallState :
                 /\ c = Calls!LastPass(expected_size, Len(found), SubSeq(found, 1, k) \o pulled)
                 /\ Tracks(c) /\ c.taken = k + Len(pulled)
                 /\ receive_buffer = SubSeq(found, k + 1, Len(found)) \o c.kept
<1> DEFINE u == buffer_unprocessed_count  k == Len(found) - u
<1>1. LoopTracks /\ found \in Seq(Nalu) /\ pulled \in Seq(Nalu) /\ expected_size \in ExpectedSizes
  BY DEF Running, CallInv
<1>2. u \in 0..Len(found) /\ Len(found) \in Nat /\ Len(pulled) \in Nat
  BY <1>1 DEF LoopTracks
<1>3. k \in 0..Len(found) /\ u = Len(found) - k /\ u \in Nat
  BY <1>2
<1>4. /\ socket \in Seq(Nalu) /\ socket' \in Seq(Nalu) /\ receive_buffer \in Seq(Nalu)
      /\ expected_size \in Nat /\ size_received \in Nat
  BY SizeAssumption DEF Running, IInv, TypeOK
<1>5. type # VPS
  <2>1. expected_size # 0
    BY <1>4 DEF Running
  <2> QED BY <2>1 DEF Running, IInv, NoBufferForVPS
<1>6. SubSeq(found, 1, k) \in Seq(Nalu) /\ SubSeq(found, k + 1, Len(found)) \in Seq(Nalu)
  BY <1>1, <1>3, CutQueue
<1>7. SubSeq(found, 1, k) \o pulled \in Seq(Nalu)
  BY <1>1, <1>6, ConcatProperties
<1> DEFINE c == Calls!LastPass(expected_size, Len(found), SubSeq(found, 1, k) \o pulled)
<1>8. /\ Tracks(c) /\ c.taken = k + Len(pulled)
      /\ receive_buffer = SubSeq(found, k + 1, Len(found)) \o c.kept
  BY <1>1 DEF LoopTracks, Handled, Untouched
<1>9. c \in CallState
  BY <1>8 DEF Tracks
<1> HIDE DEF c
<1>10. Handled(found, u, pulled) \in Seq(Nalu)
  BY <1>7 DEF Handled
<1> HIDE DEF u, k
<1>11. \E d \in CallState :
          /\ d = Calls!LastPass(expected_size, Len(found), SubSeq(found, 1, k) \o pulled)
          /\ Tracks(d) /\ d.taken = k + Len(pulled)
          /\ receive_buffer = SubSeq(found, k + 1, Len(found)) \o d.kept
  BY <1>8, <1>9 DEF c
<1> QED BY <1>1, <1>2, <1>3, <1>4, <1>5, <1>6, <1>10, <1>11 DEF u, k

(* The NALU a pass takes, and what it leaves, for either queue.             *)
LEMMA BufferedHead ==
  ASSUME Running, TakeBuffered, NEW k \in 0..Len(found), buffer_unprocessed_count = Len(found) - k,
         NEW c \in CallState, receive_buffer = SubSeq(found, k + 1, Len(found)) \o c.kept
  PROVE  /\ pulled = <<>> /\ k + 1 \in 0..Len(found) /\ Head(receive_buffer) \in Nalu
         /\ buffer_unprocessed_count' = Len(found) - (k + 1)
         /\ Tail(receive_buffer) = SubSeq(found, (k + 1) + 1, Len(found)) \o c.kept
         /\ Tail(receive_buffer) \in Seq(Nalu)
         /\ SubSeq(found, (k + 1) + 1, Len(found)) \in Seq(Nalu)
         /\ SubSeq(found, 1, k + 1) \o <<>>
              = Append(SubSeq(found, 1, k) \o pulled, Head(receive_buffer))
<1> DEFINE g == SubSeq(found, k + 1, Len(found))  f == SubSeq(found, 1, k)
<1>1. /\ found \in Seq(Nalu) /\ Len(found) \in Nat /\ buffer_unprocessed_count \in Nat
      /\ buffer_unprocessed_count > 0
      /\ buffer_unprocessed_count' = buffer_unprocessed_count - 1
  BY RunningFacts DEF TakeBuffered
<1>2. pulled = <<>> /\ k \in 0..(Len(found) - 1) /\ k + 1 \in 0..Len(found)
      /\ buffer_unprocessed_count' = Len(found) - (k + 1)
  <2>1. LoopTracks
    BY DEF Running, CallInv
  <2>2. buffer_unprocessed_count # 0
    BY <1>1
  <2>3. pulled = <<>>
    BY <2>1, <2>2 DEF LoopTracks
  <2>4. k < Len(found)
    BY <1>1
  <2> QED BY <1>1, <2>3, <2>4
<1>3. /\ SubSeq(found, 1, k + 1) = Append(f, found[k + 1]) /\ g # <<>> /\ Head(g) = found[k + 1]
      /\ Tail(g) = SubSeq(found, (k + 1) + 1, Len(found)) /\ found[k + 1] \in Nalu
  BY <1>1, <1>2, CutNext
<1>4. f \in Seq(Nalu) /\ g \in Seq(Nalu)
  BY <1>1, CutQueue
<1>5. SubSeq(found, (k + 1) + 1, Len(found)) \in Seq(Nalu) /\ SubSeq(found, 1, k + 1) \in Seq(Nalu)
  BY <1>1, <1>2, CutQueue
<1>6. c.kept \in Seq(Nalu)
  BY DEF CallState
<1> HIDE DEF f, g
<1> DEFINE kept == c.kept
<1>7. Head(receive_buffer) = Head(g) /\ Tail(receive_buffer) = Tail(g) \o kept
  <2>1. receive_buffer = g \o kept /\ kept \in Seq(Nalu)
    BY <1>6 DEF g
  <2> HIDE DEF kept
  <2>2. Head(g \o kept) = Head(g) /\ Tail(g \o kept) = Tail(g) \o kept
    BY <1>3, <1>4, <2>1, JoinedQueues
  <2> QED BY <2>1, <2>2
<1>8. Tail(receive_buffer) \in Seq(Nalu)
  <2>1. Tail(g) \in Seq(Nalu) /\ kept \in Seq(Nalu)
    BY <1>3, <1>5, <1>6
  <2> HIDE DEF kept
  <2> QED BY <1>7, <2>1, ConcatProperties
<1>9. SubSeq(found, 1, k + 1) \o <<>> = SubSeq(found, 1, k + 1) /\ f \o pulled = f
  BY <1>2, <1>4, <1>5, ConcatEmptySeq
<1> QED BY <1>2, <1>3, <1>5, <1>7, <1>8, <1>9 DEF f

(* Pulling a frame when the buffer has been gone through.                   *)
LEMMA PulledHead ==
  ASSUME Running, PullFrame, NEW k \in 0..Len(found), buffer_unprocessed_count = Len(found) - k
  PROVE  /\ k = Len(found) /\ Head(socket) \in Nalu /\ buffer_unprocessed_count' = Len(found) - k
         /\ Append(pulled, Head(socket)) \in Seq(Nalu)
         /\ Len(Append(pulled, Head(socket))) = Len(pulled) + 1
         /\ socket' = Tail(socket) /\ Append(pulled, Head(socket)) \o socket' = pulled \o socket
         /\ SubSeq(found, 1, k) \o Append(pulled, Head(socket))
              = Append(SubSeq(found, 1, k) \o pulled, Head(socket))
<1>1. /\ found \in Seq(Nalu) /\ Len(found) \in Nat /\ socket \in Seq(Nalu) /\ pulled \in Seq(Nalu)
      /\ socket # <<>> /\ socket' = Tail(socket)
      /\ buffer_unprocessed_count = 0 /\ buffer_unprocessed_count' = 0
  BY RunningFacts DEF PullFrame
<1>2. k = Len(found) /\ buffer_unprocessed_count' = Len(found) - k
  BY <1>1
<1>3. Head(socket) \in Nalu
  BY <1>1, HeadTail
<1>4. /\ Append(pulled, Head(socket)) \in Seq(Nalu)
      /\ Len(Append(pulled, Head(socket))) = Len(pulled) + 1
  BY <1>1, <1>3, AppendType
<1>5. SubSeq(found, 1, k) \in Seq(Nalu)
  BY <1>1, CutQueue
<1>6. Append(pulled, Head(socket)) \o Tail(socket) = pulled \o socket
  BY <1>1, MovedOver, Zenon
<1>7. Append(SubSeq(found, 1, k) \o pulled, Head(socket))
        = SubSeq(found, 1, k) \o Append(pulled, Head(socket))
  <2> DEFINE a == SubSeq(found, 1, k)  e == Head(socket)
  <2>1. a \in Seq(Nalu) /\ e \in Nalu
    BY <1>3, <1>5
  <2> HIDE DEF a, e
  <2>2. Append(a \o pulled, e) = a \o Append(pulled, e)
    BY <1>1, <2>1, AppendBehind, Zenon
  <2> QED BY <2>2 DEF a, e
<1> QED BY <1>1, <1>2, <1>3, <1>4, <1>6, <1>7

(* A pass, for either queue: k NALUs of the buffer found and the frames p   *)
(* are handled after it.                                                    *)
Passed(k, p, e, rest, c, h) ==
  /\ k \in 0..Len(found) /\ p \in Seq(Nalu) /\ (k # Len(found) => p = <<>>)
  /\ e \in Nalu /\ c \in CallState /\ h \in Seq(Nalu)
  /\ c = Calls!LastPass(expected_size, Len(found), h) /\ Tracks(c)
  /\ SubSeq(found, 1, k) \o p = Append(h, e) /\ c.taken + 1 = k + Len(p)
  /\ rest = SubSeq(found, k + 1, Len(found)) \o c.kept

(* A pass that does not end the call keeps the invariant.                   *)
LEMMA KeepsTracking ==
  ASSUME Running, NEW k \in 0..Len(found), NEW p \in Seq(Nalu), k # Len(found) => p = <<>>,
         NEW d \in CallState,
         d = Calls!LastPass(expected_size, Len(found), SubSeq(found, 1, k) \o p),
         d.taken = k + Len(p), d.stopped = FALSE,
         d.unit = new_unit', d.received = size_received', d.mismatch = timestamp_mismatch',
         receive_buffer' = SubSeq(found, k + 1, Len(found)) \o d.kept,
         size_received' # 0, buffer_unprocessed_count' = Len(found) - k,
         found' = found, pulled' = p, pc' = "loop", expected_size' = expected_size
  PROVE  CallInv'
<1>1. /\ found \in Seq(Nalu) /\ Len(found) \in Nat /\ expected_size \in ExpectedSizes
  BY RunningFacts
<1>2. /\ buffer_unprocessed_count' \in 0..Len(found) /\ Len(found) - buffer_unprocessed_count' = k
      /\ (buffer_unprocessed_count' # 0 => p = <<>>)
  BY <1>1
<1>3. LoopTracks'
  BY <1>2 DEF LoopTracks, Handled, Untouched, Tracks
<1> QED BY <1>1, <1>3 DEF CallInv

(* Accept does to the unit and the buffer what the accepting pass does.     *)
LEMMA AcceptTracks ==
  ASSUME Running, NEW k, NEW p, NEW e, NEW rest, NEW c, NEW h, Passed(k, p, e, rest, c, h),
         Accept(e, rest), buffer_unprocessed_count' = Len(found) - k,
         pulled' = p, expected_size' = expected_size
  PROVE  CallInv' /\ found' = found
<1> DEFINE n == expected_size  b == Len(found)  d == Calls!TakeNalu(c, n, b, e)
<1>1. /\ k \in 0..Len(found) /\ p \in Seq(Nalu) /\ (k # Len(found) => p = <<>>)
      /\ e \in Nalu /\ c \in CallState /\ h \in Seq(Nalu) /\ c.taken + 1 = k + Len(p)
      /\ c = Calls!LastPass(n, b, h) /\ SubSeq(found, 1, k) \o p = Append(h, e)
      /\ rest = SubSeq(found, k + 1, Len(found)) \o c.kept
  BY DEF Passed
<1>2. /\ c.unit = new_unit /\ c.received = size_received /\ c.stopped = FALSE
      /\ n \in Nat /\ size_received \in Nat /\ c.received < n
  BY RunningFacts DEF Passed, Tracks, Running
<1>3. /\ new_unit' = [ts |-> e.ts, nalus |-> Append(new_unit.nalus, e)]
      /\ size_received' = size_received + 1 /\ timestamp_mismatch' = FALSE
      /\ receive_buffer' = rest /\ pc' = "loop" /\ c.unit.ts \in {Unset, e.ts}
  BY <1>2 DEF Accept, PushBack, Fits, Running
<1>4. d = Calls!LastPass(n, b, SubSeq(found, 1, k) \o p)
  <2>1. h \in Seq(Nalu) /\ e \in Nalu /\ c = Calls!LastPass(n, b, h)
    BY <1>1
  <2>2. d = Calls!LastPass(n, b, Append(h, e))
    <3> HIDE DEF n, b
    <3> QED BY <2>1, OnePassMore
  <2>3. SubSeq(found, 1, k) \o p = Append(h, e)
    BY <1>1
  <2> HIDE DEF n, b, d
  <2> QED BY <2>2, <2>3
<1>5. /\ d \in CallState /\ d.unit = [ts |-> e.ts, nalus |-> Append(c.unit.nalus, e)]
      /\ d.received = c.received + 1 /\ d.mismatch = FALSE
      /\ d.taken = c.taken + 1 /\ d.kept = c.kept /\ d.stopped = FALSE
  <2>1. /\ c \in CallState /\ e \in Nalu /\ n \in Nat /\ ~ c.stopped /\ c.received < n
        /\ c.unit.ts \in {Unset, e.ts}
    BY <1>1, <1>2, <1>3
  <2> HIDE DEF n, b
  <2> QED BY <2>1, AcceptPass
<1>6. found' = found
  BY <1>3, Remembered DEF Running, IInv
<1> HIDE DEF d
<1>7. /\ d.unit = new_unit' /\ d.received = size_received' /\ d.mismatch = timestamp_mismatch'
      /\ receive_buffer' = SubSeq(found, k + 1, Len(found)) \o d.kept /\ size_received' # 0
      /\ d.taken = k + Len(p)
  <2>1. d.unit = new_unit' /\ d.received = size_received' /\ d.mismatch = timestamp_mismatch'
    BY <1>2, <1>3, <1>5
  <2>2. receive_buffer' = SubSeq(found, k + 1, Len(found)) \o d.kept
    BY <1>1, <1>3, <1>5
  <2>3. size_received' # 0
    BY <1>2, <1>3
  <2>4. d.taken = k + Len(p)
    BY <1>1, <1>5
  <2> QED BY <2>1, <2>2, <2>3, <2>4
<1> QED BY <1>1, <1>3, <1>4, <1>5, <1>6, <1>7, KeepsTracking

(* Reject does to the unit and the buffer what the rejecting pass does.     *)
LEMMA RejectTracks ==
  ASSUME Running, NEW k, NEW p, NEW e, NEW rest, NEW c, NEW h, Passed(k, p, e, rest, c, h),
         rest \in Seq(Nalu), SubSeq(found, k + 1, Len(found)) \in Seq(Nalu),
         Reject(e, rest), buffer_unprocessed_count' = Len(found) - k
  PROVE  \E d \in CallState :
           /\ d = Calls!LastPass(expected_size, Len(found), SubSeq(found, 1, k) \o p)
           /\ d.taken = k + Len(p) /\ d.unit = new_unit' /\ d.received > 0
           /\ receive_buffer' = SubSeq(found, k + 1, Len(found)) \o d.kept
           /\ \/ Return(FALSE) /\ d.stopped = TRUE
              \/ /\ d.stopped = FALSE /\ pc' = "loop" /\ delivered' = delivered
                 /\ d.received = size_received' /\ d.mismatch = timestamp_mismatch'
<1> DEFINE n == expected_size  b == Len(found)  d == Calls!TakeNalu(c, n, b, e)
<1>1. /\ k \in 0..Len(found) /\ p \in Seq(Nalu) /\ (k # Len(found) => p = <<>>)
      /\ e \in Nalu /\ c \in CallState /\ h \in Seq(Nalu) /\ c.taken + 1 = k + Len(p)
      /\ c = Calls!LastPass(n, b, h) /\ SubSeq(found, 1, k) \o p = Append(h, e)
      /\ rest = SubSeq(found, k + 1, Len(found)) \o c.kept
  BY DEF Passed
<1>2. /\ c.unit = new_unit /\ c.received = size_received /\ c.stopped = FALSE
      /\ c.mismatch = timestamp_mismatch
      /\ n \in Nat /\ b \in Nat /\ size_received \in Nat /\ c.received < n
  BY RunningFacts DEF Passed, Tracks, Running
<1>3. /\ new_unit' = new_unit /\ receive_buffer' = Append(rest, e)
      /\ c.unit.ts \notin {Unset, e.ts}
  BY <1>2, PushNeverDrops DEF Reject, Fits
<1>4. size_received > 0
  <2>1. new_unit # EmptyUnit
    BY <1>2, <1>3 DEF EmptyUnit
  <2>2. size_received # 0
    BY <2>1 DEF Running, IInv, NothingTaken
  <2> QED BY <1>2, <2>2
<1>5. d = Calls!LastPass(n, b, SubSeq(found, 1, k) \o p)
  <2>1. h \in Seq(Nalu) /\ e \in Nalu /\ c = Calls!LastPass(n, b, h)
    BY <1>1
  <2>2. d = Calls!LastPass(n, b, Append(h, e))
    <3> HIDE DEF n, b
    <3> QED BY <2>1, OnePassMore
  <2>3. SubSeq(found, 1, k) \o p = Append(h, e)
    BY <1>1
  <2> HIDE DEF n, b, d
  <2> QED BY <2>2, <2>3
<1>6. /\ d \in CallState /\ d.unit = c.unit /\ d.mismatch = TRUE
      /\ d.taken = c.taken + 1 /\ d.kept = Append(c.kept, e)
      /\ d.stopped = (n = SizeMax /\ c.received > 0)
      /\ d.received = IF ~ d.stopped /\ c.mismatch /\ c.taken + 1 >= b
                        THEN c.received + 1 ELSE c.received
  <2>1. /\ c \in CallState /\ e \in Nalu /\ n \in Nat /\ b \in Nat /\ ~ c.stopped
        /\ c.received < n /\ c.unit.ts \notin {Unset, e.ts}
    BY <1>1, <1>2, <1>3
  <2> HIDE DEF n, b
  <2> QED BY <2>1, RejectPass
<1> HIDE DEF d
<1>7. receive_buffer' = SubSeq(found, k + 1, Len(found)) \o d.kept
  <2> DEFINE g == SubSeq(found, k + 1, Len(found))  kept == c.kept
  <2>1. g \in Seq(Nalu) /\ kept \in Seq(Nalu) /\ receive_buffer' = Append(g \o kept, e)
        /\ d.kept = Append(kept, e) /\ e \in Nalu
    BY <1>1, <1>3, <1>6 DEF CallState
  <2> HIDE DEF g, kept
  <2>2. Append(g \o kept, e) = g \o Append(kept, e)
    BY <2>1, AppendBehind, Zenon
  <2> QED BY <2>1, <2>2 DEF g
<1>8. c.taken + 1 >= b <=> buffer_unprocessed_count' = 0
  <2>1. CASE k = Len(found)
    BY <1>1, <1>2, <2>1
  <2>2. CASE k # Len(found)
    <3>1. Len(p) = 0
      BY <1>1, <2>2
    <3> QED BY <1>1, <1>2, <2>2, <3>1
  <2> QED BY <2>1, <2>2
<1>9. d.received > 0 /\ d.taken = k + Len(p) /\ d.unit = new_unit'
  BY <1>1, <1>2, <1>3, <1>4, <1>6
<1>10. CASE n = SizeMax /\ size_received > 0
  <2>1. Return(FALSE) /\ d.stopped = TRUE
    BY <1>2, <1>6, <1>10 DEF Reject
  <2> QED BY <1>5, <1>6, <1>7, <1>9, <2>1
<1>11. CASE ~ (n = SizeMax /\ size_received > 0)
  <2>1. d.stopped = FALSE /\ pc' = "loop" /\ delivered' = delivered
    BY <1>2, <1>6, <1>11 DEF Reject, Running
  <2>2. CASE timestamp_mismatch /\ buffer_unprocessed_count' = 0
    <3>1. size_received' = size_received + 1 /\ timestamp_mismatch' = timestamp_mismatch
      BY <1>11, <2>2 DEF Reject
    <3>2. d.received = size_received' /\ d.mismatch = timestamp_mismatch'
      BY <1>2, <1>6, <1>8, <2>1, <2>2, <3>1 DEF Running, IInv, TypeOK
    <3> QED BY <1>5, <1>6, <1>7, <1>9, <2>1, <3>2
  <2>3. CASE ~ (timestamp_mismatch /\ buffer_unprocessed_count' = 0)
    <3>1. size_received' = size_received /\ timestamp_mismatch' = TRUE
      BY <1>11, <2>3 DEF Reject
    <3>2. d.received = size_received' /\ d.mismatch = timestamp_mismatch'
      BY <1>2, <1>6, <1>8, <2>1, <2>3, <3>1
    <3> QED BY <1>5, <1>6, <1>7, <1>9, <2>1, <3>2
  <2> QED BY <2>2, <2>3
<1> QED BY <1>10, <1>11

(* When the call is over, the histories are those of a stream at rest.      *)
LEMMA EndForgets ==
  ASSUME TypeOK, TypeOK', Remember, pc' = "idle"
  PROVE  CallInv' /\ found' = receive_buffer' /\ pulled' = <<>>
<1>1. found' = receive_buffer' /\ pulled' = <<>>
  BY Remembered
<1>2. receive_buffer' \in Seq(Nalu) /\ <<>> \in Seq(Nalu)
  BY DEF TypeOK
<1> QED BY <1>1, <1>2 DEF CallInv

(* The call that a rejected NALU ends.                                      *)
LEMMA RejectEnds ==
  ASSUME Running, NEW k \in 0..Len(found), NEW p \in Seq(Nalu), k = Len(found) \/ p = <<>>,
         p \o socket' = pulled \o socket, type' = type, Return(FALSE),
         NEW d \in CallState,
         d = Calls!LastPass(expected_size, Len(found), SubSeq(found, 1, k) \o p),
         d.taken = k + Len(p), d.unit = new_unit', d.received > 0, d.stopped = TRUE,
         receive_buffer' = SubSeq(found, k + 1, Len(found)) \o d.kept
  PROVE  CallInv' /\ Calls!Next
<1> DEFINE n == expected_size
<1>1. /\ n \in Nat /\ n \in ExpectedSizes /\ found \in Seq(Nalu) /\ pulled \in Seq(Nalu)
      /\ socket \in Seq(Nalu) /\ socket' \in Seq(Nalu) /\ type # VPS
  BY RunningFacts
<1>2. CallInv' /\ found' = receive_buffer' /\ pulled' = <<>>
  BY EndForgets DEF Running, IInv, Return
<1>3. FALSE = (d.received < n /\ ~ d.stopped)
  OBVIOUS
<1> HIDE DEF n
<1>4. Calls!Call(n)
  BY <1>1, <1>2, <1>3, CallEnds DEF n
<1> QED BY <1>1, <1>2, <1>4 DEF Calls!Next

(* A step of the loop: unless it ends the call, UnitCalls does not move.    *)
LEMMA PassSteps ==
  ASSUME Running, NEW k \in 0..Len(found), NEW p, NEW e, NEW rest, NEW c, NEW h,
         Passed(k, p, e, rest, c, h), rest \in Seq(Nalu),
         SubSeq(found, k + 1, Len(found)) \in Seq(Nalu),
         Accept(e, rest) \/ Reject(e, rest),
         buffer_unprocessed_count' = Len(found) - k, UNCHANGED <<type, expected_size>>,
         pc' # "idle" => pulled' = p, p \o socket' = pulled \o socket
  PROVE  CallInv' /\ [Calls!Next]_(Calls!unitVars)
<1>1. p \in Seq(Nalu) /\ (k # Len(found) => p = <<>>)
  BY DEF Passed
<1>2. CASE Accept(e, rest)
  <2>1. pc' # "idle" /\ delivered' = delivered
    BY <1>2 DEF Accept, Running
  <2>2. CallInv' /\ found' = found
    BY <1>2, <2>1, AcceptTracks
  <2>3. pulled' \o socket' = pulled \o socket
    BY <2>1
  <2> QED BY <2>1, <2>2, <2>3 DEF Calls!unitVars
<1>3. CASE Reject(e, rest)
  <2>1. PICK d \in CallState :
           /\ d = Calls!LastPass(expected_size, Len(found), SubSeq(found, 1, k) \o p)
           /\ d.taken = k + Len(p) /\ d.unit = new_unit' /\ d.received > 0
           /\ receive_buffer' = SubSeq(found, k + 1, Len(found)) \o d.kept
           /\ \/ Return(FALSE) /\ d.stopped = TRUE
              \/ /\ d.stopped = FALSE /\ pc' = "loop" /\ delivered' = delivered
                 /\ d.received = size_received' /\ d.mismatch = timestamp_mismatch'
    BY <1>3, RejectTracks
  <2>2. CASE Return(FALSE) /\ d.stopped = TRUE
    BY <1>1, <2>1, <2>2, RejectEnds
  <2>3. CASE /\ d.stopped = FALSE /\ pc' = "loop" /\ delivered' = delivered
             /\ d.received = size_received' /\ d.mismatch = timestamp_mismatch'
    <3>1. found' = found /\ pulled' = p
      BY <2>3, Remembered DEF Running, IInv
    <3>2. size_received' # 0
      BY <2>1, <2>3
    <3>3. CallInv'
      BY <1>1, <2>1, <2>3, <3>1, <3>2, KeepsTracking
    <3> QED BY <2>3, <3>1, <3>3 DEF Calls!unitVars
  <2> QED BY <2>1, <2>2, <2>3
<1> QED BY <1>2, <1>3

(* The steps of the loop are unseen by UnitCalls, but for the one that ends a call. *)
LEMMA LoopSteps ==
  ASSUME Running, AcceptBuffered \/ RejectBuffered \/ AcceptPulled \/ RejectPulled
  PROVE  CallInv' /\ [Calls!Next]_(Calls!unitVars)
<1> DEFINE k == Len(found) - buffer_unprocessed_count
           h == SubSeq(found, 1, k) \o pulled
<1>1. /\ found \in Seq(Nalu) /\ pulled \in Seq(Nalu) /\ receive_buffer \in Seq(Nalu)
      /\ Len(found) \in Nat /\ Len(pulled) \in Nat /\ k \in 0..Len(found)
      /\ buffer_unprocessed_count = Len(found) - k /\ h \in Seq(Nalu)
      /\ SubSeq(found, k + 1, Len(found)) \in Seq(Nalu)
  BY RunningFacts DEF Handled
<1>2. PICK c \in CallState :
        /\ c = Calls!LastPass(expected_size, Len(found), h)
        /\ Tracks(c) /\ c.taken = k + Len(pulled)
        /\ receive_buffer = SubSeq(found, k + 1, Len(found)) \o c.kept
  BY RunningFacts
<1>3. k # Len(found) => pulled = <<>>
  BY <1>1 DEF Running, CallInv, LoopTracks
<1> HIDE DEF k
<1>4. CASE AcceptBuffered \/ RejectBuffered
  <2> DEFINE e == Head(receive_buffer)  rest == Tail(receive_buffer)
  <2>1. TakeBuffered /\ (Accept(e, rest) \/ Reject(e, rest))
    BY <1>4 DEF AcceptBuffered, RejectBuffered
  <2>2. UNCHANGED <<type, expected_size, socket, pulls>>
    BY <2>1 DEF TakeBuffered
  <2>3. /\ pulled = <<>> /\ k + 1 \in 0..Len(found) /\ e \in Nalu
        /\ buffer_unprocessed_count' = Len(found) - (k + 1)
        /\ rest = SubSeq(found, (k + 1) + 1, Len(found)) \o c.kept
        /\ rest \in Seq(Nalu) /\ SubSeq(found, (k + 1) + 1, Len(found)) \in Seq(Nalu)
        /\ SubSeq(found, 1, k + 1) \o <<>> = Append(h, e)
    BY <1>1, <1>2, <2>1, BufferedHead
  <2>4. pc' # "idle" => pulled' = <<>>
    BY <2>2, <2>3, Remembered DEF Running, IInv
  <2>5. c.taken + 1 = (k + 1) + Len(<<>>) /\ <<>> \in Seq(Nalu)
    BY <1>1, <1>2, <2>3
  <2> HIDE DEF e, rest, h
  <2>6. Passed(k + 1, <<>>, e, rest, c, h)
    BY <1>1, <1>2, <2>3, <2>5 DEF Passed
  <2>7. <<>> \o socket' = pulled \o socket
    BY <2>2, <2>3
  <2> QED BY <2>1, <2>2, <2>3, <2>4, <2>6, <2>7, PassSteps
<1>5. CASE AcceptPulled \/ RejectPulled
  <2> DEFINE e == Head(socket)  p == Append(pulled, e)
  <2>1. PullFrame /\ (Accept(e, receive_buffer) \/ Reject(e, receive_buffer))
    BY <1>5 DEF AcceptPulled, RejectPulled
  <2>2. UNCHANGED <<type, expected_size>> /\ pulls' = pulls + 1
    BY <2>1 DEF PullFrame
  <2>3. /\ k = Len(found) /\ e \in Nalu /\ buffer_unprocessed_count' = Len(found) - k
        /\ p \in Seq(Nalu) /\ Len(p) = Len(pulled) + 1
        /\ p \o socket' = pulled \o socket /\ SubSeq(found, 1, k) \o p = Append(h, e)
    BY <1>1, <2>1, PulledHead
  <2>4. pc' # "idle" => pulled' = p
    BY <2>2, Remembered DEF Running, IInv
  <2> HIDE DEF e, p, h
  <2>5. c.taken + 1 = k + Len(p)
    BY <1>1, <1>2, <2>3
  <2>6. Passed(k, p, e, receive_buffer, c, h)
    BY <1>1, <1>2, <2>3, <2>5 DEF Passed
  <2> QED BY <1>1, <2>1, <2>2, <2>3, <2>4, <2>6, PassSteps
<1> QED BY <1>4, <1>5

(* The steps between calls.                                                 *)
Between == IInv /\ CallInv /\ TypeOK' /\ Remember

(* A frame arrives in both specifications.                                  *)
LEMMA ArriveMaps ==
  ASSUME Between, NEW ts \in Timestamps, Arrive(ts)
  PROVE  CallInv' /\ Calls!Next
<1> DEFINE e == [id |-> Len(arrivals) + 1, ts |-> ts]
<1>1. /\ socket' = Append(socket, e) /\ socket \in Seq(Nalu) /\ e \in Nalu /\ e.ts = ts
      /\ UNCHANGED <<type, receive_buffer, pc, expected_size, size_received, timestamp_mismatch,
                     buffer_unprocessed_count, new_unit, pulls, delivered>>
  BY DEF Between, IInv, TypeOK, Arrive, callVars, Nalu
<1>2. found \in Seq(Nalu) /\ pulled \in Seq(Nalu)
  BY DEF Between, CallInv
<1>3. found' = found /\ pulled' = pulled
  <2>1. pc = "idle" => found = receive_buffer /\ pulled = <<>>
    BY DEF Between, CallInv
  <2> QED BY <1>1, <2>1, Remembered DEF Between, IInv
<1>4. CallInv'
  <2>1. LoopTracks => LoopTracks'
    BY <1>1, <1>3 DEF LoopTracks, Tracks, Handled, Untouched
  <2> QED BY <1>1, <1>2, <1>3, <2>1 DEF CallInv, Between
<1> HIDE DEF e
<1> DEFINE q == pulled \o socket  r == pulled' \o socket'
<1>5. q \in Seq(Nalu) /\ r = Append(q, e)
  <2>1. Append(pulled \o socket, e) = pulled \o Append(socket, e)
    BY <1>1, <1>2, AppendBehind, Zenon
  <2> QED BY <1>1, <1>2, <1>3, <2>1, JoinedQueues
<1> HIDE DEF q
<1>6. r # <<>> /\ r[Len(r)] = e
  <2> HIDE DEF r
  <2> QED BY <1>1, <1>5, AppendProperties
<1>7. r = Append(q, r[Len(r)]) /\ r[Len(r)].ts \in Timestamps
  BY <1>1, <1>5, <1>6
<1> HIDE DEF r
<1>8. Calls!Arrive
  BY <1>1, <1>3, <1>6, <1>7 DEF Calls!Arrive, Calls!Last, q, r
<1> QED BY <1>4, <1>8 DEF Calls!Next

(* The beginning of a call is unseen by UnitCalls.                          *)
LEMMA CallMaps ==
  ASSUME Between, NEW n \in ExpectedSizes, Call(n)
  PROVE  CallInv' /\ UNCHANGED Calls!unitVars
<1>1. /\ pc = "idle" /\ pc' \in {"vps", "loop"} /\ expected_size' = n /\ size_received' = 0
      /\ timestamp_mismatch' = FALSE /\ buffer_unprocessed_count' = Len(receive_buffer)
      /\ new_unit' = EmptyUnit /\ pulls' = 0
      /\ UNCHANGED <<type, socket, receive_buffer, delivered>>
  BY DEF Call, Begin
<1>2. found \in Seq(Nalu) /\ found = receive_buffer /\ pulled = <<>>
  BY <1>1 DEF Between, CallInv
<1>3. found' = found /\ pulled' = <<>>
  BY <1>1, <1>2, Remembered DEF Between, IInv
<1>4. Len(found) \in Nat /\ Len(found) - Len(found) = 0
  BY <1>2
<1>5. Handled(found, Len(found), <<>>) = <<>> /\ Untouched(found, Len(found)) \o <<>> = found
  BY <1>2, <1>4, CutEnds, ConcatEmptySeq DEF Handled, Untouched
<1>6. Calls!LastPass(n, Len(found), <<>>) = Calls!NewCall
  <2>1. \A x, b : Calls!LastPass(x, b, <<>>) = Calls!NewCall
    <3>1. \A x, b : Calls!LastPass(x, b, <<>>) = Passing!LastPass(x, b, <<>>)
      BY SamePasses
    <3>2. Calls!NewCall = Passing!NewCall
      BY DEF Calls!NewCall, Passing!NewCall, Calls!EmptyUnit, Passing!EmptyUnit
    <3>3. \A x, b : Passing!LastPass(x, b, <<>>) = Passing!NewCall
      <4>1. Len(<<>>) = 0 /\ Len(<<>>) \in Nat
        OBVIOUS
      <4> QED BY <4>1, Passing!PassesUnfold DEF Passing!LastPass
    <3> QED BY <3>1, <3>2, <3>3
  <2> QED BY <2>1
<1>7. LoopTracks'
  <2>1. Tracks(Calls!NewCall)'
    BY <1>1, NewCallState DEF Tracks
  <2> QED BY <1>1, <1>2, <1>3, <1>4, <1>5, <1>6, <2>1, NewCallState DEF LoopTracks
<1>8. CallInv'
  BY <1>1, <1>2, <1>3, <1>7 DEF CallInv
<1> QED BY <1>1, <1>2, <1>3, <1>8 DEF Calls!unitVars

(* The buffer is cleared in both specifications.                            *)
LEMMA ClearMaps ==
  ASSUME Between, ClearReceiveBuffer
  PROVE  CallInv' /\ Calls!Next
<1>1. /\ pc = "idle" /\ pc' = "idle" /\ receive_buffer' = <<>>
      /\ UNCHANGED <<type, socket, delivered>>
  BY DEF ClearReceiveBuffer
<1>2. pulled = <<>>
  BY <1>1 DEF Between, CallInv
<1>3. CallInv' /\ found' = <<>> /\ pulled' = <<>>
  BY <1>1, EndForgets DEF Between, IInv
<1> QED BY <1>1, <1>2, <1>3 DEF Calls!Next, Calls!ClearReceiveBuffer

(* The steps that end a call.                                               *)
LEMMA PullVPSMaps ==
  ASSUME Between, PullVPS
  PROVE  CallInv' /\ Calls!Next
<1>1. /\ pc = "vps" /\ socket # <<>> /\ PushBack(Head(socket)) /\ socket' = Tail(socket)
      /\ Return(FALSE) /\ pc' = "idle" /\ UNCHANGED <<type, receive_buffer>>
  BY DEF PullVPS, Return
<1>2. /\ pulled = <<>> /\ expected_size \in ExpectedSizes /\ found = receive_buffer
      /\ socket \in Seq(Nalu) /\ socket' \in Seq(Nalu)
  BY <1>1 DEF Between, CallInv, IInv, TypeOK
<1>3. type = VPS /\ expected_size > 0 /\ new_unit = EmptyUnit
  BY <1>1 DEF Between, IInv, PullsPaid, NothingTaken, NoBufferForVPS
<1>4. CallInv' /\ found' = receive_buffer' /\ pulled' = <<>>
  BY <1>1, EndForgets DEF Between, IInv
<1>5. pulled \o socket = socket /\ pulled' \o socket' = socket'
  BY <1>2, <1>4, ConcatEmptySeq
<1>6. delivered' = Append(delivered, [ts |-> Head(socket).ts, nalus |-> <<Head(socket)>>,
                                      cut |-> FALSE])
  <2>1. new_unit' = [ts |-> Head(socket).ts, nalus |-> Append(<<>>, Head(socket))]
    BY <1>1, <1>3 DEF PushBack, EmptyUnit
  <2>2. Append(<<>>, Head(socket)) = <<Head(socket)>>
    OBVIOUS
  <2> QED BY <1>1, <2>1, <2>2 DEF Return
<1> DEFINE r == Calls!Assemble(type, expected_size, found, pulled \o socket)
<1>7. r = [unit |-> [ts |-> Head(socket).ts, nalus |-> <<Head(socket)>>], buffer |-> found,
           socket |-> Tail(socket), timeout |-> FALSE, cut |-> FALSE]
  BY <1>1, <1>3, <1>5 DEF Calls!Assemble, Calls!AssembleVPS
<1>8. /\ ~ r.timeout /\ r.socket = Tail(socket) /\ r.buffer = found /\ r.cut = FALSE
      /\ r.unit.ts = Head(socket).ts /\ r.unit.nalus = <<Head(socket)>>
  BY <1>7
<1> HIDE DEF r
<1>9. Calls!Call(expected_size)
  BY <1>1, <1>2, <1>4, <1>5, <1>6, <1>8 DEF Calls!Call, r
<1> QED BY <1>2, <1>4, <1>9 DEF Calls!Next

(* The locals of a call in the loop, as UnitCalls has them.                 *)
LEMMA LocalsOfCall ==
  ASSUME Between, pc = "loop"
  PROVE  LET k == Len(found) - buffer_unprocessed_count
         IN /\ found \in Seq(Nalu) /\ pulled \in Seq(Nalu) /\ socket \in Seq(Nalu)
            /\ socket' \in Seq(Nalu) /\ expected_size \in Nat /\ size_received \in Nat
            /\ expected_size \in ExpectedSizes /\ (type = VPS => expected_size = 0)
            /\ k \in 0..Len(found) /\ (k = Len(found) \/ pulled = <<>>)
            /\ buffer_unprocessed_count = 0 => k = Len(found)
            /\ \E c \in CallState :
                 /\ c = Calls!LastPass(expected_size, Len(found), SubSeq(found, 1, k) \o pulled)
                 /\ Tracks(c) /\ c.taken = k + Len(pulled)
                 /\ receive_buffer = SubSeq(found, k + 1, Len(found)) \o c.kept
<1> DEFINE u == buffer_unprocessed_count  k == Len(found) - u
           c == Calls!LastPass(expected_size, Len(found), SubSeq(found, 1, k) \o pulled)
<1>1. LoopTracks /\ found \in Seq(Nalu) /\ pulled \in Seq(Nalu) /\ expected_size \in ExpectedSizes
  BY DEF Between, CallInv
<1>2. u \in 0..Len(found) /\ Len(found) \in Nat /\ (u # 0 => pulled = <<>>)
  BY <1>1 DEF LoopTracks
<1>3. k \in 0..Len(found) /\ (k = Len(found) \/ pulled = <<>>) /\ (u = 0 => k = Len(found))
  BY <1>2
<1>4. /\ socket \in Seq(Nalu) /\ socket' \in Seq(Nalu)
      /\ expected_size \in Nat /\ size_received \in Nat /\ (type = VPS => expected_size = 0)
  BY SizeAssumption DEF Between, IInv, TypeOK, NoBufferForVPS
<1>5. /\ Tracks(c) /\ c.taken = k + Len(pulled)
      /\ receive_buffer = SubSeq(found, k + 1, Len(found)) \o c.kept
  BY <1>1 DEF LoopTracks, Handled, Untouched
<1>6. c \in CallState
  BY <1>5 DEF Tracks
<1> HIDE DEF c
<1> HIDE DEF k
<1>7. \E d \in CallState :
        /\ d = Calls!LastPass(expected_size, Len(found), SubSeq(found, 1, k) \o pulled)
        /\ Tracks(d) /\ d.taken = k + Len(pulled)
        /\ receive_buffer = SubSeq(found, k + 1, Len(found)) \o d.kept
  BY <1>5, <1>6 DEF c
<1> QED BY <1>1, <1>3, <1>4, <1>7 DEF k

(* A call that has its NALUs ends with the unit of Assemble.                *)
LEMMA FinishMaps ==
  ASSUME Between, Finish
  PROVE  CallInv' /\ Calls!Next
<1> DEFINE k == Len(found) - buffer_unprocessed_count  n == expected_size
<1>1. /\ pc = "loop" /\ size_received >= n /\ Return(FALSE) /\ pc' = "idle"
      /\ UNCHANGED <<type, socket, receive_buffer, new_unit>>
  BY DEF Finish, Return, callVars
<1>2. /\ found \in Seq(Nalu) /\ pulled \in Seq(Nalu) /\ socket \in Seq(Nalu)
      /\ socket' \in Seq(Nalu) /\ n \in Nat /\ size_received \in Nat
      /\ n \in ExpectedSizes /\ (type = VPS => n = 0)
      /\ k \in 0..Len(found) /\ (k = Len(found) \/ pulled = <<>>)
  BY <1>1, LocalsOfCall
<1>3. PICK c \in CallState :
        /\ c = Calls!LastPass(n, Len(found), SubSeq(found, 1, k) \o pulled)
        /\ Tracks(c) /\ c.taken = k + Len(pulled)
        /\ receive_buffer = SubSeq(found, k + 1, Len(found)) \o c.kept
  BY <1>1, LocalsOfCall
<1>4. c.unit = new_unit' /\ c.received >= n /\ (c.received > 0 \/ n = 0)
  BY <1>1, <1>2, <1>3 DEF Tracks
<1>5. FALSE = (c.received < n /\ ~ c.stopped)
  BY <1>1, <1>2, <1>3 DEF Tracks
<1>6. CallInv' /\ found' = receive_buffer' /\ pulled' = <<>>
  BY <1>1, EndForgets DEF Between, IInv
<1>7. pulled \o socket' = pulled \o socket
  BY <1>1
<1> HIDE DEF k, n
<1>8. Calls!Call(n)
  BY <1>1, <1>2, <1>3, <1>4, <1>5, <1>6, <1>7, CallEnds
<1> QED BY <1>2, <1>6, <1>8 DEF Calls!Next

(* A call that times out ends with the unit of Assemble, or with nothing changed. *)
LEMMA TimeoutMaps ==
  ASSUME Between, Timeout
  PROVE  CallInv' /\ [Calls!Next]_(Calls!unitVars)
<1> DEFINE k == Len(found) - buffer_unprocessed_count  n == expected_size
<1>1. /\ socket = <<>> /\ pc' = "idle" /\ UNCHANGED <<type, socket, receive_buffer, new_unit>>
      /\ pc = "vps" \/ (pc = "loop" /\ size_received < n /\ buffer_unprocessed_count = 0)
      /\ IF size_received = 0 THEN UNCHANGED delivered ELSE Return(TRUE)
  BY DEF Timeout, InLoop, Return, callVars
<1>2. CallInv' /\ found' = receive_buffer' /\ pulled' = <<>>
  BY <1>1, EndForgets DEF Between, IInv
<1>3. CASE pc = "vps"
  <2>1. size_received = 0 /\ found = receive_buffer /\ pulled = <<>>
    BY <1>3 DEF Between, CallInv, IInv, PullsPaid
  <2> QED BY <1>1, <1>2, <2>1 DEF Calls!unitVars
<1>4. CASE pc = "loop"
  <2>1. /\ found \in Seq(Nalu) /\ pulled \in Seq(Nalu) /\ socket \in Seq(Nalu)
        /\ socket' \in Seq(Nalu) /\ n \in Nat /\ size_received \in Nat
        /\ n \in ExpectedSizes /\ (type = VPS => n = 0)
        /\ k \in 0..Len(found) /\ k = Len(found)
    BY <1>1, <1>4, LocalsOfCall
  <2>2. PICK c \in CallState :
          /\ c = Calls!LastPass(n, Len(found), SubSeq(found, 1, k) \o pulled)
          /\ Tracks(c) /\ c.taken = k + Len(pulled)
          /\ receive_buffer = SubSeq(found, k + 1, Len(found)) \o c.kept
    BY <1>4, LocalsOfCall
  <2>3. CASE size_received = 0
    <3>1. found = <<>> /\ pulled = <<>>
      <4>1. Len(found) = 0 /\ pulled = <<>>
        BY <1>1, <1>4, <2>3 DEF Between, CallInv, LoopTracks
      <4> QED BY <2>1, <4>1, EmptySeq
    <3>2. receive_buffer = <<>>
      <4>1. buffer_unprocessed_count = Len(receive_buffer) /\ receive_buffer \in Seq(Nalu)
        BY <1>4, <2>3 DEF Between, IInv, NothingTaken, TypeOK
      <4> QED BY <1>1, <1>4, <4>1, EmptySeq
    <3> QED BY <1>1, <1>2, <2>3, <3>1, <3>2 DEF Calls!unitVars
  <2>4. CASE size_received # 0
    <3>1. c.unit = new_unit' /\ (c.received > 0 \/ n = 0) /\ TRUE = (c.received < n /\ ~ c.stopped)
      BY <1>1, <1>4, <2>1, <2>2, <2>4 DEF Tracks
    <3>2. pulled \o socket' = pulled \o socket /\ socket' = <<>>
      BY <1>1
    <3>3. Return(TRUE) /\ receive_buffer' = SubSeq(found, k + 1, Len(found)) \o c.kept
      BY <1>1, <2>2, <2>4
    <3> HIDE DEF k, n
    <3>4. Calls!Call(n)
      BY <1>1, <1>2, <2>1, <2>2, <3>1, <3>2, <3>3, CallEnds
    <3> QED BY <1>2, <2>1, <3>4 DEF Calls!Next
  <2> QED BY <2>3, <2>4
<1> QED BY <1>1, <1>3, <1>4

-----------------------------------------------------------------------------
(* Every step keeps the invariant and is a step of UnitCalls or none.       *)
LEMMA StepMaps ==
  ASSUME IInv, CallInv, TypeOK', [NextH]_histVars
  PROVE  CallInv' /\ [Calls!Next]_(Calls!unitVars)
<1>1. CASE UNCHANGED histVars
  <2>1. UNCHANGED <<type, socket, receive_buffer, pc, expected_size, size_received,
                    timestamp_mismatch, buffer_unprocessed_count, new_unit, delivered, found,
                    pulled>>
    BY <1>1 DEF histVars, vars, callVars
  <2>2. LoopTracks => LoopTracks'
    BY <2>1 DEF LoopTracks, Tracks
  <2> QED BY <2>1, <2>2 DEF CallInv, Calls!unitVars
<1>2. CASE NextH
  <2>1. Between
    BY <1>2 DEF NextH, StepH, Between
  <2>2. ASSUME NEW ts \in Timestamps, Arrive(ts) PROVE CallInv' /\ [Calls!Next]_(Calls!unitVars)
    BY <2>1, <2>2, ArriveMaps
  <2>3. ASSUME NEW n \in ExpectedSizes, Call(n) PROVE CallInv' /\ [Calls!Next]_(Calls!unitVars)
    BY <2>1, <2>3, CallMaps
  <2>4. CASE ClearReceiveBuffer
    BY <2>1, <2>4, ClearMaps
  <2>5. CASE PullVPS
    BY <2>1, <2>5, PullVPSMaps
  <2>6. CASE AcceptBuffered \/ RejectBuffered \/ AcceptPulled \/ RejectPulled
    <3>1. Running
      BY <2>1, <2>6 DEF Running, Between, AcceptBuffered, RejectBuffered, AcceptPulled,
                        RejectPulled, TakeBuffered, PullFrame, InLoop
    <3> QED BY <2>6, <3>1, LoopSteps
  <2>7. CASE Timeout
    BY <2>1, <2>7, TimeoutMaps
  <2>8. CASE Finish
    BY <2>1, <2>8, FinishMaps
  <2> QED BY <1>2, <2>2, <2>3, <2>4, <2>5, <2>6, <2>7, <2>8 DEF NextH, StepH, Step
<1> QED BY <1>1, <1>2

(* UnitReceiver implements UnitCalls: whatever arrives between its steps, a *)
(* call of receive_v3c_unit hands over the unit, and leaves the queues,     *)
(* that it would have if it had run in one step, and a TimeoutException     *)
(* changes nothing.                                                         *)
THEOREM CallsAreAtomic == FairSpecH => CallsAtomic
<1>1. InitH => Init /\ CallInv /\ Calls!Init
  <2> SUFFICES ASSUME InitH PROVE Init /\ CallInv /\ Calls!Init
    OBVIOUS
  <2>1. /\ Init /\ pc = "idle" /\ found = <<>> /\ pulled = <<>> /\ socket = <<>>
        /\ receive_buffer = <<>> /\ delivered = <<>>
    BY DEF InitH, Init
  <2>2. <<>> \in Seq(Nalu) /\ <<>> \o <<>> = <<>>
    OBVIOUS
  <2> QED BY <2>1, <2>2 DEF CallInv, Calls!Init
<1>2. [NextH]_histVars => [Next]_vars
  BY DEF NextH, StepH, Next, histVars
<1>3. IInv /\ IInv' /\ CallInv /\ [NextH]_histVars => CallInv' /\ [Calls!Next]_(Calls!unitVars)
  BY StepMaps DEF IInv
<1>4. FairSpecH => Spec
  BY <1>1, <1>2, PTL DEF FairSpecH, Spec
<1> QED
  BY <1>1, <1>3, <1>4, LoopInvariant, PTL DEF FairSpecH, CallsAtomic, Calls!Spec
=============================================================================
