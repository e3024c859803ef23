--------------------------- MODULE V3CStateProofs ---------------------------
(***************************************************************************)
(* Safety of the handle for streams of any length and every sequence of    *)
(* calls: the iterator never dangles and the error flag is never lost.     *)
(***************************************************************************)
EXTENDS V3CState, TLAPS

IInv == TypeOK /\ ItSound /\ NavigationHonest

(* A handle that a call leaves behind: well-typed, its iterator sound.     *)
Good(s) == s \in Handle /\ Sound(s)

(* The errors named in this module are errors of the API.                   *)
LEMMA ErrorTypes ==
  /\ "OK" \in ERROR_TYPE /\ "GENERAL" \in ERROR_TYPE /\ "CONNECTION" \in ERROR_TYPE
  /\ "TIMEOUT" \in ERROR_TYPE /\ "TIMESTAMP" \in ERROR_TYPE /\ "DATA" \in ERROR_TYPE
  /\ "EOS" \in ERROR_TYPE /\ "INVALID_IT" \in ERROR_TYPE /\ "PARSE" \in ERROR_TYPE
BY DEF ERROR_TYPE

(* Setting the error flag keeps a handle good.                             *)
LEMMA SetErrorGood ==
  ASSUME NEW s, Good(s), NEW e \in ERROR_TYPE
  PROVE  Good(SetError(s, e))
BY DEF Good, Handle, Sound, SetError

(* Marking the iterator invalid keeps a handle good.                       *)
LEMMA InvalidateGood ==
  ASSUME NEW s, Good(s)
  PROVE  /\ Good(Invalidate(s)) /\ ~ Invalidate(s).valid
         /\ Invalidate(s).data = s.data /\ Invalidate(s).ind = s.ind
         /\ Invalidate(s).it = s.it
BY DEF Good, Handle, Sound, Invalidate

(* A new iterator inside the data is sound.                                *)
LEMMA AtGood ==
  ASSUME NEW s, Good(s), s.data # NoData, NEW i \in Nat, i < s.data
  PROVE  Good(At(s, i)) /\ Readable(At(s, i))
<1>1. s.data \in 0..MaxGofs /\ MaxGofs \in Nat
  BY StateAssumption DEF Good, Handle
<1>2. i \in 0..MaxGofs
  BY <1>1
<1>3. At(s, i) \in Handle
  BY <1>2 DEF Good, Handle, At
<1>4. Sound(At(s, i))
  BY <1>1 DEF Good, Handle, Sound, At
<1>5. At(s, i).it = [at |-> i, stale |-> FALSE] /\ At(s, i).valid /\ At(s, i).data = s.data
  BY DEF Good, Handle, At
<1>6. [at |-> i, stale |-> FALSE] # Null
  <2>1. [at |-> i, stale |-> FALSE] \in [at : Nat, stale : BOOLEAN]
    OBVIOUS
  <2> QED BY <2>1, StateAssumption, Zenon
<1>7. i # s.data
  BY <1>1
<1>8. Readable(At(s, i))
  BY <1>5, <1>6, <1>7 DEF Readable, CurGofError
<1> QED BY <1>3, <1>4, <1>8 DEF Good

(* init_cur_gof: whatever it returns, the handle is good, and OK means     *)
(* that there is a current GoF.                                            *)
LEMMA InitCurGofGood ==
  ASSUME NEW s, Good(s), NEW to \in Nat, NEW reverse \in BOOLEAN
  PROVE  /\ Good(InitCurGof(s, to, reverse).s)
         /\ InitCurGof(s, to, reverse).ret \in ERROR_TYPE
         /\ InitCurGof(s, to, reverse).ret = "OK" => Readable(InitCurGof(s, to, reverse).s)
<1>1. CASE s.data = NoData \/ (s.it # Null /\ s.valid)
  <2>1. InitCurGof(s, to, reverse) = [s |-> SetError(s, "DATA"), ret |-> "DATA"]
    BY <1>1 DEF InitCurGof
  <2> QED BY <2>1, SetErrorGood, ErrorTypes
<1>2. CASE ~ (s.data = NoData \/ (s.it # Null /\ s.valid)) /\ to >= s.data
  <2> DEFINE t == [s EXCEPT !.it = Null]
  <2>1. InitCurGof(s, to, reverse) = [s |-> SetError(t, "INVALID_IT"), ret |-> "INVALID_IT"]
    BY <1>2 DEF InitCurGof
  <2>2. t \in Handle
    BY DEF Good, Handle
  <2>3. s.valid => s.it = Null
    BY <1>2
  <2>4. Sound(t)
    BY <2>3, <1>2 DEF Good, Handle, Sound
  <2> QED BY <2>1, <2>2, <2>4, SetErrorGood, ErrorTypes DEF Good
<1>3. CASE ~ (s.data = NoData \/ (s.it # Null /\ s.valid)) /\ ~ (to >= s.data)
  <2> DEFINE i == IF reverse THEN s.data - to - 1 ELSE to
  <2>1. InitCurGof(s, to, reverse) = [s |-> At(s, i), ret |-> "OK"]
    BY <1>3 DEF InitCurGof
  <2>2. s.data \in Nat
    BY <1>3, StateAssumption DEF Good, Handle
  <2>3. i \in Nat /\ i < s.data
    BY <2>2, <1>3
  <2> QED BY <2>1, <2>3, <1>3, AtGood, ErrorTypes
<1> QED BY <1>1, <1>2, <1>3

(* gof_at from a state that has data.                                      *)
LEMMA GofAtGood ==
  ASSUME NEW s, Good(s), NEW i \in Nat
  PROVE  /\ Good(GofAt(s, i).s) /\ GofAt(s, i).ret \in ERROR_TYPE
         /\ GofAt(s, i).ret = "OK" => Readable(GofAt(s, i).s)
BY InvalidateGood, InitCurGofGood DEF GofAt

(* Adding GoFs to a handle whose iterator is marked invalid.               *)
LEMMA AddGofsGood ==
  ASSUME NEW s, Good(s), ~ s.valid, s.data # NoData, NEW n \in Nat, s.data + n <= MaxGofs
  PROVE  Good(AddGofs(s, n))
<1>1. s.data \in Nat /\ s.data + n \in 0..MaxGofs /\ s.ind <= s.data + n
  BY StateAssumption DEF Good, Handle, Sound
<1>2. s.it # Null => [s.it EXCEPT !.stale = TRUE] \in [at : 0..MaxGofs, stale : BOOLEAN]
  BY DEF Good, Handle
<1>3. AddGofs(s, n) \in Handle
  BY <1>1, <1>2 DEF Good, Handle, AddGofs
<1>4. AddGofs(s, n).data = s.data + n /\ AddGofs(s, n).ind = s.ind
      /\ AddGofs(s, n).valid = s.valid
  BY DEF Good, Handle, AddGofs
<1>5. s.data + n # NoData
  BY <1>1, StateAssumption
<1> QED BY <1>1, <1>3, <1>4, <1>5 DEF Good, Sound

(* The first data of a handle.                                             *)
LEMMA FirstDataGood ==
  ASSUME NEW s, Good(s), s.data = NoData, NEW n \in 0..MaxGofs
  PROVE  Good([s EXCEPT !.data = n])
<1>1. n # NoData /\ n \in Nat /\ 0 <= n
  BY StateAssumption
<1>2. [s EXCEPT !.data = n] \in Handle
  BY DEF Good, Handle
<1> QED BY <1>1, <1>2 DEF Good, Handle, Sound

-----------------------------------------------------------------------------
(* Outcomes of a call *)

(* A call that returns keeps the invariant if the handle it computed is     *)
(* good and, should it have moved the iterator and return OK, readable.    *)
LEMMA ReturnGood ==
  ASSUME NEW op, NEW s, Good(s), NEW ret \in ERROR_TYPE, NEW raised \in ERROR_TYPE,
         Return(op, s, ret, raised),
         op \in Moves /\ ret = "OK" => Readable(s)
  PROVE  IInv'
<1>1. state' = s /\ s \in Handle /\ Sound(s)
  BY DEF Return, Good
<1>2. ItSound'
  BY <1>1 DEF ItSound, Sound
<1>3. call'.op = op /\ call'.ret = ret /\ call'.raised = raised /\ undefined' = FALSE
  BY DEF Return
<1>4. (call.ret \in ERROR_TYPE)' /\ (call.raised \in ERROR_TYPE)' /\ (undefined \in BOOLEAN)'
  BY <1>3 DEF ERROR_TYPE
<1>5. (state \in Handle)'
  BY <1>1 DEF Handle, ERROR_TYPE
<1>6. NavigationHonest'
  BY <1>1, <1>3 DEF NavigationHonest, Readable, CurGofError, Moves
<1> QED BY <1>2, <1>4, <1>5, <1>6 DEF IInv, TypeOK

(* A call that fails.                                                      *)
LEMMA FailGood ==
  ASSUME NEW op, NEW s, Good(s), NEW e \in ERROR_TYPE \ {"OK"}, Fail(op, s, e)
  PROVE  IInv'
BY SetErrorGood, ReturnGood DEF Fail

(* A call that returns the flag; none of these moves the iterator by itself. *)
LEMMA ReturnFlagGood ==
  ASSUME NEW op, op \notin Moves, NEW s, Good(s), NEW raised \in ERROR_TYPE,
         ReturnFlag(op, s, raised)
  PROVE  IInv'
BY ReturnGood DEF ReturnFlag, Good, Handle

(* A call with undefined behaviour: the handle is not looked at again.     *)
LEMMA UndefinedGood ==
  ASSUME IInv, NEW op, NEW risk, Undefined(op, risk)
  PROVE  IInv'
BY ErrorTypes DEF Undefined, IInv, TypeOK, ItSound, NavigationHonest

(* The handle of a state that satisfies the invariant.                     *)
LEMMA StateGood ==
  ASSUME IInv
  PROVE  Good(state)
BY DEF IInv, TypeOK, ItSound, Good

-----------------------------------------------------------------------------
(* The calls *)

(* init_sample_stream, clear_sample_stream and init_sample_stream(bitstream) *)
LEMMA DataStep ==
  ASSUME IInv, InitSampleStream \/ ClearSampleStream \/ InitBitstream
  PROVE  IInv'
<1> USE StateGood, ErrorTypes
<1>1. CASE InitSampleStream
  <2>1. CASE HasData
    BY <1>1, <2>1, FailGood DEF InitSampleStream
  <2>2. CASE ~ HasData
    <3>1. Good([state EXCEPT !.data = 0])
      BY <2>2, FirstDataGood, StateAssumption DEF HasData
    <3>2. Return("init_sample_stream", [state EXCEPT !.data = 0], "OK", "OK")
      BY <1>1, <2>2 DEF InitSampleStream
    <3> QED BY <3>1, <3>2, ReturnGood DEF Moves
  <2> QED BY <2>1, <2>2
<1>2. CASE ClearSampleStream
  <2> DEFINE s == [state EXCEPT !.data = NoData, !.it = Null, !.valid = FALSE, !.ind = 0]
  <2>1. Good(s)
    <3>1. 0 \in 0..MaxGofs
      BY StateAssumption
    <3>2. s \in Handle
      BY <3>1 DEF Good, Handle
    <3>3. s.data = NoData /\ s.it = Null /\ s.valid = FALSE /\ s.ind = 0
      BY DEF Good, Handle
    <3> QED BY <3>2, <3>3 DEF Good, Sound
  <2>2. Return("clear_sample_stream", s, "OK", "OK")
    BY <1>2 DEF ClearSampleStream
  <2> QED BY <2>1, <2>2, ReturnGood DEF Moves
<1>3. CASE InitBitstream
  <2> DEFINE op == "init_sample_stream(bitstream)"
             Done(s, raised) == LET r == InitCurGof(s, 0, FALSE)
                                IN Return(op, r.s, r.ret, RaisedOr(raised, r.ret))
  <2>1. ASSUME NEW s, Good(s), NEW raised \in ERROR_TYPE, Done(s, raised)
        PROVE  IInv'
    <3> DEFINE r == InitCurGof(s, 0, FALSE)
    <3>1. Good(r.s) /\ r.ret \in ERROR_TYPE /\ (r.ret = "OK" => Readable(r.s))
      BY <2>1, InitCurGofGood
    <3>2. RaisedOr(raised, r.ret) \in ERROR_TYPE
      BY <2>1, <3>1 DEF RaisedOr
    <3>3. Return(op, r.s, r.ret, RaisedOr(raised, r.ret))
      BY <2>1
    <3> HIDE DEF r
    <3> QED BY <3>1, <3>2, <3>3, ReturnGood
  <2> HIDE DEF Done
  <2>2. CASE HasData
    BY <1>3, <2>2, FailGood DEF InitBitstream
  <2>3. CASE ~ HasData
    <3>1. \/ Done(SetError(state, "PARSE"), "PARSE")
          \/ Undefined(op, "no connection")
          \/ \E n \in 0..MaxGofs : Done([state EXCEPT !.data = n], "OK")
      BY <1>3, <2>3 DEF InitBitstream, Done
    <3>2. CASE Done(SetError(state, "PARSE"), "PARSE")
      BY <3>2, <2>1, SetErrorGood
    <3>3. CASE Undefined(op, "no connection")
      BY <3>3, UndefinedGood
    <3>4. ASSUME NEW n \in 0..MaxGofs, Done([state EXCEPT !.data = n], "OK")
          PROVE  IInv'
      BY <3>4, <2>1, <2>3, FirstDataGood DEF HasData
    <3> QED BY <3>1, <3>2, <3>3, <3>4
  <2> QED BY <2>2, <2>3
<1> QED BY <1>1, <1>2, <1>3

(* append_to_sample_stream: the iterator is made anew after the vector grew. *)
LEMMA AppendStep ==
  ASSUME IInv, AppendToSampleStream
  PROVE  IInv'
<1> DEFINE op == "append_to_sample_stream"
           s == Invalidate(state)
<1> USE StateGood, ErrorTypes
<1>1. Good(s) /\ ~ s.valid /\ s.data = state.data
  BY InvalidateGood
<1>2. ASSUME NEW t, Good(t), NEW raised \in ERROR_TYPE, AppendResult(t, raised)
      PROVE  IInv'
  <2> DEFINE r == GofAt(t, t.ind)
  <2>1. t.ind \in Nat
    BY <1>2, StateAssumption DEF Good, Handle
  <2>2. Good(r.s) /\ r.ret \in ERROR_TYPE /\ (r.ret = "OK" => Readable(r.s))
    BY <1>2, <2>1, GofAtGood
  <2>3. RaisedOr(raised, r.ret) \in ERROR_TYPE
    BY <1>2, <2>2 DEF RaisedOr
  <2>4. Return(op, r.s, r.ret, RaisedOr(raised, r.ret))
    BY <1>2 DEF AppendResult
  <2> HIDE DEF r
  <2> QED BY <2>2, <2>3, <2>4, ReturnGood
<1> HIDE DEF s
<1>3. CASE ~ HasData
  BY <1>3, FailGood DEF AppendToSampleStream
<1>4. CASE HasData
  <2>1. \/ AppendResult(SetError(s, "PARSE"), "PARSE")
        \/ \E risk \in RiskNames : Undefined(op, risk)
        \/ \E n \in 0..MaxGofs : state.data + n <= MaxGofs /\ AppendResult(AddGofs(s, n), "OK")
    BY <1>4 DEF AppendToSampleStream, s, RiskNames
  <2>2. CASE AppendResult(SetError(s, "PARSE"), "PARSE")
    BY <2>2, <1>1, <1>2, SetErrorGood
  <2>3. ASSUME NEW risk \in RiskNames, Undefined(op, risk)
        PROVE  IInv'
    BY <2>3, UndefinedGood
  <2>4. ASSUME NEW n \in 0..MaxGofs, state.data + n <= MaxGofs, AppendResult(AddGofs(s, n), "OK")
        PROVE  IInv'
    <3>1. Good(AddGofs(s, n))
      BY <1>1, <1>4, <2>4, AddGofsGood DEF HasData
    <3> QED BY <3>1, <2>4, <1>2
  <2> QED BY <2>1, <2>2, <2>3, <2>4
<1> QED BY <1>3, <1>4

(* A valid iterator moved within the data.                                 *)
LEMMA MoveToGood ==
  ASSUME IInv, HasData, state.valid, NEW op, NEW i \in Nat, i <= state.data, MoveTo(op, i)
  PROVE  IInv'
<1> DEFINE s == [state EXCEPT !.it.at = i, !.ind = i]
<1> USE StateGood, ErrorTypes
<1>1. state.it = [at |-> state.ind, stale |-> FALSE] /\ state.data \in 0..MaxGofs
      /\ state.data # NoData /\ MaxGofs \in Nat
  BY StateAssumption DEF Good, Handle, Sound, HasData
<1>2. i \in 0..MaxGofs
  BY <1>1
<1>3. s.it = [at |-> i, stale |-> FALSE] /\ s.ind = i /\ s.data = state.data
      /\ s.valid = state.valid
  <2>1. [state.it EXCEPT !.at = i] = [at |-> i, stale |-> FALSE]
    <3> DEFINE new == [state.it EXCEPT !.at = i]
    <3>1. state.it \in [at : Nat, stale : BOOLEAN] /\ state.it.stale = FALSE
      BY <1>1, StateAssumption DEF Good, Handle
    <3>2. new \in [at : Nat, stale : BOOLEAN] /\ new.at = i /\ new.stale = FALSE
      BY <3>1
    <3> HIDE DEF new
    <3>3. new = [at |-> new.at, stale |-> new.stale]
      BY <3>2
    <3>4. new = [at |-> i, stale |-> FALSE]
      BY <3>2, <3>3
    <3> QED BY <3>4 DEF new
  <2>2. s.it = [state.it EXCEPT !.at = i] /\ s.ind = i /\ s.data = state.data
        /\ s.valid = state.valid
    BY DEF Good, Handle
  <2> QED BY <2>1, <2>2
<1>4. s \in Handle
  BY <1>1, <1>2, <1>3 DEF Good, Handle
<1>5. Good(s)
  BY <1>1, <1>3, <1>4 DEF Good, Sound
<1>6. CASE i = state.data
  <2>1. Fail(op, s, "EOS")
    BY <1>6 DEF MoveTo
  <2> QED BY <2>1, <1>5, FailGood
<1>7. CASE i # state.data
  <2>1. Return(op, s, "OK", "OK")
    BY <1>7 DEF MoveTo
  <2>2. s.it # Null
    <3>1. [at |-> i, stale |-> FALSE] \in [at : Nat, stale : BOOLEAN]
      OBVIOUS
    <3>2. [at |-> i, stale |-> FALSE] # Null
      BY <3>1, StateAssumption, Zenon
    <3> QED BY <1>3, <3>2
  <2>3. s.it.at # s.data
    BY <1>3, <1>7
  <2>4. Readable(s)
    BY <1>1, <1>3, <2>2, <2>3 DEF Readable, CurGofError
  <2> HIDE DEF s
  <2> QED BY <1>5, <2>1, <2>4, ReturnGood
<1> QED BY <1>6, <1>7

(* first_gof, last_gof, gof_at, next_gof and prev_gof.                     *)
LEMMA NavigateStep ==
  ASSUME IInv, FirstGof \/ LastGof \/ (\E i \in 0..MaxGofs : GofAtCall(i)) \/ NextGof \/ PrevGof
  PROVE  IInv'
<1> USE StateGood, ErrorTypes
<1>1. ASSUME NEW op, NEW r, Good(r.s), r.ret \in ERROR_TYPE, r.ret = "OK" => Readable(r.s),
             Navigate(op, r)
      PROVE  IInv'
  BY <1>1, ReturnGood DEF Navigate
<1>2. CASE ~ HasData
  BY <1>2, FailGood DEF FirstGof, LastGof, GofAtCall, NextGof, PrevGof
<1>3. ASSUME HasData, FirstGof
      PROVE  IInv'
  <2>1. Navigate("first_gof", GofAt(state, 0))
    BY <1>3 DEF FirstGof
  <2> QED BY <2>1, <1>1, GofAtGood
<1>4. ASSUME HasData, LastGof
      PROVE  IInv'
  <2>1. Navigate("last_gof", InitCurGof(Invalidate(state), 0, TRUE))
    BY <1>4 DEF LastGof
  <2> QED BY <2>1, <1>1, InvalidateGood, InitCurGofGood
<1>5. ASSUME HasData, NEW i \in 0..MaxGofs, GofAtCall(i)
      PROVE  IInv'
  <2>1. Navigate("gof_at", GofAt(state, i))
    BY <1>5 DEF GofAtCall
  <2> QED BY <2>1, <1>1, GofAtGood
<1>6. ASSUME HasData, CurGofError(state, FALSE) # "OK", NextGof \/ PrevGof
      PROVE  IInv'
  BY <1>6, FailGood DEF NextGof, PrevGof
<1>7. CurGofError(state, FALSE) = "OK" => state.valid
  BY DEF CurGofError
<1>8. HasData => state.data \in Nat
  BY StateAssumption DEF HasData, Good, Handle
<1>9. state.valid => state.it.at = state.ind /\ state.it.at \in Nat
  BY StateAssumption DEF Good, Handle, Sound
<1>10. HasData => state.ind \in Nat /\ state.ind <= state.data
  BY StateAssumption DEF Good, Handle, Sound, HasData
<1>11. ASSUME HasData, CurGofError(state, FALSE) = "OK", NextGof
       PROVE  IInv'
  <2>1. \/ Undefined("next_gof", "next_gof at the end")
        \/ state.it.at # state.data /\ MoveTo("next_gof", state.it.at + 1)
    BY <1>11 DEF NextGof
  <2>2. ASSUME state.it.at # state.data, MoveTo("next_gof", state.it.at + 1)
        PROVE  IInv'
    <3>1. state.it.at + 1 \in Nat /\ state.it.at + 1 <= state.data
      BY <1>7, <1>8, <1>9, <1>10, <1>11, <2>2
    <3> QED BY <3>1, <2>2, <1>7, <1>11, MoveToGood
  <2> QED BY <2>1, <2>2, UndefinedGood
<1>12. ASSUME HasData, CurGofError(state, FALSE) = "OK", PrevGof
       PROVE  IInv'
  <2>1. MoveTo("prev_gof", StepBack(state.it.at))
    BY <1>12 DEF PrevGof
  <2>2. StepBack(state.it.at) \in Nat /\ StepBack(state.it.at) <= state.data
    BY <1>7, <1>8, <1>9, <1>10, <1>12 DEF StepBack
  <2> QED BY <2>1, <2>2, <1>7, <1>12, MoveToGood
<1> QED BY <1>2, <1>3, <1>4, <1>5, <1>6, <1>11, <1>12

(* The accessors, reset_error_flag and the sender's calls.                 *)
LEMMA ReadAndSendStep ==
  ASSUME IInv, ReadStream \/ ReadCurGof \/ CurGofInd \/ InfoCall \/ ResetErrorFlag
               \/ SendBitstream \/ SendCurGof \/ InstallReceiveHook
  PROVE  IInv'
<1> USE StateGood, ErrorTypes
<1>1. CurGofError(state, TRUE) \in ERROR_TYPE /\ CurGofError(state, FALSE) \in ERROR_TYPE
  BY DEF CurGofError
<1>2. CASE ReadStream
  BY <1>2, FailGood, ReturnGood DEF ReadStream, Moves
<1>3. CASE ReadCurGof
  BY <1>1, <1>3, FailGood, ReturnGood DEF ReadCurGof, Moves
<1>4. CASE CurGofInd
  BY <1>1, <1>4, FailGood, ReturnGood DEF CurGofInd, Moves
<1>5. CASE ResetErrorFlag
  BY <1>5, SetErrorGood, ReturnGood DEF ResetErrorFlag, Moves
<1>6. ASSUME NEW op, op \notin Moves, Send(op)
      PROVE  IInv'
  BY <1>6, UndefinedGood, SetErrorGood, ReturnFlagGood DEF Send
<1>7. CASE SendBitstream
  BY <1>6, <1>7, FailGood DEF SendBitstream, Moves
<1>8. CASE SendCurGof
  BY <1>1, <1>6, <1>8, FailGood DEF SendCurGof, Moves
<1>9. CASE InstallReceiveHook
  BY <1>9, FailGood, SetErrorGood, ReturnFlagGood DEF InstallReceiveHook, Moves
<1>10. CASE InfoCall
  <2>1. CASE GetBitstreamInfo
    BY <2>1, FailGood, ReturnGood DEF GetBitstreamInfo, Moves
  <2>2. CASE GetCurGofInfo
    BY <1>1, <2>2, FailGood, ReturnGood DEF GetCurGofInfo, Moves
  <2>3. CASE ParseInfo
    BY <2>3, FailGood, ReturnGood, ReturnFlagGood DEF ParseInfo, Moves
  <2>4. CASE PrintState
    BY <1>1, <2>4, FailGood, ReturnFlagGood DEF PrintState, Moves
  <2> QED BY <1>10, <2>1, <2>2, <2>3, <2>4 DEF InfoCall
<1> QED BY <1>2, <1>3, <1>4, <1>5, <1>7, <1>8, <1>9, <1>10

(* receive_bitstream, receive_gof and receive_unit.                        *)
LEMMA ReceiveStep ==
  ASSUME IInv, ReceiveBitstream \/ ReceiveGof \/ ReceiveUnit
  PROVE  IInv'
<1> USE StateGood, ErrorTypes
<1>1. CASE ReceiveBitstream
  <2> DEFINE op == "receive_bitstream"
             placed(n) == InitCurGof([state EXCEPT !.data = n], 0, FALSE).s
  <2>1. op \notin Moves
    BY DEF Moves
  <2>2. ASSUME ~ HasData, NEW n \in 0..MaxGofs
        PROVE  Good(placed(n))
    BY <2>2, FirstDataGood, InitCurGofGood DEF HasData
  <2>3. \/ Fail(op, state, "DATA")
        \/ Undefined(op, "no connection")
        \/ \E e \in {"CONNECTION", "TIMESTAMP", "GENERAL"} : ReturnFlag(op, SetError(state, e), e)
        \/ ~ HasData /\ \E n \in 0..MaxGofs :
             \/ \E raised \in {"TIMEOUT", "OK"} : ReturnFlag(op, placed(n), raised)
             \/ ReturnFlag(op, SetError(placed(n), "TIMESTAMP"), "TIMESTAMP")
    BY <1>1 DEF ReceiveBitstream
  <2> HIDE DEF placed, op
  <2>4. CASE Fail(op, state, "DATA")
    BY <2>4, FailGood
  <2>5. CASE Undefined(op, "no connection")
    BY <2>5, UndefinedGood
  <2>6. CASE \E e \in {"CONNECTION", "TIMESTAMP", "GENERAL"} : ReturnFlag(op, SetError(state, e), e)
    BY <2>1, <2>6, SetErrorGood, ReturnFlagGood
  <2>7. ASSUME ~ HasData, NEW n \in 0..MaxGofs,
               \/ \E raised \in {"TIMEOUT", "OK"} : ReturnFlag(op, placed(n), raised)
               \/ ReturnFlag(op, SetError(placed(n), "TIMESTAMP"), "TIMESTAMP")
        PROVE  IInv'
    BY <2>1, <2>2, <2>7, SetErrorGood, ReturnFlagGood
  <2> QED BY <2>3, <2>4, <2>5, <2>6, <2>7
<1>2. ASSUME NEW t, Good(t), ~ t.valid
      PROVE  Good(Reposition(t))
  <2>1. t.ind \in Nat
    BY <1>2, StateAssumption DEF Good, Handle
  <2> QED BY <1>2, <2>1, InitCurGofGood, GofAtGood DEF Reposition
<1>3. ASSUME NEW op, op \notin Moves, NEW added \in SUBSET {0, 1}, Receive(op, added)
      PROVE  IInv'
  <2> DEFINE s == Invalidate(state)
             pushed(n) == AddGofs(s, n)
             placed(n) == Reposition(pushed(n))
  <2>1. Good(s) /\ ~ s.valid /\ s.data = state.data
    BY InvalidateGood
  <2>2. \/ Fail(op, state, "DATA")
        \/ Undefined(op, "no connection")
        \/ \E e \in {"TIMEOUT", "TIMESTAMP", "CONNECTION", "GENERAL"} :
              ReturnFlag(op, SetError(s, e), e)
        \/ HasData /\ \E n \in {0, 1} :
             /\ state.data + n <= MaxGofs
             /\ \/ ReturnFlag(op, SetError(pushed(n), "TIMESTAMP"), "TIMESTAMP")
                \/ \E e \in {"TIMESTAMP", "GENERAL"} : ReturnFlag(op, SetError(placed(n), e), e)
                \/ ReturnFlag(op, placed(n), "OK")
    BY <1>3 DEF Receive
  <2>3. ASSUME HasData, NEW n \in {0, 1}, state.data + n <= MaxGofs
        PROVE  Good(pushed(n)) /\ Good(placed(n))
    <3>1. Good(pushed(n))
      BY <2>1, <2>3, AddGofsGood DEF HasData
    <3>2. ~ pushed(n).valid
      BY <2>1 DEF AddGofs, Good, Handle
    <3> HIDE DEF pushed
    <3> QED BY <3>1, <3>2, <1>2
  <2> HIDE DEF s, pushed, placed
  <2>4. CASE Fail(op, state, "DATA")
    BY <2>4, FailGood
  <2>5. CASE Undefined(op, "no connection")
    BY <2>5, UndefinedGood
  <2>6. CASE \E e \in {"TIMEOUT", "TIMESTAMP", "CONNECTION", "GENERAL"} :
              ReturnFlag(op, SetError(s, e), e)
    BY <1>3, <2>1, <2>6, SetErrorGood, ReturnFlagGood
  <2>7. ASSUME HasData, NEW n \in {0, 1}, state.data + n <= MaxGofs,
               \/ ReturnFlag(op, SetError(pushed(n), "TIMESTAMP"), "TIMESTAMP")
               \/ \E e \in {"TIMESTAMP", "GENERAL"} : ReturnFlag(op, SetError(placed(n), e), e)
               \/ ReturnFlag(op, placed(n), "OK")
        PROVE  IInv'
    BY <1>3, <2>3, <2>7, SetErrorGood, ReturnFlagGood
  <2> QED BY <2>2, <2>4, <2>5, <2>6, <2>7
<1>4. CASE ReceiveGof \/ ReceiveUnit
  BY <1>3, <1>4 DEF ReceiveGof, ReceiveUnit, Moves
<1> QED BY <1>1, <1>4

-----------------------------------------------------------------------------
(* The theorems *)

(* The handle's invariant holds after every sequence of calls.             *)
THEOREM HandleInvariant == Spec => []IInv
<1>1. Init => IInv
  <2> SUFFICES ASSUME Init PROVE IInv
    OBVIOUS
  <2>1. PICK r \in Roles, c \in Connections : state = NewHandle(r, c)
    BY DEF Init
  <2>2. state \in Handle /\ state.data = NoData /\ state.it = Null /\ state.valid = FALSE
        /\ state.ind = 0
    BY <2>1, StateAssumption, ErrorTypes DEF NewHandle, Handle
  <2>3. ItSound
    BY <2>2 DEF ItSound, Sound
  <2>4. call.op = "V3C_State" /\ call.ret = state.error /\ call.raised = state.error
        /\ undefined = FALSE
    BY DEF Init
  <2>5. NavigationHonest
    BY <2>4 DEF NavigationHonest, Moves
  <2>6. TypeOK
    BY <2>2, <2>4 DEF TypeOK, Handle
  <2> QED BY <2>3, <2>5, <2>6 DEF IInv
<1>2. IInv /\ [Next]_vars => IInv'
  <2> SUFFICES ASSUME IInv, [Next]_vars PROVE IInv'
    OBVIOUS
  <2>1. CASE UNCHANGED vars
    BY <2>1 DEF vars, IInv, TypeOK, ItSound, NavigationHonest
  <2>2. CASE Stopped
    BY <2>1, <2>2 DEF Stopped
  <2>3. CASE Next /\ ~ Stopped
    BY <2>3, DataStep, AppendStep, NavigateStep, ReadAndSendStep, ReceiveStep DEF Next
  <2> QED BY <2>1, <2>2, <2>3
<1> QED BY <1>1, <1>2, PTL DEF Spec

(* The handle and the results of the calls keep their types.               *)
THEOREM HandleTypes == Spec => []TypeOK
<1>1. IInv => TypeOK
  BY DEF IInv
<1> QED BY <1>1, HandleInvariant, PTL

(* An iterator marked valid is never stale and never past the end.         *)
THEOREM IteratorSound == Spec => []ItSound
<1>1. IInv => ItSound
  BY DEF IInv
<1> QED BY <1>1, HandleInvariant, PTL

(* A move that returns OK leaves a GoF that can be read and sent.          *)
THEOREM HonestMoves == Spec => []NavigationHonest
<1>1. IInv => NavigationHonest
  BY DEF IInv
<1> QED BY <1>1, HandleInvariant, PTL

-----------------------------------------------------------------------------
(* The error flag *)

(* A good handle whose flag is set.                                        *)
Flagged(s) == Good(s) /\ s.error # "OK"

(* Neither the iterator's nor the data's helpers clear the flag.           *)
LEMMA HelpersKeepFlag ==
  ASSUME NEW s, Flagged(s)
  PROVE  /\ \A e \in ERROR_TYPE \ {"OK"} : Flagged(SetError(s, e))
         /\ Flagged(Invalidate(s))
         /\ \A i \in Nat, reverse \in BOOLEAN : Flagged(InitCurGof(s, i, reverse).s)
         /\ \A i \in Nat : Flagged(GofAt(s, i).s)
         /\ \A n \in Nat : ~ s.valid /\ s.data # NoData /\ s.data + n <= MaxGofs
                             => Flagged(AddGofs(s, n)) /\ ~ AddGofs(s, n).valid
<1>1. ASSUME NEW t, Good(t), NEW e \in ERROR_TYPE \ {"OK"}
      PROVE  Flagged(SetError(t, e))
  <2>1. SetError(t, e).error = e
    BY <1>1 DEF SetError, Good, Handle
  <2> QED BY <1>1, <2>1, SetErrorGood DEF Flagged
<1>2. Flagged(Invalidate(s))
  <2>1. Invalidate(s).error = s.error
    BY DEF Invalidate, Flagged, Good, Handle
  <2> QED BY <2>1, InvalidateGood DEF Flagged
<1>3. ASSUME NEW t, Flagged(t), NEW i \in Nat, NEW reverse \in BOOLEAN
      PROVE  Flagged(InitCurGof(t, i, reverse).s)
  <2>1. InitCurGof(t, i, reverse).s.error \in {"DATA", "INVALID_IT", t.error}
    BY <1>3 DEF InitCurGof, SetError, At, Flagged, Good, Handle
  <2> QED BY <1>3, <2>1, InitCurGofGood DEF Flagged
<1>4. ASSUME NEW n \in Nat, ~ s.valid, s.data # NoData, s.data + n <= MaxGofs
      PROVE  Flagged(AddGofs(s, n)) /\ ~ AddGofs(s, n).valid
  <2>1. AddGofs(s, n).error = s.error /\ AddGofs(s, n).valid = s.valid
    BY DEF AddGofs, Flagged, Good, Handle
  <2> QED BY <1>4, <2>1, AddGofsGood DEF Flagged
<1> QED BY <1>1, <1>2, <1>3, <1>4 DEF Flagged, GofAt

(* A call that returns leaves the flag of the handle it computed.          *)
LEMMA ReturnKeepsFlag ==
  ASSUME NEW op, NEW s, NEW ret, NEW raised, Flagged(s),
         Return(op, s, ret, raised) \/ ReturnFlag(op, s, raised)
  PROVE  state'.error # "OK"
BY DEF Return, ReturnFlag, Flagged

(* A call that fails sets the flag.                                        *)
LEMMA FailKeepsFlag ==
  ASSUME NEW op, Good(state), NEW e \in ERROR_TYPE \ {"OK"}, Fail(op, state, e)
  PROVE  state'.error # "OK"
BY DEF Fail, Return, SetError, Good, Handle

(* Undefined behaviour does not touch the modelled handle.                 *)
LEMMA UndefinedKeepsFlag ==
  ASSUME Flagged(state), NEW op, NEW risk, Undefined(op, risk)
  PROVE  state'.error # "OK"
BY DEF Undefined, Flagged

(* Data calls.                                                             *)
LEMMA DataKeepsFlag ==
  ASSUME IInv, Flagged(state),
         InitSampleStream \/ ClearSampleStream \/ InitBitstream \/ AppendToSampleStream
  PROVE  state'.error # "OK"
<1> USE ErrorTypes DEF Flagged
<1>1. CASE ~ HasData /\ InitSampleStream
  BY <1>1 DEF InitSampleStream, Return, Good, Handle
<1>2. CASE ClearSampleStream
  BY <1>2 DEF ClearSampleStream, Return, Good, Handle
<1>3. CASE HasData /\ (InitSampleStream \/ InitBitstream)
  BY <1>3, FailKeepsFlag DEF InitSampleStream, InitBitstream
<1>4. CASE ~ HasData /\ InitBitstream
  <2>1. ASSUME NEW s, Flagged(s), NEW op, NEW raised,
               Return(op, InitCurGof(s, 0, FALSE).s, InitCurGof(s, 0, FALSE).ret,
                      RaisedOr(raised, InitCurGof(s, 0, FALSE).ret))
        PROVE  state'.error # "OK"
    <3>1. Flagged(InitCurGof(s, 0, FALSE).s)
      BY <2>1, HelpersKeepFlag
    <3> HIDE DEF Flagged
    <3> QED BY <2>1, <3>1, ReturnKeepsFlag
  <2>2. Flagged(SetError(state, "PARSE"))
    BY HelpersKeepFlag
  <2>3. \A n \in 0..MaxGofs : Flagged([state EXCEPT !.data = n])
    <3> TAKE n \in 0..MaxGofs
    <3>1. [state EXCEPT !.data = n].error = state.error
      BY DEF Good, Handle
    <3> QED BY <1>4, <3>1, FirstDataGood DEF HasData
  <2> HIDE DEF Flagged
  <2> QED BY <1>4, <2>1, <2>2, <2>3, UndefinedKeepsFlag DEF InitBitstream
<1>5. CASE AppendToSampleStream
  <2> DEFINE s == Invalidate(state)
  <2>1. Flagged(s) /\ ~ s.valid /\ s.data = state.data
    BY HelpersKeepFlag, InvalidateGood
  <2>2. ASSUME NEW t, Flagged(t), NEW raised, AppendResult(t, raised)
        PROVE  state'.error # "OK"
    <3>1. t.ind \in Nat
      BY <2>2, StateAssumption DEF Good, Handle
    <3>2. Flagged(GofAt(t, t.ind).s)
      BY <2>2, <3>1, HelpersKeepFlag
    <3> HIDE DEF Flagged
    <3> QED BY <2>2, <3>2, ReturnKeepsFlag DEF AppendResult
  <2> HIDE DEF s
  <2>3. Flagged(SetError(s, "PARSE"))
    BY <2>1, HelpersKeepFlag
  <2>4. HasData => \A n \in 0..MaxGofs : state.data + n <= MaxGofs => Flagged(AddGofs(s, n))
    BY <2>1, HelpersKeepFlag DEF HasData
  <2>5. \/ Fail("append_to_sample_stream", state, "DATA")
        \/ AppendResult(SetError(s, "PARSE"), "PARSE")
        \/ \E risk \in RiskNames : Undefined("append_to_sample_stream", risk)
        \/ HasData /\ \E n \in 0..MaxGofs :
             state.data + n <= MaxGofs /\ AppendResult(AddGofs(s, n), "OK")
    BY <1>5 DEF AppendToSampleStream, s, RiskNames
  <2> HIDE DEF Flagged
  <2>6. Good(state)
    BY StateGood
  <2> QED BY <2>2, <2>3, <2>4, <2>5, <2>6, FailKeepsFlag, UndefinedKeepsFlag
<1> QED BY <1>1, <1>2, <1>3, <1>4, <1>5

(* Calls that move the iterator.                                           *)
LEMMA NavigateKeepsFlag ==
  ASSUME IInv, Flagged(state),
         FirstGof \/ LastGof \/ (\E i \in 0..MaxGofs : GofAtCall(i)) \/ NextGof \/ PrevGof
  PROVE  state'.error # "OK"
<1> USE ErrorTypes
<1>1. Good(state)
  BY DEF Flagged
<1>2. ASSUME NEW op, NEW r, Flagged(r.s), Navigate(op, r)
      PROVE  state'.error # "OK"
  BY <1>2, ReturnKeepsFlag DEF Navigate
<1>3. ASSUME NEW op, NEW i, MoveTo(op, i)
      PROVE  state'.error # "OK"
  <2> DEFINE s == [state EXCEPT !.it.at = i, !.ind = i]
  <2>1. s.error = state.error
    BY DEF Flagged, Good, Handle
  <2>2. state' = s \/ state' = SetError(s, "EOS")
    BY <1>3 DEF MoveTo, Fail, Return
  <2>3. SetError(s, "EOS").error = "EOS"
    BY DEF SetError, Flagged, Good, Handle
  <2> HIDE DEF s
  <2> QED BY <2>1, <2>2, <2>3 DEF Flagged
<1>4. Flagged(GofAt(state, 0).s) /\ (\A i \in 0..MaxGofs : Flagged(GofAt(state, i).s))
      /\ Flagged(InitCurGof(Invalidate(state), 0, TRUE).s)
  <2>1. \A i \in Nat : Flagged(GofAt(state, i).s)
    BY HelpersKeepFlag
  <2>2. Flagged(Invalidate(state))
    BY HelpersKeepFlag
  <2>3. Flagged(InitCurGof(Invalidate(state), 0, TRUE).s)
    BY <2>2, HelpersKeepFlag
  <2>4. 0 \in Nat /\ \A i \in 0..MaxGofs : i \in Nat
    OBVIOUS
  <2> QED BY <2>1, <2>3, <2>4, Zenon
<1>5. CASE FirstGof \/ LastGof \/ (\E i \in 0..MaxGofs : GofAtCall(i))
  BY <1>1, <1>2, <1>4, <1>5, FailKeepsFlag DEF FirstGof, LastGof, GofAtCall
<1>6. CASE NextGof \/ PrevGof
  BY <1>1, <1>3, <1>6, FailKeepsFlag, UndefinedKeepsFlag DEF NextGof, PrevGof
<1> QED BY <1>5, <1>6

(* Accessors, sends and the installation of a hook.                        *)
LEMMA ReadAndSendKeepFlag ==
  ASSUME IInv, Flagged(state),
         ReadStream \/ ReadCurGof \/ CurGofInd \/ InfoCall
           \/ SendBitstream \/ SendCurGof \/ InstallReceiveHook
  PROVE  state'.error # "OK"
<1> USE ErrorTypes
<1>1. Good(state)
  BY DEF Flagged
<1>2. CurGofError(state, TRUE) \in ERROR_TYPE /\ CurGofError(state, FALSE) \in ERROR_TYPE
  BY DEF CurGofError
<1>3. \A e \in ERROR_TYPE \ {"OK"} : Flagged(SetError(state, e))
  BY HelpersKeepFlag
<1>4. ASSUME NEW op, Send(op)
      PROVE  state'.error # "OK"
  BY <1>3, <1>4, ReturnKeepsFlag, UndefinedKeepsFlag DEF Send
<1>5. CASE ReadStream \/ ReadCurGof \/ CurGofInd
  BY <1>1, <1>2, <1>5, FailKeepsFlag, ReturnKeepsFlag DEF ReadStream, ReadCurGof, CurGofInd
<1>6. CASE SendBitstream \/ SendCurGof
  BY <1>1, <1>2, <1>4, <1>6, FailKeepsFlag DEF SendBitstream, SendCurGof
<1>7. CASE InstallReceiveHook
  BY <1>1, <1>3, <1>7, FailKeepsFlag, ReturnKeepsFlag DEF InstallReceiveHook
<1>8. CASE InfoCall
  <2>1. CASE GetBitstreamInfo
    BY <1>1, <2>1, FailKeepsFlag, ReturnKeepsFlag DEF GetBitstreamInfo
  <2>2. CASE GetCurGofInfo
    BY <1>1, <1>2, <2>2, FailKeepsFlag, ReturnKeepsFlag DEF GetCurGofInfo
  <2>3. CASE ParseInfo
    BY <1>1, <2>3, FailKeepsFlag, ReturnKeepsFlag DEF ParseInfo
  <2>4. CASE PrintState
    BY <1>1, <1>2, <2>4, FailKeepsFlag, ReturnKeepsFlag DEF PrintState
  <2> QED BY <1>8, <2>1, <2>2, <2>3, <2>4 DEF InfoCall
<1> QED BY <1>5, <1>6, <1>7, <1>8

(* Receive calls.                                                          *)
LEMMA ReceiveKeepsFlag ==
  ASSUME IInv, Flagged(state), ReceiveBitstream \/ ReceiveGof \/ ReceiveUnit
  PROVE  state'.error # "OK"
<1> USE ErrorTypes
<1>1. Good(state)
  BY DEF Flagged
<1>2. ASSUME NEW s, Flagged(s), NEW op,
             \/ \E raised : ReturnFlag(op, s, raised)
             \/ \E e \in ERROR_TYPE \ {"OK"} : ReturnFlag(op, SetError(s, e), e)
      PROVE  state'.error # "OK"
  BY <1>2, HelpersKeepFlag, ReturnKeepsFlag
<1>3. CASE ReceiveBitstream
  <2> DEFINE op == "receive_bitstream"
             placed(n) == InitCurGof([state EXCEPT !.data = n], 0, FALSE).s
  <2>1. ASSUME ~ HasData, NEW n \in 0..MaxGofs
        PROVE  Flagged(placed(n))
    <3>1. [state EXCEPT !.data = n].error = state.error
      BY DEF Flagged, Good, Handle
    <3>2. Flagged([state EXCEPT !.data = n])
      BY <2>1, <3>1, <1>1, FirstDataGood DEF HasData, Flagged
    <3> QED BY <3>2, HelpersKeepFlag
  <2>2. \/ Fail(op, state, "DATA")
        \/ Undefined(op, "no connection")
        \/ \E e \in ERROR_TYPE \ {"OK"} : ReturnFlag(op, SetError(state, e), e)
        \/ ~ HasData /\ \E n \in 0..MaxGofs :
             \/ \E raised : ReturnFlag(op, placed(n), raised)
             \/ \E e \in ERROR_TYPE \ {"OK"} : ReturnFlag(op, SetError(placed(n), e), e)
    BY <1>3 DEF ReceiveBitstream
  <2> HIDE DEF placed, op
  <2> QED BY <2>1, <2>2, <1>1, <1>2, FailKeepsFlag, UndefinedKeepsFlag
<1>4. ASSUME NEW op, NEW added \in SUBSET {0, 1}, Receive(op, added)
      PROVE  state'.error # "OK"
  <2> DEFINE s == Invalidate(state)
             pushed(n) == AddGofs(s, n)
             placed(n) == Reposition(pushed(n))
  <2>1. Flagged(s) /\ ~ s.valid /\ s.data = state.data
    BY <1>1, HelpersKeepFlag, InvalidateGood
  <2>2. \/ Fail(op, state, "DATA")
        \/ Undefined(op, "no connection")
        \/ \E e \in ERROR_TYPE \ {"OK"} : ReturnFlag(op, SetError(s, e), e)
        \/ HasData /\ \E n \in {0, 1} :
             /\ state.data + n <= MaxGofs
             /\ \/ \E e \in ERROR_TYPE \ {"OK"} : ReturnFlag(op, SetError(pushed(n), e), e)
                \/ \E e \in ERROR_TYPE \ {"OK"} : ReturnFlag(op, SetError(placed(n), e), e)
                \/ \E raised : ReturnFlag(op, placed(n), raised)
    BY <1>4 DEF Receive
  <2>3. ASSUME HasData, NEW n \in {0, 1}, state.data + n <= MaxGofs
        PROVE  Flagged(pushed(n)) /\ Flagged(placed(n))
    <3>1. Flagged(pushed(n))
      BY <2>1, <2>3, HelpersKeepFlag DEF HasData
    <3>2. pushed(n).ind \in Nat
      BY <3>1, StateAssumption DEF Flagged, Good, Handle
    <3> HIDE DEF pushed
    <3> QED BY <3>1, <3>2, HelpersKeepFlag DEF Reposition
  <2> HIDE DEF s, pushed, placed
  <2> QED BY <2>1, <2>2, <2>3, <1>1, <1>2, FailKeepsFlag, UndefinedKeepsFlag
<1> QED BY <1>3, <1>4 DEF ReceiveGof, ReceiveUnit

(* A failure stays flagged until the client resets the flag.               *)
THEOREM StickyFlag == Spec => FlagSticky
<1> DEFINE Cleared == state.error # "OK" /\ state'.error = "OK"
<1>1. IInv /\ [Next]_vars => [Cleared => call'.op = "reset_error_flag"]_vars
  <2> SUFFICES ASSUME IInv, Next, Cleared, ~ ResetErrorFlag PROVE FALSE
    BY DEF ResetErrorFlag, Return, vars
  <2>1. Flagged(state)
    BY StateGood DEF Flagged
  <2>2. ~ Stopped
    BY DEF Stopped, vars
  <2> QED
    BY <2>1, <2>2, DataKeepsFlag, NavigateKeepsFlag, ReadAndSendKeepFlag, ReceiveKeepsFlag DEF Next
<1> QED BY <1>1, HandleInvariant, PTL DEF Spec, FlagSticky

-----------------------------------------------------------------------------
(* A failure is recorded: every way in which a call ends leaves the flag    *)
(* set if something failed in it.                                           *)
LEMMA ReturnRecords ==
  ASSUME NEW op, NEW s, NEW ret, NEW raised, raised # "OK" => s.error # "OK",
         Return(op, s, ret, raised)
  PROVE  ErrorsFlagged'
BY DEF Return, ErrorsFlagged

(* A call that returns the error flag has set it if it failed.              *)
LEMMA ReturnFlagRecords ==
  ASSUME NEW op, NEW s, NEW raised, raised # "OK" => s.error # "OK", ReturnFlag(op, s, raised)
  PROVE  ErrorsFlagged'
BY ReturnRecords DEF ReturnFlag

(* A call that fails sets the flag.                                         *)
LEMMA FailRecords ==
  ASSUME NEW op, NEW s, Good(s), NEW e, Fail(op, s, e)
  PROVE  ErrorsFlagged'
<1>1. SetError(s, e).error = e
  BY DEF SetError, Good, Handle
<1> QED BY <1>1, ReturnRecords DEF Fail

(* A call without defined behaviour returns nothing.                        *)
LEMMA UndefinedRecords ==
  ASSUME NEW op, NEW risk, Undefined(op, risk)
  PROVE  ErrorsFlagged'
BY DEF Undefined, ErrorsFlagged

(* init_cur_gof: its own errors set the flag, and it keeps an earlier one.  *)
LEMMA InitCurGofRecords ==
  ASSUME NEW s, Good(s), NEW raised, raised # "OK" => s.error # "OK",
         NEW i \in Nat, NEW reverse \in BOOLEAN
  PROVE  LET r == InitCurGof(s, i, reverse)
         IN RaisedOr(raised, r.ret) # "OK" => r.s.error # "OK"
<1>1. InitCurGof(s, i, reverse).s.error \in {"DATA", "INVALID_IT", s.error}
  BY DEF InitCurGof, SetError, At, Good, Handle
<1>2. InitCurGof(s, i, reverse).ret # "OK"
        => InitCurGof(s, i, reverse).s.error \in {"DATA", "INVALID_IT"}
  BY DEF InitCurGof, SetError, At, Good, Handle
<1> QED BY <1>1, <1>2 DEF RaisedOr

(* Data calls.                                                              *)
LEMMA DataRecords ==
  ASSUME IInv, InitSampleStream \/ ClearSampleStream \/ InitBitstream \/ AppendToSampleStream
  PROVE  ErrorsFlagged'
<1> USE ErrorTypes
<1>1. Good(state)
  BY StateGood
<1>2. CASE ClearSampleStream \/ InitSampleStream
  BY <1>1, <1>2, FailRecords, ReturnRecords DEF ClearSampleStream, InitSampleStream
<1>3. CASE HasData /\ InitBitstream
  BY <1>1, <1>3, FailRecords DEF InitBitstream
<1>4. CASE ~ HasData /\ InitBitstream
  <2>1. ASSUME NEW s, Good(s), NEW raised, raised # "OK" => s.error # "OK", NEW op,
               Return(op, InitCurGof(s, 0, FALSE).s, InitCurGof(s, 0, FALSE).ret,
                      RaisedOr(raised, InitCurGof(s, 0, FALSE).ret))
        PROVE  ErrorsFlagged'
    BY <2>1, InitCurGofRecords, ReturnRecords
  <2>2. Good(SetError(state, "PARSE")) /\ SetError(state, "PARSE").error # "OK"
    BY <1>1, SetErrorGood DEF SetError, Good, Handle
  <2>3. \A n \in 0..MaxGofs : Good([state EXCEPT !.data = n])
    BY <1>1, <1>4, FirstDataGood DEF HasData
  <2> QED BY <1>4, <2>1, <2>2, <2>3, UndefinedRecords DEF InitBitstream
<1>5. CASE AppendToSampleStream
  <2> DEFINE s == Invalidate(state)
  <2>1. Good(s) /\ ~ s.valid /\ s.data = state.data
    BY <1>1, InvalidateGood
  <2>2. ASSUME NEW t, Good(t), NEW raised, raised # "OK" => t.error # "OK", AppendResult(t, raised)
        PROVE  ErrorsFlagged'
    <3>1. t.ind \in Nat
      BY <2>2, StateAssumption DEF Good, Handle
    <3>2. Good(Invalidate(t)) /\ Invalidate(t).error = t.error
      BY <2>2, InvalidateGood DEF Invalidate, Good, Handle
    <3>3. RaisedOr(raised, GofAt(t, t.ind).ret) # "OK" => GofAt(t, t.ind).s.error # "OK"
      BY <2>2, <3>1, <3>2, InitCurGofRecords DEF GofAt
    <3> QED BY <2>2, <3>3, ReturnRecords DEF AppendResult
  <2> HIDE DEF s
  <2>3. Good(SetError(s, "PARSE")) /\ SetError(s, "PARSE").error # "OK"
    BY <2>1, SetErrorGood DEF SetError, Good, Handle
  <2>4. HasData => \A n \in 0..MaxGofs : state.data + n <= MaxGofs => Good(AddGofs(s, n))
    BY <2>1, AddGofsGood DEF HasData
  <2>5. \/ Fail("append_to_sample_stream", state, "DATA")
        \/ AppendResult(SetError(s, "PARSE"), "PARSE")
        \/ \E risk \in RiskNames : Undefined("append_to_sample_stream", risk)
        \/ HasData /\ \E n \in 0..MaxGofs :
             state.data + n <= MaxGofs /\ AppendResult(AddGofs(s, n), "OK")
    BY <1>5 DEF AppendToSampleStream, s, RiskNames
  <2> QED BY <1>1, <2>2, <2>3, <2>4, <2>5, FailRecords, UndefinedRecords
<1> QED BY <1>2, <1>3, <1>4, <1>5

(* Calls that move the iterator.                                            *)
LEMMA NavigateRecords ==
  ASSUME IInv, FirstGof \/ LastGof \/ (\E i \in 0..MaxGofs : GofAtCall(i)) \/ NextGof \/ PrevGof
  PROVE  ErrorsFlagged'
<1>1. Good(state) /\ Good(Invalidate(state))
  BY StateGood, InvalidateGood
<1>2. ASSUME NEW i \in Nat, NEW reverse \in BOOLEAN, NEW op,
             Navigate(op, InitCurGof(Invalidate(state), i, reverse))
      PROVE  ErrorsFlagged'
  <2> DEFINE r == InitCurGof(Invalidate(state), i, reverse)
  <2>1. RaisedOr("OK", r.ret) # "OK" => r.s.error # "OK"
    BY <1>1, InitCurGofRecords
  <2>2. r.ret # "OK" => r.s.error # "OK"
    BY <2>1 DEF RaisedOr
  <2> HIDE DEF r
  <2>3. Return(op, r.s, r.ret, r.ret)
    BY <1>2 DEF Navigate, r
  <2> QED BY <2>2, <2>3, ReturnRecords
<1>3. ASSUME NEW op, NEW i, MoveTo(op, i)
      PROVE  ErrorsFlagged'
  <2> DEFINE s == [state EXCEPT !.it.at = i, !.ind = i]
  <2>1. SetError(s, "EOS").error = "EOS"
    BY <1>1 DEF SetError, Good, Handle
  <2>2. Return(op, SetError(s, "EOS"), "EOS", "EOS") \/ Return(op, s, "OK", "OK")
    BY <1>3 DEF MoveTo, Fail
  <2> HIDE DEF s
  <2> QED BY <2>1, <2>2, ReturnRecords
<1>4. CASE FirstGof \/ LastGof \/ (\E i \in 0..MaxGofs : GofAtCall(i))
  <2>1. CASE FirstGof
    BY <1>1, <1>2, <2>1, FailRecords DEF FirstGof, GofAt
  <2>2. CASE LastGof
    BY <1>1, <1>2, <2>2, FailRecords DEF LastGof
  <2>3. ASSUME NEW i \in 0..MaxGofs, GofAtCall(i)
        PROVE  ErrorsFlagged'
    <3>1. i \in Nat
      OBVIOUS
    <3>2. Fail("gof_at", state, "DATA")
          \/ Navigate("gof_at", InitCurGof(Invalidate(state), i, FALSE))
      BY <2>3 DEF GofAtCall, GofAt
    <3> QED BY <1>1, <1>2, <3>1, <3>2, FailRecords
  <2> QED BY <1>4, <2>1, <2>2, <2>3
<1>5. CASE NextGof \/ PrevGof
  BY <1>1, <1>3, <1>5, FailRecords, UndefinedRecords DEF NextGof, PrevGof
<1> QED BY <1>4, <1>5

(* Accessors, sends and the installation of a hook.                         *)
LEMMA ReadAndSendRecord ==
  ASSUME IInv,
         ReadStream \/ ReadCurGof \/ CurGofInd \/ InfoCall \/ ResetErrorFlag
           \/ SendBitstream \/ SendCurGof \/ InstallReceiveHook
  PROVE  ErrorsFlagged'
<1>1. Good(state)
  BY StateGood
<1>2. \A e : SetError(state, e).error = e
  BY <1>1 DEF SetError, Good, Handle
<1>3. ASSUME NEW op, Send(op)
      PROVE  ErrorsFlagged'
  BY <1>2, <1>3, ReturnFlagRecords, UndefinedRecords DEF Send
<1>4. CASE ReadStream \/ ReadCurGof \/ CurGofInd \/ ResetErrorFlag
  BY <1>1, <1>4, FailRecords, ReturnRecords DEF ReadStream, ReadCurGof, CurGofInd, ResetErrorFlag
<1>5. CASE SendBitstream \/ SendCurGof
  BY <1>1, <1>3, <1>5, FailRecords DEF SendBitstream, SendCurGof
<1>6. CASE InstallReceiveHook
  BY <1>1, <1>2, <1>6, FailRecords, ReturnFlagRecords DEF InstallReceiveHook
<1>7. CASE InfoCall
  <2>1. CASE GetBitstreamInfo \/ GetCurGofInfo
    BY <1>1, <2>1, FailRecords, ReturnRecords DEF GetBitstreamInfo, GetCurGofInfo
  <2>2. CASE ParseInfo \/ PrintState
    BY <1>1, <2>2, FailRecords, ReturnRecords, ReturnFlagRecords DEF ParseInfo, PrintState
  <2> QED BY <1>7, <2>1, <2>2 DEF InfoCall
<1> QED BY <1>4, <1>5, <1>6, <1>7

(* Receive calls: only a shortened bitstream fails silently.                *)
LEMMA ReceiveRecords ==
  ASSUME IInv, ReceiveBitstream \/ ReceiveGof \/ ReceiveUnit
  PROVE  ErrorsFlagged'
<1> USE ErrorTypes
<1>1. Good(state)
  BY StateGood
<1>2. ASSUME NEW s, Good(s), NEW op, NEW e, ReturnFlag(op, SetError(s, e), e)
      PROVE  ErrorsFlagged'
  <2>1. SetError(s, e).error = e
    BY <1>2 DEF SetError, Good, Handle
  <2> QED BY <1>2, <2>1, ReturnFlagRecords
<1>3. CASE ReceiveBitstream
  <2> DEFINE op == "receive_bitstream"
             placed(n) == InitCurGof([state EXCEPT !.data = n], 0, FALSE).s
  <2>1. ASSUME ~ HasData, NEW n \in 0..MaxGofs
        PROVE  Good(placed(n))
    BY <1>1, <2>1, FirstDataGood, InitCurGofGood DEF HasData
  <2>2. \/ Fail(op, state, "DATA")
        \/ Undefined(op, "no connection")
        \/ \E e \in ERROR_TYPE : ReturnFlag(op, SetError(state, e), e)
        \/ ~ HasData /\ \E n \in 0..MaxGofs :
             \/ \E raised \in {"TIMEOUT", "OK"} : ReturnFlag(op, placed(n), raised)
             \/ ReturnFlag(op, SetError(placed(n), "TIMESTAMP"), "TIMESTAMP")
    BY <1>3 DEF ReceiveBitstream
  <2>3. ASSUME NEW s, NEW raised \in {"TIMEOUT", "OK"}, ReturnFlag(op, s, raised)
        PROVE  ErrorsFlagged'
    BY <2>3 DEF ReturnFlag, Return, ErrorsFlagged, Shortened
  <2> HIDE DEF placed, op
  <2> QED BY <1>1, <1>2, <2>1, <2>2, <2>3, FailRecords, UndefinedRecords
<1>4. ASSUME NEW op, NEW added \in SUBSET {0, 1}, Receive(op, added)
      PROVE  ErrorsFlagged'
  <2> DEFINE s == Invalidate(state)
             pushed(n) == AddGofs(s, n)
             placed(n) == Reposition(pushed(n))
  <2>1. Good(s) /\ ~ s.valid /\ s.data = state.data
    BY <1>1, InvalidateGood
  <2>2. \/ Fail(op, state, "DATA")
        \/ Undefined(op, "no connection")
        \/ \E e \in ERROR_TYPE : ReturnFlag(op, SetError(s, e), e)
        \/ HasData /\ \E n \in {0, 1} :
             /\ state.data + n <= MaxGofs
             /\ \/ \E e \in ERROR_TYPE : ReturnFlag(op, SetError(pushed(n), e), e)
                \/ \E e \in ERROR_TYPE : ReturnFlag(op, SetError(placed(n), e), e)
                \/ ReturnFlag(op, placed(n), "OK")
    BY <1>4 DEF Receive
  <2>3. ASSUME HasData, NEW n \in {0, 1}, state.data + n <= MaxGofs
        PROVE  Good(pushed(n)) /\ Good(placed(n))
    <3>1. Good(pushed(n))
      BY <2>1, <2>3, AddGofsGood DEF HasData
    <3>2. pushed(n).ind \in Nat
      BY <3>1, StateAssumption DEF Good, Handle
    <3> HIDE DEF pushed
    <3> QED BY <3>1, <3>2, InitCurGofGood, GofAtGood DEF Reposition
  <2> HIDE DEF s, pushed, placed
  <2> QED BY <1>1, <1>2, <2>1, <2>2, <2>3, FailRecords, UndefinedRecords, ReturnFlagRecords
<1> QED BY <1>3, <1>4 DEF ReceiveGof, ReceiveUnit

(* Whatever a call did after the failure, and whatever it returned, the     *)
(* client finds the failure in the flag; only the timeout that shortens a   *)
(* received bitstream goes unrecorded.                                      *)
THEOREM FailuresFlagged == Spec => []ErrorsFlagged
<1>1. Init => ErrorsFlagged
  BY DEF Init, ErrorsFlagged
<1>2. IInv /\ ErrorsFlagged /\ [Next]_vars => ErrorsFlagged'
  <2> SUFFICES ASSUME IInv, ErrorsFlagged, [Next]_vars PROVE ErrorsFlagged'
    OBVIOUS
  <2>1. CASE UNCHANGED vars \/ Stopped
    BY <2>1 DEF Stopped, vars, ErrorsFlagged, Shortened
  <2> QED
    BY <2>1, DataRecords, NavigateRecords, ReadAndSendRecord, ReceiveRecords DEF Next
<1> QED BY <1>1, <1>2, HandleInvariant, PTL DEF Spec

-----------------------------------------------------------------------------
(* The position: renewing the iterator at cur_gof_ind_, adding GoFs and     *)
(* setting errors leave cur_gof_ind_ as it is.                              *)
LEMMA HelpersKeepPosition ==
  ASSUME NEW s, s \in Handle
  PROVE  /\ Invalidate(s) \in Handle /\ Invalidate(s).ind = s.ind /\ Invalidate(s).it = s.it
         /\ \A e : SetError(s, e).ind = s.ind
         /\ \A n : AddGofs(s, n).ind = s.ind /\ (s.it # Null => AddGofs(s, n).it # Null)
         /\ GofAt(s, s.ind).s.ind = s.ind
<1>1. Invalidate(s) \in Handle /\ Invalidate(s).ind = s.ind /\ Invalidate(s).it = s.it
  BY DEF Invalidate, Handle
<1>2. ASSUME NEW t \in Handle
      PROVE  \A e : SetError(t, e).ind = t.ind
  BY DEF SetError, Handle
<1>3. ASSUME NEW n
      PROVE  AddGofs(s, n).ind = s.ind /\ (s.it # Null => AddGofs(s, n).it # Null)
  <2>1. AddGofs(s, n).ind = s.ind
        /\ AddGofs(s, n).it = IF n > 0 /\ s.it # Null THEN [s.it EXCEPT !.stale = TRUE] ELSE s.it
    BY DEF AddGofs, Handle
  <2>2. s.it # Null => [s.it EXCEPT !.stale = TRUE] # Null
    <3> SUFFICES ASSUME s.it # Null PROVE [s.it EXCEPT !.stale = TRUE] # Null
      OBVIOUS
    <3>1. s.it \in [at : 0..MaxGofs, stale : BOOLEAN]
      BY DEF Handle
    <3>2. [s.it EXCEPT !.stale = TRUE] \in [at : 0..MaxGofs, stale : BOOLEAN]
      BY <3>1
    <3>3. [s.it EXCEPT !.stale = TRUE] \in [at : Nat, stale : BOOLEAN]
      BY <3>2, StateAssumption
    <3>4. Null \notin [at : Nat, stale : BOOLEAN]
      BY StateAssumption, Zenon
    <3> QED BY <3>3, <3>4
  <2> QED BY <2>1, <2>2
<1>4. ASSUME NEW t \in Handle
      PROVE  InitCurGof(t, t.ind, FALSE).s.ind = t.ind
  BY DEF InitCurGof, SetError, At, Handle
<1>5. GofAt(s, s.ind).s.ind = s.ind
  BY <1>1, <1>4 DEF GofAt
<1> QED BY <1>1, <1>2, <1>3, <1>5

(* Every way in which a call ends records its name.                         *)
LEMMA EndsNamed ==
  ASSUME NEW op
  PROVE  /\ \A s, ret, raised : Return(op, s, ret, raised) => call'.op = op
         /\ \A s, raised : ReturnFlag(op, s, raised) => call'.op = op
         /\ \A s, e : Fail(op, s, e) => call'.op = op
         /\ \A risk : Undefined(op, risk) => call'.op = op
<1>1. \A s, ret, raised : Return(op, s, ret, raised) => call'.op = op
  BY DEF Return
<1>2. \A risk : Undefined(op, risk) => call'.op = op
  BY DEF Undefined
<1> QED BY <1>1, <1>2 DEF ReturnFlag, Fail

(* The calls that add data are told apart by their names.                   *)
Adds == {"append_to_sample_stream", "receive_gof", "receive_unit"}

(* The calls that add GoFs are the appends and the receives.                *)
LEMMA OnlyAddersAdd ==
  ASSUME Next, call'.op \in Adds
  PROVE  AppendToSampleStream \/ ReceiveGof \/ ReceiveUnit \/ Stopped
<1> USE DEF Adds
<1>1. ASSUME NEW op, op \notin Adds
      PROVE  /\ \A s, ret, raised : ~ Return(op, s, ret, raised)
             /\ \A s, raised : ~ ReturnFlag(op, s, raised)
             /\ \A s, e : ~ Fail(op, s, e)
             /\ \A risk : ~ Undefined(op, risk)
  BY <1>1, EndsNamed
<1>2. ~ (InitSampleStream \/ InitBitstream \/ ClearSampleStream)
  BY <1>1 DEF InitSampleStream, InitBitstream, ClearSampleStream
<1>3. ~ (FirstGof \/ LastGof \/ \E i \in 0..MaxGofs : GofAtCall(i))
  BY <1>1 DEF FirstGof, LastGof, GofAtCall, Navigate
<1>4. ~ (NextGof \/ PrevGof)
  BY <1>1 DEF NextGof, PrevGof, MoveTo
<1>5. ~ (ReadStream \/ ReadCurGof \/ CurGofInd \/ ResetErrorFlag)
  BY <1>1 DEF ReadStream, ReadCurGof, CurGofInd, ResetErrorFlag
<1>6. ~ InfoCall
  BY <1>1 DEF InfoCall, GetBitstreamInfo, GetCurGofInfo, ParseInfo, PrintState
<1>7. ~ (SendBitstream \/ SendCurGof)
  BY <1>1 DEF SendBitstream, SendCurGof, Send
<1>8. ~ (ReceiveBitstream \/ InstallReceiveHook)
  BY <1>1 DEF ReceiveBitstream, InstallReceiveHook
<1> QED BY <1>2, <1>3, <1>4, <1>5, <1>6, <1>7, <1>8 DEF Next

(* An append renews the iterator at the position it had.                    *)
LEMMA AppendKeepsPosition ==
  ASSUME state \in Handle, HasData => state.data \in 0..MaxGofs, AppendToSampleStream
  PROVE  state'.ind = state.ind
<1> DEFINE s == Invalidate(state)
<1>1. s \in Handle /\ s.ind = state.ind /\ s.data = state.data
  BY HelpersKeepPosition DEF Invalidate, Handle
<1>2. ASSUME NEW t \in Handle, t.ind = state.ind, NEW raised, AppendResult(t, raised)
      PROVE  state'.ind = state.ind
  BY <1>2, HelpersKeepPosition DEF AppendResult, Return
<1>3. SetError(s, "PARSE") \in Handle /\ SetError(s, "PARSE").ind = state.ind
  BY <1>1, ErrorTypes DEF SetError, Handle
<1>4. ASSUME HasData, NEW n \in 0..MaxGofs, state.data + n <= MaxGofs
      PROVE  AddGofs(s, n) \in Handle /\ AddGofs(s, n).ind = state.ind
  <2>1. s.data + n \in 0..MaxGofs
    BY <1>1, <1>4, StateAssumption
  <2>2. s.it # Null => [s.it EXCEPT !.stale = TRUE] \in [at : 0..MaxGofs, stale : BOOLEAN]
    BY <1>1 DEF Handle
  <2> HIDE DEF s
  <2> QED BY <1>1, <2>1, <2>2 DEF AddGofs, Handle
<1> HIDE DEF s
<1>5. \/ Fail("append_to_sample_stream", state, "DATA")
      \/ AppendResult(SetError(s, "PARSE"), "PARSE")
      \/ \E risk \in RiskNames : Undefined("append_to_sample_stream", risk)
      \/ HasData /\ \E n \in 0..MaxGofs :
           state.data + n <= MaxGofs /\ AppendResult(AddGofs(s, n), "OK")
  BY DEF AppendToSampleStream, s, RiskNames
<1>6. Fail("append_to_sample_stream", state, "DATA") => state'.ind = state.ind
  BY HelpersKeepPosition DEF Fail, Return
<1> QED BY <1>2, <1>3, <1>4, <1>5, <1>6 DEF Undefined

(* A receive that adds a GoF renews the iterator at the position it had.    *)
LEMMA ReceiveKeepsPosition ==
  ASSUME state \in Handle, state.it # Null, ReceiveGof \/ ReceiveUnit,
         HasData => state.data \in 0..MaxGofs
  PROVE  state'.ind = state.ind
<1> DEFINE s == Invalidate(state)
<1>1. s \in Handle /\ s.ind = state.ind /\ s.data = state.data /\ s.it # Null
  BY HelpersKeepPosition DEF Invalidate, Handle
<1> HIDE DEF s
<1>2. ASSUME NEW n \in {0, 1}, HasData, state.data + n <= MaxGofs
      PROVE  AddGofs(s, n) \in Handle /\ AddGofs(s, n).ind = state.ind /\ AddGofs(s, n).it # Null
  <2>1. s.data + n \in 0..MaxGofs
    BY <1>1, <1>2, StateAssumption
  <2>2. [s.it EXCEPT !.stale = TRUE] \in [at : 0..MaxGofs, stale : BOOLEAN]
    BY <1>1 DEF Handle
  <2>3. AddGofs(s, n) \in Handle
    BY <1>1, <2>1, <2>2 DEF AddGofs, Handle
  <2> QED BY <1>1, <2>3, HelpersKeepPosition
<1>3. ASSUME NEW n \in {0, 1}, HasData, state.data + n <= MaxGofs
      PROVE  LET t == Reposition(AddGofs(s, n))
             IN t.ind = state.ind /\ \A e \in ERROR_TYPE : SetError(t, e).ind = state.ind
  <2> DEFINE u == AddGofs(s, n)
             t == Reposition(u)
  <2>1. u \in Handle /\ u.ind = state.ind /\ u.it # Null
    BY <1>2, <1>3
  <2> HIDE DEF u
  <2>2. t = GofAt(u, u.ind).s
    BY <2>1 DEF Reposition
  <2>3. t.ind = state.ind
    BY <2>1, <2>2, HelpersKeepPosition
  <2>4. t \in {SetError(Invalidate(u), "DATA"),
              SetError([Invalidate(u) EXCEPT !.it = Null], "INVALID_IT"),
              At(Invalidate(u), u.ind)}
    BY <2>2 DEF GofAt, InitCurGof
  <2>5. ASSUME NEW e \in ERROR_TYPE PROVE SetError(t, e).ind = state.ind
    <3>1. SetError(t, e).ind = t.ind
      BY <2>1, <2>4 DEF SetError, At, Invalidate, Handle
    <3> QED BY <2>3, <3>1
  <2> QED BY <2>3, <2>5 DEF u
<1>4. ASSUME NEW op, NEW t, t.ind = state.ind, NEW raised, ReturnFlag(op, t, raised)
      PROVE  state'.ind = state.ind
  BY <1>4 DEF ReturnFlag, Return
<1>5. \A e : SetError(state, e).ind = state.ind /\ SetError(s, e).ind = state.ind
  BY <1>1, HelpersKeepPosition
<1>6. ASSUME NEW op, NEW e, Fail(op, state, e)
      PROVE  state'.ind = state.ind
  BY <1>5, <1>6 DEF Fail, Return
<1>7. ASSUME NEW op, NEW added \in SUBSET {0, 1}, Receive(op, added)
      PROVE  state'.ind = state.ind
  <2>1. \/ Fail(op, state, "DATA")
        \/ Undefined(op, "no connection")
        \/ \E e \in ERROR_TYPE : ReturnFlag(op, SetError(s, e), e)
        \/ HasData /\ \E n \in {0, 1} :
             /\ state.data + n <= MaxGofs
             /\ \/ ReturnFlag(op, SetError(AddGofs(s, n), "TIMESTAMP"), "TIMESTAMP")
                \/ \E e \in ERROR_TYPE : ReturnFlag(op, SetError(Reposition(AddGofs(s, n)), e), e)
                \/ ReturnFlag(op, Reposition(AddGofs(s, n)), "OK")
    BY <1>7, ErrorTypes DEF Receive, s
  <2>2. ASSUME NEW n \in {0, 1}, HasData, state.data + n <= MaxGofs
        PROVE  \A e : SetError(AddGofs(s, n), e).ind = state.ind
    BY <1>2, <2>2, HelpersKeepPosition
  <2>3. Undefined(op, "no connection") => state' = state
    BY DEF Undefined
  <2> QED BY <1>3, <1>4, <1>5, <1>6, <2>1, <2>2, <2>3
<1> QED BY <1>7 DEF ReceiveGof, ReceiveUnit

(* Appending or receiving data does not move the client's position.         *)
THEOREM KeepsPosition == Spec => PositionKept
<1> DEFINE Appended == call'.op = "append_to_sample_stream"
           Received == call'.op \in {"receive_gof", "receive_unit"} /\ state.it # Null
<1>1. IInv /\ [Next]_vars => [Appended \/ Received => state'.ind = state.ind]_vars
  <2> SUFFICES ASSUME IInv, Next, Appended \/ Received PROVE state'.ind = state.ind
    BY DEF vars
  <2>1. state \in Handle /\ (HasData => state.data \in 0..MaxGofs)
    BY DEF IInv, TypeOK, Handle, HasData
  <2>2. AppendToSampleStream \/ ReceiveGof \/ ReceiveUnit \/ Stopped
    BY OnlyAddersAdd DEF Adds
  <2>3. CASE ReceiveGof \/ ReceiveUnit
    <3>1. call'.op # "append_to_sample_stream"
      BY <2>3, EndsNamed DEF ReceiveGof, ReceiveUnit, Receive
    <3> QED BY <2>1, <2>3, <3>1, ReceiveKeepsPosition
  <2>4. CASE Stopped
    BY <2>4 DEF Stopped, vars
  <2> QED BY <2>1, <2>2, <2>3, <2>4, AppendKeepsPosition
<1> QED BY <1>1, HandleInvariant, PTL DEF Spec, PositionKept
=============================================================================
