------------------------------ MODULE V3CState ------------------------------
(***************************************************************************)
(* The handle V3C_State<T> of the public API: the life of its data, of the *)
(* heap-allocated "current GoF" iterator and of its error flag, over every *)
(* sequence of calls.  Exceptions of the layers below are outcomes of a    *)
(* call; what the data contain is in SenderStream and UnitReceiver.        *)
(*                                                                         *)
(* stream_ is a std::vector: adding a GoF leaves earlier iterators stale.  *)
(* After undefined behaviour nothing is claimed and no call is modelled.   *)
(***************************************************************************)
EXTENDS Naturals

CONSTANTS
  Roles,        \* T: "sender", "receiver" or both in turn
  Connections,  \* possible outcomes of init_connection
  Risks,        \* calls with undefined behaviour that the client still makes
  NoData,       \* data_ is null
  Null,         \* cur_gof_it_ is null
  MaxGofs       \* bound: GoFs in the stream

RiskNames == {"next_gof at the end", "append to an empty stream", "no connection"}

ASSUME StateAssumption ==
  /\ Roles \subseteq {"sender", "receiver"}
  /\ Connections \subseteq BOOLEAN /\ Connections # {}
  /\ Risks \subseteq RiskNames
  /\ MaxGofs \in Nat
  /\ NoData \notin Nat
  /\ Null \notin [at : Nat, stale : BOOLEAN]

ERROR_TYPE == {"OK", "GENERAL", "CONNECTION", "TIMEOUT", "TIMESTAMP", "DATA", "EOS",
               "INVALID_IT", "PARSE"}

VARIABLES
  state,      \* [role, connected, data, it, valid, ind, error]; data counts the GoFs
  call,       \* the last call: [op, ret, raised], raised the error it set itself
  undefined   \* a call had undefined behaviour

vars == <<state, call, undefined>>

NewHandle(r, c) == [role |-> r, connected |-> c, data |-> NoData, it |-> Null, valid |-> FALSE,
                    ind |-> 0, error |-> IF c THEN "OK" ELSE "CONNECTION"]

Init ==
  /\ state \in {NewHandle(r, c) : r \in Roles, c \in Connections}
  /\ call = [op |-> "V3C_State", ret |-> state.error, raised |-> state.error]
  /\ undefined = FALSE

-----------------------------------------------------------------------------
(* Outcomes of a call *)

SetError(s, e) == [s EXCEPT !.error = e]

Return(op, s, ret, raised) ==
  /\ ~ undefined
  /\ state' = s /\ call' = [op |-> op, ret |-> ret, raised |-> raised]
  /\ UNCHANGED undefined

(* An error raised earlier in the call, or else its result *)
RaisedOr(raised, ret) == IF raised # "OK" THEN raised ELSE ret

Fail(op, s, e) == Return(op, SetError(s, e), e, e)

(* V3C_STATE_CATCH(true) returns error_, whoever set it *)
ReturnFlag(op, s, raised) == Return(op, s, s.error, raised)

Undefined(op, risk) ==
  /\ ~ undefined /\ risk \in Risks
  /\ undefined' = TRUE /\ call' = [op |-> op, ret |-> "OK", raised |-> "OK"]
  /\ UNCHANGED state

HasData == state.data # NoData

(* validate_cur_gof, with data present *)
CurGofError(s, checkEos) ==
  IF s.it = Null \/ ~ s.valid THEN "INVALID_IT"
  ELSE IF checkEos /\ s.it.at = s.data THEN "EOS" ELSE "OK"

(* A call that reads through an iterator no longer into the vector *)
Dangling(s) == s.it.stale \/ s.it.at > s.data

-----------------------------------------------------------------------------
(* The iterator *)

Invalidate(s) == [s EXCEPT !.valid = FALSE]

AtClearsError(s, i) ==   \* mutant: a successful repositioning clears the error flag
  [s EXCEPT !.it = [at |-> i, stale |-> FALSE], !.valid = TRUE, !.ind = i, !.error = "OK"]

At(s, i) == [s EXCEPT !.it = [at |-> i, stale |-> FALSE], !.valid = TRUE, !.ind = i]

(* init_cur_gof: the result as [s, ret] *)
InitCurGof(s, to, reverse) ==
  IF s.data = NoData \/ (s.it # Null /\ s.valid)
    THEN [s |-> SetError(s, "DATA"), ret |-> "DATA"]
  ELSE IF to >= s.data
    THEN [s |-> SetError([s EXCEPT !.it = Null], "INVALID_IT"), ret |-> "INVALID_IT"]
  ELSE [s |-> At(s, IF reverse THEN s.data - to - 1 ELSE to), ret |-> "OK"]

(* gof_at on a state that has data *)
GofAt(s, i) == InitCurGof(Invalidate(s), i, FALSE)

(* emplace_back *)
AddGofs(s, n) ==
  [s EXCEPT !.data = @ + n,
            !.it = IF n > 0 /\ s.it # Null THEN [s.it EXCEPT !.stale = TRUE] ELSE @]

-----------------------------------------------------------------------------
(* Data *)

InitSampleStream ==
  IF HasData THEN Fail("init_sample_stream", state, "DATA")
  ELSE Return("init_sample_stream", [state EXCEPT !.data = 0], "OK", "OK")

(* From a bitstream of n GoFs, or with a parse error; a sender then asks   *)
(* its connection for the initial timestamp.                               *)
InitBitstream ==
  LET op == "init_sample_stream(bitstream)"
      Done(s, raised) == LET r == InitCurGof(s, 0, FALSE) IN Return(op, r.s, r.ret, RaisedOr(raised, r.ret))
  IN IF HasData THEN Fail(op, state, "DATA")
     ELSE \/ Done(SetError(state, "PARSE"), "PARSE")
          \/ IF state.role = "sender" /\ ~ state.connected THEN Undefined(op, "no connection")
             ELSE \E n \in 0..MaxGofs : Done([state EXCEPT !.data = n], "OK")

AppendSwallows(s, raised) ==   \* mutant: the exception is caught and not recorded
  LET r == GofAt(SetError(s, state.error), s.ind)
  IN Return("append_to_sample_stream", r.s, r.ret, RaisedOr(raised, r.ret))

AppendRewinds(s, raised) ==   \* mutant: back to the first GoF
  LET r == GofAt(s, 0) IN Return("append_to_sample_stream", r.s, r.ret, RaisedOr(raised, r.ret))

AppendResult(s, raised) ==
  LET r == GofAt(s, s.ind) IN Return("append_to_sample_stream", r.s, r.ret, RaisedOr(raised, r.ret))

(* With sample stream headers: whole bitstreams.  Without: one unit, which *)
(* joins a GoF or makes a new one.  back() of an empty vector is read when *)
(* a bitstream is appended to it; the value is not used then.              *)
AppendToSampleStream ==
  LET op == "append_to_sample_stream"
      s == Invalidate(state)
      unconnected == state.role = "sender" /\ ~ state.connected /\ state.data = 0
  IN IF ~ HasData THEN Fail(op, state, "DATA")
     ELSE \/ AppendResult(SetError(s, "PARSE"), "PARSE")
          \/ \E n \in 0..MaxGofs, headers \in BOOLEAN :
               LET emptyBack == headers /\ n > 0 /\ state.data = 0
               IN /\ state.data + n <= MaxGofs
                  /\ ~ headers => n \in {0, 1} /\ (n = 0 => state.data > 0)
                  /\ \/ emptyBack /\ Undefined(op, "append to an empty stream")
                     \/ unconnected /\ Undefined(op, "no connection")
                     \/ /\ emptyBack => "append to an empty stream" \in Risks
                        /\ ~ unconnected
                        /\ AppendResult(AddGofs(s, n), "OK")

ClearSampleStream ==
  Return("clear_sample_stream",
         [state EXCEPT !.data = NoData, !.it = Null, !.valid = FALSE, !.ind = 0], "OK", "OK")

-----------------------------------------------------------------------------
(* Navigation *)

Navigate(op, r) == Return(op, r.s, r.ret, r.ret)

FirstGof == IF ~ HasData THEN Fail("first_gof", state, "DATA")
            ELSE Navigate("first_gof", GofAt(state, 0))

LastGof == IF ~ HasData THEN Fail("last_gof", state, "DATA")
           ELSE Navigate("last_gof", InitCurGof(Invalidate(state), 0, TRUE))

GofAtCall(i) == IF ~ HasData THEN Fail("gof_at", state, "DATA")
                ELSE Navigate("gof_at", GofAt(state, i))

MoveToNoEos(op, i) ==   \* mutant: reaching end() is not noticed
  Return(op, [state EXCEPT !.it.at = i, !.ind = i], "OK", "OK")

(* The moved iterator, then the test for end() *)
MoveTo(op, i) ==
  LET s == [state EXCEPT !.it.at = i, !.ind = i]
  IN IF i = state.data THEN Fail(op, s, "EOS") ELSE Return(op, s, "OK", "OK")

(* ++ on end() and any use of a stale iterator are undefined *)
NextGof ==
  LET op == "next_gof"
  IN IF ~ HasData THEN Fail(op, state, "DATA")
     ELSE IF CurGofError(state, FALSE) # "OK" THEN Fail(op, state, "INVALID_IT")
     ELSE IF Dangling(state) \/ state.it.at = state.data THEN Undefined(op, "next_gof at the end")
     ELSE MoveTo(op, state.it.at + 1)

StepBackUnchecked(i) == i - 1   \* mutant: begin() is not checked

StepBack(i) == IF i = 0 THEN 0 ELSE i - 1

PrevGof ==
  LET op == "prev_gof"
  IN IF ~ HasData THEN Fail(op, state, "DATA")
     ELSE IF CurGofError(state, FALSE) # "OK" THEN Fail(op, state, "INVALID_IT")
     ELSE MoveTo(op, StepBack(state.it.at))

-----------------------------------------------------------------------------
(* Const accessors: get_bitstream (whole stream), get_bitstream_cur_gof,   *)
(* _cur_gof_unit, cur_gof_has_unit, cur_gof_is_full and cur_gof_ind.  They *)
(* return a value and may only set the error flag.                         *)

ReadStream ==
  IF ~ HasData THEN Fail("get_bitstream", state, "DATA")
  ELSE \/ Return("get_bitstream", state, "OK", "OK")
       \/ Fail("get_bitstream", state, "GENERAL")

ReadCurGof ==
  LET e == CurGofError(state, TRUE)
  IN IF ~ HasData THEN Fail("cur_gof", state, "DATA")
     ELSE IF e # "OK" THEN Fail("cur_gof", state, e)
     ELSE \/ Return("cur_gof", state, "OK", "OK")
          \/ Fail("cur_gof", state, "GENERAL")

CurGofInd ==
  LET e == CurGofError(state, FALSE)
  IN IF ~ HasData THEN Fail("cur_gof_ind", state, "DATA")
     ELSE IF e # "OK" THEN Fail("cur_gof_ind", state, e)
     ELSE Return("cur_gof_ind", state, "OK", "OK")

-----------------------------------------------------------------------------
(* Out-of-band information, written or printed from the data, or parsed,   *)
(* which needs none.  An unknown format is a ParseException.               *)

GetBitstreamInfo ==
  LET op == "get_bitstream_info_string"
  IN IF ~ HasData THEN Fail(op, state, "DATA")
     ELSE \/ Return(op, state, "OK", "OK")
          \/ \E e \in {"PARSE", "GENERAL"} : Fail(op, state, e)

GetCurGofInfo ==
  LET op == "get_cur_gof_unit_info_string"
      e == CurGofError(state, TRUE)
  IN IF ~ HasData THEN Fail(op, state, "DATA")
     ELSE IF e # "OK" THEN Fail(op, state, e)
     ELSE \/ Return(op, state, "OK", "OK")
          \/ \E f \in {"PARSE", "GENERAL"} : Fail(op, state, f)

(* Parsing a stream's info returns the flag, parsing headers returns OK    *)
ParseInfo ==
  \/ ReturnFlag("parse_bitstream_info_string", state, "OK")
  \/ Return("parse_unit_info_string", state, "OK", "OK")
  \/ \E e \in {"PARSE", "GENERAL"} : Fail("parse_unit_info_string", state, e)

PrintState ==
  LET op == "print_state"
      e == CurGofError(state, FALSE)
  IN IF ~ HasData THEN Fail(op, state, "DATA")
     ELSE IF e # "OK" THEN Fail(op, state, e)
     ELSE ReturnFlag(op, state, "OK")

InfoCall == GetBitstreamInfo \/ GetCurGofInfo \/ ParseInfo \/ PrintState

ResetErrorFlag == Return("reset_error_flag", SetError(state, "OK"), "OK", "OK")

-----------------------------------------------------------------------------
(* Sending: a stream without a media stream for the type, a failing RTP    *)
(* push or a missing unit raise; otherwise the flag is returned as it is.  *)
Send(op) ==
  IF ~ state.connected THEN Undefined(op, "no connection")
  ELSE \/ ReturnFlag(op, state, "OK")
       \/ \E e \in {"CONNECTION", "GENERAL"} : ReturnFlag(op, SetError(state, e), e)

SendBitstream ==
  /\ state.role = "sender"
  /\ IF ~ HasData THEN Fail("send_bitstream", state, "DATA") ELSE Send("send_bitstream")

SendCurGof ==   \* send_gof, send_unit
  LET e == CurGofError(state, TRUE)
  IN /\ state.role = "sender"
     /\ IF ~ HasData THEN Fail("send_gof", state, "DATA")
        ELSE IF e # "OK" THEN Fail("send_gof", state, e)
        ELSE Send("send_gof")

-----------------------------------------------------------------------------
(* Receiving.  Fewer GoFs than expected arrive when a call below times out *)
(* and V3C_Receiver::receive_bitstream swallows the exception.             *)

ReceiveBitstream ==
  LET op == "receive_bitstream"
      expected == MaxGofs
  IN /\ state.role = "receiver"
     /\ IF HasData THEN Fail(op, state, "DATA")
        ELSE IF ~ state.connected THEN Undefined(op, "no connection")
        ELSE \/ \E e \in {"CONNECTION", "TIMESTAMP", "GENERAL"} : ReturnFlag(op, SetError(state, e), e)
             \/ \E n \in 0..expected :
                  LET s == InitCurGof([state EXCEPT !.data = n], 0, FALSE).s
                  IN \/ ReturnFlag(op, s, IF n < expected THEN "TIMEOUT" ELSE "OK")
                     \/ ReturnFlag(op, SetError(s, "TIMESTAMP"), "TIMESTAMP")

RepositionOld(s) ==   \* mutant: the old iterator is declared valid again
  IF s.it = Null THEN InitCurGof(s, 0, FALSE).s ELSE [s EXCEPT !.valid = TRUE]

(* After the push: an iterator is made, or the previous one renewed *)
Reposition(s) == IF s.it = Null THEN InitCurGof(s, 0, FALSE).s ELSE GofAt(s, s.ind).s

(* receive_gof and receive_unit; a unit may join a GoF that exists.  The   *)
(* exceptions before the push leave the data alone, push_back(Gof&&) adds  *)
(* the GoF before it throws, and after the repositioning leftover data in  *)
(* the receive buffer or a gap in the timestamps raise TIMESTAMP.          *)
Receive(op, added) ==
  LET s == Invalidate(state)
  IN /\ state.role = "receiver"
     /\ IF ~ HasData THEN Fail(op, state, "DATA")
        ELSE IF ~ state.connected THEN Undefined(op, "no connection")
        ELSE \/ \E e \in {"TIMEOUT", "TIMESTAMP", "CONNECTION", "GENERAL"} :
                  ReturnFlag(op, SetError(s, e), e)
             \/ \E n \in added :
                  LET pushed == AddGofs(s, n)
                      placed == Reposition(pushed)
                  IN /\ state.data + n <= MaxGofs /\ (n = 0 => state.data > 0)
                     /\ \/ ReturnFlag(op, SetError(pushed, "TIMESTAMP"), "TIMESTAMP")
                        \/ \E e \in {"TIMESTAMP", "GENERAL"} : ReturnFlag(op, SetError(placed, e), e)
                        \/ ReturnFlag(op, placed, "OK")

ReceiveGof == Receive("receive_gof", {1})
ReceiveUnit == Receive("receive_unit", {0, 1})

InstallReceiveHook ==
  /\ state.role = "receiver"
  /\ IF ~ state.connected THEN Fail("install_receive_hook", state, "CONNECTION")
     ELSE \/ ReturnFlag("install_receive_hook", state, "OK")
          \/ ReturnFlag("install_receive_hook", SetError(state, "CONNECTION"), "CONNECTION")

Stopped == undefined /\ UNCHANGED vars

Next ==
  \/ InitSampleStream \/ InitBitstream \/ AppendToSampleStream \/ ClearSampleStream
  \/ FirstGof \/ LastGof \/ \E i \in 0..MaxGofs : GofAtCall(i)
  \/ NextGof \/ PrevGof
  \/ ReadStream \/ ReadCurGof \/ CurGofInd \/ InfoCall \/ ResetErrorFlag
  \/ SendBitstream \/ SendCurGof
  \/ ReceiveBitstream \/ ReceiveGof \/ ReceiveUnit \/ InstallReceiveHook
  \/ Stopped

Spec == Init /\ [][Next]_vars

-----------------------------------------------------------------------------
(* Properties *)

Handle == [role : Roles, connected : BOOLEAN, data : {NoData} \cup 0..MaxGofs,
           it : {Null} \cup [at : 0..MaxGofs, stale : BOOLEAN],
           valid : BOOLEAN, ind : 0..MaxGofs, error : ERROR_TYPE]

(* Types of the handle's fields and of the last call's results.            *)
TypeOK ==
  /\ state \in Handle
  /\ call.ret \in ERROR_TYPE /\ call.raised \in ERROR_TYPE
  /\ undefined \in BOOLEAN

Sound(s) ==
  /\ s.data = NoData => s.it = Null /\ ~ s.valid /\ s.ind = 0
  /\ s.data # NoData => s.ind <= s.data
  /\ s.valid => s.it = [at |-> s.ind, stale |-> FALSE]

(* Whatever was appended, received, cleared or failed before, an iterator  *)
(* marked valid points into the present vector, at cur_gof_ind_, at most   *)
(* at its end: no accessor, send or move reads through a dangling one.     *)
ItSound == Sound(state)

(* There is a current GoF, and an accessor or a send would read it.        *)
Readable(s) == s.data # NoData /\ CurGofError(s, TRUE) = "OK"

Moves == {"first_gof", "last_gof", "gof_at", "next_gof", "prev_gof",
          "append_to_sample_stream", "init_sample_stream(bitstream)"}

(* A call that moves or renews the iterator and returns OK leaves a GoF    *)
(* that the next accessor or send can read.                                *)
NavigationHonest ==
  ~ undefined /\ call.ret = "OK" /\ call.op \in Moves => Readable(state)

(* The error flag keeps a failure until the client resets it: no later     *)
(* call, successful or not, turns it back to OK.                           *)
FlagSticky == [][state.error # "OK" /\ state'.error = "OK" => call'.op = "reset_error_flag"]_vars

(* A call in which something failed leaves the flag set, whatever it       *)
(* returns and whatever it did after the failure (but see TimeoutFlagged).  *)
Shortened == call.op = "receive_bitstream" /\ call.raised = "TIMEOUT"
ErrorsFlagged == call.raised # "OK" /\ ~ Shortened => state.error # "OK"

(* Adding data does not move the client's position, though the iterator    *)
(* has to be made anew; a receiver that has lost its iterator excepted.    *)
PositionKept ==
  [][(call'.op = "append_to_sample_stream"
      \/ (call'.op \in {"receive_gof", "receive_unit"} /\ state.it # Null))
       => state'.ind = state.ind]_vars

-----------------------------------------------------------------------------
(* What the documentation says and the code does not do *)

(* v3c_api.h, throughout: "@return ERROR_TYPE::OK on success, error code   *)
(* otherwise".  A call returns OK only if nothing in it failed.            *)
ReturnsDocumented == call.ret = "OK" => call.raised = "OK"

(* v3c_api.h: next_gof sets EOS if the end of the stream is reached.       *)
NextGofDefined == ~ (undefined /\ call.op = "next_gof")

(* v3c_api.h: receive_bitstream sets the timeout error if the expected     *)
(* number of GoFs is not received.                                          *)
TimeoutFlagged == Shortened => state.error # "OK"
=============================================================================
