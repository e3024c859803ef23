---------------------------- MODULE SampleStream ----------------------------
(***************************************************************************)
(* The containers of the library: NALUs in a V3C_Unit, units in a V3C_Gof, *)
(* GoFs in a Sample_Stream, and the push_back overloads that move data     *)
(* between them and propagate timestamps.  All operators are pure; the     *)
(* modules that hold a stream as state compose them.                       *)
(*                                                                         *)
(*   NALU   [id, ts]                                                       *)
(*   unit   [ts, nalus]                                                    *)
(*   GoF    [ts, units, sizes]  units, sizes : functions on unit types     *)
(*   stream a sequence of GoFs                                             *)
(*                                                                         *)
(* An index the C++ code returns is one less than the index here, and its  *)
(* "not found" (stream_.size()) is Len + 1.  The size of a unit in bytes   *)
(* is abstracted to its number of NALUs.  A GoF under construction has an  *)
(* empty size map: only a stream keeps one.                                *)
(***************************************************************************)
EXTENDS Naturals, Sequences, FiniteSetsExt

CONSTANTS
  Unset,          \* a Timestamp whose timestamp_set_ is false
  Wrap,           \* timestamps are uint32_t: modulo 2^32
  FrameDuration   \* RTP_CLOCK_RATE / DEFAULT_FRAME_RATE

ASSUME ClockAssumption ==
  /\ Wrap \in Nat \ {0} /\ FrameDuration \in Nat \ {0}
  /\ Unset \notin Nat

-----------------------------------------------------------------------------
(* Timestamp: get_timestamp() of an unset one is 0 *)
IsSet(ts) == ts # Unset
TsOf(ts) == IF IsSet(ts) THEN ts ELSE 0

NextInstantNoWrap(ts) == ts + FrameDuration   \* mutant: instants wider than 32 bits

(* V3C::calc_new_timestamp *)
NextInstant(ts) == (ts + FrameDuration) % Wrap

-----------------------------------------------------------------------------
(* V3C_Unit::set_timestamp also stamps the NALUs *)
StampUnit(u, ts) ==
  [u EXCEPT !.ts = ts, !.nalus = [i \in DOMAIN @ |-> [@[i] EXCEPT !.ts = ts]]]

(* V3C_Unit::size *)
UnitSize(u) == Len(u.nalus)

-----------------------------------------------------------------------------
(* V3C_Gof *)
EmptyGof == [ts |-> Unset, units |-> <<>>, sizes |-> <<>>]

StampGofOnly(g, ts) == [g EXCEPT !.ts = ts]   \* mutant: the units are not stamped

StampGof(g, ts) ==
  [g EXCEPT !.ts = ts, !.units = [t \in DOMAIN g.units |-> StampUnit(g.units[t], ts)]]

(* units_.emplace: a unit of a type the GoF already has is discarded *)
Emplace(f, t, x) == [k \in DOMAIN f \cup {t} |-> IF k \in DOMAIN f THEN f[k] ELSE x]
Assign(f, t, x) == [k \in DOMAIN f \cup {t} |-> IF k = t THEN x ELSE f[k]]

(* V3C_Gof::set: TimestampException unless the unit is acceptable *)
GofAccepts(g, u) == IsSet(g.ts) => ~ IsSet(u.ts) \/ u.ts = g.ts
GofSet(g, t, u) ==
  [g EXCEPT !.ts = IF g.units = <<>> /\ ~ IsSet(g.ts) THEN u.ts ELSE g.ts,
            !.units = Emplace(g.units, t,
                        IF IsSet(g.ts) /\ ~ IsSet(u.ts) THEN StampUnit(u, g.ts) ELSE u)]

-----------------------------------------------------------------------------
(* Sample_Stream<V3C>: lookups *)
FrontTs(s) == TsOf(s[1].ts)
BackTs(s) == TsOf(s[Len(s)].ts)

InRangeNoWrap(s, ts) ==   \* mutant: the clock never wraps
  FrontTs(s) <= ts /\ ts <= BackTs(s)

(* The range test takes first > last for a wrapped clock *)
InRange(s, ts) ==
  IF FrontTs(s) <= BackTs(s) THEN FrontTs(s) <= ts /\ ts <= BackTs(s)
                             ELSE ts <= BackTs(s) \/ FrontTs(s) <= ts

FindTimestamp(s, ts) ==
  IF s = <<>> \/ ~ InRange(s, ts) THEN Len(s) + 1
  ELSE IF ts = FrontTs(s) THEN 1
  ELSE LET at == {k \in 2..Len(s) : TsOf(s[k].ts) = ts}
       IN IF at = {} THEN Len(s) + 1 ELSE Max(at)

FindFreeInLast(s, t) ==   \* mutant: only the last GoF is looked at
  IF s = <<>> \/ t \in DOMAIN s[Len(s)].units THEN Len(s) + 1 ELSE Len(s)

FindFreeNext(s, t) ==   \* mutant: one too far
  2 + Max({0} \cup {k \in 1..Len(s) : t \in DOMAIN s[k].units})

FindLastGof(s, t) ==   \* mutant: the last GoF with such a unit, where a second one is discarded
  Max({1} \cup {k \in 1..Len(s) : t \in DOMAIN s[k].units})

(* One past the last GoF that has a unit of the type *)
FindFreeGof(s, t) ==
  1 + Max({0} \cup {k \in 1..Len(s) : t \in DOMAIN s[k].units})

-----------------------------------------------------------------------------
(* Sample_Stream<V3C>::push_back.  The stream changes even when the call    *)
(* throws: "ok" is FALSE for a TimestampException.                          *)

PushGof(s, g) ==
  LET backSet == s # <<>> /\ IsSet(s[Len(s)].ts)
      next == NextInstant(BackTs(s))
      pushed == IF backSet /\ ~ IsSet(g.ts) THEN StampGof(g, next) ELSE g
  IN [stream |-> Append(s, [pushed EXCEPT !.sizes = [t \in DOMAIN g.units |-> UnitSize(g.units[t])]]),
      ok     |-> backSet /\ IsSet(g.ts) => g.ts = next]

PushUnitNoSize(s, t, u) ==   \* mutant: the size map of an existing GoF is left alone
  LET k == IF IsSet(u.ts) THEN FindTimestamp(s, u.ts) ELSE FindFreeGof(s, t)
  IN IF k > Len(s)
       THEN PushGof(s, GofSet(EmptyGof, t, u))
       ELSE [stream |-> [s EXCEPT ![k] = IF GofAccepts(@, u) THEN GofSet(@, t, u) ELSE @],
             ok     |-> GofAccepts(s[k], u)]

(* The size map is written before V3C_Gof::set, which may throw or discard *)
PushUnit(s, t, u) ==
  LET k == IF IsSet(u.ts) THEN FindTimestamp(s, u.ts) ELSE FindFreeGof(s, t)
  IN IF k > Len(s)
       THEN PushGof(s, GofSet(EmptyGof, t, u))
       ELSE LET g == [s[k] EXCEPT !.sizes = Assign(s[k].sizes, t, UnitSize(u))]
            IN [stream |-> [s EXCEPT ![k] = IF GofAccepts(g, u) THEN GofSet(g, t, u) ELSE g],
                ok     |-> GofAccepts(g, u)]

(* V3C_Unit::push_back: the first NALU may give the unit its timestamp *)
UnitAccepts(u, n) == IsSet(u.ts) /\ IsSet(n.ts) => n.ts = u.ts
UnitPush(u, n) ==
  [u EXCEPT !.ts = IF u.nalus = <<>> /\ ~ IsSet(@) THEN n.ts ELSE @,
            !.nalus = Append(@, IF IsSet(u.ts) THEN [n EXCEPT !.ts = u.ts] ELSE n)]

PushNaluAnywhere(s, t, n) ==   \* mutant: the GoF is found by type, not by timestamp
  IF s = <<>> \/ t \notin DOMAIN s[Len(s)].units THEN [stream |-> s, outcome |-> "refused"]
  ELSE [stream |-> [s EXCEPT ![Len(s)].units[t] = UnitPush(@, n)], outcome |-> "pushed"]

(* push_back(Nalu&&, type): "pushed", "refused" when no GoF has the         *)
(* timestamp (the caller keeps the NALU), "thrown" when that GoF has no     *)
(* such unit, "mixed" when its unit has another timestamp than the GoF.     *)
(* The size map does not follow.                                            *)
PushNalu(s, t, n) ==
  LET k == FindTimestamp(s, n.ts)
  IN IF s = <<>> \/ ~ IsSet(n.ts) \/ k > Len(s) THEN [stream |-> s, outcome |-> "refused"]
     ELSE IF t \notin DOMAIN s[k].units THEN [stream |-> s, outcome |-> "thrown"]
     ELSE IF ~ UnitAccepts(s[k].units[t], n) THEN [stream |-> s, outcome |-> "mixed"]
     ELSE [stream |-> [s EXCEPT ![k].units[t] = UnitPush(@, n)], outcome |-> "pushed"]
=============================================================================
