-------------------------- MODULE BitstreamFormat ---------------------------
(***************************************************************************)
(* A V3C sample stream as bytes: what V3C_Unit and Sample_Stream write and *)
(* what V3C::parse_bitstream makes of it.  Units have a header and the     *)
(* precision of their NALU sizes besides the fields of SampleStream; a     *)
(* NALU has bytes, of which the first two are its header.                  *)
(*                                                                         *)
(* Headers have bytes of eight bits; the digits of size fields and the     *)
(* bytes of payloads are below Base, so that sizes are small.              *)
(***************************************************************************)
EXTENDS SampleStream, ByteCodec, UnitHeader

CONSTANTS
  Infer,                             \* size precision (uint8_t)-1
  DEFAULT_VIDEO_NAL_SIZE_PRECISION

V3C_HDR_LEN == 4

SumOf(f(_), S) == FoldSet(LAMBDA x, sum : f(x) + sum, 0, S)

-----------------------------------------------------------------------------
(* Sample_Stream<NAL>, the payload of a unit *)
NaluSize(n) == Len(n.bytes)

NalPrecision(u) ==
  IF u.precision # Infer THEN u.precision
  ELSE calc_min_size_precision(Max({0} \cup {NaluSize(u.nalus[i]) : i \in DOMAIN u.nalus}))

HeaderSize(type) == IF type \in {V3C_AD, V3C_CAD} THEN 1 ELSE 0

UnitBytes(u) ==
  V3C_HDR_LEN + HeaderSize(u.header.type)
    + SumOf(LAMBDA i : NalPrecision(u) + NaluSize(u.nalus[i]), DOMAIN u.nalus)

(* V3C_Unit::write_bitstream, the sample stream of NALUs included *)
WriteNalu(u, i) ==
  write_sample_stream_size(NaluSize(u.nalus[i]), NalPrecision(u)) \o u.nalus[i].bytes
WriteUnit(u) ==
  write_header(u.header)
    \o (IF HeaderSize(u.header.type) = 1 THEN <<write_size_precision(NalPrecision(u))>> ELSE <<>>)
    \o FlattenSeq([i \in DOMAIN u.nalus |-> WriteNalu(u, i)])

-----------------------------------------------------------------------------
(* Sample_Stream<V3C>.  The size map of a GoF was made when the unit had    *)
(* sizes[t] NALUs; its sizes are those of the unit then.                    *)
Recorded(g, t) == UnitBytes([g.units[t] EXCEPT !.nalus = SubSeq(@, 1, g.sizes[t])])
RecordedSum(g) == SumOf(LAMBDA t : Recorded(g, t), DOMAIN g.sizes)
GofBytes(g) == SumOf(LAMBDA t : UnitBytes(g.units[t]), DOMAIN g.units)

V3CPrecision(s, precision) ==
  IF precision # Infer THEN precision
  ELSE calc_min_size_precision(Max({0} \cup {RecordedSum(s[k]) : k \in DOMAIN s}))

(* size(gof_it, type), size(gof_it) and size() *)
SizeOfUnit(g, t, p) == p + Recorded(g, t)
SizeOfGof(g, p) == SumOf(LAMBDA t : SizeOfUnit(g, t, p), DOMAIN g.sizes)
SizeOfStream(s, p) == 1 + SumOf(LAMBDA k : SizeOfGof(s[k], p), DOMAIN s)

WriteSizedUnit(g, t, p) == write_sample_stream_size(Recorded(g, t), p) \o WriteUnit(g.units[t])
WriteGof(g, p) == FlattenSeq([i \in 1..Cardinality(DOMAIN g.units) |->
                    WriteSizedUnit(g, SetToSortSeq(DOMAIN g.units, <)[i], p)])
WriteGofs(s, p) == FlattenSeq([k \in DOMAIN s |-> WriteGof(s[k], p)])

Unchecked(bytes, size) == bytes   \* mutant: no assertion

(* The assertion that as much was written as was allocated: the bytes of a  *)
(* unit, a GoF or, with its header, a stream, or an exception               *)
Checked(bytes, size) == IF Len(bytes) = size THEN bytes ELSE Thrown

get_bitstream_unit(g, t, p) == Checked(WriteSizedUnit(g, t, p), SizeOfUnit(g, t, p))
get_bitstream_gof(g, p) == Checked(WriteGof(g, p), SizeOfGof(g, p))

(* Before it is written, a GoF of the stream is compared with what is left  *)
Overruns(s, p) ==
  \E k \in DOMAIN s :
    1 + Len(WriteGofs(SubSeq(s, 1, k - 1), p)) + GofBytes(s[k]) > SizeOfStream(s, p)
get_bitstream(s, p) ==
  IF Overruns(s, p) THEN Thrown
  ELSE Checked(<<write_size_precision(p)>> \o WriteGofs(s, p), SizeOfStream(s, p))

-----------------------------------------------------------------------------
(* Parsing.  The input is as long as its size fields say.                   *)
From(bytes, i) == SubSeq(bytes, i, Len(bytes))

(* NALUs with sizes of p bytes up to the end *)
ParseNalus(bytes, p) ==
  LET RECURSIVE At(_)
      At(i) == IF i > Len(bytes) THEN <<>>
               ELSE LET size == parse_sample_stream_size(From(bytes, i), p)
                    IN <<[ts |-> Unset, bytes |-> SubSeq(bytes, i + p, i + p + size - 1)]>>
                         \o At(i + p + size)
  IN At(1)

(* V3C_Unit::parse_precision *)
ParsePrecision(type, bytes) ==
  CASE type = V3C_VPS -> 0
    [] type \in {V3C_AD, V3C_CAD} -> parse_size_precision(bytes[1])
    [] OTHER -> DEFAULT_VIDEO_NAL_SIZE_PRECISION

(* What follows the header; a VPS keeps it as one NALU without header *)
ParseUnit(bytes) ==
  LET h == parse_header(bytes)
      payload == From(bytes, V3C_HDR_LEN + 1)
      p == ParsePrecision(h.type, payload)
  IN [header |-> h, precision |-> p, ts |-> Unset,
      nalus |-> IF h.type = V3C_VPS THEN <<[ts |-> Unset, bytes |-> payload]>>
                ELSE ParseNalus(From(payload, 1 + HeaderSize(h.type)), p)]

(* V3C::parse_bitstream *)
parse_bitstream(bytes) ==
  LET p == parse_size_precision(bytes[1])
      RECURSIVE At(_, _)
      At(i, s) == IF i > Len(bytes) THEN s
                  ELSE LET size == parse_sample_stream_size(From(bytes, i), p)
                           unit == ParseUnit(SubSeq(bytes, i + p, i + p + size - 1))
                       IN At(i + p + size, PushUnit(s, unit.header.type, unit).stream)
  IN At(2, <<>>)
=============================================================================
