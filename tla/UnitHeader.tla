----------------------------- MODULE UnitHeader -----------------------------
(***************************************************************************)
(* The four-byte header of a V3C unit (V3C_Unit_Header) and the two-byte   *)
(* header of a NALU, packed and unpacked field by field.  Masks and shifts *)
(* are divisions and remainders by powers of two; bytes have eight bits.   *)
(***************************************************************************)
EXTENDS Integers, Sequences

V3C_VPS == 0
V3C_AD == 1
V3C_OVD == 2
V3C_GVD == 3
V3C_AVD == 4
V3C_PVD == 5
V3C_CAD == 6
UnitTypes == V3C_VPS..V3C_CAD

(* The n bits of x from bit i up; the carry into bit i and up *)
Bits(x, i, n) == (x \div 2^i) % 2^n
Shift(x, i) == (x * 2^i) % 256

(* vuh_unit_type is the enumeration's value; others throw *)
vuh_to_type(vuh) == IF vuh \in UnitTypes THEN vuh ELSE -1
type_to_vuh(type) == IF type \in UnitTypes THEN type ELSE -1

-----------------------------------------------------------------------------
(* V3C_Unit_Header: fields a type does not use are 0 *)
NewHeader(type) ==
  [type |-> type, v3c_parameter_set_id |-> 0, atlas_id |-> 0, attribute_index |-> 0,
   attribute_partition_index |-> 0, map_index |-> 0, auxiliary_video_flag |-> 0]

HasAtlasId(type) == type \in {V3C_AD, V3C_OVD, V3C_GVD, V3C_AVD, V3C_PVD}

ParseCommon(b, type) ==
  [NewHeader(type) EXCEPT
     !.v3c_parameter_set_id = IF type = V3C_VPS THEN 0 ELSE Bits(b[1], 0, 3) * 2 + Bits(b[2], 7, 1),
     !.atlas_id = IF HasAtlasId(type) THEN Bits(b[2], 1, 6) ELSE 0]

ParseGVD(b, h) ==
  [h EXCEPT !.map_index = Bits(b[2], 0, 1) * 8 + Bits(b[3], 5, 3),
            !.auxiliary_video_flag = Bits(b[3], 4, 1)]

(* The partition index is put together without shifting its upper two bits: *)
(* (x & 0b11) | (y >> 5)                                                     *)
OrLow(x, y) == y + (IF x % 2 = 1 /\ y % 2 = 0 THEN 1 ELSE 0)
                 + (IF x >= 2 /\ Bits(y, 1, 1) = 0 THEN 2 ELSE 0)
ParseAVD(b, h) ==
  [h EXCEPT !.attribute_index = Bits(b[2], 0, 1) * 64 + Bits(b[3], 2, 6),
            !.attribute_partition_index = OrLow(Bits(b[3], 0, 2), Bits(b[4], 5, 3)),
            !.map_index = Bits(b[4], 1, 4),
            !.auxiliary_video_flag = Bits(b[4], 0, 1)]

parse_header(b) ==
  LET type == vuh_to_type(Bits(b[1], 3, 5))
  IN CASE type = V3C_GVD -> ParseGVD(b, ParseCommon(b, type))
       [] type = V3C_AVD -> ParseAVD(b, ParseCommon(b, type))
       [] OTHER -> ParseCommon(b, type)

(* The two bytes every type but VPS begins with *)
WriteCommon(h) ==
  <<Shift(type_to_vuh(h.type), 3) + Bits(h.v3c_parameter_set_id, 1, 3),
    Shift(h.v3c_parameter_set_id % 2, 7) + IF h.type # V3C_CAD THEN Bits(h.atlas_id, 0, 6) * 2 ELSE 0>>

WriteGVDShort(h, c) ==   \* mutant: the upper bit of the map index is not written
  <<c[1], c[2], Shift(Bits(h.map_index, 0, 3), 5) + Shift(h.auxiliary_video_flag, 4), 0>>

WriteGVD(h, c) ==
  <<c[1], c[2] + Bits(h.map_index, 3, 1),
    Shift(Bits(h.map_index, 0, 3), 5) + Shift(h.auxiliary_video_flag, 4), 0>>

(* (vuh_attribute_index & 0b1000000) >> 7 is 0: the upper bit is lost.      *)
(* vuh_map_index is not masked; the model takes it within its four bits.    *)
WriteAVD(h, c) ==
  <<c[1], c[2],
    Shift(Bits(h.attribute_index, 0, 6), 2) + Bits(h.attribute_partition_index, 3, 2),
    Shift(Bits(h.attribute_partition_index, 0, 3), 5) + Shift(h.map_index, 1)
      + h.auxiliary_video_flag>>

write_header(h) ==
  CASE h.type = V3C_VPS -> <<Shift(type_to_vuh(V3C_VPS), 3), 0, 0, 0>>
    [] h.type = V3C_GVD -> WriteGVD(h, WriteCommon(h))
    [] h.type = V3C_AVD -> WriteAVD(h, WriteCommon(h))
    [] OTHER -> WriteCommon(h) \o <<0, 0>>

-----------------------------------------------------------------------------
(* The header of a NALU.  Parsing takes the upper bit of the layer id from  *)
(* bit 7 of the first byte, writing puts it into bit 0.                     *)
parse_nal_header(b) ==
  [nal_unit_type |-> Bits(b[1], 1, 6),
   nal_layer_id |-> Bits(b[1], 7, 1) * 32 + Bits(b[2], 3, 5),
   nal_temporal_id |-> Bits(b[2], 0, 3)]

write_nal_header(n) ==
  <<Shift(Bits(n.nal_unit_type, 0, 6), 1) + Bits(n.nal_layer_id, 5, 1),
    Shift(Bits(n.nal_layer_id, 0, 5), 3) + Bits(n.nal_temporal_id, 0, 3)>>
=============================================================================
