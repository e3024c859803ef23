----------------------------- MODULE Connection -----------------------------
(***************************************************************************)
(* Setting up the media streams of the two ends of a connection (V3C.cpp,  *)
(* V3C_Sender.cpp, V3C_Receiver.cpp): which unit types an end has streams  *)
(* for, in which format, on which port, and whether it tells streams that  *)
(* share a port apart by their SSRC.                                       *)
(***************************************************************************)
EXTENDS Integers, SequencesExt, UnitHeader

CONSTANTS
  AnySSRC    \* an SSRC is not configured: random when sending, unfiltered when receiving

(* INIT_FLAGS: bit t for type t; is_set(flags, flag) *)
FlagOf(type) == 2^type
is_set(flags, flag) == (flags \div flag) % 2 = 1

unit_types_from_init_flag(flags) ==
  SelectSeq(<<V3C_VPS, V3C_AD, V3C_OVD, V3C_GVD, V3C_AVD, V3C_PVD, V3C_CAD>>,
            LAMBDA type : is_set(flags, FlagOf(type)))

(* Each type ORs its flag *)
init_flags_from_unit_types(types) ==
  FoldLeft(LAMBDA flags, type : IF is_set(flags, FlagOf(type)) THEN flags ELSE flags + FlagOf(type),
           0, types)

get_format(type) ==
  CASE type \in {V3C_AD, V3C_CAD} -> "ATLAS"
    [] type \in {V3C_OVD, V3C_GVD, V3C_AVD, V3C_PVD} -> "H265"
    [] OTHER -> "GENERIC"

(* No start code lookup: a video NALU is pushed as one frame *)
get_flags(type) ==
  IF type \in {V3C_OVD, V3C_GVD, V3C_AVD, V3C_PVD} THEN "NO_H26X_SCL" ELSE "NO_FLAGS"

unit_type_to_ssrc(type) == 1 + type

MarkLater(acc, type, port) ==   \* mutant: the port's first type is not marked
  IF port \in DOMAIN acc.first
    THEN [acc EXCEPT !.overlaps = @ \cup {type}]
    ELSE [acc EXCEPT !.first = [p \in DOMAIN @ \cup {port} |-> IF p = port THEN type ELSE @[p]]]

(* A type seen on a port that is in use marks itself and the port's first   *)
(* type.                                                                    *)
MarkOverlap(acc, type, port) ==
  IF port \in DOMAIN acc.first
    THEN [acc EXCEPT !.overlaps = @ \cup {type, acc.first[port]}]
    ELSE [acc EXCEPT !.first = [p \in DOMAIN @ \cup {port} |-> IF p = port THEN type ELSE @[p]]]

check_port_overlap(ports, flags) ==
  FoldLeft(LAMBDA acc, type : MarkOverlap(acc, type, ports[type]),
           [first |-> <<>>, overlaps |-> {}], unit_types_from_init_flag(flags)).overlaps

(* The streams of V3C's constructor with the contexts that V3C_Sender's and *)
(* V3C_Receiver's configure: RCC_SSRC and RCC_REMOTE_SSRC                   *)
Streams(ports, flags) ==
  [type \in ToSet(unit_types_from_init_flag(flags)) |->
     [port |-> ports[type], format |-> get_format(type),
      ssrc |-> IF type \in check_port_overlap(ports, flags) THEN unit_type_to_ssrc(type)
               ELSE AnySSRC]]

(* uvgRTP gives a frame to the streams on its port whose remote SSRC, if    *)
(* any, is that of the frame; no random SSRC is one of unit_type_to_ssrc's. *)
Takes(receiver, sender) ==
  receiver.port = sender.port /\ receiver.ssrc \in {AnySSRC, sender.ssrc}
=============================================================================
