--------------------------- MODULE MCSenderStream ---------------------------
(***************************************************************************)
(* Instances of SenderStream for TLC: unit types 1 (AD) and 2 (OVD), and   *)
(* a clock of 14 instants that wraps.                                      *)
(***************************************************************************)
EXTENDS SenderStream

(* bitstreams of whole GoFs, grouped or interleaved *)
WholeChunks == {<<1, 2>>, <<1, 1, 2, 2>>, <<1, 2, 1, 2>>, <<2, 1>>}
=============================================================================
