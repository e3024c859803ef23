--------------------------- MODULE MCUnitReceiver ---------------------------
(***************************************************************************)
(* Instances of UnitReceiver for TLC.  "Auto" stands for (size_t)-1: it is *)
(* larger than the number of frames that ever arrive.                      *)
(***************************************************************************)
EXTENDS UnitReceiver

Auto == 9
AnySizes == {0, 1, 2, Auto}
FixedOrAuto == {3, Auto}
=============================================================================
