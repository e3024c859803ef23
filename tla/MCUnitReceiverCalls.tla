------------------------ MODULE MCUnitReceiverCalls -------------------------
(* The instances of MCUnitReceiver with the history that maps a call of     *)
(* UnitReceiver to one step of UnitCalls.                                   *)
EXTENDS UnitReceiverCalls, MCUnitReceiver
=============================================================================
