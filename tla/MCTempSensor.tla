----------------------------- MODULE MCTempSensor -----------------------------
(***************************************************************************)
(* The sensor thread as it is: its constants are numbers, given by the     *)
(* configurations.                                                         *)
(***************************************************************************)
EXTENDS TempSensor
=============================================================================
