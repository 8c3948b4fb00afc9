------------------------------ MODULE MCTempDriver ------------------------------
(***************************************************************************)
(* The faults of the run of TempDriver.                                    *)
(***************************************************************************)
EXTENDS TempDriver

\* Every step of probe but one may fail: after a class_create that failed the
\* driver follows an error pointer, and remove does so again.
AllFaults == (Step \ {"class"}) \cup {"slow", "unplug"}
=============================================================================
