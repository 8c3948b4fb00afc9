------------------------------ MODULE MCScheduler ------------------------------
(***************************************************************************)
(* Programs for TLC: the idle task goes from its entry 0 into the loop of  *)
(* the other words, a task enters that loop at 1 or 2; one vector          *)
(* instruction counts modulo 2.                                            *)
(***************************************************************************)
EXTENDS Scheduler

MCWord       == 0 .. 3
MCCoreStep   == [w \in MCWord |-> IF w = 3 THEN 1 ELSE w + 1]
MCSkipStep   == MCCoreStep
MCVector     == 0 .. 1
MCVectorStep == [v \in MCVector |-> 1 - v]
=============================================================================
