------------------------------- MODULE MCIpc -------------------------------
(***************************************************************************)
(* Model values and bounds of the run of Ipc: the members of HttpServer     *)
(* that are System V objects, and a queue as the library's users make one.  *)
(***************************************************************************)
EXTENDS Ipc, TLC

CONSTANTS main, c1, c2

MCThreads == {main, c1, c2}
MCPrograms == {<<"SharedMemory", "Sem">>, <<"MsgQueue">>}
Same      == Permutations({c1, c2})
MCTypes   == {0, 2}
MCReads   == {0, 2, -2}
=============================================================================
