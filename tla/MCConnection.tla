---------------------------- MODULE MCConnection ----------------------------
(***************************************************************************)
(* Model values and bounds of the run of Connection. A request has a       *)
(* method, a route and one more word; the words of its headers that spaces  *)
(* follow are like a method that nobody knows.                              *)
(***************************************************************************)
EXTENDS Connection

CONSTANT k1

MCRequests == {<<"GET", "/update", "tail">>, <<"POST", "/dc", "tail">>,
               <<"PUT", "/", "tail">>, <<"GET", "/", "Purpose: prefetch">>}
MCTails    == {"tail", "Purpose: prefetch"}
\* Nothing, what is left of an earlier request, or of a prefetch.
MCRemains  == {<<>>, <<"GET", "/update", "tail">>, <<"Purpose: prefetch">>}
MCMissing  == {"/errors/not_found.html"}
=============================================================================
