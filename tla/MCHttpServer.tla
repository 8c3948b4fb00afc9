----------------------------- MODULE MCHttpServer -----------------------------
(***************************************************************************)
(* The contents of config.cfg that the runs meet.                          *)
(***************************************************************************)
EXTENDS HttpServer

\* A number that is refused, a number, and no file.
MCFiles == {-1, 1, NoFile}
=============================================================================
