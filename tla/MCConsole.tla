----------------------------- MODULE MCConsole -----------------------------
(***************************************************************************)
(* Model-checking instance of Console: words of two characters and buffers  *)
(* that take one or two more.                                               *)
(***************************************************************************)
EXTENDS Console

MCPin   == <<"1", "1">>
MCShell == <<"s", "1">>
MCLeave == <<"1", "s">>
=============================================================================
