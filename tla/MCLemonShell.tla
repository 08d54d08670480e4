--------------------------- MODULE MCLemonShell ---------------------------
(***************************************************************************)
(* LemonShell for TLC.                                                       *)
(***************************************************************************)
EXTENDS LemonShell
=============================================================================
