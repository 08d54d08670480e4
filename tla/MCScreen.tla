------------------------------ MODULE MCScreen ------------------------------
(***************************************************************************)
(* Model-checking instance of Screen: a display of two rows and two columns  *)
(* over a log of four.  The mouse asks for a cell outside the display.       *)
(***************************************************************************)
EXTENDS Screen

MCPointers == {<<5, -1>>}
=============================================================================
