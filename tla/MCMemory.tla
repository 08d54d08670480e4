------------------------------ MODULE MCMemory ------------------------------
(***************************************************************************)
(* Model-checking instance of Memory: the real header and alignment, and a   *)
(* heap of four to five small blocks.                                        *)
(***************************************************************************)
EXTENDS Memory

MCNull     == -1
MCRequests == {-1, 1, 9, 30}
=============================================================================
