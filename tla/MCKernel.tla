------------------------------ MODULE MCKernel ------------------------------
(***************************************************************************)
(* Model-checking instance of Kernel: a keyboard with two keys, Enter, a     *)
(* shift and the arrow up, and words of one character.                       *)
(***************************************************************************)
EXTENDS Kernel

MCPin   == <<"1">>
MCShell == <<"s">>

MCkeymap ==
  [k \in 0 .. 127 |-> CASE k = 2 -> "1" [] k = 31 -> "s" [] k = 28 -> ENTER
                        [] OTHER -> NUL]

\* The letter has a shifted form of its own; the digit's is not among the keys.
MCkeymap_shift ==
  [k \in 0 .. 127 |-> CASE k = 31 -> "S" [] k = 28 -> ENTER [] OTHER -> NUL]
=============================================================================
