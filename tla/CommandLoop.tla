---------------------------- MODULE CommandLoop ----------------------------
(***************************************************************************)
(* What a command loop promises: one command at a time, at most one program  *)
(* started for it, no prompt before that program is gone, and an end that    *)
(* only a command brings about.                                              *)
(***************************************************************************)
VARIABLES
  phase,   \* "ready" for a line, "busy" with one, "waiting" for a program
  program  \* a program the loop started exists

loopVars == <<phase, program>>

Init == phase = "ready" /\ program = FALSE

Accept == phase = "ready" /\ phase' = "busy" /\ UNCHANGED program

Start == phase = "busy" /\ phase' = "waiting" /\ program' = TRUE

Vanish == phase = "waiting" /\ program' = FALSE /\ UNCHANGED phase

Return == phase \in {"busy", "waiting"} /\ phase' = "ready" /\ program' = FALSE

End == phase = "busy" /\ phase' = "ended" /\ UNCHANGED program

Fail == phase \in {"ready", "busy"} /\ phase' = "failed" /\ UNCHANGED program

Next == Accept \/ Start \/ Vanish \/ Return \/ End \/ Fail

Spec == Init /\ [][Next]_loopVars
=============================================================================
