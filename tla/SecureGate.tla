----------------------------- MODULE SecureGate -----------------------------
(***************************************************************************)
(* What the console promises: one line editor in front of three phases.  The *)
(* PIN opens the gate once and for all, too many wrong ones lock the         *)
(* machine; the shell word opens the shell and the leave word closes it.     *)
(***************************************************************************)
EXTENDS Naturals, Sequences

CONSTANTS
  Keys,        \* characters that go into a line
  Pin,
  ShellWord,
  Leaves(_),   \* whether a line given to the shell closes it
  MaxWrong,    \* wrong PINs that lock the machine
  Room(_)      \* characters a line may have in a phase

VARIABLES
  phase,
  line,        \* what has been typed since the last Enter
  wrong        \* wrong PINs so far

Init == phase = "pin" /\ line = <<>> /\ wrong = 0

Type(c) ==
  /\ phase # "locked"
  /\ Len(line) < Room(phase)
  /\ line' = Append(line, c)
  /\ UNCHANGED <<phase, wrong>>

Undo ==
  /\ phase # "locked"
  /\ line # <<>>
  /\ line' = SubSeq(line, 1, Len(line) - 1)
  /\ UNCHANGED <<phase, wrong>>

Grant ==
  /\ phase = "pin" /\ line = Pin
  /\ phase' = "gate" /\ line' = <<>>
  /\ UNCHANGED wrong

Refuse ==
  /\ phase = "pin" /\ line # Pin
  /\ wrong' = wrong + 1
  /\ phase' = IF wrong' = MaxWrong THEN "locked" ELSE "pin"
  /\ line' = <<>>

Open ==
  /\ phase = "gate" /\ line = ShellWord
  /\ phase' = "shell" /\ line' = <<>>
  /\ UNCHANGED wrong

Submit == \* a line the gate does not know, or one the shell runs
  /\ \/ phase = "gate" /\ line # ShellWord
     \/ phase = "shell" /\ ~Leaves(line)
  /\ line' = <<>>
  /\ UNCHANGED <<phase, wrong>>

Close ==
  /\ phase = "shell" /\ Leaves(line)
  /\ phase' = "gate" /\ line' = <<>>
  /\ UNCHANGED wrong

Next ==
  \/ \E c \in Keys : Type(c)
  \/ Undo \/ Grant \/ Refuse \/ Open \/ Submit \/ Close

Spec == Init /\ [][Next]_<<phase, line, wrong>>
=============================================================================
