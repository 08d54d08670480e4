------------------------------ MODULE Console ------------------------------
(***************************************************************************)
(* The console of Khukhuri OS (kernel/console.c) with the line editor of the *)
(* kernel shell (shell/kernel_shell.c): the PIN gate, the keyword gate, the   *)
(* shell and the lockout, one key at a time.                                 *)
(*                                                                          *)
(* There are two line buffers and two positions, one in each file; a line is *)
(* the characters below its position.  What is printed is left out, and so   *)
(* is what a shell command does to the process table or to the files: of the *)
(* commands only nikli concerns the console.                                 *)
(***************************************************************************)
EXTENDS Integers, Sequences, SequencesExt

CONSTANTS
  Chars,           \* characters that go into a line
  ENTER,           \* '\n'
  BACKSPACE,       \* '\b'
  SPACE,           \* ' ', the separator of tokenize
  BOOT_PIN,
  SHELL_WORD,      \* "shell", opens the shell at the gate
  LEAVE_WORD,      \* "nikli", leaves the shell
  MAX_PIN_FAILS,
  GATE_LINE_LEN,   \* size of line_buf in console.c
  KSHELL_MAX_LINE  \* size of line_buffer in kernel_shell.c

ASSUME ConsoleAssumption ==
  /\ ENTER \notin Chars /\ BACKSPACE \notin Chars /\ ENTER # BACKSPACE
  /\ BOOT_PIN \in Seq(Chars) /\ SHELL_WORD \in Seq(Chars)
  /\ LEAVE_WORD \in Seq(Chars \ {SPACE}) /\ LEAVE_WORD # <<>>
  /\ MAX_PIN_FAILS \in Nat \ {0}
  /\ GATE_LINE_LEN \in Nat \ {0} /\ KSHELL_MAX_LINE \in Nat \ {0}

VARIABLES
  state,
  pin_fails,   \* never lowered but by console_init
  line_buf,    \* the gate's line: line_buf[0 .. line_pos - 1]
  line_buffer  \* the shell's line

consoleVars == <<state, pin_fails, line_buf, line_buffer>>

ConsoleState == {"CON_PIN", "CON_GATE", "CON_SHELL", "CON_LOCKOUT"}

console_init ==
  /\ state' = "CON_PIN"
  /\ pin_fails' = 0
  /\ line_buf' = <<>>
  /\ UNCHANGED line_buffer

\* The image of the static variables, which console_init sets once more.
ConsoleInit ==
  /\ state = "CON_PIN"
  /\ pin_fails = 0
  /\ line_buf = <<>>
  /\ line_buffer = <<>>

-----------------------------------------------------------------------------
(* The gate.  Its first line is the PIN, every later one the shell word.     *)

PinAccepted ==
  /\ line_buf = BOOT_PIN
  /\ state' = "CON_GATE"
  /\ line_buf' = <<>>
  /\ UNCHANGED pin_fails

PinRefused_OneMore == \* faulty: > for >= in the test for the last try
  /\ line_buf # BOOT_PIN
  /\ pin_fails + 1 <= MAX_PIN_FAILS
  /\ pin_fails' = pin_fails + 1
  /\ line_buf' = <<>>
  /\ UNCHANGED state

PinRefused ==
  /\ line_buf # BOOT_PIN
  /\ pin_fails + 1 < MAX_PIN_FAILS
  /\ pin_fails' = pin_fails + 1
  /\ line_buf' = <<>>
  /\ UNCHANGED state

\* Never returns: the handler halts for ever, with the line still there.
PinLocks ==
  /\ line_buf # BOOT_PIN
  /\ pin_fails + 1 >= MAX_PIN_FAILS
  /\ pin_fails' = pin_fails + 1
  /\ state' = "CON_LOCKOUT"
  /\ UNCHANGED line_buf

handle_pin_line ==
  /\ PinAccepted \/ PinRefused \/ PinLocks
  /\ UNCHANGED line_buffer

khukhuri_shell_init == line_buffer' = <<>>

handle_gate_line_Keeps == \* faulty: returns before line_pos = 0
  /\ \/ line_buf = SHELL_WORD /\ state' = "CON_SHELL" /\ khukhuri_shell_init
     \/ line_buf # SHELL_WORD /\ UNCHANGED <<state, line_buffer>>
  /\ UNCHANGED <<line_buf, pin_fails>>

handle_gate_line ==
  /\ \/ line_buf = SHELL_WORD /\ state' = "CON_SHELL" /\ khukhuri_shell_init
     \/ line_buf # SHELL_WORD /\ UNCHANGED <<state, line_buffer>>
  /\ line_buf' = <<>>
  /\ UNCHANGED pin_fails

-----------------------------------------------------------------------------
(* The shell.                                                               *)

\* tokenize skips leading spaces and ends a token at the next space.
FirstTokenIs(line, word) ==
  \E i \in 0 .. Len(line) - Len(word) :
    LET j == i + Len(word)
    IN  /\ \A k \in 1 .. i : line[k] = SPACE
        /\ SubSeq(line, i + 1, j) = word
        /\ j = Len(line) \/ line[j + 1] = SPACE

console_leave_shell ==
  state' = IF state = "CON_SHELL" THEN "CON_GATE" ELSE state

execute_line(line) ==
  IF FirstTokenIs(line, LEAVE_WORD) THEN console_leave_shell
                                    ELSE UNCHANGED state

Edited_NoLimit(line, c, size) == \* faulty: the buffer's end is not checked
  IF c = BACKSPACE THEN SubSeq(line, 1, Len(line) - 1) ELSE Append(line, c)

\* What a key other than Enter makes of a line in a buffer of that size; both
\* editors keep the last byte for the terminator.
Edited(line, c, size) ==
  CASE c = BACKSPACE -> IF line = <<>> THEN line ELSE Front(line)
    [] c # BACKSPACE /\ Len(line) < size - 1 -> Append(line, c)
    [] OTHER -> line

khukhuri_shell_handle_char(c) ==
  /\ IF c = ENTER
     THEN execute_line(line_buffer) /\ line_buffer' = <<>>
     ELSE line_buffer' = Edited(line_buffer, c, KSHELL_MAX_LINE) /\ UNCHANGED state
  /\ UNCHANGED <<line_buf, pin_fails>>

-----------------------------------------------------------------------------
(* The entry points the keyboard driver calls.                              *)

console_on_key(c) ==
  \/ state = "CON_LOCKOUT" /\ UNCHANGED consoleVars
  \/ state = "CON_SHELL" /\ khukhuri_shell_handle_char(c)
  \/ state = "CON_PIN" /\ c = ENTER /\ handle_pin_line
  \/ state = "CON_GATE" /\ c = ENTER /\ handle_gate_line
  \/ /\ state \in {"CON_PIN", "CON_GATE"} /\ c # ENTER
     /\ line_buf' = Edited(line_buf, c, GATE_LINE_LEN)
     /\ UNCHANGED <<state, pin_fails, line_buffer>>

\* The arrow keys move the screen's view and nothing else.
console_on_extended_scancode == UNCHANGED consoleVars

Typed == Chars \cup {ENTER, BACKSPACE}

ConsoleNext == \E c \in Typed : console_on_key(c)

ConsoleSpec == ConsoleInit /\ [][ConsoleNext]_consoleVars

-----------------------------------------------------------------------------
(* Properties.                                                              *)

\* Types: a line and its terminator fit into the line's buffer, whatever is
\* typed, and the machine is locked exactly when the tries are used up.
ConsoleTypeOK ==
  /\ state \in ConsoleState
  /\ pin_fails \in 0 .. MAX_PIN_FAILS
  /\ state = "CON_LOCKOUT" <=> pin_fails = MAX_PIN_FAILS
  /\ line_buf \in Seq(Chars) /\ Len(line_buf) < GATE_LINE_LEN
  /\ line_buffer \in Seq(Chars) /\ Len(line_buffer) < KSHELL_MAX_LINE

\* Of the two line buffers the one whose editor is not in use is empty, so no
\* character typed for the gate turns up in a command or the other way round,
\* however often the shell is left and entered (console.c:60,73,
\* kernel_shell.c:324,334,338).
OneLineInUse ==
  /\ state = "CON_SHELL" => line_buf = <<>>
  /\ state # "CON_SHELL" => line_buffer = <<>>

phaseBar ==
  CASE state = "CON_PIN" -> "pin"     [] state = "CON_GATE" -> "gate"
    [] state = "CON_SHELL" -> "shell" [] state = "CON_LOCKOUT" -> "locked"

\* The line the abstract gate sees: the one of the editor in use.
lineBar ==
  CASE state = "CON_SHELL" -> line_buffer
    [] state = "CON_LOCKOUT" -> <<>>
    [] OTHER -> line_buf

ShellLeaves(line) == FirstTokenIs(line, LEAVE_WORD)

RoomOf(phase) == (IF phase = "shell" THEN KSHELL_MAX_LINE ELSE GATE_LINE_LEN) - 1

Gate == INSTANCE SecureGate
  WITH Keys <- Chars, Pin <- BOOT_PIN,
       ShellWord <- SHELL_WORD, Leaves <- ShellLeaves, MaxWrong <- MAX_PIN_FAILS,
       Room <- RoomOf, phase <- phaseBar, line <- lineBar, wrong <- pin_fails

\* The console, with its two buffers, four states and two files, behaves like
\* one line editor in front of the gate: the shell is reached through the PIN
\* and the shell word only, wrong PINs count over the whole session, a lockout
\* is for good, and leaving the shell does not ask for the PIN again.
ImplementsGate == Gate!Spec
=============================================================================
