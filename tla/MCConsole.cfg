\* Lines of up to three characters at the gate and four in the shell, so that
\* the leave word fits with a space on either side of it.
SPECIFICATION ConsoleSpec
CONSTANTS
  Chars = {"1", "s", " "}
  ENTER = "enter"
  BACKSPACE = "backspace"
  SPACE = " "
  BOOT_PIN <- MCPin
  SHELL_WORD <- MCShell
  LEAVE_WORD <- MCLeave
  MAX_PIN_FAILS = 3
  GATE_LINE_LEN = 4
  KSHELL_MAX_LINE = 5
INVARIANTS
  ConsoleTypeOK
  OneLineInUse
PROPERTIES
  ImplementsGate
