\* Bytes: prefix, shift down and up, the keys 1, s and Enter, a release, arrow up.
SPECIFICATION FairSpec
CONSTANTS
  Chars = {"1", "s", "S"}
  ENTER = "enter"
  BACKSPACE = "backspace"
  SPACE = " "
  NUL = "nul"
  BOOT_PIN <- MCPin
  SHELL_WORD <- MCShell
  LEAVE_WORD <- MCPin
  MAX_PIN_FAILS = 2
  GATE_LINE_LEN = 2
  KSHELL_MAX_LINE = 2
  Scancodes = {224, 42, 170, 2, 31, 28, 130, 72}
  keymap <- MCkeymap
  keymap_shift <- MCkeymap_shift
  TickModulus = 2
INVARIANTS
  HandlersDontNest
  NoStuckByte
PROPERTIES
  LockoutIsFinal
  ImplementsConsole
  KeysServed
