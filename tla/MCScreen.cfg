\* Four rows and a display of two: the view can lag behind by two rows.
\* Codes: the arrows, page up, and the release of an arrow.
SPECIFICATION Spec
CONSTANTS
  MAX_LOG = 4
  MAX_ROWS = 2
  MAX_COLS = 2
  Text = {" ", "[", "1", "m"}
  Params = {"1"}
  BRACKET = "["
  FINAL = "m"
  SPACE = " "
  ESC = "esc"
  NEWLINE = "nl"
  BACKSPACE = "bs"
  Codes = {72, 73, 80, 200}
  Pointers <- MCPointers
INVARIANTS
  DisplayIsCurrent
  BlankAhead
PROPERTIES
  HistoryKept
  OutputShown
