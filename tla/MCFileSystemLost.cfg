\* Rewritten files and broken writes lose their blocks.
CONSTANTS
  a = a
  b = b
  long = long
  x = x
  y = y
  MAX_FILES = 3
  MAX_BLOCKS = 4
  BLOCK_SIZE = 2
  Names = {a, b, long}
  NoName = NoName
  Stored <- MCStored
  Chars = {x, y}
  NUL = NUL
  Texts <- MCTexts
  READ_BUF = 5
SPECIFICATION Spec
INVARIANTS NoLostBlocks
