--------------------------- MODULE MCFileSystem ---------------------------
(***************************************************************************)
(* Values of the constants of FileSystem for TLC.                            *)
(***************************************************************************)
EXTENDS FileSystem

CONSTANTS a, b, long, x, y

\* `long' is longer than a directory entry holds; its first characters are `a'.
MCStored == [n \in {a, b, long} |-> IF n = long THEN a ELSE n]

\* Texts that end inside a block, at its end, and one block later.
MCTexts == {<<x>>, <<y, y>>, <<x, y, x>>}
=============================================================================
