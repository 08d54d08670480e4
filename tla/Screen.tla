------------------------------- MODULE Screen -------------------------------
(***************************************************************************)
(* The screen of Khukhuri OS (drivers/screen.c): a log of rows, a cursor in  *)
(* it, a view that can be scrolled back, escape sequences, and the video     *)
(* memory the view is copied to; and the keys by which the console           *)
(* (kernel/console.c) scrolls it.                                            *)
(*                                                                          *)
(* Colours are left out: an escape sequence is followed to its end, what its *)
(* numbers select is not.  No caller prints a carriage return: no key gives  *)
(* one and no text of the kernel has one.                                    *)
(***************************************************************************)
EXTENDS Integers

CONSTANTS
  MAX_LOG,   \* rows of the log
  MAX_ROWS,  \* rows and
  MAX_COLS,  \* columns of the display
  Text,      \* characters that print themselves
  Params,    \* those an escape sequence takes as numbers: digits and ;
  BRACKET, FINAL,     \* [ and m, which are text elsewhere
  SPACE, ESC, NEWLINE, BACKSPACE,
  Codes,     \* extended codes of the keyboard
  Pointers   \* cells the mouse driver asks for, <<x, y>>

ASSUME ScreenAssumption ==
  /\ MAX_LOG \in Nat /\ MAX_ROWS \in Nat \ {0} /\ MAX_COLS \in Nat \ {0}
  /\ MAX_ROWS <= MAX_LOG
  /\ Params \cup {BRACKET, FINAL, SPACE} \subseteq Text
  /\ FINAL \notin Params
  /\ {ESC, NEWLINE, BACKSPACE} \cap Text = {}
  /\ Codes \subseteq Nat /\ Pointers \subseteq Int \X Int

VARIABLES
  lines,       \* the log: rows of characters
  cur_row, cur_col,
  scroll_off,  \* row of the log at the top of the display
  esc_state,   \* 0 text, 1 after Esc, 2 in the numbers
  pointer,     \* mouse_cell_x, mouse_cell_y, mouse_visible
  vm           \* video memory: characters, and which of them is inverted

vars == <<lines, cur_row, cur_col, scroll_off, esc_state, pointer, vm>>
text   == <<lines, cur_row, cur_col, scroll_off>>

LogRows == 0 .. MAX_LOG - 1
Rows    == 0 .. MAX_ROWS - 1
Cols    == 0 .. MAX_COLS - 1

Within(n, bound) == IF n < 0 THEN 0 ELSE IF n > bound THEN bound ELSE n

BlankRow == [c \in Cols |-> SPACE]

Pointed(p, r, c) == p.visible /\ p.y = r /\ p.x = c

Display(log, top, p) ==
  [r \in Rows |-> [c \in Cols |->
    [char |-> IF top + r \in LogRows THEN log[top + r][c] ELSE SPACE,
     inverted |-> Pointed(p, r, c)]]]

screen_redraw_hw == vm' = Display(lines', scroll_off', pointer')

BlankLog == [r \in LogRows |-> BlankRow]

\* kernel_main begins by clearing the screen.
Init ==
  /\ lines = BlankLog
  /\ cur_row = 0 /\ cur_col = 0 /\ scroll_off = 0
  /\ esc_state = 0
  /\ pointer = [x |-> MAX_COLS \div 2, y |-> MAX_ROWS \div 2, visible |-> FALSE]
  /\ vm = Display(lines, scroll_off, pointer)

clear_screen ==
  /\ lines' = BlankLog
  /\ cur_row' = 0 /\ cur_col' = 0 /\ scroll_off' = 0
  /\ esc_state' = 0
  /\ UNCHANGED pointer
  /\ screen_redraw_hw

-----------------------------------------------------------------------------
(* The view.                                                                *)

MaxScroll(row) == IF row < MAX_ROWS - 1 THEN 0 ELSE row - (MAX_ROWS - 1)

clamp_scroll(off, row) == Within(off, MaxScroll(row))

follow_cursor_AtBottom(off, row) == \* faulty: only a view at the bottom follows
  IF row = off + MAX_ROWS THEN MaxScroll(row) ELSE clamp_scroll(off, row)

follow_cursor(off, row) ==
  IF row >= off + MAX_ROWS THEN clamp_scroll(row - (MAX_ROWS - 1), row)
  ELSE clamp_scroll(off, row)

screen_scroll_view(delta_lines) ==
  /\ scroll_off' = clamp_scroll(scroll_off + delta_lines, cur_row)
  /\ UNCHANGED <<lines, cur_row, cur_col, esc_state, pointer>>
  /\ screen_redraw_hw

screen_mouse_set_cell(x, y) ==
  /\ pointer' = [x |-> Within(x, MAX_COLS - 1), y |-> Within(y, MAX_ROWS - 1), visible |-> TRUE]
  /\ UNCHANGED <<text, esc_state>>
  /\ screen_redraw_hw

-----------------------------------------------------------------------------
(* putchar.                                                                 *)

NextRow(row) == IF row + 1 >= MAX_LOG THEN MAX_LOG - 1 ELSE row + 1

Shifted_FromBottom(log) == \* faulty: each row is copied after it was overwritten
  LET Copied[n \in LogRows] ==
        IF n = 0 THEN log
        ELSE LET rows == Copied[n - 1]
             IN  [rows EXCEPT ![MAX_LOG - 1 - n] = rows[MAX_LOG - n]]
  IN  Copied[MAX_LOG - 1]

\* The oldest row leaves the log: rows are copied in place, each over the one
\* before it; Copied[n] is the log after n copies.
Shifted(log) ==
  LET Copied[n \in LogRows] ==
        IF n = 0 THEN log
        ELSE LET rows == Copied[n - 1] IN [rows EXCEPT ![n - 1] = rows[n]]
  IN  Copied[MAX_LOG - 1]

OpenedRow_Uncleared(log, row) == \* faulty: the last row keeps its text
  IF row + 1 >= MAX_LOG THEN Shifted(log) ELSE [log EXCEPT ![row + 1] = BlankRow]

OpenedRow(log, row) ==
  [(IF row + 1 >= MAX_LOG THEN Shifted(log) ELSE log) EXCEPT ![NextRow(row)] = BlankRow]

advance_row(log) ==
  /\ lines' = OpenedRow(log, cur_row)
  /\ cur_row' = NextRow(cur_row)
  /\ cur_col' = 0
  /\ scroll_off' = follow_cursor(scroll_off, cur_row')

Written(c) == [lines EXCEPT ![cur_row][cur_col] = c]

put_text(c) ==
  /\ esc_state = 0 /\ c \in Text
  /\ \/ /\ cur_col + 1 >= MAX_COLS
        /\ advance_row(Written(c))
     \/ /\ cur_col + 1 < MAX_COLS
        /\ lines' = Written(c)
        /\ cur_col' = cur_col + 1
        /\ UNCHANGED cur_row
        /\ scroll_off' = follow_cursor(scroll_off, cur_row)
  /\ UNCHANGED <<esc_state, pointer>>
  /\ screen_redraw_hw

put_newline(c) ==
  /\ esc_state = 0 /\ c = NEWLINE
  /\ advance_row(lines)
  /\ UNCHANGED <<esc_state, pointer>>
  /\ screen_redraw_hw

AtStart == cur_row = 0 /\ cur_col = 0

\* Where a backspace leads: back one cell, over the left edge too.
CellBefore ==
  IF cur_col > 0 THEN <<cur_row, cur_col - 1>>
  ELSE <<cur_row - 1, MAX_COLS - 1>>

\* Nothing comes before the first cell of the log.
EraseBefore ==
  \/ AtStart /\ UNCHANGED <<lines, cur_row, cur_col>>
  \/ /\ ~AtStart
     /\ cur_row' = CellBefore[1] /\ cur_col' = CellBefore[2]
     /\ lines' = [lines EXCEPT ![cur_row'][cur_col'] = SPACE]

put_backspace_Unshown(c) == \* faulty: the display keeps the character
  /\ esc_state = 0 /\ c = BACKSPACE
  /\ EraseBefore
  /\ UNCHANGED <<scroll_off, esc_state, pointer, vm>>

put_backspace(c) ==
  /\ esc_state = 0 /\ c = BACKSPACE
  /\ EraseBefore
  /\ UNCHANGED <<scroll_off, esc_state, pointer>>
  /\ screen_redraw_hw

put_esc(c) ==
  /\ esc_state = 0 /\ c = ESC
  /\ esc_state' = 1
  /\ UNCHANGED <<text, pointer, vm>>

after_esc(c) ==
  /\ esc_state = 1
  /\ esc_state' = IF c = BRACKET THEN 2 ELSE 0
  /\ UNCHANGED <<text, pointer, vm>>

\* The numbers select colours, and are kept for nothing else.
esc_number(c) ==
  /\ esc_state = 2 /\ c \in Params
  /\ UNCHANGED <<esc_state, text, pointer, vm>>

\* Any other character ends the sequence; m has it applied first.
esc_end(c) ==
  /\ esc_state = 2 /\ c \notin Params
  /\ esc_state' = 0
  /\ UNCHANGED <<text, pointer>>
  /\ IF c = FINAL THEN screen_redraw_hw ELSE UNCHANGED vm

putchar(c) ==
  \/ put_esc(c) \/ after_esc(c) \/ esc_number(c) \/ esc_end(c)
  \/ put_newline(c) \/ put_backspace(c) \/ put_text(c)

Output ==
  \/ \E c \in Text \cup {ESC, NEWLINE, BACKSPACE} : putchar(c)
  \/ clear_screen
  \/ \E p \in Pointers : screen_mouse_set_cell(p[1], p[2])

UP   == 72  \* 0x48
DOWN == 80  \* 0x50

\* The arrows scroll; releases and every other key, page up and page down
\* included, do nothing.  (After a lockout no key is served any more.)
console_on_extended_scancode(code) ==
  \/ code = UP /\ screen_scroll_view(-1)
  \/ code = DOWN /\ screen_scroll_view(1)
  \/ code \notin {UP, DOWN} /\ UNCHANGED vars

Next == Output \/ \E code \in Codes : console_on_extended_scancode(code)

Spec == Init /\ [][Next]_vars

-----------------------------------------------------------------------------
(* Properties.                                                              *)

TypeOK ==
  /\ lines \in [LogRows -> [Cols -> Text]]
  /\ cur_row \in LogRows /\ cur_col \in Cols
  /\ scroll_off \in 0 .. MAX_LOG - MAX_ROWS
  /\ esc_state \in 0 .. 2
  /\ pointer \in [x : Cols, y : Rows, visible : BOOLEAN]
  /\ vm \in [Rows -> [Cols -> [char : Text, inverted : BOOLEAN]]]

\* Every path out of the driver that changed the log, the view or the pointer
\* has redrawn (screen.c:164-193, 227-256).
DisplayIsCurrent == vm = Display(lines, scroll_off, pointer)

\* From the cursor on the log is blank, over wraps, backspaces across the left
\* edge and rows that were used before (screen.c:136-151, 232-243).
BlankAhead ==
  \A r \in LogRows, c \in Cols :
    r > cur_row \/ (r = cur_row /\ c >= cur_col) => lines[r][c] = SPACE

Last == MAX_LOG - 1

\* What stands above the cursor stays as it is, or moves up as a whole by one
\* row when the log is full, although the rows are copied over one another
\* (screen.c:139-146).
HistoryKept ==
  [][\/ \A r \in LogRows : r < cur_row /\ r < cur_row' => lines'[r] = lines[r]
     \/ cur_row = Last /\ \A r \in 1 .. Last - 1 : lines'[r - 1] = lines[r]]_vars

CursorShown == cur_row \in scroll_off .. scroll_off + MAX_ROWS - 1

\* Text and newlines bring the cursor into view wherever the view was scrolled
\* to and whatever backspaces did to it before (screen.c:129-134, 255).
OutputShown ==
  [][put_newline(NEWLINE) \/ (\E c \in Text : put_text(c)) => CursorShown']_vars
=============================================================================
