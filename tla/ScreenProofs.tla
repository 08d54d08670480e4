---------------------------- MODULE ScreenProofs ----------------------------
(***************************************************************************)
(* Theorems about the screen, for every size of the log and of the display   *)
(* and every output.                                                        *)
(***************************************************************************)
EXTENDS Screen, Induction

Log == [LogRows -> [Cols -> Text]]

Scrolls == 0 .. MAX_LOG - MAX_ROWS

\* The part of the type invariant about the log, the cursor and the view.
TextOK ==
  /\ lines \in Log
  /\ cur_row \in LogRows /\ cur_col \in Cols
  /\ scroll_off \in Scrolls

\* The inductive invariant.  The display follows from the last redraw; the
\* blank rest of the log is what a new row, and a cell a backspace returns to,
\* rely on.
IInv == TypeOK /\ DisplayIsCurrent /\ BlankAhead

BlankBelow(log) == \A r \in LogRows, c \in Cols : r > cur_row => log[r][c] = SPACE

-----------------------------------------------------------------------------
(* What the operators on the log and the view return.                       *)

LEMMA Bounds ==
  /\ LogRows \subseteq Nat /\ Cols \subseteq Nat /\ Rows \subseteq Nat
  /\ 0 \in LogRows /\ Last \in LogRows /\ 0 \in Cols /\ 0 \in Rows
  /\ MAX_COLS - 1 \in Cols
  /\ \A r \in LogRows : r <= Last
  /\ SPACE \in Text
BY ScreenAssumption, SMT DEF LogRows, Cols, Rows, Last

LEMMA BlankLogIsLog ==
  /\ BlankRow \in [Cols -> Text]
  /\ BlankLog \in Log
  /\ \A r \in LogRows, c \in Cols : BlankLog[r][c] = SPACE
BY Bounds DEF BlankRow, BlankLog, Log

LEMMA CellWritten ==
  ASSUME NEW log \in Log, NEW row \in LogRows, NEW col \in Cols, NEW ch \in Text
  PROVE  LET w == [log EXCEPT ![row][col] = ch]
         IN  /\ w \in Log
             /\ \A r \in LogRows, c \in Cols :
                  w[r][c] = IF r = row /\ c = col THEN ch ELSE log[r][c]
             /\ \A r \in LogRows : r # row => w[r] = log[r]
BY DEF Log

\* What the loop of advance_row computes, as a function: row by row, in place.
Copies(log, f) ==
  f = [n \in LogRows |-> IF n = 0 THEN log ELSE [f[n - 1] EXCEPT ![n - 1] = f[n - 1][n]]]

LEMMA ShiftedIsChoice ==
  ASSUME NEW log
  PROVE  Shifted(log) = (CHOOSE f : Copies(log, f))[MAX_LOG - 1]
BY Zenon DEF Shifted, Copies

\* After n copies the first n rows have moved up and the others are unchanged:
\* each row is read before it is written over.
LEMMA RowsCopied ==
  ASSUME NEW log \in Log
  PROVE  /\ Shifted(log) \in Log
         /\ \A r \in LogRows : r # Last => Shifted(log)[r] = log[r + 1]
<1>. DEFINE After(n) == [r \in LogRows |-> IF r < n THEN log[r + 1] ELSE log[r]]
            copied   == CHOOSE f : Copies(log, f)
<1>1. LogRows \subseteq Nat /\ 0 \in LogRows /\ Last \in LogRows /\ Last = MAX_LOG - 1
      /\ \A r \in LogRows : r # Last => r < Last /\ r + 1 \in LogRows
      /\ \A n \in LogRows : n # 0 => n - 1 \in LogRows /\ (n - 1) + 1 = n
  BY ScreenAssumption, SMT DEF LogRows, Last
<1>2. After(0) = log
  BY <1>1 DEF Log
<1>3. ASSUME NEW n \in LogRows, n # 0
      PROVE  [After(n - 1) EXCEPT ![n - 1] = After(n - 1)[n]] = After(n)
  <2>1. n \in Nat /\ n - 1 \in LogRows /\ (n - 1) + 1 = n /\ ~(n < n - 1)
    BY <1>1, <1>3, SMT
  <2>2. After(n - 1)[n] = log[n]
    BY <2>1
  <2>3. ASSUME NEW r \in LogRows
        PROVE  [After(n - 1) EXCEPT ![n - 1] = After(n - 1)[n]][r] = After(n)[r]
    <3>1. CASE r = n - 1
      BY <2>1, <2>2, <3>1
    <3>2. CASE r # n - 1
      <4>1. r < n - 1 <=> r < n
        BY <1>1, <2>1, <3>2, SMT
      <4>. QED BY <3>2, <4>1
    <3>. QED BY <3>1, <3>2
  <2>. QED BY <2>3
<1>4. Copies(log, copied)
  <2>. DEFINE g == [n \in LogRows |-> After(n)]
  <2>0. \A n \in LogRows : g[n] = After(n)
    OBVIOUS
  <2>1. ASSUME NEW n \in LogRows
        PROVE  g[n] = IF n = 0 THEN log ELSE [g[n - 1] EXCEPT ![n - 1] = g[n - 1][n]]
    <3>. HIDE DEF g, After
    <3>1. CASE n = 0
      BY <1>2, <2>0, <3>1
    <3>2. CASE n # 0
      <4>1. n - 1 \in LogRows
        BY <1>1, <3>2
      <4>2. g[n] = After(n) /\ g[n - 1] = After(n - 1)
        BY <2>0, <4>1
      <4>. QED BY <1>3, <3>2, <4>2
    <3>. QED BY <3>1, <3>2
  <2>2. Copies(log, g)
    <3>1. g = [n \in LogRows |-> g[n]]
      OBVIOUS
    <3>. HIDE DEF g
    <3>. QED BY <2>1, <3>1 DEF Copies
  <2>. HIDE DEF g
  <2>. QED BY <2>2
<1>. HIDE DEF After, copied
<1>5. \A n \in LogRows :
        copied[n] = IF n = 0 THEN log
                    ELSE [copied[n - 1] EXCEPT ![n - 1] = copied[n - 1][n]]
  BY <1>4 DEF Copies
<1>. DEFINE S == {n \in Nat : n \in LogRows => copied[n] = After(n)}
<1>6. 0 \in S
  BY <1>1, <1>2, <1>5
<1>7. ASSUME NEW n \in Nat, n \in S PROVE n + 1 \in S
  <2>. SUFFICES ASSUME n + 1 \in LogRows PROVE copied[n + 1] = After(n + 1)
    OBVIOUS
  <2>1. n \in LogRows /\ n + 1 # 0 /\ (n + 1) - 1 = n
    BY ScreenAssumption, SMT DEF LogRows
  <2>2. copied[n] = After(n)
    BY <1>7, <2>1
  <2>3. [After(n) EXCEPT ![n] = After(n)[n + 1]] = After(n + 1)
    BY <1>3, <2>1
  <2>. QED BY <1>5, <2>1, <2>2, <2>3
<1>8. Nat \subseteq S
  <2>. HIDE DEF S
  <2>. QED BY <1>6, <1>7, SetInduction
<1>9. Shifted(log) = After(Last)
  BY <1>1, <1>8, ShiftedIsChoice DEF copied
<1>10. \A r \in LogRows : r # Last => log[r + 1] \in [Cols -> Text]
  BY <1>1 DEF Log
<1>. QED BY <1>1, <1>9, <1>10 DEF After, Log

LEMMA RowOpened ==
  ASSUME NEW log \in Log, NEW row \in LogRows
  PROVE  /\ OpenedRow(log, row) \in Log
         /\ NextRow(row) = IF row = Last THEN Last ELSE row + 1
         /\ NextRow(row) \in LogRows
         /\ OpenedRow(log, row)[NextRow(row)] = BlankRow
         /\ row = Last => \A r \in LogRows : r # Last => OpenedRow(log, row)[r] = log[r + 1]
         /\ row # Last => \A r \in LogRows : r # row + 1 => OpenedRow(log, row)[r] = log[r]
<1>1. /\ NextRow(row) = IF row = Last THEN Last ELSE row + 1
      /\ NextRow(row) \in LogRows
      /\ row = Last <=> row + 1 >= MAX_LOG
  BY ScreenAssumption, SMT DEF NextRow, LogRows, Last
<1>2. /\ Shifted(log) \in Log
      /\ \A r \in LogRows : r # Last => Shifted(log)[r] = log[r + 1]
  BY RowsCopied
<1>3. BlankRow \in [Cols -> Text]
  BY BlankLogIsLog
<1>. DEFINE base == IF row + 1 >= MAX_LOG THEN Shifted(log) ELSE log
<1>4. base \in Log
  BY <1>2
<1>5. OpenedRow(log, row) = [base EXCEPT ![NextRow(row)] = BlankRow]
  BY DEF OpenedRow
<1>6. /\ [base EXCEPT ![NextRow(row)] = BlankRow] \in Log
      /\ [base EXCEPT ![NextRow(row)] = BlankRow][NextRow(row)] = BlankRow
      /\ \A r \in LogRows : r # NextRow(row) =>
           [base EXCEPT ![NextRow(row)] = BlankRow][r] = base[r]
  <2>. HIDE DEF base
  <2>. QED BY <1>1, <1>3, <1>4 DEF Log
<1>7. row = Last => base = Shifted(log)
  BY <1>1
<1>8. row # Last => base = log
  BY <1>1
<1>. HIDE DEF base
<1>. QED BY <1>1, <1>2, <1>5, <1>6, <1>7, <1>8

\* Scrolling stays inside the log, and following the cursor shows it.
LEMMA ViewFollows ==
  ASSUME NEW off \in Int, NEW row \in LogRows
  PROVE  /\ clamp_scroll(off, row) \in Scrolls
         /\ off \in Scrolls =>
              /\ follow_cursor(off, row) \in Scrolls
              /\ row \in follow_cursor(off, row) .. follow_cursor(off, row) + MAX_ROWS - 1
BY ScreenAssumption, SMT
DEF clamp_scroll, follow_cursor, Within, MaxScroll, Scrolls, LogRows

LEMMA DisplayTyped ==
  ASSUME NEW log \in Log, NEW top \in Int,
         NEW p \in [x : Cols, y : Rows, visible : BOOLEAN]
  PROVE  Display(log, top, p) \in [Rows -> [Cols -> [char : Text, inverted : BOOLEAN]]]
<1>1. ASSUME NEW r \in Rows, NEW c \in Cols
      PROVE  /\ (IF top + r \in LogRows THEN log[top + r][c] ELSE SPACE) \in Text
             /\ Pointed(p, r, c) \in BOOLEAN
  BY Bounds DEF Log, Pointed
<1>. QED BY <1>1 DEF Display

-----------------------------------------------------------------------------
(* Steps.                                                                   *)

LEMMA RowAdvances ==
  ASSUME TextOK, NEW log \in Log, BlankBelow(log), advance_row(log)
  PROVE  TextOK' /\ BlankAhead' /\ CursorShown'
<1>1. /\ cur_row' = NextRow(cur_row) /\ cur_row' \in LogRows
      /\ lines' = OpenedRow(log, cur_row) /\ lines' \in Log
      /\ cur_col' = 0 /\ cur_col' \in Cols
  BY RowOpened, Bounds DEF advance_row, TextOK
<1>2. scroll_off' \in Scrolls /\ CursorShown'
  BY <1>1, ViewFollows, ScreenAssumption, SMT
  DEF advance_row, TextOK, CursorShown, Scrolls, LogRows
<1>3. ASSUME NEW r \in LogRows, NEW c \in Cols, r >= cur_row'
      PROVE  lines'[r][c] = SPACE
  <2>1. CASE r = cur_row'
    BY <1>1, <2>1, RowOpened DEF TextOK, BlankRow
  <2>2. CASE r # cur_row'
    <3>1. cur_row # Last /\ cur_row' = cur_row + 1 /\ r > cur_row
      <4>1. /\ r \in Nat /\ cur_row \in Nat /\ r <= Last
            /\ cur_row' = IF cur_row = Last THEN Last ELSE cur_row + 1
        BY <1>1, RowOpened, Bounds DEF TextOK
      <4>2. Last \in Int
        BY ScreenAssumption, SMT DEF Last
      <4>. HIDE DEF Last
      <4>. QED BY <1>3, <2>2, <4>1, <4>2, SMT
    <3>2. lines'[r] = log[r]
      BY <1>1, <2>2, <3>1, RowOpened DEF TextOK
    <3>. QED BY <3>1, <3>2 DEF BlankBelow
  <2>. QED BY <2>1, <2>2
<1>4. BlankAhead'
  <2>. SUFFICES ASSUME NEW r \in LogRows, NEW c \in Cols,
                       r > cur_row' \/ (r = cur_row' /\ c >= cur_col')
                PROVE  lines'[r][c] = SPACE
    BY DEF BlankAhead
  <2>1. cur_row' \in LogRows
    BY <1>1, RowOpened DEF TextOK
  <2>2. r \in Nat /\ cur_row' \in Nat
    BY <2>1, Bounds
  <2>3. r >= cur_row'
    BY <2>2, SMT
  <2>. QED BY <1>3, <2>3
<1>. QED BY <1>1, <1>2, <1>4 DEF TextOK

LEMMA TextWritten ==
  ASSUME TextOK, BlankAhead, NEW c \in Text, put_text(c)
  PROVE  TextOK' /\ BlankAhead' /\ CursorShown'
<1>1. /\ Written(c) \in Log
      /\ \A r \in LogRows, k \in Cols :
           Written(c)[r][k] = IF r = cur_row /\ k = cur_col THEN c ELSE lines[r][k]
  BY CellWritten DEF TextOK, Written
<1>2. CASE advance_row(Written(c))
  <2>1. BlankBelow(Written(c))
    BY <1>1, Bounds, SMT DEF BlankBelow, BlankAhead, TextOK
  <2>. QED BY <1>1, <1>2, <2>1, RowAdvances
<1>3. CASE /\ cur_col + 1 < MAX_COLS
           /\ lines' = Written(c)
           /\ cur_col' = cur_col + 1
           /\ cur_row' = cur_row
           /\ scroll_off' = follow_cursor(scroll_off, cur_row)
  <2>1. cur_col' \in Cols /\ cur_row' \in LogRows /\ lines' \in Log
    BY <1>1, <1>3, ScreenAssumption, SMT DEF TextOK, Cols
  <2>2. scroll_off' \in Scrolls /\ CursorShown'
    BY <1>3, ViewFollows, ScreenAssumption, SMT DEF TextOK, CursorShown, Scrolls, LogRows
  <2>3. BlankAhead'
    <3>. SUFFICES ASSUME NEW r \in LogRows, NEW k \in Cols,
                         r > cur_row \/ (r = cur_row /\ k >= cur_col + 1)
                  PROVE  lines'[r][k] = SPACE
      BY <1>3 DEF BlankAhead
    <3>1. cur_row \in Nat /\ cur_col \in Nat /\ r \in Nat /\ k \in Nat
      BY Bounds DEF TextOK
    <3>2. (r > cur_row \/ (r = cur_row /\ k >= cur_col)) /\ ~(r = cur_row /\ k = cur_col)
      BY <3>1, SMT
    <3>3. lines[r][k] = SPACE
      BY <3>2 DEF BlankAhead
    <3>. QED BY <1>1, <1>3, <3>2, <3>3
  <2>. QED BY <2>1, <2>2, <2>3 DEF TextOK
<1>. QED BY <1>2, <1>3 DEF put_text

LEMMA Backspaced ==
  ASSUME TextOK, BlankAhead, EraseBefore, UNCHANGED scroll_off
  PROVE  TextOK' /\ BlankAhead'
<1>1. CASE AtStart
  BY <1>1 DEF EraseBefore, TextOK, BlankAhead
<1>2. CASE ~AtStart
  <2>1. /\ cur_row' \in LogRows /\ cur_col' \in Cols
        /\ \/ cur_row' = cur_row /\ cur_col' = cur_col - 1
           \/ cur_row' = cur_row - 1 /\ cur_col = 0 /\ cur_col' = MAX_COLS - 1
    BY <1>2, Bounds, ScreenAssumption, SMT
    DEF EraseBefore, CellBefore, AtStart, TextOK, LogRows, Cols
  <2>2. lines' = [lines EXCEPT ![cur_row'][cur_col'] = SPACE]
    BY <1>2 DEF EraseBefore
  <2>3. /\ lines' \in Log
        /\ \A r \in LogRows, c \in Cols :
             lines'[r][c] = IF r = cur_row' /\ c = cur_col' THEN SPACE ELSE lines[r][c]
    <3>1. lines \in Log /\ SPACE \in Text
      BY Bounds DEF TextOK
    <3>. QED BY <2>1, <2>2, <3>1 DEF Log
  <2>4. ASSUME NEW r \in LogRows, NEW c \in Cols,
               r > cur_row' \/ (r = cur_row' /\ c >= cur_col')
        PROVE  lines'[r][c] = SPACE
    <3>1. CASE r = cur_row' /\ c = cur_col'
      BY <2>3, <3>1
    <3>2. CASE ~(r = cur_row' /\ c = cur_col')
      <4>1. r > cur_row \/ (r = cur_row /\ c >= cur_col)
        <5>1. /\ r \in Int /\ cur_row \in Int /\ cur_row' \in Int
              /\ c \in Int /\ cur_col \in Int /\ cur_col' \in Int /\ MAX_COLS \in Int
              /\ c >= 0 /\ c <= MAX_COLS - 1
          BY <2>1, ScreenAssumption, SMT DEF TextOK, Cols, LogRows
        <5>2. CASE cur_row' = cur_row /\ cur_col' = cur_col - 1
          BY <2>4, <3>2, <5>1, <5>2, SMT
        <5>3. CASE cur_row' = cur_row - 1 /\ cur_col = 0 /\ cur_col' = MAX_COLS - 1
          BY <2>4, <3>2, <5>1, <5>3, SMT
        <5>. QED BY <2>1, <5>2, <5>3
      <4>. QED BY <2>3, <3>2, <4>1 DEF BlankAhead
    <3>. QED BY <3>1, <3>2
  <2>5. BlankAhead'
    BY <2>4 DEF BlankAhead
  <2>. QED BY <2>1, <2>3, <2>5 DEF TextOK
<1>. QED BY <1>1, <1>2

LEMMA StepKeepsText ==
  ASSUME TextOK, BlankAhead, Next
  PROVE  TextOK' /\ BlankAhead'
<1>1. CASE UNCHANGED text
  BY <1>1 DEF text, TextOK, BlankAhead
<1>2. ASSUME NEW c \in Text, put_text(c) PROVE TextOK' /\ BlankAhead'
  BY <1>2, TextWritten
<1>3. ASSUME NEW c, put_newline(c) PROVE TextOK' /\ BlankAhead'
  <2>1. BlankBelow(lines)
    BY DEF BlankBelow, BlankAhead
  <2>. QED BY <1>3, <2>1, RowAdvances DEF put_newline, TextOK
<1>4. ASSUME NEW c, put_backspace(c) PROVE TextOK' /\ BlankAhead'
  BY <1>4, Backspaced DEF put_backspace
<1>5. CASE clear_screen
  <2>1. 0 \in Scrolls
    BY ScreenAssumption, SMT DEF Scrolls
  <2>. QED BY <1>5, <2>1, Bounds, BlankLogIsLog DEF clear_screen, TextOK, BlankAhead
<1>6. ASSUME NEW d \in Int, screen_scroll_view(d) PROVE TextOK' /\ BlankAhead'
  <2>1. scroll_off' \in Scrolls
    <3>1. d \in Int /\ scroll_off \in Int
      BY SMT DEF TextOK, Scrolls
    <3>2. scroll_off + d \in Int
      BY <3>1, SMT
    <3>. QED BY <1>6, <3>2, ViewFollows DEF screen_scroll_view, TextOK
  <2>. QED BY <1>6, <2>1 DEF screen_scroll_view, TextOK, BlankAhead
<1>. QED
  <2>1. ASSUME NEW c \in Text \cup {ESC, NEWLINE, BACKSPACE}, putchar(c)
        PROVE  TextOK' /\ BlankAhead'
    BY <1>1, <1>2, <1>3, <1>4, <2>1
    DEF putchar, put_esc, after_esc, esc_number, esc_end, put_text
  <2>2. ASSUME NEW p \in Pointers, screen_mouse_set_cell(p[1], p[2])
        PROVE  TextOK' /\ BlankAhead'
    BY <1>1, <2>2 DEF screen_mouse_set_cell
  <2>3. ASSUME NEW code \in Codes, console_on_extended_scancode(code)
        PROVE  TextOK' /\ BlankAhead'
    BY <1>1, <1>6, <2>3 DEF console_on_extended_scancode, vars, text
  <2>. QED BY <1>5, <2>1, <2>2, <2>3 DEF Next, Output

\* Whatever changes the log, the view or the pointer copies them to the display.
LEMMA StepKeepsDisplay ==
  ASSUME DisplayIsCurrent, Next
  PROVE  DisplayIsCurrent'
<1>1. CASE screen_redraw_hw
  BY <1>1, Zenon DEF screen_redraw_hw, DisplayIsCurrent, Display, Pointed
<1>2. CASE UNCHANGED <<text, pointer, vm>>
  BY <1>2, Zenon DEF text, DisplayIsCurrent, Display, Pointed
<1>. QED BY <1>1, <1>2
     DEF Next, Output, putchar, put_esc, after_esc, esc_number, esc_end, put_newline,
         put_backspace, put_text, clear_screen, console_on_extended_scancode,
         screen_scroll_view, screen_mouse_set_cell, text, vars

LEMMA WithinBounds ==
  ASSUME NEW n \in Int, NEW bound \in Nat
  PROVE  Within(n, bound) \in 0 .. bound
BY SMT DEF Within

\* The rest of the type invariant.
ControlOK ==
  /\ esc_state \in 0 .. 2
  /\ pointer \in [x : Cols, y : Rows, visible : BOOLEAN]

LEMMA StepKeepsControl ==
  ASSUME ControlOK, Next
  PROVE  ControlOK'
<1>1. ASSUME NEW p \in Pointers, screen_mouse_set_cell(p[1], p[2]) PROVE ControlOK'
  <2>1. p[1] \in Int /\ p[2] \in Int /\ MAX_COLS - 1 \in Nat /\ MAX_ROWS - 1 \in Nat
    BY ScreenAssumption
  <2>2. Within(p[1], MAX_COLS - 1) \in Cols /\ Within(p[2], MAX_ROWS - 1) \in Rows
    BY <2>1, WithinBounds DEF Cols, Rows
  <2>. QED BY <1>1, <2>2 DEF screen_mouse_set_cell, ControlOK
<1>2. CASE UNCHANGED pointer /\ esc_state' \in 0 .. 2
  BY <1>2 DEF ControlOK
<1>3. CASE UNCHANGED <<esc_state, pointer>>
  BY <1>3 DEF ControlOK
<1>4. CASE \E c \in Text \cup {ESC, NEWLINE, BACKSPACE} : putchar(c)
  BY <1>2, <1>3, <1>4
  DEF putchar, put_esc, after_esc, esc_number, esc_end, put_newline, put_backspace, put_text
<1>. QED BY <1>1, <1>2, <1>3, <1>4
     DEF Next, Output, clear_screen, console_on_extended_scancode, screen_scroll_view, vars

LEMMA Parts ==
  /\ TypeOK => TextOK /\ ControlOK
  /\ TextOK /\ ControlOK /\ DisplayIsCurrent => TypeOK
<1>1. TextOK /\ ControlOK /\ DisplayIsCurrent =>
        vm \in [Rows -> [Cols -> [char : Text, inverted : BOOLEAN]]]
  <2>1. TextOK => scroll_off \in Int
    BY ScreenAssumption, SMT DEF TextOK, Scrolls
  <2>. QED BY <2>1, DisplayTyped DEF TextOK, ControlOK, DisplayIsCurrent
<1>. QED BY <1>1 DEF TypeOK, TextOK, ControlOK, Log, Scrolls

LEMMA InitIInv == Init => IInv
<1>. SUFFICES ASSUME Init PROVE IInv
  OBVIOUS
<1>1. ControlOK
  <2>1. MAX_COLS \div 2 \in Cols /\ MAX_ROWS \div 2 \in Rows
    BY ScreenAssumption, SMT DEF Cols, Rows
  <2>. QED BY <2>1, ScreenAssumption, SMT DEF Init, ControlOK
<1>2. TextOK /\ BlankAhead
  <2>1. 0 \in Scrolls
    BY ScreenAssumption, SMT DEF Scrolls
  <2>. QED BY <2>1, Bounds, BlankLogIsLog DEF Init, TextOK, BlankAhead
<1>3. DisplayIsCurrent
  BY DEF Init, DisplayIsCurrent
<1>. QED BY <1>1, <1>2, <1>3, Parts DEF IInv

LEMMA NextIInv == IInv /\ [Next]_vars => IInv'
<1>1. ASSUME IInv, Next PROVE IInv'
  <2>1. TextOK' /\ BlankAhead' /\ ControlOK' /\ DisplayIsCurrent'
    BY <1>1, Parts, StepKeepsText, StepKeepsControl, StepKeepsDisplay DEF IInv
  <2>2. TypeOK'
    BY <2>1, Parts, PTL
  <2>. QED BY <2>1, <2>2 DEF IInv
<1>2. ASSUME IInv, UNCHANGED vars PROVE IInv'
  BY <1>2, Zenon DEF IInv, TypeOK, DisplayIsCurrent, BlankAhead, Display, Pointed,
                     vars, text
<1>. QED BY <1>1, <1>2

-----------------------------------------------------------------------------

\* The screen's invariant, from which the theorems below follow.
THEOREM Invariance == Spec => []IInv
BY InitIInv, NextIInv, PTL DEF Spec

\* No output, scrolling or mouse position leads outside the log, the display,
\* or the video memory.
THEOREM TypeCorrect == Spec => []TypeOK
BY Invariance, PTL DEF IInv

\* The display shows the view and the pointer at all times.
THEOREM ShowsTheLog == Spec => []DisplayIsCurrent
BY Invariance, PTL DEF IInv

\* From the cursor on the log is blank.
THEOREM NothingAhead == Spec => []BlankAhead
BY Invariance, PTL DEF IInv

\* Text and newlines bring the cursor into view.
THEOREM CursorComesIntoView == Spec => OutputShown
<1>1. ASSUME IInv, put_newline(NEWLINE) \/ (\E c \in Text : put_text(c))
      PROVE  CursorShown'
  <2>1. TextOK /\ BlankAhead
    BY <1>1, Parts DEF IInv
  <2>2. BlankBelow(lines)
    BY <2>1 DEF BlankBelow, BlankAhead
  <2>3. CASE put_newline(NEWLINE)
    BY <2>1, <2>2, <2>3, RowAdvances DEF put_newline, TextOK
  <2>4. CASE \E c \in Text : put_text(c)
    BY <2>1, <2>4, TextWritten
  <2>. QED BY <1>1, <2>3, <2>4
<1>2. IInv /\ [Next]_vars =>
        [put_newline(NEWLINE) \/ (\E c \in Text : put_text(c)) => CursorShown']_vars
  BY <1>1
<1>. QED BY <1>2, Invariance, PTL DEF Spec, OutputShown

\* What stands above the cursor stays, or moves up as a whole.
LEMMA AdvanceKeepsHistory ==
  ASSUME TextOK, NEW log \in Log, \A r \in LogRows : r # cur_row => log[r] = lines[r],
         advance_row(log)
  PROVE  \/ \A r \in LogRows : r < cur_row /\ r < cur_row' => lines'[r] = lines[r]
         \/ cur_row = Last /\ \A r \in 1 .. Last - 1 : lines'[r - 1] = lines[r]
<1>1. cur_row \in LogRows /\ lines' = OpenedRow(log, cur_row)
  BY DEF advance_row, TextOK
<1>2. CASE cur_row = Last
  <2>1. ASSUME NEW r \in 1 .. Last - 1 PROVE lines'[r - 1] = lines[r]
    <3>1. /\ r - 1 \in LogRows /\ r - 1 # Last /\ (r - 1) + 1 = r
          /\ r \in LogRows /\ r # Last
      BY ScreenAssumption, SMT DEF LogRows, Last
    <3>2. lines'[r - 1] = log[(r - 1) + 1]
      BY <1>1, <1>2, <3>1, RowOpened
    <3>. QED BY <1>2, <3>1, <3>2
  <2>. QED BY <1>2, <2>1
<1>3. CASE cur_row # Last
  <2>1. ASSUME NEW r \in LogRows, r < cur_row PROVE lines'[r] = lines[r]
    <3>1. r # cur_row /\ r # cur_row + 1
      BY <1>1, <2>1, SMT DEF LogRows
    <3>. QED BY <1>1, <1>3, <3>1, RowOpened
  <2>. QED BY <2>1
<1>. QED BY <1>2, <1>3

THEOREM HistoryStays == Spec => HistoryKept
<1>. DEFINE Kept ==
       \/ \A r \in LogRows : r < cur_row /\ r < cur_row' => lines'[r] = lines[r]
       \/ cur_row = Last /\ \A r \in 1 .. Last - 1 : lines'[r - 1] = lines[r]
<1>1. ASSUME IInv, Next PROVE Kept
  <2>1. TextOK
    BY <1>1, Parts DEF IInv
  <2>2. CASE UNCHANGED lines
    BY <2>2
  <2>3. ASSUME NEW c \in Text, put_text(c) PROVE Kept
    <3>1. /\ Written(c) \in Log
          /\ \A r \in LogRows : r # cur_row => Written(c)[r] = lines[r]
      BY <2>1, CellWritten DEF TextOK, Written
    <3>2. CASE advance_row(Written(c))
      BY <2>1, <3>1, <3>2, AdvanceKeepsHistory
    <3>3. CASE lines' = Written(c)
      <4>1. \A r \in LogRows : r < cur_row => r # cur_row
        BY <2>1, SMT DEF TextOK, LogRows
      <4>. QED BY <3>1, <3>3, <4>1
    <3>. QED BY <2>3, <3>2, <3>3 DEF put_text
  <2>4. ASSUME NEW c, put_newline(c) PROVE Kept
    BY <2>1, <2>4, AdvanceKeepsHistory DEF put_newline, TextOK
  <2>5. ASSUME NEW c, put_backspace(c) PROVE Kept
    <3>1. CASE AtStart
      BY <2>2, <2>5, <3>1 DEF put_backspace, EraseBefore
    <3>2. CASE ~AtStart
      <4>1. lines' = [lines EXCEPT ![cur_row'][cur_col'] = SPACE]
        BY <2>5, <3>2 DEF put_backspace, EraseBefore
      <4>2. ASSUME NEW r \in LogRows, r < cur_row, r < cur_row' PROVE lines'[r] = lines[r]
        <5>1. r # cur_row'
          BY <2>1, <2>5, <3>2, <4>2, SMT
          DEF put_backspace, EraseBefore, CellBefore, TextOK, LogRows
        <5>. QED BY <2>1, <4>1, <5>1 DEF TextOK, Log
      <4>. QED BY <4>2
    <3>. QED BY <3>1, <3>2
  <2>6. CASE clear_screen
    <3>1. \A r \in LogRows : ~(r < cur_row')
      BY <2>6, SMT DEF clear_screen, LogRows
    <3>. QED BY <3>1
  <2>7. CASE \E c \in Text \cup {ESC, NEWLINE, BACKSPACE} : putchar(c)
    <3>. HIDE DEF Kept
    <3>. QED BY <2>2, <2>3, <2>4, <2>5, <2>7
         DEF putchar, put_esc, after_esc, esc_number, esc_end, put_text, text
  <2>. HIDE DEF Kept
  <2>. QED BY <1>1, <2>2, <2>6, <2>7
       DEF Next, Output, console_on_extended_scancode, screen_scroll_view,
           screen_mouse_set_cell, text, vars
<1>2. IInv /\ [Next]_vars => [Kept]_vars
  BY <1>1
<1>. QED BY <1>2, Invariance, PTL DEF Spec, HistoryKept
=============================================================================
