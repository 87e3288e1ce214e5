------------------------------ MODULE Terminal ------------------------------
(***************************************************************************)
(* The text console of terminal.c: cells in kernel memory, mirrored to the *)
(* graphical screen only while the kernel's own page tables are loaded,    *)
(* because a process's would turn the pixels into writes to its memory.    *)
(***************************************************************************)
EXTENDS Integers, Sequences, SequencesExt

CONSTANTS
  Rows, Columns,  \* VGA_HEIGHT, VGA_WIDTH
  TAB,            \* tab stops (4)
  Chars,          \* printable characters
  LENGTH          \* bound on the characters written

VARIABLE s

BLANK == " "
UNPRINTABLE == "?"
Cells == (1..Rows) \X (1..Columns)
Clear == [c \in Cells |-> BLANK]

(* row and column are from 0 as in the code.  page is what the output      *)
(* amounts to (see Reference), late the cells written since the last       *)
(* refresh while the screen could not be drawn.                            *)
terminal_init ==
  [cells |-> Clear, shown |-> Clear, row |-> 0, column |-> 0, automatic_wrap |-> FALSE, kernel |-> TRUE,
   page |-> [lines |-> <<<<>>>>, at |-> 0], late |-> {}, written |-> 0]

terminal_graphical_refresh(t) == IF t.kernel THEN [t EXCEPT !.shown = t.cells, !.late = {}] ELSE t
(* store_cell and graphical_cell.                                          *)
store_cell(t, y, x, value) ==
  LET c == <<y + 1, x + 1>>
  IN  [t EXCEPT !.cells[c] = value, !.shown[c] = IF t.kernel THEN value ELSE @,
                !.late = IF t.kernel THEN @ \ {c} ELSE @ \cup {c}]
Stored(t, cells) ==
  terminal_graphical_refresh([t EXCEPT !.cells = cells, !.late = IF t.kernel THEN @ ELSE Cells])

newline(t) ==
  LET scrolled == [c \in Cells |-> IF c[1] = Rows THEN BLANK ELSE t.cells[<<c[1] + 1, c[2]>>]]
  IN  IF t.row + 1 < Rows THEN [t EXCEPT !.column = 0, !.row = @ + 1]
      ELSE Stored([t EXCEPT !.column = 0, !.row = Rows - 1], scrolled)

Put(t, ch) ==
  LET stored == [store_cell(t, t.row, t.column, IF ch \in Chars \cup {BLANK} THEN ch ELSE UNPRINTABLE)
                 EXCEPT !.automatic_wrap = FALSE, !.column = @ + 1]
  IN  IF stored.column = Columns THEN [newline(stored) EXCEPT !.automatic_wrap = TRUE] ELSE stored
terminal_write(t, ch) ==
  CASE ch = "\f" -> Stored([t EXCEPT !.row = 0, !.column = 0], Clear)
    [] ch = "\n" -> [newline(t) EXCEPT !.automatic_wrap = FALSE]
    [] ch = "\r" -> [t EXCEPT !.column = 0, !.automatic_wrap = FALSE]
    [] ch = "\t" -> FoldLeft(LAMBDA a, i : Put(a, BLANK), t, [i \in 1..(TAB - (t.column % TAB)) |-> i])
    [] OTHER -> Put(t, ch)
terminal_write_line(t) == [(IF t.automatic_wrap THEN t ELSE newline(t)) EXCEPT !.automatic_wrap = FALSE]
terminal_backspace(t) ==
  IF t.column = 0 THEN t ELSE store_cell([t EXCEPT !.column = @ - 1], t.row, t.column - 1, BLANK)

-----------------------------------------------------------------------------
(* What the output amounts to: a page of lines without end, of which the   *)
(* terminal shows the last Rows.                                           *)
Replaced(l, i, c) == IF i <= Len(l) THEN [l EXCEPT ![i] = c] ELSE Append(l, c)
Broken(p) == [lines |-> Append(p.lines, <<>>), at |-> 0]
Typed(p, c) ==
  LET n == Len(p.lines)
      q == [lines |-> [p.lines EXCEPT ![n] = Replaced(@, p.at + 1, c)], at |-> p.at + 1]
  IN  IF q.at = Columns THEN Broken(q) ELSE q
Reference(p, ch) ==
  CASE ch = "\f" -> [lines |-> <<<<>>>>, at |-> 0]
    [] ch = "\n" -> Broken(p)
    [] ch = "\r" -> [p EXCEPT !.at = 0]
    [] ch = "\t" -> FoldLeft(LAMBDA a, i : Typed(a, BLANK), p, [i \in 1..(TAB - (p.at % TAB)) |-> i])
    [] OTHER -> Typed(p, IF ch \in Chars THEN ch ELSE UNPRINTABLE)
Erased(p) ==
  IF p.at = 0 THEN p
  ELSE [lines |-> [p.lines EXCEPT ![Len(p.lines)] = Replaced(@, p.at, BLANK)], at |-> p.at - 1]

Init == s = terminal_init
Bytes == Chars \cup {"\f", "\n", "\r", "\t", "control"}
Write == \E ch \in Bytes : s' = [terminal_write(s, ch) EXCEPT !.page = Reference(@, ch), !.written = @ + 1]
(* The line's own text has been written; its end adds no empty line after  *)
(* one that filled the row.                                                *)
WriteLine == s' = [terminal_write_line(s) EXCEPT !.page = IF s.automatic_wrap THEN @ ELSE Broken(@), !.written = @ + 1]
Backspace == s' = [terminal_backspace(s) EXCEPT !.page = Erased(@), !.written = @ + 1]
(* A process runs, or the kernel is back and refreshes (see the shell).    *)
Enter == s.kernel /\ s' = [s EXCEPT !.kernel = FALSE]
Leave == ~s.kernel /\ s' = [s EXCEPT !.kernel = TRUE]
Refresh == s' = terminal_graphical_refresh(s)
Next == (s.written < LENGTH /\ (Write \/ WriteLine \/ Backspace)) \/ Enter \/ Leave \/ Refresh

(* The cells are the last rows of the output, laid out with wraps, tabs,   *)
(* carriage returns, line ends and rubbed-out characters, and the cursor   *)
(* is where the next character belongs.                                    *)
ConsoleShowsTheOutput ==
  LET n == Len(s.page.lines)
      first == IF n > Rows THEN n - Rows ELSE 0
      cell(c) == LET l == s.page.lines[first + c[1]] IN IF c[2] <= Len(l) THEN l[c[2]] ELSE BLANK
  IN  /\ s.row < Rows /\ s.column < Columns
      /\ s.row = n - first - 1 /\ s.column = s.page.at
      /\ \A c \in Cells : s.cells[c] = IF c[1] > n - first THEN BLANK ELSE cell(c)
(* The screen lags behind the cells only where a process's page tables     *)
(* were loaded, and a refresh brings it up to date.                        *)
ScreenLagsOnlyUnderProcesses == \A c \in Cells : s.shown[c] # s.cells[c] => c \in s.late
=============================================================================
