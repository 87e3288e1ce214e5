----------------------------- MODULE TextEditor -----------------------------
(***************************************************************************)
(* The two full-screen editors: MakoBox's (src/makobox.c, applet_edit) and *)
(* the one inside xterm (apps/xterm/xterm.c, editor_key).  They hold a     *)
(* document in a fixed grid of lines and write it back as a whole.  The    *)
(* line editors of the two programs follow at the end.                     *)
(*                                                                         *)
(* A line is a sequence of characters, a file a sequence of characters and *)
(* NL.  Rendering is modelled by the one thing it changes, the first row   *)
(* shown.  s.kept is the document at the last load or save (a history      *)
(* variable).                                                              *)
(***************************************************************************)
EXTENDS Integers, Sequences, SequencesExt, TLC

CONSTANTS Which,      \* "makobox" or "xterm"
          Char, NL,
          LINES,      \* EDITOR_MAX_LINES
          CAPACITY,   \* EDITOR_LINE_CAPACITY, LINE_CAPACITY, INPUT_CAPACITY: with the final NUL
          ROWS,       \* rows of text on the screen
          Files,      \* what the file may hold when it is opened
          DEPTH       \* HISTORY_DEPTH, COMMAND_HISTORY

VARIABLE s

makobox == Which = "makobox"

(***************************************************************************)
(* Between file and lines.  What is beyond the capacity is dropped.        *)
(***************************************************************************)
Bug_Take(a, c) ==
  IF Len(a.done) = LINES THEN a
  ELSE IF c = NL THEN [done |-> Append(a.done, a.line), line |-> <<>>]
  ELSE IF Len(a.line) + 2 < CAPACITY THEN [a EXCEPT !.line = Append(@, c)] ELSE a
Take(a, c) ==
  IF Len(a.done) = LINES THEN a
  ELSE IF c = NL THEN [done |-> Append(a.done, a.line), line |-> <<>>]
  ELSE IF Len(a.line) + 1 < CAPACITY THEN [a EXCEPT !.line = Append(@, c)] ELSE a
Split(text) == FoldLeft(Take, [done |-> <<>>, line |-> <<>>], text)

(* A last line without NL: MakoBox takes it when it is not empty, xterm    *)
(* always.                                                                 *)
editor_load(text) ==
  LET a == Split(text)
      all == IF Len(a.done) < LINES /\ a.line # <<>> THEN Append(a.done, a.line) ELSE a.done
  IN  IF all = <<>> THEN <<<<>>>> ELSE all
editor_open(text) ==
  LET a == Split(text) IN IF Len(a.done) < LINES THEN Append(a.done, a.line) ELSE a.done
Loaded(text) == IF makobox THEN editor_load(text) ELSE editor_open(text)
Joined(lines) == FlattenSeq([i \in 1..Len(lines) |-> Append(lines[i], NL)])

Closed == [active |-> FALSE, lines |-> <<<<>>>>, row |-> 1, col |-> 0, top |-> 1, dirty |-> FALSE, kept |-> <<<<>>>>]
Init == \E f \in Files : s = Closed @@ [file |-> f]

(* The first row shown follows the cursor: MakoBox at every rendering.     *)
editor_render(k) ==
  [k EXCEPT !.top = IF k.row < @ THEN k.row ELSE IF k.row >= @ + ROWS THEN k.row - ROWS + 1 ELSE @]
Shown(k) == IF makobox THEN editor_render(k) ELSE k

Open ==
  /\ ~s.active
  /\ LET l == Loaded(s.file)
     IN  s' = Shown([Closed EXCEPT !.active = TRUE, !.lines = l, !.kept = l] @@ [file |-> s.file])

(* The write is of the whole text or refused (no room, no handle).         *)
editor_save(k, ok) ==
  IF ok THEN [k EXCEPT !.file = Joined(k.lines), !.dirty = FALSE, !.kept = k.lines] ELSE k
Save(ok) == s.active /\ s' = Shown(editor_save(s, ok))
(* MakoBox saves what was changed, xterm discards it.                      *)
Quit(ok) ==
  /\ s.active
  /\ s' = Closed @@ [file |-> IF makobox /\ s.dirty THEN editor_save(s, ok).file ELSE s.file]

(***************************************************************************)
(* Editing.                                                                *)
(***************************************************************************)
Line(k) == k.lines[k.row]
Changed(k, lines, row, col) ==
  [k EXCEPT !.lines = lines, !.row = row, !.col = col, !.dirty = TRUE]

editor_insert_char(k, c) ==
  IF Len(Line(k)) + 1 >= CAPACITY THEN k
  ELSE Changed(k, [k.lines EXCEPT ![k.row] = InsertAt(@, k.col + 1, c)], k.row, k.col + 1)

editor_split_line(k) ==
  LET l == Line(k)
      left == SubSeq(l, 1, k.col)
      right == SubSeq(l, k.col + 1, Len(l))
  IN  IF Len(k.lines) >= LINES THEN k
      ELSE Changed(k, InsertAt([k.lines EXCEPT ![k.row] = left], k.row + 1, right), k.row + 1, 0)

(* Row r + 1 is appended to row r if the result fits.                      *)
Fits(k, r) == Len(k.lines[r]) + Len(k.lines[r + 1]) + 1 < CAPACITY
Join(k, r) == RemoveAt([k.lines EXCEPT ![r] = @ \o k.lines[r + 1]], r + 1)

editor_backspace(k) ==
  IF k.col > 0 THEN Changed(k, [k.lines EXCEPT ![k.row] = RemoveAt(@, k.col)], k.row, k.col - 1)
  ELSE IF k.row = 1 \/ ~Fits(k, k.row - 1) THEN k
  ELSE Changed(k, Join(k, k.row - 1), k.row - 1, Len(k.lines[k.row - 1]))

(* MakoBox moves right and deletes backwards; xterm has its own code.      *)
editor_delete_forward(k) ==
  IF k.col < Len(Line(k)) THEN editor_backspace([k EXCEPT !.col = @ + 1])
  ELSE IF k.row < Len(k.lines) THEN editor_backspace([k EXCEPT !.row = @ + 1, !.col = 0]) ELSE k
DeleteKey(k) ==
  IF k.col < Len(Line(k)) THEN Changed(k, [k.lines EXCEPT ![k.row] = RemoveAt(@, k.col + 1)], k.row, k.col)
  ELSE IF k.row < Len(k.lines) /\ Fits(k, k.row) THEN Changed(k, Join(k, k.row), k.row, k.col) ELSE k
Delete(k) == IF makobox THEN editor_delete_forward(k) ELSE DeleteKey(k)

(* xterm scrolls with the four arrows only, each in its direction.         *)
At(k, row, col) ==
  LET top == IF row < k.row THEN IF row < k.top THEN row ELSE k.top
             ELSE IF row >= k.top + ROWS THEN row - ROWS + 1 ELSE k.top
  IN  [k EXCEPT !.row = row, !.col = IF col > Len(k.lines[row]) THEN Len(k.lines[row]) ELSE col,
                !.top = IF makobox THEN @ ELSE top]
Arrow(k, key) ==
  CASE key = "up" -> IF k.row > 1 THEN At(k, k.row - 1, k.col) ELSE k
    [] key = "down" -> IF k.row < Len(k.lines) THEN At(k, k.row + 1, k.col) ELSE k
    [] key = "left" -> IF k.col > 0 THEN [k EXCEPT !.col = @ - 1]
                       ELSE IF k.row > 1 THEN At(k, k.row - 1, CAPACITY) ELSE k
    [] key = "right" -> IF k.col < Len(Line(k)) THEN [k EXCEPT !.col = @ + 1]
                        ELSE IF k.row < Len(k.lines) THEN At(k, k.row + 1, 0) ELSE k
    [] key = "home" -> [k EXCEPT !.col = 0]
    [] key = "end" -> [k EXCEPT !.col = Len(Line(k))]

editor_key ==
  /\ s.active
  /\ \/ \E c \in Char : s' = Shown(editor_insert_char(s, c))
     \/ s' \in {Shown(editor_split_line(s)), Shown(editor_backspace(s)), Shown(Delete(s))}
     \/ \E key \in {"up", "down", "left", "right", "home", "end"} : s' = Shown(Arrow(s, key))

Next == Open \/ editor_key \/ \E ok \in BOOLEAN : Save(ok) \/ Quit(ok)

(***************************************************************************)
(* Properties.                                                             *)
(***************************************************************************)
(* Closing an editor that shows no unsaved changes loses nothing: after    *)
(* any mix of typing, joining, splitting, deleting and failed saves, a     *)
(* document that is not marked as modified is the one last loaded or       *)
(* written (modified, editor_dirty).                                       *)
CleanMeansSaved == ~s.dirty => s.lines = s.kept

(* What MakoBox's editor writes it reads back: no document it can hold is  *)
(* cut or extended by editor_save followed by editor_load.                 *)
SaveThenLoad == makobox => editor_load(Joined(s.lines)) = s.lines

(* The cursor is on a character or just after the last one of an existing  *)
(* line, inside the arrays, and MakoBox shows its row.                     *)
CursorInText ==
  /\ Len(s.lines) \in 1..LINES /\ s.row \in 1..Len(s.lines) /\ s.col \in 0..Len(Line(s))
  /\ \A i \in 1..Len(s.lines) : Len(s.lines[i]) < CAPACITY
  /\ makobox => s.row \in s.top..s.top + ROWS - 1

(***************************************************************************)
(* The line editors in front of the two shells: MakoBox's (makobox_shell,  *)
(* a ring of HISTORY_DEPTH lines and a draft) and xterm's (terminal_key,   *)
(* an array that shifts, a cursor).  They are never at work together with  *)
(* the editor of the same program: LineInit and LineNext are their         *)
(* behaviour.  What a command does is left out: other modules have it.     *)
(* s.ran is the sequence of the last DEPTH commands, oldest first (a       *)
(* history variable).                                                      *)
(***************************************************************************)
LineInit ==
  s = [input |-> <<>>, cursor |-> 0, ran |-> <<>>, ring |-> [i \in 0..DEPTH - 1 |-> <<>>],
       count |-> 0, next |-> 0, at |-> 0, draft |-> <<>>]

(***************************************************************************)
(* MakoBox: `at' is history_offset, 0 for the line being typed.  The       *)
(* counter history_next only matters modulo the depth and whether it has   *)
(* reached it, so it is kept below twice the depth.                        *)
(***************************************************************************)
Counted(n) == IF n + 1 = 2 * DEPTH THEN DEPTH ELSE n + 1
history_record(k) ==
  [k EXCEPT !.ring[k.next % DEPTH] = k.input, !.next = Counted(@), !.count = IF @ < DEPTH THEN @ + 1 ELSE @]
applet_history(k) ==
  [i \in 1..k.count |-> k.ring[((IF k.next >= k.count THEN k.next - k.count ELSE 0) + i - 1) % DEPTH]]

(* Up keeps the draft the first time; down at the draft shows it again.    *)
Recall(k, up) ==
  LET d == IF up /\ k.at = 0 THEN k.input ELSE k.draft
      at == IF up THEN IF k.at < k.count THEN k.at + 1 ELSE k.at ELSE IF k.at > 0 THEN k.at - 1 ELSE 0
  IN  IF k.count = 0 THEN k
      ELSE [k EXCEPT !.draft = d, !.at = at, !.input = IF at > 0 THEN k.ring[(k.next - at) % DEPTH] ELSE d]

(***************************************************************************)
(* xterm: `at' is history_index, count for the line being typed.           *)
(***************************************************************************)
remember_command(k) ==
  IF k.count < DEPTH THEN [k EXCEPT !.ring[k.count] = k.input, !.count = @ + 1]
  ELSE [k EXCEPT !.ring = [i \in 0..DEPTH - 1 |-> IF i = DEPTH - 1 THEN k.input ELSE k.ring[i + 1]]]
reset_input(k) == [k EXCEPT !.input = <<>>, !.cursor = 0, !.at = IF makobox THEN 0 ELSE k.count, !.draft = <<>>]
Show(k, at, line) == [k EXCEPT !.at = at, !.input = line, !.cursor = Len(line)]
recall_older(k) == IF k.count = 0 \/ k.at = 0 THEN k ELSE Show(k, k.at - 1, k.ring[k.at - 1])
recall_newer(k) ==
  IF k.at >= k.count THEN k
  ELSE Show(k, k.at + 1, IF k.at + 1 >= k.count THEN <<>> ELSE k.ring[k.at + 1])

(***************************************************************************)
(* Keys.                                                                   *)
(***************************************************************************)
Place(k) == IF makobox THEN Len(k.input) ELSE k.cursor
input_insert(k, c) ==
  IF Len(k.input) + 1 >= CAPACITY THEN k
  ELSE [k EXCEPT !.input = InsertAt(@, Place(k) + 1, c), !.cursor = IF makobox THEN 0 ELSE @ + 1]
input_backspace(k) ==
  IF Place(k) = 0 THEN k
  ELSE [k EXCEPT !.input = RemoveAt(@, Place(k)), !.cursor = IF makobox THEN 0 ELSE @ - 1]
input_tab(k) == FoldLeft(LAMBDA a, i : input_insert(a, CHOOSE c \in Char : TRUE), k, <<1, 2, 3, 4>>)

(* Enter: an empty line is neither run nor remembered.                     *)
Execute ==
  LET k == IF s.input = <<>> THEN s
           ELSE [(IF makobox THEN history_record(s) ELSE remember_command(s))
                   EXCEPT !.ran = LET all == Append(s.ran, s.input)
                                  IN  IF Len(all) > DEPTH THEN Tail(all) ELSE all]
  IN  s' = reset_input(k)
Interrupt == ~makobox /\ s' = reset_input(s)
Type(c) == s' = input_insert(s, c)
Backspace == s' = input_backspace(s)
Tab == ~makobox /\ s' = input_tab(s)
Up == s' = IF makobox THEN Recall(s, TRUE) ELSE recall_older(s)
Down == s' = IF makobox THEN Recall(s, FALSE) ELSE recall_newer(s)
Move(step) == ~makobox /\ s.cursor + step \in 0..Len(s.input) /\ s' = [s EXCEPT !.cursor = @ + step]

LineNext ==
  \/ Execute \/ Interrupt \/ Backspace \/ Tab \/ Up \/ Down
  \/ \E c \in Char : Type(c)
  \/ \E step \in {-1, 1} : Move(step)

(* The history is the last commands that were run, in their order, each    *)
(* whole, also after the table has filled and wrapped or shifted, and the  *)
(* place of the recall and of the cursor stay inside it and the line       *)
(* (history_record, remember_command, applet_history).                     *)
HistoryIsWhatRan ==
  /\ (IF makobox THEN applet_history(s) ELSE [i \in 1..s.count |-> s.ring[i - 1]]) = s.ran
  /\ s.at \in 0..s.count /\ s.cursor \in 0..Len(s.input) /\ Len(s.input) < CAPACITY
=============================================================================
