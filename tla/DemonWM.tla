------------------------------- MODULE DemonWM ------------------------------
(***************************************************************************)
(* The window manager (Desktop/demonwm/demonwm.cc): the table of managed   *)
(* clients and their frames, moving, resizing, maximizing and closing      *)
(* them, the panel and the launcher with its search.                       *)
(*                                                                         *)
(* One step is one turn of run(): one event of the display server handled  *)
(* to the end.  Between two events applications map windows and end.       *)
(* s.live and s.frames are the client windows and the frames the server    *)
(* has; a frame's id is its number.  Sizes are "normal", "full" or         *)
(* "dragged"; colours, text and positions are left out.                    *)
(***************************************************************************)
EXTENDS Integers, Sequences, FiniteSets, SequencesExt

CONSTANTS Window, Owner,   \* client windows and the application of each
          max_clients,
          Names,           \* kAppNames, the names of the applications
          Pinned,          \* kPinnedIndices
          COLUMNS,         \* kGridCols
          Letter, SEARCH,  \* letters of the search and kSearchMax
          FRAMES           \* bound: frames made

VARIABLE s

None == 0
Apps == 1..Len(Names)

Init ==
  s = [live |-> {}, mapped |-> {}, frames |-> {}, made |-> 0, clients |-> <<>>, drag |-> None, resize |-> None,
       grab |-> None, open |-> FALSE, selected |-> 0, text |-> <<>>, visible |-> Apps, launched |-> None]

findClient(window) == {i \in 1..Len(s.clients) : window \in {s.clients[i].client, s.clients[i].frame}}
managedWindow(window) ==
  IF findClient(window) = {} THEN window ELSE s.clients[CHOOSE i \in findClient(window) : TRUE].frame

(***************************************************************************)
(* The launcher.  visible is the set of applications whose name contains   *)
(* the text, in the order of the names.                                    *)
(***************************************************************************)
containsIgnoreCase(name, text) ==
  \E start \in 0..Len(name) - Len(text) : \A i \in 1..Len(text) : name[start + i] = text[i]
updateFilter(k) ==
  LET seen == {a \in Apps : containsIgnoreCase(Names[a], k.text)}
      last == IF seen = {} THEN 0 ELSE Cardinality(seen) - 1
  IN  [k EXCEPT !.visible = seen, !.selected = IF @ < Cardinality(seen) THEN @ ELSE last]

Nth(S, n) == SetToSortSeq(S, <)[n + 1]
launch(k, app) == [k EXCEPT !.launched = app]

toggleLauncher(k) ==
  IF k.open THEN [k EXCEPT !.open = FALSE]
  ELSE updateFilter([k EXCEPT !.open = TRUE, !.selected = 0, !.text = <<>>])
closeLauncher(k) == [k EXCEPT !.open = FALSE]

panelClick(button) == s' = IF button THEN toggleLauncher(s) ELSE s
(* A cell of the grid, else one of the pinned row, else nothing.           *)
launcherClick(grid, slot) ==
  /\ s.open
  /\ IF grid THEN slot < Cardinality(s.visible) /\ s' = closeLauncher(launch(s, Nth(s.visible, slot)))
     ELSE slot < Cardinality(Pinned) /\ s' = closeLauncher(launch(s, Nth(Pinned, slot)))

Typed(letter) == IF Len(s.text) < SEARCH THEN updateFilter([s EXCEPT !.text = Append(@, letter)]) ELSE s
Backspace == updateFilter([s EXCEPT !.text = IF @ = <<>> THEN @ ELSE Front(@)])
Enter == closeLauncher(IF s.visible = {} THEN s ELSE launch(s, Nth(s.visible, s.selected)))
Moved(key) ==
  LET at == s.selected
      n == Cardinality(s.visible)
      to == CASE key = "left" -> IF at % COLUMNS > 0 THEN at - 1 ELSE at
              [] key = "right" -> IF at % COLUMNS < COLUMNS - 1 /\ at + 1 < n THEN at + 1 ELSE at
              [] key = "up" -> IF at >= COLUMNS THEN at - COLUMNS ELSE at
              [] key = "down" -> IF at + COLUMNS < n THEN at + COLUMNS ELSE at
  IN  [s EXCEPT !.selected = to]
handleKey ==
  \/ s' = toggleLauncher(s)                  \* Super
  \/ ~s.open /\ s' = launch(s, 1)            \* T, the terminal
  \/ s.open /\ \/ s' \in {closeLauncher(s), Enter, Backspace}
               \/ \E key \in {"left", "right", "up", "down"} : s' = Moved(key)
               \/ \E letter \in Letter : s' = Typed(letter)

(***************************************************************************)
(* Clients.                                                                *)
(***************************************************************************)
(* What the server does with a window that goes: its grab goes with it.    *)
Destroyed(k, gone) ==
  [k EXCEPT !.live = @ \ gone, !.mapped = @ \ gone, !.frames = @ \ gone,
            !.grab = IF @ \in gone THEN None ELSE @]

(* The server answers XGetWindowAttributes only for a window it has, and   *)
(* may refuse the frame: the manager keeps the entry.                      *)
manage(window) ==
  /\ window \in s.live /\ s.made < FRAMES
  /\ IF findClient(window) # {} \/ Len(s.clients) >= max_clients THEN UNCHANGED s
     ELSE LET frame == 101 + s.made
              entry == [client |-> window, frame |-> frame, size |-> "normal", orig |-> "normal",
                        maximized |-> FALSE]
          IN  \E made \in BOOLEAN :
                s' = [s EXCEPT !.clients = Append(@, entry), !.made = @ + 1,
                               !.frames = IF made THEN @ \cup {frame} ELSE @,
                               !.mapped = IF made THEN @ \cup {window} ELSE @]

adoptExistingWindows == \E window \in s.mapped : manage(window)

Bug_closeClient(i) ==
  LET e == s.clients[i]
      n == Len(s.clients)
      k == Destroyed(s, {w \in Window : Owner[w] = Owner[e.client]} \cup {e.frame})
  IN  s' = [k EXCEPT !.clients = SubSeq([s.clients EXCEPT ![i] = s.clients[n]], 1, n - 1)]
closeClient(i) ==
  LET e == s.clients[i]
      n == Len(s.clients)
      killed == IF e.client \in s.live THEN {w \in Window : Owner[w] = Owner[e.client]} ELSE {}
      k == Destroyed(s, killed \cup {e.frame})
  IN  s' = [k EXCEPT !.drag = IF @ = e.frame THEN None ELSE @,
                     !.resize = IF @ = e.frame THEN None ELSE @,
                     !.clients = SubSeq([s.clients EXCEPT ![i] = s.clients[n]], 1, n - 1)]

toggleMaximize(i) ==
  LET e == s.clients[i]
  IN  IF e.maximized
      THEN s' = [s EXCEPT !.clients[i] = [e EXCEPT !.size = e.orig, !.maximized = FALSE]]
      ELSE /\ e.frame \in s.frames
           /\ s' = [s EXCEPT !.clients[i] = [e EXCEPT !.orig = e.size, !.size = "full", !.maximized = TRUE]]

XGrabPointer(k, window) == IF window \in k.mapped \cup k.frames THEN [k EXCEPT !.grab = window] ELSE k
XUngrabPointer(k) == [k EXCEPT !.grab = None]

(* A press on a client's lower right corner resizes, anything else moves   *)
(* the frame; the press is for a window the server had when it sent it.    *)
beginResize(i, window) ==
  s' = XGrabPointer([s EXCEPT !.resize = s.clients[i].frame], window)
beginDrag(window, left) ==
  LET target == managedWindow(window)
  IN  IF left /\ target \in s.live \cup s.frames THEN s' = XGrabPointer([s EXCEPT !.drag = target], window)
      ELSE UNCHANGED s
ButtonPress ==
  \/ \E button \in BOOLEAN : panelClick(button)
  \/ \E grid \in BOOLEAN, slot \in 0..Len(Names) : launcherClick(grid, slot)
  \/ \E i \in 1..Len(s.clients) : closeClient(i) \/ toggleMaximize(i) \/ beginResize(i, s.clients[i].client)
  \/ \E window \in Window \cup s.frames, left \in BOOLEAN : beginDrag(window, left)

(* Motion only moves what the gesture names; a resize gives up when its    *)
(* client is gone.                                                         *)
continueDrag == s.resize = None /\ s.drag # None /\ UNCHANGED s
continueResize ==
  /\ s.resize # None
  /\ LET at == findClient(s.resize)
     IN  IF at = {} THEN s' = [s EXCEPT !.resize = None]
         ELSE \E i \in at : s' = [s EXCEPT !.clients[i].size = "dragged", !.clients[i].maximized = FALSE]

endDrag(k) == IF k.drag = None THEN k ELSE [XUngrabPointer(k) EXCEPT !.drag = None]
endResize(k) == IF k.resize = None THEN k ELSE [XUngrabPointer(k) EXCEPT !.resize = None]
ButtonRelease == s' = endResize(endDrag(s))
UnmapNotify(window) ==
  LET k == IF s.drag = window THEN endDrag(s) ELSE s
  IN  s' = IF k.resize = window THEN endResize(k) ELSE k

(***************************************************************************)
(* Applications: a window appears, or the application ends with all its    *)
(* windows; the manager is not told.                                       *)
(***************************************************************************)
Create(window) == window \notin s.live /\ s' = [s EXCEPT !.live = @ \cup {window}]
Exit(window) == window \in s.live /\ s' = Destroyed(s, {w \in Window : Owner[w] = Owner[window]})

run ==
  \/ \E window \in Window : manage(window) \/ UnmapNotify(window)
  \/ ButtonPress \/ handleKey \/ continueDrag \/ continueResize \/ ButtonRelease
  \/ \E frame \in s.frames : UnmapNotify(frame)
Next == run \/ adoptExistingWindows \/ \E window \in Window : Create(window) \/ Exit(window)
Spec == Init /\ [][Next]_s

(* What the theorems assume: the grid has columns.                         *)
DemonWMConstants == COLUMNS \in Nat \ {0} /\ Len(Names) \in Nat

(***************************************************************************)
(* Properties.                                                             *)
(***************************************************************************)
(* The table stays in step with the server while clients are managed,      *)
(* closed in the middle of a gesture, or end unseen: every frame the       *)
(* server has belongs to one entry, no window has two entries, and a       *)
(* gesture names a frame that still has an entry or an unmanaged window    *)
(* (manage, closeClient, beginDrag, beginResize).                          *)
FramesHaveEntries ==
  /\ s.frames \subseteq {s.clients[i].frame : i \in 1..Len(s.clients)}
  /\ \A i, j \in 1..Len(s.clients) : i # j => s.clients[i].client # s.clients[j].client
  /\ {s.drag, s.resize} \subseteq {None} \cup Window \cup {s.clients[i].frame : i \in 1..Len(s.clients)}

(* Enter launches the application that is highlighted: typing, deleting    *)
(* and moving in any order never leave the selection past the list the     *)
(* search shows (updateFilter, handleKey).                                 *)
SelectionIsVisible == s.open /\ s.visible # {} => s.selected < Cardinality(s.visible)
=============================================================================
