----------------------------- MODULE Compositor -----------------------------
(***************************************************************************)
(* The desktop compositor (rust/compositor/src/main.rs): the window table, *)
(* the messages DemonX sends it, pointer gestures, keyboard shortcuts, the *)
(* launcher, and what a frame shows where.                                 *)
(*                                                                         *)
(* The screen is a small grid: a widget of the panel, the taskbar or the   *)
(* launcher is one cell of it, and the lengths of the code are CONSTANTS   *)
(* in cells.  Stacking is the sequence s.stack, bottom first, instead of   *)
(* the ever growing z of the code.  Every window is a DemonX window, the   *)
(* only kind the compositor has a client for.  Shadows, colours, icons,    *)
(* text and the cursor, which only says what is highlighted, are left out. *)
(***************************************************************************)
EXTENDS Integers, Sequences, FiniteSets, SequencesExt

CONSTANTS SCREEN_WIDTH, SCREEN_HEIGHT, TITLE_HEIGHT, RESERVED_TOP, RESERVED_BOTTOM,
          SNAP_DISTANCE, RESIZE_GRIP, MIN_WINDOW, MIN_MOVE,   \* least width and height
          WINDOW_LIMIT, WORKSPACES, CELLS,   \* table slots, desktops, launcher entries
          WORD,       \* 2^32, the modulus of the code's u32 arithmetic
          Creates,    \* CREATE messages: [id, title, x, y, w, h, sw, sh, mapped]: mapped says
                      \* whether the kernel could map the surface
          Moves,      \* geometries of MOVE messages: [x, y, w, h]
          Points,     \* places the mouse reports: <<x, y>>
          Keys        \* key events: [down, code, ctrl, alt]

VARIABLE s
vars == <<s>>

Slot == 1..WINDOW_LIMIT
Empty == [id |-> 0]
None == 0
Lesser(a, b) == IF a < b THEN a ELSE b
Greater(a, b) == IF a > b THEN a ELSE b
Wrap(n) == n % WORD

NoDrag == [id |-> None, gx |-> 0, gy |-> 0]
NoResize == [id |-> None, gx |-> 0, gy |-> 0, w |-> 0, h |-> 0]

Init ==
  s = [table |-> [i \in Slot |-> Empty], stack |-> <<>>, focus |-> None,
       drag |-> NoDrag, resize |-> NoResize,
       ws |-> 0, launcher |-> FALSE, selection |-> 0,
       suppressed |-> "none", alive |-> TRUE]

(***************************************************************************)
(* The table.                                                              *)
(***************************************************************************)
Live(k) == {i \in Slot : k.table[i] # Empty}
Ids(k) == {k.table[i].id : i \in Live(k)}
find_slot(k, id) == CHOOSE i \in Live(k) : k.table[i].id = id
Shown(k, i) == i \in Live(k) /\ ~k.table[i].min /\ k.table[i].ws = k.ws

(* The slot of S stacked highest, and None for the empty set.              *)
Topmost(k, S) ==
  IF S = {} THEN None
  ELSE CHOOSE i \in S : \A j \in S : \E a, b \in DOMAIN k.stack :
         k.stack[a] = k.table[j].id /\ k.stack[b] = k.table[i].id /\ a <= b
find_top_slot(k) == Topmost(k, {i \in Slot : Shown(k, i)})
FocusTop(k) ==
  [k EXCEPT !.focus = IF find_top_slot(k) = None THEN None ELSE k.table[find_top_slot(k)].id]

(* A window is in the stack once.                                          *)
Without(q, id) ==
  LET at == CHOOSE i \in DOMAIN q : q[i] = id
  IN  IF id \in Range(q) THEN [i \in 1..(Len(q) - 1) |-> q[IF i < at THEN i ELSE i + 1]] ELSE q
Lift(k, id) == [k EXCEPT !.stack = Append(Without(@, id), id)]
Raise(k, id) == [Lift(k, id) EXCEPT !.table[find_slot(k, id)].min = FALSE, !.focus = id]
Drop(k, id) == [k EXCEPT !.table[find_slot(k, id)] = Empty,
                         !.stack = Without(@, id)]

(***************************************************************************)
(* Geometry: where chrome is, which window is hit, and the transform from  *)
(* a window to the surface of its client.                                  *)
(***************************************************************************)
in_launcher_button(p) == p[2] < RESERVED_TOP /\ p[1] = 0
quick_launch_at(p) == IF p[2] < RESERVED_TOP /\ p[1] \in 1..CELLS THEN {p[1] - 1} ELSE {}
workspace_dot_at(p) ==
  IF p[2] < RESERVED_TOP /\ p[1] - CELLS - 1 \in 0..(WORKSPACES - 1) THEN {p[1] - CELLS - 1}
  ELSE {}
launcher_cell_at(p) == IF p[1] = 0 /\ p[2] - RESERVED_TOP \in 0..(CELLS - 1)
                       THEN {p[2] - RESERVED_TOP} ELSE {}
(* Taskbar items stand in slot order, the windows of the desktop only.     *)
taskbar_item_at(k, p) ==
  {k.table[i].id : i \in {j \in Live(k) :
     /\ p[2] >= SCREEN_HEIGHT - RESERVED_BOTTOM /\ k.table[j].ws = k.ws
     /\ p[1] = Cardinality({e \in Live(k) : e < j /\ k.table[e].ws = k.ws})}}

decoration_top(w) == Greater(w.y - TITLE_HEIGHT, 0)
InTitle(w, p) == /\ p[1] >= w.x /\ p[1] < Wrap(w.x + w.w)
                 /\ p[2] >= decoration_top(w) /\ p[2] < w.y
InBody(w, p) == /\ p[1] >= w.x /\ p[1] < Wrap(w.x + w.w)
                /\ p[2] >= w.y /\ p[2] < Wrap(w.y + w.h)
decoration_hit_at(k, p) == Topmost(k, {i \in Slot : Shown(k, i) /\ InTitle(k.table[i], p)})
top_slot_at(k, p) == Topmost(k, {i \in Slot : Shown(k, i) /\ InBody(k.table[i], p)})
hits_resize_corner(w, p) == p[1] + RESIZE_GRIP >= Wrap(w.x + w.w) /\ p[2] + RESIZE_GRIP >= Wrap(w.y + w.h)

title_control_at(w, lx) ==
  CASE lx = w.w - 1 -> "close" [] lx = w.w - 2 -> "maximize"
    [] lx = w.w - 3 -> "minimize" [] OTHER -> "drag"

snap_target(p) ==
  CASE p[2] <= RESERVED_TOP + SNAP_DISTANCE -> "full" [] p[1] <= SNAP_DISTANCE -> "left"
    [] p[1] + SNAP_DISTANCE >= SCREEN_WIDTH -> "right" [] OTHER -> "none"
snap_geometry(t) ==
  LET y == RESERVED_TOP + TITLE_HEIGHT
      half == SCREEN_WIDTH \div 2
  IN  [x |-> IF t = "right" THEN half ELSE 0, y |-> y,
       w |-> CASE t = "left" -> half [] t = "right" -> SCREEN_WIDTH - half [] OTHER -> SCREEN_WIDTH,
       h |-> SCREEN_HEIGHT - RESERVED_BOTTOM - y]
Placed(w, g) == [w EXCEPT !.x = g.x, !.y = g.y, !.w = g.w, !.h = g.h]
Remembered(w) == [w EXCEPT !.restore = [x |-> w.x, y |-> w.y, w |-> w.w, h |-> w.h]]

toggle_maximize(w) ==
  IF w.max THEN [Placed(w, w.restore) EXCEPT !.max = FALSE, !.min = FALSE]
  ELSE [Placed(Remembered(w), snap_geometry("full")) EXCEPT !.max = TRUE, !.min = FALSE]

(* The client's surface, fitted into the window with its aspect ratio.     *)
content_rect(w) ==
  IF w.sw = 0 \/ w.sh = 0 \/ w.w = 0 \/ w.h = 0 THEN [x |-> w.x, y |-> w.y, w |-> w.w, h |-> w.h]
  ELSE LET tall == (w.w * w.sh) \div w.sw
           width == Greater(IF tall > w.h THEN (w.h * w.sw) \div w.sh ELSE w.w, 1)
           height == Greater(Lesser(tall, w.h), 1)
       IN  [x |-> w.x + (w.w - width) \div 2, y |-> w.y + (w.h - height) \div 2,
            w |-> width, h |-> height]

Bug_client_point(w, p) ==
  LET c == content_rect(w)
  IN  IF p[1] < c.x \/ p[2] < c.y \/ p[1] >= c.x + c.w \/ p[2] >= c.y + c.h THEN {}
      ELSE {<<((p[1] - w.x) * w.sw) \div c.w, ((p[2] - w.y) * w.sh) \div c.h>>}
client_point(w, p) ==
  LET c == content_rect(w)
  IN  IF p[1] < c.x \/ p[2] < c.y \/ p[1] >= c.x + c.w \/ p[2] >= c.y + c.h THEN {}
      ELSE {<<((p[1] - c.x) * w.sw) \div c.w, ((p[2] - c.y) * w.sh) \div c.h>>}

(***************************************************************************)
(* Frames.  `composite' paints the windows of the desktop bottom up, each  *)
(* with its title strip, then the panel, the taskbar and the launcher.     *)
(***************************************************************************)
Fits(w) == w.x + w.w <= SCREEN_WIDTH /\ w.y + w.h <= SCREEN_HEIGHT

(* The pixel of the surface that a point of the window's content shows.    *)
SourcePixel(w, p) ==
  LET c == content_rect(w)
      dx == p[1] - c.x
      dy == p[2] - c.y
  IN  IF c.w = w.sw /\ c.h = w.sh THEN <<dx, dy>>
      ELSE <<(dx * w.sw) \div c.w, (dy * w.sh) \div c.h>>

(* A row copied outside the frame is an index out of range: the compositor *)
(* panics and exits.                                                       *)
composite ==
  /\ s.alive /\ \E i \in Slot : Shown(s, i) /\ ~Fits(s.table[i])
  /\ s' = [s EXCEPT !.alive = FALSE]

(***************************************************************************)
(* Messages from DemonX.                                                   *)
(***************************************************************************)
Create(m) ==
  /\ s.alive /\ m.x >= 0 /\ m.y >= 0 /\ m.w >= 1 /\ m.h >= 1 /\ Fits(m)
  /\ m.id \notin Ids(s) /\ Live(s) # Slot
  /\ LET slot == CHOOSE i \in Slot \ Live(s) : \A j \in Slot \ Live(s) : i <= j
     IN  s' = [Lift(s, m.id) EXCEPT
                 !.table[slot] = Remembered(
                   [id |-> m.id, title |-> m.title, x |-> m.x, y |-> m.y, w |-> m.w, h |-> m.h,
                    sw |-> IF m.mapped THEN m.sw ELSE m.w, sh |-> IF m.mapped THEN m.sh ELSE m.h,
                    max |-> FALSE, min |-> FALSE, ws |-> s.ws,
                    restore |-> [x |-> 0, y |-> 0, w |-> 0, h |-> 0]]),
                 !.focus = m.id]

Bug_Close(id) ==
  s.alive /\ id \in Ids(s) /\ s' = Drop(s, id)
Close(id) ==
  /\ s.alive /\ id \in Ids(s)
  /\ s' = IF s.focus = id THEN FocusTop(Drop(s, id)) ELSE Drop(s, id)

Focus(id) == s.alive /\ id \in Ids(s) /\ s' = Raise(s, id)

Move(id, g) ==
  /\ s.alive /\ id \in Ids(s) /\ g.w >= MIN_MOVE[1] /\ g.h >= MIN_MOVE[2] /\ Fits(g)
  /\ s' = [s EXCEPT !.table[find_slot(s, id)] = Placed(@, g)]

Clamped(p) == <<Lesser(Greater(p[1], 0), SCREEN_WIDTH - 1), Lesser(Greater(p[2], 0), SCREEN_HEIGHT - 1)>>

(***************************************************************************)
(* The launcher.  A title is compared in capitals, so that only the first  *)
(* entry ever finds its window; the others start another process.          *)
(***************************************************************************)
Entry == <<"XTERM", "ClassiCube", "Freedoom", "Quake">>
title_text(w) ==
  CASE w.title = "xterm" -> "XTERM" [] w.title = "ClassiCube" -> "CLASSICUBE"
    [] w.title = "Freedoom" -> "FREEDOOM" [] w.title = "Quake" -> "QUAKE" [] OTHER -> "WINDOW"
find_window_by_title(k, t) == {i \in Live(k) : title_text(k.table[i]) = t}

activate_launcher_cell(k, cell) ==
  LET found == find_window_by_title(k, Entry[cell + 1])
      slot == CHOOSE i \in found : \A j \in found : i <= j
  IN  IF found = {} THEN k
      ELSE [Raise(k, k.table[slot].id) EXCEPT !.ws = k.table[slot].ws]

(***************************************************************************)
(* The mouse.                                                              *)
(***************************************************************************)
close_window(k, slot) == FocusTop(Drop(k, k.table[slot].id))

(* Dragging pulls a maximized window out at its remembered size, with the  *)
(* pointer at the same fraction of its width.                              *)
Dragged(k, p) ==
  LET slot == find_slot(k, k.drag.id)
      old == k.table[slot]
      width == Lesser(Greater(old.restore.w, MIN_WINDOW[1]), SCREEN_WIDTH)
      height == Lesser(Greater(old.restore.h, MIN_WINDOW[2]),
                       SCREEN_HEIGHT - RESERVED_BOTTOM - RESERVED_TOP - TITLE_HEIGHT)
      grab == IF old.max THEN (Lesser(Greater(p[1] - old.x, 0), old.w) * width) \div Greater(old.w, 1)
              ELSE k.drag.gx
      w == IF old.max THEN [old EXCEPT !.w = width, !.h = height] ELSE old
      x == Lesser(Greater(p[1] - grab, 0), SCREEN_WIDTH - Lesser(w.w, SCREEN_WIDTH))
      y == Lesser(Greater(p[2] - k.drag.gy, RESERVED_TOP + TITLE_HEIGHT),
                  SCREEN_HEIGHT - RESERVED_BOTTOM - Lesser(w.h, SCREEN_HEIGHT - RESERVED_BOTTOM))
  IN  [k EXCEPT !.table[slot] = [w EXCEPT !.x = x, !.y = y, !.max = FALSE], !.drag.gx = grab]

(* The height is bounded by the room above the taskbar, computed unsigned: *)
(* a window that starts below that line gets a height near 2^32.           *)
Resized(k, p) ==
  LET slot == find_slot(k, k.resize.id)
      w == k.table[slot]
      width == Lesser(Greater(k.resize.w + p[1] - k.resize.gx, MIN_WINDOW[1]), SCREEN_WIDTH - w.x)
      height == Lesser(Greater(k.resize.h + p[2] - k.resize.gy, MIN_WINDOW[2]),
                       SCREEN_HEIGHT - RESERVED_BOTTOM - w.y)
  IN  [k EXCEPT !.table[slot] = [w EXCEPT !.w = Wrap(width), !.h = Wrap(height), !.max = FALSE]]

MouseMove(q) ==
  LET p == Clamped(q)
      k == [s EXCEPT !.selection = IF s.launcher /\ launcher_cell_at(p) # {}
                                   THEN CHOOSE c \in launcher_cell_at(p) : TRUE ELSE @]
  IN  /\ s.alive
      /\ s' = IF k.drag.id # None
              THEN IF k.drag.id \in Ids(k) THEN Dragged(k, p) ELSE [k EXCEPT !.drag = NoDrag]
              ELSE IF k.resize.id # None
              THEN IF k.resize.id \in Ids(k) THEN Resized(k, p) ELSE [k EXCEPT !.resize = NoResize]
              ELSE k

(* What a button press at p is about: the tests of the code, in order.     *)
HitAt(k, p) ==
  CASE in_launcher_button(p) -> <<"button", None>>
    [] quick_launch_at(p) # {} -> <<"quick", CHOOSE c \in quick_launch_at(p) : TRUE>>
    [] k.launcher -> <<"launcher", None>>
    [] workspace_dot_at(p) # {} -> <<"dot", CHOOSE d \in workspace_dot_at(p) : TRUE>>
    [] taskbar_item_at(k, p) # {} -> <<"item", CHOOSE i \in taskbar_item_at(k, p) : TRUE>>
    [] decoration_hit_at(k, p) # None -> <<"title", k.table[decoration_hit_at(k, p)].id>>
    [] top_slot_at(k, p) # None -> <<"body", k.table[top_slot_at(k, p)].id>>
    [] OTHER -> <<"wallpaper", None>>

Minimized(k, id) == FocusTop([k EXCEPT !.table[find_slot(k, id)].min = TRUE])

TitlePressed(k, id, p) ==
  LET slot == find_slot(k, id)
      w == k.table[slot]
      up == [Lift(k, id) EXCEPT !.focus = id]
      control == title_control_at(w, p[1] - w.x)
  IN  CASE control = "close" -> close_window(up, slot)
        [] control = "maximize" -> [up EXCEPT !.table[slot] = toggle_maximize(@)]
        [] control = "minimize" -> [Minimized(up, id) EXCEPT !.drag = NoDrag, !.resize = NoResize]
        [] OTHER -> [up EXCEPT !.drag = [id |-> id, gx |-> p[1] - w.x, gy |-> p[2] - w.y]]

BodyPressed(k, id, p) ==
  LET w == k.table[find_slot(k, id)]
      up == [Lift(k, id) EXCEPT !.focus = id]
  IN  IF hits_resize_corner(w, p)
      THEN [up EXCEPT !.resize = [id |-> id, gx |-> p[1], gy |-> p[2], w |-> w.w, h |-> w.h]]
      ELSE up

ButtonDown(q) ==
  LET p == Clamped(q)
      hit == HitAt(s, p)
  IN  /\ s.alive
      /\ s' = CASE hit[1] = "button" -> [s EXCEPT !.launcher = ~@, !.selection = 0]
                [] hit[1] = "quick" -> [activate_launcher_cell(s, hit[2]) EXCEPT !.launcher = FALSE]
                [] hit[1] = "launcher" ->
                     [IF launcher_cell_at(p) = {} THEN s
                      ELSE activate_launcher_cell(s, CHOOSE c \in launcher_cell_at(p) : TRUE)
                        EXCEPT !.launcher = FALSE]
                [] hit[1] = "dot" -> FocusTop([s EXCEPT !.ws = hit[2]])
                [] hit[1] = "item" ->
                     IF s.focus = hit[2] /\ ~s.table[find_slot(s, hit[2])].min
                     THEN Minimized(s, hit[2]) ELSE Raise(s, hit[2])
                [] hit[1] = "title" -> TitlePressed(s, hit[2], p)
                [] hit[1] = "body" -> BodyPressed(s, hit[2], p)
                [] OTHER -> s

ButtonUp(q) ==
  LET p == Clamped(q)
      k == [s EXCEPT !.drag = NoDrag, !.resize = NoResize]
      t == snap_target(p)
  IN  /\ s.alive
      /\ s' = IF s.drag.id \in Ids(s) /\ t # "none"
              THEN [k EXCEPT !.table[find_slot(k, s.drag.id)] =
                      [Placed(Remembered(@), snap_geometry(t)) EXCEPT !.max = TRUE]]
              ELSE k

(***************************************************************************)
(* The keyboard: shortcuts, then the launcher, then the focused window.    *)
(***************************************************************************)
find_cycle_slot(k) ==
  LET others == {i \in Live(k) : k.table[i].ws = k.ws /\ k.table[i].id # k.focus}
  IN  IF others # {} THEN Topmost(k, others)
      ELSE IF k.focus \in Ids(k) THEN find_slot(k, k.focus) ELSE None

Digit == [d \in {"1", "2", "3"} |-> CASE d = "1" -> 0 [] d = "2" -> 1 [] OTHER -> 2]

Shortcut(e) ==
  CASE e.ctrl /\ e.code \in DOMAIN Digit -> "workspace" [] e.ctrl /\ e.code = "space" -> "launcher"
    [] e.alt /\ e.code = "tab" -> "cycle" [] e.alt /\ e.code \in {"f4", "f9", "f10"} -> "window"
    [] OTHER -> "none"

(* What a pressed shortcut does.                                           *)
Chord(k, e) ==
  CASE Shortcut(e) = "workspace" ->
         [FocusTop([k EXCEPT !.ws = Digit[e.code]]) EXCEPT !.launcher = FALSE]
    [] Shortcut(e) = "launcher" -> [k EXCEPT !.launcher = ~@, !.selection = 0]
    [] Shortcut(e) = "cycle" ->
         [IF find_cycle_slot(k) = None THEN k ELSE Raise(k, k.table[find_cycle_slot(k)].id)
            EXCEPT !.launcher = FALSE]
    [] OTHER ->
         [IF k.focus \notin Ids(k) THEN k
          ELSE CASE e.code = "f4" -> close_window(k, find_slot(k, k.focus))
                 [] e.code = "f9" -> Minimized(k, k.focus)
                 [] OTHER -> [k EXCEPT !.table[find_slot(k, k.focus)] = toggle_maximize(@)]
            EXCEPT !.drag = NoDrag, !.resize = NoResize, !.launcher = FALSE]

LauncherKey(k, e) ==
  CASE e.code = "escape" -> [k EXCEPT !.suppressed = e.code, !.launcher = FALSE]
    [] e.code = "up" -> [k EXCEPT !.selection = (@ + CELLS - 1) % CELLS]
    [] e.code = "down" -> [k EXCEPT !.selection = (@ + 1) % CELLS]
    [] e.code = "enter" -> [activate_launcher_cell(k, k.selection) EXCEPT
                              !.suppressed = e.code, !.launcher = FALSE]
    [] e.code \in DOMAIN Digit ->
         [activate_launcher_cell(k, Digit[e.code]) EXCEPT
            !.suppressed = e.code, !.selection = Digit[e.code], !.launcher = FALSE]
    [] OTHER -> k

Swallowed(e) == ~e.down /\ s.suppressed = e.code
Key(e) ==
  /\ s.alive
  /\ s' = CASE Swallowed(e) -> [s EXCEPT !.suppressed = "none"]
            [] ~Swallowed(e) /\ Shortcut(e) # "none" /\ e.down ->
                 Chord([s EXCEPT !.suppressed = e.code], e)
            [] ~Swallowed(e) /\ Shortcut(e) = "none" /\ s.launcher /\ e.down -> LauncherKey(s, e)
            [] OTHER -> s

Next ==
  \/ composite
  \/ \E m \in Creates : Create(m) \/ Close(m.id) \/ Focus(m.id) \/ \E g \in Moves : Move(m.id, g)
  \/ \E p \in Points : MouseMove(p) \/ ButtonDown(p) \/ ButtonUp(p)
  \/ \E e \in Keys : Key(e)
Spec == Init /\ [][Next]_vars

(* What the theorems assume: windows have a number that is not 0 and a     *)
(* surface with pixels, which the compositor looks up before it maps it,   *)
(* and the chrome leaves room for a window.                                *)
CompositorConstants ==
  /\ {SCREEN_WIDTH, SCREEN_HEIGHT, TITLE_HEIGHT, RESERVED_TOP, RESERVED_BOTTOM, WINDOW_LIMIT} \subseteq Nat
  /\ RESERVED_TOP + TITLE_HEIGHT + RESERVED_BOTTOM <= SCREEN_HEIGHT
  /\ MIN_WINDOW \in Nat \X Nat /\ {CELLS, WORD} \subseteq Nat \ {0} /\ WORKSPACES \in Nat
  /\ \A m \in Creates :
       /\ {m.id, m.sw, m.sh} \subseteq Nat \ {0} /\ {m.x, m.y, m.w, m.h} \subseteq Int /\ m.mapped \in BOOLEAN
  /\ \A g \in Moves : {g.x, g.y} \subseteq Int /\ {g.w, g.h} \subseteq Nat
  /\ Points \subseteq Int \X Int

(***************************************************************************)
(* Properties.                                                             *)
(***************************************************************************)
(* Keys always have a live receiver: whichever of the client, a title      *)
(* control, a shortcut or the taskbar removes or hides a window, the focus *)
(* is None or a window of the table, and None only if nothing is shown.    *)
FocusIsLive ==
  /\ s.focus \in Ids(s) \cup {None}
  /\ s.focus # None => ~s.table[find_slot(s, s.focus)].min
  /\ s.focus = None => find_top_slot(s) = None

(* A click lands on the client pixel that is drawn under it, inside the    *)
(* client's surface, whatever the window's size has become.                *)
ClickReachesItsPixel ==
  \A i \in Live(s), p \in (0..(SCREEN_WIDTH - 1)) \X (0..(SCREEN_HEIGHT - 1)) :
    Fits(s.table[i]) => \A c \in client_point(s.table[i], p) :
      /\ c = SourcePixel(s.table[i], p)
      /\ c[1] \in 0..(s.table[i].sw - 1) /\ c[2] \in 0..(s.table[i].sh - 1)

(* main.rs:1321: bounds were enforced when a window entered the table, "so *)
(* every row copy here stays inside `frame`": the compositor never panics. *)
FramesStayInside == s.alive
=============================================================================
