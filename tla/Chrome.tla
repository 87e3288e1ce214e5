------------------------------- MODULE Chrome -------------------------------
(***************************************************************************)
(* The compositor's chrome in real pixels: where main.rs draws the panel,  *)
(* the launcher, the taskbar and the title controls, and where its hit     *)
(* tests find them.  The pointer is anywhere on the screen.  (What a hit   *)
(* then does is in Compositor.)                                            *)
(***************************************************************************)
EXTENDS Raster

CONSTANTS
  Tables,   \* numbers of windows in the taskbar
  Widths,   \* of the window whose title bar is looked at
  Heights   \* rows the pointer is in

VARIABLE s

SCREEN_WIDTH == 640
SCREEN_HEIGHT == 480
WINDOW_LIMIT == 8
TITLE_HEIGHT == 24
CONTROL_SIZE == 16
CONTROL_GAP == 4
RESERVED_TOP == 34
PANEL_MARGIN == 6
PANEL_HEIGHT == 28
LAUNCHER_BTN_X0 == PANEL_MARGIN + 4
LAUNCHER_BTN_X1 == LAUNCHER_BTN_X0 + 72
QUICK_LAUNCH_X == LAUNCHER_BTN_X1 + 8
QUICK_LAUNCH_SIZE == 24
QUICK_LAUNCH_GAP == 4
WORKSPACE_COUNT == 3
BOTTOM_BAR_HEIGHT == 40
BOTTOM_BAR_MARGIN == 6
BOTTOM_BAR_Y == SCREEN_HEIGHT - BOTTOM_BAR_MARGIN - BOTTOM_BAR_HEIGHT
RESERVED_BOTTOM == BOTTOM_BAR_MARGIN * 2 + BOTTOM_BAR_HEIGHT
TASKBAR_ITEM_WIDTH == 120
TASKBAR_ITEM_GAP == 8
LAUNCHER_X == PANEL_MARGIN
LAUNCHER_Y == PANEL_MARGIN + PANEL_HEIGHT + 8
LAUNCHER_WIDTH == 196
LAUNCHER_CELL_HEIGHT == 42
LAUNCHER_CELL_GAP == 6
LAUNCHER_CELL_COUNT == 4
LAUNCHER_HEADER_HEIGHT == 30
Cells == 0..LAUNCHER_CELL_COUNT - 1
Dots == 0..WORKSPACE_COUNT - 1
PanelWidth == SCREEN_WIDTH - 2 * PANEL_MARGIN
(* The window looked at: its content starts at this corner.                *)
WindowX == 50
WindowY == 300

close_control_x(w) == w - 13
maximize_control_x(w) == close_control_x(w) - CONTROL_GAP - CONTROL_SIZE
minimize_control_x(w) == maximize_control_x(w) - CONTROL_GAP - CONTROL_SIZE
title_control_at(w, x) ==
  LET near(c) == Distance(x, c) <= CONTROL_SIZE \div 2
  IN  CASE near(close_control_x(w)) -> 2
        [] ~near(close_control_x(w)) /\ near(maximize_control_x(w)) -> 1
        [] ~near(close_control_x(w)) /\ ~near(maximize_control_x(w)) /\ near(minimize_control_x(w)) -> 3
        [] OTHER -> 0
InTitleBar(w, x, y) == x >= WindowX /\ x < WindowX + w /\ y >= WindowY - TITLE_HEIGHT /\ y < WindowY

Left(d) == PANEL_MARGIN + PanelWidth \div 2 - 30 + d * 12
InPanel(y) == y >= PANEL_MARGIN /\ y < PANEL_MARGIN + PANEL_HEIGHT
workspace_dot_at(x, y) == {d \in Dots : InPanel(y) /\ x >= Left(d) - 1 /\ x < Left(d) + 9}
in_launcher_button(x, y) == x >= LAUNCHER_BTN_X0 /\ x < LAUNCHER_BTN_X1 /\ InPanel(y)
QuickX(i) == QUICK_LAUNCH_X + i * (QUICK_LAUNCH_SIZE + QUICK_LAUNCH_GAP)
quick_launch_at(x, y) ==
  {i \in Cells : /\ y >= PANEL_MARGIN + 4 /\ y < PANEL_MARGIN + PANEL_HEIGHT - 4
                 /\ x >= QuickX(i) /\ x < QuickX(i) + QUICK_LAUNCH_SIZE}
taskbar_item_width(n) ==
  IF n = 0 THEN TASKBAR_ITEM_WIDTH
  ELSE LET inner == SCREEN_WIDTH - BOTTOM_BAR_MARGIN * 2 - 16
           room == Higher(inner - TASKBAR_ITEM_GAP * (n - 1), 0)
       IN  Higher(Lower(room \div n, TASKBAR_ITEM_WIDTH), 64)
(* The i-th window of the workspace in slot order, from 0.                 *)
ItemX(n, i) == BOTTOM_BAR_MARGIN + 8 + i * (taskbar_item_width(n) + TASKBAR_ITEM_GAP)
taskbar_item_at(n, x, y) ==
  {i \in 0..n - 1 : /\ y >= BOTTOM_BAR_Y /\ y < BOTTOM_BAR_Y + BOTTOM_BAR_HEIGHT
                    /\ x >= ItemX(n, i) /\ x < ItemX(n, i) + taskbar_item_width(n)}
launcher_cell_y(i) ==
  LAUNCHER_Y + LAUNCHER_HEADER_HEIGHT + LAUNCHER_CELL_GAP + i * (LAUNCHER_CELL_HEIGHT + LAUNCHER_CELL_GAP)
launcher_cell_at(x, y) ==
  {i \in Cells : /\ x >= LAUNCHER_X /\ x < LAUNCHER_X + LAUNCHER_WIDTH
                 /\ y >= launcher_cell_y(i) /\ y < launcher_cell_y(i) + LAUNCHER_CELL_HEIGHT}
snap_geometry(target) ==
  LET y == RESERVED_TOP + TITLE_HEIGHT
      height == SCREEN_HEIGHT - RESERVED_BOTTOM - y
  IN  CASE target = 2 -> <<0, y, SCREEN_WIDTH \div 2, height>>
        [] target = 3 -> <<SCREEN_WIDTH \div 2, y, SCREEN_WIDTH - SCREEN_WIDTH \div 2, height>>
        [] OTHER -> <<0, y, SCREEN_WIDTH, height>>

-----------------------------------------------------------------------------
(* What is drawn, as pairs of the control it shows and its rectangle; a    *)
(* text of n characters is 5 n wide and 5 high, "none" is decoration.      *)
Text(x, y, n) == <<x, y, 5 * n, 5>>
draw_decoration(w, title) ==
  LET top == WindowY - TITLE_HEIGHT
      y == top + TITLE_HEIGHT \div 2
      at(c) == WindowX + c
      shown == Lower(title, Higher(w - 104, 0) \div 5)
  IN  {<<<<"title", 0>>, <<WindowX + 7, top + 5, 14, 14>>>>, <<<<"title", 0>>, Text(WindowX + 27, top + 9, shown)>>,
       <<<<"title", 3>>, <<at(minimize_control_x(w)) - 8, y - 8, CONTROL_SIZE, CONTROL_SIZE>>>>,
       <<<<"title", 1>>, <<at(maximize_control_x(w)) - 8, y - 8, CONTROL_SIZE, CONTROL_SIZE>>>>,
       <<<<"title", 2>>, <<at(close_control_x(w)) - 8, y - 8, CONTROL_SIZE, CONTROL_SIZE>>>>,
       <<<<"title", 2>>, <<at(close_control_x(w)) - 3, y - 3, 7, 7>>>>}
draw_panel ==
  LET top == PANEL_MARGIN + 4
      tray == PANEL_MARGIN + PanelWidth - 12
  IN  {<<<<"launcher", 0>>, <<LAUNCHER_BTN_X0, top, LAUNCHER_BTN_X1 - LAUNCHER_BTN_X0, PANEL_HEIGHT - 8>>>>,
       <<<<"launcher", 0>>, <<LAUNCHER_BTN_X0 + 3, PANEL_MARGIN + 5, 18, 18>>>>,
       <<<<"launcher", 0>>, Text(LAUNCHER_BTN_X0 + 25, PANEL_MARGIN + 10, 5)>>,
       <<<<"none", 0>>, Text(PANEL_MARGIN + PanelWidth \div 2 + 8, PANEL_MARGIN + 10, 5)>>,
       <<<<"none", 0>>, <<tray - 58, PANEL_MARGIN + 8, 60, 14>>>>} \cup
      {<<<<"quick", i>>, <<QuickX(i), top, QUICK_LAUNCH_SIZE, PANEL_HEIGHT - 8>>>> : i \in Cells} \cup
      {<<<<"quick", i>>, <<QuickX(i) + 3, PANEL_MARGIN + 7, 18, 18>>>> : i \in Cells} \cup
      {<<<<"dot", d>>, <<Left(d), PANEL_MARGIN + 13, 8, 4>>>> : d \in Dots}
draw_taskbar(n, title) ==
  LET width == taskbar_item_width(n)
  IN  UNION {{<<<<"item", i>>, <<ItemX(n, i), BOTTOM_BAR_Y + 6, width, BOTTOM_BAR_HEIGHT - 12>>>>,
              <<<<"item", i>>, <<ItemX(n, i) + 6, BOTTOM_BAR_Y + 9, 22, 22>>>>,
              <<<<"item", i>>, Text(ItemX(n, i) + 32, BOTTOM_BAR_Y + 16, Lower(title, Higher(width - 36, 0) \div 5))>>,
              <<<<"item", i>>, <<ItemX(n, i) + 8, BOTTOM_BAR_Y + BOTTOM_BAR_HEIGHT - 4, Higher(width - 16, 0), 2>>>>} :
             i \in 0..n - 1}
draw_launcher_cell(i) ==
  {<<<<"cell", i>>, <<LAUNCHER_X + 6, launcher_cell_y(i), LAUNCHER_WIDTH - 12, LAUNCHER_CELL_HEIGHT>>>>,
   <<<<"cell", i>>, <<LAUNCHER_X + 15, launcher_cell_y(i) + 10, 22, 22>>>>,
   <<<<"cell", i>>, Text(LAUNCHER_X + 48, launcher_cell_y(i) + 18, 10)>>}
draw_launcher == UNION {draw_launcher_cell(i) : i \in Cells}

(* What the hit tests say of the pointer; a title control is looked for    *)
(* only in the title bar.                                                  *)
Hits(n, w, x, y) ==
  {<<"dot", d>> : d \in workspace_dot_at(x, y)} \cup {<<"quick", i>> : i \in quick_launch_at(x, y)} \cup
  {<<"launcher", 0>> : z \in {z \in {0} : in_launcher_button(x, y)}} \cup
  {<<"item", i>> : i \in taskbar_item_at(n, x, y)} \cup
  {<<"title", title_control_at(w, x - WindowX)>> : z \in {z \in {0} : InTitleBar(w, x, y)}}
cursor_icon_at(n, w, open, x, y) ==
  IF Hits(n, w, x, y) # {} \/ (open /\ launcher_cell_at(x, y) # {}) THEN "hand" ELSE "arrow"

Init == s \in [n : Tables, w : Widths, y : Heights, x : {-1}]
Point == s.x = -1 /\ \E x \in 0..SCREEN_WIDTH - 1 : s' = [s EXCEPT !.x = x]
Next == Point

In(r) == s.x >= r[1] /\ s.x < r[1] + r[3] /\ s.y >= r[2] /\ s.y < r[2] + r[4]
(* A press on what is drawn as a control reaches that control and no       *)
(* other, for every window count, window width and place: drawing and hit  *)
(* testing do not drift apart.  Nothing that only decorates is taken for a *)
(* control, the pointer is a hand over every control, the taskbar stays on *)
(* the screen, and a snapped window lies between the two bars.             *)
PressReachesWhatIsDrawn ==
  LET hits == Hits(s.n, s.w, s.x, s.y)
      bars == draw_panel \cup draw_taskbar(s.n, 24)
  IN  /\ \A d \in bars \cup draw_decoration(s.w, 24) :
           In(d[2]) => hits = IF d[1][1] = "none" THEN {} ELSE {d[1]}
      /\ \A d \in draw_launcher : In(d[2]) => launcher_cell_at(s.x, s.y) = {d[1][2]}
      /\ \A d \in bars \cup draw_launcher : d[1][1] # "none" /\ In(d[2]) =>
           cursor_icon_at(s.n, s.w, TRUE, s.x, s.y) = "hand"
      /\ \A d \in draw_taskbar(s.n, 24) : d[2][1] + d[2][3] <= SCREEN_WIDTH
      /\ \A t \in 1..3 : LET g == snap_geometry(t) IN g[2] - TITLE_HEIGHT >= RESERVED_TOP /\ g[2] + g[4] <= BOTTOM_BAR_Y
=============================================================================
