----------------------------- MODULE Framebuffer -----------------------------
(***************************************************************************)
(* The screen: framebuffer.c's scene buffer, damage and cursor overlay,    *)
(* and the two system calls that draw (display.c).  The compositor builds  *)
(* a frame with several calls and presents it with the last, and moves the *)
(* cursor at any time in between.                                          *)
(***************************************************************************)
EXTENDS Raster, FiniteSetsExt

CONSTANTS
  Width, Height,     \* of the screen
  CursorW, CursorH,  \* DEMON_MOUSE_CURSOR_WIDTH and _HEIGHT
  Icons,             \* the cursor icons: functions on the cursor's points; Icons[0] is the arrow
  Rects,             \* rectangles that are drawn
  Spreads,           \* of a shadow
  BOUNCE,            \* DISPLAY_BOUNCE_PIXELS
  Places,            \* cursor positions that are asked for
  CALLS              \* bound on drawing calls

VARIABLE s

Screen == <<0, 0, Width, Height>>
Pixels == Points(Screen)
BLACK == 1
SHADE == 20

(* discover and enable: a scene all black, marked as damage.               *)
framebuffer_enable ==
  [back |-> [p \in Pixels |-> BLACK], want |-> [p \in Pixels |-> BLACK], screen |-> [p \in Pixels |-> 0],
   damage |-> Screen, x |-> 0, y |-> 0, visible |-> FALSE, icon |-> 0, calls |-> 0]

(* dirty is damage # Empty.                                                *)
mark_damage(f, r) ==
  LET c == rect_clip(r, Width, Height)
  IN  IF c = Empty THEN f ELSE [f EXCEPT !.damage = Union(@, c)]

framebuffer_fill_rect(f, r, argb) ==
  LET c == rect_clip(r, Width, Height)
  IN  IF c = Empty THEN f ELSE mark_damage([f EXCEPT !.back = Paint(@, Points(c), argb)], c)
framebuffer_clear(f) == framebuffer_fill_rect(f, Screen, BLACK)
(* A run of framebuffer_pixel or one-block fills: the damage of each is    *)
(* its own block, together the box around those on the screen.             *)
Plot(f, points, argb) ==
  LET on == points \cap Pixels
      xs == {p[1] : p \in on}
      ys == {p[2] : p \in on}
  IN  IF on = {} THEN f
      ELSE mark_damage([f EXCEPT !.back = Paint(@, on, argb)], FromEdges(Min(xs), Min(ys), Max(xs) + 1, Max(ys) + 1))
framebuffer_border_rect(f, r, argb) == Plot(f, border_rect(r), argb)
framebuffer_line(f, x0, y0, x1, y1, argb) == Plot(f, Range(line(x0, y0, x1, y1)), argb)
framebuffer_text(f, x, y, glyphs, argb) == Plot(f, text(x, y, glyphs, 1, 1), argb)
framebuffer_blit(f, x, y, image, w, h) ==
  LET c == rect_clip(<<x, y, w, h>>, Width, Height)
  IN  IF c = Empty THEN f ELSE mark_damage([f EXCEPT !.back = blit(@, x, y, image, w, h, Screen)], c)

active_cursor_pixels(f) == IF f.icon \in DOMAIN Icons THEN Icons[f.icon] ELSE Icons[0]
Footprint(f) == <<f.x, f.y, CursorW, CursorH>>
scanout_backbuffer_rect(f, r) ==
  LET c == Points(rect_clip(r, Width, Height))
  IN  [f EXCEPT !.screen = [p \in Pixels |-> IF p \in c THEN f.back[p] ELSE @[p]]]
scanout_cursor_overlay(f) ==
  IF ~f.visible THEN f
  ELSE [f EXCEPT !.screen = [p \in Pixels |->
          IF p \in Points(Footprint(f)) THEN blend(f.back[p], active_cursor_pixels(f)[<<p[1] - f.x, p[2] - f.y>>])
          ELSE @[p]]]

framebuffer_present(f) ==
  IF f.damage = Empty THEN f
  ELSE [scanout_cursor_overlay(scanout_backbuffer_rect(f, f.damage)) EXCEPT !.damage = Empty]

Bug_framebuffer_cursor_move(f, toX, toY) ==
  LET x == Lower(Higher(toX, 0), Width - 1)
      y == Lower(Higher(toY, 0), Height - 1)
  IN  IF f.visible /\ f.x = x /\ f.y = y THEN f
      ELSE scanout_cursor_overlay([f EXCEPT !.x = x, !.y = y, !.visible = TRUE])
framebuffer_cursor_move(f, toX, toY) ==
  LET x == Lower(Higher(toX, 0), Width - 1)
      y == Lower(Higher(toY, 0), Height - 1)
      restored == IF f.visible THEN scanout_backbuffer_rect(f, Footprint(f)) ELSE f
  IN  IF f.visible /\ f.x = x /\ f.y = y THEN f
      ELSE scanout_cursor_overlay([restored EXCEPT !.x = x, !.y = y, !.visible = TRUE])
framebuffer_cursor_set_icon(f, icon) ==
  IF icon = f.icon THEN f
  ELSE LET restored == IF f.visible THEN scanout_backbuffer_rect(f, Footprint(f)) ELSE f
       IN  scanout_cursor_overlay([restored EXCEPT !.icon = icon])
framebuffer_cursor_hide(f) ==
  IF ~f.visible THEN f ELSE [scanout_backbuffer_rect(f, Footprint(f)) EXCEPT !.visible = FALSE]

Finished(f, flags) == IF flags THEN framebuffer_present(f) ELSE f
display_submit(f, x, y, image, w, h, present) == Finished(framebuffer_blit(f, x, y, image, w, h), present)
(* A user's frame goes through the bounce buffer in bands of whole rows;   *)
(* only the last band presents.                                            *)
RECURSIVE Bands(_, _, _, _, _, _, _, _)
Bands(f, x, y, image, w, h, present, row) ==
  IF row >= h THEN f
  ELSE LET rows == Lower(h - row, BOUNCE \div w)
           band == [p \in Points(<<0, 0, w, rows>>) |-> image[<<p[1], p[2] + row>>]]
       IN  Bands(display_submit(f, x, y + row, band, w, rows, present /\ row + rows = h),
                 x, y, image, w, h, present, row + rows)
display_submit_from_user(f, x, y, image, w, h, present) ==
  IF w = 0 \/ h = 0 \/ w > Width \/ w > BOUNCE THEN f ELSE Bands(f, x, y, image, w, h, present, 0)

(* Effects write to the scene through a graphics_surface of their own,     *)
(* whose damage nobody sees; the region is marked here.  Icons and logos   *)
(* are drawn at their native size, which callers give as the request's.    *)
display_submit_effect(f, kind, r, radius, spread, present) ==
  LET wallpaper == [p \in Pixels |-> ((p[1] \div 2 + p[2] \div 2) % 2) + 3]
      steps == CASE kind = "rounded_rect" -> <<<<rounded_rect(r, radius, Screen), 2>>>>
                 [] kind = "rounded_border" -> rounded_border(r, radius, 1, 2, 3, Screen)
                 [] kind = "gradient" -> [y \in 1..r[4] |-> <<Points(intersect(<<r[1], r[2] + y - 1, r[3], 1>>, Screen)),
                                                             gradient_vertical(r, 2, 4)[y - 1]>>]
                 [] kind = "shadow" -> shadow(r, radius, spread, SHADE, 32, Screen)
                 [] OTHER -> <<>>
      drawn == IF kind = "wallpaper"
               THEN [p \in Pixels |-> IF p \in Points(intersect(r, Screen)) THEN wallpaper[p] ELSE f.back[p]]
               ELSE IF kind = "icon"
               THEN blit(f.back, r[1], r[2], [p \in Points(<<0, 0, r[3], r[4]>>) |-> (p[1] + p[2]) % 3], r[3], r[4], Screen)
               ELSE PaintAll(f.back, steps)
      m == IF kind = "shadow" THEN Lower(spread, 32) ELSE 0
  IN  Finished(mark_damage([f EXCEPT !.back = drawn], <<r[1] - m, r[2] - m, r[3] + 2 * m, r[4] + 2 * m>>), present)

-----------------------------------------------------------------------------
Checker(w, h) == [p \in Points(<<0, 0, w, h>>) |-> IF (p[1] + p[2]) % 2 = 0 THEN 2 ELSE 0]
Drawn(f) == [f EXCEPT !.calls = s.calls + 1, !.want = f.back]

Init == s = framebuffer_enable

KernelDraws ==
  \/ s' = Drawn(framebuffer_clear(s))
  \/ \E r \in Rects :
       \/ s' = Drawn(framebuffer_fill_rect(s, r, 2))
       \/ s' = Drawn(framebuffer_border_rect(s, r, 2))
       \/ s' = Drawn(framebuffer_line(s, r[1], r[2], r[1] + r[3], r[2] + r[4], 2))
       \/ s' = Drawn(framebuffer_text(s, r[1], r[2], <<{<<0, 0>>}, {<<0, 1>>}>>, 2))
Submit ==
  \E r \in Rects, present \in BOOLEAN :
    /\ r[1] >= 0 /\ r[2] >= 0
    /\ LET f == display_submit_from_user(s, r[1], r[2], Checker(r[3], r[4]), r[3], r[4], present)
       IN  s' = [Drawn(f) EXCEPT !.want = IF r[3] > Lower(Width, BOUNCE) THEN s.back
                                         ELSE blit(s.back, r[1], r[2], Checker(r[3], r[4]), r[3], r[4], Screen)]
Effect ==
  \E r \in Rects, kind \in {"rounded_rect", "rounded_border", "gradient", "shadow", "wallpaper", "icon"},
     radius \in {0, 2}, spread \in Spreads, present \in BOOLEAN :
    /\ r[1] >= 0 /\ r[2] >= 0 /\ (kind # "shadow" => spread = Max(Spreads)) /\ (kind \in {"gradient", "wallpaper", "icon"} => radius = 0)
    /\ s' = Drawn(display_submit_effect(s, kind, r, radius, spread, present))

(* System call 32: the icon, then the place.                               *)
Cursor ==
  \E p \in Places, icon \in DOMAIN Icons \cup {99} :
    s' = framebuffer_cursor_move(framebuffer_cursor_set_icon(s, icon), p[1], p[2])
Hide == s' = framebuffer_cursor_hide(s)
Present == s' = framebuffer_present(s)

Next == \/ s.calls < CALLS /\ (KernelDraws \/ Submit \/ Effect)
        \/ Cursor \/ Hide \/ Present

(* What the user should see at a pixel.                                    *)
Shown(p) ==
  IF s.visible /\ p \in Points(Footprint(s)) THEN blend(s.back[p], active_cursor_pixels(s)[<<p[1] - s.x, p[2] - s.y>>])
  ELSE s.back[p]
(* Every pixel outside the damage shows the scene with the cursor over it, *)
(* whatever drawing, presenting and cursor calls came in between: no trail *)
(* of an old cursor, no effect that is never shown, and after a present    *)
(* nothing is stale.  The damage stays on the screen, and a frame sent in  *)
(* bands is the frame.                                                     *)
ScreenShowsTheScene ==
  /\ \A p \in Pixels \ Points(s.damage) : s.screen[p] = Shown(p)
  /\ Points(s.damage) \subseteq Pixels
  /\ s.back = s.want
=============================================================================
