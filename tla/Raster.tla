------------------------------- MODULE Raster -------------------------------
(***************************************************************************)
(* What the drawing routines touch and in which colour: the kernel's       *)
(* software renderer (libs/graphics/graphics.c), the primitives of         *)
(* framebuffer.c, and the compositor's own (main.rs).  A rectangle is      *)
(* <<x, y, width, height>>, a canvas a function from points to colours.    *)
(* Colours are abstract: 0 has alpha 0, 1..9 are opaque, larger ones are   *)
(* translucent and mix with what they are put on.                          *)
(***************************************************************************)
EXTENDS Integers, Sequences, FiniteSets, Functions

Lower(a, b) == IF a < b THEN a ELSE b
Higher(a, b) == IF a > b THEN a ELSE b
Distance(a, b) == IF a > b THEN a - b ELSE b - a
Empty == <<0, 0, 0, 0>>
Points(r) == (r[1]..(r[1] + r[3] - 1)) \X (r[2]..(r[2] + r[4] - 1))
FromEdges(left, top, right, bottom) == <<left, top, right - left, bottom - top>>

(* Empty stands for the refusals.                                          *)
intersect(a, b) ==
  LET left == Higher(a[1], b[1])
      top == Higher(a[2], b[2])
      right == Lower(a[1] + a[3], b[1] + b[3])
      bottom == Lower(a[2] + a[4], b[2] + b[4])
  IN  IF a[3] <= 0 \/ a[4] <= 0 \/ b[3] <= 0 \/ b[4] <= 0 \/ right <= left \/ bottom <= top THEN Empty
      ELSE FromEdges(left, top, right, bottom)

(* The same against the screen, as framebuffer.c writes it.                *)
rect_clip(r, width, height) ==
  LET right == r[1] + r[3]
      bottom == r[2] + r[4]
      x == Higher(r[1], 0)
      y == Higher(r[2], 0)
  IN  IF r[3] <= 0 \/ r[4] <= 0 \/ right <= 0 \/ bottom <= 0 \/ r[1] >= width \/ r[2] >= height THEN Empty
      ELSE FromEdges(x, y, Lower(right, width), Lower(bottom, height))

(* The bounding box of the damage so far and one more rectangle.           *)
Union(d, r) ==
  IF d = Empty THEN r
  ELSE FromEdges(Lower(r[1], d[1]), Lower(r[2], d[2]),
                 Higher(r[1] + r[3], d[1] + d[3]), Higher(r[2] + r[4], d[2] + d[4]))
damage(d, r, width, height) ==
  LET c == intersect(r, <<0, 0, width, height>>) IN IF c = Empty THEN d ELSE Union(d, c)

blend(dst, src) == IF src = 0 THEN dst ELSE IF src <= 9 THEN src ELSE src + (dst % 10)
Paint(canvas, points, argb) == [p \in DOMAIN canvas |-> IF p \in points THEN blend(canvas[p], argb) ELSE canvas[p]]

(* One 8-bit channel of each routine's mix, with CH for 256.               *)
Mix(dst, src, alpha, CH) == (src * alpha + dst * (CH - 1 - alpha) + (CH \div 2 - 1)) \div (CH - 1)
MixRust(dst, src, alpha, CH) == (src * alpha + dst * (CH - 1 - alpha)) \div (CH - 1)
(* framebuffer.c multiplies two channels at once and masks them apart.     *)
MixPacked(dst, src, alpha, CH) ==
  LET sum == ((src[1] * CH * CH + src[2]) * alpha + (dst[1] * CH * CH + dst[2]) * (CH - 1 - alpha)) \div CH
  IN  <<(sum \div (CH * CH)) % CH, sum % CH>>
lerp(a, b, n, d) == (a * (d - n) + b * n) \div d

RECURSIVE PaintAll(_, _)
PaintAll(canvas, steps) ==
  IF steps = <<>> THEN canvas ELSE PaintAll(Paint(canvas, steps[1][1], steps[1][2]), Tail(steps))

border_rect(r) ==
  Points(<<r[1], r[2], r[3], 1>>) \cup Points(<<r[1], r[2] + r[4] - 1, r[3], 1>>) \cup
  Points(<<r[1], r[2], 1, r[4]>>) \cup Points(<<r[1] + r[3] - 1, r[2], 1, r[4]>>)

(* Bresenham, in all directions: the n-th pixel and the error there.       *)
line(x0, y0, x1, y1) ==
  LET dx == Distance(x0, x1)
      dy == -Distance(y0, y1)
      sx == IF x0 < x1 THEN 1 ELSE -1
      sy == IF y0 < y1 THEN 1 ELSE -1
      step(p) ==
        LET across == 2 * p[3] >= dy
            down == 2 * p[3] <= dx
        IN  <<IF across THEN p[1] + sx ELSE p[1], IF down THEN p[2] + sy ELSE p[2],
              p[3] + (IF across THEN dy ELSE 0) + (IF down THEN dx ELSE 0)>>
      at[n \in Nat] == IF n = 0 THEN <<x0, y0, dx + dy>> ELSE step(at[n - 1])
      last == CHOOSE n \in 0..dx - dy : /\ <<at[n][1], at[n][2]>> = <<x1, y1>>
                                        /\ \A k \in 0..n - 1 : <<at[k][1], at[k][2]>> # <<x1, y1>>
  IN  [n \in 0..last |-> <<at[n][1], at[n][2]>>]
LineDamage(x0, y0, x1, y1) ==
  FromEdges(Lower(x0, x1), Lower(y0, y1), Higher(x0, x1) + 1, Higher(y0, y1) + 1)

gradient_vertical(r, top, bottom) ==
  [y \in 0..r[4] - 1 |-> lerp(top, bottom, y, IF r[4] > 1 THEN r[4] - 1 ELSE 1)]

rounded_contains(r, wanted, x, y) ==
  LET radius == Lower(wanted, Lower(r[3], r[4]) \div 2)
      c(v, at, size) == IF v < at + radius THEN at + radius - 1
                        ELSE IF v >= at + size - radius THEN at + size - radius ELSE v
      dx == x - c(x, r[1], r[3])
      dy == y - c(y, r[2], r[4])
  IN  radius = 0 \/ dx * dx + dy * dy <= radius * radius
rounded_rect(r, radius, clip) == {p \in Points(intersect(r, clip)) : rounded_contains(r, radius, p[1], p[2])}
rounded_border(r, radius, thick, border, fill, clip) ==
  <<<<rounded_rect(r, radius, clip), border>>>> \o
  (IF thick = 0 \/ thick * 2 >= r[3] \/ thick * 2 >= r[4] THEN <<>>
   ELSE <<<<rounded_rect(<<r[1] + thick, r[2] + thick, r[3] - 2 * thick, r[4] - 2 * thick>>,
                         IF radius > thick THEN radius - thick ELSE 0, clip), fill>>>>)
(* Layers from the widest in; limit is 32 in the code.                     *)
shadow(r, radius, wanted, argb, limit, clip) ==
  LET spread == Lower(wanted, limit)
      layers == Lower(spread, 3)
      i(l) == spread - ((spread * l) \div layers)
  IN  [l \in 1..layers |-> <<rounded_rect(<<r[1] - i(l - 1), r[2] - i(l - 1), r[3] + 2 * i(l - 1), r[4] + 2 * i(l - 1)>>,
                                          radius + i(l - 1), clip), argb>>]

(* main.rs cuts its corners with a mask of its own; top leaves the lower   *)
(* two square.                                                             *)
CornerCut(col, row, w, h, radius, top) ==
  LET far(v, size) == IF v < radius THEN radius - v ELSE IF v >= size - radius THEN v - (size - radius - 1) ELSE 0
      cx == far(col, w)
      cy == IF top THEN (IF row < radius THEN radius - row ELSE 0) ELSE far(row, h)
  IN  cx > 0 /\ cy > 0 /\ cx * cx + cy * cy > radius * radius
fill_rounded_rect(r, radius) ==
  {p \in Points(r) : ~CornerCut(p[1] - r[1], p[2] - r[2], r[3], r[4], radius, FALSE)}
fill_rounded_rect_top(r, radius) ==
  {p \in Points(r) : ~CornerCut(p[1] - r[1], p[2] - r[2], r[3], r[4], radius, TRUE)}
(* The perimeter bands around a surface, feather pixels deep, in the order *)
(* they are blended: one band touches no pixel twice.                      *)
draw_shadow(r, feather) ==
  [d \in 1..feather |->
     {p \in Points(<<r[1] - d, r[2] - d, r[3] + 2 * d, r[4] + 2 * d>>) : p[1] \in {r[1] - d, r[1] + r[3] - 1 + d}} \cup
     {p \in Points(<<r[1], r[2] - d, r[3], r[4] + 2 * d>>) : p[2] \in {r[2] - d, r[2] + r[4] - 1 + d}}]
(* Nearest neighbour: the source pixel of a scaled icon's column or row.   *)
IconSource(destination, native, size) == (destination * native) \div size

(* A glyph is the set of its lit <<column, row>>; every character moves    *)
(* the pen by (wide + 1) * scale.                                          *)
text(x, y, glyphs, wide, scale) ==
  UNION {UNION {Points(<<x + (i - 1) * (wide + 1) * scale + g[1] * scale, y + g[2] * scale, scale, scale>>) :
                g \in glyphs[i]} : i \in 1..Len(glyphs)}

(* Image pixels that fall on the clipped rectangle.                        *)
blit(canvas, x, y, image, width, height, clip) ==
  LET c == Points(intersect(<<x, y, width, height>>, clip))
  IN  [p \in DOMAIN canvas |-> IF p \in c THEN blend(canvas[p], image[<<p[1] - x, p[2] - y>>]) ELSE canvas[p]]
=============================================================================
