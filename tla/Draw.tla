-------------------------------- MODULE Draw --------------------------------
(***************************************************************************)
(* Drawing as pure algorithms, one case per behaviour: the DemonX server's *)
(* requests, which go through a small buffer in chunks into a surface that *)
(* only takes linear runs (demonx_server.c), the shapes of Raster, and the *)
(* text boxes of shared/tui.c, each compared with a pointwise definition.  *)
(***************************************************************************)
EXTENDS Raster, SequencesExt

CONSTANTS
  WIDE, HIGH,    \* the drawable's size
  CHUNK,         \* DEMONX_DRAW_CHUNK_PIXELS
  GW, GH,        \* a glyph: 5 by 7
  At,            \* coordinates
  Sizes,         \* widths and heights
  TUI_MAX_WIDTH, \* 100
  Labels         \* text lengths

VARIABLE s

INK == 9
Surface == 0..WIDE * HIGH - 1
(* Pixels are told apart by where they were first.                         *)
Old == [o \in Surface |-> 100 + o]
Upto(n) == [i \in 1..n |-> i - 1]
(* SYSCALL_SURFACE_WRITE: a run of pixels at an offset.                    *)
Write(c, offset, run) ==
  [o \in DOMAIN c |-> IF o >= offset /\ o < offset + Len(run) THEN run[o - offset + 1] ELSE c[o]]
(* The chunks of a row, as <<column, count>>.                              *)
Chunks(left, right) ==
  LET n == (right - left + CHUNK - 1) \div CHUNK
  IN  [i \in 1..n |-> <<left + (i - 1) * CHUNK, Lower(CHUNK, right - left - (i - 1) * CHUNK)>>]
(* pixel[x, y] is the colour of column x of row y.                         *)
Rows(c, top, bottom, left, right, pixel) ==
  FoldLeft(LAMBDA a, row :
             FoldLeft(LAMBDA b, k : Write(b, row * WIDE + k[1], [i \in 1..k[2] |-> pixel[k[1] + i - 1, row]]),
                      a, Chunks(left, right)),
           c, [i \in 1..(bottom - top) |-> top + i - 1])

Filled(c, x, y, w, h, pixel) ==
  LET left == Higher(x, 0)
      top == Higher(y, 0)
      right == Lower(x + w, WIDE)
      bottom == Lower(y + h, HIGH)
  IN  IF left >= right \/ top >= bottom THEN c ELSE Rows(c, top, bottom, left, right, pixel)
fill_rectangle(c, x, y, w, h) == Filled(c, x, y, w, h, [px \in 0..WIDE - 1, py \in 0..HIGH - 1 |-> INK])
(* The background: a colour, or a pixmap that tiles from the window's      *)
(* corner; a zero size means the rest of the window.                       *)
clear_background(c, x, y, w, h, tile) ==
  LET width == IF w # 0 THEN w ELSE IF x < 0 \/ x >= WIDE THEN 0 ELSE WIDE - x
      height == IF h # 0 THEN h ELSE IF y < 0 \/ y >= HIGH THEN 0 ELSE HIGH - y
  IN  IF tile = <<0, 0>> THEN fill_rectangle(c, x, y, width, height)
      ELSE Filled(c, x, y, width, height,
                  [px \in 0..WIDE - 1, py \in 0..HIGH - 1 |-> (py % tile[2]) * tile[1] + (px % tile[1])])

(* Row by row, without chunks; image pixel n of the data has value n.      *)
put_image(c, x, y, w, h) ==
  LET skip == IF x < 0 THEN -x ELSE 0
      to == Higher(x, 0)
      row(a, r) ==
        IF y + r < 0 \/ y + r >= HIGH \/ skip >= w \/ to >= WIDE THEN a
        ELSE Write(a, (y + r) * WIDE + to, [i \in 1..Lower(w - skip, WIDE - to) |-> r * w + skip + i - 1])
  IN  FoldLeft(row, c, Upto(h))

(* Rows from the bottom when a surface is copied down onto itself.         *)
CopyRows(same, g) == IF same /\ g.dy > g.sy THEN Reverse(Upto(g.h)) ELSE Upto(g.h)
Clipped(sx, sy, dx, dy, w, h) ==
  LET a == [sx |-> Higher(sx, 0), dx |-> IF sx < 0 THEN dx - sx ELSE dx, w |-> IF sx < 0 THEN w + sx ELSE w,
            sy |-> Higher(sy, 0), dy |-> IF sy < 0 THEN dy - sy ELSE dy, h |-> IF sy < 0 THEN h + sy ELSE h]
      b == [sx |-> IF a.dx < 0 THEN a.sx - a.dx ELSE a.sx, dx |-> Higher(a.dx, 0), w |-> IF a.dx < 0 THEN a.w + a.dx ELSE a.w,
            sy |-> IF a.dy < 0 THEN a.sy - a.dy ELSE a.sy, dy |-> Higher(a.dy, 0), h |-> IF a.dy < 0 THEN a.h + a.dy ELSE a.h]
  IN  [b EXCEPT !.w = Lower(Lower(@, WIDE - b.sx), WIDE - b.dx), !.h = Lower(Lower(@, HIGH - b.sy), HIGH - b.dy)]
copy_area(src, dst, same, sx, sy, dx, dy, w, h) ==
  LET g == Clipped(sx, sy, dx, dy, w, h)
      chunk(a, row, k) ==
        LET column == IF same /\ g.dy = g.sy /\ g.dx > g.sx THEN g.w - k[1] - k[2] ELSE k[1]
            from == IF same THEN a ELSE src
        IN  Write(a, (g.dy + row) * WIDE + g.dx + column,
                  [i \in 1..k[2] |-> from[(g.sy + row) * WIDE + g.sx + column + i - 1]])
  IN  IF g.w <= 0 \/ g.h <= 0 THEN dst
      ELSE FoldLeft(LAMBDA a, row : FoldLeft(LAMBDA b, k : chunk(b, row, k), a, Chunks(0, g.w)),
                    dst, CopyRows(same, g))

(* A glyph is written a row at a time over the mapped pixels, and only     *)
(* where its whole width is inside; an unknown character is skipped.       *)
draw_text(c, x, baseline, glyphs) ==
  LET top == baseline - GH
      cell(a, i, row) ==
        LET px == x + (i - 1) * (GW + 1)
            py == top + row
        IN  IF py < 0 \/ py >= HIGH \/ px < 0 \/ px + GW > WIDE THEN a
            ELSE Write(a, py * WIDE + px, [k \in 1..GW |-> IF <<k - 1, row>> \in glyphs[i] THEN INK ELSE a[py * WIDE + px + k - 1]])
  IN  FoldLeft(LAMBDA a, i : FoldLeft(LAMBDA b, row : cell(b, i, row), a, Upto(GH)), c, [i \in 1..Len(glyphs) |-> i])
draw_text_scaled(c, x, baseline, glyphs, scale) ==
  LET top == baseline - GH * scale
      span == GW * scale
      cell(a, i, row) ==
        LET px == x + (i - 1) * (GW + 1) * scale
            py == top + row
        IN  IF py < 0 \/ py >= HIGH \/ px < 0 \/ px + span > WIDE THEN a
            ELSE Write(a, py * WIDE + px, [k \in 1..span |-> IF <<(k - 1) \div scale, row \div scale>> \in glyphs[i] THEN INK
                                                          ELSE a[py * WIDE + px + k - 1]])
  IN  FoldLeft(LAMBDA a, i : FoldLeft(LAMBDA b, row : cell(b, i, row), a, Upto(GH * scale)), c, [i \in 1..Len(glyphs) |-> i])

(* Boxes of text; a text is the sequence 1, 2, ... of its characters.      *)
tui_clamp_width(width) == IF width < 4 THEN 4 ELSE Lower(width, TUI_MAX_WIDTH)
tui_box_edge(width) == LET w == tui_clamp_width(width) IN <<"+">> \o [i \in 1..(w - 2) |-> "-"] \o <<"+">>
tui_box_line(width, t) ==
  LET inner == tui_clamp_width(width) - 2
  IN  <<"|">> \o [i \in 1..inner |-> IF i <= Len(t) THEN t[i] ELSE " "] \o <<"|">>
tui_banner(width, title) ==
  LET inner == tui_clamp_width(width) - 2
      pad == IF Len(title) >= inner THEN 0 ELSE (inner - Len(title)) \div 2
      centered == [i \in 1..inner |-> IF i > pad /\ i - pad <= Len(title) THEN title[i - pad] ELSE " "]
  IN  <<tui_box_edge(width), tui_box_line(width, centered), tui_box_edge(width)>>
Digits(n) == IF n > 99 THEN 3 ELSE IF n > 9 THEN 2 ELSE 1
(* Every append asks whether it and the terminator still fit.              *)
Room(l, n) == Len(l) + n < TUI_MAX_WIDTH + 1
Add(l, c) == IF Room(l, 1) THEN Append(l, c) ELSE l
tui_progress_bar(width, asked, label) ==
  LET percent == Lower(asked, 100)
      suffix == (IF percent >= 100 THEN 5 ELSE 4) + (IF label > 0 THEN 1 + label ELSE 0)
      w == tui_clamp_width(width)
      bar == IF w > suffix + 2 THEN w - suffix - 2 ELSE 1
      filled == (bar * percent) \div 100
      drawn == FoldLeft(LAMBDA a, i : Add(a, IF i < filled THEN "#" ELSE "."), <<"[">>, Upto(bar))
      spaced == Add(Add(drawn, "]"), " ")
      number == IF Room(spaced, 4) THEN spaced \o [i \in 1..Digits(percent) |-> "9"] ELSE spaced
      marked == Add(number, "%")
  IN  IF label = 0 THEN marked ELSE FoldLeft(LAMBDA a, i : Add(a, "x"), Add(marked, " "), Upto(label))

-----------------------------------------------------------------------------
Glyph == {{<<0, 0>>, <<GW - 1, GH - 1>>}, {}}
Cases ==
  [op : {"fill", "image"}, x : At, y : At, w : Sizes, h : Sizes] \cup
  [op : {"clear"}, x : At, y : At, w : Sizes, h : Sizes, tile : {<<0, 0>>, <<2, 1>>, <<3, 2>>}] \cup
  [op : {"copy"}, same : BOOLEAN, x : At, y : At, dx : At, dy : At, w : Sizes \ {0}, h : Sizes \ {0}] \cup
  [op : {"text"}, x : At, y : 0..HIGH + 1, glyphs : Glyph \X Glyph, scale : {1, 2}] \cup
  [op : {"line"}, x : At, y : At, dx : At, dy : At] \cup
  [op : {"shape"}, x : {2}, y : {1}, w : 1..7, h : 1..7, radius : 0..4] \cup
  [op : {"mix"}, dst : (0..7) \X {0, 5, 7}, src : (0..7) \X {0, 7}, alpha : 0..7] \cup
  [op : {"tui"}, width : 0..(TUI_MAX_WIDTH + 2), label : Labels, percent : {0, 7, 50, 99, 100, 150}]
Result(c) ==
  CASE c.op = "fill" -> fill_rectangle(Old, c.x, c.y, c.w, c.h)
    [] c.op = "image" -> put_image(Old, c.x, c.y, c.w, c.h)
    [] c.op = "clear" -> clear_background(Old, c.x, c.y, c.w, c.h, c.tile)
    [] c.op = "copy" -> copy_area(Old, IF c.same THEN Old ELSE [o \in Surface |-> o], c.same, c.x, c.y, c.dx, c.dy, c.w, c.h)
    [] c.op = "text" -> draw_text_scaled(Old, c.x, c.y, c.glyphs, c.scale)
    [] OTHER -> Old

Init == s = [ready |-> FALSE]
Do == ~s.ready /\ \E c \in Cases : s' = [ready |-> TRUE, case |-> c, out |-> Result(c)]
Next == Do

X(o) == o % WIDE
Y(o) == o \div WIDE
Within(o, x, y, w, h) == X(o) >= x /\ X(o) < x + w /\ Y(o) >= y /\ Y(o) < y + h
(* Every request changes exactly the pixels it names that are inside the   *)
(* drawable, to what they should be: a fill and an image whatever sticks   *)
(* out on which side, a cleared background to the tile seen from the       *)
(* window's corner, a copied area to what the source held before the copy  *)
(* even when it overlaps itself and goes through small chunks, a text to   *)
(* its glyphs with the pixels between them kept.                           *)
RequestsDrawWhatTheyName ==
  s.ready =>
    LET c == s.case
    IN  CASE c.op = "fill" -> \A o \in Surface : s.out[o] = IF Within(o, c.x, c.y, c.w, c.h) THEN INK ELSE Old[o]
          [] c.op = "image" -> \A o \in Surface :
               s.out[o] = IF Within(o, c.x, c.y, c.w, c.h) THEN (Y(o) - c.y) * c.w + X(o) - c.x ELSE Old[o]
          [] c.op = "clear" -> \A o \in Surface :
               LET w == IF c.w = 0 /\ c.x >= 0 THEN WIDE ELSE c.w
                   h == IF c.h = 0 /\ c.y >= 0 THEN HIGH ELSE c.h
               IN  s.out[o] = IF ~Within(o, c.x, c.y, w, h) THEN Old[o] ELSE IF c.tile = <<0, 0>> THEN INK
                              ELSE (Y(o) % c.tile[2]) * c.tile[1] + (X(o) % c.tile[1])
          [] c.op = "copy" -> \A o \in Surface :
               LET u == X(o) - c.dx + c.x
                   v == Y(o) - c.dy + c.y
               IN  s.out[o] = IF Within(o, c.dx, c.dy, c.w, c.h) /\ u \in 0..WIDE - 1 /\ v \in 0..HIGH - 1 THEN Old[v * WIDE + u]
                              ELSE IF c.same THEN Old[o] ELSE o
          [] c.op = "text" ->
               /\ c.scale = 1 => s.out = draw_text(Old, c.x, c.y, c.glyphs)
               /\ \A o \in Surface :
                    LET lit(i) == /\ c.x + (i - 1) * (GW + 1) * c.scale >= 0
                                  /\ c.x + ((i - 1) * (GW + 1) + GW) * c.scale <= WIDE
                                  /\ <<X(o), Y(o)>> \in text(c.x + (i - 1) * (GW + 1) * c.scale, c.y - GH * c.scale,
                                                             <<c.glyphs[i]>>, GW, c.scale)
                    IN  s.out[o] = IF \E i \in 1..2 : lit(i) THEN INK ELSE Old[o]
          [] OTHER -> TRUE
(* A line joins its ends without a gap and stays in the box it marks as    *)
(* damage; rounded shapes are inside their rectangle and symmetric, round  *)
(* no more for a larger rectangle, and a shadow's bands surround the       *)
(* surface without touching it or each other; a colour mixed in two packed *)
(* channels does not leak from one to the other; boxes of text are exactly *)
(* as wide as asked, within the limits, and a progress bar is never wider  *)
(* when there is room for a bar at all, nor ever overflows its buffer.     *)
ShapesAreSound ==
  s.ready =>
    LET c == s.case
    IN  CASE c.op = "line" ->
               LET l == line(c.x, c.y, c.dx, c.dy)
                   last == Cardinality(DOMAIN l) - 1
               IN  /\ l[0] = <<c.x, c.y>> /\ l[last] = <<c.dx, c.dy>>
                   /\ last = Higher(Distance(c.x, c.dx), Distance(c.y, c.dy))
                   /\ \A i \in 1..last : Distance(l[i][1], l[i - 1][1]) <= 1 /\ Distance(l[i][2], l[i - 1][2]) <= 1
                   /\ Range(l) \subseteq Points(LineDamage(c.x, c.y, c.dx, c.dy))
          [] c.op = "shape" ->
               LET r == <<c.x, c.y, c.w, c.h>>
                   mirror(p) == <<2 * c.x + c.w - 1 - p[1], p[2]>>
                   flip(p) == <<p[1], 2 * c.y + c.h - 1 - p[2]>>
                   kernel == rounded_rect(r, c.radius, <<0, 0, 20, 20>>)
                   rust == fill_rounded_rect(r, c.radius)
                   top == fill_rounded_rect_top(r, c.radius)
                   band == draw_shadow(r, 3)
                   big == 2 * c.radius <= c.w /\ 2 * c.radius <= c.h
               IN  /\ kernel \subseteq Points(r) /\ rust \subseteq Points(r)
                   /\ \A p \in kernel : mirror(p) \in kernel /\ flip(p) \in kernel
                   /\ big => \A p \in rust : mirror(p) \in rust /\ flip(p) \in rust
                   /\ big => rust \subseteq top /\ \A p \in top : mirror(p) \in top
                   /\ Cardinality(UNION {band[i] : i \in 1..3}) = Cardinality(band[1]) + Cardinality(band[2]) + Cardinality(band[3])
                   /\ \A i \in 1..3 : band[i] \cap Points(r) = {}
                   /\ \A n \in 1..c.w * 3 : \A d \in 0..n - 1 : IconSource(d, c.w, n) \in 0..c.w - 1
          [] c.op = "mix" ->
               LET m == MixPacked(c.dst, c.src, c.alpha, 8)
               IN  \A k \in 1..2 :
                     /\ m[k] = (c.src[k] * c.alpha + c.dst[k] * (7 - c.alpha)) \div 8
                     /\ \A v \in {Mix(c.dst[k], c.src[k], c.alpha, 8), MixRust(c.dst[k], c.src[k], c.alpha, 8)} :
                          v >= Lower(c.dst[k], c.src[k]) /\ v <= Higher(c.dst[k], c.src[k])
          [] c.op = "tui" ->
               LET t == [i \in 1..c.label |-> "x"]
                   b == tui_banner(c.width, t)
                   bar == tui_progress_bar(c.width, c.percent, c.label)
                   w == tui_clamp_width(c.width)
                   room == w > (IF c.percent >= 100 THEN 7 ELSE 6) + (IF c.label > 0 THEN 1 + c.label ELSE 0)
               IN  /\ Len(tui_box_line(c.width, t)) = w /\ \A i \in 1..3 : Len(b[i]) = w
                   /\ SelectSeq(b[2], LAMBDA x : x = "x") = [i \in 1..Lower(c.label, w - 2) |-> "x"]
                   /\ Len(bar) <= TUI_MAX_WIDTH /\ (room => Len(bar) <= w)
                   /\ c.percent >= 100 => ~\E i \in 1..Len(bar) : bar[i] = "."
          [] OTHER -> TRUE
=============================================================================
