-------------------------------- MODULE Sdl ---------------------------------
(***************************************************************************)
(* The SDL of the NXEngine port (ports/nxengine/platform/sdl_demonos.c):   *)
(* surfaces with palettes, clipping, colour keys and conversion, bitmaps   *)
(* read from files, and frames shown on the display.                       *)
(*                                                                         *)
(* s.surf are the surfaces the game holds, s.heap the blocks allocated,    *)
(* s.want what each surface should show (history).  A colour is a number;  *)
(* a true-colour pixel is <<alpha, colour>>, an indexed one is an index.   *)
(***************************************************************************)
EXTENDS Integers, Sequences, FiniteSets, FiniteSetsExt

CONSTANTS Slots, Sizes, Colours, NCOLORS, Rects, Clips, Pictures, Faults, Displays, STRIP, MAX_BLANK_WIDTH, CALLS

VARIABLE s

NONE == <<>>
Indexed(f) == f.palette # NONE
Area(w, h) == (0..w - 1) \X (0..h - 1)
Rect(x, y, w, h) == [x |-> x, y |-> y, w |-> w, h |-> h]
Inside(p, r) == p[1] >= r.x /\ p[1] < r.x + r.w /\ p[2] >= r.y /\ p[2] < r.y + r.h

-----------------------------------------------------------------------------
(* The blocks of a surface in the order in which they are allocated, and   *)
(* what is still allocated when the n-th allocation fails: format_create   *)
(* and SDL_CreateRGBSurface free what they have.                           *)
Blocks(bits) == IF bits <= 8 THEN <<"surface", "format", "palette", "colors", "pixels">> ELSE <<"surface", "format", "pixels">>
format_free(bits) == IF bits <= 8 THEN {"format", "palette", "colors"} ELSE {"format"}
format_create(bits, n) ==
  LET taken == {Blocks(bits)[i] : i \in 2..n}
  IN  CASE Blocks(bits)[n + 1] = "palette" -> taken \ {"format"}
        [] Blocks(bits)[n + 1] = "colors" -> taken \ {"palette", "format"}
        [] OTHER -> taken
Leftover(bits, n) ==
  IF n = 0 THEN {}
  ELSE IF Blocks(bits)[n + 1] = "pixels" THEN ({"surface"} \cup format_create(bits, n)) \ (format_free(bits) \cup {"surface"})
  ELSE ({"surface"} \cup format_create(bits, n)) \ {"surface"}

Surface(w, h, bits, keyed) ==
  [w |-> w, h |-> h, bits |-> bits, keyed |-> keyed, key |-> IF bits <= 8 THEN 0 ELSE <<0, 0>>,
   palette |-> IF bits <= 8 THEN [i \in 0..NCOLORS - 1 |-> 0] ELSE NONE, clip |-> Rect(0, 0, w, h),
   px |-> [p \in Area(w, h) |-> IF bits <= 8 THEN 0 ELSE <<0, 0>>]]
(* room is the number of allocations that the heap still has room for.     *)
SDL_CreateRGBSurface(t, slot, u, room) ==
  LET B == Blocks(u.bits)
  IN  IF room < Len(B) THEN [t EXCEPT !.heap = @ \cup {<<slot, b>> : b \in Leftover(u.bits, room)}]
      ELSE [t EXCEPT !.surf[slot] = u, !.heap = @ \cup {<<slot, B[i]>> : i \in DOMAIN B}]
SDL_FreeSurface(t, slot) ==
  IF t.surf[slot] = NONE THEN t
  ELSE [t EXCEPT !.surf[slot] = NONE,
                 !.heap = @ \ {<<slot, b>> : b \in format_free(t.surf[slot].bits) \cup {"pixels", "surface"}}]

-----------------------------------------------------------------------------
SDL_GetRGB(u, pixel) == IF Indexed(u) THEN (IF pixel < NCOLORS THEN u.palette[pixel] ELSE 0) ELSE pixel[2]
SDL_MapRGB(u, c) ==
  IF Indexed(u)
  THEN LET I == {i \in DOMAIN u.palette : u.palette[i] = c} IN IF I = {} THEN 0 ELSE CHOOSE i \in I : \A j \in I : i <= j
  ELSE <<0, c>>
SDL_SetColors(u, first, colours) ==
  IF ~Indexed(u) \/ first < 0 \/ first + Len(colours) > NCOLORS THEN u
  ELSE [u EXCEPT !.palette = [i \in DOMAIN @ |-> IF i \in first..first + Len(colours) - 1 THEN colours[i - first + 1] ELSE @[i]]]
SDL_SetColorKey(u, on, key) == IF on THEN [u EXCEPT !.keyed = TRUE, !.key = key] ELSE [u EXCEPT !.keyed = FALSE]
SDL_SetClipRect(u, r) == [u EXCEPT !.clip = IF r = NONE THEN Rect(0, 0, u.w, u.h) ELSE r]

(* The part of a rectangle from the left (upper) edge of the surface on,   *)
(* and then up to its right (lower) edge.                                  *)
clamp_rect_to_surface(r, u) ==
  LET a == IF r.x < 0 THEN [r EXCEPT !.w = r.w + r.x, !.x = 0] ELSE r
      b == IF r.y < 0 THEN [a EXCEPT !.h = r.h + r.y, !.y = 0] ELSE a
      c == IF b.x + b.w > u.w THEN [b EXCEPT !.w = u.w - b.x] ELSE b
  IN  IF c.y + c.h > u.h THEN [c EXCEPT !.h = u.h - c.y] ELSE c

SDL_FillRect(u, r, pixel) ==
  LET a == clamp_rect_to_surface(IF r = NONE THEN Rect(0, 0, u.w, u.h) ELSE r, u)
  IN  [u EXCEPT !.px = [p \in DOMAIN @ |-> IF a.w > 0 /\ a.h > 0 /\ Inside(p, a) THEN pixel ELSE @[p]]]

(* The destination is cut at its clip rectangle, on the left and above     *)
(* moving the source along, and then at the surface.                       *)
ClippedLeft(q, clip) ==
  LET dx == IF q.dst.x < clip.x THEN clip.x - q.dst.x ELSE 0
      dy == IF q.dst.y < clip.y THEN clip.y - q.dst.y ELSE 0
  IN  [src |-> [q.src EXCEPT !.x = @ + dx, !.y = @ + dy],
       dst |-> [x |-> q.dst.x + dx, y |-> q.dst.y + dy, w |-> q.dst.w - dx, h |-> q.dst.h - dy]]
ClippedRight(r, clip) ==
  LET w == clip.x + clip.w - r.x
      h == clip.y + clip.h - r.y
  IN  [r EXCEPT !.w = IF @ > w THEN w ELSE @, !.h = IF @ > h THEN h ELSE @]
SDL_BlitSurface(src, r, dst, x, y) ==
  LET sr == IF r = NONE THEN Rect(0, 0, src.w, src.h) ELSE r
      q == ClippedLeft([src |-> sr, dst |-> Rect(x, y, sr.w, sr.h)], dst.clip)
      d == clamp_rect_to_surface(ClippedRight(q.dst, dst.clip), dst)
      From(p) == src.px[<<q.src.x + p[1] - d.x, q.src.y + p[2] - d.y>>]
  IN  IF (src.bits <= 8) # (dst.bits <= 8) \/ d.w <= 0 \/ d.h <= 0 THEN dst
      ELSE [dst EXCEPT !.px = [p \in DOMAIN @ |-> IF Inside(p, d) /\ ~(src.keyed /\ From(p) = src.key) THEN From(p) ELSE @[p]]]

(* A surface of the display's format is copied as it is; an indexed one is *)
(* converted, with full alpha.  The copy has the flags, not the key.       *)
SDL_DisplayFormat(u) ==
  [Surface(u.w, u.h, 32, u.keyed) EXCEPT
     !.px = [p \in DOMAIN @ |-> IF Indexed(u) THEN <<255, SDL_GetRGB(u, u.px[p])>> ELSE u.px[p]]]

-----------------------------------------------------------------------------
(* A bitmap file: f.rows are the bytes of each row in the file, from the   *)
(* bottom up if the height is positive; f.fault is the first thing in the  *)
(* file, or of the calls on it, that SDL_LoadBMP refuses.                  *)
Unpacked(row, bpp, x) ==
  CASE bpp = 8 -> row[x + 1]
    [] bpp = 4 -> LET b == row[x \div 2 + 1] IN IF x % 2 = 0 THEN b \div 16 ELSE b % 16
    [] bpp = 1 -> (row[x \div 8 + 1] \div 2 ^ (7 - (x % 8))) % 2
(* Refused before the surface exists; or while it does, with one more      *)
(* block, palette_raw or file_buffer, allocated.                           *)
Early == {"open", "short", "magic", "header", "palette"}
Late == {"palette_raw", "palette_read", "buffer", "seek", "row"}
SDL_LoadBMP(t, slot, f, room) ==
  LET height == IF f.height < 0 THEN -f.height ELSE f.height
      u == Surface(f.width, height, 8, FALSE)
      v == [u EXCEPT !.palette = [i \in DOMAIN @ |-> IF i < Len(f.palette) THEN f.palette[i + 1] ELSE @[i]],
                     !.px = [p \in DOMAIN @ |-> Unpacked(f.rows[IF f.height > 0 THEN height - p[2] ELSE p[2] + 1], f.bpp, p[1])]]
      a == SDL_CreateRGBSurface(t, slot, v, room)
  IN  IF f.fault \in Early \/ a.surf[slot] = NONE THEN (IF f.fault \in Early THEN t ELSE a)
      ELSE IF f.fault \in Late THEN SDL_FreeSurface(a, slot)
      ELSE a

-----------------------------------------------------------------------------
(* SDL_Flip: the first one opens the services, blanks the screen strip by  *)
(* strip and makes the surface; the frame is expanded into nx_argb, a      *)
(* block that is replaced when the size changes, and shown in the middle.  *)
Blanked(d) == IF d.width > 0 /\ d.height > 0 /\ d.width <= MAX_BLANK_WIDTH THEN d.height ELSE 0
Strips(d) == {<<y, IF d.height - y > STRIP THEN STRIP ELSE d.height - y>> : y \in {STRIP * i : i \in 0..(Blanked(d) - 1) \div STRIP}}
Started(t, u, d, F) ==
  LET a == [t EXCEPT !.handles = {"display", "factory"} \ F]
      b == [a EXCEPT !.info = d, !.black = {r \in 0..d.height - 1 : \E y \in Strips(d) : r \in y[1]..y[1] + y[2] - 1}]
  IN  IF F \cap {"display", "factory"} # {} THEN a ELSE IF "surface" \in F THEN b
      ELSE [b EXCEPT !.handles = @ \cup {"surface"}, !.room = u.w * u.h]
SDL_Flip(t, slot, d, F) ==
  LET u == t.surf[slot]
      a == IF "display" \in t.handles THEN t ELSE Started(t, u, d, F)
      fresh == a.argb # <<u.w, u.h>>
      b == [a EXCEPT !.argb = IF ~fresh THEN @ ELSE IF "argb" \in F THEN NONE ELSE <<u.w, u.h>>,
                     !.heap = IF ~fresh THEN @ ELSE (@ \ {<<0, "argb">>}) \cup (IF "argb" \in F THEN {} ELSE {<<0, "argb">>})]
      x == IF b.info.width > u.w THEN (b.info.width - u.w) \div 2 ELSE 0
      y == IF b.info.height > u.h THEN (b.info.height - u.h) \div 2 ELSE 0
  IN  IF "display" \notin t.handles /\ a.handles # {"display", "factory", "surface"} THEN a
      ELSE IF b.argb = NONE \/ "surface" \notin b.handles \/ u.w * u.h > b.room THEN b
      ELSE [b EXCEPT !.size = <<u.w, u.h>>, !.shown = [p \in DOMAIN u.px |-> [at |-> <<x + p[1], y + p[2]>>, colour |-> SDL_GetRGB(u, u.px[p])]]]

-----------------------------------------------------------------------------
(* What the surfaces should show, as colours: what SDL says of each call.  *)
Shows(u) == [p \in DOMAIN u.px |-> SDL_GetRGB(u, u.px[p])]
Set(t, slot, u, want) == [t EXCEPT !.surf[slot] = u, !.want[slot] = want]
Live(t) == {i \in Slots : t.surf[i] # NONE}
Step(t) == s.calls < CALLS /\ s' = [t EXCEPT !.calls = @ + 1]

(* The bytes of a row of indices, the first pixel in the highest bits, and *)
(* the file of a picture, whose rows may run upwards.                      *)
Packed(index, w, y, bpp) ==
  LET per == 8 \div bpp
      at(x) == IF x < w THEN index[<<x, y>>] ELSE 0
  IN  [b \in 1..(w + per - 1) \div per |-> FoldSet(LAMBDA k, sum : sum + at((b - 1) * per + k) * 2 ^ (bpp * (per - 1 - k)), 0, 0..per - 1)]
File(pic, up, fault) ==
  [width |-> pic.w, height |-> IF up THEN pic.h ELSE -pic.h, bpp |-> pic.bpp, palette |-> pic.palette, fault |-> fault,
   rows |-> [i \in 1..pic.h |-> Packed(pic.index, pic.w, IF up THEN pic.h - i ELSE i - 1, pic.bpp)]]

Create ==
  \E slot \in Slots \ Live(s), z \in Sizes, bits \in {8, 32}, room \in {0, 1, 2, 3, 4, 5} :
    LET t == SDL_CreateRGBSurface(s, slot, Surface(z[1], z[2], bits, FALSE), room)
    IN  Step([t EXCEPT !.want[slot] = IF t.surf[slot] = NONE THEN NONE ELSE [p \in Area(z[1], z[2]) |-> 0]])
Load ==
  \E slot \in Slots \ Live(s), pic \in Pictures, up \in BOOLEAN, fault \in Faults, room \in {4, 5} :
    LET t == SDL_LoadBMP(s, slot, File(pic, up, fault), room)
    IN  Step([t EXCEPT !.want[slot] = IF t.surf[slot] = NONE THEN NONE ELSE [p \in DOMAIN pic.index |-> pic.palette[pic.index[p] + 1]]])
Fill ==
  \E slot \in Live(s), r \in Rects, c \in Colours :
    LET u == s.surf[slot]
        hit(p) == r = NONE \/ Inside(p, r)
    IN  /\ SDL_GetRGB(u, SDL_MapRGB(u, c)) = c
        /\ Step(Set(s, slot, SDL_FillRect(u, r, SDL_MapRGB(u, c)), [p \in DOMAIN u.px |-> IF hit(p) THEN c ELSE s.want[slot][p]]))
(* From a rectangle of the source, to a clip rectangle that starts in the  *)
(* destination.  Indexed surfaces share a palette.                         *)
Blit ==
  \E a \in Live(s), b \in Live(s), r \in Rects, at \in {<<-1, 0>>, <<0, 1>>, <<1, -1>>} :
    LET src == s.surf[a]
        dst == s.surf[b]
        z == IF r = NONE THEN Rect(0, 0, src.w, src.h) ELSE r
        from(p) == <<z.x + p[1] - at[1], z.y + p[2] - at[2]>>
        hit(p) == Inside(from(p), z) /\ Inside(p, dst.clip) /\ ~(src.keyed /\ src.px[from(p)] = src.key)
    IN  /\ a # b /\ src.bits = dst.bits /\ src.palette = dst.palette
        /\ z.x >= 0 /\ z.y >= 0 /\ z.x + z.w <= src.w /\ z.y + z.h <= src.h
        /\ Step(Set(s, b, SDL_BlitSurface(src, r, dst, at[1], at[2]),
                    [p \in DOMAIN dst.px |-> IF hit(p) THEN s.want[a][from(p)] ELSE s.want[b][p]]))
Change ==
  \E slot \in Live(s) :
    LET u == s.surf[slot]
    IN  \/ \E r \in Clips : Step([s EXCEPT !.surf[slot] = SDL_SetClipRect(u, r)])
        \/ \E on \in BOOLEAN, c \in Colours : Step([s EXCEPT !.surf[slot] = SDL_SetColorKey(u, on, SDL_MapRGB(u, c))])
        \/ \E first \in {-1, 0, 1}, c \in Colours :
             LET v == SDL_SetColors(u, first, <<c, c>>) IN Step(Set(s, slot, v, Shows(v)))
        \/ \E to \in Slots \ Live(s), room \in {2, 3} :
             LET t == SDL_CreateRGBSurface(s, to, SDL_DisplayFormat(u), room)
             IN  Step([t EXCEPT !.want[to] = IF t.surf[to] = NONE THEN NONE ELSE s.want[slot]])
        \/ Step([SDL_FreeSurface(s, slot) EXCEPT !.want[slot] = NONE])
Flip == \E slot \in Live(s), d \in Displays, F \in {{}, {"display"}, {"factory"}, {"surface"}, {"argb"}} :
          /\ s.info.width # 0 => d = s.info
          /\ Step(SDL_Flip(s, slot, d, F))

Init == s = [surf |-> [i \in Slots |-> NONE], want |-> [i \in Slots |-> NONE], heap |-> {}, handles |-> {}, argb |-> NONE,
             room |-> 0, size |-> NONE, info |-> [width |-> 0, height |-> 0], black |-> {}, shown |-> NONE, calls |-> 0]
Next == Create \/ Load \/ Fill \/ Blit \/ Change \/ Flip

-----------------------------------------------------------------------------
(* The heap holds the blocks of the surfaces the game holds, and one frame *)
(* buffer: no creation, conversion or load that fails half way leaves a    *)
(* block behind, and no surface loses one.                                 *)
HeapIsOwned ==
  s.heap = UNION {{<<i, b>> : b \in {Blocks(s.surf[i].bits)[n] : n \in DOMAIN Blocks(s.surf[i].bits)}} : i \in Live(s)}
           \cup (IF s.argb = NONE THEN {} ELSE {<<0, "argb">>})

(* A surface shows what was drawn on it: a fill colours its rectangle and  *)
(* nothing else; a blit copies the source's pixels to where they belong    *)
(* inside the clip rectangle, leaving out those of the key; a conversion   *)
(* keeps the colours; a bitmap is loaded the right way up, whatever the    *)
(* number of bits of a pixel and the order of the rows.                    *)
SurfacesShowWhatWasDrawn == \A i \in Live(s) : Shows(s.surf[i]) = s.want[i]

(* A frame that fits is shown whole, centred, and everything around it is  *)
(* black, on every screen up to the width of the strip buffer.             *)
FrameIsCentred ==
  s.shown # NONE =>
    /\ s.size[1] <= s.info.width /\ s.size[2] <= s.info.height =>
         /\ \A p \in DOMAIN s.shown : s.shown[p].at[1] \in 0..s.info.width - 1 /\ s.shown[p].at[2] \in 0..s.info.height - 1
         /\ LET left == s.shown[<<0, 0>>].at[1]
                right == s.info.width - 1 - s.shown[<<s.size[1] - 1, 0>>].at[1]
            IN  right - left \in {0, 1}
    /\ s.info.width <= MAX_BLANK_WIDTH => s.black = 0..s.info.height - 1
=============================================================================
