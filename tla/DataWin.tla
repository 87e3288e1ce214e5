------------------------------- MODULE DataWin -------------------------------
(***************************************************************************)
(* How the Butterscotch port reads a GameMaker package                     *)
(* (ports/butterscotch/platform/datawin_index.c): the index of its chunks, *)
(* the inspection of every chunk before the game starts, and the lookups   *)
(* the running game does, which check less because the inspection went     *)
(* before them.                                                            *)
(*                                                                         *)
(* A package is the fields written into it, by byte address; a read that   *)
(* falls between them gives 0.  A function of the code is an outcome: ok   *)
(* is what it returns, inside whether all it read so far was inside the    *)
(* chunk it was reading, value what it hands back.  a && b is `b, unless   *)
(* the code has returned after a'.  Checksums and statistics are left out, *)
(* words are 20 bits wide.                                                 *)
(***************************************************************************)
EXTENDS Integers, Sequences, FiniteSets, TLC

CONSTANTS Games, Damage, MAX_CHUNKS, SCENE_INSTANCE_MAX, Decodes, ARENA, HEADER

VARIABLE s

WORD == 1048576
Int32(v) == IF v >= WORD \div 2 THEN v - WORD ELSE v
FORM == 900
GEN8 == 901
STRG == 902
CODE == 903
OBJT == 904
ROOM == 905
SPRT == 906
TPAG == 907
TXTR == 908
SOND == 909
AUDO == 910
IHDR == 911
IEND == 912
PNG == 137
BZH == 913

(***************************************************************************)
(* A small game of each version: the packages that are read.               *)
(***************************************************************************)
From(g, minor) == g.major > 2022 \/ (g.major = 2022 /\ g.minor >= minor)
Managed(g) == From(g, 5)
ImageFields(g) == \/ g.major > 2
                  \/ g.major = 2 /\ g.minor > 2
                  \/ g.major = 2 /\ g.minor = 2 /\ g.release > 2
                  \/ g.major = 2 /\ g.minor = 2 /\ g.release = 2 /\ g.build >= 302
FixedBytes(g) == (IF Managed(g) THEN 4 ELSE 0) + (IF g.wad = 17 THEN 4 ELSE 0) + (IF g.wad <= 8 THEN 68 ELSE 80)
InstanceSize(g) == 36 + (IF g.wad >= 16 THEN 4 ELSE 0) + (IF ImageFields(g) THEN 8 ELSE 0)
FrameListOffset(g) == IF g.wad = 17 THEN 84 ELSE 56
BlockSize(g) == From(g, 3) \/ g.wad = 17
Dimensions(g) == From(g, 9) \/ g.wad = 17
MetadataSize(g) == 8 + (IF g.major >= 2 THEN 4 ELSE 0) + (IF BlockSize(g) THEN 4 ELSE 0) + (IF Dimensions(g) THEN 12 ELSE 0)
SoundSize(g) == IF g.wad <= 12 THEN 40 ELSE 36

Fields(at, step, t) == {<<at + step * (i - 1), t[i]>> : i \in DOMAIN t}
Row(at, t) == Fields(at, 4, t)
Package(g) ==
  LET G == 16
      gsz == IF g.wad <= 8 THEN 44 ELSE 72
      S == G + gsz + 8
      C == S + 14 + 8
      csz == IF g.wad <= 14 THEN 18 ELSE 30
      O == C + csz + 8
      fixed == FixedBytes(g)
      shift == IF Managed(g) THEN 4 ELSE 0
      late == shift + (IF g.wad = 17 THEN 4 ELSE 0)
      obj == O + 12
      types == obj + fixed + 8
      none == types + 24
      evl == none + 4
      act == evl + 20
      R == act + 56 + 8
      room == R + 8
      bg == room + 88
      vw == bg + 48
      ins == vw + 64
      til == ins + 8 + InstanceSize(g)
      P == til + 64 + 8
      frames == P + 8 + FrameListOffset(g)
      T == frames + 8 + 8
      X == T + 30 + 8
      meta == MetadataSize(g)
      blob == X + 12 + 2 * meta
      N == blob + 45 + 18 + 8
      A == N + 8 + SoundSize(g) + 8
      ends == <<<<GEN8, G, gsz>>, <<STRG, S, 14>>, <<CODE, C, csz>>, <<OBJT, O, act + 56 - O>>, <<ROOM, R, til + 64 - R>>,
                <<SPRT, P, frames + 8 - P>>, <<TPAG, T, 30>>, <<TXTR, X, blob + 63 - X>>, <<SOND, N, 8 + SoundSize(g)>>, <<AUDO, A, 14>>>>
      fields ==
        Row(0, <<FORM, A + 14 - 8>>) \cup UNION {Row(c[2] - 8, <<c[1], c[3]>>) : c \in {ends[i] : i \in DOMAIN ends}}
        \cup {<<G + 1, g.wad>>} \cup (IF g.wad <= 8 THEN Row(G + 36, <<320, 200>>)
                                      ELSE Row(G + 44, <<g.major, g.minor, g.release, g.build, 320, 200>>))
        \cup Row(S, <<1, S + 8, 1, 65>>) \cup {<<S + 13, 0>>}
        \cup Row(C, <<1, C + 8, S + 12, 2>>) \cup (IF g.wad <= 14 THEN {} ELSE {<<C + 20, 8>>})
        \cup Row(O, <<2, obj, 0, S + 12, 0, 1>>) \cup Row(obj + shift + 12, <<0, 5, 1>>)
        \cup Row(obj + late + 24, <<WORD - 100, WORD - 1, 0, 1>>) \cup Row(obj + late + 64, <<1>>)
        \cup (IF g.wad <= 8 THEN {} ELSE Row(obj + late + 72, <<1, 0>>))
        \cup Row(types, <<5, evl, none, none, none, evl, 0, 1, evl + 8, 7, 1, act>>) \cup Row(act + 12, <<0, 1, 0, 2, S + 12, 0, 1, 0, 1, 0>>)
        \cup Row(R, <<1, room, S + 12, 0, 64, 48, 30, 0, 9, 1, 0, 3, bg, vw, ins, til, 0>>)
        \cup Row(bg, <<1, bg + 8, 1, 0>>) \cup Row(bg + 44, <<1>>) \cup Row(vw, <<1, vw + 8, 1>>) \cup Row(vw + 60, <<0>>)
        \cup Row(ins, <<1, ins + 8, 3, 4, 0, 17, 0>>) \cup Row(til, <<1, til + 8>>)
        \cup (IF g.wad >= 16 THEN Row(ins + 8 + InstanceSize(g) - 4, <<WORD - 1>>) ELSE {})
        \cup Row(P, <<1, P + 8>>) \cup Row(frames, <<1, T + 8>>)
        \cup Row(T, <<1, T + 8>>) \cup Fields(T + 8, 2, <<0, 1, 2, 2, 0, 0, 2, 2, 2, 3, 1>>)
        \cup Row(X, <<2, X + 12, X + 12 + meta>>) \cup {<<X + 8 + meta, blob>>, <<X + 8 + 2 * meta, blob + 45>>}
        \cup {<<blob, PNG>>} \cup Row(blob + 8, <<13, IHDR, 2, 3>>) \cup Row(blob + 33, <<0, IEND>>)
        \cup {<<blob + 49, 4>>, <<blob + 51, 3>>, <<blob + 53, 9>>, <<blob + 57, BZH>>, <<blob + 60, 1>>}
        \cup Row(N, <<1, N + 8, S + 12, 3, S + 12, 0>>) \cup Row(A, <<1, A + 8, 2>>)
  IN  [size |-> A + 14, ends |-> {c[2] + c[3] : c \in {ends[i] : i \in DOMAIN ends}}, fields |-> fields]
(* The bytes, with each field at its first one.                            *)
Bytes(p) == LET at == {f[1] : f \in p.fields}
            IN  [i \in 1..p.size |-> IF i - 1 \in at THEN (CHOOSE f \in p.fields : f[1] = i - 1)[2] ELSE 0] \o <<>>

(***************************************************************************)
(* Reading.                                                                *)
(***************************************************************************)
fileSize == Len(s.bytes)
W(a) == IF a = s.cell THEN s.word ELSE IF a < fileSize THEN s.bytes[a + 1] ELSE 0
Chunk(tag, at, size) == [tag |-> tag, at |-> at, size |-> size]
End(c) == c.at + c.size
Outcome(ok, inside, value) == [ok |-> ok, inside |-> inside, value |-> value]
Need(condition) == Outcome(condition, TRUE, 0)
Return(v) == Outcome(TRUE, TRUE, v)
Read(c, at, n) == Outcome(TRUE, at >= c.at /\ at + n <= End(c) /\ End(c) <= fileSize, W(at))
a && b == IF ~a.ok THEN a ELSE [b EXCEPT !.inside = a.inside /\ @]
(* A loop over 0..n-1 that returns at the first entry that fails.          *)
Each(n, Body(_)) ==
  LET runs == {<<i, Body(i)>> : i \in 0..(n - 1)}
      bad == {r[1] : r \in {x \in runs : ~x[2].ok}}
  IN  Outcome(bad = {}, \A r \in runs : r[2].inside \/ \E i \in bad : i < r[1], n)
Bool32(c, at) == Read(c, at, 4) && Need(W(at) <= 1)
read_bool32(c, at, n) == Each(n, LAMBDA i : Bool32(c, at + 4 * i))

(***************************************************************************)
(* The index of the chunks.                                                *)
(***************************************************************************)
has(ix, tag) == \E i \in DOMAIN ix : ix[i].tag = tag
find(ix, tag) == ix[CHOOSE i \in DOMAIN ix : ix[i].tag = tag /\ \A j \in 1..(i - 1) : ix[j].tag # tag]

RECURSIVE chunks(_, _)
chunks(file, ix) ==
  LET header == IF ix = <<>> THEN 8 ELSE End(ix[Len(ix)])
      size == W(header + 4)
  IN  IF header >= file.size THEN Return(ix)
      ELSE Need(file.size - header >= 8 /\ Len(ix) # MAX_CHUNKS) && Read(file, header, 8)
           && Need(size <= file.size - (header + 8)) && chunks(file, Append(ix, Chunk(W(header), header + 8, size)))
build(size) ==
  LET file == Chunk(FORM, 0, size)
      all == chunks(file, <<>>)
  IN  Need(size >= 16) && Read(file, 0, 8) && Need(W(0) = FORM /\ W(4) + 8 = size) && all
      && Need(all.value # <<>> /\ \A i, j \in DOMAIN all.value : all.value[i].tag = all.value[j].tag => i = j)
      && Return(all.value)

pointerCount(ix, tag) ==
  LET c == find(ix, tag)
      n == W(c.at)
  IN  Need(has(ix, tag)) && Need(c.size >= 4) && Read(c, c.at, 4) && Need(n * 4 <= c.size - 4)
      && Each(n, LAMBDA i : Read(c, c.at + 4 + 4 * i, 4)
                            && Need(W(c.at + 4 + 4 * i) = 0 \/ W(c.at + 4 + 4 * i) \in (c.at + 4 + 4 * n)..(End(c) - 1)))
bounded_pointer_list(c, list) ==
  Need(list >= c.at /\ list + 4 <= End(c)) && Read(c, list, 4) && Need(W(list) * 4 <= End(c) - (list + 4))
  && Each(W(list), LAMBDA i : Read(c, list + 4 + 4 * i, 4)
                              && Need(W(list + 4 + 4 * i) = 0 \/ W(list + 4 + 4 * i) \in c.at..(End(c) - 1)))
pointer_list_entry(list, i) == W(list + 4 + 4 * i)
(* The entries of a list, read again one by one: null ones are skipped     *)
(* where the code says continue.                                           *)
Entry(c, list, i) == Read(c, list + 4 + 4 * i, 4)
Skipping(c, list, n, Body(_)) ==
  Each(n, LAMBDA i : Entry(c, list, i)
                     && (IF pointer_list_entry(list, i) = 0 THEN Return(0) ELSE Body(pointer_list_entry(list, i))))
Listed(c, list, n, size, Body(_)) ==
  Each(n, LAMBDA i : Entry(c, list, i)
                     && Need(pointer_list_entry(list, i) # 0 /\ pointer_list_entry(list, i) + size <= End(c))
                     && Body(pointer_list_entry(list, i)))

string_content_pointer_is_valid(strg, p) ==
  IF p = 0 THEN Return(0)
  ELSE Need(p >= strg.at + 4 /\ p < End(strg)) && Read(strg, p - 4, 4) && Need(p + W(p - 4) < End(strg))
       && Read(strg, p + W(p - 4), 1) && Need(W(p + W(p - 4)) = 0)

(***************************************************************************)
(* The inspection.                                                         *)
(***************************************************************************)
inspectStrings(ix) ==
  LET c == find(ix, STRG)
  IN  pointerCount(ix, STRG)
      && Skipping(c, c.at, W(c.at), LAMBDA p :
           Need(p + 5 <= End(c)) && Read(c, p, 4) && Need(p + 5 + W(p) <= End(c))
           && Each(W(p), LAMBDA j : Read(c, p + 4 + j, 1) && Need(W(p + 4 + j) # 0))
           && Read(c, p + 4 + W(p), 1) && Need(W(p + 4 + W(p)) = 0))

readGen8(ix) ==
  LET c == find(ix, GEN8)
      compact == W(c.at + 1) <= 8 /\ c.size < 108
      wide == IF compact THEN c.at + 36 ELSE c.at + 60
  IN  Need(has(ix, GEN8)) && Need(c.size >= 44) && Read(c, c.at, 4) && Need(compact \/ c.size >= 72) && Read(c, wide, 8)
      && Need(W(c.at + 1) \in 8..17 /\ W(wide) \in 1..16384 /\ W(wide + 4) \in 1..16384)
      && Return(IF compact THEN [wad |-> W(c.at + 1), major |-> 1, minor |-> 0, release |-> 0, build |-> 198]
                ELSE [wad |-> W(c.at + 1), major |-> W(c.at + 44), minor |-> W(c.at + 48), release |-> W(c.at + 52),
                      build |-> W(c.at + 56)])

inspectCode(ix, wad) ==
  LET c == find(ix, CODE)
      old == wad <= 14
  IN  Need(has(ix, CODE) /\ has(ix, STRG)) && pointerCount(ix, CODE)
      && Skipping(c, c.at, W(c.at), LAMBDA p :
           LET size == W(p + 4)
               bytecode == IF old THEN p + 8 ELSE p + 12 + Int32(W(p + 12))
           IN  Need(p + (IF old THEN 8 ELSE 20) <= End(c)) && Read(c, p, IF old THEN 8 ELSE 20) && Need(bytecode >= 0)
               && string_content_pointer_is_valid(find(ix, STRG), W(p))
               && Need(bytecode >= c.at /\ bytecode <= End(c) /\ size <= End(c) - bytecode)
               && (IF size = 0 THEN Return(0) ELSE Read(c, bytecode, size)))
      && Return(W(c.at))

(* Objects, their lists of events by type, and the actions of an event.    *)
inspectAction(ix, c, codeCount, action) ==
  LET codeId == Int32(W(action + 32))
  IN  read_bool32(c, action + 12, 3) && Read(c, action + 24, 20) && read_bool32(c, action + 44, 2) && Read(c, action + 52, 4)
      && string_content_pointer_is_valid(find(ix, STRG), W(action + 28)) && Need(codeId >= -1 /\ codeId < codeCount)
inspectEvents(ix, c, codeCount, list) ==
  Need(list # 0) && bounded_pointer_list(c, list)
  && Listed(c, list, W(list), 8, LAMBDA event :
       Read(c, event, 4) && bounded_pointer_list(c, event + 4)
       && Listed(c, event + 4, W(event + 4), 56, LAMBDA action : inspectAction(ix, c, codeCount, action)))
inspectObject(ix, c, g, count, codeCount, object) ==
  LET managed == IF Managed(g) THEN 4 ELSE 0
      late == object + managed + (IF g.wad = 17 THEN 4 ELSE 0)
      vertices == Int32(W(late + 64))
      types == object + FixedBytes(g) + vertices * 8
  IN  Need(object + FixedBytes(g) <= End(c)) && Read(c, object, 8) && Bool32(c, object + 8)
      && (IF Managed(g) THEN Bool32(c, object + 12) ELSE Return(0)) && Bool32(c, object + managed + 12)
      && Read(c, object + managed + 16, 4) && Bool32(c, object + managed + 20) && Read(c, late + 24, 8) && read_bool32(c, late + 32, 2)
      && Read(c, late + 40, 4) && Read(c, late + 64, 4) && Need(vertices >= 0 /\ vertices * 8 <= End(c) - (late + 68))
      && (IF g.wad > 8 THEN read_bool32(c, late + 72, 2) ELSE Return(0))
      && string_content_pointer_is_valid(find(ix, STRG), W(object)) && Need(Int32(W(late + 24)) < count)
      && bounded_pointer_list(c, types) && Need(W(types) <= 15)
      && Each(W(types), LAMBDA t : Entry(c, types, t) && inspectEvents(ix, c, codeCount, pointer_list_entry(types, t)))
inspectObjects(ix, g, codeCount) ==
  LET c == find(ix, OBJT)
  IN  pointerCount(ix, OBJT) && Need(has(ix, STRG))
      && Skipping(c, c.at, W(c.at), LAMBDA object : inspectObject(ix, c, g, W(c.at), codeCount, object)) && Return(W(c.at))

code_reference_is_valid(id, codeCount) == Int32(id) >= -1 /\ Int32(id) < codeCount
inspectBackgrounds(c, list) ==
  bounded_pointer_list(c, list) && Need(W(list) <= 8)
  && Listed(c, list, W(list), 40, LAMBDA r : Read(c, r, 8) && Read(c, r + 36, 4) && Need(W(r) <= 1 /\ W(r + 4) <= 1 /\ W(r + 36) <= 1))
inspectViews(c, list, objectCount) ==
  bounded_pointer_list(c, list) && Need(W(list) <= 8)
  && Listed(c, list, W(list), 56, LAMBDA r : Read(c, r, 4) && Read(c, r + 52, 4) && Need(W(r) <= 1 /\ Int32(W(r + 52)) \in (-1)..(objectCount - 1)))
inspectInstances(c, g, list, objectCount, codeCount) ==
  LET size == InstanceSize(g)
  IN  bounded_pointer_list(c, list)
      && Listed(c, list, W(list), size, LAMBDA r :
           Read(c, r + 8, 12) && (IF g.wad >= 16 THEN Read(c, r + size - 4, 4) ELSE Return(0))
           && Need(/\ Int32(W(r + 8)) \in (-1)..(objectCount - 1)
                   /\ code_reference_is_valid(W(r + 16), codeCount)
                   /\ g.wad >= 16 => code_reference_is_valid(W(r + size - 4), codeCount)))
inspectRoom(ix, c, g, objectCount, codeCount, room) ==
  LET strg == find(ix, STRG)
  IN  Need(room + 88 <= End(c)) && Read(c, room, 20) && Bool32(c, room + 20) && Read(c, room + 24, 4) && Bool32(c, room + 28)
      && Read(c, room + 32, 24) && Bool32(c, room + 56)
      && string_content_pointer_is_valid(strg, W(room)) && string_content_pointer_is_valid(strg, W(room + 4))
      && Need(W(room + 8) \in 1..65535 /\ W(room + 12) \in 1..65535 /\ code_reference_is_valid(W(room + 32), codeCount))
      && inspectBackgrounds(c, W(room + 40)) && inspectViews(c, W(room + 44), objectCount)
      && inspectInstances(c, g, W(room + 48), objectCount, codeCount)
      && bounded_pointer_list(c, W(room + 52)) && Listed(c, W(room + 52), W(W(room + 52)), 56, LAMBDA r : Return(0))
inspectRooms(ix, g, objectCount, codeCount) ==
  LET c == find(ix, ROOM)
  IN  Need(has(ix, ROOM) /\ has(ix, STRG)) && pointerCount(ix, ROOM)
      && Skipping(c, c.at, W(c.at), LAMBDA room : inspectRoom(ix, c, g, objectCount, codeCount, room))

(* Texture blobs: PNG, or a header and a BZip2 stream.  The value is the   *)
(* width, the height and the bytes used.                                   *)
Span(start, limit) == (limit - start) % WORD
Sized(w, h) == Need(w \in 1..16384 /\ h \in 1..16384)
parse_compressed_texture(c, start, limit) ==
  Need(Span(start, limit) >= 15) && Read(c, start + 4, 8) && Sized(W(start + 4), W(start + 6)) && Read(c, start + 12, 3)
  && Need(W(start + 12) = BZH) && (IF limit <= start THEN Return(0) ELSE Read(c, start, limit - start))
  && Return(<<W(start + 4), W(start + 6), Span(start, limit)>>)
RECURSIVE png_chunks(_, _, _, _)
png_chunks(c, start, limit, at) ==
  LET size == W(at)
      first == at = start + 8
      next == at + 12 + size
  IN  Need(at < limit) && Need(limit - at >= 12) && Read(c, at, 8) && Need(size + 12 <= limit - at)
      && (IF first THEN Need(W(at + 4) = IHDR /\ size = 13) && Read(c, at + 8, 8) && Sized(W(at + 8), W(at + 12)) ELSE Return(0))
      && (IF W(at + 4) # IEND THEN png_chunks(c, start, limit, next)
          ELSE Read(c, start, next - start) && Need(size = 0) && Return(<<W(start + 16), W(start + 20), next - start>>))
parse_png(c, start, limit) ==
  Need(Span(start, limit) >= 33) && Read(c, start, 8) && Need(W(start) = PNG) && png_chunks(c, start, limit, start + 8)
parse_texture_blob(c, start, limit) ==
  Need(Span(start, limit) >= 8) && Read(c, start, 1)
  && (IF W(start) = PNG THEN parse_png(c, start, limit) ELSE parse_compressed_texture(c, start, limit))

txtr_metadata(c, g, i) ==
  LET entry == pointer_list_entry(c.at, i)
      blob == W(entry + MetadataSize(g) - 4)
  IN  Entry(c, c.at, i)
      && (IF entry = 0 THEN Return(0)
          ELSE Need(entry + MetadataSize(g) <= End(c)) && Read(c, entry, MetadataSize(g))
               && Need(blob = 0 \/ blob \in c.at..(End(c) - 1)) && Return(blob))

Bug_texture(c, g, count, i) ==
  LET blob == txtr_metadata(c, g, i)
      after == IF i + 1 < count THEN txtr_metadata(c, g, i + 1) ELSE Return(0)
      limit == IF after.value = 0 THEN End(c) ELSE after.value
  IN  blob && after && (IF blob.value = 0 THEN Return(<<0, 0, 0>>) ELSE parse_texture_blob(c, blob.value, limit))
texture(c, g, count, i) ==
  LET blob == txtr_metadata(c, g, i)
      after == IF i + 1 < count THEN txtr_metadata(c, g, i + 1) ELSE Return(0)
      limit == IF after.value = 0 THEN End(c) ELSE after.value
  IN  blob && after && (IF blob.value = 0 THEN Return(<<0, 0, 0>>) ELSE Need(limit > blob.value) && parse_texture_blob(c, blob.value, limit))
inspectPageItem(c, r, textures, wide, high) ==
  LET h(i) == W(r + 2 * i)
  IN  Need(r + 22 <= End(c)) && Read(c, r, 22)
      && Need(/\ \A i \in {2, 3, 6, 7, 8, 9} : h(i) # 0
              /\ h(10) < textures /\ h(0) + h(2) <= wide /\ h(1) + h(3) <= high /\ h(6) <= h(8) /\ h(7) <= h(9))
inspectTextures(ix, g) ==
  LET t == find(ix, TPAG)
      c == find(ix, TXTR)
      n == W(c.at)
      all == {texture(c, g, n, i).value : i \in 0..(n - 1)}
      most(k) == IF all = {} THEN 0 ELSE CHOOSE m \in {v[k] : v \in all} : \A v \in all : v[k] <= m
  IN  Need(has(ix, TPAG) /\ has(ix, TXTR)) && pointerCount(ix, TPAG) && pointerCount(ix, TXTR)
      && Each(n, LAMBDA i : texture(c, g, n, i))
      && Skipping(t, t.at, W(t.at), LAMBDA r : inspectPageItem(t, r, n, most(1), most(2)))

bounded_audio_blob(c, entry) ==
  Need(End(c) <= fileSize /\ entry >= c.at /\ entry + 4 <= End(c)) && Read(c, entry, 4) && Need(entry + 4 + W(entry) <= End(c))
inspectAudio(ix, wad) ==
  LET c == find(ix, SOND)
      d == find(ix, AUDO)
      strg == find(ix, STRG)
  IN  Need(has(ix, SOND) /\ has(ix, AUDO) /\ has(ix, STRG) /\ wad >= 8) && pointerCount(ix, SOND) && pointerCount(ix, AUDO)
      && Skipping(c, c.at, W(c.at), LAMBDA r :
           Need(r >= c.at /\ r + SoundSize([wad |-> wad]) <= End(c)) && Read(c, r, 16)
           && string_content_pointer_is_valid(strg, W(r)) && string_content_pointer_is_valid(strg, W(r + 8))
           && string_content_pointer_is_valid(strg, W(r + 12)))
      && Skipping(d, d.at, W(d.at), LAMBDA r : bounded_audio_blob(d, r) && (IF W(r) = 0 THEN Return(0) ELSE Read(d, r + 4, W(r))))

(* What the port accepts before it starts a game.                          *)
validate_data_win ==
  LET index == build(fileSize)
      ix == index.value
      gen8 == readGen8(ix)
      g == gen8.value
      code == inspectCode(ix, g.wad)
      objects == inspectObjects(ix, g, code.value)
  IN  index && Need(has(ix, GEN8)) && Need(find(ix, GEN8).size # 0) && pointerCount(ix, STRG) && pointerCount(ix, CODE)
      && pointerCount(ix, OBJT) && pointerCount(ix, ROOM) && inspectStrings(ix) && gen8 && code && objects
      && inspectRooms(ix, g, objects.value, code.value) && inspectTextures(ix, g) && Return([ix |-> ix, g |-> g])

(***************************************************************************)
(* The lookups of the running game.                                        *)
(***************************************************************************)
pageItem(ix, i) ==
  LET c == find(ix, TPAG)
      r == pointer_list_entry(c.at, i)
      h(k) == W(r + 2 * k)
  IN  Need(has(ix, TPAG)) && pointerCount(ix, TPAG) && Need(i < W(c.at)) && Entry(c, c.at, i) && Need(r # 0 /\ r + 22 <= End(c))
      && Read(c, r, 22) && Need(\A k \in {2, 3, 6, 7} : h(k) # 0) && Return(h(10))

textureBlob(ix, g, i) ==
  LET c == find(ix, TXTR)
      n == W(c.at)
      start == txtr_metadata(c, g, i)
      later == {k \in (i + 1)..(n - 1) : txtr_metadata(c, g, k).value # 0}
      limit == IF later = {} THEN End(c) ELSE txtr_metadata(c, g, CHOOSE k \in later : \A j \in later : k <= j).value
  IN  Need(has(ix, TXTR)) && pointerCount(ix, TXTR) && Need(i < n) && start && Need(start.value # 0)
      && Each(n, LAMBDA k : IF k > i THEN txtr_metadata(c, g, k) ELSE Return(0))
      && Need(limit > start.value) && parse_texture_blob(c, start.value, limit)
      && Return(<<start.value, parse_texture_blob(c, start.value, limit).value[3]>>)

(* The page item that an instance shows: object, sprite, first frame.      *)
sceneInstance(ix, g, record) ==
  LET o == find(ix, OBJT)
      p == find(ix, SPRT)
      t == find(ix, TPAG)
      id == Int32(W(record + 8))
      object == pointer_list_entry(o.at, id)
      sprite == Int32(W(object + 4))
      frame == pointer_list_entry(p.at, sprite)
      list == frame + FrameListOffset(g)
  IN  IF id < 0 THEN Return(-1)
      ELSE Need(id < W(o.at)) && Entry(o, o.at, id) && Need(object # 0 /\ object + 8 <= End(o)) && Read(o, object + 4, 4)
           && (IF sprite < 0 THEN Return(-1)
               ELSE Need(sprite < W(p.at)) && Entry(p, p.at, sprite) && Need(frame # 0 /\ list + 8 <= End(p)) && Read(p, list, 8)
                    && Need(Int32(W(list)) > 0) && Need(\E k \in 0..(W(t.at) - 1) : pointer_list_entry(t.at, k) = W(list + 4))
                    && Return(CHOOSE k \in 0..(W(t.at) - 1) : pointer_list_entry(t.at, k) = W(list + 4)))
roomScene(ix, g, i) ==
  LET c == find(ix, ROOM)
      room == pointer_list_entry(c.at, i)
      list == W(room + 48)
  IN  Need({ROOM, OBJT, SPRT, TPAG} \subseteq {ix[k].tag : k \in DOMAIN ix})
      && pointerCount(ix, ROOM) && pointerCount(ix, OBJT) && pointerCount(ix, SPRT) && pointerCount(ix, TPAG)
      && Need(i < W(c.at)) && Entry(c, c.at, i) && Need(room # 0 /\ room + 52 <= End(c)) && Read(c, room + 8, 8) && Read(c, room + 48, 4)
      && bounded_pointer_list(c, list) && Need(W(list) <= SCENE_INSTANCE_MAX)
      && Listed(c, list, W(list), 16, LAMBDA r : Read(c, r, 16) && sceneInstance(ix, g, r))
      && Need(W(room + 8) # 0 /\ W(room + 12) # 0)
      && Return({sceneInstance(ix, g, pointer_list_entry(list, k)).value : k \in 0..(W(list) - 1)})

(* The code of an object's event: the object's fixed part and the events   *)
(* are read without a test.                                                *)
eventAction(c, event) ==
  LET actions == {k \in 0..(W(event + 4) - 1) : Int32(W(pointer_list_entry(event + 4, k) + 32)) >= 0}
      first == IF actions = {} THEN W(event + 4) ELSE CHOOSE k \in actions : \A j \in actions : k <= j
  IN  Each(W(event + 4), LAMBDA k :
        IF k > first THEN Return(0)
        ELSE Entry(c, event + 4, k) && Need(pointer_list_entry(event + 4, k) # 0 /\ pointer_list_entry(event + 4, k) + 36 <= End(c))
             && Read(c, pointer_list_entry(event + 4, k) + 32, 4))
      && Need(actions # {}) && Return(W(pointer_list_entry(event + 4, first) + 32))
eventCode(ix, g, id, type, subtype) ==
  LET c == find(ix, OBJT)
      object == pointer_list_entry(c.at, id)
      count == object + 64 + (IF Managed(g) THEN 4 ELSE 0) + (IF g.wad = 17 THEN 4 ELSE 0)
      types == count + 4 + (IF g.wad > 8 THEN 12 ELSE 0) + Int32(W(count)) * 8
      events == pointer_list_entry(types, type)
      matches == {k \in 0..(W(events) - 1) : W(pointer_list_entry(events, k)) = subtype}
      first == IF matches = {} THEN W(events) ELSE CHOOSE k \in matches : \A j \in matches : k <= j
  IN  Need(has(ix, OBJT)) && pointerCount(ix, OBJT) && Need(id < W(c.at) /\ type < 15) && Entry(c, c.at, id) && Need(object # 0)
      && Read(c, count, 4) && Need(Int32(W(count)) >= 0) && bounded_pointer_list(c, types) && Need(W(types) > type)
      && Entry(c, types, type) && bounded_pointer_list(c, events)
      && Each(W(events), LAMBDA k :
           LET event == pointer_list_entry(events, k)
           IN  IF k > first THEN Return(0)
               ELSE Entry(c, events, k) && Need(event # 0) && Read(c, event, 4) && bounded_pointer_list(c, event + 4) && Need(W(event + 4) # 0))
      && Need(matches # {}) && eventAction(c, pointer_list_entry(events, first))
collisionCode(ix, g, id, other) == eventCode(ix, g, id, 4, other)

(***************************************************************************)
(* Decoding a texture, as the port's heap sees it: d has the sizes of the  *)
(* buffers and what the data and the decoders (external) say.  The buffer  *)
(* that outlives the call is allocated before the ones that do not.        *)
(***************************************************************************)
Heap == INSTANCE PortHeap WITH Sizes <- {}, Words <- {}
RGBA == 1
PIXELS == 2
COMPRESSED == 3
SCRATCH == 4
Fits(h, n) == Heap!Fit(h, n) # 0
Alloc(h, n, w) == Heap!demon_port_malloc(h, Heap!Fit(h, n), n, w)
Has(h, w) == \E i \in DOMAIN h.blocks : h.blocks[i].word = w
Freed(h, w) == Heap!demon_port_free(h, CHOOSE i \in DOMAIN h.blocks : h.blocks[i].word = w)

decompressTexture(h, d) ==
  LET a == Alloc(h, d.out, PIXELS)
      b == Alloc(a, d.packed, COMPRESSED)
      neither == Freed(Freed(b, COMPRESSED), PIXELS)
      e == Alloc(b, d.scratch, SCRATCH)
      kept == Freed(Freed(e, COMPRESSED), SCRATCH)
  IN  CASE ~Fits(h, d.out) -> h
        [] Fits(h, d.out) /\ ~Fits(a, d.packed) -> Freed(a, PIXELS)
        [] Fits(h, d.out) /\ Fits(a, d.packed) /\ (d.fails = "magic" \/ ~Fits(b, d.scratch)) -> neither
        [] OTHER -> IF d.fails = "bzip2" THEN Freed(kept, PIXELS) ELSE kept
decodeTexturePixels(h, d) ==
  LET a == Alloc(h, d.rgba, RGBA)
      b == decompressTexture(a, d)
      c == Freed(b, PIXELS)
  IN  CASE ~Fits(h, d.rgba) -> h
        [] Fits(h, d.rgba) /\ ~Has(b, PIXELS) -> Freed(b, RGBA)
        [] OTHER -> IF d.fails = "qoi" THEN Freed(c, RGBA) ELSE c

(***************************************************************************)
(* A package, whole or with one field damaged, is validated; if it is      *)
(* accepted the game looks things up in it.                                *)
(***************************************************************************)
Nothing == [ok |-> TRUE, inside |-> TRUE, value |-> 0]
Start(g) == [at |-> "file", game |-> g, bytes |-> Bytes(Package(g)), cell |-> -1, word |-> 0, index |-> 0, answer |-> Nothing, heap |-> Heap!demon_port_init]
Init == \E g \in Games : s = Start(g)

(* A damaged field: zero, off by one, all ones, or near its chunk's end.   *)
Damaged(at, v, ends) ==
  LET end == CHOOSE e \in ends : at < e /\ \A d \in ends : at < d => e <= d
  IN  ({0, v - 1, v + 1, WORD - 1} \cup {end - k : k \in Damage}) \cap (0..(WORD - 1))
Corrupt ==
  /\ s.at = "file" /\ s.cell = -1
  /\ LET p == Package(s.game)
     IN  \E f \in p.fields : \E v \in Damaged(f[1], f[2], p.ends) : s' = [s EXCEPT !.cell = f[1], !.word = v]

Judged(v, all) == s' = [s EXCEPT !.at = IF all.ok THEN "ready" ELSE "refused", !.answer = [all EXCEPT !.value = 0],
                                 !.index = IF all.ok THEN v.value ELSE 0]
AudioToo(v) == Judged(v, IF v.ok THEN v && inspectAudio(v.value.ix, v.value.g.wad) ELSE v)
Validate == s.at = "file" /\ AudioToo(validate_data_win)

Answered(what, r) == s' = [s EXCEPT !.at = what, !.answer = r]
Lookup ==
  /\ s.at = "ready"
  /\ LET ix == s.index.ix
         g == s.index.g
     IN  \/ \E i \in 0..1 : Answered("item", pageItem(ix, i))
         \/ \E i \in 0..2 : Answered("blob", textureBlob(ix, g, i))
         \/ \E i \in 0..1 : Answered("scene", roomScene(ix, g, i))
         \/ \E i \in 0..2, t \in {0, 5, 15} : Answered("code", eventCode(ix, g, i, t, 7))
         \/ \E i \in 0..2 : Answered("code", collisionCode(ix, g, i, 7))

Decode ==
  /\ s.at = "ready" /\ s.cell = -1
  /\ \E d \in Decodes : s' = [s EXCEPT !.at = "decoded", !.heap = decodeTexturePixels(s.heap, d)]

Next == Corrupt \/ Validate \/ Lookup \/ Decode

(* A package is read only inside the chunk that is being looked at, by the *)
(* inspection and, once it has been accepted, by every lookup, although    *)
(* eventCode tests neither the object nor the event before it reads them.  *)
(* What a lookup gives names a texture, a page item or a piece of code     *)
(* that exists, and a package that is whole is accepted.                   *)
PackagesAreReadInside ==
  LET ix == s.index.ix
      v == s.answer.value
  IN  /\ s.answer.inside
      /\ s.at = "refused" => s.cell # -1
      /\ s.answer.ok => CASE s.at = "item" -> v < W(find(ix, TXTR).at)
                          [] s.at = "blob" -> v[1] >= find(ix, TXTR).at /\ v[1] + v[2] <= End(find(ix, TXTR))
                          [] s.at = "scene" -> \A i \in v : i < W(find(ix, TPAG).at)
                          [] s.at = "code" -> v < W(find(ix, CODE).at)
                          [] OTHER -> TRUE

(* A decoded texture leaves its pixels in front of one free region, and a  *)
(* failure leaves nothing: no freed buffer is stranded between two others. *)
TexturesLeaveOneGap ==
  s.at = "decoded" => LET b == s.heap.blocks
                      IN  \/ Len(b) = 1 /\ b[1].word = 0
                          \/ Len(b) <= 2 /\ b[1].word = RGBA /\ \A i \in 2..Len(b) : b[i].word = 0
=============================================================================
