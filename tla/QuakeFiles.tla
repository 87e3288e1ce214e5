------------------------------ MODULE QuakeFiles ----------------------------
(***************************************************************************)
(* The game files of the Quake port (ports/quake/platform/com_demonos.c on *)
(* the handles of sys_demonos.c): the search path that the command line    *)
(* builds of directories and PAK files, finding a file along it, loading   *)
(* it whole, opening it as a stream, and writing a file.                   *)
(*                                                                         *)
(* A path is a pair <<directory, file>>.  The directory of a PAK is given  *)
(* by Packs, its bytes by Disk like any file's.  One PAK is one handle,    *)
(* which every file in it shares.                                          *)
(***************************************************************************)
EXTENDS Integers, Sequences, SequencesExt, FiniteSets

CONSTANTS Disk,           \* path -> bytes, at the start
          Packs,          \* path of a PAK -> sequence of [name, pos, len]
          Commands,       \* command lines: [game, path, proghack]
          Names, Deep,    \* file names, those with a slash
          PakNames,       \* pak0.pak, pak1.pak, ... in order
          PAK0_COUNT,     \* files in the original PAK
          QUAKE_MAX_HANDLES, Data

VARIABLE s

Handles == 1..QUAKE_MAX_HANDLES
None == <<"", "">>
Pop == "pop"              \* gfx/pop.lmp, which only the registered game has
Progs == "progs"          \* progs.dat
Lesser(a, b) == IF a < b THEN a ELSE b

(***************************************************************************)
(* sys_demonos.c.  A handle is a path, a size taken when it was opened,    *)
(* and a position.                                                         *)
(***************************************************************************)
find_handle(h) ==
  LET F == {i \in Handles : h[i].path = None} IN IF F = {} THEN 0 ELSE CHOOSE i \in F : \A j \in F : i <= j
Opened(h, i, p, size) == [h EXCEPT ![i] = [path |-> p, size |-> size, pos |-> 0]]
Sys_FileClose(h, i) == IF i \in Handles THEN [h EXCEPT ![i] = [path |-> None, size |-> 0, pos |-> 0]] ELSE h
Sys_FileSeek(h, i, o) == IF o \in 0..h[i].size THEN [h EXCEPT ![i].pos = o] ELSE h
Sys_FileRead(q, i, n) ==
  LET h == q.handles[i] IN SubSeq(q.store[h.path], h.pos + 1, h.pos + Lesser(n, h.size - h.pos))

(***************************************************************************)
(* The search path.  q is the state that is being built.                   *)
(***************************************************************************)
COM_LoadPackFile(q, p) ==
  LET h == find_handle(q.handles)
      files == Packs[p]
  IN  [q EXCEPT !.handles = Opened(@, h, p, Len(q.store[p])),
                !.modified = @ \/ Len(files) # PAK0_COUNT,
                !.search = <<[pack |-> p, dir |-> "", handle |-> h]>> \o @, !.added = Append(@, p)]
RECURSIVE AddPacks(_, _, _)
AddPacks(q, dir, i) ==
  IF i > Len(PakNames) \/ <<dir, PakNames[i]>> \notin DOMAIN q.store \/ find_handle(q.handles) = 0 THEN q
  ELSE AddPacks(COM_LoadPackFile(q, <<dir, PakNames[i]>>), dir, i + 1)
COM_AddGameDirectory(q, dir) ==
  AddPacks([q EXCEPT !.gamedir = dir, !.added = Append(@, <<dir, "">>),
                     !.search = <<[pack |-> None, dir |-> dir, handle |-> 0]>> \o @], dir, 1)
PathElement(q, p) ==
  IF p[2] # "" THEN COM_LoadPackFile(q, p)
  ELSE [q EXCEPT !.search = <<[pack |-> None, dir |-> p[1], handle |-> 0]>> \o @, !.added = Append(@, p)]
COM_InitFilesystem(q, c) ==
  LET base == COM_AddGameDirectory(q, "id1")
      game == IF c.game = "" THEN base ELSE COM_AddGameDirectory([base EXCEPT !.modified = TRUE], c.game)
      path == IF c.path = <<>> THEN game
              ELSE FoldLeft(PathElement, [game EXCEPT !.modified = TRUE, !.search = <<>>, !.added = <<>>], c.path)
  IN  [path EXCEPT !.proghack = c.proghack]

(***************************************************************************)
(* COM_FindFile: the handle and the length, the handles as it leaves them. *)
(* `i' is the loop variable of the PAK search, which stays behind when     *)
(* Sys_FileOpenRead finds no free handle.                                  *)
(***************************************************************************)
Entry(p, name) == {i \in DOMAIN Packs[p] : Packs[p][i].name = name}
RECURSIVE FindFrom(_, _, _, _)
FindFrom(q, name, k, i) ==
  IF k > Len(q.search) THEN [handle |-> -1, len |-> -1, handles |-> q.handles, path |-> None, pos |-> 0]
  ELSE LET e == q.search[k]
           p == <<e.dir, name>>
           x == CHOOSE j \in Entry(e.pack, name) : \A m \in Entry(e.pack, name) : j <= m
           h == find_handle(q.handles)
       IN  CASE e.pack # None /\ Entry(e.pack, name) # {} ->
                  [handle |-> e.handle, len |-> Packs[e.pack][x].len, path |-> e.pack, pos |-> Packs[e.pack][x].pos,
                   handles |-> Sys_FileSeek(q.handles, e.handle, Packs[e.pack][x].pos)]
             [] e.pack # None /\ Entry(e.pack, name) = {} -> FindFrom(q, name, k + 1, Len(Packs[e.pack]))
             [] e.pack = None /\ ((~q.registered /\ name \in Deep) \/ p \notin DOMAIN q.store) ->
                  FindFrom(q, name, k + 1, i)
             [] OTHER -> [handle |-> IF h = 0 THEN i ELSE h, len |-> IF h = 0 THEN -1 ELSE Len(q.store[p]),
                          path |-> p, pos |-> 0,
                          handles |-> IF h = 0 THEN q.handles ELSE Opened(q.handles, h, p, Len(q.store[p]))]
COM_FindFile(q, name) == FindFrom(q, name, IF q.proghack /\ name = Progs THEN 2 ELSE 1, 0)

Bug_COM_CloseFile(q, h) == [q EXCEPT !.handles = Sys_FileClose(@, h)]
COM_CloseFile(q, h) ==
  IF \E k \in DOMAIN q.search : q.search[k].pack # None /\ q.search[k].handle = h THEN q
  ELSE [q EXCEPT !.handles = Sys_FileClose(@, h)]
Nothing == [name |-> "", data |-> <<>>, found |-> FALSE]
COM_LoadFile(q, name) ==
  LET r == COM_FindFile(q, name)
      g == [q EXCEPT !.handles = r.handles]
      data == Sys_FileRead(g, r.handle, r.len)
  IN  IF r.handle = -1 THEN [q EXCEPT !.loaded = [Nothing EXCEPT !.name = name]]
      ELSE COM_CloseFile([g EXCEPT !.handles[r.handle].pos = @ + Len(data),
                                   !.loaded = [name |-> name, data |-> data, found |-> TRUE]], r.handle)
(* As a stream: the handle of a directory's file is closed again and the   *)
(* file is opened a second time.  Reading com_filesize bytes of it.        *)
COM_FOpenFile(q, name) ==
  LET r == COM_FindFile(q, name)
      packed == r.path # None /\ r.path \in DOMAIN Packs
  IN  IF r.handle = -1 THEN [q EXCEPT !.loaded = [Nothing EXCEPT !.name = name]]
      ELSE [q EXCEPT !.handles = IF packed THEN @ ELSE Sys_FileClose(r.handles, r.handle),
                     !.loaded = [name |-> name, data |-> SubSeq(q.store[r.path], r.pos + 1, r.pos + r.len), found |-> TRUE]]
COM_WriteFile(q, name, data) ==
  LET p == <<q.gamedir, name>>
  IN  IF find_handle(q.handles) = 0 THEN q ELSE
      [q EXCEPT !.store = [x \in DOMAIN @ \cup {p} |-> IF x = p THEN data ELSE @[x]], !.loaded = Nothing]

(* The registered game is the one with gfx/pop.lmp; without it a modified  *)
(* game is refused, and directories answer for plain names only.           *)
COM_CheckRegistered(q) ==
  LET r == COM_LoadFile([q EXCEPT !.registered = TRUE], Pop)
  IN  [r EXCEPT !.registered = r.loaded.found, !.phase = IF r.loaded.found \/ ~r.modified THEN "run" ELSE "stopped",
                !.loaded = Nothing]

Init == s = [phase |-> "boot", search |-> <<>>, added |-> <<>>, handles |-> [i \in Handles |-> [path |-> None, size |-> 0, pos |-> 0]],
             modified |-> FALSE, registered |-> TRUE, proghack |-> FALSE, gamedir |-> "", store |-> Disk, loaded |-> Nothing]
Boot == s.phase = "boot" /\ \E c \in Commands : s' = COM_CheckRegistered(COM_InitFilesystem(s, c))
Load == s.phase = "run" /\ \E n \in Names : s' = COM_LoadFile(s, n)
Stream == s.phase = "run" /\ \E n \in Names : s' = COM_FOpenFile(s, n)
Write == s.phase = "run" /\ \E n \in Names, d \in Data : s' = COM_WriteFile(s, n, d)
Next == Boot \/ Load \/ Stream \/ Write

(* What was added last answers for a name: a PAK before the directory it   *)
(* is in and before lower numbers, a game before the base game.            *)
Providers(name) ==
  {k \in DOMAIN s.added :
     IF s.added[k][2] # "" THEN Entry(s.added[k], name) # {}
     ELSE <<s.added[k][1], name>> \in DOMAIN s.store /\ (s.registered \/ name \notin Deep)}
Answer(name) ==
  LET K == {k \in Providers(name) : ~(s.proghack /\ name = Progs /\ k = Len(s.added))}
      p == s.added[CHOOSE k \in K : \A j \in K : k >= j]
      x == CHOOSE i \in Entry(p, name) : \A j \in Entry(p, name) : i <= j
  IN  IF p[2] = "" THEN s.store[<<p[1], name>>]
      ELSE SubSeq(s.store[p], Packs[p][x].pos + 1, Packs[p][x].pos + Packs[p][x].len)

(* Whatever was loaded, streamed and written before, a file is the one     *)
(* that was added to the search path last, whole, although the files of a  *)
(* PAK share one handle and its position; and when nothing is being read   *)
(* only the PAKs hold handles.                                             *)
LoadsTheOverride ==
  /\ s.loaded.found => s.loaded.data = Answer(s.loaded.name)
  /\ s.loaded.name # "" /\ ~s.loaded.found => Providers(s.loaded.name) = {} \/ s.proghack
  /\ s.phase = "run" => \A k \in DOMAIN s.search :
       s.search[k].pack # None => s.handles[s.search[k].handle].path = s.search[k].pack
  /\ \A i \in Handles : s.handles[i].path # None => s.handles[i].path \in DOMAIN Packs
=============================================================================
