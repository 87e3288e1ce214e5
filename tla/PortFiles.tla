------------------------------ MODULE PortFiles -----------------------------
(***************************************************************************)
(* Files of the ports.  PortKit (user/portkit.c) gives a program a file    *)
(* with a size and a position over the kernel's storage, whose write       *)
(* replaces the whole content; the stream layers of the Quake and NXEngine *)
(* ports (stdio_demonos.c) and of Doom (demonos_stdio.c) build seekable    *)
(* streams on it by collecting what is written in memory until fclose.     *)
(*                                                                         *)
(* s.store are the files, s.slots the streams.  A stream's want, gaps and  *)
(* cut are what its program wrote, kept to be compared with the file:      *)
(* gaps are positions it skipped, cut is set when a write or the content   *)
(* an update stream starts with did not fit.                               *)
(***************************************************************************)
EXTENDS Integers, Sequences, SequencesExt, FiniteSets

CONSTANTS Shim,           \* "quake" or "doom"
          Paths, Bytes, Offsets,
          MAX_FILES,      \* DEMON_MAX_FILES; for Doom, what malloc allows
          BUF_SIZE,       \* DEMON_WRITE_BUF_SIZE, or Doom's first capacity
          HANDLES,        \* free capability slots of the process
          FILE_MAX, CALLS \* bounds: longest file that is written, calls

VARIABLE s

Slots == 1..MAX_FILES
Lesser(a, b) == IF a < b THEN a ELSE b
Greater(a, b) == IF a > b THEN a ELSE b
Slice(t, o, n) == SubSeq(t, o + 1, Lesser(Len(t), o + n))
(* Bytes of a buffer replaced from offset o; nothing is known of bytes     *)
(* between its length and o, which keep what the buffer held.              *)
Overlay(buf, o, data) ==
  [i \in 1..Greater(Len(buf), o + Len(data)) |-> IF i > o /\ i <= o + Len(data) THEN data[i - o] ELSE IF i <= Len(buf) THEN buf[i] ELSE 0]

Counted == [s EXCEPT !.calls = @ + 1]
Open == {f \in Slots : s.slots[f].open}
Exists(p) == p \in DOMAIN s.store

(***************************************************************************)
(* PortKit.  A create opens an existing file without emptying it.          *)
(***************************************************************************)
Handled == Cardinality(Open) < HANDLES
demon_port_open(p) == [size |-> Len(s.store[p]), position |-> 0, path |-> p]
demon_port_create(p) == [size |-> 0, position |-> 0, path |-> p]
Created(p) == IF Exists(p) THEN s.store ELSE s.store @@ (p :> <<>>)
demon_port_read(port, n) ==
  LET m == Lesser(n, port.size - port.position)
  IN  IF port.position > port.size \/ port.path \notin DOMAIN s.store \/ port.position > Len(s.store[port.path]) THEN <<>>
      ELSE Slice(s.store[port.path], port.position, m)
demon_port_seek(port, o) == IF o \in 0..port.size THEN [port EXCEPT !.position = o] ELSE port
demon_port_write_file(port, data) ==
  IF port.path \in DOMAIN s.store THEN [s.store EXCEPT ![port.path] = data] ELSE s.store
Written(port, data) ==
  IF port.path \in DOMAIN s.store THEN [port EXCEPT !.size = Len(data), !.position = Len(data)] ELSE port

Closed(buf) ==
  [open |-> FALSE, writing |-> FALSE, port |-> [size |-> 0, position |-> 0, path |-> CHOOSE p \in Paths : TRUE],
   pos |-> 0, eof |-> FALSE, buf |-> buf, len |-> 0, want |-> <<>>, gaps |-> {}, cut |-> FALSE]

FreeSlot == CHOOSE f \in Slots : ~s.slots[f].open /\ \A g \in 1..f - 1 : s.slots[g].open

(***************************************************************************)
(* The streams of the Quake port.  The buffer of a slot is static and      *)
(* keeps what an earlier stream left in it.                                *)
(***************************************************************************)
Started(port, writing, buf, len, pos, orig) ==
  [open |-> TRUE, writing |-> writing, port |-> port, pos |-> pos, eof |-> FALSE, buf |-> buf, len |-> len,
   want |-> orig, gaps |-> {}, cut |-> Len(orig) > len]
OpenQuake(f, p, mode) ==
  LET old == s.slots[f].buf
      existing == IF Exists(p) THEN Slice(s.store[p], 0, BUF_SIZE) ELSE <<>>
      orig == IF Exists(p) THEN s.store[p] ELSE <<>>
  IN  CASE mode = "w" -> Started(demon_port_create(p), TRUE, old, 0, 0, <<>>)
        [] mode = "r+" -> Started(demon_port_open(p), TRUE, Overlay(old, 0, existing), Len(existing), 0, orig)
        [] mode = "a" -> Started(IF Exists(p) THEN demon_port_open(p) ELSE demon_port_create(p), TRUE,
                                 Overlay(old, 0, existing), Len(existing), Len(existing), orig)
        [] mode = "r" -> Started(demon_port_open(p), FALSE, old, 0, 0, <<>>)

(* Doom allocates the stream and, to write, a buffer that it doubles.      *)
OpenDoom(p, mode) ==
  IF mode = "w" THEN Started(demon_port_create(p), TRUE, <<>>, 0, 0, <<>>)
  ELSE Started(demon_port_open(p), FALSE, <<>>, 0, 0, <<>>)

fopen(p, mode) ==
  /\ Open # Slots /\ Handled
  /\ mode \in {"r", "r+"} => Exists(p)
  /\ Shim = "doom" => mode \in {"r", "w"}
  /\ s' = [Counted EXCEPT !.slots[FreeSlot] = IF Shim = "quake" THEN OpenQuake(FreeSlot, p, mode) ELSE OpenDoom(p, mode),
                    !.store = IF mode \in {"w", "a"} THEN Created(p) ELSE @]

(* Where the stream reads and writes next.                                 *)
ftell(r) == IF Shim = "doom" THEN r.port.position ELSE r.pos

Nothing == [file |-> <<>>, want |-> <<>>, gaps |-> {}]
Content(r) == SubSeq(r.buf, 1, r.len)
fclose(f) ==
  LET r == s.slots[f]
  IN  /\ r.open
      /\ s' = [Counted EXCEPT !.slots[f] = Closed(IF Shim = "quake" THEN r.buf ELSE <<>>),
                        !.store = IF r.writing THEN demon_port_write_file(r.port, Content(r)) ELSE @,
                        !.last = IF r.writing /\ Exists(r.port.path) /\ ~r.cut
                                 THEN [file |-> demon_port_write_file(r.port, Content(r))[r.port.path],
                                       want |-> r.want, gaps |-> r.gaps]
                                 ELSE Nothing]

(* What a program may rely on: the byte is at the position ftell names.    *)
Noted(r, at, data, taken) ==
  [r EXCEPT !.want = Overlay(@, at, taken), !.cut = @ \/ Len(taken) < Len(data),
            !.gaps = IF taken = <<>> THEN @ ELSE (@ \cup (Len(r.want) + 1..at)) \ (at + 1..at + Len(taken))]
fwrite(f, data) ==
  LET r == s.slots[f]
      at == ftell(r)
      taken == IF Shim = "doom" THEN data ELSE Slice(data, 0, BUF_SIZE - at)
      end == at + Len(taken)
      n == [Noted(r, at, data, taken) EXCEPT !.buf = Overlay(@, at, taken), !.len = Greater(@, end)]
  IN  /\ r.open /\ r.writing
      /\ Shim = "quake" => at \in 0..BUF_SIZE
      /\ end <= FILE_MAX
      /\ s' = [Counted EXCEPT !.slots[f] = IF Shim = "doom" THEN [n EXCEPT !.port.position = end] ELSE [n EXCEPT !.pos = end]]

fread(f, n) ==
  LET r == s.slots[f]
      port == IF Shim = "doom" THEN r.port ELSE demon_port_seek(r.port, r.pos)
      got == demon_port_read(port, n)
  IN  /\ r.open /\ (Shim = "quake" => ~r.writing)
      /\ s' = [Counted EXCEPT !.slots[f].port = [port EXCEPT !.position = @ + Len(got)],
                        !.slots[f].pos = IF Shim = "doom" THEN @ ELSE @ + Len(got),
                        !.slots[f].eof = Len(got) < n,
                        !.got = [at |-> ftell(r), size |-> r.port.size, n |-> n, data |-> got,
                                 file |-> IF Exists(r.port.path) THEN s.store[r.port.path] ELSE <<>>]]

(* The Quake port takes any position; Doom's is bounded by what is there.  *)
SeekableDoom(r) == 0..IF r.writing THEN r.len ELSE r.port.size
fseek(f, o, whence) ==
  LET r == s.slots[f]
      target == CASE whence = "set" -> o [] whence = "cur" -> ftell(r) + o [] whence = "end" -> r.port.size + o
  IN  /\ r.open
      /\ target \in -1..FILE_MAX
      /\ IF Shim = "quake" THEN s' = [Counted EXCEPT !.slots[f].pos = target, !.slots[f].eof = FALSE]
         ELSE /\ target \in SeekableDoom(r)
              /\ s' = [Counted EXCEPT !.slots[f].port.position = target]

(* Only Doom's fflush writes; it leaves the position at the end.           *)
fflush(f) ==
  LET r == s.slots[f]
  IN  /\ Shim = "doom" /\ r.open /\ r.writing
      /\ s' = [Counted EXCEPT !.store = demon_port_write_file(r.port, Content(r)),
                        !.slots[f].port = Written(r.port, Content(r))]

unlink(p) == Exists(p) /\ s' = [Counted EXCEPT !.store = [q \in DOMAIN @ \ {p} |-> @[q]]]
rename(p, q) ==
  /\ Shim = "doom" /\ Exists(p) /\ ~Exists(q)
  /\ \A f \in Open : s.slots[f].port.path # p    \* a handle follows its object: module Ramfs
  /\ s' = [Counted EXCEPT !.store = [x \in (DOMAIN @ \ {p}) \cup {q} |-> IF x = q THEN @[p] ELSE @[x]]]

Init == s = [store |-> (CHOOSE p \in Paths : TRUE) :> [i \in 1..BUF_SIZE |-> CHOOSE b \in Bytes : TRUE],
             slots |-> [f \in Slots |-> Closed(<<>>)], calls |-> 0,
             last |-> Nothing,
             got |-> [at |-> 0, size |-> 0, n |-> 0, data |-> <<>>, file |-> <<>>]]

Texts == {<<b>> : b \in Bytes} \cup {<<b, b>> : b \in Bytes}
Call ==
  \/ \E p \in Paths, mode \in {"r", "r+", "w", "a"} : fopen(p, mode)
  \/ \E f \in Slots : fclose(f) \/ fflush(f)
  \/ \E f \in Slots, t \in Texts : fwrite(f, t)
  \/ \E f \in Slots, n \in {1, 2} : fread(f, n)
  \/ \E f \in Slots, o \in Offsets, whence \in {"set", "cur", "end"} : fseek(f, o, whence)
  \/ \E p \in Paths : unlink(p)
  \/ \E p \in Paths, q \in Paths : rename(p, q)
Next == s.calls < CALLS /\ Call

(* The file a stream leaves behind when it is closed holds every byte at   *)
(* the position where it was written, whatever was written, skipped and    *)
(* overwritten in between, by whichever streams the slots held before, and *)
(* ends where the last of them ends (positions the program skipped hold    *)
(* anything: the buffers are not cleared).                                 *)
FilesHoldWhatWasWritten ==
  LET l == s.last
  IN  Len(l.file) = Len(l.want) /\ \A i \in 1..Len(l.want) : i \in l.gaps \/ l.file[i] = l.want[i]
(* A read returns the bytes of the file at the stream's position, although *)
(* the stream, PortKit and the kernel each keep a position or a size of    *)
(* their own and the file may have been replaced since it was opened.      *)
ReadsComeFromTheirPosition ==
  LET g == s.got IN g.at \in 0..g.size /\ g.at <= Len(g.file) => IsPrefix(g.data, Slice(g.file, g.at, g.n))
=============================================================================
