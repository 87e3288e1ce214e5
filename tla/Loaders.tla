------------------------------- MODULE Loaders -------------------------------
(***************************************************************************)
(* The two loaders of executables: the kernel's for ELF programs           *)
(* (src/elf64.c), into a window of memory or into frames, and the Wine     *)
(* port's for PE images (ports/wine/platform/pe*.c), which a program calls *)
(* to put an executable and a library in one reservation, to relocate them *)
(* and to bind the one's imports to the other's exports.                   *)
(*                                                                         *)
(* Sizes are counted in words; a header of an image is a record of its     *)
(* fields and the size it takes.  A word of memory is a number, or the     *)
(* export, import or relocation directory that starts there.               *)
(***************************************************************************)
EXTENDS Integers, Sequences, SequencesExt, FiniteSetsExt

CONSTANTS
  WORD,             \* arithmetic wraps here
  PAGE, RESERVED,   \* words of a page, pages of the reservation
  Frames,           \* how many frames may be free
  DOS, SIGNATURE, COFF, STANDARD, DIRECTORIES, SECTION,   \* sizes of the parts of a PE header
  MAX_IMAGE, PeFiles,
  PROGRAM,          \* size of an ELF program header
  ElfFiles, Windows \* <<address, pages>> that an ELF image is loaded into

VARIABLE s

Word(n) == [kind |-> "word", n |-> n]
ZERO == Word(0)
MinOf(a, b) == IF a < b THEN a ELSE b
MaxOf(a, b) == IF a > b THEN a ELSE b

-----------------------------------------------------------------------------
(* wine_pe_validate: the checks in their order, with what each reports.    *)
read_exact(f, offset, n) == offset + n <= f.size
FirstFailing(checks) ==
  LET bad == {i \in DOMAIN checks : ~checks[i][1]} IN IF bad = {} THEN "ok" ELSE checks[Min(bad)][2]
HasDirectories(f) == f.optional >= STANDARD + DIRECTORIES
Table(f) == f.pe_offset + SIGNATURE + COFF + f.optional
RawFits(f, c) == c.raw_pointer = 0 \/ (c.raw_pointer <= f.size /\ c.raw_size <= f.size - c.raw_pointer)
wine_pe_validate(f) ==
  LET coff == f.pe_offset + SIGNATURE
      optional == coff + COFF
  IN  FirstFailing(<<
        <<f.size >= DOS, "truncated">>, <<read_exact(f, 0, DOS), "io">>, <<f.mz, "dos magic">>,
        <<f.pe_offset <= f.size /\ SIGNATURE + COFF <= f.size - f.pe_offset, "pe offset">>,
        <<read_exact(f, f.pe_offset, SIGNATURE), "io">>, <<f.pe, "signature">>,
        <<read_exact(f, coff, COFF), "io">>, <<f.amd64, "machine">>,
        <<f.optional >= STANDARD /\ f.optional <= f.size - optional, "truncated">>,
        <<read_exact(f, optional, STANDARD), "io">>, <<f.pe32plus, "optional magic">>,
        <<HasDirectories(f) => read_exact(f, optional + STANDARD, DIRECTORIES), "io">>,
        <<f.count <= (f.size - Table(f)) \div SECTION, "section table">>,
        <<\A i \in 1..f.count : read_exact(f, Table(f) + (i - 1) * SECTION, SECTION), "io">>,
        <<\A i \in 1..f.count : RawFits(f, f.sections[i]), "section table">> >>)

-----------------------------------------------------------------------------
(* The memory of the process: pages are committed one after another, full  *)
(* of zeros; what runs out of frames stays committed up to there.          *)
Pages(n) == (n + PAGE - 1) \div PAGE
round_up_page(n) == Pages(n) * PAGE
demon_memory_commit(t, n, writable) ==
  LET wanted == Pages(n)
      got == MinOf(wanted, t.frames)
  IN  IF n = 0 \/ wanted > RESERVED - t.pages THEN [t EXCEPT !.result = "commit"]
      ELSE [t EXCEPT !.pages = @ + got, !.frames = @ - got, !.result = IF got = wanted THEN @ ELSE "commit",
              !.mem = [a \in 0..(t.pages + got) * PAGE - 1 |-> IF a \in DOMAIN t.mem THEN t.mem[a] ELSE ZERO],
              !.fixed = IF writable THEN @ ELSE @ \cup t.pages..t.pages + got - 1]
Faults(t) == [t EXCEPT !.result = "fault"]
Read(t, a) == a \in DOMAIN t.mem
Write(t, a, value) ==
  IF Read(t, a) /\ a \div PAGE \notin t.fixed THEN [t EXCEPT !.mem[a] = value] ELSE Faults(t)
Fill(t, from, n, Value(_)) ==
  IF \A a \in from..from + n - 1 : Read(t, a) /\ a \div PAGE \notin t.fixed
  THEN [t EXCEPT !.mem = [a \in DOMAIN t.mem |-> IF a \in from..from + n - 1 THEN Value(a - from) ELSE t.mem[a]]]
  ELSE Faults(t)

(* One section; t.committed counts what this image has committed.          *)
Extent(c) == MaxOf(c.virtual_size, c.raw_size)
LoadSection(f, base, t, c) ==
  LET end == round_up_page(c.virtual_address + Extent(c))
      a == IF end > t.committed THEN [demon_memory_commit(t, end - t.committed, TRUE) EXCEPT !.committed = end] ELSE t
      b == Fill(a, base + c.virtual_address, c.virtual_size, LAMBDA i : ZERO)
      Copied == MinOf(c.raw_size, c.virtual_size)
  IN  IF t.result # "ok" THEN t
      ELSE IF c.virtual_address < t.committed \/ c.virtual_address > (f.size_of_image - Extent(c)) % WORD
           THEN [t EXCEPT !.result = "section"]
      ELSE IF a.result # "ok" THEN a
      ELSE IF b.result # "ok" \/ c.raw_pointer = 0 \/ c.raw_size = 0 THEN b
      ELSE Fill(b, base + c.virtual_address, Copied, LAMBDA i : f.data[c.raw_pointer + i])
wine_pe_load(t, f, base) ==
  LET a == FoldLeft(LAMBDA u, c : LoadSection(f, base, u, c), [t EXCEPT !.committed = 0], SubSeq(f.sections, 1, f.count))
      b == IF a.committed < f.size_of_image THEN demon_memory_commit(a, f.size_of_image - a.committed, FALSE) ELSE a
  IN  IF wine_pe_validate(f) # "ok" THEN [t EXCEPT !.result = wine_pe_validate(f)]
      ELSE IF f.size_of_image = 0 \/ f.size_of_image > MAX_IMAGE THEN [t EXCEPT !.result = "large"]
      ELSE IF a.result # "ok" THEN a
      ELSE IF b.result # "ok" THEN b
      ELSE [b EXCEPT !.images = Append(@, [file |-> f, base |-> base, relocated |-> FALSE, bound |-> FALSE])]

(* A directory is read where its address says, zeros where none was        *)
(* loaded.                                                                 *)
Directory(t, a, kind, empty) == IF t.mem[a].kind = kind THEN t.mem[a] ELSE empty
(* Exports: the first candidate of the name; its ordinal indexes the       *)
(* functions.                                                              *)
wine_pe_read_exports(t, image) ==
  Directory(t, image.base + image.file.export, "exports", [names |-> <<>>, ordinals |-> <<>>, functions |-> <<>>])
wine_pe_resolve_export(t, image, name) ==
  LET d == wine_pe_read_exports(t, image)
      At == {i \in DOMAIN d.names : d.names[i] = name}
  IN  IF At = {} THEN 0 ELSE image.base + d.functions[d.ordinals[Min(At)] + 1]
HasExports(image) == HasDirectories(image.file) /\ image.file.export # 0
(* Imports: every thunk of every descriptor, until one is by ordinal or is *)
(* not found.                                                              *)
BindThunk(t, image, exporter, slot, name) ==
  LET address == wine_pe_resolve_export(t, exporter, name)
  IN  IF t.result # "ok" THEN t
      ELSE IF name = "#" \/ address = 0 THEN [t EXCEPT !.result = "unresolved"]
      ELSE Write(t, image.base + slot, Word(address))
wine_pe_resolve_imports(t, i, j) ==
  LET image == t.images[i]
      d == Directory(t, image.base + image.file.import, "imports", [descriptors |-> <<>>])
      Bind(u, e) == FoldLeft(LAMBDA v, k : BindThunk(v, image, t.images[j], e.slot + k - 1, e.names[k]), u, [k \in DOMAIN e.names |-> k])
      a == FoldLeft(Bind, t, d.descriptors)
  IN  IF ~HasDirectories(image.file) \/ image.file.import = 0 THEN t
      ELSE IF ~Read(t, image.base + image.file.import) \/ ~Read(t, t.images[j].base + t.images[j].file.export) THEN Faults(t)
      ELSE IF a.result = "ok" THEN [a EXCEPT !.images[i].bound = TRUE] ELSE a

(* Relocations: blocks until the directory's size is used up.              *)
BLOCK == 1
Relocate(t, image, block, entry) ==
  LET a == image.base + block.page + entry.offset
      delta == image.base - image.file.image_base
  IN  IF t.result # "ok" \/ entry.type = "absolute" THEN t
      ELSE IF entry.type # "dir64" THEN [t EXCEPT !.result = "unsupported"]
      ELSE IF ~Read(t, a) THEN Faults(t)
      ELSE Write(t, a, Word((t.mem[a].n + delta) % WORD))
wine_pe_apply_relocations(t, i) ==
  LET image == t.images[i]
      d == Directory(t, image.base + image.file.reloc, "relocs", [blocks |-> <<[size |-> 0]>>])
      Block(u, b) ==
        IF u.result # "ok" \/ u.committed >= image.file.reloc_size THEN u
        ELSE IF b.size < BLOCK THEN [u EXCEPT !.result = "unsupported"]
        ELSE [FoldLeft(LAMBDA v, e : Relocate(v, image, b, e), u, b.entries) EXCEPT !.committed = @ + b.size]
      a == FoldLeft(Block, [t EXCEPT !.committed = 0], d.blocks)
  IN  IF ~HasDirectories(image.file) \/ image.file.reloc_size = 0 THEN t
      ELSE IF ~Read(t, image.base + image.file.reloc) THEN Faults(t)
      ELSE IF a.result = "ok" THEN [a EXCEPT !.images[i].relocated = TRUE] ELSE a

-----------------------------------------------------------------------------
(* ELF.                                                                    *)
range_fits(offset, length, total) == offset <= total /\ length <= total - offset
Loads(f) == SelectSeq(f.programs, LAMBDA p : p.load)
elf64_executable_layout(f) ==
  LET P == Range(Loads(f))
      Bad(p) == p.file_size > p.memory_size \/ ~range_fits(p.offset, p.file_size, f.size)
                \/ p.address > WORD - 1 - p.memory_size
      end == Max({0} \cup {p.address + p.memory_size : p \in P})
      base == Min({WORD - 1} \cup {p.address : p \in P})
      Entry(p) == p.executable /\ f.entry >= p.address /\ f.entry < p.address + p.memory_size
  IN  IF ~f.header \/ f.programs = <<>> \/ ~range_fits(f.table, Len(f.programs) * PROGRAM, f.size) THEN <<>>
      ELSE IF (\E p \in P : Bad(p)) \/ base = WORD - 1 \/ end <= base \/ ~\E p \in P : Entry(p) THEN <<>>
      ELSE <<base, end>>
InWindow(f, w) ==
  LET layout == elf64_executable_layout(f)
  IN  layout # <<>> /\ layout[1] >= w[1] /\ layout[2] <= (w[1] + w[2] * PAGE) % WORD
CopyProgram(mem, f, w, p) ==
  [a \in DOMAIN mem |->
     LET i == a - (p.address - w[1]) IN IF i \in 0..p.file_size - 1 THEN f.data[p.offset + i] ELSE mem[a]]
(* Into one block of memory, whatever was there.                           *)
elf64_load_executable(f, w) ==
  LET Zeroed == [a \in 0..w[2] * PAGE - 1 |-> 0]
  IN  IF ~InWindow(f, w) THEN <<>>
      ELSE IF \E p \in Range(Loads(f)) : ~range_fits(p.address - w[1], p.memory_size, w[2] * PAGE) THEN <<>>
      ELSE FoldLeft(LAMBDA mem, p : CopyProgram(mem, f, w, p), Zeroed, Loads(f))
(* Into frames: page i of the window is frames[i].                         *)
elf64_load_executable_pages(f, w, frames) ==
  LET Place(a) == <<frames[(a \div PAGE) + 1], a % PAGE>>
      Zeroed == [x \in Range(frames) \X (0..PAGE - 1) |-> 0]
      Copy(mem, p) ==
        [x \in DOMAIN mem |->
           LET A == {i \in 0..p.file_size - 1 : Place(p.address - w[1] + i) = x}
           IN  IF A = {} THEN mem[x] ELSE f.data[p.offset + Min(A)]]
  IN  IF w[1] > WORD - 1 - w[2] * PAGE \/ ~InWindow(f, w) \/ 0 \in Range(frames) THEN <<>>
      ELSE LET mem == FoldLeft(Copy, Zeroed, Loads(f)) IN [a \in 0..w[2] * PAGE - 1 |-> mem[Place(a)]]

-----------------------------------------------------------------------------
(* A program puts images one behind the other, each at the end of what the *)
(* one before declares, and stops at the first call that fails.            *)
NextBase(t) ==
  IF t.images = <<>> THEN 0
  ELSE LET last == t.images[Len(t.images)] IN last.base + round_up_page(last.file.size_of_image)
Process == [pages |-> 0, frames |-> 0, mem |-> [a \in {} |-> ZERO], fixed |-> {}, result |-> "ok", committed |-> 0, images |-> <<>>, elf |-> <<>>]
Init == s \in {[Process EXCEPT !.frames = n] : n \in Frames}

Load ==
  /\ s.result = "ok" /\ s.elf = <<>> /\ Len(s.images) < 2
  /\ \E f \in PeFiles : s' = wine_pe_load(s, f, NextBase(s))
Relocation ==
  /\ s.result = "ok"
  /\ \E i \in DOMAIN s.images :
       ~s.images[i].relocated /\ s' = wine_pe_apply_relocations(s, i)
Binding ==
  /\ s.result = "ok"
  /\ \E i, j \in DOMAIN s.images :
       i # j /\ ~s.images[i].bound /\ HasExports(s.images[j]) /\ s' = wine_pe_resolve_imports(s, i, j)
Elf ==
  /\ s = [Process EXCEPT !.frames = s.frames]
  /\ \E f \in ElfFiles, w \in Windows :
       s' = [s EXCEPT !.elf = [file |-> f, window |-> w, block |-> elf64_load_executable(f, w),
                              pages |-> elf64_load_executable_pages(f, w, [i \in 1..w[2] |-> w[2] + 1 - i])]]
Next == Load \/ Relocation \/ Binding \/ Elf

-----------------------------------------------------------------------------
(* wine_pe_validate proves every range before it reads it: no header that  *)
(* it takes apart makes a read fail.                                       *)
HeadersAreReadInside == s.result # "io"

(* What a linker makes: sections inside the image, one behind the other;   *)
(* directories, import slots and relocated words in what the file fills.   *)
Filled(f) ==
  UNION {f.sections[i].virtual_address..f.sections[i].virtual_address + MinOf(f.sections[i].raw_size, f.sections[i].virtual_size) - 1 :
           i \in {k \in 1..f.count : f.sections[k].raw_pointer # 0}}
FileWord(f, rva) ==
  LET At == {i \in 1..f.count : LET c == f.sections[i] IN
                c.raw_pointer # 0 /\ rva \in c.virtual_address..c.virtual_address + MinOf(c.raw_size, c.virtual_size) - 1}
  IN  IF At = {} THEN ZERO ELSE LET c == f.sections[Min(At)] IN f.data[c.raw_pointer + rva - c.virtual_address]
Slots(f) ==
  LET d == FileWord(f, f.import)
  IN  IF f.import = 0 \/ d.kind # "imports" THEN {}
      ELSE UNION {{<<e.slot + k - 1, e.names[k]>> : k \in DOMAIN e.names} : e \in Range(d.descriptors)}
Pointers(f) ==
  LET d == FileWord(f, f.reloc)
      Targets(b) == {b.page + e.offset : e \in {x \in Range(b.entries) : x.type = "dir64"}}
  IN  IF f.reloc_size = 0 \/ d.kind # "relocs" THEN {} ELSE UNION {Targets(b) : b \in Range(d.blocks)}
Linked(f) ==
  /\ \A i \in 1..f.count : f.sections[i].virtual_address + Extent(f.sections[i]) <= f.size_of_image
  /\ ({f.export, f.import, f.reloc} \ {0}) \cup Pointers(f) \cup {x[1] : x \in Slots(f)} \subseteq Filled(f)

(* wine_pe_load, wine_pe_apply_relocations and wine_pe_resolve_imports     *)
(* touch only committed, writable memory when every image is as a linker   *)
(* makes it.                                                               *)
LoadersTouchTheirMemory ==
  (\A i \in DOMAIN s.images : Linked(s.images[i].file)) => s.result # "fault"

(* Loaded images are their files, also next to another image: the          *)
(* committed pages are theirs and no more, every word of an image is the   *)
(* file's or zero; a relocated pointer points to the same place of the     *)
(* image where it lies now; a bound slot holds the address of the function *)
(* of its name in the other image.                                         *)
ImagesAreTheirFiles ==
  (s.result = "ok" /\ \A i \in DOMAIN s.images : Linked(s.images[i].file)) =>
    /\ s.pages * PAGE = NextBase(s)
    /\ \A i \in DOMAIN s.images :
      LET m == s.images[i]
          other == s.images[3 - i]
          Exported(name) == LET d == FileWord(other.file, other.file.export)
                                k == Min({k \in DOMAIN d.names : d.names[k] = name})
                            IN  other.base + d.functions[d.ordinals[k] + 1]
          Expected(rva) ==
            LET slot == {x \in Slots(m.file) : x[1] = rva} IN
            IF m.bound /\ slot # {} THEN Word(Exported((CHOOSE x \in slot : TRUE)[2]))
            ELSE IF m.relocated /\ rva \in Pointers(m.file)
                 THEN Word((FileWord(m.file, rva).n + m.base - m.file.image_base) % WORD)
            ELSE FileWord(m.file, rva)
      IN  \A rva \in 0..m.file.size_of_image - 1 : s.mem[m.base + rva] = Expected(rva)

(* elf64_load_executable and elf64_load_executable_pages take the same     *)
(* images, those with every segment in the file and in the window and the  *)
(* entry point in an executable one, and give the same memory: each        *)
(* segment its bytes of the file (the last of those that overlap), zeros   *)
(* between them.                                                           *)
ProgramsAreTheirFiles ==
  s.elf # <<>> =>
    LET e == s.elf
        f == e.file
        P == Loads(f)
        Byte(a) == LET At == {i \in DOMAIN P : a \in P[i].address..P[i].address + P[i].file_size - 1}
                   IN  IF At = {} THEN 0 ELSE f.data[P[Max(At)].offset + a - P[Max(At)].address]
        Fits(p) == /\ p.file_size <= p.memory_size /\ range_fits(p.offset, p.file_size, f.size)
                   /\ p.address >= e.window[1] /\ p.address + p.memory_size <= e.window[1] + e.window[2] * PAGE
        Starts(p) == p.executable /\ f.entry \in p.address..p.address + p.memory_size - 1
    IN  /\ e.pages = e.block
        /\ (e.block # <<>>) = (/\ f.table + Len(f.programs) * PROGRAM <= f.size /\ e.window[1] + e.window[2] * PAGE < WORD
                               /\ \A i \in DOMAIN P : Fits(P[i])
                               /\ \E i \in DOMAIN P : Starts(P[i]))
        /\ \A a \in DOMAIN e.block : e.block[a] = Byte(a + e.window[1])
=============================================================================
