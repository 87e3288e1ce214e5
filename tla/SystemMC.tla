------------------------------ MODULE SystemMC ------------------------------
(***************************************************************************)
(* One run for the parts of the system that share no state with each       *)
(* other: `part' says which of them a behaviour is about, s is its state.  *)
(***************************************************************************)
EXTENDS Integers, Sequences, FiniteSets, TLC

VARIABLES part, s
vars == <<part, s>>

(* Two file slots, a name that is also a directory, one process.           *)
R == INSTANCE Ramfs WITH
  Slots <- 2, Storage <- 3, DataMax <- 2, Procs <- {1}, Handles <- 1,
  Names <- {[root |-> FALSE, path |-> <<"d">>], [root |-> FALSE, path |-> <<"d", "a">>],
            [root |-> TRUE, path |-> <<"d", "b">>]},
  Data <- {<<1>>, <<2, 2>>}, Modules <- {<<3>>}

(* What the theorems about the file system assume of its constants.        *)
ASSUME FilesFit == R!RamfsConstants

(* The editors, with documents up to three lines of two characters.        *)
E == INSTANCE TextEditor WITH
  Which <- "makobox", Char <- {1}, NL <- 0, LINES <- 3, CAPACITY <- 3, ROWS <- 1, DEPTH <- 1,
  Files <- {<<>>, <<1, 1, 1, 0, 0>>, <<1, 0, 1, 0, 0, 1>>}

X == INSTANCE TextEditor WITH
  Which <- "xterm", Char <- {1}, NL <- 0, LINES <- 3, CAPACITY <- 3, ROWS <- 1, DEPTH <- 1,
  Files <- {<<>>, <<1, 1, 1, 0, 1>>}

(* The line editors of the two shells, with two commands to remember.      *)
H == INSTANCE TextEditor WITH
  Which <- "makobox", Char <- {1, 2}, NL <- 0, LINES <- 1, CAPACITY <- 3, ROWS <- 1, Files <- {}, DEPTH <- 2

T == INSTANCE TextEditor WITH
  Which <- "xterm", Char <- {1, 2}, NL <- 0, LINES <- 1, CAPACITY <- 3, ROWS <- 1, Files <- {}, DEPTH <- 2

(* A card, a gateway that is one of three hosts, one request after boot.    *)
N == INSTANCE Network WITH
  Hosts <- {1, 2, 3}, Gateway <- 1, Servers <- {5, 6}, ARP_CACHE_LIMIT <- 2, HTTP_RETRY_LIMIT <- 2, REQUESTS <- 1,
  Segments <- {<<1, 2>>, <<3, 4>>, <<1, 3>>}, HEADER <- 2, STREAM <- 4, LIMIT <- 3

(* What the theorem about requests and answers assumes.                    *)
ASSUME NetworkFits == N!NetworkConstants

(* Rings of three descriptors.                                             *)
C == INSTANCE E1000 WITH DESCRIPTOR_COUNT <- 3, FRAMES <- 5

(* What the theorem about the rings assumes of their size.                 *)
ASSUME RingsFit == C!E1000Constants

(* Maps that are large, tight, or split; registers in one GiB region.      *)
B == INSTANCE Boot WITH
  Maps <- {<<<<0, 1>>, <<2, 40>>>>, <<<<2, 12>>, <<14, 60>>>>, <<<<2, 24>>>>},
  Reserved <- {{<<2, 4>>, <<5, 6>>}, {<<2, 4>>, <<1, 2>>, <<6, 8>>}}, Regions <- {3},
  Modes <- {{}, {"boottest"}, {"doomtest"}, {"desktop"}, {"desktop", "boottest"}, {"install"}}

(* What the theorems about the boot assume of maps and registers.          *)
ASSUME BootFits == B!BootConstants /\ B!OneRegion

(* Two process slots; the session of the scripted desktop image.         *)
U == INSTANCE InitUnits WITH Pids <- {1, 2}, Graphical <- TRUE, APPS <- 2, EVENTS <- 2, CHANGES <- 2

(* What the theorem about the hand-over assumes of the process slots.      *)
ASSUME UnitsFit == U!InitUnitsConstants

(* MakoBox's text commands: every text of up to four bytes.                *)
Texts(n) == UNION {[1..k -> {0, 1, 2, 3}] : k \in 0..n}
Tokens == {"0", "2", "3", "+", "-", "*", "/", "%", "(", ")"}
Sums == UNION {[1..k -> Tokens] : k \in 1..3} \cup
        {<<"3", "-", "2", "-", "2">>, <<"3", "-", "2", "*", "3">>, <<"2", "*", "(", "3", "-", "0", ")">>,
         <<"(", "2", "+", "3", ")", "*", "-", "2">>, <<"-", "3", "3", "/", "2", "%", "3">>, <<"(", "(", "3", ")">>,
         <<"3", "/", "(", "2", "-", "2", ")">>, <<"2", "*", "3", "+", "3", "*", "3">>, <<"3", "+", "2", ")">>}
W == INSTANCE TextTools WITH
  Shared <- FALSE, NL <- 0, SP <- 3, Files <- Texts(4), Patterns <- {<<1>>, <<1, 2>>}, Counts <- {0, 1, 2},
  Ranges <- {<<a, b, c>> : a \in {-1, 2}, b \in {-1, 0, 2}, c \in {-2, 2, 3}}, Expressions <- Sums,
  FILE_CAPACITY <- 9, LINE_CAPACITY <- 9, SORT_MAX_LINES <- 3, STRING_MIN <- 2

(* xterm's, with capacities that cut.                                      *)
V == INSTANCE TextTools WITH
  Shared <- TRUE, NL <- 0, SP <- 3, Files <- Texts(4), Patterns <- {<<1>>}, Counts <- {1, 2},
  Ranges <- {}, Expressions <- {}, FILE_CAPACITY <- 3, LINE_CAPACITY <- 2, SORT_MAX_LINES <- 2, STRING_MIN <- 2

(* xterm's commands on three files (the first may be a boot module, empty  *)
(* or longer than the buffer), with ten free capability slots: a few       *)
(* more than the eight of the code, so that a walk of the tree can end     *)
(* before the handles it leaves open have filled them.                     *)
S == INSTANCE SharedShell WITH
  Paths <- <<<<"a">>, <<"d", "a">>, <<"d", "b">>>>, Data <- {<<1, 0, 2>>, <<>>},
  FILE_CAPACITY <- 2, LINE_CAPACITY <- 9, SORT_MAX_LINES <- 9, HANDLES <- 10

(* A shift, an extended modifier, a letter and an arrow; one lost byte.    *)
I == INSTANCE InputDevices WITH
  Mixes <- {{"keyboard"}, {"mouse"}, {"tablet", "mouse"}},
  Keys <- {"lshift", "ralt", "a", "up"}, KEYBOARD_BUFFER <- 3, WIRE <- 4, Moves <- {<<0, 0>>, <<-1, -2>>, <<200, 0>>}, Screens <- {2, 4},
  Raw <- {1, 5}, AXIS <- 4, IRQ_LIMIT <- 4, TIMER_LIMIT <- 2, LOSSES <- 1, EVENTS <- 4

(* Images of less than a chunk up to more than a disk; two tones.          *)
D == INSTANCE Disk WITH
  Images <- {<<>>, <<1>>, <<1, 2, 3, 4, 5>>, <<1, 2, 3, 4, 5, 6, 7, 8>>}, DiskSectors <- {2, 3, 6}, SECTOR <- 2, CHUNK <- 2,
  TYPED <- 4, BUFFERS <- 2

(* What the theorem about the installer assumes of images and disks.       *)
ASSUME DisksFit == D!DiskConstants

(* Two files, three changes, two commits, an arena that overflows.         *)
G == INSTANCE GitRepo WITH
  Names <- {"a", "b"}, Data <- {<<>>, <<1, 2>>, <<1, 3, 2>>}, Messages <- {"m"}, GIT_SNAPSHOT_ARENA_BYTES <- 7, GIT_MAX_TRACKED <- 2,
  GIT_MAX_COMMITS <- 3, CHANGES <- 4

(* A screen of 4 by 2 with a 2 by 2 cursor, part glass, part clear.         *)
P == INSTANCE Framebuffer WITH
  Width <- 4, Height <- 2, CursorW <- 2, CursorH <- 2, BOUNCE <- 4, CALLS <- 2,
  Rects <- {<<0, 0, 2, 1>>, <<3, 1, 3, 2>>, <<-1, 0, 2, 2>>, <<1, 0, 3, 2>>}, Spreads <- {0, 1},
  Places <- {<<0, 0>>, <<9, 1>>},
  Icons <- [i \in {0, 1} |-> [p \in (0..1) \X (0..1) |-> IF p[1] = 0 THEN 30 + i * 10 ELSE IF p[2] = i THEN 5 ELSE 0]]

(* A console of two rows of three; tabs every two columns.                 *)
O == INSTANCE Terminal WITH Rows <- 2, Columns <- 3, TAB <- 2, Chars <- {"a"}, LENGTH <- 6

(* The narrowest, a narrow and a wide window; up to a full window table.    *)
K == INSTANCE Chrome WITH
  Tables <- {1, 8}, Widths <- {96, 160, 500}, Heights <- {8, 13, 20, 88, 130, 282, 290, 436, 450, 471}

(* A drawable of 5 by 3, buffers of two pixels, glyphs of 2 by 2.          *)
J == INSTANCE Draw WITH
  WIDE <- 5, HIGH <- 3, CHUNK <- 2, GW <- 2, GH <- 2, At <- {-1, 0, 1, 3, 6}, Sizes <- {0, 1, 3, 4}, TUI_MAX_WIDTH <- 14,
  Labels <- {0, 1, 3, 9, 20}

(* Letters at both ends of their ranges, texts of up to three, a sign.     *)
L == INSTANCE CLibrary WITH
  Chars <- {65, 91, 97, 123}, LENGTH <- 3, Counts <- {0, 2, 4}, Values <- {-120, -7, 0, 5, 9, 79, 1004}, Widths <- {0, 2, 5},
  Keys <- {1, 2, 3}, ITEMS <- 5

(* Two streams of each port on two files.                                  *)
Q == INSTANCE PortFiles WITH
  Shim <- "quake", Paths <- {1, 2}, Bytes <- {1, 2}, Offsets <- {0, 2}, MAX_FILES <- 2, BUF_SIZE <- 2, HANDLES <- 2,
  FILE_MAX <- 3, CALLS <- 6

F == INSTANCE PortFiles WITH
  Shim <- "doom", Paths <- {1, 2}, Bytes <- {1, 2}, Offsets <- {0, -1}, MAX_FILES <- 2, BUF_SIZE <- 2, HANDLES <- 2,
  FILE_MAX <- 3, CALLS <- 6

(* An arena of fourteen units.                                              *)
A == INSTANCE PortHeap WITH ARENA <- 14, HEADER <- 2, Sizes <- {1, 2, 4}, Words <- {1, 2}

(* The base game with two PAKs, a game with one; registered and not.       *)
PakA == <<"id1", "pak0">>
PakB == <<"id1", "pak1">>
PakC == <<"mod", "pak0">>
PakFiles(withPop) == (PakA :> <<[name |-> "map", pos |-> 2, len |-> 2], [name |-> "progs", pos |-> 4, len |-> 1]>>) @@
  (PakC :> <<[name |-> "progs", pos |-> 1, len |-> 2], [name |-> "cfg", pos |-> 3, len |-> 1]>>) @@
  (PakB :> (IF withPop THEN <<[name |-> "pop", pos |-> 1, len |-> 1], [name |-> "map", pos |-> 1, len |-> 3]>>
            ELSE <<[name |-> "map", pos |-> 1, len |-> 3]>>))
GameDisk == (PakA :> <<0, 1, 11, 12, 13>>) @@ (PakB :> <<1, 21, 22, 23>>) @@ (PakC :> <<1, 31, 32, 33>>) @@
  (<<"id1", "cfg">> :> <<41>>) @@ (<<"id1", "map">> :> <<42>>) @@ (<<"mod", "map">> :> <<51, 52>>)
CommandLines == {[game |-> g, path |-> p, proghack |-> h] : g \in {"", "mod"}, h \in BOOLEAN,
                   p \in {<<>>, <<PakA, <<"mod", "">>>>}}
Y == INSTANCE QuakeFiles WITH
  Disk <- GameDisk, Packs <- PakFiles(TRUE), Commands <- CommandLines, Names <- {"map", "progs", "cfg", "new"},
  Deep <- {"map"}, PakNames <- <<"pak0", "pak1">>, PAK0_COUNT <- 2, QUAKE_MAX_HANDLES <- 6, Data <- {<<61>>, <<62, 63>>}

Z == INSTANCE QuakeFiles WITH
  Disk <- [p \in DOMAIN GameDisk \ {PakB} |-> GameDisk[p]], Packs <- PakFiles(FALSE), Commands <- CommandLines, Names <- {"map", "progs", "cfg", "new"},
  Deep <- {"map"}, PakNames <- <<"pak0", "pak1">>, PAK0_COUNT <- 2, QUAKE_MAX_HANDLES <- 6, Data <- {<<61>>, <<62, 63>>}

(* Values at the ends of the fields' ranges, a buffer of seven bytes.      *)
M == INSTANCE QuakeMessages WITH
  Fields <- {[type |-> "byte", value |-> 255], [type |-> "short", value |-> 40000], [type |-> "long", value |-> -70000],
             [type |-> "coord", value |-> -33], [type |-> "angle", value |-> 270], [type |-> "float", value |-> <<1, 0, 255, 3>>],
             [type |-> "string", value |-> <<7, 8>>]},
  MAX_SIZE <- 7, ALLOW <- TRUE, FIELDS <- 3, Nodes <- {1, 2, 3, 4}

(* A package of the oldest and the newest layout.                          *)
BS == INSTANCE DataWin WITH
  Games <- {[wad |-> 8, major |-> 1, minor |-> 0, release |-> 0, build |-> 198],
            [wad |-> 17, major |-> 2022, minor |-> 9, release |-> 0, build |-> 0]},
  Damage <- {0, 1, 7, 35}, MAX_CHUNKS <- 10, SCENE_INSTANCE_MAX <- 1, ARENA <- 24, HEADER <- 2,
  Decodes <- [rgba : {1, 4, 9}, out : {1, 3, 12}, packed : {2, 5}, scratch : {2, 9}, fails : {"", "magic", "bzip2", "qoi"}]

(* The four ports with a window: on screens too small, larger than the     *)
(* frame, and larger than a transfer, with any one step of a call failing; *)
(* and with a user at two names of a direction, a digit and escape.        *)
PortKey(code, special, letter, shift, mask) ==
  [code |-> code, special |-> special, letter |-> letter, shift |-> shift, mask |-> mask]
PW == INSTANCE PortWindow WITH
  Ports <- {"quake", "doom", "classicube", "butterscotch"},
  Screens <- {[width |-> 300, height |-> 200, transfer |-> 320], [width |-> 1300, height |-> 480, transfer |-> 2048],
              [width |-> 1920, height |-> 1080, transfer |-> 1000]},
  Faults <- {{}} \cup {{f} : f \in {"argb", "z", "display", "info", "factory", "scaled", "surface", "window", "attach", "upload", "connect"}},
  Keys <- {PortKey("escape", TRUE, FALSE, "", "none")}, EVENTS <- 2, WINDOWS <- 2

PK == INSTANCE PortWindow WITH
  Ports <- {"quake", "doom", "classicube", "butterscotch"},
  Screens <- {[width |-> 640, height |-> 480, transfer |-> 1024]}, Faults <- {{}},
  Keys <- {PortKey("escape", TRUE, FALSE, "", "none"), PortKey("left", TRUE, FALSE, "", "LEFT"),
           PortKey("a", FALSE, TRUE, "A", "LEFT"), PortKey("1", FALSE, FALSE, "!", "none")}, EVENTS <- 3, WINDOWS <- 1

(* Two surfaces of up to 3 by 2, bitmaps of eight, four and one bit.        *)
Picture(w, h, bpp, palette) ==
  [w |-> w, h |-> h, bpp |-> bpp, palette |-> palette, index |-> [p \in (0..w - 1) \X (0..h - 1) |-> (p[1] * p[1] + p[2]) % Len(palette)]]
SD == INSTANCE Sdl WITH
  Slots <- {1, 2}, Sizes <- {<<2, 2>>, <<3, 1>>}, Colours <- {0, 7}, NCOLORS <- 3,
  Rects <- {<<>>, [x |-> 0, y |-> 0, w |-> 2, h |-> 1], [x |-> -1, y |-> 1, w |-> 2, h |-> 3]},
  Clips <- {<<>>, [x |-> 0, y |-> 0, w |-> 1, h |-> 9], [x |-> 1, y |-> 1, w |-> 1, h |-> 1]},
  Pictures <- {Picture(2, 2, 8, <<5, 7, 0>>), Picture(3, 2, 4, <<5, 7, 0>>), Picture(9, 1, 1, <<5, 7>>)},
  Faults <- {"", "header", "palette_read", "row"}, Displays <- {[width |-> 5, height |-> 3], [width |-> 2, height |-> 5], [width |-> 8, height |-> 2]},
  STRIP <- 2, MAX_BLANK_WIDTH <- 6, CALLS <- 4

(* Two voices, sounds of one and three samples; waves of every layout,     *)
(* with a chunk between, a chunk cut off and a wrong alignment.            *)
Wave(bits, channels, rate, bytes, align, cut, extra) ==
  [riff |-> 4, cut |-> cut,
   chunks |-> extra \o <<[tag |-> "fmt ", size |-> 16, channels |-> channels, rate |-> rate, align |-> align, bits |-> bits]>>
              \o extra \o <<[tag |-> "data", size |-> Len(bytes), bytes |-> bytes]>>]
AW == INSTANCE PortSound WITH
  Mixers <- {"wave", "butterscotch", "doom"}, VOICES <- 2, Sounds <- {<<6>>, <<3, -2, 5>>}, Volumes <- {<<4, 0, 2>>, <<2, -4, 4>>}, FULL <- 4, TOP <- 7, IDS <- 3,
  Frames <- {1, 3}, STARTS <- 2, RENDERS <- 2, Rates <- {1, 6}, OUT_RATE <- 4, ONE <- 4, WRAP <- 5,
  Waves <- {Wave(b, c, r, d, c * (b \div 8), k, x) : b \in {8, 16}, c \in {1, 2}, r \in {0, 2, 3, 4, 7}, k \in {0, 1},
              d \in {<<>>, <<0, 64, 192, 255>>, <<0, 64, 192>>}, x \in {<<>>, <<[tag |-> "LIST", size |-> 3]>>}}

(* A library of two functions and a program with two sections, padding,   *)
(* imports and a relocation; both cut, damaged and mislinked in every      *)
(* field.  ELF images of two segments in windows that fit and do not.      *)
PeFile(size, sections, image, dirs, data) ==
  [size |-> size, mz |-> TRUE, pe_offset |-> 1, pe |-> TRUE, amd64 |-> TRUE, optional |-> 2, pe32plus |-> TRUE,
   count |-> Len(sections), sections |-> sections, size_of_image |-> image, image_base |-> 20, export |-> dirs[1], import |-> dirs[2],
   reloc |-> dirs[3], reloc_size |-> dirs[4], data |-> [i \in 6..size - 1 |-> data[i - 5]]]
PeSection(va, vs, rs, rp) == [virtual_address |-> va, virtual_size |-> vs, raw_size |-> rs, raw_pointer |-> rp]
PeWord(n) == [kind |-> "word", n |-> n]
Library == PeFile(8, <<PeSection(2, 2, 2, 6)>>, 4, <<2, 0, 0, 0>>,
  <<[kind |-> "exports", names |-> <<"f", "g">>, ordinals |-> <<1, 0>>, functions |-> <<3, 2>>], PeWord(7)>>)
Importer(names, type) == PeFile(12, <<PeSection(0, 4, 3, 7), PeSection(4, 1, 2, 10)>>, 8, <<0, 1, 4, 2>>,
  <<PeWord(0), PeWord(21), [kind |-> "imports", descriptors |-> <<[slot |-> 2, names |-> names]>>], PeWord(0),
    [kind |-> "relocs", blocks |-> <<[page |-> 0, size |-> 2, entries |-> <<[type |-> type, offset |-> 0]>>]>>], PeWord(9)>>)
Overlapping == [Importer(<<"g">>, "dir64") EXCEPT !.sections[2].virtual_address = 2, !.reloc = 2]
Linkable == {Library, Overlapping} \cup {Importer(<<n>>, t) : n \in {"f", "g", "h", "#"}, t \in {"dir64", "absolute", "high"}}
Mislinked(f) ==
  {[f EXCEPT !.size = n] : n \in 0..f.size} \cup {[f EXCEPT !.pe_offset = n] : n \in {0, 4, 6, 9}}
  \cup {[f EXCEPT !.mz = FALSE], [f EXCEPT !.pe = FALSE], [f EXCEPT !.amd64 = FALSE], [f EXCEPT !.pe32plus = FALSE]}
  \cup {[f EXCEPT !.optional = n] : n \in {0, 1, 3, 9}} \cup {[f EXCEPT !.size_of_image = n] : n \in {0, 3, 5, 99}}
  \cup {[f EXCEPT !.sections[1].virtual_size = n] : n \in {0, 1, 5, 9}} \cup {[f EXCEPT !.sections[1].virtual_address = n] : n \in {1, 3, 8}}
  \cup {[f EXCEPT !.sections[1].raw_pointer = n] : n \in {0, 9}} \cup {[f EXCEPT !.import = 5], [f EXCEPT !.export = 9]}
ElfFile(entry, table, a, b) ==
  [size |-> 8, header |-> TRUE, table |-> table, programs |-> <<a, b>>, entry |-> entry, data |-> [i \in 0..7 |-> 10 + i]]
ElfProgram(address, file, memory, offset, executable, load) ==
  [address |-> address, file_size |-> file, memory_size |-> memory, offset |-> offset, executable |-> executable, load |-> load]
LD == INSTANCE Loaders WITH
  WORD <- 64, PAGE <- 2, RESERVED <- 6, Frames <- {4, 6}, DOS <- 1, SIGNATURE <- 1, COFF <- 1, STANDARD <- 1, DIRECTORIES <- 1, SECTION <- 1,
  MAX_IMAGE <- 12, PeFiles <- Linkable \cup Mislinked(Library) \cup Mislinked(Importer(<<"g">>, "dir64")),
  PROGRAM <- 1, Windows <- {<<8, 3>>, <<10, 2>>, <<60, 2>>},
  ElfFiles <- {ElfFile(e, t, ElfProgram(a, 2, 2, o, TRUE, TRUE), ElfProgram(c, 1, m, 5, FALSE, l)) :
                 e \in {10, 12, 13, 60}, t \in {2, 7}, a \in {8, 10, 11, 60}, o \in {3, 7}, c \in {12, 13, 62}, m \in {0, 1, 2}, l \in BOOLEAN}

(* Two configurations in range and one that is not; three saves.           *)
PC == INSTANCE Persistence WITH Configs <- {1, 2, 3}, Valid <- {1, 2}, SAVES <- 3

(* What the theorem about the saved configuration assumes.                 *)
ASSUME ConfigurationsFit == PC!PersistenceConstants

Init == \/ part = "ramfs" /\ R!Init
        \/ part = "editor" /\ E!Init
        \/ part = "xterm_editor" /\ X!Init
        \/ part = "shell" /\ H!LineInit
        \/ part = "xterm_line" /\ T!LineInit
        \/ part = "network" /\ N!Init
        \/ part = "card" /\ C!Init
        \/ part = "boot" /\ B!Init
        \/ part = "units" /\ U!Init
        \/ part = "tools" /\ W!Init
        \/ part = "shared_tools" /\ V!Init
        \/ part = "xterm_shell" /\ S!Init
        \/ part = "input" /\ I!Init
        \/ part = "disk" /\ D!Init
        \/ part = "git" /\ G!Init
        \/ part = "screen" /\ P!Init
        \/ part = "console" /\ O!Init
        \/ part = "chrome" /\ K!Init
        \/ part = "draw" /\ J!Init
        \/ part = "library" /\ L!Init
        \/ part = "quake_files" /\ Q!Init
        \/ part = "doom_files" /\ F!Init
        \/ part = "heap" /\ A!Init
        \/ part = "quake_path" /\ Y!Init
        \/ part = "shareware_path" /\ Z!Init
        \/ part = "quake_messages" /\ M!Init
        \/ part = "butterscotch" /\ BS!Init
        \/ part = "sdl" /\ SD!Init
        \/ part = "sound" /\ AW!Init
        \/ part = "port_window" /\ PW!Init
        \/ part = "port_keys" /\ PK!Init
        \/ part = "loaders" /\ LD!Init
        \/ part = "config" /\ PC!Init

Next == /\ part' = part
        /\ \/ part = "ramfs" /\ R!Next
           \/ part = "editor" /\ E!Next
           \/ part = "xterm_editor" /\ X!Next
           \/ part = "shell" /\ H!LineNext
           \/ part = "xterm_line" /\ T!LineNext
           \/ part = "network" /\ N!Next
           \/ part = "card" /\ C!Next
           \/ part = "boot" /\ B!Next
           \/ part = "units" /\ U!Next
           \/ part = "tools" /\ W!Next
           \/ part = "shared_tools" /\ V!Next
           \/ part = "xterm_shell" /\ S!Next
           \/ part = "input" /\ I!Next
           \/ part = "disk" /\ D!Next
           \/ part = "git" /\ G!Next
           \/ part = "screen" /\ P!Next
           \/ part = "console" /\ O!Next
           \/ part = "chrome" /\ K!Next
           \/ part = "draw" /\ J!Next
           \/ part = "library" /\ L!Next
           \/ part = "quake_files" /\ Q!Next
           \/ part = "doom_files" /\ F!Next
           \/ part = "heap" /\ A!Next
           \/ part = "quake_path" /\ Y!Next
           \/ part = "shareware_path" /\ Z!Next
           \/ part = "quake_messages" /\ M!Next
           \/ part = "butterscotch" /\ BS!Next
           \/ part = "sdl" /\ SD!Next
           \/ part = "sound" /\ AW!Next
           \/ part = "port_window" /\ PW!Next
           \/ part = "port_keys" /\ PK!Next
           \/ part = "loaders" /\ LD!Next
           \/ part = "config" /\ PC!Next

Spec == Init /\ [][Next]_vars

(* Ramfs implements FileStore: every file system call has the outcome that *)
(* the store of names and handles allows, and changes nothing else.        *)
ImplementsFileStore == [][part = "ramfs" => R!StoreStep]_vars

(* Files: a listing names every child and a subdirectory once (Ramfs), the *)
(* terminal's file commands keep what they do not name and the text they   *)
(* move (SharedShell), and a commit is what was committed (GitRepo).       *)
FilesStayAndAreListed ==
  /\ part = "ramfs" => R!ListingNamesEveryChild
  /\ part = "xterm_shell" => S!ShellKeepsFiles
  /\ part = "git" => G!SnapshotsAreKept

(* What is typed: an editor's document that is not marked as modified is   *)
(* saved, what MakoBox's writes it reads back, both stay inside their      *)
(* arrays, and both shells recall the commands that were run, in their     *)
(* order (TextEditor).                                                     *)
TypedTextIsKept ==
  /\ part = "editor" => E!CleanMeansSaved /\ E!SaveThenLoad /\ E!CursorInText
  /\ part = "xterm_editor" => X!CleanMeansSaved /\ X!CursorInText
  /\ part = "shell" => H!HistoryIsWhatRan
  /\ part = "xterm_line" => T!HistoryIsWhatRan

(* The text commands of both shells print what they mean (TextTools), and  *)
(* the C library of the ports computes what C defines (CLibrary).          *)
ToolsComputeTheirMeaning ==
  /\ part = "tools" => W!ToolsPrintWhatTheyMean
  /\ part = "shared_tools" => V!ToolsPrintWhatTheyMean
  /\ part = "library" => L!LibraryIsC

(* The network: an answer is taken by the request it answers, whatever is  *)
(* lost, late or repeated (Network), and the card's rings neither lose nor *)
(* repeat nor change a frame (E1000).                                      *)
AnswersAreForTheRequest ==
  /\ part = "network" => N!AnswersAreForTheRequest
  /\ part = "card" => C!RingsKeepFrames

(* Boot: every frame is given out once, and the registers of a device stay *)
(* mapped once they are.                                                   *)
BootMemoryIsSound == part = "boot" => B!FramesAreGivenOnce /\ B!DevicesStayMapped

(* InitUnits: the desktop of the init system is a live compositor, and it  *)
(* is never left asleep.                                                   *)
DesktopIsTheCompositor == part = "units" => U!DesktopIsTheCompositor /\ U!DesktopIsResumed

(* Keys, modifiers, pointer and buttons are what the devices report, in    *)
(* step with them after a lost byte (InputDevices), and a port keeps a key *)
(* down only while its user holds it or when its release went elsewhere or *)
(* came under another name (PortWindow).                                   *)
InputIsWhatHappened ==
  /\ part = "input" => I!KeysMeanWhatIsHeld /\ I!PointerStaysSane /\ I!MouseIsInStep
  /\ part = "port_keys" => PK!HeldKeysAreDown

(* An installed image is on the disk as it is in memory and nothing else   *)
(* is changed, a tone's buffers are played whole and in order (Disk), and  *)
(* a port's mixer plays each sound to its end, adds up the voices, and     *)
(* answers an id only by the voice it names (PortSound).                   *)
DevicesDoWhatWasAsked ==
  /\ part = "disk" => D!InstallIsExact /\ D!SoundsAreWhole
  /\ part = "sound" => AW!SoundsPlayThrough /\ AW!BuffersAreTheSum /\ AW!IdsNameOneVoice /\ AW!DecodedWavesKeepTime

(* The screen shows the scene and the cursor (Framebuffer), the console    *)
(* its output, lagging only where it must (Terminal), what is drawn as a   *)
(* control is one (Chrome), drawing requests change the pixels they name   *)
(* (Draw), SDL surfaces hold what was blitted and a frame is centred with  *)
(* clean borders (Sdl), and a port's frame fits its window or screen       *)
(* (PortWindow).                                                           *)
ScreenIsWhatWasDrawn ==
  /\ part = "screen" => P!ScreenShowsTheScene
  /\ part = "console" => O!ConsoleShowsTheOutput /\ O!ScreenLagsOnlyUnderProcesses
  /\ part = "chrome" => K!PressReachesWhatIsDrawn
  /\ part = "sdl" => SD!SurfacesShowWhatWasDrawn /\ SD!FrameIsCentred
  /\ part = "port_window" => PW!FramesFitTheScreen
  /\ part = "draw" => J!RequestsDrawWhatTheyName /\ J!ShapesAreSound

(* What the ports keep: a file holds what the streams wrote and a read     *)
(* returns what is at its position (PortFiles), a game file is the one     *)
(* that was added last (QuakeFiles), a message is read as it was written   *)
(* and links run around (QuakeMessages), a saved configuration is the one  *)
(* loaded (Persistence), and a closed window gives back its handles        *)
(* (PortWindow).                                                           *)
PortsReadTheirFiles ==
  /\ part = "port_window" => PW!ClosedMeansReleased /\ PW!WindowIsLiveOrClosing
  /\ part = "quake_files" => Q!FilesHoldWhatWasWritten /\ Q!ReadsComeFromTheirPosition
  /\ part = "doom_files" => F!FilesHoldWhatWasWritten /\ F!ReadsComeFromTheirPosition
  /\ part = "config" => PC!LoadsWhatWasSaved /\ PC!SuccessIsDurable
  /\ part = "quake_path" => Y!LoadsTheOverride
  /\ part = "shareware_path" => Z!LoadsTheOverride
  /\ part = "quake_messages" => M!MessagesArrive /\ M!LinksRunAround

(* Game packages are read inside their chunks (DataWin), executables       *)
(* inside their files and written inside their memory (Loaders), and the   *)
(* blocks of a port's heap tile its arena, also after a texture that fails *)
(* to decode (PortHeap), and belong to live surfaces (Sdl).                *)
PackagesAreReadInside ==
  /\ part = "butterscotch" => BS!PackagesAreReadInside /\ BS!TexturesLeaveOneGap
  /\ part = "loaders" => LD!HeadersAreReadInside /\ LD!LoadersTouchTheirMemory /\ LD!ImagesAreTheirFiles /\ LD!ProgramsAreTheirFiles
  /\ part = "sdl" => SD!HeapIsOwned
  /\ part = "heap" => A!BlocksTileTheArena

(* SharedShell: a file that exists is not reported missing.                *)
ReadFindsTheFile == part = "xterm_shell" => S!ReadFindsTheFile
=============================================================================
