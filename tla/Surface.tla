------------------------------- MODULE Surface -------------------------------
(***************************************************************************)
(* Shared pixel surfaces: the per-process capability tables                *)
(* (src/capability.cpp on include/kernel/slot_table.h), the reference      *)
(* counted surface objects and their pixel arena (src/surface.c), and the  *)
(* system calls, read-only mappings and process teardown of                *)
(* src/arch/x86_64/userspace.c that hold and release them.                 *)
(*                                                                         *)
(* A system call runs with IF=0, so it is one atomic step.  The state of   *)
(* the files involved is one record os, every function is an operator on   *)
(* it, and a system call chains them in the order of the code:             *)
(*   proc   process slots: free, live, or exited and not yet reaped        *)
(*   svc    assigned_services has the surface and display bits             *)
(*   slot   tables[pid].entries_[slot]                                     *)
(*   obj    objects[]                                                      *)
(*   ink    the arena pages that are not all zero                          *)
(*   map    mapped_surface[pid][slot], 0 for none                          *)
(*   table  surface_map_page_table[pid][slot] has a frame                  *)
(*   ptes   the arena pages entered in that page table                     *)
(*   shown  display_owner_pid                                              *)
(*                                                                         *)
(* Which process is on the CPU, and which parent waits for which child, is *)
(* the business of Scheduler; here every live process may make a call, and *)
(* an exit may or may not find its parent waiting.  An arena page is 4096  *)
(* bytes, the 1024-pixel unit in which surface_create rounds and searches. *)
(* A damaged rectangle is its far edge in pages, 0 when none is pending.   *)
(* A call that is refused changes nothing but counters and is no step      *)
(* here.                                                                   *)
(*                                                                         *)
(* kept is one handle number that a program still remembers although its   *)
(* slot was closed, and age how often that slot has been closed since.     *)
(***************************************************************************)
EXTENDS Naturals, FiniteSets

CONSTANTS
  ProcessLimit,      \* kProcessLimit, SCHEDULER_PROCESS_LIMIT
  SlotsPerProcess,   \* kSlotsPerProcess
  Generations,       \* generations are counted modulo this: 2^16
  SurfaceLimit,      \* SURFACE_LIMIT
  ArenaPages,        \* SURFACE_ARENA_BYTES / 4096
  MapSlots,          \* USER_SURFACE_MAP_SLOTS
  MapPages,          \* USER_SURFACE_MAP_PAGES
  Sizes,             \* bound on the sizes, in pages, that programs ask for
  Services,          \* bound on the services that programs open
  Reaches            \* bound on the far edges of the rectangles they damage

ASSUME SurfaceConstants ==
  /\ ProcessLimit \in Nat \ {0} /\ SlotsPerProcess \in Nat /\ SurfaceLimit \in Nat
  /\ ArenaPages \in Nat /\ MapSlots \in Nat /\ MapPages \in Nat
  /\ Sizes \subseteq Nat \ {0}
  /\ Generations \in Nat /\ Generations > 1
  /\ Reaches \subseteq Nat \ {0}

ASSUME SurfaceServices == Services \subseteq {"display", "factory"}

VARIABLES os, kept

vars == <<os, kept>>

User    == 1 .. ProcessLimit - 1
Slot    == 0 .. SlotsPerProcess - 1
Object  == 1 .. SurfaceLimit
MapSlot == 0 .. MapSlots - 1
Page    == 0 .. ArenaPages - 1

Cell   == User \X Slot          \* a capability slot of a process
Window == User \X MapSlot       \* a mapping slot of a process

(* Service and rights of a slot: a service handle without an object (the   *)
(* display stands for all of them), the surface factory (open, query), a   *)
(* surface to its creator (read, write, query), a surface to a process it  *)
(* was shared with (read, query).                                          *)
Kind == {"none", "display", "factory", "write", "read"}

Entry == [open : BOOLEAN, gen : 1 .. Generations - 1, kind : Kind,
          obj : 0 .. SurfaceLimit]

SurfaceObject == [active : BOOLEAN, offset : Nat, pages : Nat, references : Nat,
                  damage : Nat]
NoSurface == [active |-> FALSE, offset |-> 0, pages |-> 0, references |-> 0,
              damage |-> 0]

(* A handle number: make_handle packs these three words.                   *)
Handle == [pid : User, slot : Slot, gen : 1 .. Generations - 1]

Kept == [pid : User, slot : Slot, gen : 1 .. Generations - 1,
         age : 1 .. Generations - 2]
NoHandle == [pid |-> 0, slot |-> 0, gen |-> 0, age |-> 0]

OS == [proc  : [User -> {"free", "live", "exited"}],
       svc   : [User -> BOOLEAN],
       slot  : [Cell -> Entry],
       obj   : [Object -> SurfaceObject],
       ink   : SUBSET Page,
       map   : [Window -> 0 .. SurfaceLimit],
       table : [Window -> BOOLEAN],
       ptes  : [Window -> SUBSET Page],
       shown : 0 .. ProcessLimit - 1]

(* x is where the code's ascending search for a member of S stops.         *)
First(x, S) == x \in S /\ \A y \in S : x <= y

Extent(surface) ==
  {x \in Page : surface.offset <= x /\ x < surface.offset + surface.pages}

-----------------------------------------------------------------------------
(* src/surface.c                                                           *)

Inactive(k) == {o \in Object : ~k.obj[o].active}

(* The page offsets at which n pages overlap no active surface.            *)
Bug_Fits(k, n) ==                    \* Mutant: only the first page is tested
  {x \in Page : /\ x + n <= ArenaPages
                /\ \A o \in Object \ Inactive(k) : x \notin Extent(k.obj[o])}

Fits(k, n) ==
  {x \in Page : /\ x + n <= ArenaPages
                /\ \A o \in Object \ Inactive(k) :
                      \/ x + n <= k.obj[o].offset
                      \/ k.obj[o].offset + k.obj[o].pages <= x}

surface_create(k, o, x, n) ==
  [k EXCEPT !.obj[o] = [NoSurface EXCEPT !.active = TRUE, !.offset = x, !.pages = n]]

surface_retain(k, o) == [k EXCEPT !.obj[o].references = @ + 1]

(* clear_object on every surface of dead.                                  *)
Bug_clear_objects(k, dead) ==        \* Mutant: the pixels are left behind
  [k EXCEPT !.obj = [o \in Object |-> IF o \in dead THEN NoSurface ELSE k.obj[o]]]

clear_objects(k, dead) ==
  [k EXCEPT !.obj = [o \in Object |-> IF o \in dead THEN NoSurface ELSE k.obj[o]],
            !.ink = @ \ UNION {Extent(k.obj[o]) : o \in dead}]

(* n[o] calls of surface_release on each o.  The last one clears.          *)
surface_releases(k, n) ==
  LET touched == {o \in Object : n[o] > 0 /\ k.obj[o].references > 0}
      dead    == {o \in touched : n[o] >= k.obj[o].references}
      less    == [k EXCEPT !.obj = [o \in Object |->
                    IF o \in touched \ dead
                    THEN [k.obj[o] EXCEPT !.references = @ - n[o]]
                    ELSE k.obj[o]]]
  IN  clear_objects(less, dead)

surface_release(k, o) ==
  surface_releases(k, [x \in Object |-> IF x = o THEN 1 ELSE 0])

(* Refused while the surface is referenced.                                *)
surface_discard(k, o) ==
  IF k.obj[o].active /\ k.obj[o].references = 0 THEN clear_objects(k, {o}) ELSE k

(* The rectangle replaces the one that was pending.                        *)
surface_damage(k, o, reach) ==
  [k EXCEPT !.obj[o].damage = IF reach <= k.obj[o].pages THEN reach ELSE @]

surface_take_damage(k, o) == [k EXCEPT !.obj[o].damage = 0]

surface_write(k, o, x) == [k EXCEPT !.ink = @ \cup {x}]

-----------------------------------------------------------------------------
(* include/kernel/slot_table.h and src/capability.cpp                      *)

NextGeneration(g) == IF g + 1 = Generations THEN 1 ELSE g + 1

Bug_Closed(entry) ==                 \* Mutant: the generation is not bumped
  [open |-> FALSE, gen |-> entry.gen, kind |-> "none", obj |-> 0]

Closed(entry) ==
  [open |-> FALSE, gen |-> NextGeneration(entry.gen), kind |-> "none", obj |-> 0]

Vacant(k, pid) == {s \in Slot : ~k.slot[<<pid, s>>].open}

allocate_slot(k, pid, s, kind, o) ==
  [k EXCEPT !.slot[<<pid, s>>] = [@ EXCEPT !.open = TRUE, !.kind = kind, !.obj = o]]

(* The entry a handle resolves to for caller pid, if it has the right.     *)
capability_resolve(k, pid, h, kinds) ==
  /\ h.pid = pid
  /\ k.slot[<<pid, h.slot>>].open
  /\ k.slot[<<pid, h.slot>>].gen = h.gen
  /\ k.slot[<<pid, h.slot>>].kind \in kinds

ObjectOf(k, h) == k.slot[<<h.pid, h.slot>>].obj

(* Readable means the read right, Writable the write right on a surface.   *)
Readable == {"write", "read"}
Writable == {"write"}

(* A surface handle: the retain comes first and is taken back when the     *)
(* table is full.                                                          *)
Bug_AddHandle(k, pid, kind, o, s) == allocate_slot(k, pid, s, kind, o)   \* Mutant

AddHandle(k, pid, kind, o, s) == allocate_slot(surface_retain(k, o), pid, s, kind, o)

AddHandleFails(k, o) == surface_release(surface_retain(k, o), o)

(* Release of the slots in cells, then of the surfaces they named.         *)
ReleaseSlots(k, cells) ==
  surface_releases(
    [k EXCEPT !.slot = [c \in Cell |-> IF c \in cells /\ k.slot[c].open
                                       THEN Closed(k.slot[c]) ELSE k.slot[c]]],
    [o \in Object |-> Cardinality({c \in cells : k.slot[c].obj = o})])

capability_close(k, pid, s) == ReleaseSlots(k, {<<pid, s>>})

capabilities_close_all(k, pid) ==
  [ReleaseSlots(k, {pid} \X Slot) EXCEPT !.svc[pid] = FALSE]

-----------------------------------------------------------------------------
(* Mappings and teardown in src/arch/x86_64/userspace.c                    *)

IsMapped(k, pid, o) == \E m \in MapSlot : k.map[<<pid, m>>] = o

NoMapping(k, pid) == {m \in MapSlot : k.map[<<pid, m>>] = 0}

Bug_map_surface_readonly(k, pid, o, m) ==    \* Mutant: the surface is not retained
  [k EXCEPT !.table[<<pid, m>>] = TRUE,
            !.ptes[<<pid, m>>] = Extent(k.obj[o]),
            !.map[<<pid, m>>] = o]

(* The page table of the slot is allocated once and kept until teardown.   *)
map_surface_readonly(k, pid, o, m) ==
  [surface_retain(k, o) EXCEPT !.table[<<pid, m>>] = TRUE,
                               !.ptes[<<pid, m>>] = Extent(k.obj[o]),
                               !.map[<<pid, m>>] = o]

(* The mappings in windows are removed and their surfaces released.        *)
ReleaseWindows(k, windows) ==
  surface_releases(
    [k EXCEPT !.map = [w \in Window |-> IF w \in windows THEN 0 ELSE k.map[w]],
              !.ptes = [w \in Window |-> IF w \in windows THEN {} ELSE k.ptes[w]]],
    [o \in Object |-> Cardinality({w \in windows : k.map[w] = o})])

unmap_surface_id(k, pid, m) == ReleaseWindows(k, {<<pid, m>>})

unmap_surface(k, pid) ==
  LET mine == {pid} \X MapSlot
  IN  [ReleaseWindows(k, mine) EXCEPT
         !.table = [w \in Window |-> IF w \in mine THEN FALSE ELSE k.table[w]]]

userspace_release_process(k, pid) ==
  [unmap_surface(capabilities_close_all(k, pid), pid) EXCEPT !.proc[pid] = "free"]

(* The end of a process in the scheduler: its slot is released at once     *)
(* when the parent waits for it, otherwise it stays until it is reaped.    *)
EndProcess(k, pid, awaited) ==
  IF awaited THEN userspace_release_process(k, pid)
  ELSE [k EXCEPT !.proc[pid] = "exited"]

-----------------------------------------------------------------------------
(* Steps: system calls of a live process, and the kernel's own.            *)

EmptyEntry == [open |-> FALSE, gen |-> 1, kind |-> "none", obj |-> 0]

Init ==
  /\ os = [proc  |-> [p \in User |-> "free"],
           svc   |-> [p \in User |-> FALSE],
           slot  |-> [c \in Cell |-> EmptyEntry],
           obj   |-> [o \in Object |-> NoSurface],
           ink   |-> {},
           map   |-> [w \in Window |-> 0],
           table |-> [w \in Window |-> FALSE],
           ptes  |-> [w \in Window |-> {}],
           shown |-> 0]
  /\ kept = NoHandle

(* The handle a step leaves remembered: one that the step closes, if none  *)
(* was, or the one that was, until its number is in circulation again.     *)
ClosedBy(k, c) == os.slot[c].open /\ ~k.slot[c].open

Older(k) ==
  IF ~ClosedBy(k, <<kept.pid, kept.slot>>) THEN kept
  ELSE IF kept.age + 1 = Generations - 1 THEN NoHandle
  ELSE [kept EXCEPT !.age = @ + 1]

Remember(k) ==
  IF kept # NoHandle THEN kept' = Older(k)
  ELSE \/ kept' = kept
       \/ /\ Generations > 2
          /\ \E c \in Cell :
               /\ ClosedBy(k, c)
               /\ kept' = [pid |-> c[1], slot |-> c[2], gen |-> os.slot[c].gen, age |-> 1]

Step(k) == os' = k /\ kept' = kept
Closing(k) == os' = k /\ Remember(k)

Spawn(p, granted) ==
  /\ os.proc[p] = "free"
  /\ Step([os EXCEPT !.proc[p] = "live", !.svc[p] = granted])

(* System call 5.                                                          *)
OpenService(p, s, kind) ==
  /\ os.proc[p] = "live" /\ os.svc[p]
  /\ First(s, Vacant(os, p))
  /\ Step(allocate_slot(os, p, s, kind, 0))

(* System call 8.                                                          *)
Close(p, h) ==
  /\ os.proc[p] = "live"
  /\ capability_resolve(os, p, h, Kind)
  /\ Closing(capability_close(os, p, h.slot))

(* System call 22.                                                         *)
CreateSurface(p, h, o, x, n, s) ==
  /\ os.proc[p] = "live"
  /\ capability_resolve(os, p, h, {"factory"})
  /\ First(o, Inactive(os)) /\ First(x, Fits(os, n))
  /\ First(s, Vacant(os, p)) /\ os.svc[p]
  /\ Step(AddHandle(surface_create(os, o, x, n), p, "write", o, s))

(* System call 22 when the caller's table is full.                         *)
CreateSurfaceFails(p, h, o, x, n) ==
  /\ os.proc[p] = "live"
  /\ capability_resolve(os, p, h, {"factory"})
  /\ First(o, Inactive(os)) /\ First(x, Fits(os, n))
  /\ Vacant(os, p) = {}
  /\ Step(surface_discard(AddHandleFails(surface_create(os, o, x, n), o), o))

(* System call 23.                                                         *)
WriteSurface(p, h, x) ==
  /\ os.proc[p] = "live"
  /\ capability_resolve(os, p, h, Writable)
  /\ x \in Extent(os.obj[ObjectOf(os, h)])
  /\ Step(surface_write(os, ObjectOf(os, h), x))

(* System call 24: the target owns a channel, so its slot is in use.       *)
Bug_GrantedKind(kind) == kind        \* Mutant: the source's rights are passed on
GrantedKind(kind) == "read"

ShareSurface(p, h, target, s) ==
  /\ os.proc[p] = "live" /\ os.proc[target] # "free"
  /\ capability_resolve(os, p, h, Readable)
  /\ os.svc[target]
  /\ First(s, Vacant(os, target))
  /\ Step(AddHandle(os, target, GrantedKind(os.slot[<<p, h.slot>>].kind), ObjectOf(os, h), s))

ShareSurfaceFails(p, h, target) ==
  /\ os.proc[p] = "live" /\ os.proc[target] # "free"
  /\ capability_resolve(os, p, h, Readable)
  /\ os.svc[target]
  /\ Vacant(os, target) = {}
  /\ Step(AddHandleFails(os, ObjectOf(os, h)))

(* System call 27.  A surface that is mapped already is found again.       *)
MapSurface(p, h, m) ==
  LET o == ObjectOf(os, h)
  IN  /\ os.proc[p] = "live"
      /\ capability_resolve(os, p, h, Readable)
      /\ ~IsMapped(os, p, o)
      /\ First(m, NoMapping(os, p))
      /\ os.obj[o].active /\ os.obj[o].pages <= MapPages
      /\ Step(map_surface_readonly(os, p, o, m))

(* System call 27 when there is no frame for the slot's page table.        *)
MapSurfaceFails(p, h, m) ==
  LET o == ObjectOf(os, h)
  IN  /\ os.proc[p] = "live"
      /\ capability_resolve(os, p, h, Readable)
      /\ ~IsMapped(os, p, o)
      /\ First(m, NoMapping(os, p)) /\ ~os.table[<<p, m>>]
      /\ os.obj[o].active /\ os.obj[o].pages <= MapPages
      /\ Step(surface_release(surface_retain(os, o), o))

(* System call 30.                                                         *)
UnmapSurface(p, h, m) ==
  /\ os.proc[p] = "live"
  /\ capability_resolve(os, p, h, Readable)
  /\ os.map[<<p, m>>] = ObjectOf(os, h)
  /\ Step(unmap_surface_id(os, p, m))

(* System call 28.                                                         *)
DamageSurface(p, h, reach) ==
  /\ os.proc[p] = "live"
  /\ capability_resolve(os, p, h, Writable)
  /\ Step(surface_damage(os, ObjectOf(os, h), reach))

(* System call 29.                                                         *)
TakeDamage(p, h) ==
  /\ os.proc[p] = "live"
  /\ capability_resolve(os, p, h, Readable)
  /\ os.obj[ObjectOf(os, h)].damage # 0
  /\ Step(surface_take_damage(os, ObjectOf(os, h)))

(* System call 19, a frame that is accepted.                               *)
SubmitFrame(p, h) ==
  /\ os.proc[p] = "live"
  /\ capability_resolve(os, p, h, {"display"})
  /\ Step([os EXCEPT !.shown = p])

(* System call 2.                                                          *)
Exit(p, awaited) ==
  LET k == capabilities_close_all([os EXCEPT !.shown = IF @ = p THEN 0 ELSE @], p)
  IN  /\ os.proc[p] = "live"
      /\ Closing(EndProcess(k, p, awaited))

(* System call 13: the target's handles are closed before it is known to   *)
(* be alive and another process.                                           *)
Terminate(p, target, awaited) ==
  LET k == capabilities_close_all(os, target)
  IN  /\ os.proc[p] = "live"
      /\ Closing(IF target # p /\ os.proc[target] = "live"
                 THEN EndProcess(k, target, awaited) ELSE k)

(* The shell's kill.                                                       *)
Kill(p, awaited) ==
  /\ os.proc[p] = "live"
  /\ Closing(EndProcess(os, p, awaited))

(* scheduler_reap.                                                         *)
Reap(p) ==
  /\ os.proc[p] = "exited"
  /\ Closing(userspace_release_process(os, p))

Next ==
  \E p \in User :
    \/ \E granted \in BOOLEAN : Spawn(p, granted)
    \/ \E s \in Slot, kind \in Services : OpenService(p, s, kind)
    \/ \E awaited \in BOOLEAN : Exit(p, awaited) \/ Kill(p, awaited)
    \/ \E target \in User, awaited \in BOOLEAN : Terminate(p, target, awaited)
    \/ Reap(p)
    \/ \E h \in Handle :
         \/ Close(p, h)
         \/ \E o \in Object, x \in Page, n \in Sizes :
              \/ CreateSurfaceFails(p, h, o, x, n)
              \/ \E s \in Slot : CreateSurface(p, h, o, x, n, s)
         \/ \E x \in Page : WriteSurface(p, h, x)
         \/ \E target \in User :
              \/ ShareSurfaceFails(p, h, target)
              \/ \E s \in Slot : ShareSurface(p, h, target, s)
         \/ \E m \in MapSlot : \/ MapSurface(p, h, m)
                               \/ MapSurfaceFails(p, h, m)
                               \/ UnmapSurface(p, h, m)
         \/ \E reach \in Reaches : DamageSurface(p, h, reach)
         \/ TakeDamage(p, h)
         \/ SubmitFrame(p, h)

Spec == Init /\ [][Next]_vars

-----------------------------------------------------------------------------
(* Properties.                                                             *)

(* Type correctness of the tables, the objects and the mappings.           *)
SurfaceTypeOK == os \in OS /\ kept \in Kept \cup {NoHandle}

HandlesOn(k, o) == {c \in Cell : k.slot[c].obj = o}
MappingsOn(k, o) == {w \in Window : k.map[w] = o}

(* A surface's reference count is the number of open handles and mappings  *)
(* that name it, and it is active exactly while there is one: no sequence  *)
(* of creations, shares, mappings, closings, failures, exits, kills and    *)
(* reapings leaks a surface or frees one that is still held.  A process    *)
(* slot that is free holds no handle, mapping or page-table frame.         *)
ReferencesAreCounted ==
  /\ \A o \in Object :
       /\ os.obj[o].references = Cardinality(HandlesOn(os, o)) + Cardinality(MappingsOn(os, o))
       /\ os.obj[o].active <=> os.obj[o].references > 0
  /\ \A p \in User : os.proc[p] = "free" =>
       /\ \A s \in Slot : ~os.slot[<<p, s>>].open
       /\ \A m \in MapSlot : os.map[<<p, m>>] = 0 /\ ~os.table[<<p, m>>]

(* What a process sees through a mapping slot is exactly the extent of the *)
(* active surface it mapped, and nothing through an unused slot, although  *)
(* extents are reused as surfaces come and go.                             *)
MappingsShowTheirSurface ==
  \A w \in Window :
    IF os.map[w] = 0 THEN os.ptes[w] = {}
    ELSE /\ os.obj[os.map[w]].active
         /\ os.ptes[w] = Extent(os.obj[os.map[w]])
         /\ os.table[w]

(* The first-fit search of surface_create never lets two active surfaces   *)
(* share a page, and every extent lies in the arena.                       *)
ExtentsAreDisjoint ==
  \A o \in Object : os.obj[o].active =>
    /\ os.obj[o].pages > 0 /\ os.obj[o].offset + os.obj[o].pages <= ArenaPages
    /\ \A q \in Object \ {o} :
         os.obj[q].active => Extent(os.obj[o]) \cap Extent(os.obj[q]) = {}

(* Every page outside the active surfaces is zero, so a new surface never  *)
(* shows what an earlier one, of another process, held.                    *)
NoResidue == os.ink \subseteq UNION {Extent(os.obj[o]) : o \in Object \ Inactive(os)}

(* Sharing never passes on the right to write: the write handles of a      *)
(* surface are all in one process's table.                                 *)
OneWriter ==
  \A c, d \in Cell :
    /\ os.slot[c].kind = "write" /\ os.slot[d].kind = "write"
    /\ os.slot[c].obj = os.slot[d].obj
    => c[1] = d[1]

(* The number of a handle that was closed, by its holder or by the end of  *)
(* the process, resolves to nothing, whatever its slot is reused for,      *)
(* until the slot has been closed 2^16 - 1 times.                          *)
KeptHandlesAreDead ==
  kept # NoHandle => ~capability_resolve(os, kept.pid, kept, Kind)

(* The end of one surface never touches another: no step moves a surface   *)
(* that is active before and after it, or blanks what was drawn on it,     *)
(* although clear_object zeroes a whole extent of the shared arena.        *)
LivePixelsStay ==
  [][\A o \in Object :
       os.obj[o].active /\ os'.obj[o].active =>
         /\ Extent(os'.obj[o]) = Extent(os.obj[o])
         /\ os.ink \cap Extent(os.obj[o]) \subseteq os'.ink]_vars
=============================================================================
