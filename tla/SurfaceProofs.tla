---------------------------- MODULE SurfaceProofs ----------------------------
(***************************************************************************)
(* The properties of Surface, proved for every number of processes, slots, *)
(* surfaces, pages and generations.                                        *)
(*                                                                         *)
(* The inductive invariant Good is a conjunction of named parts, each an   *)
(* operator on the state record, so that it can be stated of the states    *)
(* between two functions of one system call as well.  Only the reference   *)
(* counts are off there: Owes(k, n) says that surface o is counted n[o]    *)
(* too high, which is what surface_releases(k, n) makes good.              *)
(***************************************************************************)
EXTENDS Surface, FiniteSetTheorems, TLAPS

(* A slot names a surface exactly if it is a surface handle; a slot that   *)
(* is not open names none.                                                 *)
SlotsNameSurfaces(k) ==
  \A c \in Cell :
    /\ ~k.slot[c].open => k.slot[c].kind = "none"
    /\ k.slot[c].kind \in Readable <=> k.slot[c].obj # 0

Excess(k, n) ==
  \A o \in Object :
    k.obj[o].references = Cardinality(HandlesOn(k, o)) + Cardinality(MappingsOn(k, o)) + n[o]

(* What is not referenced is cleared.                                      *)
Cleared(k) ==
  \A o \in Object :
    /\ k.obj[o].active <=> k.obj[o].references > 0
    /\ ~k.obj[o].active => k.obj[o] = NoSurface

FreeHoldsNothing(k) ==
  \A p \in User : k.proc[p] = "free" =>
    /\ \A s \in Slot : ~k.slot[<<p, s>>].open
    /\ \A m \in MapSlot : k.map[<<p, m>>] = 0 /\ ~k.table[<<p, m>>]

Shows(k) ==
  \A w \in Window :
    IF k.map[w] = 0 THEN k.ptes[w] = {}
    ELSE /\ k.obj[k.map[w]].active
         /\ k.ptes[w] = Extent(k.obj[k.map[w]])
         /\ k.table[w]

Apart(k) ==
  \A o \in Object : k.obj[o].active =>
    /\ k.obj[o].pages > 0 /\ k.obj[o].offset + k.obj[o].pages <= ArenaPages
    /\ \A q \in Object \ {o} :
         k.obj[q].active => Extent(k.obj[o]) \cap Extent(k.obj[q]) = {}

Clean(k) == k.ink \subseteq UNION {Extent(k.obj[o]) : o \in Object \ Inactive(k)}

Writers(k) ==
  \A c, d \in Cell :
    /\ k.slot[c].kind = "write" /\ k.slot[d].kind = "write"
    /\ k.slot[c].obj = k.slot[d].obj
    => c[1] = d[1]

Tables(k) == k \in OS /\ SlotsNameSurfaces(k) /\ Writers(k)
Arena(k) == Cleared(k) /\ Apart(k) /\ Clean(k)

Owes(k, n) == Tables(k) /\ Arena(k) /\ FreeHoldsNothing(k) /\ Shows(k) /\ Excess(k, n)

None == [o \in Object |-> 0]
Good(k) == Owes(k, None)

-----------------------------------------------------------------------------
(* Fields of an updated state record.                                      *)

LEMMA SetObj ==
  ASSUME NEW k \in OS, NEW f
  PROVE  LET d == [k EXCEPT !.obj = f]
         IN  /\ d.obj = f
             /\ d.proc = k.proc /\ d.svc = k.svc /\ d.slot = k.slot /\ d.ink = k.ink
             /\ d.map = k.map /\ d.table = k.table /\ d.ptes = k.ptes /\ d.shown = k.shown
             /\ f \in [Object -> SurfaceObject] => d \in OS
BY DEF OS

LEMMA SetSlot ==
  ASSUME NEW k \in OS, NEW f
  PROVE  LET d == [k EXCEPT !.slot = f]
         IN  /\ d.slot = f
             /\ d.proc = k.proc /\ d.svc = k.svc /\ d.obj = k.obj /\ d.ink = k.ink
             /\ d.map = k.map /\ d.table = k.table /\ d.ptes = k.ptes /\ d.shown = k.shown
             /\ f \in [Cell -> Entry] => d \in OS
BY DEF OS

LEMMA SameArena ==
  ASSUME NEW k, NEW d, Arena(k), d.obj = k.obj, d.ink = k.ink
  PROVE  Arena(d)
<1>1. Cleared(d) /\ Apart(d)
  BY DEF Arena, Cleared, Apart
<1>2. Clean(d)
  BY DEF Arena, Clean, Inactive
<1> QED BY <1>1, <1>2 DEF Arena

-----------------------------------------------------------------------------
(* Finite sets.                                                            *)

LEMMA FiniteCells == IsFiniteSet(Cell) /\ IsFiniteSet(Window)
<1>1. IsFiniteSet(User) /\ IsFiniteSet(Slot) /\ IsFiniteSet(MapSlot)
  BY FS_Interval, SurfaceConstants DEF User, Slot, MapSlot
<1> QED BY <1>1, FS_Product DEF Cell, Window

LEMMA FiniteHolders ==
  ASSUME NEW k, NEW o
  PROVE  /\ IsFiniteSet(HandlesOn(k, o)) /\ Cardinality(HandlesOn(k, o)) \in Nat
         /\ IsFiniteSet(MappingsOn(k, o)) /\ Cardinality(MappingsOn(k, o)) \in Nat
<1>1. HandlesOn(k, o) \in SUBSET Cell /\ MappingsOn(k, o) \in SUBSET Window
  BY DEF HandlesOn, MappingsOn
<1> QED BY <1>1, FiniteCells, FS_Subset, FS_CardinalityType

(* A surface that is mapped, or named by a handle, is counted.             *)
LEMMA HolderCounts ==
  ASSUME NEW k, NEW o
  PROVE  /\ \A c \in Cell : k.slot[c].obj = o => Cardinality(HandlesOn(k, o)) > 0
         /\ \A w \in Window : k.map[w] = o => Cardinality(MappingsOn(k, o)) > 0
<1>1. ASSUME NEW c \in Cell, k.slot[c].obj = o
      PROVE  Cardinality(HandlesOn(k, o)) > 0
  <2>1. HandlesOn(k, o) # {}
    BY <1>1 DEF HandlesOn
  <2> QED BY <2>1, FiniteHolders, FS_EmptySet
<1>2. ASSUME NEW w \in Window, k.map[w] = o
      PROVE  Cardinality(MappingsOn(k, o)) > 0
  <2>1. MappingsOn(k, o) # {}
    BY <1>2 DEF MappingsOn
  <2> QED BY <2>1, FiniteHolders, FS_EmptySet
<1> QED BY <1>1, <1>2

-----------------------------------------------------------------------------
(* surface_releases.                                                       *)

Dead(k, n) == {o \in Object : n[o] > 0 /\ n[o] = k.obj[o].references}

Released(k, n) ==
  [o \in Object |-> IF n[o] = 0 THEN k.obj[o]
                    ELSE IF n[o] = k.obj[o].references THEN NoSurface
                    ELSE [k.obj[o] EXCEPT !.references = @ - n[o]]]

LEMMA ReleasesFields ==
  ASSUME NEW k \in OS, NEW n \in [Object -> Nat],
         \A o \in Object : n[o] <= k.obj[o].references
  PROVE  LET d == surface_releases(k, n)
         IN  /\ d \in OS
             /\ d.obj = Released(k, n)
             /\ d.ink = k.ink \ UNION {Extent(k.obj[o]) : o \in Dead(k, n)}
             /\ d.proc = k.proc /\ d.svc = k.svc /\ d.slot = k.slot
             /\ d.map = k.map /\ d.table = k.table /\ d.ptes = k.ptes /\ d.shown = k.shown
<1> DEFINE touched == {o \in Object : n[o] > 0 /\ k.obj[o].references > 0}
           dead    == {o \in touched : n[o] >= k.obj[o].references}
           f       == [o \in Object |-> IF o \in touched \ dead
                                        THEN [k.obj[o] EXCEPT !.references = @ - n[o]]
                                        ELSE k.obj[o]]
           less    == [k EXCEPT !.obj = f]
           g       == [o \in Object |-> IF o \in dead THEN NoSurface ELSE less.obj[o]]
           i       == less.ink \ UNION {Extent(less.obj[o]) : o \in dead}
           d       == [less EXCEPT !.obj = g, !.ink = i]
<1>1. surface_releases(k, n) = d
  BY DEF surface_releases, clear_objects
<1>2. k.obj \in [Object -> SurfaceObject]
  BY DEF OS
<1>3. f \in [Object -> SurfaceObject]
  BY <1>2 DEF SurfaceObject
<1> HIDE DEF f
<1>4. /\ less \in OS /\ less.obj = f /\ less.ink = k.ink
      /\ less.proc = k.proc /\ less.svc = k.svc /\ less.slot = k.slot
      /\ less.map = k.map /\ less.table = k.table /\ less.ptes = k.ptes /\ less.shown = k.shown
  BY <1>3, SetObj
<1> HIDE DEF less
<1>5. dead = Dead(k, n)
  BY <1>2 DEF Dead, SurfaceObject
<1>6. ASSUME NEW o \in Object
      PROVE  less.obj[o] = IF o \in touched \ dead
                           THEN [k.obj[o] EXCEPT !.references = @ - n[o]] ELSE k.obj[o]
  BY <1>4 DEF f
<1>7. g = Released(k, n)
  <2>1. ASSUME NEW o \in Object PROVE g[o] = Released(k, n)[o]
    <3>1. k.obj[o].references \in Nat /\ n[o] \in Nat /\ n[o] <= k.obj[o].references
      BY <1>2 DEF SurfaceObject
    <3> QED BY <1>6, <3>1 DEF Released
  <2> QED BY <2>1 DEF Released
<1>8. i = k.ink \ UNION {Extent(k.obj[o]) : o \in Dead(k, n)}
  <2>1. \A o \in dead : less.obj[o] = k.obj[o]
    BY <1>6
  <2>2. less.ink = k.ink
    BY <1>4
  <2> HIDE DEF dead
  <2> QED BY <2>1, <2>2, <1>5
<1>9. /\ less \in OS
      /\ g \in [Object -> SurfaceObject]
      /\ i \in SUBSET Page
  <2>1. NoSurface \in SurfaceObject
    BY DEF NoSurface, SurfaceObject
  <2>2. less \in OS /\ less.obj \in [Object -> SurfaceObject] /\ less.ink \in SUBSET Page
    BY <1>3, <1>4 DEF OS
  <2> HIDE DEF dead
  <2> QED BY <2>1, <2>2
<1> HIDE DEF g, i
<1>10. /\ d \in OS /\ d.obj = g /\ d.ink = i
      /\ d.proc = less.proc /\ d.svc = less.svc /\ d.slot = less.slot
      /\ d.map = less.map /\ d.table = less.table /\ d.ptes = less.ptes /\ d.shown = less.shown
  <2> HIDE DEF touched, dead
  <2> QED BY <1>9 DEF OS
<1> QED BY <1>1, <1>4, <1>7, <1>8, <1>10

(* A surface that is active in d is the same, and as much drawn on, in k.  *)
Fades(k, d) ==
  \A o \in Object : d.obj[o].active =>
    /\ k.obj[o].active
    /\ Extent(d.obj[o]) = Extent(k.obj[o])
    /\ k.ink \cap Extent(k.obj[o]) \subseteq d.ink

(* Whatever was counted too high is made good, and the last release of a   *)
(* surface clears it and nothing else.                                     *)
LEMMA ReleasesGood ==
  ASSUME NEW k, NEW n \in [Object -> Nat], Owes(k, n)
  PROVE  /\ Good(surface_releases(k, n))
         /\ Fades(k, surface_releases(k, n))
         /\ surface_releases(k, n).slot = k.slot /\ surface_releases(k, n).proc = k.proc
         /\ surface_releases(k, n).svc = k.svc /\ surface_releases(k, n).map = k.map
         /\ surface_releases(k, n).table = k.table
<1> DEFINE d == surface_releases(k, n)
<1>1. /\ k \in OS /\ SlotsNameSurfaces(k) /\ Writers(k) /\ Cleared(k) /\ Apart(k) /\ Clean(k)
      /\ FreeHoldsNothing(k) /\ Shows(k) /\ Excess(k, n)
  BY DEF Owes, Tables, Arena
<1>2. ASSUME NEW o \in Object
      PROVE  /\ k.obj[o] \in SurfaceObject /\ k.obj[o].references \in Nat
             /\ n[o] \in Nat /\ n[o] <= k.obj[o].references
             /\ Cardinality(HandlesOn(k, o)) \in Nat /\ Cardinality(MappingsOn(k, o)) \in Nat
  <2>1. k.obj[o] \in SurfaceObject /\ n[o] \in Nat
    BY <1>1 DEF OS
  <2>2. k.obj[o].references = Cardinality(HandlesOn(k, o)) + Cardinality(MappingsOn(k, o)) + n[o]
    BY <1>1 DEF Excess
  <2> QED BY <2>1, <2>2, FiniteHolders DEF SurfaceObject
<1>3. /\ d \in OS
      /\ d.obj = Released(k, n)
      /\ d.ink = k.ink \ UNION {Extent(k.obj[o]) : o \in Dead(k, n)}
      /\ d.proc = k.proc /\ d.svc = k.svc /\ d.slot = k.slot
      /\ d.map = k.map /\ d.table = k.table /\ d.ptes = k.ptes /\ d.shown = k.shown
  BY <1>1, <1>2, ReleasesFields
<1> HIDE DEF d
<1>4. ASSUME NEW o \in Object
      PROVE  /\ d.obj[o] \in SurfaceObject
             /\ o \in Dead(k, n) => d.obj[o] = NoSurface
             /\ o \notin Dead(k, n) => /\ d.obj[o].active = k.obj[o].active
                                       /\ d.obj[o].offset = k.obj[o].offset
                                       /\ d.obj[o].pages = k.obj[o].pages
                                       /\ d.obj[o].damage = k.obj[o].damage
                                       /\ d.obj[o].references = k.obj[o].references - n[o]
  <2>1. d.obj[o] = IF n[o] = 0 THEN k.obj[o]
                   ELSE IF n[o] = k.obj[o].references THEN NoSurface
                   ELSE [k.obj[o] EXCEPT !.references = @ - n[o]]
    BY <1>3 DEF Released
  <2>2. o \in Dead(k, n) <=> n[o] > 0 /\ n[o] = k.obj[o].references
    BY DEF Dead
  <2>3. CASE n[o] = 0
    BY <2>1, <2>2, <2>3, <1>2
  <2>4. CASE n[o] > 0 /\ n[o] = k.obj[o].references
    <3>1. d.obj[o] = NoSurface /\ o \in Dead(k, n)
      BY <2>1, <2>2, <2>4
    <3>2. NoSurface \in SurfaceObject
      BY DEF NoSurface, SurfaceObject
    <3> QED BY <3>1, <3>2
  <2>5. CASE n[o] > 0 /\ n[o] < k.obj[o].references
    <3>1. d.obj[o] = [k.obj[o] EXCEPT !.references = @ - n[o]]
      BY <2>1, <2>5, <1>2
    <3>2. o \notin Dead(k, n) /\ k.obj[o].references - n[o] \in Nat
      BY <2>2, <2>5, <1>2
    <3> QED BY <3>1, <3>2, <1>2 DEF SurfaceObject
  <2> QED BY <2>3, <2>4, <2>5, <1>2
<1>5. ASSUME NEW o \in Object
      PROVE  /\ d.obj[o].active <=> k.obj[o].active /\ o \notin Dead(k, n)
             /\ d.obj[o].active => Extent(d.obj[o]) = Extent(k.obj[o])
  BY <1>4 DEF NoSurface, Extent
<1>6. ASSUME NEW o \in Object, NEW q \in Object, k.obj[o].active, k.obj[q].active, o # q
      PROVE  Extent(k.obj[o]) \cap Extent(k.obj[q]) = {}
  BY <1>1, <1>6 DEF Apart
<1>7. Cleared(d)
  <2> SUFFICES ASSUME NEW o \in Object
               PROVE  /\ d.obj[o].active <=> d.obj[o].references > 0
                      /\ ~d.obj[o].active => d.obj[o] = NoSurface
    BY DEF Cleared
  <2>1. /\ k.obj[o].active <=> k.obj[o].references > 0
        /\ ~k.obj[o].active => k.obj[o] = NoSurface
    BY <1>1 DEF Cleared
  <2>2. CASE o \in Dead(k, n)
    BY <2>2, <1>4 DEF NoSurface
  <2>3. CASE o \notin Dead(k, n)
    <3>1. n[o] = 0 \/ n[o] < k.obj[o].references
      BY <2>3, <1>2 DEF Dead
    <3>2. CASE n[o] = 0
      BY <3>2, <2>1, <1>3 DEF Released
    <3>3. CASE n[o] # 0
      BY <3>1, <3>3, <2>1, <2>3, <1>2, <1>4
    <3> QED BY <3>2, <3>3
  <2> QED BY <2>2, <2>3
<1>8. Apart(d)
  <2> SUFFICES ASSUME NEW o \in Object, d.obj[o].active
               PROVE  /\ d.obj[o].pages > 0 /\ d.obj[o].offset + d.obj[o].pages <= ArenaPages
                      /\ \A q \in Object \ {o} :
                           d.obj[q].active => Extent(d.obj[o]) \cap Extent(d.obj[q]) = {}
    BY DEF Apart
  <2>1. k.obj[o].active /\ o \notin Dead(k, n)
    BY <1>5
  <2>2. k.obj[o].pages > 0 /\ k.obj[o].offset + k.obj[o].pages <= ArenaPages
    BY <2>1, <1>1 DEF Apart
  <2> QED BY <2>1, <2>2, <1>4, <1>5, <1>6
<1>9. Clean(d)
  <2> SUFFICES ASSUME NEW x \in d.ink
               PROVE  \E o \in Object : d.obj[o].active /\ x \in Extent(d.obj[o])
    BY DEF Clean, Inactive
  <2>1. x \in k.ink /\ \A o \in Dead(k, n) : x \notin Extent(k.obj[o])
    BY <1>3
  <2>2. PICK o \in Object : k.obj[o].active /\ x \in Extent(k.obj[o])
    BY <2>1, <1>1 DEF Clean, Inactive
  <2> QED BY <2>1, <2>2, <1>5
<1>10. Shows(d)
  <2> SUFFICES ASSUME NEW w \in Window
               PROVE  IF d.map[w] = 0 THEN d.ptes[w] = {}
                      ELSE /\ d.obj[d.map[w]].active
                           /\ d.ptes[w] = Extent(d.obj[d.map[w]])
                           /\ d.table[w]
    BY DEF Shows
  <2>1. CASE k.map[w] = 0
    BY <2>1, <1>1, <1>3 DEF Shows
  <2>2. CASE k.map[w] # 0
    <3> DEFINE o == k.map[w]
    <3>1. o \in Object
      BY <2>2, <1>1, SurfaceConstants DEF OS, Object
    <3>2. k.obj[o].active /\ k.ptes[w] = Extent(k.obj[o]) /\ k.table[w]
      BY <2>2, <1>1 DEF Shows
    <3>3. Cardinality(MappingsOn(k, o)) > 0
      BY HolderCounts
    <3>4. k.obj[o].references = Cardinality(HandlesOn(k, o)) + Cardinality(MappingsOn(k, o)) + n[o]
      BY <3>1, <1>1 DEF Excess
    <3>5. o \notin Dead(k, n)
      BY <3>1, <3>3, <3>4, <1>2 DEF Dead
    <3>6. d.map[w] = o /\ d.ptes[w] = k.ptes[w] /\ d.table[w] = k.table[w]
      BY <1>3
    <3> QED BY <2>2, <3>1, <3>2, <3>5, <3>6, <1>5
  <2> QED BY <2>1, <2>2
<1>11. Excess(d, None)
  <2> SUFFICES ASSUME NEW o \in Object
               PROVE  d.obj[o].references = Cardinality(HandlesOn(d, o))
                                            + Cardinality(MappingsOn(d, o)) + None[o]
    BY DEF Excess
  <2>1. HandlesOn(d, o) = HandlesOn(k, o) /\ MappingsOn(d, o) = MappingsOn(k, o)
    BY <1>3 DEF HandlesOn, MappingsOn
  <2>2. k.obj[o].references = Cardinality(HandlesOn(k, o)) + Cardinality(MappingsOn(k, o)) + n[o]
    BY <1>1 DEF Excess
  <2>3. d.obj[o].references = k.obj[o].references - n[o]
    <3>1. CASE o \in Dead(k, n)
      BY <3>1, <1>4, <1>2 DEF Dead, NoSurface
    <3> QED BY <3>1, <1>4
  <2> QED BY <2>1, <2>2, <2>3, <1>2 DEF None
<1>12. Fades(k, d)
  <2> SUFFICES ASSUME NEW o \in Object, d.obj[o].active
               PROVE  k.ink \cap Extent(k.obj[o]) \subseteq d.ink
    BY <1>5 DEF Fades
  <2>1. \A q \in Dead(k, n) : k.obj[q].active /\ q # o /\ q \in Object
    BY <1>1, <1>2, <1>5 DEF Dead, Cleared
  <2> QED BY <2>1, <1>3, <1>5, <1>6
<1>13. SlotsNameSurfaces(d) /\ Writers(d) /\ FreeHoldsNothing(d)
  BY <1>1, <1>3 DEF SlotsNameSurfaces, Writers, FreeHoldsNothing
<1> QED BY <1>3, <1>7, <1>8, <1>9, <1>10, <1>11, <1>12, <1>13 DEF Good, Owes, Tables, Arena, d

-----------------------------------------------------------------------------
(* Handles and mappings that go.                                           *)

LEMMA ClosedEntry ==
  ASSUME NEW e \in Entry
  PROVE  /\ Closed(e) \in Entry
         /\ Closed(e).open = FALSE /\ Closed(e).kind = "none" /\ Closed(e).obj = 0
         /\ Closed(e).gen = NextGeneration(e.gen)
<1>1. e.gen \in 1 .. Generations - 1
  BY DEF Entry
<1>2. NextGeneration(e.gen) \in 1 .. Generations - 1
  BY <1>1, SurfaceConstants DEF NextGeneration
<1>3. 0 \in 0 .. SurfaceLimit /\ "none" \in Kind
  BY SurfaceConstants DEF Kind
<1> QED BY <1>2, <1>3 DEF Closed, Entry

(* How a release changes the capability slots: none is opened, one that is *)
(* closed gets its next generation, and all others keep theirs.            *)
Closes(k, d) ==
  \A c \in Cell :
    /\ d.slot[c].open => k.slot[c].open
    /\ d.slot[c].gen = IF k.slot[c].open /\ ~d.slot[c].open
                       THEN NextGeneration(k.slot[c].gen) ELSE k.slot[c].gen

(* d is what some releases make of k.                                      *)
Releases(k, d) == Good(d) /\ Fades(k, d) /\ Closes(k, d)

LEMMA ReleasesCompose ==
  ASSUME NEW k, NEW d, NEW e, Releases(k, d), Releases(d, e)
  PROVE  Releases(k, e)
<1>1. Fades(k, e)
  <2> SUFFICES ASSUME NEW o \in Object, e.obj[o].active
               PROVE  /\ k.obj[o].active
                      /\ Extent(e.obj[o]) = Extent(k.obj[o])
                      /\ k.ink \cap Extent(k.obj[o]) \subseteq e.ink
    BY DEF Fades
  <2>1. /\ d.obj[o].active
        /\ Extent(e.obj[o]) = Extent(d.obj[o])
        /\ d.ink \cap Extent(d.obj[o]) \subseteq e.ink
    BY DEF Releases, Fades
  <2>2. /\ k.obj[o].active
        /\ Extent(d.obj[o]) = Extent(k.obj[o])
        /\ k.ink \cap Extent(k.obj[o]) \subseteq d.ink
    BY <2>1 DEF Releases, Fades
  <2> QED BY <2>1, <2>2
<1>2. Closes(k, e)
  BY DEF Releases, Closes
<1> QED BY <1>1, <1>2 DEF Releases

(* Closing any set of slots keeps the books.                               *)
LEMMA ReleaseSlotsGood ==
  ASSUME NEW k, Good(k), NEW cells \in SUBSET Cell
  PROVE  LET d == ReleaseSlots(k, cells)
         IN  /\ Releases(k, d)
             /\ \A c \in cells : ~d.slot[c].open
             /\ d.proc = k.proc /\ d.svc = k.svc /\ d.map = k.map /\ d.table = k.table
<1> DEFINE f == [c \in Cell |-> IF c \in cells /\ k.slot[c].open
                                THEN Closed(k.slot[c]) ELSE k.slot[c]]
           n == [o \in Object |-> Cardinality({c \in cells : k.slot[c].obj = o})]
           j == [k EXCEPT !.slot = f]
<1>1. /\ k \in OS /\ SlotsNameSurfaces(k) /\ Writers(k) /\ Arena(k)
      /\ FreeHoldsNothing(k) /\ Shows(k) /\ Excess(k, None)
  BY DEF Good, Owes, Tables
<1>2. \A c \in Cell : k.slot[c] \in Entry
  BY <1>1 DEF OS
<1>3. ASSUME NEW c \in Cell
      PROVE  /\ f[c] \in Entry
             /\ c \in cells => f[c].open = FALSE /\ f[c].kind = "none" /\ f[c].obj = 0
             /\ c \notin cells => f[c] = k.slot[c]
             /\ f[c].open => k.slot[c].open
             /\ f[c].gen = IF k.slot[c].open /\ ~f[c].open
                           THEN NextGeneration(k.slot[c].gen) ELSE k.slot[c].gen
  <2>1. k.slot[c] \in Entry /\ k.slot[c].open \in BOOLEAN
    BY <1>2 DEF Entry
  <2>2. /\ ~k.slot[c].open => k.slot[c].kind = "none"
        /\ k.slot[c].kind \in Readable <=> k.slot[c].obj # 0
    BY <1>1 DEF SlotsNameSurfaces
  <2>3. CASE c \in cells /\ k.slot[c].open
    <3>1. f[c] = Closed(k.slot[c])
      BY <2>3
    <3> QED BY <3>1, <2>1, <2>3, ClosedEntry
  <2>4. CASE ~(c \in cells /\ k.slot[c].open)
    <3>1. f[c] = k.slot[c]
      BY <2>4
    <3> QED BY <3>1, <2>1, <2>2, <2>4 DEF Readable
  <2> QED BY <2>3, <2>4
<1>4. f \in [Cell -> Entry]
  BY <1>3
<1> HIDE DEF f
<1>5. /\ j \in OS /\ j.slot = f /\ j.obj = k.obj /\ j.ink = k.ink /\ j.proc = k.proc
      /\ j.svc = k.svc /\ j.map = k.map /\ j.table = k.table /\ j.ptes = k.ptes
  BY <1>1, <1>4 DEF OS
<1>6. n \in [Object -> Nat]
  <2>1. ASSUME NEW o \in Object PROVE Cardinality({c \in cells : k.slot[c].obj = o}) \in Nat
    <3>1. {c \in cells : k.slot[c].obj = o} \in SUBSET Cell
      OBVIOUS
    <3> QED BY <3>1, FiniteCells, FS_Subset, FS_CardinalityType
  <2> QED BY <2>1
<1>7. ReleaseSlots(k, cells) = surface_releases(j, n)
  BY DEF ReleaseSlots, f
<1> HIDE DEF j
<1>8. Excess(j, n)
  <2> SUFFICES ASSUME NEW o \in Object
               PROVE  j.obj[o].references = Cardinality(HandlesOn(j, o))
                                            + Cardinality(MappingsOn(j, o)) + n[o]
    BY DEF Excess
  <2> DEFINE gone == {c \in cells : k.slot[c].obj = o}
  <2>1. o # 0
    BY DEF Object
  <2>2. gone \subseteq HandlesOn(k, o)
    BY DEF HandlesOn
  <2>3. HandlesOn(j, o) = HandlesOn(k, o) \ gone
    BY <1>3, <1>5, <2>1 DEF HandlesOn
  <2>4. HandlesOn(k, o) \cap gone = gone
    BY <2>2
  <2>5. Cardinality(HandlesOn(j, o)) = Cardinality(HandlesOn(k, o)) - Cardinality(gone)
    BY <2>3, <2>4, FiniteHolders, FS_Difference
  <2>6. MappingsOn(j, o) = MappingsOn(k, o)
    BY <1>5 DEF MappingsOn
  <2>7. n[o] = Cardinality(gone) /\ n[o] \in Nat
    BY <1>6
  <2>8. k.obj[o].references = Cardinality(HandlesOn(k, o)) + Cardinality(MappingsOn(k, o)) + 0
    BY <1>1 DEF Excess, None
  <2>9. Cardinality(HandlesOn(k, o)) \in Nat /\ Cardinality(MappingsOn(k, o)) \in Nat
    BY FiniteHolders
  <2> HIDE DEF gone, n
  <2> QED BY <2>5, <2>6, <2>7, <2>8, <2>9, <1>5
<1>9. SlotsNameSurfaces(j)
  <2>1. ASSUME NEW c \in Cell
        PROVE  /\ ~f[c].open => f[c].kind = "none"
               /\ f[c].kind \in Readable <=> f[c].obj # 0
    <3>1. CASE c \in cells
      BY <1>3, <3>1 DEF Readable
    <3>2. CASE c \notin cells
      <4>1. f[c] = k.slot[c]
        BY <1>3, <3>2
      <4> QED BY <1>1, <4>1 DEF SlotsNameSurfaces
    <3> QED BY <3>1, <3>2
  <2> QED BY <2>1, <1>5 DEF SlotsNameSurfaces
<1>10. Writers(j)
  <2> SUFFICES ASSUME NEW c \in Cell, NEW e \in Cell,
                      f[c].kind = "write", f[e].kind = "write", f[c].obj = f[e].obj
               PROVE  c[1] = e[1]
    BY <1>5 DEF Writers
  <2>1. c \notin cells /\ e \notin cells
    BY <1>3
  <2>2. f[c] = k.slot[c] /\ f[e] = k.slot[e]
    BY <2>1, <1>3
  <2> QED BY <2>2, <1>1 DEF Writers
<1>11. Arena(j) /\ Shows(j)
  BY <1>1, <1>5, SameArena DEF Shows
<1>12. FreeHoldsNothing(j)
  <2> SUFFICES ASSUME NEW p \in User, k.proc[p] = "free"
               PROVE  /\ \A s \in Slot : ~f[<<p, s>>].open
                      /\ \A m \in MapSlot : k.map[<<p, m>>] = 0 /\ ~k.table[<<p, m>>]
    BY <1>5 DEF FreeHoldsNothing
  <2>1. \A s \in Slot : <<p, s>> \in Cell /\ ~k.slot[<<p, s>>].open
    BY <1>1 DEF FreeHoldsNothing, Cell
  <2>2. \A s \in Slot : ~f[<<p, s>>].open
    BY <2>1, <1>3
  <2> QED BY <2>2, <1>1 DEF FreeHoldsNothing
<1>13. Owes(j, n)
  BY <1>5, <1>8, <1>9, <1>10, <1>11, <1>12 DEF Owes, Tables
<1> DEFINE d == surface_releases(j, n)
<1> HIDE DEF n
<1>14. /\ Good(d) /\ Fades(j, d)
       /\ d.slot = f /\ d.proc = k.proc /\ d.svc = k.svc /\ d.map = k.map /\ d.table = k.table
  BY <1>5, <1>6, <1>13, ReleasesGood
<1> HIDE DEF d
<1>15. Fades(k, d)
  BY <1>5, <1>14 DEF Fades
<1>16. Closes(k, d) /\ \A c \in cells : ~d.slot[c].open
  BY <1>3, <1>14 DEF Closes
<1> QED BY <1>7, <1>14, <1>15, <1>16 DEF d, Releases

(* So does removing any set of mappings.                                   *)
LEMMA ReleaseWindowsGood ==
  ASSUME NEW k, Good(k), NEW windows \in SUBSET Window
  PROVE  LET d == ReleaseWindows(k, windows)
         IN  /\ Releases(k, d)
             /\ d.map = [w \in Window |-> IF w \in windows THEN 0 ELSE k.map[w]]
             /\ d.proc = k.proc /\ d.svc = k.svc /\ d.slot = k.slot /\ d.table = k.table
<1> DEFINE f == [w \in Window |-> IF w \in windows THEN 0 ELSE k.map[w]]
           g == [w \in Window |-> IF w \in windows THEN {} ELSE k.ptes[w]]
           n == [o \in Object |-> Cardinality({w \in windows : k.map[w] = o})]
           j == [k EXCEPT !.map = f, !.ptes = g]
<1>1. /\ k \in OS /\ SlotsNameSurfaces(k) /\ Writers(k) /\ Arena(k)
      /\ FreeHoldsNothing(k) /\ Shows(k) /\ Excess(k, None)
  BY DEF Good, Owes, Tables
<1>2. k.map \in [Window -> 0 .. SurfaceLimit] /\ k.ptes \in [Window -> SUBSET Page]
  BY <1>1 DEF OS
<1>3. /\ \A w \in Window : f[w] = IF w \in windows THEN 0 ELSE k.map[w]
      /\ \A w \in Window : g[w] = IF w \in windows THEN {} ELSE k.ptes[w]
      /\ f \in [Window -> 0 .. SurfaceLimit] /\ g \in [Window -> SUBSET Page]
  BY <1>2, SurfaceConstants
<1> HIDE DEF f, g
<1>4. /\ j \in OS /\ j.map = f /\ j.ptes = g /\ j.obj = k.obj /\ j.ink = k.ink
      /\ j.proc = k.proc /\ j.svc = k.svc /\ j.slot = k.slot /\ j.table = k.table
  BY <1>1, <1>3 DEF OS
<1>5. n \in [Object -> Nat]
  <2>1. ASSUME NEW o \in Object PROVE Cardinality({w \in windows : k.map[w] = o}) \in Nat
    <3>1. {w \in windows : k.map[w] = o} \in SUBSET Window
      OBVIOUS
    <3> QED BY <3>1, FiniteCells, FS_Subset, FS_CardinalityType
  <2> QED BY <2>1
<1>6. ReleaseWindows(k, windows) = surface_releases(j, n)
  BY DEF ReleaseWindows, f, g
<1> HIDE DEF j
<1>7. Excess(j, n)
  <2> SUFFICES ASSUME NEW o \in Object
               PROVE  j.obj[o].references = Cardinality(HandlesOn(j, o))
                                            + Cardinality(MappingsOn(j, o)) + n[o]
    BY DEF Excess
  <2> DEFINE gone == {w \in windows : k.map[w] = o}
  <2>1. o # 0
    BY DEF Object
  <2>2. gone \subseteq MappingsOn(k, o)
    BY DEF MappingsOn
  <2>3. MappingsOn(j, o) = MappingsOn(k, o) \ gone
    BY <1>3, <1>4, <2>1 DEF MappingsOn
  <2>4. MappingsOn(k, o) \cap gone = gone
    BY <2>2
  <2>5. Cardinality(MappingsOn(j, o)) = Cardinality(MappingsOn(k, o)) - Cardinality(gone)
    BY <2>3, <2>4, FiniteHolders, FS_Difference
  <2>6. HandlesOn(j, o) = HandlesOn(k, o)
    BY <1>4 DEF HandlesOn
  <2>7. n[o] = Cardinality(gone) /\ n[o] \in Nat
    BY <1>5
  <2>8. k.obj[o].references = Cardinality(HandlesOn(k, o)) + Cardinality(MappingsOn(k, o)) + 0
    BY <1>1 DEF Excess, None
  <2>9. Cardinality(HandlesOn(k, o)) \in Nat /\ Cardinality(MappingsOn(k, o)) \in Nat
    BY FiniteHolders
  <2> HIDE DEF gone, n
  <2> QED BY <2>5, <2>6, <2>7, <2>8, <2>9, <1>4
<1>8. SlotsNameSurfaces(j) /\ Writers(j) /\ Arena(j)
  <2>1. SlotsNameSurfaces(j) /\ Writers(j)
    BY <1>1, <1>4 DEF SlotsNameSurfaces, Writers
  <2>2. Arena(j)
    BY <1>1, <1>4, SameArena
  <2> QED BY <2>1, <2>2
<1>9. Shows(j)
  BY <1>1, <1>3, <1>4 DEF Shows
<1>10. FreeHoldsNothing(j)
  <2> SUFFICES ASSUME NEW p \in User, k.proc[p] = "free"
               PROVE  /\ \A s \in Slot : ~k.slot[<<p, s>>].open
                      /\ \A m \in MapSlot : f[<<p, m>>] = 0 /\ ~k.table[<<p, m>>]
    BY <1>4 DEF FreeHoldsNothing
  <2>1. \A m \in MapSlot : <<p, m>> \in Window /\ k.map[<<p, m>>] = 0 /\ ~k.table[<<p, m>>]
    BY <1>1 DEF FreeHoldsNothing, Window
  <2>2. \A m \in MapSlot : f[<<p, m>>] = 0
    BY <2>1, <1>3
  <2> QED BY <2>1, <2>2, <1>1 DEF FreeHoldsNothing
<1>11. Owes(j, n)
  BY <1>4, <1>7, <1>8, <1>9, <1>10 DEF Owes, Tables
<1> DEFINE d == surface_releases(j, n)
<1> HIDE DEF n
<1>12. /\ Good(d) /\ Fades(j, d)
       /\ d.slot = k.slot /\ d.proc = k.proc /\ d.svc = k.svc /\ d.map = f /\ d.table = k.table
  BY <1>4, <1>5, <1>11, ReleasesGood
<1> HIDE DEF d
<1>13. Fades(k, d) /\ Closes(k, d)
  BY <1>4, <1>12 DEF Fades, Closes
<1> QED BY <1>6, <1>12, <1>13 DEF d, f, Releases

(* Services, the process table and the display owner are not in the books. *)
LEMMA Unrelated ==
  ASSUME NEW k, Good(k), NEW d \in OS,
         d.slot = k.slot, d.obj = k.obj, d.ink = k.ink,
         d.map = k.map, d.table = k.table, d.ptes = k.ptes,
         \A p \in User : d.proc[p] = "free" => k.proc[p] = "free"
  PROVE  Releases(k, d)
<1>1. /\ SlotsNameSurfaces(k) /\ Writers(k) /\ Arena(k)
      /\ FreeHoldsNothing(k) /\ Shows(k) /\ Excess(k, None)
  BY DEF Good, Owes, Tables
<1>2. SlotsNameSurfaces(d) /\ Writers(d)
  BY <1>1 DEF SlotsNameSurfaces, Writers
<1>3. Arena(d)
  BY <1>1, SameArena
<1>4. FreeHoldsNothing(d) /\ Shows(d)
  BY <1>1 DEF FreeHoldsNothing, Shows
<1>5. Excess(d, None)
  BY <1>1 DEF Excess, HandlesOn, MappingsOn
<1>6. Fades(k, d) /\ Closes(k, d)
  BY DEF Fades, Closes
<1> QED BY <1>2, <1>3, <1>4, <1>5, <1>6 DEF Releases, Good, Owes, Tables

LEMMA CloseAllGood ==
  ASSUME NEW k, Good(k), NEW pid \in User
  PROVE  LET d == capabilities_close_all(k, pid)
         IN  /\ Releases(k, d)
             /\ \A s \in Slot : ~d.slot[<<pid, s>>].open
             /\ d.proc = k.proc /\ d.map = k.map /\ d.table = k.table
<1> DEFINE r == ReleaseSlots(k, {pid} \X Slot)
           d == [r EXCEPT !.svc[pid] = FALSE]
<1>1. {pid} \X Slot \in SUBSET Cell
  BY DEF Cell
<1>2. /\ Releases(k, r)
      /\ \A c \in {pid} \X Slot : ~r.slot[c].open
      /\ r.proc = k.proc /\ r.svc = k.svc /\ r.map = k.map /\ r.table = k.table
  BY <1>1, ReleaseSlotsGood
<1> HIDE DEF r
<1>3. r \in OS
  BY <1>2 DEF Releases, Good, Owes, Tables
<1>4. d \in OS
  BY <1>3 DEF OS
<1>5. /\ d.slot = r.slot /\ d.obj = r.obj /\ d.ink = r.ink /\ d.proc = r.proc
      /\ d.map = r.map /\ d.table = r.table /\ d.ptes = r.ptes
  BY <1>3 DEF OS
<1>6. capabilities_close_all(k, pid) = d
  BY DEF capabilities_close_all, r
<1> HIDE DEF d
<1>7. Releases(r, d)
  BY <1>2, <1>4, <1>5, Unrelated DEF Releases
<1>8. Releases(k, d)
  BY <1>2, <1>7, ReleasesCompose
<1>9. \A s \in Slot : ~d.slot[<<pid, s>>].open
  BY <1>2, <1>5
<1> QED BY <1>2, <1>5, <1>6, <1>8, <1>9

LEMMA UnmapGood ==
  ASSUME NEW k, Good(k), NEW pid \in User
  PROVE  LET d == unmap_surface(k, pid)
         IN  /\ Releases(k, d)
             /\ \A m \in MapSlot : d.map[<<pid, m>>] = 0 /\ ~d.table[<<pid, m>>]
             /\ d.proc = k.proc /\ d.slot = k.slot
<1> DEFINE mine == {pid} \X MapSlot
           r == ReleaseWindows(k, mine)
           t == [w \in Window |-> IF w \in mine THEN FALSE ELSE k.table[w]]
           d == [r EXCEPT !.table = t]
<1>1. mine \in SUBSET Window
  BY DEF Window
<1>2. /\ Releases(k, r)
      /\ r.map = [w \in Window |-> IF w \in mine THEN 0 ELSE k.map[w]]
      /\ r.proc = k.proc /\ r.slot = k.slot /\ r.table = k.table
  BY <1>1, ReleaseWindowsGood
<1>3. unmap_surface(k, pid) = d
  BY DEF unmap_surface
<1> HIDE DEF r
<1>4. /\ r \in OS /\ SlotsNameSurfaces(r) /\ Writers(r) /\ Arena(r)
      /\ FreeHoldsNothing(r) /\ Shows(r) /\ Excess(r, None)
  BY <1>2 DEF Releases, Good, Owes, Tables
<1>5. /\ t \in [Window -> BOOLEAN]
      /\ \A w \in mine : ~t[w]
      /\ \A w \in Window \ mine : t[w] = r.table[w]
      /\ \A w \in Window : t[w] => r.table[w]
  <2>1. r.table \in [Window -> BOOLEAN] /\ r.table = k.table
    BY <1>2, <1>4 DEF OS
  <2> QED BY <2>1, <1>1
<1> HIDE DEF t
<1>6. /\ d \in OS /\ d.table = t
      /\ d.slot = r.slot /\ d.obj = r.obj /\ d.ink = r.ink /\ d.proc = r.proc
      /\ d.map = r.map /\ d.ptes = r.ptes
  BY <1>4, <1>5 DEF OS
<1> HIDE DEF d
<1>7. \A w \in mine : d.map[w] = 0 /\ ~d.table[w]
  BY <1>1, <1>2, <1>5, <1>6
<1>8. SlotsNameSurfaces(d) /\ Writers(d)
  BY <1>4, <1>6 DEF SlotsNameSurfaces, Writers
<1>9. Arena(d)
  BY <1>4, <1>6, SameArena
<1>10. Excess(d, None)
  BY <1>4, <1>6 DEF Excess, HandlesOn, MappingsOn
<1>11. Shows(d)
  <2> HIDE DEF mine
  <2> QED BY <1>4, <1>5, <1>6, <1>7 DEF Shows
<1>12. FreeHoldsNothing(d)
  <2> SUFFICES ASSUME NEW p \in User, r.proc[p] = "free"
               PROVE  /\ \A s \in Slot : ~r.slot[<<p, s>>].open
                      /\ \A m \in MapSlot : r.map[<<p, m>>] = 0 /\ ~t[<<p, m>>]
    BY <1>6 DEF FreeHoldsNothing
  <2>1. \A m \in MapSlot : <<p, m>> \in Window
    BY DEF Window
  <2> QED BY <2>1, <1>4, <1>5 DEF FreeHoldsNothing
<1>13. Good(d)
  BY <1>6, <1>8, <1>9, <1>10, <1>11, <1>12 DEF Good, Owes, Tables
<1>14. Releases(r, d)
  BY <1>6, <1>13 DEF Releases, Fades, Closes
<1>15. Releases(k, d)
  BY <1>2, <1>14, ReleasesCompose
<1>16. \A m \in MapSlot : d.map[<<pid, m>>] = 0 /\ ~d.table[<<pid, m>>]
  BY <1>7
<1> QED BY <1>2, <1>3, <1>6, <1>15, <1>16

(* The teardown of a process leaves its slot empty and free.               *)
LEMMA TeardownGood ==
  ASSUME NEW k, Good(k), NEW pid \in User
  PROVE  Releases(k, userspace_release_process(k, pid))
<1> DEFINE c == capabilities_close_all(k, pid)
           u == unmap_surface(c, pid)
           d == [u EXCEPT !.proc[pid] = "free"]
<1>1. Releases(k, c) /\ \A s \in Slot : ~c.slot[<<pid, s>>].open
  BY CloseAllGood
<1>2. userspace_release_process(k, pid) = d
  BY DEF userspace_release_process
<1> HIDE DEF c
<1>3. Good(c)
  BY <1>1 DEF Releases
<1>4. /\ Releases(c, u)
      /\ \A m \in MapSlot : u.map[<<pid, m>>] = 0 /\ ~u.table[<<pid, m>>]
      /\ \A s \in Slot : ~u.slot[<<pid, s>>].open
  BY <1>1, <1>3, UnmapGood
<1> HIDE DEF u
<1>5. /\ u \in OS /\ SlotsNameSurfaces(u) /\ Writers(u) /\ Arena(u)
      /\ FreeHoldsNothing(u) /\ Shows(u) /\ Excess(u, None)
  BY <1>4 DEF Releases, Good, Owes, Tables
<1>6. d \in OS /\ \A p \in User : d.proc[p] = IF p = pid THEN "free" ELSE u.proc[p]
  BY <1>5 DEF OS
<1>7. /\ d.slot = u.slot /\ d.obj = u.obj /\ d.ink = u.ink
      /\ d.map = u.map /\ d.table = u.table /\ d.ptes = u.ptes
  BY <1>5 DEF OS
<1> HIDE DEF d
<1>8. SlotsNameSurfaces(d) /\ Writers(d)
  BY <1>5, <1>7 DEF SlotsNameSurfaces, Writers
<1>9. Arena(d)
  BY <1>5, <1>7, SameArena
<1>10. Shows(d)
  BY <1>5, <1>7 DEF Shows
<1>11. Excess(d, None)
  BY <1>5, <1>7 DEF Excess, HandlesOn, MappingsOn
<1>12. FreeHoldsNothing(d)
  BY <1>4, <1>5, <1>6, <1>7 DEF FreeHoldsNothing
<1>13. Good(d)
  BY <1>6, <1>8, <1>9, <1>10, <1>11, <1>12 DEF Good, Owes, Tables
<1>14. Releases(u, d)
  BY <1>7, <1>13 DEF Releases, Fades, Closes
<1> QED BY <1>1, <1>2, <1>4, <1>14, ReleasesCompose

LEMMA EndGood ==
  ASSUME NEW k, Good(k), NEW pid \in User, NEW awaited \in BOOLEAN
  PROVE  Releases(k, EndProcess(k, pid, awaited))
<1>1. CASE awaited
  BY <1>1, TeardownGood DEF EndProcess
<1>2. CASE ~awaited
  <2> DEFINE d == [k EXCEPT !.proc[pid] = "exited"]
  <2>1. k \in OS
    BY DEF Good, Owes, Tables
  <2>2. d \in OS /\ \A p \in User : d.proc[p] = IF p = pid THEN "exited" ELSE k.proc[p]
    BY <2>1 DEF OS
  <2>3. /\ d.slot = k.slot /\ d.obj = k.obj /\ d.ink = k.ink
        /\ d.map = k.map /\ d.table = k.table /\ d.ptes = k.ptes
    BY <2>1 DEF OS
  <2>4. EndProcess(k, pid, awaited) = d
    BY <1>2 DEF EndProcess
  <2> HIDE DEF d
  <2> QED BY <2>2, <2>3, <2>4, Unrelated
<1> QED BY <1>1, <1>2

-----------------------------------------------------------------------------
(* References that come.  Between the retain and the new handle or mapping *)
(* the surface is counted once too often.                                  *)

One(o) == [q \in Object |-> IF q = o THEN 1 ELSE 0]

(* No surface that is active in k and in d moves or loses pixels.          *)
Stays(k, d) ==
  \A o \in Object :
    k.obj[o].active /\ d.obj[o].active =>
      /\ Extent(d.obj[o]) = Extent(k.obj[o])
      /\ k.ink \cap Extent(k.obj[o]) \subseteq d.ink

(* The tables of k are those of d.                                         *)
SameTables(k, d) ==
  /\ d.proc = k.proc /\ d.svc = k.svc /\ d.slot = k.slot
  /\ d.map = k.map /\ d.table = k.table /\ d.ptes = k.ptes

LEMMA RetainOwes ==
  ASSUME NEW k, Good(k), NEW o \in Object, k.obj[o].active
  PROVE  LET d == surface_retain(k, o)
         IN  /\ Owes(d, One(o)) /\ Stays(k, d) /\ SameTables(k, d)
             /\ d.obj[o].active /\ Extent(d.obj[o]) = Extent(k.obj[o])
<1> DEFINE d == surface_retain(k, o)
<1>1. /\ k \in OS /\ SlotsNameSurfaces(k) /\ Writers(k) /\ Cleared(k) /\ Apart(k) /\ Clean(k)
      /\ FreeHoldsNothing(k) /\ Shows(k) /\ Excess(k, None)
  BY DEF Good, Owes, Tables, Arena
<1>2. k.obj[o] \in SurfaceObject
  BY <1>1 DEF OS
<1>3. d.ink = k.ink /\ SameTables(k, d)
  BY <1>1 DEF OS, surface_retain, SameTables
<1>4. d.obj = [k.obj EXCEPT ![o] = [k.obj[o] EXCEPT !.references = @ + 1]]
  BY <1>1 DEF OS, surface_retain
<1>5. d \in OS
  <2> DEFINE f == [k.obj EXCEPT ![o] = [k.obj[o] EXCEPT !.references = @ + 1]]
  <2>1. k.obj \in [Object -> SurfaceObject]
    BY <1>1 DEF OS
  <2>2. f \in [Object -> SurfaceObject]
    BY <2>1, <1>2 DEF SurfaceObject
  <2>3. d = [k EXCEPT !.obj = f]
    BY <1>1 DEF surface_retain, OS
  <2> HIDE DEF f
  <2> QED BY <2>2, <2>3, <1>1, SetObj
<1>6. \A q \in Object \ {o} : d.obj[q] = k.obj[q]
  BY <1>4, <1>1 DEF OS
<1>7. /\ d.obj[o].active = k.obj[o].active /\ d.obj[o].offset = k.obj[o].offset
      /\ d.obj[o].pages = k.obj[o].pages
      /\ d.obj[o].references = k.obj[o].references + 1 /\ k.obj[o].references \in Nat
  <2>1. d.obj[o] = [k.obj[o] EXCEPT !.references = @ + 1]
    BY <1>4, <1>1 DEF OS
  <2> QED BY <2>1, <1>2 DEF SurfaceObject
<1> HIDE DEF d
<1>8. \A q \in Object : /\ d.obj[q].active <=> k.obj[q].active
                        /\ Extent(d.obj[q]) = Extent(k.obj[q])
                        /\ d.obj[q].offset = k.obj[q].offset
                        /\ d.obj[q].pages = k.obj[q].pages
  BY <1>6, <1>7 DEF Extent
<1>9. Cleared(d)
  <2>1. d.obj[o].active /\ d.obj[o].references > 0
    BY <1>7
  <2> QED BY <2>1, <1>1, <1>6 DEF Cleared
<1>10. Apart(d)
  BY <1>1, <1>8 DEF Apart
<1>11. Clean(d)
  <2> SUFFICES ASSUME NEW x \in k.ink
               PROVE  \E q \in Object : d.obj[q].active /\ x \in Extent(d.obj[q])
    BY <1>3 DEF Clean, Inactive
  <2>1. PICK q \in Object : k.obj[q].active /\ x \in Extent(k.obj[q])
    BY <1>1 DEF Clean, Inactive
  <2> QED BY <2>1, <1>8
<1>12. SlotsNameSurfaces(d) /\ Writers(d)
  BY <1>1, <1>3 DEF SlotsNameSurfaces, Writers, SameTables
<1>13. FreeHoldsNothing(d)
  BY <1>1, <1>3 DEF FreeHoldsNothing, SameTables
<1>14. Shows(d)
  <2> SUFFICES ASSUME NEW w \in Window
               PROVE  IF k.map[w] = 0 THEN k.ptes[w] = {}
                      ELSE /\ d.obj[k.map[w]].active
                           /\ k.ptes[w] = Extent(d.obj[k.map[w]])
                           /\ k.table[w]
    BY <1>3 DEF Shows, SameTables
  <2>1. k.map[w] # 0 => k.map[w] \in Object
    BY <1>1, SurfaceConstants DEF OS, Object
  <2> QED BY <2>1, <1>1, <1>8 DEF Shows
<1>15. Excess(d, One(o))
  <2> SUFFICES ASSUME NEW q \in Object
               PROVE  d.obj[q].references = Cardinality(HandlesOn(d, q))
                                            + Cardinality(MappingsOn(d, q)) + One(o)[q]
    BY DEF Excess
  <2>1. HandlesOn(d, q) = HandlesOn(k, q) /\ MappingsOn(d, q) = MappingsOn(k, q)
    BY <1>3 DEF HandlesOn, MappingsOn, SameTables
  <2>2. k.obj[q].references = Cardinality(HandlesOn(k, q)) + Cardinality(MappingsOn(k, q)) + 0
    BY <1>1 DEF Excess, None
  <2>3. One(o)[q] = IF q = o THEN 1 ELSE 0
    BY DEF One
  <2>4. Cardinality(HandlesOn(k, q)) \in Nat /\ Cardinality(MappingsOn(k, q)) \in Nat
    BY FiniteHolders
  <2>5. CASE q = o
    BY <2>1, <2>2, <2>3, <2>4, <2>5, <1>7
  <2>6. CASE q # o
    BY <2>1, <2>2, <2>3, <2>4, <2>6, <1>6
  <2> QED BY <2>5, <2>6
<1>16. Stays(k, d)
  BY <1>3, <1>8 DEF Stays
<1> QED BY <1>3, <1>5, <1>8, <1>9, <1>10, <1>11, <1>12, <1>13, <1>14, <1>15, <1>16
        DEF Owes, Tables, Arena, d

(* A new surface: first fit keeps it apart from all others, and nothing    *)
(* names it yet.                                                           *)
LEMMA CreateOwes ==
  ASSUME NEW k, Good(k), NEW o \in Inactive(k), NEW n \in Nat \ {0}, NEW x \in Fits(k, n)
  PROVE  LET d == surface_retain(surface_create(k, o, x, n), o)
         IN  /\ Owes(d, One(o)) /\ Stays(k, d) /\ SameTables(k, d)
             /\ \A c \in Cell : d.slot[c].obj # o
<1> DEFINE b == [NoSurface EXCEPT !.active = TRUE, !.offset = x, !.pages = n]
           s == [b EXCEPT !.references = @ + 1]
           c == [k EXCEPT !.obj[o] = b]
           d == surface_retain(c, o)
<1>1. /\ k \in OS /\ SlotsNameSurfaces(k) /\ Writers(k) /\ Cleared(k) /\ Apart(k) /\ Clean(k)
      /\ FreeHoldsNothing(k) /\ Shows(k) /\ Excess(k, None)
  BY DEF Good, Owes, Tables, Arena
<1>2. /\ o \in Object /\ ~k.obj[o].active
      /\ x \in Nat /\ x \in Page /\ x + n <= ArenaPages
      /\ \A q \in Object : k.obj[q].active =>
           \/ x + n <= k.obj[q].offset
           \/ k.obj[q].offset + k.obj[q].pages <= x
  BY DEF Inactive, Fits, Page
<1>3. \A q \in Object : k.obj[q] \in SurfaceObject
  BY <1>1 DEF OS
<1>4. /\ b \in SurfaceObject
      /\ b.active = TRUE /\ b.offset = x /\ b.pages = n /\ b.references = 0
  BY <1>2 DEF NoSurface, SurfaceObject
<1> HIDE DEF b
<1>5. /\ c.obj = [k.obj EXCEPT ![o] = b] /\ c.ink = k.ink /\ SameTables(k, c)
      /\ c = [k EXCEPT !.obj = c.obj]
  BY <1>1 DEF OS, SameTables
<1>6. surface_create(k, o, x, n) = c
  BY DEF surface_create, b
<1>7. c.obj \in [Object -> SurfaceObject]
  <2>1. k.obj \in [Object -> SurfaceObject]
    BY <1>1 DEF OS
  <2> HIDE DEF c
  <2> QED BY <2>1, <1>4, <1>5
<1>8. c \in OS
  BY <1>1, <1>5, <1>7, SetObj
<1>9. c.obj[o] = b /\ \A q \in Object \ {o} : c.obj[q] = k.obj[q]
  BY <1>1, <1>2, <1>5 DEF OS
<1> HIDE DEF c
<1>10. /\ d.obj = [c.obj EXCEPT ![o] = [c.obj[o] EXCEPT !.references = @ + 1]]
       /\ d.ink = k.ink /\ SameTables(k, d)
       /\ d = [c EXCEPT !.obj = d.obj]
  BY <1>5, <1>8 DEF OS, surface_retain, SameTables
<1>11. [c.obj[o] EXCEPT !.references = @ + 1] = s
  BY <1>9
<1>12. /\ s \in SurfaceObject
       /\ s.active = TRUE /\ s.offset = x /\ s.pages = n /\ s.references = 1
  BY <1>4 DEF SurfaceObject
<1> HIDE DEF s
<1>13. d.obj[o] = s /\ \A q \in Object \ {o} : d.obj[q] = k.obj[q]
  BY <1>2, <1>7, <1>9, <1>10, <1>11
<1>14. d \in OS
  <2>1. d.obj \in [Object -> SurfaceObject]
    <3> HIDE DEF d
    <3> QED BY <1>7, <1>10, <1>11, <1>12
  <2> QED BY <2>1, <1>8, <1>10, SetObj
<1> HIDE DEF d
<1>15. /\ d.obj[o].active /\ d.obj[o].offset = x /\ d.obj[o].pages = n
       /\ d.obj[o].references = 1
  BY <1>12, <1>13
<1>16. \A q \in Object \ {o} : k.obj[q].active => Extent(d.obj[o]) \cap Extent(k.obj[q]) = {}
  BY <1>2, <1>3, <1>15, SurfaceConstants DEF Extent, Page, SurfaceObject
<1>17. k.obj[o].references = 0 /\ HandlesOn(k, o) = {} /\ MappingsOn(k, o) = {}
  <2>1. k.obj[o].references = 0
    BY <1>1, <1>2 DEF Cleared, NoSurface
  <2>2. k.obj[o].references = Cardinality(HandlesOn(k, o)) + Cardinality(MappingsOn(k, o)) + 0
    BY <1>1, <1>2 DEF Excess, None
  <2>3. Cardinality(HandlesOn(k, o)) = 0 /\ Cardinality(MappingsOn(k, o)) = 0
    BY <2>1, <2>2, FiniteHolders
  <2> QED BY <2>1, <2>3, FiniteHolders, FS_EmptySet
<1>18. Cleared(d)
  BY <1>1, <1>13, <1>15 DEF Cleared
<1>19. Apart(d)
  <2> SUFFICES ASSUME NEW q \in Object, d.obj[q].active
               PROVE  /\ d.obj[q].pages > 0 /\ d.obj[q].offset + d.obj[q].pages <= ArenaPages
                      /\ \A r \in Object \ {q} :
                           d.obj[r].active => Extent(d.obj[q]) \cap Extent(d.obj[r]) = {}
    BY DEF Apart
  <2>1. CASE q = o
    BY <2>1, <1>2, <1>13, <1>15, <1>16
  <2>2. CASE q # o
    <3>1. d.obj[q] = k.obj[q] /\ k.obj[q].active
      BY <2>2, <1>13
    <3>2. /\ k.obj[q].pages > 0 /\ k.obj[q].offset + k.obj[q].pages <= ArenaPages
          /\ \A r \in Object \ {q} :
               k.obj[r].active => Extent(k.obj[q]) \cap Extent(k.obj[r]) = {}
      BY <3>1, <1>1 DEF Apart
    <3>3. Extent(d.obj[o]) \cap Extent(k.obj[q]) = {}
      BY <2>2, <3>1, <1>16
    <3> QED BY <3>1, <3>2, <3>3, <1>13
  <2> QED BY <2>1, <2>2
<1>20. Clean(d)
  <2> SUFFICES ASSUME NEW y \in k.ink
               PROVE  \E q \in Object : d.obj[q].active /\ y \in Extent(d.obj[q])
    BY <1>10 DEF Clean, Inactive
  <2>1. PICK q \in Object : k.obj[q].active /\ y \in Extent(k.obj[q])
    BY <1>1 DEF Clean, Inactive
  <2> QED BY <2>1, <1>2, <1>13
<1>21. SlotsNameSurfaces(d) /\ Writers(d)
  BY <1>1, <1>10 DEF SlotsNameSurfaces, Writers, SameTables
<1>22. FreeHoldsNothing(d)
  BY <1>1, <1>10 DEF FreeHoldsNothing, SameTables
<1>23. Shows(d)
  <2> SUFFICES ASSUME NEW w \in Window
               PROVE  IF k.map[w] = 0 THEN k.ptes[w] = {}
                      ELSE /\ d.obj[k.map[w]].active
                           /\ k.ptes[w] = Extent(d.obj[k.map[w]])
                           /\ k.table[w]
    BY <1>10 DEF Shows, SameTables
  <2>1. k.map[w] # 0 => k.map[w] \in Object \ {o}
    BY <1>1, <1>17, SurfaceConstants DEF OS, Object, MappingsOn
  <2> QED BY <2>1, <1>1, <1>13 DEF Shows
<1>24. Excess(d, One(o))
  <2> SUFFICES ASSUME NEW q \in Object
               PROVE  d.obj[q].references = Cardinality(HandlesOn(d, q))
                                            + Cardinality(MappingsOn(d, q)) + One(o)[q]
    BY DEF Excess
  <2>1. HandlesOn(d, q) = HandlesOn(k, q) /\ MappingsOn(d, q) = MappingsOn(k, q)
    BY <1>10 DEF HandlesOn, MappingsOn, SameTables
  <2>2. k.obj[q].references = Cardinality(HandlesOn(k, q)) + Cardinality(MappingsOn(k, q)) + 0
    BY <1>1 DEF Excess, None
  <2>3. One(o)[q] = IF q = o THEN 1 ELSE 0
    BY DEF One
  <2>4. Cardinality(HandlesOn(k, q)) \in Nat /\ Cardinality(MappingsOn(k, q)) \in Nat
    BY FiniteHolders
  <2>5. CASE q = o
    BY <2>1, <2>2, <2>3, <2>4, <2>5, <1>15, <1>17
  <2>6. CASE q # o
    BY <2>1, <2>2, <2>3, <2>4, <2>6, <1>13
  <2> QED BY <2>5, <2>6
<1>25. Stays(k, d)
  BY <1>2, <1>10, <1>13 DEF Stays
<1>26. \A e \in Cell : d.slot[e].obj # o
  BY <1>10, <1>17 DEF HandlesOn, SameTables
<1>27. Owes(d, One(o))
  BY <1>14, <1>18, <1>19, <1>20, <1>21, <1>22, <1>23, <1>24 DEF Owes, Tables, Arena
<1> QED BY <1>6, <1>10, <1>25, <1>26, <1>27 DEF d

(* A new handle takes up the reference that was counted for it.            *)
LEMMA AllocateGood ==
  ASSUME NEW k, NEW o \in 0 .. SurfaceLimit, Owes(k, One(o)),
         NEW pid \in User, k.proc[pid] # "free", NEW s \in Vacant(k, pid),
         NEW kind \in Kind \ {"none"}, kind \in Readable <=> o # 0,
         kind = "write" => \A c \in Cell : k.slot[c].obj # o
  PROVE  LET d == allocate_slot(k, pid, s, kind, o)
         IN  /\ Good(d) /\ d.obj = k.obj /\ d.ink = k.ink
             /\ \A c \in Cell : d.slot[c].gen = k.slot[c].gen
<1> DEFINE e == <<pid, s>>
           new == [k.slot[e] EXCEPT !.open = TRUE, !.kind = kind, !.obj = o]
           d == allocate_slot(k, pid, s, kind, o)
<1>1. /\ k \in OS /\ SlotsNameSurfaces(k) /\ Writers(k) /\ Arena(k)
      /\ FreeHoldsNothing(k) /\ Shows(k) /\ Excess(k, One(o))
  BY DEF Owes, Tables
<1>2. e \in Cell /\ s \in Slot /\ ~k.slot[e].open /\ k.slot[e] \in Entry
  BY <1>1 DEF Vacant, Cell, OS
<1>3. k.slot[e].obj = 0
  BY <1>1, <1>2 DEF SlotsNameSurfaces, Readable
<1>4. /\ new \in Entry
      /\ new.open = TRUE /\ new.kind = kind /\ new.obj = o /\ new.gen = k.slot[e].gen
  BY <1>2 DEF Entry
<1>5. /\ d.slot = [k.slot EXCEPT ![e] = new]
      /\ d = [k EXCEPT !.slot = d.slot]
      /\ d.obj = k.obj /\ d.ink = k.ink /\ d.proc = k.proc
      /\ d.map = k.map /\ d.table = k.table /\ d.ptes = k.ptes
  BY <1>1 DEF allocate_slot, OS
<1> HIDE DEF new, e
<1>6. d.slot[e] = new /\ \A c \in Cell \ {e} : d.slot[c] = k.slot[c]
  BY <1>1, <1>2, <1>5 DEF OS
<1>7. d \in OS
  <2>1. k.slot \in [Cell -> Entry]
    BY <1>1 DEF OS
  <2>2. d.slot \in [Cell -> Entry]
    <3> HIDE DEF d
    <3> QED BY <2>1, <1>4, <1>5
  <2> QED BY <2>2, <1>1, <1>5, SetSlot
<1> HIDE DEF d
<1>8. SlotsNameSurfaces(d)
  BY <1>1, <1>4, <1>6 DEF SlotsNameSurfaces
<1>9. Writers(d)
  <2> SUFFICES ASSUME NEW c \in Cell, NEW b \in Cell,
                      d.slot[c].kind = "write", d.slot[b].kind = "write",
                      d.slot[c].obj = d.slot[b].obj
               PROVE  c[1] = b[1]
    BY DEF Writers
  <2>1. CASE c # e /\ b # e
    BY <2>1, <1>1, <1>6 DEF Writers
  <2>2. CASE c = e \/ b = e
    <3>1. kind # "write" \/ c = b
      BY <2>2, <1>4, <1>6
    <3> QED BY <2>2, <3>1, <1>4, <1>6
  <2> QED BY <2>1, <2>2
<1>10. Arena(d)
  BY <1>1, <1>5, SameArena
<1>11. Shows(d)
  BY <1>1, <1>5 DEF Shows
<1>12. FreeHoldsNothing(d)
  <2> SUFFICES ASSUME NEW p \in User, k.proc[p] = "free"
               PROVE  /\ \A z \in Slot : ~d.slot[<<p, z>>].open
                      /\ \A m \in MapSlot : k.map[<<p, m>>] = 0 /\ ~k.table[<<p, m>>]
    BY <1>5 DEF FreeHoldsNothing
  <2>1. \A z \in Slot : <<p, z>> \in Cell /\ <<p, z>> # e
    BY DEF Cell, e
  <2> QED BY <2>1, <1>1, <1>6 DEF FreeHoldsNothing
<1>13. Excess(d, None)
  <2> SUFFICES ASSUME NEW q \in Object
               PROVE  d.obj[q].references = Cardinality(HandlesOn(d, q))
                                            + Cardinality(MappingsOn(d, q)) + 0
    BY DEF Excess, None
  <2>1. MappingsOn(d, q) = MappingsOn(k, q) /\ d.obj[q] = k.obj[q]
    BY <1>5 DEF MappingsOn
  <2>2. k.obj[q].references = Cardinality(HandlesOn(k, q)) + Cardinality(MappingsOn(k, q))
                              + One(o)[q]
    BY <1>1 DEF Excess
  <2>3. One(o)[q] = IF q = o THEN 1 ELSE 0
    BY DEF One
  <2>4. IsFiniteSet(HandlesOn(k, q)) /\ Cardinality(HandlesOn(k, q)) \in Nat
        /\ Cardinality(MappingsOn(k, q)) \in Nat
    BY FiniteHolders
  <2>5. q # 0 /\ e \notin HandlesOn(k, q)
    BY <1>3 DEF Object, HandlesOn
  <2>6. CASE q = o
    <3>1. HandlesOn(d, q) = HandlesOn(k, q) \cup {e}
      BY <2>6, <1>2, <1>4, <1>6 DEF HandlesOn
    <3>2. Cardinality(HandlesOn(d, q)) = Cardinality(HandlesOn(k, q)) + 1
      BY <2>4, <2>5, <3>1, FS_AddElement
    <3> QED BY <2>1, <2>2, <2>3, <2>4, <2>6, <3>2
  <2>7. CASE q # o
    <3>1. HandlesOn(d, q) = HandlesOn(k, q)
      BY <2>5, <2>7, <1>2, <1>4, <1>6 DEF HandlesOn
    <3> QED BY <2>1, <2>2, <2>3, <2>4, <2>7, <3>1
  <2> QED BY <2>6, <2>7
<1>14. \A c \in Cell : d.slot[c].gen = k.slot[c].gen
  BY <1>4, <1>6
<1>15. Good(d)
  BY <1>7, <1>8, <1>9, <1>10, <1>11, <1>12, <1>13 DEF Good, Owes, Tables
<1> QED BY <1>5, <1>14, <1>15 DEF d

(* So does a new mapping, which shows the surface it was counted for.      *)
LEMMA MapGood ==
  ASSUME NEW k, Good(k), NEW o \in Object, k.obj[o].active,
         NEW pid \in User, k.proc[pid] # "free", NEW m \in NoMapping(k, pid)
  PROVE  LET d == map_surface_readonly(k, pid, o, m)
         IN  Good(d) /\ Stays(k, d) /\ d.slot = k.slot
<1> DEFINE r == surface_retain(k, o)
           e == <<pid, m>>
           ext == Extent(k.obj[o])
           d == [r EXCEPT !.table[e] = TRUE, !.ptes[e] = ext, !.map[e] = o]
<1>1. /\ Owes(r, One(o)) /\ Stays(k, r) /\ SameTables(k, r)
      /\ r.obj[o].active /\ Extent(r.obj[o]) = ext
  BY RetainOwes
<1>2. map_surface_readonly(k, pid, o, m) = d
  BY DEF map_surface_readonly
<1> HIDE DEF r
<1>3. /\ r \in OS /\ SlotsNameSurfaces(r) /\ Writers(r) /\ Arena(r)
      /\ FreeHoldsNothing(r) /\ Shows(r) /\ Excess(r, One(o))
  BY <1>1 DEF Owes, Tables
<1>4. e \in Window /\ m \in MapSlot /\ r.map[e] = 0
  BY <1>1 DEF NoMapping, Window, SameTables
<1>5. ext \in SUBSET Page /\ o \in 0 .. SurfaceLimit
  BY SurfaceConstants DEF Extent, Object
<1> HIDE DEF e, ext
<1>6. /\ d.table = [r.table EXCEPT ![e] = TRUE]
      /\ d.ptes = [r.ptes EXCEPT ![e] = ext]
      /\ d.map = [r.map EXCEPT ![e] = o]
      /\ d.slot = r.slot /\ d.obj = r.obj /\ d.ink = r.ink /\ d.proc = r.proc
  BY <1>3 DEF OS
<1>7. d \in OS
  BY <1>3, <1>5 DEF OS
<1> HIDE DEF d
<1>8. /\ d.table[e] = TRUE /\ d.ptes[e] = ext /\ d.map[e] = o
      /\ \A w \in Window \ {e} : /\ d.table[w] = r.table[w] /\ d.ptes[w] = r.ptes[w]
                                 /\ d.map[w] = r.map[w]
  BY <1>3, <1>4, <1>6 DEF OS
<1>9. SlotsNameSurfaces(d) /\ Writers(d)
  BY <1>3, <1>6 DEF SlotsNameSurfaces, Writers
<1>10. Arena(d)
  BY <1>3, <1>6, SameArena
<1>11. Shows(d)
  <2> SUFFICES ASSUME NEW w \in Window
               PROVE  IF d.map[w] = 0 THEN d.ptes[w] = {}
                      ELSE /\ r.obj[d.map[w]].active
                           /\ d.ptes[w] = Extent(r.obj[d.map[w]])
                           /\ d.table[w]
    BY <1>6 DEF Shows
  <2>1. CASE w = e
    <3>1. o # 0
      BY DEF Object
    <3> QED BY <2>1, <3>1, <1>1, <1>8
  <2>2. CASE w # e
    BY <2>2, <1>3, <1>8 DEF Shows
  <2> QED BY <2>1, <2>2
<1>12. FreeHoldsNothing(d)
  <2> SUFFICES ASSUME NEW p \in User, r.proc[p] = "free"
               PROVE  /\ \A s \in Slot : ~r.slot[<<p, s>>].open
                      /\ \A z \in MapSlot : d.map[<<p, z>>] = 0 /\ ~d.table[<<p, z>>]
    BY <1>6 DEF FreeHoldsNothing
  <2>1. p # pid
    BY <1>1 DEF SameTables
  <2>2. \A z \in MapSlot : <<p, z>> \in Window /\ <<p, z>> # e
    BY <2>1 DEF Window, e
  <2> QED BY <2>2, <1>3, <1>8 DEF FreeHoldsNothing
<1>13. Excess(d, None)
  <2> SUFFICES ASSUME NEW q \in Object
               PROVE  d.obj[q].references = Cardinality(HandlesOn(d, q))
                                            + Cardinality(MappingsOn(d, q)) + 0
    BY DEF Excess, None
  <2>1. HandlesOn(d, q) = HandlesOn(r, q) /\ d.obj[q] = r.obj[q]
    BY <1>6 DEF HandlesOn
  <2>2. r.obj[q].references = Cardinality(HandlesOn(r, q)) + Cardinality(MappingsOn(r, q))
                              + One(o)[q]
    BY <1>3 DEF Excess
  <2>3. One(o)[q] = IF q = o THEN 1 ELSE 0
    BY DEF One
  <2>4. IsFiniteSet(MappingsOn(r, q)) /\ Cardinality(MappingsOn(r, q)) \in Nat
        /\ Cardinality(HandlesOn(r, q)) \in Nat
    BY FiniteHolders
  <2>5. q # 0 /\ e \notin MappingsOn(r, q)
    BY <1>4 DEF Object, MappingsOn
  <2>6. CASE q = o
    <3>1. MappingsOn(d, q) = MappingsOn(r, q) \cup {e}
      BY <2>6, <1>4, <1>8 DEF MappingsOn
    <3>2. Cardinality(MappingsOn(d, q)) = Cardinality(MappingsOn(r, q)) + 1
      BY <2>4, <2>5, <3>1, FS_AddElement
    <3> QED BY <2>1, <2>2, <2>3, <2>4, <2>6, <3>2
  <2>7. CASE q # o
    <3>1. MappingsOn(d, q) = MappingsOn(r, q)
      BY <2>5, <2>7, <1>4, <1>8 DEF MappingsOn
    <3> QED BY <2>1, <2>2, <2>3, <2>4, <2>7, <3>1
  <2> QED BY <2>6, <2>7
<1>14. Good(d)
  BY <1>7, <1>9, <1>10, <1>11, <1>12, <1>13 DEF Good, Owes, Tables
<1>15. Stays(k, d) /\ d.slot = k.slot
  BY <1>1, <1>6 DEF Stays, SameTables
<1> QED BY <1>2, <1>14, <1>15

(* A reference that comes to nothing is given back.                        *)
LEMMA TakeBackGood ==
  ASSUME NEW k, NEW r, NEW o \in Object, Owes(r, One(o)), Stays(k, r), SameTables(k, r)
  PROVE  LET d == surface_release(r, o)
         IN  Good(d) /\ Stays(k, d) /\ d.slot = k.slot
<1> DEFINE d == surface_releases(r, One(o))
<1>1. surface_release(r, o) = d
  BY DEF surface_release, One
<1>2. One(o) \in [Object -> Nat]
  BY DEF One
<1>3. Good(d) /\ Fades(r, d) /\ d.slot = r.slot
  BY <1>2, ReleasesGood
<1> HIDE DEF d
<1>4. Stays(k, d)
  <2> SUFFICES ASSUME NEW q \in Object, k.obj[q].active, d.obj[q].active
               PROVE  /\ Extent(d.obj[q]) = Extent(k.obj[q])
                      /\ k.ink \cap Extent(k.obj[q]) \subseteq d.ink
    BY DEF Stays
  <2>1. /\ r.obj[q].active
        /\ Extent(d.obj[q]) = Extent(r.obj[q])
        /\ r.ink \cap Extent(r.obj[q]) \subseteq d.ink
    BY <1>3 DEF Fades
  <2>2. /\ Extent(r.obj[q]) = Extent(k.obj[q])
        /\ k.ink \cap Extent(k.obj[q]) \subseteq r.ink
    BY <2>1 DEF Stays
  <2> QED BY <2>1, <2>2
<1> QED BY <1>1, <1>3, <1>4 DEF SameTables

-----------------------------------------------------------------------------
(* Drawing and damage.                                                     *)

(* A surface handle that resolves names an active surface.                 *)
LEMMA ResolvedIsActive ==
  ASSUME NEW k, Good(k), NEW pid \in User, NEW h \in Handle,
         NEW kinds \in SUBSET Readable, capability_resolve(k, pid, h, kinds)
  PROVE  ObjectOf(k, h) \in Object /\ k.obj[ObjectOf(k, h)].active
<1> DEFINE c == <<pid, h.slot>>
           o == k.slot[c].obj
<1>1. c \in Cell /\ ObjectOf(k, h) = o
  BY DEF Handle, Cell, capability_resolve, ObjectOf
<1>2. k.slot[c].kind \in Readable
  BY DEF capability_resolve
<1>3. k.slot[c] \in Entry /\ o # 0
  BY <1>1, <1>2 DEF Good, Owes, Tables, OS, SlotsNameSurfaces
<1>4. o \in Object
  BY <1>3, SurfaceConstants DEF Entry, Object
<1>5. k.obj[o].references = Cardinality(HandlesOn(k, o)) + Cardinality(MappingsOn(k, o)) + 0
  BY <1>4 DEF Good, Owes, Excess, None
<1>6. Cardinality(HandlesOn(k, o)) > 0
  BY <1>1, HolderCounts
<1>7. k.obj[o].references > 0
  BY <1>5, <1>6, FiniteHolders
<1>8. k.obj[o].active
  BY <1>4, <1>7 DEF Good, Owes, Arena, Cleared
<1> QED BY <1>1, <1>4, <1>8

LEMMA WriteGood ==
  ASSUME NEW k, Good(k), NEW o \in Object, k.obj[o].active, NEW x \in Extent(k.obj[o])
  PROVE  LET d == surface_write(k, o, x)
         IN  Good(d) /\ Stays(k, d) /\ d.slot = k.slot
<1> DEFINE d == surface_write(k, o, x)
<1>1. /\ k \in OS /\ SlotsNameSurfaces(k) /\ Writers(k) /\ Cleared(k) /\ Apart(k) /\ Clean(k)
      /\ FreeHoldsNothing(k) /\ Shows(k) /\ Excess(k, None)
  BY DEF Good, Owes, Tables, Arena
<1>2. d.ink = k.ink \cup {x} /\ d.obj = k.obj /\ SameTables(k, d)
  BY <1>1 DEF OS, surface_write, SameTables
<1>3. d \in OS
  BY <1>1 DEF OS, surface_write, Extent
<1> HIDE DEF d
<1>4. SlotsNameSurfaces(d) /\ Writers(d)
  BY <1>1, <1>2 DEF SlotsNameSurfaces, Writers, SameTables
<1>5. Cleared(d) /\ Apart(d)
  BY <1>1, <1>2 DEF Cleared, Apart
<1>6. Clean(d)
  BY <1>1, <1>2 DEF Clean, Inactive
<1>7. FreeHoldsNothing(d)
  BY <1>1, <1>2 DEF FreeHoldsNothing, SameTables
<1>8. Shows(d)
  BY <1>1, <1>2 DEF Shows, SameTables
<1>9. Excess(d, None)
  BY <1>1, <1>2 DEF Excess, HandlesOn, MappingsOn, SameTables
<1>10. Stays(k, d)
  BY <1>2 DEF Stays
<1> QED BY <1>2, <1>3, <1>4, <1>5, <1>6, <1>7, <1>8, <1>9, <1>10
        DEF d, Good, Owes, Tables, Arena, SameTables

(* Damage is pending on a surface, and is no part of the books.            *)
LEMMA DamageGood ==
  ASSUME NEW k, Good(k), NEW o \in Object, k.obj[o].active, NEW reach \in Nat
  PROVE  LET d == [k EXCEPT !.obj[o].damage = reach]
         IN  Good(d) /\ Stays(k, d) /\ d.slot = k.slot
<1> DEFINE f == [k.obj EXCEPT ![o] = [k.obj[o] EXCEPT !.damage = reach]]
           d == [k EXCEPT !.obj[o].damage = reach]
<1>1. /\ k \in OS /\ SlotsNameSurfaces(k) /\ Writers(k) /\ Cleared(k) /\ Apart(k) /\ Clean(k)
      /\ FreeHoldsNothing(k) /\ Shows(k) /\ Excess(k, None)
  BY DEF Good, Owes, Tables, Arena
<1>2. k.obj \in [Object -> SurfaceObject]
  BY <1>1 DEF OS
<1>3. f \in [Object -> SurfaceObject]
  BY <1>2 DEF SurfaceObject
<1>4. /\ \A q \in Object : /\ f[q].active = k.obj[q].active /\ f[q].offset = k.obj[q].offset
                           /\ f[q].pages = k.obj[q].pages
                           /\ f[q].references = k.obj[q].references
      /\ \A q \in Object \ {o} : f[q] = k.obj[q]
  BY <1>2 DEF SurfaceObject
<1>5. d = [k EXCEPT !.obj = f]
  BY <1>1 DEF OS
<1> HIDE DEF f, d
<1>6. d \in OS /\ d.obj = f /\ d.ink = k.ink /\ SameTables(k, d)
  BY <1>1, <1>3, <1>5, SetObj DEF SameTables
<1>7. \A q \in Object : Extent(f[q]) = Extent(k.obj[q])
  BY <1>4 DEF Extent
<1>8. SlotsNameSurfaces(d) /\ Writers(d)
  BY <1>1, <1>6 DEF SlotsNameSurfaces, Writers, SameTables
<1>9. Cleared(d)
  BY <1>1, <1>4, <1>6 DEF Cleared
<1>10. Apart(d)
  BY <1>1, <1>4, <1>6, <1>7 DEF Apart
<1>11. Clean(d)
  <2> SUFFICES ASSUME NEW x \in k.ink
               PROVE  \E q \in Object : f[q].active /\ x \in Extent(f[q])
    BY <1>6 DEF Clean, Inactive
  <2>1. PICK q \in Object : k.obj[q].active /\ x \in Extent(k.obj[q])
    BY <1>1 DEF Clean, Inactive
  <2> QED BY <2>1, <1>4, <1>7
<1>12. FreeHoldsNothing(d)
  BY <1>1, <1>6 DEF FreeHoldsNothing, SameTables
<1>13. Shows(d)
  <2> SUFFICES ASSUME NEW w \in Window
               PROVE  IF k.map[w] = 0 THEN k.ptes[w] = {}
                      ELSE /\ f[k.map[w]].active
                           /\ k.ptes[w] = Extent(f[k.map[w]])
                           /\ k.table[w]
    BY <1>6 DEF Shows, SameTables
  <2>1. k.map[w] # 0 => k.map[w] \in Object
    BY <1>1, SurfaceConstants DEF OS, Object
  <2> QED BY <2>1, <1>1, <1>4, <1>7 DEF Shows
<1>14. Excess(d, None)
  <2>1. \A q \in Object : HandlesOn(d, q) = HandlesOn(k, q) /\ MappingsOn(d, q) = MappingsOn(k, q)
    BY <1>6 DEF HandlesOn, MappingsOn, SameTables
  <2> QED BY <2>1, <1>1, <1>4, <1>6 DEF Excess
<1>15. Stays(k, d)
  BY <1>6, <1>7 DEF Stays
<1>16. Good(d)
  BY <1>6, <1>8, <1>9, <1>10, <1>11, <1>12, <1>13, <1>14 DEF Good, Owes, Tables, Arena
<1> QED BY <1>6, <1>15, <1>16 DEF d, SameTables

-----------------------------------------------------------------------------
(* Every step.                                                             *)

(* d keeps the books of k, its live pixels and all generations.            *)
Quiet(k, d) == Good(d) /\ Stays(k, d) /\ \A c \in Cell : d.slot[c].gen = k.slot[c].gen

(* What a step does: a quiet one leaves kept alone, a release counts the   *)
(* generations it closes.                                                  *)
Effect ==
  \/ Quiet(os, os') /\ kept' = kept
  \/ Releases(os, os') /\ Remember(os')

LEMMA ReleaseIsQuiet ==
  ASSUME NEW k, NEW d, Releases(k, d), d.slot = k.slot
  PROVE  Quiet(k, d)
BY DEF Releases, Quiet, Fades, Stays

LEMMA SpawnEffect ==
  ASSUME Good(os), NEW p \in User, NEW granted \in BOOLEAN, Spawn(p, granted)
  PROVE  Effect
<1> DEFINE d == [os EXCEPT !.proc[p] = "live", !.svc[p] = granted]
<1>1. os \in OS
  BY DEF Good, Owes, Tables
<1>2. os' = d /\ kept' = kept
  BY DEF Spawn, Step
<1>3. d \in OS /\ \A q \in User : d.proc[q] = IF q = p THEN "live" ELSE os.proc[q]
  BY <1>1 DEF OS
<1>4. /\ d.slot = os.slot /\ d.obj = os.obj /\ d.ink = os.ink
      /\ d.map = os.map /\ d.table = os.table /\ d.ptes = os.ptes
  BY <1>1 DEF OS
<1> HIDE DEF d
<1>5. Releases(os, d)
  BY <1>3, <1>4, Unrelated
<1> QED BY <1>2, <1>4, <1>5, ReleaseIsQuiet DEF Effect

LEMMA SubmitFrameEffect ==
  ASSUME Good(os), NEW p \in User, NEW h \in Handle, SubmitFrame(p, h)
  PROVE  Effect
<1> DEFINE d == [os EXCEPT !.shown = p]
<1>1. os \in OS
  BY DEF Good, Owes, Tables
<1>2. os' = d /\ kept' = kept
  BY DEF SubmitFrame, Step
<1>3. p \in 0 .. ProcessLimit - 1
  BY SurfaceConstants DEF User
<1>4. d \in OS
  BY <1>1, <1>3 DEF OS
<1>5. /\ d.slot = os.slot /\ d.obj = os.obj /\ d.ink = os.ink /\ d.proc = os.proc
      /\ d.map = os.map /\ d.table = os.table /\ d.ptes = os.ptes
  BY <1>1 DEF OS
<1> HIDE DEF d
<1>6. Releases(os, d)
  BY <1>4, <1>5, Unrelated
<1> QED BY <1>2, <1>5, <1>6, ReleaseIsQuiet DEF Effect

LEMMA OpenServiceEffect ==
  ASSUME Good(os), NEW p \in User, NEW s \in Slot, NEW kind \in Services,
         OpenService(p, s, kind)
  PROVE  Effect
<1> DEFINE d == allocate_slot(os, p, s, kind, 0)
<1>1. os' = d /\ kept' = kept /\ os.proc[p] = "live" /\ s \in Vacant(os, p)
  BY DEF OpenService, Step, First
<1>2. One(0) = None
  BY DEF One, None, Object
<1>3. kind \in Kind \ {"none"} /\ kind \notin Readable
  BY SurfaceServices DEF Kind, Readable
<1>4. 0 \in 0 .. SurfaceLimit
  BY SurfaceConstants
<1>5. Owes(os, One(0)) /\ kind # "write" /\ os.proc[p] # "free"
  BY <1>1, <1>2, <1>3 DEF Good, Readable
<1>6. Good(d) /\ d.obj = os.obj /\ d.ink = os.ink /\ \A c \in Cell : d.slot[c].gen = os.slot[c].gen
  BY <1>1, <1>3, <1>4, <1>5, AllocateGood
<1> HIDE DEF d
<1>7. Stays(os, d)
  BY <1>6 DEF Stays
<1> QED BY <1>1, <1>6, <1>7 DEF Effect, Quiet

LEMMA CloseEffect ==
  ASSUME Good(os), NEW p \in User, NEW h \in Handle, Close(p, h)
  PROVE  Effect
<1>1. {<<p, h.slot>>} \in SUBSET Cell
  BY DEF Handle, Cell
<1>2. Releases(os, capability_close(os, p, h.slot))
  BY <1>1, ReleaseSlotsGood DEF capability_close
<1> QED BY <1>2 DEF Close, Closing, Effect

LEMMA CreateSurfaceEffect ==
  ASSUME Good(os), NEW p \in User, NEW h \in Handle, NEW o \in Object, NEW x \in Page,
         NEW n \in Sizes, NEW s \in Slot, CreateSurface(p, h, o, x, n, s)
  PROVE  Effect
<1> DEFINE r == surface_retain(surface_create(os, o, x, n), o)
           d == allocate_slot(r, p, s, "write", o)
<1>1. /\ os' = d /\ kept' = kept /\ os.proc[p] = "live" /\ s \in Vacant(os, p)
      /\ o \in Inactive(os) /\ x \in Fits(os, n)
  BY DEF CreateSurface, AddHandle, Step, First
<1>2. n \in Nat \ {0}
  BY SurfaceConstants
<1>3. /\ Owes(r, One(o)) /\ Stays(os, r) /\ SameTables(os, r)
      /\ \A c \in Cell : r.slot[c].obj # o
  BY <1>1, <1>2, CreateOwes
<1> HIDE DEF r
<1>4. s \in Vacant(r, p) /\ r.proc[p] # "free"
  BY <1>1, <1>3 DEF Vacant, SameTables
<1>5. "write" \in Kind \ {"none"} /\ "write" \in Readable
  BY DEF Kind, Readable
<1>6. o \in 0 .. SurfaceLimit /\ o # 0
  BY SurfaceConstants DEF Object
<1>7. Good(d) /\ d.obj = r.obj /\ d.ink = r.ink /\ \A c \in Cell : d.slot[c].gen = r.slot[c].gen
  BY <1>3, <1>4, <1>5, <1>6, AllocateGood
<1> HIDE DEF d
<1>8. Stays(os, d) /\ \A c \in Cell : d.slot[c].gen = os.slot[c].gen
  BY <1>3, <1>7 DEF Stays, SameTables
<1> QED BY <1>1, <1>7, <1>8 DEF Effect, Quiet

LEMMA CreateSurfaceFailsEffect ==
  ASSUME Good(os), NEW p \in User, NEW h \in Handle, NEW o \in Object, NEW x \in Page,
         NEW n \in Sizes, CreateSurfaceFails(p, h, o, x, n)
  PROVE  Effect
<1> DEFINE r == surface_retain(surface_create(os, o, x, n), o)
           d == surface_release(r, o)
<1>1. /\ os' = surface_discard(d, o) /\ kept' = kept
      /\ o \in Inactive(os) /\ x \in Fits(os, n)
  BY DEF CreateSurfaceFails, AddHandleFails, Step, First
<1>2. n \in Nat \ {0}
  BY SurfaceConstants
<1>3. Owes(r, One(o)) /\ Stays(os, r) /\ SameTables(os, r)
  BY <1>1, <1>2, CreateOwes
<1> HIDE DEF r
<1>4. Good(d) /\ Stays(os, d) /\ d.slot = os.slot
  BY <1>3, TakeBackGood
<1> HIDE DEF d
<1>5. d.obj[o].active => d.obj[o].references # 0
  BY <1>4 DEF Good, Owes, Arena, Cleared
<1>6. surface_discard(d, o) = d
  BY <1>5 DEF surface_discard
<1> QED BY <1>1, <1>4, <1>6 DEF Effect, Quiet

LEMMA ShareSurfaceEffect ==
  ASSUME Good(os), NEW p \in User, NEW h \in Handle, NEW target \in User, NEW s \in Slot,
         ShareSurface(p, h, target, s)
  PROVE  Effect
<1> DEFINE o == ObjectOf(os, h)
           r == surface_retain(os, o)
           d == allocate_slot(r, target, s, "read", o)
<1>1. /\ os' = d /\ kept' = kept /\ os.proc[target] # "free" /\ s \in Vacant(os, target)
      /\ capability_resolve(os, p, h, Readable)
  BY DEF ShareSurface, AddHandle, GrantedKind, Step, First
<1>2. o \in Object /\ os.obj[o].active
  BY <1>1, ResolvedIsActive
<1> HIDE DEF o
<1>3. Owes(r, One(o)) /\ Stays(os, r) /\ SameTables(os, r)
  BY <1>2, RetainOwes
<1> HIDE DEF r
<1>4. s \in Vacant(r, target) /\ r.proc[target] # "free"
  BY <1>1, <1>3 DEF Vacant, SameTables
<1>5. "read" \in Kind \ {"none"} /\ "read" \in Readable
  BY DEF Kind, Readable
<1>6. o \in 0 .. SurfaceLimit /\ o # 0
  BY <1>2, SurfaceConstants DEF Object
<1>7. Good(d) /\ d.obj = r.obj /\ d.ink = r.ink /\ \A c \in Cell : d.slot[c].gen = r.slot[c].gen
  BY <1>3, <1>4, <1>5, <1>6, AllocateGood
<1> HIDE DEF d
<1>8. Stays(os, d) /\ \A c \in Cell : d.slot[c].gen = os.slot[c].gen
  BY <1>3, <1>7 DEF Stays, SameTables
<1> QED BY <1>1, <1>7, <1>8 DEF Effect, Quiet

(* A share that finds the target's table full, and a mapping that finds no *)
(* frame, give the reference back.                                         *)
LEMMA GivenBackEffect ==
  ASSUME Good(os), NEW p \in User, NEW h \in Handle, capability_resolve(os, p, h, Readable),
         Step(surface_release(surface_retain(os, ObjectOf(os, h)), ObjectOf(os, h)))
  PROVE  Effect
<1> DEFINE o == ObjectOf(os, h)
           r == surface_retain(os, o)
           d == surface_release(r, o)
<1>1. o \in Object /\ os.obj[o].active
  BY ResolvedIsActive
<1>2. os' = d /\ kept' = kept
  BY DEF Step
<1> HIDE DEF o
<1>3. Owes(r, One(o)) /\ Stays(os, r) /\ SameTables(os, r)
  BY <1>1, RetainOwes
<1> HIDE DEF r
<1>4. Good(d) /\ Stays(os, d) /\ d.slot = os.slot
  BY <1>1, <1>3, TakeBackGood
<1> HIDE DEF d
<1> QED BY <1>2, <1>4 DEF Effect, Quiet

LEMMA MapSurfaceEffect ==
  ASSUME Good(os), NEW p \in User, NEW h \in Handle, NEW m \in MapSlot, MapSurface(p, h, m)
  PROVE  Effect
<1> DEFINE o == ObjectOf(os, h)
           d == map_surface_readonly(os, p, o, m)
<1>1. /\ os' = d /\ kept' = kept /\ os.proc[p] # "free" /\ m \in NoMapping(os, p)
      /\ capability_resolve(os, p, h, Readable)
  BY DEF MapSurface, Step, First
<1>2. o \in Object /\ os.obj[o].active
  BY <1>1, ResolvedIsActive
<1> HIDE DEF o
<1>3. Good(d) /\ Stays(os, d) /\ d.slot = os.slot
  BY <1>1, <1>2, MapGood
<1> QED BY <1>1, <1>3 DEF Effect, Quiet

LEMMA UnmapSurfaceEffect ==
  ASSUME Good(os), NEW p \in User, NEW h \in Handle, NEW m \in MapSlot, UnmapSurface(p, h, m)
  PROVE  Effect
<1> DEFINE d == ReleaseWindows(os, {<<p, m>>})
<1>1. {<<p, m>>} \in SUBSET Window
  BY DEF Window
<1>2. Releases(os, d) /\ d.slot = os.slot
  BY <1>1, ReleaseWindowsGood
<1>3. os' = d /\ kept' = kept
  BY DEF UnmapSurface, Step, unmap_surface_id
<1> QED BY <1>2, <1>3, ReleaseIsQuiet DEF Effect

LEMMA DrawEffect ==
  ASSUME Good(os), NEW p \in User, NEW h \in Handle,
         \/ \E x \in Page : WriteSurface(p, h, x)
         \/ \E reach \in Reaches : DamageSurface(p, h, reach)
         \/ TakeDamage(p, h)
  PROVE  Effect
<1> DEFINE o == ObjectOf(os, h)
<1>1. kept' = kept /\ o \in Object /\ os.obj[o].active
  <2>1. kept' = kept /\ \E kinds \in SUBSET Readable : capability_resolve(os, p, h, kinds)
    <3>1. Writable \in SUBSET Readable
      BY DEF Writable, Readable
    <3> QED BY <3>1 DEF WriteSurface, DamageSurface, TakeDamage, Step
  <2> QED BY <2>1, ResolvedIsActive
<1>2. ASSUME NEW x \in Page, WriteSurface(p, h, x)
      PROVE  Quiet(os, os')
  <2>1. x \in Extent(os.obj[o]) /\ os' = surface_write(os, o, x)
    BY <1>2 DEF WriteSurface, Step
  <2> HIDE DEF o
  <2> QED BY <1>1, <2>1, WriteGood DEF Quiet
<1>3. ASSUME NEW reach \in Nat, os' = [os EXCEPT !.obj[o].damage = reach]
      PROVE  Quiet(os, os')
  <2> HIDE DEF o
  <2> QED BY <1>1, <1>3, DamageGood DEF Quiet
<1>4. ASSUME NEW reach \in Reaches, DamageSurface(p, h, reach)
      PROVE  Quiet(os, os')
  <2> DEFINE far == IF reach <= os.obj[o].pages THEN reach ELSE os.obj[o].damage
  <2>1. os.obj[o] \in SurfaceObject
    BY <1>1 DEF Good, Owes, Tables, OS
  <2>2. far \in Nat
    BY <2>1, SurfaceConstants DEF SurfaceObject
  <2>3. os' = [os EXCEPT !.obj[o].damage = far]
    BY <1>4 DEF DamageSurface, Step, surface_damage
  <2> QED BY <2>2, <2>3, <1>3
<1>5. ASSUME TakeDamage(p, h)
      PROVE  Quiet(os, os')
  BY <1>3, <1>5 DEF TakeDamage, Step, surface_take_damage
<1> QED BY <1>1, <1>2, <1>4, <1>5 DEF Effect

LEMMA ExitEffect ==
  ASSUME Good(os), NEW p \in User, NEW awaited \in BOOLEAN, Exit(p, awaited)
  PROVE  Effect
<1> DEFINE b == [os EXCEPT !.shown = IF @ = p THEN 0 ELSE @]
           c == capabilities_close_all(b, p)
           d == EndProcess(c, p, awaited)
<1>1. os \in OS
  BY DEF Good, Owes, Tables
<1>2. b \in OS
  BY <1>1, SurfaceConstants DEF OS
<1>3. /\ b.slot = os.slot /\ b.obj = os.obj /\ b.ink = os.ink /\ b.proc = os.proc
      /\ b.map = os.map /\ b.table = os.table /\ b.ptes = os.ptes
  BY <1>1 DEF OS
<1>4. os' = d /\ Remember(d)
  BY DEF Exit, Closing
<1> HIDE DEF b
<1>5. Releases(os, b) /\ Good(b)
  BY <1>2, <1>3, Unrelated DEF Releases
<1>6. Releases(b, c) /\ Good(c)
  BY <1>5, CloseAllGood DEF Releases
<1> HIDE DEF c
<1>7. Releases(c, d)
  BY <1>6, EndGood
<1> HIDE DEF d
<1>8. Releases(os, d)
  <2>1. Releases(os, c)
    BY <1>5, <1>6, ReleasesCompose
  <2> QED BY <2>1, <1>7, ReleasesCompose
<1> QED BY <1>4, <1>8 DEF Effect

LEMMA TerminateEffect ==
  ASSUME Good(os), NEW p \in User, NEW target \in User, NEW awaited \in BOOLEAN,
         Terminate(p, target, awaited)
  PROVE  Effect
<1> DEFINE c == capabilities_close_all(os, target)
           d == EndProcess(c, target, awaited)
<1>1. \E k \in {c, d} : os' = k /\ Remember(k)
  BY DEF Terminate, Closing
<1>2. Releases(os, c) /\ Good(c)
  BY CloseAllGood DEF Releases
<1> HIDE DEF c
<1>3. Releases(c, d)
  BY <1>2, EndGood
<1> HIDE DEF d
<1>4. Releases(os, d)
  BY <1>2, <1>3, ReleasesCompose
<1> QED BY <1>1, <1>2, <1>4 DEF Effect

LEMMA KillEffect ==
  ASSUME Good(os), NEW p \in User, NEW awaited \in BOOLEAN, Kill(p, awaited)
  PROVE  Effect
BY EndGood DEF Kill, Closing, Effect

LEMMA ReapEffect ==
  ASSUME Good(os), NEW p \in User, Reap(p)
  PROVE  Effect
BY TeardownGood DEF Reap, Closing, Effect

LEMMA NextEffect ==
  ASSUME Good(os), Next
  PROVE  Effect
<1>1. PICK p \in User :
    \/ \E granted \in BOOLEAN : Spawn(p, granted)
    \/ \E s \in Slot, kind \in Services : OpenService(p, s, kind)
    \/ \E awaited \in BOOLEAN : Exit(p, awaited) \/ Kill(p, awaited)
    \/ \E target \in User, awaited \in BOOLEAN : Terminate(p, target, awaited)
    \/ Reap(p)
    \/ \E h \in Handle :
         \/ Close(p, h)
         \/ \E o \in Object, x \in Page, n \in Sizes :
              \/ CreateSurfaceFails(p, h, o, x, n)
              \/ \E s \in Slot : CreateSurface(p, h, o, x, n, s)
         \/ \E x \in Page : WriteSurface(p, h, x)
         \/ \E target \in User :
              \/ ShareSurfaceFails(p, h, target)
              \/ \E s \in Slot : ShareSurface(p, h, target, s)
         \/ \E m \in MapSlot : \/ MapSurface(p, h, m)
                               \/ MapSurfaceFails(p, h, m)
                               \/ UnmapSurface(p, h, m)
         \/ \E reach \in Reaches : DamageSurface(p, h, reach)
         \/ TakeDamage(p, h)
         \/ SubmitFrame(p, h)
  BY DEF Next
<1>2. CASE \E granted \in BOOLEAN : Spawn(p, granted)
  BY <1>2, SpawnEffect
<1>3. CASE \E s \in Slot, kind \in Services : OpenService(p, s, kind)
  BY <1>3, OpenServiceEffect
<1>4. CASE \E awaited \in BOOLEAN : Exit(p, awaited) \/ Kill(p, awaited)
  BY <1>4, ExitEffect, KillEffect
<1>5. CASE \E target \in User, awaited \in BOOLEAN : Terminate(p, target, awaited)
  BY <1>5, TerminateEffect
<1>6. CASE Reap(p)
  BY <1>6, ReapEffect
<1>7. ASSUME NEW h \in Handle, Close(p, h)
      PROVE  Effect
  BY <1>7, CloseEffect
<1>8. ASSUME NEW h \in Handle, NEW o \in Object, NEW x \in Page, NEW n \in Sizes,
             \/ CreateSurfaceFails(p, h, o, x, n)
             \/ \E s \in Slot : CreateSurface(p, h, o, x, n, s)
      PROVE  Effect
  BY <1>8, CreateSurfaceEffect, CreateSurfaceFailsEffect
<1>9. ASSUME NEW h \in Handle, NEW target \in User,
             \/ ShareSurfaceFails(p, h, target)
             \/ \E s \in Slot : ShareSurface(p, h, target, s)
      PROVE  Effect
  <2>1. CASE ShareSurfaceFails(p, h, target)
    BY <2>1, GivenBackEffect DEF ShareSurfaceFails, AddHandleFails
  <2> QED BY <2>1, <1>9, ShareSurfaceEffect
<1>10. ASSUME NEW h \in Handle, NEW m \in MapSlot,
              MapSurface(p, h, m) \/ MapSurfaceFails(p, h, m) \/ UnmapSurface(p, h, m)
       PROVE  Effect
  <2>1. CASE MapSurfaceFails(p, h, m)
    BY <2>1, GivenBackEffect DEF MapSurfaceFails
  <2> QED BY <2>1, <1>10, MapSurfaceEffect, UnmapSurfaceEffect
<1>11. ASSUME NEW h \in Handle,
              \/ \E x \in Page : WriteSurface(p, h, x)
              \/ \E reach \in Reaches : DamageSurface(p, h, reach)
              \/ TakeDamage(p, h)
       PROVE  Effect
  BY <1>11, DrawEffect
<1>12. ASSUME NEW h \in Handle, SubmitFrame(p, h)
       PROVE  Effect
  BY <1>12, SubmitFrameEffect
<1> QED BY <1>1, <1>2, <1>3, <1>4, <1>5, <1>6, <1>7, <1>8, <1>9, <1>10, <1>11, <1>12

-----------------------------------------------------------------------------
(* The remembered handle.                                                  *)

(* The slot of the remembered handle has moved on by as many generations   *)
(* as kept.age counts, wrapped around at most once.                        *)
KeptApart ==
  kept # NoHandle =>
    /\ kept \in Kept
    /\ LET g == os.slot[<<kept.pid, kept.slot>>].gen
       IN  \/ g = kept.gen + kept.age
           \/ g = kept.gen + kept.age - (Generations - 1)

LEMMA KeptStep ==
  ASSUME Good(os), Effect, KeptApart
  PROVE  KeptApart'
<1> USE SurfaceConstants
<1>1. \A c \in Cell : os.slot[c].gen \in 1 .. Generations - 1
  BY DEF Good, Owes, Tables, OS, Entry
<1>2. NoHandle \notin Kept
  BY DEF NoHandle, Kept, User
<1>3. CASE Quiet(os, os') /\ kept' = kept
  <2>1. kept \in Kept => <<kept.pid, kept.slot>> \in Cell
    BY DEF Kept, Cell
  <2> QED BY <1>3, <2>1 DEF Quiet, KeptApart
<1>4. CASE Releases(os, os') /\ Remember(os')
  <2>1. \A c \in Cell : os'.slot[c].gen = IF ClosedBy(os', c) THEN NextGeneration(os.slot[c].gen)
                                          ELSE os.slot[c].gen
    BY <1>4 DEF Releases, Closes, ClosedBy
  <2>2. CASE kept # NoHandle
    <3> DEFINE c == <<kept.pid, kept.slot>>
    <3>1. /\ kept \in Kept /\ c \in Cell
          /\ \/ os.slot[c].gen = kept.gen + kept.age
             \/ os.slot[c].gen = kept.gen + kept.age - (Generations - 1)
      BY <2>2 DEF KeptApart, Kept, Cell
    <3>2. kept.gen \in 1 .. Generations - 1 /\ kept.age \in 1 .. Generations - 2
      BY <3>1 DEF Kept
    <3>3. kept' = IF ~ClosedBy(os', c) THEN kept
                  ELSE IF kept.age + 1 = Generations - 1 THEN NoHandle
                  ELSE [kept EXCEPT !.age = @ + 1]
      BY <1>4, <2>2 DEF Remember, Older
    <3>4. CASE ~ClosedBy(os', c)
      BY <3>1, <3>3, <3>4, <2>1 DEF KeptApart
    <3>5. CASE ClosedBy(os', c) /\ kept.age + 1 = Generations - 1
      BY <3>3, <3>5 DEF KeptApart
    <3>6. CASE ClosedBy(os', c) /\ kept.age + 1 # Generations - 1
      <4> DEFINE r == [kept EXCEPT !.age = @ + 1]
      <4>1. kept' = r
        BY <3>3, <3>6
      <4>2. r \in Kept /\ r.pid = kept.pid /\ r.slot = kept.slot /\ r.gen = kept.gen
            /\ r.age = kept.age + 1
        BY <3>1, <3>2, <3>6 DEF Kept
      <4> HIDE DEF r
      <4>3. os'.slot[c].gen = NextGeneration(os.slot[c].gen)
        BY <3>1, <3>6, <2>1
      <4>4. \/ os'.slot[c].gen = r.gen + r.age
            \/ os'.slot[c].gen = r.gen + r.age - (Generations - 1)
        <5>1. os.slot[c].gen \in 1 .. Generations - 1
          BY <3>1, <1>1
        <5> HIDE DEF c
        <5> QED BY <5>1, <3>1, <3>2, <4>2, <4>3 DEF NextGeneration
      <4> QED BY <4>1, <4>2, <4>4 DEF KeptApart
    <3> QED BY <3>4, <3>5, <3>6
  <2>3. CASE kept = NoHandle /\ kept' = kept
    BY <2>3 DEF KeptApart
  <2>4. CASE kept = NoHandle /\ kept' # kept
    <3>1. Generations > 2
      BY <1>4, <2>4 DEF Remember
    <3>2. PICK c \in Cell :
            /\ ClosedBy(os', c)
            /\ kept' = [pid |-> c[1], slot |-> c[2], gen |-> os.slot[c].gen, age |-> 1]
      BY <1>4, <2>4 DEF Remember
    <3>3. c[1] \in User /\ c[2] \in Slot /\ c = <<c[1], c[2]>>
      BY DEF Cell
    <3>4. kept' \in Kept /\ <<kept'.pid, kept'.slot>> = c
          /\ kept'.gen = os.slot[c].gen /\ kept'.age = 1
      BY <3>1, <3>2, <3>3, <1>1 DEF Kept
    <3>5. os'.slot[c].gen = NextGeneration(kept'.gen) /\ kept'.gen \in 1 .. Generations - 1
      BY <3>2, <3>4, <2>1, <1>1
    <3>6. \/ os'.slot[c].gen = kept'.gen + kept'.age
          \/ os'.slot[c].gen = kept'.gen + kept'.age - (Generations - 1)
      BY <3>4, <3>5 DEF NextGeneration
    <3> QED BY <3>4, <3>6 DEF KeptApart
  <2> QED BY <2>2, <2>3, <2>4
<1> QED BY <1>3, <1>4 DEF Effect

-----------------------------------------------------------------------------
(* The invariant.                                                          *)

Books == Good(os) /\ KeptApart

LEMMA InitBooks == Init => Books
<1> SUFFICES ASSUME Init PROVE Books
  OBVIOUS
<1> USE SurfaceConstants
<1>1. /\ os.proc = [p \in User |-> "free"] /\ os.svc = [p \in User |-> FALSE]
      /\ os.slot = [c \in Cell |-> EmptyEntry] /\ os.obj = [o \in Object |-> NoSurface]
      /\ os.ink = {} /\ os.map = [w \in Window |-> 0] /\ os.table = [w \in Window |-> FALSE]
      /\ os.ptes = [w \in Window |-> {}] /\ os.shown = 0
  BY DEF Init
<1>2. EmptyEntry \in Entry /\ NoSurface \in SurfaceObject
  BY DEF EmptyEntry, Entry, Kind, NoSurface, SurfaceObject
<1>3. 0 \in 0 .. ProcessLimit - 1
  OBVIOUS
<1>4. os \in OS
  BY <1>2, <1>3 DEF Init, OS
<1>5. SlotsNameSurfaces(os) /\ Writers(os)
  BY <1>1 DEF SlotsNameSurfaces, Writers, EmptyEntry, Readable
<1>6. Arena(os)
  BY <1>1 DEF Arena, Cleared, Apart, Clean, NoSurface
<1>7. FreeHoldsNothing(os)
  BY <1>1 DEF FreeHoldsNothing, EmptyEntry, Cell, Window
<1>8. Shows(os)
  BY <1>1 DEF Shows
<1>9. Excess(os, None)
  <2> SUFFICES ASSUME NEW o \in Object
               PROVE  0 = Cardinality(HandlesOn(os, o)) + Cardinality(MappingsOn(os, o)) + 0
    BY <1>1 DEF Excess, None, NoSurface
  <2>1. HandlesOn(os, o) = {} /\ MappingsOn(os, o) = {}
    BY <1>1 DEF HandlesOn, MappingsOn, EmptyEntry, Object
  <2> QED BY <2>1, FS_EmptySet
<1>10. KeptApart
  BY DEF Init, KeptApart
<1> QED BY <1>4, <1>5, <1>6, <1>7, <1>8, <1>9, <1>10 DEF Books, Good, Owes, Tables

LEMMA NextBooks == Books /\ [Next]_vars => Books'
<1> SUFFICES ASSUME Books, [Next]_vars PROVE Books'
  OBVIOUS
<1>1. CASE Next
  <2>1. Effect
    BY <1>1, NextEffect DEF Books
  <2>2. Good(os')
    BY <2>1 DEF Effect, Quiet, Releases
  <2> QED BY <2>1, <2>2, KeptStep DEF Books
<1>2. CASE UNCHANGED vars
  BY <1>2 DEF vars, Books, KeptApart
<1> QED BY <1>1, <1>2

(* Every function of src/surface.c, src/capability.cpp and the mappings    *)
(* and teardown of src/arch/x86_64/userspace.c keeps the books: this is    *)
(* the inductive invariant from which the properties below follow.         *)
THEOREM SurfaceBooks == Spec => []Books
BY InitBooks, NextBooks, PTL DEF Spec

(* The tables of src/capability.cpp and src/surface.c keep their types.    *)
THEOREM SurfaceTypes == Spec => []SurfaceTypeOK
<1>1. Books => SurfaceTypeOK
  BY DEF Books, Good, Owes, Tables, KeptApart, SurfaceTypeOK
<1> QED BY <1>1, SurfaceBooks, PTL

(* No order of creating, sharing, mapping, closing, failing, exiting,      *)
(* killing and reaping makes surface_release clear a surface that a handle *)
(* or a mapping still names, or keeps one that nothing names, and a freed  *)
(* process slot holds nothing.                                             *)
THEOREM SurfaceReferences == Spec => []ReferencesAreCounted
<1>1. Books => ReferencesAreCounted
  <2> SUFFICES ASSUME Books PROVE ReferencesAreCounted
    OBVIOUS
  <2>1. ASSUME NEW o \in Object
        PROVE  /\ os.obj[o].references = Cardinality(HandlesOn(os, o))
                                         + Cardinality(MappingsOn(os, o))
               /\ os.obj[o].active <=> os.obj[o].references > 0
    <3>1. os.obj[o].references = Cardinality(HandlesOn(os, o))
                                 + Cardinality(MappingsOn(os, o)) + 0
      BY DEF Books, Good, Owes, Excess, None
    <3>2. Cardinality(HandlesOn(os, o)) \in Nat /\ Cardinality(MappingsOn(os, o)) \in Nat
      BY FiniteHolders
    <3> QED BY <3>1, <3>2 DEF Books, Good, Owes, Arena, Cleared
  <2> QED BY <2>1 DEF Books, Good, Owes, FreeHoldsNothing, ReferencesAreCounted
<1> QED BY <1>1, SurfaceBooks, PTL

(* What map_surface_readonly entered in a process's page table is what the *)
(* surface occupies, as long as the mapping lasts.                         *)
THEOREM SurfaceMappings == Spec => []MappingsShowTheirSurface
<1>1. Books => MappingsShowTheirSurface
  BY DEF Books, Good, Owes, Shows, MappingsShowTheirSurface
<1> QED BY <1>1, SurfaceBooks, PTL

(* First fit in surface_create keeps active surfaces apart and inside the  *)
(* arena, whatever was freed in between.                                   *)
THEOREM SurfaceExtents == Spec => []ExtentsAreDisjoint
<1>1. Books => ExtentsAreDisjoint
  BY DEF Books, Good, Owes, Arena, Apart, ExtentsAreDisjoint
<1> QED BY <1>1, SurfaceBooks, PTL

(* clear_object zeroes all that a surface held before its pages are used   *)
(* again.                                                                  *)
THEOREM SurfaceResidue == Spec => []NoResidue
<1>1. Books => NoResidue
  BY DEF Books, Good, Owes, Arena, Clean, NoResidue
<1> QED BY <1>1, SurfaceBooks, PTL

(* The write right that system call 22 gives to the creator stays in its   *)
(* process, however often system call 24 passes the surface on.            *)
THEOREM SurfaceWriters == Spec => []OneWriter
<1>1. Books => OneWriter
  BY DEF Books, Good, Owes, Tables, Writers, OneWriter
<1> QED BY <1>1, SurfaceBooks, PTL

(* The generation that src/capability.cpp packs into a handle keeps a      *)
(* closed handle dead until its slot was closed a full round of times.     *)
THEOREM SurfaceHandles == Spec => []KeptHandlesAreDead
<1>1. Books => KeptHandlesAreDead
  <2> SUFFICES ASSUME Books, kept # NoHandle
               PROVE  os.slot[<<kept.pid, kept.slot>>].gen # kept.gen
    BY DEF KeptHandlesAreDead, capability_resolve
  <2>1. /\ kept.gen \in 1 .. Generations - 1 /\ kept.age \in 1 .. Generations - 2
        /\ \/ os.slot[<<kept.pid, kept.slot>>].gen = kept.gen + kept.age
           \/ os.slot[<<kept.pid, kept.slot>>].gen = kept.gen + kept.age - (Generations - 1)
    BY DEF Books, KeptApart, Kept
  <2> QED BY <2>1, SurfaceConstants
<1> QED BY <1>1, SurfaceBooks, PTL

(* No step, and least of all the clearing of another surface's extent,     *)
(* moves a surface that stays active or blanks what was drawn on it.       *)
THEOREM SurfacePixels == Spec => LivePixelsStay
<1>1. Books /\ [Next]_vars =>
        [\A o \in Object :
           os.obj[o].active /\ os'.obj[o].active =>
             /\ Extent(os'.obj[o]) = Extent(os.obj[o])
             /\ os.ink \cap Extent(os.obj[o]) \subseteq os'.ink]_vars
  <2> SUFFICES ASSUME Books, Next PROVE Stays(os, os')
    BY DEF Stays
  <2>1. Effect
    BY NextEffect DEF Books
  <2> QED BY <2>1 DEF Effect, Quiet, Releases, Fades, Stays
<1> QED BY <1>1, SurfaceBooks, PTL DEF Spec, LivePixelsStay
=============================================================================
