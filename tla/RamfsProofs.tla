----------------------------- MODULE RamfsProofs -----------------------------
(***************************************************************************)
(* Ramfs implements FileStore, for every table, storage arena and set of   *)
(* names and contents; the installer writes its image exactly (Disk).      *)
(***************************************************************************)
EXTENDS Ramfs, SequenceTheorems, WellFoundedInduction, TLAPS

(***************************************************************************)
(* The inductive invariant.                                                *)
(***************************************************************************)
Contents == Data \cup Modules \cup {<<>>}
File == [name : Names, offset : Nat, capacity : Nat, length : Nat, external : Seq(Nat)]
Table == [Id -> File \cup {Free}]
Arena == [1..Storage -> Nat]
Opens == [Procs -> SUBSET Id]
State == [slot : Table, bytes : Arena, used : 0..Storage, caps : Opens, boot : BOOLEAN]

(* A name has one file.                                                    *)
Named(k) == \A i, j \in Used(k) : k.slot[i].name = k.slot[j].name => i = j

(* A file that was copied in lies in its extent, an extent in the storage  *)
(* handed out, and no two extents share a byte.                            *)
Ends(f) == f.offset + f.capacity
Inside(k) ==
  \A i \in Used(k) :
    /\ Ends(k.slot[i]) <= k.used
    /\ k.slot[i].external = <<>> => k.slot[i].length <= k.slot[i].capacity
Disjoint(k) ==
  \A i, j \in Used(k) :
    \/ i = j \/ k.slot[i].capacity = 0 \/ k.slot[j].capacity = 0
    \/ Ends(k.slot[i]) <= k.slot[j].offset \/ Ends(k.slot[j]) <= k.slot[i].offset

(* What a file holds was written by someone.                               *)
Written(k) == \A i \in Used(k) : Stored(k, k.slot[i]) \in Contents

Good(k) == k \in State /\ Named(k) /\ Inside(k) /\ Disjoint(k) /\ Written(k)

(***************************************************************************)
(* Slots and files.                                                        *)
(***************************************************************************)
(* A set of numbers that is not empty has a least one.                     *)
LEMMA Least ==
  ASSUME NEW T, T \subseteq Nat, T # {}
  PROVE  First(T) \in T
<1>1. \E R : IsWellFoundedOn(R, Nat) /\ \A x, y \in Nat : <<x, y>> \in R <=> x < y
  <2> DEFINE Q == OpToRel(<, Nat)
  <2>1. IsWellFoundedOn(Q, Nat)
    BY NatLessThanWellFounded
  <2>2. \A x, y \in Nat : <<x, y>> \in Q <=> x < y
    BY DEF OpToRel
  <2> HIDE DEF Q
  <2> WITNESS Q
  <2> QED BY <2>1, <2>2
<1>2. PICK R : IsWellFoundedOn(R, Nat) /\ \A x, y \in Nat : <<x, y>> \in R <=> x < y
  BY <1>1
<1>3. IsWellFoundedOn(R, Nat)
  BY <1>2
<1>4. \E x \in T : \A y \in T : ~(<<y, x>> \in R)
  BY <1>3, WFMin, Zenon
<1>5. PICK x \in T : \A y \in T : ~(<<y, x>> \in R)
  BY <1>4
<1>6. \A y \in T : y \in Nat /\ x \in Nat /\ ~(y < x)
  BY <1>2, <1>5
<1>7. \E i \in T : \A j \in T : i <= j
  BY <1>6
<1> QED BY <1>7 DEF First

(* The first of one slot.                                                  *)
LEMMA FirstOfOne == \A i \in Nat : First({i}) = i
BY DEF First

(* The fields of a good state and of a used slot.                          *)
LEMMA Fields ==
  ASSUME RamfsConstants, NEW k, k \in State
  PROVE  /\ k.slot \in Table /\ k.bytes \in Arena /\ k.used \in 0..Storage
         /\ k.caps \in Opens /\ k.boot \in BOOLEAN
         /\ Storage \in Nat /\ Slots \in Nat /\ DataMax \in Nat
         /\ Used(k) \subseteq Id /\ Id \subseteq Nat
         /\ \A i \in Used(k) : k.slot[i] \in File /\ k.slot[i] # Free
         /\ \A i \in Id : k.slot[i] \in File <=> i \in Used(k)
<1>1. k.slot \in Table /\ Used(k) \subseteq Id
  BY DEF State, Used
<1>2. \A f \in File : f # Free
  BY DEF File, Free
<1>3. \A i \in Used(k) : k.slot[i] \in File /\ k.slot[i] # Free
  BY <1>1 DEF Used, Table
<1>4. \A i \in Id : k.slot[i] \in File <=> i \in Used(k)
  BY <1>1, <1>2, <1>3 DEF Used
<1> QED BY <1>1, <1>3, <1>4 DEF RamfsConstants, State, Id

(* Contents are sequences without 0, so Absent is none.                    *)
LEMMA ContentsFacts ==
  ASSUME RamfsConstants
  PROVE  /\ Absent \notin Contents
         /\ \A c \in Contents : c \in Seq(Nat) /\ Len(c) \in Nat /\ c = [n \in 1..Len(c) |-> c[n]]
<1>1. \A c \in Contents : c \in Seq(Nat \ {0})
  <2>1. <<>> \in Seq(Nat \ {0})
    OBVIOUS
  <2>2. Data \subseteq Seq(Nat \ {0}) /\ Modules \subseteq Seq(Nat \ {0})
    BY DEF RamfsConstants
  <2> QED BY <2>1, <2>2 DEF Contents
<1>2. ASSUME NEW c \in Contents PROVE c \in Seq(Nat) /\ Len(c) \in Nat /\ c = [n \in 1..Len(c) |-> c[n]]
  BY <1>1
<1>3. Absent \notin Seq(Nat \ {0})
  <2> SUFFICES ASSUME Absent \in Seq(Nat \ {0}) PROVE FALSE
    OBVIOUS
  <2>1. Len(Absent) = 1 /\ Absent[1] = 0
    BY DEF Absent
  <2>2. Absent[1] \in Nat \ {0}
    BY <2>1
  <2> QED BY <2>1, <2>2
<1> QED BY <1>1, <1>2, <1>3

(* find and what Files shows of a slot and of a name.                      *)
LEMMA Found ==
  ASSUME RamfsConstants, NEW k, Good(k)
  PROVE  /\ \A i \in Used(k) : /\ k.slot[i].name \in Names /\ find(k, k.slot[i].name) = {i}
                               /\ First(find(k, k.slot[i].name)) = i
                               /\ Files(k)[k.slot[i].name] = Stored(k, k.slot[i])
         /\ \A n \in Names : find(k, n) = {} => Files(k)[n] = Absent
         /\ \A n \in Names : find(k, n) # {} => /\ Files(k)[n] \in Contents /\ Files(k)[n] # Absent
                                                /\ First(find(k, n)) \in Used(k)
                                                /\ k.slot[First(find(k, n))].name = n
                                                /\ find(k, n) = {First(find(k, n))}
         /\ DOMAIN Files(k) = Names
<1>1. k \in State /\ Named(k) /\ Written(k)
  BY DEF Good
<1>2. ASSUME NEW i \in Used(k)
      PROVE  /\ k.slot[i].name \in Names /\ find(k, k.slot[i].name) = {i}
             /\ First(find(k, k.slot[i].name)) = i
             /\ Files(k)[k.slot[i].name] = Stored(k, k.slot[i])
  <2>1. k.slot[i] \in File /\ i \in Nat
    BY <1>1, Fields
  <2>2. k.slot[i].name \in Names
    BY <2>1 DEF File
  <2>3. find(k, k.slot[i].name) = {i}
    BY <1>1 DEF find, Named
  <2>4. First({i}) = i
    BY <2>1, FirstOfOne
  <2> QED BY <2>2, <2>3, <2>4 DEF Files
<1>3. \A n \in Names : find(k, n) = {} => Files(k)[n] = Absent
  BY DEF Files
<1>4. ASSUME NEW n \in Names, find(k, n) # {}
      PROVE  /\ Files(k)[n] \in Contents /\ Files(k)[n] # Absent
             /\ First(find(k, n)) \in Used(k) /\ k.slot[First(find(k, n))].name = n
             /\ find(k, n) = {First(find(k, n))}
  <2>1. PICK i \in Used(k) : k.slot[i].name = n
    BY <1>4 DEF find
  <2>2. find(k, n) = {i} /\ First(find(k, n)) = i /\ Files(k)[n] = Stored(k, k.slot[i])
    BY <1>2, <2>1
  <2>3. Stored(k, k.slot[i]) \in Contents
    BY <1>1 DEF Written
  <2> QED BY <2>1, <2>2, <2>3, ContentsFacts
<1>5. DOMAIN Files(k) = Names
  BY DEF Files
<1> QED BY <1>2, <1>3, <1>4, <1>5

(* A name whose file, if any, is in the same slot with the same contents.  *)
LEMMA SameFile ==
  ASSUME RamfsConstants, NEW k, Good(k), NEW d, Good(d), NEW n \in Names,
         \A j \in Used(k) : k.slot[j].name = n =>
           j \in Used(d) /\ d.slot[j].name = n /\ Stored(d, d.slot[j]) = Stored(k, k.slot[j]),
         \A j \in Used(d) : d.slot[j].name = n => j \in Used(k) /\ k.slot[j].name = n
  PROVE  Files(d)[n] = Files(k)[n]
<1>1. CASE find(k, n) = {}
  <2>1. \A j \in Used(k) : k.slot[j].name # n
    BY <1>1 DEF find
  <2>2. find(d, n) = {}
    BY <2>1 DEF find
  <2> QED BY <1>1, <2>2, Found
<1>2. CASE find(k, n) # {}
  <2>1. PICK j \in Used(k) : k.slot[j].name = n
    BY <1>2 DEF find
  <2>2. j \in Used(d) /\ d.slot[j].name = n /\ Stored(d, d.slot[j]) = Stored(k, k.slot[j])
    BY <2>1
  <2>3. Files(k)[n] = Stored(k, k.slot[j])
    BY <2>1, Found
  <2>4. Files(d)[n] = Stored(d, d.slot[j])
    BY <2>2, Found
  <2> QED BY <2>2, <2>3, <2>4
<1> QED BY <1>1, <1>2

Only(k, d, n, c) == Files(d)[n] = c /\ \A l \in Names \ {n} : Files(d)[l] = Files(k)[l]
With(f, n, c) == [f EXCEPT ![n] = c]

(* One file changed.                                                       *)
LEMMA OneChanged ==
  ASSUME NEW k, NEW d, NEW n \in Names, NEW c, Only(k, d, n, c)
  PROVE  Files(d) = With(Files(k), n, c)
<1>1. /\ Files(d) = [l \in Names |-> Files(d)[l]] /\ Files(k) = [l \in Names |-> Files(k)[l]]
  BY DEF Files
<1> DEFINE f == Files(k)
           g == Files(d)
<1> HIDE DEF f, g
<1>2. f = [l \in Names |-> f[l]] /\ g = [l \in Names |-> g[l]]
  BY <1>1 DEF f, g
<1>3. g[n] = c /\ \A l \in Names \ {n} : g[l] = f[l]
  BY DEF f, g, Only
<1>4. g = [f EXCEPT ![n] = c]
  BY <1>2, <1>3
<1> QED BY <1>4 DEF f, g, With

(***************************************************************************)
(* Storing.                                                                *)
(***************************************************************************)
(* The bytes of a file that a store does not touch.                        *)
LEMMA SameStored ==
  ASSUME NEW k, NEW d, NEW f, NEW g, g.external = f.external, g.length = f.length,
         g.offset = f.offset,
         f.external = <<>> => \A n \in 1..f.length : d.bytes[f.offset + n] = k.bytes[f.offset + n]
  PROVE  Stored(d, g) = Stored(k, f)
<1>1. CASE f.external # <<>>
  BY <1>1 DEF Stored
<1>2. CASE f.external = <<>>
  <2>1. Stored(d, g) = [n \in 1..f.length |-> d.bytes[f.offset + n]]
    BY <1>2 DEF Stored
  <2>2. Stored(k, f) = [n \in 1..f.length |-> k.bytes[f.offset + n]]
    BY <1>2 DEF Stored
  <2> QED BY <1>2, <2>1, <2>2
<1> QED BY <1>1, <1>2

(* Slot i becomes the file f.                                              *)
Slotted(k, d, i, f) ==
  /\ d \in State /\ d.slot = [k.slot EXCEPT ![i] = f] /\ d.caps = k.caps /\ d.boot = k.boot

Uses(k, d, i, f) ==
  /\ Used(d) = Used(k) \cup {i} /\ d.slot[i] = f
  /\ \A j \in Id \ {i} : d.slot[j] = k.slot[j]

(* The slots used after slot i becomes the file f.                         *)
LEMMA SlottedUsed ==
  ASSUME RamfsConstants, NEW k, k \in State, NEW d, NEW i \in Id, NEW f \in File, Slotted(k, d, i, f)
  PROVE  Uses(k, d, i, f)
<1>1. k.slot \in Table /\ d.slot \in Table
  BY Fields DEF Slotted
<1>2. d.slot[i] = f /\ \A j \in Id \ {i} : d.slot[j] = k.slot[j]
  BY <1>1 DEF Slotted, Table
<1>3. f # Free
  BY DEF File, Free
<1> QED BY <1>2, <1>3 DEF Used, Uses

(* The new extent of a store, and what it writes there.                    *)
Grows(k, i, data) == Len(data) > k.slot[i].capacity
Target(k, i, data) == IF Grows(k, i, data) THEN k.used ELSE k.slot[i].offset
Room(k, i, data) == IF Grows(k, i, data) THEN Len(data) ELSE k.slot[i].capacity
Refit(g, a, b, c) == [g EXCEPT !.length = a, !.offset = b, !.capacity = c]
Refits(r, g, a, b, c) ==
  /\ r \in File /\ r.name = g.name /\ r.external = g.external
  /\ r.length = a /\ r.offset = b /\ r.capacity = c
Resized(k, i, data) == Refit(k.slot[i], Len(data), Target(k, i, data), Room(k, i, data))

(* The fields of a file with a new length and extent.                      *)
LEMMA Resizing ==
  ASSUME NEW g \in File, NEW a \in Nat, NEW b \in Nat, NEW c \in Nat,
         NEW r, r = Refit(g, a, b, c)
  PROVE  Refits(r, g, a, b, c)
BY DEF File, Refit, Refits

(* What a store leaves in the slot, the arena and the rest.                *)
LEMMA StoreFields ==
  ASSUME RamfsConstants, NEW k, Good(k), NEW data \in Contents, NEW i, CanStore(k, i, data),
         NEW d, d = store(k, i, data)
  PROVE  /\ i \in Used(k) /\ Resized(k, i, data) \in File
         /\ Resized(k, i, data).name = k.slot[i].name
         /\ Resized(k, i, data).external = k.slot[i].external
         /\ Resized(k, i, data).length = Len(data)
         /\ Resized(k, i, data).offset = Target(k, i, data)
         /\ Resized(k, i, data).capacity = Room(k, i, data)
         /\ Slotted(k, d, i, Resized(k, i, data))
         /\ d.used = k.used + (IF Grows(k, i, data) THEN Len(data) ELSE 0)
         /\ \A n \in 1..Storage :
              d.bytes[n] = IF n \in (Target(k, i, data) + 1)..(Target(k, i, data) + Len(data))
                           THEN data[n - Target(k, i, data)] ELSE k.bytes[n]
<1> DEFINE f == k.slot[i]
           at == Target(k, i, data)
           u == k.used + (IF Grows(k, i, data) THEN Len(data) ELSE 0)
           b == [n \in 1..Storage |-> IF n \in (at + 1)..(at + Len(data)) THEN data[n - at] ELSE k.bytes[n]]
           r == Resized(k, i, data)
<1>1. k \in State /\ Inside(k)
  BY DEF Good
<1>2. /\ i \in Used(k) /\ f.external = <<>> /\ Len(data) <= DataMax
      /\ Len(data) > f.capacity => Len(data) <= Storage - k.used
  BY DEF CanStore
<1>3. /\ k.slot \in Table /\ k.bytes \in Arena /\ k.used \in 0..Storage /\ Storage \in Nat
      /\ f \in File /\ i \in Id
  BY <1>1, <1>2, Fields
<1>4. data \in Seq(Nat) /\ Len(data) \in Nat
  BY ContentsFacts
<1>5. f.name \in Names /\ f.offset \in Nat /\ f.capacity \in Nat /\ f.length \in Nat /\ f.external \in Seq(Nat)
  BY <1>3 DEF File
<1>6. f.offset + f.capacity <= k.used
  BY <1>1, <1>2 DEF Inside, Ends
<1>7. at \in Nat /\ at + Len(data) <= Storage /\ u \in 0..Storage
  <2>1. CASE Grows(k, i, data)
    BY <1>2, <1>3, <1>4, <1>5, <2>1 DEF Grows, Target
  <2>2. CASE ~Grows(k, i, data)
    <3>1. at = f.offset /\ u = k.used + 0 /\ Len(data) <= f.capacity
      BY <1>4, <1>5, <2>2 DEF Grows, Target
    <3>2. PICK o, c, l, w : o = f.offset /\ c = f.capacity /\ l = Len(data) /\ w = k.used
      OBVIOUS
    <3>3. o \in Nat /\ c \in Nat /\ l \in Nat /\ w \in 0..Storage /\ l <= c /\ o + c <= w
      BY <1>3, <1>4, <1>5, <1>6, <3>1, <3>2
    <3>4. o + l <= Storage /\ w + 0 \in 0..Storage
      BY <1>3, <3>3
    <3> QED BY <1>5, <3>1, <3>2, <3>4
  <2> QED BY <2>1, <2>2
<1>8. /\ r \in File /\ r.name = f.name /\ r.external = f.external
      /\ r.length = Len(data) /\ r.offset = at /\ r.capacity = Room(k, i, data)
  <2>1. Room(k, i, data) \in Nat
    BY <1>4, <1>5 DEF Room
  <2>2. r = Refit(f, Len(data), at, Room(k, i, data))
    BY DEF Resized
  <2> HIDE DEF r, at, f
  <2>3. Refits(r, f, Len(data), at, Room(k, i, data))
    BY <1>3, <1>4, <1>7, <2>1, <2>2, Resizing
  <2> QED BY <2>3 DEF Refits
<1>9. b \in Arena
  <2> SUFFICES ASSUME NEW n \in 1..Storage
               PROVE  (IF n \in (at + 1)..(at + Len(data)) THEN data[n - at] ELSE k.bytes[n]) \in Nat
    BY DEF Arena
  <2>1. n \in (at + 1)..(at + Len(data)) => n - at \in 1..Len(data)
    BY <1>4, <1>7
  <2> QED BY <1>3, <1>4, <2>1 DEF Arena
<1>10. d = [k EXCEPT !.slot = [k.slot EXCEPT ![i] = r], !.used = u, !.bytes = b]
  <2>1. r = [f EXCEPT !.length = Len(data), !.offset = at, !.capacity = Room(k, i, data)]
    BY DEF Resized, Refit
  <2>2. u = IF Grows(k, i, data) THEN k.used + Len(data) ELSE k.used
    BY <1>3, <1>4
  <2>3. d = [k EXCEPT !.slot[i] = [f EXCEPT !.length = Len(data), !.offset = at,
                                            !.capacity = IF Grows(k, i, data) THEN Len(data) ELSE @],
                      !.used = IF Grows(k, i, data) THEN @ + Len(data) ELSE @, !.bytes = b]
    BY DEF store, Target, Grows
  <2>4. [f EXCEPT !.length = Len(data), !.offset = at,
                  !.capacity = IF Grows(k, i, data) THEN Len(data) ELSE @] = r
    BY <2>1, <1>3 DEF Room, File
  <2> HIDE DEF f, r, u, b, at
  <2>5. d = [k EXCEPT !.slot[i] = r, !.used = IF Grows(k, i, data) THEN @ + Len(data) ELSE @, !.bytes = b]
    BY <2>3, <2>4
  <2> QED BY <1>1, <2>2, <2>5 DEF State
<1> HIDE DEF r, u, b
<1>11. [k.slot EXCEPT ![i] = r] \in Table
  BY <1>3, <1>8 DEF Table
<1>12. d \in State
  BY <1>1, <1>7, <1>9, <1>10, <1>11 DEF State
<1>13. d.slot = [k.slot EXCEPT ![i] = r] /\ d.caps = k.caps /\ d.boot = k.boot /\ d.used = u /\ d.bytes = b
  BY <1>1, <1>10 DEF State
<1>14. \A n \in 1..Storage : d.bytes[n] = IF n \in (at + 1)..(at + Len(data)) THEN data[n - at] ELSE k.bytes[n]
  BY <1>13 DEF b
<1>15. Slotted(k, d, i, r)
  BY <1>12, <1>13 DEF Slotted
<1> QED BY <1>2, <1>8, <1>13, <1>14, <1>15 DEF r, u

(* A store changes the contents of its own file and of no other.           *)
LEMMA StoreKeeps ==
  ASSUME RamfsConstants, NEW k, Good(k), NEW data \in Contents, NEW i, CanStore(k, i, data),
         NEW d, d = store(k, i, data)
  PROVE  /\ Good(d) /\ Used(d) = Used(k) /\ d.caps = k.caps /\ d.boot = k.boot
         /\ i \in Used(k) /\ k.slot[i].name \in Names
         /\ \A j \in Used(k) : d.slot[j].name = k.slot[j].name
         /\ Files(d) = [Files(k) EXCEPT ![k.slot[i].name] = data]
<1> DEFINE r == Resized(k, i, data)
           at == Target(k, i, data)
<1>1. /\ i \in Used(k) /\ r \in File /\ r.name = k.slot[i].name /\ r.external = k.slot[i].external
      /\ r.length = Len(data) /\ r.offset = at /\ r.capacity = Room(k, i, data)
      /\ Slotted(k, d, i, r)
      /\ d.used = k.used + (IF Grows(k, i, data) THEN Len(data) ELSE 0)
      /\ \A n \in 1..Storage : d.bytes[n] = IF n \in (at + 1)..(at + Len(data)) THEN data[n - at] ELSE k.bytes[n]
  BY StoreFields
<1>2. k \in State /\ Named(k) /\ Inside(k) /\ Disjoint(k) /\ Written(k) /\ d \in State
  BY <1>1 DEF Good, Slotted
<1>3. /\ Storage \in Nat /\ k.used \in 0..Storage /\ Used(k) \subseteq Id
      /\ \A j \in Used(k) : k.slot[j] \in File
  BY <1>2, Fields
<1>4. data \in Seq(Nat) /\ Len(data) \in Nat /\ data = [n \in 1..Len(data) |-> data[n]]
  BY ContentsFacts
<1> HIDE DEF r
<1>5. Used(d) = Used(k) /\ d.slot[i] = r /\ \A j \in Used(k) \ {i} : d.slot[j] = k.slot[j]
  <2>1. i \in Id /\ r \in File /\ Slotted(k, d, i, r)
    BY <1>1, <1>3
  <2>2. Used(d) = Used(k) \cup {i} /\ d.slot[i] = r /\ \A j \in Id \ {i} : d.slot[j] = k.slot[j]
    BY <1>2, <2>1, SlottedUsed DEF Uses
  <2>3. Used(k) \cup {i} = Used(k)
    BY <1>1
  <2> QED BY <1>3, <2>2, <2>3
<1>6. k.slot[i].external = <<>> /\ (Grows(k, i, data) => Len(data) <= Storage - k.used)
  BY DEF CanStore, Grows
<1>7. \A j \in Used(k) : /\ k.slot[j].offset \in Nat /\ k.slot[j].capacity \in Nat
                         /\ k.slot[j].length \in Nat /\ k.slot[j].name \in Names
                         /\ k.slot[j].offset + k.slot[j].capacity <= k.used
                         /\ k.slot[j].external = <<>> => k.slot[j].length <= k.slot[j].capacity
  BY <1>2, <1>3 DEF File, Inside, Ends
<1>8. /\ Grows(k, i, data) => at = k.used /\ r.capacity = Len(data)
      /\ ~Grows(k, i, data) => /\ at = k.slot[i].offset /\ r.capacity = k.slot[i].capacity
                               /\ Len(data) <= k.slot[i].capacity
  BY <1>1, <1>4, <1>7 DEF Grows, Target, Room
<1> HIDE DEF at
<1>9. at \in Nat /\ at + r.capacity <= d.used /\ d.used <= Storage /\ k.used <= d.used
      /\ Len(data) <= r.capacity /\ r.capacity \in Nat /\ d.used \in Nat
  <2>1. CASE Grows(k, i, data)
    BY <1>1, <1>3, <1>4, <1>6, <1>8, <2>1
  <2>2. CASE ~Grows(k, i, data)
    <3>1. d.used = k.used
      BY <1>1, <1>3, <2>2
    <3> QED BY <1>1, <1>3, <1>4, <1>7, <1>8, <2>2, <3>1
  <2> QED BY <2>1, <2>2
<1>10. ASSUME NEW j \in Used(k) \ {i}
       PROVE  \/ k.slot[j].capacity = 0 \/ r.capacity = 0
              \/ k.slot[j].offset + k.slot[j].capacity <= at \/ at + r.capacity <= k.slot[j].offset
  <2>1. CASE Grows(k, i, data)
    BY <1>7, <1>8, <2>1
  <2>2. CASE ~Grows(k, i, data)
    <3>1. \/ k.slot[j].capacity = 0 \/ k.slot[i].capacity = 0
          \/ k.slot[j].offset + k.slot[j].capacity <= k.slot[i].offset
          \/ k.slot[i].offset + k.slot[i].capacity <= k.slot[j].offset
      BY <1>1, <1>2 DEF Disjoint, Ends
    <3> QED BY <1>8, <2>2, <3>1
  <2> QED BY <2>1, <2>2
<1>11. ASSUME NEW j \in Used(k) \ {i} PROVE Stored(d, d.slot[j]) = Stored(k, k.slot[j])
  <2>1. d.slot[j] = k.slot[j]
    BY <1>5
  <2>2. ASSUME k.slot[j].external = <<>>, NEW n \in 1..k.slot[j].length
        PROVE  d.bytes[k.slot[j].offset + n] = k.bytes[k.slot[j].offset + n]
    <3> DEFINE o == k.slot[j].offset
               c == k.slot[j].capacity
               l == k.slot[j].length
    <3>1. o \in Nat /\ c \in Nat /\ l \in Nat /\ o + c <= k.used /\ l <= c
      BY <1>7, <2>2
    <3>2. c = 0 \/ r.capacity = 0 \/ o + c <= at \/ at + r.capacity <= o
      BY <1>10
    <3>3. n \in 1..l
      BY <2>2
    <3> HIDE DEF o, c, l
    <3>4. o + n \in 1..Storage
      BY <1>3, <3>1, <3>3
    <3>5. ~(o + n \in (at + 1)..(at + Len(data)))
      <4>1. PICK m, e : m = Len(data) /\ e = r.capacity
        OBVIOUS
      <4>2. m \in Nat /\ e \in Nat /\ at \in Nat /\ m <= e /\ n \in Nat /\ 1 <= n /\ n <= c
        BY <1>4, <1>9, <3>1, <3>3, <4>1
      <4>3. CASE c = 0 \/ e = 0
        BY <3>1, <4>2, <4>3, <4>1
      <4>4. CASE o + c <= at
        BY <3>1, <4>2, <4>4, <4>1
      <4>5. CASE at + e <= o
        BY <3>1, <4>2, <4>5, <4>1
      <4> QED BY <3>2, <4>1, <4>3, <4>4, <4>5
    <3>6. d.bytes[o + n] = k.bytes[o + n]
      BY <1>1, <3>4, <3>5
    <3> QED BY <3>6 DEF o
  <2> QED BY <2>1, <2>2, SameStored
<1>12. Stored(d, r) = data
  <2>1. Stored(d, r) = [n \in 1..Len(data) |-> d.bytes[at + n]]
    BY <1>1, <1>6 DEF Stored
  <2>2. ASSUME NEW n \in 1..Len(data) PROVE d.bytes[at + n] = data[n]
    <3> DEFINE l == Len(data)
               c == r.capacity
               u == d.used
    <3>1. at \in Nat /\ l \in Nat /\ c \in Nat /\ u \in Nat /\ n \in 1..l /\ l <= c /\ at + c <= u /\ u <= Storage
      BY <1>4, <1>9, <2>2
    <3> HIDE DEF l, c, u
    <3>2. at + n \in 1..Storage
      BY <1>3, <3>1
    <3>3. at + n \in (at + 1)..(at + l) /\ (at + n) - at = n
      BY <3>1
    <3> QED BY <1>1, <3>2, <3>3 DEF l
  <2>3. [n \in 1..Len(data) |-> d.bytes[at + n]] = [n \in 1..Len(data) |-> data[n]]
    BY <2>2
  <2> QED BY <1>4, <2>1, <2>3
<1>13. \A j \in Used(k) : d.slot[j].name = k.slot[j].name
  BY <1>1, <1>5
<1>14. Named(d)
  BY <1>2, <1>5, <1>13 DEF Named
<1>15. Inside(d)
  <2> SUFFICES ASSUME NEW j \in Used(k)
               PROVE  /\ d.slot[j].offset + d.slot[j].capacity <= d.used
                      /\ d.slot[j].external = <<>> => d.slot[j].length <= d.slot[j].capacity
    BY <1>5 DEF Inside, Ends
  <2>1. CASE j = i
    BY <1>1, <1>5, <1>9, <2>1
  <2>2. CASE j # i
    <3>1. d.slot[j] = k.slot[j]
      BY <1>5, <2>2
    <3> DEFINE e == k.slot[j].offset + k.slot[j].capacity
    <3>2. e \in Nat /\ e <= k.used
      BY <1>7
    <3>3. k.slot[j].external = <<>> => k.slot[j].length <= k.slot[j].capacity
      BY <1>7
    <3> HIDE DEF e
    <3>4. e <= d.used
      BY <1>3, <1>9, <3>2
    <3> QED BY <3>1, <3>3, <3>4 DEF e
  <2> QED BY <2>1, <2>2
<1>16. Disjoint(d)
  <2> SUFFICES ASSUME NEW j \in Used(k), NEW l \in Used(k)
               PROVE  \/ j = l \/ d.slot[j].capacity = 0 \/ d.slot[l].capacity = 0
                      \/ d.slot[j].offset + d.slot[j].capacity <= d.slot[l].offset
                      \/ d.slot[l].offset + d.slot[l].capacity <= d.slot[j].offset
    BY <1>5 DEF Disjoint, Ends
  <2>1. CASE j # i /\ l # i
    BY <1>2, <1>5, <2>1 DEF Disjoint, Ends
  <2>2. CASE j = i /\ l # i
    BY <1>1, <1>5, <1>10, <2>2
  <2>3. CASE j # i /\ l = i
    BY <1>1, <1>5, <1>10, <2>3
  <2> QED BY <2>1, <2>2, <2>3
<1>17. Written(d)
  BY <1>2, <1>5, <1>11, <1>12 DEF Written
<1>18. Good(d)
  BY <1>2, <1>14, <1>15, <1>16, <1>17 DEF Good
<1>19. Files(d)[k.slot[i].name] = data
  <2>1. i \in Used(d) /\ d.slot[i].name = k.slot[i].name
    BY <1>1, <1>5
  <2> QED BY <1>5, <1>12, <1>18, <2>1, Found
<1>20. ASSUME NEW n \in Names \ {k.slot[i].name} PROVE Files(d)[n] = Files(k)[n]
  <2>1. \A j \in Used(k) : k.slot[j].name = n =>
          j \in Used(d) /\ d.slot[j].name = n /\ Stored(d, d.slot[j]) = Stored(k, k.slot[j])
    BY <1>5, <1>11, <1>13
  <2>2. \A j \in Used(d) : d.slot[j].name = n => j \in Used(k) /\ k.slot[j].name = n
    BY <1>5, <1>13
  <2> QED BY <1>18, <2>1, <2>2, SameFile
<1>21. k.slot[i].name \in Names
  BY <1>1, <1>7
<1>22. Files(d) = [Files(k) EXCEPT ![k.slot[i].name] = data]
  <2> DEFINE nm == k.slot[i].name
  <2>1. nm \in Names /\ Only(k, d, nm, data)
    BY <1>19, <1>20, <1>21 DEF Only
  <2> HIDE DEF nm
  <2>2. Files(d) = With(Files(k), nm, data)
    BY <2>1, OneChanged
  <2> QED BY <2>2 DEF nm, With
<1>23. d.caps = k.caps /\ d.boot = k.boot
  BY <1>1 DEF Slotted
<1> QED BY <1>1, <1>5, <1>13, <1>18, <1>21, <1>22, <1>23

(***************************************************************************)
(* Creating, deleting, renaming.                                           *)
(***************************************************************************)
(* Handles and the boot flag are no files.                                 *)
LEMMA SameFiles ==
  ASSUME NEW k, Good(k), NEW d \in State, d.slot = k.slot, d.bytes = k.bytes, d.used = k.used
  PROVE  Good(d) /\ Files(d) = Files(k)
<1>1. Used(d) = Used(k) /\ \A f : Stored(d, f) = Stored(k, f)
  BY DEF Used, Stored
<1>2. Good(d)
  BY <1>1 DEF Good, Named, Inside, Disjoint, Written
<1>3. \A n : find(d, n) = find(k, n)
  BY <1>1 DEF find
<1>4. Files(d) = Files(k)
  BY <1>1, <1>3 DEF Files
<1> QED BY <1>2, <1>4

Adding(k, i, f) == [k EXCEPT !.slot[i] = f]

Adds(k, d, i, f) ==
  /\ Good(d) /\ Used(d) = Used(k) \cup {i} /\ d.slot[i] = f /\ d.caps = k.caps /\ d.boot = k.boot
  /\ d.slot = [k.slot EXCEPT ![i] = f] /\ d.bytes = k.bytes /\ d.used = k.used
  /\ Files(d) = [Files(k) EXCEPT ![f.name] = f.external]

(* A new file, empty or left where the boot loader put it.                 *)
LEMMA AddKeeps ==
  ASSUME RamfsConstants, NEW k, Good(k), NEW i \in Id \ Used(k), NEW f \in File,
         find(k, f.name) = {}, f.offset = 0, f.capacity = 0, f.external \in Contents,
         f.external = <<>> => f.length = 0, NEW d, d = Adding(k, i, f)
  PROVE  Adds(k, d, i, f)
<1>1. k \in State /\ Named(k) /\ Inside(k) /\ Disjoint(k) /\ Written(k)
  BY DEF Good
<1>2. k.slot \in Table /\ k.used \in 0..Storage /\ Storage \in Nat /\ f.name \in Names /\ Used(k) \subseteq Id
  BY <1>1, Fields DEF File
<1>3. d = [k EXCEPT !.slot = [k.slot EXCEPT ![i] = f]]
  BY <1>1 DEF State, Adding
<1>4. [k.slot EXCEPT ![i] = f] \in Table
  BY <1>2 DEF Table
<1>5. d \in State /\ d.slot = [k.slot EXCEPT ![i] = f] /\ d.caps = k.caps /\ d.boot = k.boot
      /\ d.bytes = k.bytes /\ d.used = k.used
  BY <1>1, <1>3, <1>4 DEF State
<1>6. Slotted(k, d, i, f)
  BY <1>5 DEF Slotted
<1>7. Used(d) = Used(k) \cup {i} /\ d.slot[i] = f /\ \A j \in Used(k) : d.slot[j] = k.slot[j]
  <2>1. i \in Id /\ i \notin Used(k)
    OBVIOUS
  <2>2. Uses(k, d, i, f)
    BY <1>1, <1>6, <2>1, SlottedUsed
  <2>3. \A j \in Used(k) : j \in Id \ {i}
    BY <1>2, <2>1
  <2> QED BY <2>2, <2>3 DEF Uses
<1>8. \A g : Stored(d, g) = Stored(k, g)
  BY <1>5 DEF Stored
<1>9. Stored(d, f) = f.external
  <2>1. CASE f.external # <<>>
    BY <2>1 DEF Stored
  <2>2. CASE f.external = <<>>
    <3>1. Stored(d, f) = [n \in 1..0 |-> d.bytes[0 + n]]
      BY <2>2 DEF Stored
    <3>2. 1..0 = {}
      OBVIOUS
    <3>3. [n \in 1..0 |-> d.bytes[0 + n]] = <<>>
      BY <3>2
    <3> QED BY <2>2, <3>1, <3>3
  <2> QED BY <2>1, <2>2
<1>10. \A j \in Used(k) : k.slot[j].name # f.name
  BY DEF find
<1>11. Named(d)
  BY <1>1, <1>7, <1>10 DEF Named
<1>12. Inside(d)
  <2>1. Ends(f) <= k.used
    BY <1>2 DEF Ends
  <2> QED BY <1>1, <1>5, <1>7, <2>1 DEF Inside
<1>13. Disjoint(d)
  BY <1>1, <1>7 DEF Disjoint
<1>14. Written(d)
  BY <1>1, <1>7, <1>8, <1>9 DEF Written
<1>15. Good(d)
  BY <1>5, <1>11, <1>12, <1>13, <1>14 DEF Good
<1>16. Files(d)[f.name] = f.external
  BY <1>7, <1>9, <1>15, Found
<1>17. ASSUME NEW n \in Names \ {f.name} PROVE Files(d)[n] = Files(k)[n]
  <2>1. \A j \in Used(k) : k.slot[j].name = n =>
          j \in Used(d) /\ d.slot[j].name = n /\ Stored(d, d.slot[j]) = Stored(k, k.slot[j])
    BY <1>7, <1>8
  <2>2. \A j \in Used(d) : d.slot[j].name = n => j \in Used(k) /\ k.slot[j].name = n
    BY <1>7
  <2> QED BY <1>15, <2>1, <2>2, SameFile
<1>18. Files(d) = [Files(k) EXCEPT ![f.name] = f.external]
  <2>1. PICK nm, c : nm = f.name /\ c = f.external
    OBVIOUS
  <2>2. nm \in Names /\ Only(k, d, nm, c)
    BY <1>2, <1>16, <1>17, <2>1 DEF Only
  <2>3. Files(d) = With(Files(k), nm, c)
    BY <2>2, OneChanged
  <2> QED BY <2>1, <2>3 DEF With
<1> QED BY <1>5, <1>7, <1>15, <1>18 DEF Adds

(* ramfs_delete and the end of mv.                                         *)
LEMMA ReleaseKeeps ==
  ASSUME RamfsConstants, NEW k, Good(k), NEW i \in Used(k), NEW d, d = release(k, i)
  PROVE  Good(d) /\ Files(d) = [Files(k) EXCEPT ![k.slot[i].name] = Absent]
<1>1. k \in State /\ Named(k) /\ Inside(k) /\ Disjoint(k) /\ Written(k)
  BY DEF Good
<1>2. k.slot \in Table /\ Used(k) \subseteq Id /\ k.slot[i] \in File
  BY <1>1, Fields
<1>3. d = [k EXCEPT !.slot = [k.slot EXCEPT ![i] = Free]]
  BY <1>1 DEF State, release
<1>4. [k.slot EXCEPT ![i] = Free] \in Table
  BY <1>2 DEF Table
<1>5. d \in State /\ d.slot = [k.slot EXCEPT ![i] = Free] /\ d.bytes = k.bytes /\ d.used = k.used
  BY <1>1, <1>3, <1>4 DEF State
<1>6. d.slot[i] = Free /\ \A j \in Id \ {i} : d.slot[j] = k.slot[j]
  BY <1>2, <1>5 DEF Table
<1>7. Used(d) = Used(k) \ {i}
  BY <1>6 DEF Used
<1>8. \A j \in Used(d) : j \in Used(k) /\ d.slot[j] = k.slot[j]
  BY <1>2, <1>6, <1>7
<1>9. \A g : Stored(d, g) = Stored(k, g)
  BY <1>5 DEF Stored
<1>10. Good(d)
  BY <1>1, <1>5, <1>8, <1>9 DEF Good, Named, Inside, Disjoint, Written
<1>11. k.slot[i].name \in Names
  BY <1>2 DEF File
<1>12. Files(d)[k.slot[i].name] = Absent
  <2>1. find(d, k.slot[i].name) = {}
    BY <1>1, <1>7, <1>8 DEF find, Named
  <2> QED BY <1>10, <1>11, <2>1, Found
<1>13. ASSUME NEW n \in Names \ {k.slot[i].name} PROVE Files(d)[n] = Files(k)[n]
  <2>1. \A j \in Used(k) : k.slot[j].name = n =>
          j \in Used(d) /\ d.slot[j].name = n /\ Stored(d, d.slot[j]) = Stored(k, k.slot[j])
    BY <1>7, <1>8, <1>9
  <2>2. \A j \in Used(d) : d.slot[j].name = n => j \in Used(k) /\ k.slot[j].name = n
    BY <1>8
  <2> QED BY <1>10, <2>1, <2>2, SameFile
<1>14. Files(d) = [Files(k) EXCEPT ![k.slot[i].name] = Absent]
  <2>1. PICK nm, c : nm = k.slot[i].name /\ c = Absent
    OBVIOUS
  <2>2. nm \in Names /\ Only(k, d, nm, c)
    BY <1>11, <1>12, <1>13, <2>1 DEF Only
  <2>3. Files(d) = With(Files(k), nm, c)
    BY <2>2, OneChanged
  <2> QED BY <2>1, <2>3 DEF With
<1> QED BY <1>10, <1>14

Renaming(k, i, new) == [k EXCEPT !.slot[i].name = new]
Moved(f, old, new) == [f EXCEPT ![new] = f[old], ![old] = Absent]

(* ramfs_rename to a name no file has.                                     *)
LEMMA RenameKeeps ==
  ASSUME RamfsConstants, NEW k, Good(k), NEW i \in Used(k), NEW new \in Names, find(k, new) = {},
         NEW d, d = Renaming(k, i, new)
  PROVE  /\ Good(d) /\ d.caps = k.caps /\ d.boot = k.boot /\ k.slot[i].name # new
         /\ Files(d) = Moved(Files(k), k.slot[i].name, new)
<1>1. PICK g : g = [k.slot[i] EXCEPT !.name = new]
  OBVIOUS
<1>2. k \in State /\ Named(k) /\ Inside(k) /\ Disjoint(k) /\ Written(k)
  BY DEF Good
<1>3. k.slot \in Table /\ Used(k) \subseteq Id /\ k.slot[i] \in File /\ i \in Id
  BY <1>2, Fields
<1>4. /\ g \in File /\ g.name = new /\ g.offset = k.slot[i].offset /\ g.capacity = k.slot[i].capacity
      /\ g.length = k.slot[i].length /\ g.external = k.slot[i].external
  BY <1>1, <1>3 DEF File
<1>5. d = [k EXCEPT !.slot = [k.slot EXCEPT ![i] = g]]
  BY <1>1, <1>2, <1>3 DEF State, Renaming, Table
<1>6. [k.slot EXCEPT ![i] = g] \in Table
  BY <1>3, <1>4 DEF Table
<1>7. /\ d \in State /\ d.slot = [k.slot EXCEPT ![i] = g] /\ d.caps = k.caps /\ d.boot = k.boot
      /\ d.bytes = k.bytes /\ d.used = k.used
  BY <1>2, <1>5, <1>6 DEF State
<1>8. Used(d) = Used(k) /\ d.slot[i] = g /\ \A j \in Used(k) \ {i} : d.slot[j] = k.slot[j]
  <2>1. Slotted(k, d, i, g)
    BY <1>7 DEF Slotted
  <2>2. Uses(k, d, i, g)
    BY <1>2, <1>3, <1>4, <2>1, SlottedUsed
  <2>3. Used(k) \cup {i} = Used(k) /\ \A j \in Used(k) \ {i} : j \in Id \ {i}
    BY <1>3
  <2> QED BY <2>2, <2>3 DEF Uses
<1>9. ASSUME NEW j \in Used(k) PROVE Stored(d, d.slot[j]) = Stored(k, k.slot[j])
  <2>1. PICK f, h : f = k.slot[j] /\ h = d.slot[j]
    OBVIOUS
  <2>2. h.external = f.external /\ h.length = f.length /\ h.offset = f.offset
    BY <1>4, <1>8, <2>1
  <2>3. \A n \in 1..f.length : d.bytes[f.offset + n] = k.bytes[f.offset + n]
    BY <1>7
  <2>4. Stored(d, h) = Stored(k, f)
    BY <2>2, <2>3, SameStored
  <2> QED BY <2>1, <2>4
<1>10. \A j \in Used(k) : k.slot[j].name # new
  BY DEF find
<1>11. Named(d)
  BY <1>2, <1>4, <1>8, <1>10 DEF Named
<1>12. \A j \in Used(k) : /\ d.slot[j].offset = k.slot[j].offset /\ d.slot[j].capacity = k.slot[j].capacity
                          /\ d.slot[j].length = k.slot[j].length /\ d.slot[j].external = k.slot[j].external
  BY <1>4, <1>8
<1>13. Inside(d) /\ Disjoint(d)
  BY <1>2, <1>7, <1>8, <1>12 DEF Inside, Disjoint, Ends
<1>14. Written(d)
  BY <1>2, <1>8, <1>9 DEF Written
<1>15. Good(d)
  BY <1>7, <1>11, <1>13, <1>14 DEF Good
<1>16. PICK old : old = k.slot[i].name
  OBVIOUS
<1>17. old \in Names /\ old # new
  BY <1>3, <1>10, <1>16 DEF File
<1>18. Files(d)[new] = Files(k)[old]
  <2>1. Files(k)[old] = Stored(k, k.slot[i])
    BY <1>16, Found
  <2>2. Files(d)[new] = Stored(d, d.slot[i])
    BY <1>4, <1>8, <1>15, Found
  <2> QED BY <1>9, <2>1, <2>2
<1>19. Files(d)[old] = Absent
  <2>1. find(d, old) = {}
    BY <1>2, <1>4, <1>8, <1>16, <1>17 DEF find, Named
  <2> QED BY <1>15, <1>17, <2>1, Found
<1>20. ASSUME NEW n \in Names, n # old, n # new PROVE Files(d)[n] = Files(k)[n]
  <2>1. \A j \in Used(k) : k.slot[j].name = n =>
          j \in Used(d) /\ d.slot[j].name = n /\ Stored(d, d.slot[j]) = Stored(k, k.slot[j])
    BY <1>8, <1>9, <1>16, <1>20
  <2>2. \A j \in Used(d) : d.slot[j].name = n => j \in Used(k) /\ k.slot[j].name = n
    BY <1>4, <1>8, <1>20
  <2> QED BY <1>15, <2>1, <2>2, SameFile
<1>21. Files(d) = Moved(Files(k), old, new)
  <2>1. Files(d) = [l \in Names |-> Files(d)[l]] /\ Files(k) = [l \in Names |-> Files(k)[l]]
    BY DEF Files
  <2>2. PICK f, h : f = Files(k) /\ h = Files(d)
    OBVIOUS
  <2>3. f = [l \in Names |-> f[l]] /\ h = [l \in Names |-> h[l]]
    BY <2>1, <2>2
  <2>4. h[new] = f[old] /\ h[old] = Absent /\ \A n \in Names : n # old /\ n # new => h[n] = f[n]
    BY <1>18, <1>19, <1>20, <2>2
  <2>5. h = Moved(f, old, new)
    BY <1>17, <2>3, <2>4 DEF Moved
  <2> QED BY <2>2, <2>5
<1> QED BY <1>7, <1>15, <1>16, <1>17, <1>21

(***************************************************************************)
(* Opening and putting.                                                    *)
(***************************************************************************)
(* Opening leaves the files alone or adds an empty one.                    *)
Created(k, d, n) == Files(k)[n] = Absent /\ Files(d) = With(Files(k), n, <<>>)
Keeps(k, d) == d.caps = k.caps /\ d.boot = k.boot
Opening(k, d, n) == Good(d) /\ Keeps(k, d) /\ (Files(d) = Files(k) \/ Created(k, d, n))

(* A file as ramfs_open creates it.                                        *)
LEMMA FreshFile ==
  ASSUME NEW n \in Names, NEW f, f = Fresh(n)
  PROVE  /\ f \in File /\ f.name = n /\ f.offset = 0 /\ f.capacity = 0
         /\ f.length = 0 /\ f.external = <<>>
BY DEF Fresh, File

(* A table that is not full has a first free slot.                         *)
LEMMA FreeSlot ==
  ASSUME RamfsConstants, NEW k, Good(k), Used(k) # Id
  PROVE  First(Id \ Used(k)) \in Id \ Used(k)
<1>1. Used(k) \subseteq Id /\ Id \subseteq Nat
  BY Fields DEF Good
<1>2. Id \ Used(k) \subseteq Nat /\ Id \ Used(k) # {}
  BY <1>1
<1> QED BY <1>2, Least

(* ramfs_open.                                                             *)
LEMMA OpenKeeps ==
  ASSUME RamfsConstants, NEW k, Good(k), NEW n \in Names, NEW create \in BOOLEAN,
         NEW d, d = open(k, n, create)
  PROVE  /\ Opening(k, d, n)
         /\ Opened(k, n, create) # {} => find(d, n) # {} /\ First(Opened(k, n, create)) \in Id
<1>1. CASE find(k, n) # {}
  <2>1. d = k
    BY <1>1 DEF open
  <2>2. First(find(k, n)) \in Used(k) /\ Used(k) \subseteq Id
    BY <1>1, Found, Fields DEF Good
  <2> QED BY <1>1, <2>1, <2>2 DEF Opening, Opened, Keeps
<1>2. CASE find(k, n) = {} /\ Opened(k, n, create) = {}
  BY <1>2 DEF open, Opening, Keeps
<1>3. CASE find(k, n) = {} /\ Opened(k, n, create) # {}
  <2>1. PICK i : i = First(Id \ Used(k))
    OBVIOUS
  <2>2. Used(k) # Id /\ Opened(k, n, create) = {i}
    BY <1>3, <2>1 DEF Opened
  <2>3. i \in Id \ Used(k)
    BY <2>1, <2>2, FreeSlot
  <2>4. PICK f : f = Fresh(n)
    OBVIOUS
  <2>5. /\ f \in File /\ f.name = n /\ f.offset = 0 /\ f.capacity = 0
        /\ f.length = 0 /\ f.external = <<>>
    BY <2>4, FreshFile
  <2>6. d = Adding(k, i, f)
    BY <1>3, <2>1, <2>4 DEF open, Adding
  <2>7. Adds(k, d, i, f)
    <3>1. find(k, f.name) = {} /\ f.external \in Contents /\ (f.external = <<>> => f.length = 0)
      BY <1>3, <2>5 DEF Contents
    <3> QED BY <2>3, <2>5, <2>6, <3>1, AddKeeps
  <2>8. Good(d) /\ Keeps(k, d) /\ i \in Used(d) /\ d.slot[i].name = n
    BY <2>5, <2>7 DEF Adds, Keeps
  <2>9. Created(k, d, n)
    <3>1. Files(k)[n] = Absent
      BY <1>3, Found
    <3> QED BY <2>5, <2>7, <3>1 DEF Adds, Created, With
  <2>10. find(d, n) # {}
    BY <2>8 DEF find
  <2>11. First({i}) = i
    <3>1. Id \subseteq Nat
      BY Fields DEF Good
    <3> QED BY <2>3, <3>1, FirstOfOne
  <2> QED BY <2>2, <2>3, <2>8, <2>9, <2>10, <2>11 DEF Opening
<1> QED BY <1>1, <1>2, <1>3

(* Put writes the file, or creates it and cannot write, or does nothing.   *)
Fits(k, n, data) ==
  find(open(k, n, TRUE), n) # {} /\ CanStore(open(k, n, TRUE), First(find(open(k, n, TRUE), n)), data)
Putting(k, d, n, data) ==
  /\ Good(d) /\ Keeps(k, d)
  /\ Fits(k, n, data) => Files(d) = With(Files(k), n, data)
  /\ ~Fits(k, n, data) => Files(d) = Files(k) \/ Created(k, d, n)

(* Open for writing and write.                                             *)
LEMMA PutKeeps ==
  ASSUME RamfsConstants, NEW k, Good(k), NEW n \in Names, NEW data \in Contents,
         NEW d, d = Put(k, n, data)
  PROVE  Putting(k, d, n, data)
<1>1. PICK m : m = open(k, n, TRUE)
  OBVIOUS
<1>2. Opening(k, m, n)
  BY <1>1, OpenKeeps
<1>3. Good(m) /\ Keeps(k, m) /\ (Files(m) = Files(k) \/ Created(k, m, n))
  BY <1>2 DEF Opening
<1>4. Fits(k, n, data) <=> find(m, n) # {} /\ CanStore(m, First(find(m, n)), data)
  BY <1>1 DEF Fits
<1>5. CASE ~Fits(k, n, data)
  <2>1. d = m
    BY <1>1, <1>4, <1>5 DEF Put
  <2> QED BY <1>3, <1>5, <2>1 DEF Putting, Created
<1>6. CASE Fits(k, n, data)
  <2>1. PICK i : i = First(find(m, n))
    OBVIOUS
  <2>2. d = store(m, i, data) /\ CanStore(m, i, data)
    BY <1>1, <1>4, <1>6, <2>1 DEF Put
  <2>3. m.slot[i].name = n
    BY <1>3, <1>4, <1>6, <2>1, Found
  <2>4. Good(d) /\ Keeps(m, d) /\ Files(d) = With(Files(m), n, data)
    BY <1>3, <2>2, <2>3, StoreKeeps DEF Keeps, With
  <2>5. Files(d) = With(Files(k), n, data)
    <3>1. PICK f, g : f = Files(k) /\ g = Files(m)
      OBVIOUS
    <3>2. f = [l \in Names |-> f[l]]
      BY <3>1 DEF Files
    <3>3. g = f \/ g = With(f, n, <<>>)
      BY <1>3, <3>1 DEF Created
    <3>4. With(g, n, data) = With(f, n, data)
      BY <3>2, <3>3 DEF With
    <3> QED BY <2>4, <3>1, <3>4
  <2> QED BY <1>3, <1>6, <2>4, <2>5 DEF Putting, Keeps
<1> QED BY <1>5, <1>6

(***************************************************************************)
(* The steps of a file store.                                              *)
(***************************************************************************)
StoreTo(k, d) == Files(k) = Files(d) \/ Store!Step(Files(k), Files(d))

(* A created file is a Create of the store.                                *)
LEMMA CreateStep ==
  ASSUME NEW k, NEW d, NEW n \in Names, Created(k, d, n)
  PROVE  StoreTo(k, d)
<1>1. Store!Create(Files(k), Files(d), n)
  BY DEF Store!Create, Created, With
<1> QED BY <1>1 DEF StoreTo, Store!Step

(* New contents are a Write of the store.                                  *)
LEMMA WriteStep ==
  ASSUME NEW k, NEW d, NEW n \in Names, NEW c \in Contents, Files(d) = With(Files(k), n, c)
  PROVE  StoreTo(k, d)
<1>1. PICK f, g : f = Files(k) /\ g = Files(d)
  OBVIOUS
<1>2. f = [l \in Names |-> f[l]] /\ g = [f EXCEPT ![n] = c]
  BY <1>1 DEF Files, With
<1>3. g[n] = c
  BY <1>2
<1>4. Store!Write(f, g, n)
  BY <1>2, <1>3 DEF Store!Write, Contents
<1>5. Store!Step(f, g)
  BY <1>4 DEF Store!Step
<1> QED BY <1>1, <1>5 DEF StoreTo

(* A name that loses its file is a Delete of the store.                    *)
LEMMA DeleteStep ==
  ASSUME NEW k, NEW d, NEW n \in Names, Files(k)[n] # Absent, Files(d) = With(Files(k), n, Absent)
  PROVE  StoreTo(k, d)
<1>1. Store!Delete(Files(k), Files(d), n)
  BY DEF Store!Delete, With
<1> QED BY <1>1 DEF StoreTo, Store!Step

(* Contents that reach a second name are a Copy of the store.              *)
LEMMA CopyStep ==
  ASSUME NEW k, NEW d, NEW n \in Names, NEW l \in Names, Files(k)[n] # Absent,
         Files(d) = With(Files(k), l, Files(k)[n])
  PROVE  StoreTo(k, d)
<1>1. Store!Copy(Files(k), Files(d), n, l)
  BY DEF Store!Copy, With
<1> QED BY <1>1 DEF StoreTo, Store!Step

(* Contents that change their name are a Move of the store.                *)
LEMMA MoveStep ==
  ASSUME NEW k, NEW d, NEW n \in Names, NEW l \in Names, n # l, Files(k)[n] # Absent,
         Files(d) = Moved(Files(k), n, l)
  PROVE  StoreTo(k, d)
<1>1. Store!Move(Files(k), Files(d), n, l)
  BY DEF Store!Move, Moved
<1> QED BY <1>1 DEF StoreTo, Store!Step

(***************************************************************************)
(* The operations.                                                         *)
(***************************************************************************)
Done(k, d) == Good(d) /\ StoreTo(k, d)

(* ramfs_seed and the shell's write.                                       *)
LEMMA PutStep ==
  ASSUME RamfsConstants, NEW k, Good(k), NEW n \in Names, NEW data \in Contents,
         NEW d, d = Put(k, n, data)
  PROVE  Done(k, d)
<1>1. Putting(k, d, n, data)
  BY PutKeeps
<1>2. Good(d) /\ (Files(d) = With(Files(k), n, data) \/ Files(d) = Files(k) \/ Created(k, d, n))
  BY <1>1 DEF Putting
<1>3. CASE Files(d) = With(Files(k), n, data)
  BY <1>2, <1>3, WriteStep DEF Done
<1>4. CASE Files(d) = Files(k)
  BY <1>2, <1>4 DEF Done, StoreTo
<1>5. CASE Created(k, d, n)
  BY <1>2, <1>5, CreateStep DEF Done
<1> QED BY <1>2, <1>3, <1>4, <1>5

(* What copy_file reads: the contents of the source.                       *)
LEMMA Source ==
  ASSUME RamfsConstants, NEW k, Good(k), NEW src \in Names, find(k, src) # {}
  PROVE  /\ Stored(k, k.slot[First(find(k, src))]) = Files(k)[src]
         /\ Files(k)[src] \in Contents /\ Files(k)[src] # Absent
BY Found DEF Files

(* copy_file: the whole copy, or at most an empty destination.             *)
LEMMA CopyStored ==
  ASSUME RamfsConstants, NEW k, Good(k), NEW src \in Names, NEW dst \in Names, find(k, src) # {},
         NEW d, d = copy_file(k, src, dst)
  PROVE  /\ Good(d)
         /\ CopyFits(k, src, dst) => Files(d) = With(Files(k), dst, Files(k)[src])
         /\ ~CopyFits(k, src, dst) => Files(d) = Files(k) \/ Created(k, d, dst)
<1>1. PICK c : c = Files(k)[src]
  OBVIOUS
<1>2. c = Stored(k, k.slot[First(find(k, src))]) /\ c \in Contents
  BY <1>1, Source
<1>3. d = Put(k, dst, c)
  BY <1>2 DEF copy_file
<1>4. Putting(k, d, dst, c)
  BY <1>2, <1>3, PutKeeps
<1>5. CopyFits(k, src, dst) <=> Fits(k, dst, c)
  BY <1>2 DEF CopyFits, Fits
<1> QED BY <1>1, <1>4, <1>5 DEF Putting

(* cp.                                                                     *)
LEMMA CopyDone ==
  ASSUME RamfsConstants, NEW k, Good(k), NEW src \in Names, NEW dst \in Names, find(k, src) # {},
         NEW d, d = copy_file(k, src, dst)
  PROVE  Done(k, d)
<1>1. Good(d) /\ Files(k)[src] # Absent
  BY CopyStored, Source
<1>2. CASE CopyFits(k, src, dst)
  <2>1. Files(d) = With(Files(k), dst, Files(k)[src])
    BY <1>2, CopyStored
  <2>2. StoreTo(k, d)
    BY <1>1, <2>1, CopyStep
  <2> QED BY <1>1, <2>2 DEF Done
<1>3. CASE ~CopyFits(k, src, dst)
  <2>1. Files(d) = Files(k) \/ Created(k, d, dst)
    BY <1>3, CopyStored
  <2>2. StoreTo(k, d)
    BY <2>1, CreateStep DEF StoreTo
  <2> QED BY <1>1, <2>2 DEF Done
<1> QED BY <1>2, <1>3

(* mv, which deletes the source only when the copy was written whole.      *)
LEMMA MoveDone ==
  ASSUME RamfsConstants, NEW k, Good(k), NEW src \in Names, NEW dst \in Names, find(k, src) # {},
         CopyFits(k, src, dst), NEW m, m = copy_file(k, src, dst),
         NEW d, d = release(m, First(find(m, src)))
  PROVE  Done(k, d)
<1>1. PICK f, h, g : f = Files(k) /\ h = Files(m) /\ g = Files(d)
  OBVIOUS
<1>2. f = [l \in Names |-> f[l]] /\ f[src] \in Contents /\ f[src] # Absent
  <2>1. f = [l \in Names |-> f[l]]
    BY <1>1 DEF Files
  <2> QED BY <1>1, <2>1, Source
<1>3. Good(m) /\ h = With(f, dst, f[src])
  BY <1>1, CopyStored
<1>4. h = [l \in Names |-> h[l]] /\ h[src] = f[src]
  BY <1>2, <1>3 DEF With
<1>5. find(m, src) # {}
  <2>1. find(m, src) = {} => h[src] = Absent
    BY <1>1 DEF Files
  <2> QED BY <1>2, <1>4, <2>1
<1>6. PICK i : i = First(find(m, src))
  OBVIOUS
<1>7. i \in Used(m) /\ m.slot[i].name = src
  BY <1>3, <1>5, <1>6, Found
<1>8. Good(d) /\ Files(d) = [Files(m) EXCEPT ![m.slot[i].name] = Absent]
  BY <1>3, <1>6, <1>7, ReleaseKeeps
<1>9. g = [h EXCEPT ![src] = Absent]
  BY <1>1, <1>7, <1>8
<1>10. CASE src = dst
  <2>1. g = With(f, src, Absent)
    BY <1>2, <1>3, <1>9, <1>10 DEF With
  <2>2. StoreTo(k, d)
    BY <1>1, <1>2, <2>1, DeleteStep
  <2> QED BY <1>8, <2>2 DEF Done
<1>11. CASE src # dst
  <2>1. g = Moved(f, src, dst)
    BY <1>3, <1>9 DEF With, Moved
  <2>2. StoreTo(k, d)
    BY <1>1, <1>2, <1>11, <2>1, MoveStep
  <2> QED BY <1>8, <2>2 DEF Done
<1> QED BY <1>10, <1>11

(* A boot module left in place.                                            *)
Referring(n, data) == [Fresh(n) EXCEPT !.external = data, !.length = Len(data)]

(* ramfs_seed_reference.                                                   *)
LEMMA Reference ==
  ASSUME RamfsConstants, NEW k, Good(k), NEW n \in Names, NEW data \in Modules,
         find(k, n) = {}, Opened(k, n, TRUE) # {},
         NEW d, d = [open(k, n, TRUE) EXCEPT !.slot[First(Id \ Used(k))].external = data,
                                             !.slot[First(Id \ Used(k))].length = Len(data)]
  PROVE  Done(k, d)
<1>1. PICK i : i = First(Id \ Used(k))
  OBVIOUS
<1>2. Used(k) # Id
  BY DEF Opened
<1>3. i \in Id \ Used(k) /\ k.slot \in Table /\ k \in State
  BY <1>1, <1>2, FreeSlot, Fields DEF Good
<1>4. PICK f : f = Referring(n, data)
  OBVIOUS
<1>5. data \in Contents /\ data \in Seq(Nat) /\ Len(data) \in Nat
  BY ContentsFacts DEF Contents
<1>6. /\ f \in File /\ f.name = n /\ f.offset = 0 /\ f.capacity = 0
      /\ f.length = Len(data) /\ f.external = data
  BY <1>4, <1>5 DEF Referring, Fresh, File
<1>7. d = Adding(k, i, f)
  <2>1. open(k, n, TRUE) = [k EXCEPT !.slot[i] = Fresh(n)]
    BY <1>1 DEF open
  <2>2. PICK e : e = Fresh(n)
    OBVIOUS
  <2>3. PICK m : m = [k EXCEPT !.slot[i] = e]
    OBVIOUS
  <2>4. d = [m EXCEPT !.slot[i].external = data, !.slot[i].length = Len(data)]
    BY <1>1, <2>1, <2>2, <2>3
  <2>5. f = [e EXCEPT !.external = data, !.length = Len(data)]
    BY <1>4, <2>2 DEF Referring
  <2>6. m = [k EXCEPT !.slot = [k.slot EXCEPT ![i] = e]]
    BY <1>3, <2>3 DEF State
  <2>7. m.slot = [k.slot EXCEPT ![i] = e]
    BY <1>3, <2>6 DEF State
  <2>8. d = [m EXCEPT !.slot = [m.slot EXCEPT ![i] = f]]
    <3>1. PICK x : x = [m EXCEPT !.slot[i].external = data]
      OBVIOUS
    <3>2. PICK y : y = [e EXCEPT !.external = data]
      OBVIOUS
    <3>3. m \in State /\ m.slot[i] = e /\ e \in File
      <4>1. e \in File
        BY <2>2, FreshFile
      <4>2. m.slot \in Table /\ m.slot[i] = e
        BY <1>3, <2>7, <4>1 DEF Table
      <4> QED BY <1>3, <2>6, <2>7, <4>1, <4>2 DEF State
    <3>4. x = [m EXCEPT !.slot = [m.slot EXCEPT ![i] = y]]
      BY <3>1, <3>2, <3>3 DEF State, Table
    <3>5. x.slot = [m.slot EXCEPT ![i] = y] /\ x.slot[i] = y
      BY <1>3, <3>3, <3>4 DEF State, Table
    <3>6. d = [x EXCEPT !.slot[i].length = Len(data)]
      BY <2>4, <3>1
    <3>7. f = [y EXCEPT !.length = Len(data)]
      BY <2>5, <3>2
    <3>8. d = [x EXCEPT !.slot = [x.slot EXCEPT ![i] = f]]
      BY <3>3, <3>4, <3>5, <3>6, <3>7 DEF State, Table
    <3>9. [x.slot EXCEPT ![i] = f] = [m.slot EXCEPT ![i] = f]
      BY <1>3, <3>3, <3>5 DEF State, Table
    <3> QED BY <3>3, <3>4, <3>8, <3>9 DEF State
  <2>9. [m.slot EXCEPT ![i] = f] = [k.slot EXCEPT ![i] = f]
    BY <1>3, <2>7 DEF Table
  <2>10. d = [k EXCEPT !.slot = [k.slot EXCEPT ![i] = f]]
    BY <1>3, <2>6, <2>8, <2>9 DEF State
  <2> QED BY <1>3, <2>10 DEF Adding, State
<1>8. Adds(k, d, i, f)
  <2>1. find(k, f.name) = {} /\ f.external \in Contents /\ (f.external = <<>> => f.length = 0)
    BY <1>5, <1>6
  <2> QED BY <1>3, <1>6, <1>7, <2>1, AddKeeps
<1>9. Good(d) /\ Files(d) = With(Files(k), n, data)
  BY <1>6, <1>8 DEF Adds, With
<1>10. StoreTo(k, d)
  BY <1>5, <1>9, WriteStep
<1> QED BY <1>9, <1>10 DEF Done

(* A change of the handles of one process, or of the boot flag.            *)
LEMMA HandlesDone ==
  ASSUME NEW k, Good(k), NEW m, Good(m), StoreTo(k, m), NEW c \in Opens, NEW d,
         d = [m EXCEPT !.caps = c]
  PROVE  Done(k, d)
<1>1. m \in State
  BY DEF Good
<1>2. d \in State /\ d.slot = m.slot /\ d.bytes = m.bytes /\ d.used = m.used
  BY <1>1 DEF State
<1>3. Good(d) /\ Files(d) = Files(m)
  BY <1>2, SameFiles
<1> QED BY <1>3 DEF Done, StoreTo

(* Opening by name, for a handle or for touch.                             *)
LEMMA OpenStep ==
  ASSUME RamfsConstants, NEW k, Good(k), NEW n \in Names, NEW create \in BOOLEAN,
         NEW d, d = open(k, n, create)
  PROVE  /\ Done(k, d) /\ d.caps = k.caps
         /\ Opened(k, n, create) # {} => First(Opened(k, n, create)) \in Id
<1>1. Opening(k, d, n) /\ (Opened(k, n, create) # {} => First(Opened(k, n, create)) \in Id)
  BY OpenKeeps
<1>2. Good(d) /\ d.caps = k.caps /\ (Files(d) = Files(k) \/ Created(k, d, n))
  BY <1>1 DEF Opening, Keeps
<1>3. StoreTo(k, d)
  BY <1>2, CreateStep DEF StoreTo
<1> QED BY <1>1, <1>2, <1>3 DEF Done

(* System call 9.                                                          *)
LEMMA OpenFileDone ==
  ASSUME RamfsConstants, Good(s), NEW p \in Procs, NEW n \in Names, NEW create \in BOOLEAN,
         OpenFile(p, n, create)
  PROVE  Done(s, s')
<1>1. PICK m : m = open(s, n, create)
  OBVIOUS
<1>2. PICK h : h = First(Opened(s, n, create))
  OBVIOUS
<1>3. /\ s' = [m EXCEPT !.caps[p] = IF Cardinality(@) >= Handles THEN @ ELSE @ \cup {h}]
      /\ Opened(s, n, create) # {}
  BY <1>1, <1>2 DEF OpenFile
<1>4. Done(s, m) /\ m.caps = s.caps /\ h \in Id
  BY <1>1, <1>2, <1>3, OpenStep
<1>5. Good(m) /\ m \in State /\ m.caps \in Opens /\ StoreTo(s, m)
  BY <1>4 DEF Done, Good, State
<1>6. PICK c : c = [m.caps EXCEPT ![p] = IF Cardinality(@) >= Handles THEN @ ELSE @ \cup {h}]
  OBVIOUS
<1>7. c \in Opens
  BY <1>4, <1>5, <1>6 DEF Opens
<1>8. s' = [m EXCEPT !.caps = c]
  BY <1>3, <1>5, <1>6 DEF State
<1> QED BY <1>5, <1>7, <1>8, HandlesDone

(* System call 6 through a handle, whatever file is in its slot now.       *)
LEMMA WriteFileDone ==
  ASSUME RamfsConstants, Good(s), NEW p \in Procs, NEW h, NEW data \in Data, WriteFile(p, h, data)
  PROVE  Done(s, s')
<1>1. data \in Contents /\ CanStore(s, h, data) /\ s' = store(s, h, data)
  BY DEF WriteFile, Contents
<1>2. PICK n, d : n = s.slot[h].name /\ d = s'
  OBVIOUS
<1>3. Good(d) /\ n \in Names /\ Files(d) = With(Files(s), n, data)
  BY <1>1, <1>2, StoreKeeps DEF With
<1>4. StoreTo(s, d)
  BY <1>1, <1>3, WriteStep
<1> QED BY <1>2, <1>3, <1>4 DEF Done

(* System calls 43 and 44, and rm.                                         *)
LEMMA NamedDone ==
  ASSUME RamfsConstants, Good(s), NEW n \in Names,
         ramfs_delete(n) \/ \E new \in Names : ramfs_rename(n, new)
  PROVE  Done(s, s')
<1>1. CASE ramfs_delete(n)
  <2>1. PICK i \in find(s, n) : s' = release(s, i)
    BY <1>1 DEF ramfs_delete
  <2>2. i \in Used(s) /\ s.slot[i].name = n
    BY <2>1 DEF find
  <2>3. PICK d : d = s'
    OBVIOUS
  <2>4. Good(d) /\ Files(d) = [Files(s) EXCEPT ![s.slot[i].name] = Absent]
    BY <2>1, <2>2, <2>3, ReleaseKeeps
  <2>5. Files(d) = With(Files(s), n, Absent)
    BY <2>2, <2>4 DEF With
  <2>6. Files(s)[n] # Absent
    BY <2>1, Found
  <2>7. StoreTo(s, d)
    BY <2>5, <2>6, DeleteStep
  <2> QED BY <2>3, <2>4, <2>7 DEF Done
<1>2. ASSUME NEW new \in Names, ramfs_rename(n, new) PROVE Done(s, s')
  <2>1. PICK i \in find(s, n) : s' = Renaming(s, i, new)
    BY <1>2 DEF ramfs_rename, Renaming
  <2>2. i \in Used(s) /\ s.slot[i].name = n /\ find(s, new) = {}
    BY <1>2, <2>1 DEF find, ramfs_rename
  <2>3. PICK d : d = s'
    OBVIOUS
  <2>4. Good(d) /\ s.slot[i].name # new /\ Files(d) = Moved(Files(s), s.slot[i].name, new)
    BY <2>1, <2>2, <2>3, RenameKeeps
  <2>5. Files(s)[n] # Absent
    BY <2>1, Found
  <2>6. n # new /\ Files(d) = Moved(Files(s), n, new)
    BY <2>2, <2>4
  <2>7. StoreTo(s, d)
    BY <2>5, <2>6, MoveStep
  <2> QED BY <2>3, <2>4, <2>7 DEF Done
<1> QED BY <1>1, <1>2

(* cp and mv.                                                              *)
LEMMA CopyingDone ==
  ASSUME RamfsConstants, Good(s), NEW n \in Names, NEW new \in Names,
         applet_cp(n, new) \/ applet_mv(n, new)
  PROVE  Done(s, s')
<1>1. find(s, n) # {}
  BY DEF applet_cp, applet_mv
<1>2. PICK m : m = copy_file(s, n, new)
  OBVIOUS
<1>3. Done(s, m)
  BY <1>1, <1>2, CopyDone
<1>4. s' = m \/ (CopyFits(s, n, new) /\ s' = release(m, First(find(m, n))))
  BY <1>2 DEF applet_cp, applet_mv
<1>5. CASE s' = m
  BY <1>3, <1>5
<1>6. CASE CopyFits(s, n, new) /\ s' = release(m, First(find(m, n)))
  <2>1. PICK d : d = s'
    OBVIOUS
  <2>2. Done(s, d)
    BY <1>1, <1>2, <1>6, <2>1, MoveDone
  <2> QED BY <2>1, <2>2
<1> QED BY <1>4, <1>5, <1>6

(* Boot modules, the shell's write and touch.                              *)
LEMMA WritingDone ==
  ASSUME RamfsConstants, Good(s), NEW n \in Names,
         \/ \E data \in Data : ramfs_seed(n, data) \/ applet_write(n, data)
         \/ \E data \in Modules : ramfs_seed_reference(n, data)
         \/ applet_touch(n)
  PROVE  Done(s, s')
<1>1. PICK d : d = s'
  OBVIOUS
<1>2. ASSUME NEW data \in Data, ramfs_seed(n, data) \/ applet_write(n, data) PROVE Done(s, d)
  <2>1. data \in Contents /\ d = Put(s, n, data)
    BY <1>1, <1>2 DEF ramfs_seed, applet_write, Contents
  <2> QED BY <2>1, PutStep
<1>3. ASSUME NEW data \in Modules, ramfs_seed_reference(n, data) PROVE Done(s, d)
  <2>1. /\ find(s, n) = {} /\ Opened(s, n, TRUE) # {}
        /\ d = [open(s, n, TRUE) EXCEPT !.slot[First(Id \ Used(s))].external = data,
                                        !.slot[First(Id \ Used(s))].length = Len(data)]
    BY <1>1, <1>3 DEF ramfs_seed_reference
  <2> QED BY <2>1, Reference
<1>4. CASE applet_touch(n)
  <2>1. d = open(s, n, TRUE)
    BY <1>1, <1>4 DEF applet_touch
  <2>2. Done(s, d)
    BY <2>1, OpenStep
  <2> QED BY <1>1, <2>2
<1> QED BY <1>1, <1>2, <1>3, <1>4

(* System call 8 and the end of the boot.                                  *)
LEMMA HandleDone ==
  ASSUME RamfsConstants, Good(s), Booted \/ \E p \in Procs : \E h \in s.caps[p] : CloseHandle(p, h)
  PROVE  Done(s, s')
<1>1. s \in State /\ s.caps \in Opens
  BY DEF Good, State
<1>2. CASE Booted
  <2>1. PICK d : d = s'
    OBVIOUS
  <2>2. d \in State /\ d.slot = s.slot /\ d.bytes = s.bytes /\ d.used = s.used
    BY <1>1, <1>2, <2>1 DEF Booted, State
  <2>3. Good(d) /\ Files(d) = Files(s)
    BY <2>2, SameFiles
  <2> QED BY <2>1, <2>3 DEF Done, StoreTo
<1>3. ASSUME NEW p \in Procs, NEW h \in s.caps[p], CloseHandle(p, h) PROVE Done(s, s')
  <2>1. PICK d, c : d = s' /\ c = [s.caps EXCEPT ![p] = @ \ {h}]
    OBVIOUS
  <2>2. c \in Opens
    BY <1>1, <2>1 DEF Opens
  <2>3. d = [s EXCEPT !.caps = c]
    BY <1>1, <1>3, <2>1 DEF CloseHandle, State
  <2>4. StoreTo(s, s)
    BY DEF StoreTo
  <2>5. Done(s, d)
    BY <2>2, <2>3, <2>4, HandlesDone
  <2> QED BY <2>1, <2>5
<1> QED BY <1>2, <1>3

(* Every step keeps the invariant and is a step of the file store.         *)
LEMMA NextDone ==
  ASSUME RamfsConstants, Good(s), Next
  PROVE  Done(s, s')
<1>1. ASSUME NEW n \in Names,
             \/ \E data \in Data : ramfs_seed(n, data) \/ applet_write(n, data)
             \/ \E data \in Modules : ramfs_seed_reference(n, data)
             \/ ramfs_delete(n) \/ applet_touch(n)
             \/ \E new \in Names : ramfs_rename(n, new) \/ applet_cp(n, new) \/ applet_mv(n, new)
             \/ \E p \in Procs, create \in BOOLEAN : OpenFile(p, n, create)
      PROVE  Done(s, s')
  <2>1. CASE \/ \E data \in Data : ramfs_seed(n, data) \/ applet_write(n, data)
             \/ \E data \in Modules : ramfs_seed_reference(n, data)
             \/ applet_touch(n)
    BY <2>1, WritingDone
  <2>2. CASE ramfs_delete(n) \/ \E new \in Names : ramfs_rename(n, new)
    BY <2>2, NamedDone
  <2>3. CASE \E new \in Names : applet_cp(n, new) \/ applet_mv(n, new)
    BY <2>3, CopyingDone
  <2>4. CASE \E p \in Procs, create \in BOOLEAN : OpenFile(p, n, create)
    BY <2>4, OpenFileDone
  <2> QED BY <1>1, <2>1, <2>2, <2>3, <2>4
<1>2. CASE Booted \/ \E p \in Procs : \E h \in s.caps[p] : CloseHandle(p, h)
  BY <1>2, HandleDone
<1>3. CASE \E p \in Procs : \E h \in s.caps[p] : \E data \in Data : WriteFile(p, h, data)
  BY <1>3, WriteFileDone
<1> QED BY <1>1, <1>2, <1>3 DEF Next

(* An empty table.                                                         *)
LEMMA InitGood == ASSUME RamfsConstants, Init PROVE Good(s)
<1>1. PICK k : k = s
  OBVIOUS
<1>2. k = [slot |-> [i \in Id |-> Free], bytes |-> [n \in 1..Storage |-> 0], used |-> 0,
           caps |-> [p \in Procs |-> {}], boot |-> TRUE]
  BY <1>1 DEF Init
<1>3. Storage \in Nat
  BY DEF RamfsConstants
<1>4. k \in State
  BY <1>2, <1>3 DEF State, Table, Arena, Opens
<1>5. Used(k) = {}
  BY <1>2 DEF Used
<1>6. Good(k)
  BY <1>4, <1>5 DEF Good, Named, Inside, Disjoint, Written
<1> QED BY <1>1, <1>6

(***************************************************************************)
(* The theorems.                                                           *)
(***************************************************************************)
(* In every state of ramfs.cpp a name has one file, the extents lie in the *)
(* storage handed out and share no byte, and every file holds contents     *)
(* somebody wrote.                                                         *)
THEOREM RamfsIsSound == RamfsConstants /\ Spec => []Good(s)
<1> SUFFICES ASSUME RamfsConstants PROVE Spec => []Good(s)
  OBVIOUS
<1>1. Init => Good(s)
  BY InitGood
<1>2. Good(s) /\ [Next]_vars => Good(s)'
  <2>1. ASSUME Good(s), Next PROVE Good(s)'
    BY <2>1, NextDone DEF Done
  <2>2. ASSUME Good(s), UNCHANGED vars PROVE Good(s)'
    BY <2>2 DEF vars
  <2> QED BY <2>1, <2>2
<1> QED BY <1>1, <1>2, PTL DEF Spec

(* ramfs.cpp implements the file store: every operation of it changes one  *)
(* file, copies one or moves one, and a write that does not fit leaves     *)
(* every other file as it was.                                             *)
THEOREM RamfsImplementsFileStore == RamfsConstants /\ Spec => ImplementsFileStore
<1> SUFFICES ASSUME RamfsConstants PROVE Spec => ImplementsFileStore
  OBVIOUS
<1>1. Spec => []Good(s)
  BY RamfsIsSound, PTL
<1>2. Good(s) /\ [Next]_vars => [StoreStep]_vars
  <2>1. ASSUME Good(s), Next PROVE StoreStep
    BY <2>1, NextDone DEF Done, StoreTo, StoreStep
  <2> QED BY <2>1
<1> QED BY <1>1, <1>2, PTL DEF Spec, ImplementsFileStore

(***************************************************************************)
(* The disk installer and the tones (Disk), for every image, disk, sector  *)
(* and chunk.                                                              *)
(*                                                                         *)
(* Installed says what the disk holds up to the next chunk's place, that   *)
(* nothing is behind it, and that a command the drive may still carry out  *)
(* after a timeout writes the image's own bytes in their places.           *)
(***************************************************************************)
CONSTANTS Images, DiskSectors, SECTOR, CHUNK, TYPED, BUFFERS
Drive == INSTANCE Disk

Size == CHUNK * SECTOR
Command == [at : Nat, bytes : Seq(Nat)]
Phase == {"check", "confirm", "console", "writing", "waiting", "failed", "complete"}
Track == UNION {[1..n -> Nat] : n \in Nat}
Installer == [started : BOOLEAN, image : Images, size : DiskSectors, disk : Track, command : Command,
              stuck : BOOLEAN, phase : Phase, line : Seq(Drive!Letters), typed : Nat, offset : Nat, lba : Nat,
              ready : BOOLEAN, submitted : Nat, playing : Nat, pcm : Nat, halted : BOOLEAN, heard : Nat, cut : BOOLEAN]

(* The image as it will be on the disk, and where it ends.                 *)
Laid(k, i) == IF i <= Len(k.image) THEN k.image[i] ELSE 0
Pad(n) == (Size - 1) - ((n + Size - 1) % Size)
End(k) == Len(k.image) + Pad(Len(k.image))
Base(k) == k.lba * SECTOR

(* The disk holds the image up to n, and its old bytes behind that.        *)
UpTo(k, n) == \A i \in DOMAIN k.disk : (i <= n => k.disk[i] = Laid(k, i)) /\ (i > n => k.disk[i] = 9)

(* Where the installer is in the image and on the disk.                    *)
Placed(k) ==
  /\ k.image # <<>> /\ k.offset <= Len(k.image)
  /\ k.offset < Len(k.image) => Base(k) = k.offset /\ \E n \in Nat : k.offset = n * Size
  /\ k.offset = Len(k.image) => Base(k) = End(k)

(* What it has written, phase by phase.                                    *)
Progress(k) ==
  /\ k.phase \in {"check", "confirm", "console"} => k.lba = 0 /\ k.offset = 0 /\ UpTo(k, 0) /\ k.command = Drive!None
  /\ k.phase = "confirm" => k.image # <<>>
  /\ k.phase \in {"writing", "complete"} => Placed(k) /\ UpTo(k, Base(k)) /\ k.command = Drive!None
  /\ k.phase = "complete" => k.offset = Len(k.image)
  /\ k.phase = "waiting" => Placed(k) /\ k.offset < Len(k.image)
  /\ k.phase = "waiting" /\ k.command = Drive!None => UpTo(k, Base(k) + Size)
  /\ k.phase = "waiting" /\ k.command # Drive!None => UpTo(k, Base(k)) /\ k.command.at = Base(k) /\ Len(k.command.bytes) = Size

(* Whatever happens, nothing but the image in its place.                   *)
Exact(k) ==
  /\ \A i \in DOMAIN k.disk : k.disk[i] = 9 \/ (i <= End(k) /\ k.disk[i] = Laid(k, i))
  /\ \A j \in 1..Len(k.command.bytes) : k.command.at + j <= End(k) /\ k.command.bytes[j] = Laid(k, k.command.at + j)
Installed(k) == Progress(k) /\ Exact(k)

(* The controller has halted only on the last buffer.                      *)
Played(k) == k.playing = k.submitted /\ k.pcm = k.submitted /\ (k.halted => k.heard = k.pcm) /\ ~k.cut
Kept(k) == k \in Installer /\ Installed(k) /\ Played(k)

(* Arithmetic of chunks.                                                   *)
LEMMA ChunkSize ==
  ASSUME Drive!DiskConstants
  PROVE  Size \in Nat /\ Size > 0 /\ SECTOR \in Nat /\ SECTOR > 0 /\ CHUNK \in Nat /\ CHUNK > 0
BY DEF Drive!DiskConstants, Size

(* What is left when whole chunks are taken away.                          *)
LEMMA Remainder ==
  ASSUME NEW z \in Nat, z > 0, NEW q \in Nat, NEW r \in 0..(z - 1)
  PROVE  (q * z + r) % z = r
OBVIOUS

(* The padding completes the last chunk.                                   *)
LEMMA PadIsShort ==
  ASSUME Drive!DiskConstants, NEW n \in Nat
  PROVE  Pad(n) \in Nat /\ Pad(n) < Size
<1>1. PICK z \in Nat : z = Size /\ z > 0
  BY ChunkSize
<1>2. (n + z - 1) % z \in 0..(z - 1)
  BY <1>1
<1> QED BY <1>1, <1>2 DEF Pad

LEMMA PadCompletes ==
  ASSUME Drive!DiskConstants, NEW n \in Nat, NEW q \in Nat, NEW m \in Nat, m = q * Size, m < n, n <= m + Size
  PROVE  n + Pad(n) = m + Size
<1>1. PICK z \in Nat : z = Size /\ z > 0
  BY ChunkSize
<1>2. PICK r \in 0..(z - 1) : n = m + 1 + r
  <2>1. n - m - 1 \in 0..(z - 1) /\ n = m + 1 + (n - m - 1)
    BY <1>1
  <2> QED BY <2>1
<1>3. (q + 1) * z = m + z
  BY <1>1
<1>4. n + z - 1 = (q + 1) * z + r
  BY <1>1, <1>2, <1>3
<1>5. q + 1 \in Nat
  OBVIOUS
<1>6. ((q + 1) * z + r) % z = r
  BY <1>1, <1>5, Remainder
<1>7. Pad(n) = z - 1 - r
  BY <1>1, <1>4, <1>6 DEF Pad
<1> QED BY <1>1, <1>2, <1>7

(* A piece of an image.                                                    *)
Piece(image, o, m, c) == c \in Seq(Nat) /\ Len(c) = m /\ \A j \in 1..m : c[j] = image[o + j]
LEMMA Slice ==
  ASSUME NEW image \in Seq(Nat), NEW o \in Nat, NEW m \in Nat, m > 0, o + m <= Len(image),
         NEW c, c = SubSeq(image, o + 1, o + m)
  PROVE  Piece(image, o, m, c)
<1>1. Len(image) \in Nat /\ o + 1 \in 1..Len(image) + 1 /\ o + m \in (o + 1) - 1..Len(image)
  OBVIOUS
<1>2. c \in Seq(Nat) /\ Len(c) = o + m - (o + 1) + 1 /\ \A j \in 1..o + m - (o + 1) + 1 : c[j] = image[o + 1 + j - 1]
  BY <1>1, SubSeqProperties
<1>3. o + m - (o + 1) + 1 = m /\ \A j \in 1..m : o + 1 + j - 1 = o + j
  OBVIOUS
<1> QED BY <1>2, <1>3 DEF Piece

(* The chunk that is handed over is the next piece of the image.           *)
LEMMA ChunkIsLaid ==
  ASSUME Drive!DiskConstants, s \in Installer, s.offset < Len(s.image), NEW c, c = Drive!Chunk
  PROVE  c \in Seq(Nat) /\ Len(c) = Size /\ \A j \in 1..Size : c[j] = Laid(s, s.offset + j)
<1>1. PICK z \in Nat : z = Size /\ z = CHUNK * SECTOR /\ z > 0
  BY ChunkSize DEF Size
<1>2. PICK image, n, o : /\ image = s.image /\ n = Len(image) /\ o = s.offset
                         /\ image \in Seq(Nat) /\ n \in Nat /\ o \in Nat /\ o < n
  <2>1. s.image \in Seq(Nat) /\ s.offset \in Nat
    BY DEF Installer, Drive!DiskConstants
  <2> QED BY <2>1
<1>3. \A i \in 1..n : image[i] \in Nat
  BY <1>2
<1>4. \A j \in Nat : Laid(s, o + j) = IF o + j <= n THEN image[o + j] ELSE 0
  BY <1>2 DEF Laid
<1>5. CASE n - o >= z
  <2>1. c = SubSeq(image, o + 1, o + z)
    BY <1>1, <1>2, <1>5 DEF Drive!Chunk
  <2>2. c \in Seq(Nat) /\ Len(c) = z /\ \A j \in 1..z : c[j] = image[o + j]
    <3>1. o + z <= Len(image)
      BY <1>1, <1>2, <1>5
    <3>2. Piece(image, o, z, c)
      BY <1>1, <1>2, <2>1, <3>1, Slice
    <3> QED BY <3>2 DEF Piece
  <2>3. ASSUME NEW j \in 1..z PROVE c[j] = Laid(s, o + j)
    <3>1. o + j <= n /\ j \in Nat
      BY <1>1, <1>2, <1>5
    <3> QED BY <1>4, <2>2, <3>1
  <2> QED BY <1>1, <1>2, <2>2, <2>3
<1>6. CASE n - o < z
  <2>1. PICK rest \in Nat : rest = n - o
    BY <1>2
  <2>2. PICK a, b : a = SubSeq(image, o + 1, n) /\ b = [i \in 1..(z - rest) |-> 0]
    OBVIOUS
  <2>3. c = a \o b
    <3>1. ~(n - o >= z)
      BY <1>1, <1>2, <1>6
    <3> QED BY <1>1, <1>2, <2>1, <2>2, <3>1, Zenon DEF Drive!Chunk
  <2>4. a \in Seq(Nat) /\ Len(a) = rest /\ \A j \in 1..rest : a[j] = image[o + j]
    <3>1. o + rest = n /\ o + rest <= Len(image) /\ rest > 0
      BY <1>2, <2>1
    <3>2. a = SubSeq(image, o + 1, o + rest)
      BY <2>2, <3>1
    <3>3. Piece(image, o, rest, a)
      BY <1>2, <2>1, <3>1, <3>2, Slice
    <3> QED BY <3>3 DEF Piece
  <2>5. z - rest \in Nat
    BY <1>1, <1>6, <2>1
  <2>6. b \in Seq(Nat) /\ Len(b) = z - rest /\ \A j \in 1..(z - rest) : b[j] = 0
    BY <2>2, <2>5
  <2>7. c \in Seq(Nat) /\ Len(c) = z
    BY <1>1, <2>1, <2>3, <2>4, <2>5, <2>6
  <2>8. ASSUME NEW j \in 1..z PROVE c[j] = Laid(s, o + j)
    <3>1. CASE j <= rest
      <4>1. c[j] = a[j]
        BY <2>3, <2>4, <2>6, <3>1
      <4>2. o + j <= n /\ j \in Nat /\ j \in 1..rest
        BY <1>2, <2>1, <3>1
      <4> QED BY <1>4, <2>4, <4>1, <4>2
    <3>2. CASE j > rest
      <4>1. j - rest \in 1..(z - rest) /\ j \in (rest + 1)..z
        BY <1>1, <2>1, <3>2
      <4>2. c[j] = b[j - rest]
        <5>3. \A i \in 1..Len(a) + Len(b) : (a \o b)[i] = IF i <= Len(a) THEN a[i] ELSE b[i - Len(a)]
          <6>1. a \in Seq(Nat) /\ b \in Seq(Nat)
            BY <2>4, <2>6
          <6> QED BY <6>1, ConcatProperties
        <5>1. \A i \in 1..Len(a) + Len(b) : c[i] = IF i <= Len(a) THEN a[i] ELSE b[i - Len(a)]
          BY <2>3, <5>3, Zenon
        <5>2. j \in 1..rest + (z - rest) /\ ~(j <= rest)
          BY <1>1, <2>1, <3>2
        <5> QED BY <2>4, <2>6, <5>1, <5>2
      <4>3. Laid(s, o + j) = 0
        <5>1. ~(o + j <= n) /\ j \in Nat
          BY <1>2, <2>1, <3>2
        <5> QED BY <1>4, <5>1
      <4> QED BY <2>6, <4>1, <4>2, <4>3
    <3> QED BY <2>1, <3>1, <3>2
  <2> QED BY <1>1, <1>2, <2>7, <2>8
<1> QED BY <1>1, <1>2, <1>5, <1>6

(* Steps of the installer leave the sound alone, and the other way round.  *)
SameSound(k, d) == /\ d.submitted = k.submitted /\ d.playing = k.playing /\ d.pcm = k.pcm /\ d.halted = k.halted
                   /\ d.heard = k.heard /\ d.cut = k.cut
SameImage(k, d) == d.image = k.image /\ d.offset = k.offset /\ d.lba = k.lba
SameDisk(k, d) == SameImage(k, d) /\ d.disk = k.disk /\ d.command = k.command

LEMMA SoundStays ==
  ASSUME NEW k, Played(k), NEW d, SameSound(k, d)
  PROVE  Played(d)
BY DEF Played, SameSound

LEMMA DiskStays ==
  ASSUME NEW k, NEW d, SameDisk(k, d)
  PROVE  /\ Exact(k) => Exact(d)
         /\ Placed(k) => Placed(d)
         /\ \A n : UpTo(k, n) => UpTo(d, n)
         /\ Base(d) = Base(k)
         /\ d.phase = k.phase /\ Progress(k) => Progress(d)
<1>1. Base(d) = Base(k) /\ End(d) = End(k) /\ \A i : Laid(d, i) = Laid(k, i)
  BY DEF SameDisk, SameImage, Base, End, Laid
<1>2. Exact(k) => Exact(d)
  BY <1>1 DEF SameDisk, Exact
<1>3. Placed(k) => Placed(d)
  BY <1>1 DEF SameDisk, SameImage, Placed
<1>4. \A n : UpTo(k, n) => UpTo(d, n)
  BY <1>1 DEF SameDisk, UpTo
<1>5. d.phase = k.phase /\ Progress(k) => Progress(d)
  BY <1>1, <1>3, <1>4 DEF SameDisk, SameImage, Progress
<1> QED BY <1>1, <1>2, <1>3, <1>4, <1>5

(* The sound driver and its card.                                          *)
LEMMA SoundKeeps ==
  ASSUME Kept(s), Drive!CardPlays \/ \E ms \in {1, 90} : Drive!play_bleep(ms)
  PROVE  Kept(s')
<1>1. s \in Installer /\ Installed(s) /\ Played(s)
  BY DEF Kept
<1>2. CASE Drive!CardPlays
  <2>1. s' = [s EXCEPT !.heard = s.pcm, !.halted = TRUE]
    BY <1>2 DEF Drive!CardPlays
  <2>2. s' \in Installer /\ SameDisk(s, s') /\ s'.phase = s.phase
    BY <1>1, <2>1 DEF Installer, SameDisk, SameImage
  <2>3. /\ s'.submitted = s.submitted /\ s'.playing = s.playing /\ s'.pcm = s.pcm
        /\ s'.heard = s.pcm
    BY <1>1, <2>1 DEF Installer
  <2>4. s'.cut = s.cut
    BY <1>1, <2>1 DEF Installer
  <2>5. Played(s')
    BY <1>1, <2>3, <2>4 DEF Played
  <2> QED BY <1>1, <2>2, <2>5, DiskStays DEF Kept, Installed
<1>3. CASE \E ms \in {1, 90} : Drive!play_bleep(ms)
  <2>1. PICK ms \in {1, 90} : Drive!play_bleep(ms)
    BY <1>3
  <2>2. s.submitted # 0 => s.halted
    BY <2>1 DEF Drive!play_bleep, Drive!ac97_submit
  <2>3. PICK n \in Nat : n = s.submitted + 1
    BY <1>1 DEF Installer
  <2>4. PICK cut \in BOOLEAN : cut = (s.cut \/ (s.playing # 0 /\ s.heard # s.playing))
    OBVIOUS
  <2>5. ~cut
    BY <1>1, <2>2, <2>4 DEF Played
  <2>6. s' = [s EXCEPT !.pcm = n, !.submitted = n, !.playing = n, !.halted = FALSE, !.cut = cut]
    <3>1. s' = [s EXCEPT !.pcm = s.submitted + 1, !.submitted = @ + 1, !.playing = s.submitted + 1, !.halted = FALSE,
                         !.cut = @ \/ (s.playing # 0 /\ s.heard # s.playing)]
      BY <2>1 DEF Drive!play_bleep, Drive!ac97_submit
    <3> QED BY <2>3, <2>4, <3>1, Zenon
  <2>7. s' \in Installer /\ SameDisk(s, s') /\ s'.phase = s.phase
    BY <1>1, <2>6 DEF Installer, SameDisk, SameImage
  <2>8. s'.pcm = n /\ s'.submitted = n /\ s'.playing = n
    BY <1>1, <2>6 DEF Installer
  <2>9. ~s'.halted
    BY <1>1, <2>6 DEF Installer
  <2>10. ~s'.cut
    BY <1>1, <2>5, <2>6 DEF Installer
  <2>11. Played(s')
    BY <2>8, <2>9, <2>10 DEF Played
  <2> QED BY <1>1, <2>7, <2>11, DiskStays DEF Kept, Installed
<1> QED BY <1>2, <1>3

(* The last chunk ends where the padded image does, and the others before. *)
LEMMA ChunkFits ==
  ASSUME Drive!DiskConstants, NEW k \in Installer, Placed(k), k.offset < Len(k.image)
  PROVE  /\ k.offset + Size <= End(k) /\ Len(k.image) <= End(k) /\ End(k) \in Nat
         /\ Len(k.image) <= k.offset + Size => End(k) = k.offset + Size
<1>1. PICK n, m, z : /\ n = Len(k.image) /\ m = k.offset /\ z = Size
                     /\ n \in Nat /\ m \in Nat /\ z \in Nat /\ z > 0 /\ m < n
  <2>1. k.image \in Seq(Nat) /\ k.offset \in Nat
    BY DEF Installer, Drive!DiskConstants
  <2> QED BY <2>1, ChunkSize
<1>2. PICK q \in Nat : m = q * Size
  BY <1>1 DEF Placed
<1>3. End(k) = n + Pad(n) /\ Pad(n) \in Nat
  BY <1>1, PadIsShort DEF End
<1>4. n <= m + z => n + Pad(n) = m + z
  BY <1>1, <1>2, PadCompletes
<1> QED BY <1>1, <1>3, <1>4

(* A step that leaves disk, command and places alone, and goes on to the   *)
(* phase p.                                                                *)
LEMMA PhaseKeeps ==
  ASSUME NEW k, Kept(k), NEW d \in Installer, SameDisk(k, d), SameSound(k, d),
         \/ d.phase = k.phase
         \/ d.phase = "console" /\ k.phase \in {"check", "confirm"}
         \/ d.phase = "confirm" /\ k.phase = "check" /\ k.image # <<>>
         \/ d.phase = "writing" /\ k.phase = "confirm" /\ Placed(k) /\ Base(k) = 0
         \/ d.phase = "complete" /\ k.phase = "writing" /\ k.offset = Len(k.image)
         \/ d.phase = "failed"
  PROVE  Kept(d)
<1>1. Exact(k) /\ Progress(k) /\ Played(k)
  BY DEF Kept, Installed
<1>2. Exact(d) /\ Played(d)
  BY <1>1, DiskStays, SoundStays
<1>3. (Placed(k) => Placed(d)) /\ Base(d) = Base(k) /\ (d.phase = k.phase => Progress(d)) /\ \A n : UpTo(k, n) => UpTo(d, n)
  BY <1>1, DiskStays
<1>4. d.image = k.image /\ d.offset = k.offset /\ d.lba = k.lba /\ d.command = k.command
  BY DEF SameDisk, SameImage
<1>5. Progress(d)
  <2>1. CASE d.phase = "console" /\ k.phase \in {"check", "confirm"}
    BY <1>1, <1>3, <1>4, <2>1 DEF Progress
  <2>2. CASE d.phase = "confirm" /\ k.phase = "check" /\ k.image # <<>>
    BY <1>1, <1>3, <1>4, <2>2 DEF Progress
  <2>3. CASE d.phase = "writing" /\ k.phase = "confirm" /\ Placed(k) /\ Base(k) = 0
    BY <1>1, <1>3, <1>4, <2>3 DEF Progress
  <2>4. CASE d.phase = "complete" /\ k.phase = "writing" /\ k.offset = Len(k.image)
    BY <1>1, <1>3, <1>4, <2>4 DEF Progress
  <2>5. CASE d.phase = "failed"
    BY <2>5 DEF Progress
  <2> QED BY <1>3, <2>1, <2>2, <2>3, <2>4, <2>5
<1> QED BY <1>2, <1>5 DEF Kept, Installed

(* One field changes that is not part of it.                               *)
LEMMA CheckKeeps ==
  ASSUME Drive!DiskConstants, Kept(s), Drive!Check \/ Drive!DriveSticks \/ Drive!WriteTimedOut
  PROVE  Kept(s')
<1>1. s \in Installer
  BY DEF Kept
<1>2. CASE Drive!Check
  <2>1. PICK p \in Phase : /\ s' = [s EXCEPT !.phase = p] /\ s.phase = "check"
                           /\ p = "console" \/ (p = "confirm" /\ s.image # <<>>)
    BY <1>2 DEF Drive!Check, Phase
  <2>2. s' \in Installer /\ SameDisk(s, s') /\ SameSound(s, s') /\ s'.phase = p
    BY <1>1, <2>1 DEF Installer, SameDisk, SameImage, SameSound
  <2> QED BY <2>1, <2>2, PhaseKeeps
<1>3. CASE Drive!DriveSticks
  <2>1. s' = [s EXCEPT !.stuck = TRUE]
    BY <1>3 DEF Drive!DriveSticks
  <2>2. s' \in Installer /\ SameDisk(s, s') /\ SameSound(s, s') /\ s'.phase = s.phase
    BY <1>1, <2>1 DEF Installer, SameDisk, SameImage, SameSound
  <2> QED BY <2>2, PhaseKeeps
<1>4. CASE Drive!WriteTimedOut
  <2>1. PICK p \in Phase : s' = [s EXCEPT !.phase = p] /\ p = "failed"
    BY <1>4 DEF Drive!WriteTimedOut, Phase
  <2>2. s' \in Installer /\ SameDisk(s, s') /\ SameSound(s, s') /\ s'.phase = p
    BY <1>1, <2>1 DEF Installer, SameDisk, SameImage, SameSound
  <2> QED BY <2>1, <2>2, PhaseKeeps
<1> QED BY <1>2, <1>3, <1>4

(* The question is answered (installer_read_line).                         *)
LEMMA LineKeeps ==
  ASSUME Drive!DiskConstants, Kept(s), NEW key \in Drive!Letters \cup {"enter", "backspace"}, Drive!installer_read_line(key)
  PROVE  Kept(s')
<1>1. s \in Installer /\ Progress(s) /\ s.phase = "confirm" /\ s.line \in Seq(Drive!Letters) /\ s.image \in Seq(Nat)
  BY DEF Kept, Installed, Drive!installer_read_line, Installer, Drive!DiskConstants
<1>2. Placed(s) /\ Base(s) = 0
  <2>1. s.lba = 0 /\ s.offset = 0 /\ s.image # <<>>
    BY <1>1 DEF Progress
  <2>2. SECTOR \in Nat /\ Size \in Nat
    BY ChunkSize
  <2>3. Base(s) = 0 /\ 0 = 0 * Size
    BY <2>1, <2>2 DEF Base
  <2>4. Len(s.image) > 0
    BY <1>1, <2>1
  <2> QED BY <2>1, <2>3, <2>4 DEF Placed
<1>3. CASE key = "enter"
  <2>1. PICK p \in Phase : s' = [s EXCEPT !.phase = p] /\ (p = "writing" \/ p = "console")
    BY <1>3 DEF Drive!installer_read_line, Phase
  <2>2. s' \in Installer /\ SameDisk(s, s') /\ SameSound(s, s') /\ s'.phase = p
    BY <1>1, <2>1 DEF Installer, SameDisk, SameImage, SameSound
  <2> QED BY <1>1, <1>2, <2>1, <2>2, PhaseKeeps
<1>4. ASSUME NEW line \in Seq(Drive!Letters), NEW typed \in Nat, s' = [s EXCEPT !.typed = typed, !.line = line]
      PROVE  Kept(s')
  <2>1. s' \in Installer /\ SameDisk(s, s') /\ SameSound(s, s') /\ s'.phase = s.phase
    BY <1>1, <1>4 DEF Installer, SameDisk, SameImage, SameSound
  <2> QED BY <2>1, PhaseKeeps
<1>5. PICK typed \in Nat : typed = s.typed + 1
  BY <1>1 DEF Installer
<1>6. CASE key = "backspace"
  <2>1. PICK line : line = IF s.line = <<>> THEN s.line ELSE Drive!Front(s.line)
    OBVIOUS
  <2>2. line \in Seq(Drive!Letters)
    BY <1>1, <2>1 DEF Drive!Front
  <2>3. s' = [s EXCEPT !.typed = typed, !.line = line]
    BY <1>5, <1>6, <2>1 DEF Drive!installer_read_line
  <2> QED BY <1>4, <2>2, <2>3
<1>7. CASE key \notin {"enter", "backspace"}
  <2>1. PICK line : line = Append(s.line, key)
    OBVIOUS
  <2>2. line \in Seq(Drive!Letters)
    BY <1>1, <1>7, <2>1
  <2>3. s' = [s EXCEPT !.typed = typed, !.line = line]
    BY <1>5, <1>7, <2>1 DEF Drive!installer_read_line
  <2> QED BY <1>4, <2>2, <2>3
<1> QED BY <1>3, <1>6, <1>7

(* A chunk is handed over, or the loop ends (makobox_installer_run).       *)
LEMMA HandOverKeeps ==
  ASSUME Drive!DiskConstants, Kept(s), Drive!makobox_installer_run
  PROVE  Kept(s')
<1>1. /\ s \in Installer /\ Progress(s) /\ Exact(s) /\ Played(s) /\ s.phase = "writing" /\ s.offset \in Nat
      /\ s.image \in Seq(Nat)
  BY DEF Kept, Installed, Drive!makobox_installer_run, Installer, Drive!DiskConstants
<1>2. Placed(s) /\ UpTo(s, Base(s))
  BY <1>1 DEF Progress
<1>3. CASE s.offset >= Len(s.image)
  <2>1. PICK p \in Phase : s' = [s EXCEPT !.phase = p] /\ p = "complete"
    BY <1>3 DEF Drive!makobox_installer_run, Phase
  <2>2. s' \in Installer /\ SameDisk(s, s') /\ SameSound(s, s') /\ s'.phase = p
    BY <1>1, <2>1 DEF Installer, SameDisk, SameImage, SameSound
  <2>3. s.offset = Len(s.image)
    BY <1>1, <1>2, <1>3 DEF Placed
  <2> QED BY <1>1, <2>1, <2>2, <2>3, PhaseKeeps
<1>4. CASE s' = [s EXCEPT !.phase = "failed"]
  <2>1. PICK p \in Phase : s' = [s EXCEPT !.phase = p] /\ p = "failed"
    BY <1>4 DEF Phase
  <2>2. s' \in Installer /\ SameDisk(s, s') /\ SameSound(s, s') /\ s'.phase = p
    BY <1>1, <2>1 DEF Installer, SameDisk, SameImage, SameSound
  <2> QED BY <2>1, <2>2, PhaseKeeps
<1>5. ASSUME s.offset < Len(s.image), s' = [s EXCEPT !.command = Drive!issue_data_command(s.lba, Drive!Chunk), !.phase = "waiting"]
      PROVE  Kept(s')
  <2>1. PICK c : c = Drive!Chunk
    OBVIOUS
  <2>2. c \in Seq(Nat) /\ Len(c) = Size /\ \A j \in 1..Size : c[j] = Laid(s, s.offset + j)
    BY <1>1, <1>5, <2>1, ChunkIsLaid
  <2>3. PICK at \in Nat : at = Base(s) /\ at = s.lba * SECTOR
    BY <1>1, ChunkSize DEF Installer, Base
  <2>4. at = s.offset
    BY <1>2, <1>5, <2>3 DEF Placed
  <2>5. PICK command : command = [at |-> at, bytes |-> c]
    OBVIOUS
  <2>6. command \in Command /\ command.at = at /\ command.bytes = c
    BY <2>2, <2>5 DEF Command
  <2>7. command # Drive!None
    <3>1. Len(c) > 0
      BY <2>2, ChunkSize
    <3>2. c # <<>>
      BY <3>1
    <3> QED BY <2>5, <3>2 DEF Drive!None
  <2>8. PICK p \in Phase : p = "waiting"
    BY DEF Phase
  <2>9. s' = [s EXCEPT !.command = command, !.phase = p]
    BY <1>5, <2>1, <2>3, <2>5, <2>8 DEF Drive!issue_data_command
  <2>10. s' \in Installer /\ SameImage(s, s') /\ s'.disk = s.disk /\ s'.command = command /\ s'.phase = p /\ SameSound(s, s')
    BY <1>1, <2>6, <2>9 DEF Installer, SameImage, SameSound
  <2>11. End(s') = End(s) /\ Base(s') = Base(s) /\ \A i : Laid(s', i) = Laid(s, i)
    BY <2>10 DEF SameImage, End, Base, Laid
  <2>12. s.offset + Size <= End(s) /\ End(s) \in Nat /\ Size \in Nat
    BY <1>1, <1>2, <1>5, ChunkFits, ChunkSize
  <2>13. ASSUME NEW j \in 1..Size PROVE at + j <= End(s) /\ c[j] = Laid(s, at + j)
    <3>1. PICK e \in Nat : e = End(s)
      BY <2>12
    <3>2. PICK z \in Nat : z = Size
      BY <2>12
    <3>3. at + z <= e /\ j \in 1..z
      BY <2>4, <2>12, <3>1, <3>2, Zenon
    <3>4. at + j <= e
      BY <3>3
    <3>5. c[j] = Laid(s, at + j)
      BY <2>2, <2>4, <2>13, Zenon
    <3> QED BY <3>1, <3>4, <3>5, Zenon
  <2>14. Exact(s')
    BY <1>1, <2>2, <2>6, <2>10, <2>11, <2>13 DEF Exact
  <2>15. Placed(s') /\ UpTo(s', Base(s'))
    BY <1>2, <2>10, <2>11 DEF Placed, SameImage, UpTo
  <2>16. s'.offset < Len(s'.image)
    BY <1>5, <2>10 DEF SameImage
  <2>17. Progress(s')
    BY <2>2, <2>3, <2>6, <2>7, <2>8, <2>10, <2>11, <2>15, <2>16 DEF Progress
  <2>18. Played(s')
    BY <1>1, <2>10, SoundStays
  <2> QED BY <2>10, <2>14, <2>17, <2>18 DEF Kept, Installed
<1>6. CASE ~(s.offset >= Len(s.image))
  <2>1. s.offset < Len(s.image)
    BY <1>1, <1>6
  <2>2. s' = [s EXCEPT !.phase = "failed"] \/ s' = [s EXCEPT !.command = Drive!issue_data_command(s.lba, Drive!Chunk), !.phase = "waiting"]
    BY <1>6, Zenon DEF Drive!makobox_installer_run
  <2> QED BY <1>4, <1>5, <2>1, <2>2
<1> QED BY <1>3, <1>6

(* The drive carries a command out, in time or after the driver gave up    *)
(* on it (DriveWrites).                                                    *)
LEMMA DriveKeeps ==
  ASSUME Drive!DiskConstants, Kept(s), Drive!DriveWrites
  PROVE  Kept(s')
<1>1. /\ s \in Installer /\ Progress(s) /\ Exact(s) /\ Played(s) /\ s.command # Drive!None /\ s.phase \in Phase
      /\ s.command \in Command /\ s.disk \in Track
  BY DEF Kept, Installed, Drive!DriveWrites, Installer
<1>2. s.phase = "waiting" \/ s.phase = "failed"
  BY <1>1 DEF Progress, Phase
<1>3. PICK at, bytes, n : /\ at = s.command.at /\ bytes = s.command.bytes /\ n = Len(bytes)
                          /\ at \in Nat /\ bytes \in Seq(Nat) /\ n \in Nat
  <2>1. s.command.at \in Nat /\ s.command.bytes \in Seq(Nat)
    BY <1>1 DEF Command
  <2>2. Len(s.command.bytes) \in Nat
    BY <2>1
  <2> QED BY <2>1, <2>2, Zenon
<1> DEFINE Span == at + 1..at + n
<1>20. at \in Nat /\ n \in Nat
  BY <1>3
<1>21. \A i \in Span : i \in Int /\ i - at \in 1..n /\ at + (i - at) = i
  <2> SUFFICES ASSUME NEW i \in Int, at + 1 <= i, i <= at + n PROVE i - at \in 1..n /\ at + (i - at) = i
    BY <1>20
  <2> QED BY <1>20
<1> HIDE DEF Span
<1>4. PICK disk : disk = [i \in DOMAIN s.disk |-> IF i \in Span THEN bytes[i - at] ELSE s.disk[i]]
  OBVIOUS
<1>5. PICK size \in Nat : s.disk \in [1..size -> Nat]
  BY <1>1 DEF Track
<1>6. disk \in [1..size -> Nat] /\ DOMAIN disk = DOMAIN s.disk
  <2>1. \A j \in 1..n : bytes[j] \in Nat
    BY <1>3, ElementOfSeq
  <2>2. \A i \in Span : bytes[i - at] \in Nat
    BY <1>21, <2>1
  <2> QED BY <1>4, <1>5, <2>2
<1>7. disk \in Track
  BY <1>6 DEF Track
<1>8. PICK none : none = Drive!None /\ none \in Command /\ none.at = 0 /\ none.bytes = <<>> /\ Len(none.bytes) = 0
  <2>1. PICK none : none = Drive!None
    OBVIOUS
  <2>2. none \in Command /\ none.at = 0 /\ none.bytes = <<>>
    BY <2>1 DEF Drive!None, Command
  <2> QED BY <2>1, <2>2
<1>9. s' = [s EXCEPT !.disk = disk, !.command = none]
  BY <1>3, <1>4, <1>8 DEF Drive!DriveWrites, Span
<1>10. s' \in Installer /\ SameImage(s, s') /\ s'.disk = disk /\ s'.command = none /\ s'.phase = s.phase /\ SameSound(s, s')
  BY <1>1, <1>7, <1>8, <1>9 DEF Installer, SameImage, SameSound
<1>11. End(s') = End(s) /\ Base(s') = Base(s) /\ \A i : Laid(s', i) = Laid(s, i)
  BY <1>10 DEF SameImage, End, Base, Laid
<1>12. ASSUME NEW i \in DOMAIN disk, i \in Span PROVE i <= End(s) /\ disk[i] = Laid(s, i)
  <2>1. i - at \in 1..n /\ at + (i - at) = i
    BY <1>21, <1>12
  <2>2. at + (i - at) <= End(s) /\ bytes[i - at] = Laid(s, at + (i - at))
    BY <1>1, <1>3, <2>1 DEF Exact
  <2>3. disk[i] = bytes[i - at]
    BY <1>4, <1>6, <1>12
  <2> QED BY <2>1, <2>2, <2>3
<1>13. ASSUME NEW i \in DOMAIN disk, i \notin Span PROVE disk[i] = s.disk[i]
  BY <1>4, <1>6, <1>13
<1>14. Exact(s')
  <2>1. \A i \in DOMAIN disk : disk[i] = 9 \/ (i <= End(s) /\ disk[i] = Laid(s, i))
    BY <1>1, <1>6, <1>12, <1>13 DEF Exact
  <2> QED BY <1>8, <1>10, <1>11, <2>1 DEF Exact
<1>15. Progress(s')
  <2>1. CASE s.phase = "failed"
    BY <1>10, <2>1 DEF Progress
  <2>2. CASE s.phase = "waiting"
    <3>1. Placed(s) /\ s.offset < Len(s.image) /\ UpTo(s, Base(s)) /\ at = Base(s) /\ n = Size
      BY <1>1, <1>3, <2>2 DEF Progress
    <3>2. Placed(s') /\ s'.offset < Len(s'.image)
      BY <1>10, <1>11, <3>1 DEF Placed, SameImage
    <3>3. ASSUME NEW i \in DOMAIN disk PROVE (i <= at + n => disk[i] = Laid(s, i)) /\ (i > at + n => disk[i] = 9)
      <4>1. i \in Nat /\ i \in DOMAIN s.disk
        BY <1>5, <1>6
      <4>2. (i <= at => s.disk[i] = Laid(s, i)) /\ (i > at => s.disk[i] = 9)
        BY <3>1, <4>1 DEF UpTo
      <4>3. CASE i \in Span
        <5>1. i <= at + n /\ ~(i > at + n)
          BY <1>20, <4>3 DEF Span
        <5> QED BY <1>12, <4>3, <5>1
      <4>4. CASE i \notin Span
        <5>1. i <= at \/ i > at + n
          BY <1>20, <4>1, <4>4 DEF Span
        <5>2. disk[i] = s.disk[i] /\ (i <= at + n <=> i <= at) /\ (i > at + n <=> i > at)
          BY <1>20, <1>13, <4>1, <4>4, <5>1
        <5> QED BY <4>2, <5>2
      <4> QED BY <4>3, <4>4
    <3>4. UpTo(s', Base(s') + Size)
      BY <1>10, <1>11, <3>1, <3>3 DEF UpTo
    <3> QED BY <1>8, <1>10, <2>2, <3>2, <3>4 DEF Progress
  <2> QED BY <1>2, <2>1, <2>2
<1>16. Played(s')
  BY <1>1, <1>10, SoundStays
<1> QED BY <1>10, <1>14, <1>15, <1>16 DEF Kept, Installed

(* The driver returns, and the loop moves on by a chunk (Written).         *)
LEMMA WrittenKeeps ==
  ASSUME Drive!DiskConstants, Kept(s), Drive!Written
  PROVE  Kept(s')
<1>1. /\ s \in Installer /\ Progress(s) /\ Exact(s) /\ Played(s) /\ s.phase = "waiting" /\ s.command = Drive!None
  BY DEF Kept, Installed, Drive!Written
<1>2. Placed(s) /\ s.offset < Len(s.image) /\ UpTo(s, Base(s) + Size)
  BY <1>1 DEF Progress
<1>3. PICK n, o, z, lba : /\ n = Len(s.image) /\ o = s.offset /\ z = Size /\ lba = s.lba + CHUNK
                          /\ n \in Nat /\ o \in Nat /\ z \in Nat /\ z > 0 /\ lba \in Nat /\ o < n
  <2>1. s.image \in Seq(Nat) /\ s.offset \in Nat /\ s.lba \in Nat
    BY <1>1 DEF Installer, Drive!DiskConstants
  <2>2. CHUNK \in Nat /\ Size \in Nat /\ Size > 0
    BY ChunkSize
  <2>3. s.lba + CHUNK \in Nat /\ Len(s.image) \in Nat
    BY <2>1, <2>2
  <2> QED BY <1>2, <2>1, <2>2, <2>3
<1>4. lba * SECTOR = o + z /\ Base(s) = o
  <2>1. s.lba \in Nat /\ CHUNK \in Nat /\ SECTOR \in Nat
    BY <1>1, ChunkSize DEF Installer
  <2>2. (s.lba + CHUNK) * SECTOR = s.lba * SECTOR + CHUNK * SECTOR
    BY <2>1
  <2>3. Base(s) = o
    BY <1>2, <1>3 DEF Placed
  <2> QED BY <1>3, <2>2, <2>3 DEF Base, Size
<1>5. PICK q \in Nat : o = q * Size
  BY <1>2, <1>3 DEF Placed
<1>6. n <= o + z => End(s) = o + z
  BY <1>1, <1>2, <1>3, ChunkFits
<1>7. PICK offset \in Nat : offset = IF n - o >= z THEN o + z ELSE n
  BY <1>3
<1>8. PICK p \in Phase : p = "writing"
  BY DEF Phase
<1>9. s' = [s EXCEPT !.phase = p, !.lba = lba, !.offset = offset]
  <2>1. s' = [s EXCEPT !.phase = "writing", !.lba = @ + CHUNK,
                       !.offset = IF Len(s.image) - @ >= CHUNK * SECTOR THEN @ + CHUNK * SECTOR ELSE Len(s.image)]
    BY DEF Drive!Written
  <2>2. z = CHUNK * SECTOR
    BY <1>3 DEF Size
  <2> QED BY <1>3, <1>7, <1>8, <2>1, <2>2
<1>10. /\ s' \in Installer /\ s'.image = s.image /\ s'.disk = s.disk /\ s'.command = s.command /\ s'.phase = p /\ s'.lba = lba
       /\ s'.offset = offset /\ SameSound(s, s')
  <2>1. PICK a, b : a = [s EXCEPT !.phase = p] /\ b = [a EXCEPT !.lba = lba]
    OBVIOUS
  <2>2. /\ a \in Installer /\ a.image = s.image /\ a.disk = s.disk /\ a.command = s.command /\ a.phase = p
        /\ SameSound(s, a)
    BY <1>1, <2>1 DEF Installer, SameSound
  <2>3. /\ b \in Installer /\ b.image = s.image /\ b.disk = s.disk /\ b.command = s.command /\ b.phase = p /\ b.lba = lba
        /\ SameSound(a, b)
    <3>1. lba \in Nat
      BY <1>3
    <3>2. PICK aa : aa = a /\ aa \in Installer
      BY <2>2
    <3>3. b = [aa EXCEPT !.lba = lba]
      BY <2>1, <3>2, Zenon
    <3>4. b \in Installer /\ b.lba = lba
      BY <3>1, <3>2, <3>3 DEF Installer
    <3>5. b.image = aa.image /\ b.disk = aa.disk /\ b.command = aa.command /\ b.phase = aa.phase
      BY <3>2, <3>3 DEF Installer
    <3>6. SameSound(aa, b)
      BY <3>2, <3>3 DEF Installer, SameSound
    <3> QED BY <2>2, <3>2, <3>4, <3>5, <3>6, Zenon
  <2>4. s' = [b EXCEPT !.offset = offset]
    BY <1>9, <2>1
  <2>5. /\ s' \in Installer /\ s'.image = s.image /\ s'.disk = s.disk /\ s'.command = s.command /\ s'.phase = p /\ s'.lba = lba
        /\ s'.offset = offset /\ SameSound(b, s')
    BY <2>3, <2>4 DEF Installer, SameSound
  <2> QED BY <2>2, <2>3, <2>5 DEF SameSound
<1>11. End(s') = End(s) /\ Base(s') = o + z /\ \A i : Laid(s', i) = Laid(s, i)
  BY <1>4, <1>10 DEF End, Base, Laid
<1>12. Exact(s')
  BY <1>1, <1>10, <1>11 DEF Exact
<1>13. Placed(s')
  <2>1. s'.image # <<>> /\ offset <= n
    <3>1. s'.image # <<>>
      BY <1>2, <1>10 DEF Placed
    <3>2. n \in Nat /\ o \in Nat /\ z \in Nat
      BY <1>3
    <3>3. offset <= n
      BY <1>7, <3>2
    <3> QED BY <3>1, <3>3
  <2>2. ASSUME offset < n PROVE offset = o + z /\ offset = (q + 1) * Size
    <3>1. offset = o + z
      BY <1>3, <1>7, <2>2
    <3>2. (q + 1) * z = q * z + z
      BY <1>3
    <3> QED BY <1>3, <1>5, <3>1, <3>2
  <2>3. ASSUME offset = n PROVE End(s) = o + z
    BY <1>3, <1>6, <1>7, <2>3
  <2>4. q + 1 \in Nat
    OBVIOUS
  <2> QED BY <1>3, <1>10, <1>11, <2>1, <2>2, <2>3, <2>4 DEF Placed
<1>14. UpTo(s', Base(s'))
  BY <1>2, <1>3, <1>4, <1>10, <1>11 DEF UpTo
<1>15. Progress(s')
  BY <1>1, <1>8, <1>10, <1>13, <1>14 DEF Progress
<1>16. Played(s')
  BY <1>1, <1>10, SoundStays
<1> QED BY <1>10, <1>12, <1>15, <1>16 DEF Kept, Installed

(* Before anything is asked.                                               *)
LEMMA DiskStarts ==
  ASSUME Drive!DiskConstants, Drive!Init
  PROVE  Kept(s)
<1>1. PICK image \in Images, size \in DiskSectors, started \in BOOLEAN, sound \in BOOLEAN :
        s = [started |-> started, image |-> image, size |-> size,
             disk |-> [i \in 1..size * SECTOR |-> 9], command |-> Drive!None, stuck |-> FALSE,
             phase |-> "check", line |-> <<>>, typed |-> 0, offset |-> 0, lba |-> 0,
             ready |-> sound, submitted |-> 0, playing |-> 0, pcm |-> 0, halted |-> FALSE, heard |-> 0, cut |-> FALSE]
  <2>1. PICK image \in Images, size \in DiskSectors, live \in BOOLEAN, busy \in BOOLEAN, answers \in BOOLEAN, sound \in BOOLEAN :
          s = [started |-> Drive!ahci_start(live, busy, answers), image |-> image, size |-> size,
               disk |-> [i \in 1..size * SECTOR |-> 9], command |-> Drive!None, stuck |-> FALSE,
               phase |-> "check", line |-> <<>>, typed |-> 0, offset |-> 0, lba |-> 0,
               ready |-> sound, submitted |-> 0, playing |-> 0, pcm |-> 0, halted |-> FALSE, heard |-> 0, cut |-> FALSE]
    BY DEF Drive!Init
  <2>2. PICK started \in BOOLEAN : started = Drive!ahci_start(live, busy, answers)
    BY DEF Drive!ahci_start
  <2> QED BY <2>1, <2>2, Zenon
<1>2. PICK disk, zero, none, line, p : /\ disk = [i \in 1..size * SECTOR |-> 9] /\ zero = 0 /\ none = Drive!None /\ line = <<>>
                                       /\ p = "check"
  OBVIOUS
<1>3. disk \in Track /\ \A i \in DOMAIN disk : disk[i] = 9 /\ i \in Nat /\ i > 0
  <2>1. PICK n \in Nat : n = size * SECTOR
    BY ChunkSize DEF Drive!DiskConstants
  <2>2. disk \in [1..n -> Nat] /\ DOMAIN disk = 1..n /\ \A i \in 1..n : disk[i] = 9
    BY <1>2, <2>1
  <2> QED BY <2>2 DEF Track
<1>4. none \in Command /\ none.bytes = <<>> /\ zero \in Nat /\ line \in Seq(Drive!Letters) /\ p \in Phase
  BY <1>2 DEF Drive!None, Command, Phase
<1>5. s = [started |-> started, image |-> image, size |-> size, disk |-> disk, command |-> none, stuck |-> FALSE,
           phase |-> p, line |-> line, typed |-> zero, offset |-> zero, lba |-> zero, ready |-> sound,
           submitted |-> zero, playing |-> zero, pcm |-> zero, halted |-> FALSE, heard |-> zero, cut |-> FALSE]
  BY <1>1, <1>2, Zenon
<1>6. /\ s \in Installer /\ s.disk = disk /\ s.command = none /\ s.phase = p /\ s.offset = zero /\ s.lba = zero
      /\ s.submitted = zero /\ s.playing = zero /\ s.pcm = zero /\ s.heard = zero
  BY <1>3, <1>4, <1>5 DEF Installer
<1>7. ~s.cut
  BY <1>5
<1>8. Played(s)
  BY <1>6, <1>7 DEF Played
<1>9. UpTo(s, 0)
  BY <1>3, <1>6 DEF UpTo
<1>10. Progress(s)
  BY <1>2, <1>6, <1>9 DEF Progress
<1>11. Len(s.command.bytes) = 0
  BY <1>4, <1>6
<1>12. Exact(s)
  BY <1>3, <1>6, <1>11 DEF Exact
<1> QED BY <1>6, <1>8, <1>10, <1>12 DEF Kept, Installed

(* A completed installation is the image and zeros up to the end of its    *)
(* last chunk, nothing is written without YES, and even after a timeout    *)
(* the disk holds its old bytes or the image's, in their places; no tone   *)
(* cuts the last one (ahci.c, makobox_installer_run, ac97.c).              *)
THEOREM InstallationIsExact ==
  ASSUME Drive!DiskConstants
  PROVE  Drive!Spec => [](Drive!InstallIsExact /\ Drive!SoundsAreWhole)
<1>1. Drive!Init => Kept(s)
  BY DiskStarts
<1>2. Kept(s) /\ [Drive!Next]_s => Kept(s)'
  <2> SUFFICES ASSUME Kept(s), [Drive!Next]_s PROVE Kept(s)'
    OBVIOUS
  <2>1. Kept(s')
    <3>1. CASE Drive!Check \/ Drive!DriveSticks \/ Drive!WriteTimedOut
      BY <3>1, CheckKeeps
    <3>2. CASE Drive!makobox_installer_run
      BY <3>2, HandOverKeeps
    <3>3. CASE Drive!Written
      BY <3>3, WrittenKeeps
    <3>4. CASE Drive!DriveWrites
      BY <3>4, DriveKeeps
    <3>5. CASE Drive!CardPlays \/ \E ms \in {1, 90} : Drive!play_bleep(ms)
      BY <3>5, SoundKeeps
    <3>6. ASSUME NEW key \in Drive!Letters \cup {"enter", "backspace"}, Drive!installer_read_line(key) PROVE Kept(s')
      BY <3>6, LineKeeps
    <3>7. CASE UNCHANGED s
      BY <3>7
    <3> QED BY <3>1, <3>2, <3>3, <3>4, <3>5, <3>6, <3>7 DEF Drive!Next
  <2> QED BY <2>1 DEF Kept, Installed, Progress, Exact, Played, Placed, Base, End, UpTo, Laid
<1>3. Kept(s) => Drive!InstallIsExact
  <2> SUFFICES ASSUME Kept(s) PROVE Drive!InstallIsExact
    OBVIOUS
  <2>1. s \in Installer /\ Progress(s) /\ Exact(s) /\ s.image \in Seq(Nat)
    BY DEF Kept, Installed, Installer, Drive!DiskConstants
  <2>2. PICK n, pad : n = Len(s.image) /\ pad = Pad(n) /\ n \in Nat /\ pad \in Nat
    <3>1. Len(s.image) \in Nat
      BY <2>1
    <3> QED BY <3>1, PadIsShort
  <2>3. PICK zeros, padded : zeros = [i \in 1..pad |-> 0] /\ padded = s.image \o zeros
    OBVIOUS
  <2>4. zeros \in Seq(Nat) /\ Len(zeros) = pad /\ \A i \in 1..pad : zeros[i] = 0
    BY <2>2, <2>3
  <2>5. Len(padded) = n + pad /\ End(s) = n + pad
    BY <2>1, <2>2, <2>3, <2>4 DEF End
  <2>6. ASSUME NEW i \in 1..n + pad PROVE padded[i] = Laid(s, i)
    <3>1. CASE i <= n
      BY <2>1, <2>2, <2>3, <2>4, <3>1 DEF Laid
    <3>2. CASE i > n
      <4>1. i - n \in 1..pad /\ ~(i <= n)
        BY <2>2, <3>2
      <4>2. padded[i] = zeros[i - n]
        BY <2>1, <2>2, <2>3, <2>4, <4>1
      <4> QED BY <2>2, <2>4, <4>1, <4>2 DEF Laid
    <3> QED BY <2>2, <3>1, <3>2
  <2>7. \A i \in DOMAIN s.disk : i \in Nat /\ i > 0
    BY <2>1 DEF Installer, Track
  <2>8. s.phase = "complete" => \A i \in DOMAIN s.disk : s.disk[i] = (IF i <= Len(padded) THEN padded[i] ELSE 9)
    <3>1. SUFFICES ASSUME s.phase = "complete", NEW i \in DOMAIN s.disk PROVE s.disk[i] = (IF i <= Len(padded) THEN padded[i] ELSE 9)
      OBVIOUS
    <3>2. Base(s) = n + pad /\ UpTo(s, Base(s))
      BY <2>1, <2>5, <3>1 DEF Progress, Placed
    <3>3. (i <= n + pad => s.disk[i] = Laid(s, i)) /\ (i > n + pad => s.disk[i] = 9)
      BY <3>2 DEF UpTo
    <3>4. i \in Nat /\ i > 0 /\ (i <= n + pad => i \in 1..n + pad)
      BY <2>2, <2>7
    <3> QED BY <2>2, <2>5, <2>6, <3>3, <3>4
  <2>9. s.phase \in {"check", "confirm", "console"} => \A i \in DOMAIN s.disk : s.disk[i] = 9
    BY <2>1, <2>7 DEF Progress, UpTo
  <2>10. ASSUME NEW i \in DOMAIN s.disk PROVE s.disk[i] = 9 \/ (i <= Len(padded) /\ s.disk[i] = padded[i])
    <3>1. s.disk[i] = 9 \/ (i <= n + pad /\ s.disk[i] = Laid(s, i))
      BY <2>1, <2>5 DEF Exact
    <3>2. i <= n + pad => i \in 1..n + pad
      BY <2>2, <2>7
    <3> QED BY <2>5, <2>6, <3>1, <3>2
  <2>11. padded = s.image \o [i \in 1..(CHUNK * SECTOR - 1) - ((Len(s.image) + CHUNK * SECTOR - 1) % (CHUNK * SECTOR)) |-> 0]
    BY <2>2, <2>3 DEF Pad, Size
  <2> QED BY <2>8, <2>9, <2>10, <2>11, Zenon DEF Drive!InstallIsExact
<1>4. Kept(s) => Drive!SoundsAreWhole
  <2>1. ASSUME NEW ms \in 1..90 PROVE Drive!Frames(ms) <= 4096
    BY DEF Drive!Frames
  <2> QED BY <2>1 DEF Kept, Played, Drive!SoundsAreWhole
<1> QED BY <1>1, <1>2, <1>3, <1>4, PTL DEF Drive!Spec
=============================================================================
