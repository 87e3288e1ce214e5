------------------------------- MODULE Ramfs --------------------------------
(***************************************************************************)
(* The RAM file system (src/ramfs.cpp over include/kernel/bounded_table.h) *)
(* with the system calls that reach it through file handles and the shell  *)
(* applets that reach it by name.                                          *)
(*                                                                         *)
(*   s.slot   the file table: Free, or a name with its extent              *)
(*   s.bytes  storage, and s.used how much of it was ever handed out       *)
(*   s.caps   per process, the slots of the file table its handles name;   *)
(*            a handle outlives its file                                   *)
(*   s.boot   the kernel is still installing the boot modules              *)
(* A name is a path, with or without a leading slash.                      *)
(***************************************************************************)
EXTENDS Naturals, Sequences, FiniteSets, SequencesExt

CONSTANTS Slots,     \* kRamfsFiles
          Storage,   \* kRamfsStorageMax
          DataMax,   \* kRamfsDataMax
          Names,     \* names that valid_name accepts: [root, path]
          Data,      \* contents a caller may write
          Modules,   \* contents of the boot modules left in place
          Procs,
          Handles    \* capability slots per process

(* A byte b is b + 1 here: 0 stands for storage that was never written.    *)
RamfsConstants ==
  /\ {Slots, Storage, DataMax, Handles} \subseteq Nat
  /\ Data \subseteq Seq(Nat \ {0}) /\ Modules \subseteq Seq(Nat \ {0})

VARIABLE s
vars == <<s>>

Free == [name |-> "free"]
Id == 1..Slots
Used(k) == {i \in Id : k.slot[i] # Free}
First(S) == CHOOSE i \in S : \A j \in S : i <= j

(***************************************************************************)
(* The table.                                                              *)
(***************************************************************************)
find(k, name) == {i \in Used(k) : k.slot[i].name = name}

Fresh(name) == [name |-> name, offset |-> 0, capacity |-> 0, length |-> 0, external |-> <<>>]

(* ramfs_open: the file of that name, else with `create' the first free    *)
(* slot; the empty set when there is neither.                              *)
Opened(k, name, create) ==
  IF find(k, name) # {} THEN find(k, name)
  ELSE IF ~create \/ Used(k) = Id THEN {} ELSE {First(Id \ Used(k))}

open(k, name, create) ==
  IF find(k, name) # {} \/ Opened(k, name, create) = {} THEN k
  ELSE [k EXCEPT !.slot[First(Id \ Used(k))] = Fresh(name)]

(* release: the slot is free again, its storage is not.                    *)
release(k, i) == [k EXCEPT !.slot[i] = Free]

(***************************************************************************)
(* Contents.                                                               *)
(***************************************************************************)
Stored(k, f) == IF f.external # <<>> THEN f.external
                ELSE [n \in 1..f.length |-> k.bytes[f.offset + n]]

CanStore(k, i, data) ==
  /\ i \in Used(k) /\ k.slot[i].external = <<>> /\ Len(data) <= DataMax
  /\ Len(data) > k.slot[i].capacity => Len(data) <= Storage - k.used

Bug_store(k, i, data) ==
  LET f == k.slot[i]
      grows == Len(data) > f.length
      at == IF grows THEN k.used - f.capacity ELSE f.offset
  IN  [k EXCEPT !.slot[i] = [f EXCEPT !.length = Len(data), !.offset = at,
                               !.capacity = IF grows THEN Len(data) ELSE @],
                !.used = IF grows THEN at + Len(data) ELSE @,
                !.bytes = [n \in 1..Storage |->
                             IF n \in (at + 1)..(at + Len(data)) THEN data[n - at] ELSE @[n]]]

(* A file that outgrows its extent gets a new one; the old one is lost.    *)
store(k, i, data) ==
  LET f == k.slot[i]
      grows == Len(data) > f.capacity
      at == IF grows THEN k.used ELSE f.offset
  IN  [k EXCEPT !.slot[i] = [f EXCEPT !.length = Len(data), !.offset = at,
                               !.capacity = IF grows THEN Len(data) ELSE @],
                !.used = IF grows THEN @ + Len(data) ELSE @,
                !.bytes = [n \in 1..Storage |->
                             IF n \in (at + 1)..(at + Len(data)) THEN data[n - at] ELSE @[n]]]

(* Open for writing and write: the file may be created even though the     *)
(* write that follows fails.                                               *)
Put(k, name, data) ==
  LET k1 == open(k, name, TRUE)
      i == find(k1, name)
  IN  IF i # {} /\ CanStore(k1, First(i), data) THEN store(k1, First(i), data) ELSE k1

(***************************************************************************)
(* Directory listings: the immediate children of a directory, a file deep  *)
(* below it collapsing to the subdirectory that leads to it.               *)
(***************************************************************************)
ChildOf(k, i, dir) ==
  LET path == k.slot[i].name.path
  IN  IF Len(path) > Len(dir) /\ IsPrefix(dir, path)
      THEN {[child |-> path[Len(dir) + 1], leaf |-> Len(path) = Len(dir) + 1]} ELSE {}

Listed(k, dir) ==
  {i \in Used(k) : \E c \in ChildOf(k, i, dir) :
     c.leaf \/ \A e \in Used(k) : e < i => c.child \notin {d.child : d \in ChildOf(k, e, dir)}}

ramfs_list(k, dir, index) ==
  LET ids == SetToSortSeq(Listed(k, dir), LAMBDA a, b : a < b)
  IN  IF index > Len(ids) THEN {} ELSE ChildOf(k, ids[index], dir)

(* find, tree and du: the slots met below a directory, in order.           *)
Dirs == UNION {{SubSeq(n.path, 1, l) : l \in 0..Len(n.path)} : n \in Names}
find_walk(k) ==
  LET W[dir \in Dirs] ==
        LET ids == SetToSortSeq(Listed(k, dir), LAMBDA a, b : a < b)
            child(i) == CHOOSE c \in ChildOf(k, i, dir) : TRUE
        IN  FlattenSeq([n \in 1..Len(ids) |->
              IF child(ids[n]).leaf THEN <<ids[n]>> ELSE W[Append(dir, child(ids[n]).child)]])
  IN  W[<<>>]
du_walk(k) == FoldLeft(LAMBDA sum, i : sum + Len(Stored(k, k.slot[i])), 0, find_walk(k))

(***************************************************************************)
(* Boot: modules are copied in, or left where the boot loader put them.    *)
(***************************************************************************)
Init ==
  s = [slot |-> [i \in Id |-> Free], bytes |-> [n \in 1..Storage |-> 0], used |-> 0,
       caps |-> [p \in Procs |-> {}], boot |-> TRUE]

ramfs_seed(name, data) ==
  s.boot /\ Len(data) <= DataMax /\ s' = Put(s, name, data)

ramfs_seed_reference(name, data) ==
  /\ s.boot /\ find(s, name) = {} /\ Opened(s, name, TRUE) # {}
  /\ s' = [open(s, name, TRUE) EXCEPT
             !.slot[First(Id \ Used(s))].external = data,
             !.slot[First(Id \ Used(s))].length = Len(data)]

Booted == s.boot /\ s' = [s EXCEPT !.boot = FALSE]

(***************************************************************************)
(* System calls 9, 6, 43, 44, 8 and the end of a process.                  *)
(***************************************************************************)
OpenFile(p, name, create) ==
  /\ ~s.boot /\ Opened(s, name, create) # {}
  /\ s' = [open(s, name, create) EXCEPT
             !.caps[p] = IF Cardinality(@) >= Handles THEN @
                         ELSE @ \cup {First(Opened(s, name, create))}]

WriteFile(p, h, data) ==
  /\ ~s.boot /\ h \in s.caps[p] /\ CanStore(s, h, data)
  /\ s' = store(s, h, data)

ramfs_delete(name) ==
  ~s.boot /\ \E i \in find(s, name) : s' = release(s, i)

ramfs_rename(old, new) ==
  /\ ~s.boot /\ find(s, new) = {}
  /\ \E i \in find(s, old) : s' = [s EXCEPT !.slot[i].name = new]

CloseHandle(p, h) == h \in s.caps[p] /\ s' = [s EXCEPT !.caps[p] = @ \ {h}]

(***************************************************************************)
(* Shell applets.  touch and rm are OpenFile without the handle and        *)
(* ramfs_delete.                                                           *)
(***************************************************************************)
applet_touch(name) == ~s.boot /\ Opened(s, name, TRUE) # {} /\ s' = open(s, name, TRUE)

applet_write(name, data) == ~s.boot /\ s' = Put(s, name, data)

copy_file(k, src, dst) ==
  IF find(k, src) = {} THEN k
  ELSE Put(k, dst, Stored(k, k.slot[First(find(k, src))]))

CopyFits(k, src, dst) ==
  LET k1 == open(k, dst, TRUE)
  IN  /\ find(k, src) # {} /\ find(k1, dst) # {}
      /\ CanStore(k1, First(find(k1, dst)), Stored(k, k.slot[First(find(k, src))]))

applet_cp(src, dst) == ~s.boot /\ find(s, src) # {} /\ s' = copy_file(s, src, dst)

(* mv x x copies the file onto itself and then deletes it.                 *)
applet_mv(src, dst) ==
  /\ ~s.boot /\ find(s, src) # {}
  /\ s' = LET k == copy_file(s, src, dst)
          IN  IF CopyFits(s, src, dst) THEN release(k, First(find(k, src))) ELSE k

Next ==
  \/ \E n \in Names :
       \/ \E d \in Data : ramfs_seed(n, d) \/ applet_write(n, d)
       \/ \E d \in Modules : ramfs_seed_reference(n, d)
       \/ ramfs_delete(n) \/ applet_touch(n)
       \/ \E new \in Names : ramfs_rename(n, new) \/ applet_cp(n, new) \/ applet_mv(n, new)
       \/ \E p \in Procs, create \in BOOLEAN : OpenFile(p, n, create)
  \/ Booted
  \/ \E p \in Procs : \E h \in s.caps[p] : CloseHandle(p, h) \/ \E d \in Data : WriteFile(p, h, d)

Spec == Init /\ [][Next]_vars

(***************************************************************************)
(* Properties.                                                             *)
(***************************************************************************)
(* No byte a caller writes is 0 in the model, so this is no content.       *)
Absent == <<0>>
Files(k) == [n \in Names |-> IF find(k, n) = {} THEN Absent
                             ELSE Stored(k, k.slot[First(find(k, n))])]
Store == INSTANCE FileStore WITH
  files <- Files(s), Contents <- Data \cup Modules \cup {<<>>}, Empty <- <<>>

(* The table, the extents and the storage arena together implement a plain *)
(* map from names to contents: no write, growth, failed write, slot reuse, *)
(* rename, copy or move ever changes the contents of another file, and no  *)
(* name ever has two files.                                                *)
StoreStep == LET f == Files(s)
                 g == Files(s')
             IN  f = g \/ Store!Step(f, g)
ImplementsFileStore == [][StoreStep]_vars

(* A listing names every immediate child of a directory and reports each   *)
(* subdirectory once, however many files lie below it; the walks built on  *)
(* it (find, tree, du) meet every file exactly once, unless another file   *)
(* has the name of a directory that leads to it.                           *)
ListingNamesEveryChild ==
  /\ \A dir \in {<<>>} \cup {SubSeq(n.path, 1, Len(n.path) - 1) : n \in Names} :
     LET all == UNION {ChildOf(s, i, dir) : i \in Used(s)}
         rows == {i \in 1..Slots : ramfs_list(s, dir, i) # {}}
     IN /\ {c.child : c \in UNION {ramfs_list(s, dir, i) : i \in rows}} = {c.child : c \in all}
        /\ \A i, j \in rows : i # j =>
             \A c \in ramfs_list(s, dir, i), d \in ramfs_list(s, dir, j) :
               ~c.leaf /\ ~d.leaf => c.child # d.child
  /\ LET path(i) == s.slot[i].name.path
         hidden == {i \in Used(s) : \E e \in Used(s) : IsStrictPrefix(path(e), path(i))}
         walk == find_walk(s)
     IN  /\ IsInjective(walk) /\ Used(s) \ hidden \subseteq Range(walk) /\ Range(walk) \subseteq Used(s)
         /\ hidden = {} => du_walk(s) = SumFunctionOnSet([i \in Used(s) |-> Len(Stored(s, s.slot[i]))], Used(s))
=============================================================================
