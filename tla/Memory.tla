------------------------------- MODULE Memory -------------------------------
(***************************************************************************)
(* Physical frames and the page tables that name them: process slots and   *)
(* program loading, anonymous memory, large-code frames and the page       *)
(* tables of surface windows (src/arch/x86_64/userspace.c, src/elf64.c).   *)
(*                                                                         *)
(* m is the kernel's state:                                                *)
(*   free   how often each frame is on the list anonymous_free_frames: the *)
(*          order of the list is left out, as frames are interchangeable   *)
(*   next   the frame mako_frame_allocate would hand out next              *)
(*   task   scheduler state of a pid, "unused", "live" or "exited"         *)
(*   used   process_memory_used                                            *)
(*   count, reserved   anonymous_page_count, anonymous_reserved_pages      *)
(*   at     the frame that each place of a process names: its anonymous    *)
(*          page tables ("dir") and pages ("pte"), large_code_frames       *)
(*          ("lpage"), large_code_page_table ("ltable") and                *)
(*          surface_map_page_table with its directory entry ("window")     *)
(*   lcount, ldir   large_code_page_count; whether the directory names the *)
(*          large-code page table                                          *)
(*   spages pages shown by each surface window, 0 for no mapping           *)
(* Frame 0 is "none".  A page table holds Entries pages (512 in the code). *)
(***************************************************************************)
EXTENDS Naturals, FiniteSets

CONSTANTS Processes,  \* SCHEDULER_PROCESS_LIMIT - 1
          Booted,     \* how many bootstrap processes, which nobody ever reaps
          Frames,     \* frames mako_frame_allocate can hand out
          Entries,    \* pages per page table
          AnonMax,    \* USER_ANON_MAX_PAGES
          LargeMax,   \* USER_LARGE_CODE_MAX_PAGES
          Slots,      \* USER_SURFACE_MAP_SLOTS
          WindowPages \* pages of address space in a surface window

ASSUME MemoryAssumption ==
  /\ {Processes, Frames, LargeMax, Slots, WindowPages} \subseteq Nat
  /\ {AnonMax, Entries} \subseteq Nat \ {0}
  /\ Booted \in 0..Processes

VARIABLE m
vars == <<m>>

Pids == 1..Processes
Boot == 1..Booted
Frame == 1..Frames
Windows == 1..Slots
LastTable == (AnonMax - 1) \div Entries

Dir(t) == <<"dir", t>>
Pte(i) == <<"pte", i>>
Lpage(i) == <<"lpage", i>>
Ltable == <<"ltable", 0>>
Window(w) == <<"window", w>>

Place ==
  {Dir(t) : t \in 0..LastTable} \cup {Pte(i) : i \in 0..(AnonMax - 1)}
  \cup {Lpage(i) : i \in 1..LargeMax} \cup {Ltable} \cup {Window(w) : w \in Windows}

(* A for loop: what n turns make of a; turn i is Turn(state, i).           *)
Loop(Turn(_, _), a, n) ==
  LET after[i \in 0..n] == IF i = 0 THEN a ELSE Turn(after[i - 1], i)
  IN  after[n]

(* The pools kernel_main sizes: small slots for the bootstrap tasks, the   *)
(* full window for the first slot after them, medium slots for the rest.   *)
Bug_CodePages(pid) ==
  IF pid \in Boot THEN 1 ELSE IF pid + 1 \notin Pids THEN 3 ELSE 2
CodePages(pid) ==
  IF pid \in Boot THEN 1 ELSE IF pid - 1 = Booted THEN 3 ELSE 2

(***************************************************************************)
(* Frames.                                                                 *)
(***************************************************************************)
mako_frame_allocate(k) == IF k.next > Frames THEN 0 ELSE k.next

Listed(k) == {f \in Frame : k.free[f] > 0}

Taken(k) == IF Listed(k) # {} THEN CHOOSE f \in Listed(k) : TRUE ELSE mako_frame_allocate(k)

(* A frame, if there is one, is taken and stored in place x.               *)
anonymous_frame_take(k, pid, x) ==
  LET f == Taken(k)
  IN  IF f = 0 THEN k
      ELSE IF Listed(k) # {} THEN [k EXCEPT !.free[f] = @ - 1, !.at[pid][x] = f]
      ELSE [k EXCEPT !.next = @ + 1, !.at[pid][x] = f]

(* The frames in the places X go back to the list and the places are       *)
(* cleared.  A place without a frame gives none back.                      *)
anonymous_frame_release(k, pid, X) ==
  [k EXCEPT !.free = [f \in Frame |-> @[f] + Cardinality({x \in X : k.at[pid][x] = f})],
            !.at[pid] = [x \in Place |-> IF x \in X THEN 0 ELSE @[x]]]

(***************************************************************************)
(* The anonymous region.                                                   *)
(***************************************************************************)
(* The page tables that hold the first count pages, and what they name.    *)
anonymous_release(k, pid) ==
  LET tables == {t \in 0..LastTable : t * Entries < k.count[pid] /\ k.at[pid][Dir(t)] # 0}
      pages == {i \in 0..(AnonMax - 1) : i < k.count[pid] /\ i \div Entries \in tables}
  IN  [anonymous_frame_release(k, pid, {Dir(t) : t \in tables} \cup {Pte(i) : i \in pages})
         EXCEPT !.count[pid] = 0, !.reserved[pid] = 0]

Bug_CommitPage(r, pid, page) ==
  LET dir == Dir(page \div Entries)
      opens == page % Entries = 0
      k1 == IF opens THEN anonymous_frame_take(r.k, pid, dir) ELSE r.k
  IN  IF ~r.ok \/ (opens /\ Taken(r.k) = 0) THEN [ok |-> FALSE, k |-> r.k]
      ELSE IF Taken(k1) = 0
      THEN [ok |-> FALSE, k |-> IF opens THEN [k1 EXCEPT !.at[pid][dir] = 0] ELSE k1]
      ELSE [ok |-> TRUE,
            k |-> [anonymous_frame_take(k1, pid, Pte(page)) EXCEPT !.count[pid] = page + 1]]

(* One turn of the loop for one page: a page table when the page opens     *)
(* one, then the frame; when the frame is missing the new table goes back. *)
CommitPage(r, pid, page) ==
  LET dir == Dir(page \div Entries)
      opens == page % Entries = 0
      k1 == IF opens THEN anonymous_frame_take(r.k, pid, dir) ELSE r.k
  IN  IF ~r.ok \/ (opens /\ Taken(r.k) = 0) THEN [ok |-> FALSE, k |-> r.k]
      ELSE IF Taken(k1) = 0
      THEN [ok |-> FALSE, k |-> IF opens THEN anonymous_frame_release(k1, pid, {dir}) ELSE k1]
      ELSE [ok |-> TRUE,
            k |-> [anonymous_frame_take(k1, pid, Pte(page)) EXCEPT !.count[pid] = page + 1]]

anonymous_commit_pages(k, pid, start, end) ==
  Loop(LAMBDA r, i : CommitPage(r, pid, start + i - 1), [k |-> k, ok |-> TRUE], end - start)

Idle(k, pid) == k.count[pid] = 0 /\ k.reserved[pid] = 0

(***************************************************************************)
(* Program loading.  An image is compact, linked at USER_CODE, or large,   *)
(* linked at USER_LARGE_CODE_BASE and given frames of its own.             *)
(***************************************************************************)
Image == [large : BOOLEAN, pages : 1..3]

large_code_release(k, pid) ==
  [anonymous_frame_release(k, pid, {Lpage(i) : i \in 1..k.lcount[pid]} \cup {Ltable})
     EXCEPT !.ldir[pid] = FALSE, !.lcount[pid] = 0]

LargePage(r, pid, page) ==
  IF ~r.ok THEN r
  ELSE IF Taken(r.k) = 0
  THEN [ok |-> FALSE, k |-> large_code_release([r.k EXCEPT !.lcount[pid] = page - 1], pid)]
  ELSE [ok |-> TRUE,
        k |-> [anonymous_frame_take(r.k, pid, Lpage(page)) EXCEPT !.lcount[pid] = page]]

(* elf64_load_executable_pages cannot fail here: it checks again what the  *)
(* layout and the number of pages already say.                             *)
large_code_load(k, pid, pages) ==
  LET k1 == anonymous_frame_take(k, pid, Ltable)
      r == Loop(LAMBDA a, page : LargePage(a, pid, page), [k |-> k1, ok |-> TRUE], pages)
  IN  IF pages > LargeMax \/ Taken(k) = 0 THEN [k |-> k, ok |-> FALSE]
      ELSE IF ~r.ok THEN r
      ELSE [ok |-> TRUE, k |-> [r.k EXCEPT !.ldir[pid] = TRUE]]

Unused(k) == {p \in Pids : k.task[p] = "unused"}

(* The task goes to the first unused slot of the scheduler, which may not  *)
(* be the slot whose memory was prepared; that task is not taken back.     *)
(* capability_assign_services only refuses a pid that is out of range.     *)
load_process(k, pid, image) ==
  LET r == IF image.large THEN large_code_load(k, pid, image.pages)
           ELSE [k |-> k, ok |-> image.pages <= CodePages(pid)]
      given == CHOOSE p \in Unused(r.k) : \A q \in Unused(r.k) : p <= q
      k1 == IF Unused(r.k) = {} THEN r.k
            ELSE [r.k EXCEPT !.task[given] = "live"]
  IN  IF ~r.ok THEN r
      ELSE IF Unused(r.k) = {} \/ given # pid
      THEN [ok |-> FALSE, k |-> large_code_release(k1, pid)]
      ELSE [ok |-> TRUE, k |-> [k1 EXCEPT !.used[pid] = TRUE]]

userspace_spawn_path(k, image) ==
  Loop(LAMBDA r, pid : IF r.ok \/ r.k.used[pid] THEN r ELSE load_process(r.k, pid, image),
       [k |-> k, ok |-> FALSE], Processes)

(***************************************************************************)
(* Surface windows: the page table is made for the first mapping and kept  *)
(* until the process is released.                                          *)
(***************************************************************************)
edit_surface_ptes(k, pid, w, pages) ==
  LET k1 == IF k.at[pid][Window(w)] # 0 THEN k ELSE anonymous_frame_take(k, pid, Window(w))
  IN  IF k1.at[pid][Window(w)] = 0 THEN k1 ELSE [k1 EXCEPT !.spages[pid][w] = pages]

unmap_surface(k, pid) ==
  anonymous_frame_release(
    Loop(LAMBDA a, w : IF a.spages[pid][w] = 0 THEN a ELSE edit_surface_ptes(a, pid, w, 0),
         k, Slots),
    pid, {Window(w) : w \in Windows})

userspace_release_process(k, pid) ==
  [large_code_release(anonymous_release(unmap_surface(k, pid), pid), pid) EXCEPT
     !.used[pid] = FALSE]

(***************************************************************************)
(* What system calls accept as a caller's buffer.  A buffer is a region    *)
(* with a first page and a number of pages.                                *)
(***************************************************************************)
Buffers == [region : {"anon", "code", "large"}, at : 0..AnonMax, len : 0..AnonMax]

Within(b, pages) == b.at <= pages /\ b.len <= pages - b.at

anonymous_range(k, pid, b) ==
  /\ b.region = "anon" /\ k.count[pid] # 0
  /\ Within(b, k.count[pid])

user_write_range(k, pid, b) ==
  \/ anonymous_range(k, pid, b)
  \/ b.region = "code" /\ k.used[pid] /\ Within(b, CodePages(pid))
  \/ b.region = "large" /\ k.lcount[pid] # 0 /\ Within(b, k.lcount[pid])

Backing(k, pid, b, p) ==
  CASE b.region = "anon"  -> IF k.at[pid][Dir(p \div Entries)] = 0 THEN 0 ELSE k.at[pid][Pte(p)]
    [] b.region = "large" -> IF k.ldir[pid] THEN k.at[pid][Lpage(p + 1)] ELSE 0

(***************************************************************************)
(* Initial state: userspace_init has loaded the bootstrap processes and    *)
(* userspace_run_init has run them to their exit.                          *)
(***************************************************************************)
Init ==
  m = [free |-> [f \in Frame |-> 0], next |-> 1,
       task |-> [p \in Pids |-> IF p \in Boot THEN "exited" ELSE "unused"],
       used |-> [p \in Pids |-> p \in Boot],
       count |-> [p \in Pids |-> 0], reserved |-> [p \in Pids |-> 0],
       at |-> [p \in Pids |-> [x \in Place |-> 0]],
       lcount |-> [p \in Pids |-> 0], ldir |-> [p \in Pids |-> FALSE],
       spages |-> [p \in Pids |-> [w \in Windows |-> 0]]]

Live(pid) == m.task[pid] = "live"

(* System call 40: all pages or none. *)
anonymous_map(pid, pages) ==
  /\ Live(pid) /\ Idle(m, pid) /\ pages <= AnonMax
  /\ LET r == anonymous_commit_pages(m, pid, 0, pages)
     IN  m' = IF r.ok THEN r.k ELSE anonymous_release(r.k, pid)

(* System call 41. *)
anonymous_unmap(pid) == Live(pid) /\ ~Idle(m, pid) /\ m' = anonymous_release(m, pid)

(* System call 46. *)
anonymous_reserve(pid, pages) ==
  /\ Live(pid) /\ Idle(m, pid) /\ pages <= AnonMax
  /\ m' = [m EXCEPT !.reserved[pid] = pages]

(* System call 47: what was committed before a frame ran out stays. *)
Bug_anonymous_commit(pid, pages) ==
  /\ Live(pid) /\ m.reserved[pid] # 0
  /\ pages <= m.reserved[pid] - m.count[pid]
  /\ m' = [anonymous_commit_pages(m, pid, m.count[pid], m.count[pid] + pages).k
             EXCEPT !.count[pid] = m.count[pid] + pages]
anonymous_commit(pid, pages) ==
  /\ Live(pid) /\ m.reserved[pid] # 0
  /\ pages <= m.reserved[pid] - m.count[pid]
  /\ m' = anonymous_commit_pages(m, pid, m.count[pid], m.count[pid] + pages).k

(* System calls 11 and 50, and the kernel's own spawns. *)
Spawn(image) == m' = userspace_spawn_path(m, image).k

(* System call 2, or a kill: memory stays until the parent reaps. *)
Exit(pid) == Live(pid) /\ m' = [m EXCEPT !.task[pid] = "exited"]

Reap(pid) ==
  /\ m.task[pid] = "exited" /\ pid \notin Boot
  /\ m' = [userspace_release_process(m, pid) EXCEPT !.task[pid] = "unused"]

(* System calls 27 and 28 as far as page tables go: a new mapping goes to  *)
(* the first window that shows nothing.                                    *)
map_surface_readonly(pid, w, pages) ==
  /\ Live(pid) /\ m.used[pid] /\ m.spages[pid][w] = 0
  /\ \A v \in Windows : v < w => m.spages[pid][v] # 0
  /\ m' = edit_surface_ptes(m, pid, w, pages)
unmap_surface_id(pid, w) ==
  /\ Live(pid) /\ m.spages[pid][w] # 0
  /\ m' = edit_surface_ptes(m, pid, w, 0)

Next ==
  \/ \E image \in Image : Spawn(image)
  \/ \E pid \in Pids :
       \/ \E n \in 1..AnonMax : \/ anonymous_map(pid, n)
                                \/ anonymous_reserve(pid, n)
                                \/ anonymous_commit(pid, n)
       \/ anonymous_unmap(pid)
       \/ Exit(pid)
       \/ Reap(pid)
       \/ \E w \in Windows :
            \/ \E n \in 1..(WindowPages - 1) : map_surface_readonly(pid, w, n)
            \/ unmap_surface_id(pid, w)

Spec == Init /\ [][Next]_vars

(***************************************************************************)
(* Properties.                                                             *)
(***************************************************************************)
(* The places of all processes that name frame f.                          *)
Holders(f) == {h \in Pids \X Place : m.at[h[1]][h[2]] = f}

(* A frame that was ever handed out is in exactly one place: once on the   *)
(* free list, or in one page table or directory of one process.  No        *)
(* sequence of failed maps, partial commits, failed loads and teardowns    *)
(* leaks a frame, frees it twice or shows it to two processes.             *)
FramesAreConserved ==
  \A f \in Frame : m.free[f] + Cardinality(Holders(f)) = IF f < m.next THEN 1 ELSE 0

(* The scheduler's task table and the loader's process_memory_used agree   *)
(* on which slots are taken, so a failed spawn leaves no task behind, and  *)
(* a slot that is free keeps no memory of the process that had it.         *)
SlotTablesAgree ==
  \A p \in Pids :
    /\ m.used[p] <=> m.task[p] # "unused"
    /\ m.task[p] = "unused" =>
         /\ Idle(m, p) /\ m.lcount[p] = 0 /\ ~m.ldir[p]
         /\ \A x \in Place : m.at[p][x] = 0
         /\ \A w \in Windows : m.spages[p][w] = 0

(* Every page of a buffer that system calls accept for writing is backed   *)
(* by a frame in the caller's own page tables; the page fault handler      *)
(* cannot recover, so one that is not stops the machine.                   *)
AcceptedWritesAreMapped ==
  \A p \in Pids, b \in {x \in Buffers : x.region # "code"} :
    user_write_range(m, p, b) =>
      \A page \in 0..AnonMax : page \in b.at..(b.at + b.len - 1) =>
        Backing(m, p, b, page) \in Frame
=============================================================================
