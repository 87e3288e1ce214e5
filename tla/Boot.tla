-------------------------------- MODULE Boot --------------------------------
(***************************************************************************)
(* kernel_main (src/kernel.c): one straight line from the boot loader to   *)
(* the shell, the desktop session or the installer, with a halt at every   *)
(* check that fails.  What varies is the machine: the memory map, where    *)
(* the loader put its modules, which devices exist and where their         *)
(* registers are, the command line, and which programs exit cleanly.       *)
(*                                                                         *)
(* Memory is counted in frames.  own[x] is the interval of frames x got.   *)
(* A device's registers lie in one GiB region; pd says which table serves  *)
(* a region and entries which devices a table maps.                        *)
(***************************************************************************)
EXTENDS Integers, FiniteSets, Sequences

CONSTANTS Maps,       \* memory maps: sequences of <<first, end>> of usable frames
          Reserved,   \* sets of intervals the loader used: kernel, boot info, modules
          Regions,    \* GiB regions of device registers; 0 is the low one
          Modes       \* command lines, as sets of the words "boottest", "doomtest", "desktop", "install"

VARIABLE s

None == -1
Fatal(k) == [k EXCEPT !.at = "halted"]
boot_fatal(k, ok, then) == IF ok THEN [k EXCEPT !.at = then] ELSE Fatal(k)

(***************************************************************************)
(* The bump allocator.  The first usable entry with a frame above the      *)
(* floor becomes its region; the others are never used.                    *)
(***************************************************************************)
Max2(a, b) == IF a > b THEN a ELSE b
Bug_multiboot_reserved_end(r) == CHOOSE e \in {i[2] : i \in r} : \A i \in r : i[2] >= e
multiboot_reserved_end(r) == CHOOSE e \in {i[2] : i \in r} : \A i \in r : i[2] <= e
report_memory_map(map, floor) ==
  LET Fits(i) == Max2(map[i][1], floor) < map[i][2]
      I == {i \in DOMAIN map : Fits(i)}
      i == CHOOSE j \in I : \A l \in I : j <= l
  IN  IF I = {} THEN <<0, 0>> ELSE <<Max2(map[i][1], floor), map[i][2]>>

(* A request that does not fit has taken what there was.                   *)
allocate_contiguous(k, who, pages) ==
  IF k.frames[1] + pages > k.frames[2] THEN [k EXCEPT !.frames[1] = k.frames[2]]
  ELSE [k EXCEPT !.frames[1] = @ + pages, !.own = @ \cup {<<who, k.frames[1], k.frames[1] + pages>>}]
Has(k, who) == \E o \in k.own : o[1] = who

(***************************************************************************)
(* Device registers.  The framebuffer takes the spare page directory if it *)
(* lies above the first GiB; the drivers hand the same one to the mapper,  *)
(* which clears it when the region has none yet.  Without a framebuffer    *)
(* there is no spare directory: its address is 0.                          *)
(***************************************************************************)
Spare(k) == IF k.hw.framebuffer # None THEN "spare" ELSE "frame 0"
UseTable(k, gib, fresh) ==
  LET t == IF gib = 0 THEN "low" ELSE Spare(k)
  IN  IF gib = 0 \/ ~fresh THEN k
      ELSE [k EXCEPT !.pd[gib] = t, !.entries = {e \in @ : e[1] # t}]
Enter(k, gib, dev) == [k EXCEPT !.entries = @ \cup {<<k.pd[gib], dev>>}]
framebuffer_enable(k) == Enter(UseTable(k, k.hw.framebuffer, TRUE), k.hw.framebuffer, "framebuffer")
map_mmio_identity_2m(k, gib, dev) == Enter(UseTable(k, gib, k.pd[gib] = "none"), gib, dev)
Mapped(k, gib, dev) == gib # None /\ <<k.pd[gib], dev>> \in k.entries

Machines == [framebuffer : Regions \cup {None}, nic : Regions \cup {None}, ahci : Regions \cup {None}]

Init ==
  \E hw \in Machines, map \in Maps, res \in Reserved, mode \in Modes :
    s = [at |-> "reset", hw |-> hw, map |-> map, reserved |-> res, mode |-> mode,
         frames |-> <<0, 0>>, own |-> {}, pd |-> [g \in Regions \cup {0} |-> IF g = 0 THEN "low" ELSE "none"],
         entries |-> {}, ticking |-> FALSE, running |-> {}, units |-> 0, shared |-> {}]

(***************************************************************************)
(* The stages, in their order.                                             *)
(***************************************************************************)
At(stage) == s.at = stage

(* The map, and the frames of the page tables and the back buffer.         *)
kernel_main ==
  /\ At("reset")
  /\ LET k == [s EXCEPT !.frames = report_memory_map(s.map, multiboot_reserved_end(s.reserved))]
         k1 == allocate_contiguous(k, "tables", 2)
         k2 == IF s.hw.framebuffer = None THEN k1
               ELSE allocate_contiguous(allocate_contiguous(k1, "spare", 1), "backbuffer", 2)
     IN  s' = boot_fatal(k2, k.frames[1] # 0 /\ Has(k2, "tables"), "framebuffer")

Framebuffer ==
  /\ At("framebuffer")
  /\ s' = IF s.hw.framebuffer = None THEN [s EXCEPT !.at = "network"]
          ELSE LET k == framebuffer_enable(s)
               IN  \* the self-tests of the renderer pass
                   boot_fatal(k, Has(s, "spare") /\ Has(s, "backbuffer"), "network")

(* An E1000 that is there must work, and so must the network behind it;    *)
(* that part is module Network.                                            *)
Ethernet ==
  /\ At("network")
  /\ \E works \in BOOLEAN :
       s' = IF s.hw.nic = None THEN [s EXCEPT !.at = "ahci"]
            ELSE LET k == allocate_contiguous(map_mmio_identity_2m(s, s.hw.nic, "nic"), "nic dma", 2)
                 IN  boot_fatal(k, works /\ Has(k, "nic dma"), "ahci")

(* A disk that does not answer is left out.                                *)
Ahci ==
  /\ At("ahci")
  /\ \E live \in BOOLEAN :
       LET k == IF s.hw.ahci = None THEN s ELSE map_mmio_identity_2m(s, s.hw.ahci, "ahci")
       IN  s' = [IF live /\ s.hw.ahci # None THEN allocate_contiguous(k, "ahci dma", 2) ELSE k EXCEPT !.at = "modules"]

install_multiboot_projects == At("modules") /\ \E ok \in BOOLEAN : s' = boot_fatal(s, ok, "irq")

interrupts_hardware_start ==
  At("irq") /\ \E ok \in BOOLEAN : s' = boot_fatal([s EXCEPT !.ticking = ok], ok, "usb")

Usb ==
  /\ At("usb")
  /\ s' = [IF s.hw.framebuffer = None THEN s ELSE allocate_contiguous(s, "usb dma", 1) EXCEPT !.at = "pools"]

(* Two of the seven pools; a process gets a copy of the kernel's entry for *)
(* the framebuffer's GiB, as system calls draw on the caller's tables.     *)
allocate_process_memory ==
  /\ At("pools")
  /\ LET k == allocate_contiguous(allocate_contiguous(s, "pool 1", 2), "pool 2", 2)
         k1 == [k EXCEPT !.shared = {<<g, s.pd[g]>> : g \in {s.hw.framebuffer} \ {None}}]
     IN  s' = boot_fatal(k1, Has(k, "pool 1") /\ Has(k, "pool 2"), "surfaces")

Surfaces ==
  /\ At("surfaces")
  /\ LET k == allocate_contiguous(s, "surfaces", 2) IN s' = boot_fatal(k, Has(k, "surfaces"), "ring3")

(* Programs that must run to their end: the first two tasks, the           *)
(* self-tests, then one process at a time, spawned, run and reaped.        *)
Ring3 == At("ring3") /\ \E ok \in BOOLEAN : s' = boot_fatal(s, ok, "checks")
SpawnChecks == At("checks") /\ \E ok \in BOOLEAN : s' = boot_fatal(s, ok, "doom")
DoomFull ==
  /\ At("doom")
  /\ \E ok \in BOOLEAN :
       s' = CASE s.mode \cap {"boottest", "doomtest"} = {} -> [s EXCEPT !.at = "desktop"]
              [] "doomtest" \in s.mode -> boot_fatal(s, ok, "doom runs")
              [] OTHER -> boot_fatal(s, ok, "desktop")

(* The desktop: its processes are started in turn; each must be waiting    *)
(* for messages before the next one starts.                                *)
Desktop ==
  /\ At("desktop")
  /\ \E compositor, demonx, xterm \in BOOLEAN :
       s' = IF s.hw.framebuffer = None \/ "desktop" \notin s.mode THEN [s EXCEPT !.at = "units"]
            ELSE boot_fatal([s EXCEPT !.running = {"compositor", "demonx"} \cup
                                        (IF "boottest" \in s.mode THEN {} ELSE {"xterm"})],
                            compositor /\ demonx /\ xterm,
                            IF "boottest" \in s.mode THEN "units" ELSE "session")

(* Init's ten or eight units, and every self-test of the shell.            *)
Units ==
  /\ At("units")
  /\ \E ok \in BOOLEAN :
       s' = boot_fatal([s EXCEPT !.units = IF "compositor" \in s.running THEN 10 ELSE 8], ok,
                       IF "install" \in s.mode THEN "installer" ELSE "shell")

(* The session ends when the compositor does; other programs come and go.  *)
desktop_session_loop ==
  /\ At("session")
  /\ \/ s' = Fatal([s EXCEPT !.running = @ \ {"compositor"}])
     \/ \E p \in s.running \ {"compositor"} : s' = [s EXCEPT !.running = @ \ {p}]

Next ==
  \/ kernel_main \/ Framebuffer \/ Ethernet \/ Ahci \/ install_multiboot_projects \/ interrupts_hardware_start
  \/ Usb \/ allocate_process_memory \/ Surfaces \/ Ring3 \/ SpawnChecks \/ DoomFull \/ Desktop \/ Units
  \/ desktop_session_loop
Spec == Init /\ [][Next]_s

(* What the theorems assume: maps of frame intervals, and something that   *)
(* the loader left, the last of which ends somewhere.                      *)
BootConstants ==
  /\ Maps \subseteq Seq(Nat \X Nat) /\ Regions \subseteq Nat
  /\ \A r \in Reserved : r \subseteq Nat \X Nat /\ \E e \in {i[2] : i \in r} : \A i \in r : i[2] <= e
(* All registers above the first GiB are in one GiB: the drivers share the *)
(* one spare page directory.                                               *)
OneRegion == \A g, h \in Regions \ {0} : g = h

(***************************************************************************)
(* Properties.                                                             *)
(***************************************************************************)
(* No frame is given out twice, none that holds the kernel, the boot       *)
(* information or a module, and none outside the usable memory: the floor  *)
(* of kernel_main lies above everything the loader left.                   *)
FramesAreGivenOnce ==
  /\ \A o \in s.own : \E i \in DOMAIN s.map : s.map[i][1] <= o[2] /\ o[3] <= s.map[i][2]
  /\ \A o \in s.own, r \in s.reserved : o[3] <= r[1] \/ r[2] <= o[2]
  /\ \A o, p \in s.own : o = p \/ o[3] <= p[2] \/ p[3] <= o[2]
(* The registers of a device stay mapped once they are: no later device    *)
(* takes its page directory away (map_mmio_identity_2m clears the one it   *)
(* is handed), and a process still has the table that serves the           *)
(* framebuffer when the system is up.                                      *)
DevicesStayMapped ==
  /\ s.at \notin {"reset", "framebuffer", "halted"} /\ s.hw.framebuffer # None =>
       Mapped(s, s.hw.framebuffer, "framebuffer")
  /\ s.at \notin {"reset", "framebuffer", "network", "halted"} /\ s.hw.nic # None => Mapped(s, s.hw.nic, "nic")
  /\ s.at \in {"shell", "session"} /\ s.hw.framebuffer # None =>
       s.shared = {<<s.hw.framebuffer, s.pd[s.hw.framebuffer]>>}
=============================================================================
