-------------------------------- MODULE Disk --------------------------------
(***************************************************************************)
(* The SATA driver (src/ahci.c) under the disk installer, and the sound    *)
(* driver (src/ac97.c) under MakoBox's tones.  Each has one command or     *)
(* buffer in the device's hands.  A sector is SECTOR bytes; a command that *)
(* the drive has not finished may still change the disk after the driver   *)
(* gave up on it.                                                          *)
(***************************************************************************)
EXTENDS Integers, Sequences, SequencesExt

CONSTANTS Images, DiskSectors, SECTOR, CHUNK, TYPED, BUFFERS

VARIABLE s

None == [at |-> 0, bytes |-> <<>>]
Letters == {"Y", "E", "S"}

(* ahci_probe and ahci_start: the first live port, an idle drive and an    *)
(* answered IDENTIFY, or no disk.                                          *)
ahci_start(live, busy, answers) == live /\ ~busy /\ answers

Init == \E image \in Images, size \in DiskSectors, live \in BOOLEAN, busy \in BOOLEAN, answers \in BOOLEAN, sound \in BOOLEAN :
  s = [started |-> ahci_start(live, busy, answers), image |-> image, size |-> size,
       disk |-> [i \in 1..size * SECTOR |-> 9], command |-> None, stuck |-> FALSE,
       phase |-> "check", line |-> <<>>, typed |-> 0, offset |-> 0, lba |-> 0,
       ready |-> sound, submitted |-> 0, playing |-> 0, pcm |-> 0, halted |-> FALSE, heard |-> 0, cut |-> FALSE]

Sectors(bytes) == (bytes + SECTOR - 1) \div SECTOR

(* The checks before anything is asked: a disk, an image, enough room.     *)
Check == /\ s.phase = "check"
         /\ s' = [s EXCEPT !.phase = IF ~s.started \/ s.image = <<>> \/ Sectors(Len(s.image)) > s.size THEN "console" ELSE "confirm"]

installer_read_line(key) ==
  /\ s.phase = "confirm" /\ s.typed < TYPED
  /\ s' = CASE key = "enter" -> [s EXCEPT !.phase = IF s.line = <<"Y", "E", "S">> THEN "writing" ELSE "console"]
            [] key = "backspace" -> [s EXCEPT !.typed = @ + 1, !.line = IF @ = <<>> THEN @ ELSE Front(@)]
            [] OTHER -> [s EXCEPT !.typed = @ + 1, !.line = Append(@, key)]

(* issue_data_command: the drive must be idle; the command is in the only  *)
(* slot until the drive clears it.                                         *)
issue_data_command(lba, bytes) == [at |-> lba * SECTOR, bytes |-> bytes]

Bug_Chunk == LET rest == Len(s.image) - s.offset
             IN  IF rest >= CHUNK * SECTOR THEN SubSeq(s.image, s.offset + 1, s.offset + CHUNK * SECTOR)
                 ELSE SubSeq(s.image, s.offset + 1, Len(s.image)) \o [i \in 1..CHUNK * SECTOR - rest |-> 1]
Chunk == LET rest == Len(s.image) - s.offset
         IN  IF rest >= CHUNK * SECTOR THEN SubSeq(s.image, s.offset + 1, s.offset + CHUNK * SECTOR)
             ELSE SubSeq(s.image, s.offset + 1, Len(s.image)) \o [i \in 1..CHUNK * SECTOR - rest |-> 0]

(* makobox_installer_run's loop: a chunk is handed over.                   *)
makobox_installer_run ==
  /\ s.phase = "writing" /\ s.command = None
  /\ s' = IF s.offset >= Len(s.image) THEN [s EXCEPT !.phase = "complete"]
          ELSE IF s.stuck THEN [s EXCEPT !.phase = "failed"]
          ELSE [s EXCEPT !.command = issue_data_command(s.lba, Chunk), !.phase = "waiting"]

(* The drive: a command past its last sector is refused and never clears.  *)
Fits == s.command.at + Len(s.command.bytes) <= s.size * SECTOR
DriveWrites ==
  /\ s.command # None /\ Fits
  /\ s' = [s EXCEPT !.disk = [i \in DOMAIN s.disk |-> IF i \in s.command.at + 1..s.command.at + Len(s.command.bytes)
                                                      THEN s.command.bytes[i - s.command.at] ELSE s.disk[i]],
                    !.command = None]
DriveSticks == s.command # None /\ ~s.stuck /\ s' = [s EXCEPT !.stuck = TRUE]

(* ahci_write_sectors returns: the slot is clear, or the wait is over.     *)
Written == /\ s.phase = "waiting" /\ s.command = None
           /\ s' = [s EXCEPT !.phase = "writing", !.lba = @ + CHUNK,
                             !.offset = IF Len(s.image) - @ >= CHUNK * SECTOR THEN @ + CHUNK * SECTOR ELSE Len(s.image)]
WriteTimedOut == /\ s.phase = "waiting" /\ s.command # None /\ (s.stuck \/ ~Fits)
                 /\ s' = [s EXCEPT !.phase = "failed"]

-----------------------------------------------------------------------------
(* 44100 frames a second, at most 90 ms: what play_bleep computes.         *)
Frames(ms) == IF (44100 * ms) \div 1000 = 0 THEN 1 ELSE (44100 * ms) \div 1000

(* A buffer is refused while the controller has not halted on the last.    *)
ac97_submit(frames) ==
  /\ s.ready /\ frames \in 1..4096 /\ s.submitted < BUFFERS
  /\ s.submitted # 0 => s.halted
  /\ s' = [s EXCEPT !.pcm = s.submitted + 1, !.submitted = @ + 1, !.playing = s.submitted + 1, !.halted = FALSE,
                    !.cut = @ \/ (s.playing # 0 /\ s.heard # s.playing)]
play_bleep(ms) == s.phase \in {"console", "check"} /\ ms \in 1..90 /\ ac97_submit(Frames(ms))

(* The controller plays what the buffer holds, then halts.                 *)
CardPlays == /\ s.playing # 0 /\ ~s.halted
             /\ s' = [s EXCEPT !.heard = s.pcm, !.halted = TRUE]

Next == \/ Check \/ makobox_installer_run \/ Written \/ WriteTimedOut \/ DriveWrites \/ DriveSticks \/ CardPlays
        \/ \E key \in Letters \cup {"enter", "backspace"} : installer_read_line(key)
        \/ \E ms \in {1, 90} : play_bleep(ms)
Spec == Init /\ [][Next]_s

(* What the theorem assumes: sectors and chunks that are not empty.        *)
DiskConstants == SECTOR \in Nat \ {0} /\ CHUNK \in Nat \ {0} /\ DiskSectors \subseteq Nat /\ Images \subseteq Seq(Nat)

(* A completed installation is the image, then zeros up to the end of its  *)
(* last chunk, and leaves the rest of the disk alone; without YES, a disk, *)
(* an image that fits, nothing is written; and even after a timeout the    *)
(* disk holds nothing but its old bytes and the image's, in their places.  *)
InstallIsExact ==
  LET padded == s.image \o [i \in 1..(CHUNK * SECTOR - 1) - ((Len(s.image) + CHUNK * SECTOR - 1) % (CHUNK * SECTOR)) |-> 0]
  IN  /\ s.phase = "complete" => \A i \in DOMAIN s.disk : s.disk[i] = (IF i <= Len(padded) THEN padded[i] ELSE 9)
      /\ s.phase \in {"check", "confirm", "console"} => \A i \in DOMAIN s.disk : s.disk[i] = 9
      /\ \A i \in DOMAIN s.disk : s.disk[i] = 9 \/ (i <= Len(padded) /\ s.disk[i] = padded[i])

(* No sound is cut short by the next one, and a tone of up to 90 ms fits   *)
(* the driver's buffer.                                                    *)
SoundsAreWhole == ~s.cut /\ \A ms \in 1..90 : Frames(ms) <= 4096
=============================================================================
