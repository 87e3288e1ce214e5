----------------------------- MODULE Persistence -----------------------------
(***************************************************************************)
(* How the Butterscotch port keeps its configuration                       *)
(* (ports/butterscotch/platform/persistence.c): a record with a checksum   *)
(* is written to a temporary file that then takes the place of the old     *)
(* one.  Every call to the file service is a step, which may fail, and the *)
(* process may be killed before any of them and be started again.          *)
(***************************************************************************)
EXTENDS Integers, FiniteSets

CONSTANTS
  Configs,      \* configurations, of which some are out of range
  Valid,        \* those in range
  SAVES         \* saves that are tried

VARIABLE s

NONE == [bytes |-> "none", config |-> 0]
Whole(c) == [bytes |-> "whole", config |-> c]
(* What a write that stops early leaves.                                   *)
Torn == [bytes |-> "torn", config |-> 0]

(* The checksum tells a record that was changed or cut from a whole one.   *)
valid(c) == c \in Valid
decode(b) == b.bytes = "whole" /\ valid(b.config)
DemonButterscotchPersistence_load(path) == IF decode(path) THEN path.config ELSE 0

Init == s = [path |-> NONE, temp |-> NONE, at |-> "idle", config |-> 0, saved |-> 0, sure |-> TRUE, tried |-> {}, saves |-> 0, ok |-> FALSE]

(* DemonButterscotchPersistence_save, call by call.                        *)
Return(t, ok) == [t EXCEPT !.at = "idle", !.ok = ok]
Encode ==
  /\ s.at = "idle" /\ s.saves < SAVES
  /\ \E c \in Configs :
       LET a == [s EXCEPT !.config = c, !.saves = @ + 1]
       IN  s' = IF valid(c) THEN [a EXCEPT !.at = "create"] ELSE Return(a, FALSE)
Create ==
  /\ s.at = "create"
  /\ \/ s' = Return(s, FALSE)
     \/ s' = [s EXCEPT !.at = "write", !.temp = [bytes |-> "empty", config |-> 0]]
Write ==
  /\ s.at = "write"
  /\ \/ s' = [s EXCEPT !.at = "delete", !.temp = Whole(s.config), !.tried = @ \cup {s.config}]
     \/ \E b \in {Torn, s.temp} : s' = [s EXCEPT !.at = "discard", !.temp = b]
Discard ==
  /\ s.at = "discard"
  /\ \E removed \in BOOLEAN : s' = Return(IF removed THEN [s EXCEPT !.temp = NONE] ELSE s, FALSE)
(* From here on the old configuration may be gone.                         *)
Delete ==
  /\ s.at = "delete"
  /\ \E removed \in BOOLEAN : s' = [s EXCEPT !.at = "rename", !.path = IF removed THEN NONE ELSE @, !.sure = FALSE]
(* The file service refuses to rename over a file that exists.             *)
Rename ==
  /\ s.at = "rename"
  /\ \/ s.path = NONE /\ s' = Return([s EXCEPT !.path = s.temp, !.temp = NONE, !.saved = s.config, !.sure = TRUE], TRUE)
     \/ s' = [s EXCEPT !.at = "discard"]
Kill == s.at # "idle" /\ s' = Return(s, FALSE)

Next == Encode \/ Create \/ Write \/ Discard \/ Delete \/ Rename \/ Kill
Spec == Init /\ [][Next]_s

(* What the theorem assumes: 0 is no configuration, it stands for the      *)
(* defaults.                                                               *)
PersistenceConstants == 0 \notin Configs /\ Valid \subseteq Configs /\ SAVES \in Nat

-----------------------------------------------------------------------------
(* Whatever fails or is killed, a configuration that loads is one that a   *)
(* save wrote whole, and unless a save got as far as deleting the old      *)
(* file, it is the one of the last save that reported success.             *)
LoadsWhatWasSaved ==
  LET c == DemonButterscotchPersistence_load(s.path)
  IN  /\ c # 0 => c \in s.tried
      /\ s.sure => c = s.saved

(* A save that reports success has replaced the old configuration.         *)
SuccessIsDurable == s.at = "idle" /\ s.ok => DemonButterscotchPersistence_load(s.path) = s.config
=============================================================================
