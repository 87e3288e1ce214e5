---------------------------- MODULE SharedShell -----------------------------
(***************************************************************************)
(* The command set xterm offers (shared/shell_commands.c) on top of the    *)
(* system calls it is given (xterm_shell_backend, apps/xterm/xterm.c).     *)
(* Every backend call opens the storage service and does not close it, so  *)
(* each one takes a slot of xterm's capability table for good.             *)
(*                                                                         *)
(* files maps a path to its contents, Absent if there is no such file;     *)
(* module are those still backed by a boot module, which cannot be         *)
(* written; held counts the capability slots in use.  What the reading     *)
(* commands print is module TextTools.                                     *)
(***************************************************************************)
EXTENDS Integers, Sequences, SequencesExt, FiniteSets

CONSTANTS Paths,            \* the files' names, as a sequence in table order
          Data,
          FILE_CAPACITY,    \* SHELL_FILE_CAPACITY
          LINE_CAPACITY, SORT_MAX_LINES,
          HANDLES           \* free slots of xterm's capability table

VARIABLE s

T == INSTANCE TextTools WITH
  Shared <- TRUE, NL <- 0, SP <- 3, Files <- Data, Patterns <- {<<1>>}, Counts <- {1}, Ranges <- {},
  Expressions <- {}, STRING_MIN <- 4

Absent == <<-1>>
Name == Range(Paths)
None == <<>>

(***************************************************************************)
(* The backend: k is the state after the call, ok its result.              *)
(***************************************************************************)
R(k, ok) == [k |-> k, ok |-> ok, data |-> <<>>]
Full(k) == k.held >= HANDLES
demon_service_open(k) == [k EXCEPT !.held = @ + 1]

(* The file's own handle is closed again.                                  *)
xterm_shell_read_file(k, n) ==
  LET k1 == demon_service_open(k)
      f == k.files[n]
  IN  IF Full(k) THEN R(k, FALSE)
      ELSE IF f = Absent \/ Full(k1) THEN R(k1, FALSE)
      ELSE [k |-> k1, ok |-> TRUE, data |-> SubSeq(f, 1, T!Min2(Len(f), FILE_CAPACITY))]

(* The file exists before its handle does.                                 *)
xterm_shell_write_file(k, n, data) ==
  LET k1 == demon_service_open(k)
      k2 == [k1 EXCEPT !.files[n] = IF @ = Absent THEN <<>> ELSE @]
  IN  IF Full(k) THEN R(k, FALSE)
      ELSE IF Full(k1) \/ n \in k.module THEN R(k2, FALSE) ELSE R([k2 EXCEPT !.files[n] = data], TRUE)

xterm_shell_delete_file(k, n) ==
  LET k1 == demon_service_open(k)
  IN  IF Full(k) THEN R(k, FALSE) ELSE R([k1 EXCEPT !.files[n] = Absent, !.module = @ \ {n}], k.files[n] # Absent)

xterm_shell_rename_file(k, a, b) ==
  LET k1 == demon_service_open(k)
  IN  IF Full(k) THEN R(k, FALSE)
      ELSE IF k.files[a] = Absent \/ k.files[b] # Absent THEN R(k1, FALSE)
      ELSE R([k1 EXCEPT !.files[a] = Absent, !.files[b] = k.files[a],
                           !.module = {IF n = a THEN b ELSE n : n \in @}], TRUE)

(* Entry number `index' of a directory; data is its path.                  *)
Entries(k, dir) ==
  LET Sub(n) == SubSeq(n, 1, Len(dir) + 1)
      below == SelectSeq(Paths, LAMBDA n : k.files[n] # Absent /\ IsStrictPrefix(dir, n))
      new(i) == \A j \in 1..i - 1 : Sub(below[j]) # Sub(below[i])
  IN  FoldLeft(LAMBDA a, i : IF new(i) THEN Append(a, Sub(below[i])) ELSE a, <<>>, [i \in 1..Len(below) |-> i])
xterm_shell_list_dir(k, dir, index) ==
  LET rows == Entries(k, dir)
      k1 == demon_service_open(k)
  IN  IF Full(k) THEN R(k, FALSE)
      ELSE IF index > Len(rows) THEN R(k1, FALSE) ELSE [k |-> k1, ok |-> TRUE, data |-> rows[index]]
IsFile(k, n) == n \in Name /\ k.files[n] # Absent

(***************************************************************************)
(* The commands: what they leave, what they say.                           *)
(***************************************************************************)
Runs(name, a, b, k) == s' = [k EXCEPT !.cmd = <<name, a, b>>, !.was = s.files]
Say(r, text) == [r.k EXCEPT !.said = text, !.seen = <<>>]

(* The commands that read a file and print something of it.                *)
Output(tool, data) ==
  T!shell_dispatch([tool |-> tool, file |-> data, other |-> <<>>, n |-> 1, p |-> <<1>>, text |-> <<>>, range |-> <<>>])
shell_read_whole(k, n, tool) ==
  LET r == xterm_shell_read_file(k, n)
  IN  IF r.ok THEN [r.k EXCEPT !.said = "text", !.seen = Output(tool, r.data).rows] ELSE Say(r, "no such file")
shell_cmd_cat(k, n, tool) == tool \in {"cat", "head", "tail", "tac", "rev"} /\ Runs(tool, n, None, shell_read_whole(k, n, tool))
shell_cmd_sort(k, n, tool) == tool \in {"sort", "uniq", "grep", "wc"} /\ Runs(tool, n, None, shell_read_whole(k, n, tool))

(* touch writes nothing, which empties a file that exists.                 *)
shell_cmd_touch(k, n) ==
  LET r == xterm_shell_write_file(k, n, <<>>) IN Say(r, IF r.ok THEN "done" ELSE "failed")
shell_cmd_write(k, n, data) ==
  LET r == xterm_shell_write_file(k, n, data) IN Say(r, IF r.ok THEN "done" ELSE "failed")
shell_cmd_rm(k, n) ==
  LET r == xterm_shell_delete_file(k, n) IN Say(r, IF r.ok THEN "done" ELSE "no such file")
CopyTo(k, a, b) ==
  LET r == xterm_shell_read_file(k, a) IN IF r.ok THEN xterm_shell_write_file(r.k, b, r.data) ELSE r
shell_cmd_cp(k, a, b) == LET r == CopyTo(k, a, b) IN Say(r, IF r.ok THEN "done" ELSE "failed")
(* A rename, or a copy and a delete where the name is taken.               *)
Bug_shell_cmd_mv(k, a, b) ==
  LET r == xterm_shell_rename_file(k, a, b)
      d == xterm_shell_delete_file(CopyTo(r.k, a, b).k, a)
  IN  IF r.ok THEN Say(r, "done") ELSE Say(d, IF d.ok THEN "done" ELSE "failed")
shell_cmd_mv(k, a, b) ==
  LET r == xterm_shell_rename_file(k, a, b)
      c == CopyTo(r.k, a, b)
      d == xterm_shell_delete_file(c.k, a)
  IN  IF r.ok THEN Say(r, "done") ELSE IF ~c.ok THEN Say(c, "failed") ELSE Say(d, IF d.ok THEN "done" ELSE "failed")

(* ls shows one directory, find, tree and du what is below it; the end of  *)
(* a directory and a refused call look the same.                           *)
RECURSIVE shell_cmd_ls(_, _, _), shell_find_walk(_, _, _)
shell_cmd_ls(k, dir, index) ==
  LET r == xterm_shell_list_dir(k, dir, index)
  IN  IF ~r.ok THEN r.k ELSE shell_cmd_ls([r.k EXCEPT !.seen = Append(@, r.data)], dir, index + 1)
shell_find_walk(k, dir, index) ==
  LET r == xterm_shell_list_dir(k, dir, index)
      k1 == [r.k EXCEPT !.seen = Append(@, r.data)]
  IN  IF ~r.ok THEN r.k
      ELSE shell_find_walk(IF IsFile(k, r.data) THEN k1 ELSE shell_find_walk(k1, r.data, 1), dir, index + 1)
(* The total is of what the walk met.                                      *)
shell_du_walk(k) ==
  LET met == Range(shell_find_walk([k EXCEPT !.seen = <<>>], <<>>, 1).seen)
  IN  FoldLeft(LAMBDA sum, n : IF n \in met THEN sum + Len(k.files[n]) ELSE sum, 0, Paths)

(***************************************************************************)
(* One command line at a time.                                             *)
(***************************************************************************)
Init ==
  \E f \in [Name -> {Absent} \cup Data] : \E x \in SUBSET {n \in {Paths[1]} : f[n] # Absent} :
    s = [files |-> f, module |-> x, held |-> 0, said |-> "nothing", seen |-> <<>>, cmd |-> <<"none", None, None>>, was |-> f]

Reading == {"cat", "tail", "tac", "sort", "grep"}
Fresh == [s EXCEPT !.seen = <<>>]
shell_dispatch ==
  /\ s.held < HANDLES + 1
  /\ \/ \E n \in Name :
          \/ \E tool \in Reading : shell_cmd_cat(Fresh, n, tool) \/ shell_cmd_sort(Fresh, n, tool)
          \/ Runs("touch", n, None, shell_cmd_touch(Fresh, n))
          \/ Runs("rm", n, None, shell_cmd_rm(Fresh, n))
          \/ \E d \in Data : Runs("write", n, None, shell_cmd_write(Fresh, n, d))
          \/ \E m \in Name : Runs("cp", n, m, shell_cmd_cp(Fresh, n, m)) \/ Runs("mv", n, m, shell_cmd_mv(Fresh, n, m))
     \/ Runs("ls", None, None, [shell_cmd_ls(Fresh, <<>>, 1) EXCEPT !.said = "text"])
     \/ Runs("find", None, None, [shell_find_walk(Fresh, <<>>, 1) EXCEPT !.said = "text"])
Next == shell_dispatch

(***************************************************************************)
(* Properties.                                                             *)
(***************************************************************************)
(* Even when the handles run out between two calls of one command: only    *)
(* the files a command names change; mv onto another name leaves the       *)
(* beginning of the moved text (what the buffer holds) under one of the    *)
(* two names; what is printed of a file is the beginning of it; a walk     *)
(* shows only what exists, nothing twice, and all of it while handles are  *)
(* left.                                                                   *)
ShellKeepsFiles ==
  LET a == s.cmd[2]
      b == s.cmd[3]
      cut(f) == SubSeq(f, 1, T!Min2(Len(f), FILE_CAPACITY))
      all == {n \in Name : s.files[n] # Absent}
      met == Range(s.seen)
  IN  /\ \A n \in Name : n \notin {a, b} => s.files[n] = s.was[n]
      /\ s.cmd[1] = "mv" /\ a # b /\ s.was[a] # Absent => \E n \in {a, b} : IsPrefix(cut(s.was[a]), s.files[n])
      /\ s.cmd[1] = "cp" /\ s.said = "done" => s.files[b] = cut(s.was[a]) /\ (a # b => s.files[a] = s.was[a])
      /\ s.cmd[1] \in Reading /\ s.said = "text" => s.seen = Output(s.cmd[1], cut(s.files[a])).rows
      /\ s.cmd[1] = "find" => IsInjective(s.seen) /\ (met \cap Name \subseteq all)
      /\ s.cmd[1] = "find" /\ s.held < HANDLES =>
           all \subseteq met /\ (s.held + 9 < HANDLES => shell_du_walk(s) = FoldLeft(LAMBDA sum, n :
              IF n \in all THEN sum + Len(s.files[n]) ELSE sum, 0, Paths))

(* include/demon/shell_commands.h:21 says of read_file: "Returns false if  *)
(* the path doesn't name a file."  So a file that exists is never reported *)
(* missing.                                                                *)
ReadFindsTheFile == s.cmd[1] \in Reading /\ s.said = "no such file" => s.files[s.cmd[2]] = Absent
=============================================================================
