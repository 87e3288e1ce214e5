------------------------------ MODULE GitRepo -------------------------------
(***************************************************************************)
(* The kernel's git (src/git.c) and MakoBox's git commands: snapshots of   *)
(* RAM files in one arena.  s.fs is the file system as git sees it (the    *)
(* empty function is no file); a hash is the tuple it is computed from     *)
(* (FNV-1a is taken to be injective).  s.then remembers what every file    *)
(* held at each commit.                                                    *)
(***************************************************************************)
EXTENDS Integers, Sequences, SequencesExt

CONSTANTS Names, Data, Messages, GIT_SNAPSHOT_ARENA_BYTES, GIT_MAX_TRACKED, GIT_MAX_COMMITS, CHANGES

VARIABLE s

Init == s = [ready |-> FALSE, tracked |-> <<>>, commits |-> <<>>, arena |-> <<>>, fs |-> <<>>, then |-> <<>>, changes |-> 0]

Files == DOMAIN s.fs
git_is_tracked(name) == \E i \in 1..Len(s.tracked) : s.tracked[i] = name
HeadHash == IF s.commits = <<>> THEN <<>> ELSE Last(s.commits).hash

git_repository_init ==
  s' = [s EXCEPT !.ready = TRUE, !.tracked = <<>>, !.commits = <<>>, !.arena = <<>>, !.then = <<>>]

git_add(name) ==
  /\ s.ready /\ name \in Files /\ ~git_is_tracked(name) /\ Len(s.tracked) < GIT_MAX_TRACKED
  /\ s' = [s EXCEPT !.tracked = Append(@, name)]

(* The bytes of the tracked files, measured before anything is written.    *)
TotalBytes == FoldLeft(LAMBDA n, name : n + Len(s.fs[name]), 0, s.tracked)
Snapshots ==
  [i \in 1..Len(s.tracked) |->
     [name |-> s.tracked[i], length |-> Len(s.fs[s.tracked[i]]),
      offset |-> Len(s.arena) + FoldLeft(LAMBDA n, name : n + Len(s.fs[name]), 0, SubSeq(s.tracked, 1, i - 1))]]
(* hash_bytes over the parent, the message, the names and the contents.    *)
hash_bytes(message) == <<HeadHash, message, s.tracked, [i \in 1..Len(s.tracked) |-> s.fs[s.tracked[i]]]>>

git_commit(message) ==
  /\ s.ready /\ s.tracked # <<>> /\ Len(s.commits) < GIT_MAX_COMMITS
  /\ \A i \in 1..Len(s.tracked) : s.tracked[i] \in Files
  /\ TotalBytes <= GIT_SNAPSHOT_ARENA_BYTES - Len(s.arena)
  /\ s' = [s EXCEPT !.commits = Append(@, [hash |-> hash_bytes(message), parent |-> HeadHash, message |-> message, files |-> Snapshots]),
                    !.arena = FoldLeft(LAMBDA bytes, name : bytes \o s.fs[name], @, s.tracked),
                    !.then = Append(@, s.fs)]

(* The snapshot of a name in the commit `back' commits before the head.    *)
git_commit_file(back, name) ==
  LET files == s.commits[Len(s.commits) - back].files
      at == SelectInSeq(files, LAMBDA file : file.name = name)
  IN  [found |-> at # 0,
       data |-> IF at = 0 THEN <<>> ELSE SubSeq(s.arena, files[at].offset + 1, files[at].offset + files[at].length)]
head_snapshot(name) == IF s.commits = <<>> THEN [found |-> FALSE, data |-> <<>>] ELSE git_commit_file(0, name)

git_repository_dirty ==
  s.ready /\ \/ s.tracked # <<>> /\ s.commits = <<>>
             \/ \E i \in 1..Len(s.tracked) :
                  \/ s.tracked[i] \notin Files
                  \/ ~head_snapshot(s.tracked[i]).found
                  \/ head_snapshot(s.tracked[i]).data # s.fs[s.tracked[i]]

git_log_entry(back) == s.commits[Len(s.commits) - back]
git_find_commit(hash) ==
  LET i == SelectInSeq(s.commits, LAMBDA commit : commit.hash = hash) IN IF i = 0 THEN Len(s.commits) ELSE Len(s.commits) - i

(* The common prefix and suffix are left out of the printed change.        *)
applet_git_diff(old, new) ==
  LET same(n) == SubSeq(old, 1, n) = SubSeq(new, 1, n)
      prefix == CHOOSE n \in 0..Len(old) : n <= Len(new) /\ same(n) /\ \A k \in 0..Len(old) : k <= Len(new) /\ same(k) => k <= n
      tail(n) == SubSeq(old, Len(old) - n + 1, Len(old)) = SubSeq(new, Len(new) - n + 1, Len(new))
      room == IF Len(old) < Len(new) THEN Len(old) - prefix ELSE Len(new) - prefix
      suffix == CHOOSE n \in 0..room : tail(n) /\ \A k \in 0..room : tail(k) => k <= n
  IN  [prefix |-> prefix, removed |-> SubSeq(old, prefix + 1, Len(old) - suffix), added |-> SubSeq(new, prefix + 1, Len(new) - suffix)]

(* The file system under git changes.                                      *)
Write(name, data) ==
  /\ s.changes < CHANGES
  /\ s' = [s EXCEPT !.changes = @ + 1, !.fs = [n \in Files \cup {name} |-> IF n = name THEN data ELSE s.fs[n]]]
Delete(name) == /\ s.changes < CHANGES /\ name \in Files
                /\ s' = [s EXCEPT !.changes = @ + 1, !.fs = [n \in Files \ {name} |-> s.fs[n]]]

Next == \/ git_repository_init \/ \E message \in Messages : git_commit(message)
        \/ \E name \in Names : git_add(name) \/ Delete(name) \/ \E data \in Data : Write(name, data)

(* Every snapshot reads back the bytes the file held when it was committed,*)
(* whatever was written, deleted or committed since; the log is a chain to *)
(* the first commit and show finds the commit a hash names; a repository is*)
(* clean exactly when every tracked file is what the head holds; and a     *)
(* printed diff turns the old content into the new one.                    *)
SnapshotsAreKept ==
  /\ \A back \in 0..Len(s.commits) - 1 :
       /\ \A name \in {file.name : file \in ToSet(git_log_entry(back).files)} :
            git_commit_file(back, name).data = s.then[Len(s.commits) - back][name]
       /\ git_log_entry(back).parent = (IF back = Len(s.commits) - 1 THEN <<>> ELSE git_log_entry(back + 1).hash)
       /\ git_find_commit(git_log_entry(back).hash) = back
  /\ s.ready /\ s.commits # <<>> =>
       (git_repository_dirty <=>
          \E name \in ToSet(s.tracked) : \/ name \notin Files \/ name \notin DOMAIN Last(s.then)
                                         \/ s.fs[name] # Last(s.then)[name] \/ ~head_snapshot(name).found)
  /\ s.commits # <<>> => \A name \in ToSet(s.tracked) \cap Files :
       LET old == head_snapshot(name)
           diff == applet_git_diff(old.data, s.fs[name])
       IN  old.found => SubSeq(old.data, 1, diff.prefix) \o diff.added \o SubSeq(old.data, diff.prefix + Len(diff.removed) + 1, Len(old.data))
                        = s.fs[name]
=============================================================================
