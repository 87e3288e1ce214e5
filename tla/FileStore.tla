----------------------------- MODULE FileStore ------------------------------
(***************************************************************************)
(* What the project store promises: a map from names to contents in which  *)
(* every step concerns one file, or moves or copies one file to another    *)
(* name.  Absent is the content of a name no file has.                     *)
(***************************************************************************)
CONSTANTS Names, Contents, Empty, Absent

VARIABLE files

Init == files \in [Names -> Contents \cup {Absent}]

Create(f, g, n) == f[n] = Absent /\ g = [f EXCEPT ![n] = Empty]

Write(f, g, n) == g[n] \in Contents /\ g = [f EXCEPT ![n] = g[n]]

Delete(f, g, n) == f[n] # Absent /\ g = [f EXCEPT ![n] = Absent]

Copy(f, g, from, to) == f[from] # Absent /\ g = [f EXCEPT ![to] = f[from]]

Move(f, g, from, to) ==
  /\ from # to /\ f[from] # Absent
  /\ g = [f EXCEPT ![to] = f[from], ![from] = Absent]

Step(f, g) ==
  \E n \in Names :
    \/ Create(f, g, n) \/ Delete(f, g, n) \/ Write(f, g, n)
    \/ \E to \in Names : Copy(f, g, n, to) \/ Move(f, g, n, to)

Next == Step(files, files')

Spec == Init /\ [][Next]_files
=============================================================================
