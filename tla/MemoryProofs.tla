---------------------------- MODULE MemoryProofs ----------------------------
(***************************************************************************)
(* Theorems about Memory, about the boot that hands out the frames before  *)
(* there is a scheduler (Boot), and about the network it sets up           *)
(* (Network).                                                              *)
(***************************************************************************)
EXTENDS Memory, Sequences, FiniteSetTheorems, WellFoundedInduction, TLAPS

(***************************************************************************)
(* Loops.  Induction is stated over sets of numbers: T is the set of turns *)
(* after which the invariant holds.                                        *)
(***************************************************************************)
LEMMA Least ==
  ASSUME NEW T, T \subseteq Nat, T # {}
  PROVE  \E x \in T : \A y \in T : x <= y
<1>1. \E R : IsWellFoundedOn(R, Nat) /\ \A x, y \in Nat : <<x, y>> \in R <=> x < y
  <2> DEFINE Q == OpToRel(<, Nat)
  <2>1. IsWellFoundedOn(Q, Nat)
    BY NatLessThanWellFounded
  <2>2. \A x, y \in Nat : <<x, y>> \in Q <=> x < y
    BY DEF OpToRel
  <2> HIDE DEF Q
  <2> WITNESS Q
  <2> QED BY <2>1, <2>2
<1>2. PICK R : IsWellFoundedOn(R, Nat) /\ \A x, y \in Nat : <<x, y>> \in R <=> x < y
  BY <1>1
<1>3. IsWellFoundedOn(R, Nat)
  BY <1>2
<1>4. \E x \in T : \A y \in T : ~(<<y, x>> \in R)
  BY <1>3, WFMin, Zenon
<1>5. PICK x \in T : \A y \in T : ~(<<y, x>> \in R)
  BY <1>4
<1>6. \A y \in T : y \in Nat /\ x \in Nat /\ ~(y < x)
  BY <1>2, <1>5
<1> QED BY <1>6

(* What holds after no turn and passes from turn to turn holds after all.  *)
LEMMA Induction ==
  ASSUME NEW n \in Nat, NEW T, 0 \in T, \A i \in 1..n : i - 1 \in T => i \in T
  PROVE  0..n \subseteq T
<1> DEFINE U == (0..n) \ T
<1> SUFFICES ASSUME U # {} PROVE FALSE
  OBVIOUS
<1>1. U \subseteq Nat
  OBVIOUS
<1> HIDE DEF U
<1>2. PICK i \in U : \A j \in U : i <= j
  BY <1>1, Least
<1>3. i \in 1..n /\ i \notin T
  BY <1>2 DEF U
<1>4. i - 1 \in T
  BY <1>2, <1>3 DEF U
<1> QED BY <1>3, <1>4

(* F[i][s] is what turn i makes of s, and S[i] what holds after turn i:    *)
(* the recursive function of a loop exists.                                *)
Follows(F, S, n) == \A i \in 1..n : \A s \in S[i - 1] : F[i][s] \in S[i]
Runs(f, F, a, n) == f = [i \in 0..n |-> IF i = 0 THEN a ELSE F[i][f[i - 1]]]
Stays(f, S, n) == \A i \in 0..n : f[i] \in S[i]

(* The recursive function of a loop whose turns stay in S exists.          *)
LEMMA Iteration ==
  ASSUME NEW n \in Nat, NEW S, NEW F, NEW a, a \in S[0], Follows(F, S, n)
  PROVE  \E f : Runs(f, F, a, n) /\ Stays(f, S, n)
<1> USE DEF Follows, Runs, Stays
<1> DEFINE Fits(f, j) == /\ f = [i \in 0..j |-> IF i = 0 THEN a ELSE F[i][f[i - 1]]]
                         /\ \A i \in 0..j : f[i] \in S[i]
           T == {j \in 0..n : \E f : Fits(f, j)}
<1>1. 0 \in T
  <2> DEFINE f == [i \in 0..0 |-> a]
  <2>1. Fits(f, 0)
    OBVIOUS
  <2> HIDE DEF f
  <2>2. \E g : Fits(g, 0)
    BY <2>1
  <2> QED BY <2>2
<1>2. ASSUME NEW j \in 1..n, j - 1 \in T PROVE j \in T
  <2>1. PICK f : Fits(f, j - 1)
    BY <1>2
  <2> DEFINE g == [i \in 0..j |-> IF i = j THEN F[j][f[j - 1]] ELSE f[i]]
  <2>2. \A i \in 0..(j - 1) : g[i] = f[i]
    OBVIOUS
  <2>3. g[j] = F[j][g[j - 1]] /\ g[j] \in S[j]
    <3>1. j - 1 \in 0..(j - 1) /\ j \in 0..j
      OBVIOUS
    <3>2. g[j] = F[j][f[j - 1]] /\ g[j - 1] = f[j - 1]
      BY <2>2, <3>1
    <3>3. f[j - 1] \in S[j - 1]
      BY <2>1, <3>1
    <3> HIDE DEF g, Fits
    <3> QED BY <3>2, <3>3
  <2>4. \A i \in 0..j : g[i] = (IF i = 0 THEN a ELSE F[i][g[i - 1]]) /\ g[i] \in S[i]
    <3> SUFFICES ASSUME NEW i \in 0..j
                 PROVE  g[i] = (IF i = 0 THEN a ELSE F[i][g[i - 1]]) /\ g[i] \in S[i]
      OBVIOUS
    <3>1. CASE i = j
      BY <3>1, <2>3
    <3>2. CASE i \in 0..(j - 1)
      <4>1. f[i] = (IF i = 0 THEN a ELSE F[i][f[i - 1]]) /\ f[i] \in S[i]
        BY <2>1, <3>2
      <4>2. i # 0 => i - 1 \in 0..(j - 1)
        BY <3>2
      <4> HIDE DEF g
      <4> QED BY <4>1, <4>2, <3>2, <2>2
    <3> QED BY <3>1, <3>2
  <2>5. g = [i \in 0..j |-> g[i]]
    OBVIOUS
  <2> HIDE DEF g
  <2>6. g = [i \in 0..j |-> IF i = 0 THEN a ELSE F[i][g[i - 1]]]
    BY <2>4, <2>5
  <2>7. Fits(g, j)
    BY <2>4, <2>6
  <2> QED BY <2>7
<1> HIDE DEF T
<1>3. 0..n \subseteq T
  BY <1>1, <1>2, Induction
<1>4. n \in T
  BY <1>3
<1> QED BY <1>4 DEF T

-----------------------------------------------------------------------------
(***************************************************************************)
(* The inductive invariant.                                                *)
(***************************************************************************)
Places == [Pids -> [Place -> 0..Frames]]
Tasks == [Pids -> {"unused", "live", "exited"}]
Flags == [Pids -> BOOLEAN]
Counts == [Pids -> 0..AnonMax]
Larges == [Pids -> 0..LargeMax]
Shown == [Pids -> [Windows -> Nat]]

State == [free : [Frame -> Nat], next : 1..(Frames + 1), task : Tasks, used : Flags,
          count : Counts, reserved : Counts, at : Places, lcount : Larges, ldir : Flags,
          spages : Shown]

(* Every frame below next is once on the list or in one place.             *)
Conserved(k) ==
  /\ \A f \in Frame : k.free[f] \in {0, 1} /\ (k.free[f] = 1 => f < k.next)
  /\ \A p \in Pids, x \in Place :
       k.at[p][x] # 0 => k.at[p][x] < k.next /\ k.free[k.at[p][x]] = 0
  /\ \A p, q \in Pids, x, y \in Place :
       k.at[p][x] = k.at[q][y] /\ k.at[p][x] # 0 => p = q /\ x = y
  /\ \A f \in Frame : f < k.next /\ k.free[f] = 0 =>
       \E p \in Pids, x \in Place : k.at[p][x] = f

(* A place has a frame exactly when the counters say so.                   *)
Anonymous(k, p) ==
  /\ \A t \in 0..LastTable : k.at[p][Dir(t)] # 0 <=> t * Entries < k.count[p]
  /\ \A i \in 0..(AnonMax - 1) : k.at[p][Pte(i)] # 0 <=> i < k.count[p]
  /\ k.reserved[p] # 0 => k.count[p] <= k.reserved[p]

Large(k, p) == \A i \in 1..LargeMax : k.at[p][Lpage(i)] # 0 <=> i <= k.lcount[p]

Linked(k, p) ==
  /\ k.at[p][Ltable] # 0 <=> k.ldir[p]
  /\ k.lcount[p] # 0 => k.ldir[p]
  /\ k.ldir[p] => k.used[p]

Shows(k, p) == \A w \in Windows : k.spages[p][w] # 0 => k.at[p][Window(w)] # 0

Laid(k, p) == Anonymous(k, p) /\ Large(k, p) /\ Linked(k, p) /\ Shows(k, p)

(* SlotTablesAgree of any state.                                           *)
Vacant(k, p) ==
  /\ k.count[p] = 0 /\ k.reserved[p] = 0 /\ k.lcount[p] = 0 /\ ~k.ldir[p]
  /\ \A x \in Place : k.at[p][x] = 0
  /\ \A w \in Windows : k.spages[p][w] = 0

Agreed(k, p) ==
  /\ k.used[p] <=> k.task[p] # "unused"
  /\ k.task[p] = "unused" => Vacant(k, p)
  /\ p \in Boot => k.task[p] # "unused"

Sound(k) == k \in State /\ Conserved(k)

Good(k) == Sound(k) /\ \A p \in Pids : Laid(k, p) /\ Agreed(k, p)

(***************************************************************************)
(* Places.                                                                 *)
(***************************************************************************)
LEMMA Placed ==
  /\ \A t \in 0..LastTable : Dir(t) \in Place
  /\ \A i \in 0..(AnonMax - 1) : Pte(i) \in Place
  /\ \A i \in 1..LargeMax : Lpage(i) \in Place
  /\ Ltable \in Place
  /\ \A w \in Windows : Window(w) \in Place
BY DEF Place

(* Different names are different places.                                   *)
LEMMA Apart ==
  /\ \A t, u : (Dir(t) = Dir(u) <=> t = u) /\ (Pte(t) = Pte(u) <=> t = u)
               /\ (Lpage(t) = Lpage(u) <=> t = u) /\ (Window(t) = Window(u) <=> t = u)
  /\ \A t, u : Dir(t) # Pte(u) /\ Dir(t) # Lpage(u) /\ Dir(t) # Ltable /\ Dir(t) # Window(u)
  /\ \A t, u : Pte(t) # Lpage(u) /\ Pte(t) # Ltable /\ Pte(t) # Window(u)
  /\ \A t, u : Lpage(t) # Ltable /\ Lpage(t) # Window(u) /\ Window(t) # Ltable
BY DEF Dir, Pte, Lpage, Ltable, Window

(* Every place has one of the names.                                       *)
LEMMA Kinds ==
  ASSUME NEW x \in Place
  PROVE  \/ \E t \in 0..LastTable : x = Dir(t)
         \/ \E i \in 0..(AnonMax - 1) : x = Pte(i)
         \/ \E i \in 1..LargeMax : x = Lpage(i)
         \/ x = Ltable
         \/ \E w \in Windows : x = Window(w)
BY DEF Place

(***************************************************************************)
(* Frames.                                                                 *)
(***************************************************************************)
(* What taking and releasing leave alone.                                  *)
Beside(k, d) ==
  /\ d.task = k.task /\ d.used = k.used /\ d.count = k.count /\ d.reserved = k.reserved
  /\ d.lcount = k.lcount /\ d.ldir = k.ldir /\ d.spages = k.spages

(* anonymous_frame_take never hands out a frame that is not there.         *)
LEMMA TakenIsAFrame ==
  ASSUME NEW k, Sound(k), Taken(k) # 0
  PROVE  /\ Taken(k) \in Frame
         /\ Listed(k) # {} => k.free[Taken(k)] = 1
         /\ Listed(k) = {} => Taken(k) = k.next
<1>1. Frames \in Nat /\ k.next \in 1..(Frames + 1)
  BY MemoryAssumption DEF Sound, State
<1>2. CASE Listed(k) # {}
  <2>1. Taken(k) \in Listed(k)
    BY <1>2 DEF Taken
  <2>2. Taken(k) \in Frame /\ k.free[Taken(k)] > 0
    BY <2>1 DEF Listed
  <2>3. k.free[Taken(k)] \in {0, 1}
    BY <2>2 DEF Sound, Conserved
  <2> QED BY <1>2, <2>2, <2>3
<1>3. CASE Listed(k) = {}
  BY <1>1, <1>3 DEF Taken, mako_frame_allocate, Frame
<1> QED BY <1>2, <1>3

(* Taking a frame into an empty place conserves the frames.                *)
LEMMA TakeKeeps ==
  ASSUME NEW k, Sound(k), NEW pid \in Pids, NEW x \in Place, k.at[pid][x] = 0,
         Taken(k) # 0, NEW d, d = anonymous_frame_take(k, pid, x)
  PROVE  /\ Sound(d) /\ Beside(k, d)
         /\ d.at = [k.at EXCEPT ![pid][x] = Taken(k)]
<1> DEFINE f == Taken(k)
<1>1. Frames \in Nat /\ k \in State
  BY MemoryAssumption DEF Sound
<1>2. f \in Frame /\ f \in 0..Frames /\ (Listed(k) # {} => k.free[f] = 1) /\ (Listed(k) = {} => f = k.next)
  BY <1>1, TakenIsAFrame DEF Frame
<1>3. d = IF Listed(k) # {} THEN [k EXCEPT !.free[f] = @ - 1, !.at[pid][x] = f]
          ELSE [k EXCEPT !.next = @ + 1, !.at[pid][x] = f]
  BY DEF anonymous_frame_take
<1>4. \A g \in Frame : k.free[g] > 0 => g \in Listed(k)
  BY DEF Listed
<1> HIDE DEF f
<1>5. k.at \in Places /\ k.free \in [Frame -> Nat] /\ k.next \in 1..(Frames + 1)
  BY <1>1 DEF State
<1>6. d.at = [k.at EXCEPT ![pid][x] = f] /\ Beside(k, d)
  BY <1>1, <1>3 DEF State, Beside
<1>7. d.at \in Places
  BY <1>2, <1>5, <1>6 DEF Places
<1>8. /\ d.free = IF Listed(k) # {} THEN [k.free EXCEPT ![f] = 0] ELSE k.free
      /\ d.next = IF Listed(k) # {} THEN k.next ELSE k.next + 1
  BY <1>1, <1>2, <1>3, <1>5 DEF State
<1>9. d.free \in [Frame -> Nat] /\ d.next \in 1..(Frames + 1)
  BY <1>1, <1>2, <1>5, <1>8 DEF Frame
<1>10. d \in State
  BY <1>1, <1>3, <1>6, <1>7, <1>8, <1>9 DEF State, Beside
<1>11. /\ \A p \in Pids, y \in Place : d.at[p][y] = IF p = pid /\ y = x THEN f ELSE k.at[p][y]
       /\ \A g \in Frame : d.free[g] = IF g = f THEN 0 ELSE k.free[g]
       /\ \A g \in Frame : g < d.next <=> g < k.next \/ g = f
  <2>1. \A p \in Pids, y \in Place : d.at[p][y] = IF p = pid /\ y = x THEN f ELSE k.at[p][y]
    BY <1>5, <1>6 DEF Places
  <2>2. CASE Listed(k) # {}
    <3>1. f < k.next
      BY <1>2, <2>2 DEF Sound, Conserved
    <3> QED BY <1>2, <1>5, <1>8, <2>1, <2>2, <3>1 DEF Frame
  <2>3. CASE Listed(k) = {}
    <3>1. k.free[f] = 0
      BY <1>2, <1>4, <1>5, <2>3
    <3> QED BY <1>2, <1>5, <1>8, <2>1, <2>3, <3>1 DEF Frame
  <2> QED BY <2>2, <2>3
<1>12. \A p \in Pids, y \in Place : k.at[p][y] # f /\ k.at[p][y] \in 0..Frames
  <2>1. \A p \in Pids, y \in Place : k.at[p][y] \in 0..Frames
    BY <1>5 DEF Places
  <2> SUFFICES ASSUME NEW p \in Pids, NEW y \in Place, k.at[p][y] = f PROVE FALSE
    BY <2>1
  <2>2. f # 0
    BY <1>1, <1>2 DEF Frame
  <2>3. f < k.next /\ k.free[f] = 0
    BY <2>2 DEF Sound, Conserved
  <2> QED BY <1>1, <1>2, <1>5, <2>3 DEF Frame
<1>13. Conserved(d)
  <2>1. \A g \in Frame : d.free[g] \in {0, 1} /\ (d.free[g] = 1 => g < d.next)
    BY <1>11 DEF Sound, Conserved
  <2>2. \A p \in Pids, y \in Place :
          d.at[p][y] # 0 => d.at[p][y] < d.next /\ d.free[d.at[p][y]] = 0
    <3> SUFFICES ASSUME NEW p \in Pids, NEW y \in Place, d.at[p][y] # 0
                 PROVE  d.at[p][y] < d.next /\ d.free[d.at[p][y]] = 0
      OBVIOUS
    <3>1. CASE p = pid /\ y = x
      BY <1>2, <1>11, <3>1
    <3>2. CASE ~(p = pid /\ y = x)
      <4>1. d.at[p][y] = k.at[p][y] /\ k.at[p][y] \in Frame /\ k.at[p][y] # f
        BY <1>1, <1>11, <1>12, <3>2 DEF Frame
      <4>2. k.at[p][y] < k.next /\ k.free[k.at[p][y]] = 0
        BY <4>1 DEF Sound, Conserved
      <4> QED BY <1>11, <4>1, <4>2
    <3> QED BY <3>1, <3>2
  <2>3. \A p, q \in Pids, y, z \in Place :
          d.at[p][y] = d.at[q][z] /\ d.at[p][y] # 0 => p = q /\ y = z
    BY <1>11, <1>12 DEF Sound, Conserved
  <2>4. \A g \in Frame : g < d.next /\ d.free[g] = 0 =>
          \E p \in Pids, y \in Place : d.at[p][y] = g
    <3> SUFFICES ASSUME NEW g \in Frame, g < d.next, d.free[g] = 0
                 PROVE  \E p \in Pids, y \in Place : d.at[p][y] = g
      OBVIOUS
    <3>1. CASE g = f
      BY <1>11, <3>1
    <3>2. CASE g # f
      <4>1. PICK p \in Pids, y \in Place : k.at[p][y] = g
        BY <1>11, <3>2 DEF Sound, Conserved
      <4>2. g # 0
        BY <1>1 DEF Frame
      <4> QED BY <1>11, <4>1, <4>2
    <3> QED BY <3>1, <3>2
  <2> QED BY <2>1, <2>2, <2>3, <2>4 DEF Conserved
<1> QED BY <1>6, <1>10, <1>13 DEF Sound, f

(* Releasing any places of a process conserves the frames.                 *)
LEMMA ReleaseKeeps ==
  ASSUME NEW k, Sound(k), NEW pid \in Pids, NEW X, X \subseteq Place,
         NEW d, d = anonymous_frame_release(k, pid, X)
  PROVE  /\ Sound(d) /\ Beside(k, d)
         /\ d.at = [k.at EXCEPT ![pid] = [x \in Place |-> IF x \in X THEN 0 ELSE k.at[pid][x]]]
<1> DEFINE Back(f) == {x \in X : k.at[pid][x] = f}
           g == [f \in Frame |-> k.free[f] + Cardinality(Back(f))]
           b == [k.at EXCEPT ![pid] = [x \in Place |-> IF x \in X THEN 0 ELSE k.at[pid][x]]]
<1>1. Frames \in Nat /\ k \in State
  BY MemoryAssumption DEF Sound
<1>2. k.at \in Places /\ k.free \in [Frame -> Nat] /\ k.next \in 1..(Frames + 1)
  BY <1>1 DEF State
<1>3. ASSUME NEW f \in Frame
      PROVE  /\ Back(f) = {} => g[f] = k.free[f]
             /\ Back(f) # {} => k.free[f] = 0 /\ g[f] = 1 /\ f < k.next
  <2>1. g[f] = k.free[f] + Cardinality(Back(f)) /\ k.free[f] \in Nat
    BY <1>2
  <2>2. CASE Back(f) = {}
    BY <2>1, <2>2, FS_EmptySet
  <2>3. CASE Back(f) # {}
    <3>1. PICK x \in X : k.at[pid][x] = f
      BY <2>3
    <3>2. f # 0 /\ x \in Place
      BY <1>1, <3>1 DEF Frame
    <3>3. k.free[f] = 0 /\ f < k.next
      BY <3>1, <3>2 DEF Sound, Conserved
    <3>4. Back(f) = {x}
      BY <3>1, <3>2 DEF Sound, Conserved
    <3>5. Cardinality(Back(f)) = 1
      BY <3>4, FS_Singleton
    <3> QED BY <2>1, <2>3, <3>3, <3>5
  <2> QED BY <2>2, <2>3
<1>4. g \in [Frame -> Nat]
  <2>1. \A f \in Frame : g[f] \in Nat
    <3> SUFFICES ASSUME NEW f \in Frame PROVE g[f] \in Nat
      OBVIOUS
    <3>1. k.free[f] \in Nat
      BY <1>2
    <3> HIDE DEF g
    <3> QED BY <1>3, <3>1
  <2> QED BY <2>1
<1>5. b \in Places
  BY <1>1, <1>2 DEF Places
<1>6. d = [k EXCEPT !.free = g, !.at = b]
  BY <1>1, <1>2 DEF anonymous_frame_release, State, Places
<1>7. /\ \A p \in Pids, x \in Place :
           b[p][x] = IF p = pid /\ x \in X THEN 0 ELSE k.at[p][x]
      /\ \A p \in Pids, x \in Place : k.at[p][x] \in 0..Frames
  BY <1>2 DEF Places
<1> HIDE DEF g, b
<1>8. d.free = g /\ d.at = b /\ d.next = k.next /\ Beside(k, d)
  BY <1>1, <1>6 DEF State, Beside
<1>9. d \in State
  BY <1>1, <1>4, <1>5, <1>6 DEF State
<1>10. Conserved(d)
  <2>1. \A f \in Frame : d.free[f] \in {0, 1} /\ (d.free[f] = 1 => f < d.next)
    <3> SUFFICES ASSUME NEW f \in Frame
                 PROVE  d.free[f] \in {0, 1} /\ (d.free[f] = 1 => f < d.next)
      OBVIOUS
    <3>1. k.free[f] \in {0, 1} /\ (k.free[f] = 1 => f < k.next)
      BY DEF Sound, Conserved
    <3> HIDE DEF Back
    <3> QED BY <1>3, <1>8, <3>1
  <2>2. \A p \in Pids, y \in Place :
          d.at[p][y] # 0 => d.at[p][y] < d.next /\ d.free[d.at[p][y]] = 0
    <3> SUFFICES ASSUME NEW p \in Pids, NEW y \in Place, d.at[p][y] # 0
                 PROVE  d.at[p][y] < d.next /\ d.free[d.at[p][y]] = 0
      OBVIOUS
    <3>1. ~(p = pid /\ y \in X) /\ d.at[p][y] = k.at[p][y] /\ k.at[p][y] # 0
      BY <1>7, <1>8
    <3>2. k.at[p][y] < k.next /\ k.free[k.at[p][y]] = 0 /\ k.at[p][y] \in Frame
      BY <1>1, <1>7, <3>1 DEF Sound, Conserved, Frame
    <3>3. Back(k.at[p][y]) = {}
      BY <3>1, <3>2 DEF Sound, Conserved
    <3> HIDE DEF Back
    <3> QED BY <1>3, <1>8, <3>1, <3>2, <3>3
  <2>3. \A p, q \in Pids, y, z \in Place :
          d.at[p][y] = d.at[q][z] /\ d.at[p][y] # 0 => p = q /\ y = z
    BY <1>7, <1>8 DEF Sound, Conserved
  <2>4. \A f \in Frame : f < d.next /\ d.free[f] = 0 =>
          \E p \in Pids, y \in Place : d.at[p][y] = f
    <3> SUFFICES ASSUME NEW f \in Frame, f < d.next, d.free[f] = 0
                 PROVE  \E p \in Pids, y \in Place : d.at[p][y] = f
      OBVIOUS
    <3>1. Back(f) = {} /\ k.free[f] = 0 /\ f # 0
      <4> HIDE DEF Back
      <4> QED BY <1>1, <1>3, <1>8 DEF Frame
    <3>2. PICK p \in Pids, y \in Place : k.at[p][y] = f
      BY <1>8, <3>1 DEF Sound, Conserved
    <3>3. ~(p = pid /\ y \in X)
      BY <3>1, <3>2
    <3> QED BY <1>7, <1>8, <3>2, <3>3
  <2> QED BY <2>1, <2>2, <2>3, <2>4 DEF Conserved
<1> QED BY <1>8, <1>9, <1>10 DEF Sound, b

(***************************************************************************)
(* Anonymous pages.                                                        *)
(***************************************************************************)
LEMMA Division ==
  ASSUME NEW e \in Nat \ {0}, NEW a \in Nat
  PROVE  /\ a \div e \in Nat /\ a % e \in 0..(e - 1)
         /\ a = (a \div e) * e + (a % e)
BY SMTT(20)

(* What the solver needs to know of multiplication.                        *)
LEMMA Multiples ==
  ASSUME NEW e \in Nat \ {0}, NEW s \in Nat, NEW t \in Nat
  PROVE  /\ s * e \in Nat
         /\ s < t => s * e + e <= t * e
         /\ s * e = t * e => s = t
BY SMTT(20)

(* Page i lies in table i \div Entries, and the tables that hold the first *)
(* i + 1 pages are the ones that hold the first i, and this one.           *)
LEMMA Tables ==
  ASSUME NEW i \in 0..(AnonMax - 1)
  PROVE  /\ i \div Entries \in 0..LastTable
         /\ (i \div Entries) * Entries <= i
         /\ i % Entries = 0 => (i \div Entries) * Entries = i
         /\ \A t \in 0..LastTable :
              t * Entries < i + 1 <=> t * Entries < i \/ (i % Entries = 0 /\ t = i \div Entries)
<1> DEFINE a == AnonMax - 1
           q == i \div Entries
           r == i % Entries
           l == a \div Entries
<1>1. Entries \in Nat \ {0} /\ AnonMax \in Nat \ {0} /\ a \in Nat /\ i \in Nat /\ i <= a
  BY MemoryAssumption
<1>2. q \in Nat /\ r \in 0..(Entries - 1) /\ i = q * Entries + r
  BY <1>1, Division
<1>3. l \in Nat /\ a % Entries \in 0..(Entries - 1) /\ a = l * Entries + (a % Entries)
  BY <1>1, Division
<1> HIDE DEF q, r, l, a
<1>4. q * Entries \in Nat /\ l * Entries \in Nat
  BY <1>1, <1>2, <1>3, Multiples
<1>5. q <= l
  <2> SUFFICES ASSUME l < q PROVE FALSE
    BY <1>2, <1>3
  <2>1. l * Entries + Entries <= q * Entries
    BY <1>1, <1>2, <1>3, Multiples
  <2> QED BY <1>1, <1>2, <1>3, <1>4, <2>1
<1>6. LastTable = l
  BY DEF LastTable, l, a
<1>7. q * Entries <= i /\ (r = 0 => q * Entries = i)
  BY <1>1, <1>2, <1>4
<1>8. ASSUME NEW t \in 0..LastTable
      PROVE  t * Entries < i + 1 <=> t * Entries < i \/ (r = 0 /\ t = q)
  <2>1. t \in Nat /\ t * Entries \in Nat
    BY <1>1, <1>3, <1>6, <1>8, Multiples
  <2>2. t * Entries = i => t = q /\ r = 0
    <3> SUFFICES ASSUME t * Entries = i PROVE t = q /\ r = 0
      OBVIOUS
    <3>1. t < q => t * Entries + Entries <= q * Entries
      BY <1>1, <1>2, <2>1, Multiples
    <3>2. q < t => q * Entries + Entries <= t * Entries
      BY <1>1, <1>2, <2>1, Multiples
    <3>3. t = q
      BY <1>1, <1>2, <1>4, <2>1, <3>1, <3>2
    <3> QED BY <1>1, <1>2, <1>4, <3>3
  <2> QED BY <1>1, <1>7, <2>1, <2>2
<1> QED BY <1>2, <1>3, <1>5, <1>6, <1>7, <1>8 DEF q, r

(* The types of the fields.                                                *)
LEMMA Typed ==
  ASSUME NEW k, Sound(k)
  PROVE  /\ k \in State /\ k.at \in Places /\ k.task \in Tasks /\ k.used \in Flags
         /\ k.count \in Counts /\ k.reserved \in Counts /\ k.lcount \in Larges
         /\ k.ldir \in Flags /\ k.spages \in Shown
BY DEF Sound, State

(* Only the free list and next changed.                                    *)
LEMMA SameGood ==
  ASSUME NEW k, Good(k), NEW d, Sound(d), Beside(k, d), d.at = k.at
  PROVE  Good(d)
BY DEF Good, Beside, Laid, Anonymous, Large, Linked, Shows, Agreed, Vacant

(* What a step on the memory of a live process keeps: the tables of the    *)
(* others.                                                                 *)
Elsewhere(k, d, pid) ==
  \A p \in Pids \ {pid} :
    /\ d.task[p] = k.task[p] /\ d.used[p] = k.used[p] /\ d.count[p] = k.count[p]
    /\ d.reserved[p] = k.reserved[p] /\ d.at[p] = k.at[p] /\ d.lcount[p] = k.lcount[p]
    /\ d.ldir[p] = k.ldir[p] /\ d.spages[p] = k.spages[p]

(* A step that changes one process needs to be checked for that one.       *)
LEMMA GoodElsewhere ==
  ASSUME NEW k, Good(k), NEW pid \in Pids, NEW d, Sound(d), Elsewhere(k, d, pid),
         Laid(d, pid), Agreed(d, pid)
  PROVE  Good(d)
<1>1. ASSUME NEW p \in Pids \ {pid} PROVE Laid(d, p) /\ Agreed(d, p)
  <2>1. Laid(k, p) /\ Agreed(k, p)
    BY DEF Good
  <2>2. Laid(d, p)
    BY <2>1 DEF Elsewhere, Laid, Anonymous, Large, Linked, Shows
  <2>3. Agreed(d, p)
    BY <2>1 DEF Elsewhere, Agreed, Vacant
  <2> QED BY <2>2, <2>3
<1> QED BY <1>1 DEF Good

(* A new value of a counter.                                               *)
Counting(k, pid, c) == [k EXCEPT !.count[pid] = c]

(* A new count keeps the frames.                                           *)
LEMMA CountKeeps ==
  ASSUME NEW k, Sound(k), NEW pid \in Pids, NEW c \in 0..AnonMax,
         NEW d, d = Counting(k, pid, c)
  PROVE  /\ Sound(d) /\ d.at = k.at /\ d.task = k.task /\ d.used = k.used
         /\ d.reserved = k.reserved /\ d.lcount = k.lcount /\ d.ldir = k.ldir
         /\ d.spages = k.spages /\ d.count = [k.count EXCEPT ![pid] = c]
<1>1. [k.count EXCEPT ![pid] = c] \in Counts
  BY Typed DEF Counts
<1>2. d = [k EXCEPT !.count = [k.count EXCEPT ![pid] = c]]
  BY Typed DEF State, Counting
<1>3. d \in State
  BY <1>1, <1>2, Typed DEF State
<1>4. d.free = k.free /\ d.next = k.next /\ d.at = k.at
  BY <1>2, Typed DEF State
<1>5. Conserved(d)
  BY <1>4 DEF Sound, Conserved
<1> QED BY <1>2, <1>3, <1>5, Typed DEF State, Sound

(* One page of anonymous_commit_pages, with every way it can fail.         *)
LEMMA CommitTurn ==
  ASSUME NEW k, Good(k), NEW pid \in Pids, k.task[pid] = "live",
         NEW page \in 0..(AnonMax - 1), page = k.count[pid],
         k.reserved[pid] # 0 => page < k.reserved[pid],
         NEW r, r = CommitPage([k |-> k, ok |-> TRUE], pid, page)
  PROVE  /\ Good(r.k) /\ r.ok \in BOOLEAN /\ r.k.task = k.task /\ r.k.reserved = k.reserved
         /\ r.ok => r.k.count[pid] = page + 1
<1> DEFINE t == page \div Entries
           opens == page % Entries = 0
           k1 == IF opens THEN anonymous_frame_take(k, pid, Dir(t)) ELSE k
           k2 == anonymous_frame_take(k1, pid, Pte(page))
           k3 == [k2 EXCEPT !.count[pid] = page + 1]
           k4 == IF opens THEN anonymous_frame_release(k1, pid, {Dir(t)}) ELSE k1
<1>1. r = IF opens /\ Taken(k) = 0 THEN [k |-> k, ok |-> FALSE]
          ELSE IF Taken(k1) = 0 THEN [ok |-> FALSE, k |-> k4]
          ELSE [ok |-> TRUE, k |-> k3]
  <2> DEFINE r0 == [k |-> k, ok |-> TRUE]
  <2>1. r0.k = k /\ r0.ok = TRUE
    OBVIOUS
  <2>2. r = CommitPage(r0, pid, page)
    OBVIOUS
  <2> HIDE DEF r0
  <2> QED BY <2>1, <2>2 DEF CommitPage
<1>2. /\ Sound(k) /\ Laid(k, pid) /\ Agreed(k, pid)
      /\ AnonMax \in Nat \ {0} /\ Entries \in Nat \ {0} /\ LastTable \in Int
      /\ k.at \in Places /\ k.count \in Counts /\ k.reserved \in Counts
  BY MemoryAssumption, Typed DEF Good, LastTable
<1>3. /\ t \in 0..LastTable /\ Dir(t) \in Place /\ Pte(page) \in Place /\ Pte(page) # Dir(t)
      /\ opens => t * Entries = page
      /\ \A u \in 0..LastTable : u * Entries < page + 1 <=> u * Entries < page \/ (opens /\ u = t)
  BY Tables, Placed, Apart
<1>4. /\ k.at[pid][Pte(page)] = 0
      /\ opens => k.at[pid][Dir(t)] = 0
  <2>1. \A x \in Place : k.at[pid][x] \in 0..Frames
    BY <1>2 DEF Places
  <2>2. ~(page < page) /\ (opens => ~(t * Entries < page))
    BY <1>3
  <2> QED BY <1>2, <1>3, <2>1, <2>2 DEF Laid, Anonymous
<1> HIDE DEF opens
<1>5. ASSUME ~(opens /\ Taken(k) = 0)
      PROVE  /\ Sound(k1) /\ Beside(k, k1)
             /\ k1.at = IF opens THEN [k.at EXCEPT ![pid][Dir(t)] = Taken(k)] ELSE k.at
             /\ opens => Taken(k) \in Frame
  <2>1. CASE opens
    <3>1. Taken(k) # 0
      BY <1>5, <2>1
    <3>2. k1 = anonymous_frame_take(k, pid, Dir(t))
      BY <2>1
    <3> HIDE DEF k1, t
    <3>3. Taken(k) \in Frame
      BY <1>2, <3>1, TakenIsAFrame
    <3>4. Dir(t) \in Place /\ k.at[pid][Dir(t)] = 0 /\ Sound(k)
      BY <1>2, <1>3, <1>4, <2>1
    <3>5. Sound(k1) /\ Beside(k, k1) /\ k1.at = [k.at EXCEPT ![pid][Dir(t)] = Taken(k)]
      BY <3>1, <3>2, <3>4, TakeKeeps
    <3> QED BY <2>1, <3>3, <3>5
  <2>2. CASE ~opens
    BY <1>2, <2>2 DEF Beside
  <2> QED BY <2>1, <2>2
<1> HIDE DEF t, k1, k3
<1>6. CASE opens /\ Taken(k) = 0
  <2>1. r = [k |-> k, ok |-> FALSE]
    BY <1>1, <1>6
  <2>2. r.k = k /\ r.ok = FALSE
    BY <2>1
  <2> QED BY <2>2
<1>7. CASE ~(opens /\ Taken(k) = 0) /\ Taken(k1) = 0
  <2>1. r.k = k4 /\ r.ok = FALSE
    BY <1>1, <1>7
  <2>2. Sound(k4) /\ Beside(k, k4) /\ k4.at = k.at
    <3>1. CASE opens
      <4>1. k4 = anonymous_frame_release(k1, pid, {Dir(t)}) /\ {Dir(t)} \subseteq Place
        BY <1>3, <3>1
      <4> HIDE DEF k4
      <4>2. /\ Sound(k4) /\ Beside(k1, k4)
            /\ k4.at = [k1.at EXCEPT ![pid] = [x \in Place |-> IF x \in {Dir(t)} THEN 0 ELSE k1.at[pid][x]]]
        BY <1>5, <1>7, <4>1, ReleaseKeeps
      <4>3. k1.at = [k.at EXCEPT ![pid][Dir(t)] = Taken(k)]
        BY <1>5, <1>7, <3>1
      <4>4. k4.at = k.at
        BY <1>2, <1>3, <1>4, <3>1, <4>2, <4>3 DEF Places
      <4> QED BY <1>5, <1>7, <4>2, <4>4 DEF Beside
    <3>2. CASE ~opens
      BY <1>5, <1>7, <3>2
    <3> QED BY <3>1, <3>2
  <2> HIDE DEF k4
  <2>3. Good(k4)
    BY <2>2, SameGood
  <2> QED BY <2>1, <2>2, <2>3 DEF Beside
<1>8. CASE ~(opens /\ Taken(k) = 0) /\ Taken(k1) # 0
  <2>1. r.k = k3 /\ r.ok = TRUE
    BY <1>1, <1>8
  <2>2. k1.at[pid][Pte(page)] = 0
    BY <1>2, <1>3, <1>4, <1>5, <1>8 DEF Places
  <2>3. /\ Sound(k2) /\ Beside(k1, k2) /\ k2.at = [k1.at EXCEPT ![pid][Pte(page)] = Taken(k1)]
        /\ Taken(k1) \in Frame
    BY <1>3, <1>5, <1>8, <2>2, TakeKeeps, TakenIsAFrame
  <2> HIDE DEF k2
  <2>4. /\ Sound(k3) /\ k3.at = k2.at /\ k3.task = k.task /\ k3.used = k.used
        /\ k3.reserved = k.reserved /\ k3.lcount = k.lcount /\ k3.ldir = k.ldir
        /\ k3.spages = k.spages /\ k3.count = [k.count EXCEPT ![pid] = page + 1]
    <3>1. page + 1 \in 0..AnonMax
      BY <1>2
    <3>2. k3 = Counting(k2, pid, page + 1)
      BY DEF k3, Counting
    <3>3. /\ Sound(k3) /\ k3.at = k2.at /\ k3.task = k2.task /\ k3.used = k2.used
          /\ k3.reserved = k2.reserved /\ k3.lcount = k2.lcount /\ k3.ldir = k2.ldir
          /\ k3.spages = k2.spages /\ k3.count = [k2.count EXCEPT ![pid] = page + 1]
      <4>1. Sound(k2)
        BY <2>3
      <4> QED BY <3>1, <3>2, <4>1, CountKeeps
    <3>4. Beside(k, k1)
      BY <1>5, <1>8
    <3> QED BY <2>3, <3>3, <3>4 DEF Beside
  <2>5. /\ \A x \in Place : k3.at[pid][x] = IF x = Pte(page) THEN Taken(k1)
                                            ELSE IF opens /\ x = Dir(t) THEN Taken(k) ELSE k.at[pid][x]
        /\ \A p \in Pids \ {pid} : k3.at[p] = k.at[p] /\ k3.count[p] = k.count[p]
        /\ k3.count[pid] = page + 1
    BY <1>2, <1>3, <1>5, <1>8, <2>3, <2>4 DEF Places, Counts
  <2>6. Frames \in Nat /\ 0 \notin Frame
    BY MemoryAssumption DEF Frame
  <2>7. Anonymous(k3, pid)
    <3>1. \A u \in 0..LastTable : k3.at[pid][Dir(u)] # 0 <=> u * Entries < page + 1
      <4> SUFFICES ASSUME NEW u \in 0..LastTable
                   PROVE  k3.at[pid][Dir(u)] # 0 <=> u * Entries < page + 1
        OBVIOUS
      <4>1. Dir(u) \in Place /\ Dir(u) # Pte(page) /\ (Dir(u) = Dir(t) <=> u = t)
        BY Placed, Apart
      <4>2. k.at[pid][Dir(u)] # 0 <=> u * Entries < page
        BY <1>2 DEF Laid, Anonymous
      <4>3. opens => Taken(k) # 0
        BY <1>5, <1>8, <2>6
      <4> QED BY <1>3, <2>5, <4>1, <4>2, <4>3
    <3>2. \A i \in 0..(AnonMax - 1) : k3.at[pid][Pte(i)] # 0 <=> i < page + 1
      <4> SUFFICES ASSUME NEW i \in 0..(AnonMax - 1)
                   PROVE  k3.at[pid][Pte(i)] # 0 <=> i < page + 1
        OBVIOUS
      <4>1. Pte(i) \in Place /\ Pte(i) # Dir(t) /\ (Pte(i) = Pte(page) <=> i = page)
        BY Placed, Apart
      <4>2. k.at[pid][Pte(i)] # 0 <=> i < page
        BY <1>2 DEF Laid, Anonymous
      <4>3. i < page + 1 <=> i < page \/ i = page
        BY <1>2
      <4> QED BY <1>8, <2>5, <4>1, <4>2, <4>3
    <3>3. k3.reserved[pid] # 0 => k3.count[pid] <= k3.reserved[pid]
      <4>1. k.reserved[pid] \in Nat
        BY <1>2 DEF Counts
      <4> QED BY <1>2, <2>4, <2>5, <4>1
    <3> QED BY <2>5, <3>1, <3>2, <3>3 DEF Anonymous
  <2>8. Laid(k3, pid)
    <3>1. \A i \in 1..LargeMax : k3.at[pid][Lpage(i)] = k.at[pid][Lpage(i)]
      <4>1. \A i \in 1..LargeMax : Lpage(i) \in Place /\ Lpage(i) # Pte(page) /\ Lpage(i) # Dir(t)
        BY Placed, Apart
      <4> QED BY <2>5, <4>1
    <3>2. k3.at[pid][Ltable] = k.at[pid][Ltable]
      BY <2>5, Placed, Apart
    <3>3. \A w \in Windows : k3.at[pid][Window(w)] = k.at[pid][Window(w)]
      <4>1. \A w \in Windows : Window(w) \in Place /\ Window(w) # Pte(page) /\ Window(w) # Dir(t)
        BY Placed, Apart
      <4> QED BY <2>5, <4>1
    <3> QED BY <1>2, <2>4, <2>7, <3>1, <3>2, <3>3 DEF Laid, Large, Linked, Shows
  <2>9. Agreed(k3, pid)
    BY <1>2, <2>4 DEF Agreed
  <2>10. Elsewhere(k, k3, pid)
    BY <2>4, <2>5 DEF Elsewhere
  <2>11. Good(k3)
    BY <2>4, <2>8, <2>9, <2>10, GoodElsewhere
  <2> QED BY <2>1, <2>4, <2>5, <2>11
<1> QED BY <1>6, <1>7, <1>8

(* anonymous_commit_pages keeps the invariant wherever it stops.           *)
LEMMA CommitLoop ==
  ASSUME NEW k, Good(k), NEW pid \in Pids, k.task[pid] = "live",
         NEW start, start = k.count[pid], NEW end \in Nat, start <= end, end <= AnonMax,
         k.reserved[pid] # 0 => end <= k.reserved[pid],
         NEW r, r = anonymous_commit_pages(k, pid, start, end)
  PROVE  Good(r.k) /\ r.ok \in BOOLEAN /\ r.k.task = k.task
<1> DEFINE n == end - start
           Result == [k : State, ok : BOOLEAN]
           Turn(a, i) == CommitPage(a, pid, start + i - 1)
           base == [k |-> k, ok |-> TRUE]
           S == [i \in 0..n |-> {a \in Result : /\ Good(a.k) /\ a.k.task = k.task
                                                /\ a.k.reserved = k.reserved
                                                /\ a.ok => a.k.count[pid] = start + i}]
           F == [i \in 1..n |-> [a \in S[i - 1] |-> Turn(a, i)]]
           after == CHOOSE g : g = [i \in 0..n |-> IF i = 0 THEN base ELSE Turn(g[i - 1], i)]
<1>0. r = after[n]
  BY DEF anonymous_commit_pages, Loop
<1>1. start \in 0..AnonMax /\ k \in State /\ AnonMax \in Nat /\ n \in Nat /\ end = start + n
  BY Typed, MemoryAssumption DEF Good, Counts
<1> HIDE DEF n
<1>2. base \in S[0]
  BY <1>1
<1>3. ASSUME NEW i \in 1..n, NEW a \in S[i - 1] PROVE Turn(a, i) \in S[i]
  <2>1. /\ a \in Result /\ Good(a.k) /\ a.k.task = k.task /\ a.k.reserved = k.reserved
        /\ a.ok => a.k.count[pid] = start + (i - 1)
    BY <1>1, <1>3
  <2> DEFINE page == start + i - 1
             d == Turn(a, i)
  <2>2. page \in 0..(AnonMax - 1) /\ page = start + (i - 1) /\ page + 1 = start + i
        /\ (k.reserved[pid] # 0 => page < k.reserved[pid])
    <3>1. k.reserved[pid] \in Nat
      BY Typed DEF Good, Counts
    <3> HIDE DEF S, Turn, base, d
    <3>2. page \in 0..(AnonMax - 1) /\ page = start + (i - 1) /\ page + 1 = start + i
      BY <1>1
    <3>3. page < end /\ page \in Int
      BY <1>1
    <3> HIDE DEF page
    <3>4. ASSUME k.reserved[pid] # 0 PROVE page < k.reserved[pid]
      <4>1. end <= k.reserved[pid]
        BY <3>4
      <4> QED BY <3>1, <3>3, <4>1
    <3> QED BY <3>2, <3>4
  <2>3. d = CommitPage(a, pid, page)
    OBVIOUS
  <2> HIDE DEF page, d
  <2>4. CASE ~a.ok
    <3>1. d = [ok |-> FALSE, k |-> a.k]
      BY <2>3, <2>4 DEF CommitPage
    <3>2. d \in Result /\ d.k = a.k /\ ~d.ok
      BY <2>1, <3>1
    <3> QED BY <2>1, <3>2 DEF d
  <2>5. CASE a.ok
    <3>1. a = [k |-> a.k, ok |-> TRUE]
      BY <2>1, <2>5
    <3>2. /\ Good(d.k) /\ d.ok \in BOOLEAN /\ d.k.task = a.k.task /\ d.k.reserved = a.k.reserved
          /\ d.ok => d.k.count[pid] = page + 1
      BY <2>1, <2>2, <2>3, <2>5, <3>1, CommitTurn
    <3>3. d.k \in State
      BY <3>2, Typed DEF Good
    <3>4. d \in Result
      BY <3>2, <3>3, <2>3 DEF CommitPage
    <3> QED BY <2>1, <2>2, <3>2, <3>4 DEF d
  <2> QED BY <2>4, <2>5
<1>5. \A i \in 1..n : \A a \in S[i - 1] : F[i][a] = Turn(a, i)
  BY Zenon
<1> HIDE DEF F, S, Turn, base
<1>6. Follows(F, S, n)
  BY <1>3, <1>5 DEF Follows
<1>7. PICK f : Runs(f, F, base, n) /\ Stays(f, S, n)
  BY <1>1, <1>2, <1>6, Iteration
<1>8. f = [i \in 0..n |-> IF i = 0 THEN base ELSE Turn(f[i - 1], i)]
  BY <1>1, <1>5, <1>7 DEF Runs, Stays
<1>9. after = [i \in 0..n |-> IF i = 0 THEN base ELSE Turn(after[i - 1], i)]
  BY <1>8
<1> HIDE DEF after
<1> DEFINE T == {i \in 0..n : after[i] \in S[i]}
<1>10. 0 \in T
  BY <1>1, <1>2, <1>9
<1>11. \A i \in 1..n : i - 1 \in T => i \in T
  BY <1>3, <1>9
<1> HIDE DEF T
<1>12. 0..n \subseteq T
  BY <1>1, <1>10, <1>11, Induction
<1>13. r \in S[n]
  BY <1>0, <1>1, <1>12 DEF T
<1> QED BY <1>1, <1>13 DEF S

(* The counters of a released region.                                      *)
Emptied(k, pid) == [k EXCEPT !.count[pid] = 0, !.reserved[pid] = 0]

(* Emptied counters keep the frames.                                       *)
LEMMA EmptiedKeeps ==
  ASSUME NEW k, Sound(k), NEW pid \in Pids, NEW d, d = Emptied(k, pid)
  PROVE  /\ Sound(d) /\ d.at = k.at /\ d.task = k.task /\ d.used = k.used
         /\ d.lcount = k.lcount /\ d.ldir = k.ldir /\ d.spages = k.spages
         /\ d.count = [k.count EXCEPT ![pid] = 0] /\ d.reserved = [k.reserved EXCEPT ![pid] = 0]
<1>1. [k.count EXCEPT ![pid] = 0] \in Counts /\ [k.reserved EXCEPT ![pid] = 0] \in Counts
  BY Typed, MemoryAssumption DEF Counts
<1>2. d = [k EXCEPT !.count = [k.count EXCEPT ![pid] = 0],
                    !.reserved = [k.reserved EXCEPT ![pid] = 0]]
  BY Typed DEF State, Emptied
<1>3. d \in State
  BY <1>1, <1>2, Typed DEF State
<1>4. d.free = k.free /\ d.next = k.next /\ d.at = k.at
  BY <1>2, Typed DEF State
<1>5. Conserved(d)
  BY <1>4 DEF Sound, Conserved
<1> QED BY <1>2, <1>3, <1>5, Typed DEF State, Sound

(* anonymous_release empties the region and leaves the rest alone.         *)
LEMMA AnonymousReleased ==
  ASSUME NEW k, Good(k), NEW pid \in Pids, NEW d, d = anonymous_release(k, pid)
  PROVE  /\ Good(d) /\ d.task = k.task /\ d.used = k.used /\ d.lcount = k.lcount
         /\ d.ldir = k.ldir /\ d.spages = k.spages
         /\ d.count[pid] = 0 /\ d.reserved[pid] = 0
         /\ \A t \in 0..LastTable : d.at[pid][Dir(t)] = 0
         /\ \A i \in 0..(AnonMax - 1) : d.at[pid][Pte(i)] = 0
         /\ \A i \in 1..LargeMax : d.at[pid][Lpage(i)] = k.at[pid][Lpage(i)]
         /\ d.at[pid][Ltable] = k.at[pid][Ltable]
         /\ \A w \in Windows : d.at[pid][Window(w)] = k.at[pid][Window(w)]
<1> DEFINE tables == {t \in 0..LastTable : t * Entries < k.count[pid] /\ k.at[pid][Dir(t)] # 0}
           pages == {i \in 0..(AnonMax - 1) : i < k.count[pid] /\ i \div Entries \in tables}
           X == {Dir(t) : t \in tables} \cup {Pte(i) : i \in pages}
           e == anonymous_frame_release(k, pid, X)
<1>1. d = Emptied(e, pid)
  BY DEF anonymous_release, Emptied
<1>2. /\ Sound(k) /\ Laid(k, pid) /\ Agreed(k, pid)
      /\ AnonMax \in Nat \ {0} /\ Entries \in Nat \ {0} /\ LastTable \in Int
      /\ k.at \in Places /\ k.count \in Counts /\ k.reserved \in Counts
  BY MemoryAssumption, Typed DEF Good, LastTable
<1>3. X \subseteq Place
  BY Placed
<1>4. \A t \in 0..LastTable : t \notin tables => k.at[pid][Dir(t)] = 0
  BY <1>2 DEF Laid, Anonymous
<1>5. \A i \in 0..(AnonMax - 1) : i \notin pages => k.at[pid][Pte(i)] = 0
  <2> SUFFICES ASSUME NEW i \in 0..(AnonMax - 1), k.at[pid][Pte(i)] # 0 PROVE i \in pages
    OBVIOUS
  <2> DEFINE t == i \div Entries
  <2>1. i < k.count[pid]
    BY <1>2 DEF Laid, Anonymous
  <2>2. t \in 0..LastTable /\ t * Entries <= i
    BY Tables
  <2> HIDE DEF t
  <2>3. t * Entries \in Int /\ k.count[pid] \in Int
    BY <1>2, <2>2 DEF Counts
  <2>4. t * Entries < k.count[pid]
    BY <1>2, <2>1, <2>2, <2>3
  <2>5. t \in tables
    BY <1>2, <2>2, <2>4 DEF Laid, Anonymous
  <2> QED BY <2>1, <2>5 DEF t
<1>6. /\ \A t \in 0..LastTable : Dir(t) \in Place /\ (Dir(t) \in X <=> t \in tables)
      /\ \A i \in 0..(AnonMax - 1) : Pte(i) \in Place /\ (Pte(i) \in X <=> i \in pages)
      /\ \A i \in 1..LargeMax : Lpage(i) \in Place /\ Lpage(i) \notin X
      /\ Ltable \in Place /\ Ltable \notin X
      /\ \A w \in Windows : Window(w) \in Place /\ Window(w) \notin X
  <2> HIDE DEF tables, pages
  <2>1. \A t \in 0..LastTable : Dir(t) \in X <=> t \in tables
    BY Apart
  <2>2. \A i \in 0..(AnonMax - 1) : Pte(i) \in X <=> i \in pages
    BY Apart
  <2>3. \A i \in 1..LargeMax : Lpage(i) \notin X
    BY Apart
  <2>4. Ltable \notin X
    BY Apart
  <2>5. \A w \in Windows : Window(w) \notin X
    BY Apart
  <2> HIDE DEF X
  <2> QED BY <2>1, <2>2, <2>3, <2>4, <2>5, Placed
<1> HIDE DEF tables, pages, X
<1>7. /\ Sound(e) /\ Beside(k, e)
      /\ e.at = [k.at EXCEPT ![pid] = [x \in Place |-> IF x \in X THEN 0 ELSE k.at[pid][x]]]
  BY <1>2, <1>3, ReleaseKeeps
<1> HIDE DEF e
<1>8. /\ Sound(d) /\ d.at = e.at /\ d.task = k.task /\ d.used = k.used
      /\ d.lcount = k.lcount /\ d.ldir = k.ldir /\ d.spages = k.spages
      /\ d.count = [k.count EXCEPT ![pid] = 0] /\ d.reserved = [k.reserved EXCEPT ![pid] = 0]
  BY <1>1, <1>7, EmptiedKeeps DEF Beside
<1>9. /\ \A x \in Place : d.at[pid][x] = IF x \in X THEN 0 ELSE k.at[pid][x]
      /\ \A p \in Pids \ {pid} : d.at[p] = k.at[p]
  BY <1>2, <1>7, <1>8 DEF Places
<1>10. /\ d.count[pid] = 0 /\ d.reserved[pid] = 0
       /\ \A p \in Pids \ {pid} : d.count[p] = k.count[p] /\ d.reserved[p] = k.reserved[p]
  BY <1>2, <1>8 DEF Counts
<1>11. /\ \A t \in 0..LastTable : d.at[pid][Dir(t)] = 0
       /\ \A i \in 0..(AnonMax - 1) : d.at[pid][Pte(i)] = 0
  BY <1>4, <1>5, <1>6, <1>9
<1>12. /\ \A i \in 1..LargeMax : d.at[pid][Lpage(i)] = k.at[pid][Lpage(i)]
       /\ d.at[pid][Ltable] = k.at[pid][Ltable]
       /\ \A w \in Windows : d.at[pid][Window(w)] = k.at[pid][Window(w)]
  BY <1>6, <1>9
<1>13. Anonymous(d, pid)
  <2>1. \A t \in 0..LastTable : ~(t * Entries < 0)
    BY <1>2, Multiples
  <2> QED BY <1>10, <1>11, <2>1 DEF Anonymous
<1>14. Laid(d, pid)
  BY <1>2, <1>8, <1>12, <1>13 DEF Laid, Large, Linked, Shows
<1>15. Agreed(d, pid)
  BY <1>2, <1>8, <1>9, <1>10 DEF Agreed, Vacant
<1>16. Elsewhere(k, d, pid)
  BY <1>8, <1>9, <1>10 DEF Elsewhere
<1>17. Good(d)
  BY <1>8, <1>14, <1>15, <1>16, GoodElsewhere
<1> QED BY <1>8, <1>10, <1>11, <1>12, <1>17

(***************************************************************************)
(* Large code.  Room is how many frames are left, on the list or not yet   *)
(* handed out: a load that fails gives back what it took, so the next slot *)
(* finds the same room.                                                    *)
(***************************************************************************)
Loose(k) == {f \in Frame : \A p \in Pids, x \in Place : k.at[p][x] # f}
Room(k) == Cardinality(Loose(k))

(* There is a frame to take exactly when there is room.                    *)
LEMMA RoomToTake ==
  ASSUME NEW k, Sound(k)
  PROVE  /\ IsFiniteSet(Loose(k)) /\ Room(k) \in Nat
         /\ Taken(k) = 0 <=> Room(k) = 0
         /\ Taken(k) # 0 => Taken(k) \in Loose(k)
<1>1. Frames \in Nat /\ k.next \in 1..(Frames + 1) /\ k.free \in [Frame -> Nat]
  BY MemoryAssumption DEF Sound, State
<1>2. IsFiniteSet(Frame)
  <2>1. 1 \in Int /\ Frames \in Int
    BY <1>1
  <2>2. IsFiniteSet(1..Frames)
    BY <2>1, FS_Interval
  <2> QED BY <2>2 DEF Frame
<1>3. IsFiniteSet(Loose(k))
  <2>1. Loose(k) \subseteq Frame
    BY DEF Loose
  <2> QED BY <1>2, <2>1, FS_Subset
<1>4. Room(k) \in Nat /\ (Room(k) = 0 <=> Loose(k) = {})
  BY <1>3, FS_CardinalityType, FS_EmptySet DEF Room
<1>5. ASSUME Taken(k) = 0 PROVE Loose(k) = {}
  <2>1. Listed(k) = {}
    <3> SUFFICES ASSUME Listed(k) # {} PROVE FALSE
      OBVIOUS
    <3>1. Taken(k) \in Listed(k)
      BY DEF Taken
    <3> QED BY <1>1, <1>5, <3>1 DEF Listed, Frame
  <2>2. k.next > Frames
    BY <1>1, <1>5, <2>1 DEF Taken, mako_frame_allocate
  <2>3. \A f \in Frame : f < k.next /\ k.free[f] = 0
    <3>1. \A f \in Frame : ~(k.free[f] > 0)
      BY <2>1 DEF Listed
    <3> QED BY <1>1, <2>2, <3>1 DEF Frame
  <2> QED BY <2>3 DEF Loose, Sound, Conserved
<1>6. ASSUME Taken(k) # 0 PROVE Taken(k) \in Loose(k)
  <2>1. /\ Taken(k) \in Frame
        /\ Listed(k) # {} => k.free[Taken(k)] = 1
        /\ Listed(k) = {} => Taken(k) = k.next
    BY <1>6, TakenIsAFrame
  <2> SUFFICES ASSUME NEW p \in Pids, NEW x \in Place, k.at[p][x] = Taken(k) PROVE FALSE
    BY <2>1 DEF Loose
  <2>2. Taken(k) < k.next /\ k.free[Taken(k)] = 0
    BY <1>6 DEF Sound, Conserved
  <2> QED BY <1>1, <2>1, <2>2
<1> QED BY <1>3, <1>4, <1>5, <1>6

(* A frame taken is room lost.                                             *)
LEMMA TakeUsesRoom ==
  ASSUME NEW k, Sound(k), NEW pid \in Pids, NEW x \in Place, k.at[pid][x] = 0,
         Taken(k) # 0, NEW d, d = anonymous_frame_take(k, pid, x)
  PROVE  Room(d) = Room(k) - 1
<1> DEFINE f == Taken(k)
<1>1. d.at = [k.at EXCEPT ![pid][x] = f]
  BY TakeKeeps
<1>2. k.at \in Places /\ Frames \in Nat
  BY Typed, MemoryAssumption
<1>3. f \in Loose(k) /\ IsFiniteSet(Loose(k))
  BY RoomToTake
<1> HIDE DEF f
<1>4. \A p \in Pids, y \in Place : d.at[p][y] = IF p = pid /\ y = x THEN f ELSE k.at[p][y]
  BY <1>1, <1>2 DEF Places
<1>5. Loose(d) = Loose(k) \ {f}
  <2>1. 0 \notin Frame
    BY <1>2 DEF Frame
  <2> QED BY <1>3, <1>4, <2>1 DEF Loose
<1>6. Cardinality(Loose(k) \ {f}) = Cardinality(Loose(k)) - 1
  BY <1>3, FS_RemoveElement
<1> QED BY <1>5, <1>6 DEF Room

(* What a change of the large code of a process leaves alone.              *)
Around(k, d, pid) ==
  /\ d.task = k.task /\ d.used = k.used /\ d.count = k.count /\ d.reserved = k.reserved
  /\ d.spages = k.spages
  /\ \A p \in Pids \ {pid} : d.at[p] = k.at[p] /\ d.lcount[p] = k.lcount[p] /\ d.ldir[p] = k.ldir[p]
  /\ \A t \in 0..LastTable : d.at[pid][Dir(t)] = k.at[pid][Dir(t)]
  /\ \A i \in 0..(AnonMax - 1) : d.at[pid][Pte(i)] = k.at[pid][Pte(i)]
  /\ \A w \in Windows : d.at[pid][Window(w)] = k.at[pid][Window(w)]

(* A process without large code.                                           *)
Small(k, pid) ==
  /\ k.lcount[pid] = 0 /\ ~k.ldir[pid] /\ k.at[pid][Ltable] = 0
  /\ \A i \in 1..LargeMax : k.at[pid][Lpage(i)] = 0

Setting(k, pid, c, b) == [k EXCEPT !.lcount[pid] = c, !.ldir[pid] = b]

Changed(k, d, pid, c, b) ==
  /\ Sound(d) /\ d.at = k.at /\ d.task = k.task /\ d.used = k.used
  /\ d.count = k.count /\ d.reserved = k.reserved /\ d.spages = k.spages
  /\ \A p \in Pids \ {pid} : d.lcount[p] = k.lcount[p] /\ d.ldir[p] = k.ldir[p]
  /\ d.lcount[pid] = c /\ d.ldir[pid] = b

(* New large-code counters keep the frames.                                *)
LEMMA SettingKeeps ==
  ASSUME NEW k, Sound(k), NEW pid \in Pids, NEW c \in 0..LargeMax, NEW b \in BOOLEAN,
         NEW d, d = Setting(k, pid, c, b)
  PROVE  Changed(k, d, pid, c, b)
<1>1. /\ [k.lcount EXCEPT ![pid] = c] \in Larges /\ [k.ldir EXCEPT ![pid] = b] \in Flags
      /\ k \in State /\ k.lcount \in Larges /\ k.ldir \in Flags
  BY Typed DEF Larges, Flags
<1>2. d = [k EXCEPT !.lcount = [k.lcount EXCEPT ![pid] = c], !.ldir = [k.ldir EXCEPT ![pid] = b]]
  BY <1>1 DEF State, Setting
<1>3. d \in State
  BY <1>1, <1>2 DEF State
<1>4. /\ d.free = k.free /\ d.next = k.next /\ d.at = k.at /\ d.task = k.task
      /\ d.used = k.used /\ d.count = k.count /\ d.reserved = k.reserved /\ d.spages = k.spages
      /\ d.lcount = [k.lcount EXCEPT ![pid] = c] /\ d.ldir = [k.ldir EXCEPT ![pid] = b]
  BY <1>1, <1>2 DEF State
<1>5. Conserved(d)
  BY <1>4 DEF Sound, Conserved
<1>6. /\ \A p \in Pids \ {pid} : d.lcount[p] = k.lcount[p] /\ d.ldir[p] = k.ldir[p]
      /\ d.lcount[pid] = c /\ d.ldir[pid] = b
  BY <1>1, <1>4 DEF Larges, Flags
<1> QED BY <1>3, <1>4, <1>5, <1>6 DEF Sound, Changed

(* The updates of the model as Setting.                                    *)
LEMMA Settings ==
  ASSUME NEW k, Sound(k), NEW pid \in Pids
  PROVE  /\ [k EXCEPT !.ldir[pid] = FALSE, !.lcount[pid] = 0] = Setting(k, pid, 0, FALSE)
         /\ \A c : [k EXCEPT !.lcount[pid] = c] = Setting(k, pid, c, k.ldir[pid])
         /\ [k EXCEPT !.ldir[pid] = TRUE] = Setting(k, pid, k.lcount[pid], TRUE)
         /\ k.lcount[pid] \in 0..LargeMax /\ k.ldir[pid] \in BOOLEAN
<1>1. k \in State /\ k.lcount \in Larges /\ k.ldir \in Flags
  BY Typed
<1>2. k.lcount[pid] \in 0..LargeMax /\ k.ldir[pid] \in BOOLEAN
  BY <1>1 DEF Larges, Flags
<1>3. [k EXCEPT !.ldir[pid] = FALSE, !.lcount[pid] = 0] = Setting(k, pid, 0, FALSE)
  BY <1>1 DEF State, Setting
<1>4. [k.ldir EXCEPT ![pid] = k.ldir[pid]] = k.ldir /\ [k.lcount EXCEPT ![pid] = k.lcount[pid]] = k.lcount
  BY <1>1 DEF Larges, Flags
<1>5. ASSUME NEW c PROVE [k EXCEPT !.lcount[pid] = c] = Setting(k, pid, c, k.ldir[pid])
  BY <1>1, <1>4 DEF State, Setting
<1>6. [k EXCEPT !.ldir[pid] = TRUE] = Setting(k, pid, k.lcount[pid], TRUE)
  BY <1>1, <1>4 DEF State, Setting
<1> QED BY <1>2, <1>3, <1>5, <1>6

(* large_code_release leaves a process without large code.                 *)
LEMMA LargeReleased ==
  ASSUME NEW k, Sound(k), NEW pid \in Pids,
         \A i \in 1..LargeMax : k.at[pid][Lpage(i)] # 0 => i <= k.lcount[pid],
         NEW d, d = large_code_release(k, pid)
  PROVE  Sound(d) /\ Around(k, d, pid) /\ Small(d, pid)
<1> DEFINE X == {Lpage(i) : i \in 1..k.lcount[pid]} \cup {Ltable}
           e == anonymous_frame_release(k, pid, X)
<1>1. d = [e EXCEPT !.ldir[pid] = FALSE, !.lcount[pid] = 0]
  BY DEF large_code_release
<1>2. k.at \in Places /\ k.lcount[pid] \in 0..LargeMax /\ LargeMax \in Nat
  BY Typed, MemoryAssumption DEF Larges
<1>3. X \subseteq Place
  <2>1. \A i \in 1..k.lcount[pid] : i \in 1..LargeMax
    BY <1>2
  <2> QED BY <2>1, Placed
<1>4. /\ Ltable \in X /\ Ltable \in Place
      /\ \A i \in 1..LargeMax : Lpage(i) \in Place /\ (Lpage(i) \in X <=> i <= k.lcount[pid])
      /\ \A t \in 0..LastTable : Dir(t) \in Place /\ Dir(t) \notin X
      /\ \A i \in 0..(AnonMax - 1) : Pte(i) \in Place /\ Pte(i) \notin X
      /\ \A w \in Windows : Window(w) \in Place /\ Window(w) \notin X
  <2>1. \A i \in 1..LargeMax : Lpage(i) \in X <=> i <= k.lcount[pid]
    BY <1>2, Apart
  <2>2. \A t \in 0..LastTable : Dir(t) \notin X
    BY Apart
  <2>3. \A i \in 0..(AnonMax - 1) : Pte(i) \notin X
    BY Apart
  <2>4. \A w \in Windows : Window(w) \notin X
    BY Apart
  <2>5. Ltable \in X
    OBVIOUS
  <2> HIDE DEF X
  <2> QED BY <2>1, <2>2, <2>3, <2>4, <2>5, Placed
<1> HIDE DEF X
<1>5. /\ Sound(e) /\ Beside(k, e)
      /\ e.at = [k.at EXCEPT ![pid] = [x \in Place |-> IF x \in X THEN 0 ELSE k.at[pid][x]]]
  BY <1>3, ReleaseKeeps
<1> HIDE DEF e
<1>6. /\ \A x \in Place : e.at[pid][x] = IF x \in X THEN 0 ELSE k.at[pid][x]
      /\ \A p \in Pids \ {pid} : e.at[p] = k.at[p]
  BY <1>2, <1>5 DEF Places
<1>7. /\ Sound(d) /\ d.at = e.at /\ d.task = e.task /\ d.used = e.used
      /\ d.count = e.count /\ d.reserved = e.reserved /\ d.spages = e.spages
      /\ \A p \in Pids \ {pid} : d.lcount[p] = e.lcount[p] /\ d.ldir[p] = e.ldir[p]
      /\ d.lcount[pid] = 0 /\ d.ldir[pid] = FALSE
  <2>1. Sound(e) /\ 0 \in 0..LargeMax
    BY <1>2, <1>5
  <2>2. PICK b \in BOOLEAN : b = FALSE
    OBVIOUS
  <2>3. d = Setting(e, pid, 0, b)
    BY <1>1, <2>1, <2>2, Settings, Zenon
  <2>4. Changed(e, d, pid, 0, b)
    BY <2>1, <2>3, SettingKeeps
  <2> QED BY <2>2, <2>4, Zenon DEF Changed
<1>8. Around(k, d, pid)
  BY <1>4, <1>5, <1>6, <1>7 DEF Around, Beside
<1>9. Small(d, pid)
  <2>1. \A i \in 1..LargeMax : d.at[pid][Lpage(i)] = 0
    BY <1>4, <1>6, <1>7
  <2> QED BY <1>4, <1>6, <1>7, <2>1 DEF Small
<1> QED BY <1>7, <1>8, <1>9

(* The large code of a process in the middle of a load: c pages are there. *)
Loading(k, d, pid, c) ==
  /\ Sound(d) /\ Around(k, d, pid) /\ d.lcount[pid] = c /\ d.ldir[pid] = FALSE
  /\ d.at[pid][Ltable] # 0
  /\ \A i \in 1..LargeMax : d.at[pid][Lpage(i)] # 0 <=> i <= c

(* A load that failed.                                                     *)
Unloaded(k, d) == Sound(d) /\ Beside(k, d) /\ d.at = k.at

(* Large code that came and went left nothing behind.                      *)
LEMMA ReleasedIsUnloaded ==
  ASSUME NEW k, Sound(k), NEW pid \in Pids, Small(k, pid), NEW d, Sound(d),
         Around(k, d, pid), Small(d, pid)
  PROVE  Unloaded(k, d)
<1>1. k.at \in Places /\ d.at \in Places /\ k.lcount \in Larges /\ d.lcount \in Larges
      /\ k.ldir \in Flags /\ d.ldir \in Flags
  BY Typed
<1>2. \A x \in Place : d.at[pid][x] = k.at[pid][x]
  <2> SUFFICES ASSUME NEW x \in Place PROVE d.at[pid][x] = k.at[pid][x]
    OBVIOUS
  <2> QED BY Kinds DEF Around, Small
<1>3. d.at = k.at
  <2>1. d.at[pid] = k.at[pid]
    BY <1>1, <1>2 DEF Places
  <2>2. \A p \in Pids : d.at[p] = k.at[p]
    BY <2>1 DEF Around
  <2> QED BY <1>1, <2>2 DEF Places
<1>4. \A p \in Pids : d.lcount[p] = k.lcount[p] /\ d.ldir[p] = k.ldir[p]
  <2>1. \A p \in Pids \ {pid} : d.lcount[p] = k.lcount[p] /\ d.ldir[p] = k.ldir[p]
    BY DEF Around
  <2>2. d.lcount[pid] = k.lcount[pid]
    BY DEF Small
  <2>3. k.ldir[pid] = FALSE /\ d.ldir[pid] = FALSE
    BY <1>1, Zenon DEF Small, Flags
  <2> QED BY <2>1, <2>2, <2>3
<1>5. d.lcount = k.lcount
  BY <1>1, <1>4 DEF Larges
<1>6. d.ldir = k.ldir
  BY <1>1, <1>4 DEF Flags
<1> QED BY <1>3, <1>5, <1>6 DEF Unloaded, Around, Beside

(* Around is transitive.                                                   *)
LEMMA AroundTwice ==
  ASSUME NEW k, NEW d, NEW e, NEW pid, Around(k, d, pid), Around(d, e, pid)
  PROVE  Around(k, e, pid)
BY DEF Around

(* A page of large_code_load that finds a frame.                           *)
LEMMA LargeTaken ==
  ASSUME NEW k, NEW d, NEW pid \in Pids, NEW i \in 1..LargeMax, Loading(k, d, pid, i - 1),
         Taken(d) # 0, NEW e, e = [anonymous_frame_take(d, pid, Lpage(i)) EXCEPT !.lcount[pid] = i]
  PROVE  Loading(k, e, pid, i) /\ Room(e) = Room(d) - 1
<1> DEFINE x == Lpage(i)
           g == anonymous_frame_take(d, pid, x)
<1>1. /\ Sound(d) /\ Around(k, d, pid) /\ d.lcount[pid] = i - 1 /\ d.ldir[pid] = FALSE
      /\ d.at[pid][Ltable] # 0 /\ LargeMax \in Nat
      /\ \A j \in 1..LargeMax : d.at[pid][Lpage(j)] # 0 <=> j <= i - 1
  BY MemoryAssumption DEF Loading
<1>2. x \in Place /\ d.at \in Places
  BY <1>1, Placed, Typed
<1>3. d.at[pid][x] = 0
  <2>1. ~(i <= i - 1)
    BY <1>1
  <2> QED BY <1>1, <2>1
<1>4. e = [g EXCEPT !.lcount[pid] = i]
  OBVIOUS
<1> HIDE DEF g
<1>5. Sound(g) /\ Beside(d, g) /\ g.at = [d.at EXCEPT ![pid][x] = Taken(d)]
  BY <1>1, <1>2, <1>3, TakeKeeps DEF g
<1>6. Room(g) = Room(d) - 1
  BY <1>1, <1>2, <1>3, TakeUsesRoom DEF g
<1>7. /\ g.at[pid][x] = Taken(d) /\ \A y \in Place : y # x => g.at[pid][y] = d.at[pid][y]
      /\ \A p \in Pids \ {pid} : g.at[p] = d.at[p]
  BY <1>2, <1>5 DEF Places
<1>8. e = Setting(g, pid, i, g.ldir[pid]) /\ g.ldir[pid] \in BOOLEAN /\ i \in 0..LargeMax
  <2>1. Sound(g) /\ i \in 0..LargeMax
    BY <1>1, <1>5
  <2>2. g.ldir[pid] \in BOOLEAN /\ \A c : [g EXCEPT !.lcount[pid] = c] = Setting(g, pid, c, g.ldir[pid])
    BY <2>1, Settings, Zenon
  <2> QED BY <1>4, <2>1, <2>2, Zenon
<1>9. /\ Sound(e) /\ e.at = g.at /\ e.task = g.task /\ e.used = g.used
      /\ e.count = g.count /\ e.reserved = g.reserved /\ e.spages = g.spages
      /\ \A p \in Pids \ {pid} : e.lcount[p] = g.lcount[p] /\ e.ldir[p] = g.ldir[p]
      /\ e.lcount[pid] = i /\ e.ldir[pid] = g.ldir[pid]
  <2>1. PICK b \in BOOLEAN : b = g.ldir[pid]
    BY <1>8
  <2>2. e = Setting(g, pid, i, b)
    BY <1>8, <2>1
  <2>3. Sound(g) /\ i \in 0..LargeMax
    BY <1>1, <1>5
  <2>4. Changed(g, e, pid, i, b)
    BY <2>2, <2>3, SettingKeeps
  <2> QED BY <2>1, <2>4, Zenon DEF Changed
<1>10. Around(d, e, pid)
  <2>1. /\ \A t \in 0..LastTable : Dir(t) \in Place /\ Dir(t) # x
        /\ \A j \in 0..(AnonMax - 1) : Pte(j) \in Place /\ Pte(j) # x
        /\ \A w \in Windows : Window(w) \in Place /\ Window(w) # x
    BY Placed, Apart
  <2> HIDE DEF x
  <2>2. /\ e.task = d.task /\ e.used = d.used /\ e.count = d.count /\ e.reserved = d.reserved
        /\ e.spages = d.spages /\ g.lcount = d.lcount /\ g.ldir = d.ldir
    BY <1>5, <1>9 DEF Beside
  <2>3. \A p \in Pids \ {pid} : e.at[p] = d.at[p] /\ e.lcount[p] = d.lcount[p] /\ e.ldir[p] = d.ldir[p]
    BY <1>7, <1>9, <2>2
  <2>4. \A y \in Place : y # x => e.at[pid][y] = d.at[pid][y]
    BY <1>7, <1>9
  <2> QED BY <2>1, <2>2, <2>3, <2>4 DEF Around
<1>11. Around(k, e, pid)
  BY <1>1, <1>10, AroundTwice
<1>12. e.at[pid][Ltable] # 0
  <2>1. Ltable \in Place /\ Ltable # x
    BY Placed, Apart
  <2> QED BY <1>1, <1>7, <1>9, <2>1
<1>13. \A j \in 1..LargeMax : e.at[pid][Lpage(j)] # 0 <=> j <= i
  <2> SUFFICES ASSUME NEW j \in 1..LargeMax PROVE e.at[pid][Lpage(j)] # 0 <=> j <= i
    OBVIOUS
  <2>1. Lpage(j) \in Place /\ (Lpage(j) = x <=> j = i)
    BY Placed, Apart
  <2>2. j <= i <=> j <= i - 1 \/ j = i
    BY <1>1
  <2> QED BY <1>1, <1>7, <1>9, <2>1, <2>2
<1>14. e.ldir[pid] = FALSE
  BY <1>1, <1>5, <1>9 DEF Beside
<1>15. Room(e) = Room(g)
  <2>1. e.at = g.at
    BY <1>9
  <2>2. Loose(e) = Loose(g)
    BY <2>1 DEF Loose
  <2> QED BY <2>2 DEF Room
<1> QED BY <1>6, <1>9, <1>11, <1>12, <1>13, <1>14, <1>15 DEF Loading

(* A page of large_code_load that finds none.                              *)
LEMMA LargeGivenUp ==
  ASSUME NEW k, Sound(k), NEW d, NEW pid \in Pids, Small(k, pid), NEW i \in 1..LargeMax,
         Loading(k, d, pid, i - 1),
         NEW e, e = large_code_release([d EXCEPT !.lcount[pid] = i - 1], pid)
  PROVE  Unloaded(k, e)
<1>1. /\ Sound(d) /\ Around(k, d, pid) /\ d.lcount[pid] = i - 1
      /\ \A j \in 1..LargeMax : d.at[pid][Lpage(j)] # 0 <=> j <= i - 1
  BY DEF Loading
<1>2. [d EXCEPT !.lcount[pid] = i - 1] = d
  BY <1>1, Typed DEF State, Larges
<1>3. Sound(e) /\ Around(d, e, pid) /\ Small(e, pid)
  <2>1. e = large_code_release(d, pid)
    BY <1>2
  <2> QED BY <1>1, <2>1, LargeReleased
<1>4. Around(k, e, pid)
  BY <1>1, <1>3, AroundTwice
<1> QED BY <1>3, <1>4, ReleasedIsUnloaded

(* A loaded large image of c pages.                                        *)
Loaded(k, d, pid, c) ==
  /\ Sound(d) /\ Around(k, d, pid) /\ d.lcount[pid] = c /\ d.ldir[pid] = TRUE
  /\ d.at[pid][Ltable] # 0
  /\ \A i \in 1..LargeMax : d.at[pid][Lpage(i)] # 0 <=> i <= c

(* large_code_load succeeds exactly when there is room for the table and   *)
(* the pages, and otherwise leaves everything as it was.                   *)
LEMMA LargeLoaded ==
  ASSUME NEW k, Sound(k), NEW pid \in Pids, Small(k, pid), NEW pages \in Nat,
         NEW r, r = large_code_load(k, pid, pages)
  PROVE  /\ r \in [k : State, ok : BOOLEAN]
         /\ r.ok <=> pages <= LargeMax /\ pages + 1 <= Room(k)
         /\ r.ok => Loaded(k, r.k, pid, pages)
         /\ ~r.ok => Unloaded(k, r.k)
<1> DEFINE n == pages
           Result == [k : State, ok : BOOLEAN]
           Turn(a, i) == LargePage(a, pid, i)
           k1 == anonymous_frame_take(k, pid, Ltable)
           base == [k |-> k1, ok |-> TRUE]
           S == [i \in 0..n |->
                   {a \in Result :
                      /\ a.ok => /\ Loading(k, a.k, pid, i)
                                 /\ i + 1 <= Room(k) /\ Room(a.k) = Room(k) - (i + 1)
                      /\ ~a.ok => Unloaded(k, a.k) /\ Room(k) < i + 1}]
           F == [i \in 1..n |-> [a \in S[i - 1] |-> Turn(a, i)]]
           after == CHOOSE g : g = [i \in 0..n |-> IF i = 0 THEN base ELSE Turn(g[i - 1], i)]
           l == after[n]
<1>1. r = IF pages > LargeMax \/ Taken(k) = 0 THEN [k |-> k, ok |-> FALSE]
          ELSE IF ~l.ok THEN l ELSE [ok |-> TRUE, k |-> [l.k EXCEPT !.ldir[pid] = TRUE]]
  BY DEF large_code_load, Loop
<1>2. /\ n \in Nat /\ LargeMax \in Nat /\ Room(k) \in Nat /\ (Taken(k) = 0 <=> Room(k) = 0)
      /\ k \in State /\ k.at \in Places
  BY MemoryAssumption, RoomToTake, Typed
<1> HIDE DEF l
<1>3. CASE pages > LargeMax \/ Taken(k) = 0
  <2>1. r = [k |-> k, ok |-> FALSE]
    BY <1>1, <1>3
  <2>2. r.k = k /\ r.ok = FALSE
    BY <2>1
  <2>3. ~(pages <= LargeMax /\ pages + 1 <= Room(k))
    BY <1>2, <1>3
  <2>4. Unloaded(k, k)
    BY DEF Unloaded, Beside
  <2>5. r \in [k : State, ok : BOOLEAN]
    BY <1>2, <2>1
  <2> QED BY <2>2, <2>3, <2>4, <2>5
<1>4. CASE pages <= LargeMax /\ Taken(k) # 0
  <2>1. base \in S[0]
    <3>1. Ltable \in Place /\ k.at[pid][Ltable] = 0
      BY Placed DEF Small
    <3>2. Sound(k1) /\ Beside(k, k1) /\ k1.at = [k.at EXCEPT ![pid][Ltable] = Taken(k)]
      BY <1>4, <3>1, TakeKeeps
    <3>3. Room(k1) = Room(k) - 1
      BY <1>4, <3>1, TakeUsesRoom
    <3> HIDE DEF k1
    <3>4. /\ k1.at[pid][Ltable] = Taken(k)
          /\ \A x \in Place : x # Ltable => k1.at[pid][x] = k.at[pid][x]
          /\ \A p \in Pids \ {pid} : k1.at[p] = k.at[p]
      BY <1>2, <3>1, <3>2 DEF Places
    <3>5. Around(k, k1, pid)
      <4>1. /\ \A t \in 0..LastTable : Dir(t) \in Place /\ Dir(t) # Ltable
            /\ \A j \in 0..(AnonMax - 1) : Pte(j) \in Place /\ Pte(j) # Ltable
            /\ \A w \in Windows : Window(w) \in Place /\ Window(w) # Ltable
        BY Placed, Apart
      <4> QED BY <3>2, <3>4, <4>1 DEF Around, Beside
    <3>6. \A i \in 1..LargeMax : k1.at[pid][Lpage(i)] # 0 <=> i <= 0
      <4>1. \A i \in 1..LargeMax : Lpage(i) \in Place /\ Lpage(i) # Ltable /\ ~(i <= 0)
        BY <1>2, Placed, Apart
      <4> QED BY <3>4, <4>1 DEF Small
    <3>7. k1.ldir[pid] = FALSE
      <4>1. k.ldir[pid] = FALSE
        BY Settings, Zenon DEF Small
      <4> QED BY <3>2, <4>1 DEF Beside
    <3>8. Loading(k, k1, pid, 0)
      BY <1>4, <3>2, <3>4, <3>5, <3>6, <3>7 DEF Loading, Beside, Small
    <3>9. base \in Result /\ base.k = k1 /\ base.ok = TRUE
      <4>1. k1 \in State
        BY <3>2, Typed
      <4> QED BY <4>1
    <3>10. 0 + 1 <= Room(k) /\ Room(k1) = Room(k) - (0 + 1)
      BY <1>2, <1>4, <3>3
    <3> HIDE DEF base
    <3> QED BY <1>2, <3>8, <3>9, <3>10
  <2>2. ASSUME NEW i \in 1..n, NEW a \in S[i - 1] PROVE Turn(a, i) \in S[i]
    <3> DEFINE d == Turn(a, i)
    <3>1. /\ a \in Result
          /\ a.ok => /\ Loading(k, a.k, pid, i - 1)
                     /\ (i - 1) + 1 <= Room(k) /\ Room(a.k) = Room(k) - ((i - 1) + 1)
          /\ ~a.ok => Unloaded(k, a.k) /\ Room(k) < (i - 1) + 1
      BY <1>2, <2>2
    <3>2. i \in 1..LargeMax /\ (i - 1) + 1 = i
      BY <1>2, <1>4
    <3> SUFFICES /\ d \in Result
                 /\ d.ok => /\ Loading(k, d.k, pid, i)
                            /\ i + 1 <= Room(k) /\ Room(d.k) = Room(k) - (i + 1)
                 /\ ~d.ok => Unloaded(k, d.k) /\ Room(k) < i + 1
      BY <1>2
    <3>3. CASE ~a.ok
      <4>1. d = a
        BY <3>3 DEF LargePage
      <4> QED BY <1>2, <3>1, <3>2, <3>3, <4>1
    <3>4. CASE a.ok /\ Taken(a.k) = 0
      <4> DEFINE e == large_code_release([a.k EXCEPT !.lcount[pid] = i - 1], pid)
      <4>1. d = [ok |-> FALSE, k |-> e]
        BY <3>4 DEF LargePage
      <4>2. Unloaded(k, e)
        BY <3>1, <3>2, <3>4, LargeGivenUp
      <4> HIDE DEF e
      <4>3. e \in State
        BY <4>2, Typed DEF Unloaded
      <4>4. d \in Result /\ d.ok = FALSE /\ d.k = e
        BY <4>1, <4>3
      <4>5. Room(k) < i + 1
        <5>1. Sound(a.k)
          BY <3>1, <3>4 DEF Loading
        <5>2. Room(a.k) = 0
          BY <3>4, <5>1, RoomToTake
        <5> QED BY <1>2, <3>1, <3>2, <3>4, <5>2
      <4> QED BY <4>2, <4>4, <4>5
    <3>5. CASE a.ok /\ Taken(a.k) # 0
      <4> DEFINE e == [anonymous_frame_take(a.k, pid, Lpage(i)) EXCEPT !.lcount[pid] = i]
      <4>1. d = [ok |-> TRUE, k |-> e]
        BY <3>5 DEF LargePage
      <4>2. Loading(k, e, pid, i) /\ Room(e) = Room(a.k) - 1
        BY <3>1, <3>2, <3>5, LargeTaken
      <4> HIDE DEF e
      <4>3. e \in State
        BY <4>2, Typed DEF Loading
      <4>4. d \in Result /\ d.ok = TRUE /\ d.k = e
        BY <4>1, <4>3
      <4>5. i + 1 <= Room(k) /\ Room(e) = Room(k) - (i + 1)
        <5>1. Sound(a.k)
          BY <3>1, <3>5 DEF Loading
        <5>2. Room(a.k) # 0 /\ Room(a.k) \in Nat
          BY <3>5, <5>1, RoomToTake
        <5> QED BY <1>2, <3>1, <3>2, <3>5, <4>2, <5>2
      <4> QED BY <4>2, <4>4, <4>5
    <3> QED BY <3>3, <3>4, <3>5
  <2>3. \A i \in 1..n : \A a \in S[i - 1] : F[i][a] = Turn(a, i)
    BY Zenon
  <2> HIDE DEF F, S, Turn, base
  <2>4. Follows(F, S, n)
    BY <2>2, <2>3 DEF Follows
  <2>5. PICK f : Runs(f, F, base, n) /\ Stays(f, S, n)
    BY <1>2, <2>1, <2>4, Iteration
  <2>6. f = [i \in 0..n |-> IF i = 0 THEN base ELSE Turn(f[i - 1], i)]
    BY <1>2, <2>3, <2>5 DEF Runs, Stays
  <2>7. after = [i \in 0..n |-> IF i = 0 THEN base ELSE Turn(after[i - 1], i)]
    BY <2>6
  <2> HIDE DEF after
  <2> DEFINE T == {i \in 0..n : after[i] \in S[i]}
  <2>8. 0 \in T
    BY <1>2, <2>1, <2>7
  <2>9. \A i \in 1..n : i - 1 \in T => i \in T
    BY <1>2, <2>2, <2>7
  <2> HIDE DEF T
  <2>10. 0..n \subseteq T
    BY <1>2, <2>8, <2>9, Induction
  <2>11. l \in S[n]
    BY <1>2, <2>10 DEF T, l
  <2>12. /\ l \in Result
         /\ l.ok => /\ Loading(k, l.k, pid, n)
                    /\ n + 1 <= Room(k) /\ Room(l.k) = Room(k) - (n + 1)
         /\ ~l.ok => Unloaded(k, l.k) /\ Room(k) < n + 1
    BY <1>2, <2>11 DEF S
  <2>13. CASE ~l.ok
    <3>1. r = l
      BY <1>1, <1>2, <1>4, <2>13
    <3> QED BY <1>2, <2>12, <2>13, <3>1
  <2>14. CASE l.ok
    <3> DEFINE e == [l.k EXCEPT !.ldir[pid] = TRUE]
    <3>1. r = [ok |-> TRUE, k |-> e]
      BY <1>1, <1>2, <1>4, <2>14
    <3>2. Loading(k, l.k, pid, n) /\ n + 1 <= Room(k)
      BY <2>12, <2>14
    <3>3. Sound(l.k) /\ Around(k, l.k, pid) /\ l.k.lcount[pid] = n
      BY <3>2 DEF Loading
    <3>4. e = Setting(l.k, pid, l.k.lcount[pid], TRUE) /\ l.k.lcount[pid] \in 0..LargeMax
      BY <3>3, Settings, Zenon
    <3> HIDE DEF e
    <3>5. PICK b \in BOOLEAN : b = TRUE
      OBVIOUS
    <3>6. e = Setting(l.k, pid, l.k.lcount[pid], b)
      BY <3>4, <3>5, Zenon
    <3>7. Changed(l.k, e, pid, l.k.lcount[pid], b)
      BY <3>3, <3>4, <3>6, SettingKeeps
    <3>8. e.at = l.k.at /\ e.lcount[pid] = n /\ Sound(e)
      BY <3>3, <3>7 DEF Changed
    <3>9. e.ldir[pid] = TRUE
      BY <3>5, <3>7, Zenon DEF Changed
    <3>10. Around(l.k, e, pid)
      BY <3>7 DEF Changed, Around
    <3>11. Around(k, e, pid)
      BY <3>3, <3>10, AroundTwice
    <3>12. Loaded(k, e, pid, n)
      BY <3>2, <3>8, <3>9, <3>11 DEF Loaded, Loading
    <3>13. r.ok = TRUE /\ r.k = e
      BY <3>1
    <3>14. r \in [k : State, ok : BOOLEAN]
      BY <3>1, <3>8 DEF Sound
    <3> QED BY <1>4, <3>2, <3>12, <3>13, <3>14
  <2> QED BY <2>13, <2>14
<1> QED BY <1>2, <1>3, <1>4

(***************************************************************************)
(* Spawning.  The first unused slot of the scheduler is also the first     *)
(* slot tried, and no later slot takes an image that it does not take: so  *)
(* a spawn ends in that slot or fails in every slot.                       *)
(***************************************************************************)
FitsAt(k, pid, image) ==
  IF image.large THEN image.pages <= LargeMax /\ image.pages + 1 <= Room(k)
  ELSE image.pages <= CodePages(pid)

(* What fits a later slot fits every earlier one that is no bootstrap one. *)
LEMMA FitsEarlier ==
  ASSUME NEW k, NEW image \in Image, NEW p \in Pids, NEW q \in Pids, q < p, q \notin Boot,
         FitsAt(k, p, image)
  PROVE  FitsAt(k, q, image)
<1>1. CASE image.large
  BY <1>1 DEF FitsAt
<1>2. CASE ~image.large
  <2>1. Booted \in Nat /\ Processes \in Nat
    BY MemoryAssumption
  <2>2. p \notin Boot /\ p - 1 # Booted
    BY <2>1 DEF Boot, Pids
  <2>3. CodePages(p) = 2 /\ CodePages(q) \in {2, 3}
    BY <2>2 DEF CodePages
  <2> QED BY <1>2, <2>3 DEF FitsAt, Image
<1> QED BY <1>1, <1>2

Started(k, pid) == [k EXCEPT !.task[pid] = "live", !.used[pid] = TRUE]

Starts(k, d, pid) ==
  /\ Sound(d) /\ d.at = k.at /\ d.count = k.count /\ d.reserved = k.reserved
  /\ d.spages = k.spages /\ d.lcount = k.lcount /\ d.ldir = k.ldir
  /\ d.task[pid] = "live" /\ d.used[pid]
  /\ \A p \in Pids \ {pid} : d.task[p] = k.task[p] /\ d.used[p] = k.used[p]

(* Starting a task keeps the frames.                                       *)
LEMMA StartedKeeps ==
  ASSUME NEW k, Sound(k), NEW pid \in Pids, NEW d, d = Started(k, pid)
  PROVE  Starts(k, d, pid)
<1>1. /\ [k.task EXCEPT ![pid] = "live"] \in Tasks /\ [k.used EXCEPT ![pid] = TRUE] \in Flags
      /\ k \in State /\ k.task \in Tasks /\ k.used \in Flags
  BY Typed DEF Tasks, Flags
<1>2. d = [k EXCEPT !.task = [k.task EXCEPT ![pid] = "live"], !.used = [k.used EXCEPT ![pid] = TRUE]]
  BY <1>1 DEF State, Started
<1>3. d \in State
  BY <1>1, <1>2 DEF State
<1>4. /\ d.free = k.free /\ d.next = k.next /\ d.at = k.at /\ d.count = k.count
      /\ d.reserved = k.reserved /\ d.spages = k.spages /\ d.lcount = k.lcount /\ d.ldir = k.ldir
      /\ d.task = [k.task EXCEPT ![pid] = "live"] /\ d.used = [k.used EXCEPT ![pid] = TRUE]
  BY <1>1, <1>2 DEF State
<1>5. Conserved(d)
  BY <1>4 DEF Sound, Conserved
<1>6. /\ d.task[pid] = "live" /\ d.used[pid] = TRUE
      /\ \A p \in Pids \ {pid} : d.task[p] = k.task[p] /\ d.used[p] = k.used[p]
  BY <1>1, <1>4 DEF Tasks, Flags
<1> QED BY <1>3, <1>4, <1>5, <1>6 DEF Sound, Starts

(* A loaded process may start.                                             *)
LEMMA StartedGood ==
  ASSUME NEW k, Good(k), NEW pid \in Pids, k.task[pid] = "unused", NEW e,
         e = k \/ \E c \in 0..LargeMax : Loaded(k, e, pid, c), NEW d, d = Started(e, pid)
  PROVE  Good(d)
<1>1. /\ Sound(k) /\ Laid(k, pid) /\ Agreed(k, pid) /\ Vacant(k, pid)
      /\ LargeMax \in Nat
  BY MemoryAssumption DEF Good, Agreed
<1>2. Sound(e) /\ Around(k, e, pid)
  BY <1>1 DEF Loaded, Around
<1>3. /\ Sound(d) /\ d.at = e.at /\ d.count = e.count /\ d.reserved = e.reserved
      /\ d.spages = e.spages /\ d.lcount = e.lcount /\ d.ldir = e.ldir
      /\ d.task[pid] = "live" /\ d.used[pid]
      /\ \A p \in Pids \ {pid} : d.task[p] = e.task[p] /\ d.used[p] = e.used[p]
  <2>1. Starts(e, d, pid)
    BY <1>2, StartedKeeps
  <2> QED BY <2>1 DEF Starts
<1>4. Anonymous(d, pid) /\ Shows(d, pid)
  BY <1>1, <1>2, <1>3 DEF Around, Laid, Anonymous, Shows
<1>5. Large(d, pid) /\ Linked(d, pid)
  <2>1. CASE e = k
    BY <1>1, <1>3, <2>1 DEF Laid, Large, Linked
  <2>2. CASE \E c \in 0..LargeMax : Loaded(k, e, pid, c)
    BY <1>3, <2>2 DEF Large, Linked, Loaded
  <2> QED BY <2>1, <2>2
<1>6. Agreed(d, pid)
  BY <1>3 DEF Agreed
<1>7. Elsewhere(k, d, pid)
  BY <1>2, <1>3 DEF Elsewhere, Around
<1> QED BY <1>3, <1>4, <1>5, <1>6, <1>7, GoodElsewhere DEF Laid

(* load_process in the first unused slot, or in one that is too small.     *)
LEMMA LoadProcess ==
  ASSUME NEW k, Good(k), NEW pid \in Pids, ~k.used[pid], NEW image \in Image,
         FitsAt(k, pid, image) => \A q \in Pids : q < pid => k.task[q] # "unused",
         NEW r, r = load_process(k, pid, image)
  PROVE  /\ r \in [k : State, ok : BOOLEAN]
         /\ r.ok <=> FitsAt(k, pid, image)
         /\ r.ok => Good(r.k)
         /\ ~r.ok => Unloaded(k, r.k)
<1> DEFINE s == IF image.large THEN large_code_load(k, pid, image.pages)
                ELSE [k |-> k, ok |-> image.pages <= CodePages(pid)]
           given == CHOOSE p \in Unused(s.k) : \A q \in Unused(s.k) : p <= q
           k1 == IF Unused(s.k) = {} THEN s.k ELSE [s.k EXCEPT !.task[given] = "live"]
<1>1. r = IF ~s.ok THEN s
          ELSE IF Unused(s.k) = {} \/ given # pid
          THEN [ok |-> FALSE, k |-> large_code_release(k1, pid)]
          ELSE [ok |-> TRUE, k |-> [k1 EXCEPT !.used[pid] = TRUE]]
  BY DEF load_process
<1>2. /\ Sound(k) /\ Laid(k, pid) /\ Agreed(k, pid) /\ k.task[pid] = "unused" /\ Vacant(k, pid)
      /\ image.pages \in Nat /\ Processes \in Nat /\ LargeMax \in Nat
  BY MemoryAssumption DEF Good, Agreed, Image
<1>3. Small(k, pid)
  BY <1>2, Placed DEF Vacant, Small
<1>4. /\ s \in [k : State, ok : BOOLEAN]
      /\ s.ok <=> FitsAt(k, pid, image)
      /\ ~s.ok => Unloaded(k, s.k)
      /\ s.ok => s.k = k \/ \E c \in 0..LargeMax : Loaded(k, s.k, pid, c)
  <2>1. CASE image.large
    <3>1. s = large_code_load(k, pid, image.pages)
      BY <2>1
    <3> HIDE DEF s
    <3>2. /\ s \in [k : State, ok : BOOLEAN]
          /\ s.ok <=> image.pages <= LargeMax /\ image.pages + 1 <= Room(k)
          /\ s.ok => Loaded(k, s.k, pid, image.pages)
          /\ ~s.ok => Unloaded(k, s.k)
      BY <1>2, <1>3, <3>1, LargeLoaded
    <3> QED BY <1>2, <2>1, <3>2 DEF FitsAt
  <2>2. CASE ~image.large
    <3> DEFINE b == image.pages <= CodePages(pid)
    <3>1. b \in BOOLEAN
      OBVIOUS
    <3>2. FitsAt(k, pid, image) <=> b
      BY <2>2 DEF FitsAt
    <3>3. s = [k |-> k, ok |-> b]
      BY <2>2
    <3> HIDE DEF s, b
    <3>4. s.k = k /\ s.ok = b
      BY <3>3
    <3>5. Unloaded(k, k)
      BY <1>2 DEF Unloaded, Beside
    <3>6. s \in [k : State, ok : BOOLEAN]
      BY <1>2, <3>1, <3>3 DEF Sound
    <3> QED BY <3>2, <3>4, <3>5, <3>6
  <2> QED BY <2>1, <2>2
<1> HIDE DEF s
<1>5. CASE ~s.ok
  <2>1. r = s
    BY <1>1, <1>5
  <2> QED BY <1>4, <1>5, <2>1
<1>6. CASE s.ok
  <2>1. Sound(s.k) /\ s.k.task = k.task
    BY <1>2, <1>4, <1>6 DEF Loaded, Around
  <2>2. \A q \in Pids : q < pid => k.task[q] # "unused"
    BY <1>4, <1>6
  <2>3. pid \in Unused(s.k) /\ \A q \in Unused(s.k) : q \in Nat /\ pid <= q
    BY <1>2, <2>1, <2>2 DEF Unused, Pids
  <2>4. given = pid
    <3>1. given \in Unused(s.k) /\ \A q \in Unused(s.k) : given <= q
      BY <2>3
    <3> HIDE DEF given
    <3> QED BY <2>3, <3>1 DEF Pids
  <2>5. Unused(s.k) # {}
    BY <2>3
  <2>6. k1 = [s.k EXCEPT !.task[pid] = "live"]
    BY <2>4, <2>5
  <2> HIDE DEF given, k1
  <2> DEFINE d == [k1 EXCEPT !.used[pid] = TRUE]
  <2>7. r = [ok |-> TRUE, k |-> d]
    BY <1>1, <1>6, <2>4, <2>5
  <2>8. d = Started(s.k, pid)
    BY <2>1, <2>6, Typed DEF State, Started
  <2> HIDE DEF d
  <2>9. Good(d)
    BY <1>2, <1>4, <1>6, <2>8, StartedGood
  <2>10. r.ok = TRUE /\ r.k = d
    BY <2>7
  <2>11. r \in [k : State, ok : BOOLEAN]
    BY <2>7, <2>9 DEF Good, Sound
  <2> QED BY <1>4, <1>6, <2>9, <2>10, <2>11
<1> QED BY <1>4, <1>5, <1>6

(* A failed load keeps the invariant and the room.                         *)
LEMMA UnloadedGood ==
  ASSUME NEW k, Good(k), NEW d, Unloaded(k, d)
  PROVE  Good(d) /\ d.used = k.used /\ d.task = k.task /\ Room(d) = Room(k)
<1>1. Good(d)
  BY SameGood DEF Unloaded
<1> QED BY <1>1 DEF Unloaded, Beside, Room, Loose

(* userspace_spawn_path starts the process in the first unused slot, or no *)
(* slot takes it and nothing has changed.                                  *)
LEMMA Spawned ==
  ASSUME NEW k, Good(k), NEW image \in Image, NEW r, r = userspace_spawn_path(k, image)
  PROVE  Good(r.k)
<1> DEFINE n == Processes
           Result == [k : State, ok : BOOLEAN]
           Turn(a, i) == IF a.ok \/ a.k.used[i] THEN a ELSE load_process(a.k, i, image)
           base == [k |-> k, ok |-> FALSE]
           S == [i \in 0..n |->
                   {a \in Result :
                      /\ a.ok => Good(a.k)
                      /\ ~a.ok => /\ Unloaded(k, a.k)
                                  /\ \A p \in 1..i : ~k.used[p] => ~FitsAt(k, p, image)}]
           F == [i \in 1..n |-> [a \in S[i - 1] |-> Turn(a, i)]]
           after == CHOOSE g : g = [i \in 0..n |-> IF i = 0 THEN base ELSE Turn(g[i - 1], i)]
<1>1. r = after[n]
  BY DEF userspace_spawn_path, Loop
<1>2. n \in Nat /\ k \in State /\ Sound(k)
  BY MemoryAssumption, Typed DEF Good
<1> HIDE DEF n
<1>3. base \in S[0]
  <2>1. Unloaded(k, k)
    BY <1>2 DEF Unloaded, Beside
  <2>2. base \in Result /\ base.k = k /\ base.ok = FALSE
    BY <1>2
  <2>3. \A p \in 1..0 : FALSE
    OBVIOUS
  <2> HIDE DEF base
  <2> QED BY <1>2, <2>1, <2>2, <2>3
<1>4. ASSUME NEW i \in 1..n, NEW a \in S[i - 1] PROVE Turn(a, i) \in S[i]
  <2> DEFINE d == Turn(a, i)
  <2>1. /\ a \in Result /\ (a.ok => Good(a.k))
        /\ ~a.ok => /\ Unloaded(k, a.k)
                    /\ \A p \in 1..(i - 1) : ~k.used[p] => ~FitsAt(k, p, image)
    BY <1>2, <1>4
  <2>2. i \in Pids
    BY <1>2 DEF Pids, n
  <2> SUFFICES /\ d \in Result /\ (d.ok => Good(d.k))
               /\ ~d.ok => /\ Unloaded(k, d.k)
                           /\ \A p \in 1..i : ~k.used[p] => ~FitsAt(k, p, image)
    BY <1>2
  <2>3. CASE a.ok
    <3>1. d = a
      BY <2>3
    <3> QED BY <2>1, <2>3, <3>1
  <2>4. CASE ~a.ok
    <3>1. Unloaded(k, a.k) /\ \A p \in 1..(i - 1) : ~k.used[p] => ~FitsAt(k, p, image)
      BY <2>1, <2>4
    <3>2. Good(a.k) /\ a.k.used = k.used /\ a.k.task = k.task /\ Room(a.k) = Room(k)
      BY <3>1, UnloadedGood
    <3>3. \A p \in 1..i : p \in 1..(i - 1) \/ p = i
      BY <1>2
    <3>4. CASE k.used[i]
      <4>1. d = a
        BY <3>2, <3>4
      <4> QED BY <2>1, <2>4, <3>1, <3>3, <3>4, <4>1
    <3>5. CASE ~k.used[i]
      <4>1. d = load_process(a.k, i, image)
        BY <2>4, <3>2, <3>5
      <4> HIDE DEF d
      <4>2. \A p \in Pids : FitsAt(a.k, p, image) <=> FitsAt(k, p, image)
        BY <3>2 DEF FitsAt
      <4>3. FitsAt(a.k, i, image) => \A q \in Pids : q < i => a.k.task[q] # "unused"
        <5> SUFFICES ASSUME FitsAt(a.k, i, image), NEW q \in Pids, q < i, a.k.task[q] = "unused"
                     PROVE  FALSE
          OBVIOUS
        <5>1. Agreed(a.k, q)
          BY <3>2 DEF Good
        <5>2. q \notin Boot /\ ~k.used[q]
          BY <3>2, <5>1 DEF Agreed
        <5>3. FitsAt(k, q, image)
          BY <2>2, <4>2, <5>2, FitsEarlier
        <5>4. q \in 1..(i - 1)
          BY <1>2 DEF Pids
        <5> QED BY <3>1, <5>2, <5>3, <5>4
      <4>4. /\ d \in Result
            /\ d.ok <=> FitsAt(a.k, i, image)
            /\ d.ok => Good(d.k)
            /\ ~d.ok => Unloaded(a.k, d.k)
        BY <2>2, <3>2, <3>5, <4>1, <4>3, LoadProcess
      <4>5. ~d.ok => Unloaded(k, d.k)
        BY <3>1, <4>4 DEF Unloaded, Beside
      <4> QED BY <2>2, <3>1, <3>3, <4>2, <4>4, <4>5
    <3> QED BY <3>4, <3>5
  <2> QED BY <2>3, <2>4
<1>5. \A i \in 1..n : \A a \in S[i - 1] : F[i][a] = Turn(a, i)
  BY Zenon
<1> HIDE DEF F, S, Turn, base
<1>6. Follows(F, S, n)
  BY <1>4, <1>5 DEF Follows
<1>7. PICK f : Runs(f, F, base, n) /\ Stays(f, S, n)
  BY <1>2, <1>3, <1>6, Iteration
<1>8. f = [i \in 0..n |-> IF i = 0 THEN base ELSE Turn(f[i - 1], i)]
  BY <1>2, <1>5, <1>7 DEF Runs, Stays
<1>9. after = [i \in 0..n |-> IF i = 0 THEN base ELSE Turn(after[i - 1], i)]
  BY <1>8
<1> HIDE DEF after
<1> DEFINE T == {i \in 0..n : after[i] \in S[i]}
<1>10. 0 \in T
  BY <1>2, <1>3, <1>9
<1>11. \A i \in 1..n : i - 1 \in T => i \in T
  BY <1>2, <1>4, <1>9
<1> HIDE DEF T
<1>12. 0..n \subseteq T
  BY <1>2, <1>10, <1>11, Induction
<1>13. r \in S[n]
  BY <1>1, <1>2, <1>12 DEF T
<1>14. r.ok \/ ~r.ok => Good(r.k) \/ Unloaded(k, r.k)
  BY <1>2, <1>13 DEF S
<1> QED BY <1>14, UnloadedGood

(***************************************************************************)
(* Surface windows.                                                        *)
(***************************************************************************)
Showing(k, pid, w, n) == [k EXCEPT !.spages[pid][w] = n]

Shifts(k, d, pid, w, n) ==
  /\ Sound(d) /\ d.at = k.at /\ d.task = k.task /\ d.used = k.used /\ d.count = k.count
  /\ d.reserved = k.reserved /\ d.lcount = k.lcount /\ d.ldir = k.ldir
  /\ d.spages[pid][w] = n
  /\ \A v \in Windows \ {w} : d.spages[pid][v] = k.spages[pid][v]
  /\ \A p \in Pids \ {pid} : d.spages[p] = k.spages[p]

(* What a window shows does not touch the frames.                          *)
LEMMA ShowingKeeps ==
  ASSUME NEW k, Sound(k), NEW pid \in Pids, NEW w \in Windows, NEW n \in Nat,
         NEW d, d = Showing(k, pid, w, n)
  PROVE  Shifts(k, d, pid, w, n)
<1>1. k \in State /\ k.spages \in Shown /\ [k.spages EXCEPT ![pid][w] = n] \in Shown
  BY Typed DEF Shown
<1>2. d = [k EXCEPT !.spages = [k.spages EXCEPT ![pid][w] = n]]
  BY <1>1 DEF State, Showing
<1>3. d \in State
  BY <1>1, <1>2 DEF State
<1>4. /\ d.free = k.free /\ d.next = k.next /\ d.at = k.at /\ d.task = k.task
      /\ d.used = k.used /\ d.count = k.count /\ d.reserved = k.reserved
      /\ d.lcount = k.lcount /\ d.ldir = k.ldir
      /\ d.spages = [k.spages EXCEPT ![pid][w] = n]
  BY <1>1, <1>2 DEF State
<1>5. Conserved(d)
  BY <1>4 DEF Sound, Conserved
<1>6. /\ d.spages[pid][w] = n
      /\ \A v \in Windows \ {w} : d.spages[pid][v] = k.spages[pid][v]
      /\ \A p \in Pids \ {pid} : d.spages[p] = k.spages[p]
  BY <1>1, <1>4 DEF Shown
<1> QED BY <1>3, <1>4, <1>5, <1>6 DEF Sound, Shifts

(* A window gets its page table.                                           *)
LEMMA WindowTaken ==
  ASSUME NEW k, Good(k), NEW pid \in Pids, k.task[pid] # "unused", NEW w \in Windows,
         k.at[pid][Window(w)] = 0, Taken(k) # 0,
         NEW d, d = anonymous_frame_take(k, pid, Window(w))
  PROVE  Good(d) /\ d.task = k.task /\ d.at[pid][Window(w)] # 0
<1>1. Sound(k) /\ Laid(k, pid) /\ Agreed(k, pid) /\ Window(w) \in Place /\ k.at \in Places
  BY Placed, Typed DEF Good
<1>2. Sound(d) /\ Beside(k, d) /\ d.at = [k.at EXCEPT ![pid][Window(w)] = Taken(k)]
  BY <1>1, TakeKeeps
<1>3. /\ d.at[pid][Window(w)] = Taken(k)
      /\ \A x \in Place : x # Window(w) => d.at[pid][x] = k.at[pid][x]
      /\ \A p \in Pids \ {pid} : d.at[p] = k.at[p]
  BY <1>1, <1>2 DEF Places
<1>4. /\ \A t \in 0..LastTable : Dir(t) \in Place /\ Dir(t) # Window(w)
      /\ \A i \in 0..(AnonMax - 1) : Pte(i) \in Place /\ Pte(i) # Window(w)
      /\ \A i \in 1..LargeMax : Lpage(i) \in Place /\ Lpage(i) # Window(w)
      /\ Ltable \in Place /\ Ltable # Window(w)
      /\ \A v \in Windows : Window(v) \in Place
  BY Placed, Apart
<1>5. Anonymous(d, pid)
  BY <1>1, <1>2, <1>3, <1>4 DEF Laid, Anonymous, Beside
<1>6. Large(d, pid) /\ Linked(d, pid)
  BY <1>1, <1>2, <1>3, <1>4 DEF Laid, Large, Linked, Beside
<1>7. Shows(d, pid)
  BY <1>1, <1>2, <1>3, <1>4 DEF Laid, Shows, Beside
<1>8. Agreed(d, pid)
  BY <1>1, <1>2 DEF Agreed, Beside
<1>9. Elsewhere(k, d, pid)
  BY <1>2, <1>3 DEF Elsewhere, Beside
<1> QED BY <1>2, <1>3, <1>5, <1>6, <1>7, <1>8, <1>9, GoodElsewhere DEF Laid, Beside

(* A window with a page table shows any number of pages.                   *)
LEMMA WindowShown ==
  ASSUME NEW k, Good(k), NEW pid \in Pids, k.task[pid] # "unused", NEW w \in Windows,
         k.at[pid][Window(w)] # 0, NEW n \in Nat, NEW d, d = Showing(k, pid, w, n)
  PROVE  /\ Good(d) /\ d.task = k.task /\ d.spages[pid][w] = n
         /\ \A v \in Windows \ {w} : d.spages[pid][v] = k.spages[pid][v]
<1>1. Sound(k) /\ Laid(k, pid) /\ Agreed(k, pid)
  BY DEF Good
<1>2. Shifts(k, d, pid, w, n)
  BY <1>1, ShowingKeeps
<1>3. Laid(d, pid)
  BY <1>1, <1>2 DEF Shifts, Laid, Anonymous, Large, Linked, Shows
<1>4. Agreed(d, pid)
  BY <1>1, <1>2 DEF Shifts, Agreed
<1>5. Elsewhere(k, d, pid)
  BY <1>2 DEF Shifts, Elsewhere
<1>6. Sound(d)
  BY <1>2 DEF Shifts
<1>7. Good(d)
  BY <1>3, <1>4, <1>5, <1>6, GoodElsewhere
<1> QED BY <1>2, <1>7 DEF Shifts

(* edit_surface_ptes, with and without a frame for the table.              *)
LEMMA PtesEdited ==
  ASSUME NEW k, Good(k), NEW pid \in Pids, k.task[pid] # "unused", NEW w \in Windows,
         NEW n \in Nat, NEW d, d = edit_surface_ptes(k, pid, w, n)
  PROVE  /\ Good(d) /\ d.task = k.task
         /\ k.at[pid][Window(w)] # 0 =>
              /\ d.spages[pid][w] = n
              /\ \A v \in Windows \ {w} : d.spages[pid][v] = k.spages[pid][v]
<1> DEFINE k1 == IF k.at[pid][Window(w)] # 0 THEN k
                 ELSE anonymous_frame_take(k, pid, Window(w))
<1>1. d = IF k1.at[pid][Window(w)] = 0 THEN k1 ELSE Showing(k1, pid, w, n)
  BY DEF edit_surface_ptes, Showing
<1>2. CASE k.at[pid][Window(w)] # 0
  <2>1. d = Showing(k, pid, w, n)
    BY <1>1, <1>2
  <2> QED BY <1>2, <2>1, WindowShown
<1>3. CASE k.at[pid][Window(w)] = 0
  <2>1. k1 = anonymous_frame_take(k, pid, Window(w))
    BY <1>3
  <2> HIDE DEF k1
  <2>2. CASE Taken(k) = 0
    <3>1. k1 = k
      BY <2>1, <2>2 DEF anonymous_frame_take
    <3> QED BY <1>1, <1>3, <3>1
  <2>3. CASE Taken(k) # 0
    <3>1. Good(k1) /\ k1.task = k.task /\ k1.at[pid][Window(w)] # 0
      BY <1>3, <2>1, <2>3, WindowTaken
    <3>2. d = Showing(k1, pid, w, n)
      BY <1>1, <3>1
    <3>3. Good(d) /\ d.task = k1.task
      BY <3>1, <3>2, WindowShown
    <3> QED BY <1>3, <3>1, <3>3
  <2> QED BY <2>2, <2>3
<1> QED BY <1>2, <1>3

(* The loop of unmap_surface.                                              *)
Cleared(k, pid) ==
  Loop(LAMBDA a, w : IF a.spages[pid][w] = 0 THEN a ELSE edit_surface_ptes(a, pid, w, 0),
       k, Slots)

(* After the loop no window shows anything.                                *)
LEMMA WindowsCleared ==
  ASSUME NEW k, Good(k), NEW pid \in Pids, k.task[pid] # "unused", NEW r, r = Cleared(k, pid)
  PROVE  Good(r) /\ r.task = k.task /\ \A w \in Windows : r.spages[pid][w] = 0
<1> DEFINE n == Slots
           Turn(a, i) == IF a.spages[pid][i] = 0 THEN a ELSE edit_surface_ptes(a, pid, i, 0)
           base == k
           S == [i \in 0..n |->
                   {a \in State : /\ Good(a) /\ a.task = k.task
                                  /\ \A w \in 1..i : a.spages[pid][w] = 0}]
           F == [i \in 1..n |-> [a \in S[i - 1] |-> Turn(a, i)]]
           after == CHOOSE g : g = [i \in 0..n |-> IF i = 0 THEN base ELSE Turn(g[i - 1], i)]
<1>1. r = after[n]
  BY DEF Cleared, Loop
<1>2. n \in Nat /\ k \in State /\ Windows = 1..n
  BY MemoryAssumption, Typed DEF Good, Windows
<1> HIDE DEF n
<1>3. base \in S[0]
  <2>1. \A w \in 1..0 : FALSE
    OBVIOUS
  <2> QED BY <1>2, <2>1
<1>4. ASSUME NEW i \in 1..n, NEW a \in S[i - 1] PROVE Turn(a, i) \in S[i]
  <2> DEFINE d == Turn(a, i)
  <2>1. /\ a \in State /\ Good(a) /\ a.task = k.task
        /\ \A w \in 1..(i - 1) : a.spages[pid][w] = 0
    BY <1>2, <1>4
  <2>2. i \in Windows /\ \A w \in 1..i : w = i \/ (w \in 1..(i - 1) /\ w \in Windows \ {i})
    BY <1>2
  <2> SUFFICES d \in State /\ Good(d) /\ d.task = k.task /\ \A w \in 1..i : d.spages[pid][w] = 0
    BY <1>2
  <2>3. CASE a.spages[pid][i] = 0
    <3>1. d = a
      BY <2>3
    <3> QED BY <2>1, <2>2, <2>3, <3>1
  <2>4. CASE a.spages[pid][i] # 0
    <3>1. d = edit_surface_ptes(a, pid, i, 0)
      BY <2>4
    <3> HIDE DEF d
    <3>2. a.at[pid][Window(i)] # 0
      <4>1. Shows(a, pid)
        BY <2>1 DEF Good, Laid
      <4> QED BY <2>2, <2>4, <4>1 DEF Shows
    <3>3. /\ Good(d) /\ d.task = a.task /\ d.spages[pid][i] = 0
          /\ \A w \in Windows \ {i} : d.spages[pid][w] = a.spages[pid][w]
      BY <2>1, <2>2, <3>1, <3>2, PtesEdited
    <3>4. d \in State
      BY <3>3 DEF Good, Sound
    <3> QED BY <2>1, <2>2, <3>3, <3>4
  <2> QED BY <2>3, <2>4
<1>5. \A i \in 1..n : \A a \in S[i - 1] : F[i][a] = Turn(a, i)
  BY Zenon
<1> HIDE DEF F, S, Turn, base
<1>6. Follows(F, S, n)
  BY <1>4, <1>5 DEF Follows
<1>7. PICK f : Runs(f, F, base, n) /\ Stays(f, S, n)
  BY <1>2, <1>3, <1>6, Iteration
<1>8. f = [i \in 0..n |-> IF i = 0 THEN base ELSE Turn(f[i - 1], i)]
  BY <1>2, <1>5, <1>7 DEF Runs, Stays
<1>9. after = [i \in 0..n |-> IF i = 0 THEN base ELSE Turn(after[i - 1], i)]
  BY <1>8
<1> HIDE DEF after
<1> DEFINE T == {i \in 0..n : after[i] \in S[i]}
<1>10. 0 \in T
  BY <1>2, <1>3, <1>9
<1>11. \A i \in 1..n : i - 1 \in T => i \in T
  BY <1>2, <1>4, <1>9
<1> HIDE DEF T
<1>12. 0..n \subseteq T
  BY <1>2, <1>10, <1>11, Induction
<1>13. r \in S[n]
  BY <1>1, <1>2, <1>12 DEF T
<1> QED BY <1>2, <1>13 DEF S

(* unmap_surface gives back the page tables of all windows.                *)
LEMMA SurfacesUnmapped ==
  ASSUME NEW k, Good(k), NEW pid \in Pids, k.task[pid] # "unused", NEW d, d = unmap_surface(k, pid)
  PROVE  /\ Good(d) /\ d.task = k.task
         /\ \A w \in Windows : d.spages[pid][w] = 0 /\ d.at[pid][Window(w)] = 0
<1> DEFINE r == Cleared(k, pid)
           X == {Window(w) : w \in Windows}
<1>1. d = anonymous_frame_release(r, pid, X)
  BY DEF unmap_surface, Cleared
<1>2. Good(r) /\ r.task = k.task /\ \A w \in Windows : r.spages[pid][w] = 0
  BY WindowsCleared
<1> HIDE DEF r
<1>3. Sound(r) /\ Laid(r, pid) /\ Agreed(r, pid) /\ r.at \in Places
  BY <1>2, Typed DEF Good
<1>4. /\ X \subseteq Place
      /\ \A t \in 0..LastTable : Dir(t) \in Place /\ Dir(t) \notin X
      /\ \A i \in 0..(AnonMax - 1) : Pte(i) \in Place /\ Pte(i) \notin X
      /\ \A i \in 1..LargeMax : Lpage(i) \in Place /\ Lpage(i) \notin X
      /\ Ltable \in Place /\ Ltable \notin X
      /\ \A w \in Windows : Window(w) \in Place /\ Window(w) \in X
  BY Placed, Apart
<1> HIDE DEF X
<1>5. /\ Sound(d) /\ Beside(r, d)
      /\ d.at = [r.at EXCEPT ![pid] = [x \in Place |-> IF x \in X THEN 0 ELSE r.at[pid][x]]]
  BY <1>1, <1>3, <1>4, ReleaseKeeps
<1>6. /\ \A x \in Place : d.at[pid][x] = IF x \in X THEN 0 ELSE r.at[pid][x]
      /\ \A p \in Pids \ {pid} : d.at[p] = r.at[p]
  BY <1>3, <1>5 DEF Places
<1>7. Anonymous(d, pid)
  BY <1>3, <1>4, <1>5, <1>6 DEF Laid, Anonymous, Beside
<1>8. Large(d, pid) /\ Linked(d, pid)
  BY <1>3, <1>4, <1>5, <1>6 DEF Laid, Large, Linked, Beside
<1>9. Shows(d, pid) /\ \A w \in Windows : d.spages[pid][w] = 0 /\ d.at[pid][Window(w)] = 0
  BY <1>2, <1>4, <1>5, <1>6 DEF Shows, Beside
<1>10. Agreed(d, pid)
  BY <1>2, <1>3, <1>5 DEF Agreed, Beside
<1>11. Elsewhere(r, d, pid)
  BY <1>5, <1>6 DEF Elsewhere, Beside
<1>12. Good(d)
  BY <1>2, <1>5, <1>7, <1>8, <1>9, <1>10, <1>11, GoodElsewhere DEF Laid
<1> QED BY <1>2, <1>5, <1>9, <1>12 DEF Beside

(***************************************************************************)
(* Teardown.                                                               *)
(***************************************************************************)
Ended(k, pid, s) == [k EXCEPT !.task[pid] = s]
Dropped(k, pid) == [k EXCEPT !.used[pid] = FALSE, !.task[pid] = "unused"]

Same(k, d) ==
  /\ Sound(d) /\ d.at = k.at /\ d.count = k.count /\ d.reserved = k.reserved
  /\ d.spages = k.spages /\ d.lcount = k.lcount /\ d.ldir = k.ldir

(* An exit keeps all memory.                                               *)
LEMMA EndedKeeps ==
  ASSUME NEW k, Sound(k), NEW pid \in Pids, NEW d, d = Ended(k, pid, "exited")
  PROVE  /\ Same(k, d) /\ d.task[pid] = "exited" /\ d.used = k.used
         /\ \A p \in Pids \ {pid} : d.task[p] = k.task[p]
<1>1. k \in State /\ k.task \in Tasks /\ [k.task EXCEPT ![pid] = "exited"] \in Tasks
  BY Typed DEF Tasks
<1>2. d = [k EXCEPT !.task = [k.task EXCEPT ![pid] = "exited"]]
  BY <1>1 DEF State, Ended
<1>3. d \in State
  BY <1>1, <1>2 DEF State
<1>4. /\ d.free = k.free /\ d.next = k.next /\ d.at = k.at /\ d.count = k.count
      /\ d.reserved = k.reserved /\ d.spages = k.spages /\ d.lcount = k.lcount /\ d.ldir = k.ldir
      /\ d.task = [k.task EXCEPT ![pid] = "exited"] /\ d.used = k.used
  BY <1>1, <1>2 DEF State
<1>5. Conserved(d)
  BY <1>4 DEF Sound, Conserved
<1>6. d.task[pid] = "exited" /\ \A p \in Pids \ {pid} : d.task[p] = k.task[p]
  BY <1>1, <1>4 DEF Tasks
<1> QED BY <1>3, <1>4, <1>5, <1>6 DEF Sound, Same

Drops(k, d, pid) ==
  /\ Same(k, d) /\ d.task[pid] = "unused" /\ ~d.used[pid]
  /\ \A p \in Pids \ {pid} : d.task[p] = k.task[p] /\ d.used[p] = k.used[p]

(* A slot given up keeps the frames.                                       *)
LEMMA DroppedKeeps ==
  ASSUME NEW k, Sound(k), NEW pid \in Pids, NEW d, d = Dropped(k, pid)
  PROVE  Drops(k, d, pid)
<1>1. /\ k \in State /\ k.task \in Tasks /\ [k.task EXCEPT ![pid] = "unused"] \in Tasks
      /\ k.used \in Flags /\ [k.used EXCEPT ![pid] = FALSE] \in Flags
  BY Typed DEF Tasks, Flags
<1>2. d = [k EXCEPT !.task = [k.task EXCEPT ![pid] = "unused"],
                    !.used = [k.used EXCEPT ![pid] = FALSE]]
  BY <1>1 DEF State, Dropped
<1>3. d \in State
  BY <1>1, <1>2 DEF State
<1>4. /\ d.free = k.free /\ d.next = k.next /\ d.at = k.at /\ d.count = k.count
      /\ d.reserved = k.reserved /\ d.spages = k.spages /\ d.lcount = k.lcount /\ d.ldir = k.ldir
      /\ d.task = [k.task EXCEPT ![pid] = "unused"] /\ d.used = [k.used EXCEPT ![pid] = FALSE]
  BY <1>1, <1>2 DEF State
<1>5. Conserved(d)
  BY <1>4 DEF Sound, Conserved
<1>6. /\ d.task[pid] = "unused" /\ d.used[pid] = FALSE
      /\ \A p \in Pids \ {pid} : d.task[p] = k.task[p] /\ d.used[p] = k.used[p]
  BY <1>1, <1>4 DEF Tasks, Flags
<1> QED BY <1>3, <1>4, <1>5, <1>6 DEF Sound, Same, Drops

(* Exit keeps the invariant.                                               *)
LEMMA Exited ==
  ASSUME NEW k, Good(k), NEW pid \in Pids, k.task[pid] = "live", NEW d, d = Ended(k, pid, "exited")
  PROVE  Good(d)
<1>1. Sound(k) /\ Laid(k, pid) /\ Agreed(k, pid)
  BY DEF Good
<1>2. /\ Same(k, d) /\ d.task[pid] = "exited" /\ d.used = k.used
      /\ \A p \in Pids \ {pid} : d.task[p] = k.task[p]
  BY <1>1, EndedKeeps
<1>3. Laid(d, pid)
  BY <1>1, <1>2 DEF Same, Laid, Anonymous, Large, Linked, Shows
<1>4. Agreed(d, pid)
  BY <1>1, <1>2 DEF Agreed
<1>5. Elsewhere(k, d, pid)
  BY <1>2 DEF Elsewhere, Same
<1> QED BY <1>2, <1>3, <1>4, <1>5, GoodElsewhere DEF Same

(* A released process leaves nothing behind, whatever it had.              *)
LEMMA Reaped ==
  ASSUME NEW k, Good(k), NEW pid \in Pids, k.task[pid] = "exited", pid \notin Boot,
         NEW d, d = [userspace_release_process(k, pid) EXCEPT !.task[pid] = "unused"]
  PROVE  Good(d)
<1> DEFINE k1 == unmap_surface(k, pid)
           k2 == anonymous_release(k1, pid)
           k3 == large_code_release(k2, pid)
<1>1. d = [[k3 EXCEPT !.used[pid] = FALSE] EXCEPT !.task[pid] = "unused"]
  BY DEF userspace_release_process
<1>2. /\ Good(k1) /\ k1.task = k.task
      /\ \A w \in Windows : k1.spages[pid][w] = 0 /\ k1.at[pid][Window(w)] = 0
  BY SurfacesUnmapped
<1> HIDE DEF k1
<1>3. /\ Good(k2) /\ k2.task = k1.task /\ k2.spages = k1.spages
      /\ k2.count[pid] = 0 /\ k2.reserved[pid] = 0
      /\ \A t \in 0..LastTable : k2.at[pid][Dir(t)] = 0
      /\ \A i \in 0..(AnonMax - 1) : k2.at[pid][Pte(i)] = 0
      /\ \A w \in Windows : k2.at[pid][Window(w)] = k1.at[pid][Window(w)]
  BY <1>2, AnonymousReleased
<1> HIDE DEF k2
<1>4. Sound(k2) /\ Laid(k2, pid)
  BY <1>3 DEF Good
<1>5. \A i \in 1..LargeMax : k2.at[pid][Lpage(i)] # 0 => i <= k2.lcount[pid]
  BY <1>4 DEF Laid, Large
<1>6. Sound(k3) /\ Around(k2, k3, pid) /\ Small(k3, pid)
  BY <1>4, <1>5, LargeReleased
<1> HIDE DEF k3
<1>7. d = Dropped(k3, pid)
  BY <1>1, <1>6, Typed DEF State, Dropped
<1>8. /\ Same(k3, d) /\ d.task[pid] = "unused" /\ ~d.used[pid]
      /\ \A p \in Pids \ {pid} : d.task[p] = k3.task[p] /\ d.used[p] = k3.used[p]
  <2>1. Drops(k3, d, pid)
    BY <1>6, <1>7, DroppedKeeps
  <2> QED BY <2>1 DEF Drops
<1>9. Vacant(d, pid)
  <2>1. \A x \in Place : k3.at[pid][x] = 0
    <3> SUFFICES ASSUME NEW x \in Place PROVE k3.at[pid][x] = 0
      OBVIOUS
    <3>1. \A t \in 0..LastTable : k3.at[pid][Dir(t)] = 0
      BY <1>3, <1>6 DEF Around
    <3>2. \A i \in 0..(AnonMax - 1) : k3.at[pid][Pte(i)] = 0
      BY <1>3, <1>6 DEF Around
    <3>3. \A w \in Windows : k3.at[pid][Window(w)] = 0
      BY <1>2, <1>3, <1>6 DEF Around
    <3> QED BY <1>6, <3>1, <3>2, <3>3, Kinds DEF Small
  <2>2. k3.count[pid] = 0 /\ k3.reserved[pid] = 0 /\ k3.lcount[pid] = 0 /\ ~k3.ldir[pid]
    BY <1>3, <1>6 DEF Around, Small
  <2>3. \A w \in Windows : k3.spages[pid][w] = 0
    BY <1>2, <1>3, <1>6 DEF Around
  <2> QED BY <1>8, <2>1, <2>2, <2>3 DEF Same, Vacant
<1>10. Laid(d, pid)
  <2>1. LargeMax \in Nat /\ \A t \in 0..LastTable : ~(t * Entries < 0)
    BY MemoryAssumption, Multiples
  <2>2. Anonymous(d, pid)
    BY <1>9, <2>1, Placed DEF Vacant, Anonymous
  <2>3. Large(d, pid)
    BY <1>9, <2>1, Placed DEF Vacant, Large
  <2>4. Linked(d, pid)
    BY <1>9, Placed DEF Vacant, Linked
  <2>5. Shows(d, pid)
    BY <1>9 DEF Vacant, Shows
  <2> QED BY <2>2, <2>3, <2>4, <2>5 DEF Laid
<1>11. Agreed(d, pid)
  BY <1>8, <1>9 DEF Agreed
<1>12. Elsewhere(k2, d, pid)
  BY <1>6, <1>8 DEF Elsewhere, Around, Same
<1> QED BY <1>3, <1>8, <1>10, <1>11, <1>12, GoodElsewhere DEF Same

(* A reservation is a counter only.                                        *)
Reserving(k, pid, n) == [k EXCEPT !.reserved[pid] = n]

(* anonymous_reserve keeps the invariant.                                  *)
LEMMA Reserved ==
  ASSUME NEW k, Good(k), NEW pid \in Pids, k.task[pid] = "live", Idle(k, pid),
         NEW n \in 0..AnonMax, NEW d, d = Reserving(k, pid, n)
  PROVE  Good(d)
<1>1. /\ Sound(k) /\ Laid(k, pid) /\ Agreed(k, pid) /\ k \in State /\ k.reserved \in Counts
      /\ [k.reserved EXCEPT ![pid] = n] \in Counts /\ AnonMax \in Nat
  BY MemoryAssumption, Typed DEF Good, Counts
<1>2. d = [k EXCEPT !.reserved = [k.reserved EXCEPT ![pid] = n]]
  BY <1>1 DEF State, Reserving
<1>3. d \in State
  BY <1>1, <1>2 DEF State
<1>4. /\ d.free = k.free /\ d.next = k.next /\ d.at = k.at /\ d.task = k.task
      /\ d.used = k.used /\ d.count = k.count /\ d.lcount = k.lcount /\ d.ldir = k.ldir
      /\ d.spages = k.spages /\ d.reserved = [k.reserved EXCEPT ![pid] = n]
  BY <1>1, <1>2 DEF State
<1>5. Sound(d)
  BY <1>1, <1>3, <1>4 DEF Sound, Conserved
<1>6. d.reserved[pid] = n /\ \A p \in Pids \ {pid} : d.reserved[p] = k.reserved[p]
  BY <1>1, <1>4 DEF Counts
<1>7. Laid(d, pid)
  BY <1>1, <1>4, <1>6 DEF Idle, Laid, Anonymous, Large, Linked, Shows
<1>8. Agreed(d, pid)
  BY <1>1, <1>4 DEF Agreed
<1>9. Elsewhere(k, d, pid)
  BY <1>4, <1>6 DEF Elsewhere
<1> QED BY <1>5, <1>7, <1>8, <1>9, GoodElsewhere

(***************************************************************************)
(* The specification.                                                      *)
(***************************************************************************)
LEMMA InitGood == Init => Good(m)
<1> SUFFICES ASSUME Init PROVE Good(m)
  OBVIOUS
<1>1. /\ Frames \in Nat /\ AnonMax \in Nat /\ LargeMax \in Nat /\ Booted \in 0..Processes
      /\ Processes \in Nat
  BY MemoryAssumption
<1>2. /\ m.free = [f \in Frame |-> 0] /\ m.next = 1
      /\ m.task = [p \in Pids |-> IF p \in Boot THEN "exited" ELSE "unused"]
      /\ m.used = [p \in Pids |-> p \in Boot]
      /\ m.count = [p \in Pids |-> 0] /\ m.reserved = [p \in Pids |-> 0]
      /\ m.at = [p \in Pids |-> [x \in Place |-> 0]]
      /\ m.lcount = [p \in Pids |-> 0] /\ m.ldir = [p \in Pids |-> FALSE]
      /\ m.spages = [p \in Pids |-> [w \in Windows |-> 0]]
  BY DEF Init
<1>3. m \in State
  <2>1. [f \in Frame |-> 0] \in [Frame -> Nat] /\ 1 \in 1..(Frames + 1)
    BY <1>1
  <2>2. [p \in Pids |-> IF p \in Boot THEN "exited" ELSE "unused"] \in Tasks
    BY DEF Tasks
  <2>3. [p \in Pids |-> p \in Boot] \in Flags /\ [p \in Pids |-> FALSE] \in Flags
    BY DEF Flags
  <2>4. [p \in Pids |-> 0] \in Counts /\ [p \in Pids |-> 0] \in Larges
    BY <1>1 DEF Counts, Larges
  <2>5. [p \in Pids |-> [x \in Place |-> 0]] \in Places
    BY <1>1 DEF Places
  <2>6. [p \in Pids |-> [w \in Windows |-> 0]] \in Shown
    BY DEF Shown
  <2> QED BY <2>1, <2>2, <2>3, <2>4, <2>5, <2>6, Zenon DEF Init, State
<1>4. Conserved(m)
  BY <1>1, <1>2 DEF Conserved, Frame
<1>5. ASSUME NEW p \in Pids PROVE Laid(m, p) /\ Agreed(m, p)
  <2>1. Vacant(m, p)
    BY <1>2 DEF Vacant
  <2>2. \A t \in 0..LastTable : ~(t * Entries < 0)
    BY MemoryAssumption, Multiples
  <2>3. Anonymous(m, p)
    BY <2>1, <2>2, Placed DEF Vacant, Anonymous
  <2>4. Large(m, p)
    BY <1>1, <2>1, Placed DEF Vacant, Large
  <2>5. Linked(m, p)
    BY <2>1, Placed DEF Vacant, Linked
  <2>6. Shows(m, p)
    BY <2>1 DEF Vacant, Shows
  <2>7. Agreed(m, p)
    <3>1. m.task[p] = IF p \in Boot THEN "exited" ELSE "unused"
      BY <1>2
    <3>2. m.used[p] <=> p \in Boot
      BY <1>2
    <3> QED BY <2>1, <3>1, <3>2 DEF Agreed
  <2> QED BY <2>3, <2>4, <2>5, <2>6, <2>7 DEF Laid
<1> QED BY <1>3, <1>4, <1>5 DEF Good, Sound

(* The invariant is inductive.                                             *)
LEMMA NextGood ==
  ASSUME Good(m), [Next]_vars
  PROVE  Good(m')
<1>1. CASE UNCHANGED vars
  BY <1>1 DEF vars
<1>2. ASSUME NEW image \in Image, Spawn(image) PROVE Good(m')
  BY <1>2, Spawned DEF Spawn
<1>3. ASSUME NEW pid \in Pids, NEW n \in 1..AnonMax, anonymous_map(pid, n) PROVE Good(m')
  <2> DEFINE r == anonymous_commit_pages(m, pid, 0, n)
  <2>1. /\ m.task[pid] = "live" /\ m.count[pid] = 0 /\ m.reserved[pid] = 0
        /\ m' = IF r.ok THEN r.k ELSE anonymous_release(r.k, pid)
    BY <1>3 DEF anonymous_map, Live, Idle
  <2>2. n \in Nat /\ 0 <= n /\ n <= AnonMax
    BY MemoryAssumption
  <2>3. Good(r.k)
    BY <2>1, <2>2, CommitLoop
  <2> HIDE DEF r
  <2> QED BY <2>1, <2>3, AnonymousReleased
<1>4. ASSUME NEW pid \in Pids, NEW n \in 1..AnonMax, anonymous_reserve(pid, n) PROVE Good(m')
  <2>1. m.task[pid] = "live" /\ Idle(m, pid) /\ m' = Reserving(m, pid, n)
    BY <1>4 DEF anonymous_reserve, Live, Reserving
  <2>2. n \in 0..AnonMax
    BY MemoryAssumption
  <2> QED BY <2>1, <2>2, Reserved
<1>5. ASSUME NEW pid \in Pids, NEW n \in 1..AnonMax, anonymous_commit(pid, n) PROVE Good(m')
  <2> DEFINE c == m.count[pid]
             r == anonymous_commit_pages(m, pid, c, c + n)
  <2>1. /\ m.task[pid] = "live" /\ m.reserved[pid] # 0
        /\ n <= m.reserved[pid] - c /\ m' = r.k
    BY <1>5 DEF anonymous_commit, Live
  <2>2. c \in 0..AnonMax /\ m.reserved[pid] \in 0..AnonMax /\ AnonMax \in Nat
    BY MemoryAssumption, Typed DEF Good, Counts
  <2>3. c + n \in Nat /\ c <= c + n /\ c + n <= AnonMax /\ c + n <= m.reserved[pid]
    BY <2>1, <2>2
  <2>4. Good(r.k)
    BY <2>1, <2>3, CommitLoop
  <2> QED BY <2>1, <2>4
<1>6. ASSUME NEW pid \in Pids, anonymous_unmap(pid) PROVE Good(m')
  BY <1>6, AnonymousReleased DEF anonymous_unmap
<1>7. ASSUME NEW pid \in Pids, Exit(pid) PROVE Good(m')
  <2>1. m.task[pid] = "live" /\ m' = Ended(m, pid, "exited")
    BY <1>7 DEF Exit, Live, Ended
  <2> QED BY <2>1, Exited
<1>8. ASSUME NEW pid \in Pids, Reap(pid) PROVE Good(m')
  <2>1. /\ m.task[pid] = "exited" /\ pid \notin Boot
        /\ m' = [userspace_release_process(m, pid) EXCEPT !.task[pid] = "unused"]
    BY <1>8 DEF Reap
  <2> QED BY <2>1, Reaped
<1>9. ASSUME NEW pid \in Pids, NEW w \in Windows, NEW n \in 1..(WindowPages - 1),
             map_surface_readonly(pid, w, n)
      PROVE  Good(m')
  <2>1. m.task[pid] # "unused" /\ m' = edit_surface_ptes(m, pid, w, n)
    BY <1>9 DEF map_surface_readonly, Live
  <2>2. n \in Nat
    BY MemoryAssumption
  <2> QED BY <2>1, <2>2, PtesEdited
<1>10. ASSUME NEW pid \in Pids, NEW w \in Windows, unmap_surface_id(pid, w) PROVE Good(m')
  <2>1. m.task[pid] # "unused" /\ m' = edit_surface_ptes(m, pid, w, 0)
    BY <1>10 DEF unmap_surface_id, Live
  <2> QED BY <2>1, PtesEdited
<1> QED BY <1>1, <1>2, <1>3, <1>4, <1>5, <1>6, <1>7, <1>8, <1>9, <1>10 DEF Next

(* A frame below next is on the list or has exactly one holder.            *)
LEMMA ConservedFrames == Good(m) => FramesAreConserved
<1> SUFFICES ASSUME Good(m), NEW f \in Frame
             PROVE  m.free[f] + Cardinality(Holders(f)) = IF f < m.next THEN 1 ELSE 0
  BY DEF FramesAreConserved
<1>1. /\ Conserved(m) /\ m.next \in Nat /\ f \in Nat \ {0} /\ f <= Frames
      /\ m.free[f] \in {0, 1}
  BY MemoryAssumption DEF Good, Sound, State, Conserved, Frame
<1>2. \A h \in Pids \X Place : h[1] \in Pids /\ h[2] \in Place /\ h = <<h[1], h[2]>>
  OBVIOUS
<1>3. CASE \E h \in Pids \X Place : h \in Holders(f)
  <2>1. PICK h \in Pids \X Place : h \in Holders(f)
    BY <1>3
  <2>2. h[1] \in Pids /\ h[2] \in Place /\ m.at[h[1]][h[2]] = f
    BY <1>2, <2>1 DEF Holders
  <2>3. f < m.next /\ m.free[f] = 0
    BY <1>1, <2>2 DEF Conserved
  <2>4. ASSUME NEW g \in Holders(f) PROVE g = h
    <3>1. g \in Pids \X Place /\ m.at[g[1]][g[2]] = f
      BY DEF Holders
    <3>2. g[1] \in Pids /\ g[2] \in Place /\ g = <<g[1], g[2]>> /\ h = <<h[1], h[2]>>
      BY <1>2, <3>1
    <3>3. g[1] = h[1] /\ g[2] = h[2]
      BY <1>1, <2>2, <3>1, <3>2 DEF Conserved
    <3> QED BY <3>2, <3>3
  <2>5. Holders(f) = {h}
    BY <2>1, <2>4
  <2>6. Cardinality(Holders(f)) = 1
    BY <2>5, FS_Singleton
  <2> QED BY <2>3, <2>6
<1>4. CASE ~\E h \in Pids \X Place : h \in Holders(f)
  <2>1. Holders(f) = {}
    BY <1>4 DEF Holders
  <2>2. Cardinality(Holders(f)) = 0
    BY <2>1, FS_EmptySet
  <2>3. \A p \in Pids, x \in Place : m.at[p][x] # f
    <3> SUFFICES ASSUME NEW p \in Pids, NEW x \in Place, m.at[p][x] = f PROVE FALSE
      OBVIOUS
    <3>1. <<p, x>> \in Holders(f)
      BY DEF Holders
    <3> QED BY <1>4, <3>1
  <2>4. f < m.next <=> m.free[f] = 1
    BY <1>1, <2>3 DEF Conserved
  <2> QED BY <1>1, <2>2, <2>4
<1> QED BY <1>3, <1>4

(* The invariant has the slot tables in it.                                *)
LEMMA AgreedSlots == Good(m) => SlotTablesAgree
<1> SUFFICES ASSUME Good(m), NEW p \in Pids
             PROVE  /\ m.used[p] <=> m.task[p] # "unused"
                    /\ m.task[p] = "unused" =>
                         /\ Idle(m, p) /\ m.lcount[p] = 0 /\ ~m.ldir[p]
                         /\ \A x \in Place : m.at[p][x] = 0
                         /\ \A w \in Windows : m.spages[p][w] = 0
  BY DEF SlotTablesAgree
<1>1. Agreed(m, p)
  BY DEF Good
<1> QED BY <1>1 DEF Agreed, Vacant, Idle

(* A page below the counters lies in a table that is there.                *)
LEMMA MappedWrites == Good(m) => AcceptedWritesAreMapped
<1> SUFFICES ASSUME Good(m), NEW p \in Pids, NEW b \in Buffers, b.region # "code",
                    user_write_range(m, p, b), NEW page \in 0..AnonMax,
                    page \in b.at..(b.at + b.len - 1)
             PROVE  Backing(m, p, b, page) \in Frame
  BY DEF AcceptedWritesAreMapped
<1>1. /\ Laid(m, p) /\ m.at \in Places /\ m.count[p] \in 0..AnonMax /\ m.lcount[p] \in 0..LargeMax
      /\ AnonMax \in Nat /\ LargeMax \in Nat /\ Frames \in Nat /\ Entries \in Nat \ {0}
      /\ b.at \in Nat /\ b.len \in Nat /\ page \in Nat /\ b.at <= page /\ page < b.at + b.len
  BY MemoryAssumption, Typed DEF Good, Counts, Larges, Buffers
<1>2. \A x \in Place : m.at[p][x] # 0 => m.at[p][x] \in Frame
  BY <1>1 DEF Places, Frame
<1>3. CASE b.region = "anon"
  <2> DEFINE t == page \div Entries
  <2>1. page < m.count[p] /\ page \in 0..(AnonMax - 1)
    BY <1>1, <1>3 DEF user_write_range, anonymous_range, Within
  <2>2. t \in 0..LastTable /\ t * Entries <= page
    BY <2>1, Tables
  <2> HIDE DEF t
  <2>3. t * Entries \in Int /\ LastTable \in Int
    BY <1>1, <2>2 DEF LastTable
  <2>4. t * Entries < m.count[p]
    BY <1>1, <2>1, <2>2, <2>3
  <2>5. m.at[p][Dir(t)] # 0 /\ m.at[p][Pte(page)] # 0 /\ Pte(page) \in Place
    BY <1>1, <2>1, <2>2, <2>4, Placed DEF Laid, Anonymous
  <2>6. Backing(m, p, b, page) = m.at[p][Pte(page)]
    BY <1>3, <2>5 DEF Backing, t
  <2> QED BY <1>2, <2>5, <2>6
<1>4. CASE b.region = "large"
  <2>1. m.lcount[p] # 0 /\ page < m.lcount[p]
    BY <1>1, <1>4 DEF user_write_range, anonymous_range, Within
  <2>2. page + 1 \in 1..LargeMax /\ page + 1 <= m.lcount[p]
    BY <1>1, <2>1
  <2>3. m.ldir[p] /\ m.at[p][Lpage(page + 1)] # 0 /\ Lpage(page + 1) \in Place
    BY <1>1, <2>1, <2>2, Placed DEF Laid, Large, Linked
  <2>4. Backing(m, p, b, page) = m.at[p][Lpage(page + 1)]
    BY <1>4, <2>3 DEF Backing
  <2> QED BY <1>2, <2>3, <2>4
<1> QED BY <1>3, <1>4 DEF Buffers

(* The state keeps its types, and every place of a process has a frame     *)
(* exactly when the counters of the process say so, after any sequence of  *)
(* loads, maps, commits, surface mappings and teardowns that run out of    *)
(* frames wherever they do (userspace.c).                                  *)
THEOREM MemoryIsLaidOut == Spec => []Good(m)
<1>1. Init => Good(m)
  BY InitGood
<1>2. Good(m) /\ [Next]_vars => Good(m)'
  BY NextGood
<1> QED BY <1>1, <1>2, PTL DEF Spec

(* No frame leaks, is freed twice or belongs to two places, for any number *)
(* of processes, frames and pages: anonymous_commit_pages and              *)
(* large_code_load give back what they took when a frame is missing, and   *)
(* userspace_release_process gives back everything.                        *)
THEOREM MemoryConservesFrames == Spec => []FramesAreConserved
BY MemoryIsLaidOut, ConservedFrames, PTL

(* The scheduler's task table and process_memory_used never disagree, for  *)
(* any number of bootstrap and other processes: a spawn that fails in one  *)
(* slot leaves no task there, and a free slot has no memory.               *)
THEOREM MemorySlotsAgree == Spec => []SlotTablesAgree
BY MemoryIsLaidOut, AgreedSlots, PTL

(* A buffer that user_write_range accepts is backed page by page by frames *)
(* of the caller, also after a partial anonymous_commit.                   *)
THEOREM MemoryAcceptsMappedWrites == Spec => []AcceptedWritesAreMapped
BY MemoryIsLaidOut, MappedWrites, PTL

(***************************************************************************)
(* The boot (Boot), for every memory map and every set of intervals that   *)
(* the loader left.                                                        *)
(*                                                                         *)
(* Bumped is what a bump allocator promises: all it gave out lies between  *)
(* where it started, above the loader's intervals, and where it stands.    *)
(* Wired says which page directory serves the registers at each stage.     *)
(***************************************************************************)
CONSTANTS Maps, Intervals, Regions, Modes
VARIABLE boot
Kernel == INSTANCE Boot WITH s <- boot, Reserved <- Intervals

Stage == {"reset", "framebuffer", "network", "ahci", "modules", "irq", "usb", "pools", "surfaces", "ring3", "checks",
          "doom", "doom runs", "desktop", "units", "session", "installer", "shell", "halted"}
Owner == {"tables", "spare", "backbuffer", "nic dma", "ahci dma", "usb dma", "pool 1", "pool 2", "surfaces"}
Directory == {"none", "low", "spare", "frame 0"}
Device == {"framebuffer", "nic", "ahci"}
Program == {"compositor", "demonx", "xterm"}
Given == Owner \X Nat \X Nat
Machine == [at : Stage, hw : Kernel!Machines, map : Maps, reserved : Intervals, mode : Modes, frames : Nat \X Nat,
            own : SUBSET Given, pd : [Regions \cup {0} -> Directory], entries : SUBSET (Directory \X Device),
            ticking : BOOLEAN, running : SUBSET Program, units : Nat, shared : SUBSET (Nat \X Directory)]

(* What was given out lies from start to the allocator's next frame.       *)
Bump(k, start, i) ==
  /\ start \in Nat /\ i \in DOMAIN k.map /\ k.map[i][1] <= start /\ start <= k.frames[1]
  /\ k.frames[1] <= k.frames[2] /\ k.frames[2] = k.map[i][2]
  /\ \A r \in k.reserved : r[2] <= start
  /\ \A o \in k.own : start <= o[2] /\ o[2] <= o[3] /\ o[3] <= k.frames[1]
  /\ \A o, p \in k.own : o = p \/ o[3] <= p[2] \/ p[3] <= o[2]
Bumped(k) == \/ k.own = {} /\ k.frames[1] = 0 /\ k.frames[2] = 0
             \/ \E start, i : Bump(k, start, i)

(* Nothing is given out before the map is read.                            *)
Fresh(k) == k.at = "reset" => k.own = {} /\ k.frames[1] = 0 /\ k.frames[2] = 0
Founded(k) == k \in Machine /\ Bumped(k) /\ Fresh(k)

(* A bound on sets of positions.                                           *)
LEMMA LeastPlace ==
  ASSUME NEW n \in Nat, NEW T, T \subseteq 1..n, T # {}
  PROVE  (CHOOSE i \in T : \A j \in T : i <= j) \in T
<1>1. \E R : IsWellFoundedOn(R, Nat) /\ \A x, y \in Nat : <<x, y>> \in R <=> x < y
  <2> DEFINE Q == OpToRel(<, Nat)
  <2>1. IsWellFoundedOn(Q, Nat)
    BY NatLessThanWellFounded
  <2>2. \A x, y \in Nat : <<x, y>> \in Q <=> x < y
    BY DEF OpToRel
  <2> HIDE DEF Q
  <2> WITNESS Q
  <2> QED BY <2>1, <2>2
<1>2. PICK R : IsWellFoundedOn(R, Nat) /\ \A x, y \in Nat : <<x, y>> \in R <=> x < y
  BY <1>1
<1>3. IsWellFoundedOn(R, Nat) /\ T \subseteq Nat
  BY <1>2
<1>4. \E x \in T : \A y \in T : ~(<<y, x>> \in R)
  BY <1>3, WFMin, Zenon
<1>5. \E x \in T : \A y \in T : x <= y
  <2>1. PICK x \in T : \A y \in T : ~(<<y, x>> \in R)
    BY <1>4
  <2>2. \A y \in T : x \in Nat /\ y \in Nat /\ ~(y < x)
    BY <1>2, <1>3, <2>1
  <2>3. \A y \in T : x <= y
    BY <2>2
  <2> QED BY <2>3
<1> QED BY <1>5, Zenon

(* The loader's intervals end at multiboot_reserved_end.                   *)
LEMMA ReservedEnds ==
  ASSUME Kernel!BootConstants, NEW r \in Intervals, NEW e, e = Kernel!multiboot_reserved_end(r)
  PROVE  e \in Nat /\ \A i \in r : i[2] <= e
<1>1. r \subseteq Nat \X Nat /\ \E x \in {i[2] : i \in r} : \A i \in r : i[2] <= x
  BY DEF Kernel!BootConstants
<1>2. PICK P : P = {i[2] : i \in r}
  OBVIOUS
<1>3. e = CHOOSE x \in P : \A i \in r : i[2] <= x
  BY <1>2 DEF Kernel!multiboot_reserved_end
<1>4. e \in P /\ \A i \in r : i[2] <= e
  BY <1>1, <1>2, <1>3, Zenon
<1>5. P \subseteq Nat
  BY <1>1, <1>2
<1> QED BY <1>4, <1>5

(* The region that report_memory_map finds.                                *)
LEMMA RegionFits ==
  ASSUME Kernel!BootConstants, NEW map \in Maps, NEW floor \in Nat, NEW f, f = Kernel!report_memory_map(map, floor)
  PROVE  \/ f = <<0, 0>>
         \/ \E i \in DOMAIN map : /\ f \in Nat \X Nat /\ map[i][1] <= f[1] /\ floor <= f[1] /\ f[1] <= f[2]
                                  /\ f[2] = map[i][2]
<1>1. map \in Seq(Nat \X Nat)
  BY DEF Kernel!BootConstants
<1>2. PICK n \in Nat : DOMAIN map = 1..n /\ \A i \in 1..n : map[i][1] \in Nat /\ map[i][2] \in Nat
  <2>1. Len(map) \in Nat /\ DOMAIN map = 1..Len(map)
    BY <1>1
  <2>2. \A i \in 1..Len(map) : map[i] \in Nat \X Nat
    BY <1>1
  <2>3. \A i \in 1..Len(map) : map[i][1] \in Nat /\ map[i][2] \in Nat
    BY <2>2
  <2> QED BY <2>1, <2>3
<1>3. PICK I : I = {i \in DOMAIN map : Kernel!Max2(map[i][1], floor) < map[i][2]}
  OBVIOUS
<1>4. PICK i : i = CHOOSE j \in I : \A l \in I : j <= l
  OBVIOUS
<1>5. CASE I = {}
  BY <1>3, <1>5 DEF Kernel!report_memory_map
<1>6. CASE I # {}
  <2>1. i \in I
    BY <1>2, <1>3, <1>4, <1>6, LeastPlace
  <2>2. f = <<Kernel!Max2(map[i][1], floor), map[i][2]>>
    BY <1>3, <1>4, <1>6 DEF Kernel!report_memory_map
  <2>3. PICK a, b : a = Kernel!Max2(map[i][1], floor) /\ b = map[i][2]
    OBVIOUS
  <2>4. a \in Nat /\ b \in Nat /\ a < b /\ map[i][1] <= a /\ floor <= a /\ i \in DOMAIN map
    BY <1>2, <1>3, <2>1, <2>3 DEF Kernel!Max2
  <2>5. f = <<a, b>>
    BY <2>2, <2>3
  <2> QED BY <2>3, <2>4, <2>5
<1> QED BY <1>5, <1>6

(* Other fields change: at, devices, tables, programs.                     *)
Kept(k, d) == d \in Machine /\ d.map = k.map /\ d.reserved = k.reserved /\ d.frames = k.frames /\ d.own = k.own

(* The allocator does not see it.                                          *)
LEMMA KeptBumps ==
  ASSUME NEW k, Bumped(k), NEW d, Kept(k, d)
  PROVE  Bumped(d)
BY DEF Kept, Bumped, Bump

(* A request (allocate_contiguous).                                        *)
Alike(k, d) == d.hw = k.hw /\ d.pd = k.pd /\ d.entries = k.entries /\ d.shared = k.shared
Allocated(k, d) == d \in Machine /\ Bumped(d) /\ Alike(k, d) /\ d.at = k.at /\ d.mode = k.mode

(* It takes frames that nobody has, or none.                               *)
LEMMA AllocateBumps ==
  ASSUME NEW k \in Machine, Bumped(k), NEW who \in Owner, NEW pages \in Nat, pages > 0,
         NEW d, d = Kernel!allocate_contiguous(k, who, pages)
  PROVE  Allocated(k, d)
<1>1. PICK a, b : a \in Nat /\ b \in Nat /\ k.frames = <<a, b>> /\ a = k.frames[1] /\ b = k.frames[2]
  BY DEF Machine
<1>2. CASE a + pages > b
  <2>1. PICK frames : frames = <<b, b>>
    OBVIOUS
  <2>2. [k.frames EXCEPT ![1] = b] = frames
    BY <1>1, <2>1
  <2>3. d = [k EXCEPT !.frames = frames]
    BY <1>1, <1>2, <2>2 DEF Kernel!allocate_contiguous, Machine
  <2>4. frames \in Nat \X Nat /\ frames[1] = b /\ frames[2] = b
    BY <1>1, <2>1
  <2>5. /\ d \in Machine /\ d.at = k.at /\ d.mode = k.mode /\ d.hw = k.hw /\ d.map = k.map /\ d.reserved = k.reserved
        /\ d.pd = k.pd /\ d.entries = k.entries /\ d.shared = k.shared /\ d.frames = frames /\ d.own = k.own
    BY <2>3, <2>4 DEF Machine
  <2>6. CASE k.own = {} /\ k.frames[1] = 0 /\ k.frames[2] = 0
    BY <1>1, <2>4, <2>5, <2>6 DEF Bumped, Allocated, Alike
  <2>7. ASSUME NEW start, NEW i, Bump(k, start, i) PROVE Bump(d, start, i)
    <3>1. \A o \in k.own : o[3] \in Nat
      BY DEF Machine, Given
    <3> QED BY <1>1, <2>4, <2>5, <2>7, <3>1 DEF Bump
  <2> QED BY <2>5, <2>6, <2>7 DEF Bumped, Allocated, Alike
<1>3. CASE a + pages <= b
  <2>1. PICK c \in Nat : c = a + pages
    BY <1>1
  <2>2. PICK frames, new, own : frames = <<c, b>> /\ new = <<who, a, c>> /\ own = k.own \cup {new}
    OBVIOUS
  <2>3. [k.frames EXCEPT ![1] = @ + pages] = frames
    BY <1>1, <2>1, <2>2
  <2>4. d = [k EXCEPT !.frames = frames, !.own = own]
    <3>1. ~(k.frames[1] + pages > k.frames[2])
      BY <1>1, <1>3
    <3>2. d = [k EXCEPT !.frames[1] = @ + pages, !.own = @ \cup {<<who, k.frames[1], k.frames[1] + pages>>}]
      BY <3>1, Zenon DEF Kernel!allocate_contiguous
    <3> QED BY <1>1, <2>1, <2>2, <2>3, <3>2 DEF Machine
  <2>5. /\ frames \in Nat \X Nat /\ frames[1] = c /\ frames[2] = b /\ own \in SUBSET Given
        /\ new[2] = a /\ new[3] = c
    BY <1>1, <2>1, <2>2 DEF Given, Machine
  <2>6. /\ d \in Machine /\ d.at = k.at /\ d.mode = k.mode /\ d.hw = k.hw /\ d.map = k.map /\ d.reserved = k.reserved
        /\ d.pd = k.pd /\ d.entries = k.entries /\ d.shared = k.shared /\ d.frames = frames /\ d.own = own
    BY <2>4, <2>5 DEF Machine
  <2>7. ASSUME NEW start, NEW i, Bump(k, start, i) PROVE Bump(d, start, i)
    <3>1. \A o \in k.own : o[2] \in Nat /\ o[3] \in Nat
      BY DEF Machine, Given
    <3>2. \A o \in k.own : start <= o[2] /\ o[2] <= o[3] /\ o[3] <= a
      BY <1>1, <2>7 DEF Bump
    <3>3. start \in Nat /\ start <= a
      BY <1>1, <2>7 DEF Bump
    <3>4. \A o \in own : start <= o[2] /\ o[2] <= o[3] /\ o[3] <= c
      BY <1>1, <2>1, <2>2, <2>5, <3>1, <3>2, <3>3
    <3>5. \A o, p \in own : o = p \/ o[3] <= p[2] \/ p[3] <= o[2]
      BY <2>2, <2>5, <2>7, <3>2 DEF Bump
    <3> QED BY <1>1, <1>3, <2>1, <2>5, <2>6, <2>7, <3>4, <3>5 DEF Bump
  <2>8. ~(k.own = {} /\ k.frames[1] = 0 /\ k.frames[2] = 0)
    BY <1>1, <1>3
  <2> QED BY <2>6, <2>7, <2>8 DEF Bumped, Allocated, Alike
<1> QED BY <1>1, <1>2, <1>3

(* A stage ends: the boot goes on or halts (boot_fatal).                   *)
LEMMA StageEnds ==
  ASSUME NEW k \in Machine, Bumped(k), NEW then \in Stage, then # "reset", NEW ok,
         NEW d, d = Kernel!boot_fatal(k, ok, then) \/ d = [k EXCEPT !.at = then]
  PROVE  /\ Founded(d) /\ (d.at = then \/ d.at = "halted") /\ d.hw = k.hw /\ d.pd = k.pd /\ d.entries = k.entries
         /\ d.shared = k.shared
<1>1. PICK at \in Stage : at # "reset" /\ (at = then \/ at = "halted") /\ d = [k EXCEPT !.at = at]
  <2>1. PICK halted \in Stage : halted = "halted" /\ halted # "reset"
    BY DEF Stage
  <2>2. d = [k EXCEPT !.at = then] \/ d = [k EXCEPT !.at = halted]
    BY <2>1, Zenon DEF Kernel!boot_fatal, Kernel!Fatal
  <2> QED BY <2>1, <2>2
<1>2. /\ Kept(k, d) /\ d.at = at /\ d.hw = k.hw /\ d.pd = k.pd /\ d.entries = k.entries /\ d.shared = k.shared
  BY <1>1 DEF Machine, Kept
<1>3. Bumped(d)
  BY <1>2, KeptBumps
<1> QED BY <1>1, <1>2, <1>3 DEF Founded, Fresh, Kept

(* A device's registers are entered (UseTable, Enter).                     *)
Region == Regions \cup {0}
Entered(k, gib, fresh, dev, d) ==
  /\ Kept(k, d) /\ d.at = k.at /\ d.hw = k.hw /\ d.shared = k.shared
  /\ \/ (gib = 0 \/ ~fresh) /\ d.pd = k.pd /\ d.entries = k.entries \cup {<<k.pd[gib], dev>>}
     \/ \E t \in {"spare", "frame 0"} :
          /\ gib # 0 /\ fresh /\ d.pd = [k.pd EXCEPT ![gib] = t]
          /\ d.entries = {e \in k.entries : e[1] # t} \cup {<<t, dev>>}

(* What that changes.                                                      *)
LEMMA EnterKeeps ==
  ASSUME NEW k \in Machine, NEW gib \in Region, NEW fresh \in BOOLEAN, NEW dev \in Device,
         NEW d, d = Kernel!Enter(Kernel!UseTable(k, gib, fresh), gib, dev)
  PROVE  Entered(k, gib, fresh, dev, d)
<1>1. k.pd \in [Region -> Directory] /\ k.entries \subseteq Directory \X Device
  BY DEF Machine, Region
<1>2. CASE gib = 0 \/ ~fresh
  <2>1. PICK entries : entries = k.entries \cup {<<k.pd[gib], dev>>}
    OBVIOUS
  <2>2. entries \in SUBSET (Directory \X Device)
    BY <1>1, <2>1
  <2>3. d = [k EXCEPT !.entries = entries]
    BY <1>2, <2>1 DEF Kernel!Enter, Kernel!UseTable, Machine
  <2>4. Kept(k, d) /\ d.at = k.at /\ d.hw = k.hw /\ d.shared = k.shared /\ d.pd = k.pd /\ d.entries = entries
    BY <2>2, <2>3 DEF Machine, Kept
  <2> QED BY <1>2, <2>1, <2>4 DEF Entered
<1>3. CASE ~(gib = 0 \/ ~fresh)
  <2>1. PICK t : t = Kernel!Spare(k)
    OBVIOUS
  <2>2. t \in {"spare", "frame 0"} /\ t \in Directory
    BY <2>1 DEF Kernel!Spare, Directory
  <2>3. PICK pd, old, entries : /\ pd = [k.pd EXCEPT ![gib] = t] /\ old = {e \in k.entries : e[1] # t}
                                /\ entries = old \cup {<<t, dev>>}
    OBVIOUS
  <2>4. /\ pd \in [Regions \cup {0} -> Directory] /\ pd[gib] = t
        /\ entries \in SUBSET (Directory \X Device) /\ old \in SUBSET (Directory \X Device)
    <3>1. pd \in [Region -> Directory] /\ pd[gib] = t
      BY <1>1, <2>2, <2>3
    <3>2. old \in SUBSET (Directory \X Device) /\ <<t, dev>> \in Directory \X Device
      BY <1>1, <2>2, <2>3
    <3> QED BY <2>3, <3>1, <3>2 DEF Region
  <2>5. PICK c : c = Kernel!UseTable(k, gib, fresh)
    OBVIOUS
  <2>6. c = [k EXCEPT !.pd = pd, !.entries = old]
    <3>1. c = [k EXCEPT !.pd[gib] = t, !.entries = {e \in @ : e[1] # t}]
      BY <1>3, <2>1, <2>5, Zenon DEF Kernel!UseTable
    <3> QED BY <2>3, <3>1 DEF Machine
  <2>7. c \in Machine /\ c.pd = pd /\ c.entries = old /\ Kept(k, c) /\ c.at = k.at /\ c.hw = k.hw /\ c.shared = k.shared
    BY <2>4, <2>6 DEF Machine, Kept
  <2>8. d = [c EXCEPT !.entries = entries]
    BY <2>3, <2>4, <2>5, <2>7 DEF Kernel!Enter
  <2>9. /\ Kept(k, d) /\ d.at = k.at /\ d.hw = k.hw /\ d.shared = k.shared /\ d.pd = pd /\ d.entries = entries
    BY <2>4, <2>7, <2>8 DEF Machine, Kept
  <2> QED BY <1>3, <2>2, <2>3, <2>9 DEF Entered
<1> QED BY <1>2, <1>3

(* Which stages come after the screen, the card and the processes' tables. *)
ScreenUp(at) == at \notin {"reset", "framebuffer", "halted"}
CardUp(at) == at \notin {"reset", "framebuffer", "network", "halted"}
TablesUp(at) == at \in {"surfaces", "ring3", "checks", "doom", "doom runs", "desktop", "units", "session", "installer", "shell"}
Directories(k) == k.pd[0] = "low" /\ \A e \in k.entries : e[1] # "none"
Wired(k) ==
  /\ Directories(k)
  /\ ScreenUp(k.at) /\ k.hw.framebuffer # Kernel!None => <<k.pd[k.hw.framebuffer], "framebuffer">> \in k.entries
  /\ CardUp(k.at) /\ k.hw.nic # Kernel!None => <<k.pd[k.hw.nic], "nic">> \in k.entries
  /\ TablesUp(k.at) /\ k.hw.framebuffer # Kernel!None => k.shared = {<<k.hw.framebuffer, k.pd[k.hw.framebuffer]>>}

(* What was mapped stays mapped, as all high registers share a region.     *)
LEMMA EnterMaps ==
  ASSUME Kernel!OneRegion, NEW k \in Machine, Directories(k), NEW gib \in Region, NEW dev \in Device,
         NEW d, d = Kernel!map_mmio_identity_2m(k, gib, dev)
  PROVE  /\ Directories(d) /\ <<d.pd[gib], dev>> \in d.entries
         /\ \A h \in Region : \A x : <<k.pd[h], x>> \in k.entries => <<d.pd[h], x>> \in d.entries
<1>1. PICK fresh \in BOOLEAN : fresh = (k.pd[gib] = "none")
  OBVIOUS
<1>2. d = Kernel!Enter(Kernel!UseTable(k, gib, fresh), gib, dev)
  BY <1>1 DEF Kernel!map_mmio_identity_2m
<1>3. k.pd \in [Region -> Directory] /\ 0 \in Region /\ k.pd[0] = "low" /\ \A e \in k.entries : e[1] # "none"
  BY DEF Machine, Region, Directories
<1>4. CASE (gib = 0 \/ ~fresh) /\ d.pd = k.pd /\ d.entries = k.entries \cup {<<k.pd[gib], dev>>}
  <2>1. k.pd[gib] # "none"
    BY <1>1, <1>3, <1>4
  <2>2. \A e \in d.entries : e[1] # "none"
    BY <1>3, <1>4, <2>1
  <2> QED BY <1>3, <1>4, <2>2 DEF Directories
<1>5. ASSUME NEW t \in {"spare", "frame 0"}, gib # 0, fresh, d.pd = [k.pd EXCEPT ![gib] = t],
             d.entries = {e \in k.entries : e[1] # t} \cup {<<t, dev>>}
      PROVE  /\ Directories(d) /\ <<d.pd[gib], dev>> \in d.entries
             /\ \A h \in Region : \A x : <<k.pd[h], x>> \in k.entries => <<d.pd[h], x>> \in d.entries
  <2>1. d.pd[gib] = t /\ d.pd[0] = "low"
    BY <1>3, <1>5
  <2>2. Directories(d) /\ <<d.pd[gib], dev>> \in d.entries
    <3>1. t # "none"
      OBVIOUS
    <3>2. \A e \in d.entries : e[1] # "none"
      <4>1. ASSUME NEW e \in d.entries PROVE e[1] # "none"
        <5>1. e \in k.entries \/ e = <<t, dev>>
          BY <1>5
        <5>2. <<t, dev>>[1] # "none"
          BY <3>1
        <5> QED BY <1>3, <5>1, <5>2
      <4> QED BY <4>1
    <3> QED BY <1>5, <2>1, <3>2 DEF Directories
  <2>3. ASSUME NEW h \in Region, NEW x, <<k.pd[h], x>> \in k.entries PROVE <<d.pd[h], x>> \in d.entries
    <3>1. k.pd[h] # "none"
      BY <1>3, <2>3
    <3>2. h # gib
      BY <1>1, <1>5, <3>1
    <3>3. h = 0
      BY <1>5, <3>2 DEF Region, Kernel!OneRegion
    <3>4. k.pd[h] = "low" /\ d.pd[h] = "low"
      BY <1>3, <2>1, <3>3
    <3> QED BY <1>5, <2>3, <3>4
  <2> QED BY <2>2, <2>3
<1>6. Entered(k, gib, fresh, dev, d)
  BY <1>2, EnterKeeps, Zenon
<1> QED BY <1>4, <1>5, <1>6, Zenon DEF Entered

(* What a stage may do to the rest, apart from the allocator.              *)
Onward(a, b) == (ScreenUp(b) => ScreenUp(a)) /\ (CardUp(b) => CardUp(a)) /\ (TablesUp(b) => TablesUp(a))

(* A stage that touches no table.                                          *)
LEMMA SameWires ==
  ASSUME NEW k, Wired(k), NEW d, Alike(k, d), Onward(k.at, d.at)
  PROVE  Wired(d)
BY DEF Wired, Alike, Onward, Directories

(* The devices of a machine.                                               *)
LEMMA MachineDevices ==
  ASSUME Kernel!BootConstants, NEW k \in Machine
  PROVE  /\ k.hw.framebuffer # Kernel!None => k.hw.framebuffer \in Region /\ k.hw.framebuffer \in Nat
         /\ k.hw.nic # Kernel!None => k.hw.nic \in Region
         /\ k.hw.ahci # Kernel!None => k.hw.ahci \in Region
BY DEF Machine, Kernel!Machines, Region, Kernel!BootConstants

(* kernel_main reads the map and takes the first frames.                   *)
LEMMA MainSound ==
  ASSUME Kernel!BootConstants, Founded(boot), Kernel!kernel_main
  PROVE  Founded(boot') /\ Alike(boot, boot') /\ Onward(boot.at, boot'.at)
<1>1. boot \in Machine /\ boot.at = "reset" /\ boot.own = {} /\ boot.map \in Maps /\ boot.reserved \in Intervals
  BY DEF Founded, Fresh, Machine, Kernel!kernel_main, Kernel!At
<1>2. PICK floor, f : floor = Kernel!multiboot_reserved_end(boot.reserved) /\ f = Kernel!report_memory_map(boot.map, floor)
  OBVIOUS
<1>3. floor \in Nat /\ \A i \in boot.reserved : i[2] <= floor
  BY <1>1, <1>2, ReservedEnds
<1>4. \/ f = <<0, 0>>
      \/ \E i \in DOMAIN boot.map : /\ f \in Nat \X Nat /\ boot.map[i][1] <= f[1] /\ floor <= f[1] /\ f[1] <= f[2]
                                    /\ f[2] = boot.map[i][2]
  BY <1>1, <1>2, <1>3, RegionFits
<1>5. PICK k : k = [boot EXCEPT !.frames = f]
  OBVIOUS
<1>6. f \in Nat \X Nat
  BY <1>4
<1>7. /\ k \in Machine /\ k.own = {} /\ k.frames = f /\ k.map = boot.map /\ k.reserved = boot.reserved
      /\ Alike(boot, k) /\ k.at = boot.at
  BY <1>1, <1>5, <1>6 DEF Machine, Alike
<1>8. Bumped(k)
  <2>1. CASE f = <<0, 0>>
    BY <1>7, <2>1 DEF Bumped
  <2>2. ASSUME NEW i \in DOMAIN boot.map, boot.map[i][1] <= f[1], floor <= f[1], f[1] <= f[2], f[2] = boot.map[i][2]
        PROVE  Bump(k, f[1], i)
    <3>1. boot.reserved \subseteq Nat \X Nat /\ f[1] \in Nat
      BY <1>1, <1>6 DEF Kernel!BootConstants
    <3>2. \A r \in boot.reserved : r[2] <= f[1]
      BY <1>3, <2>2, <3>1
    <3> QED BY <1>7, <2>2, <3>1, <3>2 DEF Bump
  <2> QED BY <1>4, <2>1, <2>2 DEF Bumped
<1>9. PICK one, two \in Nat : one = 1 /\ two = 2 /\ one > 0 /\ two > 0
  OBVIOUS
<1>10. "tables" \in Owner /\ "spare" \in Owner /\ "backbuffer" \in Owner
  BY DEF Owner
<1>11. PICK a, b, c : /\ a = Kernel!allocate_contiguous(k, "tables", two) /\ b = Kernel!allocate_contiguous(a, "spare", one)
                      /\ c = Kernel!allocate_contiguous(b, "backbuffer", two)
  OBVIOUS
<1>12. Allocated(k, a)
  BY <1>7, <1>8, <1>9, <1>10, <1>11, AllocateBumps, Zenon
<1>13. Allocated(a, b)
  <2>1. a \in Machine /\ Bumped(a)
    BY <1>12 DEF Allocated
  <2> QED BY <1>9, <1>10, <1>11, <2>1, AllocateBumps, Zenon
<1>14. Allocated(b, c)
  <2>1. b \in Machine /\ Bumped(b)
    BY <1>13 DEF Allocated
  <2> QED BY <1>9, <1>10, <1>11, <2>1, AllocateBumps, Zenon
<1>15. PICK e, ok : e \in Machine /\ Bumped(e) /\ Alike(boot, e) /\ boot' = Kernel!boot_fatal(e, ok, "framebuffer")
  <2>1. PICK e, ok : boot' = Kernel!boot_fatal(e, ok, "framebuffer") /\ (e = a \/ e = c)
    BY <1>2, <1>5, <1>9, <1>11, Zenon DEF Kernel!kernel_main
  <2>2. e \in Machine /\ Bumped(e)
    BY <2>1, <1>12, <1>14 DEF Allocated
  <2>3. Alike(boot, e)
    BY <2>1, <1>7, <1>12, <1>13, <1>14 DEF Alike, Allocated
  <2> QED BY <2>1, <2>2, <2>3
<1>16. PICK next \in Stage : next = "framebuffer" /\ next # "reset"
  BY DEF Stage
<1>17. Founded(boot') /\ (boot'.at = next \/ boot'.at = "halted") /\ Alike(e, boot')
  BY <1>15, <1>16, StageEnds DEF Alike
<1>18. Onward(boot.at, boot'.at)
  BY <1>16, <1>17 DEF Onward, ScreenUp, CardUp, TablesUp
<1> QED BY <1>15, <1>17, <1>18 DEF Alike

(* One request, then the stage ends.                                       *)
Finished(k, d, then) == Founded(d) /\ Alike(k, d) /\ (d.at = then \/ d.at = "halted")
LEMMA StageAllocates ==
  ASSUME NEW k \in Machine, Bumped(k), NEW who \in Owner, NEW pages \in Nat, pages > 0, NEW then \in Stage, then # "reset",
         NEW e, e = k \/ e = Kernel!allocate_contiguous(k, who, pages), NEW ok,
         NEW d, d = Kernel!boot_fatal(e, ok, then) \/ d = [e EXCEPT !.at = then]
  PROVE  Finished(k, d, then)
<1>1. e \in Machine /\ Bumped(e) /\ Alike(k, e)
  <2>1. CASE e = k
    BY <2>1 DEF Alike
  <2>2. CASE e = Kernel!allocate_contiguous(k, who, pages)
    <3>1. Allocated(k, e)
      BY <2>2, AllocateBumps, Zenon
    <3> QED BY <3>1 DEF Allocated
  <2> QED BY <2>1, <2>2
<1>2. Founded(d) /\ Alike(e, d) /\ (d.at = then \/ d.at = "halted")
  BY <1>1, StageEnds DEF Alike
<1> QED BY <1>1, <1>2 DEF Alike, Finished

(* The screen is mapped (Framebuffer).                                     *)
LEMMA ScreenSound ==
  ASSUME Kernel!BootConstants, Founded(boot), Kernel!Framebuffer
  PROVE  Founded(boot') /\ (Wired(boot) => Wired(boot'))
<1>1. boot \in Machine /\ Bumped(boot) /\ boot.at = "framebuffer"
  BY DEF Founded, Kernel!Framebuffer, Kernel!At
<1>2. PICK next \in Stage : next = "network" /\ next # "reset"
  BY DEF Stage
<1>3. CASE boot.hw.framebuffer = Kernel!None
  <2>1. boot' = [boot EXCEPT !.at = next]
    BY <1>2, <1>3 DEF Kernel!Framebuffer
  <2>2. Founded(boot') /\ Alike(boot, boot') /\ (boot'.at = next \/ boot'.at = "halted")
    BY <1>1, <1>2, <2>1, StageEnds DEF Alike
  <2>3. Wired(boot) => Wired(boot')
    BY <1>2, <1>3, <2>2 DEF Wired, Alike, Directories, ScreenUp, CardUp, TablesUp
  <2> QED BY <2>2, <2>3
<1>4. CASE boot.hw.framebuffer # Kernel!None
  <2>1. PICK gib \in Region : gib = boot.hw.framebuffer
    BY <1>1, <1>4, MachineDevices
  <2>2. PICK fresh \in BOOLEAN : fresh = TRUE
    OBVIOUS
  <2>3. PICK dev \in Device : dev = "framebuffer"
    BY DEF Device
  <2>4. PICK k : k = Kernel!Enter(Kernel!UseTable(boot, gib, fresh), gib, dev)
    OBVIOUS
  <2>5. PICK ok : boot' = Kernel!boot_fatal(k, ok, next)
    BY <1>2, <1>4, <2>1, <2>2, <2>3, <2>4 DEF Kernel!Framebuffer, Kernel!framebuffer_enable
  <2>6. Entered(boot, gib, fresh, dev, k)
    BY <1>1, <2>4, EnterKeeps, Zenon
  <2>7. k \in Machine /\ Bumped(k) /\ k.hw = boot.hw
    BY <1>1, <2>6, KeptBumps DEF Entered, Kept
  <2>8. Founded(boot') /\ Alike(k, boot') /\ (boot'.at = next \/ boot'.at = "halted")
    BY <1>2, <2>5, <2>7, StageEnds DEF Alike
  <2>9. ASSUME Directories(boot) PROVE Directories(k) /\ <<k.pd[gib], dev>> \in k.entries
    <3>1. boot.pd \in [Region -> Directory] /\ 0 \in Region /\ boot.pd[0] = "low" /\ \A e \in boot.entries : e[1] # "none"
      BY <1>1, <2>9 DEF Machine, Region, Directories
    <3>2. CASE gib = 0 /\ k.pd = boot.pd /\ k.entries = boot.entries \cup {<<boot.pd[gib], dev>>}
      <4>1. \A e \in k.entries : e[1] # "none"
        BY <3>1, <3>2
      <4> QED BY <3>1, <3>2, <4>1 DEF Directories
    <3>3. ASSUME NEW t \in {"spare", "frame 0"}, gib # 0, k.pd = [boot.pd EXCEPT ![gib] = t],
                 k.entries = {e \in boot.entries : e[1] # t} \cup {<<t, dev>>}
          PROVE  Directories(k) /\ <<k.pd[gib], dev>> \in k.entries
      <4>1. k.pd[gib] = t /\ k.pd[0] = "low"
        BY <3>1, <3>3
      <4>2. ASSUME NEW e \in k.entries PROVE e[1] # "none"
        <5>1. e \in boot.entries \/ e = <<t, dev>>
          BY <3>3
        <5>2. <<t, dev>>[1] # "none"
          OBVIOUS
        <5> QED BY <3>1, <5>1, <5>2
      <4> QED BY <3>3, <4>1, <4>2 DEF Directories
    <3> QED BY <2>2, <2>6, <3>2, <3>3, Zenon DEF Entered
  <2>10. Wired(boot) => Wired(boot')
    <3>1. SUFFICES ASSUME Wired(boot) PROVE Wired(boot')
      OBVIOUS
    <3>2. Directories(k) /\ <<k.pd[gib], dev>> \in k.entries
      BY <2>9, <3>1 DEF Wired
    <3> QED BY <1>2, <2>1, <2>3, <2>7, <2>8, <3>2 DEF Wired, Alike, Directories, ScreenUp, CardUp, TablesUp
  <2> QED BY <2>8, <2>10
<1> QED BY <1>3, <1>4

(* A controller's registers are mapped and its buffers taken (Ethernet,    *)
(* Ahci).                                                                  *)
LEMMA DeviceSound ==
  ASSUME Kernel!BootConstants, Founded(boot), Kernel!Ethernet \/ Kernel!Ahci
  PROVE  Founded(boot') /\ (Kernel!OneRegion /\ Wired(boot) => Wired(boot'))
<1>1. boot \in Machine /\ Bumped(boot)
  BY DEF Founded
<1>2. PICK two \in Nat : two = 2 /\ two > 0
  OBVIOUS
<1>3. ASSUME NEW dev \in Device, NEW who \in Owner, NEW next \in Stage, next # "reset", NEW gib \in Region, NEW k, NEW e, NEW ok,
             k = Kernel!map_mmio_identity_2m(boot, gib, dev), e = k \/ e = Kernel!allocate_contiguous(k, who, two),
             boot' = Kernel!boot_fatal(e, ok, next) \/ boot' = [e EXCEPT !.at = next],
             ScreenUp(next) => ScreenUp(boot.at), ~TablesUp(next),
             CardUp(next) => CardUp(boot.at) \/ (dev = "nic" /\ gib = boot.hw.nic)
      PROVE  Founded(boot') /\ (Kernel!OneRegion /\ Wired(boot) => Wired(boot'))
  <2>1. PICK fresh \in BOOLEAN : fresh = (boot.pd[gib] = "none")
    OBVIOUS
  <2>2. k = Kernel!Enter(Kernel!UseTable(boot, gib, fresh), gib, dev)
    BY <1>3, <2>1 DEF Kernel!map_mmio_identity_2m
  <2>3. Entered(boot, gib, fresh, dev, k)
    BY <1>1, <2>2, EnterKeeps, Zenon
  <2>4. k \in Machine /\ Bumped(k) /\ k.hw = boot.hw
    BY <1>1, <2>3, KeptBumps DEF Entered, Kept
  <2>5. Founded(boot') /\ Alike(k, boot') /\ (boot'.at = next \/ boot'.at = "halted")
    <3>1. Finished(k, boot', next)
      BY <1>2, <1>3, <2>4, StageAllocates
    <3> QED BY <3>1 DEF Finished
  <2>6. ASSUME Kernel!OneRegion, Wired(boot) PROVE Wired(boot')
    <3>1. /\ Directories(k) /\ <<k.pd[gib], dev>> \in k.entries
          /\ \A h \in Region : \A x : <<boot.pd[h], x>> \in boot.entries => <<k.pd[h], x>> \in k.entries
      <4>1. Directories(boot)
        BY <2>6 DEF Wired
      <4> QED BY <1>1, <1>3, <2>6, <4>1, EnterMaps
    <3>2. PICK screen, card, none : screen = boot.hw.framebuffer /\ card = boot.hw.nic /\ none = Kernel!None
      OBVIOUS
    <3>3. (screen # none => screen \in Region) /\ (card # none => card \in Region)
      BY <1>1, <3>2, MachineDevices
    <3>4. ScreenUp(next) /\ screen # none => <<k.pd[screen], "framebuffer">> \in k.entries
      BY <1>3, <2>6, <3>1, <3>2, <3>3 DEF Wired
    <3>5. CardUp(next) /\ card # none => <<k.pd[card], "nic">> \in k.entries
      BY <1>3, <2>6, <3>1, <3>2, <3>3 DEF Wired
    <3>6. ~ScreenUp("halted") /\ ~CardUp("halted") /\ ~TablesUp("halted")
      BY DEF ScreenUp, CardUp, TablesUp
    <3> QED BY <1>3, <2>4, <2>5, <3>1, <3>2, <3>4, <3>5, <3>6 DEF Wired, Alike, Directories
  <2> QED BY <2>5, <2>6
<1>4. ASSUME NEW next \in Stage, next # "reset", boot' = [boot EXCEPT !.at = next], ~TablesUp(next),
             (ScreenUp(next) => ScreenUp(boot.at)), CardUp(next) => CardUp(boot.at) \/ boot.hw.nic = Kernel!None
      PROVE  Founded(boot') /\ (Wired(boot) => Wired(boot'))
  <2>1. Founded(boot') /\ Alike(boot, boot') /\ (boot'.at = next \/ boot'.at = "halted")
    BY <1>1, <1>4, StageEnds DEF Alike
  <2>2. ~ScreenUp("halted") /\ ~CardUp("halted") /\ ~TablesUp("halted")
    BY DEF ScreenUp, CardUp, TablesUp
  <2>3. Wired(boot) => Wired(boot')
    BY <1>4, <2>1, <2>2 DEF Wired, Alike, Directories
  <2> QED BY <2>1, <2>3
<1>5. CASE Kernel!Ethernet
  <2>1. boot.at = "network"
    BY <1>5 DEF Kernel!Ethernet, Kernel!At
  <2>2. PICK next \in Stage : next = "ahci" /\ next # "reset"
    BY DEF Stage
  <2>3. ~TablesUp(next) /\ ScreenUp(boot.at)
    BY <2>1, <2>2 DEF TablesUp, ScreenUp
  <2>4. PICK dev, who : dev = "nic" /\ who = "nic dma" /\ dev \in Device /\ who \in Owner
    BY DEF Device, Owner
  <2>5. CASE boot.hw.nic = Kernel!None
    <3>1. boot' = [boot EXCEPT !.at = next]
      BY <1>5, <2>2, <2>5 DEF Kernel!Ethernet
    <3> QED BY <1>4, <2>2, <2>3, <2>5, <3>1
  <2>6. CASE boot.hw.nic # Kernel!None
    <3>1. PICK gib \in Region : gib = boot.hw.nic
      BY <1>1, <2>6, MachineDevices
    <3>2. PICK k, e : k = Kernel!map_mmio_identity_2m(boot, gib, dev) /\ e = Kernel!allocate_contiguous(k, who, two)
      OBVIOUS
    <3>3. PICK ok : boot' = Kernel!boot_fatal(e, ok, next)
      BY <1>2, <1>5, <2>2, <2>4, <2>6, <3>1, <3>2 DEF Kernel!Ethernet
    <3> QED BY <1>3, <2>2, <2>3, <2>4, <3>1, <3>2, <3>3
  <2> QED BY <2>5, <2>6
<1>6. CASE Kernel!Ahci
  <2>1. boot.at = "ahci"
    BY <1>6 DEF Kernel!Ahci, Kernel!At
  <2>2. PICK next \in Stage : next = "modules" /\ next # "reset"
    BY DEF Stage
  <2>3. ~TablesUp(next) /\ ScreenUp(boot.at) /\ CardUp(boot.at)
    BY <2>1, <2>2 DEF TablesUp, ScreenUp, CardUp
  <2>4. PICK dev, who : dev = "ahci" /\ who = "ahci dma" /\ dev \in Device /\ who \in Owner
    BY DEF Device, Owner
  <2>5. CASE boot.hw.ahci = Kernel!None
    <3>1. boot' = [boot EXCEPT !.at = next]
      BY <1>6, <2>2, <2>5 DEF Kernel!Ahci
    <3> QED BY <1>4, <2>2, <2>3, <3>1
  <2>6. CASE boot.hw.ahci # Kernel!None
    <3>1. PICK gib \in Region : gib = boot.hw.ahci
      BY <1>1, <2>6, MachineDevices
    <3>2. PICK k : k = Kernel!map_mmio_identity_2m(boot, gib, dev)
      OBVIOUS
    <3>3. PICK e : (e = k \/ e = Kernel!allocate_contiguous(k, who, two)) /\ boot' = [e EXCEPT !.at = next]
      BY <1>2, <1>6, <2>2, <2>4, <2>6, <3>1, <3>2 DEF Kernel!Ahci
    <3> QED BY <1>3, <2>2, <2>3, <2>4, <3>1, <3>2, <3>3
  <2> QED BY <2>5, <2>6
<1> QED BY <1>5, <1>6

(* Fields that neither the allocator nor the tables read.                  *)
Noted(k, d) == d \in Machine /\ Kept(k, d) /\ Alike(k, d) /\ d.at = k.at

(* A stage that only notes something and goes on.                          *)
LEMMA NotedGoesOn ==
  ASSUME Founded(boot), NEW k, Noted(boot, k), NEW then \in Stage, then # "reset", NEW ok,
         boot' = Kernel!boot_fatal(k, ok, then) \/ boot' = [k EXCEPT !.at = then],
         Onward(boot.at, then)
  PROVE  Founded(boot') /\ (Wired(boot) => Wired(boot'))
<1>1. k \in Machine /\ Bumped(k)
  BY KeptBumps DEF Noted, Founded
<1>2. Founded(boot') /\ Alike(k, boot') /\ (boot'.at = then \/ boot'.at = "halted")
  BY <1>1, StageEnds DEF Alike
<1>3. Alike(boot, boot')
  BY <1>2 DEF Noted, Alike
<1>4. Onward(boot.at, "halted")
  BY DEF Onward, ScreenUp, CardUp, TablesUp
<1>5. Onward(boot.at, boot'.at)
  BY <1>2, <1>4
<1>6. Wired(boot) => Wired(boot')
  BY <1>3, <1>5, SameWires
<1> QED BY <1>2, <1>6

(* A stage notes nothing.                                                  *)
LEMMA NothingNoted ==
  ASSUME Founded(boot)
  PROVE  Noted(boot, boot)
BY DEF Founded, Noted, Kept, Alike

(* The stages without frames or tables, one after the other.               *)
LEMMA PlainStages ==
  ASSUME Founded(boot),
         \/ Kernel!install_multiboot_projects \/ Kernel!interrupts_hardware_start \/ Kernel!Ring3 \/ Kernel!SpawnChecks
         \/ Kernel!DoomFull \/ Kernel!Desktop \/ Kernel!Units \/ Kernel!desktop_session_loop
  PROVE  Founded(boot') /\ (Wired(boot) => Wired(boot'))
<1>1. boot \in Machine /\ Noted(boot, boot)
  BY NothingNoted DEF Founded
<1>2. CASE Kernel!install_multiboot_projects
  <2>1. PICK next \in Stage : next = "irq" /\ next # "reset"
    BY DEF Stage
  <2>2. Onward(boot.at, next)
    BY <1>2, <2>1 DEF Kernel!install_multiboot_projects, Kernel!At, Onward, ScreenUp, CardUp, TablesUp
  <2>3. PICK ok : boot' = Kernel!boot_fatal(boot, ok, next)
    BY <1>2, <2>1 DEF Kernel!install_multiboot_projects
  <2> QED BY <1>1, <2>1, <2>2, <2>3, NotedGoesOn
<1>3. CASE Kernel!interrupts_hardware_start
  <2>1. PICK next \in Stage : next = "usb" /\ next # "reset"
    BY DEF Stage
  <2>2. Onward(boot.at, next)
    BY <1>3, <2>1 DEF Kernel!interrupts_hardware_start, Kernel!At, Onward, ScreenUp, CardUp, TablesUp
  <2>3. PICK ok \in BOOLEAN : boot' = Kernel!boot_fatal([boot EXCEPT !.ticking = ok], ok, next)
    BY <1>3, <2>1 DEF Kernel!interrupts_hardware_start
  <2>4. PICK k : k = [boot EXCEPT !.ticking = ok]
    OBVIOUS
  <2>5. Noted(boot, k)
    BY <1>1, <2>4 DEF Noted, Kept, Alike, Machine
  <2> QED BY <2>1, <2>2, <2>3, <2>4, <2>5, NotedGoesOn
<1>4. CASE Kernel!Ring3
  <2>1. PICK next \in Stage : next = "checks" /\ next # "reset"
    BY DEF Stage
  <2>2. Onward(boot.at, next)
    BY <1>4, <2>1 DEF Kernel!Ring3, Kernel!At, Onward, ScreenUp, CardUp, TablesUp
  <2>3. PICK ok : boot' = Kernel!boot_fatal(boot, ok, next)
    BY <1>4, <2>1 DEF Kernel!Ring3
  <2> QED BY <1>1, <2>1, <2>2, <2>3, NotedGoesOn
<1>5. CASE Kernel!SpawnChecks
  <2>1. PICK next \in Stage : next = "doom" /\ next # "reset"
    BY DEF Stage
  <2>2. Onward(boot.at, next)
    BY <1>5, <2>1 DEF Kernel!SpawnChecks, Kernel!At, Onward, ScreenUp, CardUp, TablesUp
  <2>3. PICK ok : boot' = Kernel!boot_fatal(boot, ok, next)
    BY <1>5, <2>1 DEF Kernel!SpawnChecks
  <2> QED BY <1>1, <2>1, <2>2, <2>3, NotedGoesOn
<1>6. CASE Kernel!DoomFull
  <2>1. PICK next, ok : /\ next = "desktop" \/ next = "doom runs"
                        /\ boot' = Kernel!boot_fatal(boot, ok, next) \/ boot' = [boot EXCEPT !.at = next]
    BY <1>6, Zenon DEF Kernel!DoomFull
  <2>2. next \in Stage /\ next # "reset"
    BY <2>1 DEF Stage
  <2>3. Onward(boot.at, next)
    BY <1>6, <2>1 DEF Kernel!DoomFull, Kernel!At, Onward, ScreenUp, CardUp, TablesUp
  <2> QED BY <1>1, <2>1, <2>2, <2>3, NotedGoesOn
<1>7. CASE Kernel!Desktop
  <2>1. Onward(boot.at, "units") /\ Onward(boot.at, "session")
    BY <1>7 DEF Kernel!Desktop, Kernel!At, Onward, ScreenUp, CardUp, TablesUp
  <2>2. PICK running, k : /\ running = {"compositor", "demonx"} \cup (IF "boottest" \in boot.mode THEN {} ELSE {"xterm"})
                          /\ k = [boot EXCEPT !.running = running]
    OBVIOUS
  <2>3. running \in SUBSET Program
    BY <2>2 DEF Program
  <2>4. Noted(boot, k)
    BY <1>1, <2>2, <2>3 DEF Noted, Kept, Alike, Machine
  <2>5. PICK next, ok : /\ next = "units" \/ next = "session"
                        /\ \/ boot' = [boot EXCEPT !.at = next] \/ boot' = Kernel!boot_fatal(k, ok, next)
    BY <1>7, <2>2, Zenon DEF Kernel!Desktop
  <2>6. next \in Stage /\ next # "reset" /\ Onward(boot.at, next)
    BY <2>1, <2>5 DEF Stage
  <2> QED BY <1>1, <2>4, <2>5, <2>6, NotedGoesOn
<1>8. CASE Kernel!Units
  <2>1. Onward(boot.at, "installer") /\ Onward(boot.at, "shell")
    BY <1>8 DEF Kernel!Units, Kernel!At, Onward, ScreenUp, CardUp, TablesUp
  <2>2. PICK units \in Nat : units = IF "compositor" \in boot.running THEN 10 ELSE 8
    OBVIOUS
  <2>3. PICK k : k = [boot EXCEPT !.units = units]
    OBVIOUS
  <2>4. Noted(boot, k)
    BY <1>1, <2>3 DEF Noted, Kept, Alike, Machine
  <2>5. PICK next, ok : (next = "installer" \/ next = "shell") /\ boot' = Kernel!boot_fatal(k, ok, next)
    BY <1>8, <2>2, <2>3, Zenon DEF Kernel!Units
  <2>6. next \in Stage /\ next # "reset" /\ Onward(boot.at, next)
    BY <2>1, <2>5 DEF Stage
  <2> QED BY <2>4, <2>5, <2>6, NotedGoesOn
<1>9. CASE Kernel!desktop_session_loop
  <2>1. boot.at = "session"
    BY <1>9 DEF Kernel!desktop_session_loop, Kernel!At
  <2>2. ASSUME NEW p, NEW k, k = [boot EXCEPT !.running = @ \ {p}] PROVE Noted(boot, k)
    <3>1. PICK running : running = boot.running \ {p}
      OBVIOUS
    <3>2. running \in SUBSET Program
      BY <1>1, <3>1 DEF Machine
    <3>3. k = [boot EXCEPT !.running = running]
      BY <1>1, <2>2, <3>1 DEF Machine
    <3> QED BY <1>1, <3>2, <3>3 DEF Noted, Kept, Alike, Machine
  <2>3. CASE boot' = Kernel!Fatal([boot EXCEPT !.running = @ \ {"compositor"}])
    <3>1. PICK k : k = [boot EXCEPT !.running = @ \ {"compositor"}]
      OBVIOUS
    <3>2. PICK next \in Stage : next = "halted" /\ next # "reset"
      BY DEF Stage
    <3>3. boot' = [k EXCEPT !.at = next]
      BY <2>3, <3>1, <3>2 DEF Kernel!Fatal
    <3>4. Onward(boot.at, next)
      BY <3>2 DEF Onward, ScreenUp, CardUp, TablesUp
    <3>5. Noted(boot, k)
      BY <2>2, <3>1
    <3> QED BY <3>2, <3>3, <3>4, <3>5, NotedGoesOn
  <2>4. ASSUME NEW p, boot' = [boot EXCEPT !.running = @ \ {p}] PROVE Founded(boot') /\ (Wired(boot) => Wired(boot'))
    <3>1. Noted(boot, boot')
      BY <2>2, <2>4
    <3>2. Bumped(boot')
      BY <3>1, KeptBumps DEF Noted, Founded
    <3>3. Founded(boot')
      BY <2>1, <3>1, <3>2 DEF Noted, Founded, Fresh
    <3>4. Onward(boot.at, boot'.at) /\ Alike(boot, boot')
      BY <3>1 DEF Noted, Onward
    <3> QED BY <3>3, <3>4, SameWires
  <2> QED BY <1>9, <2>3, <2>4 DEF Kernel!desktop_session_loop
<1> QED BY <1>2, <1>3, <1>4, <1>5, <1>6, <1>7, <1>8, <1>9

(* The stages that only take frames: the tablet's, the surfaces'.          *)
LEMMA FrameStages ==
  ASSUME Founded(boot), Kernel!Usb \/ Kernel!Surfaces
  PROVE  Founded(boot') /\ (Wired(boot) => Wired(boot'))
<1>1. boot \in Machine /\ Bumped(boot)
  BY DEF Founded
<1>2. ASSUME NEW next \in Stage, next # "reset", Finished(boot, boot', next), Onward(boot.at, next)
      PROVE  Founded(boot') /\ (Wired(boot) => Wired(boot'))
  <2>1. Onward(boot.at, "halted")
    BY DEF Onward, ScreenUp, CardUp, TablesUp
  <2> QED BY <1>2, <2>1, SameWires DEF Finished
<1>3. CASE Kernel!Usb
  <2>1. PICK next, who, one : /\ next = "pools" /\ who = "usb dma" /\ one = 1 /\ one \in Nat /\ one > 0
                              /\ next \in Stage /\ next # "reset" /\ who \in Owner
    <3>1. "pools" \in Stage /\ "usb dma" \in Owner /\ 1 \in Nat /\ 1 > 0 /\ "pools" # "reset"
      BY DEF Stage, Owner
    <3> QED BY <3>1, Zenon
  <2>2. Onward(boot.at, next)
    BY <1>3, <2>1 DEF Kernel!Usb, Kernel!At, Onward, ScreenUp, CardUp, TablesUp
  <2>3. PICK e : (e = boot \/ e = Kernel!allocate_contiguous(boot, who, one)) /\ boot' = [e EXCEPT !.at = next]
    BY <1>3, <2>1, Zenon DEF Kernel!Usb
  <2>4. Finished(boot, boot', next)
    BY <1>1, <2>1, <2>3, StageAllocates
  <2> QED BY <1>2, <2>1, <2>2, <2>4
<1>4. CASE Kernel!Surfaces
  <2>1. PICK next, who, two : /\ next = "ring3" /\ who = "surfaces" /\ two = 2 /\ two \in Nat /\ two > 0
                              /\ next \in Stage /\ next # "reset" /\ who \in Owner
    <3>1. "ring3" \in Stage /\ "surfaces" \in Owner /\ 2 \in Nat /\ 2 > 0 /\ "ring3" # "reset"
      BY DEF Stage, Owner
    <3> QED BY <3>1, Zenon
  <2>2. Onward(boot.at, next)
    BY <1>4, <2>1 DEF Kernel!Surfaces, Kernel!At, Onward, ScreenUp, CardUp, TablesUp
  <2>3. PICK e, ok : e = Kernel!allocate_contiguous(boot, who, two) /\ boot' = Kernel!boot_fatal(e, ok, next)
    BY <1>4, <2>1, Zenon DEF Kernel!Surfaces
  <2>4. Finished(boot, boot', next)
    BY <1>1, <2>1, <2>3, StageAllocates
  <2> QED BY <1>2, <2>1, <2>2, <2>4
<1> QED BY <1>3, <1>4

(* The pools, and the processes' copy of the entry for the screen.         *)
LEMMA PoolSound ==
  ASSUME Kernel!BootConstants, Founded(boot), Kernel!allocate_process_memory
  PROVE  Founded(boot') /\ (Wired(boot) => Wired(boot'))
<1>1. boot \in Machine /\ Bumped(boot) /\ boot.at = "pools"
  BY DEF Founded, Kernel!allocate_process_memory, Kernel!At
<1>2. PICK next, first, second, two : /\ next = "surfaces" /\ first = "pool 1" /\ second = "pool 2"
                                      /\ two = 2 /\ two \in Nat /\ two > 0
                                      /\ next \in Stage /\ next # "reset" /\ first \in Owner /\ second \in Owner
  <2>1. "surfaces" \in Stage /\ "pool 1" \in Owner /\ "pool 2" \in Owner /\ 2 \in Nat /\ 2 > 0 /\ "surfaces" # "reset"
    BY DEF Stage, Owner
  <2> QED BY <2>1, Zenon
<1>3. PICK a, k : a = Kernel!allocate_contiguous(boot, first, two) /\ k = Kernel!allocate_contiguous(a, second, two)
  OBVIOUS
<1>4. Allocated(boot, a)
  BY <1>1, <1>2, <1>3, AllocateBumps, Zenon
<1>5. Allocated(a, k)
  <2>1. a \in Machine /\ Bumped(a)
    BY <1>4 DEF Allocated
  <2> QED BY <1>2, <1>3, <2>1, AllocateBumps, Zenon
<1>6. k \in Machine /\ Bumped(k) /\ Alike(boot, k) /\ k.at = boot.at
  BY <1>4, <1>5 DEF Allocated, Alike
<1>7. PICK shared : shared = {<<g, boot.pd[g]>> : g \in {boot.hw.framebuffer} \ {Kernel!None}}
  OBVIOUS
<1>8. /\ boot.hw.framebuffer = Kernel!None => shared = {}
      /\ boot.hw.framebuffer # Kernel!None =>
           /\ shared = {<<boot.hw.framebuffer, boot.pd[boot.hw.framebuffer]>>}
           /\ boot.hw.framebuffer \in Region /\ boot.hw.framebuffer \in Nat
  BY <1>1, <1>7, MachineDevices
<1>9. shared \in SUBSET (Nat \X Directory)
  <2>1. boot.pd \in [Region -> Directory]
    BY <1>1 DEF Machine, Region
  <2> QED BY <1>8, <2>1
<1>10. PICK e, ok : e = [k EXCEPT !.shared = shared] /\ boot' = Kernel!boot_fatal(e, ok, next)
  BY <1>2, <1>3, <1>7, Zenon DEF Kernel!allocate_process_memory
<1>11. Kept(k, e) /\ e.shared = shared /\ e.hw = boot.hw /\ e.pd = boot.pd /\ e.entries = boot.entries
  BY <1>6, <1>9, <1>10 DEF Machine, Kept, Alike
<1>12. e \in Machine /\ Bumped(e)
  BY <1>6, <1>11, KeptBumps DEF Kept
<1>13. Founded(boot') /\ Alike(e, boot') /\ (boot'.at = next \/ boot'.at = "halted")
  <2>1. Finished(e, boot', next)
    BY <1>2, <1>10, <1>12, StageAllocates
  <2> QED BY <2>1 DEF Finished
<1>14. ~ScreenUp("halted") /\ ~CardUp("halted") /\ ~TablesUp("halted") /\ ScreenUp(boot.at) /\ CardUp(boot.at)
  BY <1>1 DEF ScreenUp, CardUp, TablesUp
<1>15. Wired(boot) => Wired(boot')
  BY <1>8, <1>11, <1>13, <1>14 DEF Wired, Alike, Directories
<1> QED BY <1>13, <1>15

(* Every stage.                                                            *)
LEMMA BootSteps ==
  ASSUME Kernel!BootConstants, Founded(boot), [Kernel!Next]_boot
  PROVE  Founded(boot') /\ (Kernel!OneRegion /\ Wired(boot) => Wired(boot'))
<1>1. CASE Kernel!kernel_main
  BY <1>1, MainSound, SameWires
<1>2. CASE Kernel!Framebuffer
  BY <1>2, ScreenSound
<1>3. CASE Kernel!Ethernet \/ Kernel!Ahci
  BY <1>3, DeviceSound
<1>4. CASE Kernel!Usb \/ Kernel!Surfaces
  BY <1>4, FrameStages
<1>5. CASE Kernel!allocate_process_memory
  BY <1>5, PoolSound
<1>6. CASE \/ Kernel!install_multiboot_projects \/ Kernel!interrupts_hardware_start \/ Kernel!Ring3 \/ Kernel!SpawnChecks
           \/ Kernel!DoomFull \/ Kernel!Desktop \/ Kernel!Units \/ Kernel!desktop_session_loop
  BY <1>6, PlainStages
<1>7. CASE UNCHANGED boot
  BY <1>7
<1> QED BY <1>1, <1>2, <1>3, <1>4, <1>5, <1>6, <1>7 DEF Kernel!Next

(* The boot loader hands over.                                             *)
LEMMA BootStarts ==
  ASSUME Kernel!BootConstants, Kernel!Init
  PROVE  Founded(boot) /\ Wired(boot)
<1>1. PICK hw \in Kernel!Machines, map \in Maps, res \in Intervals, mode \in Modes :
        boot = [at |-> "reset", hw |-> hw, map |-> map, reserved |-> res, mode |-> mode,
                frames |-> <<0, 0>>, own |-> {}, pd |-> [g \in Regions \cup {0} |-> IF g = 0 THEN "low" ELSE "none"],
                entries |-> {}, ticking |-> FALSE, running |-> {}, units |-> 0, shared |-> {}]
  BY DEF Kernel!Init
<1>2. PICK pd, frames, zero : pd = [g \in Regions \cup {0} |-> IF g = 0 THEN "low" ELSE "none"] /\ frames = <<0, 0>> /\ zero = 0
  OBVIOUS
<1>3. pd \in [Regions \cup {0} -> Directory] /\ pd[0] = "low" /\ frames \in Nat \X Nat /\ frames[1] = 0 /\ frames[2] = 0 /\ zero \in Nat
  BY <1>2 DEF Directory
<1>4. boot = [at |-> "reset", hw |-> hw, map |-> map, reserved |-> res, mode |-> mode, frames |-> frames, own |-> {}, pd |-> pd,
              entries |-> {}, ticking |-> FALSE, running |-> {}, units |-> zero, shared |-> {}]
  BY <1>1, <1>2
<1>5. "reset" \in Stage
  BY DEF Stage
<1>6. boot \in Machine /\ boot.at = "reset" /\ boot.own = {} /\ boot.frames = frames /\ boot.pd = pd /\ boot.entries = {}
  BY <1>3, <1>4, <1>5 DEF Machine
<1>7. Founded(boot)
  BY <1>3, <1>6 DEF Founded, Bumped, Fresh
<1>8. Wired(boot)
  BY <1>3, <1>6 DEF Wired, Directories, ScreenUp, CardUp, TablesUp
<1> QED BY <1>7, <1>8

(* The boot gives no frame out twice, none that holds what the loader left *)
(* and none outside the usable memory, whatever the map (kernel_main,      *)
(* report_memory_map, allocate_contiguous, multiboot_reserved_end).        *)
THEOREM BootGivesFramesOnce ==
  ASSUME Kernel!BootConstants
  PROVE  Kernel!Spec => []Kernel!FramesAreGivenOnce
<1>1. Kernel!Init => Founded(boot)
  BY BootStarts
<1>2. Founded(boot) /\ [Kernel!Next]_boot => Founded(boot)'
  <2>1. ASSUME Founded(boot), [Kernel!Next]_boot PROVE Founded(boot')
    BY <2>1, BootSteps
  <2> QED BY <2>1 DEF Founded, Bumped, Fresh, Bump
<1>3. Founded(boot) => Kernel!FramesAreGivenOnce
  <2> SUFFICES ASSUME Founded(boot) PROVE Kernel!FramesAreGivenOnce
    OBVIOUS
  <2>1. boot \in Machine /\ Bumped(boot)
    BY DEF Founded
  <2>2. CASE boot.own = {}
    BY <2>2 DEF Kernel!FramesAreGivenOnce
  <2>3. ASSUME NEW start, NEW i, Bump(boot, start, i) PROVE Kernel!FramesAreGivenOnce
    <3>1. boot.map \in Seq(Nat \X Nat) /\ boot.reserved \subseteq Nat \X Nat
      BY <2>1 DEF Machine, Kernel!BootConstants
    <3>2. i \in DOMAIN boot.map /\ boot.map[i][1] \in Nat /\ boot.map[i][2] \in Nat /\ boot.frames[1] \in Nat /\ boot.frames[2] \in Nat
      BY <2>1, <2>3, <3>1 DEF Bump, Machine
    <3>3. \A o \in boot.own : o[2] \in Nat /\ o[3] \in Nat
      BY <2>1 DEF Machine, Given
    <3>4. \A o \in boot.own : boot.map[i][1] <= o[2] /\ o[3] <= boot.map[i][2]
      BY <2>3, <3>2, <3>3 DEF Bump
    <3>5. \A o \in boot.own, r \in boot.reserved : r[2] <= o[2]
      BY <2>3, <3>1, <3>3 DEF Bump
    <3>6. \A o, p \in boot.own : o = p \/ o[3] <= p[2] \/ p[3] <= o[2]
      BY <2>3 DEF Bump
    <3> QED BY <3>2, <3>4, <3>5, <3>6 DEF Kernel!FramesAreGivenOnce
  <2> QED BY <2>1, <2>2, <2>3 DEF Bumped
<1> QED BY <1>1, <1>2, <1>3, PTL DEF Kernel!Spec

(* Registers stay mapped once they are and the processes have the table of *)
(* the screen, on a machine whose registers above the first GiB are all in *)
(* one (framebuffer_enable, map_mmio_identity_2m,                          *)
(* allocate_process_memory).                                               *)
THEOREM BootKeepsDevicesMapped ==
  ASSUME Kernel!BootConstants, Kernel!OneRegion
  PROVE  Kernel!Spec => []Kernel!DevicesStayMapped
<1>1. Kernel!Init => Founded(boot) /\ Wired(boot)
  BY BootStarts
<1>2. Founded(boot) /\ Wired(boot) /\ [Kernel!Next]_boot => (Founded(boot) /\ Wired(boot))'
  <2>1. ASSUME Founded(boot), Wired(boot), [Kernel!Next]_boot PROVE Founded(boot') /\ Wired(boot')
    BY <2>1, BootSteps
  <2> QED BY <2>1 DEF Founded, Bumped, Fresh, Bump, Wired, Directories
<1>3. Founded(boot) /\ Wired(boot) => Kernel!DevicesStayMapped
  BY DEF Wired, ScreenUp, CardUp, TablesUp, Kernel!DevicesStayMapped, Kernel!Mapped
<1> QED BY <1>1, <1>2, <1>3, PTL DEF Kernel!Spec

(***************************************************************************)
(* The network stack (Network), for every set of hosts and servers, size   *)
(* of the address cache, cut of a response, and number of requests and     *)
(* retries.                                                                *)
(*                                                                         *)
(* The net keeps every frame, so what an old one may do is a matter of     *)
(* what the slots are compared with.  Requested says what is known of the  *)
(* frames and slots in any phase, Phased what the phase adds: up to the    *)
(* route it is the boot's own request that waits, a lease is acknowledged  *)
(* only after it was asked for, and a name and a connection that are used  *)
(* are those of the present request.                                       *)
(***************************************************************************)
CONSTANTS Hosts, Gateway, Servers, ARP_CACHE_LIMIT, HTTP_RETRY_LIMIT, REQUESTS, Segments, HEADER, STREAM, LIMIT
VARIABLE stack
Net == INSTANCE Network WITH s <- stack

Id == Hosts \cup Servers \cup Nat \cup {Net!None}
Message == [kind : {"offer", "ack", "arp", "dns", "syn", "data"}, id : Id, first : Nat, last : Nat]
Buffer == [conn : Id, first : Nat, next : Nat]
Waits == {"discover", "request", "arp", "dns", "syn", "data", "idle", "halted"}
Cells == 1..ARP_CACHE_LIMIT
Stack == [phase : Waits, n : Nat, tries : Nat, net : SUBSET Message, ip : Id, route : {Net!None, Gateway},
          arp : [Cells -> Id], replace : Cells, arp_entries : Nat, offer : Id, asked : Id, ack : Id, dns : Id, addr : Id,
          syn : Id, conn : Id, data : Buffer, fin : Id, doc : [asked : Id, conn : Id, first : Nat, next : Nat]]

(* The cache counts its entries, and has a host once.                      *)
Full(a) == {i \in Cells : a[i] # Net!None}
Cached(a, n) == n = Cardinality(Full(a)) /\ \A i, j \in Cells : i # j => a[i] = Net!None \/ a[i] # a[j]

Requested(k) ==
  /\ k.ack \in {Net!None, k.asked} /\ k.ip \in {Net!None, k.asked}
  /\ \A msg \in k.net : (msg.kind = "ack" => msg.id = k.asked) /\ (msg.kind = "arp" => msg.id \in Hosts)
  /\ k.doc.conn = k.doc.asked /\ k.doc.first = 1
  /\ Cached(k.arp, k.arp_entries)
Phased(k) ==
  /\ k.phase \in {"discover", "request", "arp"} => k.n = 0
  /\ k.phase = "discover" => k.ack = Net!None /\ k.ip = Net!None /\ \A msg \in k.net : msg.kind # "ack"
  /\ k.phase \in {"syn", "data"} => k.addr = k.n
  /\ k.phase = "data" => k.conn = k.n
Answering(k) == k \in Stack /\ Requested(k) /\ Phased(k)

(* The instance counts a set as FiniteSets does.                           *)
LEMMA NetCardinality == \A S : Net!Cardinality(S) = Cardinality(S)
BY DEF Net!Cardinality, Cardinality

(* A frame arrives: what it can change in the slots, apart from the cache. *)
Heard(k, d) ==
  /\ d \in Stack /\ d.phase = k.phase /\ d.n = k.n /\ d.net = k.net /\ d.ip = k.ip /\ d.route = k.route
  /\ d.asked = k.asked /\ d.addr = k.addr /\ d.conn = k.conn /\ d.doc = k.doc
HeardSlots(k, d) == Heard(k, d) /\ d.arp = k.arp /\ d.arp_entries = k.arp_entries

(* Such a frame keeps what is known, if the acknowledged lease stays.      *)
LEMMA HeardKeeps ==
  ASSUME NEW k, Answering(k), NEW d, Heard(k, d), Cached(d.arp, d.arp_entries), d.ack = k.ack
  PROVE  Answering(d)
<1>1. Requested(k) /\ Phased(k) /\ d \in Stack
  BY DEF Answering, Heard
<1>2. Requested(d)
  BY <1>1 DEF Requested, Heard
<1>3. Phased(d)
  BY <1>1 DEF Phased, Heard
<1> QED BY <1>1, <1>2, <1>3 DEF Answering

(* An address goes into the cache (learn_arp).                             *)
LEMMA LearnKeeps ==
  ASSUME Net!NetworkConstants, NEW k, Answering(k), NEW host \in Hosts, NEW d, d = Net!learn_arp(k, host)
  PROVE  Answering(d)
<1>1. k \in Stack /\ Cached(k.arp, k.arp_entries)
  BY DEF Answering, Requested
<1>2. CASE \E i \in Cells : k.arp[i] = host
  <2>1. d = k
    BY <1>2, Zenon DEF Net!learn_arp, Cells
  <2> QED BY <2>1
<1>3. CASE ~\E i \in Cells : k.arp[i] = host
  <2>1. PICK a, r, none, b, n : /\ a = k.arp /\ r = k.replace /\ none = Net!None /\ b = [a EXCEPT ![r] = host]
                                /\ n = IF a[r] = none THEN k.arp_entries + 1 ELSE k.arp_entries
    OBVIOUS
  <2>2. PICK r1 : r1 = (k.replace % ARP_CACHE_LIMIT) + 1
    OBVIOUS
  <2>3. /\ a \in [Cells -> Id] /\ r \in Cells /\ k.arp_entries \in Nat /\ n \in Nat
    BY <1>1, <2>1 DEF Stack
  <2>4. host # none /\ host \in Id /\ none \in Id
    BY <2>1 DEF Net!NetworkConstants, Id
  <2>5. r1 \in Cells
    <3>1. PICK L \in Nat : L = ARP_CACHE_LIMIT /\ L # 0
      BY DEF Net!NetworkConstants
    <3>2. r \in 1..L
      BY <2>3, <3>1 DEF Cells
    <3>3. r % L \in 0..L - 1
      BY <3>1, <3>2
    <3>4. r1 \in 1..L
      BY <2>1, <2>2, <3>1, <3>3
    <3> QED BY <3>1, <3>4 DEF Cells
  <2>6. b \in [Cells -> Id] /\ b[r] = host /\ \A i \in Cells : i # r => b[i] = a[i]
    BY <2>1, <2>3, <2>4
  <2>7. d = [k EXCEPT !.arp = b, !.replace = r1, !.arp_entries = n]
    <3>1. d = [k EXCEPT !.arp[k.replace] = host, !.replace = (k.replace % ARP_CACHE_LIMIT) + 1,
                        !.arp_entries = IF k.arp[k.replace] = Net!None THEN @ + 1 ELSE @]
      BY <1>3, Zenon DEF Net!learn_arp, Cells
    <3>2. d = [k EXCEPT !.arp = [k.arp EXCEPT ![k.replace] = host], !.replace = r1,
                        !.arp_entries = IF k.arp[k.replace] = Net!None THEN k.arp_entries + 1 ELSE k.arp_entries]
      BY <1>1, <2>2, <3>1 DEF Stack
    <3> QED BY <2>1, <3>2, Zenon
  <2>8. Heard(k, d) /\ d.arp = b /\ d.arp_entries = n /\ d.ack = k.ack
    <3>1. PICK k1, k2 : k1 = [k EXCEPT !.arp = b] /\ k2 = [k1 EXCEPT !.replace = r1]
      OBVIOUS
    <3>2. Heard(k, k1) /\ k1.arp = b /\ k1.ack = k.ack
      BY <1>1, <2>6, <3>1 DEF Stack, Heard
    <3>3. Heard(k1, k2) /\ k2.arp = b /\ k2.ack = k1.ack
      <4>1. k1 \in Stack /\ k2 = [k1 EXCEPT !.replace = r1]
        BY <3>1, <3>2 DEF Heard
      <4>2. k2 \in Stack
        BY <2>5, <4>1 DEF Stack
      <4>3. /\ k2.phase = k1.phase /\ k2.n = k1.n /\ k2.net = k1.net /\ k2.ip = k1.ip /\ k2.route = k1.route
            /\ k2.asked = k1.asked
        BY <4>1 DEF Stack
      <4>4. k2.addr = k1.addr /\ k2.conn = k1.conn /\ k2.doc = k1.doc /\ k2.arp = k1.arp /\ k2.ack = k1.ack
        BY <4>1 DEF Stack
      <4> QED BY <3>2, <4>2, <4>3, <4>4, Zenon DEF Heard
    <3>4. d = [k2 EXCEPT !.arp_entries = n]
      BY <2>7, <3>1, <3>2, <1>1 DEF Stack
    <3>5. Heard(k2, d) /\ d.arp = b /\ d.arp_entries = n /\ d.ack = k2.ack
      BY <2>3, <3>3, <3>4 DEF Stack, Heard
    <3> QED BY <3>2, <3>3, <3>5 DEF Heard
  <2>9. Full(b) = Full(a) \cup {r}
    BY <2>1, <2>3, <2>4, <2>6 DEF Full
  <2>10. IsFiniteSet(Full(a)) /\ Cardinality(Full(a)) \in Nat
    <3>1. ARP_CACHE_LIMIT \in Nat
      BY DEF Net!NetworkConstants
    <3>2. IsFiniteSet(Cells)
      BY <3>1, FS_Interval DEF Cells
    <3>3. Full(a) \subseteq Cells
      BY DEF Full
    <3> QED BY <3>2, <3>3, FS_Subset, FS_CardinalityType
  <2>11. n = Cardinality(Full(b))
    <3>1. CASE a[r] = none
      <4>1. r \notin Full(a)
        BY <2>1, <3>1 DEF Full
      <4>2. Cardinality(Full(a) \cup {r}) = Cardinality(Full(a)) + 1
        BY <2>10, <4>1, FS_AddElement
      <4> QED BY <1>1, <2>1, <2>9, <3>1, <4>2 DEF Cached
    <3>2. CASE a[r] # none
      <4>1. Full(b) = Full(a)
        BY <2>1, <2>3, <2>9, <3>2 DEF Full
      <4> QED BY <1>1, <2>1, <3>2, <4>1 DEF Cached
    <3> QED BY <3>1, <3>2
  <2>12. ASSUME NEW i \in Cells, NEW j \in Cells, i # j PROVE b[i] = none \/ b[i] # b[j]
    <3>1. \A l \in Cells : a[l] # host
      BY <1>3, <2>1
    <3>2. a[i] = none \/ a[i] # a[j]
      BY <1>1, <2>1, <2>12, Zenon DEF Cached
    <3> QED BY <2>4, <2>6, <2>12, <3>1, <3>2
  <2>13. Cached(d.arp, d.arp_entries)
    BY <2>1, <2>8, <2>11, <2>12 DEF Cached
  <2> QED BY <2>8, <2>13, HeardKeeps
<1> QED BY <1>2, <1>3

(* An answer goes into its slot (receive_dhcp, receive_dns, receive_tcp).  *)
LEMMA ReceiveKeeps ==
  ASSUME Net!NetworkConstants, NEW k, Answering(k), NEW msg \in k.net, NEW d, d = Net!network_receive_ethernet(k, msg)
  PROVE  Answering(d)
<1>1. k \in Stack /\ Requested(k) /\ Phased(k) /\ Cached(k.arp, k.arp_entries)
  BY DEF Answering, Requested
<1>2. msg \in Message /\ msg.id \in Id /\ msg.first \in Nat /\ msg.last \in Nat
  BY <1>1 DEF Stack, Message
<1>3. msg.kind \in {"offer", "ack", "arp", "dns", "syn", "data"}
  BY <1>2 DEF Message
<1>4. ASSUME HeardSlots(k, d), d.ack = k.ack PROVE Answering(d)
  BY <1>1, <1>4, HeardKeeps DEF HeardSlots
<1>5. CASE msg.kind = "arp"
  <2>1. msg.id \in Hosts
    BY <1>1, <1>5 DEF Requested
  <2>2. d = Net!learn_arp(k, msg.id)
    BY <1>5, Zenon DEF Net!network_receive_ethernet
  <2> QED BY <2>1, <2>2, LearnKeeps
<1>6. CASE msg.kind = "offer"
  <2>1. d = [k EXCEPT !.offer = msg.id]
    BY <1>6 DEF Net!network_receive_ethernet, Net!receive_dhcp
  <2>2. HeardSlots(k, d) /\ d.ack = k.ack
    BY <1>1, <1>2, <2>1 DEF Stack, HeardSlots, Heard
  <2> QED BY <1>4, <2>2
<1>7. CASE msg.kind = "ack"
  <2>1. d = [k EXCEPT !.ack = msg.id]
    BY <1>7 DEF Net!network_receive_ethernet, Net!receive_dhcp
  <2>2. HeardSlots(k, d) /\ d.ack = msg.id
    BY <1>1, <1>2, <2>1 DEF Stack, HeardSlots, Heard
  <2>3. msg.id = k.asked /\ k.phase # "discover"
    BY <1>1, <1>7 DEF Requested, Phased
  <2>4. Requested(d)
    BY <1>1, <2>2, <2>3 DEF Requested, HeardSlots, Heard
  <2>5. Phased(d)
    BY <1>1, <2>2, <2>3 DEF Phased, HeardSlots, Heard
  <2>6. d \in Stack
    BY <2>2 DEF HeardSlots, Heard
  <2> QED BY <2>4, <2>5, <2>6 DEF Answering
<1>8. CASE msg.kind = "dns"
  <2>1. d = [k EXCEPT !.dns = msg.id]
    BY <1>8 DEF Net!network_receive_ethernet, Net!receive_dns
  <2>2. HeardSlots(k, d) /\ d.ack = k.ack
    BY <1>1, <1>2, <2>1 DEF Stack, HeardSlots, Heard
  <2> QED BY <1>4, <2>2
<1>9. CASE msg.kind = "syn"
  <2>1. d = [k EXCEPT !.syn = msg.id]
    BY <1>9 DEF Net!network_receive_ethernet, Net!receive_tcp
  <2>2. HeardSlots(k, d) /\ d.ack = k.ack
    BY <1>1, <1>2, <2>1 DEF Stack, HeardSlots, Heard
  <2> QED BY <1>4, <2>2
<1>10. CASE msg.kind = "data"
  <2>1. d = Net!receive_tcp(k, msg)
    BY <1>10 DEF Net!network_receive_ethernet
  <2>2. PICK k1 : k1 = IF msg.last = STREAM THEN [k EXCEPT !.fin = msg.id] ELSE k
    OBVIOUS
  <2>3. PICK b : b = IF k.data.conn = Net!None THEN [conn |-> msg.id, first |-> msg.first, next |-> msg.first] ELSE k.data
    OBVIOUS
  <2>4. d = k1 \/ d = [k1 EXCEPT !.data = [b EXCEPT !.next = msg.last + 1]]
    <3>1. ~(msg.kind = "syn")
      BY <1>10
    <3> QED BY <2>1, <2>2, <2>3, <3>1, Zenon DEF Net!receive_tcp
  <2>5. PICK c : c = [b EXCEPT !.next = msg.last + 1]
    OBVIOUS
  <2>6. k.data \in Buffer
    BY <1>1 DEF Stack
  <2>7. b \in Buffer
    BY <1>2, <2>3, <2>6 DEF Buffer
  <2>8. c \in Buffer
    BY <1>2, <2>5, <2>7 DEF Buffer
  <2>9. HeardSlots(k, k1) /\ k1.ack = k.ack
    BY <1>1, <1>2, <2>2 DEF Stack, HeardSlots, Heard
  <2>10. CASE d = [k1 EXCEPT !.data = c]
    <3>1. k1 \in Stack
      BY <2>9 DEF HeardSlots, Heard
    <3>2. HeardSlots(k1, d) /\ d.ack = k1.ack
      BY <2>8, <2>10, <3>1 DEF Stack, HeardSlots, Heard
    <3>3. HeardSlots(k, d) /\ d.ack = k.ack
      BY <2>9, <3>2 DEF HeardSlots, Heard
    <3> QED BY <1>4, <3>3
  <2> QED BY <1>4, <2>4, <2>5, <2>9, <2>10
<1> QED BY <1>3, <1>5, <1>6, <1>7, <1>8, <1>9, <1>10

(* Frames are sent: the slot of the answer is cleared, the peers' answers  *)
(* join the net.                                                           *)
Adds(k, d) == \A msg \in d.net : msg \in k.net \/ msg.kind \in {"offer", "dns", "syn", "data"} \/ (msg.kind = "arp" /\ msg.id \in Hosts)
Core(k, d) == /\ d \in Stack /\ Adds(k, d) /\ d.ip = k.ip /\ d.asked = k.asked /\ d.ack = k.ack /\ d.doc = k.doc
              /\ d.arp = k.arp /\ d.arp_entries = k.arp_entries
Sent(k, d, p) == Core(k, d) /\ d.phase = p /\ d.n = k.n /\ d.addr = k.addr /\ d.conn = k.conn

(* Sending keeps what is known of frames and slots.                        *)
LEMMA CoreKeeps ==
  ASSUME NEW k, Requested(k), NEW d, Core(k, d)
  PROVE  Requested(d)
<1>1. ASSUME NEW msg \in d.net PROVE (msg.kind = "ack" => msg.id = d.asked) /\ (msg.kind = "arp" => msg.id \in Hosts)
  BY <1>1 DEF Requested, Core, Adds
<1> QED BY <1>1 DEF Requested, Core

(* One after the other.                                                    *)
LEMMA SentOn ==
  ASSUME NEW k, NEW d, NEW e, NEW p, NEW q, Sent(k, d, p), Sent(d, e, q)
  PROVE  Sent(k, e, q)
<1>1. Adds(k, e)
  BY DEF Sent, Core, Adds
<1> QED BY <1>1 DEF Sent, Core

(* The first try.                                                          *)
LEMMA FirstSent ==
  ASSUME NEW k \in Stack
  PROVE  Sent(k, Net!First(k), k.phase)
BY DEF Net!First, Sent, Core, Adds, Stack

(* A frame.                                                                *)
LEMMA FrameType ==
  ASSUME NEW id \in Id, NEW kind \in {"offer", "ack", "arp", "dns", "syn", "data"}
  PROVE  Net!Frame(kind, id) \in Message /\ Net!Frame(kind, id).kind = kind /\ Net!Frame(kind, id).id = id
BY DEF Net!Frame, Message

(* What each of the requests changes: a query for a name,                  *)
LEMMA DnsSent ==
  ASSUME NEW k \in Stack
  PROVE  Sent(k, Net!network_build_dns_query(k), "dns")
<1>1. PICK d, net, none : d = Net!network_build_dns_query(k) /\ net = k.net \cup {Net!Frame("dns", k.n)} /\ none = Net!None
  OBVIOUS
<1>2. k.n \in Id /\ none \in Id /\ k.net \in SUBSET Message
  BY <1>1 DEF Stack, Id
<1>3. net \in SUBSET Message /\ \A msg \in net : msg \in k.net \/ msg.kind = "dns"
  BY <1>1, <1>2, FrameType
<1>4. d = [k EXCEPT !.dns = none, !.phase = "dns", !.net = net]
  BY <1>1 DEF Net!network_build_dns_query
<1>5. /\ d \in Stack /\ d.net = net /\ d.ip = k.ip /\ d.asked = k.asked /\ d.ack = k.ack /\ d.doc = k.doc /\ d.arp = k.arp
      /\ d.arp_entries = k.arp_entries /\ d.phase = "dns" /\ d.n = k.n /\ d.addr = k.addr /\ d.conn = k.conn
  BY <1>2, <1>3, <1>4 DEF Stack, Waits
<1>6. Adds(k, d)
  BY <1>3, <1>5 DEF Adds
<1> QED BY <1>1, <1>5, <1>6 DEF Sent, Core

(* the opening of a connection,                                            *)
LEMMA SynSent ==
  ASSUME NEW k \in Stack
  PROVE  Sent(k, Net!network_build_tcp_syn(k), "syn")
<1>1. PICK d, net, none : d = Net!network_build_tcp_syn(k) /\ net = k.net \cup {Net!Frame("syn", k.n)} /\ none = Net!None
  OBVIOUS
<1>2. k.n \in Id /\ none \in Id /\ k.net \in SUBSET Message
  BY <1>1 DEF Stack, Id
<1>3. net \in SUBSET Message /\ \A msg \in net : msg \in k.net \/ msg.kind = "syn"
  BY <1>1, <1>2, FrameType
<1>4. d = [k EXCEPT !.syn = none, !.phase = "syn", !.net = net]
  BY <1>1 DEF Net!network_build_tcp_syn
<1>5. /\ d \in Stack /\ d.net = net /\ d.ip = k.ip /\ d.asked = k.asked /\ d.ack = k.ack /\ d.doc = k.doc /\ d.arp = k.arp
      /\ d.arp_entries = k.arp_entries /\ d.phase = "syn" /\ d.n = k.n /\ d.addr = k.addr /\ d.conn = k.conn
  BY <1>2, <1>3, <1>4 DEF Stack, Waits
<1>6. Adds(k, d)
  BY <1>3, <1>5 DEF Adds
<1> QED BY <1>1, <1>5, <1>6 DEF Sent, Core

(* the request itself, which the cuts of the response answer,              *)
LEMMA DataSent ==
  ASSUME Net!NetworkConstants, NEW k \in Stack
  PROVE  Sent(k, Net!network_build_tcp_data(k), "data")
<1>1. PICK d, cuts, net, none, empty :
        /\ d = Net!network_build_tcp_data(k) /\ none = Net!None /\ empty = Net!NoData
        /\ cuts = {[kind |-> "data", id |-> k.n, first |-> g[1], last |-> g[2]] : g \in Segments}
        /\ net = k.net \cup cuts
  OBVIOUS
<1>2. k.n \in Id /\ none \in Id /\ k.net \in SUBSET Message
  BY <1>1 DEF Stack, Id
<1>3. empty \in Buffer
  BY <1>1, <1>2 DEF Net!NoData, Buffer
<1>4. ASSUME NEW msg \in cuts PROVE msg \in Message /\ msg.kind = "data"
  <2>1. PICK g \in Segments : msg = [kind |-> "data", id |-> k.n, first |-> g[1], last |-> g[2]]
    BY <1>1, <1>4
  <2>2. g[1] \in Nat /\ g[2] \in Nat
    BY DEF Net!NetworkConstants
  <2> QED BY <1>2, <2>1, <2>2 DEF Message
<1>5. net \in SUBSET Message /\ \A msg \in net : msg \in k.net \/ msg.kind = "data"
  BY <1>1, <1>2, <1>4
<1>6. d = [k EXCEPT !.data = empty, !.fin = none, !.phase = "data", !.net = net]
  BY <1>1 DEF Net!network_build_tcp_data
<1>7. /\ d \in Stack /\ d.net = net /\ d.ip = k.ip /\ d.asked = k.asked /\ d.ack = k.ack /\ d.doc = k.doc /\ d.arp = k.arp
      /\ d.arp_entries = k.arp_entries /\ d.phase = "data" /\ d.n = k.n /\ d.addr = k.addr /\ d.conn = k.conn
  BY <1>2, <1>3, <1>5, <1>6 DEF Stack, Waits
<1>8. Adds(k, d)
  BY <1>5, <1>7 DEF Adds
<1> QED BY <1>1, <1>7, <1>8 DEF Sent, Core

(* and the question who is there.                                          *)
LEMMA ArpSent ==
  ASSUME NEW k \in Stack
  PROVE  Sent(k, Net!network_build_arp_request(k), "arp")
<1>1. PICK d, cuts, net :
        d = Net!network_build_arp_request(k) /\ cuts = {Net!Frame("arp", h) : h \in Hosts} /\ net = k.net \cup cuts
  OBVIOUS
<1>2. k.net \in SUBSET Message
  BY DEF Stack
<1>3. ASSUME NEW msg \in cuts PROVE msg \in Message /\ msg.kind = "arp" /\ msg.id \in Hosts
  <2>1. PICK h \in Hosts : msg = Net!Frame("arp", h)
    BY <1>1, <1>3
  <2>2. h \in Id
    BY DEF Id
  <2> QED BY <2>1, <2>2, FrameType
<1>4. net \in SUBSET Message /\ \A msg \in net : msg \in k.net \/ (msg.kind = "arp" /\ msg.id \in Hosts)
  BY <1>1, <1>2, <1>3
<1>5. d = [k EXCEPT !.phase = "arp", !.net = net]
  BY <1>1 DEF Net!network_build_arp_request
<1>6. /\ d \in Stack /\ d.net = net /\ d.ip = k.ip /\ d.asked = k.asked /\ d.ack = k.ack /\ d.doc = k.doc /\ d.arp = k.arp
      /\ d.arp_entries = k.arp_entries /\ d.phase = "arp" /\ d.n = k.n /\ d.addr = k.addr /\ d.conn = k.conn
  BY <1>2, <1>4, <1>5 DEF Stack, Waits
<1>7. Adds(k, d)
  BY <1>4, <1>6 DEF Adds
<1> QED BY <1>1, <1>6, <1>7 DEF Sent, Core

(* In the other phases nothing but the slots and the frames matters.       *)
LEMMA QuietKeeps ==
  ASSUME NEW k, Requested(k), NEW d, Core(k, d), d.phase \in {"dns", "idle", "halted"}
  PROVE  Answering(d)
<1>1. Requested(d)
  BY CoreKeeps
<1>2. Phased(d)
  BY DEF Phased
<1>3. d \in Stack
  BY DEF Core
<1> QED BY <1>1, <1>2, <1>3 DEF Answering

(* A request gives up (Fail).                                              *)
LEMMA FailKeeps ==
  ASSUME NEW k \in Stack, Requested(k), NEW d, d = Net!Fail(k)
  PROVE  Answering(d)
<1>1. PICK p : p = IF k.n = 0 THEN "halted" ELSE "idle"
  OBVIOUS
<1>2. p \in {"idle", "halted"} /\ p \in Waits
  BY <1>1 DEF Waits
<1>3. d = [k EXCEPT !.phase = p]
  BY <1>1 DEF Net!Fail
<1>4. Core(k, d) /\ d.phase = p
  BY <1>2, <1>3 DEF Core, Adds, Stack
<1> QED BY <1>2, <1>4, QuietKeeps

(* The boot's lease and route (Offered, Leased, network_set_route).        *)
LEMMA LeaseKeeps ==
  ASSUME Net!NetworkConstants, Answering(stack), Net!Offered \/ Net!Leased \/ Net!network_set_route
  PROVE  Answering(stack')
<1>1. stack \in Stack /\ Requested(stack) /\ Phased(stack)
  BY DEF Answering
<1>2. CASE Net!Offered
  <2>1. PICK x : stack.phase = "discover" /\ x \in {stack.offer} /\ stack' = Net!network_build_dhcp_request(stack, x)
    BY <1>2 DEF Net!Offered, Net!network_dhcp_offer
  <2>2. x \in Id
    BY <1>1, <2>1 DEF Stack
  <2>3. PICK f, net, none : f = Net!Frame("ack", x) /\ net = stack.net \cup {f} /\ none = Net!None
    OBVIOUS
  <2>4. f \in Message /\ f.kind = "ack" /\ f.id = x /\ none \in Id /\ stack.net \in SUBSET Message
    BY <1>1, <2>2, <2>3, FrameType DEF Stack, Id
  <2>5. net \in SUBSET Message
    BY <2>3, <2>4
  <2>6. stack' = [stack EXCEPT !.ack = none, !.asked = x, !.phase = "request", !.net = net]
    BY <2>1, <2>3 DEF Net!network_build_dhcp_request
  <2>7. /\ stack' \in Stack /\ stack'.net = net /\ stack'.ip = stack.ip /\ stack'.asked = x /\ stack'.ack = none
        /\ stack'.doc = stack.doc /\ stack'.arp = stack.arp /\ stack'.arp_entries = stack.arp_entries
        /\ stack'.phase = "request" /\ stack'.n = stack.n
    BY <1>1, <2>2, <2>4, <2>5, <2>6 DEF Stack, Waits
  <2>8. stack.ip = none /\ stack.n = 0 /\ \A msg \in stack.net : msg.kind # "ack"
    BY <1>1, <2>1, <2>3 DEF Phased
  <2>9. ASSUME NEW msg \in net PROVE (msg.kind = "ack" => msg.id = x) /\ (msg.kind = "arp" => msg.id \in Hosts)
    BY <1>1, <2>3, <2>4, <2>8, <2>9 DEF Requested
  <2>10. Requested(stack')
    BY <1>1, <2>3, <2>7, <2>8, <2>9 DEF Requested
  <2>11. Phased(stack')
    BY <2>7, <2>8 DEF Phased
  <2> QED BY <2>7, <2>10, <2>11 DEF Answering
<1>3. CASE Net!Leased
  <2>1. PICK x, k : /\ stack.phase = "request" /\ x \in {stack.ack} /\ k = [stack EXCEPT !.ip = x]
                    /\ stack' = Net!network_build_arp_request(k)
    BY <1>3 DEF Net!Leased, Net!network_dhcp_ack
  <2>2. x \in Id /\ x \in {Net!None, stack.asked}
    BY <1>1, <2>1 DEF Stack, Requested
  <2>3. /\ k \in Stack /\ k.ip = x /\ k.ack = stack.ack /\ k.asked = stack.asked /\ k.net = stack.net /\ k.doc = stack.doc
        /\ k.arp = stack.arp /\ k.arp_entries = stack.arp_entries /\ k.n = stack.n
    BY <1>1, <2>1, <2>2 DEF Stack
  <2>4. Requested(k)
    BY <1>1, <2>2, <2>3 DEF Requested
  <2>5. Sent(k, stack', "arp")
    BY <2>1, <2>3, ArpSent
  <2>6. Requested(stack')
    BY <2>4, <2>5, CoreKeeps DEF Sent
  <2>7. stack.n = 0
    BY <1>1, <2>1 DEF Phased
  <2>8. Phased(stack')
    BY <2>3, <2>5, <2>7 DEF Phased, Sent
  <2> QED BY <2>5, <2>6, <2>8 DEF Answering, Sent, Core
<1>4. CASE Net!network_set_route
  <2>1. PICK x, k, e : /\ x \in {Gateway} /\ k = [stack EXCEPT !.route = x] /\ e = Net!network_build_dns_query(k)
                       /\ stack' = Net!First(e)
    BY <1>4 DEF Net!network_set_route, Net!network_arp_lookup
  <2>2. Core(stack, k)
    BY <1>1, <2>1 DEF Stack, Core, Adds
  <2>3. Requested(k) /\ k \in Stack
    BY <1>1, <2>2, CoreKeeps DEF Core
  <2>4. Sent(k, e, "dns")
    BY <2>1, <2>3, DnsSent
  <2>5. Sent(e, stack', "dns")
    BY <2>1, <2>4, FirstSent DEF Sent, Core
  <2>6. Sent(k, stack', "dns")
    BY <2>4, <2>5, SentOn
  <2>7. Core(k, stack') /\ stack'.phase = "dns"
    BY <2>6 DEF Sent
  <2> QED BY <2>3, <2>7, QuietKeeps
<1> QED BY <1>2, <1>3, <1>4

(* A request moves on with the answer to its own frame (Resolved,          *)
(* Connected).                                                             *)
LEMMA AnswerKeeps ==
  ASSUME Net!NetworkConstants, Answering(stack), Net!Resolved \/ Net!Connected
  PROVE  Answering(stack')
<1>1. stack \in Stack /\ Requested(stack) /\ Phased(stack)
  BY DEF Answering
<1>2. stack.n \in Id /\ stack.n \in Nat
  BY <1>1 DEF Stack, Id
<1>3. CASE Net!Resolved
  <2>1. PICK x, k, e : /\ x \in Net!Got(stack.dns, stack.n) /\ k = [stack EXCEPT !.addr = x]
                       /\ e = Net!network_build_tcp_syn(k) /\ stack' = Net!First(e)
    BY <1>3 DEF Net!Resolved, Net!network_dns_answer
  <2>2. x = stack.n
    BY <2>1 DEF Net!Got
  <2>3. Core(stack, k) /\ k.addr = stack.n /\ k.n = stack.n
    BY <1>1, <1>2, <2>1, <2>2 DEF Stack, Core, Adds
  <2>4. Requested(k) /\ k \in Stack
    BY <1>1, <2>3, CoreKeeps DEF Core
  <2>5. Sent(k, e, "syn")
    BY <2>1, <2>4, SynSent
  <2>6. Sent(e, stack', "syn")
    BY <2>1, <2>5, FirstSent DEF Sent, Core
  <2>7. Sent(k, stack', "syn")
    BY <2>5, <2>6, SentOn
  <2>8. Requested(stack')
    BY <2>4, <2>7, CoreKeeps DEF Sent
  <2>9. Phased(stack')
    BY <2>3, <2>7 DEF Phased, Sent
  <2> QED BY <2>7, <2>8, <2>9 DEF Answering, Sent, Core
<1>4. CASE Net!Connected
  <2>1. PICK x, k, e : /\ stack.phase = "syn" /\ x \in Net!Got(stack.syn, stack.n) /\ k = [stack EXCEPT !.conn = x]
                       /\ e = Net!network_build_tcp_data(k) /\ stack' = Net!First(e)
    BY <1>4 DEF Net!Connected, Net!network_tcp_syn_ack
  <2>2. x = stack.n
    BY <2>1 DEF Net!Got
  <2>3. Core(stack, k) /\ k.conn = stack.n /\ k.n = stack.n /\ k.addr = stack.addr
    BY <1>1, <1>2, <2>1, <2>2 DEF Stack, Core, Adds
  <2>4. Requested(k) /\ k \in Stack
    BY <1>1, <2>3, CoreKeeps DEF Core
  <2>5. Sent(k, e, "data")
    BY <2>1, <2>4, DataSent
  <2>6. Sent(e, stack', "data")
    BY <2>1, <2>5, FirstSent DEF Sent, Core
  <2>7. Sent(k, stack', "data")
    BY <2>5, <2>6, SentOn
  <2>8. Requested(stack')
    BY <2>4, <2>7, CoreKeeps DEF Sent
  <2>9. stack.addr = stack.n
    BY <1>1, <2>1 DEF Phased
  <2>10. Phased(stack')
    BY <2>3, <2>7, <2>9 DEF Phased, Sent
  <2> QED BY <2>7, <2>8, <2>10 DEF Answering, Sent, Core
<1> QED BY <1>3, <1>4

(* The response is published, or was not one (Responded).                  *)
LEMMA ResponseKeeps ==
  ASSUME Answering(stack), Net!Responded
  PROVE  Answering(stack')
<1>1. stack \in Stack /\ Requested(stack)
  BY DEF Answering
<1>2. PICK x : x \in Net!network_tcp_receive(stack) /\ stack' = Net!Finish(stack, x)
  BY DEF Net!Responded
<1>3. x = stack.data /\ x.conn = stack.n
  BY <1>2 DEF Net!network_tcp_receive
<1>4. x.conn \in Id /\ x.first \in Nat /\ x.next \in Nat /\ stack.n \in Id
  BY <1>1, <1>3 DEF Stack, Buffer, Id
<1>5. PICK k, empty : k = [stack EXCEPT !.data = empty, !.phase = "idle"] /\ empty = Net!NoData
  OBVIOUS
<1>6. empty \in Buffer
  BY <1>5 DEF Net!NoData, Buffer, Id
<1>7. Core(stack, k) /\ k.n = stack.n /\ k.phase = "idle"
  BY <1>1, <1>5, <1>6 DEF Stack, Waits, Core, Adds
<1>8. Requested(k) /\ k \in Stack
  BY <1>1, <1>7, CoreKeeps DEF Core
<1>9. stack' = IF x.first = 1 THEN Net!network_publish_http_response(k, x) ELSE Net!Fail(k)
  BY <1>2, <1>5, Zenon DEF Net!Finish
<1>10. CASE x.first # 1
  BY <1>8, <1>9, <1>10, FailKeeps
<1>11. CASE x.first = 1
  <2>1. PICK next \in Nat : next = IF x.next - 1 > HEADER THEN x.next ELSE 1
    BY <1>4
  <2>2. PICK doc : doc = [asked |-> k.n, conn |-> x.conn, first |-> x.first, next |-> next]
    OBVIOUS
  <2>3. doc \in [asked : Id, conn : Id, first : Nat, next : Nat] /\ doc.conn = doc.asked /\ doc.first = 1
    BY <1>3, <1>4, <1>7, <1>11, <2>1, <2>2
  <2>4. stack' = [k EXCEPT !.doc = doc]
    BY <1>9, <1>11, <2>1, <2>2 DEF Net!network_publish_http_response
  <2>5. /\ stack' \in Stack /\ stack'.doc = doc /\ stack'.ip = k.ip /\ stack'.asked = k.asked /\ stack'.ack = k.ack
        /\ stack'.net = k.net /\ stack'.arp = k.arp /\ stack'.arp_entries = k.arp_entries /\ stack'.phase = "idle"
    BY <1>7, <1>8, <2>3, <2>4 DEF Stack
  <2>6. Requested(stack')
    BY <1>8, <2>3, <2>5 DEF Requested
  <2>7. Phased(stack')
    BY <2>5 DEF Phased
  <2> QED BY <2>5, <2>6, <2>7 DEF Answering
<1> QED BY <1>10, <1>11

(* The loop runs out, and the frame is sent again (Timeout).               *)
LEMMA TimeoutKeeps ==
  ASSUME Net!NetworkConstants, Answering(stack), Net!Timeout
  PROVE  Answering(stack')
<1>1. stack \in Stack /\ Requested(stack) /\ Phased(stack)
  BY DEF Answering
<1>2. PICK k : k = [stack EXCEPT !.tries = @ + 1]
  OBVIOUS
<1>3. Sent(stack, k, stack.phase)
  <2>1. PICK t \in Nat : t = stack.tries + 1
    BY <1>1 DEF Stack
  <2>2. k = [stack EXCEPT !.tries = t]
    BY <1>1, <1>2, <2>1 DEF Stack
  <2> QED BY <1>1, <2>2 DEF Sent, Core, Adds, Stack
<1>4. k \in Stack /\ Requested(k)
  BY <1>1, <1>3, CoreKeeps DEF Sent, Core
<1>5. \/ stack' = Net!Fail(stack)
      \/ /\ stack.n # 0 /\ stack.phase \notin {"idle", "halted"}
         /\ stack' = CASE stack.phase = "dns" -> Net!network_build_dns_query(k)
                       [] stack.phase = "syn" -> Net!network_build_tcp_syn(k)
                       [] OTHER -> Net!network_build_tcp_data(k)
  BY <1>2, Zenon DEF Net!Timeout, Net!Waiting
<1>6. CASE stack' = Net!Fail(stack)
  BY <1>1, <1>6, FailKeeps
<1>7. CASE /\ stack.n # 0 /\ stack.phase \notin {"idle", "halted"}
           /\ stack' = CASE stack.phase = "dns" -> Net!network_build_dns_query(k)
                         [] stack.phase = "syn" -> Net!network_build_tcp_syn(k)
                         [] OTHER -> Net!network_build_tcp_data(k)
  <2>1. stack.phase = "dns" \/ stack.phase = "syn" \/ stack.phase = "data"
    BY <1>1, <1>7 DEF Phased, Stack, Waits
  <2>2. CASE stack.phase = "dns"
    <3>1. stack' = Net!network_build_dns_query(k)
      BY <1>7, <2>2
    <3>2. Sent(k, stack', "dns")
      BY <1>4, <3>1, DnsSent
    <3>3. Core(k, stack') /\ stack'.phase = "dns"
      BY <3>2 DEF Sent
    <3> QED BY <1>4, <3>3, QuietKeeps
  <2>3. CASE stack.phase = "syn"
    <3>1. stack' = Net!network_build_tcp_syn(k)
      BY <1>7, <2>3
    <3>2. Sent(k, stack', "syn")
      BY <1>4, <3>1, SynSent
    <3>3. Requested(stack')
      BY <1>4, <3>2, CoreKeeps DEF Sent
    <3>4. Phased(stack')
      BY <1>1, <1>3, <2>3, <3>2 DEF Phased, Sent
    <3> QED BY <3>2, <3>3, <3>4 DEF Answering, Sent, Core
  <2>4. CASE stack.phase = "data"
    <3>1. stack' = Net!network_build_tcp_data(k)
      BY <1>7, <2>4
    <3>2. Sent(k, stack', "data")
      BY <1>4, <3>1, DataSent
    <3>3. Requested(stack')
      BY <1>4, <3>2, CoreKeeps DEF Sent
    <3>4. Phased(stack')
      BY <1>1, <1>3, <2>4, <3>2 DEF Phased, Sent
    <3> QED BY <3>2, <3>3, <3>4 DEF Answering, Sent, Core
  <2> QED BY <2>1, <2>2, <2>3, <2>4
<1> QED BY <1>5, <1>6, <1>7

(* The next request (http_get_url).                                        *)
LEMMA GetKeeps ==
  ASSUME Answering(stack), Net!http_get_url
  PROVE  Answering(stack')
<1>1. stack \in Stack /\ Requested(stack)
  BY DEF Answering
<1>2. PICK n, none, k, e : /\ n = stack.n + 1 /\ none = Net!None /\ k = [stack EXCEPT !.n = n, !.addr = none, !.conn = none]
                           /\ e = Net!network_build_dns_query(k) /\ stack' = Net!First(e)
  <2>1. PICK n, none : n = stack.n + 1 /\ none = Net!None
    OBVIOUS
  <2>2. [stack EXCEPT !.n = @ + 1, !.addr = none, !.conn = none] = [stack EXCEPT !.n = n, !.addr = none, !.conn = none]
    BY <1>1, <2>1 DEF Stack
  <2>3. stack' = Net!First(Net!network_build_dns_query([stack EXCEPT !.n = n, !.addr = none, !.conn = none]))
    BY <2>1, <2>2, Zenon DEF Net!http_get_url
  <2> QED BY <2>1, <2>3
<1>3. n \in Nat /\ none \in Id
  BY <1>1, <1>2 DEF Stack, Id
<1>4. Core(stack, k)
  BY <1>1, <1>2, <1>3 DEF Stack, Core, Adds
<1>5. Requested(k) /\ k \in Stack
  BY <1>1, <1>4, CoreKeeps DEF Core
<1>6. Sent(k, e, "dns")
  BY <1>2, <1>5, DnsSent
<1>7. Sent(e, stack', "dns")
  BY <1>2, <1>6, FirstSent DEF Sent, Core
<1>8. Sent(k, stack', "dns")
  BY <1>6, <1>7, SentOn
<1>9. Core(k, stack') /\ stack'.phase = "dns"
  BY <1>8 DEF Sent
<1> QED BY <1>5, <1>9, QuietKeeps

(* The stack as network_init leaves it, with the discover frame out.       *)
LEMMA NetworkStarts ==
  ASSUME Net!NetworkConstants, Net!Init
  PROVE  Answering(stack)
<1>1. PICK none, empty, arp, doc, net :
        /\ none = Net!None /\ empty = Net!NoData /\ arp = [i \in Cells |-> none]
        /\ doc = [asked |-> none, conn |-> none, first |-> 1, next |-> 1] /\ net = {Net!Frame("offer", x) : x \in Servers}
  OBVIOUS
<1>2. none \in Id /\ empty \in Buffer /\ arp \in [Cells -> Id] /\ doc \in [asked : Id, conn : Id, first : Nat, next : Nat]
  BY <1>1 DEF Id, Buffer, Net!NoData
<1>3. ASSUME NEW msg \in net PROVE msg \in Message /\ msg.kind = "offer"
  <2>1. PICK x \in Servers : msg = Net!Frame("offer", x)
    BY <1>1, <1>3
  <2>2. x \in Id
    BY DEF Id
  <2> QED BY <2>1, <2>2, FrameType
<1>4. PICK k : k = Net!network_init
  OBVIOUS
<1>5. k = [phase |-> "discover", n |-> 0, tries |-> 1, net |-> {}, ip |-> none, route |-> none, arp |-> arp, replace |-> 1,
           arp_entries |-> 0, offer |-> none, asked |-> none, ack |-> none, dns |-> none, addr |-> none, syn |-> none,
           conn |-> none, data |-> empty, fin |-> none, doc |-> doc]
  BY <1>1, <1>4 DEF Net!network_init, Cells
<1>6. 1 \in Cells
  BY DEF Cells, Net!NetworkConstants
<1>7. k \in Stack
  BY <1>1, <1>2, <1>5, <1>6 DEF Stack, Waits
<1>8. stack = [k EXCEPT !.offer = none, !.phase = "discover", !.net = {} \cup net]
  BY <1>1, <1>4, <1>5 DEF Net!Init, Net!network_build_dhcp_discover
<1>9. /\ stack \in Stack /\ stack.phase = "discover" /\ stack.n = 0 /\ stack.net = net /\ stack.ip = none /\ stack.ack = none
      /\ stack.arp = arp /\ stack.arp_entries = 0 /\ stack.doc = doc
  <2>1. PICK sent, p : sent = {} \cup net /\ p = "discover"
    OBVIOUS
  <2>2. sent = net /\ sent \in SUBSET Message /\ p \in Waits
    BY <1>3, <2>1 DEF Waits
  <2>3. stack = [k EXCEPT !.offer = none, !.phase = p, !.net = sent]
    BY <1>8, <2>1, Zenon
  <2>4. stack \in Stack
    BY <1>2, <1>7, <2>2, <2>3 DEF Stack
  <2>5. /\ k.n = 0 /\ k.ip = none /\ k.ack = none /\ k.arp = arp /\ k.arp_entries = 0 /\ k.doc = doc
    BY <1>5
  <2>6. stack.phase = p /\ stack.net = sent /\ stack.n = k.n /\ stack.ip = k.ip /\ stack.ack = k.ack
    BY <1>7, <2>3 DEF Stack
  <2>7. stack.arp = k.arp /\ stack.arp_entries = k.arp_entries /\ stack.doc = k.doc
    BY <1>7, <2>3 DEF Stack
  <2> QED BY <2>1, <2>2, <2>4, <2>5, <2>6, <2>7, Zenon
<1>10. Cached(arp, 0)
  <2>1. Full(arp) = {}
    BY <1>1 DEF Full
  <2>2. \A i \in Cells : arp[i] = none
    BY <1>1
  <2> QED BY <1>1, <2>1, <2>2, FS_EmptySet DEF Cached
<1>11. Requested(stack)
  BY <1>1, <1>3, <1>9, <1>10 DEF Requested
<1>12. Phased(stack)
  BY <1>1, <1>3, <1>9 DEF Phased
<1> QED BY <1>9, <1>11, <1>12 DEF Answering

(* For every set of hosts, servers and segments, size of the cache and     *)
(* number of retries, and whatever is lost, late or repeated, also from    *)
(* requests that gave up: the lease, the name, the connection and the      *)
(* document are those of the request that uses them, a document starts     *)
(* where its response does, and the cache counts each host once            *)
(* (network_receive_ethernet and the waiting loops of http_get_url).       *)
THEOREM AnswersMatchRequests ==
  ASSUME Net!NetworkConstants
  PROVE  Net!Spec => []Net!AnswersAreForTheRequest
<1>1. Net!Init => Answering(stack)
  BY NetworkStarts
<1>2. Answering(stack) /\ [Net!Next]_stack => Answering(stack)'
  <2>1. ASSUME Answering(stack), [Net!Next]_stack PROVE Answering(stack')
    <3>1. CASE stack' = stack
      BY <2>1, <3>1
    <3>2. ASSUME NEW msg \in stack.net, Net!Arrive(msg) PROVE Answering(stack')
      BY <2>1, <3>2, ReceiveKeeps DEF Net!Arrive
    <3>3. CASE Net!Offered \/ Net!Leased \/ Net!network_set_route
      BY <2>1, <3>3, LeaseKeeps
    <3>4. CASE Net!Resolved \/ Net!Connected
      BY <2>1, <3>4, AnswerKeeps
    <3>5. CASE Net!Responded
      BY <2>1, <3>5, ResponseKeeps
    <3>6. CASE Net!Timeout
      BY <2>1, <3>6, TimeoutKeeps
    <3>7. CASE Net!e1000_transmit_refused
      BY <2>1, <3>7, FailKeeps DEF Net!e1000_transmit_refused, Answering
    <3>8. CASE Net!http_get_url
      BY <2>1, <3>8, GetKeeps
    <3> QED BY <2>1, <3>1, <3>2, <3>3, <3>4, <3>5, <3>6, <3>7, <3>8 DEF Net!Next
  <2> QED BY <2>1 DEF Answering, Requested, Phased, Cached, Full
<1>3. Answering(stack) => Net!AnswersAreForTheRequest
  <2> SUFFICES ASSUME Answering(stack) PROVE Net!AnswersAreForTheRequest
    OBVIOUS
  <2>1. Requested(stack) /\ Phased(stack) /\ stack.route \in {Net!None, Gateway}
    BY DEF Answering, Stack
  <2>2. /\ stack.arp_entries = Net!Cardinality({i \in 1..ARP_CACHE_LIMIT : stack.arp[i] # Net!None})
        /\ \A i, j \in 1..ARP_CACHE_LIMIT : i # j => stack.arp[i] = Net!None \/ stack.arp[i] # stack.arp[j]
    BY <2>1, NetCardinality DEF Requested, Cached, Full, Cells
  <2>3. stack.ip \in {Net!None, stack.asked} /\ stack.doc.conn = stack.doc.asked /\ stack.doc.first = 1
    BY <2>1 DEF Requested
  <2>4. (stack.phase \in {"syn", "data"} => stack.addr = stack.n) /\ (stack.phase = "data" => stack.conn = stack.n)
    BY <2>1 DEF Phased
  <2> QED BY <2>1, <2>2, <2>3, <2>4, Zenon DEF Net!AnswersAreForTheRequest
<1> QED BY <1>1, <1>2, <1>3, PTL DEF Net!Spec
=============================================================================
