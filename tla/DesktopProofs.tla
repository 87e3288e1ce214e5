---------------------------- MODULE DesktopProofs ----------------------------
(***************************************************************************)
(* The programs of the desktop, for every value of their constants: the    *)
(* compositor (Compositor), the configuration store of a port              *)
(* (Persistence), the window manager (DemonWM), the transport between Xlib *)
(* and the server (Xlib), and the init system that hands the screen over   *)
(* (InitUnits), each with its own invariant.                               *)
(*                                                                         *)
(* The compositor's inductive invariant is Focused: the types, Stacked     *)
(* (numbers are distinct and every window has a place in the stack, which  *)
(* is what makes `the topmost window' exist) and the focus.  Each handler  *)
(* first leaves a state that is only Stacked, and then sets the focus.     *)
(***************************************************************************)
EXTENDS Compositor, FiniteSetTheorems, SequenceTheorems, WellFoundedInduction, TLAPS

Place == [x : Int, y : Int, w : Nat, h : Nat]
Titles == {m.title : m \in Creates}
Number == Nat \ {0}
Window == [id : Number, title : Titles, x : Int, y : Int, w : Nat, h : Nat, sw : Number, sh : Number,
           max : BOOLEAN, min : BOOLEAN, ws : Int, restore : Place]
Table == [Slot -> Window \cup {Empty}]
State == [table : Table, stack : Seq(Nat), focus : Nat,
          drag : [id : Nat, gx : Int, gy : Int],
          resize : [id : Nat, gx : Int, gy : Int, w : Int, h : Int],
          ws : Int, launcher : BOOLEAN, selection : Int,
          suppressed : {"none"} \cup {e.code : e \in Keys}, alive : BOOLEAN]

TypeOK == s \in State

(* No two windows have the same number, and every window is in the stack.  *)
Stacked(k) ==
  /\ k \in State
  /\ \A i, j \in Live(k) : k.table[i].id = k.table[j].id => i = j
  /\ \A i \in Live(k) : \E a \in DOMAIN k.stack : k.stack[a] = k.table[i].id

(* FocusIsLive of any state, slot by slot.                                 *)
HasFocus(k) ==
  /\ k.focus # None => \E i \in Live(k) : k.table[i].id = k.focus /\ ~k.table[i].min
  /\ k.focus = None => \A i \in Slot : ~Shown(k, i)

Focused(k) == Stacked(k) /\ HasFocus(k)

(***************************************************************************)
(* The table and the stack.                                                *)
(***************************************************************************)
(* A set of positions has a last one.                                      *)
LEMMA LastPlace ==
  ASSUME NEW n \in Nat, NEW T, T \subseteq 1..n, T # {}
  PROVE  \E x \in T : \A y \in T : y <= x
<1>1. \E R : IsWellFoundedOn(R, Nat) /\ \A x, y \in Nat : <<x, y>> \in R <=> x < y
  <2> DEFINE Q == OpToRel(<, Nat)
  <2>1. IsWellFoundedOn(Q, Nat)
    BY NatLessThanWellFounded
  <2>2. \A x, y \in Nat : <<x, y>> \in Q <=> x < y
    BY DEF OpToRel
  <2> HIDE DEF Q
  <2> WITNESS Q
  <2> QED BY <2>1, <2>2
<1>2. PICK R : IsWellFoundedOn(R, Nat) /\ \A x, y \in Nat : <<x, y>> \in R <=> x < y
  BY <1>1
<1>3. IsWellFoundedOn(R, Nat)
  BY <1>2
<1>4. PICK U : U = {u \in Nat : n - u \in T}
  OBVIOUS
<1>5. U \subseteq Nat /\ U # {}
  <2>1. PICK y \in T : y \in 1..n
    OBVIOUS
  <2>2. n - y \in Nat /\ n - (n - y) = y
    BY <2>1
  <2> QED BY <1>4, <2>1, <2>2
<1>6. \E x \in U : \A y \in U : ~(<<y, x>> \in R)
  BY <1>3, <1>5, WFMin, Zenon
<1>7. PICK x \in U : \A y \in U : ~(<<y, x>> \in R)
  BY <1>6
<1>8. \A y \in U : y \in Nat /\ x \in Nat /\ ~(y < x)
  BY <1>2, <1>5, <1>7
<1>9. n - x \in T
  BY <1>4
<1>10. ASSUME NEW y \in T
       PROVE  y <= n - x
  <2>1. n - y \in U
    BY <1>4
  <2> QED BY <2>1, <1>8
<1> QED BY <1>9, <1>10

(* And a first one.                                                        *)
LEMMA LeastPlace ==
  ASSUME NEW n \in Nat, NEW T, T \subseteq 1..n, T # {}
  PROVE  (CHOOSE i \in T : \A j \in T : i <= j) \in T
<1>1. PICK U : U = {u \in 1..n : n + 1 - u \in T}
  OBVIOUS
<1>2. U \subseteq 1..n /\ U # {}
  <2>1. PICK y \in T : y \in 1..n
    OBVIOUS
  <2>2. n + 1 - y \in 1..n /\ n + 1 - (n + 1 - y) = y
    BY <2>1
  <2> QED BY <1>1, <2>1, <2>2
<1>3. PICK x \in U : \A y \in U : y <= x
  BY <1>2, LastPlace
<1>4. n + 1 - x \in T
  BY <1>1
<1>5. ASSUME NEW y \in T
      PROVE  n + 1 - x <= y
  <2>1. y \in 1..n
    OBVIOUS
  <2>2. n + 1 - y \in 1..n /\ n + 1 - (n + 1 - y) = y
    BY <2>1
  <2>3. n + 1 - y \in U
    BY <2>2, <1>1
  <2>4. n + 1 - y <= x /\ x \in 1..n
    BY <2>3, <1>2, <1>3
  <2> QED BY <2>1, <2>4
<1>6. \E i \in T : \A j \in T : i <= j
  BY <1>4, <1>5
<1> QED BY <1>6, Zenon

(* What is in use is a window, and has a number.                           *)
LEMMA LiveIsWindow ==
  ASSUME NEW k \in State
  PROVE  \A i \in Slot : /\ k.table[i] \in Window \cup {Empty}
                         /\ i \in Live(k) <=> k.table[i] \in Window
BY DEF State, Table, Live, Window, Empty, Number

(* A set of windows in use has a topmost one (Topmost).                    *)
LEMMA TopmostIn ==
  ASSUME NEW k, Stacked(k), NEW S \in SUBSET Live(k), S # {}
  PROVE  Topmost(k, S) \in S
<1>1. k.stack \in Seq(Nat)
  BY DEF Stacked, State
<1>2. PICK n \in Nat : DOMAIN k.stack = 1..n
  BY <1>1
<1>3. PICK T : T = {a \in 1..n : \E i \in S : k.table[i].id = k.stack[a]}
  OBVIOUS
<1>4. T # {}
  BY <1>2, <1>3 DEF Stacked
<1>5. PICK b \in T : \A a \in T : a <= b
  BY <1>3, <1>4, LastPlace
<1>6. PICK i \in S : k.table[i].id = k.stack[b]
  BY <1>3
<1>7. ASSUME NEW j \in S
      PROVE  \E a, c \in DOMAIN k.stack : k.stack[a] = k.table[j].id /\ k.stack[c] = k.table[i].id /\ a <= c
  <2>1. PICK a \in DOMAIN k.stack : k.stack[a] = k.table[j].id
    BY DEF Stacked
  <2>2. a \in T /\ b \in DOMAIN k.stack
    BY <2>1, <1>2, <1>3
  <2> QED BY <2>1, <2>2, <1>5, <1>6
<1> QED BY <1>7, Zenon DEF Topmost

(* The slot of a number (find_slot).                                       *)
LEMMA FindSlot ==
  ASSUME NEW k, Stacked(k), NEW id \in Ids(k)
  PROVE  find_slot(k, id) \in Live(k) /\ k.table[find_slot(k, id)].id = id /\ id \in Number
<1>1. \E i \in Live(k) : k.table[i].id = id
  BY DEF Ids
<1>2. find_slot(k, id) \in Live(k) /\ k.table[find_slot(k, id)].id = id
  BY <1>1, Zenon DEF find_slot
<1>3. k.table[find_slot(k, id)] \in Window
  BY <1>2, LiveIsWindow DEF Stacked, Live
<1> QED BY <1>2, <1>3 DEF Window

(* Removing a number from the stack leaves the others (Without).           *)
LEMMA WithoutKeeps ==
  ASSUME NEW q \in Seq(Nat), NEW id \in Nat
  PROVE  /\ Without(q, id) \in Seq(Nat)
         /\ \A a \in DOMAIN q : q[a] # id => \E b \in DOMAIN Without(q, id) : Without(q, id)[b] = q[a]
<1>1. CASE id \notin Range(q)
  BY <1>1 DEF Without
<1>2. CASE id \in Range(q)
  <2>1. PICK c : c = CHOOSE i \in DOMAIN q : q[i] = id
    OBVIOUS
  <2>2. \E i \in DOMAIN q : q[i] = id
    BY <1>2 DEF Range
  <2>3. c \in DOMAIN q /\ q[c] = id
    BY <2>1, <2>2
  <2>4. PICK n \in Nat : n = Len(q) /\ DOMAIN q = 1..n
    OBVIOUS
  <2>5. PICK r : r = [i \in 1..(n - 1) |-> q[IF i < c THEN i ELSE i + 1]]
    OBVIOUS
  <2>6. Without(q, id) = r
    BY <1>2, <2>1, <2>4, <2>5 DEF Without
  <2>7. c \in Int /\ 1 <= c /\ c <= n
    BY <2>3, <2>4
  <2>8. \A i \in 1..(n - 1) : q[IF i < c THEN i ELSE i + 1] \in Nat
    BY <2>4, <2>7
  <2>9. n - 1 \in Nat /\ r \in [1..(n - 1) -> Nat]
    BY <2>4, <2>5, <2>7, <2>8
  <2>10. r \in Seq(Nat) /\ DOMAIN r = 1..(n - 1)
    BY <2>9
  <2>11. ASSUME NEW a \in DOMAIN q, q[a] # id
         PROVE  \E b \in DOMAIN r : r[b] = q[a]
    <3>1. a \in Int /\ 1 <= a /\ a <= n /\ a # c
      BY <2>3, <2>4, <2>11
    <3>2. CASE a < c
      <4>1. a \in 1..(n - 1)
        BY <3>1, <3>2, <2>7
      <4>2. r[a] = q[a]
        BY <4>1, <3>2, <2>5
      <4> QED BY <4>1, <4>2, <2>10
    <3>3. CASE a > c
      <4>1. a - 1 \in 1..(n - 1) /\ ~(a - 1 < c) /\ (a - 1) + 1 = a
        BY <3>1, <3>3, <2>7
      <4>2. r[a - 1] = q[a]
        BY <4>1, <2>5
      <4> QED BY <4>1, <4>2, <2>10
    <3> QED BY <3>1, <3>2, <3>3, <2>7
  <2> QED BY <2>6, <2>10, <2>11
<1> QED BY <1>1, <1>2

(***************************************************************************)
(* Changes of the state.                                                   *)
(***************************************************************************)
(* Only the table and the stack matter for Stacked.                        *)
LEMMA StackedFrame ==
  ASSUME NEW k, Stacked(k), NEW d \in State, d.table = k.table, d.stack = k.stack
  PROVE  Stacked(d)
BY DEF Stacked, Live

(* And the focus and the desktop for the rest.                             *)
LEMMA FocusedFrame ==
  ASSUME NEW k, Focused(k), NEW d \in State, d.table = k.table, d.stack = k.stack, d.focus = k.focus, d.ws = k.ws
  PROVE  Focused(d)
<1>1. Stacked(d)
  BY StackedFrame DEF Focused
<1> QED BY <1>1 DEF Focused, HasFocus, Shown, Live

(* The table with one slot set.                                            *)
Put(k, i, v) == [k EXCEPT !.table[i] = v]

(* A window that is changed in place keeps its number.                     *)
LEMMA SetWindow ==
  ASSUME NEW k, Stacked(k), NEW i \in Live(k), NEW v \in Window, v.id = k.table[i].id,
         NEW d, d = Put(k, i, v)
  PROVE  /\ Stacked(d) /\ Live(d) = Live(k)
         /\ d.table[i] = v /\ (\A j \in Slot \ {i} : d.table[j] = k.table[j])
         /\ d.stack = k.stack /\ d.focus = k.focus /\ d.ws = k.ws
<1>1. k \in State /\ i \in Slot /\ k.table \in Table
  BY DEF Stacked, Live, State
<1>2. PICK t : t = [k.table EXCEPT ![i] = v]
  OBVIOUS
<1>3. t \in Table /\ t[i] = v /\ \A j \in Slot \ {i} : t[j] = k.table[j]
  BY <1>1, <1>2 DEF Table
<1>4. d = [k EXCEPT !.table = t]
  BY <1>1, <1>2 DEF State, Put
<1>5. d \in State /\ d.table = t /\ d.stack = k.stack /\ d.focus = k.focus /\ d.ws = k.ws
  BY <1>1, <1>3, <1>4 DEF State
<1>6. v # Empty
  BY DEF Window, Empty, Number
<1>7. Live(d) = Live(k)
  BY <1>1, <1>3, <1>5, <1>6 DEF Live
<1>8. \A j \in Live(k) : d.table[j].id = k.table[j].id
  BY <1>1, <1>3, <1>5 DEF Live
<1>9. Stacked(d)
  BY <1>5, <1>7, <1>8 DEF Stacked
<1> QED BY <1>3, <1>5, <1>7, <1>9

(* The same window in another place.                                       *)
Alike(v, w) == v \in Window /\ v.id = w.id /\ v.ws = w.ws /\ v.min = w.min

(* Moving or resizing a window leaves the focus where it is.               *)
LEMMA SetShape ==
  ASSUME NEW k, Focused(k), NEW i \in Live(k), NEW v, Alike(v, k.table[i]),
         NEW d, d = Put(k, i, v)
  PROVE  Focused(d)
<1>1. /\ Stacked(d) /\ Live(d) = Live(k)
      /\ d.table[i] = v /\ (\A j \in Slot \ {i} : d.table[j] = k.table[j])
      /\ d.stack = k.stack /\ d.focus = k.focus /\ d.ws = k.ws
  <2>1. Stacked(k)
    BY DEF Focused
  <2>2. v \in Window /\ v.id = k.table[i].id
    BY DEF Alike
  <2> QED BY <2>1, <2>2, SetWindow
<1>2. k.table \in Table
  BY DEF Focused, Stacked, State
<1>3. \A j \in Live(k) : /\ d.table[j].id = k.table[j].id
                         /\ d.table[j].min = k.table[j].min /\ d.table[j].ws = k.table[j].ws
  BY <1>1, <1>2 DEF Table, Live, Alike
<1>4. \A j \in Slot : Shown(d, j) <=> Shown(k, j)
  BY <1>1, <1>3 DEF Shown
<1> QED BY <1>1, <1>3, <1>4 DEF Focused, HasFocus

(* The focus is given to a window that is not minimized.                   *)
LEMMA SetFocus ==
  ASSUME NEW k, Stacked(k), NEW i \in Live(k), ~k.table[i].min,
         NEW d, d = [k EXCEPT !.focus = k.table[i].id]
  PROVE  Focused(d)
<1>1. k \in State /\ k.table[i] \in Window
  BY LiveIsWindow DEF Stacked, Live
<1>2. k.table[i].id \in Number
  BY <1>1 DEF Window
<1>3. d \in State /\ d.table = k.table /\ d.stack = k.stack /\ d.focus = k.table[i].id
  BY <1>1, <1>2 DEF State, Number
<1>4. Stacked(d)
  BY <1>3, StackedFrame
<1>5. i \in Live(d) /\ d.table[i] = k.table[i]
  BY <1>3 DEF Live
<1> QED BY <1>2, <1>3, <1>4, <1>5 DEF Focused, HasFocus, Number, None

(* Whatever was removed or hidden, find_top_slot finds the focus.          *)
LEMMA FocusTopFocuses ==
  ASSUME NEW k, Stacked(k)
  PROVE  Focused(FocusTop(k))
<1>1. PICK S : S = {i \in Slot : Shown(k, i)}
  OBVIOUS
<1>2. S \in SUBSET Live(k) /\ \A i \in S : ~k.table[i].min
  BY <1>1 DEF Shown
<1>3. find_top_slot(k) = Topmost(k, S)
  BY <1>1 DEF find_top_slot
<1>4. CASE S = {}
  <2>1. find_top_slot(k) = None
    BY <1>3, <1>4 DEF Topmost
  <2>2. FocusTop(k) = [k EXCEPT !.focus = None]
    BY <2>1 DEF FocusTop
  <2>3. PICK d : d = [k EXCEPT !.focus = None]
    OBVIOUS
  <2>4. k \in State
    BY DEF Stacked
  <2>5. d \in State /\ d.table = k.table /\ d.stack = k.stack /\ d.focus = None /\ d.ws = k.ws
    BY <2>3, <2>4 DEF State, None
  <2>6. Stacked(d)
    BY <2>5, StackedFrame
  <2>7. \A i \in Slot : ~Shown(d, i)
    BY <2>5, <1>1, <1>4 DEF Shown, Live
  <2> QED BY <2>2, <2>3, <2>5, <2>6, <2>7 DEF Focused, HasFocus
<1>5. CASE S # {}
  <2>1. PICK i : i = find_top_slot(k)
    OBVIOUS
  <2>2. i \in S
    BY <1>2, <1>3, <1>5, <2>1, TopmostIn
  <2>3. i # None
    BY <1>1, <2>2 DEF Slot, None
  <2>4. FocusTop(k) = [k EXCEPT !.focus = k.table[i].id]
    BY <2>1, <2>3 DEF FocusTop
  <2>5. i \in Live(k) /\ ~k.table[i].min
    BY <1>2, <2>2
  <2> QED BY <2>4, <2>5, SetFocus
<1> QED BY <1>4, <1>5

(* The same state with the window on top.                                  *)
Lifted(k, d, id) ==
  /\ Stacked(d) /\ d = [k EXCEPT !.stack = d.stack] /\ d.stack \in Seq(Nat)
  /\ \A a \in DOMAIN k.stack : \E b \in DOMAIN d.stack : d.stack[b] = k.stack[a]
  /\ \E b \in DOMAIN d.stack : d.stack[b] = id

(* Lifting a window changes the order only.                                *)
LEMMA LiftStacks ==
  ASSUME NEW k, Stacked(k), NEW id \in Number, NEW d, d = Lift(k, id)
  PROVE  Lifted(k, d, id)
<1>1. k \in State /\ k.stack \in Seq(Nat) /\ id \in Nat
  BY DEF Stacked, State, Number
<1>2. PICK r : r = Without(k.stack, id)
  OBVIOUS
<1>3. /\ r \in Seq(Nat)
      /\ \A a \in DOMAIN k.stack : k.stack[a] # id => \E b \in DOMAIN r : r[b] = k.stack[a]
  BY <1>1, <1>2, WithoutKeeps
<1>4. PICK q : q = Append(r, id)
  OBVIOUS
<1>5. /\ q \in Seq(Nat) /\ DOMAIN q = 1..(Len(r) + 1) /\ q[Len(r) + 1] = id
      /\ \A b \in 1..Len(r) : q[b] = r[b]
  BY <1>1, <1>3, <1>4
<1>6. d = [k EXCEPT !.stack = q]
  BY <1>2, <1>4 DEF Lift
<1>7. d.stack = q /\ d \in State /\ d.table = k.table
  BY <1>1, <1>5, <1>6 DEF State
<1>8. Len(r) + 1 \in DOMAIN q
  BY <1>3, <1>5
<1>9. ASSUME NEW a \in DOMAIN k.stack
      PROVE  \E b \in DOMAIN q : q[b] = k.stack[a]
  <2>1. CASE k.stack[a] = id
    BY <2>1, <1>5, <1>8
  <2>2. CASE k.stack[a] # id
    <3>1. PICK b \in DOMAIN r : r[b] = k.stack[a]
      BY <2>2, <1>3
    <3>2. b \in 1..Len(r) /\ b \in 1..(Len(r) + 1)
      BY <1>3
    <3> QED BY <3>1, <3>2, <1>5
  <2> QED BY <2>1, <2>2
<1>10. \A i \in Live(k) : \E b \in DOMAIN q : q[b] = k.table[i].id
  BY <1>9 DEF Stacked
<1>11. Stacked(d)
  BY <1>7, <1>10 DEF Stacked, Live
<1> QED BY <1>5, <1>6, <1>7, <1>8, <1>9, <1>11 DEF Lifted

(* A window that goes leaves the others as they were.                      *)
LEMMA DropStacks ==
  ASSUME NEW k, Stacked(k), NEW id \in Ids(k), NEW d, d = Drop(k, id)
  PROVE  /\ Stacked(d) /\ d.focus = k.focus /\ d.ws = k.ws
         /\ \A i \in Slot : i \in Live(d) <=> i \in Live(k) /\ k.table[i].id # id
         /\ \A i \in Live(d) : d.table[i] = k.table[i]
<1>1. PICK c : c = find_slot(k, id)
  OBVIOUS
<1>2. c \in Live(k) /\ k.table[c].id = id /\ id \in Number
  BY <1>1, FindSlot
<1>3. k \in State /\ k.stack \in Seq(Nat) /\ k.table \in Table /\ id \in Nat /\ c \in Slot
  BY <1>2 DEF Stacked, State, Number, Live
<1>4. PICK r : r = Without(k.stack, id)
  OBVIOUS
<1>5. /\ r \in Seq(Nat)
      /\ \A a \in DOMAIN k.stack : k.stack[a] # id => \E b \in DOMAIN r : r[b] = k.stack[a]
  BY <1>3, <1>4, WithoutKeeps
<1>6. PICK t : t = [k.table EXCEPT ![c] = Empty]
  OBVIOUS
<1>7. t \in Table /\ t[c] = Empty /\ \A j \in Slot \ {c} : t[j] = k.table[j]
  BY <1>3, <1>6 DEF Table
<1>8. d = [k EXCEPT !.table = t, !.stack = r]
  BY <1>1, <1>3, <1>4, <1>6 DEF Drop, State
<1>9. d \in State /\ d.table = t /\ d.stack = r /\ d.focus = k.focus /\ d.ws = k.ws
  BY <1>3, <1>5, <1>7, <1>8 DEF State
<1>10. \A i \in Live(k) : k.table[i].id = id <=> i = c
  BY <1>2 DEF Stacked
<1>11. \A i \in Slot : i \in Live(d) <=> i \in Live(k) /\ k.table[i].id # id
  BY <1>2, <1>7, <1>9, <1>10 DEF Live
<1>12. \A i \in Live(d) : d.table[i] = k.table[i] /\ i \in Live(k) /\ k.table[i].id # id
  <2> TAKE i \in Live(d)
  <2>1. i \in Slot
    BY DEF Live
  <2>2. i \in Live(k) /\ k.table[i].id # id
    BY <2>1, <1>11
  <2>3. i # c
    BY <2>2, <1>2
  <2> QED BY <2>1, <2>2, <2>3, <1>7, <1>9
<1>13. \A i \in Live(d) : \E b \in DOMAIN d.stack : d.stack[b] = d.table[i].id
  <2> TAKE i \in Live(d)
  <2>1. PICK a \in DOMAIN k.stack : k.stack[a] = k.table[i].id
    BY <1>12 DEF Stacked
  <2>2. k.stack[a] # id
    BY <2>1, <1>12
  <2> QED BY <2>1, <2>2, <1>5, <1>9, <1>12
<1>14. \A i, j \in Live(d) : d.table[i].id = d.table[j].id => i = j
  BY <1>12 DEF Stacked
<1>15. Stacked(d)
  BY <1>9, <1>13, <1>14 DEF Stacked
<1> QED BY <1>9, <1>11, <1>12, <1>15

(* A window without the focus goes.                                        *)
LEMMA DropKeepsFocus ==
  ASSUME NEW k, Focused(k), NEW id \in Ids(k), k.focus # id, NEW d, d = Drop(k, id)
  PROVE  Focused(d)
<1>1. Stacked(k)
  BY DEF Focused
<1>2. /\ Stacked(d) /\ d.focus = k.focus /\ d.ws = k.ws
      /\ \A i \in Slot : i \in Live(d) <=> i \in Live(k) /\ k.table[i].id # id
      /\ \A i \in Live(d) : d.table[i] = k.table[i]
  BY <1>1, DropStacks
<1>3. \A i \in Live(k) : i \in Slot
  BY DEF Live
<1>4. \A i \in Slot : Shown(d, i) => Shown(k, i)
  BY <1>2 DEF Shown
<1> QED BY <1>2, <1>3, <1>4 DEF Focused, HasFocus

(* A raised window has the focus (Raise).                                  *)
LEMMA RaiseFocuses ==
  ASSUME NEW k, Stacked(k), NEW id \in Ids(k), NEW d, d = Raise(k, id)
  PROVE  Focused(d) /\ d.focus = id
<1>1. PICK c : c = find_slot(k, id)
  OBVIOUS
<1>2. c \in Live(k) /\ k.table[c].id = id /\ id \in Number
  BY <1>1, FindSlot
<1>3. PICK u : u = Lift(k, id)
  OBVIOUS
<1>4. Stacked(u) /\ u = [k EXCEPT !.stack = u.stack] /\ u.stack \in Seq(Nat)
  <2>1. Lifted(k, u, id)
    BY <1>2, <1>3, LiftStacks
  <2> QED BY <2>1 DEF Lifted
<1>5. k \in State /\ u \in State
  BY <1>4 DEF Stacked
<1>6. u.table = k.table
  BY <1>4, <1>5 DEF State
<1>7. c \in Live(u) /\ u.table[c].id = id /\ c \in Slot
  BY <1>2, <1>6 DEF Live
<1>8. u.table[c] \in Window
  BY <1>5, <1>7, LiveIsWindow
<1>9. PICK v : v = [u.table[c] EXCEPT !.min = FALSE]
  OBVIOUS
<1>10. v \in Window /\ v.id = id /\ ~v.min
  BY <1>7, <1>8, <1>9 DEF Window
<1>11. PICK e : e = Put(u, c, v)
  OBVIOUS
<1>12. /\ Stacked(e) /\ Live(e) = Live(u)
       /\ e.table[c] = v /\ (\A j \in Slot \ {c} : e.table[j] = u.table[j])
       /\ e.stack = u.stack /\ e.focus = u.focus /\ e.ws = u.ws
  BY <1>4, <1>7, <1>10, <1>11, SetWindow
<1>13. e.table[c] = v
  BY <1>5, <1>7, <1>12 DEF State, Table
<1>14. d = [e EXCEPT !.focus = e.table[c].id]
  <2>1. d = [u EXCEPT !.table[c].min = FALSE, !.focus = id]
    BY <1>1, <1>3 DEF Raise
  <2> QED BY <2>1, <1>5, <1>7, <1>9, <1>10, <1>11, <1>13 DEF State, Table, Put
<1>15. Focused(d)
  BY <1>7, <1>10, <1>12, <1>13, <1>14, SetFocus
<1>16. e \in State
  BY <1>12 DEF Stacked
<1> QED BY <1>10, <1>13, <1>14, <1>15, <1>16 DEF State

(***************************************************************************)
(* Windows in new places.                                                  *)
(***************************************************************************)
(* Placed changes where a window is.                                       *)
LEMMA PlacedAlike ==
  ASSUME NEW w \in Window, NEW g, {g.x, g.y} \subseteq Int, {g.w, g.h} \subseteq Nat
  PROVE  Alike(Placed(w, g), w)
BY DEF Alike, Placed, Window

(* Remembered keeps where it was.                                          *)
LEMMA RememberedAlike ==
  ASSUME NEW w \in Window
  PROVE  Alike(Remembered(w), w)
BY DEF Alike, Remembered, Window, Place

(* The mark of a maximized window.                                        *)
LEMMA MaximumAlike ==
  ASSUME NEW w \in Window, NEW b \in BOOLEAN
  PROVE  Alike([w EXCEPT !.max = b], w)
BY DEF Alike, Window

(* Two changes of place are one.                                           *)
LEMMA AlikeTwice ==
  ASSUME NEW u, NEW v, NEW w, Alike(u, v), Alike(v, w)
  PROVE  Alike(u, w)
BY DEF Alike

(* A snapped window is on the screen (snap_geometry).                      *)
LEMMA SnapPlaces ==
  ASSUME CompositorConstants, NEW t
  PROVE  LET g == snap_geometry(t) IN {g.x, g.y} \subseteq Int /\ {g.w, g.h} \subseteq Nat
<1>1. /\ SCREEN_WIDTH \in Nat /\ SCREEN_HEIGHT \in Nat /\ TITLE_HEIGHT \in Nat /\ RESERVED_TOP \in Nat
      /\ RESERVED_BOTTOM \in Nat /\ RESERVED_TOP + TITLE_HEIGHT + RESERVED_BOTTOM <= SCREEN_HEIGHT
  BY DEF CompositorConstants
<1>2. PICK half : half = SCREEN_WIDTH \div 2
  OBVIOUS
<1>3. half \in Nat /\ SCREEN_WIDTH - half \in Nat
  BY <1>1, <1>2
<1>4. PICK y : y = RESERVED_TOP + TITLE_HEIGHT
  OBVIOUS
<1>5. y \in Nat /\ SCREEN_HEIGHT - RESERVED_BOTTOM - y \in Nat
  BY <1>1, <1>4
<1>6. snap_geometry(t) =
        [x |-> IF t = "right" THEN half ELSE 0, y |-> y,
         w |-> CASE t = "left" -> half [] t = "right" -> SCREEN_WIDTH - half [] OTHER -> SCREEN_WIDTH,
         h |-> SCREEN_HEIGHT - RESERVED_BOTTOM - y]
  BY <1>2, <1>4 DEF snap_geometry
<1>7. (CASE t = "left" -> half [] t = "right" -> SCREEN_WIDTH - half [] OTHER -> SCREEN_WIDTH) \in Nat
  BY <1>1, <1>3
<1> QED BY <1>3, <1>5, <1>6, <1>7

(* Maximizing a window that is not minimized, and back (toggle_maximize).  *)
LEMMA ToggleAlike ==
  ASSUME CompositorConstants, NEW w \in Window, ~w.min
  PROVE  Alike(toggle_maximize(w), w)
<1>2. ASSUME NEW v, Alike(v, w), NEW b \in BOOLEAN
      PROVE  Alike([v EXCEPT !.max = b, !.min = FALSE], w)
  BY <1>2 DEF Alike, Window
<1>3. CASE w.max
  <2>1. {w.restore.x, w.restore.y} \subseteq Int /\ {w.restore.w, w.restore.h} \subseteq Nat
    BY DEF Window, Place
  <2>2. Alike(Placed(w, w.restore), w)
    BY <2>1, PlacedAlike
  <2> QED BY <2>2, <1>2, <1>3 DEF toggle_maximize
<1>4. CASE ~w.max
  <2>1. PICK u : u = Remembered(w)
    OBVIOUS
  <2>2. Alike(u, w) /\ u \in Window
    BY <2>1, RememberedAlike DEF Alike
  <2>3. PICK g : g = snap_geometry("full")
    OBVIOUS
  <2>4. {g.x, g.y} \subseteq Int /\ {g.w, g.h} \subseteq Nat
    BY <2>3, SnapPlaces
  <2>5. Alike(Placed(u, g), u)
    BY <2>2, <2>4, PlacedAlike
  <2>6. Alike(Placed(u, g), w)
    BY <2>2, <2>5, AlikeTwice
  <2> QED BY <2>1, <2>3, <2>6, <1>2, <1>4 DEF toggle_maximize
<1> QED BY <1>3, <1>4

(***************************************************************************)
(* The mouse.                                                              *)
(***************************************************************************)
Point == Int \X Int

(* The pointer stays on the screen's coordinates (Clamped).                *)
LEMMA ClampedPoint ==
  ASSUME CompositorConstants, NEW q \in Points
  PROVE  Clamped(q) \in Point
<1>1. q \in Int \X Int /\ SCREEN_WIDTH \in Nat /\ SCREEN_HEIGHT \in Nat
  BY DEF CompositorConstants
<1>2. q[1] \in Int /\ q[2] \in Int
  BY <1>1
<1> QED BY <1>1, <1>2 DEF Clamped, Point, Lesser, Greater

(* Dragging moves the window that is dragged, wherever the pointer is.     *)
LEMMA DraggedKeepsFocus ==
  ASSUME CompositorConstants, NEW k, Focused(k), k.drag.id \in Ids(k), NEW p \in Point
  PROVE  Focused(Dragged(k, p))
<1>1. Stacked(k) /\ k \in State
  BY DEF Focused, Stacked
<1>2. PICK c : c = find_slot(k, k.drag.id)
  OBVIOUS
<1>3. c \in Live(k) /\ c \in Slot
  BY <1>1, <1>2, FindSlot DEF Live
<1>4. PICK old : old = k.table[c]
  OBVIOUS
<1>5. old \in Window
  BY <1>1, <1>3, <1>4, LiveIsWindow
<1>6. PICK width : width = Lesser(Greater(old.restore.w, MIN_WINDOW[1]), SCREEN_WIDTH)
  OBVIOUS
<1>7. PICK height : height = Lesser(Greater(old.restore.h, MIN_WINDOW[2]),
                                    SCREEN_HEIGHT - RESERVED_BOTTOM - RESERVED_TOP - TITLE_HEIGHT)
  OBVIOUS
<1>8. /\ SCREEN_WIDTH \in Nat /\ SCREEN_HEIGHT \in Nat /\ TITLE_HEIGHT \in Nat /\ RESERVED_TOP \in Nat
      /\ RESERVED_BOTTOM \in Nat /\ RESERVED_TOP + TITLE_HEIGHT + RESERVED_BOTTOM <= SCREEN_HEIGHT
      /\ MIN_WINDOW[1] \in Nat /\ MIN_WINDOW[2] \in Nat
  BY DEF CompositorConstants
<1>9. /\ old.restore.w \in Nat /\ old.restore.h \in Nat /\ old.x \in Int /\ old.w \in Nat /\ old.h \in Nat
      /\ old.max \in BOOLEAN
  BY <1>5 DEF Window, Place
<1>10. width \in Nat /\ height \in Nat
  BY <1>6, <1>7, <1>8, <1>9 DEF Lesser, Greater
<1>11. PICK grab : grab = IF old.max THEN (Lesser(Greater(p[1] - old.x, 0), old.w) * width) \div Greater(old.w, 1)
                          ELSE k.drag.gx
  OBVIOUS
<1>12. p[1] \in Int /\ p[2] \in Int /\ k.drag.gx \in Int /\ k.drag.gy \in Int
  BY <1>1 DEF Point, State
<1>13. grab \in Int
  <2>1. PICK a \in Nat : a = Lesser(Greater(p[1] - old.x, 0), old.w)
    BY <1>9, <1>12 DEF Lesser, Greater
  <2>2. PICK b \in Nat : b = Greater(old.w, 1) /\ b > 0
    BY <1>9 DEF Greater
  <2>3. a * width \in Int
    BY <2>1, <1>10
  <2>4. (a * width) \div b \in Int
    BY <2>2, <2>3
  <2> QED BY <2>1, <2>2, <2>4, <1>11, <1>12
<1>14. PICK w : w = IF old.max THEN [old EXCEPT !.w = width, !.h = height] ELSE old
  OBVIOUS
<1>15. Alike(w, old)
  BY <1>5, <1>10, <1>14 DEF Alike, Window
<1>16. PICK x : x = Lesser(Greater(p[1] - grab, 0), SCREEN_WIDTH - Lesser(w.w, SCREEN_WIDTH))
  OBVIOUS
<1>17. PICK y : y = Lesser(Greater(p[2] - k.drag.gy, RESERVED_TOP + TITLE_HEIGHT),
                           SCREEN_HEIGHT - RESERVED_BOTTOM - Lesser(w.h, SCREEN_HEIGHT - RESERVED_BOTTOM))
  OBVIOUS
<1>18. x \in Int /\ y \in Int
  <2>1. w.w \in Nat /\ w.h \in Nat
    BY <1>15 DEF Alike, Window
  <2>2. x \in Int
    BY <2>1, <1>8, <1>12, <1>13, <1>16 DEF Lesser, Greater
  <2>3. y \in Int
    BY <2>1, <1>8, <1>12, <1>17 DEF Lesser, Greater
  <2> QED BY <2>2, <2>3
<1>19. PICK v : v = [w EXCEPT !.x = x, !.y = y, !.max = FALSE]
  OBVIOUS
<1>20. Alike(v, old)
  BY <1>15, <1>18, <1>19 DEF Alike, Window
<1>21. PICK e : e = Put(k, c, v)
  OBVIOUS
<1>22. Focused(e)
  BY <1>3, <1>4, <1>20, <1>21, SetShape
<1>23. PICK d : d = Dragged(k, p)
  OBVIOUS
<1>24. d = [k EXCEPT !.table[c] = v, !.drag.gx = grab]
  BY <1>2, <1>4, <1>6, <1>7, <1>11, <1>14, <1>16, <1>17, <1>19, <1>23 DEF Dragged
<1>25. d = [e EXCEPT !.drag.gx = grab]
  BY <1>1, <1>21, <1>24 DEF Put, State
<1>26. e \in State
  BY <1>22 DEF Focused, Stacked
<1>27. /\ d \in State /\ d.table = e.table /\ d.stack = e.stack /\ d.focus = e.focus /\ d.ws = e.ws
  BY <1>13, <1>25, <1>26 DEF State
<1>28. Focused(d)
  BY <1>22, <1>27, FocusedFrame
<1> QED BY <1>23, <1>28

(* Resizing too, also when the height wraps around.                        *)
LEMMA ResizedKeepsFocus ==
  ASSUME CompositorConstants, NEW k, Focused(k), k.resize.id \in Ids(k), NEW p \in Point
  PROVE  Focused(Resized(k, p))
<1>1. Stacked(k) /\ k \in State
  BY DEF Focused, Stacked
<1>2. PICK c : c = find_slot(k, k.resize.id)
  OBVIOUS
<1>3. c \in Live(k) /\ c \in Slot
  BY <1>1, <1>2, FindSlot DEF Live
<1>4. PICK w : w = k.table[c]
  OBVIOUS
<1>5. w \in Window
  BY <1>1, <1>3, <1>4, LiveIsWindow
<1>6. PICK width : width = Lesser(Greater(k.resize.w + p[1] - k.resize.gx, MIN_WINDOW[1]), SCREEN_WIDTH - w.x)
  OBVIOUS
<1>7. PICK height : height = Lesser(Greater(k.resize.h + p[2] - k.resize.gy, MIN_WINDOW[2]),
                                    SCREEN_HEIGHT - RESERVED_BOTTOM - w.y)
  OBVIOUS
<1>8. /\ SCREEN_WIDTH \in Nat /\ SCREEN_HEIGHT \in Nat /\ RESERVED_BOTTOM \in Nat
      /\ MIN_WINDOW[1] \in Nat /\ MIN_WINDOW[2] \in Nat /\ WORD \in Nat /\ WORD > 0
  BY DEF CompositorConstants
<1>9. /\ p[1] \in Int /\ p[2] \in Int /\ w.x \in Int /\ w.y \in Int
      /\ k.resize.w \in Int /\ k.resize.h \in Int /\ k.resize.gx \in Int /\ k.resize.gy \in Int
  BY <1>1, <1>5 DEF Point, State, Window
<1>10. width \in Int
  BY <1>6, <1>8, <1>9 DEF Lesser, Greater
<1>11. height \in Int
  BY <1>7, <1>8, <1>9 DEF Lesser, Greater
<1>12. Wrap(width) \in Nat /\ Wrap(height) \in Nat
  BY <1>8, <1>10, <1>11 DEF Wrap
<1>13. PICK v : v = [w EXCEPT !.w = Wrap(width), !.h = Wrap(height), !.max = FALSE]
  OBVIOUS
<1>14. Alike(v, w)
  BY <1>5, <1>12, <1>13 DEF Alike, Window
<1>15. Resized(k, p) = Put(k, c, v)
  BY <1>2, <1>4, <1>6, <1>7, <1>13 DEF Resized, Put
<1> QED BY <1>3, <1>4, <1>14, <1>15, SetShape

(* No gesture.                                                             *)
LEMMA NoGesture ==
  /\ NoDrag \in [id : Nat, gx : Int, gy : Int]
  /\ NoResize \in [id : Nat, gx : Int, gy : Int, w : Int, h : Int]
BY DEF NoDrag, NoResize, None

(* The mouse moves: a drag, a resize, or nothing of the table (MouseMove). *)
LEMMA MouseMoveKeepsFocus ==
  ASSUME CompositorConstants, Focused(s), NEW q \in Points, MouseMove(q)
  PROVE  Focused(s')
<1>1. PICK p : p = Clamped(q)
  OBVIOUS
<1>2. p \in Point
  BY <1>1, ClampedPoint
<1>3. PICK n : n = IF s.launcher /\ launcher_cell_at(p) # {} THEN CHOOSE c \in launcher_cell_at(p) : TRUE ELSE s.selection
  OBVIOUS
<1>4. s \in State /\ s.selection \in Int
  BY DEF Focused, Stacked, State
<1>5. n \in Int
  <2>1. \A c \in launcher_cell_at(p) : c \in Int
    <3>1. p[2] \in Int /\ RESERVED_TOP \in Nat
      BY <1>2 DEF Point, CompositorConstants
    <3> QED BY <3>1 DEF launcher_cell_at
  <2>2. launcher_cell_at(p) # {} => (CHOOSE c \in launcher_cell_at(p) : TRUE) \in launcher_cell_at(p)
    OBVIOUS
  <2> QED BY <2>1, <2>2, <1>3, <1>4
<1>6. PICK k : k = [s EXCEPT !.selection = n]
  OBVIOUS
<1>7. k \in State /\ k.table = s.table /\ k.stack = s.stack /\ k.focus = s.focus /\ k.ws = s.ws
  BY <1>4, <1>5, <1>6 DEF State
<1>8. Focused(k)
  BY <1>7, FocusedFrame
<1>9. s' = IF k.drag.id # None
           THEN IF k.drag.id \in Ids(k) THEN Dragged(k, p) ELSE [k EXCEPT !.drag = NoDrag]
           ELSE IF k.resize.id # None
           THEN IF k.resize.id \in Ids(k) THEN Resized(k, p) ELSE [k EXCEPT !.resize = NoResize]
           ELSE k
  BY <1>1, <1>3, <1>6 DEF MouseMove
<1>10. CASE s' = Dragged(k, p) /\ k.drag.id \in Ids(k)
  BY <1>2, <1>8, <1>10, DraggedKeepsFocus
<1>11. CASE s' = Resized(k, p) /\ k.resize.id \in Ids(k)
  BY <1>2, <1>8, <1>11, ResizedKeepsFocus
<1>12. CASE s' = [k EXCEPT !.drag = NoDrag]
  <2>1. s' \in State /\ s'.table = k.table /\ s'.stack = k.stack /\ s'.focus = k.focus /\ s'.ws = k.ws
    BY <1>7, <1>12, NoGesture DEF State
  <2> QED BY <2>1, <1>8, FocusedFrame
<1>13. CASE s' = [k EXCEPT !.resize = NoResize]
  <2>1. s' \in State /\ s'.table = k.table /\ s'.stack = k.stack /\ s'.focus = k.focus /\ s'.ws = k.ws
    BY <1>7, <1>13, NoGesture DEF State
  <2> QED BY <2>1, <1>8, FocusedFrame
<1>14. CASE s' = k
  BY <1>8, <1>14
<1> QED BY <1>9, <1>10, <1>11, <1>12, <1>13, <1>14

(* A window is minimized, and the next one has the focus (Minimized).      *)
LEMMA MinimizedFocuses ==
  ASSUME NEW k, Stacked(k), NEW id \in Ids(k)
  PROVE  Focused(Minimized(k, id))
<1>1. PICK c : c = find_slot(k, id)
  OBVIOUS
<1>2. c \in Live(k) /\ c \in Slot /\ k \in State
  BY <1>1, FindSlot DEF Live, Stacked
<1>3. PICK v : v = [k.table[c] EXCEPT !.min = TRUE]
  OBVIOUS
<1>4. v \in Window /\ v.id = k.table[c].id
  <2>1. PICK w \in Window : w = k.table[c]
    BY <1>2, LiveIsWindow
  <2>2. v = [w EXCEPT !.min = TRUE]
    BY <1>3, <2>1
  <2>3. v \in Window /\ v.id = w.id
    BY <2>2 DEF Window
  <2> QED BY <2>1, <2>3
<1>5. PICK e : e = Put(k, c, v)
  OBVIOUS
<1>6. Stacked(e)
  BY <1>2, <1>4, <1>5, SetWindow
<1>7. e = [k EXCEPT !.table[c].min = TRUE]
  BY <1>2, <1>3, <1>5 DEF Put, State, Table
<1>8. Minimized(k, id) = FocusTop(e)
  BY <1>1, <1>7 DEF Minimized
<1> QED BY <1>6, <1>8, FocusTopFocuses

(* A window is closed from its title (close_window).                       *)
LEMMA CloseFocuses ==
  ASSUME NEW k, Stacked(k), NEW i \in Live(k)
  PROVE  Focused(close_window(k, i))
<1>1. k.table[i].id \in Ids(k)
  BY DEF Ids
<1>2. Stacked(Drop(k, k.table[i].id))
  BY <1>1, DropStacks
<1> QED BY <1>2, FocusTopFocuses DEF close_window

Up(k, id) == [Lift(k, id) EXCEPT !.focus = id]

(* A window is lifted and gets the focus.                                  *)
LEMMA LiftFocuses ==
  ASSUME NEW k, Stacked(k), NEW i \in Live(k), ~k.table[i].min, NEW id, id = k.table[i].id,
         NEW d, d = Up(k, id)
  PROVE  Focused(d) /\ d.table = k.table /\ d.focus = id
<1>1. k \in State /\ k.table[i] \in Window
  BY LiveIsWindow DEF Stacked, Live
<1>2. id \in Number
  BY <1>1 DEF Window
<1>3. PICK u : u = Lift(k, id)
  OBVIOUS
<1>4. Stacked(u) /\ u = [k EXCEPT !.stack = u.stack] /\ u.stack \in Seq(Nat)
  <2>1. Lifted(k, u, id)
    BY <1>2, <1>3, LiftStacks
  <2> QED BY <2>1 DEF Lifted
<1>5. u \in State /\ u.table = k.table
  BY <1>1, <1>4 DEF State, Stacked
<1>6. i \in Live(u) /\ ~u.table[i].min /\ u.table[i].id = id
  BY <1>5 DEF Live
<1>7. d = [u EXCEPT !.focus = u.table[i].id]
  BY <1>3, <1>6 DEF Up
<1>8. Focused(d)
  BY <1>4, <1>6, <1>7, SetFocus
<1>9. d.table = u.table /\ d.focus = u.table[i].id
  BY <1>5, <1>7 DEF State
<1> QED BY <1>5, <1>6, <1>8, <1>9

(* A press on a title: close, maximize, minimize or the start of a drag    *)
(* (TitlePressed).                                                         *)
LEMMA TitleFocuses ==
  ASSUME CompositorConstants, NEW k, Focused(k), NEW i \in Live(k), ~k.table[i].min, NEW p \in Point
  PROVE  Focused(TitlePressed(k, k.table[i].id, p))
<1>1. PICK id : id = k.table[i].id
  OBVIOUS
<1>2. Stacked(k) /\ k \in State /\ id \in Ids(k)
  BY <1>1 DEF Focused, Stacked, Ids
<1>3. PICK c : c = find_slot(k, id)
  OBVIOUS
<1>4. c = i
  <2>1. c \in Live(k) /\ k.table[c].id = id
    BY <1>2, <1>3, FindSlot
  <2> QED BY <2>1, <1>1, <1>2 DEF Stacked
<1>5. PICK w : w = k.table[i]
  OBVIOUS
<1>6. w \in Window /\ ~w.min
  BY <1>2, <1>5, LiveIsWindow DEF Live
<1>7. PICK up : up = Up(k, id)
  OBVIOUS
<1>8. Focused(up) /\ up.table = k.table /\ up.focus = id
  BY <1>1, <1>2, <1>7, LiftFocuses
<1>9. Stacked(up) /\ up \in State /\ i \in Live(up) /\ id \in Ids(up)
  BY <1>1, <1>2, <1>8 DEF Focused, Stacked, Live, Ids
<1>10. PICK f : f = title_control_at(w, p[1] - w.x)
  OBVIOUS
<1>11. PICK d : d = TitlePressed(k, id, p)
  OBVIOUS
<1>12. d = CASE f = "close" -> close_window(up, i)
             [] f = "maximize" -> [up EXCEPT !.table[i] = toggle_maximize(@)]
             [] f = "minimize" -> [Minimized(up, id) EXCEPT !.drag = NoDrag, !.resize = NoResize]
             [] OTHER -> [up EXCEPT !.drag = [id |-> id, gx |-> p[1] - w.x, gy |-> p[2] - w.y]]
  BY <1>3, <1>4, <1>5, <1>7, <1>10, <1>11 DEF TitlePressed, Up
<1>13. CASE f = "close"
  <2>1. d = close_window(up, i)
    BY <1>12, <1>13
  <2> QED BY <2>1, <1>1, <1>9, <1>11, CloseFocuses
<1>14. CASE f = "maximize"
  <2>1. d = [up EXCEPT !.table[i] = toggle_maximize(@)]
    BY <1>12, <1>14
  <2>2. PICK v : v = toggle_maximize(w)
    OBVIOUS
  <2>3. Alike(v, w)
    BY <2>2, <1>6, ToggleAlike
  <2>4. d = Put(up, i, v)
    BY <2>1, <2>2, <1>5, <1>8 DEF Put
  <2> QED BY <2>3, <2>4, <1>1, <1>5, <1>8, <1>9, <1>11, SetShape
<1>15. CASE f = "minimize"
  <2>1. PICK e : e = Minimized(up, id)
    OBVIOUS
  <2>2. Focused(e) /\ e \in State
    BY <2>1, <1>9, MinimizedFocuses DEF Focused, Stacked
  <2>3. d = [e EXCEPT !.drag = NoDrag, !.resize = NoResize]
    BY <2>1, <1>12, <1>15
  <2>4. d \in State /\ d.table = e.table /\ d.stack = e.stack /\ d.focus = e.focus /\ d.ws = e.ws
    BY <2>2, <2>3, NoGesture DEF State
  <2> QED BY <2>2, <2>4, <1>1, <1>11, FocusedFrame
<1>16. CASE f \notin {"close", "maximize", "minimize"}
  <2>1. PICK g : g = [id |-> id, gx |-> p[1] - w.x, gy |-> p[2] - w.y]
    OBVIOUS
  <2>2. d = [up EXCEPT !.drag = g]
    BY <2>1, <1>12, <1>16
  <2>3. id \in Nat /\ p[1] \in Int /\ p[2] \in Int /\ w.x \in Int /\ w.y \in Int
    BY <1>1, <1>5, <1>6 DEF Window, Number, Point
  <2>4. g \in [id : Nat, gx : Int, gy : Int]
    BY <2>1, <2>3
  <2>5. d \in State /\ d.table = up.table /\ d.stack = up.stack /\ d.focus = up.focus /\ d.ws = up.ws
    BY <2>2, <2>4, <1>9 DEF State
  <2> QED BY <2>5, <1>1, <1>8, <1>11, FocusedFrame
<1> QED BY <1>13, <1>14, <1>15, <1>16

(* A press in a window: it comes up, and a corner starts a resize          *)
(* (BodyPressed).                                                          *)
LEMMA BodyFocuses ==
  ASSUME NEW k, Focused(k), NEW i \in Live(k), ~k.table[i].min, NEW p \in Point
  PROVE  Focused(BodyPressed(k, k.table[i].id, p))
<1>1. PICK id : id = k.table[i].id
  OBVIOUS
<1>2. Stacked(k) /\ k \in State /\ id \in Ids(k)
  BY <1>1 DEF Focused, Stacked, Ids
<1>3. PICK w : w = k.table[find_slot(k, id)]
  OBVIOUS
<1>4. w \in Window /\ id \in Nat
  BY <1>2, <1>3, FindSlot, LiveIsWindow DEF Live, Number
<1>5. PICK up : up = Up(k, id)
  OBVIOUS
<1>6. Focused(up) /\ up \in State
  <2>1. Focused(up)
    BY <1>1, <1>2, <1>5, LiftFocuses
  <2> QED BY <2>1 DEF Focused, Stacked
<1>7. PICK g : g = [id |-> id, gx |-> p[1], gy |-> p[2], w |-> w.w, h |-> w.h]
  OBVIOUS
<1>8. g \in [id : Nat, gx : Int, gy : Int, w : Int, h : Int]
  <2>1. p[1] \in Int /\ p[2] \in Int /\ w.w \in Int /\ w.h \in Int
    BY <1>4 DEF Point, Window
  <2> QED BY <2>1, <1>4, <1>7
<1>9. BodyPressed(k, id, p) = IF hits_resize_corner(w, p) THEN [up EXCEPT !.resize = g] ELSE up
  BY <1>3, <1>5, <1>7 DEF BodyPressed, Up
<1>10. PICK d : d = [up EXCEPT !.resize = g]
  OBVIOUS
<1>11. d \in State /\ d.table = up.table /\ d.stack = up.stack /\ d.focus = up.focus /\ d.ws = up.ws
  BY <1>6, <1>8, <1>10 DEF State
<1>12. Focused(d)
  BY <1>6, <1>11, FocusedFrame
<1> QED BY <1>1, <1>6, <1>9, <1>10, <1>12

(* A set of slots has a first one.                                         *)
LEMMA FirstPlace ==
  ASSUME CompositorConstants, NEW T, T \subseteq Slot, T # {}
  PROVE  (CHOOSE i \in T : \A j \in T : i <= j) \in T
<1>1. PICK n \in Nat : n = WINDOW_LIMIT
  BY DEF CompositorConstants
<1> QED BY <1>1, LeastPlace DEF Slot

(* The launcher raises the window it finds, on the window's own desktop    *)
(* (activate_launcher_cell).                                               *)
LEMMA ActivateFocuses ==
  ASSUME CompositorConstants, NEW k, Focused(k), NEW cell
  PROVE  Focused(activate_launcher_cell(k, cell))
<1>1. PICK T : T = find_window_by_title(k, Entry[cell + 1])
  OBVIOUS
<1>2. T \subseteq Live(k) /\ T \subseteq Slot /\ Stacked(k) /\ k \in State
  BY <1>1 DEF find_window_by_title, Live, Focused, Stacked
<1>3. CASE T = {}
  BY <1>1, <1>3 DEF activate_launcher_cell
<1>4. CASE T # {}
  <2>1. PICK c : c = CHOOSE i \in T : \A j \in T : i <= j
    OBVIOUS
  <2>2. c \in T
    BY <1>2, <1>4, <2>1, FirstPlace
  <2>3. k.table[c] \in Window /\ k.table[c].id \in Ids(k)
    BY <2>2, <1>2, LiveIsWindow DEF Ids
  <2>4. PICK e : e = Raise(k, k.table[c].id)
    OBVIOUS
  <2>5. Focused(e) /\ e.focus = k.table[c].id
    BY <2>3, <2>4, <1>2, RaiseFocuses
  <2>6. PICK d : d = [e EXCEPT !.ws = k.table[c].ws]
    OBVIOUS
  <2>7. activate_launcher_cell(k, cell) = d
    BY <1>1, <1>4, <2>1, <2>4, <2>6 DEF activate_launcher_cell
  <2>8. Stacked(e) /\ e \in State /\ k.table[c].ws \in Int /\ e.focus # None
    BY <2>3, <2>5 DEF Focused, Stacked, Window, Number, None
  <2>9. d \in State /\ d.table = e.table /\ d.stack = e.stack /\ d.focus = e.focus
    BY <2>6, <2>8 DEF State
  <2>10. Stacked(d)
    BY <2>8, <2>9, StackedFrame
  <2>11. Focused(d)
    BY <2>5, <2>8, <2>9, <2>10 DEF Focused, HasFocus, Live
  <2> QED BY <2>7, <2>11
<1> QED BY <1>3, <1>4

(* What a press can be about: a window of the desktop, or none (HitAt).    *)
LEMMA HitIsWindow ==
  ASSUME CompositorConstants, NEW k, Focused(k), NEW p \in Point, NEW hit, hit = HitAt(k, p)
  PROVE  /\ hit[1] = "dot" => hit[2] \in Int
         /\ hit[1] = "item" => hit[2] \in Ids(k)
         /\ hit[1] \in {"title", "body"} => \E i \in Live(k) : hit[2] = k.table[i].id /\ ~k.table[i].min
<1>1. Stacked(k)
  BY DEF Focused
<1>2. p[1] \in Int /\ p[2] \in Int /\ CELLS \in Nat
  BY DEF Point, CompositorConstants
<1>3. PICK D : D = workspace_dot_at(p)
  OBVIOUS
<1>4. D \subseteq Int
  BY <1>2, <1>3 DEF workspace_dot_at
<1>5. PICK I : I = taskbar_item_at(k, p)
  OBVIOUS
<1>6. I \subseteq Ids(k)
  BY <1>5 DEF taskbar_item_at, Ids
<1>7. PICK t : t = decoration_hit_at(k, p)
  OBVIOUS
<1>8. t # None => t \in Live(k) /\ ~k.table[t].min
  <2>1. PICK S : S = {i \in Slot : Shown(k, i) /\ InTitle(k.table[i], p)}
    OBVIOUS
  <2>2. t = Topmost(k, S)
    BY <2>1, <1>7 DEF decoration_hit_at
  <2>3. S \subseteq Live(k) /\ \A i \in S : ~k.table[i].min
    BY <2>1 DEF Shown
  <2>4. S = {} => t = None
    BY <2>2 DEF Topmost
  <2>5. S # {} => t \in S
    BY <2>2, <2>3, <1>1, TopmostIn
  <2> QED BY <2>3, <2>4, <2>5
<1>9. PICK b : b = top_slot_at(k, p)
  OBVIOUS
<1>10. b # None => b \in Live(k) /\ ~k.table[b].min
  <2>1. PICK S : S = {i \in Slot : Shown(k, i) /\ InBody(k.table[i], p)}
    OBVIOUS
  <2>2. b = Topmost(k, S)
    BY <2>1, <1>9 DEF top_slot_at
  <2>3. S \subseteq Live(k) /\ \A i \in S : ~k.table[i].min
    BY <2>1 DEF Shown
  <2>4. S = {} => b = None
    BY <2>2 DEF Topmost
  <2>5. S # {} => b \in S
    BY <2>2, <2>3, <1>1, TopmostIn
  <2> QED BY <2>3, <2>4, <2>5
<1>11. hit = CASE in_launcher_button(p) -> <<"button", None>>
               [] quick_launch_at(p) # {} -> <<"quick", CHOOSE c \in quick_launch_at(p) : TRUE>>
               [] k.launcher -> <<"launcher", None>>
               [] D # {} -> <<"dot", CHOOSE d \in D : TRUE>>
               [] I # {} -> <<"item", CHOOSE i \in I : TRUE>>
               [] t # None -> <<"title", k.table[t].id>>
               [] b # None -> <<"body", k.table[b].id>>
               [] OTHER -> <<"wallpaper", None>>
  BY <1>3, <1>5, <1>7, <1>9 DEF HitAt
<1>12. /\ D # {} => (CHOOSE d \in D : TRUE) \in Int
       /\ I # {} => (CHOOSE i \in I : TRUE) \in Ids(k)
  BY <1>4, <1>6
<1>13. PICK x : x = (CHOOSE d \in D : TRUE)
  OBVIOUS
<1>14. PICK y : y = (CHOOSE i \in I : TRUE)
  OBVIOUS
<1>15. PICK z : z = (CHOOSE c \in quick_launch_at(p) : TRUE)
  OBVIOUS
<1>16. \/ hit = <<"button", None>> \/ hit = <<"quick", z>> \/ hit = <<"launcher", None>>
       \/ D # {} /\ hit = <<"dot", x>>
       \/ I # {} /\ hit = <<"item", y>>
       \/ t # None /\ hit = <<"title", k.table[t].id>>
       \/ b # None /\ hit = <<"body", k.table[b].id>>
       \/ hit = <<"wallpaper", None>>
  BY <1>11, <1>13, <1>14, <1>15
<1>17. CASE hit \in {<<"button", None>>, <<"quick", z>>, <<"launcher", None>>, <<"wallpaper", None>>}
  BY <1>17
<1>18. CASE D # {} /\ hit = <<"dot", x>>
  BY <1>12, <1>13, <1>18
<1>19. CASE I # {} /\ hit = <<"item", y>>
  BY <1>12, <1>14, <1>19
<1>20. CASE t # None /\ hit = <<"title", k.table[t].id>>
  BY <1>8, <1>20
<1>21. CASE b # None /\ hit = <<"body", k.table[b].id>>
  BY <1>10, <1>21
<1> QED BY <1>16, <1>17, <1>18, <1>19, <1>20, <1>21

(* The launcher closes.                                                    *)
LEMMA LauncherCloses ==
  ASSUME NEW k, Focused(k)
  PROVE  Focused([k EXCEPT !.launcher = FALSE])
<1>1. PICK d : d = [k EXCEPT !.launcher = FALSE]
  OBVIOUS
<1>2. k \in State
  BY DEF Focused, Stacked
<1>3. d \in State /\ d.table = k.table /\ d.stack = k.stack /\ d.focus = k.focus /\ d.ws = k.ws
  BY <1>1, <1>2 DEF State
<1> QED BY <1>1, <1>3, FocusedFrame

(* It opens or closes.                                                     *)
LEMMA LauncherToggles ==
  ASSUME NEW k, Focused(k)
  PROVE  Focused([k EXCEPT !.launcher = ~@, !.selection = 0])
<1>1. PICK d : d = [k EXCEPT !.launcher = ~@, !.selection = 0]
  OBVIOUS
<1>2. k \in State
  BY DEF Focused, Stacked
<1>3. PICK b : b = ~k.launcher
  OBVIOUS
<1>4. b \in BOOLEAN
  BY <1>3
<1>5. d = [k EXCEPT !.launcher = b, !.selection = 0]
  BY <1>1, <1>3
<1>6. PICK e : e = [k EXCEPT !.launcher = b]
  OBVIOUS
<1>7. e \in State /\ e.table = k.table /\ e.stack = k.stack /\ e.focus = k.focus /\ e.ws = k.ws
  <2>1. CASE b = TRUE
    <3>1. e = [k EXCEPT !.launcher = TRUE]
      BY <1>6, <2>1
    <3> QED BY <1>2, <3>1 DEF State
  <2>2. CASE b = FALSE
    <3>1. e = [k EXCEPT !.launcher = FALSE]
      BY <1>6, <2>2
    <3> QED BY <1>2, <3>1 DEF State
  <2> QED BY <2>1, <2>2, <1>4
<1>8. PICK zero \in Int : zero = 0
  OBVIOUS
<1>9. d \in State /\ d.table = e.table /\ d.stack = e.stack /\ d.focus = e.focus /\ d.ws = e.ws
  <2>1. d = [e EXCEPT !.selection = zero]
    BY <1>2, <1>5, <1>6, <1>8 DEF State
  <2> QED BY <2>1, <1>7 DEF State
<1>10. Focused(d)
  BY <1>7, <1>9, FocusedFrame
<1> QED BY <1>1, <1>10

(* Another desktop is shown, with its own topmost window.                  *)
LEMMA DesktopFocuses ==
  ASSUME NEW k, Focused(k), NEW n \in Int
  PROVE  Focused(FocusTop([k EXCEPT !.ws = n]))
<1>1. PICK d : d = [k EXCEPT !.ws = n]
  OBVIOUS
<1>2. k \in State /\ Stacked(k)
  BY DEF Focused, Stacked
<1>3. d \in State /\ d.table = k.table /\ d.stack = k.stack
  BY <1>1, <1>2 DEF State
<1>4. Stacked(d)
  BY <1>2, <1>3, StackedFrame
<1> QED BY <1>1, <1>4, FocusTopFocuses

(* A button goes down (ButtonDown).                                        *)
LEMMA ButtonDownKeepsFocus ==
  ASSUME CompositorConstants, Focused(s), NEW q \in Points, ButtonDown(q)
  PROVE  Focused(s')
<1>1. PICK p : p = Clamped(q)
  OBVIOUS
<1>2. p \in Point
  BY <1>1, ClampedPoint
<1>3. PICK hit : hit = HitAt(s, p)
  OBVIOUS
<1>4. /\ hit[1] = "dot" => hit[2] \in Int
      /\ hit[1] = "item" => hit[2] \in Ids(s)
      /\ hit[1] \in {"title", "body"} => \E i \in Live(s) : hit[2] = s.table[i].id /\ ~s.table[i].min
  BY <1>2, <1>3, HitIsWindow
<1>5. Stacked(s)
  BY DEF Focused
<1>6. s' = CASE hit[1] = "button" -> [s EXCEPT !.launcher = ~@, !.selection = 0]
             [] hit[1] = "quick" -> [activate_launcher_cell(s, hit[2]) EXCEPT !.launcher = FALSE]
             [] hit[1] = "launcher" ->
                  [IF launcher_cell_at(p) = {} THEN s
                   ELSE activate_launcher_cell(s, CHOOSE c \in launcher_cell_at(p) : TRUE)
                     EXCEPT !.launcher = FALSE]
             [] hit[1] = "dot" -> FocusTop([s EXCEPT !.ws = hit[2]])
             [] hit[1] = "item" ->
                  IF s.focus = hit[2] /\ ~s.table[find_slot(s, hit[2])].min
                  THEN Minimized(s, hit[2]) ELSE Raise(s, hit[2])
             [] hit[1] = "title" -> TitlePressed(s, hit[2], p)
             [] hit[1] = "body" -> BodyPressed(s, hit[2], p)
             [] OTHER -> s
  BY <1>1, <1>3 DEF ButtonDown
<1>7. CASE hit[1] = "button"
  <2>1. s' = [s EXCEPT !.launcher = ~@, !.selection = 0]
    BY <1>6, <1>7
  <2> QED BY <2>1, LauncherToggles
<1>8. CASE hit[1] = "quick"
  <2>1. s' = [activate_launcher_cell(s, hit[2]) EXCEPT !.launcher = FALSE]
    BY <1>6, <1>8
  <2>2. Focused(activate_launcher_cell(s, hit[2]))
    BY ActivateFocuses
  <2> QED BY <2>1, <2>2, LauncherCloses
<1>9. CASE hit[1] = "launcher"
  <2>1. PICK c : c = CHOOSE cell \in launcher_cell_at(p) : TRUE
    OBVIOUS
  <2>2. PICK k : k = IF launcher_cell_at(p) = {} THEN s ELSE activate_launcher_cell(s, c)
    OBVIOUS
  <2>3. Focused(activate_launcher_cell(s, c))
    BY ActivateFocuses
  <2>4. Focused(k)
    BY <2>2, <2>3
  <2>5. s' = [k EXCEPT !.launcher = FALSE]
    BY <1>6, <1>9, <2>1, <2>2
  <2> QED BY <2>4, <2>5, LauncherCloses
<1>10. CASE hit[1] = "dot"
  <2>1. s' = FocusTop([s EXCEPT !.ws = hit[2]])
    BY <1>6, <1>10
  <2> QED BY <2>1, <1>4, <1>10, DesktopFocuses
<1>11. CASE hit[1] = "item"
  <2>1. s' = IF s.focus = hit[2] /\ ~s.table[find_slot(s, hit[2])].min
             THEN Minimized(s, hit[2]) ELSE Raise(s, hit[2])
    BY <1>6, <1>11
  <2>2. Focused(Minimized(s, hit[2]))
    BY <1>4, <1>5, <1>11, MinimizedFocuses
  <2>3. Focused(Raise(s, hit[2]))
    BY <1>4, <1>5, <1>11, RaiseFocuses
  <2> QED BY <2>1, <2>2, <2>3
<1>12. CASE hit[1] = "title"
  <2>1. s' = TitlePressed(s, hit[2], p)
    BY <1>6, <1>12
  <2>2. PICK i \in Live(s) : hit[2] = s.table[i].id /\ ~s.table[i].min
    BY <1>4, <1>12
  <2> QED BY <2>1, <2>2, <1>2, TitleFocuses
<1>13. CASE hit[1] = "body"
  <2>1. s' = BodyPressed(s, hit[2], p)
    BY <1>6, <1>13
  <2>2. PICK i \in Live(s) : hit[2] = s.table[i].id /\ ~s.table[i].min
    BY <1>4, <1>13
  <2> QED BY <2>1, <2>2, <1>2, BodyFocuses
<1>14. CASE hit[1] \notin {"button", "quick", "launcher", "dot", "item", "title", "body"}
  BY <1>6, <1>14
<1> QED BY <1>7, <1>8, <1>9, <1>10, <1>11, <1>12, <1>13, <1>14

(* A button goes up: a dragged window may snap to an edge (ButtonUp).      *)
LEMMA ButtonUpKeepsFocus ==
  ASSUME CompositorConstants, Focused(s), NEW q \in Points, ButtonUp(q)
  PROVE  Focused(s')
<1>1. PICK k : k = [s EXCEPT !.drag = NoDrag, !.resize = NoResize]
  OBVIOUS
<1>2. s \in State
  BY DEF Focused, Stacked
<1>3. k \in State /\ k.table = s.table /\ k.stack = s.stack /\ k.focus = s.focus /\ k.ws = s.ws
  BY <1>1, <1>2, NoGesture DEF State
<1>4. Focused(k) /\ Stacked(k)
  BY <1>3, FocusedFrame DEF Focused
<1>5. PICK t : t = snap_target(Clamped(q))
  OBVIOUS
<1>6. PICK id : id = s.drag.id
  OBVIOUS
<1>7. PICK c : c = find_slot(k, id)
  OBVIOUS
<1>8. \/ s' = k
      \/ /\ id \in Ids(s)
         /\ s' = [k EXCEPT !.table[c] = [Placed(Remembered(@), snap_geometry(t)) EXCEPT !.max = TRUE]]
  BY <1>1, <1>5, <1>6, <1>7 DEF ButtonUp
<1>9. CASE s' = k
  BY <1>4, <1>9
<1>10. CASE /\ id \in Ids(s)
            /\ s' = [k EXCEPT !.table[c] = [Placed(Remembered(@), snap_geometry(t)) EXCEPT !.max = TRUE]]
  <2>1. id \in Ids(k)
    BY <1>3, <1>10 DEF Ids, Live
  <2>2. c \in Live(k) /\ c \in Slot
    BY <2>1, <1>4, <1>7, FindSlot DEF Live
  <2>3. PICK w : w = k.table[c]
    OBVIOUS
  <2>4. w \in Window
    BY <2>2, <2>3, <1>3, LiveIsWindow
  <2>5. PICK u : u = Remembered(w)
    OBVIOUS
  <2>6. Alike(u, w) /\ u \in Window
    BY <2>4, <2>5, RememberedAlike DEF Alike
  <2>7. PICK g : g = snap_geometry(t)
    OBVIOUS
  <2>8. {g.x, g.y} \subseteq Int /\ {g.w, g.h} \subseteq Nat
    BY <2>7, SnapPlaces
  <2>9. PICK v : v = Placed(u, g)
    OBVIOUS
  <2>10. Alike(v, u) /\ v \in Window
    BY <2>6, <2>8, <2>9, PlacedAlike DEF Alike
  <2>11. PICK x : x = [v EXCEPT !.max = TRUE]
    OBVIOUS
  <2>12. Alike(x, v)
    BY <2>10, <2>11, MaximumAlike
  <2>13. Alike(x, w)
    BY <2>6, <2>10, <2>12, AlikeTwice
  <2>14. s' = Put(k, c, x)
    BY <1>10, <2>3, <2>5, <2>7, <2>9, <2>11 DEF Put
  <2> QED BY <2>2, <2>3, <2>13, <2>14, <1>4, SetShape
<1> QED BY <1>8, <1>9, <1>10

(***************************************************************************)
(* The keyboard.                                                           *)
(***************************************************************************)
(* A number key.                                                           *)
LEMMA DigitIsNumber ==
  ASSUME NEW c \in DOMAIN Digit
  PROVE  Digit[c] \in Int
<1>1. c \in {"1", "2", "3"}
  BY DEF Digit
<1> QED BY <1>1 DEF Digit

(* The key whose release is not passed on.                                 *)
LEMMA SuppressedFrame ==
  ASSUME NEW k, Focused(k), NEW c \in {"none"} \cup {e.code : e \in Keys}
  PROVE  Focused([k EXCEPT !.suppressed = c])
<1>1. PICK d : d = [k EXCEPT !.suppressed = c]
  OBVIOUS
<1>2. k \in State
  BY DEF Focused, Stacked
<1>3. d \in State /\ d.table = k.table /\ d.stack = k.stack /\ d.focus = k.focus /\ d.ws = k.ws
  BY <1>1, <1>2 DEF State
<1> QED BY <1>1, <1>3, FocusedFrame

(* The launcher's selection moves.                                         *)
LEMMA SelectionFrame ==
  ASSUME NEW k, Focused(k), NEW n \in Int
  PROVE  Focused([k EXCEPT !.selection = n])
<1>1. PICK d : d = [k EXCEPT !.selection = n]
  OBVIOUS
<1>2. k \in State
  BY DEF Focused, Stacked
<1>3. d \in State /\ d.table = k.table /\ d.stack = k.stack /\ d.focus = k.focus /\ d.ws = k.ws
  BY <1>1, <1>2 DEF State
<1> QED BY <1>1, <1>3, FocusedFrame

(* The gesture ends and the launcher closes.                               *)
LEMMA GestureFrame ==
  ASSUME NEW k, Focused(k)
  PROVE  Focused([k EXCEPT !.drag = NoDrag, !.resize = NoResize, !.launcher = FALSE])
<1>1. PICK d : d = [k EXCEPT !.drag = NoDrag, !.resize = NoResize, !.launcher = FALSE]
  OBVIOUS
<1>2. k \in State
  BY DEF Focused, Stacked
<1>3. PICK e : e = [k EXCEPT !.drag = NoDrag, !.resize = NoResize]
  OBVIOUS
<1>4. e \in State /\ e.table = k.table /\ e.stack = k.stack /\ e.focus = k.focus /\ e.ws = k.ws
  BY <1>2, <1>3, NoGesture DEF State
<1>5. Focused(e)
  BY <1>4, FocusedFrame
<1>6. d = [e EXCEPT !.launcher = FALSE]
  BY <1>1, <1>2, <1>3 DEF State
<1> QED BY <1>1, <1>5, <1>6, LauncherCloses

(* Alt and tab: another window of the desktop, or the focused one          *)
(* (find_cycle_slot).                                                      *)
LEMMA CycleSlot ==
  ASSUME NEW k, Stacked(k)
  PROVE  find_cycle_slot(k) # None => find_cycle_slot(k) \in Live(k)
<1>1. PICK S : S = {i \in Live(k) : k.table[i].ws = k.ws /\ k.table[i].id # k.focus}
  OBVIOUS
<1>2. find_cycle_slot(k) = IF S # {} THEN Topmost(k, S)
                           ELSE IF k.focus \in Ids(k) THEN find_slot(k, k.focus) ELSE None
  BY <1>1 DEF find_cycle_slot
<1>3. S # {} => Topmost(k, S) \in S
  BY <1>1, TopmostIn
<1>4. k.focus \in Ids(k) => find_slot(k, k.focus) \in Live(k)
  BY FindSlot
<1> QED BY <1>1, <1>2, <1>3, <1>4

(* A shortcut (Chord).                                                     *)
LEMMA ChordFocuses ==
  ASSUME CompositorConstants, NEW k, Focused(k), NEW e
  PROVE  Focused(Chord(k, e))
<1>1. Stacked(k) /\ k \in State
  BY DEF Focused, Stacked
<1>2. PICK f : f = Shortcut(e)
  OBVIOUS
<1>3. PICK c : c = find_cycle_slot(k)
  OBVIOUS
<1>4. PICK u : u = IF c = None THEN k ELSE Raise(k, k.table[c].id)
  OBVIOUS
<1>5. PICK v : v = IF k.focus \notin Ids(k) THEN k
                   ELSE CASE e.code = "f4" -> close_window(k, find_slot(k, k.focus))
                          [] e.code = "f9" -> Minimized(k, k.focus)
                          [] OTHER -> [k EXCEPT !.table[find_slot(k, k.focus)] = toggle_maximize(@)]
  OBVIOUS
<1>6. Chord(k, e) =
        CASE f = "workspace" -> [FocusTop([k EXCEPT !.ws = Digit[e.code]]) EXCEPT !.launcher = FALSE]
          [] f = "launcher" -> [k EXCEPT !.launcher = ~@, !.selection = 0]
          [] f = "cycle" -> [u EXCEPT !.launcher = FALSE]
          [] OTHER -> [v EXCEPT !.drag = NoDrag, !.resize = NoResize, !.launcher = FALSE]
  BY <1>2, <1>3, <1>4, <1>5 DEF Chord
<1>7. CASE f = "workspace"
  <2>1. e.code \in DOMAIN Digit
    BY <1>2, <1>7 DEF Shortcut
  <2>2. Focused(FocusTop([k EXCEPT !.ws = Digit[e.code]]))
    BY <2>1, DigitIsNumber, DesktopFocuses
  <2>3. Chord(k, e) = [FocusTop([k EXCEPT !.ws = Digit[e.code]]) EXCEPT !.launcher = FALSE]
    BY <1>6, <1>7
  <2> QED BY <2>2, <2>3, LauncherCloses
<1>8. CASE f = "launcher"
  <2>1. Chord(k, e) = [k EXCEPT !.launcher = ~@, !.selection = 0]
    BY <1>6, <1>8
  <2> QED BY <2>1, LauncherToggles
<1>9. CASE f = "cycle"
  <2>1. Chord(k, e) = [u EXCEPT !.launcher = FALSE]
    BY <1>6, <1>9
  <2>2. Focused(u)
    <3>1. CASE c = None
      BY <3>1, <1>4
    <3>2. CASE c # None
      <4>1. k.table[c].id \in Ids(k)
        BY <3>2, <1>1, <1>3, CycleSlot DEF Ids
      <4>2. u = Raise(k, k.table[c].id)
        BY <3>2, <1>4
      <4> QED BY <4>1, <4>2, <1>1, RaiseFocuses
    <3> QED BY <3>1, <3>2
  <2> QED BY <2>1, <2>2, LauncherCloses
<1>10. CASE f \notin {"workspace", "launcher", "cycle"}
  <2>1. Chord(k, e) = [v EXCEPT !.drag = NoDrag, !.resize = NoResize, !.launcher = FALSE]
    BY <1>6, <1>10
  <2>2. Focused(v)
    <3>1. CASE k.focus \notin Ids(k)
      BY <3>1, <1>5
    <3>2. CASE k.focus \in Ids(k)
      <4>1. PICK i : i = find_slot(k, k.focus)
        OBVIOUS
      <4>2. i \in Live(k) /\ i \in Slot /\ k.table[i].id = k.focus /\ k.focus # None
        BY <3>2, <4>1, <1>1, FindSlot DEF Live, Number, None
      <4>3. CASE v = close_window(k, i)
        BY <4>2, <4>3, <1>1, CloseFocuses
      <4>4. CASE v = Minimized(k, k.focus)
        BY <4>4, <3>2, <1>1, MinimizedFocuses
      <4>5. CASE v = [k EXCEPT !.table[i] = toggle_maximize(@)]
        <5>1. PICK w : w = k.table[i]
          OBVIOUS
        <5>2. w \in Window
          BY <5>1, <4>2, <1>1, LiveIsWindow
        <5>3. ~w.min
          <6>1. PICK j \in Live(k) : k.table[j].id = k.focus /\ ~k.table[j].min
            BY <4>2 DEF Focused, HasFocus
          <6>2. j = i
            BY <6>1, <4>2, <1>1 DEF Stacked
          <6> QED BY <6>1, <6>2, <5>1
        <5>4. PICK x : x = toggle_maximize(w)
          OBVIOUS
        <5>5. Alike(x, w)
          BY <5>2, <5>3, <5>4, ToggleAlike
        <5>6. v = Put(k, i, x)
          BY <4>5, <5>1, <5>4 DEF Put
        <5> QED BY <5>1, <5>5, <5>6, <4>2, SetShape
      <4> QED BY <3>2, <4>1, <4>3, <4>4, <4>5, <1>5
    <3> QED BY <3>1, <3>2
  <2> QED BY <2>1, <2>2, GestureFrame
<1> QED BY <1>7, <1>8, <1>9, <1>10

(* A key for the launcher (LauncherKey).                                   *)
LEMMA LauncherKeyFocuses ==
  ASSUME CompositorConstants, NEW k, Focused(k), NEW e \in Keys
  PROVE  Focused(LauncherKey(k, e))
<1>1. k \in State /\ k.selection \in Int
  BY DEF Focused, Stacked, State
<1>2. PICK c : c = e.code
  OBVIOUS
<1>3. c \in {"none"} \cup {x.code : x \in Keys}
  BY <1>2
<1>4. \A u : Focused(u) => Focused([u EXCEPT !.suppressed = c]) /\ u \in State
  BY <1>3, SuppressedFrame DEF Focused, Stacked
<1>5. \A u : Focused(u) => Focused([u EXCEPT !.suppressed = c, !.launcher = FALSE])
  <2> TAKE u
  <2> HAVE Focused(u)
  <2>1. PICK v : v = [u EXCEPT !.suppressed = c]
    OBVIOUS
  <2>2. Focused(v) /\ u \in State
    BY <2>1, <1>4
  <2>3. [u EXCEPT !.suppressed = c, !.launcher = FALSE] = [v EXCEPT !.launcher = FALSE]
    BY <2>1, <2>2 DEF State
  <2> QED BY <2>2, <2>3, LauncherCloses
<1>6. CELLS \in Nat /\ CELLS > 0
  BY DEF CompositorConstants
<1>7. PICK d : d = LauncherKey(k, e)
  OBVIOUS
<1>8. \/ d = [k EXCEPT !.suppressed = c, !.launcher = FALSE]
      \/ d = [k EXCEPT !.selection = (@ + CELLS - 1) % CELLS]
      \/ d = [k EXCEPT !.selection = (@ + 1) % CELLS]
      \/ d = [activate_launcher_cell(k, k.selection) EXCEPT !.suppressed = c, !.launcher = FALSE]
      \/ /\ c \in DOMAIN Digit
         /\ d = [activate_launcher_cell(k, Digit[c]) EXCEPT
                   !.suppressed = c, !.selection = Digit[c], !.launcher = FALSE]
      \/ d = k
  <2>1. PICK a1 : a1 = [k EXCEPT !.suppressed = c, !.launcher = FALSE]
    OBVIOUS
  <2>2. PICK a2 : a2 = [k EXCEPT !.selection = (@ + CELLS - 1) % CELLS]
    OBVIOUS
  <2>3. PICK a3 : a3 = [k EXCEPT !.selection = (@ + 1) % CELLS]
    OBVIOUS
  <2>4. PICK a4 : a4 = [activate_launcher_cell(k, k.selection) EXCEPT !.suppressed = c, !.launcher = FALSE]
    OBVIOUS
  <2>5. PICK a5 : a5 = [activate_launcher_cell(k, Digit[c]) EXCEPT
                          !.suppressed = c, !.selection = Digit[c], !.launcher = FALSE]
    OBVIOUS
  <2>6. d = CASE c = "escape" -> a1 [] c = "up" -> a2 [] c = "down" -> a3 [] c = "enter" -> a4
              [] c \in DOMAIN Digit -> a5 [] OTHER -> k
    BY <2>1, <2>2, <2>3, <2>4, <2>5, <1>2, <1>7, Zenon DEF LauncherKey
  <2>7. d \in {a1, a2, a3, a4, k} \/ (c \in DOMAIN Digit /\ d = a5)
    BY <2>6
  <2> QED BY <2>1, <2>2, <2>3, <2>4, <2>5, <2>7, Zenon
<1>9. CASE d = [k EXCEPT !.suppressed = c, !.launcher = FALSE]
  BY <1>5, <1>7, <1>9
<1>10. CASE d = [k EXCEPT !.selection = (@ + CELLS - 1) % CELLS]
  <2>1. PICK n : n = (k.selection + CELLS - 1) % CELLS
    OBVIOUS
  <2>2. n \in Int
    BY <1>1, <1>6, <2>1
  <2> QED BY <2>1, <2>2, <1>7, <1>10, SelectionFrame
<1>11. CASE d = [k EXCEPT !.selection = (@ + 1) % CELLS]
  <2>1. PICK n : n = (k.selection + 1) % CELLS
    OBVIOUS
  <2>2. n \in Int
    BY <1>1, <1>6, <2>1
  <2> QED BY <2>1, <2>2, <1>7, <1>11, SelectionFrame
<1>12. CASE d = [activate_launcher_cell(k, k.selection) EXCEPT !.suppressed = c, !.launcher = FALSE]
  BY <1>5, <1>7, <1>12, ActivateFocuses
<1>13. CASE /\ c \in DOMAIN Digit
            /\ d = [activate_launcher_cell(k, Digit[c]) EXCEPT
                      !.suppressed = c, !.selection = Digit[c], !.launcher = FALSE]
  <2>1. PICK n : n = Digit[c]
    OBVIOUS
  <2>2. n \in Int
    BY <2>1, <1>13, DigitIsNumber
  <2>3. PICK u : u = activate_launcher_cell(k, n)
    OBVIOUS
  <2>4. Focused(u) /\ u \in State
    BY <2>3, ActivateFocuses DEF Focused, Stacked
  <2>5. PICK v : v = [u EXCEPT !.selection = n]
    OBVIOUS
  <2>6. Focused(v)
    BY <2>2, <2>4, <2>5, SelectionFrame
  <2>7. d = [v EXCEPT !.suppressed = c, !.launcher = FALSE]
    BY <2>1, <2>3, <2>4, <2>5, <1>13 DEF State
  <2> QED BY <2>6, <2>7, <1>5, <1>7
<1>14. CASE d = k
  BY <1>7, <1>14
<1> QED BY <1>8, <1>9, <1>10, <1>11, <1>12, <1>13, <1>14

(* A key goes down or up (Key).                                            *)
LEMMA KeyKeepsFocus ==
  ASSUME CompositorConstants, Focused(s), NEW e \in Keys, Key(e)
  PROVE  Focused(s')
<1>1. PICK k : k = [s EXCEPT !.suppressed = e.code]
  OBVIOUS
<1>2. Focused(k)
  BY <1>1, SuppressedFrame
<1>3. \/ s' = [s EXCEPT !.suppressed = "none"]
      \/ s' = Chord(k, e)
      \/ s' = LauncherKey(s, e)
      \/ s' = s
  BY <1>1 DEF Key
<1>4. Focused([s EXCEPT !.suppressed = "none"])
  BY SuppressedFrame
<1>5. Focused(Chord(k, e))
  BY <1>2, ChordFocuses
<1>6. Focused(LauncherKey(s, e))
  BY LauncherKeyFocuses
<1> QED BY <1>3, <1>4, <1>5, <1>6

(***************************************************************************)
(* Messages from DemonX, and the theorems.                                 *)
(***************************************************************************)
(* A new window is on top and has the focus (Create).                      *)
LEMMA CreateFocuses ==
  ASSUME CompositorConstants, Focused(s), NEW m \in Creates, Create(m)
  PROVE  Focused(s')
<1>1. Stacked(s) /\ s \in State
  BY DEF Focused, Stacked
<1>2. /\ m.id \in Number /\ m.sw \in Number /\ m.sh \in Number /\ m.x \in Int /\ m.y \in Int
      /\ m.w \in Nat /\ m.w # 0 /\ m.h \in Nat /\ m.h # 0 /\ m.title \in Titles
  BY DEF CompositorConstants, Create, Number, Titles
<1>3. PICK c : c = CHOOSE i \in Slot \ Live(s) : \A j \in Slot \ Live(s) : i <= j
  OBVIOUS
<1>4. c \in Slot /\ c \notin Live(s) /\ m.id \notin Ids(s)
  <2>1. Slot \ Live(s) \subseteq Slot /\ Slot \ Live(s) # {}
    BY DEF Create, Live
  <2>2. c \in Slot \ Live(s)
    BY <1>3, <2>1, FirstPlace
  <2> QED BY <2>2 DEF Create
<1>5. PICK a : a = IF m.mapped THEN m.sw ELSE m.w
  OBVIOUS
<1>6. PICK b : b = IF m.mapped THEN m.sh ELSE m.h
  OBVIOUS
<1>7. a \in Number /\ b \in Number
  BY <1>2, <1>5, <1>6 DEF Number
<1>8. PICK w : w = [id |-> m.id, title |-> m.title, x |-> m.x, y |-> m.y, w |-> m.w, h |-> m.h,
                    sw |-> a, sh |-> b, max |-> FALSE, min |-> FALSE, ws |-> s.ws,
                    restore |-> [x |-> 0, y |-> 0, w |-> 0, h |-> 0]]
  OBVIOUS
<1>9. s.ws \in Int /\ [x |-> 0, y |-> 0, w |-> 0, h |-> 0] \in Place
  BY <1>1 DEF State, Place
<1>10. w \in Window /\ w.id = m.id /\ ~w.min
  BY <1>2, <1>7, <1>8, <1>9 DEF Window
<1>11. PICK v : v = Remembered(w)
  OBVIOUS
<1>12. v \in Window /\ v.id = m.id /\ ~v.min
  BY <1>10, <1>11, RememberedAlike DEF Alike
<1>13. PICK u : u = Lift(s, m.id)
  OBVIOUS
<1>14. Lifted(s, u, m.id)
  BY <1>1, <1>2, <1>13, LiftStacks
<1>15. /\ u \in State /\ Stacked(u) /\ u.table = s.table /\ Live(u) = Live(s) /\ Ids(u) = Ids(s)
       /\ \E e \in DOMAIN u.stack : u.stack[e] = m.id
  <2>1. Stacked(u) /\ u = [s EXCEPT !.stack = u.stack] /\ \E e \in DOMAIN u.stack : u.stack[e] = m.id
    BY <1>14 DEF Lifted
  <2>2. u \in State
    BY <2>1 DEF Stacked
  <2>3. u.table = s.table
    BY <2>1, <1>1 DEF State
  <2>4. Live(u) = Live(s)
    BY <2>3 DEF Live
  <2>5. Ids(u) = Ids(s)
    BY <2>3, <2>4 DEF Ids
  <2> QED BY <2>1, <2>2, <2>3, <2>4, <2>5
<1>16. PICK t : t = [u.table EXCEPT ![c] = v]
  OBVIOUS
<1>17. t \in Table /\ t[c] = v /\ \A j \in Slot \ {c} : t[j] = u.table[j]
  BY <1>4, <1>12, <1>15, <1>16 DEF State, Table
<1>18. PICK k : k = [u EXCEPT !.table = t]
  OBVIOUS
<1>19. k \in State /\ k.table = t /\ k.stack = u.stack
  BY <1>15, <1>17, <1>18 DEF State
<1>20. v # Empty
  BY <1>12 DEF Window, Empty, Number
<1>21. Live(k) = Live(s) \cup {c}
  BY <1>4, <1>15, <1>17, <1>19, <1>20 DEF Live
<1>22. \A i \in Live(s) : k.table[i] = u.table[i] /\ k.table[i].id # m.id
  BY <1>4, <1>15, <1>17, <1>19 DEF Ids, Live
<1>23. \A i, j \in Live(k) : k.table[i].id = k.table[j].id => i = j
  BY <1>12, <1>15, <1>17, <1>19, <1>21, <1>22 DEF Stacked
<1>24. \A i \in Live(k) : \E e \in DOMAIN k.stack : k.stack[e] = k.table[i].id
  BY <1>12, <1>15, <1>17, <1>19, <1>21, <1>22 DEF Stacked
<1>25. Stacked(k)
  BY <1>19, <1>23, <1>24 DEF Stacked
<1>26. c \in Live(k) /\ ~k.table[c].min /\ k.table[c].id = m.id
  BY <1>12, <1>17, <1>19, <1>21
<1>27. s' = [u EXCEPT !.table[c] = v, !.focus = m.id]
  BY <1>3, <1>5, <1>6, <1>8, <1>11, <1>13 DEF Create
<1>28. s' = [k EXCEPT !.focus = k.table[c].id]
  BY <1>15, <1>16, <1>18, <1>26, <1>27 DEF State
<1> QED BY <1>25, <1>26, <1>28, SetFocus

(* A message moves a window (Move).                                        *)
LEMMA MoveKeepsFocus ==
  ASSUME CompositorConstants, Focused(s), NEW m \in Creates, NEW g \in Moves, Move(m.id, g)
  PROVE  Focused(s')
<1>1. Stacked(s) /\ s \in State /\ m.id \in Ids(s)
  BY DEF Focused, Stacked, Move
<1>2. PICK c : c = find_slot(s, m.id)
  OBVIOUS
<1>3. c \in Live(s) /\ c \in Slot
  BY <1>1, <1>2, FindSlot DEF Live
<1>4. PICK w : w = s.table[c]
  OBVIOUS
<1>5. w \in Window
  BY <1>1, <1>3, <1>4, LiveIsWindow
<1>6. PICK v : v = Placed(w, g)
  OBVIOUS
<1>7. {g.x, g.y} \subseteq Int /\ {g.w, g.h} \subseteq Nat
  BY DEF CompositorConstants
<1>8. Alike(v, w)
  BY <1>5, <1>6, <1>7, PlacedAlike
<1>9. s' = Put(s, c, v)
  BY <1>2, <1>4, <1>6 DEF Move, Put
<1> QED BY <1>3, <1>4, <1>8, <1>9, SetShape

(* Every step keeps the invariant.                                         *)
LEMMA CompositorStep ==
  ASSUME CompositorConstants, Focused(s), [Next]_vars
  PROVE  Focused(s')
<1>1. Stacked(s) /\ s \in State
  BY DEF Focused, Stacked
<1>2. CASE composite
  <2>1. s' = [s EXCEPT !.alive = FALSE]
    BY <1>2 DEF composite
  <2>2. s' \in State /\ s'.table = s.table /\ s'.stack = s.stack /\ s'.focus = s.focus /\ s'.ws = s.ws
    BY <1>1, <2>1 DEF State
  <2> QED BY <2>2, FocusedFrame
<1>3. ASSUME NEW m \in Creates, Create(m)
      PROVE  Focused(s')
  BY <1>3, CreateFocuses
<1>4. ASSUME NEW m \in Creates, Close(m.id)
      PROVE  Focused(s')
  <2>1. m.id \in Ids(s) /\ s' = IF s.focus = m.id THEN FocusTop(Drop(s, m.id)) ELSE Drop(s, m.id)
    BY <1>4 DEF Close
  <2>2. Focused(FocusTop(Drop(s, m.id)))
    BY <2>1, <1>1, DropStacks, FocusTopFocuses
  <2>3. s.focus # m.id => Focused(Drop(s, m.id))
    BY <2>1, DropKeepsFocus
  <2> QED BY <2>1, <2>2, <2>3
<1>5. ASSUME NEW m \in Creates, Focus(m.id)
      PROVE  Focused(s')
  <2>1. m.id \in Ids(s) /\ s' = Raise(s, m.id)
    BY <1>5 DEF Focus
  <2> QED BY <2>1, <1>1, RaiseFocuses
<1>6. ASSUME NEW m \in Creates, NEW g \in Moves, Move(m.id, g)
      PROVE  Focused(s')
  BY <1>6, MoveKeepsFocus
<1>7. ASSUME NEW p \in Points, MouseMove(p) \/ ButtonDown(p) \/ ButtonUp(p)
      PROVE  Focused(s')
  BY <1>7, MouseMoveKeepsFocus, ButtonDownKeepsFocus, ButtonUpKeepsFocus
<1>8. ASSUME NEW e \in Keys, Key(e)
      PROVE  Focused(s')
  BY <1>8, KeyKeepsFocus
<1>9. CASE s' = s
  BY <1>9
<1> QED BY <1>2, <1>3, <1>4, <1>5, <1>6, <1>7, <1>8, <1>9 DEF Next, vars

(* An empty desktop.                                                       *)
LEMMA CompositorInit ==
  ASSUME CompositorConstants, Init
  PROVE  Focused(s)
<1>1. PICK t : t = [i \in Slot |-> Empty]
  OBVIOUS
<1>2. t \in Table /\ \A i \in Slot : t[i] = Empty
  BY <1>1 DEF Table
<1>3. s = [table |-> t, stack |-> <<>>, focus |-> None, drag |-> NoDrag, resize |-> NoResize,
           ws |-> 0, launcher |-> FALSE, selection |-> 0, suppressed |-> "none", alive |-> TRUE]
  BY <1>1 DEF Init
<1>4. <<>> \in Seq(Nat) /\ None \in Nat
  BY DEF None
<1>5. s \in State
  BY <1>2, <1>3, <1>4, NoGesture DEF State
<1>6. s.table = t /\ s.focus = None
  BY <1>3
<1>7. Live(s) = {}
  BY <1>2, <1>6 DEF Live
<1> QED BY <1>5, <1>6, <1>7 DEF Focused, Stacked, HasFocus, Shown

(* The invariant says FocusIsLive.                                         *)
LEMMA FocusedMeans ==
  ASSUME Focused(s)
  PROVE  FocusIsLive
<1>1. Stacked(s)
  BY DEF Focused
<1>2. ASSUME s.focus # None
      PROVE  s.focus \in Ids(s) /\ ~s.table[find_slot(s, s.focus)].min
  <2>1. PICK i \in Live(s) : s.table[i].id = s.focus /\ ~s.table[i].min
    BY <1>2 DEF Focused, HasFocus
  <2>2. s.focus \in Ids(s)
    BY <2>1 DEF Ids
  <2>3. find_slot(s, s.focus) = i
    BY <2>1, <2>2, <1>1, FindSlot DEF Stacked
  <2> QED BY <2>1, <2>2, <2>3
<1>3. ASSUME s.focus = None
      PROVE  find_top_slot(s) = None
  <2>1. PICK S : S = {i \in Slot : Shown(s, i)}
    OBVIOUS
  <2>2. S = {}
    BY <2>1, <1>3 DEF Focused, HasFocus
  <2> QED BY <2>1, <2>2 DEF find_top_slot, Topmost
<1> QED BY <1>2, <1>3 DEF FocusIsLive

(* Keys always have a live receiver: whatever order messages, gestures,    *)
(* shortcuts and the launcher come in, the focus is a window of the table  *)
(* that is not minimized, and there is none only if nothing is shown       *)
(* (main.rs: every place that sets focused_window).                        *)
THEOREM FocusStaysLive ==
  ASSUME CompositorConstants
  PROVE  Spec => []FocusIsLive
<1>1. Init => Focused(s)
  BY CompositorInit
<1>2. Focused(s) /\ [Next]_vars => Focused(s)'
  BY CompositorStep
<1>3. Focused(s) => FocusIsLive
  BY FocusedMeans
<1> QED BY <1>1, <1>2, <1>3, PTL DEF Spec

(* The state has its type: in particular a window's width and height are   *)
(* natural numbers whatever a resize computed.                             *)
THEOREM CompositorTypes ==
  ASSUME CompositorConstants
  PROVE  Spec => []TypeOK
<1>1. Init => Focused(s)
  BY CompositorInit
<1>2. Focused(s) /\ [Next]_vars => Focused(s)'
  BY CompositorStep
<1>3. Focused(s) => TypeOK
  BY DEF Focused, Stacked, TypeOK
<1> QED BY <1>1, <1>2, <1>3, PTL DEF Spec

(***************************************************************************)
(* Clicks and pixels.                                                      *)
(***************************************************************************)
(* A place in a line of b pixels, scaled to a line of n.                   *)
LEMMA ScaledInside ==
  ASSUME NEW a \in Nat, NEW b \in Nat, NEW n \in Nat, a < b, n > 0
  PROVE  (a * n) \div b \in 0..(n - 1)
<1>1. (a * n) \div b < n
  OBVIOUS
<1>2. (a * n) \div b \in Int /\ (a * n) \div b >= 0
  OBVIOUS
<1> QED BY <1>1, <1>2

(* No scaling.                                                             *)
LEMMA ScaledSame ==
  ASSUME NEW a \in Nat, NEW n \in Nat, n > 0
  PROVE  (a * n) \div n = a
OBVIOUS

(* The client's part of a window that has an area has an area too, so that *)
(* the scaling never divides by zero (content_rect).                       *)
LEMMA ContentHasArea ==
  ASSUME NEW w \in Window
  PROVE  LET c == content_rect(w)
         IN  /\ c.x \in Int /\ c.y \in Int /\ c.w \in Nat /\ c.h \in Nat
             /\ c.w = 0 \/ c.h = 0 => w.w = 0 \/ w.h = 0
<1>1. /\ w.x \in Int /\ w.y \in Int /\ w.w \in Nat /\ w.h \in Nat
      /\ w.sw \in Nat /\ w.sw > 0 /\ w.sh \in Nat /\ w.sh > 0
  BY DEF Window, Number
<1>2. CASE w.w = 0 \/ w.h = 0
  BY <1>1, <1>2 DEF content_rect
<1>3. CASE ~(w.w = 0 \/ w.h = 0)
  <2>1. PICK m \in Nat : m = w.w * w.sh
    BY <1>1
  <2>2. PICK tall \in Nat : tall = m \div w.sw
    BY <1>1, <2>1
  <2>3. PICK o \in Nat : o = w.h * w.sw
    BY <1>1
  <2>4. PICK wide \in Nat : wide = o \div w.sh
    BY <1>1, <2>3
  <2>5. PICK width \in Nat : width = Greater(IF tall > w.h THEN wide ELSE w.w, 1) /\ width > 0
    BY <1>1, <2>2, <2>4 DEF Greater
  <2>6. PICK height \in Nat : height = Greater(Lesser(tall, w.h), 1) /\ height > 0
    BY <1>1, <2>2 DEF Greater, Lesser
  <2>7. content_rect(w) = [x |-> w.x + (w.w - width) \div 2, y |-> w.y + (w.h - height) \div 2,
                           w |-> width, h |-> height]
    BY <1>1, <1>3, <2>1, <2>2, <2>3, <2>4, <2>5, <2>6 DEF content_rect
  <2>8. w.x + (w.w - width) \div 2 \in Int /\ w.y + (w.h - height) \div 2 \in Int
    BY <1>1, <2>5, <2>6
  <2> QED BY <2>5, <2>6, <2>7, <2>8
<1> QED BY <1>2, <1>3

(* A click on one window.                                                  *)
LEMMA ClickLands ==
  ASSUME NEW w \in Window, NEW p \in Point, NEW a \in client_point(w, p)
  PROVE  a = SourcePixel(w, p) /\ a[1] \in 0..(w.sw - 1) /\ a[2] \in 0..(w.sh - 1)
<1>1. PICK c : c = content_rect(w)
  OBVIOUS
<1>2. c.x \in Int /\ c.y \in Int /\ c.w \in Nat /\ c.h \in Nat
  BY <1>1, ContentHasArea
<1>3. p[1] \in Int /\ p[2] \in Int /\ w.sw \in Nat /\ w.sw > 0 /\ w.sh \in Nat /\ w.sh > 0
  BY DEF Point, Window, Number
<1>4. PICK dx : dx = p[1] - c.x
  OBVIOUS
<1>5. PICK dy : dy = p[2] - c.y
  OBVIOUS
<1>6. /\ ~(p[1] < c.x \/ p[2] < c.y \/ p[1] >= c.x + c.w \/ p[2] >= c.y + c.h)
      /\ a = <<(dx * w.sw) \div c.w, (dy * w.sh) \div c.h>>
  BY <1>1, <1>4, <1>5 DEF client_point
<1>7. dx \in Nat /\ dx < c.w /\ dy \in Nat /\ dy < c.h
  BY <1>2, <1>3, <1>4, <1>5, <1>6
<1>8. (dx * w.sw) \div c.w \in 0..(w.sw - 1) /\ (dy * w.sh) \div c.h \in 0..(w.sh - 1)
  BY <1>2, <1>3, <1>7, ScaledInside
<1>9. SourcePixel(w, p) = IF c.w = w.sw /\ c.h = w.sh THEN <<dx, dy>>
                          ELSE <<(dx * w.sw) \div c.w, (dy * w.sh) \div c.h>>
  BY <1>1, <1>4, <1>5 DEF SourcePixel
<1>10. c.w = w.sw /\ c.h = w.sh => a = <<dx, dy>>
  BY <1>3, <1>6, <1>7, ScaledSame
<1>11. a = SourcePixel(w, p)
  BY <1>6, <1>9, <1>10
<1> QED BY <1>6, <1>8, <1>11

(* A click lands on the client's pixel that is drawn under it, inside the  *)
(* client's surface, whatever dragging, resizing, snapping and maximizing  *)
(* made of the window (client_point against the blit of composite).        *)
THEOREM ClicksReachTheirPixel ==
  ASSUME CompositorConstants
  PROVE  Spec => []ClickReachesItsPixel
<1>1. Init => Focused(s)
  BY CompositorInit
<1>2. Focused(s) /\ [Next]_vars => Focused(s)'
  BY CompositorStep
<1>3. ASSUME Focused(s)
      PROVE  ClickReachesItsPixel
  <2>1. ASSUME NEW i \in Live(s), NEW p \in (0..(SCREEN_WIDTH - 1)) \X (0..(SCREEN_HEIGHT - 1)),
               NEW a \in client_point(s.table[i], p)
        PROVE  /\ a = SourcePixel(s.table[i], p)
               /\ a[1] \in 0..(s.table[i].sw - 1) /\ a[2] \in 0..(s.table[i].sh - 1)
    <3>1. s.table[i] \in Window
      BY <1>3, LiveIsWindow DEF Focused, Stacked, Live
    <3>2. p \in Point
      BY DEF Point
    <3> QED BY <3>1, <3>2, ClickLands
  <2> QED BY <2>1 DEF ClickReachesItsPixel
<1> QED BY <1>1, <1>2, <1>3, PTL DEF Spec

(***************************************************************************)
(* Saving a configuration (Persistence), for any set of configurations.    *)
(*                                                                         *)
(* The inductive invariant is Held: between the write and the rename the   *)
(* temporary file is the whole new record, so that whatever step fails or  *)
(* is the last before a kill, the file is a whole record or is not there.  *)
(***************************************************************************)
CONSTANTS Configs, Valid, SAVES
Port == INSTANCE Persistence

File == [bytes : {"none", "empty", "torn"}, config : {0}] \cup [bytes : {"whole"}, config : Valid]
Saving == [path : File, temp : File, at : {"idle", "create", "write", "delete", "rename", "discard"},
           config : Configs \cup {0}, saved : Valid \cup {0}, sure : BOOLEAN, tried : SUBSET Valid,
           saves : Nat, ok : BOOLEAN]
Loaded(f) == Port!DemonButterscotchPersistence_load(f)

Held(k) ==
  /\ k \in Saving
  /\ k.at # "idle" => k.config \in Valid
  /\ k.at \in {"delete", "rename"} => k.temp = Port!Whole(k.config) /\ k.config \in k.tried
  /\ k.path.bytes = "none" \/ (k.path.bytes = "whole" /\ k.path.config \in k.tried)
  /\ k.sure => Loaded(k.path) = k.saved
  /\ k.at = "idle" /\ k.ok => Loaded(k.path) = k.config

(* What a file loads as.                                                   *)
LEMMA LoadedFile ==
  ASSUME NEW f \in File
  PROVE  /\ f.bytes = "whole" => f.config \in Valid /\ Loaded(f) = f.config
         /\ f.bytes # "whole" => Loaded(f) = 0
BY DEF File, Loaded, Port!DemonButterscotchPersistence_load, Port!decode, Port!valid

(* A call returns: nothing but its result changes.                         *)
LEMMA ReturnHolds ==
  ASSUME NEW k, Held(k), NEW d, d = Port!Return(k, FALSE)
  PROVE  Held(d)
<1>1. k \in Saving /\ d = [k EXCEPT !.at = "idle", !.ok = FALSE]
  BY DEF Held, Port!Return
<1>2. PICK e : e = [k EXCEPT !.at = "idle"]
  OBVIOUS
<1>3. d = [e EXCEPT !.ok = FALSE]
  BY <1>1, <1>2 DEF Saving
<1>4. e \in Saving
  BY <1>1, <1>2 DEF Saving
<1>5. d \in Saving
  BY <1>3, <1>4 DEF Saving
<1>6. /\ d.at = "idle" /\ d.ok = FALSE /\ d.path = k.path /\ d.tried = k.tried /\ d.saved = k.saved
      /\ d.sure = k.sure
  BY <1>1 DEF Saving
<1> QED BY <1>5, <1>6 DEF Held

(* Nothing was saved yet.                                                  *)
LEMMA PersistenceInit ==
  ASSUME Port!PersistenceConstants, Port!Init
  PROVE  Held(s)
BY DEF Port!PersistenceConstants, Port!Init, Held, Saving, File, Loaded, Port!NONE,
       Port!DemonButterscotchPersistence_load, Port!decode

(* A configuration is checked and encoded (Encode).                        *)
LEMMA EncodeHolds ==
  ASSUME Port!PersistenceConstants, Held(s), Port!Encode
  PROVE  Held(s')
<1>1. PICK c \in Configs :
        LET a == [s EXCEPT !.config = c, !.saves = @ + 1]
        IN  s' = IF Port!valid(c) THEN [a EXCEPT !.at = "create"] ELSE Port!Return(a, FALSE)
  BY DEF Port!Encode
<1>2. s \in Saving /\ s.at = "idle" /\ s.saves \in Nat
  BY DEF Held, Port!Encode, Saving
<1>3. PICK n \in Nat : n = s.saves + 1
  BY <1>2
<1>4. PICK a : a = [s EXCEPT !.config = c, !.saves = n]
  OBVIOUS
<1>5. /\ a \in Saving /\ a.path = s.path /\ a.temp = s.temp /\ a.at = "idle" /\ a.config = c
      /\ a.saved = s.saved /\ a.sure = s.sure /\ a.tried = s.tried
  BY <1>2, <1>4 DEF Saving
<1>6. s' = IF Port!valid(c) THEN [a EXCEPT !.at = "create"] ELSE Port!Return(a, FALSE)
  BY <1>1, <1>3, <1>4
<1>7. CASE Port!valid(c)
  <2>1. s' = [a EXCEPT !.at = "create"] /\ c \in Valid
    BY <1>6, <1>7 DEF Port!valid
  <2>2. /\ s' \in Saving /\ s'.path = s.path /\ s'.at = "create" /\ s'.config = c
        /\ s'.saved = s.saved /\ s'.sure = s.sure /\ s'.tried = s.tried
    BY <1>5, <2>1 DEF Saving
  <2> QED BY <2>1, <2>2 DEF Held
<1>8. CASE ~Port!valid(c)
  <2>1. s' = [a EXCEPT !.at = "idle", !.ok = FALSE]
    BY <1>6, <1>8 DEF Port!Return
  <2>2. PICK e : e = [a EXCEPT !.at = "idle"]
    OBVIOUS
  <2>3. e \in Saving /\ s' = [e EXCEPT !.ok = FALSE]
    BY <1>5, <2>1, <2>2 DEF Saving
  <2>4. s' \in Saving
    BY <2>3 DEF Saving
  <2>5. /\ s'.path = s.path /\ s'.at = "idle" /\ s'.ok = FALSE
        /\ s'.saved = s.saved /\ s'.sure = s.sure /\ s'.tried = s.tried
    BY <1>5, <2>1 DEF Saving
  <2> QED BY <2>4, <2>5 DEF Held
<1> QED BY <1>7, <1>8

(* A step that only changes the temporary file, before the record is whole *)
(* or after it was given up.                                               *)
LEMMA TemporaryHolds ==
  ASSUME Held(s), s.at # "idle", NEW f \in File, NEW step \in {"write", "discard"},
         s' = [s EXCEPT !.at = step, !.temp = f]
  PROVE  Held(s')
<1>1. s \in Saving
  BY DEF Held
<1>2. /\ s' \in Saving /\ s'.path = s.path /\ s'.at = step /\ s'.config = s.config
      /\ s'.saved = s.saved /\ s'.sure = s.sure /\ s'.tried = s.tried
  BY <1>1 DEF Saving
<1> QED BY <1>2 DEF Held

(* The temporary file is created (Create).                                 *)
LEMMA CreateHolds ==
  ASSUME Held(s), Port!Create
  PROVE  Held(s')
<1>1. CASE s' = Port!Return(s, FALSE)
  BY <1>1, ReturnHolds
<1>2. CASE s' = [s EXCEPT !.at = "write", !.temp = [bytes |-> "empty", config |-> 0]]
  <2>1. PICK f \in File : f = [bytes |-> "empty", config |-> 0]
    BY DEF File
  <2>2. s' = [s EXCEPT !.at = "write", !.temp = f] /\ s.at # "idle"
    BY <1>2, <2>1 DEF Port!Create
  <2> QED BY <2>2, TemporaryHolds
<1> QED BY <1>1, <1>2 DEF Port!Create

(* The record is written whole, or the write stops early (Write).          *)
LEMMA WriteHolds ==
  ASSUME Held(s), Port!Write
  PROVE  Held(s')
<1>1. s \in Saving /\ s.at = "write" /\ s.config \in Valid /\ s.temp \in File
  BY DEF Held, Port!Write, Saving
<1>2. CASE s' = [s EXCEPT !.at = "delete", !.temp = Port!Whole(s.config), !.tried = @ \cup {s.config}]
  <2>1. PICK f \in File : f = Port!Whole(s.config)
    BY <1>1 DEF File, Port!Whole
  <2>2. PICK T \in SUBSET Valid : T = s.tried \cup {s.config}
    BY <1>1 DEF Saving
  <2>3. s' = [s EXCEPT !.at = "delete", !.temp = f, !.tried = T]
    BY <1>2, <2>1, <2>2
  <2>4. /\ s' \in Saving /\ s'.path = s.path /\ s'.at = "delete" /\ s'.config = s.config
        /\ s'.saved = s.saved /\ s'.sure = s.sure /\ s'.tried = T /\ s'.temp = f
    BY <1>1, <2>3 DEF Saving
  <2> QED BY <1>1, <2>1, <2>2, <2>4 DEF Held
<1>3. CASE \E b \in {Port!Torn, s.temp} : s' = [s EXCEPT !.at = "discard", !.temp = b]
  <2>1. PICK b \in File : s' = [s EXCEPT !.at = "discard", !.temp = b]
    BY <1>1, <1>3 DEF Port!Torn, File
  <2> QED BY <1>1, <2>1, TemporaryHolds
<1> QED BY <1>2, <1>3 DEF Port!Write

(* The temporary file is removed, or stays (Discard).                      *)
LEMMA DiscardHolds ==
  ASSUME Held(s), Port!Discard
  PROVE  Held(s')
<1>1. s \in Saving /\ s.at = "discard"
  BY DEF Held, Port!Discard
<1>2. PICK f \in File : f = Port!NONE
  BY DEF File, Port!NONE
<1>3. PICK k : k = [s EXCEPT !.temp = f]
  OBVIOUS
<1>4. /\ k \in Saving /\ k.path = s.path /\ k.at = "discard" /\ k.config = s.config
      /\ k.saved = s.saved /\ k.sure = s.sure /\ k.tried = s.tried
  BY <1>1, <1>3 DEF Saving
<1>5. Held(k)
  BY <1>1, <1>4 DEF Held
<1>6. s' = Port!Return(k, FALSE) \/ s' = Port!Return(s, FALSE)
  BY <1>2, <1>3 DEF Port!Discard
<1> QED BY <1>5, <1>6, ReturnHolds

(* The old file is deleted, or stays: the loss the model lets a crash      *)
(* cause (Delete).                                                         *)
LEMMA DeleteHolds ==
  ASSUME Held(s), Port!Delete
  PROVE  Held(s')
<1>1. s \in Saving /\ s.at = "delete" /\ s.path \in File
  BY DEF Held, Port!Delete, Saving
<1>2. PICK f : f \in File /\ s' = [s EXCEPT !.at = "rename", !.path = f, !.sure = FALSE] /\ (f = s.path \/ f = Port!NONE)
  BY <1>1 DEF Port!Delete, File, Port!NONE
<1>3. PICK e : e = [s EXCEPT !.at = "rename", !.path = f]
  OBVIOUS
<1>4. e \in Saving
  BY <1>1, <1>2, <1>3 DEF Saving
<1>5. s' = [e EXCEPT !.sure = FALSE]
  BY <1>1, <1>2, <1>3 DEF Saving
<1>6. s' \in Saving
  BY <1>4, <1>5 DEF Saving
<1>7. /\ s'.path = f /\ s'.at = "rename" /\ s'.config = s.config
      /\ s'.saved = s.saved /\ s'.sure = FALSE /\ s'.tried = s.tried /\ s'.temp = s.temp
  BY <1>1, <1>2 DEF Saving
<1> QED BY <1>1, <1>2, <1>6, <1>7 DEF Held, Port!NONE

(* The new file takes the place of the old one (Rename).                   *)
LEMMA RenameHolds ==
  ASSUME Held(s), Port!Rename
  PROVE  Held(s')
<1>1. /\ s \in Saving /\ s.at = "rename" /\ s.temp \in File /\ s.config \in Valid
      /\ s.temp = Port!Whole(s.config) /\ s.config \in s.tried
  BY DEF Held, Port!Rename, Saving
<1>2. CASE s' = [s EXCEPT !.at = "discard"]
  <2>1. s' = [s EXCEPT !.at = "discard", !.temp = s.temp]
    BY <1>1, <1>2 DEF Saving
  <2> QED BY <1>1, <2>1, TemporaryHolds
<1>3. CASE s' = Port!Return([s EXCEPT !.path = s.temp, !.temp = Port!NONE, !.saved = s.config, !.sure = TRUE], TRUE)
  <2>1. PICK f \in File : f = Port!NONE
    BY DEF File, Port!NONE
  <2>2. PICK e : e = [s EXCEPT !.at = "idle", !.path = s.temp, !.temp = f, !.saved = s.config]
    OBVIOUS
  <2>3. e \in Saving
    BY <1>1, <2>1, <2>2 DEF Saving
  <2>4. PICK k : k = [e EXCEPT !.sure = TRUE]
    OBVIOUS
  <2>5. k \in Saving
    BY <2>3, <2>4 DEF Saving
  <2>6. s' = [k EXCEPT !.ok = TRUE]
    BY <1>1, <1>3, <2>1, <2>2, <2>4 DEF Port!Return, Saving
  <2>7. s' \in Saving
    BY <2>5, <2>6 DEF Saving
  <2>8. /\ e.path = s.temp /\ e.at = "idle" /\ e.config = s.config /\ e.saved = s.config /\ e.tried = s.tried
    BY <1>1, <2>2 DEF Saving
  <2>9. /\ s'.path = s.temp /\ s'.at = "idle" /\ s'.config = s.config /\ s'.saved = s.config /\ s'.tried = s.tried
    BY <2>3, <2>4, <2>5, <2>6, <2>8 DEF Saving
  <2>10. s.temp.bytes = "whole" /\ s.temp.config = s.config
    BY <1>1 DEF Port!Whole
  <2>11. Loaded(s.temp) = s.config
    BY <1>1, <2>10, LoadedFile
  <2> QED BY <1>1, <2>7, <2>9, <2>10, <2>11 DEF Held
<1> QED BY <1>2, <1>3 DEF Port!Rename

(* Every step keeps the invariant, a kill before any of them too.          *)
LEMMA PersistenceStep ==
  ASSUME Port!PersistenceConstants, Held(s), [Port!Next]_s
  PROVE  Held(s')
<1>1. CASE Port!Kill
  BY <1>1, ReturnHolds DEF Port!Kill
<1>2. CASE s' = s
  BY <1>2
<1> QED BY <1>1, <1>2, EncodeHolds, CreateHolds, WriteHolds, DiscardHolds, DeleteHolds, RenameHolds DEF Port!Next

(* Whatever call fails or the process is killed before, the configuration  *)
(* that loads is one that a save wrote whole, it is that of the last save  *)
(* that reported success unless a later save deleted the old file, and a   *)
(* save that reports success is what loads                                 *)
(* (DemonButterscotchPersistence_save and _load).                          *)
THEOREM ConfigurationSurvives ==
  ASSUME Port!PersistenceConstants
  PROVE  Port!Spec => [](Port!LoadsWhatWasSaved /\ Port!SuccessIsDurable)
<1>1. Port!Init => Held(s)
  BY PersistenceInit
<1>2. Held(s) /\ [Port!Next]_s => Held(s)'
  BY PersistenceStep
<1>3. ASSUME Held(s)
      PROVE  Port!LoadsWhatWasSaved /\ Port!SuccessIsDurable
  <2>1. s.path \in File
    BY <1>3 DEF Held, Saving
  <2>2. Loaded(s.path) # 0 => Loaded(s.path) \in s.tried
    BY <1>3, <2>1, LoadedFile DEF Held
  <2> QED BY <1>3, <2>2 DEF Held, Loaded, Port!LoadsWhatWasSaved, Port!SuccessIsDurable
<1> QED BY <1>1, <1>2, <1>3, PTL DEF Port!Spec

(***************************************************************************)
(* The window manager (DemonWM), for any windows, applications and names.  *)
(*                                                                         *)
(* Tabled is the part of the inductive invariant about the table of        *)
(* clients: it is FramesHaveEntries of any state.  Highlighted is          *)
(* SelectionIsVisible whether the launcher is open or not.                 *)
(***************************************************************************)
CONSTANTS Toplevel, Owner, max_clients, Names, Pinned, COLUMNS, Letter, SEARCH, FRAMES
WM == INSTANCE DemonWM WITH Window <- Toplevel

Sizes == {"normal", "full", "dragged"}
ClientEntry == [client : Toplevel, frame : Nat, size : Sizes, orig : Sizes, maximized : BOOLEAN]
Manager(k) ==
  k \in [live : SUBSET Toplevel, mapped : SUBSET Toplevel, frames : SUBSET Nat, made : Nat,
         clients : Seq(ClientEntry), drag : {k.drag}, resize : {k.resize}, grab : {k.grab}, open : BOOLEAN,
         selected : Nat, text : {k.text}, visible : SUBSET WM!Apps, launched : {k.launched}]
FramesOf(q) == {q[i].frame : i \in 1..Len(q)}
OneEach(q) == \A i, j \in 1..Len(q) : i # j => q[i].client # q[j].client
Gestures(q) == {0} \cup Toplevel \cup FramesOf(q)
Tabled(k) ==
  /\ k.frames \subseteq FramesOf(k.clients) /\ OneEach(k.clients)
  /\ k.drag \in Gestures(k.clients) /\ k.resize \in Gestures(k.clients)
Highlighted(k) == k.visible # {} => k.selected < Cardinality(k.visible)
Managed(k) == Manager(k) /\ Tabled(k) /\ Highlighted(k)

(* The instance counts a set as FiniteSets does.                           *)
LEMMA SameCardinality == \A S : WM!Cardinality(S) = Cardinality(S)
BY DEF WM!Cardinality, Cardinality

(* The list that the launcher shows is finite.                             *)
LEMMA VisibleIsFinite ==
  ASSUME WM!DemonWMConstants, NEW S \in SUBSET WM!Apps
  PROVE  Cardinality(S) \in Nat /\ (S = {} <=> Cardinality(S) = 0)
<1>1. WM!Apps = 1..Len(Names) /\ Len(Names) \in Nat
  BY DEF WM!Apps, WM!DemonWMConstants
<1>2. IsFiniteSet(1..Len(Names))
  BY <1>1, FS_Interval
<1>3. IsFiniteSet(S)
  BY <1>1, <1>2, FS_Subset
<1> QED BY <1>3, FS_CardinalityType, FS_EmptySet

(* A step that leaves the entries, and drops frames or gestures at most.   *)
LEMMA TableKept ==
  ASSUME NEW k, Managed(k), NEW d, Manager(d), d.clients = k.clients, d.frames \subseteq k.frames,
         d.drag \in {0, k.drag}, d.resize \in {0, k.resize},
         d.visible = k.visible, d.selected = k.selected
  PROVE  Managed(d)
BY DEF Managed, Tabled, Gestures, Highlighted

(* A step of the launcher.                                                 *)
LEMMA ListKept ==
  ASSUME NEW k, Managed(k), NEW d, Manager(d), d.clients = k.clients, d.frames = k.frames,
         d.drag = k.drag, d.resize = k.resize, Highlighted(d)
  PROVE  Managed(d)
BY DEF Managed, Tabled

(* The list is filtered again: the selection stays in it (updateFilter).   *)
LEMMA FilterKeeps ==
  ASSUME WM!DemonWMConstants, NEW k, Managed(k), NEW d, d = WM!updateFilter(k)
  PROVE  Managed(d)
<1>1. PICK S : S = {a \in WM!Apps : WM!containsIgnoreCase(Names[a], k.text)}
  OBVIOUS
<1>2. PICK n : n = Cardinality(S)
  OBVIOUS
<1>3. S \in SUBSET WM!Apps /\ n \in Nat /\ (S = {} <=> n = 0)
  BY <1>1, <1>2, VisibleIsFinite
<1>4. PICK m : m = IF k.selected < n THEN k.selected ELSE IF S = {} THEN 0 ELSE n - 1
  OBVIOUS
<1>5. Manager(k) /\ k.selected \in Nat
  BY DEF Managed, Manager
<1>6. m \in Nat /\ (S # {} => m < n)
  BY <1>3, <1>4, <1>5
<1>7. d = [k EXCEPT !.visible = S, !.selected = m]
  <2>1. PICK last : last = IF S = {} THEN 0 ELSE n - 1
    OBVIOUS
  <2>2. n = WM!Cardinality(S)
    BY <1>2, SameCardinality
  <2>3. WM!updateFilter(k) = [k EXCEPT !.visible = S, !.selected = IF k.selected < n THEN k.selected ELSE last]
    BY <1>1, <2>1, <2>2, Zenon DEF WM!updateFilter
  <2> QED BY <2>1, <2>3, <1>4
<1>8. /\ Manager(d) /\ d.clients = k.clients /\ d.frames = k.frames /\ d.drag = k.drag /\ d.resize = k.resize
      /\ d.visible = S /\ d.selected = m
  BY <1>3, <1>5, <1>6, <1>7 DEF Manager
<1>9. Highlighted(d)
  BY <1>2, <1>6, <1>8 DEF Highlighted
<1> QED BY <1>8, <1>9, ListKept

(* The launcher closes (closeLauncher).                                    *)
LEMMA CloseKeeps ==
  ASSUME NEW k, Managed(k), NEW d, d = WM!closeLauncher(k)
  PROVE  Managed(d)
<1>1. Manager(k) /\ d = [k EXCEPT !.open = FALSE]
  BY DEF Managed, WM!closeLauncher
<1>2. /\ Manager(d) /\ d.clients = k.clients /\ d.frames = k.frames /\ d.drag = k.drag /\ d.resize = k.resize
      /\ d.visible = k.visible /\ d.selected = k.selected
  BY <1>1 DEF Manager
<1> QED BY <1>2, TableKept

(* An application is started (launch).                                     *)
LEMMA LaunchKeeps ==
  ASSUME NEW k, Managed(k), NEW app, NEW d, d = WM!launch(k, app)
  PROVE  Managed(d)
<1>1. Manager(k) /\ d = [k EXCEPT !.launched = app]
  BY DEF Managed, WM!launch
<1>2. /\ Manager(d) /\ d.clients = k.clients /\ d.frames = k.frames /\ d.drag = k.drag /\ d.resize = k.resize
      /\ d.visible = k.visible /\ d.selected = k.selected
  BY <1>1 DEF Manager
<1> QED BY <1>2, TableKept

(* The search text changes, and the list with it.                          *)
LEMMA TextKeeps ==
  ASSUME WM!DemonWMConstants, NEW k, Managed(k), NEW text, NEW d, d = WM!updateFilter([k EXCEPT !.text = text])
  PROVE  Managed(d)
<1>1. PICK e : e = [k EXCEPT !.text = text]
  OBVIOUS
<1>2. Manager(k)
  BY DEF Managed
<1>3. /\ Manager(e) /\ e.clients = k.clients /\ e.frames = k.frames /\ e.drag = k.drag /\ e.resize = k.resize
      /\ e.visible = k.visible /\ e.selected = k.selected
  BY <1>1, <1>2 DEF Manager
<1>4. Managed(e)
  BY <1>3, TableKept
<1> QED BY <1>1, <1>4, FilterKeeps

(* The launcher opens on the whole list, or closes (toggleLauncher).       *)
LEMMA ToggleKeeps ==
  ASSUME WM!DemonWMConstants, NEW k, Managed(k), NEW d, d = WM!toggleLauncher(k)
  PROVE  Managed(d)
<1>1. CASE k.open
  <2>1. d = WM!closeLauncher(k)
    BY <1>1 DEF WM!toggleLauncher, WM!closeLauncher
  <2> QED BY <2>1, CloseKeeps
<1>2. CASE ~k.open
  <2>1. PICK u : u = [k EXCEPT !.open = TRUE]
    OBVIOUS
  <2>2. Manager(k)
    BY DEF Managed
  <2>3. /\ Manager(u) /\ u.clients = k.clients /\ u.frames = k.frames /\ u.drag = k.drag /\ u.resize = k.resize
        /\ u.visible = k.visible /\ u.selected = k.selected
    BY <2>1, <2>2 DEF Manager
  <2>4. PICK zero \in Nat : zero = 0
    OBVIOUS
  <2>5. PICK e : e = [u EXCEPT !.selected = zero]
    OBVIOUS
  <2>6. /\ Manager(e) /\ e.clients = k.clients /\ e.frames = k.frames /\ e.drag = k.drag /\ e.resize = k.resize
        /\ e.visible = k.visible /\ e.selected = zero
    BY <2>3, <2>5 DEF Manager
  <2>7. Highlighted(e)
    <3>1. k.visible \in SUBSET WM!Apps
      BY <2>2 DEF Manager
    <3>2. Cardinality(k.visible) \in Nat /\ (k.visible = {} <=> Cardinality(k.visible) = 0)
      BY <3>1, VisibleIsFinite
    <3> QED BY <3>2, <2>4, <2>6 DEF Highlighted
  <2>8. Managed(e)
    BY <2>6, <2>7, ListKept
  <2>9. d = WM!updateFilter([e EXCEPT !.text = <<>>])
    <3>1. [k EXCEPT !.open = TRUE, !.selected = 0, !.text = <<>>] = [e EXCEPT !.text = <<>>]
      BY <2>1, <2>2, <2>4, <2>5 DEF Manager
    <3> QED BY <3>1, <1>2 DEF WM!toggleLauncher
  <2> QED BY <2>8, <2>9, TextKeeps
<1> QED BY <1>1, <1>2

(* The selection moves in the grid (Moved).                                *)
LEMMA MovedKeeps ==
  ASSUME WM!DemonWMConstants, Managed(s), NEW key \in {"left", "right", "up", "down"}, NEW d, d = WM!Moved(key)
  PROVE  Managed(d)
<1>1. PICK at : at = s.selected
  OBVIOUS
<1>2. PICK n : n = Cardinality(s.visible)
  OBVIOUS
<1>3. Manager(s)
  BY DEF Managed
<1>4. at \in Nat /\ s.visible \in SUBSET WM!Apps
  BY <1>1, <1>3 DEF Manager
<1>5. n \in Nat /\ (s.visible = {} <=> n = 0)
  BY <1>2, <1>4, VisibleIsFinite
<1>6. COLUMNS \in Nat /\ COLUMNS > 0
  BY DEF WM!DemonWMConstants
<1>7. s.visible # {} => at < n
  BY <1>1, <1>2 DEF Managed, Highlighted
<1>8. PICK to : to = CASE key = "left" -> IF at % COLUMNS > 0 THEN at - 1 ELSE at
                       [] key = "right" -> IF at % COLUMNS < COLUMNS - 1 /\ at + 1 < n THEN at + 1 ELSE at
                       [] key = "up" -> IF at >= COLUMNS THEN at - COLUMNS ELSE at
                       [] key = "down" -> IF at + COLUMNS < n THEN at + COLUMNS ELSE at
  OBVIOUS
<1>9. d = [s EXCEPT !.selected = to]
  <2>1. n = WM!Cardinality(s.visible)
    BY <1>2, SameCardinality
  <2> QED BY <1>1, <2>1, <1>8, Zenon DEF WM!Moved
<1>10. to \in Nat /\ (to <= at \/ to < n)
  <2>1. CASE key = "left"
    <3>1. at % COLUMNS > 0 => at > 0
      BY <1>4, <1>6
    <3> QED BY <2>1, <3>1, <1>4, <1>8
  <2>2. CASE key = "right"
    BY <2>2, <1>4, <1>5, <1>8
  <2>3. CASE key = "up"
    BY <2>3, <1>4, <1>6, <1>8
  <2>4. CASE key = "down"
    BY <2>4, <1>4, <1>5, <1>6, <1>8
  <2> QED BY <2>1, <2>2, <2>3, <2>4
<1>11. /\ Manager(d) /\ d.clients = s.clients /\ d.frames = s.frames /\ d.drag = s.drag /\ d.resize = s.resize
       /\ d.visible = s.visible /\ d.selected = to
  BY <1>3, <1>9, <1>10 DEF Manager
<1>12. Highlighted(d)
  BY <1>2, <1>4, <1>5, <1>7, <1>10, <1>11 DEF Highlighted
<1> QED BY <1>11, <1>12, ListKept

(* A key of the launcher (handleKey).                                      *)
LEMMA KeyKeeps ==
  ASSUME WM!DemonWMConstants, Managed(s), WM!handleKey
  PROVE  Managed(s')
<1>1. CASE s' = WM!toggleLauncher(s)
  BY <1>1, ToggleKeeps
<1>2. CASE s' = WM!launch(s, 1)
  BY <1>2, LaunchKeeps
<1>3. CASE s' = WM!closeLauncher(s)
  BY <1>3, CloseKeeps
<1>4. CASE s' = WM!Enter
  <2>1. PICK e : e = IF s.visible = {} THEN s ELSE WM!launch(s, WM!Nth(s.visible, s.selected))
    OBVIOUS
  <2>2. Managed(e)
    BY <2>1, LaunchKeeps
  <2>3. s' = WM!closeLauncher(e)
    BY <1>4, <2>1, Zenon DEF WM!Enter
  <2> QED BY <2>2, <2>3, CloseKeeps
<1>5. CASE s' = WM!Backspace
  <2>1. PICK text : text = IF s.text = <<>> THEN s.text ELSE WM!Front(s.text)
    OBVIOUS
  <2>2. s' = WM!updateFilter([s EXCEPT !.text = text])
    BY <1>5, <2>1, Zenon DEF WM!Backspace
  <2> QED BY <2>2, TextKeeps
<1>6. ASSUME NEW key \in {"left", "right", "up", "down"}, s' = WM!Moved(key) PROVE Managed(s')
  BY <1>6, MovedKeeps
<1>7. ASSUME NEW letter \in Letter, s' = WM!Typed(letter) PROVE Managed(s')
  <2>1. PICK text : text = Append(s.text, letter)
    OBVIOUS
  <2>2. CASE Len(s.text) < SEARCH
    <3>1. s' = WM!updateFilter([s EXCEPT !.text = text])
      BY <1>7, <2>1, <2>2, Zenon DEF WM!Typed
    <3> QED BY <3>1, TextKeeps
  <2>3. CASE ~(Len(s.text) < SEARCH)
    BY <1>7, <2>3 DEF WM!Typed
  <2> QED BY <2>2, <2>3
<1> QED BY <1>1, <1>2, <1>3, <1>4, <1>5, <1>6, <1>7, Zenon DEF WM!handleKey

(* A click in the launcher or on the panel.                                *)
LEMMA ClickKeeps ==
  ASSUME WM!DemonWMConstants, Managed(s),
         \/ \E button \in BOOLEAN : WM!panelClick(button)
         \/ \E grid \in BOOLEAN, slot \in 0..Len(Names) : WM!launcherClick(grid, slot)
  PROVE  Managed(s')
<1>1. ASSUME NEW button \in BOOLEAN, WM!panelClick(button) PROVE Managed(s')
  BY <1>1, ToggleKeeps, Zenon DEF WM!panelClick
<1>2. ASSUME NEW app, s' = WM!closeLauncher(WM!launch(s, app)) PROVE Managed(s')
  <2>1. PICK e : e = WM!launch(s, app)
    OBVIOUS
  <2> QED BY <1>2, <2>1, LaunchKeeps, CloseKeeps
<1>3. ASSUME NEW grid \in BOOLEAN, NEW slot \in 0..Len(Names), WM!launcherClick(grid, slot) PROVE Managed(s')
  <2>1. \/ s' = WM!closeLauncher(WM!launch(s, WM!Nth(s.visible, slot)))
        \/ s' = WM!closeLauncher(WM!launch(s, WM!Nth(Pinned, slot)))
    BY <1>3, Zenon DEF WM!launcherClick
  <2> QED BY <1>2, <2>1
<1> QED BY <1>1, <1>3

(* The server takes windows away (Destroyed).                              *)
LEMMA DestroyedKeeps ==
  ASSUME NEW k, Managed(k), NEW gone, NEW d, d = WM!Destroyed(k, gone)
  PROVE  /\ Managed(d) /\ d.clients = k.clients /\ d.frames = k.frames \ gone
         /\ d.drag = k.drag /\ d.resize = k.resize
<1>1. Manager(k)
  BY DEF Managed
<1>2. PICK grab : grab = IF k.grab \in gone THEN WM!None ELSE k.grab
  OBVIOUS
<1>3. d = [k EXCEPT !.live = k.live \ gone, !.mapped = k.mapped \ gone, !.frames = k.frames \ gone, !.grab = grab]
  BY <1>1, <1>2 DEF WM!Destroyed, Manager
<1>4. /\ Manager(d) /\ d.clients = k.clients /\ d.frames = k.frames \ gone /\ d.drag = k.drag
      /\ d.resize = k.resize /\ d.visible = k.visible /\ d.selected = k.selected
  <2>1. PICK live, mapped, frames : live = k.live \ gone /\ mapped = k.mapped \ gone /\ frames = k.frames \ gone
    OBVIOUS
  <2>2. live \in SUBSET Toplevel /\ mapped \in SUBSET Toplevel /\ frames \in SUBSET Nat
    BY <1>1, <2>1 DEF Manager
  <2>3. d = [k EXCEPT !.live = live, !.mapped = mapped, !.frames = frames, !.grab = grab]
    BY <1>3, <2>1
  <2>4. /\ Manager(d) /\ d.clients = k.clients /\ d.frames = frames /\ d.drag = k.drag
        /\ d.resize = k.resize /\ d.visible = k.visible /\ d.selected = k.selected
    BY <1>1, <2>2, <2>3 DEF Manager
  <2> QED BY <2>1, <2>4
<1> QED BY <1>4, TableKept

(* The grab is the server's, not the table's (XGrabPointer,                *)
(* XUngrabPointer).                                                        *)
LEMMA GrabKeeps ==
  ASSUME NEW k, Managed(k), NEW window, NEW d, d \in {WM!XGrabPointer(k, window), WM!XUngrabPointer(k)}
  PROVE  Managed(d) /\ d.drag = k.drag /\ d.resize = k.resize
<1>1. Manager(k)
  BY DEF Managed
<1>2. CASE d = k
  BY <1>2
<1>3. ASSUME NEW grab, d = [k EXCEPT !.grab = grab] PROVE Managed(d) /\ d.drag = k.drag /\ d.resize = k.resize
  <2>1. /\ Manager(d) /\ d.clients = k.clients /\ d.frames = k.frames /\ d.drag = k.drag
        /\ d.resize = k.resize /\ d.visible = k.visible /\ d.selected = k.selected
    BY <1>1, <1>3 DEF Manager
  <2> QED BY <2>1, TableKept
<1>4. d = k \/ d = [k EXCEPT !.grab = window] \/ d = [k EXCEPT !.grab = WM!None]
  BY Zenon DEF WM!XGrabPointer, WM!XUngrabPointer
<1> QED BY <1>2, <1>3, <1>4

(* A gesture starts on something of the table, or ends.                    *)
LEMMA GestureKeeps ==
  ASSUME NEW k, Managed(k), NEW at \in Gestures(k.clients), NEW d,
         d \in {[k EXCEPT !.drag = at], [k EXCEPT !.resize = at]}
  PROVE  Managed(d) /\ d.drag \in {at, k.drag} /\ d.resize \in {at, k.resize} /\ d.clients = k.clients
<1>1. Manager(k)
  BY DEF Managed
<1>2. /\ Manager(d) /\ d.clients = k.clients /\ d.frames = k.frames /\ d.drag \in {at, k.drag}
      /\ d.resize \in {at, k.resize} /\ d.visible = k.visible /\ d.selected = k.selected
  <2>1. CASE d = [k EXCEPT !.drag = at]
    BY <1>1, <2>1 DEF Manager
  <2>2. CASE d = [k EXCEPT !.resize = at]
    BY <1>1, <2>2 DEF Manager
  <2> QED BY <2>1, <2>2
<1> QED BY <1>2 DEF Managed, Tabled, Highlighted

(* A gesture ends (endDrag, endResize).                                    *)
LEMMA EndKeeps ==
  ASSUME NEW k, Managed(k), NEW d, d \in {WM!endDrag(k), WM!endResize(k)}
  PROVE  Managed(d)
<1>1. PICK u : u = WM!XUngrabPointer(k)
  OBVIOUS
<1>2. Managed(u)
  BY <1>1, GrabKeeps
<1>3. WM!None \in Gestures(u.clients)
  BY DEF Gestures, WM!None
<1>4. d = k \/ d = [u EXCEPT !.drag = WM!None] \/ d = [u EXCEPT !.resize = WM!None]
  BY <1>1, Zenon DEF WM!endDrag, WM!endResize
<1> QED BY <1>2, <1>3, <1>4, GestureKeeps

(* An entry changes its size: no window or frame of the table changes.     *)
LEMMA EntryKeeps ==
  ASSUME NEW k, Managed(k), NEW i \in 1..Len(k.clients), NEW e \in ClientEntry,
         e.client = k.clients[i].client, e.frame = k.clients[i].frame,
         NEW d, d = [k EXCEPT !.clients = [k.clients EXCEPT ![i] = e]]
  PROVE  Managed(d)
<1>1. Manager(k) /\ k.clients \in Seq(ClientEntry)
  BY DEF Managed, Manager
<1>2. PICK r : r = [k.clients EXCEPT ![i] = e]
  OBVIOUS
<1>3. r \in Seq(ClientEntry) /\ Len(r) = Len(k.clients)
  BY <1>1, <1>2
<1>4. \A j \in 1..Len(k.clients) : r[j].client = k.clients[j].client /\ r[j].frame = k.clients[j].frame
  BY <1>1, <1>2
<1>5. FramesOf(r) = FramesOf(k.clients) /\ (OneEach(k.clients) => OneEach(r))
  BY <1>3, <1>4 DEF FramesOf, OneEach
<1>6. /\ Manager(d) /\ d.clients = r /\ d.frames = k.frames /\ d.drag = k.drag /\ d.resize = k.resize
      /\ d.visible = k.visible /\ d.selected = k.selected
  BY <1>1, <1>2, <1>3 DEF Manager
<1> QED BY <1>5, <1>6 DEF Managed, Tabled, Highlighted, Gestures

(* A window gets an entry at the end of the table (manage).                *)
LEMMA ManageKeeps ==
  ASSUME Managed(s), NEW window, WM!manage(window)
  PROVE  Managed(s')
<1>1. CASE s' = s
  BY <1>1
<1>2. Manager(s) /\ s.clients \in Seq(ClientEntry) /\ s.made \in Nat
  BY DEF Managed, Manager
<1>3. window \in Toplevel
  BY <1>2 DEF WM!manage, Manager
<1>4. CASE s' # s
  <2>1. PICK frame : frame = 101 + s.made
    OBVIOUS
  <2>2. PICK entry : entry = [client |-> window, frame |-> frame, size |-> "normal", orig |-> "normal",
                              maximized |-> FALSE]
    OBVIOUS
  <2>3. /\ WM!findClient(window) = {}
        /\ \E made \in BOOLEAN :
             s' = [s EXCEPT !.clients = Append(s.clients, entry), !.made = s.made + 1,
                            !.frames = IF made THEN s.frames \cup {frame} ELSE s.frames,
                            !.mapped = IF made THEN s.mapped \cup {window} ELSE s.mapped]
    BY <1>2, <1>4, <2>1, <2>2 DEF WM!manage, Manager
  <2>4. PICK F, M : /\ F \in {s.frames, s.frames \cup {frame}} /\ M \in {s.mapped, s.mapped \cup {window}}
                    /\ s' = [s EXCEPT !.clients = Append(s.clients, entry), !.made = s.made + 1,
                                      !.frames = F, !.mapped = M]
    BY <2>3
  <2>5. frame \in Nat /\ entry \in ClientEntry /\ entry.client = window /\ entry.frame = frame
    BY <1>2, <1>3, <2>1, <2>2 DEF ClientEntry, Sizes
  <2>6. PICK q : q = Append(s.clients, entry)
    OBVIOUS
  <2>7. PICK n : n = Len(s.clients)
    OBVIOUS
  <2>8. /\ n \in Nat /\ q \in Seq(ClientEntry) /\ Len(q) = n + 1 /\ q[n + 1] = entry
        /\ \A j \in 1..n : q[j] = s.clients[j]
    BY <1>2, <2>5, <2>6, <2>7
  <2>9. FramesOf(q) = FramesOf(s.clients) \cup {frame}
    <3>1. /\ \A f : f \in FramesOf(q) <=> \E j \in 1..(n + 1) : f = q[j].frame
          /\ \A f : f \in FramesOf(s.clients) <=> \E j \in 1..n : f = s.clients[j].frame
      BY <2>7, <2>8, Zenon DEF FramesOf
    <3>2. \A j \in 1..(n + 1) : j \in 1..n \/ j = n + 1
      BY <2>8
    <3>3. \A j : j \in 1..n => j \in 1..(n + 1)
      BY <2>8
    <3>4. n + 1 \in 1..(n + 1)
      BY <2>8
    <3>5. ASSUME NEW f \in FramesOf(q) PROVE f \in FramesOf(s.clients) \/ f = frame
      <4>1. PICK j \in 1..(n + 1) : f = q[j].frame
        BY <3>1, Zenon
      <4>2. CASE j \in 1..n
        <5>1. f = s.clients[j].frame
          BY <2>8, <4>1, <4>2, Zenon
        <5> QED BY <3>1, <4>2, <5>1, Zenon
      <4>3. CASE j = n + 1
        <5>1. q[j] = entry
          BY <2>8, <4>3, Zenon
        <5> QED BY <2>5, <4>1, <5>1, Zenon
      <4> QED BY <3>2, <4>2, <4>3, Zenon
    <3>6. ASSUME NEW f \in FramesOf(s.clients) PROVE f \in FramesOf(q)
      <4>1. PICK j \in 1..n : f = s.clients[j].frame
        BY <3>1, Zenon
      <4>2. j \in 1..(n + 1) /\ f = q[j].frame
        BY <2>8, <3>3, <4>1, Zenon
      <4> QED BY <3>1, <4>2, Zenon
    <3>7. frame \in FramesOf(q)
      <4>1. frame = q[n + 1].frame
        BY <2>5, <2>8, Zenon
      <4> QED BY <3>1, <3>4, <4>1, Zenon
    <3> QED BY <3>5, <3>6, <3>7, Zenon
  <2>10. \A j \in 1..n : s.clients[j].client # window
    BY <2>3, <2>7 DEF WM!findClient
  <2>11. OneEach(s.clients) => OneEach(q)
    <3> SUFFICES ASSUME OneEach(s.clients), NEW i \in 1..Len(q), NEW j \in 1..Len(q), i # j
                 PROVE  q[i].client # q[j].client
      BY DEF OneEach
    <3>1. CASE i = n + 1
      BY <3>1, <2>5, <2>8, <2>10
    <3>2. CASE j = n + 1
      BY <3>2, <2>5, <2>8, <2>10
    <3>3. CASE i \in 1..n /\ j \in 1..n
      BY <3>3, <2>7, <2>8 DEF OneEach
    <3> QED BY <3>1, <3>2, <3>3, <2>8
  <2>12. F \in SUBSET Nat /\ M \in SUBSET Toplevel
    BY <1>2, <1>3, <2>4, <2>5 DEF Manager
  <2>13. PICK more : more = s.made + 1
    OBVIOUS
  <2>14. more \in Nat
    BY <1>2, <2>13
  <2>15. s' = [s EXCEPT !.clients = q, !.made = more, !.frames = F, !.mapped = M]
    BY <2>4, <2>6, <2>13
  <2>16. /\ Manager(s') /\ s'.clients = q /\ s'.frames = F /\ s'.drag = s.drag /\ s'.resize = s.resize
         /\ s'.visible = s.visible /\ s'.selected = s.selected
    BY <1>2, <2>8, <2>12, <2>14, <2>15 DEF Manager
  <2>17. F \subseteq s.frames \cup {frame}
    BY <2>4
  <2> QED BY <2>9, <2>11, <2>16, <2>17 DEF Managed, Tabled, Highlighted, Gestures
<1> QED BY <1>1, <1>4

(* The last entry takes the place of the one that goes.                    *)
Swapped(q, i) == SubSeq([q EXCEPT ![i] = q[Len(q)]], 1, Len(q) - 1)

(* No other entry goes with it.                                            *)
LEMMA SwapOut ==
  ASSUME NEW q \in Seq(ClientEntry), NEW i \in 1..Len(q), NEW r, r = Swapped(q, i)
  PROVE  /\ r \in Seq(ClientEntry) /\ FramesOf(q) \subseteq FramesOf(r) \cup {q[i].frame}
         /\ OneEach(q) => OneEach(r)
<1>1. PICK n : n = Len(q)
  OBVIOUS
<1>2. n \in Nat /\ n >= 1 /\ \A j \in 1..n : q[j] \in ClientEntry
  BY <1>1
<1>3. PICK p : p = [q EXCEPT ![i] = q[n]]
  OBVIOUS
<1>4. p \in Seq(ClientEntry) /\ Len(p) = n /\ \A j \in 1..n : p[j] = IF j = i THEN q[n] ELSE q[j]
  BY <1>1, <1>2, <1>3
<1>5. r = SubSeq(p, 1, n - 1)
  BY <1>1, <1>3 DEF Swapped
<1>6. r \in Seq(ClientEntry) /\ Len(r) = n - 1 /\ \A j \in 1..n - 1 : r[j] = p[j]
  BY <1>2, <1>4, <1>5, SubSeqProperties
<1>7. \A j \in 1..n : j # i => \E a \in 1..n - 1 : r[a] = q[j]
  <2> SUFFICES ASSUME NEW j \in 1..n, j # i PROVE \E a \in 1..n - 1 : r[a] = q[j]
    OBVIOUS
  <2>1. CASE j = n
    <3>1. i \in 1..n - 1
      BY <1>1, <2>1
    <3> QED BY <3>1, <2>1, <1>1, <1>4, <1>6
  <2>2. CASE j # n
    <3>1. j \in 1..n - 1
      BY <1>2, <2>2
    <3> QED BY <3>1, <1>2, <1>4, <1>6
  <2> QED BY <2>1, <2>2
<1>8. FramesOf(q) \subseteq FramesOf(r) \cup {q[i].frame}
  <2> SUFFICES ASSUME NEW j \in 1..n, j # i PROVE q[j].frame \in FramesOf(r)
    BY <1>1 DEF FramesOf
  <2>1. PICK a \in 1..n - 1 : r[a] = q[j]
    BY <1>7
  <2> QED BY <2>1, <1>6 DEF FramesOf
<1>9. OneEach(q) => OneEach(r)
  <2> SUFFICES ASSUME OneEach(q), NEW a \in 1..n - 1, NEW b \in 1..n - 1, a # b
               PROVE  r[a].client # r[b].client
    BY <1>6 DEF OneEach
  <2>1. PICK x \in 1..n : r[a] = q[x] /\ x = IF a = i THEN n ELSE a
    BY <1>2, <1>4, <1>6
  <2>2. PICK y \in 1..n : r[b] = q[y] /\ y = IF b = i THEN n ELSE b
    BY <1>2, <1>4, <1>6
  <2>3. x # y
    BY <1>2, <2>1, <2>2
  <2> QED BY <1>1, <2>1, <2>2, <2>3 DEF OneEach
<1> QED BY <1>6, <1>8, <1>9

(* An entry goes with its frame and with every gesture on it               *)
(* (closeClient).                                                          *)
LEMMA CloseClientKeeps ==
  ASSUME Managed(s), NEW i \in 1..Len(s.clients), WM!closeClient(i)
  PROVE  Managed(s')
<1>1. PICK e : e = s.clients[i]
  OBVIOUS
<1>2. PICK gone : gone = (IF e.client \in s.live THEN {w \in Toplevel : Owner[w] = Owner[e.client]} ELSE {})
                         \cup {e.frame}
  OBVIOUS
<1>3. PICK k : k = WM!Destroyed(s, gone)
  OBVIOUS
<1>4. PICK r : r = Swapped(s.clients, i)
  OBVIOUS
<1>5. /\ Managed(k) /\ k.clients = s.clients /\ k.frames = s.frames \ gone
      /\ k.drag = s.drag /\ k.resize = s.resize
  BY <1>3, DestroyedKeeps
<1>6. Manager(k) /\ s.clients \in Seq(ClientEntry)
  BY <1>5 DEF Managed, Manager
<1>7. PICK drag : drag = IF k.drag = e.frame THEN WM!None ELSE k.drag
  OBVIOUS
<1>8. PICK resize : resize = IF k.resize = e.frame THEN WM!None ELSE k.resize
  OBVIOUS
<1>9. s' = [k EXCEPT !.drag = drag, !.resize = resize, !.clients = r]
  <2>1. s' = [k EXCEPT !.drag = IF k.drag = e.frame THEN WM!None ELSE k.drag,
                       !.resize = IF k.resize = e.frame THEN WM!None ELSE k.resize, !.clients = r]
    BY <1>1, <1>2, <1>3, <1>4, Zenon DEF WM!closeClient, Swapped
  <2> QED BY <2>1, <1>7, <1>8
<1>10. /\ r \in Seq(ClientEntry) /\ FramesOf(s.clients) \subseteq FramesOf(r) \cup {e.frame}
       /\ OneEach(s.clients) => OneEach(r)
  BY <1>1, <1>4, <1>6, SwapOut
<1>11. /\ Manager(s') /\ s'.clients = r /\ s'.frames = k.frames /\ s'.drag = drag /\ s'.resize = resize
       /\ s'.visible = k.visible /\ s'.selected = k.selected
  BY <1>6, <1>9, <1>10 DEF Manager
<1>12. k.frames \subseteq FramesOf(r)
  BY <1>2, <1>5, <1>10 DEF Managed, Tabled
<1>13. drag \in Gestures(r) /\ resize \in Gestures(r)
  BY <1>5, <1>7, <1>8, <1>10 DEF Managed, Tabled, Gestures, WM!None
<1> QED BY <1>5, <1>10, <1>11, <1>12, <1>13 DEF Managed, Tabled, Highlighted

(* A client is maximized or restored (toggleMaximize).                     *)
LEMMA MaximizeKeeps ==
  ASSUME Managed(s), NEW i \in 1..Len(s.clients), WM!toggleMaximize(i)
  PROVE  Managed(s')
<1>1. PICK e : e = s.clients[i]
  OBVIOUS
<1>2. Manager(s) /\ s.clients \in Seq(ClientEntry) /\ e \in ClientEntry
  BY <1>1 DEF Managed, Manager
<1>3. CASE s' = [s EXCEPT !.clients = [s.clients EXCEPT ![i] = [e EXCEPT !.size = e.orig, !.maximized = FALSE]]]
  <2>1. PICK f : f = [e EXCEPT !.size = e.orig, !.maximized = FALSE]
    OBVIOUS
  <2>2. f \in ClientEntry /\ f.client = e.client /\ f.frame = e.frame
    BY <1>2, <2>1 DEF ClientEntry
  <2> QED BY <1>1, <1>3, <2>1, <2>2, EntryKeeps
<1>4. CASE s' = [s EXCEPT !.clients = [s.clients EXCEPT ![i] =
                                         [e EXCEPT !.orig = e.size, !.size = "full", !.maximized = TRUE]]]
  <2>1. PICK f : f = [e EXCEPT !.orig = e.size, !.size = "full", !.maximized = TRUE]
    OBVIOUS
  <2>2. f \in ClientEntry /\ f.client = e.client /\ f.frame = e.frame
    BY <1>2, <2>1 DEF ClientEntry, Sizes
  <2> QED BY <1>1, <1>4, <2>1, <2>2, EntryKeeps
<1> QED BY <1>1, <1>3, <1>4, Zenon DEF WM!toggleMaximize

(* A press takes a frame of the table or a window (beginResize,            *)
(* beginDrag).                                                             *)
LEMMA PressKeeps ==
  ASSUME Managed(s),
         \/ \E i \in 1..Len(s.clients) : WM!beginResize(i, s.clients[i].client)
         \/ \E window \in Toplevel \cup s.frames, left \in BOOLEAN : WM!beginDrag(window, left)
  PROVE  Managed(s')
<1>1. ASSUME NEW i \in 1..Len(s.clients), WM!beginResize(i, s.clients[i].client) PROVE Managed(s')
  <2>1. PICK k : k = [s EXCEPT !.resize = s.clients[i].frame]
    OBVIOUS
  <2>2. s.clients[i].frame \in Gestures(s.clients)
    BY DEF Gestures, FramesOf
  <2>3. Managed(k)
    BY <2>1, <2>2, GestureKeeps
  <2>4. s' = WM!XGrabPointer(k, s.clients[i].client)
    BY <1>1, <2>1 DEF WM!beginResize
  <2> QED BY <2>3, <2>4, GrabKeeps
<1>2. ASSUME NEW window \in Toplevel \cup s.frames, NEW left \in BOOLEAN, WM!beginDrag(window, left) PROVE Managed(s')
  <2>1. PICK target : target = WM!managedWindow(window)
    OBVIOUS
  <2>2. PICK k : k = [s EXCEPT !.drag = target]
    OBVIOUS
  <2>3. CASE s' = s
    BY <2>3
  <2>4. CASE target \in s.live \cup s.frames /\ s' = WM!XGrabPointer(k, window)
    <3>1. target \in Gestures(s.clients)
      BY <2>4 DEF Gestures, Managed, Manager, Tabled
    <3>2. Managed(k)
      BY <2>2, <3>1, GestureKeeps
    <3> QED BY <2>4, <3>2, GrabKeeps
  <2> QED BY <1>2, <2>1, <2>2, <2>3, <2>4, Zenon DEF WM!beginDrag
<1> QED BY <1>1, <1>2

(* Motion resizes the client of the gesture (continueResize).              *)
LEMMA ResizeKeeps ==
  ASSUME Managed(s), WM!continueResize
  PROVE  Managed(s')
<1>1. CASE s' = [s EXCEPT !.resize = WM!None]
  <2>1. WM!None \in Gestures(s.clients)
    BY DEF Gestures, WM!None
  <2> QED BY <1>1, <2>1, GestureKeeps
<1>2. ASSUME NEW i \in WM!findClient(s.resize),
             s' = [s EXCEPT !.clients[i].size = "dragged", !.clients[i].maximized = FALSE]
      PROVE  Managed(s')
  <2>1. i \in 1..Len(s.clients)
    BY <1>2 DEF WM!findClient
  <2>2. PICK e : e = s.clients[i]
    OBVIOUS
  <2>3. Manager(s) /\ s.clients \in Seq(ClientEntry) /\ e \in ClientEntry
    BY <2>1, <2>2 DEF Managed, Manager
  <2>4. PICK f : f = [e EXCEPT !.size = "dragged", !.maximized = FALSE]
    OBVIOUS
  <2>5. f \in ClientEntry /\ f.client = e.client /\ f.frame = e.frame
    BY <2>3, <2>4 DEF ClientEntry, Sizes
  <2>6. s' = [s EXCEPT !.clients = [s.clients EXCEPT ![i] = f]]
    BY <1>2, <2>1, <2>2, <2>3, <2>4 DEF Manager
  <2> QED BY <2>1, <2>2, <2>5, <2>6, EntryKeeps
<1> QED BY <1>1, <1>2, Zenon DEF WM!continueResize

(* Every step of the window manager, of the server and of applications.    *)
LEMMA ManagerStep ==
  ASSUME WM!DemonWMConstants, Managed(s), WM!Next
  PROVE  Managed(s')
<1>1. ASSUME NEW window, WM!manage(window) PROVE Managed(s')
  BY <1>1, ManageKeeps
<1>2. ASSUME NEW window, WM!UnmapNotify(window) PROVE Managed(s')
  <2>1. PICK k : k = IF s.drag = window THEN WM!endDrag(s) ELSE s
    OBVIOUS
  <2>2. Managed(k)
    BY <2>1, EndKeeps
  <2>3. s' = IF k.resize = window THEN WM!endResize(k) ELSE k
    BY <1>2, <2>1, Zenon DEF WM!UnmapNotify
  <2> QED BY <2>2, <2>3, EndKeeps
<1>3. CASE WM!ButtonPress
  BY <1>3, ClickKeeps, CloseClientKeeps, MaximizeKeeps, PressKeeps, Zenon DEF WM!ButtonPress
<1>4. CASE WM!handleKey
  BY <1>4, KeyKeeps
<1>5. CASE WM!continueDrag
  BY <1>5 DEF WM!continueDrag
<1>6. CASE WM!continueResize
  BY <1>6, ResizeKeeps
<1>7. CASE WM!ButtonRelease
  <2>1. PICK k : k = WM!endDrag(s)
    OBVIOUS
  <2>2. Managed(k)
    BY <2>1, EndKeeps
  <2> QED BY <1>7, <2>1, <2>2, EndKeeps DEF WM!ButtonRelease
<1>8. ASSUME NEW window \in Toplevel, WM!Create(window) PROVE Managed(s')
  <2>1. Manager(s)
    BY DEF Managed
  <2>2. s' = [s EXCEPT !.live = s.live \cup {window}]
    BY <1>8 DEF WM!Create
  <2>3. /\ Manager(s') /\ s'.clients = s.clients /\ s'.frames = s.frames /\ s'.drag = s.drag
        /\ s'.resize = s.resize /\ s'.visible = s.visible /\ s'.selected = s.selected
    BY <2>1, <2>2 DEF Manager
  <2> QED BY <2>3, TableKept
<1>9. ASSUME NEW window, WM!Exit(window) PROVE Managed(s')
  <2>1. s' = WM!Destroyed(s, {w \in Toplevel : Owner[w] = Owner[window]})
    BY <1>9 DEF WM!Exit
  <2> QED BY <2>1, DestroyedKeeps
<1>10. \/ \E window : WM!manage(window) \/ WM!UnmapNotify(window)
       \/ WM!ButtonPress \/ WM!handleKey \/ WM!continueDrag \/ WM!continueResize \/ WM!ButtonRelease
       \/ \E window \in Toplevel : WM!Create(window) \/ WM!Exit(window)
  BY Zenon DEF WM!Next, WM!run, WM!adoptExistingWindows
<1> QED BY <1>1, <1>2, <1>3, <1>4, <1>5, <1>6, <1>7, <1>8, <1>9, <1>10, Zenon

(* It starts with no clients and every application in the list.            *)
LEMMA ManagerInit ==
  ASSUME WM!DemonWMConstants, WM!Init
  PROVE  Managed(s)
<1>1. s = [live |-> {}, mapped |-> {}, frames |-> {}, made |-> 0, clients |-> <<>>, drag |-> 0, resize |-> 0,
           grab |-> 0, open |-> FALSE, selected |-> 0, text |-> <<>>, visible |-> WM!Apps, launched |-> 0]
  BY DEF WM!Init, WM!None
<1>2. Manager(s)
  BY <1>1 DEF Manager
<1>3. Tabled(s)
  BY <1>1 DEF Tabled, OneEach, Gestures, FramesOf
<1>4. Highlighted(s)
  <2>1. Cardinality(WM!Apps) \in Nat /\ (WM!Apps = {} <=> Cardinality(WM!Apps) = 0)
    BY VisibleIsFinite
  <2> QED BY <1>1, <2>1 DEF Highlighted
<1> QED BY <1>2, <1>3, <1>4 DEF Managed

(* While clients are managed, closed in the middle of a gesture or end     *)
(* unseen, every frame of the server has its entry, no window has two, a   *)
(* gesture names something the manager knows, and Enter launches an        *)
(* application that is in the list (demonwm.cc).  The run desktop checks   *)
(* both for two windows.                                                   *)
THEOREM WindowsStayManaged ==
  ASSUME WM!DemonWMConstants
  PROVE  WM!Spec => [](WM!FramesHaveEntries /\ WM!SelectionIsVisible)
<1>1. WM!Init => Managed(s)
  BY ManagerInit
<1>2. Managed(s) /\ [WM!Next]_s => Managed(s)'
  <2> SUFFICES ASSUME Managed(s), [WM!Next]_s PROVE Managed(s)'
    OBVIOUS
  <2>1. CASE WM!Next
    <3>1. Managed(s')
      BY <2>1, ManagerStep
    <3> QED BY <3>1 DEF Managed, Manager, Tabled, Highlighted
  <2>2. CASE UNCHANGED s
    BY <2>2 DEF Managed, Manager, Tabled, Highlighted
  <2> QED BY <2>1, <2>2
<1>3. Managed(s) => WM!FramesHaveEntries /\ WM!SelectionIsVisible
  <2> SUFFICES ASSUME Managed(s) PROVE WM!FramesHaveEntries /\ WM!SelectionIsVisible
    OBVIOUS
  <2>1. WM!FramesHaveEntries
    BY DEF WM!FramesHaveEntries, Managed, Tabled, FramesOf, OneEach, Gestures, WM!None
  <2>2. WM!SelectionIsVisible
    BY SameCardinality DEF WM!SelectionIsVisible, Managed, Highlighted
  <2> QED BY <2>1, <2>2
<1> QED BY <1>1, <1>2, <1>3, PTL DEF WM!Spec

(***************************************************************************)
(* The transport between Xlib and the server (Xlib), for any number of     *)
(* clients, queues of any depth and calls of any length.                   *)
(*                                                                         *)
(* m is what the server has put together of a message, q its inbox.  The   *)
(* places of the stream are those of q and, before them, place 0 for the   *)
(* last fragment of m.  Stream says how fragments follow each other in it, *)
(* Linked how a client's own state fits what the stream has of it.  The    *)
(* server compares neither the number of a fragment nor the life of its    *)
(* sender: that the next fragment that fits is the next of the same        *)
(* message follows from Led (a later fragment stands behind the one before *)
(* it) and Reopened (a new process first sends a request that never fits). *)
(***************************************************************************)
CONSTANTS Client, PAYLOAD, DEPTH, LENGTH, CALLS, EVENTS, RESTARTS
Lib == INSTANCE Xlib

Request == [frags : Nat \ {0}, waits : BOOLEAN, setup : BOOLEAN]
Connection == [alive : BOOLEAN, open : BOOLEAN, seq : Nat, todo : Seq(Request), left : Nat, waiting : BOOLEAN,
               q : Seq(Int), pending : Nat, putback : Nat, seen : Nat]
Fragment == [c : Client, life : Nat, seq : Nat, i : Nat \ {0}, last : BOOLEAN, setup : BOOLEAN, waits : BOOLEAN]
Transport == [inbox : Seq(Fragment), asm : Seq(Fragment), alive : BOOLEAN, sent : [Client -> Nat],
              deaths : [Client -> Nat], cl : [Client -> Connection]]

Places(m, q) == {a \in 0..Len(q) : a = 0 => m # <<>>}
Piece(m, q, a) == IF a = 0 THEN m[Len(m)] ELSE q[a]
Before(f, g) == \/ f.life < g.life
                \/ f.life = g.life /\ f.seq < g.seq
                \/ f.life = g.life /\ f.seq = g.seq /\ f.i < g.i
Same(f, g) == f.c = g.c /\ f.life = g.life /\ f.seq = g.seq /\ f.setup = g.setup
Precedes(f, g) == Same(f, g) /\ ~f.last /\ g.i = f.i + 1
Opens(f, c, life) == f.c = c /\ f.setup /\ f.life = life

Whole(m) == \A a \in 1..Len(m) : Same(m[a], m[1]) /\ m[a].i = a /\ ~m[a].last
Shape(f) == (f.setup => f.i = 1 /\ f.last /\ f.seq = 1) /\ (~f.setup => f.seq >= 2)
Shaped(m, q) == \A a \in Places(m, q) : Shape(Piece(m, q, a))
Ordered(m, q) ==
  \A a, b \in Places(m, q) :
    a < b /\ Piece(m, q, a).c = Piece(m, q, b).c => Before(Piece(m, q, a), Piece(m, q, b))
Led(m, q) ==
  \A b \in 1..Len(q) : q[b].i > 1 => \E a \in Places(m, q) : a < b /\ Precedes(Piece(m, q, a), q[b])
Between(m, q, a, b, c, life) == \E d \in Places(m, q) : a < d /\ d < b /\ Opens(Piece(m, q, d), c, life)
Reopened(m, q) ==
  \A a, b \in Places(m, q) :
    /\ a < b /\ Piece(m, q, a).c = Piece(m, q, b).c /\ Piece(m, q, a).life < Piece(m, q, b).life
    /\ ~Piece(m, q, b).setup
    => Between(m, q, a, b, Piece(m, q, b).c, Piece(m, q, b).life)
Stream(m, q) ==
  /\ m \in Seq(Fragment) /\ q \in Seq(Fragment)
  /\ Whole(m) /\ Shaped(m, q) /\ Ordered(m, q) /\ Led(m, q) /\ Reopened(m, q)

(* Nothing of the client is ahead of it; half a message is in the stream;  *)
(* a client that is known has its opening behind all it left before.       *)
Past(m, q, c, life, x) ==
  \A a \in Places(m, q) :
    Piece(m, q, a).c = c =>
      /\ Piece(m, q, a).life <= life
      /\ Piece(m, q, a).life = life => Piece(m, q, a).seq <= x.seq
      /\ Piece(m, q, a).life = life /\ Piece(m, q, a).seq = x.seq /\ x.left > 0
         => Piece(m, q, a).i + x.left <= x.todo[1].frags
Half(m, q, c, life, x) ==
  x.left > 0 /\ x.left < x.todo[1].frags =>
    \E a \in Places(m, q) :
      /\ Piece(m, q, a).c = c /\ Piece(m, q, a).life = life /\ Piece(m, q, a).seq = x.seq
      /\ ~Piece(m, q, a).setup /\ ~Piece(m, q, a).last /\ Piece(m, q, a).i + x.left = x.todo[1].frags
Known(m, q, c, life, x) ==
  x.open \/ x.waiting =>
    \A a \in Places(m, q) :
      Piece(m, q, a).c = c /\ Piece(m, q, a).life < life => Between(m, q, a, Len(q) + 1, c, life)
Linked(m, q, c, life, x, alive) ==
  Past(m, q, c, life, x) /\ (alive => Half(m, q, c, life, x)) /\ Known(m, q, c, life, x)

(* The client's own state.                                                 *)
Tidy(x) ==
  /\ x.left > 0 => x.todo # <<>> /\ x.left <= x.todo[1].frags /\ ~x.waiting
  /\ x.todo # <<>> /\ x.todo[1].setup => x.seq = 1 /\ x.todo = Lib!Setup
  /\ x.todo # <<>> /\ ~x.todo[1].setup
     => x.seq >= 2 /\ x.open /\ \A j \in 1..Len(x.todo) : ~x.todo[j].setup
  /\ x.open => x.seq >= 1
  /\ x.waiting => x.todo # <<>>
  /\ ~x.alive => x.seq = 0

(* The events it holds are in the order they were sent, after all it has   *)
(* seen, and none is later than the n that were sent.                      *)
InOrder(x, n) ==
  /\ x.seen <= n /\ x.putback <= n /\ x.pending <= n
  /\ x.putback > 0 => x.seen < x.putback
  /\ x.pending > 0 => x.seen < x.pending /\ x.putback < x.pending
  /\ \A j \in 1..Len(x.q) :
       x.q[j] <= n /\ (x.q[j] > 0 => x.seen < x.q[j] /\ x.putback < x.q[j] /\ x.pending < x.q[j])
  /\ \A i, j \in 1..Len(x.q) : i < j /\ x.q[i] > 0 /\ x.q[j] > 0 => x.q[i] < x.q[j]

Carried(k) ==
  /\ k \in Transport /\ Stream(k.asm, k.inbox)
  /\ ~k.alive => k.asm = <<>> /\ k.inbox = <<>>
  /\ \A c \in Client : /\ Tidy(k.cl[c]) /\ InOrder(k.cl[c], k.sent[c])
                       /\ Linked(k.asm, k.inbox, c, k.deaths[c], k.cl[c], k.alive)

(* What a client does by itself: it goes on with its message or begins a   *)
(* later one, and nobody becomes known by it.                              *)
Follows(x, y) ==
  /\ x.seq <= y.seq
  /\ y.left > 0 => \/ y.seq > x.seq /\ y.left = y.todo[1].frags
                   \/ y.seq = x.seq /\ y.left = x.left /\ y.todo[1] = x.todo[1]
  /\ y.open \/ y.waiting => x.open \/ x.waiting

(* A place has a fragment.                                                 *)
LEMMA PieceType ==
  ASSUME NEW m \in Seq(Fragment), NEW q \in Seq(Fragment), NEW a \in Places(m, q)
  PROVE  Piece(m, q, a) \in Fragment /\ a \in Nat /\ (a # 0 => a \in 1..Len(q) /\ Piece(m, q, a) = q[a])
<1>1. CASE a = 0
  <2>1. Len(m) \in 1..Len(m)
    BY <1>1 DEF Places
  <2> QED BY <1>1, <2>1 DEF Piece
<1>2. CASE a # 0
  BY <1>2 DEF Places, Piece
<1> QED BY <1>1, <1>2

(* The links of a client after a step of its own.                          *)
LEMMA FollowsKeeps ==
  ASSUME NEW m \in Seq(Fragment), NEW q \in Seq(Fragment), NEW c \in Client, NEW life \in Nat, NEW alive,
         NEW x \in Connection, NEW y \in Connection, Linked(m, q, c, life, x, alive), Follows(x, y)
  PROVE  Linked(m, q, c, life, y, alive)
<1>1. x.seq \in Nat /\ y.seq \in Nat /\ x.left \in Nat /\ y.left \in Nat /\ x.seq <= y.seq
  BY DEF Connection, Follows
<1>2. Past(m, q, c, life, y)
  <2> SUFFICES ASSUME NEW a \in Places(m, q), Piece(m, q, a).c = c
               PROVE  /\ Piece(m, q, a).life <= life
                      /\ Piece(m, q, a).life = life => Piece(m, q, a).seq <= y.seq
                      /\ Piece(m, q, a).life = life /\ Piece(m, q, a).seq = y.seq /\ y.left > 0
                         => Piece(m, q, a).i + y.left <= y.todo[1].frags
    BY DEF Past
  <2>1. PICK f \in Fragment : f = Piece(m, q, a)
    BY PieceType
  <2>2. f.life \in Nat /\ f.seq \in Nat /\ f.i \in Nat
    BY DEF Fragment
  <2>3. /\ f.life <= life /\ (f.life = life => f.seq <= x.seq)
        /\ f.life = life /\ f.seq = x.seq /\ x.left > 0 => f.i + x.left <= x.todo[1].frags
    BY <2>1 DEF Linked, Past
  <2>4. f.life = life /\ f.seq = y.seq /\ y.left > 0 => f.i + y.left <= y.todo[1].frags
    BY <1>1, <2>2, <2>3 DEF Follows
  <2> QED BY <1>1, <2>1, <2>2, <2>3, <2>4
<1>3. alive => Half(m, q, c, life, y)
  <2> SUFFICES ASSUME alive, y.left > 0, y.left < y.todo[1].frags PROVE Half(m, q, c, life, y)
    BY DEF Half
  <2>1. y.seq = x.seq /\ y.left = x.left /\ y.todo[1].frags = x.todo[1].frags
    BY <1>1 DEF Follows
  <2> QED BY <2>1 DEF Linked, Half
<1>4. Known(m, q, c, life, y)
  BY DEF Linked, Known, Follows
<1> QED BY <1>2, <1>3, <1>4 DEF Linked

(* An empty stream, after the server's end.                                *)
LEMMA EmptyStream ==
  ASSUME NEW m, NEW q, m = <<>>, q = <<>>
  PROVE  /\ Stream(m, q)
         /\ \A c, life, x : Linked(m, q, c, life, x, FALSE)
<1>1. Places(m, q) = {} /\ Len(m) = 0 /\ Len(q) = 0 /\ m \in Seq(Fragment) /\ q \in Seq(Fragment)
  BY DEF Places
<1> QED BY <1>1 DEF Stream, Whole, Shaped, Ordered, Led, Reopened, Linked, Past, Known

(* The inbox gets a fragment.                                              *)
Extended(q, g) == Append(q, g)
Longer(m, q, g, r) ==
  /\ r \in Seq(Fragment) /\ Len(q) \in Nat /\ Len(r) = Len(q) + 1 /\ Places(m, r) = Places(m, q) \cup {Len(r)}
  /\ r[Len(r)] = g /\ Piece(m, r, Len(r)) = g
  /\ \A a \in Places(m, q) : Piece(m, r, a) = Piece(m, q, a) /\ a < Len(r)
  /\ \A b \in 1..Len(q) : r[b] = q[b]

(* It has one place more.                                                  *)
LEMMA AppendPlaces ==
  ASSUME NEW m \in Seq(Fragment), NEW q \in Seq(Fragment), NEW g \in Fragment, NEW r, r = Extended(q, g)
  PROVE  Longer(m, q, g, r)
<1>1. r \in Seq(Fragment) /\ Len(r) = Len(q) + 1 /\ r[Len(r)] = g /\ \A b \in 1..Len(q) : r[b] = q[b]
  BY DEF Extended
<1>2. Len(q) \in Nat
  OBVIOUS
<1>3. Places(m, r) = Places(m, q) \cup {Len(r)}
  BY <1>1, <1>2 DEF Places
<1>4. Piece(m, r, Len(r)) = g
  BY <1>1, <1>2 DEF Piece
<1>5. \A a \in Places(m, q) : Piece(m, r, a) = Piece(m, q, a) /\ a < Len(r)
  BY <1>1, <1>2 DEF Piece, Places
<1> QED BY <1>1, <1>2, <1>3, <1>4, <1>5 DEF Longer

(* What lies between two places stays between them.                        *)
LEMMA AppendBetween ==
  ASSUME NEW m \in Seq(Fragment), NEW q \in Seq(Fragment), NEW g \in Fragment, NEW r, r = Extended(q, g),
         NEW a, NEW b, NEW c, NEW life, Between(m, q, a, b, c, life)
  PROVE  Between(m, r, a, b, c, life)
<1>1. Longer(m, q, g, r)
  BY AppendPlaces
<1> QED BY <1>1 DEF Between, Longer

(* The links of every client after that, its sender's excepted.            *)
LEMMA AppendLinks ==
  ASSUME NEW m \in Seq(Fragment), NEW q \in Seq(Fragment), NEW g \in Fragment, NEW r, r = Extended(q, g),
         NEW c, c # g.c, NEW life, NEW x, NEW alive, Linked(m, q, c, life, x, alive)
  PROVE  Linked(m, r, c, life, x, alive)
<1>1. /\ Places(m, r) = Places(m, q) \cup {Len(r)} /\ Piece(m, r, Len(r)) = g /\ Len(r) = Len(q) + 1
      /\ \A a \in Places(m, q) : Piece(m, r, a) = Piece(m, q, a)
  <2>1. Longer(m, q, g, r)
    BY AppendPlaces
  <2> QED BY <2>1 DEF Longer
<1>2. Past(m, r, c, life, x)
  BY <1>1 DEF Linked, Past
<1>3. alive => Half(m, r, c, life, x)
  BY <1>1 DEF Linked, Half
<1>4. Known(m, r, c, life, x)
  <2> SUFFICES ASSUME x.open \/ x.waiting, NEW a \in Places(m, r), Piece(m, r, a).c = c, Piece(m, r, a).life < life
               PROVE  Between(m, r, a, Len(r) + 1, c, life)
    BY DEF Known
  <2>1. a \in Places(m, q) /\ Piece(m, r, a) = Piece(m, q, a)
    BY <1>1
  <2>2. Between(m, q, a, Len(q) + 1, c, life)
    BY <2>1 DEF Linked, Known
  <2>3. Between(m, r, a, Len(q) + 1, c, life)
    BY <2>2, AppendBetween
  <2>4. \A e \in Places(m, r) : e < Len(q) + 1 => e < Len(r) + 1
    BY <1>1 DEF Places
  <2> QED BY <2>3, <2>4 DEF Between
<1> QED BY <1>2, <1>3, <1>4 DEF Linked

(* The next fragment of a client's message joins the stream.               *)
LEMMA AppendStream ==
  ASSUME NEW m, NEW q, Stream(m, q), NEW c \in Client, NEW life \in Nat, NEW x \in Connection, Tidy(x),
         Linked(m, q, c, life, x, TRUE), x.left > 0, Lib!Frags(12) = 1,
         NEW g \in Fragment, g.c = c, g.life = life, g.seq = x.seq, g.i = x.todo[1].frags - x.left + 1,
         g.last <=> x.left = 1, g.setup = x.todo[1].setup, NEW r, r = Extended(q, g)
  PROVE  Stream(m, r)
<1>1. m \in Seq(Fragment) /\ q \in Seq(Fragment)
  BY DEF Stream
<1>2. /\ Places(m, r) = Places(m, q) \cup {Len(r)} /\ Piece(m, r, Len(r)) = g /\ Len(r) = Len(q) + 1
      /\ r \in Seq(Fragment) /\ Len(q) \in Nat /\ r[Len(r)] = g
      /\ \A a \in Places(m, q) : Piece(m, r, a) = Piece(m, q, a) /\ a < Len(r)
      /\ \A b \in 1..Len(q) : r[b] = q[b]
  <2>1. Longer(m, q, g, r)
    BY <1>1, AppendPlaces
  <2> QED BY <2>1 DEF Longer
<1>3. /\ x.left \in Nat /\ x.seq \in Nat /\ x.todo \in Seq(Request) /\ x.todo # <<>> /\ x.left <= x.todo[1].frags
      /\ x.todo[1] \in Request
  BY DEF Connection, Tidy
<1>4. x.todo[1].frags \in Nat /\ x.todo[1].setup \in BOOLEAN
  BY <1>3 DEF Request
<1>5. g.setup => x.seq = 1 /\ x.todo[1].frags = 1
  BY <1>3 DEF Tidy, Lib!Setup
<1>6. ~g.setup => x.seq >= 2 /\ x.open
  BY <1>3 DEF Tidy
<1>7. Shaped(m, r)
  <2>1. Shape(g)
    BY <1>3, <1>4, <1>5, <1>6 DEF Shape
  <2> QED BY <1>2, <2>1 DEF Stream, Shaped
<1>8. ASSUME NEW a \in Places(m, q), Piece(m, q, a).c = c
      PROVE  Before(Piece(m, q, a), g)
  <2>1. PICK f \in Fragment : f = Piece(m, q, a)
    BY <1>1, PieceType
  <2>2. f.life \in Nat /\ f.seq \in Nat /\ f.i \in Nat
    BY DEF Fragment
  <2>3. /\ f.life <= life /\ (f.life = life => f.seq <= x.seq)
        /\ f.life = life /\ f.seq = x.seq => f.i + x.left <= x.todo[1].frags
    BY <1>8, <2>1 DEF Linked, Past
  <2>4. PICK t, l \in Nat : t = x.todo[1].frags /\ l = x.left
    BY <1>3, <1>4
  <2>5. f.life = life /\ f.seq = x.seq => f.i < g.i
    <3>1. g.i = t - l + 1
      BY <1>3, <2>4
    <3>2. f.life = life /\ f.seq = x.seq => f.i + l <= t
      BY <2>3, <2>4
    <3> QED BY <2>2, <3>1, <3>2
  <2>6. g.life = life /\ g.seq = x.seq /\ x.seq \in Nat
    BY <1>3
  <2> QED BY <2>1, <2>2, <2>3, <2>5, <2>6 DEF Before
<1>9. Ordered(m, r)
  <2> SUFFICES ASSUME NEW a \in Places(m, r), NEW b \in Places(m, r), a < b, Piece(m, r, a).c = Piece(m, r, b).c
               PROVE  Before(Piece(m, r, a), Piece(m, r, b))
    BY DEF Ordered
  <2>1. a \in Places(m, q)
    BY <1>2, PieceType, <1>1
  <2>2. CASE b \in Places(m, q)
    BY <1>2, <2>1, <2>2 DEF Stream, Ordered
  <2>3. CASE b = Len(r)
    BY <1>2, <1>8, <2>1, <2>3
  <2> QED BY <1>2, <2>2, <2>3
<1>10. Led(m, r)
  <2> SUFFICES ASSUME NEW b \in 1..Len(r), r[b].i > 1
               PROVE  \E a \in Places(m, r) : a < b /\ Precedes(Piece(m, r, a), r[b])
    BY DEF Led
  <2>1. CASE b \in 1..Len(q)
    <3>1. PICK a \in Places(m, q) : a < b /\ Precedes(Piece(m, q, a), q[b])
      BY <1>2, <2>1 DEF Stream, Led
    <3> QED BY <3>1, <2>1, <1>2
  <2>2. CASE b = Len(r)
    <3>1. r[b] = g
      BY <2>2, <1>2
    <3>2. x.left < x.todo[1].frags
      BY <3>1, <1>3, <1>4
    <3>3. PICK a \in Places(m, q) : /\ Piece(m, q, a).c = c /\ Piece(m, q, a).life = life
                                   /\ Piece(m, q, a).seq = x.seq /\ ~Piece(m, q, a).setup /\ ~Piece(m, q, a).last
                                   /\ Piece(m, q, a).i + x.left = x.todo[1].frags
      BY <3>2 DEF Linked, Half
    <3>4. ~g.setup
      BY <1>3, <1>5, <3>2
    <3>5. PICK f \in Fragment : f = Piece(m, q, a)
      BY <1>1, PieceType
    <3>6. f.i \in Nat /\ f.setup \in BOOLEAN /\ g.setup \in BOOLEAN
      BY DEF Fragment
    <3>7. Precedes(f, g)
      <4>1. PICK t, l \in Nat : t = x.todo[1].frags /\ l = x.left
        BY <1>3, <1>4
      <4>2. g.i = t - l + 1 /\ f.i + l = t
        BY <1>3, <3>3, <3>5, <4>1
      <4>3. g.i = f.i + 1
        BY <3>6, <4>2
      <4>4. f.c = g.c /\ f.life = g.life /\ f.seq = g.seq
        BY <1>3, <3>3, <3>5
      <4>5. f.setup = g.setup /\ ~f.last
        BY <3>3, <3>4, <3>5, <3>6, Zenon
      <4> QED BY <4>3, <4>4, <4>5, Zenon DEF Precedes, Same
    <3> QED BY <3>1, <3>5, <3>7, <1>2, <2>2
  <2> QED BY <1>2, <2>1, <2>2
<1>11. Reopened(m, r)
  <2> SUFFICES ASSUME NEW a \in Places(m, r), NEW b \in Places(m, r), a < b, Piece(m, r, a).c = Piece(m, r, b).c,
                      Piece(m, r, a).life < Piece(m, r, b).life, ~Piece(m, r, b).setup
               PROVE  Between(m, r, a, b, Piece(m, r, b).c, Piece(m, r, b).life)
    BY DEF Reopened
  <2>1. a \in Places(m, q)
    BY <1>1, <1>2, PieceType
  <2>2. CASE b \in Places(m, q)
    <3>1. Between(m, q, a, b, Piece(m, q, b).c, Piece(m, q, b).life)
      BY <1>2, <2>1, <2>2 DEF Stream, Reopened
    <3> QED BY <3>1, <1>1, <1>2, <2>2, AppendBetween
  <2>3. CASE b = Len(r)
    <3>1. Between(m, q, a, Len(q) + 1, c, life)
      BY <1>2, <1>6, <2>1, <2>3 DEF Linked, Known
    <3> QED BY <3>1, <1>1, <1>2, <2>3, AppendBetween
  <2> QED BY <1>2, <2>2, <2>3
<1> QED BY <1>1, <1>2, <1>7, <1>9, <1>10, <1>11 DEF Stream

(* The sender's links after it: it goes on, is done, or begins the next    *)
(* message.                                                                *)
LEMMA SenderLinks ==
  ASSUME NEW m, NEW q, Stream(m, q), NEW c \in Client, NEW life \in Nat, NEW x \in Connection, Tidy(x),
         Linked(m, q, c, life, x, TRUE), x.left > 0, Lib!Frags(12) = 1,
         NEW g \in Fragment, g.c = c, g.life = life, g.seq = x.seq, g.i = x.todo[1].frags - x.left + 1,
         g.last <=> x.left = 1, g.setup = x.todo[1].setup, NEW r, r = Extended(q, g),
         NEW y \in Connection, x.seq <= y.seq, y.open => x.open,
         \/ x.left > 1 /\ y.left = x.left - 1 /\ y.seq = x.seq /\ y.todo[1] = x.todo[1]
         \/ x.left = 1 /\ (y.left = 0 \/ (y.seq > x.seq /\ y.left = y.todo[1].frags))
  PROVE  Linked(m, r, c, life, y, TRUE)
<1>1. m \in Seq(Fragment) /\ q \in Seq(Fragment)
  BY DEF Stream
<1>2. /\ Places(m, r) = Places(m, q) \cup {Len(r)} /\ Piece(m, r, Len(r)) = g /\ Len(r) = Len(q) + 1 /\ Len(q) \in Nat
      /\ \A a \in Places(m, q) : Piece(m, r, a) = Piece(m, q, a) /\ a < Len(r)
  <2>1. Longer(m, q, g, r)
    BY <1>1, AppendPlaces
  <2> QED BY <2>1 DEF Longer
<1>3. /\ x.left \in Nat /\ x.seq \in Nat /\ x.todo \in Seq(Request) /\ x.todo # <<>> /\ x.left <= x.todo[1].frags
      /\ x.todo[1] \in Request /\ y.left \in Nat /\ y.seq \in Nat
  <2>1. x.left \in Nat /\ x.seq \in Nat /\ x.todo \in Seq(Request)
    BY DEF Connection
  <2>2. y.left \in Nat /\ y.seq \in Nat
    BY DEF Connection
  <2>3. x.todo # <<>> /\ x.left <= x.todo[1].frags
    BY DEF Tidy
  <2>4. x.todo[1] \in Request
    BY <2>1, <2>3
  <2> QED BY <2>1, <2>2, <2>3, <2>4
<1>4. x.todo[1].frags \in Nat /\ x.todo[1].setup \in BOOLEAN
  BY <1>3 DEF Request
<1>5. PICK n, v : n = x.todo[1].frags /\ v = y.todo[1].frags
  OBVIOUS
<1>6. \/ x.left > 1 /\ y.left = x.left - 1 /\ y.seq = x.seq /\ v = n
      \/ x.left = 1 /\ y.left = 0
      \/ x.left = 1 /\ y.seq > x.seq
  BY <1>5
<1>7. Past(m, r, c, life, y)
  <2> SUFFICES ASSUME NEW a \in Places(m, r), Piece(m, r, a).c = c
               PROVE  /\ Piece(m, r, a).life <= life
                      /\ Piece(m, r, a).life = life => Piece(m, r, a).seq <= y.seq
                      /\ Piece(m, r, a).life = life /\ Piece(m, r, a).seq = y.seq /\ y.left > 0
                         => Piece(m, r, a).i + y.left <= y.todo[1].frags
    BY DEF Past
  <2>1. CASE a \in Places(m, q)
    <3>1. PICK f \in Fragment : f = Piece(m, q, a)
      BY <1>1, <2>1, PieceType
    <3>2. f.life \in Nat /\ f.seq \in Nat /\ f.i \in Nat
      BY DEF Fragment
    <3>3. f = Piece(m, r, a)
      BY <1>2, <2>1, <3>1
    <3>4. /\ f.life <= life /\ (f.life = life => f.seq <= x.seq)
          /\ f.life = life /\ f.seq = x.seq => f.i + x.left <= x.todo[1].frags
      BY <2>1, <3>1, <3>3 DEF Linked, Past
    <3>5. f.life = life /\ f.seq = y.seq /\ y.left > 0 => f.i + y.left <= y.todo[1].frags
      <4>1. f.life = life /\ f.seq = x.seq => f.i + x.left <= n
        BY <1>5, <3>4
      <4>2. f.life = life /\ f.seq = y.seq /\ y.left > 0 => f.i + y.left <= v
        <5> SUFFICES ASSUME f.life = life, f.seq = y.seq, y.left > 0 PROVE f.i + y.left <= v
          OBVIOUS
        <5>1. f.seq <= x.seq /\ n \in Nat
          BY <1>4, <1>5, <3>4
        <5>2. ~(y.seq > x.seq)
          BY <5>1, <1>3
        <5>3. x.left > 1 /\ y.left = x.left - 1 /\ y.seq = x.seq /\ v = n
          BY <1>3, <1>6, <5>2
        <5>4. f.i + x.left <= n
          BY <4>1, <5>3
        <5> QED BY <5>1, <5>3, <5>4, <1>3, <3>2
      <4> QED BY <1>5, <4>2
    <3> QED BY <1>3, <3>2, <3>3, <3>4, <3>5
  <2>2. CASE a = Len(r)
    <3>1. g.life = life /\ g.seq = y.seq /\ y.left > 0 => g.i + y.left <= v
      BY <1>3, <1>4, <1>5, <1>6
    <3> QED BY <1>2, <1>3, <1>5, <2>2, <3>1
  <2> QED BY <1>2, <2>1, <2>2
<1>8. Half(m, r, c, life, y)
  <2> SUFFICES ASSUME y.left > 0, y.left < y.todo[1].frags
               PROVE  \E a \in Places(m, r) :
                        /\ Piece(m, r, a).c = c /\ Piece(m, r, a).life = life /\ Piece(m, r, a).seq = y.seq
                        /\ ~Piece(m, r, a).setup /\ ~Piece(m, r, a).last
                        /\ Piece(m, r, a).i + y.left = y.todo[1].frags
    BY DEF Half
  <2>1. x.left > 1 /\ y.left = x.left - 1 /\ y.seq = x.seq /\ y.todo[1].frags = x.todo[1].frags
    BY <1>3, <1>4
  <2>2. ~g.setup
    BY <2>1, <1>3 DEF Tidy, Lib!Setup
  <2>3. g.i + y.left = y.todo[1].frags
    BY <2>1, <1>3, <1>4
  <2> QED BY <1>2, <1>3, <2>1, <2>2, <2>3
<1>9. Known(m, r, c, life, y)
  <2> SUFFICES ASSUME NEW a \in Places(m, r), Piece(m, r, a).c = c, Piece(m, r, a).life < life
               PROVE  Between(m, r, a, Len(r) + 1, c, life)
    BY DEF Known
  <2>1. a \in Places(m, q) /\ Piece(m, q, a) = Piece(m, r, a)
    BY <1>2
  <2>2. CASE g.setup
    <3>1. Len(r) \in Places(m, r) /\ a < Len(r) /\ Len(r) < Len(r) + 1 /\ Opens(Piece(m, r, Len(r)), c, life)
      BY <1>2, <2>1, <2>2 DEF Opens
    <3> QED BY <3>1 DEF Between
  <2>3. CASE ~g.setup
    <3>1. x.open
      BY <1>3, <2>3 DEF Tidy
    <3>2. Between(m, q, a, Len(q) + 1, c, life)
      BY <2>1, <3>1 DEF Linked, Known
    <3>3. Between(m, r, a, Len(q) + 1, c, life)
      BY <1>1, <3>2, AppendBetween
    <3>4. \A e \in Places(m, r) : e < Len(q) + 1 => e < Len(r) + 1
      BY <1>2 DEF Places
    <3> QED BY <3>3, <3>4 DEF Between
  <2> QED BY <2>2, <2>3
<1> QED BY <1>7, <1>8, <1>9 DEF Linked

(* The server takes the first fragment: the stream begins one place later. *)
Consumes(m, q, n, r) ==
  /\ q # <<>> /\ r = Tail(q)
  /\ \/ ~q[1].last /\ n = Extended(m, q[1])
     \/ q[1].last /\ n = <<>>
Later(m, q, n, r) ==
  /\ n \in Seq(Fragment) /\ r \in Seq(Fragment) /\ Len(q) \in Nat /\ Len(r) = Len(q) - 1
  /\ \A b \in 1..Len(r) : r[b] = q[b + 1]
  /\ \A a \in Places(n, r) : a \in Nat /\ a + 1 \in Places(m, q) /\ a + 1 \in 1..Len(q) /\ Piece(n, r, a) = Piece(m, q, a + 1)
  /\ \A b \in Places(m, q) : (b = 1 => ~q[1].last) /\ b # 0 => b - 1 \in Places(n, r)

(* That is what it does.                                                   *)
LEMMA TakenIsLater ==
  ASSUME NEW m \in Seq(Fragment), NEW q \in Seq(Fragment), NEW n, NEW r, Consumes(m, q, n, r)
  PROVE  Later(m, q, n, r)
<1>1. q # <<>> /\ r = Tail(q) /\ Len(q) \in Nat /\ Len(q) >= 1
  BY DEF Consumes
<1>2. r \in Seq(Fragment) /\ Len(r) = Len(q) - 1 /\ \A b \in 1..Len(r) : r[b] = q[b + 1]
  BY <1>1
<1>3. q[1] \in Fragment
  BY <1>1
<1>4. \A a \in 1..Len(r) : Piece(n, r, a) = q[a + 1] /\ Piece(m, q, a + 1) = q[a + 1] /\ a + 1 \in Places(m, q)
  BY <1>1, <1>2 DEF Piece, Places
<1>5. CASE ~q[1].last /\ n = Extended(m, q[1])
  <2>1. n \in Seq(Fragment) /\ Len(n) = Len(m) + 1 /\ n[Len(n)] = q[1] /\ Len(m) \in Nat
    BY <1>3, <1>5 DEF Extended
  <2>2. Piece(n, r, 0) = q[1] /\ Piece(m, q, 1) = q[1] /\ 1 \in Places(m, q) /\ 0 \in Places(n, r)
    BY <1>1, <1>2, <2>1 DEF Piece, Places
  <2>3. \A a \in Places(n, r) : a = 0 \/ a \in 1..Len(r)
    BY <1>2 DEF Places
  <2>4. \A a \in Places(n, r) : a \in Nat /\ a + 1 \in Places(m, q) /\ a + 1 \in 1..Len(q) /\ Piece(n, r, a) = Piece(m, q, a + 1)
    BY <1>1, <1>2, <1>4, <2>2, <2>3
  <2>5. \A b \in Places(m, q) : b # 0 => b - 1 \in Places(n, r)
    BY <1>1, <1>2, <2>2 DEF Places
  <2> QED BY <1>1, <1>2, <2>1, <2>4, <2>5 DEF Later
<1>6. CASE q[1].last /\ n = <<>>
  <2>1. \A a \in Places(n, r) : a \in 1..Len(r)
    BY <1>2, <1>6 DEF Places
  <2>2. \A a \in Places(n, r) : a \in Nat /\ a + 1 \in Places(m, q) /\ a + 1 \in 1..Len(q) /\ Piece(n, r, a) = Piece(m, q, a + 1)
    BY <1>1, <1>2, <1>4, <2>1
  <2>3. \A b \in Places(m, q) : (b = 1 => ~q[1].last) /\ b # 0 => b - 1 \in Places(n, r)
    BY <1>1, <1>2, <1>6 DEF Places
  <2> QED BY <1>1, <1>2, <1>6, <2>2, <2>3 DEF Later
<1> QED BY <1>5, <1>6 DEF Consumes

(* What lies between two places of the rest of the stream lay there.       *)
LEMMA LaterBetween ==
  ASSUME NEW m, NEW q, NEW n, NEW r, Later(m, q, n, r), q \in Seq(Fragment), NEW a \in Nat, NEW b \in Nat, NEW c, NEW life,
         Between(m, q, a + 1, b + 1, c, life)
  PROVE  Between(n, r, a, b, c, life)
<1>1. PICK d \in Places(m, q) : a + 1 < d /\ d < b + 1 /\ Opens(Piece(m, q, d), c, life)
  BY DEF Between
<1>2. d \in Nat /\ d # 0 /\ d # 1
  BY <1>1 DEF Places
<1>3. d - 1 \in Places(n, r)
  BY <1>2 DEF Later
<1>4. Piece(n, r, d - 1) = Piece(m, q, d - 1 + 1) /\ d - 1 + 1 = d /\ a < d - 1 /\ d - 1 < b
  BY <1>1, <1>2, <1>3 DEF Later
<1> QED BY <1>1, <1>3, <1>4 DEF Between

(* The last of what was put together comes from one client, and nothing    *)
(* of its message can be missing between it and the fragment that fits.    *)
LEMMA FitsNext ==
  ASSUME NEW m, NEW q, Stream(m, q), q # <<>>, Lib!Fits(m, q[1])
  PROVE  /\ m = <<>> => q[1].i = 1
         /\ m # <<>> => /\ Precedes(m[Len(m)], q[1]) /\ Same(q[1], m[1]) /\ q[1].i = Len(m) + 1
                        /\ m[Len(m)].c = q[1].c
<1>1. m \in Seq(Fragment) /\ q \in Seq(Fragment) /\ Len(q) \in Nat /\ Len(q) >= 1 /\ q[1] \in Fragment
  BY DEF Stream
<1>2. 1 \in Places(m, q) /\ Piece(m, q, 1) = q[1] /\ 1 \in 1..Len(q)
  BY <1>1 DEF Places, Piece
<1>3. PICK f \in Fragment : f = q[1]
  BY <1>1
<1>4. f.i \in Nat /\ f.i >= 1 /\ f.seq \in Nat /\ f.life \in Nat /\ f.setup \in BOOLEAN
  BY DEF Fragment
<1>5. CASE m = <<>>
  <2>1. ~ \E a \in Places(m, q) : a < 1
    BY <1>1, <1>5 DEF Places
  <2>2. ~(f.i > 1)
    BY <1>2, <1>3, <2>1 DEF Stream, Led
  <2> QED BY <1>3, <1>4, <1>5, <2>2
<1>6. CASE m # <<>>
  <2>1. Len(m) \in Nat /\ Len(m) >= 1 /\ m[Len(m)] \in Fragment /\ m[1] \in Fragment /\ Len(m) \in 1..Len(m)
    BY <1>1, <1>6
  <2>2. PICK t \in Fragment : t = m[Len(m)]
    BY <2>1
  <2>3. 0 \in Places(m, q) /\ Piece(m, q, 0) = t
    BY <1>1, <1>6, <2>2 DEF Places, Piece
  <2>4. Same(t, m[1]) /\ t.i = Len(m) /\ ~t.last
    BY <2>1, <2>2 DEF Stream, Whole
  <2>5. t.i \in Nat /\ t.i >= 1 /\ t.seq \in Nat /\ t.life \in Nat /\ t.setup \in BOOLEAN
    BY DEF Fragment
  <2>6. f.c = t.c /\ f.seq = t.seq /\ f.setup = t.setup
    BY <1>3, <1>6, <2>4 DEF Lib!Fits, Same
  <2>7. Before(t, f)
    BY <1>2, <1>3, <2>3, <2>6 DEF Stream, Ordered
  <2>8. ~t.setup
    BY <2>3, <2>4 DEF Stream, Shaped, Shape
  <2>9. t.life = f.life
    <3>1. CASE t.life < f.life
      <4>1. Between(m, q, 0, 1, f.c, f.life)
        BY <1>2, <1>3, <2>3, <2>6, <2>8, <3>1 DEF Stream, Reopened
      <4>2. PICK d \in Places(m, q) : 0 < d /\ d < 1
        BY <4>1 DEF Between
      <4> QED BY <4>2, <1>1 DEF Places
    <3> QED BY <3>1, <1>4, <2>5, <2>7 DEF Before
  <2>10. f.i > t.i
    BY <1>4, <2>5, <2>6, <2>7, <2>9 DEF Before
  <2>11. PICK a \in Places(m, q) : a < 1 /\ Precedes(Piece(m, q, a), f)
    BY <1>2, <1>3, <1>4, <2>5, <2>10 DEF Stream, Led
  <2>12. a = 0
    BY <1>1, <2>11 DEF Places
  <2>13. Precedes(t, f)
    BY <2>3, <2>11, <2>12
  <2> QED BY <1>3, <1>6, <2>1, <2>2, <2>4, <2>13 DEF Precedes, Same
<1> QED BY <1>5, <1>6

(* What the server has put together stays the beginning of one message.    *)
LEMMA TakenWhole ==
  ASSUME NEW m, NEW q, Stream(m, q), NEW n, NEW r, Consumes(m, q, n, r), Lib!Fits(m, q[1])
  PROVE  Whole(n)
<1>1. m \in Seq(Fragment) /\ q \in Seq(Fragment) /\ q # <<>> /\ q[1] \in Fragment
  BY DEF Stream, Consumes
<1>2. CASE n = <<>>
  BY <1>2 DEF Whole
<1>3. CASE ~q[1].last /\ n = Extended(m, q[1])
  <2>1. PICK f \in Fragment : f = q[1]
    BY <1>1
  <2>2. /\ Len(m) \in Nat /\ Len(n) = Len(m) + 1 /\ n[Len(m) + 1] = f
        /\ \A a \in 1..Len(m) : n[a] = m[a]
    BY <1>1, <1>3, <2>1 DEF Extended
  <2>3. (m = <<>> => f.i = 1) /\ (m # <<>> => Same(f, m[1]) /\ f.i = Len(m) + 1)
    BY <1>1, <2>1, FitsNext
  <2>4. m = <<>> => Len(m) = 0
    OBVIOUS
  <2>5. CASE m = <<>>
    BY <1>3, <2>1, <2>2, <2>3, <2>4, <2>5 DEF Whole, Same
  <2>6. CASE m # <<>>
    <3>1. Len(m) >= 1 /\ n[1] = m[1]
      BY <1>1, <2>2, <2>6
    <3> SUFFICES ASSUME NEW a \in 1..Len(n) PROVE Same(n[a], n[1]) /\ n[a].i = a /\ ~n[a].last
      BY DEF Whole
    <3>2. CASE a \in 1..Len(m)
      BY <2>2, <3>1, <3>2 DEF Stream, Whole
    <3>3. CASE a = Len(m) + 1
      BY <1>3, <2>1, <2>2, <2>3, <2>6, <3>1, <3>3
    <3> QED BY <2>2, <3>2, <3>3
  <2> QED BY <2>5, <2>6
<1> QED BY <1>2, <1>3 DEF Consumes

(* The rest of the stream.                                                 *)
LEMMA TakenStream ==
  ASSUME NEW m, NEW q, Stream(m, q), NEW n, NEW r, Consumes(m, q, n, r), Lib!Fits(m, q[1])
  PROVE  Stream(n, r)
<1>1. m \in Seq(Fragment) /\ q \in Seq(Fragment) /\ q # <<>> /\ q[1] \in Fragment
  BY DEF Stream, Consumes
<1>2. Later(m, q, n, r)
  BY <1>1, TakenIsLater
<1>3. \A a \in Places(n, r) : a \in Nat /\ a + 1 \in Places(m, q) /\ Piece(n, r, a) = Piece(m, q, a + 1)
  BY <1>2 DEF Later
<1>4. Shaped(n, r)
  BY <1>3 DEF Shaped, Stream
<1>5. Ordered(n, r)
  <2> SUFFICES ASSUME NEW a \in Places(n, r), NEW b \in Places(n, r), a < b, Piece(n, r, a).c = Piece(n, r, b).c
               PROVE  Before(Piece(n, r, a), Piece(n, r, b))
    BY DEF Ordered
  <2>1. a + 1 < b + 1 /\ a + 1 \in Places(m, q) /\ b + 1 \in Places(m, q)
    BY <1>3
  <2>2. Before(Piece(m, q, a + 1), Piece(m, q, b + 1))
    BY <1>3, <2>1 DEF Stream, Ordered
  <2> QED BY <1>3, <2>2
<1>6. Led(n, r)
  <2> SUFFICES ASSUME NEW b \in 1..Len(r), r[b].i > 1
               PROVE  \E a \in Places(n, r) : a < b /\ Precedes(Piece(n, r, a), r[b])
    BY DEF Led
  <2>1. r[b] = q[b + 1] /\ b + 1 \in 1..Len(q) /\ b \in Nat /\ b >= 1
    BY <1>2 DEF Later
  <2>2. PICK a \in Places(m, q) : a < b + 1 /\ Precedes(Piece(m, q, a), q[b + 1])
    BY <2>1 DEF Stream, Led
  <2>3. a \in Nat /\ (a # 0 => Piece(m, q, a) = q[a])
    BY <1>1, PieceType
  <2>4. CASE a # 0
    <3>1. a = 1 => ~q[1].last
      BY <2>2, <2>3 DEF Precedes
    <3>2. a - 1 \in Places(n, r)
      BY <1>2, <2>4, <3>1 DEF Later
    <3>3. Piece(n, r, a - 1) = Piece(m, q, a - 1 + 1) /\ a - 1 + 1 = a /\ a - 1 < b
      BY <1>3, <2>1, <2>2, <2>3, <3>2
    <3> QED BY <2>1, <2>2, <3>2, <3>3
  <2>5. CASE a = 0
    <3>1. m # <<>>
      BY <2>5 DEF Places
    <3>2. PICK t, f, g \in Fragment : t = Piece(m, q, 0) /\ f = q[1] /\ g = q[b + 1]
      BY <1>1, <2>1, <2>5, PieceType
    <3>3. /\ 1 \in Places(m, q) /\ b + 1 \in Places(m, q) /\ Piece(m, q, 1) = f /\ Piece(m, q, b + 1) = g
          /\ t = m[Len(m)]
      BY <1>1, <2>1, <3>2 DEF Places, Piece
    <3>4. Precedes(t, f)
      BY <1>1, <3>1, <3>2, <3>3, FitsNext
    <3>5. Precedes(t, g)
      BY <2>2, <2>5, <3>2
    <3>6. Before(f, g)
      <4>1. f.c = g.c
        BY <3>4, <3>5 DEF Precedes, Same
      <4>2. Ordered(m, q) /\ 1 < b + 1
        BY <2>1 DEF Stream
      <4>3. Piece(m, q, 1).c = Piece(m, q, b + 1).c
        BY <3>3, <4>1
      <4>4. Before(Piece(m, q, 1), Piece(m, q, b + 1))
        BY <3>3, <4>2, <4>3 DEF Ordered
      <4> QED BY <3>3, <4>4
    <3>7. f.i \in Nat /\ g.i \in Nat /\ t.i \in Nat /\ f.life \in Nat /\ g.life \in Nat /\ f.seq \in Nat /\ g.seq \in Nat
      BY DEF Fragment
    <3>8. f.i = g.i /\ f.life = g.life /\ f.seq = g.seq
      BY <3>4, <3>5 DEF Precedes, Same
    <3> QED BY <3>6, <3>7, <3>8 DEF Before
  <2> QED BY <2>4, <2>5
<1>7. Reopened(n, r)
  <2> SUFFICES ASSUME NEW a \in Places(n, r), NEW b \in Places(n, r), a < b, Piece(n, r, a).c = Piece(n, r, b).c,
                      Piece(n, r, a).life < Piece(n, r, b).life, ~Piece(n, r, b).setup
               PROVE  Between(n, r, a, b, Piece(n, r, b).c, Piece(n, r, b).life)
    BY DEF Reopened
  <2>1. a \in Nat /\ b \in Nat /\ a + 1 < b + 1 /\ a + 1 \in Places(m, q) /\ b + 1 \in Places(m, q)
    BY <1>3
  <2>2. Between(m, q, a + 1, b + 1, Piece(m, q, b + 1).c, Piece(m, q, b + 1).life)
    BY <1>3, <2>1 DEF Stream, Reopened
  <2>3. Between(m, q, a + 1, b + 1, Piece(n, r, b).c, Piece(n, r, b).life)
    BY <1>3, <2>2
  <2> QED BY <1>1, <1>2, <2>1, <2>3, LaterBetween
<1>8. Whole(n)
  BY TakenWhole
<1> QED BY <1>2, <1>4, <1>5, <1>6, <1>7, <1>8 DEF Stream, Later

(* The links of every client to it.                                        *)
LEMMA TakenLinks ==
  ASSUME NEW m, NEW q, Stream(m, q), NEW n, NEW r, Consumes(m, q, n, r), Lib!Fits(m, q[1]),
         NEW c \in Client, NEW life \in Nat, NEW x \in Connection, Linked(m, q, c, life, x, TRUE)
  PROVE  Linked(n, r, c, life, x, TRUE)
<1>1. m \in Seq(Fragment) /\ q \in Seq(Fragment) /\ q # <<>> /\ q[1] \in Fragment
  BY DEF Stream, Consumes
<1>2. Later(m, q, n, r)
  BY <1>1, TakenIsLater
<1>3. /\ \A a \in Places(n, r) : a \in Nat /\ a + 1 \in Places(m, q) /\ Piece(n, r, a) = Piece(m, q, a + 1)
      /\ Len(q) \in Nat /\ Len(r) = Len(q) - 1 /\ Len(q) >= 1
  BY <1>1, <1>2 DEF Later
<1>4. Past(n, r, c, life, x)
  BY <1>3 DEF Past, Linked
<1>5. Known(n, r, c, life, x)
  <2> SUFFICES ASSUME x.open \/ x.waiting, NEW a \in Places(n, r), Piece(n, r, a).c = c, Piece(n, r, a).life < life
               PROVE  Between(n, r, a, Len(r) + 1, c, life)
    BY DEF Known
  <2>1. Between(m, q, a + 1, Len(q) + 1, c, life)
    BY <1>3 DEF Linked, Known
  <2>2. a \in Nat /\ Len(r) + 1 \in Nat /\ Len(q) + 1 = Len(r) + 1 + 1
    BY <1>3
  <2> QED BY <1>1, <1>2, <2>1, <2>2, LaterBetween
<1>6. Half(n, r, c, life, x)
  <2> SUFFICES ASSUME x.left > 0, x.left < x.todo[1].frags
               PROVE  \E a \in Places(n, r) :
                        /\ Piece(n, r, a).c = c /\ Piece(n, r, a).life = life /\ Piece(n, r, a).seq = x.seq
                        /\ ~Piece(n, r, a).setup /\ ~Piece(n, r, a).last
                        /\ Piece(n, r, a).i + x.left = x.todo[1].frags
    BY DEF Half
  <2>1. PICK a \in Places(m, q) : /\ Piece(m, q, a).c = c /\ Piece(m, q, a).life = life /\ Piece(m, q, a).seq = x.seq
                                  /\ ~Piece(m, q, a).setup /\ ~Piece(m, q, a).last
                                  /\ Piece(m, q, a).i + x.left = x.todo[1].frags
    BY DEF Linked, Half
  <2>2. a \in Nat /\ (a # 0 => Piece(m, q, a) = q[a])
    BY <1>1, PieceType
  <2>3. CASE a # 0
    <3>1. a = 1 => ~q[1].last
      BY <2>1, <2>2
    <3>2. a - 1 \in Places(n, r)
      BY <1>2, <2>3, <3>1 DEF Later
    <3>3. Piece(n, r, a - 1) = Piece(m, q, a - 1 + 1) /\ a - 1 + 1 = a
      BY <1>3, <2>2, <3>2
    <3> QED BY <2>1, <3>2, <3>3
  <2>4. CASE a = 0
    <3>1. m # <<>>
      BY <2>4 DEF Places
    <3>2. PICK t, f \in Fragment : t = Piece(m, q, 0) /\ f = q[1]
      BY <1>1, <2>4, PieceType
    <3>3. 1 \in Places(m, q) /\ Piece(m, q, 1) = f /\ t = m[Len(m)]
      BY <1>1, <1>3, <3>2 DEF Places, Piece
    <3>4. Precedes(t, f)
      BY <1>1, <3>1, <3>2, <3>3, FitsNext
    <3>5. f.i \in Nat /\ t.i \in Nat /\ x.left \in Nat
      BY DEF Fragment, Connection
    <3>6. f.c = c /\ f.life = life /\ f.seq = x.seq /\ f.i = t.i + 1
      BY <2>1, <2>4, <3>2, <3>4 DEF Precedes, Same
    <3>7. f.i + x.left <= x.todo[1].frags
      BY <3>3, <3>6 DEF Linked, Past
    <3>8. t.i + x.left = x.todo[1].frags
      BY <2>1, <2>4, <3>2
    <3> QED BY <3>5, <3>6, <3>7, <3>8
  <2> QED BY <2>3, <2>4
<1> QED BY <1>4, <1>5, <1>6 DEF Linked

(***************************************************************************)
(* What one client does.                                                   *)
(***************************************************************************)
Turn(k, c, y) == [k EXCEPT !.cl[c] = y]
(* The same but for its events.                                            *)
Calm(x, y) ==
  /\ y.alive = x.alive /\ y.open = x.open /\ y.seq = x.seq
  /\ y.todo = x.todo /\ y.left = x.left /\ y.waiting = x.waiting
(* The same but for its message.                                           *)
Quiet(x, y) == y.q = x.q /\ y.pending = x.pending /\ y.putback = x.putback /\ y.seen = x.seen

(* A client's step leaves the stream and the others.                       *)
LEMMA TurnKeeps ==
  ASSUME NEW k, Carried(k), NEW c \in Client, NEW y \in Connection, Tidy(y), Follows(k.cl[c], y),
         InOrder(y, k.sent[c]), NEW d, d = Turn(k, c, y)
  PROVE  Carried(d)
<1>1. k \in Transport /\ k.cl \in [Client -> Connection] /\ k.deaths \in [Client -> Nat] /\ Stream(k.asm, k.inbox)
  BY DEF Carried, Transport
<1>2. PICK cl : cl = [k.cl EXCEPT ![c] = y]
  OBVIOUS
<1>3. cl \in [Client -> Connection] /\ cl[c] = y /\ \A b \in Client : b # c => cl[b] = k.cl[b]
  BY <1>1, <1>2
<1>4. d = [k EXCEPT !.cl = cl]
  BY <1>1, <1>2 DEF Turn, Transport
<1>5. /\ d \in Transport /\ d.asm = k.asm /\ d.inbox = k.inbox /\ d.alive = k.alive /\ d.sent = k.sent
      /\ d.deaths = k.deaths /\ d.cl = cl
  BY <1>1, <1>3, <1>4 DEF Transport
<1>6. k.asm \in Seq(Fragment) /\ k.inbox \in Seq(Fragment)
  BY <1>1 DEF Stream
<1>7. Linked(k.asm, k.inbox, c, k.deaths[c], y, k.alive)
  <2>1. k.cl[c] \in Connection /\ k.deaths[c] \in Nat /\ Linked(k.asm, k.inbox, c, k.deaths[c], k.cl[c], k.alive)
    BY <1>1 DEF Carried
  <2> QED BY <1>6, <2>1, FollowsKeeps
<1>8. ASSUME NEW b \in Client
      PROVE  Tidy(cl[b]) /\ InOrder(cl[b], k.sent[b]) /\ Linked(k.asm, k.inbox, b, k.deaths[b], cl[b], k.alive)
  BY <1>3, <1>7 DEF Carried
<1> QED BY <1>1, <1>5, <1>8 DEF Carried

(* A change of the events only.                                            *)
LEMMA CalmFollows ==
  ASSUME NEW x \in Connection, NEW y \in Connection, Calm(x, y), Tidy(x)
  PROVE  Tidy(y) /\ Follows(x, y)
<1>1. x.seq \in Nat /\ x.left \in Nat
  BY DEF Connection
<1> QED BY <1>1 DEF Calm, Tidy, Follows

(* A change of the message only.                                           *)
LEMMA QuietOrder ==
  ASSUME NEW x, NEW y, Quiet(x, y), NEW n, InOrder(x, n)
  PROVE  InOrder(y, n)
BY DEF Quiet, InOrder

(* A request begins (begin_packet).                                        *)
LEMMA BeginPacket ==
  ASSUME NEW x \in Connection, x.alive, ~x.waiting, NEW todo \in Seq(Request), todo # <<>>,
         \/ todo = Lib!Setup /\ x.seq = 0 /\ ~x.open
         \/ x.open /\ x.seq >= 1 /\ \A j \in 1..Len(todo) : ~todo[j].setup,
         NEW y, y = Lib!begin_packet(x, todo)
  PROVE  /\ y \in Connection /\ Tidy(y) /\ Quiet(x, y) /\ y.seq > x.seq /\ y.left = y.todo[1].frags
         /\ y.open = x.open /\ y.waiting = x.waiting
<1>1. x.seq \in Nat /\ todo[1] \in Request /\ Len(todo) \in Nat /\ Len(todo) >= 1
  BY DEF Connection
<1>2. PICK seq, left : seq = x.seq + 1 /\ left = todo[1].frags
  OBVIOUS
<1>3. seq \in Nat /\ left \in Nat /\ seq > x.seq
  BY <1>1, <1>2 DEF Request
<1>4. y = [x EXCEPT !.seq = seq, !.todo = todo, !.left = left]
  BY <1>2, Zenon DEF Lib!begin_packet
<1>5. /\ y \in Connection /\ y.seq = seq /\ y.todo = todo /\ y.left = left /\ y.open = x.open
      /\ y.waiting = x.waiting /\ y.alive = x.alive /\ Quiet(x, y)
  BY <1>3, <1>4 DEF Connection, Quiet
<1>6. Tidy(y)
  <2>1. CASE todo = Lib!Setup /\ x.seq = 0 /\ ~x.open
    <3>1. todo[1].setup
      BY <2>1 DEF Lib!Setup
    <3>2. seq = 1
      BY <1>2, <2>1
    <3> QED BY <1>2, <1>3, <1>5, <2>1, <3>1, <3>2 DEF Tidy
  <2>2. CASE x.open /\ x.seq >= 1 /\ \A j \in 1..Len(todo) : ~todo[j].setup
    <3>1. ~todo[1].setup /\ seq >= 2
      BY <1>1, <1>2, <2>2
    <3> QED BY <1>2, <1>3, <1>5, <2>2, <3>1 DEF Tidy
  <2> QED BY <2>1, <2>2
<1> QED BY <1>2, <1>3, <1>5, <1>6

(* On to the next request of the call, or done (Advance).                  *)
LEMMA AdvanceBegins ==
  ASSUME NEW x \in Connection, x.alive, Tidy(x), x.todo # <<>>, NEW y, y = Lib!Advance(x)
  PROVE  /\ y \in Connection /\ Tidy(y) /\ Quiet(x, y) /\ x.seq <= y.seq /\ y.open = x.open /\ ~y.waiting /\ y.alive
         /\ y.left = 0 \/ (y.seq > x.seq /\ y.left = y.todo[1].frags)
<1>1. PICK rest : rest = Tail(x.todo)
  OBVIOUS
<1>2. x.todo \in Seq(Request) /\ rest \in Seq(Request) /\ x.seq \in Nat /\ x.alive \in BOOLEAN
  BY <1>1 DEF Connection
<1>3. PICK zero \in Nat : zero = 0
  OBVIOUS
<1>4. PICK z : z = [x EXCEPT !.waiting = FALSE, !.left = zero]
  OBVIOUS
<1>5. /\ z \in Connection /\ ~z.waiting /\ z.left = zero /\ z.seq = x.seq /\ z.open = x.open /\ z.alive = x.alive
      /\ z.todo = x.todo /\ Quiet(x, z)
  BY <1>3, <1>4 DEF Connection, Quiet
<1>6. y = IF rest = <<>> THEN [z EXCEPT !.todo = <<>>] ELSE Lib!begin_packet(z, rest)
  BY <1>1, <1>3, <1>4 DEF Lib!Advance
<1>7. x.open => x.seq >= 1
  BY DEF Tidy
<1>8. CASE rest = <<>>
  <2>1. y = [z EXCEPT !.todo = rest]
    BY <1>6, <1>8
  <2>2. /\ y \in Connection /\ ~y.waiting /\ y.left = zero /\ y.seq = x.seq /\ y.open = x.open /\ y.alive = x.alive
        /\ y.todo = rest /\ Quiet(x, y)
    BY <1>2, <1>5, <2>1 DEF Connection, Quiet
  <2>3. Tidy(y)
    BY <1>3, <1>7, <1>8, <2>2 DEF Tidy
  <2> QED BY <1>2, <1>3, <2>2, <2>3
<1>9. CASE rest # <<>>
  <2>1. x.todo # Lib!Setup
    BY <1>1, <1>9 DEF Lib!Setup
  <2>2. x.open /\ \A j \in 1..Len(x.todo) : ~x.todo[j].setup
    BY <2>1 DEF Tidy
  <2>3. \A j \in 1..Len(rest) : ~rest[j].setup
    BY <1>1, <1>2, <2>2
  <2>4. /\ y \in Connection /\ Tidy(y) /\ Quiet(z, y) /\ y.seq > z.seq /\ y.left = y.todo[1].frags
        /\ y.open = z.open /\ y.waiting = z.waiting
    BY <1>2, <1>5, <1>6, <1>7, <1>9, <2>2, <2>3, BeginPacket
  <2>5. Quiet(x, y) /\ y.seq \in Nat
    BY <1>5, <2>4 DEF Quiet, Connection
  <2>6. y.alive
    BY <1>2, <2>4, <2>5, <1>5 DEF Tidy
  <2> QED BY <1>2, <1>5, <2>4, <2>5, <2>6
<1> QED BY <1>8, <1>9

(* The call gives up (Abandon).                                            *)
LEMMA AbandonFollows ==
  ASSUME NEW x \in Connection, Tidy(x), NEW y, y = Lib!Abandon(x)
  PROVE  y \in Connection /\ Tidy(y) /\ Quiet(x, y) /\ Follows(x, y)
<1>1. PICK zero \in Nat : zero = 0
  OBVIOUS
<1>2. PICK none : none = <<>>
  OBVIOUS
<1>3. none \in Seq(Request)
  BY <1>2
<1>4. y = [x EXCEPT !.waiting = FALSE, !.left = zero, !.todo = none]
  BY <1>1, <1>2 DEF Lib!Abandon
<1>5. PICK z : z = [x EXCEPT !.waiting = FALSE]
  OBVIOUS
<1>6. /\ z \in Connection /\ ~z.waiting /\ z.seq = x.seq /\ z.open = x.open /\ z.alive = x.alive /\ Quiet(x, z)
  BY <1>5 DEF Connection, Quiet
<1>7. y = [z EXCEPT !.left = zero, !.todo = none]
  BY <1>4, <1>5 DEF Connection
<1>8. /\ y \in Connection /\ ~y.waiting /\ y.seq = x.seq /\ y.open = x.open /\ y.alive = x.alive /\ Quiet(x, y)
      /\ y.left = zero /\ y.todo = none
  BY <1>6, <1>7, <1>3 DEF Connection, Quiet
<1>9. Tidy(y)
  BY <1>1, <1>8, <1>2 DEF Tidy
<1>10. Follows(x, y)
  <2>1. x.seq \in Nat
    BY DEF Connection
  <2> QED BY <1>1, <1>8, <2>1 DEF Follows
<1> QED BY <1>8, <1>9, <1>10

(***************************************************************************)
(* A client's events.                                                      *)
(***************************************************************************)
(* e comes after all the client has seen and before all it still holds.    *)
First(x, e, n) ==
  /\ e \in Nat /\ e > 0 /\ e <= n /\ x.seen < e
  /\ x.putback > 0 => e < x.putback
  /\ x.pending > 0 => e < x.pending
  /\ \A j \in 1..Len(x.q) : x.q[j] > 0 => e < x.q[j]

(* The channel loses its first packets.                                    *)
Suffix(q, i) == SubSeq(q, i + 1, Len(q))

(* What is left of it.                                                     *)
LEMMA SuffixOf ==
  ASSUME NEW q \in Seq(Int), NEW i \in 1..Len(q), NEW r, r = Suffix(q, i)
  PROVE  r \in Seq(Int) /\ Len(r) = Len(q) - i /\ \A j \in 1..Len(r) : r[j] = q[i + j] /\ i + j \in 1..Len(q)
<1>1. Len(q) \in Nat /\ i \in Nat /\ i + 1 \in 1..Len(q) + 1 /\ Len(q) \in (i + 1) - 1..Len(q)
  OBVIOUS
<1>2. /\ r \in Seq(Int) /\ Len(r) = Len(q) - (i + 1) + 1
      /\ \A j \in 1..Len(q) - (i + 1) + 1 : r[j] = q[i + 1 + j - 1]
  <2>1. PICK a, b : a = i + 1 /\ b = Len(q)
    OBVIOUS
  <2>2. a \in 1..Len(q) + 1 /\ b \in a - 1..Len(q) /\ r = SubSeq(q, a, b)
    BY <1>1, <2>1, Zenon DEF Suffix
  <2>3. /\ SubSeq(q, a, b) \in Seq(Int) /\ Len(SubSeq(q, a, b)) = b - a + 1
        /\ \A j \in 1..b - a + 1 : SubSeq(q, a, b)[j] = q[a + j - 1]
    BY <2>2, SubSeqProperties
  <2> QED BY <2>1, <2>2, <2>3, Zenon
<1>3. Len(r) = Len(q) - i /\ \A j \in 1..Len(r) : i + 1 + j - 1 = i + j /\ i + j \in 1..Len(q)
  <2>1. PICK n, l : n = Len(q) /\ l = Len(r) /\ n \in Nat
    BY <1>1
  <2>2. l = n - i /\ \A j \in 1..l : i + 1 + j - 1 = i + j /\ i + j \in 1..n
    BY <1>1, <1>2, <2>1
  <2> QED BY <2>1, <2>2
<1>4. ASSUME NEW j \in 1..Len(r) PROVE r[j] = q[i + j] /\ i + j \in 1..Len(q)
  <2>1. j \in 1..Len(q) - (i + 1) + 1
    BY <1>1, <1>2
  <2>2. r[j] = q[i + 1 + j - 1] /\ i + 1 + j - 1 = i + j
    BY <1>2, <1>3, <2>1
  <2> QED BY <1>3, <2>2
<1> QED BY <1>2, <1>3, <1>4

(* The first packet is gone.                                               *)
LEMMA TailIsSuffix ==
  ASSUME NEW q \in Seq(Int), q # <<>>
  PROVE  Suffix(q, 1) = Tail(q) /\ Tail(q) \in Seq(Int) /\ 1 \in 1..Len(q)
<1>1. PICK one : one = 1
  OBVIOUS
<1>2. one \in 1..Len(q) /\ Len(q) \in Nat
  BY <1>1
<1>3. PICK r : r = Suffix(q, one)
  OBVIOUS
<1>4. r \in Seq(Int) /\ Len(r) = Len(q) - one /\ \A j \in 1..Len(r) : r[j] = q[one + j] /\ one + j \in 1..Len(q)
  BY <1>2, <1>3, SuffixOf
<1>5. PICK u : u = Tail(q)
  OBVIOUS
<1>6. u \in Seq(Int) /\ Len(u) = Len(q) - 1 /\ \A j \in 1..Len(q) - 1 : u[j] = q[j + 1]
  BY <1>5
<1>7. ASSUME NEW j \in 1..Len(r) PROVE r[j] = u[j]
  <2>1. j \in 1..Len(q) - 1 /\ one + j = j + 1
    BY <1>1, <1>2, <1>4
  <2>2. r[j] = q[one + j] /\ u[j] = q[j + 1]
    BY <1>4, <1>6, <2>1
  <2> QED BY <2>1, <2>2
<1>8. r = u
  BY <1>1, <1>4, <1>6, <1>7, SeqEqual
<1> QED BY <1>1, <1>2, <1>3, <1>5, <1>6, <1>8

(* The rest of the channel is in order too.                                *)
LEMMA SuffixOrder ==
  ASSUME NEW x \in Connection, NEW n \in Nat, InOrder(x, n), NEW i \in 1..Len(x.q), NEW y \in Connection,
         y.q = Suffix(x.q, i), y.pending = x.pending, y.putback = x.putback, y.seen = x.seen
  PROVE  /\ InOrder(y, n)
         /\ x.q[i] > 0 => \A j \in 1..Len(y.q) : y.q[j] > 0 => x.q[i] < y.q[j]
<1>1. PICK r : r = Suffix(x.q, i)
  OBVIOUS
<1>2. x.q \in Seq(Int) /\ i \in Int
  BY DEF Connection
<1>3. r \in Seq(Int) /\ Len(r) = Len(x.q) - i /\ \A j \in 1..Len(r) : r[j] = x.q[i + j] /\ i + j \in 1..Len(x.q)
  BY <1>1, <1>2, SuffixOf
<1>4. \A j \in 1..Len(r) :
        r[j] <= n /\ (r[j] > 0 => x.seen < r[j] /\ x.putback < r[j] /\ x.pending < r[j])
  BY <1>3 DEF InOrder
<1>5. ASSUME NEW a \in 1..Len(r), NEW b \in 1..Len(r), a < b, r[a] > 0, r[b] > 0 PROVE r[a] < r[b]
  <2>1. i + a < i + b
    BY <1>2, <1>5
  <2> QED BY <1>3, <1>5, <2>1 DEF InOrder
<1>6. ASSUME NEW j \in 1..Len(r), x.q[i] > 0, r[j] > 0 PROVE x.q[i] < r[j]
  <2>1. i < i + j
    BY <1>2
  <2> QED BY <1>3, <1>6, <2>1 DEF InOrder
<1>7. InOrder(y, n)
  BY <1>1, <1>4, <1>5 DEF InOrder
<1> QED BY <1>1, <1>6, <1>7

(* A call takes the next event (Taken).                                    *)
LEMMA TakenIsFirst ==
  ASSUME NEW x \in Connection, NEW n \in Nat, InOrder(x, n), NEW t \in Lib!Taken(x)
  PROVE  t[1] \in Connection /\ Calm(x, t[1]) /\ InOrder(t[1], n) /\ First(t[1], t[2], n)
<1>1. PICK y, e : y = t[1] /\ e = t[2]
  OBVIOUS
<1>2. x.putback \in Nat /\ x.pending \in Nat /\ x.seen \in Nat /\ x.q \in Seq(Int)
  BY DEF Connection
<1>3. PICK zero \in Nat : zero = 0
  OBVIOUS
<1>4. CASE x.putback # 0
  <2>1. y = [x EXCEPT !.putback = zero] /\ e = x.putback
    BY <1>1, <1>3, <1>4 DEF Lib!Taken, Lib!None
  <2>2. /\ y \in Connection /\ Calm(x, y) /\ y.q = x.q /\ y.pending = x.pending /\ y.putback = zero
        /\ y.seen = x.seen
    BY <2>1 DEF Connection, Calm
  <2>3. InOrder(y, n) /\ First(y, e, n)
    BY <1>2, <1>3, <1>4, <2>1, <2>2 DEF InOrder, First
  <2> QED BY <1>1, <2>2, <2>3
<1>5. CASE x.putback = 0 /\ x.pending # 0
  <2>1. y = [x EXCEPT !.pending = zero] /\ e = x.pending
    BY <1>1, <1>3, <1>5 DEF Lib!Taken, Lib!None
  <2>2. /\ y \in Connection /\ Calm(x, y) /\ y.q = x.q /\ y.pending = zero /\ y.putback = x.putback
        /\ y.seen = x.seen
    BY <2>1 DEF Connection, Calm
  <2>3. InOrder(y, n) /\ First(y, e, n)
    BY <1>2, <1>3, <1>5, <2>1, <2>2 DEF InOrder, First
  <2> QED BY <1>1, <2>2, <2>3
<1>6. CASE x.putback = 0 /\ x.pending = 0
  <2>1. PICK i \in Lib!FirstEvent(x) : t = <<[x EXCEPT !.q = Suffix(x.q, i)], x.q[i]>>
    BY <1>6, Zenon DEF Lib!Taken, Lib!None, Suffix
  <2>2. i \in 1..Len(x.q) /\ x.q[i] > 0 /\ x.q[i] \in Int
    BY <1>2, <2>1 DEF Lib!FirstEvent, Lib!IsEvent
  <2>3. PICK r : r = Suffix(x.q, i)
    OBVIOUS
  <2>4. r \in Seq(Int)
    BY <1>2, <2>2, <2>3, SuffixOf
  <2>5. y = [x EXCEPT !.q = r] /\ e = x.q[i]
    BY <1>1, <2>1, <2>3
  <2>6. /\ y \in Connection /\ Calm(x, y) /\ y.q = r /\ y.pending = x.pending /\ y.putback = x.putback
        /\ y.seen = x.seen
    BY <2>4, <2>5 DEF Connection, Calm
  <2>7. InOrder(y, n) /\ \A j \in 1..Len(y.q) : y.q[j] > 0 => e < y.q[j]
    BY <2>2, <2>3, <2>5, <2>6, SuffixOrder
  <2>8. e <= n /\ x.seen < e /\ e \in Nat
    BY <1>2, <2>2, <2>5 DEF InOrder
  <2>9. First(y, e, n)
    BY <1>6, <2>2, <2>5, <2>6, <2>7, <2>8 DEF First
  <2> QED BY <1>1, <2>6, <2>7, <2>9
<1> QED BY <1>4, <1>5, <1>6

(* The event is given to the program.                                      *)
LEMMA SeenOrder ==
  ASSUME NEW x \in Connection, NEW n \in Nat, InOrder(x, n), NEW e, First(x, e, n), NEW y, y = [x EXCEPT !.seen = e]
  PROVE  y \in Connection /\ Calm(x, y) /\ InOrder(y, n)
<1>1. e \in Nat /\ x.putback \in Nat /\ x.pending \in Nat
  BY DEF First, Connection
<1>2. y \in Connection /\ Calm(x, y) /\ y.q = x.q /\ y.pending = x.pending /\ y.putback = x.putback /\ y.seen = e
  BY <1>1 DEF Connection, Calm
<1>3. InOrder(y, n)
  BY <1>1, <1>2 DEF InOrder, First
<1> QED BY <1>2, <1>3

(* The event is put back (XPutBackEvent).                                  *)
LEMMA PutBackOrder ==
  ASSUME NEW x \in Connection, NEW n \in Nat, InOrder(x, n), NEW e, First(x, e, n), NEW y, y = Lib!XPutBackEvent(x, e)
  PROVE  y \in Connection /\ Calm(x, y) /\ InOrder(y, n)
<1>1. e \in Nat /\ x.putback \in Nat /\ x.pending \in Nat
  BY DEF First, Connection
<1>2. CASE x.putback # 0
  BY <1>2 DEF Lib!XPutBackEvent, Lib!None, Calm
<1>3. CASE x.putback = 0
  <2>1. y = [x EXCEPT !.putback = e]
    BY <1>3 DEF Lib!XPutBackEvent, Lib!None
  <2>2. y \in Connection /\ Calm(x, y) /\ y.q = x.q /\ y.pending = x.pending /\ y.putback = e /\ y.seen = x.seen
    BY <1>1, <2>1 DEF Connection, Calm
  <2>3. InOrder(y, n)
    BY <1>1, <2>2 DEF InOrder, First
  <2> QED BY <2>2, <2>3
<1> QED BY <1>2, <1>3

(* A packet is polled (Polled).                                            *)
LEMMA PolledOrder ==
  ASSUME NEW x \in Connection, NEW n \in Nat, InOrder(x, n), NEW y, y = Lib!Polled(x)
  PROVE  y \in Connection /\ Calm(x, y) /\ InOrder(y, n)
<1>1. CASE y = x
  BY <1>1 DEF Calm
<1>2. CASE y # x
  <2>1. x.q \in Seq(Int) /\ x.seen \in Nat /\ x.putback \in Nat /\ x.pending \in Nat
    BY DEF Connection
  <2>2. x.putback = 0 /\ x.pending = 0 /\ x.q # <<>>
    BY <1>2, Zenon DEF Lib!Polled, Lib!None
  <2>3. PICK p : p = IF Lib!IsEvent(Head(x.q)) THEN Head(x.q) ELSE Lib!None
    OBVIOUS
  <2>4. 1 \in 1..Len(x.q) /\ Head(x.q) = x.q[1] /\ x.q[1] \in Int
    BY <2>1, <2>2
  <2>5. p \in Nat /\ (p > 0 => p = x.q[1])
    BY <2>3, <2>4 DEF Lib!IsEvent, Lib!None
  <2>6. PICK r : r = Suffix(x.q, 1)
    OBVIOUS
  <2>7. r = Tail(x.q)
    BY <2>1, <2>2, <2>6, TailIsSuffix
  <2>8. r \in Seq(Int)
    BY <2>1, <2>2, <2>7, TailIsSuffix
  <2>9. PICK z : z = [x EXCEPT !.q = r]
    OBVIOUS
  <2>10. z \in Connection /\ Calm(x, z) /\ z.q = r /\ z.pending = x.pending /\ z.putback = x.putback /\ z.seen = x.seen
    BY <2>8, <2>9 DEF Connection, Calm
  <2>11. InOrder(z, n) /\ (x.q[1] > 0 => \A j \in 1..Len(z.q) : z.q[j] > 0 => x.q[1] < z.q[j])
    BY <2>4, <2>6, <2>10, SuffixOrder
  <2>12. y = [x EXCEPT !.q = r, !.pending = p]
    BY <2>2, <2>3, <2>7 DEF Lib!Polled, Lib!None
  <2>13. y \in Connection /\ Calm(x, y) /\ y.q = r /\ y.pending = p /\ y.putback = x.putback /\ y.seen = x.seen
    BY <2>5, <2>8, <2>12 DEF Connection, Calm
  <2>14. p > 0 => x.seen < p /\ p <= n
    BY <2>4, <2>5 DEF InOrder
  <2>15. InOrder(y, n)
    <3>1. y.q = z.q /\ y.putback = z.putback /\ y.seen = z.seen
      BY <2>10, <2>13
    <3>2. \A j \in 1..Len(y.q) :
            y.q[j] <= n /\ (y.q[j] > 0 => y.seen < y.q[j] /\ y.putback < y.q[j] /\ y.pending < y.q[j])
      BY <2>5, <2>11, <2>13, <3>1 DEF InOrder
    <3>3. p > 0 => y.seen < p /\ y.putback < p
      BY <2>2, <2>13, <2>14
    <3> QED BY <2>5, <2>11, <2>13, <2>14, <3>1, <3>2, <3>3 DEF InOrder
  <2> QED BY <2>13, <2>15
<1> QED BY <1>1, <1>2

(***************************************************************************)
(* Steps.                                                                  *)
(***************************************************************************)
(* The parts of a carried state.                                           *)
LEMMA CarriedClient ==
  ASSUME NEW k, Carried(k), NEW c \in Client
  PROVE  /\ k.cl[c] \in Connection /\ k.sent[c] \in Nat /\ k.deaths[c] \in Nat
         /\ Tidy(k.cl[c]) /\ InOrder(k.cl[c], k.sent[c])
         /\ Linked(k.asm, k.inbox, c, k.deaths[c], k.cl[c], k.alive)
BY DEF Carried, Transport

(* A packet goes to a client, or is dropped (Post).                        *)
LEMMA PostKeeps ==
  ASSUME NEW k, Carried(k), NEW c \in Client, NEW p \in Int, p <= k.sent[c],
         p > 0 => \A j \in 1..Len(k.cl[c].q) : k.cl[c].q[j] < p,
         p > 0 => k.cl[c].seen < p /\ k.cl[c].putback < p /\ k.cl[c].pending < p,
         NEW d, d = Lib!Post(k, c, p)
  PROVE  Carried(d)
<1>1. PICK x : x = k.cl[c]
  OBVIOUS
<1>2. PICK n : n = k.sent[c]
  OBVIOUS
<1>3. x \in Connection /\ n \in Nat /\ Tidy(x) /\ InOrder(x, n) /\ x.q \in Seq(Int)
  <2>1. x \in Connection /\ n \in Nat /\ Tidy(x) /\ InOrder(x, n)
    BY <1>1, <1>2, CarriedClient
  <2> QED BY <2>1 DEF Connection
<1>4. CASE d = k
  BY <1>4
<1>5. CASE d = [k EXCEPT !.cl[c].q = Append(@, p)]
  <2>1. PICK r : r = Append(x.q, p)
    OBVIOUS
  <2>2. /\ r \in Seq(Int) /\ Len(x.q) \in Nat /\ Len(r) = Len(x.q) + 1 /\ r[Len(x.q) + 1] = p
        /\ \A j \in 1..Len(x.q) : r[j] = x.q[j] /\ x.q[j] \in Int
    BY <1>3, <2>1
  <2>3. PICK y : y = [x EXCEPT !.q = r]
    OBVIOUS
  <2>4. y \in Connection /\ Calm(x, y) /\ y.q = r /\ y.pending = x.pending /\ y.putback = x.putback /\ y.seen = x.seen
    BY <1>3, <2>2, <2>3 DEF Connection, Calm
  <2>5. \A j \in 1..Len(r) : j = Len(x.q) + 1 \/ j \in 1..Len(x.q)
    BY <2>2
  <2>6. ASSUME NEW j \in 1..Len(r)
        PROVE  r[j] <= n /\ (r[j] > 0 => x.seen < r[j] /\ x.putback < r[j] /\ x.pending < r[j])
    BY <1>1, <1>2, <1>3, <2>2, <2>5 DEF InOrder
  <2>7. ASSUME NEW i \in 1..Len(r), NEW j \in 1..Len(r), i < j, r[i] > 0, r[j] > 0 PROVE r[i] < r[j]
    <3>1. i \in 1..Len(x.q)
      BY <2>2, <2>5, <2>7
    <3>2. CASE j \in 1..Len(x.q)
      BY <1>3, <2>2, <2>7, <3>1, <3>2 DEF InOrder
    <3>3. CASE j = Len(x.q) + 1
      BY <1>1, <2>2, <2>7, <3>1, <3>3
    <3> QED BY <2>5, <3>2, <3>3
  <2>8. InOrder(y, n)
    BY <1>3, <2>4, <2>6, <2>7 DEF InOrder
  <2>9. Tidy(y) /\ Follows(x, y)
    BY <1>3, <2>4, CalmFollows
  <2>10. d = Turn(k, c, y)
    BY <1>1, <1>5, <2>1, <2>3 DEF Turn
  <2> QED BY <1>1, <1>2, <2>4, <2>8, <2>9, <2>10, TurnKeeps
<1> QED BY <1>4, <1>5, Zenon DEF Lib!Post

(* A client begins a request: its display, or a call.                      *)
LEMMA BeginKeeps ==
  ASSUME Lib!XlibConstants, Carried(s), NEW c \in Client, Lib!XOpenDisplay(c) \/ Lib!Call(c)
  PROVE  Carried(s')
<1>1. PICK x : x = s.cl[c]
  OBVIOUS
<1>2. /\ x \in Connection /\ Tidy(x) /\ InOrder(x, s.sent[c]) /\ x.seq \in Nat /\ x.waiting \in BOOLEAN
      /\ x.alive /\ x.todo = <<>> /\ ~x.waiting
  <2>1. x \in Connection /\ Tidy(x) /\ InOrder(x, s.sent[c])
    BY <1>1, CarriedClient
  <2>2. x.alive /\ x.todo = <<>>
    BY <1>1 DEF Lib!XOpenDisplay, Lib!Call, Lib!Idle
  <2> QED BY <2>1, <2>2 DEF Connection, Tidy
<1>3. ASSUME NEW todo \in Seq(Request), todo # <<>>, s' = Turn(s, c, Lib!begin_packet(x, todo)),
             \/ todo = Lib!Setup /\ x.seq = 0 /\ ~x.open
             \/ x.open /\ x.seq >= 1 /\ \A j \in 1..Len(todo) : ~todo[j].setup
      PROVE  Carried(s')
  <2>1. PICK y : y = Lib!begin_packet(x, todo)
    OBVIOUS
  <2>2. /\ y \in Connection /\ Tidy(y) /\ Quiet(x, y) /\ y.seq > x.seq /\ y.left = y.todo[1].frags
        /\ y.open = x.open /\ y.waiting = x.waiting
    BY <1>2, <1>3, <2>1, BeginPacket
  <2>3. InOrder(y, s.sent[c])
    BY <1>2, <2>2, QuietOrder
  <2>4. Follows(x, y)
    <3>1. y.seq \in Nat
      BY <2>2 DEF Connection
    <3> QED BY <1>2, <2>2, <3>1 DEF Follows
  <2> QED BY <1>1, <1>3, <2>1, <2>2, <2>3, <2>4, TurnKeeps
<1>4. CASE Lib!XOpenDisplay(c)
  <2>1. PICK todo : todo = Lib!Setup
    OBVIOUS
  <2>2. todo \in Seq(Request) /\ todo # <<>>
    <3>1. PICK one : one = Lib!Frags(12)
      OBVIOUS
    <3>2. one \in Nat \ {0}
      BY <3>1 DEF Lib!XlibConstants
    <3>3. [frags |-> one, waits |-> TRUE, setup |-> TRUE] \in Request
      BY <3>2 DEF Request
    <3> QED BY <2>1, <3>1, <3>3 DEF Lib!Setup
  <2>3. s' = Turn(s, c, Lib!begin_packet(x, todo)) /\ x.seq = 0 /\ ~x.open
    BY <1>1, <1>4, <2>1 DEF Lib!XOpenDisplay, Turn
  <2> QED BY <1>3, <2>1, <2>2, <2>3
<1>5. CASE Lib!Call(c)
  <2>1. PICK todo \in Lib!Calls : s' = Turn(s, c, Lib!begin_packet(x, todo))
    BY <1>1, <1>5 DEF Lib!Call, Turn
  <2>2. x.open /\ x.seq >= 1
    BY <1>1, <1>2, <1>5 DEF Lib!Call, Tidy
  <2>3. todo \in Seq([frags : Nat \ {0}, waits : BOOLEAN, setup : {FALSE}]) /\ todo # <<>>
    BY <2>1 DEF Lib!XlibConstants
  <2>4. \A j \in 1..Len(todo) : todo[j] \in [frags : Nat \ {0}, waits : BOOLEAN, setup : {FALSE}]
    <3>1. PICK R : R = [frags : Nat \ {0}, waits : BOOLEAN, setup : {FALSE}]
      OBVIOUS
    <3>2. todo \in Seq(R)
      BY <2>3, <3>1, Zenon
    <3>3. \A j \in 1..Len(todo) : todo[j] \in R
      BY <3>2
    <3> QED BY <3>1, <3>3, Zenon
  <2>5. \A j \in 1..Len(todo) : todo[j] \in Request /\ ~todo[j].setup
    BY <2>4 DEF Request
  <2>6. todo \in Seq(Request)
    BY <2>3, <2>5
  <2> QED BY <1>3, <2>1, <2>2, <2>3, <2>5, <2>6
<1> QED BY <1>4, <1>5

(* A round trip gets a packet (receive_packet).                            *)
LEMMA ReceiveKeeps ==
  ASSUME Carried(s), NEW c \in Client, Lib!receive_packet(c)
  PROVE  Carried(s')
<1>1. PICK x : x = s.cl[c]
  OBVIOUS
<1>2. x \in Connection /\ Tidy(x) /\ InOrder(x, s.sent[c]) /\ s.sent[c] \in Nat
  BY <1>1, CarriedClient
<1>3. x.alive /\ x.waiting /\ x.q # <<>> /\ x.q \in Seq(Int) /\ x.todo # <<>> /\ x.seq \in Nat
  BY <1>1, <1>2 DEF Lib!receive_packet, Connection, Tidy
<1>4. PICK r : r = Suffix(x.q, 1)
  OBVIOUS
<1>5. 1 \in 1..Len(x.q) /\ r = Tail(x.q)
  BY <1>3, <1>4, TailIsSuffix
<1>6. r \in Seq(Int)
  BY <1>3, <1>5, TailIsSuffix
<1>8. PICK y : y = [x EXCEPT !.q = r]
  OBVIOUS
<1>9. y \in Connection /\ Calm(x, y) /\ y.q = r /\ y.pending = x.pending /\ y.putback = x.putback /\ y.seen = x.seen
  BY <1>2, <1>6, <1>8 DEF Connection, Calm
<1>10. InOrder(y, s.sent[c])
  BY <1>2, <1>4, <1>5, <1>9, SuffixOrder
<1>11. Tidy(y) /\ Follows(x, y) /\ y.todo # <<>> /\ y.alive
  BY <1>2, <1>3, <1>9, CalmFollows DEF Calm
<1>12. CASE s' = Turn(s, c, Lib!Abandon(y))
  <2>1. PICK z : z = Lib!Abandon(y)
    OBVIOUS
  <2>2. z \in Connection /\ Tidy(z) /\ Quiet(y, z) /\ Follows(y, z)
    BY <1>9, <1>11, <2>1, AbandonFollows
  <2>3. z.seq \in Nat /\ y.seq \in Nat /\ z.seq >= x.seq
    BY <1>2, <1>3, <1>9, <2>2 DEF Connection, Follows, Calm
  <2>4. Follows(x, z)
    BY <1>3, <1>9, <2>2, <2>3 DEF Follows, Calm
  <2>5. InOrder(z, s.sent[c])
    BY <1>10, <2>2, QuietOrder
  <2> QED BY <1>1, <1>12, <2>1, <2>2, <2>4, <2>5, TurnKeeps
<1>13. CASE s' = Turn(s, c, [Lib!Advance(y) EXCEPT !.open = TRUE])
  <2>1. PICK z : z = Lib!Advance(y)
    OBVIOUS
  <2>2. /\ z \in Connection /\ Tidy(z) /\ Quiet(y, z) /\ y.seq <= z.seq /\ z.open = y.open /\ ~z.waiting /\ z.alive
        /\ z.left = 0 \/ (z.seq > y.seq /\ z.left = z.todo[1].frags)
    BY <1>9, <1>11, <2>1, AdvanceBegins
  <2>3. PICK w : w = [z EXCEPT !.open = TRUE]
    OBVIOUS
  <2>4. /\ w \in Connection /\ w.open /\ w.seq = z.seq /\ w.left = z.left /\ w.todo = z.todo /\ w.waiting = z.waiting
        /\ w.alive = z.alive /\ Quiet(z, w)
    BY <2>2, <2>3 DEF Connection, Quiet
  <2>5. z.seq \in Nat /\ y.seq = x.seq /\ x.seq >= 1
    <3>1. x.seq >= 1
      BY <1>2, <1>3 DEF Tidy
    <3> QED BY <1>9, <2>2, <3>1 DEF Connection, Calm
  <2>6. Tidy(w)
    BY <1>3, <2>2, <2>4, <2>5 DEF Tidy
  <2>7. Follows(x, w)
    BY <1>3, <2>2, <2>4, <2>5 DEF Follows
  <2>8. InOrder(w, s.sent[c])
    BY <1>10, <2>2, <2>4, QuietOrder
  <2> QED BY <1>1, <1>13, <2>1, <2>3, <2>4, <2>6, <2>7, <2>8, TurnKeeps
<1> QED BY <1>1, <1>5, <1>8, <1>12, <1>13, Zenon DEF Lib!receive_packet, Turn

(* A client sends a fragment, or its call fails (send_packet).             *)
LEMMA SendKeeps ==
  ASSUME Lib!XlibConstants, Carried(s), NEW c \in Client, Lib!send_packet(c)
  PROVE  Carried(s')
<1>1. PICK x, life, n : x = s.cl[c] /\ life = s.deaths[c] /\ n = s.sent[c]
  OBVIOUS
<1>2. x \in Connection /\ life \in Nat /\ n \in Nat /\ Tidy(x) /\ InOrder(x, n)
  BY <1>1, CarriedClient
<1>3. x.alive /\ x.left > 0 /\ x.left \in Nat /\ x.seq \in Nat /\ x.todo \in Seq(Request)
  BY <1>1, <1>2 DEF Lib!send_packet, Connection
<1>4. x.todo # <<>> /\ x.left <= x.todo[1].frags /\ ~x.waiting /\ x.todo[1] \in Request
  BY <1>2, <1>3 DEF Tidy
<1>5. PICK m \in Request : m = x.todo[1]
  BY <1>4
<1>6. m.frags \in Nat /\ m.waits \in BOOLEAN /\ m.setup \in BOOLEAN
  BY DEF Request
<1>7. PICK last \in BOOLEAN : last = (x.left = 1)
  OBVIOUS
<1>8. PICK i : i = m.frags - x.left + 1
  OBVIOUS
<1>9. PICK g : g = [c |-> c, life |-> life, seq |-> x.seq, i |-> i, last |-> last, setup |-> m.setup, waits |-> m.waits]
  OBVIOUS
<1>10. i \in Nat \ {0}
  BY <1>3, <1>4, <1>5, <1>6, <1>8
<1>11. g \in Fragment /\ g.c = c /\ g.life = life /\ g.seq = x.seq /\ g.i = i /\ g.last = last /\ g.setup = m.setup
  BY <1>2, <1>3, <1>6, <1>9, <1>10 DEF Fragment
<1>12. CASE s' = Turn(s, c, Lib!Abandon(x))
  <2>1. PICK y : y = Lib!Abandon(x)
    OBVIOUS
  <2>2. y \in Connection /\ Tidy(y) /\ Quiet(x, y) /\ Follows(x, y)
    BY <1>2, <2>1, AbandonFollows
  <2>3. InOrder(y, n)
    BY <1>2, <2>2, QuietOrder
  <2> QED BY <1>1, <1>12, <2>1, <2>2, <2>3, TurnKeeps
<1>13. ASSUME NEW y \in Connection, Tidy(y), Quiet(x, y), x.seq <= y.seq, y.open = x.open, s.alive,
              \/ x.left > 1 /\ y.left = x.left - 1 /\ y.seq = x.seq /\ y.todo[1] = x.todo[1]
              \/ x.left = 1 /\ (y.left = 0 \/ (y.seq > x.seq /\ y.left = y.todo[1].frags)),
              s' = [s EXCEPT !.inbox = Extended(s.inbox, g), !.cl[c] = y]
       PROVE  Carried(s')
  <2>1. PICK r : r = Extended(s.inbox, g)
    OBVIOUS
  <2>2. PICK cl : cl = [s.cl EXCEPT ![c] = y]
    OBVIOUS
  <2>3. s \in Transport /\ s.cl \in [Client -> Connection] /\ Stream(s.asm, s.inbox)
    BY DEF Carried, Transport
  <2>4. s.asm \in Seq(Fragment) /\ s.inbox \in Seq(Fragment)
    BY <2>3 DEF Stream
  <2>5. cl \in [Client -> Connection] /\ cl[c] = y /\ \A b \in Client : b # c => cl[b] = s.cl[b]
    BY <2>2, <2>3
  <2>6. Linked(s.asm, s.inbox, c, life, x, TRUE)
    <3>1. Linked(s.asm, s.inbox, c, life, x, s.alive)
      BY <1>1, CarriedClient
    <3> QED BY <3>1, <1>13 DEF Linked
  <2>7. Lib!Frags(12) = 1
    BY DEF Lib!XlibConstants
  <2>8. Stream(s.asm, r)
    BY <1>2, <1>3, <1>5, <1>7, <1>8, <1>11, <2>1, <2>3, <2>6, <2>7, AppendStream
  <2>9. Linked(s.asm, r, c, life, y, TRUE)
    <3>1. g.i = x.todo[1].frags - x.left + 1 /\ (g.last <=> x.left = 1) /\ g.setup = x.todo[1].setup /\ (y.open => x.open)
      BY <1>5, <1>7, <1>8, <1>11, <1>13
    <3> QED BY <1>2, <1>3, <1>11, <1>13, <2>1, <2>3, <2>6, <2>7, <3>1, SenderLinks
  <2>10. s' = [s EXCEPT !.inbox = r, !.cl = cl]
    BY <1>13, <2>1, <2>2, <2>3 DEF Transport
  <2>11. r \in Seq(Fragment)
    BY <2>8 DEF Stream
  <2>12. /\ s' \in Transport /\ s'.asm = s.asm /\ s'.inbox = r /\ s'.alive = s.alive /\ s'.sent = s.sent
         /\ s'.deaths = s.deaths /\ s'.cl = cl
    BY <2>3, <2>5, <2>10, <2>11 DEF Transport
  <2>13. InOrder(y, n)
    BY <1>2, <1>13, QuietOrder
  <2>14. ASSUME NEW b \in Client
         PROVE  Tidy(cl[b]) /\ InOrder(cl[b], s.sent[b]) /\ Linked(s.asm, r, b, s.deaths[b], cl[b], s.alive)
    <3>1. CASE b = c
      <4>1. Linked(s.asm, r, c, life, y, s.alive)
        BY <1>13, <2>9 DEF Linked
      <4> QED BY <1>1, <1>13, <2>5, <2>13, <3>1, <4>1
    <3>2. CASE b # c
      <4>1. Tidy(s.cl[b]) /\ InOrder(s.cl[b], s.sent[b]) /\ Linked(s.asm, s.inbox, b, s.deaths[b], s.cl[b], s.alive)
        BY CarriedClient
      <4>2. b # g.c
        BY <1>11, <3>2
      <4>3. Linked(s.asm, r, b, s.deaths[b], s.cl[b], s.alive)
        BY <1>11, <2>1, <2>4, <4>1, <4>2, AppendLinks
      <4> QED BY <2>5, <3>2, <4>1, <4>3
    <3> QED BY <3>1, <3>2
  <2> QED BY <1>13, <2>8, <2>12, <2>14 DEF Carried
<1>14. PICK y : y = IF x.left > 1 THEN [x EXCEPT !.left = @ - 1]
                    ELSE IF m.waits THEN [x EXCEPT !.left = 0, !.waiting = TRUE] ELSE Lib!Advance(x)
  OBVIOUS
<1>15. /\ y \in Connection /\ Tidy(y) /\ Quiet(x, y) /\ x.seq <= y.seq /\ y.open = x.open
       /\ \/ x.left > 1 /\ y.left = x.left - 1 /\ y.seq = x.seq /\ y.todo[1] = x.todo[1]
          \/ x.left = 1 /\ (y.left = 0 \/ (y.seq > x.seq /\ y.left = y.todo[1].frags))
  <2>1. CASE x.left > 1
    <3>1. PICK left : left = x.left - 1
      OBVIOUS
    <3>2. y = [x EXCEPT !.left = left]
      BY <1>14, <2>1, <3>1
    <3>3. left \in Nat /\ left > 0 /\ left < x.left
      BY <1>3, <2>1, <3>1
    <3>4. /\ y \in Connection /\ y.alive = x.alive /\ y.open = x.open /\ y.seq = x.seq /\ y.todo = x.todo
          /\ y.left = left /\ y.waiting = x.waiting /\ Quiet(x, y)
      BY <1>2, <3>2, <3>3 DEF Connection, Quiet
    <3>5. left <= x.todo[1].frags
      BY <1>3, <1>4, <1>5, <1>6, <3>3
    <3>6. Tidy(y)
      BY <1>2, <1>4, <3>4, <3>5 DEF Tidy
    <3> QED BY <1>3, <2>1, <3>1, <3>4, <3>6
  <2>2. CASE x.left = 1 /\ m.waits
    <3>1. PICK zero \in Nat : zero = 0
      OBVIOUS
    <3>2. PICK z : z = [x EXCEPT !.left = zero]
      OBVIOUS
    <3>3. z \in Connection /\ z.alive = x.alive /\ z.open = x.open /\ z.seq = x.seq /\ z.todo = x.todo
          /\ z.left = zero /\ Quiet(x, z)
      BY <1>2, <3>2 DEF Connection, Quiet
    <3>4. y = [z EXCEPT !.waiting = TRUE]
      BY <1>2, <1>3, <1>14, <2>2, <3>1, <3>2 DEF Connection
    <3>5. y \in Connection /\ y.alive = x.alive /\ y.open = x.open /\ y.seq = x.seq /\ y.todo = x.todo
          /\ y.left = zero /\ y.waiting /\ Quiet(x, y)
      BY <3>3, <3>4 DEF Connection, Quiet
    <3>6. Tidy(y)
      BY <1>2, <1>3, <1>4, <3>1, <3>5 DEF Tidy
    <3> QED BY <1>3, <2>2, <3>1, <3>5, <3>6
  <2>3. CASE x.left = 1 /\ ~m.waits
    <3>1. y = Lib!Advance(x)
      BY <1>14, <2>3
    <3>2. /\ y \in Connection /\ Tidy(y) /\ Quiet(x, y) /\ x.seq <= y.seq /\ y.open = x.open /\ ~y.waiting /\ y.alive
          /\ y.left = 0 \/ (y.seq > x.seq /\ y.left = y.todo[1].frags)
      BY <1>2, <1>3, <1>4, <3>1, AdvanceBegins
    <3> QED BY <2>3, <3>2
  <2> QED BY <1>3, <2>1, <2>2, <2>3
<1>16. \/ s' = Turn(s, c, Lib!Abandon(x))
       \/ s.alive /\ s' = [s EXCEPT !.inbox = Extended(s.inbox, g), !.cl[c] = y]
  BY <1>1, <1>5, <1>7, <1>8, <1>9, <1>14, Zenon DEF Lib!send_packet, Turn, Extended
<1> QED BY <1>12, <1>13, <1>15, <1>16

(* A change of a client's events only.                                     *)
LEMMA CalmKeeps ==
  ASSUME NEW k, Carried(k), NEW c \in Client, NEW y \in Connection, Calm(k.cl[c], y), InOrder(y, k.sent[c]),
         NEW d, d = Turn(k, c, y)
  PROVE  Carried(d)
<1>1. k.cl[c] \in Connection /\ Tidy(k.cl[c])
  BY CarriedClient
<1>2. Tidy(y) /\ Follows(k.cl[c], y)
  BY <1>1, CalmFollows
<1> QED BY <1>2, TurnKeeps

(* A client asks for events (XNextEvent, XPending, XCheckEvent and         *)
(* XMaskEvent).                                                            *)
LEMMA EventsKeep ==
  ASSUME Carried(s), NEW c \in Client,
         Lib!XNextEvent(c) \/ Lib!XPending(c) \/ Lib!XCheckEvent(c) \/ Lib!XMaskEvent(c)
  PROVE  Carried(s')
<1>1. PICK x, n : x = s.cl[c] /\ n = s.sent[c]
  OBVIOUS
<1>2. x \in Connection /\ n \in Nat /\ InOrder(x, n)
  BY <1>1, CarriedClient
<1>3. ASSUME NEW z \in Connection, Calm(x, z), InOrder(z, n), NEW t \in Lib!Taken(z),
             \/ s' = Turn(s, c, [t[1] EXCEPT !.seen = t[2]])
             \/ s' = Turn(s, c, Lib!XPutBackEvent(t[1], t[2]))
      PROVE  Carried(s')
  <2>1. PICK w, e : w = t[1] /\ e = t[2]
    OBVIOUS
  <2>2. w \in Connection /\ Calm(z, w) /\ InOrder(w, n) /\ First(w, e, n)
    BY <1>2, <1>3, <2>1, TakenIsFirst
  <2>3. PICK y : s' = Turn(s, c, y) /\ (y = [w EXCEPT !.seen = e] \/ y = Lib!XPutBackEvent(w, e))
    BY <1>3, <2>1
  <2>4. y \in Connection /\ Calm(w, y) /\ InOrder(y, n)
    BY <1>2, <2>2, <2>3, SeenOrder, PutBackOrder
  <2>5. Calm(x, y)
    BY <1>3, <2>2, <2>4 DEF Calm
  <2> QED BY <1>1, <2>3, <2>4, <2>5, CalmKeeps
<1>4. Calm(x, x)
  BY DEF Calm
<1>5. PICK p : p = Lib!Polled(x)
  OBVIOUS
<1>6. p \in Connection /\ Calm(x, p) /\ InOrder(p, n)
  BY <1>2, <1>5, PolledOrder
<1>7. CASE Lib!XNextEvent(c)
  <2>1. PICK t \in Lib!Taken(x) : s' = Turn(s, c, [t[1] EXCEPT !.seen = t[2]])
    BY <1>1, <1>7 DEF Lib!XNextEvent, Turn
  <2> QED BY <1>2, <1>3, <1>4, <2>1
<1>8. CASE Lib!XPending(c)
  <2>1. s' = Turn(s, c, p)
    <3>1. s' = [s EXCEPT !.cl[c] = Lib!Polled(@)]
      BY <1>8 DEF Lib!XPending
    <3>2. s' = [s EXCEPT !.cl[c] = Lib!Polled(s.cl[c])]
      BY <3>1
    <3> QED BY <1>1, <1>5, <3>2, Zenon DEF Turn
  <2> QED BY <1>1, <1>6, <2>1, CalmKeeps
<1>9. CASE Lib!XCheckEvent(c)
  <2>1. PICK t \in Lib!Taken(p), wanted \in BOOLEAN :
          s' = [s EXCEPT !.cl[c] = IF wanted THEN [t[1] EXCEPT !.seen = t[2]] ELSE Lib!XPutBackEvent(t[1], t[2])]
    BY <1>1, <1>5, <1>9 DEF Lib!XCheckEvent
  <2>2. \/ s' = Turn(s, c, [t[1] EXCEPT !.seen = t[2]])
        \/ s' = Turn(s, c, Lib!XPutBackEvent(t[1], t[2]))
    BY <2>1, Zenon DEF Turn
  <2> QED BY <1>3, <1>6, <2>1, <2>2
<1>10. CASE Lib!XMaskEvent(c)
  <2>1. PICK t \in Lib!Taken(x) : s' = Turn(s, c, Lib!XPutBackEvent(t[1], t[2]))
    BY <1>1, <1>10 DEF Lib!XMaskEvent, Turn
  <2> QED BY <1>2, <1>3, <1>4, <2>1
<1> QED BY <1>7, <1>8, <1>9, <1>10

(* A process begins.                                                       *)
LEMMA FreshIsTidy ==
  ASSUME NEW y, y = Lib!Fresh
  PROVE  /\ y \in Connection /\ Tidy(y) /\ y.seq = 0 /\ y.left = 0 /\ ~y.open /\ ~y.waiting
         /\ \A n \in Nat : InOrder(y, n)
<1>1. PICK zero \in Nat : zero = 0
  OBVIOUS
<1>2. PICK none : none = <<>>
  OBVIOUS
<1>3. none \in Seq(Request) /\ none \in Seq(Int) /\ Len(none) = 0
  BY <1>2
<1>4. y = [alive |-> TRUE, open |-> FALSE, seq |-> zero, todo |-> none, left |-> zero, waiting |-> FALSE,
           q |-> none, pending |-> zero, putback |-> zero, seen |-> zero]
  BY <1>1, <1>2 DEF Lib!Fresh, Lib!None
<1>5. y \in Connection
  BY <1>3, <1>4 DEF Connection
<1>6. /\ y.alive /\ y.seq = zero /\ y.left = zero /\ ~y.open /\ ~y.waiting /\ y.todo = none /\ y.q = none
      /\ y.pending = zero /\ y.putback = zero /\ y.seen = zero
  BY <1>4
<1>7. Tidy(y)
  BY <1>1, <1>2, <1>6 DEF Tidy
<1>8. \A n \in Nat : InOrder(y, n)
  BY <1>1, <1>3, <1>6 DEF InOrder
<1> QED BY <1>1, <1>5, <1>6, <1>7, <1>8

(* It ends (Die) or is started again (Restart).                            *)
LEMMA ProcessKeeps ==
  ASSUME Carried(s), NEW c \in Client, Lib!Die(c) \/ Lib!Restart(c)
  PROVE  Carried(s')
<1>1. PICK x, n, life : x = s.cl[c] /\ n = s.sent[c] /\ life = s.deaths[c]
  OBVIOUS
<1>2. x \in Connection /\ n \in Nat /\ life \in Nat /\ Tidy(x) /\ Linked(s.asm, s.inbox, c, life, x, s.alive)
  BY <1>1, CarriedClient
<1>3. PICK f : f = Lib!Fresh
  OBVIOUS
<1>4. f \in Connection /\ Tidy(f) /\ f.seq = 0 /\ f.left = 0 /\ ~f.open /\ ~f.waiting /\ \A k \in Nat : InOrder(f, k)
  BY <1>3, FreshIsTidy
<1>5. CASE Lib!Restart(c)
  <2>1. s' = Turn(s, c, f) /\ ~x.alive
    BY <1>1, <1>3, <1>5 DEF Lib!Restart, Turn
  <2>2. Follows(x, f)
    BY <1>2, <1>4, <2>1 DEF Tidy, Follows
  <2> QED BY <1>1, <1>2, <1>4, <2>1, <2>2, TurnKeeps
<1>6. CASE Lib!Die(c)
  <2>1. PICK y : y = [f EXCEPT !.alive = FALSE]
    OBVIOUS
  <2>2. /\ y \in Connection /\ ~y.alive /\ y.seq = f.seq /\ y.left = f.left /\ y.open = f.open
        /\ y.waiting = f.waiting /\ y.todo = f.todo /\ Quiet(f, y)
    BY <1>4, <2>1 DEF Connection, Quiet
  <2>3. Tidy(y)
    BY <1>4, <2>2 DEF Tidy
  <2>4. PICK zero \in Nat : zero = 0
    OBVIOUS
  <2>5. InOrder(y, zero)
    BY <1>4, <2>2, QuietOrder
  <2>6. PICK cl, deaths, sent : /\ cl = [s.cl EXCEPT ![c] = y] /\ deaths = [s.deaths EXCEPT ![c] = life + 1]
                                /\ sent = [s.sent EXCEPT ![c] = zero]
    OBVIOUS
  <2>7. s \in Transport /\ s.cl \in [Client -> Connection] /\ s.deaths \in [Client -> Nat] /\ s.sent \in [Client -> Nat]
    BY DEF Carried, Transport
  <2>8. /\ cl \in [Client -> Connection] /\ cl[c] = y /\ deaths \in [Client -> Nat] /\ deaths[c] = life + 1
        /\ sent \in [Client -> Nat] /\ sent[c] = zero
        /\ \A b \in Client : b # c => cl[b] = s.cl[b] /\ deaths[b] = s.deaths[b] /\ sent[b] = s.sent[b]
    BY <1>2, <2>2, <2>4, <2>6, <2>7
  <2>9. s' = [s EXCEPT !.cl = cl, !.deaths = deaths, !.sent = sent]
    BY <1>1, <1>3, <1>6, <2>1, <2>4, <2>6, <2>7 DEF Lib!Die, Transport
  <2>10. /\ s' \in Transport /\ s'.asm = s.asm /\ s'.inbox = s.inbox /\ s'.alive = s.alive /\ s'.sent = sent
         /\ s'.deaths = deaths /\ s'.cl = cl
    BY <2>7, <2>8, <2>9 DEF Transport
  <2>11. Stream(s.asm, s.inbox) /\ (~s.alive => s.asm = <<>> /\ s.inbox = <<>>)
    BY DEF Carried
  <2>12. Linked(s.asm, s.inbox, c, life + 1, y, s.alive)
    <3>1. Past(s.asm, s.inbox, c, life + 1, y)
      <4> SUFFICES ASSUME NEW a \in Places(s.asm, s.inbox), Piece(s.asm, s.inbox, a).c = c
                   PROVE  Piece(s.asm, s.inbox, a).life <= life + 1 /\ Piece(s.asm, s.inbox, a).life # life + 1
        BY DEF Past
      <4>1. PICK g \in Fragment : g = Piece(s.asm, s.inbox, a)
        BY <2>11, PieceType DEF Stream
      <4>2. g.life \in Nat
        BY DEF Fragment
      <4>3. g.life <= life
        BY <1>2, <4>1 DEF Linked, Past
      <4> QED BY <1>2, <4>1, <4>2, <4>3
    <3>2. Half(s.asm, s.inbox, c, life + 1, y) /\ Known(s.asm, s.inbox, c, life + 1, y)
      BY <1>4, <2>2 DEF Half, Known
    <3> QED BY <3>1, <3>2 DEF Linked
  <2>13. ASSUME NEW b \in Client
         PROVE  Tidy(cl[b]) /\ InOrder(cl[b], sent[b]) /\ Linked(s.asm, s.inbox, b, deaths[b], cl[b], s.alive)
    BY <2>3, <2>5, <2>8, <2>12, CarriedClient
  <2> QED BY <2>10, <2>11, <2>13 DEF Carried
<1> QED BY <1>5, <1>6

(* An input event goes out (Native).                                       *)
LEMMA NativeKeeps ==
  ASSUME Carried(s), NEW c \in Client, Lib!Native(c)
  PROVE  Carried(s')
<1>1. PICK x, n, p : x = s.cl[c] /\ n = s.sent[c] /\ p = s.sent[c] + 1
  OBVIOUS
<1>2. x \in Connection /\ n \in Nat /\ InOrder(x, n)
  BY <1>1, CarriedClient
<1>3. p \in Nat /\ n < p /\ x.q \in Seq(Int) /\ x.seen \in Nat /\ x.putback \in Nat /\ x.pending \in Nat
  <2>1. p = n + 1
    BY <1>1
  <2>2. p \in Nat /\ n < p
    BY <1>2, <2>1
  <2>3. x.q \in Seq(Int) /\ x.seen \in Nat
    BY <1>2 DEF Connection
  <2>4. x.putback \in Nat /\ x.pending \in Nat
    BY <1>2 DEF Connection
  <2> QED BY <2>2, <2>3, <2>4
<1>4. PICK sent : sent = [s.sent EXCEPT ![c] = p]
  OBVIOUS
<1>5. s \in Transport /\ s.sent \in [Client -> Nat]
  BY DEF Carried, Transport
<1>6. sent \in [Client -> Nat] /\ sent[c] = p /\ \A b \in Client : b # c => sent[b] = s.sent[b]
  BY <1>3, <1>4, <1>5
<1>7. PICK k : k = [s EXCEPT !.sent = sent]
  OBVIOUS
<1>8. /\ k \in Transport /\ k.asm = s.asm /\ k.inbox = s.inbox /\ k.alive = s.alive /\ k.sent = sent
      /\ k.deaths = s.deaths /\ k.cl = s.cl
  BY <1>5, <1>6, <1>7 DEF Transport
<1>9. InOrder(x, p)
  <2>1. x.seen <= p /\ x.putback <= p /\ x.pending <= p
    BY <1>2, <1>3 DEF InOrder
  <2>2. \A j \in 1..Len(x.q) : x.q[j] \in Int /\ x.q[j] <= p
    BY <1>2, <1>3 DEF InOrder
  <2> QED BY <1>2, <2>1, <2>2 DEF InOrder
<1>10. Carried(k)
  <2>1. ASSUME NEW b \in Client
        PROVE  Tidy(s.cl[b]) /\ InOrder(s.cl[b], sent[b]) /\ Linked(s.asm, s.inbox, b, s.deaths[b], s.cl[b], s.alive)
    BY <1>1, <1>6, <1>9, CarriedClient
  <2>2. Stream(s.asm, s.inbox) /\ (~s.alive => s.asm = <<>> /\ s.inbox = <<>>)
    BY DEF Carried
  <2> QED BY <1>8, <2>1, <2>2 DEF Carried
<1>11. s' = Lib!Post(k, c, p)
  <2>1. s' = [Lib!Post(s, c, p) EXCEPT !.sent[c] = @ + 1]
    BY <1>1 DEF Lib!Native
  <2>2. CASE ~(s.cl[c].alive /\ Len(s.cl[c].q) < DEPTH)
    <3>1. Lib!Post(s, c, p) = s /\ Lib!Post(k, c, p) = k
      BY <1>8, <2>2 DEF Lib!Post
    <3> QED BY <1>1, <1>4, <1>5, <1>7, <2>1, <3>1 DEF Transport
  <2>3. CASE s.cl[c].alive /\ Len(s.cl[c].q) < DEPTH
    <3>1. PICK cl : cl = [s.cl EXCEPT ![c].q = Append(@, p)]
      OBVIOUS
    <3>2. Lib!Post(s, c, p) = [s EXCEPT !.cl = cl] /\ Lib!Post(k, c, p) = [k EXCEPT !.cl = cl]
      BY <1>5, <1>8, <2>3, <3>1 DEF Lib!Post, Transport
    <3>3. PICK d : d = [s EXCEPT !.cl = cl]
      OBVIOUS
    <3>4. d.sent = s.sent /\ s' = [d EXCEPT !.sent[c] = @ + 1]
      BY <1>5, <2>1, <3>2, <3>3 DEF Transport
    <3>5. s' = [d EXCEPT !.sent = sent]
      BY <1>1, <1>4, <3>4
    <3> QED BY <1>5, <1>7, <3>2, <3>3, <3>5 DEF Transport
  <2> QED BY <2>2, <2>3
<1>12. \A j \in 1..Len(x.q) : x.q[j] \in Int /\ x.q[j] < p
  BY <1>2, <1>3 DEF InOrder
<1>13. x.seen < p /\ x.putback < p /\ x.pending < p
  BY <1>2, <1>3 DEF InOrder
<1>14. k.cl[c] = x /\ k.sent[c] = p
  BY <1>1, <1>6, <1>8
<1>15. p <= k.sent[c] /\ p \in Int
  BY <1>3, <1>14
<1> QED BY <1>10, <1>11, <1>12, <1>13, <1>14, <1>15, PostKeeps

(* The server takes a fragment, or ends (demonx_main).                     *)
LEMMA ServeKeeps ==
  ASSUME Carried(s), Lib!demonx_main
  PROVE  Carried(s')
<1>1. s \in Transport /\ s.inbox # <<>> /\ s.alive /\ Stream(s.asm, s.inbox)
  BY DEF Lib!demonx_main, Carried
<1>2. s.asm \in Seq(Fragment) /\ s.inbox \in Seq(Fragment)
  BY <1>1 DEF Stream
<1>3. PICK f \in Fragment : f = s.inbox[1] /\ f = Head(s.inbox)
  BY <1>1, <1>2
<1>4. f.last \in BOOLEAN /\ f.c \in Client
  BY DEF Fragment
<1>5. PICK m, q : m = (IF f.last THEN <<>> ELSE Extended(s.asm, f)) /\ q = Tail(s.inbox)
  OBVIOUS
<1>6. PICK k : k = [s EXCEPT !.inbox = q, !.asm = m]
  OBVIOUS
<1>7. CASE ~Lib!Fits(s.asm, f)
  <2>1. PICK none : none = <<>>
    OBVIOUS
  <2>2. none \in Seq(Fragment)
    BY <2>1
  <2>3. s' = [s EXCEPT !.alive = FALSE, !.inbox = none, !.asm = none]
    BY <1>3, <1>7, <2>1 DEF Lib!demonx_main
  <2>4. /\ s' \in Transport /\ s'.asm = none /\ s'.inbox = none /\ s'.alive = FALSE /\ s'.sent = s.sent
        /\ s'.deaths = s.deaths /\ s'.cl = s.cl
    BY <1>1, <2>2, <2>3 DEF Transport
  <2>5. Stream(none, none) /\ \A c, life, x : Linked(none, none, c, life, x, FALSE)
    BY <2>1, EmptyStream
  <2> QED BY <2>1, <2>4, <2>5, CarriedClient DEF Carried
<1>8. CASE Lib!Fits(s.asm, f)
  <2>1. Consumes(s.asm, s.inbox, m, q)
    BY <1>1, <1>3, <1>4, <1>5 DEF Consumes
  <2>2. Stream(m, q)
    BY <1>1, <1>3, <1>8, <2>1, TakenStream
  <2>3. m \in Seq(Fragment) /\ q \in Seq(Fragment)
    BY <2>2 DEF Stream
  <2>4. /\ k \in Transport /\ k.asm = m /\ k.inbox = q /\ k.alive = s.alive /\ k.sent = s.sent
        /\ k.deaths = s.deaths /\ k.cl = s.cl
    BY <1>1, <1>6, <2>3 DEF Transport
  <2>5. ASSUME NEW b \in Client
        PROVE  Tidy(s.cl[b]) /\ InOrder(s.cl[b], s.sent[b]) /\ Linked(m, q, b, s.deaths[b], s.cl[b], s.alive)
    <3>1. /\ s.cl[b] \in Connection /\ s.deaths[b] \in Nat /\ Tidy(s.cl[b]) /\ InOrder(s.cl[b], s.sent[b])
          /\ Linked(s.asm, s.inbox, b, s.deaths[b], s.cl[b], s.alive)
      BY CarriedClient
    <3>2. Linked(s.asm, s.inbox, b, s.deaths[b], s.cl[b], TRUE)
      BY <1>1, <3>1 DEF Linked
    <3>3. Linked(m, q, b, s.deaths[b], s.cl[b], TRUE)
      <4>1. PICK x \in Connection, life \in Nat : x = s.cl[b] /\ life = s.deaths[b]
        BY <3>1
      <4>2. Linked(s.asm, s.inbox, b, life, x, TRUE) /\ Lib!Fits(s.asm, s.inbox[1])
        BY <1>3, <1>8, <3>2, <4>1
      <4>3. Linked(m, q, b, life, x, TRUE)
        BY <1>1, <2>1, <4>2, TakenLinks
      <4> QED BY <4>1, <4>3
    <3>4. Linked(m, q, b, s.deaths[b], s.cl[b], s.alive)
      BY <1>1, <3>3 DEF Linked
    <3> QED BY <3>1, <3>4
  <2>6. Carried(k)
    BY <1>1, <2>2, <2>4, <2>5 DEF Carried
  <2>7. s' = k \/ s' = Lib!Post(k, f.c, Lib!Failure) \/ s' = Lib!Post(k, f.c, Lib!Reply)
    BY <1>3, <1>5, <1>6, <1>8, Zenon DEF Lib!demonx_main, Extended
  <2>8. k.sent[f.c] \in Nat
    BY <1>4, <2>6, CarriedClient
  <2>9. Lib!Failure \in Int /\ Lib!Failure < 0 /\ Lib!Reply \in Int /\ Lib!Reply < 0
    BY DEF Lib!Failure, Lib!Reply
  <2>10. ASSUME NEW p \in Int, p < 0, s' = Lib!Post(k, f.c, p) PROVE Carried(s')
    <3>1. p <= k.sent[f.c] /\ ~(p > 0)
      BY <2>8, <2>10
    <3> QED BY <1>4, <2>6, <2>10, <3>1, PostKeeps
  <2> QED BY <2>6, <2>7, <2>9, <2>10
<1> QED BY <1>7, <1>8

(* The invariant holds at first and every step keeps it.                   *)
LEMMA TransportBegins ==
  ASSUME Lib!Init
  PROVE  Carried(s)
<1>1. PICK none, zero, fresh : none = <<>> /\ zero = 0 /\ fresh = Lib!Fresh
  OBVIOUS
<1>2. PICK zeros, cl : zeros = [c \in Client |-> zero] /\ cl = [c \in Client |-> fresh]
  OBVIOUS
<1>3. /\ fresh \in Connection /\ Tidy(fresh) /\ fresh.seq = 0 /\ fresh.left = 0 /\ ~fresh.open /\ ~fresh.waiting
      /\ \A n \in Nat : InOrder(fresh, n)
  BY <1>1, FreshIsTidy
<1>4. /\ zeros \in [Client -> Nat] /\ cl \in [Client -> Connection]
      /\ \A c \in Client : zeros[c] = 0 /\ cl[c] = fresh
  BY <1>1, <1>2, <1>3
<1>5. none \in Seq(Fragment)
  BY <1>1
<1>6. s = [inbox |-> none, asm |-> none, alive |-> TRUE, sent |-> zeros, deaths |-> zeros, cl |-> cl]
  BY <1>1, <1>2 DEF Lib!Init
<1>7. /\ s \in Transport /\ s.inbox = none /\ s.asm = none /\ s.alive /\ s.sent = zeros /\ s.deaths = zeros
      /\ s.cl = cl
  BY <1>4, <1>5, <1>6 DEF Transport
<1>8. Stream(none, none) /\ \A c, life, x : Linked(none, none, c, life, x, FALSE)
  BY <1>1, EmptyStream
<1>9. \A c, life : Half(none, none, c, life, fresh)
  BY <1>3 DEF Half
<1>10. \A c, life : Linked(none, none, c, life, fresh, TRUE)
  BY <1>8, <1>9 DEF Linked
<1>11. \A c, life : Linked(none, none, c, life, fresh, s.alive)
  BY <1>7, <1>10 DEF Linked
<1> QED BY <1>3, <1>4, <1>7, <1>8, <1>11 DEF Carried

(* One action after the other.                                             *)
LEMMA TransportStep ==
  ASSUME Lib!XlibConstants, Carried(s), Lib!Next
  PROVE  Carried(s')
<1>1. CASE Lib!demonx_main
  BY <1>1, ServeKeeps
<1>2. ASSUME NEW c \in Client,
             \/ Lib!XOpenDisplay(c) \/ Lib!Call(c) \/ Lib!send_packet(c) \/ Lib!receive_packet(c) \/ Lib!XNextEvent(c)
             \/ Lib!XPending(c) \/ Lib!XCheckEvent(c) \/ Lib!XMaskEvent(c) \/ Lib!Die(c) \/ Lib!Restart(c)
             \/ Lib!Native(c)
      PROVE  Carried(s')
  BY <1>2, BeginKeeps, SendKeeps, ReceiveKeeps, EventsKeep, ProcessKeeps, NativeKeeps
<1> QED BY <1>1, <1>2 DEF Lib!Next

(* What is carried is what the properties say.                             *)
LEMMA CarriedIsWhole ==
  ASSUME Carried(s)
  PROVE  Lib!MessagesAreWhole /\ Lib!EventsArriveInOrder
<1>1. Lib!MessagesAreWhole
  BY DEF Carried, Stream, Whole, Same, Lib!MessagesAreWhole
<1>2. ASSUME NEW c \in Client, NEW x, x = s.cl[c], NEW held, held = <<x.seen, x.putback, x.pending>> \o x.q,
             NEW i \in 1..Len(held), NEW j \in 1..Len(held), i < j, held[i] > 0, held[j] > 0
      PROVE  held[i] < held[j]
  <2>1. PICK n \in Nat : n = s.sent[c] /\ x \in Connection /\ InOrder(x, n)
    BY <1>2, CarriedClient
  <2>2. x.q \in Seq(Int) /\ x.seen \in Nat /\ x.putback \in Nat /\ x.pending \in Nat
    BY <2>1 DEF Connection
  <2>3. PICK slots : slots = <<x.seen, x.putback, x.pending>>
    OBVIOUS
  <2>4. slots \in Seq(Int) /\ Len(slots) = 3 /\ slots[1] = x.seen /\ slots[2] = x.putback /\ slots[3] = x.pending
    BY <2>2, <2>3
  <2>5. PICK len \in Nat : len = Len(x.q)
    BY <2>2
  <2>6. held = slots \o x.q
    BY <1>2, <2>3
  <2>7. Len(held) = 3 + len /\ \A a \in 1..3 + len : held[a] = IF a <= 3 THEN slots[a] ELSE x.q[a - 3]
    <3>1. /\ Len(slots \o x.q) = Len(slots) + Len(x.q)
          /\ \A a \in 1..Len(slots) + Len(x.q) :
               (slots \o x.q)[a] = IF a <= Len(slots) THEN slots[a] ELSE x.q[a - Len(slots)]
      BY <2>2, <2>4, ConcatProperties
    <3> QED BY <2>4, <2>5, <2>6, <3>1
  <2>8. i \in 1..3 + len /\ j \in 1..3 + len
    BY <2>7
  <2>9. \A a \in 1..3 + len : a = 1 \/ a = 2 \/ a = 3 \/ (a > 3 /\ a - 3 \in 1..len)
    BY <2>5
  <2>10. /\ i = 1 => held[i] = x.seen
         /\ i = 2 => held[i] = x.putback
         /\ i = 3 => held[i] = x.pending
         /\ i > 3 => held[i] = x.q[i - 3] /\ i - 3 \in 1..len
    BY <2>4, <2>7, <2>8, <2>9
  <2>11. /\ j = 2 => held[j] = x.putback
         /\ j = 3 => held[j] = x.pending
         /\ j > 3 => held[j] = x.q[j - 3] /\ j - 3 \in 1..len
    BY <2>4, <2>7, <2>8, <2>9
  <2>12. CASE j <= 3
    <3>1. i \in Int /\ j \in Int /\ (j = 2 \/ j = 3) /\ (i = 1 \/ i = 2)
      BY <1>2, <2>8, <2>12
    <3>2. /\ x.putback > 0 => x.seen < x.putback
          /\ x.pending > 0 => x.seen < x.pending /\ x.putback < x.pending
      BY <2>1 DEF InOrder
    <3>3. CASE i = 1 /\ j = 2
      BY <1>2, <2>10, <2>11, <3>2, <3>3
    <3>4. CASE i = 1 /\ j = 3
      BY <1>2, <2>10, <2>11, <3>2, <3>4
    <3>5. CASE i = 2 /\ j = 3
      BY <1>2, <2>10, <2>11, <3>2, <3>5
    <3>6. ~(i = 2 /\ j = 2)
      BY <1>2
    <3> QED BY <3>1, <3>3, <3>4, <3>5, <3>6
  <2>13. CASE j > 3 /\ i <= 3
    <3>1. i = 1 \/ i = 2 \/ i = 3
      BY <2>8, <2>13
    <3> QED BY <1>2, <2>1, <2>5, <2>10, <2>11, <2>13, <3>1 DEF InOrder
  <2>14. CASE j > 3 /\ i > 3
    <3>1. i - 3 < j - 3
      BY <1>2, <2>8
    <3> QED BY <1>2, <2>1, <2>5, <2>10, <2>11, <2>14, <3>1 DEF InOrder
  <2> QED BY <2>8, <2>12, <2>13, <2>14
<1>3. Lib!EventsArriveInOrder
  BY <1>2 DEF Lib!EventsArriveInOrder, Lib!IsEvent
<1> QED BY <1>1, <1>3

(* What the server puts together is the beginning of one request of one    *)
(* client, and a client's events are taken in the order they were sent     *)
(* (xlib.c, demonx_main), for every number of clients, every call, every   *)
(* depth of the channels, and however often a client dies between two      *)
(* fragments and comes back under its old id.                              *)
THEOREM MessagesStayWhole ==
  ASSUME Lib!XlibConstants
  PROVE  Lib!Spec => [](Lib!MessagesAreWhole /\ Lib!EventsArriveInOrder)
<1>1. Lib!Init => Carried(s)
  BY TransportBegins
<1>2. Carried(s) /\ [Lib!Next]_s => Carried(s)'
  <2> SUFFICES ASSUME Carried(s), [Lib!Next]_s PROVE Carried(s)'
    OBVIOUS
  <2>1. Carried(s')
    <3>1. CASE Lib!Next
      BY <3>1, TransportStep
    <3>2. CASE UNCHANGED s
      BY <3>2
    <3> QED BY <3>1, <3>2
  <2> QED BY <2>1 DEF Carried, Stream, Whole, Shaped, Ordered, Led, Reopened, Linked, Past, Half, Known, Tidy, InOrder
<1>3. Carried(s) => Lib!MessagesAreWhole /\ Lib!EventsArriveInOrder
  BY CarriedIsWhole
<1> QED BY <1>1, <1>2, <1>3, PTL DEF Lib!Spec

(***************************************************************************)
(* The init system and the hand-over of the desktop (InitUnits), for any   *)
(* number of process slots.                                                *)
(*                                                                         *)
(* Present is what keeps the compositor's pid its own: its slot is never   *)
(* free, because the shell reaps only the slot it gave to an application   *)
(* (s.app), and that one was free.  Booted is the rest of                  *)
(* DesktopIsTheCompositor for any state.                                   *)
(***************************************************************************)
CONSTANTS Pids, Graphical, APPS, PUBLISHED, CHANGES
Units == INSTANCE InitUnits WITH EVENTS <- PUBLISHED

Process == [name : {"none", "compositor", "app"}, state : {"free", "ready", "blocked", "exited"}, timer : BOOLEAN]
System == [unit : [Units!Unit -> {"inactive", "active", "failed"}], transactions : Nat, started : Nat, stopped : Nat,
           task : [Pids -> Process], at : {"shell", "app"}, app : Pids, resume : BOOLEAN,
           waiter : Pids \cup {0}, input : Nat, apps : Nat, events : Nat, changes : Nat]
Desktop(t) == t.name = "compositor" /\ t.state # "free" /\ (t.state = "blocked" => t.timer)
Present(k) == Desktop(k.task[Units!Compositor]) /\ (k.at = "app" => k.app # Units!Compositor)
Booted(k) == /\ k.transactions = k.started + k.stopped
             /\ \A u \in Units!Unit \ Units!mutable : k.unit[u] = "active"
Running(k) == k \in System /\ Present(k) /\ Booted(k)

(* A set of process slots has a first one.                                 *)
LEMMA FirstSlot ==
  ASSUME Units!InitUnitsConstants, NEW T, T \subseteq Pids, T # {}
  PROVE  (CHOOSE i \in T : \A j \in T : i <= j) \in T
<1>1. PICK n \in Nat : Pids = 1..n
  BY DEF Units!InitUnitsConstants
<1> QED BY <1>1, LeastPlace

(* The compositor has the first.                                           *)
LEMMA CompositorSlot ==
  ASSUME Units!InitUnitsConstants
  PROVE  Units!Compositor \in Pids
<1>1. Pids # {}
  BY DEF Units!InitUnitsConstants
<1> QED BY <1>1, FirstSlot DEF Units!Compositor

(* What the units depend on, and all that starting one starts.             *)
LEMMA Dependencies ==
  /\ Units!dependency[0] = 255 /\ Units!dependency[1] = 0 /\ Units!dependency[2] = 0 /\ Units!dependency[3] = 2
  /\ Units!dependency[4] = 3 /\ Units!dependency[5] = 4 /\ Units!dependency[6] = 1 /\ Units!dependency[7] = 5
  /\ Units!dependency[8] = 7 /\ Units!dependency[9] = 8
BY DEF Units!dependency, Units!Unit, Units!NO_DEPENDENCY

(* The same, by name.                                                      *)
LEMMA Chains ==
  /\ Units!Chain[0] = {0} /\ Units!Chain[1] = {0, 1} /\ Units!Chain[2] = {0, 2} /\ Units!Chain[3] = {0, 2, 3}
  /\ Units!Chain[4] = {0, 2, 3, 4} /\ Units!Chain[5] = {0, 2, 3, 4, 5} /\ Units!Chain[6] = {0, 1, 6}
  /\ Units!Chain[7] = {0, 2, 3, 4, 5, 7} /\ Units!Chain[8] = {0, 2, 3, 4, 5, 7, 8}
  /\ Units!Chain[9] = {0, 2, 3, 4, 5, 7, 8, 9}
<1> DEFINE From(f, u) == {u} \cup (IF Units!dependency[u] = Units!NO_DEPENDENCY THEN {} ELSE f[Units!dependency[u]])
<1>1. \E f : f = [u \in Units!Unit |-> From(f, u)]
  <2>1. PICK g : g = [u \in Units!Unit |->
                        IF u = 0 THEN {0} ELSE IF u = 1 THEN {0, 1} ELSE IF u = 2 THEN {0, 2}
                        ELSE IF u = 3 THEN {0, 2, 3} ELSE IF u = 4 THEN {0, 2, 3, 4}
                        ELSE IF u = 5 THEN {0, 2, 3, 4, 5} ELSE IF u = 6 THEN {0, 1, 6}
                        ELSE IF u = 7 THEN {0, 2, 3, 4, 5, 7} ELSE IF u = 8 THEN {0, 2, 3, 4, 5, 7, 8}
                        ELSE {0, 2, 3, 4, 5, 7, 8, 9}]
    OBVIOUS
  <2>2. /\ g[0] = {0} /\ g[1] = {0, 1} /\ g[2] = {0, 2} /\ g[3] = {0, 2, 3} /\ g[4] = {0, 2, 3, 4}
        /\ g[5] = {0, 2, 3, 4, 5} /\ g[6] = {0, 1, 6} /\ g[7] = {0, 2, 3, 4, 5, 7}
        /\ g[8] = {0, 2, 3, 4, 5, 7, 8} /\ g[9] = {0, 2, 3, 4, 5, 7, 8, 9}
    BY <2>1 DEF Units!Unit
  <2>3. \A u \in Units!Unit : u = 0 \/ u = 1 \/ u = 2 \/ u = 3 \/ u = 4 \/ u = 5 \/ u = 6 \/ u = 7 \/ u = 8 \/ u = 9
    BY DEF Units!Unit
  <2>4. ASSUME NEW u \in Units!Unit PROVE g[u] = From(g, u)
    BY <2>2, <2>3, Dependencies DEF Units!NO_DEPENDENCY
  <2>5. g = [u \in Units!Unit |-> g[u]]
    BY <2>1
  <2>6. g = [u \in Units!Unit |-> From(g, u)]
    BY <2>4, <2>5
  <2> QED BY <2>6
<1>2. Units!Chain = [u \in Units!Unit |-> From(Units!Chain, u)]
  BY <1>1, Zenon DEF Units!Chain
<1>3. \A u \in Units!Unit : Units!Chain[u] = From(Units!Chain, u)
  BY <1>2
<1>4. 0 \in Units!Unit /\ 1 \in Units!Unit /\ 2 \in Units!Unit /\ 3 \in Units!Unit /\ 4 \in Units!Unit
      /\ 5 \in Units!Unit /\ 6 \in Units!Unit /\ 7 \in Units!Unit /\ 8 \in Units!Unit /\ 9 \in Units!Unit
  BY DEF Units!Unit
<1>5. Units!Chain[0] = {0}
  BY <1>3, <1>4, Dependencies DEF Units!NO_DEPENDENCY
<1>6. Units!Chain[1] = {0, 1} /\ Units!Chain[2] = {0, 2}
  BY <1>3, <1>4, <1>5, Dependencies DEF Units!NO_DEPENDENCY
<1>7. Units!Chain[3] = {0, 2, 3} /\ Units!Chain[6] = {0, 1, 6}
  BY <1>3, <1>4, <1>6, Dependencies DEF Units!NO_DEPENDENCY
<1>8. Units!Chain[4] = {0, 2, 3, 4}
  BY <1>3, <1>4, <1>7, Dependencies DEF Units!NO_DEPENDENCY
<1>9. Units!Chain[5] = {0, 2, 3, 4, 5}
  BY <1>3, <1>4, <1>8, Dependencies DEF Units!NO_DEPENDENCY
<1>10. Units!Chain[7] = {0, 2, 3, 4, 5, 7}
  BY <1>3, <1>4, <1>9, Dependencies DEF Units!NO_DEPENDENCY
<1>11. Units!Chain[8] = {0, 2, 3, 4, 5, 7, 8}
  BY <1>3, <1>4, <1>10, Dependencies DEF Units!NO_DEPENDENCY
<1>12. Units!Chain[9] = {0, 2, 3, 4, 5, 7, 8, 9}
  BY <1>3, <1>4, <1>11, Dependencies DEF Units!NO_DEPENDENCY
<1> QED BY <1>5, <1>6, <1>7, <1>8, <1>9, <1>10, <1>11, <1>12

(* They are units.                                                         *)
LEMMA ChainIsUnits ==
  ASSUME NEW u \in Units!Unit
  PROVE  Units!Chain[u] \in SUBSET Units!Unit
<1>1. u = 0 \/ u = 1 \/ u = 2 \/ u = 3 \/ u = 4 \/ u = 5 \/ u = 6 \/ u = 7 \/ u = 8 \/ u = 9
  BY DEF Units!Unit
<1> QED BY <1>1, Chains DEF Units!Unit

(* The instance counts a set as FiniteSets does.                           *)
LEMMA UnitsCount == \A S : Units!Cardinality(S) = Cardinality(S)
BY DEF Units!Cardinality, Cardinality

(* What start_index starts, if the compositor's unit does not fail.        *)
Todo(k, u) == {v \in Units!Chain[u] : \A w \in Units!Chain[u] : k.unit[w] = "active" => v \notin Units!Chain[w]}
Started(k, u, r, n) ==
  /\ r \in System /\ r.task = k.task /\ r.at = k.at /\ r.app = k.app /\ r.stopped = k.stopped
  /\ r.transactions = k.transactions + n /\ r.started = k.started + n
  /\ \A v \in Units!Unit : r.unit[v] = IF v \in Todo(k, u) THEN "active" ELSE k.unit[v]

(* It starts them all, and the journal counts them.                        *)
LEMMA StartStarts ==
  ASSUME NEW k \in System, NEW u \in Units!Unit, 8 \notin Units!Chain[u] \/ ~Units!Alone(k),
         NEW r, r = Units!start_index(k, u)
  PROVE  \E n \in Nat : Started(k, u, r, n)
<1>1. PICK todo : todo = Todo(k, u)
  OBVIOUS
<1>2. todo \subseteq Units!Unit
  BY <1>1, ChainIsUnits DEF Todo
<1>3. IsFiniteSet(todo)
  <2>1. IsFiniteSet(Units!Unit)
    <3>1. 0 \in Int /\ 9 \in Int
      OBVIOUS
    <3>2. IsFiniteSet(0..9)
      BY <3>1, FS_Interval, Zenon
    <3> QED BY <3>2 DEF Units!Unit
  <2> QED BY <1>2, <2>1, FS_Subset
<1>4. PICK n \in Nat : n = Units!Cardinality(todo)
  BY <1>3, FS_CardinalityType, UnitsCount
<1>5. (IF 8 \in todo /\ Units!Alone(k) THEN {v \in todo : 8 \in Units!Chain[v]} ELSE {}) = {}
  BY <1>1 DEF Todo
<1>6. PICK unit : unit = [v \in Units!Unit |-> IF v \in todo THEN "active" ELSE k.unit[v]]
  OBVIOUS
<1>7. unit \in [Units!Unit -> {"inactive", "active", "failed"}]
  BY <1>6 DEF System
<1>8. r = [k EXCEPT !.unit = unit, !.transactions = k.transactions + n, !.started = k.started + n]
  <2>1. PICK failed : failed = {} /\ failed = IF 8 \in todo /\ Units!Alone(k) THEN {v \in todo : 8 \in Units!Chain[v]} ELSE {}
    BY <1>5
  <2>2. todo \ failed = todo
    BY <2>1
  <2>3. r = [k EXCEPT !.unit = [v \in Units!Unit |-> IF v \in failed THEN "failed"
                                                     ELSE IF v \in todo \ failed THEN "active" ELSE @[v]],
                      !.transactions = @ + Units!Cardinality(todo \ failed),
                      !.started = @ + Units!Cardinality(todo \ failed)]
    BY <1>1, <2>1 DEF Units!start_index, Todo
  <2>4. unit = [v \in Units!Unit |-> IF v \in failed THEN "failed" ELSE IF v \in todo \ failed THEN "active" ELSE k.unit[v]]
    BY <1>6, <2>1, <2>2
  <2> QED BY <1>4, <2>2, <2>3, <2>4 DEF System
<1>9. PICK transactions, started \in Nat : transactions = k.transactions + n /\ started = k.started + n
  BY DEF System
<1>10. /\ r \in System /\ r.task = k.task /\ r.at = k.at /\ r.app = k.app /\ r.stopped = k.stopped
       /\ r.transactions = transactions /\ r.started = started /\ r.unit = unit
  <2>1. PICK a, b : a = [k EXCEPT !.unit = unit] /\ b = [a EXCEPT !.transactions = transactions]
    OBVIOUS
  <2>2. /\ a \in System /\ a.unit = unit /\ a.task = k.task /\ a.at = k.at /\ a.app = k.app /\ a.stopped = k.stopped
        /\ a.started = k.started
    BY <1>7, <2>1 DEF System
  <2>3. /\ b \in System /\ b.unit = unit /\ b.task = k.task /\ b.at = k.at /\ b.app = k.app /\ b.stopped = k.stopped
        /\ b.transactions = transactions
    BY <1>9, <2>1, <2>2 DEF System
  <2>4. r = [b EXCEPT !.started = started]
    BY <1>8, <1>9, <2>1
  <2> QED BY <1>9, <2>3, <2>4 DEF System
<1>11. Started(k, u, r, n)
  BY <1>1, <1>6, <1>9, <1>10 DEF Started
<1> QED BY <1>11

(* The same units and processes.                                           *)
Unmoved(k, d) ==
  /\ d \in System /\ d.unit = k.unit /\ d.transactions = k.transactions /\ d.started = k.started
  /\ d.stopped = k.stopped /\ d.task = k.task /\ (d.at = "app" => k.at = "app" /\ d.app = k.app)

(* A step that changes neither units nor processes.                        *)
LEMMA UnmovedRuns ==
  ASSUME NEW k, Running(k), NEW d, Unmoved(k, d)
  PROVE  Running(d)
BY DEF Unmoved, Running, Present, Booted

(* A process changes.                                                      *)
Retasked(k, p, t) == [k EXCEPT !.task[p] = t]

(* The compositor stays what it is.                                        *)
LEMMA RetaskRuns ==
  ASSUME Units!InitUnitsConstants, NEW k, Running(k), NEW p \in Pids, NEW t \in Process,
         p = Units!Compositor => Desktop(t), NEW d, d = Retasked(k, p, t)
  PROVE  /\ Running(d) /\ d.waiter = k.waiter /\ d.at = k.at /\ d.app = k.app /\ d.resume = k.resume /\ d.input = k.input
         /\ d.events = k.events /\ d.apps = k.apps
<1>1. k \in System /\ k.task \in [Pids -> Process] /\ Units!Compositor \in Pids
  BY CompositorSlot DEF Running, System
<1>2. PICK task : task = [k.task EXCEPT ![p] = t]
  OBVIOUS
<1>3. task \in [Pids -> Process] /\ task[p] = t /\ \A q \in Pids : q # p => task[q] = k.task[q]
  BY <1>1, <1>2
<1>4. d = [k EXCEPT !.task = task]
  BY <1>1, <1>2 DEF Retasked, System
<1>5. /\ d \in System /\ d.task = task /\ d.unit = k.unit /\ d.transactions = k.transactions /\ d.started = k.started
      /\ d.stopped = k.stopped /\ d.at = k.at /\ d.app = k.app /\ d.waiter = k.waiter /\ d.resume = k.resume
      /\ d.input = k.input /\ d.events = k.events /\ d.apps = k.apps
  BY <1>1, <1>3, <1>4 DEF System
<1>6. Desktop(task[Units!Compositor])
  BY <1>1, <1>3 DEF Running, Present
<1>7. Present(d) /\ Booted(d)
  BY <1>5, <1>6 DEF Running, Present, Booted
<1> QED BY <1>5, <1>7 DEF Running

(* The last of two changes counts.                                         *)
LEMMA RetaskTwice ==
  ASSUME NEW k \in System, NEW p \in Pids, NEW u, NEW t
  PROVE  Retasked(Retasked(k, p, u), p, t) = Retasked(k, p, t)
<1>1. PICK task : task = [k.task EXCEPT ![p] = u]
  OBVIOUS
<1>2. k.task = [q \in Pids |-> k.task[q]] /\ k.task \in [Pids -> Process]
  BY DEF System
<1>3. [task EXCEPT ![p] = t] = [k.task EXCEPT ![p] = t]
  BY <1>1, <1>2
<1>4. PICK e : e = [k EXCEPT !.task = task]
  OBVIOUS
<1>5. e = Retasked(k, p, u) /\ e.task = task
  BY <1>1, <1>4 DEF Retasked, System
<1>6. Retasked(e, p, t) = [e EXCEPT !.task = [task EXCEPT ![p] = t]]
  BY <1>5 DEF Retasked
<1>7. PICK last : last = [k.task EXCEPT ![p] = t]
  OBVIOUS
<1>8. Retasked(e, p, t) = [k EXCEPT !.task = last]
  BY <1>3, <1>4, <1>6, <1>7 DEF System
<1>9. Retasked(k, p, t) = [k EXCEPT !.task = last]
  BY <1>7 DEF Retasked
<1> QED BY <1>5, <1>8, <1>9

(* A task is woken (scheduler_wake).                                       *)
LEMMA WakeRuns ==
  ASSUME NEW t \in Process, NEW u, u = Units!scheduler_wake(t)
  PROVE  u \in Process /\ (Desktop(t) => Desktop(u))
<1>1. CASE t.state = "blocked"
  <2>1. PICK v : v = [t EXCEPT !.state = "ready"]
    OBVIOUS
  <2>2. v \in Process /\ v.name = t.name /\ v.state = "ready"
    BY <2>1 DEF Process
  <2>3. u = [v EXCEPT !.timer = FALSE]
    BY <1>1, <2>1 DEF Units!scheduler_wake, Process
  <2>4. u \in Process /\ u.name = t.name /\ u.state = "ready"
    BY <2>2, <2>3 DEF Process
  <2> QED BY <2>4 DEF Desktop
<1>2. CASE t.state # "blocked"
  BY <1>2 DEF Units!scheduler_wake
<1> QED BY <1>1, <1>2

(* Somebody else waits for input, or nobody.                               *)
Waited(k, w) == [k EXCEPT !.waiter = w]

(* That changes nothing else.                                              *)
LEMMA WaitedRuns ==
  ASSUME NEW k, Running(k), NEW w \in Pids \cup {0}, NEW d, d = Waited(k, w)
  PROVE  /\ Running(d) /\ d.task = k.task /\ d.at = k.at /\ d.app = k.app /\ d.resume = k.resume /\ d.input = k.input
         /\ d.events = k.events /\ d.apps = k.apps
<1>1. k \in System
  BY DEF Running
<1>2. Unmoved(k, d) /\ d.at = k.at /\ d.app = k.app /\ d.resume = k.resume /\ d.input = k.input
      /\ d.events = k.events /\ d.apps = k.apps
  BY <1>1 DEF Waited, System, Unmoved
<1> QED BY <1>2, UnmovedRuns DEF Unmoved

(* A task ends (Exit).                                                     *)
LEMMA ExitRuns ==
  ASSUME Units!InitUnitsConstants, NEW k, Running(k), NEW p \in Pids, NEW d, d = Units!Exit(k, p)
  PROVE  Running(d)
<1>1. k \in System /\ k.task \in [Pids -> Process] /\ k.task[p] \in Process
  BY DEF Running, System
<1>2. PICK u, t : u = [k.task[p] EXCEPT !.state = "exited"] /\ t = [u EXCEPT !.timer = FALSE]
  OBVIOUS
<1>3. u \in Process /\ u.name = k.task[p].name /\ u.state = "exited"
  BY <1>1, <1>2 DEF Process
<1>4. t \in Process /\ t.name = k.task[p].name /\ t.state = "exited"
  BY <1>2, <1>3 DEF Process
<1>5. p = Units!Compositor => Desktop(u) /\ Desktop(t)
  BY <1>3, <1>4 DEF Running, Present, Desktop
<1>6. PICK a, b : a = Retasked(k, p, u) /\ b = Retasked(a, p, t)
  OBVIOUS
<1>7. Running(a) /\ a.task[p] = u
  <2>1. Running(a)
    BY <1>3, <1>5, <1>6, RetaskRuns
  <2> QED BY <1>1, <1>6, <2>1 DEF Retasked, System
<1>8. Running(b)
  BY <1>4, <1>5, <1>6, <1>7, RetaskRuns
<1>9. PICK w \in Pids \cup {0} : w = IF b.waiter = p THEN 0 ELSE b.waiter
  BY <1>8 DEF Running, System
<1>10. d = Waited(b, w)
  <2>1. a = [k EXCEPT !.task[p].state = "exited"]
    BY <1>2, <1>6 DEF Retasked
  <2>2. b = [a EXCEPT !.task[p].timer = FALSE]
    BY <1>2, <1>6, <1>7 DEF Retasked
  <2>3. d = [b EXCEPT !.waiter = IF @ = p THEN 0 ELSE @]
    BY <2>1, <2>2 DEF Units!Exit, Units!Nobody
  <2> QED BY <1>9, <2>3 DEF Waited
<1> QED BY <1>8, <1>10, WaitedRuns

(* A unit is started or stopped.                                           *)
LEMMA UnitRuns ==
  ASSUME NEW k, Running(k), NEW u \in Units!Unit,
         NEW d, d = Units!init_system_start(k, u) \/ d = Units!init_system_stop(k, u)
  PROVE  Running(d)
<1>1. k \in System /\ Booted(k)
  BY DEF Running
<1>2. CASE d = k
  BY <1>2
<1>3. CASE d = Units!start_index(k, u) /\ u \in Units!mutable
  <2>1. u = 4 /\ 8 \notin Units!Chain[u]
    BY <1>3, Chains DEF Units!mutable
  <2>2. PICK n \in Nat : Started(k, u, d, n)
    BY <1>1, <1>3, <2>1, StartStarts
  <2>3. d.transactions = d.started + d.stopped
    BY <1>1, <2>2 DEF Started, Booted, System
  <2>4. \A v \in Units!Unit \ Units!mutable : d.unit[v] = "active"
    BY <1>1, <2>2 DEF Started, Booted
  <2> QED BY <2>2, <2>3, <2>4 DEF Running, Present, Booted, Started
<1>4. CASE /\ d = [k EXCEPT !.unit[u] = "inactive", !.stopped = @ + 1, !.transactions = @ + 1]
           /\ u \in Units!mutable
  <2>1. PICK unit, stopped, transactions : /\ unit = [k.unit EXCEPT ![u] = "inactive"]
                                           /\ stopped = k.stopped + 1 /\ transactions = k.transactions + 1
    OBVIOUS
  <2>2. /\ unit \in [Units!Unit -> {"inactive", "active", "failed"}] /\ stopped \in Nat /\ transactions \in Nat
        /\ \A v \in Units!Unit \ Units!mutable : unit[v] = "active"
        /\ transactions = k.started + stopped
    BY <1>1, <1>4, <2>1 DEF System, Booted
  <2>3. d = [k EXCEPT !.unit = unit, !.stopped = stopped, !.transactions = transactions]
    BY <1>1, <1>4, <2>1 DEF System
  <2>4. /\ d \in System /\ d.unit = unit /\ d.stopped = stopped /\ d.transactions = transactions /\ d.started = k.started
        /\ d.task = k.task /\ d.at = k.at /\ d.app = k.app
    BY <1>1, <2>2, <2>3 DEF System
  <2> QED BY <2>2, <2>4 DEF Running, Present, Booted
<1> QED BY <1>2, <1>3, <1>4, Zenon DEF Units!init_system_start, Units!init_system_stop

(* Back at the prompt (Return).                                            *)
LEMMA ReturnRuns ==
  ASSUME Units!InitUnitsConstants, NEW k, Running(k), NEW d, d = Units!Return(k)
  PROVE  Running(d)
<1>1. k \in System /\ Units!Compositor \in Pids
  BY CompositorSlot DEF Running
<1>2. PICK e, zero : zero = 0 /\ e = [k EXCEPT !.input = zero, !.at = "shell"]
  OBVIOUS
<1>3. Unmoved(k, e) /\ e.resume = k.resume
  BY <1>1, <1>2 DEF Unmoved, System
<1>4. Running(e)
  BY <1>3, UnmovedRuns
<1>5. d = Units!Resume(e)
  BY <1>2 DEF Units!Return
<1>6. CASE d = e
  BY <1>4, <1>6
<1>7. CASE d = [e EXCEPT !.task[Units!Compositor] = Units!scheduler_wake(@)]
  <2>1. PICK t, u : t = e.task[Units!Compositor] /\ u = Units!scheduler_wake(t)
    OBVIOUS
  <2>2. t \in Process /\ Desktop(t)
    BY <1>1, <1>4, <2>1 DEF Running, Present, System
  <2>3. u \in Process /\ Desktop(u)
    BY <2>1, <2>2, WakeRuns
  <2>4. d = Retasked(e, Units!Compositor, u)
    BY <1>7, <2>1 DEF Retasked
  <2> QED BY <1>1, <1>4, <2>3, <2>4, RetaskRuns
<1> QED BY <1>5, <1>6, <1>7, Zenon DEF Units!Resume

(* The shell starts an application (launch_app).                           *)
LEMMA LaunchRuns ==
  ASSUME Units!InitUnitsConstants, Running(s), Units!launch_app
  PROVE  Running(s')
<1>1. s \in System /\ s.task \in [Pids -> Process] /\ Units!Compositor \in Pids
  BY CompositorSlot DEF Running, System
<1>2. PICK e : e = Units!Suspend(s)
  OBVIOUS
<1>3. Running(e) /\ e.task = s.task
  <2>1. e = s \/ e = Waited(s, 0)
    BY <1>2 DEF Units!Suspend, Units!Nobody, Waited
  <2> QED BY <2>1, WaitedRuns
<1>4. PICK on \in BOOLEAN : on = (Units!init_system_desktop_active(s) /\ ~Graphical)
  OBVIOUS
<1>5. PICK k : k = [e EXCEPT !.resume = on, !.input = 0, !.apps = @ + 1]
  OBVIOUS
<1>6. Running(k) /\ k.task = s.task
  <2>1. e \in System
    BY <1>3 DEF Running
  <2>2. PICK zero, apps \in Nat : zero = 0 /\ apps = e.apps + 1
    BY <2>1 DEF System
  <2>3. k = [e EXCEPT !.resume = on, !.input = zero, !.apps = apps]
    BY <1>5, <2>1, <2>2 DEF System
  <2>4. Unmoved(e, k)
    BY <2>1, <2>2, <2>3 DEF Unmoved, System
  <2> QED BY <1>3, <2>4, UnmovedRuns DEF Unmoved
<1>7. PICK free : free = {p \in Pids : s.task[p].state = "free"}
  OBVIOUS
<1>8. CASE s' = Units!Return(k)
  BY <1>6, <1>8, ReturnRuns
<1>9. ASSUME NEW p \in free,
             s' = [k EXCEPT !.task[p] = [name |-> "app", state |-> "ready", timer |-> FALSE], !.app = p, !.at = "app"]
      PROVE  Running(s')
  <2>1. PICK t : t = [name |-> "app", state |-> "ready", timer |-> FALSE]
    OBVIOUS
  <2>2. t \in Process
    BY <2>1 DEF Process
  <2>3. p \in Pids /\ p # Units!Compositor
    BY <1>7, <1>9 DEF Running, Present, Desktop
  <2>4. PICK d : d = Retasked(k, p, t)
    OBVIOUS
  <2>5. Running(d)
    BY <1>6, <2>2, <2>3, <2>4, RetaskRuns
  <2>6. d \in System
    BY <2>5 DEF Running
  <2>7. s' = [d EXCEPT !.app = p, !.at = "app"]
    <3>1. k \in System
      BY <1>6 DEF Running
    <3> QED BY <1>9, <2>1, <2>4, <3>1 DEF Retasked, System
  <2>8. /\ s' \in System /\ s'.task = d.task /\ s'.unit = d.unit /\ s'.transactions = d.transactions
        /\ s'.started = d.started /\ s'.stopped = d.stopped /\ s'.app = p
    BY <2>3, <2>6, <2>7 DEF System
  <2> QED BY <2>3, <2>5, <2>8 DEF Running, Present, Booted
<1>10. CASE free # {}
  <2>1. PICK p : p = CHOOSE q \in free : \A r \in free : q <= r
    OBVIOUS
  <2>2. p \in free
    <3>1. free \subseteq Pids
      BY <1>7
    <3> QED BY <1>10, <2>1, <3>1, FirstSlot
  <2>3. s' = [k EXCEPT !.task[p] = [name |-> "app", state |-> "ready", timer |-> FALSE], !.app = p, !.at = "app"]
    BY <1>2, <1>4, <1>5, <1>7, <1>10, <2>1, Zenon DEF Units!launch_app
  <2> QED BY <1>9, <2>2, <2>3
<1>11. CASE free = {}
  <2>1. s' = Units!Return(k)
    BY <1>2, <1>4, <1>5, <1>7, <1>11, Zenon DEF Units!launch_app
  <2> QED BY <1>8, <2>1
<1> QED BY <1>10, <1>11

(* userspace_run_init is over (Back).                                      *)
LEMMA BackRuns ==
  ASSUME Units!InitUnitsConstants, Running(s), Units!Back
  PROVE  Running(s')
<1>1. s \in System /\ s.app \in Pids /\ s.app # Units!Compositor
  BY DEF Running, System, Present, Units!Back
<1>2. CASE s' = Units!Return(s)
  BY <1>2, ReturnRuns
<1>3. CASE s' = Units!Return([s EXCEPT !.task[s.app] = Units!Free])
  <2>1. PICK t, d : t = Units!Free /\ d = Retasked(s, s.app, t)
    OBVIOUS
  <2>2. t \in Process
    BY <2>1 DEF Units!Free, Process
  <2>3. Running(d)
    BY <1>1, <2>1, <2>2, RetaskRuns
  <2>4. s' = Units!Return(d)
    BY <1>3, <2>1 DEF Retasked
  <2> QED BY <2>3, <2>4, ReturnRuns
<1> QED BY <1>2, <1>3, Zenon DEF Units!Back

(* A task runs (Run).                                                      *)
LEMMA TaskRuns ==
  ASSUME Units!InitUnitsConstants, Running(s), NEW p \in Pids, Units!Run(p)
  PROVE  Running(s')
<1>1. s \in System /\ s.task \in [Pids -> Process] /\ s.task[p] \in Process
  BY DEF Running, System
<1>2. CASE s.input > 0 /\ s' = [s EXCEPT !.input = @ - 1]
  <2>1. PICK input \in Nat : input = s.input - 1
    BY <1>1, <1>2 DEF System
  <2>2. s' = [s EXCEPT !.input = input]
    BY <1>2, <2>1
  <2>3. Unmoved(s, s')
    BY <1>1, <2>1, <2>2 DEF Unmoved, System
  <2> QED BY <2>3, UnmovedRuns
<1>3. CASE s' = [s EXCEPT !.waiter = p, !.task[p].state = "blocked", !.task[p].timer = s.task[p].name = "compositor"]
  <2>1. PICK on \in BOOLEAN : on = (s.task[p].name = "compositor")
    OBVIOUS
  <2>2. PICK u, t : u = [s.task[p] EXCEPT !.state = "blocked"] /\ t = [u EXCEPT !.timer = on]
    OBVIOUS
  <2>3. u \in Process /\ u.name = s.task[p].name /\ u.state = "blocked"
    BY <1>1, <2>2 DEF Process
  <2>4. t \in Process /\ t.name = u.name /\ t.state = u.state /\ t.timer = on
    BY <2>2, <2>3 DEF Process
  <2>5. p = Units!Compositor => Desktop(t)
    BY <2>1, <2>3, <2>4 DEF Running, Present, Desktop
  <2>6. PICK k : k = Waited(s, p)
    OBVIOUS
  <2>7. Running(k) /\ k.task = s.task
    BY <2>6, WaitedRuns
  <2>8. PICK a : a = Retasked(k, p, u)
    OBVIOUS
  <2>9. s' = Retasked(a, p, t)
    <3>1. s' = [s EXCEPT !.waiter = p, !.task[p].state = "blocked", !.task[p].timer = on]
      BY <1>3, <2>1, Zenon
    <3>2. a = [k EXCEPT !.task[p].state = "blocked"]
      BY <2>2, <2>7, <2>8 DEF Retasked
    <3>3. s' = [a EXCEPT !.task[p].timer = on]
      BY <2>6, <3>1, <3>2 DEF Waited
    <3>4. a.task[p] = u
      BY <1>1, <2>7, <2>8 DEF Retasked, Running, System
    <3> QED BY <2>2, <3>3, <3>4 DEF Retasked
  <2>10. s' = Retasked(k, p, t)
    BY <2>7, <2>8, <2>9, RetaskTwice DEF Running
  <2> QED BY <2>4, <2>5, <2>7, <2>10, RetaskRuns
<1>4. CASE s' = Units!Exit(s, p)
  BY <1>4, ExitRuns
<1> QED BY <1>2, <1>3, <1>4 DEF Units!Run

(* A waiting task is woken: by an event or its deadline.                   *)
LEMMA WakeupRuns ==
  ASSUME Units!InitUnitsConstants, Running(s), Units!input_publish \/ \E p \in Pids : Units!Deadline(p)
  PROVE  Running(s')
<1>1. s \in System /\ s.task \in [Pids -> Process] /\ s.waiter \in Pids \cup {0}
  BY DEF Running, System
<1>2. ASSUME NEW k, Running(k), NEW p \in Pids, NEW w \in Pids \cup {0}, NEW d,
             d = [k EXCEPT !.task[p] = Units!scheduler_wake(k.task[p]), !.waiter = w]
      PROVE  Running(d)
  <2>1. k \in System /\ k.task[p] \in Process
    BY <1>2 DEF Running, System
  <2>2. PICK t : t = Units!scheduler_wake(k.task[p])
    OBVIOUS
  <2>3. t \in Process /\ (p = Units!Compositor => Desktop(t))
    BY <1>2, <2>1, <2>2, WakeRuns DEF Running, Present
  <2>4. PICK e : e = Retasked(k, p, t)
    OBVIOUS
  <2>5. Running(e)
    BY <1>2, <2>3, <2>4, RetaskRuns
  <2>6. d = Waited(e, w)
    BY <1>2, <2>1, <2>2, <2>4 DEF Retasked, Waited, System
  <2> QED BY <1>2, <2>5, <2>6, WaitedRuns
<1>3. CASE \E p \in Pids : Units!Deadline(p)
  <2>1. PICK p \in Pids : Units!Deadline(p)
    BY <1>3
  <2>2. PICK w \in Pids \cup {0} : w = IF s.waiter = p THEN 0 ELSE s.waiter
    BY <1>1
  <2>3. s' = [s EXCEPT !.task[p] = Units!scheduler_wake(s.task[p]), !.waiter = w]
    <3>1. s' = [s EXCEPT !.task[p] = Units!scheduler_wake(@), !.waiter = IF @ = p THEN Units!Nobody ELSE @]
      BY <2>1 DEF Units!Deadline
    <3> QED BY <2>2, <3>1 DEF Units!Nobody
  <2> QED BY <1>2, <2>3
<1>4. CASE Units!input_publish
  <2>1. PICK events \in Nat : events = s.events + 1
    BY <1>1 DEF System
  <2>2. PICK k : k = [s EXCEPT !.events = events]
    OBVIOUS
  <2>3. Unmoved(s, k) /\ k.input = s.input
    BY <1>1, <2>1, <2>2 DEF Unmoved, System
  <2>4. Running(k) /\ k.task = s.task /\ k \in System
    BY <2>3, UnmovedRuns DEF Unmoved
  <2>5. CASE s.waiter = 0
    <3>1. PICK input \in Nat : input = s.input + 1
      BY <1>1 DEF System
    <3>2. s' = [k EXCEPT !.input = input]
      BY <1>1, <1>4, <2>1, <2>2, <2>3, <2>5, <3>1 DEF Units!input_publish, Units!Nobody
    <3>3. Unmoved(k, s')
      BY <2>4, <3>1, <3>2 DEF Unmoved, System
    <3> QED BY <2>4, <3>3, UnmovedRuns
  <2>6. CASE s.waiter # 0
    <3>1. PICK p \in Pids : p = s.waiter
      BY <1>1, <2>6
    <3>2. PICK zero \in Pids \cup {0} : zero = 0
      OBVIOUS
    <3>3. s' = [k EXCEPT !.waiter = zero, !.task[p] = Units!scheduler_wake(k.task[p])]
      <4>1. s' = [[s EXCEPT !.events = @ + 1] EXCEPT !.waiter = Units!Nobody, !.task[s.waiter] = Units!scheduler_wake(@)]
        BY <1>4, <2>6 DEF Units!input_publish, Units!Nobody
      <4> QED BY <2>1, <2>2, <3>1, <3>2, <4>1 DEF Units!Nobody
    <3>4. s' = [k EXCEPT !.task[p] = Units!scheduler_wake(k.task[p]), !.waiter = zero]
      BY <2>4, <3>3 DEF System
    <3> QED BY <1>2, <2>4, <3>4
  <2> QED BY <2>5, <2>6
<1> QED BY <1>3, <1>4

(* A unit is changed (runit_mutate).                                       *)
LEMMA MutateRuns ==
  ASSUME Running(s), Units!runit_mutate
  PROVE  Running(s')
<1>1. PICK k, u : /\ s' = [k EXCEPT !.changes = @ + 1] /\ u \in Units!Unit
                  /\ \/ k = Units!init_system_start(s, u) \/ k = Units!init_system_stop(s, u)
                     \/ k = Units!init_system_restart(s, u)
  <2>1. PICK u \in Units!Unit, op \in {"start", "stop", "restart"} :
          s' = [(CASE op = "start" -> Units!init_system_start(s, u) [] op = "stop" -> Units!init_system_stop(s, u)
                   [] OTHER -> Units!init_system_restart(s, u)) EXCEPT !.changes = @ + 1]
    BY Zenon DEF Units!runit_mutate
  <2>2. op = "start" \/ op = "stop" \/ op = "restart"
    OBVIOUS
  <2> QED BY <2>1, <2>2
<1>2. Running(k)
  <2>1. PICK d : d = Units!init_system_stop(s, u)
    OBVIOUS
  <2>2. Running(d)
    BY <1>1, <2>1, UnitRuns
  <2>3. k = Units!init_system_restart(s, u) => k = Units!init_system_start(d, u)
    BY <2>1 DEF Units!init_system_restart
  <2> QED BY <1>1, <2>1, <2>2, <2>3, UnitRuns
<1>3. k \in System
  BY <1>2 DEF Running
<1>4. PICK changes \in Nat : changes = k.changes + 1
  BY <1>3 DEF System
<1>5. s' = [k EXCEPT !.changes = changes]
  BY <1>1, <1>4
<1>6. Unmoved(k, s')
  BY <1>3, <1>4, <1>5 DEF Unmoved, System
<1> QED BY <1>2, <1>6, UnmovedRuns

(* The boot reaches its target (init_system_reach_boot_target).            *)
LEMMA BootRuns ==
  ASSUME Units!InitUnitsConstants, Units!Init
  PROVE  Running(s)
<1>1. PICK k, c, zero : k = Units!init_system_init /\ c = Units!Compositor /\ zero = 0
  OBVIOUS
<1>2. c \in Pids
  BY <1>1, CompositorSlot
<1>3. PICK unit, task : /\ unit = [u \in Units!Unit |-> "inactive"]
                        /\ task = [p \in Pids |-> IF p = c
                                     THEN [name |-> "compositor", state |-> "blocked", timer |-> TRUE] ELSE Units!Free]
  OBVIOUS
<1>4. unit \in [Units!Unit -> {"inactive", "active", "failed"}] /\ task \in [Pids -> Process] /\ Desktop(task[c])
      /\ task[c].state = "blocked" /\ \A u \in Units!Unit : unit[u] = "inactive"
  <2>1. Units!Free \in Process
    BY DEF Units!Free, Process
  <2>2. PICK t : t = [name |-> "compositor", state |-> "blocked", timer |-> TRUE]
    OBVIOUS
  <2>3. t \in Process /\ Desktop(t) /\ t.state = "blocked"
    BY <2>2 DEF Process, Desktop
  <2> QED BY <1>2, <1>3, <2>1, <2>2, <2>3
<1>5. k = [unit |-> unit, transactions |-> zero, started |-> zero, stopped |-> zero, task |-> task, at |-> "shell",
           app |-> c, resume |-> FALSE, waiter |-> c, input |-> zero, apps |-> zero, events |-> zero, changes |-> zero]
  BY <1>1, <1>3 DEF Units!init_system_init
<1>6. /\ k \in System /\ k.unit = unit /\ k.task = task /\ k.at = "shell" /\ k.transactions = zero /\ k.started = zero
      /\ k.stopped = zero
  BY <1>1, <1>2, <1>4, <1>5 DEF System
<1>7. \A d : d.task = task => ~Units!Alone(d)
  BY <1>1, <1>4 DEF Units!Alone, Units!Alive, Desktop
<1>8. 7 \in Units!Unit /\ 6 \in Units!Unit /\ 9 \in Units!Unit
  BY DEF Units!Unit
<1>9. PICK k1, k2, k3 : /\ k1 = Units!start_index(k, 7) /\ k2 = Units!start_index(k1, 6)
                        /\ k3 = Units!start_index(k2, 9)
  OBVIOUS
<1>10. PICK n1 \in Nat : Started(k, 7, k1, n1)
  BY <1>6, <1>7, <1>8, <1>9, StartStarts
<1>11. PICK n2 \in Nat : Started(k1, 6, k2, n2)
  <2>1. k1 \in System /\ k1.task = task
    BY <1>6, <1>10 DEF Started
  <2> QED BY <1>7, <1>8, <1>9, <2>1, StartStarts
<1>12. PICK n3 \in Nat : Started(k2, 9, k3, n3)
  <2>1. k2 \in System /\ k2.task = task
    BY <1>6, <1>10, <1>11 DEF Started
  <2> QED BY <1>7, <1>8, <1>9, <2>1, StartStarts
<1>13. s = k3
  BY <1>1, <1>9 DEF Units!Init, Units!init_system_reach_boot_target
<1>14. k3 \in System /\ k3.task = task /\ k3.at = "shell"
  BY <1>6, <1>10, <1>11, <1>12 DEF Started
<1>15. k3.transactions = k3.started + k3.stopped
  BY <1>1, <1>6, <1>10, <1>11, <1>12 DEF Started
<1>16. \A u \in Units!Unit : k3.unit[u] = "active"
  <2>1. k1.unit[0] = "active" /\ k1.unit[2] = "active" /\ k1.unit[3] = "active" /\ k1.unit[4] = "active"
        /\ k1.unit[5] = "active" /\ k1.unit[7] = "active" /\ k1.unit[1] = "inactive" /\ k1.unit[6] = "inactive"
        /\ k1.unit[8] = "inactive" /\ k1.unit[9] = "inactive"
    <3>1. Todo(k, 7) = {0, 2, 3, 4, 5, 7}
      BY <1>4, <1>6, Chains DEF Todo, Units!Unit
    <3> QED BY <1>4, <1>6, <1>10, <3>1 DEF Started, Units!Unit
  <2>2. k2.unit[0] = "active" /\ k2.unit[2] = "active" /\ k2.unit[3] = "active" /\ k2.unit[4] = "active"
        /\ k2.unit[5] = "active" /\ k2.unit[7] = "active" /\ k2.unit[1] = "active" /\ k2.unit[6] = "active"
        /\ k2.unit[8] = "inactive" /\ k2.unit[9] = "inactive"
    <3>1. Todo(k1, 6) = {1, 6}
      BY <2>1, Chains DEF Todo
    <3> QED BY <1>11, <2>1, <3>1 DEF Started, Units!Unit
  <2>3. Todo(k2, 9) = {8, 9}
    BY <2>2, Chains DEF Todo
  <2>4. \A u \in Units!Unit : u = 0 \/ u = 1 \/ u = 2 \/ u = 3 \/ u = 4 \/ u = 5 \/ u = 6 \/ u = 7 \/ u = 8 \/ u = 9
    BY DEF Units!Unit
  <2> QED BY <1>12, <2>2, <2>3, <2>4 DEF Started
<1> QED BY <1>1, <1>4, <1>13, <1>14, <1>15, <1>16 DEF Running, Present, Booted

(* The process that init takes for the desktop is the compositor, although *)
(* only start_index looks at a name: nobody else ever gets its slot.  The  *)
(* journal counts every start and stop, units that may not be changed stay *)
(* active, and at the prompt a compositor that sleeps has its wait or its  *)
(* deadline (init.c, makobox.c: runit, kill, launch_app).                  *)
THEOREM DesktopStaysTheCompositor ==
  ASSUME Units!InitUnitsConstants
  PROVE  Units!Spec => [](Units!DesktopIsTheCompositor /\ Units!DesktopIsResumed)
<1>1. Units!Init => Running(s)
  BY BootRuns
<1>2. Running(s) /\ [Units!Next]_s => Running(s)'
  <2> SUFFICES ASSUME Running(s), [Units!Next]_s PROVE Running(s)'
    OBVIOUS
  <2>1. Running(s')
    <3>1. CASE Units!runit_mutate
      BY <3>1, MutateRuns
    <3>2. CASE Units!launch_app
      BY <3>2, LaunchRuns
    <3>3. CASE Units!Back
      BY <3>3, BackRuns
    <3>4. CASE Units!input_publish
      BY <3>4, WakeupRuns
    <3>5. ASSUME NEW p \in Pids, Units!applet_kill(p) PROVE Running(s')
      BY <3>5, ExitRuns DEF Units!applet_kill
    <3>6. ASSUME NEW p \in Pids, Units!Run(p) PROVE Running(s')
      BY <3>6, TaskRuns
    <3>7. ASSUME NEW p \in Pids, Units!Deadline(p) PROVE Running(s')
      BY <3>7, WakeupRuns
    <3>8. CASE UNCHANGED s
      BY <3>8
    <3> QED BY <3>1, <3>2, <3>3, <3>4, <3>5, <3>6, <3>7, <3>8 DEF Units!Next
  <2> QED BY <2>1 DEF Running, Present, Booted
<1>3. Running(s) => Units!DesktopIsTheCompositor /\ Units!DesktopIsResumed
  BY DEF Running, Present, Booted, Desktop, Units!DesktopIsTheCompositor, Units!DesktopIsResumed
<1> QED BY <1>1, <1>2, <1>3, PTL DEF Units!Spec
=============================================================================
