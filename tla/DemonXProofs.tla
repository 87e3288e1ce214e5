---------------------------- MODULE DemonXProofs -----------------------------
(***************************************************************************)
(* The resource tables of the display server, for any number of clients,   *)
(* windows, pixmaps, contexts, cursors and requests.                       *)
(*                                                                         *)
(* The inductive invariant is Good: the types, Intact (what the tables     *)
(* name is there) and Counted (a surface handle for each surface).  A      *)
(* request is served in two parts, its own change and the message that     *)
(* follows, and the second may release a client; Served says of the first  *)
(* part all that the second relies on.  Parted, that a client which was    *)
(* released owns nothing, is about the end of a step.                      *)
(***************************************************************************)
EXTENDS DemonX, FiniteSetTheorems, TLAPS

Window == [owner : Client, parent : Wid \cup {Root}, mapped : BOOLEAN,
           surface : {"none", "own", "fallback"}, published : BOOLEAN,
           mask : SUBSET Masks, reader : Client \cup {None}, keyreader : Client \cup {None},
           cursor : Cid \cup {None}, saved : Client \cup {None}]

Grab == [client : Client \cup {None}, window : Wid \cup {None}]

WindowTable == [Wid -> Window \cup {Free}]
PixmapTable == [Pid -> [owner : Client] \cup {Free}]
ContextTable == [Gid -> [owner : Client, drawable : Wid \cup Pid] \cup {Free}]
CursorTable == [Cid -> [owner : Client] \cup {Free}]
Properties == SUBSET [window : Wid \cup {Root}, atom : Atom]
Passives == SUBSET [kind : {"key", "button"}, window : Wid \cup {Root}, client : Client]
Masked == [mask : SUBSET Masks, client : Client \cup {None}, redirect : Client \cup {None}]

State == [win : WindowTable, pix : PixmapTable, gc : ContextTable, cur : CursorTable,
          prop : Properties, passive : Passives, root : Masked,
          focus : Wid \cup {None}, selection : Wid \cup {None},
          pointer : Grab, keyboard : Grab, server : Client \cup {None},
          handles : Int, desk : SUBSET Wid, alive : BOOLEAN,
          gone : SUBSET Client, released : Client \cup {None}]

(* A grab that nobody holds names no window: otherwise a new window with   *)
(* the id it names would find itself grabbed by nobody.                    *)
Held(k, g) == IF g.client = None THEN g.window = None ELSE g.window \in Windows(k)

(* NoDanglingResources of any state.                                       *)
Intact(k) ==
  /\ k.selection \in Windows(k) \cup {None}
  /\ Held(k, k.pointer) /\ Held(k, k.keyboard)
  /\ \A p \in k.prop \cup k.passive : ValidWindow(k, p.window)
  /\ \A g \in Used(k.gc) : k.gc[g].drawable \in Windows(k) \cup Pid
  /\ \A w \in Windows(k) : k.win[w].cursor \in Used(k.cur) \cup {None}

Drawn(k) == {w \in Windows(k) : k.win[w].surface = "own"}

(* SurfaceHandlesAreCounted of any state.                                  *)
Counted(k) == k.handles = Cardinality(Drawn(k)) + Cardinality(Used(k.pix))

(* ReleasedClientsOwnNothing of any state.                                 *)
Parted(k) ==
  k.released # None =>
    /\ \A t \in {k.win, k.pix, k.gc, k.cur} : \A i \in DOMAIN t : t[i].owner # k.released
    /\ \A p \in k.passive : p.client # k.released
    /\ k.released \notin {k.server, k.pointer.client, k.keyboard.client, k.root.redirect}

Good(k) == k \in State /\ Intact(k) /\ Counted(k)

LEMMA Tables ==
  ASSUME ServerConstants, NEW k \in State
  PROVE  /\ Windows(k) \subseteq Wid
         /\ \A w \in Wid : w \in Windows(k) <=> k.win[w] # Free
         /\ \A w \in Windows(k) : k.win[w] \in Window
         /\ Used(k.pix) \subseteq Pid /\ Used(k.gc) \subseteq Gid /\ Used(k.cur) \subseteq Cid
         /\ \A p \in Used(k.pix) : k.pix[p] \in [owner : Client]
         /\ \A g \in Used(k.gc) : k.gc[g] \in [owner : Client, drawable : Wid \cup Pid]
         /\ IsFiniteSet(Windows(k)) /\ IsFiniteSet(Drawn(k)) /\ IsFiniteSet(Used(k.pix))
         /\ None \notin Windows(k) /\ Root \notin Windows(k)
<1>1. /\ DOMAIN k.win = Wid /\ DOMAIN k.pix = Pid /\ DOMAIN k.gc = Gid /\ DOMAIN k.cur = Cid
      /\ \A w \in Wid : k.win[w] \in Window \cup {Free}
      /\ \A p \in Pid : k.pix[p] \in [owner : Client] \cup {Free}
      /\ \A g \in Gid : k.gc[g] \in [owner : Client, drawable : Wid \cup Pid] \cup {Free}
  BY DEF State, WindowTable, PixmapTable, ContextTable, CursorTable
<1>2. Free.owner = None /\ None \notin Client
  BY DEF Free, ServerConstants
<1>3. \A a \in Window : a.owner # None
  BY <1>2 DEF Window
<1>4. /\ Windows(k) \subseteq Wid /\ Used(k.pix) \subseteq Pid
      /\ Used(k.gc) \subseteq Gid /\ Used(k.cur) \subseteq Cid
  BY <1>1 DEF Windows, Used
<1>5. \A w \in Wid : w \in Windows(k) <=> k.win[w] # Free
  BY <1>1, <1>2, <1>3 DEF Windows, Used
<1>6. IsFiniteSet(Windows(k)) /\ IsFiniteSet(Used(k.pix))
  BY <1>4, FS_Subset DEF ServerConstants
<1>7. IsFiniteSet(Drawn(k))
  BY <1>6, FS_Subset DEF Drawn
<1>8. \A p \in Used(k.pix) : k.pix[p] \in [owner : Client]
  BY <1>1, <1>2 DEF Used
<1>9. \A g \in Used(k.gc) : k.gc[g] \in [owner : Client, drawable : Wid \cup Pid]
  BY <1>1, <1>2 DEF Used
<1> QED BY <1>1, <1>4, <1>5, <1>6, <1>7, <1>8, <1>9 DEF ServerConstants

(* A step that leaves the set of resources and what they name alone.       *)
LEMMA Untouched ==
  ASSUME ServerConstants, NEW k, Good(k), NEW d \in State,
         d.pix = k.pix, d.gc = k.gc, d.cur = k.cur, d.prop = k.prop, d.passive = k.passive,
         d.pointer = k.pointer, d.keyboard = k.keyboard, d.selection = k.selection,
         d.handles = k.handles,
         \A w \in Wid : \/ d.win[w] = k.win[w]
                        \/ /\ k.win[w] # Free /\ d.win[w] # Free
                           /\ d.win[w].cursor = k.win[w].cursor
                           /\ d.win[w].surface = k.win[w].surface
  PROVE  Good(d)
<1>1. k \in State
  BY DEF Good
<1>2. Windows(d) = Windows(k)
  <2>1. Windows(k) \subseteq Wid /\ \A w \in Wid : w \in Windows(k) <=> k.win[w] # Free
    BY <1>1, Tables
  <2>2. Windows(d) \subseteq Wid /\ \A w \in Wid : w \in Windows(d) <=> d.win[w] # Free
    BY Tables
  <2> QED BY <2>1, <2>2
<1>3. \A w \in Windows(k) : d.win[w].cursor = k.win[w].cursor /\ d.win[w].surface = k.win[w].surface
  BY <1>1, Tables
<1>4. Drawn(d) = Drawn(k)
  BY <1>2, <1>3 DEF Drawn
<1>5. Intact(d)
  BY <1>2, <1>3 DEF Good, Intact, Held, ValidWindow
<1> QED BY <1>4, <1>5 DEF Good, Counted

-----------------------------------------------------------------------------
(* The end of windows and clients.                                         *)

LEMMA DestroyGood ==
  ASSUME ServerConstants, NEW k, Good(k), NEW W, W \subseteq Windows(k), NEW env,
         NEW d, d = destroy_window_state(k, W, env)
  PROVE  /\ Good(d) /\ Windows(d) = Windows(k) \ W
         /\ \A w \in Windows(d) : d.win[w] = k.win[w]
         /\ d.pix = k.pix /\ d.cur = k.cur /\ d.gone = k.gone /\ d.released = k.released
<1> DEFINE c == close_published_window(k, W, env)
           own == {w \in W : k.win[w].surface = "own"}
           win == [w \in Wid |-> IF w \in W THEN Free ELSE k.win[w]]
           gc == [g \in Gid |-> IF k.gc[g] # Free /\ k.gc[g].drawable \in W THEN Free ELSE k.gc[g]]
<1>1. /\ k \in State /\ Windows(k) \subseteq Wid /\ W \subseteq Wid
      /\ IsFiniteSet(Drawn(k)) /\ Cardinality(Drawn(k)) \in Nat /\ None \notin Windows(k)
  BY Tables, FS_CardinalityType DEF Good
<1>2. own = Drawn(k) \cap W /\ IsFiniteSet(own) /\ Cardinality(own) \in Nat
  <2>1. own = Drawn(k) \cap W
    BY DEF Drawn
  <2>2. IsFiniteSet(Drawn(k) \cap W)
    BY <1>1, FS_Subset
  <2> QED BY <2>1, <2>2, FS_CardinalityType
<1>3. win \in WindowTable /\ gc \in ContextTable
  BY <1>1 DEF State, WindowTable, ContextTable
<1>4. /\ c \in State /\ c.handles = k.handles - Cardinality(own)
      /\ c.win = k.win /\ c.pix = k.pix /\ c.gc = k.gc /\ c.cur = k.cur /\ c.prop = k.prop
      /\ c.passive = k.passive /\ c.pointer = k.pointer /\ c.keyboard = k.keyboard
      /\ c.selection = k.selection /\ c.focus = k.focus /\ c.gone = k.gone /\ c.released = k.released
  <2> DEFINE desk == IF env = "compositor" THEN k.desk ELSE k.desk \ {w \in W : k.win[w].published}
             n == k.handles - Cardinality(own)
  <2>1. desk \in SUBSET Wid /\ n \in Int
    BY <1>1, <1>2 DEF State
  <2>2. c = [k EXCEPT !.desk = desk, !.handles = n]
    BY <1>1 DEF close_published_window, State
  <2> HIDE DEF desk, n, c
  <2>3. /\ c \in State /\ c.handles = n
        /\ c.win = k.win /\ c.pix = k.pix /\ c.gc = k.gc /\ c.cur = k.cur /\ c.prop = k.prop
        /\ c.passive = k.passive /\ c.pointer = k.pointer /\ c.keyboard = k.keyboard
        /\ c.selection = k.selection /\ c.focus = k.focus /\ c.gone = k.gone /\ c.released = k.released
    BY <1>1, <2>1, <2>2 DEF State
  <2> QED BY <2>3 DEF n
<1> HIDE DEF c
<1> DEFINE focus == IF k.focus \in W THEN None ELSE k.focus
           pointer == IF k.pointer.window \in W THEN NoGrab ELSE k.pointer
           keyboard == IF k.keyboard.window \in W THEN NoGrab ELSE k.keyboard
           selection == IF k.selection \in W THEN None ELSE k.selection
           prop == {p \in k.prop : p.window \notin W}
           passive == {p \in k.passive : p.window \notin W}
<1>5. d = [c EXCEPT !.win = win, !.focus = focus, !.pointer = pointer, !.keyboard = keyboard,
                    !.selection = selection, !.prop = prop, !.gc = gc, !.passive = passive]
  BY <1>4 DEF destroy_window_state, c, State
<1>6. /\ focus \in Wid \cup {None} /\ selection \in Wid \cup {None}
      /\ pointer \in Grab /\ keyboard \in Grab
      /\ prop \in Properties
      /\ passive \in Passives
  BY <1>1 DEF State, Grab, NoGrab, Properties, Passives
<1> HIDE DEF win, gc, focus, pointer, keyboard, selection, prop, passive
<1>7. /\ d \in State /\ d.win = win /\ d.gc = gc /\ d.pointer = pointer /\ d.keyboard = keyboard
      /\ d.selection = selection /\ d.prop = prop /\ d.passive = passive
      /\ d.pix = c.pix /\ d.cur = c.cur /\ d.handles = c.handles /\ d.gone = c.gone
      /\ d.released = c.released
  <2>1. /\ d.win = win /\ d.gc = gc /\ d.pointer = pointer /\ d.keyboard = keyboard
        /\ d.selection = selection /\ d.prop = prop /\ d.passive = passive
        /\ d.pix = c.pix /\ d.cur = c.cur /\ d.handles = c.handles /\ d.gone = c.gone
        /\ d.released = c.released
    BY <1>4, <1>5 DEF State
  <2>2. [c EXCEPT !.win = win, !.focus = focus, !.pointer = pointer, !.keyboard = keyboard,
                  !.selection = selection, !.prop = prop, !.gc = gc, !.passive = passive] \in State
    BY <1>3, <1>4, <1>6 DEF State
  <2> QED BY <1>5, <2>1, <2>2
<1>8. Windows(d) = Windows(k) \ W
  <2>1. \A w \in Wid : w \in Windows(k) <=> k.win[w] # Free
    BY <1>1, Tables
  <2>2. Windows(d) \subseteq Wid /\ \A w \in Wid : w \in Windows(d) <=> d.win[w] # Free
    BY <1>7, Tables
  <2> QED BY <1>1, <1>7, <2>1, <2>2 DEF win
<1>9. \A w \in Windows(d) : d.win[w] = k.win[w]
  BY <1>1, <1>7, <1>8 DEF win
<1>10. Counted(d)
  <2>1. Drawn(d) = Drawn(k) \ W
    BY <1>8, <1>9 DEF Drawn
  <2>2. Cardinality(Drawn(d)) = Cardinality(Drawn(k)) - Cardinality(own)
    BY <1>1, <1>2, <2>1, FS_Difference
  <2>3. Used(d.pix) = Used(k.pix) /\ Cardinality(Used(k.pix)) \in Nat
    BY <1>1, <1>4, <1>7, Tables, FS_CardinalityType
  <2> QED BY <1>1, <1>2, <1>4, <1>7, <2>2, <2>3 DEF Good, Counted
<1>11. Intact(d)
  <2>1. d.selection \in Windows(d) \cup {None}
    BY <1>7, <1>8 DEF Good, Intact, selection
  <2>2. ASSUME NEW g, Held(k, g), NEW e, e = IF g.window \in W THEN NoGrab ELSE g PROVE Held(d, e)
    BY <1>1, <1>8, <2>2 DEF Held, NoGrab
  <2>3. Held(d, d.pointer) /\ Held(d, d.keyboard)
    BY <1>7, <2>2 DEF Good, Intact, pointer, keyboard
  <2>4. \A p \in d.prop \cup d.passive : ValidWindow(d, p.window)
    BY <1>7, <1>8 DEF Good, Intact, prop, passive, ValidWindow
  <2>5. ASSUME NEW g \in Used(d.gc) PROVE d.gc[g].drawable \in Windows(d) \cup Pid
    <3>0. d.gc[g].owner # None /\ Free.owner = None
      BY <2>5 DEF Used, Free
    <3>1. g \in Gid /\ d.gc[g] # Free
      BY <1>7, <2>5, <3>0, Tables
    <3>2. d.gc[g] = k.gc[g] /\ k.gc[g].drawable \notin W
      BY <1>7, <3>1 DEF gc
    <3>3. g \in Used(k.gc)
      BY <1>1, <2>5, <3>1, <3>2 DEF Used, State, ContextTable
    <3> QED BY <1>8, <3>2, <3>3 DEF Good, Intact
  <2>6. \A w \in Windows(d) : d.win[w].cursor \in Used(d.cur) \cup {None}
    BY <1>4, <1>7, <1>8, <1>9 DEF Good, Intact
  <2> QED BY <2>1, <2>3, <2>4, <2>5, <2>6 DEF Intact
<1>12. Good(d)
  BY <1>7, <1>10, <1>11 DEF Good
<1> QED BY <1>4, <1>7, <1>8, <1>9, <1>12

(* All that a client owns goes with it.                                    *)
LEMMA ReleaseGood ==
  ASSUME ServerConstants, NEW k, Good(k), NEW c \in Client, NEW env,
         NEW d, d = release_client(k, c, env)
  PROVE  Good(d) /\ Parted(d) /\ d.released = c /\ d.gone = k.gone
<1> DEFINE W == {w \in Wid : k.win[w].owner = c}
           b == destroy_window_state(k, W, env)
           dead == {x \in Cid : b.cur[x].owner = c}
           freed == {p \in Pid : b.pix[p].owner = c}
           shown(a) == [a EXCEPT !.cursor = IF @ \in dead THEN None ELSE @]
           win == [w \in Wid |-> IF b.win[w] = Free THEN Free ELSE shown(b.win[w])]
<1>1. /\ k \in State /\ W \subseteq Windows(k) /\ None \notin Client
      /\ Windows(k) \subseteq Wid
  BY Tables DEF Good, Windows, Used, ServerConstants, State, WindowTable
<1>2. /\ Good(b) /\ Windows(b) = Windows(k) \ W
      /\ \A w \in Windows(b) : b.win[w] = k.win[w]
      /\ b.pix = k.pix /\ b.cur = k.cur /\ b.gone = k.gone /\ b.released = k.released
  <2>1. b = destroy_window_state(k, W, env)
    OBVIOUS
  <2> HIDE DEF b, W
  <2> QED BY <1>1, <2>1, DestroyGood
<1>3. d = [[b EXCEPT !.win = win] EXCEPT
             !.pix = [p \in Pid |-> IF p \in freed THEN Free ELSE @[p]],
             !.handles = @ - Cardinality(freed),
             !.gc = [g \in Gid |-> IF @[g].owner = c THEN Free ELSE @[g]],
             !.cur = [x \in Cid |-> IF x \in dead THEN Free ELSE @[x]],
             !.passive = {p \in @ : p.client # c},
             !.root = IF @.redirect = c THEN [mask |-> {}, client |-> None, redirect |-> None] ELSE @,
             !.pointer = IF @.client = c THEN NoGrab ELSE @,
             !.keyboard = IF @.client = c THEN NoGrab ELSE @,
             !.server = IF @ = c THEN None ELSE @,
             !.released = c]
  BY DEF release_client, MapWins
<1> DEFINE pix == [p \in Pid |-> IF p \in freed THEN Free ELSE b.pix[p]]
           n == b.handles - Cardinality(freed)
           gc == [g \in Gid |-> IF b.gc[g].owner = c THEN Free ELSE b.gc[g]]
           cur == [x \in Cid |-> IF x \in dead THEN Free ELSE b.cur[x]]
           passive == {p \in b.passive : p.client # c}
           root == IF b.root.redirect = c THEN [mask |-> {}, client |-> None, redirect |-> None] ELSE b.root
           pointer == IF b.pointer.client = c THEN NoGrab ELSE b.pointer
           keyboard == IF b.keyboard.client = c THEN NoGrab ELSE b.keyboard
           server == IF b.server = c THEN None ELSE b.server
<1>4. b \in State
  BY <1>2 DEF Good
<1> HIDE DEF b, W
<1>5. d = [b EXCEPT !.win = win, !.pix = pix, !.handles = n, !.gc = gc, !.cur = cur, !.passive = passive,
                    !.root = root, !.pointer = pointer, !.keyboard = keyboard, !.server = server,
                    !.released = c]
  <2>1. ASSUME NEW e, e = [b EXCEPT !.win = win]
        PROVE  /\ e.pix = b.pix /\ e.handles = b.handles /\ e.gc = b.gc /\ e.cur = b.cur
               /\ e.passive = b.passive /\ e.root = b.root /\ e.pointer = b.pointer
               /\ e.keyboard = b.keyboard /\ e.server = b.server
    <3> HIDE DEF win
    <3> QED BY <1>4, <2>1 DEF State
  <2> HIDE DEF win, dead, freed
  <2> QED BY <1>3, <1>4, <2>1 DEF State
<1>6. /\ Used(b.pix) \subseteq Pid /\ IsFiniteSet(Used(b.pix)) /\ freed = {p \in Used(b.pix) : b.pix[p].owner = c}
      /\ IsFiniteSet(freed) /\ Cardinality(freed) \in Nat /\ Cardinality(Used(b.pix)) \in Nat
      /\ freed \subseteq Used(b.pix)
  <2>1. Used(b.pix) \subseteq Pid /\ IsFiniteSet(Used(b.pix)) /\ DOMAIN b.pix = Pid
    BY <1>4, Tables DEF State, PixmapTable
  <2>2. freed = {p \in Used(b.pix) : b.pix[p].owner = c}
    BY <1>1, <2>1 DEF Used
  <2> HIDE DEF freed
  <2>3. IsFiniteSet(freed)
    BY <2>1, <2>2, FS_Subset
  <2> QED BY <2>1, <2>2, <2>3, FS_CardinalityType
<1>7. \A a \in Window : /\ shown(a) \in Window /\ shown(a).owner = a.owner /\ shown(a).surface = a.surface
                        /\ shown(a).cursor = IF a.cursor \in dead THEN None ELSE a.cursor
                        /\ shown(a) # Free
  <2> SUFFICES ASSUME NEW a \in Window
               PROVE  /\ shown(a) \in Window /\ shown(a).owner = a.owner /\ shown(a).surface = a.surface
                      /\ shown(a).cursor = IF a.cursor \in dead THEN None ELSE a.cursor
                      /\ shown(a) # Free
    OBVIOUS
  <2> HIDE DEF dead
  <2>1. /\ shown(a) \in Window /\ shown(a).owner = a.owner /\ shown(a).surface = a.surface
        /\ shown(a).cursor = IF a.cursor \in dead THEN None ELSE a.cursor
    BY DEF Window
  <2>2. shown(a).owner # None /\ Free.owner = None
    BY <1>1, <2>1 DEF Window, Free
  <2> QED BY <2>1, <2>2
<1> HIDE DEF shown
<1>8. win \in WindowTable
  BY <1>4, <1>7 DEF State, WindowTable
<1>9. /\ pix \in PixmapTable /\ n \in Int
      /\ gc \in ContextTable
      /\ cur \in CursorTable
  <2> HIDE DEF freed, dead
  <2> QED BY <1>4, <1>6 DEF State, PixmapTable, ContextTable, CursorTable
<1>10. /\ passive \in Passives
       /\ root \in Masked
       /\ pointer \in Grab /\ keyboard \in Grab /\ server \in Client \cup {None}
  BY <1>4 DEF State, Grab, NoGrab, Passives, Masked
<1> HIDE DEF win, pix, n, gc, cur, passive, root, pointer, keyboard, server, dead, freed
<1>11. /\ d \in State /\ d.win = win /\ d.pix = pix /\ d.handles = n /\ d.gc = gc /\ d.cur = cur
       /\ d.passive = passive /\ d.root = root /\ d.pointer = pointer /\ d.keyboard = keyboard
       /\ d.server = server /\ d.released = c /\ d.prop = b.prop /\ d.selection = b.selection
       /\ d.gone = b.gone
  <2>1. /\ d.win = win /\ d.pix = pix /\ d.handles = n /\ d.gc = gc /\ d.cur = cur
        /\ d.passive = passive /\ d.root = root /\ d.pointer = pointer /\ d.keyboard = keyboard
        /\ d.server = server /\ d.released = c /\ d.prop = b.prop /\ d.selection = b.selection
        /\ d.gone = b.gone
    BY <1>4, <1>5 DEF State
  <2>2. [b EXCEPT !.win = win, !.pix = pix, !.handles = n, !.gc = gc, !.cur = cur, !.passive = passive,
                  !.root = root, !.pointer = pointer, !.keyboard = keyboard, !.server = server,
                  !.released = c] \in State
    BY <1>4, <1>8, <1>9, <1>10 DEF State
  <2> QED BY <1>5, <2>1, <2>2
<1>12. /\ Windows(b) \subseteq Wid /\ \A w \in Wid : w \in Windows(b) <=> b.win[w] # Free
       /\ \A w \in Windows(b) : b.win[w] \in Window
       /\ Used(b.cur) \subseteq Cid /\ Used(b.gc) \subseteq Gid
       /\ IsFiniteSet(Drawn(b)) /\ Cardinality(Drawn(b)) \in Nat
  BY <1>4, Tables, FS_CardinalityType
<1>13. Windows(d) = Windows(b) /\ \A w \in Windows(b) : d.win[w] = shown(b.win[w])
  <2>1. Windows(d) \subseteq Wid /\ \A w \in Wid : w \in Windows(d) <=> d.win[w] # Free
    BY <1>11, Tables
  <2>2. ASSUME NEW w \in Wid
        PROVE  /\ b.win[w] = Free => d.win[w] = Free
               /\ b.win[w] # Free => d.win[w] = shown(b.win[w]) /\ d.win[w] # Free
    BY <1>7, <1>11, <1>12 DEF win
  <2> QED BY <1>12, <2>1, <2>2
<1>14. Drawn(d) = Drawn(b)
  BY <1>7, <1>12, <1>13 DEF Drawn
<1>15. Free.owner = None
  BY DEF Free
<1>16. Counted(d)
  <2>1. Used(d.pix) = Used(b.pix) \ freed
    <3>1. DOMAIN d.pix = Pid /\ DOMAIN b.pix = Pid
      BY <1>4, <1>11 DEF State, PixmapTable
    <3> QED BY <1>6, <1>11, <1>15, <3>1 DEF Used, pix
  <2>2. Used(b.pix) \cap freed = freed
    BY <1>6
  <2>3. Cardinality(Used(d.pix)) = Cardinality(Used(b.pix)) - Cardinality(freed)
    <3>1. Cardinality(Used(b.pix) \ freed)
            = Cardinality(Used(b.pix)) - Cardinality(Used(b.pix) \cap freed)
      BY <1>6, FS_Difference
    <3> QED BY <2>1, <2>2, <3>1
  <2> QED BY <1>2, <1>6, <1>11, <1>12, <1>14, <2>3 DEF Good, Counted, n
<1>17. Intact(d)
  <2>1. Intact(b)
    BY <1>2 DEF Good
  <2>2. d.selection \in Windows(d) \cup {None}
    BY <1>11, <1>13, <2>1 DEF Intact
  <2>3. None \notin Windows(d)
    BY <1>11, Tables
  <2>4. Held(d, d.pointer) /\ Held(d, d.keyboard)
    BY <1>11, <1>13, <2>1, <2>3 DEF Intact, Held, NoGrab, pointer, keyboard
  <2>5. \A p \in d.prop \cup d.passive : ValidWindow(d, p.window)
    BY <1>11, <1>13, <2>1 DEF Intact, ValidWindow, passive
  <2>6. ASSUME NEW g \in Used(d.gc) PROVE d.gc[g].drawable \in Windows(d) \cup Pid
    <3>1. g \in Gid /\ d.gc[g].owner # None
      BY <1>11, Tables DEF Used
    <3>2. d.gc[g] = b.gc[g]
      BY <1>11, <1>15, <3>1 DEF gc
    <3>3. g \in Used(b.gc)
      BY <1>4, <3>1, <3>2 DEF Used, State, ContextTable
    <3> QED BY <1>13, <2>1, <3>2, <3>3 DEF Intact
  <2>7. ASSUME NEW w \in Windows(d) PROVE d.win[w].cursor \in Used(d.cur) \cup {None}
    <3>1. w \in Windows(b) /\ d.win[w].cursor = IF b.win[w].cursor \in dead THEN None ELSE b.win[w].cursor
      BY <1>7, <1>12, <1>13
    <3>2. b.win[w].cursor \in Used(b.cur) \cup {None}
      BY <2>1, <3>1 DEF Intact
    <3>3. ASSUME NEW x \in Used(b.cur), x \notin dead PROVE x \in Used(d.cur)
      <4>1. x \in Cid /\ b.cur[x].owner # None
        BY <1>12 DEF Used
      <4>2. d.cur[x] = b.cur[x] /\ DOMAIN d.cur = Cid
        BY <1>11, <3>3, <4>1 DEF cur, State
      <4> QED BY <4>1, <4>2 DEF Used
    <3> QED BY <3>1, <3>2, <3>3
  <2> QED BY <2>2, <2>4, <2>5, <2>6, <2>7 DEF Intact
<1>18. Parted(d)
  <2>1. ASSUME NEW w \in Wid PROVE d.win[w].owner # c
    <3>1. CASE b.win[w] = Free
      BY <1>1, <1>11, <1>15, <3>1 DEF win
    <3>2. CASE b.win[w] # Free
      <4>1. w \in Windows(b) /\ b.win[w] = k.win[w] /\ w \notin W
        BY <1>2, <1>12, <3>2
      <4>2. d.win[w].owner = k.win[w].owner
        BY <1>7, <1>12, <1>13, <4>1
      <4> QED BY <4>1, <4>2 DEF W
    <3> QED BY <3>1, <3>2
  <2>2. \A p \in Pid : d.pix[p].owner # c
    BY <1>1, <1>11, <1>15 DEF pix, freed
  <2>3. \A g \in Gid : d.gc[g].owner # c
    BY <1>1, <1>11, <1>15 DEF gc
  <2>4. \A x \in Cid : d.cur[x].owner # c
    BY <1>1, <1>11, <1>15 DEF cur, dead
  <2>5. \A p \in d.passive : p.client # c
    BY <1>11 DEF passive
  <2>6. c \notin {d.server, d.pointer.client, d.keyboard.client, d.root.redirect}
    BY <1>1, <1>11 DEF server, pointer, keyboard, root, NoGrab
  <2>7. DOMAIN d.win = Wid /\ DOMAIN d.pix = Pid /\ DOMAIN d.gc = Gid /\ DOMAIN d.cur = Cid
    BY <1>11 DEF State, WindowTable, PixmapTable, ContextTable, CursorTable
  <2>8. \A t \in {d.win, d.pix, d.gc, d.cur} : \A i \in DOMAIN t : t[i].owner # c
    BY <2>1, <2>2, <2>3, <2>4, <2>7
  <2> QED BY <1>11, <2>5, <2>6, <2>8 DEF Parted
<1> QED BY <1>2, <1>11, <1>16, <1>17, <1>18 DEF Good

-----------------------------------------------------------------------------
(* What a request leaves: x[1] is the state, x[2] the client to be told.   *)
Served(x) == Good(x[1]) /\ Parted(x[1]) /\ x[2] \in Client \cup {None}

LEMMA Answered ==
  ASSUME NEW d, Good(d), Parted(d)
  PROVE  /\ Served(Quiet(d))
         /\ \A c \in Client \cup {None} : Served(<<d, c>>)
         /\ \A r : r.c \in Client => Served(Error(d, r))
BY DEF Served, Quiet, Error

LEMMA Checked ==
  ASSUME NEW k, Good(k), Parted(k), NEW r, r.c \in Client, NEW b, NEW x, b => Served(x)
  PROVE  Served(When(b, r, k, x))
<1>1. CASE b
  BY <1>1 DEF When
<1>2. CASE ~b
  BY <1>2, Answered DEF When
<1> QED BY <1>1, <1>2

(* A request that releases nobody.                                         *)
LEMMA Unreleased == ASSUME NEW d, d.released = None PROVE Parted(d)
BY DEF Parted

(* Window w becomes a.                                                     *)
Tally(k, w, a) == k.handles + (IF a.surface = "own" THEN 1 ELSE 0)
                            - (IF k.win[w].surface = "own" THEN 1 ELSE 0)
Edit(k, w, a, desk) ==
  [k EXCEPT !.win = [k.win EXCEPT ![w] = a], !.handles = Tally(k, w, a), !.desk = desk]

LEMMA EditFields ==
  ASSUME NEW k \in State, NEW w \in Wid, NEW a \in Window, NEW desk, desk \subseteq Wid,
         NEW d, d = Edit(k, w, a, desk)
  PROVE  /\ d \in State /\ d.win = [k.win EXCEPT ![w] = a] /\ d.handles = Tally(k, w, a)
         /\ d.pix = k.pix /\ d.gc = k.gc /\ d.cur = k.cur /\ d.prop = k.prop /\ d.passive = k.passive
         /\ d.pointer = k.pointer /\ d.keyboard = k.keyboard /\ d.selection = k.selection
         /\ d.released = k.released /\ d.gone = k.gone /\ d.root = k.root
<1> DEFINE win == [k.win EXCEPT ![w] = a]
           n == Tally(k, w, a)
<1>1. win \in WindowTable /\ n \in Int
  BY DEF State, Tally, WindowTable
<1> HIDE DEF win, n
<1>2. d = [k EXCEPT !.win = win, !.handles = n, !.desk = desk]
  BY DEF win, n, Edit
<1>3. /\ d.win = win /\ d.handles = n
      /\ d.pix = k.pix /\ d.gc = k.gc /\ d.cur = k.cur /\ d.prop = k.prop /\ d.passive = k.passive
      /\ d.pointer = k.pointer /\ d.keyboard = k.keyboard /\ d.selection = k.selection
      /\ d.released = k.released /\ d.gone = k.gone /\ d.root = k.root
  BY <1>2 DEF State
<1>4. [k EXCEPT !.win = win, !.handles = n, !.desk = desk] \in State
  BY <1>1 DEF State
<1> QED BY <1>2, <1>3, <1>4 DEF win, n

LEMMA Edited ==
  ASSUME ServerConstants, NEW k, Good(k), NEW w \in Windows(k), NEW a \in Window,
         a.cursor \in Used(k.cur) \cup {None},
         NEW desk, desk \subseteq Wid,
         NEW d, d = Edit(k, w, a, desk)
  PROVE  /\ Good(d) /\ d.released = k.released /\ d.gone = k.gone /\ d.root = k.root
         /\ Windows(d) = Windows(k) /\ d.win[w] = a
<1>1. /\ k \in State /\ Windows(k) \subseteq Wid /\ (\A v \in Wid : v \in Windows(k) <=> k.win[v] # Free)
      /\ IsFiniteSet(Drawn(k)) /\ Cardinality(Drawn(k)) \in Nat /\ Cardinality(Used(k.pix)) \in Nat
      /\ w \in Wid /\ k.handles \in Int
  BY Tables, FS_CardinalityType DEF Good, State
<1>3. /\ d \in State /\ d.win = [k.win EXCEPT ![w] = a] /\ d.handles = Tally(k, w, a)
      /\ d.pix = k.pix /\ d.gc = k.gc /\ d.cur = k.cur /\ d.prop = k.prop /\ d.passive = k.passive
      /\ d.pointer = k.pointer /\ d.keyboard = k.keyboard /\ d.selection = k.selection
      /\ d.released = k.released /\ d.gone = k.gone /\ d.root = k.root
  BY <1>1, EditFields
<1>4. d.win[w] = a /\ \A v \in Wid : v # w => d.win[v] = k.win[v]
  BY <1>1, <1>3 DEF State, WindowTable
<1>5. a # Free
  <2>1. a.owner # None /\ Free.owner = None
    BY DEF Window, Free, ServerConstants
  <2> QED BY <2>1
<1>6. Windows(d) = Windows(k)
  <2>1. Windows(d) \subseteq Wid /\ (\A v \in Wid : v \in Windows(d) <=> d.win[v] # Free)
    BY <1>3, Tables
  <2>2. ASSUME NEW v \in Wid PROVE v \in Windows(d) <=> v \in Windows(k)
    BY <1>1, <1>4, <1>5, <2>1
  <2> QED BY <1>1, <2>1, <2>2
<1>7. Intact(d)
  <2>1. \A v \in Windows(d) : d.win[v].cursor \in Used(d.cur) \cup {None}
    BY <1>1, <1>3, <1>4, <1>6 DEF Good, Intact
  <2> QED BY <1>3, <1>6, <2>1 DEF Good, Intact, Held, ValidWindow
<1>8. Counted(d)
  <2>0. ASSUME NEW S, IsFiniteSet(S)
        PROVE  Cardinality(S) = Cardinality(S \ {w}) + (IF w \in S THEN 1 ELSE 0)
    <3>1. Cardinality(S \ {w}) = IF w \in S THEN Cardinality(S) - 1 ELSE Cardinality(S)
      BY <2>0, FS_RemoveElement
    <3>2. Cardinality(S) \in Nat
      BY <2>0, FS_CardinalityType
    <3> QED BY <3>1, <3>2
  <2>1. Drawn(d) \ {w} = Drawn(k) \ {w}
    BY <1>1, <1>4, <1>6 DEF Drawn
  <2>2. w \in Drawn(k) <=> k.win[w].surface = "own"
    BY DEF Drawn
  <2>3. w \in Drawn(d) <=> a.surface = "own"
    BY <1>4, <1>6 DEF Drawn
  <2>4. IsFiniteSet(Drawn(d))
    BY <1>3, Tables
  <2>5. Cardinality(Drawn(k)) = Cardinality(Drawn(k) \ {w}) + (IF w \in Drawn(k) THEN 1 ELSE 0)
    BY <1>1, <2>0
  <2>6. Cardinality(Drawn(d)) = Cardinality(Drawn(d) \ {w}) + (IF w \in Drawn(d) THEN 1 ELSE 0)
    BY <2>4, <2>0
  <2>7. Cardinality(Drawn(d) \ {w}) \in Nat
    BY <2>4, FS_RemoveElement, FS_CardinalityType
  <2>8. k.handles = Cardinality(Drawn(k)) + Cardinality(Used(k.pix))
    BY DEF Good, Counted
  <2>9. Cardinality(Drawn(d)) = Cardinality(Drawn(k)) + (IF a.surface = "own" THEN 1 ELSE 0)
                                - (IF k.win[w].surface = "own" THEN 1 ELSE 0)
    <3>1. Cardinality(Drawn(d) \ {w}) = Cardinality(Drawn(k) \ {w})
      BY <2>1
    <3> QED BY <2>2, <2>3, <2>5, <2>6, <2>7, <3>1
  <2>10. Used(d.pix) = Used(k.pix)
    BY <1>3
  <2> QED BY <1>1, <1>3, <2>8, <2>9, <2>10 DEF Counted, Tally
<1> QED BY <1>3, <1>4, <1>6, <1>7, <1>8 DEF Good

(* A window of the table, and what requests may change in it.              *)
LEMMA Entry ==
  ASSUME ServerConstants, NEW k, Good(k), NEW w \in Windows(k)
  PROVE  /\ k \in State /\ w \in Wid /\ k.win[w] \in Window
         /\ k.win[w].cursor \in Used(k.cur) \cup {None}
         /\ k.handles \in Int /\ k.desk \in SUBSET Wid
         /\ k.win[w].owner \in Client
         /\ k.win[w].reader \in Client \cup {None} /\ k.win[w].keyreader \in Client \cup {None}
<1>1. k \in State /\ w \in Wid /\ k.win[w] \in Window
  BY Tables DEF Good
<1> QED BY <1>1 DEF Good, Intact, State, Window

(* The same when only the window changes.                                  *)
Rewrite(k, w, a) == [k EXCEPT !.win = [k.win EXCEPT ![w] = a]]

LEMMA Rewritten ==
  ASSUME ServerConstants, NEW k, Good(k), NEW w \in Windows(k), NEW a \in Window,
         a.cursor \in Used(k.cur) \cup {None}, a.surface = k.win[w].surface,
         NEW d, d = Rewrite(k, w, a)
  PROVE  /\ Good(d) /\ d.released = k.released /\ d.gone = k.gone /\ d.root = k.root
         /\ Windows(d) = Windows(k) /\ d.win[w] = a
<1>1. k \in State /\ k.handles \in Int /\ k.desk \subseteq Wid
  BY Entry
<1>2. Tally(k, w, a) = k.handles
  BY <1>1 DEF Tally
<1>3. d = Edit(k, w, a, k.desk)
  BY <1>1, <1>2 DEF State, Edit, Rewrite
<1> QED BY <1>1, <1>3, Edited

-----------------------------------------------------------------------------
(* Surfaces of windows.                                                    *)

LEMMA SurfaceGood ==
  ASSUME ServerConstants, NEW k, Good(k), NEW w \in Windows(k), NEW env,
         NEW d, d = create_window_surface(k, w, env)
  PROVE  /\ Good(d) /\ d.released = k.released /\ Windows(d) = Windows(k) /\ d.gone = k.gone
         /\ d.root = k.root
<1> DEFINE v == k.win[w]
<1>1. /\ k \in State /\ w \in Wid /\ v \in Window /\ v.cursor \in Used(k.cur) \cup {None}
      /\ k.handles \in Int /\ k.desk \subseteq Wid
  BY Entry
<1>2. CASE v.surface # "none"
  BY <1>2 DEF create_window_surface
<1>3. CASE v.surface = "none" /\ env = "surface"
  <2> DEFINE a == [v EXCEPT !.surface = "fallback"]
  <2>1. d = [k EXCEPT !.win = [k.win EXCEPT ![w] = a]]
    BY <1>1, <1>3 DEF create_window_surface, State
  <2> HIDE DEF v
  <2>2. a \in Window /\ a.cursor = v.cursor /\ a.surface = "fallback"
    BY <1>1 DEF Window
  <2>3. Tally(k, w, a) = k.handles
    BY <1>1, <1>3, <2>2 DEF Tally, v
  <2> HIDE DEF a
  <2>4. d = Edit(k, w, a, k.desk)
    BY <1>1, <2>1, <2>3 DEF Edit, State
  <2> QED BY <1>1, <2>2, <2>4, Edited
<1>4. CASE v.surface = "none" /\ env # "surface"
  <2> DEFINE a == [v EXCEPT !.surface = "own"]
  <2>1. d = [k EXCEPT !.win = [k.win EXCEPT ![w] = a], !.handles = k.handles + 1]
    BY <1>1, <1>4 DEF create_window_surface, State
  <2> HIDE DEF v
  <2>2. a \in Window /\ a.cursor = v.cursor /\ a.surface = "own"
    BY <1>1 DEF Window
  <2>3. Tally(k, w, a) = k.handles + 1
    BY <1>1, <1>4, <2>2 DEF Tally, v
  <2> HIDE DEF a
  <2>4. d = Edit(k, w, a, k.desk)
    BY <1>1, <2>1, <2>3 DEF Edit, State
  <2> QED BY <1>1, <2>2, <2>4, Edited
<1> QED BY <1>2, <1>3, <1>4

LEMMA PublishGood ==
  ASSUME ServerConstants, NEW k, Good(k), NEW w \in Windows(k), NEW env,
         NEW d, d = publish_window(k, w, env)
  PROVE  /\ Good(d) /\ d.released = k.released /\ Windows(d) = Windows(k) /\ d.gone = k.gone
         /\ d.root = k.root
<1> DEFINE c == create_window_surface(k, w, env)
           v == c.win[w]
           a == [v EXCEPT !.published = TRUE]
           desk == IF env = "compositor" THEN c.desk ELSE c.desk \cup {w}
<1>1. /\ Good(c) /\ c.released = k.released /\ Windows(c) = Windows(k) /\ c.gone = k.gone
      /\ c.root = k.root
  BY SurfaceGood
<1> HIDE DEF c
<1>2. /\ c \in State /\ w \in Wid /\ v \in Window /\ v.cursor \in Used(c.cur) \cup {None}
      /\ c.handles \in Int /\ c.desk \subseteq Wid /\ w \in Windows(c)
  BY <1>1, Entry
<1>3. CASE d = c
  BY <1>1, <1>3
<1>4. CASE d = [c EXCEPT !.win[w].published = TRUE, !.desk = desk]
  <2>1. d = [c EXCEPT !.win = [c.win EXCEPT ![w] = a], !.desk = desk]
    BY <1>2, <1>4 DEF State
  <2>2. desk \subseteq Wid
    BY <1>2
  <2> HIDE DEF v, desk
  <2>3. a \in Window /\ a.cursor = v.cursor /\ a.surface = v.surface
    BY <1>2 DEF Window
  <2>4. Tally(c, w, a) = c.handles
    BY <1>2, <2>3 DEF Tally, v
  <2> HIDE DEF a
  <2>5. d = Edit(c, w, a, desk)
    BY <1>2, <2>1, <2>4 DEF Edit, State
  <2>6. a.cursor \in Used(c.cur) \cup {None}
    BY <1>2, <2>3
  <2> QED BY <1>1, <1>2, <2>2, <2>3, <2>5, <2>6, Edited
<1>5. d = c \/ d = [c EXCEPT !.win[w].published = TRUE, !.desk = desk]
  BY <1>2 DEF publish_window, c, State
<1> QED BY <1>3, <1>4, <1>5

LEMMA AttachServed ==
  ASSUME ServerConstants, NEW k, Good(k), k.released = None, NEW r, r.c \in Client
  PROVE  Served(AttachSurface(k, r))
<1> DEFINE w == r.id
           v == k.win[w]
           a == [v EXCEPT !.surface = "own", !.published = FALSE]
           d == [k EXCEPT !.win[r.id].surface = "own", !.win[r.id].published = FALSE,
                          !.handles = IF k.win[r.id].surface = "own" THEN @ ELSE @ + 1]
<1>1. ASSUME w \in Windows(k) PROVE Served(Quiet(d))
  <2>1. /\ k \in State /\ w \in Wid /\ v \in Window /\ v.cursor \in Used(k.cur) \cup {None}
        /\ k.handles \in Int /\ k.desk \subseteq Wid
    BY <1>1, Entry
  <2> HIDE DEF w
  <2>2. d = [k EXCEPT !.win = [k.win EXCEPT ![w] = a],
                      !.handles = IF v.surface = "own" THEN k.handles ELSE k.handles + 1]
    BY <2>1 DEF State, w, WindowTable
  <2> HIDE DEF v, d
  <2>3. a \in Window /\ a.cursor = v.cursor /\ a.surface = "own"
    BY <2>1 DEF Window
  <2>4. Tally(k, w, a) = IF v.surface = "own" THEN k.handles ELSE k.handles + 1
    BY <2>1, <2>3 DEF Tally, v
  <2> HIDE DEF a
  <2>5. d = Edit(k, w, a, k.desk)
    BY <2>1, <2>2, <2>4 DEF Edit, State
  <2>6. Good(d) /\ d.released = None
    BY <1>1, <2>1, <2>3, <2>5, Edited
  <2> QED BY <2>6, Unreleased, Answered
<1> HIDE DEF d
<1>2. Parted(k)
  BY Unreleased
<1> QED BY <1>1, <1>2, Checked DEF AttachSurface, d

-----------------------------------------------------------------------------
(* Requests that change one window.                                        *)

LEMMA SaveSetServed ==
  ASSUME ServerConstants, NEW k, Good(k), k.released = None, NEW r, r.c \in Client
  PROVE  Served(ChangeSaveSet(k, r))
<1> DEFINE w == r.id
           v == k.win[w]
           x == IF r.insert THEN r.c ELSE IF v.saved = r.c THEN None ELSE v.saved
           a == [v EXCEPT !.saved = x]
           d == [k EXCEPT !.win[r.id].saved = IF r.insert THEN r.c ELSE IF @ = r.c THEN None ELSE @]
<1>1. ASSUME w \in Windows(k) PROVE Served(Quiet(d))
  <2>1. k \in State /\ w \in Wid /\ v \in Window /\ v.cursor \in Used(k.cur) \cup {None}
    BY <1>1, Entry
  <2> HIDE DEF w
  <2>2. d = Rewrite(k, w, a)
    BY <2>1 DEF State, w, Rewrite
  <2>3. x \in Client \cup {None}
    BY <2>1 DEF Window
  <2> HIDE DEF v, d, x
  <2>4. a \in Window /\ a.cursor = v.cursor /\ a.surface = v.surface
    BY <2>1, <2>3 DEF Window
  <2> HIDE DEF a
  <2>5. Good(d) /\ d.released = None
    BY <1>1, <2>1, <2>2, <2>4, Rewritten DEF v
  <2> QED BY <2>5, Unreleased, Answered
<1> HIDE DEF d
<1>2. Parted(k)
  BY Unreleased
<1> QED BY <1>1, <1>2, Checked DEF ChangeSaveSet, d

LEMMA DefineCursorServed ==
  ASSUME ServerConstants, NEW k, Good(k), k.released = None, NEW r, r.c \in Client
  PROVE  Served(DefineCursor(k, r))
<1> DEFINE w == r.id
           v == k.win[w]
           known == r.cursor \in Used(k.cur)
           x == IF known THEN r.cursor ELSE None
           a == [v EXCEPT !.cursor = x]
           e == [k EXCEPT !.win[r.id].cursor = IF known THEN r.cursor ELSE None]
           d == IF r.id = Root THEN k ELSE e
<1>1. Parted(k)
  BY Unreleased
<1>2. ASSUME w \in Windows(k) PROVE Served(Quiet(e))
  <2>1. k \in State /\ w \in Wid /\ v \in Window
    BY <1>2, Entry
  <2>2. x \in Used(k.cur) \cup {None} /\ x \in Cid \cup {None}
    BY <2>1, Tables
  <2> HIDE DEF w
  <2>3. e = Rewrite(k, w, a)
    BY <2>1 DEF State, w, Rewrite
  <2> HIDE DEF v, e, x
  <2>4. a \in Window /\ a.cursor = x /\ a.surface = v.surface
    BY <2>1, <2>2 DEF Window
  <2> HIDE DEF a
  <2>5. Good(e) /\ e.released = None
    BY <1>2, <2>2, <2>3, <2>4, Rewritten DEF v
  <2> QED BY <2>5, Unreleased, Answered
<1>3. ASSUME ValidWindow(k, r.id) PROVE Served(Quiet(d))
  <2> HIDE DEF e
  <2>1. CASE r.id = Root
    BY <1>1, <2>1, Answered
  <2>2. CASE r.id # Root
    BY <1>2, <1>3, <2>2 DEF ValidWindow
  <2> QED BY <2>1, <2>2
<1>4. DefineCursor(k, r) = When(ValidWindow(k, r.id) /\ (known => k.cur[r.cursor].owner = r.c), r, k, Quiet(d))
  BY DEF DefineCursor
<1> HIDE DEF d, known
<1> QED BY <1>1, <1>3, <1>4, Checked

LEMMA SelectServed ==
  ASSUME ServerConstants, NEW k, Good(k), k.released = None, NEW r, r.c \in Client,
         r.id \in Windows(k), r.mask \subseteq Masks
  PROVE  Served(SelectInput(k, r))
<1> DEFINE w == r.id
           v == k.win[w]
           m == v.mask \cup r.mask
           x == IF r.mask # {} THEN r.c ELSE v.reader
           y == IF "key" \in r.mask THEN r.c ELSE v.keyreader
           a == [v EXCEPT !.mask = m, !.reader = x, !.keyreader = y]
           b == [v EXCEPT !.mask = @ \cup r.mask,
                          !.reader = IF r.mask # {} THEN r.c ELSE @,
                          !.keyreader = IF "key" \in r.mask THEN r.c ELSE @]
           d == [k EXCEPT !.win[r.id] = b]
<1>1. k \in State /\ w \in Wid /\ v \in Window /\ v.cursor \in Used(k.cur) \cup {None}
  BY Entry
<1>2. x \in Client \cup {None} /\ y \in Client \cup {None} /\ m \in SUBSET Masks
  BY <1>1 DEF Window
<1>3. b = a
  <2> HIDE DEF v
  <2> QED BY <1>1 DEF Window
<1>4. d = Rewrite(k, w, a)
  <2> HIDE DEF a, b
  <2> QED BY <1>1, <1>3 DEF State, Rewrite
<1>8. SelectInput(k, r) = Quiet(d)
  BY DEF SelectInput
<1> HIDE DEF v, d, x, y, m
<1>5. a \in Window /\ a.cursor = v.cursor /\ a.surface = v.surface
  BY <1>1, <1>2 DEF Window
<1> HIDE DEF a
<1>6. Good(d) /\ d.released = None
  BY <1>1, <1>4, <1>5, Rewritten DEF v
<1>7. Served(Quiet(d))
  BY <1>6, Unreleased, Answered
<1> QED BY <1>7, <1>8

LEMMA Told ==
  ASSUME ServerConstants, NEW k, Good(k)
  PROVE  /\ \A m : \A w \in Windows(k) : Selected(k, w, m) \in Client \cup {None}
         /\ k.root.redirect \in Client \cup {None} /\ k.root.client \in Client \cup {None}
         /\ \A id : property_notify(k, id) \in Client \cup {None}
<1>1. \A m : \A w \in Windows(k) : Selected(k, w, m) \in Client \cup {None}
  BY Entry DEF Selected
<1>2. k.root.redirect \in Client \cup {None} /\ k.root.client \in Client \cup {None}
  BY DEF Good, State, Masked
<1> QED BY <1>1, <1>2 DEF property_notify

LEMMA UnmapServed ==
  ASSUME ServerConstants, NEW k, Good(k), k.released = None, NEW r, r.id \in Windows(k)
  PROVE  Served(UnmapWindow(k, r))
<1> DEFINE w == r.id
           v == k.win[w]
           a == [v EXCEPT !.mapped = FALSE]
           d == [k EXCEPT !.win[r.id].mapped = FALSE]
           c == IF "substructure" \in k.root.mask THEN k.root.client ELSE Selected(k, r.id, "structure")
<1>1. k \in State /\ w \in Wid /\ v \in Window /\ v.cursor \in Used(k.cur) \cup {None}
  BY Entry
<1>2. c \in Client \cup {None}
  BY Told
<1>3. d = Rewrite(k, w, a)
  BY <1>1 DEF State, Rewrite
<1> HIDE DEF v, d, c
<1>4. a \in Window /\ a.cursor = v.cursor /\ a.surface = v.surface
  BY <1>1 DEF Window
<1> HIDE DEF a
<1>5. Good(d) /\ d.released = None
  BY <1>1, <1>3, <1>4, Rewritten DEF v
<1>6. Served(<<d, c>>)
  BY <1>2, <1>5, Unreleased, Answered
<1> QED BY <1>6 DEF UnmapWindow, d, c

LEMMA MapServed ==
  ASSUME ServerConstants, NEW k, Good(k), k.released = None, NEW r, r.id \in Windows(k), NEW env
  PROVE  Served(MapWindow(k, r, env))
<1> DEFINE w == r.id
           b == publish_window(k, r.id, env)
           v == b.win[w]
           a == [v EXCEPT !.mapped = TRUE]
           d == [b EXCEPT !.win[r.id].mapped = TRUE]
<1>1. CASE Redirected(k, r)
  BY <1>1, Told, Unreleased, Answered DEF MapWindow
<1>2. CASE ~Redirected(k, r)
  <2>1. Good(b) /\ b.released = None /\ w \in Windows(b)
    BY PublishGood
  <2> HIDE DEF b
  <2>2. b \in State /\ w \in Wid /\ v \in Window /\ v.cursor \in Used(b.cur) \cup {None}
    BY <2>1, Entry
  <2>3. d = Rewrite(b, w, a)
    BY <2>2 DEF State, Rewrite
  <2> HIDE DEF v, d
  <2>4. a \in Window /\ a.cursor = v.cursor /\ a.surface = v.surface
    BY <2>2 DEF Window
  <2> HIDE DEF a
  <2>5. Good(d) /\ d.released = None
    BY <2>1, <2>2, <2>3, <2>4, Rewritten DEF v
  <2>6. Served(<<d, Selected(k, r.id, "structure")>>)
    BY <2>5, Told, Unreleased, Answered
  <2> QED BY <1>2, <2>6 DEF MapWindow, d, b
<1> QED BY <1>1, <1>2

LEMMA MoveGood ==
  ASSUME ServerConstants, NEW k, Good(k), NEW w, NEW d, d = move_published_descendants(k, w)
  PROVE  Good(d) /\ d.released = k.released
<1>1. d = k \/ d = [k EXCEPT !.alive = FALSE]
  BY DEF move_published_descendants
<1>2. CASE d = [k EXCEPT !.alive = FALSE]
  <2>1. k \in State
    BY DEF Good
  <2>2. /\ d \in State /\ d.win = k.win /\ d.released = k.released
        /\ d.pix = k.pix /\ d.gc = k.gc /\ d.cur = k.cur /\ d.prop = k.prop /\ d.passive = k.passive
        /\ d.pointer = k.pointer /\ d.keyboard = k.keyboard /\ d.selection = k.selection
        /\ d.handles = k.handles
    BY <1>2, <2>1 DEF State
  <2> QED BY <2>2, Untouched
<1> QED BY <1>1, <1>2

LEMMA ConfigureServed ==
  ASSUME ServerConstants, NEW k, Good(k), k.released = None, NEW r, r.id \in Windows(k)
  PROVE  Served(ConfigureWindow(k, r))
<1> DEFINE d == move_published_descendants(k, r.id)
<1>1. Good(d) /\ d.released = None
  BY MoveGood
<1> HIDE DEF d
<1>2. Served(<<d, Selected(k, r.id, "structure")>>)
  BY <1>1, Told, Unreleased, Answered
<1>3. Served(<<k, k.root.redirect>>)
  BY Told, Unreleased, Answered
<1> QED BY <1>2, <1>3 DEF ConfigureWindow, d

LEMMA ReparentServed ==
  ASSUME ServerConstants, NEW k, Good(k), k.released = None, NEW r, r.c \in Client, r.id \in Windows(k)
  PROVE  Served(ReparentWindow(k, r))
<1> DEFINE w == r.id
           v == k.win[w]
           a == [v EXCEPT !.parent = r.parent]
           b == [k EXCEPT !.win[r.id].parent = r.parent]
           d == move_published_descendants(b, r.id)
           c == Selected(k, r.id, "structure")
<1>1. k \in State /\ w \in Wid /\ v \in Window /\ v.cursor \in Used(k.cur) \cup {None}
  BY Entry
<1>2. c \in Client \cup {None}
  BY Told
<1>3. b = Rewrite(k, w, a)
  BY <1>1 DEF State, Rewrite
<1>4. ASSUME ValidWindow(k, r.parent) PROVE Served(<<d, c>>)
  <2>1. r.parent \in Wid \cup {Root}
    BY <1>1, <1>4, Tables DEF ValidWindow
  <2> HIDE DEF v, b
  <2>2. a \in Window /\ a.cursor = v.cursor /\ a.surface = v.surface
    BY <1>1, <2>1 DEF Window
  <2> HIDE DEF a
  <2>3. Good(b) /\ b.released = None
    BY <1>1, <1>3, <2>2, Rewritten DEF v
  <2>4. Good(d) /\ d.released = None
    BY <2>3, MoveGood
  <2> HIDE DEF d, c
  <2> QED BY <1>2, <2>4, Unreleased, Answered
<1>5. Parted(k)
  BY Unreleased
<1>6. ReparentWindow(k, r) = When(ValidWindow(k, r.parent), r, k, <<d, c>>)
  BY DEF ReparentWindow
<1> HIDE DEF d, c
<1> QED BY <1>4, <1>5, <1>6, Checked

-----------------------------------------------------------------------------
(* Requests that leave the tables of windows, pixmaps, contexts and        *)
(* cursors alone.                                                          *)

LEMMA ServerServed ==
  ASSUME ServerConstants, NEW k, Good(k), k.released = None, NEW r, r.c \in Client
  PROVE  Served(GrabServer(k, r)) /\ Served(UngrabServer(k, r))
<1>1. ASSUME NEW x \in Client \cup {None} PROVE Served(Quiet([k EXCEPT !.server = x]))
  <2> DEFINE d == [k EXCEPT !.server = x]
  <2>1. k \in State
    BY DEF Good
  <2>2. /\ d \in State /\ d.win = k.win /\ d.released = k.released
        /\ d.pix = k.pix /\ d.gc = k.gc /\ d.cur = k.cur /\ d.prop = k.prop /\ d.passive = k.passive
        /\ d.pointer = k.pointer /\ d.keyboard = k.keyboard /\ d.selection = k.selection
        /\ d.handles = k.handles
    BY <1>1, <2>1 DEF State
  <2> HIDE DEF d
  <2>3. Good(d)
    BY <2>2, Untouched
  <2>4. Served(Quiet(d))
    BY <2>2, <2>3, Unreleased, Answered
  <2> QED BY <2>4 DEF d
<1>2. Served(GrabServer(k, r))
  <2>1. Served(Quiet([k EXCEPT !.server = r.c]))
    BY <1>1
  <2>2. Parted(k)
    BY Unreleased
  <2> QED BY <2>1, <2>2, Checked DEF GrabServer
<1>3. Served(UngrabServer(k, r))
  <2> DEFINE x == IF k.server = r.c THEN None ELSE k.server
  <2>1. k \in State /\ x \in Client \cup {None}
    BY DEF Good, State
  <2>2. UngrabServer(k, r) = Quiet([k EXCEPT !.server = x])
    BY <2>1 DEF UngrabServer, State
  <2> HIDE DEF x
  <2> QED BY <1>1, <2>1, <2>2
<1> QED BY <1>2, <1>3

(* The fields that hold ids of windows, and the windows they may hold.     *)
Fields(k, prop, passive, pointer, keyboard, selection, root) ==
  [k EXCEPT !.prop = prop, !.passive = passive, !.pointer = pointer,
            !.keyboard = keyboard, !.selection = selection, !.root = root]

LEMMA FieldsTyped ==
  ASSUME NEW k \in State,
         NEW prop \in Properties,
         NEW passive \in Passives,
         NEW pointer \in Grab, NEW keyboard \in Grab, NEW selection \in Wid \cup {None},
         NEW root \in Masked
  PROVE  Fields(k, prop, passive, pointer, keyboard, selection, root) \in State
BY DEF State, Fields

LEMMA FieldsGood ==
  ASSUME ServerConstants, NEW k, Good(k), k.released = None,
         NEW prop, prop \in Properties,
         NEW passive, passive \in Passives,
         \A p \in prop \cup passive : ValidWindow(k, p.window),
         NEW pointer \in Grab, NEW keyboard \in Grab, Held(k, pointer), Held(k, keyboard),
         NEW selection \in Windows(k) \cup {None},
         NEW root \in Masked,
         NEW d, d = Fields(k, prop, passive, pointer, keyboard, selection, root)
  PROVE  Good(d) /\ Parted(d)
<1>1. /\ k \in State /\ selection \in Wid \cup {None}
      /\ prop \in Properties
      /\ passive \in Passives
  BY Tables DEF Good
<1>2. /\ d.win = k.win /\ d.pix = k.pix /\ d.gc = k.gc /\ d.cur = k.cur /\ d.handles = k.handles
      /\ d.prop = prop /\ d.passive = passive /\ d.pointer = pointer /\ d.keyboard = keyboard
      /\ d.selection = selection /\ d.released = k.released
  BY <1>1 DEF State, Fields
<1>3. Fields(k, prop, passive, pointer, keyboard, selection, root) \in State
  BY <1>1, FieldsTyped
<1>4. Windows(d) = Windows(k) /\ Drawn(d) = Drawn(k)
  BY <1>2 DEF Windows, Drawn
<1>5. Intact(d)
  BY <1>2, <1>4 DEF Good, Intact, Held, ValidWindow
<1>6. Counted(d)
  BY <1>2, <1>4 DEF Good, Counted
<1>7. Parted(d)
  BY <1>2, Unreleased
<1> QED BY <1>3, <1>5, <1>6, <1>7 DEF Good

LEMMA Kept ==
  ASSUME ServerConstants, NEW k, Good(k)
  PROVE  /\ k \in State /\ k.pointer \in Grab /\ k.keyboard \in Grab
         /\ k.prop \in Properties
         /\ k.passive \in Passives
         /\ k.root \in Masked
         /\ k.selection \in Windows(k) \cup {None} /\ Held(k, k.pointer) /\ Held(k, k.keyboard)
         /\ \A p \in k.prop \cup k.passive : ValidWindow(k, p.window)
BY DEF Good, State, Intact

LEMMA PropertiesGood ==
  ASSUME ServerConstants, NEW k, Good(k), k.released = None,
         NEW prop, prop \in Properties,
         \A p \in prop : ValidWindow(k, p.window)
  PROVE  Good([k EXCEPT !.prop = prop]) /\ Parted([k EXCEPT !.prop = prop])
<1> DEFINE d == [k EXCEPT !.prop = prop]
<1>1. d = Fields(k, prop, k.passive, k.pointer, k.keyboard, k.selection, k.root)
  BY Kept DEF Fields, State
<1>2. \A p \in prop \cup k.passive : ValidWindow(k, p.window)
  BY Kept
<1> HIDE DEF d
<1>3. Good(d) /\ Parted(d)
  BY <1>1, <1>2, Kept, FieldsGood
<1> QED BY <1>3 DEF d

LEMMA PassiveGood ==
  ASSUME ServerConstants, NEW k, Good(k), k.released = None,
         NEW passive, passive \in Passives,
         \A p \in passive : ValidWindow(k, p.window)
  PROVE  Good([k EXCEPT !.passive = passive]) /\ Parted([k EXCEPT !.passive = passive])
<1> DEFINE d == [k EXCEPT !.passive = passive]
<1>1. d = Fields(k, k.prop, passive, k.pointer, k.keyboard, k.selection, k.root)
  BY Kept DEF Fields, State
<1>2. \A p \in k.prop \cup passive : ValidWindow(k, p.window)
  BY Kept
<1> HIDE DEF d
<1>3. Good(d) /\ Parted(d)
  BY <1>1, <1>2, Kept, FieldsGood
<1> QED BY <1>3 DEF d

LEMMA GrabsGood ==
  ASSUME ServerConstants, NEW k, Good(k), k.released = None, NEW g \in Grab, Held(k, g)
  PROVE  /\ Good([k EXCEPT !.pointer = g]) /\ Parted([k EXCEPT !.pointer = g])
         /\ Good([k EXCEPT !.keyboard = g]) /\ Parted([k EXCEPT !.keyboard = g])
<1> DEFINE d == [k EXCEPT !.pointer = g]
           e == [k EXCEPT !.keyboard = g]
<1>1. /\ d = Fields(k, k.prop, k.passive, g, k.keyboard, k.selection, k.root)
      /\ e = Fields(k, k.prop, k.passive, k.pointer, g, k.selection, k.root)
  BY Kept DEF Fields, State
<1> HIDE DEF d, e
<1>2. Good(d) /\ Parted(d)
  BY <1>1, Kept, FieldsGood
<1>3. Good(e) /\ Parted(e)
  BY <1>1, Kept, FieldsGood
<1> QED BY <1>2, <1>3 DEF d, e

LEMMA SelectionServed ==
  ASSUME ServerConstants, NEW k, Good(k), k.released = None, NEW r, r.c \in Client
  PROVE  Served(SetSelectionOwner(k, r))
<1> DEFINE d == [k EXCEPT !.selection = r.owner]
<1>1. ASSUME r.owner = None \/ r.owner \in Windows(k) PROVE Served(Quiet(d))
  <2>1. d = Fields(k, k.prop, k.passive, k.pointer, k.keyboard, r.owner, k.root)
    BY Kept DEF Fields, State
  <2> HIDE DEF d
  <2>2. r.owner \in Windows(k) \cup {None}
    BY <1>1
  <2>3. Good(d) /\ Parted(d)
    BY <2>1, <2>2, Kept, FieldsGood
  <2> QED BY <2>3, Answered
<1>2. Parted(k)
  BY Unreleased
<1> HIDE DEF d
<1> QED BY <1>1, <1>2, Checked DEF SetSelectionOwner, d

LEMMA SelectRootServed ==
  ASSUME ServerConstants, NEW k, Good(k), k.released = None, NEW r, r.c \in Client, r.mask \subseteq Masks
  PROVE  Served(SelectRoot(k, r))
<1> DEFINE redirect == "redirect" \in r.mask
           root == [mask |-> r.mask, client |-> IF r.mask # {} THEN r.c ELSE None,
                    redirect |-> IF redirect THEN r.c ELSE None]
           d == [k EXCEPT !.root = root]
<1>1. root \in Masked
  BY DEF Masked
<1>2. SelectRoot(k, r) = When(redirect => k.root.redirect \in {None, r.c}, r, k, Quiet(d))
  BY DEF SelectRoot
<1> HIDE DEF root
<1>3. d = Fields(k, k.prop, k.passive, k.pointer, k.keyboard, k.selection, root)
  BY Kept DEF Fields, State
<1> HIDE DEF d, redirect
<1>4. Good(d) /\ Parted(d)
  BY <1>1, <1>3, Kept, FieldsGood
<1>5. Served(Quiet(d)) /\ Parted(k)
  BY <1>4, Answered, Unreleased
<1> QED BY <1>2, <1>5, Checked

LEMMA GrabKeyServed ==
  ASSUME ServerConstants, NEW k, Good(k), k.released = None, NEW r, r.c \in Client, r.kind \in {"key", "button"}
  PROVE  Served(GrabKey(k, r)) /\ Served(UngrabKey(k, r))
<1> DEFINE p == [kind |-> r.kind, window |-> r.id, client |-> r.c]
           d == [k EXCEPT !.passive = @ \cup {p}]
           e == [k EXCEPT !.passive = @ \ {p}]
<1>1. Parted(k) /\ Served(Quiet(k)) /\ Served(Error(k, r))
  BY Unreleased, Answered
<1>2. ASSUME ValidWindow(k, r.id) PROVE Served(Quiet(d))
  <2>1. r.id \in Wid \cup {Root}
    BY <1>2, Tables DEF ValidWindow, Good
  <2>2. p \in [kind : {"key", "button"}, window : Wid \cup {Root}, client : Client] /\ p.window = r.id
    BY <2>1
  <2>3. d = [k EXCEPT !.passive = k.passive \cup {p}]
    OBVIOUS
  <2> HIDE DEF p, d
  <2> DEFINE P == k.passive \cup {p}
  <2>4. /\ P \in Passives
        /\ \A q \in P : ValidWindow(k, q.window)
    BY <1>2, <2>2, Kept DEF Passives
  <2> HIDE DEF P
  <2>5. Good([k EXCEPT !.passive = P]) /\ Parted([k EXCEPT !.passive = P])
    BY <2>4, PassiveGood
  <2> QED BY <2>3, <2>5, Answered DEF P
<1>3. Served(Quiet(e))
  <2> DEFINE P == k.passive \ {p}
  <2>1. /\ P \in Passives
        /\ \A q \in P : ValidWindow(k, q.window)
    BY Kept DEF Passives
  <2>2. e = [k EXCEPT !.passive = P]
    OBVIOUS
  <2> HIDE DEF P, e
  <2>3. Good([k EXCEPT !.passive = P]) /\ Parted([k EXCEPT !.passive = P])
    BY <2>1, PassiveGood
  <2> QED BY <2>2, <2>3, Answered
<1>4. Served(UngrabKey(k, r))
  <2>1. UngrabKey(k, r) = When(ValidWindow(k, r.id), r, k, Quiet(e))
    BY DEF UngrabKey
  <2> HIDE DEF e
  <2> QED BY <1>1, <1>3, <2>1, Checked
<1>5. Served(GrabKey(k, r))
  <2> DEFINE same == {q \in k.passive : q.kind = r.kind /\ q.window = r.id}
             full == When(Cardinality(k.passive) < PASSIVE, r, k, Quiet(d))
  <2>1. \/ GrabKey(k, r) \in {Error(k, r), Quiet(k)}
        \/ ValidWindow(k, r.id) /\ GrabKey(k, r) = full
    BY DEF GrabKey
  <2>2. ASSUME ValidWindow(k, r.id) PROVE Served(full)
    <3>1. Served(Quiet(d))
      BY <1>2, <2>2
    <3> HIDE DEF d
    <3> QED BY <1>1, <3>1, Checked
  <2> HIDE DEF full
  <2> QED BY <1>1, <2>1, <2>2
<1> QED BY <1>4, <1>5

LEMMA NoGrabHeld == ASSUME ServerConstants, NEW k, Good(k) PROVE NoGrab \in Grab /\ Held(k, NoGrab)
<1>1. None \notin Windows(k)
  BY Tables DEF Good
<1> QED BY <1>1 DEF NoGrab, Grab, Held

LEMMA GrabInputServed ==
  ASSUME ServerConstants, NEW k, Good(k), k.released = None, NEW r, r.c \in Client
  PROVE  Served(GrabPointer(k, r)) /\ Served(GrabKeyboard(k, r)) /\ Served(UngrabInput(k, r))
<1> DEFINE g == [client |-> r.c, window |-> r.id]
<1>1. Parted(k) /\ Served(Quiet(k)) /\ Served(Error(k, r))
  BY Unreleased, Answered
<1>2. ASSUME NEW held, Grabbing(k, r, held) PROVE g \in Grab /\ Held(k, g)
  <2>1. r.id \in Windows(k) /\ r.id \in Wid /\ None \notin Client
    BY <1>2, Tables DEF Grabbing, Good, ServerConstants
  <2> QED BY <2>1 DEF Grab, Held
<1>3. Served(GrabPointer(k, r))
  <2>1. CASE Grabbing(k, r, k.pointer)
    <3>1. g \in Grab /\ Held(k, g)
      BY <1>2, <2>1
    <3>2. GrabPointer(k, r) = Error([k EXCEPT !.pointer = g], r)
      BY <2>1 DEF GrabPointer
    <3> HIDE DEF g
    <3>3. Good([k EXCEPT !.pointer = g]) /\ Parted([k EXCEPT !.pointer = g])
      BY <3>1, GrabsGood
    <3> QED BY <3>2, <3>3, Answered
  <2>2. CASE ~Grabbing(k, r, k.pointer)
    BY <1>1, <2>2 DEF GrabPointer
  <2> QED BY <2>1, <2>2
<1>4. Served(GrabKeyboard(k, r))
  <2>1. CASE Grabbing(k, r, k.keyboard)
    <3>1. g \in Grab /\ Held(k, g)
      BY <1>2, <2>1
    <3>2. GrabKeyboard(k, r) = Error([k EXCEPT !.keyboard = g], r)
      BY <2>1 DEF GrabKeyboard
    <3> HIDE DEF g
    <3>3. Good([k EXCEPT !.keyboard = g]) /\ Parted([k EXCEPT !.keyboard = g])
      BY <3>1, GrabsGood
    <3> QED BY <3>2, <3>3, Answered
  <2>2. CASE ~Grabbing(k, r, k.keyboard)
    BY <1>1, <2>2 DEF GrabKeyboard
  <2> QED BY <2>1, <2>2
<1>5. Served(UngrabInput(k, r))
  <2>1. /\ Good([k EXCEPT !.pointer = NoGrab]) /\ Parted([k EXCEPT !.pointer = NoGrab])
        /\ Good([k EXCEPT !.keyboard = NoGrab]) /\ Parted([k EXCEPT !.keyboard = NoGrab])
    BY NoGrabHeld, GrabsGood
  <2>2. Served(Quiet([k EXCEPT !.pointer = NoGrab])) /\ Served(Quiet([k EXCEPT !.keyboard = NoGrab]))
    BY <2>1, Answered
  <2>3. UngrabInput(k, r) \in {Quiet(k), Quiet([k EXCEPT !.pointer = NoGrab]), Quiet([k EXCEPT !.keyboard = NoGrab])}
    BY DEF UngrabInput
  <2> QED BY <1>1, <2>2, <2>3
<1> QED BY <1>3, <1>4, <1>5

LEMMA PropertyServed ==
  ASSUME ServerConstants, NEW k, Good(k), k.released = None, NEW r, r.c \in Client, r.atom \in Atom
  PROVE  Served(ChangeProperty(k, r)) /\ Served(DeleteProperty(k, r)) /\ Served(GetProperty(k, r))
<1> DEFINE p == [window |-> r.id, atom |-> r.atom]
           d == [k EXCEPT !.prop = @ \cup {p}]
           e == [k EXCEPT !.prop = @ \ {p}]
           c == property_notify(k, r.id)
<1>1. Parted(k) /\ Served(Error(k, r))
  BY Unreleased, Answered
<1>2. c \in Client \cup {None}
  BY Told
<1>3. ASSUME ValidWindow(k, r.id) PROVE Good(d) /\ Parted(d)
  <2>1. r.id \in Wid \cup {Root}
    BY <1>3, Tables DEF ValidWindow, Good
  <2>2. p \in [window : Wid \cup {Root}, atom : Atom] /\ p.window = r.id
    BY <2>1
  <2>3. d = [k EXCEPT !.prop = k.prop \cup {p}]
    OBVIOUS
  <2> HIDE DEF p, d
  <2> DEFINE P == k.prop \cup {p}
  <2>4. P \in Properties /\ \A q \in P : ValidWindow(k, q.window)
    BY <1>3, <2>2, Kept DEF Properties
  <2> HIDE DEF P
  <2>5. Good([k EXCEPT !.prop = P]) /\ Parted([k EXCEPT !.prop = P])
    BY <2>4, PropertiesGood
  <2> QED BY <2>3, <2>5 DEF P
<1>4. Good(e) /\ Parted(e)
  <2> DEFINE P == k.prop \ {p}
  <2>1. P \in Properties /\ \A q \in P : ValidWindow(k, q.window)
    BY Kept DEF Properties
  <2>2. e = [k EXCEPT !.prop = P]
    OBVIOUS
  <2> HIDE DEF P, e
  <2>3. Good([k EXCEPT !.prop = P]) /\ Parted([k EXCEPT !.prop = P])
    BY <2>1, PropertiesGood
  <2> QED BY <2>2, <2>3
<1>5. Served(ChangeProperty(k, r))
  <2>1. \/ ChangeProperty(k, r) = Error(k, r)
        \/ ValidWindow(k, r.id) /\ ChangeProperty(k, r) \in {Error(d, r), <<d, c>>}
    BY DEF ChangeProperty
  <2> HIDE DEF d, c
  <2>2. ASSUME ValidWindow(k, r.id) PROVE Served(Error(d, r)) /\ Served(<<d, c>>)
    BY <1>2, <1>3, <2>2, Answered
  <2> QED BY <1>1, <2>1, <2>2
<1>6. Served(DeleteProperty(k, r))
  <2>1. DeleteProperty(k, r) = <<e, c>>
    BY DEF DeleteProperty
  <2> HIDE DEF e, c
  <2> QED BY <1>2, <1>4, <2>1, Answered
<1>7. Served(GetProperty(k, r))
  <2>1. GetProperty(k, r) \in {Error(e, r), Error(k, r)}
    BY DEF GetProperty
  <2> HIDE DEF e
  <2>2. Served(Error(e, r))
    BY <1>4, Answered
  <2> QED BY <1>1, <2>1, <2>2
<1> QED BY <1>5, <1>6, <1>7

-----------------------------------------------------------------------------
(* Cursors, pixmaps, contexts and new windows.                             *)

LEMMA TablesTyped ==
  ASSUME NEW k \in State
  PROVE  /\ \A win \in WindowTable, cur \in CursorTable :
              [k EXCEPT !.win = win, !.cur = cur] \in State
         /\ \A pix \in PixmapTable, n \in Int :
              [k EXCEPT !.pix = pix, !.handles = n] \in State
<1>1. ASSUME NEW win \in WindowTable, NEW cur \in CursorTable
      PROVE  [k EXCEPT !.win = win, !.cur = cur] \in State
  BY DEF State
<1>2. ASSUME NEW pix \in PixmapTable, NEW n \in Int
      PROVE  [k EXCEPT !.pix = pix, !.handles = n] \in State
  BY DEF State
<1> QED BY <1>1, <1>2

LEMMA CreateCursorServed ==
  ASSUME ServerConstants, NEW k, Good(k), k.released = None, NEW r, r.c \in Client, r.id \in Cid
  PROVE  Served(CreateFontCursor(k, r))
<1> DEFINE d == [k EXCEPT !.cur[r.id] = [owner |-> r.c]]
           cur == [k.cur EXCEPT ![r.id] = [owner |-> r.c]]
<1>1. k \in State /\ k.cur \in CursorTable /\ None \notin Client
  BY DEF Good, State, ServerConstants
<1>2. d = [k EXCEPT !.cur = cur]
  BY <1>1 DEF State
<1>3. cur \in CursorTable
  BY <1>1 DEF CursorTable
<1>4. Used(k.cur) \subseteq Used(cur)
  <2>1. DOMAIN k.cur = Cid /\ DOMAIN cur = Cid
    BY <1>1, <1>3 DEF CursorTable
  <2>2. cur[r.id].owner # None /\ \A x \in Cid : x # r.id => cur[x] = k.cur[x]
    BY <1>1 DEF CursorTable
  <2> HIDE DEF cur
  <2> QED BY <2>1, <2>2 DEF Used
<1>5. CreateFontCursor(k, r) =
        When(Base[r.id] = r.c /\ r.id \notin Used(k.cur) /\ Cardinality(Used(k.cur)) < CURSORS, r, k, Quiet(d))
  BY DEF CreateFontCursor
<1> HIDE DEF cur, d
<1>6. /\ d \in State /\ d.win = k.win /\ d.released = k.released /\ d.cur = cur
      /\ d.pix = k.pix /\ d.gc = k.gc /\ d.prop = k.prop /\ d.passive = k.passive
      /\ d.pointer = k.pointer /\ d.keyboard = k.keyboard /\ d.selection = k.selection
      /\ d.handles = k.handles
  BY <1>1, <1>2, <1>3 DEF State
<1>7. Windows(d) = Windows(k) /\ Drawn(d) = Drawn(k)
  BY <1>6 DEF Windows, Drawn
<1>8. Intact(d) /\ Counted(d)
  <2>1. \A w \in Windows(d) : d.win[w].cursor \in Used(d.cur) \cup {None}
    BY <1>4, <1>6, <1>7 DEF Good, Intact
  <2>2. Intact(d)
    BY <1>6, <1>7, <2>1 DEF Good, Intact, Held, ValidWindow
  <2> QED BY <1>6, <1>7, <2>2 DEF Good, Counted
<1>9. Served(Quiet(d)) /\ Parted(k)
  BY <1>6, <1>8, Unreleased, Answered DEF Good
<1> QED BY <1>5, <1>9, Checked

LEMMA FreeCursorServed ==
  ASSUME ServerConstants, NEW k, Good(k), k.released = None, NEW r, r.c \in Client
  PROVE  Served(FreeCursor(k, r))
<1> DEFINE x == r.id
           shown(a) == [a EXCEPT !.cursor = IF @ = x THEN None ELSE @]
           win == [w \in Wid |-> IF k.win[w] = Free THEN Free ELSE shown(k.win[w])]
           cur == [k.cur EXCEPT ![x] = Free]
           e == [k EXCEPT !.win = win]
           d == [e EXCEPT !.cur[x] = Free]
<1>1. k \in State /\ k.cur \in CursorTable /\ None \notin Client
  BY DEF Good, State, ServerConstants
<1>2. FreeCursor(k, r) = When(x \in Used(k.cur) /\ k.cur[x].owner = r.c, r, k, Quiet(d))
  BY DEF FreeCursor, MapWins
<1>3. ASSUME NEW a \in Window
      PROVE  /\ shown(a) \in Window /\ shown(a).surface = a.surface /\ shown(a) # Free
             /\ shown(a).cursor = IF a.cursor = x THEN None ELSE a.cursor
  <2>1. /\ shown(a) \in Window /\ shown(a).owner = a.owner /\ shown(a).surface = a.surface
        /\ shown(a).cursor = IF a.cursor = x THEN None ELSE a.cursor
    BY DEF Window
  <2>2. shown(a).owner # None /\ Free.owner = None
    BY <1>1, <2>1 DEF Window, Free
  <2> QED BY <2>1, <2>2
<1> HIDE DEF shown
<1>4. win \in WindowTable
  BY <1>1, <1>3 DEF State, WindowTable
<1>5. cur \in CursorTable
  BY <1>1 DEF CursorTable
<1>6. d = [k EXCEPT !.win = win, !.cur = cur]
  <2> HIDE DEF win
  <2> QED BY <1>1 DEF State
<1> HIDE DEF win, cur, d
<1>7. /\ d.win = win /\ d.released = k.released /\ d.cur = cur
      /\ d.pix = k.pix /\ d.gc = k.gc /\ d.prop = k.prop /\ d.passive = k.passive
      /\ d.pointer = k.pointer /\ d.keyboard = k.keyboard /\ d.selection = k.selection
      /\ d.handles = k.handles
  BY <1>1, <1>6 DEF State
<1>8. d \in State
  <2>1. [k EXCEPT !.win = win, !.cur = cur] \in State
    BY <1>1, <1>4, <1>5, TablesTyped
  <2> QED BY <1>6, <2>1
<1>9. /\ Windows(d) \subseteq Wid /\ (\A v \in Wid : v \in Windows(d) <=> d.win[v] # Free)
      /\ Windows(k) \subseteq Wid /\ (\A v \in Wid : v \in Windows(k) <=> k.win[v] # Free)
      /\ \A w \in Windows(k) : k.win[w] \in Window
  BY <1>1, <1>8, Tables
<1>10. Windows(d) = Windows(k)
  <2>1. ASSUME NEW w \in Wid PROVE w \in Windows(d) <=> w \in Windows(k)
    BY <1>3, <1>7, <1>9 DEF win
  <2> QED BY <1>9, <2>1
<1>11. ASSUME NEW w \in Windows(d)
       PROVE  /\ d.win[w].surface = k.win[w].surface
              /\ d.win[w].cursor = IF k.win[w].cursor = x THEN None ELSE k.win[w].cursor
  <2>1. w \in Wid /\ k.win[w] \in Window /\ k.win[w] # Free
    BY <1>9, <1>10
  <2>2. d.win[w] = shown(k.win[w])
    BY <1>7, <2>1 DEF win
  <2> QED BY <1>3, <2>1, <2>2
<1>12. Drawn(d) = Drawn(k)
  BY <1>10, <1>11 DEF Drawn
<1>13. Intact(d) /\ Counted(d)
  <2>1. ASSUME NEW w \in Windows(d) PROVE d.win[w].cursor \in Used(d.cur) \cup {None}
    <3>1. k.win[w].cursor \in Used(k.cur) \cup {None}
      BY <1>10 DEF Good, Intact
    <3>2. ASSUME NEW y \in Used(k.cur), y # x PROVE y \in Used(cur)
      BY <1>1, <1>5, <3>2 DEF Used, cur
    <3> QED BY <1>7, <1>11, <3>1, <3>2
  <2>2. Intact(d)
    BY <1>7, <1>10, <2>1 DEF Good, Intact, Held, ValidWindow
  <2> QED BY <1>7, <1>12, <2>2 DEF Good, Counted
<1>14. Served(Quiet(d)) /\ Parted(k)
  BY <1>7, <1>8, <1>13, Unreleased, Answered DEF Good
<1> HIDE DEF x
<1> QED BY <1>2, <1>14, Checked

(* The pixmaps become pix, the handles n.                                  *)
LEMMA PixmapsServed ==
  ASSUME ServerConstants, NEW k, Good(k), k.released = None,
         NEW pix \in PixmapTable, NEW n \in Int,
         n - k.handles = Cardinality(Used(pix)) - Cardinality(Used(k.pix)),
         NEW d, d = [k EXCEPT !.pix = pix, !.handles = n]
  PROVE  Served(Quiet(d))
<1>1. k \in State /\ k.handles \in Int
  BY DEF Good, State
<1>2. /\ d.win = k.win /\ d.released = k.released /\ d.cur = k.cur
      /\ d.pix = pix /\ d.gc = k.gc /\ d.prop = k.prop /\ d.passive = k.passive
      /\ d.pointer = k.pointer /\ d.keyboard = k.keyboard /\ d.selection = k.selection
      /\ d.handles = n
  BY <1>1 DEF State
<1>3. d \in State
  <2>1. [k EXCEPT !.pix = pix, !.handles = n] \in State
    BY <1>1, TablesTyped
  <2> QED BY <2>1
<1>4. Windows(d) = Windows(k) /\ Drawn(d) = Drawn(k)
  BY <1>2 DEF Windows, Drawn
<1>5. Intact(d)
  BY <1>2, <1>4 DEF Good, Intact, Held, ValidWindow
<1>6. Counted(d)
  <2>1. /\ Cardinality(Drawn(k)) \in Nat /\ Cardinality(Used(pix)) \in Nat
        /\ Cardinality(Used(k.pix)) \in Nat
    BY <1>1, <1>2, <1>3, Tables, FS_CardinalityType
  <2>2. k.handles = Cardinality(Drawn(k)) + Cardinality(Used(k.pix))
    BY DEF Good, Counted
  <2>3. n = Cardinality(Drawn(k)) + Cardinality(Used(pix))
    BY <1>1, <2>1, <2>2
  <2> QED BY <1>2, <1>4, <2>3 DEF Counted
<1> QED BY <1>2, <1>3, <1>5, <1>6, Unreleased, Answered DEF Good

LEMMA CreatePixmapServed ==
  ASSUME ServerConstants, NEW k, Good(k), k.released = None, NEW r, r.c \in Client, r.id \in Pid, NEW env
  PROVE  Served(CreatePixmap(k, r, env))
<1> DEFINE d == [k EXCEPT !.pix[r.id] = [owner |-> r.c], !.handles = @ + 1]
           pix == [k.pix EXCEPT ![r.id] = [owner |-> r.c]]
           b == r.id \notin Used(k.pix) /\ Cardinality(Used(k.pix)) < PIXMAPS /\ env # "surface"
<1>1. /\ k \in State /\ k.pix \in PixmapTable /\ k.handles \in Int
      /\ None \notin Client /\ IsFiniteSet(Used(k.pix)) /\ Cardinality(Used(k.pix)) \in Nat
  BY Tables, FS_CardinalityType DEF Good, State, ServerConstants
<1>2. d = [k EXCEPT !.pix = pix, !.handles = k.handles + 1]
  BY <1>1 DEF State
<1>3. pix \in PixmapTable /\ k.handles + 1 \in Int
  BY <1>1 DEF PixmapTable
<1>4. ASSUME b PROVE Served(Quiet(d))
  <2>1. DOMAIN k.pix = Pid /\ DOMAIN pix = Pid
    BY <1>1, <1>3 DEF PixmapTable
  <2>2. pix[r.id].owner # None /\ \A x \in Pid : x # r.id => pix[x] = k.pix[x]
    BY <1>1 DEF PixmapTable
  <2> HIDE DEF pix, d
  <2>3. Used(pix) = Used(k.pix) \cup {r.id}
    BY <2>1, <2>2 DEF Used
  <2>4. Cardinality(Used(pix)) = Cardinality(Used(k.pix)) + 1
    BY <1>1, <1>4, <2>3, FS_AddElement
  <2>5. (k.handles + 1) - k.handles = Cardinality(Used(pix)) - Cardinality(Used(k.pix))
    BY <1>1, <2>4
  <2> QED BY <1>2, <1>3, <2>5, PixmapsServed
<1>5. CreatePixmap(k, r, env) = When(b, r, k, Quiet(d)) /\ Parted(k)
  BY Unreleased DEF CreatePixmap
<1> HIDE DEF b, d
<1> QED BY <1>4, <1>5, Checked

LEMMA FreePixmapServed ==
  ASSUME ServerConstants, NEW k, Good(k), k.released = None, NEW r, r.c \in Client
  PROVE  Served(FreePixmap(k, r))
<1> DEFINE d == [k EXCEPT !.pix[r.id] = Free, !.handles = @ - 1]
           pix == [k.pix EXCEPT ![r.id] = Free]
           b == r.id \in Used(k.pix) /\ k.pix[r.id].owner = r.c
<1>1. /\ k \in State /\ k.pix \in PixmapTable /\ k.handles \in Int
      /\ None \notin Client /\ IsFiniteSet(Used(k.pix)) /\ Cardinality(Used(k.pix)) \in Nat
  BY Tables, FS_CardinalityType DEF Good, State, ServerConstants
<1>2. d = [k EXCEPT !.pix = pix, !.handles = k.handles - 1]
  BY <1>1 DEF State
<1>3. pix \in PixmapTable /\ k.handles - 1 \in Int
  <2>1. ASSUME NEW p \in Pid PROVE pix[p] \in [owner : Client] \cup {Free}
    BY <1>1 DEF PixmapTable
  <2>2. pix = [p \in Pid |-> pix[p]]
    BY <1>1 DEF PixmapTable
  <2>3. k.handles - 1 \in Int
    BY <1>1
  <2> HIDE DEF pix
  <2> QED BY <2>1, <2>2, <2>3 DEF PixmapTable
<1>4. ASSUME b PROVE Served(Quiet(d))
  <2>1. DOMAIN k.pix = Pid /\ DOMAIN pix = Pid /\ r.id \in Pid
    BY <1>1, <1>3, <1>4 DEF Used, PixmapTable
  <2>2. pix[r.id] = Free /\ Free.owner = None /\ \A x \in Pid : x # r.id => pix[x] = k.pix[x]
    BY <1>1, <2>1 DEF Free
  <2> HIDE DEF pix, d
  <2>3. Used(pix) = Used(k.pix) \ {r.id}
    BY <2>1, <2>2 DEF Used
  <2>4. Cardinality(Used(pix)) = Cardinality(Used(k.pix)) - 1
    <3>1. Cardinality(Used(k.pix) \ {r.id}) = Cardinality(Used(k.pix)) - 1
      BY <1>1, <1>4, FS_RemoveElement
    <3> QED BY <2>3, <3>1
  <2>5. (k.handles - 1) - k.handles = Cardinality(Used(pix)) - Cardinality(Used(k.pix))
    BY <1>1, <2>4
  <2> QED BY <1>2, <1>3, <2>5, PixmapsServed
<1>5. FreePixmap(k, r) = When(b, r, k, Quiet(d)) /\ Parted(k)
  BY Unreleased DEF FreePixmap
<1> HIDE DEF b, d
<1> QED BY <1>4, <1>5, Checked

(* The contexts become gc.                                                 *)
LEMMA ContextsServed ==
  ASSUME ServerConstants, NEW k, Good(k), k.released = None,
         NEW gc \in ContextTable,
         \A g \in Used(gc) : gc[g].drawable \in Windows(k) \cup Pid,
         NEW d, d = [k EXCEPT !.gc = gc]
  PROVE  Served(Quiet(d))
<1>1. k \in State
  BY DEF Good
<1>2. /\ d.win = k.win /\ d.released = k.released /\ d.cur = k.cur
      /\ d.pix = k.pix /\ d.gc = gc /\ d.prop = k.prop /\ d.passive = k.passive
      /\ d.pointer = k.pointer /\ d.keyboard = k.keyboard /\ d.selection = k.selection
      /\ d.handles = k.handles
  BY <1>1 DEF State
<1>3. d \in State
  <2>1. [k EXCEPT !.gc = gc] \in State
    BY <1>1 DEF State
  <2> QED BY <2>1
<1>4. Windows(d) = Windows(k) /\ Drawn(d) = Drawn(k)
  BY <1>2 DEF Windows, Drawn
<1>5. Intact(d)
  BY <1>2, <1>4 DEF Good, Intact, Held, ValidWindow
<1>6. Counted(d)
  BY <1>2, <1>4 DEF Good, Counted
<1> QED BY <1>2, <1>3, <1>5, <1>6, Unreleased, Answered DEF Good

LEMMA CreateGCServed ==
  ASSUME ServerConstants, NEW k, Good(k), k.released = None, NEW r, r.c \in Client, r.id \in Gid
  PROVE  Served(CreateGC(k, r))
<1> DEFINE a == [owner |-> r.c, drawable |-> r.drawable]
           d == [k EXCEPT !.gc[r.id] = a]
           gc == [k.gc EXCEPT ![r.id] = a]
           b == /\ valid_drawable(k, r.drawable) /\ Base[r.id] = r.c
                /\ r.id \notin Used(k.gc) /\ Cardinality(Used(k.gc)) < GCS
<1>1. k \in State /\ k.gc \in ContextTable
  BY DEF Good, State
<1>2. d = [k EXCEPT !.gc = gc]
  BY <1>1 DEF State
<1>3. ASSUME b PROVE Served(Quiet(d))
  <2>1. r.drawable \in Windows(k) \cup Pid /\ r.drawable \in Wid \cup Pid
    BY <1>1, <1>3, Tables DEF valid_drawable
  <2>2. a \in [owner : Client, drawable : Wid \cup Pid] /\ a.drawable = r.drawable
    BY <2>1
  <2> HIDE DEF a
  <2>3. gc \in ContextTable
    BY <1>1, <2>2 DEF ContextTable
  <2>4. ASSUME NEW g \in Used(gc) PROVE gc[g].drawable \in Windows(k) \cup Pid
    <3>1. g \in Gid
      BY <2>3 DEF Used, ContextTable
    <3>2. CASE g = r.id
      BY <1>1, <2>1, <2>2, <3>2 DEF ContextTable
    <3>3. CASE g # r.id
      <4>1. gc[g] = k.gc[g] /\ g \in Used(k.gc)
        BY <1>1, <2>4, <3>1, <3>3 DEF Used
      <4> QED BY <4>1 DEF Good, Intact
    <3> QED BY <3>2, <3>3
  <2> HIDE DEF gc, d
  <2> QED BY <1>2, <2>3, <2>4, ContextsServed
<1>4. CreateGC(k, r) = When(b, r, k, Quiet(d)) /\ Parted(k)
  BY Unreleased DEF CreateGC
<1> HIDE DEF b, d
<1> QED BY <1>3, <1>4, Checked

LEMMA FreeGCServed ==
  ASSUME ServerConstants, NEW k, Good(k), k.released = None, NEW r, r.c \in Client
  PROVE  Served(FreeGC(k, r))
<1> DEFINE d == [k EXCEPT !.gc[r.gc] = Free]
           gc == [k.gc EXCEPT ![r.gc] = Free]
<1>1. k \in State /\ k.gc \in ContextTable
  BY DEF Good, State
<1>2. d = [k EXCEPT !.gc = gc]
  BY <1>1 DEF State
<1>3. gc \in ContextTable
  BY <1>1 DEF ContextTable
<1>4. ASSUME NEW g \in Used(gc) PROVE gc[g].drawable \in Windows(k) \cup Pid
  <2>1. g \in Gid /\ gc[g].owner # None /\ Free.owner = None
    BY <1>3 DEF Used, Free, ContextTable
  <2>2. g # r.gc
    BY <1>1, <2>1 DEF ContextTable
  <2>3. gc[g] = k.gc[g] /\ g \in Used(k.gc)
    BY <1>1, <2>1, <2>2 DEF Used
  <2> QED BY <2>3 DEF Good, Intact
<1> HIDE DEF gc, d
<1>5. Served(Quiet(d)) /\ Parted(k)
  BY <1>2, <1>3, <1>4, ContextsServed, Unreleased
<1> QED BY <1>5, Checked DEF FreeGC, d

LEMMA CreateWindowServed ==
  ASSUME ServerConstants, NEW k, Good(k), k.released = None, NEW r, r.c \in Client, r.id \in Wid
  PROVE  Served(CreateWindow(k, r))
<1> DEFINE a == [owner |-> r.c, parent |-> Root, mapped |-> FALSE, surface |-> "none", published |-> FALSE,
                 mask |-> {}, reader |-> None, keyreader |-> None, cursor |-> None, saved |-> None]
           d == [k EXCEPT !.win[r.id] = a]
           win == [k.win EXCEPT ![r.id] = a]
           b == Base[r.id] = r.c /\ r.id \notin Windows(k) /\ Cardinality(Windows(k)) < WINDOWS
<1>1. k \in State /\ k.win \in WindowTable
  BY DEF Good, State
<1>2. d = [k EXCEPT !.win = win]
  BY <1>1 DEF State
<1>3. a \in Window /\ a.cursor = None /\ a.surface = "none" /\ a.owner # None /\ Free.owner = None
  BY DEF Window, Free, ServerConstants
<1>4. CreateWindow(k, r) = When(b, r, k, Quiet(d)) /\ Parted(k)
  BY Unreleased DEF CreateWindow
<1> HIDE DEF a
<1>5. /\ win \in WindowTable /\ win[r.id] = a
      /\ \A w \in Wid : w # r.id => win[w] = k.win[w]
  BY <1>1, <1>3 DEF WindowTable
<1> HIDE DEF win, d
<1>6. /\ d.win = win /\ d.released = k.released /\ d.cur = k.cur
      /\ d.pix = k.pix /\ d.gc = k.gc /\ d.prop = k.prop /\ d.passive = k.passive
      /\ d.pointer = k.pointer /\ d.keyboard = k.keyboard /\ d.selection = k.selection
      /\ d.handles = k.handles
  BY <1>1, <1>2 DEF State
<1>7. d \in State
  <2>1. k.cur \in CursorTable
    BY <1>1 DEF State
  <2>2. d = [k EXCEPT !.win = win, !.cur = k.cur]
    BY <1>1, <1>2 DEF State
  <2> QED BY <1>1, <1>5, <2>1, <2>2, TablesTyped
<1>8. Windows(d) = Windows(k) \cup {r.id}
  <2>1. /\ Windows(d) \subseteq Wid /\ (\A v \in Wid : v \in Windows(d) <=> d.win[v] # Free)
        /\ Windows(k) \subseteq Wid /\ (\A v \in Wid : v \in Windows(k) <=> k.win[v] # Free)
    BY <1>1, <1>7, Tables
  <2>2. ASSUME NEW w \in Wid PROVE w \in Windows(d) <=> w \in Windows(k) \cup {r.id}
    BY <1>3, <1>5, <1>6, <2>1
  <2> QED BY <2>1, <2>2
<1>9. ASSUME b PROVE Served(Quiet(d))
  <2>1. \A w \in Windows(k) : d.win[w] = k.win[w]
    BY <1>1, <1>5, <1>6, <1>9, Tables
  <2>2. Drawn(d) = Drawn(k)
    BY <1>3, <1>5, <1>6, <1>8, <1>9, <2>1 DEF Drawn
  <2>3. \A w \in Windows(d) : d.win[w].cursor \in Used(d.cur) \cup {None}
    BY <1>3, <1>5, <1>6, <1>8, <2>1 DEF Good, Intact
  <2>4. Intact(d)
    BY <1>6, <1>8, <2>3 DEF Good, Intact, Held, ValidWindow
  <2>5. Counted(d)
    BY <1>6, <2>2 DEF Good, Counted
  <2> QED BY <1>6, <1>7, <2>4, <2>5, Unreleased, Answered DEF Good
<1> HIDE DEF b
<1> QED BY <1>4, <1>9, Checked

-----------------------------------------------------------------------------
(* The other requests, and what is sent to clients.                        *)

LEMMA SendGood ==
  ASSUME ServerConstants, NEW k, Good(k), Parted(k), NEW c \in Client \cup {None}, NEW env
  PROVE  Good(send_outgoing(k, c, env)) /\ Parted(send_outgoing(k, c, env))
<1>1. CASE c # None /\ (c \in k.gone \/ env = "reply")
  <2>1. c \in Client /\ send_outgoing(k, c, env) = release_client(k, c, env)
    BY <1>1 DEF send_outgoing
  <2> QED BY <2>1, ReleaseGood
<1>2. CASE ~(c # None /\ (c \in k.gone \/ env = "reply"))
  BY <1>2 DEF send_outgoing
<1> QED BY <1>1, <1>2

LEMMA FocusServed ==
  ASSUME ServerConstants, NEW k, Good(k), k.released = None, NEW r, r.c \in Client, r.id \in Windows(k), NEW env
  PROVE  Served(SetInputFocus(k, r, env))
<1> DEFINE out == IF k.focus \in Windows(k) THEN Selected(k, k.focus, "focus") ELSE None
           told == send_outgoing(k, out, env)
           d == [told EXCEPT !.focus = r.id]
           c == Selected(k, r.id, "focus")
<1>1. Parted(k) /\ Served(Error(k, r)) /\ Served(Quiet(k))
  BY Unreleased, Answered
<1>2. out \in Client \cup {None} /\ c \in Client \cup {None} /\ r.id \in Wid
  BY Told, Entry
<1>3. SetInputFocus(k, r, env) \in {Error(k, r), Quiet(k), <<d, c>>}
  BY DEF SetInputFocus
<1> HIDE DEF out
<1>4. Good(told) /\ Parted(told)
  BY <1>1, <1>2, SendGood
<1> HIDE DEF told, c
<1>5. Good(d) /\ Parted(d)
  <2>1. told \in State
    BY <1>4 DEF Good
  <2>2. /\ d \in State /\ d.win = told.win /\ d.released = told.released /\ d.cur = told.cur
        /\ d.pix = told.pix /\ d.gc = told.gc /\ d.prop = told.prop /\ d.passive = told.passive
        /\ d.pointer = told.pointer /\ d.keyboard = told.keyboard /\ d.selection = told.selection
        /\ d.handles = told.handles /\ d.server = told.server /\ d.root = told.root
    BY <1>2, <2>1 DEF State
  <2> HIDE DEF d
  <2>3. Good(d)
    BY <1>4, <2>2, Untouched
  <2>4. Parted(d)
    BY <1>4, <2>2 DEF Parted
  <2> QED BY <2>3, <2>4
<1> HIDE DEF d
<1>6. Served(<<d, c>>)
  BY <1>2, <1>5, Answered
<1> QED BY <1>1, <1>3, <1>6

LEMMA KillServed ==
  ASSUME ServerConstants, NEW k, Good(k), k.released = None, NEW r, r.c \in Client, NEW env
  PROVE  Served(KillClient(k, r, env))
<1> DEFINE c == OwnerOf(k, r.id)
           d == release_client(k, c, env)
<1>1. c \in Client \cup {None}
  <2>1. k \in State
    BY DEF Good
  <2>2. \A w \in Windows(k) : k.win[w].owner \in Client
    BY Entry
  <2>3. \A p \in Used(k.pix) : k.pix[p].owner \in Client
    BY <2>1, Tables
  <2>4. \A g \in Used(k.gc) : k.gc[g].owner \in Client
    BY <2>1, Tables
  <2>5. \A x \in Used(k.cur) : k.cur[x].owner \in Client
    <3>1. ASSUME NEW x \in Used(k.cur) PROVE k.cur[x].owner \in Client
      <4>1. x \in Cid /\ k.cur[x].owner # None /\ Free.owner = None
        BY <2>1, Tables DEF Used, Free
      <4>2. k.cur[x] \in [owner : Client] \cup {Free}
        BY <2>1, <4>1 DEF State, CursorTable
      <4> QED BY <4>1, <4>2
    <3> QED BY <3>1
  <2> QED BY <2>2, <2>3, <2>4, <2>5 DEF OwnerOf
<1>2. ASSUME c # None PROVE Served(Quiet(d))
  <2>1. c \in Client
    BY <1>1, <1>2
  <2> HIDE DEF c
  <2>2. Good(d) /\ Parted(d)
    BY <2>1, ReleaseGood
  <2> QED BY <2>2, Answered
<1>3. Parted(k) /\ KillClient(k, r, env) = When(c # None, r, k, Quiet(d))
  BY Unreleased DEF KillClient
<1> HIDE DEF d, c
<1> QED BY <1>2, <1>3, Checked

LEMMA DrawServed ==
  ASSUME ServerConstants, NEW k, Good(k), k.released = None, NEW r, r.c \in Client, NEW env
  PROVE  Served(Draw(k, r, env))
<1> DEFINE e == create_window_surface(k, r.id, env)
           d == IF r.id \in Windows(k) THEN e ELSE k
           b == valid_drawable(k, r.id) /\ OwnGC(k, r) /\ k.gc[r.gc].drawable = r.id
<1>1. Draw(k, r, env) = When(b, r, k, Quiet(d)) /\ Parted(k)
  BY Unreleased DEF Draw
<1>2. ASSUME r.id \in Windows(k) PROVE Good(e) /\ Parted(e)
  BY <1>2, SurfaceGood, Unreleased
<1> HIDE DEF e
<1>3. Good(d) /\ Parted(d)
  BY <1>1, <1>2
<1> HIDE DEF d, b
<1>4. Served(Quiet(d))
  BY <1>3, Answered
<1> QED BY <1>1, <1>4, Checked

-----------------------------------------------------------------------------
(* Every request, native event and exit keeps the tables.                  *)

LEMMA OnWindowServed ==
  ASSUME ServerConstants, NEW k, Good(k), k.released = None, NEW r, WellFormed(r), r.id \in Windows(k), NEW env,
         r.op \in {"focus", "map", "select", "configure", "unmap", "reparent", "clear", "destroy"}
  PROVE  Served(OnWindow(k, r, env))
<1>1. r.c \in Client /\ (r.op = "select" => r.mask \subseteq Masks)
  BY DEF WellFormed
<1>2. CASE r.op = "focus"
  BY <1>1, <1>2, FocusServed DEF OnWindow
<1>3. CASE r.op = "map"
  BY <1>3, MapServed DEF OnWindow
<1>4. CASE r.op = "select"
  BY <1>1, <1>4, SelectServed DEF OnWindow
<1>5. CASE r.op = "configure"
  BY <1>5, ConfigureServed DEF OnWindow
<1>6. CASE r.op = "unmap"
  BY <1>6, UnmapServed DEF OnWindow
<1>7. CASE r.op = "reparent"
  BY <1>1, <1>7, ReparentServed DEF OnWindow
<1>8. CASE r.op = "clear"
  <2> DEFINE d == create_window_surface(k, r.id, env)
  <2>1. OnWindow(k, r, env) = Quiet(d)
    BY <1>8 DEF OnWindow
  <2>2. Good(d) /\ d.released = None
    BY SurfaceGood
  <2> HIDE DEF d
  <2> QED BY <2>1, <2>2, Unreleased, Answered
<1>9. CASE r.op = "destroy"
  <2> DEFINE W == {r.id}
             d == destroy_window_state(k, W, env)
  <2>1. OnWindow(k, r, env) = Quiet(d) /\ W \subseteq Windows(k)
    BY <1>9 DEF OnWindow
  <2> HIDE DEF W
  <2>2. Good(d) /\ d.released = None
    BY <2>1, DestroyGood
  <2> HIDE DEF d
  <2> QED BY <2>1, <2>2, Unreleased, Answered
<1> QED BY <1>2, <1>3, <1>4, <1>5, <1>6, <1>7, <1>8, <1>9

LEMMA UngrabbedServed ==
  ASSUME ServerConstants, NEW k, Good(k), k.released = None, NEW r, WellFormed(r), NEW env,
         r.op \notin {"grab_server", "ungrab_server"}
  PROVE  Served(Ungrabbed(k, r, env))
<1>1. /\ r.c \in Client /\ r.op \in Operations
      /\ (r.op = "window" => r.id \in Wid) /\ (r.op = "pixmap" => r.id \in Pid)
      /\ (r.op = "gc" => r.id \in Gid) /\ (r.op = "cursor" => r.id \in Cid)
      /\ (r.op = "select" => r.mask \subseteq Masks)
      /\ (r.op \in {"property", "delete_property", "get_property"} => r.atom \in Atom)
      /\ (r.op \in {"grab_key", "ungrab_key"} => r.kind \in {"key", "button"})
  BY DEF WellFormed
<1>2. Parted(k) /\ Served(Error(k, r)) /\ Served(Quiet(k))
  BY <1>1, Unreleased, Answered
<1>3. CASE r.op = "attach"
  BY <1>1, <1>3, AttachServed DEF Ungrabbed
<1>4. CASE r.op = "save_set"
  BY <1>1, <1>4, SaveSetServed DEF Ungrabbed
<1>5. CASE r.op = "warp"
  BY <1>1, <1>2, <1>5 DEF Ungrabbed, WarpPointer, When
<1>6. CASE r.op = "kill"
  BY <1>1, <1>6, KillServed DEF Ungrabbed
<1>7. CASE r.op = "cursor"
  BY <1>1, <1>7, CreateCursorServed DEF Ungrabbed
<1>8. CASE r.op = "define_cursor"
  BY <1>1, <1>8, DefineCursorServed DEF Ungrabbed
<1>9. CASE r.op = "free_cursor"
  BY <1>1, <1>9, FreeCursorServed DEF Ungrabbed
<1>10. CASE r.op = "selection"
  BY <1>1, <1>10, SelectionServed DEF Ungrabbed
<1>11. CASE r.op = "grab_key" \/ r.op = "ungrab_key"
  BY <1>1, <1>11, GrabKeyServed DEF Ungrabbed
<1>12. CASE r.op \in {"grab_pointer", "grab_keyboard", "ungrab_pointer", "ungrab_keyboard"}
  BY <1>1, <1>12, GrabInputServed DEF Ungrabbed
<1>13. CASE r.op \in {"property", "delete_property", "get_property"}
  BY <1>1, <1>13, PropertyServed DEF Ungrabbed
<1>14. CASE r.op = "send_event"
  <2>1. Ungrabbed(k, r, env) = SendEvent(k, r)
    BY <1>14 DEF Ungrabbed
  <2>2. (IF r.id \in Windows(k) THEN k.win[r.id].owner ELSE r.c) \in Client \cup {None}
    BY <1>1, Entry
  <2> QED BY <1>2, <2>1, <2>2, Answered DEF SendEvent
<1>15. CASE r.op = "pixmap"
  BY <1>1, <1>15, CreatePixmapServed DEF Ungrabbed
<1>16. CASE r.op = "free_pixmap"
  BY <1>1, <1>16, FreePixmapServed DEF Ungrabbed
<1>17. CASE r.op = "gc"
  BY <1>1, <1>17, CreateGCServed DEF Ungrabbed
<1>18. CASE r.op = "free_gc"
  BY <1>1, <1>18, FreeGCServed DEF Ungrabbed
<1>19. CASE r.op = "draw"
  BY <1>1, <1>19, DrawServed DEF Ungrabbed
<1>20. CASE r.op = "query"
  BY <1>2, <1>20 DEF Ungrabbed, Query
<1>21. CASE r.op = "window"
  BY <1>1, <1>21, CreateWindowServed DEF Ungrabbed
<1>22. CASE r.op = "select" /\ r.id = Root
  BY <1>1, <1>22, SelectRootServed DEF Ungrabbed
<1>23. CASE /\ r.op \in {"focus", "map", "select", "configure", "unmap", "reparent", "clear", "destroy"}
            /\ ~(r.op = "select" /\ r.id = Root)
  <2>1. Ungrabbed(k, r, env) = IF r.id \in Windows(k) THEN OnWindow(k, r, env) ELSE Error(k, r)
    BY <1>23 DEF Ungrabbed
  <2>2. CASE r.id \in Windows(k)
    BY <1>23, <2>1, <2>2, OnWindowServed
  <2>3. CASE r.id \notin Windows(k)
    BY <1>2, <2>1, <2>3
  <2> QED BY <2>2, <2>3
<1> QED BY <1>1, <1>3, <1>4, <1>5, <1>6, <1>7, <1>8, <1>9, <1>10, <1>11, <1>12, <1>13, <1>14, <1>15,
           <1>16, <1>17, <1>18, <1>19, <1>20, <1>21, <1>22, <1>23 DEF Operations

LEMMA RequestServed ==
  ASSUME ServerConstants, NEW k, Good(k), k.released = None, NEW r, WellFormed(r), NEW env
  PROVE  Served(parse_request(k, r, env))
<1>1. r.c \in Client
  BY DEF WellFormed
<1>2. CASE r.op \in {"grab_server", "ungrab_server"}
  BY <1>1, <1>2, ServerServed DEF parse_request
<1>3. CASE r.op \notin {"grab_server", "ungrab_server"}
  <2>1. parse_request(k, r, env) \in {Error(k, r), Ungrabbed(k, r, env)}
    BY <1>3 DEF parse_request
  <2>2. Served(Error(k, r))
    BY <1>1, Unreleased, Answered
  <2>3. Served(Ungrabbed(k, r, env))
    BY <1>3, UngrabbedServed
  <2> QED BY <2>1, <2>2, <2>3
<1> QED BY <1>2, <1>3

LEMMA FreshGood ==
  ASSUME Good(s)
  PROVE  Good(Fresh) /\ Fresh.released = None /\ Windows(Fresh) = Windows(s)
<1> DEFINE d == [s EXCEPT !.released = None]
<1>1. s \in State
  BY DEF Good
<1>2. /\ d \in State /\ d.win = s.win /\ d.released = None /\ d.cur = s.cur
      /\ d.pix = s.pix /\ d.gc = s.gc /\ d.prop = s.prop /\ d.passive = s.passive
      /\ d.pointer = s.pointer /\ d.keyboard = s.keyboard /\ d.selection = s.selection
      /\ d.handles = s.handles
  BY <1>1 DEF State
<1> HIDE DEF d
<1>3. Windows(d) = Windows(s) /\ Drawn(d) = Drawn(s)
  BY <1>2 DEF Windows, Drawn
<1>4. Intact(d) /\ Counted(d)
  BY <1>2, <1>3 DEF Good, Intact, Held, ValidWindow, Counted
<1> QED BY <1>2, <1>3, <1>4 DEF Good, Fresh, d

LEMMA InitGood == ASSUME ServerConstants, Init PROVE Good(s) /\ Parted(s)
<1> DEFINE win == [w \in Wid |-> Free]
           pix == [p \in Pid |-> Free]
           gc == [g \in Gid |-> Free]
           cur == [c \in Cid |-> Free]
<1>1. /\ win \in WindowTable /\ pix \in PixmapTable
      /\ gc \in ContextTable
      /\ cur \in CursorTable
  BY DEF WindowTable, PixmapTable, ContextTable, CursorTable
<1>2. Used(win) = {} /\ Used(pix) = {} /\ Used(gc) = {}
  BY DEF Used, Free
<1>3. /\ s.win = win /\ s.pix = pix /\ s.gc = gc /\ s.cur = cur /\ s.prop = {} /\ s.passive = {}
      /\ s.pointer = NoGrab /\ s.keyboard = NoGrab /\ s.selection = None /\ s.handles = 0
      /\ s.released = None
  BY DEF Init, NoGrab
<1> HIDE DEF win, pix, gc, cur
<1>4. s \in State
  BY <1>1 DEF Init, State, Grab, win, pix, gc, cur, Properties, Passives, Masked
<1>5. Windows(s) = {} /\ Drawn(s) = {}
  BY <1>2, <1>3 DEF Windows, Drawn
<1>6. Intact(s)
  BY <1>2, <1>3, <1>5 DEF Intact, Held, NoGrab
<1>7. Counted(s)
  BY <1>2, <1>3, <1>5, FS_EmptySet DEF Counted
<1> QED BY <1>3, <1>4, <1>6, <1>7, Unreleased DEF Good

LEMMA NextGood ==
  ASSUME ServerConstants, Good(s), Parted(s), [Next]_s
  PROVE  Good(s') /\ Parted(s')
<1>1. ASSUME NEW r \in Requests, NEW env \in Env, Request(r, env) PROVE Good(s') /\ Parted(s')
  <2> DEFINE x == parse_request(Fresh, r, env)
  <2>1. WellFormed(r)
    BY DEF ServerConstants
  <2>2. Served(x)
    BY <2>1, FreshGood, RequestServed
  <2>3. s' = send_outgoing(x[1], x[2], env)
    BY <1>1 DEF Request
  <2> HIDE DEF x
  <2> QED BY <2>2, <2>3, SendGood DEF Served
<1>2. ASSUME NEW n \in Natives, NEW env \in Env, process_native_input(n, env) PROVE Good(s') /\ Parted(s')
  <2>1. CASE n.op = "close"
    <3> DEFINE W == {n.id}
               d == destroy_window_state(Fresh, W, env)
               c == s.win[n.id].owner
    <3>1. n.id \in Windows(s) /\ s' = send_outgoing(d, c, env)
      BY <1>2, <2>1 DEF process_native_input
    <3>2. W \subseteq Windows(Fresh) /\ c \in Client
      BY <3>1, FreshGood, Entry
    <3> HIDE DEF W, c
    <3>3. Good(d) /\ d.released = None
      BY <3>2, FreshGood, DestroyGood
    <3> HIDE DEF d
    <3> QED BY <3>1, <3>2, <3>3, SendGood, Unreleased
  <2>2. CASE n.op # "close"
    <3>1. PICK c \in NativeReader(s, n) : s' = send_outgoing(Fresh, c, env)
      BY <1>2, <2>2 DEF process_native_input
    <3>2. s \in State /\ s.pointer \in Grab /\ s.keyboard \in Grab
      BY DEF Good, State
    <3>3. s.pointer.client \in Client \cup {None} /\ s.keyboard.client \in Client \cup {None}
      BY <3>2 DEF Grab
    <3>4. \A p \in s.passive : p.client \in Client
      BY <3>2 DEF State, Passives
    <3>5. n.id \in Windows(s) => /\ s.win[n.id].reader \in Client \cup {None}
                                 /\ s.win[n.id].keyreader \in Client \cup {None}
      BY Entry
    <3>6. c \in Client \cup {None}
      BY <3>3, <3>4, <3>5 DEF NativeReader
    <3> QED BY <3>1, <3>6, FreshGood, SendGood, Unreleased
  <2> QED BY <2>1, <2>2
<1>3. ASSUME NEW c \in Client, Exit(c) PROVE Good(s') /\ Parted(s')
  <2> DEFINE k == Fresh
  <2>1. s' = [k EXCEPT !.gone = @ \cup {c}]
    BY <1>3 DEF Exit
  <2>2. Good(k) /\ k.released = None
    BY FreshGood
  <2> HIDE DEF k
  <2>3. k \in State
    BY <2>2 DEF Good
  <2>4. /\ s' \in State /\ s'.win = k.win /\ s'.released = k.released /\ s'.cur = k.cur
        /\ s'.pix = k.pix /\ s'.gc = k.gc /\ s'.prop = k.prop /\ s'.passive = k.passive
        /\ s'.pointer = k.pointer /\ s'.keyboard = k.keyboard /\ s'.selection = k.selection
        /\ s'.handles = k.handles
    BY <2>1, <2>3 DEF State
  <2>5. Good(s')
    BY <2>2, <2>4, Untouched
  <2> QED BY <2>2, <2>4, <2>5, Unreleased
<1>4. CASE UNCHANGED s
  BY <1>4
<1> QED BY <1>1, <1>2, <1>3, <1>4 DEF Next

LEMMA ServerAlways == ServerConstants => (Spec => [](Good(s) /\ Parted(s)))
<1> SUFFICES ASSUME ServerConstants PROVE Spec => [](Good(s) /\ Parted(s))
  OBVIOUS
<1>1. Init => Good(s) /\ Parted(s)
  BY InitGood
<1>2. Good(s) /\ Parted(s) /\ [Next]_s => (Good(s) /\ Parted(s))'
  BY NextGood
<1> QED BY <1>1, <1>2, PTL DEF Spec

-----------------------------------------------------------------------------
(* However clients create, share, kill and destroy, and whichever of their *)
(* processes end, no table of the server names a window that is gone: a    *)
(* window that gets its id inherits nothing from it.                       *)
THEOREM ServerResources == ServerConstants => (Spec => []NoDanglingResources)
<1> SUFFICES ASSUME ServerConstants PROVE Spec => []NoDanglingResources
  OBVIOUS
<1>1. Good(s) => NoDanglingResources
  <2> SUFFICES ASSUME Good(s) PROVE NoDanglingResources
    OBVIOUS
  <2>1. Intact(s) /\ None \notin Windows(s)
    BY Tables DEF Good
  <2>2. \A g \in {s.pointer, s.keyboard} : (g.client = None) = (g.window \notin Windows(s))
    BY <2>1 DEF Intact, Held
  <2> QED BY <2>1, <2>2 DEF Intact, NoDanglingResources
<1> QED BY <1>1, ServerAlways, PTL

(* release_client leaves nothing of the client, in any table, and neither  *)
(* does what the same request does after it.                               *)
THEOREM ServerReleases == ServerConstants => (Spec => []ReleasedClientsOwnNothing)
<1> SUFFICES ASSUME ServerConstants PROVE Spec => []ReleasedClientsOwnNothing
  OBVIOUS
<1>1. Parted(s) => ReleasedClientsOwnNothing
  BY DEF Parted, ReleasedClientsOwnNothing
<1> QED BY <1>1, ServerAlways, PTL

(* The server holds a surface handle for each surface a window or a pixmap *)
(* names and no other, also when the kernel refuses one, a client replaces *)
(* one, or its owner is released.                                          *)
THEOREM ServerHandles == ServerConstants => (Spec => []SurfaceHandlesAreCounted)
<1> SUFFICES ASSUME ServerConstants PROVE Spec => []SurfaceHandlesAreCounted
  OBVIOUS
<1>1. Good(s) => SurfaceHandlesAreCounted
  BY DEF Good, Counted, Drawn, SurfaceHandlesAreCounted
<1> QED BY <1>1, ServerAlways, PTL
=============================================================================
