------------------------------- MODULE DemonX -------------------------------
(***************************************************************************)
(* The resources of the DemonX display server (user/demonx_server.c): its  *)
(* tables, the requests of parse_request, the native events the compositor *)
(* forwards, and what happens when the reply to a client cannot be         *)
(* delivered.                                                              *)
(*                                                                         *)
(* One step is one complete message: the server is one process and its     *)
(* handlers only wait in the receive call of demonx_main.  A resource is   *)
(* its id; tables are functions from id to the slot's fields.  Geometry,   *)
(* pixels, property data and atom names are left out; s.handles counts the *)
(* surface handles the server holds in the kernel, s.desk is the set of    *)
(* windows the compositor was told of.                                     *)
(***************************************************************************)
EXTENDS Integers, FiniteSets

CONSTANTS Client,      \* client ids, 1..DEMONX_MAX_CLIENTS
          Wid, Pid, Gid, Cid,   \* ids of windows, pixmaps, graphics contexts, cursors
          Base,        \* the client whose range an id is from (resource_base)
          Atom,
          WINDOWS, PIXMAPS, GCS, CURSORS, PROPERTIES, PASSIVE,   \* sizes of the tables
          Requests,    \* [op, c, id, ...]: the requests clients send
          Natives      \* [op, id]: what the compositor forwards

VARIABLE s

None == 0
Root == 1
Free == [owner |-> None]
Env == {"ok", "surface", "share", "compositor", "reply"}   \* the one call the kernel refuses
Masks == {"focus", "key", "button", "motion", "structure", "substructure", "redirect", "property"}

Operations ==
  {"grab_server", "ungrab_server", "attach", "save_set", "warp", "kill", "cursor", "define_cursor",
   "free_cursor", "selection", "grab_key", "ungrab_key", "grab_pointer", "grab_keyboard",
   "ungrab_pointer", "ungrab_keyboard", "property", "delete_property", "get_property", "send_event",
   "pixmap", "free_pixmap", "gc", "free_gc", "draw", "query", "window", "focus", "map", "select",
   "configure", "unmap", "reparent", "clear", "destroy"}

(* Ids are of the kind their request makes, and 0 and the root window's    *)
(* id are nobody's.                                                        *)
WellFormed(r) ==
  /\ r.op \in Operations /\ r.c \in Client
  /\ r.op = "window" => r.id \in Wid
  /\ r.op = "pixmap" => r.id \in Pid
  /\ r.op = "gc" => r.id \in Gid
  /\ r.op = "cursor" => r.id \in Cid
  /\ r.op = "select" => r.mask \subseteq Masks
  /\ r.op \in {"property", "delete_property", "get_property"} => r.atom \in Atom
  /\ r.op \in {"grab_key", "ungrab_key"} => r.kind \in {"key", "button"}

ServerConstants ==
  /\ IsFiniteSet(Wid) /\ IsFiniteSet(Pid)
  /\ None \notin Client /\ None \notin Wid /\ Root \notin Wid
  /\ \A r \in Requests : WellFormed(r)

Init ==
  s = [win |-> [w \in Wid |-> Free], pix |-> [p \in Pid |-> Free], gc |-> [g \in Gid |-> Free],
       cur |-> [c \in Cid |-> Free], prop |-> {}, passive |-> {},
       root |-> [mask |-> {}, client |-> None, redirect |-> None],
       focus |-> None, pointer |-> [client |-> None, window |-> None],
       keyboard |-> [client |-> None, window |-> None], server |-> None,
       selection |-> None, handles |-> 0, desk |-> {}, alive |-> TRUE,
       gone |-> {}, released |-> None]

Used(t) == {i \in DOMAIN t : t[i].owner # None}
Windows(k) == Used(k.win)
ValidWindow(k, id) == id = Root \/ id \in Windows(k)
valid_drawable(k, id) == id \in Windows(k) \cup Used(k.pix)
NoGrab == [client |-> None, window |-> None]
MapWins(k, F(_)) == [k EXCEPT !.win = [w \in Wid |-> IF k.win[w] = Free THEN Free ELSE F(k.win[w])]]

(***************************************************************************)
(* Surfaces: a window's surface is None, its own handle or, when the       *)
(* kernel has none left, the shared fallback buffer.                       *)
(***************************************************************************)
create_window_surface(k, w, env) ==
  IF k.win[w].surface # "none" THEN k
  ELSE IF env = "surface" THEN [k EXCEPT !.win[w].surface = "fallback"]
  ELSE [k EXCEPT !.win[w].surface = "own", !.handles = @ + 1]

(* CREATE is sent whenever a window is mapped, the share only the first    *)
(* time; a send that fails leaves the window marked as published.          *)
publish_window(k, w, env) ==
  LET c == create_window_surface(k, w, env)
  IN  IF c.win[w].surface = "fallback" \/ (~c.win[w].published /\ env = "share") THEN c
      ELSE [c EXCEPT !.win[w].published = TRUE,
                     !.desk = IF env = "compositor" THEN @ ELSE @ \cup {w}]

(* For every window of W: release_client calls it in a loop.               *)
close_published_window(k, W, env) ==
  [k EXCEPT !.desk = IF env = "compositor" THEN @ ELSE @ \ {w \in W : k.win[w].published},
            !.handles = @ - Cardinality({w \in W : k.win[w].surface = "own"})]

Descendants(k, w) ==
  LET Below(X) == {d \in Windows(k) : k.win[d].parent \in X}
      down[n \in 0..Cardinality(Wid)] == IF n = 0 THEN Below({w}) ELSE down[n - 1] \cup Below(down[n - 1])
  IN  down[Cardinality(Wid)]

(* The walk below a window follows parent links without a mark: a cycle    *)
(* exhausts the stack.                                                     *)
move_published_descendants(k, w) ==
  IF \E d \in Descendants(k, w) \cup {w} : d \in Descendants(k, d) THEN [k EXCEPT !.alive = FALSE] ELSE k

(***************************************************************************)
(* The end of the windows W, one or all of a client's, and of a client.    *)
(***************************************************************************)
Bug_destroy_window_state(k, W, env) ==
  LET c == close_published_window(k, W, env)
  IN  [c EXCEPT !.win = [w \in Wid |-> IF w \in W THEN Free ELSE @[w]], !.focus = IF @ \in W THEN None ELSE @,
                !.prop = {p \in @ : p.window \notin W}, !.selection = IF @ \in W THEN None ELSE @]
destroy_window_state(k, W, env) ==
  LET c == close_published_window(k, W, env)
  IN  [c EXCEPT !.win = [w \in Wid |-> IF w \in W THEN Free ELSE @[w]],
                !.focus = IF @ \in W THEN None ELSE @,
                !.pointer = IF @.window \in W THEN NoGrab ELSE @,
                !.keyboard = IF @.window \in W THEN NoGrab ELSE @,
                !.selection = IF @ \in W THEN None ELSE @,
                !.prop = {p \in @ : p.window \notin W},
                !.gc = [g \in Gid |-> IF @[g] # Free /\ @[g].drawable \in W THEN Free ELSE @[g]],
                !.passive = {p \in @ : p.window \notin W}]

release_client(k, c, env) ==
  LET d == destroy_window_state(k, {w \in Wid : k.win[w].owner = c}, env)
      dead == {x \in Cid : d.cur[x].owner = c}
      freed == {p \in Pid : d.pix[p].owner = c}
      e == MapWins(d, LAMBDA w : [w EXCEPT !.cursor = IF @ \in dead THEN None ELSE @])
  IN  [e EXCEPT
         !.pix = [p \in Pid |-> IF p \in freed THEN Free ELSE @[p]],
         !.handles = @ - Cardinality(freed),
         !.gc = [g \in Gid |-> IF @[g].owner = c THEN Free ELSE @[g]],
         !.cur = [x \in Cid |-> IF x \in dead THEN Free ELSE @[x]],
         !.passive = {p \in @ : p.client # c},
         !.root = IF @.redirect = c THEN [mask |-> {}, client |-> None, redirect |-> None] ELSE @,
         !.pointer = IF @.client = c THEN NoGrab ELSE @,
         !.keyboard = IF @.client = c THEN NoGrab ELSE @,
         !.server = IF @ = c THEN None ELSE @,
         !.released = c]

(* A reply or an event for c.  The client is gone, or its queue is full    *)
(* also after the reply channel was reopened: all it owned is released.    *)
send_outgoing(k, c, env) ==
  IF c # None /\ (c \in k.gone \/ env = "reply") THEN release_client(k, c, env) ELSE k

(***************************************************************************)
(* Requests.  Each gives the state it leaves and the client the outgoing   *)
(* message is for (None: nothing is sent).                                 *)
(***************************************************************************)
Quiet(k) == <<k, None>>
Error(k, r) == <<k, r.c>>
When(b, r, k, x) == IF b THEN x ELSE Error(k, r)

Selected(k, w, m) == IF m \in k.win[w].mask THEN k.win[w].reader ELSE None

GrabServer(k, r) == When(k.server \in {None, r.c}, r, k, Quiet([k EXCEPT !.server = r.c]))
UngrabServer(k, r) == Quiet([k EXCEPT !.server = IF @ = r.c THEN None ELSE @])

Bug_AttachSurface(k, r) ==
  When(r.id \in Windows(k) /\ k.win[r.id].owner = r.c /\ ~k.win[r.id].mapped, r,
       [k EXCEPT !.handles = @ + 1],
       Quiet([k EXCEPT !.win[r.id].surface = "own", !.win[r.id].published = FALSE, !.handles = @ + 1]))
(* The client shares a surface with the server; a refused one is closed.   *)
AttachSurface(k, r) ==
  When(r.id \in Windows(k) /\ k.win[r.id].owner = r.c /\ ~k.win[r.id].mapped, r, k,
       Quiet([k EXCEPT !.win[r.id].surface = "own", !.win[r.id].published = FALSE,
                       !.handles = IF k.win[r.id].surface = "own" THEN @ ELSE @ + 1]))

ChangeSaveSet(k, r) ==
  When(r.id \in Windows(k) /\ k.win[r.id].owner # r.c, r, k,
       Quiet([k EXCEPT !.win[r.id].saved = IF r.insert THEN r.c ELSE IF @ = r.c THEN None ELSE @]))

WarpPointer(k, r, env) == When(ValidWindow(k, r.id) /\ env # "compositor", r, k, Quiet(k))

OwnerOf(k, id) ==
  CASE id \in Windows(k) -> k.win[id].owner [] id \in Used(k.pix) -> k.pix[id].owner
    [] id \in Used(k.gc) -> k.gc[id].owner [] id \in Used(k.cur) -> k.cur[id].owner [] OTHER -> None
KillClient(k, r, env) ==
  When(OwnerOf(k, r.id) # None, r, k, Quiet(release_client(k, OwnerOf(k, r.id), env)))

CreateFontCursor(k, r) ==
  When(Base[r.id] = r.c /\ r.id \notin Used(k.cur) /\ Cardinality(Used(k.cur)) < CURSORS, r, k,
       Quiet([k EXCEPT !.cur[r.id] = [owner |-> r.c]]))
DefineCursor(k, r) ==
  LET known == r.cursor \in Used(k.cur)
  IN  When(ValidWindow(k, r.id) /\ (known => k.cur[r.cursor].owner = r.c), r, k,
           Quiet(IF r.id = Root THEN k
                 ELSE [k EXCEPT !.win[r.id].cursor = IF known THEN r.cursor ELSE None]))
FreeCursor(k, r) ==
  When(r.id \in Used(k.cur) /\ k.cur[r.id].owner = r.c, r, k,
       Quiet([MapWins(k, LAMBDA w : [w EXCEPT !.cursor = IF @ = r.id THEN None ELSE @])
                EXCEPT !.cur[r.id] = Free]))

SetSelectionOwner(k, r) ==
  When(r.owner = None \/ r.owner \in Windows(k), r, k, Quiet([k EXCEPT !.selection = r.owner]))

(* Passive grabs of keys and buttons, one detail each.                     *)
GrabKey(k, r) ==
  LET same == {p \in k.passive : p.kind = r.kind /\ p.window = r.id}
  IN  IF ~ValidWindow(k, r.id) THEN Error(k, r)
      ELSE IF same # {} THEN IF \E p \in same : p.client = r.c THEN Quiet(k) ELSE Error(k, r)
      ELSE When(Cardinality(k.passive) < PASSIVE, r, k,
                Quiet([k EXCEPT !.passive = @ \cup {[kind |-> r.kind, window |-> r.id, client |-> r.c]}]))
UngrabKey(k, r) ==
  When(ValidWindow(k, r.id), r, k,
       Quiet([k EXCEPT !.passive = @ \ {[kind |-> r.kind, window |-> r.id, client |-> r.c]}]))

Grabbing(k, r, held) == r.id \in Windows(k) /\ k.win[r.id].mapped /\ held.client \in {None, r.c}
GrabPointer(k, r) ==
  Error(IF Grabbing(k, r, k.pointer) THEN [k EXCEPT !.pointer = [client |-> r.c, window |-> r.id]] ELSE k, r)
GrabKeyboard(k, r) ==
  Error(IF Grabbing(k, r, k.keyboard) THEN [k EXCEPT !.keyboard = [client |-> r.c, window |-> r.id]] ELSE k, r)
UngrabInput(k, r) ==
  Quiet(IF r.op = "ungrab_pointer" /\ k.pointer.client = r.c THEN [k EXCEPT !.pointer = NoGrab]
        ELSE IF r.op = "ungrab_keyboard" /\ k.keyboard.client = r.c THEN [k EXCEPT !.keyboard = NoGrab] ELSE k)

property_notify(k, id) ==
  IF id = Root THEN IF "property" \in k.root.mask THEN k.root.client ELSE None
  ELSE IF id \in Windows(k) THEN Selected(k, id, "property") ELSE None
(* A property slot is taken before the mode is checked.                    *)
ChangeProperty(k, r) ==
  LET p == [window |-> r.id, atom |-> r.atom]
      with == [k EXCEPT !.prop = @ \cup {p}]
  IN  IF ~ValidWindow(k, r.id) \/ (p \notin k.prop /\ Cardinality(k.prop) = PROPERTIES) THEN Error(k, r)
      ELSE IF r.mode = "append" /\ p \notin k.prop THEN Error(with, r)
      ELSE <<with, property_notify(k, r.id)>>
DeleteProperty(k, r) ==
  <<[k EXCEPT !.prop = @ \ {[window |-> r.id, atom |-> r.atom]}], property_notify(k, r.id)>>
GetProperty(k, r) ==
  Error(IF ValidWindow(k, r.id) /\ r.delete
        THEN [k EXCEPT !.prop = @ \ {[window |-> r.id, atom |-> r.atom]}] ELSE k, r)

SendEvent(k, r) == <<k, IF r.id \in Windows(k) THEN k.win[r.id].owner ELSE r.c>>

CreatePixmap(k, r, env) ==
  When(r.id \notin Used(k.pix) /\ Cardinality(Used(k.pix)) < PIXMAPS /\ env # "surface", r, k,
       Quiet([k EXCEPT !.pix[r.id] = [owner |-> r.c], !.handles = @ + 1]))
FreePixmap(k, r) ==
  When(r.id \in Used(k.pix) /\ k.pix[r.id].owner = r.c, r, k,
       Quiet([k EXCEPT !.pix[r.id] = Free, !.handles = @ - 1]))

CreateGC(k, r) ==
  When(/\ valid_drawable(k, r.drawable) /\ Base[r.id] = r.c
       /\ r.id \notin Used(k.gc) /\ Cardinality(Used(k.gc)) < GCS, r, k,
       Quiet([k EXCEPT !.gc[r.id] = [owner |-> r.c, drawable |-> r.drawable]]))
OwnGC(k, r) == r.gc \in Used(k.gc) /\ k.gc[r.gc].owner = r.c
FreeGC(k, r) == When(OwnGC(k, r), r, k, Quiet([k EXCEPT !.gc[r.gc] = Free]))

(* Rectangles, images, text and copies: the context must be the client's   *)
(* and made for this drawable; a window gets its surface on first use.     *)
Draw(k, r, env) ==
  When(valid_drawable(k, r.id) /\ OwnGC(k, r) /\ k.gc[r.gc].drawable = r.id, r, k,
       Quiet(IF r.id \in Windows(k) THEN create_window_surface(k, r.id, env) ELSE k))

SelectRoot(k, r) ==
  LET redirect == "redirect" \in r.mask
  IN  When(redirect => k.root.redirect \in {None, r.c}, r, k,
           Quiet([k EXCEPT !.root = [mask |-> r.mask, client |-> IF r.mask # {} THEN r.c ELSE None,
                                     redirect |-> IF redirect THEN r.c ELSE None]]))

CreateWindow(k, r) ==
  When(Base[r.id] = r.c /\ r.id \notin Windows(k) /\ Cardinality(Windows(k)) < WINDOWS, r, k,
       Quiet([k EXCEPT !.win[r.id] =
                [owner |-> r.c, parent |-> Root, mapped |-> FALSE, surface |-> "none", published |-> FALSE,
                 mask |-> {}, reader |-> None, keyreader |-> None, cursor |-> None, saved |-> None]]))

(***************************************************************************)
(* Requests on a window of the table.                                      *)
(***************************************************************************)
SetInputFocus(k, r, env) ==
  LET out == IF k.focus \in Windows(k) THEN Selected(k, k.focus, "focus") ELSE None
      told == send_outgoing(k, out, env)
  IN  IF ~k.win[r.id].mapped THEN Error(k, r)
      ELSE IF k.focus = r.id THEN Quiet(k)
      ELSE <<[told EXCEPT !.focus = r.id], Selected(k, r.id, "focus")>>

Redirected(k, r) == "redirect" \in k.root.mask /\ k.root.redirect # r.c
MapWindow(k, r, env) ==
  IF Redirected(k, r) THEN <<k, k.root.redirect>>
  ELSE <<[publish_window(k, r.id, env) EXCEPT !.win[r.id].mapped = TRUE], Selected(k, r.id, "structure")>>

(* Masks add up; the last client is told, keys go to the last that asked.  *)
SelectInput(k, r) ==
  LET w == k.win[r.id]
  IN  Quiet([k EXCEPT !.win[r.id] = [w EXCEPT !.mask = @ \cup r.mask,
                                              !.reader = IF r.mask # {} THEN r.c ELSE @,
                                              !.keyreader = IF "key" \in r.mask THEN r.c ELSE @]])

ConfigureWindow(k, r) ==
  IF Redirected(k, r) THEN <<k, k.root.redirect>>
  ELSE <<move_published_descendants(k, r.id), Selected(k, r.id, "structure")>>

UnmapWindow(k, r) ==
  <<[k EXCEPT !.win[r.id].mapped = FALSE],
    IF "substructure" \in k.root.mask THEN k.root.client ELSE Selected(k, r.id, "structure")>>

ReparentWindow(k, r) ==
  When(ValidWindow(k, r.parent), r, k,
       <<move_published_descendants([k EXCEPT !.win[r.id].parent = r.parent], r.id),
         Selected(k, r.id, "structure")>>)

(* Requests that only answer, and the ones that change no table: geometry, *)
(* attributes, the tree, atoms, images, the owner of the selection.        *)
Query(k, r) == Error(k, r)

OnWindow(k, r, env) ==
  CASE r.op = "focus" -> SetInputFocus(k, r, env) [] r.op = "map" -> MapWindow(k, r, env)
    [] r.op = "select" -> SelectInput(k, r) [] r.op = "configure" -> ConfigureWindow(k, r)
    [] r.op = "unmap" -> UnmapWindow(k, r) [] r.op = "reparent" -> ReparentWindow(k, r)
    [] r.op = "clear" -> Quiet(create_window_surface(k, r.id, env))
    [] r.op = "destroy" -> Quiet(destroy_window_state(k, {r.id}, env))

Ungrabbed(k, r, env) ==
  CASE r.op = "attach" -> AttachSurface(k, r) [] r.op = "save_set" -> ChangeSaveSet(k, r)
    [] r.op = "warp" -> WarpPointer(k, r, env) [] r.op = "kill" -> KillClient(k, r, env)
    [] r.op = "cursor" -> CreateFontCursor(k, r) [] r.op = "define_cursor" -> DefineCursor(k, r)
    [] r.op = "free_cursor" -> FreeCursor(k, r) [] r.op = "selection" -> SetSelectionOwner(k, r)
    [] r.op = "grab_key" -> GrabKey(k, r) [] r.op = "ungrab_key" -> UngrabKey(k, r)
    [] r.op = "grab_pointer" -> GrabPointer(k, r) [] r.op = "grab_keyboard" -> GrabKeyboard(k, r)
    [] r.op \in {"ungrab_pointer", "ungrab_keyboard"} -> UngrabInput(k, r)
    [] r.op = "property" -> ChangeProperty(k, r) [] r.op = "delete_property" -> DeleteProperty(k, r)
    [] r.op = "get_property" -> GetProperty(k, r) [] r.op = "send_event" -> SendEvent(k, r)
    [] r.op = "pixmap" -> CreatePixmap(k, r, env) [] r.op = "free_pixmap" -> FreePixmap(k, r)
    [] r.op = "gc" -> CreateGC(k, r) [] r.op = "free_gc" -> FreeGC(k, r)
    [] r.op = "draw" -> Draw(k, r, env) [] r.op = "query" -> Query(k, r)
    [] r.op = "select" /\ r.id = Root -> SelectRoot(k, r) [] r.op = "window" -> CreateWindow(k, r)
    [] OTHER -> IF r.id \in Windows(k) THEN OnWindow(k, r, env) ELSE Error(k, r)

(* The order of the tests of the code: the server grab first.              *)
parse_request(k, r, env) ==
  CASE r.op = "grab_server" -> GrabServer(k, r) [] r.op = "ungrab_server" -> UngrabServer(k, r)
    [] k.server \notin {None, r.c} /\ r.op \notin {"grab_server", "ungrab_server"} -> Error(k, r)
    [] OTHER -> Ungrabbed(k, r, env)

Fresh == [s EXCEPT !.released = None]

Request(r, env) ==
  /\ s.alive
  /\ LET done == parse_request(Fresh, r, env)
     IN  s' = send_outgoing(done[1], done[2], env)

(* A key, a button or a motion goes to the grab if its mask admits it, to  *)
(* a passive grab that a press matches, else to the window's reader; CLOSE *)
(* destroys the window first and then tells its owner.                     *)
NativeReader(k, n) ==
  LET grab == IF n.op = "key" THEN k.keyboard ELSE k.pointer
      passive == {p.client : p \in {q \in k.passive : q.kind = n.op}}
      w == k.win[n.id]
      reader == IF n.op \notin w.mask THEN None ELSE IF n.op = "key" THEN w.keyreader ELSE w.reader
  IN  CASE grab.client # None -> {grab.client, None}
        [] grab.client = None /\ n.id \in Windows(k) ->
             {reader} \cup (IF n.op = "key" \/ n.op \in w.mask THEN passive ELSE {})
        [] OTHER -> {None}
process_native_input(n, env) ==
  /\ s.alive
  /\ IF n.op = "close"
     THEN n.id \in Windows(s) /\ s' = send_outgoing(destroy_window_state(Fresh, {n.id}, env), s.win[n.id].owner, env)
     ELSE \E c \in NativeReader(s, n) : s' = send_outgoing(Fresh, c, env)

(* A client's process ends; its reply channel goes with it.  Its requests  *)
(* may still be in the queue, so it goes on sending.                       *)
Exit(c) == c \notin s.gone /\ s' = [Fresh EXCEPT !.gone = @ \cup {c}]

Next ==
  \/ \E r \in Requests, env \in Env : Request(r, env)
  \/ \E n \in Natives, env \in Env : process_native_input(n, env)
  \/ \E c \in Client : Exit(c)

Spec == Init /\ [][Next]_s

(***************************************************************************)
(* Properties.                                                             *)
(***************************************************************************)
(* No table names a window that is gone, so that an id used again never    *)
(* inherits a grab, a selection, a property or a drawing context of the    *)
(* window that had it before, however windows, cursors and clients come    *)
(* and go (destroy_window_state, release_client).                          *)
NoDanglingResources ==
  /\ s.selection \in Windows(s) \cup {None}
  /\ \A g \in {s.pointer, s.keyboard} : (g.client = None) = (g.window \notin Windows(s))
  /\ \A p \in s.prop \cup s.passive : ValidWindow(s, p.window)
  /\ \A g \in Used(s.gc) : s.gc[g].drawable \in Windows(s) \cup Pid
  /\ \A w \in Windows(s) : s.win[w].cursor \in Used(s.cur) \cup {None}

(* demonx_server.c:1087: when a client vanishes or is killed the server    *)
(* destroys "every resource the dead client owned", in every table.        *)
ReleasedClientsOwnNothing ==
  s.released # None =>
    /\ \A t \in {s.win, s.pix, s.gc, s.cur} : \A i \in DOMAIN t : t[i].owner # s.released
    /\ \A p \in s.passive : p.client # s.released
    /\ s.released \notin {s.server, s.pointer.client, s.keyboard.client, s.root.redirect}

(* The server's handle table holds one surface handle for every surface a  *)
(* window or a pixmap names: none leaks and none is closed twice, also     *)
(* when surfaces are replaced or refused or their owner dies.              *)
SurfaceHandlesAreCounted ==
  s.handles = Cardinality({w \in Windows(s) : s.win[w].surface = "own"}) + Cardinality(Used(s.pix))
=============================================================================
