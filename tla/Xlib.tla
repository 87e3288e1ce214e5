-------------------------------- MODULE Xlib --------------------------------
(***************************************************************************)
(* The transport between Xlib (lib/demonx/xlib.c) and the DemonX server:   *)
(* a request is cut into fragments of PAYLOAD bytes, each its own send     *)
(* system call into the server's one bounded inbox, where the fragments of *)
(* other clients may come between; the server puts them together in one    *)
(* buffer (demonx_main).  Replies, errors and events for a client share    *)
(* one reply channel.                                                      *)
(*                                                                         *)
(* A call is the sequence of messages it sends; of a message only its      *)
(* number of fragments and whether the call then waits for an answer are   *)
(* kept.  An event is its number in the order the server sent them.        *)
(***************************************************************************)
EXTENDS Integers, Sequences, FiniteSets, SequencesExt

CONSTANTS Client,    \* DEMONX_MAX_CLIENTS of them
          PAYLOAD,   \* DEMONX_PAYLOAD_BYTES
          DEPTH,     \* messages an IPC channel holds
          LENGTH,    \* messages of the longest call the clients make
          CALLS, EVENTS, RESTARTS   \* bounds: calls of a client, events for it, its deaths

VARIABLE s

None == 0
Reply == -1
Failure == -2   \* an error record; an event is its number
Frags(bytes) == (bytes + PAYLOAD - 1) \div PAYLOAD
Message(bytes, waits) == <<[frags |-> Frags(bytes), waits |-> waits, setup |-> FALSE]>>
Void(bytes) == Message(bytes, FALSE)
RoundTrip(bytes) == Message(bytes, TRUE)
Times(n, call) == FlattenSeq([i \in 1..n |-> call])

(***************************************************************************)
(* The calls and the bytes of their requests.                              *)
(***************************************************************************)
DemonXAttachSurface == Void(16)
XCreateSimpleWindow == Void(32)
XChangeWindowAttributes == Void(16)
XCreateWindow == XCreateSimpleWindow
XGetWindowAttributes == RoundTrip(8)
XClearArea == Void(16)
XSelectInput == Void(12)
XSetInputFocus == Void(12)
grab_device == RoundTrip(24)
ungrab_device == Void(8)
XCreateFontCursor == Void(12)
XDefineCursor == Void(12)
XFreeCursor == Void(8)
passive_grab == Void(24)
XMapWindow == Void(8)
XUnmapWindow == Void(8)
XReparentWindow == Void(16)
XConfigureWindow(values) == Void(12 + 4 * values)
XMoveResizeWindow == XConfigureWindow(4)
XRaiseWindow == XConfigureWindow(1)
XMapRaised == XRaiseWindow \o XMapWindow
XQueryTree == RoundTrip(8)
XMapSubwindows(children) == XQueryTree \o Times(children, XMapWindow)
XRestackWindows(windows) == Times(windows, XRaiseWindow)
XDestroyWindow == Void(8)
change_save_set == Void(8)
XKillClient == Void(8)
XWarpPointer == Void(24)
XInternAtom(name) == RoundTrip(8 + 4 * ((name + 3) \div 4))
XInternAtoms(names) == Times(names, XInternAtom(16))
XGetAtomName == RoundTrip(8)
XChangeProperty(data) == Void(24 + data)
XDeleteProperty == Void(12)
XGetWindowProperty == RoundTrip(24)
XListProperties == RoundTrip(8)
XCreateGC == Void(24)
XSetForeground == Void(16)
XSetFont == Void(16)
XFreeGC == Void(8)
XFillRectangle == Void(20)
XFillRectangles(n) == Void(12 + 8 * n)
XDrawLine(points) == Times(points, XFillRectangle)
XDrawRectangle == Times(4, XFillRectangle)
XDrawArc(columns) == Times(2 * columns, XFillRectangle)
XFillArc(rows) == Times(rows, XFillRectangle)
XFillPolygon(rows) == Times(rows, XFillRectangle)
XCopyArea == Void(28)
XCreatePixmap == Void(16)
XFreePixmap == Void(8)
XPutImage(rows, pixels) == FlattenSeq([i \in 1..rows |-> Void(24 + 4 * pixels)])
XGetImage == RoundTrip(20)
XDrawString(length) == Void(17 + length)
demonx_draw_string_scaled(length) == Void(18 + length)
XSendEvent == Void(44)
XGetGeometry == RoundTrip(8)
XQueryPointer == XGetGeometry
XTranslateCoordinates == XGetGeometry \o XGetGeometry
XGetSelectionOwner == RoundTrip(8)
XSetSelectionOwner == Void(16)
XSetWMProtocols == XInternAtom(12) \o XChangeProperty(8)
XGetWMProtocols == XInternAtom(12) \o XGetWindowProperty
XGetTransientForHint == XInternAtom(16) \o XGetWindowProperty
XSetClassHint == XInternAtom(8) \o XChangeProperty(16)
XGetClassHint == XInternAtom(8) \o XGetWindowProperty
XSetWMHints == XInternAtom(8) \o XChangeProperty(16)
XGetWMHints == XInternAtom(8) \o XGetWindowProperty
XSetNormalHints == XInternAtom(15) \o XChangeProperty(24)
XGetWMNormalHints == XInternAtom(15) \o XGetWindowProperty

(* Every call, at the lengths that make a difference: one fragment, two.   *)
Calls ==
  {DemonXAttachSurface, XCreateSimpleWindow, XChangeWindowAttributes, XCreateWindow, XGetWindowAttributes,
   XClearArea, XSelectInput, XSetInputFocus, grab_device, ungrab_device, XCreateFontCursor, XDefineCursor,
   XFreeCursor, passive_grab, XMapWindow, XUnmapWindow, XReparentWindow, XMoveResizeWindow, XRaiseWindow,
   XMapRaised, XQueryTree, XDestroyWindow, change_save_set, XKillClient, XWarpPointer, XGetAtomName,
   XDeleteProperty, XGetWindowProperty, XListProperties, XCreateGC, XSetForeground, XSetFont, XFreeGC,
   XFillRectangle, XDrawRectangle, XCopyArea, XCreatePixmap, XFreePixmap, XGetImage, XSendEvent, XGetGeometry,
   XQueryPointer, XTranslateCoordinates, XGetSelectionOwner, XSetSelectionOwner, XSetWMProtocols,
   XGetWMProtocols, XGetTransientForHint, XSetClassHint, XGetClassHint, XSetWMHints, XGetWMHints,
   XSetNormalHints, XGetWMNormalHints}
  \cup UNION {{XMapSubwindows(n), XRestackWindows(n), XInternAtoms(n), XDrawLine(n), XDrawArc(n), XFillArc(n),
               XFillPolygon(n)} : n \in 1..2}
  \cup UNION {{XConfigureWindow(n), XInternAtom(n), XChangeProperty(n), XFillRectangles(n), XPutImage(2, n),
               XDrawString(n), demonx_draw_string_scaled(n)} : n \in {1, 7}}
  \cup {XDrawString(32), demonx_draw_string_scaled(32)}

(***************************************************************************)
(* Clients.  left: fragments of the first message of todo not yet sent;    *)
(* waiting: in receive_packet for an answer.                               *)
(***************************************************************************)
Fresh == [alive |-> TRUE, open |-> FALSE, seq |-> 0, todo |-> <<>>, left |-> 0, waiting |-> FALSE,
          q |-> <<>>, pending |-> None, putback |-> None, seen |-> None]
Init ==
  s = [inbox |-> <<>>, asm |-> <<>>, alive |-> TRUE, sent |-> [c \in Client |-> 0],
       deaths |-> [c \in Client |-> 0], cl |-> [c \in Client |-> Fresh]]

Idle(x) == x.alive /\ x.todo = <<>>
begin_packet(x, todo) == [x EXCEPT !.seq = @ + 1, !.todo = todo, !.left = todo[1].frags]
(* The message is out, answered or refused: on to the next, or give up.    *)
Advance(x) ==
  LET rest == Tail(x.todo)
      y == [x EXCEPT !.waiting = FALSE, !.left = 0]
  IN  IF rest = <<>> THEN [y EXCEPT !.todo = <<>>] ELSE begin_packet(y, rest)
Abandon(x) == [x EXCEPT !.waiting = FALSE, !.left = 0, !.todo = <<>>]

Setup == <<[frags |-> Frags(12), waits |-> TRUE, setup |-> TRUE]>>
XOpenDisplay(c) ==
  /\ Idle(s.cl[c]) /\ ~s.cl[c].open /\ s.cl[c].seq = 0
  /\ s' = [s EXCEPT !.cl[c] = begin_packet(s.cl[c], Setup)]
Call(c) ==
  /\ Idle(s.cl[c]) /\ s.cl[c].open /\ s.cl[c].seq < CALLS
  /\ \E call \in {k \in Calls : Len(k) <= LENGTH} : s' = [s EXCEPT !.cl[c] = begin_packet(s.cl[c], call)]

(* One fragment, one system call.  A full inbox refuses it, and the call   *)
(* returns with the message half sent.  life tells the processes of a      *)
(* client apart (a history field: the server does not look at it).         *)
send_packet(c) ==
  LET x == s.cl[c]
      m == x.todo[1]
      f == [c |-> c, life |-> s.deaths[c], seq |-> x.seq, i |-> m.frags - x.left + 1, last |-> x.left = 1,
            setup |-> m.setup, waits |-> m.waits]
      sent == IF x.left > 1 THEN [x EXCEPT !.left = @ - 1]
              ELSE IF m.waits THEN [x EXCEPT !.left = 0, !.waiting = TRUE] ELSE Advance(x)
  IN  /\ x.alive /\ x.left > 0
      /\ IF Len(s.inbox) = DEPTH \/ ~s.alive
         THEN s' = [s EXCEPT !.cl[c] = Abandon(x)]
         ELSE s' = [s EXCEPT !.inbox = Append(@, f), !.cl[c] = sent]

(* A round trip takes the next packet whatever it is: an event that came   *)
(* first is lost and the call fails.                                       *)
receive_packet(c) ==
  LET x == s.cl[c]
      y == [x EXCEPT !.q = Tail(@)]
  IN  /\ x.alive /\ x.waiting /\ x.q # <<>>
      /\ s' = [s EXCEPT !.cl[c] = IF Head(x.q) # Reply THEN Abandon(y)
                                  ELSE [Advance(y) EXCEPT !.open = TRUE]]

(***************************************************************************)
(* Events: the putback slot, then the pending slot, then the channel.      *)
(***************************************************************************)
IsEvent(p) == p > 0
FirstEvent(x) == {i \in 1..Len(x.q) : IsEvent(x.q[i]) /\ \A j \in 1..i - 1 : ~IsEvent(x.q[j])}

(* <<the client's new state, the event>> for every way the call returns.   *)
Taken(x) ==
  IF x.putback # None THEN {<<[x EXCEPT !.putback = None], x.putback>>}
  ELSE IF x.pending # None THEN {<<[x EXCEPT !.pending = None], x.pending>>}
  ELSE {<<[x EXCEPT !.q = SubSeq(@, i + 1, Len(@))], x.q[i]>> : i \in FirstEvent(x)}

XPutBackEvent(x, e) == IF x.putback # None THEN x ELSE [x EXCEPT !.putback = e]

Ready(c) == s.cl[c].open /\ Idle(s.cl[c])
XNextEvent(c) ==
  /\ Ready(c)
  /\ \E t \in Taken(s.cl[c]) : s' = [s EXCEPT !.cl[c] = [t[1] EXCEPT !.seen = t[2]]]

(* A packet that is no event is dropped and the queue counts as empty.     *)
Polled(x) ==
  IF x.putback # None \/ x.pending # None \/ x.q = <<>> THEN x
  ELSE [x EXCEPT !.q = Tail(@), !.pending = IF IsEvent(Head(x.q)) THEN Head(x.q) ELSE None]
XPending(c) ==
  /\ Ready(c) /\ Polled(s.cl[c]) # s.cl[c]
  /\ s' = [s EXCEPT !.cl[c] = Polled(@)]

(* XCheckTypedEvent, XCheckMaskEvent and the two for windows: poll, then   *)
(* take the event, and put it back when it is for another window.          *)
XCheckEvent(c) ==
  LET x == Polled(s.cl[c])
  IN  /\ Ready(c) /\ {x.putback, x.pending} # {None}
      /\ \E t \in Taken(x), wanted \in BOOLEAN :
           s' = [s EXCEPT !.cl[c] = IF wanted THEN [t[1] EXCEPT !.seen = t[2]] ELSE XPutBackEvent(t[1], t[2])]
(* XMaskEvent, XWindowEvent: block for one event, put back another's.      *)
XMaskEvent(c) ==
  /\ Ready(c)
  /\ \E t \in Taken(s.cl[c]) : s' = [s EXCEPT !.cl[c] = XPutBackEvent(t[1], t[2])]

(* The process ends between any two system calls; init may start it again  *)
(* with the same id.                                                       *)
Die(c) ==
  /\ s.cl[c].alive /\ s.deaths[c] < RESTARTS
  /\ s' = [s EXCEPT !.cl[c] = [Fresh EXCEPT !.alive = FALSE], !.deaths[c] = @ + 1, !.sent[c] = 0]
Restart(c) == ~s.cl[c].alive /\ s' = [s EXCEPT !.cl[c] = Fresh]

(***************************************************************************)
(* The server.  A packet for a client that is gone or whose channel is     *)
(* full is dropped (and all the client owns with it: module DemonX).       *)
(***************************************************************************)
Post(k, c, p) ==
  IF k.cl[c].alive /\ Len(k.cl[c].q) < DEPTH THEN [k EXCEPT !.cl[c].q = Append(@, p)] ELSE k

(* An input event goes out as soon as it is read, fragments or not.        *)
Native(c) ==
  /\ s.alive /\ s.sent[c] < EVENTS /\ s.cl[c].open
  /\ s' = [Post(s, c, s.sent[c] + 1) EXCEPT !.sent[c] = @ + 1]

Fits(asm, f) == asm = <<>> \/ LET a == asm[1] IN a.c = f.c /\ a.seq = f.seq /\ a.setup = f.setup
Bug_demonx_main ==
  /\ s.alive /\ s.inbox # <<>>
  /\ LET f == Head(s.inbox)
         k == [s EXCEPT !.inbox = Tail(@), !.asm = IF f.last THEN <<>> ELSE Append(@, f)]
     IN  IF f.last /\ f.waits THEN s' = Post(k, f.c, Reply) ELSE s' = k
demonx_main ==
  /\ s.alive /\ s.inbox # <<>>
  /\ LET f == Head(s.inbox)
         k == [s EXCEPT !.inbox = Tail(@), !.asm = IF f.last THEN <<>> ELSE Append(@, f)]
     IN  IF ~Fits(s.asm, f)
         THEN s' = [s EXCEPT !.alive = FALSE, !.inbox = <<>>, !.asm = <<>>]
         ELSE s' \in IF ~f.last THEN {k} ELSE {Post(k, f.c, Failure), IF f.waits THEN Post(k, f.c, Reply) ELSE k}

Next ==
  \/ \E c \in Client :
       \/ XOpenDisplay(c) \/ Call(c) \/ send_packet(c) \/ receive_packet(c) \/ XNextEvent(c)
       \/ XPending(c) \/ XCheckEvent(c) \/ XMaskEvent(c) \/ Die(c) \/ Restart(c) \/ Native(c)
  \/ demonx_main
Spec == Init /\ [][Next]_s

(* What the theorems assume: the request that opens the display is one     *)
(* fragment, a call sends at least one message and no message is empty.    *)
XlibConstants ==
  /\ Frags(12) = 1
  /\ \A call \in Calls :
       /\ call \in Seq([frags : Nat \ {0}, waits : BOOLEAN, setup : {FALSE}]) /\ call # <<>>

(***************************************************************************)
(* Properties.                                                             *)
(***************************************************************************)
(* What the server puts together is the beginning of one request of one    *)
(* client, fragment by fragment, however the clients' sends interleave,    *)
(* fail half way or end with the process (demonx_main, the exit 125).      *)
MessagesAreWhole ==
  \A i \in 1..Len(s.asm) : /\ s.asm[i].c = s.asm[1].c /\ s.asm[i].seq = s.asm[1].seq
                           /\ s.asm[i].i = i

(* The events a client holds, put back, polled and in its channel, are in  *)
(* the order the server sent them and later than all it has seen: no mix   *)
(* of XNextEvent, XPending and the check, mask and putback calls repeats   *)
(* or reorders them.                                                       *)
EventsArriveInOrder ==
  \A c \in Client :
    LET x == s.cl[c]
        held == <<x.seen, x.putback, x.pending>> \o x.q
    IN  \A i, j \in 1..Len(held) : i < j /\ IsEvent(held[i]) /\ IsEvent(held[j]) => held[i] < held[j]

(* docs/demonx.md:55: "server survival after its test client exits".  A    *)
(* client that exits between two fragments, or another's fragment between  *)
(* them, ends the server.                                                  *)
ServerSurvives == s.alive
=============================================================================
