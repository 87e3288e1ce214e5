----------------------------- MODULE DesktopMC ------------------------------
(***************************************************************************)
(* One run for the programs of the desktop: `part' says which of them a    *)
(* behaviour is about, s is its state.                                     *)
(***************************************************************************)
EXTENDS Integers, Sequences, FiniteSets, TLC

VARIABLES part, s
vars == <<part, s>>

Pressed(code, c, a) == {[down |-> d, code |-> code, ctrl |-> c, alt |-> a] : d \in BOOLEAN}
Opened(id, title, x, y, w, h, sw, sh, mapped) ==
  [id |-> id, title |-> title, x |-> x, y |-> y, w |-> w, h |-> h, sw |-> sw, sh |-> sh,
   mapped |-> mapped]

(* Two windows on two desktops: buttons of the panel, the taskbar and the  *)
(* title bars, shortcuts and the launcher.                                 *)
C == INSTANCE Compositor WITH
  SCREEN_WIDTH <- 6, SCREEN_HEIGHT <- 8, TITLE_HEIGHT <- 1, RESERVED_TOP <- 1,
  RESERVED_BOTTOM <- 2, SNAP_DISTANCE <- 0, RESIZE_GRIP <- 1, MIN_WINDOW <- <<2, 1>>,
  MIN_MOVE <- <<3, 2>>, WINDOW_LIMIT <- 2, WORKSPACES <- 2, CELLS <- 2, WORD <- 100,
  Creates <- {Opened(1, "xterm", 0, 3, 4, 2, 2, 2, TRUE), Opened(2, "Quake", 1, 4, 4, 2, 4, 2, FALSE)},
  Moves <- {},
  Points <- {<<0, 0>>, <<4, 0>>, <<0, 1>>, <<1, 2>>, <<2, 3>>, <<0, 7>>, <<1, 7>>},
  Keys <- Pressed("1", TRUE, FALSE) \cup Pressed("space", TRUE, FALSE) \cup Pressed("enter", FALSE, FALSE)
          \cup Pressed("tab", FALSE, TRUE) \cup Pressed("f4", FALSE, TRUE)

(* One window at a time, moved, resized, snapped and scaled.               *)
G == INSTANCE Compositor WITH
  SCREEN_WIDTH <- 6, SCREEN_HEIGHT <- 8, TITLE_HEIGHT <- 1, RESERVED_TOP <- 1,
  RESERVED_BOTTOM <- 2, SNAP_DISTANCE <- 0, RESIZE_GRIP <- 1, MIN_WINDOW <- <<2, 1>>,
  MIN_MOVE <- <<3, 2>>, WINDOW_LIMIT <- 1, WORKSPACES <- 1, CELLS <- 1, WORD <- 100,
  Creates <- {Opened(1, "xterm", 0, 3, 4, 2, 2, 2, TRUE), Opened(2, "Quake", 1, 7, 3, 1, 3, 1, FALSE)},
  Moves <- {[x |-> 1, y |-> 4, w |-> 4, h |-> 2]},
  Points <- {<<0, 2>>, <<2, 3>>, <<3, 4>>, <<4, 5>>, <<3, 7>>, <<7, 9>>},
  Keys <- Pressed("f10", FALSE, TRUE)

(* What the theorems about the compositor assume of its constants.         *)
ASSUME CompositorsFit == C!CompositorConstants /\ G!CompositorConstants

Op(op, c, id) == [op |-> op, c |-> c, id |-> id]
On(r, field, v) == r @@ (field :> v)
Created == {Op("window", 1, 11), Op("window", 2, 21)}

(* A window manager and a client: focus, grabs, selection, and the end of  *)
(* windows and clients.                                                    *)
X == INSTANCE DemonX WITH
  Client <- {1, 2}, Wid <- {21, 22}, Pid <- {}, Gid <- {}, Cid <- {}, Base <- (21 :> 2 @@ 22 :> 2),
  Atom <- {}, WINDOWS <- 2, PIXMAPS <- 1, GCS <- 1, CURSORS <- 1, PROPERTIES <- 1, PASSIVE <- 1,
  Requests <- {Op("window", 2, 21), Op("window", 2, 22)}
    \cup {Op(o, 1, w) : o \in {"map", "focus"}, w \in {21, 22}}
    \cup {On(Op("select", 2, 21), "mask", {"focus", "key"}), Op("grab_keyboard", 1, 21), Op("grab_pointer", 2, 21),
          Op("ungrab_pointer", 2, 21), On(Op("grab_key", 1, 21), "kind", "key"),
          On(Op("ungrab_key", 1, 21), "kind", "key"), On(Op("selection", 1, 0), "owner", 21),
          Op("kill", 1, 21)},
  Natives <- {[op |-> "key", id |-> 21], [op |-> "button", id |-> 21], [op |-> "close", id |-> 21]}

(* Surfaces, pixmaps, drawing contexts and cursors; the server grab.       *)
Y == INSTANCE DemonX WITH
  Client <- {1, 2}, Wid <- {11, 21}, Pid <- {31}, Gid <- {22}, Cid <- {23},
  Base <- (11 :> 1 @@ 21 :> 2 @@ 22 :> 2 @@ 23 :> 2),
  Atom <- {1}, WINDOWS <- 2, PIXMAPS <- 1, GCS <- 1, CURSORS <- 1, PROPERTIES <- 1, PASSIVE <- 1,
  Requests <- Created
    \cup {Op("map", 2, 21), Op("unmap", 2, 21), Op("attach", 2, 21), Op("clear", 1, 11), Op("destroy", 2, 21),
          Op("pixmap", 2, 31), Op("free_pixmap", 2, 31), Op("cursor", 2, 23), Op("free_cursor", 2, 23),
          On(Op("define_cursor", 2, 11), "cursor", 23), On(Op("gc", 2, 22), "drawable", 21),
          On(Op("gc", 2, 22), "drawable", 31), On(Op("draw", 2, 21), "gc", 22), On(Op("free_gc", 2, 22), "gc", 22),
          Op("kill", 1, 23), Op("query", 2, 21), Op("grab_server", 2, 0), Op("ungrab_server", 2, 0)},
  Natives <- {}

(* The window manager's redirections, reparenting and properties.          *)
Z == INSTANCE DemonX WITH
  Client <- {1, 2}, Wid <- {11, 21}, Pid <- {}, Gid <- {}, Cid <- {}, Base <- (11 :> 1 @@ 21 :> 2),
  Atom <- {1}, WINDOWS <- 2, PIXMAPS <- 1, GCS <- 1, CURSORS <- 1, PROPERTIES <- 1, PASSIVE <- 1,
  Requests <- Created
    \cup {On(Op("select", 1, 1), "mask", {"redirect", "property", "substructure"}),
          On(Op("select", 1, 21), "mask", {"structure", "property"}),
          Op("map", 2, 21), Op("map", 1, 21), Op("unmap", 2, 21), Op("configure", 2, 21), Op("configure", 1, 11),
          On(Op("reparent", 1, 21), "parent", 11), On(Op("reparent", 1, 11), "parent", 21),
          On(Op("save_set", 1, 21), "insert", TRUE), On(Op("save_set", 1, 21), "insert", FALSE),
          On(On(Op("property", 2, 21), "atom", 1), "mode", "append"), On(Op("delete_property", 1, 21), "atom", 1),
          On(On(Op("get_property", 1, 21), "atom", 1), "delete", TRUE), Op("send_event", 1, 21),
          Op("warp", 1, 21), Op("destroy", 1, 21)},
  Natives <- {}

(* What the theorems about the server assume of its constants.             *)
ASSUME ServersFit == X!ServerConstants /\ Y!ServerConstants /\ Z!ServerConstants

(* Two clients that share the server's inbox.                              *)
T == INSTANCE Xlib WITH
  Client <- {1, 2}, PAYLOAD <- 48, DEPTH <- 2, LENGTH <- 1, CALLS <- 3, EVENTS <- 0, RESTARTS <- 1

(* One client and its events.                                              *)
E == INSTANCE Xlib WITH
  Client <- {1}, PAYLOAD <- 48, DEPTH <- 2, LENGTH <- 2, CALLS <- 3, EVENTS <- 3, RESTARTS <- 1

(* What the theorem about the transport assumes of its constants.          *)
ASSUME TransportsFit == T!XlibConstants /\ E!XlibConstants

(* The window manager: an application with two windows.                    *)
W == INSTANCE DemonWM WITH
  Window <- {11, 12}, Owner <- (11 :> 1 @@ 12 :> 1), max_clients <- 2, Names <- <<<<"a">>>>,
  Pinned <- {}, COLUMNS <- 1, Letter <- {}, SEARCH <- 0, FRAMES <- 2

(* Its launcher.                                                           *)
L == INSTANCE DemonWM WITH
  Window <- {}, Owner <- <<>>, max_clients <- 1,
  Names <- <<<<"a", "b">>, <<"b", "a">>, <<"a", "a">>, <<"b", "b">>, <<"a">>>>,
  Pinned <- {1, 2}, COLUMNS <- 3, Letter <- {"a", "b"}, SEARCH <- 3, FRAMES <- 0

(* What the theorem about the window manager assumes of its constants.     *)
ASSUME ManagersFit == W!DemonWMConstants /\ L!DemonWMConstants

Init == \/ part = "compositor" /\ C!Init
        \/ part = "gestures" /\ G!Init
        \/ part = "grabs" /\ X!Init
        \/ part = "surfaces" /\ Y!Init
        \/ part = "manager" /\ Z!Init
        \/ part = "transport" /\ T!Init
        \/ part = "events" /\ E!Init
        \/ part = "launcher" /\ L!Init
        \/ part = "manager_windows" /\ W!Init

Next == /\ part' = part
        /\ \/ part = "compositor" /\ C!Next
           \/ part = "gestures" /\ G!Next
           \/ part = "grabs" /\ X!Next
           \/ part = "surfaces" /\ Y!Next
           \/ part = "manager" /\ Z!Next
           \/ part = "transport" /\ T!Next
           \/ part = "events" /\ E!Next
           \/ part = "launcher" /\ L!Next
           \/ part = "manager_windows" /\ W!Next

Spec == Init /\ [][Next]_vars

(* Compositor: keys always have a live, shown receiver if there is one.    *)
FocusIsLive == part = "compositor" => C!FocusIsLive

(* Compositor: a click lands on the client's pixel that is drawn under it. *)
ClickReachesItsPixel == part = "gestures" => G!ClickReachesItsPixel

(* DemonX: nothing the server keeps names a window or a client's resource  *)
(* that is gone, and a released client owns nothing.                       *)
NoDanglingResources ==
  /\ part = "grabs" => X!NoDanglingResources /\ X!ReleasedClientsOwnNothing
  /\ part = "surfaces" => Y!NoDanglingResources /\ Y!ReleasedClientsOwnNothing
  /\ part = "manager" => Z!NoDanglingResources /\ Z!ReleasedClientsOwnNothing

(* DemonX: every surface handle the server holds belongs to a window or a  *)
(* pixmap.                                                                 *)
SurfaceHandlesAreCounted == part = "surfaces" => Y!SurfaceHandlesAreCounted

(* Xlib: the server acts on whole messages of one client only, and a       *)
(* client reads its events in the order they were sent.                    *)
MessagesAreWhole ==
  /\ part = "transport" => T!MessagesAreWhole
  /\ part = "events" => E!EventsArriveInOrder

(* DemonWM: the table of clients agrees with the server's frames, and the  *)
(* launcher's selection is in the list it shows.                           *)
FramesHaveEntries ==
  /\ part = "manager_windows" => W!FramesHaveEntries
  /\ part = "launcher" => L!SelectionIsVisible

(* Xlib: no mix of clients that send and end makes the server exit.        *)
ServerSurvives == part = "transport" => T!ServerSurvives

(* Compositor: no row copy of a frame is out of range.                     *)
FramesStayInside == part = "gestures" => G!FramesStayInside
=============================================================================
