----------------------------- MODULE PortWindow -----------------------------
(***************************************************************************)
(* The window of each game port: opening it step by step, a DemonX window  *)
(* with a shared surface or else the display itself; presenting frames;    *)
(* input; and giving everything back (Quake's vid_demonos.c and            *)
(* sys_demonos.c, Doom's engine_main.c and doomgeneric_demonos.c,          *)
(* ClassiCube's Window_DemonOS.c, Butterscotch's video.c).                 *)
(*                                                                         *)
(* s.handles, s.buffers and s.conn are what the process holds; s.win is    *)
(* the window the program believes to have (0: None), s.live the windows   *)
(* the server has for it, s.queue the events under way.  s.held are the    *)
(* keys that the engine takes to be down, s.down the keys that are; lost   *)
(* and shifted are history: keys released while another window had the     *)
(* focus, and keys that were pressed with shift.                           *)
(***************************************************************************)
EXTENDS Integers, Sequences, FiniteSets

CONSTANTS Ports, Screens, Faults, Keys, EVENTS, WINDOWS

VARIABLE s

WIDTH == 320
HEIGHT == 200
MaxScale(port) == IF port = "quake" THEN 4 ELSE 3

Closed(port) ==
  [port |-> port, stage |-> "closed", conn |-> FALSE, handles |-> {}, buffers |-> {}, win |-> 0, live |-> {}, made |-> 0,
   scale |-> 1, info |-> [width |-> 0, height |-> 0, transfer |-> 0], table |-> 0, palette |-> 0, quit |-> FALSE,
   queue |-> <<>>, focus |-> TRUE, shift |-> FALSE, down |-> {}, held |-> {}, lost |-> {}, shifted |-> {}, events |-> 0, rect |-> <<>>]

-----------------------------------------------------------------------------
(* The largest whole scale that fits the screen, and of which one line     *)
(* fits a transfer.                                                        *)
Scale(port, info) ==
  LET Fits == {n \in 1..MaxScale(port) : /\ n <= info.width \div WIDTH /\ n <= info.height \div HEIGHT
                                         /\ WIDTH * n <= info.transfer}
  IN  IF Fits = {} THEN 1 ELSE CHOOSE n \in Fits : \A m \in Fits : m <= n
Scaled(t, F) ==
  LET n == Scale(t.port, t.info)
  IN  IF n = 1 \/ "scaled" \in F THEN t ELSE [t EXCEPT !.scale = n, !.buffers = @ \cup {"scaled"}]

Took(t, h, F) == [t EXCEPT !.handles = @ \cup ({h} \ F)]
Stage(t, g) == [t EXCEPT !.stage = g]
XCreateSimpleWindow(t, F) ==
  IF "window" \in F THEN t
  ELSE [t EXCEPT !.win = t.made + 1, !.live = @ \cup {t.made + 1}, !.made = @ + 1]
XDestroyWindow(t) == [t EXCEPT !.live = @ \ {t.win}, !.win = 0]
XCloseDisplay(t) ==
  LET Q == {t.queue[i] : i \in DOMAIN t.queue}
  IN  [t EXCEPT !.conn = FALSE, !.live = {}, !.queue = <<>>, !.lost = @ \cup {v.key : v \in {q \in Q : q.type = "key"}}]

(* A window with the surface attached; the program stays in `failed' when  *)
(* the server refuses either.                                              *)
Windowed(t, F) ==
  Stage(XCreateSimpleWindow(t, F), IF {"window", "attach"} \cap F = {} THEN "open" ELSE "failed")

(* d_build_tables: with a connection it counts frames instead.             *)
VID_SetPalette(t, p) == [t EXCEPT !.palette = p, !.table = IF t.conn THEN @ ELSE p]
VideoBuffers == {"vid", "z", "cache", "argb"}
VID_Init(t, x, info, F) ==
  LET a == [t EXCEPT !.buffers = VideoBuffers \ F]
      b == [VID_SetPalette(a, 1) EXCEPT !.conn = x]
      c == Took(IF x THEN b ELSE Took(b, "display", F), "factory", F)
      d == Scaled([c EXCEPT !.info = info], F)
      e == Took(IF x THEN c ELSE d, "surface", F)
  IN  IF a.buffers # VideoBuffers THEN Stage(a, "failed")
      ELSE IF (~x /\ {"display", "info"} \cap F # {}) \/ "factory" \in F THEN Stage(c, "failed")
      ELSE IF "surface" \in F \/ ~x THEN Stage(e, "open")
      ELSE Windowed([e EXCEPT !.scale = 1], F)

VID_Shutdown(t) ==
  LET a == IF t.conn THEN XCloseDisplay(IF t.win # 0 THEN XDestroyWindow(t) ELSE t) ELSE t
  IN  Stage([a EXCEPT !.win = 0, !.handles = @ \ {"surface"}, !.buffers = {}], "closed")

(* doom_main; it returns, and with it the process ends, when a step fails. *)
doom_main(t, x, info, F) ==
  LET a == Took([t EXCEPT !.conn = x], "factory", F)
      b == IF x THEN a ELSE Took(a, "display", F)
      c == Scaled([b EXCEPT !.info = IF x THEN [info EXCEPT !.transfer = WIDTH] ELSE info], F)
      d == Took(c, "surface", F)
  IN  IF "factory" \in F \/ (~x /\ {"display", "info"} \cap F # {}) \/ "surface" \in F THEN Stage(t, "ended")
      ELSE IF ~x THEN Stage(d, "open")
      ELSE LET w == Windowed([d EXCEPT !.scale = 1], F) IN IF w.stage = "failed" THEN Stage(t, "ended") ELSE w

(* Window_Init and Window_Create2D, Window_Create3D; the surface of a      *)
(* window that is not DemonX's is made by the first frame.                 *)
Window_Init(t, x, info, F) ==
  LET a == IF x THEN t ELSE Took(Took(t, "display", F), "input", F)
      available == x \/ {"display", "info"} \cap F = {}
  IN  [Took(a, "factory", F) EXCEPT !.conn = x, !.win = 0, !.stage = "ready", !.rect = <<>>,
        !.info = IF ~x /\ available THEN info ELSE [width |-> 640, height |-> 480, transfer |-> 640]]
create_window(t, F) ==
  LET a == XCreateSimpleWindow(t, F)
      b == Took(a, "surface", F)
  IN  IF ~t.conn THEN Stage(t, "open")
      ELSE IF a.win = 0 \/ "factory" \notin t.handles THEN Stage(a, "failed")
      ELSE Stage(b, IF {"surface", "attach"} \cap F = {} THEN "open" ELSE "failed")
Window_Destroy(t) ==
  LET a == IF t.conn /\ t.win # 0 THEN XDestroyWindow(t) ELSE t
  IN  [a EXCEPT !.win = 0, !.handles = @ \ {"surface"}, !.stage = "ready"]
Window_RequestClose(t) ==
  Stage([(IF t.conn /\ t.win # 0 THEN XDestroyWindow(t) ELSE t) EXCEPT !.win = 0], "failed")
Window_FreeFramebuffer(t) == [t EXCEPT !.handles = @ \ {"surface"}]
Window_Free(t) ==
  LET a == IF t.conn THEN XCloseDisplay(IF t.win # 0 THEN XDestroyWindow(t) ELSE t) ELSE t
  IN  Stage([a EXCEPT !.win = 0, !.handles = {}], "closed")

DemonButterscotchVideo_close(t) ==
  Stage([(IF t.conn THEN XCloseDisplay(t) ELSE t) EXCEPT !.handles = {}, !.buffers = {}], "closed")
DemonButterscotchVideo_open(t, x, F) ==
  LET a == Took(t, "factory", F)
      b == Took(a, "surface", F)
      c == [b EXCEPT !.buffers = {"upload"} \ F]
      d == Windowed([c EXCEPT !.conn = TRUE], F)
  IN  IF "factory" \in F THEN a
      ELSE IF "surface" \in F THEN DemonButterscotchVideo_close(b)
      ELSE IF "upload" \in F \/ (x /\ "connect" \in F) THEN DemonButterscotchVideo_close(c)
      ELSE IF ~x THEN Stage(c, "open")
      ELSE IF d.stage = "failed" THEN DemonButterscotchVideo_close(d) ELSE d

-----------------------------------------------------------------------------
(* A frame on the display: scaled, in the middle.  A windowed frame is     *)
(* the surface the server shows.                                           *)
Present(t) ==
  LET w == WIDTH * t.scale
      h == HEIGHT * t.scale
      Middle(size, n) == IF size > n THEN (size - n) \div 2 ELSE 0
  IN  IF "display" \notin t.handles THEN t
      ELSE [t EXCEPT !.rect = <<Middle(t.info.width, w), Middle(t.info.height, h), w, h>>]
(* Without its buffer VID_Update writes through a null pointer, and the    *)
(* kernel ends the process.                                                *)
VID_Update(t) == IF "argb" \in t.buffers THEN Present(t) ELSE Stage(Closed(t.port), "ended")
doom_present(t) == IF t.conn THEN t ELSE Present(t)
Window_DrawFramebuffer(t, F) ==
  IF ~t.conn /\ "display" \notin t.handles THEN t
  ELSE LET a == IF "factory" \in t.handles /\ "surface" \notin t.handles THEN Took(t, "surface", F) ELSE t
       IN  IF t.conn THEN a ELSE Present(a)

-----------------------------------------------------------------------------
(* Keys.  A key event carries the code of the key and, when it goes down,  *)
(* the character of the layout; translate_key turns them into the engine's *)
(* key: special keys and all releases by the code, other presses by the    *)
(* character, which is another one (k.shift) with shift.  Doom binds       *)
(* letters in capitals, ClassiCube goes by the code alone.                 *)
translate_key(port, k, pressed, shift) ==
  IF ~pressed \/ ~shift \/ k.special \/ port = "classicube" \/ (port = "doom" /\ k.letter) THEN k.code ELSE k.shift
(* Two keys of a direction share a bit.                                    *)
key_mask(k) == k.mask
EngineKey(t, k, pressed, shift) ==
  IF t.port = "butterscotch" THEN key_mask(k) ELSE translate_key(t.port, k, pressed, shift)
Key(t, k, pressed, shift) ==
  LET key == EngineKey(t, k, pressed, shift)
  IN  IF key = "none" THEN t
      ELSE IF pressed THEN [t EXCEPT !.held = @ \cup {key}] ELSE [t EXCEPT !.held = @ \ {key}]

(* One event of the queue, as each port's loop takes it.                   *)
Close(t) == [t EXCEPT !.win = 0, !.quit = TRUE, !.stage = IF t.port = "classicube" THEN "failed" ELSE @]
XNextEvent(t) ==
  LET v == Head(t.queue)
      a == [t EXCEPT !.queue = Tail(@)]
  IN  CASE v.type = "close" -> IF t.port = "butterscotch" THEN [a EXCEPT !.quit = TRUE] ELSE Close(a)
        [] v.type = "key" ->
             LET b == Key(a, v.key, v.pressed, v.shift)
             IN  IF v.key.code = "escape" /\ v.pressed
                 THEN CASE t.port = "classicube" -> Window_RequestClose(b)
                        [] t.port = "butterscotch" -> [b EXCEPT !.quit = TRUE]
                        [] OTHER -> b
                 ELSE b
        [] v.type = "focusout" /\ t.port = "butterscotch" -> [a EXCEPT !.held = {}, !.lost = {}]
        [] OTHER -> a

-----------------------------------------------------------------------------
(* The user and the server.                                                *)
Send(t, v) == [t EXCEPT !.queue = Append(@, v), !.events = @ + 1]
Listening(t) == t.conn /\ t.win \in t.live /\ t.win # 0
Press(t, k) ==
  LET a == [t EXCEPT !.down = @ \cup {k}, !.lost = @ \ {k}, !.shifted = IF t.shift THEN @ \cup {k} ELSE @]
  IN  IF Listening(t) /\ t.focus THEN Send(a, [type |-> "key", key |-> k, pressed |-> TRUE, shift |-> t.shift]) ELSE a
Release(t, k) ==
  LET a == [t EXCEPT !.down = @ \ {k}]
  IN  IF Listening(t) /\ t.focus THEN Send(a, [type |-> "key", key |-> k, pressed |-> FALSE, shift |-> t.shift])
      ELSE [a EXCEPT !.lost = @ \cup {k}]
Focus(t) == Send([t EXCEPT !.focus = ~@], [type |-> IF t.focus THEN "focusout" ELSE "focusin"])
UserCloses(t) == Send([t EXCEPT !.live = @ \ {t.win}], [type |-> "close"])

Init == s \in {Closed(p) : p \in Ports}

(* With a server, or on a screen.                                          *)
Starts == {<<TRUE, CHOOSE i \in Screens : TRUE>>} \cup {<<FALSE, i>> : i \in Screens}
Open ==
  \E F \in Faults, w \in Starts :
    \/ s.port = "quake" /\ s.made = 0 /\ s.handles = {} /\ s.stage = "closed" /\ s' = VID_Init(s, w[1], w[2], F)
    \/ s.port = "doom" /\ s.stage = "closed" /\ s' = doom_main(s, w[1], w[2], F)
    \/ s.port = "butterscotch" /\ s.made = 0 /\ s.stage = "closed" /\ s' = DemonButterscotchVideo_open(s, w[1], F)
    \/ s.port = "classicube" /\ s.stage = "closed" /\ s.made < WINDOWS /\ s' = Window_Init(s, w[1], w[2], F)
    \/ s.port = "classicube" /\ s.stage = "ready" /\ s.made < WINDOWS /\ s' = create_window(s, F)
Frame ==
  \E F \in Faults :
    \/ s.port = "quake" /\ s.stage \in {"open", "failed"} /\ s' = VID_Update(s)
    \/ s.port = "doom" /\ s.stage = "open" /\ s' = doom_present(s)
    \/ s.port = "classicube" /\ s.stage \in {"open", "failed"} /\ s' = Window_DrawFramebuffer(s, F)
    \/ s.port = "quake" /\ s.stage = "open" /\ \E p \in {1, 2} : s' = VID_SetPalette(s, p)
Shut ==
  \/ s.port = "quake" /\ s.stage \in {"open", "failed"} /\ s' = VID_Shutdown(s)
  \/ s.port = "butterscotch" /\ s.stage = "open" /\ s' = DemonButterscotchVideo_close(s)
  \/ s.port = "classicube" /\ s.stage \in {"open", "failed"}
     /\ (s' = Window_FreeFramebuffer(s) \/ s' = Window_Destroy(s))
  \/ s.port = "classicube" /\ s.stage \in {"open", "failed", "ready"} /\ s' = Window_Free(s)
Poll == s.conn /\ s.stage \in {"open", "failed"} /\ s.queue # <<>> /\ s' = XNextEvent(s)
User ==
  /\ s.conn /\ s.stage \in {"open", "failed"} /\ s.events < EVENTS
  /\ \/ \E k \in Keys : k \notin s.down /\ s' = Press(s, k)
     \/ \E k \in s.down : s' = Release(s, k)
     \/ s' = [s EXCEPT !.shift = ~@, !.events = @ + 1]
     \/ Listening(s) /\ (s' = Focus(s) \/ s' = UserCloses(s))
Next == Open \/ Frame \/ Shut \/ Poll \/ User

-----------------------------------------------------------------------------
(* A port that has closed its window, or could not open it, holds neither  *)
(* a buffer nor a connection nor a surface, whichever step failed; only    *)
(* Quake keeps its two service handles, which VID_Shutdown does not close. *)
ClosedMeansReleased ==
  s.stage = "closed" =>
    /\ s.buffers = {} /\ ~s.conn /\ s.live = {}
    /\ s.handles \subseteq (IF s.port = "quake" THEN {"display", "factory"} ELSE {})

(* The window that a port names in its requests exists at the server       *)
(* unless the message that it was closed is still on its way (the ports'   *)
(* event loops forget the window when they read it; Butterscotch quits).   *)
WindowIsLiveOrClosing ==
  s.conn /\ s.win # 0 => \/ s.win \in s.live
                         \/ \E i \in DOMAIN s.queue : s.queue[i].type = "close"
                         \/ s.port = "butterscotch" /\ s.quit

(* A frame lies inside a screen of at least the base size, one line of it  *)
(* in a transfer, whatever the scale; and is drawn in the current palette  *)
(* when it is drawn on the display itself.                                 *)
FramesFitTheScreen ==
  s.stage = "open" =>
    /\ s.rect # <<>> /\ s.info.width >= WIDTH /\ s.info.height >= HEIGHT =>
         s.rect[1] + s.rect[3] <= s.info.width /\ s.rect[2] + s.rect[4] <= s.info.height
    /\ s.scale > 1 => WIDTH * s.scale <= s.info.transfer /\ "scaled" \in s.buffers
    /\ ~s.conn => s.table = s.palette

(* A key that the engine takes to be down is down, its release is on the   *)
(* way, or its release went to another window.  With shift, a port that    *)
(* names presses by their character may also keep a key that is released   *)
(* under its other name: never ClassiCube, and Doom no letter.             *)
(* Butterscotch, which forgets its keys when the focus goes, keeps none    *)
(* whose release went elsewhere.                                           *)
HeldKeysAreDown ==
  s.conn => \A key \in s.held :
    \/ \E k \in s.down : EngineKey(s, k, FALSE, FALSE) = key
    \/ \E i \in DOMAIN s.queue : LET v == s.queue[i] IN
         \/ v.type = "key" /\ ~v.pressed /\ EngineKey(s, v.key, FALSE, FALSE) = key
         \/ v.type = "focusout" /\ s.port = "butterscotch"
    \/ \E k \in s.lost : EngineKey(s, k, FALSE, FALSE) = key /\ (s.port = "butterscotch" => s.win \notin s.live)
    \/ \E k \in s.shifted : /\ s.port \in {"quake", "doom"} /\ (s.port = "doom" => ~k.letter)
                            /\ EngineKey(s, k, TRUE, TRUE) = key
=============================================================================
