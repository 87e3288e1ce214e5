---------------------------- MODULE InputDevices ----------------------------
(***************************************************************************)
(* The keyboard, the PS/2 mouse and the USB tablet                         *)
(* (src/arch/x86_64/interrupts.c, src/usb_uhci.c) with their devices.      *)
(*                                                                         *)
(* s.k and s.m are the bytes the keyboard and the mouse have sent and the  *)
(* controller still holds; it presents one of them (s.obf) and the         *)
(* handlers read it.  Interrupts run one at a time; how many mouse bytes a *)
(* handler finds is open, and the timer drains what an interrupt left.     *)
(* s.held, s.pressed are the keys and buttons that are down; s.lost says   *)
(* that a byte was lost, s.odd that the mouse's last report was one the    *)
(* decoder refuses, s.seen what the published events add up to.            *)
(***************************************************************************)
EXTENDS Integers, Sequences, FiniteSets, SequencesExt

CONSTANTS Mixes, Keys, KEYBOARD_BUFFER, WIRE, Moves, Screens, Raw, AXIS, IRQ_LIMIT, TIMER_LIMIT, LOSSES, EVENTS

VARIABLE s

Bit(b, n) == (b \div 2^n) % 2 = 1
Make == [lshift |-> <<42>>, rshift |-> <<54>>, lalt |-> <<56>>, ralt |-> <<224, 56>>, lctrl |-> <<29>>, rctrl |-> <<224, 29>>,
         super |-> <<224, 91>>, caps |-> <<58>>, a |-> <<30>>, one |-> <<2>>, up |-> <<224, 42, 224, 72>>]
Break == [Make EXCEPT !["up"] = <<224, 200, 224, 170>>]
Modifier(key) == CASE key \in {"lshift", "rshift"} -> "shift" [] key \in {"lalt", "ralt"} -> "alt"
                   [] key \in {"lctrl", "rctrl"} -> "ctrl" [] OTHER -> key
Letter(code) == code = 30
Symbols == [shifted |-> (30 :> "A") @@ (2 :> "!"), unshifted |-> (30 :> "a") @@ (2 :> "1")]

(* ps2_mouse_start after ps2_keyboard_start: the mouse fails to acknowledge*)
(* command number fail (0: none); the device switches to four-byte packets *)
(* after the three sample rates.                                           *)
ps2_mouse_start(device, fail) ==
  LET switched == device /\ fail \notin 1..7
  IN  [wheel |-> switched /\ fail # 8, four |-> switched, streaming |-> fail = 0 \/ fail \in 2..8]

(* make_control_status, make_token: the transfer descriptor is active.     *)
Armed(low, toggle) == [state |-> "active", low |-> low, toggle |-> toggle]

(* A request is done when both of its descriptors complete without error,  *)
(* each in half a second.                                                  *)
wait_for_td(outcome) == outcome = "done"
control_request_no_data(setup, status) == wait_for_td(setup) /\ wait_for_td(status)

(* The first port that answers its reset is used; a refused request ends   *)
(* the start; else the report's descriptor is put on the schedule.         *)
reset_port(port, connected) == port \in connected
usb_uhci_start(connected, address, configuration, low) ==
  LET found == /\ reset_port(1, connected) \/ reset_port(2, connected)
               /\ control_request_no_data("done", address) /\ control_request_no_data(configuration, "done")
  IN  [present |-> found, td |-> Armed(low, 0), linked |-> found, toggle |-> 0, low |-> low, data |-> 0,
       report |-> [x |-> 0, y |-> 0, b |-> {}]]

(* A run is about some of the devices.                                     *)
Init == \E mix \in Mixes, device \in BOOLEAN, fail \in {0, 3, 8, 9}, low \in BOOLEAN,
           answer \in {"done", "error", "timeout"} :
  LET tablet == usb_uhci_start(IF "tablet" \in mix THEN {2} ELSE {}, "done", answer, low)
      mouse == ps2_mouse_start(device, fail)
  IN  /\ "mouse" \notin mix => fail = 9 /\ ~device
      /\ ~tablet.present => ~low
      /\ s = [mix |-> mix, k |-> <<>>, m |-> <<>>, obf |-> "none", extended |-> FALSE, mods |-> {}, caps |-> FALSE, ring |-> <<>>,
              wheel |-> mouse.wheel, four |-> mouse.four, streaming |-> mouse.streaming, packet |-> <<>>, buttons |-> {},
              x |-> 1, y |-> 1, max |-> 3, t |-> tablet, left |-> LOSSES, events |-> EVENTS,
              held |-> {}, twin |-> FALSE, lock |-> FALSE, pressed |-> {}, odd |-> FALSE, lost |-> mouse.four # mouse.wheel,
              seen |-> {}, inside |-> TRUE, right |-> TRUE]

Clamp(v, max) == IF v < 0 THEN 0 ELSE IF v > max THEN max ELSE v

(* publish_mouse_button, three times: the changes are published, with the  *)
(* pointer's place.                                                        *)
publish_mouse_button(st, buttons) ==
  [st EXCEPT !.seen = (@ \ (st.buttons \ buttons)) \cup (buttons \ st.buttons), !.buttons = buttons,
             !.inside = @ /\ st.x \in 0..st.max /\ st.y \in 0..st.max]

mouse_report_absolute(st, x, y, buttons) ==
  publish_mouse_button([st EXCEPT !.x = Clamp(x, st.max), !.y = Clamp(y, st.max)], buttons)

Signed(b) == IF b >= 128 THEN b - 256 ELSE b
Scale(n) == IF n >= 7 THEN 3 ELSE IF n >= 2 THEN 2 ELSE 1
Abs(n) == IF n < 0 THEN -n ELSE n

decode_mouse_packet(st) ==
  LET flags == st.packet[1]
      dx == Signed(st.packet[2])
      dy == -Signed(st.packet[3])
      scale == IF Abs(dx) > Abs(dy) THEN Scale(Abs(dx)) ELSE Scale(Abs(dy))
  IN  IF flags >= 64 \/ Bit(flags, 4) # Bit(st.packet[2], 7) \/ Bit(flags, 5) # Bit(st.packet[3], 7) THEN st
      ELSE publish_mouse_button([st EXCEPT !.x = Clamp(@ + dx * scale, st.max), !.y = Clamp(@ + dy * scale, st.max)],
                                {n \in 0..2 : Bit(flags, n)})

(* One byte of drain_mouse_bytes.                                          *)
MouseByte(st, b) ==
  LET next == Append(st.packet, b)
  IN  IF next = <<b>> /\ ~Bit(b, 3) THEN st
      ELSE IF Len(next) < (IF st.wheel THEN 4 ELSE 3) THEN [st EXCEPT !.packet = next]
      ELSE [decode_mouse_packet([st EXCEPT !.packet = next]) EXCEPT !.packet = <<>>]

(* The loop ends at a byte that is not the mouse's, at an empty controller *)
(* or at the limit; what the controller presents next is open.             *)
drain_mouse_bytes(limit) ==
  \E n \in 1..Len(s.m) :
    /\ s.obf = "aux" /\ n <= limit
    /\ s' = [FoldLeft(MouseByte, s, SubSeq(s.m, 1, n)) EXCEPT !.m = SubSeq(s.m, n + 1, Len(s.m)), !.obf = "none"]

interrupt_mouse_handler == drain_mouse_bytes(IRQ_LIMIT)

(* keyboard_queue_char; the ring keeps one place free.                     *)
keyboard_queue_char(st, c) == IF Len(st.ring) = KEYBOARD_BUFFER - 1 THEN st ELSE [st EXCEPT !.ring = Append(@, c)]

Toggle(set, key, down) == IF down THEN set \cup {key} ELSE set \ {key}

(* A scan code after 0xE0.                                                 *)
Bug_Extended(st, code, down) ==
  IF code = 72 /\ down THEN keyboard_queue_char([st EXCEPT !.extended = FALSE], "up")
  ELSE [st EXCEPT !.mods = Toggle(@, CASE code = 91 -> "super" [] code = 56 -> "alt" [] code = 29 -> "ctrl"
                                       [] OTHER -> "shift", down)]
Extended(st, code, down) ==
  LET now == [st EXCEPT !.extended = FALSE]
  IN  CASE code = 91 -> [now EXCEPT !.mods = Toggle(@, "super", down)]
        [] code = 56 -> [now EXCEPT !.mods = Toggle(@, "alt", down)]
        [] code = 29 -> [now EXCEPT !.mods = Toggle(@, "ctrl", down)]
        [] code = 72 /\ down -> keyboard_queue_char(now, "up")
        [] OTHER -> now

Plain(st, code, down) ==
  CASE code \in {42, 54} -> [st EXCEPT !.mods = Toggle(@, "shift", down)]
    [] code = 56 -> [st EXCEPT !.mods = Toggle(@, "alt", down)]
    [] code = 29 -> [st EXCEPT !.mods = Toggle(@, "ctrl", down)]
    [] code = 58 /\ down -> [st EXCEPT !.caps = ~@]
    [] code \in {30, 2} /\ down ->
         keyboard_queue_char(st, IF Letter(code) /\ "ctrl" \in st.mods THEN "^A"
                                 ELSE IF (IF Letter(code) THEN ("shift" \in st.mods) # st.caps ELSE "shift" \in st.mods)
                                      THEN Symbols.shifted[code] ELSE Symbols.unshifted[code])
    [] OTHER -> st

interrupt_keyboard_handler ==
  /\ s.obf = "kbd"
  /\ LET scan == Head(s.k).b
         now == [s EXCEPT !.k = Tail(@), !.obf = "none"]
         done == IF scan = 224 THEN [now EXCEPT !.extended = TRUE]
                 ELSE IF s.extended THEN Extended(now, scan % 128, scan < 128)
                 ELSE Plain(now, scan % 128, scan < 128)
     IN  s' = [done EXCEPT !.right = @ /\ IF Len(done.ring) > Len(s.ring) THEN Last(done.ring) = Head(s.k).means
                                          ELSE Head(s.k).means = "" \/ Len(s.ring) = KEYBOARD_BUFFER - 1]

keyboard_read_char == s.ring # <<>> /\ s' = [s EXCEPT !.ring = Tail(@)]
keyboard_discard_chars == s.ring # <<>> /\ s' = [s EXCEPT !.ring = <<>>]

mouse_set_bounds(size) ==
  /\ size - 1 # s.max /\ s.events > 0
  /\ s' = [s EXCEPT !.events = @ - 1, !.max = size - 1, !.x = Clamp(@, size - 1), !.y = Clamp(@, size - 1)]

(* A completed report moves the pointer and flips the toggle; the          *)
(* descriptor is armed again, at full speed.                               *)
usb_uhci_poll(st) ==
  LET t == st.t
      read == mouse_report_absolute(st, (t.report.x * st.max) \div AXIS, (t.report.y * st.max) \div AXIS, t.report.b)
      toggle == IF t.td.state = "done" THEN 1 - t.toggle ELSE t.toggle
  IN  IF ~t.present \/ t.td.state = "active" THEN st
      ELSE [(IF t.td.state = "done" THEN read ELSE st) EXCEPT !.t.toggle = toggle, !.t.td = Armed(FALSE, toggle)]

(* The input half of the timer's handler: mouse bytes, then the tablet.    *)
interrupt_timer_handler ==
  \E n \in 0..Len(s.m) :
    /\ n <= TIMER_LIMIT /\ (s.obf = "aux") = (n > 0)
    /\ s' = usb_uhci_poll([FoldLeft(MouseByte, s, SubSeq(s.m, 1, n))
                             EXCEPT !.m = SubSeq(s.m, n + 1, Len(s.m)), !.obf = IF n > 0 THEN "none" ELSE @])
    /\ s' # s

-----------------------------------------------------------------------------
(* The devices, which send at most EVENTS times.                           *)
Scans(codes, means) == [i \in 1..Len(codes) |-> [b |-> codes[i], means |-> IF i = Len(codes) THEN means ELSE ""]]

(* What a key should type: Caps Lock concerns letters only.                *)
Types(key, held, lock) ==
  LET shift == \E other \in held : Modifier(other) = "shift"
  IN  CASE key = "a" -> IF \E other \in held : Modifier(other) = "ctrl" THEN "^A" ELSE IF shift # lock THEN "A" ELSE "a"
        [] key = "one" -> IF shift THEN "!" ELSE "1"
        [] key = "up" -> "up"
        [] OTHER -> ""

KeyDown(key) ==
  /\ "keyboard" \in s.mix /\ s.events > 0 /\ key \notin s.held /\ Len(s.k) + Len(Make[key]) <= WIRE
  /\ s' = [s EXCEPT !.events = @ - 1, !.held = @ \cup {key}, !.lock = IF key = "caps" THEN ~@ ELSE @,
                    !.twin = @ \/ \E other \in s.held : Modifier(other) = Modifier(key),
                    !.k = @ \o Scans(Make[key], Types(key, s.held, s.lock))]
KeyUp(key) ==
  /\ s.events > 0 /\ key \in s.held /\ Len(s.k) + Len(Break[key]) <= WIRE
  /\ s' = [s EXCEPT !.events = @ - 1, !.held = @ \ {key},
                    !.k = @ \o Scans(IF key = "up" THEN Break[key]
                                     ELSE [Break[key] EXCEPT ![Len(Break[key])] = @ + 128], "")]

Byte(n) == (n + 512) % 256
MouseReports(dx, dy, buttons) ==
  /\ s.events > 0 /\ s.streaming /\ s.m = <<>> /\ <<dx, dy, buttons>> # <<0, 0, s.pressed>>
  /\ s' = [s EXCEPT !.events = @ - 1, !.pressed = buttons, !.odd = dx \notin -128..127,
                    !.m = <<8 + (IF 0 \in buttons THEN 1 ELSE 0) + (IF dx < 0 THEN 16 ELSE 0) + (IF dy < 0 THEN 32 ELSE 0),
                            Byte(dx), Byte(dy)>> \o (IF s.four THEN <<0>> ELSE <<>>)]

(* The controller's queue overflows.                                       *)
LoseByte(queue) ==
  /\ s.left > 0
  /\ s' = CASE queue = "k" /\ s.k # <<>> /\ s.obf # "kbd" -> [s EXCEPT !.k = Tail(@), !.lost = TRUE, !.left = @ - 1]
            [] queue = "m" /\ s.m # <<>> /\ s.obf # "aux" -> [s EXCEPT !.m = Tail(@), !.lost = TRUE, !.left = @ - 1]
            [] OTHER -> s
  /\ s' # s

Present == s.obf = "none" /\ \/ s.k # <<>> /\ s' = [s EXCEPT !.obf = "kbd"]
                             \/ s.m # <<>> /\ s' = [s EXCEPT !.obf = "aux"]

(* The controller runs the linked descriptor: a report of a device of the  *)
(* same speed and toggle completes it, and the queue head moves on.        *)
UhciRuns(x, y, buttons) ==
  /\ s.events > 0 /\ s.t.present /\ s.t.linked /\ s.t.td.state = "active"
  /\ \/ s.t.td.low = s.t.low /\ s.t.td.toggle = s.t.data
        /\ s' = [s EXCEPT !.events = @ - 1, !.t.td.state = "done", !.t.linked = FALSE, !.t.data = 1 - @, !.t.report = [x |-> x, y |-> y, b |-> buttons]]
     \/ s.t.td.low # s.t.low /\ s' = [s EXCEPT !.events = @ - 1, !.t.td.state = "error"]

Next ==
  \/ interrupt_mouse_handler \/ interrupt_keyboard_handler \/ interrupt_timer_handler \/ Present
  \/ keyboard_read_char \/ keyboard_discard_chars \/ \E size \in Screens : mouse_set_bounds(size)
  \/ \E key \in Keys : KeyDown(key) \/ KeyUp(key)
  \/ \E move \in Moves, buttons \in {{}, {0}} : MouseReports(move[1], move[2], buttons)
  \/ \E queue \in {"k", "m"} : LoseByte(queue)
  \/ \E x \in Raw, buttons \in {{}, {0}} : UhciRuns(x, AXIS, buttons)

-----------------------------------------------------------------------------
(* As long as no byte is lost: once the keyboard's bytes are handled, a    *)
(* modifier is on only while a key of it is held, Caps Lock is what was    *)
(* pressed, and every key typed what it means under the keys held at that  *)
(* time, extended keys and the shift codes around them included (two keys  *)
(* of the same modifier at once are left out: the first release ends it).  *)
KeysMeanWhatIsHeld ==
  ~s.lost /\ ~s.twin =>
    /\ s.right
    /\ s.k = <<>> => s.caps = s.lock /\ ~s.extended /\ s.mods = {Modifier(key) : key \in s.held} \ {"caps", "a", "one", "up"}

(* Whatever bytes are lost, cut or mixed with the keyboard's, the pointer  *)
(* and every published place are on the screen, also after the screen      *)
(* shrank, and the published presses and releases add up to the state of   *)
(* the buttons.                                                            *)
PointerStaysSane == /\ s.x \in 0..s.max /\ s.y \in 0..s.max /\ s.inside
                    /\ s.seen = s.buttons

(* As long as no byte is lost the packets are never cut wrongly: with the  *)
(* mouse's bytes drained, no part of a packet is left over and the buttons *)
(* are the mouse's, unless its last report was one the decoder refuses or  *)
(* the tablet spoke too.                                                   *)
MouseIsInStep == ~s.lost /\ s.m = <<>> => s.packet = <<>> /\ (s.odd \/ s.t.present \/ s.buttons = s.pressed)
=============================================================================
