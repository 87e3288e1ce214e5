----------------------------- MODULE InitUnits ------------------------------
(***************************************************************************)
(* The init system (src/init.c) and the shell commands that act on it and  *)
(* on processes (src/makobox.c: runas, runit, kill, launch_app), after a   *)
(* boot that left the compositor running behind the shell, as the scripted *)
(* desktop image does.                                                     *)
(*                                                                         *)
(* A task is [name, state, timer]: timer says that a deadline is armed.    *)
(* One task at a time may wait for input, and gets the next event; events  *)
(* nobody waits for are counted in input.                                  *)
(***************************************************************************)
EXTENDS Integers, FiniteSets

CONSTANTS Pids,          \* process slots; the compositor got the first
          Graphical,     \* terminal_graphical_active()
          APPS, EVENTS, CHANGES   \* bounds: launches, input events, unit changes

VARIABLE s

Compositor == CHOOSE p \in Pids : \A q \in Pids : p <= q
Unit == 0..9
NO_DEPENDENCY == 255
dependency == [u \in Unit |-> CASE u = 0 -> NO_DEPENDENCY [] u \in {1, 2} -> 0 [] u = 3 -> 2 [] u = 4 -> 3
                                [] u = 5 -> 4 [] u = 6 -> 1 [] u = 7 -> 5 [] u = 8 -> 7 [] OTHER -> 8]
mutable == {4}
Nobody == 0
Free == [name |-> "none", state |-> "free", timer |-> FALSE]
Alive(t) == t.state \in {"ready", "blocked"}

(***************************************************************************)
(* Units.  Starting one starts what it depends on; the compositor's unit   *)
(* needs a live process of that name.                                      *)
(***************************************************************************)
Chain[u \in Unit] == {u} \cup (IF dependency[u] = NO_DEPENDENCY THEN {} ELSE Chain[dependency[u]])
Alone(k) == k.unit[8] # "active" /\ ~(Alive(k.task[Compositor]) /\ k.task[Compositor].name = "compositor")
start_index(k, u) ==
  LET todo == {v \in Chain[u] : \A w \in Chain[u] : k.unit[w] = "active" => v \notin Chain[w]}
      failed == IF 8 \in todo /\ Alone(k) THEN {v \in todo : 8 \in Chain[v]} ELSE {}
      up == todo \ failed
  IN  [k EXCEPT !.unit = [v \in Unit |-> IF v \in failed THEN "failed" ELSE IF v \in up THEN "active" ELSE @[v]],
                !.transactions = @ + Cardinality(up), !.started = @ + Cardinality(up)]
init_system_start(k, u) == IF u \in mutable THEN start_index(k, u) ELSE k
init_system_stop(k, u) ==
  IF u \notin mutable \/ k.unit[u] # "active" THEN k
  ELSE [k EXCEPT !.unit[u] = "inactive", !.stopped = @ + 1, !.transactions = @ + 1]
init_system_restart(k, u) == init_system_start(init_system_stop(k, u), u)
init_system_reach_boot_target(k) == start_index(start_index(start_index(k, 7), 6), 9)
(* The name is not looked at again.                                        *)
init_system_desktop_active(k) == k.unit[8] = "active" /\ k.unit[9] = "active" /\ Alive(k.task[Compositor])

init_system_init ==
  [unit |-> [u \in Unit |-> "inactive"], transactions |-> 0, started |-> 0, stopped |-> 0,
   task |-> [p \in Pids |-> IF p = Compositor
                            THEN [name |-> "compositor", state |-> "blocked", timer |-> TRUE] ELSE Free],
   at |-> "shell", app |-> Compositor, resume |-> FALSE, waiter |-> Compositor, input |-> 0,
   apps |-> 0, events |-> 0, changes |-> 0]

(***************************************************************************)
(* Commands.                                                               *)
(***************************************************************************)
Shell == s.at = "shell"
(* runit changes a unit only below runas, which is granted to the console. *)
runit_mutate ==
  /\ Shell /\ s.changes < CHANGES
  /\ \E u \in Unit, op \in {"start", "stop", "restart"} :
       LET k == CASE op = "start" -> init_system_start(s, u) [] op = "stop" -> init_system_stop(s, u)
                  [] OTHER -> init_system_restart(s, u)
       IN  k # s /\ s' = [k EXCEPT !.changes = @ + 1]

(* scheduler_terminate: the task stays as an exited one until its parent   *)
(* reaps it, which for the compositor nobody does.                         *)
Exit(k, p) ==
  [k EXCEPT !.task[p].state = "exited", !.task[p].timer = FALSE, !.waiter = IF @ = p THEN Nobody ELSE @]
Bug_applet_kill(p) == Shell /\ Alive(s.task[p]) /\ s' = [Exit(s, p) EXCEPT !.task[p] = Free]
applet_kill(p) == Shell /\ Alive(s.task[p]) /\ s' = Exit(s, p)

(* The waits of the compositor are removed; its deadline is not.           *)
Suspend(k) == IF init_system_desktop_active(k) /\ k.waiter = Compositor THEN [k EXCEPT !.waiter = Nobody] ELSE k
scheduler_wake(t) == IF t.state = "blocked" THEN [t EXCEPT !.state = "ready", !.timer = FALSE] ELSE t
Resume(k) == IF k.resume THEN [k EXCEPT !.task[Compositor] = scheduler_wake(@)] ELSE k
Return(k) == Resume([k EXCEPT !.input = 0, !.at = "shell"])

launch_app ==
  /\ Shell /\ s.apps < APPS
  /\ LET k == [Suspend(s) EXCEPT !.resume = init_system_desktop_active(s) /\ ~Graphical, !.input = 0, !.apps = @ + 1]
         free == {p \in Pids : s.task[p].state = "free"}
     IN  IF free = {} THEN s' = Return(k)
         ELSE LET p == CHOOSE q \in free : \A r \in free : q <= r
              IN  s' = [k EXCEPT !.task[p] = [name |-> "app", state |-> "ready", timer |-> FALSE],
                                 !.app = p, !.at = "app"]

(* userspace_run_init comes back when no task is ready: then the app is    *)
(* reaped, or is still there and the command reports a failed wait.        *)
Back ==
  /\ s.at = "app" /\ \A p \in Pids : s.task[p].state # "ready"
  /\ s' = Return(IF s.task[s.app].state = "exited" THEN [s EXCEPT !.task[s.app] = Free] ELSE s)

(***************************************************************************)
(* Tasks, the input interrupt and the timer.                               *)
(***************************************************************************)
(* A task reads what input there is, then waits (with a deadline if it is  *)
(* the compositor), or ends.  A second waiter is refused and goes on.      *)
Run(p) ==
  /\ s.task[p].state = "ready"
  /\ \/ s.input > 0 /\ s' = [s EXCEPT !.input = @ - 1]
     \/ /\ s.input = 0 /\ s.waiter = Nobody
        /\ s' = [s EXCEPT !.waiter = p, !.task[p].state = "blocked", !.task[p].timer = s.task[p].name = "compositor"]
     \/ s' = Exit(s, p)
input_publish ==
  /\ s.events < EVENTS
  /\ LET k == [s EXCEPT !.events = @ + 1]
     IN  s' = IF s.waiter = Nobody THEN [k EXCEPT !.input = @ + 1]
              ELSE [k EXCEPT !.waiter = Nobody, !.task[s.waiter] = scheduler_wake(@)]
Deadline(p) ==
  /\ s.task[p].timer
  /\ s' = [s EXCEPT !.task[p] = scheduler_wake(@), !.waiter = IF @ = p THEN Nobody ELSE @]

Init == s = init_system_reach_boot_target(init_system_init)
Next ==
  \/ runit_mutate \/ launch_app \/ Back \/ input_publish
  \/ \E p \in Pids : applet_kill(p) \/ Run(p) \/ Deadline(p)
Spec == Init /\ [][Next]_s

(* What the theorem assumes: there are process slots, numbered from 1.     *)
InitUnitsConstants == Pids # {} /\ Cardinality(Pids) \in Nat /\ Pids = 1..Cardinality(Pids)

(***************************************************************************)
(* Properties.                                                             *)
(***************************************************************************)
(* The process init calls the desktop is the compositor, although only     *)
(* start_index looks at its name: its pid cannot name another task because *)
(* nobody reaps it.  The journal counts every start and stop, and units    *)
(* that may not be changed stay active.                                    *)
DesktopIsTheCompositor ==
  /\ init_system_desktop_active(s) => s.task[Compositor].name = "compositor"
  /\ s.transactions = s.started + s.stopped
  /\ \A u \in Unit \ mutable : s.unit[u] = "active"

(* No task is left asleep: at the prompt, a blocked compositor has its     *)
(* input wait or its deadline, also after launch_app took the wait away.   *)
DesktopIsResumed ==
  s.at = "shell" /\ s.task[Compositor].state = "blocked" => s.waiter = Compositor \/ s.task[Compositor].timer
=============================================================================
