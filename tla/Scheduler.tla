------------------------------ MODULE Scheduler ------------------------------
(***************************************************************************)
(* The task table of src/scheduler.c.                                      *)
(*                                                                         *)
(* The kernel has one CPU.  System calls and interrupts run with IF=0, so  *)
(* each entry point of scheduler.c is one atomic step.  Every entry point  *)
(* is a pure operator on the scheduler's state record                      *)
(*    [task |-> tasks[], current |-> current_pid,                          *)
(*     running |-> users_running, slice |-> slice_ticks]                   *)
(* so that a system call that goes through several components can chain    *)
(* them; the actions below apply them to the variable sched.               *)
(*                                                                         *)
(* Time is kept relative: delay is wake_tick - scheduler_ticks (floored at *)
(* zero) of an armed timeout.  rax is the word a suspended task finds in   *)
(* its frame when it is resumed: while the task is blocked it still names  *)
(* the system call, a wake-up overwrites it with the result, and a later   *)
(* suspension saves the task's own register.  slice is slice_ticks of the  *)
(* current task, the only one that is read.  Exit codes, the counters that *)
(* feed `ps` (cpu_ticks, yields, dispatch_count) and the contents of       *)
(* names, stacks and address spaces are left out.                          *)
(***************************************************************************)
EXTENDS Naturals

CONSTANTS
  ProcessLimit,   \* SCHEDULER_PROCESS_LIMIT: slots, slot 0 is the kernel
  Quantum,        \* INIT_QUANTUM_TICKS
  MaxDelay,       \* bound on the delay a blocking call asks for
  Spawners,       \* bound on the pids whose program spawns processes
  Results         \* the results a wake-up stores for the blocked call

ASSUME SchedulerConstants ==
  /\ ProcessLimit \in Nat /\ ProcessLimit > 1
  /\ Quantum \in Nat /\ Quantum > 0
  /\ MaxDelay \in Nat
  /\ Spawners \subseteq 0 .. ProcessLimit - 1

(* A wake-up's result is told from the other words a frame can hold.       *)
ASSUME ResultsAreDistinct ==
  Results \cap {"in wait", "in block", "child status", "timed out", "none"} = {}

VARIABLE sched

Pid  == 0 .. ProcessLimit - 1
User == 1 .. ProcessLimit - 1

WaitNone == ProcessLimit      \* SCHEDULER_WAIT_NONE: no pid has this value

TaskState == {"unused", "ready", "running", "blocked", "exited"}

(* Words found in a suspended task's frame: the call it is suspended in,   *)
(* or the result the kernel stored.                                        *)
InWait    == "in wait"
InBlock   == "in block"
GotChild  == "child status"
GotTime   == "timed out"
GotError  == "error"
NoWord    == "none"
Word == {InWait, InBlock, GotChild, GotTime, GotError, NoWord} \cup Results

Task == [state : TaskState, parent : Pid, waiting_for : 0 .. ProcessLimit,
         timed : BOOLEAN, delay : 0 .. MaxDelay, rax : Word]

MakeTask(state, parent, waiting_for) ==
  [state |-> state, parent |-> parent, waiting_for |-> waiting_for,
   timed |-> FALSE, delay |-> 0, rax |-> NoWord]

(* The zeroed slot of `(struct task){.pid = child}`: waiting_for is 0 here. *)
FreeTask == MakeTask("unused", 0, 0)

NewTask(parent) == MakeTask("ready", parent, WaitNone)

-----------------------------------------------------------------------------
(* Helpers of scheduler.c.                                                 *)

(* Slot p becomes t.                                                       *)
Put(s, p, t) == [s EXCEPT !.task[p] = t]

(* The globals current_pid and users_running, and the current slice.       *)
Cpu(s, current, running, slice) ==
  [s EXCEPT !.current = current, !.running = running, !.slice = slice]

SetState(s, p, state) == Put(s, p, [s.task[p] EXCEPT !.state = state])

dispatch(s, pid) == SetState(Cpu(s, pid, s.running, 0), pid, "running")

(* The n-th slot examined after slot `after`: every user slot once, `after` *)
(* itself last.  1 + ((after + n - 1) % (ProcessLimit - 1)), where the sum *)
(* wraps at most once.                                                     *)
Rotate(after, n) ==
  IF after + n <= ProcessLimit - 1 THEN after + n
  ELSE after + n - (ProcessLimit - 1)

ReadyTurns(s, after) == {n \in User : s.task[Rotate(after, n)].state = "ready"}

(* Mutant of next_ready: the search always starts at slot 1.               *)
Bug_next_ready(s, after) ==
  LET turns == ReadyTurns(s, 0)
  IN  IF turns = {} THEN 0
      ELSE Rotate(0, CHOOSE n \in turns : \A m \in turns : n <= m)

next_ready(s, after) ==
  LET turns == ReadyTurns(s, after)
  IN  IF turns = {} THEN 0
      ELSE Rotate(after, CHOOSE n \in turns : \A m \in turns : n <= m)

(* Mutant of return_idle: users_running stays set.                         *)
Bug_return_idle(s) == SetState(Cpu(s, 0, s.running, s.slice), 0, "running")

return_idle(s) == SetState(Cpu(s, 0, FALSE, s.slice), 0, "running")

DispatchNext(s, next) == IF next = 0 THEN return_idle(s) ELSE dispatch(s, next)

(* The caller is put back as ready unless it has just blocked; it is among *)
(* the candidates, so a lone runnable task dispatches itself.              *)
Suspend(s) ==
  IF s.task[s.current].state # "running" THEN s
  ELSE Put(s, s.current, [s.task[s.current] EXCEPT !.state = "ready", !.rax = NoWord])

reschedule(s) == DispatchNext(Suspend(s), next_ready(Suspend(s), s.current))

(* The exit of `child` completes the wait of a parent blocked on it; the   *)
(* child's slot is then free (release of its other resources is the        *)
(* business of the modules that compose this one).                         *)
Bug_ParentAwaits(s, child) ==     \* Mutant: the awaited pid is not compared
  LET p == s.task[child].parent
  IN  /\ p # 0
      /\ s.task[p].state = "blocked"
      /\ s.task[p].waiting_for # WaitNone

ParentAwaits(s, child) ==
  LET p == s.task[child].parent
  IN  /\ p # 0
      /\ s.task[p].state = "blocked"
      /\ s.task[p].waiting_for # WaitNone
      /\ s.task[p].waiting_for \in {0, child}

AnswerParent(s, p) ==
  Put(s, p, [s.task[p] EXCEPT !.rax = GotChild, !.waiting_for = WaitNone,
                              !.state = "ready"])

wake_waiting_parent(s, child) ==
  IF ~ParentAwaits(s, child) THEN s
  ELSE Put(AnswerParent(s, s.task[child].parent), child, FreeTask)

(* exit_code and the exited state, common to exit and termination.         *)
MarkExited(s, pid) ==
  Put(s, pid, [s.task[pid] EXCEPT !.state = "exited", !.rax = NoWord])

-----------------------------------------------------------------------------
(* Entry points of scheduler.c.                                            *)

SchedulerInit ==
  [task    |-> [p \in Pid |-> MakeTask(IF p = 0 THEN "running" ELSE "unused", 0, WaitNone)],
   current |-> 0,
   running |-> FALSE,
   slice   |-> 0]

UnusedSlots(s) == {p \in User : s.task[p].state = "unused"}

(* The lowest unused slot, 0 when the table is full.                       *)
FirstUnused(s) ==
  IF UnusedSlots(s) = {} THEN 0
  ELSE CHOOSE p \in UnusedSlots(s) : \A q \in UnusedSlots(s) : p <= q

scheduler_create_user(s, parent) ==
  IF FirstUnused(s) = 0 THEN s ELSE Put(s, FirstUnused(s), NewTask(parent))

scheduler_start_users(s) ==
  LET first == next_ready(s, 0)
  IN  IF s.running \/ first = 0 THEN s
      ELSE dispatch(SetState(Cpu(s, 0, TRUE, s.slice), 0, "ready"), first)

(* The pids whose timeout expires on this tick.                            *)
Expiring(s) == {p \in User : /\ s.task[p].state = "blocked"
                             /\ s.task[p].timed
                             /\ s.task[p].delay <= 1}

TickTask(s, p) ==
  IF p \in Expiring(s)
  THEN [s.task[p] EXCEPT !.rax = GotTime, !.timed = FALSE, !.delay = 0,
                         !.waiting_for = WaitNone, !.state = "ready"]
  ELSE IF s.task[p].state = "blocked" /\ s.task[p].timed
       THEN [s.task[p] EXCEPT !.delay = @ - 1]
       ELSE s.task[p]

ExpireTimeouts(s) == [s EXCEPT !.task = [p \in Pid |-> TickTask(s, p)]]

(* The quantum of the current task.                                        *)
ChargeSlice(s) ==
  IF ~s.running \/ s.current = 0 THEN s
  ELSE IF s.slice + 1 < Quantum THEN Cpu(s, s.current, s.running, s.slice + 1)
  ELSE reschedule(s)

(* Mutant of scheduler_on_timer_tick: returns early while the CPU is idle. *)
Bug_scheduler_on_timer_tick(s) ==
  IF ~s.running THEN s ELSE ChargeSlice(ExpireTimeouts(s))

scheduler_on_timer_tick(s) == ChargeSlice(ExpireTimeouts(s))

scheduler_on_yield(s) == IF ~s.running \/ s.current = 0 THEN s ELSE reschedule(s)

scheduler_on_exit(s) ==
  LET t == wake_waiting_parent(MarkExited(s, s.current), s.current)
  IN  IF ~s.running \/ s.current = 0 THEN s
      ELSE DispatchNext(t, next_ready(t, s.current))

CanReap(s, parent, child) ==
  /\ child \in User
  /\ s.task[child].parent = parent
  /\ s.task[child].state = "exited"

scheduler_reap(s, parent, child) ==
  IF CanReap(s, parent, child) THEN Put(s, child, FreeTask) ELSE s

ExitedChildren(s, parent) == {c \in User : CanReap(s, parent, c)}

scheduler_reap_exited(s, parent) ==
  IF ExitedChildren(s, parent) = {} THEN s
  ELSE scheduler_reap(s, parent,
         CHOOSE c \in ExitedChildren(s, parent) :
            \A d \in ExitedChildren(s, parent) : c <= d)

(* The result word of a call that does not block.                          *)
Answer(s, p, word) == Put(s, p, [s.task[p] EXCEPT !.rax = word])

(* wait(child) for child in 0 .. ProcessLimit: an exited child is reaped at *)
(* once, a live child blocks the caller, anything else is an error.        *)
scheduler_on_wait(s, child) ==
  LET me == s.current
  IN  IF CanReap(s, me, child)
      THEN Answer(scheduler_reap(s, me, child), me, GotChild)
      ELSE IF \/ child \notin Pid
              \/ s.task[child].parent # me
              \/ s.task[child].state = "unused"
      THEN Answer(s, me, GotError)
      ELSE reschedule(Put(s, me, [s.task[me] EXCEPT !.state = "blocked",
                                                    !.waiting_for = child,
                                                    !.rax = InWait]))

(* Mutant of scheduler_block_current: pid 0 used as the "no child" value,  *)
(* the mistake the comment on SCHEDULER_WAIT_NONE warns of.                *)
Bug_scheduler_block_current(s) ==
  IF ~s.running \/ s.current = 0 THEN s
  ELSE reschedule(Put(s, s.current,
         [s.task[s.current] EXCEPT !.state = "blocked", !.waiting_for = 0,
                                   !.rax = InBlock]))

scheduler_block_current(s) ==
  IF ~s.running \/ s.current = 0 THEN s
  ELSE reschedule(Put(s, s.current,
         [s.task[s.current] EXCEPT !.state = "blocked", !.waiting_for = WaitNone,
                                   !.rax = InBlock]))

(* Mutant of scheduler_block_current_timeout: one tick too many.            *)
Bug_scheduler_block_current_timeout(s, delay) ==
  IF ~s.running \/ s.current = 0 \/ delay = 0 THEN scheduler_block_current(s)
  ELSE reschedule(Put(s, s.current,
         [s.task[s.current] EXCEPT !.state = "blocked", !.waiting_for = WaitNone,
                                   !.timed = TRUE, !.delay = delay + 1,
                                   !.rax = InBlock]))

scheduler_block_current_timeout(s, delay) ==
  IF ~s.running \/ s.current = 0 \/ delay = 0 THEN scheduler_block_current(s)
  ELSE reschedule(Put(s, s.current,
         [s.task[s.current] EXCEPT !.state = "blocked", !.waiting_for = WaitNone,
                                   !.timed = TRUE, !.delay = delay,
                                   !.rax = InBlock]))

CanWake(s, pid) == pid \in User /\ s.task[pid].state = "blocked"

(* Mutant of scheduler_wake: the timeout stays armed.                      *)
Bug_scheduler_wake(s, pid, result) ==
  IF ~CanWake(s, pid) THEN s
  ELSE Put(s, pid, [s.task[pid] EXCEPT !.rax = result, !.waiting_for = WaitNone,
                                       !.state = "ready"])

scheduler_wake(s, pid, result) ==
  IF ~CanWake(s, pid) THEN s
  ELSE Put(s, pid, [s.task[pid] EXCEPT !.rax = result, !.timed = FALSE,
                                       !.delay = 0, !.waiting_for = WaitNone,
                                       !.state = "ready"])

CanTerminate(s, pid) ==
  /\ pid \in User
  /\ pid # s.current
  /\ s.task[pid].state \notin {"unused", "exited"}

(* Mutant of scheduler_terminate: the waiting parent is not woken.         *)
Bug_scheduler_terminate(s, pid) ==
  IF ~CanTerminate(s, pid) THEN s ELSE MarkExited(s, pid)

scheduler_terminate(s, pid) ==
  IF ~CanTerminate(s, pid) THEN s
  ELSE wake_waiting_parent(MarkExited(s, pid), pid)

-----------------------------------------------------------------------------
(* Actions: one per caller of an entry point.                              *)

Init == sched = SchedulerInit

InUser == sched.running /\ sched.current # 0
InKernel == sched.current = 0

(* spawn: by a user (syscalls 11 and 50) or by the kernel shell, which is  *)
(* pid 0.                                                                  *)
Create == sched.current \in Spawners /\ sched' = scheduler_create_user(sched, sched.current)

(* userspace_run_init, called by the kernel's idle loops.                  *)
Start == InKernel /\ sched' = scheduler_start_users(sched)

(* IRQ 0, in user or kernel mode.                                          *)
Tick == sched' = scheduler_on_timer_tick(sched)

Yield == InUser /\ sched' = scheduler_on_yield(sched)

Exit == InUser /\ sched' = scheduler_on_exit(sched)

Wait == InUser /\ \E child \in 0 .. ProcessLimit : sched' = scheduler_on_wait(sched, child)

Block == InUser /\ sched' = scheduler_block_current(sched)

BlockTimeout == InUser /\ \E d \in 0 .. MaxDelay :
                  sched' = scheduler_block_current_timeout(sched, d)

(* A wake-up from IPC or input.  Their registrations only name tasks that  *)
(* blocked through scheduler_block_current(_timeout).                      *)
Wake == \E pid \in User, result \in Results :
           /\ sched.task[pid].rax = InBlock
           /\ sched' = scheduler_wake(sched, pid, result)

(* Syscall 13 or the shell's `kill`.                                       *)
Terminate == \E pid \in Pid : sched' = scheduler_terminate(sched, pid)

(* The shell collects a foreground child it launched.                      *)
Reap == \E child \in Pid : sched' = scheduler_reap(sched, sched.current, child)

(* Syscall 51.                                                             *)
ReapExited == InUser /\ sched' = scheduler_reap_exited(sched, sched.current)

Next == \/ Create \/ Start \/ Tick \/ Yield \/ Exit \/ Wait \/ Block
        \/ BlockTimeout \/ Wake \/ Terminate \/ Reap \/ ReapExited

(* The PIT interrupts periodically, and every kernel loop that waits for   *)
(* work starts the users when one is ready.                                *)
Fairness == WF_sched(Tick) /\ WF_sched(Start)

Spec == Init /\ [][Next]_sched /\ Fairness

-----------------------------------------------------------------------------
(* Properties.                                                             *)

(* The invariants are stated for any state record s: the proofs carry them *)
(* through the operators above one by one.                                 *)

Typed(s) ==
  s \in [task : [Pid -> Task], current : Pid, running : BOOLEAN,
          slice : 0 .. Quantum]

(* Every field of every slot stays in its range: no dispatch reuses an old *)
(* slice counter, no timeout counts below zero.                            *)
TypeOK == Typed(sched)

CpuAccounted(s) ==
  /\ \A p \in Pid : s.task[p].state = "running" <=> p = s.current
  /\ s.running <=> s.current # 0
  /\ s.task[0].state \in {"ready", "running"} /\ s.task[0].parent = 0
  /\ s.current # 0 => s.slice < Quantum

(* The CPU is accounted for: current_pid is the only running task, users   *)
(* run exactly when it is not the kernel, the kernel's slot is never       *)
(* recycled, and the current user has some of its quantum left.  dispatch, *)
(* return_idle and reschedule each assign only a part of this.             *)
OneRunning == CpuAccounted(sched)

TimeoutsFresh(s) ==
  \A p \in Pid : s.task[p].timed => s.task[p].state \in {"blocked", "exited"}

(* A timeout is armed only on a blocked task, or on one that was           *)
(* terminated while blocked: a task that runs again can never be hit by    *)
(* the timeout of an earlier call.                                         *)
NoStaleTimeout == TimeoutsFresh(sched)

Blocked(s, p) == s.task[p].state = "blocked"

AwaitsLiveChild(s) ==
  \A p \in User :
    (Blocked(s, p) /\ s.task[p].rax = InWait) =>
       LET c == s.task[p].waiting_for
       IN  /\ c \in User
           /\ s.task[c].parent = p
           /\ s.task[c].state \in {"ready", "running", "blocked"}

(* No wait() is lost: while a task sleeps in wait(c), c is a live task that *)
(* still names it as parent, so the exit of c will find it.                *)
WaitedChildIsLive == AwaitsLiveChild(sched)

CallsDisjoint(s) ==
  \A p \in User :
    Blocked(s, p) =>
       /\ s.task[p].rax \in {InWait, InBlock}
       /\ s.task[p].rax = InBlock <=> s.task[p].waiting_for = WaitNone
       /\ s.task[p].timed => s.task[p].rax = InBlock

(* The sentinel keeps child exits away from other blocked calls: a task    *)
(* blocked on IPC, input or a timer waits for no pid, and wait() has no    *)
(* timeout, so a frame is only written by the event its call waits for.    *)
BlockedCallsAreDisjoint == CallsDisjoint(sched)

(* A blocked task becomes runnable only with the answer to the call it is  *)
(* blocked in: wait() ends with the awaited child's status and that        *)
(* child's slot free, a blocking call with a wake-up or a timeout.         *)
ResumedWithItsAnswer ==
  [][\A p \in User :
       (sched.task[p].state = "blocked" /\ sched'.task[p].state \in {"ready", "running"}) =>
          IF sched.task[p].rax = InWait
          THEN /\ sched'.task[p].rax = GotChild
               /\ sched'.task[sched.task[p].waiting_for].state = "unused"
          ELSE \/ sched'.task[p].rax \in Results
               \/ sched'.task[p].rax = GotTime /\ sched.task[p].timed]_sched

(* Preemptive round robin over every live process: no ready task starves,  *)
(* whatever the others do, since each switch takes the next ready slot     *)
(* after the current one.                                                  *)
ReadyTasksRun ==
  \A p \in User : sched.task[p].state = "ready" ~> sched.task[p].state # "ready"

(* An armed timeout fires: a timed wait never lasts forever.               *)
TimedWaitsEnd ==
  \A p \in User : (sched.task[p].state = "blocked" /\ sched.task[p].timed)
                     ~> sched.task[p].state # "blocked"
=============================================================================
