--------------------------------- MODULE Ipc ---------------------------------
(***************************************************************************)
(* Named message channels (src/ipc.c), the unified input queue             *)
(* (src/input.c) and the system calls that reach them                      *)
(* (src/arch/x86_64/userspace.c), on top of the task table of Scheduler.   *)
(*                                                                         *)
(* A system call goes through several files in one atomic step.  The state *)
(* of all of them is a record k = [s, ch, in, caps, taken]; every function *)
(* is an operator on k, and a system call chains them in the order of the  *)
(* code.  A record of an inactive channel or waiter is never read, so it   *)
(* has one canonical value.                                                *)
(*                                                                         *)
(* A message is its sender and its length, the two words the code attaches *)
(* to the bytes.  A handle names a channel; the service it was opened for  *)
(* is recorded beside it (the code does not store it) and is only read by  *)
(* a property.  taken[c] is the last message of channel c that reached a   *)
(* receiver's buffer.  Whether a capability table has room, and whether a  *)
(* process holds the services it asks for, is left open.                   *)
(***************************************************************************)
EXTENDS Scheduler, Sequences

CONSTANTS
  ChannelLimit,   \* IPC_CHANNEL_LIMIT
  QueueDepth,     \* IPC_QUEUE_DEPTH
  MessageMax,     \* IPC_MESSAGE_MAX
  Names,          \* service names
  Lengths,        \* bound on the lengths of messages that are sent
  Capacities,     \* bound on the buffer sizes that receivers offer
  Places,         \* where user buffers lie: "heap" (shared range), "private"
  HasPrivate,     \* pids whose own code or anonymous range holds "private"
  InputCapacity,  \* INPUT_QUEUE_CAPACITY - 1: events the ring can hold
  Users           \* bound on the pids whose program uses channels and input

GotMessage == "message"
GotEvent   == "event"
GotSent    == "sent"

ASSUME IpcConstants ==
  /\ ChannelLimit \in Nat \ {0} /\ QueueDepth \in Nat \ {0}
  /\ MessageMax \in Nat \ {0} /\ InputCapacity \in Nat \ {0}
  /\ Lengths \subseteq 1 .. MessageMax
  /\ Capacities \subseteq 1 .. MessageMax
  /\ Users \subseteq User /\ HasPrivate \subseteq User

ASSUME IpcPlaces == Places \subseteq {"heap", "private"}

(* The results of the blocking calls of this module.                       *)
ASSUME IpcResults == {GotMessage, GotEvent, GotSent, GotError} \subseteq Results

VARIABLES chan, input, caps, taken

vars == <<sched, chan, input, caps, taken>>

Chan == 1 .. ChannelLimit

Message == [sender : User, length : 1 .. MessageMax]
NoMessage == [sender |-> 0, length |-> 0]

Waiter == [active : BOOLEAN, pid : Pid, place : {"heap", "private"},
           capacity : 0 .. MessageMax, multiplex : BOOLEAN]
NoWaiter == [active |-> FALSE, pid |-> 0, place |-> "heap",
             capacity |-> 0, multiplex |-> FALSE]

SendWaiter == [active : BOOLEAN, msg : Message \cup {NoMessage}]
NoSender == [active |-> FALSE, msg |-> NoMessage]

NoName == "no name"
Channel == [active : BOOLEAN, owner : Pid, name : Names \cup {NoName},
            q : Seq(Message), waiter : Waiter, sender : SendWaiter]
NoChannel == [active |-> FALSE, owner |-> 0, name |-> NoName,
              q |-> <<>>, waiter |-> NoWaiter, sender |-> NoSender]

InputWaiter == [active : BOOLEAN, pid : Pid, place : {"heap", "private"}]
NoInputWaiter == [active |-> FALSE, pid |-> 0, place |-> "heap"]

(* Only motion is told apart: it is the kind that coalesces.               *)
Event == {"move", "other"}

(* ipc_create's handle may send and receive, ipc_connect's may only send.  *)
Handle == [chan : Chan, right : {"send", "receive"}, name : Names]

ipc_init == [c \in Chan |-> NoChannel]
input_init == [q |-> <<>>, waiter |-> NoInputWaiter]

Sys == [s |-> sched, ch |-> chan, in |-> input, caps |-> caps, taken |-> taken]

Become(k) == /\ sched' = k.s
             /\ chan' = k.ch
             /\ input' = k.in
             /\ caps' = k.caps
             /\ taken' = k.taken

Me(k) == k.s.current

-----------------------------------------------------------------------------
(* Waits on input and on channels.                                         *)

input_cancel_wait(k, pid) ==
  IF k.in.waiter.active /\ k.in.waiter.pid = pid
  THEN [k EXCEPT !.in.waiter = NoInputWaiter] ELSE k

WaitsOn(k, c, pid) == k.ch[c].active /\ k.ch[c].waiter.active /\ k.ch[c].waiter.pid = pid

(* The first channel pid waits on; there is never a second.                *)
ipc_cancel_wait(k, pid) ==
  IF \A c \in Chan : ~WaitsOn(k, c, pid) THEN k
  ELSE LET c == CHOOSE c \in Chan : WaitsOn(k, c, pid) /\ \A d \in Chan : WaitsOn(k, d, pid) => c <= d
       IN  [k EXCEPT !.ch[c].waiter = NoWaiter]

(* The user_write_range half of userspace_copy_to: the heap range is the   *)
(* same for everyone, the code and anonymous ranges are those of the       *)
(* CURRENT process.  process_memory_used holds for every task in use.      *)
user_write_range(k, place) == place = "heap" \/ Me(k) \in HasPrivate

userspace_copy_to(k, pid, place) ==
  k.s.task[pid].state # "unused" /\ user_write_range(k, place)

input_wait(k, pid, place) ==
  [k EXCEPT !.in.waiter = [active |-> TRUE, pid |-> pid, place |-> place]]

(* The ring: a motion replaces a motion at the tail, a full ring drops.    *)
Enqueue(q, event) ==
  IF event = "move" /\ q # <<>> /\ q[Len(q)] = "move" THEN q
  ELSE IF Len(q) = InputCapacity THEN q
  ELSE Append(q, event)

(* Mutant of input_publish: the IPC half of a select is not cancelled.     *)
Bug_input_publish(k, event) ==
  LET w     == k.in.waiter
      freed == [k EXCEPT !.in.waiter = NoInputWaiter]
  IN  IF w.active /\ userspace_copy_to(freed, w.pid, w.place) /\ CanWake(k.s, w.pid)
      THEN [freed EXCEPT !.s = scheduler_wake(k.s, w.pid, GotEvent)]
      ELSE [freed EXCEPT !.in.q = Enqueue(@, event)]

input_publish(k, event) ==
  LET w     == k.in.waiter
      freed == IF w.active
               THEN ipc_cancel_wait([k EXCEPT !.in.waiter = NoInputWaiter], w.pid) ELSE k
  IN  IF w.active /\ userspace_copy_to(freed, w.pid, w.place) /\ CanWake(k.s, w.pid)
      THEN [freed EXCEPT !.s = scheduler_wake(k.s, w.pid, GotEvent)]
      ELSE [freed EXCEPT !.in.q = Enqueue(@, event)]

input_poll(k) == [k EXCEPT !.in.q = Tail(@)]

input_discard_pending(k) == [k EXCEPT !.in.q = <<>>]

-----------------------------------------------------------------------------
(* Channels.                                                               *)

Grant(k, pid, h) == [k EXCEPT !.caps[pid] = @ \cup {h}]

FreeChannels(k) == {c \in Chan : ~k.ch[c].active}

Named(k, name) == {c \in Chan : k.ch[c].active /\ k.ch[c].name = name}

First(cs) == CHOOSE c \in cs : \A d \in cs : c <= d

(* granted: the capability for the owner could be opened.                  *)
ipc_create(k, owner, name, granted) ==
  LET c == First(FreeChannels(k))
  IN  IF Named(k, name) # {} \/ FreeChannels(k) = {} \/ ~granted THEN k
      ELSE Grant([k EXCEPT !.ch[c] = [NoChannel EXCEPT !.active = TRUE, !.owner = owner,
                                                       !.name = name],
                           !.taken[c] = NoMessage],
                 owner, [chan |-> c, right |-> "receive", name |-> name])

ipc_connect(k, pid, name) ==
  IF Named(k, name) = {} THEN k
  ELSE Grant(k, pid, [chan |-> First(Named(k, name)), right |-> "send", name |-> name])

(* The handle is open, carries the right, and its channel id is in use.    *)
resolve(k, pid, h, right) ==
  /\ h \in k.caps[pid]
  /\ right \in {"send", h.right}
  /\ k.ch[h.chan].active

(* Direct delivery: the waiter is forgotten before anything is copied.     *)
Deliver(k, c, m) ==
  LET w     == k.ch[c].waiter
      freed == [k EXCEPT !.ch[c].waiter = NoWaiter]
      both  == IF w.multiplex THEN input_cancel_wait(freed, w.pid) ELSE freed
      woken == scheduler_wake(k.s, w.pid, GotMessage)
  IN  IF m.length > w.capacity \/ ~userspace_copy_to(k, w.pid, w.place) \/ ~CanWake(k.s, w.pid)
      THEN both
      ELSE [both EXCEPT !.s = woken, !.taken[c] = m]

(* Syscall 16: deliver, queue, or park the message and sleep.  Dropped     *)
(* when another sender is parked already.                                  *)
Bug_ipc_send_block(k, h, length) ==   \* Mutant: written at the head of the ring, not at its tail
  LET c == h.chan
      m == [sender |-> Me(k), length |-> length]
  IN  IF ~resolve(k, Me(k), h, "send") THEN k
      ELSE IF k.ch[c].waiter.active THEN Deliver(k, c, m)
      ELSE IF Len(k.ch[c].q) < QueueDepth THEN [k EXCEPT !.ch[c].q = <<m>> \o @]
      ELSE IF k.ch[c].sender.active THEN k
      ELSE [k EXCEPT !.ch[c].sender = [active |-> TRUE, msg |-> m],
                     !.s = scheduler_block_current(@)]

ipc_send_block(k, h, length) ==
  LET c == h.chan
      m == [sender |-> Me(k), length |-> length]
  IN  IF ~resolve(k, Me(k), h, "send") THEN k
      ELSE IF k.ch[c].waiter.active THEN Deliver(k, c, m)
      ELSE IF Len(k.ch[c].q) < QueueDepth THEN [k EXCEPT !.ch[c].q = Append(@, m)]
      ELSE IF k.ch[c].sender.active THEN k
      ELSE [k EXCEPT !.ch[c].sender = [active |-> TRUE, msg |-> m],
                     !.s = scheduler_block_current(@)]

CanTake(k, h, capacity) ==
  /\ resolve(k, Me(k), h, "receive")
  /\ k.ch[h.chan].q # <<>>
  /\ Head(k.ch[h.chan].q).length <= capacity

(* Mutant of ipc_receive: the parked message is appended, its sender sleeps on. *)
Bug_ipc_receive(k, h) ==
  LET c      == h.chan
      parked == k.ch[c].sender
  IN  IF parked.active
      THEN [k EXCEPT !.ch[c].q = Append(Tail(@), parked.msg),
                     !.ch[c].sender = NoSender,
                     !.taken[c] = Head(k.ch[c].q)]
      ELSE [k EXCEPT !.ch[c].q = Tail(@), !.taken[c] = Head(k.ch[c].q)]

(* The head is copied out; a parked message takes the freed slot and its   *)
(* sender is woken.                                                        *)
ipc_receive(k, h) ==
  LET c      == h.chan
      parked == k.ch[c].sender
  IN  IF parked.active
      THEN [k EXCEPT !.ch[c].q = Append(Tail(@), parked.msg),
                     !.ch[c].sender = NoSender,
                     !.s = scheduler_wake(@, parked.msg.sender, GotSent),
                     !.taken[c] = Head(k.ch[c].q)]
      ELSE [k EXCEPT !.ch[c].q = Tail(@), !.taken[c] = Head(k.ch[c].q)]

CanRegister(k, h) ==
  /\ resolve(k, Me(k), h, "receive")
  /\ ~k.ch[h.chan].waiter.active

(* ipc_wait and ipc_wait_select.                                           *)
ipc_wait(k, h, place, capacity, multiplex) ==
  [k EXCEPT !.ch[h.chan].waiter =
     [active |-> TRUE, pid |-> Me(k), place |-> place, capacity |-> capacity,
      multiplex |-> multiplex]]

-----------------------------------------------------------------------------
(* The end of a process.                                                   *)

Owned(k, pid) == {c \in Chan : k.ch[c].active /\ k.ch[c].owner = pid}

(* The processes that sleep on a channel of pid.                           *)
Stranded(k, pid) ==
  {k.ch[c].waiter.pid : c \in {d \in Owned(k, pid) : k.ch[d].waiter.active}} \cup
  {k.ch[c].sender.msg.sender : c \in {d \in Owned(k, pid) : k.ch[d].sender.active}}

(* scheduler_wake of each pid of a set.                                    *)
WakeAll(s, pids, result) ==
  [s EXCEPT !.task = [p \in Pid |->
     IF p \in pids /\ CanWake(s, p) THEN scheduler_wake(s, p, result).task[p] ELSE s.task[p]]]

(* What is left of channel c when process pid goes.                        *)
ChannelWithout(ch, pid) ==
  IF ~ch.active THEN ch
  ELSE IF ch.owner = pid THEN NoChannel
  ELSE [ch EXCEPT !.waiter = IF @.active /\ @.pid = pid THEN NoWaiter ELSE @,
                  !.sender = IF @.active /\ @.msg.sender = pid THEN NoSender ELSE @]

(* Input halves first: pid's own, and those of selects on its channels.    *)
ipc_process_cleanup(k, pid) ==
  LET sleepers == Stranded(k, pid) \ {pid}
      selects  == {k.ch[c].waiter.pid : c \in {d \in Owned(k, pid) :
                      k.ch[d].waiter.active /\ k.ch[d].waiter.multiplex}} \cup {pid}
  IN  [k EXCEPT !.in.waiter = IF @.active /\ @.pid \in selects THEN NoInputWaiter ELSE @,
                !.s = WakeAll(@, sleepers, GotError),
                !.ch = [c \in Chan |-> ChannelWithout(k.ch[c], pid)],
                !.taken = [c \in Chan |-> IF c \in Owned(k, pid) THEN NoMessage ELSE k.taken[c]]]

capabilities_close_all(k, pid) ==
  IF pid \in User THEN [k EXCEPT !.caps[pid] = {}] ELSE k

(* Everything a process holds here: the common part of exit, termination   *)
(* and userspace_release_process.                                          *)
Cleanup(k, pid) == capabilities_close_all(ipc_process_cleanup(k, pid), pid)

userspace_release_process(k, pid) == Cleanup(k, pid)

(* A scheduler step from k that may have freed the slot of pid: the freed  *)
(* process's resources go with it.                                         *)
Freed(k, s, pid) ==
  LET next == [k EXCEPT !.s = s]
  IN  IF k.s.task[pid].state # "unused" /\ s.task[pid].state = "unused"
      THEN userspace_release_process(next, pid) ELSE next

-----------------------------------------------------------------------------
(* System calls.                                                           *)

(* Syscall 2.                                                              *)
sys_exit(k) ==
  LET clean == Cleanup(k, Me(k))
  IN  [clean EXCEPT !.s = scheduler_on_exit(@)]

(* Syscall 12.  The child that is reaped is released first.                *)
sys_wait(k, child) ==
  LET clean == IF CanReap(k.s, Me(k), child) THEN userspace_release_process(k, child) ELSE k
  IN  [clean EXCEPT !.s = scheduler_on_wait(@, child)]

(* Syscall 13: the target is cleaned up before it is known to be one.      *)
sys_terminate(k, target) ==
  LET clean == Cleanup(k, target)
  IN  [clean EXCEPT !.s = scheduler_terminate(@, target)]

(* The shell's kill applet.                                                *)
applet_kill(k, pid) == Freed(k, scheduler_terminate(k.s, pid), pid)

(* scheduler_reap by the kernel, after a launch.                           *)
kernel_reap(k, child) ==
  IF child \in User THEN Freed(k, scheduler_reap(k.s, 0, child), child) ELSE k

(* Syscall 51.                                                             *)
sys_reap_exited(k) ==
  LET gone == ExitedChildren(k.s, Me(k))
  IN  IF gone = {} THEN k
      ELSE Freed(k, scheduler_reap_exited(k.s, Me(k)), First(gone))

(* Syscall 50: the caller's own registrations, spawn, wait for the child.  *)
sys_spawn_wait(k) ==
  LET alone == input_cancel_wait(ipc_cancel_wait(k, Me(k)), Me(k))
      child == FirstUnused(k.s)
  IN  IF child = 0 THEN alone
      ELSE [alone EXCEPT !.s = scheduler_on_wait(scheduler_create_user(@, Me(k)), child)]

(* Syscall 17.                                                             *)
sys_receive(k, h, place, capacity, nonblock) ==
  IF ~user_write_range(k, place) THEN k
  ELSE IF CanTake(k, h, capacity) THEN ipc_receive(k, h)
  ELSE IF nonblock \/ ~CanRegister(k, h) THEN k
  ELSE LET waiting == ipc_wait(k, h, place, capacity, FALSE)
       IN  [waiting EXCEPT !.s = scheduler_block_current(@)]

(* Syscall 20.                                                             *)
sys_input_poll(k, place) ==
  IF user_write_range(k, place) /\ k.in.q # <<>> THEN input_poll(k) ELSE k

(* Syscall 26: a message, an event, or both waits and one sleep.           *)
Bug_sys_select(k, h, place, eplace, delay) ==   \* Mutant: pending input is not polled
  IF ~user_write_range(k, place) \/ ~user_write_range(k, eplace) THEN k
  ELSE IF CanTake(k, h, MessageMax) THEN ipc_receive(k, h)
  ELSE IF ~CanRegister(k, h) \/ k.in.waiter.active THEN ipc_cancel_wait(k, Me(k))
  ELSE LET waiting == input_wait(ipc_wait(k, h, place, MessageMax, TRUE), Me(k), eplace)
       IN  [waiting EXCEPT !.s = scheduler_block_current_timeout(@, delay)]

sys_select(k, h, place, eplace, delay) ==
  IF ~user_write_range(k, place) \/ ~user_write_range(k, eplace) THEN k
  ELSE IF CanTake(k, h, MessageMax) THEN ipc_receive(k, h)
  ELSE IF k.in.q # <<>> THEN input_poll(k)
  ELSE IF ~CanRegister(k, h) \/ k.in.waiter.active THEN ipc_cancel_wait(k, Me(k))
  ELSE LET waiting == input_wait(ipc_wait(k, h, place, MessageMax, TRUE), Me(k), eplace)
       IN  [waiting EXCEPT !.s = scheduler_block_current_timeout(@, delay)]

(* IRQ 0: both halves of the waits that time out, then the scheduler.      *)
timer_tick(k) ==
  LET late == Expiring(k.s)
  IN  [k EXCEPT !.ch = [c \in Chan |->
                          IF k.ch[c].waiter.active /\ k.ch[c].waiter.pid \in late
                          THEN [k.ch[c] EXCEPT !.waiter = NoWaiter] ELSE k.ch[c]],
                !.in.waiter = IF @.active /\ @.pid \in late THEN NoInputWaiter ELSE @,
                !.s = scheduler_on_timer_tick(@)]

-----------------------------------------------------------------------------
(* Actions.                                                                *)

IpcInit == /\ Init
           /\ chan = ipc_init
           /\ input = input_init
           /\ caps = [p \in User |-> {}]
           /\ taken = [c \in Chan |-> NoMessage]

(* A user program that uses the calls below is running.                    *)
Calling == InUser /\ sched.current \in Users

Others == <<chan, input, caps, taken>>

Spawn == Create /\ UNCHANGED Others

RunUsers == Start /\ UNCHANGED Others

TimerTick == Become(timer_tick(Sys))

YieldCall == Yield /\ UNCHANGED Others

ExitCall == InUser /\ Become(sys_exit(Sys))

WaitCall == InUser /\ \E child \in 0 .. ProcessLimit : Become(sys_wait(Sys, child))

TerminateCall == Calling /\ \E target \in 0 .. ProcessLimit : Become(sys_terminate(Sys, target))

KillCommand == InKernel /\ \E pid \in User : Become(applet_kill(Sys, pid))

KernelReap == InKernel /\ \E child \in User : Become(kernel_reap(Sys, child))

ReapCall == InUser /\ Become(sys_reap_exited(Sys))

SpawnWaitCall == InUser /\ sched.current \in Spawners /\ Become(sys_spawn_wait(Sys))

CreateCall == Calling /\ \E name \in Names, granted \in BOOLEAN :
                Become(ipc_create(Sys, sched.current, name, granted))

ConnectCall == Calling /\ \E name \in Names : Become(ipc_connect(Sys, sched.current, name))

(* Syscall 8.                                                              *)
CloseCall == Calling /\ \E h \in caps[sched.current] :
               /\ caps' = [caps EXCEPT ![sched.current] = @ \ {h}]
               /\ UNCHANGED <<sched, chan, input, taken>>

SendCall == Calling /\ \E h \in caps[sched.current], length \in Lengths :
              Become(ipc_send_block(Sys, h, length))

ReceiveCall == Calling /\ \E h \in caps[sched.current], place \in Places,
                             capacity \in Capacities, nonblock \in BOOLEAN :
                 Become(sys_receive(Sys, h, place, capacity, nonblock))

PollCall == Calling /\ \E place \in Places : Become(sys_input_poll(Sys, place))

SelectCall == Calling /\ \E h \in caps[sched.current], place \in Places, eplace \in Places,
                            delay \in 0 .. MaxDelay :
                Become(sys_select(Sys, h, place, eplace, delay))

(* A keyboard or mouse interrupt.                                          *)
InputIrq == \E event \in Event : Become(input_publish(Sys, event))

(* The terminal session, and app launches, drop pending events.            *)
DiscardPending == InKernel /\ Become(input_discard_pending(Sys))

IpcNext == \/ Spawn \/ RunUsers \/ TimerTick \/ YieldCall \/ ExitCall \/ WaitCall
           \/ TerminateCall \/ KillCommand \/ KernelReap \/ ReapCall \/ SpawnWaitCall
           \/ CreateCall \/ ConnectCall \/ CloseCall \/ SendCall \/ ReceiveCall
           \/ PollCall \/ SelectCall \/ InputIrq \/ DiscardPending

IpcSpec == IpcInit /\ [][IpcNext]_vars

-----------------------------------------------------------------------------
(* Properties.                                                             *)

(* Rings, waiters and capability tables stay in range: no queue holds more *)
(* than its depth, no event ring more than its capacity.                   *)
IpcTypeOK ==
  /\ TypeOK
  /\ chan \in [Chan -> Channel] /\ \A c \in Chan : Len(chan[c].q) <= QueueDepth
  /\ input.q \in Seq(Event) /\ Len(input.q) <= InputCapacity
  /\ input.waiter \in InputWaiter
  /\ caps \in [User -> SUBSET Handle]
  /\ taken \in [Chan -> Message \cup {NoMessage}]

Receiving(p) == {c \in Chan : chan[c].waiter.active /\ chan[c].waiter.pid = p}
Parked(p) == {c \in Chan : chan[c].sender.active /\ chan[c].sender.msg.sender = p}
AwaitsInput(p) == input.waiter.active /\ input.waiter.pid = p

Multiplexed(p) == \E c \in Receiving(p) : chan[c].waiter.multiplex

Asleep(p) == sched.task[p].state = "blocked" /\ sched.task[p].rax = InBlock

(* Nobody sleeps unheard: a task blocked in send, receive or select is     *)
(* registered where the event that ends its call will look for it, a       *)
(* select in both the channel and the input queue.  And there is no ghost  *)
(* registration: whoever is registered is asleep in that one call (or was  *)
(* killed by the shell and not collected yet), so a delivery hits neither  *)
(* the frame of a running task nor that of the next process in the slot.   *)
SleepersAreRegistered ==
  \A p \in User :
     /\ Asleep(p) => /\ Receiving(p) # {} \/ Parked(p) # {}
                     /\ Multiplexed(p) <=> AwaitsInput(p)
                     /\ sched.task[p].timed => Multiplexed(p)
     /\ Receiving(p) # {} \/ Parked(p) # {} \/ AwaitsInput(p) =>
           Asleep(p) \/ sched.task[p].state = "exited"
     /\ \A c, d \in Receiving(p) \cup Parked(p) : c = d
     /\ Receiving(p) = {} \/ Parked(p) = {}
     /\ AwaitsInput(p) => Multiplexed(p)

(* The three ways to hold a message exclude each other: a receiver waits   *)
(* only on an empty queue, a sender is parked only behind a full one, and  *)
(* a select sleeps only when no input is pending.  And only the owner of a *)
(* live channel can receive from it: creation, exit, termination and       *)
(* reaping keep handles and channels in step although they live in         *)
(* different tables.                                                       *)
WaitersSeeEmptyQueues ==
  /\ \A c \in Chan :
       /\ chan[c].waiter.active => /\ chan[c].q = <<>> /\ ~chan[c].sender.active
                                  /\ chan[c].waiter.pid = chan[c].owner
       /\ chan[c].sender.active => Len(chan[c].q) = QueueDepth
       /\ chan[c].active => sched.task[chan[c].owner].state # "unused"
  /\ input.waiter.active => input.q = <<>>
  /\ \A p \in User : \A h \in caps[p] :
       h.right = "receive" => chan[h.chan].active /\ chan[h.chan].owner = p /\ chan[h.chan].name = h.name

(* Every sleeper is woken with the answer of its own call: a parked send   *)
(* with its success or failure, a receive with a message or the end of the *)
(* channel, a select also with an event or its timeout; and afterwards it  *)
(* is registered nowhere.                                                  *)
AnswersFitTheCall ==
  [][\A p \in User :
       (Asleep(p) /\ sched'.task[p].state \in {"ready", "running"}) =>
          /\ sched'.task[p].rax \in
               IF Parked(p) # {} THEN {GotSent, GotError}
               ELSE IF Multiplexed(p) THEN {GotMessage, GotEvent, GotTime, GotError}
               ELSE {GotMessage, GotError}
          /\ (Receiving(p) = {} /\ Parked(p) = {} /\ ~AwaitsInput(p))']_vars

(* Channel 1 is a bounded FIFO pipe: what was accepted arrives once, in    *)
(* order, unless the channel is closed or its parked sender withdraws.     *)
Contents == IF chan[1].sender.active THEN Append(chan[1].q, chan[1].sender.msg)
            ELSE chan[1].q

PipeView == INSTANCE Pipe WITH q <- Contents, out <- taken[1], Messages <- Message,
                               Nothing <- NoMessage, Depth <- QueueDepth

ImplementsPipe == PipeView!Spec

-----------------------------------------------------------------------------
(* A statement of the documentation that the code does not keep.           *)

(* docs/ipc-stage5.md: a task blocked in receive is woken by direct        *)
(* delivery.                                                               *)
DeliveryWakesTheReceiver ==
  [][\A c \in Chan :
       (chan[c].waiter.active /\ ~chan[c].waiter.active') =>
          sched'.task[chan[c].waiter.pid].state # "blocked"]_vars
=============================================================================
