--------------------------- MODULE SchedulerProofs ---------------------------
(***************************************************************************)
(* Proofs that the invariants of Scheduler hold for every table size,      *)
(* quantum and delay.  Good(s) is the inductive invariant; Suspended(s)    *)
(* describes the moment inside reschedule and scheduler_on_exit when the   *)
(* caller has given up the CPU and nobody has it yet.                      *)
(***************************************************************************)
EXTENDS Scheduler, WellFoundedInduction, TLAPS

Sound(s) == /\ TimeoutsFresh(s)
            /\ AwaitsLiveChild(s)
            /\ CallsDisjoint(s)

Good(s) == Typed(s) /\ CpuAccounted(s) /\ Sound(s)

Suspended(s) ==
  /\ Typed(s)
  /\ s.running
  /\ s.task[0].state = "ready" /\ s.task[0].parent = 0
  /\ \A p \in User : s.task[p].state # "running"
  /\ Sound(s)

-----------------------------------------------------------------------------
(* Every non-empty set of naturals has a least element, so the searches of *)
(* next_ready and scheduler_create_user find a slot when there is one.     *)
LEMMA LeastExists ==
  ASSUME NEW S, S \subseteq Nat, S # {}
  PROVE  (CHOOSE n \in S : \A m \in S : n <= m) \in S
<1>1. PICK x \in S : \A y \in S : ~ (<<y, x>> \in OpToRel(<, Nat))
  BY NatLessThanWellFounded, WFMin
<1>2. \A y \in S : x <= y
  <2>1. SUFFICES ASSUME NEW y \in S PROVE x <= y
    OBVIOUS
  <2>2. ~ (y < x)
    BY <1>1, <2>1 DEF OpToRel
  <2> QED BY <2>2
<1> QED BY <1>1, <1>2

(* next_ready returns 0 or a ready user slot.                              *)
LEMMA NextReady ==
  ASSUME NEW s, Typed(s), NEW after \in Pid
  PROVE  \/ next_ready(s, after) = 0
         \/ /\ next_ready(s, after) \in User
            /\ s.task[next_ready(s, after)].state = "ready"
<1> DEFINE turns == ReadyTurns(s, after)
<1> DEFINE n == CHOOSE k \in turns : \A m \in turns : k <= m
<1>1. CASE turns = {}
  BY <1>1 DEF next_ready
<1>2. CASE turns # {}
  <2>1. turns \subseteq Nat
    BY SchedulerConstants DEF ReadyTurns, User
  <2>2. n \in turns
    BY <1>2, <2>1, LeastExists
  <2>4. next_ready(s, after) = Rotate(after, n)
    BY <1>2 DEF next_ready
  <2> HIDE DEF n
  <2>3. Rotate(after, n) \in User /\ s.task[Rotate(after, n)].state = "ready"
    <3>1. n \in User /\ s.task[Rotate(after, n)].state = "ready"
      BY <2>2 DEF ReadyTurns
    <3> QED BY <3>1, SchedulerConstants DEF Rotate, User, Pid
  <2> QED BY <2>3, <2>4
<1> QED BY <1>1, <1>2

(* FirstUnused returns 0 or an unused user slot.                           *)
LEMMA FirstUnusedSlot ==
  ASSUME NEW s, Typed(s)
  PROVE  \/ FirstUnused(s) = 0
         \/ FirstUnused(s) \in User /\ s.task[FirstUnused(s)].state = "unused"
<1>1. CASE UnusedSlots(s) = {}
  BY <1>1 DEF FirstUnused
<1>2. CASE UnusedSlots(s) # {}
  <2>1. UnusedSlots(s) \subseteq Nat
    BY SchedulerConstants DEF UnusedSlots, User
  <2>2. FirstUnused(s) \in UnusedSlots(s)
    BY <1>2, <2>1, LeastExists DEF FirstUnused
  <2> QED BY <2>2 DEF UnusedSlots
<1> QED BY <1>1, <1>2

-----------------------------------------------------------------------------
(* Slots as they are made, and facts about the constants.                  *)
LEMMA MakeTaskFacts ==
  ASSUME NEW state \in TaskState, NEW parent \in Pid, NEW w \in 0 .. ProcessLimit
  PROVE  /\ MakeTask(state, parent, w) \in Task
         /\ MakeTask(state, parent, w).state = state
         /\ ~MakeTask(state, parent, w).timed
BY SchedulerConstants DEF MakeTask, Task, Word, NoWord

LEMMA Constants ==
  /\ User \subseteq Pid /\ 0 \in Pid /\ 0 \notin User
  /\ \A p \in Pid : p # 0 => p \in User
  /\ WaitNone \notin Pid /\ WaitNone \in 0 .. ProcessLimit
  /\ FreeTask \in Task /\ FreeTask.state = "unused" /\ ~FreeTask.timed
<1>1. /\ User \subseteq Pid /\ 0 \in Pid /\ 0 \notin User
      /\ \A p \in Pid : p # 0 => p \in User
      /\ WaitNone \notin Pid /\ WaitNone \in 0 .. ProcessLimit /\ 0 \in 0 .. ProcessLimit
  BY SchedulerConstants DEF User, Pid, WaitNone
<1>2. FreeTask \in Task /\ FreeTask.state = "unused" /\ ~FreeTask.timed
  BY <1>1, MakeTaskFacts DEF FreeTask, TaskState
<1> QED BY <1>1, <1>2

(* What storing a slot changes, and what it leaves alone.                  *)
LEMMA PutFacts ==
  ASSUME NEW s, Typed(s), NEW p \in Pid, NEW t \in Task
  PROVE  /\ Typed(Put(s, p, t))
         /\ \A q \in Pid : Put(s, p, t).task[q] = IF q = p THEN t ELSE s.task[q]
         /\ Put(s, p, t).current = s.current
         /\ Put(s, p, t).running = s.running
         /\ Put(s, p, t).slice = s.slice
BY DEF Put, Typed

(* What changing the globals leaves alone.                                 *)
LEMMA CpuFacts ==
  ASSUME NEW s, Typed(s), NEW c \in Pid, NEW r \in BOOLEAN, NEW k \in 0 .. Quantum
  PROVE  /\ Typed(Cpu(s, c, r, k))
         /\ Cpu(s, c, r, k).task = s.task
         /\ Cpu(s, c, r, k).current = c
         /\ Cpu(s, c, r, k).running = r
         /\ Cpu(s, c, r, k).slice = k
BY DEF Typed, Cpu

LEMMA TaskFields ==
  ASSUME NEW s, Typed(s)
  PROVE  /\ \A p \in Pid : s.task[p] \in Task
         /\ s.current \in Pid /\ s.running \in BOOLEAN /\ s.slice \in 0 .. Quantum
BY DEF Typed

(* Handing the CPU over restores the invariant.                            *)
LEMMA DispatchGood ==
  ASSUME NEW s, Suspended(s), NEW pid \in User, s.task[pid].state = "ready"
  PROVE  Good(dispatch(s, pid))
<1> DEFINE h == Cpu(s, pid, s.running, 0)
           t == [s.task[pid] EXCEPT !.state = "running"]
           d == dispatch(s, pid)
<1>1. /\ Typed(s) /\ pid \in Pid /\ s.task[pid] \in Task
      /\ s.running \in BOOLEAN /\ 0 \in 0 .. Quantum
  BY TaskFields, SchedulerConstants DEF Suspended, Pid, User
<1>2. Typed(h) /\ h.task = s.task /\ h.current = pid /\ h.running = s.running /\ h.slice = 0
  BY <1>1, CpuFacts
<1>3. t \in Task
  BY <1>1 DEF Task, TaskState
<1>4. d = Put(h, pid, t)
  BY <1>2 DEF dispatch, SetState
<1> HIDE DEF h, d, t
<1>5. /\ Typed(d)
      /\ \A q \in Pid : d.task[q] = IF q = pid THEN t ELSE s.task[q]
      /\ d.current = pid /\ d.running = s.running /\ d.slice = 0
  BY <1>1, <1>2, <1>3, <1>4 DEF Put, Typed
<1>6. CpuAccounted(d)
  BY <1>1, <1>5, SchedulerConstants DEF Suspended, CpuAccounted, Task, Pid, User, t
<1>7. Sound(d)
  <2>1. \A q \in Pid : /\ d.task[q].state # "running" => d.task[q] = s.task[q]
                       /\ d.task[q].state = "running" => s.task[q].state = "ready"
                       /\ d.task[q].parent = s.task[q].parent
                       /\ d.task[q].timed = s.task[q].timed
    BY <1>1, <1>5 DEF Suspended, Task, Pid, User, t
  <2>2. TimeoutsFresh(d)
    BY <2>1 DEF Suspended, Sound, TimeoutsFresh
  <2>3. AwaitsLiveChild(d)
    BY <2>1, SchedulerConstants DEF Suspended, Sound, AwaitsLiveChild, Blocked, Pid, User
  <2>4. CallsDisjoint(d)
    BY <2>1, SchedulerConstants DEF Suspended, Sound, CallsDisjoint, Blocked, Pid, User
  <2> QED BY <2>2, <2>3, <2>4 DEF Sound
<1> QED BY <1>5, <1>6, <1>7 DEF Good, d

LEMMA ReturnIdleGood ==
  ASSUME NEW s, Suspended(s)
  PROVE  Good(return_idle(s))
<1> DEFINE h == Cpu(s, 0, FALSE, s.slice)
           t == [s.task[0] EXCEPT !.state = "running"]
           d == return_idle(s)
<1>1. Typed(s) /\ 0 \in Pid /\ s.task[0] \in Task /\ s.slice \in 0 .. Quantum
  BY TaskFields, SchedulerConstants DEF Suspended, Pid
<1>2. Typed(h) /\ h.task = s.task /\ h.current = 0 /\ h.running = FALSE
  <2>1. PICK r \in BOOLEAN : r = FALSE
    OBVIOUS
  <2>2. h = Cpu(s, 0, r, s.slice)
    BY <2>1
  <2> HIDE DEF h
  <2> QED BY <1>1, <2>1, <2>2, CpuFacts
<1>3. t \in Task
  BY <1>1 DEF Task, TaskState
<1>4. d = Put(h, 0, t)
  BY <1>2 DEF return_idle, SetState
<1> HIDE DEF h, d, t
<1>5. /\ Typed(d)
      /\ \A q \in Pid : d.task[q] = IF q = 0 THEN t ELSE s.task[q]
      /\ d.current = 0 /\ d.running = FALSE
  BY <1>1, <1>2, <1>3, <1>4 DEF Put, Typed
<1>6. CpuAccounted(d)
  BY <1>1, <1>5, SchedulerConstants DEF Suspended, CpuAccounted, Task, Pid, User, t
<1>7. Sound(d)
  <2>1. \A q \in User : d.task[q] = s.task[q] /\ q \in Pid
    BY <1>5, SchedulerConstants DEF Pid, User
  <2>2. d.task[0].timed = s.task[0].timed /\ s.task[0].state = "ready"
    BY <1>1, <1>5 DEF Suspended, Task, t
  <2>3. TimeoutsFresh(d)
    BY <2>1, <2>2, SchedulerConstants DEF Suspended, Sound, TimeoutsFresh, Pid, User
  <2>4. AwaitsLiveChild(d)
    BY <2>1, SchedulerConstants DEF Suspended, Sound, AwaitsLiveChild, Blocked
  <2>5. CallsDisjoint(d)
    BY <2>1, SchedulerConstants DEF Suspended, Sound, CallsDisjoint, Blocked
  <2> QED BY <2>3, <2>4, <2>5 DEF Sound
<1> QED BY <1>5, <1>6, <1>7 DEF Good, d

LEMMA DispatchNextGood ==
  ASSUME NEW s, Suspended(s), NEW after \in Pid
  PROVE  Good(DispatchNext(s, next_ready(s, after)))
<1>1. Typed(s)
  BY DEF Suspended
<1> QED BY <1>1, NextReady, DispatchGood, ReturnIdleGood, SchedulerConstants DEF DispatchNext, User

-----------------------------------------------------------------------------
(* The new contents t of slot p are consistent themselves and do not pull  *)
(* a live child away from a task that waits for it.                        *)
Fits(s, p, t) ==
  /\ t.timed => t.state \in {"blocked", "exited"}
  /\ t.state = "blocked" =>
        /\ t.rax \in {InWait, InBlock}
        /\ t.rax = InBlock <=> t.waiting_for = WaitNone
        /\ t.timed => t.rax = InBlock
  /\ (t.state = "blocked" /\ t.rax = InWait) =>
        /\ t.waiting_for \in User
        /\ IF t.waiting_for = p THEN t.parent = p
           ELSE /\ s.task[t.waiting_for].parent = p
                /\ s.task[t.waiting_for].state \in {"ready", "running", "blocked"}
  /\ \A q \in User :
        (q # p /\ Blocked(s, q) /\ s.task[q].rax = InWait /\ s.task[q].waiting_for = p)
           => t.parent = q /\ t.state \in {"ready", "running", "blocked"}

LEMMA PutSound ==
  ASSUME NEW s, Typed(s), Sound(s), NEW p \in Pid, NEW t \in Task, Fits(s, p, t)
  PROVE  Sound(Put(s, p, t))
<1> DEFINE d == Put(s, p, t)
<1>1. \A q \in Pid : d.task[q] = IF q = p THEN t ELSE s.task[q]
  BY PutFacts, SMTT(30)
<1> HIDE DEF d
<1>2. User \subseteq Pid
  BY SchedulerConstants DEF User, Pid
<1>3. TimeoutsFresh(d)
  BY <1>1 DEF Sound, TimeoutsFresh, Fits
<1>4. CallsDisjoint(d)
  BY <1>1, <1>2 DEF Sound, CallsDisjoint, Blocked, Fits
<1>5. AwaitsLiveChild(d)
  <2> SUFFICES ASSUME NEW q \in User, d.task[q].state = "blocked", d.task[q].rax = InWait
               PROVE  /\ d.task[q].waiting_for \in User
                      /\ d.task[d.task[q].waiting_for].parent = q
                      /\ d.task[d.task[q].waiting_for].state \in {"ready", "running", "blocked"}
    BY DEF AwaitsLiveChild, Blocked
  <2>1. CASE q = p
    BY <1>1, <1>2, <2>1 DEF Fits
  <2>2. CASE q # p
    <3>1. d.task[q] = s.task[q]
      BY <1>1, <1>2, <2>2
    <3>2. /\ s.task[q].waiting_for \in User
          /\ s.task[s.task[q].waiting_for].parent = q
          /\ s.task[s.task[q].waiting_for].state \in {"ready", "running", "blocked"}
      BY <3>1 DEF Sound, AwaitsLiveChild, Blocked
    <3>3. CASE s.task[q].waiting_for = p
      BY <1>1, <1>2, <2>2, <3>1, <3>2, <3>3 DEF Blocked, Fits
    <3>4. CASE s.task[q].waiting_for # p
      BY <1>1, <1>2, <3>1, <3>2, <3>4
    <3> QED BY <3>3, <3>4
  <2> QED BY <2>1, <2>2
<1> QED BY <1>3, <1>4, <1>5 DEF Sound, d

(* The same for the whole invariant, when slot p is neither the kernel's   *)
(* nor the current task and does not become running.                       *)
LEMMA PutGood ==
  ASSUME NEW s, Good(s), NEW p \in User, NEW t \in Task,
         t.state = "running" <=> s.task[p].state = "running",
         Sound(Put(s, p, t))
  PROVE  Good(Put(s, p, t))
<1> DEFINE d == Put(s, p, t)
<1>1. Typed(s) /\ p \in Pid
  BY SchedulerConstants DEF Good, Pid, User
<1>2. /\ Typed(d)
      /\ \A q \in Pid : d.task[q] = IF q = p THEN t ELSE s.task[q]
      /\ d.current = s.current /\ d.running = s.running /\ d.slice = s.slice
  BY <1>1 DEF Put, Typed
<1> HIDE DEF d
<1>3. CpuAccounted(d)
  <2>1. \A q \in Pid : d.task[q].state = "running" <=> s.task[q].state = "running"
    BY <1>2
  <2>2. d.task[0] = s.task[0]
    BY <1>2, SchedulerConstants DEF Pid, User
  <2>3. d.running <=> d.current # 0
    BY <1>2 DEF Good, CpuAccounted
  <2> QED BY <1>2, <2>1, <2>2, <2>3 DEF Good, CpuAccounted
<1> QED BY <1>2, <1>3 DEF Good, d

(* A user task that gives up the CPU: either it is still marked running    *)
(* (yield, end of quantum) or it has just blocked.                         *)
Handover(s) ==
  /\ Typed(s) /\ Sound(s)
  /\ s.running /\ s.current \in User
  /\ s.task[0].state = "ready" /\ s.task[0].parent = 0
  /\ \A p \in User : p # s.current => s.task[p].state # "running"

LEMMA GoodHandover ==
  ASSUME NEW s, Good(s), s.current # 0
  PROVE  Handover(s)
<1>1. Typed(s) /\ s.current \in Pid /\ 0 \in Pid
  BY TaskFields, SchedulerConstants DEF Good, Pid
<1>2. s.current \in User /\ User \subseteq Pid
  BY <1>1, SchedulerConstants DEF Pid, User
<1>3. s.running
  BY DEF Good, CpuAccounted
<1>4. s.task[0].state = "ready" /\ s.task[0].parent = 0
  BY <1>1 DEF Good, CpuAccounted
<1>5. \A p \in User : p # s.current => s.task[p].state # "running"
  BY <1>2 DEF Good, CpuAccounted
<1> QED BY <1>1, <1>2, <1>3, <1>4, <1>5 DEF Handover, Good

LEMMA RescheduleGood ==
  ASSUME NEW s, Handover(s)
  PROVE  Good(reschedule(s))
<1> DEFINE me == s.current
           t  == [s.task[me] EXCEPT !.state = "ready", !.rax = NoWord]
           d  == Suspend(s)
<1>1. me \in Pid /\ me \in User /\ me # 0 /\ s.task[me] \in Task /\ Typed(s) /\ 0 \in Pid
  BY TaskFields, SchedulerConstants DEF Handover, Pid, User
<1>2. Suspended(d)
  <2>1. CASE s.task[me].state # "running"
    BY <2>1 DEF Handover, Suspended, Suspend
  <2>2. CASE s.task[me].state = "running"
    <3>1. d = Put(s, me, t)
      BY <2>2 DEF Suspend
    <3>0. t \in Task
      BY <1>1 DEF Task, TaskState, Word, NoWord
    <3>2. /\ t.state = "ready"
          /\ t.timed => s.task[me].timed
          /\ t.parent = s.task[me].parent
      BY <1>1 DEF Task
    <3>3. ~t.timed
      BY <1>1, <2>2, <3>2 DEF Handover, Sound, TimeoutsFresh
    <3> HIDE DEF t, d
    <3>4. Fits(s, me, t)
      BY <3>2, <3>3 DEF Handover, Sound, AwaitsLiveChild, Fits
    <3>5. Sound(Put(s, me, t))
      BY <1>1, <3>0, <3>4, PutSound DEF Handover
    <3>6. /\ Typed(d)
          /\ \A q \in Pid : d.task[q] = IF q = me THEN t ELSE s.task[q]
          /\ d.running = s.running
      BY <1>1, <3>1, <3>0 DEF Put, Typed
    <3>7. d.task[0].state = "ready" /\ d.task[0].parent = 0 /\ \A p \in User : d.task[p].state # "running"
      BY <1>1, <3>2, <3>6, SchedulerConstants DEF Handover, Pid, User
    <3> QED BY <3>1, <3>5, <3>6, <3>7 DEF Suspended, Handover
  <2> QED BY <2>1, <2>2
<1> HIDE DEF d
<1>3. Good(DispatchNext(d, next_ready(d, me)))
  BY <1>1, <1>2, DispatchNextGood
<1> QED BY <1>3 DEF reschedule, d

-----------------------------------------------------------------------------
(* The end of a process: its own slot is exited, or already free when a    *)
(* parent waited for it; that parent is ready; nothing else moves.         *)
LEMMA ExitFacts ==
  ASSUME NEW s, Typed(s), Sound(s), NEW pid \in User
  PROVE  LET d == wake_waiting_parent(MarkExited(s, pid), pid)
         IN  /\ Typed(d) /\ Sound(d)
             /\ d.current = s.current /\ d.running = s.running /\ d.slice = s.slice
             /\ d.task[pid].state \in {"exited", "unused"}
             /\ \A q \in Pid : q # pid =>
                   d.task[q] = s.task[q] \/ (s.task[q].state = "blocked" /\ d.task[q].state = "ready")
             /\ d.task[0] = s.task[0]
<1> DEFINE t == [s.task[pid] EXCEPT !.state = "exited", !.rax = NoWord]
           m == MarkExited(s, pid)
           d == wake_waiting_parent(m, pid)
           p == s.task[pid].parent
<1>1. pid \in Pid /\ s.task[pid] \in Task /\ p \in Pid /\ User \subseteq Pid /\ 0 \in Pid /\ 0 \notin User
  BY TaskFields, SchedulerConstants DEF Pid, User, Task
<1>2. t \in Task
  BY <1>1 DEF Task, TaskState, Word, NoWord
<1>3. t.state = "exited" /\ t.parent = p
  BY <1>1 DEF Task
<1>3a. \A q \in User : (Blocked(s, q) /\ s.task[q].rax = InWait /\ s.task[q].waiting_for = pid) => p = q
  BY DEF Sound, AwaitsLiveChild
<1> HIDE DEF t, p
<1>4. m = Put(s, pid, t)
  BY DEF MarkExited, t
<1> HIDE DEF m
<1>5. /\ Typed(m)
      /\ \A q \in Pid : m.task[q] = IF q = pid THEN t ELSE s.task[q]
      /\ m.current = s.current /\ m.running = s.running /\ m.slice = s.slice
  BY <1>1, <1>2, <1>4 DEF Put, Typed
<1>6. CASE ~ParentAwaits(m, pid)
  <2>1. d = m
    BY <1>6 DEF wake_waiting_parent
  <2>2. Fits(s, pid, t)
    <3>1. t.timed => t.state \in {"blocked", "exited"}
      BY <1>3
    <3>2. t.state # "blocked"
      BY <1>3
    <3>3. ASSUME NEW q \in User, q # pid, Blocked(s, q), s.task[q].rax = InWait, s.task[q].waiting_for = pid
          PROVE  FALSE
      <4>1. p = q
        BY <1>3a, <3>3
      <4>2. m.task[q] = s.task[q] /\ m.task[pid].parent = q
        BY <1>1, <1>3, <1>5, <3>3, <4>1
      <4>3. q # 0 /\ pid # WaitNone
        BY SchedulerConstants DEF User, WaitNone
      <4> QED BY <1>6, <3>3, <4>1, <4>2, <4>3 DEF ParentAwaits, Blocked
    <3> QED BY <3>1, <3>2, <3>3 DEF Fits
  <2>3. Sound(m)
    BY <1>1, <1>2, <1>4, <2>2, PutSound
  <2>4. m.task[pid].state = "exited" /\ m.task[0] = s.task[0]
    BY <1>1, <1>3, <1>5
  <2>5. \A q \in Pid : q # pid => m.task[q] = s.task[q]
    BY <1>5
  <2> QED BY <1>5, <2>1, <2>3, <2>4, <2>5 DEF m
<1>7. CASE ParentAwaits(m, pid)
  <2> DEFINE u == [m.task[p] EXCEPT !.rax = GotChild, !.waiting_for = WaitNone, !.state = "ready"]
             a == AnswerParent(m, p)
  <2>1. m.task[pid].parent = p
    BY <1>1, <1>3, <1>5
  <2>2. /\ p # 0 /\ p # pid /\ p \in User
        /\ s.task[p].state = "blocked" /\ m.task[p] = s.task[p]
    <3>1. p # 0 /\ m.task[p].state = "blocked"
      BY <1>7, <2>1 DEF ParentAwaits
    <3>2. p # pid
      BY <1>1, <1>3, <1>5, <3>1
    <3>3. p \in User
      BY <1>1, <3>1, SchedulerConstants DEF Pid, User
    <3> QED BY <1>1, <1>5, <3>1, <3>2, <3>3
  <2>3. u \in Task /\ m.task[p] \in Task
    <3>1. m.task[p] \in Task
      BY <1>1, <1>5 DEF Typed
    <3>2. GotChild \in Word /\ WaitNone \in 0 .. ProcessLimit /\ "ready" \in TaskState
      BY SchedulerConstants DEF Word, WaitNone, TaskState
    <3> QED BY <3>1, <3>2 DEF Task
  <2>4. u.state = "ready"
    BY <2>3 DEF Task
  <2>4a. u.timed => m.task[p].timed
    BY <2>3 DEF Task
  <2>4b. u.parent = s.task[p].parent
    BY <2>2, <2>3 DEF Task
  <2> HIDE DEF u
  <2>5. a = Put(m, p, u)
    BY DEF AnswerParent, u
  <2> HIDE DEF a
  <2>6. /\ Typed(a)
        /\ \A q \in Pid : a.task[q] = IF q = p THEN u ELSE m.task[q]
        /\ a.current = m.current /\ a.running = m.running /\ a.slice = m.slice
    BY <1>1, <1>5, <2>3, <2>5 DEF Put, Typed
  <2>7. FreeTask \in Task
    BY Constants
  <2>8. d = Put(a, pid, FreeTask)
    BY <1>7, <2>1 DEF wake_waiting_parent, a
  <2> HIDE DEF d
  <2>8a. /\ Typed(d)
         /\ \A q \in Pid : d.task[q] = IF q = pid THEN FreeTask ELSE a.task[q]
         /\ d.current = a.current /\ d.running = a.running /\ d.slice = a.slice
    BY <1>1, <2>6, <2>7, <2>8 DEF Put, Typed
  <2>9. /\ \A q \in Pid : d.task[q] = IF q = pid THEN FreeTask ELSE IF q = p THEN u ELSE s.task[q]
        /\ d.current = s.current /\ d.running = s.running /\ d.slice = s.slice
    BY <1>5, <2>6, <2>8a
  <2>10. FreeTask.state = "unused" /\ ~FreeTask.timed
    BY Constants
  <2>11. ~u.timed
    <3>1. m.task[p].waiting_for # WaitNone
      BY <1>7, <2>1 DEF ParentAwaits
    <3>2. ~s.task[p].timed
      BY <2>2, <3>1 DEF Sound, CallsDisjoint, Blocked
    <3> QED BY <2>2, <2>4a, <3>2
  <2>12. TimeoutsFresh(d)
    BY <2>9, <2>10, <2>11 DEF Sound, TimeoutsFresh
  <2>13. CallsDisjoint(d)
    BY <1>1, <2>4, <2>9, <2>10 DEF Sound, CallsDisjoint, Blocked
  <2>14. AwaitsLiveChild(d)
    <3> SUFFICES ASSUME NEW q \in User, d.task[q].state = "blocked", d.task[q].rax = InWait
                 PROVE  /\ d.task[q].waiting_for \in User
                        /\ d.task[d.task[q].waiting_for].parent = q
                        /\ d.task[d.task[q].waiting_for].state \in {"ready", "running", "blocked"}
      BY DEF AwaitsLiveChild, Blocked
    <3>1. q # pid /\ q # p /\ d.task[q] = s.task[q] /\ q \in Pid
      BY <1>1, <2>4, <2>9, <2>10
    <3>2. /\ s.task[q].waiting_for \in User
          /\ s.task[s.task[q].waiting_for].parent = q
          /\ s.task[s.task[q].waiting_for].state \in {"ready", "running", "blocked"}
      BY <3>1 DEF Sound, AwaitsLiveChild, Blocked
    <3>3. s.task[q].waiting_for # pid
      BY <1>3a, <3>1 DEF Blocked
    <3>4. CASE s.task[q].waiting_for = p
      BY <1>1, <2>4, <2>4b, <2>9, <3>1, <3>2, <3>3, <3>4
    <3>5. CASE s.task[q].waiting_for # p
      BY <1>1, <2>9, <3>1, <3>2, <3>3, <3>5
    <3> QED BY <3>4, <3>5
  <2>15. Sound(d)
    BY <2>12, <2>13, <2>14 DEF Sound
  <2>16. d.task[pid].state = "unused" /\ d.task[0] = s.task[0]
    BY <1>1, <2>2, <2>9, <2>10
  <2>17. \A q \in Pid : q # pid =>
            d.task[q] = s.task[q] \/ (s.task[q].state = "blocked" /\ d.task[q].state = "ready")
    BY <2>2, <2>4, <2>9
  <2> QED BY <2>8a, <2>9, <2>15, <2>16, <2>17 DEF d, m
<1> QED BY <1>6, <1>7

-----------------------------------------------------------------------------
(* One lemma per entry point: it preserves the invariant.                  *)

LEMMA InitGood == Good(SchedulerInit)
<1> DEFINE s == SchedulerInit
           first(p) == IF p = 0 THEN "running" ELSE "unused"
<1>1. \A p \in Pid : /\ s.task[p] = MakeTask(first(p), 0, WaitNone)
                     /\ s.task[p] \in Task
                     /\ s.task[p].state = first(p)
                     /\ ~s.task[p].timed
  <2> SUFFICES ASSUME NEW p \in Pid
               PROVE  /\ s.task[p] = MakeTask(first(p), 0, WaitNone)
                      /\ s.task[p] \in Task
                      /\ s.task[p].state = first(p)
                      /\ ~s.task[p].timed
    OBVIOUS
  <2>1. s.task[p] = MakeTask(first(p), 0, WaitNone)
    BY DEF SchedulerInit
  <2>2. first(p) \in TaskState
    BY DEF TaskState
  <2> HIDE DEF s, first
  <2> QED BY <2>1, <2>2, Constants, MakeTaskFacts
<1>2. Typed(s)
  <2>1. s.task \in [Pid -> Task]
    BY <1>1 DEF SchedulerInit
  <2> QED BY <2>1, Constants, SchedulerConstants DEF Typed, SchedulerInit
<1>3. s.current = 0 /\ s.running = FALSE /\ s.task[0].parent = 0
  BY Constants DEF SchedulerInit, MakeTask
<1> HIDE DEF s
<1>4. CpuAccounted(s)
  BY <1>1, <1>3, Constants DEF CpuAccounted
<1>5. Sound(s)
  BY <1>1, Constants DEF Sound, TimeoutsFresh, AwaitsLiveChild, CallsDisjoint, Blocked
<1> QED BY <1>2, <1>4, <1>5 DEF Good, s

(* A slot in which nobody can be waiting may be overwritten: the waited    *)
(* child is always live.                                                   *)
LEMMA FreshSlotGood ==
  ASSUME NEW s, Good(s), NEW p \in User, NEW t \in Task,
         s.task[p].state \in {"unused", "exited"},
         t.state \in {"unused", "ready", "exited"}, ~t.timed
  PROVE  Good(Put(s, p, t))
<1>1. Fits(s, p, t)
  BY Constants DEF Good, Sound, AwaitsLiveChild, Blocked, Fits
<1>2. Sound(Put(s, p, t))
  BY <1>1, Constants, PutSound DEF Good
<1> QED BY <1>2, PutGood

LEMMA CreateGood ==
  ASSUME NEW s, Good(s), NEW parent \in Pid
  PROVE  Good(scheduler_create_user(s, parent))
<1>1. NewTask(parent) \in Task /\ NewTask(parent).state = "ready" /\ ~NewTask(parent).timed
  BY Constants, MakeTaskFacts DEF NewTask, TaskState
<1>2. CASE FirstUnused(s) = 0
  BY <1>2 DEF scheduler_create_user
<1>3. CASE FirstUnused(s) # 0
  <2>1. FirstUnused(s) \in User /\ s.task[FirstUnused(s)].state = "unused"
    BY <1>3, FirstUnusedSlot DEF Good
  <2>2. Good(Put(s, FirstUnused(s), NewTask(parent)))
    BY <1>1, <2>1, FreshSlotGood
  <2> QED BY <1>3, <2>2 DEF scheduler_create_user
<1> QED BY <1>2, <1>3

LEMMA ReapGood ==
  ASSUME NEW s, Good(s), NEW parent, NEW child
  PROVE  Good(scheduler_reap(s, parent, child))
BY Constants, FreshSlotGood DEF scheduler_reap, CanReap

LEMMA ReapExitedGood ==
  ASSUME NEW s, Good(s), NEW parent
  PROVE  Good(scheduler_reap_exited(s, parent))
BY ReapGood DEF scheduler_reap_exited

LEMMA YieldGood ==
  ASSUME NEW s, Good(s)
  PROVE  Good(scheduler_on_yield(s))
BY GoodHandover, RescheduleGood DEF scheduler_on_yield

LEMMA StartGood ==
  ASSUME NEW s, Good(s)
  PROVE  Good(scheduler_start_users(s))
<1> DEFINE h == Cpu(s, 0, TRUE, s.slice)
           t == [s.task[0] EXCEPT !.state = "ready"]
           d == SetState(h, 0, "ready")
           first == next_ready(s, 0)
<1>1. CASE s.running \/ first = 0
  BY <1>1 DEF scheduler_start_users
<1>2. CASE ~s.running /\ first # 0
  <2>1. Typed(s) /\ s.task[0] \in Task /\ s.slice \in 0 .. Quantum /\ s.current = 0
    BY <1>2, TaskFields, Constants DEF Good, CpuAccounted
  <2>2. first \in User /\ s.task[first].state = "ready"
    BY <1>2, <2>1, Constants, NextReady
  <2>3. Typed(h) /\ h.task = s.task /\ h.current = 0 /\ h.running
    BY <2>1, Constants DEF Cpu, Typed
  <2>4. t \in Task /\ t.state = "ready"
    BY <2>1 DEF Task, TaskState
  <2>4b. t.parent = 0
    BY <2>1 DEF Task, Good, CpuAccounted
  <2>4a. t.timed => s.task[0].timed
    BY <2>1 DEF Task
  <2>5. d = Put(h, 0, t)
    BY <2>3 DEF SetState
  <2> HIDE DEF h, t, d, first
  <2>6. /\ Typed(d)
        /\ \A q \in Pid : d.task[q] = IF q = 0 THEN t ELSE s.task[q]
    BY <2>1, <2>3, <2>4, <2>5, Constants DEF Put, Typed
  <2>6a. d.running
    BY <2>3, <2>5, Constants DEF Put, Typed
  <2>7. \A q \in User : d.task[q] = s.task[q]
    BY <2>6, Constants
  <2>8. \A q \in User : d.task[q].state # "running"
    BY <2>1, <2>7, Constants DEF Good, CpuAccounted
  <2>9. Sound(d)
    <3>1. ~s.task[0].timed
      BY <2>1, Constants DEF Good, Sound, TimeoutsFresh, CpuAccounted
    <3>2. TimeoutsFresh(d)
      BY <2>4a, <2>6, <3>1 DEF Good, Sound, TimeoutsFresh
    <3>3. AwaitsLiveChild(d)
      BY <2>7 DEF Good, Sound, AwaitsLiveChild, Blocked
    <3>4. CallsDisjoint(d)
      BY <2>7 DEF Good, Sound, CallsDisjoint, Blocked
    <3> QED BY <3>2, <3>3, <3>4 DEF Sound
  <2>10. Suspended(d) /\ d.task[first].state = "ready"
    BY <2>2, <2>4, <2>4b, <2>6, <2>6a, <2>7, <2>8, <2>9, Constants DEF Suspended
  <2>11. Good(dispatch(d, first))
    BY <2>2, <2>10, DispatchGood
  <2> QED BY <1>2, <2>11 DEF scheduler_start_users, d, h, first
<1> QED BY <1>1, <1>2

LEMMA ExitGood ==
  ASSUME NEW s, Good(s)
  PROVE  Good(scheduler_on_exit(s))
<1> DEFINE me == s.current
           d == wake_waiting_parent(MarkExited(s, me), me)
<1>1. CASE ~s.running \/ me = 0
  BY <1>1 DEF scheduler_on_exit
<1>2. CASE s.running /\ me # 0
  <2>1. Handover(s)
    BY <1>2, GoodHandover
  <2>2. Typed(s) /\ Sound(s) /\ me \in User /\ s.task[0].state = "ready" /\ s.task[0].parent = 0
    BY <2>1 DEF Handover
  <2> HIDE DEF me
  <2>3. /\ Typed(d) /\ Sound(d)
        /\ d.running = s.running
        /\ d.task[me].state \in {"exited", "unused"}
        /\ \A q \in Pid : q # me =>
              d.task[q] = s.task[q] \/ (s.task[q].state = "blocked" /\ d.task[q].state = "ready")
        /\ d.task[0] = s.task[0]
    BY <2>2, ExitFacts
  <2> HIDE DEF d
  <2>4. \A q \in User : d.task[q].state # "running"
    BY <2>1, <2>3, Constants DEF Handover, me
  <2>5. Suspended(d)
    BY <1>2, <2>2, <2>3, <2>4 DEF Suspended
  <2>6. Good(DispatchNext(d, next_ready(d, me)))
    BY <2>2, <2>5, Constants, DispatchNextGood
  <2> QED BY <1>2, <2>6 DEF scheduler_on_exit, d, me
<1> QED BY <1>1, <1>2

LEMMA TerminateGood ==
  ASSUME NEW s, Good(s), NEW pid
  PROVE  Good(scheduler_terminate(s, pid))
<1> DEFINE d == wake_waiting_parent(MarkExited(s, pid), pid)
<1>1. CASE ~CanTerminate(s, pid)
  BY <1>1 DEF scheduler_terminate
<1>2. CASE CanTerminate(s, pid)
  <2>1. Typed(s) /\ Sound(s) /\ pid \in User /\ pid # s.current
    BY <1>2 DEF Good, CanTerminate
  <2>2. /\ Typed(d) /\ Sound(d)
        /\ d.current = s.current /\ d.running = s.running /\ d.slice = s.slice
        /\ d.task[pid].state \in {"exited", "unused"}
        /\ \A q \in Pid : q # pid =>
              d.task[q] = s.task[q] \/ (s.task[q].state = "blocked" /\ d.task[q].state = "ready")
        /\ d.task[0] = s.task[0]
    BY <2>1, ExitFacts
  <2> HIDE DEF d
  <2>3. \A q \in Pid : d.task[q].state = "running" <=> s.task[q].state = "running"
    BY <2>1, <2>2, Constants DEF Good, CpuAccounted
  <2>4. d.running <=> d.current # 0
    BY <2>2 DEF Good, CpuAccounted
  <2>5. CpuAccounted(d)
    BY <2>2, <2>3, <2>4 DEF Good, CpuAccounted
  <2> QED BY <1>2, <2>2, <2>5 DEF Good, scheduler_terminate, d
<1> QED BY <1>1, <1>2

LEMMA WakeGood ==
  ASSUME NEW s, Good(s), NEW pid, NEW result \in Results
  PROVE  Good(scheduler_wake(s, pid, result))
<1> DEFINE t == [s.task[pid] EXCEPT !.rax = result, !.timed = FALSE, !.delay = 0,
                                    !.waiting_for = WaitNone, !.state = "ready"]
<1>1. CASE ~CanWake(s, pid)
  BY <1>1 DEF scheduler_wake
<1>2. CASE CanWake(s, pid)
  <2>1. pid \in User /\ pid \in Pid /\ s.task[pid] \in Task /\ Typed(s) /\ s.task[pid].state = "blocked"
    BY <1>2, Constants, TaskFields DEF Good, CanWake
  <2>2. result \in Word /\ "ready" \in TaskState /\ 0 \in 0 .. MaxDelay
    BY SchedulerConstants DEF Word, TaskState
  <2>3. t \in Task
    BY <2>1, <2>2, Constants DEF Task
  <2>4. t.state = "ready" /\ t.parent = s.task[pid].parent
    BY <2>1 DEF Task
  <2>4a. ~t.timed
    BY <2>1 DEF Task
  <2> HIDE DEF t
  <2>5. Fits(s, pid, t)
    BY <2>4, <2>4a DEF Good, Sound, AwaitsLiveChild, Fits
  <2>6. Sound(Put(s, pid, t))
    BY <2>1, <2>3, <2>5, PutSound DEF Good
  <2>7. Good(Put(s, pid, t))
    BY <2>1, <2>3, <2>4, <2>6, PutGood
  <2> QED BY <1>2, <2>7 DEF scheduler_wake, t
<1> QED BY <1>1, <1>2

(* Storing a blocked slot for the current task and rescheduling.           *)
LEMMA BlockGood ==
  ASSUME NEW s, Good(s), s.current # 0, NEW t \in Task,
         t.state = "blocked", t.parent = s.task[s.current].parent,
         Fits(s, s.current, t)
  PROVE  Good(reschedule(Put(s, s.current, t)))
<1> DEFINE me == s.current
           d == Put(s, me, t)
<1>1. Handover(s) /\ me \in User /\ me \in Pid /\ Typed(s)
  BY GoodHandover, Constants DEF Handover
<1> HIDE DEF me
<1>2. Sound(d)
  BY <1>1, PutSound DEF Good, me
<1>3. /\ Typed(d)
      /\ \A q \in Pid : d.task[q] = IF q = me THEN t ELSE s.task[q]
      /\ d.current = me
  BY <1>1 DEF Put, Typed, me
<1>3a. d.running
  BY <1>1 DEF Put, Typed, Handover
<1> HIDE DEF d
<1>4. Handover(d)
  BY <1>1, <1>2, <1>3, <1>3a, Constants DEF Handover, me
<1> QED BY <1>4, RescheduleGood DEF d, me

(* The slot of the current task when it blocks without a child to wait for. *)
LEMMA SleepGood ==
  ASSUME NEW s, Good(s), s.current # 0, NEW t \in Task,
         t.state = "blocked", t.parent = s.task[s.current].parent,
         t.waiting_for = WaitNone, t.rax = InBlock
  PROVE  Good(reschedule(Put(s, s.current, t)))
<1>1. Fits(s, s.current, t)
  BY DEF Good, Sound, AwaitsLiveChild, Fits, InBlock, InWait
<1> QED BY <1>1, BlockGood

LEMMA BlockCurrentGood ==
  ASSUME NEW s, Good(s)
  PROVE  Good(scheduler_block_current(s))
<1> DEFINE me == s.current
           t == [s.task[me] EXCEPT !.state = "blocked", !.waiting_for = WaitNone, !.rax = InBlock]
<1>1. CASE ~s.running \/ me = 0
  BY <1>1 DEF scheduler_block_current
<1>2. CASE s.running /\ me # 0
  <2>1. s.task[me] \in Task
    BY TaskFields DEF Good
  <2>2. InBlock \in Word /\ "blocked" \in TaskState
    BY DEF Word, TaskState
  <2>3. t \in Task
    BY <2>1, <2>2, Constants DEF Task
  <2>4. /\ t.state = "blocked" /\ t.parent = s.task[me].parent
        /\ t.waiting_for = WaitNone /\ t.rax = InBlock
    BY <2>1 DEF Task
  <2> HIDE DEF t
  <2>5. Good(reschedule(Put(s, me, t)))
    BY <1>2, <2>3, <2>4, SleepGood
  <2> QED BY <1>2, <2>5 DEF scheduler_block_current, t
<1> QED BY <1>1, <1>2

LEMMA BlockTimeoutGood ==
  ASSUME NEW s, Good(s), NEW delay \in 0 .. MaxDelay
  PROVE  Good(scheduler_block_current_timeout(s, delay))
<1> DEFINE me == s.current
           t == [s.task[me] EXCEPT !.state = "blocked", !.waiting_for = WaitNone,
                                   !.timed = TRUE, !.delay = delay, !.rax = InBlock]
<1>1. CASE ~s.running \/ me = 0 \/ delay = 0
  BY <1>1, BlockCurrentGood DEF scheduler_block_current_timeout
<1>2. CASE s.running /\ me # 0 /\ delay # 0
  <2>1. s.task[me] \in Task
    BY TaskFields DEF Good
  <2>2. InBlock \in Word /\ "blocked" \in TaskState
    BY DEF Word, TaskState
  <2>3. t \in Task
    BY <2>1, <2>2, Constants DEF Task
  <2>4. /\ t.state = "blocked" /\ t.parent = s.task[me].parent
        /\ t.waiting_for = WaitNone /\ t.rax = InBlock
    BY <2>1 DEF Task
  <2> HIDE DEF t
  <2>5. Good(reschedule(Put(s, me, t)))
    BY <1>2, <2>3, <2>4, SleepGood
  <2> QED BY <1>2, <2>5 DEF scheduler_block_current_timeout, t
<1> QED BY <1>1, <1>2

(* A result word stored in the frame of a task that is not blocked.        *)
LEMMA AnswerGood ==
  ASSUME NEW s, Good(s), NEW p \in User, s.task[p].state = "running", NEW word \in Word
  PROVE  Good(Answer(s, p, word))
<1> DEFINE t == [s.task[p] EXCEPT !.rax = word]
<1>1. p \in Pid /\ s.task[p] \in Task /\ Typed(s)
  BY Constants, TaskFields DEF Good
<1>2. t \in Task
  BY <1>1 DEF Task
<1>3. t.state = "running" /\ t.parent = s.task[p].parent
  BY <1>1 DEF Task
<1>4. ~t.timed
  BY <1>1 DEF Task, Good, Sound, TimeoutsFresh
<1> HIDE DEF t
<1>5. Fits(s, p, t)
  BY <1>3, <1>4 DEF Good, Sound, AwaitsLiveChild, Fits
<1>6. Sound(Put(s, p, t))
  BY <1>1, <1>2, <1>5, PutSound DEF Good
<1>7. Good(Put(s, p, t))
  BY <1>2, <1>3, <1>6, PutGood
<1> QED BY <1>7 DEF Answer, t

LEMMA WaitGood ==
  ASSUME NEW s, Good(s), s.current # 0, NEW child \in 0 .. ProcessLimit
  PROVE  Good(scheduler_on_wait(s, child))
<1> DEFINE me == s.current
           r == scheduler_reap(s, me, child)
           t == [s.task[me] EXCEPT !.state = "blocked", !.waiting_for = child, !.rax = InWait]
<1>1. /\ me \in User /\ me \in Pid /\ s.task[me] \in Task /\ Typed(s)
      /\ s.task[me].state = "running"
  BY Constants, TaskFields DEF Good, CpuAccounted
<1>2. GotChild \in Word /\ GotError \in Word /\ InWait \in Word /\ "blocked" \in TaskState
  BY DEF Word, TaskState
<1>3. CASE CanReap(s, me, child)
  <2>1. Good(r)
    BY ReapGood
  <2>2. child \in User /\ child # me /\ r = Put(s, child, FreeTask)
    BY <1>1, <1>3 DEF CanReap, scheduler_reap
  <2>3. r.task[me] = s.task[me]
    BY <1>1, <2>2, Constants DEF Put, Typed
  <2> HIDE DEF r
  <2>4. Good(Answer(r, me, GotChild))
    BY <1>1, <1>2, <2>1, <2>3, AnswerGood
  <2> QED BY <1>3, <2>4 DEF scheduler_on_wait, r
<1>4. CASE /\ ~CanReap(s, me, child)
           /\ \/ child \notin Pid
              \/ s.task[child].parent # me
              \/ s.task[child].state = "unused"
  <2>1. Good(Answer(s, me, GotError))
    BY <1>1, <1>2, AnswerGood
  <2> QED BY <1>4, <2>1 DEF scheduler_on_wait
<1>5. CASE /\ ~CanReap(s, me, child)
           /\ child \in Pid
           /\ s.task[child].parent = me
           /\ s.task[child].state # "unused"
  <2>0. t \in Task
    BY <1>1, <1>2 DEF Task
  <2>1. /\ t.state = "blocked" /\ t.parent = s.task[me].parent
        /\ t.waiting_for = child /\ t.rax = InWait
    BY <1>1 DEF Task
  <2>2. ~t.timed
    BY <1>1 DEF Task, Good, Sound, TimeoutsFresh
  <2>3. CASE child = 0
    <3>1. s.task[0].parent = 0 /\ me # 0
      BY DEF Good, CpuAccounted
    <3> QED BY <1>5, <2>3, <3>1
  <2>4. CASE child # 0
    <3>1. child \in User
      BY <1>5, <2>4, Constants
    <3>2. s.task[child] \in Task
      BY <1>1, <1>5, TaskFields
    <3>3. s.task[child].state \in {"ready", "running", "blocked"}
      BY <1>5, <3>1, <3>2 DEF CanReap, Task, TaskState
    <3> HIDE DEF t
    <3>4. Fits(s, me, t)
      <4>1. child # WaitNone
        BY <1>5, Constants
      <4>2. InWait # InBlock
        BY DEF InWait, InBlock
      <4>3. child = me => t.parent = me
        BY <1>5, <2>1
      <4>4. \A q \in User : (q # me /\ Blocked(s, q) /\ s.task[q].rax = InWait /\ s.task[q].waiting_for = me)
               => t.parent = q /\ t.state \in {"ready", "running", "blocked"}
        BY <2>1 DEF Good, Sound, AwaitsLiveChild
      <4> QED BY <1>5, <2>1, <2>2, <3>1, <3>3, <4>1, <4>2, <4>3, <4>4 DEF Fits
    <3>5. Good(reschedule(Put(s, me, t)))
      BY <2>0, <2>1, <3>4, BlockGood
    <3> QED BY <1>5, <3>5 DEF scheduler_on_wait, t
  <2> QED BY <2>3, <2>4
<1> QED BY <1>3, <1>4, <1>5

(* A timer tick: the timeouts first, then the quantum of the current task. *)
LEMMA ExpireGood ==
  ASSUME NEW s, Good(s)
  PROVE  Good(ExpireTimeouts(s))
<1> DEFINE d == ExpireTimeouts(s)
<1>1. Typed(s) /\ \A p \in Pid : s.task[p] \in Task
  BY TaskFields DEF Good
<1>2. ASSUME NEW p \in Pid, p \in Expiring(s)
      PROVE  /\ TickTask(s, p) \in Task
             /\ TickTask(s, p).state = "ready" /\ ~TickTask(s, p).timed
             /\ TickTask(s, p).parent = s.task[p].parent
             /\ s.task[p].state = "blocked"
  <2>1. GotTime \in Word /\ "ready" \in TaskState /\ 0 \in 0 .. MaxDelay /\ s.task[p] \in Task
    BY <1>1, SchedulerConstants DEF Word, TaskState
  <2>2. s.task[p].state = "blocked"
    BY <1>2 DEF Expiring
  <2>3. TickTask(s, p) = [s.task[p] EXCEPT !.rax = GotTime, !.timed = FALSE, !.delay = 0,
                            !.waiting_for = WaitNone, !.state = "ready"]
    BY <1>2 DEF TickTask
  <2>4. WaitNone \in 0 .. ProcessLimit
    BY Constants
  <2> DEFINE a == s.task[p]
             t == [a EXCEPT !.rax = GotTime, !.timed = FALSE, !.delay = 0,
                            !.waiting_for = WaitNone, !.state = "ready"]
  <2>5. a \in Task
    BY <2>1
  <2> HIDE DEF a
  <2>6. t \in Task
    BY <2>1, <2>4, <2>5 DEF Task
  <2>7. t.state = "ready" /\ ~t.timed /\ t.parent = a.parent
    BY <2>5 DEF Task
  <2> QED BY <2>2, <2>3, <2>6, <2>7 DEF a
<1>3. ASSUME NEW p \in Pid, p \notin Expiring(s)
      PROVE  /\ TickTask(s, p) \in Task
             /\ TickTask(s, p).state = s.task[p].state
             /\ TickTask(s, p).timed => s.task[p].timed
             /\ TickTask(s, p).parent = s.task[p].parent
             /\ TickTask(s, p).rax = s.task[p].rax
             /\ TickTask(s, p).waiting_for = s.task[p].waiting_for
  <2>1. CASE s.task[p].state = "blocked" /\ s.task[p].timed
    <3>1. TickTask(s, p) = [s.task[p] EXCEPT !.delay = s.task[p].delay - 1]
      BY <1>3, <2>1 DEF TickTask
    <3>2. p \in User
      BY <2>1, Constants DEF Good, CpuAccounted
    <3>3. s.task[p] \in Task /\ s.task[p].delay \in 0 .. MaxDelay
      BY <1>1 DEF Task
    <3>4. s.task[p].delay - 1 \in 0 .. MaxDelay
      <4>1. ~(s.task[p].delay <= 1)
        BY <1>3, <2>1, <3>2 DEF Expiring
      <4> QED BY <3>3, <4>1, SchedulerConstants
    <3> QED BY <3>1, <3>3, <3>4 DEF Task
  <2>2. CASE ~(s.task[p].state = "blocked" /\ s.task[p].timed)
    BY <1>1, <1>3, <2>2 DEF TickTask
  <2> QED BY <2>1, <2>2
<1>4. /\ Typed(d)
      /\ \A p \in Pid : d.task[p] = TickTask(s, p)
      /\ d.current = s.current /\ d.slice = s.slice
  BY <1>1, <1>2, <1>3 DEF ExpireTimeouts, Typed
<1>5. d.running <=> s.running
  BY <1>1 DEF ExpireTimeouts, Typed
<1> HIDE DEF d
<1>6. /\ \A p \in Pid : d.task[p].state = "running" <=> s.task[p].state = "running"
      /\ \A p \in Pid : d.task[p].parent = s.task[p].parent
  BY <1>2, <1>3, <1>4
<1>7. CpuAccounted(d)
  <2>1. 0 \notin Expiring(s)
    BY Constants DEF Expiring
  <2>2. d.task[0].state = s.task[0].state
    BY <1>3, <1>4, <2>1, Constants
  <2> QED BY <1>4, <1>5, <1>6, <2>2, Constants DEF Good, CpuAccounted
<1>8. TimeoutsFresh(d)
  BY <1>2, <1>3, <1>4 DEF Good, Sound, TimeoutsFresh
<1>9. CallsDisjoint(d)
  <2> SUFFICES ASSUME NEW p \in User, d.task[p].state = "blocked"
               PROVE  /\ d.task[p].rax \in {InWait, InBlock}
                      /\ d.task[p].rax = InBlock <=> d.task[p].waiting_for = WaitNone
                      /\ d.task[p].timed => d.task[p].rax = InBlock
    BY DEF CallsDisjoint, Blocked
  <2>1. p \in Pid /\ p \notin Expiring(s)
    BY <1>2, <1>4, Constants
  <2>2. /\ s.task[p].state = "blocked" /\ d.task[p].rax = s.task[p].rax
        /\ d.task[p].waiting_for = s.task[p].waiting_for
        /\ (d.task[p].timed => s.task[p].timed)
    BY <1>3, <1>4, <2>1
  <2> QED BY <2>2 DEF Good, Sound, CallsDisjoint, Blocked
<1>10. AwaitsLiveChild(d)
  <2> SUFFICES ASSUME NEW q \in User, d.task[q].state = "blocked", d.task[q].rax = InWait
               PROVE  /\ d.task[q].waiting_for \in User
                      /\ d.task[d.task[q].waiting_for].parent = q
                      /\ d.task[d.task[q].waiting_for].state \in {"ready", "running", "blocked"}
    BY DEF AwaitsLiveChild, Blocked
  <2>1. q \in Pid /\ q \notin Expiring(s)
    BY <1>2, <1>4, Constants
  <2>2. /\ s.task[q].state = "blocked" /\ s.task[q].rax = InWait
        /\ d.task[q].waiting_for = s.task[q].waiting_for
    BY <1>3, <1>4, <2>1
  <2>3. PICK c \in User : /\ c = s.task[q].waiting_for
                          /\ s.task[c].parent = q
                          /\ s.task[c].state \in {"ready", "running", "blocked"}
    BY <2>2 DEF Good, Sound, AwaitsLiveChild, Blocked
  <2>4. d.task[c].state \in {"ready", "running", "blocked"} /\ d.task[c].parent = q
    BY <1>2, <1>3, <1>4, <1>6, <2>3, Constants
  <2> QED BY <2>2, <2>3, <2>4
<1> QED BY <1>4, <1>7, <1>8, <1>9, <1>10 DEF Good, Sound, d

LEMMA ChargeGood ==
  ASSUME NEW s, Good(s)
  PROVE  Good(ChargeSlice(s))
<1> DEFINE d == Cpu(s, s.current, s.running, s.slice + 1)
<1>1. CASE ~s.running \/ s.current = 0
  BY <1>1 DEF ChargeSlice
<1>2. CASE s.running /\ s.current # 0 /\ s.slice + 1 < Quantum
  <2>1. Typed(s) /\ s.current \in Pid /\ s.running \in BOOLEAN /\ s.slice + 1 \in 0 .. Quantum
    BY <1>2, TaskFields, SchedulerConstants DEF Good
  <2>2. Typed(d) /\ d.task = s.task /\ d.current = s.current /\ d.slice = s.slice + 1
    BY <2>1 DEF Cpu, Typed
  <2>3. d.running
    BY <1>2, <2>1 DEF Cpu, Typed
  <2> HIDE DEF d
  <2>4. CpuAccounted(d)
    BY <1>2, <2>2, <2>3 DEF Good, CpuAccounted
  <2>5. Sound(d)
    BY <2>2 DEF Good, Sound, TimeoutsFresh, AwaitsLiveChild, CallsDisjoint, Blocked
  <2> QED BY <1>2, <2>2, <2>4, <2>5 DEF Good, ChargeSlice, d
<1>3. CASE s.running /\ s.current # 0 /\ ~(s.slice + 1 < Quantum)
  BY <1>3, GoodHandover, RescheduleGood DEF ChargeSlice
<1> QED BY <1>1, <1>2, <1>3

LEMMA TickGood ==
  ASSUME NEW s, Good(s)
  PROVE  Good(scheduler_on_timer_tick(s))
BY ExpireGood, ChargeGood DEF scheduler_on_timer_tick

-----------------------------------------------------------------------------
(* Good is an invariant of the specification.                              *)
THEOREM GoodAlways == Spec => []Good(sched)
<1>1. Init => Good(sched)
  BY InitGood DEF Init
<1>2. Good(sched) /\ [Next]_sched => Good(sched)'
  <2> SUFFICES ASSUME Good(sched), [Next]_sched
               PROVE  Good(sched')
    BY DEF Good, Typed, CpuAccounted, Sound, TimeoutsFresh, AwaitsLiveChild, CallsDisjoint, Blocked
  <2>0. sched.current \in Pid
    BY TaskFields DEF Good
  <2>1. CASE Create
    BY <2>0, <2>1, CreateGood DEF Create
  <2>2. CASE Start
    BY <2>2, StartGood DEF Start
  <2>3. CASE Tick
    BY <2>3, TickGood DEF Tick
  <2>4. CASE Yield
    BY <2>4, YieldGood DEF Yield
  <2>5. CASE Exit
    BY <2>5, ExitGood DEF Exit
  <2>6. CASE Wait
    BY <2>6, WaitGood DEF Wait, InUser
  <2>7. CASE Block
    BY <2>7, BlockCurrentGood DEF Block
  <2>8. CASE BlockTimeout
    BY <2>8, BlockTimeoutGood DEF BlockTimeout
  <2>9. CASE Wake
    BY <2>9, WakeGood DEF Wake
  <2>10. CASE Terminate
    BY <2>10, TerminateGood DEF Terminate
  <2>11. CASE Reap
    BY <2>11, ReapGood DEF Reap
  <2>12. CASE ReapExited
    BY <2>12, ReapExitedGood DEF ReapExited
  <2>13. CASE UNCHANGED sched
    BY <2>13
  <2> QED BY <2>1, <2>2, <2>3, <2>4, <2>5, <2>6, <2>7, <2>8, <2>9, <2>10,
             <2>11, <2>12, <2>13 DEF Next
<1> QED BY <1>1, <1>2, PTL DEF Spec

(* Every field of the task table stays in range, for every table size.     *)
THEOREM TypeCorrect == Spec => []TypeOK
<1>1. Good(sched) => TypeOK
  BY DEF Good, TypeOK
<1> QED BY <1>1, GoodAlways, PTL

(* The CPU always belongs to exactly the task current_pid names.           *)
THEOREM CpuHasOneOwner == Spec => []OneRunning
<1>1. Good(sched) => OneRunning
  BY DEF Good, OneRunning
<1> QED BY <1>1, GoodAlways, PTL

(* No wait() misses the exit of its child: the child it sleeps on is live  *)
(* and will find it.                                                       *)
THEOREM NoLostWait == Spec => []WaitedChildIsLive
<1>1. Good(sched) => WaitedChildIsLive
  BY DEF Good, Sound, WaitedChildIsLive
<1> QED BY <1>1, GoodAlways, PTL

(* A child's exit ends only the wait() for that child, a wake-up only a    *)
(* call that waits for no pid.                                             *)
THEOREM CallsStayDisjoint == Spec => []BlockedCallsAreDisjoint
<1>1. Good(sched) => BlockedCallsAreDisjoint
  BY DEF Good, Sound, BlockedCallsAreDisjoint
<1> QED BY <1>1, GoodAlways, PTL

(* The deadline that scheduler_block_current_timeout arms is gone when the *)
(* task runs again.                                                        *)
THEOREM TimeoutsStayFresh == Spec => []NoStaleTimeout
<1>1. Good(sched) => NoStaleTimeout
  BY DEF Good, Sound, NoStaleTimeout
<1> QED BY <1>1, GoodAlways, PTL

-----------------------------------------------------------------------------
(* What the entry points do to the slots of the other tasks.               *)

(* The CPU changes hands from s to d: tasks that are ready or running stay *)
(* so, with the answer a ready one has, and no other slot is touched.      *)
Hands(s, d) ==
  \A q \in User :
    IF s.task[q].state \in {"ready", "running"}
    THEN /\ d.task[q].state \in {"ready", "running"}
         /\ s.task[q].state = "ready" => d.task[q].rax = s.task[q].rax
    ELSE d.task[q] = s.task[q]

LEMMA DispatchHands ==
  ASSUME NEW s, Typed(s), NEW pid \in User, s.task[pid].state = "ready"
  PROVE  Hands(s, dispatch(s, pid))
<1> DEFINE h == Cpu(s, pid, s.running, 0)
           t == [s.task[pid] EXCEPT !.state = "running"]
           d == dispatch(s, pid)
<1>1. /\ pid \in Pid /\ s.task[pid] \in Task
      /\ s.running \in BOOLEAN /\ 0 \in 0 .. Quantum
  BY TaskFields, Constants, SchedulerConstants
<1>2. Typed(h) /\ h.task = s.task
  BY <1>1, CpuFacts
<1>3. t \in Task /\ t.state = "running" /\ t.rax = s.task[pid].rax
  BY <1>1 DEF Task, TaskState
<1>4. d = Put(h, pid, t)
  BY <1>2 DEF dispatch, SetState
<1> HIDE DEF h, d, t
<1>5. \A q \in Pid : d.task[q] = IF q = pid THEN t ELSE s.task[q]
  BY <1>1, <1>2, <1>3, <1>4 DEF Put, Typed
<1> QED BY <1>3, <1>5, Constants DEF Hands, d

LEMMA ReturnIdleHands ==
  ASSUME NEW s, Typed(s)
  PROVE  Hands(s, return_idle(s))
<1>1. \A q \in User : return_idle(s).task[q] = s.task[q]
  BY Constants DEF return_idle, SetState, Put, Cpu, Typed
<1> QED BY <1>1 DEF Hands

LEMMA DispatchNextHands ==
  ASSUME NEW s, Typed(s), NEW after \in Pid
  PROVE  Hands(s, DispatchNext(s, next_ready(s, after)))
<1>1. CASE next_ready(s, after) = 0
  BY <1>1, ReturnIdleHands DEF DispatchNext
<1>2. CASE next_ready(s, after) # 0
  BY <1>2, NextReady, DispatchHands DEF DispatchNext
<1> QED BY <1>1, <1>2

LEMMA RescheduleHands ==
  ASSUME NEW s, Typed(s), s.current \in User
  PROVE  Hands(s, reschedule(s))
<1> DEFINE me == s.current
           t  == [s.task[me] EXCEPT !.state = "ready", !.rax = NoWord]
           m  == Suspend(s)
<1>1. me \in Pid /\ s.task[me] \in Task
  BY TaskFields, Constants
<1>2. /\ Typed(m)
      /\ \A q \in User : \/ m.task[q] = s.task[q]
                         \/ s.task[q].state = "running" /\ m.task[q].state = "ready"
  <2>1. CASE s.task[me].state # "running"
    BY <2>1 DEF Suspend
  <2>2. CASE s.task[me].state = "running"
    <3>1. m = Put(s, me, t)
      BY <2>2 DEF Suspend
    <3>2. t \in Task /\ t.state = "ready"
      BY <1>1 DEF Task, TaskState, Word, NoWord
    <3> HIDE DEF t, m
    <3>3. Typed(m) /\ \A q \in Pid : m.task[q] = IF q = me THEN t ELSE s.task[q]
      BY <1>1, <3>1, <3>2 DEF Put, Typed
    <3> QED BY <2>2, <3>2, <3>3, Constants
  <2> QED BY <2>1, <2>2
<1> DEFINE d == DispatchNext(m, next_ready(m, me))
<1>3. reschedule(s) = d
  BY DEF reschedule
<1> HIDE DEF m
<1>4. Hands(m, d)
  BY <1>1, <1>2, DispatchNextHands
<1> HIDE DEF d
<1>5. Hands(s, d)
  BY <1>2, <1>4 DEF Hands
<1> QED BY <1>3, <1>5

LEMMA StartHands ==
  ASSUME NEW s, Good(s)
  PROVE  Hands(s, scheduler_start_users(s))
<1> DEFINE h == SetState(Cpu(s, 0, TRUE, s.slice), 0, "ready")
           first == next_ready(s, 0)
           d == dispatch(h, first)
<1>1. CASE s.running \/ first = 0
  BY <1>1 DEF scheduler_start_users, Hands
<1>2. CASE ~s.running /\ first # 0
  <2>1. Typed(s) /\ s.task[0] \in Task /\ s.slice \in 0 .. Quantum
    BY TaskFields, Constants DEF Good
  <2>2. first \in User /\ s.task[first].state = "ready"
    BY <1>2, <2>1, Constants, NextReady
  <2>3. scheduler_start_users(s) = d
    BY <1>2 DEF scheduler_start_users
  <2>4. Typed(h) /\ \A q \in User : h.task[q] = s.task[q]
    <3>1. [s.task[0] EXCEPT !.state = "ready"] \in Task
      BY <2>1 DEF Task, TaskState
    <3> QED BY <2>1, <3>1, Constants DEF SetState, Put, Cpu, Typed
  <2> HIDE DEF h, first
  <2>5. Hands(h, d)
    BY <2>2, <2>4, DispatchHands
  <2> HIDE DEF d
  <2> QED BY <2>3, <2>4, <2>5 DEF Hands
<1> QED BY <1>1, <1>2

LEMMA ChargeHands ==
  ASSUME NEW s, Good(s)
  PROVE  Hands(s, ChargeSlice(s))
<1>1. CASE ~s.running \/ s.current = 0
  BY <1>1 DEF ChargeSlice, Hands
<1>2. CASE s.running /\ s.current # 0 /\ s.slice + 1 < Quantum
  <2>1. Cpu(s, s.current, s.running, s.slice + 1).task = s.task
    BY DEF Cpu, Typed, Good
  <2> QED BY <1>2, <2>1 DEF ChargeSlice, Hands
<1>3. CASE s.running /\ s.current # 0 /\ ~(s.slice + 1 < Quantum)
  BY <1>3, GoodHandover, RescheduleHands DEF ChargeSlice, Handover
<1> QED BY <1>1, <1>2, <1>3

LEMMA YieldHands ==
  ASSUME NEW s, Good(s)
  PROVE  Hands(s, scheduler_on_yield(s))
<1>1. CASE ~s.running \/ s.current = 0
  BY <1>1 DEF scheduler_on_yield, Hands
<1>2. CASE s.running /\ s.current # 0
  BY <1>2, GoodHandover, RescheduleHands DEF scheduler_on_yield, Handover
<1> QED BY <1>1, <1>2

(* The exit of pid changes no other slot but that of a parent blocked on   *)
(* it, which is answered while the slot of pid is freed.                   *)
Ends(s, d, pid) ==
  /\ d.task[pid].state \in {"exited", "unused"}
  /\ \A q \in User : q # pid =>
       \/ d.task[q] = s.task[q]
       \/ /\ s.task[q].state = "blocked" /\ s.task[q].rax = InWait /\ s.task[q].waiting_for = pid
          /\ d.task[q].state = "ready" /\ d.task[q].rax = GotChild
          /\ d.task[pid].state = "unused"

LEMMA ExitEnds ==
  ASSUME NEW s, Typed(s), Sound(s), NEW pid \in User
  PROVE  Ends(s, wake_waiting_parent(MarkExited(s, pid), pid), pid)
<1> DEFINE t == [s.task[pid] EXCEPT !.state = "exited", !.rax = NoWord]
           m == MarkExited(s, pid)
           d == wake_waiting_parent(m, pid)
           p == s.task[pid].parent
<1>1. pid \in Pid /\ s.task[pid] \in Task /\ p \in Pid
  BY TaskFields, Constants DEF Task
<1>2. t \in Task /\ t.state = "exited" /\ t.parent = p
  BY <1>1 DEF Task, TaskState, Word, NoWord
<1> HIDE DEF t, p
<1>3. m = Put(s, pid, t)
  BY DEF MarkExited, t
<1> HIDE DEF m
<1>4. Typed(m) /\ \A q \in Pid : m.task[q] = IF q = pid THEN t ELSE s.task[q]
  BY <1>1, <1>2, <1>3 DEF Put, Typed
<1>5. CASE ~ParentAwaits(m, pid)
  <2>1. d = m
    BY <1>5 DEF wake_waiting_parent
  <2>2. Ends(s, m, pid)
    BY <1>1, <1>2, <1>4, Constants DEF Ends
  <2> QED BY <2>1, <2>2 DEF m
<1>6. CASE ParentAwaits(m, pid)
  <2> DEFINE u == [m.task[p] EXCEPT !.rax = GotChild, !.waiting_for = WaitNone, !.state = "ready"]
             a == AnswerParent(m, p)
  <2>1. m.task[pid].parent = p
    BY <1>1, <1>2, <1>4
  <2>2. /\ p # 0 /\ m.task[p].state = "blocked"
        /\ m.task[p].waiting_for # WaitNone /\ m.task[p].waiting_for \in {0, pid}
    BY <1>6, <2>1 DEF ParentAwaits
  <2>3. p \in User /\ p # pid /\ m.task[p] = s.task[p]
    BY <1>1, <1>2, <1>4, <2>2, Constants
  <2>4. s.task[p].rax = InWait /\ s.task[p].waiting_for = pid
    <3>1. s.task[p].rax = InWait
      BY <2>2, <2>3 DEF Sound, CallsDisjoint, Blocked
    <3>2. s.task[p].waiting_for \in User
      BY <2>2, <2>3, <3>1 DEF Sound, AwaitsLiveChild, Blocked
    <3> QED BY <2>2, <2>3, <3>1, <3>2, Constants
  <2>5. m.task[p] \in Task
    BY <1>4, <2>3, Constants DEF Typed
  <2>6. u \in Task /\ u.state = "ready" /\ u.rax = GotChild
    <3>1. GotChild \in Word /\ "ready" \in TaskState
      BY DEF Word, TaskState
    <3> QED BY <2>5, <3>1, Constants DEF Task
  <2> HIDE DEF u
  <2>7. a = Put(m, p, u)
    BY DEF AnswerParent, u
  <2> HIDE DEF a
  <2>8. Typed(a) /\ \A q \in Pid : a.task[q] = IF q = p THEN u ELSE m.task[q]
    BY <1>4, <2>3, <2>6, <2>7, Constants DEF Put, Typed
  <2>9. d = Put(a, pid, FreeTask)
    BY <1>6, <2>1 DEF wake_waiting_parent, a
  <2> HIDE DEF d
  <2>10. \A q \in Pid : d.task[q] = IF q = pid THEN FreeTask ELSE a.task[q]
    BY <1>1, <2>8, <2>9, Constants DEF Put, Typed
  <2>11. d.task[pid] = FreeTask
    BY <1>1, <2>10
  <2>12. ASSUME NEW q \in User, q # pid, d.task[q] # s.task[q]
         PROVE  q = p
    BY <1>4, <2>8, <2>10, <2>12, Constants
  <2>13. d.task[p] = u
    BY <2>3, <2>8, <2>10, Constants
  <2>14. Ends(s, d, pid)
    BY <2>2, <2>3, <2>4, <2>6, <2>11, <2>12, <2>13, Constants DEF Ends
  <2> QED BY <2>14 DEF d, m
<1> QED BY <1>5, <1>6

(* scheduler_on_exit: the end of the caller, then the next task.           *)
LEMMA ExitHands ==
  ASSUME NEW s, Good(s), s.current # 0
  PROVE  LET m == wake_waiting_parent(MarkExited(s, s.current), s.current)
         IN  /\ Ends(s, m, s.current)
             /\ Hands(m, scheduler_on_exit(s))
<1> DEFINE me == s.current
           m == wake_waiting_parent(MarkExited(s, me), me)
<1>1. Typed(s) /\ Sound(s) /\ me \in User /\ me \in Pid /\ s.running
  BY TaskFields, Constants DEF Good, CpuAccounted
<1>2. scheduler_on_exit(s) = DispatchNext(m, next_ready(m, me))
  BY <1>1, Constants DEF scheduler_on_exit
<1> HIDE DEF me
<1>3. Ends(s, m, me)
  BY <1>1, ExitEnds
<1>4. Typed(m)
  BY <1>1, ExitFacts
<1> HIDE DEF m
<1>5. Hands(m, DispatchNext(m, next_ready(m, me)))
  BY <1>1, <1>4, DispatchNextHands
<1> QED BY <1>2, <1>3, <1>5 DEF m, me

(* A call that blocks: the caller's slot, then the next task.              *)
LEMMA BlockHands ==
  ASSUME NEW s, Good(s), s.current # 0, NEW t \in Task, t.state = "blocked"
  PROVE  LET d == reschedule(Put(s, s.current, t))
         IN  /\ d.task[s.current] = t
             /\ \A q \in User : q # s.current =>
                  IF s.task[q].state \in {"ready", "running"}
                  THEN /\ d.task[q].state \in {"ready", "running"}
                       /\ s.task[q].state = "ready" => d.task[q].rax = s.task[q].rax
                  ELSE d.task[q] = s.task[q]
<1> DEFINE me == s.current
           m == Put(s, me, t)
           d == reschedule(m)
<1>1. Typed(s) /\ me \in User /\ me \in Pid
  BY TaskFields, Constants DEF Good
<1> HIDE DEF me
<1>2. Typed(m) /\ m.current = s.current /\ \A q \in Pid : m.task[q] = IF q = me THEN t ELSE s.task[q]
  BY <1>1, PutFacts
<1> HIDE DEF m
<1>3. Hands(m, d)
  BY <1>1, <1>2, RescheduleHands DEF me
<1> HIDE DEF d
<1>4. m.task[me] = t /\ \A q \in User : q # me => m.task[q] = s.task[q]
  BY <1>1, <1>2, Constants
<1>5. d.task[me] = t
  BY <1>1, <1>3, <1>4 DEF Hands
<1>6. ASSUME NEW q \in User, q # me
      PROVE  IF s.task[q].state \in {"ready", "running"}
             THEN /\ d.task[q].state \in {"ready", "running"}
                  /\ s.task[q].state = "ready" => d.task[q].rax = s.task[q].rax
             ELSE d.task[q] = s.task[q]
  BY <1>3, <1>4, <1>6 DEF Hands
<1> QED BY <1>5, <1>6 DEF d, m, me

(* The timeouts of a tick.                                                 *)
LEMMA ExpireFacts ==
  ASSUME NEW s, Good(s), NEW p \in User
  PROVE  LET t == ExpireTimeouts(s).task[p]
         IN  IF p \in Expiring(s)
             THEN /\ t.state = "ready" /\ t.rax = GotTime
                  /\ s.task[p].state = "blocked" /\ s.task[p].timed
             ELSE t.state = s.task[p].state /\ t.rax = s.task[p].rax
                  /\ (t.timed <=> s.task[p].timed)
<1>1. p \in Pid /\ s.task[p] \in Task
  BY TaskFields, Constants DEF Good
<1>2. ExpireTimeouts(s).task[p] = TickTask(s, p)
  BY <1>1 DEF ExpireTimeouts, Good, Typed
<1>3. CASE p \in Expiring(s)
  <2>1. s.task[p].state = "blocked" /\ s.task[p].timed
    BY <1>3 DEF Expiring
  <2>2. TickTask(s, p) = [s.task[p] EXCEPT !.rax = GotTime, !.timed = FALSE, !.delay = 0,
                            !.waiting_for = WaitNone, !.state = "ready"]
    BY <1>3 DEF TickTask
  <2>3. TickTask(s, p).state = "ready" /\ TickTask(s, p).rax = GotTime
    BY <1>1, <2>2 DEF Task
  <2> QED BY <1>2, <1>3, <2>1, <2>3
<1>4. CASE p \notin Expiring(s)
  <2>1. CASE s.task[p].state = "blocked" /\ s.task[p].timed
    <3>1. TickTask(s, p) = [s.task[p] EXCEPT !.delay = s.task[p].delay - 1]
      BY <1>4, <2>1 DEF TickTask
    <3>2. TickTask(s, p).state = s.task[p].state /\ TickTask(s, p).rax = s.task[p].rax
          /\ TickTask(s, p).timed = s.task[p].timed
      BY <1>1, <3>1 DEF Task
    <3> QED BY <1>2, <1>4, <3>2
  <2>2. CASE ~(s.task[p].state = "blocked" /\ s.task[p].timed)
    BY <1>2, <1>4, <2>2 DEF TickTask
  <2> QED BY <2>1, <2>2
<1> QED BY <1>3, <1>4

(* A wake-up stores its result and disarms the timeout.                    *)
LEMMA WakeFacts ==
  ASSUME NEW s, Good(s), NEW pid, NEW result \in Results
  PROVE  LET d == scheduler_wake(s, pid, result)
         IN  /\ CanWake(s, pid) => /\ d.task[pid].state = "ready" /\ d.task[pid].rax = result
                                   /\ ~d.task[pid].timed
             /\ \A q \in Pid : q # pid \/ ~CanWake(s, pid) => d.task[q] = s.task[q]
             /\ d.current = s.current
<1> DEFINE t == [s.task[pid] EXCEPT !.rax = result, !.timed = FALSE, !.delay = 0,
                                    !.waiting_for = WaitNone, !.state = "ready"]
<1>1. CASE ~CanWake(s, pid)
  BY <1>1 DEF scheduler_wake
<1>2. CASE CanWake(s, pid)
  <2>1. pid \in Pid /\ s.task[pid] \in Task /\ Typed(s)
    BY <1>2, TaskFields, Constants DEF Good, CanWake
  <2>2. t \in Task /\ t.state = "ready" /\ t.rax = result
    <3>1. result \in Word /\ "ready" \in TaskState /\ 0 \in 0 .. MaxDelay
      BY SchedulerConstants DEF Word, TaskState
    <3> QED BY <2>1, <3>1, Constants DEF Task
  <2>3. ~t.timed
    BY <2>1 DEF Task
  <2>4. scheduler_wake(s, pid, result) = Put(s, pid, t)
    BY <1>2 DEF scheduler_wake
  <2> HIDE DEF t
  <2>5. /\ \A q \in Pid : Put(s, pid, t).task[q] = IF q = pid THEN t ELSE s.task[q]
        /\ Put(s, pid, t).current = s.current
    BY <2>1, <2>2, PutFacts
  <2> QED BY <1>2, <2>1, <2>2, <2>3, <2>4, <2>5
<1> QED BY <1>1, <1>2

-----------------------------------------------------------------------------
(* The end of a blocked call.                                              *)

Resumes(s, d) ==
  \A p \in User :
    (s.task[p].state = "blocked" /\ d.task[p].state \in {"ready", "running"}) =>
       IF s.task[p].rax = InWait
       THEN /\ d.task[p].rax = GotChild
            /\ d.task[s.task[p].waiting_for].state = "unused"
       ELSE \/ d.task[p].rax \in Results
            \/ d.task[p].rax = GotTime /\ s.task[p].timed

(* Slots of blocked tasks that are not touched end no call.                *)
LEMMA UntouchedResume ==
  ASSUME NEW s, NEW d, \A q \in User : s.task[q].state = "blocked" => d.task[q] = s.task[q]
  PROVE  Resumes(s, d)
BY DEF Resumes

LEMMA FreedResume ==
  ASSUME NEW s, Good(s), NEW p \in User, s.task[p].state \in {"unused", "exited"}, NEW t \in Task
  PROVE  Resumes(s, Put(s, p, t))
<1>1. \A q \in Pid : Put(s, p, t).task[q] = IF q = p THEN t ELSE s.task[q]
  BY PutFacts, Constants DEF Good
<1> QED BY <1>1, UntouchedResume, Constants

LEMMA EndResumes ==
  ASSUME NEW s, Good(s), NEW pid \in User, NEW m, Ends(s, m, pid), NEW d, Hands(m, d)
  PROVE  Resumes(s, d)
<1> SUFFICES ASSUME NEW p \in User, s.task[p].state = "blocked",
                    d.task[p].state \in {"ready", "running"}
             PROVE  /\ s.task[p].rax = InWait
                    /\ d.task[p].rax = GotChild
                    /\ d.task[s.task[p].waiting_for].state = "unused"
  BY DEF Resumes
<1>1. m.task[p].state # "blocked" /\ m.task[p].state \notin {"exited", "unused"}
  BY DEF Hands
<1>2. p # pid
  BY <1>1 DEF Ends
<1>3. /\ s.task[p].rax = InWait /\ s.task[p].waiting_for = pid
      /\ m.task[p].state = "ready" /\ m.task[p].rax = GotChild
      /\ m.task[pid].state = "unused"
  BY <1>1, <1>2 DEF Ends
<1>4. d.task[p].rax = GotChild /\ d.task[pid].state = "unused"
  BY <1>3 DEF Hands
<1> QED BY <1>3, <1>4

LEMMA TickResumes ==
  ASSUME NEW s, Good(s)
  PROVE  Resumes(s, scheduler_on_timer_tick(s))
<1> DEFINE m == ExpireTimeouts(s)
           d == ChargeSlice(m)
<1>1. scheduler_on_timer_tick(s) = d
  BY DEF scheduler_on_timer_tick
<1>2. \A p \in User :
        IF p \in Expiring(s)
        THEN /\ m.task[p].state = "ready" /\ m.task[p].rax = GotTime
             /\ s.task[p].state = "blocked" /\ s.task[p].timed
        ELSE m.task[p].state = s.task[p].state /\ m.task[p].rax = s.task[p].rax
  BY ExpireFacts
<1>3. Good(m)
  BY ExpireGood
<1> HIDE DEF m
<1>4. Hands(m, d)
  BY <1>3, ChargeHands
<1> HIDE DEF d
<1>5. ASSUME NEW p \in User, s.task[p].state = "blocked", d.task[p].state \in {"ready", "running"}
      PROVE  /\ s.task[p].rax # InWait
             /\ d.task[p].rax = GotTime /\ s.task[p].timed
  <2>1. p \in Expiring(s)
    BY <1>2, <1>4, <1>5 DEF Hands
  <2>2. s.task[p].timed /\ d.task[p].rax = GotTime
    BY <1>2, <1>4, <2>1 DEF Hands
  <2>3. s.task[p].rax = InBlock
    BY <1>5, <2>2 DEF Good, Sound, CallsDisjoint, Blocked
  <2> QED BY <2>2, <2>3 DEF InBlock, InWait
<1> QED BY <1>1, <1>5 DEF Resumes

LEMMA WaitResumes ==
  ASSUME NEW s, Good(s), s.current # 0, NEW child \in 0 .. ProcessLimit
  PROVE  Resumes(s, scheduler_on_wait(s, child))
<1> DEFINE me == s.current
           r == scheduler_reap(s, me, child)
           t == [s.task[me] EXCEPT !.state = "blocked", !.waiting_for = child, !.rax = InWait]
           d == scheduler_on_wait(s, child)
<1>1. /\ me \in User /\ me \in Pid /\ s.task[me] \in Task /\ Typed(s)
      /\ s.task[me].state = "running"
  BY Constants, TaskFields DEF Good, CpuAccounted
<1>2. CASE CanReap(s, me, child)
  <2>1. d = Answer(Put(s, child, FreeTask), me, GotChild)
    BY <1>2 DEF scheduler_on_wait, scheduler_reap
  <2>2. child \in User /\ s.task[child].state = "exited"
    BY <1>2 DEF CanReap
  <2>3. \A q \in User : q # me /\ q # child => d.task[q] = s.task[q]
    BY <1>1, <2>1, <2>2, Constants DEF Answer, Put, Typed
  <2> HIDE DEF d
  <2> QED BY <1>1, <2>2, <2>3, UntouchedResume DEF d
<1>3. CASE /\ ~CanReap(s, me, child)
           /\ \/ child \notin Pid
              \/ s.task[child].parent # me
              \/ s.task[child].state = "unused"
  <2>1. d = Answer(s, me, GotError)
    BY <1>3 DEF scheduler_on_wait
  <2>2. \A q \in User : q # me => d.task[q] = s.task[q]
    BY <1>1, <2>1, Constants DEF Answer, Put, Typed
  <2> HIDE DEF d
  <2> QED BY <1>1, <2>2, UntouchedResume DEF d
<1>4. CASE /\ ~CanReap(s, me, child)
           /\ child \in Pid
           /\ s.task[child].parent = me
           /\ s.task[child].state # "unused"
  <2>1. d = reschedule(Put(s, me, t))
    BY <1>4 DEF scheduler_on_wait
  <2>2. t \in Task /\ t.state = "blocked"
    <3>1. InWait \in Word /\ "blocked" \in TaskState
      BY DEF Word, TaskState
    <3> QED BY <1>1, <3>1 DEF Task
  <2> HIDE DEF t
  <2>3. \A q \in User : q # me =>
          IF s.task[q].state \in {"ready", "running"}
          THEN d.task[q].state \in {"ready", "running"} ELSE d.task[q] = s.task[q]
    BY <2>1, <2>2, BlockHands
  <2> HIDE DEF d
  <2> QED BY <1>1, <2>3, UntouchedResume DEF d
<1> QED BY <1>2, <1>3, <1>4

LEMMA SleepResumes ==
  ASSUME NEW s, Good(s), s.current # 0, NEW delay \in 0 .. MaxDelay
  PROVE  /\ Resumes(s, scheduler_block_current(s))
         /\ Resumes(s, scheduler_block_current_timeout(s, delay))
<1> DEFINE me == s.current
<1>1. /\ me \in User /\ s.task[me] \in Task /\ s.running /\ s.task[me].state = "running"
  BY Constants, TaskFields DEF Good, CpuAccounted
<1>2. ASSUME NEW t \in Task, t.state = "blocked"
      PROVE  Resumes(s, reschedule(Put(s, me, t)))
  <2> DEFINE d == reschedule(Put(s, me, t))
  <2>1. \A q \in User : q # me =>
          IF s.task[q].state \in {"ready", "running"}
          THEN d.task[q].state \in {"ready", "running"} ELSE d.task[q] = s.task[q]
    BY <1>2, BlockHands
  <2> HIDE DEF d
  <2> QED BY <1>1, <2>1, UntouchedResume DEF d
<1>3. /\ InBlock \in Word /\ "blocked" \in TaskState
  BY DEF Word, TaskState
<1>4. Resumes(s, scheduler_block_current(s))
  <2> DEFINE t == [s.task[me] EXCEPT !.state = "blocked", !.waiting_for = WaitNone, !.rax = InBlock]
  <2>1. t \in Task /\ t.state = "blocked"
    BY <1>1, <1>3, Constants DEF Task
  <2>2. scheduler_block_current(s) = reschedule(Put(s, me, t))
    BY <1>1 DEF scheduler_block_current
  <2> HIDE DEF t
  <2> QED BY <1>2, <2>1, <2>2
<1>5. CASE delay = 0
  BY <1>4, <1>5 DEF scheduler_block_current_timeout
<1>6. CASE delay # 0
  <2> DEFINE t == [s.task[me] EXCEPT !.state = "blocked", !.waiting_for = WaitNone,
                                     !.timed = TRUE, !.delay = delay, !.rax = InBlock]
  <2>1. t \in Task /\ t.state = "blocked"
    BY <1>1, <1>3, Constants DEF Task
  <2>2. scheduler_block_current_timeout(s, delay) = reschedule(Put(s, me, t))
    BY <1>1, <1>6 DEF scheduler_block_current_timeout
  <2> HIDE DEF t
  <2> QED BY <1>2, <1>4, <2>1, <2>2
<1> QED BY <1>4, <1>5, <1>6

LEMMA NextResumes ==
  ASSUME Good(sched), Next
  PROVE  Resumes(sched, sched')
<1>0. Typed(sched) /\ sched.current \in Pid
  BY TaskFields DEF Good
<1>1. CASE Create
  <2>1. CASE FirstUnused(sched) = 0
    BY <1>1, <2>1, UntouchedResume DEF Create, scheduler_create_user
  <2>2. CASE FirstUnused(sched) # 0
    <3>1. FirstUnused(sched) \in User /\ sched.task[FirstUnused(sched)].state = "unused"
      BY <1>0, <2>2, FirstUnusedSlot
    <3>2. NewTask(sched.current) \in Task
      BY <1>0, Constants, MakeTaskFacts DEF NewTask, TaskState
    <3> QED BY <1>1, <2>2, <3>1, <3>2, FreedResume DEF Create, scheduler_create_user
  <2> QED BY <2>1, <2>2
<1>2. CASE Start
  BY <1>2, StartHands, UntouchedResume DEF Start, Hands
<1>3. CASE Tick
  BY <1>3, TickResumes DEF Tick
<1>4. CASE Yield
  BY <1>4, YieldHands, UntouchedResume DEF Yield, Hands
<1>5. CASE Exit
  <2>1. sched.current # 0 /\ sched.current \in User
    BY <1>0, <1>5, Constants DEF Exit, InUser
  <2> QED BY <1>5, <2>1, ExitHands, EndResumes DEF Exit
<1>6. CASE Wait
  BY <1>6, WaitResumes DEF Wait, InUser
<1>7. CASE Block
  <2>1. 0 \in 0 .. MaxDelay
    BY SchedulerConstants
  <2> QED BY <1>7, <2>1, SleepResumes DEF Block, InUser
<1>8. CASE BlockTimeout
  BY <1>8, SleepResumes DEF BlockTimeout, InUser
<1>9. CASE Wake
  <2>1. PICK pid \in User, result \in Results :
          sched.task[pid].rax = InBlock /\ sched' = scheduler_wake(sched, pid, result)
    BY <1>9 DEF Wake
  <2>2. /\ CanWake(sched, pid) => sched'.task[pid].rax = result
        /\ \A q \in User : q # pid \/ ~CanWake(sched, pid) => sched'.task[q] = sched.task[q]
    BY <2>1, WakeFacts, Constants
  <2>3. InBlock # InWait
    BY DEF InBlock, InWait
  <2> QED BY <2>1, <2>2, <2>3 DEF Resumes
<1>10. CASE Terminate
  <2>1. PICK pid \in Pid : sched' = scheduler_terminate(sched, pid)
    BY <1>10 DEF Terminate
  <2>2. CASE ~CanTerminate(sched, pid)
    BY <2>1, <2>2, UntouchedResume DEF scheduler_terminate
  <2>3. CASE CanTerminate(sched, pid)
    <3>1. pid \in User /\ Sound(sched)
      BY <2>3 DEF CanTerminate, Good
    <3>2. Ends(sched, sched', pid)
      BY <1>0, <2>1, <2>3, <3>1, ExitEnds DEF scheduler_terminate
    <3>3. Hands(sched', sched')
      BY DEF Hands
    <3> QED BY <3>1, <3>2, <3>3, EndResumes
  <2> QED BY <2>2, <2>3
<1>11. ASSUME NEW parent, NEW child, sched' = scheduler_reap(sched, parent, child)
       PROVE  Resumes(sched, sched')
  <2>1. CASE ~CanReap(sched, parent, child)
    BY <1>11, <2>1, UntouchedResume DEF scheduler_reap
  <2>2. CASE CanReap(sched, parent, child)
    BY <1>11, <2>2, FreedResume, Constants DEF scheduler_reap, CanReap
  <2> QED BY <2>1, <2>2
<1>12. CASE Reap
  BY <1>11, <1>12 DEF Reap
<1>13. CASE ReapExited
  BY <1>11, <1>13, UntouchedResume DEF ReapExited, scheduler_reap_exited
<1> QED BY <1>1, <1>2, <1>3, <1>4, <1>5, <1>6, <1>7, <1>8, <1>9, <1>10, <1>12, <1>13 DEF Next

(* A sleeper is resumed by nothing but the event its call waits for: the   *)
(* exit of the awaited child, which frees the child's slot in the same     *)
(* step, a wake-up, or a timeout that the sleeper itself armed.            *)
THEOREM AnswersComeFromTheCall == Spec => ResumedWithItsAnswer
<1>1. Good(sched) /\ [Next]_sched =>
        [\A p \in User :
           (sched.task[p].state = "blocked" /\ sched'.task[p].state \in {"ready", "running"}) =>
              IF sched.task[p].rax = InWait
              THEN /\ sched'.task[p].rax = GotChild
                   /\ sched'.task[sched.task[p].waiting_for].state = "unused"
              ELSE \/ sched'.task[p].rax \in Results
                   \/ sched'.task[p].rax = GotTime /\ sched.task[p].timed]_sched
  <2> SUFFICES ASSUME Good(sched), Next PROVE Resumes(sched, sched')
    BY DEF Resumes
  <2> QED BY NextResumes
<1> QED BY <1>1, GoodAlways, PTL DEF Spec, ResumedWithItsAnswer
=============================================================================
