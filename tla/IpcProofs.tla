------------------------------ MODULE IpcProofs ------------------------------
(***************************************************************************)
(* Proofs about the channels, the input queue and the sleepers of Ipc, for *)
(* any number of processes, channels and messages.                         *)
(*                                                                         *)
(* Wired(k, {}) is the inductive invariant of the tables: it holds for     *)
(* every program.  Clear(k) adds that receivers wait on empty queues,      *)
(* which needs buffers that hold every message (LengthsFit), and           *)
(* Registered(k) that every sleeper is registered, which also needs        *)
(* buffers the kernel can write from any process (BuffersFit): a delivery  *)
(* that fails forgets its receiver.                                        *)
(*                                                                         *)
(* A step does one of a few things to each channel (Step), and it either   *)
(* ends the calls of some processes and leaves the others alone (Removal)  *)
(* or puts the caller to sleep (Falls).  The invariants follow from these  *)
(* three facts about each system call.                                     *)
(***************************************************************************)
EXTENDS Ipc, SchedulerProofs

(* Every receiver offers room for every message that is sent.              *)
LengthsFit == \A length \in Lengths, capacity \in Capacities : length <= capacity

(* And every buffer lies in the range that is mapped for every process.    *)
BuffersFit == LengthsFit /\ Places \subseteq {"heap"}

-----------------------------------------------------------------------------
(* The tables.                                                             *)

Kernel == [s     : [task : [Pid -> Task], current : Pid, running : BOOLEAN,
                    slice : 0 .. Quantum],
           ch    : [Chan -> Channel],
           in    : [q : Seq(Event), waiter : InputWaiter],
           caps  : [User -> SUBSET Handle],
           taken : [Chan -> Message \cup {NoMessage}]]

(* What is really sent.                                                    *)
Sent == [sender : User, length : Lengths]

ChannelSound(a) ==
  /\ a \in Channel
  /\ ~a.active => a = NoChannel
  /\ a.active => a.owner \in User
  /\ a.q \in Seq(Sent) /\ Len(a.q) <= QueueDepth
  /\ a.waiter.active => a.waiter.pid = a.owner
  /\ a.sender.active => Len(a.q) = QueueDepth /\ a.sender.msg \in Sent

InputSound(in) ==
  /\ Len(in.q) <= InputCapacity
  /\ in.waiter.active => in.q = <<>> /\ in.waiter.pid \in User

(* A handle to receive belongs to the owner of its channel.                *)
HandlesSound(k) ==
  \A p \in User : \A h \in k.caps[p] :
    h.right = "receive" =>
      k.ch[h.chan].active /\ k.ch[h.chan].owner = p /\ k.ch[h.chan].name = h.name

OwnersLive(k, X) ==
  \A c \in Chan : (k.ch[c].active /\ k.ch[c].owner \notin X) =>
    k.s.task[k.ch[c].owner].state # "unused"

(* X: the process that is being cleaned up, if any.                        *)
Wired(k, X) ==
  /\ k \in Kernel
  /\ Good(k.s)
  /\ \A c \in Chan : ChannelSound(k.ch[c])
  /\ InputSound(k.in)
  /\ HandlesSound(k)
  /\ OwnersLive(k, X)

Clear(k) == \A c \in Chan : k.ch[c].waiter.active => k.ch[c].q = <<>>

-----------------------------------------------------------------------------
(* The sleepers.                                                           *)

Sleeps(s, p) == s.task[p].state = "blocked" /\ s.task[p].rax = InBlock

Receives(k, p, c) == k.ch[c].waiter.active /\ k.ch[c].waiter.pid = p
Sends(k, p, c) == k.ch[c].sender.active /\ k.ch[c].sender.msg.sender = p
Attends(k, p, c) == Receives(k, p, c) \/ Sends(k, p, c)
Listens(k, p) == k.in.waiter.active /\ k.in.waiter.pid = p
Selects(k, p) == \E c \in Chan : Receives(k, p, c) /\ k.ch[c].waiter.multiplex
Present(k, p) == Listens(k, p) \/ \E c \in Chan : Attends(k, p, c)

Answerable(k, p) ==
  /\ Sleeps(k.s, p) => /\ \E c \in Chan : Attends(k, p, c)
                       /\ Selects(k, p) => Listens(k, p)
                       /\ k.s.task[p].timed => Selects(k, p)
  /\ Present(k, p) => Sleeps(k.s, p) \/ k.s.task[p].state = "exited"
  /\ \A c, d \in Chan : Attends(k, p, c) /\ Attends(k, p, d) => c = d
  /\ \A c, d \in Chan : ~(Receives(k, p, c) /\ Sends(k, p, d))
  /\ Listens(k, p) => Selects(k, p)

Registered(k) == \A p \in User : Answerable(k, p)

(* Every registered buffer can be written, and holds every message.        *)
Fitting(k) ==
  /\ \A c \in Chan : k.ch[c].waiter.active =>
       /\ k.ch[c].waiter.place = "heap"
       /\ \A length \in Lengths : length <= k.ch[c].waiter.capacity
  /\ k.in.waiter.active => k.in.waiter.place = "heap"

-----------------------------------------------------------------------------
(* What a step does to a channel a, its last message taken being t: the    *)
(* channel is then b, the message u.                                       *)

Forgets(a, b) == b = [a EXCEPT !.waiter = NoWaiter]

Queues(a, b, m) == /\ ~a.waiter.active /\ Len(a.q) < QueueDepth
                   /\ b = [a EXCEPT !.q = Append(a.q, m)]

Parks(a, b, m) == /\ ~a.waiter.active /\ ~a.sender.active /\ Len(a.q) = QueueDepth
                  /\ b = [a EXCEPT !.sender = [active |-> TRUE, msg |-> m]]

Takes(a, b) ==
  /\ a.q # <<>>
  /\ IF a.sender.active
     THEN b = [a EXCEPT !.q = Append(Tail(a.q), a.sender.msg), !.sender = NoSender]
     ELSE b = [a EXCEPT !.q = Tail(a.q)]

Waits(a, b, w) == /\ w.active /\ w.pid = a.owner
                  /\ a.q # <<>> => Head(a.q).length > w.capacity
                  /\ w.capacity \in Capacities \cup {MessageMax}
                  /\ b = [a EXCEPT !.waiter = w]

Opens(a, b, owner, name) ==
  /\ ~a.active
  /\ b = [NoChannel EXCEPT !.active = TRUE, !.owner = owner, !.name = name]

Step(a, t, b, u) ==
  \/ b = a /\ u = t
  \/ a.active /\ Forgets(a, b) /\ u = t
  \/ a.active /\ a.waiter.active /\ Forgets(a, b) /\ u \in Sent
  \/ a.active /\ u = t /\ \E m \in Sent : Queues(a, b, m) \/ Parks(a, b, m)
  \/ a.active /\ Takes(a, b) /\ u = Head(a.q)
  \/ a.active /\ u = t /\ \E w \in Waiter : Waits(a, b, w)
  \/ \E pid : /\ b = ChannelWithout(a, pid)
              /\ u = IF a.active /\ a.owner = pid THEN NoMessage ELSE t
  \/ u = NoMessage /\ \E owner \in User, name \in Names : Opens(a, b, owner, name)

LEMMA Facts ==
  /\ User \subseteq Pid /\ 0 \in Pid /\ 0 \notin User
  /\ Sent \subseteq Message
  /\ NoWaiter \in Waiter /\ ~NoWaiter.active /\ NoSender \in SendWaiter /\ ~NoSender.active
  /\ NoChannel \in Channel /\ NoInputWaiter \in InputWaiter /\ ~NoInputWaiter.active
  /\ NoChannel.waiter = NoWaiter /\ NoChannel.sender = NoSender /\ ~NoChannel.active
  /\ NoChannel.q = <<>>
<1>1. User \subseteq Pid /\ 0 \in Pid /\ 0 \notin User
  BY Constants
<1>2. Sent \subseteq Message
  BY IpcConstants DEF Sent, Message
<1>3. NoWaiter \in Waiter /\ ~NoWaiter.active /\ NoSender \in SendWaiter /\ ~NoSender.active
  BY <1>1, IpcConstants DEF NoWaiter, Waiter, NoSender, SendWaiter
<1>4. NoInputWaiter \in InputWaiter /\ ~NoInputWaiter.active
  BY <1>1 DEF NoInputWaiter, InputWaiter
<1>5. /\ NoChannel \in Channel
      /\ NoChannel.waiter = NoWaiter /\ NoChannel.sender = NoSender /\ ~NoChannel.active
      /\ NoChannel.q = <<>>
  BY <1>1, <1>3 DEF NoChannel, Channel
<1> QED BY <1>1, <1>2, <1>3, <1>4, <1>5

(* A step keeps a channel's tables in order.                               *)
LEMMA StepSound ==
  ASSUME NEW a, ChannelSound(a), NEW t \in Message \cup {NoMessage},
         NEW b, NEW u, Step(a, t, b, u)
  PROVE  ChannelSound(b) /\ u \in Message \cup {NoMessage}
<1>1. /\ a \in Channel /\ a.waiter \in Waiter /\ a.sender \in SendWaiter
      /\ a.q \in Seq(Sent) /\ Len(a.q) \in Nat
      /\ QueueDepth \in Nat /\ QueueDepth > 0
  BY IpcConstants DEF ChannelSound, Channel
<1>2. CASE b = a /\ u = t
  BY <1>2
<1>3. ASSUME Forgets(a, b), a.active PROVE ChannelSound(b)
  BY <1>1, <1>3, Facts DEF Forgets, ChannelSound, Channel
<1>4. ASSUME a.active, NEW m \in Sent, Queues(a, b, m) PROVE ChannelSound(b)
  <2>1. Append(a.q, m) \in Seq(Sent) /\ Append(a.q, m) \in Seq(Message)
    BY <1>1, Facts DEF Channel
  <2>2. b \in Channel /\ b.q = Append(a.q, m) /\ b.active = a.active /\ b.owner = a.owner
        /\ b.waiter = a.waiter /\ b.sender = a.sender
    BY <1>1, <1>4, <2>1 DEF Queues, Channel
  <2> QED BY <1>1, <1>4, <2>1, <2>2 DEF Queues, ChannelSound
<1>5. ASSUME a.active, NEW m \in Sent, Parks(a, b, m) PROVE ChannelSound(b)
  <2>1. [active |-> TRUE, msg |-> m] \in SendWaiter
    BY Facts DEF SendWaiter
  <2> QED BY <1>1, <1>5, <2>1, Facts DEF Parks, ChannelSound, Channel
<1>6. ASSUME a.active, Takes(a, b) PROVE ChannelSound(b) /\ Head(a.q) \in Message
  <2>1. /\ Tail(a.q) \in Seq(Sent) /\ Len(Tail(a.q)) = Len(a.q) - 1 /\ Head(a.q) \in Sent
        /\ Seq(Sent) \subseteq Seq(Message)
    BY <1>1, <1>6, Facts DEF Takes
  <2>2. CASE a.sender.active
    <3>1. a.sender.msg \in Sent /\ Len(a.q) = QueueDepth
      BY <2>2 DEF ChannelSound
    <3>2. /\ Append(Tail(a.q), a.sender.msg) \in Seq(Sent)
          /\ Len(Append(Tail(a.q), a.sender.msg)) = QueueDepth
      BY <1>1, <2>1, <3>1
    <3>3. /\ b \in Channel /\ b.q = Append(Tail(a.q), a.sender.msg) /\ b.sender = NoSender
          /\ b.active = a.active /\ b.owner = a.owner /\ b.waiter = a.waiter
      BY <1>1, <1>6, <2>1, <2>2, <3>2, Facts DEF Takes, Channel
    <3> QED BY <1>1, <1>6, <2>1, <3>2, <3>3, Facts DEF ChannelSound
  <2>3. CASE ~a.sender.active
    <3>3. /\ b \in Channel /\ b.q = Tail(a.q) /\ b.sender = a.sender
          /\ b.active = a.active /\ b.owner = a.owner /\ b.waiter = a.waiter
      BY <1>1, <1>6, <2>1, <2>3 DEF Takes, Channel
    <3> QED BY <1>1, <1>6, <2>1, <2>3, <3>3, Facts DEF ChannelSound
  <2> QED BY <2>2, <2>3
<1>7. ASSUME a.active, NEW w \in Waiter, Waits(a, b, w) PROVE ChannelSound(b)
  BY <1>1, <1>7 DEF Waits, ChannelSound, Channel
<1>8. ASSUME NEW pid, b = ChannelWithout(a, pid) PROVE ChannelSound(b)
  <2>1. CASE ~a.active \/ a.owner = pid
    <3>1. b = NoChannel
      BY <1>8, <2>1 DEF ChannelWithout, ChannelSound
    <3>2. <<>> \in Seq(Sent) /\ Len(<<>>) = 0
      OBVIOUS
    <3> QED BY <1>1, <3>1, <3>2, Facts DEF ChannelSound
  <2>2. CASE a.active /\ a.owner # pid
    <3>1. b = [a EXCEPT !.waiter = IF @.active /\ @.pid = pid THEN NoWaiter ELSE @,
                        !.sender = IF @.active /\ @.msg.sender = pid THEN NoSender ELSE @]
      BY <1>8, <2>2 DEF ChannelWithout
    <3>2. /\ b \in Channel /\ b.q = a.q /\ b.active = a.active /\ b.owner = a.owner
          /\ b.waiter \in {a.waiter, NoWaiter} /\ b.sender \in {a.sender, NoSender}
      BY <1>1, <3>1, Facts DEF Channel
    <3> QED BY <1>1, <2>2, <3>2, Facts DEF ChannelSound
  <2> QED BY <2>1, <2>2
<1>9. ASSUME NEW owner \in User, NEW name \in Names, Opens(a, b, owner, name) PROVE ChannelSound(b)
  <2>1. <<>> \in Seq(Sent) /\ Len(<<>>) = 0
    OBVIOUS
  <2>2. /\ b \in Channel /\ b.active /\ b.owner = owner /\ b.q = <<>>
        /\ b.waiter = NoWaiter /\ b.sender = NoSender
    BY <1>9, Facts DEF Opens, Channel, NoChannel
  <2> QED BY <1>1, <2>1, <2>2, Facts DEF ChannelSound
<1> QED BY <1>2, <1>3, <1>4, <1>5, <1>6, <1>7, <1>8, <1>9, Facts DEF Step

(* A step keeps receivers off the messages they could take.                *)
LEMMA StepClear ==
  ASSUME LengthsFit, NEW a, ChannelSound(a), a.waiter.active => a.q = <<>>,
         NEW t, NEW b, NEW u, Step(a, t, b, u)
  PROVE  b.waiter.active => b.q = <<>>
<1>1. /\ a \in Channel /\ a.waiter \in Waiter /\ a.sender \in SendWaiter
      /\ a.q \in Seq(Sent)
  BY DEF ChannelSound, Channel
<1>3. ASSUME Forgets(a, b) PROVE ~b.waiter.active
  BY <1>1, <1>3, Facts DEF Forgets, Channel
<1>4. ASSUME NEW m \in Sent, Queues(a, b, m) \/ Parks(a, b, m) PROVE ~b.waiter.active
  BY <1>1, <1>4 DEF Queues, Parks, Channel
<1>6. ASSUME Takes(a, b) PROVE ~b.waiter.active
  BY <1>1, <1>6 DEF Takes, Channel
<1>7. ASSUME NEW w \in Waiter, Waits(a, b, w) PROVE b.q = <<>>
  <2>1. b.q = a.q
    BY <1>1, <1>7 DEF Waits, Channel
  <2>2. SUFFICES ASSUME a.q # <<>> PROVE FALSE
    BY <2>1
  <2>3. Head(a.q) \in Sent
    BY <1>1, <2>2
  <2>4. Head(a.q).length \in Lengths /\ Head(a.q).length > w.capacity
    BY <1>7, <2>2, <2>3 DEF Sent, Waits
  <2> QED BY <1>7, <2>4, IpcConstants DEF LengthsFit, Waits
<1>8. ASSUME NEW pid, b = ChannelWithout(a, pid) PROVE b.waiter.active => b.q = <<>>
  BY <1>1, <1>8, Facts DEF ChannelWithout, Channel
<1>9. ASSUME NEW owner \in User, NEW name \in Names, Opens(a, b, owner, name) PROVE b.q = <<>>
  BY <1>9, Facts DEF Opens, NoChannel
<1> QED BY <1>3, <1>4, <1>6, <1>7, <1>8, <1>9 DEF Step

-----------------------------------------------------------------------------
(* The messages a channel has accepted: its queue and the parked one.      *)
Held(a) == IF a.sender.active THEN Append(a.q, a.sender.msg) ELSE a.q

(* A step on a channel is a step of a bounded pipe, or leaves its contents *)
(* alone.                                                                  *)
LEMMA StepPipe ==
  ASSUME NEW a, ChannelSound(a), a.waiter.active => a.q = <<>>,
         NEW t, NEW b, NEW u, Step(a, t, b, u)
  PROVE  \/ Held(b) = Held(a) /\ u = t
         \/ Len(Held(a)) <= QueueDepth /\ u = t /\ \E m \in Message : Held(b) = Append(Held(a), m)
         \/ Held(a) # <<>> /\ u = Head(Held(a)) /\ Held(b) = Tail(Held(a))
         \/ Held(a) = <<>> /\ Held(b) = Held(a) /\ u \in Message
         \/ Len(Held(a)) = QueueDepth + 1 /\ Held(b) = SubSeq(Held(a), 1, QueueDepth) /\ u = t
         \/ Held(b) = <<>> /\ u = NoMessage
<1>1. /\ a \in Channel /\ a.sender \in SendWaiter
      /\ a.q \in Seq(Sent) /\ Len(a.q) \in Nat /\ Len(a.q) <= QueueDepth
      /\ QueueDepth \in Nat /\ QueueDepth > 0
      /\ a.sender.active => Len(a.q) = QueueDepth /\ a.sender.msg \in Sent
  BY IpcConstants DEF ChannelSound, Channel
<1>2. CASE b = a /\ u = t
  BY <1>2
<1>3. ASSUME Forgets(a, b) PROVE Held(b) = Held(a)
  <2>1. b.q = a.q /\ b.sender = a.sender
    BY <1>1, <1>3 DEF Forgets, Channel
  <2> QED BY <2>1 DEF Held
<1>4. ASSUME a.waiter.active PROVE Held(a) = <<>>
  <2>1. a.q = <<>> /\ Len(a.q) = 0
    BY <1>4
  <2> QED BY <1>1, <2>1 DEF Held
<1>5. ASSUME NEW m \in Sent, Queues(a, b, m) PROVE Len(Held(a)) <= QueueDepth /\ Held(b) = Append(Held(a), m)
  <2>1. b.q = Append(a.q, m) /\ b.sender = a.sender
    BY <1>1, <1>5 DEF Queues, Channel
  <2>2. ~a.sender.active
    BY <1>1, <1>5 DEF Queues
  <2> QED BY <1>1, <2>1, <2>2 DEF Held
<1>6. ASSUME NEW m \in Sent, Parks(a, b, m) PROVE Len(Held(a)) <= QueueDepth /\ Held(b) = Append(Held(a), m)
  <2>1. b.q = a.q /\ b.sender.active /\ b.sender.msg = m
    BY <1>1, <1>6 DEF Parks, Channel
  <2> QED BY <1>1, <1>6, <2>1 DEF Held, Parks
<1>7. ASSUME Takes(a, b)
      PROVE  Held(a) # <<>> /\ Head(a.q) = Head(Held(a)) /\ Held(b) = Tail(Held(a))
  <2>1. CASE a.sender.active
    <3>1. b.q = Append(Tail(a.q), a.sender.msg) /\ b.sender = NoSender
      BY <1>1, <1>7, <2>1 DEF Takes, Channel
    <3>2. Held(b) = Append(Tail(a.q), a.sender.msg) /\ Held(a) = Append(a.q, a.sender.msg)
      BY <2>1, <3>1, Facts DEF Held
    <3>3. ASSUME NEW S, NEW q \in Seq(S), q # <<>>, NEW m \in S
          PROVE  /\ Append(q, m) # <<>> /\ Head(Append(q, m)) = Head(q)
                 /\ Tail(Append(q, m)) = Append(Tail(q), m)
      BY <3>3
    <3> QED BY <1>1, <1>7, <2>1, <3>2, <3>3 DEF Takes
  <2>2. CASE ~a.sender.active
    <3>1. b.q = Tail(a.q) /\ b.sender = a.sender
      BY <1>1, <1>7, <2>2 DEF Takes, Channel
    <3> QED BY <1>7, <2>2, <3>1 DEF Held, Takes
  <2> QED BY <2>1, <2>2
<1>8. ASSUME NEW w \in Waiter, Waits(a, b, w) PROVE Held(b) = Held(a)
  <2>1. b.q = a.q /\ b.sender = a.sender
    BY <1>1, <1>8 DEF Waits, Channel
  <2> QED BY <2>1 DEF Held
<1>9. ASSUME NEW pid, b = ChannelWithout(a, pid),
             u = IF a.active /\ a.owner = pid THEN NoMessage ELSE t
      PROVE  \/ Held(b) = Held(a) /\ u = t
             \/ Len(Held(a)) = QueueDepth + 1 /\ Held(b) = SubSeq(Held(a), 1, QueueDepth) /\ u = t
             \/ Held(b) = <<>> /\ u = NoMessage
  <2>1. CASE ~a.active
    BY <1>9, <2>1 DEF ChannelWithout
  <2>2. CASE a.active /\ a.owner = pid
    <3>1. b = NoChannel
      BY <1>9, <2>2 DEF ChannelWithout
    <3> QED BY <1>9, <2>2, <3>1, Facts DEF Held
  <2>3. CASE a.active /\ a.owner # pid
    <3>1. b = [a EXCEPT !.waiter = IF @.active /\ @.pid = pid THEN NoWaiter ELSE @,
                        !.sender = IF @.active /\ @.msg.sender = pid THEN NoSender ELSE @]
      BY <1>9, <2>3 DEF ChannelWithout
    <3>2. b.q = a.q /\ (b.sender = a.sender \/ (a.sender.active /\ b.sender = NoSender))
      BY <1>1, <3>1 DEF Channel
    <3>3. CASE b.sender = a.sender
      BY <1>9, <2>3, <3>2, <3>3 DEF Held
    <3>4. CASE a.sender.active /\ b.sender = NoSender
      <4>1. Held(b) = a.q /\ Held(a) = Append(a.q, a.sender.msg) /\ Len(a.q) = QueueDepth
        BY <1>1, <3>2, <3>4, Facts DEF Held
      <4>2. ASSUME NEW S, NEW q \in Seq(S), NEW m \in S
            PROVE  Len(Append(q, m)) = Len(q) + 1 /\ SubSeq(Append(q, m), 1, Len(q)) = q
        BY <4>2
      <4>3. /\ Len(Append(a.q, a.sender.msg)) = Len(a.q) + 1
            /\ SubSeq(Append(a.q, a.sender.msg), 1, Len(a.q)) = a.q
        BY <1>1, <3>4, <4>2
      <4> QED BY <1>9, <2>3, <4>1, <4>3
    <3> QED BY <3>2, <3>3, <3>4
  <2> QED BY <2>1, <2>2, <2>3
<1>10. ASSUME NEW owner \in User, NEW name \in Names, Opens(a, b, owner, name) PROVE Held(b) = <<>>
  BY <1>10, Facts DEF Opens, NoChannel, Held
<1> QED
  <2>1. CASE a.active /\ a.waiter.active /\ Forgets(a, b) /\ u \in Sent
    BY <1>3, <1>4, <2>1, Facts
  <2>2. CASE u = t /\ \E m \in Sent : Queues(a, b, m) \/ Parks(a, b, m)
    <3>1. PICK m \in Sent : Queues(a, b, m) \/ Parks(a, b, m)
      BY <2>2
    <3>2. m \in Message
      BY Facts
    <3> QED BY <1>5, <1>6, <2>2, <3>1, <3>2
  <2>3. CASE \E pid : /\ b = ChannelWithout(a, pid)
                      /\ u = IF a.active /\ a.owner = pid THEN NoMessage ELSE t
    <3>1. PICK pid : /\ b = ChannelWithout(a, pid)
                     /\ u = IF a.active /\ a.owner = pid THEN NoMessage ELSE t
      BY <2>3
    <3>2. \/ Held(b) = Held(a) /\ u = t
          \/ Len(Held(a)) = QueueDepth + 1 /\ Held(b) = SubSeq(Held(a), 1, QueueDepth) /\ u = t
          \/ Held(b) = <<>> /\ u = NoMessage
      BY <1>9, <3>1
    <3> QED BY <3>2
  <2>4. CASE Takes(a, b) /\ u = Head(a.q)
    BY <1>7, <2>4
  <2>5. CASE u = t /\ \E w \in Waiter : Waits(a, b, w)
    BY <1>8, <2>5
  <2>6. CASE u = NoMessage /\ \E owner \in User, name \in Names : Opens(a, b, owner, name)
    BY <1>10, <2>6
  <2>7. CASE Forgets(a, b) /\ u = t
    BY <1>3, <2>7
  <2> QED BY <1>2, <2>1, <2>2, <2>3, <2>4, <2>5, <2>6, <2>7 DEF Step

-----------------------------------------------------------------------------
(* What a scheduler step from s to d means to process q, which it does not *)
(* put to sleep, wake or end: q sleeps on, with its timeout, or does not   *)
(* sleep; and the answer that made it ready stays with it.                 *)
Quiet(s, d, q) ==
  /\ Sleeps(s, q) => Sleeps(d, q) /\ (s.task[q].timed <=> d.task[q].timed)
  /\ Sleeps(d, q) => Sleeps(s, q)
  /\ s.task[q].state = "exited" => d.task[q].state = "exited"
  /\ d.task[q].state = "unused" => s.task[q].state = "unused"
  /\ s.task[q].state = "ready" => /\ d.task[q].state \in {"ready", "running"}
                                  /\ d.task[q].rax = s.task[q].rax

LEMMA SameQuiet ==
  ASSUME NEW s, NEW d, NEW q, d.task[q] = s.task[q]
  PROVE  Quiet(s, d, q)
BY DEF Quiet, Sleeps

LEMMA QuietTwice ==
  ASSUME NEW s, NEW m, NEW d, NEW q, Quiet(s, m, q), Quiet(m, d, q), Typed(s), q \in User,
         s.task[q].state = "ready" => m.task[q].state = "ready"
  PROVE  Quiet(s, d, q)
BY DEF Quiet

LEMMA HandsQuiet ==
  ASSUME NEW s, NEW d, Hands(s, d), NEW q \in User
  PROVE  Quiet(s, d, q)
<1>1. CASE s.task[q].state \in {"ready", "running"}
  BY <1>1 DEF Hands, Quiet, Sleeps
<1>2. CASE s.task[q].state \notin {"ready", "running"}
  BY <1>2, SameQuiet DEF Hands
<1> QED BY <1>1, <1>2

LEMMA EndsQuiet ==
  ASSUME NEW s, NEW d, NEW pid, Ends(s, d, pid), NEW q \in User, q # pid
  PROVE  Quiet(s, d, q)
<1>1. CASE d.task[q] = s.task[q]
  BY <1>1, SameQuiet
<1>2. CASE d.task[q] # s.task[q]
  BY <1>2 DEF Ends, Quiet, Sleeps, InWait, InBlock
<1> QED BY <1>1, <1>2

LEMMA CreateQuiet ==
  ASSUME NEW s, Good(s), NEW parent \in Pid, NEW q \in User
  PROVE  /\ Quiet(s, scheduler_create_user(s, parent), q)
         /\ s.task[q].state = "ready" => scheduler_create_user(s, parent).task[q] = s.task[q]
<1>1. NewTask(parent) \in Task /\ NewTask(parent).state = "ready"
  BY Constants, MakeTaskFacts DEF NewTask, TaskState
<1>2. CASE FirstUnused(s) = 0 \/ FirstUnused(s) # q
  <2>1. scheduler_create_user(s, parent).task[q] = s.task[q]
    BY <1>1, <1>2, FirstUnusedSlot, PutFacts, Constants DEF scheduler_create_user, Good
  <2> QED BY <2>1, SameQuiet
<1>3. CASE FirstUnused(s) # 0 /\ FirstUnused(s) = q
  <2>1. s.task[q].state = "unused"
    BY <1>3, FirstUnusedSlot DEF Good
  <2>2. scheduler_create_user(s, parent).task[q] = NewTask(parent)
    <3>1. scheduler_create_user(s, parent) = Put(s, q, NewTask(parent))
      BY <1>3 DEF scheduler_create_user
    <3>2. Typed(s) /\ q \in Pid
      BY Constants DEF Good
    <3>3. \A r \in Pid : Put(s, q, NewTask(parent)).task[r] = IF r = q THEN NewTask(parent) ELSE s.task[r]
      BY <1>1, <3>2, PutFacts
    <3> QED BY <3>1, <3>2, <3>3
  <2> QED BY <1>1, <2>1, <2>2 DEF Quiet, Sleeps
<1> QED BY <1>2, <1>3

LEMMA ReapSlots ==
  ASSUME NEW s, Good(s), NEW parent, NEW child
  PROVE  LET d == scheduler_reap(s, parent, child)
         IN  /\ \A q \in Pid : (q # child \/ ~CanReap(s, parent, child)) => d.task[q] = s.task[q]
             /\ CanReap(s, parent, child) => d.task[child].state = "unused"
             /\ d.current = s.current
<1>1. CASE CanReap(s, parent, child)
  BY <1>1, PutFacts, Constants DEF scheduler_reap, CanReap, Good
<1>2. CASE ~CanReap(s, parent, child)
  BY <1>2 DEF scheduler_reap
<1> QED BY <1>1, <1>2

LEMMA TerminateSlots ==
  ASSUME NEW s, Good(s), NEW pid
  PROVE  LET d == scheduler_terminate(s, pid)
         IN  /\ \A q \in User : q # pid => Quiet(s, d, q)
             /\ ~CanTerminate(s, pid) => d = s
             /\ CanTerminate(s, pid) => d.task[pid].state \in {"exited", "unused"}
<1>1. CASE CanTerminate(s, pid)
  <2>1. Ends(s, scheduler_terminate(s, pid), pid)
    BY <1>1, ExitEnds DEF scheduler_terminate, CanTerminate, Good
  <2> HIDE DEF scheduler_terminate
  <2> QED BY <1>1, <2>1, EndsQuiet DEF Ends
<1>2. CASE ~CanTerminate(s, pid)
  BY <1>2, SameQuiet DEF scheduler_terminate
<1> QED BY <1>1, <1>2

LEMMA ExitSlots ==
  ASSUME NEW s, Good(s), s.current # 0
  PROVE  LET d == scheduler_on_exit(s)
         IN  /\ \A q \in User : q # s.current => Quiet(s, d, q)
             /\ d.task[s.current].state \in {"exited", "unused"}
<1> DEFINE me == s.current
           m == wake_waiting_parent(MarkExited(s, me), me)
           d == scheduler_on_exit(s)
<1>1. me \in User /\ Typed(s)
  BY TaskFields, Constants DEF Good
<1>2. Ends(s, m, me) /\ Hands(m, d)
  BY ExitHands
<1> HIDE DEF me, m, d
<1>3. d.task[me].state \in {"exited", "unused"}
  BY <1>1, <1>2 DEF Ends, Hands
<1>4. ASSUME NEW q \in User, q # me PROVE Quiet(s, d, q)
  <2>1. Quiet(s, m, q) /\ Quiet(m, d, q)
    BY <1>2, <1>4, EndsQuiet, HandsQuiet
  <2>2. s.task[q].state = "ready" => m.task[q].state = "ready"
    BY <1>2, <1>4 DEF Ends
  <2> QED BY <1>1, <2>1, <2>2, QuietTwice
<1> QED BY <1>3, <1>4 DEF me, d

(* wait(): the caller does not sleep in this module's sense, and only the  *)
(* child that is reaped changes in another way.                            *)
LEMMA WaitSlots ==
  ASSUME NEW s, Good(s), s.current # 0, NEW child \in 0 .. ProcessLimit
  PROVE  LET d == scheduler_on_wait(s, child)
         IN  /\ \A q \in User : (q = child /\ CanReap(s, s.current, child)) \/ Quiet(s, d, q)
             /\ CanReap(s, s.current, child) => d.task[child].state = "unused"
<1> DEFINE me == s.current
           r == scheduler_reap(s, me, child)
           t == [s.task[me] EXCEPT !.state = "blocked", !.waiting_for = child, !.rax = InWait]
           d == scheduler_on_wait(s, child)
<1>1. /\ me \in User /\ me \in Pid /\ s.task[me] \in Task /\ Typed(s)
      /\ s.task[me].state = "running"
  BY Constants, TaskFields DEF Good, CpuAccounted
<1> HIDE DEF me
<1>2. ASSUME NEW v, Good(v), v.task[me] = s.task[me], NEW word \in Word,
             NEW q \in User, v.task[q] = s.task[q]
      PROVE  Quiet(s, Answer(v, me, word), q)
  <2>1. [v.task[me] EXCEPT !.rax = word] \in Task
    BY <1>1, <1>2 DEF Task
  <2>2. Answer(v, me, word).task[q] = IF q = me THEN [v.task[me] EXCEPT !.rax = word] ELSE v.task[q]
    <3> DEFINE w == [v.task[me] EXCEPT !.rax = word]
    <3>1. Typed(v) /\ q \in Pid /\ w \in Task
      BY <1>2, <2>1, Constants DEF Good
    <3>2. Answer(v, me, word) = Put(v, me, w)
      BY DEF Answer
    <3> HIDE DEF w
    <3>3. \A o \in Pid : Put(v, me, w).task[o] = IF o = me THEN w ELSE v.task[o]
      BY <1>1, <3>1, PutFacts
    <3>4. Answer(v, me, word).task[q] = IF q = me THEN w ELSE v.task[q]
      BY <3>1, <3>2, <3>3
    <3> QED BY <3>4 DEF w
  <2>3. CASE q = me
    <3>1. Answer(v, me, word).task[q].state = "running"
      BY <1>1, <1>2, <2>2, <2>3 DEF Task
    <3> QED BY <1>1, <2>3, <3>1 DEF Quiet, Sleeps
  <2>4. CASE q # me
    BY <1>2, <2>2, <2>4, SameQuiet
  <2> QED BY <2>3, <2>4
<1>3. CASE CanReap(s, me, child)
  <2>1. d = Answer(r, me, GotChild)
    BY <1>3 DEF scheduler_on_wait, me
  <2>2. me # child /\ child \in User /\ GotChild \in Word
    BY <1>1, <1>3 DEF CanReap, Word
  <2>3. /\ Good(r) /\ r.task[child].state = "unused"
        /\ \A q \in User : q # child => r.task[q] = s.task[q]
    BY <1>3, ReapGood, ReapSlots, Constants
  <2> HIDE DEF r, d
  <2>4. ASSUME NEW q \in User, q # child PROVE Quiet(s, d, q)
    BY <1>1, <1>2, <2>1, <2>2, <2>3, <2>4
  <2>5. d.task[child] = r.task[child]
    <3>1. r.task[me] = s.task[me] /\ [r.task[me] EXCEPT !.rax = GotChild] \in Task
      BY <1>1, <2>2, <2>3 DEF Task
    <3> DEFINE w == [r.task[me] EXCEPT !.rax = GotChild]
    <3>2. Typed(r) /\ child \in Pid /\ w \in Task
      BY <2>2, <2>3, <3>1, Constants DEF Good
    <3>3. d = Put(r, me, w)
      BY <2>1 DEF Answer
    <3> HIDE DEF w
    <3>4. \A q \in Pid : Put(r, me, w).task[q] = IF q = me THEN w ELSE r.task[q]
      BY <1>1, <3>2, PutFacts
    <3> QED BY <2>2, <3>2, <3>3, <3>4
  <2> QED BY <1>3, <2>3, <2>4, <2>5 DEF d, me
<1>4. CASE /\ ~CanReap(s, me, child)
           /\ (child \notin Pid \/ s.task[child].parent # me \/ s.task[child].state = "unused")
  <2>1. d = Answer(s, me, GotError) /\ GotError \in Word
    BY <1>4 DEF scheduler_on_wait, me, Word
  <2> HIDE DEF d
  <2>2. ASSUME NEW q \in User PROVE Quiet(s, d, q)
    BY <1>2, <2>1
  <2> QED BY <1>4, <2>2 DEF d, me
<1>5. CASE /\ ~CanReap(s, me, child)
           /\ ~(child \notin Pid \/ s.task[child].parent # me \/ s.task[child].state = "unused")
  <2>1. d = reschedule(Put(s, me, t))
    BY <1>5 DEF scheduler_on_wait, me
  <2>2. t \in Task /\ t.state = "blocked" /\ t.rax = InWait
    BY <1>1 DEF Task, TaskState, Word
  <2> HIDE DEF t, d
  <2>3. /\ d.task[me] = t
        /\ \A q \in User : q # me =>
             IF s.task[q].state \in {"ready", "running"}
             THEN /\ d.task[q].state \in {"ready", "running"}
                  /\ s.task[q].state = "ready" => d.task[q].rax = s.task[q].rax
             ELSE d.task[q] = s.task[q]
    BY <2>1, <2>2, BlockHands DEF me
  <2>4. ASSUME NEW q \in User, q # me PROVE Quiet(s, d, q)
    BY <2>3, <2>4 DEF Quiet, Sleeps
  <2>5. Quiet(s, d, me)
    BY <1>1, <2>2, <2>3 DEF Quiet, Sleeps, InWait, InBlock
  <2>6. \A q \in User : Quiet(s, d, q)
    BY <2>4, <2>5
  <2> QED BY <1>5, <2>6 DEF d, me
<1> QED BY <1>3, <1>4, <1>5

(* A call that goes to sleep: the caller's slot, and the others.           *)
LEMMA SleepSlots ==
  ASSUME NEW s, Good(s), s.current # 0, s.running, NEW delay \in 0 .. MaxDelay
  PROVE  LET d == scheduler_block_current(s)
             e == scheduler_block_current_timeout(s, delay)
         IN  /\ Sleeps(d, s.current) /\ ~d.task[s.current].timed
             /\ Sleeps(e, s.current)
             /\ \A q \in User : q # s.current => Quiet(s, d, q) /\ Quiet(s, e, q)
<1> DEFINE me == s.current
           t == [s.task[me] EXCEPT !.state = "blocked", !.waiting_for = WaitNone, !.rax = InBlock]
           u == [s.task[me] EXCEPT !.state = "blocked", !.waiting_for = WaitNone,
                                   !.timed = TRUE, !.delay = delay, !.rax = InBlock]
           d == scheduler_block_current(s)
           e == scheduler_block_current_timeout(s, delay)
<1>1. /\ me \in User /\ me \in Pid /\ s.task[me] \in Task /\ Typed(s)
      /\ s.task[me].state = "running" /\ ~s.task[me].timed
  BY Constants, TaskFields DEF Good, CpuAccounted, Sound, TimeoutsFresh
<1>2. /\ d = reschedule(Put(s, me, t))
      /\ e = d \/ e = reschedule(Put(s, me, u))
  BY DEF scheduler_block_current, scheduler_block_current_timeout
<1>3. /\ t \in Task /\ t.state = "blocked" /\ t.rax = InBlock /\ ~t.timed
      /\ u \in Task /\ u.state = "blocked" /\ u.rax = InBlock
  BY <1>1, Constants DEF Task, TaskState, Word
<1> HIDE DEF t, u
<1>4. ASSUME NEW v \in Task, v.state = "blocked"
      PROVE  LET f == reschedule(Put(s, s.current, v))
             IN  /\ f.task[s.current] = v
                 /\ \A q \in User : q # s.current => Quiet(s, f, q)
  <2> DEFINE f == reschedule(Put(s, s.current, v))
  <2>1. /\ f.task[s.current] = v
        /\ \A q \in User : q # s.current =>
             IF s.task[q].state \in {"ready", "running"}
             THEN /\ f.task[q].state \in {"ready", "running"}
                  /\ s.task[q].state = "ready" => f.task[q].rax = s.task[q].rax
             ELSE f.task[q] = s.task[q]
    BY <1>4, BlockHands
  <2> HIDE DEF f
  <2>2. ASSUME NEW q \in User, q # s.current PROVE Quiet(s, f, q)
    BY <2>1, <2>2 DEF Quiet, Sleeps
  <2> QED BY <2>1, <2>2 DEF f
<1>5. /\ d.task[s.current] = t
      /\ \A q \in User : q # s.current => Quiet(s, d, q)
  BY <1>2, <1>3, <1>4
<1>6. /\ e.task[s.current] \in {t, u}
      /\ \A q \in User : q # s.current => Quiet(s, e, q)
  BY <1>2, <1>3, <1>4, <1>5
<1> HIDE DEF d, e
<1> QED BY <1>3, <1>5, <1>6 DEF Sleeps, d, e

LEMMA WakeAllGood ==
  ASSUME NEW s, Good(s), NEW P, NEW result \in Results
  PROVE  LET d == WakeAll(s, P, result)
         IN  /\ Good(d) /\ d.current = s.current /\ d.running = s.running
             /\ \A p \in Pid : IF p \in P /\ CanWake(s, p)
                               THEN d.task[p].state = "ready" /\ d.task[p].rax = result
                               ELSE d.task[p] = s.task[p]
<1> DEFINE d == WakeAll(s, P, result)
           Woken(p) == p \in P /\ CanWake(s, p)
           t(p) == [s.task[p] EXCEPT !.rax = result, !.timed = FALSE, !.delay = 0,
                                     !.waiting_for = WaitNone, !.state = "ready"]
<1>1. Typed(s) /\ \A p \in Pid : s.task[p] \in Task
  BY TaskFields DEF Good
<1>2. ASSUME NEW p \in Pid, Woken(p)
      PROVE  /\ scheduler_wake(s, p, result).task[p] = t(p)
             /\ t(p) \in Task /\ t(p).state = "ready" /\ t(p).rax = result /\ ~t(p).timed
             /\ t(p).parent = s.task[p].parent
  <2>1. result \in Word /\ 0 \in 0 .. MaxDelay
    BY SchedulerConstants DEF Word
  <2>2. /\ t(p) \in Task /\ t(p).state = "ready" /\ t(p).rax = result /\ ~t(p).timed
        /\ t(p).parent = s.task[p].parent
    BY <1>1, <2>1, Constants DEF Task, TaskState
  <2>3. scheduler_wake(s, p, result) = Put(s, p, t(p))
    BY <1>2 DEF scheduler_wake
  <2> HIDE DEF t
  <2>4. \A q \in Pid : Put(s, p, t(p)).task[q] = IF q = p THEN t(p) ELSE s.task[q]
    BY <1>1, <2>2, PutFacts
  <2>5. scheduler_wake(s, p, result).task[p] = t(p)
    BY <2>3, <2>4
  <2> QED BY <2>2, <2>5
<1>3. /\ d.current = s.current /\ d.running = s.running /\ d.slice = s.slice
      /\ d.task = [p \in Pid |-> IF Woken(p) THEN scheduler_wake(s, p, result).task[p] ELSE s.task[p]]
  BY <1>1 DEF WakeAll, Typed
<1>4. d \in [task : {d.task}, current : Pid, running : BOOLEAN, slice : 0 .. Quantum]
  BY <1>1 DEF WakeAll, Typed
<1> HIDE DEF d, t
<1>5. ASSUME NEW p \in Pid
      PROVE  /\ Woken(p) => d.task[p] = t(p)
             /\ ~Woken(p) => d.task[p] = s.task[p]
  BY <1>2, <1>3
<1>6. \A p \in Pid : d.task[p] \in Task
  BY <1>1, <1>2, <1>5
<1>7. Typed(d)
  <2>1. d.task \in [Pid -> Task]
    BY <1>3, <1>6
  <2> QED BY <1>4, <2>1 DEF Typed
<1>8. ASSUME NEW p \in Pid
      PROVE  /\ d.task[p].parent = s.task[p].parent
             /\ d.task[p] = s.task[p] \/ (/\ p \in User /\ s.task[p].state = "blocked"
                                          /\ d.task[p].state = "ready" /\ ~d.task[p].timed)
  BY <1>2, <1>5 DEF CanWake
<1>9. CpuAccounted(d)
  <2>1. d.task[0] = s.task[0]
    BY <1>8, Constants
  <2>2. ASSUME NEW p \in Pid PROVE d.task[p].state = "running" <=> p = d.current
    BY <1>3, <1>8 DEF Good, CpuAccounted
  <2> QED BY <1>3, <2>1, <2>2 DEF Good, CpuAccounted
<1>10. TimeoutsFresh(d)
  BY <1>8 DEF Good, Sound, TimeoutsFresh
<1>11. AwaitsLiveChild(d)
  <2>1. SUFFICES ASSUME NEW p \in User, Blocked(d, p), d.task[p].rax = InWait
                 PROVE  /\ d.task[p].waiting_for \in User
                        /\ d.task[d.task[p].waiting_for].parent = p
                        /\ d.task[d.task[p].waiting_for].state \in {"ready", "running", "blocked"}
    BY DEF AwaitsLiveChild
  <2>2. d.task[p] = s.task[p] /\ Blocked(s, p)
    BY <1>8, <2>1, Constants DEF Blocked
  <2>3. /\ s.task[p].waiting_for \in User
        /\ s.task[s.task[p].waiting_for].parent = p
        /\ s.task[s.task[p].waiting_for].state \in {"ready", "running", "blocked"}
    BY <2>1, <2>2 DEF Good, Sound, AwaitsLiveChild
  <2> QED BY <1>8, <2>2, <2>3, Constants
<1>12. CallsDisjoint(d)
  <2>1. ASSUME NEW p \in User, Blocked(d, p) PROVE d.task[p] = s.task[p] /\ Blocked(s, p)
    BY <1>8, <2>1, Constants DEF Blocked
  <2> QED BY <2>1 DEF Good, Sound, CallsDisjoint
<1>13. Good(d)
  BY <1>7, <1>9, <1>10, <1>11, <1>12 DEF Good, Sound
<1>14. ASSUME NEW p \in Pid
       PROVE  IF Woken(p) THEN d.task[p].state = "ready" /\ d.task[p].rax = result
              ELSE d.task[p] = s.task[p]
  BY <1>2, <1>5
<1> QED BY <1>3, <1>13, <1>14 DEF d

-----------------------------------------------------------------------------
(* What a step does to the whole.                                          *)

Steps(k, d) == \A c \in Chan : Step(k.ch[c], k.taken[c], d.ch[c], d.taken[c])

Tables(k, d) == Wired(d, {}) /\ Steps(k, d)

(* The answers that fit the call p sleeps in.                              *)
Answers(k, p) == IF \E c \in Chan : Sends(k, p, c) THEN {GotSent, GotError}
                 ELSE IF Selects(k, p) THEN {GotMessage, GotEvent, GotTime, GotError}
                 ELSE {GotMessage, GotError}

Fit(k, d) ==
  \A p \in User :
    (Sleeps(k.s, p) /\ d.s.task[p].state \in {"ready", "running"}) =>
       d.s.task[p].rax \in Answers(k, p) /\ ~Present(d, p)

(* When every delivery succeeds.                                           *)
Calm(k) == BuffersFit /\ Registered(k) /\ Fitting(k)

Calls(k, d) == Registered(d) /\ Fitting(d) /\ Fit(k, d)

(* Registrations are dropped, and only those of processes in P.            *)
Drops(k, d, P) ==
  /\ \A c \in Chan :
       /\ \/ d.ch[c].waiter = k.ch[c].waiter
          \/ ~d.ch[c].waiter.active /\ (k.ch[c].waiter.active => k.ch[c].waiter.pid \in P)
       /\ \/ d.ch[c].sender = k.ch[c].sender
          \/ ~d.ch[c].sender.active /\ (k.ch[c].sender.active => k.ch[c].sender.msg.sender \in P)
  /\ \/ d.in.waiter = k.in.waiter
     \/ ~d.in.waiter.active /\ (k.in.waiter.active => k.in.waiter.pid \in P)

Ended(k, d, p) ==
  /\ ~Present(d, p) /\ ~Sleeps(d.s, p)
  /\ (Sleeps(k.s, p) /\ d.s.task[p].state \in {"ready", "running"}) =>
        d.s.task[p].rax \in Answers(k, p)

(* The calls of the processes in P end; the others are left alone, or were *)
(* killed by the shell and not collected yet.                              *)
Removal(k, d, P) ==
  /\ Drops(k, d, P)
  /\ \A p \in User : IF p \in P THEN Ended(k, d, p)
                     ELSE Quiet(k.s, d.s, p) \/ d.s.task[p].state = "exited"

LEMMA RemovalCalls ==
  ASSUME NEW k, NEW d, NEW P, Removal(k, d, P), Calm(k)
  PROVE  Calls(k, d)
<1>1. ASSUME NEW p \in User, p \in P
      PROVE  /\ Answerable(d, p)
             /\ (Sleeps(k.s, p) /\ d.s.task[p].state \in {"ready", "running"}) =>
                   d.s.task[p].rax \in Answers(k, p) /\ ~Present(d, p)
  <2>1. Ended(k, d, p)
    BY <1>1 DEF Removal
  <2>2. ~Listens(d, p) /\ \A c \in Chan : ~Attends(d, p, c) /\ ~Receives(d, p, c) /\ ~Sends(d, p, c)
    BY <2>1 DEF Ended, Present, Attends
  <2>3. Answerable(d, p)
    BY <2>1, <2>2 DEF Ended, Answerable, Present
  <2> QED BY <2>1, <2>3 DEF Ended
<1>2. ASSUME NEW p \in User, p \notin P
      PROVE  /\ Answerable(d, p)
             /\ ~(Sleeps(k.s, p) /\ d.s.task[p].state \in {"ready", "running"})
  <2>1. (Quiet(k.s, d.s, p) \/ d.s.task[p].state = "exited") /\ Answerable(k, p)
    BY <1>2 DEF Removal, Calm, Registered
  <2>2. ASSUME NEW c \in Chan
        PROVE  /\ Receives(d, p, c) <=> Receives(k, p, c)
               /\ Sends(d, p, c) <=> Sends(k, p, c)
               /\ Receives(k, p, c) => d.ch[c].waiter = k.ch[c].waiter
    BY <1>2 DEF Removal, Drops, Receives, Sends
  <2>3. Listens(d, p) <=> Listens(k, p)
    BY <1>2 DEF Removal, Drops, Listens
  <2>4. /\ \A c \in Chan : Attends(d, p, c) <=> Attends(k, p, c)
        /\ Selects(d, p) <=> Selects(k, p)
    BY <2>2 DEF Attends, Selects
  <2>5. Present(d, p) <=> Present(k, p)
    BY <2>3, <2>4 DEF Present
  <2>6. CASE Quiet(k.s, d.s, p)
    <3>1. Answerable(d, p)
      BY <2>1, <2>2, <2>3, <2>4, <2>5, <2>6 DEF Answerable, Quiet
    <3> QED BY <2>6, <3>1 DEF Quiet, Sleeps
  <2>7. CASE d.s.task[p].state = "exited"
    <3>1. Answerable(d, p)
      BY <2>1, <2>2, <2>3, <2>4, <2>5, <2>7 DEF Answerable, Sleeps
    <3> QED BY <2>7, <3>1
  <2> QED BY <2>1, <2>6, <2>7
<1>3. Fitting(d)
  <2>1. ASSUME NEW c \in Chan, d.ch[c].waiter.active PROVE d.ch[c].waiter = k.ch[c].waiter
    BY <2>1 DEF Removal, Drops
  <2>2. d.in.waiter.active => d.in.waiter = k.in.waiter
    BY DEF Removal, Drops
  <2> QED BY <2>1, <2>2 DEF Calm, Fitting
<1> QED BY <1>1, <1>2, <1>3 DEF Calls, Registered, Fit

(* The caller goes to sleep on channel c: in a send, a receive, or a       *)
(* select.                                                                 *)
Falls(k, d, me, c) ==
  /\ me \in User /\ c \in Chan
  /\ k.s.task[me].state = "running" /\ Sleeps(d.s, me)
  /\ \A q \in User : q # me => Quiet(k.s, d.s, q)
  /\ \A e \in Chan : e # c => /\ d.ch[e].waiter = k.ch[e].waiter
                              /\ d.ch[e].sender = k.ch[e].sender
  /\ \/ /\ d.ch[c].waiter = k.ch[c].waiter /\ d.in.waiter = k.in.waiter
        /\ ~k.ch[c].sender.active /\ Sends(d, me, c)
        /\ ~d.s.task[me].timed
     \/ /\ d.ch[c].sender = k.ch[c].sender /\ d.in.waiter = k.in.waiter
        /\ ~k.ch[c].waiter.active /\ Receives(d, me, c) /\ ~d.ch[c].waiter.multiplex
        /\ ~d.s.task[me].timed
     \/ /\ d.ch[c].sender = k.ch[c].sender
        /\ ~k.in.waiter.active /\ Listens(d, me)
        /\ ~k.ch[c].waiter.active /\ Receives(d, me, c) /\ d.ch[c].waiter.multiplex

LEMMA FallsCalls ==
  ASSUME NEW k, NEW d, NEW me, NEW c, Falls(k, d, me, c), Calm(k), Fitting(d)
  PROVE  Calls(k, d)
<1>1. /\ me \in User /\ c \in Chan /\ Sleeps(d.s, me)
      /\ ~Sleeps(k.s, me) /\ k.s.task[me].state # "exited"
  BY DEF Falls, Sleeps
<1>2. ~Listens(k, me) /\ \A e \in Chan : ~Receives(k, me, e) /\ ~Sends(k, me, e)
  BY <1>1 DEF Calm, Registered, Answerable, Present, Attends
<1>3. \A e \in Chan : e # c => ~Receives(d, me, e) /\ ~Sends(d, me, e)
  BY <1>2 DEF Falls, Receives, Sends
<1>4. Answerable(d, me)
  <2>1. CASE /\ d.ch[c].waiter = k.ch[c].waiter /\ d.in.waiter = k.in.waiter
             /\ ~k.ch[c].sender.active /\ Sends(d, me, c)
             /\ ~d.s.task[me].timed
    <3>1. ~Listens(d, me) /\ \A e \in Chan : ~Receives(d, me, e)
      BY <1>1, <1>2, <1>3, <2>1 DEF Listens, Receives
    <3> QED BY <1>1, <1>3, <2>1, <3>1 DEF Answerable, Selects, Attends, Present
  <2>2. CASE /\ d.ch[c].sender = k.ch[c].sender /\ d.in.waiter = k.in.waiter
             /\ ~k.ch[c].waiter.active /\ Receives(d, me, c) /\ ~d.ch[c].waiter.multiplex
             /\ ~d.s.task[me].timed
    <3>1. ~Listens(d, me) /\ \A e \in Chan : ~Sends(d, me, e)
      BY <1>1, <1>2, <1>3, <2>2 DEF Listens, Sends
    <3>2. ~Selects(d, me)
      BY <1>3, <2>2 DEF Selects
    <3> QED BY <1>1, <1>3, <2>2, <3>1, <3>2 DEF Answerable, Attends, Present
  <2>3. CASE /\ d.ch[c].sender = k.ch[c].sender
             /\ ~k.in.waiter.active /\ Listens(d, me)
             /\ ~k.ch[c].waiter.active /\ Receives(d, me, c) /\ d.ch[c].waiter.multiplex
    <3>1. \A e \in Chan : ~Sends(d, me, e)
      BY <1>1, <1>2, <1>3, <2>3 DEF Sends
    <3>2. Selects(d, me)
      BY <1>1, <2>3 DEF Selects
    <3> QED BY <1>1, <1>3, <2>3, <3>1, <3>2 DEF Answerable, Attends, Present
  <2> QED BY <2>1, <2>2, <2>3 DEF Falls
<1>5. ASSUME NEW p \in User, p # me
      PROVE  /\ Answerable(d, p)
             /\ ~(Sleeps(k.s, p) /\ d.s.task[p].state \in {"ready", "running"})
  <2>1. Quiet(k.s, d.s, p) /\ Answerable(k, p)
    BY <1>5 DEF Falls, Calm, Registered
  <2>2. ASSUME NEW e \in Chan
        PROVE  /\ Receives(d, p, e) <=> Receives(k, p, e)
               /\ Sends(d, p, e) <=> Sends(k, p, e)
               /\ Receives(k, p, e) => d.ch[e].waiter = k.ch[e].waiter
    BY <1>5 DEF Falls, Receives, Sends
  <2>3. Listens(d, p) <=> Listens(k, p)
    BY <1>5 DEF Falls, Listens
  <2>4. /\ \A e \in Chan : Attends(d, p, e) <=> Attends(k, p, e)
        /\ Selects(d, p) <=> Selects(k, p)
    BY <2>2 DEF Attends, Selects
  <2>5. Present(d, p) <=> Present(k, p)
    BY <2>3, <2>4 DEF Present
  <2>6. Answerable(d, p)
    BY <2>1, <2>2, <2>3, <2>4, <2>5 DEF Answerable, Quiet
  <2> QED BY <2>1, <2>6 DEF Quiet, Sleeps
<1> QED BY <1>1, <1>4, <1>5 DEF Calls, Registered, Fit

(* The tables after a step that opens and ends no channel.                 *)
LEMMA StaysWired ==
  ASSUME NEW k, Wired(k, {}), NEW d \in Kernel, Good(d.s), Steps(k, d), InputSound(d.in),
         d.caps = k.caps,
         \A c \in Chan : /\ d.ch[c].active = k.ch[c].active
                         /\ d.ch[c].owner = k.ch[c].owner
                         /\ d.ch[c].name = k.ch[c].name,
         \A q \in User : d.s.task[q].state = "unused" => k.s.task[q].state = "unused"
  PROVE  Tables(k, d)
<1>1. ASSUME NEW c \in Chan PROVE ChannelSound(d.ch[c])
  <2>1. k.taken[c] \in Message \cup {NoMessage} /\ ChannelSound(k.ch[c])
    BY DEF Wired, Kernel
  <2> QED BY <2>1, StepSound DEF Steps
<1>2. HandlesSound(d)
  <2>1. \A p \in User : \A h \in k.caps[p] : h.chan \in Chan
    BY DEF Wired, Kernel, Handle
  <2> QED BY <2>1 DEF Wired, HandlesSound
<1>3. OwnersLive(d, {})
  <2>1. \A c \in Chan : k.ch[c].active => k.ch[c].owner \in User
    BY DEF Wired, ChannelSound
  <2> QED BY <2>1 DEF Wired, OwnersLive
<1> QED BY <1>1, <1>2, <1>3 DEF Tables, Wired

(* A step that leaves channels and input alone.                            *)
LEMMA QuietStep ==
  ASSUME NEW k, Wired(k, {}), NEW s, Good(s), \A q \in User : Quiet(k.s, s, q)
  PROVE  LET d == [k EXCEPT !.s = s]
         IN  Tables(k, d) /\ (Calm(k) => Calls(k, d))
<1> DEFINE d == [k EXCEPT !.s = s]
<1>1. k \in Kernel /\ Typed(s)
  BY DEF Wired, Good
<1>2. /\ d \in Kernel /\ d.s = s /\ d.ch = k.ch /\ d.in = k.in /\ d.caps = k.caps /\ d.taken = k.taken
  BY <1>1 DEF Kernel, Typed
<1> HIDE DEF d
<1>3. Steps(k, d)
  BY <1>2 DEF Steps, Step
<1>4. Tables(k, d)
  BY <1>2, <1>3, StaysWired DEF Wired, Quiet
<1>5. Removal(k, d, {})
  BY <1>2 DEF Removal, Drops
<1> QED BY <1>4, <1>5, RemovalCalls DEF d

(* The caller of a system call.                                            *)
LEMMA Caller ==
  ASSUME NEW k, Wired(k, {}), k.s.running, Me(k) # 0
  PROVE  /\ Me(k) \in User /\ Me(k) \in Pid /\ k.s.task[Me(k)].state = "running"
         /\ k \in Kernel /\ Good(k.s) /\ Typed(k.s)
         /\ Calm(k) => ~Present(k, Me(k))
<1>1. /\ Me(k) \in User /\ Me(k) \in Pid /\ k.s.task[Me(k)].state = "running"
      /\ k \in Kernel /\ Good(k.s) /\ Typed(k.s)
  BY TaskFields, Constants DEF Wired, Good, CpuAccounted, Me
<1>2. Calm(k) => ~Present(k, Me(k))
  BY <1>1 DEF Calm, Registered, Answerable, Sleeps
<1> QED BY <1>1, <1>2

LEMMA NothingDone ==
  ASSUME NEW k, Wired(k, {})
  PROVE  Tables(k, k) /\ (Calm(k) => Calls(k, k))
<1>1. Steps(k, k)
  BY DEF Steps, Step
<1>2. Removal(k, k, {})
  BY SameQuiet DEF Removal, Drops
<1> QED BY <1>1, <1>2, RemovalCalls DEF Tables

(* The ring of input events.                                               *)
LEMMA InputStep ==
  ASSUME NEW k, Wired(k, {}), NEW q \in Seq(Event), Len(q) <= InputCapacity,
         k.in.waiter.active => q = <<>>
  PROVE  LET d == [k EXCEPT !.in.q = q]
         IN  Tables(k, d) /\ (Calm(k) => Calls(k, d))
<1> DEFINE d == [k EXCEPT !.in.q = q]
<1>1. k \in Kernel
  BY DEF Wired
<1>2. /\ d \in Kernel /\ d.s = k.s /\ d.ch = k.ch /\ d.caps = k.caps /\ d.taken = k.taken
      /\ d.in.q = q /\ d.in.waiter = k.in.waiter
  BY <1>1 DEF Kernel
<1> HIDE DEF d
<1>3. Steps(k, d)
  BY <1>2 DEF Steps, Step
<1>4. InputSound(d.in)
  BY <1>2 DEF InputSound, Wired
<1>5. Tables(k, d)
  BY <1>2, <1>3, <1>4, StaysWired DEF Wired
<1>6. Removal(k, d, {})
  BY <1>2, SameQuiet DEF Removal, Drops
<1> QED BY <1>5, <1>6, RemovalCalls DEF d

LEMMA PollKeeps ==
  ASSUME NEW k, Wired(k, {}), NEW place
  PROVE  Tables(k, sys_input_poll(k, place)) /\ (Calm(k) => Calls(k, sys_input_poll(k, place)))
<1>1. CASE user_write_range(k, place) /\ k.in.q # <<>>
  <2>1. k.in.q \in Seq(Event) /\ Len(k.in.q) <= InputCapacity /\ ~k.in.waiter.active
    BY <1>1 DEF Wired, InputSound, Kernel
  <2>2. Tail(k.in.q) \in Seq(Event) /\ Len(Tail(k.in.q)) <= InputCapacity
    BY <1>1, <2>1, IpcConstants
  <2> QED BY <1>1, <2>1, <2>2, InputStep DEF sys_input_poll, input_poll
<1>2. CASE ~(user_write_range(k, place) /\ k.in.q # <<>>)
  BY <1>2, NothingDone DEF sys_input_poll
<1> QED BY <1>1, <1>2

LEMMA DiscardKeeps ==
  ASSUME NEW k, Wired(k, {})
  PROVE  Tables(k, input_discard_pending(k)) /\ (Calm(k) => Calls(k, input_discard_pending(k)))
<1>1. <<>> \in Seq(Event) /\ Len(<<>>) <= InputCapacity
  BY IpcConstants
<1> QED BY <1>1, InputStep DEF input_discard_pending

-----------------------------------------------------------------------------
(* Cancelled waits.                                                        *)

LEMMA LeastOfSet ==
  ASSUME NEW S, S \subseteq Nat, S # {}
  PROVE  \E n \in S : \A m \in S : n <= m
<1>1. PICK x \in S : \A y \in S : ~ (<<y, x>> \in OpToRel(<, Nat))
  BY NatLessThanWellFounded, WFMin
<1>2. ASSUME NEW y \in S PROVE x <= y
  <2>1. ~ (y < x)
    BY <1>1, <1>2 DEF OpToRel
  <2> QED BY <2>1
<1> QED BY <1>2

LEMMA CancelFacts ==
  ASSUME NEW k \in Kernel, NEW pid
  PROVE  LET d == ipc_cancel_wait(k, pid)
         IN  /\ d \in Kernel /\ d.s = k.s /\ d.in = k.in /\ d.caps = k.caps /\ d.taken = k.taken
             /\ \A c \in Chan : d.ch[c] = k.ch[c] \/ (WaitsOn(k, c, pid) /\ Forgets(k.ch[c], d.ch[c]))
             /\ (\E c \in Chan : WaitsOn(k, c, pid)) =>
                  \E c \in Chan : WaitsOn(k, c, pid) /\ Forgets(k.ch[c], d.ch[c])
<1> DEFINE d == ipc_cancel_wait(k, pid)
<1>1. CASE \A c \in Chan : ~WaitsOn(k, c, pid)
  BY <1>1 DEF ipc_cancel_wait
<1>2. CASE \E c \in Chan : WaitsOn(k, c, pid)
  <2> DEFINE S == {c \in Chan : WaitsOn(k, c, pid)}
             n == CHOOSE c \in Chan : WaitsOn(k, c, pid) /\ \A e \in Chan : WaitsOn(k, e, pid) => c <= e
  <2>1. S \subseteq Nat /\ S # {}
    BY <1>2, IpcConstants DEF Chan
  <2>2. PICK m \in S : \A e \in S : m <= e
    BY <2>1, LeastOfSet
  <2>3. n \in Chan /\ WaitsOn(k, n, pid)
    BY <2>2
  <2>4. d = [k EXCEPT !.ch[n].waiter = NoWaiter]
    BY <1>2 DEF ipc_cancel_wait
  <2> HIDE DEF n, d
  <2>5. /\ d \in Kernel /\ d.s = k.s /\ d.in = k.in /\ d.caps = k.caps /\ d.taken = k.taken
        /\ \A c \in Chan : c # n => d.ch[c] = k.ch[c]
        /\ d.ch[n] = [k.ch[n] EXCEPT !.waiter = NoWaiter]
    BY <2>3, <2>4, Facts DEF Kernel, Channel
  <2> QED BY <2>3, <2>5 DEF Forgets, d
<1> QED BY <1>1, <1>2

LEMMA InputCancelFacts ==
  ASSUME NEW k \in Kernel, NEW pid
  PROVE  LET d == input_cancel_wait(k, pid)
         IN  /\ d \in Kernel /\ d.s = k.s /\ d.ch = k.ch /\ d.caps = k.caps /\ d.taken = k.taken
             /\ d.in.q = k.in.q
             /\ d.in.waiter = IF Listens(k, pid) THEN NoInputWaiter ELSE k.in.waiter
<1>1. CASE Listens(k, pid)
  BY <1>1, Facts DEF input_cancel_wait, Listens, Kernel
<1>2. CASE ~Listens(k, pid)
  BY <1>2 DEF input_cancel_wait, Listens
<1> QED BY <1>1, <1>2

(* A waiter is only registered on a live channel.                          *)
LEMMA WaitersLive ==
  ASSUME NEW k, NEW X, Wired(k, X), NEW c \in Chan
  PROVE  /\ k.ch[c].waiter.active => k.ch[c].active
         /\ k.ch[c].sender.active => k.ch[c].active
BY Facts DEF Wired, ChannelSound

(* Syscall 50: the caller's own registrations, of which there are none     *)
(* while it runs, then the new process and the wait for it.                *)
LEMMA SpawnWaitKeeps ==
  ASSUME NEW k, Wired(k, {}), k.s.running, Me(k) # 0
  PROVE  LET d == sys_spawn_wait(k)
         IN  Tables(k, d) /\ (Calm(k) => Calls(k, d))
<1> DEFINE me == Me(k)
           one == ipc_cancel_wait(k, me)
           alone == input_cancel_wait(one, me)
           child == FirstUnused(k.s)
           made == scheduler_create_user(k.s, me)
           d == sys_spawn_wait(k)
<1>1. /\ me \in User /\ me \in Pid /\ k.s.task[me].state = "running"
      /\ k \in Kernel /\ Good(k.s) /\ Typed(k.s)
      /\ Calm(k) => ~Present(k, me)
  BY Caller
<1> HIDE DEF me
<1>2. /\ one \in Kernel /\ one.s = k.s /\ one.in = k.in /\ one.caps = k.caps /\ one.taken = k.taken
      /\ \A c \in Chan : one.ch[c] = k.ch[c] \/ (WaitsOn(k, c, me) /\ Forgets(k.ch[c], one.ch[c]))
  BY <1>1, CancelFacts
<1> HIDE DEF one
<1>3. /\ alone \in Kernel /\ alone.s = k.s /\ alone.ch = one.ch /\ alone.caps = k.caps
      /\ alone.taken = k.taken /\ alone.in.q = k.in.q
      /\ alone.in.waiter = IF Listens(k, me) THEN NoInputWaiter ELSE k.in.waiter
  BY <1>2, InputCancelFacts DEF Listens
<1> HIDE DEF alone
<1>4. /\ Good(d.s) /\ d \in Kernel /\ d.ch = alone.ch /\ d.in = alone.in /\ d.caps = alone.caps
      /\ d.taken = alone.taken
      /\ \A q \in User : Quiet(k.s, d.s, q)
  <2>1. CASE child = 0
    <3>1. d = alone
      BY <2>1 DEF sys_spawn_wait, alone, one, me
    <3> QED BY <1>1, <1>3, <3>1, SameQuiet
  <2>2. CASE child # 0
    <3> DEFINE s == scheduler_on_wait(made, child)
    <3>1. d = [alone EXCEPT !.s = s]
      BY <1>3, <2>2 DEF sys_spawn_wait, alone, one, me
    <3>2. child \in User /\ k.s.task[child].state = "unused" /\ child \in Pid /\ child \in 0 .. ProcessLimit
      <4>1. child \in User /\ k.s.task[child].state = "unused"
        BY <1>1, <2>2, FirstUnusedSlot
      <4> HIDE DEF child
      <4> QED BY <4>1, SchedulerConstants DEF Pid, User
    <3>3. Good(made)
      BY <1>1, CreateGood
    <3>4. made.current = k.s.current /\ made.task[child].state = "ready"
      <4>1. NewTask(me) \in Task /\ NewTask(me).state = "ready"
        BY <1>1, Constants, MakeTaskFacts DEF NewTask, TaskState
      <4>2. made = Put(k.s, child, NewTask(me))
        BY <2>2 DEF scheduler_create_user
      <4> HIDE DEF child, made
      <4>3. /\ \A q \in Pid : Put(k.s, child, NewTask(me)).task[q] = IF q = child THEN NewTask(me) ELSE k.s.task[q]
            /\ Put(k.s, child, NewTask(me)).current = k.s.current
        BY <1>1, <3>2, <4>1, PutFacts
      <4> QED BY <3>2, <4>1, <4>2, <4>3
    <3>5. ~CanReap(made, made.current, child)
      BY <3>4 DEF CanReap
    <3>6. ASSUME NEW q \in User
          PROVE  /\ Quiet(k.s, made, q)
                 /\ k.s.task[q].state = "ready" => made.task[q] = k.s.task[q]
      BY <1>1, CreateQuiet
    <3>7. made.current # 0
      BY <1>1, <3>4, Constants DEF me, Me
    <3> HIDE DEF made, child
    <3>8. Good(s) /\ \A q \in User : Quiet(made, s, q)
      BY <3>2, <3>3, <3>5, <3>7, WaitGood, WaitSlots
    <3> HIDE DEF s, d
    <3>9. \A q \in User : Quiet(k.s, s, q)
      BY <1>1, <3>6, <3>8, QuietTwice
    <3>10. /\ d \in Kernel /\ d.s = s /\ d.ch = alone.ch /\ d.in = alone.in /\ d.caps = alone.caps
           /\ d.taken = alone.taken
      BY <1>3, <3>1, <3>8 DEF Kernel, Good, Typed
    <3> QED BY <3>8, <3>9, <3>10
  <2> QED BY <2>1, <2>2
<1> HIDE DEF d
<1>5. Steps(k, d)
  BY <1>2, <1>3, <1>4 DEF Steps, Step, WaitsOn
<1>6. InputSound(d.in)
  BY <1>3, <1>4, Facts DEF InputSound, Wired
<1>7. ASSUME NEW c \in Chan
      PROVE  /\ d.ch[c].active = k.ch[c].active
             /\ d.ch[c].owner = k.ch[c].owner
             /\ d.ch[c].name = k.ch[c].name
  <2>1. k.ch[c] \in Channel /\ d.ch[c] = one.ch[c]
    BY <1>1, <1>3, <1>4 DEF Kernel
  <2>2. CASE d.ch[c] = k.ch[c]
    BY <2>2
  <2>3. CASE Forgets(k.ch[c], d.ch[c])
    BY <2>1, <2>3 DEF Forgets, Channel
  <2> QED BY <1>2, <2>1, <2>2, <2>3
<1>8. Tables(k, d)
  BY <1>3, <1>4, <1>5, <1>6, <1>7, StaysWired DEF Quiet
<1>9. ASSUME Calm(k) PROVE Removal(k, d, {})
  <2>1. ~Listens(k, me) /\ \A c \in Chan : ~Receives(k, me, c)
    BY <1>1, <1>9 DEF Present, Attends
  <2>2. d.in.waiter = k.in.waiter /\ \A c \in Chan : d.ch[c] = k.ch[c]
    BY <1>2, <1>3, <1>4, <2>1 DEF WaitsOn, Receives
  <2> QED BY <1>4, <2>2 DEF Removal, Drops
<1> QED BY <1>8, <1>9, RemovalCalls DEF d

(* What Forgets leaves of a channel.                                       *)
LEMMA ForgetsFacts ==
  ASSUME NEW a \in Channel, NEW b, Forgets(a, b)
  PROVE  /\ b.active = a.active /\ b.owner = a.owner /\ b.name = a.name /\ b.q = a.q
         /\ b.sender = a.sender /\ b.waiter = NoWaiter /\ ~b.waiter.active
BY Facts DEF Forgets, Channel

LEMMA EnqueueFacts ==
  ASSUME NEW q \in Seq(Event), Len(q) <= InputCapacity, NEW event \in Event
  PROVE  Enqueue(q, event) \in Seq(Event) /\ Len(Enqueue(q, event)) <= InputCapacity
BY IpcConstants DEF Enqueue

(* An event goes to the sleeping select, whose wait on its channel is      *)
(* cancelled, or into the ring.                                            *)
LEMMA PublishKeeps ==
  ASSUME NEW k, Wired(k, {}), NEW event \in Event
  PROVE  LET d == input_publish(k, event)
         IN  Tables(k, d) /\ (Calm(k) => Calls(k, d))
<1> DEFINE w == k.in.waiter
           pid == w.pid
           bare == [k EXCEPT !.in.waiter = NoInputWaiter]
           freed == ipc_cancel_wait(bare, pid)
           d == input_publish(k, event)
           woken == scheduler_wake(k.s, pid, GotEvent)
<1>1. /\ k \in Kernel /\ Good(k.s) /\ k.in.q \in Seq(Event) /\ Len(k.in.q) <= InputCapacity
      /\ \A c \in Chan : k.ch[c] \in Channel
  BY DEF Wired, Kernel, InputSound
<1>2. CASE ~w.active
  <2> DEFINE q == Enqueue(k.in.q, event)
  <2>1. d = [k EXCEPT !.in.q = q]
    BY <1>1, <1>2 DEF input_publish, Kernel
  <2>2. q \in Seq(Event) /\ Len(q) <= InputCapacity
    BY <1>1, EnqueueFacts
  <2> HIDE DEF q, d, freed, bare, woken
  <2>3. Tables(k, d) /\ (Calm(k) => Calls(k, d))
    BY <1>2, <2>1, <2>2, InputStep
  <2> QED BY <2>3 DEF d
<1>3. CASE w.active
  <2>1. k.in.q = <<>> /\ pid \in User /\ pid \in Pid
    BY <1>3, Constants DEF Wired, InputSound
  <2>2. /\ bare \in Kernel /\ bare.s = k.s /\ bare.ch = k.ch /\ bare.caps = k.caps
        /\ bare.taken = k.taken /\ bare.in.q = k.in.q /\ bare.in.waiter = NoInputWaiter
    BY <1>1, Facts DEF Kernel
  <2>3. \A c \in Chan : WaitsOn(bare, c, pid) <=> WaitsOn(k, c, pid)
    BY <2>2 DEF WaitsOn
  <2> HIDE DEF bare
  <2>4. /\ freed \in Kernel /\ freed.s = k.s /\ freed.in = bare.in /\ freed.caps = k.caps
        /\ freed.taken = k.taken
        /\ \A e \in Chan : freed.ch[e] = k.ch[e] \/ (WaitsOn(k, e, pid) /\ Forgets(k.ch[e], freed.ch[e]))
        /\ (\E e \in Chan : WaitsOn(k, e, pid)) =>
             \E e \in Chan : WaitsOn(k, e, pid) /\ Forgets(k.ch[e], freed.ch[e])
    BY <2>2, <2>3, CancelFacts
  <2>5. d = IF userspace_copy_to(freed, pid, w.place) /\ CanWake(k.s, pid)
            THEN [freed EXCEPT !.s = woken]
            ELSE [freed EXCEPT !.in.q = Enqueue(@, event)]
    BY <1>3 DEF input_publish, bare
  <2> HIDE DEF freed, w, pid
  <2>6. /\ Good(woken) /\ Typed(woken)
        /\ CanWake(k.s, pid) => woken.task[pid].state = "ready" /\ woken.task[pid].rax = GotEvent
        /\ \A q \in Pid : (q # pid \/ ~CanWake(k.s, pid)) => woken.task[q] = k.s.task[q]
    BY <1>1, WakeGood, WakeFacts, IpcResults DEF Good
  <2> HIDE DEF woken
  <2>7. /\ d \in Kernel /\ d.ch = freed.ch /\ d.caps = k.caps /\ d.taken = k.taken
        /\ d.in.waiter = NoInputWaiter /\ Len(d.in.q) <= InputCapacity
        /\ d.s \in {k.s, woken}
        /\ (userspace_copy_to(freed, pid, w.place) /\ CanWake(k.s, pid)) => d.s = woken
        /\ ~CanWake(k.s, pid) => d.s = k.s
    <3>1. CASE userspace_copy_to(freed, pid, w.place) /\ CanWake(k.s, pid)
      <4>1. d = [freed EXCEPT !.s = woken]
        BY <2>5, <3>1
      <4>2. d \in Kernel /\ d.ch = freed.ch /\ d.caps = freed.caps /\ d.taken = freed.taken
            /\ d.in = freed.in /\ d.s = woken
        BY <2>4, <2>6, <4>1 DEF Kernel, Typed
      <4> QED BY <1>1, <2>2, <2>4, <3>1, <4>2
    <3>2. CASE ~(userspace_copy_to(freed, pid, w.place) /\ CanWake(k.s, pid))
      <4>1. d = [freed EXCEPT !.in.q = Enqueue(freed.in.q, event)]
        BY <2>5, <3>2
      <4>2. freed.in.q = k.in.q /\ freed.in.waiter = NoInputWaiter
        BY <2>2, <2>4
      <4>3. Enqueue(freed.in.q, event) \in Seq(Event) /\ Len(Enqueue(freed.in.q, event)) <= InputCapacity
        BY <1>1, <4>2, EnqueueFacts
      <4>4. d \in Kernel /\ d.ch = freed.ch /\ d.caps = freed.caps /\ d.taken = freed.taken
            /\ d.in.q = Enqueue(freed.in.q, event) /\ d.in.waiter = freed.in.waiter /\ d.s = freed.s
        BY <2>4, <4>1, <4>3 DEF Kernel
      <4> QED BY <2>4, <3>2, <4>2, <4>3, <4>4
    <3> QED BY <3>1, <3>2
  <2> HIDE DEF d
  <2>8. Steps(k, d)
    BY <2>4, <2>7 DEF Steps, Step, WaitsOn
  <2>9. InputSound(d.in)
    BY <2>7, Facts DEF InputSound
  <2>10. ASSUME NEW e \in Chan
         PROVE  /\ d.ch[e].active = k.ch[e].active
                /\ d.ch[e].owner = k.ch[e].owner
                /\ d.ch[e].name = k.ch[e].name
                /\ d.ch[e].sender = k.ch[e].sender
                /\ d.ch[e].waiter = k.ch[e].waiter \/ (Receives(k, pid, e) /\ ~d.ch[e].waiter.active)
    BY <1>1, <2>4, <2>7, ForgetsFacts DEF WaitsOn, Receives
  <2>11. ASSUME NEW q \in User, q # pid PROVE d.s.task[q] = k.s.task[q]
    BY <2>6, <2>7, <2>11, Constants
  <2>12. d.s.task[pid].state = "unused" => k.s.task[pid].state = "unused"
    BY <2>1, <2>6, <2>7
  <2>13. Tables(k, d)
    <3>1. Good(d.s)
      BY <1>1, <2>6, <2>7
    <3>2. \A q \in User : d.s.task[q].state = "unused" => k.s.task[q].state = "unused"
      BY <2>11, <2>12
    <3> QED BY <2>7, <2>8, <2>9, <2>10, <3>1, <3>2, StaysWired
  <2>14. ASSUME Calm(k) PROVE Removal(k, d, {pid})
    <3>1. Answerable(k, pid) /\ Listens(k, pid)
      BY <1>3, <2>1, <2>14 DEF Calm, Registered, Listens, w, pid
    <3>2. Selects(k, pid) /\ (Sleeps(k.s, pid) \/ k.s.task[pid].state = "exited")
      BY <3>1 DEF Answerable, Present
    <3>3. PICK e \in Chan : Receives(k, pid, e)
      BY <3>2 DEF Selects
    <3>4. /\ \A f \in Chan : Receives(k, pid, f) => f = e
          /\ \A f \in Chan : ~Sends(k, pid, f)
      BY <3>1, <3>3 DEF Answerable, Attends
    <3>5. WaitsOn(k, e, pid)
      BY <3>3, WaitersLive DEF WaitsOn, Receives
    <3>6. Forgets(k.ch[e], d.ch[e])
      BY <2>4, <2>7, <3>4, <3>5 DEF WaitsOn, Receives
    <3>7. ~d.ch[e].waiter.active
      BY <1>1, <3>6, ForgetsFacts
    <3>8. ASSUME NEW f \in Chan PROVE ~Receives(d, pid, f) /\ ~Sends(d, pid, f)
      BY <2>10, <3>4, <3>7 DEF Receives, Sends
    <3>9. ~Present(d, pid)
      BY <2>7, <3>8, Facts DEF Present, Attends, Listens
    <3>10. Ended(k, d, pid)
      <4>1. CASE Sleeps(k.s, pid)
        <5>1. w.place = "heap"
          BY <1>3, <2>14 DEF Calm, Fitting, w
        <5>2. userspace_copy_to(freed, pid, w.place) /\ CanWake(k.s, pid)
          BY <2>1, <2>4, <4>1, <5>1 DEF userspace_copy_to, user_write_range, CanWake, Sleeps
        <5>3. d.s.task[pid].state = "ready" /\ d.s.task[pid].rax = GotEvent
          BY <2>6, <2>7, <5>2
        <5>4. GotEvent \in Answers(k, pid)
          BY <3>2, <3>4 DEF Answers
        <5> QED BY <3>9, <5>3, <5>4 DEF Ended, Sleeps
      <4>2. CASE k.s.task[pid].state = "exited"
        <5>1. d.s.task[pid].state = "exited" /\ ~Sleeps(k.s, pid)
          BY <2>7, <4>2 DEF CanWake, Sleeps
        <5> QED BY <3>9, <5>1 DEF Ended, Sleeps
      <4> QED BY <3>2, <4>1, <4>2
    <3>11. Drops(k, d, {pid})
      <4>1. ~d.in.waiter.active /\ k.in.waiter.pid = pid
        BY <2>7, Facts DEF w, pid
      <4>2. ASSUME NEW f \in Chan
            PROVE  /\ \/ d.ch[f].waiter = k.ch[f].waiter
                      \/ ~d.ch[f].waiter.active /\ (k.ch[f].waiter.active => k.ch[f].waiter.pid \in {pid})
                   /\ d.ch[f].sender = k.ch[f].sender
        BY <2>10 DEF Receives
      <4> QED BY <4>1, <4>2 DEF Drops
    <3> QED BY <2>11, <3>10, <3>11, SameQuiet DEF Removal
  <2> QED BY <2>13, <2>14, RemovalCalls DEF d
<1> QED BY <1>2, <1>3 DEF w

-----------------------------------------------------------------------------
(* Sending.                                                                *)

(* Direct delivery ends the receiver's call, or forgets it.                *)
LEMMA DeliverKeeps ==
  ASSUME NEW k, Wired(k, {}), NEW c \in Chan, k.ch[c].waiter.active, NEW m \in Sent
  PROVE  LET d == Deliver(k, c, m)
         IN  Tables(k, d) /\ (Calm(k) => Calls(k, d))
<1> DEFINE w == k.ch[c].waiter
           pid == w.pid
           freed == [k EXCEPT !.ch[c].waiter = NoWaiter]
           both == IF w.multiplex THEN input_cancel_wait(freed, pid) ELSE freed
           woken == scheduler_wake(k.s, pid, GotMessage)
           fails == m.length > w.capacity \/ ~userspace_copy_to(k, pid, w.place) \/ ~CanWake(k.s, pid)
           d == Deliver(k, c, m)
<1>1. /\ k \in Kernel /\ Good(k.s) /\ \A e \in Chan : k.ch[e] \in Channel
      /\ k.ch[c].active /\ m \in Message
  BY WaitersLive, Facts DEF Wired, Kernel
<1>2. /\ freed \in Kernel /\ freed.s = k.s /\ freed.in = k.in /\ freed.caps = k.caps
      /\ freed.taken = k.taken /\ \A e \in Chan : e # c => freed.ch[e] = k.ch[e]
      /\ freed.ch[c] = [k.ch[c] EXCEPT !.waiter = NoWaiter]
  <2> DEFINE b == [k.ch[c] EXCEPT !.waiter = NoWaiter]
             f == [k.ch EXCEPT ![c] = b]
  <2>1. b \in Channel
    BY <1>1, Facts DEF Channel
  <2>2. freed = [k EXCEPT !.ch = f]
    BY <1>1 DEF Kernel
  <2> HIDE DEF b
  <2>3. f \in [Chan -> Channel] /\ f[c] = b /\ \A e \in Chan : e # c => f[e] = k.ch[e]
    BY <1>1, <2>1 DEF Kernel
  <2> HIDE DEF f, freed
  <2>4. /\ freed \in Kernel /\ freed.ch = f /\ freed.s = k.s /\ freed.in = k.in
        /\ freed.caps = k.caps /\ freed.taken = k.taken
    BY <1>1, <2>2, <2>3 DEF Kernel
  <2> QED BY <2>3, <2>4 DEF b
<1>3. pid \in User /\ pid \in Pid
  BY <1>1, Constants DEF Wired, ChannelSound
<1> HIDE DEF freed
<1>4. /\ both \in Kernel /\ both.s = k.s /\ both.ch = freed.ch /\ both.caps = k.caps
      /\ both.taken = k.taken /\ both.in.q = k.in.q
      /\ \/ both.in.waiter = k.in.waiter
         \/ Listens(k, pid) /\ both.in.waiter = NoInputWaiter
      /\ (w.multiplex /\ Listens(k, pid)) => both.in.waiter = NoInputWaiter
  <2>1. CASE w.multiplex
    <3>1. Listens(freed, pid) <=> Listens(k, pid)
      BY <1>2 DEF Listens
    <3> HIDE DEF w, pid
    <3> QED BY <1>2, <2>1, <3>1, InputCancelFacts
  <2>2. CASE ~w.multiplex
    BY <1>2, <2>2
  <2> QED BY <2>1, <2>2
<1>5. d = IF fails THEN both ELSE [both EXCEPT !.s = woken, !.taken[c] = m]
  BY DEF Deliver, freed
<1> HIDE DEF both
<1>6. /\ Good(woken) /\ Typed(woken)
      /\ CanWake(k.s, pid) => woken.task[pid].state = "ready" /\ woken.task[pid].rax = GotMessage
      /\ \A q \in Pid : (q # pid \/ ~CanWake(k.s, pid)) => woken.task[q] = k.s.task[q]
  <2> HIDE DEF pid
  <2> QED BY <1>1, WakeGood, WakeFacts, IpcResults DEF Good
<1> HIDE DEF woken, w, pid
<1>7. /\ d \in Kernel /\ d.ch = freed.ch /\ d.caps = k.caps /\ d.in = both.in
      /\ \A e \in Chan : e # c => d.taken[e] = k.taken[e]
      /\ fails => d.s = k.s /\ d.taken[c] = k.taken[c]
      /\ ~fails => d.s = woken /\ d.taken[c] = m
  <2>1. CASE fails
    BY <1>4, <1>5, <2>1
  <2>2. CASE ~fails
    <3>1. d = [both EXCEPT !.s = woken, !.taken[c] = m]
      BY <1>5, <2>2
    <3> HIDE DEF d, fails
    <3> QED BY <1>1, <1>4, <1>6, <2>2, <3>1 DEF Kernel, Typed
  <2> QED BY <2>1, <2>2
<1>8. Forgets(k.ch[c], d.ch[c]) /\ \A e \in Chan : e # c => d.ch[e] = k.ch[e]
  BY <1>2, <1>7 DEF Forgets
<1> HIDE DEF d
<1>9. Steps(k, d)
  BY <1>1, <1>7, <1>8 DEF Steps, Step
<1>10. ASSUME NEW e \in Chan
       PROVE  /\ d.ch[e].active = k.ch[e].active
              /\ d.ch[e].owner = k.ch[e].owner
              /\ d.ch[e].name = k.ch[e].name
              /\ d.ch[e].sender = k.ch[e].sender
              /\ d.ch[e].waiter = k.ch[e].waiter \/ (e = c /\ ~d.ch[e].waiter.active)
  BY <1>1, <1>8, ForgetsFacts
<1>11. InputSound(d.in)
  BY <1>4, <1>7, Facts DEF InputSound, Wired
<1>12. ASSUME NEW q \in User, q # pid PROVE d.s.task[q] = k.s.task[q]
  BY <1>6, <1>7, <1>12, Constants
<1>13. d.s.task[pid].state = "unused" => k.s.task[pid].state = "unused"
  BY <1>3, <1>6, <1>7
<1>14. Tables(k, d)
  <2>1. Good(d.s)
    BY <1>1, <1>6, <1>7
  <2>2. \A q \in User : d.s.task[q].state = "unused" => k.s.task[q].state = "unused"
    BY <1>12, <1>13
  <2> QED BY <1>7, <1>9, <1>10, <1>11, <2>1, <2>2, StaysWired
<1>15. ASSUME Calm(k) PROVE Removal(k, d, {pid})
  <2>1. Answerable(k, pid) /\ Receives(k, pid, c)
    BY <1>3, <1>15 DEF Calm, Registered, Receives, w, pid
  <2>2. /\ \A f \in Chan : Receives(k, pid, f) => f = c
        /\ \A f \in Chan : ~Sends(k, pid, f)
        /\ Sleeps(k.s, pid) \/ k.s.task[pid].state = "exited"
    BY <2>1 DEF Answerable, Attends, Present
  <2>3. ASSUME NEW f \in Chan PROVE ~Receives(d, pid, f) /\ ~Sends(d, pid, f)
    <3>1. ~d.ch[c].waiter.active
      BY <1>1, <1>8, ForgetsFacts
    <3> QED BY <1>10, <2>2, <3>1 DEF Receives, Sends
  <2>4. ~Listens(d, pid)
    <3>1. CASE Listens(k, pid)
      <4>1. w.multiplex
        BY <2>1, <2>2, <3>1 DEF Answerable, Selects, w
      <4> QED BY <1>4, <1>7, <3>1, <4>1, Facts DEF Listens
    <3>2. CASE ~Listens(k, pid)
      BY <1>4, <1>7, <3>2 DEF Listens
    <3> QED BY <3>1, <3>2
  <2>5. ~Present(d, pid)
    BY <2>3, <2>4 DEF Present, Attends
  <2>6. Ended(k, d, pid)
    <3>1. CASE Sleeps(k.s, pid)
      <4>1. w.place = "heap" /\ m.length <= w.capacity
        BY <1>15 DEF Calm, Fitting, Sent, w
      <4>2. userspace_copy_to(k, pid, w.place) /\ CanWake(k.s, pid)
        BY <1>3, <3>1, <4>1 DEF userspace_copy_to, user_write_range, CanWake, Sleeps
      <4>3. ~(m.length > w.capacity)
        <5>1. m.length \in Nat /\ w.capacity \in Nat
          BY <1>1, IpcConstants DEF Message, Channel, Waiter, w
        <5> QED BY <4>1, <5>1
      <4>4. d.s.task[pid].state = "ready" /\ d.s.task[pid].rax = GotMessage
        BY <1>6, <1>7, <4>2, <4>3
      <4>5. GotMessage \in Answers(k, pid)
        BY <2>2 DEF Answers
      <4> QED BY <2>5, <4>4, <4>5 DEF Ended, Sleeps
    <3>2. CASE k.s.task[pid].state = "exited"
      <4>1. d.s.task[pid].state = "exited" /\ ~Sleeps(k.s, pid)
        BY <1>7, <3>2 DEF CanWake, Sleeps
      <4> QED BY <2>5, <4>1 DEF Ended, Sleeps
    <3> QED BY <2>2, <3>1, <3>2
  <2>7. Drops(k, d, {pid})
    <3>1. \/ d.in.waiter = k.in.waiter
          \/ ~d.in.waiter.active /\ k.in.waiter.pid = pid
      BY <1>4, <1>7, Facts DEF Listens
    <3>2. ASSUME NEW f \in Chan
          PROVE  /\ \/ d.ch[f].waiter = k.ch[f].waiter
                    \/ ~d.ch[f].waiter.active /\ (k.ch[f].waiter.active => k.ch[f].waiter.pid \in {pid})
                 /\ d.ch[f].sender = k.ch[f].sender
      BY <1>10 DEF w, pid
    <3> QED BY <3>1, <3>2 DEF Drops
  <2> QED BY <1>12, <2>6, <2>7, SameQuiet DEF Removal
<1> QED BY <1>14, <1>15, RemovalCalls DEF d

(* Syscall 16: delivered, queued, parked or dropped.                       *)
LEMMA SendKeeps ==
  ASSUME NEW k, Wired(k, {}), k.s.running, Me(k) # 0, NEW h \in Handle, NEW length \in Lengths
  PROVE  LET d == ipc_send_block(k, h, length)
         IN  Tables(k, d) /\ (Calm(k) => Calls(k, d))
<1> DEFINE me == Me(k)
           c == h.chan
           a == k.ch[c]
           m == [sender |-> me, length |-> length]
           d == ipc_send_block(k, h, length)
<1>1. /\ me \in User /\ me \in Pid /\ k.s.task[me].state = "running"
      /\ k \in Kernel /\ Good(k.s) /\ Typed(k.s)
      /\ c \in Chan /\ a \in Channel /\ m \in Sent /\ \A e \in Chan : k.ch[e] \in Channel
      /\ m.sender = me
  BY Caller DEF Handle, Kernel, Sent
<1> HIDE DEF c, m, me
<1>2. CASE ~resolve(k, me, h, "send")
  BY <1>2, NothingDone DEF ipc_send_block, me
<1>3. CASE resolve(k, me, h, "send") /\ a.waiter.active
  <2>1. d = Deliver(k, c, m)
    BY <1>3 DEF ipc_send_block, c, m, me
  <2> QED BY <1>1, <1>3, <2>1, DeliverKeeps
<1>4. CASE resolve(k, me, h, "send") /\ ~a.waiter.active /\ Len(a.q) < QueueDepth
  <2>1. d = [k EXCEPT !.ch[c].q = Append(@, m)]
    BY <1>4 DEF ipc_send_block, c, m, me
  <2>2. Append(a.q, m) \in Seq(Message)
    BY <1>1, Facts DEF Channel
  <2>3. /\ d \in Kernel /\ d.s = k.s /\ d.in = k.in /\ d.caps = k.caps /\ d.taken = k.taken
        /\ \A e \in Chan : e # c => d.ch[e] = k.ch[e]
        /\ d.ch[c] = [a EXCEPT !.q = Append(a.q, m)]
    <3> DEFINE b == [a EXCEPT !.q = Append(a.q, m)]
    <3>1. b \in Channel
      BY <1>1, <2>2 DEF Channel
    <3>2. d = [k EXCEPT !.ch = [k.ch EXCEPT ![c] = b]]
      BY <2>1
    <3> HIDE DEF b, d
    <3>3. [k.ch EXCEPT ![c] = b] \in [Chan -> Channel]
      BY <1>1, <3>1 DEF Kernel
    <3>4. /\ d \in Kernel /\ d.s = k.s /\ d.in = k.in /\ d.caps = k.caps /\ d.taken = k.taken
          /\ d.ch = [k.ch EXCEPT ![c] = b]
      BY <1>1, <3>2, <3>3 DEF Kernel
    <3> QED BY <1>1, <3>4 DEF Kernel, b
  <2> HIDE DEF d
  <2>4. Queues(a, d.ch[c], m) /\ a.active
    BY <1>4, <2>3 DEF Queues, resolve, c
  <2>5. Steps(k, d)
    BY <1>1, <2>3, <2>4 DEF Steps, Step
  <2>6. ASSUME NEW e \in Chan
        PROVE  /\ d.ch[e].active = k.ch[e].active /\ d.ch[e].owner = k.ch[e].owner
               /\ d.ch[e].name = k.ch[e].name
               /\ d.ch[e].waiter = k.ch[e].waiter /\ d.ch[e].sender = k.ch[e].sender
    BY <1>1, <2>3 DEF Channel
  <2>7. Tables(k, d)
    BY <2>3, <2>5, <2>6, StaysWired DEF Wired
  <2>8. Removal(k, d, {})
    BY <2>3, <2>6, SameQuiet DEF Removal, Drops
  <2> QED BY <2>7, <2>8, RemovalCalls DEF d
<1>5. CASE /\ resolve(k, me, h, "send") /\ ~a.waiter.active /\ ~(Len(a.q) < QueueDepth)
           /\ a.sender.active
  BY <1>5, NothingDone DEF ipc_send_block, c, me
<1>6. CASE /\ resolve(k, me, h, "send") /\ ~a.waiter.active /\ ~(Len(a.q) < QueueDepth)
           /\ ~a.sender.active
  <2> DEFINE s == scheduler_block_current(k.s)
             p == [active |-> TRUE, msg |-> m]
  <2>1. d = [k EXCEPT !.ch[c].sender = p, !.s = s]
    BY <1>6 DEF ipc_send_block, c, m, me
  <2>2. p \in SendWaiter /\ p.active /\ p.msg = m
    BY <1>1, Facts DEF SendWaiter
  <2>3. /\ Good(s) /\ Typed(s) /\ Sleeps(s, me) /\ ~s.task[me].timed
        /\ \A q \in User : q # me => Quiet(k.s, s, q)
    <3>1. 0 \in 0 .. MaxDelay
      BY SchedulerConstants
    <3> QED BY <1>1, <3>1, BlockCurrentGood, SleepSlots DEF Good, me, Me
  <2> HIDE DEF p, s
  <2>4. /\ d \in Kernel /\ d.s = s /\ d.in = k.in /\ d.caps = k.caps /\ d.taken = k.taken
        /\ \A e \in Chan : e # c => d.ch[e] = k.ch[e]
        /\ d.ch[c] = [a EXCEPT !.sender = p]
    <3> DEFINE b == [a EXCEPT !.sender = p]
    <3>1. b \in Channel
      BY <1>1, <2>2 DEF Channel
    <3>2. d = [k EXCEPT !.ch = [k.ch EXCEPT ![c] = b], !.s = s]
      BY <2>1
    <3> HIDE DEF b, d
    <3>3. [k.ch EXCEPT ![c] = b] \in [Chan -> Channel]
      BY <1>1, <3>1 DEF Kernel
    <3>4. /\ d \in Kernel /\ d.s = s /\ d.in = k.in /\ d.caps = k.caps /\ d.taken = k.taken
          /\ d.ch = [k.ch EXCEPT ![c] = b]
      BY <1>1, <2>3, <3>2, <3>3 DEF Kernel, Typed
    <3> QED BY <1>1, <3>4 DEF Kernel, b
  <2> HIDE DEF d
  <2>5. Len(a.q) = QueueDepth /\ a.active
    BY <1>1, <1>6, IpcConstants DEF Wired, ChannelSound, resolve, c
  <2>6. Parks(a, d.ch[c], m)
    BY <1>6, <2>4, <2>5 DEF Parks, p
  <2>7. Steps(k, d)
    BY <1>1, <2>4, <2>5, <2>6 DEF Steps, Step
  <2>8. ASSUME NEW e \in Chan
        PROVE  /\ d.ch[e].active = k.ch[e].active /\ d.ch[e].owner = k.ch[e].owner
               /\ d.ch[e].name = k.ch[e].name /\ d.ch[e].waiter = k.ch[e].waiter
    BY <1>1, <2>4 DEF Channel
  <2>9. \A q \in User : d.s.task[q].state = "unused" => k.s.task[q].state = "unused"
    BY <2>3, <2>4 DEF Quiet, Sleeps
  <2>10. Tables(k, d)
    BY <2>3, <2>4, <2>7, <2>8, <2>9, StaysWired DEF Wired
  <2>11. Sends(d, me, c)
    <3>1. d.ch[c].sender = p
      BY <1>1, <2>4 DEF Channel
    <3> QED BY <1>1, <2>2, <3>1 DEF Sends
  <2>12. Falls(k, d, me, c)
    BY <1>1, <1>6, <2>3, <2>4, <2>8, <2>11 DEF Falls
  <2>13. Calm(k) => Fitting(d)
    BY <2>4, <2>8 DEF Calm, Fitting
  <2> QED BY <2>10, <2>12, <2>13, FallsCalls DEF d
<1> QED BY <1>2, <1>3, <1>4, <1>5, <1>6

-----------------------------------------------------------------------------
(* Receiving.                                                              *)

(* The head is taken; a parked message follows, and its sender's call ends. *)
LEMMA TakeKeeps ==
  ASSUME NEW k, Wired(k, {}), NEW h \in Handle, NEW capacity, CanTake(k, h, capacity)
  PROVE  LET d == ipc_receive(k, h)
         IN  Tables(k, d) /\ (Calm(k) => Calls(k, d))
<1> DEFINE c == h.chan
           a == k.ch[c]
           d == ipc_receive(k, h)
<1>1. /\ k \in Kernel /\ Good(k.s) /\ Typed(k.s)
      /\ c \in Chan /\ a \in Channel /\ \A e \in Chan : k.ch[e] \in Channel
      /\ a.active /\ a.q # <<>> /\ a.q \in Seq(Message) /\ ChannelSound(a)
  BY DEF Wired, Good, Handle, Kernel, Channel, CanTake, resolve
<1>2. Head(a.q) \in Message /\ Tail(a.q) \in Seq(Message)
  BY <1>1
<1> HIDE DEF c
<1>3. CASE ~a.sender.active
  <2> DEFINE b == [a EXCEPT !.q = Tail(a.q)]
  <2>1. d = [k EXCEPT !.ch = [k.ch EXCEPT ![c] = b], !.taken = [k.taken EXCEPT ![c] = Head(a.q)]]
    BY <1>3 DEF ipc_receive, c
  <2>2. b \in Channel /\ b.active = a.active /\ b.owner = a.owner /\ b.name = a.name
        /\ b.waiter = a.waiter /\ b.sender = a.sender
    BY <1>1, <1>2 DEF Channel
  <2>3. Takes(a, b)
    BY <1>1, <1>3 DEF Takes
  <2> HIDE DEF b, d
  <2>4. /\ [k.ch EXCEPT ![c] = b] \in [Chan -> Channel]
        /\ [k.taken EXCEPT ![c] = Head(a.q)] \in [Chan -> Message \cup {NoMessage}]
    BY <1>1, <1>2, <2>2 DEF Kernel
  <2>5. /\ d \in Kernel /\ d.s = k.s /\ d.in = k.in /\ d.caps = k.caps
        /\ d.ch = [k.ch EXCEPT ![c] = b] /\ d.taken = [k.taken EXCEPT ![c] = Head(a.q)]
    BY <1>1, <2>1, <2>4 DEF Kernel
  <2>6. /\ d.ch[c] = b /\ d.taken[c] = Head(a.q)
        /\ \A e \in Chan : e # c => d.ch[e] = k.ch[e] /\ d.taken[e] = k.taken[e]
    BY <1>1, <2>5 DEF Kernel
  <2>7. Steps(k, d)
    BY <1>1, <2>3, <2>6 DEF Steps, Step
  <2>8. ASSUME NEW e \in Chan
        PROVE  /\ d.ch[e].active = k.ch[e].active /\ d.ch[e].owner = k.ch[e].owner
               /\ d.ch[e].name = k.ch[e].name
               /\ d.ch[e].waiter = k.ch[e].waiter /\ d.ch[e].sender = k.ch[e].sender
    BY <2>2, <2>6
  <2>9. Tables(k, d)
    <3>1. d \in Kernel /\ Good(d.s) /\ InputSound(d.in) /\ d.caps = k.caps
      BY <2>5 DEF Wired
    <3>2. \A q \in User : d.s.task[q].state = "unused" => k.s.task[q].state = "unused"
      BY <2>5
    <3> QED BY <2>7, <2>8, <3>1, <3>2, StaysWired
  <2>10. Removal(k, d, {})
    BY <2>5, <2>8, SameQuiet DEF Removal, Drops
  <2> QED BY <2>9, <2>10, RemovalCalls DEF d
<1>4. CASE a.sender.active
  <2> DEFINE m == a.sender.msg
             pid == m.sender
             b == [a EXCEPT !.q = Append(Tail(a.q), m), !.sender = NoSender]
             s == scheduler_wake(k.s, pid, GotSent)
  <2>1. d = [k EXCEPT !.ch = [k.ch EXCEPT ![c] = b], !.s = s,
                      !.taken = [k.taken EXCEPT ![c] = Head(a.q)]]
    <3>1. d = [k EXCEPT !.ch[c].q = Append(Tail(@), m), !.ch[c].sender = NoSender,
                        !.s = s, !.taken[c] = Head(a.q)]
      BY <1>4 DEF ipc_receive, c
    <3> HIDE DEF d, s, m
    <3>2. k.ch \in [Chan -> Channel]
      BY <1>1 DEF Kernel
    <3>3. [k.ch EXCEPT ![c].q = Append(Tail(@), m), ![c].sender = NoSender] = [k.ch EXCEPT ![c] = b]
      BY <1>1, <3>2 DEF Channel
    <3>4. d = [k EXCEPT !.ch = [k.ch EXCEPT ![c].q = Append(Tail(@), m), ![c].sender = NoSender],
                        !.s = s, !.taken = [k.taken EXCEPT ![c] = Head(a.q)]]
      BY <1>1, <3>1 DEF Kernel
    <3> QED BY <3>3, <3>4
  <2>2. m \in Message /\ pid \in User /\ pid \in Pid
    BY <1>1, <1>4, Facts DEF ChannelSound, Message
  <2>3. /\ Good(s) /\ Typed(s)
        /\ CanWake(k.s, pid) => s.task[pid].state = "ready" /\ s.task[pid].rax = GotSent
        /\ \A q \in Pid : (q # pid \/ ~CanWake(k.s, pid)) => s.task[q] = k.s.task[q]
    <3> HIDE DEF pid
    <3> QED BY <1>1, WakeGood, WakeFacts, IpcResults DEF Good
  <2>4. b \in Channel /\ b.active = a.active /\ b.owner = a.owner /\ b.name = a.name
        /\ b.waiter = a.waiter /\ b.sender = NoSender
    <3>1. Append(Tail(a.q), m) \in Seq(Message)
      BY <1>2, <2>2
    <3> HIDE DEF m
    <3> QED BY <1>1, <3>1, Facts DEF Channel
  <2>5. Takes(a, b)
    BY <1>1, <1>4 DEF Takes
  <2> HIDE DEF b, d, s
  <2>6. /\ [k.ch EXCEPT ![c] = b] \in [Chan -> Channel]
        /\ [k.taken EXCEPT ![c] = Head(a.q)] \in [Chan -> Message \cup {NoMessage}]
    BY <1>1, <1>2, <2>4 DEF Kernel
  <2>7. /\ d \in Kernel /\ d.s = s /\ d.in = k.in /\ d.caps = k.caps
        /\ d.ch = [k.ch EXCEPT ![c] = b] /\ d.taken = [k.taken EXCEPT ![c] = Head(a.q)]
    BY <1>1, <2>1, <2>3, <2>6 DEF Kernel, Typed
  <2>8. /\ d.ch[c] = b /\ d.taken[c] = Head(a.q)
        /\ \A e \in Chan : e # c => d.ch[e] = k.ch[e] /\ d.taken[e] = k.taken[e]
    BY <1>1, <2>7 DEF Kernel
  <2>9. Steps(k, d)
    BY <1>1, <2>5, <2>8 DEF Steps, Step
  <2>10. ASSUME NEW e \in Chan
        PROVE  /\ d.ch[e].active = k.ch[e].active /\ d.ch[e].owner = k.ch[e].owner
               /\ d.ch[e].name = k.ch[e].name
               /\ d.ch[e].waiter = k.ch[e].waiter
               /\ e # c => d.ch[e].sender = k.ch[e].sender
    BY <2>4, <2>8
  <2>11. ASSUME NEW q \in User, q # pid PROVE d.s.task[q] = k.s.task[q]
    BY <2>3, <2>7, <2>11, Constants
  <2>12. \A q \in User : d.s.task[q].state = "unused" => k.s.task[q].state = "unused"
    BY <2>2, <2>3, <2>7, <2>11
  <2>13. Tables(k, d)
    <3>1. InputSound(d.in) /\ Good(d.s)
      BY <2>3, <2>7 DEF Wired
    <3>2. \A e \in Chan : /\ d.ch[e].active = k.ch[e].active
                          /\ d.ch[e].owner = k.ch[e].owner
                          /\ d.ch[e].name = k.ch[e].name
      BY <2>10
    <3> QED BY <2>7, <2>9, <2>12, <3>1, <3>2, StaysWired
  <2> HIDE DEF pid, m
  <2>14. ASSUME Calm(k) PROVE Removal(k, d, {pid})
    <3>1. Answerable(k, pid) /\ Sends(k, pid, c)
      BY <1>4, <2>2, <2>14 DEF Calm, Registered, Sends, m, pid
    <3>2. /\ \A f \in Chan : Sends(k, pid, f) => f = c
          /\ \A f \in Chan : ~Receives(k, pid, f)
          /\ Sleeps(k.s, pid) \/ k.s.task[pid].state = "exited"
      BY <1>1, <3>1 DEF Answerable, Attends, Present
    <3>3. ~Listens(k, pid)
      BY <3>1, <3>2 DEF Answerable, Selects
    <3>4. ASSUME NEW f \in Chan PROVE ~Receives(d, pid, f) /\ ~Sends(d, pid, f)
      BY <2>4, <2>8, <2>10, <3>2, Facts DEF Receives, Sends
    <3>5. ~Present(d, pid)
      BY <2>7, <3>3, <3>4 DEF Present, Attends, Listens
    <3>6. Ended(k, d, pid)
      <4>1. CASE Sleeps(k.s, pid)
        <5>1. d.s.task[pid].state = "ready" /\ d.s.task[pid].rax = GotSent
          BY <2>2, <2>3, <2>7, <4>1 DEF CanWake, Sleeps
        <5>2. GotSent \in Answers(k, pid)
          BY <1>1, <3>1 DEF Answers
        <5> QED BY <3>5, <5>1, <5>2 DEF Ended, Sleeps
      <4>2. CASE k.s.task[pid].state = "exited"
        <5>1. d.s.task[pid].state = "exited" /\ ~Sleeps(k.s, pid)
          BY <2>2, <2>3, <2>7, <4>2 DEF CanWake, Sleeps
        <5> QED BY <3>5, <5>1 DEF Ended, Sleeps
      <4> QED BY <3>2, <4>1, <4>2
    <3>7. Drops(k, d, {pid})
      <4>1. ~d.ch[c].sender.active /\ k.ch[c].sender.msg.sender = pid
        BY <2>4, <2>8, Facts DEF pid, m
      <4> QED BY <2>7, <2>10, <4>1 DEF Drops
    <3> QED BY <2>11, <3>6, <3>7, SameQuiet DEF Removal
  <2> QED BY <2>13, <2>14, RemovalCalls DEF d
<1> QED BY <1>3, <1>4

(* The caller's own wait is cancelled: it has none while it runs.          *)
LEMMA CancelKeeps ==
  ASSUME NEW k, Wired(k, {}), k.s.running, Me(k) # 0
  PROVE  LET d == ipc_cancel_wait(k, Me(k))
         IN  Tables(k, d) /\ (Calm(k) => Calls(k, d))
<1> DEFINE me == Me(k)
           d == ipc_cancel_wait(k, me)
<1>1. /\ k \in Kernel /\ Good(k.s) /\ \A c \in Chan : k.ch[c] \in Channel
      /\ Calm(k) => ~Present(k, me)
  BY Caller DEF Kernel
<1> HIDE DEF me
<1>2. /\ d \in Kernel /\ d.s = k.s /\ d.in = k.in /\ d.caps = k.caps /\ d.taken = k.taken
      /\ \A c \in Chan : d.ch[c] = k.ch[c] \/ (WaitsOn(k, c, me) /\ Forgets(k.ch[c], d.ch[c]))
  BY <1>1, CancelFacts
<1> HIDE DEF d
<1>3. Steps(k, d)
  BY <1>2 DEF Steps, Step, WaitsOn
<1>4. ASSUME NEW c \in Chan
      PROVE  /\ d.ch[c].active = k.ch[c].active /\ d.ch[c].owner = k.ch[c].owner
             /\ d.ch[c].name = k.ch[c].name
  BY <1>1, <1>2, ForgetsFacts
<1>5. Tables(k, d)
  BY <1>2, <1>3, <1>4, StaysWired DEF Wired
<1>6. ASSUME Calm(k) PROVE Removal(k, d, {})
  <2>1. \A c \in Chan : d.ch[c] = k.ch[c]
    BY <1>1, <1>2, <1>6 DEF WaitsOn, Present, Attends, Receives
  <2> QED BY <1>2, <2>1, SameQuiet DEF Removal, Drops
<1> QED BY <1>5, <1>6, RemovalCalls DEF d, me

(* The handle to receive is the owner's.                                   *)
LEMMA ReceiverOwns ==
  ASSUME NEW k, Wired(k, {}), Me(k) \in User, NEW h \in Handle, resolve(k, Me(k), h, "receive")
  PROVE  h.chan \in Chan /\ k.ch[h.chan].active /\ k.ch[h.chan].owner = Me(k)
BY DEF Wired, HandlesSound, resolve, Handle

(* Syscall 17: a message is taken, or the caller registers and sleeps.     *)
LEMMA ReceiveKeeps ==
  ASSUME NEW k, Wired(k, {}), k.s.running, Me(k) # 0, NEW h \in Handle, NEW place \in Places,
         NEW capacity \in Capacities, NEW nonblock \in BOOLEAN
  PROVE  LET d == sys_receive(k, h, place, capacity, nonblock)
         IN  Tables(k, d) /\ (Calm(k) => Calls(k, d))
<1> DEFINE me == Me(k)
           c == h.chan
           a == k.ch[c]
           d == sys_receive(k, h, place, capacity, nonblock)
<1>1. CASE ~user_write_range(k, place)
  BY <1>1, NothingDone DEF sys_receive
<1>2. CASE user_write_range(k, place) /\ CanTake(k, h, capacity)
  BY <1>2, TakeKeeps DEF sys_receive
<1>3. CASE /\ user_write_range(k, place) /\ ~CanTake(k, h, capacity)
           /\ (nonblock \/ ~CanRegister(k, h))
  BY <1>3, NothingDone DEF sys_receive
<1>4. CASE /\ user_write_range(k, place) /\ ~CanTake(k, h, capacity)
           /\ ~(nonblock \/ ~CanRegister(k, h))
  <2> DEFINE s == scheduler_block_current(k.s)
             w == [active |-> TRUE, pid |-> me, place |-> place, capacity |-> capacity,
                   multiplex |-> FALSE]
             b == [a EXCEPT !.waiter = w]
  <2>1. /\ me \in User /\ me \in Pid /\ k.s.task[me].state = "running"
        /\ k \in Kernel /\ Good(k.s) /\ Typed(k.s)
        /\ \A e \in Chan : k.ch[e] \in Channel
    BY Caller DEF Kernel
  <2>2. /\ c \in Chan /\ a \in Channel /\ a.active /\ a.owner = me /\ ~a.waiter.active
        /\ ChannelSound(a)
    BY <1>4, <2>1, ReceiverOwns DEF CanRegister, Wired
  <2>3. a.q # <<>> => Head(a.q).length > capacity
    <3>1. SUFFICES ASSUME a.q # <<>> PROVE Head(a.q).length > capacity
      OBVIOUS
    <3>2. ~(Head(a.q).length <= capacity)
      BY <1>4, <3>1 DEF CanTake, CanRegister
    <3>3. Head(a.q) \in Message
      BY <2>2, <3>1 DEF Channel
    <3>4. Head(a.q).length \in Nat /\ capacity \in Nat
      BY <3>3, IpcConstants DEF Message
    <3> QED BY <3>2, <3>4
  <2>4. w \in Waiter /\ w.active /\ w.pid = me /\ ~w.multiplex /\ w.capacity = capacity /\ w.place = place
    BY <2>1, IpcPlaces, IpcConstants DEF Waiter
  <2>5. /\ Good(s) /\ Typed(s) /\ Sleeps(s, me) /\ ~s.task[me].timed
        /\ \A q \in User : q # me => Quiet(k.s, s, q)
    <3>1. 0 \in 0 .. MaxDelay
      BY SchedulerConstants
    <3> QED BY <2>1, <3>1, BlockCurrentGood, SleepSlots DEF Good, Me
  <2>6. d = [k EXCEPT !.ch = [k.ch EXCEPT ![c] = b], !.s = s]
    <3>1. ipc_wait(k, h, place, capacity, FALSE) = [k EXCEPT !.ch[c].waiter = w]
      BY DEF ipc_wait
    <3>2. d = [ipc_wait(k, h, place, capacity, FALSE) EXCEPT !.s = scheduler_block_current(@)]
      BY <1>4 DEF sys_receive
    <3> HIDE DEF w, d
    <3>3. ipc_wait(k, h, place, capacity, FALSE).s = k.s
      BY <2>1, <3>1 DEF Kernel
    <3> QED BY <3>1, <3>2, <3>3
  <2> HIDE DEF w, s, d, c, me
  <2>7. b \in Channel /\ b.active = a.active /\ b.owner = a.owner /\ b.name = a.name
        /\ b.waiter = w /\ b.sender = a.sender
    BY <2>2, <2>4 DEF Channel
  <2>8. Waits(a, b, w)
    BY <2>2, <2>3, <2>4 DEF Waits
  <2> HIDE DEF b
  <2>9. [k.ch EXCEPT ![c] = b] \in [Chan -> Channel]
    BY <2>1, <2>2, <2>7 DEF Kernel
  <2>10. /\ d \in Kernel /\ d.s = s /\ d.in = k.in /\ d.caps = k.caps /\ d.taken = k.taken
         /\ d.ch = [k.ch EXCEPT ![c] = b]
    BY <2>1, <2>5, <2>6, <2>9 DEF Kernel, Typed
  <2>11. d.ch[c] = b /\ \A e \in Chan : e # c => d.ch[e] = k.ch[e]
    BY <2>1, <2>2, <2>10 DEF Kernel
  <2>12. Steps(k, d)
    BY <2>2, <2>4, <2>8, <2>10, <2>11 DEF Steps, Step
  <2>13. \A e \in Chan : /\ d.ch[e].active = k.ch[e].active
                         /\ d.ch[e].owner = k.ch[e].owner
                         /\ d.ch[e].name = k.ch[e].name
    BY <2>7, <2>11
  <2>14. \A q \in User : d.s.task[q].state = "unused" => k.s.task[q].state = "unused"
    BY <2>5, <2>10 DEF Quiet, Sleeps
  <2>15. Tables(k, d)
    BY <2>5, <2>10, <2>12, <2>13, <2>14, StaysWired DEF Wired
  <2>16. Falls(k, d, me, c)
    <3>1. Receives(d, me, c) /\ ~d.ch[c].waiter.multiplex /\ d.ch[c].sender = k.ch[c].sender
      BY <2>4, <2>7, <2>11 DEF Receives
    <3> QED BY <2>1, <2>2, <2>5, <2>10, <2>11, <3>1 DEF Falls
  <2>17. Calm(k) => Fitting(d)
    <3>1. SUFFICES ASSUME Calm(k) PROVE Fitting(d)
      OBVIOUS
    <3>2. w.place = "heap" /\ \A length \in Lengths : length <= w.capacity
      BY <2>4, <3>1 DEF Calm, BuffersFit, LengthsFit
    <3> QED BY <2>7, <2>10, <2>11, <3>1, <3>2 DEF Calm, Fitting
  <2> QED BY <2>15, <2>16, <2>17, FallsCalls DEF d
<1> QED BY <1>1, <1>2, <1>3, <1>4

(* Syscall 26: a message, an event, or both waits and one sleep.           *)
LEMMA SelectKeeps ==
  ASSUME NEW k, Wired(k, {}), k.s.running, Me(k) # 0, NEW h \in Handle, NEW place \in Places,
         NEW eplace \in Places, NEW delay \in 0 .. MaxDelay
  PROVE  LET d == sys_select(k, h, place, eplace, delay)
         IN  Tables(k, d) /\ (Calm(k) => Calls(k, d))
<1> DEFINE me == Me(k)
           c == h.chan
           a == k.ch[c]
           ready == user_write_range(k, place) /\ user_write_range(k, eplace)
           d == sys_select(k, h, place, eplace, delay)
<1>1. CASE ~ready
  BY <1>1, NothingDone DEF sys_select
<1>2. CASE ready /\ CanTake(k, h, MessageMax)
  BY <1>2, TakeKeeps DEF sys_select
<1>3. CASE ready /\ ~CanTake(k, h, MessageMax) /\ k.in.q # <<>>
  <2>1. k.in.q \in Seq(Event) /\ Len(k.in.q) <= InputCapacity /\ ~k.in.waiter.active
    BY <1>3 DEF Wired, InputSound, Kernel
  <2>2. Tail(k.in.q) \in Seq(Event) /\ Len(Tail(k.in.q)) <= InputCapacity
    BY <1>3, <2>1, IpcConstants
  <2> QED BY <1>3, <2>1, <2>2, InputStep DEF sys_select, input_poll
<1>4. CASE /\ ready /\ ~CanTake(k, h, MessageMax) /\ k.in.q = <<>>
           /\ (~CanRegister(k, h) \/ k.in.waiter.active)
  BY <1>4, CancelKeeps DEF sys_select
<1>5. CASE /\ ready /\ ~CanTake(k, h, MessageMax) /\ k.in.q = <<>>
           /\ ~(~CanRegister(k, h) \/ k.in.waiter.active)
  <2> DEFINE s == scheduler_block_current_timeout(k.s, delay)
             w == [active |-> TRUE, pid |-> me, place |-> place, capacity |-> MessageMax,
                   multiplex |-> TRUE]
             v == [active |-> TRUE, pid |-> me, place |-> eplace]
             b == [a EXCEPT !.waiter = w]
  <2>1. /\ me \in User /\ me \in Pid /\ k.s.task[me].state = "running"
        /\ k \in Kernel /\ Good(k.s) /\ Typed(k.s)
        /\ \A e \in Chan : k.ch[e] \in Channel
    BY Caller DEF Kernel
  <2>2. /\ c \in Chan /\ a \in Channel /\ a.active /\ a.owner = me /\ ~a.waiter.active
        /\ ChannelSound(a)
    BY <1>5, <2>1, ReceiverOwns DEF CanRegister, Wired
  <2>3. a.q # <<>> => Head(a.q).length > MessageMax
    <3>1. SUFFICES ASSUME a.q # <<>> PROVE Head(a.q).length > MessageMax
      OBVIOUS
    <3>2. ~(Head(a.q).length <= MessageMax)
      BY <1>5, <3>1 DEF CanTake, CanRegister
    <3>3. Head(a.q) \in Message
      BY <2>2, <3>1 DEF Channel
    <3>4. Head(a.q).length \in Nat /\ MessageMax \in Nat
      BY <3>3, IpcConstants DEF Message
    <3> QED BY <3>2, <3>4
  <2>4. w \in Waiter /\ w.active /\ w.pid = me /\ w.multiplex /\ w.capacity = MessageMax /\ w.place = place
    BY <2>1, IpcPlaces, IpcConstants DEF Waiter
  <2>5. v \in InputWaiter /\ v.active /\ v.pid = me /\ v.place = eplace
    BY <2>1, IpcPlaces DEF InputWaiter
  <2>6. /\ Good(s) /\ Typed(s) /\ Sleeps(s, me)
        /\ \A q \in User : q # me => Quiet(k.s, s, q)
    BY <2>1, BlockTimeoutGood, SleepSlots DEF Good, Me
  <2>7. d = [k EXCEPT !.ch = [k.ch EXCEPT ![c] = b], !.in = [k.in EXCEPT !.waiter = v], !.s = s]
    <3> DEFINE x == ipc_wait(k, h, place, MessageMax, TRUE)
               y == input_wait(x, me, eplace)
    <3>1. x = [k EXCEPT !.ch[c].waiter = w]
      BY DEF ipc_wait
    <3>2. y = [x EXCEPT !.in.waiter = v]
      BY DEF input_wait
    <3>3. d = [y EXCEPT !.s = scheduler_block_current_timeout(@, delay)]
      BY <1>5 DEF sys_select
    <3> HIDE DEF w, v, d, x, y
    <3>4. y.s = k.s
      BY <2>1, <3>1, <3>2 DEF Kernel
    <3>5. y = [k EXCEPT !.ch = [k.ch EXCEPT ![c] = b], !.in = [k.in EXCEPT !.waiter = v]]
      BY <2>1, <3>1, <3>2 DEF Kernel
    <3> QED BY <2>1, <3>3, <3>4, <3>5 DEF Kernel
  <2> HIDE DEF w, v, s, d, c, me
  <2>8. b \in Channel /\ b.active = a.active /\ b.owner = a.owner /\ b.name = a.name
        /\ b.waiter = w /\ b.sender = a.sender
    BY <2>2, <2>4 DEF Channel
  <2>9. Waits(a, b, w)
    BY <2>2, <2>3, <2>4 DEF Waits
  <2> HIDE DEF b
  <2>10. /\ [k.ch EXCEPT ![c] = b] \in [Chan -> Channel]
         /\ [k.in EXCEPT !.waiter = v] \in [q : Seq(Event), waiter : InputWaiter]
         /\ [k.in EXCEPT !.waiter = v].q = k.in.q /\ [k.in EXCEPT !.waiter = v].waiter = v
    BY <2>1, <2>2, <2>5, <2>8 DEF Kernel
  <2>11. /\ d \in Kernel /\ d.s = s /\ d.in.q = k.in.q /\ d.in.waiter = v
         /\ d.caps = k.caps /\ d.taken = k.taken
         /\ d.ch = [k.ch EXCEPT ![c] = b]
    BY <2>1, <2>6, <2>7, <2>10 DEF Kernel, Typed
  <2>12. d.ch[c] = b /\ \A e \in Chan : e # c => d.ch[e] = k.ch[e]
    BY <2>1, <2>2, <2>11 DEF Kernel
  <2>13. Steps(k, d)
    BY <2>2, <2>4, <2>9, <2>11, <2>12 DEF Steps, Step
  <2>14. \A e \in Chan : /\ d.ch[e].active = k.ch[e].active
                         /\ d.ch[e].owner = k.ch[e].owner
                         /\ d.ch[e].name = k.ch[e].name
    BY <2>8, <2>12
  <2>15. \A q \in User : d.s.task[q].state = "unused" => k.s.task[q].state = "unused"
    BY <2>6, <2>11 DEF Quiet, Sleeps
  <2>16. InputSound(d.in)
    BY <1>5, <2>1, <2>5, <2>11 DEF InputSound, Wired
  <2>17. Tables(k, d)
    BY <2>6, <2>11, <2>13, <2>14, <2>15, <2>16, StaysWired
  <2>18. Falls(k, d, me, c)
    <3>1. Receives(d, me, c) /\ d.ch[c].waiter.multiplex /\ d.ch[c].sender = k.ch[c].sender
      BY <2>4, <2>8, <2>12 DEF Receives
    <3>2. Listens(d, me)
      BY <2>5, <2>11 DEF Listens
    <3> QED BY <1>5, <2>1, <2>2, <2>6, <2>11, <2>12, <3>1, <3>2 DEF Falls
  <2>19. Calm(k) => Fitting(d)
    <3>1. SUFFICES ASSUME Calm(k) PROVE Fitting(d)
      OBVIOUS
    <3>2. w.place = "heap" /\ v.place = "heap" /\ \A length \in Lengths : length <= w.capacity
      <4>1. place = "heap" /\ eplace = "heap"
        BY <3>1 DEF Calm, BuffersFit
      <4>2. \A length \in Lengths : length <= MessageMax
        BY IpcConstants
      <4> QED BY <2>4, <2>5, <4>1, <4>2
    <3> QED BY <2>8, <2>11, <2>12, <3>1, <3>2 DEF Calm, Fitting
  <2> QED BY <2>17, <2>18, <2>19, FallsCalls DEF d
<1> QED BY <1>1, <1>2, <1>3, <1>4, <1>5

-----------------------------------------------------------------------------
(* IRQ 0: the selects that time out lose both registrations and wake.      *)
LEMMA TimerKeeps ==
  ASSUME NEW k, Wired(k, {})
  PROVE  LET d == timer_tick(k)
         IN  Tables(k, d) /\ (Calm(k) => Calls(k, d))
<1> DEFINE late == Expiring(k.s)
           m == ExpireTimeouts(k.s)
           s == scheduler_on_timer_tick(k.s)
           b(c) == IF k.ch[c].waiter.active /\ k.ch[c].waiter.pid \in late
                   THEN [k.ch[c] EXCEPT !.waiter = NoWaiter] ELSE k.ch[c]
           v == IF k.in.waiter.active /\ k.in.waiter.pid \in late THEN NoInputWaiter ELSE k.in.waiter
           d == timer_tick(k)
<1>1. /\ k \in Kernel /\ Good(k.s) /\ \A c \in Chan : k.ch[c] \in Channel
      /\ k.in \in [q : Seq(Event), waiter : InputWaiter]
  BY DEF Wired, Kernel
<1>2. Good(m) /\ Good(s) /\ Typed(s) /\ Hands(m, s)
  BY <1>1, ExpireGood, TickGood, ChargeHands DEF scheduler_on_timer_tick, Good
<1>3. ASSUME NEW p \in User
      PROVE  IF p \in late
             THEN /\ m.task[p].state = "ready" /\ m.task[p].rax = GotTime
                  /\ k.s.task[p].state = "blocked" /\ k.s.task[p].timed
             ELSE /\ m.task[p].state = k.s.task[p].state /\ m.task[p].rax = k.s.task[p].rax
                  /\ m.task[p].timed <=> k.s.task[p].timed
  BY <1>1, ExpireFacts
<1>4. d = [k EXCEPT !.ch = [c \in Chan |-> b(c)], !.in = [k.in EXCEPT !.waiter = v], !.s = s]
  BY DEF timer_tick
<1> HIDE DEF late, m, s, d
<1>5. ASSUME NEW c \in Chan
      PROVE  /\ b(c) \in Channel
             /\ b(c) = k.ch[c] \/ (/\ k.ch[c].waiter.active /\ k.ch[c].waiter.pid \in late
                                   /\ Forgets(k.ch[c], b(c)))
             /\ ~(b(c).waiter.active /\ b(c).waiter.pid \in late)
  BY <1>1, Facts DEF Channel, Forgets
<1>6. /\ v \in InputWaiter
      /\ v = k.in.waiter \/ (k.in.waiter.active /\ k.in.waiter.pid \in late /\ v = NoInputWaiter)
      /\ ~(v.active /\ v.pid \in late)
  BY <1>1, Facts
<1> HIDE DEF b, v
<1>7. /\ [c \in Chan |-> b(c)] \in [Chan -> Channel]
      /\ [k.in EXCEPT !.waiter = v] \in [q : Seq(Event), waiter : InputWaiter]
      /\ [k.in EXCEPT !.waiter = v].q = k.in.q /\ [k.in EXCEPT !.waiter = v].waiter = v
  BY <1>1, <1>5, <1>6
<1>8. /\ d \in Kernel /\ d.s = s /\ d.ch = [c \in Chan |-> b(c)]
      /\ d.in.q = k.in.q /\ d.in.waiter = v /\ d.caps = k.caps /\ d.taken = k.taken
  BY <1>1, <1>2, <1>4, <1>7 DEF Kernel, Typed
<1>9. \A c \in Chan : d.ch[c] = b(c)
  BY <1>8
<1>10. ASSUME NEW c \in Chan
       PROVE  /\ d.ch[c].active = k.ch[c].active /\ d.ch[c].owner = k.ch[c].owner
              /\ d.ch[c].name = k.ch[c].name /\ d.ch[c].sender = k.ch[c].sender
              /\ \/ d.ch[c].waiter = k.ch[c].waiter
                 \/ ~d.ch[c].waiter.active /\ k.ch[c].waiter.pid \in late
  BY <1>1, <1>5, <1>9, ForgetsFacts
<1>11. Steps(k, d)
  BY <1>5, <1>8, <1>9, WaitersLive DEF Steps, Step
<1>12. InputSound(d.in)
  BY <1>6, <1>8, Facts DEF InputSound, Wired
<1>13. ASSUME NEW q \in User, q \notin late PROVE Quiet(k.s, d.s, q)
  <2>1. Quiet(k.s, m, q) /\ (k.s.task[q].state = "ready" => m.task[q].state = "ready")
    BY <1>3, <1>13 DEF Quiet, Sleeps
  <2>2. Quiet(m, s, q)
    BY <1>2, HandsQuiet
  <2> QED BY <1>1, <1>8, <2>1, <2>2, QuietTwice DEF Good
<1>14. ASSUME NEW p \in User, p \in late
       PROVE  /\ d.s.task[p].state \in {"ready", "running"} /\ d.s.task[p].rax = GotTime
              /\ k.s.task[p].timed /\ Sleeps(k.s, p)
  <2>1. /\ m.task[p].state = "ready" /\ m.task[p].rax = GotTime
        /\ k.s.task[p].state = "blocked" /\ k.s.task[p].timed
    BY <1>3, <1>14
  <2>2. s.task[p].state \in {"ready", "running"} /\ s.task[p].rax = GotTime
    BY <1>2, <2>1 DEF Hands
  <2>3. k.s.task[p].rax = InBlock
    BY <1>1, <2>1 DEF Good, Sound, CallsDisjoint, Blocked
  <2> QED BY <1>8, <2>1, <2>2, <2>3 DEF Sleeps
<1>15. Tables(k, d)
  <2>1. \A q \in User : d.s.task[q].state = "unused" => k.s.task[q].state = "unused"
    BY <1>13, <1>14 DEF Quiet
  <2>2. \A c \in Chan : /\ d.ch[c].active = k.ch[c].active
                        /\ d.ch[c].owner = k.ch[c].owner
                        /\ d.ch[c].name = k.ch[c].name
    BY <1>10
  <2> QED BY <1>2, <1>8, <1>11, <1>12, <2>1, <2>2, StaysWired
<1>16. ASSUME Calm(k) PROVE Removal(k, d, late)
  <2>1. ASSUME NEW p \in User, p \in late PROVE Ended(k, d, p)
    <3>1. Answerable(k, p) /\ Sleeps(k.s, p) /\ k.s.task[p].timed
      BY <1>14, <1>16, <2>1 DEF Calm, Registered
    <3>2. Selects(k, p)
      BY <3>1 DEF Answerable
    <3>3. \A c \in Chan : ~Sends(k, p, c)
      BY <3>1, <3>2 DEF Answerable, Selects
    <3>4. ASSUME NEW c \in Chan PROVE ~Receives(d, p, c) /\ ~Sends(d, p, c)
      BY <1>5, <1>9, <1>10, <2>1, <3>3 DEF Receives, Sends
    <3>5. ~Listens(d, p)
      BY <1>6, <1>8, <2>1 DEF Listens
    <3>6. ~Present(d, p)
      BY <3>4, <3>5 DEF Present, Attends
    <3>7. d.s.task[p].rax \in Answers(k, p) /\ ~Sleeps(d.s, p)
      BY <1>14, <2>1, <3>2, <3>3 DEF Answers, Sleeps
    <3> QED BY <3>6, <3>7 DEF Ended
  <2>2. Drops(k, d, late)
    <3>1. \/ d.in.waiter = k.in.waiter
          \/ ~d.in.waiter.active /\ k.in.waiter.pid \in late
      BY <1>6, <1>8, Facts
    <3> QED BY <1>10, <3>1 DEF Drops
  <2> QED BY <1>13, <2>1, <2>2 DEF Removal
<1> QED BY <1>15, <1>16, RemovalCalls DEF d

-----------------------------------------------------------------------------
(* Handles.                                                                *)

(* Opened and closed handles that give no right to receive.                *)
LEMMA CapsStep ==
  ASSUME NEW k, Wired(k, {}), NEW f \in [User -> SUBSET Handle],
         \A p \in User : \A h \in f[p] : h.right = "receive" => h \in k.caps[p]
  PROVE  LET d == [k EXCEPT !.caps = f]
         IN  Tables(k, d) /\ (Calm(k) => Calls(k, d))
<1> DEFINE d == [k EXCEPT !.caps = f]
<1>1. k \in Kernel
  BY DEF Wired
<1>2. d \in Kernel /\ d.s = k.s /\ d.ch = k.ch /\ d.in = k.in /\ d.caps = f /\ d.taken = k.taken
  BY <1>1 DEF Kernel
<1> HIDE DEF d
<1>3. Steps(k, d)
  BY <1>2 DEF Steps, Step
<1>4. HandlesSound(d)
  BY <1>2 DEF Wired, HandlesSound
<1>5. OwnersLive(d, {})
  BY <1>2 DEF Wired, OwnersLive
<1>6. Tables(k, d)
  BY <1>2, <1>3, <1>4, <1>5 DEF Tables, Wired
<1>7. Removal(k, d, {})
  BY <1>2, SameQuiet DEF Removal, Drops
<1> QED BY <1>6, <1>7, RemovalCalls DEF d

LEMMA FirstFacts ==
  ASSUME NEW cs, cs \subseteq Chan, cs # {}
  PROVE  First(cs) \in cs
<1>1. cs \subseteq Nat
  BY IpcConstants DEF Chan
<1> QED BY <1>1, LeastExists DEF First

LEMMA ConnectKeeps ==
  ASSUME NEW k, Wired(k, {}), NEW pid \in User, NEW name \in Names
  PROVE  LET d == ipc_connect(k, pid, name)
         IN  Tables(k, d) /\ (Calm(k) => Calls(k, d))
<1> DEFINE c == First(Named(k, name))
           h == [chan |-> c, right |-> "send", name |-> name]
           f == [k.caps EXCEPT ![pid] = @ \cup {h}]
<1>1. CASE Named(k, name) = {}
  BY <1>1, NothingDone DEF ipc_connect
<1>2. CASE Named(k, name) # {}
  <2>1. c \in Chan
    BY <1>2, FirstFacts DEF Named
  <2>2. h \in Handle /\ h.right # "receive"
    BY <2>1 DEF Handle
  <2>3. ipc_connect(k, pid, name) = [k EXCEPT !.caps = f]
    BY <1>2 DEF ipc_connect, Grant
  <2> HIDE DEF h
  <2>4. k.caps \in [User -> SUBSET Handle]
    BY DEF Wired, Kernel
  <2>5. /\ f \in [User -> SUBSET Handle]
        /\ \A p \in User : \A g \in f[p] : g.right = "receive" => g \in k.caps[p]
    BY <2>2, <2>4
  <2> QED BY <2>3, <2>5, CapsStep
<1> QED BY <1>1, <1>2

LEMMA CreateKeeps ==
  ASSUME NEW k, Wired(k, {}), NEW pid \in User, k.s.task[pid].state # "unused",
         NEW name \in Names, NEW granted \in BOOLEAN
  PROVE  LET d == ipc_create(k, pid, name, granted)
         IN  Tables(k, d) /\ (Calm(k) => Calls(k, d))
<1> DEFINE c == First(FreeChannels(k))
           b == [NoChannel EXCEPT !.active = TRUE, !.owner = pid, !.name = name]
           h == [chan |-> c, right |-> "receive", name |-> name]
           f == [k.caps EXCEPT ![pid] = @ \cup {h}]
           d == ipc_create(k, pid, name, granted)
<1>1. CASE Named(k, name) # {} \/ FreeChannels(k) = {} \/ ~granted
  BY <1>1, NothingDone DEF ipc_create
<1>2. CASE ~(Named(k, name) # {} \/ FreeChannels(k) = {} \/ ~granted)
  <2>1. c \in Chan /\ ~k.ch[c].active
    BY <1>2, FirstFacts DEF FreeChannels
  <2>2. h \in Handle /\ h.right = "receive" /\ h.chan = c /\ h.name = name
    BY <2>1 DEF Handle
  <2>3. /\ b \in Channel /\ b.active /\ b.owner = pid /\ b.name = name
        /\ b.waiter = NoWaiter /\ b.sender = NoSender
    BY Facts DEF NoChannel, Channel
  <2>4. Opens(k.ch[c], b, pid, name)
    BY <2>1 DEF Opens
  <2>5. /\ k \in Kernel /\ k.caps \in [User -> SUBSET Handle] /\ k.ch \in [Chan -> Channel]
        /\ k.taken \in [Chan -> Message \cup {NoMessage}]
    BY DEF Wired, Kernel
  <2>6. d = [k EXCEPT !.ch = [k.ch EXCEPT ![c] = b], !.taken = [k.taken EXCEPT ![c] = NoMessage],
                      !.caps = f]
    <3>1. d = Grant([k EXCEPT !.ch[c] = b, !.taken[c] = NoMessage], pid, h)
      BY <1>2 DEF ipc_create
    <3> HIDE DEF b, h, c, d
    <3>2. [k EXCEPT !.ch[c] = b, !.taken[c] = NoMessage].caps = k.caps
      BY <2>5 DEF Kernel
    <3> QED BY <2>5, <3>1, <3>2 DEF Grant, Kernel
  <2> HIDE DEF b, h, c, d
  <2>7. /\ f \in [User -> SUBSET Handle]
        /\ \A p \in User : \A g \in f[p] : g \in k.caps[p] \/ (g = h /\ p = pid)
    BY <2>2, <2>5
  <2> HIDE DEF f
  <2>8. /\ [k.ch EXCEPT ![c] = b] \in [Chan -> Channel]
        /\ [k.taken EXCEPT ![c] = NoMessage] \in [Chan -> Message \cup {NoMessage}]
    BY <2>3, <2>5
  <2>9. /\ d \in Kernel /\ d.s = k.s /\ d.in = k.in /\ d.caps = f
        /\ d.ch = [k.ch EXCEPT ![c] = b] /\ d.taken = [k.taken EXCEPT ![c] = NoMessage]
    BY <2>5, <2>6, <2>7, <2>8 DEF Kernel
  <2>10. /\ d.ch[c] = b /\ d.taken[c] = NoMessage
         /\ \A e \in Chan : e # c => d.ch[e] = k.ch[e] /\ d.taken[e] = k.taken[e]
    BY <2>1, <2>5, <2>9
  <2>11. Steps(k, d)
    BY <2>1, <2>4, <2>10 DEF Steps, Step
  <2>12. ASSUME NEW e \in Chan PROVE ChannelSound(d.ch[e])
    <3>1. k.taken[e] \in Message \cup {NoMessage} /\ ChannelSound(k.ch[e])
      BY DEF Wired, Kernel
    <3> QED BY <2>11, <3>1, StepSound DEF Steps
  <2>13. HandlesSound(d)
    <3>1. SUFFICES ASSUME NEW p \in User, NEW g \in d.caps[p], g.right = "receive"
                   PROVE  d.ch[g.chan].active /\ d.ch[g.chan].owner = p /\ d.ch[g.chan].name = g.name
      BY DEF HandlesSound
    <3>2. CASE g = h /\ p = pid
      BY <2>2, <2>3, <2>10, <3>2
    <3>3. CASE g \in k.caps[p]
      <4>1. k.ch[g.chan].active /\ k.ch[g.chan].owner = p /\ k.ch[g.chan].name = g.name
        BY <3>1, <3>3 DEF Wired, HandlesSound
      <4>2. g.chan \in Chan
        BY <2>5, <3>3 DEF Handle
      <4> QED BY <2>1, <2>10, <4>1, <4>2
    <3> QED BY <2>7, <2>9, <3>2, <3>3
  <2>14. OwnersLive(d, {})
    BY <2>3, <2>9, <2>10 DEF OwnersLive, Wired
  <2>15. Tables(k, d)
    BY <2>9, <2>11, <2>12, <2>13, <2>14 DEF Tables, Wired
  <2>16. Removal(k, d, {})
    <3>1. ~k.ch[c].waiter.active /\ ~k.ch[c].sender.active
      BY <2>1, WaitersLive
    <3>2. Drops(k, d, {})
      BY <2>3, <2>9, <2>10, <3>1, Facts DEF Drops
    <3> QED BY <2>9, <3>2, SameQuiet DEF Removal
  <2> QED BY <2>15, <2>16, RemovalCalls DEF d
<1> QED BY <1>1, <1>2

-----------------------------------------------------------------------------
(* The end of a process.                                                   *)

(* What Cleanup leaves of the channels, the input queue and the tasks, and *)
(* whose registrations it drops: pid's, and those of the senders parked on *)
(* pid's channels, who are woken with an error.                            *)
Released(k, d, pid) ==
  /\ d \in Kernel /\ Good(d.s) /\ d.s.current = k.s.current /\ d.s.running = k.s.running
  /\ \A c \in Chan :
       /\ d.ch[c] = ChannelWithout(k.ch[c], pid)
       /\ d.taken[c] = IF k.ch[c].active /\ k.ch[c].owner = pid THEN NoMessage ELSE k.taken[c]
  /\ d.in.q = k.in.q
  /\ d.in.waiter = IF Listens(k, pid) THEN NoInputWaiter ELSE k.in.waiter
  /\ \A p \in User : p # pid => d.caps[p] = k.caps[p]
  /\ pid \in User => d.caps[pid] = {}
  /\ \A p \in Pid : IF p \in Stranded(k, pid) \ {pid} /\ CanWake(k.s, p)
                    THEN d.s.task[p].state = "ready" /\ d.s.task[p].rax = GotError
                    ELSE d.s.task[p] = k.s.task[p]

LEMMA CleanupReleases ==
  ASSUME NEW k, NEW pid, Wired(k, {pid})
  PROVE  Released(k, Cleanup(k, pid), pid)
<1> DEFINE sleepers == Stranded(k, pid) \ {pid}
           selects == {k.ch[c].waiter.pid : c \in {e \in Owned(k, pid) :
                         k.ch[e].waiter.active /\ k.ch[e].waiter.multiplex}} \cup {pid}
           s == WakeAll(k.s, sleepers, GotError)
           v == IF k.in.waiter.active /\ k.in.waiter.pid \in selects THEN NoInputWaiter ELSE k.in.waiter
           ch == [c \in Chan |-> ChannelWithout(k.ch[c], pid)]
           t == [c \in Chan |-> IF c \in Owned(k, pid) THEN NoMessage ELSE k.taken[c]]
           e == ipc_process_cleanup(k, pid)
           d == Cleanup(k, pid)
<1>1. /\ k \in Kernel /\ Good(k.s) /\ \A c \in Chan : ChannelSound(k.ch[c])
      /\ k.in \in [q : Seq(Event), waiter : InputWaiter]
      /\ k.taken \in [Chan -> Message \cup {NoMessage}] /\ k.caps \in [User -> SUBSET Handle]
  BY DEF Wired, Kernel
<1>2. /\ Good(s) /\ Typed(s) /\ s.current = k.s.current /\ s.running = k.s.running
      /\ \A p \in Pid : IF p \in sleepers /\ CanWake(k.s, p)
                        THEN s.task[p].state = "ready" /\ s.task[p].rax = GotError
                        ELSE s.task[p] = k.s.task[p]
  <2> HIDE DEF sleepers
  <2>1. GotError \in Results
    BY IpcResults
  <2> QED BY <1>1, <2>1, WakeAllGood DEF Good
<1>3. e = [k EXCEPT !.in = [k.in EXCEPT !.waiter = v], !.s = s, !.ch = ch, !.taken = t]
  BY DEF ipc_process_cleanup
<1>4. selects = {pid}
  BY <1>1 DEF Owned, ChannelSound
<1>5. v = IF Listens(k, pid) THEN NoInputWaiter ELSE k.in.waiter
  BY <1>4 DEF Listens
<1>6. v \in InputWaiter
  BY <1>1, <1>5, Facts
<1>7. ch \in [Chan -> Channel]
  <2>1. ASSUME NEW c \in Chan PROVE ChannelWithout(k.ch[c], pid) \in Channel
    <3> DEFINE b == ChannelWithout(k.ch[c], pid)
               u == IF k.ch[c].active /\ k.ch[c].owner = pid THEN NoMessage ELSE NoMessage
    <3>1. Step(k.ch[c], NoMessage, b, u)
      BY DEF Step
    <3> HIDE DEF b, u
    <3>2. ChannelSound(b)
      BY <1>1, <3>1, StepSound
    <3> QED BY <3>2 DEF ChannelSound, b
  <2> QED BY <2>1
<1>8. t \in [Chan -> Message \cup {NoMessage}]
  BY <1>1
<1> HIDE DEF v, s, sleepers, selects, e
<1>9. /\ [k.in EXCEPT !.waiter = v] \in [q : Seq(Event), waiter : InputWaiter]
      /\ [k.in EXCEPT !.waiter = v].q = k.in.q /\ [k.in EXCEPT !.waiter = v].waiter = v
  BY <1>1, <1>6
<1>10. \A c \in Chan : ch[c] = ChannelWithout(k.ch[c], pid)
  OBVIOUS
<1>11. \A c \in Chan : t[c] = IF k.ch[c].active /\ k.ch[c].owner = pid THEN NoMessage ELSE k.taken[c]
  BY DEF Owned
<1> HIDE DEF ch, t
<1>12. /\ e \in Kernel /\ e.s = s /\ e.ch = ch /\ e.taken = t /\ e.caps = k.caps
       /\ e.in.q = k.in.q /\ e.in.waiter = v
  BY <1>1, <1>2, <1>3, <1>7, <1>8, <1>9 DEF Kernel, Typed
<1>13. /\ d \in Kernel /\ d.s = s /\ d.ch = ch /\ d.taken = t
       /\ d.in.q = k.in.q /\ d.in.waiter = v
       /\ \A p \in User : p # pid => d.caps[p] = k.caps[p]
       /\ pid \in User => d.caps[pid] = {}
  <2>1. CASE pid \in User
    <3>1. d = [e EXCEPT !.caps = [e.caps EXCEPT ![pid] = {}]]
      BY <2>1 DEF Cleanup, capabilities_close_all, e
    <3> HIDE DEF d
    <3>2. [e.caps EXCEPT ![pid] = {}] \in [User -> SUBSET Handle]
      BY <1>1, <1>12
    <3>3. /\ d \in Kernel /\ d.s = e.s /\ d.ch = e.ch /\ d.taken = e.taken /\ d.in = e.in
          /\ d.caps = [e.caps EXCEPT ![pid] = {}]
      BY <1>12, <3>1, <3>2 DEF Kernel
    <3> QED BY <1>1, <1>12, <2>1, <3>3
  <2>2. CASE pid \notin User
    <3>1. d = e
      BY <2>2 DEF Cleanup, capabilities_close_all, e
    <3> QED BY <1>12, <2>2, <3>1
  <2> QED BY <2>1, <2>2
<1> HIDE DEF d
<1> QED BY <1>2, <1>5, <1>10, <1>11, <1>13 DEF Released, d, sleepers

(* The whole of a step that ends process pid: a scheduler step to s, the   *)
(* cleanup, a scheduler step from there to d.s.                            *)
LEMMA EndKeeps ==
  ASSUME NEW k, Wired(k, {}), NEW pid,
         NEW s, Good(s), \A q \in User : q # pid => Quiet(k.s, s, q),
         NEW d \in Kernel, Good(d.s),
         LET e == Cleanup([k EXCEPT !.s = s], pid)
         IN  /\ d.ch = e.ch /\ d.in = e.in /\ d.caps = e.caps /\ d.taken = e.taken
             /\ \A q \in User : q # pid => Quiet(e.s, d.s, q)
             /\ s = k.s \/ d.s = e.s,
         pid \in User =>
           /\ ~Sleeps(d.s, pid)
           /\ Sleeps(k.s, pid) => d.s.task[pid].state \notin {"ready", "running"}
  PROVE  Tables(k, d) /\ (Calm(k) => Calls(k, d))
<1> DEFINE j == [k EXCEPT !.s = s]
           e == Cleanup(j, pid)
           P == Stranded(k, pid) \cup {pid}
<1>1. /\ d.ch = e.ch /\ d.in = e.in /\ d.caps = e.caps /\ d.taken = e.taken
      /\ \A q \in User : q # pid => Quiet(e.s, d.s, q)
      /\ s = k.s \/ d.s = e.s
  OBVIOUS
<1>2. k \in Kernel /\ Good(k.s) /\ Typed(s) /\ Typed(k.s) /\ \A c \in Chan : ChannelSound(k.ch[c])
  BY DEF Wired, Good
<1>3. /\ j \in Kernel /\ j.s = s /\ j.ch = k.ch /\ j.in = k.in /\ j.caps = k.caps /\ j.taken = k.taken
  BY <1>2 DEF Kernel, Typed
<1> HIDE DEF j
<1>4. Wired(j, {pid})
  <2>1. OwnersLive(j, {pid})
    BY <1>2, <1>3 DEF Wired, OwnersLive, ChannelSound, Quiet
  <2>2. HandlesSound(j)
    BY <1>3 DEF Wired, HandlesSound
  <2> QED BY <1>3, <2>1, <2>2 DEF Wired
<1>5. Released(j, e, pid)
  BY <1>4, CleanupReleases
<1> HIDE DEF e
<1>6. Stranded(j, pid) = Stranded(k, pid)
  BY <1>3 DEF Stranded, Owned
<1>7. ASSUME NEW c \in Chan
      PROVE  /\ d.ch[c] = ChannelWithout(k.ch[c], pid)
             /\ d.taken[c] = IF k.ch[c].active /\ k.ch[c].owner = pid THEN NoMessage ELSE k.taken[c]
  BY <1>1, <1>3, <1>5 DEF Released
<1>8. /\ d.in.q = k.in.q
      /\ d.in.waiter = IF Listens(k, pid) THEN NoInputWaiter ELSE k.in.waiter
      /\ \A p \in User : p # pid => d.caps[p] = k.caps[p]
      /\ pid \in User => d.caps[pid] = {}
  BY <1>1, <1>3, <1>5 DEF Released, Listens
<1>9. ASSUME NEW p \in User
      PROVE  IF p \in Stranded(k, pid) \ {pid} /\ CanWake(s, p)
             THEN e.s.task[p].state = "ready" /\ e.s.task[p].rax = GotError
             ELSE e.s.task[p] = s.task[p]
  BY <1>3, <1>5, <1>6, Constants DEF Released
<1> HIDE DEF P
<1>10. Steps(k, d)
  BY <1>7 DEF Steps, Step
<1>11. ASSUME NEW c \in Chan
       PROVE  /\ ChannelSound(d.ch[c])
              /\ d.ch[c].active => /\ k.ch[c].active /\ d.ch[c].owner = k.ch[c].owner
                                   /\ d.ch[c].owner # pid /\ d.ch[c].name = k.ch[c].name
              /\ (k.ch[c].active /\ k.ch[c].owner # pid) => d.ch[c].active
  <2>1. k.taken[c] \in Message \cup {NoMessage} /\ k.ch[c] \in Channel /\ ChannelSound(k.ch[c])
    BY <1>2 DEF Kernel
  <2>2. ChannelSound(d.ch[c])
    BY <1>10, <2>1, StepSound DEF Steps
  <2>3. /\ d.ch[c].active => /\ k.ch[c].active /\ d.ch[c].owner = k.ch[c].owner
                             /\ d.ch[c].owner # pid /\ d.ch[c].name = k.ch[c].name
        /\ (k.ch[c].active /\ k.ch[c].owner # pid) => d.ch[c].active
    <3> DEFINE a == k.ch[c]
               b == ChannelWithout(a, pid)
    <3>1. d.ch[c] = b
      BY <1>7
    <3>2. a \in Channel
      BY <2>1
    <3> HIDE DEF a
    <3>3. CASE ~a.active
      <4>1. b = a
        BY <3>3 DEF ChannelWithout
      <4> QED BY <4>1, <3>1, <3>3 DEF a
    <3>4. CASE a.active /\ a.owner = pid
      <4>1. b = NoChannel
        BY <3>4 DEF ChannelWithout
      <4>2. ~NoChannel.active
        BY Facts DEF NoChannel
      <4> QED BY <4>1, <4>2, <3>1, <3>4 DEF a
    <3>5. CASE a.active /\ a.owner # pid
      <4>1. b.active = a.active /\ b.owner = a.owner /\ b.name = a.name
        BY <3>2, <3>5 DEF ChannelWithout, Channel
      <4> QED BY <4>1, <3>1, <3>5 DEF a
    <3> QED BY <3>3, <3>4, <3>5
  <2> QED BY <2>2, <2>3
<1>12. ASSUME NEW q \in User, q # pid PROVE d.s.task[q].state = "unused" => k.s.task[q].state = "unused"
  BY <1>1, <1>9, <1>12 DEF Quiet
<1>13. Tables(k, d)
  <2>1. HandlesSound(d)
    <3>1. SUFFICES ASSUME NEW p \in User, NEW g \in d.caps[p], g.right = "receive"
                   PROVE  d.ch[g.chan].active /\ d.ch[g.chan].owner = p /\ d.ch[g.chan].name = g.name
      BY DEF HandlesSound
    <3>2. p # pid /\ g \in k.caps[p]
      BY <1>8, <3>1
    <3>3. g.chan \in Chan /\ k.ch[g.chan].active /\ k.ch[g.chan].owner = p /\ k.ch[g.chan].name = g.name
      BY <1>2, <3>1, <3>2 DEF Wired, HandlesSound, Kernel, Handle
    <3> QED BY <1>11, <3>2, <3>3
  <2>2. OwnersLive(d, {})
    <3>1. SUFFICES ASSUME NEW c \in Chan, d.ch[c].active
                   PROVE  d.s.task[d.ch[c].owner].state # "unused"
      BY DEF OwnersLive
    <3>2. k.ch[c].active /\ d.ch[c].owner = k.ch[c].owner /\ d.ch[c].owner # pid /\ k.ch[c].owner \in User
      BY <1>2, <1>11, <3>1 DEF ChannelSound
    <3>3. k.s.task[k.ch[c].owner].state # "unused"
      BY <3>2 DEF Wired, OwnersLive
    <3> QED BY <1>12, <3>2, <3>3
  <2>3. InputSound(d.in)
    BY <1>8, Facts DEF InputSound, Wired
  <2>4. \A c \in Chan : ChannelSound(d.ch[c])
    BY <1>11
  <2> QED BY <1>10, <2>1, <2>2, <2>3, <2>4 DEF Tables, Wired
<1>14. ASSUME NEW c \in Chan
       PROVE  /\ \/ d.ch[c].waiter = k.ch[c].waiter
                 \/ ~d.ch[c].waiter.active /\ (k.ch[c].waiter.active => k.ch[c].waiter.pid = pid)
              /\ \/ d.ch[c].sender = k.ch[c].sender
                 \/ /\ ~d.ch[c].sender.active
                    /\ k.ch[c].sender.active => k.ch[c].sender.msg.sender \in P
              /\ ~Receives(d, pid, c) /\ ~Sends(d, pid, c)
              /\ k.ch[c].active /\ k.ch[c].owner = pid => ~d.ch[c].waiter.active /\ ~d.ch[c].sender.active
  <2>1. k.ch[c] \in Channel /\ ChannelSound(k.ch[c]) /\ d.ch[c] = ChannelWithout(k.ch[c], pid)
    BY <1>2, <1>7 DEF Kernel
  <2>2. CASE ~k.ch[c].active
    <3>1. d.ch[c] = k.ch[c] /\ ~k.ch[c].waiter.active /\ ~k.ch[c].sender.active
      BY <2>1, <2>2, WaitersLive DEF ChannelWithout
    <3> QED BY <2>2, <3>1 DEF Receives, Sends
  <2>3. CASE k.ch[c].active /\ k.ch[c].owner = pid
    <3>1. d.ch[c] = NoChannel
      BY <2>1, <2>3 DEF ChannelWithout
    <3>2. ~d.ch[c].waiter.active /\ ~d.ch[c].sender.active
      BY <3>1, Facts
    <3>3. k.ch[c].waiter.active => k.ch[c].waiter.pid = pid
      BY <2>1, <2>3 DEF ChannelSound
    <3>4. k.ch[c].sender.active => k.ch[c].sender.msg.sender \in P
      BY <2>3 DEF P, Stranded, Owned
    <3> QED BY <3>2, <3>3, <3>4 DEF Receives, Sends
  <2>4. CASE k.ch[c].active /\ k.ch[c].owner # pid
    <3>1. d.ch[c] = [k.ch[c] EXCEPT !.waiter = IF @.active /\ @.pid = pid THEN NoWaiter ELSE @,
                        !.sender = IF @.active /\ @.msg.sender = pid THEN NoSender ELSE @]
      BY <2>1, <2>4 DEF ChannelWithout
    <3>2. /\ d.ch[c].waiter = IF k.ch[c].waiter.active /\ k.ch[c].waiter.pid = pid THEN NoWaiter
                              ELSE k.ch[c].waiter
          /\ d.ch[c].sender = IF k.ch[c].sender.active /\ k.ch[c].sender.msg.sender = pid THEN NoSender
                              ELSE k.ch[c].sender
      BY <2>1, <3>1 DEF Channel
    <3> QED BY <2>4, <3>2, Facts DEF Receives, Sends, P
  <2> QED BY <2>2, <2>3, <2>4
<1>15. ASSUME Calm(k) PROVE Removal(k, d, P)
  <2>1. ASSUME NEW q \in User, q \in P, q # pid PROVE Ended(k, d, q)
    <3>1. q \in Stranded(k, pid)
      BY <2>1 DEF P
    <3>2. PICK c \in Chan : k.ch[c].active /\ k.ch[c].owner = pid /\ Sends(k, q, c)
      BY <1>2, <2>1, <3>1 DEF Stranded, Owned, Sends, ChannelSound
    <3>3. Answerable(k, q)
      BY <1>15 DEF Calm, Registered
    <3>4. /\ \A f \in Chan : Sends(k, q, f) => f = c
          /\ \A f \in Chan : ~Receives(k, q, f)
          /\ Sleeps(k.s, q) \/ k.s.task[q].state = "exited"
      BY <3>2, <3>3 DEF Answerable, Attends, Present
    <3>5. ~Listens(k, q)
      BY <3>3, <3>4 DEF Answerable, Selects
    <3>6. ASSUME NEW f \in Chan PROVE ~Receives(d, q, f) /\ ~Sends(d, q, f)
      BY <1>14, <3>2, <3>4 DEF Receives, Sends
    <3>7. ~Present(d, q)
      BY <1>8, <3>5, <3>6, Facts DEF Present, Attends, Listens
    <3>8. CASE Sleeps(k.s, q)
      <4>1. Sleeps(s, q) /\ CanWake(s, q)
        BY <2>1, <3>8 DEF Quiet, Sleeps, CanWake
      <4>2. e.s.task[q].state = "ready" /\ e.s.task[q].rax = GotError
        BY <1>9, <2>1, <3>1, <4>1
      <4>3. d.s.task[q].state \in {"ready", "running"} /\ d.s.task[q].rax = GotError
        BY <1>1, <2>1, <4>2 DEF Quiet
      <4>4. GotError \in Answers(k, q)
        BY DEF Answers
      <4> QED BY <3>7, <4>3, <4>4 DEF Ended, Sleeps
    <3>9. CASE k.s.task[q].state = "exited"
      <4>1. s.task[q].state = "exited"
        BY <2>1, <3>9 DEF Quiet
      <4>2. e.s.task[q] = s.task[q]
        BY <1>9, <4>1 DEF CanWake
      <4>3. d.s.task[q].state = "exited"
        BY <1>1, <2>1, <4>1, <4>2 DEF Quiet
      <4> QED BY <3>7, <3>9, <4>3 DEF Ended, Sleeps
    <3> QED BY <3>4, <3>8, <3>9
  <2>2. ASSUME pid \in User PROVE Ended(k, d, pid)
    <3>1. ~Listens(d, pid)
      BY <1>8, Facts DEF Listens
    <3>2. ~Present(d, pid)
      BY <1>14, <3>1 DEF Present, Attends
    <3> QED BY <2>2, <3>2 DEF Ended
  <2>3. ASSUME NEW q \in User, q \notin P PROVE Quiet(k.s, d.s, q)
    <3>1. q # pid /\ q \notin Stranded(k, pid) \ {pid}
      BY <2>3 DEF P
    <3>2. e.s.task[q] = s.task[q]
      BY <1>9, <3>1
    <3>3. Quiet(k.s, s, q) /\ Quiet(e.s, d.s, q)
      BY <1>1, <3>1
    <3>4. CASE s = k.s
      BY <3>2, <3>3, <3>4 DEF Quiet, Sleeps
    <3>5. CASE d.s = e.s
      BY <3>2, <3>3, <3>5 DEF Quiet, Sleeps
    <3> QED BY <1>1, <3>4, <3>5
  <2>4. Drops(k, d, P)
    <3>1. \/ d.in.waiter = k.in.waiter
          \/ ~d.in.waiter.active /\ (k.in.waiter.active => k.in.waiter.pid \in P)
      BY <1>8, Facts DEF Listens, P
    <3>2. pid \in P
      BY DEF P
    <3> QED BY <1>14, <3>1, <3>2 DEF Drops
  <2> QED BY <2>1, <2>2, <2>3, <2>4 DEF Removal
<1> QED BY <1>13, <1>15, RemovalCalls

LEMMA SameKernel ==
  ASSUME NEW k \in Kernel
  PROVE  [k EXCEPT !.s = k.s] = k
BY DEF Kernel

(* Syscall 2.                                                              *)
LEMMA ExitKeeps ==
  ASSUME NEW k, Wired(k, {}), k.s.running, Me(k) # 0
  PROVE  LET d == sys_exit(k)
         IN  Tables(k, d) /\ (Calm(k) => Calls(k, d))
<1> DEFINE me == Me(k)
           e == Cleanup(k, me)
           d == sys_exit(k)
<1>1. /\ me \in User /\ me \in Pid /\ k.s.task[me].state = "running"
      /\ k \in Kernel /\ Good(k.s) /\ Wired(k, {me})
  BY Caller DEF Wired, OwnersLive
<1>2. Released(k, e, me)
  BY <1>1, CleanupReleases
<1>3. d = [e EXCEPT !.s = scheduler_on_exit(e.s)]
  BY DEF sys_exit
<1> HIDE DEF e, d
<1>4. e \in Kernel /\ Good(e.s) /\ e.s.current = me /\ e.s.current # 0
  BY <1>1, <1>2 DEF Released, Me
<1> HIDE DEF me
<1>5. /\ Good(scheduler_on_exit(e.s)) /\ Typed(scheduler_on_exit(e.s))
      /\ \A q \in User : q # me => Quiet(e.s, scheduler_on_exit(e.s), q)
      /\ scheduler_on_exit(e.s).task[me].state \in {"exited", "unused"}
  BY <1>4, ExitGood, ExitSlots DEF Good
<1>6. /\ d \in Kernel /\ d.s = scheduler_on_exit(e.s) /\ d.ch = e.ch /\ d.in = e.in
      /\ d.caps = e.caps /\ d.taken = e.taken
  BY <1>3, <1>4, <1>5 DEF Kernel, Typed
<1>7. e = Cleanup([k EXCEPT !.s = k.s], me)
  BY <1>1, SameKernel DEF e
<1>8. \A q \in User : q # me => Quiet(k.s, k.s, q)
  BY SameQuiet
<1>9. ~Sleeps(d.s, me) /\ d.s.task[me].state \notin {"ready", "running"}
  BY <1>5, <1>6 DEF Sleeps
<1>10. Tables(k, d) /\ (Calm(k) => Calls(k, d))
  BY <1>1, <1>5, <1>6, <1>7, <1>8, <1>9, EndKeeps
<1> QED BY <1>10 DEF d

(* Syscall 12.                                                             *)
LEMMA WaitKeeps ==
  ASSUME NEW k, Wired(k, {}), k.s.running, Me(k) # 0, NEW child \in 0 .. ProcessLimit
  PROVE  LET d == sys_wait(k, child)
         IN  Tables(k, d) /\ (Calm(k) => Calls(k, d))
<1> DEFINE me == Me(k)
           d == sys_wait(k, child)
<1>1. /\ me \in User /\ me \in Pid /\ k.s.task[me].state = "running"
      /\ k \in Kernel /\ Good(k.s) /\ me = k.s.current
  BY Caller DEF Me
<1>2. CASE ~CanReap(k.s, me, child)
  <2>1. d = [k EXCEPT !.s = scheduler_on_wait(k.s, child)]
    BY <1>2 DEF sys_wait
  <2>2. Good(scheduler_on_wait(k.s, child)) /\ \A q \in User : Quiet(k.s, scheduler_on_wait(k.s, child), q)
    BY <1>1, <1>2, WaitGood, WaitSlots
  <2> QED BY <2>1, <2>2, QuietStep
<1>3. CASE CanReap(k.s, me, child)
  <2> DEFINE e == Cleanup(k, child)
  <2>1. Released(k, e, child)
    BY <1>1, CleanupReleases DEF Wired, OwnersLive
  <2>2. d = [e EXCEPT !.s = scheduler_on_wait(e.s, child)]
    BY <1>3 DEF sys_wait, userspace_release_process
  <2> HIDE DEF e, d
  <2>3. child \in User /\ child \in Pid /\ k.s.task[child].state = "exited" /\ me # child
    BY <1>1, <1>3, Constants DEF CanReap
  <2>4. e \in Kernel /\ Good(e.s) /\ e.s.current = me /\ e.s.current # 0
    BY <1>1, <2>1 DEF Released
  <2>5. e.s.task[child] = k.s.task[child]
    BY <2>1, <2>3 DEF Released, CanWake
  <2>6. CanReap(e.s, e.s.current, child)
    BY <1>3, <2>4, <2>5 DEF CanReap
  <2> HIDE DEF me
  <2>7. /\ Good(scheduler_on_wait(e.s, child)) /\ Typed(scheduler_on_wait(e.s, child))
        /\ \A q \in User : q # child => Quiet(e.s, scheduler_on_wait(e.s, child), q)
        /\ scheduler_on_wait(e.s, child).task[child].state = "unused"
    BY <2>4, <2>6, WaitGood, WaitSlots DEF Good
  <2>8. /\ d \in Kernel /\ d.s = scheduler_on_wait(e.s, child) /\ d.ch = e.ch /\ d.in = e.in
        /\ d.caps = e.caps /\ d.taken = e.taken
    BY <2>2, <2>4, <2>7 DEF Kernel, Typed
  <2>9. e = Cleanup([k EXCEPT !.s = k.s], child)
    BY <1>1, SameKernel DEF e
  <2>10. \A q \in User : q # child => Quiet(k.s, k.s, q)
    BY SameQuiet
  <2>11. ~Sleeps(d.s, child) /\ d.s.task[child].state \notin {"ready", "running"}
    BY <2>7, <2>8 DEF Sleeps
  <2>12. Tables(k, d) /\ (Calm(k) => Calls(k, d))
    BY <1>1, <2>7, <2>8, <2>9, <2>10, <2>11, EndKeeps
  <2> QED BY <2>12 DEF d
<1> QED BY <1>2, <1>3

(* Syscall 13.                                                             *)
LEMMA TerminateKeeps ==
  ASSUME NEW k, Wired(k, {}), NEW target
  PROVE  LET d == sys_terminate(k, target)
         IN  Tables(k, d) /\ (Calm(k) => Calls(k, d))
<1> DEFINE e == Cleanup(k, target)
           t == scheduler_terminate(e.s, target)
           d == sys_terminate(k, target)
<1>1. k \in Kernel /\ Good(k.s) /\ Wired(k, {target})
  BY DEF Wired, OwnersLive
<1>2. Released(k, e, target)
  BY <1>1, CleanupReleases
<1>3. d = [e EXCEPT !.s = t]
  BY DEF sys_terminate
<1> HIDE DEF e, d
<1>4. e \in Kernel /\ Good(e.s) /\ e.s.current = k.s.current
  BY <1>1, <1>2 DEF Released
<1>5. /\ Good(t) /\ Typed(t)
      /\ \A q \in User : q # target => Quiet(e.s, t, q)
      /\ ~CanTerminate(e.s, target) => t = e.s
      /\ CanTerminate(e.s, target) => t.task[target].state \in {"exited", "unused"}
  BY <1>4, TerminateGood, TerminateSlots DEF Good
<1> HIDE DEF t
<1>6. /\ d \in Kernel /\ d.s = t /\ d.ch = e.ch /\ d.in = e.in
      /\ d.caps = e.caps /\ d.taken = e.taken
  BY <1>3, <1>4, <1>5 DEF Kernel, Typed
<1>7. e = Cleanup([k EXCEPT !.s = k.s], target)
  BY <1>1, SameKernel DEF e
<1>8. \A q \in User : q # target => Quiet(k.s, k.s, q)
  BY SameQuiet
<1>9. ASSUME target \in User
      PROVE  /\ ~Sleeps(d.s, target)
             /\ Sleeps(k.s, target) => d.s.task[target].state \notin {"ready", "running"}
  <2>1. e.s.task[target] = k.s.task[target] /\ target \in Pid
    BY <1>2, <1>9, Constants DEF Released
  <2>2. CASE CanTerminate(e.s, target)
    BY <1>5, <1>6, <2>2 DEF Sleeps
  <2>3. CASE ~CanTerminate(e.s, target)
    <3>1. target = e.s.current \/ e.s.task[target].state \in {"unused", "exited"}
      BY <1>9, <2>3 DEF CanTerminate
    <3>2. target = e.s.current => e.s.task[target].state = "running"
      BY <1>4, <2>1 DEF Good, CpuAccounted
    <3> QED BY <1>5, <1>6, <2>1, <2>3, <3>1, <3>2 DEF Sleeps
  <2> QED BY <2>2, <2>3
<1>10. Tables(k, d) /\ (Calm(k) => Calls(k, d))
  BY <1>1, <1>5, <1>6, <1>7, <1>8, <1>9, EndKeeps
<1> QED BY <1>10 DEF d

(* A scheduler step that ends or collects pid, and the cleanup if the slot *)
(* is free then.                                                           *)
LEMMA FreedKeeps ==
  ASSUME NEW k, Wired(k, {}), NEW pid \in User, NEW s, Good(s),
         \A q \in User : q # pid => Quiet(k.s, s, q),
         s = k.s \/ s.task[pid].state \in {"exited", "unused"},
         s.task[pid].state = "unused" => k.s.task[pid].state # "unused" \/ s = k.s
  PROVE  LET d == Freed(k, s, pid)
         IN  Tables(k, d) /\ (Calm(k) => Calls(k, d))
<1> DEFINE j == [k EXCEPT !.s = s]
           d == Freed(k, s, pid)
<1>1. k \in Kernel /\ Good(k.s) /\ Typed(s)
  BY DEF Wired, Good
<1>2. CASE k.s.task[pid].state # "unused" /\ s.task[pid].state = "unused"
  <2>1. d = Cleanup(j, pid)
    BY <1>2 DEF Freed, userspace_release_process
  <2>2. j \in Kernel /\ j.s = s /\ j.ch = k.ch /\ j.in = k.in /\ j.caps = k.caps /\ j.taken = k.taken
    BY <1>1 DEF Kernel, Typed
  <2> HIDE DEF d
  <2>3. Wired(j, {pid})
    <3> HIDE DEF j
    <3>1. OwnersLive(j, {pid})
      BY <2>2 DEF Wired, OwnersLive, ChannelSound, Quiet
    <3>2. HandlesSound(j)
      BY <2>2 DEF Wired, HandlesSound
    <3> QED BY <2>2, <3>1, <3>2 DEF Wired
  <2>4. Released(j, d, pid)
    BY <2>1, <2>3, CleanupReleases
  <2>5. d \in Kernel /\ Good(d.s) /\ d.s.task[pid] = s.task[pid]
    BY <1>2, <2>2, <2>4, Constants DEF Released, CanWake
  <2>6. \A q \in User : q # pid => Quiet(d.s, d.s, q)
    BY SameQuiet
  <2>7. ~Sleeps(d.s, pid) /\ d.s.task[pid].state \notin {"ready", "running"}
    BY <1>2, <2>5 DEF Sleeps
  <2>8. Tables(k, d) /\ (Calm(k) => Calls(k, d))
    BY <2>1, <2>5, <2>6, <2>7, EndKeeps
  <2> QED BY <2>8 DEF d
<1>3. CASE ~(k.s.task[pid].state # "unused" /\ s.task[pid].state = "unused") /\ s = k.s
  <2>1. d = k
    BY <1>1, <1>3, SameKernel DEF Freed
  <2> QED BY <2>1, NothingDone
<1>4. CASE ~(k.s.task[pid].state # "unused" /\ s.task[pid].state = "unused") /\ s # k.s
  <2>1. d = j /\ s.task[pid].state = "exited"
    BY <1>4 DEF Freed
  <2>2. d \in Kernel /\ d.s = s /\ d.ch = k.ch /\ d.in = k.in /\ d.caps = k.caps /\ d.taken = k.taken
    BY <1>1, <2>1 DEF Kernel, Typed
  <2> HIDE DEF d, j
  <2>3. Steps(k, d)
    BY <2>2 DEF Steps, Step
  <2>4. \A q \in User : d.s.task[q].state = "unused" => k.s.task[q].state = "unused"
    BY <2>1, <2>2 DEF Quiet
  <2>5. Tables(k, d)
    BY <2>2, <2>3, <2>4, StaysWired DEF Wired
  <2>6. Removal(k, d, {})
    BY <2>1, <2>2 DEF Removal, Drops
  <2> QED BY <2>5, <2>6, RemovalCalls DEF d
<1> QED BY <1>2, <1>3, <1>4

(* The shell's kill.                                                       *)
LEMMA KillKeeps ==
  ASSUME NEW k, Wired(k, {}), NEW pid \in User
  PROVE  LET d == applet_kill(k, pid)
         IN  Tables(k, d) /\ (Calm(k) => Calls(k, d))
<1> DEFINE s == scheduler_terminate(k.s, pid)
<1>1. Good(k.s) /\ Good(s)
  BY TerminateGood DEF Wired
<1>2. /\ \A q \in User : q # pid => Quiet(k.s, s, q)
      /\ ~CanTerminate(k.s, pid) => s = k.s
      /\ CanTerminate(k.s, pid) => s.task[pid].state \in {"exited", "unused"}
  BY <1>1, TerminateSlots
<1>3. CanTerminate(k.s, pid) => k.s.task[pid].state # "unused"
  BY DEF CanTerminate
<1> HIDE DEF s
<1> QED BY <1>1, <1>2, <1>3, FreedKeeps DEF applet_kill, s

LEMMA ReapKeeps ==
  ASSUME NEW k, Wired(k, {}), NEW parent, NEW child \in User
  PROVE  LET d == Freed(k, scheduler_reap(k.s, parent, child), child)
         IN  Tables(k, d) /\ (Calm(k) => Calls(k, d))
<1> DEFINE s == scheduler_reap(k.s, parent, child)
<1>1. Good(k.s) /\ Good(s)
  BY ReapGood DEF Wired
<1>2. /\ \A q \in Pid : (q # child \/ ~CanReap(k.s, parent, child)) => s.task[q] = k.s.task[q]
      /\ CanReap(k.s, parent, child) => s.task[child].state = "unused"
  BY <1>1, ReapSlots
<1>3. ~CanReap(k.s, parent, child) => s = k.s
  BY DEF scheduler_reap
<1>4. CanReap(k.s, parent, child) => k.s.task[child].state # "unused"
  BY DEF CanReap
<1> HIDE DEF s
<1>5. \A q \in User : q # child => Quiet(k.s, s, q)
  BY <1>2, SameQuiet, Constants
<1>6. Tables(k, Freed(k, s, child)) /\ (Calm(k) => Calls(k, Freed(k, s, child)))
  BY <1>1, <1>2, <1>3, <1>4, <1>5, FreedKeeps
<1> QED BY <1>6 DEF s

LEMMA KernelReapKeeps ==
  ASSUME NEW k, Wired(k, {}), NEW child
  PROVE  LET d == kernel_reap(k, child)
         IN  Tables(k, d) /\ (Calm(k) => Calls(k, d))
<1>1. CASE child \in User
  BY <1>1, ReapKeeps DEF kernel_reap
<1>2. CASE child \notin User
  BY <1>2, NothingDone DEF kernel_reap
<1> QED BY <1>1, <1>2

(* Syscall 51.                                                             *)
LEMMA ReapExitedKeeps ==
  ASSUME NEW k, Wired(k, {})
  PROVE  LET d == sys_reap_exited(k)
         IN  Tables(k, d) /\ (Calm(k) => Calls(k, d))
<1> DEFINE gone == ExitedChildren(k.s, Me(k))
           child == First(gone)
<1>1. CASE gone = {}
  BY <1>1, NothingDone DEF sys_reap_exited
<1>2. CASE gone # {}
  <2>1. child \in gone
    <3>1. gone \subseteq Nat
      BY SchedulerConstants DEF ExitedChildren, User
    <3> HIDE DEF gone
    <3> QED BY <1>2, <3>1, LeastExists DEF First
  <2>2. child \in User
    BY <2>1 DEF ExitedChildren
  <2>3. scheduler_reap_exited(k.s, Me(k)) = scheduler_reap(k.s, Me(k), child)
    BY <1>2 DEF scheduler_reap_exited, First
  <2>4. sys_reap_exited(k) = Freed(k, scheduler_reap(k.s, Me(k), child), child)
    BY <1>2, <2>3 DEF sys_reap_exited
  <2> HIDE DEF child
  <2> QED BY <2>2, <2>4, ReapKeeps
<1> QED BY <1>1, <1>2

-----------------------------------------------------------------------------
(* The specification.                                                      *)

Keeps(k, d) == Tables(k, d) /\ (Calm(k) => Calls(k, d))

LEMMA SysFields ==
  /\ Sys.s = sched /\ Sys.ch = chan /\ Sys.in = input
  /\ Sys.caps = caps /\ Sys.taken = taken /\ Me(Sys) = sched.current
BY DEF Sys, Me

LEMMA Becomes ==
  ASSUME NEW k, NEW d, Keeps(k, d), Become(d)
  PROVE  Keeps(k, Sys')
<1>1. d \in Kernel
  BY DEF Keeps, Tables, Wired
<1>2. Sys' = d
  BY <1>1 DEF Kernel, Become, Sys
<1> QED BY <1>2

(* A step of the scheduler alone.                                          *)
LEMMA SchedulerOnly ==
  ASSUME NEW k, k = Sys, Wired(k, {}), NEW s, Good(s), \A q \in User : Quiet(k.s, s, q),
         sched' = s, UNCHANGED Others
  PROVE  Keeps(k, Sys')
<1> DEFINE d == [k EXCEPT !.s = s]
<1>1. Keeps(k, d)
  BY QuietStep DEF Keeps
<1>2. k \in Kernel
  BY DEF Wired
<1>3. d.s = s /\ d.ch = k.ch /\ d.in = k.in /\ d.caps = k.caps /\ d.taken = k.taken
  BY <1>2 DEF Kernel
<1> HIDE DEF d
<1>4. Become(d)
  BY <1>3, SysFields DEF Become, Others
<1> QED BY <1>1, <1>4, Becomes

LEMMA NextKeeps ==
  ASSUME NEW k, k = Sys, Wired(k, {}), IpcNext
  PROVE  Keeps(k, Sys')
<1>1. /\ k.s = sched /\ k.ch = chan /\ k.in = input /\ k.caps = caps
      /\ Me(k) = sched.current /\ k \in Kernel /\ Good(k.s) /\ k.s.current \in Pid
  BY SysFields, TaskFields DEF Wired, Good
<1>2. ASSUME InUser PROVE k.s.running /\ Me(k) # 0 /\ Me(k) \in User /\ k.s.task[Me(k)].state = "running"
  <2>1. k.s.running /\ Me(k) # 0
    BY <1>1, <1>2 DEF InUser
  <2> QED BY <2>1, Caller
<1>3. ASSUME NEW h \in caps[sched.current], InUser PROVE h \in Handle
  BY <1>1, <1>2, <1>3 DEF Kernel
<1>4. ASSUME NEW d, Keeps(k, d), Become(d) PROVE Keeps(k, Sys')
  BY <1>4, Becomes
<1>5. CASE Spawn
  <2>1. Good(scheduler_create_user(k.s, k.s.current))
    BY <1>1, CreateGood
  <2>2. \A q \in User : Quiet(k.s, scheduler_create_user(k.s, k.s.current), q)
    BY <1>1, CreateQuiet
  <2> QED BY <1>1, <1>5, <2>1, <2>2, SchedulerOnly DEF Spawn, Create
<1>6. CASE RunUsers
  <2>1. Good(scheduler_start_users(k.s)) /\ \A q \in User : Quiet(k.s, scheduler_start_users(k.s), q)
    BY <1>1, StartGood, StartHands, HandsQuiet
  <2> QED BY <1>1, <1>6, <2>1, SchedulerOnly DEF RunUsers, Start
<1>7. CASE YieldCall
  <2>1. Good(scheduler_on_yield(k.s)) /\ \A q \in User : Quiet(k.s, scheduler_on_yield(k.s), q)
    BY <1>1, YieldGood, YieldHands, HandsQuiet
  <2> QED BY <1>1, <1>7, <2>1, SchedulerOnly DEF YieldCall, Yield
<1>8. CASE CloseCall
  <2>1. InUser
    BY <1>8 DEF CloseCall, Calling
  <2>2. PICK h \in caps[sched.current] :
          /\ caps' = [caps EXCEPT ![sched.current] = @ \ {h}]
          /\ UNCHANGED <<sched, chan, input, taken>>
    BY <1>8 DEF CloseCall
  <2> DEFINE f == [k.caps EXCEPT ![Me(k)] = @ \ {h}]
             d == [k EXCEPT !.caps = f]
  <2>3. k.caps \in [User -> SUBSET Handle]
    BY <1>1 DEF Kernel
  <2>4. f \in [User -> SUBSET Handle] /\ \A p \in User : f[p] \subseteq k.caps[p]
    BY <2>3
  <2>5. caps' = f
    BY <1>1, <2>2
  <2> HIDE DEF f
  <2>6. Keeps(k, d)
    BY <2>4, CapsStep DEF Keeps
  <2>7. d.s = k.s /\ d.ch = k.ch /\ d.in = k.in /\ d.caps = f /\ d.taken = k.taken
    BY <1>1 DEF Kernel
  <2> HIDE DEF d
  <2>8. Become(d)
    BY <1>1, <2>2, <2>5, <2>7, SysFields DEF Become
  <2> QED BY <1>4, <2>6, <2>8
<1>9. CASE TimerTick
  <2>1. Keeps(k, timer_tick(k))
    BY TimerKeeps DEF Keeps
  <2> QED BY <1>4, <1>9, <2>1 DEF TimerTick
<1>10. CASE ExitCall
  <2>1. Keeps(k, sys_exit(k))
    BY <1>2, <1>10, ExitKeeps DEF Keeps, ExitCall
  <2> QED BY <1>4, <1>10, <2>1 DEF ExitCall
<1>11. CASE WaitCall
  <2>1. PICK child \in 0 .. ProcessLimit : Become(sys_wait(k, child))
    BY <1>11 DEF WaitCall
  <2>2. Keeps(k, sys_wait(k, child))
    BY <1>2, <1>11, WaitKeeps DEF Keeps, WaitCall
  <2> QED BY <1>4, <2>1, <2>2
<1>12. CASE TerminateCall
  <2>1. PICK target \in 0 .. ProcessLimit : Become(sys_terminate(k, target))
    BY <1>12 DEF TerminateCall
  <2>2. Keeps(k, sys_terminate(k, target))
    BY TerminateKeeps DEF Keeps
  <2> QED BY <1>4, <2>1, <2>2
<1>13. CASE KillCommand
  <2>1. PICK pid \in User : Become(applet_kill(k, pid))
    BY <1>13 DEF KillCommand
  <2>2. Keeps(k, applet_kill(k, pid))
    BY KillKeeps DEF Keeps
  <2> QED BY <1>4, <2>1, <2>2
<1>14. CASE KernelReap
  <2>1. PICK child \in User : Become(kernel_reap(k, child))
    BY <1>14 DEF KernelReap
  <2>2. Keeps(k, kernel_reap(k, child))
    BY KernelReapKeeps DEF Keeps
  <2> QED BY <1>4, <2>1, <2>2
<1>15. CASE ReapCall
  <2>1. Keeps(k, sys_reap_exited(k))
    BY ReapExitedKeeps DEF Keeps
  <2> QED BY <1>4, <1>15, <2>1 DEF ReapCall
<1>16. CASE SpawnWaitCall
  <2>1. Keeps(k, sys_spawn_wait(k))
    BY <1>2, <1>16, SpawnWaitKeeps DEF Keeps, SpawnWaitCall
  <2> QED BY <1>4, <1>16, <2>1 DEF SpawnWaitCall
<1>17. CASE CreateCall
  <2>1. PICK name \in Names, granted \in BOOLEAN : Become(ipc_create(k, Me(k), name, granted))
    BY <1>1, <1>17 DEF CreateCall
  <2>2. Me(k) \in User /\ k.s.task[Me(k)].state # "unused"
    BY <1>2, <1>17 DEF CreateCall, Calling
  <2>3. Keeps(k, ipc_create(k, Me(k), name, granted))
    BY <2>2, CreateKeeps DEF Keeps
  <2> QED BY <1>4, <2>1, <2>3
<1>18. CASE ConnectCall
  <2>1. PICK name \in Names : Become(ipc_connect(k, Me(k), name))
    BY <1>1, <1>18 DEF ConnectCall
  <2>2. Me(k) \in User
    BY <1>2, <1>18 DEF ConnectCall, Calling
  <2>3. Keeps(k, ipc_connect(k, Me(k), name))
    BY <2>2, ConnectKeeps DEF Keeps
  <2> QED BY <1>4, <2>1, <2>3
<1>19. CASE SendCall
  <2>1. PICK h \in caps[sched.current], length \in Lengths : Become(ipc_send_block(k, h, length))
    BY <1>19 DEF SendCall
  <2>2. InUser
    BY <1>19 DEF SendCall, Calling
  <2>3. h \in Handle /\ k.s.running /\ Me(k) # 0
    BY <1>2, <1>3, <2>2
  <2>4. Keeps(k, ipc_send_block(k, h, length))
    BY <2>3, SendKeeps DEF Keeps
  <2> QED BY <1>4, <2>1, <2>4
<1>20. CASE ReceiveCall
  <2>1. PICK h \in caps[sched.current], place \in Places, capacity \in Capacities, nonblock \in BOOLEAN :
          Become(sys_receive(k, h, place, capacity, nonblock))
    BY <1>20 DEF ReceiveCall
  <2>2. InUser
    BY <1>20 DEF ReceiveCall, Calling
  <2>3. h \in Handle /\ k.s.running /\ Me(k) # 0
    BY <1>2, <1>3, <2>2
  <2>4. Keeps(k, sys_receive(k, h, place, capacity, nonblock))
    BY <2>3, ReceiveKeeps DEF Keeps
  <2> QED BY <1>4, <2>1, <2>4
<1>21. CASE PollCall
  <2>1. PICK place \in Places : Become(sys_input_poll(k, place))
    BY <1>21 DEF PollCall
  <2>2. Keeps(k, sys_input_poll(k, place))
    BY PollKeeps DEF Keeps
  <2> QED BY <1>4, <2>1, <2>2
<1>22. CASE SelectCall
  <2>1. PICK h \in caps[sched.current], place \in Places, eplace \in Places, delay \in 0 .. MaxDelay :
          Become(sys_select(k, h, place, eplace, delay))
    BY <1>22 DEF SelectCall
  <2>2. InUser
    BY <1>22 DEF SelectCall, Calling
  <2>3. h \in Handle /\ k.s.running /\ Me(k) # 0
    BY <1>2, <1>3, <2>2
  <2>4. Keeps(k, sys_select(k, h, place, eplace, delay))
    BY <2>3, SelectKeeps DEF Keeps
  <2> QED BY <1>4, <2>1, <2>4
<1>23. CASE InputIrq
  <2>1. PICK event \in Event : Become(input_publish(k, event))
    BY <1>23 DEF InputIrq
  <2>2. Keeps(k, input_publish(k, event))
    BY PublishKeeps DEF Keeps
  <2> QED BY <1>4, <2>1, <2>2
<1>24. CASE DiscardPending
  <2>1. Keeps(k, input_discard_pending(k))
    BY DiscardKeeps DEF Keeps
  <2> QED BY <1>4, <1>24, <2>1 DEF DiscardPending
<1> QED BY <1>5, <1>6, <1>7, <1>8, <1>9, <1>10, <1>11, <1>12, <1>13, <1>14, <1>15, <1>16,
           <1>17, <1>18, <1>19, <1>20, <1>21, <1>22, <1>23, <1>24 DEF IpcNext

LEMMA SysKeeps ==
  ASSUME Wired(Sys, {}), [IpcNext]_vars
  PROVE  Keeps(Sys, Sys')
<1>1. CASE IpcNext
  BY <1>1, NextKeeps
<1>2. CASE UNCHANGED vars
  <2>1. Sys' = Sys
    BY <1>2 DEF vars, Sys
  <2> QED BY <2>1, NothingDone DEF Keeps
<1> QED BY <1>1, <1>2

LEMMA InitWired ==
  ASSUME IpcInit
  PROVE  /\ Wired(Sys, {}) /\ Clear(Sys) /\ Registered(Sys) /\ Fitting(Sys)
         /\ Contents = <<>> /\ taken[1] = NoMessage
<1> DEFINE k == Sys
<1>1. /\ k.s = SchedulerInit /\ k.ch = [c \in Chan |-> NoChannel] /\ k.in = input_init
      /\ k.caps = [p \in User |-> {}] /\ k.taken = [c \in Chan |-> NoMessage]
  BY SysFields DEF IpcInit, Init, ipc_init
<1>2. Good(k.s) /\ Typed(k.s)
  BY <1>1, InitGood DEF Good
<1>3. <<>> \in Seq(Sent) /\ <<>> \in Seq(Event) /\ Len(<<>>) = 0
  OBVIOUS
<1>4. ChannelSound(NoChannel)
  BY <1>3, Facts, IpcConstants DEF ChannelSound
<1>5. k.in \in [q : Seq(Event), waiter : InputWaiter] /\ InputSound(k.in) /\ ~k.in.waiter.active
  <2>1. input_init.q = <<>> /\ input_init.waiter = NoInputWaiter
    BY DEF input_init
  <2>2. input_init \in [q : Seq(Event), waiter : InputWaiter]
    BY <1>3, Facts DEF input_init
  <2> QED BY <1>1, <1>3, <2>1, <2>2, Facts, IpcConstants DEF InputSound
<1>6. k \in Kernel
  <2>1. k.ch \in [Chan -> Channel] /\ k.caps \in [User -> SUBSET Handle]
        /\ k.taken \in [Chan -> Message \cup {NoMessage}]
    BY <1>1, Facts
  <2>2. k = [s |-> k.s, ch |-> k.ch, in |-> k.in, caps |-> k.caps, taken |-> k.taken]
    BY DEF Sys
  <2> HIDE DEF k
  <2> QED BY <1>2, <1>5, <2>1, <2>2 DEF Kernel, Typed
<1>7. \A c \in Chan : k.ch[c] = NoChannel
  BY <1>1
<1>8. \A p \in User : k.caps[p] = {}
  BY <1>1
<1>9. Wired(k, {})
  BY <1>2, <1>4, <1>5, <1>6, <1>7, <1>8, Facts DEF Wired, HandlesSound, OwnersLive
<1>10. Clear(k) /\ Fitting(k)
  BY <1>5, <1>7, Facts DEF Clear, Fitting
<1>11. ASSUME NEW p \in User PROVE Answerable(k, p)
  <2>1. ~Present(k, p) /\ ~Selects(k, p)
    BY <1>5, <1>7, Facts DEF Present, Listens, Attends, Receives, Sends, Selects
  <2>2. ~Sleeps(k.s, p)
    <3>1. p \in Pid /\ p # 0
      BY Facts
    <3>2. SchedulerInit.task[p] = MakeTask("unused", 0, WaitNone)
      BY <3>1 DEF SchedulerInit
    <3>3. SchedulerInit.task[p].state = "unused"
      BY <3>2 DEF MakeTask
    <3> QED BY <1>1, <3>3 DEF Sleeps
  <2> QED BY <2>1, <2>2 DEF Answerable, Present, Attends
<1>12. 1 \in Chan
  BY IpcConstants DEF Chan
<1>13. Contents = <<>> /\ taken[1] = NoMessage
  BY <1>1, <1>7, <1>12, SysFields, Facts DEF Contents
<1> QED BY <1>9, <1>10, <1>11, <1>13 DEF Registered

(* The tables of channels, input, handles and tasks stay wired together,   *)
(* whatever the programs send and however small their buffers are.         *)
THEOREM IpcWired == IpcSpec => []Wired(Sys, {})
<1>1. IpcInit => Wired(Sys, {})
  BY InitWired
<1>2. Wired(Sys, {}) /\ [IpcNext]_vars => Wired(Sys, {})'
  <2> SUFFICES ASSUME Wired(Sys, {}), [IpcNext]_vars PROVE Wired(Sys, {})'
    OBVIOUS
  <2>1. Wired(Sys', {})
    BY SysKeeps DEF Keeps, Tables
  <2> QED BY <2>1
<1> QED BY <1>1, <1>2, PTL DEF IpcSpec

(* Queues, rings, waiters and handles stay in range: no channel queue is   *)
(* longer than IPC_QUEUE_DEPTH and no event is written past the ring, for  *)
(* any sequence of system calls and interrupts.                            *)
THEOREM IpcTypes == IpcSpec => []IpcTypeOK
<1>1. Wired(Sys, {}) => IpcTypeOK
  <2> SUFFICES ASSUME NEW k, k = Sys, Wired(k, {}) PROVE IpcTypeOK
    OBVIOUS
  <2>1. k \in Kernel /\ Typed(k.s)
    BY DEF Wired, Good
  <2>2. \A c \in Chan : Len(k.ch[c].q) <= QueueDepth
    BY DEF Wired, ChannelSound
  <2>3. Len(k.in.q) <= InputCapacity
    BY DEF Wired, InputSound
  <2>4. /\ k.s = sched /\ k.ch = chan /\ k.in = input /\ k.caps = caps /\ k.taken = taken
    BY SysFields
  <2> QED BY <2>1, <2>2, <2>3, <2>4 DEF IpcTypeOK, TypeOK, Kernel
<1> QED BY <1>1, IpcWired, PTL

(* Receivers wait on empty queues when every buffer holds every message.   *)
LEMMA ClearAlways == LengthsFit => (IpcSpec => [](Wired(Sys, {}) /\ Clear(Sys)))
<1> SUFFICES ASSUME LengthsFit PROVE IpcSpec => [](Wired(Sys, {}) /\ Clear(Sys))
  OBVIOUS
<1>1. IpcInit => Wired(Sys, {}) /\ Clear(Sys)
  BY InitWired
<1>2. (Wired(Sys, {}) /\ Clear(Sys)) /\ [IpcNext]_vars => (Wired(Sys, {}) /\ Clear(Sys))'
  <2> SUFFICES ASSUME Wired(Sys, {}), Clear(Sys), [IpcNext]_vars
               PROVE  Wired(Sys', {}) /\ Clear(Sys')
    OBVIOUS
  <2>1. Wired(Sys', {}) /\ Steps(Sys, Sys')
    BY SysKeeps DEF Keeps, Tables
  <2> DEFINE k == Sys
             d == Sys'
  <2> HIDE DEF k, d
  <2>2. \A c \in Chan : Step(k.ch[c], k.taken[c], d.ch[c], d.taken[c])
    BY <2>1 DEF Steps, k, d
  <2>3. \A c \in Chan : ChannelSound(k.ch[c]) /\ (k.ch[c].waiter.active => k.ch[c].q = <<>>)
    BY DEF Wired, Clear, k
  <2>4. ASSUME NEW c \in Chan PROVE d.ch[c].waiter.active => d.ch[c].q = <<>>
    BY <2>2, <2>3, StepClear
  <2>5. Clear(d)
    BY <2>4 DEF Clear
  <2> QED BY <2>1, <2>5 DEF d
<1> QED BY <1>1, <1>2, PTL DEF IpcSpec

(* If every receiver offers room for every message, a receiver waits only  *)
(* on an empty queue, a sender is parked only behind a full one, a select  *)
(* sleeps only when no input is pending, and only the owner of a live      *)
(* channel holds a handle to receive from it.                              *)
THEOREM IpcWaiters == LengthsFit => (IpcSpec => []WaitersSeeEmptyQueues)
<1> SUFFICES ASSUME LengthsFit PROVE IpcSpec => []WaitersSeeEmptyQueues
  OBVIOUS
<1>1. Wired(Sys, {}) /\ Clear(Sys) => WaitersSeeEmptyQueues
  <2> SUFFICES ASSUME NEW k, k = Sys, Wired(k, {}), Clear(k) PROVE WaitersSeeEmptyQueues
    OBVIOUS
  <2>1. /\ k.s = sched /\ k.ch = chan /\ k.in = input /\ k.caps = caps
    BY SysFields
  <2>2. ASSUME NEW c \in Chan
        PROVE  /\ k.ch[c].waiter.active => /\ k.ch[c].q = <<>> /\ ~k.ch[c].sender.active
                                           /\ k.ch[c].waiter.pid = k.ch[c].owner
               /\ k.ch[c].sender.active => Len(k.ch[c].q) = QueueDepth
               /\ k.ch[c].active => k.s.task[k.ch[c].owner].state # "unused"
    <3>1. ChannelSound(k.ch[c]) /\ QueueDepth # 0 /\ Len(<<>>) = 0
      BY IpcConstants DEF Wired
    <3>2. k.ch[c].waiter.active => k.ch[c].q = <<>>
      BY DEF Clear
    <3>3. k.ch[c].active => k.s.task[k.ch[c].owner].state # "unused"
      BY DEF Wired, OwnersLive
    <3> QED BY <3>1, <3>2, <3>3 DEF ChannelSound
  <2>3. k.in.waiter.active => k.in.q = <<>>
    BY DEF Wired, InputSound
  <2>4. \A p \in User : \A h \in k.caps[p] : h.right = "receive" =>
          k.ch[h.chan].active /\ k.ch[h.chan].owner = p /\ k.ch[h.chan].name = h.name
    BY DEF Wired, HandlesSound
  <2> QED BY <2>1, <2>2, <2>3, <2>4 DEF WaitersSeeEmptyQueues
<1> QED BY <1>1, ClearAlways, PTL

(* Each system call puts its caller to sleep registered, or ends whole     *)
(* calls.                                                                  *)
LEMMA CalmAlways == BuffersFit => (IpcSpec => [](Wired(Sys, {}) /\ Calm(Sys)))
<1> SUFFICES ASSUME BuffersFit PROVE IpcSpec => [](Wired(Sys, {}) /\ Calm(Sys))
  OBVIOUS
<1>1. IpcInit => Wired(Sys, {}) /\ Calm(Sys)
  BY InitWired DEF Calm
<1>2. (Wired(Sys, {}) /\ Calm(Sys)) /\ [IpcNext]_vars => (Wired(Sys, {}) /\ Calm(Sys))'
  <2> SUFFICES ASSUME Wired(Sys, {}), Calm(Sys), [IpcNext]_vars
               PROVE  Wired(Sys', {}) /\ Calm(Sys')
    BY DEF Calm
  <2>1. Keeps(Sys, Sys')
    BY SysKeeps
  <2> QED BY <2>1 DEF Keeps, Tables, Calls, Calm
<1> QED BY <1>1, <1>2, PTL DEF IpcSpec

(* If every receiver offers a buffer that holds every message and that the *)
(* kernel can write from any process, nobody sleeps unheard and no         *)
(* registration outlives its call: send, receive, select, the timer, input *)
(* interrupts, exit, kill and reaping keep the channel and input waiters   *)
(* in step with the task table.                                            *)
THEOREM IpcSleepers == BuffersFit => (IpcSpec => []SleepersAreRegistered)
<1> SUFFICES ASSUME BuffersFit PROVE IpcSpec => []SleepersAreRegistered
  OBVIOUS
<1>1. Wired(Sys, {}) /\ Calm(Sys) => SleepersAreRegistered
  <2> SUFFICES ASSUME NEW k, k = Sys, Calm(k), NEW p \in User
               PROVE  /\ Asleep(p) => /\ Receiving(p) # {} \/ Parked(p) # {}
                                      /\ Multiplexed(p) <=> AwaitsInput(p)
                                      /\ sched.task[p].timed => Multiplexed(p)
                      /\ Receiving(p) # {} \/ Parked(p) # {} \/ AwaitsInput(p) =>
                            Asleep(p) \/ sched.task[p].state = "exited"
                      /\ \A c, d \in Receiving(p) \cup Parked(p) : c = d
                      /\ Receiving(p) = {} \/ Parked(p) = {}
                      /\ AwaitsInput(p) => Multiplexed(p)
    BY DEF SleepersAreRegistered
  <2>1. k.s = sched /\ k.ch = chan /\ k.in = input
    BY SysFields
  <2>2. Answerable(k, p)
    BY DEF Calm, Registered
  <2>3. /\ \A c \in Chan : c \in Receiving(p) <=> Receives(k, p, c)
        /\ \A c \in Chan : c \in Parked(p) <=> Sends(k, p, c)
        /\ Receiving(p) \subseteq Chan /\ Parked(p) \subseteq Chan
    BY <2>1 DEF Receiving, Parked, Receives, Sends
  <2>4. AwaitsInput(p) <=> Listens(k, p)
    BY <2>1 DEF AwaitsInput, Listens
  <2>5. Multiplexed(p) <=> Selects(k, p)
    BY <2>1, <2>3 DEF Multiplexed, Selects
  <2>6. Asleep(p) <=> Sleeps(k.s, p)
    BY <2>1 DEF Asleep, Sleeps
  <2>7. Receiving(p) # {} \/ Parked(p) # {} <=> \E c \in Chan : Attends(k, p, c)
    BY <2>3 DEF Attends
  <2>8. Asleep(p) => /\ Receiving(p) # {} \/ Parked(p) # {}
                     /\ Multiplexed(p) <=> AwaitsInput(p)
                     /\ sched.task[p].timed => Multiplexed(p)
    BY <2>1, <2>2, <2>4, <2>5, <2>6, <2>7 DEF Answerable
  <2>9. Receiving(p) # {} \/ Parked(p) # {} \/ AwaitsInput(p) =>
          Asleep(p) \/ sched.task[p].state = "exited"
    BY <2>1, <2>2, <2>4, <2>6, <2>7 DEF Answerable, Present
  <2>10. \A c, d \in Receiving(p) \cup Parked(p) : c = d
    BY <2>2, <2>3 DEF Answerable, Attends
  <2>11. Receiving(p) = {} \/ Parked(p) = {}
    BY <2>2, <2>3 DEF Answerable
  <2>12. AwaitsInput(p) => Multiplexed(p)
    BY <2>2, <2>4, <2>5 DEF Answerable
  <2> QED BY <2>8, <2>9, <2>10, <2>11, <2>12
<1> QED BY <1>1, CalmAlways, PTL

(* If the buffers fit, a sleeper is resumed with an answer of the call it  *)
(* sleeps in, whoever resumes it, and is registered nowhere afterwards.    *)
THEOREM IpcAnswers == BuffersFit => (IpcSpec => AnswersFitTheCall)
<1> SUFFICES ASSUME BuffersFit PROVE IpcSpec => AnswersFitTheCall
  OBVIOUS
<1>1. (Wired(Sys, {}) /\ Calm(Sys)) /\ [IpcNext]_vars =>
        [\A p \in User :
           (Asleep(p) /\ sched'.task[p].state \in {"ready", "running"}) =>
              /\ sched'.task[p].rax \in
                   IF Parked(p) # {} THEN {GotSent, GotError}
                   ELSE IF Multiplexed(p) THEN {GotMessage, GotEvent, GotTime, GotError}
                   ELSE {GotMessage, GotError}
              /\ (Receiving(p) = {} /\ Parked(p) = {} /\ ~AwaitsInput(p))']_vars
  <2> SUFFICES ASSUME NEW k, k = Sys, Wired(k, {}), Calm(k), [IpcNext]_vars, NEW p \in User,
                      Asleep(p), sched'.task[p].state \in {"ready", "running"}
               PROVE  /\ sched'.task[p].rax \in
                           IF Parked(p) # {} THEN {GotSent, GotError}
                           ELSE IF Multiplexed(p) THEN {GotMessage, GotEvent, GotTime, GotError}
                           ELSE {GotMessage, GotError}
                      /\ (Receiving(p) = {} /\ Parked(p) = {} /\ ~AwaitsInput(p))'
    OBVIOUS
  <2>1. k.s = sched /\ k.ch = chan /\ k.in = input
    BY SysFields
  <2>2. Fit(k, Sys')
    BY SysKeeps DEF Keeps, Calls
  <2>3. PICK d : d = Sys'
    OBVIOUS
  <2>4. d.s = sched' /\ d.ch = chan' /\ d.in = input'
    BY <2>3 DEF Sys
  <2>5. Sleeps(k.s, p)
    BY <2>1 DEF Asleep, Sleeps
  <2>6. d.s.task[p].rax \in Answers(k, p) /\ ~Present(d, p)
    BY <2>2, <2>3, <2>4, <2>5 DEF Fit
  <2>7. /\ Parked(p) # {} <=> \E c \in Chan : Sends(k, p, c)
        /\ Multiplexed(p) <=> Selects(k, p)
    BY <2>1 DEF Parked, Sends, Multiplexed, Receiving, Selects, Receives
  <2>8. sched'.task[p].rax \in IF Parked(p) # {} THEN {GotSent, GotError}
                               ELSE IF Multiplexed(p) THEN {GotMessage, GotEvent, GotTime, GotError}
                               ELSE {GotMessage, GotError}
    BY <2>4, <2>6, <2>7 DEF Answers
  <2>9. (Receiving(p) = {} /\ Parked(p) = {} /\ ~AwaitsInput(p))'
    BY <2>4, <2>6 DEF Receiving, Parked, AwaitsInput, Present, Listens, Attends, Receives, Sends
  <2> QED BY <2>8, <2>9
<1> QED BY <1>1, CalmAlways, PTL DEF IpcSpec, AnswersFitTheCall

(* If every receiver offers room for every message, channel 1 is a bounded *)
(* FIFO pipe: ipc_send, direct delivery, parked senders, ipc_receive and   *)
(* the end of either process neither lose, repeat nor reorder a message.   *)
THEOREM IpcPipe == LengthsFit => (IpcSpec => ImplementsPipe)
<1> SUFFICES ASSUME LengthsFit PROVE IpcSpec => ImplementsPipe
  OBVIOUS
<1>1. IpcInit => PipeView!Init
  BY InitWired DEF PipeView!Init
<1>2. (Wired(Sys, {}) /\ Clear(Sys)) /\ [IpcNext]_vars => [PipeView!Next]_<<Contents, taken[1]>>
  <2> SUFFICES ASSUME NEW k, k = Sys, Wired(k, {}), Clear(k), [IpcNext]_vars
               PROVE  [PipeView!Next]_<<Contents, taken[1]>>
    OBVIOUS
  <2>1. PICK d : d = Sys'
    OBVIOUS
  <2>2. 1 \in Chan
    BY IpcConstants DEF Chan
  <2>3. Step(k.ch[1], k.taken[1], d.ch[1], d.taken[1])
    BY <2>1, <2>2, SysKeeps DEF Keeps, Tables, Steps
  <2>4. ChannelSound(k.ch[1]) /\ (k.ch[1].waiter.active => k.ch[1].q = <<>>)
    BY <2>2 DEF Wired, Clear
  <2> DEFINE q == Held(k.ch[1])
             r == Held(d.ch[1])
             t == k.taken[1]
             u == d.taken[1]
  <2>5. Contents = q /\ taken[1] = t
    BY SysFields DEF Contents, Held
  <2>6. Contents' = r /\ taken'[1] = u
    BY <2>1 DEF Contents, Held, Sys
  <2>7. \/ r = q /\ u = t
        \/ Len(q) <= QueueDepth /\ u = t /\ \E m \in Message : r = Append(q, m)
        \/ q # <<>> /\ u = Head(q) /\ r = Tail(q)
        \/ q = <<>> /\ r = q /\ u \in Message
        \/ Len(q) = QueueDepth + 1 /\ r = SubSeq(q, 1, QueueDepth) /\ u = t
        \/ r = <<>> /\ u = NoMessage
    BY <2>3, <2>4, StepPipe
  <2> HIDE DEF q, r, t, u
  <2> QED BY <2>5, <2>6, <2>7
          DEF PipeView!Next, PipeView!Put, PipeView!Take, PipeView!Pass, PipeView!Withdraw, PipeView!Close
<1> QED BY <1>1, <1>2, ClearAlways, PTL DEF IpcSpec, ImplementsPipe, PipeView!Spec
=============================================================================
