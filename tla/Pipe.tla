-------------------------------- MODULE Pipe --------------------------------
(***************************************************************************)
(* What a channel promises its users: a bounded first-in first-out pipe    *)
(* with one place behind the queue for the message of a blocked sender.    *)
(* Ipc implements it for each channel.                                     *)
(***************************************************************************)
EXTENDS Naturals, Sequences

CONSTANTS Messages, Nothing, Depth

VARIABLES
  q,      \* the accepted messages that were not received yet
  out     \* the last message received, Nothing before the first

Init == q = <<>> /\ out = Nothing

(* A message is accepted.                                                  *)
Put == /\ Len(q) <= Depth
       /\ \E m \in Messages : q' = Append(q, m)
       /\ UNCHANGED out

(* The oldest message is received.                                         *)
Take == /\ q # <<>>
        /\ out' = Head(q)
        /\ q' = Tail(q)

(* A message goes straight to a waiting receiver: only if none is older.   *)
Pass == /\ q = <<>>
        /\ \E m \in Messages : out' = m
        /\ UNCHANGED q

(* The blocked sender ends before its message was queued.                  *)
Withdraw == /\ Len(q) = Depth + 1
            /\ q' = SubSeq(q, 1, Depth)
            /\ UNCHANGED out

(* The owner ends, or another one opens the channel.                       *)
Close == q' = <<>> /\ out' = Nothing

Next == Put \/ Take \/ Pass \/ Withdraw \/ Close

Spec == Init /\ [][Next]_<<q, out>>
=============================================================================
