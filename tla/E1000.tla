------------------------------- MODULE E1000 --------------------------------
(***************************************************************************)
(* The network card's driver (src/e1000.c) and the card: two rings of      *)
(* descriptors in shared memory.  The card owns the descriptors from its   *)
(* head up to, not including, the tail register; status bit 0 (DD) of a    *)
(* descriptor says that the card is done with it.                          *)
(*                                                                         *)
(* Frames are numbered, 0 is an empty buffer.  s.given, s.sent, s.wire and *)
(* s.got are the last frame the stack handed over, the card sent, the wire *)
(* brought and the stack was handed (history variables).                   *)
(***************************************************************************)
EXTENDS Integers, TLAPS

CONSTANTS DESCRIPTOR_COUNT, FRAMES   \* FRAMES bounds each direction

E1000Constants == DESCRIPTOR_COUNT \in Nat \ {0}

VARIABLE s

Index == 0..DESCRIPTOR_COUNT - 1
After(i) == (i + 1) % DESCRIPTOR_COUNT

(* e1000_probe and e1000_start: the rings are zero, every transmit         *)
(* descriptor is done, one receive descriptor is kept from the card.       *)
e1000_start ==
  [rx |-> [i \in Index |-> [done |-> FALSE, frame |-> 0, bad |-> FALSE]],
   tx |-> [i \in Index |-> [done |-> TRUE, frame |-> 0]],
   rdh |-> 0, rdt |-> DESCRIPTOR_COUNT - 1, tdh |-> 0, tdt |-> 0, receive_index |-> 0, transmit_index |-> 0,
   given |-> 0, sent |-> 0, wire |-> 0, got |-> 0, whole |-> TRUE]
Init == s = e1000_start

e1000_transmit ==
  /\ s.given < FRAMES /\ s.tx[s.transmit_index].done
  /\ s' = [s EXCEPT !.tx[s.transmit_index] = [done |-> FALSE, frame |-> s.given + 1],
                    !.transmit_index = After(@), !.tdt = After(s.transmit_index), !.given = @ + 1]

(* One turn of the loop: a good frame goes to the stack, the descriptor    *)
(* back to the card.                                                       *)
e1000_poll ==
  LET d == s.rx[s.receive_index]
  IN  /\ d.done
      /\ s' = [s EXCEPT !.whole = @ /\ (d.bad \/ d.frame > s.got), !.got = IF d.bad THEN @ ELSE d.frame,
                        !.rx[s.receive_index].done = FALSE,
                        !.receive_index = After(@), !.rdt = s.receive_index]

(* The card.  A frame that finds no descriptor is lost.                    *)
CardReceives(bad) ==
  /\ s.wire < FRAMES
  /\ s' = IF s.rdh = s.rdt THEN [s EXCEPT !.wire = @ + 1]
          ELSE [s EXCEPT !.wire = @ + 1, !.rdh = After(@),
                         !.whole = @ /\ ~s.rx[s.rdh].done,
                         !.rx[s.rdh] = [done |-> TRUE, frame |-> s.wire + 1, bad |-> bad]]
CardSends ==
  /\ s.tdh # s.tdt
  /\ s' = [s EXCEPT !.tx[s.tdh].done = TRUE, !.tdh = After(@),
                    !.whole = @ /\ s.tx[s.tdh].frame = s.sent + 1, !.sent = s.tx[s.tdh].frame]

Next == e1000_transmit \/ e1000_poll \/ CardSends \/ \E bad \in BOOLEAN : CardReceives(bad)

Spec == Init /\ [][Next]_s

(* Every frame is sent once, in the order of the calls and with the bytes  *)
(* it was handed over with, however late the card is; a received buffer is *)
(* never overwritten before it is read, and frames reach the stack in      *)
(* order and once (the DD tests of e1000_transmit and e1000_poll, the      *)
(* descriptor that is kept from the card).                                 *)
RingsKeepFrames == s.whole

(***************************************************************************)
(* The proof, for rings of every size.  The invariant counts the turns of  *)
(* each ring instead of its indices.                                       *)
(***************************************************************************)
Rx == [Index -> [done : BOOLEAN, frame : Nat, bad : BOOLEAN]]
Tx == [Index -> [done : BOOLEAN, frame : Nat]]
State == [rx : Rx, tx : Tx, rdh : Index, rdt : Index, tdh : Index, tdt : Index,
          receive_index : Index, transmit_index : Index,
          given : Nat, sent : Nat, wire : Nat, got : Nat, whole : BOOLEAN]

(* Turn q of a ring uses descriptor i.                                     *)
Turn(q, i) == i \in Index /\ \E m \in Int : q = DESCRIPTOR_COUNT * m + i

(* Transmit: the turns from s.sent to s.given are in flight.               *)
Sending(k) ==
  /\ k.sent <= k.given /\ k.given <= k.sent + DESCRIPTOR_COUNT
  /\ Turn(k.sent, k.tdh) /\ Turn(k.given, k.tdt) /\ Turn(k.given, k.transmit_index)
  /\ \A q \in Nat, i \in Index : k.sent <= q /\ q < k.given /\ Turn(q, i) =>
       ~k.tx[i].done /\ k.tx[i].frame = q + 1

(* Receive: the turns from p to w hold frames nobody has read, in order;   *)
(* the descriptor before p is kept from the card.                          *)
Filled(k, p, w) ==
  /\ p \in Nat /\ w \in Nat /\ p <= w /\ w < p + DESCRIPTOR_COUNT
  /\ Turn(w, k.rdh) /\ Turn(p, k.receive_index) /\ Turn(p + DESCRIPTOR_COUNT - 1, k.rdt)
  /\ \A i \in Index : k.rx[i].done => \E q \in Nat : p <= q /\ q < w /\ Turn(q, i)
  /\ \A q \in Nat, i \in Index : p <= q /\ q < w /\ Turn(q, i) =>
       k.got < k.rx[i].frame /\ k.rx[i].frame <= k.wire
  /\ \A q, r \in Nat, i, j \in Index : p <= q /\ q < r /\ r < w /\ Turn(q, i) /\ Turn(r, j) =>
       k.rx[i].frame < k.rx[j].frame
Receiving(k) == k.got <= k.wire /\ \E p, w : Filled(k, p, w)

Good(k) == k \in State /\ Sending(k) /\ Receiving(k) /\ k.whole = TRUE

(* The descriptor after i has the next turn.                               *)
LEMMA NextTurn ==
  ASSUME E1000Constants, NEW q \in Nat, NEW i, Turn(q, i)
  PROVE  Turn(q + 1, After(i)) /\ After(i) \in Index
<1>1. PICK m \in Int : q = DESCRIPTOR_COUNT * m + i
  BY DEF Turn
<1>2. DESCRIPTOR_COUNT \in Nat \ {0} /\ i \in 0..DESCRIPTOR_COUNT - 1
  BY DEF Turn, Index, E1000Constants
<1>3. CASE i + 1 < DESCRIPTOR_COUNT
  <2>1. After(i) = i + 1 /\ i + 1 \in Index
    BY <1>2, <1>3 DEF After, Index
  <2>2. q + 1 = DESCRIPTOR_COUNT * m + (i + 1)
    BY <1>1, <1>2
  <2> QED BY <2>1, <2>2 DEF Turn
<1>4. CASE i + 1 = DESCRIPTOR_COUNT
  <2>1. After(i) = 0 /\ 0 \in Index
    BY <1>2, <1>4 DEF After, Index
  <2>2. m + 1 \in Int /\ q + 1 = DESCRIPTOR_COUNT * (m + 1) + 0
    BY <1>1, <1>2, <1>4
  <2> QED BY <2>1, <2>2 DEF Turn
<1> QED BY <1>2, <1>3, <1>4

(* A descriptor has its turn again after one round.                        *)
LEMMA Round ==
  ASSUME E1000Constants, NEW q \in Int, NEW i, Turn(q, i)
  PROVE  Turn(q + DESCRIPTOR_COUNT, i) /\ Turn(q - DESCRIPTOR_COUNT, i)
<1>1. PICK m \in Int : q = DESCRIPTOR_COUNT * m + i
  BY DEF Turn
<1>2. DESCRIPTOR_COUNT \in Nat \ {0} /\ i \in Index /\ i \in Int
  BY DEF Turn, Index, E1000Constants
<1>3. m + 1 \in Int /\ q + DESCRIPTOR_COUNT = DESCRIPTOR_COUNT * (m + 1) + i
  BY <1>1, <1>2
<1>4. m - 1 \in Int /\ q - DESCRIPTOR_COUNT = DESCRIPTOR_COUNT * (m - 1) + i
  BY <1>1, <1>2
<1> QED BY <1>2, <1>3, <1>4 DEF Turn

(* A turn has one descriptor.                                              *)
LEMMA OneDescriptor ==
  ASSUME E1000Constants, NEW q \in Int, NEW i, NEW j, Turn(q, i), Turn(q, j)
  PROVE  i = j
<1>1. PICK m \in Int : q = DESCRIPTOR_COUNT * m + i
  BY DEF Turn
<1>2. PICK l \in Int : q = DESCRIPTOR_COUNT * l + j
  BY DEF Turn
<1>3. DESCRIPTOR_COUNT \in Nat \ {0} /\ i \in 0..DESCRIPTOR_COUNT - 1 /\ j \in 0..DESCRIPTOR_COUNT - 1
  BY DEF Turn, Index, E1000Constants
<1>4. CASE l = m
  BY <1>1, <1>2, <1>3, <1>4
<1>5. CASE l <= m - 1
  BY <1>1, <1>2, <1>3, <1>5
<1>6. CASE l >= m + 1
  BY <1>1, <1>2, <1>3, <1>6
<1> QED BY <1>4, <1>5, <1>6

(* Within one round a descriptor has one turn.                             *)
LEMMA OneTurn ==
  ASSUME E1000Constants, NEW q \in Int, NEW r \in Int, NEW i, Turn(q, i), Turn(r, i),
         q < r + DESCRIPTOR_COUNT, r < q + DESCRIPTOR_COUNT
  PROVE  q = r
<1>1. PICK m \in Int : q = DESCRIPTOR_COUNT * m + i
  BY DEF Turn
<1>2. PICK l \in Int : r = DESCRIPTOR_COUNT * l + i
  BY DEF Turn
<1>3. DESCRIPTOR_COUNT \in Nat \ {0} /\ i \in 0..DESCRIPTOR_COUNT - 1
  BY DEF Turn, Index, E1000Constants
<1>4. CASE l = m
  BY <1>1, <1>2, <1>3, <1>4
<1>5. CASE l <= m - 1
  BY <1>1, <1>2, <1>3, <1>5
<1>6. CASE l >= m + 1
  BY <1>1, <1>2, <1>3, <1>6
<1> QED BY <1>4, <1>5, <1>6

(* e1000_transmit takes a descriptor only when the card is done with it.   *)
LEMMA TransmitGood ==
  ASSUME E1000Constants, NEW k, Good(k), k.tx[k.transmit_index].done, NEW d,
         d = [k EXCEPT !.tx[k.transmit_index] = [done |-> FALSE, frame |-> k.given + 1],
                       !.transmit_index = After(@), !.tdt = After(k.transmit_index), !.given = @ + 1]
  PROVE  Good(d)
<1> DEFINE N == DESCRIPTOR_COUNT
<1>1. k \in State /\ Sending(k) /\ Receiving(k) /\ k.whole = TRUE /\ N \in Nat \ {0}
  BY DEF Good, E1000Constants
<1>2. PICK t, g, h : t = k.transmit_index /\ g = k.given /\ h = k.sent
  OBVIOUS
<1>3. t \in Index /\ g \in Nat /\ h \in Nat /\ k.tx \in Tx /\ Turn(g, t) /\ h <= g /\ g <= h + N
  BY <1>1, <1>2 DEF State, Sending
<1>4. Turn(g + 1, After(t)) /\ After(t) \in Index
  BY <1>3, NextTurn
<1>5. PICK x : x = [k.tx EXCEPT ![t] = [done |-> FALSE, frame |-> g + 1]]
  OBVIOUS
<1>6. /\ x \in Tx /\ ~x[t].done /\ x[t].frame = g + 1
      /\ \A i \in Index \ {t} : x[i] = k.tx[i]
  BY <1>3, <1>5 DEF Tx
<1>7. d = [k EXCEPT !.tx = x, !.transmit_index = After(t), !.tdt = After(t), !.given = g + 1]
  BY <1>1, <1>2, <1>5 DEF State
<1>8. d \in State
  <2>1. PICK a, e : a = After(t) /\ e = g + 1
    OBVIOUS
  <2>2. a \in Index /\ e \in Nat
    BY <1>3, <1>4, <2>1
  <2>3. d = [k EXCEPT !.tx = x, !.transmit_index = a, !.tdt = a, !.given = e]
    BY <1>7, <2>1
  <2>4. PICK k1 : k1 = [k EXCEPT !.tx = x, !.given = e]
    OBVIOUS
  <2>5. k1 \in State
    BY <1>1, <1>6, <2>2, <2>4 DEF State
  <2>6. d = [k1 EXCEPT !.transmit_index = a, !.tdt = a]
    BY <2>3, <2>4
  <2> QED BY <2>2, <2>5, <2>6 DEF State
<1>9. /\ d.tx = x /\ d.transmit_index = After(t) /\ d.tdt = After(t) /\ d.given = g + 1 /\ d.sent = h
      /\ d.tdh = k.tdh /\ d.rx = k.rx /\ d.rdh = k.rdh /\ d.rdt = k.rdt
      /\ d.receive_index = k.receive_index /\ d.got = k.got /\ d.wire = k.wire /\ d.whole = TRUE
  BY <1>1, <1>2, <1>7 DEF State
<1>10. g # h + N
  <2> SUFFICES ASSUME g = h + N PROVE FALSE
    OBVIOUS
  <2>1. Turn(g - N, t) /\ g - N = h
    BY <1>1, <1>3, Round
  <2>2. h < g
    BY <1>1, <1>3
  <2>3. ~k.tx[t].done
    BY <1>1, <1>2, <1>3, <2>1, <2>2 DEF Sending
  <2> QED BY <1>2, <2>3
<1>11. ASSUME NEW q \in Nat, NEW i \in Index, h <= q, q < g + 1, Turn(q, i)
       PROVE  ~x[i].done /\ x[i].frame = q + 1
  <2>1. CASE q = g
    <3>1. i = t
      BY <1>3, <1>11, <2>1, OneDescriptor
    <3> QED BY <1>6, <2>1, <3>1
  <2>2. CASE q # g
    <3>1. q < g
      BY <1>3, <1>11, <2>2
    <3>2. ~k.tx[i].done /\ k.tx[i].frame = q + 1
      BY <1>1, <1>2, <1>11, <3>1 DEF Sending
    <3>3. i # t
      BY <1>2, <3>2
    <3> QED BY <1>6, <3>2, <3>3
  <2> QED BY <2>1, <2>2
<1>12. h <= g + 1 /\ g + 1 <= h + N
  BY <1>1, <1>3, <1>10
<1>13. Turn(h, d.tdh)
  BY <1>1, <1>2, <1>9 DEF Sending
<1>14. Sending(d)
  <2>1. PICK a, e : a = After(t) /\ e = g + 1
    OBVIOUS
  <2>2. /\ d.sent = h /\ d.given = e /\ h <= e /\ e <= h + N /\ Turn(h, d.tdh)
        /\ Turn(e, d.tdt) /\ Turn(e, d.transmit_index)
    BY <1>4, <1>9, <1>12, <1>13, <2>1
  <2>3. \A q \in Nat, i \in Index : h <= q /\ q < e /\ Turn(q, i) => ~d.tx[i].done /\ d.tx[i].frame = q + 1
    BY <1>9, <1>11, <2>1
  <2> QED BY <2>2, <2>3 DEF Sending
<1>15. Receiving(d)
  BY <1>1, <1>9 DEF Receiving, Filled
<1> QED BY <1>8, <1>9, <1>14, <1>15 DEF Good

(* The card sends the oldest frame in flight.                              *)
LEMMA SendGood ==
  ASSUME E1000Constants, NEW k, Good(k), k.tdh # k.tdt, NEW d,
         d = [k EXCEPT !.tx[k.tdh].done = TRUE, !.tdh = After(@),
                       !.whole = @ /\ k.tx[k.tdh].frame = k.sent + 1, !.sent = k.tx[k.tdh].frame]
  PROVE  Good(d)
<1> DEFINE N == DESCRIPTOR_COUNT
<1>1. k \in State /\ Sending(k) /\ Receiving(k) /\ k.whole = TRUE /\ N \in Nat \ {0}
  BY DEF Good, E1000Constants
<1>2. PICK t, g, h : t = k.tdh /\ g = k.given /\ h = k.sent
  OBVIOUS
<1>3. /\ t \in Index /\ g \in Nat /\ h \in Nat /\ k.tx \in Tx /\ Turn(h, t) /\ Turn(g, k.tdt)
      /\ h <= g /\ g <= h + N
  BY <1>1, <1>2 DEF State, Sending
<1>4. Turn(h + 1, After(t)) /\ After(t) \in Index
  BY <1>3, NextTurn
<1>5. h < g
  <2>1. h # g
    BY <1>2, <1>3, OneDescriptor
  <2> QED BY <1>3, <2>1
<1>6. k.tx[t].frame = h + 1
  BY <1>1, <1>2, <1>3, <1>5 DEF Sending
<1>7. PICK x : x = [k.tx EXCEPT ![t].done = TRUE]
  OBVIOUS
<1>8. x \in Tx /\ \A i \in Index \ {t} : x[i] = k.tx[i]
  BY <1>3, <1>7 DEF Tx
<1>9. d = [k EXCEPT !.tx = x, !.tdh = After(t), !.whole = TRUE, !.sent = h + 1]
  BY <1>1, <1>2, <1>6, <1>7 DEF State
<1>10. d \in State
  <2>1. PICK a, e : a = After(t) /\ e = h + 1
    OBVIOUS
  <2>2. a \in Index /\ e \in Nat
    BY <1>3, <1>4, <2>1
  <2>3. d = [k EXCEPT !.tx = x, !.tdh = a, !.whole = TRUE, !.sent = e]
    BY <1>9, <2>1
  <2>4. PICK k1 : k1 = [k EXCEPT !.tx = x, !.sent = e]
    OBVIOUS
  <2>5. k1 \in State
    BY <1>1, <1>8, <2>2, <2>4 DEF State
  <2>6. d = [k1 EXCEPT !.tdh = a, !.whole = TRUE]
    BY <2>3, <2>4
  <2> QED BY <2>2, <2>5, <2>6 DEF State
<1>11. /\ d.tx = x /\ d.transmit_index = k.transmit_index /\ d.tdt = k.tdt /\ d.given = g /\ d.sent = h + 1
       /\ d.tdh = After(t) /\ d.rx = k.rx /\ d.rdh = k.rdh /\ d.rdt = k.rdt
       /\ d.receive_index = k.receive_index /\ d.got = k.got /\ d.wire = k.wire /\ d.whole = TRUE
  BY <1>1, <1>2, <1>9 DEF State
<1>12. ASSUME NEW q \in Nat, NEW i \in Index, h + 1 <= q, q < g, Turn(q, i)
       PROVE  ~x[i].done /\ x[i].frame = q + 1
  <2>1. i # t
    <3>1. q < h + N /\ h < q + N /\ h # q
      BY <1>1, <1>3, <1>12
    <3> QED BY <1>3, <1>12, <3>1, OneTurn
  <2>2. h <= q
    BY <1>3, <1>12
  <2>3. ~k.tx[i].done /\ k.tx[i].frame = q + 1
    BY <1>1, <1>2, <1>12, <2>2 DEF Sending
  <2> QED BY <1>8, <2>1, <2>3
<1>13. h + 1 <= g /\ g <= h + 1 + N
  BY <1>1, <1>3, <1>5
<1>14. Turn(g, d.tdt) /\ Turn(g, d.transmit_index)
  BY <1>1, <1>2, <1>11 DEF Sending
<1>15. Sending(d)
  BY <1>4, <1>11, <1>12, <1>13, <1>14 DEF Sending
<1>16. Receiving(d)
  BY <1>1, <1>11 DEF Receiving, Filled
<1> QED BY <1>10, <1>11, <1>15, <1>16 DEF Good

(* A turn of e1000_poll's loop reads the oldest frame and gives the card   *)
(* the descriptor before it.                                               *)
LEMMA PollGood ==
  ASSUME E1000Constants, NEW k, Good(k), NEW e, e = k.rx[k.receive_index], e.done, NEW d,
         d = [k EXCEPT !.whole = @ /\ (e.bad \/ e.frame > k.got), !.got = IF e.bad THEN @ ELSE e.frame,
                       !.rx[k.receive_index].done = FALSE,
                       !.receive_index = After(@), !.rdt = k.receive_index]
  PROVE  Good(d)
<1> DEFINE N == DESCRIPTOR_COUNT
<1>1. k \in State /\ Sending(k) /\ Receiving(k) /\ k.whole = TRUE /\ N \in Nat \ {0}
  BY DEF Good, E1000Constants
<1>2. PICK p, w : Filled(k, p, w)
  BY <1>1 DEF Receiving
<1>3. PICK t, a, g : t = k.receive_index /\ a = After(t) /\ g = IF e.bad THEN k.got ELSE e.frame
  OBVIOUS
<1>4. /\ t \in Index /\ k.rx \in Rx /\ e \in [done : BOOLEAN, frame : Nat, bad : BOOLEAN]
      /\ k.got \in Nat /\ k.wire \in Nat /\ k.got <= k.wire
  BY <1>1, <1>3 DEF State, Rx, Receiving
<1>5. /\ p \in Nat /\ w \in Nat /\ p <= w /\ w < p + N /\ Turn(p, t) /\ Turn(w, k.rdh)
  BY <1>2, <1>3 DEF Filled
<1>6. p < w
  <2>1. PICK q \in Nat : p <= q /\ q < w /\ Turn(q, t)
    BY <1>2, <1>3, <1>4 DEF Filled
  <2> QED BY <1>5, <2>1
<1>7. k.got < e.frame /\ e.frame <= k.wire
  BY <1>2, <1>3, <1>4, <1>5, <1>6 DEF Filled
<1>8. g \in Nat /\ k.got <= g /\ g <= e.frame /\ g <= k.wire
  BY <1>3, <1>4, <1>7
<1>9. Turn(p + 1, a) /\ a \in Index
  BY <1>3, <1>5, NextTurn
<1>10. PICK x : x = [k.rx EXCEPT ![t].done = FALSE]
  OBVIOUS
<1>11. /\ x \in Rx /\ ~x[t].done /\ \A i \in Index \ {t} : x[i] = k.rx[i]
  BY <1>4, <1>10 DEF Rx
<1>12. d = [k EXCEPT !.whole = TRUE, !.got = g, !.rx = x, !.receive_index = a, !.rdt = t]
  <2>1. (k.whole /\ (e.bad \/ e.frame > k.got)) = TRUE
    BY <1>1, <1>4, <1>7
  <2> QED BY <1>1, <1>3, <1>10, <2>1 DEF State
<1>13. d \in State
  <2>1. PICK k1 : k1 = [k EXCEPT !.rx = x, !.got = g]
    OBVIOUS
  <2>2. k1 \in State
    BY <1>1, <1>8, <1>11, <2>1 DEF State
  <2>3. PICK k2 : k2 = [k1 EXCEPT !.receive_index = a, !.rdt = t]
    OBVIOUS
  <2>4. k2 \in State
    BY <1>4, <1>9, <2>2, <2>3 DEF State
  <2>5. d = [k2 EXCEPT !.whole = TRUE]
    BY <1>12, <2>1, <2>3
  <2> QED BY <2>4, <2>5 DEF State
<1>14. /\ d.tx = k.tx /\ d.transmit_index = k.transmit_index /\ d.tdt = k.tdt /\ d.tdh = k.tdh
       /\ d.given = k.given /\ d.sent = k.sent /\ d.rx = x /\ d.rdh = k.rdh /\ d.rdt = t
       /\ d.receive_index = a /\ d.got = g /\ d.wire = k.wire /\ d.whole = TRUE
  BY <1>1, <1>12 DEF State
<1>15. Sending(d)
  BY <1>1, <1>14 DEF Sending
<1>16. PICK b : b = p + 1
  OBVIOUS
<1>17. b \in Nat /\ b <= w /\ w < b + N
  BY <1>1, <1>5, <1>6, <1>16
<1>18. Turn(b + N - 1, t)
  <2>1. b + N - 1 = p + N
    BY <1>1, <1>5, <1>16
  <2> QED BY <1>1, <1>5, <2>1, Round
<1>19. ASSUME NEW q \in Nat, NEW i \in Index, b <= q, q < w, Turn(q, i) PROVE x[i] = k.rx[i] /\ p < q
  <2>1. p < q /\ q < p + N /\ p < q + N /\ p # q
    BY <1>1, <1>5, <1>16, <1>19
  <2>2. i # t
    BY <1>5, <1>19, <2>1, OneTurn
  <2> QED BY <1>11, <2>1, <2>2
<1>20. ASSUME NEW i \in Index, x[i].done PROVE \E q \in Nat : b <= q /\ q < w /\ Turn(q, i)
  <2>1. i # t /\ k.rx[i].done
    BY <1>11, <1>20
  <2>2. PICK q \in Nat : p <= q /\ q < w /\ Turn(q, i)
    BY <1>2, <2>1 DEF Filled
  <2>3. q # p
    BY <1>5, <2>1, <2>2, OneDescriptor
  <2> QED BY <1>5, <1>16, <2>2, <2>3
<1>21. ASSUME NEW q \in Nat, NEW i \in Index, b <= q, q < w, Turn(q, i)
       PROVE  g < x[i].frame /\ x[i].frame <= k.wire
  <2>1. x[i] = k.rx[i] /\ p < q
    BY <1>19, <1>21
  <2>2. e.frame < k.rx[i].frame
    <3>1. p <= p
      BY <1>5
    <3> QED BY <1>2, <1>3, <1>4, <1>5, <1>21, <2>1, <3>1 DEF Filled
  <2>3. p <= q
    BY <1>5, <2>1
  <2>4. k.rx[i].frame <= k.wire
    BY <1>2, <1>21, <2>3 DEF Filled
  <2>5. k.rx[i].frame \in Nat
    BY <1>4 DEF Rx
  <2> QED BY <1>4, <1>8, <2>1, <2>2, <2>4, <2>5
<1>22. ASSUME NEW q \in Nat, NEW r \in Nat, NEW i \in Index, NEW j \in Index,
              b <= q, q < r, r < w, Turn(q, i), Turn(r, j)
       PROVE  x[i].frame < x[j].frame
  <2>1. b <= r /\ q < w
    BY <1>5, <1>17, <1>22
  <2>2. x[i] = k.rx[i] /\ p < q /\ x[j] = k.rx[j]
    BY <1>19, <1>22, <2>1
  <2>3. p <= q
    BY <1>5, <2>2
  <2> QED BY <1>2, <1>22, <2>2, <2>3 DEF Filled
<1>23. Filled(d, b, w)
  <2>1. Turn(w, d.rdh) /\ Turn(b, d.receive_index) /\ Turn(b + N - 1, d.rdt)
    BY <1>5, <1>9, <1>14, <1>16, <1>18
  <2> QED BY <1>5, <1>14, <1>17, <1>20, <1>21, <1>22, <2>1 DEF Filled
<1>24. Receiving(d)
  BY <1>8, <1>14, <1>23 DEF Receiving
<1> QED BY <1>13, <1>14, <1>15, <1>24 DEF Good

(* A frame that finds no descriptor is lost.                               *)
LEMMA LostGood ==
  ASSUME NEW k, Good(k), NEW d, d = [k EXCEPT !.wire = @ + 1]
  PROVE  Good(d)
<1>1. k \in State /\ Sending(k) /\ Receiving(k) /\ k.whole = TRUE
  BY DEF Good
<1>2. PICK p, w : Filled(k, p, w)
  BY <1>1 DEF Receiving
<1>3. PICK v : v = k.wire + 1
  OBVIOUS
<1>4. v \in Nat /\ k.wire \in Nat /\ k.wire <= v /\ k.got \in Nat /\ k.rx \in Rx
  BY <1>1, <1>3 DEF State
<1>5. d = [k EXCEPT !.wire = v]
  BY <1>1, <1>3 DEF State
<1>6. d \in State
  BY <1>1, <1>4, <1>5 DEF State
<1>7. /\ d.tx = k.tx /\ d.transmit_index = k.transmit_index /\ d.tdt = k.tdt /\ d.tdh = k.tdh
      /\ d.given = k.given /\ d.sent = k.sent /\ d.rx = k.rx /\ d.rdh = k.rdh /\ d.rdt = k.rdt
      /\ d.receive_index = k.receive_index /\ d.got = k.got /\ d.wire = v /\ d.whole = TRUE
  BY <1>1, <1>5 DEF State
<1>8. Sending(d)
  BY <1>1, <1>7 DEF Sending
<1>9. ASSUME NEW q \in Nat, NEW i \in Index, p <= q, q < w, Turn(q, i)
      PROVE  k.got < k.rx[i].frame /\ k.rx[i].frame <= v
  <2>1. k.got < k.rx[i].frame /\ k.rx[i].frame <= k.wire
    BY <1>2, <1>9 DEF Filled
  <2>2. k.rx[i].frame \in Nat
    BY <1>4 DEF Rx
  <2> QED BY <1>4, <2>1, <2>2
<1>10. Filled(d, p, w)
  BY <1>2, <1>7, <1>9 DEF Filled
<1>11. d.got <= d.wire
  BY <1>1, <1>4, <1>7 DEF Receiving
<1>12. Receiving(d)
  BY <1>10, <1>11 DEF Receiving
<1> QED BY <1>6, <1>7, <1>8, <1>12 DEF Good

(* The card fills a descriptor that was read.                              *)
LEMMA ReceiveGood ==
  ASSUME E1000Constants, NEW k, Good(k), k.rdh # k.rdt, NEW bad \in BOOLEAN, NEW d,
         d = [k EXCEPT !.wire = @ + 1, !.rdh = After(@), !.whole = @ /\ ~k.rx[k.rdh].done,
                       !.rx[k.rdh] = [done |-> TRUE, frame |-> k.wire + 1, bad |-> bad]]
  PROVE  Good(d)
<1> DEFINE N == DESCRIPTOR_COUNT
<1>1. k \in State /\ Sending(k) /\ Receiving(k) /\ k.whole = TRUE /\ N \in Nat \ {0}
  BY DEF Good, E1000Constants
<1>2. PICK p, w : Filled(k, p, w)
  BY <1>1 DEF Receiving
<1>3. PICK t, a, v, b : t = k.rdh /\ a = After(t) /\ v = k.wire + 1 /\ b = w + 1
  OBVIOUS
<1>4. /\ t \in Index /\ k.rx \in Rx /\ k.got \in Nat /\ k.wire \in Nat /\ k.got <= k.wire
  BY <1>1, <1>3 DEF State, Receiving
<1>5. /\ p \in Nat /\ w \in Nat /\ p <= w /\ w < p + N /\ Turn(w, t)
      /\ Turn(p, k.receive_index) /\ Turn(p + N - 1, k.rdt)
  BY <1>2, <1>3 DEF Filled
<1>6. v \in Nat /\ k.wire < v /\ k.got <= v /\ b \in Nat /\ p <= b
  BY <1>3, <1>4, <1>5
<1>7. b < p + N
  <2>1. w # p + N - 1
    BY <1>3, <1>5, OneDescriptor
  <2> QED BY <1>1, <1>3, <1>5, <2>1
<1>8. ~k.rx[t].done
  <2> SUFFICES ASSUME k.rx[t].done PROVE FALSE
    OBVIOUS
  <2>1. PICK q \in Nat : p <= q /\ q < w /\ Turn(q, t)
    BY <1>2, <1>4 DEF Filled
  <2>2. q < w + N /\ w < q + N /\ q # w
    BY <1>1, <1>5, <2>1
  <2> QED BY <1>5, <2>1, <2>2, OneTurn
<1>9. Turn(b, a) /\ a \in Index
  BY <1>3, <1>5, NextTurn
<1>10. PICK x : x = [k.rx EXCEPT ![t] = [done |-> TRUE, frame |-> v, bad |-> bad]]
  OBVIOUS
<1>11. /\ x \in Rx /\ x[t].done /\ x[t].frame = v /\ \A i \in Index \ {t} : x[i] = k.rx[i]
  BY <1>4, <1>6, <1>10 DEF Rx
<1>12. d = [k EXCEPT !.wire = v, !.rdh = a, !.whole = TRUE, !.rx = x]
  <2>1. (k.whole /\ ~k.rx[t].done) = TRUE
    BY <1>1, <1>8
  <2> QED BY <1>1, <1>3, <1>10, <2>1 DEF State
<1>13. d \in State
  <2>1. PICK k1 : k1 = [k EXCEPT !.rx = x, !.wire = v]
    OBVIOUS
  <2>2. k1 \in State
    BY <1>1, <1>6, <1>11, <2>1 DEF State
  <2>3. d = [k1 EXCEPT !.rdh = a, !.whole = TRUE]
    BY <1>12, <2>1
  <2> QED BY <1>9, <2>2, <2>3 DEF State
<1>14. /\ d.tx = k.tx /\ d.transmit_index = k.transmit_index /\ d.tdt = k.tdt /\ d.tdh = k.tdh
       /\ d.given = k.given /\ d.sent = k.sent /\ d.rx = x /\ d.rdh = a /\ d.rdt = k.rdt
       /\ d.receive_index = k.receive_index /\ d.got = k.got /\ d.wire = v /\ d.whole = TRUE
  BY <1>1, <1>12 DEF State
<1>15. Sending(d)
  BY <1>1, <1>14 DEF Sending
<1>16. ASSUME NEW q \in Nat, NEW i \in Index, p <= q, q < w, Turn(q, i)
       PROVE  /\ x[i] = k.rx[i] /\ x[i].frame \in Nat
              /\ k.got < x[i].frame /\ x[i].frame < v
  <2>1. q < w + N /\ w < q + N /\ q # w
    BY <1>1, <1>5, <1>16
  <2>2. i # t
    BY <1>5, <1>16, <2>1, OneTurn
  <2>3. x[i] = k.rx[i] /\ k.rx[i].frame \in Nat
    BY <1>4, <1>11, <2>2 DEF Rx
  <2>4. k.got < k.rx[i].frame /\ k.rx[i].frame <= k.wire
    BY <1>2, <1>16 DEF Filled
  <2> QED BY <1>4, <1>6, <2>3, <2>4
<1>17. ASSUME NEW q \in Nat, NEW i \in Index, q = w, Turn(q, i) PROVE x[i].frame = v
  BY <1>5, <1>11, <1>17, OneDescriptor
<1>18. \A q \in Nat : q < b => q < w \/ q = w
  BY <1>3, <1>5
<1>19. ASSUME NEW i \in Index, x[i].done PROVE \E q \in Nat : p <= q /\ q < b /\ Turn(q, i)
  <2>1. CASE i = t
    BY <1>3, <1>5, <2>1
  <2>2. CASE i # t
    <3>1. PICK q \in Nat : p <= q /\ q < w /\ Turn(q, i)
      BY <1>2, <1>11, <1>19, <2>2 DEF Filled
    <3> QED BY <1>3, <1>5, <3>1
  <2> QED BY <2>1, <2>2
<1>20. ASSUME NEW q \in Nat, NEW i \in Index, p <= q, q < b, Turn(q, i)
       PROVE  k.got < x[i].frame /\ x[i].frame <= v
  <2>1. CASE q < w
    BY <1>4, <1>6, <1>16, <1>20, <2>1
  <2>2. CASE q = w
    BY <1>4, <1>6, <1>17, <1>20, <2>2
  <2> QED BY <1>18, <1>20, <2>1, <2>2
<1>21. ASSUME NEW q \in Nat, NEW r \in Nat, NEW i \in Index, NEW j \in Index,
              p <= q, q < r, r < b, Turn(q, i), Turn(r, j)
       PROVE  x[i].frame < x[j].frame
  <2>1. q < w /\ p <= r
    BY <1>3, <1>5, <1>21
  <2>2. x[i] = k.rx[i] /\ x[i].frame < v
    BY <1>16, <1>21, <2>1
  <2>3. CASE r < w
    <3>1. x[j] = k.rx[j]
      BY <1>16, <1>21, <2>1, <2>3
    <3> QED BY <1>2, <1>21, <2>2, <2>3, <3>1 DEF Filled
  <2>4. CASE r = w
    BY <1>17, <1>21, <2>2, <2>4
  <2> QED BY <1>18, <1>21, <2>3, <2>4
<1>22. Filled(d, p, b)
  <2>1. Turn(b, d.rdh) /\ Turn(p, d.receive_index) /\ Turn(p + N - 1, d.rdt)
    BY <1>5, <1>9, <1>14
  <2> QED BY <1>5, <1>6, <1>7, <1>14, <1>19, <1>20, <1>21, <2>1 DEF Filled
<1>23. Receiving(d)
  BY <1>6, <1>14, <1>22 DEF Receiving
<1> QED BY <1>13, <1>14, <1>15, <1>23 DEF Good

(* e1000_start.                                                            *)
LEMMA StartGood == ASSUME E1000Constants, Init PROVE Good(s)
<1> DEFINE N == DESCRIPTOR_COUNT
<1>1. PICK k : k = s
  OBVIOUS
<1>2. N \in Nat \ {0} /\ 0 \in Index /\ N - 1 \in Index
  BY DEF E1000Constants, Index
<1>3. k = e1000_start
  BY <1>1 DEF Init
<1>4. k \in State
  BY <1>2, <1>3 DEF e1000_start, State, Rx, Tx
<1>5. /\ k.sent = 0 /\ k.given = 0 /\ k.tdh = 0 /\ k.tdt = 0 /\ k.transmit_index = 0 /\ k.whole = TRUE
      /\ k.rdh = 0 /\ k.receive_index = 0 /\ k.rdt = N - 1 /\ k.got = 0 /\ k.wire = 0
      /\ \A i \in Index : ~k.rx[i].done
  BY <1>3 DEF e1000_start
<1>6. Turn(0, 0) /\ Turn(0 + N - 1, N - 1)
  <2>1. \E m \in Int : 0 = N * m + 0
    BY <1>2
  <2>2. \E m \in Int : 0 + N - 1 = N * m + (N - 1)
    <3>1. 0 \in Int /\ 0 + N - 1 = N * 0 + (N - 1)
      BY <1>2
    <3> WITNESS 0 \in Int
    <3> QED BY <3>1
  <2> QED BY <1>2, <2>1, <2>2 DEF Turn
<1>7. Sending(k)
  BY <1>2, <1>5, <1>6 DEF Sending
<1>8. Filled(k, 0, 0)
  BY <1>2, <1>5, <1>6 DEF Filled
<1>9. Receiving(k)
  BY <1>5, <1>8 DEF Receiving
<1> QED BY <1>1, <1>4, <1>5, <1>7, <1>9 DEF Good

(* Every step of the driver and of the card.                               *)
LEMMA NextGood == ASSUME E1000Constants, Good(s), Next PROVE Good(s')
<1>1. PICK d : d = s'
  OBVIOUS
<1>2. CASE e1000_transmit
  BY <1>1, <1>2, TransmitGood DEF e1000_transmit
<1>3. CASE e1000_poll
  <2>1. PICK e : e = s.rx[s.receive_index]
    OBVIOUS
  <2>2. e.done /\ d = [s EXCEPT !.whole = @ /\ (e.bad \/ e.frame > s.got), !.got = IF e.bad THEN @ ELSE e.frame,
                                !.rx[s.receive_index].done = FALSE,
                                !.receive_index = After(@), !.rdt = s.receive_index]
    BY <1>1, <1>3, <2>1 DEF e1000_poll
  <2>3. Good(d)
    BY <2>1, <2>2, PollGood
  <2> QED BY <1>1, <2>3
<1>4. CASE CardSends
  BY <1>1, <1>4, SendGood DEF CardSends
<1>5. ASSUME NEW bad \in BOOLEAN, CardReceives(bad) PROVE Good(s')
  <2>1. CASE s.rdh = s.rdt
    BY <1>1, <1>5, <2>1, LostGood DEF CardReceives
  <2>2. CASE s.rdh # s.rdt
    BY <1>1, <1>5, <2>2, ReceiveGood DEF CardReceives
  <2> QED BY <2>1, <2>2
<1> QED BY <1>2, <1>3, <1>4, <1>5 DEF Next

(* In rings of any size, and however late the card is, no frame of         *)
(* e1000_transmit is overwritten before it is sent and no received one     *)
(* before e1000_poll reads it; both directions keep their order.           *)
THEOREM RingsKeepEveryFrame == E1000Constants /\ Spec => []RingsKeepFrames
<1> SUFFICES ASSUME E1000Constants PROVE Spec => []RingsKeepFrames
  OBVIOUS
<1>1. Init => Good(s)
  BY StartGood
<1>2. Good(s) /\ [Next]_s => Good(s)'
  <2>1. ASSUME Good(s), Next PROVE Good(s)'
    BY <2>1, NextGood
  <2> QED BY <2>1
<1>3. Good(s) => RingsKeepFrames
  BY DEF Good, RingsKeepFrames
<1> QED BY <1>1, <1>2, <1>3, PTL DEF Spec
=============================================================================
