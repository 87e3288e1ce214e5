------------------------------ MODULE Network -------------------------------
(***************************************************************************)
(* The network stack (src/network.c) with its two users: the boot sequence *)
(* of kernel.c (DHCP, ARP, then one request) and http_get_url (src/http.c) *)
(* which retries.  The kernel polls the card only while it waits for an    *)
(* answer, and each kind of answer has one slot.                           *)
(*                                                                         *)
(* A frame is a record; net holds the frames the peers have sent.  It only *)
(* grows: a frame may arrive at any time, twice, or never.  A response is  *)
(* a stream of positions (of four bytes) cut into segments; position 1     *)
(* holds "HTTP/", HEADER is the last one of the header.  A request is its  *)
(* number, which stands for its transaction, port and initial sequence;    *)
(* request 0 is the one of the boot sequence, which halts on failure.      *)
(***************************************************************************)
EXTENDS Integers, FiniteSets

CONSTANTS Hosts,           \* addresses that talk ARP
          Gateway, Servers,   \* the gateway's address, DHCP servers
          ARP_CACHE_LIMIT,
          HTTP_RETRY_LIMIT,
          REQUESTS,        \* bound: requests after boot
          Segments,        \* the cuts of a response: <<first, last>>
          HEADER, STREAM,  \* end of header, end of stream (the last one has FIN)
          LIMIT            \* TCP_RECEIVE_LIMIT in positions

VARIABLE s

None == -1
NoData == [conn |-> None, first |-> 0, next |-> 0]
network_init ==
  [phase |-> "discover", n |-> 0, tries |-> 1, net |-> {}, ip |-> None, route |-> None,
   arp |-> [i \in 1..ARP_CACHE_LIMIT |-> None], replace |-> 1, arp_entries |-> 0,
   offer |-> None, asked |-> None, ack |-> None, dns |-> None, addr |-> None, syn |-> None, conn |-> None,
   data |-> NoData, fin |-> None, doc |-> [asked |-> None, conn |-> None, first |-> 1, next |-> 1]]

(***************************************************************************)
(* What a frame does when e1000_poll hands it to the stack.                *)
(***************************************************************************)
learn_arp(k, host) ==
  IF \E i \in 1..ARP_CACHE_LIMIT : k.arp[i] = host THEN k
  ELSE [k EXCEPT !.arp[k.replace] = host, !.replace = (k.replace % ARP_CACHE_LIMIT) + 1,
                 !.arp_entries = IF k.arp[k.replace] = None THEN @ + 1 ELSE @]

receive_dhcp(k, m) == IF m.kind = "offer" THEN [k EXCEPT !.offer = m.id] ELSE [k EXCEPT !.ack = m.id]
receive_dns(k, m) == [k EXCEPT !.dns = m.id]

(* FIN is noted for any connection.  The first segment to arrive starts    *)
(* the buffer, wherever in the stream it is; then only its successors fit. *)
receive_tcp(k, m) ==
  IF m.kind = "syn" THEN [k EXCEPT !.syn = m.id]
  ELSE LET k1 == IF m.last = STREAM THEN [k EXCEPT !.fin = m.id] ELSE k
           d == IF k.data.conn = None THEN [conn |-> m.id, first |-> m.first, next |-> m.first] ELSE k.data
       IN  IF d.conn # m.id \/ d.next # m.first \/ m.last - d.first >= LIMIT THEN k1
           ELSE [k1 EXCEPT !.data = [d EXCEPT !.next = m.last + 1]]

network_receive_ethernet(k, m) ==
  CASE m.kind = "arp" -> learn_arp(k, m.id) [] m.kind \in {"offer", "ack"} -> receive_dhcp(k, m)
    [] m.kind = "dns" -> receive_dns(k, m) [] OTHER -> receive_tcp(k, m)

(***************************************************************************)
(* Sending.  Each frame clears the slot its answer will use.  The peers'   *)
(* answers, and what else they may say, are added to the net.              *)
(***************************************************************************)
Frame(kind, id) == [kind |-> kind, id |-> id, first |-> 0, last |-> 0]
network_build_dhcp_discover(k) ==
  [k EXCEPT !.offer = None, !.phase = "discover", !.net = @ \cup {Frame("offer", d) : d \in Servers}]
network_build_dhcp_request(k, server) ==
  [k EXCEPT !.ack = None, !.asked = server, !.phase = "request", !.net = @ \cup {Frame("ack", server)}]
network_build_arp_request(k) ==
  [k EXCEPT !.phase = "arp", !.net = @ \cup {Frame("arp", h) : h \in Hosts}]
network_build_dns_query(k) ==
  [k EXCEPT !.dns = None, !.phase = "dns", !.net = @ \cup {Frame("dns", k.n)}]
network_build_tcp_syn(k) ==
  [k EXCEPT !.syn = None, !.phase = "syn", !.net = @ \cup {Frame("syn", k.n)}]
network_build_tcp_data(k) ==
  [k EXCEPT !.data = NoData, !.fin = None, !.phase = "data",
            !.net = @ \cup {[kind |-> "data", id |-> k.n, first |-> g[1], last |-> g[2]] : g \in Segments}]

(***************************************************************************)
(* Looking at a slot: the answer, if it is the one that is waited for.     *)
(***************************************************************************)
Got(x, wanted) == IF x = wanted THEN {x} ELSE {}
network_dhcp_offer(k) == {k.offer} \ {None}
network_dhcp_ack(k) == {k.ack} \ {None}
network_arp_lookup(k) == {h \in {Gateway} : \E i \in 1..ARP_CACHE_LIMIT : k.arp[i] = h}
Bug_network_dns_answer(k) == {k.dns} \ {None}
network_dns_answer(k) == Got(k.dns, k.n)
network_tcp_syn_ack(k) == Got(k.syn, k.n)
network_tcp_receive(k) == IF k.data.conn = k.n THEN {k.data} ELSE {}

(* A body needs the end of the header and one more position.               *)
network_publish_http_response(k, d) ==
  [k EXCEPT !.doc = [asked |-> k.n, conn |-> d.conn, first |-> d.first,
                     next |-> IF d.next - 1 > HEADER THEN d.next ELSE 1]]

(* The end of a request; at boot a failure halts the machine.              *)
Fail(k) == [k EXCEPT !.phase = IF k.n = 0 THEN "halted" ELSE "idle"]
Finish(k, d) ==
  LET k1 == [k EXCEPT !.data = NoData, !.phase = "idle"]
  IN  IF d.first = 1 THEN network_publish_http_response(k1, d) ELSE Fail(k1)

(***************************************************************************)
(* The waiting loops.                                                      *)
(***************************************************************************)
Waiting == s.phase \notin {"idle", "halted"}
Arrive(m) == Waiting /\ s' = network_receive_ethernet(s, m)

First(k) == [k EXCEPT !.tries = 1]
Offered == s.phase = "discover" /\ \E d \in network_dhcp_offer(s) : s' = network_build_dhcp_request(s, d)
Leased == s.phase = "request" /\ \E d \in network_dhcp_ack(s) : s' = network_build_arp_request([s EXCEPT !.ip = d])
network_set_route ==
  s.phase = "arp" /\ \E g \in network_arp_lookup(s) : s' = First(network_build_dns_query([s EXCEPT !.route = g]))
Resolved == s.phase = "dns" /\ \E a \in network_dns_answer(s) : s' = First(network_build_tcp_syn([s EXCEPT !.addr = a]))
Connected == s.phase = "syn" /\ \E c \in network_tcp_syn_ack(s) : s' = First(network_build_tcp_data([s EXCEPT !.conn = c]))
Responded == s.phase = "data" /\ \E d \in network_tcp_receive(s) : s' = Finish(s, d)

Answered(k) ==
  CASE k.phase = "discover" -> network_dhcp_offer(k) # {} [] k.phase = "request" -> network_dhcp_ack(k) # {}
    [] k.phase = "arp" -> network_arp_lookup(k) # {} [] k.phase = "dns" -> network_dns_answer(k) # {}
    [] k.phase = "syn" -> network_tcp_syn_ack(k) # {} [] OTHER -> network_tcp_receive(k) # {}
(* The loop ran out: boot gives up, a request sends the same frame again.  *)
Timeout ==
  /\ Waiting /\ ~Answered(s)
  /\ s' = IF s.n = 0 \/ s.tries = HTTP_RETRY_LIMIT THEN Fail(s)
          ELSE LET k == [s EXCEPT !.tries = @ + 1]
               IN  CASE s.phase = "dns" -> network_build_dns_query(k) [] s.phase = "syn" -> network_build_tcp_syn(k)
                     [] OTHER -> network_build_tcp_data(k)
(* No free descriptor: the request gives up at once.                       *)
e1000_transmit_refused == Waiting /\ s' = Fail(s)

http_get_url ==
  /\ s.phase = "idle" /\ s.route # None /\ s.n < REQUESTS
  /\ s' = First(network_build_dns_query([s EXCEPT !.n = @ + 1, !.addr = None, !.conn = None]))

Init == s = network_build_dhcp_discover(network_init)
Next ==
  \/ \E m \in s.net : Arrive(m)
  \/ Offered \/ Leased \/ network_set_route \/ Resolved \/ Connected \/ Responded
  \/ Timeout \/ e1000_transmit_refused \/ http_get_url
Spec == Init /\ [][Next]_s

(* What the theorem assumes: a cache, positions, and that no host has the  *)
(* address that stands for none.                                           *)
NetworkConstants ==
  ARP_CACHE_LIMIT \in Nat \ {0} /\ Segments \subseteq Nat \X Nat /\ None \notin Hosts

(***************************************************************************)
(* Properties.                                                             *)
(***************************************************************************)
(* Whatever is late, repeated or lost, also from requests that gave up:    *)
(* the lease is the one that was asked for, a name, a connection and a     *)
(* document are those of the request that uses them, and a document starts *)
(* where its response starts (the transaction, port, sequence and HTTP/    *)
(* tests of network_dns_answer, network_tcp_syn_ack, network_tcp_receive   *)
(* and http_get_url).                                                      *)
AnswersAreForTheRequest ==
  /\ s.ip \in {None, s.asked} /\ s.route \in {None, Gateway}
  /\ s.phase \in {"syn", "data"} => s.addr = s.n
  /\ s.phase = "data" => s.conn = s.n
  /\ s.doc.conn = s.doc.asked /\ s.doc.first = 1
  /\ s.arp_entries = Cardinality({i \in 1..ARP_CACHE_LIMIT : s.arp[i] # None})
  /\ \A i, j \in 1..ARP_CACHE_LIMIT : i # j => s.arp[i] = None \/ s.arp[i] # s.arp[j]
=============================================================================
