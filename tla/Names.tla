------------------------------- MODULE Names -------------------------------
(***************************************************************************)
(* The resolver and what carries it: net/dns.c over net/udp.c, net/ip.c    *)
(* and net/arp.c, on the NIC of module Nic.  One thread resolves names; in *)
(* both its waits, for an ARP reply and for a DNS answer, net_poll drains  *)
(* the NIC and hands each packet to ARP or UDP.  The network may lose,     *)
(* repeat, delay and reorder everything; the server answers a query, or    *)
(* answers that the name does not exist; other hosts send ARP frames.  No  *)
(* checksum is verified: a packet that is not as its frame was on the wire *)
(* may be taken for any frame or for none.                                 *)
(***************************************************************************)
EXTENDS Nic

CONSTANTS
  Hosts, DnsHost,     \* the peers on the subnet, and the DNS server among them
  HostNames,          \* names that may be resolved and that a query can carry
  Address(_),         \* what the server answers for a name
  Cut(_),             \* the first 63 characters of a name
  ARP_TABLE_SIZE, UDP_QUEUE_SLOTS, DNS_CACHE_SLOTS, DNS_RETRIES,
  TXIDS,              \* transaction numbers: 2^16
  MaxQueries          \* bound on the queries

ASSUME NamesAssumption ==
  /\ DnsHost \in Hosts
  /\ ARP_TABLE_SIZE \in Nat \ {0} /\ UDP_QUEUE_SLOTS \in Nat \ {0}
  /\ DNS_CACHE_SLOTS \in Nat \ {0} /\ DNS_RETRIES \in Nat
  /\ TXIDS \in Nat \ {0} /\ MaxQueries \in Nat

VARIABLES
  g_arp_table,        \* ARP entries by slot, "none" when not valid
  g_udp_queue,        \* received datagrams, and whether each is as it was sent
  g_dns_cache,        \* cached answers by slot
  g_dns_txid,         \* the next transaction number, counted from the first
  queries,            \* queries started, for the bound
  pc,                 \* dns_resolve: idle, arp or wait
  hostname, txid, retry,  \* its arguments and locals
  found,              \* the address it returned, "none" before and on failure
  sound,              \* it came from a whole datagram, filed under no cut name
  asked,              \* hosts that were asked for their MAC
  answers             \* answers the server has given, any of which may arrive

names_vars == <<g_arp_table, g_udp_queue, g_dns_cache, g_dns_txid, queries, pc, hostname, txid, retry, found, sound, asked, answers>>
vars == <<nic_vars, names_vars>>

NoEntry == [name |-> "none", of |-> "none", ip |-> "none", whole |-> TRUE]
MinOf(S) == CHOOSE x \in S : \A y \in S : x <= y
Drained == ~Queued /\ hold = NoPacket
\* The thread runs only while no interrupt handler does.
Thread == handler = "off"

-----------------------------------------------------------------------------
(* ARP.                                                                    *)

\* The entry of the host, else a free slot, else slot 0.
ArpSlot(h) ==
  LET Mine == {i \in DOMAIN g_arp_table : g_arp_table[i] = h}
      Free == {i \in DOMAIN g_arp_table : g_arp_table[i] = "none"}
  IN IF Mine # {} THEN MinOf(Mine) ELSE IF Free # {} THEN MinOf(Free) ELSE 1
arp_table_set(h) == g_arp_table' = [g_arp_table EXCEPT ![ArpSlot(h)] = h]
arp_table_get(h) == \E i \in DOMAIN g_arp_table : g_arp_table[i] = h
arp_send_request(h) == asked' = asked \cup {h}

\* arp_recv learns the sender; the reply it may send changes nothing here.
arp_recv(f) == /\ arp_table_set(f.src)
               /\ UNCHANGED g_udp_queue

-----------------------------------------------------------------------------
(* UDP.                                                                    *)

\* A full queue drops the datagram.
udp_recv_pkt(f, whole) ==
  /\ g_udp_queue' = IF Len(g_udp_queue) < UDP_QUEUE_SLOTS - 1
                    THEN Append(g_udp_queue, [txid |-> f.txid, data |-> f.data, whole |-> whole]) ELSE g_udp_queue
  /\ UNCHANGED g_arp_table

\* What a packet is taken for.
GarbledArp == {[NoFrame EXCEPT !.kind = "arp", !.src = h] : h \in Hosts \cup {"junk"}}
Addresses == {Address(n) : n \in HostNames}
GarbledAnswer(t, a) == [NoFrame EXCEPT !.kind = "answer", !.txid = t, !.data = a]
GarbledAnswers == {GarbledAnswer(x[1], x[2]) : x \in (0 .. TXIDS - 1) \X (Addresses \cup {"nxdomain", "junk"})}
Garbled == {NoFrame} \cup GarbledArp \cup GarbledAnswers
TakenFor(p) == IF Intact(p) THEN {wire[p.id]} ELSE Garbled

\* net_poll takes a packet off the NIC and hands it up.
net_poll == /\ pc # "idle" /\ Thread
            /\ \/ RecvCopy /\ UNCHANGED <<g_arp_table, g_udp_queue>>
               \/ /\ RecvFree
                  /\ \E f \in TakenFor(hold) :
                       \/ f.kind = "arp" /\ arp_recv(f)
                       \/ f.kind = "answer" /\ udp_recv_pkt(f, Intact(hold))
                       \/ f.kind = "none" /\ UNCHANGED <<g_arp_table, g_udp_queue>>
            /\ UNCHANGED <<g_dns_cache, g_dns_txid, queries, pc, hostname, txid, retry, found, sound, asked, answers>>

-----------------------------------------------------------------------------
(* DNS.                                                                    *)

\* The query leaves: it is lost, or the server answers, perhaps that there is
\* no such name.
ip_send == \/ UNCHANGED answers
           \/ \E a \in {Address(hostname), "nxdomain"} :
                answers' = answers \cup {[txid |-> txid, ip |-> a]}

CacheHits(n) == {i \in DOMAIN g_dns_cache : g_dns_cache[i].name = n}
dns_cache_lookup(n) == g_dns_cache[MinOf(CacheHits(n))]
\* The name is cut when it is stored, and not when it is looked up.  What the
\* answer was for and whether it was whole is remembered for the properties.
dns_cache_store(n, a, whole) ==
  LET Free == CacheHits("none")
      slot == IF Free # {} THEN MinOf(Free) ELSE 1
  IN g_dns_cache' = [g_dns_cache EXCEPT ![slot] = [name |-> Cut(n), of |-> n, ip |-> a, whole |-> whole]]

\* dns_resolve, started.  A cached name is answered at once.
dns_resolve(n) ==
  /\ pc = "idle" /\ Thread
  /\ hostname' = n
  /\ IF CacheHits(n) # {}
     THEN /\ LET e == dns_cache_lookup(n) IN found' = e.ip /\ sound' = (e.whole /\ e.of = n)
          /\ UNCHANGED <<g_dns_txid, queries, pc, txid, retry>>
     ELSE /\ queries < MaxQueries /\ queries' = queries + 1
          /\ g_dns_txid' = (g_dns_txid + 1) % TXIDS
          /\ txid' = g_dns_txid /\ retry' = 0 /\ found' = "none" /\ sound' = TRUE
          /\ pc' = "send"
  /\ UNCHANGED <<nic_vars, g_arp_table, g_udp_queue, g_dns_cache, asked, answers>>

\* udp_send: the query goes out if the MAC of the server is known; else it is
\* asked for.
udp_send == /\ pc = "send" /\ Thread
            /\ IF arp_table_get(DnsHost)
               THEN ip_send /\ pc' = "wait" /\ UNCHANGED asked
               ELSE arp_send_request(DnsHost) /\ pc' = "arp" /\ UNCHANGED answers
            /\ UNCHANGED <<nic_vars, g_arp_table, g_udp_queue, g_dns_cache, g_dns_txid, queries, hostname, txid, retry, found, sound>>
\* arp_resolve: the entry appears, or time runs out and nothing is sent; the
\* resolver waits for an answer all the same.
arp_resolve == /\ pc = "arp" /\ Thread /\ Drained
               /\ IF arp_table_get(DnsHost) THEN ip_send ELSE UNCHANGED answers
               /\ pc' = "wait"
               /\ UNCHANGED <<nic_vars, g_arp_table, g_udp_queue, g_dns_cache, g_dns_txid, queries, hostname, txid, retry, found, sound, asked>>

\* A bug: the transaction number is not compared.
Mutant_dns_parse_response(f) == f.data # "nxdomain"
\* An answer counts when it carries our txid and an address.
dns_parse_response(f) == f.txid = txid /\ f.data # "nxdomain"

\* udp_recv: one datagram is taken, and is the answer or is thrown away.
udp_recv == /\ pc = "wait" /\ Thread /\ Drained /\ g_udp_queue # <<>>
            /\ g_udp_queue' = Tail(g_udp_queue)
            /\ LET f == Head(g_udp_queue)
               IN IF dns_parse_response(f)
                  THEN /\ found' = f.data /\ sound' = f.whole
                       /\ dns_cache_store(hostname, f.data, f.whole)
                       /\ pc' = "idle"
                  ELSE UNCHANGED <<found, sound, g_dns_cache, pc>>
            /\ UNCHANGED <<nic_vars, g_arp_table, g_dns_txid, queries, hostname, txid, retry, asked, answers>>
\* The deadline passes: the query is sent again, or the call fails.
Deadline == /\ pc = "wait" /\ Thread /\ Drained
            /\ IF retry < DNS_RETRIES
               THEN retry' = retry + 1 /\ pc' = "send"
               ELSE pc' = "idle" /\ UNCHANGED retry
            /\ UNCHANGED <<nic_vars, g_arp_table, g_udp_queue, g_dns_cache, g_dns_txid, queries, hostname, txid, found, sound, asked, answers>>

-----------------------------------------------------------------------------
(* The network.                                                            *)

\* An answer of the server, now or late, once or again.
AnswerArrives == \E a \in answers :
  Arrive([NoFrame EXCEPT !.kind = "answer", !.src = DnsHost, !.txid = a.txid, !.data = a.ip])
\* An ARP frame: a reply of a host that was asked, or another host's own.
ArpArrives == \E h \in asked \cup (Hosts \ {DnsHost}) :
  Arrive([NoFrame EXCEPT !.kind = "arp", !.src = h])
Network == (AnswerArrives \/ ArpArrives) /\ UNCHANGED names_vars

Init == /\ NicInit
        /\ g_arp_table = [i \in 1 .. ARP_TABLE_SIZE |-> "none"]
        /\ g_udp_queue = <<>>
        /\ g_dns_cache = [i \in 1 .. DNS_CACHE_SLOTS |-> NoEntry]
        /\ g_dns_txid = 0 /\ queries = 0 /\ pc = "idle" /\ hostname = "none" /\ txid = 0 /\ retry = 0
        /\ found = "none" /\ sound = TRUE /\ asked = {} /\ answers = {}
Resolver == (\E n \in HostNames : dns_resolve(n)) \/ udp_send \/ arp_resolve \/ udp_recv \/ Deadline
Next == Network \/ (Handler /\ UNCHANGED names_vars) \/ net_poll \/ Resolver
Spec == Init /\ [][Next]_vars

-----------------------------------------------------------------------------
\* An address that dns_resolve returns, from a whole datagram or from an entry
\* of the cache that was stored from one for this very name, is the one the
\* server gives for that name, whatever answers to earlier queries are still in
\* the network, the ring, the queue of packets or that of datagrams.
ResolveRight == pc = "idle" /\ found # "none" /\ sound => found = Address(hostname)

\* What the comment on DNS_MAX_NAME says, that the resolver handles no longer
\* names: an address in the cache, stored from a whole datagram, is that of the
\* name under which dns_resolve will find it.
CacheRight == \A e \in {g_dns_cache[i] : i \in DOMAIN g_dns_cache} \ {NoEntry} : e.whole => e.ip = Address(e.name)
=============================================================================
