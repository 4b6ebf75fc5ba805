-------------------------------- MODULE Tcp --------------------------------
(***************************************************************************)
(* The TCP client of PD-OS (kernel/net/tcp.c) with its one user,           *)
(* http_request (net/http.c), the poll loop it runs on (net/net.c) and     *)
(* what it needs of IP, ARP and the RTL8139 driver, against a server and a *)
(* network that loses, repeats, delays and reorders.                       *)
(*                                                                         *)
(* The caller is one thread, so there is one connection at a time and it   *)
(* is in slot 0.  A call waits by polling: `pc' is the loop it is in, a    *)
(* frame taken from the NIC's queue is one step, and so is the end of a    *)
(* poll, with the timer and the caller's tests.  Time is abstract: a       *)
(* deadline may pass at any poll.  Bytes of the server's answer are        *)
(* numbered, what the client sends is numbered by piece.                   *)
(***************************************************************************)
EXTENDS Integers, Sequences, FiniteSets, SequencesExt, FiniteSetsExt

CONSTANTS
  SEQ,          \* sequence numbers are modulo SEQ (2^32)
  ISNs,         \* initial sequence numbers the clock yields
  PEER_ISN,     \* the server's
  RXBUF,        \* TCP_RXBUF_SIZE, and the window every segment advertises
  SLOTS,        \* NET_RXQUEUE_SLOTS
  RETRIES,      \* retransmissions before the connection is dropped
  ANSWER,       \* length of the server's answer
  HEADER,       \* bytes of it that are HTTP header
  BUF,          \* bytes the caller has room for
  MaxRequests, MaxFrames    \* bounds: calls of http_request, frames received

ASSUME TcpAssumption ==
  /\ {SEQ, RXBUF, SLOTS, ANSWER, HEADER, BUF} \subseteq Nat \ {0}
  /\ PEER_ISN \in 0..(SEQ - 1) /\ ISNs \subseteq 0..(SEQ - 1) /\ ISNs # {}
  /\ ANSWER <= RXBUF /\ ANSWER + 4 < SEQ /\ RETRIES \in Nat

VARIABLES
  conn,      \* the connection: state, local port, snd_nxt, snd_una, rcv_nxt,
             \* last (last_seg, NoSeg when last_seg_len is 0), count
  rxbuf,     \* its receive ring
  pc,        \* idle, arp, connect, send, recv, close
  pieces,    \* tcp_send calls still to make, the one that waits included
  again,     \* http_request is in its second tcp_recv for the header
  got,       \* the bytes in the caller's buffer
  arp,       \* the gateway's MAC is in the ARP table
  rxq,       \* frames queued by the NIC's interrupt handler
  wire,      \* frames on their way to the client; they stay, see Arrive
  sent,      \* segments the client sent on this connection
  server,    \* the server's side of the connection
  isn, overflowed, early,  \* history: this connection's ISN, the ring was full,
                           \* a FIN was accepted ahead of data
  requests, frames         \* counters for the bounds

client == <<conn, rxbuf, pc, pieces, again, got>>
counts == <<requests, frames>>
vars   == <<client, arp, rxq, wire, sent, server, isn, overflowed, early, counts>>

Plus(a, n) == (a + n) % SEQ
Dist(a, b) == (b - a) % SEQ

NoSeg    == [port |-> 0]
ArpReply == [port |-> 0, flags |-> {"ARP"}]

-----------------------------------------------------------------------------
(* Segments *)

\* tcp_send_seg builds this one.
Seg(c, flags, data) ==
  [port |-> c.port, flags |-> flags, seq |-> c.snd_nxt,
   ack |-> IF "ACK" \in flags THEN c.rcv_nxt ELSE 0, data |-> data]

Ack(c) == Seg(c, {"ACK"}, <<>>)

\* tcp_send_seg with save_for_retransmit.
Save(c, s) == [c EXCEPT !.last = s, !.count = 0]

\* rxbuf_push keeps what the ring has room for.
Fits(data) == IF Len(data) < RXBUF - 1 - Len(rxbuf) THEN Len(data) ELSE RXBUF - 1 - Len(rxbuf)

\* Mutant: payload is delivered whatever its sequence number.
Mutant_InOrder(c, m) == m.data # <<>>

InOrder(c, m) == m.data # <<>> /\ m.seq = c.rcv_nxt

\* Mutant: any ACK acknowledges everything.
Mutant_Acked(c, m) == IF "ACK" \in m.flags THEN c.snd_nxt ELSE c.snd_una

\* The plain comparison of the code: an ack number that wrapped is never taken.
Acked(c, m) == IF "ACK" \in m.flags /\ m.ack > c.snd_una THEN m.ack ELSE c.snd_una

\* tcp_recv_pkt, by connection state: the new connection and the segments sent.
recv_SYN_SENT(c, m) ==
  IF {"SYN", "ACK"} \subseteq m.flags /\ m.ack = c.snd_nxt
  THEN LET d == [c EXCEPT !.rcv_nxt = Plus(m.seq, 1), !.snd_una = m.ack,
                          !.state = "ESTABLISHED", !.last = NoSeg]
       IN  [conn |-> d, out |-> {Ack(d)}]
  ELSE [conn |-> c, out |-> {}]

recv_ESTABLISHED(c, m) ==
  LET a == [c EXCEPT !.snd_una = Acked(c, m)]
      d == IF InOrder(a, m) THEN [a EXCEPT !.rcv_nxt = Plus(@, Len(m.data))] ELSE a
      f == [d EXCEPT !.rcv_nxt = Plus(@, 1),
                     !.state = IF @ = "ESTABLISHED" THEN "CLOSE_WAIT" ELSE "CLOSED"]
      acks == IF InOrder(a, m) THEN {Ack(d)} ELSE {}
  IN  IF "FIN" \in m.flags THEN [conn |-> f, out |-> acks \cup {Ack(f)}]
                           ELSE [conn |-> d, out |-> acks]

recv_FIN_WAIT(c, m) ==
  LET a == IF c.state = "FIN_WAIT1" /\ "ACK" \in m.flags THEN [c EXCEPT !.snd_una = m.ack] ELSE c
      f == [a EXCEPT !.rcv_nxt = Plus(@, 1), !.state = "CLOSED"]
  IN  IF "FIN" \in m.flags THEN [conn |-> f, out |-> {Ack(f)}]
      ELSE [conn |-> IF c.state = "FIN_WAIT1" /\ a.snd_una = a.snd_nxt
                     THEN [a EXCEPT !.state = "FIN_WAIT2"] ELSE a,
            out |-> {}]

tcp_recv_pkt(c, m) ==
  CASE "RST" \in m.flags -> [conn |-> [c EXCEPT !.state = "CLOSED"], out |-> {}]
    [] "RST" \notin m.flags /\ c.state = "SYN_SENT" -> recv_SYN_SENT(c, m)
    [] "RST" \notin m.flags /\ c.state \in {"ESTABLISHED", "CLOSE_WAIT"} -> recv_ESTABLISHED(c, m)
    [] OTHER -> recv_FIN_WAIT(c, m)

\* Mutant: the port is not looked at.
Mutant_Matches(m) == conn.state # "CLOSED"

\* The lookup of the connection a segment belongs to.
Matches(m) == conn.state # "CLOSED" /\ m.port = conn.port

Delivers(m) ==
  /\ Matches(m) /\ "RST" \notin m.flags
  /\ conn.state \in {"ESTABLISHED", "CLOSE_WAIT"} /\ InOrder(conn, m)

\* A FIN is accepted whatever its sequence number; this one is not the next.
FinEarly(m) ==
  /\ Matches(m) /\ "RST" \notin m.flags /\ "FIN" \in m.flags
  /\ Plus(m.seq, Len(m.data)) # IF InOrder(conn, m) THEN Plus(conn.rcv_nxt, Len(m.data))
                                                    ELSE conn.rcv_nxt

\* tcp_tick; `due' says whether retransmit_at has been reached.
tcp_tick(c, due) ==
  CASE c.state = "CLOSED" \/ c.last = NoSeg -> c
    [] c.state # "CLOSED" /\ c.last # NoSeg /\ c.snd_una = c.snd_nxt -> [c EXCEPT !.last = NoSeg]
    [] c.state # "CLOSED" /\ c.last # NoSeg /\ c.snd_una # c.snd_nxt ->
         IF ~due THEN c
         ELSE IF c.count >= RETRIES THEN [c EXCEPT !.state = "CLOSED"] ELSE [c EXCEPT !.count = @ + 1]

Retransmits(c, due) ==
  due /\ c.state # "CLOSED" /\ c.last # NoSeg /\ c.snd_una # c.snd_nxt /\ c.count < RETRIES

-----------------------------------------------------------------------------
NoConn == [state |-> "CLOSED", port |-> 0, snd_nxt |-> 0, snd_una |-> 0, rcv_nxt |-> 0,
           last |-> NoSeg, count |-> 0]

Listening == [state |-> "listen", rcv_nxt |-> 0, nxt |-> PEER_ISN]

\* Bytes a..b of the answer to the request of port p.
Bytes(p, a, b) == [i \in 1..(b - a + 1) |-> <<p, a + i - 1>>]

\* What a connection made earlier, from another port, may have left on the wire.
Stale ==
  LET frame(flags, data) ==
        [port |-> 0, flags |-> flags, seq |-> Plus(PEER_ISN, 1), ack |-> 0, data |-> data]
  IN  { frame({"RST"}, <<>>), frame({"ACK", "FIN"}, Bytes(0, 1, 1)) }

\* The kernel has booted, and arp_init has asked for the gateway's address; or
\* requests have been made before.
Init ==
  /\ conn = NoConn /\ rxbuf = <<>>
  /\ pc = "idle" /\ pieces = 0 /\ again = FALSE /\ got = <<>>
  /\ \/ arp = FALSE /\ wire = {ArpReply}
     \/ arp = TRUE  /\ wire = Stale
  /\ rxq = <<>> /\ sent = {}
  /\ server = Listening
  /\ isn = 0 /\ overflowed = FALSE /\ early = FALSE
  /\ requests = 0 /\ frames = 0

-----------------------------------------------------------------------------
(* The caller *)

\* tcp_connect up to its loop.  Without the gateway's address ip_send goes into
\* arp_resolve, which polls, before the sequence number is advanced.  An earlier
\* connection's server is not heard of again but by what it left on the wire.
Connect(i, n) ==
  /\ pc = "idle" /\ requests < MaxRequests
  /\ LET c == [NoConn EXCEPT !.state = "SYN_SENT", !.port = requests + 1,
                             !.snd_nxt = i, !.snd_una = i]
         s == Seg(c, {"SYN"}, <<>>)
     IN  IF arp THEN /\ conn' = [Save(c, s) EXCEPT !.snd_nxt = Plus(i, 1)]
                     /\ sent' = {s} /\ pc' = "connect"
                ELSE conn' = Save(c, s) /\ pc' = "arp" /\ sent' = {}
  /\ pieces' = n /\ isn' = i /\ requests' = requests + 1
  /\ rxbuf' = <<>> /\ got' = <<>> /\ again' = FALSE
  /\ server' = Listening /\ overflowed' = FALSE /\ early' = FALSE
  /\ UNCHANGED <<arp, rxq, wire, frames>>

\* net_poll takes a frame: arp_recv learns the address, ip_recv hands a segment
\* to tcp_recv_pkt.
PollFrame ==
  /\ pc # "idle" /\ rxq # <<>>
  /\ rxq' = Tail(rxq)
  /\ LET m == Head(rxq)
     IN  IF m = ArpReply
         THEN arp' = TRUE /\ UNCHANGED <<conn, rxbuf, sent, overflowed, early>>
         ELSE /\ UNCHANGED arp
              /\ IF Matches(m)
                 THEN LET r == tcp_recv_pkt(conn, m) IN conn' = r.conn /\ sent' = sent \cup r.out
                 ELSE UNCHANGED <<conn, sent>>
              /\ rxbuf' = IF Delivers(m) THEN rxbuf \o SubSeq(m.data, 1, Fits(m.data)) ELSE rxbuf
              /\ overflowed' = (overflowed \/ (Delivers(m) /\ Fits(m.data) < Len(m.data)))
              /\ early' = (early \/ FinEarly(m))
  /\ UNCHANGED <<pc, pieces, again, got, wire, server, isn, counts>>

\* The queue is empty: tcp_tick runs and net_poll returns to the loop `at'.
EndPoll(at, due) ==
  /\ pc = at /\ rxq = <<>>
  /\ due \in BOOLEAN
  /\ UNCHANGED <<arp, rxq, wire, server, isn, overflowed, early, counts>>

\* What is sent: a retransmission, and what the loop sends when it ends.
Sends(due, out) == sent' = sent \cup out \cup (IF Retransmits(conn, due) THEN {conn.last} ELSE {})

\* A call that goes on with c and the segments out, in loop `to'.
Go(to, c, due, out) == pc' = to /\ conn' = c /\ Sends(due, out)

\* Mutant: a connection that is half closed by the server is left as it is.
Mutant_Close(c, due) ==
  IF c.state = "ESTABLISHED"
  THEN Go("close", [c EXCEPT !.state = "FIN_WAIT1", !.snd_nxt = Plus(@, 1)], due,
          {Seg(c, {"ACK", "FIN"}, <<>>)})
  ELSE Go("idle", c, due, {})

\* tcp_close up to its loop.  The FIN is not saved.
Close(c, due) ==
  IF c.state \in {"ESTABLISHED", "CLOSE_WAIT"}
  THEN Go("close", [c EXCEPT !.state = "FIN_WAIT1", !.snd_nxt = Plus(@, 1)], due,
          {Seg(c, {"ACK", "FIN"}, <<>>)})
  ELSE Go("idle", [c EXCEPT !.state = "CLOSED"], due, {})

\* tcp_send sends a piece, unless the NIC does not take it: then it fails, the
\* saved segment stays, and http_request closes.
SendPiece(c, due) ==
  LET s == Seg(c, {"ACK", "PSH"}, <<pieces>>)
  IN  \/ /\ Go(IF pieces > 1 THEN "send" ELSE "recv",
               [Save(c, s) EXCEPT !.snd_nxt = Plus(@, 1)], due, {s})
         /\ pieces' = pieces - 1
      \/ Close(Save(c, s), due) /\ UNCHANGED pieces

\* arp_resolve, inside the tcp_send_seg of the SYN, whose failure tcp_connect
\* does not look at.
Resolving(due, late) ==
  /\ EndPoll("arp", due)
  /\ LET c == tcp_tick(conn, due)
         s == Seg(conn, {"SYN"}, <<>>)
     IN  IF arp \/ late
         THEN Go("connect", [c EXCEPT !.snd_nxt = Plus(@, 1)], due, IF arp THEN {s} ELSE {})
         ELSE Go("arp", c, due, {})
  /\ UNCHANGED <<rxbuf, pieces, again, got>>

Connecting(due, late) ==
  /\ EndPoll("connect", due)
  /\ LET c == tcp_tick(conn, due)
     IN  CASE c.state = "ESTABLISHED" -> SendPiece(c, due)
           [] c.state = "CLOSED" \/ (c.state # "ESTABLISHED" /\ late) ->
                Go("idle", [c EXCEPT !.state = "CLOSED"], due, {}) /\ UNCHANGED pieces
           [] OTHER -> Go("connect", c, due, {}) /\ UNCHANGED pieces
  /\ UNCHANGED <<rxbuf, again, got>>

\* Mutant: tcp_send does not wait for the ACK of the piece before.
Mutant_Ready(c) == c.state = "ESTABLISHED"

Ready(c) == c.state = "ESTABLISHED" /\ c.snd_una = c.snd_nxt

\* tcp_send waits until everything before is acknowledged.
Sending(due, late) ==
  /\ EndPoll("send", due)
  /\ LET c == tcp_tick(conn, due)
     IN  CASE Ready(c) -> SendPiece(c, due)
           [] ~Ready(c) /\ (late \/ c.state # "ESTABLISHED") -> Close(c, due) /\ UNCHANGED pieces
           [] OTHER -> Go("send", c, due, {}) /\ UNCHANGED pieces
  /\ UNCHANGED <<rxbuf, again, got>>

\* tcp_recv in the loop of http_request, which gives up at once when it times
\* out behind the header and at the second time before it.
Receiving(due, late) ==
  /\ EndPoll("recv", due)
  /\ LET c == tcp_tick(conn, due)
         n == IF Len(rxbuf) < BUF - Len(got) THEN Len(rxbuf) ELSE BUF - Len(got)
     IN  IF rxbuf # <<>>
         THEN /\ got' = got \o SubSeq(rxbuf, 1, n)
              /\ rxbuf' = SubSeq(rxbuf, n + 1, Len(rxbuf))
              /\ again' = FALSE
              /\ IF Len(got') = BUF THEN Close(c, due) ELSE Go("recv", c, due, {})
         ELSE /\ UNCHANGED <<got, rxbuf>>
              /\ again' = (again \/ late)
              /\ IF \/ c.state \notin {"ESTABLISHED", "CLOSE_WAIT"}
                    \/ late /\ (again \/ Len(got) >= HEADER)
                 THEN Close(c, due) ELSE Go("recv", c, due, {})
  /\ UNCHANGED pieces

\* Mutant: only the server's FIN ends the wait.
Mutant_Closed(c, late) == c.state = "CLOSED"

Closed(c, late) == c.state = "CLOSED" \/ late

Closing(due, late) ==
  /\ EndPoll("close", due)
  /\ LET c == tcp_tick(conn, due)
     IN  IF Closed(c, late) THEN Go("idle", [c EXCEPT !.state = "CLOSED"], due, {})
                            ELSE Go("close", c, due, {})
  /\ UNCHANGED <<rxbuf, pieces, again, got>>

Loop(late) ==
  \E due \in BOOLEAN :
    \/ Resolving(due, late) \/ Connecting(due, late) \/ Sending(due, late)
    \/ Receiving(due, late) \/ Closing(due, late)

-----------------------------------------------------------------------------
(* The NIC, the network and the server (the last two external) *)

\* The interrupt handler queues a frame, or drops it when the queue is full.
\* Frames stay on the wire: they may come late, more than once, or never.
Arrive(m) ==
  /\ m \in wire /\ frames < MaxFrames /\ Len(rxq) < SLOTS - 1
  /\ rxq' = Append(rxq, m) /\ frames' = frames + 1
  /\ UNCHANGED <<client, arp, wire, sent, server, isn, overflowed, early, requests>>

FromServer(p, s, flags, data) ==
  [port |-> p, flags |-> flags, seq |-> s.nxt, ack |-> s.rcv_nxt, data |-> data]

\* The whole answer of server s, cut into segments behind the bytes in `cuts',
\* and the FIN.  The server has it on the wire at once: the network delays it.
WholeAnswer(p, s, cuts) ==
  LET ends   == { c \in cuts : c < ANSWER } \cup {ANSWER}
      from(e) == 1 + Max({0} \cup { c \in ends : c < e })
      at(k)  == [s EXCEPT !.nxt = Plus(@, k)]
  IN  { FromServer(p, at(from(e) - 1), {"ACK"}, Bytes(p, from(e), e)) : e \in ends }
      \cup { FromServer(p, at(ANSWER), {"ACK", "FIN"}, <<>>) }

\* A server that follows the protocol: it takes what comes next, acknowledges
\* what it has taken, answers when it has read a piece, and may refuse or
\* abort.  Bare ACKs tell it nothing it acts upon, because its answer fits the
\* window and the network repeats what it sends.
ServerTakes(m) ==
  LET p == m.port
      s == server
      n == Len(m.data) + (IF "FIN" \in m.flags THEN 1 ELSE 0)
      o == [s EXCEPT !.state = "open", !.rcv_nxt = Plus(m.seq, 1), !.nxt = Plus(@, 1)]
      t == [s EXCEPT !.rcv_nxt = Plus(@, n)]
      SynAck == [FromServer(p, s, {"SYN", "ACK"}, <<>>) EXCEPT !.ack = o.rcv_nxt]
      Does(new, out) == server' = new /\ wire' = wire \cup out
  IN  /\ m \in sent
      /\ \/ "SYN" \in m.flags /\ s.state = "listen" /\ Does(o, {SynAck})
         \/ /\ n > 0 /\ s.state \in {"open", "answered"} /\ m.seq = s.rcv_nxt
            /\ \/ Does(t, {FromServer(p, t, {"ACK"}, <<>>)})
               \/ /\ s.state = "open" /\ m.data # <<>>
                  /\ \E cuts \in SUBSET (1..(ANSWER - 1)) :
                       Does([t EXCEPT !.state = "answered"],
                            {FromServer(p, t, {"ACK"}, <<>>)} \cup WholeAnswer(p, t, cuts))
         \/ /\ s.state # "reset" /\ ("SYN" \in m.flags \/ m.seq = s.rcv_nxt)
            /\ Does([s EXCEPT !.state = "reset"], {FromServer(p, s, {"RST"}, <<>>)})
      /\ UNCHANGED <<client, arp, rxq, sent, isn, overflowed, early, counts>>

Next ==
  \/ \E i \in ISNs, n \in 1..2 : Connect(i, n)
  \/ PollFrame
  \/ \E late \in BOOLEAN : Loop(late)
  \/ \E m \in wire : Arrive(m)
  \/ \E m \in sent : ServerTakes(m)

\* The thread runs and its deadlines pass.
Fairness == WF_vars(PollFrame) /\ WF_vars(Loop(TRUE))

Spec == Init /\ [][Next]_vars /\ Fairness

-----------------------------------------------------------------------------
(* Correctness *)

TypeOK ==
  /\ conn.state \in {"CLOSED", "SYN_SENT", "ESTABLISHED", "FIN_WAIT1", "FIN_WAIT2", "CLOSE_WAIT"}
  /\ {conn.snd_nxt, conn.snd_una, conn.rcv_nxt} \subseteq 0..(SEQ - 1)
  /\ conn.count \in 0..RETRIES
  /\ Len(rxbuf) < RXBUF /\ Len(rxq) < SLOTS /\ Len(got) <= BUF
  /\ pc \in {"idle", "arp", "connect", "send", "recv", "close"}
  /\ pieces \in 0..2 /\ {again, arp, overflowed, early} \subseteq BOOLEAN

Answer(p) == [i \in 1..ANSWER |-> <<p, i>>]

\* "Deliver in-order payload" (tcp.c:350): what the caller has and will get is a
\* prefix of the server's answer to this request, whatever the network does -
\* as long as the ring never overflows and no FIN overtakes data.
StreamPrefix == overflowed \/ early \/ IsPrefix(got \o rxbuf, Answer(conn.port))

\* Everything the client takes as acknowledged has reached the server.
AckedIsReceived ==
  conn.port # 0 =>
    Dist(isn, conn.snd_una) <= IF server.nxt = PEER_ISN THEN 0 ELSE Dist(isn, server.rcv_nxt)

\* Stop-and-wait: while a connection is open, what is not acknowledged is
\* exactly the segment kept for retransmission.
Resendable ==
  conn.state \in {"ESTABLISHED", "CLOSE_WAIT"} /\ conn.snd_una # conn.snd_nxt =>
    /\ conn.last # NoSeg
    /\ conn.last.seq = conn.snd_una
    /\ Plus(conn.last.seq, Len(conn.last.data)) = conn.snd_nxt

\* Calls return, however the server and the network behave, and every way out
\* of a request gives the connection's slot back.
CallsReturn == pc # "idle" ~> (pc = "idle" /\ conn.state = "CLOSED")
=============================================================================
