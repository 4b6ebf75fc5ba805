----------------------------- MODULE Tcp_proofs -----------------------------
(***************************************************************************)
(* Proofs about the TCP client, for every size of the sequence space, every*)
(* initial sequence number, answer and buffer size, and any number of      *)
(* requests, lost, repeated and reordered frames.                          *)
(*                                                                         *)
(* Sequence numbers are compared as their distances from the initial ones: *)
(* Off(x) of what the client numbers, Plus(PEER_ISN, k) of the answer's    *)
(* bytes.  All of them are below SEQ, so that equal numbers mean equal     *)
(* distances, and the code's plain comparison of acknowledgements is right *)
(* as long as it accepts one at all.                                       *)
(***************************************************************************)
EXTENDS Tcp, DataLemmas

Num    == 0..(SEQ - 1)
Byte   == Nat \X Nat
Flags  == {"SYN", "ACK", "FIN", "PSH", "RST"}
Segs   == [port : Nat, flags : SUBSET Flags, seq : Num, ack : Num, data : Seq(Nat)]
Frames == [port : Nat, flags : SUBSET Flags, seq : Num, ack : Num, data : Seq(Byte)]
States == {"CLOSED", "SYN_SENT", "ESTABLISHED", "FIN_WAIT1", "FIN_WAIT2", "CLOSE_WAIT"}
Conns  == [state : States, port : Nat, snd_nxt : Num, snd_una : Num, rcv_nxt : Num,
           last : Segs \cup {NoSeg}, count : 0..RETRIES]
Open   == {"ESTABLISHED", "CLOSE_WAIT"}

-----------------------------------------------------------------------------
(* The invariant *)

\* What a segment takes of the client's sequence numbers.
Weight(s) == Len(s.data) + (IF "SYN" \in s.flags \/ "FIN" \in s.flags THEN 1 ELSE 0)

\* A segment of the connection with ISN i from port p that has sent n numbers.
SegOK(s, i, p, n) ==
  /\ s \in Segs /\ s.port = p /\ Dist(i, s.seq) + Weight(s) <= n
  /\ "SYN" \in s.flags => s.seq = i /\ s.data = <<>>

\* The connection, whose server has received r of its numbers.  While it is
\* open, snd_una has not passed zero, one number at most is outstanding, and it
\* is the saved segment's.
ConnOK(c, i, r) ==
  LET n == Dist(i, c.snd_nxt)
      u == Dist(i, c.snd_una)
  IN  /\ c \in Conns /\ u <= r /\ n <= 4
      /\ c.last # NoSeg => SegOK(c.last, i, c.port, n) \/ (n = 0 /\ c.snd_una = c.snd_nxt)
      /\ c.state = "SYN_SENT" => c.snd_una = i /\ n <= 1
      /\ c.state \in Open =>
           /\ 1 <= u /\ u <= n /\ n <= u + 1
           /\ c.snd_una = Plus(i, 1) + (u - 1)
           /\ c.snd_una # c.snd_nxt =>
                c.last # NoSeg /\ c.last.seq = c.snd_una /\ Len(c.last.data) = 1

\* What the server has received, in numbers of this connection.
Rcvd == IF server.nxt = PEER_ISN THEN 0 ELSE Dist(isn, server.rcv_nxt)

\* Phases of a request and the sequence numbers still to be given out.
PhaseOK(at, c, i, k) ==
  LET n == Dist(i, c.snd_nxt)
  IN  /\ at = "arp" => n = 0 /\ c.state = "SYN_SENT"
      /\ at \in {"arp", "connect"} => k \in 1..2
      /\ at = "connect" => n = 1
      /\ at = "send" => k >= 1 /\ n + k <= 3
      /\ at = "recv" => n <= 3

TypeInv ==
  /\ pc \in {"idle", "arp", "connect", "send", "recv", "close"}
  /\ pieces \in 0..2 /\ {again, arp, overflowed, early} \subseteq BOOLEAN
  /\ isn \in Num /\ requests \in Nat /\ frames \in Nat
  /\ rxbuf \in Seq(Byte) /\ Len(rxbuf) < RXBUF
  /\ got \in Seq(Byte) /\ Len(got) <= BUF
  /\ rxq \in Seq(Frames \cup {ArpReply}) /\ Len(rxq) < SLOTS
  /\ wire \subseteq Frames \cup {ArpReply}

ConnInv ==
  /\ ConnOK(conn, isn, Rcvd) /\ conn.port = requests
  /\ conn.port = 0 => conn.state = "CLOSED"
  /\ PhaseOK(pc, conn, isn, pieces)

\* What the client has sent, nothing until the SYN has left.
SentInv ==
  /\ \A s \in sent : SegOK(s, isn, requests, Dist(isn, conn.snd_nxt))
  /\ pc = "arp" => sent = {}

Servers == [state : {"listen", "open", "answered", "reset"}, rcv_nxt : Num,
            nxt : {PEER_ISN, Plus(PEER_ISN, 1)}]

ServerInv ==
  /\ server \in Servers
  /\ server.state = "listen" => server.nxt = PEER_ISN
  /\ server.state \in {"open", "answered"} => server.nxt # PEER_ISN
  /\ server.nxt # PEER_ISN => 1 <= Dist(isn, server.rcv_nxt)
  /\ Rcvd <= Dist(isn, conn.snd_nxt)

\* A frame of a server: its SYN, a piece of its answer, its FIN.
Genuine(m) ==
  /\ m \in Frames
  /\ m.port # 0 =>
       /\ "SYN" \in m.flags => m.seq = PEER_ISN
       /\ m.data # <<>> =>
            \E a \in 1..ANSWER : \E b \in a..ANSWER :
              m.data = Bytes(m.port, a, b) /\ m.seq = Plus(PEER_ISN, a)
       /\ "FIN" \in m.flags => m.data = <<>> /\ m.seq = Plus(PEER_ISN, ANSWER + 1)

\* This connection's server has sent m: it acknowledges what it has received.
Answered(m) ==
  /\ pc # "arp"
  /\ "ACK" \in m.flags =>
       server.nxt # PEER_ISN /\ 1 <= Dist(isn, m.ack) /\ Dist(isn, m.ack) <= Dist(isn, server.rcv_nxt)

FrameOK(m) ==
  m # ArpReply => Genuine(m) /\ m.port <= requests /\ (m.port = requests /\ m.port # 0 => Answered(m))

FrameInv == \A m \in wire \cup Range(rxq) : FrameOK(m)

\* The bytes the caller has and the ring holds; the next one is what rcv_nxt
\* says, or the FIN has been counted.
Stream == got \o rxbuf

StreamInv ==
  overflowed \/ early \/
    /\ Len(Stream) <= ANSWER
    /\ \A k \in 1..Len(Stream) : Stream[k] = <<conn.port, k>>
    /\ conn.state = "SYN_SENT" => Len(Stream) = 0
    /\ conn.state \in Open =>
         conn.rcv_nxt \in {Plus(PEER_ISN, Len(Stream) + 1), Plus(PEER_ISN, ANSWER + 2)}

Inv == TypeInv /\ ConnInv /\ SentInv /\ ServerInv /\ FrameInv /\ StreamInv

-----------------------------------------------------------------------------
(* Numbers modulo SEQ *)

(* The bounds the assumption gives the constants.                          *)
LEMMA Constants ==
  /\ SEQ \in Nat /\ SEQ > ANSWER + 4 /\ ANSWER \in Nat \ {0} /\ RXBUF \in Nat \ {0}
  /\ BUF \in Nat \ {0} /\ SLOTS \in Nat \ {0} /\ PEER_ISN \in Num /\ ISNs \subseteq Num
BY TcpAssumption DEF Num

(* The remainder of a number that is at most one N away from 0..N-1.       *)
LEMMA Mod ==
  ASSUME NEW N \in Nat \ {0}, NEW x \in Int, -N <= x, x < N + N
  PROVE  x % N = IF x < 0 THEN x + N ELSE IF x < N THEN x ELSE x - N
OBVIOUS

(* Adding at most SEQ wraps at most once.                                  *)
LEMMA PlusIs ==
  ASSUME NEW a \in Num, NEW n \in 0..SEQ
  PROVE  /\ Plus(a, n) \in Num
         /\ Plus(a, n) = IF a + n < SEQ THEN a + n ELSE a + n - SEQ
<1>1. SEQ \in Nat \ {0} /\ a + n \in Int /\ -SEQ <= a + n /\ a + n < SEQ + SEQ /\ ~(a + n < 0)
  BY Constants DEF Num
<1>2. Plus(a, n) = (a + n) % SEQ
  BY DEF Plus
<1>. DEFINE s == a + n
<1>3. s % SEQ = IF s < 0 THEN s + SEQ ELSE IF s < SEQ THEN s ELSE s - SEQ
  <2>. HIDE DEF s
  <2>. QED  BY <1>1, Mod DEF s
<1>. QED  BY <1>1, <1>2, <1>3 DEF Num

(* The distance between two numbers, counted forward.                      *)
LEMMA DistIs ==
  ASSUME NEW a \in Num, NEW b \in Num
  PROVE  /\ Dist(a, b) \in Num
         /\ Dist(a, b) = IF a <= b THEN b - a ELSE b - a + SEQ
<1>1. SEQ \in Nat \ {0} /\ b - a \in Int /\ -SEQ <= b - a /\ b - a < SEQ
  BY Constants DEF Num
<1>2. Dist(a, b) = (b - a) % SEQ
  BY DEF Dist
<1>. DEFINE s == b - a
<1>3. s % SEQ = IF s < 0 THEN s + SEQ ELSE IF s < SEQ THEN s ELSE s - SEQ
  <2>. HIDE DEF s
  <2>. QED  BY <1>1, Mod DEF s
<1>. QED  BY <1>1, <1>2, <1>3 DEF Num

(* A distance is a natural number.                                         *)
LEMMA DistNat ==
  ASSUME NEW a \in Num, NEW b \in Num
  PROVE  Dist(a, b) \in Nat
BY DistIs, Constants DEF Num

(* Going on from a number adds to its distance.                            *)
LEMMA DistPlus ==
  ASSUME NEW a \in Num, NEW x \in Num, NEW n \in 0..SEQ, Dist(a, x) + n < SEQ
  PROVE  Dist(a, Plus(x, n)) = Dist(a, x) + n
<1>. DEFINE y == Plus(x, n)
<1>1. y \in Num /\ y = IF x + n < SEQ THEN x + n ELSE x + n - SEQ
  BY PlusIs
<1>. HIDE DEF y
<1>2. Dist(a, x) = IF a <= x THEN x - a ELSE x - a + SEQ
  BY DistIs
<1>3. Dist(a, y) = IF a <= y THEN y - a ELSE y - a + SEQ
  BY <1>1, DistIs
<1>. QED  BY <1>1, <1>2, <1>3, Constants DEF Num, y

(* A number is determined by its distance.                                 *)
LEMMA DistDetermines ==
  ASSUME NEW a \in Num, NEW x \in Num, NEW y \in Num, Dist(a, x) = Dist(a, y)
  PROVE  x = y
<1>1. Dist(a, x) = IF a <= x THEN x - a ELSE x - a + SEQ
  BY DistIs
<1>2. Dist(a, y) = IF a <= y THEN y - a ELSE y - a + SEQ
  BY DistIs
<1>3. SEQ \in Nat /\ a \in Nat /\ x \in Nat /\ y \in Nat /\ a < SEQ /\ x < SEQ /\ y < SEQ
  BY Constants DEF Num
<1>4. (IF a <= x THEN x - a ELSE x - a + SEQ) = (IF a <= y THEN y - a ELSE y - a + SEQ)
  BY <1>1, <1>2
<1>. QED  BY <1>3, <1>4

(* A number is at distance 0 from itself.                                  *)
LEMMA DistSelf ==
  ASSUME NEW a \in Num
  PROVE  Dist(a, a) = 0
BY DistIs, Constants DEF Num

(* Going on by less than SEQ leads to different numbers.                   *)
LEMMA PlusDetermines ==
  ASSUME NEW a \in Num, NEW m \in Num, NEW n \in Num, Plus(a, m) = Plus(a, n)
  PROVE  m = n
<1>1. m \in 0..SEQ /\ n \in 0..SEQ
  BY Constants DEF Num
<1>2. Plus(a, m) = IF a + m < SEQ THEN a + m ELSE a + m - SEQ
  BY <1>1, PlusIs
<1>3. Plus(a, n) = IF a + n < SEQ THEN a + n ELSE a + n - SEQ
  BY <1>1, PlusIs
<1>4. SEQ \in Nat /\ a \in Nat /\ m \in Nat /\ n \in Nat /\ a < SEQ /\ m < SEQ /\ n < SEQ
  BY Constants DEF Num
<1>5. (IF a + m < SEQ THEN a + m ELSE a + m - SEQ) = (IF a + n < SEQ THEN a + n ELSE a + n - SEQ)
  BY <1>2, <1>3
<1>. QED  BY <1>4, <1>5

(* Going on twice is going on by the sum, within one turn.                 *)
LEMMA PlusPlus ==
  ASSUME NEW a \in Num, NEW m \in 0..SEQ, NEW n \in 0..SEQ, m + n <= SEQ
  PROVE  Plus(Plus(a, m), n) = Plus(a, m + n)
<1>. DEFINE y == Plus(a, m)
<1>1. y \in Num /\ y = IF a + m < SEQ THEN a + m ELSE a + m - SEQ
  BY PlusIs
<1>. HIDE DEF y
<1>2. Plus(y, n) = IF y + n < SEQ THEN y + n ELSE y + n - SEQ
  BY <1>1, PlusIs
<1>3. m + n \in 0..SEQ
  BY Constants
<1>4. Plus(a, m + n) = IF a + (m + n) < SEQ THEN a + (m + n) ELSE a + (m + n) - SEQ
  BY <1>3, PlusIs
<1>. QED  BY <1>1, <1>2, <1>4, Constants DEF Num, y

(* The numbers behind the first, by their distances: they count on from    *)
(* Plus(i, 1), or they have passed zero.                                   *)
LEMMA Behind ==
  ASSUME NEW i \in Num, NEW x \in Num, Dist(i, x) >= 1
  PROVE  \/ x = Plus(i, 1) + (Dist(i, x) - 1)
         \/ x = Plus(i, 1) + (Dist(i, x) - 1) - SEQ
<1>1. Plus(i, 1) = IF i + 1 < SEQ THEN i + 1 ELSE i + 1 - SEQ
  BY PlusIs, Constants
<1>2. Dist(i, x) = IF i <= x THEN x - i ELSE x - i + SEQ
  BY DistIs
<1>. QED  BY <1>1, <1>2, Constants DEF Num

-----------------------------------------------------------------------------
(* Segments, and what a received one does to the connection *)

(* The bytes a..b of an answer, numbered.                                  *)
LEMMA BytesAre ==
  ASSUME NEW p \in Nat, NEW a \in Nat \ {0}, NEW b \in Nat, a <= b
  PROVE  /\ Bytes(p, a, b) \in Seq(Byte) /\ Len(Bytes(p, a, b)) = b - a + 1
         /\ \A k \in 1..(b - a + 1) : Bytes(p, a, b)[k] = <<p, a + k - 1>>
<1>. DEFINE n == b - a + 1
            B == Bytes(p, a, b)
<1>1. n \in Nat /\ \A k \in 1..n : a + k - 1 \in Nat
  OBVIOUS
<1>2. B \in [1..n -> Byte] /\ DOMAIN B = 1..n /\ \A k \in 1..n : B[k] = <<p, a + k - 1>>
  BY <1>1 DEF Bytes, Byte
<1>. HIDE DEF n, B
<1>3. B \in Seq(Byte)
  BY <1>1, <1>2, SeqDef
<1>4. Len(B) = n
  BY <1>1, <1>2, <1>3, LenProperties
<1>. QED  BY <1>2, <1>3, <1>4 DEF n, B

(* What tcp_send_seg builds.                                               *)
LEMMA SegIs ==
  ASSUME NEW c \in Conns, NEW f \in SUBSET Flags, NEW d \in Seq(Nat)
  PROVE  /\ Seg(c, f, d) \in Segs /\ Seg(c, f, d) # NoSeg
         /\ Seg(c, f, d).port = c.port /\ Seg(c, f, d).flags = f
         /\ Seg(c, f, d).seq = c.snd_nxt /\ Seg(c, f, d).data = d
<1>1. 0 \in Num
  BY Constants DEF Num
<1>2. Seg(c, f, d) \in Segs
  BY <1>1 DEF Seg, Segs, Conns
<1>3. Seg(c, f, d).seq = c.snd_nxt /\ "seq" \in DOMAIN Seg(c, f, d) /\ "seq" \notin DOMAIN NoSeg
  BY DEF Seg, NoSeg
<1>. QED  BY <1>2, <1>3 DEF Seg

(* A SYN and a FIN take one sequence number, each byte of data takes one.  *)
LEMMA WeightIs ==
  ASSUME NEW s \in Segs
  PROVE  /\ Weight(s) \in Nat
         /\ "SYN" \notin s.flags /\ "FIN" \notin s.flags => Weight(s) = Len(s.data)
         /\ "SYN" \in s.flags \/ "FIN" \in s.flags => Weight(s) = Len(s.data) + 1
<1>1. s.data \in Seq(Nat)
  BY DEF Segs
<1>. DEFINE n == Len(s.data)
<1>2. n \in Nat
  BY <1>1, LenProperties
<1>3. Weight(s) = n + (IF "SYN" \in s.flags \/ "FIN" \in s.flags THEN 1 ELSE 0)
  BY DEF Weight
<1>. HIDE DEF n
<1>4. "SYN" \in s.flags \/ "FIN" \in s.flags => Weight(s) = n + 1
  BY <1>3
<1>5. ~("SYN" \in s.flags \/ "FIN" \in s.flags) => Weight(s) = n
  BY <1>2, <1>3
<1>. QED  BY <1>2, <1>4, <1>5 DEF n

(* A bare acknowledgement takes no sequence number.                        *)
LEMMA AckIs ==
  ASSUME NEW c \in Conns, NEW i \in Num
  PROVE  SegOK(Ack(c), i, c.port, Dist(i, c.snd_nxt))
<1>. DEFINE f == {"ACK"}
            e == <<>>
            s == Seg(c, f, e)
<1>1. f \in SUBSET Flags
  BY DEF Flags
<1>2. e \in Seq(Nat)
  BY EmptySeq
<1>3. Len(e) = 0
  BY EmptySeq
<1>4. "SYN" \notin f /\ "FIN" \notin f
  OBVIOUS
<1>5. s \in Segs /\ s.port = c.port /\ s.flags = f /\ s.seq = c.snd_nxt /\ s.data = e
  <2>. HIDE DEF f, e
  <2>. QED  BY <1>1, <1>2, SegIs
<1>. HIDE DEF f, e, s
<1>6. Weight(s) = 0
  BY <1>3, <1>4, <1>5, WeightIs
<1>7. Dist(i, c.snd_nxt) \in Nat
  <2>1. c.snd_nxt \in Num
    BY DEF Conns
  <2>. QED  BY <2>1, DistIs DEF Num
<1>8. SegOK(s, i, c.port, Dist(i, c.snd_nxt))
  BY <1>4, <1>5, <1>6, <1>7 DEF SegOK
<1>. QED  BY <1>8 DEF s, f, e, Ack

(* A frame acknowledges what its server has received.                      *)
Honest(m, i, r) == "ACK" \in m.flags => 1 <= Dist(i, m.ack) /\ Dist(i, m.ack) <= r

(* What the received segment m may do to connection c: result r of         *)
(* tcp_recv_pkt.                                                           *)
Received(x, c, i, r) ==
  /\ ConnOK(x.conn, i, r) /\ x.conn.port = c.port /\ x.conn.snd_nxt = c.snd_nxt
  /\ \A s \in x.out : SegOK(s, i, c.port, Dist(i, c.snd_nxt))

(* tcp_recv_pkt while the SYN waits for its SYN+ACK: the connection opens  *)
(* only on the number the server has acknowledged.                         *)
LEMMA RecvSynSent ==
  ASSUME NEW i \in Num, NEW r \in Nat, NEW c, ConnOK(c, i, r), NEW m \in Frames, Honest(m, i, r),
         c.state = "SYN_SENT"
  PROVE  Received(recv_SYN_SENT(c, m), c, i, r)
<1>. DEFINE x == recv_SYN_SENT(c, m)
            d == [c EXCEPT !.rcv_nxt = Plus(m.seq, 1), !.snd_una = m.ack,
                           !.state = "ESTABLISHED", !.last = NoSeg]
<1>1. CASE ~({"SYN", "ACK"} \subseteq m.flags /\ m.ack = c.snd_nxt)
  BY <1>1 DEF Received, recv_SYN_SENT
<1>2. CASE {"SYN", "ACK"} \subseteq m.flags /\ m.ack = c.snd_nxt
  <2>1. x = [conn |-> d, out |-> {Ack(d)}]
    BY <1>2 DEF recv_SYN_SENT
  <2>2. Plus(m.seq, 1) \in Num
    BY PlusIs, Constants DEF Frames
  <2>3. d \in Conns
    BY <2>2, <1>2 DEF ConnOK, Conns, States, Frames
  <2>4. /\ d.port = c.port /\ d.snd_nxt = c.snd_nxt /\ d.snd_una = m.ack /\ d.state = "ESTABLISHED"
        /\ d.last = NoSeg
    BY DEF ConnOK, Conns
  <2>5. Dist(i, m.ack) = 1 /\ 1 <= r /\ m.ack \in Num
    <3>1. 1 <= Dist(i, m.ack) /\ Dist(i, m.ack) <= 1 /\ Dist(i, m.ack) <= r /\ m.ack \in Num
      BY <1>2 DEF Honest, ConnOK, Frames
    <3>2. Dist(i, m.ack) \in Int
      BY <3>1, DistIs DEF Num
    <3>. QED  BY <3>1, <3>2
  <2>6. m.ack = Plus(i, 1)
    <3>1. 1 \in 0..SEQ /\ Dist(i, i) = 0 /\ Dist(i, i) + 1 < SEQ
      BY DistSelf, Constants
    <3>2. Dist(i, Plus(i, 1)) = 1 /\ Plus(i, 1) \in Num
      BY <3>1, DistPlus, PlusIs
    <3>. QED  BY <2>5, <3>2, DistDetermines
  <2>7. Plus(i, 1) \in Int
    BY <2>5, <2>6 DEF Num
  <2>8. ConnOK(d, i, r)
    BY <2>3, <2>4, <2>5, <2>6, <2>7, <1>2 DEF ConnOK, Open
  <2>9. SegOK(Ack(d), i, c.port, Dist(i, c.snd_nxt))
    BY <2>3, <2>4, AckIs
  <2>10. x.conn = d /\ x.out = {Ack(d)}
    BY <2>1
  <2>. HIDE DEF x, d
  <2>11. Received(x, c, i, r)
    BY <2>4, <2>8, <2>9, <2>10 DEF Received
  <2>. QED  BY <2>11 DEF x
<1>. QED  BY <1>1, <1>2

(* Two connections that have sent and been acknowledged the same.          *)
Agree(d, c) ==
  /\ d.port = c.port /\ d.snd_nxt = c.snd_nxt /\ d.snd_una = c.snd_una /\ d.last = c.last
  /\ d.state = "SYN_SENT" => c.state = "SYN_SENT"
  /\ d.state \in Open => c.state \in Open

(* ConnOK looks at no more of a connection than Agree compares.            *)
LEMMA Agreeing ==
  ASSUME NEW i, NEW r, NEW c, ConnOK(c, i, r), NEW d \in Conns, Agree(d, c)
  PROVE  ConnOK(d, i, r)
BY DEF ConnOK, Agree

(* An acknowledgement that an open connection takes is of all that is      *)
(* outstanding.                                                            *)
LEMMA AckTaken ==
  ASSUME NEW i \in Num, NEW r \in Nat, NEW c, ConnOK(c, i, r), r <= Dist(i, c.snd_nxt),
         NEW m \in Frames, Honest(m, i, r), c.state \in Open
  PROVE  LET a == [c EXCEPT !.snd_una = Acked(c, m)]
         IN  /\ ConnOK(a, i, r) /\ a.port = c.port /\ a.snd_nxt = c.snd_nxt
             /\ a.state = c.state /\ a.rcv_nxt = c.rcv_nxt
<1>. DEFINE v == Acked(c, m)
            a == [c EXCEPT !.snd_una = v]
            n == Dist(i, c.snd_nxt)
            u == Dist(i, c.snd_una)
            w == Dist(i, m.ack)
            f == Plus(i, 1)
<1>1. c \in Conns
  BY DEF ConnOK
<1>2. c.snd_una \in Num /\ c.snd_nxt \in Num /\ m.ack \in Num /\ f \in Num
  BY <1>1, PlusIs, Constants DEF Conns, Frames
<1>3. u \in Nat /\ n \in Nat /\ w \in Nat
  <2>1. u \in Num /\ n \in Num /\ w \in Num
    BY <1>2, DistIs
  <2>. QED  BY <2>1 DEF Num
<1>4. 1 <= u /\ u <= n /\ n <= u + 1 /\ c.snd_una = f + (u - 1) /\ n <= 4 /\ u <= r
  BY DEF ConnOK
<1>5. v \in Num
  BY <1>2 DEF Acked
<1>6. /\ a \in Conns /\ a.port = c.port /\ a.snd_nxt = c.snd_nxt /\ a.snd_una = v
      /\ a.state = c.state /\ a.rcv_nxt = c.rcv_nxt /\ a.last = c.last
  <2>. HIDE DEF v
  <2>. QED  BY <1>1, <1>5 DEF Conns
<1>7. CASE v = c.snd_una
  <2>1. Agree(a, c)
    <3>. HIDE DEF v, a
    <3>. QED  BY <1>6, <1>7 DEF Agree
  <2>. HIDE DEF a
  <2>2. ConnOK(a, i, r)
    BY <1>6, <2>1, Agreeing
  <2>. QED  BY <2>2, <1>6 DEF a
<1>8. CASE v # c.snd_una
  <2>1. v = m.ack /\ m.ack > c.snd_una /\ 1 <= w /\ w <= r
    BY <1>8 DEF Acked, Honest
  <2>2. w >= 1
    BY <2>1, <1>3
  <2>3. m.ack = f + (w - 1) \/ m.ack = f + (w - 1) - SEQ
    BY <1>2, <2>2, Behind
  <2>4. w = n /\ m.ack = f + (w - 1)
    <3>1. w <= n
      BY <1>3, <2>1
    <3>. HIDE DEF u, w, f, n
    <3>2. SEQ \in Nat /\ m.ack \in Nat /\ m.ack < SEQ /\ f \in Nat /\ c.snd_una \in Nat /\ c.snd_una < SEQ
      BY <1>2, Constants DEF Num
    <3>. QED  BY <3>1, <3>2, <1>3, <1>4, <2>1, <2>3
  <2>5. m.ack = c.snd_nxt
    BY <2>4, <1>2, DistDetermines
  <2>6. ConnOK(a, i, r)
    <3>1. a.snd_una = m.ack /\ Dist(i, a.snd_una) = n /\ a.snd_una = f + (n - 1) /\ Dist(i, a.snd_nxt) = n
      BY <1>6, <2>1, <2>4
    <3>2. a.last # NoSeg => SegOK(a.last, i, a.port, n)
      BY <1>4, <1>6 DEF ConnOK
    <3>3. a.state # "SYN_SENT" /\ a.snd_una = a.snd_nxt
      BY <1>6, <3>1, <2>5 DEF Open
    <3>. HIDE DEF a, n, u, w, v
    <3>4. n <= r /\ n <= 4 /\ 1 <= n /\ n <= n + 1 /\ n <= n
      BY <1>3, <1>4, <2>1, <2>4
    <3>. QED  BY <1>6, <3>1, <3>2, <3>3, <3>4 DEF ConnOK, f
  <2>. HIDE DEF a
  <2>. QED  BY <2>6, <1>6 DEF a
<1>. QED  BY <1>7, <1>8

(* What recv_ESTABLISHED makes of rcv_nxt and the state.                   *)
LEMMA RecvOpen ==
  ASSUME NEW i \in Num, NEW r \in Nat, NEW c, ConnOK(c, i, r), r <= Dist(i, c.snd_nxt),
         NEW m \in Frames, Honest(m, i, r), c.state \in Open, Len(m.data) \in 0..SEQ
  PROVE  LET x == recv_ESTABLISHED(c, m)
             v == IF InOrder(c, m) THEN Plus(c.rcv_nxt, Len(m.data)) ELSE c.rcv_nxt
         IN  /\ Received(x, c, i, r)
             /\ "FIN" \notin m.flags => x.conn.state = c.state /\ x.conn.rcv_nxt = v
             /\ "FIN" \in m.flags => /\ x.conn.state \in {"CLOSE_WAIT", "CLOSED"}
                                     /\ x.conn.rcv_nxt = Plus(v, 1)
<1>. DEFINE x == recv_ESTABLISHED(c, m)
            v == IF InOrder(c, m) THEN Plus(c.rcv_nxt, Len(m.data)) ELSE c.rcv_nxt
            a == [c EXCEPT !.snd_una = Acked(c, m)]
            t == IF c.state = "ESTABLISHED" THEN "CLOSE_WAIT" ELSE "CLOSED"
            d == [a EXCEPT !.rcv_nxt = v]
            f == [d EXCEPT !.rcv_nxt = Plus(v, 1), !.state = t]
<1>1. /\ ConnOK(a, i, r) /\ a.port = c.port /\ a.snd_nxt = c.snd_nxt /\ a.state = c.state
      /\ a.rcv_nxt = c.rcv_nxt
  BY AckTaken
<1>2. a \in Conns
  BY <1>1 DEF ConnOK
<1>3. InOrder(a, m) <=> InOrder(c, m)
  BY <1>1 DEF InOrder
<1>4. d = IF InOrder(a, m) THEN [a EXCEPT !.rcv_nxt = Plus(@, Len(m.data))] ELSE a
  <2>. HIDE DEF a
  <2>1. CASE InOrder(a, m)
    BY <2>1, <1>1, <1>3
  <2>2. CASE ~InOrder(a, m)
    BY <2>2, <1>1, <1>2, <1>3 DEF Conns
  <2>. QED  BY <2>1, <2>2
<1>5. v \in Num /\ Plus(v, 1) \in Num
  <2>1. c.rcv_nxt \in Num /\ 1 \in 0..SEQ
    BY Constants DEF ConnOK, Conns
  <2>2. v \in Num
    BY <2>1, PlusIs
  <2>. HIDE DEF v
  <2>. QED  BY <2>1, <2>2, PlusIs
<1>. HIDE DEF a, v
<1>6. d \in Conns /\ Agree(d, a) /\ d.rcv_nxt = v /\ d.state = c.state
  BY <1>1, <1>2, <1>5 DEF Conns, Agree
<1>. HIDE DEF d
<1>7. f \in Conns /\ Agree(f, a) /\ f.rcv_nxt = Plus(v, 1) /\ f.state = t
  BY <1>1, <1>2, <1>5, <1>6 DEF Conns, Agree, Open, States
<1>. HIDE DEF f
<1>8. ConnOK(d, i, r) /\ ConnOK(f, i, r)
  BY <1>1, <1>6, <1>7, Agreeing
<1>9. /\ SegOK(Ack(d), i, c.port, Dist(i, c.snd_nxt))
      /\ SegOK(Ack(f), i, c.port, Dist(i, c.snd_nxt))
  <2>1. /\ SegOK(Ack(d), i, d.port, Dist(i, d.snd_nxt))
        /\ SegOK(Ack(f), i, f.port, Dist(i, f.snd_nxt))
    BY <1>6, <1>7, AckIs
  <2>. QED  BY <2>1, <1>1, <1>6, <1>7 DEF Agree
<1>10. x = [conn |-> IF "FIN" \in m.flags THEN f ELSE d, out |-> x.out] /\ x.out \subseteq {Ack(d), Ack(f)}
  <2>1. d.state = c.state /\ d.rcv_nxt = v
    BY <1>6
  <2>2. f = [d EXCEPT !.rcv_nxt = Plus(@, 1), !.state = IF @ = "ESTABLISHED" THEN "CLOSE_WAIT" ELSE "CLOSED"]
    BY <2>1 DEF f
  <2>. QED  BY <1>4, <2>2 DEF recv_ESTABLISHED, a
<1>. HIDE DEF x
<1>11. Received(x, c, i, r)
  BY <1>1, <1>6, <1>7, <1>8, <1>9, <1>10 DEF Received, Agree
<1>12. /\ "FIN" \notin m.flags => x.conn.state = c.state /\ x.conn.rcv_nxt = v
       /\ "FIN" \in m.flags => /\ x.conn.state \in {"CLOSE_WAIT", "CLOSED"}
                               /\ x.conn.rcv_nxt = Plus(v, 1)
  BY <1>6, <1>7, <1>10
<1>. QED  BY <1>11, <1>12 DEF x, v

(* tcp_recv_pkt behind our FIN.                                            *)
LEMMA RecvFinWait ==
  ASSUME NEW i \in Num, NEW r \in Nat, NEW c, ConnOK(c, i, r), r <= Dist(i, c.snd_nxt),
         NEW m \in Frames, Honest(m, i, r), c.state \in {"FIN_WAIT1", "FIN_WAIT2"}
  PROVE  LET x == recv_FIN_WAIT(c, m)
         IN  Received(x, c, i, r) /\ x.conn.state \in {"FIN_WAIT1", "FIN_WAIT2", "CLOSED"}
<1>. DEFINE x == recv_FIN_WAIT(c, m)
            a == IF c.state = "FIN_WAIT1" /\ "ACK" \in m.flags THEN [c EXCEPT !.snd_una = m.ack] ELSE c
            f == [a EXCEPT !.rcv_nxt = Plus(@, 1), !.state = "CLOSED"]
            g == [a EXCEPT !.state = "FIN_WAIT2"]
<1>1. c \in Conns /\ m.ack \in Num /\ 1 \in 0..SEQ
  BY Constants DEF ConnOK, Frames
<1>2. /\ a \in Conns /\ a.port = c.port /\ a.snd_nxt = c.snd_nxt /\ a.last = c.last
      /\ a.state = c.state /\ (a.snd_una = c.snd_una \/ (a.snd_una = m.ack /\ "ACK" \in m.flags))
  BY <1>1 DEF Conns
<1>. HIDE DEF a
<1>3. ConnOK(a, i, r)
  <2>1. CASE a.snd_una = c.snd_una
    BY <2>1, <1>2, Agreeing DEF Agree
  <2>2. CASE a.snd_una = m.ack /\ "ACK" \in m.flags
    <3>1. 1 <= Dist(i, m.ack) /\ Dist(i, m.ack) <= r
      BY <2>2 DEF Honest
    <3>2. Dist(i, c.snd_nxt) # 0
      <4>1. Dist(i, c.snd_nxt) \in Num /\ Dist(i, m.ack) \in Num
        BY <1>1, DistIs DEF Conns
      <4>. QED  BY <3>1, <4>1 DEF Num
    <3>3. a.last # NoSeg => SegOK(a.last, i, a.port, Dist(i, a.snd_nxt))
      BY <1>2, <3>2 DEF ConnOK
    <3>. QED  BY <1>2, <2>2, <3>1, <3>3 DEF ConnOK, Open
  <2>. QED  BY <1>2, <2>1, <2>2
<1>4. f \in Conns /\ Agree(f, a) /\ f.state = "CLOSED" /\ g \in Conns /\ Agree(g, a) /\ g.state = "FIN_WAIT2"
  <2>1. Plus(a.rcv_nxt, 1) \in Num
    BY <1>1, <1>2, PlusIs DEF Conns
  <2>. QED  BY <1>2, <2>1 DEF Conns, Agree, Open, States
<1>5. x.conn \in {a, f, g} /\ x.out \subseteq {Ack(f)}
  BY DEF recv_FIN_WAIT, a
<1>. HIDE DEF f, g, x
<1>6. ConnOK(f, i, r) /\ ConnOK(g, i, r)
  BY <1>3, <1>4, Agreeing
<1>7. SegOK(Ack(f), i, c.port, Dist(i, c.snd_nxt))
  <2>1. SegOK(Ack(f), i, f.port, Dist(i, f.snd_nxt))
    BY <1>4, AckIs
  <2>. QED  BY <2>1, <1>2, <1>4 DEF Agree
<1>8. Received(x, c, i, r) /\ x.conn.state \in {"FIN_WAIT1", "FIN_WAIT2", "CLOSED"}
  BY <1>2, <1>3, <1>4, <1>5, <1>6, <1>7 DEF Received, Agree
<1>. QED  BY <1>8 DEF x

(* Where the next number expected comes from.                              *)
Taken(x, c, m) ==
  LET v == IF InOrder(c, m) THEN Plus(c.rcv_nxt, Len(m.data)) ELSE c.rcv_nxt
  IN  /\ x.conn.state = "SYN_SENT" => c.state = "SYN_SENT"
      /\ x.conn.state \in Open =>
           \/ c.state = "SYN_SENT" /\ "SYN" \in m.flags /\ x.conn.rcv_nxt = Plus(m.seq, 1)
           \/ /\ c.state \in Open /\ "RST" \notin m.flags
              /\ "FIN" \notin m.flags => x.conn.rcv_nxt = v
              /\ "FIN" \in m.flags => x.conn.rcv_nxt = Plus(v, 1)

(* tcp_recv_pkt keeps the connection's numbers in order, in every state    *)
(* and for every frame of a server that tells the truth.                   *)
LEMMA RecvPkt ==
  ASSUME NEW i \in Num, NEW r \in Nat, NEW c, ConnOK(c, i, r), r <= Dist(i, c.snd_nxt),
         NEW m \in Frames, Honest(m, i, r), c.state # "CLOSED", Len(m.data) \in 0..SEQ
  PROVE  Received(tcp_recv_pkt(c, m), c, i, r) /\ Taken(tcp_recv_pkt(c, m), c, m)
<1>. DEFINE x == tcp_recv_pkt(c, m)
            v == IF InOrder(c, m) THEN Plus(c.rcv_nxt, Len(m.data)) ELSE c.rcv_nxt
<1>. SUFFICES Received(x, c, i, r) /\ Taken(x, c, m)
  OBVIOUS
<1>1. c \in Conns /\ c.state \in States
  BY DEF ConnOK, Conns
<1>2. CASE "RST" \in m.flags
  <2>. DEFINE d == [c EXCEPT !.state = "CLOSED"]
  <2>1. x.conn = d /\ x.out = {}
    BY <1>2 DEF tcp_recv_pkt
  <2>2. d \in Conns /\ Agree(d, c) /\ d.state = "CLOSED"
    BY <1>1 DEF Conns, States, Agree, Open
  <2>. HIDE DEF d, x
  <2>3. ConnOK(d, i, r)
    BY <2>2, Agreeing
  <2>. QED  BY <2>1, <2>2, <2>3 DEF Received, Taken, Agree, Open
<1>3. CASE "RST" \notin m.flags /\ c.state = "SYN_SENT"
  <2>1. x = recv_SYN_SENT(c, m)
    BY <1>3 DEF tcp_recv_pkt
  <2>2. Received(x, c, i, r)
    BY <1>3, <2>1, RecvSynSent
  <2>3. x.conn.state \in Open => "SYN" \in m.flags /\ x.conn.rcv_nxt = Plus(m.seq, 1)
    BY <1>1, <1>3, <2>1 DEF recv_SYN_SENT, Conns, Open
  <2>. HIDE DEF x
  <2>. QED  BY <1>3, <2>2, <2>3 DEF Taken
<1>4. CASE "RST" \notin m.flags /\ c.state \in Open
  <2>1. x = recv_ESTABLISHED(c, m)
    BY <1>4 DEF tcp_recv_pkt, Open
  <2>2. /\ Received(x, c, i, r)
        /\ "FIN" \notin m.flags => x.conn.state = c.state /\ x.conn.rcv_nxt = v
        /\ "FIN" \in m.flags => /\ x.conn.state \in {"CLOSE_WAIT", "CLOSED"}
                                /\ x.conn.rcv_nxt = Plus(v, 1)
    BY <1>4, <2>1, RecvOpen
  <2>. HIDE DEF x
  <2>. QED  BY <1>4, <2>2 DEF Taken, Open
<1>5. CASE "RST" \notin m.flags /\ c.state \in {"FIN_WAIT1", "FIN_WAIT2"}
  <2>1. x = recv_FIN_WAIT(c, m)
    BY <1>5 DEF tcp_recv_pkt
  <2>2. Received(x, c, i, r) /\ x.conn.state \in {"FIN_WAIT1", "FIN_WAIT2", "CLOSED"}
    BY <1>5, <2>1, RecvFinWait
  <2>. HIDE DEF x
  <2>. QED  BY <2>2 DEF Taken, Open
<1>. HIDE DEF x
<1>. QED  BY <1>1, <1>2, <1>3, <1>4, <1>5 DEF States, Open

-----------------------------------------------------------------------------
(* The timer, and what the caller makes of the connection *)

(* After tcp_tick, a segment is kept only while something is outstanding.  *)
LEMMA Tick ==
  ASSUME NEW i \in Num, NEW r \in Nat, NEW c, ConnOK(c, i, r), NEW due \in BOOLEAN
  PROVE  LET t == tcp_tick(c, due)
         IN  /\ ConnOK(t, i, r) /\ t.port = c.port /\ t.rcv_nxt = c.rcv_nxt
             /\ t.snd_nxt = c.snd_nxt /\ t.snd_una = c.snd_una
             /\ t.state = c.state \/ (t.state = "CLOSED" /\ c.snd_una # c.snd_nxt)
             /\ t.state # "CLOSED" /\ t.snd_una = t.snd_nxt => t.last = NoSeg
<1>. DEFINE t == tcp_tick(c, due)
            d1 == [c EXCEPT !.last = NoSeg]
            d2 == [c EXCEPT !.state = "CLOSED"]
            d3 == [c EXCEPT !.count = @ + 1]
            Kept(d) == /\ d.port = c.port /\ d.rcv_nxt = c.rcv_nxt
                       /\ d.snd_nxt = c.snd_nxt /\ d.snd_una = c.snd_una
                       /\ d.state = c.state \/ (d.state = "CLOSED" /\ c.snd_una # c.snd_nxt)
                       /\ d.state # "CLOSED" /\ d.snd_una = d.snd_nxt => d.last = NoSeg
<1>1. c \in Conns
  BY DEF ConnOK
<1>2. CASE c.state = "CLOSED" \/ c.last = NoSeg
  <2>1. t = c
    BY <1>2 DEF tcp_tick
  <2>. HIDE DEF t
  <2>2. ConnOK(t, i, r) /\ Kept(t)
    BY <1>2, <2>1
  <2>. QED  BY <2>2 DEF t
<1>3. CASE c.state # "CLOSED" /\ c.last # NoSeg /\ c.snd_una = c.snd_nxt
  <2>1. t = d1
    BY <1>3 DEF tcp_tick
  <2>2. /\ d1 \in Conns /\ d1.last = NoSeg /\ d1.state = c.state /\ d1.port = c.port
        /\ d1.rcv_nxt = c.rcv_nxt /\ d1.snd_nxt = c.snd_nxt /\ d1.snd_una = c.snd_una
    BY <1>1 DEF Conns
  <2>. HIDE DEF d1, t
  <2>3. ConnOK(d1, i, r)
    BY <1>3, <2>2 DEF ConnOK
  <2>4. ConnOK(t, i, r) /\ Kept(t)
    BY <2>1, <2>2, <2>3
  <2>. QED  BY <2>4 DEF t
<1>4. CASE c.state # "CLOSED" /\ c.last # NoSeg /\ c.snd_una # c.snd_nxt
  <2>1. t = c \/ t = d2 \/ (t = d3 /\ ~(c.count >= RETRIES))
    BY <1>4 DEF tcp_tick
  <2>2. d2 \in Conns /\ Agree(d2, c) /\ Kept(d2)
    BY <1>1, <1>4 DEF Conns, Agree, Open, States
  <2>3. ~(c.count >= RETRIES) => d3 \in Conns /\ Agree(d3, c) /\ Kept(d3)
    <3>1. ~(c.count >= RETRIES) => c.count + 1 \in 0..RETRIES
      BY <1>1, TcpAssumption DEF Conns
    <3>. QED  BY <1>1, <1>4, <3>1 DEF Conns, Agree
  <2>4. Kept(c)
    BY <1>4
  <2>. HIDE DEF d2, d3, t, Kept
  <2>5. ConnOK(t, i, r) /\ Kept(t)
    BY <2>1, <2>2, <2>3, <2>4, Agreeing
  <2>. QED  BY <2>5 DEF t, Kept
<1>. QED  BY <1>2, <1>3, <1>4

(* The timer sends again what the connection has sent.                     *)
LEMMA Resent ==
  ASSUME NEW i, NEW r, NEW c, ConnOK(c, i, r), NEW due, Retransmits(c, due)
  PROVE  SegOK(c.last, i, c.port, Dist(i, c.snd_nxt))
BY DEF Retransmits, ConnOK

(* A new segment takes numbers from snd_nxt on.                            *)
LEMMA NewSeg ==
  ASSUME NEW c \in Conns, NEW i \in Num, NEW f \in SUBSET Flags, NEW d \in Seq(Nat),
         "SYN" \in f => c.snd_nxt = i /\ d = <<>>, NEW w \in Nat,
         w = Len(d) + (IF "SYN" \in f \/ "FIN" \in f THEN 1 ELSE 0)
  PROVE  SegOK(Seg(c, f, d), i, c.port, Dist(i, c.snd_nxt) + w)
<1>. DEFINE s == Seg(c, f, d)
<1>1. s \in Segs /\ s.port = c.port /\ s.flags = f /\ s.seq = c.snd_nxt /\ s.data = d
  <2>1. Seg(c, f, d) \in Segs
    BY SegIs
  <2>. QED  BY <2>1 DEF Seg
<1>. HIDE DEF s
<1>2. Weight(s) = w
  BY <1>1 DEF Weight
<1>3. Dist(i, c.snd_nxt) + w <= Dist(i, c.snd_nxt) + w
  <2>1. c.snd_nxt \in Num
    BY DEF Conns
  <2>2. Dist(i, c.snd_nxt) \in Nat
    BY <2>1, DistNat
  <2>. QED  BY <2>2
<1>4. SegOK(s, i, c.port, Dist(i, c.snd_nxt) + w)
  BY <1>1, <1>2, <1>3 DEF SegOK
<1>. QED  BY <1>4 DEF s

(* What was sent by number n was sent by any later number.                 *)
LEMMA SegLater ==
  ASSUME NEW s, NEW i \in Num, NEW p, NEW n \in Nat, NEW k \in Nat, SegOK(s, i, p, n), n <= k
  PROVE  SegOK(s, i, p, k)
<1>1. s \in Segs /\ s.seq \in Num
  BY DEF SegOK, Segs
<1>2. Weight(s) \in Nat /\ Dist(i, s.seq) \in Nat
  BY <1>1, WeightIs, DistNat
<1>3. Dist(i, s.seq) + Weight(s) <= n
  BY DEF SegOK
<1>4. Dist(i, s.seq) + Weight(s) <= k
  BY <1>2, <1>3
<1>. QED  BY <1>4 DEF SegOK

(* The next number.                                                        *)
LEMMA NextNumber ==
  ASSUME NEW i \in Num, NEW x \in Num, Dist(i, x) <= 3
  PROVE  Plus(x, 1) \in Num /\ Dist(i, Plus(x, 1)) = Dist(i, x) + 1
<1>1. 1 \in 0..SEQ /\ SEQ > 5 /\ SEQ \in Nat /\ Dist(i, x) \in Nat
  BY Constants, DistNat
<1>2. Dist(i, x) + 1 < SEQ
  BY <1>1
<1>. QED  BY <1>1, <1>2, PlusIs, DistPlus

\* A connection that tcp_close may close with a FIN.
Closeable(c, i, r) ==
  /\ c \in Conns /\ Dist(i, c.snd_una) <= r /\ Dist(i, c.snd_nxt) <= 3
  /\ c.last # NoSeg => SegOK(c.last, i, c.port, Dist(i, c.snd_nxt) + 1)

(* tcp_close gives the FIN the next number and keeps nothing for           *)
(* retransmission.                                                         *)
LEMMA SaysFin ==
  ASSUME NEW i \in Num, NEW r \in Nat, NEW c, Closeable(c, i, r)
  PROVE  LET d == [c EXCEPT !.state = "FIN_WAIT1", !.snd_nxt = Plus(@, 1)]
             n == Dist(i, c.snd_nxt)
         IN  /\ ConnOK(d, i, r) /\ d.port = c.port /\ d.state = "FIN_WAIT1"
             /\ n \in Nat /\ Dist(i, d.snd_nxt) = n + 1
             /\ SegOK(Seg(c, {"ACK", "FIN"}, <<>>), i, c.port, n + 1)
<1>. DEFINE d == [c EXCEPT !.state = "FIN_WAIT1", !.snd_nxt = Plus(@, 1)]
            n == Dist(i, c.snd_nxt)
            f == {"ACK", "FIN"}
            e == <<>>
            s == Seg(c, f, e)
<1>1. c \in Conns /\ c.snd_nxt \in Num /\ n <= 3 /\ n \in Nat
  BY DistNat DEF Closeable, Conns
<1>2. Plus(c.snd_nxt, 1) \in Num /\ Dist(i, Plus(c.snd_nxt, 1)) = n + 1
  BY <1>1, NextNumber
<1>3. /\ d \in Conns /\ d.port = c.port /\ d.state = "FIN_WAIT1" /\ d.snd_nxt = Plus(c.snd_nxt, 1)
      /\ d.snd_una = c.snd_una /\ d.last = c.last
  BY <1>1, <1>2 DEF Conns, States
<1>. HIDE DEF d, n
<1>4. ConnOK(d, i, r)
  BY <1>1, <1>2, <1>3 DEF ConnOK, Closeable, Open, n
<1>5. f \in SUBSET Flags /\ "SYN" \notin f /\ "FIN" \in f
  BY DEF Flags
<1>6. e \in Seq(Nat)
  BY EmptySeq
<1>7. 1 = Len(e) + 1
  BY EmptySeq
<1>8. SegOK(s, i, c.port, n + 1)
  <2>. HIDE DEF f, e, s
  <2>1. 1 = Len(e) + (IF "SYN" \in f \/ "FIN" \in f THEN 1 ELSE 0)
    BY <1>5, <1>7
  <2>2. SegOK(Seg(c, f, e), i, c.port, Dist(i, c.snd_nxt) + 1)
    BY <1>1, <1>5, <1>6, <2>1, NewSeg
  <2>. QED  BY <2>2 DEF s, n
<1>. QED  BY <1>1, <1>2, <1>3, <1>4, <1>8 DEF d, n

(* tcp_send gives one piece the next number and keeps it for               *)
(* retransmission, or, when the NIC does not take it, leaves a connection  *)
(* that tcp_close can close.                                               *)
LEMMA SendsPiece ==
  ASSUME NEW i \in Num, NEW r \in Nat, NEW c, ConnOK(c, i, r), NEW k \in Nat,
         c.state = "ESTABLISHED", c.snd_una = c.snd_nxt, Dist(i, c.snd_nxt) <= 3
  PROVE  LET s == Seg(c, {"ACK", "PSH"}, <<k>>)
             d == [Save(c, s) EXCEPT !.snd_nxt = Plus(@, 1)]
             n == Dist(i, c.snd_nxt)
         IN  /\ SegOK(s, i, c.port, n + 1)
             /\ ConnOK(d, i, r) /\ d.port = c.port /\ d.state = "ESTABLISHED"
             /\ d.rcv_nxt = c.rcv_nxt /\ n \in Nat /\ Dist(i, d.snd_nxt) = n + 1
             /\ Closeable(Save(c, s), i, r) /\ Save(c, s).port = c.port
             /\ Save(c, s).snd_nxt = c.snd_nxt /\ Save(c, s).state = "ESTABLISHED"
<1>. DEFINE f == {"ACK", "PSH"}
            e == <<k>>
            s == Seg(c, f, e)
            v == Save(c, s)
            d == [v EXCEPT !.snd_nxt = Plus(@, 1)]
            n == Dist(i, c.snd_nxt)
<1>1. c \in Conns /\ c.snd_nxt \in Num /\ n <= 3 /\ n \in Nat
  <2>1. c \in Conns
    BY DEF ConnOK
  <2>2. c.snd_nxt \in Num
    BY <2>1 DEF Conns
  <2>. QED  BY <2>1, <2>2, DistNat
<1>2. Plus(c.snd_nxt, 1) \in Num /\ Dist(i, Plus(c.snd_nxt, 1)) = n + 1
  BY <1>1, NextNumber
<1>3. f \in SUBSET Flags /\ "SYN" \notin f /\ "FIN" \notin f
  BY DEF Flags
<1>4. e \in Seq(Nat) /\ Len(e) = 1
  OBVIOUS
<1>5. SegOK(s, i, c.port, n + 1)
  <2>. HIDE DEF f, e, s
  <2>1. 1 = Len(e) + (IF "SYN" \in f \/ "FIN" \in f THEN 1 ELSE 0)
    BY <1>3, <1>4
  <2>2. SegOK(Seg(c, f, e), i, c.port, Dist(i, c.snd_nxt) + 1)
    BY <1>1, <1>3, <1>4, <2>1, NewSeg
  <2>. QED  BY <2>2 DEF s, n
<1>6. s \in Segs /\ s # NoSeg /\ s.seq = c.snd_nxt /\ s.data = e
  <2>1. e \in Seq(Nat)
    BY <1>4
  <2>. HIDE DEF f, e
  <2>. QED  BY <1>1, <1>3, <2>1, SegIs
<1>. HIDE DEF s, f
<1>7. 0 \in 0..RETRIES
  BY TcpAssumption
<1>8. /\ v \in Conns /\ v.port = c.port /\ v.state = "ESTABLISHED" /\ v.snd_nxt = c.snd_nxt
      /\ v.snd_una = c.snd_una /\ v.last = s /\ v.rcv_nxt = c.rcv_nxt
  BY <1>1, <1>6, <1>7 DEF Conns, Save
<1>. HIDE DEF v
<1>9. /\ d \in Conns /\ d.port = c.port /\ d.state = "ESTABLISHED" /\ d.snd_nxt = Plus(c.snd_nxt, 1)
      /\ d.snd_una = c.snd_una /\ d.last = s /\ d.rcv_nxt = c.rcv_nxt
  BY <1>2, <1>8 DEF Conns
<1>. HIDE DEF d, n, e
<1>10. Closeable(v, i, r)
  BY <1>1, <1>5, <1>8 DEF Closeable, ConnOK, n
<1>11. ConnOK(d, i, r)
  <2>. DEFINE u == Dist(i, c.snd_una)
              g == Plus(i, 1) + (u - 1)
  <2>1. u = n /\ u <= r /\ 1 <= u /\ c.snd_una = g
    BY DEF ConnOK, Open, n
  <2>2. 1 <= u /\ u <= n + 1 /\ n + 1 <= u + 1 /\ n + 1 <= 4
    BY <1>1, <2>1
  <2>3. d.last # NoSeg /\ d.last.seq = d.snd_una /\ Len(d.last.data) = 1
    BY <1>4, <1>6, <1>9
  <2>4. Dist(i, d.snd_nxt) = n + 1 /\ Dist(i, d.snd_una) = u /\ d.snd_una = g /\ SegOK(d.last, i, d.port, n + 1)
    BY <1>2, <1>5, <1>9, <2>1
  <2>5. d.state = "ESTABLISHED" /\ d \in Conns
    BY <1>9
  <2>. HIDE DEF u
  <2>. QED  BY <2>1, <2>2, <2>3, <2>4, <2>5 DEF ConnOK, Open, u
<1>. QED  BY <1>1, <1>2, <1>5, <1>8, <1>9, <1>10, <1>11 DEF d, v, s, n, f, e

-----------------------------------------------------------------------------
(* The end of a poll *)

Loops == {"idle", "arp", "connect", "send", "recv", "close"}

\* The caller goes on with c and the segments out in loop `to', k pieces still
\* to send.
Step(c, to, k, out) ==
  /\ ConnOK(c, isn, Rcvd) /\ c.port = conn.port
  /\ Dist(isn, conn.snd_nxt) <= Dist(isn, c.snd_nxt)
  /\ conn.state = "CLOSED" => c.state = "CLOSED"
  /\ c.state = "SYN_SENT" => conn.state = "SYN_SENT"
  /\ c.state \in Open => conn.state \in Open /\ c.rcv_nxt = conn.rcv_nxt
  /\ PhaseOK(to, c, isn, k) /\ k \in 0..2 /\ to \in Loops
  /\ to = "arp" => pc = "arp" /\ out = {}
  /\ \A s \in out : SegOK(s, isn, conn.port, Dist(isn, c.snd_nxt))

(* The numbers the invariant speaks of are numbers.                        *)
LEMMA ConnNumbers ==
  ASSUME Inv
  PROVE  /\ conn \in Conns /\ isn \in Num
         /\ Dist(isn, conn.snd_nxt) \in Nat /\ Dist(isn, conn.snd_una) \in Nat /\ Rcvd \in Nat
         /\ Rcvd <= Dist(isn, conn.snd_nxt) /\ conn.port = requests /\ ConnOK(conn, isn, Rcvd)
<1>1. conn \in Conns /\ isn \in Num /\ conn.snd_nxt \in Num /\ conn.snd_una \in Num
  BY DEF Inv, ConnInv, TypeInv, ConnOK, Conns
<1>2. server.rcv_nxt \in Num
  BY DEF Inv, ServerInv, Servers
<1>3. Rcvd \in Nat
  BY <1>1, <1>2, DistNat DEF Rcvd
<1>. QED  BY <1>1, <1>3, DistNat DEF Inv, ConnInv, ServerInv

(* The end of a poll keeps the invariant when what the call goes on with   *)
(* is a Step.                                                              *)
LEMMA GoKeeps ==
  ASSUME Inv, NEW due \in BOOLEAN, NEW c, NEW to, NEW out, Step(c, to, pieces', out), Go(to, c, due, out),
         UNCHANGED <<arp, rxq, wire, server, isn, overflowed, early, counts>>,
         got' \in Seq(Byte), Len(got') <= BUF, rxbuf' \in Seq(Byte), Len(rxbuf') < RXBUF,
         Stream' = Stream, again' \in BOOLEAN
  PROVE  Inv'
<1>1. pc' = to /\ conn' = c /\ Rcvd' = Rcvd /\ requests' = requests /\ frames' = frames
  BY DEF Go, Rcvd, counts
<1>2. TypeInv'
  BY <1>1 DEF Inv, TypeInv, Step, Loops
<1>3. ConnInv'
  <2>1. ConnOK(c, isn, Rcvd) /\ c.port = requests /\ PhaseOK(to, c, isn, pieces')
    BY ConnNumbers DEF Step
  <2>2. c.port = 0 => c.state = "CLOSED"
    BY DEF Inv, ConnInv, Step
  <2>. QED  BY <1>1, <2>1, <2>2 DEF ConnInv
<1>4. SentInv'
  <2>. DEFINE n == Dist(isn, conn.snd_nxt)
              k == Dist(isn, c.snd_nxt)
  <2>1. k \in Nat /\ n \in Nat /\ n <= k /\ isn \in Num
    BY ConnNumbers, DistNat DEF Step, ConnOK, Conns
  <2>2. ASSUME NEW s \in sent' PROVE SegOK(s, isn, requests, k)
    <3>1. CASE s \in out
      BY <3>1, ConnNumbers DEF Step
    <3>2. CASE s \in sent
      <4>1. SegOK(s, isn, requests, n)
        BY <3>2 DEF Inv, SentInv
      <4>. HIDE DEF n, k
      <4>. QED  BY <4>1, <2>1, SegLater
    <3>3. CASE s = conn.last /\ Retransmits(conn, due)
      <4>1. SegOK(s, isn, requests, n)
        BY <3>3, ConnNumbers, Resent
      <4>. HIDE DEF n, k
      <4>. QED  BY <4>1, <2>1, SegLater
    <3>. QED  BY <3>1, <3>2, <3>3 DEF Go, Sends
  <2>3. ASSUME to = "arp" PROVE sent' = {}
    <3>1. pc = "arp" /\ out = {}
      BY <2>3 DEF Step
    <3>2. conn.snd_una = conn.snd_nxt
      <4>1. conn.snd_una = isn /\ Dist(isn, conn.snd_nxt) = 0
        BY <3>1 DEF Inv, ConnInv, ConnOK, PhaseOK
      <4>2. conn.snd_nxt \in Num /\ Dist(isn, isn) = 0
        BY ConnNumbers, DistSelf DEF Conns
      <4>. QED  BY <4>1, <4>2, <2>1, DistDetermines
    <3>. QED  BY <3>1, <3>2 DEF Go, Sends, Retransmits, Inv, SentInv
  <2>. QED  BY <1>1, <2>2, <2>3 DEF SentInv
<1>5. ServerInv'
  <2>1. Rcvd <= Dist(isn, c.snd_nxt)
    <3>1. c.snd_nxt \in Num
      BY DEF Step, ConnOK, Conns
    <3>2. Dist(isn, c.snd_nxt) \in Nat /\ Dist(isn, conn.snd_nxt) <= Dist(isn, c.snd_nxt)
      BY <3>1, ConnNumbers, DistNat DEF Step
    <3>. QED  BY <3>2, ConnNumbers
  <2>. QED  BY <1>1, <2>1 DEF Inv, ServerInv
<1>6. FrameInv'
  BY <1>1 DEF Inv, FrameInv, FrameOK, Answered, Step
<1>7. StreamInv'
  BY <1>1 DEF Inv, StreamInv, Step
<1>. QED  BY <1>2, <1>3, <1>4, <1>5, <1>6, <1>7 DEF Inv

(* What each loop makes of the connection at the end of a poll.            *)
LEMMA CloseSteps ==
  ASSUME Inv, NEW due \in BOOLEAN, NEW c, NEW k \in 0..2, Close(c, due), c.port = conn.port,
         c.state \in Open => Closeable(c, isn, Rcvd), c.state \notin Open => ConnOK(c, isn, Rcvd),
         conn.state = "CLOSED" => c.state = "CLOSED",
         c.snd_nxt = conn.snd_nxt
  PROVE  \E d, to, out : Step(d, to, k, out) /\ Go(to, d, due, out)
<1>1. CASE c.state \in Open
  <2>. DEFINE d == [c EXCEPT !.state = "FIN_WAIT1", !.snd_nxt = Plus(@, 1)]
              s == Seg(c, {"ACK", "FIN"}, <<>>)
              n == Dist(isn, c.snd_nxt)
  <2>1. /\ ConnOK(d, isn, Rcvd) /\ d.port = c.port /\ d.state = "FIN_WAIT1"
        /\ n \in Nat /\ Dist(isn, d.snd_nxt) = n + 1 /\ SegOK(s, isn, c.port, n + 1)
    BY <1>1, ConnNumbers, SaysFin
  <2>2. Go("close", d, due, {s})
    BY <1>1 DEF Close, Open
  <2>. HIDE DEF d, s, n
  <2>3. Dist(isn, conn.snd_nxt) <= Dist(isn, d.snd_nxt)
    BY <2>1 DEF n
  <2>4. Step(d, "close", k, {s})
    BY <1>1, <2>1, <2>3 DEF Step, PhaseOK, Loops, Open
  <2>. QED  BY <2>2, <2>4
<1>2. CASE c.state \notin Open
  <2>. DEFINE d == [c EXCEPT !.state = "CLOSED"]
  <2>1. d \in Conns /\ Agree(d, c) /\ d.state = "CLOSED"
    BY <1>2 DEF ConnOK, Conns, Agree, Open, States
  <2>2. Go("idle", d, due, {})
    BY <1>2 DEF Close, Open
  <2>. HIDE DEF d
  <2>3. ConnOK(d, isn, Rcvd)
    BY <1>2, <2>1, Agreeing
  <2>4. Dist(isn, conn.snd_nxt) <= Dist(isn, d.snd_nxt)
    BY <2>1, ConnNumbers DEF Agree
  <2>5. Step(d, "idle", k, {})
    BY <2>1, <2>3, <2>4 DEF Step, PhaseOK, Loops, Open, Agree
  <2>. QED  BY <2>2, <2>5
<1>. QED  BY <1>1, <1>2

(* Sending a piece is a Step.                                              *)
LEMMA PieceSteps ==
  ASSUME Inv, NEW due \in BOOLEAN, NEW c, ConnOK(c, isn, Rcvd), c.port = conn.port, c.rcv_nxt = conn.rcv_nxt,
         c.state = "ESTABLISHED", conn.state = "ESTABLISHED", c.snd_una = c.snd_nxt,
         c.snd_nxt = conn.snd_nxt, pieces \in 1..2, Dist(isn, c.snd_nxt) + pieces <= 3, SendPiece(c, due)
  PROVE  \E d, to, out : Step(d, to, pieces', out) /\ Go(to, d, due, out)
<1>. DEFINE s == Seg(c, {"ACK", "PSH"}, <<pieces>>)
            v == Save(c, s)
            d == [v EXCEPT !.snd_nxt = Plus(@, 1)]
            n == Dist(isn, c.snd_nxt)
            to == IF pieces > 1 THEN "send" ELSE "recv"
<1>1. /\ SegOK(s, isn, c.port, n + 1)
      /\ ConnOK(d, isn, Rcvd) /\ d.port = c.port /\ d.state = "ESTABLISHED"
      /\ d.rcv_nxt = c.rcv_nxt /\ n \in Nat /\ Dist(isn, d.snd_nxt) = n + 1
      /\ Closeable(v, isn, Rcvd) /\ v.port = c.port /\ v.snd_nxt = c.snd_nxt /\ v.state = "ESTABLISHED"
  <2>1. n <= 3 /\ pieces \in Nat
    BY ConnNumbers
  <2>. QED  BY <2>1, ConnNumbers, SendsPiece
<1>2. CASE Go(to, d, due, {s}) /\ pieces' = pieces - 1
  <2>. HIDE DEF d, s, n
  <2>1. Dist(isn, conn.snd_nxt) <= Dist(isn, d.snd_nxt)
    BY <1>1 DEF n
  <2>2. PhaseOK(to, d, isn, pieces') /\ pieces' \in 0..2
    BY <1>1, <1>2 DEF PhaseOK, n
  <2>3. Step(d, to, pieces', {s})
    BY <1>1, <2>1, <2>2 DEF Step, Loops, Open
  <2>. QED  BY <1>2, <2>3
<1>3. CASE Close(v, due) /\ UNCHANGED pieces
  <2>. HIDE DEF v
  <2>1. \E e, t, out : Step(e, t, pieces, out) /\ Go(t, e, due, out)
    BY <1>1, <1>3, CloseSteps DEF Open
  <2>. QED  BY <1>3, <2>1
<1>. QED  BY <1>2, <1>3 DEF SendPiece

\* c is the connection after tcp_tick.
Ticked(c) ==
  /\ ConnOK(c, isn, Rcvd) /\ c.port = conn.port /\ c.rcv_nxt = conn.rcv_nxt
  /\ c.snd_nxt = conn.snd_nxt /\ c.snd_una = conn.snd_una
  /\ c.state = conn.state \/ (c.state = "CLOSED" /\ conn.snd_una # conn.snd_nxt)
  /\ c.state # "CLOSED" /\ c.snd_una = c.snd_nxt => c.last = NoSeg
  /\ conn.state = "CLOSED" => c.state = "CLOSED"
  /\ Dist(isn, c.snd_nxt) \in Nat

(* The connection after tcp_tick.                                          *)
LEMMA TickSteps ==
  ASSUME Inv, NEW due \in BOOLEAN
  PROVE  Ticked(tcp_tick(conn, due))
<1>. DEFINE t == tcp_tick(conn, due)
<1>1. /\ ConnOK(t, isn, Rcvd) /\ t.port = conn.port /\ t.rcv_nxt = conn.rcv_nxt
      /\ t.snd_nxt = conn.snd_nxt /\ t.snd_una = conn.snd_una
      /\ t.state = conn.state \/ (t.state = "CLOSED" /\ conn.snd_una # conn.snd_nxt)
      /\ t.state # "CLOSED" /\ t.snd_una = t.snd_nxt => t.last = NoSeg
  BY ConnNumbers, Tick
<1>. HIDE DEF t
<1>2. Ticked(t)
  BY <1>1, ConnNumbers DEF Ticked
<1>. QED  BY <1>2 DEF t

(* So is waiting on,                                                       *)
LEMMA StaySteps ==
  ASSUME Inv, NEW c, Ticked(c), pc # "arp"
  PROVE  Step(c, pc, pieces, {})
<1>1. PhaseOK(pc, c, isn, pieces)
  BY DEF Ticked, PhaseOK, Inv, ConnInv
<1>2. Dist(isn, conn.snd_nxt) <= Dist(isn, c.snd_nxt)
  BY DEF Ticked
<1>. QED  BY <1>1, <1>2 DEF Ticked, Step, Inv, TypeInv, Loops, Open

(* and giving the connection up.                                           *)
LEMMA DropSteps ==
  ASSUME Inv, NEW c, Ticked(c)
  PROVE  Step([c EXCEPT !.state = "CLOSED"], "idle", pieces, {})
<1>. DEFINE d == [c EXCEPT !.state = "CLOSED"]
<1>1. d \in Conns /\ Agree(d, c) /\ d.state = "CLOSED"
  BY DEF Ticked, ConnOK, Conns, Agree, Open, States
<1>. HIDE DEF d
<1>2. ConnOK(d, isn, Rcvd)
  BY <1>1, Agreeing DEF Ticked
<1>3. Dist(isn, conn.snd_nxt) <= Dist(isn, d.snd_nxt)
  BY <1>1 DEF Ticked, Agree
<1>4. Step(d, "idle", pieces, {})
  BY <1>1, <1>2, <1>3 DEF Step, PhaseOK, Loops, Open, Agree, Ticked, Inv, TypeInv
<1>. QED  BY <1>4 DEF d

(* An open connection may be closed.                                       *)
LEMMA MayClose ==
  ASSUME NEW c, ConnOK(c, isn, Rcvd), isn \in Num, c.state \in Open, Dist(isn, c.snd_nxt) <= 3
  PROVE  Closeable(c, isn, Rcvd)
<1>1. c \in Conns /\ c.snd_nxt \in Num /\ c.snd_una \in Num
  BY DEF ConnOK, Conns
<1>2. Dist(isn, c.snd_nxt) \in Nat /\ Dist(isn, c.snd_una) \in Nat
  BY <1>1, DistNat
<1>3. Dist(isn, c.snd_nxt) # 0
  BY <1>2 DEF ConnOK
<1>4. ASSUME c.last # NoSeg PROVE SegOK(c.last, isn, c.port, Dist(isn, c.snd_nxt) + 1)
  <2>1. SegOK(c.last, isn, c.port, Dist(isn, c.snd_nxt))
    BY <1>3, <1>4 DEF ConnOK
  <2>. DEFINE n == Dist(isn, c.snd_nxt)
  <2>2. n \in Nat /\ n + 1 \in Nat /\ n <= n + 1 /\ SegOK(c.last, isn, c.port, n)
    BY <1>2, <2>1
  <2>. HIDE DEF n
  <2>3. SegOK(c.last, isn, c.port, n + 1)
    BY <2>2, SegLater
  <2>. QED  BY <2>3 DEF n
<1>. QED  BY <1>1, <1>4 DEF Closeable, ConnOK

(* Before the SYN has left, nothing has been numbered.                     *)
LEMMA InArp ==
  ASSUME Inv, pc = "arp"
  PROVE  /\ conn.snd_nxt = isn /\ conn.snd_una = isn /\ conn.state = "SYN_SENT"
         /\ Dist(isn, isn) = 0 /\ pieces \in 1..2
<1>1. conn.snd_una = isn /\ Dist(isn, conn.snd_nxt) = 0 /\ conn.state = "SYN_SENT" /\ pieces \in 1..2
  BY DEF Inv, ConnInv, ConnOK, PhaseOK
<1>2. conn.snd_nxt \in Num /\ isn \in Num /\ Dist(isn, isn) = 0
  BY ConnNumbers, DistSelf DEF Conns
<1>3. conn.snd_nxt = isn
  BY <1>1, <1>2, DistDetermines
<1>. QED  BY <1>1, <1>2, <1>3

(* The SYN takes the first number.                                         *)
LEMMA SaysSyn ==
  ASSUME NEW c \in Conns, NEW i \in Num, c.snd_nxt = i
  PROVE  SegOK(Seg(c, {"SYN"}, <<>>), i, c.port, 1)
<1>. DEFINE f == {"SYN"}
            e == <<>>
<1>1. f \in SUBSET Flags /\ "SYN" \in f /\ (c.snd_nxt = i /\ e = <<>>)
  BY DEF Flags
<1>2. e \in Seq(Nat)
  BY EmptySeq
<1>3. 1 = Len(e) + (IF "SYN" \in f \/ "FIN" \in f THEN 1 ELSE 0)
  BY EmptySeq
<1>. HIDE DEF f, e
<1>4. SegOK(Seg(c, f, e), i, c.port, Dist(i, c.snd_nxt) + 1)
  BY <1>1, <1>2, <1>3, NewSeg
<1>5. Dist(i, c.snd_nxt) + 1 = 1
  BY DistSelf
<1>. QED  BY <1>4, <1>5 DEF f, e

(* The SYN leaves when the gateway's address is known or its wait is over. *)
LEMMA ResolvingKeeps ==
  ASSUME Inv, NEW due \in BOOLEAN, NEW late, Resolving(due, late)
  PROVE  Inv'
<1>. DEFINE c == tcp_tick(conn, due)
            s == Seg(conn, {"SYN"}, <<>>)
            d == [c EXCEPT !.snd_nxt = Plus(@, 1)]
<1>1. pc = "arp" /\ UNCHANGED <<arp, rxq, wire, server, isn, overflowed, early, counts>>
  BY DEF Resolving, EndPoll
<1>2. /\ conn.snd_nxt = isn /\ conn.snd_una = isn /\ conn.state = "SYN_SENT"
      /\ Dist(isn, isn) = 0 /\ pieces \in 1..2
  BY <1>1, InArp
<1>3. Ticked(c)
  BY TickSteps
<1>4. /\ Go("connect", d, due, IF arp THEN {s} ELSE {}) \/ Go("arp", c, due, {})
      /\ UNCHANGED <<rxbuf, pieces, again, got>>
  BY DEF Resolving
<1>5. SegOK(s, isn, conn.port, 1)
  BY <1>2, ConnNumbers, SaysSyn
<1>. HIDE DEF c, s
<1>6. c.state = "SYN_SENT" /\ c.last = NoSeg /\ c \in Conns /\ c.snd_nxt = isn /\ c.snd_una = isn
  BY <1>2, <1>3 DEF Ticked, ConnOK
<1>7. Plus(isn, 1) \in Num /\ Dist(isn, Plus(isn, 1)) = 1
  BY <1>2, ConnNumbers, NextNumber
<1>8. /\ d \in Conns /\ d.port = c.port /\ d.state = "SYN_SENT" /\ d.last = NoSeg
      /\ d.snd_nxt = Plus(isn, 1) /\ d.snd_una = isn
  BY <1>6, <1>7 DEF Conns
<1>. HIDE DEF d
<1>9. Step(c, "arp", pieces, {})
  BY <1>1, <1>2, <1>3, <1>6 DEF Step, Ticked, PhaseOK, Loops, Open
<1>10. Step(d, "connect", pieces, IF arp THEN {s} ELSE {})
  <2>1. ConnOK(d, isn, Rcvd)
    BY <1>2, <1>7, <1>8, ConnNumbers DEF ConnOK, Open
  <2>2. PhaseOK("connect", d, isn, pieces)
    BY <1>2, <1>7, <1>8 DEF PhaseOK
  <2>. QED  BY <1>2, <1>3, <1>5, <1>7, <1>8, <2>1, <2>2 DEF Step, Ticked, Loops, Open
<1>11. \E x, to, out : Step(x, to, pieces', out) /\ Go(to, x, due, out)
  BY <1>4, <1>9, <1>10
<1>. QED  BY <1>1, <1>4, <1>11, GoKeeps DEF Inv, TypeInv, Stream

(* The wait of tcp_connect ends with the first piece or without a          *)
(* connection.                                                             *)
LEMMA ConnectingKeeps ==
  ASSUME Inv, NEW due \in BOOLEAN, NEW late \in BOOLEAN, Connecting(due, late)
  PROVE  Inv'
<1>. DEFINE c == tcp_tick(conn, due)
<1>1. /\ pc = "connect" /\ UNCHANGED <<arp, rxq, wire, server, isn, overflowed, early, counts>>
      /\ UNCHANGED <<rxbuf, again, got>>
  BY DEF Connecting, EndPoll
<1>2. Ticked(c)
  BY TickSteps
<1>3. \/ c.state = "ESTABLISHED" /\ SendPiece(c, due)
      \/ Go("idle", [c EXCEPT !.state = "CLOSED"], due, {}) /\ UNCHANGED pieces
      \/ Go("connect", c, due, {}) /\ UNCHANGED pieces
  BY DEF Connecting
<1>. HIDE DEF c
<1>4. CASE c.state = "ESTABLISHED" /\ SendPiece(c, due)
  <2>1. pieces \in 1..2 /\ Dist(isn, c.snd_nxt) = 1 /\ conn.state = "ESTABLISHED"
    BY <1>1, <1>2, <1>4 DEF Inv, ConnInv, PhaseOK, Ticked
  <2>2. c.snd_una = c.snd_nxt
    <3>1. c \in Conns /\ isn \in Num /\ c.snd_una \in Num /\ c.snd_nxt \in Num
      BY <1>2, ConnNumbers DEF Ticked, ConnOK, Conns
    <3>2. 1 <= Dist(isn, c.snd_una) /\ Dist(isn, c.snd_una) <= 1 /\ Dist(isn, c.snd_una) \in Nat
      BY <1>2, <1>4, <2>1, <3>1, DistNat DEF Ticked, ConnOK, Open
    <3>. QED  BY <2>1, <3>1, <3>2, DistDetermines
  <2>3. Dist(isn, c.snd_nxt) + pieces <= 3
    BY <2>1
  <2>4. \E x, to, out : Step(x, to, pieces', out) /\ Go(to, x, due, out)
    BY <1>2, <1>4, <2>1, <2>2, <2>3, PieceSteps DEF Ticked
  <2>. QED  BY <1>1, <2>4, GoKeeps DEF Inv, TypeInv, Stream
<1>5. CASE Go("idle", [c EXCEPT !.state = "CLOSED"], due, {}) /\ UNCHANGED pieces
  <2>1. \E x, to, out : Step(x, to, pieces', out) /\ Go(to, x, due, out)
    BY <1>2, <1>5, DropSteps
  <2>. QED  BY <1>1, <2>1, GoKeeps DEF Inv, TypeInv, Stream
<1>6. CASE Go("connect", c, due, {}) /\ UNCHANGED pieces
  <2>1. \E x, to, out : Step(x, to, pieces', out) /\ Go(to, x, due, out)
    BY <1>1, <1>2, <1>6, StaySteps
  <2>. QED  BY <1>1, <2>1, GoKeeps DEF Inv, TypeInv, Stream
<1>. QED  BY <1>3, <1>4, <1>5, <1>6

(* tcp_close after the timer is a Step.                                    *)
LEMMA TickedCloses ==
  ASSUME Inv, NEW due \in BOOLEAN, NEW c, Ticked(c), Dist(isn, c.snd_nxt) <= 3, Close(c, due), UNCHANGED pieces
  PROVE  \E d, to, out : Step(d, to, pieces', out) /\ Go(to, d, due, out)
<1>1. c.state \in Open => Closeable(c, isn, Rcvd)
  BY ConnNumbers, MayClose DEF Ticked
<1>2. pieces \in 0..2 /\ pieces' = pieces
  BY DEF Inv, TypeInv
<1>3. \E d, to, out : Step(d, to, pieces, out) /\ Go(to, d, due, out)
  BY <1>1, <1>2, CloseSteps DEF Ticked
<1>. QED  BY <1>2, <1>3

(* tcp_send waits for the acknowledgement of the piece before.             *)
LEMMA SendingKeeps ==
  ASSUME Inv, NEW due \in BOOLEAN, NEW late \in BOOLEAN, Sending(due, late)
  PROVE  Inv'
<1>. DEFINE c == tcp_tick(conn, due)
<1>1. /\ pc = "send" /\ UNCHANGED <<arp, rxq, wire, server, isn, overflowed, early, counts>>
      /\ UNCHANGED <<rxbuf, again, got>>
  BY DEF Sending, EndPoll
<1>2. Ticked(c)
  BY TickSteps
<1>3. \/ Ready(c) /\ SendPiece(c, due)
      \/ Close(c, due) /\ UNCHANGED pieces
      \/ Go("send", c, due, {}) /\ UNCHANGED pieces
  BY DEF Sending
<1>. HIDE DEF c
<1>4. /\ pieces \in 1..2 /\ Dist(isn, c.snd_nxt) + pieces <= 3 /\ Dist(isn, c.snd_nxt) <= 3
  <2>1. pieces \in 0..2 /\ pieces >= 1 /\ Dist(isn, c.snd_nxt) + pieces <= 3 /\ Dist(isn, c.snd_nxt) \in Nat
    BY <1>1, <1>2 DEF Inv, TypeInv, ConnInv, PhaseOK, Ticked
  <2>. QED  BY <2>1
<1>5. \E x, to, out : Step(x, to, pieces', out) /\ Go(to, x, due, out)
  <2>1. CASE Ready(c) /\ SendPiece(c, due)
    <3>1. c.state = "ESTABLISHED" /\ conn.state = "ESTABLISHED" /\ c.snd_una = c.snd_nxt
      BY <1>2, <2>1 DEF Ready, Ticked
    <3>. QED  BY <1>2, <1>4, <2>1, <3>1, PieceSteps DEF Ticked
  <2>2. CASE Close(c, due) /\ UNCHANGED pieces
    BY <1>2, <1>4, <2>2, TickedCloses
  <2>3. CASE Go("send", c, due, {}) /\ UNCHANGED pieces
    BY <1>1, <1>2, <2>3, StaySteps
  <2>. QED  BY <1>3, <2>1, <2>2, <2>3
<1>. QED  BY <1>1, <1>5, GoKeeps DEF Inv, TypeInv, Stream

(* A sequence is cut in two.                                               *)
LEMMA CutInTwo ==
  ASSUME NEW S, NEW b \in Seq(S), NEW n \in 0..Len(b)
  PROVE  /\ SubSeq(b, 1, n) \in Seq(S) /\ Len(SubSeq(b, 1, n)) = n
         /\ SubSeq(b, n + 1, Len(b)) \in Seq(S) /\ Len(SubSeq(b, n + 1, Len(b))) = Len(b) - n
         /\ b = SubSeq(b, 1, n) \o SubSeq(b, n + 1, Len(b))
<1>1. Len(b) \in Nat /\ n \in Nat /\ n <= Len(b) /\ \A k \in 1..Len(b) : b[k] \in S
  BY LenProperties, ElementOfSeq
<1>2. SubSeq(b, 1, n) \in Seq(S) /\ Len(SubSeq(b, 1, n)) = n
  BY <1>1, SubSeqProperties
<1>3. SubSeq(b, n + 1, Len(b)) \in Seq(S) /\ Len(SubSeq(b, n + 1, Len(b))) = Len(b) - n
  BY <1>1, SubSeqProperties
<1>4. b = SubSeq(b, 1, n) \o SubSeq(b, n + 1, Len(b))
  <2>1. 1 \in 1..(Len(b) + 1) /\ n \in (1 - 1)..Len(b) /\ Len(b) \in n..Len(b)
    BY <1>1
  <2>2. SubSeq(b, 1, n) \o SubSeq(b, n + 1, Len(b)) = SubSeq(b, 1, Len(b))
    BY <2>1, ConcatAdjacentSubSeq
  <2>3. SubSeq(b, 1, Len(b)) = b
    BY SubSeqFull
  <2>. QED  BY <2>2, <2>3
<1>. QED  BY <1>2, <1>3, <1>4

(* tcp_recv moves bytes from the ring to the caller; the stream is the     *)
(* same.                                                                   *)
LEMMA ReceivingKeeps ==
  ASSUME Inv, NEW due \in BOOLEAN, NEW late \in BOOLEAN, Receiving(due, late)
  PROVE  Inv'
<1>. DEFINE c == tcp_tick(conn, due)
            n == IF Len(rxbuf) < BUF - Len(got) THEN Len(rxbuf) ELSE BUF - Len(got)
<1>1. /\ pc = "recv" /\ UNCHANGED <<arp, rxq, wire, server, isn, overflowed, early, counts>>
      /\ UNCHANGED pieces
  BY DEF Receiving, EndPoll
<1>2. Ticked(c)
  BY TickSteps
<1>3. Close(c, due) \/ Go("recv", c, due, {})
  BY DEF Receiving
<1>. HIDE DEF c
<1>4. Dist(isn, c.snd_nxt) <= 3
  BY <1>1, <1>2 DEF Inv, ConnInv, PhaseOK, Ticked
<1>5. \E x, to, out : Step(x, to, pieces', out) /\ Go(to, x, due, out)
  BY <1>1, <1>2, <1>3, <1>4, TickedCloses, StaySteps
<1>6. /\ rxbuf \in Seq(Byte) /\ Len(rxbuf) < RXBUF /\ Len(rxbuf) \in Nat
      /\ got \in Seq(Byte) /\ Len(got) <= BUF /\ Len(got) \in Nat /\ again \in BOOLEAN
      /\ RXBUF \in Nat /\ BUF \in Nat
  BY LenProperties, Constants DEF Inv, TypeInv
<1>7. /\ got' \in Seq(Byte) /\ Len(got') <= BUF /\ rxbuf' \in Seq(Byte) /\ Len(rxbuf') < RXBUF
      /\ Stream' = Stream /\ again' \in BOOLEAN
  <2>1. CASE rxbuf # <<>>
    <3>1. got' = got \o SubSeq(rxbuf, 1, n) /\ rxbuf' = SubSeq(rxbuf, n + 1, Len(rxbuf)) /\ again' = FALSE
      BY <2>1 DEF Receiving
    <3>2. n \in 0..Len(rxbuf) /\ n \in Nat /\ Len(got) + n <= BUF /\ Len(rxbuf) - n < RXBUF
      BY <1>6
    <3>. DEFINE x == SubSeq(rxbuf, 1, n)
                y == SubSeq(rxbuf, n + 1, Len(rxbuf))
    <3>. HIDE DEF n
    <3>3. x \in Seq(Byte) /\ y \in Seq(Byte) /\ rxbuf = x \o y
      BY <1>6, <3>2, CutInTwo
    <3>4. Len(x) = n /\ Len(y) = Len(rxbuf) - n
      BY <1>6, <3>2, CutInTwo
    <3>5. got' = got \o x /\ rxbuf' = y
      BY <3>1
    <3>6. got \in Seq(Byte)
      BY <1>6
    <3>. HIDE DEF x, y
    <3>7. got' \o y = got \o rxbuf
      <4>. DEFINE S == Byte
      <4>1. got \in Seq(S) /\ x \in Seq(S) /\ y \in Seq(S) /\ rxbuf = x \o y /\ got' = got \o x
        BY <3>3, <3>5, <3>6
      <4>. HIDE DEF S
      <4>. QED  BY <4>1, Regroup
    <3>8. got \o x \in Seq(Byte) /\ Len(got \o x) = Len(got) + n
      BY <3>3, <3>4, <3>6, ConcatProperties
    <3>. QED  BY <3>1, <3>2, <3>3, <3>4, <3>5, <3>7, <3>8 DEF Stream
  <2>2. CASE rxbuf = <<>>
    <3>1. UNCHANGED <<got, rxbuf>> /\ again' = (again \/ late)
      BY <2>2 DEF Receiving
    <3>. QED  BY <1>6, <3>1 DEF Stream
  <2>. QED  BY <2>1, <2>2
<1>. QED  BY <1>1, <1>5, <1>7, GoKeeps

(* The wait of tcp_close gives the slot back.                              *)
LEMMA ClosingKeeps ==
  ASSUME Inv, NEW due \in BOOLEAN, NEW late \in BOOLEAN, Closing(due, late)
  PROVE  Inv'
<1>. DEFINE c == tcp_tick(conn, due)
<1>1. /\ pc = "close" /\ UNCHANGED <<arp, rxq, wire, server, isn, overflowed, early, counts>>
      /\ UNCHANGED <<rxbuf, pieces, again, got>>
  BY DEF Closing, EndPoll
<1>2. Ticked(c)
  BY TickSteps
<1>3. Go("idle", [c EXCEPT !.state = "CLOSED"], due, {}) \/ Go("close", c, due, {})
  BY DEF Closing
<1>. HIDE DEF c
<1>4. \E x, to, out : Step(x, to, pieces', out) /\ Go(to, x, due, out)
  BY <1>1, <1>2, <1>3, DropSteps, StaySteps
<1>. QED  BY <1>1, <1>4, GoKeeps DEF Inv, TypeInv, Stream

(* Every end of a poll keeps the invariant.                                *)
LEMMA LoopKeeps ==
  ASSUME Inv, NEW late \in BOOLEAN, Loop(late)
  PROVE  Inv'
BY ResolvingKeeps, ConnectingKeeps, SendingKeeps, ReceivingKeeps, ClosingKeeps DEF Loop

-----------------------------------------------------------------------------
(* A frame is taken from the queue *)

\* t is what comes first of the answer to the request from port p.
Begins(p, t) == t \in Seq(Byte) /\ \A k \in 1..Len(t) : t[k] = <<p, k>>

(* The next bytes of the answer continue it.                               *)
LEMMA Continues ==
  ASSUME NEW p \in Nat, NEW t, Begins(p, t),
         NEW a \in Nat \ {0}, NEW b \in Nat, a <= b, NEW d, d = Bytes(p, a, b)
  PROVE  a = Len(t) + 1 => Begins(p, t \o d) /\ Len(t \o d) = b
<1>1. t \in Seq(Byte) /\ \A k \in 1..Len(t) : t[k] = <<p, k>>
  BY DEF Begins
<1>2. d \in Seq(Byte) /\ Len(d) = b - a + 1 /\ \A k \in 1..(b - a + 1) : d[k] = <<p, a + k - 1>>
  BY ZenonT(40), BytesAre
<1>. SUFFICES ASSUME a = Len(t) + 1
              PROVE  Begins(p, t \o d) /\ Len(t \o d) = b
  OBVIOUS
<1>3. Len(t) \in Nat
  BY <1>1, LenProperties
<1>4. t \o d \in Seq(Byte)
  BY <1>1, <1>2, ConcatProperties
<1>5. /\ Len(t \o d) = Len(t) + Len(d)
      /\ \A k \in 1..(Len(t) + Len(d)) : (t \o d)[k] = IF k <= Len(t) THEN t[k] ELSE d[k - Len(t)]
  BY <1>1, <1>2, ConcatProperties
<1>6. Len(t) + Len(d) = b
  BY <1>2, <1>3
<1>7. ASSUME NEW k \in 1..b PROVE (t \o d)[k] = <<p, k>>
  <2>1. (t \o d)[k] = IF k <= Len(t) THEN t[k] ELSE d[k - Len(t)]
    BY <1>5, <1>6
  <2>2. CASE k <= Len(t)
    BY <1>1, <1>3, <2>1, <2>2
  <2>3. CASE ~(k <= Len(t))
    <3>1. k - Len(t) \in 1..(b - a + 1) /\ a + (k - Len(t)) - 1 = k
      BY <1>3, <2>3
    <3>. DEFINE j == k - Len(t)
    <3>2. d[j] = <<p, a + j - 1>>
      BY <1>2, <3>1
    <3>. QED  BY <2>1, <2>3, <3>1, <3>2
  <2>. QED  BY <2>2, <2>3
<1>. QED  BY <1>4, <1>5, <1>6, <1>7 DEF Begins

(* What the ring keeps of a segment.                                       *)
LEMMA FitsIs ==
  ASSUME Inv, NEW d \in Seq(Byte)
  PROVE  /\ Fits(d) \in 0..Len(d) /\ rxbuf \o SubSeq(d, 1, Fits(d)) \in Seq(Byte)
         /\ Len(rxbuf \o SubSeq(d, 1, Fits(d))) < RXBUF
         /\ ~(Fits(d) < Len(d)) => SubSeq(d, 1, Fits(d)) = d
<1>1. /\ rxbuf \in Seq(Byte) /\ Len(rxbuf) < RXBUF /\ RXBUF \in Nat /\ Len(rxbuf) \in Nat
      /\ Len(d) \in Nat
  BY Constants, LenProperties DEF Inv, TypeInv
<1>2. Fits(d) \in 0..Len(d) /\ Len(rxbuf) + Fits(d) < RXBUF
  BY <1>1 DEF Fits
<1>. DEFINE n == Fits(d)
            x == SubSeq(d, 1, n)
<1>3. x \in Seq(Byte) /\ Len(x) = n
  <2>. HIDE DEF n
  <2>. QED  BY <1>2, CutInTwo DEF n
<1>4. ~(n < Len(d)) => x = d
  <2>1. ~(n < Len(d)) => n = Len(d)
    BY <1>1, <1>2
  <2>. QED  BY <2>1, SubSeqFull
<1>. HIDE DEF x
<1>5. rxbuf \o x \in Seq(Byte) /\ Len(rxbuf \o x) = Len(rxbuf) + Len(x)
  BY <1>1, <1>3, ConcatProperties
<1>. QED  BY <1>2, <1>3, <1>4, <1>5 DEF x

(* A segment for the connection comes from its server.                     *)
LEMMA ForUs ==
  ASSUME Inv, NEW m \in Range(rxq), m # ArpReply, Matches(m)
  PROVE  /\ Genuine(m) /\ m.port # 0 /\ m.port = conn.port /\ pc # "arp" /\ conn.state # "CLOSED"
         /\ Honest(m, isn, Rcvd) /\ Len(m.data) \in 0..SEQ
<1>1. FrameOK(m) /\ conn.port = requests /\ m.port = conn.port /\ conn.state # "CLOSED"
  BY DEF Inv, FrameInv, ConnInv, Matches
<1>2. Genuine(m) /\ m.port # 0 /\ Answered(m)
  BY <1>1 DEF FrameOK, Inv, ConnInv
<1>3. Honest(m, isn, Rcvd) /\ pc # "arp"
  BY <1>2 DEF Answered, Honest, Rcvd
<1>4. Len(m.data) \in 0..SEQ
  <2>1. CASE m.data = <<>>
    BY <2>1, EmptySeq, Constants
  <2>2. CASE m.data # <<>>
    <3>1. PICK a \in 1..ANSWER : \E b \in a..ANSWER : m.data = Bytes(m.port, a, b)
      BY <1>2, <2>2 DEF Genuine
    <3>2. PICK b \in a..ANSWER : m.data = Bytes(m.port, a, b)
      BY <3>1
    <3>3. a \in Nat \ {0} /\ b \in Nat /\ a <= b /\ m.port \in Nat /\ b <= ANSWER /\ ANSWER < SEQ
      BY <1>1, Constants, ConnNumbers DEF Conns
    <3>4. Len(Bytes(m.port, a, b)) = b - a + 1
      BY <3>3, BytesAre
    <3>. QED  BY <3>2, <3>3, <3>4, Constants
  <2>. QED  BY <2>1, <2>2
<1>. QED  BY <1>1, <1>2, <1>3, <1>4

\* PollFrame, of the segment m that matches.
Takes(m) ==
  /\ LET r == tcp_recv_pkt(conn, m) IN conn' = r.conn /\ sent' = sent \cup r.out
  /\ rxbuf' = IF Delivers(m) THEN rxbuf \o SubSeq(m.data, 1, Fits(m.data)) ELSE rxbuf
  /\ overflowed' = (overflowed \/ (Delivers(m) /\ Fits(m.data) < Len(m.data)))
  /\ early' = (early \/ FinEarly(m))
  /\ UNCHANGED <<pc, pieces, again, got, arp, wire, server, isn, counts>>

(* Bytes are taken only in order, so that they continue the stream.        *)
LEMMA StreamContinues ==
  ASSUME Inv, NEW m \in Range(rxq), m # ArpReply, Matches(m), Takes(m)
  PROVE  StreamInv'
<1>1. /\ Genuine(m) /\ m.port # 0 /\ m.port = conn.port /\ pc # "arp" /\ conn.state # "CLOSED"
      /\ Honest(m, isn, Rcvd) /\ Len(m.data) \in 0..SEQ
  BY ForUs
<1>2. m \in Frames
  BY <1>1 DEF Genuine
<1>3. /\ Received(tcp_recv_pkt(conn, m), conn, isn, Rcvd)
      /\ Taken(tcp_recv_pkt(conn, m), conn, m) /\ conn' = tcp_recv_pkt(conn, m).conn
  BY <1>1, <1>2, ConnNumbers, RecvPkt DEF Takes
<1>4. conn'.port = conn.port
  BY <1>3 DEF Received
<1>. SUFFICES ASSUME ~overflowed', ~early'
              PROVE  /\ Len(Stream') <= ANSWER
                     /\ \A k \in 1..Len(Stream') : Stream'[k] = <<conn.port, k>>
                     /\ conn'.state = "SYN_SENT" => Len(Stream') = 0
                     /\ conn'.state \in Open =>
                          conn'.rcv_nxt \in {Plus(PEER_ISN, Len(Stream') + 1), Plus(PEER_ISN, ANSWER + 2)}
  BY <1>4 DEF StreamInv
<1>5. /\ Len(Stream) <= ANSWER
      /\ \A k \in 1..Len(Stream) : Stream[k] = <<conn.port, k>>
      /\ conn.state = "SYN_SENT" => Len(Stream) = 0
      /\ conn.state \in Open =>
           conn.rcv_nxt \in {Plus(PEER_ISN, Len(Stream) + 1), Plus(PEER_ISN, ANSWER + 2)}
  BY DEF Takes, Inv, StreamInv
<1>6. got \in Seq(Byte) /\ rxbuf \in Seq(Byte) /\ m.data \in Seq(Byte)
  BY <1>2 DEF Inv, TypeInv, Frames
<1>7. Stream \in Seq(Byte) /\ Len(Stream) \in Nat
  BY <1>6, ConcatProperties, LenProperties DEF Stream
<1>8. PEER_ISN \in Num /\ ANSWER \in Nat \ {0} /\ SEQ \in Nat /\ SEQ > ANSWER + 4
  BY Constants
<1>9. CASE Delivers(m)
  <2>1. conn.state \in Open /\ InOrder(conn, m) /\ m.data # <<>> /\ m.seq = conn.rcv_nxt
    BY <1>9 DEF Delivers, InOrder, Open
  <2>2. "FIN" \notin m.flags
    BY <1>1, <2>1 DEF Genuine
  <2>3. PICK a \in 1..ANSWER : \E b \in a..ANSWER :
          m.data = Bytes(m.port, a, b) /\ m.seq = Plus(PEER_ISN, a)
    BY <1>1, <2>1 DEF Genuine
  <2>4. PICK b \in a..ANSWER : m.data = Bytes(conn.port, a, b)
    BY <1>1, <2>3
  <2>5. a = Len(Stream) + 1
    <3>1. Plus(PEER_ISN, a) \in {Plus(PEER_ISN, Len(Stream) + 1), Plus(PEER_ISN, ANSWER + 2)}
      BY <1>5, <2>1, <2>3
    <3>2. a \in Num /\ Len(Stream) + 1 \in Num /\ ANSWER + 2 \in Num /\ a # ANSWER + 2
      BY <1>5, <1>7, <1>8 DEF Num
    <3>. DEFINE l == Len(Stream) + 1
    <3>. HIDE DEF l
    <3>3. Plus(PEER_ISN, a) = Plus(PEER_ISN, l) => a = l
      BY <1>8, <3>2, PlusDetermines DEF l
    <3>4. Plus(PEER_ISN, a) # Plus(PEER_ISN, ANSWER + 2)
      <4>. DEFINE z == ANSWER + 2
      <4>1. z \in Num /\ a # z
        BY <3>2
      <4>. HIDE DEF z
      <4>2. Plus(PEER_ISN, a) # Plus(PEER_ISN, z)
        BY <1>8, <3>2, <4>1, PlusDetermines
      <4>. QED  BY <4>2 DEF z
    <3>. QED  BY <3>1, <3>3, <3>4 DEF l
  <2>6. Stream' = Stream \o m.data
    <3>1. ~(Fits(m.data) < Len(m.data))
      BY <1>9 DEF Takes
    <3>2. SubSeq(m.data, 1, Fits(m.data)) = m.data
      BY <1>6, <3>1, FitsIs
    <3>3. rxbuf' = rxbuf \o m.data /\ got' = got
      BY <1>9, <3>2 DEF Takes
    <3>. DEFINE S == Byte
                d == m.data
    <3>4. got \in Seq(S) /\ rxbuf \in Seq(S) /\ d \in Seq(S)
      BY <1>6
    <3>. HIDE DEF S, d
    <3>5. (got \o rxbuf) \o d = got \o (rxbuf \o d)
      BY <3>4, ConcatAssociative
    <3>. QED  BY <3>3, <3>5 DEF Stream, d
  <2>7. Len(Stream') = b /\ \A k \in 1..b : Stream'[k] = <<conn.port, k>>
    <3>. DEFINE t == Stream
                d == m.data
                p == conn.port
    <3>1. a \in Nat \ {0} /\ b \in Nat /\ a <= b /\ p \in Nat
      BY <1>8, ConnNumbers DEF Conns
    <3>2. Begins(p, t) /\ d = Bytes(p, a, b)
      BY <1>5, <1>7, <2>4 DEF Begins
    <3>3. a = Len(t) + 1
      BY <2>5
    <3>. HIDE DEF t, d, p
    <3>4. a = Len(t) + 1 => Begins(p, t \o d) /\ Len(t \o d) = b
      BY <3>1, <3>2, Continues
    <3>. QED  BY <3>3, <3>4, <2>6 DEF t, d, p, Begins
  <2>8. \/ conn'.rcv_nxt = Plus(PEER_ISN, b + 1) /\ conn'.state # "SYN_SENT"
        \/ conn'.state \notin Open \cup {"SYN_SENT"}
    <3>1. conn'.state # "SYN_SENT"
      BY <1>3, <2>1 DEF Taken, Open
    <3>2. ASSUME conn'.state \in Open PROVE conn'.rcv_nxt = Plus(PEER_ISN, b + 1)
      <4>1. conn'.rcv_nxt = Plus(conn.rcv_nxt, Len(m.data))
        BY <1>3, <2>1, <2>2, <3>2 DEF Taken, Open
      <4>2. Len(m.data) = b - a + 1
        <5>1. a \in Nat \ {0} /\ b \in Nat /\ a <= b /\ conn.port \in Nat
          BY <1>8, ConnNumbers DEF Conns
        <5>2. Len(Bytes(conn.port, a, b)) = b - a + 1
          BY <5>1, BytesAre
        <5>. QED  BY <5>2, <2>4
      <4>. DEFINE n == b - a + 1
      <4>3. a \in 0..SEQ /\ n \in 0..SEQ /\ a + n <= SEQ /\ a + n = b + 1
        BY <1>8
      <4>. HIDE DEF n
      <4>4. Plus(Plus(PEER_ISN, a), n) = Plus(PEER_ISN, a + n)
        BY <1>8, <4>3, PlusPlus
      <4>. QED  BY <2>1, <2>3, <4>1, <4>2, <4>3, <4>4 DEF n
    <3>. QED  BY <3>1, <3>2
  <2>. QED  BY <2>7, <2>8, <1>8
<1>10. CASE ~Delivers(m)
  <2>1. Stream' = Stream
    BY <1>10 DEF Takes, Stream
  <2>2. conn'.state = "SYN_SENT" => Len(Stream) = 0
    BY <1>3, <1>5 DEF Taken
  <2>3. ASSUME conn'.state \in Open
        PROVE  conn'.rcv_nxt \in {Plus(PEER_ISN, Len(Stream) + 1), Plus(PEER_ISN, ANSWER + 2)}
    <3>1. CASE conn.state = "SYN_SENT" /\ "SYN" \in m.flags /\ conn'.rcv_nxt = Plus(m.seq, 1)
      <4>1. m.seq = PEER_ISN /\ Len(Stream) = 0
        BY <1>1, <1>5, <3>1 DEF Genuine
      <4>. QED  BY <3>1, <4>1
    <3>2. CASE conn.state \in Open /\ "RST" \notin m.flags
      <4>1. ~InOrder(conn, m)
        BY <1>10, <3>2 DEF Delivers, Open, Matches
      <4>2. CASE "FIN" \notin m.flags
        BY <1>3, <1>5, <2>3, <3>2, <4>1, <4>2 DEF Taken, Open
      <4>3. CASE "FIN" \in m.flags
        <5>1. conn'.rcv_nxt = Plus(conn.rcv_nxt, 1)
          BY <1>3, <2>3, <3>2, <4>1, <4>3 DEF Taken, Open
        <5>2. m.data = <<>> /\ m.seq = Plus(PEER_ISN, ANSWER + 1)
          BY <1>1, <4>3 DEF Genuine
        <5>3. Plus(m.seq, Len(m.data)) = conn.rcv_nxt
          <6>1. ~FinEarly(m)
            BY DEF Takes
          <6>. QED  BY <3>2, <4>1, <4>3, <6>1 DEF FinEarly
        <5>4. Len(m.data) = 0
          BY <5>2, EmptySeq
        <5>. DEFINE z == ANSWER + 1
        <5>5. z \in 0..SEQ /\ 0 \in 0..SEQ /\ 1 \in 0..SEQ /\ z + 0 <= SEQ /\ z + 1 <= SEQ
              /\ z + 0 = z /\ z + 1 = ANSWER + 2
          BY <1>8
        <5>. HIDE DEF z
        <5>6. Plus(Plus(PEER_ISN, z), 0) = Plus(PEER_ISN, z + 0) /\ Plus(Plus(PEER_ISN, z), 1) = Plus(PEER_ISN, z + 1)
          BY <1>8, <5>5, PlusPlus
        <5>. QED  BY <5>1, <5>2, <5>3, <5>4, <5>5, <5>6 DEF z
      <4>. QED  BY <4>2, <4>3
    <3>. QED  BY <1>3, <2>3, <3>1, <3>2 DEF Taken
  <2>. QED  BY <2>1, <2>2, <2>3, <1>5
<1>. QED  BY <1>9, <1>10

(* Taking a frame keeps the invariant.                                     *)
LEMMA PollFrameKeeps ==
  ASSUME Inv, PollFrame
  PROVE  Inv'
<1>. DEFINE m == Head(rxq)
<1>1. /\ pc # "idle" /\ rxq # <<>> /\ rxq' = Tail(rxq)
      /\ UNCHANGED <<pc, pieces, again, got, wire, server, isn, requests, frames>>
  BY DEF PollFrame, counts
<1>2. /\ rxq \in Seq(Frames \cup {ArpReply}) /\ Len(rxq) < SLOTS /\ Len(rxq) \in Nat /\ SLOTS \in Nat
  BY LenProperties, Constants DEF Inv, TypeInv
<1>3. /\ m \in Range(rxq) /\ Range(rxq') \subseteq Range(rxq)
  BY <1>1, <1>2, HeadTailRange
<1>4. rxq' \in Seq(Frames \cup {ArpReply}) /\ Len(rxq') < SLOTS
  <2>1. rxq' \in Seq(Frames \cup {ArpReply}) /\ Len(rxq') = Len(rxq) - 1
    BY <1>1, <1>2, HeadTailProperties
  <2>. QED  BY <1>2, <2>1
<1>5. FrameInv'
  <2>1. \A f \in wire' \cup Range(rxq') : FrameOK(f)
    BY <1>1, <1>3 DEF Inv, FrameInv
  <2>. QED  BY <1>1, <2>1 DEF FrameInv, FrameOK, Answered
<1>6. Rcvd' = Rcvd
  BY <1>1 DEF Rcvd
<1>7. CASE m = ArpReply
  <2>1. arp' = TRUE /\ UNCHANGED <<conn, rxbuf, sent, overflowed, early>>
    BY <1>7 DEF PollFrame
  <2>2. TypeInv'
    BY <1>1, <1>4, <2>1 DEF Inv, TypeInv
  <2>3. ConnInv' /\ SentInv' /\ ServerInv' /\ StreamInv'
    BY <1>1, <1>6, <2>1 DEF Inv, ConnInv, SentInv, ServerInv, StreamInv, Stream
  <2>. QED  BY <1>5, <2>2, <2>3 DEF Inv
<1>8. CASE m # ArpReply /\ ~Matches(m)
  <2>1. ~Delivers(m) /\ ~FinEarly(m)
    BY <1>8 DEF Delivers, FinEarly
  <2>2. UNCHANGED <<arp, conn, rxbuf, sent>> /\ overflowed' = (overflowed \/ FALSE) /\ early' = (early \/ FALSE)
    BY <1>8, <2>1 DEF PollFrame
  <2>3. UNCHANGED <<overflowed, early>>
    BY <2>2 DEF Inv, TypeInv
  <2>4. TypeInv'
    BY <1>1, <1>4, <2>2, <2>3 DEF Inv, TypeInv
  <2>5. ConnInv' /\ SentInv' /\ ServerInv' /\ StreamInv'
    BY <1>1, <1>6, <2>2, <2>3 DEF Inv, ConnInv, SentInv, ServerInv, StreamInv, Stream
  <2>. QED  BY <1>5, <2>4, <2>5 DEF Inv
<1>9. CASE m # ArpReply /\ Matches(m)
  <2>1. Takes(m)
    BY <1>1, <1>9 DEF PollFrame, Takes
  <2>2. StreamInv'
    BY <1>3, <1>9, <2>1, StreamContinues
  <2>3. /\ Genuine(m) /\ m.port # 0 /\ m.port = conn.port /\ pc # "arp" /\ conn.state # "CLOSED"
        /\ Honest(m, isn, Rcvd) /\ Len(m.data) \in 0..SEQ
    BY <1>3, <1>9, ForUs
  <2>. DEFINE x == tcp_recv_pkt(conn, m)
  <2>4. conn' = x.conn /\ sent' = sent \cup x.out /\ m \in Frames
    BY <2>1, <2>3 DEF Takes, Genuine
  <2>5. Received(x, conn, isn, Rcvd)
    BY <2>3, <2>4, ConnNumbers, RecvPkt
  <2>. HIDE DEF x
  <2>6. /\ ConnOK(conn', isn, Rcvd) /\ conn'.port = conn.port /\ conn'.snd_nxt = conn.snd_nxt
        /\ \A s \in x.out : SegOK(s, isn, conn.port, Dist(isn, conn.snd_nxt))
    BY <2>4, <2>5 DEF Received
  <2>7. ConnInv'
    BY <1>1, <1>6, <2>3, <2>6 DEF Inv, ConnInv, PhaseOK
  <2>8. SentInv'
    BY <1>1, <2>3, <2>4, <2>6 DEF Inv, SentInv, ConnInv
  <2>9. ServerInv'
    BY <1>1, <1>6, <2>6 DEF Inv, ServerInv
  <2>10. TypeInv'
    <3>1. rxbuf' \in Seq(Byte) /\ Len(rxbuf') < RXBUF
      <4>1. m.data \in Seq(Byte)
        BY <2>4 DEF Frames
      <4>2. rxbuf \o SubSeq(m.data, 1, Fits(m.data)) \in Seq(Byte)
            /\ Len(rxbuf \o SubSeq(m.data, 1, Fits(m.data))) < RXBUF
        BY <4>1, FitsIs
      <4>3. rxbuf \in Seq(Byte) /\ Len(rxbuf) < RXBUF
        BY DEF Inv, TypeInv
      <4>. QED  BY <2>1, <4>2, <4>3 DEF Takes
    <3>2. overflowed' \in BOOLEAN /\ early' \in BOOLEAN /\ arp' = arp
      BY <2>1 DEF Takes
    <3>. QED  BY <1>1, <1>4, <3>1, <3>2 DEF Inv, TypeInv
  <2>. QED  BY <1>5, <2>2, <2>7, <2>8, <2>9, <2>10 DEF Inv
<1>. QED  BY <1>7, <1>8, <1>9

(* The interrupt handler only repeats what is on the wire.                 *)
LEMMA ArriveKeeps ==
  ASSUME Inv, NEW m \in wire, Arrive(m)
  PROVE  Inv'
<1>1. /\ rxq' = Append(rxq, m) /\ frames' = frames + 1 /\ Len(rxq) < SLOTS - 1
      /\ UNCHANGED <<conn, rxbuf, pc, pieces, again, got, arp, wire, sent, server, isn, overflowed, early, requests>>
  BY DEF Arrive, client
<1>2. /\ rxq \in Seq(Frames \cup {ArpReply}) /\ m \in Frames \cup {ArpReply} /\ SLOTS \in Nat
      /\ Len(rxq) \in Nat
  BY LenProperties, Constants DEF Inv, TypeInv
<1>3. rxq' \in Seq(Frames \cup {ArpReply}) /\ Len(rxq') < SLOTS
  <2>1. rxq' \in Seq(Frames \cup {ArpReply}) /\ Len(rxq') = Len(rxq) + 1
    BY <1>1, <1>2, AppendProperties
  <2>. QED  BY <1>1, <1>2, <2>1
<1>4. Range(rxq') = Range(rxq) \cup {m}
  BY <1>1, <1>2, AppendRange
<1>5. TypeInv'
  BY <1>1, <1>3 DEF Inv, TypeInv
<1>6. FrameInv'
  <2>1. \A f \in wire' \cup Range(rxq') : FrameOK(f)
    BY <1>1, <1>4 DEF Inv, FrameInv
  <2>. QED  BY <1>1, <2>1 DEF FrameInv, FrameOK, Answered
<1>7. ConnInv' /\ SentInv' /\ ServerInv' /\ StreamInv'
  BY <1>1 DEF Inv, ConnInv, SentInv, ServerInv, StreamInv, Stream, Rcvd
<1>. QED  BY <1>5, <1>6, <1>7 DEF Inv

-----------------------------------------------------------------------------
(* The server *)

\* The server becomes o and puts the frames `out' on the wire.
Replies(o, out) ==
  /\ o \in Servers
  /\ o.state = "listen" => o.nxt = PEER_ISN
  /\ o.state \in {"open", "answered"} => o.nxt # PEER_ISN
  /\ server.nxt # PEER_ISN =>
       o.nxt # PEER_ISN /\ Dist(isn, server.rcv_nxt) <= Dist(isn, o.rcv_nxt)
  /\ o.nxt # PEER_ISN =>
       1 <= Dist(isn, o.rcv_nxt) /\ Dist(isn, o.rcv_nxt) <= Dist(isn, conn.snd_nxt)
  /\ \A f \in out :
       /\ Genuine(f) /\ f.port = requests
       /\ "ACK" \in f.flags => o.nxt # PEER_ISN /\ f.ack = o.rcv_nxt

(* A server that moves forward and acknowledges what it has received keeps *)
(* the invariant.                                                          *)
LEMMA RepliesKeep ==
  ASSUME Inv, pc # "arp", NEW o, NEW out, Replies(o, out), server' = o, wire' = wire \cup out,
         UNCHANGED <<client, arp, rxq, sent, isn, overflowed, early, counts>>
  PROVE  Inv'
<1>1. UNCHANGED <<conn, rxbuf, pc, pieces, again, got, arp, rxq, sent, isn, overflowed, early, requests, frames>>
  BY DEF client, counts
<1>2. /\ server.rcv_nxt \in Num /\ o.rcv_nxt \in Num /\ isn \in Num
  BY ConnNumbers DEF Inv, ServerInv, Servers, Replies
<1>3. /\ Dist(isn, server.rcv_nxt) \in Nat /\ Dist(isn, o.rcv_nxt) \in Nat
  BY <1>2, DistNat
<1>4. Rcvd' = IF o.nxt = PEER_ISN THEN 0 ELSE Dist(isn, o.rcv_nxt)
  BY <1>1 DEF Rcvd
<1>5. Rcvd' \in Nat /\ Rcvd <= Rcvd' /\ Rcvd' <= Dist(isn, conn.snd_nxt)
  BY <1>3, <1>4, ConnNumbers DEF Replies, Rcvd
<1>6. TypeInv'
  BY <1>1 DEF Inv, TypeInv, Replies, Genuine
<1>7. ConnInv'
  <2>1. ConnOK(conn, isn, Rcvd')
    <3>. DEFINE r == Rcvd'
    <3>1. Dist(isn, conn.snd_una) <= r
      BY <1>5, ConnNumbers DEF ConnOK
    <3>. HIDE DEF r
    <3>. QED  BY <3>1, ConnNumbers DEF ConnOK, r
  <2>. QED  BY <1>1, <2>1 DEF Inv, ConnInv
<1>8. SentInv'
  BY <1>1 DEF Inv, SentInv
<1>9. ServerInv'
  BY <1>1, <1>5 DEF ServerInv, Replies
<1>10. FrameInv'
  <2>1. ASSUME NEW f \in wire \cup Range(rxq) PROVE FrameOK(f)'
    <3>1. FrameOK(f)
      BY DEF Inv, FrameInv
    <3>2. ASSUME Answered(f), f \in Frames PROVE Answered(f)'
      <4>1. Dist(isn, f.ack) \in Nat
        BY <1>2, <3>2, DistNat DEF Frames
      <4>. QED  BY <1>1, <1>3, <3>2, <4>1 DEF Answered, Replies
    <3>. QED  BY <1>1, <3>1, <3>2 DEF FrameOK, Genuine
  <2>2. ASSUME NEW f \in out PROVE FrameOK(f)'
    <3>1. Genuine(f) /\ f.port = requests
      BY DEF Replies
    <3>2. requests <= requests
      BY ConnNumbers DEF Conns
    <3>3. "ACK" \in f.flags => 1 <= Dist(isn, f.ack) /\ Dist(isn, f.ack) <= Dist(isn, o.rcv_nxt)
      BY <1>3 DEF Replies
    <3>4. Answered(f)'
      BY <1>1, <3>3 DEF Answered, Replies
    <3>. QED  BY <1>1, <3>1, <3>2, <3>4 DEF FrameOK
  <2>. QED  BY <1>1, <2>1, <2>2 DEF FrameInv
<1>11. StreamInv'
  <2>1. Stream' = Stream
    BY <1>1 DEF Stream
  <2>2. StreamInv
    BY DEF Inv
  <2>. QED  BY <1>1, <2>1, <2>2 DEF StreamInv
<1>. QED  BY <1>6, <1>7, <1>8, <1>9, <1>10, <1>11 DEF Inv

(* A segment of the server without a payload that says neither SYN nor FIN.*)
LEMMA BareFrame ==
  ASSUME NEW p \in Nat, NEW s, s.nxt \in Num, s.rcv_nxt \in Num, NEW f \in {"ACK", "RST"}
  PROVE  LET m == FromServer(p, s, {f}, <<>>)
         IN  Genuine(m) /\ m.port = p /\ m.flags = {f} /\ m.ack = s.rcv_nxt
<1>. DEFINE m == FromServer(p, s, {f}, <<>>)
<1>1. /\ m.port = p /\ m.flags = {f} /\ m.ack = s.rcv_nxt /\ m.data = <<>>
  BY DEF FromServer
<1>2. <<>> \in Seq(Byte)
  BY EmptySeq
<1>3. m \in Frames
  BY <1>2 DEF FromServer, Frames, Flags
<1>4. "SYN" \notin m.flags /\ "FIN" \notin m.flags
  BY <1>1
<1>. HIDE DEF m
<1>5. Genuine(m)
  BY <1>1, <1>3, <1>4 DEF Genuine
<1>. QED  BY <1>1, <1>5 DEF m

(* The pieces of the answer and the FIN are numbered as they should be.    *)
LEMMA AnswerGenuine ==
  ASSUME NEW p \in Nat, NEW t \in Servers, t.nxt = Plus(PEER_ISN, 1), NEW cuts \in SUBSET (1..(ANSWER - 1)),
         NEW f \in WholeAnswer(p, t, cuts)
  PROVE  Genuine(f) /\ f.port = p /\ f.ack = t.rcv_nxt
<1>. DEFINE ends == { c \in cuts : c < ANSWER } \cup {ANSWER}
            below(e) == {0} \cup { c \in ends : c < e }
            from(e) == 1 + Max(below(e))
            at(k) == [t EXCEPT !.nxt = Plus(@, k)]
<1>1. ANSWER \in Nat \ {0} /\ SEQ \in Nat /\ SEQ > ANSWER + 4 /\ PEER_ISN \in Num
  BY Constants
<1>2. ASSUME NEW k \in 0..ANSWER
      PROVE  /\ at(k).nxt = Plus(PEER_ISN, k + 1) /\ at(k).rcv_nxt = t.rcv_nxt
             /\ at(k).nxt \in Num /\ at(k).rcv_nxt \in Num
  <2>1. at(k).nxt = Plus(t.nxt, k) /\ at(k).rcv_nxt = t.rcv_nxt /\ t.rcv_nxt \in Num
    BY DEF Servers
  <2>2. 1 \in 0..SEQ /\ k \in 0..SEQ /\ 1 + k <= SEQ /\ k + 1 \in 0..SEQ /\ 1 + k = k + 1
    BY <1>1
  <2>3. Plus(Plus(PEER_ISN, 1), k) = Plus(PEER_ISN, 1 + k)
    BY <1>1, <2>2, PlusPlus
  <2>4. Plus(PEER_ISN, k + 1) \in Num
    BY <1>1, <2>2, PlusIs
  <2>. QED  BY <2>1, <2>2, <2>3, <2>4
<1>3. CASE f = FromServer(p, at(ANSWER), {"ACK", "FIN"}, <<>>)
  <2>. DEFINE s == at(ANSWER)
  <2>1. s.nxt = Plus(PEER_ISN, ANSWER + 1) /\ s.rcv_nxt = t.rcv_nxt /\ s.nxt \in Num /\ s.rcv_nxt \in Num
    BY <1>1, <1>2
  <2>. HIDE DEF s
  <2>2. /\ f.port = p /\ f.flags = {"ACK", "FIN"} /\ f.ack = t.rcv_nxt /\ f.data = <<>> /\ f.seq = s.nxt
    BY <1>3, <2>1 DEF FromServer, s
  <2>3. <<>> \in Seq(Byte)
    BY EmptySeq
  <2>4. f \in Frames
    BY <1>3, <2>1, <2>3 DEF FromServer, Frames, Flags, s
  <2>. QED  BY <2>1, <2>2, <2>4 DEF Genuine
<1>4. \A c \in ends : c \in 1..ANSWER
  <2>1. ASSUME NEW c \in ends PROVE c \in 1..ANSWER
    BY <1>1
  <2>. HIDE DEF ends
  <2>. QED  BY <2>1
<1>5. CASE \E e \in ends : f = FromServer(p, at(from(e) - 1), {"ACK"}, Bytes(p, from(e), e))
  <2>1. PICK e \in ends : f = FromServer(p, at(from(e) - 1), {"ACK"}, Bytes(p, from(e), e))
    BY <1>5
  <2>2. e \in 1..ANSWER
    BY <1>1
  <2>3. Max(below(e)) \in below(e)
    <3>. DEFINE T == below(e)
    <3>1. T \subseteq 0..ANSWER /\ T # {} /\ ANSWER \in Nat
      <4>1. 0 \in T /\ T = {0} \cup { c \in ends : c < e }
        OBVIOUS
      <4>. HIDE DEF ends, T
      <4>2. \A c \in T : c \in 0..ANSWER
        BY <1>1, <1>4, <4>1
      <4>. QED  BY <1>1, <4>1, <4>2
    <3>. HIDE DEF T
    <3>2. Max(T) \in T
      BY <3>1, MaxIs
    <3>. QED  BY <3>2 DEF T
  <2>. DEFINE a == from(e)
  <2>4. a \in 1..ANSWER /\ a <= e /\ a - 1 \in 0..ANSWER /\ (a - 1) + 1 = a
    <3>. DEFINE x == Max(below(e))
    <3>1. x \in 0..ANSWER /\ x < e
      <4>1. x \in {0} \cup { c \in ends : c < e }
        BY <2>3
      <4>. HIDE DEF ends, x
      <4>. QED  BY <1>1, <1>4, <2>2, <4>1
    <3>2. a = 1 + x
      OBVIOUS
    <3>. HIDE DEF x, a
    <3>. QED  BY <3>1, <3>2, <2>2, <1>1
  <2>5. f = FromServer(p, at(a - 1), {"ACK"}, Bytes(p, a, e))
    BY <2>1
  <2>. HIDE DEF a
  <2>. DEFINE s == at(a - 1)
              d == Bytes(p, a, e)
  <2>6. s.nxt = Plus(PEER_ISN, a) /\ s.rcv_nxt = t.rcv_nxt /\ s.nxt \in Num /\ s.rcv_nxt \in Num
    BY <1>2, <2>4
  <2>7. d \in Seq(Byte)
    <3>1. a \in Nat \ {0} /\ e \in Nat /\ a <= e
      BY <2>2, <2>4
    <3>. QED  BY <3>1, BytesAre
  <2>8. d = Bytes(p, a, e) /\ f = FromServer(p, s, {"ACK"}, d)
    BY <2>5
  <2>. HIDE DEF s, d
  <2>9. f.port = p /\ f.flags = {"ACK"} /\ f.ack = s.rcv_nxt /\ f.data = d /\ f.seq = s.nxt
    BY <2>8 DEF FromServer
  <2>10. f \in Frames
    BY <2>6, <2>7, <2>8 DEF FromServer, Frames, Flags
  <2>11. "SYN" \notin f.flags /\ "FIN" \notin f.flags
    BY <2>9
  <2>12. e \in a..ANSWER /\ f.data = Bytes(f.port, a, e) /\ f.seq = Plus(PEER_ISN, a)
    BY <2>2, <2>4, <2>6, <2>8, <2>9
  <2>. QED  BY <2>4, <2>6, <2>9, <2>10, <2>11, <2>12 DEF Genuine
<1>. QED  BY <1>3, <1>5 DEF WholeAnswer

(* Every reaction of the server to a segment of the client keeps the       *)
(* invariant.                                                              *)
LEMMA ServerTakesKeeps ==
  ASSUME Inv, NEW m \in sent, ServerTakes(m)
  PROVE  Inv'
<1>. DEFINE p == m.port
            s == server
            n == Len(m.data) + (IF "FIN" \in m.flags THEN 1 ELSE 0)
            o == [s EXCEPT !.state = "open", !.rcv_nxt = Plus(m.seq, 1), !.nxt = Plus(@, 1)]
            t == [s EXCEPT !.rcv_nxt = Plus(@, n)]
            SynAck == [FromServer(p, s, {"SYN", "ACK"}, <<>>) EXCEPT !.ack = o.rcv_nxt]
            Does(new, out) == server' = new /\ wire' = wire \cup out
            N == Dist(isn, conn.snd_nxt)
            x == Dist(isn, m.seq)
<1>1. UNCHANGED <<client, arp, rxq, sent, isn, overflowed, early, counts>> /\ pc # "arp"
  BY DEF ServerTakes, Inv, SentInv
<1>2. SegOK(m, isn, requests, N) /\ N \in Nat /\ N <= 4 /\ isn \in Num /\ requests \in Nat
  BY ConnNumbers DEF Inv, SentInv, ConnInv, ConnOK, Conns
<1>3. m \in Segs /\ p = requests /\ m.seq \in Num
  BY <1>2 DEF SegOK, Segs
<1>4. x \in Nat /\ Weight(m) \in Nat /\ x + Weight(m) <= N
  BY <1>2, <1>3, DistNat, WeightIs DEF SegOK
<1>5. /\ s \in Servers /\ s.rcv_nxt \in Num /\ s.nxt \in {PEER_ISN, Plus(PEER_ISN, 1)}
      /\ s.state = "listen" => s.nxt = PEER_ISN
      /\ s.state \in {"open", "answered"} => s.nxt # PEER_ISN
      /\ s.nxt # PEER_ISN => 1 <= Dist(isn, s.rcv_nxt) /\ Dist(isn, s.rcv_nxt) <= N
  BY DEF Inv, ServerInv, Servers, Rcvd
<1>6. Dist(isn, s.rcv_nxt) \in Nat
  BY <1>2, <1>5, DistNat
<1>7. /\ PEER_ISN \in Num /\ Plus(PEER_ISN, 1) \in Num /\ Plus(PEER_ISN, 1) # PEER_ISN /\ s.nxt \in Num
      /\ 1 \in 0..SEQ /\ SEQ \in Nat /\ SEQ > 5
  <2>1. PEER_ISN \in Num /\ 1 \in 0..SEQ /\ SEQ \in Nat /\ SEQ > 5
    BY Constants
  <2>2. Plus(PEER_ISN, 1) \in Num /\ Plus(PEER_ISN, 1) = IF PEER_ISN + 1 < SEQ THEN PEER_ISN + 1 ELSE PEER_ISN + 1 - SEQ
    BY <2>1, PlusIs
  <2>. QED  BY <2>1, <2>2, <1>5 DEF Num
<1>8. \/ "SYN" \in m.flags /\ s.state = "listen" /\ Does(o, {SynAck})
      \/ /\ n > 0 /\ s.state \in {"open", "answered"} /\ m.seq = s.rcv_nxt
         /\ \/ Does(t, {FromServer(p, t, {"ACK"}, <<>>)})
            \/ \E cuts \in SUBSET (1..(ANSWER - 1)) :
                 Does([t EXCEPT !.state = "answered"],
                      {FromServer(p, t, {"ACK"}, <<>>)} \cup WholeAnswer(p, t, cuts))
      \/ Does([s EXCEPT !.state = "reset"], {FromServer(p, s, {"RST"}, <<>>)})
  BY DEF ServerTakes
<1>. HIDE DEF s, n, x, N
<1>9. CASE "SYN" \in m.flags /\ s.state = "listen" /\ Does(o, {SynAck})
  <2>1. m.seq = isn /\ 1 <= N
    BY <1>2, <1>3, <1>4, <1>9, WeightIs, LenProperties DEF SegOK, Segs
  <2>2. Plus(isn, 1) \in Num /\ Dist(isn, Plus(isn, 1)) = 1
    <3>1. Dist(isn, isn) = 0
      BY <1>2, DistSelf
    <3>. QED  BY <1>2, <3>1, NextNumber
  <2>3. /\ o \in Servers /\ o.state = "open" /\ o.rcv_nxt = Plus(isn, 1) /\ o.nxt = Plus(PEER_ISN, 1)
    BY <1>5, <1>9, <2>1, <2>2 DEF Servers
  <2>. HIDE DEF o
  <2>4. SynAck.port = p /\ SynAck.flags = {"SYN", "ACK"} /\ SynAck.seq = PEER_ISN /\ SynAck.ack = o.rcv_nxt
        /\ SynAck.data = <<>>
    BY <1>5, <1>9 DEF FromServer
  <2>5. SynAck \in Frames
    <3>1. <<>> \in Seq(Byte)
      BY EmptySeq
    <3>. QED  BY <1>2, <1>3, <1>5, <1>7, <2>2, <2>3, <3>1 DEF FromServer, Frames, Flags
  <2>6. Genuine(SynAck)
    <3>1. "FIN" \notin SynAck.flags
      BY <2>4
    <3>. QED  BY <2>4, <2>5, <3>1 DEF Genuine
  <2>. HIDE DEF SynAck
  <2>7. Replies(o, {SynAck})
    BY <1>3, <1>5, <1>7, <1>9, <2>1, <2>2, <2>3, <2>4, <2>6 DEF Replies, N, s
  <2>8. server' = o /\ wire' = wire \cup {SynAck}
    BY <1>9
  <2>. QED  BY <1>1, <2>7, <2>8, RepliesKeep
<1>10. CASE Does([s EXCEPT !.state = "reset"], {FromServer(p, s, {"RST"}, <<>>)})
  <2>. DEFINE r == [s EXCEPT !.state = "reset"]
              f == FromServer(p, s, {"RST"}, <<>>)
  <2>1. r \in Servers /\ r.state = "reset" /\ r.rcv_nxt = s.rcv_nxt /\ r.nxt = s.nxt
    BY <1>5 DEF Servers
  <2>2. Genuine(f) /\ f.port = p /\ f.flags = {"RST"}
    BY <1>2, <1>3, <1>5, <1>7, BareFrame
  <2>3. server' = r /\ wire' = wire \cup {f}
    BY <1>10
  <2>. HIDE DEF r, f
  <2>4. Replies(r, {f})
    BY <1>3, <1>5, <1>6, <2>1, <2>2 DEF Replies, N, s
  <2>. QED  BY <1>1, <2>3, <2>4, RepliesKeep
<1>11. ASSUME n > 0, s.state \in {"open", "answered"}, m.seq = s.rcv_nxt,
              \/ Does(t, {FromServer(p, t, {"ACK"}, <<>>)})
              \/ \E cuts \in SUBSET (1..(ANSWER - 1)) :
                   Does([t EXCEPT !.state = "answered"],
                        {FromServer(p, t, {"ACK"}, <<>>)} \cup WholeAnswer(p, t, cuts))
       PROVE  Inv'
  <2>. DEFINE f == FromServer(p, t, {"ACK"}, <<>>)
              w == [t EXCEPT !.state = "answered"]
  <2>1. n \in Nat /\ x + n <= N
    <3>. DEFINE l == Len(m.data)
    <3>1. m.data \in Seq(Nat)
      BY <1>3 DEF Segs
    <3>2. l \in Nat
      BY <3>1, LenProperties
    <3>3. /\ "FIN" \in m.flags => Weight(m) = l + 1
          /\ "FIN" \notin m.flags => Weight(m) >= l
      BY <1>3, <3>2, WeightIs
    <3>4. n = l + (IF "FIN" \in m.flags THEN 1 ELSE 0)
      BY DEF n
    <3>. HIDE DEF l
    <3>5. n \in Nat /\ n <= Weight(m)
      BY <1>4, <3>2, <3>3, <3>4
    <3>. QED  BY <1>2, <1>4, <3>5
  <2>2. Plus(s.rcv_nxt, n) \in Num /\ Dist(isn, Plus(s.rcv_nxt, n)) = Dist(isn, s.rcv_nxt) + n
    <3>1. n \in 0..SEQ /\ Dist(isn, s.rcv_nxt) + n < SEQ
      BY <1>2, <1>6, <1>7, <1>11, <2>1 DEF x
    <3>. QED  BY <1>2, <1>5, <3>1, PlusIs, DistPlus
  <2>3. /\ t \in Servers /\ t.state = s.state /\ t.rcv_nxt = Plus(s.rcv_nxt, n) /\ t.nxt = Plus(PEER_ISN, 1)
    BY <1>5, <1>11, <2>2 DEF Servers
  <2>. HIDE DEF t
  <2>4. /\ w \in Servers /\ w.state = "answered" /\ w.rcv_nxt = t.rcv_nxt /\ w.nxt = t.nxt
    BY <2>3 DEF Servers
  <2>. HIDE DEF w
  <2>5. Genuine(f) /\ f.port = p /\ f.ack = t.rcv_nxt
    BY <1>2, <1>3, <1>7, <2>2, <2>3, BareFrame
  <2>. HIDE DEF f
  <2>6. /\ Dist(isn, s.rcv_nxt) <= Dist(isn, t.rcv_nxt) /\ 1 <= Dist(isn, t.rcv_nxt)
        /\ Dist(isn, t.rcv_nxt) <= N
    BY <1>2, <1>5, <1>6, <1>11, <2>1, <2>2, <2>3 DEF x
  <2>7. CASE Does(t, {f})
    <3>1. Replies(t, {f})
      BY <1>3, <1>5, <1>7, <1>11, <2>3, <2>5, <2>6 DEF Replies, N, s
    <3>2. server' = t /\ wire' = wire \cup {f}
      BY <2>7
    <3>. QED  BY <1>1, <3>1, <3>2, RepliesKeep
  <2>8. ASSUME NEW cuts \in SUBSET (1..(ANSWER - 1)), Does(w, {f} \cup WholeAnswer(p, t, cuts))
        PROVE  Inv'
    <3>. DEFINE out == {f} \cup WholeAnswer(p, t, cuts)
    <3>1. \A g \in WholeAnswer(p, t, cuts) : Genuine(g) /\ g.port = p /\ g.ack = t.rcv_nxt
      BY <1>2, <1>3, <2>3, AnswerGenuine
    <3>2. \A g \in out : Genuine(g) /\ g.port = requests /\ g.ack = w.rcv_nxt
      BY <1>3, <2>4, <2>5, <3>1
    <3>3. server' = w /\ wire' = wire \cup out
      BY <2>8
    <3>. HIDE DEF out
    <3>4. Replies(w, out)
      BY <1>5, <1>7, <2>3, <2>4, <2>6, <3>2 DEF Replies, N, s
    <3>. QED  BY <1>1, <3>3, <3>4, RepliesKeep
  <2>. QED  BY <1>11, <2>7, <2>8 DEF f, w
<1>. QED  BY <1>8, <1>9, <1>10, <1>11

-----------------------------------------------------------------------------
(* A new request *)

(* A request starts from nothing: no frame on the wire has its port.       *)
LEMMA ConnectKeeps ==
  ASSUME Inv, NEW i \in ISNs, NEW n \in 1..2, Connect(i, n)
  PROVE  Inv'
<1>. DEFINE c == [NoConn EXCEPT !.state = "SYN_SENT", !.port = requests + 1,
                                !.snd_nxt = i, !.snd_una = i]
            s == Seg(c, {"SYN"}, <<>>)
            d == Save(c, s)
            e == [d EXCEPT !.snd_nxt = Plus(i, 1)]
            x == conn'
<1>1. /\ pieces' = n /\ isn' = i /\ requests' = requests + 1
      /\ rxbuf' = <<>> /\ got' = <<>> /\ again' = FALSE
      /\ server' = Listening /\ overflowed' = FALSE /\ early' = FALSE
      /\ UNCHANGED <<arp, rxq, wire, frames>>
      /\ \/ arp /\ x = e /\ sent' = {s} /\ pc' = "connect"
         \/ ~arp /\ x = d /\ sent' = {} /\ pc' = "arp"
  BY DEF Connect
<1>2. i \in Num /\ 0 \in Num /\ requests \in Nat /\ requests + 1 \in Nat /\ requests + 1 # 0
  BY Constants, TcpAssumption DEF Num, Inv, TypeInv
<1>3. /\ Dist(i, i) = 0 /\ Plus(i, 1) \in Num /\ Dist(i, Plus(i, 1)) = 1
  <2>1. Dist(i, i) = 0
    BY <1>2, DistSelf
  <2>. QED  BY <1>2, <2>1, NextNumber
<1>4. /\ c \in Conns /\ c.state = "SYN_SENT" /\ c.port = requests + 1 /\ c.snd_nxt = i /\ c.snd_una = i
  <2>1. 0 \in 0..RETRIES
    BY TcpAssumption
  <2>2. NoConn \in Conns
    BY <1>2, <2>1 DEF NoConn, Conns, States
  <2>. QED  BY <1>2, <2>2 DEF Conns, States
<1>. HIDE DEF c
<1>5. SegOK(s, i, requests + 1, 1) /\ s \in Segs
  <2>1. SegOK(s, i, requests + 1, 1)
    BY <1>2, <1>4, SaysSyn
  <2>. QED  BY <2>1 DEF SegOK
<1>. HIDE DEF s
<1>6. /\ d \in Conns /\ d.state = "SYN_SENT" /\ d.port = requests + 1 /\ d.last = s
      /\ d.snd_nxt = i /\ d.snd_una = i
  <2>1. 0 \in 0..RETRIES
    BY TcpAssumption
  <2>. QED  BY <1>4, <1>5, <2>1 DEF Save, Conns
<1>. HIDE DEF d
<1>7. /\ e \in Conns /\ e.state = "SYN_SENT" /\ e.port = requests + 1 /\ e.last = s
      /\ e.snd_nxt = Plus(i, 1) /\ e.snd_una = i
  BY <1>3, <1>6 DEF Conns
<1>. HIDE DEF e
<1>8. Rcvd' = 0
  BY <1>1 DEF Rcvd, Listening
<1>9. /\ x \in Conns /\ x.state = "SYN_SENT" /\ x.port = requests + 1 /\ x.last = s /\ x.snd_una = i
      /\ Dist(i, x.snd_nxt) = IF arp THEN 1 ELSE 0
      /\ ~arp => x.snd_nxt = i
  BY <1>1, <1>3, <1>6, <1>7
<1>10. TypeInv'
  <2>1. <<>> \in Seq(Byte)
    BY EmptySeq
  <2>2. Len(<<>>) < RXBUF /\ Len(<<>>) <= BUF
    BY EmptySeq, Constants
  <2>3. pieces' \in 0..2 /\ pc' \in {"idle", "arp", "connect", "send", "recv", "close"}
    BY <1>1
  <2>. QED  BY <1>1, <1>2, <2>1, <2>2, <2>3 DEF Inv, TypeInv
<1>11. ConnInv'
  <2>1. ConnOK(x, i, 0)
    BY <1>3, <1>5, <1>9 DEF ConnOK, Open
  <2>2. PhaseOK(pc', x, i, n)
    BY <1>1, <1>9 DEF PhaseOK
  <2>. QED  BY <1>1, <1>2, <1>8, <1>9, <2>1, <2>2 DEF ConnInv
<1>12. SentInv'
  BY <1>1, <1>5, <1>9 DEF SentInv
<1>13. ServerInv'
  <2>1. server' = Listening /\ Listening \in Servers /\ Listening.nxt = PEER_ISN /\ Listening.state = "listen"
    BY <1>1, <1>2 DEF Listening, Servers
  <2>. QED  BY <1>1, <1>8, <1>9, <2>1 DEF ServerInv
<1>14. FrameInv'
  <2>1. ASSUME NEW m \in wire \cup Range(rxq) PROVE FrameOK(m)'
    <3>1. FrameOK(m)
      BY DEF Inv, FrameInv
    <3>2. m # ArpReply => m.port \in Nat
      BY <3>1 DEF FrameOK, Genuine, Frames
    <3>. QED  BY <1>1, <1>2, <3>1, <3>2 DEF FrameOK, Genuine
  <2>. QED  BY <1>1, <2>1 DEF FrameInv
<1>15. StreamInv'
  <2>1. Stream' = <<>> \o <<>>
    BY <1>1 DEF Stream
  <2>2. Stream' = <<>>
    BY <2>1, ConcatEmptySeq, EmptySeq
  <2>3. Len(<<>>) = 0 /\ Len(<<>>) <= ANSWER
    BY EmptySeq, Constants
  <2>. QED  BY <1>9, <2>2, <2>3 DEF StreamInv, Open
<1>. QED  BY <1>10, <1>11, <1>12, <1>13, <1>14, <1>15 DEF Inv

-----------------------------------------------------------------------------
(* Every behaviour *)

(* What an earlier connection has left on the wire are frames of port 0.   *)
LEMMA StaleFrames ==
  ASSUME NEW m \in Stale
  PROVE  m \in Frames /\ m.port = 0
<1>. DEFINE frame(f, d) == [port |-> 0, flags |-> f, seq |-> Plus(PEER_ISN, 1), ack |-> 0, data |-> d]
            b == Bytes(0, 1, 1)
            e == <<>>
<1>1. e \in Seq(Byte)
  BY EmptySeq
<1>2. b \in Seq(Byte)
  BY BytesAre
<1>3. Plus(PEER_ISN, 1) \in Num /\ 0 \in Num
  <2>1. PEER_ISN \in Num /\ 1 \in 0..SEQ
    BY Constants
  <2>. QED  BY <2>1, PlusIs, Constants DEF Num
<1>4. m = frame({"RST"}, e) \/ m = frame({"ACK", "FIN"}, b)
  BY DEF Stale
<1>. HIDE DEF b, e
<1>. QED  BY <1>1, <1>2, <1>3, <1>4 DEF Frames, Flags

(* The invariant holds at the start, without a connection.                 *)
LEMMA InitInv == Init => Inv
<1>. SUFFICES ASSUME Init
              PROVE  Inv
  OBVIOUS
<1>1. /\ conn = NoConn /\ pc = "idle" /\ pieces = 0 /\ again = FALSE /\ arp \in BOOLEAN
      /\ sent = {} /\ server = Listening /\ isn = 0 /\ overflowed = FALSE /\ early = FALSE
      /\ requests = 0 /\ frames = 0
  BY DEF Init
<1>2. rxbuf = <<>> /\ got = <<>> /\ rxq = <<>>
  BY DEF Init
<1>3. 0 \in Num /\ Dist(0, 0) = 0
  <2>1. 0 \in Num
    BY Constants DEF Num
  <2>. QED  BY <2>1, DistSelf
<1>4. conn \in Conns
  <2>1. 0 \in 0..RETRIES
    BY TcpAssumption
  <2>. QED  BY <1>1, <1>3, <2>1 DEF NoConn, Conns, States
<1>5. /\ conn.state = "CLOSED" /\ conn.port = 0 /\ conn.snd_nxt = 0 /\ conn.snd_una = 0
      /\ conn.last = NoSeg
  BY <1>1 DEF NoConn
<1>6. /\ server \in Servers /\ server.nxt = PEER_ISN /\ server.state = "listen"
  BY <1>1, <1>3 DEF Listening, Servers
<1>7. Rcvd = 0
  BY <1>6 DEF Rcvd
<1>8. ASSUME NEW m \in wire \cup Range(rxq) PROVE m = ArpReply \/ (m \in Frames /\ m.port = 0)
  <2>1. Range(rxq) = {}
    BY <1>2 DEF Range
  <2>2. wire = {ArpReply} \/ wire = Stale
    BY DEF Init
  <2>. QED  BY <2>1, <2>2, StaleFrames
<1>9. TypeInv
  <2>1. rxbuf \in Seq(Byte) /\ got \in Seq(Byte) /\ rxq \in Seq(Frames \cup {ArpReply})
    BY <1>2, EmptySeq
  <2>2. Len(rxbuf) < RXBUF /\ Len(got) <= BUF /\ Len(rxq) < SLOTS
    BY <1>2, EmptySeq, Constants
  <2>3. wire \subseteq Frames \cup {ArpReply}
    BY <1>8
  <2>4. 0 \in 0..2 /\ 0 \in Nat /\ {FALSE, arp} \subseteq BOOLEAN
    BY <1>1
  <2>. QED  BY <1>1, <1>3, <2>1, <2>2, <2>3, <2>4 DEF TypeInv
<1>10. ConnInv
  BY <1>1, <1>3, <1>4, <1>5, <1>7 DEF ConnInv, ConnOK, PhaseOK, Open
<1>11. SentInv
  BY <1>1 DEF SentInv
<1>12. ServerInv
  BY <1>1, <1>3, <1>5, <1>6, <1>7 DEF ServerInv
<1>13. FrameInv
  BY <1>1, <1>8 DEF FrameInv, FrameOK, Genuine
<1>14. StreamInv
  <2>1. Stream = <<>>
    BY <1>2, EmptySeq, ConcatEmptySeq DEF Stream
  <2>2. Len(<<>>) = 0 /\ 0 <= ANSWER
    BY EmptySeq, Constants
  <2>. QED  BY <1>5, <2>1, <2>2 DEF StreamInv, Open
<1>. QED  BY <1>9, <1>10, <1>11, <1>12, <1>13, <1>14 DEF Inv

(* Every step keeps the invariant, and so does none.                       *)
LEMMA StepInv == Inv /\ [Next]_vars => Inv'
<1>. SUFFICES ASSUME Inv, [Next]_vars
              PROVE  Inv'
  OBVIOUS
<1>1. CASE \E i \in ISNs, n \in 1..2 : Connect(i, n)
  BY <1>1, ConnectKeeps
<1>2. CASE PollFrame
  BY <1>2, PollFrameKeeps
<1>3. CASE \E late \in BOOLEAN : Loop(late)
  BY <1>3, LoopKeeps
<1>4. CASE \E m \in wire : Arrive(m)
  BY <1>4, ArriveKeeps
<1>5. CASE \E m \in sent : ServerTakes(m)
  BY <1>5, ServerTakesKeeps
<1>6. CASE UNCHANGED vars
  <2>1. UNCHANGED <<conn, rxbuf, pc, pieces, again, got, arp, rxq, wire, sent, server,
                    isn, overflowed, early, requests, frames>>
    BY <1>6 DEF vars, client, counts
  <2>2. TypeInv' /\ Rcvd' = Rcvd /\ Stream' = Stream
    BY <2>1 DEF Inv, TypeInv, Rcvd, Stream
  <2>3. ConnInv' /\ SentInv' /\ ServerInv'
    BY <2>1, <2>2 DEF Inv, ConnInv, SentInv, ServerInv
  <2>4. FrameInv'
    BY <2>1 DEF Inv, FrameInv, FrameOK, Answered
  <2>5. StreamInv'
    BY <2>1, <2>2 DEF Inv, StreamInv
  <2>. QED  BY <2>2, <2>3, <2>4, <2>5 DEF Inv
<1>. QED  BY <1>1, <1>2, <1>3, <1>4, <1>5, <1>6 DEF Next

(* The invariant holds in every behaviour: the connection's numbers, what  *)
(* is kept for retransmission, what the server has received, the frames on *)
(* the wire and the bytes taken fit together.                              *)
THEOREM Invariance == Spec => []Inv
<1>. QED  BY InitInv, StepInv, PTL DEF Spec

(* Stop-and-wait: while a connection is open, what is not acknowledged is  *)
(* exactly the segment kept for retransmission (tcp_send waits for         *)
(* snd_una = snd_nxt and tcp_tick drops last_seg when they are equal).     *)
THEOREM ResendableHolds == Spec => []Resendable
<1>1. Inv => Resendable
  <2>. SUFFICES ASSUME Inv, conn.state \in Open, conn.snd_una # conn.snd_nxt
                PROVE  /\ conn.last # NoSeg /\ conn.last.seq = conn.snd_una
                       /\ Plus(conn.last.seq, Len(conn.last.data)) = conn.snd_nxt
    BY DEF Resendable, Open
  <2>. DEFINE n == Dist(isn, conn.snd_nxt)
              u == Dist(isn, conn.snd_una)
  <2>1. /\ n \in Nat /\ u \in Nat /\ u <= n /\ n <= u + 1 /\ n <= 4
        /\ conn.last # NoSeg /\ conn.last.seq = conn.snd_una /\ Len(conn.last.data) = 1
    BY ConnNumbers DEF ConnOK
  <2>2. isn \in Num /\ conn.snd_nxt \in Num /\ conn.snd_una \in Num
    BY ConnNumbers DEF Conns
  <2>3. n # u
    BY <2>2, DistDetermines
  <2>4. n = u + 1 /\ u <= 3
    BY <2>1, <2>3
  <2>5. Plus(conn.snd_una, 1) \in Num /\ Dist(isn, Plus(conn.snd_una, 1)) = n
    BY <2>2, <2>4, NextNumber
  <2>6. Plus(conn.snd_una, 1) = conn.snd_nxt
    BY <2>2, <2>5, DistDetermines
  <2>. QED  BY <2>1, <2>6
<1>. QED  BY <1>1, Invariance, PTL

(* What the client takes as acknowledged has reached the server: no late,  *)
(* repeated or foreign frame makes tcp_recv_pkt move snd_una past it.      *)
THEOREM AckedWasReceived == Spec => []AckedIsReceived
<1>1. Inv => AckedIsReceived
  BY ConnNumbers DEF ConnOK, AckedIsReceived, Rcvd
<1>. QED  BY <1>1, Invariance, PTL

(* What the caller of tcp_recv has and will get is a prefix of the server's*)
(* answer to this request, until the ring has overflowed or a FIN has been *)
(* accepted ahead of data.                                                 *)
THEOREM StreamIsPrefix == Spec => []StreamPrefix
<1>1. Inv => StreamPrefix
  <2>. SUFFICES ASSUME Inv, ~overflowed, ~early
                PROVE  IsPrefix(Stream, Answer(conn.port))
    BY DEF StreamPrefix, Stream, Inv, TypeInv
  <2>. DEFINE t == Stream
              a == Answer(conn.port)
              n == Len(t)
  <2>1. t \in Seq(Byte)
    BY ConcatProperties DEF Stream, Inv, TypeInv
  <2>2. n \in Nat /\ n <= ANSWER /\ \A k \in 1..n : t[k] = <<conn.port, k>>
    BY <2>1, LenProperties DEF Inv, StreamInv, TypeInv
  <2>3. ANSWER \in Nat
    BY Constants
  <2>4. a \in Seq(Byte) /\ Len(a) = ANSWER /\ \A k \in 1..ANSWER : a[k] = <<conn.port, k>>
    <3>1. conn.port \in Nat
      BY ConnNumbers DEF Conns
    <3>2. a = Bytes(conn.port, 1, ANSWER)
      BY <2>3 DEF Answer, Bytes
    <3>. HIDE DEF a
    <3>3. 1 \in Nat \ {0} /\ 1 <= ANSWER /\ ANSWER - 1 + 1 = ANSWER /\ \A k \in Nat : 1 + k - 1 = k
      BY Constants
    <3>4. /\ a \in Seq(Byte) /\ Len(a) = ANSWER - 1 + 1
          /\ \A k \in 1..(ANSWER - 1 + 1) : a[k] = <<conn.port, 1 + k - 1>>
      BY <2>3, <3>1, <3>2, <3>3, BytesAre
    <3>5. ASSUME NEW k \in 1..ANSWER PROVE a[k] = <<conn.port, k>>
      BY <3>3, <3>4
    <3>. QED  BY <3>3, <3>4, <3>5
  <2>. HIDE DEF t, a
  <2>5. SubSeq(t, 1, n) = SubSeq(a, 1, n)
    <3>1. n <= Len(a)
      BY <2>2, <2>4
    <3>2. ASSUME NEW k \in 1..n PROVE t[k] = a[k]
      <4>1. k \in 1..ANSWER
        BY <2>2, <2>3
      <4>. HIDE DEF n
      <4>. QED  BY <2>2, <2>4, <4>1
    <3>. QED  BY <2>1, <2>2, <2>4, <3>1, <3>2, SameBeginning
  <2>. QED  BY <2>2, <2>4, <2>5 DEF IsPrefix, t, a
<1>. QED  BY <1>1, Invariance, PTL

(* The client's variables have their types, the receive queue and the ring *)
(* never run over and a segment is sent again at most RETRIES times.       *)
THEOREM TypeCorrect == Spec => []TypeOK
<1>1. Inv => TypeOK
  BY ConnNumbers DEF Inv, TypeInv, TypeOK, Conns, States, Num
<1>. QED  BY <1>1, Invariance, PTL
=============================================================================
