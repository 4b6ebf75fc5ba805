---------------------------- MODULE Names_proofs ----------------------------
(***************************************************************************)
(* Proofs about the receive path of the network card and the resolver on   *)
(* it, for rings, queues, tables and caches of every size, any number of   *)
(* frames and queries, and whatever the network loses, repeats or delays.  *)
(*                                                                         *)
(* The ring is empty, or its units are those of the frames the driver has  *)
(* not read, end to end: RingHolds lays them out with the position of each *)
(* frame.  The distance of two places round a ring decides everything, so  *)
(* that is what the first lemmas are about.  A frame that did not reach    *)
(* the end of the ring is there as it was on the wire; of one that did     *)
(* only the header is known to be where the driver looks.                  *)
(***************************************************************************)
EXTENDS Names, DataLemmas

\* What frames may carry, and what there is in memory and in the queues.
Srcs  == Hosts \cup {"none"}
Datas == { Address(n) : n \in HostNames } \cup {"none", "nxdomain"}
Frame == [kind : {"none", "answer", "arp"}, src : Srcs, txid : Nat, data : Datas, at : Nat]
Cell == [frame : Nat, part : Nat]
Packet == [id : Nat, units : [1..1 -> Cell] \cup [1..2 -> Cell] \cup {<<>>}]
Datagram == [txid : Nat, data : Datas \cup {"junk"}, whole : BOOLEAN]

Cells == 0..(NET_RX_BUF_SIZE - 1)
Memory == 0..(NET_RX_BUF_SIZE + 1)
Queue == 0..(NET_RXQUEUE_SLOTS - 1)

\* Frame j of w is in memory where the card put it.
Laid(c, w, j) == /\ c[w[j].at] = Part(j, 0)
                 /\ Crossed(w[j]) \/ \A i \in 1..Content(w[j]) : c[w[j].at + i] = Part(j, i)

\* The n units from o on are what w has behind its k-th frame, frame j at p[j].
RingHolds(c, o, w, k, p, n) ==
  /\ k \in 0..Len(w) /\ p \in [1..(Len(w) + 1) -> Nat]
  /\ p[k + 1] = 0 /\ p[Len(w) + 1] = n
  /\ \A j \in (k + 1)..Len(w) :
       /\ p[j + 1] = p[j] + Units(w[j])
       /\ \A l \in (j + 1)..(Len(w) + 1) : p[j] + Units(w[j]) <= p[l]
       /\ w[j].at = Ring(o + p[j]) /\ Laid(c, w, j)

\* p is the packet of a frame of w, as it was on the wire unless it crossed.
Copies(p, w) == Crossed(w[p.id]) \/ Intact(p)

\* The n slots from h on are copies of frames among the first k of w, in order.
QueueHolds(q, h, n, w, k) ==
  /\ \A i \in 0..(n - 1) : q[Slot(h + i)].id \in 1..k /\ Copies(q[Slot(h + i)], w)
  /\ \A i \in 0..(n - 1) : \A j \in 0..(n - 1) : i < j => q[Slot(h + i)].id < q[Slot(h + j)].id

NicType ==
  /\ cells \in [Memory -> Cell] /\ cbr \in Cells /\ g_rx_offset \in Cells
  /\ rxq \in [Queue -> Packet] /\ g_rxq_head \in Queue /\ g_rxq_tail \in Queue
  /\ hold \in Packet
  /\ wire \in Seq(Frame)

NicInv ==
  /\ NicType
  /\ \E k \in 0..Len(wire) :
       /\ \E p \in [1..(Len(wire) + 1) -> Nat] : RingHolds(cells, g_rx_offset, wire, k, p, InRing)
       /\ QueueHolds(rxq, g_rxq_head, Length, wire, k)
  /\ hold # NoPacket => Queued /\ hold = rxq[g_rxq_head]

-----------------------------------------------------------------------------
(* Counting round a ring of N places.                                      *)

\* The remainder of what is less than twice N.
LEMMA Mod ==
  ASSUME NEW N \in Nat \ {0}, NEW x \in Int, 0 <= x, x < N + N
  PROVE  x % N = IF x < N THEN x ELSE x - N
OBVIOUS

\* n places on from a.
LEMMA TurnIs ==
  ASSUME NEW N \in Nat \ {0}, NEW a \in 0..(N - 1), NEW n \in 0..N
  PROVE  (a + n) % N \in 0..(N - 1) /\ (a + n) % N = IF a + n < N THEN a + n ELSE a + n - N
<1>. DEFINE s == a + n
<1>1. s \in Int /\ 0 <= s /\ s < N + N
  OBVIOUS
<1>2. s % N = IF s < N THEN s ELSE s - N
  <2>. HIDE DEF s
  <2>. QED  BY <1>1, Mod
<1>. QED  BY <1>1, <1>2

\* m places on and then n more are m + n places on.
LEMMA TurnTurn ==
  ASSUME NEW N \in Nat \ {0}, NEW a \in 0..(N - 1), NEW m \in 0..N, NEW n \in 0..N, m + n <= N
  PROVE  (((a + m) % N) + n) % N = (a + (m + n)) % N
<1>. DEFINE y == (a + m) % N
<1>1. y \in 0..(N - 1) /\ y = IF a + m < N THEN a + m ELSE a + m - N
  BY TurnIs
<1>. HIDE DEF y
<1>2. (y + n) % N = IF y + n < N THEN y + n ELSE y + n - N
  BY <1>1, TurnIs
<1>3. m + n \in 0..N
  OBVIOUS
<1>4. (a + (m + n)) % N = IF a + (m + n) < N THEN a + (m + n) ELSE a + (m + n) - N
  BY <1>3, TurnIs
<1>5. (y + n) % N = (a + (m + n)) % N
  BY <1>1, <1>2, <1>4
<1>. QED  BY <1>5 DEF y

\* Places at different distances are different.
LEMMA TurnApart ==
  ASSUME NEW N \in Nat \ {0}, NEW a \in 0..(N - 1), NEW m \in 0..(N - 1), NEW n \in 0..(N - 1),
         (a + m) % N = (a + n) % N
  PROVE  m = n
<1>1. m \in 0..N /\ n \in 0..N
  OBVIOUS
<1>2. (a + m) % N = IF a + m < N THEN a + m ELSE a + m - N
  BY <1>1, TurnIs
<1>3. (a + n) % N = IF a + n < N THEN a + n ELSE a + n - N
  BY <1>1, TurnIs
<1>4. (IF a + m < N THEN a + m ELSE a + m - N) = (IF a + n < N THEN a + n ELSE a + n - N)
  BY <1>2, <1>3
<1>. QED  BY <1>4

\* How far it is from a to b.
LEMMA GapIs ==
  ASSUME NEW N \in Nat \ {0}, NEW a \in 0..(N - 1), NEW b \in 0..(N - 1)
  PROVE  /\ (b - a + N) % N \in 0..(N - 1)
         /\ (a + ((b - a + N) % N)) % N = b
         /\ (b - a + N) % N = 0 <=> a = b
<1>. DEFINE s == b - a + N
            g == s % N
<1>1. s \in Int /\ 0 <= s /\ s < N + N
  OBVIOUS
<1>2. g = IF s < N THEN s ELSE s - N
  <2>. HIDE DEF s
  <2>. QED  BY <1>1, Mod
<1>3. g \in 0..(N - 1) /\ (g = 0 <=> a = b) /\ g \in 0..N
  BY <1>2
<1>4. (a + g) % N = b
  <2>1. g = IF b < a THEN b - a + N ELSE b - a
    BY <1>2
  <2>. HIDE DEF g
  <2>2. (a + g) % N = IF a + g < N THEN a + g ELSE a + g - N
    BY <1>3, TurnIs
  <2>. QED  BY <2>1, <2>2
<1>. QED  BY <1>3, <1>4

\* The distance is the only one.
LEMMA GapOf ==
  ASSUME NEW N \in Nat \ {0}, NEW a \in 0..(N - 1), NEW n \in 0..(N - 1)
  PROVE  (((a + n) % N) - a + N) % N = n
<1>. DEFINE b == (a + n) % N
            g == (b - a + N) % N
<1>1. n \in 0..N
  OBVIOUS
<1>2. b \in 0..(N - 1)
  BY <1>1, TurnIs
<1>3. g \in 0..(N - 1) /\ (a + g) % N = b
  <2>. HIDE DEF b
  <2>1. g \in 0..(N - 1)
    BY <1>2, GapIs
  <2>2. (a + ((b - a + N) % N)) % N = b
    BY <1>2, GapIs
  <2>. QED  BY <2>1, <2>2
<1>4. (a + g) % N = (a + n) % N
  BY <1>3
<1>. HIDE DEF g
<1>5. g = n
  BY <1>3, <1>4, TurnApart
<1>. QED  BY <1>5 DEF g

\* What the assumption says of the sizes.
LEMMA Sizes ==
  /\ NET_RX_BUF_SIZE \in Nat \ {0} /\ NET_RX_BUF_SIZE > 3
  /\ NET_RXQUEUE_SLOTS \in Nat \ {0} /\ NET_RXQUEUE_SLOTS > 1
BY NicAssumption

-----------------------------------------------------------------------------
(* Frames                                                                  *)

\* A frame fills two units or three.
LEMMA UnitsAre == \A f : Units(f) \in {2, 3} /\ Content(f) \in {1, 2} /\ Units(f) = Content(f) + 1
BY DEF Units, Content

\* What the card has accepted are frames.
LEMMA FrameOf == ASSUME NEW w \in Seq(Frame), NEW j \in 1..Len(w) PROVE w[j] \in Frame
BY LenProperties

-----------------------------------------------------------------------------
(* The ring                                                                *)

\* A frame is written behind the others, and if need be behind the ring.
LEMMA RingGrows ==
  ASSUME NEW c \in [Memory -> Cell], NEW o \in Cells, NEW w \in Seq(Frame), NEW k, NEW p,
         NEW n \in Nat, RingHolds(c, o, w, k, p, n), NEW g \in Frame,
         n + Units(g) < NET_RX_BUF_SIZE, NEW b, b = Ring(o + n), g.at = b,
         NEW d, d = [a \in Memory |-> IF a \in b..(b + Units(g) - 1) THEN Part(Len(w) + 1, a - b) ELSE c[a]]
  PROVE  \E q \in [1..(Len(Append(w, g)) + 1) -> Nat] :
           RingHolds(d, o, Append(w, g), k, q, n + Units(g))
<1>. DEFINE u == Units(g)
            N == NET_RX_BUF_SIZE
            W == Append(w, g)
            q == [j \in 1..(Len(w) + 2) |-> IF j <= Len(w) + 1 THEN p[j] ELSE n + u]
<1>1. N \in Nat \ {0} /\ N > 3 /\ u \in {2, 3} /\ Len(w) \in Nat /\ o \in 0..(N - 1)
  BY Sizes, UnitsAre, LenProperties DEF Cells
<1>2. W \in Seq(Frame) /\ Len(W) = Len(w) + 1 /\ W[Len(w) + 1] = g /\ \A j \in 1..Len(w) : W[j] = w[j]
  BY AppendProperties
<1>3. /\ k \in 0..Len(w) /\ p \in [1..(Len(w) + 1) -> Nat] /\ p[k + 1] = 0 /\ p[Len(w) + 1] = n
      /\ \A j \in (k + 1)..Len(w) :
           /\ p[j + 1] = p[j] + Units(w[j])
           /\ \A l \in (j + 1)..(Len(w) + 1) : p[j] + Units(w[j]) <= p[l]
           /\ w[j].at = Ring(o + p[j]) /\ Laid(c, w, j)
  BY DEF RingHolds
<1>4. \A m \in 0..N : Ring(o + m) \in 0..(N - 1)
  BY <1>1, TurnIs DEF Ring
<1>5. b \in 0..(N - 1)
  <2>1. n \in 0..N
    BY <1>1
  <2>. QED  BY <1>4, <2>1
<1>6. ASSUME NEW m \in 0..(n - 1), NEW x \in 0..(u - 1), b + x < N PROVE Ring(o + m) # b + x
  <2>1. x \in 0..N /\ n \in 0..N /\ n + x <= N /\ n + x \in 0..(N - 1) /\ m \in 0..(N - 1) /\ m # n + x
    BY <1>1
  <2>2. b + x = Ring(b + x)
    <3>. HIDE DEF u, N
    <3>1. (b + x) % N = IF b + x < N THEN b + x ELSE b + x - N
      BY <1>1, <1>5, <2>1, TurnIs
    <3>. QED  BY <1>6, <3>1 DEF Ring, N
  <2>3. Ring(b + x) = Ring(o + (n + x))
    <3>. HIDE DEF u, N
    <3>1. (((o + n) % N) + x) % N = (o + (n + x)) % N
      BY <1>1, <2>1, TurnTurn
    <3>. QED  BY <3>1 DEF Ring, N
  <2>4. Ring(o + m) # Ring(o + (n + x))
    <3>. DEFINE e == n + x
    <3>. HIDE DEF e, N, u
    <3>1. e \in 0..(N - 1) /\ m # e
      BY <2>1 DEF e
    <3>2. (o + m) % N # (o + e) % N
      BY <1>1, <2>1, <3>1, TurnApart
    <3>. QED  BY <3>2 DEF Ring, N, e
  <2>. QED  BY <2>2, <2>3, <2>4
<1>7. ASSUME NEW m \in 0..(n - 1) PROVE d[Ring(o + m)] = c[Ring(o + m)]
  <2>. DEFINE a == Ring(o + m)
  <2>1. a \in 0..(N - 1) /\ a \in Memory
    <3>1. m \in 0..N
      BY <1>1
    <3>2. a \in 0..(N - 1)
      BY <1>4, <3>1
    <3>. HIDE DEF a
    <3>. QED  BY <1>1, <3>2 DEF Memory
  <2>2. a \notin b..(b + u - 1)
    <3>. SUFFICES ASSUME a \in b..(b + u - 1) PROVE FALSE
      OBVIOUS
    <3>1. a - b \in 0..(u - 1) /\ b + (a - b) = a /\ a < N
      <4>. HIDE DEF a, u
      <4>. QED  BY <1>1, <1>5, <2>1
    <3>2. Ring(o + m) # b + (a - b)
      BY <1>6, <3>1
    <3>. QED  BY <3>1, <3>2
  <2>. HIDE DEF a
  <2>3. d[a] = c[a]
    BY <2>1, <2>2
  <2>. QED  BY <2>3 DEF a
<1>8. \A m \in 0..(u - 1) : d[b + m] = Part(Len(w) + 1, m)
  <2>1. ASSUME NEW m \in 0..(u - 1) PROVE d[b + m] = Part(Len(w) + 1, m)
    <3>. DEFINE y == b + m
    <3>1. y \in Memory /\ y \in b..(b + u - 1) /\ y - b = m
      BY <1>1, <1>5 DEF Memory
    <3>. HIDE DEF u, y
    <3>2. d[y] = Part(Len(w) + 1, y - b)
      BY <3>1 DEF u
    <3>. QED  BY <3>1, <3>2 DEF y
  <2>. QED  BY <2>1
<1>9. Len(w) + 1 \in 1..Len(W) /\ Laid(d, W, Len(w) + 1)
  <2>1. 0 \in 0..(u - 1) /\ \A i \in 1..Content(g) : i \in 0..(u - 1)
    BY UnitsAre
  <2>2. b + 0 = b
    BY <1>5
  <2>. HIDE DEF u, W
  <2>3. d[b] = Part(Len(w) + 1, 0)
    BY <1>8, <2>1, <2>2
  <2>4. \A i \in 1..Content(g) : d[b + i] = Part(Len(w) + 1, i)
    BY <1>8, <2>1
  <2>. DEFINE e == Len(w) + 1
  <2>5. W[e] = g /\ g.at = b /\ e \in 1..Len(W)
    BY <1>1, <1>2
  <2>6. d[b] = Part(e, 0) /\ \A i \in 1..Content(g) : d[b + i] = Part(e, i)
    BY <2>3, <2>4
  <2>. HIDE DEF e
  <2>7. e \in 1..Len(W) /\ Laid(d, W, e)
    BY <2>5, <2>6 DEF Laid
  <2>. QED  BY <2>7 DEF e
<1>10. ASSUME NEW j \in (k + 1)..Len(w) PROVE Laid(d, W, j)
  <2>. DEFINE v == Units(w[j])
              a == w[j].at
  <2>1. v \in {2, 3} /\ p[j] \in Nat /\ p[j] + v <= n /\ a = Ring(o + p[j]) /\ Laid(c, w, j)
    <3>1. Len(w) + 1 \in (j + 1)..(Len(w) + 1) /\ j \in 1..(Len(w) + 1)
      BY <1>1, <1>3
    <3>. QED  BY <1>3, <3>1, UnitsAre
  <2>2. p[j] \in 0..(n - 1) /\ n < N
    <3>. HIDE DEF v
    <3>. QED  BY <1>1, <2>1
  <2>3. W[j] = w[j]
    <3>1. j \in 1..Len(w)
      BY <1>1, <1>3
    <3>. QED  BY <1>2, <3>1
  <2>4. d[a] = c[a]
    BY <1>7, <2>1, <2>2
  <2>5. ASSUME ~Crossed(w[j]), NEW i \in 1..Content(w[j]) PROVE d[a + i] = c[a + i]
    <3>1. i \in 0..(v - 1) /\ a + v <= N /\ a \in 0..(N - 1)
      <4>1. p[j] \in 0..N
        BY <1>1, <2>2
      <4>2. a \in 0..(N - 1) /\ v \in Nat /\ Content(w[j]) + 1 = v /\ Content(w[j]) \in Nat
        BY <1>4, <2>1, <4>1, UnitsAre
      <4>3. ~(a + v > N)
        BY <2>5 DEF Crossed
      <4>. HIDE DEF a, v, N
      <4>. QED  BY <1>1, <4>2, <4>3
    <3>2. p[j] + i \in 0..(n - 1) /\ p[j] \in 0..N /\ i \in 0..N /\ p[j] + i <= N /\ a + i < N
      <4>1. p[j] \in Nat /\ n \in Nat /\ N \in Nat /\ n < N /\ p[j] + v <= n /\ v \in Nat
        BY <1>1, <2>1, <2>2
      <4>2. a \in Nat /\ i \in Nat /\ i < v /\ a + v <= N
        BY <2>1, <3>1
      <4>. HIDE DEF a, v, N
      <4>. QED  BY <4>1, <4>2
    <3>3. Ring(a + i) = Ring(o + (p[j] + i))
      <4>. HIDE DEF N, a, v
      <4>1. (((o + p[j]) % N) + i) % N = (o + (p[j] + i)) % N
        BY <1>1, <3>2, TurnTurn
      <4>. QED  BY <2>1, <4>1 DEF Ring, N
    <3>4. Ring(a + i) = a + i
      <4>. HIDE DEF N, a, v
      <4>1. (a + i) % N = IF a + i < N THEN a + i ELSE a + i - N
        BY <1>1, <3>1, <3>2, TurnIs
      <4>. QED  BY <3>2, <4>1 DEF Ring, N
    <3>. QED  BY <1>7, <3>2, <3>3, <3>4
  <2>. QED  BY <2>1, <2>3, <2>4, <2>5 DEF Laid
<1>12. q \in [1..(Len(W) + 1) -> Nat] /\ q[k + 1] = 0 /\ q[Len(W) + 1] = n + u /\ k \in 0..Len(W)
  BY <1>1, <1>2, <1>3
<1>13. /\ \A j \in 1..(Len(w) + 1) : q[j] = p[j] /\ p[j] \in Nat
       /\ q[Len(w) + 2] = n + u
  <2>1. Len(w) + 2 \in 1..(Len(w) + 2) /\ ~(Len(w) + 2 <= Len(w) + 1)
    BY <1>1
  <2>2. \A j \in 1..(Len(w) + 1) : j \in 1..(Len(w) + 2) /\ j <= Len(w) + 1
    BY <1>1
  <2>3. \A j \in 1..(Len(w) + 1) : p[j] \in Nat
    BY <1>3
  <2>. QED  BY <2>1, <2>2, <2>3
<1>. HIDE DEF q
<1>14. ASSUME NEW j \in (k + 1)..Len(W)
       PROVE  /\ q[j + 1] = q[j] + Units(W[j])
              /\ \A l \in (j + 1)..(Len(W) + 1) : q[j] + Units(W[j]) <= q[l]
              /\ W[j].at = Ring(o + q[j]) /\ Laid(d, W, j)
  <2>1. CASE j = Len(w) + 1
    <3>1. q[j] = n /\ W[j] = g /\ q[j + 1] = n + u
      BY <1>1, <1>2, <1>3, <1>13, <2>1
    <3>2. \A l \in (j + 1)..(Len(W) + 1) : l = Len(w) + 2
      BY <1>1, <1>2, <2>1
    <3>3. \A l \in (j + 1)..(Len(W) + 1) : q[j] + Units(W[j]) <= q[l]
      BY <1>1, <1>13, <3>1, <3>2
    <3>. QED  BY <1>1, <1>9, <2>1, <3>1, <3>3
  <2>2. CASE j # Len(w) + 1
    <3>1. j \in (k + 1)..Len(w) /\ j + 1 \in 1..(Len(w) + 1) /\ j \in 1..(Len(w) + 1)
          /\ Len(w) + 1 \in (j + 1)..(Len(w) + 1) /\ j \in 1..Len(w)
      BY <1>1, <1>2, <1>3, <2>2
    <3>2. q[j] = p[j] /\ q[j + 1] = p[j + 1] /\ W[j] = w[j]
      BY <1>2, <1>13, <3>1
    <3>3. ASSUME NEW l \in (j + 1)..(Len(W) + 1) PROVE q[j] + Units(W[j]) <= q[l]
      <4>1. CASE l = Len(w) + 2
        <5>1. p[j] + Units(w[j]) <= n /\ p[j] \in Nat /\ Units(w[j]) \in {2, 3}
          BY <1>3, <1>13, <3>1, UnitsAre
        <5>. QED  BY SMTT(40), <1>1, <1>13, <3>2, <4>1, <5>1
      <4>2. CASE l # Len(w) + 2
        <5>1. l \in (j + 1)..(Len(w) + 2)
          BY <1>1, <1>2
        <5>2. l \in (j + 1)..(Len(w) + 1) /\ l \in 1..(Len(w) + 1)
          <6>1. j \in Nat /\ Len(w) \in Nat
            BY <1>1, <3>1
          <6>. QED  BY <4>2, <5>1, <6>1
        <5>. QED  BY <1>3, <1>13, <3>1, <3>2, <5>2
      <4>. QED  BY <4>1, <4>2
    <3>. QED  BY <1>3, <1>10, <3>1, <3>2, <3>3
  <2>. QED  BY <2>1, <2>2
<1>. QED  BY <1>12, <1>14 DEF RingHolds

\* The first frame is taken.
LEMMA RingShrinks ==
  ASSUME NEW c, NEW o \in Cells, NEW w \in Seq(Frame), NEW k, NEW p, NEW n \in 0..(NET_RX_BUF_SIZE - 1),
         RingHolds(c, o, w, k, p, n), k < Len(w)
  PROVE  /\ k + 1 \in 1..Len(w) /\ w[k + 1].at = o /\ Laid(c, w, k + 1) /\ Units(w[k + 1]) <= n
         /\ \E q \in [1..(Len(w) + 1) -> Nat] :
              RingHolds(c, Ring(o + Units(w[k + 1])), w, k + 1, q, n - Units(w[k + 1]))
<1>. DEFINE u == Units(w[k + 1])
            N == NET_RX_BUF_SIZE
            O == Ring(o + u)
            q == [j \in 1..(Len(w) + 1) |-> IF j > k THEN IF j = k + 1 THEN 0 ELSE p[j] - u ELSE 0]
<1>1. N \in Nat \ {0} /\ N > 3 /\ u \in {2, 3} /\ Len(w) \in Nat /\ o \in 0..(N - 1) /\ k \in Nat
  BY Sizes, UnitsAre, LenProperties DEF Cells, RingHolds
<1>2. /\ k \in 0..Len(w) /\ p \in [1..(Len(w) + 1) -> Nat] /\ p[k + 1] = 0 /\ p[Len(w) + 1] = n
      /\ \A j \in (k + 1)..Len(w) :
           /\ p[j + 1] = p[j] + Units(w[j])
           /\ \A l \in (j + 1)..(Len(w) + 1) : p[j] + Units(w[j]) <= p[l]
           /\ w[j].at = Ring(o + p[j]) /\ Laid(c, w, j)
  BY DEF RingHolds
<1>3. k + 1 \in (k + 1)..Len(w) /\ k + 1 \in 1..Len(w) /\ Len(w) + 1 \in (k + 2)..(Len(w) + 1)
      /\ k + 2 \in 1..(Len(w) + 1) /\ k + 1 + 1 = k + 2
  BY <1>1
<1>4. p[k + 2] = u /\ w[k + 1].at = Ring(o + 0) /\ Laid(c, w, k + 1) /\ \A l \in (k + 2)..(Len(w) + 1) : u <= p[l]
  BY <1>1, <1>2, <1>3
<1>5. Ring(o + 0) = o
  <2>1. 0 \in 0..N /\ o + 0 = o /\ o < N
    BY <1>1
  <2>2. (o + 0) % N = IF o + 0 < N THEN o + 0 ELSE o + 0 - N
    BY <1>1, <2>1, TurnIs
  <2>. QED  BY <2>1, <2>2 DEF Ring
<1>6. \A j \in 1..(Len(w) + 1) : p[j] \in Nat
  BY <1>2
<1>7. u <= n
  BY <1>2, <1>3, <1>4
<1>8. \A j \in (k + 2)..(Len(w) + 1) : q[j] = p[j] - u /\ q[j] \in Nat
  <2>1. ASSUME NEW j \in (k + 2)..(Len(w) + 1) PROVE q[j] = p[j] - u /\ q[j] \in Nat
    <3>1. j \in 1..(Len(w) + 1) /\ j > k /\ j # k + 1
      BY <1>1
    <3>2. p[j] \in Nat /\ u <= p[j]
      BY <1>4, <1>6, <3>1
    <3>3. q[j] = p[j] - u
      BY <3>1
    <3>. HIDE DEF u, q
    <3>. QED  BY <1>1, <3>2, <3>3
  <2>. QED  BY <2>1
<1>9. q \in [1..(Len(w) + 1) -> Nat]
  <2>1. ASSUME NEW j \in 1..(Len(w) + 1) PROVE q[j] \in Nat
    <3>1. j > k + 1 => j \in (k + 2)..(Len(w) + 1)
      BY <1>1
    <3>2. ~(j > k + 1) => q[j] = 0
      BY <1>1
    <3>. HIDE DEF q
    <3>. QED  BY <1>8, <3>1, <3>2
  <2>. QED  BY <2>1
<1>10. q[k + 1 + 1] = 0 /\ q[Len(w) + 1] = n - u
  BY <1>1, <1>2, <1>3, <1>4, <1>8
<1>. HIDE DEF q
<1>11. ASSUME NEW j \in (k + 1 + 1)..Len(w)
       PROVE  /\ q[j + 1] = q[j] + Units(w[j])
              /\ \A l \in (j + 1)..(Len(w) + 1) : q[j] + Units(w[j]) <= q[l]
              /\ w[j].at = Ring(O + q[j]) /\ Laid(c, w, j)
  <2>. DEFINE v == Units(w[j])
  <2>1. /\ j \in (k + 1)..Len(w) /\ j \in (k + 2)..(Len(w) + 1) /\ j + 1 \in (k + 2)..(Len(w) + 1)
        /\ Len(w) + 1 \in (j + 1)..(Len(w) + 1)
    BY <1>1
  <2>2. /\ p[j + 1] = p[j] + v /\ q[j] = p[j] - u /\ q[j] \in Nat /\ q[j + 1] = p[j + 1] - u
        /\ q[j + 1] \in Nat /\ p[j] + v <= n /\ p[j] \in Nat
    BY <1>2, <1>6, <1>8, <2>1
  <2>n. v \in Nat /\ u \in Nat /\ N \in Nat /\ n < N
    BY <1>1, UnitsAre
  <2>. HIDE DEF v, u, N
  <2>3. q[j + 1] = q[j] + v
    BY <2>n, <2>2
  <2>4. ASSUME NEW l \in (j + 1)..(Len(w) + 1) PROVE q[j] + v <= q[l]
    <3>1. l \in (k + 2)..(Len(w) + 1)
      BY <1>1, <2>1
    <3>2. p[j] + v <= p[l]
      BY <1>2, <2>1 DEF v
    <3>3. q[l] = p[l] - u /\ p[l] \in Nat
      <4>1. l \in 1..(Len(w) + 1)
        BY <1>1, <3>1
      <4>. QED  BY <1>6, <1>8, <3>1, <4>1
    <3>4. q[j] = p[j] - u /\ p[j] \in Nat
      BY <2>2
    <3>5. p[j] - u + v <= p[l] - u
      BY <2>n, <3>2, <3>3, <3>4
    <3>. QED  BY <3>3, <3>4, <3>5
  <2>5. Ring(O + q[j]) = Ring(o + p[j])
    <3>1. u \in 0..N /\ q[j] \in 0..N /\ u + q[j] <= N /\ u + q[j] = p[j]
      BY SMTT(40), <2>2, <2>n
    <3>2. Ring(O + q[j]) = Ring(o + (u + q[j]))
      <4>. HIDE DEF N
      <4>. QED  BY <1>1, <3>1, TurnTurn DEF Ring, N
    <3>. QED  BY <3>1, <3>2
  <2>. QED  BY <1>2, <2>1, <2>3, <2>4, <2>5 DEF v
<1>12. RingHolds(c, O, w, k + 1, q, n - u)
  <2>1. k + 1 \in 0..Len(w)
    BY <1>1
  <2>. QED  BY <1>9, <1>10, <1>11, <2>1 DEF RingHolds
<1>. QED  BY <1>3, <1>4, <1>5, <1>7, <1>9, <1>12

-----------------------------------------------------------------------------
(* The queue                                                               *)

\* More frames are accepted, more are taken out of the ring.
LEMMA QueueStays ==
  ASSUME NEW q, NEW h, NEW n, NEW w, NEW k \in Nat, QueueHolds(q, h, n, w, k), NEW K \in Nat, k <= K,
         NEW W, \A i \in 1..k : W[i] = w[i]
  PROVE  QueueHolds(q, h, n, W, K)
<1>1. 1..k \subseteq 1..K
  OBVIOUS
<1>. QED  BY <1>1 DEF QueueHolds, Copies

\* A copy of the next frame is put behind the others.
LEMMA QueueGrows ==
  ASSUME NEW q \in [Queue -> Packet], NEW h \in Queue, NEW n \in Nat, n + 1 < NET_RXQUEUE_SLOTS,
         NEW w, NEW k \in Nat, QueueHolds(q, h, n, w, k),
         NEW f, f.id = k + 1, Copies(f, w)
  PROVE  QueueHolds([q EXCEPT ![Slot(h + n)] = f], h, n + 1, w, k + 1)
<1>. DEFINE M == NET_RXQUEUE_SLOTS
            r == [q EXCEPT ![Slot(h + n)] = f]
<1>1. M \in Nat \ {0} /\ h \in 0..(M - 1) /\ Queue = 0..(M - 1)
  BY Sizes DEF Queue
<1>2. \A i \in 0..n : i \in 0..(M - 1) /\ i \in 0..M
  BY <1>1
<1>3. n \in 0..n
  OBVIOUS
<1>4. r[Slot(h + n)] = f
  <2>1. Slot(h + n) \in Queue
    BY <1>1, <1>2, <1>3, TurnIs DEF Slot
  <2>. QED  BY <2>1
<1>5. ASSUME NEW i \in 0..(n - 1) PROVE r[Slot(h + i)] = q[Slot(h + i)]
  <2>1. i # n /\ i \in 0..n
    OBVIOUS
  <2>2. Slot(h + i) # Slot(h + n)
    <3>. HIDE DEF M
    <3>. QED  BY <1>1, <1>2, <1>3, <2>1, TurnApart DEF Slot, M
  <2>. QED  BY <2>2
<1>6. \A i \in 0..(n + 1 - 1) : i = n \/ i \in 0..(n - 1)
  OBVIOUS
<1>7. /\ \A i \in 0..(n - 1) : q[Slot(h + i)].id \in 1..k /\ Copies(q[Slot(h + i)], w)
      /\ \A i \in 0..(n - 1) : \A j \in 0..(n - 1) : i < j => q[Slot(h + i)].id < q[Slot(h + j)].id
  BY DEF QueueHolds
<1>. HIDE DEF r
<1>8. ASSUME NEW i \in 0..(n + 1 - 1)
      PROVE  r[Slot(h + i)].id \in 1..(k + 1) /\ Copies(r[Slot(h + i)], w)
  <2>1. CASE i = n
    BY <1>4, <2>1
  <2>2. CASE i \in 0..(n - 1)
    <3>1. r[Slot(h + i)] = q[Slot(h + i)]
      BY <1>5, <2>2
    <3>2. q[Slot(h + i)].id \in 1..k /\ Copies(q[Slot(h + i)], w)
      BY <1>7, <2>2
    <3>3. 1..k \subseteq 1..(k + 1)
      OBVIOUS
    <3>. QED  BY <3>1, <3>2, <3>3
  <2>. QED  BY <1>6, <2>1, <2>2
<1>9. ASSUME NEW i \in 0..(n + 1 - 1), NEW j \in 0..(n + 1 - 1), i < j
      PROVE  r[Slot(h + i)].id < r[Slot(h + j)].id
  <2>1. i \in 0..(n - 1) /\ r[Slot(h + i)] = q[Slot(h + i)] /\ q[Slot(h + i)].id \in 1..k
    <3>1. i \in 0..(n - 1)
      BY <1>6, <1>9
    <3>. QED  BY <1>5, <1>7, <3>1
  <2>2. CASE j = n
    BY <1>4, <2>1, <2>2
  <2>3. CASE j \in 0..(n - 1)
    <3>1. r[Slot(h + j)] = q[Slot(h + j)]
      BY <1>5, <2>3
    <3>. QED  BY <1>7, <1>9, <2>1, <2>3, <3>1
  <2>. QED  BY <1>6, <2>2, <2>3
<1>10. QueueHolds(r, h, n + 1, w, k + 1)
  BY <1>8, <1>9 DEF QueueHolds
<1>. QED  BY <1>10 DEF r

\* The oldest is taken.
LEMMA QueueShifts ==
  ASSUME NEW q, NEW h \in Queue, NEW n \in 1..(NET_RXQUEUE_SLOTS - 1), NEW w, NEW k, QueueHolds(q, h, n, w, k)
  PROVE  QueueHolds(q, Slot(h + 1), n - 1, w, k)
<1>. DEFINE M == NET_RXQUEUE_SLOTS
<1>1. M \in Nat \ {0} /\ M > 1 /\ h \in 0..(M - 1)
  BY Sizes DEF Queue
<1>2. ASSUME NEW i \in 0..(n - 1 - 1)
      PROVE  i + 1 \in 0..(n - 1) /\ Slot(Slot(h + 1) + i) = Slot(h + (i + 1)) 
  <2>1. 1 \in 0..M /\ i \in 0..M /\ 1 + i <= M /\ i + 1 \in 0..(n - 1) /\ 1 + i = i + 1
    BY <1>1
  <2>2. Slot(Slot(h + 1) + i) = Slot(h + (1 + i))
    <3>. HIDE DEF M
    <3>. QED  BY <1>1, <2>1, TurnTurn DEF Slot, M
  <2>. QED  BY <2>1, <2>2
<1>3. \A i \in 0..(n - 1 - 1) : \A j \in 0..(n - 1 - 1) : i < j => i + 1 < j + 1
  OBVIOUS
<1>. QED  BY <1>2, <1>3 DEF QueueHolds

-----------------------------------------------------------------------------
(* The receive path                                                        *)

\* How much is in the ring, and how much in the queue.
LEMMA InRingIs ==
  ASSUME NicType
  PROVE  /\ InRing \in 0..(NET_RX_BUF_SIZE - 1) /\ Ring(g_rx_offset + InRing) = cbr
         /\ InRing = 0 <=> cbr = g_rx_offset
<1>. DEFINE N == NET_RX_BUF_SIZE
<1>1. N \in Nat \ {0} /\ cbr \in 0..(N - 1) /\ g_rx_offset \in 0..(N - 1)
  BY Sizes DEF NicType, Cells
<1>2. InRing = (cbr - g_rx_offset + N) % N
  BY DEF InRing, Ring
<1>. HIDE DEF N
<1>3. InRing \in 0..(N - 1) /\ (InRing = 0 <=> cbr = g_rx_offset)
  BY <1>1, <1>2, GapIs
<1>4. (g_rx_offset + InRing) % N = cbr
  BY <1>1, <1>2, GapIs
<1>. QED  BY <1>3, <1>4 DEF Ring, N

\* The same of the queue.
LEMMA FillIs ==
  ASSUME NicType
  PROVE  /\ Length \in 0..(NET_RXQUEUE_SLOTS - 1) /\ Slot(g_rxq_head + Length) = g_rxq_tail
         /\ Length = 0 <=> ~Queued
<1>. DEFINE M == NET_RXQUEUE_SLOTS
<1>1. M \in Nat \ {0} /\ g_rxq_tail \in 0..(M - 1) /\ g_rxq_head \in 0..(M - 1)
  BY Sizes DEF NicType, Queue
<1>2. Length = (g_rxq_tail - g_rxq_head + M) % M
  BY DEF Length, Slot
<1>. HIDE DEF M
<1>3. Length \in 0..(M - 1) /\ (Length = 0 <=> g_rxq_head = g_rxq_tail)
  BY <1>1, <1>2, GapIs
<1>4. (g_rxq_head + Length) % M = g_rxq_tail
  BY <1>1, <1>2, GapIs
<1>. QED  BY <1>3, <1>4 DEF Slot, M, Queued

\* A ring whose two ends meet is empty.
LEMMA InRingZero == ASSUME cbr' \in Cells, g_rx_offset' = cbr' PROVE InRing' = 0
<1>. DEFINE N == NET_RX_BUF_SIZE
<1>1. N \in Nat \ {0} /\ cbr' \in 0..(N - 1)
  BY Sizes DEF Cells
<1>2. InRing' = (cbr' - cbr' + N) % N
  BY DEF InRing, Ring
<1>. HIDE DEF N
<1>. QED  BY <1>1, <1>2, GapIs

\* A frame that fits is written, and counted.
LEMMA ArriveInv == ASSUME NicInv, NEW f \in Frame, Arrive(f) PROVE NicInv'
<1>. DEFINE g == [f EXCEPT !.at = cbr]
            u == Units(g)
            N == NET_RX_BUF_SIZE
<1>1. NicType /\ Units(f) = u /\ u \in {2, 3} /\ N \in Nat \ {0}
  BY UnitsAre, Sizes DEF NicInv, Units, Content, Frame
<1>2. /\ UNCHANGED <<g_rx_offset, handler, isr, rxq, g_rxq_head, g_rxq_tail, hold>>
      /\ \/ UNCHANGED <<cells, cbr, wire>>
         \/ /\ InRing + u < N
            /\ cells' = [a \in DOMAIN cells |-> IF a \in cbr..(cbr + u - 1) THEN Part(Len(wire) + 1, a - cbr)
                                                                          ELSE cells[a]]
            /\ cbr' = Ring(cbr + u) /\ wire' = Append(wire, g)
  BY <1>1 DEF Arrive
<1>3. CASE UNCHANGED <<cells, cbr, wire>>
  BY <1>2, <1>3 DEF NicInv, NicType, InRing, Length, Queued
<1>4. CASE ~UNCHANGED <<cells, cbr, wire>>
  <2>1. /\ InRing + u < N
        /\ cells' = [a \in Memory |-> IF a \in cbr..(cbr + u - 1) THEN Part(Len(wire) + 1, a - cbr)
                                                                  ELSE cells[a]]
        /\ cbr' = Ring(cbr + u) /\ wire' = Append(wire, g)
    <3>1. DOMAIN cells = Memory
      BY <1>1 DEF NicType
    <3>. QED  BY <1>2, <1>4, <3>1
  <2>2. wire \in Seq(Frame) /\ Len(wire) \in Nat
    BY <1>1, LenProperties DEF NicType
  <2>3. g \in Frame /\ g.at = cbr /\ cbr \in 0..(N - 1)
    <3>1. cbr \in Nat /\ cbr \in 0..(N - 1)
      BY <1>1 DEF NicType, Cells
    <3>. QED  BY <3>1 DEF Frame
  <2>. HIDE DEF g, u, N
  <2>4. PICK k \in 0..Len(wire) :
          /\ \E p \in [1..(Len(wire) + 1) -> Nat] : RingHolds(cells, g_rx_offset, wire, k, p, InRing)
          /\ QueueHolds(rxq, g_rxq_head, Length, wire, k)
    BY DEF NicInv
  <2>5. PICK p \in [1..(Len(wire) + 1) -> Nat] : RingHolds(cells, g_rx_offset, wire, k, p, InRing)
    BY <2>4
  <2>6. InRing \in 0..(N - 1) /\ Ring(g_rx_offset + InRing) = cbr /\ InRing \in Nat
    <3>1. InRing \in 0..(N - 1) /\ Ring(g_rx_offset + InRing) = cbr
      BY <1>1, InRingIs DEF N
    <3>. QED  BY <1>1, <3>1
  <2>8. \E q \in [1..(Len(wire') + 1) -> Nat] :
          RingHolds(cells', g_rx_offset, wire', k, q, InRing + u)
    <3>1. cells \in [Memory -> Cell] /\ g_rx_offset \in Cells
      BY <1>1 DEF NicType
    <3>. QED  BY <1>1, <2>1, <2>2, <2>3, <2>5, <2>6, <3>1, RingGrows DEF u, N
  <2>9. InRing' = InRing + u
    <3>1. u \in 0..N /\ InRing \in 0..N /\ InRing + u \in 0..(N - 1) /\ InRing + u <= N
      BY <1>1, <2>1, <2>6
    <3>2. g_rx_offset \in 0..(N - 1)
      BY <1>1 DEF NicType, Cells, N
    <3>3. cbr' = (g_rx_offset + (InRing + u)) % N
      <4>. DEFINE n == InRing
      <4>1. cbr' = (((g_rx_offset + n) % N) + u) % N
        BY <2>1, <2>6 DEF Ring, N
      <4>. HIDE DEF n
      <4>2. n \in 0..N /\ n + u <= N
        BY <3>1 DEF n
      <4>3. (((g_rx_offset + n) % N) + u) % N = (g_rx_offset + (n + u)) % N
        BY <1>1, <3>1, <3>2, <4>2, TurnTurn
      <4>. QED  BY <4>1, <4>3 DEF n
    <3>4. InRing' = (cbr' - g_rx_offset + N) % N
      BY <1>2 DEF InRing, Ring, N
    <3>. DEFINE m == InRing + u
    <3>. HIDE DEF m
    <3>5. (((g_rx_offset + m) % N) - g_rx_offset + N) % N = m
      BY <1>1, <3>1, <3>2, GapOf DEF m
    <3>. QED  BY <3>3, <3>4, <3>5 DEF m
  <2>10. /\ wire' \in Seq(Frame) /\ Len(wire') = Len(wire) + 1 /\ wire'[Len(wire) + 1] = g
         /\ \A i \in 1..Len(wire) : wire'[i] = wire[i]
    BY <2>1, <2>2, <2>3, AppendProperties
  <2>11. QueueHolds(rxq', g_rxq_head', Length', wire', k)
    <3>1. k \in Nat /\ \A i \in 1..k : wire'[i] = wire[i]
      BY <2>2, <2>10
    <3>2. Length' = Length
      BY <1>2 DEF Length
    <3>. QED  BY <1>2, <2>4, <3>1, <3>2, QueueStays
  <2>12. NicType'
    <3>1. cells' \in [Memory -> Cell]
      <4>1. ASSUME NEW a \in Memory PROVE cells'[a] \in Cell
        <5>1. CASE a \in cbr..(cbr + u - 1)
          <6>1. a - cbr \in Nat /\ Len(wire) + 1 \in Nat
            BY <2>2, <2>3, <5>1
          <6>2. cells'[a] = Part(Len(wire) + 1, a - cbr)
            BY <2>1, <5>1
          <6>. QED  BY <6>1, <6>2 DEF Part, Cell
        <5>2. CASE a \notin cbr..(cbr + u - 1)
          BY <1>1, <2>1, <5>2 DEF NicType
        <5>. QED  BY <5>1, <5>2
      <4>. QED  BY <2>1, <4>1
    <3>2. cbr' \in Cells
      <4>1. cbr \in 0..(N - 1) /\ u \in 0..N
        <5>1. cbr \in 0..(N - 1)
          BY <1>1 DEF NicType, Cells, N
        <5>. QED  BY <1>1, <2>1, <2>6, <5>1
      <4>. QED  BY <1>1, <2>1, <4>1, TurnIs DEF Ring, Cells, N
    <3>. QED  BY <1>1, <1>2, <2>10, <3>1, <3>2 DEF NicType
  <2>13. k \in 0..Len(wire')
    BY <2>2, <2>10
  <2>14. (hold # NoPacket => Queued /\ hold = rxq[g_rxq_head])'
    BY <1>2 DEF NicInv, Queued
  <2>. QED  BY <1>2, <2>8, <2>9, <2>11, <2>12, <2>13, <2>14 DEF NicInv
<1>. QED  BY <1>3, <1>4

\* The driver copies the oldest frame of the ring, in the queue or in vain.
LEMMA RxInv == ASSUME NicInv, rtl8139_do_rx PROVE NicInv'
<1>. DEFINE N == NET_RX_BUF_SIZE
            M == NET_RXQUEUE_SLOTS
            c == ring_copy(g_rx_offset)
<1>1. /\ NicType /\ N \in Nat \ {0} /\ M \in Nat \ {0} /\ M > 1
      /\ cbr # g_rx_offset /\ Enqueued(c)
      /\ g_rx_offset' = Ring(g_rx_offset + Units(wire[cells[g_rx_offset].frame]))
      /\ UNCHANGED <<cells, cbr, g_rxq_head, hold, wire>>
  BY Sizes DEF NicInv, rtl8139_do_rx
<1>2. wire \in Seq(Frame) /\ Len(wire) \in Nat /\ DOMAIN wire = 1..Len(wire)
  <2>1. wire \in Seq(Frame)
    BY <1>1 DEF NicType
  <2>. QED  BY <2>1, LenProperties
<1>3. PICK k \in 0..Len(wire) :
        /\ \E p \in [1..(Len(wire) + 1) -> Nat] : RingHolds(cells, g_rx_offset, wire, k, p, InRing)
        /\ QueueHolds(rxq, g_rxq_head, Length, wire, k)
  BY DEF NicInv
<1>4. PICK p \in [1..(Len(wire) + 1) -> Nat] : RingHolds(cells, g_rx_offset, wire, k, p, InRing)
  BY <1>3
<1>5. InRing \in 0..(N - 1) /\ Ring(g_rx_offset + InRing) = cbr /\ InRing # 0
  BY <1>1, InRingIs
<1>6. k < Len(wire)
  <2>1. k # Len(wire)
    BY <1>4, <1>5 DEF RingHolds
  <2>. DEFINE L == Len(wire)
  <2>2. k \in 0..L /\ L \in Nat /\ k # L
    BY <1>2, <2>1
  <2>. HIDE DEF L
  <2>3. k < L
    BY <2>2
  <2>. QED  BY <2>3 DEF L
<1>. DEFINE g == wire[k + 1]
            u == Units(g)
<1>7. /\ k + 1 \in 1..Len(wire) /\ g.at = g_rx_offset /\ Laid(cells, wire, k + 1) /\ u <= InRing
      /\ \E q \in [1..(Len(wire) + 1) -> Nat] :
           RingHolds(cells, Ring(g_rx_offset + u), wire, k + 1, q, InRing - u)
  <2>1. g_rx_offset \in Cells
    BY <1>1 DEF NicType
  <2>. QED  BY <1>2, <1>4, <1>5, <1>6, <2>1, RingShrinks
<1>8. u \in {2, 3} /\ u = Content(g) + 1 /\ Content(g) \in {1, 2}
      /\ cells[g_rx_offset] = Part(k + 1, 0) /\ g.at = g_rx_offset
  BY <1>7, UnitsAre DEF Laid
<1>9. c \in Packet /\ c.id = k + 1 /\ Copies(c, wire)
  <2>. DEFINE m == Content(g)
  <2>1. c = [id |-> k + 1, units |-> [i \in 1..m |-> cells[Ring(g_rx_offset + i)]]]
    BY <1>8 DEF ring_copy, Part
  <2>2. m \in {1, 2} /\ g_rx_offset \in 0..(N - 1) /\ m < N /\ k + 1 \in Nat
    BY <1>1, <1>2, <1>5, <1>7, <1>8 DEF NicType, Cells
  <2>. HIDE DEF m, N, c
  <2>3. ASSUME NEW i \in 1..m PROVE Ring(g_rx_offset + i) \in Memory
    <3>1. i \in 0..N
      BY <1>1, <2>2
    <3>2. Ring(g_rx_offset + i) \in 0..(N - 1)
      BY <1>1, <2>2, <3>1, TurnIs DEF Ring, N
    <3>. QED  BY <1>1, <3>2 DEF Memory, N
  <2>4. [i \in 1..m |-> cells[Ring(g_rx_offset + i)]] \in [1..m -> Cell]
    BY <1>1, <2>3 DEF NicType
  <2>5. c \in Packet /\ c.id = k + 1 /\ c.units = [i \in 1..m |-> cells[Ring(g_rx_offset + i)]]
    BY <2>1, <2>2, <2>4 DEF Packet
  <2>6. ASSUME ~Crossed(g) PROVE Intact(c)
    <3>1. \A i \in 1..m : cells[g_rx_offset + i] = Part(k + 1, i)
      BY <1>7, <1>8, <2>6 DEF Laid, m
    <3>2. g_rx_offset + (m + 1) <= N
      <4>1. ~(g_rx_offset + (m + 1) > N)
        BY <1>8, <2>6 DEF Crossed, m, N
      <4>. QED  BY <1>1, <2>2, <4>1
    <3>3. ASSUME NEW i \in 1..m PROVE Ring(g_rx_offset + i) = g_rx_offset + i
      <4>1. i \in 0..N /\ g_rx_offset + i < N
        BY <1>1, <2>2, <3>2
      <4>2. (g_rx_offset + i) % N = IF g_rx_offset + i < N THEN g_rx_offset + i ELSE g_rx_offset + i - N
        BY <1>1, <2>2, <4>1, TurnIs
      <4>. QED  BY <4>1, <4>2 DEF Ring, N
    <3>. QED  BY <2>5, <3>1, <3>3 DEF Intact
  <2>. QED  BY <2>5, <2>6 DEF Copies
<1>10. g_rx_offset' = Ring(g_rx_offset + u)
  BY <1>1, <1>8 DEF Part
<1>. HIDE DEF g, u, c, N, M
<1>11. /\ InRing' = InRing - u /\ g_rx_offset' \in Cells
  <2>1. u \in 0..N /\ InRing - u \in 0..N /\ u + (InRing - u) <= N /\ InRing - u \in 0..(N - 1)
        /\ u + (InRing - u) = InRing
    <3>1. u \in Nat /\ InRing \in Nat /\ InRing <= N
      BY <1>1, <1>5, <1>8
    <3>. QED  BY <1>1, <1>5, <1>7, <3>1
  <2>2. g_rx_offset \in 0..(N - 1)
    BY <1>1 DEF NicType, Cells, N
  <2>3. g_rx_offset' = (g_rx_offset + u) % N /\ g_rx_offset' \in 0..(N - 1)
    BY <1>1, <1>10, <2>1, <2>2, TurnIs DEF Ring, N
  <2>. DEFINE m == InRing - u
  <2>4. ((g_rx_offset' + m) % N) = (g_rx_offset + (u + m)) % N
    <3>1. m \in 0..N /\ u + m <= N
      BY <2>1
    <3>. HIDE DEF m
    <3>2. (((g_rx_offset + u) % N) + m) % N = (g_rx_offset + (u + m)) % N
      BY <1>1, <2>1, <2>2, <3>1, TurnTurn
    <3>. QED  BY <2>3, <3>2
  <2>5. cbr = (g_rx_offset' + m) % N
    BY <1>5, <2>1, <2>4 DEF Ring, N
  <2>6. InRing' = (cbr - g_rx_offset' + N) % N
    BY <1>1 DEF InRing, Ring, N
  <2>7. m \in 0..(N - 1)
    BY <2>1
  <2>. HIDE DEF m
  <2>8. (((g_rx_offset' + m) % N) - g_rx_offset' + N) % N = m
    BY <1>1, <2>3, <2>7, GapOf
  <2>. QED  BY <2>3, <2>5, <2>6, <2>8 DEF m, Cells, N
<1>12. k \in Nat /\ k + 1 \in Nat /\ k <= k + 1 /\ k + 1 \in 0..Len(wire)
  BY <1>2, <1>7
<1>13. CASE UNCHANGED <<rxq, g_rxq_tail>>
  <2>1. Length' = Length
    BY <1>1, <1>13 DEF Length
  <2>2. QueueHolds(rxq, g_rxq_head, Length, wire, k + 1)
    BY <1>3, <1>12, QueueStays
  <2>. QED  BY <1>1, <1>7, <1>10, <1>11, <1>12, <1>13, <2>1, <2>2 DEF NicInv, NicType, u, Queued
<1>14. CASE /\ Slot(g_rxq_tail + 1) # g_rxq_head
            /\ rxq' = [rxq EXCEPT ![g_rxq_tail] = c] /\ g_rxq_tail' = Slot(g_rxq_tail + 1)
  <2>. DEFINE n == Length
  <2>1. /\ n \in 0..(M - 1) /\ (g_rxq_head + n) % M = g_rxq_tail
        /\ g_rxq_head \in 0..(M - 1) /\ g_rxq_tail \in 0..(M - 1)
    BY <1>1, FillIs DEF NicType, Queue, Slot, M
  <2>. HIDE DEF n
  <2>2. g_rxq_tail' = (g_rxq_head + (n + 1)) % M
    <3>1. n \in 0..M /\ 1 \in 0..M /\ n + 1 <= M
      BY <1>1, <2>1
    <3>. QED  BY <1>1, <1>14, <2>1, <3>1, TurnTurn DEF Slot, M
  <2>3. n + 1 < M
    <3>1. n + 1 = M => (g_rxq_head + (n + 1)) % M = g_rxq_head
      <4>1. M \in 0..M
        BY <1>1
      <4>2. (g_rxq_head + M) % M = IF g_rxq_head + M < M THEN g_rxq_head + M ELSE g_rxq_head + M - M
        BY <1>1, <2>1, <4>1, TurnIs
      <4>3. (g_rxq_head + M) % M = g_rxq_head
        BY <1>1, <2>1, <4>2
      <4>. QED  BY <4>3
    <3>2. n + 1 # M
      BY <1>14, <2>2, <3>1
    <3>. QED  BY <1>1, <2>1, <3>2
  <2>4. n \in Nat /\ n + 1 \in 0..(M - 1) /\ n + 1 \in 0..M
    BY <1>1, <2>1, <2>3
  <2>5. g_rxq_tail' \in 0..(M - 1)
    BY <1>1, <2>1, <2>2, <2>4, TurnIs
  <2>6. Length' = n + 1
    <3>1. Length' = (g_rxq_tail' - g_rxq_head + M) % M
      BY <1>1 DEF Length, Slot, M
    <3>. DEFINE m == n + 1
    <3>. HIDE DEF m
    <3>2. (((g_rxq_head + m) % M) - g_rxq_head + M) % M = m
      BY <1>1, <2>1, <2>4, GapOf DEF m
    <3>. QED  BY <2>2, <3>1, <3>2 DEF m
  <2>7. QueueHolds(rxq', g_rxq_head, n + 1, wire, k + 1)
    <3>1. /\ rxq \in [Queue -> Packet] /\ g_rxq_head \in Queue /\ QueueHolds(rxq, g_rxq_head, n, wire, k)
          /\ rxq' = [rxq EXCEPT ![Slot(g_rxq_head + n)] = c]
      BY <1>1, <1>3, <1>14, <2>1 DEF NicType, n, Slot, M
    <3>. QED  BY <1>9, <1>12, <2>3, <2>4, <3>1, QueueGrows DEF g, M
  <2>8. rxq' \in [Queue -> Packet] /\ g_rxq_tail' \in Queue
    BY <1>1, <1>9, <1>14, <2>5 DEF NicType, Queue, M
  <2>9. hold # NoPacket => g_rxq_head # g_rxq_tail' /\ hold = rxq'[g_rxq_head]
    BY <1>1, <1>14 DEF NicInv, NicType, Queued
  <2>. QED  BY <1>1, <1>7, <1>10, <1>11, <1>12, <2>6, <2>7, <2>8, <2>9 DEF NicInv, NicType, u, Queued
<1>. QED  BY <1>1, <1>13, <1>14 DEF Enqueued

\* The handler begins, ends, or skips what is in the ring.
LEMMA HandlerInv == ASSUME NicInv, Handler PROVE NicInv'
<1>1. CASE UNCHANGED <<cells, cbr, g_rx_offset, rxq, g_rxq_head, g_rxq_tail, hold, wire>>
  BY <1>1 DEF NicInv, NicType, InRing, Length, Queued
<1>2. CASE RxOverflow
  <2>1. NicType /\ g_rx_offset' = cbr /\ UNCHANGED <<cells, cbr, rxq, g_rxq_head, g_rxq_tail, hold, wire>>
    BY <1>2 DEF RxOverflow, NicInv
  <2>2. wire \in Seq(Frame) /\ Len(wire) \in Nat
    <3>1. wire \in Seq(Frame)
      BY <2>1 DEF NicType
    <3>. QED  BY <3>1, LenProperties
  <2>3. PICK k \in 0..Len(wire) : QueueHolds(rxq, g_rxq_head, Length, wire, k)
    BY DEF NicInv
  <2>4. NicType'
    BY <2>1 DEF NicType
  <2>5. InRing' = 0
    <3>1. cbr' \in Cells
      BY <2>1 DEF NicType
    <3>2. g_rx_offset' = cbr'
      BY <2>1
    <3>. QED  BY <3>1, <3>2, InRingZero
  <2>6. QueueHolds(rxq, g_rxq_head, Length, wire, Len(wire)) /\ Length' = Length
    <3>1. k \in Nat /\ k <= Len(wire)
      BY <2>2
    <3>. QED  BY <2>1, <2>2, <2>3, <3>1, QueueStays DEF Length
  <2>. DEFINE p == [j \in 1..(Len(wire) + 1) |-> 0]
  <2>7. RingHolds(cells, cbr, wire, Len(wire), p, 0)
    BY <2>2 DEF RingHolds
  <2>8. p \in [1..(Len(wire) + 1) -> Nat] /\ Len(wire) \in 0..Len(wire)
    BY <2>2
  <2>9. (hold # NoPacket => Queued /\ hold = rxq[g_rxq_head])'
    BY <2>1 DEF NicInv, Queued
  <2>. HIDE DEF p
  <2>. QED  BY <2>1, <2>4, <2>5, <2>6, <2>7, <2>8, <2>9 DEF NicInv
<1>. QED  BY <1>1, <1>2, RxInv DEF Handler, rtl8139_handler, RxDone

\* The thread takes the oldest frame, and then frees its slot.
LEMMA CopyInv == ASSUME NicInv, RecvCopy PROVE NicInv'
<1>1. NicType /\ Queued /\ hold' = rxq[g_rxq_head]
      /\ UNCHANGED <<cells, cbr, g_rx_offset, rxq, g_rxq_head, g_rxq_tail, wire>>
  BY DEF NicInv, RecvCopy
<1>2. NicType'
  BY <1>1 DEF NicType
<1>. QED  BY <1>1, <1>2 DEF NicInv, InRing, Length, Queued

\* What the thread has when it has nothing.
LEMMA NothingHeld == NoPacket \in Packet
BY DEF NoPacket, Packet

\* rtl8139_recv is done: the slot is free.
LEMMA FreeInv == ASSUME NicInv, RecvFree PROVE NicInv'
<1>. DEFINE M == NET_RXQUEUE_SLOTS
            n == Length
<1>1. /\ NicType /\ M \in Nat \ {0} /\ M > 1
      /\ hold # NoPacket /\ hold' = NoPacket /\ g_rxq_head' = Slot(g_rxq_head + 1)
      /\ UNCHANGED <<cells, cbr, g_rx_offset, rxq, g_rxq_tail, wire>>
  BY Sizes DEF NicInv, RecvFree
<1>2. n \in 0..(M - 1) /\ Slot(g_rxq_head + n) = g_rxq_tail /\ n # 0
      /\ g_rxq_head \in 0..(M - 1) /\ g_rxq_tail \in 0..(M - 1)
  <2>1. Queued
    BY <1>1 DEF NicInv
  <2>. QED  BY <1>1, <2>1, FillIs DEF NicType, Queue
<1>3. PICK k \in 0..Len(wire) :
        /\ \E p \in [1..(Len(wire) + 1) -> Nat] : RingHolds(cells, g_rx_offset, wire, k, p, InRing)
        /\ QueueHolds(rxq, g_rxq_head, Length, wire, k)
  BY DEF NicInv
<1>4. QueueHolds(rxq, g_rxq_head', n - 1, wire, k)
  <2>1. g_rxq_head \in Queue /\ n \in 1..(M - 1)
    BY <1>1, <1>2 DEF Queue
  <2>. QED  BY <1>1, <1>3, <2>1, QueueShifts
<1>. HIDE DEF n, M
<1>5. 1 \in 0..M /\ n - 1 \in 0..(M - 1) /\ n - 1 \in 0..M /\ 1 + (n - 1) <= M /\ 1 + (n - 1) = n
  BY <1>1, <1>2
<1>6. g_rxq_head' = (g_rxq_head + 1) % M /\ g_rxq_head' \in 0..(M - 1)
  BY <1>1, <1>2, <1>5, TurnIs DEF Slot, M
<1>7. Length' = n - 1
  <2>. DEFINE e == n - 1
  <2>1. e \in 0..(M - 1) /\ e \in 0..M /\ 1 + e <= M /\ 1 + e = n
    BY <1>5
  <2>. HIDE DEF e
  <2>2. (((g_rxq_head + 1) % M) + e) % M = (g_rxq_head + (1 + e)) % M
    BY <1>1, <1>2, <1>5, <2>1, TurnTurn
  <2>3. (g_rxq_head + (1 + e)) % M = g_rxq_tail
    BY <1>2, <2>1 DEF Slot, M
  <2>4. g_rxq_tail = (g_rxq_head' + e) % M
    BY <1>6, <2>2, <2>3
  <2>5. Length' = (g_rxq_tail - g_rxq_head' + M) % M
    BY <1>1 DEF Length, Slot, M
  <2>. DEFINE b == g_rxq_head'
  <2>6. b \in 0..(M - 1)
    BY <1>6
  <2>. HIDE DEF b
  <2>7. (((b + e) % M) - b + M) % M = e
    BY <1>1, <2>1, <2>6, GapOf
  <2>8. Length' = e
    BY <2>4, <2>5, <2>7 DEF b
  <2>. QED  BY <2>8 DEF e
<1>8. NicType'
  BY <1>1, <1>6, NothingHeld DEF NicType, Queue, M
<1>9. InRing' = InRing
  BY <1>1 DEF InRing
<1>. QED  BY <1>1, <1>3, <1>4, <1>7, <1>8, <1>9 DEF NicInv

\* Nothing is in the ring or the queue.
LEMMA NicStart == ASSUME NicInit PROVE NicInv
<1>1. NicType /\ wire = <<>>
  <2>1. Blank \in Cell
    BY DEF Blank, Part, Cell
  <2>. QED  BY <2>1, NothingHeld, Sizes DEF NicInit, NicType, Cells, Memory, Queue
<1>2. InRing = 0
  <2>1. cbr = g_rx_offset
    BY DEF NicInit
  <2>. QED  BY <1>1, <2>1, InRingIs
<1>3. Length = 0
  <2>1. ~Queued
    BY DEF NicInit, Queued
  <2>. QED  BY <1>1, <2>1, FillIs
<1>. DEFINE p == [j \in 1..(Len(wire) + 1) |-> 0]
<1>4. p \in [1..(Len(wire) + 1) -> Nat] /\ 0 \in 0..Len(wire) /\ RingHolds(cells, g_rx_offset, wire, 0, p, 0)
  BY <1>1 DEF RingHolds
<1>5. QueueHolds(rxq, g_rxq_head, 0, wire, 0)
  BY DEF QueueHolds
<1>6. hold = NoPacket
  BY DEF NicInit
<1>. HIDE DEF p
<1>. QED  BY <1>1, <1>2, <1>3, <1>4, <1>5, <1>6 DEF NicInv

-----------------------------------------------------------------------------
(* The resolver                                                            *)

NetType ==
  /\ asked \subseteq Hosts
  /\ answers \subseteq [txid : Nat, ip : Datas]
  /\ txid \in Nat /\ g_dns_txid \in Nat /\ queries \in 0..MaxQueries
  /\ pc \in {"idle", "send", "arp", "wait"} /\ (pc # "idle" => hostname \in HostNames)

IInv == NicInv /\ NetType

\* The network sends frames.
LEMMA ArrivingFrames ==
  ASSUME NetType
  PROVE  /\ \A a \in answers : [NoFrame EXCEPT !.kind = "answer", !.src = DnsHost, !.txid = a.txid, !.data = a.ip] \in Frame
         /\ \A h \in asked \cup (Hosts \ {DnsHost}) : [NoFrame EXCEPT !.kind = "arp", !.src = h] \in Frame
<1>1. DnsHost \in Srcs /\ "none" \in Srcs /\ Hosts \subseteq Srcs /\ "none" \in Datas
  BY NamesAssumption DEF Srcs, Datas
<1>2. ASSUME NEW a \in answers PROVE a.txid \in Nat /\ a.ip \in Datas
  BY DEF NetType
<1>3. asked \cup (Hosts \ {DnsHost}) \subseteq Srcs
  BY <1>1 DEF NetType
<1>. QED  BY <1>1, <1>2, <1>3 DEF Frame, NoFrame

\* One for each kind of step.
LEMMA NetworkInv == ASSUME IInv, Network PROVE IInv'
<1>1. \E f \in Frame : Arrive(f)
  BY ArrivingFrames DEF IInv, Network, AnswerArrives, ArpArrives
<1>2. NicInv'
  BY <1>1, ArriveInv DEF IInv
<1>3. NetType'
  BY DEF IInv, Network, names_vars, NetType
<1>. QED  BY <1>2, <1>3 DEF IInv

LEMMA PollInv == ASSUME IInv, net_poll PROVE IInv'
<1>1. NicInv'
  BY CopyInv, FreeInv DEF IInv, net_poll
<1>2. NetType'
  BY DEF IInv, net_poll, NetType
<1>. QED  BY <1>1, <1>2 DEF IInv

\* What the server answers.
LEMMA SendType == ASSUME NetType, pc # "idle", ip_send PROVE answers' \subseteq [txid : Nat, ip : Datas]
<1>1. hostname \in HostNames /\ txid \in Nat
  BY DEF NetType
<1>2. {Address(hostname), "nxdomain"} \subseteq Datas
  BY <1>1 DEF Datas
<1>. QED  BY <1>1, <1>2 DEF ip_send, NetType

LEMMA ResolverInv == ASSUME IInv, Resolver PROVE IInv'
<1>1. UNCHANGED nic_vars
  BY DEF Resolver, dns_resolve, udp_send, arp_resolve, udp_recv, Deadline
<1>2. NicInv'
  BY <1>1 DEF IInv, NicInv, NicType, InRing, Length, Queued, nic_vars
<1>3. NetType
  BY DEF IInv
<1>4. ASSUME NEW n \in HostNames, dns_resolve(n) PROVE NetType'
  <2>1. (UNCHANGED queries \/ (queries < MaxQueries /\ queries' = queries + 1)) => queries' \in 0..MaxQueries
    BY <1>3, NamesAssumption DEF NetType
  <2>2. queries' \in 0..MaxQueries
    BY <1>4, <2>1 DEF dns_resolve
  <2>3. g_dns_txid' \in Nat
    <3>1. (g_dns_txid + 1) % TXIDS \in Nat
      BY <1>3, NamesAssumption DEF NetType
    <3>. QED  BY <1>3, <1>4, <3>1 DEF dns_resolve, NetType
  <2>. QED  BY <1>3, <1>4, <2>2, <2>3 DEF dns_resolve, NetType
<1>5. ASSUME udp_send PROVE NetType'
  BY <1>3, <1>5, SendType, NamesAssumption DEF udp_send, arp_send_request, NetType
<1>6. ASSUME arp_resolve PROVE NetType'
  BY <1>3, <1>6, SendType DEF arp_resolve, NetType
<1>7. ASSUME udp_recv PROVE NetType'
  BY <1>3, <1>7 DEF udp_recv, NetType
<1>8. ASSUME Deadline PROVE NetType'
  BY <1>3, <1>8 DEF Deadline, NetType
<1>9. NetType'
  BY <1>4, <1>5, <1>6, <1>7, <1>8 DEF Resolver
<1>. QED  BY <1>2, <1>9 DEF IInv

\* Every step keeps the invariant, every first state has it.
LEMMA Step == ASSUME IInv, [Next]_vars PROVE IInv'
<1>1. CASE Network
  BY <1>1, NetworkInv
<1>2. CASE Handler /\ UNCHANGED names_vars
  <2>1. NicInv'
    BY <1>2, HandlerInv DEF IInv
  <2>2. NetType'
    BY <1>2 DEF IInv, NetType, names_vars
  <2>. QED  BY <2>1, <2>2 DEF IInv
<1>3. CASE net_poll
  BY <1>3, PollInv
<1>4. CASE Resolver
  BY <1>4, ResolverInv
<1>5. CASE UNCHANGED vars
  BY <1>5 DEF IInv, NicInv, NicType, InRing, Length, Queued, NetType, vars, nic_vars, names_vars
<1>. QED  BY <1>1, <1>2, <1>3, <1>4, <1>5 DEF Next

LEMMA Start == ASSUME Init PROVE IInv
<1>1. NicInv
  BY NicStart DEF Init
<1>. QED  BY <1>1, NamesAssumption DEF Init, IInv, NetType

LEMMA Invariance == Spec => []IInv
<1>1. Init => IInv
  BY Start
<1>2. IInv /\ [Next]_vars => IInv'
  BY Step
<1>. QED  BY <1>1, <1>2, PTL DEF Spec

-----------------------------------------------------------------------------
(* What the queue is                                                       *)

\* The queue as the invariant has it is the queue as the property has it.
LEMMA QueueIs ==
  ASSUME NicInv
  PROVE  /\ Length \in Nat
         /\ \A i \in 0..(Length - 1) :
              LET f == rxq[Slot(g_rxq_head + i)]
              IN f.id \in DOMAIN wire /\ f.id \in Nat /\ Copies(f, wire)
         /\ \A i \in 0..(Length - 1) : \A j \in 0..(Length - 1) :
              i < j => rxq[Slot(g_rxq_head + i)].id < rxq[Slot(g_rxq_head + j)].id
         /\ hold # NoPacket => /\ Queued /\ 0 \in 0..(Length - 1)
                              /\ hold = rxq[Slot(g_rxq_head + 0)]
<1>1. NicType
  BY DEF NicInv
<1>2. Len(wire) \in Nat /\ DOMAIN wire = 1..Len(wire)
  <2>1. wire \in Seq(Frame)
    BY <1>1 DEF NicType
  <2>. QED  BY <2>1, LenProperties
<1>3. Length \in 0..(NET_RXQUEUE_SLOTS - 1) /\ (Length = 0 <=> ~Queued)
  BY <1>1, FillIs
<1>. DEFINE n == Length
<1>4. PICK k \in 0..Len(wire) : QueueHolds(rxq, g_rxq_head, n, wire, k)
  BY DEF NicInv
<1>5. 1..k \subseteq DOMAIN wire /\ \A i \in 1..k : i \in Nat
  BY <1>2
<1>6. Slot(g_rxq_head + 0) = g_rxq_head
  <2>. DEFINE M == NET_RXQUEUE_SLOTS
              a == g_rxq_head
  <2>1. M \in Nat \ {0} /\ a \in 0..(M - 1)
    BY <1>1, Sizes DEF NicType, Queue
  <2>. HIDE DEF a, M
  <2>2. 0 \in 0..M /\ a + 0 = a /\ a + 0 < M
    BY <2>1
  <2>3. (a + 0) % M = IF a + 0 < M THEN a + 0 ELSE a + 0 - M
    BY <2>1, <2>2, TurnIs
  <2>4. (a + 0) % M = a
    BY <2>2, <2>3
  <2>. QED  BY <2>4 DEF Slot, a, M
<1>7. hold # NoPacket => Queued /\ hold = rxq[g_rxq_head]
  BY DEF NicInv
<1>8. n \in Nat /\ (Queued => 0 \in 0..(n - 1))
  <2>1. NET_RXQUEUE_SLOTS \in Nat
    BY Sizes
  <2>. HIDE DEF n
  <2>2. n \in Nat /\ (n # 0 => 0 \in 0..(n - 1))
    BY <1>3, <2>1 DEF n
  <2>. QED  BY <1>3, <2>2 DEF n
<1>9. /\ \A i \in 0..(n - 1) : rxq[Slot(g_rxq_head + i)].id \in 1..k
                               /\ Copies(rxq[Slot(g_rxq_head + i)], wire)
      /\ \A i \in 0..(n - 1) : \A j \in 0..(n - 1) :
           i < j => rxq[Slot(g_rxq_head + i)].id < rxq[Slot(g_rxq_head + j)].id
  BY <1>4 DEF QueueHolds
<1>. HIDE DEF n
<1>10. \A i \in 0..(n - 1) :
         LET f == rxq[Slot(g_rxq_head + i)]
         IN f.id \in DOMAIN wire /\ f.id \in Nat /\ Copies(f, wire)
  BY <1>5, <1>9
<1>. QED  BY <1>6, <1>7, <1>8, <1>9, <1>10 DEF n

\* Whatever the card, the interrupt handler and the thread do, and however full
\* the ring and the queue are: the queue holds accepted frames in the order in
\* which they were accepted, none twice, and a frame that did not reach the end
\* of the ring is as it was on the wire; rtl8139_recv takes the oldest.
THEOREM QueueIsOrdered == Spec => []QueueOrdered
<1>1. IInv => QueueOrdered
  <2>. SUFFICES ASSUME IInv PROVE QueueOrdered
    OBVIOUS
  <2>. DEFINE n == Length
  <2>1. /\ \A i \in 0..(n - 1) : InQueue(i).id \in DOMAIN wire /\ Copies(InQueue(i), wire)
        /\ \A i \in 0..(n - 1) : \A j \in 0..(n - 1) : i < j => InQueue(i).id < InQueue(j).id
        /\ hold # NoPacket => Queued /\ hold = InQueue(0)
    BY QueueIs DEF IInv, InQueue
  <2>. HIDE DEF n
  <2>. QED  BY <2>1 DEF QueueOrdered, Copies, n
<1>. QED  BY <1>1, Invariance, PTL

-----------------------------------------------------------------------------
(* What dns_resolve returns                                                *)

\* f carries an answer that the server gave.
Genuine(f) == [txid |-> f.txid, ip |-> f.data] \in answers

FramesGenuine ==
  /\ \A i \in DOMAIN wire : wire[i].kind = "arp" \/ Genuine(wire[i])
  /\ g_udp_queue \in Seq(Datagram)
  /\ \A i \in DOMAIN g_udp_queue : g_udp_queue[i].whole => Genuine(g_udp_queue[i])

\* A transaction number is used for one name: answers that carry it are about that name.
NumbersFresh ==
  /\ queries < TXIDS => g_dns_txid = queries
  /\ pc # "idle" => txid < queries /\ found = "none"
  /\ \A a \in answers :
       a.txid < queries /\ (pc # "idle" /\ a.txid = txid => a.ip \in {Address(hostname), "nxdomain"})

\* What was whole and is filed under its own name is right.
CacheSound ==
  /\ DOMAIN g_dns_cache = 1..DNS_CACHE_SLOTS
  /\ \A i \in DOMAIN g_dns_cache :
       g_dns_cache[i].whole /\ g_dns_cache[i].of = g_dns_cache[i].name
         => g_dns_cache[i].ip \in {Address(g_dns_cache[i].name), "none"}

\* Transaction numbers have sixteen bits; they are not used up.
FewQueries == MaxQueries <= TXIDS

ResolveInv == FramesGenuine /\ NumbersFresh /\ CacheSound /\ ResolveRight

\* The packet the thread holds is that of a frame.
LEMMA HeldIs ==
  ASSUME NicInv, FramesGenuine, hold # NoPacket
  PROVE  wire[hold.id] \in Frame /\ (wire[hold.id].kind = "arp" \/ Genuine(wire[hold.id]))
<1>1. hold.id \in DOMAIN wire
  BY QueueIs
<1>. QED  BY <1>1 DEF FramesGenuine, NicInv, NicType

\* What it may be taken for can be a datagram.
LEMMA TakenIs ==
  ASSUME NicInv, FramesGenuine, hold # NoPacket, NEW f \in TakenFor(hold), f.kind = "answer",
         NEW g, g = [txid |-> f.txid, data |-> f.data, whole |-> Intact(hold)]
  PROVE  g \in Datagram /\ (g.whole => Genuine(g))
<1>1. Intact(hold) \in BOOLEAN
  BY DEF Intact
<1>2. CASE Intact(hold)
  BY <1>2, HeldIs DEF TakenFor, Frame, Datagram, Genuine
<1>3. CASE ~Intact(hold)
  <2>1. f \in Garbled
    BY <1>3 DEF TakenFor
  <2>2. NoFrame.kind # "answer" /\ \A r \in GarbledArp : r.kind # "answer"
    BY DEF NoFrame, GarbledArp
  <2>4. f \in GarbledAnswers
    BY <2>1, <2>2 DEF Garbled
  <2>5. PICK x \in (0..(TXIDS - 1)) \X (Addresses \cup {"nxdomain", "junk"}) : f = GarbledAnswer(x[1], x[2])
    BY <2>4 DEF GarbledAnswers
  <2>. DEFINE t == x[1]
              a == x[2]
  <2>6. f.txid = t /\ f.data = a
    BY <2>5 DEF GarbledAnswer, NoFrame
  <2>7. t \in Nat /\ a \in Datas \cup {"junk"}
    BY NamesAssumption DEF Datas, Addresses
  <2>. QED  BY <1>1, <1>3, <2>6, <2>7 DEF Datagram
<1>. QED  BY <1>2, <1>3

\* A frame that was given by the server arrives, or one of ARP.
LEMMA ArriveGenuine ==
  ASSUME NicInv, FramesGenuine, NEW f \in Frame, Arrive(f), f.kind = "arp" \/ Genuine(f),
         UNCHANGED <<answers, g_udp_queue>>
  PROVE  FramesGenuine'
<1>. DEFINE g == [f EXCEPT !.at = cbr]
<1>1. g.kind = "arp" \/ Genuine(g)
  BY DEF Genuine, Frame
<1>2. wire' = wire \/ wire' = Append(wire, g)
  BY DEF Arrive
<1>3. wire \in Seq(Frame)
  BY DEF NicInv, NicType
<1>4. g \in Frame
  <2>1. cbr \in Nat
    BY Sizes DEF NicInv, NicType, Cells
  <2>. QED  BY <2>1 DEF Frame
<1>. HIDE DEF g
<1>5. \A i \in DOMAIN wire' : wire'[i] = g \/ (i \in DOMAIN wire /\ wire'[i] = wire[i])
  <2>1. CASE wire' = wire
    BY <2>1
  <2>2. CASE wire' = Append(wire, g)
    <3>1. /\ Len(wire') = Len(wire) + 1 /\ wire' \in Seq(Frame) /\ wire'[Len(wire) + 1] = g
          /\ \A i \in 1..Len(wire) : wire'[i] = wire[i]
      BY <1>3, <1>4, <2>2, AppendProperties
    <3>2. DOMAIN wire' = 1..(Len(wire) + 1) /\ DOMAIN wire = 1..Len(wire) /\ Len(wire) \in Nat
      BY <1>3, <3>1, LenProperties
    <3>3. \A i \in 1..(Len(wire) + 1) : i = Len(wire) + 1 \/ i \in 1..Len(wire)
      BY <3>2
    <3>. QED  BY <3>1, <3>2, <3>3
  <2>. QED  BY <1>2, <2>1, <2>2
<1>. QED  BY <1>1, <1>5 DEF FramesGenuine, Genuine

\* The network delivers what was answered, so often as it may.
LEMMA NetworkResolve == ASSUME IInv, ResolveInv, Network PROVE ResolveInv'
<1>1. UNCHANGED names_vars
  BY DEF Network
<1>2. PICK f \in Frame : Arrive(f) /\ (f.kind = "arp" \/ Genuine(f))
  <2>1. CASE AnswerArrives
    <3>1. PICK a \in answers :
            Arrive([NoFrame EXCEPT !.kind = "answer", !.src = DnsHost, !.txid = a.txid, !.data = a.ip])
      BY <2>1 DEF AnswerArrives
    <3>. DEFINE f == [NoFrame EXCEPT !.kind = "answer", !.src = DnsHost, !.txid = a.txid, !.data = a.ip]
    <3>2. f \in Frame
      BY ArrivingFrames DEF IInv
    <3>3. f.kind = "answer" /\ f.txid = a.txid /\ f.data = a.ip
      BY DEF NoFrame
    <3>4. a = [txid |-> a.txid, ip |-> a.ip]
      BY DEF IInv, NetType
    <3>5. Genuine(f)
      BY <3>3, <3>4 DEF Genuine
    <3>. QED  BY <3>1, <3>2, <3>5
  <2>2. CASE ArpArrives
    <3>1. PICK h \in asked \cup (Hosts \ {DnsHost}) : Arrive([NoFrame EXCEPT !.kind = "arp", !.src = h])
      BY <2>2 DEF ArpArrives
    <3>2. [NoFrame EXCEPT !.kind = "arp", !.src = h].kind = "arp"
      BY DEF NoFrame
    <3>. QED  BY <3>1, <3>2, ArrivingFrames DEF IInv
  <2>. QED  BY <2>1, <2>2 DEF Network
<1>3. FramesGenuine'
  BY <1>1, <1>2, ArriveGenuine DEF IInv, ResolveInv, names_vars
<1>4. (NumbersFresh /\ CacheSound /\ ResolveRight)'
  BY <1>1 DEF ResolveInv, NumbersFresh, CacheSound, ResolveRight, names_vars
<1>. QED  BY <1>3, <1>4 DEF ResolveInv

\* A datagram is put in the queue of UDP, or dropped.
LEMMA PollResolve == ASSUME IInv, ResolveInv, net_poll PROVE ResolveInv'
<1>1. UNCHANGED <<g_dns_cache, g_dns_txid, queries, pc, hostname, txid, retry, found, sound, asked, answers>>
  BY DEF net_poll
<1>2. (NumbersFresh /\ CacheSound /\ ResolveRight)'
  BY <1>1 DEF ResolveInv, NumbersFresh, CacheSound, ResolveRight
<1>3. UNCHANGED wire
  BY DEF net_poll, RecvCopy, RecvFree
<1>4. g_udp_queue \in Seq(Datagram) /\ \A i \in DOMAIN g_udp_queue : g_udp_queue[i].whole => Genuine(g_udp_queue[i])
  BY DEF ResolveInv, FramesGenuine
<1>5. CASE UNCHANGED g_udp_queue
  BY <1>1, <1>2, <1>3, <1>5 DEF ResolveInv, FramesGenuine, Genuine
<1>6. ASSUME hold # NoPacket, NEW f \in TakenFor(hold), f.kind = "answer", udp_recv_pkt(f, Intact(hold)),
             ~UNCHANGED g_udp_queue
      PROVE  ResolveInv'
  <2>. DEFINE g == [txid |-> f.txid, data |-> f.data, whole |-> Intact(hold)]
  <2>0. g_udp_queue' = Append(g_udp_queue, g)
    BY <1>6 DEF udp_recv_pkt
  <2>1. g \in Datagram /\ (g.whole => Genuine(g))
    BY <1>6, TakenIs DEF IInv, ResolveInv
  <2>. HIDE DEF g
  <2>. DEFINE s == g_udp_queue
  <2>2. /\ Len(s') = Len(s) + 1 /\ s' \in Seq(Datagram) /\ s'[Len(s) + 1] = g
        /\ \A i \in 1..Len(s) : s'[i] = s[i]
    BY <1>4, <2>0, <2>1, AppendProperties
  <2>3. DOMAIN s' = 1..(Len(s) + 1) /\ DOMAIN s = 1..Len(s) /\ Len(s) \in Nat
    BY <1>4, <2>2, LenProperties
  <2>4. \A i \in 1..(Len(s) + 1) : i = Len(s) + 1 \/ i \in 1..Len(s)
    BY <2>3
  <2>5. \A i \in DOMAIN s' : s'[i].whole => Genuine(s'[i])
    BY <1>4, <2>1, <2>2, <2>3, <2>4
  <2>. QED  BY <1>1, <1>2, <1>3, <2>2, <2>5 DEF ResolveInv, FramesGenuine, Genuine
<1>7. UNCHANGED g_udp_queue \/ (hold # NoPacket /\ \E f \in TakenFor(hold) : f.kind = "answer" /\ udp_recv_pkt(f, Intact(hold)))
  BY DEF net_poll, RecvFree, arp_recv
<1>. QED  BY <1>1, <1>2, <1>3, <1>5, <1>6, <1>7

\* The answer to a query is one of the server, under a number of its own.
LEMMA SendResolve ==
  ASSUME ResolveInv, pc # "idle", pc' # "idle", ip_send \/ UNCHANGED answers,
         UNCHANGED <<wire, g_udp_queue, g_dns_cache, g_dns_txid, queries, hostname, txid, found, sound>>
  PROVE  ResolveInv'
<1>1. answers \subseteq answers' /\ \A a \in answers' \ answers : a.txid = txid /\ a.ip \in {Address(hostname), "nxdomain"}
  BY DEF ip_send
<1>2. FramesGenuine'
  BY <1>1 DEF ResolveInv, FramesGenuine, Genuine
<1>3. NumbersFresh'
  BY <1>1 DEF ResolveInv, NumbersFresh
<1>4. CacheSound' /\ ResolveRight'
  BY DEF ResolveInv, CacheSound, ResolveRight
<1>. QED  BY <1>2, <1>3, <1>4 DEF ResolveInv

\* What the search for the first slot finds.
LEMMA MinOfIs == ASSUME NEW T \in SUBSET Nat, T # {} PROVE MinOf(T) \in T
BY Least DEF MinOf

\* A cached name is answered; for another a new number is taken.
LEMMA StartResolve ==
  ASSUME FewQueries, IInv, ResolveInv, NEW n \in HostNames, dns_resolve(n)
  PROVE  ResolveInv'
<1>1. /\ pc = "idle" /\ hostname' = n
      /\ UNCHANGED <<wire, g_udp_queue, g_dns_cache, answers>>
      /\ FramesGenuine /\ NumbersFresh /\ CacheSound
  BY DEF dns_resolve, ResolveInv, nic_vars
<1>2. FramesGenuine' /\ CacheSound'
  BY <1>1 DEF FramesGenuine, CacheSound, Genuine
<1>3. CASE CacheHits(n) # {}
  <2>. DEFINE e == dns_cache_lookup(n)
  <2>1. found' = e.ip /\ sound' = (e.whole /\ e.of = n) /\ UNCHANGED <<g_dns_txid, queries, pc, txid>>
    BY <1>3 DEF dns_resolve
  <2>2. CacheHits(n) \subseteq 1..DNS_CACHE_SLOTS
    BY <1>1 DEF CacheHits, CacheSound
  <2>3. MinOf(CacheHits(n)) \in CacheHits(n)
    <3>1. CacheHits(n) \in SUBSET Nat
      BY <2>2, NamesAssumption
    <3>. QED  BY <1>3, <3>1, MinOfIs
  <2>4. sound' => found' \in {Address(n), "none"}
    BY <1>1, <2>1, <2>3 DEF CacheHits, CacheSound, dns_cache_lookup
  <2>. QED  BY <1>1, <1>2, <2>1, <2>4 DEF ResolveInv, NumbersFresh, ResolveRight
<1>4. CASE CacheHits(n) = {}
  <2>1. /\ g_dns_txid' = (g_dns_txid + 1) % TXIDS /\ txid' = g_dns_txid /\ found' = "none"
        /\ pc' = "send" /\ queries < MaxQueries /\ queries' = queries + 1
    BY <1>4 DEF dns_resolve
  <2>2. MaxQueries \in Nat /\ TXIDS \in Nat \ {0} /\ \A a \in answers : a.txid \in Nat
    BY NamesAssumption DEF IInv, NetType
  <2>3. queries \in Nat
    BY <2>2 DEF IInv, NetType
  <2>4. g_dns_txid = queries /\ queries < TXIDS
    BY <1>1, <2>1, <2>2, <2>3 DEF FewQueries, NumbersFresh
  <2>5. queries' < TXIDS => g_dns_txid' = queries'
    <3>. DEFINE x == queries + 1
    <3>1. x \in Int /\ 0 <= x
      BY <2>3
    <3>. HIDE DEF x
    <3>2. x < TXIDS => x < TXIDS + TXIDS
      BY <2>2, <3>1
    <3>3. x < TXIDS => x % TXIDS = x
      BY <2>2, <3>1, <3>2, Mod
    <3>. QED  BY <2>1, <2>4, <3>3 DEF x
  <2>6. \A a \in answers : a.txid < queries' /\ a.txid # txid'
    BY <1>1, <2>1, <2>2, <2>3, <2>4 DEF NumbersFresh
  <2>7. txid' < queries'
    BY <2>1, <2>3, <2>4
  <2>8. NumbersFresh'
    BY <1>1, <2>1, <2>5, <2>6, <2>7 DEF NumbersFresh
  <2>. QED  BY <1>2, <2>1, <2>8 DEF ResolveInv, ResolveRight
<1>. QED  BY <1>3, <1>4

\* An address is stored with the name it is for, unless the name is cut.
LEMMA StoreSound ==
  ASSUME CacheSound, NEW n, NEW a, NEW b, dns_cache_store(n, a, b), b => a = Address(n)
  PROVE  CacheSound'
<1>. DEFINE slot == IF CacheHits("none") # {} THEN MinOf(CacheHits("none")) ELSE 1
            e == [name |-> Cut(n), of |-> n, ip |-> a, whole |-> b]
<1>1. g_dns_cache' = [g_dns_cache EXCEPT ![slot] = e]
  BY DEF dns_cache_store
<1>2. e.whole /\ e.of = e.name => e.ip = Address(e.name)
  OBVIOUS
<1>. HIDE DEF slot, e
<1>. QED  BY <1>1, <1>2 DEF CacheSound

\* What is taken for the answer is the answer for this name.
LEMMA ReceiveResolve == ASSUME IInv, ResolveInv, udp_recv PROVE ResolveInv'
<1>. DEFINE f == Head(g_udp_queue)
<1>1. /\ pc = "wait" /\ g_udp_queue # <<>> /\ g_udp_queue' = Tail(g_udp_queue)
      /\ UNCHANGED <<wire, g_dns_txid, queries, hostname, txid, answers>>
      /\ IF dns_parse_response(f) THEN found' = f.data /\ sound' = f.whole /\ dns_cache_store(hostname, f.data, f.whole) /\ pc' = "idle"
         ELSE UNCHANGED <<found, sound, g_dns_cache, pc>>
  BY DEF udp_recv, nic_vars
<1>2. g_udp_queue \in Seq(Datagram) /\ \A i \in DOMAIN g_udp_queue : g_udp_queue[i].whole => Genuine(g_udp_queue[i])
  BY DEF ResolveInv, FramesGenuine
<1>3. f.whole => Genuine(f)
  BY <1>1, <1>2, HeadTailProperties
<1>4. FramesGenuine'
  <2>. DEFINE t == Tail(g_udp_queue)
  <2>1. t \in Seq(Datagram) /\ Len(t) = Len(g_udp_queue) - 1 /\ \A i \in 1..Len(t) : t[i] = g_udp_queue[i + 1]
    BY <1>1, <1>2, HeadTailProperties
  <2>2. DOMAIN t = 1..Len(t) /\ DOMAIN g_udp_queue = 1..Len(g_udp_queue) /\ Len(g_udp_queue) \in Nat
    BY <1>2, <2>1, LenProperties
  <2>. HIDE DEF t
  <2>3. \A i \in DOMAIN t : i + 1 \in DOMAIN g_udp_queue
    BY <2>1, <2>2
  <2>4. \A i \in DOMAIN t : t[i].whole => Genuine(t[i])
    BY <1>2, <2>1, <2>2, <2>3
  <2>5. g_udp_queue' = t
    BY <1>1 DEF t
  <2>. QED  BY <1>1, <2>1, <2>4, <2>5 DEF ResolveInv, FramesGenuine, Genuine
<1>. HIDE DEF f
<1>5. CASE dns_parse_response(f)
  <2>1. found' = f.data /\ sound' = f.whole /\ dns_cache_store(hostname, f.data, f.whole) /\ pc' = "idle"
    BY <1>1, <1>5
  <2>2. f.whole => f.data = Address(hostname)
    <3>. SUFFICES ASSUME f.whole PROVE f.data = Address(hostname)
      OBVIOUS
    <3>1. f.txid = txid /\ f.data # "nxdomain" /\ [txid |-> f.txid, ip |-> f.data] \in answers
      BY <1>3, <1>5 DEF dns_parse_response, Genuine
    <3>. QED  BY <1>1, <3>1 DEF ResolveInv, NumbersFresh
  <2>3. CacheSound'
    BY <2>1, <2>2, StoreSound DEF ResolveInv
  <2>4. NumbersFresh' /\ ResolveRight'
    BY <1>1, <2>1, <2>2 DEF ResolveInv, NumbersFresh, ResolveRight
  <2>. QED  BY <1>4, <2>3, <2>4 DEF ResolveInv
<1>6. CASE ~dns_parse_response(f)
  <2>1. UNCHANGED <<found, sound, g_dns_cache, pc>>
    BY <1>1, <1>6
  <2>. QED  BY <1>1, <1>4, <2>1 DEF ResolveInv, NumbersFresh, CacheSound, ResolveRight
<1>. QED  BY <1>5, <1>6

\* All that the thread does.
LEMMA ResolverResolve == ASSUME FewQueries, IInv, ResolveInv, Resolver PROVE ResolveInv'
<1>1. CASE udp_send \/ arp_resolve
  BY <1>1, SendResolve DEF udp_send, arp_resolve, nic_vars
<1>2. CASE Deadline
  <2>1. /\ pc = "wait" /\ pc' \in {"send", "idle"}
        /\ UNCHANGED <<wire, g_udp_queue, g_dns_cache, g_dns_txid, queries, hostname, txid, found, sound, answers>>
    BY <1>2 DEF Deadline, nic_vars
  <2>2. FramesGenuine' /\ CacheSound'
    BY <2>1 DEF ResolveInv, FramesGenuine, CacheSound, Genuine
  <2>3. NumbersFresh' /\ ResolveRight'
    BY <2>1 DEF ResolveInv, NumbersFresh, ResolveRight
  <2>. QED  BY <2>2, <2>3 DEF ResolveInv
<1>. QED  BY <1>1, <1>2, StartResolve, ReceiveResolve DEF Resolver

\* Every step of the system.
LEMMA ResolveStep == ASSUME FewQueries, IInv, ResolveInv, [Next]_vars PROVE ResolveInv'
<1>1. CASE Handler /\ UNCHANGED names_vars
  BY <1>1 DEF Handler, rtl8139_handler, rtl8139_do_rx, RxDone, RxOverflow, names_vars,
              ResolveInv, FramesGenuine, NumbersFresh, CacheSound, ResolveRight, Genuine
<1>2. CASE UNCHANGED vars
  BY <1>2 DEF vars, nic_vars, names_vars,
              ResolveInv, FramesGenuine, NumbersFresh, CacheSound, ResolveRight, Genuine
<1>. QED  BY <1>1, <1>2, NetworkResolve, PollResolve, ResolverResolve DEF Next

LEMMA ResolveStart == ASSUME Init PROVE ResolveInv
<1>1. FramesGenuine
  BY DEF Init, NicInit, FramesGenuine
<1>2. CacheSound
  BY DEF Init, CacheSound, NoEntry
<1>3. NumbersFresh /\ ResolveRight
  BY DEF Init, NumbersFresh, ResolveRight
<1>. QED  BY <1>1, <1>2, <1>3 DEF ResolveInv

\* Until the transaction numbers are used up, and for any card, table and queue:
\* what dns_resolve returns, from a whole datagram or from an entry stored for
\* this name, is what the server gives for the name, however late, repeated or
\* reordered the answers to this and to earlier queries are.
THEOREM ResolvesRight == ASSUME FewQueries PROVE Spec => []ResolveRight
<1>1. Init => ResolveInv
  BY ResolveStart
<1>2. IInv /\ ResolveInv /\ [Next]_vars => ResolveInv'
  BY ResolveStep
<1>3. ResolveInv => ResolveRight
  BY DEF ResolveInv
<1>. QED  BY <1>1, <1>2, <1>3, Invariance, PTL DEF Spec
=============================================================================
