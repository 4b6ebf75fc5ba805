-------------------------------- MODULE Nic --------------------------------
(***************************************************************************)
(* The receive side of drivers/rtl8139.c: the card writes frames into a    *)
(* ring in memory while the interrupt handler copies them into a queue and *)
(* the kernel thread takes them out of the queue.  Memory is counted in    *)
(* units: a frame is the card's 4-byte header, which begins at a multiple  *)
(* of 4 and so is never split, and one unit of content or, when it is      *)
(* long, two.                                                              *)
(*                                                                         *)
(* The card is outside the source.  It writes while there is room, and     *)
(* programmed with the WRAP bit of RCR, as rtl8139_init does, it writes a  *)
(* frame that reaches the end of the ring straight on into the memory      *)
(* behind it.                                                              *)
(***************************************************************************)
EXTENDS Integers, Sequences

CONSTANTS
  NET_RX_BUF_SIZE,    \* units of the ring (8192 bytes)
  NET_RXQUEUE_SLOTS,  \* slots of the queue (8)
  MaxFrames           \* bound on the frames the card accepts

ASSUME NicAssumption ==
  /\ NET_RX_BUF_SIZE \in Nat /\ NET_RX_BUF_SIZE > 3
  /\ NET_RXQUEUE_SLOTS \in Nat /\ NET_RXQUEUE_SLOTS > 1
  /\ MaxFrames \in Nat

VARIABLES
  cells,            \* the memory of the ring and behind it: parts of frames
  cbr,              \* where the card writes next
  g_rx_offset,      \* where the driver reads next, as told to the card
  status,           \* the card's interrupt status: rok, ovw
  handler, isr,     \* rtl8139_handler: where it is, the status it read
  rxq, g_rxq_head, g_rxq_tail,  \* the queue of packets
  hold,             \* the packet rtl8139_recv has copied, its slot not yet freed
  wire              \* the frames accepted, in order, and where each was put

nic_vars == <<cells, cbr, g_rx_offset, status, handler, isr, rxq, g_rxq_head, g_rxq_tail, hold, wire>>

NoFrame == [kind |-> "none", src |-> "none", txid |-> 0, data |-> "none", at |-> 0]
\* Part k of the i-th frame; its header is part 0.  Memory is zeroed at first.
Part(i, k) == [frame |-> i, part |-> k]
Blank == Part(0, 0)
\* What the driver has copied of the i-th frame.
NoPacket == [id |-> 0, units |-> <<>>]

Ring(a) == a % NET_RX_BUF_SIZE
Slot(a) == a % NET_RXQUEUE_SLOTS
Content(f) == IF f.kind = "answer" THEN 2 ELSE 1
Units(f) == 1 + Content(f)
InRing == Ring(cbr - g_rx_offset + NET_RX_BUF_SIZE)

\* A frame arrives: it is written, or there is no room and it is lost.
Arrive(f) ==
  LET i == Len(wire) + 1
      n == Units(f)
  IN /\ i <= MaxFrames
     /\ IF InRing + n < NET_RX_BUF_SIZE
        THEN /\ cells' = [a \in DOMAIN cells |-> IF a \in cbr .. cbr + n - 1 THEN Part(i, a - cbr) ELSE cells[a]]
             /\ cbr' = Ring(cbr + n)
             /\ status' = status \cup {"rok"}
             /\ wire' = Append(wire, [f EXCEPT !.at = cbr])
        ELSE /\ status' = status \cup {"ovw"}
             /\ UNCHANGED <<cells, cbr, wire>>
     /\ UNCHANGED <<g_rx_offset, handler, isr, rxq, g_rxq_head, g_rxq_tail, hold>>

-----------------------------------------------------------------------------
(* The interrupt handler.                                                  *)

rtl8139_handler == /\ handler = "off" /\ status # {}
                   /\ isr' = status /\ status' = {}
                   /\ handler' = "rx"
                   /\ UNCHANGED <<cells, cbr, g_rx_offset, rxq, g_rxq_head, g_rxq_tail, hold, wire>>

\* The packet as the driver reads it: what goes past the end of the ring it
\* takes from its start.
ring_copy(o) == LET i == cells[o].frame
                IN [id |-> i, units |-> [k \in 1 .. Content(wire[i]) |-> cells[Ring(o + k)]]]

\* A bug: the queue may be filled to its last slot.
Mutant_Enqueued(p) == /\ rxq' = [rxq EXCEPT ![g_rxq_tail] = p]
                      /\ g_rxq_tail' = Slot(g_rxq_tail + 1)

\* A packet is dropped when the queue is full.
Enqueued(p) == IF Slot(g_rxq_tail + 1) # g_rxq_head
               THEN /\ rxq' = [rxq EXCEPT ![g_rxq_tail] = p]
                    /\ g_rxq_tail' = Slot(g_rxq_tail + 1)
               ELSE UNCHANGED <<rxq, g_rxq_tail>>

rtl8139_do_rx == /\ handler = "rx" /\ "rok" \in isr /\ cbr # g_rx_offset
                 /\ Enqueued(ring_copy(g_rx_offset))
                 /\ g_rx_offset' = Ring(g_rx_offset + Units(wire[cells[g_rx_offset].frame]))
                 /\ UNCHANGED <<cells, cbr, status, handler, isr, g_rxq_head, hold, wire>>
RxDone == /\ handler = "rx" /\ ("rok" \notin isr \/ cbr = g_rx_offset)
          /\ IF "ovw" \in isr THEN handler' = "ovw" ELSE handler' = "off"
          /\ isr' = {}
          /\ UNCHANGED <<cells, cbr, g_rx_offset, status, rxq, g_rxq_head, g_rxq_tail, hold, wire>>
\* After an overflow the driver skips what the card has written since.
RxOverflow == /\ handler = "ovw"
              /\ g_rx_offset' = cbr
              /\ handler' = "off"
              /\ UNCHANGED <<cells, cbr, status, isr, rxq, g_rxq_head, g_rxq_tail, hold, wire>>
Handler == rtl8139_handler \/ rtl8139_do_rx \/ RxDone \/ RxOverflow

-----------------------------------------------------------------------------
(* The kernel thread.                                                      *)

Queued == g_rxq_head # g_rxq_tail
\* rtl8139_recv copies the packet, then frees its slot.
RecvCopy == /\ Queued /\ hold = NoPacket
            /\ hold' = rxq[g_rxq_head]
            /\ UNCHANGED <<cells, cbr, g_rx_offset, status, handler, isr, rxq, g_rxq_head, g_rxq_tail, wire>>
RecvFree == /\ hold # NoPacket
            /\ hold' = NoPacket
            /\ g_rxq_head' = Slot(g_rxq_head + 1)
            /\ UNCHANGED <<cells, cbr, g_rx_offset, status, handler, isr, rxq, g_rxq_tail, wire>>

NicInit == /\ cells = [a \in 0 .. NET_RX_BUF_SIZE + 1 |-> Blank]
           /\ cbr = 0 /\ g_rx_offset = 0 /\ status = {}
           /\ handler = "off" /\ isr = {}
           /\ rxq = [s \in 0 .. NET_RXQUEUE_SLOTS - 1 |-> NoPacket]
           /\ g_rxq_head = 0 /\ g_rxq_tail = 0 /\ hold = NoPacket /\ wire = <<>>

-----------------------------------------------------------------------------
\* The packet holds its frame as it was on the wire.
Intact(p) == \A k \in DOMAIN p.units : p.units[k] = Part(p.id, k)
\* The frame went past the end of the ring.
Crossed(f) == f.at + Units(f) > NET_RX_BUF_SIZE
InQueue(i) == rxq[Slot(g_rxq_head + i)]
Length == Slot(g_rxq_tail - g_rxq_head + NET_RXQUEUE_SLOTS)

\* Between the card, the interrupt handler and the thread no frame is repeated
\* or put out of order, and only one that went past the end of the ring may be
\* torn: the queue holds accepted frames, oldest first, and the one being taken
\* (rtl8139_recv) is the one at its head until the slot is freed.
QueueOrdered ==
  /\ \A i \in 0 .. Length - 1 : /\ InQueue(i).id \in DOMAIN wire
                                /\ Crossed(wire[InQueue(i).id]) \/ Intact(InQueue(i))
  /\ \A i, j \in 0 .. Length - 1 : i < j => InQueue(i).id < InQueue(j).id
  /\ hold # NoPacket => Queued /\ hold = InQueue(0)

\* What the comment of ring_copy says: the second part of a frame that crosses
\* the boundary is at the start of the ring, so that every packet in the queue
\* is the frame that was on the wire.
QueueFaithful == \A i \in 0 .. Length - 1 : Intact(InQueue(i))
=============================================================================
