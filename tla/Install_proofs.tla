--------------------------- MODULE Install_proofs ---------------------------
(***************************************************************************)
(* Proofs about Usb.tla and Install.tla, for every way the ports may be    *)
(* populated, every size of the areas copied and every transfer that fails *)
(* on the way: the disk addressed after a scan, the truth of a completed   *)
(* sector command, and the copies of both installers.                      *)
(*                                                                         *)
(* The driver repeats nothing and resets nothing after a failure, so what  *)
(* host and device know of each other may differ for ever after.  The      *)
(* invariant therefore says of every device, whatever happened to it, only *)
(* two things: the commands it holds carry tags already given (Known), so  *)
(* that a status with the tag of the command in progress is about that     *)
(* command; and if it will still report success for that command, then the *)
(* sector is already what the caller will believe (Written, GotIt).  For a *)
(* read the argument rests on the data toggle: a status the driver accepts *)
(* next has the toggle that follows the packet it took as the data.        *)
(***************************************************************************)
EXTENDS Install, TLAPS

-----------------------------------------------------------------------------
(* The invariant *)

\* What may be plugged into a port.
Classes == {"none", "slow", "disk", "cdrom", "keyboard", "other"}
Ports   == [class : Classes, in : Nat, out : Nat]

\* What the driver sends, and what a device may keep of it.
Orders   == [op : {"inquiry", "read", "write"}, lba : Lba \cup {None}, tag : Nat \ {0}]
Commands == Orders \cup {NoCommand}
Packets  == Orders \cup [val : Values \cup {Junk}]
Devices  == [addr : Nat \cup {None}, in : {0, 1}, out : {0, 1},
             phase : {"idle", "out", "in", "csw", "dead"},
             cmd : Commands, good : BOOLEAN, queue : {q \in Seq(Packets) : Len(q) <= 1}]

\* The commands a device holds.
Knows(d) == {d.cmd} \cup IF d.queue # <<>> /\ IsCommand(Head(d.queue)) THEN {Head(d.queue)} ELSE {}

\* A device keeps a packet aside only while it has something to send, and what
\* it has to send or waits for is the data of its command.
DeviceOk(d) ==
  /\ d \in Devices
  /\ d.phase \in {"idle", "out"} => d.queue = <<>>
  /\ d.phase = "in"  => d.cmd \in Orders /\ d.cmd.op # "write"
  /\ d.phase = "out" => d.cmd \in Orders /\ d.cmd.op = "write"

\* The types of the variables.
Types ==
  /\ bus \in Buses
  /\ dev \in [Sockets -> Devices]
  /\ DOMAIN media = Sockets /\ \A s \in Sockets : DOMAIN media[s] = Lba
  /\ scan \in {"off", "hc", "port", "inquiry"} /\ hc \in 0..Len(bus) /\ port \in Nat \ {0} /\ nextAddr \in Nat \ {0}
  /\ addr \in Nat /\ ep \in [in : Nat, out : Nat] /\ msc \in [hc : Nat, addr : Nat] /\ usb_ok \in BOOLEAN
  /\ tog \in [in : {0, 1}, out : {0, 1}] /\ tag \in Nat
  /\ stage \in {"idle", "cbw", "data", "csw"} /\ result \in {"none", "ok", "err"}
  /\ req.op \in {"none", "inquiry", "read", "write"}

\* The driver between the steps of a command.
Driver ==
  /\ stage # "idle" => /\ Command \in Orders /\ addr > 0 /\ result = "none" /\ scan \in {"off", "inquiry"}
                       /\ (req.op = "write" => req.val \in Values /\ buf = req.val)
                       /\ (req.op = "inquiry" => scan = "inquiry")
  /\ req.op \in {"read", "write"} => req.lba \in Lba /\ scan = "off" /\ usb_ok
  /\ scan \in {"hc", "port"} => result = "none"

\* What the devices hold is of commands already given.
Past(d, t) == \A c \in Knows(d) : c.tag <= t
New(d, t)  == \A c \in Knows(d) : c.tag # t
\* A command with the tag of c is c itself.
Mine(d, c) == \A k \in Knows(d) : k.tag = c.tag => k = c
\* No device knows the command in progress before it was sent, and none takes
\* another command for it afterwards.
Known ==
  \A s \in Sockets :
    /\ DeviceOk(dev[s]) /\ Past(dev[s], tag)
    /\ stage = "cbw" => New(dev[s], tag)
    /\ stage \in {"data", "csw"} => Mine(dev[s], Command)

\* A device that will report success for the command in progress.
Succeeds(d, t) == d.phase = "csw" /\ d.good /\ d.cmd.tag = t

\* A device that will report success for a write has written.
Written ==
  stage \in {"data", "csw"} /\ req.op = "write" =>
    \A s \in Sockets : Succeeds(dev[s], tag) => media[s][req.lba] = req.val

\* A device whose status, at the toggle x the driver expects, will be success:
\* it sends it next, or sends its data first and the data is a repeat to the
\* driver.
WillSucceed(d, t, x) ==
  /\ d.cmd.tag = t
  /\ \/ d.phase = "csw" /\ d.good /\ d.in = x
     \/ d.phase = "in" /\ d.in # x

\* If the device will report success for a read, the driver has the sector.
GotIt ==
  stage = "csw" /\ req.op = "read" =>
    \A s \in Sockets : s \in Answering /\ WillSucceed(dev[s], tag, tog.in) => buf = media[s][req.lba]

\* Devices behind one controller have addresses of their own, those of the scan
\* are below nextAddr, and the disk that was kept answers at the address kept.
Enumerated ==
  /\ \A s, t \in Sockets : s[1] = t[1] /\ dev[s].addr = dev[t].addr /\ s # t => dev[s].addr \in {None, 0}
  /\ scan \in {"port", "inquiry"} => /\ hc \in 1..Len(bus)
                       /\ \A s \in Sockets : s[1] = hc => /\ dev[s].addr < nextAddr
                                                         /\ (s[2] >= port => dev[s].addr = None)
  /\ scan = "inquiry" => /\ addr = nextAddr - 1 /\ addr > 0 /\ <<hc, port - 1>> \in Sockets
                         /\ dev[<<hc, port - 1>>].addr = addr
  /\ usb_ok /\ scan # "off" => msc.hc <= hc
  /\ usb_ok => /\ msc.addr > 0
               /\ \E s \in Sockets : s[1] = msc.hc /\ dev[s].addr = msc.addr /\ Plug(s).class = "disk"
  /\ usb_ok /\ scan = "off" => hc = msc.hc /\ addr = msc.addr

\* The driver and its devices.
UsbInv == Types /\ Driver /\ Known /\ Written /\ GotIt /\ Enumerated /\ CompletedIsOnMedium

\* From power-on to the end of the boot wizard.
Early == {"boot", "wizard", "probing", "mounting", "installing", "copy", "copying", "halt"}

\* The kernel thread: what may be under way at each place.
Control ==
  /\ DOMAIN disk = {0, 1}
  /\ g_drives \subseteq {0, 1} /\ fitted \subseteq {0, 1}
  /\ lba \in Nat
  /\ pc \in Early \cup {"run", "io", "drives", "confirm", "chunk", "write", "failed", "complete"}
  /\ pc \in {"boot", "wizard", "probing"} => scan = "off" /\ stage = "idle" /\ result = "none" /\ ~usb_ok
  /\ pc \notin {"installing", "mounting"} => scan = "off"
  /\ pc \notin {"installing", "mounting", "io", "copying"} => stage = "idle"
  /\ pc \in {"io", "copying"} <=> req.op \in {"read", "write"}
  /\ pc = "io" => /\ io \in [op : {"read", "write"}, lba : Int, left : Nat \ {0}]
                  /\ io.lba .. io.lba + io.left - 1 \subseteq Used
  /\ pc = "copying" => req.op = "read" /\ req.lba = lba
  /\ pc \in {"installing", "copy", "copying", "confirm", "chunk", "write"} => sel \in {0, 1}
  /\ pc \in {"copy", "copying"} => usb_ok /\ lba \in 0..WizardSecs
  /\ pc = "copying" => lba < WizardSecs

\* Nothing has been written to a USB disk since power came.
NoWrite == /\ req.op # "write"
           /\ \A s \in Sockets : \A c \in Knows(dev[s]) : c.op # "write"

\* Until the wizard is over no write to a USB disk is under way or remembered.
Unwritten == pc \in Early => NoWrite

\* The boot wizard up to lba.
Copied ==
  pc \in {"copy", "copying", "halt"} /\ outcome = "complete" =>
    \A s \in Answering : \A l \in Span(0, IF pc = "halt" THEN WizardSecs ELSE lba) \ unseen : disk[sel][l] = media[s][l]

\* install.c up to lba.
Chunks ==
  /\ pc \in {"chunk", "write", "complete"} =>
       /\ \A l \in Span(0, Lesser(lba, INST_BOOT_SECS)) \ unseen : disk[sel][l] = disk[0][l]
       /\ outcome = "complete" => \A l \in Span(INST_BOOT_SECS, lba - INST_BOOT_SECS) \ unseen : disk[sel][l] = Zero
  /\ pc \in {"chunk", "write"} => lba <= INST_BOOT_SECS + INST_PDFS_ZERO /\ outcome = "complete"
  /\ pc = "write" => /\ lba < INST_BOOT_SECS
                     /\ \A l \in Span(lba, Cnt) : g_copy_buf[l] = disk[0][l]
  /\ pc = "complete" => /\ sel \in {0, 1} /\ lba >= INST_BOOT_SECS
                        /\ outcome = "complete" => lba = INST_BOOT_SECS + INST_PDFS_ZERO

\* The inductive invariant.
Inv == UsbInv /\ Control /\ Unwritten /\ Copied /\ Chunks

-----------------------------------------------------------------------------
(* What a device does with a packet *)

\* An order starts.
LEMMA StartsIs ==
  ASSUME NEW d \in Devices, d.queue = <<>>, NEW c \in Orders, NEW e \in Starts(d, c)
  PROVE  /\ DeviceOk(e) /\ e.addr = d.addr /\ e.in = d.in /\ e.queue = <<>> /\ e.cmd = c
         /\ (e.phase = "csw" /\ ~e.good) \/ e.phase \in {"in", "out"}
<1>1. e = [d EXCEPT !.cmd = c, !.good = FALSE, !.phase = "csw"]
      \/ e = [d EXCEPT !.cmd = c, !.good = TRUE, !.phase = IF c.op = "write" THEN "out" ELSE "in"]
  BY DEF Starts
<1>. QED  BY <1>1 DEF Devices, DeviceOk, Commands

\* Knows, of the two forms of a queue.
LEMMA KnowsIs ==
  ASSUME NEW d
  PROVE  /\ d.queue = <<>> => Knows(d) = {d.cmd}
         /\ \A p \in Orders : d.queue = <<p>> => Knows(d) = {d.cmd, p}
         /\ \A p \in [val : Values \cup {Junk}] : d.queue = <<p>> => Knows(d) = {d.cmd}
<1>1. \A p \in Orders : IsCommand(p)
  BY DEF IsCommand, Orders
<1>2. \A p \in [val : Values \cup {Junk}] : ~IsCommand(p)
  BY DEF IsCommand
<1>3. \A p : Head(<<p>>) = p /\ <<p>> # <<>>
  OBVIOUS
<1>. QED  BY <1>1, <1>2, <1>3 DEF Knows


\* The queue of a device has one of these forms.
LEMMA QueueIs ==
  ASSUME NEW d \in Devices
  PROVE  d.queue = <<>> \/ \E p \in Packets : d.queue = <<p>>
<1>1. d.queue \in Seq(Packets) /\ Len(d.queue) <= 1
  BY DEF Devices
<1>2. CASE Len(d.queue) = 0
  BY <1>1, <1>2
<1>3. CASE Len(d.queue) = 1
  <2>1. d.queue = <<d.queue[1]>> /\ d.queue[1] \in Packets
    BY <1>1, <1>3
  <2>. QED  BY <2>1
<1>. QED  BY <1>1, <1>2, <1>3

\* The empty queue is one of them.
LEMMA EmptyQueue == <<>> \in { q \in Seq(Packets) : Len(q) <= 1 }
OBVIOUS

\* An answer or its acknowledgement: the device as it goes on.
LEMMA SentIs ==
  ASSUME NEW d, DeviceOk(d), Offers(d), NEW e \in Sent(d)
  PROVE  /\ DeviceOk(e) /\ e.addr = d.addr /\ e.in = 1 - d.in
         /\ Knows(e) \subseteq Knows(d) \cup {NoCommand}
         /\ \/ d.phase = "in" /\ e.phase = "csw" /\ e.cmd = d.cmd
            \/ e.phase = "csw" /\ ~e.good
            \/ e.phase \notin {"in", "csw"}
            \/ d.phase = "csw" /\ e.phase = "in"
<1>1. d \in Devices /\ d.in \in {0, 1} /\ 1 - d.in \in {0, 1} /\ d.phase \in {"in", "csw"} /\ d.cmd \in Commands
  BY DEF DeviceOk, Devices, Offers
<1>2. CASE d.phase = "in"
  <2>1. e = [d EXCEPT !.in = 1 - @, !.phase = "csw"]
    BY <1>2 DEF Sent
  <2>2. e.queue = d.queue /\ e.cmd = d.cmd /\ DeviceOk(e) /\ e.addr = d.addr /\ e.in = 1 - d.in /\ e.phase = "csw"
    BY <1>1, <2>1 DEF DeviceOk, Devices
  <2>. QED  BY <1>2, <2>2 DEF Knows
<1>3. CASE d.phase = "csw" /\ d.queue = <<>>
  <2>. DEFINE f == [d EXCEPT !.in = 1 - @, !.queue = <<>>]
  <2>1. e = [f EXCEPT !.phase = "idle", !.cmd = NoCommand]
    BY <1>3 DEF Sent
  <2>2. DeviceOk(e) /\ e.addr = d.addr /\ e.in = 1 - d.in /\ e.phase = "idle" /\ e.queue = <<>> /\ e.cmd = NoCommand
    <3>1. f \in Devices /\ f.addr = d.addr /\ f.in = 1 - d.in /\ f.queue = <<>>
      BY <1>1, EmptyQueue DEF Devices
    <3>. HIDE DEF f
    <3>. QED  BY <2>1, <3>1 DEF DeviceOk, Devices, Commands
  <2>. QED  BY <2>2, KnowsIs
<1>4. CASE d.phase = "csw" /\ d.queue # <<>>
  <2>. DEFINE f == [d EXCEPT !.in = 1 - @, !.queue = <<>>]
  <2>0. f \in Devices /\ f.addr = d.addr /\ f.in = 1 - d.in /\ f.queue = <<>> /\ f.cmd = d.cmd
    BY <1>1, EmptyQueue DEF Devices
  <2>1. PICK p \in Packets : d.queue = <<p>>
    BY <1>1, <1>4, QueueIs
  <2>2. Head(d.queue) = p
    BY <2>1
  <2>3. CASE IsCommand(p)
    <3>1. p \in Orders
      BY <2>1, <2>3 DEF Packets, IsCommand
    <3>2. e \in Starts(f, p)
      BY <1>4, <2>2, <2>3 DEF Sent
    <3>. HIDE DEF f
    <3>3. Knows(e) = {p} /\ Knows(d) = {d.cmd, p}
      BY <2>0, <2>1, <3>1, <3>2, StartsIs, KnowsIs
    <3>. QED  BY <1>4, <2>0, <3>1, <3>2, <3>3, StartsIs
  <2>4. CASE ~IsCommand(p)
    <3>1. e = [f EXCEPT !.phase = "dead"]
      BY <1>4, <2>2, <2>4 DEF Sent
    <3>. HIDE DEF f
    <3>2. DeviceOk(e) /\ e.addr = d.addr /\ e.in = 1 - d.in /\ e.phase = "dead" /\ e.queue = <<>> /\ e.cmd = d.cmd
      BY <2>0, <3>1 DEF DeviceOk, Devices
    <3>. QED  BY <3>2, KnowsIs DEF Knows
  <2>. QED  BY <2>3, <2>4
<1>. QED  BY <1>1, <1>2, <1>3, <1>4

\* A packet taken.
LEMMA TakesIs ==
  ASSUME NEW d, DeviceOk(d), Ready(d), NEW m, NEW p \in Packets, NEW r \in Takes(d, m, p)
  PROVE  /\ DeviceOk(r[1]) /\ r[1].addr = d.addr /\ r[1].in = d.in
         /\ Knows(r[1]) \subseteq Knows(d) \cup (IF IsCommand(p) THEN {p} ELSE {})
         /\ DOMAIN r[2] = DOMAIN m
         /\ r[2] # m => d.phase = "out"
         /\ r[1].phase = "csw" /\ r[1].good =>
              \/ r[2] = m /\ d.phase = "csw" /\ d.good /\ r[1].cmd = d.cmd
              \/ /\ d.phase = "out" /\ ~IsCommand(p) /\ r[1].cmd = d.cmd
                 /\ r[2] = [m EXCEPT ![d.cmd.lba] = p.val]
<1>1. d \in Devices /\ d.cmd \in Commands
  BY DEF DeviceOk, Devices
<1>2. CASE d.phase = "idle" /\ IsCommand(p)
  <2>1. p \in Orders /\ d.queue = <<>>
    BY <1>2 DEF Packets, IsCommand, DeviceOk
  <2>2. r[2] = m /\ r[1] \in Starts(d, p)
    BY <1>2 DEF Takes
  <2>3. Knows(r[1]) = {p}
    BY <1>1, <2>1, <2>2, StartsIs, KnowsIs
  <2>. QED  BY <1>1, <1>2, <2>1, <2>2, <2>3, StartsIs
<1>3. CASE d.phase = "idle" /\ ~IsCommand(p)
  <2>1. r[2] = m /\ r[1] = [d EXCEPT !.phase = "dead"]
    BY <1>3 DEF Takes
  <2>2. DeviceOk(r[1]) /\ r[1].addr = d.addr /\ r[1].in = d.in /\ r[1].phase = "dead" /\ r[1].queue = d.queue /\ r[1].cmd = d.cmd
    BY <1>1, <2>1 DEF DeviceOk, Devices
  <2>. QED  BY <2>1, <2>2 DEF Knows
<1>4. CASE d.phase = "out" /\ IsCommand(p)
  <2>1. /\ r[1] = [d EXCEPT !.phase = "csw", !.good = FALSE]
        /\ r[2] \in {m, [m EXCEPT ![d.cmd.lba] = Junk]}
    BY <1>4 DEF Takes
  <2>2. DeviceOk(r[1]) /\ r[1].addr = d.addr /\ r[1].in = d.in /\ ~r[1].good /\ r[1].queue = d.queue /\ r[1].cmd = d.cmd
    BY <1>1, <2>1 DEF DeviceOk, Devices
  <2>3. DOMAIN r[2] = DOMAIN m
    BY <2>1
  <2>. QED  BY <1>4, <2>2, <2>3 DEF Knows
<1>5. CASE d.phase = "out" /\ ~IsCommand(p)
  <2>1. \/ r[1] = [d EXCEPT !.phase = "csw", !.good = FALSE] /\ r[2] = m
        \/ r[1] = [d EXCEPT !.phase = "csw"] /\ r[2] = [m EXCEPT ![d.cmd.lba] = p.val]
    BY <1>5 DEF Takes
  <2>2. DeviceOk(r[1]) /\ r[1].addr = d.addr /\ r[1].in = d.in /\ r[1].queue = d.queue /\ r[1].cmd = d.cmd
    BY <1>1, <2>1 DEF DeviceOk, Devices
  <2>3. ~r[1].good \/ r[2] = [m EXCEPT ![d.cmd.lba] = p.val]
    BY <1>1, <2>1 DEF Devices
  <2>4. DOMAIN r[2] = DOMAIN m
    BY <2>1
  <2>. QED  BY <1>5, <2>2, <2>3, <2>4 DEF Knows
<1>6. CASE d.phase \notin {"idle", "out"}
  <2>1. d.phase \in {"in", "csw"} /\ d.queue = <<>>
    BY <1>6 DEF Ready
  <2>2. r[2] = m /\ r[1] = [d EXCEPT !.queue = <<p>>]
    BY <1>6 DEF Takes
  <2>3. <<p>> \in Seq(Packets) /\ Len(<<p>>) <= 1
    OBVIOUS
  <2>4. r[1] \in Devices /\ r[1].cmd = d.cmd /\ r[1].queue = <<p>> /\ r[1].good = d.good /\ r[1].phase = d.phase
        /\ r[1].addr = d.addr /\ r[1].in = d.in
    BY <1>1, <2>2, <2>3 DEF Devices
  <2>5. DeviceOk(r[1])
    BY <2>1, <2>4 DEF DeviceOk
  <2>6. Knows(r[1]) \subseteq {d.cmd} \cup (IF IsCommand(p) THEN {p} ELSE {})
    <3>1. Head(<<p>>) = p /\ <<p>> # <<>>
      OBVIOUS
    <3>. QED  BY <2>4, <3>1 DEF Knows
  <2>. QED  BY <2>1, <2>2, <2>4, <2>5, <2>6 DEF Knows
<1>. QED  BY <1>2, <1>3, <1>4, <1>5, <1>6

\* What a bulk-in transfer gets comes from the device as it is, or as it goes
\* on when it drops the packet it had.
LEMMA GetsIs ==
  ASSUME NEW d, DeviceOk(d), NEW m, NEW t \in {0, 1}, NEW g \in Gets(d, m, t)
  PROVE  \E e : /\ DeviceOk(e) /\ e.in = t /\ Offers(e) /\ Offers(d) /\ e.addr = d.addr
                /\ e = d \/ (d.in # t /\ e \in Sent(d))
                /\ Knows(e) \subseteq Knows(d) \cup {NoCommand}
                /\ g[1] = Offer(e, m) /\ (g[2] = e \/ g[2] \in Sent(e))
<1>1. d.in \in {0, 1}
  BY DEF DeviceOk, Devices
<1>2. Offers(d)
  BY DEF Gets
<1>3. CASE d.in = t
  <2>1. g[1] = Offer(d, m) /\ (g[2] = d \/ g[2] \in Sent(d))
    BY <1>2, <1>3 DEF Gets
  <2>. QED  BY <1>2, <1>3, <2>1
<1>4. CASE d.in # t
  <2>1. PICK e \in Sent(d) : Offers(e) /\ g[1] = Offer(e, m) /\ (g[2] = e \/ g[2] \in Sent(e))
    BY <1>2, <1>4 DEF Gets
  <2>2. /\ DeviceOk(e) /\ e.addr = d.addr /\ e.in = 1 - d.in
        /\ Knows(e) \subseteq Knows(d) \cup {NoCommand}
    BY <1>2, <2>1, SentIs
  <2>3. e.in = t
    BY <1>1, <1>4, <2>2
  <2>. QED  BY <1>2, <1>4, <2>1, <2>2, <2>3
<1>. QED  BY <1>3, <1>4

\* The device after a bulk-in transfer.
LEMMA GotIs ==
  ASSUME NEW d, DeviceOk(d), NEW m, NEW t \in {0, 1}, NEW g \in Gets(d, m, t)
  PROVE  /\ DeviceOk(g[2]) /\ g[2].addr = d.addr
         /\ Knows(g[2]) \subseteq Knows(d) \cup {NoCommand}
<1>1. PICK e : /\ DeviceOk(e) /\ Offers(e) /\ e.addr = d.addr
               /\ Knows(e) \subseteq Knows(d) \cup {NoCommand}
               /\ g[2] = e \/ g[2] \in Sent(e)
  BY GetsIs
<1>2. CASE g[2] = e
  BY <1>1, <1>2
<1>3. CASE g[2] \in Sent(e)
  BY <1>1, <1>3, SentIs
<1>. QED  BY <1>1, <1>2, <1>3

\* A device that will report success for a read has just sent the sector.
LEMMA DataIs ==
  ASSUME NEW d, DeviceOk(d), NEW m, NEW t \in {0, 1}, NEW g \in Gets(d, m, t),
         NEW c \in Orders, c.op = "read", Mine(d, c), WillSucceed(g[2], c.tag, 1 - t)
  PROVE  g[1].size = "sector" /\ g[1].val = m[c.lba]
<1>1. PICK e : /\ DeviceOk(e) /\ e.in = t /\ Offers(e)
               /\ Knows(e) \subseteq Knows(d) \cup {NoCommand}
               /\ g[1] = Offer(e, m) /\ (g[2] = e \/ g[2] \in Sent(e))
  BY GetsIs
<1>2. t # 1 - t /\ c.tag # 0
  BY DEF Orders
<1>3. e.cmd \in Knows(e)
  BY DEF Knows
<1>4. e.cmd.tag = c.tag => e.cmd = c
  BY <1>1, <1>2, <1>3 DEF Mine, NoCommand
<1>5. CASE e.phase = "in"
  <2>1. g[2].cmd = e.cmd
    <3>1. e \in Devices
      BY <1>1 DEF DeviceOk
    <3>2. g[2] = e \/ g[2] = [e EXCEPT !.in = 1 - @, !.phase = "csw"]
      BY <1>1, <1>5 DEF Sent
    <3>. QED  BY <3>1, <3>2 DEF Devices
  <2>2. e.cmd = c
    BY <1>4, <2>1 DEF WillSucceed
  <2>. QED  BY <1>1, <1>5, <2>2 DEF Offer
<1>6. CASE e.phase = "csw"
  <2>1. g[2] # e
    BY <1>1, <1>2, <1>6 DEF WillSucceed
  <2>2. /\ g[2].in = 1 - e.in
        /\ \/ g[2].phase = "csw" /\ ~g[2].good
           \/ g[2].phase \notin {"in", "csw"}
           \/ g[2].phase = "in"
    BY <1>1, <1>6, <2>1, SentIs
  <2>. QED  BY <1>1, <1>2, <2>2 DEF WillSucceed
<1>. QED  BY <1>1, <1>5, <1>6 DEF Offers

\* A good status is of a device that will report success.
LEMMA StatusIs ==
  ASSUME NEW d, DeviceOk(d), NEW m, NEW t \in {0, 1}, NEW g \in Gets(d, m, t),
         g[1].size = "csw", NEW c \in Orders, CswGood(g[1], c.tag), Mine(d, c)
  PROVE  WillSucceed(d, c.tag, t) /\ (c.op = "write" => Succeeds(d, c.tag))
<1>1. PICK e : /\ DeviceOk(e) /\ e.in = t /\ Offers(e) /\ Offers(d)
               /\ e = d \/ (d.in # t /\ e \in Sent(d))
               /\ g[1] = Offer(e, m)
  BY GetsIs
<1>2. e.phase = "csw" /\ e.cmd.tag = c.tag /\ e.good
  <2>1. e.phase = "csw"
    <3>1. e.phase # "in"
      <4>. SUFFICES ASSUME e.phase = "in" PROVE FALSE
        OBVIOUS
      <4>1. g[1] = [size |-> "id", val |-> Junk] \/ g[1] = [size |-> "sector", val |-> m[e.cmd.lba]]
        BY <1>1 DEF Offer
      <4>. QED  BY <4>1
    <3>. QED  BY <1>1, <3>1 DEF Offers
  <2>2. g[1] = [size |-> "csw", tag |-> e.cmd.tag, good |-> e.good]
    BY <1>1, <2>1 DEF Offer
  <2>. QED  BY <2>1, <2>2 DEF CswGood
<1>3. d.cmd \in Knows(d)
  BY DEF Knows
<1>4. CASE e = d
  BY <1>1, <1>2, <1>4 DEF WillSucceed, Succeeds
<1>5. CASE e # d
  <2>1. d.phase = "in" /\ e.cmd = d.cmd
    BY <1>1, <1>2, <1>5, SentIs
  <2>2. d.cmd = c /\ d.cmd.op # "write"
    BY <1>2, <1>3, <2>1 DEF Mine, DeviceOk
  <2>. QED  BY <1>1, <1>2, <1>5, <2>1, <2>2 DEF WillSucceed
<1>. QED  BY <1>4, <1>5

-----------------------------------------------------------------------------
(* The transfers of a command *)

\* Only one device answers.
LEMMA OneAnswers ==
  ASSUME Types, Enumerated, addr > 0, NEW s \in Answering, NEW t \in Answering
  PROVE  s = t
BY DEF Answering, Enumerated, None, Types

\* Where devices keep their addresses, the enumeration stays what it was.
LEMMA AddressesKept ==
  ASSUME Types, Enumerated, UNCHANGED <<bus, scan_vars>>, dev' \in [Sockets -> Devices],
         \A s \in Sockets : dev'[s].addr = dev[s].addr
  PROVE  Enumerated' /\ Answering' = Answering /\ Sockets' = Sockets
<1>1. /\ bus' = bus /\ scan' = scan /\ port' = port /\ nextAddr' = nextAddr /\ hc' = hc /\ addr' = addr
      /\ ep' = ep /\ usb_ok' = usb_ok /\ msc' = msc
  BY DEF scan_vars
<1>2. Sockets' = Sockets /\ \A s : Plug(s)' = Plug(s)
  BY <1>1 DEF Sockets, Plug
<1>3. Answering' = Answering
  BY <1>1, <1>2 DEF Answering
<1>4. Enumerated'
  BY <1>1, <1>2 DEF Enumerated
<1>. QED  BY <1>2, <1>3, <1>4

\* What a bulk-out transfer does.
BulkOut(p, next) ==
  /\ dev' \in [Sockets -> Devices]
  /\ DOMAIN media' = Sockets
  /\ \A t \in Sockets :
       /\ DeviceOk(dev'[t]) /\ dev'[t].addr = dev[t].addr
       /\ Knows(dev'[t]) \subseteq Knows(dev[t]) \cup (IF IsCommand(p) THEN {p} ELSE {})
       /\ DOMAIN media'[t] = Lba
       /\ media'[t] # media[t] => dev[t].phase = "out"
       /\ dev'[t].phase = "csw" /\ dev'[t].good =>
            \/ media'[t] = media[t] /\ dev[t].phase = "csw" /\ dev[t].good /\ dev'[t].cmd = dev[t].cmd
            \/ /\ dev[t].phase = "out" /\ ~IsCommand(p) /\ dev'[t].cmd = dev[t].cmd
               /\ media'[t] = [media[t] EXCEPT ![dev[t].cmd.lba] = p.val]
  /\ tog' \in [in : {0, 1}, out : {0, 1}] /\ buf' = buf
  /\ (stage' = next /\ result' = result) \/ (stage' = "idle" /\ result' = "err")

\* A packet sent to a device, taken, lost, or taken and not acknowledged.
LEMMA BulkOutIs ==
  ASSUME Types, Known, NEW p \in Packets, NEW next, bulk_out(p, next)
  PROVE  BulkOut(p, next)
<1>1. /\ dev \in [Sockets -> Devices] /\ DOMAIN media = Sockets /\ tog \in [in : {0, 1}, out : {0, 1}]
      /\ \A t \in Sockets : DeviceOk(dev[t]) /\ DOMAIN media[t] = Lba
  BY DEF Types, Known
<1>2. CASE ehci_exec_fails
  BY <1>1, <1>2 DEF ehci_exec_fails, Finish, BulkOut
<1>3. ASSUME NEW s \in Target("out"), Ready(dev[s]),
             NEW r \in IF dev[s].out = tog.out
                       THEN Takes([dev[s] EXCEPT !.out = 1 - @], media[s], p)
                       ELSE {<<dev[s], media[s]>>},
             dev' = [dev EXCEPT ![s] = r[1]], media' = [media EXCEPT ![s] = r[2]],
             \/ stage' = next /\ tog' = [tog EXCEPT !.out = 1 - @] /\ result' = result
             \/ Finish("err") /\ tog' = tog,
             buf' = buf
      PROVE  BulkOut(p, next)
  <2>. DEFINE d == [dev[s] EXCEPT !.out = 1 - @]
  <2>1. s \in Sockets
    BY DEF Target, Answering
  <2>2. /\ DeviceOk(d) /\ Ready(d) /\ d.addr = dev[s].addr /\ d.cmd = dev[s].cmd /\ d.queue = dev[s].queue
        /\ d.phase = dev[s].phase /\ d.good = dev[s].good
    <3>1. DeviceOk(dev[s]) /\ dev[s] \in Devices /\ dev[s].out \in {0, 1} /\ 1 - dev[s].out \in {0, 1}
      BY <1>1, <2>1 DEF Devices
    <3>2. /\ d \in Devices /\ d.addr = dev[s].addr /\ d.cmd = dev[s].cmd /\ d.queue = dev[s].queue
          /\ d.phase = dev[s].phase /\ d.good = dev[s].good
      BY <3>1 DEF Devices
    <3>. HIDE DEF d
    <3>. QED  BY <1>3, <3>1, <3>2 DEF DeviceOk, Ready
  <2>3. Knows(d) = Knows(dev[s])
    BY <2>2 DEF Knows
  <2>4. tog' \in [in : {0, 1}, out : {0, 1}]
    BY <1>1, <1>3
  <2>5. (stage' = next /\ result' = result) \/ (stage' = "idle" /\ result' = "err")
    BY <1>3 DEF Finish
  <2>. DEFINE Ok(e, m) ==
         /\ DeviceOk(e) /\ e.addr = dev[s].addr
         /\ Knows(e) \subseteq Knows(dev[s]) \cup (IF IsCommand(p) THEN {p} ELSE {})
         /\ DOMAIN m = Lba
         /\ m # media[s] => dev[s].phase = "out"
         /\ e.phase = "csw" /\ e.good =>
              \/ m = media[s] /\ dev[s].phase = "csw" /\ dev[s].good /\ e.cmd = dev[s].cmd
              \/ /\ dev[s].phase = "out" /\ ~IsCommand(p) /\ e.cmd = dev[s].cmd
                 /\ m = [media[s] EXCEPT ![dev[s].cmd.lba] = p.val]
  <2>6. Ok(r[1], r[2])
    <3>1. CASE dev[s].out = tog.out
      <4>1. r \in Takes(d, media[s], p)
        BY <1>3, <3>1
      <4>. HIDE DEF d
      <4>. QED  BY <1>1, <2>1, <2>2, <2>3, <4>1, TakesIs
    <3>2. CASE dev[s].out # tog.out
      <4>1. r[1] = dev[s] /\ r[2] = media[s]
        BY <1>3, <3>2
      <4>. QED  BY <1>1, <2>1, <4>1
    <3>. QED  BY <3>1, <3>2
  <2>7. r[1] \in Devices
    BY <2>6 DEF DeviceOk
  <2>8. /\ dev' \in [Sockets -> Devices] /\ DOMAIN media' = Sockets
        /\ dev'[s] = r[1] /\ media'[s] = r[2]
        /\ \A t \in Sockets : t # s => dev'[t] = dev[t] /\ media'[t] = media[t]
    BY <1>1, <1>3, <2>1, <2>7
  <2>9. ASSUME NEW t \in Sockets
        PROVE  /\ DeviceOk(dev'[t]) /\ dev'[t].addr = dev[t].addr
               /\ Knows(dev'[t]) \subseteq Knows(dev[t]) \cup (IF IsCommand(p) THEN {p} ELSE {})
               /\ DOMAIN media'[t] = Lba
               /\ media'[t] # media[t] => dev[t].phase = "out"
               /\ dev'[t].phase = "csw" /\ dev'[t].good =>
                    \/ media'[t] = media[t] /\ dev[t].phase = "csw" /\ dev[t].good /\ dev'[t].cmd = dev[t].cmd
                    \/ /\ dev[t].phase = "out" /\ ~IsCommand(p) /\ dev'[t].cmd = dev[t].cmd
                       /\ media'[t] = [media[t] EXCEPT ![dev[t].cmd.lba] = p.val]
    <3>1. CASE t = s
      BY <2>6, <2>8, <3>1
    <3>2. CASE t # s
      BY <1>1, <2>8, <3>2
    <3>. QED  BY <3>1, <3>2
  <2>. QED  BY <1>3, <2>4, <2>5, <2>8, <2>9 DEF BulkOut
<1>. QED  BY <1>2, <1>3 DEF bulk_out

\* What holds when a command has failed, or was never given.
LEMMA SendCommandKeeps ==
  ASSUME UsbInv, SendCommand
  PROVE  UsbInv'
<1>1. /\ Types /\ Driver /\ Known /\ Enumerated /\ stage = "cbw"
      /\ UNCHANGED <<bus, tag, req, scan_vars>> /\ bulk_out(Command, "data")
  BY DEF UsbInv, SendCommand
<1>2. /\ Command \in Orders /\ Command \in Packets /\ addr > 0 /\ result = "none" /\ scan \in {"off", "inquiry"}
      /\ IsCommand(Command) /\ Command.tag = tag
  BY <1>1 DEF Driver, Packets, IsCommand, Command
<1>3. BulkOut(Command, "data")
  BY <1>1, <1>2, BulkOutIs
<1>4. Enumerated' /\ Answering' = Answering /\ Sockets' = Sockets
  BY <1>1, <1>3, AddressesKept DEF BulkOut
<1>5. Types'
  BY <1>1, <1>3, <1>4 DEF Types, BulkOut, scan_vars
<1>6. Command' = Command
  BY <1>1 DEF Command
<1>7. Driver'
  BY <1>1, <1>2, <1>3, <1>6 DEF Driver, BulkOut, scan_vars
<1>8. Known'
  <2>1. ASSUME NEW s \in Sockets
        PROVE  DeviceOk(dev'[s]) /\ Past(dev'[s], tag) /\ Mine(dev'[s], Command)
    <3>1. DeviceOk(dev'[s]) /\ Knows(dev'[s]) \subseteq Knows(dev[s]) \cup {Command}
      BY <1>2, <1>3 DEF BulkOut
    <3>2. Past(dev[s], tag) /\ New(dev[s], tag)
      BY <1>1 DEF Known
    <3>3. tag \in Nat
      BY <1>1 DEF Types
    <3>. QED  BY <1>2, <3>1, <3>2, <3>3 DEF Past, New, Mine
  <2>2. stage' # "cbw" /\ tag' = tag
    BY <1>1, <1>3 DEF BulkOut
  <2>. QED  BY <1>4, <1>6, <2>1, <2>2 DEF Known
<1>9. Written'
  <2>1. ASSUME NEW s \in Sockets, Succeeds(dev'[s], tag) PROVE FALSE
    <3>1. dev[s].cmd.tag = tag
      BY <1>2, <1>3, <2>1 DEF BulkOut, Succeeds
      \* or the packet would be data
    <3>2. New(dev[s], tag) /\ dev[s].cmd \in Knows(dev[s])
      BY <1>1 DEF Known, Knows
    <3>. QED  BY <3>1, <3>2 DEF New
  <2>. QED  BY <1>1, <1>4, <2>1 DEF Written
<1>10. GotIt' /\ CompletedIsOnMedium'
  BY <1>3 DEF GotIt, CompletedIsOnMedium, BulkOut
<1>. QED  BY <1>4, <1>5, <1>7, <1>8, <1>9, <1>10 DEF UsbInv

\* The sector of a write goes out.
LEMMA SendDataKeeps ==
  ASSUME UsbInv, SendData
  PROVE  UsbInv'
<1>. DEFINE p == [val |-> req.val]
<1>1. /\ Types /\ Driver /\ Known /\ Written /\ Enumerated /\ stage = "data" /\ req.op = "write"
      /\ UNCHANGED <<bus, tag, req, scan_vars>> /\ bulk_out(p, "csw")
  BY DEF UsbInv, SendData
<1>2. /\ Command \in Orders /\ p \in Packets /\ addr > 0 /\ result = "none" /\ scan \in {"off", "inquiry"}
      /\ ~IsCommand(p) /\ Command.tag = tag /\ buf = req.val /\ req.lba \in Lba /\ p.val = req.val
  BY <1>1 DEF Driver, Packets, IsCommand, Command
<1>. HIDE DEF p
<1>3. BulkOut(p, "csw")
  BY <1>1, <1>2, BulkOutIs
<1>4. Enumerated' /\ Answering' = Answering /\ Sockets' = Sockets
  BY <1>1, <1>3, AddressesKept DEF BulkOut
<1>5. Types'
  BY <1>1, <1>3, <1>4 DEF Types, BulkOut, scan_vars
<1>6. Command' = Command
  BY <1>1 DEF Command
<1>7. Driver'
  BY <1>1, <1>2, <1>3, <1>6 DEF Driver, BulkOut, scan_vars
<1>8. Known'
  <2>1. ASSUME NEW s \in Sockets
        PROVE  DeviceOk(dev'[s]) /\ Past(dev'[s], tag) /\ Mine(dev'[s], Command)
    <3>1. DeviceOk(dev'[s]) /\ Knows(dev'[s]) \subseteq Knows(dev[s])
      BY <1>2, <1>3 DEF BulkOut
    <3>2. Past(dev[s], tag) /\ Mine(dev[s], Command)
      BY <1>1 DEF Known
    <3>. QED  BY <3>1, <3>2 DEF Past, Mine
  <2>2. stage' # "cbw" /\ tag' = tag
    BY <1>1, <1>3 DEF BulkOut
  <2>. QED  BY <1>4, <1>6, <2>1, <2>2 DEF Known
<1>9. Written'
  <2>1. ASSUME NEW s \in Sockets, Succeeds(dev'[s], tag) PROVE media'[s][req.lba] = req.val
    <3>1. CASE media'[s] = media[s] /\ dev[s].phase = "csw" /\ dev[s].good /\ dev'[s].cmd = dev[s].cmd
      BY <1>1, <2>1, <3>1 DEF Written, Succeeds
    <3>2. CASE /\ dev'[s].cmd = dev[s].cmd
               /\ media'[s] = [media[s] EXCEPT ![dev[s].cmd.lba] = p.val]
      <4>1. dev[s].cmd.tag = tag
        BY <2>1, <3>2 DEF Succeeds
      <4>2. Mine(dev[s], Command) /\ dev[s].cmd \in Knows(dev[s])
        BY <1>1 DEF Known, Knows
      <4>3. dev[s].cmd = Command
        BY <1>2, <4>1, <4>2 DEF Mine
      <4>4. dev[s].cmd.lba = req.lba /\ DOMAIN media[s] = Lba
        BY <1>1, <4>3 DEF Command, Types
      <4>. QED  BY <1>2, <3>2, <4>4
    <3>. QED  BY <1>3, <2>1, <3>1, <3>2 DEF BulkOut, Succeeds
  <2>. QED  BY <1>1, <1>4, <2>1 DEF Written
<1>10. GotIt' /\ CompletedIsOnMedium'
  BY <1>1, <1>3 DEF GotIt, CompletedIsOnMedium, BulkOut
<1>. QED  BY <1>4, <1>5, <1>7, <1>8, <1>9, <1>10 DEF UsbInv

\* What a bulk-in transfer does.
LEMMA BulkInIs ==
  ASSUME Types, Known, NEW s \in Sockets, NEW g \in Gets(dev[s], media[s], tog.in),
         dev' = [dev EXCEPT ![s] = g[2]], tog' \in {tog, [tog EXCEPT !.in = 1 - @]}
  PROVE  /\ dev' \in [Sockets -> Devices] /\ dev'[s] = g[2] /\ \A t \in Sockets : t # s => dev'[t] = dev[t]
         /\ tog' \in [in : {0, 1}, out : {0, 1}] /\ (tog' # tog => tog'.in = 1 - tog.in)
         /\ \A t \in Sockets : /\ DeviceOk(dev'[t]) /\ dev'[t].addr = dev[t].addr
                               /\ Knows(dev'[t]) \subseteq Knows(dev[t]) \cup {NoCommand}
<1>1. /\ dev \in [Sockets -> Devices] /\ tog \in [in : {0, 1}, out : {0, 1}] /\ tog.in \in {0, 1}
      /\ \A t \in Sockets : DeviceOk(dev[t])
  BY DEF Types, Known
<1>2. /\ DeviceOk(g[2]) /\ g[2].addr = dev[s].addr
      /\ Knows(g[2]) \subseteq Knows(dev[s]) \cup {NoCommand}
  BY <1>1, GotIs
<1>3. g[2] \in Devices
  BY <1>2 DEF DeviceOk
<1>4. /\ dev' \in [Sockets -> Devices] /\ dev'[s] = g[2]
      /\ \A t \in Sockets : t # s => dev'[t] = dev[t]
  BY <1>1, <1>3
<1>5. tog' \in [in : {0, 1}, out : {0, 1}] /\ (tog' # tog => tog'.in = 1 - tog.in)
  <2>1. 1 - tog.in \in {0, 1}
    BY <1>1
  <2>. QED  BY <1>1, <2>1
<1>. QED  BY <1>1, <1>2, <1>4, <1>5

\* A transfer that fails ends the command; nothing else changes.
LEMMA FailureKeeps ==
  ASSUME UsbInv, stage # "idle", ehci_exec_fails, UNCHANGED <<bus, tag, req, scan_vars>>
  PROVE  UsbInv'
<1>1. /\ Types /\ Driver /\ Known /\ Enumerated
      /\ bus' = bus /\ tag' = tag /\ req' = req /\ UNCHANGED scan_vars
      /\ dev' = dev /\ media' = media /\ tog' = tog /\ buf' = buf /\ stage' = "idle" /\ result' = "err"
  BY DEF UsbInv, ehci_exec_fails, Finish
<1>2. dev' \in [Sockets -> Devices] /\ \A s \in Sockets : dev'[s].addr = dev[s].addr
  BY <1>1 DEF Types
<1>3. Enumerated' /\ Answering' = Answering /\ Sockets' = Sockets
  BY <1>1, <1>2, AddressesKept
<1>4. Types'
  BY <1>1, <1>3 DEF Types, scan_vars
<1>5. Driver'
  BY <1>1 DEF Driver, scan_vars
<1>6. Known'
  BY <1>1, <1>3 DEF Known
<1>7. Written' /\ GotIt' /\ CompletedIsOnMedium'
  BY <1>1 DEF Written, GotIt, CompletedIsOnMedium
<1>. QED  BY <1>3, <1>4, <1>5, <1>6, <1>7 DEF UsbInv

\* A transfer that delivers a packet and is reported as failed ends the command.
LEMMA AckedFailureKeeps ==
  ASSUME UsbInv, stage # "idle", NEW s \in Target("in"), NEW g \in Gets(dev[s], media[s], tog.in),
         dev' = [dev EXCEPT ![s] = g[2]], Finish("err"), UNCHANGED <<media, tog, buf, bus, tag, req, scan_vars>>
  PROVE  UsbInv'
<1>1. /\ Types /\ Driver /\ Known /\ Enumerated
      /\ bus' = bus /\ tag' = tag /\ req' = req /\ UNCHANGED scan_vars
      /\ media' = media /\ tog' = tog /\ buf' = buf /\ stage' = "idle" /\ result' = "err"
      /\ s \in Sockets
  BY DEF UsbInv, Finish, Target, Answering
<1>2. /\ dev' \in [Sockets -> Devices]
      /\ \A t \in Sockets : /\ DeviceOk(dev'[t]) /\ dev'[t].addr = dev[t].addr
                            /\ Knows(dev'[t]) \subseteq Knows(dev[t]) \cup {NoCommand}
  BY <1>1, BulkInIs
<1>3. Enumerated' /\ Answering' = Answering /\ Sockets' = Sockets
  BY <1>1, <1>2, AddressesKept
<1>4. Types'
  BY <1>1, <1>2, <1>3 DEF Types, scan_vars
<1>5. Driver'
  BY <1>1 DEF Driver, scan_vars
<1>6. Known'
  <2>1. ASSUME NEW t \in Sockets
        PROVE  DeviceOk(dev'[t]) /\ Past(dev'[t], tag)
    <3>1. Past(dev[t], tag) /\ tag \in Nat
      BY <1>1 DEF Known, Types
    <3>2. NoCommand.tag = 0
      BY DEF NoCommand
    <3>. QED  BY <1>2, <3>1, <3>2 DEF Past
  <2>. QED  BY <1>1, <1>3, <2>1 DEF Known
<1>7. Written' /\ GotIt' /\ CompletedIsOnMedium'
  BY <1>1 DEF Written, GotIt, CompletedIsOnMedium
<1>. QED  BY <1>3, <1>4, <1>5, <1>6, <1>7 DEF UsbInv

\* The data of a read comes in.
LEMMA ReceiveDataKeeps ==
  ASSUME UsbInv, ReceiveData
  PROVE  UsbInv'
<1>1. /\ Types /\ Driver /\ Known /\ Written /\ Enumerated /\ stage = "data" /\ req.op # "write"
      /\ UNCHANGED <<bus, tag, req, scan_vars>>
  BY DEF UsbInv, ReceiveData
<1>2. CASE ehci_exec_fails
  BY <1>1, <1>2, FailureKeeps
<1>3. ASSUME NEW s \in Target("in"), NEW g \in Gets(dev[s], media[s], tog.in),
             dev' = [dev EXCEPT ![s] = g[2]], tog' = [tog EXCEPT !.in = 1 - @],
             buf' = IF g[1].size = "sector" THEN g[1].val ELSE Junk, stage' = "csw", result' = result,
             media' = media
      PROVE  UsbInv'
  <2>1. s \in Sockets /\ s \in Answering
    BY DEF Target, Answering
  <2>2. /\ dev' \in [Sockets -> Devices] /\ dev'[s] = g[2] /\ \A t \in Sockets : t # s => dev'[t] = dev[t]
        /\ tog' \in [in : {0, 1}, out : {0, 1}] /\ tog'.in = 1 - tog.in
        /\ \A t \in Sockets : /\ DeviceOk(dev'[t]) /\ dev'[t].addr = dev[t].addr
                              /\ Knows(dev'[t]) \subseteq Knows(dev[t]) \cup {NoCommand}
    <3>1. tog'.in = 1 - tog.in
      BY <1>1, <1>3 DEF Types
    <3>. QED  BY <1>1, <1>3, <2>1, <3>1, BulkInIs
  <2>3. Enumerated' /\ Answering' = Answering /\ Sockets' = Sockets
    BY <1>1, <2>2, AddressesKept
  <2>4. Types'
    BY <1>1, <1>3, <2>2, <2>3 DEF Types, scan_vars
  <2>5. Command' = Command /\ Command \in Orders /\ Command.tag = tag /\ tag \in Nat \ {0}
        /\ Command.op = req.op /\ Command.lba = req.lba /\ addr > 0
    BY <1>1 DEF Command, Driver, Orders
  <2>6. Driver'
    BY <1>1, <1>3, <2>5 DEF Driver, scan_vars
  <2>7. Known'
    <3>1. ASSUME NEW t \in Sockets
          PROVE  DeviceOk(dev'[t]) /\ Past(dev'[t], tag) /\ Mine(dev'[t], Command)
      <4>1. Past(dev[t], tag) /\ Mine(dev[t], Command)
        BY <1>1 DEF Known
      <4>2. NoCommand.tag = 0
        BY DEF NoCommand
      <4>. QED  BY <2>2, <2>5, <4>1, <4>2 DEF Past, Mine
    <3>. QED  BY <1>1, <1>3, <2>3, <2>5, <3>1 DEF Known
  <2>8. Written'
    BY <1>1 DEF Written
  <2>9. GotIt'
    <3>1. ASSUME req.op = "read", NEW t \in Answering, WillSucceed(dev'[t], tag, tog'.in)
          PROVE  buf' = media[t][req.lba]
      <4>1. t = s
        BY <1>1, <2>1, <2>5, <3>1, OneAnswers
      <4>2. WillSucceed(g[2], tag, 1 - tog.in)
        BY <2>2, <3>1, <4>1
      <4>3. DeviceOk(dev[s]) /\ Mine(dev[s], Command) /\ tog.in \in {0, 1}
        BY <1>1, <2>1 DEF Known, Types
      <4>4. g[1].size = "sector" /\ g[1].val = media[s][Command.lba]
        BY <1>3, <2>5, <3>1, <4>2, <4>3, DataIs
      <4>. QED  BY <1>3, <2>5, <4>1, <4>4
    <3>. QED  BY <1>1, <1>3, <2>3, <3>1 DEF GotIt
  <2>10. CompletedIsOnMedium'
    BY <1>3 DEF CompletedIsOnMedium
  <2>. QED  BY <2>3, <2>4, <2>6, <2>7, <2>8, <2>9, <2>10 DEF UsbInv
<1>4. ASSUME NEW s \in Target("in"), NEW g \in Gets(dev[s], media[s], tog.in),
             dev' = [dev EXCEPT ![s] = g[2]], Finish("err"), UNCHANGED <<tog, buf, media>>
      PROVE  UsbInv'
  BY <1>1, <1>4, AckedFailureKeeps
<1>. QED  BY <1>2, <1>3, <1>4 DEF ReceiveData, bulk_in

\* The status comes in, and the command is over.
LEMMA ReceiveStatusKeeps ==
  ASSUME UsbInv, ReceiveStatus
  PROVE  UsbInv'
<1>1. /\ Types /\ Driver /\ Known /\ Written /\ GotIt /\ Enumerated /\ stage = "csw"
      /\ UNCHANGED <<bus, tag, req, scan_vars>>
  BY DEF UsbInv, ReceiveStatus
<1>2. CASE ehci_exec_fails
  BY <1>1, <1>2, FailureKeeps
<1>3. ASSUME NEW s \in Target("in"), NEW g \in Gets(dev[s], media[s], tog.in), Fits(g[1], "csw"),
             dev' = [dev EXCEPT ![s] = g[2]], tog' = [tog EXCEPT !.in = 1 - @],
             Finish(IF CswGood(g[1], tag) THEN "ok" ELSE "err"), buf' = buf,
             media' = media
      PROVE  UsbInv'
  <2>1. s \in Sockets /\ s \in Answering
    BY DEF Target, Answering
  <2>2. /\ dev' \in [Sockets -> Devices] /\ dev'[s] = g[2] /\ \A t \in Sockets : t # s => dev'[t] = dev[t]
        /\ tog' \in [in : {0, 1}, out : {0, 1}] /\ tog'.in = 1 - tog.in
        /\ \A t \in Sockets : /\ DeviceOk(dev'[t]) /\ dev'[t].addr = dev[t].addr
                              /\ Knows(dev'[t]) \subseteq Knows(dev[t]) \cup {NoCommand}
    <3>1. tog'.in = 1 - tog.in
      BY <1>1, <1>3 DEF Types
    <3>. QED  BY <1>1, <1>3, <2>1, <3>1, BulkInIs
  <2>3. Enumerated' /\ Answering' = Answering /\ Sockets' = Sockets
    BY <1>1, <2>2, AddressesKept
  <2>4. stage' = "idle" /\ result' = (IF CswGood(g[1], tag) THEN "ok" ELSE "err")
    BY <1>3 DEF Finish
  <2>5. Types'
    BY <1>1, <1>3, <2>2, <2>3, <2>4 DEF Types, scan_vars
  <2>6. Command \in Orders /\ Command.tag = tag /\ tag \in Nat \ {0}
        /\ Command.op = req.op /\ Command.lba = req.lba /\ addr > 0 /\ scan \in {"off", "inquiry"}
    BY <1>1 DEF Command, Driver, Orders
  <2>7. Driver'
    BY <1>1, <1>3, <2>4, <2>6 DEF Driver, scan_vars
  <2>8. Known'
    <3>1. ASSUME NEW t \in Sockets
          PROVE  DeviceOk(dev'[t]) /\ Past(dev'[t], tag)
      <4>1. Past(dev[t], tag)
        BY <1>1 DEF Known
      <4>2. NoCommand.tag = 0
        BY DEF NoCommand
      <4>. QED  BY <2>2, <2>6, <4>1, <4>2 DEF Past
    <3>. QED  BY <1>1, <2>3, <2>4, <3>1 DEF Known
  <2>9. Written' /\ GotIt'
    BY <2>4 DEF Written, GotIt
  <2>10. CompletedIsOnMedium'
    <3>1. ASSUME CswGood(g[1], tag), req.op \in {"read", "write"}, NEW t \in Answering
          PROVE  buf = media[t][req.lba]
      <4>1. t = s
        BY <1>1, <2>1, <2>6, OneAnswers
      <4>2. DeviceOk(dev[s]) /\ Mine(dev[s], Command) /\ tog.in \in {0, 1}
        BY <1>1, <2>1 DEF Known, Types
      <4>3. g[1].size = "csw"
        BY <1>3 DEF Fits
      <4>4. WillSucceed(dev[s], tag, tog.in) /\ (req.op = "write" => Succeeds(dev[s], tag))
        BY <1>3, <2>6, <3>1, <4>2, <4>3, StatusIs
      <4>5. CASE req.op = "read"
        BY <1>1, <2>1, <4>1, <4>4, <4>5 DEF GotIt
      <4>6. CASE req.op = "write"
        <5>1. media[s][req.lba] = req.val
          BY <1>1, <2>1, <4>4, <4>6 DEF Written
        <5>2. buf = req.val
          BY <1>1, <4>6 DEF Driver
        <5>. QED  BY <4>1, <5>1, <5>2
      <4>. QED  BY <3>1, <4>5, <4>6
    <3>. QED  BY <1>1, <1>3, <2>3, <2>4, <3>1 DEF CompletedIsOnMedium
  <2>. QED  BY <2>3, <2>5, <2>7, <2>8, <2>9, <2>10 DEF UsbInv
<1>4. ASSUME NEW s \in Target("in"), NEW g \in Gets(dev[s], media[s], tog.in),
             dev' = [dev EXCEPT ![s] = g[2]], Finish("err"), UNCHANGED <<tog, buf, media>>
      PROVE  UsbInv'
  BY <1>1, <1>4, AckedFailureKeeps
<1>. QED  BY <1>2, <1>3, <1>4 DEF ReceiveStatus, bulk_in

\* Every transfer of a command keeps the invariant.
LEMMA TransportKeeps ==
  ASSUME UsbInv, Transport
  PROVE  UsbInv'
BY SendCommandKeeps, SendDataKeeps, ReceiveDataKeeps, ReceiveStatusKeeps DEF Transport

-----------------------------------------------------------------------------
(* The scan *)

\* The sockets of a machine.
LEMMA SocketsAre ==
  ASSUME Types
  PROVE  /\ bus \in Seq(Seq(Ports))
         /\ \A c, p : <<c, p>> \in Sockets <=> c \in 1..Len(bus) /\ p \in 1..Len(bus[c])
         /\ \A s \in Sockets : s = <<s[1], s[2]>> /\ s[1] \in 1..Len(bus) /\ s[2] \in 1..Len(bus[s[1]])
<1>1. bus \in Seq(Seq(Ports))
  BY UsbAssumption DEF Types, Ports, Classes
<1>2. ASSUME NEW c \in 1..Len(bus) PROVE DOMAIN bus[c] = 1..Len(bus[c])
  BY <1>1
<1>3. DOMAIN bus = 1..Len(bus)
  BY <1>1
<1>4. \A s \in Plugs(bus) : s = <<s[1], s[2]>> /\ s[1] \in 1..Len(bus)
  BY <1>3 DEF Plugs
<1>5. ASSUME NEW c \in 1..Len(bus), NEW p \in 1..Len(bus[c])
      PROVE  <<c, p>> \in Plugs(bus)
  <2>1. p \in UNION {DOMAIN bus[c2] : c2 \in DOMAIN bus}
    BY <1>2, <1>3
  <2>. QED  BY <1>3, <2>1 DEF Plugs
<1>6. \A c, p : <<c, p>>[1] = c /\ <<c, p>>[2] = p
  OBVIOUS
<1>7. \A s \in Sockets : s = <<s[1], s[2]>> /\ s[1] \in 1..Len(bus) /\ s[2] \in 1..Len(bus[s[1]])
  BY <1>2, <1>4 DEF Sockets
<1>8. ASSUME NEW c, NEW p, <<c, p>> \in Sockets
      PROVE  c \in 1..Len(bus) /\ p \in 1..Len(bus[c])
  BY <1>6, <1>7, <1>8
<1>9. ASSUME NEW c \in 1..Len(bus), NEW p \in 1..Len(bus[c])
      PROVE  <<c, p>> \in Sockets
  BY <1>2, <1>5, <1>6 DEF Sockets
<1>. QED  BY <1>1, <1>7, <1>8, <1>9

\* A device as it is after a reset, at some address.
LEMMA FreshDevice ==
  ASSUME NEW a \in Nat \cup {None}
  PROVE  LET d == [Unplugged EXCEPT !.addr = a]
         IN  DeviceOk(d) /\ d.addr = a /\ \A t \in Nat : Past(d, t)
<1>. DEFINE d == [Unplugged EXCEPT !.addr = a]
<1>1. Unplugged \in Devices /\ Unplugged.phase = "idle" /\ Unplugged.queue = <<>> /\ Unplugged.cmd = NoCommand
  <2>1. NoCommand \in Commands
    BY DEF Commands
  <2>. QED  BY <2>1, EmptyQueue DEF Devices, Unplugged
<1>2. d \in Devices /\ d.addr = a /\ d.phase = "idle" /\ d.queue = <<>> /\ d.cmd = NoCommand
  BY <1>1 DEF Devices
<1>. HIDE DEF d
<1>3. Knows(d) = {NoCommand}
  BY <1>2, KnowsIs
<1>4. \A t \in Nat : Past(d, t)
  BY <1>3 DEF Past, NoCommand
<1>5. DeviceOk(d) /\ d.addr = a /\ \A t \in Nat : Past(d, t)
  BY <1>2, <1>4 DEF DeviceOk
<1>. QED  BY <1>5 DEF d

\* A device that is reset has no address.
LEMMA UnpluggedIs == DeviceOk(Unplugged) /\ Unplugged.addr = None /\ \A t \in Nat : Past(Unplugged, t)
<1>1. Unplugged \in Devices /\ Unplugged.phase = "idle" /\ Unplugged.queue = <<>> /\ Unplugged.cmd = NoCommand
      /\ Unplugged.addr = None
  <2>1. NoCommand \in Commands
    BY DEF Commands
  <2>. QED  BY <2>1, EmptyQueue DEF Devices, Unplugged
<1>2. Knows(Unplugged) = {NoCommand}
  BY <1>1, KnowsIs
<1>3. \A t \in Nat : Past(Unplugged, t)
  BY <1>2 DEF Past, NoCommand
<1>. QED  BY <1>1, <1>3 DEF DeviceOk

\* A step of the scan that starts no command.
LEMMA QuietScan ==
  ASSUME UsbInv, scan \in {"hc", "port", "inquiry"}, stage = "idle",
         UNCHANGED <<bus, media, tag, tog, stage>>, result' = "none",
         UNCHANGED <<req, buf>> \/ req' = NoRequest,
         dev' \in [Sockets -> Devices], \A s \in Sockets : DeviceOk(dev'[s]) /\ Past(dev'[s], tag),
         hc' \in 0..Len(bus), port' \in Nat \ {0}, nextAddr' \in Nat \ {0}, addr' \in Nat,
         ep' \in [in : Nat, out : Nat], msc' \in [hc : Nat, addr : Nat], usb_ok' \in BOOLEAN,
         scan' \in {"off", "hc", "port"}, Enumerated'
  PROVE  UsbInv'
<1>1. Types /\ Driver /\ Known /\ bus' = bus /\ stage' = "idle"
  BY DEF UsbInv
<1>2. Sockets' = Sockets
  BY <1>1 DEF Sockets
<1>3. Types'
  BY <1>1, <1>2 DEF Types, NoRequest
<1>4. req.op \notin {"read", "write"} /\ req'.op \notin {"read", "write"}
  BY <1>1 DEF Driver, NoRequest
<1>5. Driver'
  BY <1>1, <1>4 DEF Driver
<1>6. Known'
  BY <1>1, <1>2 DEF Known
<1>7. Written' /\ GotIt' /\ CompletedIsOnMedium'
  BY <1>1, <1>4 DEF Written, GotIt, CompletedIsOnMedium
<1>. QED  BY <1>3, <1>5, <1>6, <1>7 DEF UsbInv

\* The command of a scan, and the moments between its steps.
LEMMA ScanIdle ==
  ASSUME UsbInv, scan \in {"hc", "port"}
  PROVE  stage = "idle" /\ result = "none"
BY DEF UsbInv, Driver

\* A controller is reset and its devices lose their addresses.
LEMMA HcInitKeeps ==
  ASSUME UsbInv, ehci_hc_init
  PROVE  UsbInv'
<1>1. /\ Types /\ Known /\ Enumerated /\ scan = "hc" /\ hc < Len(bus) /\ hc' = hc + 1
      /\ UNCHANGED <<bus, media, tog, bot_vars, addr, ep, usb_ok, msc, kbd_ok>>
      /\ stage = "idle" /\ result = "none"
  BY ScanIdle DEF UsbInv, ehci_hc_init
<1>2. hc \in Nat /\ Len(bus) \in Nat /\ hc' \in 1..Len(bus) /\ hc' \in 0..Len(bus) /\ hc < hc' /\ tag \in Nat
  BY <1>1, SocketsAre DEF Types
<1>3. Sockets' = Sockets /\ \A s : Plug(s)' = Plug(s)
  BY <1>1 DEF Sockets, Plug
<1>4. CASE /\ dev' = [s \in Sockets |-> IF s[1] = hc' THEN Unplugged ELSE dev[s]]
           /\ scan' = "port" /\ port' = 1 /\ nextAddr' = 1
  <2>1. /\ dev' \in [Sockets -> Devices]
        /\ \A s \in Sockets : DeviceOk(dev'[s]) /\ Past(dev'[s], tag)
        /\ \A s \in Sockets : dev'[s] = IF s[1] = hc' THEN Unplugged ELSE dev[s]
    <3>1. Unplugged \in Devices
      BY UnpluggedIs DEF DeviceOk
    <3>. QED  BY <1>1, <1>2, <1>4, <3>1, UnpluggedIs DEF Known, Types
  <2>2. \A s, t \in Sockets : s[1] = t[1] /\ dev'[s].addr = dev'[t].addr /\ s # t => dev'[s].addr \in {None, 0}
    BY <1>1, <2>1, UnpluggedIs DEF Enumerated
  <2>3. \A s \in Sockets : s[1] = hc' => /\ dev'[s].addr < nextAddr'
                                         /\ (s[2] >= port' => dev'[s].addr = None)
    BY <1>4, <2>1, UnpluggedIs DEF None
  <2>4. usb_ok => /\ msc.hc <= hc' /\ msc.addr > 0
                  /\ \E s \in Sockets : s[1] = msc.hc /\ dev'[s].addr = msc.addr /\ Plug(s).class = "disk"
    <3>. SUFFICES ASSUME usb_ok PROVE /\ msc.hc <= hc' /\ msc.addr > 0
                  /\ \E s \in Sockets : s[1] = msc.hc /\ dev'[s].addr = msc.addr /\ Plug(s).class = "disk"
      OBVIOUS
    <3>1. msc.hc <= hc /\ msc.addr > 0 /\ msc.hc \in Nat
      BY <1>1 DEF Enumerated, Types
    <3>2. PICK s \in Sockets : s[1] = msc.hc /\ dev[s].addr = msc.addr /\ Plug(s).class = "disk"
      BY <1>1 DEF Enumerated
    <3>3. s[1] # hc' /\ msc.hc <= hc'
      BY <1>2, <3>1, <3>2
    <3>. QED  BY <2>1, <3>1, <3>2, <3>3
  <2>5. Enumerated'
    BY <1>1, <1>2, <1>3, <1>4, <2>2, <2>3, <2>4 DEF Enumerated
  <2>. QED  BY <1>1, <1>2, <1>4, <2>1, <2>5, QuietScan DEF bot_vars, Types
<1>5. CASE UNCHANGED <<dev, armed, scan, port, nextAddr>>
  <2>1. dev' \in [Sockets -> Devices] /\ \A s \in Sockets : DeviceOk(dev'[s]) /\ Past(dev'[s], tag)
    BY <1>1, <1>5 DEF Known, Types
  <2>2. usb_ok => msc.hc <= hc'
    BY <1>1, <1>2 DEF Enumerated, Types
  <2>3. Enumerated'
    BY <1>1, <1>3, <1>5, <2>2 DEF Enumerated
  <2>. QED  BY <1>1, <1>2, <1>5, <2>1, <2>3, QuietScan DEF bot_vars, Types
<1>. QED  BY <1>4, <1>5 DEF ehci_hc_init

\* The address the driver keeps is a natural number.
LEMMA KeptAddrIs ==
  ASSUME Types PROVE KeptAddr \in Nat
BY DEF KeptAddr, Types

\* A port without a high-speed device is passed over.
LEMMA PassPortKeeps ==
  ASSUME UsbInv, PassPort
  PROVE  UsbInv'
<1>1. /\ Types /\ Known /\ Enumerated /\ scan = "port" /\ port' = port + 1
      /\ UNCHANGED <<bus, dev, media, tog, bot_vars, scan, nextAddr, hc, addr, ep, usb_ok, msc, kbd_ok, armed>>
      /\ stage = "idle" /\ result = "none"
  BY ScanIdle DEF UsbInv, PassPort
<1>2. dev' \in [Sockets -> Devices] /\ \A s \in Sockets : DeviceOk(dev'[s]) /\ Past(dev'[s], tag)
  BY <1>1 DEF Known, Types
<1>3. port \in Nat \ {0} /\ port' \in Nat \ {0}
  BY <1>1 DEF Types
<1>4. Sockets' = Sockets /\ \A s : Plug(s)' = Plug(s)
  BY <1>1 DEF Sockets, Plug
<1>5. \A s \in Sockets : s[2] >= port' => s[2] >= port
  <2>1. \A s \in Sockets : s[2] \in Nat
    BY <1>1, SocketsAre
  <2>. QED  BY <1>1, <1>3, <2>1
<1>6. Enumerated'
  BY <1>1, <1>4, <1>5 DEF Enumerated
<1>. QED  BY <1>1, <1>2, <1>3, <1>6, QuietScan DEF bot_vars, Types

\* The ports of a controller are done.
LEMMA PortsDoneKeeps ==
  ASSUME UsbInv, PortsDone
  PROVE  UsbInv'
<1>1. /\ Types /\ Known /\ Enumerated /\ scan = "port" /\ scan' = "hc" /\ addr' = KeptAddr
      /\ UNCHANGED <<bus, dev, media, tog, bot_vars, port, nextAddr, hc, ep, usb_ok, msc, kbd_ok, armed>>
      /\ stage = "idle" /\ result = "none"
  BY ScanIdle DEF UsbInv, PortsDone
<1>2. dev' \in [Sockets -> Devices] /\ \A s \in Sockets : DeviceOk(dev'[s]) /\ Past(dev'[s], tag)
  BY <1>1 DEF Known, Types
<1>3. Sockets' = Sockets /\ \A s : Plug(s)' = Plug(s)
  BY <1>1 DEF Sockets, Plug
<1>4. Enumerated'
  BY <1>1, <1>3 DEF Enumerated
<1>. QED  BY <1>1, <1>2, <1>4, KeptAddrIs, QuietScan DEF bot_vars, Types

\* The controllers are done.
LEMMA ScanDoneKeeps ==
  ASSUME UsbInv, ScanDone
  PROVE  UsbInv'
<1>1. /\ Types /\ Known /\ Enumerated /\ scan = "hc" /\ scan' = "off" /\ addr' = KeptAddr
      /\ hc' = IF usb_ok THEN msc.hc ELSE hc
      /\ UNCHANGED <<bus, dev, media, tog, bot_vars, port, nextAddr, ep, usb_ok, msc, kbd_ok, armed>>
      /\ stage = "idle" /\ result = "none"
  BY ScanIdle DEF UsbInv, ScanDone
<1>2. dev' \in [Sockets -> Devices] /\ \A s \in Sockets : DeviceOk(dev'[s]) /\ Past(dev'[s], tag)
  BY <1>1 DEF Known, Types
<1>3. Sockets' = Sockets /\ \A s : Plug(s)' = Plug(s)
  BY <1>1 DEF Sockets, Plug
<1>4. Enumerated'
  BY <1>1, <1>3 DEF Enumerated, KeptAddr
<1>5. hc' \in 0..Len(bus)
  <2>1. CASE usb_ok
    <3>1. PICK s \in Sockets : s[1] = msc.hc
      BY <1>1, <2>1 DEF Enumerated
    <3>2. msc.hc \in 1..Len(bus)
      BY <1>1, <3>1, SocketsAre
    <3>3. Len(bus) \in Nat
      BY <1>1, SocketsAre
    <3>. QED  BY <1>1, <2>1, <3>2, <3>3
  <2>2. CASE ~usb_ok
    BY <1>1, <2>2 DEF Types
  <2>. QED  BY <2>1, <2>2
<1>. QED  BY <1>1, <1>2, <1>4, <1>5, KeptAddrIs, QuietScan DEF bot_vars, Types

\* The INQUIRY is over: the first disk is kept.
LEMMA InquiredKeeps ==
  ASSUME UsbInv, Inquired
  PROVE  UsbInv'
<1>1. /\ Types /\ Known /\ Enumerated /\ scan = "inquiry" /\ scan' = "port" /\ stage = "idle"
      /\ Returned
      /\ UNCHANGED <<bus, dev, media, tog, port, nextAddr, hc, addr, ep, kbd_ok, armed>>
      /\ \/ IsDisk /\ ~usb_ok /\ usb_ok' = TRUE /\ msc' = [hc |-> hc, addr |-> addr]
         \/ UNCHANGED <<usb_ok, msc>>
  BY DEF UsbInv, Inquired
<1>2. dev' \in [Sockets -> Devices] /\ \A s \in Sockets : DeviceOk(dev'[s]) /\ Past(dev'[s], tag)
  BY <1>1 DEF Known, Types
<1>3. Sockets' = Sockets /\ \A s : Plug(s)' = Plug(s)
  BY <1>1 DEF Sockets, Plug
<1>4. msc' \in [hc : Nat, addr : Nat] /\ usb_ok' \in BOOLEAN /\ hc \in Nat
  <2>1. hc \in Nat /\ addr \in Nat /\ msc \in [hc : Nat, addr : Nat] /\ usb_ok \in BOOLEAN
    BY <1>1, SocketsAre DEF Types
  <2>2. CASE usb_ok' = TRUE /\ msc' = [hc |-> hc, addr |-> addr]
    BY <2>1, <2>2
  <2>3. CASE UNCHANGED <<usb_ok, msc>>
    BY <2>1, <2>3
  <2>. QED  BY <1>1, <2>1, <2>2, <2>3
<1>5. usb_ok' => /\ msc'.hc <= hc /\ msc'.addr > 0
                 /\ \E s \in Sockets : s[1] = msc'.hc /\ dev[s].addr = msc'.addr /\ Plug(s).class = "disk"
  <2>1. CASE IsDisk /\ msc' = [hc |-> hc, addr |-> addr]
    <3>. DEFINE s == <<hc, port - 1>>
    <3>1. s \in Sockets /\ dev[s].addr = addr /\ addr > 0 /\ s[1] = hc
      BY <1>1 DEF Enumerated
    <3>2. Plug(s).class = "disk"
      BY <2>1 DEF IsDisk
    <3>. HIDE DEF s
    <3>3. msc'.hc = hc /\ msc'.addr = addr
      BY <2>1
    <3>. QED  BY <1>4, <3>1, <3>2, <3>3
  <2>2. CASE UNCHANGED <<usb_ok, msc>>
    BY <1>1, <2>2 DEF Enumerated
  <2>. QED  BY <1>1, <2>1, <2>2
<1>6. Enumerated'
  BY <1>1, <1>3, <1>5 DEF Enumerated
<1>. QED  BY <1>1, <1>2, <1>4, <1>6, QuietScan DEF Returned, Types

(* The port being probed is a socket, its device has no address yet, and  *)
(* giving it address 0 or the next free one keeps the addresses apart.    *)
LEMMA AddressedIs ==
  ASSUME UsbInv, scan = "port", port <= Len(bus[hc]), NEW a \in {0, nextAddr}, dev' = Addressed(a),
         UNCHANGED <<bus, hc, usb_ok, msc>>, port' = port + 1, nextAddr' = nextAddr + 1,
         scan' = "port" \/ (scan' = "inquiry" /\ a = nextAddr /\ addr' = nextAddr)
  PROVE  /\ dev' \in [Sockets -> Devices]
         /\ \A s \in Sockets : DeviceOk(dev'[s]) /\ Past(dev'[s], tag)
         /\ Enumerated'
<1>1. /\ Types /\ Known /\ Enumerated
  BY DEF UsbInv
<1>2. /\ port \in Nat \ {0} /\ nextAddr \in Nat \ {0} /\ a \in Nat /\ tag \in Nat
      /\ dev \in [Sockets -> Devices] /\ hc \in 1..Len(bus)
  BY <1>1 DEF Types, Enumerated
<1>. DEFINE h == <<hc, port>>
            d == [Unplugged EXCEPT !.addr = a]
<1>3. h \in Sockets /\ h[1] = hc /\ h[2] = port
  <2>1. port \in 1..Len(bus[hc])
    <3>1. Len(bus[hc]) \in Nat
      BY <1>1, <1>2, SocketsAre
    <3>. QED  BY <1>2, <3>1
  <2>. QED  BY <1>1, <1>2, <2>1, SocketsAre
<1>4. dev[h].addr = None
  BY <1>1, <1>2, <1>3 DEF Enumerated
<1>5. d \in Devices /\ DeviceOk(d) /\ d.addr = a /\ Past(d, tag)
  <2>1. DeviceOk(d) /\ d.addr = a /\ \A t \in Nat : Past(d, t)
    BY <1>2, FreshDevice
  <2>2. d \in Devices
    BY <2>1 DEF DeviceOk
  <2>. HIDE DEF d
  <2>. QED  BY <1>2, <2>1, <2>2
<1>6. dev' = [dev EXCEPT ![h] = d]
  BY DEF Addressed, Here
<1>7. Sockets' = Sockets /\ \A s : Plug(s)' = Plug(s)
  BY DEF Sockets, Plug
<1>8. \A s \in Sockets : s[2] \in Nat
  BY <1>1, SocketsAre
<1>9. <<hc, port' - 1>> = h
  BY <1>2
<1>. HIDE DEF h, d
<1>10. dev' \in [Sockets -> Devices] /\ dev'[h] = d /\ \A s \in Sockets : s # h => dev'[s] = dev[s]
  BY <1>2, <1>3, <1>5, <1>6
<1>11. \A s \in Sockets : DeviceOk(dev'[s]) /\ Past(dev'[s], tag)
  BY <1>1, <1>5, <1>10 DEF Known
<1>12. \A s \in Sockets : s[1] = hc => dev[s].addr \in Nat \cup {None} /\ dev[s].addr < nextAddr
  <2>1. \A s \in Sockets : dev[s].addr \in Nat \cup {None}
    BY <1>2 DEF Devices
  <2>. QED  BY <1>1, <2>1 DEF Enumerated
<1>13. ASSUME NEW s \in Sockets, s # h, s[1] = hc
       PROVE  dev'[s].addr # nextAddr /\ dev'[s].addr < nextAddr' /\ (s[2] >= port' => dev'[s].addr = None)
  <2>1. dev'[s].addr = dev[s].addr
    BY <1>10, <1>13
  <2>2. dev[s].addr \in Nat \cup {None} /\ dev[s].addr < nextAddr /\ s[2] \in Nat
    BY <1>8, <1>12, <1>13
  <2>3. s[2] >= port' => s[2] >= port
    BY <1>2, <2>2
  <2>4. s[2] >= port => dev[s].addr = None
    BY <1>1, <1>13 DEF Enumerated
  <2>5. dev[s].addr \in Int
    BY <2>2 DEF None
  <2>. QED  BY <1>2, <2>1, <2>2, <2>3, <2>4, <2>5
<1>14. ASSUME NEW s \in Sockets, NEW t \in Sockets, s[1] = t[1], dev'[s].addr = dev'[t].addr, s # t
       PROVE  dev'[s].addr \in {None, 0}
  <2>1. CASE s = h
    BY <1>3, <1>5, <1>10, <1>13, <1>14, <2>1
  <2>2. CASE t = h
    BY <1>3, <1>5, <1>10, <1>13, <1>14, <2>2
  <2>3. CASE s # h /\ t # h
    BY <1>1, <1>10, <1>14, <2>3 DEF Enumerated
  <2>. QED  BY <2>1, <2>2, <2>3
<1>15. ASSUME NEW s \in Sockets, s[1] = hc
       PROVE  dev'[s].addr < nextAddr' /\ (s[2] >= port' => dev'[s].addr = None)
  <2>1. CASE s = h
    <3>1. a < nextAddr' /\ ~(port >= port')
      BY <1>2
    <3>. QED  BY <1>3, <1>5, <1>10, <2>1, <3>1
  <2>2. CASE s # h
    BY <1>13, <1>15, <2>2
  <2>. QED  BY <2>1, <2>2
<1>16. scan' = "inquiry" => /\ addr' = nextAddr' - 1 /\ addr' > 0 /\ h \in Sockets /\ dev'[h].addr = addr'
  BY <1>2, <1>3, <1>5, <1>10
<1>17. usb_ok => /\ msc.hc <= hc /\ msc.addr > 0
                 /\ \E s \in Sockets : s[1] = msc.hc /\ dev'[s].addr = msc.addr /\ Plug(s).class = "disk"
  <2>. SUFFICES ASSUME usb_ok PROVE /\ msc.hc <= hc /\ msc.addr > 0
                 /\ \E s \in Sockets : s[1] = msc.hc /\ dev'[s].addr = msc.addr /\ Plug(s).class = "disk"
    OBVIOUS
  <2>1. msc.hc <= hc /\ msc.addr > 0
    BY <1>1 DEF Enumerated
  <2>2. PICK s \in Sockets : s[1] = msc.hc /\ dev[s].addr = msc.addr /\ Plug(s).class = "disk"
    BY <1>1 DEF Enumerated
  <2>3. s # h
    BY <1>4, <2>1, <2>2 DEF None
  <2>. QED  BY <1>10, <2>1, <2>2, <2>3
<1>18. Enumerated'
  BY <1>2, <1>7, <1>9, <1>14, <1>15, <1>16, <1>17 DEF Enumerated
<1>. QED  BY <1>10, <1>11, <1>18

(* A command starts, of the scan or of the disk I/O after it: its tag is  *)
(* new to every device.                                                   *)
LEMMA CommandStarts ==
  ASSUME Types, UNCHANGED <<bus, media>>,
         NEW op \in {"inquiry", "read", "write"}, NEW lb \in Lba \cup {None}, NEW val,
         do_scsi(op, lb, val), stage = "idle",
         op \in {"read", "write"} => lb \in Lba /\ scan' = "off" /\ usb_ok',
         op = "write" => val \in Values, op = "inquiry" => scan' = "inquiry",
         scan' \in {"off", "inquiry"}, addr' > 0,
         dev' \in [Sockets -> Devices], \A s \in Sockets : DeviceOk(dev'[s]) /\ Past(dev'[s], tag),
         hc' \in 0..Len(bus), port' \in Nat \ {0}, nextAddr' \in Nat \ {0}, addr' \in Nat,
         ep' \in [in : Nat, out : Nat], msc' \in [hc : Nat, addr : Nat], usb_ok' \in BOOLEAN,
         tog' \in [in : {0, 1}, out : {0, 1}], Enumerated'
  PROVE  UsbInv'
<1>1. /\ tag \in Nat /\ tag' = tag + 1 /\ stage' = "cbw" /\ result' = "none" /\ tag' \in Nat \ {0}
      /\ req' = [op |-> op, lba |-> lb, val |-> val] /\ buf' = IF op = "write" THEN val ELSE buf
  BY DEF Types, do_scsi
<1>2. Sockets' = Sockets
  BY DEF Sockets
<1>3. req'.op = op /\ req'.lba = lb /\ req'.val = val
  BY <1>1
<1>4. Types'
  BY <1>1, <1>2, <1>3 DEF Types
<1>5. Command' = [op |-> op, lba |-> lb, tag |-> tag']
  BY <1>1, <1>3 DEF Command
<1>6. Command' \in Orders
  BY <1>1, <1>5 DEF Orders
<1>7. Driver'
  BY <1>1, <1>3, <1>6 DEF Driver
<1>8. ASSUME NEW s \in Sockets
      PROVE  Past(dev'[s], tag') /\ New(dev'[s], tag')
  <2>1. Past(dev'[s], tag)
    OBVIOUS
  <2>2. \A c \in Knows(dev'[s]) : c.tag \in Nat
    <3>. DEFINE b == dev'[s]
    <3>1. b \in Devices /\ b.cmd \in Commands
      BY DEF Devices
    <3>2. \A c \in Commands : c.tag \in Nat
      BY DEF Commands, Orders, NoCommand
    <3>3. b.queue = <<>> \/ \E p \in Packets : b.queue = <<p>>
      BY <3>1, QueueIs
    <3>. HIDE DEF b
    <3>4. Knows(b) \subseteq Commands
      <4>1. CASE b.queue = <<>>
        BY <3>1, <4>1, KnowsIs
      <4>2. CASE \E p \in Orders : b.queue = <<p>>
        BY <3>1, <4>2, KnowsIs DEF Commands
      <4>3. CASE \E p \in [val : Values \cup {Junk}] : b.queue = <<p>>
        BY <3>1, <4>3, KnowsIs
      <4>. QED  BY <3>3, <4>1, <4>2, <4>3 DEF Packets
    <3>. QED  BY <3>2, <3>4 DEF b
  <2>. QED  BY <1>1, <2>1, <2>2 DEF Past, New
<1>9. Known'
  BY <1>1, <1>2, <1>8 DEF Known
<1>10. Written' /\ GotIt' /\ CompletedIsOnMedium'
  BY <1>1 DEF Written, GotIt, CompletedIsOnMedium
<1>. QED  BY <1>4, <1>7, <1>9, <1>10 DEF UsbInv

\* A device is enumerated, as far as it goes.
LEMMA ProbePortKeeps ==
  ASSUME UsbInv, ProbePort
  PROVE  UsbInv'
<1>1. /\ Types /\ scan = "port" /\ port <= Len(bus[hc]) /\ nextAddr' = nextAddr + 1 /\ port' = port + 1
      /\ UNCHANGED <<bus, media, hc, usb_ok, msc>>
      /\ enumerate_fails \/ enumerate_unconfigured \/ enumerate_device
  BY DEF UsbInv, ProbePort
<1>2. stage = "idle" /\ result = "none"
  BY <1>1, ScanIdle
<1>3. /\ port \in Nat \ {0} /\ nextAddr \in Nat \ {0} /\ port' \in Nat \ {0} /\ nextAddr' \in Nat \ {0}
      /\ hc \in 0..Len(bus) /\ addr \in Nat /\ msc \in [hc : Nat, addr : Nat] /\ usb_ok \in BOOLEAN
      /\ ep \in [in : Nat, out : Nat] /\ nextAddr > 0
  BY <1>1 DEF Types
<1>4. ASSUME NEW a \in {0, nextAddr}, dev' = Addressed(a), addr' \in {0, nextAddr},
             UNCHANGED <<scan, tog, bot_vars>>, ep' \in [in : Nat, out : Nat]
      PROVE  UsbInv'
  <2>1. /\ dev' \in [Sockets -> Devices]
        /\ \A s \in Sockets : DeviceOk(dev'[s]) /\ Past(dev'[s], tag)
        /\ Enumerated'
    BY <1>1, <1>4, AddressedIs
  <2>2. addr' \in Nat
    BY <1>3, <1>4
  <2>. QED  BY <1>1, <1>2, <1>3, <1>4, <2>1, <2>2, QuietScan DEF bot_vars
<1>5. CASE enumerate_fails
  BY <1>3, <1>4, <1>5 DEF enumerate_fails
<1>6. CASE enumerate_unconfigured
  BY <1>3, <1>4, <1>6 DEF enumerate_unconfigured
<1>7. CASE enumerate_device
  <2>1. [in |-> 0, out |-> 0] \in [in : Nat, out : Nat]
    OBVIOUS
  <2>2. [in |-> Plug(Here).in, out |-> Plug(Here).out] \in [in : Nat, out : Nat]
    <3>1. Here \in Sockets
      <4>1. hc \in 1..Len(bus)
        BY <1>1 DEF UsbInv, Enumerated
      <4>2. Len(bus[hc]) \in Nat
        BY <1>1, <4>1, SocketsAre
      <4>3. port \in 1..Len(bus[hc])
        BY <1>1, <1>3, <4>2
      <4>. QED  BY <1>1, <4>1, <4>3, SocketsAre DEF Here
    <3>2. Plug(Here) \in Ports
      BY <1>1, <3>1, SocketsAre DEF Plug
    <3>. QED  BY <3>2 DEF Ports
  <2>3. dev' = Addressed(nextAddr) /\ addr' = nextAddr
    BY <1>7 DEF enumerate_device
  <2>4. CASE UNCHANGED <<scan, tog, bot_vars>> /\ ep' \in [in : Nat, out : Nat]
    BY <1>4, <2>3, <2>4
  <2>5. CASE /\ tog' = [in |-> 0, out |-> 0] /\ do_scsi("inquiry", None, Junk) /\ scan' = "inquiry"
             /\ ep' \in [in : Nat, out : Nat]
    <3>1. /\ dev' \in [Sockets -> Devices]
          /\ \A s \in Sockets : DeviceOk(dev'[s]) /\ Past(dev'[s], tag)
          /\ Enumerated'
      BY <1>1, <2>3, <2>5, AddressedIs
    <3>2. tog' \in [in : {0, 1}, out : {0, 1}] /\ addr' > 0 /\ addr' \in Nat /\ None \in Lba \cup {None}
      BY <1>3, <2>3, <2>5
    <3>. QED  BY <1>1, <1>2, <1>3, <2>5, <3>1, <3>2, CommandStarts
  <2>. QED  BY <1>7, <2>1, <2>2, <2>4, <2>5 DEF enumerate_device
<1>. QED  BY <1>1, <1>5, <1>6, <1>7

\* Every step of the scan keeps the invariant.
LEMMA ScanKeeps ==
  ASSUME UsbInv, Scan
  PROVE  UsbInv'
BY HcInitKeeps, PassPortKeeps, ProbePortKeeps, InquiredKeeps, PortsDoneKeeps, ScanDoneKeeps DEF Scan

-----------------------------------------------------------------------------
(* The driver as a whole *)

\* Power comes: nothing is under way and no device has an address.
LEMMA PowerIs ==
  ASSUME bus \in Buses,
         DOMAIN media = Sockets, \A s \in Sockets : DOMAIN media[s] = Lba,
         dev = PowerUp(bus).dev, scan = "off", port = 1, nextAddr = 1, hc = 0, addr = 0,
         ep = PowerUp(bus).ep, tog = [in |-> 0, out |-> 0], tag = 0,
         usb_ok = FALSE, msc = [hc |-> 0, addr |-> 0], stage = "idle", req = NoRequest, result = "none"
  PROVE  UsbInv
<1>1. dev = [s \in Sockets |-> Unplugged] /\ ep = [in |-> 0, out |-> 0]
  BY DEF PowerUp, Sockets
<1>2. dev \in [Sockets -> Devices] /\ \A s \in Sockets : dev[s] = Unplugged
  BY <1>1, UnpluggedIs DEF DeviceOk
<1>3. hc \in 0..Len(bus)
  <2>1. bus \in Seq(Seq(Ports))
    BY UsbAssumption DEF Ports, Classes
  <2>2. Len(bus) \in Nat
    BY <2>1
  <2>. QED  BY <2>2
<1>5. req.op = "none"
  BY DEF NoRequest
<1>10. [in |-> 0, out |-> 0] \in [in : Nat, out : Nat] /\ [in |-> 0, out |-> 0] \in [in : {0, 1}, out : {0, 1}]
       /\ [hc |-> 0, addr |-> 0] \in [hc : Nat, addr : Nat]
  OBVIOUS
<1>11. /\ addr \in Nat /\ port \in Nat \ {0} /\ nextAddr \in Nat \ {0} /\ tag \in Nat
       /\ ep \in [in : Nat, out : Nat] /\ msc \in [hc : Nat, addr : Nat] /\ tog \in [in : {0, 1}, out : {0, 1}]
  BY <1>1, <1>10
<1>4. Types
  BY <1>2, <1>3, <1>5, <1>11 DEF Types
<1>6. Driver
  BY <1>5 DEF Driver
<1>7. Known
  BY <1>2, UnpluggedIs DEF Known
<1>8. Written /\ GotIt /\ CompletedIsOnMedium
  BY DEF Written, GotIt, CompletedIsOnMedium
<1>9. Enumerated
  BY <1>2, UnpluggedIs DEF Enumerated
<1>. QED  BY <1>4, <1>6, <1>7, <1>8, <1>9 DEF UsbInv

\* The first power-on.
LEMMA UsbInitHolds ==
  ASSUME UsbInit
  PROVE  UsbInv /\ \A s \in Sockets : dev[s] = Unplugged
<1>1. \A s \in Sockets : DOMAIN Image(s) = Lba
  BY UsbAssumption DEF UsbInit, Sockets
<1>2. DOMAIN media = Sockets /\ \A s \in Sockets : DOMAIN media[s] = Lba
  BY <1>1 DEF UsbInit
<1>3. \A s \in Sockets : dev[s] = Unplugged
  BY DEF UsbInit, PowerUp, Sockets
<1>. QED  BY <1>2, <1>3, PowerIs DEF UsbInit

\* A later one.
LEMMA UsbResetKeeps ==
  ASSUME UsbInv, UsbReset
  PROVE  UsbInv' /\ Sockets' = Sockets /\ \A s \in Sockets : dev'[s] = Unplugged
<1>1. bus' \in Buses /\ Sockets' = Sockets /\ media' = media /\ bus' = bus
  BY DEF UsbInv, Types, UsbReset, Sockets
<1>2. DOMAIN media' = Sockets' /\ \A s \in Sockets' : DOMAIN media'[s] = Lba
  BY <1>1 DEF UsbInv, Types
<1>3. dev' = [s \in Sockets' |-> Unplugged] /\ ep' = [in |-> 0, out |-> 0]
  BY <1>1 DEF UsbReset, PowerUp, Sockets
<1>4. dev' \in [Sockets' -> Devices] /\ \A s \in Sockets' : dev'[s] = Unplugged
  BY <1>3, UnpluggedIs DEF DeviceOk
<1>5. /\ scan' = "off" /\ port' = 1 /\ nextAddr' = 1 /\ hc' = 0 /\ addr' = 0
      /\ tog' = [in |-> 0, out |-> 0] /\ tag' = 0 /\ usb_ok' = FALSE /\ msc' = [hc |-> 0, addr |-> 0]
      /\ stage' = "idle" /\ req' = NoRequest /\ result' = "none"
  BY DEF UsbReset
<1>6. hc' \in 0..Len(bus')
  BY <1>1, <1>5, SocketsAre DEF UsbInv
<1>8. req'.op = "none"
  BY <1>5 DEF NoRequest
<1>13. [in |-> 0, out |-> 0] \in [in : Nat, out : Nat] /\ [in |-> 0, out |-> 0] \in [in : {0, 1}, out : {0, 1}]
       /\ [hc |-> 0, addr |-> 0] \in [hc : Nat, addr : Nat]
  OBVIOUS
<1>14. /\ addr' \in Nat /\ port' \in Nat \ {0} /\ nextAddr' \in Nat \ {0} /\ tag' \in Nat
       /\ ep' \in [in : Nat, out : Nat] /\ msc' \in [hc : Nat, addr : Nat] /\ tog' \in [in : {0, 1}, out : {0, 1}]
  BY <1>3, <1>5, <1>13
<1>7. Types'
  BY <1>1, <1>2, <1>4, <1>5, <1>6, <1>8, <1>14 DEF Types
<1>9. Driver'
  BY <1>5, <1>8 DEF Driver
<1>10. Known'
  BY <1>4, <1>5, UnpluggedIs DEF Known
<1>11. Written' /\ GotIt' /\ CompletedIsOnMedium'
  BY <1>5 DEF Written, GotIt, CompletedIsOnMedium
<1>12. Enumerated'
  BY <1>4, <1>5, UnpluggedIs DEF Enumerated
<1>. QED  BY <1>1, <1>4, <1>7, <1>9, <1>10, <1>11, <1>12 DEF UsbInv

\* The variables the invariant of the driver is about.
LEMMA UsbSame ==
  ASSUME UsbInv, UNCHANGED usb_vars
  PROVE  UsbInv'
BY DEF UsbInv, Types, Driver, Known, Written, GotIt, Enumerated, CompletedIsOnMedium, usb_vars, bot_vars, scan_vars,
       Sockets, Plug, Answering, Command

\* usb_init begins.
LEMMA UsbStarts ==
  ASSUME UsbInv, usb_init, scan = "off", stage = "idle", result = "none", ~usb_ok
  PROVE  UsbInv'
<1>1. /\ Types /\ Known /\ Enumerated /\ scan' = "hc" /\ usb_ok' = FALSE /\ hc' = 0
      /\ UNCHANGED <<bus, dev, media, tog, bot_vars, port, nextAddr, addr, ep, msc, kbd_ok, armed>>
  BY DEF UsbInv, usb_init
<1>2. Sockets' = Sockets /\ \A s : Plug(s)' = Plug(s)
  BY <1>1 DEF Sockets, Plug
<1>3. hc' \in 0..Len(bus)
  BY <1>1, SocketsAre
<1>4. UNCHANGED <<stage, result, req, tag, buf>>
  BY <1>1 DEF bot_vars
<1>5. Types'
  BY <1>1, <1>2, <1>3, <1>4 DEF Types
<1>. QED
  BY <1>1, <1>2, <1>4, <1>5 DEF UsbInv, Driver, Known, Written, GotIt, Enumerated, CompletedIsOnMedium

\* Disk I/O starts a command.
LEMMA DiskCommandKeeps ==
  ASSUME UsbInv, scan = "off", usb_ok, stage = "idle", NEW op \in {"read", "write"}, NEW lb \in Lba, NEW val,
         op = "write" => val \in Values, do_scsi(op, lb, val),
         UNCHANGED <<bus, dev, media, tog, scan_vars>>
  PROVE  UsbInv'
<1>1. Types /\ Known /\ Enumerated
  BY DEF UsbInv
<1>2. scan' = scan /\ port' = port /\ nextAddr' = nextAddr /\ hc' = hc /\ addr' = addr /\ ep' = ep
      /\ usb_ok' = usb_ok /\ msc' = msc
  BY DEF scan_vars
<1>3. addr > 0
  BY <1>1 DEF Enumerated
<1>4. Sockets' = Sockets /\ \A s : Plug(s)' = Plug(s)
  BY DEF Sockets, Plug
<1>5. Enumerated'
  BY <1>1, <1>2, <1>4 DEF Enumerated
<1>6. \A s \in Sockets : DeviceOk(dev'[s]) /\ Past(dev'[s], tag)
  BY <1>1 DEF Known
<1>7. /\ dev' \in [Sockets -> Devices] /\ hc' \in 0..Len(bus) /\ port' \in Nat \ {0} /\ nextAddr' \in Nat \ {0}
      /\ addr' \in Nat /\ ep' \in [in : Nat, out : Nat] /\ msc' \in [hc : Nat, addr : Nat] /\ usb_ok' \in BOOLEAN
      /\ tog' \in [in : {0, 1}, out : {0, 1}]
  BY <1>1, <1>2 DEF Types
<1>8. op \in {"inquiry", "read", "write"} /\ lb \in Lba \cup {None} /\ scan' \in {"off", "inquiry"} /\ scan' = "off"
      /\ usb_ok' /\ addr' > 0
  BY <1>2, <1>3
<1>. QED  BY <1>1, <1>5, <1>6, <1>7, <1>8, CommandStarts

\* The caller has used the result of a command.
LEMMA ReturnedKeeps ==
  ASSUME UsbInv, scan = "off", stage = "idle", Returned, UNCHANGED <<bus, dev, media, tog, scan_vars>>
  PROVE  UsbInv' /\ req'.op = "none"
<1>1. /\ req'.op = "none" /\ result' = "none" /\ stage' = "idle" /\ tag' = tag /\ scan' = "off"
  BY DEF Returned, NoRequest, scan_vars
<1>2. Sockets' = Sockets /\ \A s : Plug(s)' = Plug(s)
  BY DEF Sockets, Plug
<1>. QED
  BY <1>1, <1>2 DEF UsbInv, Types, Driver, Known, Written, GotIt, Enumerated, CompletedIsOnMedium, scan_vars

\* As long as nothing wants to write, no device does and no medium changes.
LEMMA TransportReadsOnly ==
  ASSUME UsbInv, NoWrite, Transport
  PROVE  NoWrite' /\ \A s \in Sockets : media'[s] = media[s]
<1>1. /\ Types /\ Driver /\ Known /\ UNCHANGED <<bus, req, tag>> /\ stage # "idle"
  BY DEF UsbInv, Transport, SendCommand, SendData, ReceiveData, ReceiveStatus
<1>2. Sockets' = Sockets
  BY <1>1 DEF Sockets
<1>3. NoCommand.op # "write"
  BY DEF NoCommand
<1>4. Command \in Orders /\ Command \in Packets /\ Command.op # "write"
  BY <1>1 DEF Driver, Command, Packets, NoWrite
<1>5. CASE ehci_exec_fails
  BY <1>1, <1>2, <1>5 DEF ehci_exec_fails, NoWrite
<1>6. CASE SendCommand /\ ~ehci_exec_fails
  <2>1. BulkOut(Command, "data") /\ IsCommand(Command)
    BY <1>1, <1>4, <1>6, BulkOutIs DEF SendCommand, IsCommand, Orders
  <2>2. ASSUME NEW t \in Sockets PROVE dev[t].phase # "out"
    <3>1. DeviceOk(dev[t]) /\ dev[t].cmd \in Knows(dev[t])
      BY <1>1 DEF Known, Knows
    <3>. QED  BY <3>1 DEF DeviceOk, NoWrite
  <2>. QED  BY <1>1, <1>2, <1>3, <1>4, <2>1, <2>2 DEF BulkOut, NoWrite
<1>7. CASE SendData
  BY <1>7 DEF SendData, NoWrite
<1>8. ASSUME NEW s \in Sockets, NEW g \in Gets(dev[s], media[s], tog.in),
             dev' = [dev EXCEPT ![s] = g[2]], tog' \in {tog, [tog EXCEPT !.in = 1 - @]}
      PROVE  NoWrite'
  <2>1. \A t \in Sockets : Knows(dev'[t]) \subseteq Knows(dev[t]) \cup {NoCommand}
    BY <1>1, <1>8, BulkInIs
  <2>. QED  BY <1>1, <1>2, <1>3, <2>1 DEF NoWrite
<1>9. CASE ReceiveData /\ ~ehci_exec_fails
  BY <1>8, <1>9 DEF ReceiveData, bulk_in, Target, Answering
<1>10. CASE ReceiveStatus /\ ~ehci_exec_fails
  BY <1>8, <1>10 DEF ReceiveStatus, bulk_in, Target, Answering
<1>. QED  BY <1>5, <1>6, <1>7, <1>9, <1>10 DEF Transport

\* A transfer changes the address of no device.
LEMMA TransportAnswers ==
  ASSUME UsbInv, Transport
  PROVE  Answering' = Answering /\ Sockets' = Sockets
<1>1. /\ Types /\ Driver /\ Known /\ Enumerated /\ UNCHANGED <<bus, req, tag, scan_vars>> /\ stage # "idle"
  BY DEF UsbInv, Transport, SendCommand, SendData, ReceiveData, ReceiveStatus
<1>2. ASSUME dev' \in [Sockets -> Devices], \A s \in Sockets : dev'[s].addr = dev[s].addr
      PROVE  Answering' = Answering /\ Sockets' = Sockets
  BY <1>1, <1>2, AddressesKept
<1>3. CASE ehci_exec_fails
  BY <1>1, <1>2, <1>3 DEF ehci_exec_fails, Types
<1>4. ASSUME NEW p \in Packets, NEW next, bulk_out(p, next)
      PROVE  Answering' = Answering /\ Sockets' = Sockets
  BY <1>1, <1>2, <1>4, BulkOutIs DEF BulkOut
<1>5. Command \in Packets /\ (req.op = "write" => [val |-> req.val] \in Packets)
  BY <1>1 DEF Driver, Packets
<1>6. ASSUME NEW s \in Sockets, NEW g \in Gets(dev[s], media[s], tog.in),
             dev' = [dev EXCEPT ![s] = g[2]], tog' \in {tog, [tog EXCEPT !.in = 1 - @]}
      PROVE  Answering' = Answering /\ Sockets' = Sockets
  BY <1>1, <1>2, <1>6, BulkInIs
<1>7. CASE SendCommand \/ SendData
  BY <1>4, <1>5, <1>7 DEF SendCommand, SendData
<1>8. CASE (ReceiveData \/ ReceiveStatus) /\ ~ehci_exec_fails
  BY <1>6, <1>8 DEF ReceiveData, ReceiveStatus, bulk_in, Target, Answering
<1>. QED  BY <1>3, <1>7, <1>8 DEF Transport

-----------------------------------------------------------------------------
(* The installers and the disk I/O *)

\* A scan writes to no medium and lets no device do so.
LEMMA ScanReadsOnly ==
  ASSUME UsbInv, NoWrite, Scan
  PROVE  NoWrite' /\ media' = media /\ Sockets' = Sockets
<1>1. UNCHANGED <<bus, media>> /\ dev \in [Sockets -> Devices]
  BY DEF UsbInv, Types, Scan, ehci_hc_init, PassPort, ProbePort, Inquired, PortsDone, ScanDone
<1>2. Sockets' = Sockets
  BY <1>1 DEF Sockets
<1>3. req' = req \/ req'.op = "inquiry" \/ req'.op = "none"
  BY DEF Scan, ehci_hc_init, PassPort, ProbePort, Inquired, PortsDone, ScanDone, bot_vars, Returned, NoRequest,
         enumerate_fails, enumerate_unconfigured, enumerate_device, do_scsi
<1>4. req'.op # "write"
  BY <1>3 DEF NoWrite
<1>5. ASSUME NEW a \in Nat \cup {None}
      PROVE  LET d == [Unplugged EXCEPT !.addr = a] IN Knows(d) = {NoCommand}
  <2>. DEFINE d == [Unplugged EXCEPT !.addr = a]
  <2>1. d.queue = <<>> /\ d.cmd = NoCommand
    BY DEF Unplugged
  <2>. HIDE DEF d
  <2>2. Knows(d) = {NoCommand}
    BY <2>1, KnowsIs
  <2>. QED  BY <2>2 DEF d
<1>6. Knows(Unplugged) = {NoCommand}
  <2>1. Unplugged.queue = <<>> /\ Unplugged.cmd = NoCommand
    BY DEF Unplugged
  <2>. QED  BY <2>1, KnowsIs
<1>7. NoCommand.op # "write"
  BY DEF NoCommand
<1>8. ASSUME \A s \in Sockets : dev'[s] = dev[s] \/ Knows(dev'[s]) = {NoCommand}
      PROVE  NoWrite'
  BY <1>2, <1>4, <1>7, <1>8 DEF NoWrite
<1>9. CASE ehci_hc_init
  BY <1>1, <1>2, <1>6, <1>8, <1>9 DEF ehci_hc_init
<1>10. CASE ProbePort
  <2>1. \E a \in {0, nextAddr} : dev' = Addressed(a)
    BY <1>10 DEF ProbePort, enumerate_fails, enumerate_unconfigured, enumerate_device
  <2>2. PICK a \in {0, nextAddr} : dev' = [dev EXCEPT ![Here] = [Unplugged EXCEPT !.addr = a]]
    BY <2>1 DEF Addressed
  <2>3. a \in Nat \cup {None}
    BY DEF UsbInv, Types
  <2>4. Knows([Unplugged EXCEPT !.addr = a]) = {NoCommand}
    BY <1>5, <2>3
  <2>5. \A s \in Sockets : dev'[s] = dev[s] \/ dev'[s] = [Unplugged EXCEPT !.addr = a]
    BY <1>1, <2>2
  <2>. QED  BY <1>1, <1>2, <1>8, <2>4, <2>5
<1>11. CASE PassPort \/ Inquired \/ PortsDone \/ ScanDone
  BY <1>1, <1>2, <1>8, <1>11 DEF PassPort, Inquired, PortsDone, ScanDone
<1>. QED  BY <1>1, <1>2, <1>9, <1>10, <1>11 DEF Scan

\* What the whole machine is at power-on.
LEMMA InitHolds == Init => Inv
<1>. SUFFICES ASSUME Init PROVE Inv
  OBVIOUS
<1>1. UsbInv /\ \A s \in Sockets : dev[s] = Unplugged
  BY UsbInitHolds DEF Init
<1>2. scan = "off" /\ stage = "idle" /\ result = "none" /\ usb_ok = FALSE /\ req = NoRequest /\ pc = "boot"
  BY DEF Init, UsbInit
<1>3. Control
  BY <1>2, InstallAssumption DEF Init, Control, Early, NoRequest
<1>4. Unwritten
  <2>1. Unplugged.queue = <<>> /\ Unplugged.cmd = NoCommand
    BY DEF Unplugged
  <2>2. Knows(Unplugged) = {NoCommand}
    BY <2>1, KnowsIs
  <2>. QED  BY <1>1, <1>2, <2>2 DEF Unwritten, NoWrite, NoRequest, NoCommand
<1>5. Copied /\ Chunks
  BY <1>2 DEF Copied, Chunks
<1>. QED  BY <1>1, <1>3, <1>4, <1>5 DEF Inv

\* Power goes and comes back.
LEMMA PowerCycleKeeps ==
  ASSUME Inv, PowerCycle
  PROVE  Inv'
<1>1. UsbInv' /\ Sockets' = Sockets /\ \A s \in Sockets : dev'[s] = Unplugged
  BY UsbResetKeeps DEF Inv, PowerCycle
<1>2. scan' = "off" /\ stage' = "idle" /\ result' = "none" /\ usb_ok' = FALSE /\ req' = NoRequest /\ pc' = "boot"
      /\ disk' = disk /\ fitted' = fitted /\ g_drives' = {} /\ lba' = 0
  BY DEF PowerCycle, UsbReset
<1>3. Control'
  BY <1>2 DEF Inv, Control, Early, NoRequest
<1>4. Unwritten'
  <2>1. Unplugged.queue = <<>> /\ Unplugged.cmd = NoCommand
    BY DEF Unplugged
  <2>2. Knows(Unplugged) = {NoCommand}
    BY <2>1, KnowsIs
  <2>. QED  BY <1>1, <1>2, <2>2 DEF Unwritten, NoWrite, NoRequest, NoCommand
<1>5. Copied' /\ Chunks'
  BY <1>2 DEF Copied, Chunks
<1>. QED  BY <1>1, <1>3, <1>4, <1>5 DEF Inv

\* A step of the USB driver under whatever waits for it.
LEMMA UsbStepKeeps ==
  ASSUME Inv, UsbStep
  PROVE  Inv'
<1>1. UsbInv /\ Control /\ Unwritten /\ Copied /\ Chunks
      /\ UNCHANGED <<fitted, disk, unseen, g_drive, g_drives, pc, sel, lba, g_copy_buf, outcome, io>>
  BY DEF Inv, UsbStep, ata_vars
<1>2. Scan => scan # "off" /\ UNCHANGED <<bus>>
  BY DEF Scan, ehci_hc_init, PassPort, ProbePort, Inquired, PortsDone, ScanDone
<1>3. Transport => stage # "idle" /\ UNCHANGED <<bus, req, scan_vars>>
  BY DEF Transport, SendCommand, SendData, ReceiveData, ReceiveStatus
<1>4. UsbInv'
  BY <1>1, ScanKeeps, TransportKeeps DEF UsbStep
<1>5. pc \in {"installing", "mounting", "io", "copying"}
  BY <1>1, <1>2, <1>3 DEF Control, UsbStep
<1>6. Control'
  <2>1. CASE Scan
    <3>2. pc \in {"installing", "mounting"} /\ req.op \notin {"read", "write"} /\ pc' = pc
      BY <1>1, <1>2, <1>5, <2>1 DEF Control
    <3>3. req' = req \/ req'.op \in {"inquiry", "none"}
      BY <2>1 DEF Scan, ehci_hc_init, PassPort, ProbePort, Inquired, PortsDone, ScanDone, bot_vars, Returned, NoRequest,
                  enumerate_fails, enumerate_unconfigured, enumerate_device, do_scsi
    <3>4. req'.op \notin {"read", "write"}
      BY <3>2, <3>3
    <3>. QED  BY <1>1, <3>2, <3>4 DEF Control, Early
  <2>2. CASE Transport
    BY <1>1, <1>3, <1>5, <2>2 DEF Control, scan_vars
  <2>. QED  BY <2>1, <2>2 DEF UsbStep
<1>7. Unwritten'
  BY <1>1, ScanReadsOnly, TransportReadsOnly DEF Unwritten, UsbStep
<1>8. Copied'
  <2>1. CASE Scan
    BY <1>1, <1>2, <1>5, <2>1 DEF Control, Copied
  <2>2. CASE Transport
    <3>. SUFFICES ASSUME pc = "copying" PROVE Copied'
      BY <1>1, <1>5 DEF Copied
    <3>1. NoWrite
      BY <1>1 DEF Unwritten, Early
    <3>2. \A s \in Sockets : media'[s] = media[s]
      BY <1>1, <2>2, <3>1, TransportReadsOnly
    <3>3. Answering' = Answering /\ Answering \subseteq Sockets
      BY <1>1, <2>2, TransportAnswers DEF Answering
    <3>. QED  BY <1>1, <3>2, <3>3 DEF Copied
  <2>. QED  BY <2>1, <2>2 DEF UsbStep
<1>9. Chunks'
  BY <1>1 DEF Chunks, Cnt
<1>. QED  BY <1>4, <1>6, <1>7, <1>8, <1>9 DEF Inv

\* A step that leaves the USB driver and its devices alone.
LEMMA NoUsbStep ==
  ASSUME Inv, UNCHANGED usb_vars, Control', pc' \in Early => pc \in Early, Copied', Chunks'
  PROVE  Inv'
<1>1. UsbInv'
  BY UsbSame DEF Inv
<1>2. Unwritten'
  BY DEF Inv, Unwritten, NoWrite, Sockets, usb_vars, bot_vars
<1>. QED  BY <1>1, <1>2 DEF Inv

\* The names of what usb_vars holds.
LEMMA UsbVars ==
  ASSUME UNCHANGED usb_vars
  PROVE  /\ UNCHANGED <<bus, dev, media, tog, tag, stage, req, result, buf, scan, hc, addr, usb_ok>>
         /\ Sockets' = Sockets /\ Answering' = Answering
BY DEF usb_vars, bot_vars, scan_vars, Sockets, Answering

\* When the scan is over its command is too.
LEMMA ScanOver ==
  ASSUME Inv, scan = "off", pc \notin {"io", "copying"}
  PROVE  stage = "idle"
<1>1. stage # "idle" => req.op \in {"inquiry", "read", "write"} /\ (req.op = "inquiry" => scan = "inquiry")
  BY DEF Inv, UsbInv, Driver, Command, Orders
<1>2. req.op \notin {"read", "write"}
  BY DEF Inv, Control
<1>. QED  BY <1>1, <1>2

\* The steps of both wizards that move no sector.
Quiet == \/ ata_init \/ Skip \/ Mounted \/ WizardStart \/ WizardDone
         \/ install_wizard \/ page_drives \/ Cancel \/ page_confirm \/ ReadChunk \/ page_complete

\* They keep the invariant.
LEMMA QuietKeeps ==
  ASSUME Inv, Quiet
  PROVE  Inv'
<1>1. UNCHANGED usb_vars /\ disk' = disk /\ UsbInv /\ Control /\ Copied /\ Chunks
  BY DEF Inv, Quiet, ata_init, Skip, Mounted, WizardStart, WizardDone, install_wizard, page_drives, Cancel,
         page_confirm, ReadChunk, page_complete, ata_vars
<1>2. /\ UNCHANGED <<bus, dev, media, tog, tag, stage, req, result, buf, scan, hc, addr, usb_ok>>
      /\ Answering' = Answering
  BY <1>1, UsbVars
<1>3. INST_BOOT_SECS \in Nat /\ INST_PDFS_ZERO \in Nat /\ WizardSecs \in 1..INST_BOOT_SECS
      /\ INST_CHUNK \in 1..INST_BOOT_SECS /\ Fitted \subseteq SUBSET {0, 1} /\ Lba \subseteq Nat
  BY InstallAssumption, UsbAssumption
<1>4. WizardSecs \in Nat \ {0} /\ WizardSecs \in 0..WizardSecs /\ 0 \in 0..WizardSecs
  BY <1>3
<1>5. \A a \in Int : \A n \in Int : n <= 0 => Span(a, n) = {}
  <2>1. ASSUME NEW a \in Int, NEW n \in Int, n <= 0, NEW l \in Span(a, n) PROVE FALSE
    BY <1>3, <2>1 DEF Span
  <2>. QED  BY <2>1
<1>6. Control'
  <2>1. CASE ata_init
    <3>1. /\ UNCHANGED <<fitted, lba, io, sel>> /\ g_drives' \subseteq fitted /\ pc = "boot"
          /\ pc' \in {"wizard", "probing"}
      BY <2>1 DEF ata_init
    <3>. QED  BY <1>1, <1>2, <3>1 DEF Control, Early
  <2>2. CASE Skip \/ Mounted
    <3>1. /\ UNCHANGED <<fitted, g_drives, io, sel, lba>> /\ pc' = "run" /\ scan = "off"
          /\ pc \in {"wizard", "mounting"}
      BY <1>1, <2>2 DEF Skip, Mounted, Control, ata_vars
    <3>2. stage = "idle"
      BY <1>1, <3>1, ScanOver
    <3>. QED  BY <1>1, <1>2, <3>1, <3>2 DEF Control, Early
  <2>3. CASE WizardStart
    <3>1. /\ UNCHANGED <<fitted, g_drives, io, sel>> /\ lba' = 0 /\ pc = "installing" /\ scan = "off"
          /\ (pc' = "copy" /\ usb_ok) \/ pc' = "halt"
      BY <2>3 DEF WizardStart, ata_vars
    <3>2. stage = "idle"
      BY <1>1, <3>1, ScanOver
    <3>. QED  BY <1>1, <1>2, <1>4, <3>1, <3>2 DEF Control, Early
  <2>4. CASE WizardDone
    <3>1. UNCHANGED <<fitted, g_drives, io, sel, lba>> /\ pc' = "halt" /\ pc = "copy"
      BY <2>4 DEF WizardDone, ata_vars
    <3>. QED  BY <1>1, <1>2, <3>1 DEF Control, Early
  <2>5. CASE install_wizard \/ page_drives
    <3>1. /\ UNCHANGED <<fitted, lba, io>> /\ (g_drives' = fitted \/ g_drives' = g_drives)
          /\ pc \in {"run", "drives"}
          /\ pc' = "drives" \/ (pc' = "confirm" /\ sel' \in g_drives)
      BY <2>5 DEF install_wizard, page_drives, ata_probe_all, ata_vars
    <3>. QED  BY <1>1, <1>2, <3>1 DEF Control, Early
  <2>6. CASE Cancel \/ page_confirm \/ ReadChunk \/ page_complete
    <3>1. /\ UNCHANGED <<fitted, g_drives, io>> /\ lba' \in {0, lba}
          /\ pc \in {"drives", "confirm", "failed", "chunk"}
          /\ \/ pc' \in {"run", "failed", "complete"}
             \/ pc' \in {"chunk", "write"} /\ pc \in {"confirm", "chunk"} /\ sel' = sel
      BY <2>6 DEF Cancel, page_confirm, ReadChunk, page_complete, ata_vars
    <3>2. lba' \in Nat
      BY <1>1, <3>1 DEF Control
    <3>. QED  BY <1>1, <1>2, <3>1, <3>2 DEF Control, Early
  <2>. QED  BY <2>1, <2>2, <2>3, <2>4, <2>5, <2>6 DEF Quiet
<1>7. pc' \in Early => pc \in Early
  BY DEF Quiet, ata_init, Skip, Mounted, WizardStart, WizardDone, install_wizard, page_drives, Cancel,
         page_confirm, ReadChunk, page_complete, Early
<1>8. Copied'
  <2>1. CASE WizardStart
    <3>1. (pc' = "copy" /\ lba' = 0) \/ outcome' # "complete"
      BY <2>1 DEF WizardStart
    <3>2. Span(0, 0) = {}
      BY <1>5
    <3>. QED  BY <3>1, <3>2 DEF Copied
  <2>2. CASE WizardDone
    BY <1>1, <1>2, <2>2 DEF WizardDone, Copied, ata_vars
  <2>3. CASE ~WizardStart /\ ~WizardDone
    BY <2>3 DEF Copied, Quiet, ata_init, Skip, Mounted, install_wizard, page_drives, Cancel, page_confirm, ReadChunk,
                page_complete
  <2>. QED  BY <2>1, <2>2, <2>3
<1>9. Chunks'
  <2>1. CASE page_confirm
    <3>1. lba' = 0 /\ pc' = "chunk" /\ outcome' = "complete"
      BY <2>1 DEF page_confirm
    <3>2. Span(0, Lesser(0, INST_BOOT_SECS)) = {} /\ Span(INST_BOOT_SECS, 0 - INST_BOOT_SECS) = {}
      BY <1>3, <1>5 DEF Lesser
    <3>3. 0 <= INST_BOOT_SECS + INST_PDFS_ZERO
      BY <1>3
    <3>. QED  BY <3>1, <3>2, <3>3 DEF Chunks
  <2>2. CASE ReadChunk
    <3>1. UNCHANGED <<sel, lba, outcome, unseen>> /\ pc = "chunk" /\ lba < INST_BOOT_SECS /\ Cnt' = Cnt
      BY <2>2 DEF ReadChunk, Cnt, ata_vars
    <3>2. pc' = "failed" \/ (pc' = "write" /\ g_copy_buf' = [l \in Span(lba, Cnt) |-> disk[0][l]])
      BY <2>2 DEF ReadChunk
    <3>3. CASE pc' = "failed"
      BY <3>3 DEF Chunks
    <3>4. CASE pc' = "write" /\ g_copy_buf' = [l \in Span(lba, Cnt) |-> disk[0][l]]
      <4>1. \A l \in Span(lba, Cnt) : g_copy_buf'[l] = disk[0][l]
        BY <3>4
      <4>. QED  BY <1>1, <3>1, <3>4, <4>1 DEF Chunks
    <3>. QED  BY <3>2, <3>3, <3>4
  <2>3. CASE page_complete
    <3>1. UNCHANGED <<sel, lba, outcome, unseen>> /\ pc = "chunk" /\ pc' = "complete" /\ lba = INST_BOOT_SECS + INST_PDFS_ZERO
      BY <2>3 DEF page_complete, ata_vars
    <3>2. lba >= INST_BOOT_SECS
      BY <1>3, <3>1
    <3>. QED  BY <1>1, <3>1, <3>2 DEF Chunks, Control
  <2>4. CASE ~page_confirm /\ ~ReadChunk /\ ~page_complete
    <3>1. pc' \notin {"chunk", "write", "complete"}
      BY <2>4 DEF Quiet, ata_init, Skip, Mounted, WizardStart, WizardDone, install_wizard, page_drives, Cancel
    <3>. QED  BY <3>1 DEF Chunks
  <2>. QED  BY <2>1, <2>2, <2>3, <2>4
<1>. QED  BY <1>1, <1>6, <1>7, <1>8, <1>9, NoUsbStep

\* usb_init begins, in either boot path.
LEMMA UsbBeginsKeeps ==
  ASSUME Inv, ChooseDrive \/ UsbOnly
  PROVE  Inv'
<1>1. /\ UsbInv /\ Control /\ Unwritten /\ UNCHANGED <<fitted, disk, unseen, g_drive, g_drives, lba>> /\ usb_init
      /\ \/ pc = "wizard" /\ pc' = "installing" /\ sel' \in g_drives
         \/ pc = "probing" /\ pc' = "mounting"
  BY DEF Inv, ChooseDrive, UsbOnly, ata_vars
<1>2. scan = "off" /\ stage = "idle" /\ result = "none" /\ ~usb_ok /\ UNCHANGED <<stage, result, req, bus, dev>>
  BY <1>1 DEF Control, usb_init, bot_vars
<1>3. UsbInv'
  BY <1>1, <1>2, UsbStarts
<1>4. Control'
  BY <1>1, <1>2 DEF Control, Early
<1>5. Unwritten'
  BY <1>1, <1>2 DEF Unwritten, NoWrite, Early, Sockets
<1>6. Copied' /\ Chunks'
  BY <1>1 DEF Copied, Chunks
<1>. QED  BY <1>3, <1>4, <1>5, <1>6 DEF Inv

\* A step of a wizard that writes no USB disk: what one disk call is made of.
LEMMA WizardReadKeeps ==
  ASSUME Inv, WizardRead
  PROVE  Inv'
<1>1. /\ UsbInv /\ Control /\ Unwritten /\ Copied
      /\ UNCHANGED <<bus, dev, media, tog, scan_vars, ata_vars, sel, lba, g_copy_buf, outcome, io>>
      /\ pc = "copy" /\ pc' = "copying" /\ lba < WizardSecs /\ do_scsi("read", lba, Junk)
  BY DEF Inv, WizardRead, usb_read_sector
<1>2. scan = "off" /\ stage = "idle" /\ usb_ok /\ lba \in Nat /\ sel \in {0, 1}
  BY <1>1 DEF Control
<1>3. lba \in Lba
  <2>1. 0..(INST_BOOT_SECS + INST_PDFS_ZERO - 1) \subseteq Lba
    BY InstallAssumption
  <2>2. lba \in 0..(INST_BOOT_SECS + INST_PDFS_ZERO - 1)
    <3>1. INST_BOOT_SECS \in Nat /\ INST_PDFS_ZERO \in Nat /\ WizardSecs \in Nat /\ WizardSecs <= INST_BOOT_SECS
      BY InstallAssumption
    <3>. QED  BY <1>1, <1>2, <3>1
  <2>. QED  BY <2>1, <2>2
<1>4. UsbInv'
  BY <1>1, <1>2, <1>3, DiskCommandKeeps
<1>5. req'.op = "read" /\ req'.lba = lba
  BY <1>1 DEF do_scsi
<1>6. /\ scan' = scan /\ usb_ok' = usb_ok /\ hc' = hc /\ addr' = addr /\ disk' = disk /\ fitted' = fitted
      /\ g_drives' = g_drives /\ unseen' = unseen
  BY <1>1 DEF scan_vars, ata_vars
<1>7. Control'
  BY <1>1, <1>2, <1>5, <1>6 DEF Control, Early
<1>8. Sockets' = Sockets
  BY <1>1 DEF Sockets
<1>9. Answering' = Answering
  BY <1>1, <1>6, <1>8 DEF Answering
<1>10. Unwritten'
  BY <1>1, <1>5, <1>8 DEF Unwritten, NoWrite, Early
<1>11. Copied' /\ Chunks'
  BY <1>1, <1>6, <1>9 DEF Copied, Chunks
<1>. QED  BY <1>4, <1>7, <1>10, <1>11 DEF Inv

\* What a call of ata_write_sectors_raw leaves on the drives.
LEMMA WroteIs ==
  ASSUME DOMAIN disk = {0, 1}, NEW d, NEW a, NEW src, NEW n, disk' = Wrote(d, a, src, n)
  PROVE  /\ DOMAIN disk' = {0, 1}
         /\ \A e \in {0, 1} : e # d => disk'[e] = disk[e]
         /\ d \in {0, 1} => \A l \in Lba : disk'[d][l] = IF l \in Span(a, n) THEN src[l] ELSE disk[d][l]
BY DEF Wrote

\* A sector of the boot wizard goes to the drive, or is counted as an error.
LEMMA WizardWriteKeeps ==
  ASSUME Inv, WizardWrite
  PROVE  Inv'
<1>1. /\ UsbInv /\ Control /\ Unwritten /\ Copied
      /\ UNCHANGED <<bus, dev, media, tog, scan_vars, fitted, g_drive, g_drives, sel, g_copy_buf, io>>
      /\ pc = "copying" /\ pc' = "copy" /\ lba' = lba + 1 /\ stage = "idle" /\ Returned /\ WizardStep(result)
  BY DEF Inv, WizardWrite
<1>2. scan = "off" /\ usb_ok /\ lba \in Nat /\ sel \in {0, 1} /\ lba < WizardSecs /\ req.op = "read" /\ req.lba = lba
      /\ DOMAIN disk = {0, 1} /\ WizardSecs \in Nat
  BY <1>1, InstallAssumption DEF Control
<1>3. UsbInv' /\ req'.op = "none"
  BY <1>1, <1>2, ReturnedKeeps
<1>4. scan' = scan /\ usb_ok' = usb_ok /\ hc' = hc /\ addr' = addr /\ stage' = stage /\ Sockets' = Sockets
  BY <1>1 DEF scan_vars, Returned, Sockets
<1>5. Answering' = Answering
  BY <1>1, <1>4 DEF Answering
<1>6. DOMAIN disk' = {0, 1}
  <2>1. CASE \E src, k : disk' = Wrote(sel, lba, src, k)
    BY <1>2, <2>1, WroteIs
  <2>2. CASE disk' = disk
    BY <1>2, <2>2
  <2>. QED  BY <1>1, <2>1, <2>2 DEF WizardStep, ata_write_sectors_raw, ata_write_sectors_raw_fails
<1>7. lba' \in Nat /\ lba' \in 0..WizardSecs
  BY <1>1, <1>2
<1>8. Control'
  BY <1>1, <1>2, <1>3, <1>4, <1>6, <1>7 DEF Control, Early
<1>9. Unwritten'
  BY <1>1, <1>3, <1>4 DEF Unwritten, NoWrite, Early
<1>10. Copied'
  <2>. SUFFICES ASSUME outcome' = "complete", NEW s \in Answering, NEW l \in Span(0, lba + 1) \ unseen'
                PROVE  disk'[sel][l] = media[s][l]
    BY <1>1, <1>5 DEF Copied
  <2>1. result = "ok" /\ ata_write_sectors_raw(sel, lba, [x \in Lba |-> buf], 1) /\ outcome = "complete"
    BY <1>1 DEF WizardStep, ata_write_sectors_raw_fails
  <2>2. l \in Lba /\ l \in Nat /\ l < lba + 1
    BY <1>2, UsbAssumption DEF Span
  <2>3. disk'[sel][l] = (IF l \in Span(lba, 1) THEN buf ELSE disk[sel][l]) /\ l \notin unseen
    <3>. DEFINE src == [x \in Lba |-> buf]
    <3>1. src[l] = buf
      BY <2>2
    <3>2. PICK k \in {1 - 1, 1} : disk' = Wrote(sel, lba, src, k) /\ unseen' = unseen \cup Span(lba + k, 1 - k)
      BY <2>1 DEF ata_write_sectors_raw
    <3>. HIDE DEF src
    <3>3. l \notin unseen /\ l \notin Span(lba + k, 1 - k)
      BY <3>2
    <3>4. l \in Span(lba, 1) <=> l \in Span(lba, k)
      BY <1>2, <2>2, <3>2, <3>3 DEF Span
    <3>. QED  BY <1>2, <2>2, <3>1, <3>2, <3>3, <3>4, WroteIs
  <2>4. CASE l = lba
    <3>1. buf = media[s][lba]
      BY <1>1, <1>2, <2>1 DEF UsbInv, CompletedIsOnMedium
    <3>2. l \in Span(lba, 1)
      BY <1>2, <2>2, <2>4 DEF Span
    <3>. QED  BY <2>3, <2>4, <3>1, <3>2
  <2>5. CASE l # lba
    <3>1. l \notin Span(lba, 1) /\ l \in Span(0, lba)
      BY <1>2, <2>2, <2>5 DEF Span
    <3>2. disk[sel][l] = media[s][l]
      BY <1>1, <2>1, <2>3, <3>1 DEF Copied
    <3>. QED  BY <2>3, <3>1, <3>2
  <2>. QED  BY <2>4, <2>5
<1>11. Chunks'
  BY <1>1 DEF Chunks
<1>. QED  BY <1>3, <1>8, <1>9, <1>10, <1>11 DEF Inv

\* What a wizard writes to a drive keeps the rest of the machine as it was.
LEMMA DriveWriteKeeps ==
  ASSUME Inv, UNCHANGED <<usb_vars, fitted, g_drive, g_drives, sel, io>>, pc \notin Early,
         NEW d, NEW a, NEW src, NEW n, disk' = Wrote(d, a, src, n), lba' \in Nat,
         pc' = pc \/ (pc \in {"chunk", "write"} /\ pc' \in {"chunk", "failed", "complete"}),
         pc \notin {"io", "copying"}, Chunks'
  PROVE  Inv'
<1>1. Control
  BY DEF Inv
<1>2. UNCHANGED <<stage, result, req, scan, usb_ok>>
  BY UsbVars
<1>3. DOMAIN disk' = {0, 1}
  BY <1>1, WroteIs DEF Control
<1>4. Control'
  BY <1>1, <1>2, <1>3 DEF Control, Early
<1>5. Copied'
  BY DEF Copied, Early
<1>6. pc' \notin Early
  BY DEF Early
<1>. QED  BY <1>4, <1>5, <1>6, NoUsbStep

\* A mounted filesystem writes to drive 0.
LEMMA AtaWriteKeeps ==
  ASSUME Inv, ata_write_sectors
  PROVE  Inv'
<1>1. /\ pc = "run" /\ UNCHANGED <<usb_vars, fitted, g_drive, g_drives, pc, sel, lba, g_copy_buf, outcome, io>>
  BY DEF ata_write_sectors
<1>2. PICK a, v, n : disk' = Wrote(0, a, [x \in Lba |-> v], n)
  BY DEF ata_write_sectors
<1>3. Chunks'
  BY <1>1 DEF Chunks
<1>4. lba' \in Nat /\ pc \notin Early
  BY <1>1 DEF Inv, Control, Early
<1>. DEFINE src == [x \in Lba |-> v]
<1>5. disk' = Wrote(0, a, src, n)
  BY <1>2
<1>. HIDE DEF src
<1>. QED  BY <1>1, <1>3, <1>4, <1>5, DriveWriteKeeps

\* The sectors of the boot area and of the PDFS header behind it.
LEMMA Sizes ==
  /\ INST_BOOT_SECS \in Nat /\ INST_PDFS_ZERO \in Nat /\ INST_CHUNK \in Nat \ {0} /\ Lba \subseteq Nat
BY InstallAssumption, UsbAssumption

\* The sectors of an area.
LEMMA SpanIs ==
  ASSUME NEW a \in Int, NEW n \in Int, NEW l
  PROVE  l \in Span(a, n) <=> l \in Lba /\ l \in Nat /\ a <= l /\ l < a + n
BY Sizes DEF Span

\* A chunk of the boot area reaches the drive, or the installation fails.
LEMMA WriteChunkKeeps ==
  ASSUME Inv, WriteChunk
  PROVE  Inv'
<1>1. /\ Control /\ Chunks /\ UNCHANGED <<usb_vars, fitted, g_drive, g_drives, sel, outcome, io>> /\ pc = "write"
  BY DEF Inv, WriteChunk
<1>2. /\ lba \in Nat /\ sel \in {0, 1} /\ DOMAIN disk = {0, 1} /\ lba < INST_BOOT_SECS
      /\ \A l \in Span(lba, Cnt) : g_copy_buf[l] = disk[0][l]
      /\ \A l \in Span(0, Lesser(lba, INST_BOOT_SECS)) \ unseen : disk[sel][l] = disk[0][l]
      /\ outcome = "complete"
  BY <1>1 DEF Control, Chunks
<1>. DEFINE c == Cnt
<1>3. c \in Nat \ {0} /\ lba + c <= INST_BOOT_SECS /\ INST_BOOT_SECS \in Nat /\ INST_PDFS_ZERO \in Nat
  BY <1>2, Sizes DEF Cnt, Lesser
<1>. HIDE DEF c
<1>4. ASSUME ata_write_sectors_raw(sel, lba, g_copy_buf, c), lba' = lba + c, pc' = "chunk"
      PROVE  Inv'
  <2>6. PICK k \in {c - 1, c} : disk' = Wrote(sel, lba, g_copy_buf, k) /\ unseen' = unseen \cup Span(lba + k, c - k)
    BY <1>4 DEF ata_write_sectors_raw
  <2>1. ASSUME NEW l \in Span(0, lba + c) \ unseen'
        PROVE  disk'[sel][l] = disk'[0][l]
    <3>. SUFFICES ASSUME sel = 1 PROVE disk'[1][l] = disk'[0][l]
      BY <1>2
    <3>1. l \in Lba /\ l \in Nat /\ l < lba + c
      BY <1>2, <1>3, <2>1, SpanIs
    <3>2. disk'[0] = disk[0] /\ disk'[1][l] = (IF l \in Span(lba, c) THEN g_copy_buf[l] ELSE disk[1][l]) /\ l \notin unseen
      <4>1. disk'[0] = disk[0]
        BY <1>2, <2>6, WroteIs
      <4>2. l \notin unseen /\ l \notin Span(lba + k, c - k)
        BY <2>1, <2>6
      <4>3. l \in Span(lba, c) <=> l \in Span(lba, k)
        BY <1>2, <1>3, <2>6, <3>1, <4>2 DEF Span
      <4>. QED  BY <1>2, <2>6, <3>1, <4>1, <4>2, <4>3, WroteIs
    <3>3. CASE l \in Span(lba, c)
      BY <1>2, <3>2, <3>3 DEF c
    <3>4. CASE l \notin Span(lba, c)
      <4>1. l < lba
        BY <1>2, <1>3, <3>1, <3>4, SpanIs
      <4>2. l \in Span(0, lba)
        BY <1>2, <3>1, <4>1, SpanIs
      <4>3. Lesser(lba, INST_BOOT_SECS) = lba
        BY <1>2, <1>3 DEF Lesser
      <4>. QED  BY <1>2, <3>2, <3>4, <4>2, <4>3
    <3>. QED  BY <3>3, <3>4
  <2>2. Lesser(lba', INST_BOOT_SECS) = lba + c /\ lba' - INST_BOOT_SECS <= 0 /\ lba' \in Nat
        /\ lba' <= INST_BOOT_SECS + INST_PDFS_ZERO
    BY <1>2, <1>3, <1>4 DEF Lesser
  <2>3. Span(INST_BOOT_SECS, lba' - INST_BOOT_SECS) = {}
    <3>1. \A l : l \notin Span(INST_BOOT_SECS, lba' - INST_BOOT_SECS)
      <4>. DEFINE n == lba' - INST_BOOT_SECS
      <4>1. n \in Int /\ n <= 0
        BY <1>2, <1>3, <1>4
      <4>. HIDE DEF n
      <4>2. \A l : l \notin Span(INST_BOOT_SECS, n)
        BY <1>3, <4>1, SpanIs
      <4>. QED  BY <4>2 DEF n
    <3>. QED  BY <3>1
  <2>4. Chunks'
    BY <1>1, <1>2, <1>4, <2>1, <2>2, <2>3 DEF Chunks
  <2>5. pc \notin Early /\ pc \notin {"io", "copying"}
    BY <1>1 DEF Early
  <2>. QED  BY <1>1, <1>4, <2>2, <2>4, <2>5, <2>6, DriveWriteKeeps
<1>5. ASSUME NEW k \in 0..c, disk' = Wrote(sel, lba, g_copy_buf, k), pc' = "failed", lba' = lba
      PROVE  Inv'
  <2>1. Chunks'
    BY <1>5 DEF Chunks
  <2>2. pc \notin Early /\ pc \notin {"io", "copying"} /\ lba' \in Nat
    BY <1>1, <1>2, <1>5 DEF Early
  <2>. QED  BY <1>1, <1>5, <2>1, <2>2, DriveWriteKeeps
<1>. QED  BY <1>4, <1>5 DEF WriteChunk, ata_write_sectors_raw_fails, c

\* A sector of the PDFS header is cleared, or the installation ends with a warning.
LEMMA ClearHeaderKeeps ==
  ASSUME Inv, ClearHeader
  PROVE  Inv'
<1>1. /\ Control /\ Chunks /\ UNCHANGED <<usb_vars, fitted, g_drive, g_drives, sel, io>> /\ pc = "chunk"
      /\ lba \in Span(INST_BOOT_SECS, INST_PDFS_ZERO)
  BY DEF Inv, ClearHeader
<1>2. /\ lba \in Nat /\ sel \in {0, 1} /\ DOMAIN disk = {0, 1} /\ outcome = "complete"
      /\ \A l \in Span(0, Lesser(lba, INST_BOOT_SECS)) \ unseen : disk[sel][l] = disk[0][l]
      /\ \A l \in Span(INST_BOOT_SECS, lba - INST_BOOT_SECS) \ unseen : disk[sel][l] = Zero
  BY <1>1 DEF Control, Chunks
<1>3. INST_BOOT_SECS \in Nat /\ INST_PDFS_ZERO \in Nat /\ INST_BOOT_SECS <= lba
      /\ lba < INST_BOOT_SECS + INST_PDFS_ZERO
  BY <1>1, Sizes, SpanIs
<1>. DEFINE zeros == [x \in Lba |-> Zero]
<1>4. \A l \in Lba : zeros[l] = Zero
  OBVIOUS
<1>. HIDE DEF zeros
<1>5. pc \notin Early /\ pc \notin {"io", "copying"}
  BY <1>1 DEF Early
<1>6. ASSUME NEW n \in {0, 1}, disk' = Wrote(sel, lba, zeros, n), unseen \subseteq unseen'
      PROVE  \A l \in Span(0, INST_BOOT_SECS) \ unseen' : disk'[sel][l] = disk'[0][l]
  <2>. SUFFICES ASSUME sel = 1, NEW l \in Span(0, INST_BOOT_SECS) \ unseen' PROVE disk'[1][l] = disk'[0][l]
    BY <1>2
  <2>1. l \in Lba /\ l \in Nat /\ l < INST_BOOT_SECS
    BY <1>3, SpanIs
  <2>2. l \notin Span(lba, n)
    BY <1>2, <1>3, <2>1, SpanIs
  <2>3. disk'[0] = disk[0] /\ disk'[1][l] = disk[1][l]
    BY <1>2, <1>6, <2>1, <2>2, WroteIs
  <2>4. Lesser(lba, INST_BOOT_SECS) = INST_BOOT_SECS
    BY <1>2, <1>3 DEF Lesser
  <2>. QED  BY <1>2, <1>6, <2>3, <2>4
<1>7. ASSUME ata_write_sectors_raw(sel, lba, zeros, 1), lba' = lba + 1, UNCHANGED <<outcome, pc>>
      PROVE  Inv'
  <2>6. PICK k \in {1 - 1, 1} : disk' = Wrote(sel, lba, zeros, k) /\ unseen' = unseen \cup Span(lba + k, 1 - k)
    BY <1>7 DEF ata_write_sectors_raw
  <2>1. \A l \in Span(0, INST_BOOT_SECS) \ unseen' : disk'[sel][l] = disk'[0][l]
    <3>1. k \in {0, 1}
      OBVIOUS
    <3>. QED  BY <1>6, <2>6, <3>1
  <2>2. Lesser(lba', INST_BOOT_SECS) = INST_BOOT_SECS /\ lba' \in Nat /\ lba' <= INST_BOOT_SECS + INST_PDFS_ZERO
        /\ lba' - INST_BOOT_SECS \in Nat /\ INST_BOOT_SECS + (lba' - INST_BOOT_SECS) = lba + 1
        /\ lba - INST_BOOT_SECS \in Nat /\ INST_BOOT_SECS + (lba - INST_BOOT_SECS) = lba
    BY <1>2, <1>3, <1>7 DEF Lesser
  <2>3. ASSUME NEW l \in Span(INST_BOOT_SECS, lba' - INST_BOOT_SECS) \ unseen'
        PROVE  disk'[sel][l] = Zero
    <3>1. l \in Lba /\ l \in Nat /\ INST_BOOT_SECS <= l /\ l < lba + 1
      <4>. DEFINE n == lba' - INST_BOOT_SECS
      <4>1. n \in Nat /\ INST_BOOT_SECS + n = lba + 1 /\ l \in Span(INST_BOOT_SECS, n)
        BY <2>2
      <4>. HIDE DEF n
      <4>. QED  BY <1>3, <4>1, SpanIs
    <3>2. disk'[sel][l] = (IF l \in Span(lba, 1) THEN zeros[l] ELSE disk[sel][l]) /\ l \notin unseen
      <4>1. l \notin unseen /\ l \notin Span(lba + k, 1 - k)
        BY <2>3, <2>6
      <4>2. l \in Span(lba, 1) <=> l \in Span(lba, k)
        BY <1>2, <2>6, <3>1, <4>1 DEF Span
      <4>. QED  BY <1>2, <2>6, <3>1, <4>1, <4>2, WroteIs
    <3>3. CASE l = lba
      <4>1. l \in Span(lba, 1)
        BY <1>2, <3>1, <3>3, SpanIs
      <4>. QED  BY <1>4, <3>1, <3>2, <4>1
    <3>4. CASE l # lba
      <4>1. l \notin Span(lba, 1)
        BY <1>2, <3>1, <3>4, SpanIs
      <4>2. l \in Span(INST_BOOT_SECS, lba - INST_BOOT_SECS)
        <5>. DEFINE n == lba - INST_BOOT_SECS
        <5>1. n \in Nat /\ INST_BOOT_SECS + n = lba
          BY <2>2
        <5>. HIDE DEF n
        <5>2. l < lba
          BY <1>2, <3>1, <3>4
        <5>3. l \in Span(INST_BOOT_SECS, n)
          BY <1>3, <3>1, <5>1, <5>2, SpanIs
        <5>. QED  BY <5>3 DEF n
      <4>. QED  BY <1>2, <3>2, <4>1, <4>2
    <3>. QED  BY <3>3, <3>4
  <2>4. Chunks'
    BY <1>1, <1>2, <1>7, <2>1, <2>2, <2>3 DEF Chunks
  <2>. QED  BY <1>1, <1>5, <1>7, <2>2, <2>4, <2>6, DriveWriteKeeps
<1>8. ASSUME NEW n \in 0..1, disk' = Wrote(sel, lba, zeros, n), unseen' = unseen, outcome' = "warned", pc' = "complete", lba' = lba
      PROVE  Inv'
  <2>1. n \in {0, 1}
    OBVIOUS
  <2>2. \A l \in Span(0, INST_BOOT_SECS) \ unseen' : disk'[sel][l] = disk'[0][l]
    BY <1>6, <1>8, <2>1
  <2>3. Lesser(lba, INST_BOOT_SECS) = INST_BOOT_SECS
    BY <1>2, <1>3 DEF Lesser
  <2>4. Chunks'
    BY <1>1, <1>2, <1>3, <1>8, <2>2, <2>3 DEF Chunks
  <2>. QED  BY <1>1, <1>2, <1>5, <1>8, <2>4, DriveWriteKeeps
<1>. QED  BY <1>7, <1>8 DEF ClearHeader, ata_write_sectors_raw_fails, zeros

\* A sector call starts a command on a sector the filesystems use.
LEMMA SectorCallKeeps ==
  ASSUME UsbInv, scan = "off", usb_ok, stage = "idle", UNCHANGED <<bus, dev, media, tog, scan_vars>>,
         SectorCall(io'), io'.lba \in Lba, io'.op \in {"read", "write"}
  PROVE  UsbInv' /\ req'.op \in {"read", "write"}
<1>1. CASE io'.op = "read"
  <2>1. do_scsi("read", io'.lba, Junk)
    BY <1>1 DEF SectorCall, usb_read_sector
  <2>2. PICK l \in Lba : l = io'.lba
    OBVIOUS
  <2>3. do_scsi("read", l, Junk)
    BY <2>1, <2>2
  <2>. QED  BY <2>3, DiskCommandKeeps DEF do_scsi
<1>2. CASE io'.op # "read"
  <2>1. PICK v \in Values : do_scsi("write", io'.lba, v)
    BY <1>2 DEF SectorCall, usb_write_sector
  <2>2. PICK l \in Lba : l = io'.lba
    OBVIOUS
  <2>3. do_scsi("write", l, v)
    BY <2>1, <2>2
  <2>. QED  BY <2>3, DiskCommandKeeps DEF do_scsi
<1>. QED  BY <1>1, <1>2

\* The control flow around a disk call.
LEMMA RunningKeeps ==
  ASSUME Inv, UsbInv', scan = "off", pc \in {"run", "io"},
         UNCHANGED <<scan_vars, ata_vars, sel, lba, g_copy_buf, outcome>>,
         \/ /\ pc' = "io" /\ req'.op \in {"read", "write"}
            /\ io' \in [op : {"read", "write"}, lba : Int, left : Nat \ {0}]
            /\ io'.lba .. io'.lba + io'.left - 1 \subseteq Used
         \/ pc' = "run" /\ req'.op = "none" /\ stage' = "idle"
  PROVE  Inv'
<1>1. Control /\ scan' = scan /\ UNCHANGED <<fitted, disk, g_drives>>
  BY DEF Inv, scan_vars, ata_vars
<1>2. Control'
  BY <1>1 DEF Control, Early
<1>3. Unwritten' /\ Copied' /\ Chunks'
  BY DEF Unwritten, Early, Copied, Chunks
<1>. QED  BY <1>2, <1>3 DEF Inv

\* A disk call of a mounted filesystem starts.
LEMMA AtaIoKeeps ==
  ASSUME Inv, ata_io
  PROVE  Inv'
<1>1. /\ UsbInv /\ Control /\ pc = "run" /\ usb_ok /\ pc' = "io"
      /\ UNCHANGED <<bus, dev, media, tog, scan_vars, ata_vars, sel, lba, g_copy_buf, outcome>>
  BY DEF Inv, ata_io
<1>2. PICK op \in {"read", "write"}, l \in Used, n \in 1..MaxCount :
        /\ l .. l + n - 1 \subseteq Used
        /\ io' = [op |-> op, lba |-> l, left |-> n]
        /\ SectorCall(io')
  BY DEF ata_io
<1>3. scan = "off" /\ stage = "idle"
  BY <1>1 DEF Control
<1>4. l \in Lba /\ l \in Int /\ n \in Nat \ {0}
  BY InstallAssumption, UsbAssumption
<1>5. io'.op = op /\ io'.lba = l /\ io'.left = n
  BY <1>2
<1>6. UsbInv' /\ req'.op \in {"read", "write"}
  BY <1>1, <1>2, <1>3, <1>4, <1>5, SectorCallKeeps
<1>7. io' \in [op : {"read", "write"}, lba : Int, left : Nat \ {0}]
  BY <1>2, <1>4
<1>. QED  BY <1>1, <1>2, <1>3, <1>4, <1>5, <1>6, <1>7, RunningKeeps

\* The next sector of the call, or its end.
LEMMA AtaIoNextKeeps ==
  ASSUME Inv, ata_io_next
  PROVE  Inv'
<1>1. /\ UsbInv /\ Control /\ pc = "io" /\ stage = "idle"
      /\ UNCHANGED <<bus, dev, media, tog, scan_vars, ata_vars, sel, lba, g_copy_buf, outcome>>
  BY DEF Inv, ata_io_next
<1>2. scan = "off" /\ req.op \in {"read", "write"}
  BY <1>1 DEF Control
<1>3. usb_ok
  BY <1>1, <1>2 DEF UsbInv, Driver
<1>4. CASE /\ result = "ok" /\ io.left > 1
           /\ io' = [io EXCEPT !.lba = @ + 1, !.left = @ - 1]
           /\ SectorCall(io') /\ pc' = pc
  <2>. DEFINE l == io.lba + 1
              n == io.left - 1
  <2>1. /\ io \in [op : {"read", "write"}, lba : Int, left : Nat \ {0}]
        /\ io.lba \in Int /\ io.left \in Nat \ {0} /\ io.op \in {"read", "write"}
        /\ io.lba .. io.lba + io.left - 1 \subseteq Used
    BY <1>1 DEF Control
  <2>2. l \in Int /\ n \in Nat \ {0} /\ l \in l .. l + n - 1
        /\ l .. l + n - 1 \subseteq io.lba .. io.lba + io.left - 1
    BY <1>4, <2>1
  <2>3. io'.op = io.op /\ io'.lba = l /\ io'.left = n /\ io' \in [op : {"read", "write"}, lba : Int, left : Nat \ {0}]
    BY <1>4, <2>1, <2>2
  <2>. HIDE DEF l, n
  <2>4. l .. l + n - 1 \subseteq Used /\ l \in Lba
    BY <2>1, <2>2, InstallAssumption
  <2>5. UsbInv' /\ req'.op \in {"read", "write"}
    BY <1>1, <1>2, <1>3, <1>4, <2>1, <2>3, <2>4, SectorCallKeeps
  <2>. QED  BY <1>1, <1>2, <1>4, <2>1, <2>2, <2>3, <2>4, <2>5, RunningKeeps
<1>5. CASE pc' = "run" /\ Returned
  <2>1. UsbInv' /\ req'.op = "none"
    BY <1>1, <1>2, <1>5, ReturnedKeeps
  <2>2. stage' = "idle"
    BY <1>1, <1>5 DEF Returned
  <2>. QED  BY <1>1, <1>2, <1>5, <2>1, <2>2, RunningKeeps
<1>. QED  BY <1>4, <1>5 DEF ata_io_next

\* Every step keeps the invariant.
LEMMA NextKeeps ==
  ASSUME Inv, [Next]_vars
  PROVE  Inv'
<1>1. CASE Running
  BY <1>1, UsbStepKeeps, QuietKeeps, UsbBeginsKeeps, WizardReadKeeps, WizardWriteKeeps, WriteChunkKeeps, ClearHeaderKeeps,
     AtaWriteKeeps, AtaIoKeeps, AtaIoNextKeeps
     DEF Running, BootWizard, Wizard, Quiet
<1>2. CASE PowerCycle
  BY <1>2, PowerCycleKeeps
<1>3. CASE UNCHANGED vars
  <2>1. UNCHANGED usb_vars /\ UNCHANGED <<fitted, disk, unseen, g_drive, g_drives, pc, sel, lba, g_copy_buf, outcome, io>>
    BY <1>3 DEF vars, ata_vars
  <2>2. UNCHANGED <<stage, result, req, scan, usb_ok, media>> /\ Answering' = Answering
    BY <2>1, UsbVars
  <2>3. Control' /\ Copied' /\ Chunks'
    BY <2>1, <2>2 DEF Inv, Control, Copied, Chunks, Cnt
  <2>. QED  BY <2>1, <2>3, NoUsbStep
<1>. QED  BY <1>1, <1>2, <1>3 DEF Next

\* The invariant holds of every run of the machine.
THEOREM Invariance == Spec => []Inv
<1>1. Inv /\ [Next]_vars => Inv'
  BY NextKeeps
<1>. QED  BY <1>1, InitHolds, PTL DEF Spec

\* After usb_init, disk I/O is addressed to one enumerated disk, whatever else is
\* plugged in and however its enumeration went.
THEOREM AlwaysDiskAddressed == Spec => []DiskAddressed
<1>1. Inv => DiskAddressed
  <2>. SUFFICES ASSUME Inv, scan = "off", usb_ok
                PROVE  \E s \in Sockets : Answering = {s} /\ Plug(s).class = "disk"
    BY DEF DiskAddressed
  <2>1. Types /\ Enumerated
    BY DEF Inv, UsbInv
  <2>2. addr > 0 /\ hc = msc.hc /\ addr = msc.addr
    BY <2>1 DEF Enumerated
  <2>3. PICK s \in Sockets : s[1] = hc /\ dev[s].addr = addr /\ Plug(s).class = "disk"
    BY <2>1, <2>2 DEF Enumerated
  <2>4. s \in Answering
    BY <2>3 DEF Answering
  <2>5. \A t \in Answering : t = s
    BY <2>1, <2>2, <2>4, OneAnswers
  <2>. QED  BY <2>3, <2>4, <2>5
<1>. QED  BY <1>1, Invariance, PTL

\* A sector command that the driver reports as done is true of the medium, for
\* every sequence of lost transfers, lost handshakes and late answers.
THEOREM AlwaysOnMedium == Spec => []CompletedIsOnMedium
<1>1. Inv => CompletedIsOnMedium
  BY DEF Inv, UsbInv
<1>. QED  BY <1>1, Invariance, PTL

\* An installer that reports success has copied every sector but those that ended
\* a call and were lost unseen: the boot wizard from the USB disk, the other from
\* drive 0, the header behind it cleared.
THEOREM AlwaysInstalled == Spec => []InstalledIsImage
<1>1. Inv => InstalledIsImage
  <2>. SUFFICES ASSUME Inv PROVE InstalledIsImage
    OBVIOUS
  <2>1. Copied /\ Chunks /\ Control
    BY DEF Inv
  <2>2. pc = "complete" => Lesser(lba, INST_BOOT_SECS) = INST_BOOT_SECS
    BY <2>1, Sizes DEF Chunks, Control, Lesser
  <2>3. pc = "complete" /\ outcome = "complete" => lba - INST_BOOT_SECS = INST_PDFS_ZERO
    BY <2>1, Sizes DEF Chunks
  <2>. QED  BY <2>1, <2>2, <2>3 DEF Copied, Chunks, InstalledIsImage, Installed
<1>. QED  BY <1>1, Invariance, PTL
=============================================================================
