-------------------------------- MODULE Usb --------------------------------
(***************************************************************************)
(* The EHCI and mass-storage driver, drivers/usb.c: the scan of the        *)
(* controllers and their ports, the enumeration of a device, and the Bulk- *)
(* Only Transport (command, data and status transfers) that carries        *)
(* INQUIRY, READ(10) and WRITE(10).  A transfer may fail at any stage: the *)
(* device does not answer, or the handshake is lost after it has acted.    *)
(* The driver has no reset recovery: after a failure the host and the      *)
(* device may disagree on the data toggles and on the command in progress. *)
(*                                                                         *)
(* The devices (their toggles, the command they execute, their medium)     *)
(* are outside the source; they follow the USB mass-storage protocol.      *)
(***************************************************************************)
EXTENDS Integers, Sequences, FiniteSets

CONSTANTS
  Buses,        \* how the controllers and ports may be populated
  Lba,          \* the sectors of a disk
  Image(_),     \* what a disk holds at first, by the name of the disk
  Values,       \* what the system itself writes into a sector
  Zero, Junk,   \* a sector of zeros, and one of which nothing is known
  MaxTag        \* bound on the commands of one power-up

None == -1
NoRequest == [op |-> "none", lba |-> None, val |-> Junk]
NoCommand == [op |-> "none", lba |-> None, tag |-> 0]

VARIABLES
  bus,          \* bus[c][p]: what is plugged into port p of controller c
  dev,          \* the state of each device
  media,        \* the sectors of each USB disk
  scan,         \* usb_init: off, hc, port or inquiry
  port, nextAddr,           \* probe_ports: i, next_addr
  hc, addr, ep, tog, tag,   \* g_opbase, g_addr, g_ep_*, g_*_tog, g_tag
  usb_ok, msc,              \* g_usb_ok; g_msc_addr with g_msc_opbase
  kbd_ok, armed,            \* g_kbd_ok; the device in frame_list
  stage, req, result, buf   \* do_scsi: its progress, command, return, data

bot_vars == <<tag, stage, req, result, buf>>
scan_vars == <<scan, port, nextAddr, hc, addr, ep, usb_ok, msc, kbd_ok, armed>>
usb_vars == <<bus, dev, media, tog, bot_vars, scan_vars>>

Plugs(b) == {<<c, p>> : c \in DOMAIN b, p \in UNION {DOMAIN b[c2] : c2 \in DOMAIN b}}

ASSUME UsbAssumption ==
  /\ Lba \subseteq Nat
  /\ \A b \in Buses :
       /\ b \in Seq(Seq([class : {"none", "slow", "disk", "cdrom", "keyboard", "other"},
                        in : Nat, out : Nat]))
       /\ \A s \in Plugs(b) : DOMAIN Image(s) = Lba

Sockets == {s \in Plugs(bus) : s[2] \in DOMAIN bus[s[1]]}
Plug(s) == bus[s[1]][s[2]]
IsStorage(s) == Plug(s).class \in {"disk", "cdrom"}

-----------------------------------------------------------------------------
(* The device side.                                                        *)

Unplugged == [addr |-> None, in |-> 0, out |-> 0, phase |-> "idle",
              cmd |-> NoCommand, good |-> TRUE, queue |-> <<>>]

\* The devices of the selected controller that answer to g_addr.
Answering == {s \in Sockets : s[1] = hc /\ dev[s].addr = addr}
\* The storage device whose endpoint the driver's next bulk transfer reaches.
Target(dir) == {s \in Answering : /\ Cardinality(Answering) = 1
                                  /\ IsStorage(s)
                                  /\ ep[dir] # 0
                                  /\ ep[dir] = Plug(s)[dir]}

IsCommand(p) == "op" \in DOMAIN p

\* A command starts: it has data to move, or fails at once.
Starts(d, c) ==
  {[d EXCEPT !.cmd = c, !.good = FALSE, !.phase = "csw"],
   [d EXCEPT !.cmd = c, !.good = TRUE, !.phase = IF c.op = "write" THEN "out" ELSE "in"]}

Ready(d) == d.phase \in {"idle", "out"} \/ (d.phase \in {"in", "csw"} /\ d.queue = <<>>)

\* The device takes a fresh OUT packet: a command, the data it waits for, a
\* command where it waits for data, or a packet it keeps until it is done.
Takes(d, m, p) ==
  CASE d.phase = "idle" /\ IsCommand(p) -> {<<e, m>> : e \in Starts(d, p)}
    [] d.phase = "idle" /\ ~IsCommand(p) -> {<<[d EXCEPT !.phase = "dead"], m>>}
    [] d.phase = "out" /\ IsCommand(p) ->
         {<<[d EXCEPT !.phase = "csw", !.good = FALSE], w>> :
            w \in {m, [m EXCEPT ![d.cmd.lba] = Junk]}}
    [] d.phase = "out" /\ ~IsCommand(p) ->
         {<<[d EXCEPT !.phase = "csw", !.good = FALSE], m>>,
          <<[d EXCEPT !.phase = "csw"], [m EXCEPT ![d.cmd.lba] = p.val]>>}
    [] OTHER -> {<<[d EXCEPT !.queue = <<p>>], m>>}

\* What the device has to send.
Offers(d) == d.phase \in {"in", "csw"}
Offer(d, m) ==
  IF d.phase = "csw" THEN [size |-> "csw", tag |-> d.cmd.tag, good |-> d.good]
  ELSE IF d.cmd.op = "inquiry" THEN [size |-> "id", val |-> Junk]
  ELSE [size |-> "sector", val |-> m[d.cmd.lba]]

\* The device after its packet was acknowledged.
Sent(d) ==
  LET e == [d EXCEPT !.in = 1 - @, !.queue = <<>>]
  IN IF d.phase = "in" THEN {[d EXCEPT !.in = 1 - @, !.phase = "csw"]}
     ELSE IF d.queue = <<>> THEN {[e EXCEPT !.phase = "idle", !.cmd = NoCommand]}
     ELSE IF IsCommand(Head(d.queue)) THEN Starts(e, Head(d.queue))
     ELSE {[e EXCEPT !.phase = "dead"]}

\* An IN transfer with toggle t: the packet the host gets and the device
\* after it, the host's own acknowledgement perhaps lost.  A packet with the
\* other toggle is acknowledged and dropped as a repeat.
Gets(d, m, t) ==
  LET Fresh(e) == IF Offers(e) THEN {<<Offer(e, m), f>> : f \in Sent(e) \cup {e}} ELSE {}
  IN IF ~Offers(d) THEN {}
     ELSE IF d.in = t THEN Fresh(d)
     ELSE UNION {Fresh(e) : e \in Sent(d)}

-----------------------------------------------------------------------------
(* Transfers and the BOT transaction.                                      *)

Finish(r) == /\ stage' = "idle"
             /\ result' = r

\* ehci_exec reports an error or times out and the device saw nothing: the
\* toggle of the endpoint stays.
ehci_exec_fails == /\ Finish("err")
                   /\ UNCHANGED <<dev, media, tog, buf>>

\* bulk_out: acknowledged, or acted upon and the acknowledgement lost.
bulk_out(p, next) ==
  \/ ehci_exec_fails
  \/ \E s \in Target("out") :
       /\ Ready(dev[s])
       /\ \E r \in IF dev[s].out = tog.out
                   THEN Takes([dev[s] EXCEPT !.out = 1 - @], media[s], p)
                   ELSE {<<dev[s], media[s]>>} :
            /\ dev' = [dev EXCEPT ![s] = r[1]]
            /\ media' = [media EXCEPT ![s] = r[2]]
       /\ \/ /\ stage' = next
             /\ tog' = [tog EXCEPT !.out = 1 - @]
             /\ UNCHANGED result
          \/ /\ Finish("err")
             /\ UNCHANGED tog
       /\ UNCHANGED buf

\* bulk_in: a packet v, no longer than asked for (a longer one is babble); or
\* the device's packet was acknowledged and the transfer reported as failed.
Fits(v, want) == want = "csw" => v.size = "csw"
bulk_in(want, Then(_)) ==
  \/ ehci_exec_fails
  \/ \E s \in Target("in") :
       \E g \in Gets(dev[s], media[s], tog.in) :
         /\ Fits(g[1], want)
         /\ dev' = [dev EXCEPT ![s] = g[2]]
         /\ \/ tog' = [tog EXCEPT !.in = 1 - @] /\ Then(g[1])
            \/ Finish("err") /\ UNCHANGED <<tog, buf>>
       /\ UNCHANGED media

\* A bug: the tag is not compared.
Mutant_CswGood(v, t) == v.good
\* The checks of the status wrapper: signature, tag and status.
CswGood(v, t) == v.tag = t /\ v.good

\* do_scsi, started: a new tag.
do_scsi(op, lba, val) ==
  /\ tag < MaxTag
  /\ tag' = tag + 1
  /\ req' = [op |-> op, lba |-> lba, val |-> val]
  /\ buf' = IF op = "write" THEN val ELSE buf
  /\ stage' = "cbw"
  /\ result' = "none"
\* The caller has used what the command returned.
Returned == /\ req' = NoRequest /\ result' = "none" /\ buf' = Junk
            /\ UNCHANGED <<tag, stage>>
usb_read_sector(lba) == do_scsi("read", lba, Junk)
usb_write_sector(lba, val) == do_scsi("write", lba, val)

Command == [op |-> req.op, lba |-> req.lba, tag |-> tag]
SendCommand == /\ stage = "cbw"
               /\ bulk_out(Command, "data")
               /\ UNCHANGED <<bus, tag, req, scan_vars>>
SendData == /\ stage = "data" /\ req.op = "write"
            /\ bulk_out([val |-> req.val], "csw")
            /\ UNCHANGED <<bus, tag, req, scan_vars>>
\* A short packet completes the data transfer too.
ReceiveData == /\ stage = "data" /\ req.op # "write"
               /\ bulk_in("data", LAMBDA v : /\ buf' = IF v.size = "sector" THEN v.val ELSE Junk
                                             /\ stage' = "csw"
                                             /\ UNCHANGED result)
               /\ UNCHANGED <<bus, tag, req, scan_vars>>
ReceiveStatus == /\ stage = "csw"
                 /\ bulk_in("csw", LAMBDA v : /\ Finish(IF CswGood(v, tag) THEN "ok" ELSE "err")
                                              /\ UNCHANGED buf)
                 /\ UNCHANGED <<bus, tag, req, scan_vars>>
Transport == SendCommand \/ SendData \/ ReceiveData \/ ReceiveStatus

-----------------------------------------------------------------------------
(* usb_init.                                                               *)

usb_init == /\ scan' = "hc"
            /\ usb_ok' = FALSE
            /\ hc' = 0
            /\ UNCHANGED <<bus, dev, media, tog, bot_vars, port, nextAddr, addr, ep, msc, kbd_ok, armed>>

\* The next controller is reset, which disables its ports and, because the
\* frame list is one for all controllers, disarms the keyboard; or its BAR is
\* unusable, or the reset times out.
ehci_hc_init ==
  /\ scan = "hc" /\ hc < Len(bus)
  /\ hc' = hc + 1
  /\ \/ /\ dev' = [s \in Sockets |-> IF s[1] = hc' THEN Unplugged ELSE dev[s]]
        /\ armed' = <<>>
        /\ scan' = "port" /\ port' = 1 /\ nextAddr' = 1
     \/ UNCHANGED <<dev, armed, scan, port, nextAddr>>
  /\ UNCHANGED <<bus, media, tog, bot_vars, addr, ep, usb_ok, msc, kbd_ok>>

\* A bug: the address of the last device enumerated stays.
Mutant_KeptAddr == addr
\* The address of the disk goes back into g_addr.
KeptAddr == IF usb_ok THEN msc.addr ELSE addr

PortsDone == /\ scan = "port" /\ port > Len(bus[hc])
             /\ scan' = "hc"
             /\ addr' = KeptAddr
             /\ UNCHANGED <<bus, dev, media, tog, bot_vars, port, nextAddr, hc, ep, usb_ok, msc, kbd_ok, armed>>
ScanDone == /\ scan = "hc" /\ hc = Len(bus)
            /\ scan' = "off"
            /\ hc' = IF usb_ok THEN msc.hc ELSE hc
            /\ addr' = KeptAddr
            /\ UNCHANGED <<bus, dev, media, tog, bot_vars, port, nextAddr, ep, usb_ok, msc, kbd_ok, armed>>

Here == <<hc, port>>
\* An empty port is passed over; a full- or low-speed device goes to the
\* companion controller.
PassPort == /\ scan = "port" /\ port <= Len(bus[hc]) /\ Plug(Here).class \in {"none", "slow"}
            /\ port' = port + 1
            /\ UNCHANGED <<bus, dev, media, tog, bot_vars, scan, nextAddr, hc, addr, ep, usb_ok, msc, kbd_ok, armed>>

\* The device at address 0 after the port reset answers a control transfer
\* only if no other is left there.
ctrl_xfr_possible == \A s \in Sockets : s[1] = hc /\ s # Here => dev[s].addr # 0
Addressed(a) == [dev EXCEPT ![Here] = [Unplugged EXCEPT !.addr = a]]

\* enumerate_device: it gives up when the descriptor or the address fails;
\* the device may have taken the address all the same.
enumerate_fails ==
  /\ addr' = 0
  /\ \/ dev' = Addressed(0)
     \/ ctrl_xfr_possible /\ dev' = Addressed(nextAddr)
  /\ UNCHANGED <<scan, ep, tog, bot_vars, kbd_ok, armed>>
\* The configuration cannot be read: the endpoints stay those of before.
enumerate_unconfigured ==
  /\ ctrl_xfr_possible
  /\ addr' = nextAddr
  /\ dev' = Addressed(nextAddr)
  /\ UNCHANGED <<scan, ep, tog, bot_vars, kbd_ok, armed>>
\* The descriptors are parsed.  A storage device is configured, which resets
\* the toggles, and asked what it is; a keyboard is armed if it is the first.
enumerate_device ==
  /\ ctrl_xfr_possible
  /\ addr' = nextAddr
  /\ dev' = Addressed(nextAddr)
  /\ IF IsStorage(Here)
     THEN /\ ep' = [in |-> Plug(Here).in, out |-> Plug(Here).out]
          /\ \/ /\ tog' = [in |-> 0, out |-> 0]
                /\ do_scsi("inquiry", None, Junk)
                /\ scan' = "inquiry"
             \/ UNCHANGED <<tog, bot_vars, scan>>
          /\ UNCHANGED <<kbd_ok, armed>>
     ELSE /\ ep' = [in |-> 0, out |-> 0]
          /\ IF Plug(Here).class = "keyboard" /\ ~kbd_ok
             THEN kbd_ok' = TRUE /\ armed' = Here
             ELSE UNCHANGED <<kbd_ok, armed>>
          /\ UNCHANGED <<scan, tog, bot_vars>>

ProbePort == /\ scan = "port" /\ port <= Len(bus[hc]) /\ Plug(Here).class \notin {"none", "slow"}
             /\ nextAddr' = nextAddr + 1
             /\ port' = port + 1
             /\ enumerate_fails \/ enumerate_unconfigured \/ enumerate_device
             /\ UNCHANGED <<bus, media, hc, usb_ok, msc>>

\* INQUIRY answered: the first disk is kept.
IsDisk == result = "ok" /\ Plug(<<hc, port - 1>>).class = "disk"
Inquired == /\ scan = "inquiry" /\ stage = "idle"
            /\ scan' = "port"
            /\ IF IsDisk /\ ~usb_ok
               THEN usb_ok' = TRUE /\ msc' = [hc |-> hc, addr |-> addr]
               ELSE UNCHANGED <<usb_ok, msc>>
            /\ Returned
            /\ UNCHANGED <<bus, dev, media, tog, port, nextAddr, hc, addr, ep, kbd_ok, armed>>

Scan == ehci_hc_init \/ PassPort \/ ProbePort \/ Inquired \/ PortsDone \/ ScanDone

-----------------------------------------------------------------------------
PowerUp(b) ==
  [dev |-> [s \in {t \in Plugs(b) : t[2] \in DOMAIN b[t[1]]} |-> Unplugged],
   ep |-> [in |-> 0, out |-> 0]]

UsbInit ==
  /\ bus \in Buses
  /\ dev = PowerUp(bus).dev
  /\ media = [s \in Sockets |-> Image(s)]
  /\ scan = "off" /\ port = 1 /\ nextAddr = 1
  /\ hc = 0 /\ addr = 0 /\ ep = PowerUp(bus).ep /\ tog = [in |-> 0, out |-> 0] /\ tag = 0
  /\ usb_ok = FALSE /\ msc = [hc |-> 0, addr |-> 0] /\ kbd_ok = FALSE /\ armed = <<>>
  /\ stage = "idle" /\ req = NoRequest
  /\ result = "none" /\ buf = Junk

\* Power goes and comes back: only the media keep what they hold.
UsbReset ==
  /\ UNCHANGED <<bus, media>>
  /\ dev' = PowerUp(bus).dev
  /\ scan' = "off" /\ port' = 1 /\ nextAddr' = 1
  /\ hc' = 0 /\ addr' = 0 /\ ep' = PowerUp(bus).ep /\ tog' = [in |-> 0, out |-> 0] /\ tag' = 0
  /\ usb_ok' = FALSE /\ msc' = [hc |-> 0, addr |-> 0] /\ kbd_ok' = FALSE /\ armed' = <<>>
  /\ stage' = "idle" /\ req' = NoRequest
  /\ result' = "none" /\ buf' = Junk

-----------------------------------------------------------------------------
\* Once usb_init is over and a disk is available, disk I/O goes to the
\* controller and address of one enumerated disk, whatever else was plugged
\* in and however its enumeration went (probe_ports and usb_init restore
\* g_addr and g_opbase).
DiskAddressed ==
  scan = "off" /\ usb_ok => \E s \in Sockets : Answering = {s} /\ Plug(s).class = "disk"

\* It also goes to the endpoints of that disk.  usb.h: the driver "exposes it
\* as a block device"; but enumerate_device overwrites g_ep_in and g_ep_out
\* for every device it meets.
DiskReachable ==
  scan = "off" /\ usb_ok => \A s \in Answering : ep = [in |-> Plug(s).in, out |-> Plug(s).out]

\* A sector read or written with success is on the medium: at every lost
\* transfer, lost handshake and late answer before it, what usb_read_sector
\* returned is that sector's content and what usb_write_sector wrote is there.
CompletedIsOnMedium ==
  scan = "off" /\ stage = "idle" /\ result = "ok" /\ req.op \in {"read", "write"}
    => \A s \in Answering : buf = media[s][req.lba]
=============================================================================
