------------------------------ MODULE Install ------------------------------
(***************************************************************************)
(* The two installers and the disk I/O around them, in the text build: the *)
(* boot wizard of core/kernel.c copies the first sectors of the USB disk   *)
(* onto an ATA drive; the wizard of core/install.c, run from the shell,    *)
(* copies the boot area of ATA drive 0 onto a drive and clears the PDFS    *)
(* header behind it.  drivers/ata.c reaches the drives by PIO and, when a  *)
(* USB disk is available, sends plain sector I/O there instead.            *)
(*                                                                         *)
(* An ATA command may fail at any sector.  What the drive reports of the    *)
(* last sector of a call is never looked at, so a call that returns 0 may  *)
(* have lost that one.  Power may fail at any step.                        *)
(***************************************************************************)
EXTENDS Usb

CONSTANTS
  WizardSecs,       \* sectors the boot wizard copies (512)
  INST_BOOT_SECS,   \* sectors of bootloader and kernel (1024), ATA_RESERVED_LBA
  INST_CHUNK,       \* sectors per copy step (8)
  INST_PDFS_ZERO,   \* sectors of the PDFS header cleared (8)
  Fitted,           \* the sets of ATA drives a machine may have
  Used,             \* sectors the mounted filesystems use
  MaxCount,         \* bound on the sectors of one call
  MaxBoots          \* bound on the power-ups after the first

ASSUME InstallAssumption ==
  /\ INST_BOOT_SECS \in Nat /\ INST_PDFS_ZERO \in Nat
  /\ WizardSecs \in 1 .. INST_BOOT_SECS
  /\ INST_CHUNK \in 1 .. INST_BOOT_SECS
  /\ 0 .. INST_BOOT_SECS + INST_PDFS_ZERO - 1 \subseteq Lba
  /\ Fitted \subseteq SUBSET {0, 1}
  /\ Used \subseteq Lba

VARIABLES
  fitted,           \* the ATA drives of this machine
  disk,             \* the sectors of each ATA drive
  unseen,           \* the sectors an installation lost though the call returned 0
  g_drive,          \* g_drive.present
  g_drives,         \* the drives whose g_drives[].present is set
  pc,               \* where the kernel thread is
  sel,              \* the drive chosen: sel, sel_drv
  lba,              \* the next sector to copy or clear
  g_copy_buf,       \* what page_install has read and not yet written
  outcome,          \* complete, errors, aborted or warned, as printed
  io,               \* the ata_read_sectors or ata_write_sectors call under way
  boots             \* the power-ups so far

ata_vars == <<fitted, disk, unseen, g_drive, g_drives>>
vars == <<usb_vars, ata_vars, pc, sel, lba, g_copy_buf, outcome, io, boots>>

\* The name of an ATA drive, told apart from the USB sockets <<c, p>>, c >= 1.
AtaDrive(d) == <<0, d>>
NoIo == [op |-> "none", lba |-> 0, left |-> 0]
Span(a, n) == {l \in Lba : a <= l /\ l < a + n}
Lesser(a, b) == IF a < b THEN a ELSE b

-----------------------------------------------------------------------------
(* drivers/ata.c.                                                          *)

\* ata_write_sectors_raw: the sectors reach the drive in order.  An error of one
\* is seen when the next is to go; after the last the drive only has to be no
\* longer busy.  A failed call leaves any number written, an absent drive none.
Wrote(d, from, src, n) == [disk EXCEPT ![d] = [l \in Lba |-> IF l \in Span(from, n) THEN src[l] ELSE @[l]]]
ata_write_sectors_raw(d, from, src, n) ==
  /\ d \in g_drives
  /\ \E k \in {n - 1, n} : disk' = Wrote(d, from, src, k) /\ unseen' = unseen \cup Span(from + k, n - k)
ata_write_sectors_raw_fails(d, from, src, n) ==
  /\ \E k \in 0 .. n : disk' = Wrote(d, from, src, k)
  /\ UNCHANGED unseen

\* Both drives are probed: those fitted answer IDENTIFY.
ata_probe_all == g_drives' = fitted

\* ata_init probes the master alone.
ata_init == /\ pc = "boot"
            /\ g_drive' = (0 \in fitted)
            /\ g_drives' = fitted \cap {0}
            /\ pc' = IF g_drives' # {} THEN "wizard" ELSE "probing"
            /\ UNCHANGED <<usb_vars, fitted, disk, unseen, sel, lba, g_copy_buf, outcome, io>>

\* Plain sector I/O of the mounted filesystems.  With a USB disk each sector
\* is a command of its own and the first failure ends the call.
SectorCall(i) == IF i.op = "read" THEN usb_read_sector(i.lba)
                 ELSE \E v \in Values : usb_write_sector(i.lba, v)
ata_io == /\ pc = "run" /\ usb_ok
          /\ \E op \in {"read", "write"}, l \in Used, n \in 1 .. MaxCount :
               /\ l .. l + n - 1 \subseteq Used
               /\ io' = [op |-> op, lba |-> l, left |-> n]
               /\ SectorCall(io')
          /\ pc' = "io"
          /\ UNCHANGED <<bus, dev, media, tog, scan_vars, ata_vars, sel, lba, g_copy_buf, outcome>>
ata_io_next == /\ pc = "io" /\ stage = "idle"
               /\ IF result = "ok" /\ io.left > 1
                  THEN /\ io' = [io EXCEPT !.lba = @ + 1, !.left = @ - 1]
                       /\ SectorCall(io')
                       /\ UNCHANGED pc
                  ELSE pc' = "run" /\ io' = NoIo /\ Returned
               /\ UNCHANGED <<bus, dev, media, tog, scan_vars, ata_vars, sel, lba, g_copy_buf, outcome>>

\* Without one the write goes to drive 0, behind the boot area only, and may
\* stop short, reported or not.
ata_write_sectors ==
  /\ pc = "run" /\ ~usb_ok /\ g_drive
  /\ \E l \in Used, n \in 1 .. MaxCount, v \in Values :
       /\ l >= INST_BOOT_SECS /\ l .. l + n - 1 \subseteq Used
       /\ \E k \in 0 .. n : disk' = Wrote(0, l, [x \in Lba |-> v], k)
  /\ UNCHANGED <<usb_vars, fitted, unseen, g_drive, g_drives, pc, sel, lba, g_copy_buf, outcome, io>>

-----------------------------------------------------------------------------
(* The boot wizard of kernel.c.                                            *)

\* A digit chooses a drive and starts USB; S boots on without it.
ChooseDrive == /\ pc = "wizard"
               /\ \E d \in g_drives : sel' = d
               /\ usb_init
               /\ pc' = "installing"
               /\ UNCHANGED <<ata_vars, lba, g_copy_buf, outcome, io>>
Skip == /\ pc = "wizard"
        /\ pc' = "run"
        /\ UNCHANGED <<usb_vars, ata_vars, sel, lba, g_copy_buf, outcome, io>>
\* Without an ATA drive the system lives on the USB disk.
UsbOnly == /\ pc = "probing" /\ scan = "off"
           /\ usb_init
           /\ pc' = "mounting"
           /\ UNCHANGED <<ata_vars, sel, lba, g_copy_buf, outcome, io>>
Mounted == /\ pc = "mounting" /\ scan = "off"
           /\ pc' = "run"
           /\ UNCHANGED <<usb_vars, ata_vars, sel, lba, g_copy_buf, outcome, io>>

WizardStart == /\ pc = "installing" /\ scan = "off"
               /\ lba' = 0
               /\ IF usb_ok THEN pc' = "copy" /\ outcome' = "complete"
                            ELSE pc' = "halt" /\ outcome' = "aborted"
               /\ UNCHANGED <<usb_vars, ata_vars, sel, g_copy_buf, io>>
WizardRead == /\ pc = "copy" /\ lba < WizardSecs
              /\ usb_read_sector(lba)
              /\ pc' = "copying"
              /\ UNCHANGED <<bus, dev, media, tog, scan_vars, ata_vars, sel, lba, g_copy_buf, outcome, io>>
\* A bug: a sector that cannot be copied and is not counted.
Mutant_WizardStep(r) ==
  IF r = "ok" THEN \/ ata_write_sectors_raw(sel, lba, [l \in Lba |-> buf], 1) /\ UNCHANGED outcome
                   \/ ata_write_sectors_raw_fails(sel, lba, [l \in Lba |-> buf], 1) /\ outcome' = "errors"
  ELSE UNCHANGED <<disk, unseen, outcome>>

\* A sector that cannot be read or written is counted, and skipped.
WizardStep(r) ==
  IF r = "ok" THEN \/ ata_write_sectors_raw(sel, lba, [l \in Lba |-> buf], 1) /\ UNCHANGED outcome
                   \/ ata_write_sectors_raw_fails(sel, lba, [l \in Lba |-> buf], 1) /\ outcome' = "errors"
  ELSE UNCHANGED <<disk, unseen>> /\ outcome' = "errors"

WizardWrite == /\ pc = "copying" /\ stage = "idle"
               /\ WizardStep(result)
               /\ lba' = lba + 1
               /\ pc' = "copy"
               /\ Returned
               /\ UNCHANGED <<bus, dev, media, tog, scan_vars, fitted, g_drive, g_drives, sel, g_copy_buf, io>>
WizardDone == /\ pc = "copy" /\ lba = WizardSecs
              /\ pc' = "halt"
              /\ UNCHANGED <<usb_vars, ata_vars, sel, lba, g_copy_buf, outcome, io>>

-----------------------------------------------------------------------------
(* The wizard of install.c.                                                *)

\* cmd_install and page_welcome; the drives are probed again.
install_wizard == /\ pc = "run"
                  /\ ata_probe_all
                  /\ pc' = "drives"
                  /\ UNCHANGED <<usb_vars, fitted, disk, unseen, g_drive, sel, lba, g_copy_buf, outcome, io>>
page_drives == /\ pc = "drives"
               /\ \E d \in g_drives : sel' = d
               /\ pc' = "confirm"
               /\ UNCHANGED <<usb_vars, ata_vars, lba, g_copy_buf, outcome, io>>
\* ESC, at any page that waits for a key.
Cancel == /\ pc \in {"drives", "confirm", "failed"}
          /\ pc' = "run"
          /\ sel' = None /\ lba' = 0 /\ outcome' = "none"
          /\ UNCHANGED <<usb_vars, ata_vars, g_copy_buf, io>>
page_confirm == /\ pc = "confirm"
                /\ pc' = "chunk" /\ lba' = 0 /\ outcome' = "complete" /\ unseen' = {}
                /\ UNCHANGED <<usb_vars, fitted, disk, g_drive, g_drives, sel, g_copy_buf, io>>

Cnt == Lesser(INST_CHUNK, INST_BOOT_SECS - lba)
\* page_install: a chunk is read from drive 0 and written to the target; the
\* first failure of either ends the installation.
ReadChunk == /\ pc = "chunk" /\ lba < INST_BOOT_SECS
             /\ \/ 0 \in g_drives /\ g_copy_buf' = [l \in Span(lba, Cnt) |-> disk[0][l]] /\ pc' = "write"
                \/ pc' = "failed" /\ UNCHANGED g_copy_buf
             /\ UNCHANGED <<usb_vars, ata_vars, sel, lba, outcome, io>>
WriteChunk == /\ pc = "write"
              /\ \/ /\ ata_write_sectors_raw(sel, lba, g_copy_buf, Cnt)
                    /\ lba' = lba + Cnt /\ pc' = "chunk"
                 \/ /\ ata_write_sectors_raw_fails(sel, lba, g_copy_buf, Cnt)
                    /\ pc' = "failed" /\ UNCHANGED lba
              /\ g_copy_buf' = <<>>
              /\ UNCHANGED <<usb_vars, fitted, g_drive, g_drives, sel, outcome, io>>
\* The PDFS header is cleared; a failure there is only a warning.
ClearHeader == /\ pc = "chunk" /\ lba \in Span(INST_BOOT_SECS, INST_PDFS_ZERO)
               /\ \/ /\ ata_write_sectors_raw(sel, lba, [l \in Lba |-> Zero], 1)
                     /\ lba' = lba + 1 /\ UNCHANGED <<outcome, pc>>
                  \/ /\ ata_write_sectors_raw_fails(sel, lba, [l \in Lba |-> Zero], 1)
                     /\ outcome' = "warned" /\ pc' = "complete" /\ UNCHANGED lba
               /\ UNCHANGED <<usb_vars, fitted, g_drive, g_drives, sel, g_copy_buf, io>>
page_complete == /\ pc = "chunk" /\ lba = INST_BOOT_SECS + INST_PDFS_ZERO
                 /\ pc' = "complete"
                 /\ UNCHANGED <<usb_vars, ata_vars, sel, lba, g_copy_buf, outcome, io>>

-----------------------------------------------------------------------------
\* Power off and on, or ENTER on the last page.
PowerCycle == /\ boots < MaxBoots
              /\ boots' = boots + 1
              /\ UsbReset
              /\ g_drive' = FALSE /\ g_drives' = {} /\ unseen' = {} /\ UNCHANGED <<fitted, disk>>
              /\ pc' = "boot" /\ sel' = None /\ lba' = 0 /\ g_copy_buf' = <<>>
              /\ outcome' = "none" /\ io' = NoIo

Init == /\ UsbInit
        /\ fitted \in Fitted
        /\ disk = [d \in {0, 1} |-> Image(AtaDrive(d))]
        /\ unseen = {} /\ g_drive = FALSE /\ g_drives = {}
        /\ pc = "boot" /\ sel = None /\ lba = 0 /\ g_copy_buf = <<>>
        /\ outcome = "none" /\ io = NoIo /\ boots = 0

UsbStep == (Scan \/ Transport) /\ UNCHANGED <<ata_vars, pc, sel, lba, g_copy_buf, outcome, io>>
BootWizard == ChooseDrive \/ Skip \/ UsbOnly \/ Mounted \/ WizardStart \/ WizardRead \/ WizardWrite \/ WizardDone
Wizard == install_wizard \/ page_drives \/ Cancel \/ page_confirm \/ ReadChunk \/ WriteChunk \/ ClearHeader \/ page_complete
Running == UsbStep \/ ata_init \/ ata_io \/ ata_io_next \/ ata_write_sectors \/ BootWizard \/ Wizard
Next == (Running /\ UNCHANGED boots) \/ PowerCycle
Spec == Init /\ [][Next]_vars

-----------------------------------------------------------------------------
Installed(lost) ==
  /\ pc = "halt" /\ outcome = "complete" =>
       \A s \in Answering : \A l \in Span(0, WizardSecs) \ lost : disk[sel][l] = media[s][l]
  /\ pc = "complete" =>
       /\ \A l \in Span(0, INST_BOOT_SECS) \ lost : disk[sel][l] = disk[0][l]
       /\ outcome = "complete" => \A l \in Span(INST_BOOT_SECS, INST_PDFS_ZERO) \ lost : disk[sel][l] = Zero

\* When the boot wizard prints "Install complete." every sector it copies is
\* on the drive as the USB disk holds it; when the wizard of install.c does,
\* the boot area of the target is that of drive 0, and the PDFS header is
\* cleared unless it warned: whatever failed on the way, but for a sector that
\* ended a call of ata_write_sectors_raw and that the drive lost (ata.c:425).
InstalledIsImage == Installed(unseen)

\* What the message says (kernel.c:226-231: errors counted, or none): the same of
\* every sector.
InstalledIsWhole == Installed({})

=============================================================================
