# PD-OS in TLA+

PD-OS is a 32-bit x86 hobby kernel: one CPU, a timer-driven scheduler, its own
on-disk filesystem (PDFS), a user table with passwords, a small TCP/IP stack, a
text shell and an optional graphical desktop.  There is no user mode and no
memory protection: every component is C code in one address space, and what
keeps the system correct is that its data structures survive the interleavings
of the timer, the order of writes to the disk, and long sequences of calls.
These modules state what that correctness is, check it with TLC on small
instances, and prove the parts that hold for every instance with TLAPS.

The models follow the code, not the documentation.  Where the two disagree the
configuration that shows it is listed under *Disagreements*.

## 1. The system and its parts

| Component (sources) | State | Operations | Hard part | Correct when |
|---|---|---|---|---|
| **process manager** (`kernel/core/process.c`, `arch/x86/sched_entry.asm`) | `g_procs[16]`, `g_current`, `g_next_pid`, one stack per task | `sched_irq` from IRQ0, `proc_create`, `proc_exit`, `proc_sleep`, `proc_wake`, `proc_kill` | IRQ0 preempts everything between two instructions | one RUNNING slot, the CPU runs the thread the table describes, only ready tasks are dispatched, none starves |
| **boot sequence and threads** (`kernel/core/kernel.c`) | the boot thread, idle, gde-session | `kernel_main` | what is created before and after `sti` | see process manager and PDFS |
| **kernel heap** (`kernel/mm/kheap.c`) | list of block headers tiling a fixed pool | `kmalloc`, `kfree` | splits and merges; errors show many calls later | blocks tile the pool, allocations are disjoint, free neighbours are merged |
| **PDFS** (`kernel/fs/pdfs.c`) | superblock on disk and in memory, directory chains, file runs | format, mount, mkdir, create, write, unlink, chmod, chown; boot scaffold, `factreset` | power loss or a write error between any two sector writes | sectors have one owner, files show only their own data, calls disturb only what they name |
| **ATA and USB storage** (`drivers/ata.c`, `drivers/usb.c`) | address, endpoints, toggles and tag of the one USB disk; which disk is used | scan and enumeration, sector read and write | lost transfers, stalls and late answers; other devices on the bus | the disk in use keeps its own address, what USB reports written is on the medium |
| **users and sessions** (`core/users.c`, `core/login.c`, shell) | `user_table[16]`, `g_session_user`, `g_elevated`, `/usr/<uid>.pduc` | add, remove, change password, load, save, login, `admin` | pointers into a table that shifts; memory and disk disagree | the session stays the user who logged in; removed users stay removed |
| **TCP client** (`net/tcp.c`, `net/http.c`, `net/net.c`) | one connection per socket, receive ring, saved segment | connect, send, receive, close, timer | loss, duplication, reordering; polling from inside a send | the peer's bytes arrive once, in order; calls end |
| **IP, ARP, UDP, DNS** (`net/`) | ARP table, UDP ring, DNS cache | resolve, send, receive | retries and late answers | an answer belongs to its question |
| **RTL8139 driver** (`drivers/rtl8139.c`) | card ring, queue of packets, four transmit descriptors | ISR, send, receive | ISR against reader; a frame across the end of the ring | no frame is repeated or put out of order, and only one that crosses the end of the ring is torn |
| **input** (`drivers/keyboard.c`, `drivers/mouse.c`) | key ring, mouse packet phase, button latch | IRQ1, IRQ12, readers | interrupts between reading and clearing | a press is lost only between the reading and the clearing of its latch |
| **physical memory** (`mm/pmm.c`, `mm/e820.c`, `mm/paging.c`) | frame bitmap, counters | init; alloc and free have no caller | - | - |
| **VFS** (`fs/vfs.c`) | mount table, open node | mount, open, read, write | longest prefix | a path reaches one volume |
| **FAT32, ext2, NTFS** (`fs/`) | allocation table, bitmaps, inodes, directories | open, read; FAT32 and ext2 create, write, unlink | full volumes and errors in the middle of a write | a cluster or block has one owner, chains end, a command changes only what it names |
| **window manager** (`gde/wm.c`) | window pool, z-order, focus | create, close, focus, minimise, maximise | the three must agree | the focused window is the one keys go to |
| **graphical desktop** (`gde/desktop.c`, `taskbar.c`, `gde_main.c`) | drag, menus, icons, display settings | one round of the loop: keys, mouse, present | a drag that lasts while windows come and go | a window can be reached again, a press comes to the code for clicks unless a drag or the context menu takes the round |
| **desktop programs** (`gde/explorer.c`, `text_editor.c`, `terminal.c`) | sidebar tree and file pane; text, line index and cursor | keys and clicks, open, save | files that change behind the window; index, cursor and text in step | the sidebar is a tree, an edit happens at the cursor |
| **installer** (`core/install.c`) | wizard page, copy cursor | copy sectors | failing copies, power failure | what is called installed is the image, but for sectors the drive lost unseen |
| **external desktop loader** (`core/de_loader.c`) | - | load and jump | - | - |
| **interrupt tables, PIC, PIT, panic, VGA, PCI, io** | device registers | I/O | - | - |
| **bootloader, build scripts, SDK** | - | - | - | - |

How they interact: IRQ0 (`Sched!Tick`) preempts every other component; task
stacks come from the heap; the boot thread mounts or formats the PDFS volume,
loads the user table from it, and then becomes the shell (text build) or falls
asleep after creating the `gde-session` task (graphical build); the shell calls
PDFS through the VFS switch, `proc_kill`, the user table and the network; the
network is polled by the thread that waits for it; keyboard and mouse interrupts
feed rings that the shell or the desktop empties.  The desktop is one thread: its
loop empties the key ring, hands mouse events to windows, and calls the programs
in them, which call the filesystem.

`PROJECT.json` lists every component with its status, and under "hazards" the
places where the code is hard to test, each with the properties that watch it
or the reason why none does yet.

## 2. The modules

| Module | What it is |
|---|---|
| `Processor` | abstract specification: one CPU that only runs ready tasks; a finished task never returns |
| `Sched` | process manager, IRQ0 entry and the threads `kernel_main` starts; the refinement mapping to `Processor` |
| `MCSched` | environments of both builds, a history variable for the order of dispatches |
| `KHeap` | kernel heap |
| `MCKHeap` | its instance for TLC |
| `Kernel_proofs` | theorems about `Sched`, that it implements `Processor` among them, about `KHeap` and about the FAT32 volume of `Volumes` |
| `Pdfs` | PDFS volume, the boot code that mounts or formats it, `factreset`, the disk |
| `MCPdfs`, `Pdfs_proofs` | its instance for TLC, its theorems |
| `Users` | user table, credential files, login loop, account commands |
| `MCUsers`, `Users_proofs` | its instance for TLC, its theorems |
| `Tcp` | TCP client, the HTTP request on top of it, the poll loop, ARP and NIC queue below it |
| `MCTcp`, `Tcp_proofs` | its instance for TLC, its theorems |
| `Fat32`, `Ext2` | the two drivers as operators on a volume |
| `Volumes` | both under the mount table and the shell commands |
| `MCVolumes` | its instance for TLC |
| `Windows` | the window manager as operators on its state |
| `Desktop` | the desktop loop, keyboard and mouse interrupts, on top of `Windows` |
| `MCDesktop`, `Desktop_proofs` | its instance for TLC, with a history variable for presses, theorems about `Windows`, `Desktop` and the `Explorer` of `Apps` |
| `Text` | abstract specification: a text and a caret |
| `Editor`, `Explorer` | the two programs as operators on their states |
| `Apps` | both over one file system that commands change; the refinement of `Text` |
| `MCApps` | its instance for TLC, a history variable for the last key |
| `Usb` | EHCI and mass-storage driver, and the devices on the bus |
| `Install` | ATA drives, boot-time and shell installer, on top of `Usb` |
| `MCInstall`, `Install_proofs` | its instance for TLC, theorems about `Usb` and `Install` |
| `Nic` | receive side of the network card driver |
| `Names` | resolver, UDP queue and ARP table on top of `Nic` |
| `MCNames`, `Names_proofs` | its instance for TLC, theorems about `Nic` and `Names` |
| `DataLemmas` | lemmas about sequences and numbers that the proofs share |

Drivers and programs that only one thread calls are written as operators that
take a state and return the next (`Fat32`, `Ext2`, `Windows`, `Editor`, `Explorer`);
the module that composes them owns the variables and says when they are called.

### Sched: process.c and sched_entry.asm

A thread is named by the stack it runs on: context 0 is the boot thread and
context k the thread on the k-th stack `proc_create` got from `kmalloc`.  `state`,
`pid`, `ticks_rem`, `stack_base` and `saved_esp` are the fields of the PCBs, `cpu`
is the context whose instructions the processor really executes.  Keeping `cpu`
apart from `g_current` is what makes the model able to say that the kernel's
idea of who runs can be wrong.

* `Tick` is IRQ0: it saves the interrupted ESP in the slot of `g_current`,
  counts the quantum, searches the table (`Picked`) and returns the new ESP.  The
  gate clears IF, so it is atomic.  `Picked` is the loop as written, with its
  outcome when no slot qualifies.
* `proc_create` is cut where a tick can see the difference: after the search
  and the `kmalloc` (`CreateBegin`), after the pid (`CreatePid`), after
  `state = RUNNABLE` (`CreateState`), after `saved_esp` (`CreateFrame`).
* `ProcSleep`, `ProcExit`, `ProcKill` and `ProcWake` each store one word, so each
  is one step.  `proc_kill` tests the slot with interrupts on before it stores
  (process.c:248-250): a task that falls asleep or exits between the two ends up dead all
  the same, which the model has only as a kill before or after.  `proc_wake` is meant
  for interrupt handlers and has no caller yet.  The first two act on `g_current`, as the
  code does, and not on the thread
  that makes the call.
* `Calls` says which calls the code on each stack makes: in the text build the boot
  thread is the shell and kills tasks, in the graphical build it only sleeps.

### KHeap: kheap.c

Headers live at word addresses; `size`, `free`, `next` are their fields, kept as
functions of the address because a swallowed header's memory is not cleared.
One loop iteration is one step: `SearchNext`, `Take` (with `Split` or
`TakeWhole`), `SearchFail` for `kmalloc`; `Merge`, `Pass`, `CoalesceDone` for `kfree`.
`asked` is a ghost: what each caller asked for and still owns.

### Pdfs: pdfs.c, kernel.c, the storage drivers

`disk` maps sectors to what they hold (superblock, directory sector, file sector,
anything else), `g_sb`, `g_base_lba`, `g_mounted` are the driver's memory.  A call
reads, decides, and then makes its sector writes one by one: the action of
a call (`Mkdir`, `WriteFile`, ...) puts the writes in `todo` in the order of the
code, and each `WriteOk` or `WriteError` performs one.  This is exact because
nothing in the code reads between two of its writes something another call could
have changed: one thread uses the filesystem.  `Crash` may come between any two
writes.  Boot is `Mount`, then either the scaffold or format, scaffold, `Remount`.
`factreset` formats another LBA, as the code does.

Names, contents and modes are small sets: a mode is the set of the bits the
modelled calls consult, a file's content a sequence of one value per sector that
remembers for which path it was written.

### Users: users.c, login.c, shell.c

`user_table` is a sequence because the code keeps the entries packed;
`g_session_user` is a slot, because the code keeps a pointer.  Passwords are named
by their hash.  `adduser` goes through home directory, creation of the credential
file, writing of the file (`pc` = home, create, write), `changerpass` and `changempass`
through the last two; each can fail, and `Boot` (power loss or the `reboot` command)
can come between any two.  `Booted(usr)` takes the files of `/usr` in directory order
and adds them to the built-in accounts, as `users_init` and `users_load_from_disk` do.  The history
variables `who`, `opened`, `removed`, `left`, `unsaved` say what the properties compare
with.  `deluser` of an account that exists in memory leaves its file alone, as the
code does.  Only the text build is modelled; the desktop's greeter reads the
table and changes nothing.

### Tcp: tcp.c, http.c, net.c, arp.c, ip.c, rtl8139.c

Every call waits by polling, so `pc` is the loop the thread is in: `arp_resolve`,
`tcp_connect`, `tcp_send`, `tcp_recv` inside `http_request`, `tcp_close`.  `PollFrame` is one frame
of the `while` in `net_poll` (the interrupt handler may queue another between two);
when the queue is empty the step that ends the poll runs `tcp_tick` and the tests
of the loop (`Connecting`, `Sending`, ...).  `due` says whether the retransmission time
has come, `late` whether the loop's deadline has passed.  `tcp_recv_pkt` is an operator
that returns the new connection and the segments it sends.  The server and the
network are external: the server follows the protocol, may refuse or abort, and
puts its whole answer on the wire at once, cut at arbitrary places; `wire` only
grows, and a frame on it may arrive at any time, again, or never.  `Stale` is what an
earlier connection may have left.  One thread makes the calls, so there is one
connection and it is in slot 0; `TCP_LAST_ACK` is never entered by the code.
No command of the kernel calls `http_get` yet: the stack is the library the
package manager of `PD-OS-plan.md` is to use.

### Fat32, Ext2, Volumes: fat32.c, ext2.c, vfs.c, shell.c

A FAT volume is its table and the slots of its root directory, an ext2 volume its
two bitmaps, inodes, indirect blocks and directory records; each driver function
is an operator that returns the volume and the result, with every error return
of the code.  A command (`write`, `delete`, `copy`, `move`) strings the calls together
as `shell.c` does, open or create, then write.  One thread gives commands, so a
command is one step.  An I/O error may strike any data cluster of a FAT write
(`Cuts`).  `spoilt` marks the volumes on which such a failure, or a write over a
directory, may have left damage: there the properties claim nothing more, and
section 6 says what the damage is.

### Windows, Desktop: wm.c, desktop.c, taskbar.c, gde_main.c, keyboard.c, mouse.c

The thread goes through `keys`, the reads (`x`, `y`, `buttons`, `latch`), `handle` and
`present` again and again (`Loop`);
`mouse_handler` and `keyboard_handler` are the interrupts, which may come between any
two of its steps: position, buttons and latch are read in four steps (`ReadX`, `ReadY`,
`ReadButtons`, `ReadLatch`), and the latch is cleared in the next.  `MCDesktop` adds the history
variable `acted`, the buttons whose last press has come to the code for clicks.
`desktop_handle_mouse` tries the targets of a click in the order of the code:
context menu, task bar, start menu, icons, windows.  The screen is a grid whose
cell has the height of a title bar.  A drag keeps an index into the z-order across
rounds, as the code does.

### Text, Editor, Explorer, Apps: text_editor.c, explorer.c

The editor is the buffer, the index of line starts and the cursor as line and
column; `te_insert`, `te_backspace` and `Moved` change them as written.  The Explorer's
sidebar is a flat sequence of nodes with depths, its pane the entries that were
there when it was loaded.  `Terminal` steps change the files behind both.  `Apps`
maps the editor to `Text`: the caret is the offset of the cursor.  Key codes are
those the code tests for, which are not all those the keyboard delivers
(section 6).

### Usb, Install: usb.c, ata.c, install.c, kernel.c

`Usb` is the scan of the ports (`scan`), the enumeration of a device and the three
phases of a command (`stage`).  A device is what the protocol says it is: it has its
own toggles and its own phase, may stall, answer late, or have its handshake lost
after it acted.  `Install` adds the ATA drives, which are chosen when there is no USB
disk, the wizard that `kernel_main` runs, and the one of `install.c`; a USB sector is one
command, and any may fail.  An ATA call writes its sectors in order.  The driver sees an
error of one when it wants to send the next, and after the last it only waits until
the drive is no longer busy (ata.c:425): `ata_write_sectors_raw` returns 0 with all
sectors written or all but the last, and the ghost `unseen` holds the sectors lost like
that in an installation.  `PowerCycle` may come at every step.  A USB packet that the
device sent and saw acknowledged may still be reported as an error to the driver
(`bulk_in`).

### Nic, Names: rtl8139.c, dns.c, udp.c, ip.c, arp.c, net.c

The ring counts units: the card's header, which is never split because frames begin
at multiples of four, and one unit of content or, for a long frame, two.  The card is
programmed with WRAP (rtl8139.c:292), so it writes a frame that reaches the end of the
ring on into the memory behind it (`Arrive`), while `ring_copy` takes what is past the
end from the start.  Such a frame, short or long, arrives torn, also with nothing of its
own in it.  No checksum is verified, so `net_poll` takes a torn packet for anything: an
ARP frame of any host, an answer with any number and any address, or nothing (`Garbled`).
The handler copies into the packet queue, the reader out of it (`RecvCopy`, `RecvFree`), and either may run between two steps of the other.
The resolver waits in `arp_resolve` or in `udp_recv` and polls.  The network loses,
repeats and reorders; answers to older queries stay in it.  `Cut` is what
`dns_strcpy` does to a name in the cache: it keeps 63 characters.  The ghosts `sound` and the
`of` and `whole` of a cache entry remember whether an address came from a whole datagram
and for which name.

## 3. What the runs check

Deadlock is checked except where the system may stop (`CHECK_DEADLOCK FALSE`: the
bounds on calls are spent, or the machine has halted).

| Run | Bounds | What it shows |
|---|---|---|
| `sched_text` | 5 slots, quantum 2, 3 stacks, at most 4 tasks before `sti` | `OneRunning`; `OwnStack` (the CPU executes the thread `g_current` describes); `DispatchRunnable`; `NoOvertaking` (nobody is dispatched twice while another waits); `RunnableRuns`; `DeadStops`; `ImplementsProcessor` |
| `sched_gde` | 4 slots, quantum 3, 2 stacks | `DispatchIfAny` with a task created with interrupts on |
| `kheap` | pool of 12 words, header 2, sizes modulo 64, requests 1, 8, 13, 40 | `Tiling`, `AllocationsDisjoint`, `Coalesced`, `FailsOnlyWhenFull`, `CallsReturn` |
| `pdfs` | 8 sectors of volume, one directory slot per sector, two calls, one failing write, one crash | `NoSharing`, `UniqueNames`, `NoForeignData`, `OnlyNamedPathChanges`, `WrittenIsDurable`, `AllocatorMonotonic` |
| `users` | 5 slots, three more names, three commands, one failing disk operation, two boots, two login attempts | `AccountsDistinct`, `RebootRestores`, `SessionFresh`, `OwnsHome` |
| `tcp` | 3-byte answer, ring of 2, two pieces at most, 5 frames, one retransmission, numbers modulo 8 from 3 and from 6 | `StreamPrefix`, `AckedIsReceived`, `Resendable`, `CallsReturn` (with the slot released) |
| `volumes` | 4 clusters, 3 directory slots; 7 blocks, 4 inodes, one direct pointer; six paths, contents of 0, 2 and 4 sectors; 3 to 5 commands, one I/O error | `FatConsistent` and `ExtConsistent` (one owner for every cluster, block and inode, one entry for every name, every cluster chain ends), `OthersUntouched` |
| `desktop` | 2 windows, two resolutions, 5 interrupts, one per round and a release | `FocusSound`, `TitleBarReachable`, `PressActedOn` (a press comes to the code for clicks, unless a drag or the context menu is on or it falls between reading and clearing the latch) |
| `drives` | four populations of the bus, up to two ATA drives, 5 sectors, 4 commands per power-up, one power failure | `DiskAddressed`, `CompletedIsOnMedium`, `InstalledIsImage` (but for sectors lost unseen) |
| `names` | two names, one cut to the other by the cache, two hosts and what garbled ARP frames name, ARP table of 2, card ring of 5 units, queues of 3 slots, cache of 1, two queries, 4 frames | `QueueOrdered` (only frames across the ring end are torn), `ResolveRight` |
| `names_ring` | as `names` | `QueueFaithful` fails, section 6 |
| `apps` | three directories and a file, sidebar of 4 nodes, buffer of 5 bytes, window of 2 lines, 5 events | `TreeSound`, `EditsText` (the editor implements `Text`) |

Why the bounds are enough to be interesting:

* *Sched.*  Five slots leave an unused one next to the boot thread, idle and two
  tasks, so the search wraps and passes sleeping, dead and unused slots.  All tasks
  are created at boot, so no slot is used twice.  Three stacks are fewer than the
  four tasks, so the heap runs out; a quantum of two
  separates "counts down" from "switches".
* *KHeap.*  Twelve words hold up to four minimal blocks, enough for a free block
  between two used ones, for both merges, and for a remainder too small to
  split.  40 words never fit, and sizes wrap at 64 where the code's 32 bits do.
* *Pdfs.*  With one slot per directory sector every second entry extends a chain,
  which is the longest write sequence in the code; eight sectors let the volume
  fill up.  One crash is enough because a second one meets a state the first
  could have left.
* *Users.*  Four usable slots, two taken by the built-in accounts: the third
  name meets a full table; removal, re-adding and a boot from leftover files all
  fit in three commands and two boots.
* *Tcp.*  A ring of two overflows on a three-byte answer; five frames cover the
  handshake and every loss, repetition or reordering of two more; from 6 the
  numbers wrap in the middle of the request.
* *Volumes.*  Four sectors fill the FAT volume; on ext2 a four-block file needs an
  indirect block that does not always fit, so that a write stops at each of its
  allocations.  Two FAT names share one 8.3 name.
* *Desktop.*  Five interrupts are a press, a drag over two positions with a key that opens a
  window between them, and the release; or two clicks with a move between them, which
  reach the last item of the start menu.  The release may come in the round of its press,
  so that only the latch has seen the click (`SecondIsRelease`).
* *Drives.*  Buses with a keyboard, a slow device, another storage device or a hub
  before and after the disk, and with a disk on each of two controllers; four tags
  let an answer be late by more than one command.
* *Names.*  A table of two evicts when a garbled frame names a third host, a ring of five
  units is crossed by the second long or the third short frame, a cache of one evicts
  with two names, and one name is what the cache makes of the other.
* *Apps.*  The sidebar is full when the three directories are shown, and does not
  take a fourth; a buffer of five bytes holds four, which fills it and gives up to
  three lines in a window of two, so that it scrolls.  Five events make a
  directory, expand two levels and collapse the upper one.

Every property of a passing run has at least one mutant of the code that breaks
it: an operator `Mutant_X` stands before `X` in the module and differs from it as a
plausible bug would (a dropped guard, a swapped order, a lost update).

## 4. Fairness and assumptions

* `Sched`: weak fairness of `Tick` (the PIT keeps interrupting) and of the boot
  thread's own steps.  None for the calls tasks make: a task may do nothing.
* `KHeap`: weak fairness of the steps of a call (a loop that can go on goes on).
* `Tcp`: weak fairness of `PollFrame` and of a poll whose deadline has passed: the
  thread runs and time goes by.  None for the network and the server.
* `Desktop`: weak fairness of `Loop`: the desktop thread is scheduled and none of its
  rounds waits for ever: the timer ends its `hlt`.  None for the interrupts.  A press is
  acted on without any further event because the thread gets on, not because another
  interrupt comes.
* `Pdfs`, `Users`, `Volumes`, `Install`, `Names`, `Apps`: none; they have no liveness
  properties.

Assumed, besides the `ASSUME`s on the constants (`SchedAssumption`,
`HeapAssumption`, `PdfsAssumption`, `UsersAssumption`, `TcpAssumption`, `WindowsAssumption`, `DesktopAssumption`,
`ExplorerAssumption`, `UsbAssumption`, `InstallAssumption`, `NicAssumption`, `NamesAssumption`,
`FatAssumption`, `ExtAssumption`, `VolumesAssumption`):

* `VolumesAssumption`: every path begins with "/", as the shell makes it; `ExtAssumption`: the
  ext2 volume has the two blocks and inodes mkfs takes;
* `UsbAssumption`: sectors are numbered, a port is empty or holds a device with its two
  endpoints (of which 0 stands for none), and a disk has contents for all its sectors;
* `ExplorerAssumption`: the sidebar has room for the root, and no directory has two
  entries of one name (`Volumes` and `Pdfs` check that of the file systems);
* `DesktopAssumption`: a window opens with some of its title bar on the screen.  The
  desktop opens them at (160,100), (100,50), (80,60), (312,224) and (242,124), on screens
  of 640x480 and more;
* `TcpAssumption`: an answer fits into the receive ring and, with the few numbers the
  client uses, into the sequence space (4096 bytes and 2^32 in the code);
* `PdfsAssumption`: the volume begins behind the first sector and its superblock,
  journal sector and root directory are on the disk; no name is empty; the scaffold
  makes directories, sets modes and creates files;
* the theorems about `Pdfs` add three hypotheses, section 5: the disk is blank at first,
  no save of the superblock fails, and nobody calls `factreset` (`NotReset`);
* `FewCalls` (only the theorems about `Users`, section 5): fewer account commands are
  given than there are uids;
* `FewQueries` (only the theorem `ResolvesRight`): at most as many queries are sent as there
  are transaction numbers, 65536;
* one heap call at a time: after boot only one thread that allocates is awake;
* one thread uses the filesystem, the user table and the network;
* a sector write happens completely or not at all; reads do not fail;
* in run `pdfs` the disk is blank at first, and the writes that fail are not
  those of the superblock and not those inside `factreset`: what happens then is
  shown by `PdfsFlush.cfg` and `PdfsUpgrade.cfg`, section 6.  After a format that failed no
  calls are modelled;
* the clock is abstract in `Tcp`: a retransmission or a deadline may come at any
  poll, which allows more than the real times do;
* in `Tcp`, the gateway stays in the ARP table once it is there (it is evicted only
  when 17 hosts have been heard of; `Names` does evict);
* `Tcp` takes frames whole: that one which crosses the end of the card's ring is torn is
  in `Nic` and `Names` only, and would break what `Tcp` says of the bytes;
* what an ATA write reports is looked into only in the installers: `Pdfs` and `Volumes` take a write
  that returns 0 for done, and the sector writes `ata_write_sectors` of module `Install` may
  stop short, reported or not;
* in run `drives` no device behind the disk on the bus overwrites its endpoints with
  others: what happens then is `DrivesReach.cfg`, section 6;
* in run `volumes` the ext2 volume does not begin inside the FAT volume: that it
  does is `VolumesLayout.cfg`, section 6;
* in `Apps` the line index (1024 lines) is not full, and texts have no carriage
  returns.

## 5. What is proved

TLAPS checks the theorems of `Kernel_proofs`, `Pdfs_proofs`, `Desktop_proofs`,
`Tcp_proofs`, `Users_proofs`, `Names_proofs` and `Install_proofs` for every value of the constants that
satisfies the module's assumption: every table size, quantum and number of stacks; every pool,
header and request size; every volume, tree, scaffold and number of faults and crashes;
every number of windows and every screen; every size of the sidebar and every file system
it shows; every sequence
space, ISN and answer; every set of names and passwords and every number of crashes;
every size of ring, queue, table and cache; every population of the USB ports, every
size of the areas the installers copy, any transfers and sectors that fail.

**Sched, text build.**  `TextTypeOK`, `TextOneRunning`, `TextOwnStack`,
`TextDispatchRunnable`, `TextDispatchOwnFrame` and `TextImplementsProcessor` hold under
`TextBuild`: the text build, where every task is created before `sti` and the boot
thread becomes the shell, which never sleeps.  The inductive invariant is

    Inv == TypeOK /\ OneRunning /\ OwnStack /\ cpu \in Contexts
           /\ BootInv /\ CreateInv /\ FrameInv

`OneRunning` alone is not inductive: that a tick demotes the right slot needs
`OwnStack` (what executes is what `g_current` says); `OwnStack` after a switch needs
`FrameInv` (the saved ESP of a slot lies on that slot's stack), and `FrameInv` needs
`CreateInv` (how far `proc_create` has got with the slot it fills).  `BootInv` says
that the boot thread is never asleep or dead, so that the search always finds
a runnable slot; that is exactly what the graphical build lacks (section 6).

`TextImplementsProcessor` is the refinement of `Processor`.  The phase of a context is
read off the slot that has its stack, so it must be one slot: `StackInv` says that
stacks are not shared, that a slot in use has one, and that no slot is dead while
`proc_create` fills the table (it would give the dead slot's context away; in the
text build all tasks are made before anything can die).  `OneMoves` and `SamePhases`
then turn a change of the table into a change of phases, and each action into an
abstract step: `CreateFrame` is `Admit`, `SwitchTo` is `Dispatch`, `ProcSleep` is `Block`,
`ProcExit` and `ProcKill` are `Finish`, `ProcWake` is `Wake`; everything else stutters.

**Sched, either build.**  `AnyDispatchIfAny` needs no hypothesis about the build: while
some task can run the timer dispatches a RUNNABLE one.  `AnyInv` is `TypeOK`,
`OneRunning`, and that `proc_create` has found its slot.  `AlwaysNoOvertaking` adds
`BehindInv`: the slots dispatched while `s` waits are no nearer to `s`, going forward in
the circular table, than the current slot.  The search stops at `s` at the latest
(`PicksNearer`), so each switch takes a slot strictly nearer than all of them.  The
history `since` is that of `MCSched`, so the theorem is about the formula the run checks.

**KHeap.**  `HeapTypes`, `HeapTiling`, `HeapAllocationsDisjoint`, `HeapCoalesced`,
`HeapAllFreedRestores` and `HeapFailsOnlyWhenFull`.  The inductive invariant is

    HeapInv == HeapTypeOK /\ Tiling /\ OwnerInv /\ SearchInv /\ CoalesceInv

`Tiling` is kept by a split because of the remainder test and by a merge because
neighbours on the list are neighbours in memory.  `AllocationsDisjoint` follows
from `OwnerInv` (who was given which block, and that it is large enough).
`FailsOnlyWhenFull` needs `SearchInv` (every block behind the cursor was too small or
taken) and `Coalesced` needs `CoalesceInv` (everything behind the cursor is merged).

**Pdfs.**  `SectorsAreNeverShared`, `NamesAreUnique`, `FilesShowTheirOwn`,
`AllocatorMovesForward`, `CallsKeepToTheirPath` and `WritesAreDurable`, for any calls, each cut short anywhere by a crash or by a
failing write, on a disk of any size.  They hold under

    "sb" \notin FaultIn,  ~OldVolume,  and  []NotReset

that is, no save of the superblock fails (`flush_sb` would not notice: `PdfsFlush.cfg`), the
disk was blank and not an old volume (`PdfsUpgrade.cfg`), and `factreset` is not called: it
puts another volume on the disk below this one, which grows into it, or leaves the wrong
superblock in memory when it is refused (section 6).  The invariant `PInv` says

* of the disk: it is blank, or it is `Good`.  `Good(d)` is that there are an owner for every
  sector that the allocator gave out (`own`), a path for every directory (`at`) and a set
  of directory sectors (S) such that links stay within a directory, every entry describes
  sectors that are its own, all below the allocator's pointer, the data of a file bears its
  path, and names are unique (`Volume`).  These are ghosts, quantified in the invariant and
  absent from the model.  A sector whose owner gave it up keeps it as owner: PDFS
  never reuses one;
* of a call: the writes it has left are a `Plan` for the disk.  A call chooses its writes before
  the first of them, so that `Good` alone is not inductive: nothing in a single state says
  that the second write is as harmless as the first.  `Plan(d, ws, cl)` is that there is a set of
  disks, each with the writes left, that has d with ws, is closed under making the next write, and
  whose disks are all `Good`.  Each of the writes `Does` what call cl may do: unless cl formats,
  a boot makes the same as before of every path but cl's (`Looks`, which is
  `OnlyNamedPathChanges`), and the last write of a `pdfs_write` leaves its file
  there whole (`Shown`, which is `WrittenIsDurable`);
* of the memory: while a volume is mounted, `g_sb` is the superblock on the disk.

The work is in one lemma per call, `MkdirPlan`, `CreatePlan`, `FilePlan`, `UnlinkPlan`, `ModePlan`,
`OwnerPlan` and `FormatPlan`, which go through its writes, on `AddPlan` for a directory that
has a free slot or must be extended.  They rest on what a single write does to a volume
(`VolFlush`, `VolOther`, `VolData`, `VolEntry`, `VolLink`), and to what paths show of it
(`FlushStays`, `SectorStays`, `LinkStays`, `EntryStays`): `path_resolve` reads one slot of each
directory it comes through, so that `ResolveStays` compares its walks before and after
the write name by name, and only the walk of the call's path may meet the slot that
changed.  The steps that write, fail or crash
then only walk along a plan.  That `chain_find` and `path_resolve` find what is there (`FindIs`,
`ResolveIs`) is by induction over the steps of their recursive functions, which first
have to be shown to exist (`TrailDef`, `ResolveDef`).

**Desktop and Windows.**  `FocusIsSound` and `TitleBarStaysReachable`, for any interleaving
of the two interrupts with the desktop loop.  The inductive invariant is

    Inv == Sound(wm) /\ Placed(wm, scr) /\ CtxSound /\ DragSound /\ ModesSound /\ MouseSound

`FocusSound` alone does not survive a step: a drag keeps an index into the z-order from
one round of the loop to the next (`DragSound`: it still names a window that can be
moved), and the context menu and a change of resolution act on windows found earlier.
`Sound` and `Placed` are first shown for each operation of the window manager
(`Windows`), then for each target of a click.

**Explorer and Apps.**  `AlwaysTreeSound` (`TreeSound`), whatever is expanded, collapsed,
selected and entered while a terminal makes and deletes directories.  The inductive
invariant of the window is

    ExplorerInv(e) == Fields(e) /\ Sidebar(e.tree) /\ Len(e.tree) <= TREE_MAX
                      /\ e.tree_sel \in 1..Len(e.tree)

`TreeSound` is not inductive.  Collapsing takes out what lies behind a node and is deeper,
which are its descendants only if depths are the lengths of paths: `Sidebar` says so, and
that the first node is the root.  That no node comes twice when a node is expanded rests on
the parents: a child that were there already would have a parent that counts as
expanded, but the code expands only a node that does not.  Nothing is needed of the
files: an entry that is gone stays in the sidebar, as in the code.

**Tcp.**  `ResendableHolds`, `AckedWasReceived`, `StreamIsPrefix` and `TypeCorrect`, for any
loss, repetition and reordering and any number of requests.  The inductive invariant is

    Inv == TypeInv /\ ConnInv /\ SentInv /\ ServerInv /\ FrameInv /\ StreamInv

Sequence numbers wrap, so the invariant speaks of their distance from the initial
ones: `ConnInv` says how far the client has got and that what is unacknowledged is the
saved segment, `SentInv` that every segment on its way carries numbers already used,
`ServerInv` that the server has received no more than that, `FrameInv` that any frame
that may still arrive, late ones included, acknowledges no more than the server has,
and `StreamInv` that the bytes taken and the bytes in the ring are a prefix of the answer
that ends where `rcv_nxt` says.  None of them is inductive without the others.

**Users.**  `AccountsStayDistinct`, `SessionStaysFresh`, `OwnsItsHome`, `RebootRestoresAll` and
`TypeCorrect`, for a boot after any step of any command and any faults.  They hold under

    FewCalls == MaxCalls \in Nat /\ MaxCalls + 1 < UIDS

because `users_add` numbers accounts in eight bits and the uid after 255 is 0, root's: a
long-lived system would violate `AccountsDistinct`.  The inductive invariant is

    Inv == TableInv /\ CommandInv /\ SessionInv
           /\ Accounted(user_table, usr, home, removed, left, Settled)

`Accounted` relates the table to `/usr` and to the home directories: every settled
account (never removed, saved, and not the one being saved now) has its file, every file of
an account that was not removed has its account, and the built-in accounts have
the passwords the files give them.  What a boot makes of the files is a recursive
function of their number; `Loads(t, u, k)` says what its value t is after k files, and
`BootedIs` proves it for every k.  The library's induction theorems cannot be
instantiated here, so `DataLemmas` has induction over a set (`Induction`): a set that
contains 0 and with each number its successor contains all of them.
`RebootRestores` follows because two tables that agree with the same files have the
same settled accounts (`SavedAgree`), and the table in memory is one and the one
a boot would build the other.

**Nic and Names.**  `QueueIsOrdered` says what holds of the card as it is programmed: no
frame is repeated or put out of order, and every frame but those that went past the end
of the ring is in the queue as it was on the wire.  The inductive invariant is

    IInv == NicInv /\ NetType

`NicInv` says that the units between `g_rx_offset` and the card's own position are exactly
the frames not yet read, end to end (`RingHolds`), of one that crossed only the header,
that the slots from head to tail are of frames read before, in order, and copies of
those that did not cross (`QueueHolds`), and that the frame being taken is still
the one at the head.  `RingGrows` and `RingShrinks` are the card's step and the driver's;
`TurnTurn`, `TurnApart` and `GapOf` are the arithmetic of going round a ring that both,
and the queue, rest on.

`ResolvesRight` needs `FewQueries`: `g_dns_txid` has sixteen bits, and an
answer that is 65536 queries late would be taken for one to another name (TLC finds it
with `MaxQueries = TXIDS + 1`).  Its invariant is `IInv /\ ResolveInv`, where

    ResolveInv == FramesGenuine /\ NumbersFresh /\ CacheSound /\ ResolveRight

says that whatever is on the wire, or whole in the queue of datagrams, is ARP or was
answered by the server, that the answers with the number of the query in progress are
about its name, and that the cache has the right address where it was stored from a whole
datagram under the name it was for.  `ResolveRight` says nothing of an address that a
torn packet gave, or an entry under a cut name: those may be wrong (section 6).

**Usb and Install.**  `AlwaysDiskAddressed`, `AlwaysOnMedium` and `AlwaysInstalled` need no
hypothesis beyond the assumptions on the constants; in particular they hold on buses
where another device overwrites the endpoints of the disk (section 6): I/O fails there, but
no USB command is reported done that was not.  The inductive invariant, `Invariance`, is

    Inv    == UsbInv /\ Control /\ Unwritten /\ Copied /\ Chunks
    UsbInv == Types /\ Driver /\ Known /\ Written /\ GotIt /\ Enumerated /\ CompletedIsOnMedium

After a failed transfer the driver goes on without a reset, so host and device may
disagree on both toggles and on the command under way, and stay so.  Nothing can be said
of a device in general; what is kept is about the one status the driver will accept:

* `Known`: a device only holds commands already given, none of them with the tag of the
  command in progress before that was sent, and only that one afterwards.  Tags are never
  repeated, so a status with the right tag is about the right command;
* `Written`: a device that will report success for the write in progress has written;
* `GotIt`: if the next packet that the driver's toggle lets through can be a good status
  for the read in progress, the driver has the sector already.  A driver that took a
  packet for the data has moved its toggle, and a device that still has its data to
  send is one behind: the driver will discard the repeat.  This is why a lost handshake
  does not make the driver take a stale buffer for the sector;
* `Enumerated`: devices of one controller have addresses of their own, below `next_addr`
  during the scan, and the disk that was kept still answers at the address kept, which
  is what `enumerate_device` must restore after each device behind it.

`Control` says which command may be under way at each place of the kernel thread.
`Unwritten` is what makes the boot wizard's copy true to a medium that is read one sector
at a time: until the wizard is over no write is on its way to any device, a delayed one
left from an earlier command included.  `Copied` and `Chunks` say how far the two copies
have got, the sectors in `unseen` aside: `AlwaysInstalled` does not say that a finished
installation is complete, which is not so (section 6), but that only a sector which
ended an ATA call can be missing.
TLC has checked each part of the invariant on the constants of run `drives`.

**Volumes.**  `AlwaysFatConsistent`, of which `AlwaysChainsEnd` is the part that survives I/O errors, holds for FAT volumes of every size,
under every mount table, for every set of paths and contents, any number of commands and
any number of I/O errors.  The inductive invariant is

    VolumesInv == mounts \in MountTables /\ FatSound(fat) /\ ExtTyped(ext)
                  /\ ("fat" \notin spoilt => Owned(fat))

* `FatSound` holds whatever fails.  Its part `NoLoop` says that every cluster can be given a
  height above that of the one its entry names.  `fat_alloc` takes a free cluster and
  marks it as an end, so it may get height 0 and all others move up by one, even if
  entries that an I/O error left behind lead to it already (`LinkedNoLoop`).  From heights
  it follows that a walk of `NCLUS` steps has left the clusters (`NoLoopEnds`, by the
  pigeon-hole principle).  Its part `Listed`, that no file lies behind the end of the
  directory and no two have one name, is what makes `fat32_create` right although it stops
  at the first free slot: the shell has looked the name up over the whole directory;
* `Owned` gives every cluster an owner, a slot of the directory or none, so that the owner
  of a marked cluster is that of the next one, and a file owns its first cluster.  A write
  takes the clusters of one owner away and gives free ones to it; only the error that cuts it
  short (`-4`) leaves the entry pointing at clusters that have none;
* `ExtTyped` is the shape of the ext2 volume.  `copy` and `move` read from it what they write to
  the other volume, so that the commands need it on both sides.

Each driver call has its lemma (`FatWriteSound`, `ExtWriteTyped` and so on), and each
command is put together from them (`Kept`).  TLC has checked the invariant on the constants
of run `volumes`.

Only model-checked: the liveness properties (`RunnableRuns`, `DeadStops`, both
`CallsReturn`, `PressActedOn`), which are out of the prover's reach; that
`Apps` implements `Text`, which holds only while the line index is not full (the
constants cannot say so: the index of the code has fewer lines than the buffer has
bytes); and of `Volumes`, `ExtConsistent` and `OthersUntouched`, which would need, besides the shape of the ext2
volume, who owns each of its blocks and inodes.

## 6. Disagreements

Found while modelling: each of these is a property that the source states of itself
and that TLC finds violated by what the code does.  The first is run `names_ring`:

* `NamesRing.cfg`: `rtl8139_init` sets the WRAP bit (rtl8139.c:292), with which the card
  stores the end of a frame behind its ring; `ring_copy` reads it from the start ("the
  second part is read from the start of the ring", rtl8139.c:130), so that the packet
  gets an old tail (`QueueFaithful`).

The others are not in the list of runs; `tlc -config X.cfg MCX` shows each:

* `VolumesLayout.cfg`: `build.sh:191` formats the FAT32 volume with 129024 sectors from
  LBA 2048, `kernel_main` mounts ext2 at LBA 4096 (kernel.c:266), and shell.c:1201 prints
  "LBA  2048-4095 FAT32 volume (/mnt/fat)": a growing file on `/mnt/fat` is stored over
  ext2 (`VolumesApart`).
* `Names.cfg` with `CacheRight` for its invariants: DNS_MAX_NAME is the "max hostname length
  this resolver handles" (dns.c:18), but longer names are resolved, and the cache keeps the
  first 63 characters (dns.c:76): the address of the long name is then found under the
  short one.
* `Desktop.cfg` with `PressNeverDropped` for `PressActedOn`: "rapid clicks ... are never
  dropped" (desktop.c:280-282).  A press between the reading and the clearing of the latch is
  dropped, and so is one during a drag or with a change of the highlighted item of the
  context menu.  `PressActedOn` says which presses are kept.
* `Drives.cfg` with `InstalledIsWhole` for its invariants: "Install complete." and
  "Installation complete!" (kernel.c:228, install.c:599) with a sector missing.  After the
  last sector of a call `ata_write_sectors_raw` does not look at what the drive reports
  (ata.c:425).
* `SchedGdeWrap.cfg`: the search in `sched_irq` does not test whether it found a task
  (process.c:92).  When all tasks of the graphical build are asleep or dead, an
  unused slot is dispatched.
* `SchedGdeCreate.cfg`: `proc_create` marks the slot `RUNNABLE` four statements before
  `saved_esp` is set (process.c:171); for gde-session interrupts are on.
* `PdfsFlush.cfg`: `flush_sb` drops the result of its write (pdfs.c:132); the allocator
  goes back at the next boot and sectors get a second owner.
* `Pdfs.cfg` with `PROPERTY ResetWipes` added: `factreset` formats LBA 200, boot mounts
  LBA 1024 (shell.c:1505, kernel.c:272): on a USB stick the user files survive the reset.
* `PdfsUpgrade.cfg`: a power failure between the superblock and the root directory
  of a reformat leaves a new allocator over an old directory (pdfs.c:519).
* `UsersSession.cfg`: the session is a pointer into a table that shifts
  (users.c:167): the logged-in account can be deleted.
* `DrivesReach.cfg`: `enumerate_device` overwrites the endpoints of the disk with those
  of every device it meets later; with a keyboard behind the disk no transfer
  reaches it (usb.c:590).
* `DesktopDrag.cfg`: `desktop_handle_mouse` takes the topmost window for the one just
  focused (desktop.c:431); after its title bar button minimised it, that is another,
  which is then dragged.
* `AppsLeft.cfg`: "Keys: Up/Down arrow, PgUp/PgDn, Home/End" (text_editor.c:13), but
  the keyboard delivers arrows as 0x11 to 0x16 (keyboard.h:10) and `te_key` tests for
  0x26, 0x28 and so on.  The left arrow is 19, which is Ctrl+S there: it saves.  The
  others do nothing, and `& ( % '` move the cursor instead of being typed; in the
  Explorer `&` and `(` move the selection.

Seen, and not the subject of a run:

* On an ATA disk `factreset` is refused at its first write, but `pdfs_format` has
  filled `g_sb` by then; the next allocation writes that superblock over the
  volume at LBA 1024.  Constant `Usb = FALSE` of `Pdfs` with `AllocatorMonotonic` shows it.
* Old volumes are formatted at boot although pdfs.c:27 says they are mounted
  read-only.
* `deluser` leaves the credential file, so the account is back after a reboot.
* A home directory left by a removed account, or by an `adduser` that was cut
  short, keeps an owner uid that a later account may get.
* `factreset` leaves the user table in memory until the reboot.
* The uid after 255 is 0.
* The SYN is never retransmitted when the gateway's address is not known: the
  poll inside `arp_resolve` sees `snd_una = snd_nxt` and drops the saved segment
  (tcp.c:219, 407), which is so for the first connection after every boot.
  `Resendable` speaks of open connections for that reason.
* A FIN is accepted whatever its sequence number (tcp.c:358), and bytes that do
  not fit the ring are acknowledged all the same (tcp.c:166, 353): the two
  exceptions of `StreamPrefix`.
* An acknowledgement that wrapped is never taken (tcp.c:346): such a connection
  cannot send a second piece.
* The repository's README calls FAT32 and ext2 read-only; both drivers write.
* FAT32 frees the old chain of a file before it writes the new one (fat32.c:381): an
  error in between leaves an entry that points at free clusters.  When ext2 runs
  out of blocks in a file that has an indirect block, the block is freed but the
  inode on disk still names it.  Writing to the path of a directory overwrites its
  records; deleting a directory orphans what is in it, deleting `/mnt/ext2` frees
  the root inode; creating a file in a full directory loses the inode.  These are
  the reasons for `spoilt`.
* `move a a` deletes the file; copying an empty file onto another leaves the old
  contents; `/mnt/fatty` is taken for a path on `/mnt/fat`.
* A press and release between two rounds of the loop start a drag that ends with
  the next release; minimising a maximised window loses its old size; closing the
  focused window focuses the next one even if it is minimised; `wm_close` does not
  free what a program allocated; a lower resolution leaves the mouse outside.
* A failed USB command is followed by no reset recovery; nothing polls the USB
  keyboard; the boot wizard copies 512 sectors although the kernel reaches to LBA
  1023; `install` always copies from ATA drive 0, also onto itself.
* An answer that says a name does not exist is ignored until the retries are
  over; `dns_resolve` does not look whether the ARP request failed; UDP checksums
  are not verified; a deadline that wraps at 2^32 ticks never comes.
* Expanding a node above the selected one in the sidebar moves the highlight to
  another directory; `pane_last_row` outlives a change of directory, so that one
  click may open an entry ("double-click", explorer.c:19); the Explorer and the
  terminal always act as root.
* An empty or unreadable file is shown as a placeholder text that Save then
  writes into it; a longer file than the buffer is cut off by Save; when the file
  cannot be created, Save writes to a node that was never filled in
  (text_editor.c:165-168); unsaved text is lost on closing.  With more than 1024
  lines Enter makes the cursor jump to the end of the text.
* `pmm_init` truncates the base of a region above 4 GB to 32 bits and so frees low
  frames; nothing allocates frames.

## 7. What is not modelled, and the plan

Not modelled: device register I/O (ATA, EHCI and PIC registers, VGA, PCI, transmit
descriptors), drawing, the bootloader, the build scripts and the SDK; NTFS, which
is read-only parsing; the frame bitmap, which nothing uses; the bytes of a mouse
packet; the line editing of shell and terminal; the login screen; the external
desktop loader; reads that fail in `Pdfs`; the resynchronisation of the card ring
after a bad header.

Next are proofs, in this order: for `Volumes` that no ext2 block has two owners; for `Editor` that index and buffer agree,
and that every step is one of `Text`.
