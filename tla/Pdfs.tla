-------------------------------- MODULE Pdfs --------------------------------
(***************************************************************************)
(* PDFS v3, the native filesystem of PD-OS (kernel/fs/pdfs.c), with the    *)
(* boot code that mounts or formats it (kernel/core/kernel.c), the shell   *)
(* command that resets it (factreset) and the disk below it.               *)
(*                                                                         *)
(* A volume is a superblock, an unused journal sector, and directories and *)
(* files that a monotonic allocator places behind them.  A directory is a  *)
(* chain of sectors of SLOTS entries each, a file one run of sectors.      *)
(*                                                                         *)
(* Every call reads what it needs, then writes one sector at a time: the   *)
(* call puts the writes it will make, in order, in `todo', and each write  *)
(* is a step, so that a write can fail and the machine can stop between    *)
(* any two of them.  One call runs at a time (one thread calls the         *)
(* filesystem).  Sector contents are abstracted to what the calls tell     *)
(* apart: a superblock, a directory sector (a zeroed one is an empty       *)
(* directory), one sector of a file, or anything else.                     *)
(***************************************************************************)
EXTENDS Integers, Sequences, FiniteSets, SequencesExt, FiniteSetsExt

CONSTANTS
  BASE,        \* where kernel.c mounts and formats the volume (1024)
  RESET_BASE,  \* where factreset formats it (200)
  RESERVED,    \* ATA_RESERVED_LBA: the ATA driver writes no sector below it
  TOTAL,       \* sectors of the disk
  SLOTS,       \* PDFS_CHAIN_SLOTS
  Usb,         \* TRUE: the disk is a USB stick, whose driver has no such guard
  OldVolume,   \* TRUE: the disk holds a version 2 volume, FALSE: nothing
  Names,       \* names of files and directories
  Contents,    \* what a sector of a file may hold
  Scaffold,    \* the calls of pdfs_scaffold, a sequence of records
  Callers,     \* [uid, root]: who calls (root: elevated or USER_FLAG_ROOT)
  Paths,       \* paths callers name, sequences of names
  Modes,       \* modes chmod is given
  Values,      \* what is written to files, sector by sector
  FaultIn,     \* what an I/O error may strike: "sb" (a superblock that an
               \* allocation saves), other writes of a "reset" or "format", "other"
  MaxCalls, MaxFaults, MaxCrashes   \* bounds of a behaviour

\* Mode bits the code consults before it enters or changes something.
ModeBits == {"WOTH", "XUSR", "XOTH"}

ASSUME PdfsAssumption ==
  /\ BASE \in Nat \ {0} /\ TOTAL \in Nat /\ BASE + 2 <= TOTAL /\ SLOTS \in Nat \ {0}
  /\ "" \notin Names
  /\ Callers \subseteq [uid : Nat, root : BOOLEAN]
  /\ Paths \subseteq Seq(Names) \ {<<>>}
  /\ Modes \subseteq SUBSET ModeBits
  /\ Values \subseteq Seq(Contents)
  /\ Scaffold \in Seq([op : {"mkdir"}, path : Seq(Names) \ {<<>>}, uid : Nat, mode : SUBSET ModeBits]
                     \cup [op : {"chmod"}, path : Seq(Names) \ {<<>>}, uid : Nat, mode : SUBSET ModeBits]
                     \cup [op : {"create"}, path : Seq(Names) \ {<<>>}, val : Seq(Contents)])

LBAs  == 1..TOTAL
Slots == 0..(SLOTS - 1)
VERSION == 3

DIR_DEF      == {"XUSR", "XOTH"}   \* 0755
FILE_DEF     == {}                 \* 0664
ElevatedRoot == [uid |-> 0, root |-> TRUE]

\* A zeroed directory entry is a free slot.
Free == [name |-> "", isdir |-> FALSE, start |-> 0, alloc |-> 0, size |-> 0,
         uid |-> 0, mode |-> {}]

Zero         == [kind |-> "dir", ent |-> [i \in Slots |-> Free], link |-> 0]
Other        == [kind |-> "other"]
SbSector(sb) == [kind |-> "sb", sb |-> sb]
Data(p, v)   == [kind |-> "data", path |-> p, val |-> v]

\* The superblock pdfs_format writes.
NewSb(base)  == [version |-> VERSION, dir |-> base + 2, next |-> base + 3]

VARIABLES
  disk,          \* sector contents
  g_sb, g_base_lba, g_mounted,   \* the driver's memory
  pc,            \* boot, format, build, remount, scaffold, run, reset, nofs
  script,        \* scaffold calls still to make
  todo,          \* sector writes the call in progress has left
  call,          \* the call in progress, or the last one
  calls, faults, crashes         \* counters for the bounds

mem    == <<g_sb, g_base_lba, g_mounted>>
counts == <<calls, faults, crashes>>
vars   == <<disk, mem, pc, script, todo, call, counts>>

NoSb   == [version |-> 0, dir |-> 0, next |-> 0]
NoCall == [op |-> "none", path |-> <<>>, val |-> <<>>]

\* A version 2 volume with one file in the root directory.
OldDisk ==
  [a \in LBAs |->
     CASE a = BASE     -> SbSector([version |-> 2, dir |-> BASE + 2, next |-> BASE + 4])
       [] a = BASE + 2 -> [Zero EXCEPT !.ent[0] =
                             [Free EXCEPT !.name = "old", !.start = BASE + 3, !.alloc = 1, !.size = 1]]
       [] a = BASE + 3 -> Data(<<"old">>, "old")
       [] OTHER        -> Other]

Init ==
  /\ disk = IF OldVolume THEN OldDisk ELSE [a \in LBAs |-> Other]
  /\ g_sb = NoSb /\ g_base_lba = 0 /\ g_mounted = FALSE
  /\ pc = "boot" /\ script = <<>> /\ todo = <<>> /\ call = NoCall
  /\ calls = 0 /\ faults = 0 /\ crashes = 0

-----------------------------------------------------------------------------
(* Directory chains and paths.  `d' is the disk they are read from. *)

\* A sector is read as a directory whatever it holds; the driver has no way
\* to tell, and only a sector that is one holds entries.
AsDir(d, lba) == IF lba \in LBAs /\ d[lba].kind = "dir" THEN d[lba] ELSE Zero

Link(d, lba) == AsDir(d, lba).link

Entry(d, cell) == AsDir(d, cell.lba).ent[cell.slot]

NoCell == [lba |-> 0, slot |-> 0]

\* The sectors of a directory, in chain order.  (TOTAL bounds the length of a
\* chain.)
Trail(d, first) ==
  LET from[n \in 0..TOTAL] == [a \in LBAs |->
        IF n = 0 \/ Link(d, a) = 0 THEN <<a>> ELSE <<a>> \o from[n - 1][Link(d, a)]]
  IN from[TOTAL][first]

\* The first slot of a directory, in chain order, whose entry passes a test.
FirstCell(d, first, Test(_)) ==
  LET t    == Trail(d, first)
      Hits(a) == { i \in Slots : Test(AsDir(d, a).ent[i]) }
      ks   == { k \in DOMAIN t : Hits(t[k]) # {} }
  IN  IF ks = {} THEN NoCell ELSE [lba |-> t[Min(ks)], slot |-> Min(Hits(t[Min(ks)]))]

chain_find(d, first, name) == FirstCell(d, first, LAMBDA e : e.name = name)

\* The last sector of a directory.
ChainEnd(d, first) == Last(Trail(d, first))

perm_write_ok(e, c) == c.root \/ e.uid = c.uid \/ "WOTH" \in e.mode
perm_exec_ok(e, c)  == c.root \/ (e.uid = c.uid /\ "XUSR" \in e.mode) \/ "XOTH" \in e.mode

\* path_resolve: the slot of the entry a path names, and for a directory the
\* first sector of its chain.  The empty path stands for the root directory.
NotFound == [ok |-> FALSE, cell |-> NoCell, dir |-> 0, isdir |-> FALSE]

path_resolve(d, root, p, c) ==
  LET from[i \in 0..Len(p)] == [dir \in LBAs |->   \* i components are left
        LET cell == chain_find(d, dir, p[Len(p) - i + 1])
            e    == Entry(d, cell)
        IN  IF i = 0 THEN [ok |-> TRUE, cell |-> NoCell, dir |-> root, isdir |-> TRUE]
            ELSE IF cell = NoCell \/ (e.isdir /\ ~perm_exec_ok(e, c)) THEN NotFound
            ELSE IF i = 1 THEN [ok |-> TRUE, cell |-> cell, dir |-> e.start, isdir |-> e.isdir]
            ELSE IF e.isdir THEN from[i - 1][e.start] ELSE NotFound]
  IN from[Len(p)][root]

Resolve(p, c) == path_resolve(disk, g_sb.dir, p, c)
Parent(p, c)  == Resolve(Front(p), c)
Exists(p, c)  == chain_find(disk, Parent(p, c).dir, Last(p)) # NoCell

-----------------------------------------------------------------------------
(* Sector writes *)

Write(lba, sec) == [lba |-> lba, sec |-> sec, sb |-> FALSE]

\* flush_sb: the new superblock is in memory whether or not the write works.
Flush(next) ==
  [lba |-> g_base_lba, sec |-> SbSector([g_sb EXCEPT !.next = next]), sb |-> TRUE]

SetEntry(lba, slot, e) == Write(lba, [AsDir(disk, lba) EXCEPT !.ent[slot] = e])

\* Mutant: the sector is linked and used before the allocator's pointer is saved.
Mutant_AddEntry(first, e, next) ==
  LET cell == FirstCell(disk, first, LAMBDA x : x = Free)
      last == ChainEnd(disk, first)
  IN  IF cell # NoCell THEN <<SetEntry(cell.lba, cell.slot, e)>>
      ELSE << Write(next, Zero),
              Write(last, [AsDir(disk, last) EXCEPT !.link = next]),
              Write(next, [Zero EXCEPT !.ent[0] = e]),
              Flush(next + 1) >>

\* chain_alloc_slot and the flush_slot of its callers: put e in the first free
\* slot of a directory, after extending the chain if it has none.  `next' is
\* the allocator's pointer when it is called.
AddEntry(first, e, next) ==
  LET cell == FirstCell(disk, first, LAMBDA x : x = Free)
      last == ChainEnd(disk, first)
  IN  IF cell # NoCell THEN <<SetEntry(cell.lba, cell.slot, e)>>
      ELSE << Flush(next + 1),
              Write(next, Zero),
              Write(last, [AsDir(disk, last) EXCEPT !.link = next]),
              Write(next, [Zero EXCEPT !.ent[0] = e]) >>

\* The ATA driver refuses sectors below RESERVED; a disk has no sector past
\* its end.
Writable(lba) == lba \in LBAs /\ (Usb \/ lba >= RESERVED)

-----------------------------------------------------------------------------
(* Calls.  A call that fails before it writes changes nothing. *)

Idle == todo = <<>> /\ pc = "run" /\ calls < MaxCalls

Begin(op, p, v, writes) ==
  /\ todo' = writes
  /\ call' = [op |-> op, path |-> p, val |-> v]

MkdirWrites(p, uid, mode, c) ==
  LET sub == g_sb.next
      e   == [Free EXCEPT !.name = Last(p), !.isdir = TRUE, !.start = sub, !.alloc = 1,
                          !.uid = uid, !.mode = mode]
  IN  << Flush(sub + 1), Write(sub, Zero) >> \o AddEntry(Parent(p, c).dir, e, sub + 1)

\* Mutant: the name is not looked up first.
Mutant_MayAdd(p, c) == Parent(p, c).ok /\ Parent(p, c).isdir

MayAdd(p, c) == Parent(p, c).ok /\ Parent(p, c).isdir /\ ~Exists(p, c)

\* The shell's makedir: the new directory belongs to the caller.
Mkdir(p, c) ==
  /\ Idle /\ MayAdd(p, c)
  /\ Begin("mkdir", p, <<>>, MkdirWrites(p, c.uid, DIR_DEF, c))
  /\ calls' = calls + 1
  /\ UNCHANGED <<disk, mem, pc, script, faults, crashes>>

Create(p, c) ==
  /\ Idle /\ MayAdd(p, c)
  /\ LET e == [Free EXCEPT !.name = Last(p), !.mode = FILE_DEF, !.uid = c.uid]
     IN  Begin("create", p, <<>>, AddEntry(Parent(p, c).dir, e, g_sb.next))
  /\ calls' = calls + 1
  /\ UNCHANGED <<disk, mem, pc, script, faults, crashes>>

\* Mutant: the allocator's pointer moves by one sector, whatever is taken.
Mutant_FileWrites(cell, p, v) ==
  LET e     == Entry(disk, cell)
      grow  == e.alloc < Len(v)
      start == IF grow THEN g_sb.next ELSE e.start
      e2    == [e EXCEPT !.start = start, !.alloc = IF grow THEN Len(v) ELSE @, !.size = Len(v)]
  IN  (IF grow THEN <<Flush(start + 1)>> ELSE <<>>)
      \o [i \in DOMAIN v |-> Write(start + i - 1, Data(p, v[i]))]
      \o << SetEntry(cell.lba, cell.slot, e2) >>

\* Mutant: the entry is written before the data it describes.
Mutant_EntryFirst(cell, p, v) ==
  LET e     == Entry(disk, cell)
      grow  == e.alloc < Len(v)
      start == IF grow THEN g_sb.next ELSE e.start
      e2    == [e EXCEPT !.start = start, !.alloc = IF grow THEN Len(v) ELSE @, !.size = Len(v)]
  IN  (IF grow THEN <<Flush(start + Len(v))>> ELSE <<>>)
      \o << SetEntry(cell.lba, cell.slot, e2) >>
      \o [i \in DOMAIN v |-> Write(start + i - 1, Data(p, v[i]))]

\* Mutant: a file written in place keeps its old size.
Mutant_KeepSize(cell, p, v) ==
  LET e     == Entry(disk, cell)
      grow  == e.alloc < Len(v)
      start == IF grow THEN g_sb.next ELSE e.start
      e2    == [e EXCEPT !.start = start, !.alloc = IF grow THEN Len(v) ELSE @,
                         !.size = IF grow THEN Len(v) ELSE @]
  IN  (IF grow THEN <<Flush(start + Len(v))>> ELSE <<>>)
      \o [i \in DOMAIN v |-> Write(start + i - 1, Data(p, v[i]))]
      \o << SetEntry(cell.lba, cell.slot, e2) >>

\* pdfs_write at offset 0: a file that outgrows its sectors moves to fresh
\* ones, any other is overwritten in place; its entry is written last.
FileWrites(cell, p, v) ==
  LET e     == Entry(disk, cell)
      grow  == e.alloc < Len(v)
      start == IF grow THEN g_sb.next ELSE e.start
      e2    == [e EXCEPT !.start = start, !.alloc = IF grow THEN Len(v) ELSE @, !.size = Len(v)]
  IN  (IF grow THEN <<Flush(start + Len(v))>> ELSE <<>>)
      \o [i \in DOMAIN v |-> Write(start + i - 1, Data(p, v[i]))]
      \o << SetEntry(cell.lba, cell.slot, e2) >>

\* vfs_open and the vfs_write that follows it.
WriteFile(p, v, c) ==
  /\ Idle
  /\ LET r == Resolve(p, c)
     IN  /\ r.ok /\ ~r.isdir
         /\ perm_write_ok(Entry(disk, r.cell), c)
         /\ Begin("write", p, v, FileWrites(r.cell, p, v))
  /\ calls' = calls + 1
  /\ UNCHANGED <<disk, mem, pc, script, faults, crashes>>

Unlink(p, c) ==
  /\ Idle
  /\ LET r == Resolve(p, c)
     IN  /\ r.ok /\ ~r.isdir
         /\ perm_write_ok(Entry(disk, r.cell), c)
         /\ Begin("unlink", p, <<>>, <<SetEntry(r.cell.lba, r.cell.slot, Free)>>)
  /\ calls' = calls + 1
  /\ UNCHANGED <<disk, mem, pc, script, faults, crashes>>

ChmodWrites(cell, mode) ==
  << SetEntry(cell.lba, cell.slot, [Entry(disk, cell) EXCEPT !.mode = mode]) >>

Chmod(p, mode, c) ==
  /\ Idle
  /\ LET r == Resolve(p, c)
     IN  /\ r.ok /\ r.cell # NoCell
         /\ perm_write_ok(Entry(disk, r.cell), c)
         /\ Begin("chmod", p, <<>>, ChmodWrites(r.cell, mode))
  /\ calls' = calls + 1
  /\ UNCHANGED <<disk, mem, pc, script, faults, crashes>>

Chown(p, uid, c) ==
  /\ Idle /\ c.root
  /\ LET r == Resolve(p, c)
     IN  /\ r.ok /\ r.cell # NoCell
         /\ Begin("chown", p, <<>>,
                  <<SetEntry(r.cell.lba, r.cell.slot, [Entry(disk, r.cell) EXCEPT !.uid = uid])>>)
  /\ calls' = calls + 1
  /\ UNCHANGED <<disk, mem, pc, script, faults, crashes>>

-----------------------------------------------------------------------------
(* Boot, format, reset *)

\* pdfs_format: memory changes first, and the superblock is written before
\* the root directory is cleared.
Format(op, base) ==
  /\ g_sb' = NewSb(base)
  /\ Begin(op, <<>>, <<>>, << Write(base, SbSector(NewSb(base))), Write(base + 1, Zero),
                              Write(base + 2, Zero) >>)

\* Mutant: the allocator starts at the first data sector after every mount.
Mutant_Mount ==
  /\ pc = "boot" /\ todo = <<>>
  /\ g_base_lba' = BASE
  /\ IF disk[BASE].kind = "sb" /\ disk[BASE].sb.version = VERSION
     THEN /\ g_sb' = NewSb(BASE) /\ g_mounted' = TRUE
          /\ pc' = "scaffold" /\ script' = Scaffold
          /\ UNCHANGED <<todo, call>>
     ELSE /\ g_mounted' = (disk[BASE].kind = "sb")
          /\ pc' = "format" /\ UNCHANGED script
          /\ Format("format", BASE)
  /\ UNCHANGED <<disk, counts>>

\* kernel_main: mount the volume; format unless it is one of this version.
Mount ==
  /\ pc = "boot" /\ todo = <<>>
  /\ g_base_lba' = BASE
  /\ IF disk[BASE].kind = "sb" /\ disk[BASE].sb.version = VERSION
     THEN /\ g_sb' = disk[BASE].sb /\ g_mounted' = TRUE
          /\ pc' = "scaffold" /\ script' = Scaffold
          /\ UNCHANGED <<todo, call>>
     ELSE /\ g_mounted' = (disk[BASE].kind = "sb")
          /\ pc' = "format" /\ UNCHANGED script
          /\ Format("format", BASE)
  /\ UNCHANGED <<disk, counts>>

\* After a format and the scaffold that follows it the volume is mounted anew.
Remount ==
  /\ pc = "build" /\ todo = <<>> /\ script = <<>>
  /\ g_base_lba' = BASE /\ g_sb' = disk[BASE].sb /\ g_mounted' = TRUE
  /\ pc' = "scaffold" /\ script' = Scaffold
  /\ UNCHANGED <<disk, todo, call, counts>>

\* pdfs_scaffold: mkdir skips what exists, chmod enforces a mode, and the
\* version file is written only by the scaffold that creates it.
ScaffoldStep ==
  /\ pc \in {"build", "scaffold", "reset"} /\ todo = <<>> /\ script # <<>>
  /\ LET s == Head(script)
         r == Resolve(s.path, ElevatedRoot)
         new == [Free EXCEPT !.name = Last(s.path), !.mode = FILE_DEF]
     IN  CASE s.op = "mkdir" /\ MayAdd(s.path, ElevatedRoot) ->
                /\ Begin("mkdir", s.path, <<>>, MkdirWrites(s.path, s.uid, s.mode, ElevatedRoot))
                /\ script' = Tail(script)
           [] s.op = "chmod" /\ r.ok ->
                /\ Begin("chmod", s.path, <<>>, ChmodWrites(r.cell, s.mode))
                /\ script' = Tail(script)
           [] s.op = "create" /\ MayAdd(s.path, ElevatedRoot) ->
                /\ Begin("create", s.path, <<>>, AddEntry(Parent(s.path, ElevatedRoot).dir, new, g_sb.next))
                /\ script' = <<[s EXCEPT !.op = "write"]>> \o Tail(script)
           [] s.op = "write" /\ call.op = "create" /\ r.ok /\ ~r.isdir ->
                /\ Begin("write", s.path, s.val, FileWrites(r.cell, s.path, s.val))
                /\ script' = Tail(script)
           [] OTHER -> script' = Tail(script) /\ call' = NoCall /\ UNCHANGED todo
  /\ UNCHANGED <<disk, mem, pc, counts>>

ScaffoldDone ==
  /\ pc \in {"scaffold", "reset"} /\ todo = <<>> /\ script = <<>>
  /\ pc' = "run" /\ call' = NoCall
  /\ UNCHANGED <<disk, mem, script, todo, counts>>

\* The shell's factreset, by a caller with root's rights.
Factreset(c) ==
  /\ Idle /\ c.root
  /\ Format("reset", RESET_BASE)
  /\ pc' = "reset"
  /\ calls' = calls + 1
  /\ UNCHANGED <<disk, g_base_lba, g_mounted, script, faults, crashes>>

-----------------------------------------------------------------------------
(* One sector write *)

\* The call's last write is done.
Complete ==
  CASE call.op = "format" ->
         /\ g_base_lba' = BASE /\ g_mounted' = TRUE
         /\ pc' = "build" /\ script' = Scaffold /\ UNCHANGED call
    [] call.op = "reset" ->
         /\ g_base_lba' = RESET_BASE /\ g_mounted' = TRUE
         /\ pc' = "reset" /\ script' = Scaffold /\ call' = NoCall
    [] OTHER -> UNCHANGED <<g_base_lba, g_mounted, pc, script, call>>

\* The call gives up: no volume after a failed format at boot, an error
\* message after any other call.
Abort ==
  /\ pc' = CASE call.op = "format" -> "nofs" [] call.op = "reset" -> "run" [] OTHER -> pc
  /\ call' = NoCall
  /\ UNCHANGED <<g_base_lba, g_mounted, script>>

WriteOk ==
  /\ todo # <<>>
  /\ LET w == Head(todo)
     IN  /\ Writable(w.lba)
         /\ disk' = [disk EXCEPT ![w.lba] = w.sec]
         /\ g_sb' = IF w.sb THEN w.sec.sb ELSE g_sb
  /\ todo' = Tail(todo)
  /\ IF Tail(todo) = <<>> THEN Complete
     ELSE UNCHANGED <<g_base_lba, g_mounted, pc, script, call>>
  /\ UNCHANGED counts

\* What an I/O error strikes, for FaultIn.
Victim(w) == IF w.sb THEN "sb" ELSE IF call.op \in {"reset", "format"} THEN call.op ELSE "other"

\* ata_write_sectors returns an error: always for a sector it refuses or the
\* disk does not have, else after a timeout, with the sector written or not.
\* Every caller gives up, except flush_sb, which does not look.
WriteError ==
  /\ todo # <<>>
  /\ LET w == Head(todo)
     IN  /\ IF Writable(w.lba)
            THEN /\ Victim(w) \in FaultIn
                 /\ faults < MaxFaults /\ faults' = faults + 1
                 /\ disk' \in {disk, [disk EXCEPT ![w.lba] = w.sec]}
            ELSE UNCHANGED <<disk, faults>>
         /\ IF w.sb
            THEN /\ g_sb' = w.sec.sb /\ todo' = Tail(todo)
                 /\ UNCHANGED <<g_base_lba, g_mounted, pc, script, call>>
            ELSE /\ todo' = <<>> /\ Abort
                 /\ UNCHANGED g_sb
  /\ UNCHANGED <<calls, crashes>>

\* The power fails, or someone reboots: memory is lost, the disk stays.
Crash ==
  /\ pc # "boot" /\ crashes < MaxCrashes /\ crashes' = crashes + 1
  /\ g_sb' = NoSb /\ g_base_lba' = 0 /\ g_mounted' = FALSE
  /\ pc' = "boot" /\ script' = <<>> /\ todo' = <<>> /\ call' = NoCall
  /\ UNCHANGED <<disk, calls, faults>>

-----------------------------------------------------------------------------
Next ==
  \/ Mount \/ Remount \/ ScaffoldStep \/ ScaffoldDone
  \/ \E p \in Paths, c \in Callers :
       \/ Mkdir(p, c) \/ Create(p, c) \/ Unlink(p, c)
       \/ \E v \in Values : WriteFile(p, v, c)
       \/ \E m \in Modes : Chmod(p, m, c)
       \/ \E o \in Callers : Chown(p, o.uid, c)
  \/ \E c \in Callers : Factreset(c)
  \/ WriteOk \/ WriteError \/ Crash

Spec == Init /\ [][Next]_vars

-----------------------------------------------------------------------------
(* Correctness *)

TypeOK ==
  /\ \A a \in LBAs : disk[a].kind \in {"dir", "sb", "data", "other"}
  /\ g_sb.next \in Nat /\ g_sb.dir \in LBAs \cup {0}
  /\ g_base_lba \in {0, BASE, RESET_BASE} /\ g_mounted \in BOOLEAN
  /\ pc \in {"boot", "format", "build", "scaffold", "run", "reset", "nofs"}
  /\ \A i \in DOMAIN todo : todo[i].lba \in Nat \ {0}

\* The volume a boot would find: its superblock, directories and files.
Formatted == disk[BASE].kind = "sb" /\ disk[BASE].sb.version = VERSION /\ call.op # "format"
OnDisk    == disk[BASE].sb

Chain(d, first) == ToSet(Trail(d, first))

Used(f) ==
  { c \in [lba : Chain(disk, f), slot : Slots] : Entry(disk, c) # Free }
SubDirs(f) == { c \in Used(f) : Entry(disk, c).isdir }

\* The first sectors of the directories: the root's, and all that entries of
\* directories lead to.  (TOTAL bounds the depth.)
Below(fs) == fs \cup { Entry(disk, c).start : c \in UNION { SubDirs(f) : f \in fs } }

Firsts ==
  LET close[k \in 0..TOTAL] == [fs \in SUBSET Nat |->
        IF k = 0 \/ Below(fs) = fs THEN fs ELSE close[k - 1][Below(fs)]]
  IN close[TOTAL][{OnDisk.dir}]

\* Who owns which sectors: a directory its chain, a file its run.
Claims ==
  { [owner |-> NoCell, sectors |-> Chain(disk, OnDisk.dir)] }
  \cup { [owner |-> c, sectors |-> LET e == Entry(disk, c)
                                   IN  IF e.isdir THEN Chain(disk, e.start)
                                       ELSE e.start..(e.start + e.alloc - 1)] :
           c \in UNION { Used(f) : f \in Firsts } }

\* No sector belongs to two of them.
SectorsExclusive ==
  Formatted =>
    \A cs \in {Claims} : \A x, y \in cs : x # y => x.sectors \cap y.sectors = {}

\* The sectors of the volume are shared out: a directory's chain or a file's
\* run has its sectors to itself, not before the root directory and below the
\* allocator's pointer on the disk, even when a call was cut short.
NoSharing ==
  /\ SectorsExclusive
  /\ Formatted => \A x \in Claims : x.sectors \subseteq OnDisk.dir..(OnDisk.next - 1)

\* A directory holds one entry of a name: what a path names does not depend
\* on the order of slots.
UniqueNames ==
  Formatted => \A f \in Firsts : \A c, k \in Used(f) :
                 Entry(disk, c).name = Entry(disk, k).name => c = k

\* What a boot would make of a path: nothing, a directory, or the contents of
\* a file.
View(d, p) ==
  IF d[BASE].kind # "sb" \/ d[BASE].sb.version # VERSION THEN <<"none">>
  ELSE LET r == path_resolve(d, d[BASE].sb.dir, p, ElevatedRoot)
           e == Entry(d, r.cell)
       IN  IF ~r.ok THEN <<"none">>
           ELSE IF r.isdir THEN <<"dir">>
           ELSE <<"file">> \o [i \in 1..e.size |-> d[e.start + i - 1]]

\* Every sector a file shows was written as a sector of that file, whatever
\* calls were cut short or failed on the way.
NoForeignData ==
  \A p \in Paths : \A v \in {View(disk, p)} :
    v[1] = "file" => \A i \in 2..Len(v) : v[i].kind = "data" /\ v[i].path = p

\* A step changes what a boot would make of a path only if the call in
\* progress names that path; a crash changes nothing.
OnlyNamedPathChanges ==
  [][\A p \in Paths : View(disk', p) # View(disk, p) => call.path = p \/ call.op \in {"format", "reset"}]_vars

\* A write that returns success is on the disk, whole.  (After a factreset the
\* driver works on a volume no boot looks for: see ResetWipes.)
WrittenIsDurable ==
  [][call.op = "write" /\ todo # <<>> /\ todo' = <<>> /\ call' = call /\ g_base_lba = BASE
       => View(disk', call.path) = <<"file">> \o [i \in DOMAIN call.val |-> Data(call.path, call.val[i])]]_vars


\* The allocator's pointer on the disk never moves back.
AllocatorMonotonic ==
  [][Formatted /\ Formatted' => disk'[BASE].sb.next >= disk[BASE].sb.next]_vars

\* factreset says it will "wipe all user data": when it is done, a boot finds no
\* file that is not the system's own.
ResetWipes ==
  [][pc = "reset" /\ pc' = "run" /\ call.op # "reset" => \A p \in Paths :
       View(disk', p)[1] = "file" => \E i \in DOMAIN Scaffold : Scaffold[i].path = p]_vars
=============================================================================
