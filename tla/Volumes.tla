------------------------------ MODULE Volumes ------------------------------
(***************************************************************************)
(* The mount table (kernel/fs/vfs.c) over a FAT32 and an ext2 volume, and  *)
(* the shell commands write, delete, copy and move (kernel/core/shell.c),  *)
(* whose open-or-create sequence the text editor's Save repeats.  One      *)
(* thread gives commands, so a command is one step.                        *)
(*                                                                         *)
(* A path is a sequence of chunks, "/" among them.  Paths under "/" itself *)
(* belong to PDFS (module Pdfs) and are not used here.                     *)
(***************************************************************************)
EXTENDS Fat32, Ext2

CONSTANTS
  Paths,       \* paths commands name
  Values,      \* file contents: sequences of model values
  SubDir,      \* the directory mkfs makes on the ext2 volume
  FAT_LBA,     \* clus_lba(2): the sector of the first cluster
  EXT_LBA,     \* the sector at which the ext2 volume begins
  MaxCommands(_),   \* commands given under a mount table
  MaxFaults

\* The shell makes every path absolute.
ASSUME VolumesAssumption ==
  /\ \A p \in Paths : p \in Seq(Range(p)) /\ p # <<>> /\ Head(p) = "/"
  /\ \A v \in Values : v \in Seq(Range(v))

VARIABLES
  mounts,      \* [point, fs] in mount order
  fat, ext,    \* the volumes
  spoilt,      \* volumes on which a failed write may have left two owners
  named,       \* the paths the last command named
  commands, faults

volumesVars == <<mounts, fat, ext, spoilt, named, commands, faults>>

\* kernel_main mounts these in this order; a volume that is not there, or
\* not of its type, is left out.
FatMount  == [point |-> <<"/", "mnt/fat">>,  fs |-> "fat"]
ExtMount  == [point |-> <<"/", "mnt/ext2">>, fs |-> "ext"]
RootMount == [point |-> <<"/">>,             fs |-> "pdfs"]
MountTables == { <<FatMount, ExtMount, RootMount>>, <<FatMount, RootMount>>,
                 <<ExtMount, RootMount>>, <<RootMount>> }

\* The longest mount point that is a prefix of the path, the first of equals.
find_mount(path) ==
  LET fits == { i \in 1..Len(mounts) : IsPrefix(mounts[i].point, path) }
      best == { i \in fits : \A j \in fits : Len(mounts[i].point) >= Len(mounts[j].point) }
  IN mounts[Min(best)]

strip_prefix(path, point) ==
  LET rest == SubSeq(path, Len(point) + 1, Len(path))
  IN IF rest # <<>> /\ Head(rest) = "/" THEN Tail(rest) ELSE rest

Fs(path)   == find_mount(path).fs
Name(path) == strip_prefix(path, find_mount(path).point)
Names(path) ==
  LET kept[i \in 0..Len(Name(path))] ==
        IF i = 0 THEN <<>>
        ELSE IF Name(path)[i] = "/" THEN kept[i - 1] ELSE Append(kept[i - 1], Name(path)[i])
  IN kept[Len(Name(path))]

\* Both volumes as one value, so that a command can be a sequence of calls.
Disk == [fat |-> fat, ext |-> ext]

vfs_open(d, p) ==
  IF Fs(p) = "fat" THEN fat32_open(d.fat, Name(p)) ELSE ext2_open(d.ext, Names(p))

vfs_read(d, p, node) ==
  IF Fs(p) = "fat" THEN fat32_read(d.fat, node) ELSE ext2_read(d.ext, node)

\* The volume a call returns, put back.
Put(d, p, r) ==
  [d |-> IF Fs(p) = "fat" THEN [d EXCEPT !.fat = r.vol] ELSE [d EXCEPT !.ext = r.vol],
   ret |-> r.ret, spoils |-> FALSE]

vfs_create(d, p) ==
  Put(d, p, IF Fs(p) = "fat" THEN fat32_create(d.fat, Name(p)) ELSE ext2_create(d.ext, Names(p)))

vfs_unlink(d, p) ==
  Put(d, p, IF Fs(p) = "fat" THEN fat32_unlink(d.fat, Name(p)) ELSE ext2_unlink(d.ext, Names(p)))

vfs_write(d, p, node, v, cut) ==
  Put(d, p, IF Fs(p) = "fat" THEN fat32_write(d.fat, Name(p), node, v, cut)
            ELSE ext2_write(d.ext, node, v))

\* What a user who reads a path sees.
Content(d, p) ==
  LET n == vfs_open(d, p)
  IN IF ~n.ok THEN "absent" ELSE IF n.isdir THEN "directory" ELSE vfs_read(d, p, n)

-----------------------------------------------------------------------------
VolumesInit ==
  /\ mounts \in MountTables
  /\ fat = EmptyFat("junk") /\ ext = EmptyExt(SubDir)
  /\ spoilt = {} /\ named = {} /\ commands = 0 /\ faults = 0

\* A write can spoil a volume: an I/O error leaves a FAT entry pointing at
\* clusters that were freed; on a full ext2 volume the inode on disk still
\* names an indirect block that was freed and may now hold a file's data;
\* and no call keeps a directory from being written like a file.
Spoils(d, p, node, ret) ==
  \/ ret = -4
  \/ ret = -3 /\ Fs(p) = "ext" /\ d.ext.inode[node.inode].ptr[NDIRECT + 1] # 0
  \/ node.isdir

\* From then on the ext2 driver reads file data as block numbers, which may
\* lie outside its bitmap, or as directory records: the model stops there.
\* path_resolve does so too on a path through a regular file: none is given.
ThroughFile(p) ==
  \E i \in 1..(Len(Names(p)) - 1) :
    LET n == path_resolve(ext, SubSeq(Names(p), 1, i)) IN n # 0 /\ ~ext.inode[n].dir

Usable(p) ==
  \/ Fs(p) = "fat"
  \/ Fs(p) = "ext" /\ "ext" \notin spoilt /\ ~ThroughFile(p)

\* Ends a command that named some paths, the one it wrote first.
Done(paths, r, cut) ==
  /\ fat' = r.d.fat /\ ext' = r.d.ext
  /\ named' = Range(paths)
  /\ spoilt' = IF r.spoils THEN spoilt \cup {Fs(paths[1])} ELSE spoilt
  /\ commands' = commands + 1
  /\ faults' = IF cut = 0 THEN faults ELSE faults + 1
  /\ UNCHANGED mounts

Judged(d, p, node, w) == [w EXCEPT !.spoils = Spoils(d, p, node, w.ret)]
Filled(d, p, node, v, cut) == Judged(d, p, node, vfs_write(d, p, node, v, cut))

\* Once the file is there, or could not be created, it is opened and written.
Into(made, p, v, cut, skip) ==
  IF made.ret < 0 \/ skip THEN made ELSE Filled(made.d, p, vfs_open(made.d, p), v, cut)

\* Mutant: the file is created without a look whether it is there.
Mutant_Store(d, p, v, cut, skip) == Into(vfs_create(d, p), p, v, cut, skip)

\* What the commands share: open the destination, or create and open it, and
\* write.  copy and move write nothing when the source is empty.
Store(d, p, v, cut, skip) ==
  Into(IF vfs_open(d, p).ok THEN [d |-> d, ret |-> 0, spoils |-> FALSE] ELSE vfs_create(d, p),
       p, v, cut, skip)

\* The data cluster an I/O error strikes, 0 for none.
Cuts(p, v) == IF Fs(p) = "fat" /\ faults < MaxFaults THEN 0..Len(v) ELSE {0}

cmd_write(p, v) ==
  /\ commands < MaxCommands(mounts) /\ Usable(p)
  /\ \E cut \in Cuts(p, v) : Done(<<p>>, Store(Disk, p, v, cut, FALSE), cut)

cmd_delete(p) ==
  /\ commands < MaxCommands(mounts) /\ Usable(p)
  /\ Done(<<p>>, vfs_unlink(Disk, p), 0)

\* The source is read whole before the destination is touched.
Source(s) == vfs_read(Disk, s, vfs_open(Disk, s))
IsFile(s) == LET n == vfs_open(Disk, s) IN n.ok /\ ~n.isdir

Copied(s, p, v, cut) == Store(Disk, p, v, cut, vfs_open(Disk, s).size = 0)

cmd_copy(s, p) ==
  /\ commands < MaxCommands(mounts) /\ Usable(s) /\ Usable(p) /\ IsFile(s)
  /\ \E cut \in Cuts(p, Source(s)) : Done(<<p, s>>, Copied(s, p, Source(s), cut), cut)

\* The source is removed if the destination could be written.
Removed(r, s) == IF r.ret < 0 THEN r ELSE [vfs_unlink(r.d, s) EXCEPT !.spoils = r.spoils]

cmd_move(s, p) ==
  /\ commands < MaxCommands(mounts) /\ Usable(s) /\ Usable(p) /\ IsFile(s)
  /\ \E cut \in Cuts(p, Source(s)) : Done(<<p, s>>, Removed(Copied(s, p, Source(s), cut), s), cut)

VolumesNext ==
  \E p \in Paths : \/ \E v \in Values : cmd_write(p, v)
                   \/ cmd_delete(p)
                   \/ \E s \in Paths : cmd_copy(s, p) \/ cmd_move(s, p)

VolumesSpec == VolumesInit /\ [][VolumesNext]_volumesVars
-----------------------------------------------------------------------------
(* Properties *)

FatFiles == { s \in FatSlots : fat.dir[s].st = "file" }
FatChain(s) == Range(Chain(fat.table, fat.dir[s].clus))

\* The directories and the inodes that paths lead to.
Entries(n) == { RecAt(ext, pl) : pl \in Range(Places(ext, n)) }
Dirs  == { n \in {ROOT_INO} \cup { r.inode : r \in Entries(ROOT_INO) } : n # 0 /\ ext.inode[n].dir }
Named == UNION { { r.inode : r \in Entries(n) } : n \in Dirs } \ {0}

(* Every cluster chain of the volume ends, also after writes that failed:  *)
(* fat_free_chain, total_dir_slots and fat32_read follow chains with no    *)
(* bound of their own.                                                     *)
ChainsEnd == \A s \in FatFiles : Ends(fat.table, fat.dir[s].clus)

(* Every cluster of a FAT file is marked in the table and belongs to that  *)
(* file alone, full volumes, commands that fail half way and slots that    *)
(* are reused included, until an I/O error in the middle of a write.  And  *)
(* no two files have one name, which fat32_create alone, stopping at the   *)
(* first free slot, does not ensure.  After such an error too, every chain *)
(* of clusters ends.                                                       *)
FatConsistent ==
  /\ ChainsEnd
  /\ "fat" \notin spoilt =>
       /\ \A s \in FatFiles : \A c \in FatChain(s) : fat.table[c] # FREE
       /\ \A s, t \in FatFiles : s # t => /\ FatChain(s) \cap FatChain(t) = {}
                                        /\ fat.dir[s].name # fat.dir[t].name

(* Every ext2 block and inode in use is marked in its bitmap and has one   *)
(* owner, until a write has spoilt the volume, and no directory has two    *)
(* entries of one name.                                                    *)
ExtConsistent ==
  "ext" \notin spoilt =>
    /\ Named \subseteq ext.imap
    /\ \A n \in Named : Refs(ext, n) \subseteq ext.bmap
    /\ \A n, m \in Named : n # m => Refs(ext, n) \cap Refs(ext, m) = {}
    /\ \A n \in Dirs : LET used == SelectSeq(Places(ext, n), LAMBDA pl : RecAt(ext, pl).inode # 0)
                       IN Cardinality({ RecAt(ext, pl).name : pl \in Range(used) }) = Len(used)

\* Whether a command that names q names the file p: by the same path, by one
\* with the same 8.3 name, or by the directory it is in.
Covers(q, p) ==
  /\ Fs(q) = Fs(p)
  /\ IF Fs(p) = "fat" THEN to_83(Name(p)) = to_83(Name(q)) ELSE IsPrefix(q, p)

\* A command changes the contents of no file but the ones it names, or that
\* are in a directory it removes.
OthersUntouched ==
  [][ \A p \in Paths :
        \/ spoilt' # {} \/ Fs(p) = "pdfs"
        \/ \E q \in named' : Covers(q, p)
        \/ Content(Disk', p) = Content(Disk, p) ]_volumesVars

\* The FAT32 volume keeps to the sectors in front of the ext2 volume.
VolumesApart == \A s \in FatFiles : \A c \in FatChain(s) : FAT_LBA + (c - 2) < EXT_LBA
=============================================================================
