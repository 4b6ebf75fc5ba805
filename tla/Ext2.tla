-------------------------------- MODULE Ext2 --------------------------------
(***************************************************************************)
(* The ext2 driver (kernel/fs/ext2.c): operators on a volume, a record of  *)
(* its two bitmaps, its inodes and the contents of its blocks.  A block is *)
(* zeroed or unknown, a block of a file, a list of directory records, or   *)
(* an indirect block.  A file's contents are a sequence with one value per *)
(* block; sizes count blocks.  A directory record takes one unit of the    *)
(* block, and owns the slack behind it (rec_len).                          *)
(*                                                                         *)
(* A call that changes the volume returns [vol, ret].  The results of its  *)
(* block writes are dropped by the driver; the model has none that fail.   *)
(***************************************************************************)
EXTENDS Integers, Sequences, FiniteSets, SequencesExt, FiniteSetsExt

CONSTANTS
  NBLOCKS,      \* blocks the bitmap leaves to files and directories
  NINODES,      \* s_inodes_per_group, the reserved ones left out
  NDIRECT,      \* direct block pointers of an inode (12)
  PTRS,         \* pointers in an indirect block (256)
  UNITS         \* directory records a block has room for

ASSUME ExtAssumption ==
  /\ NBLOCKS \in Nat \ {0, 1} /\ NINODES \in Nat \ {0, 1}     \* mkfs takes two of each
  /\ NDIRECT \in Nat \ {0} /\ PTRS \in Nat \ {0} /\ UNITS \in Nat \ {0}

ROOT_INO == 1                      \* EXT2_ROOT_INO
Blocks   == 1..NBLOCKS
Inodes   == ROOT_INO..NINODES

Zeros     == [kind |-> "zeros"]
Holds(v)  == [kind |-> "data", val |-> v]
Indirect(p) == [kind |-> "ind", ptr |-> p]
Records(r)  == [kind |-> "dir", rec |-> r]

\* ptr[1..NDIRECT] are the direct pointers, ptr[NDIRECT + 1] the indirect one.
NoPtrs   == [i \in 1..(NDIRECT + 1) |-> 0]
NewInode == [dir |-> FALSE, size |-> 0, ptr |-> NoPtrs]
Rec(ino, name, len) == [inode |-> ino, name |-> name, len |-> len]

\* A volume as mkfs leaves it: a root directory with its own entry, and one
\* more directory in it.
EmptyExt(sub) ==
  [bmap  |-> {1, 2},
   imap  |-> {ROOT_INO, ROOT_INO + 1},
   inode |-> [n \in Inodes |->
                IF n <= ROOT_INO + 1
                THEN [dir |-> TRUE, size |-> 1, ptr |-> [NoPtrs EXCEPT ![1] = n]]
                ELSE NewInode],
   blk   |-> [b \in Blocks |->
                CASE b = 1 -> Records(<<Rec(ROOT_INO, ".", 1), Rec(ROOT_INO + 1, sub, UNITS - 1)>>)
                  [] b = 2 -> Records(<<Rec(ROOT_INO + 1, ".", UNITS)>>)
                  [] OTHER -> Zeros]]

\* The pointers of an indirect block.  (The driver reads any block as one;
\* Volumes states that it is one.)
Pointers(vol, b) ==
  IF b \in Blocks /\ vol.blk[b].kind = "ind" THEN vol.blk[b].ptr ELSE [i \in 1..PTRS |-> 0]

\* Block i (from 1) of an inode; 0 if there is none.
inode_get_block(vol, ino, i) ==
  CASE i <= NDIRECT -> ino.ptr[i]
    [] i > NDIRECT /\ i <= NDIRECT + PTRS -> Pointers(vol, ino.ptr[NDIRECT + 1])[i - NDIRECT]
    [] OTHER -> 0

\* The blocks of a directory or file in order, up to the first gap.
BlockList(vol, n) ==
  LET b(i) == inode_get_block(vol, vol.inode[n], i)
      gaps == { i \in 1..(NDIRECT + PTRS + 1) : b(i) = 0 }
  IN [i \in 1..(Min(gaps) - 1) |-> b(i)]

\* Every block an inode refers to.
Refs(vol, n) ==
  LET p == vol.inode[n].ptr
  IN (Range(p) \cup Range(Pointers(vol, p[NDIRECT + 1]))) \ {0}

alloc_block(vol) ==
  LET free == Blocks \ vol.bmap
  IN IF free = {} THEN [vol |-> vol, b |-> 0]
     ELSE [vol |-> [vol EXCEPT !.bmap = @ \cup {Min(free)}], b |-> Min(free)]

\* Frees the blocks of an inode; the inode on disk still names them.
free_inode_blocks(vol, n) == [vol EXCEPT !.bmap = @ \ Refs(vol, n)]

(* Records where a new block of an inode is, on a copy ino of it; -1 if    *)
(* the indirect block it needs cannot be allocated or is full.             *)
inode_set_block(vol, ino, i, b) ==
  LET x   == NDIRECT + 1
      new == alloc_block(vol)
      At(v, o) == [vol |-> [v EXCEPT !.blk[o.ptr[x]] =
                              Indirect([Pointers(v, o.ptr[x]) EXCEPT ![i - NDIRECT] = b])],
                   ino |-> o, ret |-> 0]
  IN CASE i <= NDIRECT       -> [vol |-> vol, ino |-> [ino EXCEPT !.ptr[i] = b], ret |-> 0]
       [] i > NDIRECT + PTRS -> [vol |-> vol, ino |-> ino, ret |-> -1]
       [] i > NDIRECT /\ i <= NDIRECT + PTRS /\ ino.ptr[x] # 0 -> At(vol, ino)
       [] i > NDIRECT /\ i <= NDIRECT + PTRS /\ ino.ptr[x] = 0 /\ new.b = 0 ->
            [vol |-> vol, ino |-> ino, ret |-> -1]
       [] OTHER -> At([new.vol EXCEPT !.blk[new.b] = Indirect([k \in 1..PTRS |-> 0])],
                                   [ino EXCEPT !.ptr[x] = new.b])

-----------------------------------------------------------------------------
(* Directories *)

RecsOf(vol, b) == IF vol.blk[b].kind = "dir" THEN vol.blk[b].rec ELSE <<>>

\* The places of a directory's records, in the order they are read.
Places(vol, dir) ==
  LET bl == BlockList(vol, dir)
      upto[i \in 0..Len(bl)] ==
        IF i = 0 THEN <<>> ELSE upto[i - 1] \o [k \in 1..Len(RecsOf(vol, bl[i])) |-> <<bl[i], k>>]
  IN upto[Len(bl)]

RecAt(vol, pl) == vol.blk[pl[1]].rec[pl[2]]

\* The first place that passes a test, in a sequence of one, or <<>>.
FirstPlace(vol, dir, Test(_)) ==
  LET pls  == Places(vol, dir)
      hits == { i \in 1..Len(pls) : Test(RecAt(vol, pls[i])) }
  IN IF hits = {} THEN <<>> ELSE <<pls[Min(hits)]>>

IsNamed(r, name) == r.inode # 0 /\ r.name = name

InodeAt(vol, hit) == IF hit = <<>> THEN 0 ELSE RecAt(vol, hit[1]).inode
dir_lookup(vol, dir, name) == InodeAt(vol, FirstPlace(vol, dir, LAMBDA r : IsNamed(r, name)))

\* The inodes along a path of directories, the root first, 0 from where a
\* name is missing.
Along(vol, path) ==
  LET at[i \in 0..Len(path)] ==
        IF i = 0 THEN ROOT_INO ELSE IF at[i - 1] = 0 THEN 0 ELSE dir_lookup(vol, at[i - 1], path[i])
  IN at

\* The inode of the last component of a path, and the directory it is in.
path_resolve(vol, path) == Along(vol, path)[Len(path)]
par_ino(vol, path) == IF path = <<>> THEN ROOT_INO ELSE Along(vol, path)[Len(path) - 1]

\* Mutant: a record that has slack is not split.
Mutant_AddedAt(vol, b, k, name, ino) ==
  [vol EXCEPT !.blk[b].rec[k] = Rec(ino, name, @.len)]

\* In block b, in the unused record k or in the slack behind it.
AddedAt(vol, b, k, name, ino) ==
  LET rec == vol.blk[b].rec
  IN [vol EXCEPT !.blk[b].rec =
        IF rec[k].inode = 0 THEN [rec EXCEPT ![k] = Rec(ino, name, rec[k].len)]
        ELSE InsertAt([rec EXCEPT ![k].len = 1], k + 1, Rec(ino, name, rec[k].len - 1))]

\* In a block just allocated, which becomes the last of the directory.
Grown(vol, dir, set) ==
  [vol |-> [set.vol EXCEPT !.inode[dir] = [set.ino EXCEPT !.size = @ + 1]], ret |-> 0]
AddedBehind(vol, new, dir, name, ino) ==
  IF new.b = 0 THEN [vol |-> vol, ret |-> -1]
  ELSE Grown(vol, dir, inode_set_block([new.vol EXCEPT !.blk[new.b] = Records(<<Rec(ino, name, UNITS)>>)],
                                       vol.inode[dir], Len(BlockList(vol, dir)) + 1, new.b))

(* A record goes into the first one that is unused, or into the slack      *)
(* behind the first that has some, or into a new block of the directory.   *)
Added(vol, fit, dir, name, ino) ==
  IF fit = <<>> THEN AddedBehind(vol, alloc_block(vol), dir, name, ino)
  ELSE [vol |-> AddedAt(vol, fit[1][1], fit[1][2], name, ino), ret |-> 0]
dir_add_entry(vol, dir, name, ino) ==
  Added(vol, FirstPlace(vol, dir, LAMBDA r : r.inode = 0 \/ r.len >= 2), dir, name, ino)

(* The record is merged into the one before it in its block; the first one *)
(* of a block is marked unused.                                            *)
RemovedAt(rec, k) ==
  IF k = 1 THEN [rec EXCEPT ![1].inode = 0] ELSE RemoveAt([rec EXCEPT ![k - 1].len = @ + rec[k].len], k)
Dropped(vol, hit) ==
  IF hit = <<>> THEN [vol |-> vol, ret |-> -1]
  ELSE [vol |-> [vol EXCEPT !.blk[hit[1][1]].rec = RemovedAt(@, hit[1][2])], ret |-> 0]
dir_remove_entry(vol, dir, name) == Dropped(vol, FirstPlace(vol, dir, LAMBDA r : IsNamed(r, name)))

-----------------------------------------------------------------------------
(* The driver's calls; a path is a non-empty sequence of names. *)

Opened(vol, n) ==
  IF n = 0 THEN [ok |-> FALSE]
  ELSE [ok |-> TRUE, inode |-> n, size |-> vol.inode[n].size, isdir |-> vol.inode[n].dir]
ext2_open(vol, path) == Opened(vol, path_resolve(vol, path))

\* A block that was never recorded reads as zeros.
ext2_read(vol, node) ==
  [i \in 1..vol.inode[node.inode].size |->
     LET b == inode_get_block(vol, vol.inode[node.inode], i)
     IN IF b # 0 /\ vol.blk[b].kind = "data" THEN vol.blk[b].val ELSE "zeros"]

\* Mutant: the bitmap with the new block marked is not kept, so that an
\* indirect block is allocated from the one before.
Mutant_PutBlock(s, v) ==
  LET a   == alloc_block(s.vol)
      set == inode_set_block([s.vol EXCEPT !.blk[a.b] = Holds(v)], s.ino, s.ret + 1, a.b)
  IN CASE s.ret < 0              -> s
       [] s.ret >= 0 /\ a.b = 0 -> [s EXCEPT !.ret = -3]
       [] s.ret >= 0 /\ a.b # 0 -> [vol |-> set.vol, ino |-> set.ino, ret |-> s.ret + 1]

\* Allocates, fills and records one more block in a copy of the inode; a
\* block that cannot be recorded is lost without a word.
PutBlock(s, v) ==
  LET a   == alloc_block(s.vol)
      set == inode_set_block([a.vol EXCEPT !.blk[a.b] = Holds(v)], s.ino, s.ret + 1, a.b)
  IN CASE s.ret < 0              -> s
       [] s.ret >= 0 /\ a.b = 0 -> [s EXCEPT !.ret = -3]
       [] s.ret >= 0 /\ a.b # 0 -> [vol |-> set.vol, ino |-> set.ino, ret |-> s.ret + 1]

NewBlocks(vol, ino, val) ==
  LET filled[i \in 0..Len(val)] ==
        IF i = 0 THEN [vol |-> vol, ino |-> ino, ret |-> 0] ELSE PutBlock(filled[i - 1], val[i])
  IN filled[Len(val)]

(* Frees the old blocks, makes the new ones and writes the inode back      *)
(* last.  A full volume (-3) returns before that.                          *)
ext2_write(vol, node, val) ==
  LET n    == node.inode
      done == NewBlocks(free_inode_blocks(vol, n),
                        [vol.inode[n] EXCEPT !.ptr = NoPtrs, !.size = Len(val)], val)
  IN [vol |-> IF done.ret < 0 THEN done.vol ELSE [done.vol EXCEPT !.inode[n] = done.ino],
      ret |-> done.ret]

\* An inode, then a record in the directory; the inode is lost if the record
\* finds no room.
CreatedIn(vol, dir, name) ==
  LET free == Inodes \ vol.imap
      n    == Min(free)
  IN CASE dir = 0 -> [vol |-> vol, ret |-> -2]
       [] dir # 0 /\ dir_lookup(vol, dir, name) # 0 -> [vol |-> vol, ret |-> -4]
       [] dir # 0 /\ dir_lookup(vol, dir, name) = 0 /\ free = {} -> [vol |-> vol, ret |-> -5]
       [] OTHER -> dir_add_entry([vol EXCEPT !.imap = @ \cup {n}, !.inode[n] = NewInode], dir, name, n)
ext2_create(vol, path) == CreatedIn(vol, par_ino(vol, path), Last(path))

\* Blocks, then the inode, then the record: of a file or of a directory.
Unlinked(vol, n, path) ==
  IF n = 0 THEN [vol |-> vol, ret |-> -1]
  ELSE dir_remove_entry([free_inode_blocks(vol, n) EXCEPT !.imap = @ \ {n}, !.inode[n].ptr = NoPtrs],
                        par_ino(vol, path), Last(path))
ext2_unlink(vol, path) == Unlinked(vol, path_resolve(vol, path), path)
=============================================================================
