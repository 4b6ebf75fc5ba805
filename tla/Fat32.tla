------------------------------- MODULE Fat32 -------------------------------
(***************************************************************************)
(* The FAT32 driver (kernel/fs/fat32.c): operators on a volume, a record   *)
(* of its allocation table, the contents of its clusters and the slots of  *)
(* its root directory (the only one it looks at).  A file's contents are a *)
(* sequence with one value per cluster; sizes count clusters.              *)
(*                                                                         *)
(* A call that changes the volume returns [vol, ret].  A write can be cut  *)
(* short by an I/O error: cut is the number of the data cluster that       *)
(* cannot be written, 0 if they all can.                                   *)
(***************************************************************************)
EXTENDS Integers, Sequences, FiniteSets, SequencesExt, FiniteSetsExt

CONSTANTS
  NCLUS,        \* g_total_clusters
  FSLOTS,       \* total_dir_slots()
  to_83(_)      \* the 8.3 form of a name: upper case, cut to 8 and 3 characters

ASSUME FatAssumption == NCLUS \in Nat \ {0} /\ FSLOTS \in Nat \ {0}

FREE == 0
EOC  == -1

Clusters == 2..(NCLUS + 1)
FatSlots == 1..FSLOTS

\* A directory slot: the end of the directory, a deleted entry, an entry the
\* driver skips (a volume label or a long name) or a file.
EndSlot == [st |-> "end", name |-> "", clus |-> 0, size |-> 0]
Deleted == [EndSlot EXCEPT !.st = "deleted"]
Label   == [EndSlot EXCEPT !.st = "label"]
FileSlot(n, c, s) == [st |-> "file", name |-> n, clus |-> c, size |-> s]

\* A volume as mkfs leaves it, with a label; cluster contents are unknown.
EmptyFat(junk) ==
  [table |-> [c \in Clusters |-> FREE],
   data  |-> [c \in Clusters |-> junk],
   dir   |-> [s \in FatSlots |-> IF s = 1 THEN Label ELSE EndSlot]]

\* The way through the table from a cluster: each entry names the next one;
\* an entry that is no cluster stops it.
Walk(table, first) ==
  LET at[i \in 0..NCLUS] ==
        IF i = 0 THEN first ELSE IF at[i - 1] \in Clusters THEN table[at[i - 1]] ELSE at[i - 1]
  IN at

\* The clusters of a chain, in order; NCLUS of them at most, so that a chain
\* that returns to itself yields a sequence with a repetition.
Chain(table, first) ==
  LET way  == Walk(table, first)
      stop == Min({NCLUS} \cup { i \in 0..NCLUS : way[i] \notin Clusters })
  IN [i \in 1..stop |-> way[i - 1]]

\* A chain the code can walk to its end.
Ends(table, first) == Walk(table, first)[NCLUS] \notin Clusters

\* The slot that holds a name, 0 if none: the scan of open, write and unlink.
FatFind(vol, name) ==
  LET hit == { s \in FatSlots :
                 /\ vol.dir[s].st = "file" /\ vol.dir[s].name = to_83(name)
                 /\ \A t \in 1..(s - 1) : vol.dir[t].st # "end" }
  IN IF hit = {} THEN 0 ELSE Min(hit)

\* Returns an open node, or the record None.
None == [ok |-> FALSE]
fat32_open(vol, name) ==
  LET s == FatFind(vol, name)
  IN IF s = 0 THEN None
     ELSE [ok |-> TRUE, inode |-> vol.dir[s].clus, size |-> vol.dir[s].size, isdir |-> FALSE]

\* What a reader gets: as much of the size as the chain holds.
fat32_read(vol, node) ==
  LET c == Chain(vol.table, node.inode)
      n == Min({Len(c), node.size})
  IN [i \in 1..n |-> vol.data[c[i]]]

\* Mutant: the cluster is not marked.
Mutant_fat_alloc(table) ==
  LET free == { c \in Clusters : table[c] = FREE }
  IN [clus |-> IF free = {} THEN 0 ELSE Min(free), table |-> table]

\* The first free cluster, and the table with it marked; 0 if there is none.
fat_alloc(table) ==
  LET free == { c \in Clusters : table[c] = FREE }
  IN IF free = {} THEN [clus |-> 0, table |-> table]
     ELSE [clus |-> Min(free), table |-> [table EXCEPT ![Min(free)] = EOC]]

fat_free_chain(table, first) ==
  [c \in Clusters |-> IF c \in Range(Chain(table, first)) THEN FREE ELSE table[c]]

\* Allocates, links and fills one more cluster of a new chain s; ret counts
\* them, or is the error after which nothing is done any more.
PutCluster(s, v, cut) ==
  LET a == fat_alloc(s.table)
  IN CASE s.ret < 0                -> s
       [] s.ret >= 0 /\ a.clus = 0 -> [s EXCEPT !.ret = -3]
       [] s.ret >= 0 /\ a.clus # 0 ->
            [table |-> IF s.prev = 0 THEN a.table ELSE [a.table EXCEPT ![s.prev] = a.clus],
             data  |-> IF s.ret + 1 = cut THEN s.data ELSE [s.data EXCEPT ![a.clus] = v],
             first |-> IF s.first = 0 THEN a.clus ELSE s.first,
             prev  |-> a.clus,
             ret   |-> IF s.ret + 1 = cut THEN -4 ELSE s.ret + 1]

NewChain(table, data, val, cut) ==
  LET filled[i \in 0..Len(val)] ==
        IF i = 0 THEN [table |-> table, data |-> data, first |-> 0, prev |-> 0, ret |-> 0]
        ELSE PutCluster(filled[i - 1], val[i], cut)
  IN filled[Len(val)]

(* Frees the old chain, makes the new one, and at last points the entry at *)
(* it.  A full disk (-3) or an I/O error (-4) returns before that.         *)
fat32_write(vol, name, node, val, cut) ==
  LET freed == IF node.inode \in Clusters THEN fat_free_chain(vol.table, node.inode)
               ELSE vol.table
      done  == NewChain(freed, vol.data, val, cut)
      s     == FatFind(vol, name)
  IN [vol |-> [table |-> done.table, data |-> done.data,
               dir   |-> IF done.ret < 0 \/ s = 0 THEN vol.dir
                         ELSE [vol.dir EXCEPT ![s].clus = done.first, ![s].size = Len(val)]],
      ret |-> done.ret]

(* The new entry goes to the first slot that is free; only the entries     *)
(* before that slot are compared with the name.                            *)
fat32_create(vol, name) ==
  LET free  == { s \in FatSlots : vol.dir[s].st \in {"end", "deleted"} }
      limit == IF free = {} THEN FSLOTS + 1 ELSE Min(free)
      exists == \E s \in 1..(limit - 1) : vol.dir[s].st = "file" /\ vol.dir[s].name = to_83(name)
  IN CASE exists                 -> [vol |-> vol, ret |-> -2]
       [] ~exists /\ free = {} -> [vol |-> vol, ret |-> -4]
       [] OTHER                  -> [vol |-> [vol EXCEPT !.dir[limit] = FileSlot(to_83(name), 0, 0)], ret |-> 0]

\* Frees the chain, then marks the slot deleted.
fat32_unlink(vol, name) ==
  LET s == FatFind(vol, name)
  IN IF s = 0 THEN [vol |-> vol, ret |-> -1]
     ELSE [vol |-> [vol EXCEPT !.table = fat_free_chain(@, vol.dir[s].clus),
                               !.dir[s] = Deleted],
           ret |-> 0]
=============================================================================
