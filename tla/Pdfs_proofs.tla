---------------------------- MODULE Pdfs_proofs ----------------------------
(***************************************************************************)
(* Proofs about PDFS (module Pdfs): whatever calls are made, and however   *)
(* they are cut short by a failing sector write or a crash, the disk holds *)
(* a volume in which every sector has one owner, every name is found once  *)
(* and every file shows its own data; a call changes only what its path    *)
(* shows, and a write that returns success is on the disk.                 *)
(*                                                                         *)
(* The state the proof speaks of is a disk, and its ghosts, which the code *)
(* has nowhere: `own' says for which entry a sector was taken, `at' of     *)
(* which directory (by its path) it is part, S is the set of directory     *)
(* sectors, and m is how far all that has come, at or below the pointer n  *)
(* in the superblock.  Volume relates them to the disk; Good says that     *)
(* there are some.  They never go into the specification.                  *)
(*                                                                         *)
(* A call decides everything about its writes before the first of them, so *)
(* the invariant must know that ALL disks it will pass through are Good.   *)
(* Plan says that: a set of pairs of a disk and the writes left, closed    *)
(* under making the next write, and each of these writes Does what the     *)
(* call may do: no path but the call's shows anything new, and the last    *)
(* write of pdfs_write shows all of it.  Each call's lemma (MkdirPlan,     *)
(* FilePlan, ...) builds its plan backwards, from the disk that its last   *)
(* write leaves; WriteOk, WriteError and Crash then only walk along one.   *)
(***************************************************************************)
EXTENDS Pdfs, DataLemmas

-----------------------------------------------------------------------------
(* Sectors                                                                 *)

\* Directory entries and directory sectors.
Entries == [name : Names \cup {""}, isdir : BOOLEAN, start : Nat, alloc : Nat, size : Nat,
            uid : Nat, mode : SUBSET ModeBits]
DirSectors == [kind : {"dir"}, ent : [Slots -> Entries], link : Nat]

\* What the proofs know of a disk's sectors: the fields of directories.
IsDisk(d) ==
  /\ d = [a \in LBAs |-> d[a]]
  /\ \A a \in LBAs : d[a].kind = "dir" => d[a] \in DirSectors

\* Where the volume lies on the disk, and how large a directory sector is.
LEMMA Sizes ==
  /\ BASE \in LBAs /\ BASE \in Nat \ {0} /\ BASE + 1 \in LBAs /\ BASE + 2 \in LBAs
  /\ TOTAL \in Nat /\ LBAs \subseteq Nat /\ 0 \notin LBAs
  /\ 0 \in Slots /\ Slots \subseteq Nat
<1>1. BASE \in Nat \ {0} /\ TOTAL \in Nat /\ BASE + 2 <= TOTAL /\ SLOTS \in Nat \ {0}
  BY PdfsAssumption
<1>2. BASE \in LBAs /\ BASE + 1 \in LBAs /\ BASE + 2 \in LBAs
  BY <1>1 DEF LBAs
<1>3. 0 \in Slots /\ Slots \subseteq Nat
  BY <1>1 DEF Slots
<1>4. LBAs \subseteq Nat /\ 0 \notin LBAs
  BY <1>1 DEF LBAs
<1>. QED  BY <1>1, <1>2, <1>3, <1>4

\* A zeroed sector is an empty directory.
LEMMA ZeroIs ==
  Free \in Entries /\ Zero \in DirSectors /\ Zero.link = 0 /\ \A i \in Slots : Zero.ent[i] = Free
<1>1. Free \in Entries
  <2>1. {} \in SUBSET ModeBits /\ "" \in Names \cup {""} /\ FALSE \in BOOLEAN
    OBVIOUS
  <2>2. 0 \in Nat
    OBVIOUS
  <2>. QED  BY <2>1, <2>2, Zenon DEF Free, Entries
<1>. QED  BY <1>1 DEF Zero, DirSectors

\* The fields of entries.
LEMMA EntryFields ==
  /\ ~Free.isdir
  /\ \A e \in Entries : e.start \in Nat /\ e.alloc \in Nat /\ e.size \in Nat
<1>1. ~Free.isdir
  BY Zenon DEF Free
<1>2. \A N, M : \A e \in [name : N, isdir : BOOLEAN, start : Nat, alloc : Nat, size : Nat, uid : Nat, mode : M] :
        e.start \in Nat /\ e.alloc \in Nat /\ e.size \in Nat
  OBVIOUS
<1>3. \A e \in Entries : e.start \in Nat /\ e.alloc \in Nat /\ e.size \in Nat
  BY <1>2, Zenon DEF Entries
<1>. QED  BY <1>1, <1>3

\* An entry with another owner, with another mode, and of another run of sectors.
Owned(o, u) == [o EXCEPT !.uid = u]
Moded(o, b) == [o EXCEPT !.mode = b]
Moved(o, x, y, z) == [o EXCEPT !.start = x, !.alloc = y, !.size = z]

\* Entries that differ in their owner or mode only.
Keeps(o, e) ==
  /\ e.name = o.name /\ e.isdir = o.isdir
  /\ e.start = o.start /\ e.alloc = o.alloc /\ e.size = o.size

\* They are entries.
LEMMA EntryWith ==
  ASSUME NEW o \in Entries
  PROVE  /\ \A u \in Nat : Owned(o, u) \in Entries /\ Keeps(o, Owned(o, u))
         /\ \A b \in SUBSET ModeBits : Moded(o, b) \in Entries /\ Keeps(o, Moded(o, b))
         /\ \A x, y, z \in Nat :
              LET e == Moved(o, x, y, z)
              IN  /\ e \in Entries /\ e.name = o.name /\ e.isdir = o.isdir
                  /\ e.start = x /\ e.alloc = y /\ e.size = z
<1>. DEFINE R(N, M) == [name : N, isdir : BOOLEAN, start : Nat, alloc : Nat, size : Nat, uid : Nat, mode : M]
<1>1. \A N, M : \A f \in R(N, M) : \A u \in Nat : Owned(f, u) \in R(N, M) /\ Keeps(f, Owned(f, u))
  BY DEF Owned, Keeps
<1>2. \A N, M : \A f \in R(N, M) : \A b \in M : Moded(f, b) \in R(N, M) /\ Keeps(f, Moded(f, b))
  BY DEF Moded, Keeps
<1>3. \A N, M : \A f \in R(N, M) : \A x, y, z \in Nat : Moved(f, x, y, z) \in R(N, M)
  BY DEF Moved
<1>4. \A N, M : \A f \in R(N, M) : \A x, y, z \in Nat :
        LET e == Moved(f, x, y, z)
        IN  e.name = f.name /\ e.isdir = f.isdir /\ e.start = x /\ e.alloc = y /\ e.size = z
  BY DEF Moved
<1>5. \E N, M : Entries = R(N, M) /\ SUBSET ModeBits = M
  BY Zenon DEF Entries
<1>. HIDE DEF R
<1>. QED  BY <1>1, <1>2, <1>3, <1>4, <1>5

\* The same, of another owner, ...
LEMMA OwnedIs ==
  ASSUME NEW o \in Entries, NEW u \in Nat
  PROVE  Owned(o, u) \in Entries /\ Keeps(o, Owned(o, u))
BY EntryWith

\* ... of another mode, ...
LEMMA ModedIs ==
  ASSUME NEW o \in Entries, NEW b \in SUBSET ModeBits
  PROVE  Moded(o, b) \in Entries /\ Keeps(o, Moded(o, b))
BY EntryWith

\* ... and of another run of sectors, given by three numbers.
Numbers(x, y, z) == x \in Nat /\ y \in Nat /\ z \in Nat

\* It is an entry.
LEMMA MovedIs ==
  ASSUME NEW o \in Entries, NEW x, NEW y, NEW z, Numbers(x, y, z)
  PROVE  LET e == Moved(o, x, y, z)
         IN  /\ e \in Entries /\ e.name = o.name /\ e.isdir = o.isdir
             /\ e.start = x /\ e.alloc = y /\ e.size = z
BY EntryWith DEF Numbers

\* The entry of a new directory.
DirEntry(name, sub, uid, mode) ==
  [Free EXCEPT !.name = name, !.isdir = TRUE, !.start = sub, !.alloc = 1, !.uid = uid, !.mode = mode]

\* It is one.
LEMMA NewDir ==
  ASSUME NEW name \in Names, NEW sub \in Nat, NEW uid \in Nat, NEW mode \in SUBSET ModeBits
  PROVE  LET e == DirEntry(name, sub, uid, mode) IN e \in Entries /\ e.name = name /\ e.isdir /\ e.start = sub
<1>. DEFINE e == DirEntry(name, sub, uid, mode)
<1>1. PICK a : a = [Free EXCEPT !.name = name]
  OBVIOUS
<1>2. PICK b : b = [a EXCEPT !.isdir = TRUE, !.start = sub, !.alloc = 1]
  OBVIOUS
<1>3. e = [b EXCEPT !.uid = uid, !.mode = mode]
  BY ONLY <1>1, <1>2 DEF DirEntry
<1>. HIDE DEF e
<1>4. a = [name |-> name, isdir |-> FALSE, start |-> 0, alloc |-> 0, size |-> 0, uid |-> 0, mode |-> {}]
  BY ONLY <1>1, Zenon DEF Free
<1>5. b = [name |-> name, isdir |-> TRUE, start |-> sub, alloc |-> 1, size |-> 0, uid |-> 0, mode |-> {}]
  BY ONLY <1>2, <1>4
<1>6. e = [name |-> name, isdir |-> TRUE, start |-> sub, alloc |-> 1, size |-> 0, uid |-> uid, mode |-> mode]
  BY ONLY <1>3, <1>5
<1>7. e.name = name /\ e.isdir /\ e.start = sub
  BY ONLY <1>6
<1>8. ASSUME NEW N, NEW M, name \in N, mode \in M
      PROVE  e \in [name : N, isdir : BOOLEAN, start : Nat, alloc : Nat, size : Nat, uid : Nat, mode : M]
  <2>1. PICK y : y = TRUE
    OBVIOUS
  <2>2. e = [name |-> name, isdir |-> y, start |-> sub, alloc |-> 1, size |-> 0, uid |-> uid, mode |-> mode]
    BY ONLY <1>6, <2>1
  <2>3. y \in BOOLEAN
    BY ONLY <2>1
  <2>4. 1 \in Nat /\ 0 \in Nat
    OBVIOUS
  <2>. QED  BY ONLY <1>8, <2>2, <2>3, <2>4, sub \in Nat, uid \in Nat, Zenon
<1>9. \A z : name \in Names \cup {z}
  OBVIOUS
<1>10. e \in Entries
  BY <1>8, <1>9, Zenon DEF Entries
<1>. QED  BY ONLY <1>7, <1>10, Zenon DEF e

\* Whatever a sector holds, reading it as a directory gives directory fields.
LEMMA AsDirIs ==
  ASSUME NEW d, IsDisk(d), NEW a
  PROVE  /\ AsDir(d, a) \in DirSectors
         /\ Link(d, a) \in Nat
         /\ \A i \in Slots : AsDir(d, a).ent[i] \in Entries
<1>1. AsDir(d, a) \in DirSectors
  BY ZeroIs DEF AsDir, IsDisk
<1>. QED  BY <1>1 DEF DirSectors, Link

\* A sector is written.
After(d, a, s) == [d EXCEPT ![a] = s]

\* What a write changes of a disk, and what it leaves.
LEMMA AfterIs ==
  ASSUME NEW d, IsDisk(d), NEW a, NEW s, s.kind = "dir" => s \in DirSectors
  PROVE  /\ IsDisk(After(d, a, s))
         /\ \A b \in LBAs : After(d, a, s)[b] = IF b = a THEN s ELSE d[b]
         /\ \A b : b # a => AsDir(After(d, a, s), b) = AsDir(d, b)
         /\ a \in LBAs => AsDir(After(d, a, s), a) = IF s.kind = "dir" THEN s ELSE Zero
         /\ a \notin LBAs => After(d, a, s) = d
BY DEF IsDisk, AsDir, After

\* The path of the parent, and the last name of a path.
LEMMA FrontIs ==
  ASSUME NEW S, NEW p \in Seq(S), p # <<>>
  PROVE  /\ Front(p) \in Seq(S) /\ Len(Front(p)) = Len(p) - 1
         /\ Last(p) \in S /\ Last(p) = p[Len(p)]
         /\ \A i \in 1..(Len(p) - 1) : Front(p)[i] = p[i]
<1>1. Len(p) \in Nat \ {0} /\ \A i \in 1..Len(p) : p[i] \in S
  BY EmptySeq, ElementOfSeq
<1>2. Len(p) - 1 \in Int /\ 1 \in Int /\ \A i \in 1..(Len(p) - 1) : p[i] \in S
  BY <1>1
<1>3. Len(p) - 1 - 1 + 1 = Len(p) - 1 /\ \A i \in 1..(Len(p) - 1) : 1 + i - 1 = i
  BY <1>1
<1>4. /\ SubSeq(p, 1, Len(p) - 1) \in Seq(S)
      /\ Len(SubSeq(p, 1, Len(p) - 1)) = IF 1 <= Len(p) - 1 THEN Len(p) - 1 - 1 + 1 ELSE 0
      /\ \A i \in 1..(Len(p) - 1 - 1 + 1) : SubSeq(p, 1, Len(p) - 1)[i] = p[1 + i - 1]
  <2>. HIDE DEF Front
  <2>. QED  BY <1>2, SubSeqProperties
<1>. QED  BY <1>1, <1>3, <1>4 DEF Front, Last

-----------------------------------------------------------------------------
(* The chain of a directory                                                *)

\* A set of sectors that links stay in.
Closed(d, K) == K \subseteq LBAs /\ \A a \in K : Link(d, a) = 0 \/ Link(d, a) \in K

\* What the recursive function of Trail does at each number of steps left.
Trails(d, t) ==
  \A n \in 0..TOTAL, a \in LBAs :
    t[n][a] = IF n = 0 \/ Link(d, a) = 0 THEN <<a>> ELSE <<a>> \o t[n - 1][Link(d, a)]

\* The recursive function of Trail exists (by induction on its domain).
LEMMA TrailDef ==
  ASSUME NEW d
  PROVE  \E t : Trails(d, t) /\ \A a \in LBAs : Trail(d, a) = t[TOTAL][a]
<1>. DEFINE Ok(g, m) == g = [n \in 0..m |-> [a \in LBAs |->
                               IF n = 0 \/ Link(d, a) = 0 THEN <<a>> ELSE <<a>> \o g[n - 1][Link(d, a)]]]
            T == { m \in Nat : \E g : Ok(g, m) }
<1>0. TOTAL \in Nat
  BY Sizes
<1>1. 0 \in T
  <2>. DEFINE g == [n \in 0..0 |-> [a \in LBAs |-> <<a>>]]
  <2>1. Ok(g, 0)
    OBVIOUS
  <2>. HIDE DEF g, Ok
  <2>. QED  BY <2>1
<1>2. ASSUME NEW m \in Nat, m \in T PROVE m + 1 \in T
  <2>1. PICK g : Ok(g, m)
    BY <1>2
  <2>. DEFINE M == m + 1
              new == [a \in LBAs |-> IF Link(d, a) = 0 THEN <<a>> ELSE <<a>> \o g[m][Link(d, a)]]
              h == [n \in 0..M |-> IF n = M THEN new ELSE g[n]]
  <2>2. ASSUME NEW n \in 0..M
        PROVE  h[n] = [a \in LBAs |->
                         IF n = 0 \/ Link(d, a) = 0 THEN <<a>> ELSE <<a>> \o h[n - 1][Link(d, a)]]
    <3>1. CASE n = M
      <4>1. M # 0 /\ M - 1 = m /\ m \in 0..M /\ m # M
        OBVIOUS
      <4>2. h[M - 1] = g[m] /\ h[n] = new
        BY <3>1, <4>1
      <4>. HIDE DEF h
      <4>. QED  BY <3>1, <4>1, <4>2
    <3>2. CASE n # M
      <4>1. n \in 0..m /\ (n # 0 => n - 1 \in 0..M /\ n - 1 # M)
        BY <3>2
      <4>2. h[n] = g[n] /\ (n # 0 => h[n - 1] = g[n - 1])
        BY <3>2, <4>1
      <4>3. g[n] = [a \in LBAs |->
                      IF n = 0 \/ Link(d, a) = 0 THEN <<a>> ELSE <<a>> \o g[n - 1][Link(d, a)]]
        BY <2>1, <4>1
      <4>. HIDE DEF h
      <4>. QED  BY <4>2, <4>3
    <3>. QED  BY <3>1, <3>2
  <2>3. Ok(h, m + 1)
    BY <2>2
  <2>. HIDE DEF h, Ok
  <2>. QED  BY <2>3
<1>3. TOTAL \in T
  <2>. HIDE DEF T
  <2>. QED  BY <1>0, <1>1, <1>2, Induction
<1>. DEFINE t == CHOOSE g : Ok(g, TOTAL)
<1>4. Ok(t, TOTAL)
  BY <1>3
<1>5. \A a : Trail(d, a) = t[TOTAL][a]
  BY DEF Trail
<1>6. Trails(d, t)
  <2>. SUFFICES ASSUME NEW n \in 0..TOTAL, NEW a \in LBAs
                PROVE  t[n][a] = IF n = 0 \/ Link(d, a) = 0 THEN <<a>> ELSE <<a>> \o t[n - 1][Link(d, a)]
    BY DEF Trails
  <2>1. t[n] = [b \in LBAs |-> IF n = 0 \/ Link(d, b) = 0 THEN <<b>> ELSE <<b>> \o t[n - 1][Link(d, b)]]
    <3>. HIDE DEF t
    <3>. QED  BY <1>4
  <2>. HIDE DEF t
  <2>. QED  BY <2>1
<1>. QED  BY <1>5, <1>6

\* A sequence with one element put before it.
LEMMA SetOfSeq ==
  ASSUME NEW S, NEW a \in S, NEW s \in Seq(S)
  PROVE  /\ <<a>> \in Seq(S) /\ <<a>> # <<>> /\ ToSet(<<a>>) = {a} /\ <<a>>[1] = a
         /\ LET q == <<a>> \o s IN q \in Seq(S) /\ q # <<>> /\ q[1] = a /\ ToSet(q) = {a} \cup ToSet(s)
<1>. DEFINE q == <<a>> \o s
<1>1. /\ q \in Seq(S) /\ Len(q) = Len(s) + 1 /\ q[1] = a
      /\ \A i \in 1..Len(s) : q[i + 1] = s[i]
  OBVIOUS
<1>2. DOMAIN q = 1..(Len(s) + 1) /\ DOMAIN s = 1..Len(s) /\ Len(s) \in Nat
  BY <1>1, LenProperties
<1>3. ToSet(q) \subseteq {a} \cup ToSet(s)
  <2>. SUFFICES ASSUME NEW i \in 1..(Len(s) + 1), i # 1 PROVE q[i] \in ToSet(s)
    BY <1>1, <1>2 DEF ToSet
  <2>1. i - 1 \in 1..Len(s) /\ q[(i - 1) + 1] = s[i - 1] /\ (i - 1) + 1 = i
    BY <1>1, <1>2
  <2>. HIDE DEF q
  <2>. QED  BY <2>1, <1>2 DEF ToSet
<1>4. {a} \cup ToSet(s) \subseteq ToSet(q)
  <2>1. ASSUME NEW i \in DOMAIN s PROVE s[i] \in ToSet(q)
    <3>1. i + 1 \in DOMAIN q /\ q[i + 1] = s[i]
      BY <1>1, <1>2
    <3>. HIDE DEF q
    <3>. QED  BY <3>1 DEF ToSet
  <2>2. 1 \in DOMAIN q
    BY <1>2
  <2>. HIDE DEF q
  <2>. QED  BY <2>1, <2>2, <1>1 DEF ToSet
<1>5. <<a>> \in Seq(S) /\ <<a>> # <<>> /\ ToSet(<<a>>) = {a} /\ <<a>>[1] = a
  BY DEF ToSet
<1>6. q # <<>>
  BY <1>1, <1>2
<1>. HIDE DEF q
<1>7. q \in Seq(S) /\ q # <<>> /\ q[1] = a /\ ToSet(q) = {a} \cup ToSet(s)
  BY <1>1, <1>3, <1>4, <1>6
<1>. QED  BY <1>5, <1>7 DEF q

\* A walk stays in a set that links stay in, and starts where it starts.
LEMMA TrailIs ==
  ASSUME NEW d, NEW K, Closed(d, K), NEW a \in K
  PROVE  Trail(d, a) \in Seq(K) /\ Trail(d, a) # <<>> /\ Trail(d, a)[1] = a
<1>1. PICK t : Trails(d, t) /\ \A b \in LBAs : Trail(d, b) = t[TOTAL][b]
  BY TrailDef
<1>. DEFINE Ok(n) == \A b \in K : t[n][b] \in Seq(K) /\ t[n][b] # <<>> /\ t[n][b][1] = b
            T == { n \in Nat : n <= TOTAL => Ok(n) }
<1>2. 0 \in T
  <2>1. 0 \in 0..TOTAL /\ K \subseteq LBAs
    BY Sizes DEF Closed
  <2>2. \A b \in LBAs : t[0][b] = <<b>>
    BY <1>1, <2>1 DEF Trails
  <2>3. \A b \in K : <<b>> \in Seq(K) /\ <<b>> # <<>> /\ <<b>>[1] = b
    OBVIOUS
  <2>4. Ok(0)
    BY <2>1, <2>2, <2>3
  <2>. QED  BY <2>4
<1>3. ASSUME NEW n \in Nat, n \in T PROVE n + 1 \in T
  <2>. SUFFICES ASSUME n + 1 <= TOTAL, NEW b \in K
                PROVE  t[n + 1][b] \in Seq(K) /\ t[n + 1][b] # <<>> /\ t[n + 1][b][1] = b
    OBVIOUS
  <2>1. n + 1 \in 0..TOTAL /\ n + 1 # 0 /\ (n + 1) - 1 = n /\ n <= TOTAL
    BY Sizes
  <2>2. t[n + 1][b] = IF Link(d, b) = 0 THEN <<b>> ELSE <<b>> \o t[n][Link(d, b)]
    BY <2>1, <1>1 DEF Trails, Closed
  <2>3. Link(d, b) # 0 => t[n][Link(d, b)] \in Seq(K)
    BY <1>3, <2>1 DEF Closed
  <2>. QED  BY <2>2, <2>3, SetOfSeq
<1>4. TOTAL \in T
  <2>. HIDE DEF T
  <2>. QED  BY <1>2, <1>3, Induction, Sizes
<1>. QED  BY <1>1, <1>4, Sizes DEF Closed

\* The walk depends on the directory sectors on its way and on nothing else.
LEMMA TrailSame ==
  ASSUME NEW d, NEW d2, NEW K, Closed(d, K), \A b \in K : Link(d2, b) = Link(d, b), NEW a \in K
  PROVE  Trail(d2, a) = Trail(d, a)
<1>1. PICK t : Trails(d, t) /\ \A b \in LBAs : Trail(d, b) = t[TOTAL][b]
  BY TrailDef
<1>2. PICK u : Trails(d2, u) /\ \A b \in LBAs : Trail(d2, b) = u[TOTAL][b]
  BY TrailDef
<1>. DEFINE T == { n \in Nat : n <= TOTAL => \A b \in K : u[n][b] = t[n][b] }
<1>3. 0 \in T
  <2>1. 0 \in 0..TOTAL /\ K \subseteq LBAs
    BY Sizes DEF Closed
  <2>2. \A b \in LBAs : t[0][b] = <<b>>
    BY <1>1, <2>1 DEF Trails
  <2>3. \A b \in LBAs : u[0][b] = <<b>>
    BY <1>2, <2>1 DEF Trails
  <2>. QED  BY <2>1, <2>2, <2>3
<1>4. ASSUME NEW n \in Nat, n \in T PROVE n + 1 \in T
  <2>. SUFFICES ASSUME n + 1 <= TOTAL, NEW b \in K PROVE u[n + 1][b] = t[n + 1][b]
    OBVIOUS
  <2>1. n + 1 \in 0..TOTAL /\ n + 1 # 0 /\ (n + 1) - 1 = n /\ n <= TOTAL
    BY Sizes
  <2>2. t[n + 1][b] = IF Link(d, b) = 0 THEN <<b>> ELSE <<b>> \o t[n][Link(d, b)]
    BY <2>1, <1>1 DEF Trails, Closed
  <2>3. u[n + 1][b] = IF Link(d, b) = 0 THEN <<b>> ELSE <<b>> \o u[n][Link(d, b)]
    BY <2>1, <1>2 DEF Trails, Closed
  <2>4. Link(d, b) # 0 => u[n][Link(d, b)] = t[n][Link(d, b)]
    BY <1>4, <2>1 DEF Closed
  <2>. QED  BY <2>2, <2>3, <2>4
<1>5. TOTAL \in T
  <2>. HIDE DEF T
  <2>. QED  BY <1>3, <1>4, Induction, Sizes
<1>. QED  BY <1>1, <1>2, <1>5, Sizes DEF Closed

\* A sector that links to none is put behind another: walks gain no other.
LEMMA TrailGrows ==
  ASSUME NEW d, NEW d2, NEW K, Closed(d, K), NEW e \in K, NEW n \in LBAs,
         Link(d2, e) = n, Link(d2, n) = 0, \A b \in K : b # e => Link(d2, b) = Link(d, b),
         NEW a \in K
  PROVE  Chain(d2, a) \subseteq Chain(d, a) \cup {n}
<1>1. PICK t : Trails(d, t) /\ \A b \in LBAs : Trail(d, b) = t[TOTAL][b]
  BY TrailDef
<1>2. PICK u : Trails(d2, u) /\ \A b \in LBAs : Trail(d2, b) = u[TOTAL][b]
  BY TrailDef
<1>. DEFINE Ok(m, b) == /\ t[m][b] \in Seq(LBAs) /\ u[m][b] \in Seq(LBAs) /\ b \in ToSet(t[m][b])
                        /\ ToSet(u[m][b]) \subseteq ToSet(t[m][b]) \cup {n}
            T == { m \in Nat : m <= TOTAL => \A b \in K : Ok(m, b) }
<1>3. 0 \in T
  <2>1. 0 \in 0..TOTAL /\ K \subseteq LBAs
    BY Sizes DEF Closed
  <2>4. \A b \in LBAs : t[0][b] = <<b>>
    BY <1>1, <2>1 DEF Trails
  <2>5. \A b \in LBAs : u[0][b] = <<b>>
    BY <1>2, <2>1 DEF Trails
  <2>2. ASSUME NEW b \in K PROVE t[0][b] = <<b>> /\ u[0][b] = <<b>> /\ b \in LBAs
    BY <2>1, <2>4, <2>5
  <2>3. ASSUME NEW b \in K PROVE Ok(0, b)
    <3>1. <<b>> \in Seq(LBAs) /\ ToSet(<<b>>) = {b}
      BY <2>2 DEF ToSet
    <3>. QED  BY <2>2, <3>1
  <2>. QED  BY <2>3
<1>4. ASSUME NEW m \in Nat, m \in T PROVE m + 1 \in T
  <2>. SUFFICES ASSUME m + 1 <= TOTAL, NEW b \in K PROVE Ok(m + 1, b)
    <3>. HIDE DEF Ok
    <3>. QED  OBVIOUS
  <2>1. m + 1 \in 0..TOTAL /\ m \in 0..TOTAL /\ m + 1 # 0 /\ (m + 1) - 1 = m /\ m <= TOTAL
    BY Sizes
  <2>2. b \in LBAs /\ (Link(d, b) # 0 => Link(d, b) \in K)
    BY DEF Closed
  <2>3. t[m + 1][b] = IF Link(d, b) = 0 THEN <<b>> ELSE <<b>> \o t[m][Link(d, b)]
    BY <2>1, <2>2, <1>1 DEF Trails
  <2>4. u[m + 1][b] = IF Link(d2, b) = 0 THEN <<b>> ELSE <<b>> \o u[m][Link(d2, b)]
    BY <2>1, <2>2, <1>2 DEF Trails
  <2>5. Link(d, b) # 0 => Ok(m, Link(d, b))
    BY <1>4, <2>1, <2>2
  <2>6. u[m][n] = <<n>> /\ <<n>> \in Seq(LBAs) /\ ToSet(<<n>>) = {n}
    <3>1. u[m][n] = <<n>>
      BY <2>1, <1>2 DEF Trails
    <3>. QED  BY <3>1 DEF ToSet
  <2>7. t[m + 1][b] \in Seq(LBAs) /\ ToSet(t[m + 1][b]) = {b} \cup IF Link(d, b) = 0 THEN {} ELSE ToSet(t[m][Link(d, b)])
    <3>1. CASE Link(d, b) = 0
      BY <3>1, <2>2, <2>3 DEF ToSet
    <3>2. CASE Link(d, b) # 0
      BY <3>2, <2>2, <2>3, <2>5, SetOfSeq
    <3>. QED  BY <3>1, <3>2
  <2>8. CASE b = e
    <3>1. n # 0
      BY Sizes
    <3>2. u[m + 1][b] = <<b>> \o <<n>>
      BY <3>1, <2>4, <2>6, <2>8
    <3>3. u[m + 1][b] \in Seq(LBAs) /\ ToSet(u[m + 1][b]) = {b, n}
      BY <3>2, <2>2, <2>6, SetOfSeq
    <3>. QED  BY <2>7, <3>3
  <2>9. CASE b # e
    <3>0. Link(d2, b) = Link(d, b)
      BY <2>9
    <3>1. CASE Link(d, b) = 0
      <4>1. u[m + 1][b] = <<b>> /\ <<b>> \in Seq(LBAs) /\ ToSet(<<b>>) = {b}
        BY <3>0, <3>1, <2>2, <2>4 DEF ToSet
      <4>. QED  BY <2>7, <4>1
    <3>2. CASE Link(d, b) # 0
      <4>1. u[m + 1][b] = <<b>> \o u[m][Link(d, b)]
        BY <3>0, <3>2, <2>4
      <4>2. u[m + 1][b] \in Seq(LBAs) /\ ToSet(u[m + 1][b]) = {b} \cup ToSet(u[m][Link(d, b)])
        BY <4>1, <3>2, <2>2, <2>5, SetOfSeq
      <4>. QED  BY <2>7, <4>2, <3>2, <2>5
    <3>. QED  BY <3>1, <3>2
  <2>. QED  BY <2>8, <2>9
<1>5. TOTAL \in T
  <2>. HIDE DEF T
  <2>. QED  BY <1>3, <1>4, Induction, Sizes
<1>6. Ok(TOTAL, a) /\ a \in LBAs
  <2>1. TOTAL <= TOTAL /\ a \in LBAs
    BY Sizes DEF Closed
  <2>. HIDE DEF Ok
  <2>. QED  BY <1>5, <2>1
<1>. QED  BY <1>1, <1>2, <1>6 DEF Chain

\* The sectors of a directory stay in a set that links stay in.
LEMMA ChainIs ==
  ASSUME NEW d, NEW K, Closed(d, K), NEW a \in K
  PROVE  Chain(d, a) \subseteq K /\ a \in Chain(d, a) /\ ChainEnd(d, a) \in Chain(d, a)
<1>. DEFINE t == Trail(d, a)
<1>1. t \in Seq(K) /\ t # <<>> /\ t[1] = a
  BY TrailIs
<1>. HIDE DEF t
<1>2. Len(t) \in Nat \ {0} /\ DOMAIN t = 1..Len(t) /\ \A i \in 1..Len(t) : t[i] \in K
  BY <1>1, EmptySeq, LenProperties, ElementOfSeq
<1>. QED  BY <1>1, <1>2 DEF Chain, ChainEnd, ToSet, Last, t

\* chain_find finds a slot of the chain with the name if there is one.
LEMMA FindIs ==
  ASSUME NEW d, NEW K, Closed(d, K), NEW a \in K, NEW name
  PROVE  LET c == chain_find(d, a, name)
         IN  \/ /\ c # NoCell /\ c = [lba |-> c.lba, slot |-> c.slot]
                /\ c.lba \in Chain(d, a) /\ c.slot \in Slots /\ Entry(d, c).name = name
             \/ /\ c = NoCell
                /\ \A b \in Chain(d, a), i \in Slots : ~(AsDir(d, b).ent[i].name = name)
<1>. DEFINE c == chain_find(d, a, name)
            t == Trail(d, a)
            Hits(b) == { i \in Slots : AsDir(d, b).ent[i].name = name }
            ks == { k \in DOMAIN t : Hits(t[k]) # {} }
<1>1. t \in Seq(K) /\ DOMAIN t = 1..Len(t) /\ DOMAIN t \subseteq Nat /\ K \subseteq LBAs
  <2>1. t \in Seq(K)
    BY TrailIs
  <2>2. Len(t) \in Nat /\ DOMAIN t = 1..Len(t)
    BY <2>1, LenProperties
  <2>. HIDE DEF t
  <2>. QED  BY <2>1, <2>2 DEF Closed
<1>2. c = IF ks = {} THEN NoCell ELSE [lba |-> t[Min(ks)], slot |-> Min(Hits(t[Min(ks)]))]
  BY DEF chain_find, FirstCell
<1>3. CASE ks = {}
  <2>1. c = NoCell
    BY <1>2, <1>3
  <2>2. \A b \in Chain(d, a), i \in Slots : ~(AsDir(d, b).ent[i].name = name)
    BY <1>3 DEF Chain, ToSet
  <2>. QED  BY <2>1, <2>2
<1>4. CASE ks # {}
  <2>. DEFINE m == Min(ks)
              h == Hits(t[m])
              j == Min(h)
  <2>1. m \in ks
    <3>1. ks \in SUBSET Nat
      BY <1>1
    <3>. HIDE DEF ks
    <3>. QED  BY <3>1, <1>4, MinIs
  <2>2. m \in DOMAIN t /\ h # {} /\ h \in SUBSET Nat
    BY <2>1, Sizes
  <2>3. j \in h
    <3>. HIDE DEF h
    <3>. QED  BY <2>2, MinIs
  <2>4. c = [lba |-> t[m], slot |-> j]
    BY <1>2, <1>4
  <2>. HIDE DEF m
  <2>5. t[m] \in Chain(d, a) /\ t[m] # 0 /\ j \in Slots
    BY <2>2, <2>3, <1>1, Sizes DEF Chain, ToSet
  <2>. HIDE DEF c, j, t
  <2>6. c # NoCell /\ c.lba = t[m] /\ c.slot = j
    BY <2>4, <2>5 DEF NoCell
  <2>7. AsDir(d, t[m]).ent[j].name = name
    BY <2>3
  <2>8. /\ c # NoCell /\ c = [lba |-> c.lba, slot |-> c.slot]
        /\ c.lba \in Chain(d, a) /\ c.slot \in Slots /\ Entry(d, c).name = name
    BY <2>4, <2>5, <2>6, <2>7 DEF Entry
  <2>. QED  BY <2>8 DEF c
<1>. QED  BY <1>3, <1>4

\* A free slot is found if the chain has one.
LEMMA FreeCellIs ==
  ASSUME NEW d, NEW K, Closed(d, K), NEW a \in K
  PROVE  LET c == FirstCell(d, a, LAMBDA x : x = Free)
         IN  \/ /\ c # NoCell /\ c = [lba |-> c.lba, slot |-> c.slot]
                /\ c.lba \in Chain(d, a) /\ c.slot \in Slots /\ Entry(d, c) = Free
             \/ /\ c = NoCell
                /\ \A b \in Chain(d, a), i \in Slots : ~(AsDir(d, b).ent[i] = Free)
<1>. DEFINE c == FirstCell(d, a, LAMBDA x : x = Free)
            t == Trail(d, a)
            Hits(b) == { i \in Slots : AsDir(d, b).ent[i] = Free }
            ks == { k \in DOMAIN t : Hits(t[k]) # {} }
<1>1. t \in Seq(K) /\ DOMAIN t = 1..Len(t) /\ DOMAIN t \subseteq Nat /\ K \subseteq LBAs
  <2>1. t \in Seq(K)
    BY TrailIs
  <2>2. Len(t) \in Nat /\ DOMAIN t = 1..Len(t)
    BY <2>1, LenProperties
  <2>. HIDE DEF t
  <2>. QED  BY <2>1, <2>2 DEF Closed
<1>2. c = IF ks = {} THEN NoCell ELSE [lba |-> t[Min(ks)], slot |-> Min(Hits(t[Min(ks)]))]
  BY DEF FirstCell
<1>3. CASE ks = {}
  <2>1. c = NoCell
    BY <1>2, <1>3
  <2>2. \A b \in Chain(d, a), i \in Slots : ~(AsDir(d, b).ent[i] = Free)
    BY <1>3 DEF Chain, ToSet
  <2>. QED  BY <2>1, <2>2
<1>4. CASE ks # {}
  <2>. DEFINE m == Min(ks)
              h == Hits(t[m])
              j == Min(h)
  <2>1. m \in ks
    <3>1. ks \in SUBSET Nat
      BY <1>1
    <3>. HIDE DEF ks
    <3>. QED  BY <3>1, <1>4, MinIs
  <2>2. m \in DOMAIN t /\ h # {} /\ h \in SUBSET Nat
    BY <2>1, Sizes
  <2>3. j \in h
    <3>. HIDE DEF h
    <3>. QED  BY <2>2, MinIs
  <2>4. c = [lba |-> t[m], slot |-> j]
    BY <1>2, <1>4
  <2>. HIDE DEF m
  <2>5. t[m] \in Chain(d, a) /\ t[m] # 0 /\ j \in Slots
    BY <2>2, <2>3, <1>1, Sizes DEF Chain, ToSet
  <2>. HIDE DEF c, j, t
  <2>6. c # NoCell /\ c.lba = t[m] /\ c.slot = j
    BY <2>4, <2>5 DEF NoCell
  <2>7. AsDir(d, t[m]).ent[j] = Free
    BY <2>3
  <2>8. /\ c # NoCell /\ c = [lba |-> c.lba, slot |-> c.slot]
        /\ c.lba \in Chain(d, a) /\ c.slot \in Slots /\ Entry(d, c) = Free
    BY <2>4, <2>5, <2>6, <2>7 DEF Entry
  <2>. QED  BY <2>8 DEF c
<1>. QED  BY <1>3, <1>4

-----------------------------------------------------------------------------
(* Volumes                                                                 *)

\* A slot of a directory sector, and its entry.
Cell(f, i) == [lba |-> f, slot |-> i]
Ent(d, f, i) == AsDir(d, f).ent[i]

\* An entry e at cell c describes a directory or a file of its own.
EntryOk(d, r, m, own, at, S, c, e) ==
  e # Free =>
    /\ e.isdir => /\ e.start \in S /\ own[e.start] = c
                  /\ at[e.start] = Append(at[c.lba], e.name)
    /\ ~e.isdir =>
         /\ e.size <= e.alloc
         /\ \A x \in e.start..(e.start + e.alloc - 1) : r <= x /\ x < m /\ own[x] = c /\ x \notin S
         /\ \A x \in e.start..(e.start + e.size - 1) :
              x \in LBAs /\ d[x].kind = "data" /\ d[x].path = Append(at[c.lba], e.name)

\* h is the first sector of a directory: the root, or what an entry leads to.
IsHead(d, r, S, h) == h = r \/ \E f \in S, i \in Slots : Ent(d, f, i).isdir /\ Ent(d, f, i).start = h

\* No two entries of the directory that starts at h have one name.
Unique(d, h) ==
  \A f, g \in Chain(d, h) : \A i, j \in Slots :
    Ent(d, f, i) # Free /\ Ent(d, g, j) # Free /\ Ent(d, f, i).name = Ent(d, g, j).name
      => f = g /\ i = j

\* The volume with root r on d: S has the sectors of its directories, own[x]
\* the cell of the entry that sector x was taken for, at[x] the path of the
\* directory it is part of, and all of them are below m.
Volume(d, r, m, own, at, S) ==
  /\ r \in S /\ own[r] = NoCell /\ at[r] = <<>> /\ m \in Nat /\ BASE < r
  /\ S \subseteq LBAs /\ \A f \in S : r <= f /\ f < m
  /\ \A f \in S : Link(d, f) # 0 =>
       Link(d, f) \in S /\ f < Link(d, f) /\ own[Link(d, f)] = own[f] /\ at[Link(d, f)] = at[f]
  /\ \A f \in S, i \in Slots : EntryOk(d, r, m, own, at, S, Cell(f, i), Ent(d, f, i))
  /\ \A h : IsHead(d, r, S, h) => Unique(d, h)

\* All sectors of a directory have the owner and the path of the first.
LEMMA VolumeChain ==
  ASSUME NEW d, NEW r, NEW m, NEW own, NEW at, NEW S, Volume(d, r, m, own, at, S), NEW f \in S
  PROVE  /\ \A b \in Chain(d, f) : b \in S /\ own[b] = own[f] /\ at[b] = at[f]
         /\ f \in Chain(d, f) /\ ChainEnd(d, f) \in Chain(d, f)
         /\ Closed(d, S)
<1>. DEFINE K == { b \in S : own[b] = own[f] /\ at[b] = at[f] }
<1>1. Closed(d, K) /\ Closed(d, S) /\ f \in K
  BY DEF Closed, Volume
<1>. HIDE DEF K
<1>2. Chain(d, f) \subseteq K /\ f \in Chain(d, f) /\ ChainEnd(d, f) \in Chain(d, f)
  BY <1>1, ChainIs
<1>. QED  BY <1>1, <1>2 DEF K

\* A directory has one first sector.
LEMMA HeadIs ==
  ASSUME NEW d, NEW r, NEW m, NEW own, NEW at, NEW S, Volume(d, r, m, own, at, S),
         NEW h, IsHead(d, r, S, h)
  PROVE  /\ h \in S
         /\ \A g : IsHead(d, r, S, g) /\ own[g] = own[h] => g = h
<1>1. \A f \in S : f # 0
  BY Sizes DEF Volume
<1>2. ~Free.isdir
  BY DEF Free
<1>3. ASSUME NEW f \in S, NEW i \in Slots, Ent(d, f, i).isdir
      PROVE  Ent(d, f, i).start \in S /\ own[Ent(d, f, i).start] = Cell(f, i) /\ Cell(f, i) # NoCell
  <2>1. Cell(f, i) # NoCell
    BY <1>1 DEF Cell, NoCell
  <2>2. EntryOk(d, r, m, own, at, S, Cell(f, i), Ent(d, f, i)) /\ Ent(d, f, i) # Free
    BY <1>2, <1>3 DEF Volume
  <2>. QED  BY <1>3, <2>1, <2>2 DEF EntryOk
<1>4. \A f, g, i, j : Cell(f, i) = Cell(g, j) => f = g /\ i = j
  BY DEF Cell
<1>5. r \in S /\ own[r] = NoCell
  BY DEF Volume
<1>. QED  BY <1>3, <1>4, <1>5 DEF IsHead

\* New owners and empty directory sectors behind the volume change nothing.
LEMMA VolumeExtends ==
  ASSUME NEW d, NEW r, NEW m, NEW own, NEW at, NEW S, Volume(d, r, m, own, at, S),
         NEW m2 \in Nat, m <= m2, NEW own2, NEW at2, NEW S2, S \subseteq S2, S2 \subseteq LBAs,
         \A x \in Nat : x < m => own2[x] = own[x] /\ at2[x] = at[x],
         \A f \in S2 \ S : m <= f /\ f < m2 /\ AsDir(d, f) = Zero
  PROVE  Volume(d, r, m2, own2, at2, S2)
<1>1. \A f \in S : f \in Nat /\ f < m /\ r <= f /\ own2[f] = own[f] /\ at2[f] = at[f]
  BY Sizes DEF Volume
<1>2. r \in S /\ m \in Nat /\ r \in Nat
  BY <1>1 DEF Volume
<1>3. \A f \in S2 \ S : f \in Nat /\ r <= f /\ f < m2 /\ Link(d, f) = 0 /\ \A i \in Slots : Ent(d, f, i) = Free
  <2>1. \A f \in S2 \ S : Link(d, f) = 0 /\ \A i \in Slots : Ent(d, f, i) = Free
    BY ZeroIs DEF Link, Ent
  <2>2. ASSUME NEW f \in S2 \ S PROVE f \in Nat /\ r <= f /\ f < m2
    <3>1. f \in Nat /\ m <= f /\ r < m
      BY <1>1, <1>2, Sizes
    <3>. QED  BY <3>1, <1>2
  <2>. QED  BY <2>1, <2>2
<1>4. \A f \in S2 : r <= f /\ f < m2
  <2>. SUFFICES ASSUME NEW f \in S PROVE f < m2
    BY <1>1, <1>3
  <2>. QED  BY <1>1, <1>2
<1>5. r \in S2 /\ own2[r] = NoCell /\ at2[r] = <<>> /\ BASE < r
  BY <1>1 DEF Volume
<1>6. \A f \in S2 : Link(d, f) # 0 =>
       Link(d, f) \in S2 /\ f < Link(d, f) /\ own2[Link(d, f)] = own2[f] /\ at2[Link(d, f)] = at2[f]
  <2>1. \A f \in S : Link(d, f) # 0 =>
         Link(d, f) \in S /\ f < Link(d, f) /\ own[Link(d, f)] = own[f] /\ at[Link(d, f)] = at[f]
    BY DEF Volume
  <2>. QED  BY <1>1, <1>3, <2>1
<1>7. ASSUME NEW f \in S2, NEW i \in Slots
      PROVE  EntryOk(d, r, m2, own2, at2, S2, Cell(f, i), Ent(d, f, i))
  <2>. SUFFICES ASSUME Ent(d, f, i) # Free
                PROVE  EntryOk(d, r, m2, own2, at2, S2, Cell(f, i), Ent(d, f, i))
    BY DEF EntryOk
  <2>. DEFINE e == Ent(d, f, i)
  <2>1. f \in S /\ Cell(f, i).lba = f
    BY <1>3 DEF Cell
  <2>2. EntryOk(d, r, m, own, at, S, Cell(f, i), e)
    BY <2>1 DEF Volume
  <2>. HIDE DEF e
  <2>3. e # Free
    BY DEF e
  <2>4. e.isdir => /\ e.start \in S2 /\ own2[e.start] = Cell(f, i)
                   /\ at2[e.start] = Append(at2[f], e.name)
    <3>. SUFFICES ASSUME e.isdir
                  PROVE  /\ e.start \in S2 /\ own2[e.start] = Cell(f, i)
                         /\ at2[e.start] = Append(at2[f], e.name)
      OBVIOUS
    <3>1. e.start \in S /\ own[e.start] = Cell(f, i) /\ at[e.start] = Append(at[f], e.name)
      BY <2>1, <2>2, <2>3 DEF EntryOk
    <3>. QED  BY <1>1, <2>1, <3>1
  <2>5. ASSUME ~e.isdir
        PROVE  \A x \in e.start..(e.start + e.alloc - 1) :
                 r <= x /\ x < m2 /\ own2[x] = Cell(f, i) /\ x \notin S2
    <3>1. \A x \in e.start..(e.start + e.alloc - 1) : r <= x /\ x < m /\ own[x] = Cell(f, i) /\ x \notin S
      BY <2>2, <2>3, <2>5 DEF EntryOk
    <3>2. ASSUME NEW x \in Int, r <= x, x < m PROVE x \in Nat /\ x < m2 /\ x \notin S2 \ S
      BY <3>2, <1>2, <1>3
    <3>3. \A x \in e.start..(e.start + e.alloc - 1) : x \in Int
      OBVIOUS
    <3>. QED  BY <3>1, <3>2, <3>3
  <2>6. ASSUME ~e.isdir
        PROVE  e.size <= e.alloc /\ \A x \in e.start..(e.start + e.size - 1) :
                 x \in LBAs /\ d[x].kind = "data" /\ d[x].path = Append(at2[f], e.name)
    BY <1>1, <2>1, <2>2, <2>3, <2>6 DEF EntryOk
  <2>7. EntryOk(d, r, m2, own2, at2, S2, Cell(f, i), e)
    BY <2>1, <2>4, <2>5, <2>6 DEF EntryOk
  <2>. QED  BY <2>7 DEF e
<1>8. ASSUME NEW h, IsHead(d, r, S2, h) PROVE Unique(d, h)
  <2>1. IsHead(d, r, S, h)
    <3>1. ~Free.isdir
      BY DEF Free
    <3>. QED  BY <1>3, <1>8, <3>1 DEF IsHead
  <2>. QED  BY <2>1 DEF Volume
<1>. QED  BY <1>4, <1>5, <1>6, <1>7, <1>8 DEF Volume

\* A disk with the same directories, and with the same data or data of the
\* same file in every other sector of the volume, holds the same volume.
LEMMA VolumeSame ==
  ASSUME NEW d, IsDisk(d), NEW r, NEW m, NEW own, NEW at, NEW S, Volume(d, r, m, own, at, S),
         NEW d2, \A f \in S : AsDir(d2, f) = AsDir(d, f),
         \A x \in LBAs : r <= x /\ x < m /\ x \notin S =>
           \/ d2[x] = d[x]
           \/ \E f \in S, i \in Slots : /\ own[x] = Cell(f, i) /\ d2[x].kind = "data"
                                       /\ d2[x].path = Append(at[f], Ent(d, f, i).name)
  PROVE  Volume(d2, r, m, own, at, S)
<1>1. \A f \in S : Link(d2, f) = Link(d, f) /\ \A i \in Slots : Ent(d2, f, i) = Ent(d, f, i)
  BY DEF Link, Ent
<1>2. ASSUME NEW f \in S, NEW i \in Slots
      PROVE  EntryOk(d2, r, m, own, at, S, Cell(f, i), Ent(d, f, i))
  <2>. DEFINE e == Ent(d, f, i)
  <2>1. e \in Entries
    BY AsDirIs DEF Ent
  <2>2. EntryOk(d, r, m, own, at, S, Cell(f, i), e)
    BY DEF Volume
  <2>3. Cell(f, i).lba = f /\ \A g, j : Cell(f, i) = Cell(g, j) => f = g /\ i = j
    BY DEF Cell
  <2>. SUFFICES ASSUME e # Free, ~e.isdir,
                       NEW x \in e.start..(e.start + e.size - 1)
                PROVE  d2[x].kind = "data" /\ d2[x].path = Append(at[f], e.name)
    <3>. HIDE DEF e
    <3>. QED  BY <2>2, <2>3 DEF EntryOk, e
  <2>4. x \in e.start..(e.start + e.alloc - 1)
    <3>1. e.start \in Nat /\ e.size \in Nat /\ e.alloc \in Nat /\ e.size <= e.alloc
      <4>. HIDE DEF e
      <4>. QED  BY <2>1, <2>2 DEF Entries, EntryOk
    <3>. HIDE DEF e
    <3>. QED  BY <3>1
  <2>5. /\ x \in LBAs /\ r <= x /\ x < m /\ x \notin S /\ own[x] = Cell(f, i)
        /\ d[x].kind = "data" /\ d[x].path = Append(at[f], e.name)
    <3>. HIDE DEF e
    <3>. QED  BY <2>2, <2>3, <2>4 DEF EntryOk
  <2>. QED  BY <2>3, <2>5
<1>3. \A f \in S : Chain(d2, f) = Chain(d, f) /\ Chain(d, f) \subseteq S
  <2>1. Closed(d, S)
    BY DEF Closed, Volume
  <2>. QED  BY <1>1, <2>1, TrailSame, VolumeChain DEF Chain
<1>4. ASSUME NEW h, IsHead(d2, r, S, h) PROVE Unique(d2, h)
  <2>1. IsHead(d, r, S, h)
    BY <1>1, <1>4 DEF IsHead
  <2>2. h \in S /\ Unique(d, h)
    <3>1. h \in S
      BY <2>1, HeadIs
    <3>. QED  BY <2>1, <3>1 DEF Volume
  <2>. QED  BY <1>1, <1>3, <2>2 DEF Unique
<1>. QED  BY <1>1, <1>2, <1>4 DEF Volume

\* An entry is written.
LEMMA VolumeEntry ==
  ASSUME NEW d, IsDisk(d), NEW r, NEW m, NEW own, NEW at, NEW S, Volume(d, r, m, own, at, S),
         NEW f \in S, NEW i \in Slots, NEW e \in Entries,
         EntryOk(d, r, m, own, at, S, Cell(f, i), e),
         e # Free => \A h : IsHead(d, r, S, h) /\ f \in Chain(d, h) =>
           \A g \in Chain(d, h), j \in Slots :
             Ent(d, g, j) # Free /\ Ent(d, g, j).name = e.name => g = f /\ j = i,
         e.isdir => IsHead(d, r, S, e.start) \/ (AsDir(d, e.start) = Zero /\ e.start # f)
  PROVE  LET d2 == After(d, f, [AsDir(d, f) EXCEPT !.ent[i] = e])
         IN  IsDisk(d2) /\ Volume(d2, r, m, own, at, S)
<1>. DEFINE s == [AsDir(d, f) EXCEPT !.ent[i] = e]
            d2 == After(d, f, s)
<1>1. /\ s \in DirSectors /\ s.kind = "dir" /\ s.link = AsDir(d, f).link
      /\ \A j \in Slots : s.ent[j] = IF j = i THEN e ELSE AsDir(d, f).ent[j]
  BY AsDirIs DEF DirSectors
<1>2. f \in LBAs /\ S \subseteq LBAs
  BY DEF Volume
<1>3. /\ IsDisk(d2) /\ \A b \in LBAs : b # f => d2[b] = d[b]
      /\ \A b : b # f => AsDir(d2, b) = AsDir(d, b)
      /\ AsDir(d2, f) = s
  <2>1. s.kind = "dir" => s \in DirSectors
    BY <1>1
  <2>. HIDE DEF s
  <2>2. /\ IsDisk(d2)
        /\ \A b \in LBAs : d2[b] = IF b = f THEN s ELSE d[b]
        /\ \A b : b # f => AsDir(d2, b) = AsDir(d, b)
        /\ f \in LBAs => AsDir(d2, f) = IF s.kind = "dir" THEN s ELSE Zero
    BY <2>1, AfterIs
  <2>. QED  BY <1>1, <1>2, <2>2
<1>. HIDE DEF s, d2
<1>4. /\ \A b : Link(d2, b) = Link(d, b)
      /\ \A b, j : b # f => Ent(d2, b, j) = Ent(d, b, j)
      /\ \A j \in Slots : Ent(d2, f, j) = IF j = i THEN e ELSE Ent(d, f, j)
  BY <1>1, <1>3 DEF Link, Ent
<1>5. ASSUME NEW b \in S, NEW j \in Slots
      PROVE  EntryOk(d2, r, m, own, at, S, Cell(b, j), Ent(d2, b, j))
  <2>. DEFINE x == Ent(d2, b, j)
  <2>1. EntryOk(d, r, m, own, at, S, Cell(b, j), x) /\ x \in Entries
    <3>1. EntryOk(d, r, m, own, at, S, Cell(b, j), Ent(d, b, j)) /\ Ent(d, b, j) \in Entries
      BY AsDirIs DEF Volume, Ent
    <3>. QED  BY <1>4, <3>1
  <2>. HIDE DEF x
  <2>. SUFFICES ASSUME x # Free, ~x.isdir, NEW y \in x.start..(x.start + x.size - 1)
                PROVE  d2[y] = d[y]
    BY <2>1 DEF EntryOk, x
  <2>2. y \in LBAs /\ x.size <= x.alloc /\ x.start \in Nat /\ x.size \in Nat /\ x.alloc \in Nat
    BY <2>1 DEF EntryOk, Entries
  <2>3. y \in x.start..(x.start + x.alloc - 1)
    BY <2>2
  <2>4. y \notin S
    BY <2>1, <2>3 DEF EntryOk
  <2>. QED  BY <1>3, <2>2, <2>4
<1>6. \A h \in S : Chain(d2, h) = Chain(d, h) /\ Chain(d, h) \subseteq S
  <2>1. Closed(d, S)
    BY DEF Closed, Volume
  <2>. QED  BY <1>4, <2>1, TrailSame, VolumeChain DEF Chain
<1>7. ASSUME NEW h, IsHead(d, r, S, h) PROVE Unique(d2, h)
  <2>1. h \in S /\ Unique(d, h) /\ Chain(d2, h) = Chain(d, h)
    <3>1. h \in S
      BY <1>7, HeadIs
    <3>. QED  BY <1>6, <1>7, <3>1 DEF Volume
  <2>. SUFFICES ASSUME NEW a \in Chain(d, h), NEW b \in Chain(d, h), NEW j \in Slots, NEW k \in Slots,
                       Ent(d2, a, j) # Free, Ent(d2, b, k) # Free,
                       Ent(d2, a, j).name = Ent(d2, b, k).name
                PROVE  a = b /\ j = k
    BY <2>1 DEF Unique
  <2>2. CASE a = f /\ j = i
    <3>1. Ent(d2, a, j) = e
      BY <1>4, <2>2
    <3>. QED  BY <1>4, <1>7, <2>2, <3>1
  <2>3. CASE b = f /\ k = i
    <3>1. Ent(d2, b, k) = e
      BY <1>4, <2>3
    <3>. QED  BY <1>4, <1>7, <2>3, <3>1
  <2>4. CASE ~(a = f /\ j = i) /\ ~(b = f /\ k = i)
    <3>1. Ent(d2, a, j) = Ent(d, a, j) /\ Ent(d2, b, k) = Ent(d, b, k)
      BY <1>4, <2>4
    <3>. QED  BY <2>1, <3>1 DEF Unique
  <2>. QED  BY <2>2, <2>3, <2>4
<1>8. ASSUME NEW h, AsDir(d, h) = Zero, h # f, h \in S PROVE Unique(d2, h)
  <2>1. AsDir(d2, h) = Zero /\ h \in LBAs
    BY <1>2, <1>3, <1>8
  <2>2. Closed(d2, {h})
    BY <2>1, ZeroIs DEF Closed, Link
  <2>3. Chain(d2, h) \subseteq {h}
    BY <2>2, ChainIs
  <2>4. \A j \in Slots : Ent(d2, h, j) = Free
    BY <2>1, ZeroIs DEF Ent
  <2>. QED  BY <2>3, <2>4 DEF Unique
<1>9. ASSUME NEW h, IsHead(d2, r, S, h) PROVE Unique(d2, h)
  <2>1. CASE IsHead(d, r, S, h)
    BY <1>7, <2>1
  <2>2. CASE ~IsHead(d, r, S, h)
    <3>1. e.isdir /\ h = e.start
      BY <1>4, <1>9, <2>2 DEF IsHead
    <3>2. ~Free.isdir
      BY DEF Free
    <3>3. e.start \in S
      BY <3>1, <3>2 DEF EntryOk
    <3>. QED  BY <1>8, <2>2, <3>1, <3>3
  <2>. QED  BY <2>1, <2>2
<1>10. Volume(d2, r, m, own, at, S)
  BY <1>4, <1>5, <1>9 DEF Volume
<1>. QED  BY <1>3, <1>10 DEF s, d2

\* An empty directory sector is put behind another.
LEMMA VolumeLink ==
  ASSUME NEW d, IsDisk(d), NEW r, NEW m, NEW own, NEW at, NEW S, Volume(d, r, m, own, at, S),
         NEW l \in S, NEW n \in S, l < n, AsDir(d, n) = Zero, own[n] = own[l], at[n] = at[l]
  PROVE  LET d2 == After(d, l, [AsDir(d, l) EXCEPT !.link = n])
         IN  /\ IsDisk(d2) /\ Volume(d2, r, m, own, at, S)
             /\ \A h : IsHead(d2, r, S, h) <=> IsHead(d, r, S, h)
             /\ \A h \in S : Chain(d2, h) \subseteq Chain(d, h) \cup {n}
<1>. DEFINE s == [AsDir(d, l) EXCEPT !.link = n]
            d2 == After(d, l, s)
<1>2. l \in LBAs /\ n \in LBAs /\ S \subseteq LBAs /\ n \in Nat /\ n # 0 /\ n # l
  BY Sizes DEF Volume
<1>1. s \in DirSectors /\ s.kind = "dir" /\ s.link = n /\ s.ent = AsDir(d, l).ent
  BY <1>2, AsDirIs DEF DirSectors
<1>3. /\ IsDisk(d2) /\ \A b \in LBAs : b # l => d2[b] = d[b]
      /\ \A b : b # l => AsDir(d2, b) = AsDir(d, b)
      /\ AsDir(d2, l) = s
  <2>1. s.kind = "dir" => s \in DirSectors
    BY <1>1
  <2>. HIDE DEF s
  <2>2. /\ IsDisk(d2)
        /\ \A b \in LBAs : d2[b] = IF b = l THEN s ELSE d[b]
        /\ \A b : b # l => AsDir(d2, b) = AsDir(d, b)
        /\ l \in LBAs => AsDir(d2, l) = IF s.kind = "dir" THEN s ELSE Zero
    BY <2>1, AfterIs
  <2>. QED  BY <1>1, <1>2, <2>2
<1>. HIDE DEF s, d2
<1>4. /\ \A b : b # l => Link(d2, b) = Link(d, b)
      /\ Link(d2, l) = n /\ Link(d2, n) = 0
      /\ \A b, j : Ent(d2, b, j) = Ent(d, b, j)
      /\ \A j \in Slots : Ent(d, n, j) = Free
  BY <1>1, <1>2, <1>3, ZeroIs DEF Link, Ent
<1>5. ASSUME NEW b \in S, NEW j \in Slots
      PROVE  EntryOk(d2, r, m, own, at, S, Cell(b, j), Ent(d, b, j))
  <2>. DEFINE x == Ent(d, b, j)
  <2>1. EntryOk(d, r, m, own, at, S, Cell(b, j), x) /\ x \in Entries
    BY AsDirIs DEF Volume, Ent
  <2>. HIDE DEF x
  <2>. SUFFICES ASSUME x # Free, ~x.isdir, NEW y \in x.start..(x.start + x.size - 1)
                PROVE  d2[y] = d[y]
    BY <2>1 DEF EntryOk, x
  <2>2. y \in LBAs /\ x.size <= x.alloc /\ x.start \in Nat /\ x.size \in Nat /\ x.alloc \in Nat
    BY <2>1 DEF EntryOk, Entries
  <2>3. y \in x.start..(x.start + x.alloc - 1)
    BY <2>2
  <2>4. y \notin S
    BY <2>1, <2>3 DEF EntryOk
  <2>. QED  BY <1>3, <2>2, <2>4
<1>6. \A h \in S : Chain(d2, h) \subseteq Chain(d, h) \cup {n}
  <2>1. Closed(d, S)
    BY DEF Closed, Volume
  <2>. QED  BY <1>2, <1>4, <2>1, TrailGrows
<1>7. \A h : IsHead(d2, r, S, h) <=> IsHead(d, r, S, h)
  BY <1>4 DEF IsHead
<1>8. ASSUME NEW h, IsHead(d, r, S, h) PROVE Unique(d2, h)
  <2>1. h \in S /\ Unique(d, h)
    <3>1. h \in S
      BY <1>8, HeadIs
    <3>. QED  BY <1>8, <3>1 DEF Volume
  <2>2. Chain(d2, h) \subseteq Chain(d, h) \cup {n}
    BY <1>6, <2>1
  <2>. QED  BY <1>4, <2>1, <2>2 DEF Unique
<1>9. \A b \in S : Link(d2, b) # 0 =>
       Link(d2, b) \in S /\ b < Link(d2, b) /\ own[Link(d2, b)] = own[b] /\ at[Link(d2, b)] = at[b]
  BY <1>4 DEF Volume
<1>10. Volume(d2, r, m, own, at, S)
  BY <1>4, <1>5, <1>7, <1>8, <1>9 DEF Volume
<1>. QED  BY <1>3, <1>6, <1>7, <1>10 DEF s, d2

-----------------------------------------------------------------------------
(* Paths                                                                   *)

\* R is an answer path_resolve may give for p: a directory by the sector its
\* chain starts at, and but for the root the cell of its entry, whose path is p.
Resolved(d, r, at, S, p, R) ==
  R.ok =>
    /\ R.isdir => IsHead(d, r, S, R.dir) /\ at[R.dir] = p
    /\ R.cell = NoCell => p = <<>> /\ R.isdir
    /\ R.cell # NoCell =>
         /\ R.cell = Cell(R.cell.lba, R.cell.slot) /\ R.cell.lba \in S /\ R.cell.slot \in Slots
         /\ Entry(d, R.cell) # Free /\ (R.isdir <=> Entry(d, R.cell).isdir)
         /\ Append(at[R.cell.lba], Entry(d, R.cell).name) = p

\* One step of path_resolve, with i components left (f: what the rest gives).
PathStep(d, root, p, c, f, i, dir) ==
  LET cell == chain_find(d, dir, p[Len(p) - i + 1])
      e    == Entry(d, cell)
  IN  IF i = 0 THEN [ok |-> TRUE, cell |-> NoCell, dir |-> root, isdir |-> TRUE]
      ELSE IF cell = NoCell \/ (e.isdir /\ ~perm_exec_ok(e, c)) THEN NotFound
      ELSE IF i = 1 THEN [ok |-> TRUE, cell |-> cell, dir |-> e.start, isdir |-> e.isdir]
      ELSE IF e.isdir THEN f[e.start] ELSE NotFound

\* The recursive function of path_resolve exists (by induction on its domain).
LEMMA ResolveDef ==
  ASSUME NEW d, NEW r \in LBAs, NEW p \in Seq(Names), NEW c
  PROVE  \E t : /\ \A i \in 0..Len(p), a \in LBAs : t[i][a] = PathStep(d, r, p, c, t[i - 1], i, a)
               /\ path_resolve(d, r, p, c) = t[Len(p)][r]
<1>. DEFINE Body(f, i, a) == PathStep(d, r, p, c, f, i, a)
            Ok(g, m) == g = [i \in 0..m |-> [a \in LBAs |-> Body(g[i - 1], i, a)]]
            T == { m \in Nat : \E g : Ok(g, m) }
<1>0. Len(p) \in Nat
  OBVIOUS
<1>1. 0 \in T
  <2>. DEFINE g == [i \in 0..0 |-> [a \in LBAs |-> [ok |-> TRUE, cell |-> NoCell, dir |-> r, isdir |-> TRUE]]]
  <2>1. \A f, a : Body(f, 0, a) = [ok |-> TRUE, cell |-> NoCell, dir |-> r, isdir |-> TRUE]
    BY DEF PathStep
  <2>. HIDE DEF Body
  <2>2. \A f, a : \A i \in 0..0 : Body(f, i, a) = [ok |-> TRUE, cell |-> NoCell, dir |-> r, isdir |-> TRUE]
    BY <2>1
  <2>3. Ok(g, 0)
    BY <2>2
  <2>. HIDE DEF g, Ok
  <2>. QED  BY <2>3
<1>2. ASSUME NEW m \in Nat, m \in T PROVE m + 1 \in T
  <2>1. PICK g : Ok(g, m)
    BY <1>2
  <2>. DEFINE M == m + 1
              new == [a \in LBAs |-> Body(g[m], M, a)]
              h == [i \in 0..M |-> IF i = M THEN new ELSE g[i]]
  <2>2. ASSUME NEW i \in 0..M PROVE h[i] = [a \in LBAs |-> Body(h[i - 1], i, a)]
    <3>1. CASE i = M
      <4>1. M # 0 /\ M - 1 = m /\ m \in 0..M /\ m # M
        OBVIOUS
      <4>2. h[M - 1] = g[m] /\ h[i] = new
        BY <3>1, <4>1
      <4>. HIDE DEF h, Body
      <4>. QED  BY <3>1, <4>1, <4>2
    <3>2. CASE i # M
      <4>1. i \in 0..m /\ (i # 0 => i - 1 \in 0..M /\ i - 1 # M)
        BY <3>2
      <4>2. h[i] = g[i] /\ (i # 0 => h[i - 1] = g[i - 1])
        BY <3>2, <4>1
      <4>3. g[i] = [a \in LBAs |-> Body(g[i - 1], i, a)]
        <5>. HIDE DEF Body
        <5>. QED  BY <2>1, <4>1
      <4>4. \A a \in LBAs : Body(g[i - 1], i, a) = Body(h[i - 1], i, a)
        <5>1. CASE i = 0
          BY <5>1 DEF PathStep
        <5>2. CASE i # 0
          <6>. HIDE DEF h, Body
          <6>. QED  BY <4>2, <5>2
        <5>. QED  BY <5>1, <5>2
      <4>. HIDE DEF h, Body
      <4>. QED  BY <4>2, <4>3, <4>4
    <3>. QED  BY <3>1, <3>2
  <2>3. Ok(h, M)
    <3>. HIDE DEF Body
    <3>. QED  BY <2>2
  <2>. HIDE DEF h, Ok
  <2>. QED  BY <2>3
<1>3. Len(p) \in T
  <2>. HIDE DEF T
  <2>. QED  BY <1>0, <1>1, <1>2, Induction
<1>. DEFINE t == CHOOSE g : Ok(g, Len(p))
<1>4. Ok(t, Len(p))
  BY <1>3
<1>5. path_resolve(d, r, p, c) = t[Len(p)][r]
  BY DEF path_resolve, PathStep
<1>6. ASSUME NEW i \in 0..Len(p), NEW a \in LBAs PROVE t[i][a] = Body(t[i - 1], i, a)
  <2>. HIDE DEF Body
  <2>1. t[i] = [b \in LBAs |-> Body(t[i - 1], i, b)]
    <3>. HIDE DEF t
    <3>. QED  BY <1>4
  <2>. HIDE DEF t
  <2>. QED  BY <2>1
<1>. HIDE DEF t
<1>. QED  BY <1>5, <1>6

\* What path_resolve answers about a volume is true of it.
LEMMA ResolveIs ==
  ASSUME NEW d, IsDisk(d), NEW r, NEW m, NEW own, NEW at, NEW S, Volume(d, r, m, own, at, S),
         NEW p \in Seq(Names), NEW c
  PROVE  Resolved(d, r, at, S, p, path_resolve(d, r, p, c))
<1>1. S \subseteq LBAs /\ r \in S /\ r \in LBAs /\ at[r] = <<>> /\ IsHead(d, r, S, r)
  BY DEF Volume, IsHead
<1>2. PICK t : /\ \A i \in 0..Len(p), a \in LBAs : t[i][a] = PathStep(d, r, p, c, t[i - 1], i, a)
               /\ path_resolve(d, r, p, c) = t[Len(p)][r]
  BY <1>1, ResolveDef
<1>3. Len(p) \in Nat
  OBVIOUS
<1>4. CASE p = <<>>
  <2>1. path_resolve(d, r, p, c) = [ok |-> TRUE, cell |-> NoCell, dir |-> r, isdir |-> TRUE]
    <3>1. Len(p) = 0 /\ 0 \in 0..Len(p)
      BY <1>4
    <3>2. t[0][r] = PathStep(d, r, p, c, t[0 - 1], 0, r)
      BY <1>1, <1>2, <3>1
    <3>. QED  BY <1>2, <3>1, <3>2 DEF PathStep
  <2>. QED  BY <2>1, <1>1, <1>4 DEF Resolved
<1>5. CASE p # <<>>
  <2>. DEFINE At(i) == SubSeq(p, 1, Len(p) - i)
              Ok(i) == \A a : IsHead(d, r, S, a) /\ at[a] = At(i) => Resolved(d, r, at, S, p, t[i][a])
              T == { i \in Nat : i + 1 <= Len(p) => Ok(i + 1) }
  <2>1. ASSUME NEW i \in 1..Len(p), i # 1 => Ok(i - 1) PROVE Ok(i)
    <3>. SUFFICES ASSUME NEW a, IsHead(d, r, S, a), at[a] = At(i)
                  PROVE  Resolved(d, r, at, S, p, t[i][a])
      OBVIOUS
    <3>. DEFINE k == Len(p) - i + 1
                name == p[k]
                cell == chain_find(d, a, name)
                e == Entry(d, cell)
    <3>1. a \in S /\ a \in LBAs
      <4>1. a \in S
        BY HeadIs
      <4>. QED  BY <4>1, <1>1
    <3>2. /\ k \in 1..Len(p) /\ name \in Names /\ Len(p) - (i - 1) = k /\ Len(p) - i = k - 1
      BY ElementOfSeq
    <3>3. Append(At(i), name) = At(i - 1)
      <4>1. SubSeq(p, 1, k) = SubSeq(p, 1, k - 1) \o <<p[k]>>
        <5>1. 1 \in 1..Len(p) /\ k \in 1..Len(p)
          BY <3>2
        <5>. HIDE DEF k
        <5>. QED  BY <5>1, SubSeqRecursiveSecond
      <4>2. SubSeq(p, 1, k - 1) \in Seq(Names)
        <5>1. \A j \in 1..(k - 1) : p[j] \in Names
          BY <3>2, ElementOfSeq
        <5>2. 1 \in Int /\ k - 1 \in Int
          BY <3>2
        <5>. HIDE DEF k
        <5>. QED  BY <5>1, <5>2, SubSeqProperties
      <4>3. \A q \in Seq(Names), x \in Names : Append(q, x) = q \o <<x>>
        OBVIOUS
      <4>4. At(i) = SubSeq(p, 1, k - 1) /\ At(i - 1) = SubSeq(p, 1, k)
        BY <3>2
      <4>. HIDE DEF k, At
      <4>. QED  BY <3>2, <4>1, <4>2, <4>3, <4>4
    <3>. HIDE DEF k
    <3>4. t[i][a] = IF cell = NoCell \/ (e.isdir /\ ~perm_exec_ok(e, c)) THEN NotFound
                    ELSE IF i = 1 THEN [ok |-> TRUE, cell |-> cell, dir |-> e.start, isdir |-> e.isdir]
                    ELSE IF e.isdir THEN t[i - 1][e.start] ELSE NotFound
      BY <1>2, <3>1 DEF PathStep, k
    <3>. HIDE DEF name
    <3>0. Resolved(d, r, at, S, p, NotFound)
      BY DEF Resolved, NotFound
    <3>. SUFFICES ASSUME cell # NoCell PROVE Resolved(d, r, at, S, p, t[i][a])
      <4>. HIDE DEF cell
      <4>. QED  BY <3>0, <3>4
    <3>5. /\ cell = Cell(cell.lba, cell.slot) /\ cell.lba \in Chain(d, a) /\ cell.slot \in Slots
          /\ e.name = name
      <4>1. Closed(d, S)
        BY <3>1, VolumeChain
      <4>. QED  BY <3>1, <4>1, FindIs DEF Cell
    <3>6. cell.lba \in S /\ at[cell.lba] = At(i)
      BY <3>1, <3>5, VolumeChain
    <3>. HIDE DEF cell
    <3>7. e # Free /\ e \in Entries /\ e = Ent(d, cell.lba, cell.slot)
      <4>1. e \in Entries /\ e = Ent(d, cell.lba, cell.slot)
        BY <3>5, AsDirIs DEF Entry, Ent
      <4>2. name # ""
        BY <3>2, PdfsAssumption
      <4>. HIDE DEF e
      <4>3. e # Free
        <5>1. Free.name = ""
          BY DEF Free
        <5>2. e.name = name
          BY <3>5 DEF e
        <5>. QED  BY <4>2, <5>1, <5>2
      <4>. QED  BY <4>1, <4>3 DEF e
    <3>8. EntryOk(d, r, m, own, at, S, cell, e)
      <4>1. EntryOk(d, r, m, own, at, S, Cell(cell.lba, cell.slot), Ent(d, cell.lba, cell.slot))
        BY <3>5, <3>6 DEF Volume
      <4>. HIDE DEF e
      <4>. QED  BY <3>5, <3>7, <4>1
    <3>. HIDE DEF e, At
    <3>9. e.isdir => IsHead(d, r, S, e.start) /\ at[e.start] = At(i - 1)
      <4>1. e.isdir => at[e.start] = Append(at[cell.lba], e.name)
        BY <3>7, <3>8 DEF EntryOk
      <4>2. e.isdir => IsHead(d, r, S, e.start)
        BY <3>5, <3>6, <3>7 DEF IsHead
      <4>. QED  BY <3>3, <3>5, <3>6, <4>1, <4>2
    <3>10. CASE i = 1
      <4>1. At(i - 1) = p
        BY <3>10, SubSeqFull DEF At
      <4>2. CASE e.isdir /\ ~perm_exec_ok(e, c)
        BY <3>0, <3>4, <4>2
      <4>3. CASE ~(e.isdir /\ ~perm_exec_ok(e, c))
        <5>1. t[i][a] = [ok |-> TRUE, cell |-> cell, dir |-> e.start, isdir |-> e.isdir]
          BY <3>4, <3>10, <4>3
        <5>2. Append(at[cell.lba], e.name) = p
          BY <3>3, <3>5, <3>6, <4>1
        <5>3. e = Entry(d, cell)
          BY DEF e
        <5>4. e.isdir \in BOOLEAN
          BY <3>7 DEF Entries
        <5>. DEFINE R == t[i][a]
        <5>5. R.cell = cell /\ R.dir = e.start /\ R.isdir = e.isdir
          BY <5>1
        <5>. HIDE DEF R
        <5>6. Resolved(d, r, at, S, p, R)
          BY <3>5, <3>6, <3>7, <3>9, <4>1, <5>2, <5>3, <5>4, <5>5 DEF Resolved
        <5>. QED  BY <5>6 DEF R
      <4>. QED  BY <4>2, <4>3
    <3>11. CASE i # 1
      <4>1. Ok(i - 1)
        BY <2>1, <3>11
      <4>. QED  BY <3>0, <3>4, <3>9, <3>11, <4>1
    <3>. QED  BY <3>10, <3>11
  <2>2. 0 \in T
    <3>1. 1 <= Len(p) => 1 \in 1..Len(p)
      BY <1>3
    <3>2. 1 <= Len(p) => Ok(1)
      <4>. HIDE DEF Ok
      <4>. QED  BY <2>1, <3>1
    <3>. HIDE DEF Ok
    <3>. QED  BY <3>2
  <2>3. ASSUME NEW i \in Nat, i \in T PROVE i + 1 \in T
    <3>. SUFFICES ASSUME (i + 1) + 1 <= Len(p) PROVE Ok((i + 1) + 1)
      <4>. HIDE DEF Ok
      <4>. QED  OBVIOUS
    <3>1. (i + 1) + 1 \in 1..Len(p) /\ ((i + 1) + 1) - 1 = i + 1 /\ i + 1 <= Len(p)
      BY <1>3
    <3>. HIDE DEF Ok
    <3>. QED  BY <2>1, <2>3, <3>1
  <2>4. Ok(Len(p))
    <3>1. Len(p) - 1 \in Nat /\ (Len(p) - 1) + 1 = Len(p)
      BY <1>5, EmptySeq
    <3>2. Len(p) - 1 \in T
      <4>. HIDE DEF T
      <4>. QED  BY <2>2, <2>3, <3>1, Induction
    <3>. HIDE DEF Ok
    <3>. QED  BY <1>3, <3>1, <3>2
  <2>5. At(Len(p)) = <<>>
    BY <1>3, SubSeqEmpty
  <2>. HIDE DEF At
  <2>. QED  BY <1>1, <1>2, <2>4, <2>5
<1>. QED  BY <1>4, <1>5

-----------------------------------------------------------------------------
(* Disks with a volume                                                     *)

\* The superblock of a volume with root r.
Sb(r, n) == [version |-> VERSION, dir |-> r, next |-> n]

\* n is the allocator's pointer on the disk; the sectors from m to n belong to
\* a call that has not linked them yet.
Vol(d, r, n, m, own, at, S) ==
  IsDisk(d) /\ d[BASE] = SbSector(Sb(r, n)) /\ n \in Nat /\ m <= n /\ Volume(d, r, m, own, at, S)

\* The disk holds a volume.
Good(d) == \E r, n, m, own, at, S : Vol(d, r, n, m, own, at, S)

\* Where the parts of a volume lie.
LEMMA VolBounds ==
  ASSUME NEW d, NEW r, NEW n, NEW m, NEW own, NEW at, NEW S, Vol(d, r, n, m, own, at, S)
  PROVE  /\ r \in S /\ S \subseteq LBAs /\ m \in Nat /\ n \in Nat /\ m <= n /\ r \in Nat /\ BASE < r
         /\ BASE \notin S /\ BASE \in LBAs /\ BASE \in Nat
         /\ \A f \in S : f \in Nat /\ r <= f /\ f < m /\ f < n
         /\ \A x \in Nat : m <= x => x # BASE /\ x \notin S
<1>1. /\ r \in S /\ S \subseteq LBAs /\ m \in Nat /\ n \in Nat /\ m <= n /\ BASE < r
      /\ \A f \in S : r <= f /\ f < m
  BY DEF Vol, Volume
<1>2. r \in Nat /\ BASE \in Nat /\ BASE \in LBAs /\ \A f \in S : f \in Nat
  BY <1>1, Sizes
<1>3. \A f \in S : f < n
  BY <1>1, <1>2
<1>4. \A x \in Nat : m <= x => x # BASE /\ x \notin S
  BY <1>1, <1>2
<1>5. BASE \notin S
  BY <1>1, <1>2
<1>. QED  BY <1>1, <1>2, <1>3, <1>4, <1>5

\* Sectors that the allocator gave out are taken into the volume.
LEMMA VolExtends ==
  ASSUME NEW d, NEW r, NEW n, NEW m, NEW own, NEW at, NEW S, Vol(d, r, n, m, own, at, S),
         NEW m2 \in Nat, m <= m2, m2 <= n,
         NEW own2, NEW at2, NEW S2, S \subseteq S2, S2 \subseteq LBAs,
         \A x \in Nat : x < m => own2[x] = own[x] /\ at2[x] = at[x],
         \A f \in S2 \ S : m <= f /\ f < m2 /\ AsDir(d, f) = Zero
  PROVE  Vol(d, r, n, m2, own2, at2, S2)
BY VolumeExtends DEF Vol

\* The allocator's pointer is saved.
LEMMA VolFlush ==
  ASSUME NEW d, NEW r, NEW n, NEW m, NEW own, NEW at, NEW S, Vol(d, r, n, m, own, at, S),
         NEW n2 \in Nat, n <= n2
  PROVE  LET d2 == After(d, BASE, SbSector(Sb(r, n2)))
         IN  /\ Vol(d2, r, n2, m, own, at, S)
             /\ \A x : x # BASE => AsDir(d2, x) = AsDir(d, x)
<1>. DEFINE s == SbSector(Sb(r, n2))
            d2 == After(d, BASE, s)
<1>1. s.kind = "sb"
  BY DEF SbSector
<1>. HIDE DEF s
<1>2. /\ IsDisk(d2) /\ d2[BASE] = s
      /\ \A x \in LBAs : x # BASE => d2[x] = d[x]
      /\ \A x : x # BASE => AsDir(d2, x) = AsDir(d, x)
  BY <1>1, VolBounds, AfterIs DEF Vol
<1>. HIDE DEF d2
<1>3. Volume(d2, r, m, own, at, S)
  <2>1. IsDisk(d) /\ Volume(d, r, m, own, at, S)
    BY DEF Vol
  <2>2. \A f \in S : AsDir(d2, f) = AsDir(d, f)
    BY <1>2, VolBounds
  <2>3. \A x \in LBAs : r <= x => d2[x] = d[x]
    <3>1. \A x \in LBAs : r <= x => x # BASE
      BY VolBounds, Sizes
    <3>. QED  BY <1>2, <3>1
  <2>. QED  BY <2>1, <2>2, <2>3, VolumeSame
<1>4. m <= n2
  BY VolBounds
<1>5. Vol(d2, r, n2, m, own, at, S)
  BY <1>2, <1>3, <1>4 DEF Vol, s
<1>. QED  BY <1>2, <1>5 DEF s, d2

\* A sector that is no directory's is written: a new one, or one of a file
\* with data of that file.
LEMMA VolOther ==
  ASSUME NEW d, NEW r, NEW n, NEW m, NEW own, NEW at, NEW S, Vol(d, r, n, m, own, at, S),
         NEW x \in Nat, NEW s, s.kind = "dir" => s \in DirSectors,
         x # BASE, x \notin S,
         \/ m <= x
         \/ \E f \in S, i \in Slots : /\ own[x] = Cell(f, i) /\ s.kind = "data"
                                     /\ s.path = Append(at[f], Ent(d, f, i).name)
  PROVE  LET d2 == After(d, x, s)
         IN  /\ Vol(d2, r, n, m, own, at, S)
             /\ \A y : y # x => AsDir(d2, y) = AsDir(d, y)
             /\ \A y \in LBAs : d2[y] = IF y = x THEN s ELSE d[y]
             /\ x \in LBAs => AsDir(d2, x) = IF s.kind = "dir" THEN s ELSE Zero
<1>. DEFINE d2 == After(d, x, s)
<1>1. /\ IsDisk(d2)
      /\ \A y \in LBAs : d2[y] = IF y = x THEN s ELSE d[y]
      /\ \A y : y # x => AsDir(d2, y) = AsDir(d, y)
      /\ x \in LBAs => AsDir(d2, x) = IF s.kind = "dir" THEN s ELSE Zero
  BY AfterIs DEF Vol
<1>. HIDE DEF d2
<1>2. IsDisk(d) /\ Volume(d, r, m, own, at, S)
  BY DEF Vol
<1>3. \A f \in S : AsDir(d2, f) = AsDir(d, f)
  BY <1>1
<1>4. \A y \in LBAs : r <= y /\ y < m /\ y \notin S =>
        \/ d2[y] = d[y]
        \/ \E f \in S, i \in Slots : /\ own[y] = Cell(f, i) /\ d2[y].kind = "data"
                                    /\ d2[y].path = Append(at[f], Ent(d, f, i).name)
  <2>. SUFFICES ASSUME x \in LBAs, x < m
                PROVE  \E f \in S, i \in Slots : /\ own[x] = Cell(f, i) /\ s.kind = "data"
                                                /\ s.path = Append(at[f], Ent(d, f, i).name)
    BY <1>1
  <2>. QED  BY VolBounds
<1>5. Volume(d2, r, m, own, at, S)
  BY <1>2, <1>3, <1>4, VolumeSame
<1>6. Vol(d2, r, n, m, own, at, S)
  BY <1>1, <1>5, VolBounds DEF Vol
<1>. QED  BY <1>1, <1>6 DEF d2

\* A sector of a file is written with data of that file.
LEMMA VolData ==
  ASSUME NEW d, NEW r, NEW n, NEW m, NEW own, NEW at, NEW S, Vol(d, r, n, m, own, at, S),
         NEW f \in S, NEW i \in Slots, NEW x \in Nat, x # BASE, x \notin S, own[x] = Cell(f, i),
         NEW t, t.kind = "data", t.path = Append(at[f], Ent(d, f, i).name)
  PROVE  /\ Vol(After(d, x, t), r, n, m, own, at, S)
         /\ \A y : y # x => AsDir(After(d, x, t), y) = AsDir(d, y)
         /\ \A y \in LBAs : After(d, x, t)[y] = IF y = x THEN t ELSE d[y]
BY VolOther

\* An entry is written (flush_slot).
LEMMA VolEntry ==
  ASSUME NEW d, NEW r, NEW n, NEW m, NEW own, NEW at, NEW S, Vol(d, r, n, m, own, at, S),
         NEW f \in S, NEW i \in Slots, NEW e \in Entries,
         EntryOk(d, r, m, own, at, S, Cell(f, i), e),
         e # Free => \A h : IsHead(d, r, S, h) /\ f \in Chain(d, h) =>
           \A g \in Chain(d, h), j \in Slots :
             Ent(d, g, j) # Free /\ Ent(d, g, j).name = e.name => g = f /\ j = i,
         e.isdir => IsHead(d, r, S, e.start) \/ (AsDir(d, e.start) = Zero /\ e.start # f)
  PROVE  Vol(After(d, f, [AsDir(d, f) EXCEPT !.ent[i] = e]), r, n, m, own, at, S)
<1>. DEFINE s == [AsDir(d, f) EXCEPT !.ent[i] = e]
<1>1. IsDisk(After(d, f, s)) /\ Volume(After(d, f, s), r, m, own, at, S)
  BY VolumeEntry DEF Vol
<1>2. After(d, f, s)[BASE] = d[BASE]
  <2>. HIDE DEF s
  <2>. QED  BY VolBounds DEF After, Vol, IsDisk
<1>. HIDE DEF s
<1>3. Vol(After(d, f, s), r, n, m, own, at, S)
  BY <1>1, <1>2 DEF Vol
<1>. QED  BY <1>3 DEF s

\* A directory is extended by an empty sector.
LEMMA VolLink ==
  ASSUME NEW d, NEW r, NEW n, NEW m, NEW own, NEW at, NEW S, Vol(d, r, n, m, own, at, S),
         NEW l \in S, NEW k \in S, l < k, AsDir(d, k) = Zero, own[k] = own[l], at[k] = at[l]
  PROVE  LET d2 == After(d, l, [AsDir(d, l) EXCEPT !.link = k])
         IN  /\ Vol(d2, r, n, m, own, at, S)
             /\ \A h : IsHead(d2, r, S, h) <=> IsHead(d, r, S, h)
             /\ \A h \in S : Chain(d2, h) \subseteq Chain(d, h) \cup {k}
<1>. DEFINE s == [AsDir(d, l) EXCEPT !.link = k]
            d2 == After(d, l, s)
<1>1. /\ IsDisk(d2) /\ Volume(d2, r, m, own, at, S)
      /\ \A h : IsHead(d2, r, S, h) <=> IsHead(d, r, S, h)
      /\ \A h \in S : Chain(d2, h) \subseteq Chain(d, h) \cup {k}
  BY VolumeLink DEF Vol
<1>. HIDE DEF s
<1>2. d2[BASE] = d[BASE]
  BY VolBounds DEF After, Vol, IsDisk
<1>. HIDE DEF d2
<1>3. Vol(d2, r, n, m, own, at, S)
  BY <1>1, <1>2 DEF Vol
<1>. QED  BY <1>1, <1>3 DEF s, d2

-----------------------------------------------------------------------------
(* What a write leaves of the names                                        *)

\* The chain of a directory ends with a sector that links to none: links only
\* lead forward.
LEMMA EndIs ==
  ASSUME NEW d, NEW r, NEW m, NEW own, NEW at, NEW S, Volume(d, r, m, own, at, S), NEW f \in S
  PROVE  Link(d, ChainEnd(d, f)) = 0
<1>1. PICK t : Trails(d, t) /\ \A b \in LBAs : Trail(d, b) = t[TOTAL][b]
  BY TrailDef
<1>2. /\ TOTAL \in Nat /\ S \subseteq LBAs /\ \A b \in S : b \in Nat /\ b <= TOTAL
      /\ \A b \in S : Link(d, b) # 0 => Link(d, b) \in S /\ b < Link(d, b)
  BY Sizes DEF Volume, LBAs
<1>. DEFINE Ends(s) == s \in Seq(S) /\ s # <<>> /\ Link(d, s[Len(s)]) = 0
            Ok(n) == \A b \in S : TOTAL <= b + n => Ends(t[n][b])
            T == { n \in Nat : n <= TOTAL => Ok(n) }
<1>3. \A b \in S : Link(d, b) = 0 => Ends(<<b>>)
  OBVIOUS
<1>4. ASSUME NEW b \in S, NEW s, Ends(s) PROVE Ends(<<b>> \o s)
  <2>1. /\ <<b>> \o s \in Seq(S) /\ Len(<<b>> \o s) = 1 + Len(s) /\ Len(s) \in Nat \ {0}
        /\ \A j \in 1..(1 + Len(s)) : (<<b>> \o s)[j] = IF j <= 1 THEN <<b>>[j] ELSE s[j - 1]
    <3>1. <<b>> \in Seq(S) /\ Len(<<b>>) = 1
      OBVIOUS
    <3>2. Len(s) \in Nat \ {0}
      BY <1>4, EmptySeq
    <3>. QED  BY <1>4, <3>1, <3>2, ConcatProperties
  <2>2. (<<b>> \o s)[1 + Len(s)] = s[Len(s)]
    BY <2>1
  <2>3. <<b>> \o s # <<>>
    BY <2>1
  <2>. QED  BY <1>4, <2>1, <2>2, <2>3
<1>5. 0 \in T
  <2>1. ASSUME NEW b \in S, TOTAL <= b + 0 PROVE Ends(t[0][b])
    <3>1. b \in Nat /\ b = TOTAL /\ 0 \in 0..TOTAL /\ b \in LBAs
      BY <1>2, <2>1
    <3>2. Link(d, b) = 0
      <4>1. Link(d, b) # 0 => Link(d, b) \in Nat /\ Link(d, b) <= TOTAL /\ b < Link(d, b)
        BY <1>2
      <4>. QED  BY <3>1, <4>1
    <3>3. t[0][b] = <<b>>
      BY <1>1, <3>1 DEF Trails
    <3>. QED  BY <1>3, <3>2, <3>3
  <2>. QED  BY <2>1
<1>6. ASSUME NEW n \in Nat, n \in T PROVE n + 1 \in T
  <2>. SUFFICES ASSUME n + 1 <= TOTAL, NEW b \in S, TOTAL <= b + (n + 1) PROVE Ends(t[n + 1][b])
    <3>. HIDE DEF Ends
    <3>. QED  OBVIOUS
  <2>1. n + 1 \in 0..TOTAL /\ n + 1 # 0 /\ (n + 1) - 1 = n /\ n <= TOTAL /\ b \in LBAs
    BY <1>2
  <2>2. t[n + 1][b] = IF Link(d, b) = 0 THEN <<b>> ELSE <<b>> \o t[n][Link(d, b)]
    BY <2>1, <1>1 DEF Trails
  <2>3. ASSUME Link(d, b) # 0 PROVE Ends(t[n][Link(d, b)])
    <3>1. Link(d, b) \in S /\ b < Link(d, b) /\ Link(d, b) \in Nat /\ b \in Nat
      BY <1>2, <2>3
    <3>2. TOTAL <= Link(d, b) + n
      BY <1>2, <3>1
    <3>3. Ok(n)
      <4>. HIDE DEF Ok
      <4>. QED  BY <1>6, <2>1
    <3>. HIDE DEF Ends
    <3>. QED  BY <3>1, <3>2, <3>3
  <2>. HIDE DEF Ends
  <2>. QED  BY <1>3, <1>4, <2>2, <2>3
<1>7. TOTAL \in T
  <2>. HIDE DEF T
  <2>. QED  BY <1>2, <1>5, <1>6, Induction
<1>8. Ends(t[TOTAL][f])
  <2>1. f \in Nat /\ TOTAL <= f + TOTAL /\ TOTAL <= TOTAL
    BY <1>2
  <2>. HIDE DEF Ends
  <2>. QED  BY <1>7, <2>1
<1>. QED  BY <1>1, <1>2, <1>8 DEF ChainEnd, Last

\* A sector that links to none is put behind one that did: walks lose nothing.
LEMMA TrailKeeps ==
  ASSUME NEW d, NEW d2, NEW K, Closed(d, K), NEW l, Link(d, l) = 0, NEW n \in LBAs,
         Link(d2, l) = n, Link(d2, n) = 0, \A b \in K : b # l => Link(d2, b) = Link(d, b),
         NEW a \in K
  PROVE  Chain(d, a) \subseteq Chain(d2, a)
<1>1. PICK t : Trails(d, t) /\ \A b \in LBAs : Trail(d, b) = t[TOTAL][b]
  BY TrailDef
<1>2. PICK u : Trails(d2, u) /\ \A b \in LBAs : Trail(d2, b) = u[TOTAL][b]
  BY TrailDef
<1>. DEFINE K2 == K \cup {n}
            Ok(i) == \A b \in K : /\ t[i][b] \in Seq(K) /\ u[i][b] \in Seq(K2)
                                  /\ ToSet(t[i][b]) \subseteq ToSet(u[i][b])
            T == { i \in Nat : i <= TOTAL => Ok(i) }
<1>3. K \subseteq LBAs /\ TOTAL \in Nat /\ \A b \in K : Link(d, b) # 0 => Link(d, b) \in K
  BY Sizes DEF Closed
<1>4. 0 \in T
  <2>1. 0 \in 0..TOTAL
    BY <1>3
  <2>2. \A b \in LBAs : t[0][b] = <<b>> /\ u[0][b] = <<b>>
    BY <1>1, <1>2, <2>1 DEF Trails
  <2>3. \A b \in K : <<b>> \in Seq(K) /\ <<b>> \in Seq(K2)
    OBVIOUS
  <2>4. Ok(0)
    BY <1>3, <2>2, <2>3
  <2>. HIDE DEF Ok
  <2>. QED  BY <2>4
<1>5. ASSUME NEW i \in Nat, i \in T PROVE i + 1 \in T
  <2>. SUFFICES ASSUME i + 1 <= TOTAL, NEW b \in K
                PROVE  /\ t[i + 1][b] \in Seq(K) /\ u[i + 1][b] \in Seq(K2)
                       /\ ToSet(t[i + 1][b]) \subseteq ToSet(u[i + 1][b])
    <3>. SUFFICES ASSUME i + 1 <= TOTAL PROVE Ok(i + 1)
      <4>. HIDE DEF Ok
      <4>. QED  OBVIOUS
    <3>. QED  OBVIOUS
  <2>1. i + 1 \in 0..TOTAL /\ i + 1 # 0 /\ (i + 1) - 1 = i /\ i <= TOTAL /\ b \in LBAs /\ i \in 0..TOTAL
    BY <1>3
  <2>2. t[i + 1][b] = IF Link(d, b) = 0 THEN <<b>> ELSE <<b>> \o t[i][Link(d, b)]
    BY <2>1, <1>1 DEF Trails
  <2>3. u[i + 1][b] = IF Link(d2, b) = 0 THEN <<b>> ELSE <<b>> \o u[i][Link(d2, b)]
    BY <2>1, <1>2 DEF Trails
  <2>4. Ok(i)
    <3>. HIDE DEF Ok
    <3>. QED  BY <1>5, <2>1
  <2>5. u[i][n] = <<n>>
    BY <1>2, <2>1 DEF Trails
  <2>6. CASE Link(d, b) # 0
    <3>1. Link(d2, b) = Link(d, b) /\ Link(d, b) \in K
      BY <1>3, <2>6
    <3>2. /\ <<b>> \o t[i][Link(d, b)] \in Seq(K)
          /\ ToSet(<<b>> \o t[i][Link(d, b)]) = {b} \cup ToSet(t[i][Link(d, b)])
      BY <2>4, <3>1, SetOfSeq
    <3>3. /\ <<b>> \o u[i][Link(d, b)] \in Seq(K2)
          /\ ToSet(<<b>> \o u[i][Link(d, b)]) = {b} \cup ToSet(u[i][Link(d, b)])
      <4>1. u[i][Link(d, b)] \in Seq(K2) /\ b \in K2
        BY <2>4, <3>1
      <4>. HIDE DEF K2
      <4>. QED  BY <4>1, SetOfSeq
    <3>. QED  BY <2>2, <2>3, <2>4, <2>6, <3>1, <3>2, <3>3
  <2>7. CASE Link(d, b) = 0
    <3>1. t[i + 1][b] = <<b>> /\ ToSet(<<b>>) = {b}
      BY <2>2, <2>7 DEF ToSet
    <3>2. u[i + 1][b] \in Seq(K2) /\ b \in ToSet(u[i + 1][b])
      <4>1. CASE b = l
        <5>1. u[i + 1][b] = <<b>> \/ u[i + 1][b] = <<b>> \o <<n>>
          BY <2>3, <2>5, <4>1
        <5>2. <<b>> \in Seq(K2) /\ b \in ToSet(<<b>>)
          BY DEF ToSet
        <5>3. <<b>> \o <<n>> \in Seq(K2) /\ ToSet(<<b>> \o <<n>>) = {b} \cup ToSet(<<n>>)
          <6>1. <<n>> \in Seq(K2) /\ b \in K2
            OBVIOUS
          <6>2. PICK s : s = <<n>>
            OBVIOUS
          <6>. HIDE DEF K2
          <6>3. <<b>> \o s \in Seq(K2) /\ ToSet(<<b>> \o s) = {b} \cup ToSet(s)
            <7>1. s \in Seq(K2)
              BY <6>1, <6>2
            <7>. QED  BY ONLY <6>1, <7>1, SetOfSeq
          <6>. QED  BY <6>2, <6>3
        <5>. QED  BY <5>1, <5>2, <5>3
      <4>2. CASE b # l
        <5>1. u[i + 1][b] = <<b>>
          BY <2>3, <2>7, <4>2
        <5>. QED  BY <5>1 DEF ToSet
      <4>. QED  BY <4>1, <4>2
    <3>. QED  BY <3>1, <3>2
  <2>. QED  BY <2>6, <2>7
<1>6. TOTAL \in T
  <2>. HIDE DEF T
  <2>. QED  BY <1>3, <1>4, <1>5, Induction
<1>7. Ok(TOTAL)
  <2>1. TOTAL <= TOTAL
    BY <1>3
  <2>. HIDE DEF Ok
  <2>. QED  BY <1>6, <2>1
<1>. QED  BY <1>1, <1>2, <1>3, <1>7 DEF Chain

\* chain_find on a volume: the one slot of the directory that has the name.
LEMMA FindsIs ==
  ASSUME NEW d, IsDisk(d), NEW r, NEW m, NEW own, NEW at, NEW S, Volume(d, r, m, own, at, S),
         NEW a, IsHead(d, r, S, a), NEW x \in Names
  PROVE  LET c == chain_find(d, a, x)
         IN  /\ \/ /\ c = NoCell
                   /\ \A g \in Chain(d, a), i \in Slots : Ent(d, g, i).name # x
                \/ /\ c # NoCell
                   /\ \E g \in Chain(d, a), i \in Slots :
                        /\ c = Cell(g, i) /\ g \in S /\ at[g] = at[a] /\ Entry(d, c) = Ent(d, g, i)
                        /\ Ent(d, g, i).name = x /\ Ent(d, g, i) # Free /\ Ent(d, g, i) \in Entries
             /\ \A g \in Chain(d, a), i \in Slots : Ent(d, g, i).name = x => c = Cell(g, i) /\ c # NoCell
<1>. DEFINE c == chain_find(d, a, x)
<1>1. a \in S /\ Unique(d, a) /\ Closed(d, S) /\ \A b \in Chain(d, a) : b \in S /\ at[b] = at[a]
  <2>1. a \in S
    BY HeadIs
  <2>2. Unique(d, a)
    BY DEF Volume
  <2>3. Closed(d, S) /\ \A b \in Chain(d, a) : b \in S /\ at[b] = at[a]
    BY <2>1, VolumeChain
  <2>. QED  BY <2>1, <2>2, <2>3
<1>2. \A g, i : Ent(d, g, i).name = x => Ent(d, g, i) # Free
  <2>1. x # "" /\ Free.name = ""
    BY PdfsAssumption DEF Free
  <2>. QED  BY <2>1
<1>3. \/ /\ c # NoCell /\ c = [lba |-> c.lba, slot |-> c.slot]
         /\ c.lba \in Chain(d, a) /\ c.slot \in Slots /\ Entry(d, c).name = x
      \/ /\ c = NoCell
         /\ \A b \in Chain(d, a), i \in Slots : ~(AsDir(d, b).ent[i].name = x)
  BY <1>1, FindIs
<1>. HIDE DEF c
<1>4. CASE c = NoCell
  <2>1. \A g \in Chain(d, a), i \in Slots : Ent(d, g, i).name # x
    BY <1>3, <1>4 DEF Ent
  <2>. QED  BY <1>4, <2>1 DEF c
<1>5. CASE c # NoCell
  <2>. DEFINE f == c.lba
              j == c.slot
  <2>1. c = Cell(f, j) /\ f \in Chain(d, a) /\ j \in Slots /\ Entry(d, c) = Ent(d, f, j) /\ Ent(d, f, j).name = x
    BY <1>3, <1>5 DEF Cell, Ent, Entry
  <2>. HIDE DEF f, j
  <2>2. Ent(d, f, j) # Free /\ Ent(d, f, j) \in Entries /\ f \in S /\ at[f] = at[a]
    BY <1>1, <1>2, <2>1, AsDirIs DEF Ent
  <2>3. ASSUME NEW g \in Chain(d, a), NEW i \in Slots, Ent(d, g, i).name = x PROVE c = Cell(g, i)
    <3>1. g = f /\ i = j
      BY <1>1, <1>2, <2>1, <2>3 DEF Unique
    <3>. QED  BY <2>1, <3>1
  <2>. QED  BY <1>5, <2>1, <2>2, <2>3 DEF c
<1>. QED  BY <1>4, <1>5

\* Below a head: the directory that an entry of it leads to.
LEMMA HeadBelow ==
  ASSUME NEW d, IsDisk(d), NEW r, NEW m, NEW own, NEW at, NEW S, Volume(d, r, m, own, at, S),
         NEW a, IsHead(d, r, S, a), NEW x \in Names,
         chain_find(d, a, x) # NoCell, Entry(d, chain_find(d, a, x)).isdir
  PROVE  LET b == Entry(d, chain_find(d, a, x)).start
         IN  IsHead(d, r, S, b) /\ b \in LBAs /\ at[b] = Append(at[a], x)
<1>. DEFINE c == chain_find(d, a, x)
<1>1. PICK g \in S, i \in Slots :
        /\ c = Cell(g, i) /\ at[g] = at[a] /\ Entry(d, c) = Ent(d, g, i)
        /\ Ent(d, g, i).name = x /\ Ent(d, g, i) # Free
  BY FindsIs
<1>. HIDE DEF c
<1>2. Ent(d, g, i).isdir
  BY <1>1 DEF c
<1>3. IsHead(d, r, S, Ent(d, g, i).start)
  BY <1>2 DEF IsHead
<1>4. EntryOk(d, r, m, own, at, S, Cell(g, i), Ent(d, g, i)) /\ S \subseteq LBAs
  BY DEF Volume
<1>5. Cell(g, i).lba = g
  BY DEF Cell
<1>6. Ent(d, g, i).start \in S /\ at[Ent(d, g, i).start] = Append(at[g], x)
  BY <1>1, <1>2, <1>4, <1>5 DEF EntryOk
<1>. QED  BY <1>1, <1>3, <1>4, <1>6 DEF c

\* A prefix of a path, one component longer.
LEMMA PrefixIs ==
  ASSUME NEW p \in Seq(Names), NEW i \in 1..Len(p)
  PROVE  /\ p[Len(p) - i + 1] \in Names
         /\ Append(SubSeq(p, 1, Len(p) - i), p[Len(p) - i + 1]) = SubSeq(p, 1, Len(p) - (i - 1))
<1>. DEFINE k == Len(p) - i + 1
<1>1. /\ k \in 1..Len(p) /\ p[k] \in Names /\ Len(p) - (i - 1) = k /\ Len(p) - i = k - 1
      /\ 1 \in 1..Len(p)
  BY ElementOfSeq
<1>. HIDE DEF k
<1>2. SubSeq(p, 1, k) = SubSeq(p, 1, k - 1) \o <<p[k]>>
  BY <1>1, SubSeqRecursiveSecond
<1>3. SubSeq(p, 1, k - 1) \in Seq(Names)
  <2>1. \A j \in 1..(k - 1) : p[j] \in Names
    BY <1>1, ElementOfSeq
  <2>2. 1 \in Int /\ k - 1 \in Int
    BY <1>1
  <2>. QED  BY <2>1, <2>2, SubSeqProperties
<1>4. \A q \in Seq(Names), x \in Names : Append(q, x) = q \o <<x>>
  OBVIOUS
<1>5. Append(SubSeq(p, 1, k - 1), p[k]) = SubSeq(p, 1, k)
  BY <1>1, <1>2, <1>3, <1>4
<1>. QED  BY <1>1, <1>5 DEF k

\* chain_find finds name x of the directory at a where it did, leading to the
\* same directory if to any.
Stays(d, d2, a, x) ==
  LET c == chain_find(d, a, x)
  IN  /\ chain_find(d2, a, x) = c
      /\ Entry(d2, c).isdir = Entry(d, c).isdir
      /\ Entry(d, c).isdir => Entry(d2, c).start = Entry(d, c).start

\* No path goes on from a cell: it is none, or a file's, or an empty directory's.
Dead(d, c) ==
  \/ c = NoCell
  \/ ~Entry(d, c).isdir
  \/ Entry(d, c).start \in LBAs /\ \A y \in Names : chain_find(d, Entry(d, c).start, y) = NoCell

\* All names stay, but p, from which no path goes on.
NamesStay(d, d2, r, at, S, p) ==
  \A a : IsHead(d, r, S, a) => \A x \in Names :
    \/ Stays(d, d2, a, x)
    \/ Append(at[a], x) = p /\ Dead(d, chain_find(d, a, x)) /\ Dead(d2, chain_find(d2, a, x))

\* What View needs of an answer of path_resolve.
Agree(R, R2) == R2.ok = R.ok /\ R2.cell = R.cell /\ R2.isdir = R.isdir

\* path_resolve, for a caller with root's rights, finds every other path where
\* it did.
LEMMA ResolveStays ==
  ASSUME NEW d, IsDisk(d), NEW r, NEW m, NEW own, NEW at, NEW S, Volume(d, r, m, own, at, S),
         NEW d2, NEW p, NamesStay(d, d2, r, at, S, p), NEW q \in Seq(Names), q # p, q # <<>>
  PROVE  Agree(path_resolve(d, r, q, ElevatedRoot), path_resolve(d2, r, q, ElevatedRoot))
<1>. DEFINE c == ElevatedRoot
<1>0. ASSUME NEW a, IsHead(d, r, S, a), NEW x \in Names,
             chain_find(d, a, x) # NoCell, Entry(d, chain_find(d, a, x)).isdir
      PROVE  LET b == Entry(d, chain_find(d, a, x)).start IN IsHead(d, r, S, b) /\ at[b] = Append(at[a], x)
  BY <1>0, HeadBelow
<1>1. r \in LBAs /\ at[r] = <<>> /\ IsHead(d, r, S, r) /\ S \subseteq LBAs /\ Len(q) \in Nat \ {0}
  BY EmptySeq DEF Volume, IsHead
<1>2. PICK t : /\ \A i \in 0..Len(q), a \in LBAs : t[i][a] = PathStep(d, r, q, c, t[i - 1], i, a)
               /\ path_resolve(d, r, q, c) = t[Len(q)][r]
  BY <1>1, ResolveDef
<1>3. PICK u : /\ \A i \in 0..Len(q), a \in LBAs : u[i][a] = PathStep(d2, r, q, c, u[i - 1], i, a)
               /\ path_resolve(d2, r, q, c) = u[Len(q)][r]
  BY <1>1, ResolveDef
<1>4. \A e : perm_exec_ok(e, c)
  BY DEF perm_exec_ok, ElevatedRoot
<1>. DEFINE At(i) == SubSeq(q, 1, Len(q) - i)
            name(i) == q[Len(q) - i + 1]
            Ok(i) == \A a : IsHead(d, r, S, a) /\ at[a] = At(i) => Agree(t[i][a], u[i][a])
            T == { i \in Nat : i + 1 <= Len(q) => Ok(i + 1) }
            Goes(D, f, i, a) ==
              LET cell == chain_find(D, a, name(i))
                  e    == Entry(D, cell)
              IN  IF cell = NoCell THEN NotFound
                  ELSE IF i = 1 THEN [ok |-> TRUE, cell |-> cell, dir |-> e.start, isdir |-> e.isdir]
                  ELSE IF e.isdir THEN f[e.start] ELSE NotFound
<1>5. ASSUME NEW i \in 1..Len(q), NEW a \in LBAs
      PROVE  t[i][a] = Goes(d, t[i - 1], i, a) /\ u[i][a] = Goes(d2, u[i - 1], i, a)
  <2>1. i \in 0..Len(q) /\ i # 0
    BY <1>1
  <2>2. t[i][a] = PathStep(d, r, q, c, t[i - 1], i, a)
    BY <1>2, <2>1
  <2>3. u[i][a] = PathStep(d2, r, q, c, u[i - 1], i, a)
    BY <1>3, <2>1
  <2>. HIDE DEF c
  <2>. QED  BY <1>4, <2>1, <2>2, <2>3 DEF PathStep
<1>6. ASSUME NEW i \in 1..Len(q), i # 1 => Ok(i - 1) PROVE Ok(i)
  <2>. SUFFICES ASSUME NEW a, IsHead(d, r, S, a), at[a] = At(i)
                PROVE  Agree(t[i][a], u[i][a])
    OBVIOUS
  <2>. DEFINE x == name(i)
              k == chain_find(d, a, x)
              k2 == chain_find(d2, a, x)
  <2>1. a \in LBAs
    BY <1>1, HeadIs
  <2>2. x \in Names /\ Append(At(i), x) = At(i - 1)
    BY PrefixIs
  <2>3. /\ t[i][a] = Goes(d, t[i - 1], i, a)
        /\ u[i][a] = Goes(d2, u[i - 1], i, a)
    <3>. HIDE DEF Goes
    <3>. QED  BY <1>5, <2>1
  <2>4. /\ t[i][a] = IF k = NoCell THEN NotFound
                     ELSE IF i = 1 THEN [ok |-> TRUE, cell |-> k, dir |-> Entry(d, k).start, isdir |-> Entry(d, k).isdir]
                     ELSE IF Entry(d, k).isdir THEN t[i - 1][Entry(d, k).start] ELSE NotFound
        /\ u[i][a] = IF k2 = NoCell THEN NotFound
                     ELSE IF i = 1 THEN [ok |-> TRUE, cell |-> k2, dir |-> Entry(d2, k2).start, isdir |-> Entry(d2, k2).isdir]
                     ELSE IF Entry(d2, k2).isdir THEN u[i - 1][Entry(d2, k2).start] ELSE NotFound
    BY <2>3
  <2>. HIDE DEF Goes, name
  <2>5. CASE Stays(d, d2, a, x)
    <3>1. /\ k2 = k /\ Entry(d2, k).isdir = Entry(d, k).isdir
          /\ Entry(d, k).isdir => Entry(d2, k).start = Entry(d, k).start
      BY <2>5 DEF Stays
    <3>2. k # NoCell /\ Entry(d, k).isdir => IsHead(d, r, S, Entry(d, k).start) /\ at[Entry(d, k).start] = At(i - 1)
      <4>. HIDE DEF x
      <4>1. k # NoCell /\ Entry(d, k).isdir =>
              IsHead(d, r, S, Entry(d, k).start) /\ at[Entry(d, k).start] = Append(at[a], x)
        <5>. SUFFICES ASSUME k # NoCell, Entry(d, k).isdir
                      PROVE  IsHead(d, r, S, Entry(d, k).start) /\ at[Entry(d, k).start] = Append(at[a], x)
          OBVIOUS
        <5>1. x \in Names
          BY <2>2
        <5>. QED  BY <1>0, <5>1
      <4>. QED  BY <2>2, <4>1
    <3>. HIDE DEF k, k2, x
    <3>3. Agree(NotFound, NotFound)
      BY DEF Agree
    <3>4. CASE k = NoCell
      BY <2>4, <3>1, <3>3, <3>4
    <3>5. CASE k # NoCell /\ i = 1
      BY <2>4, <3>1, <3>5 DEF Agree
    <3>6. CASE k # NoCell /\ i # 1 /\ ~Entry(d, k).isdir
      BY <2>4, <3>1, <3>3, <3>6
    <3>7. CASE k # NoCell /\ i # 1 /\ Entry(d, k).isdir
      <4>1. t[i][a] = t[i - 1][Entry(d, k).start] /\ u[i][a] = u[i - 1][Entry(d, k).start]
        BY <2>4, <3>1, <3>7
      <4>2. Ok(i - 1)
        BY <1>6, <3>7
      <4>. HIDE DEF At
      <4>. QED  BY <3>2, <3>7, <4>1, <4>2
    <3>. QED  BY <3>4, <3>5, <3>6, <3>7
  <2>6. CASE Append(at[a], x) = p /\ Dead(d, k) /\ Dead(d2, k2)
    <3>1. At(i - 1) = p
      BY <2>2, <2>6
    <3>2. i # 1
      <4>. SUFFICES ASSUME i = 1 PROVE FALSE
        OBVIOUS
      <4>1. At(i - 1) = q
        BY SubSeqFull
      <4>. QED  BY <3>1, <4>1
    <3>3. i - 1 \in 1..Len(q)
      BY <3>2
    <3>4. name(i - 1) \in Names
      BY <3>3, PrefixIs DEF name
    <3>5. k # NoCell /\ Entry(d, k).isdir => t[i - 1][Entry(d, k).start] = NotFound
      <4>. SUFFICES ASSUME k # NoCell, Entry(d, k).isdir PROVE t[i - 1][Entry(d, k).start] = NotFound
        OBVIOUS
      <4>. DEFINE b == Entry(d, k).start
      <4>1. b \in LBAs /\ chain_find(d, b, name(i - 1)) = NoCell
        <5>. HIDE DEF k, x
        <5>. QED  BY <2>6, <3>4 DEF Dead
      <4>. HIDE DEF b
      <4>2. t[i - 1][b] = Goes(d, t[(i - 1) - 1], i - 1, b)
        BY <1>5, <3>3, <4>1
      <4>. QED  BY <4>1, <4>2 DEF Goes, b
    <3>6. k2 # NoCell /\ Entry(d2, k2).isdir => u[i - 1][Entry(d2, k2).start] = NotFound
      <4>. SUFFICES ASSUME k2 # NoCell, Entry(d2, k2).isdir PROVE u[i - 1][Entry(d2, k2).start] = NotFound
        OBVIOUS
      <4>. DEFINE b == Entry(d2, k2).start
      <4>1. b \in LBAs /\ chain_find(d2, b, name(i - 1)) = NoCell
        <5>. HIDE DEF k2, x
        <5>. QED  BY <2>6, <3>4 DEF Dead
      <4>. HIDE DEF b
      <4>2. u[i - 1][b] = Goes(d2, u[(i - 1) - 1], i - 1, b)
        BY <1>5, <3>3, <4>1
      <4>. QED  BY <4>1, <4>2 DEF Goes, b
    <3>. HIDE DEF k, k2
    <3>7. t[i][a] = NotFound /\ u[i][a] = NotFound
      BY <2>4, <3>2, <3>5, <3>6
    <3>. QED  BY <3>7 DEF Agree
  <2>. QED  BY <2>2, <2>5, <2>6 DEF NamesStay
<1>. HIDE DEF Ok, At, name, Goes
<1>7. 0 \in T
  <2>1. 1 \in 1..Len(q)
    BY <1>1
  <2>2. Ok(1)
    BY <1>6, <2>1
  <2>. QED  BY <2>2
<1>8. ASSUME NEW i \in Nat, i \in T PROVE i + 1 \in T
  <2>. SUFFICES ASSUME (i + 1) + 1 <= Len(q) PROVE Ok((i + 1) + 1)
    OBVIOUS
  <2>1. (i + 1) + 1 \in 1..Len(q) /\ ((i + 1) + 1) - 1 = i + 1 /\ i + 1 <= Len(q)
    BY <1>1
  <2>. QED  BY <1>6, <1>8, <2>1
<1>9. Ok(Len(q))
  <2>1. Len(q) - 1 \in Nat /\ (Len(q) - 1) + 1 = Len(q) /\ Len(q) <= Len(q)
    BY <1>1
  <2>2. Len(q) - 1 \in T
    <3>. HIDE DEF T
    <3>. QED  BY <1>7, <1>8, <2>1, Induction
  <2>. QED  BY <2>1, <2>2
<1>10. At(Len(q)) = <<>>
  BY <1>1, SubSeqEmpty DEF At
<1>. QED  BY <1>1, <1>2, <1>3, <1>9, <1>10 DEF Ok

\* A path is its parent's and its last name.
LEMMA WholePath ==
  ASSUME NEW p \in Seq(Names), p # <<>>
  PROVE  Append(Front(p), Last(p)) = p
<1>1. Len(p) \in Nat \ {0}
  BY EmptySeq
<1>2. PICK L, i : L = Len(p) /\ i = 1
  OBVIOUS
<1>3. i \in 1..L /\ L - i = L - 1 /\ L - i + 1 = L /\ L - (i - 1) = L
  BY <1>1, <1>2
<1>4. Append(SubSeq(p, 1, L - i), p[L - i + 1]) = SubSeq(p, 1, L - (i - 1))
  BY <1>2, <1>3, PrefixIs
<1>5. Append(SubSeq(p, 1, L - 1), p[L]) = SubSeq(p, 1, L)
  BY <1>3, <1>4, Zenon
<1>6. SubSeq(p, 1, L) = p
  BY <1>2, SubSeqFull
<1>. QED  BY <1>2, <1>5, <1>6, Zenon DEF Front, Last

\* What View says of a disk with a superblock of this version.
LEMMA ViewIs ==
  ASSUME NEW d, NEW r, NEW n, d[BASE] = SbSector(Sb(r, n)), NEW q
  PROVE  LET R == path_resolve(d, r, q, ElevatedRoot)
             e == Entry(d, R.cell)
         IN  View(d, q) = IF ~R.ok THEN <<"none">> ELSE IF R.isdir THEN <<"dir">>
                          ELSE <<"file">> \o [i \in 1..e.size |-> d[e.start + i - 1]]
<1>1. d[BASE].kind = "sb" /\ d[BASE].sb.version = VERSION /\ d[BASE].sb.dir = r
  BY DEF SbSector, Sb
<1>. QED  BY <1>1 DEF View

\* Names of the same entries, or of entries like them, stay.
Alike(o, e) == e.name = o.name /\ e.isdir = o.isdir /\ (o.isdir => e.start = o.start)

\* All names stay.
AllStay(d, d2, r, S) == \A a : IsHead(d, r, S, a) => \A x \in Names : Stays(d, d2, a, x)

\* They do if the entries of directories are like they were, whatever empty
\* sectors the directories gain.
LEMMA NamesKept ==
  ASSUME NEW d, NEW r, NEW n, NEW m, NEW own, NEW at, NEW S, Vol(d, r, n, m, own, at, S),
         NEW d2, NEW n2, Vol(d2, r, n2, m, own, at, S),
         \A g \in S, i \in Slots : Alike(Ent(d, g, i), Ent(d2, g, i)),
         \A a \in S : /\ Chain(d, a) \subseteq Chain(d2, a)
                      /\ \A g \in Chain(d2, a) \ Chain(d, a), i \in Slots : Ent(d2, g, i) = Free
  PROVE  AllStay(d, d2, r, S)
<1>. SUFFICES ASSUME NEW a, IsHead(d, r, S, a), NEW x \in Names PROVE Stays(d, d2, a, x)
  BY DEF AllStay
<1>. DEFINE c == chain_find(d, a, x)
            c2 == chain_find(d2, a, x)
<1>1. IsDisk(d) /\ Volume(d, r, m, own, at, S) /\ IsDisk(d2) /\ Volume(d2, r, m, own, at, S)
  BY DEF Vol
<1>2. a \in S /\ IsHead(d2, r, S, a)
  <2>1. a \in S
    BY <1>1, HeadIs
  <2>. QED  BY <2>1 DEF IsHead, Alike
<1>3. /\ \/ /\ c = NoCell
            /\ \A g \in Chain(d, a), i \in Slots : Ent(d, g, i).name # x
         \/ /\ c # NoCell
            /\ \E g \in Chain(d, a), i \in Slots :
                 /\ c = Cell(g, i) /\ g \in S /\ at[g] = at[a] /\ Entry(d, c) = Ent(d, g, i)
                 /\ Ent(d, g, i).name = x /\ Ent(d, g, i) # Free
  BY <1>1, FindsIs
<1>4. /\ \/ /\ c2 = NoCell
            /\ \A g \in Chain(d2, a), i \in Slots : Ent(d2, g, i).name # x
         \/ /\ c2 # NoCell
            /\ \E g \in Chain(d2, a), i \in Slots :
                 /\ c2 = Cell(g, i) /\ g \in S /\ Entry(d2, c2) = Ent(d2, g, i)
                 /\ Ent(d2, g, i).name = x /\ Ent(d2, g, i) # Free
      /\ \A g \in Chain(d2, a), i \in Slots : Ent(d2, g, i).name = x => c2 = Cell(g, i)
  BY <1>1, <1>2, FindsIs
<1>. HIDE DEF c, c2
<1>5. CASE c = NoCell
  <2>1. c2 = NoCell
    <3>. SUFFICES ASSUME NEW g \in Chain(d2, a), NEW i \in Slots, g \in S,
                         Ent(d2, g, i).name = x, Ent(d2, g, i) # Free
                  PROVE  FALSE
      BY <1>4
    <3>1. g \in Chain(d, a)
      BY <1>2
    <3>2. Ent(d, g, i).name = x
      BY DEF Alike
    <3>. QED  BY <1>3, <1>5, <3>1, <3>2
  <2>2. AsDir(d, 0) = Zero /\ AsDir(d2, 0) = Zero
    BY Sizes DEF AsDir
  <2>3. Entry(d, NoCell) = Entry(d2, NoCell)
    BY <2>2 DEF Entry, NoCell
  <2>. QED  BY <1>5, <2>1, <2>3 DEF Stays, c, c2
<1>6. CASE c # NoCell
  <2>1. PICK g \in Chain(d, a), i \in Slots :
          /\ c = Cell(g, i) /\ g \in S /\ Entry(d, c) = Ent(d, g, i) /\ Ent(d, g, i).name = x
    BY <1>3, <1>6
  <2>2. g \in Chain(d2, a) /\ Ent(d2, g, i).name = x /\ Alike(Ent(d, g, i), Ent(d2, g, i))
    BY <1>2, <2>1 DEF Alike
  <2>3. c2 = c
    BY <1>4, <2>1, <2>2
  <2>4. Entry(d2, c) = Ent(d2, g, i)
    BY <2>1 DEF Entry, Ent, Cell
  <2>. QED  BY <2>1, <2>2, <2>3, <2>4 DEF Stays, Alike, c, c2
<1>. QED  BY <1>5, <1>6

\* An empty directory has no names.
LEMMA EmptyFind ==
  ASSUME NEW d, NEW h \in LBAs, AsDir(d, h) = Zero, NEW y \in Names
  PROVE  chain_find(d, h, y) = NoCell
<1>1. Closed(d, {h})
  BY ZeroIs DEF Closed, Link
<1>2. Chain(d, h) \subseteq {h}
  BY <1>1, ChainIs
<1>3. \A i \in Slots : AsDir(d, h).ent[i].name # y
  <2>1. Free.name = "" /\ y # ""
    BY PdfsAssumption DEF Free
  <2>. QED  BY <2>1, ZeroIs
<1>4. h \in {h}
  OBVIOUS
<1>. QED  BY <1>1, <1>2, <1>3, <1>4, FindIs DEF Entry

\* The entry of p appears, goes or changes: all other names stay.
LEMMA NamesButOne ==
  ASSUME NEW d, NEW r, NEW n, NEW m, NEW own, NEW at, NEW S, Vol(d, r, n, m, own, at, S),
         NEW d2, NEW n2, Vol(d2, r, n2, m, own, at, S),
         NEW f \in S, NEW i \in Slots, NEW p,
         \A g \in S : Link(d2, g) = Link(d, g),
         \A g \in S, j \in Slots : g # f \/ j # i => Ent(d2, g, j) = Ent(d, g, j),
         ~Ent(d, f, i).isdir,
         Ent(d, f, i) # Free => Append(at[f], Ent(d, f, i).name) = p,
         Ent(d2, f, i) # Free => Append(at[f], Ent(d2, f, i).name) = p,
         Ent(d2, f, i).isdir => Ent(d2, f, i).start \in LBAs /\ AsDir(d2, Ent(d2, f, i).start) = Zero
  PROVE  NamesStay(d, d2, r, at, S, p)
<1>. SUFFICES ASSUME NEW a, IsHead(d, r, S, a), NEW x \in Names
              PROVE  \/ Stays(d, d2, a, x)
                     \/ Append(at[a], x) = p /\ Dead(d, chain_find(d, a, x)) /\ Dead(d2, chain_find(d2, a, x))
  BY DEF NamesStay
<1>. DEFINE c == chain_find(d, a, x)
            c2 == chain_find(d2, a, x)
            K == Chain(d, a)
<1>1. IsDisk(d) /\ Volume(d, r, m, own, at, S) /\ IsDisk(d2) /\ Volume(d2, r, m, own, at, S)
  BY DEF Vol
<1>2. a \in S /\ IsHead(d2, r, S, a)
  <2>1. a \in S
    BY <1>1, HeadIs
  <2>. QED  BY <2>1 DEF IsHead
<1>3. Chain(d2, a) = K
  <2>1. Closed(d, S)
    BY <1>1, <1>2, VolumeChain
  <2>. QED  BY <1>2, <2>1, TrailSame DEF Chain
<1>4. /\ \/ /\ c = NoCell
            /\ \A g \in K, j \in Slots : Ent(d, g, j).name # x
         \/ /\ c # NoCell
            /\ \E g \in K, j \in Slots :
                 /\ c = Cell(g, j) /\ g \in S /\ at[g] = at[a] /\ Entry(d, c) = Ent(d, g, j)
                 /\ Ent(d, g, j).name = x /\ Ent(d, g, j) # Free
      /\ \A g \in K, j \in Slots : Ent(d, g, j).name = x => c = Cell(g, j)
  BY <1>1, FindsIs
<1>5. /\ \/ /\ c2 = NoCell
            /\ \A g \in K, j \in Slots : Ent(d2, g, j).name # x
         \/ /\ c2 # NoCell
            /\ \E g \in K, j \in Slots :
                 /\ c2 = Cell(g, j) /\ g \in S /\ at[g] = at[a] /\ Entry(d2, c2) = Ent(d2, g, j)
                 /\ Ent(d2, g, j).name = x /\ Ent(d2, g, j) # Free
      /\ \A g \in K, j \in Slots : Ent(d2, g, j).name = x => c2 = Cell(g, j)
  <2>1. PICK A : A = K
    OBVIOUS
  <2>2. Chain(d2, a) = A
    BY <1>3, <2>1
  <2>3. /\ \/ /\ c2 = NoCell
              /\ \A g \in A, j \in Slots : Ent(d2, g, j).name # x
           \/ /\ c2 # NoCell
              /\ \E g \in A, j \in Slots :
                   /\ c2 = Cell(g, j) /\ g \in S /\ at[g] = at[a] /\ Entry(d2, c2) = Ent(d2, g, j)
                   /\ Ent(d2, g, j).name = x /\ Ent(d2, g, j) # Free
        /\ \A g \in A, j \in Slots : Ent(d2, g, j).name = x => c2 = Cell(g, j)
    BY <1>1, <1>2, <2>2, FindsIs
  <2>. QED  BY <2>1, <2>3
<1>. HIDE DEF c, c2, K
<1>6. \A g, j : Cell(g, j) = Cell(f, i) <=> g = f /\ j = i
  BY DEF Cell
<1>7. ASSUME NEW g \in K, NEW j \in Slots, g \in S, c = Cell(g, j), Ent(d, g, j).name = x, Entry(d, c) = Ent(d, g, j),
             g # f \/ j # i
      PROVE  Stays(d, d2, a, x)
  <2>1. Ent(d2, g, j) = Ent(d, g, j)
    BY <1>7
  <2>2. c2 = c
    BY <1>5, <1>7, <2>1
  <2>3. Entry(d2, c) = Ent(d2, g, j)
    BY <1>7 DEF Entry, Ent, Cell
  <2>. QED  BY <1>7, <2>1, <2>2, <2>3 DEF Stays, c, c2
<1>8. ASSUME NEW g \in K, NEW j \in Slots, g \in S, c2 = Cell(g, j), Ent(d2, g, j).name = x, Entry(d2, c2) = Ent(d2, g, j),
             g # f \/ j # i
      PROVE  Stays(d, d2, a, x)
  <2>1. Ent(d2, g, j) = Ent(d, g, j)
    BY <1>8
  <2>2. c2 = c
    BY <1>4, <1>8, <2>1
  <2>3. Entry(d, c) = Ent(d, g, j)
    BY <1>8, <2>2 DEF Entry, Ent, Cell
  <2>. QED  BY <1>8, <2>1, <2>2, <2>3 DEF Stays, c, c2
<1>9. CASE c = NoCell /\ c2 = NoCell
  <2>2. AsDir(d, 0) = Zero /\ AsDir(d2, 0) = Zero
    BY Sizes DEF AsDir
  <2>3. Entry(d, NoCell) = Entry(d2, NoCell)
    BY <2>2 DEF Entry, NoCell
  <2>. QED  BY <1>9, <2>3 DEF Stays, c, c2
<1>10. ASSUME c = NoCell \/ c = Cell(f, i), c2 = NoCell \/ c2 = Cell(f, i), c # NoCell \/ c2 # NoCell
       PROVE  Append(at[a], x) = p /\ Dead(d, c) /\ Dead(d2, c2)
  <2>1. \A D : Entry(D, Cell(f, i)) = Ent(D, f, i)
    BY DEF Entry, Ent, Cell
  <2>2. Append(at[a], x) = p
    <3>1. CASE c # NoCell
      BY <1>4, <1>6, <1>10, <3>1
    <3>2. CASE c2 # NoCell
      BY <1>5, <1>6, <1>10, <3>2
    <3>. QED  BY <1>10, <3>1, <3>2
  <2>3. Dead(d, c)
    BY <1>10, <2>1 DEF Dead
  <2>4. Dead(d2, c2)
    <3>. SUFFICES ASSUME c2 = Cell(f, i), Ent(d2, f, i).isdir
                  PROVE  /\ Ent(d2, f, i).start \in LBAs
                         /\ \A y \in Names : chain_find(d2, Ent(d2, f, i).start, y) = NoCell
      BY <1>10, <2>1 DEF Dead
    <3>1. Ent(d2, f, i).start \in LBAs /\ AsDir(d2, Ent(d2, f, i).start) = Zero
      OBVIOUS
    <3>. QED  BY <3>1, EmptyFind
  <2>. QED  BY <2>2, <2>3, <2>4
<1>11. \/ Stays(d, d2, a, x)
       \/ (c = NoCell \/ c = Cell(f, i)) /\ (c2 = NoCell \/ c2 = Cell(f, i))
  BY <1>4, <1>5, <1>6, <1>7, <1>8
<1>. QED  BY <1>9, <1>10, <1>11 DEF c, c2

\* The sectors that a file shows.
SameFile(d, d2, f, i) ==
  /\ Ent(d2, f, i).size = Ent(d, f, i).size
  /\ \A j \in 1..Ent(d, f, i).size :
       d2[Ent(d2, f, i).start + j - 1] = d[Ent(d, f, i).start + j - 1]

\* They are sectors of the disk that were taken for it.
LEMMA FileSectors ==
  ASSUME NEW d, NEW r, NEW n, NEW m, NEW own, NEW at, NEW S, Vol(d, r, n, m, own, at, S),
         NEW f \in S, NEW i \in Slots, Ent(d, f, i) # Free, ~Ent(d, f, i).isdir,
         NEW j \in 1..Ent(d, f, i).size
  PROVE  LET x == Ent(d, f, i).start + j - 1
         IN  x \in LBAs /\ x \in Nat /\ x < m /\ x \notin S /\ own[x] = Cell(f, i) /\ x # BASE
<1>. DEFINE e == Ent(d, f, i)
            x == e.start + j - 1
<1>1. EntryOk(d, r, m, own, at, S, Cell(f, i), e) /\ e \in Entries /\ BASE < r
  BY AsDirIs DEF Vol, Volume, Ent
<1>2. e # Free /\ ~e.isdir
  OBVIOUS
<1>. HIDE DEF e
<1>3. e.start \in Nat /\ e.size \in Nat /\ e.alloc \in Nat /\ e.size <= e.alloc
  BY <1>1, <1>2 DEF Entries, EntryOk
<1>4. j \in 1..e.size
  BY DEF e
<1>5. x \in e.start..(e.start + e.size - 1) /\ x \in e.start..(e.start + e.alloc - 1) /\ x \in Nat
  BY <1>3, <1>4
<1>. HIDE DEF x
<1>6. x \in LBAs /\ r <= x /\ x < m /\ own[x] = Cell(f, i) /\ x \notin S
  BY <1>1, <1>2, <1>5 DEF EntryOk
<1>7. r \in Nat /\ BASE \in Nat
  BY VolBounds
<1>8. x # BASE
  BY <1>1, <1>5, <1>6, <1>7
<1>. QED  BY <1>5, <1>6, <1>8 DEF x, e

\* A boot would make the same of every path but p.
Looks(d, d2, p) == \A q \in Seq(Names) : q # <<>> /\ q # p => View(d2, q) = View(d, q)

\* It does if all other names stay, and the sectors of their files.
LEMMA LooksIs ==
  ASSUME NEW d, NEW r, NEW n, NEW m, NEW own, NEW at, NEW S, Vol(d, r, n, m, own, at, S),
         NEW d2, NEW n2, d2[BASE] = SbSector(Sb(r, n2)), NEW p, NamesStay(d, d2, r, at, S, p),
         \A f \in S, i \in Slots :
           Ent(d, f, i) # Free /\ ~Ent(d, f, i).isdir /\ Append(at[f], Ent(d, f, i).name) # p => SameFile(d, d2, f, i)
  PROVE  Looks(d, d2, p)
<1>. SUFFICES ASSUME NEW q \in Seq(Names), q # <<>>, q # p PROVE View(d2, q) = View(d, q)
  BY DEF Looks
<1>. DEFINE R == path_resolve(d, r, q, ElevatedRoot)
            R2 == path_resolve(d2, r, q, ElevatedRoot)
<1>1. IsDisk(d) /\ Volume(d, r, m, own, at, S) /\ d[BASE] = SbSector(Sb(r, n))
  BY DEF Vol
<1>2. Agree(R, R2)
  BY <1>1, ResolveStays
<1>3. Resolved(d, r, at, S, q, R)
  BY <1>1, ResolveIs
<1>4. /\ View(d, q) = IF ~R.ok THEN <<"none">> ELSE IF R.isdir THEN <<"dir">>
                      ELSE <<"file">> \o [i \in 1..Entry(d, R.cell).size |-> d[Entry(d, R.cell).start + i - 1]]
      /\ View(d2, q) = IF ~R2.ok THEN <<"none">> ELSE IF R2.isdir THEN <<"dir">>
                       ELSE <<"file">> \o [i \in 1..Entry(d2, R2.cell).size |-> d2[Entry(d2, R2.cell).start + i - 1]]
  BY <1>1, ViewIs
<1>. HIDE DEF R, R2
<1>5. CASE R.ok /\ ~R.isdir
  <2>. DEFINE f == R.cell.lba
              i == R.cell.slot
              e == Ent(d, f, i)
              e2 == Ent(d2, f, i)
  <2>1. /\ R.cell = Cell(f, i) /\ f \in S /\ i \in Slots /\ Entry(d, R.cell) # Free /\ ~Entry(d, R.cell).isdir
        /\ Append(at[f], Entry(d, R.cell).name) = q
    BY <1>3, <1>5 DEF Resolved
  <2>2. Entry(d, R.cell) = e /\ Entry(d2, R.cell) = e2
    BY DEF Entry, Ent
  <2>3. SameFile(d, d2, f, i)
    <3>. HIDE DEF f, i
    <3>. QED  BY <2>1, <2>2
  <2>4. e2.size = e.size /\ \A j \in 1..e.size : d2[e2.start + j - 1] = d[e.start + j - 1]
    BY <2>3 DEF SameFile
  <2>5. R2.ok /\ ~R2.isdir /\ R2.cell = R.cell
    BY <1>2, <1>5 DEF Agree
  <2>. HIDE DEF e, e2
  <2>. QED  BY <1>4, <1>5, <2>2, <2>4, <2>5
<1>6. CASE ~(R.ok /\ ~R.isdir)
  BY <1>2, <1>4, <1>6 DEF Agree
<1>. QED  BY <1>5, <1>6

\* The allocator's pointer is saved, or another sector that is no directory's is
\* written, one behind the volume or of the file p.
LEMMA SectorStays ==
  ASSUME NEW d, NEW r, NEW n, NEW m, NEW own, NEW at, NEW S, Vol(d, r, n, m, own, at, S),
         NEW d2, NEW n2, Vol(d2, r, n2, m, own, at, S), NEW x \in Nat, x \notin S,
         \A y : y # x => AsDir(d2, y) = AsDir(d, y),
         \A y \in LBAs : y # x => d2[y] = d[y],
         NEW p,
         \/ x = BASE \/ m <= x
         \/ \E f \in S, i \in Slots : own[x] = Cell(f, i) /\ Append(at[f], Ent(d, f, i).name) = p
  PROVE  AllStay(d, d2, r, S) /\ Looks(d, d2, p)
<1>1. \A g \in S : AsDir(d2, g) = AsDir(d, g)
  OBVIOUS
<1>2. \A g \in S : Link(d2, g) = Link(d, g) /\ \A i \in Slots : Ent(d2, g, i) = Ent(d, g, i)
  BY <1>1 DEF Link, Ent
<1>3. \A g \in S, i \in Slots : Alike(Ent(d, g, i), Ent(d2, g, i))
  BY <1>2 DEF Alike
<1>4. \A a \in S : Chain(d2, a) = Chain(d, a)
  <2>1. Closed(d, S)
    BY DEF Vol, Volume, Closed
  <2>. QED  BY <1>2, <2>1, TrailSame DEF Chain
<1>5. AllStay(d, d2, r, S)
  BY <1>3, <1>4, NamesKept
<1>6. NamesStay(d, d2, r, at, S, p)
  BY <1>5 DEF NamesStay, AllStay
<1>7. ASSUME NEW f \in S, NEW i \in Slots, Ent(d, f, i) # Free, ~Ent(d, f, i).isdir,
             Append(at[f], Ent(d, f, i).name) # p
      PROVE  SameFile(d, d2, f, i)
  <2>. SUFFICES ASSUME NEW j \in 1..Ent(d, f, i).size, NEW y, y = Ent(d, f, i).start + j - 1 PROVE d2[y] = d[y]
    BY <1>2 DEF SameFile
  <2>1. y \in LBAs /\ y \in Nat /\ y < m /\ own[y] = Cell(f, i) /\ y # BASE
    BY <1>7, FileSectors
  <2>2. ~(m <= y)
    BY <2>1, VolBounds
  <2>3. \A g, k : Cell(g, k) = Cell(f, i) => g = f /\ k = i
    BY DEF Cell
  <2>4. y # x
    BY <1>7, <2>1, <2>2, <2>3
  <2>. QED  BY <2>1, <2>4
<1>8. d2[BASE] = SbSector(Sb(r, n2))
  BY DEF Vol
<1>. QED  BY <1>5, <1>6, <1>7, <1>8, LooksIs

\* The allocator's pointer is saved.
LEMMA FlushStays ==
  ASSUME NEW d, NEW r, NEW n, NEW m, NEW own, NEW at, NEW S, Vol(d, r, n, m, own, at, S),
         NEW n2 \in Nat, n <= n2, NEW p
  PROVE  LET d2 == After(d, BASE, SbSector(Sb(r, n2))) IN AllStay(d, d2, r, S) /\ Looks(d, d2, p)
<1>. DEFINE s == SbSector(Sb(r, n2))
            d2 == After(d, BASE, s)
<1>1. Vol(d2, r, n2, m, own, at, S) /\ \A y : y # BASE => AsDir(d2, y) = AsDir(d, y)
  BY VolFlush
<1>2. \A y \in LBAs : y # BASE => d2[y] = d[y]
  <2>1. s.kind = "sb" /\ IsDisk(d)
    BY DEF SbSector, Vol
  <2>. HIDE DEF s
  <2>. QED  BY <2>1, AfterIs
<1>. HIDE DEF d2
<1>3. BASE \in Nat /\ BASE \notin S
  BY VolBounds
<1>4. AllStay(d, d2, r, S) /\ Looks(d, d2, p)
  BY <1>1, <1>2, <1>3, SectorStays
<1>. QED  BY <1>4 DEF d2, s

\* A directory is extended by an empty sector.
LEMMA LinkStays ==
  ASSUME NEW d, NEW r, NEW n, NEW m, NEW own, NEW at, NEW S, Vol(d, r, n, m, own, at, S),
         NEW l \in S, NEW k \in S, l < k, AsDir(d, k) = Zero, own[k] = own[l], at[k] = at[l],
         Link(d, l) = 0, NEW p
  PROVE  Looks(d, After(d, l, [AsDir(d, l) EXCEPT !.link = k]), p)
<1>. DEFINE s == [AsDir(d, l) EXCEPT !.link = k]
            d2 == After(d, l, s)
<1>1. /\ Vol(d2, r, n, m, own, at, S)
      /\ \A h \in S : Chain(d2, h) \subseteq Chain(d, h) \cup {k}
  BY VolLink
<1>2. IsDisk(d) /\ S \subseteq LBAs /\ Closed(d, S) /\ k # l /\ k \in LBAs /\ l \in LBAs /\ k # 0
  BY Sizes DEF Vol, Volume, Closed
<1>3. s \in DirSectors /\ s.kind = "dir" /\ s.link = k /\ s.ent = AsDir(d, l).ent
  BY <1>2, Sizes, AsDirIs DEF DirSectors
<1>4. /\ \A b \in LBAs : b # l => d2[b] = d[b]
      /\ \A b : b # l => AsDir(d2, b) = AsDir(d, b)
      /\ AsDir(d2, l) = s
  <2>. HIDE DEF s
  <2>. QED  BY <1>2, <1>3, AfterIs
<1>. HIDE DEF s, d2
<1>5. /\ \A b : b # l => Link(d2, b) = Link(d, b)
      /\ Link(d2, l) = k /\ Link(d2, k) = 0
      /\ \A b, j : Ent(d2, b, j) = Ent(d, b, j)
      /\ \A j \in Slots : Ent(d2, k, j) = Free
  BY <1>2, <1>3, <1>4, ZeroIs DEF Link, Ent
<1>6. \A h \in S : Chain(d, h) \subseteq Chain(d2, h)
  BY <1>2, <1>5, TrailKeeps
<1>7. \A g \in S, i \in Slots : Alike(Ent(d, g, i), Ent(d2, g, i))
  BY <1>5 DEF Alike
<1>8. AllStay(d, d2, r, S)
  BY <1>1, <1>5, <1>6, <1>7, NamesKept
<1>9. NamesStay(d, d2, r, at, S, p)
  BY <1>8 DEF NamesStay, AllStay
<1>10. ASSUME NEW f \in S, NEW i \in Slots, Ent(d, f, i) # Free, ~Ent(d, f, i).isdir PROVE SameFile(d, d2, f, i)
  <2>. SUFFICES ASSUME NEW j \in 1..Ent(d, f, i).size, NEW y, y = Ent(d, f, i).start + j - 1 PROVE d2[y] = d[y]
    BY <1>5 DEF SameFile
  <2>1. y \in LBAs /\ y \notin S
    BY <1>10, FileSectors
  <2>. QED  BY <1>4, <2>1
<1>11. d2[BASE] = SbSector(Sb(r, n))
  BY <1>1 DEF Vol
<1>12. Looks(d, d2, p)
  BY <1>9, <1>10, <1>11, LooksIs
<1>. QED  BY <1>12 DEF d2, s

\* The entry at cell (f, i) is written, and leads to another file or directory
\* only if it is that of p.
LEMMA EntryStays ==
  ASSUME NEW d, NEW r, NEW n, NEW m, NEW own, NEW at, NEW S, Vol(d, r, n, m, own, at, S),
         NEW f \in S, NEW i \in Slots, NEW e \in Entries, NEW o, o = Ent(d, f, i),
         NEW s, s = [AsDir(d, f) EXCEPT !.ent[i] = e], NEW d2, d2 = After(d, f, s), Vol(d2, r, n, m, own, at, S),
         NEW p, o # Free => Append(at[f], o.name) = p,
         \/ Alike(o, e)
         \/ /\ ~o.isdir /\ (e # Free => Append(at[f], e.name) = p)
            /\ e.isdir => e.start \in LBAs /\ AsDir(d, e.start) = Zero /\ e.start # f
  PROVE  /\ Looks(d, d2, p) /\ (Alike(o, e) => AllStay(d, d2, r, S))
         /\ Ent(d2, f, i) = e /\ \A b \in LBAs : b # f => d2[b] = d[b]
<1>1. IsDisk(d) /\ S \subseteq LBAs /\ Closed(d, S) /\ f \in LBAs
  BY DEF Vol, Volume, Closed
<1>2. /\ s \in DirSectors /\ s.kind = "dir" /\ s.link = AsDir(d, f).link
      /\ \A j \in Slots : s.ent[j] = IF j = i THEN e ELSE AsDir(d, f).ent[j]
  BY <1>1, AsDirIs DEF DirSectors
<1>3. /\ \A b \in LBAs : b # f => d2[b] = d[b]
      /\ \A b : b # f => AsDir(d2, b) = AsDir(d, b)
      /\ AsDir(d2, f) = s
  <2>1. s.kind = "dir" => s \in DirSectors
    BY <1>2
  <2>2. PICK x : x = After(d, f, s)
    OBVIOUS
  <2>3. /\ \A b \in LBAs : After(d, f, s)[b] = IF b = f THEN s ELSE d[b]
        /\ \A b : b # f => AsDir(After(d, f, s), b) = AsDir(d, b)
        /\ f \in LBAs => AsDir(After(d, f, s), f) = IF s.kind = "dir" THEN s ELSE Zero
    BY ONLY <1>1, <2>1, AfterIs
  <2>4. d2 = x
    BY <2>2
  <2>5. /\ \A b \in LBAs : b # f => x[b] = d[b]
        /\ \A b : b # f => AsDir(x, b) = AsDir(d, b)
        /\ AsDir(x, f) = s
    BY ONLY <1>1, <1>2, <2>2, <2>3
  <2>. QED  BY ONLY <2>4, <2>5
<1>4. /\ \A b : Link(d2, b) = Link(d, b)
      /\ \A b, j : b # f => Ent(d2, b, j) = Ent(d, b, j)
      /\ \A j \in Slots : Ent(d2, f, j) = IF j = i THEN e ELSE Ent(d, f, j)
  BY <1>2, <1>3 DEF Link, Ent
<1>5. Alike(o, e) => AllStay(d, d2, r, S)
  <2>1. Alike(o, e) => \A g \in S, j \in Slots : Alike(Ent(d, g, j), Ent(d2, g, j))
    BY <1>4 DEF Alike
  <2>2. \A a \in S : Chain(d2, a) = Chain(d, a)
    BY <1>1, <1>4, TrailSame DEF Chain
  <2>. QED  BY <2>1, <2>2, NamesKept
<1>6. NamesStay(d, d2, r, at, S, p)
  <2>1. CASE Alike(o, e)
    BY <1>5, <2>1 DEF NamesStay, AllStay
  <2>2. CASE /\ ~o.isdir /\ (e # Free => Append(at[f], e.name) = p)
             /\ e.isdir => e.start \in LBAs /\ AsDir(d, e.start) = Zero /\ e.start # f
    <3>1. Ent(d2, f, i) = e
      BY <1>4
    <3>2. e.isdir => e.start \in LBAs /\ AsDir(d2, e.start) = Zero
      BY <1>3, <2>2
    <3>3. \A g \in S, j \in Slots : g # f \/ j # i => Ent(d2, g, j) = Ent(d, g, j)
      BY <1>4
    <3>. QED  BY <1>4, <2>2, <3>1, <3>2, <3>3, NamesButOne
  <2>. QED  BY <2>1, <2>2
<1>7. ASSUME NEW g \in S, NEW k \in Slots, Ent(d, g, k) # Free, ~Ent(d, g, k).isdir,
             Append(at[g], Ent(d, g, k).name) # p
      PROVE  SameFile(d, d2, g, k)
  <2>1. Ent(d2, g, k) = Ent(d, g, k)
    BY <1>4, <1>7
  <2>. SUFFICES ASSUME NEW j \in 1..Ent(d, g, k).size, NEW y, y = Ent(d, g, k).start + j - 1 PROVE d2[y] = d[y]
    BY <2>1 DEF SameFile
  <2>2. y \in LBAs /\ y \notin S
    BY <1>7, FileSectors
  <2>. QED  BY <1>3, <2>2
<1>8. d2[BASE] = SbSector(Sb(r, n))
  BY DEF Vol
<1>9. Looks(d, d2, p)
  BY <1>6, <1>7, <1>8, LooksIs
<1>. QED  BY <1>3, <1>4, <1>5, <1>9

\* The entry of a file is written anew.
LEMMA EntryWritten ==
  ASSUME NEW d, NEW r, NEW n, NEW m, NEW own, NEW at, NEW S, Vol(d, r, n, m, own, at, S),
         NEW f \in S, NEW i \in Slots, NEW e \in Entries, NEW o, o = Ent(d, f, i), Alike(o, e),
         NEW d2, d2 = After(d, f, [AsDir(d, f) EXCEPT !.ent[i] = e]), Vol(d2, r, n, m, own, at, S),
         NEW p, Append(at[f], o.name) = p, NEW c, c = Cell(f, i)
  PROVE  /\ Looks(d, d2, p) /\ AllStay(d, d2, r, S)
         /\ Entry(d2, c) = e /\ \A b \in LBAs : b # f => d2[b] = d[b]
<1>1. PICK s : s = [AsDir(d, f) EXCEPT !.ent[i] = e]
  OBVIOUS
<1>2. d2 = After(d, f, s)
  BY <1>1
<1>3. /\ Looks(d, d2, p) /\ AllStay(d, d2, r, S)
      /\ Ent(d2, f, i) = e /\ \A b \in LBAs : b # f => d2[b] = d[b]
  BY <1>1, <1>2, EntryStays
<1>4. Entry(d2, c) = e
  BY <1>3 DEF Entry, Ent, Cell
<1>. QED  BY <1>3, <1>4

\* A free slot is taken for an entry of p.
LEMMA EntryAdded ==
  ASSUME NEW d, NEW r, NEW n, NEW m, NEW own, NEW at, NEW S, Vol(d, r, n, m, own, at, S),
         NEW f \in S, NEW i \in Slots, NEW e \in Entries, NEW o, o = Ent(d, f, i), ~o.isdir, ~(o # Free),
         NEW d2, d2 = After(d, f, [AsDir(d, f) EXCEPT !.ent[i] = e]), Vol(d2, r, n, m, own, at, S),
         NEW p, e # Free => Append(at[f], e.name) = p,
         e.isdir => e.start \in LBAs /\ AsDir(d, e.start) = Zero /\ e.start # f
  PROVE  Looks(d, d2, p)
<1>1. PICK s : s = [AsDir(d, f) EXCEPT !.ent[i] = e]
  OBVIOUS
<1>2. d2 = After(d, f, s)
  BY <1>1
<1>. QED  BY <1>1, <1>2, EntryStays

\* An empty sector is put behind the last of a directory.
LEMMA VolLinked ==
  ASSUME NEW d, NEW r, NEW n, NEW m, NEW own, NEW at, NEW S, Vol(d, r, n, m, own, at, S),
         NEW l \in S, NEW k \in S, l < k, AsDir(d, k) = Zero, own[k] = own[l], at[k] = at[l],
         NEW d2, d2 = After(d, l, [AsDir(d, l) EXCEPT !.link = k])
  PROVE  /\ Vol(d2, r, n, m, own, at, S)
         /\ \A h : IsHead(d2, r, S, h) <=> IsHead(d, r, S, h)
         /\ \A h \in S : Chain(d2, h) \subseteq Chain(d, h) \cup {k}
BY VolLink

\* A boot makes the same of it.
LEMMA Linked ==
  ASSUME NEW d, NEW r, NEW n, NEW m, NEW own, NEW at, NEW S, Vol(d, r, n, m, own, at, S),
         NEW l \in S, NEW k \in S, l < k, AsDir(d, k) = Zero, own[k] = own[l], at[k] = at[l],
         Link(d, l) = 0, NEW p, NEW d2, d2 = After(d, l, [AsDir(d, l) EXCEPT !.link = k])
  PROVE  Looks(d, d2, p)
BY LinkStays

\* A path leads to a file, whose entry is at c.
FileAt(d, r, p, c) ==
  LET R == path_resolve(d, r, p, ElevatedRoot) IN R.ok /\ R.cell = c /\ ~R.isdir

\* It still does if all names stay.
LEMMA FileStays ==
  ASSUME NEW d, NEW r, NEW n, NEW m, NEW own, NEW at, NEW S, Vol(d, r, n, m, own, at, S),
         NEW d2, AllStay(d, d2, r, S), NEW p \in Seq(Names), p # <<>>, NEW c, FileAt(d, r, p, c)
  PROVE  FileAt(d2, r, p, c)
<1>1. IsDisk(d) /\ Volume(d, r, m, own, at, S)
  BY DEF Vol
<1>2. NamesStay(d, d2, r, at, S, <<>>)
  BY DEF NamesStay, AllStay
<1>3. Agree(path_resolve(d, r, p, ElevatedRoot), path_resolve(d2, r, p, ElevatedRoot))
  BY <1>1, <1>2, ResolveStays
<1>. QED  BY <1>3 DEF FileAt, Agree

\* A path that a caller may walk leads a caller with root's rights to the same.
LEMMA RootResolves ==
  ASSUME NEW d, IsDisk(d), NEW r, NEW m, NEW own, NEW at, NEW S, Volume(d, r, m, own, at, S),
         NEW q \in Seq(Names), NEW c, path_resolve(d, r, q, c).ok
  PROVE  path_resolve(d, r, q, ElevatedRoot) = path_resolve(d, r, q, c)
<1>1. r \in LBAs /\ IsHead(d, r, S, r) /\ S \subseteq LBAs /\ Len(q) \in Nat
  BY DEF Volume, IsHead
<1>2. PICK t : /\ \A i \in 0..Len(q), a \in LBAs : t[i][a] = PathStep(d, r, q, c, t[i - 1], i, a)
               /\ path_resolve(d, r, q, c) = t[Len(q)][r]
  BY <1>1, ResolveDef
<1>3. PICK u : /\ \A i \in 0..Len(q), a \in LBAs : u[i][a] = PathStep(d, r, q, ElevatedRoot, u[i - 1], i, a)
               /\ path_resolve(d, r, q, ElevatedRoot) = u[Len(q)][r]
  BY <1>1, ResolveDef
<1>4. \A e : perm_exec_ok(e, ElevatedRoot)
  BY DEF perm_exec_ok, ElevatedRoot
<1>. DEFINE Ok(i) == \A a : IsHead(d, r, S, a) /\ t[i][a].ok => u[i][a] = t[i][a]
            T == { i \in Nat : i <= Len(q) => Ok(i) }
<1>5. \A a : IsHead(d, r, S, a) => a \in LBAs
  BY <1>1, HeadIs
<1>6. 0 \in T
  <2>1. 0 \in 0..Len(q)
    BY <1>1
  <2>2. \A a \in LBAs : t[0][a] = PathStep(d, r, q, c, t[0 - 1], 0, a)
    BY <1>2, <2>1
  <2>3. \A a \in LBAs : u[0][a] = PathStep(d, r, q, ElevatedRoot, u[0 - 1], 0, a)
    BY <1>3, <2>1
  <2>4. \A a \in LBAs : u[0][a] = t[0][a]
    BY <2>2, <2>3 DEF PathStep
  <2>. QED  BY <1>5, <2>4
<1>7. ASSUME NEW i \in Nat, i \in T PROVE i + 1 \in T
  <2>. SUFFICES ASSUME i + 1 <= Len(q), NEW a, IsHead(d, r, S, a), t[i + 1][a].ok
                PROVE  u[i + 1][a] = t[i + 1][a]
    OBVIOUS
  <2>. DEFINE x == q[Len(q) - (i + 1) + 1]
              cell == chain_find(d, a, x)
              e == Entry(d, cell)
  <2>1. i + 1 \in 0..Len(q) /\ i + 1 \in 1..Len(q) /\ (i + 1) - 1 = i /\ i + 1 # 0 /\ i <= Len(q) /\ a \in LBAs
    BY <1>1, <1>5
  <2>2. t[i + 1][a] = PathStep(d, r, q, c, t[i], i + 1, a)
    BY <1>2, <2>1
  <2>3. u[i + 1][a] = PathStep(d, r, q, ElevatedRoot, u[i], i + 1, a)
    BY <1>3, <2>1
  <2>4. x \in Names
    BY <2>1, PrefixIs
  <2>5. cell # NoCell /\ e.isdir => IsHead(d, r, S, e.start)
    <3>. HIDE DEF x
    <3>. QED  BY <2>4, HeadBelow
  <2>6. t[i + 1][a] = IF cell = NoCell \/ (e.isdir /\ ~perm_exec_ok(e, c)) THEN NotFound
                      ELSE IF i + 1 = 1 THEN [ok |-> TRUE, cell |-> cell, dir |-> e.start, isdir |-> e.isdir]
                      ELSE IF e.isdir THEN t[i][e.start] ELSE NotFound
    BY <2>1, <2>2 DEF PathStep
  <2>7. u[i + 1][a] = IF cell = NoCell THEN NotFound
                      ELSE IF i + 1 = 1 THEN [ok |-> TRUE, cell |-> cell, dir |-> e.start, isdir |-> e.isdir]
                      ELSE IF e.isdir THEN u[i][e.start] ELSE NotFound
    <3>1. u[i + 1][a] = IF cell = NoCell \/ (e.isdir /\ ~perm_exec_ok(e, ElevatedRoot)) THEN NotFound
                        ELSE IF i + 1 = 1 THEN [ok |-> TRUE, cell |-> cell, dir |-> e.start, isdir |-> e.isdir]
                        ELSE IF e.isdir THEN u[i][e.start] ELSE NotFound
      BY <2>1, <2>3 DEF PathStep
    <3>. HIDE DEF cell, e
    <3>. QED  BY <1>4, <3>1
  <2>. HIDE DEF x, cell, e
  <2>8. ~NotFound.ok
    BY DEF NotFound
  <2>9. cell # NoCell /\ ~(e.isdir /\ ~perm_exec_ok(e, c))
    BY <2>6, <2>8
  <2>10. CASE i + 1 = 1
    BY <2>6, <2>7, <2>9, <2>10
  <2>11. CASE i + 1 # 1
    <3>1. e.isdir /\ t[i + 1][a] = t[i][e.start]
      BY <2>6, <2>8, <2>9, <2>11
    <3>2. u[i + 1][a] = u[i][e.start]
      BY <2>7, <2>9, <2>11, <3>1
    <3>3. u[i][e.start] = t[i][e.start]
      <4>1. IsHead(d, r, S, e.start) /\ t[i][e.start].ok
        BY <2>5, <2>9, <3>1
      <4>2. Ok(i)
        BY <1>7, <2>1
      <4>. QED  BY <4>1, <4>2
    <3>. QED  BY <3>1, <3>2, <3>3
  <2>. QED  BY <2>10, <2>11
<1>8. Len(q) \in T
  <2>. HIDE DEF T
  <2>. QED  BY <1>1, <1>6, <1>7, Induction
<1>. QED  BY <1>1, <1>2, <1>3, <1>8

-----------------------------------------------------------------------------
(* The writes of a call                                                    *)

\* A write that may be made to d: a superblock moves the allocator's pointer
\* forward and is the only write to its sector.
Fits(d, w) ==
  IF w.sb THEN /\ w.lba = BASE
               /\ \E n \in Nat : d[BASE].sb.next <= n /\ w.sec = SbSector([d[BASE].sb EXCEPT !.next = n])
          ELSE w.lba # BASE

\* Call cl formats the volume, or writes a file.
Formats(cl) == cl.op = "format"
Writes(cl) == cl.op = "write"

\* The file that call cl writes is on the disk, whole.
Shown(d, cl) ==
  View(d, cl.path) = <<"file">> \o [i \in DOMAIN cl.val |-> Data(cl.path, cl.val[i])]

\* What the first of the writes ws that call cl has left may do to d: a boot
\* finds nothing new but at the call's path, and there, if the call writes a
\* file and this is its last write, what it wrote.
Does(d, d2, ws, cl) ==
  /\ ~Formats(cl) => Looks(d, d2, cl.path)
  /\ Writes(cl) /\ Tail(ws) = <<>> => Shown(d2, cl)

\* In P, with a disk and the writes left, are what the next write makes of them.
Steps(P, cl) ==
  \A d, ws : <<d, ws>> \in P =>
    /\ Good(d)
    /\ ws # <<>> =>
         /\ Fits(d, Head(ws))
         /\ Writable(Head(ws).lba) =>
              LET d2 == After(d, Head(ws).lba, Head(ws).sec)
              IN  <<d2, Tail(ws)>> \in P /\ Does(d, d2, ws, cl)

\* Call cl may make the writes ws to d, one after the other, up to any of them.
Plan(d, ws, cl) == \E P : Steps(P, cl) /\ <<d, ws>> \in P

\* What a plan says of its first write.
LEMMA PlanIs ==
  ASSUME NEW cl, NEW d, NEW ws, Plan(d, ws, cl)
  PROVE  /\ Good(d)
         /\ ws # <<>> =>
              /\ Fits(d, Head(ws))
              /\ Writable(Head(ws).lba) =>
                   LET d2 == After(d, Head(ws).lba, Head(ws).sec)
                   IN  Plan(d2, Tail(ws), cl) /\ Does(d, d2, ws, cl)
BY DEF Plan, Steps

\* Nothing is left to write.
LEMMA PlanNil ==
  ASSUME NEW cl, NEW d, Good(d)
  PROVE  Plan(d, <<>>, cl)
<1>1. Steps({<<d, <<>>>>}, cl)
  BY DEF Steps
<1>. QED  BY <1>1 DEF Plan

\* A plan from its first write and the rest.
LEMMA PlanCons ==
  ASSUME NEW cl, NEW d, Good(d), NEW ws, ws # <<>>, Fits(d, Head(ws)),
         Writable(Head(ws).lba) =>
           LET d2 == After(d, Head(ws).lba, Head(ws).sec)
           IN  Plan(d2, Tail(ws), cl) /\ Does(d, d2, ws, cl)
  PROVE  Plan(d, ws, cl)
<1>. DEFINE d2 == After(d, Head(ws).lba, Head(ws).sec)
<1>1. CASE Writable(Head(ws).lba)
  <2>1. PICK P : Steps(P, cl) /\ <<d2, Tail(ws)>> \in P
    BY <1>1 DEF Plan
  <2>2. Does(d, d2, ws, cl)
    BY <1>1
  <2>. DEFINE Q == P \cup {<<d, ws>>}
  <2>3. Steps(Q, cl)
    BY <1>1, <2>1, <2>2 DEF Steps
  <2>. QED  BY <2>3 DEF Plan
<1>2. CASE ~Writable(Head(ws).lba)
  <2>1. Steps({<<d, ws>>}, cl)
    BY <1>2 DEF Steps
  <2>. QED  BY <2>1 DEF Plan
<1>. QED  BY <1>1, <1>2

\* flush_sb with the pointer at n.
FlushTo(r, n) == [lba |-> BASE, sec |-> SbSector(Sb(r, n)), sb |-> TRUE]

\* The superblock that flush_sb writes.
LEMMA FlushIs ==
  ASSUME NEW r, NEW n, g_base_lba = BASE, g_sb = Sb(r, n), NEW n2
  PROVE  Flush(n2) = FlushTo(r, n2)
<1>1. [Sb(r, n) EXCEPT !.next = n2] = Sb(r, n2)
  BY DEF Sb
<1>. QED  BY <1>1 DEF Flush, FlushTo

\* A plan that starts by saving the pointer.
LEMMA PlanFlush ==
  ASSUME NEW d, NEW r, NEW n, NEW m, NEW own, NEW at, NEW S, Vol(d, r, n, m, own, at, S),
         NEW n2 \in Nat, n <= n2, NEW ws, ws # <<>>, Head(ws) = FlushTo(r, n2), NEW cl,
         ~Writes(cl) \/ Tail(ws) # <<>>,
         Plan(After(d, BASE, SbSector(Sb(r, n2))), Tail(ws), cl)
  PROVE  Plan(d, ws, cl)
<1>1. Good(d)
  BY DEF Good
<1>2. Fits(d, FlushTo(r, n2))
  <2>1. d[BASE].sb = Sb(r, n)
    BY DEF Vol, SbSector
  <2>2. [Sb(r, n) EXCEPT !.next = n2] = Sb(r, n2) /\ Sb(r, n).next = n
    BY DEF Sb
  <2>. QED  BY <2>1, <2>2 DEF Fits, FlushTo
<1>3. FlushTo(r, n2).lba = BASE /\ FlushTo(r, n2).sec = SbSector(Sb(r, n2))
  BY DEF FlushTo
<1>4. AllStay(d, After(d, BASE, SbSector(Sb(r, n2))), r, S) /\ Looks(d, After(d, BASE, SbSector(Sb(r, n2))), cl.path)
  BY FlushStays
<1>5. Does(d, After(d, BASE, SbSector(Sb(r, n2))), ws, cl)
  BY <1>4 DEF Does
<1>. QED  BY <1>1, <1>2, <1>3, <1>5, PlanCons

\* A plan that starts with any other sector.
LEMMA PlanWrite ==
  ASSUME NEW d, Good(d), NEW x, NEW s, x # BASE, NEW ws, ws # <<>>, Head(ws) = Write(x, s), NEW cl,
         Writable(x) => Does(d, After(d, x, s), ws, cl) /\ Plan(After(d, x, s), Tail(ws), cl)
  PROVE  Plan(d, ws, cl)
<1>1. Head(ws).lba = x /\ Head(ws).sec = s /\ ~Head(ws).sb
  BY DEF Write
<1>2. Fits(d, Head(ws))
  BY <1>1 DEF Fits
<1>. QED  BY <1>1, <1>2, PlanCons

\* The cell AddEntry takes.
AddCell(h, n) ==
  LET cell == FirstCell(disk, h, LAMBDA x : x = Free) IN IF cell # NoCell THEN cell ELSE Cell(n, 0)

\* An entry is added to the directory that starts at h.
LEMMA AddPlan ==
  ASSUME NEW d, NEW r, NEW n, NEW own, NEW at, NEW S, Vol(d, r, n, n, own, at, S),
         g_base_lba = BASE, NEW n0, g_sb = Sb(r, n0),
         NEW h, IsHead(d, r, S, h), NEW K, Closed(disk, K), h \in K, K \subseteq S,
         \A a \in K : AsDir(d, a) = AsDir(disk, a),
         NEW e \in Entries,
         \A g \in Chain(disk, h), j \in Slots : Ent(disk, g, j) # Free => Ent(disk, g, j).name # e.name,
         ~e.isdir => e.alloc = 0 /\ e.size = 0,
         e.isdir => /\ e.start \in S \ K /\ AsDir(d, e.start) = Zero
                    /\ own[e.start] = AddCell(h, n) /\ at[e.start] = Append(at[h], e.name),
         NEW cl, ~Writes(cl), cl.path = Append(at[h], e.name)
  PROVE  Plan(d, AddEntry(h, e, n), cl)
<1>. DEFINE cell == FirstCell(disk, h, LAMBDA x : x = Free)
            l == ChainEnd(disk, h)
<1>1. /\ n \in Nat /\ BASE \in Nat /\ h \in S /\ n # BASE /\ n \notin S /\ BASE \notin S /\ Good(d)
      /\ Volume(d, r, n, own, at, S) /\ S \subseteq LBAs
  BY VolBounds DEF Good, Vol
<1>2. Chain(d, h) = Chain(disk, h) /\ Chain(d, h) \subseteq K /\ l \in Chain(d, h)
  <2>1. \A a \in K : Link(d, a) = Link(disk, a)
    BY DEF Link
  <2>2. Trail(d, h) = Trail(disk, h)
    BY <2>1, TrailSame
  <2>. QED  BY <2>2, ChainIs DEF Chain
<1>3. \A a \in Chain(d, h) : a \in S /\ own[a] = own[h] /\ at[a] = at[h]
  BY <1>1, VolumeChain
<1>9. Link(d, l) = 0
  <2>1. \A a \in K : Link(d, a) = Link(disk, a)
    BY DEF Link
  <2>2. ChainEnd(d, h) = l
    BY <2>1, TrailSame DEF ChainEnd
  <2>3. Link(d, ChainEnd(d, h)) = 0
    BY <1>1, EndIs
  <2>. QED  BY <2>2, <2>3
<1>4. \A a \in K, j \in Slots : Ent(d, a, j) = Ent(disk, a, j)
  BY DEF Ent
<1>5. ASSUME NEW a \in Nat, NEW i \in Slots, Cell(a, i) = AddCell(h, n), NEW at2, at2[a] = at[h], NEW own2, NEW S2,
             NEW d2, NEW n2 \in Nat, S \subseteq S2, \A x \in S : own2[x] = own[x] /\ at2[x] = at[x]
      PROVE  EntryOk(d2, r, n2, own2, at2, S2, Cell(a, i), e)
  <2>1. Cell(a, i).lba = a
    BY DEF Cell
  <2>2. CASE e.isdir
    <3>1. e.start \in S2 /\ own2[e.start] = Cell(a, i) /\ at2[e.start] = Append(at2[a], e.name)
      BY <1>5, <2>2
    <3>. QED  BY <2>1, <2>2, <3>1 DEF EntryOk
  <2>3. CASE ~e.isdir
    <3>1. e.alloc = 0 /\ e.size = 0 /\ e.start \in Nat
      BY <2>3, EntryFields
    <3>2. \A x \in e.start..(e.start + 0 - 1) : FALSE
      BY <3>1
    <3>. QED  BY <2>3, <3>1, <3>2 DEF EntryOk
  <2>. QED  BY <2>2, <2>3
<1>6. CASE cell # NoCell
  <2>. DEFINE f == cell.lba
              i == cell.slot
              s == [AsDir(disk, f) EXCEPT !.ent[i] = e]
              ws == <<Write(f, s)>>
  <2>1. AddEntry(h, e, n) = ws /\ AddCell(h, n) = cell
    BY <1>6 DEF AddEntry, SetEntry, AddCell
  <2>2. cell = Cell(f, i) /\ f \in Chain(d, h) /\ i \in Slots /\ Entry(disk, cell) = Free
    BY <1>2, <1>6, FreeCellIs DEF Cell
  <2>. HIDE DEF cell
  <2>3. f \in K /\ f \in S /\ f \in Nat /\ AsDir(disk, f) = AsDir(d, f) /\ f # BASE /\ at[f] = at[h] /\ own[f] = own[h]
    BY <1>1, <1>2, <1>3, <2>2, Sizes
  <2>4. EntryOk(d, r, n, own, at, S, Cell(f, i), e)
    BY <1>1, <1>5, <2>1, <2>2, <2>3
  <2>5. ASSUME NEW g, IsHead(d, r, S, g), f \in Chain(d, g)
        PROVE  \A a \in Chain(d, g), j \in Slots : Ent(d, a, j) # Free /\ Ent(d, a, j).name = e.name => FALSE
    <3>0. g \in S
      BY <1>1, <2>5, HeadIs
    <3>1. own[f] = own[g]
      BY <1>1, <2>5, <3>0, VolumeChain
    <3>2. g = h
      <4>1. \A x : IsHead(d, r, S, x) /\ own[x] = own[h] => x = h
        BY <1>1, HeadIs
      <4>. QED  BY <2>3, <2>5, <3>1, <4>1
    <3>. QED  BY <1>2, <1>4, <3>2
  <2>6. e.isdir => AsDir(d, e.start) = Zero /\ e.start # f
    BY <2>3
  <2>. HIDE DEF f, i
  <2>7. Vol(After(d, f, [AsDir(d, f) EXCEPT !.ent[i] = e]), r, n, n, own, at, S)
    BY <2>2, <2>3, <2>4, <2>5, <2>6, VolEntry
  <2>8. Good(After(d, f, s))
    BY <2>3, <2>7 DEF Good
  <2>9. ws # <<>> /\ Head(ws) = Write(f, s) /\ Tail(ws) = <<>>
    OBVIOUS
  <2>10. Looks(d, After(d, f, s), cl.path)
    <3>1. Ent(d, f, i) = Free
      BY <2>2, <2>3 DEF Entry, Ent, Cell
    <3>2. ~Free.isdir
      BY EntryFields
    <3>3. e.isdir => e.start \in LBAs
      BY <1>1
    <3>4. PICK d2 : d2 = After(d, f, [AsDir(d, f) EXCEPT !.ent[i] = e])
      OBVIOUS
    <3>5. PICK o : o = Ent(d, f, i)
      OBVIOUS
    <3>6. ~o.isdir /\ ~(o # Free)
      BY <3>1, <3>2, <3>5
    <3>7. Vol(d2, r, n, n, own, at, S) /\ (e # Free => Append(at[f], e.name) = cl.path)
      BY <2>3, <2>7, <3>4
    <3>8. Looks(d, d2, cl.path)
      BY <2>2, <2>3, <2>6, <3>3, <3>4, <3>5, <3>6, <3>7, EntryAdded
    <3>. QED  BY <2>3, <3>4, <3>8
  <2>11. Plan(d, ws, cl)
    <3>. HIDE DEF ws, s
    <3>1. Plan(After(d, f, s), Tail(ws), cl)
      BY <2>8, <2>9, PlanNil
    <3>2. Does(d, After(d, f, s), ws, cl)
      BY <2>10 DEF Does
    <3>. QED  BY <1>1, <2>3, <2>9, <3>1, <3>2, PlanWrite
  <2>. QED  BY <2>1, <2>11
<1>7. CASE cell = NoCell
  <2>. DEFINE s3 == [AsDir(disk, l) EXCEPT !.link = n]
              s4 == [Zero EXCEPT !.ent[0] = e]
              ws == <<Flush(n + 1), Write(n, Zero), Write(l, s3), Write(n, s4)>>
              d1 == After(d, BASE, SbSector(Sb(r, n + 1)))
              d2 == After(d1, n, Zero)
              d3 == After(d2, l, s3)
              d4 == After(d3, n, s4)
  <2>1. AddEntry(h, e, n) = ws /\ AddCell(h, n) = Cell(n, 0)
    BY <1>7 DEF AddEntry, AddCell
  <2>. HIDE DEF cell, l
  <2>2. Flush(n + 1) = FlushTo(r, n + 1) /\ n + 1 \in Nat /\ n <= n + 1
    BY <1>1, FlushIs
  <2>3. /\ Vol(d1, r, n + 1, n, own, at, S)
        /\ \A x : x # BASE => AsDir(d1, x) = AsDir(d, x)
    BY <1>1, <2>2, VolFlush
  <2>. HIDE DEF d1
  <2>4. /\ Vol(d2, r, n + 1, n, own, at, S)
        /\ \A x : x # n => AsDir(d2, x) = AsDir(d1, x)
        /\ n \in LBAs => AsDir(d2, n) = Zero
        /\ \A x \in LBAs : x # n => d2[x] = d1[x]
    BY <1>1, <2>3, ZeroIs, VolOther
  <2>. HIDE DEF d2
  <2>13. Looks(d1, d2, cl.path)
    <3>1. n <= n
      BY <1>1
    <3>. QED  BY <1>1, <2>3, <2>4, <3>1, SectorStays
  <2>5. ASSUME n \in LBAs
        PROVE  Good(d3) /\ Good(d4) /\ Looks(d2, d3, cl.path) /\ Looks(d3, d4, cl.path)
    <3>. DEFINE own2 == [x \in Nat |-> IF x = n THEN own[h] ELSE own[x]]
                at2  == [x \in Nat |-> IF x = n THEN at[h] ELSE at[x]]
                S2   == S \cup {n}
    <3>1. /\ \A x \in Nat : x < n => own2[x] = own[x] /\ at2[x] = at[x]
          /\ own2[n] = own[h] /\ at2[n] = at[h]
      BY <1>1
    <3>. HIDE DEF own2, at2
    <3>2. S \subseteq S2 /\ S2 \subseteq LBAs /\ \A f \in S2 \ S : n <= f /\ f < n + 1 /\ AsDir(d2, f) = Zero
      BY <1>1, <2>4, <2>5
    <3>3. Vol(d2, r, n + 1, n + 1, own2, at2, S2)
      BY <1>1, <2>2, <2>4, <3>1, <3>2, VolExtends
    <3>4. l \in K /\ l \in S /\ l < n /\ l # n /\ l # BASE /\ own[l] = own[h] /\ at[l] = at[h] /\ AsDir(d2, l) = AsDir(disk, l)
      <4>1. l \in K /\ l \in S /\ own[l] = own[h] /\ at[l] = at[h]
        BY <1>2, <1>3
      <4>2. l < n /\ l \in Nat
        BY <4>1, VolBounds
      <4>3. l # n
        BY <1>1, <4>1
      <4>. QED  BY <1>1, <2>3, <2>4, <4>1, <4>2, <4>3
    <3>5. \A x \in S : own2[x] = own[x] /\ at2[x] = at[x]
      BY <1>1, <3>1, VolBounds
    <3>6. /\ Vol(d3, r, n + 1, n + 1, own2, at2, S2)
          /\ \A g : IsHead(d3, r, S2, g) <=> IsHead(d2, r, S2, g)
          /\ \A g \in S2 : Chain(d3, g) \subseteq Chain(d2, g) \cup {n}
      <4>1. n \in S2 /\ l \in S2 /\ own2[n] = own2[l] /\ at2[n] = at2[l] /\ AsDir(d2, n) = Zero
        BY <2>4, <2>5, <3>1, <3>4, <3>5
      <4>2. d3 = After(d2, l, [AsDir(d2, l) EXCEPT !.link = n])
        BY <3>4
      <4>. HIDE DEF d3, S2
      <4>. QED  BY <3>3, <3>4, <4>1, <4>2, VolLinked
    <3>7. \A x : x # l => AsDir(d3, x) = AsDir(d2, x)
      <4>1. l \in LBAs /\ AsDir(disk, l) \in DirSectors
        BY <1>1, <3>3, <3>4, AsDirIs DEF Vol
      <4>2. s3 \in DirSectors
        BY <1>1, <4>1 DEF DirSectors
      <4>. HIDE DEF s3
      <4>. QED  BY <3>3, <4>2, AfterIs DEF Vol
    <3>16. Looks(d2, d3, cl.path)
      <4>1. n \in S2 /\ l \in S2 /\ own2[n] = own2[l] /\ at2[n] = at2[l] /\ AsDir(d2, n) = Zero
        BY <2>4, <2>5, <3>1, <3>4, <3>5
      <4>2. d3 = After(d2, l, [AsDir(d2, l) EXCEPT !.link = n])
        BY <3>4
      <4>3. Link(d2, l) = 0
        <5>1. AsDir(d2, l) = AsDir(d, l)
          BY <1>1, <2>3, <2>4, <3>4
        <5>. QED  BY <1>9, <5>1 DEF Link
      <4>. HIDE DEF d3, S2
      <4>. QED  BY <3>3, <3>4, <4>1, <4>2, <4>3, Linked
    <3>8. \A g \in S : Chain(d2, g) = Chain(d, g)
      <4>1. \A x \in S : AsDir(d2, x) = AsDir(d, x)
        BY <1>1, <2>3, <2>4
      <4>2. Closed(d, S)
        BY <1>1, VolumeChain
      <4>. QED  BY <4>1, <4>2, TrailSame DEF Chain, Link
    <3>9. \A x \in S, j \in Slots : Ent(d3, x, j) = Ent(d, x, j)
      <4>1. \A x \in S : AsDir(d2, x) = AsDir(d, x)
        BY <1>1, <2>3, <2>4
      <4>2. AsDir(d3, l).ent = AsDir(d2, l).ent
        <5>1. l \in LBAs /\ AsDir(disk, l) \in DirSectors
          BY <1>1, <3>3, <3>4, AsDirIs DEF Vol
        <5>2. s3 \in DirSectors /\ s3.kind = "dir" /\ s3.ent = AsDir(d2, l).ent
          BY <1>1, <3>4, <5>1 DEF DirSectors
        <5>3. AsDir(d3, l) = s3
          <6>. HIDE DEF s3
          <6>. QED  BY <3>3, <5>1, <5>2, AfterIs DEF Vol
        <5>. HIDE DEF s3
        <5>. QED  BY <5>2, <5>3
      <4>. HIDE DEF d3
      <4>. QED  BY <3>7, <4>1, <4>2 DEF Ent
    <3>. HIDE DEF d3
    <3>10. AsDir(d3, n) = Zero /\ 0 \in Slots /\ n \in S2 /\ \A j \in Slots : Ent(d3, n, j) = Free
      BY <2>4, <2>5, <3>4, <3>7, ZeroIs, Sizes DEF Ent
    <3>. HIDE DEF S2
    <3>11. EntryOk(d3, r, n + 1, own2, at2, S2, Cell(n, 0), e)
      BY <1>1, <1>5, <2>1, <2>2, <3>1, <3>2, <3>5, <3>10
    <3>12. ASSUME NEW g, IsHead(d3, r, S2, g), n \in Chain(d3, g)
           PROVE  \A a \in Chain(d3, g), j \in Slots : Ent(d3, a, j) # Free /\ Ent(d3, a, j).name = e.name => FALSE
      <4>1. g \in S2 /\ Volume(d3, r, n + 1, own2, at2, S2)
        BY <3>6, <3>12, HeadIs DEF Vol
      <4>2. own2[n] = own2[g] /\ own2[h] = own2[n]
        BY <1>1, <3>1, <3>5, <3>12, <4>1, VolumeChain
      <4>3. IsHead(d3, r, S2, h)
        <5>1. IsHead(d2, r, S2, h)
          <6>1. \A x \in S, j \in Slots : Ent(d2, x, j) = Ent(d, x, j)
            BY <1>1, <2>3, <2>4 DEF Ent
          <6>. QED  BY <3>2, <6>1 DEF IsHead
        <5>. QED  BY <3>6, <5>1
      <4>4. g = h
        <5>1. \A x : IsHead(d3, r, S2, x) /\ own2[x] = own2[h] => x = h
          BY <4>1, <4>3, HeadIs
        <5>. QED  BY <3>12, <4>2, <5>1
      <4>5. Chain(d3, g) \subseteq Chain(d, h) \cup {n}
        BY <1>1, <3>6, <3>8, <4>1, <4>4
      <4>6. \A a \in Chain(d, h), j \in Slots : Ent(d3, a, j) # Free => Ent(d3, a, j).name # e.name
        BY <1>2, <1>4, <3>9
      <4>. QED  BY <3>10, <4>5, <4>6
    <3>13. e.isdir => AsDir(d3, e.start) = Zero /\ e.start # n
      <4>. SUFFICES ASSUME e.isdir PROVE AsDir(d3, e.start) = Zero /\ e.start # n
        OBVIOUS
      <4>1. e.start \in S /\ e.start \notin K /\ AsDir(d, e.start) = Zero
        OBVIOUS
      <4>. QED  BY <1>1, <2>3, <2>4, <3>4, <3>7, <4>1
    <3>14. Vol(d4, r, n + 1, n + 1, own2, at2, S2)
      <4>1. d4 = After(d3, n, [AsDir(d3, n) EXCEPT !.ent[0] = e])
        BY <3>10
      <4>. HIDE DEF d4
      <4>. QED  BY <3>6, <3>10, <3>11, <3>12, <3>13, <4>1, VolEntry
    <3>15. Looks(d3, d4, cl.path)
      <4>1. d4 = After(d3, n, [AsDir(d3, n) EXCEPT !.ent[0] = e])
        BY <3>10
      <4>. HIDE DEF d4
      <4>2. e.isdir => e.start \in LBAs
        BY <1>1
      <4>3. cl.path = Append(at2[n], e.name)
        BY <3>1
      <4>4. ~Free.isdir
        BY EntryFields
      <4>5. PICK o : o = Ent(d3, n, 0)
        OBVIOUS
      <4>6. ~o.isdir /\ ~(o # Free)
        BY <3>10, <4>4, <4>5
      <4>. QED  BY <3>6, <3>10, <3>13, <3>14, <4>1, <4>2, <4>3, <4>5, <4>6, EntryAdded
    <3>. QED  BY <3>6, <3>14, <3>15, <3>16 DEF Good
  <2>6. /\ ws # <<>> /\ Head(ws) = FlushTo(r, n + 1) /\ Tail(ws) = <<Write(n, Zero), Write(l, s3), Write(n, s4)>>
    BY <2>2
  <2>7. Good(d1) /\ Good(d2)
    BY <2>3, <2>4 DEF Good
  <2>8. l # BASE
    BY <1>1, <1>3, <1>2
  <2>. HIDE DEF s3, s4
  <2>9. ASSUME n \in LBAs PROVE Plan(d3, <<Write(n, s4)>>, cl)
    <3>1. Good(d3) /\ Plan(d4, <<>>, cl)
      BY <2>5, <2>9, PlanNil
    <3>2. LET q == <<Write(n, s4)>> IN q # <<>> /\ Head(q) = Write(n, s4) /\ Tail(q) = <<>>
      OBVIOUS
    <3>3. Does(d3, d4, <<Write(n, s4)>>, cl)
      BY <2>5, <2>9 DEF Does
    <3>. HIDE DEF d3
    <3>. QED  BY <1>1, <3>1, <3>2, <3>3, PlanWrite
  <2>10. ASSUME n \in LBAs PROVE Plan(d2, <<Write(l, s3), Write(n, s4)>>, cl)
    <3>2. LET q == <<Write(l, s3), Write(n, s4)>> IN q # <<>> /\ Head(q) = Write(l, s3) /\ Tail(q) = <<Write(n, s4)>>
      OBVIOUS
    <3>3. Does(d2, d3, <<Write(l, s3), Write(n, s4)>>, cl)
      BY <2>5, <2>10 DEF Does
    <3>4. Plan(d3, <<Write(n, s4)>>, cl)
      BY <2>9, <2>10
    <3>5. PICK q : q = <<Write(l, s3), Write(n, s4)>>
      OBVIOUS
    <3>6. q # <<>> /\ Head(q) = Write(l, s3) /\ Does(d2, d3, q, cl) /\ Plan(d3, Tail(q), cl)
      BY <3>2, <3>3, <3>4, <3>5
    <3>7. Plan(d2, q, cl)
      BY ONLY <2>7, <2>8, <3>6, PlanWrite
    <3>. QED  BY <3>5, <3>7
  <2>11. Plan(d1, <<Write(n, Zero), Write(l, s3), Write(n, s4)>>, cl)
    <3>1. LET q == <<Write(n, Zero), Write(l, s3), Write(n, s4)>>
          IN q # <<>> /\ Head(q) = Write(n, Zero) /\ Tail(q) = <<Write(l, s3), Write(n, s4)>>
      OBVIOUS
    <3>2. Writable(n) => n \in LBAs
      BY DEF Writable
    <3>3. Does(d1, d2, <<Write(n, Zero), Write(l, s3), Write(n, s4)>>, cl)
      BY <2>13 DEF Does
    <3>4. PICK q : q = <<Write(n, Zero), Write(l, s3), Write(n, s4)>>
      OBVIOUS
    <3>5. q # <<>> /\ Head(q) = Write(n, Zero) /\ Does(d1, d2, q, cl) /\ (Writable(n) => Plan(d2, Tail(q), cl))
      BY <2>10, <3>1, <3>2, <3>3, <3>4
    <3>6. PICK x : x = d1
      OBVIOUS
    <3>7. d2 = After(x, n, Zero) /\ Good(x) /\ Does(x, d2, q, cl) /\ n # BASE
      BY <1>1, <2>7, <3>5, <3>6 DEF d2
    <3>8. Writable(n) => Does(x, After(x, n, Zero), q, cl) /\ Plan(After(x, n, Zero), Tail(q), cl)
      BY ONLY <3>5, <3>7
    <3>9. Plan(x, q, cl)
      BY ONLY <3>5, <3>7, <3>8, PlanWrite
    <3>. QED  BY <3>4, <3>6, <3>9
  <2>12. Plan(d, ws, cl)
    <3>1. PICK w : w = ws
      OBVIOUS
    <3>2. PICK n2 : n2 = n + 1
      OBVIOUS
    <3>3. n2 \in Nat /\ n <= n2
      BY <1>1, <3>2
    <3>4. w # <<>> /\ Head(w) = FlushTo(r, n2)
      BY <2>6, <3>1, <3>2
    <3>5. Plan(After(d, BASE, SbSector(Sb(r, n2))), Tail(w), cl)
      BY <2>6, <2>11, <3>1, <3>2 DEF d1
    <3>6. Vol(d, r, n, n, own, at, S) /\ ~Writes(cl)
      OBVIOUS
    <3>7. Plan(d, w, cl)
      BY ONLY <3>3, <3>4, <3>5, <3>6, PlanFlush
    <3>. QED  BY <3>1, <3>7
  <2>. QED  BY <2>1, <2>12
<1>. QED  BY <1>6, <1>7

-----------------------------------------------------------------------------
(* The calls                                                               *)

\* The driver works on the volume, and its memory is the superblock.
Live(r, n, m, own, at, S) ==
  Vol(disk, r, n, m, own, at, S) /\ g_base_lba = BASE /\ g_sb = Sb(r, n)

\* What the driver knows of the volume it works on.
LEMMA LiveIs ==
  ASSUME NEW r, NEW n, NEW m, NEW own, NEW at, NEW S, Live(r, n, m, own, at, S)
  PROVE  /\ Vol(disk, r, n, n, own, at, S) /\ Volume(disk, r, m, own, at, S) /\ IsDisk(disk)
         /\ Closed(disk, S) /\ g_sb.dir = r /\ g_sb.next = n /\ r \in S
<1>1. Vol(disk, r, n, m, own, at, S) /\ Volume(disk, r, m, own, at, S) /\ IsDisk(disk)
  BY DEF Live, Vol
<1>2. r \in S /\ m \in Nat /\ n \in Nat /\ m <= n /\ n <= n /\ S \subseteq S /\ S \subseteq LBAs
  BY <1>1, VolBounds
<1>3. Vol(disk, r, n, n, own, at, S)
  BY <1>1, <1>2, VolExtends
<1>4. Closed(disk, S)
  BY <1>1, <1>2, VolumeChain
<1>. QED  BY <1>1, <1>2, <1>3, <1>4 DEF Live, Sb

\* path_resolve, on the volume the driver works on.
LEMMA LiveResolve ==
  ASSUME NEW r, NEW n, NEW m, NEW own, NEW at, NEW S, Live(r, n, m, own, at, S),
         NEW p \in Seq(Names), NEW c
  PROVE  Resolved(disk, r, at, S, p, Resolve(p, c))
BY LiveIs, ResolveIs DEF Resolve

\* After the checks of mkdir and create: a directory without the new name.
LEMMA MayAddIs ==
  ASSUME NEW r, NEW n, NEW m, NEW own, NEW at, NEW S, Live(r, n, m, own, at, S),
         NEW p \in Seq(Names), p # <<>>, NEW c, MayAdd(p, c)
  PROVE  LET h == Parent(p, c).dir
         IN  /\ IsHead(disk, r, S, h) /\ h \in S /\ Last(p) \in Names /\ Append(at[h], Last(p)) = p
             /\ \A g \in Chain(disk, h), j \in Slots :
                  Ent(disk, g, j) # Free => Ent(disk, g, j).name # Last(p)
<1>. DEFINE h == Parent(p, c).dir
<1>1. Front(p) \in Seq(Names) /\ Last(p) \in Names
  BY FrontIs
<1>2. Parent(p, c).ok /\ Parent(p, c).isdir /\ chain_find(disk, h, Last(p)) = NoCell
  BY DEF MayAdd, Exists
<1>3. Resolved(disk, r, at, S, Front(p), Parent(p, c))
  BY <1>1, LiveResolve DEF Parent
<1>4. IsHead(disk, r, S, h) /\ at[h] = Front(p)
  BY <1>2, <1>3 DEF Resolved
<1>. HIDE DEF h
<1>5. h \in S /\ Closed(disk, S)
  BY <1>4, LiveIs, HeadIs
<1>6. \A g \in Chain(disk, h), j \in Slots : Ent(disk, g, j).name # Last(p)
  BY <1>2, <1>5, FindIs DEF Ent
<1>7. Append(at[h], Last(p)) = p
  BY <1>4, WholePath
<1>. QED  BY <1>1, <1>4, <1>5, <1>6, <1>7 DEF h

\* pdfs_create.
LEMMA CreatePlan ==
  ASSUME NEW r, NEW n, NEW m, NEW own, NEW at, NEW S, Live(r, n, m, own, at, S),
         NEW p \in Seq(Names), p # <<>>, NEW c, MayAdd(p, c),
         NEW e \in Entries, e.name = Last(p), ~e.isdir, e.alloc = 0, e.size = 0,
         NEW cl, ~Writes(cl), cl.path = p
  PROVE  Plan(disk, AddEntry(Parent(p, c).dir, e, g_sb.next), cl)
<1>. DEFINE h == Parent(p, c).dir
<1>1. /\ Vol(disk, r, n, n, own, at, S) /\ Closed(disk, S) /\ S \subseteq S
      /\ g_base_lba = BASE /\ g_sb = Sb(r, n) /\ g_sb.next = n
  BY LiveIs DEF Live
<1>2. /\ IsHead(disk, r, S, h) /\ h \in S
      /\ \A g \in Chain(disk, h), j \in Slots :
           Ent(disk, g, j) # Free => Ent(disk, g, j).name # e.name
      /\ cl.path = Append(at[h], e.name)
  BY MayAddIs
<1>. HIDE DEF h
<1>3. Plan(disk, AddEntry(h, e, n), cl)
  BY <1>1, <1>2, AddPlan
<1>. QED  BY <1>1, <1>3 DEF h

\* A sequence of two writes and then others, ...
Starts(s, a, b, q) ==
  s # <<>> /\ Head(s) = a /\ Tail(s) # <<>> /\ Head(Tail(s)) = b /\ Tail(Tail(s)) = q

\* ... as they are put together.
LEMMA TwoThen ==
  ASSUME NEW W, NEW a \in W, NEW b \in W, NEW q \in Seq(W), NEW s, s = <<a, b>> \o q
  PROVE  Starts(s, a, b, q)
<1>. DEFINE x == <<a, b>>
            y == <<a>> \o <<b>>
<1>1. <<a>> \in Seq(W) /\ <<b>> \in Seq(W) /\ Len(<<a>>) = 1 /\ Len(<<b>>) = 1 /\ <<a>>[1] = a /\ <<b>>[1] = b
  OBVIOUS
<1>2. x \in Seq(W) /\ Len(x) = 2 /\ x[1] = a /\ x[2] = b
  OBVIOUS
<1>3. y \in Seq(W) /\ Len(y) = 2 /\ y[1] = a /\ y[2] = b
  <2>1. /\ y \in Seq(W) /\ Len(y) = 1 + 1
        /\ \A i \in 1..(1 + 1) : y[i] = IF i <= 1 THEN <<a>>[i] ELSE <<b>>[i - 1]
    <3>. HIDE DEF y
    <3>. QED  BY <1>1, ConcatProperties DEF y
  <2>. HIDE DEF y
  <2>. QED  BY <1>1, <2>1
<1>. HIDE DEF x, y
<1>4. x = y
  <2>1. \A i \in 1..2 : x[i] = y[i]
    BY <1>2, <1>3
  <2>. QED  BY <1>2, <1>3, <2>1, SeqEqual
<1>5. x \o q = <<a>> \o (<<b>> \o q)
  BY <1>1, <1>4, ConcatAssociative DEF y
<1>6. \A v \in W, z \in Seq(W) :
        <<v>> \o z \in Seq(W) /\ <<v>> \o z # <<>> /\ Head(<<v>> \o z) = v /\ Tail(<<v>> \o z) = z
  OBVIOUS
<1>. DEFINE z == <<b>> \o q
<1>7. z \in Seq(W) /\ z # <<>> /\ Head(z) = b /\ Tail(z) = q
  BY <1>6
<1>. HIDE DEF z
<1>8. s = <<a>> \o z
  BY <1>5 DEF x, z
<1>9. s \in Seq(W) /\ s # <<>> /\ Head(s) = a /\ Tail(s) = z
  BY <1>6, <1>7, <1>8
<1>. QED  BY <1>7, <1>9 DEF Starts

\* The writes of AddEntry are a sequence over some set.
LEMMA AddEntryIsSeq ==
  ASSUME NEW h, NEW e, NEW n, NEW a, NEW b
  PROVE  \E W : a \in W /\ b \in W /\ AddEntry(h, e, n) \in Seq(W)
<1>. DEFINE cell == FirstCell(disk, h, LAMBDA x : x = Free)
            l == ChainEnd(disk, h)
            w0 == SetEntry(cell.lba, cell.slot, e)
            w1 == Flush(n + 1)
            w2 == Write(n, Zero)
            w3 == Write(l, [AsDir(disk, l) EXCEPT !.link = n])
            w4 == Write(n, [Zero EXCEPT !.ent[0] = e])
            W == {a, b, w0, w1, w2, w3, w4}
<1>1. AddEntry(h, e, n) = IF cell # NoCell THEN <<w0>> ELSE <<w1, w2, w3, w4>>
  BY DEF AddEntry
<1>. HIDE DEF cell, w0, w1, w2, w3, w4
<1>2. a \in W /\ b \in W /\ w0 \in W /\ w1 \in W /\ w2 \in W /\ w3 \in W /\ w4 \in W
  OBVIOUS
<1>. HIDE DEF W
<1>3. <<w0>> \in Seq(W) /\ <<w1, w2, w3, w4>> \in Seq(W)
  BY <1>2
<1>. QED  BY <1>1, <1>2, <1>3

\* pdfs_mkdir.
LEMMA MkdirPlan ==
  ASSUME NEW r, NEW n, NEW m, NEW own, NEW at, NEW S, Live(r, n, m, own, at, S),
         NEW p \in Seq(Names), p # <<>>, NEW c, MayAdd(p, c), NEW uid \in Nat, NEW mode \in SUBSET ModeBits,
         NEW cl, ~Writes(cl), cl.path = p
  PROVE  Plan(disk, MkdirWrites(p, uid, mode, c), cl)
<1>. DEFINE h == Parent(p, c).dir
            e == [Free EXCEPT !.name = Last(p), !.isdir = TRUE, !.start = n, !.alloc = 1,
                              !.uid = uid, !.mode = mode]
            q == AddEntry(h, e, n + 1)
            ws == <<Flush(n + 1), Write(n, Zero)>> \o q
            d1 == After(disk, BASE, SbSector(Sb(r, n + 1)))
            d2 == After(d1, n, Zero)
            k == AddCell(h, n + 1)
<1>1. /\ Vol(disk, r, n, n, own, at, S) /\ Volume(disk, r, m, own, at, S) /\ Closed(disk, S)
      /\ g_base_lba = BASE /\ g_sb = Sb(r, n) /\ g_sb.next = n
  BY LiveIs DEF Live
<1>2. /\ n \in Nat /\ n + 1 \in Nat /\ n <= n + 1 /\ n < n + 1 /\ n # BASE /\ n \notin S /\ S \subseteq LBAs
      /\ BASE \in Nat /\ BASE \notin S
  BY <1>1, VolBounds
<1>3. MkdirWrites(p, uid, mode, c) = ws
  BY <1>1 DEF MkdirWrites
<1>4. /\ IsHead(disk, r, S, h) /\ h \in S /\ Last(p) \in Names /\ Append(at[h], Last(p)) = p
      /\ \A g \in Chain(disk, h), j \in Slots :
           Ent(disk, g, j) # Free => Ent(disk, g, j).name # Last(p)
  BY MayAddIs
<1>5. /\ e \in Entries /\ e.name = Last(p) /\ e.isdir /\ e.start = n
  <2>1. e = DirEntry(Last(p), n, uid, mode)
    BY DEF DirEntry
  <2>. HIDE DEF e
  <2>. QED  BY <1>2, <1>4, <2>1, NewDir
<1>6. Flush(n + 1) = FlushTo(r, n + 1)
  BY <1>1, FlushIs
<1>7. ws # <<>> /\ Head(ws) = FlushTo(r, n + 1) /\ Tail(ws) # <<>> /\ Head(Tail(ws)) = Write(n, Zero) /\ Tail(Tail(ws)) = q
  <2>1. PICK W : Flush(n + 1) \in W /\ Write(n, Zero) \in W /\ q \in Seq(W)
    BY AddEntryIsSeq
  <2>. DEFINE a == Flush(n + 1)
              b == Write(n, Zero)
  <2>. HIDE DEF q
  <2>2. a \in W /\ b \in W /\ q \in Seq(W) /\ ws = <<a, b>> \o q
    BY <2>1
  <2>. HIDE DEF a, b, ws
  <2>3. Starts(ws, a, b, q)
    BY <2>2, TwoThen
  <2>. QED  BY <1>6, <2>3 DEF a, b, Starts
<1>. HIDE DEF h, e, q, ws, k
<1>8. Vol(d1, r, n + 1, n, own, at, S) /\ \A x : x # BASE => AsDir(d1, x) = AsDir(disk, x)
  BY <1>1, <1>2, VolFlush
<1>. HIDE DEF d1
<1>9. /\ Vol(d2, r, n + 1, n, own, at, S)
      /\ \A x : x # n => AsDir(d2, x) = AsDir(d1, x)
      /\ n \in LBAs => AsDir(d2, n) = Zero
      /\ \A x \in LBAs : x # n => d2[x] = d1[x]
  BY <1>2, <1>8, ZeroIs, VolOther
<1>. HIDE DEF d2
<1>13. Does(d1, d2, Tail(ws), cl)
  <2>1. n <= n
    BY <1>2
  <2>2. Looks(d1, d2, cl.path)
    BY <1>2, <1>8, <1>9, <2>1, SectorStays
  <2>. QED  BY <2>2 DEF Does
<1>10. ASSUME n \in LBAs PROVE Plan(d2, q, cl)
  <2>. DEFINE own2 == [x \in Nat |-> IF x = n THEN k ELSE own[x]]
              at2  == [x \in Nat |-> IF x = n THEN Append(at[h], e.name) ELSE at[x]]
              S2   == S \cup {n}
  <2>1. /\ \A x \in Nat : x < n => own2[x] = own[x] /\ at2[x] = at[x]
        /\ own2[n] = k /\ at2[n] = Append(at[h], e.name)
    BY <1>2
  <2>. HIDE DEF own2, at2
  <2>2. S \subseteq S2 /\ S2 \subseteq LBAs /\ n \in S2 \ S /\ \A f \in S2 \ S : n <= f /\ f < n + 1 /\ AsDir(d2, f) = Zero
    BY <1>2, <1>9, <1>10
  <2>3. Vol(d2, r, n + 1, n + 1, own2, at2, S2)
    BY <1>2, <1>9, <2>1, <2>2, VolExtends
  <2>4. \A a \in S : AsDir(d2, a) = AsDir(disk, a)
    BY <1>2, <1>8, <1>9
  <2>5. IsHead(d2, r, S2, h)
    BY <1>4, <2>2, <2>4 DEF IsHead, Ent
  <2>6. at2[h] = at[h]
    <3>1. h \in Nat /\ h < n
      BY <1>1, <1>4, VolBounds
    <3>. QED  BY <2>1, <3>1
  <2>7. e.isdir => /\ e.start \in S2 \ S /\ AsDir(d2, e.start) = Zero
                   /\ own2[e.start] = AddCell(h, n + 1) /\ at2[e.start] = Append(at2[h], e.name)
    BY <1>5, <1>9, <1>10, <2>1, <2>2, <2>6 DEF k
  <2>8. \A g \in Chain(disk, h), j \in Slots : Ent(disk, g, j) # Free => Ent(disk, g, j).name # e.name
    BY <1>4, <1>5
  <2>9. cl.path = Append(at2[h], e.name)
    BY <1>4, <1>5, <2>6
  <2>. HIDE DEF S2
  <2>. QED  BY <1>1, <1>4, <1>5, <2>2, <2>3, <2>4, <2>5, <2>7, <2>8, <2>9, AddPlan DEF q
<1>11. Plan(d1, Tail(ws), cl)
  <2>1. Good(d1)
    BY <1>8 DEF Good
  <2>2. Writable(n) => n \in LBAs
    BY DEF Writable
  <2>3. Does(d1, After(d1, n, Zero), Tail(ws), cl)
    BY <1>13 DEF d2
  <2>. QED  BY <1>2, <1>7, <1>10, <2>1, <2>2, <2>3, PlanWrite DEF d2
<1>12. Plan(disk, ws, cl)
  BY <1>1, <1>2, <1>7, <1>11, PlanFlush DEF d1
<1>. QED  BY <1>3, <1>12

\* The entry of a cell is cleared, or its owner or mode changes.
LEMMA ReplacePlan ==
  ASSUME NEW r, NEW n, NEW m, NEW own, NEW at, NEW S, Live(r, n, m, own, at, S),
         NEW f \in S, NEW i \in Slots, NEW e \in Entries, Ent(disk, f, i) # Free,
         \/ e = Free /\ ~Ent(disk, f, i).isdir
         \/ /\ e.name = Ent(disk, f, i).name /\ e.isdir = Ent(disk, f, i).isdir
            /\ e.start = Ent(disk, f, i).start /\ e.alloc = Ent(disk, f, i).alloc
            /\ e.size = Ent(disk, f, i).size,
         NEW cl, ~Writes(cl), cl.path = Append(at[f], Ent(disk, f, i).name)
  PROVE  Plan(disk, <<SetEntry(f, i, e)>>, cl)
<1>. DEFINE o == Ent(disk, f, i)
            s == [AsDir(disk, f) EXCEPT !.ent[i] = e]
            ws == <<SetEntry(f, i, e)>>
<1>1. /\ Vol(disk, r, n, n, own, at, S) /\ Volume(disk, r, n, own, at, S)
      /\ EntryOk(disk, r, n, own, at, S, Cell(f, i), o)
  BY LiveIs DEF Vol, Volume
<1>2. ~Free.isdir
  BY EntryFields
<1>. HIDE DEF o
<1>3. EntryOk(disk, r, n, own, at, S, Cell(f, i), e)
  BY <1>1 DEF EntryOk, o
<1>4. ASSUME e # Free, NEW h, IsHead(disk, r, S, h), f \in Chain(disk, h),
             NEW g \in Chain(disk, h), NEW j \in Slots,
             Ent(disk, g, j) # Free, Ent(disk, g, j).name = e.name
      PROVE  g = f /\ j = i
  <2>1. Unique(disk, h)
    BY <1>1, <1>4 DEF Volume
  <2>. QED  BY <1>4, <2>1 DEF Unique
<1>5. e.isdir => IsHead(disk, r, S, e.start)
  BY <1>2 DEF IsHead
<1>6. Vol(After(disk, f, s), r, n, n, own, at, S)
  BY <1>1, <1>3, <1>4, <1>5, VolEntry
<1>7. f # BASE /\ Good(disk) /\ Good(After(disk, f, s))
  BY <1>1, <1>6, VolBounds DEF Good
<1>8. ws # <<>> /\ Head(ws) = Write(f, s) /\ Tail(ws) = <<>>
  BY DEF SetEntry
<1>11. Does(disk, After(disk, f, s), ws, cl)
  <2>1. PICK d2 : d2 = After(disk, f, s)
    OBVIOUS
  <2>2. \/ Alike(o, e)
        \/ ~o.isdir /\ ~(e # Free) /\ ~e.isdir
    BY <1>2 DEF Alike, o
  <2>3. Vol(d2, r, n, n, own, at, S) /\ (o # Free => Append(at[f], o.name) = cl.path)
    BY <1>6, <2>1 DEF o
  <2>4. /\ d2 = After(disk, f, [AsDir(disk, f) EXCEPT !.ent[i] = e]) /\ o = Ent(disk, f, i)
        /\ \/ Alike(o, e)
           \/ /\ ~o.isdir /\ (e # Free => Append(at[f], e.name) = cl.path)
              /\ e.isdir => e.start \in LBAs /\ AsDir(disk, e.start) = Zero /\ e.start # f
    BY <2>1, <2>2 DEF o
  <2>5. PICK p : p = cl.path
    OBVIOUS
  <2>6. \/ Alike(o, e)
        \/ /\ ~o.isdir /\ (e # Free => Append(at[f], e.name) = p)
           /\ e.isdir => e.start \in LBAs /\ AsDir(disk, e.start) = Zero /\ e.start # f
    BY <2>4, <2>5
  <2>7. Looks(disk, d2, p)
    <3>1. PICK x : x = [AsDir(disk, f) EXCEPT !.ent[i] = e]
      OBVIOUS
    <3>2. d2 = After(disk, f, x)
      BY <2>4, <3>1
    <3>. QED  BY ONLY <1>1, <2>3, <2>4, <2>5, <2>6, <3>1, <3>2, f \in S, i \in Slots, e \in Entries, EntryStays
  <2>8. Looks(disk, d2, cl.path)
    BY <2>5, <2>7
  <2>. HIDE DEF ws, s
  <2>. QED  BY <2>1, <2>8 DEF Does
<1>. HIDE DEF s
<1>9. Plan(After(disk, f, s), Tail(ws), cl)
  BY <1>7, <1>8, PlanNil
<1>10. Plan(disk, ws, cl)
  <2>. HIDE DEF ws
  <2>. QED  BY <1>7, <1>8, <1>9, <1>11, PlanWrite
<1>. QED  BY <1>10

\* A place in a run of sectors, by its number.
LEMMA InRun ==
  ASSUME NEW b \in Nat, NEW z \in Nat, NEW n \in Nat, n <= z, NEW k \in Nat, k + 1 <= n
  PROVE  /\ b + (k + 1) - 1 \in Nat /\ b + (k + 1) - 1 \in b..(b + z - 1)
         /\ k + 1 \in 1..n /\ k \in 0..n /\ k # n
OBVIOUS

\* The number of a place in a run of sectors.
LEMMA PlaceInRun ==
  ASSUME NEW a \in Nat, NEW n \in Nat, NEW x \in a..(a + n - 1)
  PROVE  x - a + 1 \in 1..n /\ a + (x - a + 1) - 1 = x
OBVIOUS

\* What a path shows that leads to a file whose sectors hold v.
LEMMA ShownIs ==
  ASSUME NEW d, NEW r, NEW n, d[BASE] = SbSector(Sb(r, n)), NEW p, NEW c, FileAt(d, r, p, c),
         NEW e, e = Entry(d, c), NEW v \in Seq(Contents), e.size = Len(v),
         \A j \in 1..Len(v) : d[e.start + j - 1] = Data(p, v[j]),
         NEW cl, cl.path = p, cl.val = v
  PROVE  Shown(d, cl)
<1>. DEFINE R == path_resolve(d, r, p, ElevatedRoot)
<1>1. R.ok /\ R.cell = c /\ ~R.isdir
  BY DEF FileAt
<1>2. View(d, p) = IF ~R.ok THEN <<"none">> ELSE IF R.isdir THEN <<"dir">>
                   ELSE <<"file">> \o [i \in 1..Entry(d, R.cell).size |-> d[Entry(d, R.cell).start + i - 1]]
  BY ONLY d[BASE] = SbSector(Sb(r, n)), ViewIs
<1>. HIDE DEF R
<1>3. View(d, p) = <<"file">> \o [i \in 1..e.size |-> d[e.start + i - 1]]
  BY <1>1, <1>2
<1>4. DOMAIN v = 1..Len(v)
  OBVIOUS
<1>5. [i \in 1..e.size |-> d[e.start + i - 1]] = [i \in DOMAIN v |-> Data(p, v[i])]
  BY <1>4
<1>. QED  BY <1>3, <1>5 DEF Shown

\* The sectors of v are written to the run of a file, then its entry, by the
\* call cl of pdfs_write.
DataWrites(d0, r, n, m, own, at, S, f, i, o, p, v, e, ws, W, cl) ==
  /\ Writes(cl) /\ cl.path = p /\ cl.val = v /\ p \in Seq(Names) /\ p # <<>> /\ FileAt(d0, r, p, Cell(f, i))
  /\ Vol(d0, r, n, m, own, at, S) /\ f \in S /\ i \in Slots
  /\ o = Ent(d0, f, i) /\ o # Free /\ ~o.isdir /\ p = Append(at[f], o.name)
  /\ v \in Seq(Contents) /\ e \in Entries /\ e.name = o.name /\ ~e.isdir /\ e.isdir = o.isdir
  /\ e.size = Len(v) /\ e.size <= e.alloc
  /\ \A x \in e.start..(e.start + e.alloc - 1) : r <= x /\ x < m /\ own[x] = Cell(f, i) /\ x \notin S
  /\ ws \in Seq(W) /\ Len(ws) = Len(v) + 1
  /\ \A j \in 1..Len(v) : ws[j] = Write(e.start + j - 1, Data(p, v[j]))
  /\ ws[Len(v) + 1] = Write(f, [AsDir(d0, f) EXCEPT !.ent[i] = e])

\* The data of a file and the entry behind it are a plan.
LEMMA DataPlan ==
  ASSUME NEW d0, NEW r, NEW n, NEW m, NEW own, NEW at, NEW S, NEW f, NEW i, NEW o, NEW p, NEW v,
         NEW e, NEW ws, NEW W, NEW cl, DataWrites(d0, r, n, m, own, at, S, f, i, o, p, v, e, ws, W, cl)
  PROVE  Plan(d0, ws, cl)
<1>. Writes(cl) /\ cl.path = p /\ cl.val = v /\ p \in Seq(Names) /\ p # <<>> /\ FileAt(d0, r, p, Cell(f, i))
  BY DEF DataWrites
<1>. Vol(d0, r, n, m, own, at, S) /\ f \in S /\ i \in Slots
  BY DEF DataWrites
<1>. o = Ent(d0, f, i) /\ o # Free /\ ~o.isdir /\ p = Append(at[f], o.name)
  BY DEF DataWrites
<1>. /\ v \in Seq(Contents) /\ e \in Entries /\ e.name = o.name /\ ~e.isdir /\ e.isdir = o.isdir
     /\ e.size = Len(v) /\ e.size <= e.alloc
  BY DEF DataWrites
<1>. \A x \in e.start..(e.start + e.alloc - 1) : r <= x /\ x < m /\ own[x] = Cell(f, i) /\ x \notin S
  BY DEF DataWrites
<1>. /\ ws \in Seq(W) /\ Len(ws) = Len(v) + 1
     /\ \A j \in 1..Len(v) : ws[j] = Write(e.start + j - 1, Data(p, v[j]))
     /\ ws[Len(v) + 1] = Write(f, [AsDir(d0, f) EXCEPT !.ent[i] = e])
  BY DEF DataWrites
<1>. DEFINE L == Len(v)
            s == [AsDir(d0, f) EXCEPT !.ent[i] = e]
            Rest(k) == SubSeq(ws, k + 1, L + 1)
            Done(d, k) == \A j \in 1..k : e.start + j - 1 \in LBAs /\ d[e.start + j - 1] = Data(p, v[j])
            Ok(d, k) == /\ Vol(d, r, n, m, own, at, S) /\ AsDir(d, f) = AsDir(d0, f) /\ Done(d, k)
                        /\ FileAt(d, r, p, Cell(f, i))
            T == { k \in Nat : k <= L => \A d : Ok(d, L - k) => Plan(d, Rest(L - k), cl) }
<1>1. L \in Nat /\ e.start \in Nat /\ e.alloc \in Nat /\ Len(ws) = L + 1
  BY EntryFields
<1>2. \A k \in 0..L : /\ Rest(k) # <<>> /\ Head(Rest(k)) = ws[k + 1]
                      /\ Tail(Rest(k)) = IF k = L THEN <<>> ELSE Rest(k + 1)
  <2>. SUFFICES ASSUME NEW k \in 0..L
                PROVE  /\ Rest(k) # <<>> /\ Head(Rest(k)) = ws[k + 1]
                       /\ Tail(Rest(k)) = IF k = L THEN <<>> ELSE Rest(k + 1)
    OBVIOUS
  <2>. DEFINE a == k + 1
              b == L + 1
  <2>1. a \in 1..Len(ws) /\ b \in a..Len(ws) /\ a \in Int /\ b \in Int /\ a + 1 \in Int /\ (k = L => b < a + 1)
        /\ \A j \in a..b : j \in 1..Len(ws)
    BY <1>1
  <2>2. \A j \in a..b : ws[j] \in W
    BY <2>1, ElementOfSeq
  <2>3. b - a + 1 # 0 /\ a <= b
    BY <1>1
  <2>. HIDE DEF a, b
  <2>4. /\ Head(SubSeq(ws, a, b)) = ws[a] /\ Tail(SubSeq(ws, a, b)) = SubSeq(ws, a + 1, b)
    BY ZenonT(60), <2>1, HeadTailOfSubSeq
  <2>5. Len(SubSeq(ws, a, b)) # 0
    BY <2>1, <2>2, <2>3, SubSeqProperties
  <2>6. k = L => SubSeq(ws, a + 1, b) = <<>>
    BY <2>1, SubSeqEmpty
  <2>7. SubSeq(ws, a, b) # <<>>
    <3>1. Len(<<>>) = 0
      OBVIOUS
    <3>. QED  BY <2>5, <3>1
  <2>. QED  BY <2>4, <2>6, <2>7 DEF a, b
<1>3. ASSUME NEW d, Ok(d, L) PROVE Plan(d, Rest(L), cl)
  <2>1. Ent(d, f, i) = o
    BY <1>3 DEF Ent
  <2>2. EntryOk(d, r, m, own, at, S, Cell(f, i), e)
    <3>1. Cell(f, i).lba = f
      BY DEF Cell
    <3>2. ASSUME NEW x \in e.start..(e.start + e.size - 1)
          PROVE  x \in LBAs /\ d[x].kind = "data" /\ d[x].path = p
      <4>. DEFINE j == x - e.start + 1
      <4>1. j \in 1..L /\ e.start + j - 1 = x
        <5>1. e.size = L
          OBVIOUS
        <5>. QED  BY <1>1, <5>1, PlaceInRun
      <4>. HIDE DEF j
      <4>2. x \in LBAs /\ d[x] = Data(p, v[j])
        BY <1>3, <4>1
      <4>. QED  BY <4>2 DEF Data
    <3>. QED  BY <3>1, <3>2 DEF EntryOk
  <2>3. ASSUME NEW h, IsHead(d, r, S, h), f \in Chain(d, h), NEW g \in Chain(d, h), NEW j \in Slots,
               Ent(d, g, j) # Free, Ent(d, g, j).name = e.name
        PROVE  g = f /\ j = i
    <3>1. Unique(d, h)
      BY <1>3, <2>3 DEF Vol, Volume
    <3>. QED  BY <2>1, <2>3, <3>1 DEF Unique
  <2>4. Vol(After(d, f, [AsDir(d, f) EXCEPT !.ent[i] = e]), r, n, m, own, at, S)
    BY <1>3, <2>2, <2>3, VolEntry
  <2>5. f # BASE /\ Good(d) /\ Good(After(d, f, s))
    <3>1. f # BASE
      BY <1>3, VolBounds
    <3>. QED  BY <1>3, <2>4, <3>1 DEF Good
  <2>8. e.start + e.size - 1 <= e.start + e.alloc - 1 /\ \A j \in 1..L : e.start + j - 1 \in e.start..(e.start + e.alloc - 1)
    BY <1>1
  <2>9. Looks(d, After(d, f, s), p) /\ Shown(After(d, f, s), cl)
    <3>1. PICK d2 : d2 = After(d, f, [AsDir(d, f) EXCEPT !.ent[i] = e])
      OBVIOUS
    <3>2. d2 = After(d, f, s)
      BY <1>3, <3>1
    <3>3. Vol(d, r, n, m, own, at, S) /\ Vol(d2, r, n, m, own, at, S) /\ FileAt(d, r, p, Cell(f, i))
      BY <1>3, <2>4, <3>1
    <3>4. Alike(o, e)
      BY DEF Alike
    <3>11. PICK c : c = Cell(f, i)
      OBVIOUS
    <3>5. /\ Looks(d, d2, p) /\ AllStay(d, d2, r, S)
          /\ Entry(d2, c) = e /\ \A y \in LBAs : y # f => d2[y] = d[y]
      <4>1. o = Ent(d, f, i) /\ Append(at[f], o.name) = p
        BY <2>1
      <4>. QED  BY ONLY f \in S, i \in Slots, e \in Entries, <3>1, <3>3, <3>4, <3>11, <4>1, EntryWritten
    <3>6. FileAt(d2, r, p, c) /\ e = Entry(d2, c) /\ e.size = Len(v)
      BY <3>3, <3>5, <3>11, FileStays
    <3>8. \A j \in 1..Len(v) : d2[e.start + j - 1] = Data(p, v[j])
      <4>. SUFFICES ASSUME NEW j \in 1..L, NEW y, y = e.start + j - 1 PROVE d2[y] = Data(p, v[j])
        OBVIOUS
      <4>1. y \in LBAs /\ d[y] = Data(p, v[j])
        BY <1>3
      <4>2. y \notin S
        BY <2>8
      <4>. QED  BY <3>5, <4>1, <4>2
    <3>9. d2[BASE] = SbSector(Sb(r, n))
      BY <3>3 DEF Vol
    <3>10. Shown(d2, cl)
      BY ONLY v \in Seq(Contents), cl.path = p, cl.val = v,
              <3>6, <3>8, <3>9, ShownIs
    <3>. QED  BY <3>2, <3>5, <3>10
  <2>. HIDE DEF s
  <2>6. Rest(L) # <<>> /\ Head(Rest(L)) = Write(f, s) /\ Tail(Rest(L)) = <<>>
    <3>1. L \in 0..L
      BY <1>1
    <3>2. ws[L + 1] = Write(f, s)
      BY DEF s
    <3>. HIDE DEF Rest
    <3>. QED  BY <1>2, <3>1, <3>2
  <2>. HIDE DEF Rest
  <2>7. Plan(After(d, f, s), Tail(Rest(L)), cl)
    BY <2>5, <2>6, PlanNil
  <2>10. Does(d, After(d, f, s), Rest(L), cl)
    BY <2>9 DEF Does
  <2>. QED  BY <2>5, <2>6, <2>7, <2>10, PlanWrite
<1>4. ASSUME NEW k \in 0..(L - 1), \A d : Ok(d, k + 1) => Plan(d, Rest(k + 1), cl), NEW d, Ok(d, k)
      PROVE  Plan(d, Rest(k), cl)
  <2>. DEFINE x == e.start + (k + 1) - 1
              t == Data(p, v[k + 1])
  <2>1. /\ x \in Nat /\ x \in e.start..(e.start + e.alloc - 1) /\ k + 1 \in 1..L /\ k \in 0..L /\ k # L
        /\ \A j \in 1..(k + 1) : j = k + 1 \/ (j \in 1..k /\ e.start + j - 1 # x)
    <3>. DEFINE b == e.start
                z == e.alloc
    <3>1. L \in Nat /\ L <= z /\ z \in Nat /\ b \in Nat
      BY <1>1
    <3>. HIDE DEF b, z, L
    <3>2. k \in Nat /\ k + 1 <= L
      BY <3>1
    <3>3. /\ b + (k + 1) - 1 \in Nat /\ b + (k + 1) - 1 \in b..(b + z - 1)
          /\ k + 1 \in 1..L /\ k \in 0..L /\ k # L
      BY <3>1, <3>2, InRun
    <3>4. ASSUME NEW j \in 1..(k + 1), j # k + 1
          PROVE  j \in 1..k /\ b + j - 1 # b + (k + 1) - 1
      BY <3>1, <3>2, <3>4
    <3>. QED  BY <3>3, <3>4 DEF b, z
  <2>2. /\ own[x] = Cell(f, i) /\ x \notin S /\ r <= x /\ x # BASE
    <3>1. own[x] = Cell(f, i) /\ x \notin S /\ r <= x
      BY <2>1
    <3>2. BASE < r /\ BASE \in Nat /\ r \in Nat
      BY VolBounds
    <3>3. x # BASE
      <4>. HIDE DEF x
      <4>. QED  BY <2>1, <3>1, <3>2
    <3>. QED  BY <3>1, <3>3
  <2>3. t.kind = "data" /\ t.path = Append(at[f], Ent(d, f, i).name)
    BY <1>4 DEF Data, Ent
  <2>. HIDE DEF x, t
  <2>4. /\ Vol(After(d, x, t), r, n, m, own, at, S)
        /\ \A y : y # x => AsDir(After(d, x, t), y) = AsDir(d, y)
        /\ \A y \in LBAs : After(d, x, t)[y] = IF y = x THEN t ELSE d[y]
    <3>1. Vol(d, r, n, m, own, at, S) /\ x \in Nat
      BY <1>4, <2>1
    <3>. HIDE DEF Ok
    <3>. QED  BY <2>2, <2>3, <3>1, VolData
  <2>9. AllStay(d, After(d, x, t), r, S) /\ Looks(d, After(d, x, t), p)
    <3>1. PICK d2 : d2 = After(d, x, t)
      OBVIOUS
    <3>2. Vol(d, r, n, m, own, at, S) /\ Ent(d, f, i) = o
      BY <1>4 DEF Ent
    <3>3. /\ Vol(d2, r, n, m, own, at, S)
          /\ \A y : y # x => AsDir(d2, y) = AsDir(d, y)
          /\ \A y \in LBAs : y # x => d2[y] = d[y]
      BY <2>4, <3>1
    <3>4. \E g \in S, j \in Slots : own[x] = Cell(g, j) /\ Append(at[g], Ent(d, g, j).name) = p
      BY <2>2, <3>2
    <3>5. x \in Nat /\ x \notin S
      BY <2>1, <2>2
    <3>6. AllStay(d, d2, r, S) /\ Looks(d, d2, p)
      BY ONLY <3>2, <3>3, <3>4, <3>5, SectorStays
    <3>. QED  BY <3>1, <3>6
  <2>10. FileAt(After(d, x, t), r, p, Cell(f, i))
    <3>1. Vol(d, r, n, m, own, at, S) /\ FileAt(d, r, p, Cell(f, i))
      BY <1>4
    <3>. QED  BY <2>9, <3>1, FileStays
  <2>5. ASSUME x \in LBAs PROVE Ok(After(d, x, t), k + 1)
    <3>1. Done(After(d, x, t), k + 1)
      <4>. SUFFICES ASSUME NEW j \in 1..(k + 1)
                    PROVE  e.start + j - 1 \in LBAs /\ After(d, x, t)[e.start + j - 1] = Data(p, v[j])
        OBVIOUS
      <4>1. CASE j = k + 1
        BY <2>4, <2>5, <4>1 DEF x, t
      <4>2. CASE j # k + 1
        BY <1>4, <2>1, <2>4, <4>2
      <4>. QED  BY <4>1, <4>2
    <3>. QED  BY <1>4, <2>2, <2>4, <2>10, <3>1
  <2>6. /\ Rest(k) # <<>> /\ Head(Rest(k)) = Write(x, t) /\ Tail(Rest(k)) = Rest(k + 1)
        /\ Rest(k + 1) # <<>>
    <3>1. ws[k + 1] = Write(x, t)
      BY <2>1 DEF x, t
    <3>2. k + 1 \in 0..L
      BY <1>1, <2>1
    <3>. HIDE DEF Rest
    <3>. QED  BY <1>2, <2>1, <3>1, <3>2
  <2>. HIDE DEF Rest, Ok
  <2>7. Writable(x) => Plan(After(d, x, t), Tail(Rest(k)), cl)
    BY <1>4, <2>5, <2>6 DEF Writable
  <2>8. Good(d)
    BY <1>4 DEF Ok, Good
  <2>11. Does(d, After(d, x, t), Rest(k), cl)
    BY <2>6, <2>9 DEF Does
  <2>. QED  BY <2>2, <2>6, <2>7, <2>8, <2>11, PlanWrite
<1>5. 0 \in T
  <2>1. L - 0 = L
    BY <1>1
  <2>. HIDE DEF Rest, Ok
  <2>. QED  BY <1>3, <2>1
<1>6. ASSUME NEW k \in Nat, k \in T PROVE k + 1 \in T
  <2>. SUFFICES ASSUME k + 1 <= L, NEW d, Ok(d, L - (k + 1)) PROVE Plan(d, Rest(L - (k + 1)), cl)
    <3>. HIDE DEF Rest, Ok
    <3>. QED  OBVIOUS
  <2>. DEFINE q == L - (k + 1)
  <2>1. q \in 0..(L - 1) /\ q + 1 = L - k /\ k <= L
    BY <1>1
  <2>. HIDE DEF Rest, Ok
  <2>2. \A z : Ok(z, q + 1) => Plan(z, Rest(q + 1), cl)
    BY <1>6, <2>1
  <2>. HIDE DEF q
  <2>3. \A z : Ok(z, q) => Plan(z, Rest(q), cl)
    BY <1>4, <2>1, <2>2
  <2>. QED  BY <2>3 DEF q
<1>7. L \in T
  <2>. HIDE DEF T
  <2>. QED  BY <1>1, <1>5, <1>6, Induction
<1>8. Ok(d0, 0)
  OBVIOUS
<1>9. Rest(0) = ws
  BY <1>1, SubSeqFull
<1>10. L - L = 0 /\ L <= L
  BY <1>1
<1>. HIDE DEF Rest, Ok
<1>. QED  BY <1>7, <1>8, <1>9, <1>10

\* pdfs_write.
LEMMA FilePlan ==
  ASSUME NEW r, NEW n, NEW m, NEW own, NEW at, NEW S, Live(r, n, m, own, at, S),
         NEW f \in S, NEW i \in Slots, Ent(disk, f, i) # Free, ~Ent(disk, f, i).isdir,
         NEW p \in Seq(Names), p # <<>>, p = Append(at[f], Ent(disk, f, i).name), NEW v \in Seq(Contents),
         FileAt(disk, r, p, Cell(f, i)), NEW cl, Writes(cl), cl.path = p, cl.val = v
  PROVE  Plan(disk, FileWrites(Cell(f, i), p, v), cl)
<1>. DEFINE L == Len(v)
            c == Cell(f, i)
            o == Ent(disk, f, i)
            grow == o.alloc < L
            start == IF grow THEN n ELSE o.start
            e == [o EXCEPT !.start = start, !.alloc = IF grow THEN L ELSE @, !.size = L]
            D == [j \in DOMAIN v |-> Write(start + j - 1, Data(p, v[j]))]
            s == SetEntry(f, i, e)
            core == D \o <<s>>
            fl == Flush(start + L)
            W == {fl, s} \cup { D[j] : j \in DOMAIN v }
            d1 == After(disk, BASE, SbSector(Sb(r, n + L)))
<1>1. /\ Vol(disk, r, n, n, own, at, S) /\ Volume(disk, r, n, own, at, S) /\ IsDisk(disk)
      /\ g_base_lba = BASE /\ g_sb = Sb(r, n) /\ g_sb.next = n
  BY LiveIs DEF Live, Vol
<1>2. o \in Entries /\ EntryOk(disk, r, n, own, at, S, c, o)
  BY <1>1, AsDirIs DEF Ent, Volume
<1>3. /\ L \in Nat /\ DOMAIN v = 1..L /\ n \in Nat /\ r \in Nat /\ r < n /\ n + L \in Nat /\ n <= n + L
  <2>1. n \in Nat /\ r \in Nat /\ r < n
    BY <1>1, VolBounds
  <2>2. L \in Nat /\ DOMAIN v = 1..L
    OBVIOUS
  <2>. HIDE DEF L
  <2>. QED  BY <2>1, <2>2
<1>4. FileWrites(Cell(f, i), p, v) = (IF grow THEN <<fl>> ELSE <<>>) \o D \o <<s>>
  <2>1. Entry(disk, Cell(f, i)) = o /\ Cell(f, i).lba = f /\ Cell(f, i).slot = i
    BY DEF Entry, Ent, Cell
  <2>. HIDE DEF o
  <2>. QED  BY <1>1, <2>1 DEF FileWrites
<1>. HIDE DEF o, L
<1>5. /\ e \in Entries /\ e.name = o.name /\ ~e.isdir /\ e.isdir = o.isdir
      /\ e.size = L /\ e.start = start
      /\ e.alloc = IF grow THEN L ELSE o.alloc
      /\ e.size <= e.alloc /\ o.alloc \in Nat /\ o.start \in Nat
  <2>1. o \in Entries /\ o.alloc \in Nat /\ o.start \in Nat /\ ~o.isdir
    BY <1>2, EntryFields DEF o
  <2>2. e \in Entries /\ e.name = o.name /\ ~e.isdir /\ e.isdir = o.isdir /\ e.size = L /\ e.start = start
        /\ e.alloc = IF grow THEN L ELSE o.alloc
    <3>1. start \in Nat /\ (IF grow THEN L ELSE o.alloc) \in Nat /\ L \in Nat
      BY <1>3, <2>1
    <3>2. PICK x, y, k : x = start /\ y = (IF grow THEN L ELSE o.alloc) /\ k = L
      OBVIOUS
    <3>6. Numbers(x, y, k)
      BY <3>1, <3>2 DEF Numbers
    <3>3. PICK w \in Entries : w = o
      BY <2>1
    <3>4. e = Moved(w, x, y, k)
      BY <3>2, <3>3 DEF Moved
    <3>. HIDE DEF e, grow, start
    <3>5. LET g == Moved(w, x, y, k)
          IN  /\ g \in Entries /\ g.name = w.name /\ g.isdir = w.isdir
              /\ g.start = x /\ g.alloc = y /\ g.size = k
      BY <3>6, MovedIs
    <3>. QED  BY <2>1, <3>2, <3>3, <3>4, <3>5
  <2>. HIDE DEF e
  <2>. QED  BY <1>3, <2>1, <2>2
<1>. HIDE DEF e, start
<1>6. /\ core \in Seq(W) /\ Len(core) = L + 1 /\ core[L + 1] = s
      /\ \A j \in 1..L : core[j] = Write(start + j - 1, Data(p, v[j]))
      /\ fl \in W /\ D \in Seq(W) /\ <<s>> \in Seq(W)
  <2>1. \A j \in 1..L : D[j] \in W /\ D[j] = Write(start + j - 1, Data(p, v[j]))
    BY <1>3
  <2>2. fl \in W /\ s \in W
    OBVIOUS
  <2>3. D = [j \in 1..L |-> D[j]]
    BY <1>3
  <2>. HIDE DEF W, D, s, fl
  <2>4. D \in [1..L -> W]
    BY <2>1, <2>3
  <2>5. D \in Seq(W) /\ Len(D) = L
    <3>1. L \in Nat
      BY <1>3
    <3>. QED  BY ONLY <3>1, <2>4
  <2>6. <<s>> \in Seq(W) /\ Len(<<s>>) = 1 /\ <<s>>[1] = s
    BY <2>2
  <2>7. /\ core \in Seq(W) /\ Len(core) = L + 1
        /\ \A j \in 1..(L + 1) : core[j] = IF j <= L THEN D[j] ELSE <<s>>[j - L]
    BY <2>5, <2>6, ConcatProperties
  <2>. HIDE DEF core
  <2>8. core[L + 1] = s /\ \A j \in 1..L : core[j] = D[j]
    BY <1>3, <2>6, <2>7
  <2>. QED  BY <2>1, <2>2, <2>5, <2>6, <2>7, <2>8
<1>7. s = Write(f, [AsDir(disk, f) EXCEPT !.ent[i] = e])
  BY DEF SetEntry
<1>8. CASE ~grow
  <2>1. FileWrites(Cell(f, i), p, v) = core
    <3>. HIDE DEF D, s, W, fl
    <3>. QED  BY <1>4, <1>6, <1>8, ConcatEmptySeq
  <2>2. \A x \in e.start..(e.start + e.alloc - 1) : r <= x /\ x < n /\ own[x] = Cell(f, i) /\ x \notin S
    <3>1. e.start = o.start /\ e.alloc = o.alloc
      BY <1>5, <1>8 DEF start
    <3>2. o # Free /\ ~o.isdir
      BY DEF o
    <3>. QED  BY <1>2, <3>1, <3>2 DEF EntryOk
  <2>. HIDE DEF D, s, core, W, grow
  <2>3. Plan(disk, core, cl)
    <3>1. /\ e \in Entries /\ e.name = o.name /\ ~e.isdir /\ e.isdir = o.isdir /\ e.size = Len(v) /\ e.size <= e.alloc
          /\ core \in Seq(W) /\ Len(core) = Len(v) + 1
          /\ \A j \in 1..Len(v) : core[j] = Write(e.start + j - 1, Data(p, v[j]))
          /\ core[Len(v) + 1] = Write(f, [AsDir(disk, f) EXCEPT !.ent[i] = e])
      BY <1>5, <1>6, <1>7 DEF L
    <3>2. o = Ent(disk, f, i) /\ o # Free /\ ~o.isdir /\ p = Append(at[f], o.name)
      BY DEF o
    <3>. HIDE DEF L
    <3>3. DataWrites(disk, r, n, n, own, at, S, f, i, o, p, v, e, core, W, cl)
      BY <1>1, <2>2, <3>1, <3>2 DEF DataWrites
    <3>. QED  BY <3>3, DataPlan
  <2>. QED  BY <2>1, <2>3
<1>9. CASE grow
  <2>. DEFINE own2 == [x \in Nat |-> IF n <= x THEN c ELSE own[x]]
  <2>0. start = n /\ e.start = n /\ e.alloc = L
    BY <1>5, <1>9 DEF start
  <2>1. Vol(d1, r, n + L, n, own, at, S) /\ \A x : x # BASE => AsDir(d1, x) = AsDir(disk, x)
    BY <1>1, <1>3, VolFlush
  <2>11. FileAt(d1, r, p, Cell(f, i))
    <3>1. AllStay(disk, d1, r, S)
      BY <1>1, <1>3, FlushStays
    <3>. HIDE DEF d1
    <3>. QED  BY <1>1, <3>1, FileStays
  <2>. HIDE DEF d1
  <2>2. \A x \in Nat : own2[x] = IF n <= x THEN c ELSE own[x]
    OBVIOUS
  <2>. HIDE DEF own2
  <2>3. Vol(d1, r, n + L, n + L, own2, at, S)
    <3>1. \A x \in Nat : x < n => own2[x] = own[x]
      BY <1>3, <2>2
    <3>2. n + L <= n + L /\ S \subseteq S /\ S \subseteq LBAs
      BY <1>1, <1>3, VolBounds
    <3>. QED  BY <1>3, <2>1, <3>1, <3>2, VolExtends
  <2>4. AsDir(d1, f) = AsDir(disk, f) /\ Ent(d1, f, i) = o
    <3>1. f # BASE
      BY <1>1, VolBounds
    <3>. QED  BY <2>1, <3>1 DEF Ent, o
  <2>5. \A x \in e.start..(e.start + e.alloc - 1) : r <= x /\ x < n + L /\ own2[x] = Cell(f, i) /\ x \notin S
    <3>. SUFFICES ASSUME NEW x \in n..(n + L - 1)
                  PROVE  r <= x /\ x < n + L /\ own2[x] = Cell(f, i) /\ x \notin S
      BY <2>0
    <3>1. x \in Nat /\ n <= x /\ x < n + L /\ r <= x
      BY <1>3
    <3>2. x \notin S
      BY <1>1, <3>1, VolBounds
    <3>. QED  BY <2>2, <3>1, <3>2
  <2>6. fl = FlushTo(r, n + L)
    BY <1>1, <2>0, FlushIs
  <2>7. FileWrites(Cell(f, i), p, v) = <<fl>> \o core
    <3>. HIDE DEF D, s, W, fl
    <3>1. <<fl>> \in Seq(W)
      BY <1>6
    <3>2. FileWrites(Cell(f, i), p, v) = (<<fl>> \o D) \o <<s>>
      BY <1>4, <1>9
    <3>. QED  BY <1>6, <3>1, <3>2, ConcatAssociative
  <2>. HIDE DEF D, s, grow
  <2>8. Plan(d1, core, cl)
    <3>1. /\ e \in Entries /\ e.name = o.name /\ ~e.isdir /\ e.isdir = o.isdir /\ e.size = Len(v) /\ e.size <= e.alloc
          /\ core \in Seq(W) /\ Len(core) = Len(v) + 1
          /\ \A j \in 1..Len(v) : core[j] = Write(e.start + j - 1, Data(p, v[j]))
          /\ core[Len(v) + 1] = Write(f, [AsDir(d1, f) EXCEPT !.ent[i] = e])
      <4>. HIDE DEF core, W
      <4>. QED  BY <1>5, <1>6, <1>7, <2>4 DEF L
    <3>2. o = Ent(d1, f, i) /\ o # Free /\ ~o.isdir /\ p = Append(at[f], o.name)
      BY <2>4 DEF o
    <3>. HIDE DEF core, W
    <3>3. DataWrites(d1, r, n + L, n + L, own2, at, S, f, i, o, p, v, e, core, W, cl)
      BY <2>3, <2>5, <2>11, <3>1, <3>2 DEF DataWrites
    <3>. QED  BY <3>3, DataPlan
  <2>9. LET q == <<fl>> \o core IN q # <<>> /\ Head(q) = fl /\ Tail(q) = core
    <3>. HIDE DEF core, W, fl
    <3>. QED  BY <1>6
  <2>. HIDE DEF fl, core
  <2>10. Plan(disk, <<fl>> \o core, cl)
    <3>1. PICK q : q = <<fl>> \o core
      OBVIOUS
    <3>2. PICK n2 : n2 = n + L
      OBVIOUS
    <3>3. n2 \in Nat /\ n <= n2 /\ Vol(disk, r, n, n, own, at, S)
      BY <1>1, <1>3, <3>2
    <3>4. q # <<>> /\ Head(q) = FlushTo(r, n2)
      BY <2>6, <2>9, <3>1, <3>2
    <3>5. Tail(q) # <<>>
      <4>1. core # <<>>
        BY <1>3, <1>6, EmptySeq
      <4>. QED  BY <2>9, <3>1, <4>1
    <3>6. Plan(After(disk, BASE, SbSector(Sb(r, n2))), Tail(q), cl)
      BY <2>8, <2>9, <3>1, <3>2 DEF d1
    <3>7. Plan(disk, q, cl)
      BY ONLY <3>3, <3>4, <3>5, <3>6, PlanFlush
    <3>. QED  BY <3>1, <3>7
  <2>. QED  BY <2>7, <2>10
<1>. QED  BY <1>8, <1>9

\* The entry that a path leads to.
LEMMA ResolvedCell ==
  ASSUME NEW r, NEW n, NEW m, NEW own, NEW at, NEW S, Live(r, n, m, own, at, S),
         NEW p \in Seq(Names), NEW c, Resolve(p, c).ok,
         Resolve(p, c).cell # NoCell \/ ~Resolve(p, c).isdir \/ p # <<>>
  PROVE  \E f \in S, i \in Slots :
           /\ Resolve(p, c).cell = Cell(f, i) /\ Entry(disk, Resolve(p, c).cell) = Ent(disk, f, i)
           /\ Ent(disk, f, i) # Free /\ Ent(disk, f, i) \in Entries
           /\ ~Resolve(p, c).isdir => ~Ent(disk, f, i).isdir
           /\ p = Append(at[f], Ent(disk, f, i).name)
<1>. DEFINE R == Resolve(p, c)
            f == R.cell.lba
            i == R.cell.slot
<1>1. Resolved(disk, r, at, S, p, R)
  BY LiveResolve
<1>2. R.cell # NoCell
  BY <1>1 DEF Resolved
<1>. HIDE DEF R
<1>3. /\ R.ok /\ R.cell = Cell(f, i) /\ f \in S /\ i \in Slots /\ Entry(disk, R.cell) # Free
      /\ R.isdir <=> Entry(disk, R.cell).isdir
      /\ Append(at[f], Entry(disk, R.cell).name) = p
  BY <1>1, <1>2 DEF Resolved, R
<1>4. Entry(disk, R.cell) = Ent(disk, f, i) /\ Ent(disk, f, i) \in Entries
  BY <1>3, LiveIs, AsDirIs DEF Entry, Ent
<1>. QED  BY <1>3, <1>4 DEF R

\* pdfs_write, on a path.
LEMMA WritePlan ==
  ASSUME NEW r, NEW n, NEW m, NEW own, NEW at, NEW S, Live(r, n, m, own, at, S),
         NEW p \in Seq(Names), p # <<>>, NEW c, Resolve(p, c).ok, ~Resolve(p, c).isdir,
         NEW v \in Seq(Contents), NEW cl, Writes(cl), cl.path = p, cl.val = v
  PROVE  Plan(disk, FileWrites(Resolve(p, c).cell, p, v), cl)
<1>1. PICK f \in S, i \in Slots :
        /\ Resolve(p, c).cell = Cell(f, i) /\ Ent(disk, f, i) # Free /\ ~Ent(disk, f, i).isdir
        /\ p = Append(at[f], Ent(disk, f, i).name)
  BY ResolvedCell
<1>2. FileAt(disk, r, p, Cell(f, i))
  <2>1. IsDisk(disk) /\ Volume(disk, r, m, own, at, S) /\ g_sb.dir = r
    BY LiveIs
  <2>2. path_resolve(disk, r, p, ElevatedRoot) = path_resolve(disk, r, p, c)
    BY <2>1, RootResolves DEF Resolve
  <2>. QED  BY <1>1, <2>1, <2>2 DEF Resolve, FileAt
<1>3. Plan(disk, FileWrites(Cell(f, i), p, v), cl)
  BY <1>1, <1>2, FilePlan
<1>. QED  BY <1>1, <1>3

\* pdfs_unlink, on a path.
LEMMA UnlinkPlan ==
  ASSUME NEW r, NEW n, NEW m, NEW own, NEW at, NEW S, Live(r, n, m, own, at, S),
         NEW p \in Seq(Names), NEW c, Resolve(p, c).ok, ~Resolve(p, c).isdir,
         NEW cl, ~Writes(cl), cl.path = p
  PROVE  Plan(disk, <<SetEntry(Resolve(p, c).cell.lba, Resolve(p, c).cell.slot, Free)>>, cl)
<1>1. PICK f \in S, i \in Slots :
        /\ Resolve(p, c).cell = Cell(f, i) /\ Ent(disk, f, i) # Free /\ ~Ent(disk, f, i).isdir
        /\ p = Append(at[f], Ent(disk, f, i).name)
  BY ResolvedCell
<1>2. Resolve(p, c).cell.lba = f /\ Resolve(p, c).cell.slot = i
  BY <1>1 DEF Cell
<1>3. Plan(disk, <<SetEntry(f, i, Free)>>, cl)
  BY <1>1, ZeroIs, ReplacePlan
<1>. QED  BY <1>2, <1>3

\* pdfs_chmod, on a path.
LEMMA ModePlan ==
  ASSUME NEW r, NEW n, NEW m, NEW own, NEW at, NEW S, Live(r, n, m, own, at, S),
         NEW p \in Seq(Names), NEW c, Resolve(p, c).ok, Resolve(p, c).cell # NoCell \/ p # <<>>,
         NEW mode \in SUBSET ModeBits, NEW cl, ~Writes(cl), cl.path = p
  PROVE  Plan(disk, ChmodWrites(Resolve(p, c).cell, mode), cl)
<1>. DEFINE cell == Resolve(p, c).cell
<1>1. PICK f \in S, i \in Slots :
        /\ cell = Cell(f, i) /\ Entry(disk, cell) = Ent(disk, f, i)
        /\ Ent(disk, f, i) # Free /\ Ent(disk, f, i) \in Entries
        /\ p = Append(at[f], Ent(disk, f, i).name)
  BY ResolvedCell
<1>. HIDE DEF cell
<1>2. cell.lba = f /\ cell.slot = i
  BY <1>1 DEF Cell
<1>. DEFINE o == Ent(disk, f, i)
            e == [o EXCEPT !.mode = mode]
<1>3. /\ e \in Entries /\ e.name = o.name /\ e.isdir = o.isdir /\ e.start = o.start
      /\ e.alloc = o.alloc /\ e.size = o.size
  <2>1. o \in Entries
    BY <1>1
  <2>2. PICK x, y : x = o /\ y = e
    OBVIOUS
  <2>3. y = Moded(x, mode) /\ x \in Entries
    BY <2>1, <2>2 DEF Moded
  <2>. HIDE DEF o, e
  <2>4. /\ y \in Entries /\ y.name = x.name /\ y.isdir = x.isdir /\ y.start = x.start
        /\ y.alloc = x.alloc /\ y.size = x.size
    BY <2>3, ModedIs DEF Keeps
  <2>. QED  BY <2>2, <2>4
<1>4. ChmodWrites(cell, mode) = <<SetEntry(f, i, e)>>
  BY <1>1, <1>2 DEF ChmodWrites
<1>. HIDE DEF e
<1>5. Plan(disk, <<SetEntry(f, i, e)>>, cl)
  BY <1>1, <1>3, ReplacePlan
<1>. QED  BY <1>4, <1>5 DEF cell

\* pdfs_chown, on a path.
LEMMA OwnerPlan ==
  ASSUME NEW r, NEW n, NEW m, NEW own, NEW at, NEW S, Live(r, n, m, own, at, S),
         NEW p \in Seq(Names), NEW c, Resolve(p, c).ok, Resolve(p, c).cell # NoCell,
         NEW uid \in Nat, NEW cl, ~Writes(cl), cl.path = p
  PROVE  LET cell == Resolve(p, c).cell
         IN  Plan(disk, <<SetEntry(cell.lba, cell.slot, [Entry(disk, cell) EXCEPT !.uid = uid])>>, cl)
<1>. DEFINE cell == Resolve(p, c).cell
<1>1. PICK f \in S, i \in Slots :
        /\ cell = Cell(f, i) /\ Entry(disk, cell) = Ent(disk, f, i)
        /\ Ent(disk, f, i) # Free /\ Ent(disk, f, i) \in Entries
        /\ p = Append(at[f], Ent(disk, f, i).name)
  BY ResolvedCell
<1>. HIDE DEF cell
<1>2. cell.lba = f /\ cell.slot = i
  BY <1>1 DEF Cell
<1>. DEFINE o == Ent(disk, f, i)
            e == [o EXCEPT !.uid = uid]
<1>3. /\ e \in Entries /\ e.name = o.name /\ e.isdir = o.isdir /\ e.start = o.start
      /\ e.alloc = o.alloc /\ e.size = o.size
  <2>1. o \in Entries
    BY <1>1
  <2>2. PICK x, y : x = o /\ y = e
    OBVIOUS
  <2>3. y = Owned(x, uid) /\ x \in Entries
    BY <2>1, <2>2 DEF Owned
  <2>. HIDE DEF o, e
  <2>4. /\ y \in Entries /\ y.name = x.name /\ y.isdir = x.isdir /\ y.start = x.start
        /\ y.alloc = x.alloc /\ y.size = x.size
    BY <2>3, OwnedIs DEF Keeps
  <2>. QED  BY <2>2, <2>4
<1>4. [Entry(disk, cell) EXCEPT !.uid = uid] = e
  BY <1>1
<1>. HIDE DEF e
<1>5. Plan(disk, <<SetEntry(f, i, e)>>, cl)
  BY <1>1, <1>3, ReplacePlan
<1>. QED  BY <1>2, <1>4, <1>5 DEF cell

-----------------------------------------------------------------------------
(* A disk nothing was written to, and a volume just formatted              *)

\* A disk nothing was written to.
Blank == [a \in LBAs |-> Other]

\* A fresh superblock and an empty root directory are a volume.
LEMMA EmptyVolume ==
  ASSUME NEW d, IsDisk(d), d[BASE] = SbSector(NewSb(BASE)), AsDir(d, BASE + 2) = Zero
  PROVE  Good(d)
<1>. DEFINE r == BASE + 2
            n == BASE + 3
            own == [x \in Nat |-> NoCell]
            at == [x \in Nat |-> <<>>]
            S == {r}
<1>1. /\ BASE \in Nat /\ r \in LBAs /\ r \in Nat /\ n \in Nat /\ BASE < r /\ r < n /\ r <= r /\ n <= n
  BY Sizes
<1>2. own[r] = NoCell /\ at[r] = <<>>
  BY <1>1
<1>3. Link(d, r) = 0 /\ \A i \in Slots : Ent(d, r, i) = Free
  BY ZeroIs DEF Link, Ent
<1>4. NewSb(BASE) = Sb(r, n)
  BY DEF NewSb, Sb
<1>. HIDE DEF r, n, own, at
<1>5. Closed(d, S)
  BY <1>1, <1>3 DEF Closed
<1>6. Chain(d, r) \subseteq S
  BY <1>5, ChainIs
<1>7. \A h : IsHead(d, r, S, h) => h = r
  <2>1. ~Free.isdir
    BY DEF Free
  <2>. QED  BY <1>3, <2>1 DEF IsHead
<1>8. Unique(d, r)
  BY <1>3, <1>6 DEF Unique
<1>9. \A f \in S, i \in Slots : EntryOk(d, r, n, own, at, S, Cell(f, i), Ent(d, f, i))
  BY <1>3 DEF EntryOk
<1>10. Volume(d, r, n, own, at, S)
  BY <1>1, <1>2, <1>3, <1>7, <1>8, <1>9 DEF Volume
<1>. QED  BY <1>1, <1>4, <1>10 DEF Good, Vol

\* What pdfs_format writes.
FormatWrites == << Write(BASE, SbSector(NewSb(BASE))), Write(BASE + 1, Zero), Write(BASE + 2, Zero) >>

\* The writes of pdfs_format behind the superblock are a plan.
LEMMA FormatPlan ==
  ASSUME NEW cl, Formats(cl)
  PROVE  LET d1 == After(Blank, BASE, SbSector(NewSb(BASE)))
         IN  /\ d1[BASE] = SbSector(NewSb(BASE))
             /\ Plan(d1, Tail(FormatWrites), cl)
<1>. DEFINE d1 == After(Blank, BASE, SbSector(NewSb(BASE)))
            d2 == After(d1, BASE + 1, Zero)
            d3 == After(d2, BASE + 2, Zero)
<1>0. /\ BASE \in LBAs /\ BASE + 1 \in LBAs /\ BASE + 2 \in LBAs
      /\ BASE + 1 # BASE /\ BASE + 2 # BASE /\ BASE + 2 # BASE + 1
  BY Sizes
<1>1. SbSector(NewSb(BASE)).kind = "sb" /\ Zero.kind = "dir" /\ Zero \in DirSectors
  BY ZeroIs DEF SbSector, Zero
<1>2. IsDisk(Blank) /\ AsDir(Blank, BASE + 2) = Zero
  BY DEF IsDisk, Blank, Other, AsDir
<1>. HIDE DEF Blank
<1>3. IsDisk(d1) /\ d1[BASE] = SbSector(NewSb(BASE)) /\ AsDir(d1, BASE + 2) = Zero
  BY <1>0, <1>1, <1>2, AfterIs
<1>. HIDE DEF d1
<1>4. IsDisk(d2) /\ d2[BASE] = SbSector(NewSb(BASE)) /\ AsDir(d2, BASE + 2) = Zero
  BY <1>0, <1>1, <1>3, AfterIs
<1>. HIDE DEF d2
<1>5. IsDisk(d3) /\ d3[BASE] = SbSector(NewSb(BASE)) /\ AsDir(d3, BASE + 2) = Zero
  BY <1>0, <1>1, <1>4, AfterIs
<1>. HIDE DEF d3
<1>6. Good(d1) /\ Good(d2) /\ Good(d3)
  BY <1>3, <1>4, <1>5, EmptyVolume
<1>7. LET q == <<Write(BASE + 2, Zero)>> IN q # <<>> /\ Head(q) = Write(BASE + 2, Zero) /\ Tail(q) = <<>>
  OBVIOUS
<1>8. LET q == <<Write(BASE + 1, Zero), Write(BASE + 2, Zero)>>
      IN q # <<>> /\ Head(q) = Write(BASE + 1, Zero) /\ Tail(q) = <<Write(BASE + 2, Zero)>>
  OBVIOUS
<1>9. Plan(d3, <<>>, cl)
  BY <1>6, PlanNil
<1>13. \A x, y, z : Does(x, y, z, cl)
  <2>1. ~Writes(cl)
    BY DEF Formats, Writes
  <2>. QED  BY <2>1 DEF Does
<1>10. Plan(d2, <<Write(BASE + 2, Zero)>>, cl)
  BY <1>0, <1>6, <1>7, <1>9, <1>13, PlanWrite DEF d3
<1>11. Plan(d1, <<Write(BASE + 1, Zero), Write(BASE + 2, Zero)>>, cl)
  <2>1. PICK q : q = <<Write(BASE + 1, Zero), Write(BASE + 2, Zero)>>
    OBVIOUS
  <2>2. PICK x : x = BASE + 1
    OBVIOUS
  <2>3. /\ Good(d1) /\ x # BASE /\ q # <<>> /\ Head(q) = Write(x, Zero)
        /\ Does(d1, After(d1, x, Zero), q, cl) /\ Plan(After(d1, x, Zero), Tail(q), cl)
    BY <1>0, <1>6, <1>8, <1>10, <1>13, <2>1, <2>2 DEF d2
  <2>4. Plan(d1, q, cl)
    BY ONLY <2>3, PlanWrite
  <2>. QED  BY <2>1, <2>4
<1>12. Tail(FormatWrites) = <<Write(BASE + 1, Zero), Write(BASE + 2, Zero)>>
  BY DEF FormatWrites
<1>. QED  BY <1>3, <1>11, <1>12 DEF d1

-----------------------------------------------------------------------------
(* The invariant                                                           *)

\* The behaviours the theorems are about: nobody resets the volume.
NotReset == call.op # "reset"

\* The calls that are left of the scaffold.
Items == [op : {"mkdir"}, path : Seq(Names) \ {<<>>}, uid : Nat, mode : SUBSET ModeBits]
         \cup [op : {"chmod"}, path : Seq(Names) \ {<<>>}, uid : Nat, mode : SUBSET ModeBits]
         \cup [op : {"create", "write"}, path : Seq(Names) \ {<<>>}, val : Seq(Contents)]

\* A volume is mounted.
Serving == {"build", "scaffold", "run"}

\* The driver's memory is the volume's superblock, and the call in progress may
\* make the writes it has left.
Running ==
  Writable(BASE) /\ Plan(disk, todo, call) /\ g_base_lba = BASE /\ g_sb = disk[BASE].sb

\* The invariant: the disk is blank or holds a volume, whatever is in progress, and
\* a mounted one is what the driver has in memory.
PInv ==
  /\ script \in Seq(Items)
  /\ pc \in {"boot", "nofs", "format"} \cup Serving
  /\ disk = Blank \/ (Good(disk) /\ Writable(BASE))
  /\ pc \in {"boot", "nofs"} => todo = <<>>
  /\ pc = "format" =>
       /\ call.op = "format" /\ todo # <<>>
       /\ \/ disk = Blank /\ g_sb = NewSb(BASE) /\ g_base_lba = BASE /\ todo = FormatWrites
          \/ Running
  /\ pc \in Serving => Running /\ (todo # <<>> => call.op # "format")

\* A mounted volume is one that calls may work on.
LEMMA RunningIsLive ==
  ASSUME Running
  PROVE  /\ Good(disk)
         /\ \E r, n, m, own, at, S : Live(r, n, m, own, at, S)
<1>1. Good(disk)
  BY PlanIs DEF Running
<1>2. PICK r, n, m, own, at, S : Vol(disk, r, n, m, own, at, S)
  BY <1>1 DEF Good
<1>3. g_sb = Sb(r, n) /\ g_base_lba = BASE
  BY <1>2 DEF Vol, SbSector, Running
<1>. QED  BY <1>1, <1>2, <1>3 DEF Live

\* One write of a plan.
LEMMA StepIs ==
  ASSUME NEW cl, NEW d, NEW ws, Plan(d, ws, cl), ws # <<>>, Writable(Head(ws).lba)
  PROVE  LET w == Head(ws)  d2 == After(d, w.lba, w.sec)
         IN  /\ Good(d2) /\ Plan(d2, Tail(ws), cl)
             /\ w.sb => w.lba = BASE /\ d2[BASE].sb = w.sec.sb
             /\ ~w.sb => w.lba # BASE /\ d2[BASE] = d[BASE]
<1>. DEFINE w == Head(ws)
            d2 == After(d, w.lba, w.sec)
<1>1. Good(d) /\ Fits(d, w) /\ Plan(d2, Tail(ws), cl)
  BY PlanIs
<1>2. Good(d2)
  BY <1>1, PlanIs
<1>3. IsDisk(d) /\ BASE \in LBAs
  BY <1>1, Sizes DEF Good, Vol
<1>. HIDE DEF w
<1>4. w.sb => w.lba = BASE
  BY <1>1 DEF Fits
<1>5. ~w.sb => w.lba # BASE
  BY <1>1 DEF Fits
<1>6. w.lba = BASE => d2[BASE] = w.sec
  BY <1>3 DEF After, IsDisk
<1>7. w.lba # BASE => d2[BASE] = d[BASE]
  BY <1>3 DEF After, IsDisk
<1>. HIDE DEF d2
<1>. QED  BY <1>1, <1>2, <1>4, <1>5, <1>6, <1>7 DEF w, d2

\* A call begins while the volume is mounted.
LEMMA Begins ==
  ASSUME PInv, pc \in Serving, UNCHANGED <<disk, mem, pc>>, Plan(disk, todo', call'),
         todo' # <<>> => call'.op # "format", script' \in Seq(Items)
  PROVE  PInv'
<1>1. Running
  BY DEF PInv
<1>2. disk' = disk /\ pc' = pc /\ g_sb' = g_sb /\ g_base_lba' = g_base_lba
  BY DEF mem
<1>3. Running'
  BY <1>1, <1>2 DEF Running, Writable
<1>4. pc' \notin {"boot", "nofs", "format"} /\ pc' \in Serving
  BY <1>2 DEF Serving
<1>5. (disk = Blank \/ (Good(disk) /\ Writable(BASE)))'
  BY <1>1, <1>2, RunningIsLive DEF Running, Writable
<1>. QED  BY <1>3, <1>4, <1>5 DEF PInv

\* The records of the scaffold.
LEMMA ScaffoldIs ==
  /\ Scaffold \in Seq(Items)
  /\ \A s \in Items : /\ s.path \in Seq(Names) /\ s.path # <<>>
                      /\ s.op = "mkdir" => s.uid \in Nat /\ s.mode \in SUBSET ModeBits
                      /\ s.op = "chmod" => s.mode \in SUBSET ModeBits
                      /\ s.op \in {"create", "write"} => s.val \in Seq(Contents)
                      /\ s.op = "create" => [s EXCEPT !.op = "write"] \in Items
<1>. DEFINE A == [op : {"mkdir"}, path : Seq(Names) \ {<<>>}, uid : Nat, mode : SUBSET ModeBits]
            B == [op : {"chmod"}, path : Seq(Names) \ {<<>>}, uid : Nat, mode : SUBSET ModeBits]
            C == [op : {"create"}, path : Seq(Names) \ {<<>>}, val : Seq(Contents)]
            D == [op : {"create", "write"}, path : Seq(Names) \ {<<>>}, val : Seq(Contents)]
            K == A \cup B \cup C
<1>1. Scaffold \in Seq(K)
  BY PdfsAssumption
<1>2. Items = A \cup B \cup D
  BY DEF Items
<1>3. C \subseteq D
  OBVIOUS
<1>4. Scaffold \in Seq(Items)
  <2>. HIDE DEF A, B, C, D
  <2>1. K \subseteq Items
    BY <1>2, <1>3
  <2>. HIDE DEF K
  <2>. QED  BY <1>1, <2>1
<1>5. \A s \in A : s.op = "mkdir" /\ s.path \in Seq(Names) /\ s.path # <<>> /\ s.uid \in Nat /\ s.mode \in SUBSET ModeBits
  OBVIOUS
<1>6. \A s \in B : s.op = "chmod" /\ s.path \in Seq(Names) /\ s.path # <<>> /\ s.mode \in SUBSET ModeBits
  OBVIOUS
<1>7. \A s \in D : /\ s.op \in {"create", "write"} /\ s.path \in Seq(Names) /\ s.path # <<>> /\ s.val \in Seq(Contents)
                   /\ [s EXCEPT !.op = "write"] \in D
  OBVIOUS
<1>. HIDE DEF A, B, D
<1>. QED  BY <1>2, <1>4, <1>5, <1>6, <1>7

\* What callers may name.
LEMMA CallerIs ==
  /\ \A p \in Paths : p \in Seq(Names) /\ p # <<>>
  /\ \A c \in Callers : c.uid \in Nat
  /\ \A v \in Values : v \in Seq(Contents)
  /\ \A md \in Modes : md \in SUBSET ModeBits
  /\ DIR_DEF \in SUBSET ModeBits
<1>1. \A c \in Callers : c.uid \in Nat
  <2>1. Callers \subseteq [uid : Nat, root : BOOLEAN]
    BY PdfsAssumption
  <2>. QED  BY <2>1
<1>2. DIR_DEF \in SUBSET ModeBits
  BY DEF DIR_DEF, ModeBits
<1>. QED  BY <1>1, <1>2, PdfsAssumption

\* The entry of a new file.
FileEntry(name, uid) == [Free EXCEPT !.name = name, !.mode = FILE_DEF, !.uid = uid]

\* It is one.
LEMMA NewFile ==
  ASSUME NEW name \in Names, NEW uid \in Nat
  PROVE  LET e == FileEntry(name, uid)
         IN  e \in Entries /\ e.name = name /\ ~e.isdir /\ e.alloc = 0 /\ e.size = 0
<1>. DEFINE e == FileEntry(name, uid)
<1>1. PICK a : a = [Free EXCEPT !.name = name]
  OBVIOUS
<1>2. PICK mode \in SUBSET ModeBits : mode = FILE_DEF
  BY DEF FILE_DEF
<1>3. e = [a EXCEPT !.mode = mode, !.uid = uid]
  BY ONLY <1>1, <1>2 DEF FileEntry
<1>. HIDE DEF e
<1>4. a = [name |-> name, isdir |-> FALSE, start |-> 0, alloc |-> 0, size |-> 0, uid |-> 0, mode |-> {}]
  BY ONLY <1>1, Zenon DEF Free
<1>5. e = [name |-> name, isdir |-> FALSE, start |-> 0, alloc |-> 0, size |-> 0, uid |-> uid, mode |-> mode]
  BY ONLY <1>3, <1>4
<1>6. e.name = name /\ ~e.isdir /\ e.alloc = 0 /\ e.size = 0
  BY ONLY <1>5
<1>7. ASSUME NEW N, NEW M, name \in N, mode \in M
      PROVE  e \in [name : N, isdir : BOOLEAN, start : Nat, alloc : Nat, size : Nat, uid : Nat, mode : M]
  <2>1. PICK y : y = FALSE
    OBVIOUS
  <2>2. e = [name |-> name, isdir |-> y, start |-> 0, alloc |-> 0, size |-> 0, uid |-> uid, mode |-> mode]
    BY ONLY <1>5, <2>1
  <2>3. y \in BOOLEAN
    BY ONLY <2>1
  <2>4. 0 \in Nat
    OBVIOUS
  <2>. QED  BY ONLY <1>7, <2>2, <2>3, <2>4, uid \in Nat, Zenon
<1>8. \A z : name \in Names \cup {z}
  OBVIOUS
<1>9. e \in Entries
  BY <1>7, <1>8, Zenon DEF Entries
<1>. QED  BY ONLY <1>6, <1>9, Zenon DEF e

\* A call from the shell starts on a mounted volume.
LEMMA IdleIs ==
  ASSUME PInv, Idle
  PROVE  pc \in Serving /\ script \in Seq(Items) /\ \E r, n, m, own, at, S : Live(r, n, m, own, at, S)
BY RunningIsLive DEF PInv, Idle, Serving

\* The call that a step begins.
CallOf(op, p, v) == call' = [op |-> op, path |-> p, val |-> v]

\* What it says of its writes.
LEMMA CallIs ==
  \A op, p, v : CallOf(op, p, v) =>
    /\ call'.op = op /\ call'.path = p /\ call'.val = v
    /\ op # "format" => call'.op # "format"
    /\ op = "write" => Writes(call')
    /\ op # "write" => ~Writes(call')
BY DEF CallOf, Writes

\* Each call starts a plan: mkdir, ...
LEMMA MkdirStep ==
  ASSUME PInv, NEW p \in Paths, NEW c \in Callers, Mkdir(p, c)
  PROVE  PInv'
<1>1. PICK r, n, m, own, at, S : Live(r, n, m, own, at, S)
  BY IdleIs DEF Mkdir
<1>2. \A cl : ~Writes(cl) /\ cl.path = p => Plan(disk, MkdirWrites(p, c.uid, DIR_DEF, c), cl)
  BY <1>1, CallerIs, MkdirPlan DEF Mkdir
<1>3. /\ todo' = MkdirWrites(p, c.uid, DIR_DEF, c) /\ CallOf("mkdir", p, <<>>) /\ script' = script
      /\ UNCHANGED <<disk, mem, pc>>
  BY DEF Mkdir, Begin, CallOf
<1>8. Plan(disk, todo', call') /\ call'.op # "format"
  BY <1>2, <1>3, CallIs
<1>. QED  BY <1>2, <1>3, <1>8, IdleIs, Begins DEF Mkdir

\* ... create, ...
LEMMA CreateStep ==
  ASSUME PInv, NEW p \in Paths, NEW c \in Callers, Create(p, c)
  PROVE  PInv'
<1>. DEFINE e == [Free EXCEPT !.name = Last(p), !.mode = FILE_DEF, !.uid = c.uid]
<1>1. PICK r, n, m, own, at, S : Live(r, n, m, own, at, S)
  BY IdleIs DEF Create
<1>2. p \in Seq(Names) /\ p # <<>> /\ c.uid \in Nat /\ MayAdd(p, c)
  BY CallerIs DEF Create
<1>3. e \in Entries /\ e.name = Last(p) /\ ~e.isdir /\ e.alloc = 0 /\ e.size = 0
  <2>1. Last(p) \in Names
    BY <1>2, FrontIs
  <2>2. e = FileEntry(Last(p), c.uid)
    BY DEF FileEntry
  <2>. HIDE DEF e
  <2>. QED  BY <1>2, <2>1, <2>2, NewFile
<1>4. /\ todo' = AddEntry(Parent(p, c).dir, e, g_sb.next) /\ CallOf("create", p, <<>>) /\ script' = script
      /\ UNCHANGED <<disk, mem, pc>>
  BY DEF Create, Begin, CallOf
<1>. HIDE DEF e
<1>5. \A cl : ~Writes(cl) /\ cl.path = p => Plan(disk, AddEntry(Parent(p, c).dir, e, g_sb.next), cl)
  BY <1>1, <1>2, <1>3, CreatePlan
<1>8. Plan(disk, todo', call') /\ call'.op # "format"
  BY <1>4, <1>5, CallIs
<1>. QED  BY <1>4, <1>5, <1>8, IdleIs, Begins DEF Create

\* ... write, ...
LEMMA WriteFileStep ==
  ASSUME PInv, NEW p \in Paths, NEW v \in Values, NEW c \in Callers, WriteFile(p, v, c)
  PROVE  PInv'
<1>1. PICK r, n, m, own, at, S : Live(r, n, m, own, at, S)
  BY IdleIs DEF WriteFile
<1>2. Resolve(p, c).ok /\ ~Resolve(p, c).isdir
  BY DEF WriteFile
<1>3. /\ todo' = FileWrites(Resolve(p, c).cell, p, v) /\ CallOf("write", p, v) /\ script' = script
      /\ UNCHANGED <<disk, mem, pc>>
  BY DEF WriteFile, Begin, CallOf
<1>4. \A cl : Writes(cl) /\ cl.path = p /\ cl.val = v => Plan(disk, FileWrites(Resolve(p, c).cell, p, v), cl)
  BY <1>1, <1>2, CallerIs, WritePlan
<1>8. Plan(disk, todo', call') /\ call'.op # "format"
  BY <1>3, <1>4, CallIs
<1>. QED  BY <1>3, <1>4, <1>8, IdleIs, Begins DEF WriteFile

\* ... unlink, ...
LEMMA UnlinkStep ==
  ASSUME PInv, NEW p \in Paths, NEW c \in Callers, Unlink(p, c)
  PROVE  PInv'
<1>1. PICK r, n, m, own, at, S : Live(r, n, m, own, at, S)
  BY IdleIs DEF Unlink
<1>2. Resolve(p, c).ok /\ ~Resolve(p, c).isdir
  BY DEF Unlink
<1>3. /\ todo' = <<SetEntry(Resolve(p, c).cell.lba, Resolve(p, c).cell.slot, Free)>>
      /\ CallOf("unlink", p, <<>>) /\ script' = script /\ UNCHANGED <<disk, mem, pc>>
  BY DEF Unlink, Begin, CallOf
<1>4. \A cl : ~Writes(cl) /\ cl.path = p =>
        Plan(disk, <<SetEntry(Resolve(p, c).cell.lba, Resolve(p, c).cell.slot, Free)>>, cl)
  BY <1>1, <1>2, CallerIs, UnlinkPlan
<1>8. Plan(disk, todo', call') /\ call'.op # "format"
  BY <1>3, <1>4, CallIs
<1>. QED  BY <1>3, <1>4, <1>8, IdleIs, Begins DEF Unlink

\* ... chmod, ...
LEMMA ChmodStep ==
  ASSUME PInv, NEW p \in Paths, NEW md \in Modes, NEW c \in Callers, Chmod(p, md, c)
  PROVE  PInv'
<1>1. PICK r, n, m, own, at, S : Live(r, n, m, own, at, S)
  BY IdleIs DEF Chmod
<1>2. Resolve(p, c).ok /\ Resolve(p, c).cell # NoCell
  BY DEF Chmod
<1>3. /\ todo' = ChmodWrites(Resolve(p, c).cell, md)
      /\ CallOf("chmod", p, <<>>) /\ script' = script /\ UNCHANGED <<disk, mem, pc>>
  BY DEF Chmod, Begin, CallOf
<1>4. \A cl : ~Writes(cl) /\ cl.path = p => Plan(disk, ChmodWrites(Resolve(p, c).cell, md), cl)
  BY <1>1, <1>2, CallerIs, ModePlan
<1>8. Plan(disk, todo', call') /\ call'.op # "format"
  BY <1>3, <1>4, CallIs
<1>. QED  BY <1>3, <1>4, <1>8, IdleIs, Begins DEF Chmod

\* ... and chown.
LEMMA ChownStep ==
  ASSUME PInv, NEW p \in Paths, NEW uid \in Nat, NEW c \in Callers, Chown(p, uid, c)
  PROVE  PInv'
<1>. DEFINE cell == Resolve(p, c).cell
            ws == <<SetEntry(cell.lba, cell.slot, [Entry(disk, cell) EXCEPT !.uid = uid])>>
<1>1. PICK r, n, m, own, at, S : Live(r, n, m, own, at, S)
  BY IdleIs DEF Chown
<1>2. Resolve(p, c).ok /\ cell # NoCell
  BY DEF Chown
<1>3. todo' = ws /\ CallOf("chown", p, <<>>) /\ script' = script /\ UNCHANGED <<disk, mem, pc>>
  BY DEF Chown, Begin, CallOf
<1>4. \A cl : ~Writes(cl) /\ cl.path = p => Plan(disk, ws, cl)
  BY <1>1, <1>2, CallerIs, OwnerPlan
<1>. HIDE DEF ws
<1>8. Plan(disk, todo', call') /\ call'.op # "format"
  BY <1>3, <1>4, CallIs
<1>. QED  BY <1>3, <1>4, <1>8, IdleIs, Begins DEF Chown

-----------------------------------------------------------------------------
(* Boot and scaffold                                                       *)

\* A boot finds a volume of this version, or a disk nothing was written to.
LEMMA MountStep ==
  ASSUME PInv, Mount
  PROVE  PInv'
<1>1. pc = "boot" /\ todo = <<>> /\ disk' = disk /\ g_base_lba' = BASE
      /\ (disk = Blank \/ (Good(disk) /\ Writable(BASE)))
  BY DEF Mount, PInv
<1>2. (disk = Blank \/ (Good(disk) /\ Writable(BASE)))'
  BY <1>1 DEF Writable
<1>3. CASE disk[BASE].kind = "sb" /\ disk[BASE].sb.version = VERSION
  <2>1. disk # Blank
    BY <1>3, Sizes DEF Blank, Other
  <2>2. g_sb' = disk[BASE].sb /\ pc' = "scaffold" /\ script' = Scaffold /\ todo' = <<>>
    BY <1>1, <1>3 DEF Mount
  <2>3. Plan(disk, todo', call')
    BY <1>1, <2>1, <2>2, PlanNil
  <2>4. Running'
    BY <1>1, <2>1, <2>2, <2>3 DEF Running, Writable
  <2>. QED  BY <1>2, <2>2, <2>4, ScaffoldIs DEF PInv, Serving
<1>4. CASE ~(disk[BASE].kind = "sb" /\ disk[BASE].sb.version = VERSION)
  <2>1. disk = Blank
    <3>1. ASSUME Good(disk) PROVE FALSE
      <4>1. PICK r, n, m, own, at, S : Vol(disk, r, n, m, own, at, S)
        BY <3>1 DEF Good
      <4>. QED  BY <1>4, <4>1 DEF Vol, SbSector, Sb
    <3>. QED  BY <1>1, <3>1
  <2>2. /\ pc' = "format" /\ script' = script /\ g_sb' = NewSb(BASE) /\ todo' = FormatWrites
        /\ call'.op = "format"
    BY <1>4 DEF Mount, Format, Begin, FormatWrites
  <2>3. FormatWrites # <<>>
    BY DEF FormatWrites
  <2>4. (disk = Blank /\ g_sb = NewSb(BASE) /\ g_base_lba = BASE /\ todo = FormatWrites)'
    BY <1>1, <2>1, <2>2
  <2>5. script' \in Seq(Items)
    BY <2>2 DEF PInv
  <2>6. pc' \notin Serving
    BY <2>2 DEF Serving
  <2>. QED  BY <1>2, <2>2, <2>3, <2>4, <2>5, <2>6 DEF PInv
<1>. QED  BY <1>3, <1>4

\* The volume is mounted anew after a format.
LEMMA RemountStep ==
  ASSUME PInv, Remount
  PROVE  PInv'
<1>1. /\ pc = "build" /\ todo = <<>> /\ todo' = todo /\ call' = call /\ pc' = "scaffold" /\ script' = Scaffold
      /\ disk' = disk /\ g_sb' = disk[BASE].sb /\ g_base_lba' = BASE
  BY DEF Remount
<1>2. Running
  BY <1>1 DEF PInv, Serving
<1>3. Running'
  BY <1>1, <1>2 DEF Running, Writable
<1>4. (disk = Blank \/ (Good(disk) /\ Writable(BASE)))'
  BY <1>1, <1>2, RunningIsLive DEF Running, Writable
<1>. QED  BY <1>1, <1>3, <1>4, ScaffoldIs DEF PInv, Serving

\* The scaffold ends.
LEMMA ScaffoldDoneStep ==
  ASSUME PInv, NotReset, ScaffoldDone
  PROVE  PInv'
<1>1. /\ pc \in {"scaffold", "reset"} /\ todo = <<>> /\ todo' = todo /\ pc' = "run" /\ script' = script
      /\ disk' = disk /\ g_sb' = g_sb /\ g_base_lba' = g_base_lba
  BY DEF ScaffoldDone, mem
<1>2. Running /\ script' \in Seq(Items)
  BY <1>1 DEF PInv, Serving
<1>3. Running'
  <2>1. Plan(disk, <<>>, call')
    BY <1>2, RunningIsLive, PlanNil
  <2>. QED  BY <1>1, <1>2, <2>1 DEF Running, Writable
<1>4. (disk = Blank \/ (Good(disk) /\ Writable(BASE)))'
  BY <1>1, <1>2, RunningIsLive DEF Running, Writable
<1>. QED  BY <1>1, <1>2, <1>3, <1>4 DEF PInv, Serving

\* A call of the scaffold starts a plan, or is skipped.
LEMMA ScaffoldStepStep ==
  ASSUME PInv, ScaffoldStep
  PROVE  PInv'
<1>. DEFINE s == Head(script)
            p == s.path
            c == ElevatedRoot
            r == Resolve(p, c)
            new == [Free EXCEPT !.name = Last(p), !.mode = FILE_DEF]
            MkdirArm == s.op = "mkdir" /\ MayAdd(p, c)
            ChmodArm == s.op = "chmod" /\ r.ok
            CreateArm == s.op = "create" /\ MayAdd(p, c)
            WriteArm == s.op = "write" /\ call.op = "create" /\ r.ok /\ ~r.isdir
<1>1. pc \in Serving /\ Running /\ UNCHANGED <<disk, mem, pc>> /\ script \in Seq(Items) /\ script # <<>>
      /\ todo = <<>>
  BY DEF ScaffoldStep, PInv, Serving
<1>2. s \in Items /\ Tail(script) \in Seq(Items)
  BY <1>1
<1>3. p \in Seq(Names) /\ p # <<>>
  BY <1>2, ScaffoldIs
<1>4. PICK o, n, m, own, at, S : Live(o, n, m, own, at, S)
  BY <1>1, RunningIsLive
<1>5. CASE MkdirArm
  <2>1. /\ todo' = MkdirWrites(p, s.uid, s.mode, c) /\ CallOf("mkdir", p, <<>>) /\ script' = Tail(script)
    BY <1>5 DEF ScaffoldStep, Begin, CallOf
  <2>2. s.uid \in Nat /\ s.mode \in SUBSET ModeBits
    BY <1>2, <1>5, ScaffoldIs
  <2>. HIDE DEF s
  <2>3. \A cl : ~Writes(cl) /\ cl.path = p => Plan(disk, MkdirWrites(p, s.uid, s.mode, c), cl)
    BY <1>3, <1>4, <1>5, <2>2, MkdirPlan
  <2>4. Plan(disk, todo', call') /\ call'.op # "format"
    BY <2>1, <2>3, CallIs
  <2>. QED  BY <1>1, <1>2, <2>1, <2>4, Begins
<1>6. CASE ChmodArm /\ ~MkdirArm
  <2>1. todo' = ChmodWrites(r.cell, s.mode) /\ CallOf("chmod", p, <<>>) /\ script' = Tail(script)
    BY <1>6 DEF ScaffoldStep, Begin, CallOf
  <2>2. s.mode \in SUBSET ModeBits
    BY <1>2, <1>6, ScaffoldIs
  <2>. HIDE DEF s
  <2>3. \A cl : ~Writes(cl) /\ cl.path = p => Plan(disk, ChmodWrites(r.cell, s.mode), cl)
    BY <1>3, <1>4, <1>6, <2>2, ModePlan
  <2>4. Plan(disk, todo', call') /\ call'.op # "format"
    BY <2>1, <2>3, CallIs
  <2>. QED  BY <1>1, <1>2, <2>1, <2>4, Begins
<1>7. CASE CreateArm /\ ~MkdirArm /\ ~ChmodArm
  <2>1. /\ todo' = AddEntry(Parent(p, c).dir, new, g_sb.next) /\ CallOf("create", p, <<>>)
        /\ script' = <<[s EXCEPT !.op = "write"]>> \o Tail(script)
    BY <1>7 DEF ScaffoldStep, Begin, CallOf
  <2>2. [s EXCEPT !.op = "write"] \in Items
    BY <1>2, <1>7, ScaffoldIs
  <2>. DEFINE s2 == [s EXCEPT !.op = "write"]
  <2>. HIDE DEF s2
  <2>3. script' \in Seq(Items)
    BY <1>2, <2>1, <2>2 DEF s2
  <2>4. new \in Entries /\ new.name = Last(p) /\ ~new.isdir /\ new.alloc = 0 /\ new.size = 0
    <3>. HIDE DEF s
    <3>1. Last(p) \in Names
      BY <1>3, FrontIs
    <3>2. new = FileEntry(Last(p), 0)
      <4>1. PICK l, k : l = Last(p) /\ k = FILE_DEF
        OBVIOUS
      <4>2. PICK a : a = [Free EXCEPT !.name = l]
        OBVIOUS
      <4>3. a = [name |-> l, isdir |-> FALSE, start |-> 0, alloc |-> 0, size |-> 0, uid |-> 0, mode |-> {}]
        BY ONLY <4>2, Zenon DEF Free
      <4>4. new = [a EXCEPT !.mode = k] /\ FileEntry(Last(p), 0) = [a EXCEPT !.mode = k, !.uid = 0]
        BY <4>1, <4>2 DEF FileEntry
      <4>5. PICK b : b = [a EXCEPT !.mode = k]
        OBVIOUS
      <4>6. b = [name |-> l, isdir |-> FALSE, start |-> 0, alloc |-> 0, size |-> 0, uid |-> 0, mode |-> k]
        BY ONLY <4>3, <4>5
      <4>8. PICK g : g = [b EXCEPT !.uid = 0]
        OBVIOUS
      <4>7. g = [name |-> l, isdir |-> FALSE, start |-> 0, alloc |-> 0, size |-> 0, uid |-> 0, mode |-> k]
        BY ONLY <4>6, <4>8
      <4>9. new = b /\ FileEntry(Last(p), 0) = g
        BY ONLY <4>4, <4>5, <4>8
      <4>. QED  BY ONLY <4>6, <4>7, <4>9
    <3>. HIDE DEF new
    <3>. QED  BY <3>1, <3>2, NewFile
  <2>. HIDE DEF s, new
  <2>5. \A cl : ~Writes(cl) /\ cl.path = p => Plan(disk, AddEntry(Parent(p, c).dir, new, g_sb.next), cl)
    BY <1>3, <1>4, <1>7, <2>4, CreatePlan
  <2>6. Plan(disk, todo', call') /\ call'.op # "format"
    BY <2>1, <2>5, CallIs
  <2>. QED  BY <1>1, <2>1, <2>3, <2>6, Begins
<1>8. CASE WriteArm /\ ~MkdirArm /\ ~ChmodArm /\ ~CreateArm
  <2>1. todo' = FileWrites(r.cell, p, s.val) /\ CallOf("write", p, s.val) /\ script' = Tail(script)
    BY <1>8 DEF ScaffoldStep, Begin, CallOf
  <2>2. s.val \in Seq(Contents)
    BY <1>2, <1>8, ScaffoldIs
  <2>. HIDE DEF s
  <2>3. \A cl : Writes(cl) /\ cl.path = p /\ cl.val = s.val => Plan(disk, FileWrites(r.cell, p, s.val), cl)
    BY <1>3, <1>4, <1>8, <2>2, WritePlan
  <2>4. Plan(disk, todo', call') /\ call'.op # "format"
    BY <2>1, <2>3, CallIs
  <2>. QED  BY <1>1, <1>2, <2>1, <2>4, Begins
<1>9. CASE ~MkdirArm /\ ~ChmodArm /\ ~CreateArm /\ ~WriteArm
  <2>1. todo' = todo /\ script' = Tail(script)
    BY <1>9 DEF ScaffoldStep
  <2>. HIDE DEF s
  <2>2. Plan(disk, todo', call') /\ todo' = <<>>
    BY <1>1, <2>1, RunningIsLive, PlanNil
  <2>. QED  BY <1>1, <1>2, <2>1, <2>2, Begins
<1>. HIDE DEF MkdirArm, ChmodArm, CreateArm, WriteArm
<1>. QED  BY <1>5, <1>6, <1>7, <1>8, <1>9

-----------------------------------------------------------------------------
(* A sector write, a crash                                                 *)

\* The disk after the write at the head of the plan, for the states in which
\* there is one.
LEMMA HeadWrite ==
  ASSUME PInv, NotReset, todo # <<>>, Writable(Head(todo).lba),
         NEW d, d = [disk EXCEPT ![Head(todo).lba] = Head(todo).sec]
  PROVE  LET w == Head(todo)
         IN  /\ Good(d) /\ Plan(d, Tail(todo), call) /\ Writable(BASE)
             /\ ~w.sb => d[BASE].sb = g_sb
             /\ w.sb => d[BASE].sb = w.sec.sb
             /\ disk = Blank => Tail(todo) # <<>> /\ pc = "format"
             /\ g_base_lba = BASE
<1>. DEFINE w == Head(todo)
<1>0. d = After(disk, w.lba, w.sec)
  BY DEF After
<1>1. CASE Running
  <2>1. /\ Good(d) /\ Plan(d, Tail(todo), call)
        /\ w.sb => d[BASE].sb = w.sec.sb
        /\ ~w.sb => d[BASE] = disk[BASE]
    <3>1. Plan(disk, todo, call)
      BY <1>1 DEF Running
    <3>. DEFINE e == After(disk, w.lba, w.sec)
    <3>2. /\ Good(e) /\ Plan(e, Tail(todo), call)
          /\ w.sb => w.lba = BASE /\ e[BASE].sb = w.sec.sb
          /\ ~w.sb => w.lba # BASE /\ e[BASE] = disk[BASE]
      BY <3>1, StepIs
    <3>. HIDE DEF e, w
    <3>3. d = e
      BY <1>0 DEF e
    <3>. QED  BY <3>2, <3>3
  <2>2. disk # Blank
    <3>1. Good(disk)
      BY <1>1, RunningIsLive
    <3>2. Blank[BASE].kind = "other"
      BY Sizes DEF Blank, Other
    <3>. QED  BY <3>1, <3>2 DEF Good, Vol, SbSector
  <2>. HIDE DEF w
  <2>3. ~w.sb => d[BASE].sb = g_sb
    BY <1>1, <2>1 DEF Running
  <2>. QED  BY <1>1, <2>1, <2>2, <2>3 DEF Running, w
<1>2. CASE ~Running
  <2>1. pc = "format" /\ disk = Blank /\ g_sb = NewSb(BASE) /\ g_base_lba = BASE /\ todo = FormatWrites
    BY <1>2 DEF PInv, Serving
  <2>2. w = Write(BASE, SbSector(NewSb(BASE))) /\ Tail(FormatWrites) # <<>>
    BY <2>1 DEF FormatWrites
  <2>3. w.lba = BASE /\ w.sec = SbSector(NewSb(BASE)) /\ ~w.sb
    BY <2>2 DEF Write
  <2>. HIDE DEF w
  <2>4. d = After(Blank, BASE, SbSector(NewSb(BASE))) /\ Writable(BASE)
    BY <1>0, <2>1, <2>3 DEF w
  <2>5. d[BASE] = SbSector(NewSb(BASE)) /\ Plan(d, Tail(todo), call)
    <3>1. Formats(call)
      BY <2>1 DEF PInv, Formats
    <3>. QED  BY <2>1, <2>4, <3>1, FormatPlan
  <2>6. d[BASE].sb = g_sb
    BY <2>1, <2>5 DEF SbSector
  <2>. QED  BY <2>1, <2>2, <2>3, <2>4, <2>5, <2>6, PlanIs DEF w
<1>. QED  BY <1>1, <1>2

\* A sector is written, and the call may end.
LEMMA WriteOkStep ==
  ASSUME PInv, NotReset, WriteOk
  PROVE  PInv'
<1>. DEFINE w == Head(todo)
<1>1. /\ todo # <<>> /\ Writable(w.lba) /\ disk' = [disk EXCEPT ![w.lba] = w.sec]
      /\ g_sb' = (IF w.sb THEN w.sec.sb ELSE g_sb) /\ todo' = Tail(todo)
  BY DEF WriteOk
<1>2. PICK d : d = disk'
  OBVIOUS
<1>3. /\ Good(d) /\ Plan(d, Tail(todo), call) /\ Writable(BASE)
      /\ ~w.sb => d[BASE].sb = g_sb
      /\ w.sb => d[BASE].sb = w.sec.sb
      /\ disk = Blank => Tail(todo) # <<>> /\ pc = "format"
      /\ g_base_lba = BASE
  BY <1>1, <1>2, HeadWrite
<1>. HIDE DEF w
<1>4. g_sb' = disk'[BASE].sb
  BY <1>1, <1>2, <1>3
<1>5. Good(disk') /\ Plan(disk', todo', call) /\ Writable(BASE) /\ Writable(BASE)'
  BY <1>1, <1>2, <1>3 DEF Writable
<1>6. script \in Seq(Items) /\ pc \in {"format"} \cup Serving
  BY <1>1 DEF PInv
<1>7. CASE Tail(todo) # <<>>
  <2>1. g_base_lba' = g_base_lba /\ pc' = pc /\ script' = script /\ call' = call
    BY <1>7 DEF WriteOk
  <2>2. Running'
    BY <1>3, <1>4, <1>5, <2>1 DEF Running
  <2>3. pc = "format" => call.op = "format"
    BY DEF PInv
  <2>4. pc \in Serving => call.op # "format"
    BY <1>1 DEF PInv
  <2>. QED  BY <1>1, <1>5, <1>6, <1>7, <2>1, <2>2, <2>3, <2>4 DEF PInv, Serving
<1>8. CASE Tail(todo) = <<>>
  <2>0. Complete
    BY <1>8 DEF WriteOk
  <2>1. CASE pc = "format"
    <3>1. call.op = "format"
      BY <2>1 DEF PInv
    <3>2. g_base_lba' = BASE /\ pc' = "build" /\ script' = Scaffold /\ call' = call
      BY <2>0, <3>1 DEF Complete
    <3>3. Running'
      BY <1>4, <1>5, <3>2 DEF Running
    <3>. QED  BY <1>1, <1>5, <1>8, <3>2, <3>3, ScaffoldIs DEF PInv, Serving
  <2>2. CASE pc # "format"
    <3>1. call.op # "format" /\ call.op # "reset"
      BY <1>1, <1>6, <2>2 DEF PInv, NotReset
    <3>2. g_base_lba' = g_base_lba /\ pc' = pc /\ script' = script /\ call' = call
      BY <2>0, <3>1 DEF Complete
    <3>3. Running'
      BY <1>3, <1>4, <1>5, <3>2 DEF Running
    <3>. QED  BY <1>1, <1>5, <1>6, <1>8, <2>2, <3>2, <3>3 DEF PInv, Serving
  <2>. QED  BY <2>1, <2>2
<1>. QED  BY <1>7, <1>8

\* No save of the superblock fails, by the theorems' assumption.
LEMMA SavesSucceed ==
  ASSUME "sb" \notin FaultIn, PInv, WriteError
  PROVE  ~Head(todo).sb
<1>. DEFINE w == Head(todo)
<1>9. todo # <<>> /\ pc \in {"format"} \cup Serving
  BY DEF WriteError, PInv
<1>. SUFFICES ASSUME w.sb PROVE FALSE
  OBVIOUS
<1>0. w.sb
  OBVIOUS
<1>1. Running
  <2>. SUFFICES ASSUME todo = FormatWrites PROVE FALSE
    BY <1>9 DEF PInv
  <2>1. Head(FormatWrites) = Write(BASE, SbSector(NewSb(BASE)))
    BY DEF FormatWrites
  <2>. QED  BY <2>1 DEF Write
<1>2. Plan(disk, todo, call) /\ Writable(BASE)
  BY <1>1 DEF Running
<1>. HIDE DEF w
<1>3. w.lba = BASE
  BY <1>9, <1>2, PlanIs DEF Fits, w
<1>4. Victim(w) \in FaultIn
  BY <1>2, <1>3 DEF WriteError, w
<1>5. Victim(w) = "sb"
  BY <1>0 DEF Victim
<1>. QED  BY <1>4, <1>5

\* A write fails, written or not, and the call gives up.
LEMMA WriteErrorStep ==
  ASSUME "sb" \notin FaultIn, PInv, NotReset, WriteError
  PROVE  PInv'
<1>. DEFINE w == Head(todo)
<1>1. todo # <<>> /\ script \in Seq(Items) /\ pc \in {"format"} \cup Serving
  BY DEF WriteError, PInv
<1>2. g_base_lba = BASE
  BY <1>1 DEF PInv, Running
<1>3. ~w.sb
  BY SavesSucceed
<1>4. todo' = <<>> /\ Abort /\ g_sb' = g_sb
  BY <1>3 DEF WriteError
<1>5. disk' = disk \/ (Writable(w.lba) /\ disk' = [disk EXCEPT ![w.lba] = w.sec])
  BY DEF WriteError
<1>6. script' = script /\ g_base_lba' = g_base_lba
  BY <1>4 DEF Abort
<1>7. (disk = Blank \/ (Good(disk) /\ Writable(BASE)))'
  <2>1. CASE disk' = disk
    BY <2>1 DEF PInv, Writable
  <2>2. CASE Writable(w.lba) /\ disk' = [disk EXCEPT ![w.lba] = w.sec]
    <3>1. PICK d : d = disk'
      OBVIOUS
    <3>2. Good(d) /\ Writable(BASE)
      BY <1>1, <2>2, <3>1, HeadWrite
    <3>. QED  BY <3>1, <3>2 DEF Writable
  <2>. QED  BY <1>5, <2>1, <2>2
<1>8. CASE pc = "format"
  <2>1. pc' = "nofs"
    <3>1. call.op = "format"
      BY <1>8 DEF PInv
    <3>. QED  BY <1>4, <3>1 DEF Abort
  <2>. QED  BY <1>1, <1>4, <1>6, <1>7, <2>1 DEF PInv, Serving
<1>9. CASE pc # "format"
  <2>1. pc \in Serving /\ Running /\ call.op # "format" /\ call.op # "reset"
    BY <1>1, <1>9 DEF PInv, NotReset
  <2>2. pc' = pc
    BY <1>4, <2>1 DEF Abort
  <2>3. Good(disk') /\ Writable(BASE)' /\ g_sb' = disk'[BASE].sb
    <3>1. CASE disk' = disk
      <4>1. Good(disk') /\ g_sb' = disk'[BASE].sb
        BY <1>4, <2>1, <3>1, RunningIsLive DEF Running
      <4>. QED  BY <2>1, <4>1 DEF Running, Writable
    <3>2. CASE Writable(w.lba) /\ disk' = [disk EXCEPT ![w.lba] = w.sec]
      <4>1. PICK d : d = disk'
        OBVIOUS
      <4>2. Good(d) /\ Writable(BASE) /\ d[BASE].sb = g_sb
        BY <1>1, <1>3, <3>2, <4>1, HeadWrite
      <4>. QED  BY <1>4, <4>1, <4>2 DEF Writable
    <3>. QED  BY <1>5, <3>1, <3>2
  <2>4. Running'
    BY <1>2, <1>4, <1>6, <2>3, PlanNil DEF Running
  <2>. QED  BY <1>1, <1>4, <1>6, <1>7, <2>1, <2>2, <2>4 DEF PInv, Serving
<1>. QED  BY <1>8, <1>9

\* A crash leaves the disk, and every disk of a plan is a volume.
LEMMA CrashStep ==
  ASSUME PInv, Crash
  PROVE  PInv'
<1>1. pc' = "boot" /\ script' = <<>> /\ todo' = <<>> /\ disk' = disk
  BY DEF Crash
<1>2. (disk = Blank \/ (Good(disk) /\ Writable(BASE)))'
  BY <1>1 DEF PInv, Writable
<1>. QED  BY <1>1, <1>2 DEF PInv, Serving

\* Nothing changes.
LEMMA StutterStep ==
  ASSUME PInv, UNCHANGED vars
  PROVE  PInv'
BY DEF vars, mem, PInv, Running, Writable

\* Every step keeps the invariant.
LEMMA PInvStep ==
  ASSUME "sb" \notin FaultIn, PInv, NotReset, NotReset', [Next]_vars
  PROVE  PInv'
<1>1. ASSUME NEW c \in Callers, Factreset(c) PROVE PInv'
  <2>1. call'.op = "reset"
    BY <1>1 DEF Factreset, Format, Begin
  <2>. QED  BY <2>1 DEF NotReset
<1>2. ASSUME NEW p \in Paths, NEW c \in Callers, NEW o \in Callers, Chown(p, o.uid, c) PROVE PInv'
  <2>1. PICK uid \in Nat : uid = o.uid
    BY CallerIs
  <2>. QED  BY <1>2, <2>1, ChownStep
<1>. QED  BY <1>1, <1>2, MountStep, RemountStep, ScaffoldStepStep, ScaffoldDoneStep, MkdirStep, CreateStep,
             UnlinkStep, WriteFileStep, ChmodStep, WriteOkStep, WriteErrorStep, CrashStep, StutterStep DEF Next

\* The disk holds a volume at every step of every call, from the first format
\* on, across crashes and failing writes (all of pdfs.c that writes).
THEOREM VolumeInvariant ==
  ASSUME "sb" \notin FaultIn, ~OldVolume
  PROVE  Spec /\ []NotReset => []PInv
<1>1. Init => PInv
  BY DEF Init, PInv, Blank, Serving
<1>2. PInv /\ NotReset /\ NotReset' /\ [Next]_vars => PInv'
  BY PInvStep
<1>. QED  BY <1>1, <1>2, PTL DEF Spec

-----------------------------------------------------------------------------
(* The directories of the volume on the disk                               *)

\* What the recursive function of Firsts does at each number of steps left.
Closes(t) ==
  \A n \in 0..TOTAL, fs \in SUBSET Nat :
    t[n][fs] = IF n = 0 \/ Below(fs) = fs THEN fs ELSE t[n - 1][Below(fs)]

\* The recursive function of Firsts exists (by induction on its domain).
LEMMA FirstsDef ==
  \E t : Closes(t) /\ Firsts = t[TOTAL][{OnDisk.dir}]
<1>. DEFINE Ok(g, m) == g = [k \in 0..m |-> [fs \in SUBSET Nat |->
                               IF k = 0 \/ Below(fs) = fs THEN fs ELSE g[k - 1][Below(fs)]]]
            T == { m \in Nat : \E g : Ok(g, m) }
<1>0. TOTAL \in Nat
  BY Sizes
<1>1. 0 \in T
  <2>. DEFINE g == [k \in 0..0 |-> [fs \in SUBSET Nat |-> fs]]
  <2>1. Ok(g, 0)
    OBVIOUS
  <2>. HIDE DEF g, Ok
  <2>. QED  BY <2>1
<1>2. ASSUME NEW m \in Nat, m \in T PROVE m + 1 \in T
  <2>1. PICK g : Ok(g, m)
    BY <1>2
  <2>. DEFINE M == m + 1
              new == [fs \in SUBSET Nat |-> IF Below(fs) = fs THEN fs ELSE g[m][Below(fs)]]
              h == [k \in 0..M |-> IF k = M THEN new ELSE g[k]]
  <2>2. ASSUME NEW n \in 0..M
        PROVE  h[n] = [fs \in SUBSET Nat |-> IF n = 0 \/ Below(fs) = fs THEN fs ELSE h[n - 1][Below(fs)]]
    <3>1. CASE n = M
      <4>1. M # 0 /\ M - 1 = m /\ m \in 0..M /\ m # M
        OBVIOUS
      <4>2. h[M - 1] = g[m] /\ h[n] = new
        BY <3>1, <4>1
      <4>. HIDE DEF h
      <4>. QED  BY <3>1, <4>1, <4>2
    <3>2. CASE n # M
      <4>1. n \in 0..m /\ (n # 0 => n - 1 \in 0..M /\ n - 1 # M)
        BY <3>2
      <4>2. h[n] = g[n] /\ (n # 0 => h[n - 1] = g[n - 1])
        BY <3>2, <4>1
      <4>3. g[n] = [fs \in SUBSET Nat |-> IF n = 0 \/ Below(fs) = fs THEN fs ELSE g[n - 1][Below(fs)]]
        BY <2>1, <4>1
      <4>. HIDE DEF h
      <4>. QED  BY <4>2, <4>3
    <3>. QED  BY <3>1, <3>2
  <2>3. Ok(h, m + 1)
    BY <2>2
  <2>. HIDE DEF h, Ok
  <2>. QED  BY <2>3
<1>3. TOTAL \in T
  <2>. HIDE DEF T
  <2>. QED  BY <1>0, <1>1, <1>2, Induction
<1>. DEFINE t == CHOOSE g : Ok(g, TOTAL)
<1>4. Ok(t, TOTAL)
  BY <1>3
<1>5. Firsts = t[TOTAL][{OnDisk.dir}]
  BY DEF Firsts
<1>6. Closes(t)
  <2>. SUFFICES ASSUME NEW n \in 0..TOTAL, NEW fs \in SUBSET Nat
                PROVE  t[n][fs] = IF n = 0 \/ Below(fs) = fs THEN fs ELSE t[n - 1][Below(fs)]
    BY DEF Closes
  <2>1. t[n] = [es \in SUBSET Nat |-> IF n = 0 \/ Below(es) = es THEN es ELSE t[n - 1][Below(es)]]
    <3>. HIDE DEF t
    <3>. QED  BY <1>4
  <2>. HIDE DEF t
  <2>. QED  BY <2>1
<1>. QED  BY <1>5, <1>6

\* The entries of a directory.
LEMMA UsedIs ==
  ASSUME NEW r, NEW m, NEW own, NEW at, NEW S, Volume(disk, r, m, own, at, S),
         NEW f, IsHead(disk, r, S, f), NEW c \in Used(f)
  PROVE  /\ f \in S /\ c.lba \in Chain(disk, f) /\ c.lba \in S /\ c.slot \in Slots
         /\ c = Cell(c.lba, c.slot) /\ c # NoCell
         /\ Entry(disk, c) = Ent(disk, c.lba, c.slot) /\ Entry(disk, c) # Free
         /\ EntryOk(disk, r, m, own, at, S, c, Entry(disk, c))
<1>1. f \in S /\ \A b \in Chain(disk, f) : b \in S
  BY HeadIs, VolumeChain
<1>2. c \in [lba : Chain(disk, f), slot : Slots] /\ Entry(disk, c) # Free
  BY DEF Used
<1>3. c.lba \in Chain(disk, f) /\ c.slot \in Slots /\ c = Cell(c.lba, c.slot)
  BY <1>2 DEF Cell
<1>4. Entry(disk, c) = Ent(disk, c.lba, c.slot)
  BY DEF Entry, Ent
<1>5. EntryOk(disk, r, m, own, at, S, Cell(c.lba, c.slot), Ent(disk, c.lba, c.slot))
  BY <1>1, <1>3 DEF Volume
<1>6. c.lba # 0
  BY <1>1, <1>3, Sizes DEF Volume
<1>. QED  BY <1>1, <1>2, <1>3, <1>4, <1>5, <1>6 DEF NoCell

\* Firsts collects first sectors of directories, and no others.
LEMMA FirstsAre ==
  ASSUME NEW r, NEW m, NEW own, NEW at, NEW S, Volume(disk, r, m, own, at, S), OnDisk.dir = r
  PROVE  \A f \in Firsts : IsHead(disk, r, S, f)
<1>. DEFINE Heads(fs) == fs \in SUBSET Nat /\ \A f \in fs : IsHead(disk, r, S, f)
<1>1. ASSUME NEW f, IsHead(disk, r, S, f) PROVE f \in Nat
  <2>1. f \in S
    BY <1>1, HeadIs
  <2>2. S \subseteq LBAs
    BY DEF Volume
  <2>. QED  BY <2>1, <2>2, Sizes
<1>2. ASSUME NEW fs, Heads(fs) PROVE Heads(Below(fs))
  <2>1. ASSUME NEW f \in fs, NEW c \in SubDirs(f) PROVE IsHead(disk, r, S, Entry(disk, c).start)
    <3>1. IsHead(disk, r, S, f) /\ c \in Used(f) /\ Entry(disk, c).isdir
      BY <1>2 DEF SubDirs
    <3>2. c.lba \in S /\ c.slot \in Slots /\ Entry(disk, c) = Ent(disk, c.lba, c.slot)
      BY <3>1, UsedIs
    <3>. QED  BY <3>1, <3>2 DEF IsHead
  <2>2. \A h \in Below(fs) : IsHead(disk, r, S, h)
    BY <1>2, <2>1 DEF Below
  <2>. QED  BY <1>1, <2>2
<1>3. PICK t : Closes(t) /\ Firsts = t[TOTAL][{OnDisk.dir}]
  BY FirstsDef
<1>. DEFINE T == { n \in Nat : n <= TOTAL => \A fs : Heads(fs) => Heads(t[n][fs]) }
<1>. HIDE DEF Heads
<1>4. \A fs : Heads(fs) => fs \in SUBSET Nat
  BY DEF Heads
<1>5. 0 \in T
  <2>1. 0 \in 0..TOTAL
    BY Sizes
  <2>2. ASSUME NEW fs, Heads(fs) PROVE Heads(t[0][fs])
    <3>1. fs \in SUBSET Nat
      BY <1>4, <2>2
    <3>2. t[0][fs] = fs
      BY <1>3, <2>1, <3>1 DEF Closes
    <3>. QED  BY <2>2, <3>2
  <2>. QED  BY <2>2
<1>6. ASSUME NEW n \in Nat, n \in T PROVE n + 1 \in T
  <2>. SUFFICES ASSUME n + 1 <= TOTAL, NEW fs, Heads(fs)
                PROVE  Heads(t[n + 1][fs])
    OBVIOUS
  <2>1. n + 1 \in 0..TOTAL /\ n + 1 # 0 /\ (n + 1) - 1 = n /\ n <= TOTAL
    BY Sizes
  <2>2. fs \in SUBSET Nat
    BY <1>4
  <2>3. t[n + 1][fs] = IF Below(fs) = fs THEN fs ELSE t[n][Below(fs)]
    BY <2>1, <2>2, <1>3 DEF Closes
  <2>4. Heads(t[n][Below(fs)])
    BY <1>2, <1>6, <2>1
  <2>. QED  BY <2>3, <2>4
<1>7. TOTAL \in T
  <2>. HIDE DEF T
  <2>. QED  BY <1>5, <1>6, Induction, Sizes
<1>8. Heads({OnDisk.dir})
  <2>1. IsHead(disk, r, S, r)
    BY DEF IsHead
  <2>. QED  BY <1>1, <2>1 DEF Heads
<1>9. Heads(Firsts)
  <2>1. TOTAL <= TOTAL
    BY Sizes
  <2>2. \A fs : Heads(fs) => Heads(t[TOTAL][fs])
    BY <1>7, <2>1
  <2>. QED  BY <1>3, <1>8, <2>2
<1>. QED  BY <1>9 DEF Heads

-----------------------------------------------------------------------------
(* What the invariant says of the volume                                   *)

\* A formatted disk holds a volume.
LEMMA FormattedIs ==
  ASSUME PInv, Formatted
  PROVE  \E r, n, m, own, at, S :
           /\ Vol(disk, r, n, m, own, at, S) /\ Volume(disk, r, m, own, at, S)
           /\ OnDisk.dir = r /\ OnDisk.next = n
<1>1. disk # Blank
  BY Sizes DEF Formatted, Blank, Other
<1>2. PICK r, n, m, own, at, S : Vol(disk, r, n, m, own, at, S)
  BY <1>1 DEF PInv, Good
<1>3. OnDisk = Sb(r, n)
  BY <1>2 DEF Vol, SbSector, OnDisk
<1>. QED  BY <1>2, <1>3 DEF Vol, Sb

\* What an owner's claim is.
Claim(o) ==
  [owner |-> o, sectors |-> IF o = NoCell THEN Chain(disk, OnDisk.dir)
                            ELSE IF Entry(disk, o).isdir THEN Chain(disk, Entry(disk, o).start)
                            ELSE Entry(disk, o).start..(Entry(disk, o).start + Entry(disk, o).alloc - 1)]

\* The sectors of a claim were taken for its owner.
LEMMA ClaimIs ==
  ASSUME NEW r, NEW n, NEW m, NEW own, NEW at, NEW S,
         Vol(disk, r, n, m, own, at, S), OnDisk.dir = r, NEW x \in Claims
  PROVE  /\ x = Claim(x.owner)
         /\ \A y \in x.sectors : own[y] = x.owner /\ y \in Int /\ r <= y /\ y < m
<1>1. Volume(disk, r, m, own, at, S) /\ r \in S /\ own[r] = NoCell
  BY DEF Vol, Volume
<1>2. \A y \in S : y \in Int /\ r <= y /\ y < m
  BY VolBounds
<1>3. CASE x = [owner |-> NoCell, sectors |-> Chain(disk, OnDisk.dir)]
  <2>1. x = Claim(x.owner)
    BY <1>3 DEF Claim
  <2>2. \A y \in Chain(disk, r) : y \in S /\ own[y] = NoCell
    BY <1>1, VolumeChain
  <2>. QED  BY <1>2, <1>3, <2>1, <2>2
<1>4. ASSUME NEW f \in Firsts, NEW c \in Used(f),
             x = [owner |-> c, sectors |-> LET e == Entry(disk, c)
                                           IN  IF e.isdir THEN Chain(disk, e.start)
                                               ELSE e.start..(e.start + e.alloc - 1)]
      PROVE  /\ x = Claim(x.owner)
             /\ \A y \in x.sectors : own[y] = x.owner /\ y \in Int /\ r <= y /\ y < m
  <2>. DEFINE e == Entry(disk, c)
  <2>1. IsHead(disk, r, S, f)
    BY <1>1, FirstsAre
  <2>2. c # NoCell /\ e # Free /\ EntryOk(disk, r, m, own, at, S, c, e)
    BY <1>1, <2>1, UsedIs
  <2>3. x = Claim(x.owner) /\ x.owner = c
    BY <1>4, <2>2 DEF Claim
  <2>. HIDE DEF e
  <2>4. CASE e.isdir
    <3>1. x.sectors = Chain(disk, e.start)
      BY <1>4, <2>4 DEF e
    <3>2. e.start \in S /\ own[e.start] = c
      BY <2>2, <2>4 DEF EntryOk
    <3>3. \A y \in Chain(disk, e.start) : y \in S /\ own[y] = c
      BY <1>1, <3>2, VolumeChain
    <3>. QED  BY <1>2, <2>3, <3>1, <3>3
  <2>5. CASE ~e.isdir
    <3>1. x.sectors = e.start..(e.start + e.alloc - 1)
      BY <1>4, <2>5 DEF e
    <3>2. \A y \in e.start..(e.start + e.alloc - 1) : r <= y /\ y < m /\ own[y] = c
      BY <2>2, <2>5 DEF EntryOk
    <3>3. \A y \in e.start..(e.start + e.alloc - 1) : y \in Int
      OBVIOUS
    <3>. QED  BY <2>3, <3>1, <3>2, <3>3
  <2>. QED  BY <2>4, <2>5
<1>. QED  BY <1>3, <1>4 DEF Claims

\* The owners of sectors give NoSharing, ...
LEMMA ExclusiveIs ==
  ASSUME PInv
  PROVE  SectorsExclusive /\ NoSharing
<1>1. ASSUME Formatted, NEW x \in Claims
      PROVE  /\ x.sectors \subseteq OnDisk.dir..(OnDisk.next - 1)
             /\ \A y \in Claims : x # y => x.sectors \cap y.sectors = {}
  <2>1. PICK r, n, m, own, at, S :
          Vol(disk, r, n, m, own, at, S) /\ OnDisk.dir = r /\ OnDisk.next = n
    BY <1>1, FormattedIs
  <2>2. /\ r \in Nat /\ n \in Nat /\ m \in Nat /\ m <= n
    BY <2>1, VolBounds
  <2>3. \A y \in Claims : /\ y = Claim(y.owner)
                          /\ \A z \in y.sectors : own[z] = y.owner /\ z \in Int /\ r <= z /\ z < m
    BY <2>1, ClaimIs
  <2>4. x.sectors \subseteq r..(n - 1)
    <3>1. ASSUME NEW z \in Int, r <= z, z < m PROVE z \in r..(n - 1)
      BY <2>2, <3>1
    <3>. QED  BY <2>3, <3>1
  <2>5. ASSUME NEW y \in Claims, x # y PROVE x.sectors \cap y.sectors = {}
    <3>1. x.owner # y.owner
      BY <2>3, <2>5
    <3>. QED  BY <2>3, <3>1
  <2>. QED  BY <2>1, <2>4, <2>5
<1>. QED  BY <1>1 DEF SectorsExclusive, NoSharing

\* ... the uniqueness of names UniqueNames, ...
LEMMA UniqueIs ==
  ASSUME PInv
  PROVE  UniqueNames
<1>. SUFFICES ASSUME Formatted, NEW f \in Firsts, NEW c \in Used(f), NEW k \in Used(f),
                     Entry(disk, c).name = Entry(disk, k).name
              PROVE  c = k
  BY DEF UniqueNames
<1>1. PICK r, n, m, own, at, S : Volume(disk, r, m, own, at, S) /\ OnDisk.dir = r
  BY FormattedIs
<1>2. IsHead(disk, r, S, f)
  BY <1>1, FirstsAre
<1>3. Unique(disk, f)
  BY <1>1, <1>2 DEF Volume
<1>4. /\ c.lba \in Chain(disk, f) /\ c.slot \in Slots /\ c = Cell(c.lba, c.slot)
      /\ Entry(disk, c) = Ent(disk, c.lba, c.slot) /\ Entry(disk, c) # Free
  BY <1>1, <1>2, UsedIs
<1>5. /\ k.lba \in Chain(disk, f) /\ k.slot \in Slots /\ k = Cell(k.lba, k.slot)
      /\ Entry(disk, k) = Ent(disk, k.lba, k.slot) /\ Entry(disk, k) # Free
  BY <1>1, <1>2, UsedIs
<1>6. c.lba = k.lba /\ c.slot = k.slot
  BY <1>3, <1>4, <1>5 DEF Unique
<1>. QED  BY <1>4, <1>5, <1>6

\* ... and the owners of data NoForeignData.
LEMMA DataIs ==
  ASSUME PInv
  PROVE  NoForeignData
<1>. SUFFICES ASSUME NEW p \in Paths, View(disk, p)[1] = "file",
                     NEW i \in 2..Len(View(disk, p))
              PROVE  View(disk, p)[i].kind = "data" /\ View(disk, p)[i].path = p
  BY DEF NoForeignData
<1>. DEFINE R == path_resolve(disk, disk[BASE].sb.dir, p, ElevatedRoot)
            e == Entry(disk, R.cell)
            s == [j \in 1..e.size |-> disk[e.start + j - 1]]
<1>1. p \in Seq(Names) /\ p # <<>>
  BY CallerIs
<1>2. <<"none">>[1] # "file" /\ <<"dir">>[1] # "file"
  OBVIOUS
<1>3. /\ disk[BASE].kind = "sb" /\ disk[BASE].sb.version = VERSION /\ R.ok /\ ~R.isdir
      /\ View(disk, p) = <<"file">> \o s
  BY <1>2 DEF View
<1>4. disk # Blank
  <2>1. Blank[BASE].kind = "other"
    BY Sizes DEF Blank, Other
  <2>. HIDE DEF s, R
  <2>. QED  BY <1>3, <2>1
<1>5. PICK r, n, m, own, at, S : Vol(disk, r, n, m, own, at, S)
  BY <1>4 DEF PInv, Good
<1>6. disk[BASE].sb.dir = r /\ IsDisk(disk) /\ Volume(disk, r, m, own, at, S)
  BY <1>5 DEF Vol, SbSector, Sb
<1>7. Resolved(disk, r, at, S, p, R)
  BY <1>1, <1>6, ResolveIs
<1>. HIDE DEF R
<1>8. R.cell # NoCell
  BY <1>3, <1>7 DEF Resolved
<1>9. /\ R.cell = Cell(R.cell.lba, R.cell.slot) /\ R.cell.lba \in S /\ R.cell.slot \in Slots
      /\ e # Free /\ ~e.isdir /\ Append(at[R.cell.lba], e.name) = p
  BY <1>3, <1>7, <1>8 DEF Resolved
<1>10. e = Ent(disk, R.cell.lba, R.cell.slot) /\ e \in Entries
  BY <1>6, <1>9, AsDirIs DEF Entry, Ent
<1>11. EntryOk(disk, r, m, own, at, S, R.cell, e)
  BY <1>6, <1>9, <1>10 DEF Volume
<1>. HIDE DEF e
<1>12. \A x \in e.start..(e.start + e.size - 1) : disk[x].kind = "data" /\ disk[x].path = p
  BY <1>9, <1>11 DEF EntryOk
<1>13. e.size \in Nat /\ e.start \in Nat
  BY <1>10 DEF Entries
<1>14. View(disk, p)[i] = s[i - 1] /\ i - 1 \in 1..e.size
  <2>. DEFINE W == {"file"} \cup { disk[e.start + j - 1] : j \in 1..e.size }
              t == <<"file">>
  <2>1. s \in Seq(W) /\ Len(s) = e.size
    <3>1. s \in [1..e.size -> W] /\ DOMAIN s = 1..e.size
      OBVIOUS
    <3>. HIDE DEF s, W
    <3>2. s \in Seq(W)
      BY <1>13, <3>1, FunctionIsSeq
    <3>. QED  BY <1>13, <3>1, <3>2, LenProperties
  <2>2. t \in Seq(W) /\ Len(t) = 1
    OBVIOUS
  <2>. HIDE DEF W, s, t
  <2>3. /\ t \o s \in Seq(W) /\ Len(t \o s) = Len(t) + Len(s)
        /\ \A j \in 1..(Len(t) + Len(s)) : (t \o s)[j] = IF j <= Len(t) THEN t[j] ELSE s[j - Len(t)]
    BY <2>1, <2>2, ConcatProperties
  <2>4. View(disk, p) = t \o s
    BY <1>3 DEF t
  <2>5. i \in 2..(1 + e.size) /\ i \in 1..(1 + e.size) /\ ~(i <= 1)
    BY <1>13, <2>1, <2>2, <2>3, <2>4
  <2>. QED  BY <1>13, <2>1, <2>2, <2>3, <2>4, <2>5
<1>15. s[i - 1] = disk[e.start + (i - 1) - 1] /\ e.start + (i - 1) - 1 \in e.start..(e.start + e.size - 1)
  BY <1>13, <1>14
<1>. QED  BY <1>12, <1>14, <1>15

\* A step writes the sector at the head of the plan, or none.
LEMMA DiskStep ==
  ASSUME [Next]_vars
  PROVE  LET w == Head(todo)
         IN  \/ disk' = disk
             \/ todo # <<>> /\ Writable(w.lba) /\ disk' = [disk EXCEPT ![w.lba] = w.sec]
<1>. DEFINE w == Head(todo)
<1>1. CASE WriteOk
  BY <1>1 DEF WriteOk
<1>2. CASE WriteError
  <2>. HIDE DEF w
  <2>. QED  BY <1>2 DEF WriteError, w
<1>3. CASE UNCHANGED vars
  BY <1>3 DEF vars
<1>4. ASSUME NEW p \in Paths, NEW c \in Callers
      PROVE  /\ Mkdir(p, c) \/ Create(p, c) \/ Unlink(p, c) => disk' = disk
             /\ \A v : WriteFile(p, v, c) => disk' = disk
             /\ \A mode : Chmod(p, mode, c) => disk' = disk
             /\ \A o : Chown(p, o, c) => disk' = disk
  BY DEF Mkdir, Create, Unlink, WriteFile, Chmod, Chown
<1>5. \A c \in Callers : Factreset(c) => disk' = disk
  BY DEF Factreset
<1>6. Mount \/ Remount \/ ScaffoldStep \/ ScaffoldDone \/ Crash => disk' = disk
  BY DEF Mount, Remount, ScaffoldStep, ScaffoldDone, Crash
<1>. HIDE DEF w
<1>. QED  BY <1>1, <1>2, <1>3, <1>4, <1>5, <1>6 DEF Next

\* The allocator's pointer on the disk moves forward or stays.
LEMMA AllocatorStep ==
  ASSUME PInv, [Next]_vars, Formatted
  PROVE  disk'[BASE].sb.next >= disk[BASE].sb.next
<1>. DEFINE w == Head(todo)
<1>1. PICK r, n, m, own, at, S : Vol(disk, r, n, m, own, at, S) /\ OnDisk.next = n
  BY FormattedIs
<1>2. n \in Nat /\ disk[BASE].sb.next = n /\ disk[BASE].sb = Sb(r, n)
  BY <1>1, VolBounds DEF OnDisk, Vol, SbSector
<1>3. \/ disk' = disk
      \/ todo # <<>> /\ Writable(w.lba) /\ disk' = [disk EXCEPT ![w.lba] = w.sec]
  BY DiskStep
<1>4. CASE disk' = disk
  BY <1>2, <1>4
<1>5. CASE todo # <<>> /\ Writable(w.lba) /\ disk' = [disk EXCEPT ![w.lba] = w.sec]
  <2>1. Plan(disk, todo, call)
    <3>1. disk # Blank
      BY Sizes DEF Formatted, Blank, Other
    <3>. QED  BY <1>5, <3>1 DEF PInv, Running
  <2>2. Fits(disk, w)
    BY <1>5, <2>1, PlanIs
  <2>. HIDE DEF w
  <2>3. BASE \in LBAs /\ IsDisk(disk)
    BY <1>1, Sizes DEF Vol
  <2>4. CASE ~w.sb
    <3>1. disk'[BASE] = disk[BASE]
      BY <1>5, <2>2, <2>3, <2>4 DEF Fits, IsDisk
    <3>. QED  BY <1>2, <3>1
  <2>5. CASE w.sb
    <3>1. PICK k \in Nat : /\ w.lba = BASE /\ disk[BASE].sb.next <= k
                           /\ w.sec = SbSector([disk[BASE].sb EXCEPT !.next = k])
      BY <2>2, <2>5 DEF Fits
    <3>2. disk'[BASE] = w.sec
      BY <1>5, <2>3, <3>1 DEF IsDisk
    <3>3. disk'[BASE].sb.next = k
      BY <1>2, <3>1, <3>2 DEF SbSector, Sb
    <3>. QED  BY <1>2, <3>1, <3>3
  <2>. QED  BY <2>4, <2>5
<1>. QED  BY <1>3, <1>4, <1>5

-----------------------------------------------------------------------------
(* What a boot makes of the disk                                           *)

\* A sector written for a call changes what a boot makes of the call's path
\* only, and the last one of a write leaves the file there whole.
LEMMA HeadDoes ==
  ASSUME PInv, call.op # "format", todo # <<>>, Writable(Head(todo).lba), NotReset,
         disk' = [disk EXCEPT ![Head(todo).lba] = Head(todo).sec]
  PROVE  Does(disk, disk', todo, call)
<1>1. Plan(disk, todo, call)
  BY DEF PInv, Running
<1>2. Does(disk, After(disk, Head(todo).lba, Head(todo).sec), todo, call)
  BY <1>1, PlanIs
<1>. QED  BY <1>2 DEF After

\* Every step does.
LEMMA NamedStep ==
  ASSUME PInv, NotReset, [Next]_vars, NEW p \in Paths, View(disk', p) # View(disk, p)
  PROVE  call.path = p \/ call.op \in {"format", "reset"}
<1>. SUFFICES ASSUME call.path # p, call.op # "format" PROVE FALSE
  OBVIOUS
<1>1. /\ todo # <<>> /\ Writable(Head(todo).lba)
      /\ disk' = [disk EXCEPT ![Head(todo).lba] = Head(todo).sec]
  BY DiskStep
<1>2. Looks(disk, disk', call.path)
  BY <1>1, HeadDoes DEF Does, Formats
<1>3. p \in Seq(Names) /\ p # <<>>
  BY CallerIs
<1>. QED  BY <1>2, <1>3 DEF Looks

\* The step that ends a write with success is its last sector's.
LEMMA DurableStep ==
  ASSUME "sb" \notin FaultIn, PInv, NotReset, [Next]_vars,
         call.op = "write", todo # <<>>, todo' = <<>>, call' = call
  PROVE  Shown(disk', call)
<1>1. call' # NoCall
  BY DEF NoCall
<1>2. CASE WriteOk
  <2>1. /\ Writable(Head(todo).lba) /\ disk' = [disk EXCEPT ![Head(todo).lba] = Head(todo).sec]
        /\ Tail(todo) = <<>>
    BY <1>2 DEF WriteOk
  <2>. QED  BY <2>1, HeadDoes DEF Does, Writes
<1>3. CASE WriteError
  <2>1. Abort
    BY <1>3, SavesSucceed DEF WriteError
  <2>. QED  BY <1>1, <2>1 DEF Abort
<1>4. ~Crash
  BY <1>1 DEF Crash
<1>5. ~UNCHANGED vars
  BY DEF vars
<1>6. ~Mount /\ ~Remount /\ ~ScaffoldStep /\ ~ScaffoldDone
  BY DEF Mount, Remount, ScaffoldStep, ScaffoldDone
<1>7. ~Idle
  BY DEF Idle
<1>8. \A p, c : ~Mkdir(p, c) /\ ~Create(p, c) /\ ~Unlink(p, c)
  BY <1>7 DEF Mkdir, Create, Unlink
<1>9. \A p, x, c : ~WriteFile(p, x, c) /\ ~Chmod(p, x, c) /\ ~Chown(p, x, c)
  BY <1>7 DEF WriteFile, Chmod, Chown
<1>10. \A c : ~Factreset(c)
  BY <1>7 DEF Factreset
<1>. QED  BY <1>2, <1>3, <1>4, <1>5, <1>6, <1>8, <1>9, <1>10 DEF Next

-----------------------------------------------------------------------------
(* The theorems.  They are about every size of volume, every tree, every   *)
(* script of calls, any number of write errors and crashes, on a disk that *)
(* was blank, provided no save of the superblock fails unseen and nobody   *)
(* resets the volume: without either of the two the code loses the         *)
(* property (PdfsFlush.cfg and README section 4).                          *)

\* No sector of the volume belongs to two directories or files, and all that
\* belong to one lie between the root directory and the allocator's pointer
\* (pdfs_mkdir, pdfs_create, pdfs_write, chain_alloc_slot, flush_sb).
THEOREM SectorsAreNeverShared ==
  ASSUME "sb" \notin FaultIn, ~OldVolume
  PROVE  Spec /\ []NotReset => []NoSharing
<1>1. PInv => NoSharing
  BY ExclusiveIs
<1>. QED  BY <1>1, VolumeInvariant, PTL

\* No directory ever has two entries of one name (chain_find before
\* chain_alloc_slot in pdfs_mkdir and pdfs_create).
THEOREM NamesAreUnique ==
  ASSUME "sb" \notin FaultIn, ~OldVolume
  PROVE  Spec /\ []NotReset => []UniqueNames
<1>1. PInv => UniqueNames
  BY UniqueIs
<1>. QED  BY <1>1, VolumeInvariant, PTL

\* A file shows only what was written to it: pdfs_write writes the data before
\* the entry, and a file cut short in between shows its old contents or sectors
\* of the new, never another file's.
THEOREM FilesShowTheirOwn ==
  ASSUME "sb" \notin FaultIn, ~OldVolume
  PROVE  Spec /\ []NotReset => []NoForeignData
<1>1. PInv => NoForeignData
  BY DataIs
<1>. QED  BY <1>1, VolumeInvariant, PTL

\* The allocator never moves back on the disk (flush_sb), so that what it gave
\* out once it never gives out again.
THEOREM AllocatorMovesForward ==
  ASSUME "sb" \notin FaultIn, ~OldVolume
  PROVE  Spec /\ []NotReset => AllocatorMonotonic
<1>1. PInv /\ [Next]_vars => [Formatted /\ Formatted' => disk'[BASE].sb.next >= disk[BASE].sb.next]_vars
  BY AllocatorStep
<1>. QED  BY <1>1, VolumeInvariant, PTL DEF Spec, AllocatorMonotonic

\* What a boot makes of a path changes only in a call that names it: no call
\* of pdfs.c disturbs a file or directory it is not about, at any of its
\* sector writes, and whether or not it gets to the next.
THEOREM CallsKeepToTheirPath ==
  ASSUME "sb" \notin FaultIn, ~OldVolume
  PROVE  Spec /\ []NotReset => OnlyNamedPathChanges
<1>1. PInv /\ NotReset /\ [Next]_vars =>
        [\A p \in Paths : View(disk', p) # View(disk, p) => call.path = p \/ call.op \in {"format", "reset"}]_vars
  BY NamedStep
<1>. QED  BY <1>1, VolumeInvariant, PTL DEF Spec, OnlyNamedPathChanges

\* A pdfs_write that returns success is on the disk, whole: a boot right after
\* it shows the file with all the contents written.
THEOREM WritesAreDurable ==
  ASSUME "sb" \notin FaultIn, ~OldVolume
  PROVE  Spec /\ []NotReset => WrittenIsDurable
<1>1. PInv /\ NotReset /\ [Next]_vars =>
        [call.op = "write" /\ todo # <<>> /\ todo' = <<>> /\ call' = call /\ g_base_lba = BASE
           => View(disk', call.path) = <<"file">> \o [i \in DOMAIN call.val |-> Data(call.path, call.val[i])]]_vars
  BY DurableStep DEF Shown
<1>. QED  BY <1>1, VolumeInvariant, PTL DEF Spec, WrittenIsDurable
=============================================================================
