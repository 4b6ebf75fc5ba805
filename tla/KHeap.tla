------------------------------- MODULE KHeap -------------------------------
(***************************************************************************)
(* The kernel heap of PD-OS (kernel/mm/kheap.c): a first-fit list of       *)
(* blocks, each a header followed by its payload, that tile one fixed pool.*)
(*                                                                         *)
(* Addresses and block sizes count 4-byte words, the allocator's alignment *)
(* unit; a request counts bytes, as kmalloc's argument does.  The fields   *)
(* of the header at an address are functions of the address, because the   *)
(* memory of a header that was merged away keeps its old contents; the set *)
(* `linked' says which addresses hold headers the list still reaches.      *)
(*                                                                         *)
(* The loops of kmalloc and kfree are taken one iteration per step.  One   *)
(* call is in progress at a time: the functions take no lock, and in both  *)
(* builds of the kernel only one thread that uses the heap is awake.       *)
(***************************************************************************)
EXTENDS Integers

CONSTANTS
  START, POOL,  \* first word of the pool, words in the pool
  HEADER,       \* words of a block header (kheap_block_t)
  WRAP,         \* uint32_t arithmetic is modulo this
  Requests      \* sizes in bytes that callers ask for

ASSUME HeapAssumption ==
  /\ START \in Nat \ {0}
  /\ HEADER \in Nat \ {0}
  /\ POOL \in Nat /\ POOL > HEADER
  /\ WRAP \in Nat
  /\ Requests \subseteq 1..(WRAP - 4)

END       == START + POOL
NULL      == 0
Addrs     == START..(END - 1)
MIN_SPLIT == HEADER + 1

\* (size + 3) & ~3, in words.
Words(n) == ((n + 3) % WRAP) \div 4

VARIABLES
  size, free, next,   \* header fields, by header address
  linked,             \* headers on the list
  asked,              \* blocks handed out and not freed: bytes asked for, else 0
  pc, cur,            \* the call in progress, and its list cursor
  bytes               \* kmalloc's argument

heap == <<size, free, next, linked>>
heap_vars == <<heap, asked, pc, cur, bytes>>

HeapTypeOK ==
  /\ size \in [Addrs -> Nat]
  /\ free \in [Addrs -> {0, 1}]
  /\ next \in [Addrs -> Addrs \cup {NULL}]
  /\ linked \subseteq Addrs
  /\ asked \in [Addrs -> Nat]
  /\ pc \in {"idle", "search", "coalesce"}
  /\ cur \in Addrs \cup {NULL}
  /\ bytes \in Nat

\* kheap_init: one free block spans the pool.
HeapInit ==
  /\ size = [a \in Addrs |-> IF a = START THEN POOL - HEADER ELSE 0]
  /\ free = [a \in Addrs |-> IF a = START THEN 1 ELSE 0]
  /\ next = [a \in Addrs |-> NULL]
  /\ linked = {START}
  /\ asked = [a \in Addrs |-> 0]
  /\ pc = "idle" /\ cur = NULL /\ bytes = 0

\* A call returns and its locals go away.
Return == pc' = "idle" /\ cur' = NULL /\ bytes' = 0

-----------------------------------------------------------------------------
(* kmalloc *)

Kmalloc(n) ==
  /\ pc = "idle"
  /\ bytes' = n
  /\ pc' = "search" /\ cur' = START
  /\ UNCHANGED <<heap, asked>>

\* Mutant: the request is compared before it is rounded up to words.
Mutant_FitsUnaligned(a) == free[a] = 1 /\ size[a] >= bytes \div 4

Fits(a) == free[a] = 1 /\ size[a] >= Words(bytes)

\* Mutant: the search stops in front of the last block.
Mutant_SearchNext ==
  /\ pc = "search" /\ cur # NULL
  /\ ~Fits(cur)
  /\ cur' = IF next[cur] # NULL /\ next[next[cur]] = NULL THEN NULL ELSE next[cur]
  /\ UNCHANGED <<heap, asked, pc, bytes>>

SearchNext ==
  /\ pc = "search" /\ cur # NULL
  /\ ~Fits(cur)
  /\ cur' = next[cur]
  /\ UNCHANGED <<heap, asked, pc, bytes>>

SearchFail ==
  /\ pc = "search" /\ cur = NULL
  /\ Return
  /\ UNCHANGED <<heap, asked>>

\* The tail of the block becomes a free block of its own.
Split(w) ==
  LET rest == cur + HEADER + w IN
    /\ size' = [size EXCEPT ![cur] = w, ![rest] = size[cur] - w - HEADER]
    /\ free' = [free EXCEPT ![cur] = 0, ![rest] = 1]
    /\ next' = [next EXCEPT ![cur] = rest, ![rest] = next[cur]]
    /\ linked' = linked \cup {rest}

TakeWhole ==
  /\ free' = [free EXCEPT ![cur] = 0]
  /\ UNCHANGED <<size, next, linked>>

Take ==
  /\ pc = "search" /\ cur # NULL
  /\ Fits(cur)
  /\ IF size[cur] >= Words(bytes) + MIN_SPLIT THEN Split(Words(bytes)) ELSE TakeWhole
  /\ asked' = [asked EXCEPT ![cur] = bytes]
  /\ Return

-----------------------------------------------------------------------------
(* kfree of a pointer kmalloc returned.  (A second kfree of the same block,
   or of NULL, returns at once: it finds free = 1.) *)

Kfree(a) ==
  /\ pc = "idle"
  /\ asked[a] # 0 /\ free[a] = 0
  /\ free' = [free EXCEPT ![a] = 1]
  /\ asked' = [asked EXCEPT ![a] = 0]
  /\ pc' = "coalesce" /\ cur' = START
  /\ UNCHANGED <<size, next, linked, bytes>>

BothFree(a) == free[a] = 1 /\ next[a] # NULL /\ free[next[a]] = 1

\* Mutant: the swallowed header's own words are lost.
Mutant_Merge ==
  /\ pc = "coalesce" /\ cur # NULL
  /\ BothFree(cur)
  /\ size' = [size EXCEPT ![cur] = @ + size[next[cur]]]
  /\ next' = [next EXCEPT ![cur] = next[next[cur]]]
  /\ linked' = linked \ {next[cur]}
  /\ UNCHANGED <<free, asked, pc, cur, bytes>>

\* Mutant: the pass moves on after a merge.
Mutant_MergeAdvance ==
  /\ pc = "coalesce" /\ cur # NULL
  /\ BothFree(cur)
  /\ size' = [size EXCEPT ![cur] = @ + HEADER + size[next[cur]]]
  /\ next' = [next EXCEPT ![cur] = next[next[cur]]]
  /\ linked' = linked \ {next[cur]}
  /\ cur' = next[next[cur]]
  /\ UNCHANGED <<free, asked, pc, bytes>>

\* cur swallows its successor and the pass stays where it is.
Merge ==
  /\ pc = "coalesce" /\ cur # NULL
  /\ BothFree(cur)
  /\ size' = [size EXCEPT ![cur] = @ + HEADER + size[next[cur]]]
  /\ next' = [next EXCEPT ![cur] = next[next[cur]]]
  /\ linked' = linked \ {next[cur]}
  /\ UNCHANGED <<free, asked, pc, cur, bytes>>

\* Mutant: the pass never moves past a pair it does not merge.
Mutant_Pass == FALSE

Pass ==
  /\ pc = "coalesce" /\ cur # NULL /\ next[cur] # NULL
  /\ ~BothFree(cur)
  /\ cur' = next[cur]
  /\ UNCHANGED <<heap, asked, pc, bytes>>

CoalesceDone ==
  /\ pc = "coalesce"
  /\ ~(cur # NULL /\ next[cur] # NULL)
  /\ Return
  /\ UNCHANGED <<heap, asked>>

-----------------------------------------------------------------------------
Step == SearchNext \/ SearchFail \/ Take \/ Merge \/ Pass \/ CoalesceDone

HeapNext ==
  \/ \E n \in Requests : Kmalloc(n)
  \/ \E a \in Addrs : Kfree(a)
  \/ Step

\* A call that has been made runs on; callers are free to make none.
HeapSpec == HeapInit /\ [][HeapNext]_heap_vars /\ WF_heap_vars(Step)

-----------------------------------------------------------------------------
(* Correctness *)

\* The first word after the block at a.
Limit(a) == a + HEADER + size[a]

\* The headers tile the pool: each block ends where the next header on the
\* list begins, the last one at the end of the pool, and no header lies
\* inside another block.  A wrong size in kmalloc's split or kfree's merge
\* loses or doubles memory only after several calls.
Tiling ==
  /\ START \in linked
  /\ \A a \in linked :
       /\ IF next[a] = NULL THEN Limit(a) = END ELSE next[a] \in linked /\ next[a] = Limit(a)
       /\ \A b \in linked : a < b => Limit(a) <= b

\* Outstanding allocations are as large as was asked for and never overlap,
\* each other or a header; and every block that is not free is one that some
\* caller still owns, so nothing is lost.
Payload(a) == (a + HEADER)..(a + HEADER + ((asked[a] + 3) \div 4) - 1)

AllocationsDisjoint ==
  /\ \A a \in linked : free[a] = 0 <=> asked[a] # 0
  /\ \A a \in Addrs : asked[a] # 0 =>
       /\ a \in linked /\ asked[a] <= 4 * size[a]
       /\ \A b \in linked \ {a} : Payload(a) \cap (b..(Limit(b) - 1)) = {}

\* Between calls no two neighbouring blocks are both free.
Coalesced == pc = "idle" => \A a \in linked : ~BothFree(a)

\* When the last allocation is freed the pool is one free block again.
AllFreedRestores ==
  pc = "idle" /\ (\A a \in Addrs : asked[a] = 0) =>
    linked = {START} /\ free[START] = 1 /\ size[START] = POOL - HEADER

\* kmalloc returns NULL only if no free block can hold the rounded request.
FailsOnlyWhenFull ==
  [][pc = "search" /\ cur = NULL => \A a \in linked : ~Fits(a)]_heap_vars

\* Every call returns.
CallsReturn == pc # "idle" ~> pc = "idle"
=============================================================================
