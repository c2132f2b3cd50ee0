----------------------------- MODULE KernelHeap -----------------------------
(***************************************************************************)
(* The kernel heap of src/kernel/mm.c: one fixed region of physical        *)
(* memory, cut into blocks.  A block is a header (heap_block_t: size, next *)
(* and free) followed by size bytes of payload; the headers form a singly  *)
(* linked list that starts at HEAP_START.                                  *)
(*                                                                         *)
(* heap maps the address of each header on that list to its fields.  A     *)
(* header that heap_coalesce drops from the list leaves the domain: the    *)
(* bytes are still in memory, but no walk of the list reads them again.    *)
(***************************************************************************)
EXTENDS Integers, FiniteSets, FiniteSetsExt

CONSTANTS
  HEAP_START,   \* address of the first header
  HEAP_SIZE,    \* bytes in the region, headers included
  HDR,          \* sizeof(heap_block_t): 12 on the i386 target
  WORD          \* 2^32: the sizes are uint32_t

HEAP_END == HEAP_START + HEAP_SIZE

ASSUME HeapAssumption ==
  /\ HEAP_START \in Nat \ {0}
  /\ HEAP_SIZE \in Nat
  /\ HDR \in Nat \ {0}
  /\ WORD \in Nat
  /\ HDR < HEAP_SIZE
  /\ HEAP_SIZE + HDR + 8 < WORD

NULL == 0

VARIABLE heap

BlockEnd(h, a) == a + HDR + h[a].size

(* heap_init: one free block. *)
InitialHeap ==
  [a \in {HEAP_START} |-> [size |-> HEAP_SIZE - HDR, next |-> NULL, free |-> TRUE]]

HeapInit == heap = InitialHeap

-----------------------------------------------------------------------------
(* kmalloc *)

(* Mutant: rounds the request down instead of up. *)
AlignDown(v) == v - (v % 8)

heap_align8(v) == LET w == (v + 7) % WORD IN w - (w % 8)

Fits(h, need) == {a \in DOMAIN h : h[a].free /\ h[a].size >= need}

(* Mutant: the rest of the block starts where its header's bytes are still counted as payload. *)
SplitShort(h, a, need) ==
  LET s == a + HDR + need
  IN  [x \in DOMAIN h \cup {s} |->
         IF x = s THEN [size |-> h[a].size - need, next |-> h[a].next, free |-> TRUE]
         ELSE IF x = a THEN [size |-> need, next |-> s, free |-> FALSE]
         ELSE h[x]]

(* Block a keeps need bytes and a new free block takes the rest. *)
Split(h, a, need) ==
  LET s == a + HDR + need
  IN  [x \in DOMAIN h \cup {s} |->
         IF x = s THEN [size |-> h[a].size - need - HDR, next |-> h[a].next, free |-> TRUE]
         ELSE IF x = a THEN [size |-> need, next |-> s, free |-> FALSE]
         ELSE h[x]]

(* What marking block a as taken leaves of the list. *)
Take(h, a, need) ==
  IF h[a].size >= need + HDR + 8
  THEN Split(h, a, need)
  ELSE [h EXCEPT ![a].free = FALSE]

KmallocFails(h, size) ==
  \/ size = 0
  \/ heap_align8(size) = 0
  \/ heap_align8(size) > HEAP_SIZE
  \/ Fits(h, heap_align8(size)) = {}

(* The walk from heap_head stops at the first block that fits.  The list is *)
(* in address order (HeapTiles), so that block is the lowest one.           *)
kmalloc(h, size) ==
  LET need == heap_align8(size)
      a == Min(Fits(h, need))
  IN  IF KmallocFails(h, size)
      THEN [ptr |-> NULL, heap |-> h]
      ELSE [ptr |-> a + HDR, heap |-> Take(h, a, need)]

-----------------------------------------------------------------------------
(* kfree *)

(* Block a and the block after it are both free and touch. *)
Mergeable(h, a) ==
  /\ h[a].free
  /\ h[a].next # NULL
  /\ h[h[a].next].free
  /\ BlockEnd(h, a) = h[a].next

(* The last block of the run of mergeable blocks that starts at a. *)
RunEnd(h, a) == Min({b \in DOMAIN h : b >= a /\ ~Mergeable(h, b)})

(* Mutant: one pass that merges a block with its neighbour and moves on. *)
CoalescePairs(h) ==
  LET absorbed == {h[a].next : a \in {b \in DOMAIN h : Mergeable(h, b)
                      /\ ~\E c \in DOMAIN h : h[c].next = b /\ Mergeable(h, c)}}
  IN  [a \in DOMAIN h \ absorbed |->
         IF h[a].next \in absorbed
         THEN [size |-> h[a].size + HDR + h[h[a].next].size,
               next |-> h[h[a].next].next, free |-> TRUE]
         ELSE h[a]]

(* The walk merges every run of touching free blocks into the run's first  *)
(* block.                                                                  *)
heap_coalesce(h) ==
  LET absorbed == {h[a].next : a \in {b \in DOMAIN h : Mergeable(h, b)}}
  IN  [a \in DOMAIN h \ absorbed |->
         LET e == RunEnd(h, a)
         IN  [size |-> e + h[e].size - a, next |-> h[e].next, free |-> h[a].free]]

(* Mutant: the freed block is left where it is. *)
KfreeNoCoalesce(h, p) ==
  IF p < HEAP_START + HDR \/ p >= HEAP_END
  THEN h
  ELSE [h EXCEPT ![p - HDR].free = TRUE]

(* Pointers outside the region are ignored.  A pointer inside it is taken  *)
(* to be one kmalloc returned: kfree looks for no header on the list.      *)
kfree(h, p) ==
  IF p < HEAP_START + HDR \/ p >= HEAP_END
  THEN h
  ELSE heap_coalesce([h EXCEPT ![p - HDR].free = TRUE])

-----------------------------------------------------------------------------
(* The statistics that kstats and top print. *)

kheap_used_bytes ==
  MapThenSumSet(LAMBDA a : heap[a].size, {a \in DOMAIN heap : ~heap[a].free})

kheap_free_bytes ==
  MapThenSumSet(LAMBDA a : heap[a].size, {a \in DOMAIN heap : heap[a].free})

-----------------------------------------------------------------------------
(* The headers lie inside the region and link to each other. *)
Typed(h) ==
  /\ DOMAIN h \subseteq HEAP_START .. (HEAP_END - HDR)
  /\ h \in [DOMAIN h -> [size : Nat, next : {NULL} \cup DOMAIN h, free : BOOLEAN]]

(* The blocks cover the region exactly: the list starts at HEAP_START,     *)
(* each block ends where the next header starts, the last one at HEAP_END. *)
Tiles(h) ==
  /\ HEAP_START \in DOMAIN h
  /\ \A a \in DOMAIN h :
       /\ BlockEnd(h, a) = (IF h[a].next = NULL THEN HEAP_END ELSE h[a].next)
       /\ \A b \in DOMAIN h : b > a => BlockEnd(h, a) <= b

(* No two touching blocks are both free. *)
Coalesced(h) == \A a \in DOMAIN h : ~Mergeable(h, a)

(* After every kmalloc and every kfree the list tiles the region and is    *)
(* fully coalesced: the walks of kmalloc, kfree and the statistics end,    *)
(* and no byte of the region is lost or counted twice.                     *)
HeapInv == Typed(heap) /\ Tiles(heap) /\ Coalesced(heap)
=============================================================================
