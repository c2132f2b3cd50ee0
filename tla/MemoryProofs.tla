---------------------------- MODULE MemoryProofs ----------------------------
(***************************************************************************)
(* The kernel's memory, for every heap size, header size, page size,       *)
(* amount of memory and structure size.                                    *)
(*                                                                         *)
(* The heap under any sequence of requests stays tiled and coalesced       *)
(* (HeapSafe), no caller's memory overlaps another's or a header           *)
(* (CallersSafe), and a request is refused only when no free stretch could *)
(* hold it (RefusesOnlyWhenFull).  The byte counts are exact (CountsExact) *)
(* and merging whole runs is what the loop does (LoopIsCoalesce).          *)
(*                                                                         *)
(* The page allocator keeps its count and its reservation under any caller *)
(* (PmmSafe).  Under every sequence of create_process, yield and           *)
(* scheduler_kill the process structures form one ring, each is a heap     *)
(* block of its own, each process has a stack page of its own, and the     *)
(* processor goes round.                                                   *)
(***************************************************************************)
EXTENDS Scheduler, HeapClients, FiniteSetTheorems, WellFoundedInduction, TLAPS

-----------------------------------------------------------------------------
(* What kmalloc and kfree do to any block list that tiles the region: the  *)
(* facts that the proofs about the heap's callers rest on.                 *)

(* A non-empty set of natural numbers has a least element, and Min is it.  *)
LEMMA MinOfNats ==
  ASSUME NEW S \in SUBSET Nat, S # {}
  PROVE  Min(S) \in S /\ \A y \in S : Min(S) <= y
<1>. DEFINE R == OpToRel(<, Nat)
<1>1. IsWellFoundedOn(R, Nat)
  BY NatLessThanWellFounded
<1>2. \A a, b \in Nat : a < b => <<a, b>> \in R
  BY DEF OpToRel
<1>. HIDE DEF R
<1>3. PICK x \in S : \A y \in S : ~ (<<y, x>> \in R)
  BY <1>1, WFMin
<1>4. ASSUME NEW y \in S
      PROVE  x <= y
  <2>1. x \in Nat /\ y \in Nat
    OBVIOUS
  <2>2. ~ (y < x)
    BY <1>2, <1>3, <2>1
  <2>. QED
    BY <2>1, <2>2
<1>. QED
  BY <1>4 DEF Min

(* A non-empty set of natural numbers below a bound has a greatest one.    *)
LEMMA GreatestBelow ==
  ASSUME NEW n \in Nat, NEW S \in SUBSET (0 .. n), S # {}
  PROVE  \E m \in S : \A y \in S : y <= m
<1>. DEFINE T == {n - y : y \in S}
<1>1. T \in SUBSET Nat /\ T # {}
  <2>1. ASSUME NEW y \in S PROVE n - y \in Nat
    OBVIOUS
  <2>2. T # {}
    <3>1. PICK y : y \in S
      OBVIOUS
    <3>2. n - y \in T
      BY <3>1
    <3>. QED
      BY <3>2
  <2>. QED
    BY <2>1, <2>2
<1>2. PICK t \in T : \A u \in T : t <= u
  BY <1>1, MinOfNats
<1>3. PICK m \in S : t = n - m
  BY <1>2
<1>4. ASSUME NEW y \in S
      PROVE  y <= m
  <2>1. n - m <= n - y
    BY <1>2, <1>3
  <2>2. m \in Nat /\ y \in Nat
    OBVIOUS
  <2>. QED
    BY <2>1, <2>2
<1>. QED
  BY <1>4

-----------------------------------------------------------------------------
(* The numbers in a well-typed list. *)
LEMMA Numbers ==
  ASSUME NEW h, Typed(h), NEW a \in DOMAIN h
  PROVE  /\ a \in Nat /\ a >= HEAP_START /\ a + HDR <= HEAP_END
         /\ h[a].size \in Nat
         /\ h[a].next = NULL \/ h[a].next \in DOMAIN h
         /\ h[a].free \in BOOLEAN
         /\ BlockEnd(h, a) \in Nat
         /\ BlockEnd(h, a) >= a + HDR
         /\ a # NULL
<1>1. a \in HEAP_START .. (HEAP_END - HDR)
  BY DEF Typed
<1>2. h[a] \in [size : Nat, next : {NULL} \cup DOMAIN h, free : BOOLEAN]
  BY DEF Typed
<1>. QED
  BY <1>1, <1>2, HeapAssumption DEF HEAP_END, NULL, BlockEnd

LEMMA Constants ==
  /\ HEAP_START \in Nat /\ HEAP_START > 0
  /\ HEAP_END \in Nat
  /\ HDR \in Nat /\ HDR > 0
  /\ NULL = 0
  /\ HEAP_END = HEAP_START + HEAP_SIZE
  /\ HEAP_SIZE \in Nat /\ HEAP_SIZE > HDR
  BY HeapAssumption DEF HEAP_END, NULL

(* Every block ends inside the region. *)
LEMMA EndsInside ==
  ASSUME NEW h, Typed(h), Tiles(h), NEW a \in DOMAIN h
  PROVE  BlockEnd(h, a) <= HEAP_END
<1>1. CASE h[a].next = NULL
  BY <1>1, Constants DEF Tiles
<1>2. CASE h[a].next # NULL
  <2>1. h[a].next \in DOMAIN h
    BY <1>2, Numbers
  <2>2. h[a].next \in Nat /\ h[a].next + HDR <= HEAP_END
    BY <2>1, Numbers
  <2>. QED
    BY <1>2, <2>2, Constants DEF Tiles
<1>. QED
  BY <1>1, <1>2

(* Every block but the first is the next of one before it. *)
LEMMA Predecessor ==
  ASSUME NEW h, Typed(h), Tiles(h), NEW b \in DOMAIN h, b # HEAP_START
  PROVE  \E c \in DOMAIN h :
           /\ c < b
           /\ h[c].next = b
           /\ \A x \in DOMAIN h : x < b => x <= c
<1>. DEFINE S == {x \in DOMAIN h : x < b}
<1>1. b \in Nat /\ b > HEAP_START /\ b + HDR <= HEAP_END
  BY Numbers, Constants
<1>2. S # {}
  BY <1>1 DEF Tiles
<1>3. S \in SUBSET (0 .. HEAP_END)
  <2>. SUFFICES ASSUME NEW x \in S PROVE x \in 0 .. HEAP_END
    OBVIOUS
  <2>. QED
    BY Numbers, Constants
<1>4. PICK c \in S : \A x \in S : x <= c
  BY <1>2, <1>3, GreatestBelow, Constants
<1>5. BlockEnd(h, c) <= b /\ BlockEnd(h, c) > c /\ c \in Nat /\ BlockEnd(h, c) \in Nat
  BY <1>1, <1>4, Numbers, Constants DEF Tiles
<1>6. h[c].next # NULL
  BY <1>1, <1>5, Constants DEF Tiles
<1>7. h[c].next \in DOMAIN h /\ h[c].next = BlockEnd(h, c)
  BY <1>6, Numbers DEF Tiles
<1>8. h[c].next = b
  BY <1>1, <1>4, <1>5, <1>7
<1>. QED
  BY <1>4, <1>8

-----------------------------------------------------------------------------
(* heap_init leaves one free block that covers the region. *)
LEMMA InitialSound ==
  Typed(InitialHeap) /\ Tiles(InitialHeap) /\ Coalesced(InitialHeap)
<1>. DEFINE h == InitialHeap
<1>1. /\ DOMAIN h = {HEAP_START}
      /\ h[HEAP_START] = [size |-> HEAP_SIZE - HDR, next |-> NULL, free |-> TRUE]
      /\ h = [a \in DOMAIN h |-> h[a]]
  BY DEF InitialHeap
<1>. HIDE DEF h
<1>2. HEAP_SIZE - HDR \in Nat
  BY Constants
<1>3. Typed(h)
  <2>1. DOMAIN h \subseteq HEAP_START .. (HEAP_END - HDR)
    BY <1>1, Constants
  <2>2. \A a \in DOMAIN h : h[a] \in [size : Nat, next : {NULL} \cup DOMAIN h, free : BOOLEAN]
    <3>1. \A n \in Nat : [size |-> n, next |-> NULL, free |-> TRUE] \in
                            [size : Nat, next : {NULL} \cup DOMAIN h, free : BOOLEAN]
      OBVIOUS
    <3>2. h[HEAP_START] \in [size : Nat, next : {NULL} \cup DOMAIN h, free : BOOLEAN]
      BY <1>1, <1>2, <3>1
    <3>. QED
      BY <1>1, <3>2
  <2>. QED
    BY <1>1, <2>1, <2>2 DEF Typed
<1>4. Tiles(h)
  BY <1>1, Constants DEF Tiles, BlockEnd
<1>5. Coalesced(h)
  BY <1>1 DEF Coalesced, Mergeable
<1>. QED
  BY <1>3, <1>4, <1>5 DEF h

-----------------------------------------------------------------------------
(* kmalloc *)

(* Rounding up never shrinks a request, unless it wraps, and then the      *)
(* result is 0, which kmalloc refuses.                                     *)
LEMMA AlignUp ==
  ASSUME NEW v \in 0 .. (WORD - 1), heap_align8(v) # 0
  PROVE  heap_align8(v) \in Nat /\ heap_align8(v) >= v
<1>1. v \in Nat /\ WORD \in Nat /\ v < WORD /\ WORD > 8
  BY HeapAssumption
<1>2. CASE v + 7 < WORD
  <2>1. (v + 7) % WORD = v + 7
    BY <1>1, <1>2
  <2>. QED
    BY <1>1, <2>1 DEF heap_align8
<1>3. CASE ~ (v + 7 < WORD)
  <2>1. (v + 7) % WORD = v + 7 - WORD
    BY <1>1, <1>3
  <2>2. v + 7 - WORD \in 0 .. 6
    BY <1>1, <1>3
  <2>3. heap_align8(v) = 0
    BY <2>1, <2>2 DEF heap_align8
  <2>. QED
    BY <2>3
<1>. QED
  BY <1>2, <1>3

(* Giving a free block away, whole or cut in two, keeps the region tiled   *)
(* and coalesced.                                                          *)
LEMMA TakeSound ==
  ASSUME NEW h, Typed(h), Tiles(h), Coalesced(h),
         NEW need \in Nat, NEW a \in DOMAIN h, h[a].free, h[a].size >= need
  PROVE  LET g == Take(h, a, need)
         IN  /\ Typed(g) /\ Tiles(g) /\ Coalesced(g)
             /\ DOMAIN h \subseteq DOMAIN g
             /\ ~g[a].free /\ g[a].size >= need
             /\ \A x \in DOMAIN h \ {a} : g[x] = h[x]
             /\ \A x \in DOMAIN g \ DOMAIN h : g[x].free
<1>. DEFINE g == Take(h, a, need)
            s == a + HDR + need
<1>1. \A x \in DOMAIN h :
         /\ x \in Nat /\ x >= HEAP_START /\ x + HDR <= HEAP_END
         /\ h[x].size \in Nat
         /\ h[x].next = NULL \/ h[x].next \in DOMAIN h
         /\ h[x].free \in BOOLEAN
         /\ BlockEnd(h, x) \in Nat
         /\ BlockEnd(h, x) >= x + HDR
         /\ BlockEnd(h, x) <= HEAP_END
         /\ BlockEnd(h, x) = x + HDR + h[x].size
         /\ x # NULL
  BY Numbers, EndsInside DEF BlockEnd
<1>2. \A x \in DOMAIN h :
         /\ BlockEnd(h, x) = (IF h[x].next = NULL THEN HEAP_END ELSE h[x].next)
         /\ \A y \in DOMAIN h : y > x => BlockEnd(h, x) <= y
  BY DEF Tiles
<1>3. \A x \in DOMAIN h : h[x] \in [size : Nat, next : {NULL} \cup DOMAIN h, free : BOOLEAN]
  BY DEF Typed
<1>4. CASE h[a].size >= need + HDR + 8
  <2>1. g = Split(h, a, need)
    BY <1>4 DEF Take
  <2>2. /\ DOMAIN g = DOMAIN h \cup {s}
        /\ s \notin DOMAIN h
        /\ s \in Nat /\ s > a /\ s >= HEAP_START /\ s + HDR <= BlockEnd(h, a)
        /\ s # NULL /\ s # a
    <3>1. DOMAIN g = DOMAIN h \cup {s}
      BY <2>1 DEF Split
    <3>2. s \in Nat /\ s > a /\ s + HDR <= BlockEnd(h, a)
      BY <1>1, <1>4, Constants
    <3>3. s \notin DOMAIN h
      BY <1>1, <1>2, <3>2, Constants
    <3>. QED
      BY <1>1, <3>1, <3>2, <3>3, Constants
  <2>3. /\ g[s] = [size |-> h[a].size - need - HDR, next |-> h[a].next, free |-> TRUE]
        /\ g[a] = [size |-> need, next |-> s, free |-> FALSE]
        /\ \A x \in DOMAIN h \ {a} : g[x] = h[x]
    BY <2>1, <2>2 DEF Split
  <2>. HIDE DEF g, s
  <2>4. /\ BlockEnd(g, s) = BlockEnd(h, a)
        /\ BlockEnd(g, a) = s
        /\ \A x \in DOMAIN h \ {a} : BlockEnd(g, x) = BlockEnd(h, x)
    <3>1. BlockEnd(g, s) = s + HDR + (h[a].size - need - HDR)
      BY <2>3 DEF BlockEnd
    <3>2. BlockEnd(g, a) = a + HDR + need
      BY <2>3 DEF BlockEnd
    <3>3. \A x \in DOMAIN h \ {a} : BlockEnd(g, x) = BlockEnd(h, x)
      BY <2>3 DEF BlockEnd
    <3>. QED
      BY <1>1, <3>1, <3>2, <3>3, Constants DEF s
  <2>5. Typed(g)
    <3>1. DOMAIN g \subseteq HEAP_START .. (HEAP_END - HDR)
      BY <1>1, <2>2, Constants
    <3>2. \A x \in DOMAIN g : g[x] \in [size : Nat, next : {NULL} \cup DOMAIN g, free : BOOLEAN]
      <4>1. h[a].size - need - HDR \in Nat
        BY <1>1, <1>4, Constants
      <4>2. g[s] \in [size : Nat, next : {NULL} \cup DOMAIN g, free : BOOLEAN]
        <5>1. h[a].next \in {NULL} \cup DOMAIN g
          BY <1>1, <2>2
        <5>. QED
          BY <2>3, <4>1, <5>1
      <4>3. g[a] \in [size : Nat, next : {NULL} \cup DOMAIN g, free : BOOLEAN]
        BY <2>2, <2>3
      <4>4. \A x \in DOMAIN h \ {a} :
              g[x] \in [size : Nat, next : {NULL} \cup DOMAIN g, free : BOOLEAN]
        BY <1>3, <2>2, <2>3
      <4>. QED
        BY <2>2, <4>2, <4>3, <4>4
    <3>3. g = [x \in DOMAIN g |-> g[x]]
      BY DEF g, Take, Split
    <3>. QED
      BY <3>1, <3>2, <3>3 DEF Typed
  <2>6. Tiles(g)
    <3>1. HEAP_START \in DOMAIN g
      BY <2>2 DEF Tiles
    <3>2. \A x \in DOMAIN g :
             BlockEnd(g, x) = (IF g[x].next = NULL THEN HEAP_END ELSE g[x].next)
      BY <1>2, <2>2, <2>3, <2>4
    <3>3. \A x, y \in DOMAIN g : y > x => BlockEnd(g, x) <= y
      BY <1>1, <1>2, <2>2, <2>4, Constants
    <3>. QED
      BY <3>1, <3>2, <3>3 DEF Tiles
  <2>7. Coalesced(g)
    <3>. SUFFICES ASSUME NEW x \in DOMAIN g, Mergeable(g, x) PROVE FALSE
      BY DEF Coalesced
    <3>1. g[x].free /\ g[x].next # NULL /\ g[g[x].next].free
      BY DEF Mergeable
    <3>2. CASE x = s
      <4>1. h[a].next # NULL /\ h[a].next \in DOMAIN h
        BY <1>1, <2>3, <3>1, <3>2
      <4>2. h[a].next # a
        BY <1>1, <1>2, <4>1, Constants
      <4>3. h[h[a].next].free
        BY <2>3, <3>1, <3>2, <4>1, <4>2
      <4>. QED
        BY <1>2, <4>1, <4>3 DEF Coalesced, Mergeable
    <3>3. CASE x = a
      BY <2>3, <3>1, <3>3
    <3>4. CASE x \in DOMAIN h \ {a}
      <4>1. h[x].free /\ h[x].next # NULL /\ h[x].next \in DOMAIN h
        BY <1>1, <2>3, <3>1, <3>4
      <4>2. g[h[x].next].free
        BY <2>3, <3>1, <3>4
      <4>3. h[x].next # a
        BY <2>3, <4>2
      <4>4. h[h[x].next].free
        BY <2>3, <4>1, <4>2, <4>3
      <4>. QED
        BY <1>2, <3>4, <4>1, <4>4 DEF Coalesced, Mergeable
    <3>. QED
      BY <2>2, <3>2, <3>3, <3>4
  <2>8. ~g[a].free /\ g[a].size >= need
    BY <2>3
  <2>9. \A x \in DOMAIN g \ DOMAIN h : g[x].free
    BY <2>2, <2>3
  <2>. QED
    BY <2>2, <2>3, <2>5, <2>6, <2>7, <2>8, <2>9 DEF g
<1>5. CASE ~ (h[a].size >= need + HDR + 8)
  <2>1. g = [h EXCEPT ![a].free = FALSE]
    BY <1>5 DEF Take
  <2>. HIDE DEF g
  <2>2. /\ DOMAIN g = DOMAIN h
        /\ \A x \in DOMAIN h \ {a} : g[x] = h[x]
        /\ g[a] = [h[a] EXCEPT !.free = FALSE]
    BY <2>1
  <2>3. \A x \in DOMAIN h : /\ g[x].size = h[x].size
                            /\ g[x].next = h[x].next
                            /\ g[x].free => h[x].free
                            /\ BlockEnd(g, x) = BlockEnd(h, x)
                            /\ g[x] \in [size : Nat, next : {NULL} \cup DOMAIN h, free : BOOLEAN]
    BY <1>3, <2>2 DEF BlockEnd
  <2>4. Typed(g)
    <3>1. g = [x \in DOMAIN g |-> g[x]]
      BY <2>1, <2>2
    <3>. QED
      BY <2>2, <2>3, <3>1 DEF Typed
  <2>5. Tiles(g)
    BY <2>2, <2>3 DEF Tiles
  <2>6. Coalesced(g)
    <3>. SUFFICES ASSUME NEW x \in DOMAIN g, Mergeable(g, x) PROVE FALSE
      BY DEF Coalesced
    <3>1. h[x].next # NULL /\ h[x].next \in DOMAIN h
      BY <1>1, <2>2, <2>3 DEF Mergeable
    <3>2. Mergeable(h, x)
      BY <2>2, <2>3, <3>1 DEF Mergeable
    <3>. QED
      BY <2>2, <3>2 DEF Coalesced
  <2>7. ~g[a].free /\ g[a].size >= need
    BY <1>3, <2>2
  <2>. QED
    BY <2>2, <2>4, <2>5, <2>6, <2>7 DEF g
<1>. QED
  BY <1>1, <1>4, <1>5, Constants

(* kmalloc fails and changes nothing, or gives away a block that was free  *)
(* and is large enough, and touches no other block.                        *)
LEMMA KmallocSound ==
  ASSUME NEW h, Typed(h), Tiles(h), Coalesced(h), NEW size \in 0 .. (WORD - 1)
  PROVE  LET r == kmalloc(h, size)
         IN  \/ r.ptr = NULL /\ r.heap = h
             \/ \E a \in DOMAIN h :
                  /\ h[a].free
                  /\ r.ptr = a + HDR /\ r.ptr # NULL
                  /\ Typed(r.heap) /\ Tiles(r.heap) /\ Coalesced(r.heap)
                  /\ DOMAIN h \subseteq DOMAIN r.heap
                  /\ ~r.heap[a].free /\ r.heap[a].size >= size /\ size > 0
                  /\ \A x \in DOMAIN h \ {a} : r.heap[x] = h[x]
                  /\ \A x \in DOMAIN r.heap \ DOMAIN h : r.heap[x].free
<1>. DEFINE need == heap_align8(size)
            r == kmalloc(h, size)
            a == Min(Fits(h, need))
<1>1. CASE KmallocFails(h, size)
  BY <1>1 DEF kmalloc
<1>2. CASE ~KmallocFails(h, size)
  <2>1. size # 0 /\ need # 0 /\ Fits(h, need) # {}
    BY <1>2 DEF KmallocFails
  <2>2. need \in Nat /\ need >= size
    BY <2>1, AlignUp
  <2>3. Fits(h, need) \in SUBSET Nat
    BY Numbers DEF Fits
  <2>4. a \in Fits(h, need)
    BY <2>1, <2>3, MinOfNats
  <2>5. a \in DOMAIN h /\ h[a].free /\ h[a].size >= need
    BY <2>4 DEF Fits
  <2>6. r.ptr = a + HDR /\ r.heap = Take(h, a, need)
    BY <1>2 DEF kmalloc
  <2>7. a + HDR # NULL /\ size > 0
    BY <2>1, <2>5, Numbers, Constants, HeapAssumption
  <2>. HIDE DEF need, r, a
  <2>8. /\ Typed(r.heap) /\ Tiles(r.heap) /\ Coalesced(r.heap)
        /\ DOMAIN h \subseteq DOMAIN r.heap
        /\ ~r.heap[a].free /\ r.heap[a].size >= need
        /\ \A x \in DOMAIN h \ {a} : r.heap[x] = h[x]
        /\ \A x \in DOMAIN r.heap \ DOMAIN h : r.heap[x].free
    BY <2>2, <2>5, <2>6, TakeSound
  <2>9. r.heap[a].size >= size
    <3>1. a \in DOMAIN r.heap
      BY <2>5, <2>8
    <3>2. r.heap[a].size \in Nat
      BY <2>8, <3>1, Numbers
    <3>3. size \in Nat
      BY HeapAssumption
    <3>. QED
      BY <2>2, <2>8, <3>2, <3>3
  <2>. QED
    BY <2>5, <2>6, <2>7, <2>8, <2>9 DEF r
<1>. QED
  BY <1>1, <1>2

-----------------------------------------------------------------------------
(* kfree *)

(* A run of mergeable blocks ends: RunEnd is the first block from a on     *)
(* that the walk cannot merge with its successor.                          *)
LEMMA RunEnds ==
  ASSUME NEW h, Typed(h), Tiles(h), NEW a \in DOMAIN h
  PROVE  /\ RunEnd(h, a) \in DOMAIN h
         /\ RunEnd(h, a) >= a
         /\ ~Mergeable(h, RunEnd(h, a))
         /\ \A b \in DOMAIN h : a <= b /\ b < RunEnd(h, a) => Mergeable(h, b)
<1>. DEFINE S == {b \in DOMAIN h : b >= a /\ ~Mergeable(h, b)}
<1>1. DOMAIN h \in SUBSET (0 .. HEAP_END)
  <2>. SUFFICES ASSUME NEW x \in DOMAIN h PROVE x \in 0 .. HEAP_END
    OBVIOUS
  <2>. QED
    BY Numbers, Constants
<1>2. PICK m \in DOMAIN h : \A y \in DOMAIN h : y <= m
  BY <1>1, GreatestBelow, Constants
<1>3. ~Mergeable(h, m)
  <2>. SUFFICES ASSUME Mergeable(h, m) PROVE FALSE
    OBVIOUS
  <2>1. h[m].next \in DOMAIN h /\ h[m].next = BlockEnd(h, m)
    BY Numbers DEF Mergeable
  <2>. QED
    BY <1>2, <2>1, Numbers, Constants
<1>4. m \in S
  BY <1>2, <1>3, Numbers
<1>5. S \in SUBSET Nat
  BY <1>1, Constants
<1>6. Min(S) \in S /\ \A y \in S : Min(S) <= y
  BY <1>4, <1>5, MinOfNats
<1>7. RunEnd(h, a) = Min(S)
  BY DEF RunEnd
<1>8. ASSUME NEW b \in DOMAIN h, a <= b, b < RunEnd(h, a)
      PROVE  Mergeable(h, b)
  <2>1. b \in Nat /\ RunEnd(h, a) \in Nat /\ a \in Nat
    BY <1>6, <1>7, Numbers
  <2>2. b \notin S
    BY <1>6, <1>7, <1>8, <2>1
  <2>. QED
    BY <1>8, <2>1, <2>2
<1>. QED
  BY <1>6, <1>7, <1>8

(* heap_coalesce keeps the region tiled, merges all that can be merged,    *)
(* and leaves every block that is in use where and as it was.              *)
LEMMA CoalesceSound ==
  ASSUME NEW h, Typed(h), Tiles(h)
  PROVE  LET g == heap_coalesce(h)
         IN  /\ Typed(g) /\ Tiles(g) /\ Coalesced(g)
             /\ DOMAIN g \subseteq DOMAIN h
             /\ \A x \in DOMAIN h : ~h[x].free => x \in DOMAIN g /\ g[x] = h[x]
             /\ \A x \in DOMAIN g : g[x].free = h[x].free
<1>. DEFINE g == heap_coalesce(h)
            absorbed == {h[x].next : x \in {b \in DOMAIN h : Mergeable(h, b)}}
            E(x) == RunEnd(h, x)
<1>1. \A x \in DOMAIN h :
         /\ x \in Nat /\ x >= HEAP_START /\ x + HDR <= HEAP_END
         /\ h[x].size \in Nat
         /\ h[x].next = NULL \/ h[x].next \in DOMAIN h
         /\ h[x].free \in BOOLEAN
         /\ BlockEnd(h, x) \in Nat
         /\ BlockEnd(h, x) >= x + HDR
         /\ BlockEnd(h, x) <= HEAP_END
         /\ BlockEnd(h, x) = x + HDR + h[x].size
         /\ x # NULL
  BY Numbers, EndsInside DEF BlockEnd
<1>2. \A x \in DOMAIN h :
         /\ BlockEnd(h, x) = (IF h[x].next = NULL THEN HEAP_END ELSE h[x].next)
         /\ \A y \in DOMAIN h : y > x => BlockEnd(h, x) <= y
  BY DEF Tiles
<1>3. \A x \in DOMAIN h :
         /\ E(x) \in DOMAIN h /\ E(x) >= x /\ ~Mergeable(h, E(x))
         /\ \A b \in DOMAIN h : x <= b /\ b < E(x) => Mergeable(h, b)
  BY RunEnds
<1>4. /\ DOMAIN g = DOMAIN h \ absorbed
      /\ \A x \in DOMAIN g :
           g[x] = [size |-> E(x) + h[E(x)].size - x, next |-> h[E(x)].next, free |-> h[x].free]
  BY DEF heap_coalesce
<1>5. g = [x \in DOMAIN g |-> g[x]]
  BY DEF heap_coalesce
<1>6. \A b \in absorbed : \E c \in DOMAIN h : Mergeable(h, c) /\ h[c].next = b
  OBVIOUS
<1>7. \A c \in DOMAIN h : Mergeable(h, c) => h[c].next \in absorbed
  OBVIOUS
<1>. HIDE DEF g, absorbed, E
<1>8. \A x \in DOMAIN g :
         /\ x \in DOMAIN h
         /\ g[x].size = E(x) + h[E(x)].size - x
         /\ g[x].size \in Nat
         /\ g[x].next = h[E(x)].next
         /\ g[x].free = h[x].free
         /\ BlockEnd(g, x) = BlockEnd(h, E(x))
  <2>. SUFFICES ASSUME NEW x \in DOMAIN g
                PROVE  /\ x \in DOMAIN h
                       /\ g[x].size = E(x) + h[E(x)].size - x
                       /\ g[x].size \in Nat
                       /\ g[x].next = h[E(x)].next
                       /\ g[x].free = h[x].free
                       /\ BlockEnd(g, x) = BlockEnd(h, E(x))
    OBVIOUS
  <2>1. x \in DOMAIN h /\ E(x) \in DOMAIN h /\ E(x) >= x
    BY <1>3, <1>4
  <2>2. /\ g[x].size = E(x) + h[E(x)].size - x
        /\ g[x].next = h[E(x)].next
        /\ g[x].free = h[x].free
    BY <1>4
  <2>3. g[x].size \in Nat
    BY <1>1, <2>1, <2>2
  <2>4. BlockEnd(g, x) = BlockEnd(h, E(x))
    <3>1. BlockEnd(g, x) = x + HDR + (E(x) + h[E(x)].size - x)
      BY <2>2 DEF BlockEnd
    <3>. QED
      BY <1>1, <2>1, <3>1, Constants
  <2>. QED
    BY <2>1, <2>2, <2>3, <2>4
\* The end of a run is followed by no absorbed block.
<1>9. \A x \in DOMAIN h : h[E(x)].next \notin absorbed
  <2>. SUFFICES ASSUME NEW x \in DOMAIN h, h[E(x)].next \in absorbed PROVE FALSE
    OBVIOUS
  <2>1. PICK c \in DOMAIN h : Mergeable(h, c) /\ h[c].next = h[E(x)].next
    BY <1>6
  <2>2. BlockEnd(h, c) = h[c].next /\ h[c].next # NULL
    BY <2>1 DEF Mergeable
  <2>3. E(x) \in DOMAIN h /\ ~Mergeable(h, E(x))
    BY <1>3
  <2>4. BlockEnd(h, E(x)) = BlockEnd(h, c)
    BY <1>2, <2>1, <2>2, <2>3
  <2>5. c = E(x)
    BY <1>1, <1>2, <2>3, <2>4, Constants
  <2>. QED
    BY <2>1, <2>3, <2>5
<1>10. HEAP_START \in DOMAIN g
  <2>1. HEAP_START \in DOMAIN h
    BY DEF Tiles
  <2>2. HEAP_START \notin absorbed
    <3>. SUFFICES ASSUME NEW c \in DOMAIN h, Mergeable(h, c), h[c].next = HEAP_START
                  PROVE  FALSE
      BY <1>6
    <3>1. BlockEnd(h, c) = HEAP_START
      BY DEF Mergeable
    <3>. QED
      BY <1>1, <3>1, Constants
  <2>. QED
    BY <1>4, <2>1, <2>2
\* A block inside a run, past its first one, is absorbed.
<1>11. ASSUME NEW x \in DOMAIN h, NEW b \in DOMAIN h, b > x, b <= E(x)
       PROVE  \E c \in DOMAIN h : Mergeable(h, c) /\ h[c].next = b
  <2>1. b # HEAP_START /\ x \in Nat /\ b \in Nat /\ E(x) \in Nat
    BY <1>1, <1>3, <1>11, Constants
  <2>2. PICK c \in DOMAIN h : c < b /\ h[c].next = b /\ \A y \in DOMAIN h : y < b => y <= c
    BY <2>1, Predecessor
  <2>3. x <= c /\ c < E(x)
    BY <1>1, <1>11, <2>1, <2>2
  <2>. QED
    BY <1>3, <2>2, <2>3
<1>12. Typed(g)
  <2>1. DOMAIN g \subseteq HEAP_START .. (HEAP_END - HDR)
    BY <1>4 DEF Typed
  <2>2. \A x \in DOMAIN g : g[x] \in [size : Nat, next : {NULL} \cup DOMAIN g, free : BOOLEAN]
    <3>. SUFFICES ASSUME NEW x \in DOMAIN g
                  PROVE  g[x] \in [size : Nat, next : {NULL} \cup DOMAIN g, free : BOOLEAN]
      OBVIOUS
    <3>1. h[E(x)].next \in {NULL} \cup DOMAIN g
      BY <1>1, <1>3, <1>4, <1>9
    <3>2. E(x) + h[E(x)].size - x \in Nat /\ h[x].free \in BOOLEAN
      BY <1>1, <1>8
    <3>. QED
      BY <1>4, <3>1, <3>2
  <2>. QED
    BY <1>5, <2>1, <2>2 DEF Typed
<1>13. Tiles(g)
  <2>1. \A x \in DOMAIN g :
           BlockEnd(g, x) = (IF g[x].next = NULL THEN HEAP_END ELSE g[x].next)
    BY <1>2, <1>3, <1>8
  <2>2. ASSUME NEW x \in DOMAIN g, NEW b \in DOMAIN g, b > x
        PROVE  BlockEnd(g, x) <= b
    <3>1. x \in DOMAIN h /\ b \in DOMAIN h /\ b \notin absorbed
      BY <1>4
    <3>2. ~ (b <= E(x))
      BY <1>7, <1>11, <2>2, <3>1
    <3>3. b > E(x)
      BY <1>1, <1>3, <3>1, <3>2
    <3>. QED
      BY <1>2, <1>3, <1>8, <3>1, <3>3
  <2>. QED
    BY <1>10, <2>1, <2>2 DEF Tiles
<1>14. Coalesced(g)
  <2>. SUFFICES ASSUME NEW x \in DOMAIN g, Mergeable(g, x) PROVE FALSE
    BY DEF Coalesced
  <2>1. /\ g[x].free /\ g[x].next # NULL /\ g[g[x].next].free
        /\ BlockEnd(g, x) = g[x].next
    BY DEF Mergeable
  <2>2. x \in DOMAIN h /\ E(x) \in DOMAIN h /\ ~Mergeable(h, E(x)) /\ h[x].free
    BY <1>3, <1>8, <2>1
  <2>3. h[E(x)].next \in DOMAIN g /\ h[E(x)].next # NULL
    BY <1>1, <1>4, <1>8, <1>9, <2>1, <2>2
  <2>4. h[h[E(x)].next].free
    BY <1>8, <2>1, <2>3
  <2>5. h[E(x)].free
    <3>1. CASE E(x) = x
      BY <2>2, <3>1
    <3>2. CASE E(x) # x
      <4>1. E(x) > x /\ E(x) <= E(x)
        BY <1>1, <1>3, <2>2, <3>2
      <4>2. PICK c \in DOMAIN h : Mergeable(h, c) /\ h[c].next = E(x)
        BY <1>11, <2>2, <4>1
      <4>. QED
        BY <4>2 DEF Mergeable
    <3>. QED
      BY <3>1, <3>2
  <2>6. BlockEnd(h, E(x)) = h[E(x)].next
    BY <1>8, <2>1
  <2>. QED
    BY <2>2, <2>3, <2>4, <2>5, <2>6 DEF Mergeable
<1>15. ASSUME NEW x \in DOMAIN h, ~h[x].free
       PROVE  x \in DOMAIN g /\ g[x] = h[x]
  <2>1. x \notin absorbed
    <3>. SUFFICES ASSUME NEW c \in DOMAIN h, Mergeable(h, c), h[c].next = x PROVE FALSE
      BY <1>6
    <3>. QED
      BY <1>15 DEF Mergeable
  <2>2. x \in DOMAIN g
    BY <1>4, <2>1
  <2>3. E(x) = x
    <3>1. ~Mergeable(h, x)
      BY <1>15 DEF Mergeable
    <3>2. ~ (x < E(x))
      BY <1>1, <1>3, <3>1
    <3>. QED
      BY <1>1, <1>3, <3>2
  <2>4. g[x] = [size |-> h[x].size, next |-> h[x].next, free |-> h[x].free]
    <3>1. x + h[x].size - x = h[x].size
      BY <1>1
    <3>. QED
      BY <1>4, <2>2, <2>3, <3>1
  <2>5. h[x] \in [size : Nat, next : {NULL} \cup DOMAIN h, free : BOOLEAN]
    BY DEF Typed
  <2>. QED
    BY <2>2, <2>4, <2>5
<1>. QED
  BY <1>4, <1>8, <1>12, <1>13, <1>14, <1>15 DEF g

(* kfree keeps the region tiled and coalesced whatever it is given, and    *)
(* leaves every block in use as it was, but for the one it is given.       *)
LEMMA KfreeSound ==
  ASSUME NEW h, Typed(h), Tiles(h), Coalesced(h), NEW p \in Nat
  PROVE  LET g == kfree(h, p)
         IN  /\ Typed(g) /\ Tiles(g) /\ Coalesced(g)
             /\ \A x \in DOMAIN h : x # p - HDR /\ ~h[x].free => x \in DOMAIN g /\ g[x] = h[x]
             /\ \A x \in DOMAIN g : x \in DOMAIN h /\ (~g[x].free => ~h[x].free)
             /\ HEAP_START + HDR <= p /\ p < HEAP_END /\ p - HDR \in DOMAIN g
                  => g[p - HDR].free
<1>. DEFINE g == kfree(h, p)
            f == [h EXCEPT ![p - HDR].free = TRUE]
<1>1. CASE p < HEAP_START + HDR \/ p >= HEAP_END
  <2>1. g = h
    BY <1>1 DEF kfree
  <2>. QED
    BY <1>1, <2>1, Constants
<1>2. CASE ~ (p < HEAP_START + HDR \/ p >= HEAP_END)
  <2>1. g = heap_coalesce(f)
    BY <1>2 DEF kfree
  <2>2. /\ DOMAIN f = DOMAIN h
        /\ \A x \in DOMAIN h : x # p - HDR => f[x] = h[x]
        /\ p - HDR \in DOMAIN h => f[p - HDR] = [h[p - HDR] EXCEPT !.free = TRUE]
        /\ f = [x \in DOMAIN f |-> f[x]]
    OBVIOUS
  <2>. HIDE DEF f, g
  <2>3. \A x \in DOMAIN h : h[x] \in [size : Nat, next : {NULL} \cup DOMAIN h, free : BOOLEAN]
    BY DEF Typed
  <2>4. \A x \in DOMAIN h : /\ f[x].size = h[x].size
                            /\ f[x].next = h[x].next
                            /\ BlockEnd(f, x) = BlockEnd(h, x)
                            /\ ~f[x].free => ~h[x].free
                            /\ f[x] \in [size : Nat, next : {NULL} \cup DOMAIN h, free : BOOLEAN]
    <3>. SUFFICES ASSUME NEW x \in DOMAIN h
                  PROVE  /\ f[x].size = h[x].size
                         /\ f[x].next = h[x].next
                         /\ BlockEnd(f, x) = BlockEnd(h, x)
                         /\ ~f[x].free => ~h[x].free
                         /\ f[x] \in [size : Nat, next : {NULL} \cup DOMAIN h, free : BOOLEAN]
      OBVIOUS
    <3>1. CASE x = p - HDR
      BY <2>2, <2>3, <3>1 DEF BlockEnd
    <3>2. CASE x # p - HDR
      BY <2>2, <2>3, <3>2 DEF BlockEnd
    <3>. QED
      BY <3>1, <3>2
  <2>5. Typed(f)
    BY <2>2, <2>4 DEF Typed
  <2>6. Tiles(f)
    BY <2>2, <2>4 DEF Tiles
  <2>7. /\ Typed(g) /\ Tiles(g) /\ Coalesced(g)
        /\ DOMAIN g \subseteq DOMAIN f
        /\ \A x \in DOMAIN f : ~f[x].free => x \in DOMAIN g /\ g[x] = f[x]
        /\ \A x \in DOMAIN g : g[x].free = f[x].free
    BY <2>1, <2>5, <2>6, CoalesceSound
  <2>8. \A x \in DOMAIN h : x # p - HDR /\ ~h[x].free => x \in DOMAIN g /\ g[x] = h[x]
    BY <2>2, <2>7
  <2>9. \A x \in DOMAIN g : x \in DOMAIN h /\ (~g[x].free => ~h[x].free)
    BY <2>2, <2>4, <2>7
  <2>10. p - HDR \in DOMAIN g => g[p - HDR].free
    BY <2>2, <2>3, <2>7
  <2>. QED
    BY <2>7, <2>8, <2>9, <2>10 DEF g
<1>. QED
  BY <1>1, <1>2

-----------------------------------------------------------------------------
(* The heap's callers. *)

IInv == HeapInv /\ Owned

LEMMA InitIInv == ClientsInit => IInv
<1>. SUFFICES ASSUME ClientsInit PROVE IInv
  OBVIOUS
<1>1. heap = InitialHeap /\ DOMAIN live = {}
  BY DEF ClientsInit, HeapInit
<1>2. HeapInv
  BY <1>1, InitialSound DEF HeapInv
<1>3. \A a \in DOMAIN heap : heap[a].free
  BY <1>1 DEF InitialHeap
<1>4. Owned
  BY <1>1, <1>3 DEF Owned
<1>. QED
  BY <1>2, <1>4 DEF IInv

LEMMA KmallocIInv ==
  ASSUME IInv, NEW size \in Sizes, Kmalloc(size)
  PROVE  IInv'
<1>. DEFINE r == kmalloc(heap, size)
<1>1. Typed(heap) /\ Tiles(heap) /\ Coalesced(heap) /\ Owned
  BY DEF IInv, HeapInv
<1>2. size \in 0 .. (WORD - 1)
  BY ClientAssumption
<1>3. /\ heap' = r.heap
      /\ live' = IF r.ptr = NULL THEN live
                 ELSE [p \in DOMAIN live \cup {r.ptr} |->
                         IF p = r.ptr THEN size ELSE live[p]]
  BY DEF Kmalloc
<1>4. \/ r.ptr = NULL /\ r.heap = heap
      \/ \E a \in DOMAIN heap :
           /\ heap[a].free
           /\ r.ptr = a + HDR /\ r.ptr # NULL
           /\ Typed(r.heap) /\ Tiles(r.heap) /\ Coalesced(r.heap)
           /\ DOMAIN heap \subseteq DOMAIN r.heap
           /\ ~r.heap[a].free /\ r.heap[a].size >= size /\ size > 0
           /\ \A x \in DOMAIN heap \ {a} : r.heap[x] = heap[x]
           /\ \A x \in DOMAIN r.heap \ DOMAIN heap : r.heap[x].free
  BY <1>1, <1>2, KmallocSound
<1>. HIDE DEF r
<1>5. CASE r.ptr = NULL /\ r.heap = heap
  BY <1>3, <1>5 DEF IInv, HeapInv, Owned, Typed, Tiles, Coalesced, Mergeable, BlockEnd
<1>6. CASE r.ptr # NULL
  <2>1. PICK a \in DOMAIN heap :
           /\ heap[a].free
           /\ r.ptr = a + HDR
           /\ Typed(heap') /\ Tiles(heap') /\ Coalesced(heap')
           /\ DOMAIN heap \subseteq DOMAIN heap'
           /\ ~heap'[a].free /\ heap'[a].size >= size /\ size > 0
           /\ \A x \in DOMAIN heap \ {a} : heap'[x] = heap[x]
           /\ \A x \in DOMAIN heap' \ DOMAIN heap : heap'[x].free
    BY <1>3, <1>4, <1>6
  <2>2. HeapInv'
    BY <2>1 DEF HeapInv, Typed, Tiles, Coalesced, Mergeable, BlockEnd
  <2>3. /\ DOMAIN live' = DOMAIN live \cup {a + HDR}
        /\ live'[a + HDR] = size
        /\ \A p \in DOMAIN live \ {a + HDR} : live'[p] = live[p]
    BY <1>3, <1>6, <2>1
  <2>4. {b \in DOMAIN heap' : ~heap'[b].free} = {b \in DOMAIN heap : ~heap[b].free} \cup {a}
    BY <2>1
  <2>5. DOMAIN live = {b + HDR : b \in {x \in DOMAIN heap : ~heap[x].free}}
    BY <1>1 DEF Owned
  <2>6. DOMAIN live' = {b + HDR : b \in {x \in DOMAIN heap' : ~heap'[x].free}}
    BY <2>3, <2>4, <2>5
  <2>7. ASSUME NEW b \in DOMAIN heap', ~heap'[b].free
        PROVE  live'[b + HDR] \in Nat \ {0} /\ live'[b + HDR] <= heap'[b].size
    <3>1. CASE b = a
      <4>1. size \in Nat \ {0}
        BY <1>2, <2>1, HeapAssumption
      <4>2. heap'[a].size \in Nat
        BY <2>1, Numbers
      <4>. QED
        BY <2>1, <2>3, <3>1, <4>1, <4>2
    <3>2. CASE b # a
      <4>1. b \in DOMAIN heap /\ ~heap[b].free /\ heap'[b] = heap[b]
        BY <2>1, <2>7, <3>2
      <4>2. b \in Nat /\ a \in Nat
        BY <1>1, <4>1, Numbers
      <4>3. b + HDR # a + HDR
        BY <3>2, <4>2, Constants
      <4>4. b + HDR \in DOMAIN live
        BY <2>5, <4>1
      <4>5. live'[b + HDR] = live[b + HDR]
        BY <2>3, <4>3, <4>4
      <4>. QED
        BY <1>1, <4>1, <4>5 DEF Owned
    <3>. QED
      BY <3>1, <3>2
  <2>. QED
    BY <2>2, <2>6, <2>7 DEF IInv, Owned
<1>. QED
  BY <1>4, <1>5, <1>6

LEMMA KfreeIInv ==
  ASSUME IInv, NEW p \in DOMAIN live \cup Strays, Kfree(p)
  PROVE  IInv'
<1>1. Typed(heap) /\ Tiles(heap) /\ Coalesced(heap) /\ Owned
  BY DEF IInv, HeapInv
<1>2. \A a \in DOMAIN heap : a \in Nat /\ a >= HEAP_START /\ a + HDR <= HEAP_END
  BY <1>1, Numbers
<1>3. DOMAIN live = {a + HDR : a \in {b \in DOMAIN heap : ~heap[b].free}}
  BY <1>1 DEF Owned
<1>4. p \in Nat
  <2>1. CASE p \in Strays
    BY <2>1, ClientAssumption
  <2>2. CASE p \in DOMAIN live
    BY <1>2, <1>3, <2>2, Constants
  <2>. QED
    BY <2>1, <2>2
<1>5. /\ heap' = kfree(heap, p)
      /\ live' = [q \in DOMAIN live \ {p} |-> live[q]]
  BY DEF Kfree
<1>6. /\ Typed(heap') /\ Tiles(heap') /\ Coalesced(heap')
      /\ \A x \in DOMAIN heap :
           x # p - HDR /\ ~heap[x].free => x \in DOMAIN heap' /\ heap'[x] = heap[x]
      /\ \A x \in DOMAIN heap' : x \in DOMAIN heap /\ (~heap'[x].free => ~heap[x].free)
      /\ HEAP_START + HDR <= p /\ p < HEAP_END /\ p - HDR \in DOMAIN heap'
           => heap'[p - HDR].free
  BY <1>1, <1>4, <1>5, KfreeSound
<1>7. HeapInv'
  BY <1>6 DEF HeapInv, Typed, Tiles, Coalesced, Mergeable, BlockEnd
\* The block that is given back is no longer in use; a stray is no block in use.
<1>8. ASSUME NEW b \in DOMAIN heap', ~heap'[b].free
      PROVE  b # p - HDR
  <2>. SUFFICES ASSUME b = p - HDR PROVE FALSE
    OBVIOUS
  <2>1. b \in DOMAIN heap /\ ~heap[b].free
    BY <1>6, <1>8
  <2>2. b \in Nat /\ b >= HEAP_START /\ p = b + HDR
    BY <1>2, <1>4, <2>1, Constants
  <2>3. live[b + HDR] \in Nat \ {0} /\ live[b + HDR] <= heap[b].size
    BY <1>1, <2>1 DEF Owned
  <2>4. heap[b].size \in Nat /\ heap[b].size > 0
    BY <1>1, <2>1, <2>3, Numbers
  <2>5. BlockEnd(heap, b) <= HEAP_END /\ BlockEnd(heap, b) = b + HDR + heap[b].size
    BY <1>1, <2>1, EndsInside DEF BlockEnd
  <2>6. HEAP_START + HDR <= p /\ p < HEAP_END
    BY <2>2, <2>4, <2>5, Constants
  <2>. QED
    BY <1>6, <1>8, <2>6
<1>9. DOMAIN live' = {a + HDR : a \in {b \in DOMAIN heap' : ~heap'[b].free}}
  <2>1. ASSUME NEW q \in DOMAIN live'
        PROVE  \E a \in DOMAIN heap' : ~heap'[a].free /\ q = a + HDR
    <3>1. q \in DOMAIN live /\ q # p
      BY <1>5
    <3>2. PICK a \in DOMAIN heap : ~heap[a].free /\ q = a + HDR
      BY <1>3, <3>1
    <3>3. a # p - HDR
      BY <1>2, <1>4, <3>1, <3>2, Constants
    <3>. QED
      BY <1>6, <3>2, <3>3
  <2>2. ASSUME NEW a \in DOMAIN heap', ~heap'[a].free
        PROVE  a + HDR \in DOMAIN live'
    <3>1. a \in DOMAIN heap /\ ~heap[a].free /\ a # p - HDR
      BY <1>6, <1>8, <2>2
    <3>2. a + HDR \in DOMAIN live /\ a + HDR # p
      BY <1>2, <1>3, <1>4, <3>1, Constants
    <3>. QED
      BY <1>5, <3>2
  <2>. QED
    BY <2>1, <2>2
<1>10. ASSUME NEW a \in DOMAIN heap', ~heap'[a].free
       PROVE  live'[a + HDR] \in Nat \ {0} /\ live'[a + HDR] <= heap'[a].size
  <2>1. a \in DOMAIN heap /\ ~heap[a].free /\ heap'[a] = heap[a]
    BY <1>6, <1>8, <1>10
  <2>2. a + HDR \in DOMAIN live'
    BY <1>9, <1>10
  <2>3. live'[a + HDR] = live[a + HDR]
    BY <1>5, <2>2
  <2>. QED
    BY <1>1, <2>1, <2>3 DEF Owned
<1>. QED
  BY <1>7, <1>9, <1>10 DEF IInv, Owned

LEMMA Inductive == ClientsSpec => []IInv
<1>1. ClientsInit => IInv
  BY InitIInv
<1>2. IInv /\ [ClientsNext]_clientVars => IInv'
  <2>. SUFFICES ASSUME IInv, [ClientsNext]_clientVars PROVE IInv'
    OBVIOUS
  <2>1. CASE \E size \in Sizes : Kmalloc(size)
    BY <2>1, KmallocIInv
  <2>2. CASE \E p \in DOMAIN live \cup Strays : Kfree(p)
    BY <2>2, KfreeIInv
  <2>3. CASE UNCHANGED clientVars
    BY <2>3 DEF clientVars, IInv, HeapInv, Owned, Typed, Tiles, Coalesced, Mergeable, BlockEnd
  <2>. QED
    BY <2>1, <2>2, <2>3 DEF ClientsNext
<1>. QED
  BY <1>1, <1>2, PTL DEF ClientsSpec

(* Whatever callers ask of kmalloc and hand to kfree, in any order, the    *)
(* block list covers the heap region exactly and holds no two touching     *)
(* free blocks.                                                            *)
THEOREM HeapSafe == ClientsSpec => []HeapInv
<1>1. IInv => HeapInv
  BY DEF IInv
<1>. QED
  BY <1>1, Inductive, PTL

(* Whatever callers ask for, what each of them holds has the bytes it      *)
(* asked for, lies inside the region and overlaps no header and no bytes   *)
(* of another caller, and no block stays taken without a holder.           *)
THEOREM CallersSafe == ClientsSpec => []LiveDisjoint
<1>1. IInv => LiveDisjoint
  <2>. SUFFICES ASSUME IInv PROVE LiveDisjoint
    OBVIOUS
  <2>1. Typed(heap) /\ Tiles(heap) /\ Owned
    BY DEF IInv, HeapInv
  <2>2. \A a \in DOMAIN heap : a \in Nat /\ a >= HEAP_START
    BY <2>1, Numbers
  <2>3. DOMAIN live = {a + HDR : a \in {b \in DOMAIN heap : ~heap[b].free}}
    BY <2>1 DEF Owned
  <2>4. {p - HDR : p \in DOMAIN live} = {a \in DOMAIN heap : ~heap[a].free}
    <3>1. \A a \in DOMAIN heap : (a + HDR) - HDR = a
      BY <2>2, Constants
    <3>. QED
      BY <2>3, <3>1
  <2>5. ASSUME NEW p \in DOMAIN live
        PROVE  /\ p + live[p] <= HEAP_END
               /\ \A a \in DOMAIN heap : a >= p + live[p] \/ a + HDR <= p
    <3>1. PICK b \in DOMAIN heap : ~heap[b].free /\ p = b + HDR
      BY <2>3
    <3>2. live[p] \in Nat /\ live[p] <= heap[b].size
      BY <2>1, <3>1 DEF Owned
    <3>3. BlockEnd(heap, b) <= HEAP_END /\ BlockEnd(heap, b) = p + heap[b].size
      BY <2>1, <3>1, EndsInside DEF BlockEnd
    <3>4. heap[b].size \in Nat /\ b \in Nat
      BY <2>1, Numbers
    <3>5. ASSUME NEW a \in DOMAIN heap
          PROVE  a >= p + live[p] \/ a + HDR <= p
      <4>1. a \in Nat /\ BlockEnd(heap, a) \in Nat /\ BlockEnd(heap, a) >= a + HDR
        BY <2>1, Numbers
      <4>2. CASE a > b
        BY <2>1, <3>1, <3>2, <3>3, <3>4, <4>1, <4>2, Constants DEF Tiles
      <4>3. CASE a < b
        BY <2>1, <3>1, <3>4, <4>1, <4>3, Constants DEF Tiles
      <4>4. CASE a = b
        BY <3>1, <3>4, <4>4, Constants
      <4>. QED
        BY <3>4, <4>1, <4>2, <4>3, <4>4
    <3>. QED
      BY <3>1, <3>2, <3>3, <3>4, <3>5, Constants
  <2>. QED
    BY <2>4, <2>5 DEF LiveDisjoint
<1>. QED
  BY <1>1, Inductive, PTL

(* In a heap that is tiled and coalesced, with its blocks in use held by   *)
(* the callers, a stretch that no caller's block touches lies in one free  *)
(* block: the block it starts in is free, and were that block to end       *)
(* inside the stretch, the block after it would be free too.               *)
LEMMA StretchHeld ==
  ASSUME IInv,
         NEW need \in Nat,
         \A a \in DOMAIN heap : heap[a].free => heap[a].size < need,
         NEW x \in HEAP_START .. (HEAP_END - HDR - need)
  PROVE  \E p \in DOMAIN live :
           p - HDR < x + HDR + need /\ x < BlockEnd(heap, p - HDR)
<1>1. Typed(heap) /\ Tiles(heap) /\ Coalesced(heap) /\ Owned
  BY DEF IInv, HeapInv
<1>2. x \in Nat /\ x >= HEAP_START /\ x + HDR + need <= HEAP_END
  BY Constants
<1>. DEFINE S == {a \in DOMAIN heap : a <= x}
<1>3. \A a \in DOMAIN heap : a \in Nat
  BY <1>1, Numbers
<1>4. PICK a \in S : \A y \in S : y <= a
  <2>1. S \in SUBSET (0 .. x)
    BY <1>2, <1>3
  <2>2. HEAP_START \in S
    BY <1>1, <1>2 DEF Tiles
  <2>. HIDE DEF S
  <2>. QED
    BY <1>2, <2>1, <2>2, GreatestBelow
<1>5. a \in DOMAIN heap /\ a \in Nat /\ a <= x
  BY <1>3
<1>6. /\ heap[a].size \in Nat
      /\ heap[a].next = NULL \/ heap[a].next \in DOMAIN heap
      /\ BlockEnd(heap, a) = a + HDR + heap[a].size
      /\ BlockEnd(heap, a) = (IF heap[a].next = NULL THEN HEAP_END ELSE heap[a].next)
  BY <1>1, <1>5, Numbers DEF Tiles, BlockEnd
\* A block in use that starts before the stretch ends and ends after it starts.
<1>7. ASSUME NEW b \in DOMAIN heap, ~heap[b].free,
             b < x + HDR + need, x < BlockEnd(heap, b)
      PROVE  \E p \in DOMAIN live :
               p - HDR < x + HDR + need /\ x < BlockEnd(heap, p - HDR)
  <2>1. b + HDR \in DOMAIN live
    BY <1>1, <1>7 DEF Owned
  <2>2. (b + HDR) - HDR = b
    BY <1>3, Constants
  <2>. QED
    BY <1>7, <2>1, <2>2
<1>8. x < BlockEnd(heap, a)
  <2>1. CASE heap[a].next = NULL
    BY <1>2, <1>6, <2>1, Constants
  <2>2. CASE heap[a].next # NULL
    <3>1. heap[a].next \in DOMAIN heap /\ heap[a].next \in Nat /\ heap[a].next > a
      BY <1>3, <1>5, <1>6, <2>2, Constants
    <3>2. heap[a].next \notin S
      BY <1>4, <1>5, <3>1
    <3>. QED
      BY <1>2, <1>6, <2>2, <3>1, <3>2
  <2>. QED
    BY <2>1, <2>2
<1>9. CASE ~heap[a].free
  BY <1>2, <1>5, <1>7, <1>8, <1>9, Constants
<1>10. CASE heap[a].free
  <2>1. BlockEnd(heap, a) < x + HDR + need
    BY <1>2, <1>5, <1>6, <1>10, Constants
  <2>. DEFINE n == heap[a].next
  <2>2. n # NULL /\ n \in DOMAIN heap /\ n \in Nat /\ n = BlockEnd(heap, a)
    BY <1>2, <1>3, <1>6, <2>1, Constants
  <2>3. ~heap[n].free
    BY <1>1, <1>5, <1>10, <2>2 DEF Coalesced, Mergeable
  <2>4. BlockEnd(heap, n) \in Nat /\ BlockEnd(heap, n) >= n + HDR
    BY <1>1, <2>2, Numbers
  <2>. HIDE DEF n
  <2>5. n < x + HDR + need /\ x < BlockEnd(heap, n)
    BY <1>2, <1>8, <2>1, <2>2, <2>4, Constants
  <2>. QED
    BY <1>7, <2>2, <2>3, <2>5
<1>. QED
  BY <1>9, <1>10

(* Whatever was allocated and freed before, kmalloc refuses a request only *)
(* when every stretch of the region long enough for the request and its    *)
(* header meets a block that a caller holds: memory that was given back    *)
(* never stays unusable because of how it was cut up.                      *)
THEOREM RefusesOnlyWhenFull == ClientsSpec => []NoFalseExhaustion
<1>1. IInv => NoFalseExhaustion
  <2>. SUFFICES ASSUME IInv, NEW size \in Sizes,
                       size # 0, heap_align8(size) # 0, KmallocFails(heap, size),
                       NEW x \in HEAP_START .. (HEAP_END - HDR - heap_align8(size))
                PROVE  \E p \in DOMAIN live :
                         /\ p - HDR < x + HDR + heap_align8(size)
                         /\ x < BlockEnd(heap, p - HDR)
    BY DEF NoFalseExhaustion
  <2>. DEFINE need == heap_align8(size)
  <2>1. need \in Nat
    BY ClientAssumption, AlignUp
  <2>2. x \in HEAP_START .. (HEAP_END - HDR - need)
    OBVIOUS
  <2>3. Fits(heap, need) = {}
    <3>1. need <= HEAP_SIZE
      <4>. HIDE DEF need
      <4>. QED
        BY <2>1, <2>2, Constants
    <3>. QED
      BY <2>1, <3>1, Constants DEF KmallocFails
  <2>4. \A a \in DOMAIN heap : heap[a].free => heap[a].size < need
    <3>. SUFFICES ASSUME NEW a \in DOMAIN heap, heap[a].free PROVE heap[a].size < need
      OBVIOUS
    <3>1. heap[a].size \in Nat
      BY Numbers DEF IInv, HeapInv
    <3>2. ~ (heap[a].size >= need)
      BY <2>3 DEF Fits
    <3>. HIDE DEF need
    <3>. QED
      BY <2>1, <3>1, <3>2
  <2>. HIDE DEF need
  <2>5. \E p \in DOMAIN live :
           p - HDR < x + HDR + need /\ x < BlockEnd(heap, p - HDR)
    BY <2>1, <2>2, <2>4, StretchHeld
  <2>. QED
    BY <2>5 DEF need
<1>. QED
  BY <1>1, Inductive, PTL

-----------------------------------------------------------------------------
(* The page allocator. *)

(* The block counts pmm_init computes are natural numbers in order. *)
LEMMA BlockCounts ==
  /\ pmm_max_blocks \in Nat
  /\ pmm_reserved_blocks \in Nat
  /\ pmm_reserved_blocks <= pmm_max_blocks
<1>1. PAGE_SIZE \in Nat \ {0} /\ MEM_SIZE \in Nat /\ HEAP_END \in Nat
  BY PmmAssumption, HeapAssumption DEF HEAP_END
<1>2. ASSUME NEW m \in Nat
      PROVE  m \div PAGE_SIZE \in Nat
  BY <1>1
<1>3. pmm_max_blocks \in Nat
  BY <1>1, <1>2 DEF pmm_max_blocks
<1>4. HEAP_END \div PAGE_SIZE \in Nat
  BY <1>1, <1>2
<1>. QED
  BY <1>3, <1>4 DEF pmm_reserved_blocks

LEMMA BitmapFinite ==
  ASSUME PmmInv
  PROVE  IsFiniteSet(pmm_bitmap)
<1>1. IsFiniteSet(Blocks)
  <2>1. 0 \in Int /\ pmm_max_blocks - 1 \in Int
    BY BlockCounts
  <2>. QED
    BY <2>1, FS_Interval DEF Blocks
<1>2. pmm_bitmap \in SUBSET Blocks
  BY DEF PmmInv, PmmTypeOK
<1>. QED
  BY <1>1, <1>2, FS_Subset

(* A page whose bit is clear is counted once when pmm_alloc_page takes it. *)
LEMMA AllocKeepsCount ==
  ASSUME PmmInv, NEW p, pmm_alloc_page(p)
  PROVE  PmmInv'
<1>. USE BlockCounts DEF Blocks, Reserved, Allocatable
<1>1. CASE UNCHANGED pmmVars
  BY <1>1 DEF PmmInv, PmmTypeOK, pmmVars
<1>2. CASE \E i \in Allocatable \ pmm_bitmap :
             /\ pmm_bitmap' = pmm_bitmap \cup {i}
             /\ pmm_used_blocks' = pmm_used_blocks + 1
  <2>1. PICK i \in Allocatable \ pmm_bitmap :
               /\ pmm_bitmap' = pmm_bitmap \cup {i}
               /\ pmm_used_blocks' = pmm_used_blocks + 1
    BY <1>2
  <2>2. IsFiniteSet(pmm_bitmap)
    BY BitmapFinite
  <2>3. Cardinality(pmm_bitmap') = Cardinality(pmm_bitmap) + 1
    BY <2>1, <2>2, FS_AddElement
  <2>. QED
    BY <2>1, <2>3 DEF PmmInv, PmmTypeOK
<1>. QED
  BY <1>1, <1>2 DEF pmm_alloc_page

(* Whatever address pmm_free_page is given, a reserved page stays taken    *)
(* and the count follows the bitmap.                                       *)
LEMMA FreeKeepsCount ==
  ASSUME PmmInv, NEW p, pmm_free_page(p)
  PROVE  PmmInv'
<1>. USE BlockCounts DEF Blocks, Reserved, Allocatable
<1>1. CASE UNCHANGED pmmVars
  BY <1>1 DEF PmmInv, PmmTypeOK, pmmVars
<1>2. CASE ~ UNCHANGED pmmVars
  <2>. DEFINE b == p \div PAGE_SIZE
  <2>1. /\ b \in Allocatable \cap pmm_bitmap
        /\ pmm_bitmap' = pmm_bitmap \ {b}
        /\ pmm_used_blocks' =
             IF pmm_used_blocks > 0 THEN pmm_used_blocks - 1 ELSE pmm_used_blocks
    BY <1>2 DEF pmm_free_page
  <2>. HIDE DEF b
  <2>2. IsFiniteSet(pmm_bitmap)
    BY BitmapFinite
  <2>3. Cardinality(pmm_bitmap') = Cardinality(pmm_bitmap) - 1
    BY <2>1, <2>2, FS_RemoveElement
  <2>4. Cardinality(pmm_bitmap') \in Nat
    BY <2>1, <2>2, FS_RemoveElement, FS_CardinalityType
  <2>5. pmm_used_blocks' = Cardinality(pmm_bitmap')
    BY <2>1, <2>3, <2>4 DEF PmmInv, PmmTypeOK
  <2>. QED
    BY <2>1, <2>4, <2>5 DEF PmmInv, PmmTypeOK
<1>. QED
  BY <1>1, <1>2

LEMMA PmmInitInv == PmmInit => PmmInv
<1>. SUFFICES ASSUME PmmInit PROVE PmmInv
  OBVIOUS
<1>1. Cardinality(Reserved) = pmm_reserved_blocks
  BY BlockCounts, FS_Interval DEF Reserved
<1>. QED
  BY <1>1, BlockCounts DEF PmmInit, PmmInv, PmmTypeOK, Reserved, Blocks

(* Under any sequence of pmm_alloc_page and pmm_free_page calls, with any  *)
(* addresses, the reserved pages of pmm_init are never given away and      *)
(* pmm_used_blocks is the number of set bits.                              *)
THEOREM PmmSafe == PmmSpec => []PmmInv
<1>1. PmmInit => PmmInv
  BY PmmInitInv
<1>2. PmmInv /\ [PmmNext]_pmmVars => PmmInv'
  <2>. SUFFICES ASSUME PmmInv, [PmmNext]_pmmVars PROVE PmmInv'
    OBVIOUS
  <2>1. CASE UNCHANGED pmmVars
    BY <2>1 DEF PmmInv, PmmTypeOK, pmmVars
  <2>2. CASE PmmNext
    BY <2>2, AllocKeepsCount, FreeKeepsCount DEF PmmNext
  <2>. QED
    BY <2>1, <2>2
<1>. QED
  BY <1>1, <1>2, PTL DEF PmmSpec

(* Every step of the scheduler leaves the page allocator alone or makes    *)
(* one of its two calls, so the kernel keeps the invariant as well.        *)
THEOREM KernelPmmSafe == Spec => []PmmInv
<1>1. Init => PmmInv
  BY PmmInitInv DEF Init
<1>2. PmmInv /\ [Next]_vars => PmmInv'
  <2>. SUFFICES ASSUME PmmInv, [Next]_vars PROVE PmmInv'
    OBVIOUS
  <2>1. CASE CreateNoStack
    BY <2>1, AllocKeepsCount DEF CreateNoStack
  <2>2. CASE CreateLinked
    BY <2>2, AllocKeepsCount DEF CreateLinked
  <2>3. CASE \E pid \in 0 .. (PID_MOD - 1) : scheduler_kill(pid)
    BY <2>3, FreeKeepsCount DEF scheduler_kill, Release
  <2>4. CASE UNCHANGED pmmVars
    BY <2>4 DEF PmmInv, PmmTypeOK, pmmVars
  <2>. QED
    BY <2>1, <2>2, <2>3, <2>4
    DEF Next, create_process, CreateNoStruct, yield, vars, pmmVars
<1>. QED
  BY <1>1, <1>2, PTL DEF Spec

-----------------------------------------------------------------------------
(* The process table. *)

(* Page numbers and page addresses. *)
LEMMA PageArith ==
  ASSUME NEW i \in Nat, NEW P \in Nat \ {0}
  PROVE  (i * P) \div P = i /\ i * P \in Nat
  OBVIOUS

(* A larger page number has a larger address. *)
LEMMA Mono ==
  ASSUME NEW i \in Nat, NEW j \in Nat, NEW P \in Nat \ {0}, i <= j
  PROVE  i * P <= j * P
  OBVIOUS

(* A page-aligned address is its page number times the page size. *)
LEMMA DivExact ==
  ASSUME NEW n \in Nat, NEW P \in Nat \ {0}, n % P = 0
  PROVE  n = (n \div P) * P /\ n \div P \in Nat /\ (P <= n => n \div P >= 1)
  OBVIOUS

(* What the proofs need to know of the constants. *)
LEMMA SchedConstants ==
  /\ PROC_SIZE \in 1 .. (WORD - 1) /\ PROC_SIZE \in Nat
  /\ PID_MOD \in Nat /\ PID_MOD > 1
  /\ process_list \in Nat /\ process_list = HEAP_START + HDR
  BY SchedAssumption, HeapAssumption DEF process_list

(* A page that may be given away lies past the kernel heap, and its        *)
(* address determines its number.                                          *)
LEMMA PageFacts ==
  ASSUME NEW i \in Allocatable
  PROVE  /\ i \in Nat
         /\ i \notin Reserved
         /\ i * PAGE_SIZE \in Nat /\ (i * PAGE_SIZE) \div PAGE_SIZE = i
         /\ i * PAGE_SIZE >= HEAP_END
         /\ i * PAGE_SIZE # NULL
<1>1. /\ PAGE_SIZE \in Nat \ {0} /\ HEAP_END \in Nat /\ HEAP_END > 0
      /\ HEAP_END % PAGE_SIZE = 0
  BY PmmAssumption, HeapAssumption DEF HEAP_END
<1>2. i \in Nat /\ pmm_reserved_blocks <= i /\ i < pmm_max_blocks
  BY BlockCounts DEF Allocatable
<1>3. pmm_reserved_blocks = HEAP_END \div PAGE_SIZE
  BY <1>2, BlockCounts DEF pmm_reserved_blocks
<1>4. HEAP_END = (HEAP_END \div PAGE_SIZE) * PAGE_SIZE /\ HEAP_END \div PAGE_SIZE \in Nat
  BY <1>1, DivExact
<1>5. HEAP_END <= i * PAGE_SIZE
  BY <1>1, <1>2, <1>3, <1>4, Mono
<1>6. i * PAGE_SIZE \in Nat /\ (i * PAGE_SIZE) \div PAGE_SIZE = i
  BY <1>1, <1>2, PageArith
<1>7. i \notin Reserved
  BY <1>2, BlockCounts DEF Reserved
<1>. QED
  BY <1>1, <1>2, <1>5, <1>6, <1>7 DEF NULL

(* The same facts, from the address. *)
LEMMA AddressFacts ==
  ASSUME NEW p \in PageAddress
  PROVE  /\ p \in Nat /\ p # NULL /\ p >= HEAP_END
         /\ p \div PAGE_SIZE \in Allocatable
         /\ p \div PAGE_SIZE \notin Reserved
         /\ p = (p \div PAGE_SIZE) * PAGE_SIZE
<1>1. PICK i \in Allocatable : p = i * PAGE_SIZE
  BY DEF PageAddress
<1>. QED
  BY <1>1, PageFacts

-----------------------------------------------------------------------------
(* The heap blocks of the scheduler. *)

(* The pointers to the blocks that are in use. *)
InUse(h) == {a + HDR : a \in {b \in DOMAIN h : ~h[b].free}}

(* A heap in which every block in use can hold a structure. *)
StructHeap(h) ==
  /\ Typed(h) /\ Tiles(h) /\ Coalesced(h)
  /\ \A a \in DOMAIN h : ~h[a].free => h[a].size >= PROC_SIZE

(* A structure that kmalloc hands out is new. *)
LEMMA NewStruct ==
  ASSUME NEW h, StructHeap(h), kmalloc(h, PROC_SIZE).ptr # NULL
  PROVE  LET r == kmalloc(h, PROC_SIZE)
         IN  /\ StructHeap(r.heap)
             /\ r.ptr \in Nat
             /\ r.ptr \notin InUse(h)
             /\ InUse(r.heap) = InUse(h) \cup {r.ptr}
<1>. DEFINE r == kmalloc(h, PROC_SIZE)
<1>1. Typed(h) /\ Tiles(h) /\ Coalesced(h)
  BY DEF StructHeap
<1>2. PICK a \in DOMAIN h :
         /\ h[a].free
         /\ r.ptr = a + HDR
         /\ Typed(r.heap) /\ Tiles(r.heap) /\ Coalesced(r.heap)
         /\ DOMAIN h \subseteq DOMAIN r.heap
         /\ ~r.heap[a].free /\ r.heap[a].size >= PROC_SIZE
         /\ \A x \in DOMAIN h \ {a} : r.heap[x] = h[x]
         /\ \A x \in DOMAIN r.heap \ DOMAIN h : r.heap[x].free
  BY <1>1, KmallocSound, SchedConstants
<1>. HIDE DEF r
<1>3. \A x \in DOMAIN h : x \in Nat
  BY <1>1, Numbers
<1>4. {b \in DOMAIN r.heap : ~r.heap[b].free} = {b \in DOMAIN h : ~h[b].free} \cup {a}
  BY <1>2
<1>5. InUse(r.heap) = InUse(h) \cup {r.ptr}
  BY <1>2, <1>4 DEF InUse
<1>6. r.ptr \notin InUse(h)
  <2>. SUFFICES ASSUME NEW b \in DOMAIN h, ~h[b].free, a + HDR = b + HDR PROVE FALSE
    BY <1>2 DEF InUse
  <2>1. a = b
    BY <1>3, Constants
  <2>. QED
    BY <1>2, <2>1
<1>7. \A x \in DOMAIN r.heap : ~r.heap[x].free => r.heap[x].size >= PROC_SIZE
  BY <1>2 DEF StructHeap
<1>8. r.ptr \in Nat
  BY <1>2, <1>3, Constants
<1>. QED
  BY <1>2, <1>5, <1>6, <1>7, <1>8 DEF StructHeap, r

(* kfree takes exactly the structure it is given out of use. *)
LEMMA OldStruct ==
  ASSUME NEW h, StructHeap(h), NEW p \in InUse(h)
  PROVE  StructHeap(kfree(h, p)) /\ InUse(kfree(h, p)) = InUse(h) \ {p}
<1>. DEFINE g == kfree(h, p)
<1>1. Typed(h) /\ Tiles(h) /\ Coalesced(h)
  BY DEF StructHeap
<1>2. PICK a \in DOMAIN h : ~h[a].free /\ p = a + HDR
  BY DEF InUse
<1>3. \A x \in DOMAIN h : x \in Nat /\ x >= HEAP_START /\ h[x].size \in Nat
  BY <1>1, Numbers
<1>4. p \in Nat /\ HEAP_START + HDR <= p /\ a = p - HDR
  BY <1>2, <1>3, Constants
<1>5. p < HEAP_END
  <2>1. BlockEnd(h, a) <= HEAP_END /\ BlockEnd(h, a) = a + HDR + h[a].size
    BY <1>1, EndsInside DEF BlockEnd
  <2>2. h[a].size >= PROC_SIZE
    BY <1>2 DEF StructHeap
  <2>. QED
    BY <1>2, <1>3, <2>1, <2>2, Constants, SchedConstants
<1>6. /\ Typed(g) /\ Tiles(g) /\ Coalesced(g)
      /\ \A x \in DOMAIN h : x # a /\ ~h[x].free => x \in DOMAIN g /\ g[x] = h[x]
      /\ \A x \in DOMAIN g : x \in DOMAIN h /\ (~g[x].free => ~h[x].free)
      /\ a \in DOMAIN g => g[a].free
  BY <1>1, <1>4, <1>5, KfreeSound
<1>. HIDE DEF g
<1>7. {b \in DOMAIN g : ~g[b].free} = {b \in DOMAIN h : ~h[b].free} \ {a}
  BY <1>6
<1>8. \A b \in DOMAIN h : b + HDR = p => b = a
  BY <1>3, <1>4, Constants
<1>9. InUse(g) = InUse(h) \ {p}
  BY <1>2, <1>7, <1>8 DEF InUse
<1>10. \A x \in DOMAIN g : ~g[x].free => g[x].size >= PROC_SIZE
  BY <1>6 DEF StructHeap
<1>. QED
  BY <1>6, <1>9, <1>10 DEF StructHeap, g

-----------------------------------------------------------------------------
(* The stack pages. *)

(* A page that pmm_alloc_page hands out was in no one's hands. *)
LEMMA NewStack ==
  ASSUME NEW s \in PageAddress, pmm_alloc_page(s)
  PROVE  /\ s \div PAGE_SIZE \notin pmm_bitmap
         /\ pmm_bitmap' \ Reserved = (pmm_bitmap \ Reserved) \cup {s \div PAGE_SIZE}
<1>1. s # NULL
  BY AddressFacts
<1>2. PICK i \in Allocatable \ pmm_bitmap :
         s = i * PAGE_SIZE /\ pmm_bitmap' = pmm_bitmap \cup {i}
  BY <1>1 DEF pmm_alloc_page
<1>3. s \div PAGE_SIZE = i /\ i \notin Reserved
  BY <1>2, PageFacts
<1>. QED
  BY <1>2, <1>3

(* pmm_alloc_page takes no page when it returns NULL: page 0 is reserved.  *)
LEMMA NoStack ==
  ASSUME pmm_alloc_page(NULL)
  PROVE  UNCHANGED pmmVars
<1>1. \A i \in Allocatable : i * PAGE_SIZE # NULL
  BY PageFacts
<1>. QED
  BY <1>1 DEF pmm_alloc_page

(* pmm_free_page releases exactly the page it is given. *)
LEMMA OldStack ==
  ASSUME NEW s \in PageAddress, pmm_free_page(s), s \div PAGE_SIZE \in pmm_bitmap
  PROVE  pmm_bitmap' = pmm_bitmap \ {s \div PAGE_SIZE}
  BY AddressFacts DEF pmm_free_page

-----------------------------------------------------------------------------
(* The ring. *)

(* One ring through all of f's structures: RingIntact without counting.    *)
(* Every next is a structure, no two structures have the same next, and no *)
(* part of them is closed under next and leaves process_list out.          *)
Ring(f) ==
  /\ process_list \in DOMAIN f
  /\ \A p \in DOMAIN f : f[p].next \in DOMAIN f
  /\ \A p, q \in DOMAIN f : f[p].next = f[q].next => p = q
  /\ \A S \in SUBSET DOMAIN f :
       S # {} /\ (\A p \in S : f[p].next \in S) => process_list \in S

(* Putting n between process_list and its successor keeps it one ring. *)
LEMMA RingInsert ==
  ASSUME NEW f, NEW g, NEW n, Ring(f), n \notin DOMAIN f,
         DOMAIN g = DOMAIN f \cup {n},
         g[n].next = f[process_list].next,
         g[process_list].next = n,
         \A q \in DOMAIN f \ {process_list} : g[q].next = f[q].next
  PROVE  Ring(g)
<1>1. process_list \in DOMAIN f /\ process_list # n
  BY DEF Ring
<1>2. \A p \in DOMAIN f : f[p].next \in DOMAIN f /\ f[p].next # n
  BY DEF Ring
<1>3. \A p \in DOMAIN g : g[p].next \in DOMAIN g
  BY <1>1, <1>2
<1>4. \A p, q \in DOMAIN g : g[p].next = g[q].next => p = q
  <2>1. \A p, q \in DOMAIN f : f[p].next = f[q].next => p = q
    BY DEF Ring
  <2>. QED
    BY <1>1, <1>2, <2>1
<1>5. ASSUME NEW S \in SUBSET DOMAIN g, S # {}, \A p \in S : g[p].next \in S
      PROVE  process_list \in S
  <2>. SUFFICES ASSUME process_list \notin S PROVE FALSE
    OBVIOUS
  <2>. DEFINE T == S \ {n}
  <2>1. T \in SUBSET DOMAIN f
    OBVIOUS
  <2>2. \A p \in T : f[p].next \in T
    BY <1>2, <1>5
  <2>3. T # {}
    <3>1. CASE n \in S
      BY <1>1, <1>2, <1>5, <3>1
    <3>2. CASE n \notin S
      BY <1>5, <3>2
    <3>. QED
      BY <3>1, <3>2
  <2>4. process_list \in T
    BY <2>1, <2>2, <2>3 DEF Ring
  <2>. QED
    BY <2>4
<1>. QED
  BY <1>1, <1>3, <1>4, <1>5 DEF Ring

(* Taking c out of the ring and linking its predecessor to its successor   *)
(* leaves one ring.                                                        *)
LEMMA RingRemove ==
  ASSUME NEW f, NEW g, Ring(f), NEW c \in DOMAIN f \ {process_list},
         NEW v \in DOMAIN f, f[v].next = c,
         DOMAIN g = DOMAIN f \ {c},
         v # c => g[v].next = f[c].next,
         \A q \in DOMAIN g \ {v} : g[q].next = f[q].next
  PROVE  Ring(g)
<1>1. process_list \in DOMAIN f /\ f[c].next \in DOMAIN f
  BY DEF Ring
<1>2. \A p, q \in DOMAIN f : f[p].next = f[q].next => p = q
  BY DEF Ring
<1>3. \A S \in SUBSET DOMAIN f :
        S # {} /\ (\A p \in S : f[p].next \in S) => process_list \in S
  BY DEF Ring
\* c alone would be a ring without process_list.
<1>4. f[c].next # c
  <2>. SUFFICES ASSUME f[c].next = c PROVE FALSE
    OBVIOUS
  <2>1. {c} \in SUBSET DOMAIN f /\ {c} # {} /\ \A p \in {c} : f[p].next \in {c}
    OBVIOUS
  <2>2. process_list \in {c}
    BY <1>3, <2>1
  <2>. QED
    BY <2>2
<1>5. v # c /\ g[v].next = f[c].next /\ v \in DOMAIN g
  BY <1>4
<1>6. \A p \in DOMAIN g \ {v} : f[p].next \in DOMAIN g
  BY <1>2 DEF Ring
<1>7. \A p \in DOMAIN g : g[p].next \in DOMAIN g
  BY <1>1, <1>4, <1>5, <1>6
<1>8. \A p, q \in DOMAIN g : g[p].next = g[q].next => p = q
  BY <1>2, <1>5
<1>9. ASSUME NEW S \in SUBSET DOMAIN g, S # {}, \A p \in S : g[p].next \in S
      PROVE  process_list \in S
  <2>1. CASE v \in S
    <3>. DEFINE T == S \cup {c}
    <3>1. T \in SUBSET DOMAIN f /\ T # {}
      OBVIOUS
    <3>2. \A p \in T : f[p].next \in T
      BY <1>5, <1>9, <2>1
    <3>3. process_list \in T
      BY <1>3, <3>1, <3>2
    <3>. QED
      BY <3>3
  <2>2. CASE v \notin S
    <3>1. S \in SUBSET DOMAIN f /\ \A p \in S : f[p].next \in S
      BY <1>9, <2>2
    <3>. QED
      BY <1>3, <1>9, <3>1
  <2>. QED
    BY <2>1, <2>2
<1>. QED
  BY <1>1, <1>7, <1>8, <1>9 DEF Ring

-----------------------------------------------------------------------------
(* The inductive invariant. *)

(* The fields of the structures; next is Ring's business. *)
Fields(f) ==
  \A p \in DOMAIN f :
    /\ p \in Nat
    /\ f[p] = [id |-> f[p].id, next |-> f[p].next, stack_base |-> f[p].stack_base]
    /\ f[p].id \in 0 .. (PID_MOD - 1)
    /\ f[p].stack_base \in {NULL} \cup PageAddress

(* Each process but the kernel's own has its own page, and these are all.  *)
Stacks(f, pages) ==
  LET others == DOMAIN f \ {process_list}
  IN  /\ \A p \in others : f[p].stack_base \in PageAddress
      /\ \A p, q \in others : f[p].stack_base = f[q].stack_base => p = q
      /\ {f[p].stack_base \div PAGE_SIZE : p \in others} = pages

SInv ==
  /\ PmmInv
  /\ StructHeap(heap)
  /\ DOMAIN proc \cup leaked = InUse(heap)
  /\ DOMAIN proc \cap leaked = {}
  /\ proc = [p \in DOMAIN proc |-> proc[p]]
  /\ Fields(proc)
  /\ Ring(proc)
  /\ Stacks(proc, pmm_bitmap \ Reserved)
  /\ current_process \in DOMAIN proc
  /\ next_pid \in 0 .. (PID_MOD - 1)
  /\ scheduler_ticks \in 0 .. (PID_MOD - 1)

(* After pmm_init and scheduler_init: the kernel's process is the ring.    *)
LEMMA InitSInv == Init => SInv
<1>. SUFFICES ASSUME Init PROVE SInv
  OBVIOUS
<1>. DEFINE need == heap_align8(PROC_SIZE)
            h == InitialHeap
<1>1. PmmInv
  BY PmmInitInv DEF Init
<1>2. /\ DOMAIN h = {HEAP_START}
      /\ h[HEAP_START] = [size |-> HEAP_SIZE - HDR, next |-> NULL, free |-> TRUE]
  BY DEF InitialHeap
<1>3. Typed(h) /\ Tiles(h) /\ Coalesced(h)
  BY InitialSound
<1>4. need \in 1 .. (HEAP_SIZE - HDR)
  BY SchedAssumption
<1>5. StructHeap(h) /\ InUse(h) = {}
  BY <1>2, <1>3 DEF StructHeap, InUse
<1>. HIDE DEF h, need
<1>6. Fits(h, need) = {HEAP_START}
  BY <1>2, <1>4, Constants DEF Fits
<1>7. ~KmallocFails(h, PROC_SIZE)
  BY <1>4, <1>6, Constants, SchedConstants DEF KmallocFails, need
<1>8. Min(Fits(h, need)) = HEAP_START
  BY <1>6, MinOfNats, Constants
<1>9. kmalloc(h, PROC_SIZE).ptr = process_list
  BY <1>7, <1>8 DEF kmalloc, need, process_list
<1>10. process_list # NULL /\ process_list \in Nat
  BY Constants, SchedConstants
<1>11. StructHeap(heap) /\ InUse(heap) = {process_list}
  BY <1>5, <1>9, <1>10, NewStruct DEF Init, h
<1>12. /\ DOMAIN proc = {process_list}
       /\ proc[process_list] = [id |-> 0, next |-> process_list, stack_base |-> NULL]
       /\ proc = [p \in DOMAIN proc |-> proc[p]]
  BY DEF Init
<1>13. Fields(proc)
  BY <1>10, <1>12, SchedConstants DEF Fields
<1>14. Ring(proc)
  BY <1>12 DEF Ring
<1>15. pmm_bitmap \ Reserved = {}
  BY DEF Init, PmmInit
<1>16. Stacks(proc, pmm_bitmap \ Reserved)
  BY <1>12, <1>15 DEF Stacks
<1>. QED
  BY <1>1, <1>11, <1>12, <1>13, <1>14, <1>16, SchedConstants DEF SInv, Init

(* Pids and ticks wrap. *)
LEMMA Wraps ==
  ASSUME NEW n \in 0 .. (PID_MOD - 1)
  PROVE  (n + 1) % PID_MOD \in 0 .. (PID_MOD - 1)
  BY SchedConstants

(* The structure that create_process forgets is still accounted for.       *)
LEMMA CreateNoStackSInv ==
  ASSUME SInv, CreateNoStack
  PROVE  SInv'
<1>. DEFINE r == kmalloc(heap, PROC_SIZE)
<1>1. /\ r.ptr # NULL
      /\ pmm_alloc_page(NULL)
      /\ heap' = r.heap
      /\ next_pid' = (next_pid + 1) % PID_MOD
      /\ leaked' = leaked \cup {r.ptr}
      /\ UNCHANGED <<proc, current_process, scheduler_ticks>>
  BY DEF CreateNoStack
<1>2. StructHeap(heap') /\ r.ptr \notin InUse(heap) /\ InUse(heap') = InUse(heap) \cup {r.ptr}
  BY <1>1, NewStruct DEF SInv
<1>. HIDE DEF r
<1>3. PmmInv' /\ pmm_bitmap' = pmm_bitmap
  BY <1>1, AllocKeepsCount, NoStack DEF SInv, pmmVars
<1>4. /\ DOMAIN proc' \cup leaked' = InUse(heap')
      /\ DOMAIN proc' \cap leaked' = {}
  BY <1>1, <1>2 DEF SInv
<1>5. next_pid' \in 0 .. (PID_MOD - 1)
  BY <1>1, Wraps DEF SInv
<1>6. /\ proc' = proc /\ current_process' = current_process
      /\ scheduler_ticks' = scheduler_ticks
      /\ Stacks(proc', pmm_bitmap' \ Reserved)
  BY <1>1, <1>3 DEF SInv
<1>. QED
  BY <1>1, <1>2, <1>3, <1>4, <1>5, <1>6 DEF SInv

(* create_process links a new structure, with a new page, into the ring.   *)
LEMMA CreateLinkedSInv ==
  ASSUME SInv, CreateLinked
  PROVE  SInv'
<1>. DEFINE r == kmalloc(heap, PROC_SIZE)
            n == r.ptr
<1>1. PICK stack \in PageAddress :
         pmm_alloc_page(stack) /\ proc' = Insert(n, next_pid, stack)
  BY DEF CreateLinked
<1>2. /\ n # NULL
      /\ heap' = r.heap
      /\ next_pid' = (next_pid + 1) % PID_MOD
      /\ UNCHANGED <<current_process, scheduler_ticks, leaked>>
  BY DEF CreateLinked
<1>3. /\ StructHeap(heap') /\ n \in Nat
      /\ n \notin InUse(heap) /\ InUse(heap') = InUse(heap) \cup {n}
  BY <1>2, NewStruct DEF SInv
<1>. HIDE DEF r, n
<1>4. n \notin DOMAIN proc /\ process_list \in DOMAIN proc /\ process_list # n
  BY <1>3 DEF SInv, Ring
<1>5. /\ DOMAIN proc' = DOMAIN proc \cup {n}
      /\ proc' = [p \in DOMAIN proc' |-> proc'[p]]
      /\ proc'[n] = [id |-> next_pid, next |-> proc[process_list].next, stack_base |-> stack]
      /\ proc'[process_list] = [proc[process_list] EXCEPT !.next = n]
      /\ \A q \in DOMAIN proc \ {process_list} : proc'[q] = proc[q]
  BY <1>1, <1>4 DEF Insert
<1>6. /\ proc'[process_list].next = n
      /\ \A q \in DOMAIN proc : /\ proc'[q].id = proc[q].id
                                /\ proc'[q].stack_base = proc[q].stack_base
                                /\ proc'[q] = [id |-> proc'[q].id, next |-> proc'[q].next,
                                               stack_base |-> proc'[q].stack_base]
  <2>1. \A q \in DOMAIN proc :
          proc[q] = [id |-> proc[q].id, next |-> proc[q].next, stack_base |-> proc[q].stack_base]
    BY DEF SInv, Fields
  <2>2. proc'[process_list] = [id |-> proc[process_list].id, next |-> n,
                               stack_base |-> proc[process_list].stack_base]
    BY <1>4, <1>5, <2>1
  <2>. QED
    BY <1>5, <2>1, <2>2
<1>7. PmmInv'
  BY <1>1, AllocKeepsCount DEF SInv
<1>8. /\ DOMAIN proc' \cup leaked' = InUse(heap')
      /\ DOMAIN proc' \cap leaked' = {}
  BY <1>2, <1>3, <1>5 DEF SInv
<1>9. Fields(proc')
  BY <1>1, <1>3, <1>5, <1>6 DEF SInv, Fields
<1>10. Ring(proc')
  BY <1>4, <1>5, <1>6, RingInsert DEF SInv
<1>11. Stacks(proc', pmm_bitmap' \ Reserved)
  <2>. DEFINE others == DOMAIN proc \ {process_list}
  <2>1. /\ \A p \in others : proc[p].stack_base \in PageAddress
        /\ \A p, q \in others : proc[p].stack_base = proc[q].stack_base => p = q
        /\ {proc[p].stack_base \div PAGE_SIZE : p \in others} = pmm_bitmap \ Reserved
    BY DEF SInv, Stacks
  <2>2. DOMAIN proc' \ {process_list} = others \cup {n}
    BY <1>4, <1>5
  <2>3. proc'[n].stack_base = stack /\ \A p \in others : proc'[p].stack_base = proc[p].stack_base
    BY <1>5, <1>6
  <2>4. /\ stack \div PAGE_SIZE \notin pmm_bitmap
        /\ pmm_bitmap' \ Reserved = (pmm_bitmap \ Reserved) \cup {stack \div PAGE_SIZE}
    BY <1>1, NewStack
  <2>5. \A p \in others : proc[p].stack_base # stack
    <3>. SUFFICES ASSUME NEW p \in others, proc[p].stack_base = stack PROVE FALSE
      OBVIOUS
    <3>1. proc[p].stack_base \div PAGE_SIZE \in pmm_bitmap \ Reserved
      BY <2>1
    <3>. QED
      BY <2>4, <3>1
  <2>6. n \notin others
    BY <1>4
  <2>. HIDE DEF others
  <2>7. \A p \in others \cup {n} : proc'[p].stack_base \in PageAddress
    BY <2>1, <2>3
  <2>8. \A p, q \in others \cup {n} : proc'[p].stack_base = proc'[q].stack_base => p = q
    BY <2>1, <2>3, <2>5
  <2>9. {proc'[p].stack_base \div PAGE_SIZE : p \in others \cup {n}} = pmm_bitmap' \ Reserved
    <3>1. {proc'[p].stack_base \div PAGE_SIZE : p \in others \cup {n}} =
          {proc[p].stack_base \div PAGE_SIZE : p \in others} \cup {stack \div PAGE_SIZE}
      BY <2>3
    <3>. QED
      BY <2>1, <2>4, <3>1
  <2>. QED
    BY <2>2, <2>7, <2>8, <2>9 DEF Stacks
<1>12. current_process' \in DOMAIN proc' /\ scheduler_ticks' = scheduler_ticks
  BY <1>2, <1>5 DEF SInv
<1>13. next_pid' \in 0 .. (PID_MOD - 1)
  BY <1>2, Wraps DEF SInv
<1>14. next_pid' \in 0 .. (PID_MOD - 1) /\ scheduler_ticks' \in 0 .. (PID_MOD - 1)
  BY <1>12, <1>13 DEF SInv
<1>. QED
  BY <1>3, <1>5, <1>7, <1>8, <1>9, <1>10, <1>11, <1>12, <1>14 DEF SInv

(* yield moves along the ring. *)
LEMMA YieldSInv ==
  ASSUME SInv, yield
  PROVE  SInv'
<1>1. /\ current_process' = proc[current_process].next
      /\ scheduler_ticks' = (scheduler_ticks + 1) % PID_MOD
      /\ UNCHANGED <<heap, pmm_bitmap, pmm_used_blocks, proc, next_pid, leaked>>
  BY DEF yield
<1>2. current_process' \in DOMAIN proc
  BY <1>1 DEF SInv, Ring
<1>3. scheduler_ticks' \in 0 .. (PID_MOD - 1)
  BY <1>1, Wraps DEF SInv
<1>4. PmmInv'
  BY <1>1 DEF SInv, PmmInv, PmmTypeOK
<1>. QED
  BY <1>1, <1>2, <1>3, <1>4 DEF SInv

(* scheduler_kill takes one structure and its page out of everything.      *)
LEMMA KillSInv ==
  ASSUME SInv, NEW pid, scheduler_kill(pid)
  PROVE  SInv'
<1>1. PICK cur \in Victims(pid), prev \in DOMAIN proc :
         /\ proc[prev].next = cur
         /\ proc' = Unlink(prev, cur)
         /\ current_process' = CurrentAfterKill(cur)
         /\ pmm_free_page(proc[cur].stack_base)
         /\ heap' = kfree(heap, cur)
  BY DEF scheduler_kill, Release
<1>2. UNCHANGED <<next_pid, scheduler_ticks, leaked>>
  BY DEF scheduler_kill
<1>3. cur \in DOMAIN proc \ {process_list}
  BY DEF Victims
<1>4. cur \in InUse(heap)
  BY <1>3 DEF SInv
<1>5. StructHeap(heap') /\ InUse(heap') = InUse(heap) \ {cur}
  BY <1>1, <1>4, OldStruct DEF SInv
<1>6. /\ DOMAIN proc' = DOMAIN proc \ {cur}
      /\ proc' = [p \in DOMAIN proc' |-> proc'[p]]
      /\ prev # cur => proc'[prev] = [proc[prev] EXCEPT !.next = proc[cur].next]
      /\ \A q \in DOMAIN proc' \ {prev} : proc'[q] = proc[q]
  BY <1>1 DEF Unlink
<1>7. /\ prev # cur => proc'[prev].next = proc[cur].next
      /\ \A q \in DOMAIN proc' : /\ proc'[q].id = proc[q].id
                                 /\ proc'[q].stack_base = proc[q].stack_base
                                 /\ proc'[q] = [id |-> proc'[q].id, next |-> proc'[q].next,
                                                stack_base |-> proc'[q].stack_base]
  <2>1. \A q \in DOMAIN proc :
          proc[q] = [id |-> proc[q].id, next |-> proc[q].next, stack_base |-> proc[q].stack_base]
    BY DEF SInv, Fields
  <2>2. prev # cur => proc'[prev] = [id |-> proc[prev].id, next |-> proc[cur].next,
                                     stack_base |-> proc[prev].stack_base]
    BY <1>6, <2>1
  <2>. QED
    BY <1>6, <2>1, <2>2
<1>8. PmmInv'
  BY <1>1, FreeKeepsCount DEF SInv
<1>9. /\ DOMAIN proc' \cup leaked' = InUse(heap')
      /\ DOMAIN proc' \cap leaked' = {}
  BY <1>2, <1>3, <1>5, <1>6 DEF SInv
<1>10. Fields(proc')
  BY <1>6, <1>7 DEF SInv, Fields
<1>11. Ring(proc')
  BY <1>1, <1>3, <1>6, <1>7, RingRemove DEF SInv
<1>12. Stacks(proc', pmm_bitmap' \ Reserved)
  <2>. DEFINE others == DOMAIN proc \ {process_list}
  <2>1. /\ \A p \in others : proc[p].stack_base \in PageAddress
        /\ \A p, q \in others : proc[p].stack_base = proc[q].stack_base => p = q
        /\ {proc[p].stack_base \div PAGE_SIZE : p \in others} = pmm_bitmap \ Reserved
    BY DEF SInv, Stacks
  <2>2. DOMAIN proc' \ {process_list} = others \ {cur}
    BY <1>6
  <2>3. \A p \in others \ {cur} : proc'[p].stack_base = proc[p].stack_base
    BY <1>6, <1>7
  <2>4. cur \in others
    BY <1>3
  <2>. DEFINE page == proc[cur].stack_base \div PAGE_SIZE
  <2>5. page \in pmm_bitmap
    BY <2>1, <2>4
  <2>6. pmm_bitmap' = pmm_bitmap \ {page}
    BY <1>1, <2>1, <2>4, <2>5, OldStack
  <2>7. \A p \in others \ {cur} : proc[p].stack_base \div PAGE_SIZE # page
    <3>. SUFFICES ASSUME NEW p \in others \ {cur}, proc[p].stack_base \div PAGE_SIZE = page
                  PROVE FALSE
      OBVIOUS
    <3>1. proc[p].stack_base = proc[cur].stack_base
      BY <2>1, <2>4, AddressFacts
    <3>. QED
      BY <2>1, <2>4, <3>1
  <2>. HIDE DEF others, page
  <2>8. {proc'[p].stack_base \div PAGE_SIZE : p \in others \ {cur}} = pmm_bitmap' \ Reserved
    <3>1. {proc'[p].stack_base \div PAGE_SIZE : p \in others \ {cur}} =
          {proc[p].stack_base \div PAGE_SIZE : p \in others} \ {page}
      BY <2>3, <2>7 DEF page
    <3>. QED
      BY <2>1, <2>6, <3>1
  <2>9. /\ \A p \in others \ {cur} : proc'[p].stack_base \in PageAddress
        /\ \A p, q \in others \ {cur} : proc'[p].stack_base = proc'[q].stack_base => p = q
    BY <2>1, <2>3
  <2>. QED
    BY <2>2, <2>8, <2>9 DEF Stacks
\* The successor of cur is another structure, since the ring goes on.
<1>13. current_process' \in DOMAIN proc'
  <2>1. prev # cur
    <3>. SUFFICES ASSUME prev = cur PROVE FALSE
      OBVIOUS
    <3>1. {cur} \in SUBSET DOMAIN proc /\ {cur} # {} /\ \A p \in {cur} : proc[p].next \in {cur}
      BY <1>1, <1>3
    <3>2. process_list \in {cur}
      BY <3>1 DEF SInv, Ring
    <3>. QED
      BY <1>3, <3>2
  <2>2. proc[cur].next \in DOMAIN proc'
    BY <1>6, <1>7, <1>11, <2>1 DEF Ring
  <2>. QED
    BY <1>1, <1>6, <2>2 DEF SInv, CurrentAfterKill
<1>. QED
  BY <1>2, <1>5, <1>6, <1>8, <1>9, <1>10, <1>11, <1>12, <1>13 DEF SInv

LEMMA SInductive == Spec => []SInv
<1>1. Init => SInv
  BY InitSInv
<1>2. SInv /\ [Next]_vars => SInv'
  <2>. SUFFICES ASSUME SInv, [Next]_vars PROVE SInv'
    OBVIOUS
  <2>1. CASE CreateNoStack
    BY <2>1, CreateNoStackSInv
  <2>2. CASE CreateLinked
    BY <2>2, CreateLinkedSInv
  <2>3. CASE yield
    BY <2>3, YieldSInv
  <2>4. CASE \E pid \in 0 .. (PID_MOD - 1) : scheduler_kill(pid)
    BY <2>4, KillSInv
  <2>5. CASE UNCHANGED vars
    <3>1. PmmInv'
      BY <2>5 DEF SInv, PmmInv, PmmTypeOK, vars
    <3>. QED
      BY <2>5, <3>1 DEF SInv, vars
  <2>. QED
    BY <2>1, <2>2, <2>3, <2>4, <2>5 DEF Next, create_process, CreateNoStruct
<1>. QED
  BY <1>1, <1>2, PTL DEF Spec

-----------------------------------------------------------------------------
(* Type correctness of the scheduler's variables: process_list and         *)
(* current_process always point at structures that are still on the ring.  *)
THEOREM SchedulerTypes == Spec => []TypeOK
<1>1. SInv => TypeOK
  <2>. SUFFICES ASSUME SInv PROVE TypeOK
    OBVIOUS
  <2>. DEFINE R == [id : 0 .. (PID_MOD - 1), next : Nat, stack_base : {NULL} \cup PageAddress]
  <2>1. ASSUME NEW p \in DOMAIN proc
        PROVE  proc[p] \in R
    <3>1. proc[p].next \in Nat
      BY DEF SInv, Ring, Fields
    <3>. QED
      BY <3>1 DEF SInv, Fields
  <2>2. proc \in [DOMAIN proc -> R]
    BY <2>1 DEF SInv
  <2>. QED
    BY <2>2 DEF SInv, TypeOK, PmmInv, Ring
<1>. QED
  BY <1>1, SInductive, PTL

(* The heap that the scheduler allocates from stays tiled and coalesced.   *)
THEOREM SchedulerHeapSafe == Spec => []HeapInv
<1>1. SInv => HeapInv
  BY DEF SInv, StructHeap, HeapInv
<1>. QED
  BY <1>1, SInductive, PTL

(* However processes come and go, their structures form one ring through   *)
(* process_list: the walks of scheduler_kill, ps and top reach every one   *)
(* of them and come back (Ring).                                           *)
THEOREM RingClosed == Spec => []Ring(proc)
<1>1. SInv => Ring(proc)
  BY DEF SInv
<1>. QED
  BY <1>1, SInductive, PTL

(* No pointer of the scheduler outlives its heap block, and the only       *)
(* blocks it loses are those of create_process without a stack page.       *)
THEOREM StructsSafe == Spec => []StructOwnership
<1>1. SInv => StructOwnership
  <2>. SUFFICES ASSUME SInv PROVE StructOwnership
    OBVIOUS
  <2>1. \A a \in DOMAIN heap : a \in Nat /\ (a + HDR) - HDR = a
    BY Numbers, Constants DEF SInv, StructHeap
  <2>2. DOMAIN proc \cup leaked = {a + HDR : a \in {b \in DOMAIN heap : ~heap[b].free}}
    BY DEF SInv, InUse
  <2>3. {a \in DOMAIN heap : ~heap[a].free} = {p - HDR : p \in DOMAIN proc \cup leaked}
    BY <2>1, <2>2
  <2>4. ASSUME NEW p \in DOMAIN proc
        PROVE  p - HDR \in DOMAIN heap /\ heap[p - HDR].size >= PROC_SIZE
    <3>1. p - HDR \in DOMAIN heap /\ ~heap[p - HDR].free
      BY <2>3
    <3>. QED
      BY <3>1 DEF SInv, StructHeap
  <2>. QED
    BY <2>3, <2>4 DEF SInv, StructOwnership
<1>. QED
  BY <1>1, SInductive, PTL

(* Every process but the kernel's own has a stack page of its own outside  *)
(* the kernel heap, and no page stays taken without a process.             *)
THEOREM StacksSafe == Spec => []StackOwnership
<1>1. SInv => StackOwnership
  BY AddressFacts DEF SInv, Stacks, StackOwnership
<1>. QED
  BY <1>1, SInductive, PTL

(* The processor only ever moves to the next process of the ring, also     *)
(* when its process is killed, and who stays keeps pid and stack.          *)
THEOREM RoundRobinSafe == Spec => RoundRobin
<1>. DEFINE Goes == /\ current_process' \in {current_process, proc[current_process].next}
                    /\ \A p \in DOMAIN proc \cap DOMAIN proc' :
                         /\ proc'[p].id = proc[p].id
                         /\ proc'[p].stack_base = proc[p].stack_base
<1>1. SInv /\ [Next]_vars => [Goes]_vars
  <2>. SUFFICES ASSUME SInv, Next PROVE Goes
    OBVIOUS
  <2>0. \A p \in DOMAIN proc :
          proc[p] = [id |-> proc[p].id, next |-> proc[p].next, stack_base |-> proc[p].stack_base]
    BY DEF SInv, Fields
  <2>1. CASE CreateLinked
    <3>. DEFINE n == kmalloc(heap, PROC_SIZE).ptr
    <3>1. n \notin DOMAIN proc
      BY <2>1, NewStruct DEF CreateLinked, SInv
    <3>. HIDE DEF n
    <3>2. PICK stack : proc' = Insert(n, next_pid, stack)
      BY <2>1 DEF CreateLinked, n
    <3>3. ASSUME NEW p \in DOMAIN proc
          PROVE  proc'[p].id = proc[p].id /\ proc'[p].stack_base = proc[p].stack_base
      <4>1. proc'[p] = IF p = process_list THEN [proc[p] EXCEPT !.next = n] ELSE proc[p]
        BY <3>1, <3>2 DEF Insert
      <4>. QED
        BY <2>0, <4>1
    <3>. QED
      BY <2>1, <3>3 DEF CreateLinked
  <2>2. CASE \E pid \in 0 .. (PID_MOD - 1) : scheduler_kill(pid)
    <3>1. PICK cur \in DOMAIN proc, prev \in DOMAIN proc :
             proc' = Unlink(prev, cur) /\ current_process' = CurrentAfterKill(cur)
      BY <2>2 DEF scheduler_kill, Victims
    <3>2. ASSUME NEW p \in DOMAIN proc'
          PROVE  proc'[p].id = proc[p].id /\ proc'[p].stack_base = proc[p].stack_base
      <4>1. p \in DOMAIN proc
        BY <3>1 DEF Unlink
      <4>2. proc'[p] = IF p = prev THEN [proc[p] EXCEPT !.next = proc[cur].next] ELSE proc[p]
        BY <3>1 DEF Unlink
      <4>. QED
        BY <2>0, <4>1, <4>2
    <3>. QED
      BY <3>1, <3>2 DEF CurrentAfterKill
  <2>3. CASE yield
    BY <2>3 DEF yield
  <2>4. CASE CreateNoStack \/ CreateNoStruct
    BY <2>4 DEF CreateNoStack, CreateNoStruct, vars
  <2>. QED
    BY <2>1, <2>2, <2>3, <2>4 DEF Next, create_process
<1>. QED
  BY <1>1, SInductive, PTL DEF Spec, RoundRobin

-----------------------------------------------------------------------------
(* The ring, counted. *)

(* Induction on a bounded number. *)
LEMMA Climb ==
  ASSUME NEW n \in Nat, NEW S, 0 \in S,
         \A k \in 0 .. (n - 1) : k \in S => k + 1 \in S
  PROVE  \A k \in 0 .. n : k \in S
<1>. DEFINE T == {k \in 0 .. n : k \notin S}
<1>. SUFFICES ASSUME T # {} PROVE FALSE
  OBVIOUS
<1>1. T \in SUBSET Nat
  OBVIOUS
<1>. DEFINE m == Min(T)
<1>2. m \in T /\ \A y \in T : m <= y
  BY <1>1, MinOfNats
<1>. HIDE DEF m
<1>3. m \in 1 .. n
  BY <1>2
<1>4. m - 1 \in 0 .. (n - 1) /\ m - 1 \notin T
  BY <1>2, <1>3
<1>5. m - 1 \in S
  BY <1>4
<1>6. (m - 1) + 1 = m
  BY <1>3
<1>. QED
  BY <1>2, <1>4, <1>5, <1>6

(* What Hop's recursion says. *)
LEMMA HopFacts ==
  ASSUME NEW N \in Nat, N = Cardinality(DOMAIN proc)
  PROVE  /\ Hop[0] = process_list
         /\ \A k \in 1 .. N : Hop[k] = proc[Hop[k - 1]].next
<1>. DEFINE Rec(f, n) == f = [k \in 0 .. n |->
                           IF k = 0 THEN process_list ELSE proc[f[k - 1]].next]
            S == {n \in 0 .. N : \E f : Rec(f, n)}
<1>1. Hop = CHOOSE f : Rec(f, N)
  BY DEF Hop
<1>2. 0 \in S
  <2>. DEFINE f == [k \in 0 .. 0 |-> process_list]
  <2>1. Rec(f, 0)
    OBVIOUS
  <2>. HIDE DEF Rec
  <2>. QED
    BY <2>1
<1>3. ASSUME NEW n \in 0 .. (N - 1), n \in S
      PROVE  n + 1 \in S
  <2>1. PICK f : Rec(f, n)
    BY <1>3
  <2>. DEFINE g == [k \in 0 .. (n + 1) |-> IF k = n + 1 THEN proc[f[n]].next ELSE f[k]]
  <2>2. \A k \in 0 .. n : g[k] = f[k]
    OBVIOUS
  <2>3. ASSUME NEW k \in 0 .. (n + 1)
        PROVE  g[k] = IF k = 0 THEN process_list ELSE proc[g[k - 1]].next
    <3>1. CASE k = n + 1
      <4>1. k - 1 = n /\ k # 0 /\ n \in 0 .. n
        BY <3>1
      <4>. QED
        BY <2>2, <3>1, <4>1
    <3>2. CASE k # n + 1
      <4>1. k \in 0 .. n /\ (k # 0 => k - 1 \in 0 .. n)
        BY <3>2
      <4>2. f[k] = IF k = 0 THEN process_list ELSE proc[f[k - 1]].next
        BY <2>1, <4>1
      <4>. QED
        BY <2>2, <4>1, <4>2
    <3>. QED
      BY <3>1, <3>2
  <2>4. g = [k \in 0 .. (n + 1) |-> g[k]]
    OBVIOUS
  <2>. HIDE DEF g
  <2>5. Rec(g, n + 1)
    BY <2>3, <2>4
  <2>6. n + 1 \in 0 .. N
    OBVIOUS
  <2>. HIDE DEF Rec
  <2>. QED
    BY <2>5, <2>6
<1>4. N \in S
  <2>. HIDE DEF S
  <2>1. \A k \in 0 .. N : k \in S
    BY <1>2, <1>3, Climb
  <2>. QED
    BY <2>1
<1>5. Rec(Hop, N)
  <2>1. PICK f : Rec(f, N)
    BY <1>4
  <2>. HIDE DEF Rec
  <2>. QED
    BY <1>1, <2>1
<1>6. Hop[0] = process_list
  BY <1>5
<1>7. ASSUME NEW k \in 1 .. N PROVE Hop[k] = proc[Hop[k - 1]].next
  <2>1. k \in 0 .. N /\ k # 0
    OBVIOUS
  <2>. QED
    BY <1>5, <2>1
<1>. QED
  BY <1>6, <1>7

(* The walk from process_list meets every structure once, and is back      *)
(* after as many hops as there are structures.                             *)
LEMMA RingCounted ==
  ASSUME Ring(proc), IsFiniteSet(DOMAIN proc), NEW N, N = Cardinality(DOMAIN proc)
  PROVE  /\ N \in Nat /\ N > 0
         /\ Hop[N] = process_list
         /\ {Hop[i] : i \in 0 .. (N - 1)} = DOMAIN proc
         /\ \A i, j \in 0 .. (N - 1) : Hop[i] = Hop[j] => i = j
<1>. DEFINE D == DOMAIN proc
            nx(p) == proc[p].next
<1>1. /\ process_list \in D
      /\ \A p \in D : nx(p) \in D
      /\ \A p, q \in D : nx(p) = nx(q) => p = q
      /\ \A S \in SUBSET D : S # {} /\ (\A p \in S : nx(p) \in S) => process_list \in S
  BY DEF Ring
<1>2. N \in Nat /\ N > 0
  <2>1. N \in Nat
    BY FS_CardinalityType
  <2>2. N # 0
    BY <1>1, FS_EmptySet
  <2>. QED
    BY <2>1, <2>2
<1>3. Hop[0] = process_list /\ \A k \in 1 .. N : Hop[k] = nx(Hop[k - 1])
  BY <1>2, HopFacts
<1>. HIDE DEF nx
<1>4. \A k \in 0 .. N : Hop[k] \in D
  <2>. DEFINE S == {k \in 0 .. N : Hop[k] \in D}
  <2>1. 0 \in S
    BY <1>1, <1>2, <1>3
  <2>2. ASSUME NEW k \in 0 .. (N - 1), k \in S PROVE k + 1 \in S
    <3>1. k + 1 \in 1 .. N /\ (k + 1) - 1 = k /\ k + 1 \in 0 .. N
      BY <1>2
    <3>2. Hop[k + 1] = nx(Hop[k])
      BY <1>3, <3>1
    <3>. QED
      BY <1>1, <2>2, <3>1, <3>2
  <2>. HIDE DEF S
  <2>3. \A k \in 0 .. N : k \in S
    BY <1>2, <2>1, <2>2, Climb
  <2>. QED
    BY <2>3 DEF S
<1>5. ASSUME NEW m \in 1 .. (N - 1), Hop[m] = process_list
      PROVE  FALSE
  <2>. DEFINE S == {Hop[k] : k \in 0 .. (m - 1)}
              C == D \ S
  <2>1. S \subseteq D
    BY <1>2, <1>4
  <2>2. ASSUME NEW p \in D, nx(p) \in S PROVE p \in S
    <3>1. PICK k \in 0 .. (m - 1) : nx(p) = Hop[k]
      BY <2>2
    <3>2. CASE k = 0
      <4>1. m \in 1 .. N /\ m - 1 \in 0 .. N /\ m - 1 \in 0 .. (m - 1)
        BY <1>2
      <4>2. Hop[m] = nx(Hop[m - 1]) /\ Hop[m - 1] \in D
        BY <1>3, <1>4, <4>1
      <4>3. p = Hop[m - 1]
        BY <1>1, <1>3, <1>5, <3>1, <3>2, <4>2
      <4>. QED
        BY <4>1, <4>3
    <3>3. CASE k # 0
      <4>1. k \in 1 .. N /\ k - 1 \in 0 .. N /\ k - 1 \in 0 .. (m - 1)
        BY <1>2, <3>3
      <4>2. Hop[k] = nx(Hop[k - 1]) /\ Hop[k - 1] \in D
        BY <1>3, <1>4, <4>1
      <4>3. p = Hop[k - 1]
        BY <1>1, <3>1, <4>2
      <4>. QED
        BY <4>1, <4>3
    <3>. QED
      BY <3>2, <3>3
  <2>3. process_list \in S
    <3>1. 0 \in 0 .. (m - 1)
      OBVIOUS
    <3>. QED
      BY <1>3, <3>1
  <2>. HIDE DEF S
  <2>4. C = {}
    BY <1>1, <2>2, <2>3
  <2>5. S = D
    BY <2>1, <2>4
  <2>. DEFINE f == [i \in 1 .. m |-> Hop[i - 1]]
  <2>6. f \in Surjection(1 .. m, D)
    <3>1. \A i \in 1 .. m : i - 1 \in 0 .. (m - 1) /\ i - 1 \in 0 .. N
      BY <1>2
    <3>2. f \in [1 .. m -> D]
      BY <1>4, <3>1
    <3>3. ASSUME NEW p \in D PROVE \E i \in 1 .. m : f[i] = p
      <4>1. PICK k \in 0 .. (m - 1) : p = Hop[k]
        BY <2>5 DEF S
      <4>2. k + 1 \in 1 .. m /\ (k + 1) - 1 = k
        OBVIOUS
      <4>. QED
        BY <4>1, <4>2
    <3>. HIDE DEF f
    <3>. QED
      BY <3>2, <3>3 DEF Surjection
  <2>7. Cardinality(D) <= m
    <3>. HIDE DEF f, D
    <3>1. m \in Nat
      OBVIOUS
    <3>2. ExistsSurjection(1 .. m, D)
      BY <2>6 DEF ExistsSurjection
    <3>. QED
      BY <3>1, <3>2, FS_SurjCardinalityBound
  <2>. QED
    BY <1>2, <2>7
<1>6. \A i \in 0 .. (N - 1) : \A j \in (i + 1) .. (N - 1) : Hop[i] # Hop[j]
  <2>. DEFINE S == {i \in 0 .. (N - 1) : \A j \in (i + 1) .. (N - 1) : Hop[i] # Hop[j]}
  <2>1. 0 \in S
    BY <1>2, <1>3, <1>5
  <2>2. ASSUME NEW k \in 0 .. ((N - 1) - 1), k \in S PROVE k + 1 \in S
    <3>1. ASSUME NEW j \in ((k + 1) + 1) .. (N - 1), Hop[k + 1] = Hop[j] PROVE FALSE
      <4>1. /\ k + 1 \in 1 .. N /\ (k + 1) - 1 = k /\ k \in 0 .. N
            /\ j \in 1 .. N /\ j - 1 \in 0 .. N /\ j - 1 \in (k + 1) .. (N - 1)
        BY <1>2
      <4>2. Hop[k + 1] = nx(Hop[k]) /\ Hop[j] = nx(Hop[j - 1])
        BY <1>3, <4>1
      <4>3. Hop[k] = Hop[j - 1]
        BY <1>1, <1>4, <3>1, <4>1, <4>2
      <4>. QED
        BY <2>2, <4>1, <4>3
    <3>2. k + 1 \in 0 .. (N - 1)
      BY <1>2
    <3>. QED
      BY <3>1, <3>2
  <2>. HIDE DEF S
  <2>3. N - 1 \in Nat
    BY <1>2
  <2>4. \A k \in 0 .. (N - 1) : k \in S
    BY <2>1, <2>2, <2>3, Climb
  <2>. QED
    BY <2>4 DEF S
<1>7. \A i, j \in 0 .. (N - 1) : Hop[i] = Hop[j] => i = j
  <2>. SUFFICES ASSUME NEW i \in 0 .. (N - 1), NEW j \in 0 .. (N - 1), i # j
                PROVE  Hop[i] # Hop[j]
    OBVIOUS
  <2>1. CASE i < j
    <3>1. j \in (i + 1) .. (N - 1)
      BY <1>2, <2>1
    <3>. QED
      BY <1>6, <3>1
  <2>2. CASE j < i
    <3>1. i \in (j + 1) .. (N - 1)
      BY <1>2, <2>2
    <3>. QED
      BY <1>6, <3>1
  <2>. QED
    BY <1>2, <2>1, <2>2
<1>8. {Hop[i] : i \in 0 .. (N - 1)} = D
  <2>. DEFINE I == 0 .. (N - 1)
              f == [i \in I |-> Hop[i]]
  <2>1. IsFiniteSet(I) /\ Cardinality(I) = N
    <3>1. N - 1 \in Int /\ 0 \in Int
      BY <1>2
    <3>2. IsFiniteSet(I) /\ Cardinality(I) = IF 0 > N - 1 THEN 0 ELSE (N - 1) - 0 + 1
      BY <3>1, FS_Interval
    <3>. QED
      BY <1>2, <3>2
  <2>2. \A i \in I : i \in 0 .. N
    BY <1>2
  <2>3. f \in [I -> D]
    BY <1>4, <2>2
  <2>4. \A i, j \in I : f[i] = f[j] => i = j
    BY <1>7
  <2>5. f \in Injection(I, D)
    <3>. HIDE DEF f, I
    <3>. QED
      BY <2>3, <2>4 DEF Injection, IsInjective
  <2>6. f \in Surjection(I, D)
    <3>. HIDE DEF f, I
    <3>. QED
      BY <2>1, <2>5, FS_Injection
  <2>7. \A p \in D : \E i \in I : f[i] = p
    <3>. HIDE DEF f, I
    <3>. QED
      BY <2>6 DEF Surjection
  <2>8. \A p \in D : \E i \in I : Hop[i] = p
    BY <2>7
  <2>. QED
    BY <1>4, <2>2, <2>8
<1>9. Hop[N] = process_list
  <2>1. N \in 0 .. N /\ N \in 1 .. N /\ N - 1 \in 0 .. N /\ N - 1 \in 0 .. (N - 1)
    BY <1>2
  <2>2. PICK k \in 0 .. (N - 1) : Hop[N] = Hop[k]
    BY <1>4, <1>8, <2>1
  <2>3. CASE k = 0
    BY <1>3, <2>2, <2>3
  <2>4. CASE k # 0
    <3>1. k \in 1 .. N /\ k - 1 \in 0 .. (N - 1) /\ k - 1 \in 0 .. N /\ k - 1 # N - 1
      BY <1>2, <2>4
    <3>2. Hop[N] = nx(Hop[N - 1]) /\ Hop[k] = nx(Hop[k - 1])
      BY <1>3, <2>1, <3>1
    <3>3. Hop[N - 1] = Hop[k - 1]
      BY <1>1, <1>4, <2>1, <2>2, <3>1, <3>2
    <3>. QED
      BY <1>7, <2>1, <3>1, <3>3
  <2>. QED
    BY <2>3, <2>4
<1>. QED
  BY <1>2, <1>7, <1>8, <1>9

(* Only so many structures fit into the heap. *)
LEMMA ProcsFinite ==
  ASSUME SInv
  PROVE  IsFiniteSet(DOMAIN proc)
<1>1. ASSUME NEW p \in DOMAIN proc PROVE p \in Nat /\ p <= HEAP_END
  <2>1. PICK a \in DOMAIN heap : p = a + HDR
    BY DEF SInv, InUse
  <2>2. a \in Nat /\ a + HDR <= HEAP_END
    BY Numbers DEF SInv, StructHeap
  <2>. QED
    BY <2>1, <2>2, Constants
<1>2. DOMAIN proc \in SUBSET Nat /\ HEAP_END \in Nat
  BY <1>1, Constants
<1>. QED
  BY <1>1, <1>2, FS_BoundedSetOfNaturals

(* However processes come and go, the walk from process_list meets every   *)
(* structure once and is back after as many hops as there are structures:  *)
(* the loops of scheduler_kill, ps and top end and miss nobody, and ps     *)
(* marks one process as current unless its array ends before that one.     *)
THEOREM RingSafe == Spec => []RingIntact
<1>1. SInv => RingIntact
  <2>. SUFFICES ASSUME SInv PROVE RingIntact
    OBVIOUS
  <2>. DEFINE N == Cardinality(DOMAIN proc)
              n == IF MAX_COUNT < N THEN MAX_COUNT ELSE N
              marked == {i \in DOMAIN scheduler_snapshot : scheduler_snapshot[i].current}
              M == {i \in 1 .. n : Hop[i - 1] = current_process}
  <2>1. /\ N \in Nat /\ N > 0 /\ Hop[N] = process_list
        /\ {Hop[i] : i \in 0 .. (N - 1)} = DOMAIN proc
        /\ \A i, j \in 0 .. (N - 1) : Hop[i] = Hop[j] => i = j
    BY ProcsFinite, RingCounted DEF SInv
  <2>2. marked = M
    <3>1. DOMAIN scheduler_snapshot = 1 .. n
      BY DEF scheduler_snapshot
    <3>2. ASSUME NEW i \in 1 .. n
          PROVE  scheduler_snapshot[i].current = (Hop[i - 1] = current_process)
      BY DEF scheduler_snapshot
    <3>. HIDE DEF n
    <3>. QED
      BY <3>1, <3>2
  <2>. HIDE DEF marked, N
  <2>3. n \in Nat /\ n <= N /\ (N <= MAX_COUNT => n = N)
    BY <2>1, SchedAssumption
  <2>. HIDE DEF n
  <2>4. ASSUME NEW i \in M, NEW j \in M PROVE i = j
    <3>1. i \in Nat /\ j \in Nat /\ i - 1 \in 0 .. (N - 1) /\ j - 1 \in 0 .. (N - 1)
      BY <2>1, <2>3
    <3>2. i - 1 = j - 1
      BY <2>1, <3>1
    <3>. QED
      BY <3>1, <3>2
  <2>5. M = {} \/ \E i \in M : M = {i}
    BY <2>4
  <2>6. Cardinality(M) <= 1
    <3>. HIDE DEF M
    <3>1. CASE M = {}
      BY <3>1, FS_EmptySet
    <3>2. CASE \E i \in M : M = {i}
      BY <3>2, FS_Singleton
    <3>. QED
      BY <2>5, <3>1, <3>2
  <2>7. ASSUME N <= MAX_COUNT PROVE Cardinality(M) = 1
    <3>1. PICK k \in 0 .. (N - 1) : Hop[k] = current_process
      BY <2>1 DEF SInv
    <3>2. k + 1 \in 1 .. n /\ (k + 1) - 1 = k
      BY <2>1, <2>3, <2>7
    <3>3. k + 1 \in M
      BY <3>1, <3>2
    <3>. HIDE DEF M
    <3>4. \E i \in M : M = {i}
      BY <2>5, <3>3
    <3>. QED
      BY <3>4, FS_Singleton
  <2>. HIDE DEF M
  <2>8. Cardinality(marked) <= 1 /\ (N <= MAX_COUNT => Cardinality(marked) = 1)
    BY <2>2, <2>6, <2>7
  <2>. QED
    BY <2>1, <2>8 DEF RingIntact, marked, N
<1>. QED
  BY <1>1, SInductive, PTL

-----------------------------------------------------------------------------
(* The byte counts.  MapThenSumSet takes the elements of a set in whatever *)
(* order CHOOSE gives them; SumOf is the same with the summands as a       *)
(* function.                                                               *)

Pick(s) == CHOOSE x \in s : TRUE
SumBody(w, g, s) == IF s = {} THEN 0 ELSE w[Pick(s)] + g[s \ {Pick(s)}]
IsSum(w, S, g) == g = [s \in SUBSET S |-> SumBody(w, g, s)]
SumOf(w, S) == LET g == CHOOSE g : IsSum(w, S, g) IN g[S]

LEMMA PickIn == ASSUME NEW s, s # {} PROVE Pick(s) \in s
  BY DEF Pick

(* What is left of a finite set without one of its elements. *)
LEMMA OneLess ==
  ASSUME NEW s, IsFiniteSet(s), NEW x \in s
  PROVE  /\ IsFiniteSet(s \ {x})
         /\ Cardinality(s) \in Nat /\ Cardinality(s \ {x}) \in Nat
         /\ Cardinality(s) = Cardinality(s \ {x}) + 1
<1>1. IsFiniteSet(s \ {x}) /\ Cardinality(s \ {x}) = Cardinality(s) - 1
  BY FS_RemoveElement
<1>2. Cardinality(s) \in Nat /\ Cardinality(s \ {x}) \in Nat
  BY <1>1, FS_CardinalityType
<1>. QED
  BY <1>1, <1>2

(* There is a function that the recursion of the sum defines: n steps of   *)
(* it are right for the sets of up to n elements.                          *)
LEMMA SumExists ==
  ASSUME NEW S, IsFiniteSet(S), NEW w \in [S -> Nat]
  PROVE  \E g : IsSum(w, S, g)
<1>. DEFINE G == [SUBSET S -> Nat]
            Upto(g, n) == \A s \in SUBSET S : Cardinality(s) <= n => g[s] = SumBody(w, g, s)
            N == Cardinality(S)
            Done == {n \in 0 .. N : \E g \in G : Upto(g, n)}
<1>1. N \in Nat /\ \A s \in SUBSET S : IsFiniteSet(s) /\ Cardinality(s) \in Nat /\ Cardinality(s) <= N
  BY FS_Subset, FS_CardinalityType
<1>2. \A s \in SUBSET S : Cardinality(s) <= 0 => s = {}
  BY <1>1, FS_EmptySet
<1>3. 0 \in Done
  <2>. DEFINE z == [s \in SUBSET S |-> 0]
  <2>1. z \in G
    OBVIOUS
  <2>2. Upto(z, 0)
    BY <1>2 DEF SumBody
  <2>. HIDE DEF z, Upto, G
  <2>. QED
    BY <1>1, <2>1, <2>2
<1>4. ASSUME NEW n \in 0 .. (N - 1), n \in Done
      PROVE  n + 1 \in Done
  <2>1. PICK g \in G : Upto(g, n)
    BY <1>4
  <2>. DEFINE f == [s \in SUBSET S |-> SumBody(w, g, s)]
  <2>2. ASSUME NEW s \in SUBSET S, s # {}
        PROVE  /\ Pick(s) \in S /\ Pick(s) \in s /\ s \ {Pick(s)} \in SUBSET S
               /\ w[Pick(s)] \in Nat /\ g[s \ {Pick(s)}] \in Nat
               /\ Cardinality(s) <= n + 1 => Cardinality(s \ {Pick(s)}) <= n
    <3>1. Pick(s) \in s
      BY <2>2, PickIn
    <3>2. Cardinality(s) = Cardinality(s \ {Pick(s)}) + 1 /\ Cardinality(s \ {Pick(s)}) \in Nat
      BY <1>1, <3>1, OneLess
    <3>3. Cardinality(s) <= n + 1 => Cardinality(s \ {Pick(s)}) <= n
      BY <3>2
    <3>. QED
      BY <3>1, <3>3
  <2>3. f \in G
    <3>. SUFFICES ASSUME NEW s \in SUBSET S PROVE SumBody(w, g, s) \in Nat
      OBVIOUS
    <3>. QED
      BY <2>2 DEF SumBody
  <2>4. ASSUME NEW s \in SUBSET S, Cardinality(s) <= n + 1
        PROVE  f[s] = SumBody(w, f, s)
    <3>1. CASE s = {}
      BY <3>1 DEF SumBody
    <3>2. CASE s # {}
      <4>. DEFINE r == s \ {Pick(s)}
      <4>1. r \in SUBSET S /\ Cardinality(r) <= n
        BY <2>2, <2>4, <3>2
      <4>2. f[r] = SumBody(w, g, r) /\ g[r] = SumBody(w, g, r)
        BY <2>1, <4>1
      <4>3. f[s] = w[Pick(s)] + g[r]
        BY <3>2 DEF SumBody
      <4>. QED
        BY <3>2, <4>2, <4>3 DEF SumBody
    <3>. QED
      BY <3>1, <3>2
  <2>5. Upto(f, n + 1)
    BY <2>4
  <2>. HIDE DEF f, Upto, G
  <2>. QED
    BY <1>1, <2>3, <2>5
<1>5. N \in Done
  <2>. HIDE DEF Done, N
  <2>. QED
    BY <1>1, <1>3, <1>4, Climb
<1>6. PICK g \in G : Upto(g, N)
  BY <1>5
<1>7. \A s \in SUBSET S : g[s] = SumBody(w, g, s)
  BY <1>1, <1>6
<1>8. IsSum(w, S, g)
  BY <1>6, <1>7 DEF IsSum
<1>. QED
  BY <1>8

(* Any element may be taken first. *)
LEMMA SumFacts ==
  ASSUME NEW S, IsFiniteSet(S), NEW w \in [S -> Nat], NEW g, IsSum(w, S, g)
  PROVE  /\ g[{}] = 0
         /\ \A s \in SUBSET S : g[s] \in Nat /\ \A x \in s : g[s] = w[x] + g[s \ {x}]
<1>. DEFINE Fine(s) == g[s] \in Nat /\ \A x \in s : g[s] = w[x] + g[s \ {x}]
            N == Cardinality(S)
            Done == {n \in 0 .. N : \A s \in SUBSET S : Cardinality(s) <= n => Fine(s)}
<1>1. N \in Nat /\ \A s \in SUBSET S : IsFiniteSet(s) /\ Cardinality(s) \in Nat /\ Cardinality(s) <= N
  BY FS_Subset, FS_CardinalityType
<1>2. \A s \in SUBSET S : g[s] = SumBody(w, g, s)
  BY DEF IsSum
<1>3. g[{}] = 0
  BY <1>2 DEF SumBody
<1>4. 0 \in Done
  <2>1. \A s \in SUBSET S : Cardinality(s) <= 0 => s = {}
    BY <1>1, FS_EmptySet
  <2>2. Fine({})
    BY <1>3
  <2>. HIDE DEF Fine
  <2>. QED
    BY <1>1, <2>1, <2>2
<1>5. ASSUME NEW n \in 0 .. (N - 1), n \in Done
      PROVE  n + 1 \in Done
  <2>1. ASSUME NEW s \in SUBSET S, Cardinality(s) <= n + 1
        PROVE  Fine(s)
    <3>1. CASE s = {}
      BY <1>3, <3>1
    <3>2. CASE s # {}
      <4>. DEFINE y == Pick(s)
      <4>1. y \in s /\ y \in S /\ w[y] \in Nat
        BY <3>2, PickIn
      <4>2. ASSUME NEW x \in s
            PROVE  s \ {x} \in SUBSET S /\ Fine(s \ {x}) /\ w[x] \in Nat
        <5>1. Cardinality(s) = Cardinality(s \ {x}) + 1 /\ Cardinality(s \ {x}) \in Nat
          BY <1>1, OneLess
        <5>2. Cardinality(s \ {x}) <= n
          BY <2>1, <5>1
        <5>. QED
          BY <1>5, <5>2
      <4>3. g[s] = w[y] + g[s \ {y}]
        BY <1>2, <3>2 DEF SumBody
      <4>. HIDE DEF y
      <4>4. g[s] \in Nat
        <5>1. g[s \ {y}] \in Nat
          BY <4>1, <4>2
        <5>. QED
          BY <4>1, <4>3, <5>1
      <4>5. ASSUME NEW x \in s, x # y
            PROVE  g[s] = w[x] + g[s \ {x}]
        <5>1. g[s \ {y}] = w[x] + g[(s \ {y}) \ {x}]
          BY <4>1, <4>2, <4>5
        <5>2. g[s \ {x}] = w[y] + g[(s \ {x}) \ {y}]
          BY <4>1, <4>2, <4>5
        <5>3. (s \ {y}) \ {x} = (s \ {x}) \ {y}
          OBVIOUS
        <5>. DEFINE k == g[(s \ {x}) \ {y}]
        <5>4. k \in Nat
          <6>1. y \in s \ {x} /\ IsFiniteSet(s \ {x}) /\ IsFiniteSet(s)
            BY <1>1, <4>1, <4>5
          <6>2. /\ Cardinality(s) = Cardinality(s \ {x}) + 1
                /\ Cardinality(s \ {x}) = Cardinality((s \ {x}) \ {y}) + 1
                /\ Cardinality(s \ {x}) \in Nat /\ Cardinality((s \ {x}) \ {y}) \in Nat
            BY <6>1, OneLess
          <6>3. Cardinality((s \ {x}) \ {y}) <= n
            BY <2>1, <6>2
          <6>4. (s \ {x}) \ {y} \in SUBSET S
            OBVIOUS
          <6>. QED
            BY <1>5, <6>3, <6>4
        <5>5. w[x] \in Nat /\ w[y] \in Nat
          BY <4>1, <4>2
        <5>. HIDE DEF k
        <5>6. g[s] = w[y] + (w[x] + k) /\ g[s \ {x}] = w[y] + k
          BY <4>3, <5>1, <5>2, <5>3 DEF k
        <5>. QED
          BY <5>4, <5>5, <5>6
      <4>. QED
        BY <4>3, <4>4, <4>5
    <3>. QED
      BY <3>1, <3>2
  <2>. HIDE DEF Fine
  <2>. QED
    BY <1>1, <2>1
<1>6. N \in Done
  <2>. HIDE DEF Done, N
  <2>. QED
    BY <1>1, <1>4, <1>5, Climb
<1>. QED
  BY <1>1, <1>3, <1>6

TheSum(w, S) == CHOOSE g : IsSum(w, S, g)

LEMMA SumRule ==
  ASSUME NEW S, IsFiniteSet(S), NEW w \in [S -> Nat]
  PROVE  /\ TheSum(w, S)[{}] = 0
         /\ \A s \in SUBSET S : TheSum(w, S)[s] \in Nat
         /\ \A s \in SUBSET S : \A x \in s :
              TheSum(w, S)[s] = w[x] + TheSum(w, S)[s \ {x}]
<1>1. IsSum(w, S, TheSum(w, S))
  BY SumExists DEF TheSum
<1>. DEFINE g == TheSum(w, S)
<1>. HIDE DEF g
<1>2. IsSum(w, S, g)
  BY <1>1 DEF g
<1>3. /\ g[{}] = 0
      /\ \A s \in SUBSET S : g[s] \in Nat /\ \A x \in s : g[s] = w[x] + g[s \ {x}]
  BY <1>2, SumFacts
<1>. QED
  BY <1>3 DEF g

(* The blocks in use or free, their sizes, and what a set of blocks takes  *)
(* of the region, headers included.                                        *)
BlocksThat(h, free) == {a \in DOMAIN h : h[a].free = free}
SizesOf(h, S) == [a \in S |-> h[a].size]
PartSum(h, free, s) ==
  TheSum(SizesOf(h, BlocksThat(h, free)), BlocksThat(h, free))[s \cap BlocksThat(h, free)]
Takes(h, s) == PartSum(h, TRUE, s) + PartSum(h, FALSE, s) + HDR * Cardinality(s)

LEMMA BlocksFinite ==
  ASSUME NEW h, Typed(h)
  PROVE  IsFiniteSet(DOMAIN h)
<1>1. DOMAIN h \in SUBSET (0 .. HEAP_END)
  <2>. SUFFICES ASSUME NEW x \in DOMAIN h PROVE x \in 0 .. HEAP_END
    OBVIOUS
  <2>. QED
    BY Numbers, Constants
<1>2. IsFiniteSet(0 .. HEAP_END)
  BY FS_Interval, Constants
<1>. QED
  BY <1>1, <1>2, FS_Subset

LEMMA PartSumRule ==
  ASSUME NEW h, Typed(h), NEW free \in BOOLEAN
  PROVE  /\ PartSum(h, free, {}) = 0
         /\ \A s \in SUBSET DOMAIN h : PartSum(h, free, s) \in Nat
         /\ \A s \in SUBSET DOMAIN h : \A x \in s :
              /\ h[x].free = free => PartSum(h, free, s) = h[x].size + PartSum(h, free, s \ {x})
              /\ h[x].free # free => PartSum(h, free, s) = PartSum(h, free, s \ {x})
<1>. DEFINE B == BlocksThat(h, free)
            w == SizesOf(h, B)
            g == TheSum(w, B)
<1>1. B \subseteq DOMAIN h /\ \A x \in DOMAIN h : x \in B <=> h[x].free = free
  BY DEF BlocksThat
<1>2. IsFiniteSet(B)
  BY <1>1, BlocksFinite, FS_Subset
<1>3. w \in [B -> Nat] /\ \A x \in B : w[x] = h[x].size
  BY <1>1, Numbers DEF SizesOf
<1>4. \A s : PartSum(h, free, s) = g[s \cap B]
  BY DEF PartSum
<1>. HIDE DEF B, w, g
<1>5. /\ g[{}] = 0
      /\ \A s \in SUBSET B : g[s] \in Nat
      /\ \A s \in SUBSET B : \A x \in s : g[s] = w[x] + g[s \ {x}]
  BY <1>2, <1>3, SumRule DEF g
<1>6. ASSUME NEW s \in SUBSET DOMAIN h, NEW x \in s
      PROVE  /\ h[x].free = free => g[s \cap B] = h[x].size + g[(s \ {x}) \cap B]
             /\ h[x].free # free => g[s \cap B] = g[(s \ {x}) \cap B]
  <2>1. CASE x \in B
    <3>1. (s \ {x}) \cap B = (s \cap B) \ {x}
      OBVIOUS
    <3>2. g[s \cap B] = w[x] + g[(s \cap B) \ {x}]
      BY <1>5, <2>1
    <3>3. w[x] = h[x].size /\ h[x].free = free
      BY <1>1, <1>3, <2>1
    <3>. QED
      BY <3>1, <3>2, <3>3
  <2>2. CASE x \notin B
    <3>1. (s \ {x}) \cap B = s \cap B
      BY <2>2
    <3>2. h[x].free # free
      BY <1>1, <2>2
    <3>. QED
      BY <3>1, <3>2
  <2>. QED
    BY <2>1, <2>2
<1>7. {} \cap B = {} /\ \A s : s \cap B \in SUBSET B
  OBVIOUS
<1>8. PartSum(h, free, {}) = 0
  BY <1>4, <1>5, <1>7
<1>9. ASSUME NEW s \in SUBSET DOMAIN h PROVE PartSum(h, free, s) \in Nat
  <2>1. g[s \cap B] \in Nat
    BY <1>5, <1>7
  <2>. QED
    BY <1>4, <2>1
<1>10. ASSUME NEW s \in SUBSET DOMAIN h, NEW x \in s
       PROVE  /\ h[x].free = free => PartSum(h, free, s) = h[x].size + PartSum(h, free, s \ {x})
              /\ h[x].free # free => PartSum(h, free, s) = PartSum(h, free, s \ {x})
  BY <1>4, <1>6
<1>. QED
  BY <1>8, <1>9, <1>10

LEMMA TakesRule ==
  ASSUME NEW h, Typed(h)
  PROVE  /\ Takes(h, {}) = 0
         /\ \A s \in SUBSET DOMAIN h : Takes(h, s) \in Nat
         /\ \A s \in SUBSET DOMAIN h : \A x \in s :
              Takes(h, s) = Takes(h, s \ {x}) + HDR + h[x].size
<1>a. PICK yes \in BOOLEAN : yes = TRUE
  OBVIOUS
<1>b. PICK no \in BOOLEAN : no = FALSE
  OBVIOUS
<1>. DEFINE T(s) == PartSum(h, yes, s)
            F(s) == PartSum(h, no, s)
<1>1. /\ T({}) = 0
      /\ \A s \in SUBSET DOMAIN h : T(s) \in Nat
      /\ \A s \in SUBSET DOMAIN h : \A x \in s :
           /\ h[x].free = yes => T(s) = h[x].size + T(s \ {x})
           /\ h[x].free # yes => T(s) = T(s \ {x})
  BY PartSumRule
<1>0. /\ F({}) = 0
      /\ \A s \in SUBSET DOMAIN h : F(s) \in Nat
      /\ \A s \in SUBSET DOMAIN h : \A x \in s :
           /\ h[x].free = no => F(s) = h[x].size + F(s \ {x})
           /\ h[x].free # no => F(s) = F(s \ {x})
  BY PartSumRule
<1>2. \A s \in SUBSET DOMAIN h : IsFiniteSet(s) /\ Cardinality(s) \in Nat
  BY BlocksFinite, FS_Subset, FS_CardinalityType
<1>3. \A s : Takes(h, s) = T(s) + F(s) + HDR * Cardinality(s)
  BY <1>a, <1>b DEF Takes
<1>. HIDE DEF T, F
<1>4. \A k \in Nat : HDR * k \in Nat /\ HDR * (k + 1) = HDR * k + HDR
  BY Constants
<1>5. Takes(h, {}) = 0
  BY <1>0, <1>1, <1>3, FS_EmptySet, Constants
<1>6. ASSUME NEW s \in SUBSET DOMAIN h
      PROVE  Takes(h, s) \in Nat
  BY <1>0, <1>1, <1>2, <1>3, <1>4
<1>7. ASSUME NEW s \in SUBSET DOMAIN h, NEW x \in s
      PROVE  Takes(h, s) = Takes(h, s \ {x}) + HDR + h[x].size
  <2>. DEFINE r == s \ {x}
              k == Cardinality(r)
              z == h[x].size
              t == T(r)
              f == F(r)
              p == HDR * k
  <2>1. r \in SUBSET DOMAIN h /\ z \in Nat /\ h[x].free \in BOOLEAN
    BY Numbers
  <2>2. k \in Nat /\ Cardinality(s) = k + 1
    BY <1>2, OneLess
  <2>3. p \in Nat /\ HDR * Cardinality(s) = p + HDR
    BY <1>4, <2>2
  <2>4. Takes(h, r) = t + f + p /\ Takes(h, s) = T(s) + F(s) + (p + HDR)
    BY <1>3, <2>3
  <2>5. t \in Nat /\ f \in Nat
    BY <1>0, <1>1, <2>1
  <2>6. T(s) + F(s) = t + f + z
    <3>1. /\ h[x].free = TRUE => T(s) = z + t /\ F(s) = f
          /\ h[x].free = FALSE => T(s) = t /\ F(s) = z + f
      BY <1>a, <1>b, <1>0, <1>1
    <3>. HIDE DEF t, f, z
    <3>2. CASE h[x].free = TRUE
      BY <2>1, <2>5, <3>1, <3>2
    <3>3. CASE h[x].free = FALSE
      BY <2>1, <2>5, <3>1, <3>3
    <3>. QED
      BY <2>1, <3>2, <3>3
  <2>. HIDE DEF t, f, p, z, k, r
  <2>7. T(s) \in Nat /\ F(s) \in Nat
    BY <1>0, <1>1
  <2>8. Takes(h, s) = Takes(h, r) + HDR + z
    BY <2>1, <2>3, <2>4, <2>5, <2>6, <2>7, Constants
  <2>. QED
    BY <2>8 DEF r, z
<1>. QED
  BY <1>5, <1>6, <1>7

(* The blocks below a block take all bytes from the region's start to it.  *)
Below(h, a) == {b \in DOMAIN h : b < a}

LEMMA TakesBelow ==
  ASSUME NEW h, Typed(h), Tiles(h)
  PROVE  \A a \in DOMAIN h : Takes(h, Below(h, a)) = a - HEAP_START
<1>. DEFINE Bad == {a \in DOMAIN h : Takes(h, Below(h, a)) # a - HEAP_START}
<1>. SUFFICES ASSUME Bad # {} PROVE FALSE
  OBVIOUS
<1>1. Bad \in SUBSET Nat
  BY Numbers
<1>. DEFINE m == Min(Bad)
<1>2. m \in Bad /\ \A y \in Bad : m <= y
  BY <1>1, MinOfNats
<1>. HIDE DEF m
<1>3. m \in DOMAIN h /\ m \in Nat
  BY <1>1, <1>2
<1>4. CASE m = HEAP_START
  <2>1. Below(h, m) = {}
    BY <1>4, Numbers, Constants DEF Below
  <2>. QED
    <3>1. Takes(h, Below(h, m)) = 0 /\ m - HEAP_START = 0
      BY <1>3, <1>4, <2>1, TakesRule
    <3>. QED
      BY <1>2, <3>1
<1>5. CASE m # HEAP_START
  <2>1. PICK c \in DOMAIN h : /\ c < m /\ h[c].next = m
                              /\ \A x \in DOMAIN h : x < m => x <= c
    BY <1>3, <1>5, Predecessor
  <2>2. c \in Nat /\ c >= HEAP_START /\ h[c].size \in Nat
    BY Numbers
  <2>3. c \notin Bad
    BY <1>2, <1>3, <2>1, <2>2
  <2>4. Takes(h, Below(h, c)) = c - HEAP_START
    BY <2>3
  <2>5. Below(h, m) \in SUBSET DOMAIN h /\ c \in Below(h, m) /\ Below(h, m) \ {c} = Below(h, c)
    <3>1. \A x \in DOMAIN h : x \in Nat
      BY Numbers
    <3>2. \A x \in DOMAIN h : (x < m /\ x # c) <=> x < c
      BY <1>3, <2>1, <2>2, <3>1
    <3>. QED
      BY <2>1, <3>2 DEF Below
  <2>6. Takes(h, Below(h, m)) = Takes(h, Below(h, c)) + HDR + h[c].size
    BY <2>5, TakesRule
  <2>7. c + HDR + h[c].size = m
    BY <1>3, <2>1, Numbers DEF Tiles, BlockEnd
  <2>8. Takes(h, Below(h, m)) = m - HEAP_START
    BY <1>3, <2>2, <2>4, <2>6, <2>7, Constants
  <2>. QED
    BY <1>2, <2>8
<1>. QED
  BY <1>4, <1>5

LEMMA TakesAll ==
  ASSUME NEW h, Typed(h), Tiles(h)
  PROVE  Takes(h, DOMAIN h) = HEAP_SIZE
<1>1. DOMAIN h \in SUBSET (0 .. HEAP_END)
  <2>. SUFFICES ASSUME NEW x \in DOMAIN h PROVE x \in 0 .. HEAP_END
    OBVIOUS
  <2>. QED
    BY Numbers, Constants
<1>2. DOMAIN h # {}
  BY DEF Tiles
<1>3. PICK l \in DOMAIN h : \A y \in DOMAIN h : y <= l
  BY <1>1, <1>2, GreatestBelow, Constants
<1>4. l \in Nat /\ h[l].size \in Nat
  BY Numbers
<1>5. h[l].next = NULL
  <2>. SUFFICES ASSUME h[l].next # NULL PROVE FALSE
    OBVIOUS
  <2>1. h[l].next \in DOMAIN h /\ h[l].next = BlockEnd(h, l)
    BY Numbers DEF Tiles
  <2>. QED
    BY <1>3, <1>4, <2>1, Numbers, Constants
<1>6. l + HDR + h[l].size = HEAP_END
  BY <1>5 DEF Tiles, BlockEnd
<1>7. DOMAIN h \ {l} = Below(h, l)
  <2>1. \A x \in DOMAIN h : x \in Nat
    BY Numbers
  <2>2. \A x \in DOMAIN h : x # l <=> x < l
    BY <1>3, <1>4, <2>1
  <2>. QED
    BY <2>2 DEF Below
<1>8. Takes(h, DOMAIN h) = Takes(h, Below(h, l)) + HDR + h[l].size
  BY <1>7, TakesRule
<1>9. Takes(h, Below(h, l)) = l - HEAP_START
  BY TakesBelow
<1>. DEFINE z == h[l].size
            t == Takes(h, Below(h, l))
<1>. HIDE DEF z, t
<1>10. Takes(h, DOMAIN h) = t + HDR + z /\ t = l - HEAP_START /\ l + HDR + z = HEAP_END /\ z \in Nat
  BY <1>4, <1>6, <1>8, <1>9 DEF t, z
<1>11. t + HDR + z = HEAP_SIZE
  BY <1>4, <1>10, Constants
<1>. QED
  BY <1>10, <1>11

(* What the callers asked for is no more than the blocks in use have.      *)
LEMMA AskedFits ==
  ASSUME NEW h, Typed(h), NEW v,
         v \in [{a + HDR : a \in BlocksThat(h, FALSE)} -> Nat],
         \A a \in BlocksThat(h, FALSE) : v[a + HDR] <= h[a].size
  PROVE  SumOf(v, DOMAIN v) <= SumOf(SizesOf(h, BlocksThat(h, FALSE)), BlocksThat(h, FALSE))
<1>. DEFINE U == BlocksThat(h, FALSE)
            w == SizesOf(h, U)
            gu == TheSum(w, U)
            V == DOMAIN v
            gv == TheSum(v, V)
            At(s) == {a + HDR : a \in s}
            N == Cardinality(U)
            Le(s) == gv[At(s)] <= gu[s]
            Done == {n \in 0 .. N : \A s \in SUBSET U : Cardinality(s) <= n => Le(s)}
<1>1. U \subseteq DOMAIN h /\ \A x \in U : x \in Nat
  BY Numbers DEF BlocksThat
<1>2. IsFiniteSet(U)
  BY <1>1, BlocksFinite, FS_Subset
<1>3. N \in Nat /\ \A s \in SUBSET U : IsFiniteSet(s) /\ Cardinality(s) \in Nat /\ Cardinality(s) <= N
  BY <1>2, FS_Subset, FS_CardinalityType
<1>4. w \in [U -> Nat] /\ \A x \in U : w[x] = h[x].size
  BY <1>1, Numbers DEF SizesOf
<1>5. V = At(U) /\ v \in [V -> Nat]
  OBVIOUS
<1>6. IsFiniteSet(V)
  <2>1. V \in SUBSET (0 .. (HEAP_END + HDR))
    <3>. SUFFICES ASSUME NEW x \in U PROVE x + HDR \in 0 .. (HEAP_END + HDR)
      BY <1>5
    <3>1. x \in Nat /\ x + HDR <= HEAP_END
      BY <1>1, Numbers
    <3>. QED
      BY <3>1, Constants
  <2>2. IsFiniteSet(0 .. (HEAP_END + HDR))
    BY FS_Interval, Constants
  <2>. QED
    BY <2>1, <2>2, FS_Subset
<1>. HIDE DEF w, gu, gv, V
<1>7. /\ gu[{}] = 0
      /\ \A s \in SUBSET U : gu[s] \in Nat
      /\ \A s \in SUBSET U : \A x \in s : gu[s] = w[x] + gu[s \ {x}]
  <2>. HIDE DEF U
  <2>1. w \in [U -> Nat]
    BY <1>4
  <2>. QED
    BY <1>2, <2>1, SumRule DEF gu
<1>8. /\ gv[{}] = 0
      /\ \A s \in SUBSET V : gv[s] \in Nat
      /\ \A s \in SUBSET V : \A x \in s : gv[s] = v[x] + gv[s \ {x}]
  <2>1. v \in [V -> Nat]
    BY <1>5
  <2>. QED
    BY <1>6, <2>1, SumRule DEF gv
<1>9. 0 \in Done
  <2>1. ASSUME NEW s \in SUBSET U, Cardinality(s) <= 0 PROVE Le(s)
    <3>1. s = {}
      <4>. DEFINE c == Cardinality(s)
      <4>. HIDE DEF c
      <4>1. c \in Nat /\ c <= 0 /\ IsFiniteSet(s)
        BY <1>3, <2>1 DEF c
      <4>2. c = 0
        BY <4>1
      <4>. QED
        BY <4>1, <4>2, FS_EmptySet DEF c
    <3>2. At(s) = {}
      BY <3>1
    <3>3. gv[At(s)] = 0 /\ gu[s] = 0
      BY <1>7, <1>8, <3>1, <3>2
    <3>. HIDE DEF At
    <3>. QED
      BY <3>3
  <2>. HIDE DEF At, N, U, Le
  <2>. QED
    BY <1>3, <2>1
<1>10. ASSUME NEW n \in 0 .. (N - 1), n \in Done
       PROVE  n + 1 \in Done
  <2>1. ASSUME NEW s \in SUBSET U, Cardinality(s) <= n + 1
        PROVE  Le(s)
    <3>1. CASE s = {}
      <4>1. At(s) = {}
        BY <3>1
      <4>2. gv[At(s)] = 0 /\ gu[s] = 0
        BY <1>7, <1>8, <3>1, <4>1
      <4>. HIDE DEF At
      <4>. QED
        BY <4>2
    <3>2. CASE s # {}
      <4>1. PICK x : x \in s
        BY <3>2
      <4>. DEFINE r == s \ {x}
      <4>2. r \in SUBSET U /\ At(s) \in SUBSET V /\ x + HDR \in At(s) /\ x \in U
        BY <1>5, <4>1
      <4>3. At(s) \ {x + HDR} = At(r)
        <5>1. \A y \in s : y + HDR = x + HDR <=> y = x
          <6>1. x \in Nat /\ \A y \in s : y \in Nat
            BY <1>1, <4>1
          <6>. QED
            BY <6>1, Constants
        <5>. QED
          BY <5>1
      <4>4. Cardinality(r) <= n
        <5>1. Cardinality(s) = Cardinality(r) + 1 /\ Cardinality(r) \in Nat
          BY <1>3, <4>1, OneLess
        <5>. QED
          BY <2>1, <5>1
      <4>5. gv[At(r)] <= gu[r]
        BY <1>10, <4>2, <4>4
      <4>6. At(r) \in SUBSET V
        BY <4>2, <4>3
      <4>. HIDE DEF At, r
      <4>7. gv[At(s)] = v[x + HDR] + gv[At(r)] /\ gv[At(r)] \in Nat
        BY <1>8, <4>2, <4>3, <4>6
      <4>8. gu[s] = w[x] + gu[r] /\ gu[r] \in Nat
        BY <1>7, <4>1, <4>2 DEF r
      <4>9. v[x + HDR] \in Nat /\ w[x] \in Nat /\ v[x + HDR] <= w[x]
        BY <1>4, <1>8, <4>2
      <4>. DEFINE a == gv[At(r)]
                  b == gu[r]
                  c == v[x + HDR]
                  d == w[x]
      <4>. HIDE DEF a, b, c, d
      <4>10. /\ a \in Nat /\ b \in Nat /\ c \in Nat /\ d \in Nat /\ a <= b /\ c <= d
             /\ gv[At(s)] = c + a /\ gu[s] = d + b
        BY <4>5, <4>7, <4>8, <4>9 DEF a, b, c, d
      <4>11. c + a <= d + b
        BY <4>10
      <4>. QED
        BY <4>10, <4>11
    <3>. QED
      BY <3>1, <3>2
  <2>. HIDE DEF At, N, U, Le
  <2>. QED
    BY <1>3, <2>1
<1>11. N \in Done
  <2>. HIDE DEF Done, N
  <2>. QED
    BY <1>3, <1>9, <1>10, Climb
<1>12. gv[At(U)] <= gu[U]
  BY <1>3, <1>11
<1>. QED
  BY <1>5, <1>12 DEF w, V, gu, gv, SumOf, TheSum

LEMMA StatsAreSums ==
  ASSUME NEW S
  PROVE  /\ MapThenSumSet(LAMBDA a : heap[a].size, S) = SumOf(SizesOf(heap, S), S)
         /\ MapThenSumSet(LAMBDA p : live[p], S) = SumOf([p \in S |-> live[p]], S)
<1>1. MapThenSumSet(LAMBDA a : heap[a].size, S) = SumOf(SizesOf(heap, S), S)
  BY DEF SizesOf, SumOf, IsSum, SumBody, Pick, MapThenSumSet, MapThenFoldSet
<1>2. MapThenSumSet(LAMBDA p : live[p], S) = SumOf([p \in S |-> live[p]], S)
  BY DEF SumOf, IsSum, SumBody, Pick, MapThenSumSet, MapThenFoldSet
<1>. QED
  BY <1>1, <1>2

(* The byte counts kstats and top print are exact, for every region and    *)
(* every sequence of kmalloc and kfree.                                    *)
THEOREM CountsExact == ClientsSpec => []StatsExact
<1>1. IInv => StatsExact
  <2>. SUFFICES ASSUME IInv PROVE StatsExact
    OBVIOUS
  <2>. DEFINE U == BlocksThat(heap, FALSE)
              F == BlocksThat(heap, TRUE)
  <2>1. Typed(heap) /\ Tiles(heap) /\ Owned
    BY DEF IInv, HeapInv
  <2>2. \A a \in DOMAIN heap : heap[a].free \in BOOLEAN
    BY <2>1, Numbers
  <2>3. U = {a \in DOMAIN heap : ~heap[a].free} /\ F = {a \in DOMAIN heap : heap[a].free}
    BY <2>2 DEF BlocksThat
  <2>4. kheap_used_bytes = SumOf(SizesOf(heap, U), U)
    <3>1. kheap_used_bytes = MapThenSumSet(LAMBDA a : heap[a].size, U)
      BY <2>3 DEF kheap_used_bytes
    <3>. QED
      BY <3>1, StatsAreSums
  <2>5. kheap_free_bytes = SumOf(SizesOf(heap, F), F)
    <3>1. kheap_free_bytes = MapThenSumSet(LAMBDA a : heap[a].size, F)
      BY <2>3 DEF kheap_free_bytes
    <3>. QED
      BY <3>1, StatsAreSums
  <2>. DEFINE D == DOMAIN heap
  <2>6. ASSUME NEW free \in BOOLEAN
        PROVE  LET B == BlocksThat(heap, free)
               IN  PartSum(heap, free, D) = SumOf(SizesOf(heap, B), B)
    <3>. DEFINE B == BlocksThat(heap, free)
    <3>1. B \subseteq DOMAIN heap /\ D \cap B = B
      BY DEF BlocksThat
    <3>4. SumOf(SizesOf(heap, B), B) = TheSum(SizesOf(heap, B), B)[B]
      BY DEF SumOf, TheSum
    <3>. QED
      BY <3>1, <3>4 DEF PartSum
  <2>7. Takes(heap, D) = PartSum(heap, TRUE, D) + PartSum(heap, FALSE, D) + HDR * Cardinality(D)
    BY DEF Takes
  <2>8. PartSum(heap, TRUE, D) \in Nat /\ PartSum(heap, FALSE, D) \in Nat
    BY <2>1, PartSumRule
  <2>9. Takes(heap, D) = HEAP_SIZE
    BY <2>1, TakesAll
  <2>10. PartSum(heap, TRUE, D) = kheap_free_bytes /\ PartSum(heap, FALSE, D) = kheap_used_bytes
    BY <2>4, <2>5, <2>6
  <2>11. HDR * Cardinality(D) \in Nat
    <3>1. Cardinality(D) \in Nat
      BY <2>1, BlocksFinite, FS_CardinalityType
    <3>. QED
      BY <3>1, Constants
  <2>12. kheap_used_bytes + kheap_free_bytes + HDR * Cardinality(DOMAIN heap) = HEAP_SIZE
    <3>. DEFINE c == HDR * Cardinality(D)
                f == kheap_free_bytes
                u == kheap_used_bytes
    <3>1. c \in Nat /\ f \in Nat /\ u \in Nat /\ f + u + c = HEAP_SIZE
      BY <2>7, <2>8, <2>9, <2>10, <2>11
    <3>. HIDE DEF c, f, u
    <3>2. u + f + c = HEAP_SIZE
      BY <3>1
    <3>. QED
      BY <3>2 DEF c, f, u
  <2>. DEFINE v == [p \in DOMAIN live |-> live[p]]
  <2>13. SumOf(v, DOMAIN live) <= SumOf(SizesOf(heap, U), U)
    <3>1. DOMAIN live = {a + HDR : a \in U}
      BY <2>1, <2>3 DEF Owned
    <3>2. \A a \in U : live[a + HDR] \in Nat /\ live[a + HDR] <= heap[a].size
      BY <2>1, <2>3 DEF Owned
    <3>3. v \in [{a + HDR : a \in U} -> Nat] /\ DOMAIN v = DOMAIN live
      BY <3>1, <3>2
    <3>4. \A a \in U : v[a + HDR] <= heap[a].size
      BY <3>1, <3>2
    <3>5. SumOf(v, DOMAIN v) <= SumOf(SizesOf(heap, U), U)
      <4>. HIDE DEF v
      <4>. QED
        BY <2>1, <3>3, <3>4, AskedFits
    <3>. QED
      BY <3>3, <3>5
  <2>14. MapThenSumSet(LAMBDA p : live[p], DOMAIN live) = SumOf(v, DOMAIN live)
    BY StatsAreSums
  <2>15. kheap_used_bytes >= MapThenSumSet(LAMBDA p : live[p], DOMAIN live)
    BY <2>4, <2>13, <2>14
  <2>. QED
    BY <2>12, <2>15 DEF StatsExact
<1>. QED
  BY <1>1, Inductive, PTL

-----------------------------------------------------------------------------
(* heap_coalesce and its loop. *)

(* g is what may be left of h when free blocks are merged: blocks in use   *)
(* stay as they are, and a block that stays is free or not as before.      *)
MergedFrom(h, g) ==
  /\ Typed(g) /\ Tiles(g)
  /\ DOMAIN g \subseteq DOMAIN h
  /\ \A x \in DOMAIN h : ~h[x].free => x \in DOMAIN g /\ g[x] = h[x]
  /\ \A x \in DOMAIN g : g[x].free = h[x].free

(* Where all is merged that can be, the blocks are the same: a block that  *)
(* only one of the two lists has is free and follows a free block there.   *)
LEMMA SameBlocks ==
  ASSUME NEW h, Typed(h), NEW g, NEW f, MergedFrom(h, g), MergedFrom(h, f), Coalesced(g)
  PROVE  DOMAIN g \subseteq DOMAIN f
<1>. SUFFICES ASSUME NEW a \in DOMAIN g, a \notin DOMAIN f PROVE FALSE
  OBVIOUS
<1>1. Typed(g) /\ Tiles(g) /\ Typed(f) /\ Tiles(f) /\ a \in DOMAIN h
  BY DEF MergedFrom
<1>2. a # HEAP_START /\ h[a].free /\ a # NULL
  BY <1>1, Numbers DEF MergedFrom, Tiles
<1>3. PICK c \in DOMAIN g : c < a /\ g[c].next = a
  BY <1>1, <1>2, Predecessor
<1>4. c \in DOMAIN h /\ g[c].free = h[c].free /\ g[a].free = h[a].free
  BY <1>3 DEF MergedFrom
<1>5. CASE g[c].free
  <2>1. BlockEnd(g, c) = a
    BY <1>1, <1>2, <1>3 DEF Tiles
  <2>2. Mergeable(g, c)
    BY <1>2, <1>3, <1>4, <1>5, <2>1 DEF Mergeable
  <2>. QED
    BY <2>2 DEF Coalesced
<1>6. CASE ~g[c].free
  <2>1. g[c] = h[c] /\ c \in DOMAIN f /\ f[c] = h[c]
    BY <1>4, <1>6 DEF MergedFrom
  <2>2. f[c].next = a
    BY <1>3, <2>1
  <2>. QED
    BY <1>1, <1>2, <2>1, <2>2, Numbers
<1>. QED
  BY <1>5, <1>6

(* Two tilings with the same blocks cut the region in the same way. *)
LEMMA SameEnd ==
  ASSUME NEW g, NEW f, Typed(g), Tiles(g), Typed(f), Tiles(f),
         DOMAIN g = DOMAIN f, NEW a \in DOMAIN g
  PROVE  BlockEnd(f, a) <= BlockEnd(g, a)
<1>1. CASE g[a].next = NULL
  <2>1. BlockEnd(g, a) = HEAP_END
    BY <1>1 DEF Tiles
  <2>. QED
    BY <2>1, EndsInside
<1>2. CASE g[a].next # NULL
  <2>1. g[a].next \in DOMAIN g /\ BlockEnd(g, a) = g[a].next
    BY <1>2, Numbers DEF Tiles
  <2>2. g[a].next > a
    BY <2>1, Numbers, Constants
  <2>. QED
    BY <2>1, <2>2 DEF Tiles
<1>. QED
  BY <1>1, <1>2

LEMMA SameTiling ==
  ASSUME NEW g, NEW f, Typed(g), Tiles(g), Typed(f), Tiles(f), DOMAIN g = DOMAIN f,
         \A a \in DOMAIN g : g[a].free = f[a].free
  PROVE  g = f
<1>1. ASSUME NEW a \in DOMAIN g PROVE g[a] = f[a]
  <2>. DEFINE s == g[a].size
              t == f[a].size
              m == g[a].next
              n == f[a].next
  <2>1. a \in Nat /\ s \in Nat /\ t \in Nat
    BY Numbers
  <2>2. BlockEnd(g, a) = BlockEnd(f, a)
    <3>1. BlockEnd(f, a) <= BlockEnd(g, a)
      BY SameEnd
    <3>2. BlockEnd(g, a) <= BlockEnd(f, a)
      BY SameEnd
    <3>3. BlockEnd(g, a) \in Nat /\ BlockEnd(f, a) \in Nat
      BY Numbers
    <3>. QED
      BY <3>1, <3>2, <3>3
  <2>3. s = t
    <3>1. a + HDR + s = a + HDR + t
      BY <2>2 DEF BlockEnd
    <3>. HIDE DEF s, t
    <3>. QED
      BY <2>1, <3>1, Constants
  <2>4. m = n
    <3>1. /\ BlockEnd(g, a) = (IF m = NULL THEN HEAP_END ELSE m)
          /\ BlockEnd(f, a) = (IF n = NULL THEN HEAP_END ELSE n)
      BY DEF Tiles
    <3>2. m = NULL \/ (m \in DOMAIN g /\ m \in Nat /\ m + HDR <= HEAP_END)
      <4>1. m = NULL \/ m \in DOMAIN g
        BY Numbers
      <4>. HIDE DEF m
      <4>. QED
        BY <4>1, Numbers
    <3>3. n = NULL \/ (n \in DOMAIN f /\ n \in Nat /\ n + HDR <= HEAP_END)
      <4>1. n = NULL \/ n \in DOMAIN f
        BY Numbers
      <4>. HIDE DEF n
      <4>. QED
        BY <4>1, Numbers
    <3>. HIDE DEF m, n
    <3>4. ASSUME m = NULL, n # NULL PROVE FALSE
      <4>1. n = HEAP_END
        BY <2>2, <3>1, <3>4
      <4>. QED
        BY <3>3, <3>4, <4>1, Constants
    <3>5. ASSUME m # NULL, n = NULL PROVE FALSE
      <4>1. m = HEAP_END
        BY <2>2, <3>1, <3>5
      <4>. QED
        BY <3>2, <3>5, <4>1, Constants
    <3>6. ASSUME m # NULL, n # NULL PROVE m = n
      BY <2>2, <3>1, <3>6
    <3>. QED
      BY <3>4, <3>5, <3>6
  <2>5. /\ g[a] \in [size : Nat, next : {NULL} \cup DOMAIN g, free : BOOLEAN]
        /\ f[a] \in [size : Nat, next : {NULL} \cup DOMAIN f, free : BOOLEAN]
    BY DEF Typed
  <2>6. g[a].free = f[a].free
    OBVIOUS
  <2>. QED
    BY <2>3, <2>4, <2>5, <2>6
<1>2. g = [a \in DOMAIN g |-> g[a]] /\ f = [a \in DOMAIN f |-> f[a]]
  BY DEF Typed
<1>. QED
  BY <1>1, <1>2

(* There is only one list in which all is merged that can be. *)
LEMMA OneCoalesced ==
  ASSUME NEW h, Typed(h), NEW g, NEW f, MergedFrom(h, g), MergedFrom(h, f),
         Coalesced(g), Coalesced(f)
  PROVE  g = f
<1>1. DOMAIN g = DOMAIN f
  BY SameBlocks
<1>2. \A a \in DOMAIN g : g[a].free = f[a].free
  BY <1>1 DEF MergedFrom
<1>. QED
  BY <1>1, <1>2, SameTiling DEF MergedFrom

(* No block lies between a block and its next. *)
LEMMA NextIsNext ==
  ASSUME NEW g, Typed(g), Tiles(g), NEW a \in DOMAIN g, g[a].next # NULL
  PROVE  /\ g[a].next \in DOMAIN g /\ g[a].next \in Nat /\ a \in Nat
         /\ g[a].next > a /\ g[a].next = BlockEnd(g, a)
         /\ \A b \in DOMAIN g : b \in Nat /\ (b > a => b >= g[a].next)
<1>1. g[a].next \in DOMAIN g /\ g[a].next = BlockEnd(g, a)
  BY Numbers DEF Tiles
<1>2. \A b \in DOMAIN g : b > a => BlockEnd(g, a) <= b
  BY DEF Tiles
<1>3. \A b \in DOMAIN g : b \in Nat
  BY Numbers
<1>4. BlockEnd(g, a) >= a + HDR /\ a \in Nat
  BY Numbers
<1>5. g[a].next \in Nat /\ g[a].next > a
  BY <1>1, <1>3, <1>4, Constants
<1>. QED
  BY <1>1, <1>2, <1>3, <1>4, <1>5

(* One merge of the loop. *)
LEMMA MergeSound ==
  ASSUME NEW h, NEW g, MergedFrom(h, g), NEW a \in DOMAIN g, Mergeable(g, a)
  PROVE  LET f == MergeAt(g, a)
         IN  /\ MergedFrom(h, f)
             /\ DOMAIN f = DOMAIN g \ {g[a].next}
             /\ g[a].next \in DOMAIN g /\ g[a].next > a
             /\ \A b \in DOMAIN f : b < a /\ ~Mergeable(g, b) => ~Mergeable(f, b)
<1>. DEFINE f == MergeAt(g, a)
            n == g[a].next
            z == g[a].size + HDR + g[n].size
<1>1. Typed(g) /\ Tiles(g)
  BY DEF MergedFrom
<1>2. n # NULL /\ g[a].free /\ g[n].free /\ n = BlockEnd(g, a)
  BY DEF Mergeable
<1>3. /\ n \in DOMAIN g /\ n \in Nat /\ a \in Nat /\ n > a
      /\ \A b \in DOMAIN g : b \in Nat /\ (b > a => b >= n)
  BY <1>1, <1>2, NextIsNext
<1>4. /\ g[a].size \in Nat /\ g[n].size \in Nat /\ z \in Nat
      /\ g[n].next = NULL \/ g[n].next \in DOMAIN g
      /\ BlockEnd(g, n) \in Nat /\ BlockEnd(g, n) > n
  <2>1. /\ g[a].size \in Nat /\ g[n].size \in Nat
        /\ g[n].next = NULL \/ g[n].next \in DOMAIN g
        /\ BlockEnd(g, n) \in Nat /\ BlockEnd(g, n) >= n + HDR
    BY <1>1, <1>3, Numbers
  <2>. HIDE DEF n
  <2>. QED
    BY <1>3, <2>1, Constants
<1>5. /\ DOMAIN f = DOMAIN g \ {n}
      /\ f[a] = [size |-> z, next |-> g[n].next, free |-> g[a].free]
      /\ \A x \in DOMAIN f : x # a => f[x] = g[x]
  BY <1>3 DEF MergeAt
<1>6. a \in DOMAIN f /\ n \notin DOMAIN f
  BY <1>3, <1>5
<1>7. g[n].next # n
  <2>1. g[n].next # NULL => g[n].next = BlockEnd(g, n)
    BY <1>1, <1>3 DEF Tiles
  <2>. HIDE DEF n
  <2>. QED
    BY <1>2, <1>4, <2>1
<1>8. ASSUME NEW x \in DOMAIN f, x # a
      PROVE  g[x].next # n
  <2>1. x \in DOMAIN g /\ x \in Nat /\ x # n
    BY <1>3, <1>5, <1>8
  <2>2. CASE x < a
    <3>1. BlockEnd(g, x) <= a
      BY <1>1, <1>3, <2>1, <2>2 DEF Tiles
    <3>2. g[x].next = n => BlockEnd(g, x) = n
      BY <1>1, <1>2, <2>1 DEF Tiles
    <3>. HIDE DEF n
    <3>. QED
      BY <1>3, <3>1, <3>2
  <2>3. CASE x > a
    <3>1. x > n
      <4>. HIDE DEF n
      <4>. QED
        BY <1>3, <2>1, <2>3
    <3>2. g[x].next = n => n = BlockEnd(g, x)
      BY <1>1, <1>2, <2>1 DEF Tiles
    <3>3. BlockEnd(g, x) \in Nat /\ BlockEnd(g, x) >= x + HDR
      BY <1>1, <2>1, Numbers
    <3>. HIDE DEF n
    <3>. QED
      BY <1>3, <2>1, <3>1, <3>2, <3>3, Constants
  <2>. QED
    BY <1>3, <1>8, <2>1, <2>2, <2>3
<1>9. BlockEnd(f, a) = BlockEnd(g, n)
  <2>. DEFINE u == g[a].size
              v == g[n].size
  <2>1. n = a + HDR + u /\ BlockEnd(g, n) = n + HDR + v /\ u \in Nat /\ v \in Nat
    BY <1>2, <1>4 DEF BlockEnd
  <2>2. BlockEnd(f, a) = a + HDR + (u + HDR + v)
    BY <1>5 DEF BlockEnd
  <2>. HIDE DEF u, v, n
  <2>. QED
    BY <1>3, <2>1, <2>2, Constants
<1>10. \A x \in DOMAIN f : x # a => BlockEnd(f, x) = BlockEnd(g, x)
  BY <1>5 DEF BlockEnd
<1>11. Typed(f)
  <2>1. DOMAIN f \subseteq HEAP_START .. (HEAP_END - HDR)
    BY <1>1, <1>5 DEF Typed
  <2>2. ASSUME NEW x \in DOMAIN f
        PROVE  f[x] \in [size : Nat, next : {NULL} \cup DOMAIN f, free : BOOLEAN]
    <3>1. CASE x = a
      <4>1. g[n].next \in {NULL} \cup DOMAIN f
        BY <1>4, <1>5, <1>7
      <4>2. g[a].free \in BOOLEAN
        BY <1>1, Numbers
      <4>. HIDE DEF z, f, n
      <4>. QED
        BY <1>4, <1>5, <3>1, <4>1, <4>2
    <3>2. CASE x # a
      <4>1. x \in DOMAIN g /\ g[x].next \in {NULL} \cup DOMAIN f
        <5>1. x \in DOMAIN g
          BY <1>5
        <5>2. g[x].next = NULL \/ g[x].next \in DOMAIN g
          BY <1>1, <5>1, Numbers
        <5>. QED
          BY <1>5, <1>8, <3>2, <5>1, <5>2
      <4>2. g[x] \in [size : Nat, next : {NULL} \cup DOMAIN g, free : BOOLEAN]
        BY <1>1, <4>1 DEF Typed
      <4>3. f[x] = g[x]
        BY <1>5, <3>2
      <4>. HIDE DEF f
      <4>. QED
        BY <4>1, <4>2, <4>3
    <3>. QED
      BY <3>1, <3>2
  <2>3. f = [x \in DOMAIN f |-> f[x]]
    BY DEF MergeAt
  <2>. HIDE DEF f
  <2>4. f \in [DOMAIN f -> [size : Nat, next : {NULL} \cup DOMAIN f, free : BOOLEAN]]
    BY <2>2, <2>3
  <2>. QED
    BY <2>1, <2>4 DEF Typed
<1>12. Tiles(f)
  <2>1. HEAP_START \in DOMAIN f
    <3>1. HEAP_START \in DOMAIN g
      BY <1>1 DEF Tiles
    <3>2. a >= HEAP_START
      BY <1>1, Numbers
    <3>3. n # HEAP_START
      <4>. HIDE DEF n
      <4>. QED
        BY <1>3, <3>2, Constants
    <3>. QED
      BY <1>5, <3>1, <3>3
  <2>2. ASSUME NEW x \in DOMAIN f
        PROVE  BlockEnd(f, x) = (IF f[x].next = NULL THEN HEAP_END ELSE f[x].next)
    <3>1. CASE x = a
      <4>1. BlockEnd(g, n) = (IF g[n].next = NULL THEN HEAP_END ELSE g[n].next)
        BY <1>1, <1>3 DEF Tiles
      <4>2. f[a].next = g[n].next
        BY <1>5
      <4>. QED
        BY <1>9, <3>1, <4>1, <4>2
    <3>2. CASE x # a
      <4>1. x \in DOMAIN g /\ f[x] = g[x]
        BY <1>5, <3>2
      <4>2. BlockEnd(g, x) = (IF g[x].next = NULL THEN HEAP_END ELSE g[x].next)
        BY <1>1, <4>1 DEF Tiles
      <4>. QED
        BY <1>10, <3>2, <4>1, <4>2
    <3>. QED
      BY <3>1, <3>2
  <2>3. ASSUME NEW x \in DOMAIN f, NEW b \in DOMAIN f, b > x
        PROVE  BlockEnd(f, x) <= b
    <3>1. x \in DOMAIN g /\ b \in DOMAIN g /\ b # n
      BY <1>5
    <3>2. CASE x = a
      <4>1. b > n
        <5>. HIDE DEF n
        <5>. QED
          BY <1>3, <2>3, <3>1, <3>2
      <4>2. BlockEnd(g, n) <= b
        BY <1>1, <1>3, <3>1, <4>1 DEF Tiles
      <4>. QED
        BY <1>9, <3>2, <4>2
    <3>3. CASE x # a
      <4>1. BlockEnd(g, x) <= b
        BY <1>1, <2>3, <3>1 DEF Tiles
      <4>. QED
        BY <1>10, <3>3, <4>1
    <3>. QED
      BY <3>2, <3>3
  <2>. HIDE DEF f
  <2>. QED
    BY <2>1, <2>2, <2>3 DEF Tiles
<1>13. DOMAIN f \subseteq DOMAIN h
  BY <1>5 DEF MergedFrom
<1>14. \A x \in DOMAIN f : f[x].free = h[x].free
  <2>1. \A x \in DOMAIN f : f[x].free = g[x].free
    BY <1>5
  <2>. QED
    BY <1>5, <2>1 DEF MergedFrom
<1>15. ASSUME NEW x \in DOMAIN h, ~h[x].free
       PROVE  x \in DOMAIN f /\ f[x] = h[x]
  <2>1. x \in DOMAIN g /\ g[x] = h[x] /\ ~g[x].free
    BY <1>15 DEF MergedFrom
  <2>2. x # n /\ x # a
    BY <1>2, <2>1
  <2>. QED
    BY <1>5, <2>1, <2>2
<1>16. ASSUME NEW b \in DOMAIN f, b < a, ~Mergeable(g, b)
       PROVE  ~Mergeable(f, b)
  <2>1. b # a /\ b \in DOMAIN g /\ f[b] = g[b]
    BY <1>3, <1>5, <1>16
  <2>2. BlockEnd(f, b) = BlockEnd(g, b)
    BY <1>10, <2>1
  <2>3. g[b].next # NULL => g[b].next \in DOMAIN f
    BY <1>1, <1>5, <1>8, <2>1, Numbers
  <2>4. g[b].next # NULL => f[g[b].next].free = g[g[b].next].free
    BY <1>5, <2>3
  <2>. HIDE DEF f
  <2>. QED
    BY <1>16, <2>1, <2>2, <2>4 DEF Mergeable
<1>17. MergedFrom(h, f)
  BY <1>11, <1>12, <1>13, <1>14, <1>15 DEF MergedFrom
<1>. QED
  BY <1>3, <1>5, <1>16, <1>17

(* The states of the loop. *)
IsLoop(h, r) ==
  r = [n \in 0 .. 2 * Cardinality(DOMAIN h) |->
         IF n = 0 THEN [h |-> h, at |-> HEAP_START] ELSE CoalesceTurn(r[n - 1])]

LEMMA LoopExists ==
  ASSUME NEW h, Cardinality(DOMAIN h) \in Nat
  PROVE  \E r : IsLoop(h, r)
<1>. DEFINE N == 2 * Cardinality(DOMAIN h)
            x0 == [h |-> h, at |-> HEAP_START]
            Runs(r, n) ==
              r = [k \in 0 .. n |-> IF k = 0 THEN x0 ELSE CoalesceTurn(r[k - 1])]
            Done == {n \in 0 .. N : \E r : Runs(r, n)}
<1>1. N \in Nat
  OBVIOUS
<1>. HIDE DEF N, x0
<1>2. 0 \in Done
  <2>. DEFINE r == [k \in 0 .. 0 |-> x0]
  <2>1. Runs(r, 0)
    OBVIOUS
  <2>. HIDE DEF Runs, r
  <2>. QED
    BY <1>1, <2>1
<1>3. ASSUME NEW n \in 0 .. (N - 1), n \in Done
      PROVE  n + 1 \in Done
  <2>1. PICK r : Runs(r, n)
    BY <1>3
  <2>. DEFINE q == [k \in 0 .. (n + 1) |-> IF k = n + 1 THEN CoalesceTurn(r[n]) ELSE r[k]]
  <2>2. n \in Nat /\ n + 1 \in 0 .. N
    BY <1>1
  <2>3. \A k \in 0 .. n : q[k] = r[k] /\ r[k] = IF k = 0 THEN x0 ELSE CoalesceTurn(r[k - 1])
    BY <2>1, <2>2
  <2>4. ASSUME NEW k \in 0 .. (n + 1)
        PROVE  q[k] = IF k = 0 THEN x0 ELSE CoalesceTurn(q[k - 1])
    <3>1. CASE k = n + 1
      <4>1. k # 0 /\ k - 1 = n /\ n \in 0 .. n
        BY <2>2, <3>1
      <4>2. q[k] = CoalesceTurn(r[n]) /\ q[n] = r[n]
        BY <2>3, <3>1, <4>1
      <4>. HIDE DEF q
      <4>. QED
        BY <4>1, <4>2
    <3>2. CASE k # n + 1
      <4>1. k \in 0 .. n /\ (k # 0 => k - 1 \in 0 .. n)
        BY <2>2, <3>2
      <4>. HIDE DEF q
      <4>. QED
        BY <2>3, <4>1
    <3>. QED
      BY <3>1, <3>2
  <2>5. Runs(q, n + 1)
    <3>1. q = [k \in 0 .. (n + 1) |-> q[k]]
      OBVIOUS
    <3>. HIDE DEF q
    <3>. QED
      BY <2>4, <3>1
  <2>. HIDE DEF Runs, q
  <2>. QED
    BY <2>2, <2>5
<1>4. N \in Done
  <2>. HIDE DEF Done
  <2>. QED
    BY <1>1, <1>2, <1>3, Climb
<1>5. PICK r : Runs(r, N)
  BY <1>4
<1>. QED
  BY <1>5 DEF IsLoop, N, x0

(* Behind the walk nothing can be merged, and what lies ahead of it bounds *)
(* how many iterations are left.                                           *)
Ahead(s) == {b \in DOMAIN s.h : b >= s.at}
WalkOk(h, s) ==
  /\ s = [h |-> s.h, at |-> s.at]
  /\ MergedFrom(h, s.h)
  /\ s.at = NULL \/ s.at \in DOMAIN s.h
  /\ \A b \in DOMAIN s.h : s.at = NULL \/ b < s.at => ~Mergeable(s.h, b)
WalkLeft(s, k) == s.at = NULL \/ Cardinality(DOMAIN s.h) + Cardinality(Ahead(s)) <= k

LEMMA WalkStarts ==
  ASSUME NEW h, Typed(h), Tiles(h)
  PROVE  LET s == [h |-> h, at |-> HEAP_START]
         IN  WalkOk(h, s) /\ WalkLeft(s, 2 * Cardinality(DOMAIN h))
<1>. DEFINE s == [h |-> h, at |-> HEAP_START]
<1>1. HEAP_START \in DOMAIN h
  BY DEF Tiles
<1>2. \A b \in DOMAIN h : b \in Nat /\ b >= HEAP_START
  BY Numbers
<1>3. MergedFrom(h, h)
  BY DEF MergedFrom
<1>4. \A b \in DOMAIN h : ~(b < HEAP_START)
  BY <1>2, Constants
<1>5. HEAP_START # NULL
  BY Constants
<1>6. WalkOk(h, s)
  BY <1>1, <1>3, <1>4, <1>5 DEF WalkOk
<1>7. Ahead(s) = DOMAIN h
  BY <1>2 DEF Ahead
<1>8. Cardinality(DOMAIN h) \in Nat
  BY BlocksFinite, FS_CardinalityType
<1>9. WalkLeft(s, 2 * Cardinality(DOMAIN h))
  <2>1. Cardinality(DOMAIN s.h) + Cardinality(Ahead(s)) = Cardinality(DOMAIN h) + Cardinality(DOMAIN h)
    BY <1>7
  <2>. QED
    BY <1>8, <2>1 DEF WalkLeft
<1>. QED
  BY <1>6, <1>9

LEMMA WalkTurns ==
  ASSUME NEW h, NEW s, NEW k \in Nat, WalkOk(h, s), WalkLeft(s, k + 1)
  PROVE  WalkOk(h, CoalesceTurn(s)) /\ WalkLeft(CoalesceTurn(s), k)
<1>. DEFINE t == CoalesceTurn(s)
            g == s.h
            a == s.at
<1>1. CASE a = NULL
  <2>1. t = s
    BY <1>1 DEF CoalesceTurn
  <2>. QED
    BY <1>1, <2>1 DEF WalkLeft
<1>. SUFFICES ASSUME a # NULL PROVE WalkOk(h, t) /\ WalkLeft(t, k)
  BY <1>1
<1>2. /\ MergedFrom(h, g) /\ a \in DOMAIN g /\ Typed(g) /\ Tiles(g)
      /\ \A b \in DOMAIN g : b < a => ~Mergeable(g, b)
  BY DEF WalkOk, MergedFrom
<1>3. IsFiniteSet(DOMAIN g) /\ Cardinality(DOMAIN g) \in Nat
  BY <1>2, BlocksFinite, FS_CardinalityType
<1>4. /\ Ahead(s) = {b \in DOMAIN g : b >= a} /\ IsFiniteSet(Ahead(s))
      /\ Cardinality(Ahead(s)) \in Nat
      /\ Cardinality(DOMAIN g) + Cardinality(Ahead(s)) <= k + 1
  <2>1. Ahead(s) = {b \in DOMAIN g : b >= a}
    BY DEF Ahead
  <2>2. IsFiniteSet(Ahead(s))
    BY <1>3, <2>1, FS_Subset
  <2>. QED
    BY <2>1, <2>2, FS_CardinalityType DEF WalkLeft
<1>5. a \in Nat /\ a \in Ahead(s) /\ \A b \in DOMAIN g : b \in Nat
  <2>1. \A b \in DOMAIN g : b \in Nat
    BY <1>2, Numbers
  <2>. HIDE DEF a, g
  <2>. QED
    BY <1>2, <1>4, <2>1
<1>6. CASE Mergeable(g, a)
  <2>. DEFINE f == MergeAt(g, a)
              n == g[a].next
  <2>1. t = [h |-> f, at |-> a]
    BY <1>6 DEF CoalesceTurn
  <2>2. /\ MergedFrom(h, f) /\ DOMAIN f = DOMAIN g \ {n}
        /\ n \in DOMAIN g /\ n > a
        /\ \A b \in DOMAIN f : b < a /\ ~Mergeable(g, b) => ~Mergeable(f, b)
    <3>. HIDE DEF g, a
    <3>. QED
      BY <1>2, <1>6, MergeSound
  <2>. HIDE DEF f, n, g, a
  <2>3. t = [h |-> t.h, at |-> t.at] /\ t.h = f /\ t.at = a
    BY <2>1
  <2>4. a \in DOMAIN f
    BY <1>2, <1>5, <2>2
  <2>5. \A b \in DOMAIN f : b < a => ~Mergeable(f, b)
    BY <1>2, <2>2
  <2>6. WalkOk(h, t)
    BY <2>2, <2>3, <2>4, <2>5 DEF WalkOk, a
  <2>7. Cardinality(DOMAIN g) = Cardinality(DOMAIN f) + 1 /\ Cardinality(DOMAIN f) \in Nat
    BY <1>3, <2>2, OneLess
  <2>8. Ahead(t) \subseteq Ahead(s)
    BY <1>4, <2>2, <2>3 DEF Ahead
  <2>9. Cardinality(Ahead(t)) \in Nat /\ Cardinality(Ahead(t)) <= Cardinality(Ahead(s))
    <3>1. IsFiniteSet(Ahead(t))
      BY <1>4, <2>8, FS_Subset
    <3>. QED
      BY <1>4, <2>8, <3>1, FS_Subset, FS_CardinalityType
  <2>10. Cardinality(DOMAIN f) + Cardinality(Ahead(t)) <= k
    <3>. DEFINE c == Cardinality(DOMAIN f)
                d == Cardinality(DOMAIN g)
                u == Cardinality(Ahead(t))
                v == Cardinality(Ahead(s))
    <3>1. /\ c \in Nat /\ d = c + 1 /\ u \in Nat /\ v \in Nat /\ u <= v /\ d + v <= k + 1
      BY <1>4, <2>7, <2>9
    <3>. HIDE DEF c, d, u, v
    <3>2. c + u <= k
      BY <3>1
    <3>. QED
      BY <3>2 DEF c, u
  <2>. QED
    BY <2>3, <2>6, <2>10 DEF WalkLeft
<1>7. CASE ~Mergeable(g, a)
  <2>. DEFINE n == g[a].next
  <2>1. t = [h |-> g, at |-> n]
    BY <1>7 DEF CoalesceTurn
  <2>2. t = [h |-> t.h, at |-> t.at] /\ t.h = g /\ t.at = n
    BY <2>1
  <2>3. CASE n = NULL
    <3>1. ASSUME NEW b \in DOMAIN g, Mergeable(g, b) PROVE FALSE
      <4>1. b \in Nat /\ ~(b < a) /\ b # a
        BY <1>2, <1>5, <1>7, <3>1
      <4>2. b > a
        BY <1>5, <4>1
      <4>3. BlockEnd(g, a) = HEAP_END
        <5>. HIDE DEF g, a
        <5>. QED
          BY <1>2, <2>3 DEF Tiles
      <4>4. BlockEnd(g, a) <= b
        <5>. HIDE DEF g, a
        <5>. QED
          BY <1>2, <3>1, <4>2 DEF Tiles
      <4>5. b + HDR <= HEAP_END
        <5>. HIDE DEF g
        <5>. QED
          BY <1>2, <3>1, Numbers
      <4>. QED
        BY <4>1, <4>3, <4>4, <4>5, Constants
    <3>. HIDE DEF g, a, n, t
    <3>. QED
      BY <1>2, <2>2, <2>3, <3>1 DEF WalkOk, WalkLeft
  <2>4. CASE n # NULL
    <3>1. /\ n \in DOMAIN g /\ n \in Nat /\ n > a
          /\ \A b \in DOMAIN g : b \in Nat /\ (b > a => b >= n)
      <4>. HIDE DEF g, a
      <4>. QED
        BY <1>2, <2>4, NextIsNext
    <3>. HIDE DEF g, a, n, t
    <3>2. \A b \in DOMAIN g : b < n => ~Mergeable(g, b)
      <4>1. \A b \in DOMAIN g : b < n => b < a \/ b = a
        BY <1>5, <3>1
      <4>. QED
        BY <1>2, <1>7, <4>1
    <3>3. WalkOk(h, t)
      BY <1>2, <2>2, <2>4, <3>1, <3>2 DEF WalkOk
    <3>4. Ahead(t) = Ahead(s) \ {a}
      <4>1. Ahead(t) = {b \in DOMAIN g : b >= n}
        BY <2>2 DEF Ahead
      <4>2. \A b \in DOMAIN g : b >= n <=> b >= a /\ b # a
        BY <1>5, <3>1
      <4>. QED
        BY <1>4, <4>1, <4>2
    <3>5. /\ Cardinality(Ahead(s)) = Cardinality(Ahead(t)) + 1
          /\ Cardinality(Ahead(t)) \in Nat
      BY <1>4, <1>5, <3>4, OneLess
    <3>6. Cardinality(DOMAIN g) + Cardinality(Ahead(t)) <= k
      <4>. DEFINE d == Cardinality(DOMAIN g)
                  u == Cardinality(Ahead(t))
                  v == Cardinality(Ahead(s))
      <4>1. d \in Nat /\ u \in Nat /\ v = u + 1 /\ d + v <= k + 1
        BY <1>3, <1>4, <3>5
      <4>. HIDE DEF d, u, v
      <4>2. d + u <= k
        BY <4>1
      <4>. QED
        BY <4>2 DEF d, u
    <3>. QED
      BY <2>2, <3>3, <3>6 DEF WalkLeft
  <2>. QED
    BY <2>3, <2>4
<1>. QED
  BY <1>6, <1>7

(* The loop ends, and leaves what heap_coalesce is defined to be. *)
LEMMA LoopCoalesces ==
  ASSUME NEW h, Typed(h), Tiles(h)
  PROVE  heap_coalesce(h) = CoalesceLoop(h)
<1>. DEFINE N == 2 * Cardinality(DOMAIN h)
            r == CHOOSE r : IsLoop(h, r)
            Done == {n \in 0 .. N : WalkOk(h, r[n]) /\ WalkLeft(r[n], N - n)}
<1>1. Cardinality(DOMAIN h) \in Nat /\ N \in Nat
  BY BlocksFinite, FS_CardinalityType
<1>2. IsLoop(h, r)
  BY <1>1, LoopExists
<1>3. CoalesceLoop(h) = r[N].h
  BY DEF CoalesceLoop, IsLoop
<1>. HIDE DEF r
<1>4. r[0] = [h |-> h, at |-> HEAP_START]
      /\ \A n \in 1 .. N : r[n] = CoalesceTurn(r[n - 1])
  BY <1>1, <1>2 DEF IsLoop
<1>5. 0 \in Done
  <2>1. WalkOk(h, r[0]) /\ WalkLeft(r[0], N)
    BY <1>4, WalkStarts
  <2>2. N - 0 = N /\ 0 \in 0 .. N
    BY <1>1
  <2>. HIDE DEF N
  <2>. QED
    BY <2>1, <2>2
<1>. HIDE DEF N
<1>6. ASSUME NEW n \in 0 .. (N - 1), n \in Done
      PROVE  n + 1 \in Done
  <2>. DEFINE k == N - (n + 1)
  <2>1. k \in Nat /\ N - n = k + 1 /\ n + 1 \in 1 .. N /\ n + 1 \in 0 .. N /\ (n + 1) - 1 = n
    BY <1>1
  <2>. HIDE DEF k
  <2>2. WalkOk(h, r[n]) /\ WalkLeft(r[n], k + 1)
    BY <1>6, <2>1
  <2>3. WalkOk(h, CoalesceTurn(r[n])) /\ WalkLeft(CoalesceTurn(r[n]), k)
    BY <2>1, <2>2, WalkTurns
  <2>4. r[n + 1] = CoalesceTurn(r[n])
    BY <1>4, <2>1
  <2>. QED
    BY <2>1, <2>3, <2>4 DEF k
<1>7. N \in Done
  <2>. HIDE DEF Done
  <2>. QED
    BY <1>1, <1>5, <1>6, Climb
<1>8. WalkOk(h, r[N]) /\ WalkLeft(r[N], 0)
  <2>1. N - N = 0
    BY <1>1
  <2>. QED
    BY <1>7, <2>1
<1>. DEFINE g == r[N].h
<1>9. MergedFrom(h, g)
  BY <1>8 DEF WalkOk
<1>10. r[N].at = NULL
  <2>. SUFFICES ASSUME r[N].at # NULL PROVE FALSE
    OBVIOUS
  <2>. DEFINE c == Cardinality(DOMAIN g)
              d == Cardinality(Ahead(r[N]))
  <2>1. c + d <= 0
    BY <1>8 DEF WalkLeft
  <2>2. IsFiniteSet(DOMAIN g) /\ HEAP_START \in DOMAIN g
    BY <1>9, BlocksFinite DEF MergedFrom, Tiles
  <2>3. c \in Nat /\ c # 0
    BY <2>2, FS_CardinalityType, FS_EmptySet
  <2>4. d \in Nat
    <3>1. Ahead(r[N]) \subseteq DOMAIN g
      BY DEF Ahead
    <3>. QED
      BY <2>2, <3>1, FS_Subset, FS_CardinalityType
  <2>. HIDE DEF c, d
  <2>. QED
    BY <2>1, <2>3, <2>4
<1>11. Coalesced(g)
  BY <1>8, <1>10 DEF WalkOk, Coalesced
<1>12. MergedFrom(h, heap_coalesce(h)) /\ Coalesced(heap_coalesce(h))
  BY CoalesceSound DEF MergedFrom
<1>13. heap_coalesce(h) = g
  <2>. DEFINE f == heap_coalesce(h)
  <2>. HIDE DEF f, g
  <2>1. MergedFrom(h, f) /\ Coalesced(f)
    BY <1>12 DEF f
  <2>2. f = g
    BY <1>9, <1>11, <2>1, OneCoalesced
  <2>. QED
    BY <2>2 DEF f
<1>. QED
  BY <1>3, <1>13

(* Whichever blocks have just been marked free, heap_coalesce as it is     *)
(* defined here is what the loop in the code computes, one merge at a      *)
(* time.                                                                   *)
THEOREM LoopIsCoalesce == ClientsSpec => []CoalesceIsLoop
<1>1. IInv => CoalesceIsLoop
  <2>. SUFFICES ASSUME IInv, NEW S \in SUBSET {a \in DOMAIN heap : ~heap[a].free}
                PROVE  LET h == [a \in DOMAIN heap |-> [heap[a] EXCEPT !.free = @ \/ a \in S]]
                       IN  heap_coalesce(h) = CoalesceLoop(h)
    BY DEF CoalesceIsLoop
  <2>. DEFINE h == [a \in DOMAIN heap |-> [heap[a] EXCEPT !.free = @ \/ a \in S]]
  <2>1. Typed(heap) /\ Tiles(heap)
    BY DEF IInv, HeapInv
  <2>2. DOMAIN h = DOMAIN heap
    OBVIOUS
  <2>3. ASSUME NEW a \in DOMAIN heap
        PROVE  /\ h[a].size = heap[a].size /\ h[a].next = heap[a].next
               /\ h[a] \in [size : Nat, next : {NULL} \cup DOMAIN heap, free : BOOLEAN]
    <3>1. heap[a] \in [size : Nat, next : {NULL} \cup DOMAIN heap, free : BOOLEAN]
      BY <2>1 DEF Typed
    <3>. QED
      BY <3>1
  <2>4. Typed(h)
    <3>1. h = [a \in DOMAIN h |-> h[a]]
      OBVIOUS
    <3>2. DOMAIN h \subseteq HEAP_START .. (HEAP_END - HDR)
      BY <2>1, <2>2 DEF Typed
    <3>. HIDE DEF h
    <3>3. h \in [DOMAIN h -> [size : Nat, next : {NULL} \cup DOMAIN h, free : BOOLEAN]]
      BY <2>2, <2>3, <3>1
    <3>. QED
      BY <3>2, <3>3 DEF Typed
  <2>5. Tiles(h)
    <3>. HIDE DEF h
    <3>1. \A a \in DOMAIN heap : BlockEnd(h, a) = BlockEnd(heap, a)
      BY <2>3 DEF BlockEnd
    <3>. QED
      BY <2>1, <2>2, <2>3, <3>1 DEF Tiles
  <2>. HIDE DEF h
  <2>6. heap_coalesce(h) = CoalesceLoop(h)
    BY <2>4, <2>5, LoopCoalesces
  <2>. QED
    BY <2>6 DEF h
<1>. QED
  BY <1>1, Inductive, PTL
=============================================================================
