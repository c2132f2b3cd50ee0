---------------------------- MODULE HeapClients ----------------------------
(***************************************************************************)
(* The kernel heap together with its callers.  A caller asks for Sizes     *)
(* bytes, keeps what it is given, and hands back a pointer it holds or one *)
(* that lies outside the region (kfree ignores those).                     *)
(*                                                                         *)
(* live is the callers' view: the pointers they hold and how many bytes    *)
(* each of them asked for.                                                 *)
(***************************************************************************)
EXTENDS KernelHeap

CONSTANTS
  Sizes,      \* the sizes callers ask for
  Strays      \* pointers that kmalloc never returns

ASSUME ClientAssumption ==
  /\ Sizes \subseteq 0 .. (WORD - 1)
  /\ \A p \in Strays : p \in Nat /\ (p < HEAP_START + HDR \/ p >= HEAP_END)

VARIABLE live

clientVars == <<heap, live>>

ClientsInit == HeapInit /\ live = [p \in {} |-> 0]

Kmalloc(size) ==
  LET r == kmalloc(heap, size)
  IN  /\ heap' = r.heap
      /\ live' = IF r.ptr = NULL THEN live
                 ELSE [p \in DOMAIN live \cup {r.ptr} |->
                         IF p = r.ptr THEN size ELSE live[p]]

Kfree(p) ==
  /\ heap' = kfree(heap, p)
  /\ live' = [q \in DOMAIN live \ {p} |-> live[q]]

ClientsNext ==
  \/ \E size \in Sizes : Kmalloc(size)
  \/ \E p \in DOMAIN live : Kfree(p)
  \/ \E p \in Strays : Kfree(p)

ClientsSpec == ClientsInit /\ [][ClientsNext]_clientVars

-----------------------------------------------------------------------------
(* What a caller holds is a whole block of its own: at least the bytes it  *)
(* asked for, inside the region, and apart from every other caller's bytes *)
(* and from every header.  No block is taken without a holder.             *)
LiveDisjoint ==
  /\ {p - HDR : p \in DOMAIN live} = {a \in DOMAIN heap : ~heap[a].free}
  /\ \A p \in DOMAIN live :
       /\ p + live[p] <= HEAP_END
       /\ \A a \in DOMAIN heap : a >= p + live[p] \/ a + HDR <= p

(* The inductive form of LiveDisjoint: the callers hold exactly the blocks *)
(* in use, and each of these is at least as long as what was asked for.    *)
Owned ==
  /\ DOMAIN live = {a + HDR : a \in {b \in DOMAIN heap : ~heap[b].free}}
  /\ \A a \in DOMAIN heap :
       ~heap[a].free => /\ live[a + HDR] \in Nat \ {0}
                        /\ live[a + HDR] <= heap[a].size

(* kmalloc refuses a request only when no stretch of the region that the   *)
(* callers leave unused could hold the request and its header: freed       *)
(* memory never stays unusable because of how it was cut up.               *)
NoFalseExhaustion ==
  \A size \in Sizes :
    LET need == heap_align8(size)
        Used(x) == \E p \in DOMAIN live :
                     p - HDR < x + HDR + need /\ x < BlockEnd(heap, p - HDR)
    IN  size # 0 /\ need # 0 /\ KmallocFails(heap, size) =>
          \A x \in HEAP_START .. (HEAP_END - HDR - need) : Used(x)

(* The byte counts kstats and top print, and one header per block, add up  *)
(* to the whole region, and the used count covers what callers asked for.  *)
StatsExact ==
  /\ kheap_used_bytes + kheap_free_bytes + HDR * Cardinality(DOMAIN heap) = HEAP_SIZE
  /\ kheap_used_bytes >= MapThenSumSet(LAMBDA p : live[p], DOMAIN live)

(* Block a takes the block after it in. *)
MergeAt(g, a) ==
  [x \in DOMAIN g \ {g[a].next} |->
     IF x = a
     THEN [size |-> g[a].size + HDR + g[g[a].next].size,
           next |-> g[g[a].next].next, free |-> g[a].free]
     ELSE g[x]]

(* One iteration of heap_coalesce's loop, of the list and the position of  *)
(* the walk: it stays on a block as long as that can absorb the next.      *)
CoalesceTurn(s) ==
  IF s.at = NULL THEN s
  ELSE IF Mergeable(s.h, s.at) THEN [h |-> MergeAt(s.h, s.at), at |-> s.at]
  ELSE [h |-> s.h, at |-> s.h[s.at].next]

(* The loop: no list needs more than two iterations for each block. *)
CoalesceLoop(h) ==
  LET at[n \in 0 .. 2 * Cardinality(DOMAIN h)] ==
        IF n = 0 THEN [h |-> h, at |-> HEAP_START] ELSE CoalesceTurn(at[n - 1])
  IN  at[2 * Cardinality(DOMAIN h)].h

(* Merging whole runs at once is what the loop computes, whichever of the  *)
(* taken blocks have just been marked free.                                *)
CoalesceIsLoop ==
  \A S \in SUBSET {a \in DOMAIN heap : ~heap[a].free} :
    LET h == [a \in DOMAIN heap |-> [heap[a] EXCEPT !.free = @ \/ a \in S]]
    IN  heap_coalesce(h) = CoalesceLoop(h)
=============================================================================
