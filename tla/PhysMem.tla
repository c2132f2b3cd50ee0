------------------------------ MODULE PhysMem ------------------------------
(***************************************************************************)
(* The physical page allocator of src/kernel/mm.c: a bitmap with one bit   *)
(* per page and a count of the bits that are set.  The pages up to the end *)
(* of the kernel heap are reserved when it starts.                         *)
(*                                                                         *)
(* pmm_bitmap is the set of the pages whose bit is 1.                      *)
(***************************************************************************)
EXTENDS KernelHeap

CONSTANTS
  PAGE_SIZE,
  MEM_SIZE      \* what kernel_main passes to pmm_init

ASSUME PmmAssumption ==
  /\ PAGE_SIZE \in Nat \ {0}
  /\ MEM_SIZE \in Nat
  /\ HEAP_END % PAGE_SIZE = 0
  /\ PAGE_SIZE <= HEAP_END

VARIABLES pmm_bitmap, pmm_used_blocks

pmmVars == <<pmm_bitmap, pmm_used_blocks>>

pmm_max_blocks ==
  (IF MEM_SIZE < PAGE_SIZE THEN PAGE_SIZE ELSE MEM_SIZE) \div PAGE_SIZE

pmm_reserved_blocks ==
  LET reserve == HEAP_END \div PAGE_SIZE
  IN  IF reserve > pmm_max_blocks THEN pmm_max_blocks ELSE reserve

Blocks == 0 .. (pmm_max_blocks - 1)
Reserved == 0 .. (pmm_reserved_blocks - 1)
Allocatable == pmm_reserved_blocks .. (pmm_max_blocks - 1)
PageAddress == {i * PAGE_SIZE : i \in Allocatable}

PmmInit ==
  /\ pmm_bitmap = Reserved
  /\ pmm_used_blocks = pmm_reserved_blocks

(* The lowest free page, or NULL when there is none. *)
pmm_alloc_page(p) ==
  \/ /\ Allocatable \subseteq pmm_bitmap
     /\ p = NULL
     /\ UNCHANGED pmmVars
  \/ \E i \in Allocatable \ pmm_bitmap :
       /\ \A j \in Allocatable \ pmm_bitmap : i <= j
       /\ p = i * PAGE_SIZE
       /\ pmm_bitmap' = pmm_bitmap \cup {i}
       /\ pmm_used_blocks' = pmm_used_blocks + 1

(* Mutant: the bit is cleared and nothing is counted. *)
PmmFreeUncounted(p) ==
  LET b == p \div PAGE_SIZE
  IN  /\ pmm_bitmap' = pmm_bitmap \ {b}
      /\ pmm_used_blocks' = pmm_used_blocks

(* NULL, a reserved page, an address past the end of memory and a page     *)
(* that is already free are ignored.                                       *)
pmm_free_page(p) ==
  LET b == p \div PAGE_SIZE
  IN  IF p = NULL \/ b \notin Allocatable \/ b \notin pmm_bitmap
      THEN UNCHANGED pmmVars
      ELSE /\ pmm_bitmap' = pmm_bitmap \ {b}
           /\ pmm_used_blocks' =
                IF pmm_used_blocks > 0 THEN pmm_used_blocks - 1 ELSE pmm_used_blocks

pmm_free_blocks_count ==
  IF pmm_max_blocks < pmm_used_blocks THEN 0 ELSE pmm_max_blocks - pmm_used_blocks

-----------------------------------------------------------------------------
(* The allocator under any caller: every address may be handed to          *)
(* pmm_free_page, at any time and as often as the caller likes.            *)
PmmNext == \E p \in Nat : pmm_alloc_page(p) \/ pmm_free_page(p)

PmmSpec == PmmInit /\ [][PmmNext]_pmmVars

PmmTypeOK ==
  /\ pmm_bitmap \subseteq Blocks
  /\ pmm_used_blocks \in Nat

(* The reserved pages (low memory and the kernel heap) are never given     *)
(* away, and the count that kstats, top and the boot check print is the    *)
(* number of set bits: the two are kept apart and updated separately.      *)
PmmInv ==
  /\ PmmTypeOK
  /\ Reserved \subseteq pmm_bitmap
  /\ pmm_used_blocks = Cardinality(pmm_bitmap)
=============================================================================
