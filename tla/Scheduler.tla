----------------------------- MODULE Scheduler -----------------------------
(***************************************************************************)
(* The process table of src/kernel/scheduler.c, on top of the two          *)
(* allocators it takes its memory from.  Process structures live in the    *)
(* kernel heap and form a ring through their next fields; the ring starts  *)
(* at the kernel's own process.  Each other process owns one stack page.   *)
(*                                                                         *)
(* proc maps the address of each structure on the ring to its fields       *)
(* (id, next, stack_base; state is 1 throughout, and the register fields   *)
(* are never read).  The specification starts after kernel_main's          *)
(* pmm_init and scheduler_init, so process_list is set and never changes.  *)
(***************************************************************************)
EXTENDS PhysMem

CONSTANTS
  PROC_SIZE,    \* sizeof(process_t): 28 on the i386 target
  PID_MOD,      \* pids and ticks are uint32_t: they wrap at 2^32
  MAX_COUNT     \* room in the caller's array for scheduler_snapshot

ASSUME SchedAssumption ==
  /\ PROC_SIZE \in 1 .. HEAP_SIZE
  /\ PID_MOD \in Nat /\ PID_MOD > 1
  /\ MAX_COUNT \in Nat
  /\ heap_align8(PROC_SIZE) \in 1 .. (HEAP_SIZE - HDR)

VARIABLES
  proc,              \* the structures on the ring
  current_process,
  next_pid,
  scheduler_ticks,
  leaked             \* history: structures allocated and then forgotten

schedVars == <<proc, current_process, next_pid, scheduler_ticks, leaked>>
vars == <<heap, pmm_bitmap, pmm_used_blocks, proc, current_process, next_pid,
          scheduler_ticks, leaked>>

process_list == HEAP_START + HDR

Init ==
  /\ heap = kmalloc(InitialHeap, PROC_SIZE).heap
  /\ PmmInit
  /\ proc = [p \in {process_list} |-> [id |-> 0, next |-> process_list, stack_base |-> NULL]]
  /\ current_process = process_list
  /\ next_pid = 1
  /\ scheduler_ticks = 0
  /\ leaked = {}

-----------------------------------------------------------------------------
(* The structure reached from process_list in n hops. *)
Hop[n \in 0 .. Cardinality(DOMAIN proc)] ==
  IF n = 0 THEN process_list ELSE proc[Hop[n - 1]].next

(* Mutant: the new structure is linked in before its own next field is set. *)
InsertLate(p, id, stack) ==
  [q \in DOMAIN proc \cup {p} |->
     IF q = p THEN [id |-> id, next |-> p, stack_base |-> stack]
     ELSE IF q = process_list THEN [proc[q] EXCEPT !.next = p] ELSE proc[q]]

(* The ring with a new structure right after process_list. *)
Insert(p, id, stack) ==
  [q \in DOMAIN proc \cup {p} |->
     IF q = p THEN [id |-> id, next |-> proc[process_list].next, stack_base |-> stack]
     ELSE IF q = process_list THEN [proc[q] EXCEPT !.next = p] ELSE proc[q]]

(* No memory for the structure: nothing changes. *)
CreateNoStruct ==
  /\ KmallocFails(heap, PROC_SIZE)
  /\ UNCHANGED vars

(* No page for the stack: the structure is not given back and its pid is   *)
(* used up.                                                                *)
CreateNoStack ==
  LET r == kmalloc(heap, PROC_SIZE)
  IN  /\ r.ptr # NULL
      /\ pmm_alloc_page(NULL)
      /\ heap' = r.heap
      /\ next_pid' = (next_pid + 1) % PID_MOD
      /\ leaked' = leaked \cup {r.ptr}
      /\ UNCHANGED <<proc, current_process, scheduler_ticks>>

CreateLinked ==
  LET r == kmalloc(heap, PROC_SIZE)
  IN  /\ r.ptr # NULL
      /\ \E stack \in PageAddress :
           /\ pmm_alloc_page(stack)
           /\ proc' = Insert(r.ptr, next_pid, stack)
      /\ heap' = r.heap
      /\ next_pid' = (next_pid + 1) % PID_MOD
      /\ UNCHANGED <<current_process, scheduler_ticks, leaked>>

create_process == CreateNoStruct \/ CreateNoStack \/ CreateLinked

-----------------------------------------------------------------------------
yield ==
  /\ current_process # proc[current_process].next
  /\ current_process' = proc[current_process].next
  /\ scheduler_ticks' = (scheduler_ticks + 1) % PID_MOD
  /\ UNCHANGED <<heap, pmm_bitmap, pmm_used_blocks, proc, next_pid, leaked>>

-----------------------------------------------------------------------------
Rank(p) == Min({n \in 1 .. Cardinality(DOMAIN proc) : Hop[n] = p})

Victims(pid) == {p \in DOMAIN proc \ {process_list} : proc[p].id = pid}

(* Mutant: current_process is left alone when it is the one that dies. *)
CurrentKept(cur) == current_process

(* Mutant: the walk starts over at the kernel's process. *)
CurrentToKernel(cur) ==
  IF current_process = cur THEN process_list ELSE current_process

(* What current_process becomes when cur is removed. *)
CurrentAfterKill(cur) ==
  IF current_process = cur THEN proc[cur].next ELSE current_process

(* Mutant: the structure is freed but its stack page is not. *)
ReleaseStruct(cur) ==
  /\ heap' = kfree(heap, cur)
  /\ UNCHANGED pmmVars

(* Mutant: the stack page is given back but the structure is not. *)
ReleasePage(cur) ==
  /\ pmm_free_page(proc[cur].stack_base)
  /\ UNCHANGED heap

(* Gives cur's page and structure back. *)
Release(cur) ==
  /\ pmm_free_page(proc[cur].stack_base)
  /\ heap' = kfree(heap, cur)

(* The ring without cur. *)
Unlink(prev, cur) ==
  [q \in DOMAIN proc \ {cur} |->
     IF q = prev THEN [proc[q] EXCEPT !.next = proc[cur].next] ELSE proc[q]]

(* The first structure on the walk from process_list that carries pid.     *)
(* Pid 0 is refused; a pid that is not on the ring changes nothing.        *)
scheduler_kill(pid) ==
  /\ pid # 0
  /\ \E cur \in Victims(pid), prev \in DOMAIN proc :
       /\ \A other \in Victims(pid) : Rank(cur) <= Rank(other)
       /\ proc[prev].next = cur
       /\ proc' = Unlink(prev, cur)
       /\ current_process' = CurrentAfterKill(cur)
       /\ Release(cur)
  /\ UNCHANGED <<next_pid, scheduler_ticks, leaked>>

Next ==
  \/ create_process
  \/ yield
  \/ \E pid \in 0 .. (PID_MOD - 1) : scheduler_kill(pid)

Spec == Init /\ [][Next]_vars

-----------------------------------------------------------------------------
(* What ps and top show, in ring order, and the count kstats shows. *)
scheduler_snapshot ==
  LET n == IF MAX_COUNT < Cardinality(DOMAIN proc) THEN MAX_COUNT
           ELSE Cardinality(DOMAIN proc)
  IN  [i \in 1 .. n |-> [id |-> proc[Hop[i - 1]].id,
                         current |-> Hop[i - 1] = current_process]]

-----------------------------------------------------------------------------
(* The fields hold what their C types can, and the two pointers of the     *)
(* scheduler point at structures that have not been freed.                 *)
TypeOK ==
  /\ PmmTypeOK
  /\ proc \in [DOMAIN proc -> [id : 0 .. (PID_MOD - 1),
                               next : Nat,
                               stack_base : {NULL} \cup PageAddress]]
  /\ process_list \in DOMAIN proc
  /\ current_process \in DOMAIN proc
  /\ next_pid \in 0 .. (PID_MOD - 1)
  /\ scheduler_ticks \in 0 .. (PID_MOD - 1)

(* The structures form one ring: the walk from process_list meets each of  *)
(* them once and is back after as many hops as there are structures.  So   *)
(* the loops of kill, ps and top end and see every process, and ps marks   *)
(* one process as current, unless its array ends before that one.          *)
RingIntact ==
  LET n == Cardinality(DOMAIN proc)
      marked == {i \in DOMAIN scheduler_snapshot : scheduler_snapshot[i].current}
  IN  /\ Hop[n] = process_list
      /\ {Hop[i] : i \in 0 .. (n - 1)} = DOMAIN proc
      /\ Cardinality(marked) <= 1
      /\ n <= MAX_COUNT => Cardinality(marked) = 1

(* Every structure on the ring is a heap block of its own that is large    *)
(* enough and not free, and the only other blocks in use are the ones that *)
(* create_process lost: no pointer of the scheduler outlives its block.    *)
StructOwnership ==
  /\ \A p \in DOMAIN proc :
       /\ p - HDR \in DOMAIN heap
       /\ heap[p - HDR].size >= PROC_SIZE
  /\ DOMAIN proc \cap leaked = {}
  /\ {a \in DOMAIN heap : ~heap[a].free} = {p - HDR : p \in DOMAIN proc \cup leaked}

(* Every process but the kernel's own has a stack page that no other one   *)
(* has; together with the reserved pages these are all the pages in use,   *)
(* and none of them overlaps the kernel heap.                              *)
StackOwnership ==
  LET others == DOMAIN proc \ {process_list}
  IN  /\ \A p \in others : proc[p].stack_base # NULL
      /\ \A p, q \in others : proc[p].stack_base = proc[q].stack_base => p = q
      /\ \A p \in others : proc[p].stack_base >= HEAP_END
      /\ {proc[p].stack_base \div PAGE_SIZE : p \in others} = pmm_bitmap \ Reserved

(* The processor moves only to the process after the current one on the    *)
(* ring as it was, also when the current process is the one that is        *)
(* killed, and a process that stays keeps its pid and its stack.           *)
RoundRobin ==
  [][ /\ current_process' \in {current_process, proc[current_process].next}
      /\ \A p \in DOMAIN proc \cap DOMAIN proc' :
           /\ proc'[p].id = proc[p].id
           /\ proc'[p].stack_base = proc[p].stack_base ]_vars
=============================================================================
