---------------------------- MODULE MCScheduler ----------------------------
(* Room for five structures and three stack pages, pids that wrap after 3: *)
(* creation can fail for want of either kind of memory, and two processes  *)
(* can end up with the same pid, or one with the kernel's.                 *)
EXTENDS Scheduler
=============================================================================
