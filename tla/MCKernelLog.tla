---------------------------- MODULE MCKernelLog ----------------------------
(* A ring of nine bytes, lines of three to eight bytes that wrap around    *)
(* its end, and a print buffer smaller than the ring, as in the kernel.    *)
EXTENDS KernelLog
=============================================================================
