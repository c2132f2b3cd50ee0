------------------------------- MODULE MCHeap -------------------------------
(* HeapClients on a region of 120 bytes: room for six small blocks, with  *)
(* sizes on both sides of the rounding and of the split threshold, one     *)
(* larger than the region and one that wraps to 0 when it is rounded up.   *)
EXTENDS HeapClients

MCSizes == {0, 1, 9, 24, 108, 121, 255}
MCStrays == {0, 8, 19, 128}
=============================================================================
