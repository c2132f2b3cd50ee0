----------------------------- MODULE MCNetRing -----------------------------
(* A ring of six pages and six frames of one to three pages: frames cross *)
(* the end of the ring, fill it to the last page and overrun it, and the   *)
(* ring is gone round twice.                                               *)
EXTENDS NetRing

MCPageCounts == 1 .. 3
=============================================================================
