----------------------------- MODULE BoundedLog -----------------------------
(***************************************************************************)
(* What the kernel log promises: it holds the newest bytes that were       *)
(* logged, as many as fit, in the order they came; a line's number is one  *)
(* more than that of the line before, also across a clear.                 *)
(***************************************************************************)
EXTENDS Integers, Sequences

CONSTANTS Capacity, MaxLine

VARIABLES kept,      \* the bytes held: each is a line's number and a place in it
          lines      \* how many lines were logged

Newest(s) ==
  SubSeq(s, IF Len(s) > Capacity THEN Len(s) - Capacity + 1 ELSE 1, Len(s))

Init == kept = <<>> /\ lines = 0

Log(n) ==
  /\ lines' = lines + 1
  /\ kept' = Newest(kept \o [j \in 1 .. n |-> <<lines', j>>])

Clear == kept' = <<>> /\ UNCHANGED lines

Next == (\E n \in 1 .. MaxLine : Log(n)) \/ Clear

Spec == Init /\ [][Next]_<<kept, lines>>
=============================================================================
