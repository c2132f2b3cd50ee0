------------------------------ MODULE Lengths ------------------------------
(* Lengths as the readers of src/commands/java.c meet them: summed up in a *)
(* file, and as a field of 32 bits that is cast to int.                    *)
EXTENDS Integers, Sequences

CONSTANT INT_LIM       \* what an int does not reach, 2^31

ASSUME IntAssumption == INT_LIM \in Nat \ {0}

WORD == 2 * INT_LIM    \* a field of 32 bits is below this

(* A field or a sum as an int: from 2^31 on it comes out negative.         *)
AsInt(x) == IF x < INT_LIM THEN x ELSE x - WORD

(* In place of what is found at an offset where nothing was written to be  *)
(* found: the outcome is open.                                             *)
Astray == -2

(* Sums of the first 0, 1, 2, ... numbers of a sequence. *)
Sums(w) ==
  LET s[k \in 0 .. Len(w)] == IF k = 0 THEN 0 ELSE s[k - 1] + w[k]
  IN  s
=============================================================================
