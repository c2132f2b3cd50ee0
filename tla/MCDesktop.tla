----------------------------- MODULE MCDesktop -----------------------------
(* Three windows on a screen of 8 by 10 cells: two that can be dragged and *)
(* one that fills the desktop, hidden at first.                            *)
EXTENDS Desktop

MCSize == [i \in 0 .. 2 |-> IF i = 1 THEN [w |-> 6, h |-> 4] ELSE [w |-> 4, h |-> 3]]
MCLayout ==
  [i \in 0 .. 2 |-> [x |-> IF i = 2 THEN 3 ELSE 1, y |-> 2, visible |-> i # 1]]
MCOrder == <<0, 1, 2>>
MCMoves == {<<-1, 0>>, <<2, 1>>, <<0, -2>>}
=============================================================================
