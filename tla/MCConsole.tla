----------------------------- MODULE MCConsole -----------------------------
(* One letter and its capital, lines of two characters and a history of    *)
(* two entries, so that it wraps.  Two groups of keys are used: those that *)
(* edit a line, and those that walk the history and start and leave the    *)
(* desktop, with the mouse moving.                                         *)
EXTENDS Console

MCUpper == [c \in {"a"} |-> "A"]
MCKeySets ==
  {{"a", "left shift", "right shift", "left", "right", "home", "end", "delete",
    "backspace"},
   {"a", "up", "down", "enter", "escape"}}
=============================================================================
