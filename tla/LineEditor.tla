----------------------------- MODULE LineEditor -----------------------------
(***************************************************************************)
(* What the shell promises the person at the keyboard: keys act in the     *)
(* order they were pressed, on a line with a cursor and on a list of the   *)
(* newest commands.  Up and Down walk the list; going back below it brings *)
(* back the line that was being typed.  There is no port, no buffer and no *)
(* ring here.  While an application has the screen the keys are its own.   *)
(* When one starts and finds the port busy, nothing more is promised.      *)
(***************************************************************************)
EXTENDS Integers, Sequences, SequencesExt

CONSTANTS
  Chars,         \* printable characters
  MaxLine,       \* longest line
  MaxPast        \* how many commands are remembered

VARIABLES
  typed,         \* keys pressed and not yet acted on
  line, cur,     \* the line, and how many characters are before the cursor
  past, nav,     \* the commands remembered, oldest first, and the one shown
  pending,       \* the line put aside by Up
  app,           \* an application is running
  lost           \* one was started while keys were on their way

state == <<typed, line, cur, past, nav, pending, app, lost>>

Init ==
  /\ typed = <<>> /\ line = <<>> /\ cur = 0
  /\ past = <<>> /\ nav = 0 /\ pending = <<>> /\ app = FALSE /\ lost = FALSE

Press(k) == typed' = Append(typed, k) /\ UNCHANGED <<line, cur, past, nav, pending, app, lost>>

Show(s) == line' = s /\ cur' = Len(s)
Newest(s) == SubSeq(s, IF Len(s) > MaxPast THEN Len(s) - MaxPast + 1 ELSE 1, Len(s))

Edit(k) ==
  /\ \/ /\ k \in Chars /\ Len(line) < MaxLine
        /\ line' = InsertAt(line, cur + 1, k) /\ cur' = cur + 1
     \/ /\ k = "backspace" /\ cur > 0
        /\ line' = RemoveAt(line, cur) /\ cur' = cur - 1
     \/ /\ k = "delete" /\ cur < Len(line)
        /\ line' = RemoveAt(line, cur + 1) /\ UNCHANGED cur
     \/ k = "left" /\ cur > 0 /\ cur' = cur - 1 /\ UNCHANGED line
     \/ k = "right" /\ cur < Len(line) /\ cur' = cur + 1 /\ UNCHANGED line
     \/ k = "home" /\ cur' = 0 /\ UNCHANGED line
     \/ k = "end" /\ cur' = Len(line) /\ UNCHANGED line
  /\ UNCHANGED <<past, nav, pending, app>>

Recall(k) ==
  /\ \/ /\ k = "up"
        /\ pending' = IF nav = 0 THEN line ELSE pending
        /\ IF nav < Len(past)
           THEN nav' = nav + 1 /\ Show(past[Len(past) - nav])
           ELSE UNCHANGED <<nav, line, cur>>
     \/ /\ k = "down" /\ nav > 0
        /\ nav' = nav - 1
        /\ Show(IF nav = 1 THEN pending ELSE past[Len(past) - nav + 2])
        /\ UNCHANGED pending
  /\ UNCHANGED <<past, app>>

Enter(k) ==
  /\ k = "enter"
  /\ past' = IF line = <<>> THEN past ELSE Newest(Append(past, line))
  /\ nav' = 0 /\ line' = <<>> /\ cur' = 0
  /\ app' \in IF line = <<>> THEN {FALSE} ELSE BOOLEAN
  /\ UNCHANGED pending

Ignore(k) ==
  /\ \/ k \in Chars /\ Len(line) = MaxLine
     \/ k \in {"backspace", "left"} /\ cur = 0
     \/ k \in {"delete", "right"} /\ cur = Len(line)
     \/ k = "down" /\ nav = 0
     \/ k = "escape"
  /\ UNCHANGED <<line, cur, past, nav, pending, app>>

(* The oldest key that was not acted on yet. *)
Key ==
  /\ typed # <<>>
  /\ typed' = Tail(typed)
  /\ LET k == Head(typed)
     IN  \/ ~app /\ (Edit(k) \/ Recall(k) \/ Enter(k) \/ Ignore(k))
         \/ app /\ app' = (k # "escape") /\ UNCHANGED <<line, cur, past, nav, pending>>
  /\ UNCHANGED lost

Lose == app /\ lost'

AfterLoss == lost /\ lost'

Next ==
  \/ \E k \in Chars \cup {"enter", "backspace", "delete", "left", "right", "home",
                          "end", "up", "down", "escape"} : Press(k)
  \/ Key \/ Lose \/ AfterLoss

Spec == Init /\ [][Next]_state
=============================================================================
