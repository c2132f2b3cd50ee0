------------------------------ MODULE Terminal ------------------------------
(***************************************************************************)
(* The line editor and the command history of src/terminal/terminal.c: an  *)
(* array of characters with a length and a cursor, and a ring of strings   *)
(* that is addressed backwards from its newest entry.  What is drawn on    *)
(* the screen is not modelled.                                             *)
(***************************************************************************)
EXTENDS Integers, Sequences

CONSTANTS
  HIST_SIZE, HIST_LEN,
  Printable            \* the characters a key can give

ASSUME TerminalAssumption ==
  /\ HIST_SIZE \in Nat \ {0}
  /\ HIST_LEN \in Nat \ {0}

VARIABLES
  g_history, g_hist_count, g_hist_next,
  g_pending, g_nav_pos,
  cmdbuf, cmdlen, cursor_pos

histVars == <<g_history, g_hist_count, g_hist_next>>
lineVars == <<cmdbuf, cmdlen, cursor_pos>>
terminalVars == <<histVars, g_pending, g_nav_pos, lineVars>>

NUL == "NUL"
Cells == 0 .. (HIST_LEN - 1)

TerminalInit ==
  /\ g_history = [i \in 0 .. (HIST_SIZE - 1) |-> <<>>]
  /\ g_hist_count = 0 /\ g_hist_next = 0
  /\ g_pending = <<>> /\ g_nav_pos = 0
  /\ cmdbuf = [i \in Cells |-> NUL] /\ cmdlen = 0 /\ cursor_pos = 0

(* The string in cmdbuf: up to its first NUL. *)
Text ==
  LET n == CHOOSE n \in Cells : cmdbuf[n] = NUL /\ \A i \in 0 .. (n - 1) : cmdbuf[i] # NUL
  IN  [i \in 1 .. n |-> cmdbuf[i - 1]]

(* strncpy into cmdbuf, which fills up with NUL. *)
SetLine(s) ==
  /\ cmdbuf' = [i \in Cells |-> IF i < Len(s) THEN s[i + 1] ELSE NUL]
  /\ cmdlen' = Len(s)
  /\ cursor_pos' = Len(s)

(* Mutant: the ring is indexed from the slot after the newest. *)
HistGetOff(steps_back) == g_history[(g_hist_next - steps_back + 1 + HIST_SIZE * 2) % HIST_SIZE]

hist_get(steps_back) == g_history[(g_hist_next - steps_back + HIST_SIZE * 2) % HIST_SIZE]

hist_add(cmd) ==
  /\ g_history' = [g_history EXCEPT ![g_hist_next] = cmd]
  /\ g_hist_next' = (g_hist_next + 1) % HIST_SIZE
  /\ g_hist_count' = IF g_hist_count < HIST_SIZE THEN g_hist_count + 1 ELSE g_hist_count

Enter ==
  /\ IF cmdlen > 0 THEN hist_add(Text) ELSE UNCHANGED histVars
  /\ g_nav_pos' = 0
  /\ cmdlen' = 0 /\ cursor_pos' = 0
  /\ cmdbuf' = [cmdbuf EXCEPT ![cmdlen] = NUL, ![0] = NUL]
  /\ UNCHANGED g_pending

(* The characters from the k-th on move down by one. *)
Remove(k) ==
  /\ cmdbuf' = [i \in Cells |-> IF i = cmdlen - 1 THEN NUL
                                ELSE IF k <= i /\ i < cmdlen - 1 THEN cmdbuf[i + 1]
                                ELSE cmdbuf[i]]
  /\ cmdlen' = cmdlen - 1

Insert(c) ==
  /\ cmdbuf' = [i \in Cells |-> IF i = cmdlen + 1 THEN NUL
                                ELSE IF i = cursor_pos THEN c
                                ELSE IF cursor_pos < i /\ i <= cmdlen THEN cmdbuf[i - 1]
                                ELSE cmdbuf[i]]
  /\ cmdlen' = cmdlen + 1
  /\ cursor_pos' = cursor_pos + 1

Up ==
  /\ g_pending' = IF g_nav_pos = 0 THEN Text ELSE g_pending
  /\ IF g_nav_pos < g_hist_count
     THEN g_nav_pos' = g_nav_pos + 1 /\ SetLine(hist_get(g_nav_pos + 1))
     ELSE UNCHANGED <<g_nav_pos, lineVars>>
  /\ UNCHANGED histVars

Down ==
  /\ g_nav_pos > 0
  /\ g_nav_pos' = g_nav_pos - 1
  /\ SetLine(IF g_nav_pos > 1 THEN hist_get(g_nav_pos - 1) ELSE g_pending)
  /\ UNCHANGED <<histVars, g_pending>>

(* The keys that change only the line. *)
EditKey(key) ==
  /\ \/ key = "backspace" /\ cursor_pos > 0 /\ Remove(cursor_pos - 1)
        /\ cursor_pos' = cursor_pos - 1
     \/ key = "delete" /\ cursor_pos < cmdlen /\ Remove(cursor_pos) /\ UNCHANGED cursor_pos
     \/ key = "left" /\ cursor_pos > 0 /\ cursor_pos' = cursor_pos - 1
        /\ UNCHANGED <<cmdbuf, cmdlen>>
     \/ key = "right" /\ cursor_pos < cmdlen /\ cursor_pos' = cursor_pos + 1
        /\ UNCHANGED <<cmdbuf, cmdlen>>
     \/ key = "home" /\ cursor_pos' = 0 /\ UNCHANGED <<cmdbuf, cmdlen>>
     \/ key = "end" /\ cursor_pos' = cmdlen /\ UNCHANGED <<cmdbuf, cmdlen>>
     \/ key \in Printable /\ cmdlen < HIST_LEN - 1 /\ Insert(key)
  /\ UNCHANGED <<histVars, g_pending, g_nav_pos>>

(* Keys that do nothing where the line or the history stands. *)
DeadKey(key) ==
  /\ \/ key \in {"backspace", "left"} /\ cursor_pos = 0
     \/ key \in {"delete", "right"} /\ cursor_pos = cmdlen
     \/ key = "down" /\ g_nav_pos = 0
     \/ key \in Printable /\ cmdlen = HIST_LEN - 1
     \/ key \in {"", "escape"}
  /\ UNCHANGED terminalVars

(* The body of terminal_run's loop for a key other than Enter. *)
LineKey(key) ==
  \/ EditKey(key)
  \/ key = "up" /\ Up
  \/ key = "down" /\ Down
  \/ DeadKey(key)
=============================================================================
