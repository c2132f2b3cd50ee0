------------------------------ MODULE Console ------------------------------
(***************************************************************************)
(* The shell at the keyboard: terminal_run on top of keyboard_poll, and    *)
(* the desktop, which starts the mouse and polls both devices until Esc.   *)
(* The mouse goes on sending when the desktop has returned.                *)
(***************************************************************************)
EXTENDS Ps2, Terminal

(* The keys that print give characters, and no character is the number of  *)
(* a key without one or ends a string.                                     *)
ASSUME CharactersAssumption ==
  /\ Letters \subseteq Printable /\ \A c \in Letters : Upper[c] \in Printable
  /\ \A c \in {"", NUL, "E0", "E1", "left shift", "right shift", "up", "down", "left",
               "right", "home", "end", "delete", "enter", "backspace", "escape"} :
       c \notin Printable

VARIABLE mode        \* "shell", "starting" (desktop_run before its loop), "desktop"

vars == <<ps2Vars, terminalVars, mode>>

Init == Ps2Init /\ TerminalInit /\ mode = "shell"

Keys == Letters \cup {Upper[c] : c \in Letters} \cup ExtendedCodes \cup PlainCodes

(* terminal_run: one turn of keyboard_poll and, if it gave a key, what the *)
(* shell does with it.  Which command a line names is left open: any may   *)
(* start the desktop.  When the port is empty the shell halts until the    *)
(* next timer tick and looks again.                                        *)
terminal_run ==
  /\ mode = "shell"
  /\ \E key \in Keys \cup {""} :
       /\ keyboard_poll(key)
       /\ \/ key # "enter" /\ LineKey(key) /\ UNCHANGED mode
          \/ /\ key = "enter" /\ Enter
             /\ mode' \in IF cmdlen > 0 THEN {"shell", "starting"} ELSE {"shell"}

StartDesktop ==
  /\ mode = "starting"
  /\ \E ok \in BOOLEAN : mouse_init(ok)
  /\ mode' = "desktop"
  /\ UNCHANGED terminalVars

(* The desktop's turns: the mouse is polled only if it was started. *)
DesktopPolls ==
  /\ mode = "desktop"
  /\ \/ mouse_ready /\ mouse_poll /\ UNCHANGED mode
     \/ \E key \in Keys \cup {""} :
          /\ keyboard_poll(key)
          /\ mode' = IF key = "escape" THEN "shell" ELSE "desktop"
  /\ UNCHANGED terminalVars

Reader == terminal_run \/ StartDesktop \/ DesktopPolls

(* With the keyboard switched off, or not used, whoever polls finds the    *)
(* port empty and may do so for ever.                                      *)
NothingComes ==
  /\ mode \in {"shell", "desktop"}
  /\ port = NoByte /\ ~(command.keyboard /\ command.translate)
  /\ UNCHANGED vars

Devices ==
  /\ \/ \E c \in Letters \cup ExtendedCodes \cup PlainCodes : PressKey(c)
     \/ \E prefix \in {"", "E0", "E1"} : ReleaseKey(prefix)
     \/ \E c \in Shifts : MoveShift(c)
     \/ \E b \in AuxBits : MoveMouse(b)
     \/ SendKeyByte
     \/ SendAuxByte
  /\ UNCHANGED <<terminalVars, mode>>

Next == Reader \/ Devices \/ NothingComes

(* The machine runs on (the shell's HLT ends with the next timer tick),    *)
(* and the controller does not favour the mouse for ever.                  *)
Spec ==
  /\ Init /\ [][Next]_vars
  /\ WF_vars(Reader)
  /\ SF_vars(SendKeyByte /\ UNCHANGED <<terminalVars, mode>>)

-----------------------------------------------------------------------------
Line == [i \in 1 .. cmdlen |-> cmdbuf[i - 1]]

Past ==
  [i \in 1 .. g_hist_count |->
     g_history[(g_hist_next - g_hist_count + i - 1 + HIST_SIZE) % HIST_SIZE]]

Editor == INSTANCE LineEditor WITH
            Chars <- Printable,
            MaxLine <- HIST_LEN - 1,
            MaxPast <- HIST_SIZE,
            line <- Line,
            cur <- cursor_pos,
            past <- Past,
            nav <- g_nav_pos,
            pending <- g_pending,
            app <- mode # "shell",
            lost <- swallowed

(* The keys act on the line and the history in the order they were         *)
(* pressed, each once, whatever mouse bytes come between their codes: the  *)
(* shared port, the shifting of cmdbuf and the history ring together give  *)
(* the editor of LineEditor.                                               *)
EditsInOrder == Editor!Spec

(* What the mouse driver has collected is the beginning of one packet of   *)
(* the device, through every interleaving with key codes, every change of  *)
(* who polls, and a second start of the desktop while the mouse is on.     *)
PacketsWhole ==
  ~swallowed => \A j \in 1 .. Len(g_packet) : g_packet[j].i = j

(* The comment in keyboard_poll, "Keep mouse packets flowing so AUX bytes  *)
(* never block keyboard input": what the keyboard has to send is taken in  *)
(* the end, however busy the mouse is, unless mouse_init has taken a byte  *)
(* for the command byte and so switched the keyboard off.                  *)
KeyboardNeverBlocked ==
  (kbd_out # <<>>) ~> (kbd_out = <<>> \/ ~command.keyboard)
=============================================================================
