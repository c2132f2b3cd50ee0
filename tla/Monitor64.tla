----------------------------- MODULE Monitor64 -----------------------------
(***************************************************************************)
(* The monitor of the 64-bit kernel, src/kernel/main64.c: it polls the     *)
(* keyboard, edits one line, runs the command on Enter, and halts the      *)
(* processor when a poll gives no key.  boot.asm masks every interrupt of  *)
(* the PIC, entry64.asm clears the interrupt flag, and nothing in the      *)
(* 64-bit kernel sets either again.                                        *)
(*                                                                         *)
(* A key is its kind; what a command prints is left out, and the files the *)
(* commands read are those of the Ramdisk module.                          *)
(***************************************************************************)
EXTENDS Integers, Sequences

CONSTANTS
  LINE_SIZE,           \* sizeof(line)
  Dirs                 \* directories, the root included

VARIABLES
  port,                \* the byte in the keyboard controller, "" if none
  g_shift_left, g_shift_right, g_extended,
  len,                 \* length of the line
  cwd,
  halted,              \* the processor is in HLT
  interrupts,          \* the interrupt flag is set and some interrupt is not masked
  stopped              \* the user asked for halt or reboot

keyVars == <<g_shift_left, g_shift_right, g_extended>>
vars == <<port, keyVars, len, cwd, halted, interrupts, stopped>>

Root == "/"

Init ==
  /\ port = ""
  /\ g_shift_left = FALSE /\ g_shift_right = FALSE /\ g_extended = FALSE
  /\ len = 0 /\ cwd = Root
  /\ halted = FALSE /\ interrupts = FALSE /\ stopped = FALSE

Bytes ==
  {"E0", "release", "arrow", "letter", "enter", "backspace", "escape", "other",
   "left shift", "left shift up", "right shift", "right shift up"}

(* The controller (external) has a byte. *)
KeyArrives ==
  /\ port = ""
  /\ port' \in Bytes
  /\ UNCHANGED <<keyVars, len, cwd, halted, interrupts, stopped>>

(* An interrupt ends HLT (external). *)
Interrupt ==
  /\ halted /\ interrupts
  /\ halted' = FALSE
  /\ UNCHANGED <<port, keyVars, len, cwd, interrupts, stopped>>

(* One byte, and the key it completes; "" if it completes none. *)
keyboard_poll_ps2(key) ==
  /\ port' = ""
  /\ \/ port = "E0" /\ key = "" /\ g_extended' = TRUE /\ UNCHANGED <<g_shift_left, g_shift_right>>
     \/ /\ port \in {"left shift", "left shift up"} /\ key = ""
        /\ g_shift_left' = (port = "left shift") /\ UNCHANGED <<g_shift_right, g_extended>>
     \/ /\ port \in {"right shift", "right shift up"} /\ key = ""
        /\ g_shift_right' = (port = "right shift") /\ UNCHANGED <<g_shift_left, g_extended>>
     \/ /\ port \in {"release", "other"} /\ key = ""
        /\ g_extended' = FALSE /\ UNCHANGED <<g_shift_left, g_shift_right>>
     \/ /\ port \in {"arrow", "letter", "enter", "backspace", "escape"}
        /\ key = IF g_extended = (port = "arrow") THEN port ELSE ""
        /\ g_extended' = FALSE /\ UNCHANGED <<g_shift_left, g_shift_right>>
     \/ port = "" /\ key = "" /\ UNCHANGED keyVars

(* The commands: cd moves, halt and reboot end everything, the others only *)
(* print.                                                                  *)
cmd_cd == cwd' \in Dirs /\ UNCHANGED <<halted, stopped>>

shell_exec_line ==
  \/ cmd_cd
  \/ halted' = TRUE /\ stopped' = TRUE /\ UNCHANGED cwd
  \/ UNCHANGED <<cwd, halted, stopped>>

(* What the loop does with a key. *)
LineKey(key) ==
  \/ /\ key = "enter" /\ len' = 0
     /\ IF len > 0 THEN shell_exec_line ELSE UNCHANGED <<cwd, halted, stopped>>
  \/ /\ key = "backspace"
     /\ len' = IF len > 0 THEN len - 1 ELSE len
     /\ UNCHANGED <<cwd, halted, stopped>>
  \/ /\ key = "letter"
     /\ len' = IF len < LINE_SIZE - 1 THEN len + 1 ELSE len
     /\ UNCHANGED <<cwd, halted, stopped>>
  \/ key \in {"arrow", "escape"} /\ UNCHANGED <<len, cwd, halted, stopped>>

(* One turn of kernel_main64's loop: without a key it executes HLT. *)
kernel_main64 ==
  /\ ~halted
  /\ \E key \in {"", "letter", "enter", "backspace", "arrow", "escape"} :
       /\ keyboard_poll_ps2(key)
       /\ \/ key = "" /\ halted' = TRUE /\ UNCHANGED <<len, cwd, stopped>>
          \/ key # "" /\ LineKey(key)
  /\ UNCHANGED interrupts

Next == KeyArrives \/ Interrupt \/ kernel_main64

(* The processor runs unless it is halted, and takes the interrupts it may. *)
Spec == Init /\ [][Next]_vars /\ WF_vars(kernel_main64) /\ WF_vars(Interrupt)

-----------------------------------------------------------------------------
(* The banner of kernel_main64, "Interactive monitor enabled.": a key the  *)
(* user presses is read in the end, unless the user has halted the machine. *)
KeysAreRead == (port # "" /\ ~stopped) ~> (port = "" \/ stopped)
=============================================================================
