-------------------------------- MODULE Ps2 --------------------------------
(***************************************************************************)
(* The PS/2 controller's port and the two drivers that read it:            *)
(* src/drivers/keyboard.c and src/drivers/mouse.c.                         *)
(*                                                                         *)
(* The controller (external) holds one byte at a time and says which       *)
(* device it is from.  Keyboard and mouse each send bytes when the port is *)
(* empty, so a byte of one can come between any two of the other: between  *)
(* the E0 prefix and the code it belongs to, or inside a mouse packet.     *)
(* Whichever driver polls meets the bytes of both.                         *)
(*                                                                         *)
(* A keyboard byte is a code and whether the key is released.  A mouse     *)
(* byte is its place in its packet and whether bit 3 is set, as it is in   *)
(* every first byte and in some others.  Left out: the shift codes that a  *)
(* keyboard makes up around an extended key (E0 AA .. E0 2A) while Shift   *)
(* is held, or with Num Lock on.                                           *)
(***************************************************************************)
EXTENDS Integers, Sequences

CONSTANTS
  Letters,             \* codes of keys that print, with Upper for the shifted
  Upper,
  ExtendedCodes,       \* codes sent after E0: arrows, home, end, delete
  PlainCodes,          \* codes sent alone: enter, backspace, escape
  Shifts,
  KeySets,             \* bound: the sets of keys used together in a behaviour
  AuxBits              \* what bit 3 is in the later bytes of a mouse packet

ASSUME Ps2Assumption ==
  /\ ExtendedCodes \subseteq {"up", "down", "left", "right", "home", "end", "delete"}
  /\ PlainCodes \subseteq {"enter", "backspace", "escape"}
  /\ Shifts \subseteq {"left shift", "right shift"}
  /\ AuxBits \subseteq BOOLEAN

VARIABLES
  port,                \* the byte in the controller, or NoByte
  kbd_out, aux_out,    \* what the devices have still to send
  keys,                \* the keys used in this behaviour
  held,                \* the shift keys that are down
  streaming,           \* the mouse sends packets
  g_shift_left, g_shift_right, g_extended,
  mouse_ready, g_packet,
  typed,               \* the keys pressed and not yet returned by the driver
  command,             \* the controller's command byte: bits 4 (clear) and 6
  swallowed            \* mouse_init has taken a byte that was not its answer

deviceVars == <<kbd_out, aux_out, keys, held, streaming>>
keyboardVars == <<g_shift_left, g_shift_right, g_extended>>
mouseVars == <<mouse_ready, g_packet>>
ps2Vars == <<port, deviceVars, keyboardVars, mouseVars, typed, swallowed, command>>

NoByte == [from |-> "none"]

Ps2Init ==
  /\ port = NoByte /\ kbd_out = <<>> /\ aux_out = <<>> /\ held = {}
  /\ streaming = FALSE /\ keys \in KeySets
  /\ g_shift_left = FALSE /\ g_shift_right = FALSE /\ g_extended = FALSE
  /\ mouse_ready = FALSE /\ g_packet = <<>>
  /\ typed = <<>> /\ swallowed = FALSE
  /\ command = [keyboard |-> TRUE, translate |-> TRUE]

-----------------------------------------------------------------------------
(* The devices. *)
Byte(c, r) == [from |-> "kbd", code |-> c, released |-> r]
Codes(prefix, b) == IF prefix = "" THEN <<b>> ELSE <<Byte(prefix, FALSE), b>>

(* A key goes down (or repeats): from here on it counts as typed.  Bound:  *)
(* after mouse_init has swallowed a byte nothing is promised of the keys,  *)
(* and none is pressed; none is touched while codes are not translated.    *)
PressKey(c) ==
  /\ c \in keys /\ kbd_out = <<>> /\ ~swallowed
  /\ kbd_out' = Codes(IF c \in ExtendedCodes THEN "E0" ELSE "", Byte(c, FALSE))
  /\ typed' = Append(typed, IF c \in Letters /\ held # {} THEN Upper[c] ELSE c)
  /\ UNCHANGED <<port, aux_out, keys, held, streaming, keyboardVars, mouseVars, swallowed, command>>

(* Which key is released makes no difference, but for the shifts.  The     *)
(* codes of Pause begin with E1 and give no key either.                    *)
ReleaseKey(prefix) ==
  /\ kbd_out = <<>> /\ command.translate
  /\ kbd_out' = Codes(prefix, Byte("key", TRUE))
  /\ UNCHANGED <<port, aux_out, keys, held, streaming, keyboardVars, mouseVars, typed, swallowed, command>>

MoveShift(c) ==
  /\ c \in keys /\ kbd_out = <<>> /\ command.translate
  /\ kbd_out' = <<Byte(c, c \in held)>>
  /\ held' = IF c \in held THEN held \ {c} ELSE held \cup {c}
  /\ UNCHANGED <<port, aux_out, keys, streaming, keyboardVars, mouseVars, typed, swallowed, command>>

MoveMouse(b) ==
  /\ streaming /\ aux_out = <<>>
  /\ aux_out' = [i \in 1 .. 3 |-> [from |-> "aux", i |-> i, bit3 |-> b \/ i = 1]]
  /\ UNCHANGED <<port, kbd_out, keys, held, streaming, keyboardVars, mouseVars, typed, swallowed, command>>

(* A keyboard that the command byte switches off keeps what it has. *)
SendKeyByte ==
  /\ port = NoByte /\ kbd_out # <<>> /\ command.keyboard
  /\ port' = Head(kbd_out) /\ kbd_out' = Tail(kbd_out)
  /\ UNCHANGED <<aux_out, keys, held, streaming, keyboardVars, mouseVars, typed, swallowed, command>>

SendAuxByte ==
  /\ port = NoByte /\ aux_out # <<>>
  /\ port' = Head(aux_out) /\ aux_out' = Tail(aux_out)
  /\ UNCHANGED <<kbd_out, keys, held, streaming, keyboardVars, mouseVars, typed, swallowed, command>>

-----------------------------------------------------------------------------
(* A byte of the mouse, whoever read it.  The third completes the packet,  *)
(* which mouse_process_packet takes (Desktop).                             *)
mouse_handle_aux_byte(b) ==
  g_packet' = IF ~mouse_ready \/ (g_packet = <<>> /\ ~b.bit3) THEN g_packet
              ELSE IF Len(g_packet) = 2 THEN <<>> ELSE Append(g_packet, b)

(* The key a code stands for; "" if it stands for none. *)
ExtendedKey(c) == IF c \in ExtendedCodes THEN c ELSE ""

PlainKey(c) ==
  IF c \in {"escape", "backspace", "enter", "up", "down", "left", "right"} THEN c
  ELSE IF c \in Letters
       THEN IF g_shift_left \/ g_shift_right THEN Upper[c] ELSE c
       ELSE ""

(* A keyboard byte: prefix, shift, release, or a code that gives the key.  *)
DecodeSet1(b, key) ==
  \/ /\ b.code \in {"E0", "E1"}
     /\ key = "" /\ g_extended' = (b.code = "E0")
     /\ UNCHANGED <<g_shift_left, g_shift_right>>
  \/ /\ b.code = "left shift"
     /\ key = "" /\ g_shift_left' = ~b.released
     /\ UNCHANGED <<g_shift_right, g_extended>>
  \/ /\ b.code = "right shift"
     /\ key = "" /\ g_shift_right' = ~b.released
     /\ UNCHANGED <<g_shift_left, g_extended>>
  \/ /\ b.code \notin {"E0", "E1"} \cup Shifts
     /\ key = IF b.released THEN ""
              ELSE IF g_extended THEN ExtendedKey(b.code) ELSE PlainKey(b.code)
     /\ g_extended' = FALSE
     /\ UNCHANGED <<g_shift_left, g_shift_right>>

(* Codes that the controller does not translate are of a set the driver    *)
(* does not know: each gives any key or none, and any prefix and shifts.   *)
Decode(b, key) ==
  \/ command.translate /\ DecodeSet1(b, key)
  \/ /\ ~command.translate
     /\ g_shift_left' \in BOOLEAN /\ g_shift_right' \in BOOLEAN /\ g_extended' \in BOOLEAN

(* Mutant: keyboard_poll throws the bytes of the mouse away. *)
PollDropsAux(key) ==
  /\ port # NoByte
  /\ \/ port.from = "aux" /\ key = "" /\ UNCHANGED <<keyboardVars, mouseVars>>
     \/ port.from = "kbd" /\ Decode(port, key) /\ UNCHANGED mouseVars
  /\ port' = NoByte
  /\ typed' = IF key = "" \/ typed = <<>> THEN typed ELSE Tail(typed)
  /\ UNCHANGED <<deviceVars, swallowed, command>>

(* Mutant: a mouse byte ends the poll and stays where it is. *)
PollStopsAtAux(key) ==
  \/ port.from = "aux" /\ key = "" /\ UNCHANGED ps2Vars
  \/ /\ port.from = "kbd"
     /\ Decode(port, key)
     /\ port' = NoByte
     /\ typed' = IF key = "" \/ typed = <<>> THEN typed ELSE Tail(typed)
     /\ UNCHANGED <<deviceVars, mouseVars, swallowed, command>>

(* One turn of keyboard_poll's loop: a byte of either device is taken from *)
(* the port.  The loop goes on while key is "".                            *)
keyboard_poll(key) ==
  /\ port # NoByte
  /\ \/ port.from = "aux" /\ key = "" /\ mouse_handle_aux_byte(port)
        /\ UNCHANGED <<keyboardVars, mouse_ready>>
     \/ port.from = "kbd" /\ Decode(port, key) /\ UNCHANGED mouseVars
  /\ port' = NoByte
  /\ typed' = IF key = "" \/ typed = <<>> THEN typed ELSE Tail(typed)
  /\ UNCHANGED <<deviceVars, swallowed, command>>

(* One turn of mouse_poll's loop. *)
mouse_poll ==
  /\ port.from = "aux"
  /\ mouse_handle_aux_byte(port)
  /\ port' = NoByte
  /\ UNCHANGED <<deviceVars, keyboardVars, mouse_ready, typed, swallowed, command>>

(* mouse_init reads three answers and looks at no status bit.  With both   *)
(* devices quiet the mouse answers, or does not.  A byte on its way is     *)
(* taken for an answer; the answers are then off by one and the call       *)
(* fails, with the mouse in either state.  If it is taken for the first,   *)
(* the command byte, it is written back with bit 1 set and bit 5 clear: it *)
(* decides whether the keyboard is on and its codes are translated.        *)
mouse_init(ok) ==
  \/ /\ port = NoByte /\ aux_out = <<>>
     /\ kbd_out = <<>> \/ ~command.keyboard
     /\ mouse_ready' = ok /\ streaming' = ok /\ g_packet' = <<>>
     /\ UNCHANGED <<port, kbd_out, aux_out, keys, held, keyboardVars, typed, swallowed, command>>
  \/ /\ ~ok
     /\ \/ port # NoByte /\ UNCHANGED <<kbd_out, aux_out>>
        \/ /\ port = NoByte /\ kbd_out # <<>> /\ command.keyboard
           /\ kbd_out' = Tail(kbd_out) /\ UNCHANGED aux_out
        \/ port = NoByte /\ aux_out # <<>> /\ aux_out' = Tail(aux_out) /\ UNCHANGED kbd_out
     /\ port' = NoByte
     /\ mouse_ready' = FALSE /\ g_packet' = <<>>
     /\ streaming' \in BOOLEAN
     /\ command' \in [keyboard : BOOLEAN, translate : BOOLEAN]
     /\ swallowed' = TRUE /\ typed' = <<>>
     /\ UNCHANGED <<keys, held, keyboardVars>>
=============================================================================
