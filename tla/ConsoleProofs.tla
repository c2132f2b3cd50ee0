--------------------------- MODULE ConsoleProofs ---------------------------
(***************************************************************************)
(* The shell at the keyboard, for every alphabet, every length of a line   *)
(* and every size of the history: the mouse driver collects whole packets  *)
(* (PacketsSafe), and port, drivers, line buffer and history ring together *)
(* implement LineEditor (KeysInOrder).                                     *)
(***************************************************************************)
EXTENDS Console, SequenceTheorems, TLAPS

-----------------------------------------------------------------------------
(* The bytes on their way. *)

AllCodes == Letters \cup ExtendedCodes \cup PlainCodes \cup Shifts \cup {"E0", "E1", "key"}
KbdByte == [from : {"kbd"}, code : AllCodes, released : BOOLEAN]
AuxByte == [from : {"aux"}, i : 1 .. 3, bit3 : BOOLEAN]

BytesTyped ==
  /\ kbd_out \in Seq(KbdByte) /\ aux_out \in Seq(AuxByte) /\ g_packet \in Seq(AuxByte)
  /\ port = NoByte \/ port \in KbdByte \/ port \in AuxByte
  /\ mouse_ready \in BOOLEAN /\ streaming \in BOOLEAN /\ swallowed \in BOOLEAN
  /\ Len(aux_out) <= 3 /\ Len(g_packet) <= 2
  /\ swallowed \/ command.translate

(* A mouse byte in the port is the next of the packet being collected; the *)
(* mouse has the rest of that packet still to send, or a whole new one if  *)
(* the byte is the last.  A mouse that is off sends nothing.               *)
PacketInv ==
  /\ mouse_ready = streaming
  /\ ~streaming => aux_out = <<>> /\ port \notin AuxByte /\ g_packet = <<>>
  /\ \A j \in 1 .. Len(g_packet) : g_packet[j].i = j
  /\ \A j \in 1 .. Len(aux_out) : /\ aux_out[j].i = 3 - Len(aux_out) + j
                                  /\ aux_out[j].i = 1 => aux_out[j].bit3
  /\ port \in AuxByte =>
       /\ port.i = Len(g_packet) + 1 /\ (port.i = 1 => port.bit3)
       /\ Len(aux_out) = 3 - port.i \/ (port.i = 3 /\ Len(aux_out) = 3)
  /\ port \notin AuxByte =>
       \/ Len(aux_out) \in {0, 3} /\ Len(g_packet) = 0
       \/ Len(aux_out) \in 1 .. 2 /\ Len(g_packet) = 3 - Len(aux_out)

LEMMA ByteKinds ==
  /\ NoByte \notin AuxByte /\ NoByte \notin KbdByte
  /\ \A b \in KbdByte : b \notin AuxByte /\ b.from = "kbd" /\ b # NoByte
  /\ \A b \in AuxByte : b \notin KbdByte /\ b.from = "aux" /\ b # NoByte
  /\ \A b \in AuxByte : b.i \in 1 .. 3 /\ b.bit3 \in BOOLEAN
  /\ NoByte.from = "none"
<1>1. NoByte.from = "none"
  BY DEF NoByte
<1>2. \A b \in KbdByte : b.from = "kbd"
  BY DEF KbdByte
<1>3. \A b \in AuxByte : b.from = "aux" /\ b.i \in 1 .. 3 /\ b.bit3 \in BOOLEAN
  BY DEF AuxByte
<1>. QED
  BY <1>1, <1>2, <1>3

LEMMA HeadTail ==
  ASSUME NEW X, NEW s \in Seq(X), s # <<>>
  PROVE  /\ Head(s) \in X /\ Head(s) = s[1] /\ Tail(s) \in Seq(X) /\ Len(Tail(s)) = Len(s) - 1
         /\ Len(s) \in Nat /\ Len(s) >= 1 /\ \A j \in 1 .. Len(Tail(s)) : Tail(s)[j] = s[j + 1]
OBVIOUS

LEMMA AndOne ==
  ASSUME NEW X, NEW s \in Seq(X), NEW x \in X
  PROVE  /\ Append(s, x) \in Seq(X) /\ Len(Append(s, x)) = Len(s) + 1
         /\ Append(s, x)[Len(s) + 1] = x /\ \A j \in 1 .. Len(s) : Append(s, x)[j] = s[j]
OBVIOUS

LEMMA ShortSeqs ==
  ASSUME NEW X
  PROVE  <<>> \in Seq(X) /\ (\A x \in X : <<x>> \in Seq(X)) /\ \A x, y \in X : <<x, y>> \in Seq(X)
OBVIOUS

(* A mouse byte is taken from the port. *)
LEMMA HandleAux ==
  ASSUME BytesTyped, port \in AuxByte, mouse_handle_aux_byte(port)
  PROVE  /\ g_packet' \in Seq(AuxByte) /\ Len(g_packet') <= 2
         /\ PacketInv => /\ \A j \in 1 .. Len(g_packet') : g_packet'[j].i = j
                         /\ Len(g_packet') = IF port.i = 3 THEN 0 ELSE port.i
<1>1. g_packet \in Seq(AuxByte) /\ Len(g_packet) \in Nat /\ Len(g_packet) <= 2
  BY DEF BytesTyped
<1>. DEFINE a == Append(g_packet, port)
<1>2. /\ a \in Seq(AuxByte) /\ Len(a) = Len(g_packet) + 1 /\ a[Len(g_packet) + 1] = port
      /\ \A j \in 1 .. Len(g_packet) : a[j] = g_packet[j]
  BY <1>1, AndOne
<1>3. <<>> \in Seq(AuxByte) /\ Len(<<>>) = 0
  OBVIOUS
<1>4. CASE ~mouse_ready \/ (g_packet = <<>> /\ ~port.bit3)
  <2>1. g_packet' = g_packet
    BY <1>4 DEF mouse_handle_aux_byte
  <2>2. ~PacketInv
    <3>. SUFFICES ASSUME PacketInv PROVE FALSE
      OBVIOUS
    <3>1. mouse_ready
      BY DEF PacketInv
    <3>2. g_packet = <<>> /\ ~port.bit3
      BY <1>4, <3>1
    <3>3. port.i = 1
      BY <3>2 DEF PacketInv
    <3>. QED
      BY <3>2, <3>3 DEF PacketInv
  <2>. QED
    BY <1>1, <2>1, <2>2
<1>5. CASE ~(~mouse_ready \/ (g_packet = <<>> /\ ~port.bit3)) /\ Len(g_packet) = 2
  <2>1. g_packet' = <<>>
    BY <1>5 DEF mouse_handle_aux_byte
  <2>2. PacketInv => port.i = 3
    BY <1>5 DEF PacketInv
  <2>. QED
    BY <1>3, <2>1, <2>2
<1>6. CASE ~(~mouse_ready \/ (g_packet = <<>> /\ ~port.bit3)) /\ Len(g_packet) # 2
  <2>1. g_packet' = a
    BY <1>6 DEF mouse_handle_aux_byte
  <2>. HIDE DEF a
  <2>2. g_packet' \in Seq(AuxByte) /\ Len(g_packet') <= 2
    <3>1. Len(a) <= 2
      <4>. DEFINE l == Len(g_packet)
      <4>1. l \in Nat /\ l <= 2 /\ l # 2 /\ Len(a) = l + 1
        BY <1>1, <1>2, <1>6
      <4>. HIDE DEF l
      <4>. QED
        BY <4>1
    <3>. QED
      BY <1>2, <2>1, <3>1
  <2>3. ASSUME PacketInv
        PROVE  /\ \A j \in 1 .. Len(g_packet') : g_packet'[j].i = j
               /\ Len(g_packet') = IF port.i = 3 THEN 0 ELSE port.i
    <3>1. port.i = Len(g_packet) + 1 /\ \A j \in 1 .. Len(g_packet) : g_packet[j].i = j
      BY <2>3 DEF PacketInv
    <3>2. Len(a) = port.i /\ port.i # 3
      <4>. DEFINE l == Len(g_packet)
                  p == port.i
      <4>1. l \in Nat /\ l # 2 /\ p = l + 1
        BY <1>1, <1>6, <3>1
      <4>. HIDE DEF l, p
      <4>2. p # 3
        BY <4>1
      <4>. QED
        BY <1>2, <4>1, <4>2 DEF l, p
    <3>3. ASSUME NEW j \in 1 .. Len(a) PROVE a[j].i = j
      <4>1. j \in 1 .. Len(g_packet) \/ j = Len(g_packet) + 1
        BY <1>1, <1>2
      <4>. QED
        BY <1>2, <3>1, <4>1
    <3>. QED
      BY <2>1, <3>2, <3>3
  <2>. QED
    BY <2>2, <2>3
<1>. QED
  BY <1>4, <1>5, <1>6

ConsolePacketInv == BytesTyped /\ (~swallowed => PacketInv)

(* Whoever takes a mouse byte from the port. *)
LEMMA TakeAuxKeeps ==
  ASSUME ConsolePacketInv, port \in AuxByte, mouse_handle_aux_byte(port), port' = NoByte,
         UNCHANGED <<deviceVars, mouse_ready, swallowed, command>>
  PROVE  ConsolePacketInv'
<1>1. UNCHANGED <<kbd_out, aux_out, streaming>> /\ BytesTyped
  BY DEF deviceVars, ConsolePacketInv
<1>2. g_packet' \in Seq(AuxByte) /\ Len(g_packet') <= 2
  BY <1>1, HandleAux
<1>3. BytesTyped'
  BY <1>1, <1>2 DEF BytesTyped
<1>4. ASSUME PacketInv PROVE PacketInv'
  <2>1. /\ \A j \in 1 .. Len(g_packet') : g_packet'[j].i = j
        /\ Len(g_packet') = IF port.i = 3 THEN 0 ELSE port.i
    BY <1>1, <1>4, HandleAux
  <2>2. streaming
    BY <1>4 DEF PacketInv
  <2>3. port' \notin AuxByte /\ port.i \in 1 .. 3
    BY ByteKinds
  <2>4. Len(aux_out) = 3 - port.i \/ (port.i = 3 /\ Len(aux_out) = 3)
    BY <1>4 DEF PacketInv
  <2>5. \/ Len(aux_out') \in {0, 3} /\ Len(g_packet') = 0
        \/ Len(aux_out') \in 1 .. 2 /\ Len(g_packet') = 3 - Len(aux_out')
    <3>. DEFINE l == Len(aux_out)
                p == port.i
                g == Len(g_packet')
    <3>1. /\ l = 3 - p \/ (p = 3 /\ l = 3)
          /\ g = (IF p = 3 THEN 0 ELSE p) /\ p \in 1 .. 3
      BY <2>1, <2>3, <2>4
    <3>. HIDE DEF l, p, g
    <3>2. \/ l \in {0, 3} /\ g = 0
          \/ l \in 1 .. 2 /\ g = 3 - l
      BY <3>1
    <3>. QED
      BY <1>1, <3>2 DEF l, g
  <2>. QED
    BY <1>1, <1>4, <2>1, <2>2, <2>3, <2>5 DEF PacketInv
<1>. QED
  BY <1>3, <1>4 DEF ConsolePacketInv

LEMMA PollKeepsPackets ==
  ASSUME ConsolePacketInv, NEW key, keyboard_poll(key)
  PROVE  ConsolePacketInv'
<1>1. CASE port.from = "aux"
  <2>1. port \in AuxByte
    BY <1>1, ByteKinds DEF ConsolePacketInv, BytesTyped
  <2>2. mouse_handle_aux_byte(port) /\ port' = NoByte /\ UNCHANGED <<deviceVars, mouse_ready, swallowed, command>>
    BY <1>1 DEF keyboard_poll
  <2>. QED
    BY <2>1, <2>2, TakeAuxKeeps
<1>2. CASE port.from # "aux"
  <2>1. /\ port' = NoByte
        /\ UNCHANGED <<kbd_out, aux_out, streaming, mouse_ready, g_packet, swallowed, command>>
    BY <1>2 DEF keyboard_poll, deviceVars, mouseVars
  <2>2. port \notin AuxByte /\ NoByte \notin AuxByte
    BY <1>2, ByteKinds
  <2>3. BytesTyped'
    BY <2>1 DEF ConsolePacketInv, BytesTyped
  <2>4. PacketInv => PacketInv'
    BY <2>1, <2>2 DEF PacketInv
  <2>. QED
    BY <2>1, <2>3, <2>4 DEF ConsolePacketInv
<1>. QED
  BY <1>1, <1>2

LEMMA SendAuxKeeps ==
  ASSUME ConsolePacketInv, SendAuxByte
  PROVE  ConsolePacketInv'
<1>. DEFINE s == aux_out
<1>1. /\ port = NoByte /\ s # <<>> /\ port' = Head(s) /\ aux_out' = Tail(s)
      /\ UNCHANGED <<kbd_out, streaming, mouse_ready, g_packet, swallowed, command>>
  BY DEF SendAuxByte, mouseVars
<1>2. BytesTyped /\ s \in Seq(AuxByte) /\ Len(s) <= 3
  BY DEF ConsolePacketInv, BytesTyped
<1>3. /\ Head(s) \in AuxByte /\ Head(s) = s[1] /\ Tail(s) \in Seq(AuxByte) /\ Len(Tail(s)) = Len(s) - 1
      /\ Len(s) \in Nat /\ Len(s) >= 1 /\ \A j \in 1 .. Len(Tail(s)) : Tail(s)[j] = s[j + 1]
  BY <1>1, <1>2, HeadTail
<1>4. port' \in AuxByte /\ aux_out' \in Seq(AuxByte) /\ Len(aux_out') = Len(s) - 1 /\ Len(aux_out') <= 3
  BY <1>1, <1>2, <1>3
<1>5. BytesTyped'
  BY <1>1, <1>2, <1>4 DEF BytesTyped
<1>6. ASSUME PacketInv PROVE PacketInv'
  <2>1. streaming /\ mouse_ready = streaming
    BY <1>1, <1>6 DEF PacketInv
  <2>2. \/ Len(s) \in {0, 3} /\ Len(g_packet) = 0
        \/ Len(s) \in 1 .. 2 /\ Len(g_packet) = 3 - Len(s)
    BY <1>1, <1>6, ByteKinds DEF PacketInv
  <2>3. \A j \in 1 .. Len(s) : s[j].i = 3 - Len(s) + j /\ (s[j].i = 1 => s[j].bit3)
    BY <1>6 DEF PacketInv
  <2>4. 1 \in 1 .. Len(s)
    BY <1>3
  <2>5. s[1].i = 3 - Len(s) + 1 /\ (s[1].i = 1 => s[1].bit3)
    BY <2>3, <2>4
  <2>. DEFINE l == Len(s)
              p == port'.i
              g == Len(g_packet)
  <2>6. /\ l \in Nat /\ l <= 3 /\ l >= 1 /\ p = 3 - l + 1 /\ Len(aux_out') = l - 1
        /\ (l \in {0, 3} /\ g = 0) \/ (l \in 1 .. 2 /\ g = 3 - l)
        /\ (p = 1 => port'.bit3)
    BY <1>1, <1>2, <1>3, <2>2, <2>5
  <2>. HIDE DEF l, p, g
  <2>7. p = g + 1 /\ l - 1 = 3 - p
    BY <2>6
  <2>8. ASSUME NEW j \in 1 .. Len(aux_out')
        PROVE  aux_out'[j].i = 3 - Len(aux_out') + j /\ (aux_out'[j].i = 1 => aux_out'[j].bit3)
    <3>1. j + 1 \in 1 .. Len(s) /\ aux_out'[j] = s[j + 1]
      BY <1>1, <1>3
    <3>2. s[j + 1].i = 3 - Len(s) + (j + 1) /\ (s[j + 1].i = 1 => s[j + 1].bit3)
      BY <2>3, <3>1
    <3>3. 3 - Len(s) + (j + 1) = 3 - Len(aux_out') + j
      BY <1>3, <1>4
    <3>. QED
      BY <3>1, <3>2, <3>3
  <2>9. port'.i = Len(g_packet') + 1 /\ (port'.i = 1 => port'.bit3) /\ Len(aux_out') = 3 - port'.i
    BY <1>1, <2>6, <2>7 DEF p, g
  <2>10. \A j \in 1 .. Len(g_packet') : g_packet'[j].i = j
    BY <1>1, <1>6 DEF PacketInv
  <2>. QED
    BY <1>1, <1>4, <2>1, <2>8, <2>9, <2>10 DEF PacketInv
<1>. QED
  BY <1>1, <1>5, <1>6 DEF ConsolePacketInv

LEMMA MoveMouseKeeps ==
  ASSUME ConsolePacketInv, NEW b \in AuxBits, MoveMouse(b)
  PROVE  ConsolePacketInv'
<1>1. /\ streaming /\ aux_out = <<>>
      /\ aux_out' = [i \in 1 .. 3 |-> [from |-> "aux", i |-> i, bit3 |-> b \/ i = 1]]
      /\ UNCHANGED <<port, kbd_out, streaming, mouse_ready, g_packet, swallowed, command>>
  BY DEF MoveMouse, mouseVars
<1>2. \A i \in 1 .. 3 : (b \/ i = 1) \in BOOLEAN
  BY Ps2Assumption
<1>3. \A i \in 1 .. 3 : [from |-> "aux", i |-> i, bit3 |-> b \/ i = 1] \in AuxByte
  BY <1>2 DEF AuxByte
<1>4. aux_out' \in Seq(AuxByte) /\ Len(aux_out') = 3
  BY <1>1, <1>3
<1>5. \A j \in 1 .. 3 : aux_out'[j].i = j /\ (aux_out'[j].i = 1 => aux_out'[j].bit3)
  BY <1>1
<1>6. BytesTyped'
  BY <1>1, <1>4 DEF ConsolePacketInv, BytesTyped
<1>7. ASSUME PacketInv PROVE PacketInv'
  <2>1. Len(aux_out) = 0
    BY <1>1
  <2>2. \A j \in 1 .. Len(aux_out') : /\ aux_out'[j].i = 3 - Len(aux_out') + j
                                      /\ aux_out'[j].i = 1 => aux_out'[j].bit3
    BY <1>4, <1>5
  <2>3. port \in AuxByte => port.i = 3
    <3>1. port \in AuxByte => 0 = 3 - port.i /\ port.i \in 1 .. 3
      BY <1>7, <2>1, ByteKinds DEF PacketInv
    <3>. QED
      BY <3>1
  <2>4. port \notin AuxByte => Len(g_packet) = 0
    BY <1>7, <2>1 DEF PacketInv
  <2>. QED
    BY <1>1, <1>4, <1>7, <2>2, <2>3, <2>4 DEF PacketInv
<1>. QED
  BY <1>1, <1>6, <1>7 DEF ConsolePacketInv

LEMMA MouseInitKeeps ==
  ASSUME ConsolePacketInv, NEW ok \in BOOLEAN, mouse_init(ok)
  PROVE  ConsolePacketInv'
<1>1. BytesTyped
  BY DEF ConsolePacketInv
<1>2. <<>> \in Seq(AuxByte) /\ Len(<<>>) = 0
  OBVIOUS
<1>3. CASE /\ port = NoByte /\ aux_out = <<>>
           /\ mouse_ready' = ok /\ streaming' = ok /\ g_packet' = <<>>
           /\ UNCHANGED <<port, kbd_out, aux_out, keys, held, keyboardVars, typed, swallowed, command>>
  <2>1. BytesTyped'
    BY <1>1, <1>2, <1>3 DEF BytesTyped
  <2>2. PacketInv'
    BY <1>2, <1>3, ByteKinds DEF PacketInv
  <2>. QED
    BY <2>1, <2>2 DEF ConsolePacketInv
<1>4. CASE /\ port' = NoByte /\ mouse_ready' = FALSE /\ g_packet' = <<>>
           /\ streaming' \in BOOLEAN /\ swallowed' = TRUE
           /\ kbd_out' = kbd_out \/ (kbd_out # <<>> /\ kbd_out' = Tail(kbd_out))
           /\ aux_out' = aux_out \/ (aux_out # <<>> /\ aux_out' = Tail(aux_out))
  <2>1. kbd_out' \in Seq(KbdByte)
    BY <1>1, <1>4, HeadTail DEF BytesTyped
  <2>2. aux_out' \in Seq(AuxByte) /\ Len(aux_out') <= 3
    <3>1. aux_out \in Seq(AuxByte) /\ Len(aux_out) <= 3 /\ Len(aux_out) \in Nat
      BY <1>1 DEF BytesTyped
    <3>2. aux_out # <<>> => Tail(aux_out) \in Seq(AuxByte) /\ Len(Tail(aux_out)) = Len(aux_out) - 1
      BY <3>1, HeadTail
    <3>. QED
      BY <1>4, <3>1, <3>2
  <2>3. swallowed' \in BOOLEAN /\ mouse_ready' \in BOOLEAN /\ swallowed'
    BY <1>4
  <2>4. BytesTyped'
    BY <1>2, <1>4, <2>1, <2>2, <2>3 DEF BytesTyped
  <2>. QED
    BY <2>3, <2>4 DEF ConsolePacketInv
<1>. QED
  BY <1>3, <1>4 DEF mouse_init

LEMMA ShiftByte ==
  ASSUME NEW c \in Shifts, NEW S
  PROVE  /\ Byte(c, c \in S) \in KbdByte
         /\ c \in S => Byte(c, c \in S) = Byte(c, TRUE)
         /\ c \notin S => Byte(c, c \in S) = Byte(c, FALSE)
<1>1. c \in AllCodes
  BY DEF AllCodes
<1>2. \A r \in BOOLEAN : Byte(c, r) \in KbdByte
  BY <1>1 DEF Byte, KbdByte
<1>3. CASE c \in S
  <2>1. (c \in S) = TRUE
    BY <1>3
  <2>2. Byte(c, c \in S) = Byte(c, TRUE)
    BY <2>1
  <2>. QED
    BY <1>2, <1>3, <2>2
<1>4. CASE c \notin S
  <2>1. (c \in S) = FALSE
    BY <1>4
  <2>2. Byte(c, c \in S) = Byte(c, FALSE)
    BY <2>1
  <2>. QED
    BY <1>2, <1>4, <2>2
<1>. QED
  BY <1>3, <1>4

LEMMA KeyboardKeeps ==
  ASSUME ConsolePacketInv,
         \/ \E c \in Letters \cup ExtendedCodes \cup PlainCodes : PressKey(c)
         \/ \E prefix \in {"", "E0", "E1"} : ReleaseKey(prefix)
         \/ \E c \in Shifts : MoveShift(c)
         \/ SendKeyByte
  PROVE  ConsolePacketInv'
<1>1. BytesTyped
  BY DEF ConsolePacketInv
<1>2. UNCHANGED <<aux_out, streaming, mouse_ready, g_packet, swallowed, command>>
  BY DEF PressKey, ReleaseKey, MoveShift, SendKeyByte, mouseVars
<1>3. /\ kbd_out' \in Seq(KbdByte)
      /\ port' = port \/ (port = NoByte /\ port' \in KbdByte)
  <2>1. \A c \in AllCodes, r \in BOOLEAN : Byte(c, r) \in KbdByte
    BY DEF Byte, KbdByte
  <2>2. ASSUME NEW c \in AllCodes, NEW r \in BOOLEAN, NEW prefix \in {"", "E0", "E1"}
        PROVE  Codes(prefix, Byte(c, r)) \in Seq(KbdByte)
    <3>1. Byte(c, r) \in KbdByte /\ (prefix # "" => Byte(prefix, FALSE) \in KbdByte)
      BY <2>1 DEF AllCodes
    <3>. DEFINE x == Byte(c, r)
                y == Byte(prefix, FALSE)
    <3>2. Codes(prefix, x) = IF prefix = "" THEN <<x>> ELSE <<y, x>>
      BY DEF Codes
    <3>. HIDE DEF x, y
    <3>. QED
      BY <3>1, <3>2, ShortSeqs DEF x, y
  <2>3. CASE \E c \in Letters \cup ExtendedCodes \cup PlainCodes : PressKey(c)
    BY <2>2, <2>3 DEF PressKey, AllCodes
  <2>4. CASE \E prefix \in {"", "E0", "E1"} : ReleaseKey(prefix)
    BY <2>2, <2>4 DEF ReleaseKey, AllCodes
  <2>5. CASE \E c \in Shifts : MoveShift(c)
    <3>1. PICK c \in Shifts : MoveShift(c)
      BY <2>5
    <3>. DEFINE x == Byte(c, c \in held)
    <3>3. kbd_out' = <<x>> /\ port' = port
      BY <3>1 DEF MoveShift
    <3>4. x \in KbdByte
      BY ShiftByte
    <3>. HIDE DEF x
    <3>5. <<x>> \in Seq(KbdByte)
      BY <3>4, ShortSeqs
    <3>. QED
      BY <3>3, <3>5
  <2>6. CASE SendKeyByte
    BY <1>1, <2>6, HeadTail DEF SendKeyByte, BytesTyped
  <2>. QED
    BY <2>3, <2>4, <2>5, <2>6
<1>4. BytesTyped'
  BY <1>1, <1>2, <1>3 DEF BytesTyped
<1>5. port' \in AuxByte <=> port \in AuxByte
  BY <1>3, ByteKinds
<1>6. PacketInv => PacketInv'
  <2>1. port \in AuxByte => port' = port
    BY <1>3, ByteKinds
  <2>. QED
    BY <1>2, <1>5, <2>1 DEF PacketInv
<1>. QED
  BY <1>2, <1>4, <1>6 DEF ConsolePacketInv

LEMMA PacketInvInit == Init => ConsolePacketInv
<1>. SUFFICES ASSUME Init PROVE ConsolePacketInv
  OBVIOUS
<1>1. \A X : <<>> \in Seq(X)
  OBVIOUS
<1>2. Len(<<>>) = 0
  OBVIOUS
<1>0. /\ port = NoByte /\ kbd_out = <<>> /\ aux_out = <<>> /\ g_packet = <<>>
      /\ streaming = FALSE /\ mouse_ready = FALSE /\ swallowed = FALSE
      /\ command.translate
  BY DEF Init, Ps2Init
<1>3. BytesTyped
  <2>1. /\ kbd_out \in Seq(KbdByte) /\ aux_out \in Seq(AuxByte) /\ g_packet \in Seq(AuxByte)
        /\ Len(aux_out) <= 3 /\ Len(g_packet) <= 2
    BY <1>0, <1>1, <1>2
  <2>. QED
    BY <1>0, <2>1 DEF BytesTyped
<1>4. PacketInv
  <2>1. mouse_ready = streaming /\ ~streaming
    BY <1>0
  <2>2. Len(g_packet) = 0 /\ Len(aux_out) = 0 /\ \A j \in 1 .. 0 : FALSE
    BY <1>0, <1>2
  <2>3. port \notin AuxByte
    BY <1>0, ByteKinds
  <2>. QED
    BY <1>0, <2>1, <2>2, <2>3 DEF PacketInv
<1>. QED
  BY <1>3, <1>4 DEF ConsolePacketInv

LEMMA PacketInvNext == ConsolePacketInv /\ [Next]_vars => ConsolePacketInv'
<1>. SUFFICES ASSUME ConsolePacketInv, [Next]_vars PROVE ConsolePacketInv'
  OBVIOUS
<1>1. CASE terminal_run
  BY <1>1, PollKeepsPackets DEF terminal_run
<1>2. CASE StartDesktop
  BY <1>2, MouseInitKeeps DEF StartDesktop
<1>3. CASE DesktopPolls
  <2>1. CASE mouse_poll
    <3>1. port \in AuxByte
      BY <2>1, ByteKinds DEF mouse_poll, ConsolePacketInv, BytesTyped
    <3>. QED
      BY <2>1, <3>1, TakeAuxKeeps DEF mouse_poll
  <2>2. CASE \E key \in Keys \cup {""} : keyboard_poll(key)
    BY <2>2, PollKeepsPackets
  <2>. QED
    BY <1>3, <2>1, <2>2 DEF DesktopPolls
<1>4. CASE Devices
  <2>1. CASE \E b \in AuxBits : MoveMouse(b)
    BY <2>1, MoveMouseKeeps
  <2>2. CASE SendAuxByte
    BY <2>2, SendAuxKeeps
  <2>3. CASE ~(\E b \in AuxBits : MoveMouse(b)) /\ ~SendAuxByte
    BY <1>4, <2>3, KeyboardKeeps DEF Devices
  <2>. QED
    BY <2>1, <2>2, <2>3
<1>5. CASE UNCHANGED vars
  <2>1. UNCHANGED <<port, kbd_out, aux_out, streaming, mouse_ready, g_packet, swallowed, command>>
    BY <1>5 DEF vars, ps2Vars, deviceVars, mouseVars
  <2>2. BytesTyped => BytesTyped'
    BY <2>1 DEF BytesTyped
  <2>3. PacketInv => PacketInv'
    BY <2>1 DEF PacketInv
  <2>. QED
    BY <2>1, <2>2, <2>3 DEF ConsolePacketInv
<1>. QED
  BY <1>1, <1>2, <1>3, <1>4, <1>5 DEF Next, Reader, NothingComes

LEMMA PacketInvHolds == Spec => []ConsolePacketInv
BY PacketInvInit, PacketInvNext, PTL DEF Spec

(* Through every interleaving of the two devices and of the two drivers    *)
(* that read the port, the bytes the mouse driver has collected are the    *)
(* first bytes of one packet, as long as mouse_init found the port quiet.  *)
THEOREM PacketsSafe == Spec => []PacketsWhole
<1>1. ConsolePacketInv => PacketsWhole
  BY DEF ConsolePacketInv, PacketInv, PacketsWhole
<1>. QED
  BY <1>1, PacketInvHolds, PTL

-----------------------------------------------------------------------------
(* The keys on their way.  What the driver remembers of the bytes it has   *)
(* read (the shifts, and a prefix), the key that a byte gives then, and    *)
(* what is remembered after it.                                            *)

Reading ==
  (IF g_shift_left THEN {"left shift"} ELSE {})
  \cup (IF g_shift_right THEN {"right shift"} ELSE {})
  \cup (IF g_extended THEN {"E0"} ELSE {})

NoKey == ""

KeyOf(d, b) ==
  IF b.released \/ b.code \in {"E0", "E1", "left shift", "right shift"} THEN NoKey
  ELSE IF "E0" \in d THEN ExtendedKey(b.code)
  ELSE IF b.code \in {"escape", "backspace", "enter", "up", "down", "left", "right"} THEN b.code
  ELSE IF b.code \in Letters THEN IF d # {} THEN Upper[b.code] ELSE b.code
  ELSE NoKey

After(d, b) ==
  IF b.code \in {"left shift", "right shift"}
  THEN IF b.released THEN d \ {b.code} ELSE d \cup {b.code}
  ELSE IF b.code = "E0" THEN d \cup {"E0"} ELSE d \ {"E0"}

(* One key or none, and three of them. *)
Given(k) == IF k = NoKey THEN <<>> ELSE <<k>>
Three(a, b, c) == Given(a) \o Given(b) \o Given(c)

(* The byte in the port is read before those the keyboard still holds, of  *)
(* which there are at most two.                                            *)
Key1 == IF port \in KbdByte THEN KeyOf(Reading, port) ELSE NoKey
After1 == IF port \in KbdByte THEN After(Reading, port) ELSE Reading
Key2 == IF Len(kbd_out) >= 1 THEN KeyOf(After1, kbd_out[1]) ELSE NoKey
After2 == IF Len(kbd_out) >= 1 THEN After(After1, kbd_out[1]) ELSE After1
Key3 == IF Len(kbd_out) >= 2 THEN KeyOf(After2, kbd_out[2]) ELSE NoKey
After3 == IF Len(kbd_out) >= 2 THEN After(After2, kbd_out[2]) ELSE After2

(* Reading the bytes on their way gives the keys that were pressed and not *)
(* acted on yet, and in the end the prefix is forgotten and the shifts are *)
(* as they are held.                                                       *)
KeysInv ==
  /\ g_shift_left \in BOOLEAN /\ g_shift_right \in BOOLEAN /\ g_extended \in BOOLEAN
  /\ held \subseteq Shifts /\ Len(kbd_out) <= 2
  /\ ~swallowed => /\ typed = Three(Key1, Key2, Key3)
                   /\ After3 = held

-----------------------------------------------------------------------------
(* The line and the history. *)

Strings == {s \in Seq(Printable) : Len(s) <= HIST_LEN - 1}

(* A buffer, the length of the string in it, and the cursor. *)
LineOk(f, n, p) ==
  /\ n \in 0 .. (HIST_LEN - 1) /\ p \in 0 .. n
  /\ f \in [Cells -> Printable \cup {NUL}] /\ f[n] = NUL
  /\ \A i \in 0 .. (n - 1) : f[i] \in Printable

LineInv == LineOk(cmdbuf, cmdlen, cursor_pos)

HistoryInv ==
  /\ g_history \in [0 .. (HIST_SIZE - 1) -> Strings] /\ g_pending \in Strings
  /\ g_hist_count \in 0 .. HIST_SIZE /\ g_hist_next \in 0 .. (HIST_SIZE - 1)
  /\ g_nav_pos \in 0 .. g_hist_count

EditInv ==
  KeysInv /\ LineInv /\ HistoryInv /\ mode \in {"shell", "starting", "desktop"}

-----------------------------------------------------------------------------
(* The keys of the bytes on their way. *)

LEMMA SameSeq ==
  ASSUME NEW X, NEW s \in Seq(X), NEW t \in Seq(X), Len(s) = Len(t),
         \A i \in 1 .. Len(t) : s[i] = t[i]
  PROVE  s = t
OBVIOUS

LEMMA Joins ==
  ASSUME NEW X, NEW a \in X, NEW b \in X, NEW c \in X
  PROVE  /\ <<>> \o <<a>> = <<a>> /\ <<a>> \o <<>> = <<a>> /\ <<>> \o <<>> = <<>>
         /\ <<a>> \o <<b>> = <<a, b>> /\ <<a, b>> \o <<>> = <<a, b>>
         /\ <<a, b>> \o <<c>> = <<a, b, c>>
<1>1. <<>> \in Seq(X) /\ <<a>> \in Seq(X) /\ <<b>> \in Seq(X) /\ <<c>> \in Seq(X)
      /\ <<a, b>> \in Seq(X)
  OBVIOUS
<1>2. <<>> \o <<a>> = <<a>> /\ <<a>> \o <<>> = <<a>> /\ <<>> \o <<>> = <<>>
  OBVIOUS
<1>3. <<a>> \o <<b>> = <<a, b>>
  <2>. DEFINE s == <<a>> \o <<b>>
              t == <<a, b>>
  <2>1. s \in Seq(X) /\ Len(s) = 2 /\ s[1] = a /\ s[2] = b
    BY <1>1
  <2>2. t \in Seq(X) /\ Len(t) = 2 /\ t[1] = a /\ t[2] = b
    OBVIOUS
  <2>. HIDE DEF s, t
  <2>3. s = t
    BY <2>1, <2>2, SameSeq
  <2>. QED
    BY <2>3 DEF s, t
<1>4. <<a, b>> \o <<>> = <<a, b>>
  OBVIOUS
<1>5. <<a, b>> \o <<c>> = <<a, b, c>>
  <2>. DEFINE s == <<a, b>> \o <<c>>
              t == <<a, b, c>>
  <2>1. s \in Seq(X) /\ Len(s) = 3 /\ s[1] = a /\ s[2] = b /\ s[3] = c
    BY <1>1
  <2>2. t \in Seq(X) /\ Len(t) = 3 /\ t[1] = a /\ t[2] = b /\ t[3] = c
    OBVIOUS
  <2>. HIDE DEF s, t
  <2>3. s = t
    BY <2>1, <2>2, SameSeq
  <2>. QED
    BY <2>3 DEF s, t
<1>. QED
  BY <1>2, <1>3, <1>4, <1>5

LEMMA ThreeIs ==
  ASSUME NEW a, NEW b, NEW c
  PROVE  Three(a, b, c) =
           IF a = NoKey THEN IF b = NoKey THEN IF c = NoKey THEN <<>> ELSE <<c>>
                          ELSE IF c = NoKey THEN <<b>> ELSE <<b, c>>
           ELSE IF b = NoKey THEN IF c = NoKey THEN <<a>> ELSE <<a, c>>
                ELSE IF c = NoKey THEN <<a, b>> ELSE <<a, b, c>>
<1>. DEFINE X == {a, b, c}
<1>1. /\ <<>> \o <<a>> = <<a>> /\ <<>> \o <<b>> = <<b>> /\ <<>> \o <<c>> = <<c>>
      /\ <<a>> \o <<>> = <<a>> /\ <<b>> \o <<>> = <<b>> /\ <<>> \o <<>> = <<>>
  <2>1. a \in X /\ b \in X /\ c \in X
    OBVIOUS
  <2>. HIDE DEF X
  <2>. QED
    BY <2>1, Joins
<1>2. /\ <<a>> \o <<b>> = <<a, b>> /\ <<a>> \o <<c>> = <<a, c>> /\ <<b>> \o <<c>> = <<b, c>>
      /\ <<a, b>> \o <<>> = <<a, b>> /\ <<a, b>> \o <<c>> = <<a, b, c>>
  <2>1. a \in X /\ b \in X /\ c \in X
    OBVIOUS
  <2>. HIDE DEF X
  <2>. QED
    BY <2>1, Joins
<1>. QED
  BY <1>1, <1>2 DEF Three, Given

LEMMA ThreeTakes ==
  ASSUME NEW b, NEW c
  PROVE  Three(NoKey, b, c) = Three(b, c, NoKey)
BY ThreeIs

LEMMA ThreeFirst ==
  ASSUME NEW a, NEW b, NEW c, a # NoKey
  PROVE  /\ Three(a, b, c) # <<>> /\ Head(Three(a, b, c)) = a
         /\ Tail(Three(a, b, c)) = Three(NoKey, b, c)
<1>. DEFINE X == {a, b, c}
<1>0. a \in X /\ b \in X /\ c \in X
  OBVIOUS
<1>. HIDE DEF X
<1>1. Head(<<a>>) = a /\ Tail(<<a>>) = <<>>
  OBVIOUS
<1>2. Head(<<a, b>>) = a /\ Tail(<<a, b>>) = <<b>>
  BY <1>0
<1>3. Head(<<a, c>>) = a /\ Tail(<<a, c>>) = <<c>>
  BY <1>0
<1>4. Head(<<a, b, c>>) = a /\ Tail(<<a, b, c>>) = <<b, c>>
  BY <1>0
<1>5. <<a>> # <<>> /\ <<a, b>> # <<>> /\ <<a, c>> # <<>> /\ <<a, b, c>> # <<>>
  OBVIOUS
<1>6. CASE b = NoKey /\ c = NoKey
  <2>1. Three(a, b, c) = <<a>> /\ Three(NoKey, b, c) = <<>>
    BY <1>6, ThreeIs
  <2>. QED
    BY <1>1, <1>5, <2>1
<1>7. CASE b # NoKey /\ c = NoKey
  <2>1. Three(a, b, c) = <<a, b>> /\ Three(NoKey, b, c) = <<b>>
    BY <1>7, ThreeIs
  <2>. QED
    BY <1>2, <1>5, <2>1
<1>8. CASE b = NoKey /\ c # NoKey
  <2>1. Three(a, b, c) = <<a, c>> /\ Three(NoKey, b, c) = <<c>>
    BY <1>8, ThreeIs
  <2>. QED
    BY <1>3, <1>5, <2>1
<1>9. CASE b # NoKey /\ c # NoKey
  <2>1. Three(a, b, c) = <<a, b, c>> /\ Three(NoKey, b, c) = <<b, c>>
    BY <1>9, ThreeIs
  <2>. QED
    BY <1>4, <1>5, <2>1
<1>. QED
  BY <1>6, <1>7, <1>8, <1>9

LEMMA Appends ==
  ASSUME NEW X, NEW a \in X, NEW k \in X
  PROVE  Append(<<>>, k) = <<k>> /\ Append(<<a>>, k) = <<a, k>>
<1>1. <<>> \in Seq(X) /\ <<a>> \in Seq(X)
  OBVIOUS
<1>2. Append(<<>>, k) = <<>> \o <<k>> /\ Append(<<a>>, k) = <<a>> \o <<k>>
  BY <1>1, AppendIsConcat, Zenon
<1>. QED
  BY <1>2, Joins

LEMMA ThreeGrows ==
  ASSUME NEW a, NEW k, k # NoKey
  PROVE  /\ Append(Three(a, NoKey, NoKey), k) = Three(a, k, NoKey)
         /\ Append(Three(a, NoKey, NoKey), k) = Three(a, NoKey, k)
<1>1. Append(<<>>, k) = <<k>> /\ Append(<<a>>, k) = <<a, k>>
  <2>1. a \in {a, k} /\ k \in {a, k}
    OBVIOUS
  <2>. QED
    BY <2>1, Appends
<1>2. Three(a, NoKey, NoKey) = (IF a = NoKey THEN <<>> ELSE <<a>>)
  BY ThreeIs
<1>3. Three(a, k, NoKey) = (IF a = NoKey THEN <<k>> ELSE <<a, k>>)
  BY ThreeIs
<1>4. Three(a, NoKey, k) = (IF a = NoKey THEN <<k>> ELSE <<a, k>>)
  BY ThreeIs
<1>. QED
  BY <1>1, <1>2, <1>3, <1>4

LEMMA DecodeReads ==
  ASSUME NEW key, port \in KbdByte, DecodeSet1(port, key),
         g_shift_left \in BOOLEAN, g_shift_right \in BOOLEAN, g_extended \in BOOLEAN
  PROVE  /\ key = KeyOf(Reading, port) /\ Reading' = After(Reading, port)
         /\ g_shift_left' \in BOOLEAN /\ g_shift_right' \in BOOLEAN /\ g_extended' \in BOOLEAN
<1>. DEFINE c == port.code
            r == port.released
<1>1. c \in AllCodes /\ r \in BOOLEAN
  BY DEF KbdByte
<1>2. c \in {"left shift", "right shift"} => c \in Shifts
  BY <1>1, CharactersAssumption, Ps2Assumption DEF AllCodes
<1>3. /\ g_shift_left' \in BOOLEAN /\ g_shift_right' \in BOOLEAN /\ g_extended' \in BOOLEAN
  BY <1>1 DEF DecodeSet1
<1>r. /\ Reading \subseteq {"left shift", "right shift", "E0"}
      /\ "left shift" \in Reading <=> g_shift_left
      /\ "right shift" \in Reading <=> g_shift_right
      /\ "E0" \in Reading <=> g_extended
  BY DEF Reading
<1>s. /\ Reading' \subseteq {"left shift", "right shift", "E0"}
      /\ "left shift" \in Reading' <=> g_shift_left'
      /\ "right shift" \in Reading' <=> g_shift_right'
      /\ "E0" \in Reading' <=> g_extended'
  BY DEF Reading
<1>4. CASE c \in {"E0", "E1"}
  <2>1. /\ key = "" /\ (g_extended' <=> c = "E0")
        /\ g_shift_left' = g_shift_left /\ g_shift_right' = g_shift_right
    BY <1>2, <1>4 DEF DecodeSet1
  <2>2. KeyOf(Reading, port) = ""
    BY <1>4 DEF KeyOf, NoKey
  <2>3. After(Reading, port) = IF c = "E0" THEN Reading \cup {"E0"} ELSE Reading \ {"E0"}
    BY <1>4 DEF After
  <2>4. CASE c = "E0"
    BY <1>r, <1>s, <1>3, <2>1, <2>2, <2>3, <2>4
  <2>5. CASE c # "E0"
    <3>1. Reading' = Reading \ {"E0"}
      BY <1>r, <1>s, <2>1, <2>5
    <3>. QED
      BY <1>3, <2>1, <2>2, <2>3, <2>5, <3>1
  <2>. QED
    BY <2>4, <2>5
<1>5. CASE c = "left shift"
  <2>1. /\ key = "" /\ (g_shift_left' <=> ~r)
        /\ g_extended' = g_extended /\ g_shift_right' = g_shift_right
    BY <1>2, <1>5 DEF DecodeSet1
  <2>2. KeyOf(Reading, port) = ""
    BY <1>5 DEF KeyOf, NoKey
  <2>3. After(Reading, port) = IF r THEN Reading \ {c} ELSE Reading \cup {c}
    BY <1>5 DEF After
  <2>. QED
    BY <1>r, <1>s, <1>3, <1>5, <2>1, <2>2, <2>3
<1>6. CASE c = "right shift"
  <2>1. /\ key = "" /\ (g_shift_right' <=> ~r)
        /\ g_extended' = g_extended /\ g_shift_left' = g_shift_left
    BY <1>2, <1>6 DEF DecodeSet1
  <2>2. KeyOf(Reading, port) = ""
    BY <1>6 DEF KeyOf, NoKey
  <2>3. After(Reading, port) = IF r THEN Reading \ {c} ELSE Reading \cup {c}
    BY <1>6 DEF After
  <2>. QED
    BY <1>r, <1>s, <1>3, <1>6, <2>1, <2>2, <2>3
<1>7. CASE c \notin {"E0", "E1", "left shift", "right shift"}
  <2>1. /\ key = IF r THEN "" ELSE IF g_extended THEN ExtendedKey(c) ELSE PlainKey(c)
        /\ g_extended' = FALSE
        /\ g_shift_left' = g_shift_left /\ g_shift_right' = g_shift_right
    BY <1>7 DEF DecodeSet1
  <2>2. After(Reading, port) = Reading \ {"E0"}
    BY <1>7 DEF After
  <2>3. Reading' = Reading \ {"E0"}
    BY <1>r, <1>s, <2>1
  <2>4. ~g_extended => (g_shift_left \/ g_shift_right <=> Reading # {})
    BY <1>r
  <2>5. key = KeyOf(Reading, port)
    <3>1. CASE r
      BY <2>1, <3>1 DEF KeyOf, NoKey
    <3>2. CASE ~r /\ g_extended
      BY <1>r, <1>7, <2>1, <3>2 DEF KeyOf, NoKey
    <3>3. CASE ~r /\ ~g_extended
      <4>1. key = PlainKey(c)
        BY <2>1, <3>3
      <4>2. KeyOf(Reading, port) =
              IF c \in {"escape", "backspace", "enter", "up", "down", "left", "right"} THEN c
              ELSE IF c \in Letters THEN IF Reading # {} THEN Upper[c] ELSE c ELSE ""
        BY <1>r, <1>7, <3>3 DEF KeyOf, NoKey
      <4>. QED
        BY <2>4, <3>3, <4>1, <4>2 DEF PlainKey
    <3>. QED
      BY <1>1, <3>1, <3>2, <3>3
  <2>. QED
    BY <1>3, <2>2, <2>3, <2>5
<1>. QED
  BY <1>3, <1>4, <1>5, <1>6, <1>7

LEMMA KeysSame ==
  ASSUME KeysInv, UNCHANGED <<kbd_out, keyboardVars, held, typed, swallowed>>,
         port' = port \/ (port \notin KbdByte /\ port' \notin KbdByte)
  PROVE  KeysInv'
<1>1. Reading' = Reading
  BY DEF Reading, keyboardVars
<1>2. Key1' = Key1 /\ After1' = After1
  BY <1>1 DEF Key1, After1, KeyOf, After, ExtendedKey
<1>3. Key2' = Key2 /\ After2' = After2
  BY <1>2 DEF Key2, After2, KeyOf, After, ExtendedKey
<1>4. Key3' = Key3 /\ After3' = After3
  BY <1>3 DEF Key3, After3, KeyOf, After, ExtendedKey
<1>. QED
  BY <1>2, <1>3, <1>4 DEF KeysInv, keyboardVars

LEMMA KeysSend ==
  ASSUME KeysInv, BytesTyped, SendKeyByte
  PROVE  KeysInv'
<1>1. Reading' = Reading
  BY DEF Reading, keyboardVars, SendKeyByte
<1>2. port \notin KbdByte /\ kbd_out # <<>> /\ kbd_out \in Seq(KbdByte)
  BY ByteKinds DEF SendKeyByte, BytesTyped
<1>3. /\ port' = kbd_out[1] /\ port' \in KbdByte /\ Len(kbd_out) >= 1
      /\ Len(kbd_out') = Len(kbd_out) - 1 /\ Len(kbd_out) \in Nat
      /\ Len(kbd_out) >= 2 => kbd_out'[1] = kbd_out[2]
  <2>1. port' = Head(kbd_out) /\ kbd_out' = Tail(kbd_out)
    BY DEF SendKeyByte
  <2>. QED
    BY <1>2, <2>1, HeadTail
<1>4. Key1 = NoKey /\ After1 = Reading
  BY <1>2 DEF Key1, After1
<1>5. Key1' = Key2 /\ After1' = After2
  <2>1. Key2 = KeyOf(Reading, kbd_out[1]) /\ After2 = After(Reading, kbd_out[1])
    BY <1>3, <1>4 DEF Key2, After2
  <2>2. Key1' = KeyOf(Reading, port)' /\ After1' = After(Reading, port)'
    BY <1>3 DEF Key1, After1
  <2>. QED
    BY <1>1, <1>3, <2>1, <2>2 DEF KeyOf, After, ExtendedKey
<1>6. Key2' = Key3 /\ After2' = After3
  <2>1. Len(kbd_out') >= 1 <=> Len(kbd_out) >= 2
    BY <1>3
  <2>2. CASE Len(kbd_out) >= 2
    <3>1. Key3 = KeyOf(After2, kbd_out[2]) /\ After3 = After(After2, kbd_out[2])
      BY <2>2 DEF Key3, After3
    <3>2. Key2' = KeyOf(After1, kbd_out[1])' /\ After2' = After(After1, kbd_out[1])'
      BY <2>1, <2>2 DEF Key2, After2
    <3>. QED
      BY <1>3, <1>5, <2>2, <3>1, <3>2 DEF KeyOf, After, ExtendedKey
  <2>3. CASE ~(Len(kbd_out) >= 2)
    BY <1>5, <2>1, <2>3 DEF Key3, After3, Key2, After2
  <2>. QED
    BY <2>2, <2>3
<1>7. Key3' = NoKey /\ After3' = After2'
  <2>1. ~(Len(kbd_out') >= 2)
    BY <1>3 DEF KeysInv
  <2>. QED
    BY <2>1 DEF Key3, After3
<1>8. Len(kbd_out') <= 2
  BY <1>3 DEF KeysInv
<1>9. UNCHANGED <<g_shift_left, g_shift_right, g_extended, held, typed, swallowed>>
  BY DEF SendKeyByte, keyboardVars
<1>10. Three(Key1, Key2, Key3) = Three(Key1, Key2, Key3)'
  <2>1. Three(Key1, Key2, Key3) = Three(Key2, Key3, NoKey)
    BY <1>4, ThreeTakes
  <2>2. Three(Key1, Key2, Key3)' = Three(Key2, Key3, NoKey)
    BY <1>5, <1>6, <1>7 DEF Three, Given
  <2>. QED
    BY <2>1, <2>2
<1>. QED
  BY <1>6, <1>7, <1>8, <1>9, <1>10 DEF KeysInv

LEMMA KeysPoll ==
  ASSUME KeysInv, BytesTyped, NEW key, keyboard_poll(key)
  PROVE  /\ KeysInv'
         /\ key = "" => typed' = typed
         /\ ~swallowed /\ key # "" => typed # <<>> /\ Head(typed) = key /\ typed' = Tail(typed)
<1>1. CASE port.from = "aux" /\ key = "" /\ UNCHANGED keyboardVars
  <2>1. port \notin KbdByte /\ port' \notin KbdByte
    BY <1>1, ByteKinds DEF keyboard_poll
  <2>2. UNCHANGED <<kbd_out, keyboardVars, held, typed, swallowed>>
    BY <1>1 DEF keyboard_poll, deviceVars
  <2>. QED
    BY <1>1, <2>1, <2>2, KeysSame
<1>2. CASE port.from = "kbd" /\ DecodeSet1(port, key)
  <2>1. port \in KbdByte /\ port' \notin KbdByte
    BY <1>2, ByteKinds DEF keyboard_poll, BytesTyped
  <2>2. /\ key = KeyOf(Reading, port) /\ Reading' = After(Reading, port)
        /\ g_shift_left' \in BOOLEAN /\ g_shift_right' \in BOOLEAN /\ g_extended' \in BOOLEAN
    BY <1>2, <2>1, DecodeReads DEF KeysInv
  <2>3. key = Key1 /\ Reading' = After1
    BY <2>1, <2>2 DEF Key1, After1
  <2>4. Key1' = NoKey /\ After1' = After1
    BY <2>1, <2>3 DEF Key1, After1
  <2>5. UNCHANGED <<kbd_out, held, swallowed>>
    BY DEF keyboard_poll, deviceVars
  <2>6. Key2' = Key2 /\ After2' = After2
    BY <2>4, <2>5 DEF Key2, After2, KeyOf, After, ExtendedKey
  <2>7. Key3' = Key3 /\ After3' = After3
    BY <2>5, <2>6 DEF Key3, After3, KeyOf, After, ExtendedKey
  <2>8. typed' = IF key = "" \/ typed = <<>> THEN typed ELSE Tail(typed)
    BY DEF keyboard_poll
  <2>9. Three(Key1, Key2, Key3)' = Three(NoKey, Key2, Key3)
    BY <2>4, <2>6, <2>7 DEF Three, Given
  <2>10. CASE key = ""
    <3>1. typed' = typed /\ Three(Key1, Key2, Key3)' = Three(Key1, Key2, Key3)
      BY <2>3, <2>8, <2>9, <2>10 DEF NoKey
    <3>. QED
      BY <2>2, <2>5, <2>7, <2>10, <3>1 DEF KeysInv
  <2>11. CASE key # ""
    <3>1. ASSUME ~swallowed
          PROVE  typed # <<>> /\ Head(typed) = key /\ typed' = Tail(typed)
                 /\ Tail(typed) = Three(NoKey, Key2, Key3)
      <4>1. typed = Three(Key1, Key2, Key3)
        BY <3>1 DEF KeysInv
      <4>2. Three(key, Key2, Key3) # <<>> /\ Head(Three(key, Key2, Key3)) = key
            /\ Tail(Three(key, Key2, Key3)) = Three(NoKey, Key2, Key3)
        <5>1. key # NoKey
          BY <2>11 DEF NoKey
        <5>. QED
          BY <5>1, ThreeFirst
      <4>3. typed = Three(key, Key2, Key3)
        BY <2>3, <4>1
      <4>. QED
        BY <2>8, <2>11, <4>2, <4>3
    <3>. QED
      BY <2>2, <2>5, <2>7, <2>9, <2>11, <3>1 DEF KeysInv
  <2>. QED
    BY <2>10, <2>11
<1>3. CASE ~command.translate /\ g_shift_left' \in BOOLEAN /\ g_shift_right' \in BOOLEAN
           /\ g_extended' \in BOOLEAN
  <2>1. swallowed /\ UNCHANGED <<kbd_out, held, swallowed>>
    BY <1>3 DEF keyboard_poll, deviceVars, BytesTyped
  <2>2. key = "" => typed' = typed
    BY DEF keyboard_poll
  <2>. QED
    BY <1>3, <2>1, <2>2 DEF KeysInv
<1>. QED
  BY <1>1, <1>2, <1>3 DEF keyboard_poll, Decode

(* A key event starts when everything before it has been sent. *)
LEMMA KeysEvent ==
  ASSUME KeysInv, kbd_out = <<>>, UNCHANGED <<port, keyboardVars, swallowed>>
  PROVE  /\ Key1' = Key1 /\ After1' = After1
         /\ ~swallowed => typed = Three(Key1, NoKey, NoKey) /\ After1 = held
<1>1. Reading' = Reading
  BY DEF Reading, keyboardVars
<1>2. Key1' = Key1 /\ After1' = After1
  BY <1>1 DEF Key1, After1, KeyOf, After, ExtendedKey
<1>3. Len(kbd_out) = 0
  OBVIOUS
<1>4. Key2 = NoKey /\ Key3 = NoKey /\ After2 = After1 /\ After3 = After1
  BY <1>3 DEF Key2, Key3, After2, After3
<1>. QED
  BY <1>2, <1>4 DEF KeysInv

(* The codes of one event: alone, or after a prefix. *)
LEMMA KeysAlone ==
  ASSUME KeysInv, NEW b, kbd_out = <<>>, kbd_out' = <<b>>,
         UNCHANGED <<port, keyboardVars, swallowed>>
  PROVE  /\ Key1' = Key1 /\ Key2' = KeyOf(After1, b) /\ Key3' = NoKey
         /\ After3' = After(After1, b) /\ Len(kbd_out') <= 2
         /\ ~swallowed => typed = Three(Key1, NoKey, NoKey) /\ After1 = held
<1>1. Len(kbd_out') = 1 /\ kbd_out'[1] = b
  OBVIOUS
<1>2. /\ Key1' = Key1 /\ After1' = After1
      /\ ~swallowed => typed = Three(Key1, NoKey, NoKey) /\ After1 = held
  BY KeysEvent
<1>3. Key2' = KeyOf(After1, b) /\ After2' = After(After1, b)
  BY <1>1, <1>2 DEF Key2, After2, KeyOf, After, ExtendedKey
<1>4. Key3' = NoKey /\ After3' = After2'
  BY <1>1 DEF Key3, After3
<1>. QED
  BY <1>1, <1>2, <1>3, <1>4

LEMMA KeysPrefixed ==
  ASSUME KeysInv, NEW p, NEW b, kbd_out = <<>>, kbd_out' = <<p, b>>,
         UNCHANGED <<port, keyboardVars, swallowed>>
  PROVE  /\ Key1' = Key1 /\ Key2' = KeyOf(After1, p) /\ Key3' = KeyOf(After(After1, p), b)
         /\ After3' = After(After(After1, p), b) /\ Len(kbd_out') <= 2
         /\ ~swallowed => typed = Three(Key1, NoKey, NoKey) /\ After1 = held
<1>1. Len(kbd_out') = 2 /\ kbd_out'[1] = p /\ kbd_out'[2] = b
  OBVIOUS
<1>2. /\ Key1' = Key1 /\ After1' = After1
      /\ ~swallowed => typed = Three(Key1, NoKey, NoKey) /\ After1 = held
  BY KeysEvent
<1>3. Key2' = KeyOf(After1, p) /\ After2' = After(After1, p)
  BY <1>1, <1>2 DEF Key2, After2, KeyOf, After, ExtendedKey
<1>4. Key3' = KeyOf(After2', b) /\ After3' = After(After2', b)
  BY <1>1 DEF Key3, After3, KeyOf, After, ExtendedKey
<1>. QED
  BY <1>1, <1>2, <1>3, <1>4

LEMMA CodesDiffer ==
  /\ \A c \in Letters : c \notin {"", "E0", "E1", "left shift", "right shift", "escape",
                                  "backspace", "enter"} /\ c \notin ExtendedCodes
  /\ \A c \in ExtendedCodes \cup PlainCodes :
       c \notin {"", "E0", "E1", "left shift", "right shift"} /\ c \notin Letters
  /\ \A c \in PlainCodes : c \notin ExtendedCodes /\ c \in {"escape", "backspace", "enter"}
  /\ \A c \in Letters : c # "" /\ Upper[c] # ""
BY CharactersAssumption, Ps2Assumption

(* The key that a press counts as is the key its codes give. *)
LEMMA KeysPress ==
  ASSUME KeysInv, NEW c \in Letters \cup ExtendedCodes \cup PlainCodes, PressKey(c)
  PROVE  /\ KeysInv'
         /\ typed' = Append(typed, IF c \in Letters /\ held # {} THEN Upper[c] ELSE c)
<1>. DEFINE k == IF c \in Letters /\ held # {} THEN Upper[c] ELSE c
            b == Byte(c, FALSE)
            p == Byte("E0", FALSE)
<1>1. /\ kbd_out = <<>> /\ ~swallowed /\ typed' = Append(typed, k)
      /\ UNCHANGED <<port, keyboardVars, held, swallowed>>
  BY DEF PressKey
<1>2. kbd_out' = IF c \in ExtendedCodes THEN <<p, b>> ELSE <<b>>
  BY DEF PressKey, Codes
<1>3. k # NoKey
  BY CodesDiffer DEF NoKey
<1>4. held \subseteq {"left shift", "right shift"}
  BY Ps2Assumption DEF KeysInv
<1>5. CASE c \in ExtendedCodes
  <2>1. /\ Key1' = Key1 /\ Key2' = KeyOf(After1, p) /\ Key3' = KeyOf(After(After1, p), b)
        /\ After3' = After(After(After1, p), b) /\ Len(kbd_out') <= 2
        /\ typed = Three(Key1, NoKey, NoKey) /\ After1 = held
    BY <1>1, <1>2, <1>5, KeysPrefixed
  <2>2. KeyOf(held, p) = NoKey /\ After(held, p) = held \cup {"E0"}
    BY DEF KeyOf, After, Byte, NoKey
  <2>3. KeyOf(held \cup {"E0"}, b) = c
    BY <1>5, CodesDiffer DEF KeyOf, Byte, ExtendedKey
  <2>4. After(held \cup {"E0"}, b) = held
    BY <1>4, <1>5, CodesDiffer DEF After, Byte
  <2>5. k = c
    BY <1>5, CodesDiffer
  <2>6. typed' = Three(Key1, NoKey, k)
    BY <1>1, <1>3, <2>1, ThreeGrows
  <2>7. typed' = Three(Key1, Key2, Key3)'
    BY <2>1, <2>2, <2>3, <2>5, <2>6 DEF Three, Given
  <2>. QED
    BY <1>1, <2>1, <2>2, <2>4, <2>7 DEF KeysInv, keyboardVars
<1>6. CASE c \notin ExtendedCodes
  <2>1. /\ Key1' = Key1 /\ Key2' = KeyOf(After1, b) /\ Key3' = NoKey
        /\ After3' = After(After1, b) /\ Len(kbd_out') <= 2
        /\ typed = Three(Key1, NoKey, NoKey) /\ After1 = held
    BY <1>1, <1>2, <1>6, KeysAlone
  <2>2. After(held, b) = held
    BY <1>4, <1>6, CodesDiffer DEF After, Byte
  <2>3. KeyOf(held, b) = k
    <3>1. ~b.released /\ b.code = c
      BY DEF Byte
    <3>2. "E0" \notin held
      BY <1>4
    <3>3. CASE c \in PlainCodes
      BY <3>1, <3>2, <3>3, CodesDiffer DEF KeyOf
    <3>4. CASE c \in Letters
      <4>1. c \notin {"up", "down", "left", "right"}
        BY <3>4, CharactersAssumption
      <4>. QED
        BY <3>1, <3>2, <3>4, <4>1, CodesDiffer DEF KeyOf
    <3>. QED
      BY <1>6, <3>3, <3>4
  <2>6. typed' = Three(Key1, k, NoKey)
    BY <1>1, <1>3, <2>1, ThreeGrows
  <2>7. typed' = Three(Key1, Key2, Key3)'
    BY <2>1, <2>3, <2>6 DEF Three, Given
  <2>. QED
    BY <1>1, <2>1, <2>2, <2>7 DEF KeysInv, keyboardVars
<1>. QED
  BY <1>1, <1>5, <1>6

LEMMA KeysRelease ==
  ASSUME KeysInv, NEW prefix \in {"", "E0", "E1"}, ReleaseKey(prefix)
  PROVE  KeysInv' /\ typed' = typed
<1>. DEFINE b == Byte("key", TRUE)
            p == Byte(prefix, FALSE)
<1>1. kbd_out = <<>> /\ typed' = typed /\ UNCHANGED <<port, keyboardVars, held, swallowed>>
  BY DEF ReleaseKey
<1>2. kbd_out' = IF prefix = "" THEN <<b>> ELSE <<p, b>>
  BY DEF ReleaseKey, Codes
<1>3. held \subseteq {"left shift", "right shift"}
  BY Ps2Assumption DEF KeysInv
<1>4. \A d : KeyOf(d, b) = NoKey /\ After(d, b) = d \ {"E0"}
  BY DEF KeyOf, After, Byte, NoKey
<1>5. CASE prefix = ""
  <2>1. /\ Key1' = Key1 /\ Key2' = KeyOf(After1, b) /\ Key3' = NoKey
        /\ After3' = After(After1, b) /\ Len(kbd_out') <= 2
        /\ ~swallowed => typed = Three(Key1, NoKey, NoKey) /\ After1 = held
    BY <1>1, <1>2, <1>5, KeysAlone
  <2>2. Three(Key1, Key2, Key3)' = Three(Key1, NoKey, NoKey)
    BY <1>4, <2>1 DEF Three, Given
  <2>3. held \ {"E0"} = held
    BY <1>3
  <2>. QED
    BY <1>1, <1>4, <2>1, <2>2, <2>3 DEF KeysInv, keyboardVars
<1>6. CASE prefix # ""
  <2>1. /\ Key1' = Key1 /\ Key2' = KeyOf(After1, p) /\ Key3' = KeyOf(After(After1, p), b)
        /\ After3' = After(After(After1, p), b) /\ Len(kbd_out') <= 2
        /\ ~swallowed => typed = Three(Key1, NoKey, NoKey) /\ After1 = held
    BY <1>1, <1>2, <1>6, KeysPrefixed
  <2>2. KeyOf(After1, p) = NoKey
    BY <1>6 DEF KeyOf, Byte, NoKey
  <2>3. Three(Key1, Key2, Key3)' = Three(Key1, NoKey, NoKey)
    BY <1>4, <2>1, <2>2 DEF Three, Given
  <2>4. After(After(held, p), b) = held
    <3>1. After(held, p) = IF prefix = "E0" THEN held \cup {"E0"} ELSE held \ {"E0"}
      BY <1>6 DEF After, Byte
    <3>. QED
      BY <1>3, <1>4, <3>1
  <2>. QED
    BY <1>1, <2>1, <2>3, <2>4 DEF KeysInv, keyboardVars
<1>. QED
  BY <1>1, <1>5, <1>6

LEMMA KeysShift ==
  ASSUME KeysInv, NEW c \in Shifts, MoveShift(c)
  PROVE  KeysInv' /\ typed' = typed
<1>. DEFINE b == Byte(c, c \in held)
<1>1. kbd_out = <<>> /\ typed' = typed /\ UNCHANGED <<port, keyboardVars, swallowed>>
  BY DEF MoveShift
<1>2. kbd_out' = <<b>>
  BY DEF MoveShift
<1>3. held' = IF c \in held THEN held \ {c} ELSE held \cup {c}
  BY DEF MoveShift
<1>4. b.code = c /\ (b.released <=> c \in held)
  BY DEF Byte
<1>5. c \in {"left shift", "right shift"}
  BY Ps2Assumption
<1>. HIDE DEF b
<1>6. /\ Key1' = Key1 /\ Key2' = KeyOf(After1, b) /\ Key3' = NoKey
      /\ After3' = After(After1, b) /\ Len(kbd_out') <= 2
      /\ ~swallowed => typed = Three(Key1, NoKey, NoKey) /\ After1 = held
  BY <1>1, <1>2, KeysAlone
<1>7. \A d : KeyOf(d, b) = NoKey
  BY <1>4, <1>5 DEF KeyOf
<1>8. After(held, b) = held'
  BY <1>3, <1>4, <1>5 DEF After
<1>9. Three(Key1, Key2, Key3)' = Three(Key1, NoKey, NoKey)
  BY <1>6, <1>7 DEF Three, Given
<1>10. held' \subseteq Shifts
  BY <1>3 DEF KeysInv
<1>. QED
  BY <1>1, <1>6, <1>8, <1>9, <1>10 DEF KeysInv, keyboardVars

LEMMA KeysMouse ==
  ASSUME KeysInv, BytesTyped,
         (\E b \in AuxBits : MoveMouse(b)) \/ SendAuxByte \/ mouse_poll
  PROVE  KeysInv' /\ typed' = typed
<1>1. UNCHANGED <<kbd_out, keyboardVars, held, typed, swallowed>>
  BY DEF MoveMouse, SendAuxByte, mouse_poll, deviceVars
<1>2. port' = port \/ (port \notin KbdByte /\ port' \notin KbdByte)
  <2>1. CASE \E b \in AuxBits : MoveMouse(b)
    BY <2>1 DEF MoveMouse
  <2>2. CASE SendAuxByte
    <3>1. Head(aux_out) \in AuxByte
      BY <2>2, HeadTail DEF SendAuxByte, BytesTyped
    <3>. QED
      BY <2>2, <3>1, ByteKinds DEF SendAuxByte
  <2>3. CASE mouse_poll
    <3>1. port.from = "aux" /\ port' = NoByte
      BY <2>3 DEF mouse_poll
    <3>. QED
      BY <3>1, ByteKinds
  <2>. QED
    BY <2>1, <2>2, <2>3
<1>. QED
  BY <1>1, <1>2, KeysSame

LEMMA KeysMouseInit ==
  ASSUME KeysInv, BytesTyped, NEW ok, mouse_init(ok)
  PROVE  KeysInv' /\ (swallowed' = TRUE \/ (swallowed' = swallowed /\ typed' = typed))
<1>1. CASE UNCHANGED <<port, kbd_out, held, keyboardVars, typed, swallowed>>
  BY <1>1, KeysSame
<1>2. CASE /\ swallowed' = TRUE /\ UNCHANGED <<held, keyboardVars>>
           /\ kbd_out' = kbd_out \/ (kbd_out # <<>> /\ kbd_out' = Tail(kbd_out))
  <2>1. Len(kbd_out') <= 2
    BY <1>2, HeadTail DEF KeysInv, BytesTyped
  <2>. QED
    BY <1>2, <2>1 DEF KeysInv, keyboardVars
<1>. QED
  BY <1>1, <1>2 DEF mouse_init

-----------------------------------------------------------------------------
(* The line: cmdbuf and cmdlen hold the string that LineEditor calls line. *)

LEMMA Sizes == HIST_SIZE \in Nat /\ HIST_SIZE > 0 /\ HIST_LEN \in Nat /\ HIST_LEN > 0
BY TerminalAssumption

(* The string of the first n characters of a buffer. *)
Chars(f, n) == [i \in 1 .. n |-> f[i - 1]]

IsString(s, f, n) ==
  /\ s \in Seq(Printable) /\ Len(s) = n /\ s \in Strings
  /\ \A i \in 1 .. n : s[i] = f[i - 1]

LEMMA CharsAre ==
  ASSUME NEW f, NEW n \in 0 .. (HIST_LEN - 1), \A i \in 0 .. (n - 1) : f[i] \in Printable
  PROVE  IsString(Chars(f, n), f, n)
<1>1. n \in Nat /\ n <= HIST_LEN - 1
  BY Sizes
<1>2. \A i \in 1 .. n : f[i - 1] \in Printable
  BY <1>1
<1>3. Chars(f, n) \in Seq(Printable) /\ Len(Chars(f, n)) = n
  BY <1>1, <1>2 DEF Chars
<1>4. \A i \in 1 .. n : Chars(f, n)[i] = f[i - 1]
  BY <1>1 DEF Chars
<1>. QED
  BY <1>1, <1>3, <1>4 DEF Strings, IsString

LEMMA LineIs ==
  ASSUME LineInv
  PROVE  IsString(Line, cmdbuf, cmdlen)
<1>1. cmdlen \in 0 .. (HIST_LEN - 1) /\ \A i \in 0 .. (cmdlen - 1) : cmdbuf[i] \in Printable
  BY DEF LineInv, LineOk
<1>2. Line = Chars(cmdbuf, cmdlen)
  BY DEF Line, Chars
<1>. QED
  BY <1>1, <1>2, CharsAre

LEMMA TextIsLine ==
  ASSUME LineInv
  PROVE  Text = Line
<1>. DEFINE P(n) == cmdbuf[n] = NUL /\ \A i \in 0 .. (n - 1) : cmdbuf[i] # NUL
<1>1. cmdlen \in Cells /\ cmdlen \in Nat
  BY Sizes DEF LineInv, LineOk, Cells
<1>2. NUL \notin Printable
  BY CharactersAssumption
<1>3. P(cmdlen)
  BY <1>2 DEF LineInv, LineOk
<1>4. ASSUME NEW n \in Cells, P(n)
      PROVE  n = cmdlen
  <2>1. n \in Nat
    BY Sizes DEF Cells
  <2>2. ~(n < cmdlen)
    BY <1>1, <1>2, <1>4, <2>1 DEF LineInv, LineOk
  <2>3. ~(cmdlen < n)
    BY <1>1, <1>4, <2>1 DEF LineInv, LineOk
  <2>. QED
    BY <1>1, <2>1, <2>2, <2>3
<1>5. (CHOOSE n \in Cells : P(n)) = cmdlen
  <2>. HIDE DEF P
  <2>. QED
    BY <1>1, <1>3, <1>4
<1>. QED
  BY <1>5 DEF Text, Line

LEMMA SeqsAgree ==
  ASSUME NEW X, NEW s \in Seq(X), NEW t \in Seq(X), NEW n, Len(s) = n, Len(t) = n,
         \A i \in 1 .. n : s[i] = t[i]
  PROVE  s = t
BY SameSeq

AreJoined(r, s, t, m, n) ==
  Len(r) = m + n /\ \A i \in 1 .. (m + n) : r[i] = IF i <= m THEN s[i] ELSE t[i - m]

LEMMA Joined ==
  ASSUME NEW X, NEW s \in Seq(X), NEW t \in Seq(X), NEW m \in Nat, NEW n \in Nat,
         Len(s) = m, Len(t) = n
  PROVE  s \o t \in Seq(X) /\ AreJoined(s \o t, s, t, m, n)
BY DEF AreJoined

LEMMA Cut ==
  ASSUME NEW X, NEW s \in Seq(X), NEW a \in 1 .. (Len(s) + 1), NEW b \in 0 .. Len(s),
         NEW n \in Nat, n = b - a + 1
  PROVE  /\ SubSeq(s, a, b) \in Seq(X) /\ Len(SubSeq(s, a, b)) = n
         /\ \A i \in 1 .. n : SubSeq(s, a, b)[i] = s[a + i - 1]
<1>1. \A i \in a .. b : s[i] \in X
  OBVIOUS
<1>2. a \in Int /\ b \in Int /\ (a <= b => n = b - a + 1) /\ (~(a <= b) => n = 0)
  OBVIOUS
<1>. QED
  BY <1>1, <1>2, SubSeqProperties

IsInserted(r, s, n, k, e) ==
  /\ Len(r) = n + 1
  /\ \A i \in 1 .. (n + 1) : r[i] = IF i <= k THEN s[i]
                                   ELSE IF i = k + 1 THEN e ELSE s[i - 1]

LEMMA InsertIs ==
  ASSUME NEW X, NEW s \in Seq(X), NEW e \in X, NEW n \in Nat, Len(s) = n, NEW k \in 0 .. n,
         NEW j, j = k + 1
  PROVE  Editor!InsertAt(s, j, e) \in Seq(X) /\ IsInserted(Editor!InsertAt(s, j, e), s, n, k, e)
<1>. DEFINE r == Editor!InsertAt(s, k + 1, e)
            a == SubSeq(s, 1, (k + 1) - 1)
            b == SubSeq(s, k + 1, Len(s))
            e1 == <<e>>
            c == a \o e1
<1>1. k \in Nat /\ k <= n
  OBVIOUS
<1>2. a \in Seq(X) /\ Len(a) = k /\ \A i \in 1 .. k : a[i] = s[i]
  <2>. DEFINE z == (k + 1) - 1
  <2>1. z = k /\ z \in 0 .. Len(s) /\ 1 \in 1 .. (Len(s) + 1) /\ k = z - 1 + 1
    OBVIOUS
  <2>. HIDE DEF z
  <2>2. /\ SubSeq(s, 1, z) \in Seq(X) /\ Len(SubSeq(s, 1, z)) = k
        /\ \A i \in 1 .. k : SubSeq(s, 1, z)[i] = s[1 + i - 1]
    BY <1>1, <2>1, Cut
  <2>. QED
    BY <2>1, <2>2 DEF z
<1>3. b \in Seq(X) /\ Len(b) = n - k /\ \A i \in 1 .. (n - k) : b[i] = s[k + i]
  <2>. DEFINE z == k + 1
              m == n - k
  <2>1. z \in 1 .. (Len(s) + 1) /\ Len(s) \in 0 .. Len(s) /\ m \in Nat /\ m = Len(s) - z + 1
        /\ z = k + 1
    OBVIOUS
  <2>. HIDE DEF z, m
  <2>2. /\ SubSeq(s, z, Len(s)) \in Seq(X) /\ Len(SubSeq(s, z, Len(s))) = m
        /\ \A i \in 1 .. m : SubSeq(s, z, Len(s))[i] = s[z + i - 1]
    BY <2>1, Cut
  <2>. QED
    BY <1>1, <2>1, <2>2 DEF z, m
<1>4. e1 \in Seq(X) /\ Len(e1) = 1 /\ e1[1] = e
  OBVIOUS
<1>5. r = c \o b
  BY DEF Editor!InsertAt
<1>. HIDE DEF a, b, e1, r
<1>6. c \in Seq(X) /\ Len(c) = k + 1
      /\ \A i \in 1 .. (k + 1) : c[i] = IF i <= k THEN a[i] ELSE e1[i - k]
  <2>1. PICK w \in Nat : w = 1
    OBVIOUS
  <2>2. c \in Seq(X) /\ AreJoined(c, a, e1, k, w)
    BY <1>1, <1>2, <1>4, <2>1, Joined
  <2>. QED
    BY <2>1, <2>2 DEF AreJoined
<1>. HIDE DEF c
<1>7. /\ r \in Seq(X) /\ Len(r) = n + 1
      /\ \A i \in 1 .. (n + 1) : r[i] = IF i <= k + 1 THEN c[i] ELSE b[i - (k + 1)]
  <2>. DEFINE m == k + 1
              l == n - k
  <2>1. m \in Nat /\ l \in Nat /\ m + l = n + 1 /\ Len(c) = m /\ Len(b) = l
    BY <1>1, <1>3, <1>6
  <2>. HIDE DEF m, l
  <2>2. r \in Seq(X) /\ AreJoined(r, c, b, m, l)
    BY <1>3, <1>5, <1>6, <2>1, Joined
  <2>. QED
    BY <2>1, <2>2 DEF m, AreJoined
<1>8. ASSUME NEW i \in 1 .. (n + 1)
      PROVE  r[i] = IF i <= k THEN s[i] ELSE IF i = k + 1 THEN e ELSE s[i - 1]
  <2>1. CASE i <= k
    BY <1>1, <1>2, <1>6, <1>7, <2>1
  <2>2. CASE i = k + 1
    BY <1>1, <1>4, <1>6, <1>7, <2>2
  <2>3. CASE i > k + 1
    <3>1. r[i] = b[i - (k + 1)]
      BY <1>1, <1>7, <2>3
    <3>2. i - (k + 1) \in 1 .. (n - k) /\ k + (i - (k + 1)) = i - 1
      BY <1>1, <2>3
    <3>. QED
      BY <1>1, <1>3, <2>3, <3>1, <3>2
  <2>. QED
    BY <1>1, <2>1, <2>2, <2>3
<1>. QED
  BY <1>7, <1>8 DEF r, IsInserted

IsRemoved(r, s, n, k) ==
  Len(r) = n - 1 /\ \A i \in 1 .. (n - 1) : r[i] = IF i < k THEN s[i] ELSE s[i + 1]

LEMMA RemoveIs ==
  ASSUME NEW X, NEW s \in Seq(X), NEW n \in Nat, Len(s) = n, NEW k \in 1 .. n
  PROVE  Editor!RemoveAt(s, k) \in Seq(X) /\ IsRemoved(Editor!RemoveAt(s, k), s, n, k)
<1>. DEFINE r == Editor!RemoveAt(s, k)
            j == k - 1
            m == n - k
            z == k + 1
            a == SubSeq(s, 1, j)
            b == SubSeq(s, z, Len(s))
<1>1. r = a \o b
  BY DEF Editor!RemoveAt
<1>2. /\ k \in Nat /\ j \in Nat /\ m \in Nat /\ j = k - 1 /\ m = n - k /\ z = k + 1 /\ j + m = n - 1
  OBVIOUS
<1>. HIDE DEF j, m, z, r
<1>3. a \in Seq(X) /\ Len(a) = j /\ \A i \in 1 .. j : a[i] = s[i]
  <2>1. j \in 0 .. Len(s) /\ 1 \in 1 .. (Len(s) + 1) /\ j = j - 1 + 1
    BY <1>2
  <2>2. a \in Seq(X) /\ Len(a) = j /\ \A i \in 1 .. j : a[i] = s[1 + i - 1]
    BY <1>2, <2>1, Cut
  <2>. QED
    BY <1>2, <2>2
<1>4. b \in Seq(X) /\ Len(b) = m /\ \A i \in 1 .. m : b[i] = s[k + i]
  <2>1. z \in 1 .. (Len(s) + 1) /\ Len(s) \in 0 .. Len(s) /\ m = Len(s) - z + 1
    BY <1>2
  <2>2. b \in Seq(X) /\ Len(b) = m /\ \A i \in 1 .. m : b[i] = s[z + i - 1]
    BY <1>2, <2>1, Cut
  <2>. QED
    BY <1>2, <2>2
<1>. HIDE DEF a, b
<1>5. /\ r \in Seq(X) /\ Len(r) = j + m
      /\ \A i \in 1 .. (j + m) : r[i] = IF i <= j THEN a[i] ELSE b[i - j]
  <2>1. r \in Seq(X) /\ AreJoined(r, a, b, j, m)
    BY <1>1, <1>2, <1>3, <1>4, Joined
  <2>. QED
    BY <2>1 DEF AreJoined
<1>6. ASSUME NEW i \in 1 .. (n - 1)
      PROVE  r[i] = IF i < k THEN s[i] ELSE s[i + 1]
  <2>1. CASE i < k
    BY <1>2, <1>3, <1>5, <2>1
  <2>2. CASE i >= k
    <3>0. i \in 1 .. (j + m) /\ ~(i <= j)
      BY <1>2, <2>2
    <3>1. r[i] = b[i - j]
      BY <1>5, <3>0
    <3>2. i - j \in 1 .. m /\ k + (i - j) = i + 1
      BY <1>2, <2>2
    <3>. QED
      BY <1>2, <1>4, <2>2, <3>1, <3>2
  <2>. QED
    BY <1>2, <2>1, <2>2
<1>. QED
  BY <1>2, <1>5, <1>6 DEF r, IsRemoved

LEMMA InsertOk ==
  ASSUME NEW f, NEW n, NEW p, LineOk(f, n, p), n < HIST_LEN - 1, NEW c \in Printable,
         NEW g, g = [i \in Cells |-> IF i = n + 1 THEN NUL ELSE IF i = p THEN c
                                     ELSE IF p < i /\ i <= n THEN f[i - 1] ELSE f[i]]
  PROVE  LineOk(g, n + 1, p + 1) /\ Chars(g, n + 1) = Editor!InsertAt(Chars(f, n), p + 1, c)
<1>1. /\ n \in Nat /\ p \in Nat /\ p <= n /\ n + 1 \in 0 .. (HIST_LEN - 1) /\ n \in 0 .. (HIST_LEN - 1)
      /\ p \in 0 .. n /\ n + 1 \in Nat
  BY Sizes DEF LineOk
<1>2. \A i \in 0 .. (n - 1) : f[i] \in Printable
  BY DEF LineOk
<1>3. /\ \A i \in 0 .. n : g[i] = IF i = p THEN c ELSE IF p < i THEN f[i - 1] ELSE f[i]
      /\ g[n + 1] = NUL
  BY <1>1, Sizes DEF Cells
<1>4. \A i \in 0 .. n : g[i] \in Printable
  BY <1>1, <1>2, <1>3
<1>5. g \in [Cells -> Printable \cup {NUL}]
  <2>1. ASSUME NEW i \in Cells
        PROVE  g[i] \in Printable \cup {NUL}
    <3>1. i \in Nat /\ f[i] \in Printable \cup {NUL}
      BY Sizes DEF LineOk, Cells
    <3>2. i <= n \/ i = n + 1 \/ (i > n + 1 /\ g[i] = f[i])
      BY <1>1, <3>1
    <3>. QED
      BY <1>1, <1>3, <1>4, <3>1, <3>2
  <2>2. g = [i \in Cells |-> g[i]]
    OBVIOUS
  <2>. QED
    BY <2>1, <2>2
<1>6. LineOk(g, n + 1, p + 1)
  <2>1. \A i \in 0 .. ((n + 1) - 1) : g[i] \in Printable
    BY <1>1, <1>4
  <2>. QED
    BY <1>1, <1>3, <1>5, <2>1 DEF LineOk
<1>. DEFINE m == n + 1
            s == Chars(f, n)
            t == Chars(g, m)
            r == Editor!InsertAt(s, p + 1, c)
<1>7. IsString(s, f, n)
  BY <1>1, <1>2, CharsAre
<1>8. IsString(t, g, m)
  <2>1. \A i \in 0 .. (m - 1) : g[i] \in Printable
    BY <1>1, <1>4
  <2>2. m \in 0 .. (HIST_LEN - 1)
    BY <1>1
  <2>. HIDE DEF m
  <2>. QED
    BY <2>1, <2>2, CharsAre
<1>9. /\ r \in Seq(Printable) /\ Len(r) = n + 1
      /\ \A i \in 1 .. (n + 1) : r[i] = IF i <= p THEN s[i] ELSE IF i = p + 1 THEN c ELSE s[i - 1]
  <2>1. s \in Seq(Printable) /\ Len(s) = n
    BY <1>7 DEF IsString
  <2>2. PICK j : j = p + 1
    OBVIOUS
  <2>. HIDE DEF s
  <2>3. r \in Seq(Printable) /\ IsInserted(r, s, n, p, c)
    BY <1>1, <2>1, <2>2, InsertIs
  <2>. HIDE DEF r
  <2>. QED
    BY <2>3 DEF IsInserted
<1>. HIDE DEF s, t, r
<1>10. ASSUME NEW i \in 1 .. m
       PROVE  t[i] = r[i]
  <2>1. t[i] = g[i - 1] /\ i - 1 \in 0 .. n
    BY <1>1, <1>8 DEF IsString
  <2>2. CASE i <= p
    BY <1>1, <1>3, <1>7, <1>9, <2>1, <2>2 DEF IsString
  <2>3. CASE i = p + 1
    BY <1>1, <1>3, <1>9, <2>1, <2>3
  <2>4. CASE i > p + 1
    <3>1. r[i] = s[i - 1] /\ i - 1 \in 1 .. n
      BY <1>1, <1>9, <2>4
    <3>2. s[i - 1] = f[(i - 1) - 1]
      BY <1>7, <3>1 DEF IsString
    <3>3. g[i - 1] = f[(i - 1) - 1]
      BY <1>1, <1>3, <2>1, <2>4
    <3>. QED
      BY <2>1, <3>1, <3>2, <3>3
  <2>. QED
    BY <1>1, <2>2, <2>3, <2>4
<1>11. t = r
  BY <1>8, <1>9, <1>10, SeqsAgree DEF IsString
<1>. QED
  BY <1>6, <1>11 DEF s, t, r

(* The k-th character is taken out; the cursor ends at p. *)
LEMMA RemoveOk ==
  ASSUME NEW f, NEW n, NEW p0, LineOk(f, n, p0), NEW k \in 0 .. (n - 1), NEW p \in 0 .. (n - 1),
         NEW g, g = [i \in Cells |-> IF i = n - 1 THEN NUL
                                     ELSE IF k <= i /\ i < n - 1 THEN f[i + 1] ELSE f[i]]
  PROVE  LineOk(g, n - 1, p) /\ Chars(g, n - 1) = Editor!RemoveAt(Chars(f, n), k + 1)
<1>1. /\ n \in Nat /\ n > 0 /\ n \in 0 .. (HIST_LEN - 1) /\ n - 1 \in 0 .. (HIST_LEN - 1)
      /\ k \in Nat /\ k < n /\ n - 1 \in Nat
  BY Sizes DEF LineOk
<1>2. \A i \in 0 .. (n - 1) : f[i] \in Printable
  BY DEF LineOk
<1>3. /\ \A i \in 0 .. (n - 2) : g[i] = IF k <= i THEN f[i + 1] ELSE f[i]
      /\ g[n - 1] = NUL
  BY <1>1, Sizes DEF Cells
<1>4. \A i \in 0 .. (n - 2) : g[i] \in Printable
  BY <1>1, <1>2, <1>3
<1>5. g \in [Cells -> Printable \cup {NUL}]
  <2>1. ASSUME NEW i \in Cells
        PROVE  g[i] \in Printable \cup {NUL}
    <3>1. i \in Nat /\ f[i] \in Printable \cup {NUL}
      BY Sizes DEF LineOk, Cells
    <3>2. i <= n - 2 \/ i = n - 1 \/ (i > n - 1 /\ g[i] = f[i])
      BY <1>1, <3>1
    <3>. QED
      BY <1>1, <1>3, <1>4, <3>1, <3>2
  <2>2. g = [i \in Cells |-> g[i]]
    OBVIOUS
  <2>. QED
    BY <2>1, <2>2
<1>6. LineOk(g, n - 1, p)
  <2>1. \A i \in 0 .. ((n - 1) - 1) : g[i] \in Printable
    BY <1>1, <1>4
  <2>. QED
    BY <1>1, <1>3, <1>5, <2>1 DEF LineOk
<1>. DEFINE m == n - 1
            j == k + 1
            s == Chars(f, n)
            t == Chars(g, m)
            r == Editor!RemoveAt(s, j)
<1>7. IsString(s, f, n)
  BY <1>1, <1>2, CharsAre
<1>8. IsString(t, g, m)
  <2>1. \A i \in 0 .. (m - 1) : g[i] \in Printable
    BY <1>1, <1>4
  <2>2. m \in 0 .. (HIST_LEN - 1)
    BY <1>1
  <2>. HIDE DEF m
  <2>. QED
    BY <2>1, <2>2, CharsAre
<1>9. /\ r \in Seq(Printable) /\ Len(r) = n - 1
      /\ \A i \in 1 .. (n - 1) : r[i] = IF i < j THEN s[i] ELSE s[i + 1]
  <2>1. s \in Seq(Printable) /\ Len(s) = n
    BY <1>7 DEF IsString
  <2>2. j \in 1 .. n
    BY <1>1
  <2>. HIDE DEF s, j
  <2>3. r \in Seq(Printable) /\ IsRemoved(r, s, n, j)
    BY <1>1, <2>1, <2>2, RemoveIs
  <2>. HIDE DEF r
  <2>. QED
    BY <2>3 DEF IsRemoved
<1>. HIDE DEF s, t, r
<1>10. ASSUME NEW i \in 1 .. m
       PROVE  t[i] = r[i]
  <2>1. t[i] = g[i - 1] /\ i - 1 \in 0 .. (n - 2)
    BY <1>1, <1>8 DEF IsString
  <2>2. CASE i <= k
    BY <1>1, <1>3, <1>7, <1>9, <2>1, <2>2 DEF IsString
  <2>3. CASE i > k
    <3>1. r[i] = s[i + 1] /\ i + 1 \in 1 .. n
      BY <1>1, <1>9, <2>3
    <3>2. s[i + 1] = f[(i + 1) - 1]
      BY <1>7, <3>1 DEF IsString
    <3>3. g[i - 1] = f[(i - 1) + 1]
      BY <1>1, <1>3, <2>1, <2>3
    <3>4. (i - 1) + 1 = (i + 1) - 1
      BY <1>1
    <3>. QED
      BY <2>1, <3>1, <3>2, <3>3, <3>4
  <2>. QED
    BY <1>1, <2>2, <2>3
<1>11. t = r
  BY <1>8, <1>9, <1>10, SeqsAgree DEF IsString
<1>. QED
  BY <1>6, <1>11 DEF s, t, r

(* A string of the history is copied into the buffer. *)
LEMMA SetOk ==
  ASSUME NEW s \in Strings, NEW g,
         g = [i \in Cells |-> IF i < Len(s) THEN s[i + 1] ELSE NUL]
  PROVE  LineOk(g, Len(s), Len(s)) /\ Chars(g, Len(s)) = s
<1>. DEFINE n == Len(s)
<1>1. s \in Seq(Printable) /\ n \in Nat /\ n \in 0 .. (HIST_LEN - 1)
  BY Sizes DEF Strings
<1>2. \A i \in 1 .. n : s[i] \in Printable
  BY <1>1
<1>. HIDE DEF n
<1>3. g = [i \in Cells |-> IF i < n THEN s[i + 1] ELSE NUL]
  BY DEF n
<1>4. \A i \in 0 .. (n - 1) : g[i] = s[i + 1] /\ g[i] \in Printable
  BY <1>1, <1>2, <1>3, Sizes DEF Cells
<1>5. g[n] = NUL
  BY <1>1, <1>3, Sizes DEF Cells
<1>6. g \in [Cells -> Printable \cup {NUL}]
  <2>1. ASSUME NEW i \in Cells
        PROVE  g[i] \in Printable \cup {NUL}
    <3>1. i \in Nat
      BY Sizes DEF Cells
    <3>. QED
      BY <1>1, <1>3, <1>4, <3>1
  <2>. QED
    BY <1>3, <2>1
<1>7. LineOk(g, n, n)
  BY <1>1, <1>4, <1>5, <1>6 DEF LineOk
<1>8. IsString(Chars(g, n), g, n)
  BY <1>1, <1>4, CharsAre
<1>9. \A i \in 1 .. n : Chars(g, n)[i] = s[i]
  <2>1. ASSUME NEW i \in 1 .. n
        PROVE  Chars(g, n)[i] = s[i]
    <3>1. i - 1 \in 0 .. (n - 1) /\ (i - 1) + 1 = i
      BY <1>1
    <3>. QED
      BY <1>4, <1>8, <3>1 DEF IsString
  <2>. QED
    BY <2>1
<1>10. Chars(g, n) = s
  <2>1. Len(s) = n
    BY DEF n
  <2>. QED
    BY <1>1, <1>8, <1>9, <2>1, SeqsAgree DEF IsString
<1>. QED
  BY <1>7, <1>10 DEF n

(* Enter empties it. *)
LEMMA ClearOk ==
  ASSUME NEW f, NEW n, NEW p, LineOk(f, n, p), NEW g, g = [f EXCEPT ![n] = NUL, ![0] = NUL]
  PROVE  LineOk(g, 0, 0) /\ Chars(g, 0) = <<>>
<1>1. 0 \in Cells /\ n \in Cells
  BY Sizes DEF LineOk, Cells
<1>2. g[0] = NUL /\ g \in [Cells -> Printable \cup {NUL}]
  BY <1>1 DEF LineOk
<1>3. Chars(g, 0) = <<>>
  BY DEF Chars
<1>4. 0 \in 0 .. (HIST_LEN - 1) /\ 0 \in 0 .. 0 /\ \A i \in 0 .. (0 - 1) : g[i] \in Printable
  BY Sizes
<1>. QED
  BY <1>2, <1>3, <1>4 DEF LineOk

-----------------------------------------------------------------------------
(* The history: the ring read from its oldest entry on is the list of      *)
(* LineEditor.                                                             *)

LEMMA ModBelow ==
  ASSUME NEW x \in Nat, x < 2 * HIST_SIZE
  PROVE  x % HIST_SIZE = IF x < HIST_SIZE THEN x ELSE x - HIST_SIZE
<1>1. CASE x < HIST_SIZE
  BY <1>1, Sizes
<1>2. CASE x >= HIST_SIZE
  <2>1. x - HIST_SIZE \in 0 .. (HIST_SIZE - 1)
    BY <1>2, Sizes
  <2>2. (x - HIST_SIZE) % HIST_SIZE = x - HIST_SIZE
    BY <2>1, Sizes
  <2>3. x % HIST_SIZE = (x - HIST_SIZE) % HIST_SIZE
    BY <1>2, Sizes
  <2>. QED
    BY <1>2, <2>2, <2>3, Sizes
<1>. QED
  BY <1>1, <1>2, Sizes

LEMMA Mod ==
  ASSUME NEW x \in Nat, x < 3 * HIST_SIZE
  PROVE  x % HIST_SIZE = IF x < HIST_SIZE THEN x
                         ELSE IF x < 2 * HIST_SIZE THEN x - HIST_SIZE ELSE x - 2 * HIST_SIZE
<1>1. CASE x < 2 * HIST_SIZE
  BY <1>1, ModBelow
<1>2. CASE x >= 2 * HIST_SIZE
  <2>. DEFINE y == x - HIST_SIZE
  <2>1. y \in Nat /\ y < 2 * HIST_SIZE /\ ~(y < HIST_SIZE) /\ y - HIST_SIZE = x - 2 * HIST_SIZE
    BY <1>2, Sizes
  <2>2. x % HIST_SIZE = y % HIST_SIZE
    BY <1>2, Sizes
  <2>. HIDE DEF y
  <2>3. y % HIST_SIZE = y - HIST_SIZE
    BY <2>1, ModBelow
  <2>. QED
    BY <1>2, <2>1, <2>2, <2>3, Sizes
<1>. QED
  BY <1>1, <1>2, Sizes

RingOk(h, c, n) ==
  h \in [0 .. (HIST_SIZE - 1) -> Strings] /\ c \in 0 .. HIST_SIZE /\ n \in 0 .. (HIST_SIZE - 1)

Slot(c, n, i) == (n - c + i - 1 + HIST_SIZE) % HIST_SIZE
PastOf(h, c, n) == [i \in 1 .. c |-> h[Slot(c, n, i)]]

LEMMA SlotIs ==
  ASSUME NEW c \in 0 .. HIST_SIZE, NEW n \in 0 .. (HIST_SIZE - 1), NEW i \in 1 .. c
  PROVE  /\ Slot(c, n, i) = IF n + i > c THEN n - c + i - 1 ELSE n - c + i - 1 + HIST_SIZE
         /\ Slot(c, n, i) \in 0 .. (HIST_SIZE - 1)
<1>. DEFINE x == n - c + i - 1 + HIST_SIZE
<1>1. /\ x \in Nat /\ x < 2 * HIST_SIZE /\ x < 3 * HIST_SIZE
      /\ x < HIST_SIZE <=> ~(n + i > c)
      /\ x = n - c + i - 1 + HIST_SIZE /\ x - HIST_SIZE = n - c + i - 1
  BY Sizes
<1>2. Slot(c, n, i) = x % HIST_SIZE
  BY DEF Slot
<1>. HIDE DEF x
<1>3. x % HIST_SIZE = IF x < HIST_SIZE THEN x
                      ELSE IF x < 2 * HIST_SIZE THEN x - HIST_SIZE ELSE x - 2 * HIST_SIZE
  BY <1>1, Mod
<1>4. Slot(c, n, i) = IF n + i > c THEN n - c + i - 1 ELSE n - c + i - 1 + HIST_SIZE
  BY <1>1, <1>2, <1>3, Sizes
<1>5. Slot(c, n, i) \in 0 .. (HIST_SIZE - 1)
  BY <1>4, Sizes
<1>. QED
  BY <1>4, <1>5

IsPast(s, h, c, n) ==
  /\ s \in Seq(Strings) /\ Len(s) = c
  /\ \A i \in 1 .. c : s[i] = h[Slot(c, n, i)]

LEMMA PastIs ==
  ASSUME NEW h, NEW c, NEW n, RingOk(h, c, n)
  PROVE  IsPast(PastOf(h, c, n), h, c, n)
<1>1. c \in Nat
  BY Sizes DEF RingOk
<1>2. \A i \in 1 .. c : h[Slot(c, n, i)] \in Strings
  BY SlotIs DEF RingOk
<1>3. PastOf(h, c, n) \in Seq(Strings) /\ Len(PastOf(h, c, n)) = c
  BY <1>1, <1>2 DEF PastOf
<1>4. \A i \in 1 .. c : PastOf(h, c, n)[i] = h[Slot(c, n, i)]
  BY DEF PastOf
<1>. QED
  BY <1>3, <1>4 DEF IsPast

(* hist_get counts back from the newest. *)
LEMMA PastGet ==
  ASSUME NEW h, NEW c, NEW n, RingOk(h, c, n), NEW k \in 1 .. c
  PROVE  /\ h[(n - k + HIST_SIZE * 2) % HIST_SIZE] = PastOf(h, c, n)[c - k + 1]
         /\ h[(n - k + HIST_SIZE * 2) % HIST_SIZE] \in Strings
<1>. DEFINE x == n - k + HIST_SIZE * 2
            i == c - k + 1
<1>1. /\ c \in Nat /\ c <= HIST_SIZE /\ n \in Nat /\ n < HIST_SIZE /\ i \in 1 .. c
      /\ c \in 0 .. HIST_SIZE /\ n \in 0 .. (HIST_SIZE - 1)
  BY Sizes DEF RingOk
<1>2. /\ x \in Nat /\ x < 3 * HIST_SIZE /\ x >= HIST_SIZE
      /\ x < 2 * HIST_SIZE <=> ~(n >= k)
      /\ x - HIST_SIZE = n - k + HIST_SIZE /\ x - 2 * HIST_SIZE = n - k
  BY <1>1, Sizes
<1>3. n - c + i - 1 = n - k /\ (n + i > c <=> n >= k)
  BY <1>1
<1>. HIDE DEF x, i
<1>4. x % HIST_SIZE = IF x < HIST_SIZE THEN x
                      ELSE IF x < 2 * HIST_SIZE THEN x - HIST_SIZE ELSE x - 2 * HIST_SIZE
  BY <1>2, Mod
<1>5. /\ Slot(c, n, i) = IF n + i > c THEN n - c + i - 1 ELSE n - c + i - 1 + HIST_SIZE
      /\ Slot(c, n, i) \in 0 .. (HIST_SIZE - 1)
  BY <1>1, SlotIs
<1>6. x % HIST_SIZE = Slot(c, n, i)
  BY <1>1, <1>2, <1>3, <1>4, <1>5, Sizes
<1>7. IsPast(PastOf(h, c, n), h, c, n)
  BY PastIs
<1>8. PastOf(h, c, n)[i] = h[x % HIST_SIZE]
  BY <1>1, <1>6, <1>7 DEF IsPast
<1>9. h[x % HIST_SIZE] \in Strings
  BY <1>5, <1>6 DEF RingOk
<1>. QED
  BY <1>8, <1>9 DEF x, i

Added(h, c, n, s, h1, c1, n1) ==
  /\ h1 = [h EXCEPT ![n] = s]
  /\ n1 = (n + 1) % HIST_SIZE
  /\ c1 = IF c < HIST_SIZE THEN c + 1 ELSE c

(* hist_add: the list grows until it is full, then loses its oldest.       *)
LEMMA PastAdd ==
  ASSUME NEW h, NEW c, NEW n, RingOk(h, c, n), NEW s \in Strings,
         NEW h1, NEW c1, NEW n1, Added(h, c, n, s, h1, c1, n1)
  PROVE  RingOk(h1, c1, n1) /\ PastOf(h1, c1, n1) = Editor!Newest(Append(PastOf(h, c, n), s))
<1>1. /\ c \in Nat /\ c <= HIST_SIZE /\ n \in Nat /\ n < HIST_SIZE
      /\ c \in 0 .. HIST_SIZE /\ n \in 0 .. (HIST_SIZE - 1)
  BY Sizes DEF RingOk
<1>. USE DEF Added
<1>2. n1 = IF n + 1 = HIST_SIZE THEN 0 ELSE n + 1
  <2>. DEFINE x == n + 1
  <2>1. x \in Nat /\ x < 3 * HIST_SIZE /\ x <= HIST_SIZE /\ n1 = x % HIST_SIZE
    BY <1>1, Sizes
  <2>. HIDE DEF x
  <2>2. x % HIST_SIZE = IF x < HIST_SIZE THEN x
                        ELSE IF x < 2 * HIST_SIZE THEN x - HIST_SIZE ELSE x - 2 * HIST_SIZE
    BY <2>1, Mod
  <2>3. n1 = IF x = HIST_SIZE THEN 0 ELSE x
    BY <2>1, <2>2, Sizes
  <2>. QED
    BY <2>3 DEF x
<1>3. RingOk(h1, c1, n1)
  <2>1. h1 \in [0 .. (HIST_SIZE - 1) -> Strings]
    BY DEF RingOk
  <2>2. c1 \in 0 .. HIST_SIZE /\ n1 \in 0 .. (HIST_SIZE - 1)
    BY <1>1, <1>2, Sizes
  <2>. QED
    BY <2>1, <2>2 DEF RingOk
<1>4. \A j \in 0 .. (HIST_SIZE - 1) : h1[j] = IF j = n THEN s ELSE h[j]
  BY DEF RingOk
<1>. DEFINE p == PastOf(h, c, n)
            q == PastOf(h1, c1, n1)
            a == Append(p, s)
            r == Editor!Newest(a)
            z == c + 1
<1>5. IsPast(p, h, c, n) /\ IsPast(q, h1, c1, n1)
  BY <1>3, PastIs
<1>. HIDE DEF p, q
<1>6. /\ a \in Seq(Strings) /\ Len(a) = z
      /\ \A i \in 1 .. c : a[i] = p[i]
      /\ a[z] = s
  BY <1>1, <1>5 DEF IsPast
<1>7. z \in Nat /\ z = c + 1 /\ z <= HIST_SIZE + 1
  BY <1>1, Sizes
<1>. HIDE DEF a
<1>8. CASE c < HIST_SIZE
  <2>1. c1 = z /\ ~(z > HIST_SIZE)
    BY <1>1, <1>8, Sizes
  <2>2. r = SubSeq(a, 1, z)
    BY <1>6, <2>1 DEF Editor!Newest
  <2>3. /\ r \in Seq(Strings) /\ Len(r) = z
        /\ \A i \in 1 .. z : r[i] = a[1 + i - 1]
    <3>1. 1 \in 1 .. (Len(a) + 1) /\ z \in 0 .. Len(a) /\ z = z - 1 + 1
      BY <1>1, <1>6
    <3>. HIDE DEF z, r
    <3>. QED
      BY <1>6, <1>7, <2>2, <3>1, Cut
  <2>. HIDE DEF z, r
  <2>4. ASSUME NEW i \in 1 .. z
        PROVE  q[i] = r[i]
    <3>1. r[i] = a[i]
      BY <1>7, <2>3
    <3>2. q[i] = h1[Slot(z, n1, i)]
      BY <1>5, <2>1 DEF IsPast
    <3>3. z \in 0 .. HIST_SIZE /\ n1 \in 0 .. (HIST_SIZE - 1)
      BY <1>3, <2>1 DEF RingOk
    <3>4. /\ Slot(z, n1, i) = IF n1 + i > z THEN n1 - z + i - 1 ELSE n1 - z + i - 1 + HIST_SIZE
          /\ Slot(z, n1, i) \in 0 .. (HIST_SIZE - 1)
      BY <3>3, SlotIs
    <3>5. CASE i = z
      <4>1. Slot(z, n1, i) = n
        BY <1>1, <1>2, <1>7, <3>4, <3>5, Sizes
      <4>. QED
        BY <1>1, <1>4, <1>6, <3>1, <3>2, <3>5, <4>1
    <3>6. CASE i \in 1 .. c
      <4>1. /\ Slot(c, n, i) = IF n + i > c THEN n - c + i - 1 ELSE n - c + i - 1 + HIST_SIZE
            /\ Slot(c, n, i) \in 0 .. (HIST_SIZE - 1)
        BY <1>1, <3>6, SlotIs
      <4>2. Slot(z, n1, i) = Slot(c, n, i) /\ Slot(c, n, i) # n
        BY <1>1, <1>2, <1>7, <1>8, <3>4, <3>6, <4>1, Sizes
      <4>3. a[i] = h[Slot(c, n, i)]
        BY <1>5, <1>6, <3>6 DEF IsPast
      <4>. QED
        BY <1>4, <3>1, <3>2, <4>1, <4>2, <4>3
    <3>. QED
      BY <1>1, <1>7, <3>5, <3>6
  <2>5. q = r
    <3>1. q \in Seq(Strings) /\ Len(q) = z
      BY <1>5, <2>1 DEF IsPast
    <3>. QED
      BY <2>3, <2>4, <3>1, SeqsAgree
  <2>. QED
    BY <1>3, <2>5 DEF q, r, a, p
<1>9. CASE c = HIST_SIZE
  <2>1. c1 = c /\ z > HIST_SIZE /\ z - HIST_SIZE + 1 = 2
    BY <1>1, <1>7, <1>9, Sizes
  <2>2. r = SubSeq(a, 2, z)
    BY <1>6, <2>1 DEF Editor!Newest
  <2>3. /\ r \in Seq(Strings) /\ Len(r) = c
        /\ \A i \in 1 .. c : r[i] = a[2 + i - 1]
    <3>1. 2 \in 1 .. (Len(a) + 1) /\ z \in 0 .. Len(a) /\ c = z - 2 + 1
      BY <1>1, <1>6, <1>9, Sizes
    <3>. HIDE DEF z, r
    <3>. QED
      BY <1>1, <1>6, <1>7, <2>2, <3>1, Cut
  <2>. HIDE DEF z, r
  <2>4. ASSUME NEW i \in 1 .. c
        PROVE  q[i] = r[i]
    <3>1. r[i] = a[i + 1]
      <4>1. 2 + i - 1 = i + 1
        BY <1>1
      <4>. QED
        BY <2>3, <4>1
    <3>2. q[i] = h1[Slot(c, n1, i)]
      BY <1>5, <2>1 DEF IsPast
    <3>3. c \in 0 .. HIST_SIZE /\ n1 \in 0 .. (HIST_SIZE - 1)
      BY <1>3, <2>1 DEF RingOk
    <3>4. /\ Slot(c, n1, i) = IF n1 + i > c THEN n1 - c + i - 1 ELSE n1 - c + i - 1 + HIST_SIZE
          /\ Slot(c, n1, i) \in 0 .. (HIST_SIZE - 1)
      BY <3>3, SlotIs
    <3>5. CASE i = c
      <4>1. Slot(c, n1, i) = n
        BY <1>1, <1>2, <1>9, <3>4, <3>5, Sizes
      <4>. QED
        BY <1>1, <1>4, <1>6, <1>7, <3>1, <3>2, <3>5, <4>1
    <3>6. CASE i < c
      <4>. DEFINE j == i + 1
      <4>0. j \in 1 .. c /\ j = i + 1
        BY <1>1, <3>6
      <4>. HIDE DEF j
      <4>1. /\ Slot(c, n, j) = IF n + j > c THEN n - c + j - 1 ELSE n - c + j - 1 + HIST_SIZE
            /\ Slot(c, n, j) \in 0 .. (HIST_SIZE - 1)
        BY <1>1, <4>0, SlotIs
      <4>2. Slot(c, n1, i) = Slot(c, n, j) /\ Slot(c, n, j) # n
        BY <1>1, <1>2, <1>9, <3>4, <3>6, <4>0, <4>1, Sizes
      <4>3. a[j] = h[Slot(c, n, j)]
        BY <1>5, <1>6, <4>0 DEF IsPast
      <4>. QED
        BY <1>4, <3>1, <3>2, <4>0, <4>1, <4>2, <4>3
    <3>. QED
      BY <1>1, <3>5, <3>6
  <2>5. q = r
    <3>1. q \in Seq(Strings) /\ Len(q) = c
      BY <1>5, <2>1 DEF IsPast
    <3>. QED
      BY <2>3, <2>4, <3>1, SeqsAgree
  <2>. QED
    BY <1>3, <2>5 DEF q, r, a, p
<1>. QED
  BY <1>1, <1>8, <1>9, Sizes

-----------------------------------------------------------------------------
(* The shell's keys are those of LineEditor. *)

LEMMA Shown ==
  /\ Line = Chars(cmdbuf, cmdlen) /\ Line' = Chars(cmdbuf', cmdlen')
  /\ Past = PastOf(g_history, g_hist_count, g_hist_next)
  /\ Past' = PastOf(g_history', g_hist_count', g_hist_next')
<1>1. Line = Chars(cmdbuf, cmdlen) /\ Line' = Chars(cmdbuf', cmdlen')
  BY DEF Line, Chars
<1>2. Past = PastOf(g_history, g_hist_count, g_hist_next)
  BY DEF Past, PastOf, Slot
<1>3. Past' = PastOf(g_history', g_hist_count', g_hist_next')
  BY DEF Past, PastOf, Slot
<1>. QED
  BY <1>1, <1>2, <1>3

LEMMA HistorySame ==
  ASSUME HistoryInv, UNCHANGED histVars
  PROVE  /\ Past' = Past /\ Len(Past) = g_hist_count
         /\ RingOk(g_history, g_hist_count, g_hist_next)
         /\ UNCHANGED <<g_pending, g_nav_pos>> => HistoryInv'
<1>1. UNCHANGED <<g_history, g_hist_count, g_hist_next>>
  BY DEF histVars
<1>2. RingOk(g_history, g_hist_count, g_hist_next)
  BY DEF HistoryInv, RingOk
<1>3. IsPast(Past, g_history, g_hist_count, g_hist_next)
  BY <1>2, PastIs, Shown
<1>4. Past' = Past
  BY <1>1, Shown
<1>5. UNCHANGED <<g_pending, g_nav_pos>> => HistoryInv'
  BY <1>1 DEF HistoryInv
<1>. QED
  BY <1>2, <1>3, <1>4, <1>5 DEF IsPast

LEMMA EditStep ==
  ASSUME LineInv, HistoryInv, NEW key, EditKey(key), UNCHANGED mode
  PROVE  LineInv' /\ HistoryInv' /\ Editor!Edit(key)
<1>1. /\ Past' = Past /\ HistoryInv' /\ UNCHANGED <<g_nav_pos, g_pending>>
  BY HistorySame DEF EditKey
<1>2. /\ cmdlen \in Nat /\ cursor_pos \in Nat /\ cursor_pos <= cmdlen
      /\ Len(Line) = cmdlen /\ LineOk(cmdbuf, cmdlen, cursor_pos)
  BY LineIs, Sizes DEF LineInv, LineOk, IsString
<1>3. ASSUME UNCHANGED <<cmdbuf, cmdlen>>, cursor_pos' \in 0 .. cmdlen
      PROVE  LineInv' /\ Line' = Line
  <2>1. LineOk(cmdbuf, cmdlen, cursor_pos')
    BY <1>2, <1>3 DEF LineOk
  <2>2. LineInv'
    BY <1>3, <2>1 DEF LineInv
  <2>. QED
    BY <1>3, <2>2, Shown
<1>4. CASE /\ key = "backspace" /\ cursor_pos > 0 /\ Remove(cursor_pos - 1)
           /\ cursor_pos' = cursor_pos - 1
  <2>. DEFINE k == cursor_pos - 1
  <2>1. k \in 0 .. (cmdlen - 1) /\ k + 1 = cursor_pos /\ cursor_pos' = k
    BY <1>2, <1>4
  <2>2. /\ cmdlen' = cmdlen - 1
        /\ cmdbuf' = [i \in Cells |-> IF i = cmdlen - 1 THEN NUL
                                      ELSE IF k <= i /\ i < cmdlen - 1 THEN cmdbuf[i + 1]
                                      ELSE cmdbuf[i]]
    BY <1>4 DEF Remove
  <2>. HIDE DEF k
  <2>3. /\ LineOk(cmdbuf', cmdlen - 1, k)
        /\ Chars(cmdbuf', cmdlen - 1) = Editor!RemoveAt(Chars(cmdbuf, cmdlen), k + 1)
    BY <1>2, <2>1, <2>2, RemoveOk
  <2>4. LineInv' /\ Line' = Editor!RemoveAt(Line, cursor_pos)
    BY <2>1, <2>2, <2>3, Shown DEF LineInv
  <2>. QED
    BY <1>1, <1>4, <2>4 DEF Editor!Edit
<1>5. CASE key = "delete" /\ cursor_pos < cmdlen /\ Remove(cursor_pos) /\ UNCHANGED cursor_pos
  <2>1. cursor_pos \in 0 .. (cmdlen - 1)
    BY <1>2, <1>5
  <2>2. /\ cmdlen' = cmdlen - 1
        /\ cmdbuf' = [i \in Cells |-> IF i = cmdlen - 1 THEN NUL
                                      ELSE IF cursor_pos <= i /\ i < cmdlen - 1 THEN cmdbuf[i + 1]
                                      ELSE cmdbuf[i]]
    BY <1>5 DEF Remove
  <2>3. /\ LineOk(cmdbuf', cmdlen - 1, cursor_pos)
        /\ Chars(cmdbuf', cmdlen - 1) = Editor!RemoveAt(Chars(cmdbuf, cmdlen), cursor_pos + 1)
    BY <1>2, <2>1, <2>2, RemoveOk
  <2>4. LineInv' /\ Line' = Editor!RemoveAt(Line, cursor_pos + 1)
    BY <1>5, <2>2, <2>3, Shown DEF LineInv
  <2>. QED
    BY <1>1, <1>2, <1>5, <2>4 DEF Editor!Edit
<1>6. CASE /\ key = "left" /\ cursor_pos > 0 /\ cursor_pos' = cursor_pos - 1
           /\ UNCHANGED <<cmdbuf, cmdlen>>
  <2>1. cursor_pos - 1 \in 0 .. cmdlen
    BY <1>2, <1>6
  <2>. QED
    BY <1>1, <1>3, <1>6, <2>1 DEF Editor!Edit
<1>7. CASE /\ key = "right" /\ cursor_pos < cmdlen /\ cursor_pos' = cursor_pos + 1
           /\ UNCHANGED <<cmdbuf, cmdlen>>
  <2>1. cursor_pos + 1 \in 0 .. cmdlen
    BY <1>2, <1>7
  <2>. QED
    BY <1>1, <1>2, <1>3, <1>7, <2>1 DEF Editor!Edit
<1>8. CASE key = "home" /\ cursor_pos' = 0 /\ UNCHANGED <<cmdbuf, cmdlen>>
  <2>1. 0 \in 0 .. cmdlen
    BY <1>2
  <2>. QED
    BY <1>1, <1>3, <1>8, <2>1 DEF Editor!Edit
<1>9. CASE key = "end" /\ cursor_pos' = cmdlen /\ UNCHANGED <<cmdbuf, cmdlen>>
  <2>1. cmdlen \in 0 .. cmdlen
    BY <1>2
  <2>. QED
    BY <1>1, <1>2, <1>3, <1>9, <2>1 DEF Editor!Edit
<1>10. CASE key \in Printable /\ cmdlen < HIST_LEN - 1 /\ Insert(key)
  <2>1. /\ cmdlen' = cmdlen + 1 /\ cursor_pos' = cursor_pos + 1
        /\ cmdbuf' = [i \in Cells |-> IF i = cmdlen + 1 THEN NUL
                                      ELSE IF i = cursor_pos THEN key
                                      ELSE IF cursor_pos < i /\ i <= cmdlen THEN cmdbuf[i - 1]
                                      ELSE cmdbuf[i]]
    BY <1>10 DEF Insert
  <2>2. /\ LineOk(cmdbuf', cmdlen + 1, cursor_pos + 1)
        /\ Chars(cmdbuf', cmdlen + 1) = Editor!InsertAt(Chars(cmdbuf, cmdlen), cursor_pos + 1, key)
    BY <1>2, <1>10, <2>1, InsertOk
  <2>3. LineInv' /\ Line' = Editor!InsertAt(Line, cursor_pos + 1, key)
    BY <2>1, <2>2, Shown DEF LineInv
  <2>. QED
    BY <1>1, <1>2, <1>10, <2>1, <2>3 DEF Editor!Edit
<1>. QED
  BY <1>4, <1>5, <1>6, <1>7, <1>8, <1>9, <1>10 DEF EditKey

LEMMA SetLineShows ==
  ASSUME NEW s \in Strings, SetLine(s)
  PROVE  LineInv' /\ Line' = s /\ cursor_pos' = Len(s)
<1>1. /\ cmdbuf' = [i \in Cells |-> IF i < Len(s) THEN s[i + 1] ELSE NUL]
      /\ cmdlen' = Len(s) /\ cursor_pos' = Len(s)
  BY DEF SetLine
<1>2. LineOk(cmdbuf', Len(s), Len(s)) /\ Chars(cmdbuf', Len(s)) = s
  BY <1>1, SetOk
<1>. QED
  BY <1>1, <1>2, Shown DEF LineInv

LEMMA GetIs ==
  ASSUME HistoryInv, NEW k \in 1 .. g_hist_count
  PROVE  hist_get(k) = Past[g_hist_count - k + 1] /\ hist_get(k) \in Strings
<1>1. RingOk(g_history, g_hist_count, g_hist_next)
  BY DEF HistoryInv, RingOk
<1>2. Past = PastOf(g_history, g_hist_count, g_hist_next)
  BY Shown
<1>3. hist_get(k) = g_history[(g_hist_next - k + HIST_SIZE * 2) % HIST_SIZE]
  BY DEF hist_get
<1>. QED
  BY <1>1, <1>2, <1>3, PastGet

LEMMA UpStep ==
  ASSUME LineInv, HistoryInv, Up, UNCHANGED mode
  PROVE  LineInv' /\ HistoryInv' /\ Editor!Recall("up")
<1>1. Past' = Past /\ Len(Past) = g_hist_count /\ UNCHANGED <<g_history, g_hist_count, g_hist_next>>
  BY HistorySame DEF Up, histVars
<1>2. g_pending' = (IF g_nav_pos = 0 THEN Line ELSE g_pending) /\ g_pending' \in Strings
  <2>1. Text = Line /\ Line \in Strings
    BY TextIsLine, LineIs DEF IsString
  <2>2. g_pending' = IF g_nav_pos = 0 THEN Text ELSE g_pending
    BY DEF Up
  <2>. QED
    BY <2>1, <2>2 DEF HistoryInv
<1>3. g_hist_count \in Nat /\ g_nav_pos \in Nat /\ g_nav_pos <= g_hist_count
  BY Sizes DEF HistoryInv
<1>4. CASE g_nav_pos < g_hist_count
  <2>. DEFINE k == g_nav_pos + 1
  <2>1. k \in 1 .. g_hist_count /\ g_hist_count - k + 1 = g_hist_count - g_nav_pos
    BY <1>3, <1>4
  <2>2. g_nav_pos' = k /\ SetLine(hist_get(k))
    BY <1>4 DEF Up
  <2>. HIDE DEF k
  <2>3. hist_get(k) = Past[g_hist_count - g_nav_pos] /\ hist_get(k) \in Strings
    BY <2>1, GetIs
  <2>. DEFINE s == hist_get(k)
  <2>4. s \in Strings /\ s = Past[g_hist_count - g_nav_pos] /\ SetLine(s)
    BY <2>2, <2>3
  <2>. HIDE DEF s
  <2>5. LineInv' /\ Line' = s /\ cursor_pos' = Len(s)
    BY <2>4, SetLineShows
  <2>6. g_nav_pos' \in 0 .. g_hist_count
    BY <1>3, <2>1, <2>2
  <2>7. HistoryInv'
    BY <1>1, <1>2, <2>6 DEF HistoryInv
  <2>8. g_nav_pos' = g_nav_pos + 1
    BY <2>2 DEF k
  <2>. QED
    BY <1>1, <1>2, <1>4, <2>4, <2>5, <2>7, <2>8 DEF Editor!Recall, Editor!Show
<1>5. CASE ~(g_nav_pos < g_hist_count)
  <2>1. UNCHANGED <<g_nav_pos, cmdbuf, cmdlen, cursor_pos>>
    BY <1>5 DEF Up, lineVars
  <2>2. LineInv' /\ Line' = Line
    BY <2>1, Shown DEF LineInv
  <2>3. HistoryInv'
    BY <1>1, <1>2, <2>1 DEF HistoryInv
  <2>. QED
    BY <1>1, <1>2, <1>5, <2>1, <2>2, <2>3 DEF Editor!Recall
<1>. QED
  BY <1>4, <1>5

LEMMA DownStep ==
  ASSUME LineInv, HistoryInv, Down, UNCHANGED mode
  PROVE  LineInv' /\ HistoryInv' /\ Editor!Recall("down")
<1>1. /\ Past' = Past /\ Len(Past) = g_hist_count /\ UNCHANGED <<g_history, g_hist_count, g_hist_next>>
      /\ UNCHANGED g_pending
  BY HistorySame DEF Down, histVars
<1>2. /\ g_hist_count \in Nat /\ g_nav_pos \in Nat /\ g_nav_pos <= g_hist_count /\ g_nav_pos > 0
      /\ g_nav_pos' = g_nav_pos - 1
  BY Sizes DEF HistoryInv, Down
<1>. DEFINE s == IF g_nav_pos > 1 THEN hist_get(g_nav_pos - 1) ELSE g_pending
<1>3. SetLine(s)
  BY DEF Down
<1>4. s \in Strings
      /\ s = IF g_nav_pos = 1 THEN g_pending ELSE Past[g_hist_count - g_nav_pos + 2]
  <2>1. CASE g_nav_pos = 1
    BY <1>2, <2>1 DEF HistoryInv
  <2>2. CASE g_nav_pos > 1
    <3>. DEFINE k == g_nav_pos - 1
    <3>1. k \in 1 .. g_hist_count /\ g_hist_count - k + 1 = g_hist_count - g_nav_pos + 2
      BY <1>2, <2>2
    <3>2. s = hist_get(k)
      BY <2>2
    <3>. HIDE DEF k
    <3>3. hist_get(k) = Past[g_hist_count - g_nav_pos + 2] /\ hist_get(k) \in Strings
      BY <3>1, GetIs
    <3>. QED
      BY <1>2, <2>2, <3>2, <3>3
  <2>. QED
    BY <1>2, <2>1, <2>2
<1>. HIDE DEF s
<1>5. LineInv' /\ Line' = s /\ cursor_pos' = Len(s)
  BY <1>3, <1>4, SetLineShows
<1>6. g_nav_pos' \in 0 .. g_hist_count
  BY <1>2
<1>7. HistoryInv'
  BY <1>1, <1>6 DEF HistoryInv
<1>. QED
  BY <1>1, <1>2, <1>4, <1>5, <1>7 DEF Editor!Recall, Editor!Show

LEMMA TerminalSame ==
  ASSUME UNCHANGED terminalVars
  PROVE  /\ LineInv => LineInv' /\ Line' = Line
         /\ HistoryInv => HistoryInv' /\ Past' = Past
         /\ UNCHANGED <<g_nav_pos, g_pending, cursor_pos>>
<1>1. /\ UNCHANGED <<g_nav_pos, g_pending, cursor_pos, cmdbuf, cmdlen>>
      /\ UNCHANGED <<g_history, g_hist_count, g_hist_next>>
  BY DEF terminalVars, lineVars, histVars
<1>. QED
  BY <1>1, Shown DEF LineInv, HistoryInv

LEMMA DeadStep ==
  ASSUME LineInv, HistoryInv, NEW key, DeadKey(key), key # "", UNCHANGED mode
  PROVE  LineInv' /\ HistoryInv' /\ Editor!Ignore(key)
<1>1. /\ LineInv' /\ Line' = Line /\ HistoryInv' /\ Past' = Past
      /\ UNCHANGED <<g_nav_pos, g_pending, cursor_pos>>
  BY TerminalSame DEF DeadKey
<1>2. Len(Line) = cmdlen
  BY LineIs DEF IsString
<1>3. \/ key \in {"backspace", "left"} /\ cursor_pos = 0
      \/ key \in {"delete", "right"} /\ cursor_pos = cmdlen
      \/ key = "down" /\ g_nav_pos = 0
      \/ key \in Printable /\ cmdlen = HIST_LEN - 1
      \/ key = "escape"
  BY DEF DeadKey
<1>. QED
  BY <1>1, <1>2, <1>3 DEF Editor!Ignore

LEMMA LineKeyStep ==
  ASSUME LineInv, HistoryInv, NEW key, LineKey(key), UNCHANGED mode
  PROVE  /\ LineInv' /\ HistoryInv'
         /\ key = "" => UNCHANGED terminalVars
         /\ key # "" => Editor!Edit(key) \/ Editor!Recall(key) \/ Editor!Ignore(key)
<1>1. key = "" => DeadKey(key)
  BY CharactersAssumption DEF LineKey, EditKey
<1>2. CASE key = ""
  <2>1. UNCHANGED terminalVars
    BY <1>1, <1>2 DEF DeadKey
  <2>. QED
    BY <1>2, <2>1, TerminalSame
<1>3. CASE key # ""
  <2>1. CASE EditKey(key)
    BY <1>3, <2>1, EditStep
  <2>2. CASE key = "up" /\ Up
    BY <1>3, <2>2, UpStep
  <2>3. CASE key = "down" /\ Down
    BY <1>3, <2>3, DownStep
  <2>4. CASE DeadKey(key)
    BY <1>3, <2>4, DeadStep
  <2>. QED
    BY <2>1, <2>2, <2>3, <2>4 DEF LineKey
<1>. QED
  BY <1>2, <1>3

LEMMA EnterStep ==
  ASSUME LineInv, HistoryInv, Enter, mode = "shell",
         mode' \in IF cmdlen > 0 THEN {"shell", "starting"} ELSE {"shell"}
  PROVE  LineInv' /\ HistoryInv' /\ Editor!Enter("enter")
<1>1. /\ g_nav_pos' = 0 /\ cmdlen' = 0 /\ cursor_pos' = 0 /\ UNCHANGED g_pending
      /\ cmdbuf' = [cmdbuf EXCEPT ![cmdlen] = NUL, ![0] = NUL]
  BY DEF Enter
<1>2. LineInv' /\ Line' = <<>>
  <2>1. LineOk(cmdbuf', 0, 0) /\ Chars(cmdbuf', 0) = <<>>
    BY <1>1, ClearOk DEF LineInv
  <2>. QED
    BY <1>1, <2>1, Shown DEF LineInv
<1>3. Text = Line /\ Line \in Strings /\ Len(Line) = cmdlen /\ Line \in Seq(Printable) /\ cmdlen \in Nat
  BY TextIsLine, LineIs, Sizes DEF IsString, LineInv, LineOk
<1>4. cmdlen > 0 <=> Line # <<>>
  BY <1>3
<1>5. RingOk(g_history, g_hist_count, g_hist_next)
  BY DEF HistoryInv, RingOk
<1>6. /\ RingOk(g_history', g_hist_count', g_hist_next')
      /\ Past' = IF Line = <<>> THEN Past ELSE Editor!Newest(Append(Past, Line))
  <2>1. CASE cmdlen > 0
    <3>1. Added(g_history, g_hist_count, g_hist_next, Line, g_history', g_hist_count', g_hist_next')
      BY <1>3, <2>1 DEF Enter, hist_add, Added
    <3>2. /\ RingOk(g_history', g_hist_count', g_hist_next')
          /\ PastOf(g_history', g_hist_count', g_hist_next')
             = Editor!Newest(Append(PastOf(g_history, g_hist_count, g_hist_next), Line))
      BY <1>3, <1>5, <3>1, PastAdd
    <3>. QED
      BY <1>4, <2>1, <3>2, Shown
  <2>2. CASE ~(cmdlen > 0)
    <3>1. UNCHANGED <<g_history, g_hist_count, g_hist_next>>
      BY <2>2 DEF Enter, histVars
    <3>. QED
      BY <1>4, <1>5, <2>2, <3>1, Shown
  <2>. QED
    BY <2>1, <2>2
<1>7. HistoryInv'
  <2>1. g_hist_count' \in Nat
    BY <1>6, Sizes DEF RingOk
  <2>. QED
    BY <1>1, <1>6, <2>1 DEF HistoryInv, RingOk
<1>8. (mode' # "shell") \in IF Line = <<>> THEN {FALSE} ELSE BOOLEAN
  <2>1. CASE Line = <<>>
    <3>1. mode' = "shell"
      BY <1>4, <2>1
    <3>2. (mode' # "shell") = FALSE
      BY <3>1
    <3>. QED
      BY <2>1, <3>2
  <2>2. CASE Line # <<>>
    BY <2>2
  <2>. QED
    BY <2>1, <2>2
<1>. QED
  BY <1>1, <1>2, <1>6, <1>7, <1>8 DEF Editor!Enter

-----------------------------------------------------------------------------
(* Every step of the console is a step of LineEditor, or changes nothing   *)
(* it can see.                                                             *)

Same == Line' = Line /\ Past' = Past /\ UNCHANGED <<g_nav_pos, g_pending, cursor_pos>>

LEMMA Stutter ==
  ASSUME Same, typed' = typed, swallowed' = swallowed, (mode' # "shell") <=> (mode # "shell")
  PROVE  UNCHANGED Editor!state
<1>1. (mode' # "shell") = (mode # "shell")
  OBVIOUS
<1>. QED
  BY <1>1 DEF Same, Editor!state

LEMMA TerminalKept ==
  ASSUME LineInv, HistoryInv, UNCHANGED terminalVars
  PROVE  LineInv' /\ HistoryInv' /\ Same
BY TerminalSame DEF Same

LEMMA LostStep ==
  ASSUME swallowed = TRUE, swallowed' = TRUE
  PROVE  Editor!Next
BY DEF Editor!Next, Editor!AfterLoss

LEMMA KeyStep ==
  ASSUME NEW key, typed # <<>>, Head(typed) = key, typed' = Tail(typed), swallowed' = swallowed,
         \/ mode = "shell" /\ (Editor!Edit(key) \/ Editor!Recall(key) \/ Editor!Enter(key) \/ Editor!Ignore(key))
         \/ mode # "shell" /\ ((mode' # "shell") <=> key # "escape") /\ Same
  PROVE  Editor!Next
<1>1. CASE mode = "shell" /\ (Editor!Edit(key) \/ Editor!Recall(key) \/ Editor!Enter(key) \/ Editor!Ignore(key))
  BY <1>1 DEF Editor!Next, Editor!Key
<1>2. CASE mode # "shell" /\ ((mode' # "shell") <=> key # "escape") /\ Same
  <2>1. (mode' # "shell") = (key # "escape")
    BY <1>2
  <2>. QED
    BY <1>2, <2>1 DEF Editor!Next, Editor!Key, Same
<1>. QED
  BY <1>1, <1>2

LEMMA PollSwallows ==
  ASSUME NEW key, keyboard_poll(key)
  PROVE  swallowed' = swallowed
BY DEF keyboard_poll

LEMMA TerminalRunStep ==
  ASSUME EditInv, BytesTyped, terminal_run
  PROVE  EditInv' /\ (Editor!Next \/ UNCHANGED Editor!state)
<1>1. PICK key \in Keys \cup {""} :
        /\ keyboard_poll(key)
        /\ \/ key # "enter" /\ LineKey(key) /\ UNCHANGED mode
           \/ /\ key = "enter" /\ Enter
              /\ mode' \in IF cmdlen > 0 THEN {"shell", "starting"} ELSE {"shell"}
  BY DEF terminal_run
<1>2. mode = "shell" /\ KeysInv /\ LineInv /\ HistoryInv
  BY DEF terminal_run, EditInv
<1>3. /\ KeysInv' /\ (key = "" => typed' = typed)
      /\ ~swallowed /\ key # "" => typed # <<>> /\ Head(typed) = key /\ typed' = Tail(typed)
  BY <1>1, <1>2, KeysPoll
<1>4. swallowed' = swallowed /\ swallowed \in BOOLEAN
  BY <1>1, PollSwallows DEF BytesTyped
<1>5. CASE key # "enter" /\ LineKey(key) /\ UNCHANGED mode
  <2>1. /\ LineInv' /\ HistoryInv' /\ (key = "" => UNCHANGED terminalVars)
        /\ key # "" => Editor!Edit(key) \/ Editor!Recall(key) \/ Editor!Ignore(key)
    BY <1>2, <1>5, LineKeyStep
  <2>2. EditInv'
    BY <1>2, <1>3, <1>5, <2>1 DEF EditInv
  <2>3. CASE key = ""
    <3>1. Same
      BY <1>2, <2>1, <2>3, TerminalKept
    <3>2. UNCHANGED Editor!state
      BY <1>3, <1>4, <1>5, <2>3, <3>1, Stutter
    <3>. QED
      BY <2>2, <3>2
  <2>4. CASE key # "" /\ ~swallowed
    <3>1. Editor!Next
      BY <1>2, <1>3, <1>4, <2>1, <2>4, KeyStep
    <3>. QED
      BY <2>2, <3>1
  <2>5. CASE swallowed
    BY <1>4, <2>2, <2>5, LostStep
  <2>. QED
    BY <2>3, <2>4, <2>5
<1>6. CASE /\ key = "enter" /\ Enter
           /\ mode' \in IF cmdlen > 0 THEN {"shell", "starting"} ELSE {"shell"}
  <2>1. LineInv' /\ HistoryInv' /\ Editor!Enter("enter")
    BY <1>2, <1>6, EnterStep
  <2>2. EditInv'
    <3>1. mode' \in {"shell", "starting", "desktop"}
      BY <1>6
    <3>. QED
      BY <1>3, <2>1, <3>1 DEF EditInv
  <2>3. CASE swallowed
    BY <1>4, <2>2, <2>3, LostStep
  <2>4. CASE ~swallowed
    <3>1. typed # <<>> /\ Head(typed) = "enter" /\ typed' = Tail(typed)
      BY <1>3, <1>6, <2>4
    <3>2. Editor!Next
      BY <1>2, <1>4, <2>1, <3>1, KeyStep
    <3>. QED
      BY <2>2, <3>2
  <2>. QED
    BY <2>3, <2>4
<1>. QED
  BY <1>1, <1>5, <1>6

LEMMA StartDesktopStep ==
  ASSUME EditInv, BytesTyped, StartDesktop
  PROVE  EditInv' /\ (Editor!Next \/ UNCHANGED Editor!state)
<1>1. PICK ok \in BOOLEAN : mouse_init(ok)
  BY DEF StartDesktop
<1>2. mode = "starting" /\ mode' = "desktop" /\ UNCHANGED terminalVars
  BY DEF StartDesktop
<1>3. KeysInv' /\ (swallowed' = TRUE \/ (swallowed' = swallowed /\ typed' = typed))
  BY <1>1, KeysMouseInit DEF EditInv
<1>4. LineInv' /\ HistoryInv' /\ Same
  BY <1>2, TerminalKept DEF EditInv
<1>5. EditInv'
  BY <1>2, <1>3, <1>4 DEF EditInv
<1>6. CASE swallowed' = TRUE
  BY <1>2, <1>5, <1>6 DEF Editor!Next, Editor!Lose
<1>7. CASE swallowed' = swallowed /\ typed' = typed
  <2>1. UNCHANGED Editor!state
    BY <1>2, <1>4, <1>7, Stutter
  <2>. QED
    BY <1>5, <2>1
<1>. QED
  BY <1>3, <1>6, <1>7

LEMMA DesktopPollsStep ==
  ASSUME EditInv, BytesTyped, DesktopPolls
  PROVE  EditInv' /\ (Editor!Next \/ UNCHANGED Editor!state)
<1>1. mode = "desktop" /\ UNCHANGED terminalVars
  BY DEF DesktopPolls
<1>2. LineInv' /\ HistoryInv' /\ Same
  BY <1>1, TerminalKept DEF EditInv
<1>3. CASE mouse_poll /\ UNCHANGED mode
  <2>1. KeysInv' /\ typed' = typed
    BY <1>3, KeysMouse DEF EditInv
  <2>2. EditInv'
    BY <1>2, <1>3, <2>1 DEF EditInv
  <2>3. swallowed' = swallowed
    BY <1>3 DEF mouse_poll
  <2>4. UNCHANGED Editor!state
    BY <1>2, <1>3, <2>1, <2>3, Stutter
  <2>. QED
    BY <2>2, <2>4
<1>4. ASSUME NEW key \in Keys \cup {""}, keyboard_poll(key),
             mode' = IF key = "escape" THEN "shell" ELSE "desktop"
      PROVE  EditInv' /\ (Editor!Next \/ UNCHANGED Editor!state)
  <2>1. /\ KeysInv' /\ (key = "" => typed' = typed)
        /\ ~swallowed /\ key # "" => typed # <<>> /\ Head(typed) = key /\ typed' = Tail(typed)
    BY <1>4, KeysPoll DEF EditInv
  <2>2. swallowed' = swallowed /\ swallowed \in BOOLEAN
    BY <1>4, PollSwallows DEF BytesTyped
  <2>3. EditInv'
    <3>1. mode' \in {"shell", "starting", "desktop"}
      BY <1>4
    <3>. QED
      BY <1>2, <2>1, <3>1 DEF EditInv
  <2>4. (mode' # "shell") <=> key # "escape"
    BY <1>4
  <2>5. CASE key = ""
    <3>1. (mode' # "shell") <=> (mode # "shell")
      BY <1>1, <2>4, <2>5
    <3>2. UNCHANGED Editor!state
      BY <1>2, <2>1, <2>2, <2>5, <3>1, Stutter
    <3>. QED
      BY <2>3, <3>2
  <2>6. CASE key # "" /\ ~swallowed
    <3>1. mode # "shell"
      BY <1>1
    <3>2. Editor!Next
      BY <1>2, <2>1, <2>2, <2>4, <2>6, <3>1, KeyStep
    <3>. QED
      BY <2>3, <3>2
  <2>7. CASE swallowed
    BY <2>2, <2>3, <2>7, LostStep
  <2>. QED
    BY <2>5, <2>6, <2>7
<1>. QED
  BY <1>3, <1>4 DEF DesktopPolls

LEMMA DevicesStep ==
  ASSUME EditInv, BytesTyped, Devices
  PROVE  EditInv' /\ (Editor!Next \/ UNCHANGED Editor!state)
<1>1. UNCHANGED terminalVars /\ mode' = mode /\ LineInv' /\ HistoryInv' /\ Same
  BY TerminalKept DEF Devices, EditInv
<1>2. ASSUME KeysInv', typed' = typed, swallowed' = swallowed
      PROVE  EditInv' /\ (Editor!Next \/ UNCHANGED Editor!state)
  <2>1. EditInv'
    BY <1>1, <1>2 DEF EditInv
  <2>2. UNCHANGED Editor!state
    BY <1>1, <1>2, Stutter
  <2>. QED
    BY <2>1, <2>2
<1>3. CASE \E c \in Letters \cup ExtendedCodes \cup PlainCodes : PressKey(c)
  <2>1. PICK c \in Letters \cup ExtendedCodes \cup PlainCodes : PressKey(c)
    BY <1>3
  <2>. DEFINE k == IF c \in Letters /\ held # {} THEN Upper[c] ELSE c
  <2>2. KeysInv' /\ typed' = Append(typed, k)
    BY <2>1, KeysPress DEF EditInv
  <2>3. swallowed' = swallowed
    BY <2>1 DEF PressKey
  <2>4. k \in Printable \cup {"enter", "backspace", "delete", "left", "right", "home",
                              "end", "up", "down", "escape"}
    BY CharactersAssumption, Ps2Assumption
  <2>5. EditInv'
    BY <1>1, <2>2 DEF EditInv
  <2>. HIDE DEF k
  <2>6. Editor!Press(k)
    BY <1>1, <2>2, <2>3 DEF Editor!Press, Same
  <2>7. Editor!Next
    BY <2>4, <2>6 DEF Editor!Next
  <2>. QED
    BY <2>5, <2>7
<1>4. CASE \E prefix \in {"", "E0", "E1"} : ReleaseKey(prefix)
  <2>1. PICK prefix \in {"", "E0", "E1"} : ReleaseKey(prefix)
    BY <1>4
  <2>2. KeysInv' /\ typed' = typed /\ swallowed' = swallowed
    BY <2>1, KeysRelease DEF EditInv, ReleaseKey
  <2>. QED
    BY <1>2, <2>2
<1>5. CASE \E c \in Shifts : MoveShift(c)
  <2>1. PICK c \in Shifts : MoveShift(c)
    BY <1>5
  <2>2. KeysInv' /\ typed' = typed
    BY <2>1, KeysShift DEF EditInv
  <2>3. swallowed' = swallowed
    BY <2>1 DEF MoveShift
  <2>. QED
    BY <1>2, <2>2, <2>3
<1>6. CASE (\E b \in AuxBits : MoveMouse(b)) \/ SendAuxByte
  <2>1. KeysInv' /\ typed' = typed
    BY <1>6, KeysMouse DEF EditInv
  <2>2. swallowed' = swallowed
    BY <1>6 DEF MoveMouse, SendAuxByte
  <2>. QED
    BY <1>2, <2>1, <2>2
<1>7. CASE SendKeyByte
  <2>1. KeysInv'
    BY <1>7, KeysSend DEF EditInv
  <2>2. typed' = typed /\ swallowed' = swallowed
    BY <1>7 DEF SendKeyByte
  <2>. QED
    BY <1>2, <2>1, <2>2
<1>. QED
  BY <1>3, <1>4, <1>5, <1>6, <1>7 DEF Devices

LEMMA ConsoleStep ==
  ASSUME EditInv, ConsolePacketInv, [Next]_vars
  PROVE  EditInv' /\ [Editor!Next]_(Editor!state)
<1>1. BytesTyped
  BY DEF ConsolePacketInv
<1>2. CASE terminal_run
  BY <1>1, <1>2, TerminalRunStep
<1>3. CASE StartDesktop
  BY <1>1, <1>3, StartDesktopStep
<1>4. CASE DesktopPolls
  BY <1>1, <1>4, DesktopPollsStep
<1>5. CASE Devices
  BY <1>1, <1>5, DevicesStep
<1>6. CASE UNCHANGED vars
  <2>1. /\ UNCHANGED <<port, kbd_out, held, keyboardVars, typed, swallowed>>
        /\ UNCHANGED terminalVars /\ mode' = mode
    BY <1>6 DEF vars, ps2Vars, deviceVars
  <2>2. KeysInv'
    BY <2>1, KeysSame DEF EditInv
  <2>3. LineInv' /\ HistoryInv' /\ Same
    BY <2>1, TerminalKept DEF EditInv
  <2>4. EditInv'
    BY <2>1, <2>2, <2>3 DEF EditInv
  <2>5. UNCHANGED Editor!state
    BY <2>1, <2>3, Stutter
  <2>. QED
    BY <2>4, <2>5
<1>. QED
  BY <1>2, <1>3, <1>4, <1>5, <1>6 DEF Next, Reader, NothingComes

LEMMA ConsoleStarts ==
  ASSUME Init
  PROVE  EditInv /\ Editor!Init
<1>1. /\ port = NoByte /\ kbd_out = <<>> /\ held = {} /\ typed = <<>> /\ swallowed = FALSE
      /\ g_shift_left = FALSE /\ g_shift_right = FALSE /\ g_extended = FALSE
  BY DEF Init, Ps2Init
<1>2. KeysInv
  <2>1. Len(kbd_out) = 0 /\ port \notin KbdByte
    BY <1>1, ByteKinds
  <2>2. Reading = {}
    BY <1>1 DEF Reading
  <2>3. Key1 = NoKey /\ Key2 = NoKey /\ Key3 = NoKey /\ After3 = {}
    BY <2>1, <2>2 DEF Key1, Key2, Key3, After1, After2, After3
  <2>4. Three(NoKey, NoKey, NoKey) = <<>>
    BY ThreeIs
  <2>5. typed = Three(Key1, Key2, Key3) /\ After3 = held
    BY <1>1, <2>3, <2>4
  <2>6. /\ g_shift_left \in BOOLEAN /\ g_shift_right \in BOOLEAN /\ g_extended \in BOOLEAN
        /\ held \subseteq Shifts
    BY <1>1
  <2>7. Len(kbd_out) <= 2
    BY <2>1
  <2>. QED
    BY <2>5, <2>6, <2>7 DEF KeysInv
<1>3. LineInv /\ Line = <<>>
  <2>1. cmdbuf = [i \in Cells |-> NUL] /\ cmdlen = 0 /\ cursor_pos = 0
    BY DEF Init, TerminalInit
  <2>2. LineOk(cmdbuf, 0, 0)
    <3>1. 0 \in Cells /\ 0 \in 0 .. (HIST_LEN - 1) /\ 0 \in 0 .. 0
      BY Sizes DEF Cells
    <3>. QED
      BY <2>1, <3>1 DEF LineOk
  <2>. QED
    BY <2>1, <2>2 DEF LineInv, Line
<1>4. HistoryInv /\ Past = <<>>
  <2>1. /\ g_history = [i \in 0 .. (HIST_SIZE - 1) |-> <<>>]
        /\ g_hist_count = 0 /\ g_hist_next = 0 /\ g_pending = <<>> /\ g_nav_pos = 0
    BY DEF Init, TerminalInit
  <2>2. <<>> \in Strings
    BY Sizes DEF Strings
  <2>3. HistoryInv
    BY <2>1, <2>2, Sizes DEF HistoryInv
  <2>. QED
    BY <2>1, <2>3 DEF Past
<1>5. mode = "shell"
  BY DEF Init
<1>6. EditInv
  BY <1>2, <1>3, <1>4, <1>5 DEF EditInv
<1>7. (mode # "shell") = FALSE
  BY <1>5
<1>8. cursor_pos = 0 /\ g_nav_pos = 0 /\ g_pending = <<>>
  BY DEF Init, TerminalInit
<1>9. Editor!Init
  BY <1>1, <1>3, <1>4, <1>7, <1>8 DEF Editor!Init
<1>. QED
  BY <1>6, <1>9

(* The shell, the drivers and the shared port together implement           *)
(* LineEditor, whatever alphabet and however long the line and the history *)
(* may be: cmdbuf is the line, the ring is the list of the newest          *)
(* commands, and each key acts once and in the order it was pressed, until *)
(* the desktop is started while bytes are on their way.                    *)
THEOREM KeysInOrder == Spec => EditsInOrder
<1>1. Init => EditInv /\ Editor!Init
  BY ConsoleStarts
<1>2. EditInv /\ ConsolePacketInv /\ [Next]_vars => EditInv' /\ [Editor!Next]_(Editor!state)
  BY ConsoleStep
<1>3. Spec => []ConsolePacketInv
  BY PacketInvHolds
<1>. QED
  BY <1>1, <1>2, <1>3, PTL DEF Spec, EditsInOrder, Editor!Spec
=============================================================================
