----------------------------- MODULE KernelLog -----------------------------
(***************************************************************************)
(* The kernel log of src/kernel/klog.c, a ring of bytes, and the dmesg     *)
(* command that prints it.  A byte of the log is modelled by the number of *)
(* its line and its place in the line; a text by its length.               *)
(***************************************************************************)
EXTENDS Integers, Sequences, FiniteSets

CONSTANTS
  KLOG_RING_CAPACITY,
  DMESG_PRINT_BUFFER,
  LINE_OVERHEAD,      \* the bytes klog_log writes besides number, subsystem, text
  LINE_BUFFER,        \* klog_log_u32's line[]
  TextLengths,        \* lengths of subsystem names and messages
  MAX_LINE_BYTES,     \* no line is longer
  MAX_LINES           \* fewer than 2^32 lines are logged: their number does not wrap

ASSUME KernelLogAssumption ==
  /\ {KLOG_RING_CAPACITY, DMESG_PRINT_BUFFER, LINE_OVERHEAD, LINE_BUFFER,
      MAX_LINE_BYTES} \subseteq Nat \ {0}
  /\ DMESG_PRINT_BUFFER > 1
  /\ TextLengths \subseteq Nat
  /\ \A s, m \in TextLengths \cup {4, LINE_BUFFER} :
       LINE_OVERHEAD + 10 + s + m <= MAX_LINE_BYTES
  /\ MAX_LINES \in Nat

VARIABLES
  g_klog_ring, g_klog_head, g_klog_size, g_klog_lines,
  dump, truncated     \* what dmesg printed last, and whether it said so

ringVars == <<g_klog_ring, g_klog_head, g_klog_size>>
vars == <<ringVars, g_klog_lines, dump, truncated>>

Zero == <<0, 0>>
Ring == [ring |-> g_klog_ring, head |-> g_klog_head, size |-> g_klog_size]

klog_init ==
  /\ g_klog_ring = [i \in 0 .. (KLOG_RING_CAPACITY - 1) |-> Zero]
  /\ g_klog_head = 0 /\ g_klog_size = 0 /\ g_klog_lines = 0
  /\ dump = <<>> /\ truncated = FALSE

(* Mutant: the size goes on counting when the ring is full. *)
PutcOvercount(r, c) ==
  [ring |-> [r.ring EXCEPT ![r.head] = c],
   head |-> (r.head + 1) % KLOG_RING_CAPACITY,
   size |-> IF r.size <= KLOG_RING_CAPACITY THEN r.size + 1 ELSE r.size]

klog_ring_putc(r, c) ==
  [ring |-> [r.ring EXCEPT ![r.head] = c],
   head |-> (r.head + 1) % KLOG_RING_CAPACITY,
   size |-> IF r.size < KLOG_RING_CAPACITY THEN r.size + 1 ELSE r.size]

(* The decimal digits of a line's number (utoa). *)
Digits(n) == 1 + Cardinality({d \in 1 .. 9 : n >= 10 ^ d})

(* The ring with n bytes of a new line put into it. *)
PutLine(n) ==
  LET r[k \in 0 .. n] ==
        IF k = 0 THEN Ring ELSE klog_ring_putc(r[k - 1], <<g_klog_lines + 1, k>>)
  IN  r[n]

(* A line of log text: the number's digits, the subsystem's name ("core"   *)
(* if it is empty) and the message, put into the ring byte by byte.  The   *)
(* copy for the serial line is not modelled.                               *)
klog_log(subsys, msg) ==
  LET n == LINE_OVERHEAD + Digits(g_klog_lines + 1)
           + (IF subsys = 0 THEN 4 ELSE subsys) + msg
      r == PutLine(n)
  IN  /\ g_klog_lines < MAX_LINES
      /\ g_klog_lines' = g_klog_lines + 1
      /\ g_klog_ring' = r.ring /\ g_klog_head' = r.head /\ g_klog_size' = r.size
      /\ UNCHANGED <<dump, truncated>>

(* A prefix, a blank, "0x" for base 16 and the number, cut off at the end  *)
(* of line[].                                                              *)
klog_log_u32(subsys, prefix, digits, hex) ==
  LET text == (IF prefix = 0 THEN 0 ELSE prefix + 1) + (IF hex THEN 2 ELSE 0) + digits
  IN  klog_log(subsys, IF text < LINE_BUFFER THEN text ELSE LINE_BUFFER - 1)

(* The first max_len - 1 of the bytes held, oldest first. *)
klog_read(max_len) ==
  LET copy_len == IF g_klog_size > max_len - 1 THEN max_len - 1 ELSE g_klog_size
      start == (g_klog_head + KLOG_RING_CAPACITY - g_klog_size) % KLOG_RING_CAPACITY
  IN  [i \in 1 .. copy_len |-> g_klog_ring[(start + i - 1) % KLOG_RING_CAPACITY]]

(* klog_clear leaves the count of lines as it is. *)
klog_clear ==
  /\ g_klog_ring' = [i \in 0 .. (KLOG_RING_CAPACITY - 1) |-> Zero]
  /\ g_klog_head' = 0 /\ g_klog_size' = 0

(* Mutant: the notice is given only once the ring is full. *)
SaysTruncatedLate == g_klog_size >= KLOG_RING_CAPACITY

SaysTruncated == g_klog_size >= DMESG_PRINT_BUFFER - 1

cmd_dmesg(clear_after) ==
  /\ dump' = klog_read(DMESG_PRINT_BUFFER)
  /\ truncated' = (dump' # <<>> /\ SaysTruncated)
  /\ IF clear_after THEN klog_clear ELSE UNCHANGED ringVars
  /\ UNCHANGED g_klog_lines

Next ==
  \/ \E s, m \in TextLengths : klog_log(s, m)
  \/ \E p, d \in TextLengths, hex \in BOOLEAN : klog_log_u32(1, p, d + 1, hex)
  \/ \E c \in BOOLEAN : cmd_dmesg(c)

Spec == klog_init /\ [][Next]_vars

-----------------------------------------------------------------------------
(* The bytes held, oldest first. *)
Kept == klog_read(g_klog_size + 1)

Log == INSTANCE BoundedLog WITH
         Capacity <- KLOG_RING_CAPACITY,
         MaxLine <- MAX_LINE_BYTES,
         kept <- Kept,
         lines <- g_klog_lines

(* Whatever lines were written and however often the ring has wrapped,     *)
(* klog_read can return exactly the newest bytes that fit, in order and    *)
(* with consecutive line numbers, and klog_clear forgets all of them.      *)
KeepsNewest == Log!Spec

(* dmesg prints everything the log holds or says that it does not; above   *)
(* all, with -c, no byte is discarded that was neither printed nor         *)
(* announced to be missing.                                                *)
DmesgHonest ==
  [][\A c \in BOOLEAN : cmd_dmesg(c) => truncated' \/ dump' = Kept]_vars
=============================================================================
