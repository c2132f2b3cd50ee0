------------------------------- MODULE Timer -------------------------------
(***************************************************************************)
(* The tick counter of src/drivers/pit.c, its interrupt, and sleep_ms as   *)
(* the sleep command uses it.  Time is counted in milliseconds; the timer  *)
(* interrupts every MS_PER_TICK of them, also between the test of the      *)
(* loop and the HLT that follows it.                                       *)
(***************************************************************************)
EXTENDS Integers

CONSTANTS
  MS_PER_TICK,
  WORD,            \* the counter's range: 2^32
  FIRST_TICKS,     \* the counter when the behaviour starts
  Durations,       \* what sleep is asked for
  MAX_TIME         \* the milliseconds of a behaviour

VARIABLES
  now,             \* milliseconds since the behaviour started
  g_ticks,
  pc,              \* the prompt, the loop's test, before HLT, halted
  asked, since,    \* the running sleep: its argument, and when it began
  end,             \* sleep_ms's local
  slept            \* what the last sleep was asked for, and how long it took

vars == <<now, g_ticks, pc, asked, since, end, slept>>

Init ==
  /\ now = 0
  /\ g_ticks = FIRST_TICKS
  /\ pc = "prompt"
  /\ asked = 0 /\ since = 0 /\ end = 0
  /\ slept = [asked |-> 0, took |-> 0]

(* A millisecond passes; pit_irq0 when it completes a period. *)
pit_irq0 ==
  /\ now < MAX_TIME
  /\ now' = now + 1
  /\ IF now' % MS_PER_TICK = 0
     THEN /\ g_ticks' = (g_ticks + 1) % WORD
          /\ pc' = IF pc = "halted" THEN "test" ELSE pc
     ELSE UNCHANGED <<g_ticks, pc>>
  /\ UNCHANGED <<asked, since, end, slept>>

(* cmd_sleep with a number it accepts, up to sleep_ms's loop. *)
cmd_sleep(ms) ==
  LET whole == ms \div MS_PER_TICK
      ticks_needed == IF whole = 0 THEN 1 ELSE whole
  IN  /\ pc = "prompt"
      /\ ms # 0
      /\ asked' = ms
      /\ since' = now
      /\ end' = (g_ticks + ticks_needed) % WORD
      /\ pc' = "test"
      /\ UNCHANGED <<now, g_ticks, slept>>

TestLoop ==
  /\ pc = "test"
  /\ IF g_ticks < end
     THEN pc' = "hlt" /\ UNCHANGED slept
     ELSE pc' = "prompt" /\ slept' = [asked |-> asked, took |-> now - since]
  /\ UNCHANGED <<now, g_ticks, asked, since, end>>

Halt ==
  /\ pc = "hlt"
  /\ pc' = "halted"
  /\ UNCHANGED <<now, g_ticks, asked, since, end, slept>>

Next ==
  \/ pit_irq0
  \/ \E ms \in Durations : cmd_sleep(ms)
  \/ TestLoop
  \/ Halt

Spec == Init /\ [][Next]_vars

(* What the comment above sleep_ms says: it returns when at least the      *)
(* milliseconds it was asked for have passed.                              *)
SleepsLongEnough == slept.took >= slept.asked
=============================================================================
