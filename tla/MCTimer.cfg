\* The behaviour starts with the counter well below its range: the shortfall
\* does not need the counter to wrap.
SPECIFICATION Spec
CONSTANTS
  MS_PER_TICK = 10
  WORD = 64
  FIRST_TICKS = 3
  Durations = {1, 10, 15, 20, 30}
  MAX_TIME = 45
INVARIANT
  SleepsLongEnough
CHECK_DEADLOCK FALSE
