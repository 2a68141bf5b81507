SPECIFICATION Spec
CONSTANTS
  Isr = Isr
  Routine = Routine
  NONE = NONE
  oneShot = oneShot
  periodic = periodic
  d1 = d1
  d2 = d2
  Timer = {oneShot, periodic}
  Dpc = {d1, d2}
  DpcOf <- MCDpcOf
  RoutineTimers <- MCNoTimer
  Periodic = {periodic}
  Thread = {t1}
  TimerBatch = 2
  RoutineCalls = {"insert", "remove", "spin"}
  Masked = {"set", "cancel", "insert", "remove"}
INVARIANT NoStrandedDpc
CHECK_DEADLOCK FALSE
