SPECIFICATION LiveSpec
CONSTANTS
  Isr = Isr
  Routine = Routine
  NONE = NONE
  oneShot = oneShot
  periodic = periodic
  d1 = d1
  d2 = d2
  Timer = {oneShot, periodic}
  Dpc = {d1, d2}
  DpcOf <- MCDpcOf
  RoutineTimers <- MCOwnTimer
  Periodic = {periodic}
  Thread = {t1}
  TimerBatch = 1
  RoutineCalls = {"set", "cancel", "spin"}
  Masked = {"set", "cancel", "insert", "remove", "spin", "raise"}
INVARIANT NoStrandedDpc
PROPERTIES DpcRuns ArmedTimerExpires
