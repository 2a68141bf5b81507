SPECIFICATION LiveSpec
CONSTANTS
  Isr = Isr
  Routine = Routine
  NONE = NONE
  oneShot = oneShot
  periodic = periodic
  d1 = d1
  d2 = d2
  Timer = {oneShot, periodic}
  Dpc = {d1, d2}
  DpcOf <- MCNoDpc
  RoutineTimers <- MCNoTimer
  Periodic = {}
  Thread = {t1}
  TimerBatch = 2
  RoutineCalls = {"insert", "remove", "spin"}
  Masked = {}
PROPERTY ArmedTimerExpires
CHECK_DEADLOCK FALSE
