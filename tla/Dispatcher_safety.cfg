SPECIFICATION Spec
CONSTANTS
  w1 = w1
  w2 = w2
  w3 = w3
  ev = ev
  sev = sev
  mtx = mtx
  sem = sem
  tmr = tmr
  stmr = stmr
  Boot = Boot
  Isr = Isr
  NONE = NONE
  Worker = {w1, w2, w3}
  Object = {mtx, tmr}
  Type <- MCType
  Periodic = {}
  Client = {w1, w2, w3}
  Quantum = 2
  WakeBatch = 3
  MaxCount = 2
  Finite = FALSE
  Drivers = FALSE
  EarlyExe = FALSE
SYMMETRY WorkerSymmetry
INVARIANTS TypeOK NoLostWakeup MutexExclusion
