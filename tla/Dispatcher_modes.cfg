SPECIFICATION Spec
CONSTANTS
  w1 = w1
  w2 = w2
  w3 = w3
  ev = ev
  sev = sev
  mtx = mtx
  sem = sem
  tmr = tmr
  stmr = stmr
  Boot = Boot
  Isr = Isr
  NONE = NONE
  Worker = {w1, w2}
  Object = {ev, sem, tmr}
  Type <- MCType
  Periodic = {tmr}
  Client = {w1, w2, Boot}
  Quantum = 2
  WakeBatch = 2
  MaxCount = 2
  Finite = TRUE
  Drivers = TRUE
  EarlyExe = TRUE
SYMMETRY WorkerSymmetry
INVARIANT ThreadPlacement
PROPERTY ImplementsLifecycle
