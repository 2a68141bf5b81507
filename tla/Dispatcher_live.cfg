SPECIFICATION LiveSpec
CONSTANTS
  w1 = w1
  w2 = w2
  w3 = w3
  ev = ev
  sev = sev
  mtx = mtx
  sem = sem
  tmr = tmr
  stmr = stmr
  Boot = Boot
  Isr = Isr
  NONE = NONE
  Worker = {w1, w2}
  Object = {sev, tmr}
  Type <- MCType
  Periodic = {}
  Client = {w1, w2}
  Quantum = 2
  WakeBatch = 2
  MaxCount = 2
  Finite = FALSE
  Drivers = FALSE
  EarlyExe = FALSE
PROPERTIES ReadyRuns SignalTaken NotifiedReturns JoinEnds 
