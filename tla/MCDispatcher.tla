---------------------------- MODULE MCDispatcher ----------------------------
(***************************************************************************)
(* Instances of the dispatcher for TLC.                                     *)
(***************************************************************************)
EXTENDS DispatcherProps

CONSTANTS w1, w2, w3, ev, sev, mtx, sem, tmr, stmr

MCType ==
  [o \in Object |->
     CASE o = ev  -> "NotificationEvent"
       [] o = sev -> "SynchronizationEvent"
       [] o = mtx -> "Mutant"
       [] o = sem -> "Semaphore"
       [] o = tmr -> "NotificationTimer"
       [] o = stmr -> "SynchronizationTimer"]

WorkerSymmetry == Permutations(Worker)
=============================================================================
