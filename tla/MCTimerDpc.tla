----------------------------- MODULE MCTimerDpc -----------------------------
(***************************************************************************)
(* Instances of deferred work for TLC: a one-shot timer and a periodic one,  *)
(* each with a DPC; the routine of the first may set and cancel its timer.   *)
(***************************************************************************)
EXTENDS TimerDpc

CONSTANTS oneShot, periodic, d1, d2

MCDpcOf == [o \in Timer |-> IF o = oneShot THEN d1 ELSE d2]
MCOwnTimer == [d \in Dpc |-> IF d = d1 THEN {oneShot} ELSE {}]
MCNoTimer == [d \in Dpc |-> {}]
MCNoDpc == [o \in Timer |-> NONE]
ThreadSymmetry == Permutations(Thread)
=============================================================================
