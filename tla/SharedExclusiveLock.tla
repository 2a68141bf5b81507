------------------------- MODULE SharedExclusiveLock -------------------------
(***************************************************************************)
(* What a lock promises: one exclusive holder and no other, or any number   *)
(* of shared holders.                                                       *)
(***************************************************************************)
CONSTANT Thread

VARIABLES exclusive, shared      \* the threads that hold the lock

holders == <<exclusive, shared>>

Init == exclusive = {} /\ shared = {}

AcquireExclusive(t) ==
  /\ exclusive = {} /\ shared = {}
  /\ exclusive' = {t}
  /\ UNCHANGED shared

AcquireShared(t) ==
  /\ exclusive = {}
  /\ t \notin shared
  /\ shared' = shared \cup {t}
  /\ UNCHANGED exclusive

Release(t) ==
  /\ t \in exclusive \cup shared
  /\ exclusive' = exclusive \ {t}
  /\ shared' = shared \ {t}

Next == \E t \in Thread : AcquireExclusive(t) \/ AcquireShared(t) \/ Release(t)

Spec == Init /\ [][Next]_holders
=============================================================================
