--------------------------- MODULE ThreadLifecycle ---------------------------
(***************************************************************************)
(* What the dispatcher promises of threads, without queues, quanta, objects *)
(* or interrupts: one thread runs; a thread that was created is runnable,   *)
(* blocked or done until it runs again; only a runnable thread is switched  *)
(* to; a thread blocks or finishes only while it runs, and one that is done *)
(* never runs again once it has given the processor away.                   *)
(***************************************************************************)
CONSTANTS Thread, Boot

VARIABLES running, runnable, blocked, done

lifecycle == <<running, runnable, blocked, done>>

Created == {running} \cup runnable \cup blocked \cup done

Init ==
  /\ running = Boot
  /\ runnable = {}
  /\ blocked = {}
  /\ done = {}

Create(t) ==
  /\ t \notin Created
  /\ runnable' = runnable \cup {t}
  /\ UNCHANGED <<running, blocked, done>>

Switch(t) ==
  /\ t \in runnable
  /\ running' = t
  /\ runnable' = (runnable \ {t}) \cup ({running} \ done)
  /\ UNCHANGED <<blocked, done>>

Block(t) ==
  /\ t \in runnable
  /\ running \notin done
  /\ running' = t
  /\ runnable' = runnable \ {t}
  /\ blocked' = blocked \cup {running}
  /\ UNCHANGED done

Wake(t) ==
  /\ t \in blocked
  /\ blocked' = blocked \ {t}
  /\ runnable' = runnable \cup {t}
  /\ UNCHANGED <<running, done>>

Finish ==
  /\ running # Boot
  /\ done' = done \cup {running}
  /\ UNCHANGED <<running, runnable, blocked>>

Next ==
  \/ \E t \in Thread : Create(t) \/ Switch(t) \/ Block(t) \/ Wake(t)
  \/ Finish

Spec == Init /\ [][Next]_lifecycle
=============================================================================
