--------------------------- MODULE DispatcherProps ---------------------------
(***************************************************************************)
(* What the dispatcher must guarantee: the invariants, the abstraction it   *)
(* implements, and the liveness it owes under the fairness of the clock.    *)
(***************************************************************************)
EXTENDS Dispatcher

Queued  == Range(readyQ)
Blocked == Range(waitList)
Woken(c) == Range(batch[c])              \* off the wait list, not yet readied
WokenAny == UNION {Woken(c) : c \in Context}

(***************************************************************************)
(* Placement of threads: the lists are intrusive (a KTHREAD has one link of *)
(* each kind), so a thread linked twice, or in two places, would corrupt    *)
(* them, and a thread in no place is lost for ever.                         *)
(***************************************************************************)

\* No list holds a thread twice.
NoDuplicates ==
  /\ IsInjective(readyQ)
  /\ IsInjective(waitList)
  /\ \A c \in Context : IsInjective(batch[c])

\* No thread is in two places.
NoSharing ==
  /\ current \notin Queued \cup Blocked \cup WokenAny
  /\ Queued \cap Blocked = {}
  /\ Queued \cap WokenAny = {}
  /\ Blocked \cap WokenAny = {}
  /\ \A c, d \in Context : c # d => Woken(c) \cap Woken(d) = {}

\* KTHREAD.state says where the thread is, and no live thread is nowhere.
StateMatchesPlace ==
  /\ \A t \in Queued : state[t] = IF t = Boot THEN "RUNNING" ELSE "READY"
  /\ \A t \in Thread : state[t] = "WAITING" <=> t \in Blocked \cup WokenAny
  /\ \A t \in Thread : waitObject[t] # NONE <=> t \in Blocked
  /\ state[current] \in {"RUNNING", "TERMINATED"}
  /\ \A t \in Thread : state[t] \in {"READY", "RUNNING"} => t \in Queued \cup {current}

\* ki_pick_next_locked falls back on the idle thread when nothing is ready:
\* that is right only if the idle thread is then the one running.
BootAlwaysRunnable == Boot \in Queued \cup {current} /\ state[Boot] = "RUNNING"

\* Every thread is in exactly the place its state names (sched.c:286-486).
ThreadPlacement ==
  NoDuplicates /\ NoSharing /\ StateMatchesPlace /\ BootAlwaysRunnable

(***************************************************************************)
(* Wakeups.                                                                 *)
(***************************************************************************)

WaitsFor(t, o) == pc[t] = "wait" /\ target[t] = o

\* Someone is still going to act on the signal of o: it has signalled and not
\* finished its wake, or it was woken and has not rechecked.
WakePending(o) ==
  \/ \E c \in Context : pc[c] \in {"signalled", "scan"} /\ target[c] = o
  \/ \E t \in Thread \ Blocked : WaitsFor(t, o)

\* No thread stays blocked on a signalled object with nobody left to wake it:
\* the recheck and the block are one cli section (sync.c:71-83), and a signal
\* is stored before ki_wake scans (sync.c:46-50, timer.c:120-121).
NoLostWakeup ==
  \A t \in Blocked : signal[waitObject[t]] > 0 => WakePending(waitObject[t])

(***************************************************************************)
(* Mutual exclusion: a mutant is claimed by one thread at a time, and is    *)
(* not signalled while it is claimed (sync.c:72-79, 214-222).               *)
(***************************************************************************)
MutexExclusion ==
  \A o \in Mutant :
    /\ \A t, u \in Thread : o \in claims[t] /\ o \in claims[u] => t = u
    /\ \A t \in Thread : o \in claims[t] => signal[o] = 0

(***************************************************************************)
(* The dispatcher implements the abstract life of threads.                  *)
(***************************************************************************)
Finished == {t \in Thread : state[t] = "TERMINATED"}

Lifecycle == INSTANCE ThreadLifecycle WITH
  running <- current, runnable <- Queued, blocked <- Blocked \cup WokenAny,
  done <- Finished

\* Every step of the dispatcher is a step of ThreadLifecycle or none.
ImplementsLifecycle == Lifecycle!Spec

(***************************************************************************)
(* Liveness.  A thread that has entered the kernel goes on whenever it has  *)
(* the processor for long enough (SF: quanta may cut it short, not always); *)
(* the interrupt handler runs to its end; the local APIC holds a tick       *)
(* pending while interrupts are off, so ticks keep coming if they are       *)
(* enabled again and again, and time passes for every armed timer.          *)
(***************************************************************************)
Fairness ==
  /\ \A t \in Thread : SF_vars(KernelStep(t))
  /\ WF_vars(IsrStep)
  /\ SF_vars(\E due \in SUBSET armed : Tick(due))
  /\ \A o \in Timer : SF_vars(\E due \in SUBSET armed : o \in due /\ Tick(due))

LiveSpec == Spec /\ Fairness

\* With preemption on, every queued thread gets the processor: the round robin
\* starves no one, the idle thread included (sched.c:349-362).
ReadyRuns == \A t \in Thread : (p4 /\ t \in Queued) ~> (current = t)

\* A signal that one wait consumes reaches somebody: with preemption on, such
\* an object does not stay signalled while threads wait for it (sync.c:42-52,
\* 214-222).
SignalTaken ==
  \A o \in OfType({"SynchronizationEvent", "Mutant", "SynchronizationTimer"}) :
    (p4 /\ signal[o] > 0 /\ \E t \in Thread : WaitsFor(t, o))
      ~> (signal[o] = 0 \/ ~\E t \in Thread : WaitsFor(t, o))

\* A waiter of a notification object returns, unless the object is reset
\* first (sync.c:48, timer.c:120-121).
NotifiedReturns ==
  \A o \in OfType({"NotificationEvent", "NotificationTimer"}), t \in Thread :
    (p4 /\ WaitsFor(t, o) /\ signal[o] > 0) ~> (signal[o] = 0 \/ ~WaitsFor(t, o))

\* The cooperative wait for a thread returns once that thread has terminated
\* (syscall.c:548-560).
JoinEnds ==
  \A t \in Thread :
    (p4 /\ pc[t] = "join" /\ state[target[t]] = "TERMINATED") ~> (pc[t] = "run")

\* A thread does not wait for ever on a timer that keeps expiring, unless
\* threads keep setting it anew (timer.c:4-6, timer.h:10-11).
ExpiryReleasesWaiter ==
  \A o \in Timer, t \in Thread :
    (<>[]WaitsFor(t, o) /\ []<>(signal[o] > 0))
      => []<><<\E u \in Thread : KeSetTimer(u, o)>>_vars
=============================================================================
