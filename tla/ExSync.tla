------------------------------- MODULE ExSync -------------------------------
(***************************************************************************)
(* The executive's locks (ex/ex_sync.c): a FAST_MUTEX and an ERESOURCE, each *)
(* an interlocked count and a synchronization event, used by preemptible     *)
(* threads.  Every interlocked access is a step of its own.                 *)
(*                                                                         *)
(* The wait for an event is the one of Dispatcher, abstracted to what is     *)
(* shown there: a thread that may block goes on when it finds the event set, *)
(* which resets it; one that may not block goes on at once.  Callers are     *)
(* outside the legacy mode, do not acquire what they hold, and wait for the  *)
(* mutex only before they take the resource.                                *)
(***************************************************************************)
EXTENDS Integers, FiniteSets

CONSTANTS
  Thread,
  Blocking,     \* threads that may block (ki_can_block)
  MutexUser,    \* threads that use the FAST_MUTEX
  ResourceUser, \* threads that use the ERESOURCE
  NONE

ASSUME ThreadsOK ==
  /\ IsFiniteSet(Thread)
  /\ Blocking \subseteq Thread
  /\ MutexUser \subseteq Blocking
  /\ ResourceUser \subseteq Thread
  /\ NONE \notin Thread

VARIABLES
  count,         \* FAST_MUTEX.Count
  owner,         \* FAST_MUTEX.Owner
  event,         \* FAST_MUTEX.Event is signalled
  activeCount,   \* ERESOURCE.ActiveCount: -1 when exclusive
  ownerThread,   \* ERESOURCE.OwnerThread
  resEvent,      \* ERESOURCE.ExclusiveEvent is signalled
  holds,         \* what each thread holds: "mutex", "shared", "exclusive"
  pc,
  seen           \* the ActiveCount a thread loaded

mutexVars    == <<count, owner, event>>
resourceVars == <<activeCount, ownerThread, resEvent, seen>>
vars == <<mutexVars, resourceVars, holds, pc>>

PC == {"run", "contended", "owns", "give", "wakeOne",
       "takeExclusive", "waitExclusive", "ownsExclusive",
       "loadShared", "takeShared", "waitShared",
       "release", "store", "drop", "wake"}

TypeOK ==
  /\ count \in (1 - Cardinality(Thread)) .. 1
  /\ owner \in Thread \cup {NONE}
  /\ event \in BOOLEAN
  /\ activeCount \in -1 .. Cardinality(Thread)
  /\ ownerThread \in Thread \cup {NONE}
  /\ resEvent \in BOOLEAN
  /\ holds \in [Thread -> SUBSET {"mutex", "shared", "exclusive"}]
  /\ pc \in [Thread -> PC]
  /\ seen \in [Thread -> -1 .. Cardinality(Thread)]

Init ==
  /\ count = 1
  /\ owner = NONE
  /\ event = FALSE
  /\ activeCount = 0
  /\ ownerThread = NONE
  /\ resEvent = FALSE
  /\ holds = [t \in Thread |-> {}]
  /\ pc = [t \in Thread |-> "run"]
  /\ seen = [t \in Thread |-> 0]

Goto(t, label) == pc' = [pc EXCEPT ![t] = label]
Gain(t, what)  == holds' = [holds EXCEPT ![t] = @ \cup {what}]
Lose(t, what)  == holds' = [holds EXCEPT ![t] = @ \ what]

-----------------------------------------------------------------------------
\* FAST_MUTEX.

ContendedLate(n) == n < -1                                \* a mutant
Contended(n) == n < 0

ExAcquireFastMutex(t) ==
  /\ pc[t] = "run"
  /\ t \in MutexUser
  /\ holds[t] = {}
  /\ count' = count - 1
  /\ Goto(t, IF Contended(count - 1) THEN "contended" ELSE "owns")
  /\ UNCHANGED <<owner, event, resourceVars, holds>>

\* KeWaitForSingleObject on M->Event.
MutexWaitReturns(t) ==
  /\ pc[t] = "contended"
  /\ event
  /\ event' = FALSE
  /\ Goto(t, "owns")
  /\ UNCHANGED <<count, owner, resourceVars, holds>>

SetOwner(t) ==
  /\ pc[t] = "owns"
  /\ owner' = t
  /\ Gain(t, "mutex")
  /\ Goto(t, "run")
  /\ UNCHANGED <<count, event, resourceVars>>

\* Succeeds only on a free mutex, and names no owner.
ExTryToAcquireFastMutex(t) ==
  /\ pc[t] = "run"
  /\ t \in MutexUser
  /\ "mutex" \notin holds[t]
  /\ count = 1
  /\ count' = 0
  /\ Gain(t, "mutex")
  /\ UNCHANGED <<owner, event, resourceVars, pc>>

ReleaseKeepsOwner(t) ==                                   \* a mutant
  /\ pc[t] = "run"
  /\ "mutex" \in holds[t]
  /\ Lose(t, {"mutex"})
  /\ Goto(t, "give")
  /\ UNCHANGED <<mutexVars, resourceVars>>

ExReleaseFastMutex(t) ==
  /\ pc[t] = "run"
  /\ "mutex" \in holds[t]
  /\ owner' = NONE
  /\ Lose(t, {"mutex"})
  /\ Goto(t, "give")
  /\ UNCHANGED <<count, event, resourceVars>>

HasWaiterLate(n) == n < 0                                 \* a mutant
HasWaiter(n) == n <= 0

GiveCount(t) ==
  /\ pc[t] = "give"
  /\ count' = count + 1
  /\ Goto(t, IF HasWaiter(count + 1) THEN "wakeOne" ELSE "run")
  /\ UNCHANGED <<owner, event, resourceVars, holds>>

WakeOne(t) ==
  /\ pc[t] = "wakeOne"
  /\ event' = TRUE
  /\ Goto(t, "run")
  /\ UNCHANGED <<count, owner, resourceVars, holds>>

-----------------------------------------------------------------------------
\* ERESOURCE.

HoldsResource(t) == holds[t] \cap {"shared", "exclusive"} # {}

ExAcquireResourceExclusiveLite(t) ==
  /\ pc[t] = "run"
  /\ t \in ResourceUser
  /\ ~HoldsResource(t)
  /\ Goto(t, "takeExclusive")
  /\ UNCHANGED <<mutexVars, resourceVars, holds>>

ExAcquireResourceSharedLite(t) ==
  /\ pc[t] = "run"
  /\ t \in ResourceUser
  /\ ~HoldsResource(t)
  /\ Goto(t, "loadShared")
  /\ UNCHANGED <<mutexVars, resourceVars, holds>>

\* The interlocked exchange; when it fails a caller that does not want to wait
\* returns, another waits.
TakeExclusive(t) ==
  /\ pc[t] = "takeExclusive"
  /\ IF activeCount = 0
     THEN activeCount' = -1 /\ Goto(t, "ownsExclusive")
     ELSE UNCHANGED activeCount /\ \E next \in {"run", "waitExclusive"} : Goto(t, next)
  /\ UNCHANGED <<mutexVars, ownerThread, resEvent, seen, holds>>

SetOwnerThread(t) ==
  /\ pc[t] = "ownsExclusive"
  /\ ownerThread' = t
  /\ Gain(t, "exclusive")
  /\ Goto(t, "run")
  /\ UNCHANGED <<mutexVars, activeCount, resEvent, seen>>

LoadShared(t) ==
  /\ pc[t] = "loadShared"
  /\ seen' = [seen EXCEPT ![t] = activeCount]
  /\ IF activeCount >= 0
     THEN Goto(t, "takeShared")
     ELSE \E next \in {"run", "waitShared"} : Goto(t, next)
  /\ UNCHANGED <<mutexVars, activeCount, ownerThread, resEvent, holds>>

TakeSharedUnchecked(t) ==                                 \* a mutant
  /\ pc[t] = "takeShared"
  /\ activeCount' = seen[t] + 1
  /\ Gain(t, "shared")
  /\ Goto(t, "run")
  /\ seen' = [seen EXCEPT ![t] = 0]
  /\ UNCHANGED <<mutexVars, ownerThread, resEvent>>

\* The exchange fails if the count has changed since it was loaded.
TakeShared(t) ==
  /\ pc[t] = "takeShared"
  /\ IF activeCount = seen[t]
     THEN activeCount' = seen[t] + 1 /\ Gain(t, "shared") /\ Goto(t, "run")
     ELSE UNCHANGED <<activeCount, holds>> /\ Goto(t, "loadShared")
  /\ seen' = [seen EXCEPT ![t] = 0]
  /\ UNCHANGED <<mutexVars, ownerThread, resEvent>>

\* KeWaitForSingleObject on R->ExclusiveEvent, by both kinds of waiters.
ResourceWaitReturns(t) ==
  /\ pc[t] \in {"waitExclusive", "waitShared"}
  /\ resEvent \/ t \notin Blocking
  /\ resEvent' = FALSE
  /\ Goto(t, IF pc[t] = "waitExclusive" THEN "takeExclusive" ELSE "loadShared")
  /\ UNCHANGED <<mutexVars, activeCount, ownerThread, seen, holds>>

ReleaseUnchecked(t) ==                                    \* a mutant
  /\ pc[t] = "run"
  /\ HoldsResource(t)
  /\ Lose(t, {"shared", "exclusive"})
  /\ Goto(t, "drop")
  /\ UNCHANGED <<mutexVars, resourceVars>>

\* ExReleaseResourceLite tells by the count how the resource is held.
ExReleaseResourceLite(t) ==
  /\ pc[t] = "run"
  /\ HoldsResource(t)
  /\ Lose(t, {"shared", "exclusive"})
  /\ Goto(t, IF activeCount = -1 THEN "store"
             ELSE IF activeCount > 0 THEN "drop" ELSE "wake")
  /\ ownerThread' = IF activeCount = -1 THEN NONE ELSE ownerThread
  /\ UNCHANGED <<mutexVars, activeCount, resEvent, seen>>

StoreFree(t) ==
  /\ pc[t] = "store"
  /\ activeCount' = 0
  /\ Goto(t, "wake")
  /\ UNCHANGED <<mutexVars, ownerThread, resEvent, seen, holds>>

Drop(t) ==
  /\ pc[t] = "drop"
  /\ activeCount' = activeCount - 1
  /\ Goto(t, "wake")
  /\ UNCHANGED <<mutexVars, ownerThread, resEvent, seen, holds>>

WakeForgotten(t) ==                                       \* a mutant
  /\ pc[t] = "wake"
  /\ Goto(t, "run")
  /\ UNCHANGED <<mutexVars, resourceVars, holds>>

Wake(t) ==
  /\ pc[t] = "wake"
  /\ resEvent' = TRUE
  /\ Goto(t, "run")
  /\ UNCHANGED <<mutexVars, activeCount, ownerThread, seen, holds>>

-----------------------------------------------------------------------------

Acquire(t) ==
  \/ ExAcquireFastMutex(t) \/ ExTryToAcquireFastMutex(t)
  \/ ExAcquireResourceExclusiveLite(t) \/ ExAcquireResourceSharedLite(t)

Release(t) == ExReleaseFastMutex(t) \/ ExReleaseResourceLite(t)

Proceed(t) ==
  \/ MutexWaitReturns(t) \/ SetOwner(t) \/ GiveCount(t) \/ WakeOne(t)
  \/ TakeExclusive(t) \/ SetOwnerThread(t) \/ LoadShared(t) \/ TakeShared(t)
  \/ ResourceWaitReturns(t) \/ StoreFree(t) \/ Drop(t) \/ Wake(t)

Next == \E t \in Thread : Acquire(t) \/ Release(t) \/ Proceed(t)

Spec == Init /\ [][Next]_vars

-----------------------------------------------------------------------------
(* What the locks must guarantee.                                          *)

\* Who holds each lock: from the step that takes it to the step that frees it.
MutexHolders == {t \in Thread : "mutex" \in holds[t] \/ pc[t] \in {"owns", "give"}}
ExclusiveHolders ==
  {t \in Thread : "exclusive" \in holds[t] \/ pc[t] \in {"ownsExclusive", "store"}}
SharedHolders == {t \in Thread : "shared" \in holds[t] \/ pc[t] = "drop"}

Mutex == INSTANCE SharedExclusiveLock WITH
  exclusive <- MutexHolders, shared <- {}
Resource == INSTANCE SharedExclusiveLock WITH
  exclusive <- ExclusiveHolders, shared <- SharedHolders

\* A FAST_MUTEX is an exclusive lock (ex_sync.c:22-46).
MutexIsLock == Mutex!Spec

\* An ERESOURCE is a shared and exclusive lock (ex_sync.c:51-90).
ResourceIsLock == Resource!Spec

\* The recorded owners are never stale: a lock names a thread only while that
\* thread holds it, exclusively (ex_sync.c:33-40, 63, 87).
OwnersHold ==
  /\ owner # NONE => owner \in MutexHolders
  /\ ownerThread # NONE => ownerThread \in ExclusiveHolders

\* Count tells how many threads hold or want the mutex, and its event is set
\* only to hand over a mutex that nobody holds to a thread that waits.
MutexHandoff ==
  LET wanting == {t \in Thread : pc[t] = "contended"}
      handing == {t \in Thread : pc[t] = "wakeOne"}
      passes  == Cardinality(handing) + (IF event THEN 1 ELSE 0)
  IN /\ count = 1 - Cardinality(MutexHolders) - Cardinality(wanting)
     /\ passes + Cardinality(MutexHolders) <= 1
     /\ passes = 1 => wanting # {}
     /\ wanting # {} => passes + Cardinality(MutexHolders) = 1

(***************************************************************************)
(* Liveness: threads are scheduled fairly (Dispatcher), and finish what     *)
(* they started; nobody is obliged to release.                              *)
(***************************************************************************)
LiveSpec == Spec /\ \A t \in Thread : SF_vars(Proceed(t))

\* A mutex that is given up while threads wait for it is taken by one of them.
MutexPassedOn ==
  (MutexHolders = {} /\ \E t \in Thread : pc[t] = "contended") ~> (MutexHolders # {})

\* A free resource does not stay free while threads wait for it.
ResourceTaken ==
  LET waits == \E t \in Thread : pc[t] \in {"waitExclusive", "waitShared"}
  IN  (activeCount = 0 /\ waits) ~> (activeCount # 0 \/ ~waits)
=============================================================================
