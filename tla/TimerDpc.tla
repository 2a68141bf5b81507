------------------------------ MODULE TimerDpc ------------------------------
(***************************************************************************)
(* Deferred work on CPU 0: the IRQL and the spin locks of ke/sync.c, the DPC *)
(* queue of ke/dpc.c, the timer list of ke/timer.c and the clock interrupt   *)
(* that drives them (ke/amd64/isr.c).                                       *)
(*                                                                         *)
(* One processor, three kinds of context, each above the ones before it: a   *)
(* thread, the routine of a DPC (called by whoever drains the queue), and    *)
(* the clock interrupt Isr.  Below DISPATCH the interrupt itself drains, so  *)
(* the routine may also run above Isr; it is never running twice.  The locks *)
(* of the timer list and of the DPC queue are taken without masking          *)
(* interrupts.  The scheduler is abstracted to the choice of a thread, and   *)
(* callers are outside the legacy mode, in which timers do nothing.          *)
(***************************************************************************)
EXTENDS Integers, Sequences, FiniteSets, SequencesExt

CONSTANTS
  Thread,         \* threads that call these services
  Isr,            \* the clock interrupt
  Routine,        \* the DPC routine that is running
  Timer, Dpc,     \* the KTIMERs and KDPCs of the drivers
  DpcOf,          \* the Dpc argument of KeSetTimerEx for each timer, or NONE
  Periodic,       \* timers set with Period > 0
  RoutineTimers,  \* the timers the routine of each DPC sets and cancels
  RoutineCalls,   \* the services DPC routines call
  Masked,         \* the services threads call with interrupts off (system calls)
  TimerBatch,     \* size of the local batch of KiTimerTick
  NONE

Context == Thread \cup {Isr, Routine}
Service == {"set", "cancel", "insert", "remove", "spin", "raise"}

ASSUME ContextsDistinct ==
  /\ Isr \notin Thread /\ Routine \notin Thread /\ Isr # Routine
  /\ NONE \notin Thread \cup {Isr, Routine} \cup Timer \cup Dpc
  /\ Timer \cap Dpc = {}
ASSUME ParametersOK ==
  /\ DpcOf \in [Timer -> Dpc \cup {NONE}]
  /\ Periodic \subseteq Timer
  /\ RoutineTimers \in [Dpc -> SUBSET Timer]
  /\ RoutineCalls \subseteq Service
  /\ Masked \subseteq Service
  /\ TimerBatch \in Nat \ {0}

VARIABLES
  current,    \* the thread that has the processor
  irql,       \* KPCR.Irql: 0 (PASSIVE) or 2 (DISPATCH)
  ifOff,      \* the current thread runs with interrupts off
  pc,         \* where each context is
  arg,        \* the timer or DPC of the call it is in
  raised,     \* threads that raised the IRQL and have not lowered it
  spinOwner,  \* the context holding the drivers' KSPIN_LOCK
  dpcQ,       \* s_q
  queued,     \* KDPC.Number # 0xFFFF
  pending,    \* s_pending
  dpcLock,    \* s_lock is held
  drainer,    \* the context that called the routine
  routine,    \* the DPC whose routine runs
  timers,     \* s_timers
  signal,     \* Header.SignalState of the timers
  timerLock,  \* s_tlock is held
  batch       \* the local batch of KiTimerTick

cpuVars   == <<current, irql, ifOff, raised>>
callVars  == <<pc, arg>>
dpcVars   == <<dpcQ, queued, pending, dpcLock>>
drainVars == <<drainer, routine>>
timerVars == <<timers, signal, timerLock, batch>>
vars == <<cpuVars, callVars, spinOwner, dpcVars, drainVars, timerVars>>

ServicePC == {"run", "set", "setting", "cancel", "cancelling", "insert", "inserting",
              "inserted", "remove", "removing", "spin", "lower", "drain", "draining",
              "called", "lowered"}
IsrPC == {"off", "tick", "expire", "insert", "inserting", "inserted", "lower", "drain",
          "draining", "called", "lowered", "rearm"}

TypeOK ==
  /\ current \in Thread
  /\ irql \in {0, 2}
  /\ ifOff \in BOOLEAN
  /\ pc \in [Context -> ServicePC \cup IsrPC]
  /\ arg \in [Context -> Timer \cup Dpc \cup {NONE}]
  /\ raised \subseteq Thread
  /\ spinOwner \in Context \cup {NONE}
  /\ dpcQ \in Seq(Dpc)
  /\ queued \in [Dpc -> BOOLEAN]
  /\ pending \in BOOLEAN
  /\ dpcLock \in BOOLEAN
  /\ drainer \in Context \cup {NONE}
  /\ routine \in Dpc \cup {NONE}
  /\ timers \in Seq(Timer)
  /\ signal \in [Timer -> 0 .. 1]
  /\ timerLock \in BOOLEAN
  /\ batch \in Seq(Timer)

Init ==
  /\ current \in Thread
  /\ irql = 0
  /\ ifOff = FALSE
  /\ pc = [c \in Context |-> IF c \in Thread THEN "run" ELSE "off"]
  /\ arg = [c \in Context |-> NONE]
  /\ raised = {}
  /\ spinOwner = NONE
  /\ dpcQ = <<>>
  /\ queued = [d \in Dpc |-> FALSE]
  /\ pending = FALSE
  /\ dpcLock = FALSE
  /\ drainer = NONE
  /\ routine = NONE
  /\ timers = <<>>
  /\ signal = [o \in Timer |-> 0]
  /\ timerLock = FALSE
  /\ batch = <<>>

-----------------------------------------------------------------------------
\* The elements of a list that are in K, in their order (SelectSeq, as a function that can
\* be proved about).
Only(list, K) ==
  LET kept[i \in 0..Len(list)] ==
        IF i = 0 THEN <<>>
        ELSE IF list[i] \in K THEN Append(kept[i - 1], list[i]) ELSE kept[i - 1]
  IN kept[Len(list)]

\* Who executes, and how a call is made and returns.

InIsr == pc[Isr] # "off"

Executing(c) ==
  CASE c = Routine -> routine # NONE /\ (InIsr => drainer = Isr)
    [] c = Isr     -> InIsr /\ drainer # Isr
    [] OTHER       -> ~InIsr /\ routine = NONE /\ c = current

At(c, label) == Executing(c) /\ pc[c] = label

Goto(c, label) == pc' = [pc EXCEPT ![c] = label]

\* c calls a service: a thread of its own will, a routine if drivers' routines do.
Call(c, service, label, what) ==
  /\ At(c, "run")
  /\ \/ c \in Thread /\ ifOff' = (ifOff \/ service \in Masked)
     \/ c = Routine /\ service \in RoutineCalls /\ UNCHANGED ifOff
  /\ Goto(c, label)
  /\ arg' = [arg EXCEPT ![c] = what]

\* The service returns: in a system call interrupts come back on unless the
\* thread goes on at a raised IRQL; the clock handler goes on with its timer.
ReturnTo(c, off) ==
  /\ Goto(c, IF c = Isr THEN "rearm" ELSE "run")
  /\ arg' = [arg EXCEPT ![c] = NONE]
  /\ ifOff' = off

Return(c) == ReturnTo(c, ifOff /\ c \notin Thread \ raised)

-----------------------------------------------------------------------------
\* IRQL and spin locks (sync.c).

KeRaiseIrql(t) ==
  /\ At(t, "run")
  /\ t \in Thread \ raised
  /\ irql' = 2
  /\ raised' = raised \cup {t}
  /\ ifOff' = (ifOff \/ "raise" \in Masked)
  /\ UNCHANGED <<current, callVars, spinOwner, dpcVars, drainVars, timerVars>>

KeLowerIrql(t) ==
  /\ At(t, "run")
  /\ t \in raised
  /\ spinOwner # t
  /\ Goto(t, "lower")
  /\ UNCHANGED <<cpuVars, arg, spinOwner, dpcVars, drainVars, timerVars>>

AcquireWithoutRaise(t) ==                                 \* a mutant
  /\ At(t, "run")
  /\ t \in Thread \ raised
  /\ raised' = raised \cup {t}
  /\ ifOff' = (ifOff \/ "spin" \in Masked)
  /\ Goto(t, "spin")
  /\ UNCHANGED <<current, irql, arg, spinOwner, dpcVars, drainVars, timerVars>>

\* KeAcquireSpinLock raises before it spins ...
KeAcquireSpinLock(t) ==
  /\ At(t, "run")
  /\ t \in Thread \ raised
  /\ irql' = 2
  /\ raised' = raised \cup {t}
  /\ ifOff' = (ifOff \/ "spin" \in Masked)
  /\ Goto(t, "spin")
  /\ UNCHANGED <<current, arg, spinOwner, dpcVars, drainVars, timerVars>>

\* ... and a routine, at DISPATCH already, only spins.
KeAcquireSpinLockAtDpcLevel ==
  /\ Call(Routine, "spin", "spin", NONE)
  /\ spinOwner # Routine
  /\ UNCHANGED <<current, irql, raised, spinOwner, dpcVars, drainVars, timerVars>>

SpinAcquired(c) ==
  /\ At(c, "spin")
  /\ spinOwner = NONE
  /\ spinOwner' = c
  /\ Goto(c, "run")
  /\ UNCHANGED <<cpuVars, arg, dpcVars, drainVars, timerVars>>

KeReleaseSpinLock(c) ==
  /\ At(c, "run")
  /\ spinOwner = c
  /\ spinOwner' = NONE
  /\ Goto(c, IF c = Routine THEN "run" ELSE "lower")
  /\ UNCHANGED <<cpuVars, arg, dpcVars, drainVars, timerVars>>

LowerBeforeDrain(c) ==                                    \* a mutant
  /\ At(c, "lower")
  /\ irql' = 0
  /\ Goto(c, IF pending THEN "drain" ELSE "lowered")
  /\ UNCHANGED <<current, ifOff, raised, arg, spinOwner, dpcVars, drainVars, timerVars>>

\* The rest of KeLowerIrql, shared by its callers: drain while still at
\* DISPATCH if a DPC is pending (KiCheckDpcDrain), then write the IRQL.
CheckPending(c) ==
  /\ At(c, "lower")
  /\ Goto(c, IF pending THEN "drain" ELSE "lowered")
  /\ UNCHANGED <<cpuVars, arg, spinOwner, dpcVars, drainVars, timerVars>>

KeepsDispatch(c) ==                                       \* a mutant
  /\ At(c, "lowered")
  /\ raised' = raised \ {c}
  /\ ReturnTo(c, ifOff /\ c \notin Thread)
  /\ UNCHANGED <<current, irql, spinOwner, dpcVars, drainVars, timerVars>>

LowersToApc(c) ==                                         \* a mutant
  /\ At(c, "lowered")
  /\ irql' = 1
  /\ raised' = raised \ {c}
  /\ ReturnTo(c, ifOff /\ c \notin Thread)
  /\ UNCHANGED <<current, spinOwner, dpcVars, drainVars, timerVars>>

WriteIrql(c) ==
  /\ At(c, "lowered")
  /\ irql' = 0
  /\ raised' = raised \ {c}
  /\ ReturnTo(c, ifOff /\ c \notin Thread)
  /\ UNCHANGED <<current, spinOwner, dpcVars, drainVars, timerVars>>

-----------------------------------------------------------------------------
\* The DPC queue (dpc.c).

LockDpcs(c, before, after) ==
  /\ At(c, before)
  /\ ~dpcLock
  /\ dpcLock' = TRUE
  /\ Goto(c, after)
  /\ UNCHANGED <<cpuVars, arg, spinOwner, dpcQ, queued, pending, drainVars, timerVars>>

KeInsertQueueDpc(c, d) ==
  /\ Call(c, "insert", "insert", d)
  /\ UNCHANGED <<current, irql, raised, spinOwner, dpcVars, drainVars, timerVars>>

EnqueueSetsNoPending(c) ==                                \* a mutant
  /\ At(c, "inserting")
  /\ IF queued[arg[c]]
     THEN Return(c) /\ UNCHANGED <<dpcQ, queued>>
     ELSE /\ dpcQ' = Append(dpcQ, arg[c])
          /\ queued' = [queued EXCEPT ![arg[c]] = TRUE]
          /\ Goto(c, "inserted")
          /\ UNCHANGED <<arg, ifOff>>
  /\ dpcLock' = FALSE
  /\ UNCHANGED <<current, irql, raised, spinOwner, pending, drainVars, timerVars>>

AlreadyQueuedIgnored(d) == FALSE                          \* a mutant
AlreadyQueued(d) == queued[d]

Enqueue(c) ==
  /\ At(c, "inserting")
  /\ IF AlreadyQueued(arg[c])
     THEN Return(c) /\ UNCHANGED <<dpcQ, queued, pending>>
     ELSE /\ dpcQ' = Append(dpcQ, arg[c])
          /\ queued' = [queued EXCEPT ![arg[c]] = TRUE]
          /\ pending' = TRUE
          /\ Goto(c, "inserted")
          /\ UNCHANGED <<arg, ifOff>>
  /\ dpcLock' = FALSE
  /\ UNCHANGED <<current, irql, raised, spinOwner, drainVars, timerVars>>

InsertNeverDrains(c) ==                                   \* a mutant
  /\ At(c, "inserted")
  /\ Return(c)
  /\ UNCHANGED <<current, irql, raised, spinOwner, dpcVars, drainVars, timerVars>>

\* Below DISPATCH the queue is drained at once, by a raise and a lower.
DrainIfPassive(c) ==
  /\ At(c, "inserted")
  /\ IF irql < 2
     THEN irql' = 2 /\ Goto(c, "lower") /\ UNCHANGED <<arg, ifOff>>
     ELSE Return(c) /\ UNCHANGED irql
  /\ UNCHANGED <<current, raised, spinOwner, dpcVars, drainVars, timerVars>>

\* KiRetireDpcList takes the lock for each DPC and calls its routine without it.
Retire(c) ==
  /\ At(c, "draining")
  /\ dpcLock' = FALSE
  /\ IF dpcQ = <<>>
     THEN /\ pending' = FALSE
          /\ Goto(c, "lowered")
          /\ UNCHANGED <<dpcQ, queued, drainVars>>
     ELSE /\ dpcQ' = Tail(dpcQ)
          /\ queued' = [queued EXCEPT ![Head(dpcQ)] = FALSE]
          /\ routine' = Head(dpcQ)
          /\ drainer' = c
          /\ pc' = [pc EXCEPT ![c] = "called", ![Routine] = "run"]
          /\ UNCHANGED pending
  /\ UNCHANGED <<cpuVars, arg, spinOwner, timerVars>>

RoutineReturns ==
  /\ At(Routine, "run")
  /\ spinOwner # Routine
  /\ routine' = NONE
  /\ drainer' = NONE
  /\ pc' = [pc EXCEPT ![Routine] = "off", ![drainer] = "drain"]
  /\ UNCHANGED <<cpuVars, arg, spinOwner, dpcVars, timerVars>>

\* KeRemoveQueueDpc looks at the DPC before it takes the lock, and again after.
KeRemoveQueueDpc(c, d) ==
  /\ queued[d]
  /\ Call(c, "remove", "remove", d)
  /\ UNCHANGED <<current, irql, raised, spinOwner, dpcVars, drainVars, timerVars>>

Dequeue(c) ==
  /\ At(c, "removing")
  /\ dpcQ' = Only(dpcQ, Dpc \ {arg[c]})
  /\ queued' = [queued EXCEPT ![arg[c]] = FALSE]
  /\ dpcLock' = FALSE
  /\ Return(c)
  /\ UNCHANGED <<current, irql, raised, spinOwner, pending, drainVars, timerVars>>

-----------------------------------------------------------------------------
\* The timer list (timer.c).

LockTimers(c, before, after) ==
  /\ At(c, before)
  /\ ~timerLock
  /\ timerLock' = TRUE
  /\ Goto(c, after)
  /\ UNCHANGED <<cpuVars, arg, spinOwner, dpcVars, drainVars, timers, signal, batch>>

Unlinked(o) == Only(timers, Timer \ {o})

TimersOf(c) == IF c = Routine THEN RoutineTimers[routine] ELSE Timer

KeSetTimerEx(c, o) ==
  /\ Call(c, "set", "set", o)
  /\ o \in TimersOf(c)
  /\ UNCHANGED <<current, irql, raised, spinOwner, dpcVars, drainVars, timerVars>>

SetTimerLinkedTwice(c) ==                                 \* a mutant
  /\ At(c, "setting")
  /\ timers' = Append(timers, arg[c])
  /\ signal' = [signal EXCEPT ![arg[c]] = 0]
  /\ timerLock' = FALSE
  /\ Return(c)
  /\ UNCHANGED <<current, irql, raised, spinOwner, dpcVars, drainVars, batch>>

SetTimer(c) ==
  /\ At(c, "setting")
  /\ timers' = Append(Unlinked(arg[c]), arg[c])
  /\ signal' = [signal EXCEPT ![arg[c]] = 0]
  /\ timerLock' = FALSE
  /\ Return(c)
  /\ UNCHANGED <<current, irql, raised, spinOwner, dpcVars, drainVars, batch>>

KeCancelTimer(c, o) ==
  /\ Call(c, "cancel", "cancel", o)
  /\ o \in TimersOf(c)
  /\ UNCHANGED <<current, irql, raised, spinOwner, dpcVars, drainVars, timerVars>>

CancelTimer(c) ==
  /\ At(c, "cancelling")
  /\ timers' = Unlinked(arg[c])
  /\ timerLock' = FALSE
  /\ Return(c)
  /\ UNCHANGED <<current, irql, raised, spinOwner, dpcVars, drainVars, signal, batch>>

-----------------------------------------------------------------------------
\* The clock interrupt (vector 0xD1).

Tick ==
  /\ ~InIsr
  /\ ~ifOff
  /\ Goto(Isr, "tick")
  /\ UNCHANGED <<cpuVars, arg, spinOwner, dpcVars, drainVars, timerVars>>

\* The first TimerBatch of the due timers, in list order, leave the list under
\* its lock.  Time is abstract: any of the armed timers may be due.
Collect(due) ==
  /\ At(Isr, "tick")
  /\ ~timerLock
  /\ LET found == Only(timers, due) IN
       batch' = SubSeq(found, 1, IF Len(found) < TimerBatch THEN Len(found) ELSE TimerBatch)
  /\ timers' = Only(timers, Timer \ Range(batch'))
  /\ Goto(Isr, "expire")
  /\ UNCHANGED <<cpuVars, arg, spinOwner, dpcVars, drainVars, signal, timerLock>>

\* Each timer of the batch is signalled, and its DPC queued; the waiters it wakes
\* are in Dispatcher.
Expire ==
  /\ At(Isr, "expire")
  /\ batch # <<>>
  /\ LET o == Head(batch) IN
       /\ signal' = [signal EXCEPT ![o] = 1]
       /\ arg' = [arg EXCEPT ![Isr] = DpcOf[o]]
       /\ Goto(Isr, IF DpcOf[o] = NONE THEN "rearm" ELSE "insert")
  /\ UNCHANGED <<cpuVars, spinOwner, dpcVars, drainVars, timers, timerLock, batch>>

RearmAtHead ==                                            \* a mutant
  /\ At(Isr, "rearm")
  /\ LET o == Head(batch) IN
       IF o \in Periodic
       THEN ~timerLock /\ timers' = <<o>> \o timers /\ signal' = [signal EXCEPT ![o] = 0]
       ELSE UNCHANGED <<timers, signal>>
  /\ batch' = Tail(batch)
  /\ Goto(Isr, "expire")
  /\ UNCHANGED <<cpuVars, arg, spinOwner, dpcVars, drainVars, timerLock>>

\* A periodic timer goes back to the tail of the list, its signal taken back.
Rearm ==
  /\ At(Isr, "rearm")
  /\ LET o == Head(batch) IN
       IF o \in Periodic
       THEN ~timerLock /\ timers' = Append(timers, o) /\ signal' = [signal EXCEPT ![o] = 0]
       ELSE UNCHANGED <<timers, signal>>
  /\ batch' = Tail(batch)
  /\ Goto(Isr, "expire")
  /\ UNCHANGED <<cpuVars, arg, spinOwner, dpcVars, drainVars, timerLock>>

\* Only below DISPATCH does the clock end the thread's quantum.
Preempted == IF irql < 2 THEN current' \in Thread ELSE UNCHANGED current

InterruptReturns ==
  /\ At(Isr, "expire")
  /\ batch = <<>>
  /\ Preempted
  /\ Goto(Isr, "off")
  /\ UNCHANGED <<irql, ifOff, raised, arg, spinOwner, dpcVars, drainVars, timerVars>>

-----------------------------------------------------------------------------

\* What a thread, or a routine, starts by itself.
Start(c) ==
  \/ \E d \in Dpc : KeInsertQueueDpc(c, d) \/ KeRemoveQueueDpc(c, d)
  \/ \E o \in Timer : KeSetTimerEx(c, o) \/ KeCancelTimer(c, o)

StartThread(t) == Start(t) \/ KeRaiseIrql(t) \/ KeAcquireSpinLock(t)

\* What goes on by itself once started.
Proceed(c) ==
  \/ LockDpcs(c, "insert", "inserting") \/ Enqueue(c) \/ DrainIfPassive(c)
  \/ LockDpcs(c, "remove", "removing") \/ Dequeue(c)
  \/ CheckPending(c) \/ LockDpcs(c, "drain", "draining") \/ Retire(c) \/ WriteIrql(c)
  \/ LockTimers(c, "set", "setting") \/ SetTimer(c)
  \/ LockTimers(c, "cancel", "cancelling") \/ CancelTimer(c)
  \/ SpinAcquired(c)

\* A thread gives back what it took: its lock, and its IRQL.
GiveBack(t) == KeReleaseSpinLock(t) \/ KeLowerIrql(t)

RoutineStep == Proceed(Routine) \/ KeReleaseSpinLock(Routine) \/ RoutineReturns

IsrStep ==
  \/ \E due \in SUBSET Range(timers) : Collect(due)
  \/ Expire \/ Proceed(Isr) \/ Rearm \/ InterruptReturns

Next ==
  \/ \E t \in Thread : StartThread(t) \/ Proceed(t) \/ GiveBack(t)
  \/ Start(Routine) \/ KeAcquireSpinLockAtDpcLevel \/ RoutineStep
  \/ Tick
  \/ IsrStep

Spec == Init /\ [][Next]_vars
-----------------------------------------------------------------------------
\* What deferred work must guarantee.

(***************************************************************************)
(* The routine of a DPC runs at DISPATCH (dpc.h:11), and the thread it      *)
(* interrupted keeps the processor until it returns (isr.c:502-513).        *)
(***************************************************************************)
RoutineAtDispatch ==
  routine # NONE => irql = 2 /\ (drainer \in Thread => drainer = current)

\* Whatever ran above it, a thread in its own code finds the IRQL it left: 2
\* if and only if it raised it, and then it still has the processor.
IrqlRestored ==
  /\ \A t \in Thread : At(t, "run") => (irql = 2 <=> t \in raised)
  /\ raised \subseteq {current}

\* The drivers' spin lock is never spun on above its holder (sync.c:128-134).
SpinLockFree == \A c \in Context : At(c, "spin") => spinOwner = NONE

\* The queue, the Number of the DPCs and s_pending agree (dpc.c:69-133).
DpcQueueSound ==
  /\ IsInjective(dpcQ)
  /\ \A d \in Dpc : queued[d] <=> d \in Range(dpcQ)
  /\ dpcQ # <<>> => pending

\* The timer list holds each timer once (its link is intrusive), and a timer
\* that has expired is not still on it (timer.c:50-62, 106-132).
TimerListSound ==
  /\ IsInjective(timers)
  /\ IsInjective(batch)
  /\ \A o \in Timer : signal[o] = 1 => o \notin Range(timers)

\* The three together: nobody runs at an IRQL that is not his.
IrqlDiscipline == RoutineAtDispatch /\ IrqlRestored /\ SpinLockFree

\* The two queues of deferred work, DPCs and timers, are sound (dpc.c:69-133, timer.c:50-132).
DeferredListsSound == DpcQueueSound /\ TimerListSound

(***************************************************************************)
(* A DPC queued at DISPATCH runs when the IRQL falls (dpc.c:8-9): below     *)
(* DISPATCH one is queued only while the call that will drain is under way.  *)
(***************************************************************************)
NoStrandedDpc ==
  irql < 2 /\ dpcQ # <<>> => \E c \in Context : pc[c] = "inserted"

(***************************************************************************)
(* Liveness.  Ticks keep coming while interrupts are on, and time passes    *)
(* for every armed timer; a handler, a routine and a call go on when they   *)
(* execute; a thread gives back the lock and the IRQL it took.              *)
(***************************************************************************)
Fairness ==
  /\ SF_vars(Tick)
  /\ WF_vars(IsrStep)
  /\ WF_vars(RoutineStep)
  /\ SF_vars(RoutineReturns) /\ SF_vars(KeReleaseSpinLock(Routine))
  /\ \A t \in Thread : SF_vars(Proceed(t)) /\ SF_vars(GiveBack(t))
  /\ \A o \in Timer : SF_vars(\E due \in SUBSET Range(timers) : o \in due /\ Collect(due))

LiveSpec == Spec /\ Fairness

\* A DPC that was queued runs, or is taken back.
DpcRuns == \A d \in Dpc : queued[d] ~> ~queued[d]

\* The clock expires the timers that are due (timer.h:10-11): one stays armed
\* for ever only if it is set anew again and again.
ArmedTimerExpires ==
  \A o \in Timer :
    (<>[](o \in Range(timers)))
      => []<><<\E c \in Context : arg[c] = o /\ SetTimer(c)>>_vars
=============================================================================
