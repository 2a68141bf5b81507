----------------------------- MODULE Dispatcher -----------------------------
(***************************************************************************)
(* The thread dispatcher of the kernel on its scheduling processor (CPU 0): *)
(* the ready queue, the wait list, the quantum and the context switch of   *)
(* ke/sched.c, the dispatcher objects and waits of ke/sync.c, and the part  *)
(* of the clock interrupt that wakes timer waiters and ends quanta          *)
(* (ke/timer.c, ke/amd64/isr.c).                                            *)
(*                                                                         *)
(* Two kinds of context execute: threads and the clock interrupt Isr.  A    *)
(* thread runs with interrupts enabled except inside the sections the code  *)
(* brackets with cli; one action is one such section, or the code between   *)
(* two points at which the interrupt may hit.  Boot is the thread that runs *)
(* kmain: the code calls it the idle thread of CPU 0, but it takes part in  *)
(* the round robin.  Threads are at PASSIVE here: that the clock ends no     *)
(* quantum at DISPATCH is in TimerDpc.                                      *)
(***************************************************************************)
EXTENDS Integers, Sequences, FiniteSets, SequencesExt

CONSTANTS
  Worker,      \* threads made by ki_create_thread
  Boot,        \* the idle/boot thread of CPU 0
  Isr,         \* the clock interrupt (vector 0xD1)
  Object,      \* dispatcher objects
  Type,        \* Header.Type of each object
  Periodic,    \* timers set with Period > 0
  Quantum,     \* s_quantum_default
  WakeBatch,   \* size of the local batch of ki_wake
  MaxCount,    \* bound: no semaphore is released above it
  Client,      \* threads that wait on objects
  Finite,      \* TRUE when clients also pass finite timeouts
  Drivers,     \* TRUE when drivers are loaded: DriverEntry opens a legacy window
  EarlyExe,    \* TRUE when an .exe that joins threads runs before preemption is on
  NONE

Thread  == Worker \cup {Boot}
Context == Thread \cup {Isr}

ObjectType == {"NotificationEvent", "SynchronizationEvent", "Mutant", "Semaphore",
               "NotificationTimer", "SynchronizationTimer"}
OfType(types) == {o \in Object : Type[o] \in types}
Event     == OfType({"NotificationEvent", "SynchronizationEvent"})
Mutant    == OfType({"Mutant"})
Semaphore == OfType({"Semaphore"})
Timer     == OfType({"NotificationTimer", "SynchronizationTimer"})

ASSUME ContextsDistinct ==
  /\ Boot \notin Worker
  /\ Isr \notin Worker \cup {Boot}
  /\ NONE \notin Worker \cup {Boot, Isr} \cup Object
ASSUME ParametersOK ==
  /\ IsFiniteSet(Worker)
  /\ Type \in [Object -> ObjectType]
  /\ Periodic \subseteq Timer
  /\ Client \subseteq Worker \cup {Boot}
  /\ Quantum \in Nat \ {0}
  /\ WakeBatch \in Nat \ {0}
  /\ MaxCount \in Nat \ {0}
  /\ Finite \in BOOLEAN
  /\ Drivers \in BOOLEAN
  /\ EarlyExe \in BOOLEAN

VARIABLES
  current,     \* prcb.current_thread
  readyQ,      \* prcb.ready_head
  state,       \* KTHREAD.state
  quantum,     \* KTHREAD.quantum of the workers (Boot's is never read)
  waitList,    \* s_wait_list
  waitObject,  \* KTHREAD.wait_object
  signal,      \* Header.SignalState
  claims,      \* mutants a thread was told it acquired and has not released
  pc,          \* where each context is in the kernel
  target,      \* the object, or the joined thread, of the call it is in
  batch,       \* the local batch of ki_wake
  prev,        \* the count KeReleaseSemaphore read
  armed,       \* timers on s_timers
  expired,     \* the local batch of KiTimerTick
  p4,          \* g_p4_active
  legacy       \* ke_legacy_active()

schedVars == <<current, readyQ, state, quantum>>
waitVars  == <<waitList, waitObject>>
callVars  == <<pc, target, batch, prev>>
timerVars == <<armed, expired>>
modeVars  == <<p4, legacy>>
vars == <<schedVars, waitVars, signal, claims, callVars, timerVars, modeVars>>

ThreadState == {"NEW", "READY", "RUNNING", "WAITING", "TERMINATED"}
ThreadPC == {"run", "wait", "add", "signalled", "scan", "ready", "join", "exit"}
IsrPC    == {"idle", "expire", "signalled", "scan", "ready", "rearm"}
ObjectPC == {"wait", "add", "signalled", "scan", "ready", "rearm"}   \* about an object

TypeOK ==
  /\ current \in Thread
  /\ readyQ \in Seq(Thread)
  /\ state \in [Thread -> ThreadState]
  /\ quantum \in [Worker -> 1 .. Quantum]
  /\ waitList \in Seq(Thread)
  /\ waitObject \in [Thread -> Object \cup {NONE}]
  /\ signal \in [Object -> Nat]
  /\ claims \in [Thread -> SUBSET Mutant]
  /\ pc \in [Context -> ThreadPC \cup IsrPC]
  /\ \A t \in Thread : pc[t] \in ThreadPC
  /\ pc[Isr] \in IsrPC
  /\ target \in [Context -> Object \cup Worker \cup {NONE}]
  /\ \A c \in Context : pc[c] \in ObjectPC => target[c] \in Object
  /\ batch \in [Context -> Seq(Thread)]
  /\ prev \in [Thread -> Nat]
  /\ armed \subseteq Timer
  /\ expired \subseteq Timer
  /\ p4 \in BOOLEAN
  /\ legacy \in BOOLEAN

Init ==
  /\ current = Boot
  /\ readyQ = <<>>
  /\ state = [t \in Thread |-> IF t = Boot THEN "RUNNING" ELSE "NEW"]
  /\ quantum = [t \in Worker |-> Quantum]
  /\ waitList = <<>>
  /\ waitObject = [t \in Thread |-> NONE]
  /\ signal = [o \in Object |-> IF Type[o] = "Mutant" THEN 1 ELSE 0]
  /\ claims = [t \in Thread |-> {}]
  /\ pc = [c \in Context |-> IF c = Isr THEN "idle" ELSE "run"]
  /\ target = [c \in Context |-> NONE]
  /\ batch = [c \in Context |-> <<>>]
  /\ prev = [t \in Thread |-> 0]
  /\ armed = {}
  /\ expired = {}
  /\ p4 = FALSE
  /\ legacy = FALSE

-----------------------------------------------------------------------------
\* Who executes.  The interrupt gate clears IF, so the clock interrupt runs to
\* its end; a thread is interruptible outside cli and outside a system call.

Executing(c) ==
  IF c = Isr THEN pc[Isr] # "idle" ELSE pc[Isr] = "idle" /\ c = current

InCode(t) == Executing(t) /\ pc[t] = "run"

Interruptible(t) == pc[t] \notin {"scan", "join"}

Goto(c, label, what) ==
  /\ pc' = [pc EXCEPT ![c] = label]
  /\ target' = [target EXCEPT ![c] = what]

Return(c) == Goto(c, "run", NONE)

-----------------------------------------------------------------------------
\* The switch at the end of ki_quantum_end, the current thread having been put
\* in the states `st` by its caller.  The idle thread is requeued like any
\* other and keeps RUNNING while queued.

NextThread == IF readyQ = <<>> THEN Boot ELSE Head(readyQ)

RequeuedWhileWaiting(st) == st[current] # "TERMINATED"    \* a mutant
RequeuedWhenDead(st)     == st[current] # "WAITING"       \* a mutant

Requeued(st) == st[current] \notin {"TERMINATED", "WAITING"}

SwapRequeuesAtHead(st) ==                                 \* a mutant
  IF NextThread = current
  THEN state' = st /\ UNCHANGED <<current, readyQ>>
  ELSE /\ current' = NextThread
       /\ readyQ' = LET rest == IF readyQ = <<>> THEN <<>> ELSE Tail(readyQ)
                    IN IF Requeued(st) THEN <<current>> \o rest ELSE rest
       /\ state' = [st EXCEPT
            ![current]    = IF Requeued(st) /\ current # Boot THEN "READY" ELSE @,
            ![NextThread] = "RUNNING"]

Swap(st) ==
  IF NextThread = current
  THEN state' = st /\ UNCHANGED <<current, readyQ>>
  ELSE LET rest == IF readyQ = <<>> THEN <<>> ELSE Tail(readyQ) IN
       /\ current' = NextThread
       /\ readyQ' = IF Requeued(st) THEN Append(rest, current) ELSE rest
       /\ state' = [st EXCEPT
            ![current]    = IF Requeued(st) /\ current # Boot THEN "READY" ELSE @,
            ![NextThread] = "RUNNING"]

\* ki_yield_processor: the quantum is forced to zero, so ki_quantum_end refills
\* it and switches.
YieldProcessor(st) ==
  /\ Swap(st)
  /\ quantum' = IF current \in Worker THEN [quantum EXCEPT ![current] = Quantum]
                ELSE quantum

QuantumEndLate ==                                         \* a mutant
  IF current \in Worker /\ quantum[current] > 0
  THEN /\ quantum' = [quantum EXCEPT ![current] = @ - 1]
       /\ UNCHANGED <<current, readyQ, state>>
  ELSE YieldProcessor(state)

\* ki_quantum_end from the clock: the idle thread always gives way.
QuantumEnd ==
  IF current \in Worker /\ quantum[current] > 1
  THEN /\ quantum' = [quantum EXCEPT ![current] = @ - 1]
       /\ UNCHANGED <<current, readyQ, state>>
  ELSE YieldProcessor(state)

\* ki_ready_thread (every caller passes affinity 0): tail of CPU 0's queue.  The
\* READY it stores before the cli is merged with the insertion: in between the
\* thread is in no list, where no one looks at its state.
Enqueue(u) ==
  /\ readyQ' = Append(readyQ, u)
  /\ state' = [state EXCEPT ![u] = "READY"]
  /\ UNCHANGED <<current, quantum>>

\* Boot creates and starts workers; so may any thread (NtCreateThread).
Launch(t, u) ==
  /\ InCode(t)
  /\ state[u] = "NEW"
  /\ Enqueue(u)
  /\ UNCHANGED <<waitVars, signal, claims, callVars, timerVars, modeVars>>

\* The entry routine returned, or NtTerminateThread: the thread marks itself (the
\* ki_wake of its own KTHREAD finds no waiter: joins do not block) ...
Exit(t) ==
  /\ InCode(t)
  /\ t \in Worker
  /\ state' = [state EXCEPT ![t] = "TERMINATED"]
  /\ Goto(t, "exit", NONE)
  /\ UNCHANGED <<current, readyQ, quantum, waitVars, signal, claims, batch, prev,
                 timerVars, modeVars>>

\* ... and yields for ever.
ExitYield(t) ==
  /\ Executing(t)
  /\ pc[t] = "exit"
  /\ YieldProcessor(state)
  /\ UNCHANGED <<waitVars, signal, claims, callVars, timerVars, modeVars>>

\* NtWaitForSingleObject on a thread: a yield loop with interrupts disabled.
Join(t, u) ==
  /\ InCode(t)
  /\ t # u
  /\ state[u] # "NEW"
  /\ p4 \/ EarlyExe
  /\ Goto(t, "join", u)
  /\ UNCHANGED <<schedVars, waitVars, signal, claims, batch, prev, timerVars, modeVars>>

JoinYieldAsWaiting(t) ==                                  \* a mutant
  /\ Executing(t)
  /\ pc[t] = "join"
  /\ state[target[t]] # "TERMINATED"
  /\ YieldProcessor([state EXCEPT ![t] = "WAITING"])
  /\ UNCHANGED <<waitVars, signal, claims, callVars, timerVars, modeVars>>

JoinYield(t) ==
  /\ Executing(t)
  /\ pc[t] = "join"
  /\ state[target[t]] # "TERMINATED"
  /\ YieldProcessor(state)
  /\ UNCHANGED <<waitVars, signal, claims, callVars, timerVars, modeVars>>

JoinReturns(t) ==
  /\ Executing(t)
  /\ pc[t] = "join"
  /\ state[target[t]] = "TERMINATED"
  /\ Return(t)
  /\ UNCHANGED <<schedVars, waitVars, signal, claims, batch, prev, timerVars, modeVars>>

-----------------------------------------------------------------------------
\* Waits.

ConsumedMutantKept(o) ==                                  \* a mutant
  CASE Type[o] = "Semaphore" -> IF signal[o] > 0 THEN signal[o] - 1 ELSE signal[o]
    [] Type[o] \in {"SynchronizationEvent", "SynchronizationTimer"} -> 0
    [] OTHER -> signal[o]

\* sc_consume: what satisfying a wait does to SignalState.
Consumed(o) ==
  CASE Type[o] \in {"NotificationEvent", "NotificationTimer"} -> signal[o]
    [] Type[o] = "Semaphore" -> IF signal[o] > 0 THEN signal[o] - 1 ELSE signal[o]
    [] OTHER -> 0

\* A wait on o told t SUCCESS: of a mutant, t now believes it is the owner.
Claim(t, o) ==
  claims' = IF o \in Mutant THEN [claims EXCEPT ![t] = @ \cup {o}] ELSE claims

CanBlock(t) == p4 /\ t # Boot

\* KeWaitForSingleObject with no timeout: one turn of its loop is atomic (cli).
\* A mutant has no owner: its caller must not wait for one it already holds.
KeWaitForSingleObject(t, o) ==
  /\ InCode(t)
  /\ t \in Client
  /\ o \notin claims[t]
  /\ Goto(t, "wait", o)
  /\ UNCHANGED <<schedVars, waitVars, signal, claims, batch, prev, timerVars, modeVars>>

Waiting(t) == Executing(t) /\ pc[t] = "wait"

WaitSatisfied(t) ==
  /\ Waiting(t)
  /\ signal[target[t]] > 0
  /\ signal' = [signal EXCEPT ![target[t]] = Consumed(target[t])]
  /\ Claim(t, target[t])
  /\ Return(t)
  /\ UNCHANGED <<schedVars, waitVars, batch, prev, timerVars, modeVars>>

\* Legacy mode, or a thread that may not block: SUCCESS without the signal.
WaitAutoResolved(t) ==
  /\ Waiting(t)
  /\ signal[target[t]] = 0
  /\ legacy \/ ~CanBlock(t)
  /\ Claim(t, target[t])
  /\ Return(t)
  /\ UNCHANGED <<schedVars, waitVars, signal, batch, prev, timerVars, modeVars>>

\* ki_block_current and the switch, in one cli section.
WaitBlocks(t) ==
  /\ Waiting(t)
  /\ signal[target[t]] = 0
  /\ ~legacy /\ CanBlock(t)
  /\ waitObject' = [waitObject EXCEPT ![t] = target[t]]
  /\ waitList' = Append(waitList, t)
  /\ YieldProcessor([state EXCEPT ![t] = "WAITING"])
  /\ UNCHANGED <<signal, claims, callVars, timerVars, modeVars>>

\* A zero timeout polls; a finite one answers SUCCESS whatever the signal.
KeWaitWithTimeout(t, o, zero) ==
  /\ InCode(t)
  /\ t \in Client
  /\ o \notin claims[t]
  /\ zero \/ Finite
  /\ IF signal[o] > 0
     THEN signal' = [signal EXCEPT ![o] = Consumed(o)] /\ Claim(t, o)
     ELSE UNCHANGED signal /\ IF zero THEN UNCHANGED claims ELSE Claim(t, o)
  /\ UNCHANGED <<schedVars, waitVars, callVars, timerVars, modeVars>>

\* KeWaitForMultipleObjects only polls: when the wait is satisfied it consumes,
\* and it answers SUCCESS in every case.  An unsatisfied call changes nothing, and
\* mutants are left out: its answer says nothing of who owns them.
KeWaitForMultipleObjects(t, objs, all) ==
  /\ InCode(t)
  /\ t \in Client
  /\ ~legacy
  /\ IF all THEN \A o \in objs : signal[o] > 0 ELSE \E o \in objs : signal[o] > 0
  /\ \E taken \in SUBSET objs :
       /\ IF all THEN taken = objs ELSE \E o \in objs : taken = {o} /\ signal[o] > 0
       /\ signal' = [o \in Object |-> IF o \in taken THEN Consumed(o) ELSE signal[o]]
  /\ UNCHANGED <<schedVars, waitVars, claims, callVars, timerVars, modeVars>>

-----------------------------------------------------------------------------
\* Signalling.  The store to SignalState and the call of ki_wake are separate:
\* the clock interrupt may switch threads between them.

Signal(t, o, value) ==
  /\ signal' = [signal EXCEPT ![o] = value]
  /\ Goto(t, "signalled", o)

KeSetEvent(t, o) ==
  /\ InCode(t)
  /\ o \in Event
  /\ Signal(t, o, 1)
  /\ UNCHANGED <<schedVars, waitVars, claims, batch, prev, timerVars, modeVars>>

KeResetEvent(t, o) ==
  /\ InCode(t)
  /\ o \in Event
  /\ signal' = [signal EXCEPT ![o] = 0]
  /\ UNCHANGED <<schedVars, waitVars, claims, callVars, timerVars, modeVars>>

\* Nothing in KeReleaseMutex checks the owner: callers release what they claim.
KeReleaseMutex(t, o) ==
  /\ InCode(t)
  /\ o \in claims[t]
  /\ claims' = [claims EXCEPT ![t] = @ \ {o}]
  /\ Signal(t, o, 1)
  /\ UNCHANGED <<schedVars, waitVars, batch, prev, timerVars, modeVars>>

\* KeReleaseSemaphore loads the count (it returns it) and stores the sum.
KeReleaseSemaphore(t, o) ==
  /\ InCode(t)
  /\ o \in Semaphore
  /\ signal[o] < MaxCount
  /\ prev' = [prev EXCEPT ![t] = signal[o]]
  /\ Goto(t, "add", o)
  /\ UNCHANGED <<schedVars, waitVars, signal, claims, batch, timerVars, modeVars>>

AddCount(t) ==
  /\ Executing(t)
  /\ pc[t] = "add"
  /\ Signal(t, target[t], prev[t] + 1)
  /\ prev' = [prev EXCEPT ![t] = 0]
  /\ UNCHANGED <<schedVars, waitVars, claims, batch, timerVars, modeVars>>

SkipWakeAlways(t) ==                                      \* a mutant
  /\ Executing(t)
  /\ pc[t] = "signalled"
  /\ Return(t)
  /\ UNCHANGED <<schedVars, waitVars, signal, claims, batch, prev, timerVars, modeVars>>

\* A thread that signals in legacy mode wakes nobody; the clock does not ask.
SkipWake(t) ==
  /\ Executing(t)
  /\ pc[t] = "signalled"
  /\ legacy
  /\ Return(t)
  /\ UNCHANGED <<schedVars, waitVars, signal, claims, batch, prev, timerVars, modeVars>>

\* ki_wake: with interrupts off it moves the waiters of the object, in wait
\* list order, to its batch: one of them, or as many as the batch has room for.
WakesAllEvents(o) == Type[o] \in {"NotificationEvent", "Semaphore"}     \* a mutant
WakesAll(o) == Type[o] \in {"NotificationEvent", "Semaphore", "NotificationTimer"}

WakeLimit(o) == IF WakesAll(o) THEN WakeBatch ELSE 1

WaitersOf(o) == {i \in DOMAIN waitList : waitObject[waitList[i]] = o}

Waking(c) ==
  /\ Executing(c)
  /\ \/ pc[c] = "scan"
     \/ pc[c] = "signalled" /\ (c = Isr \/ ~legacy)

TakeWaiter(c) ==
  /\ Waking(c)
  /\ Len(batch[c]) < WakeLimit(target[c])
  /\ \E i \in WaitersOf(target[c]) :
       /\ \A j \in WaitersOf(target[c]) : i <= j
       /\ waitList' = RemoveAt(waitList, i)
       /\ waitObject' = [waitObject EXCEPT ![waitList[i]] = NONE]
       /\ batch' = [batch EXCEPT ![c] = Append(@, waitList[i])]
  /\ Goto(c, "scan", target[c])
  /\ UNCHANGED <<schedVars, signal, claims, prev, timerVars, modeVars>>

ScanEnds(c) ==
  /\ Waking(c)
  /\ Len(batch[c]) >= WakeLimit(target[c]) \/ WaitersOf(target[c]) = {}
  /\ Goto(c, "ready", target[c])
  /\ UNCHANGED <<schedVars, waitVars, signal, claims, batch, prev, timerVars, modeVars>>

\* Interrupts are back on, and the batch is readied one thread at a time.
ReadyWoken(c) ==
  /\ Executing(c)
  /\ pc[c] = "ready"
  /\ batch[c] # <<>>
  /\ Enqueue(Head(batch[c]))
  /\ batch' = [batch EXCEPT ![c] = Tail(@)]
  /\ UNCHANGED <<waitVars, signal, claims, pc, target, prev, timerVars, modeVars>>

WakeReturns(c) ==
  /\ Executing(c)
  /\ pc[c] = "ready"
  /\ batch[c] = <<>>
  /\ IF c = Isr THEN Goto(c, "rearm", target[c]) ELSE Return(c)
  /\ UNCHANGED <<schedVars, waitVars, signal, claims, batch, prev, timerVars, modeVars>>

-----------------------------------------------------------------------------
\* Timers (their lock and their DPCs are modelled in TimerDpc) and the clock.

KeSetTimer(t, o) ==
  /\ InCode(t)
  /\ ~legacy
  /\ armed' = armed \cup {o}
  /\ signal' = [signal EXCEPT ![o] = 0]
  /\ UNCHANGED <<schedVars, waitVars, claims, callVars, expired, modeVars>>

KeCancelTimer(t, o) ==
  /\ InCode(t)
  /\ ~legacy
  /\ o \in armed
  /\ armed' = armed \ {o}
  /\ UNCHANGED <<schedVars, waitVars, signal, claims, callVars, expired, modeVars>>

\* Vector 0xD1.  Time is abstract: any set of the armed timers may be due.
Tick(due) ==
  /\ pc[Isr] = "idle"
  /\ Interruptible(current)
  /\ armed' = armed \ due
  /\ expired' = due
  /\ Goto(Isr, "expire", NONE)
  /\ UNCHANGED <<schedVars, waitVars, signal, claims, batch, prev, modeVars>>

ExpireTimer(o) ==
  /\ pc[Isr] = "expire"
  /\ o \in expired
  /\ expired' = expired \ {o}
  /\ Signal(Isr, o, 1)
  /\ UNCHANGED <<schedVars, waitVars, claims, batch, prev, armed, modeVars>>

\* A periodic timer goes back to the list, and its signal is taken back.
TimerDone ==
  /\ pc[Isr] = "rearm"
  /\ LET o == target[Isr] IN
       IF o \in Periodic
       THEN armed' = armed \cup {o} /\ signal' = [signal EXCEPT ![o] = 0]
       ELSE UNCHANGED <<armed, signal>>
  /\ Goto(Isr, "expire", NONE)
  /\ UNCHANGED <<schedVars, waitVars, claims, batch, prev, expired, modeVars>>

InterruptReturns ==
  /\ pc[Isr] = "expire"
  /\ expired = {}
  /\ IF p4 THEN QuantumEnd ELSE UNCHANGED schedVars
  /\ Goto(Isr, "idle", NONE)
  /\ UNCHANGED <<waitVars, signal, claims, batch, prev, timerVars, modeVars>>

-----------------------------------------------------------------------------
\* Modes, changed by the boot thread only.

EnablePreemption ==
  /\ InCode(Boot)
  /\ ~p4
  /\ p4' = TRUE
  /\ UNCHANGED <<schedVars, waitVars, signal, claims, callVars, timerVars, legacy>>

\* The window of DriverEntry, during which g_pintok_trace selects legacy mode.
DriverWindow ==
  /\ InCode(Boot)
  /\ Drivers
  /\ legacy' = ~legacy
  /\ UNCHANGED <<schedVars, waitVars, signal, claims, callVars, timerVars, p4>>

-----------------------------------------------------------------------------
\* What a thread starts by itself, and what it must go on with once in the kernel.

Call(t) ==
  \/ \E u \in Worker : Launch(t, u) \/ Join(t, u)
  \/ Exit(t)
  \/ \E o \in Object :
       \/ KeWaitForSingleObject(t, o)
       \/ \E zero \in BOOLEAN : KeWaitWithTimeout(t, o, zero)
       \/ KeSetEvent(t, o)
       \/ KeResetEvent(t, o)
       \/ KeReleaseMutex(t, o)
       \/ KeReleaseSemaphore(t, o)
  \/ \E objs \in SUBSET (Object \ Mutant), all \in BOOLEAN :
       objs # {} /\ KeWaitForMultipleObjects(t, objs, all)
  \/ \E o \in Timer : KeSetTimer(t, o) \/ KeCancelTimer(t, o)

WakeStep(c) == TakeWaiter(c) \/ ScanEnds(c) \/ ReadyWoken(c) \/ WakeReturns(c)

KernelStep(t) ==
  \/ WaitSatisfied(t) \/ WaitAutoResolved(t) \/ WaitBlocks(t)
  \/ AddCount(t) \/ SkipWake(t) \/ WakeStep(t)
  \/ ExitYield(t) \/ JoinYield(t) \/ JoinReturns(t)

IsrStep ==
  \/ \E o \in Timer : ExpireTimer(o)
  \/ WakeStep(Isr)
  \/ TimerDone
  \/ InterruptReturns

ModeStep == EnablePreemption \/ DriverWindow

Next ==
  \/ \E t \in Thread : Call(t) \/ KernelStep(t)
  \/ \E due \in SUBSET armed : Tick(due)
  \/ IsrStep
  \/ ModeStep

Spec == Init /\ [][Next]_vars
=============================================================================
