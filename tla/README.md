# MeuOS: models, checks and proofs

MeuOS is a 64-bit hobby kernel written after the structure of Windows NT: an
executive and a kernel in `src/src/ntos`, a hardware layer in `src/src/hal`,
drivers in `src/src/drivers`, windowing in `src/src/subsystems`, and ring-3
libraries and programs in `src/dll` and `src/apps`. Paths below are relative to
`src/src/ntos` unless they say otherwise.

The development has three layers. The concurrent core (threads, waits, timers,
deferred calls, executive locks, request packets) is modelled with every step
another context can come between, is checked for safety, liveness and
refinement, and is what the proofs are about. The services of the kernel and
its drivers are modelled call by call, or access by access where an interrupt
or the hardware comes in between. The user libraries that keep objects in
slots are modelled by what creation, sharing and release do to the slots.

- What there is and what is hard about it: section 1. Modules: section 2.
- How the modules stand for the code: sections 3 to 7.
- Runs, bounds, findings, fairness: section 8. Proofs: section 9.
- What is not modelled: section 10.

## 1. Inventory

| Part | State it keeps | Operations | What is hard | Correct when |
|---|---|---|---|---|
| Scheduler, `ke/sched.c` | current thread, ready list, wait list; state, quantum and intrusive links of a KTHREAD | create, ready, quantum end, yield, block, wake, exit | the clock comes between any two steps outside `cli`; threads travel between three lists and a local batch | a thread is in exactly the list its state names; round robin starves nobody |
| Dispatcher objects, `ke/sync.c` | `SignalState` | wait, poll, set, reset, release | woken threads recheck, so a signal may be gone; modes in which waits succeed unsignalled | no lost wakeup, one owner of a mutant, signals reach somebody |
| IRQL, spin locks, `ke/sync.c` | `KPCR.Irql`, `KSPIN_LOCK` | raise, lower (drains DPCs), acquire, release | threads, DPC routines and the clock share them on one processor | nobody spins above the holder; the IRQL is restored |
| DPCs, `ke/dpc.c` | queue, lock, pending flag, `KDPC.Number` | insert, remove, retire, check | insertion from the interrupt; draining inside any lower | queue, flags and pending agree; a queued DPC runs, at DISPATCH |
| Timers, `ke/timer.c` | armed list, lock, due time, signal | set, cancel, tick | edited by threads and by the interrupt; batch of 16; rearming | linked once; an armed timer expires and releases waiters |
| Executive locks, `ex/ex_sync.c` | count, owner, event of FAST_MUTEX and of ERESOURCE | acquire, try, release | interlocked word and event are separate; events coalesce | exclusion, handed on to a waiter |
| Request packets, `io/io.c` | stack locations, status block, event | allocate, send, complete, cancel, free | walk stopped and resumed by drivers, cancelled at any time | each routine once, in stack order, for its installer |
| Drivers and devices, `io/driver.c`, `io/io.c`, `ex/callbacks.c` | tables of drivers, devices, links, callbacks | load, unload, attach, detach, register | `IoDeleteDevice` does nothing; cookies; tables of fixed size | stacks and links match; a cookie takes back what it registered |
| Objects, processes, `ob`, `ps` | headers, names, handles, CID table, ring-3 threads | create, insert, open, close, terminate, join | arrays that fill up silently; nested programs; slots reused | counts exact, ids unique among the living, a wait is for its own thread |
| Files and pipes, `ke/amd64/syscall.c`, `lpc/pipe.c` | file objects, ring of bytes, one directory cursor | open, read, write, list, close | one cursor for every handle; wrap and fill | bytes in order; a listing that claims to be complete is |
| Memory, `mm`, `ex/pool.c` | block list, frame bitmap, page tables | allocate, free, map, fault, build and tear down a space | exhaustion half way; shared tables | blocks tile the heap; each frame is counted once |
| Registry, `cm/registry.c` | tree of keys, handles | create, open, set, delete | keys made below deleted ones; handles to keys without headers | a path names one key; deleted keys stay gone |
| Loader, `ldr` | table of modules, memory | load, relocate, bind | import cycles, contracts, delayed imports | loading ends, pointers lead into the right image |
| Volume and disk, `drivers/filesystems/ntfs`, `hal/disk.c` | records of two sectors; one polled ATA drive | create, write, delete; read, write, flush | power or a sector fails between two writes; late answers | entries lead to records in use; a sector is what was written last |
| Display, tablet, PS/2, `drivers` | virtqueues, set-up state, ring of characters | commands, events, polling, set-up | no locks; partial set-up; interrupts read the same port | an answer is for its sender; events once and in order |
| Interrupts, faults, processors, `ke/amd64` | vectors, routes, in-service bits, fault history, trampoline slots | connect, dispatch, end, retry, start | change-over from 8259 to APIC; late processors | nothing stays in service; two processors never share a stack |
| Windows, `subsystems/win32` | message ring, windows, focus, shell | post, get, create, destroy, mouse, keys | interrupts post into the ring; ring overflows | order, coalesced paints, counts; a quit ends the loop |
| Libraries, `src/dll/win32` | slots with reference counts, streams, tables of handles | create, query, release, present, play | slots reused while somebody has the old address | counts match what clients hold |

How they interact. Threads call dispatcher objects; waits move them to the wait
list; signals from threads or the clock move them back. The clock calls the
timers, which signal, queue DPCs and rearm; then, if the IRQL allows, it ends a
quantum. DPCs are drained by whoever lowers the IRQL. The executive's locks rest
on interlocked words and on events. System calls come through an interrupt gate
and run with interrupts off, so one is a single step for everything but the
hardware and the other processors, which only idle; the exception is
`NtUserGetMessage`, which executes `sti; hlt` (`subsystems/win32/win32kbase.c:928`).
Kernel threads, and the boot code after `init/main.c:315`, are preemptible. One
flag, `ke_legacy_active()` (`ntoskrnl.c:1324`), switches waits, signals and timers
to an older behaviour while a driver's `DriverEntry` runs (`io/driver.c:257-278`);
another, `g_p4_active` (`init/main.c:268`), turns preemption on at the end of
boot. `PROJECT.json` lists each place where this is hard to test, with the
property that watches it.

## 2. Modules

| Module | Code |
|---|---|
| `Dispatcher` | `ke/sched.c`, waits and signals of `ke/sync.c`, the waking half of `ke/timer.c`, quantum end, joins |
| `ThreadLifecycle` | abstract: what the dispatcher promises of threads |
| `TimerDpc` | IRQL, spin lock, DPC queue, timer list, clock interrupt, with their locks |
| `ExSync` | FAST_MUTEX and ERESOURCE |
| `SharedExclusiveLock` | abstract: a lock, implemented by both |
| `IrpStack` | a request packet on a stack of devices |
| `CompletionChain` | abstract: what completing a request promises |
| `MessageQueue`, `Desktop` | the ring of messages; windows, focus and shell over it |
| `ObjectManager`, `ProcessManager`, `FileServices` | `ob`; `ps` and the calls on processes; files, pipes and directories |
| `KernelHeap`, `PhysicalMemory` | heap, pool, MDLs and sections; frames, regions and address spaces |
| `DriverManager`, `Registry`, `ImageLoader` | `io/driver.c`, devices, callbacks; `cm`; `ldr` |
| `NtfsVolume` | writing to the volume, and the disk below it |
| `VirtioQueue`, `GpuDisplay` | control queue of the display and event queue of the tablet; detection and set-up of the display |
| `InterruptObjects`, `TrapDispatch`, `ProcessorStart` | `kinterrupt.c`; `isr.c`, `apic.c`, `pic.c` and the PS/2 drivers; `smp.c` |
| `ComObjects` | slots with counts, on which the libraries below are built |
| `Direct3D11`, `Direct3D12`, `Direct2D`, `Dxgi`, `LegacyDirectX`, `AudioClients` | graphics and audio libraries (`Direct2D` has d2d1 and dwrite; `Dxgi` dxgi and dxcore; `LegacyDirectX` ddraw, d3d9, dsound; `AudioClients` mmdevapi, audioses) |
| `ComBase`, `SlotTables`, `Libraries` | streams and strings of combase; ws2_32, secur32, credui, winmm, user32; all libraries, one loaded |
| `DispatcherProps`; the ends of `TimerDpc`, `ExSync` and `IrpStack` | invariants, refinements, fairness and liveness of the core |
| `DispatcherProofs`, `TimerDpcProofs`, `ExSyncProofs`, `IoProofs`, `ServiceProofs`, `DriverProofs`, `DeviceProofs`, `SystemProofs` | theorems |
| `MCDispatcher`, `MCTimerDpc`, `MCDelivery`, `MCServices` | instances for TLC |

`Dispatcher` and `TimerDpc` cut the kernel at the timer: the first has the
signal, the waiters and the rearming of a timer but not its list lock or DPC; the
second has lock, list and DPC but abstracts the scheduler to the choice of a
thread. `ExSync` uses the result of `Dispatcher`: a thread that may block goes on
from a wait when it finds the event signalled and consumes it. `ProcessManager`
and `FileServices` are written over `ObjectManager`, `Desktop` over
`MessageQueue`. `MCDelivery` composes three chains of delivery and `MCServices`
the services; the parts of one composition share no state, so one of them runs
in each behaviour (`chain`, `part`) and the others rest. Definitions marked
`\* a mutant` are deliberate errors, each tied to a property in `PROJECT.json`:
put in place of the correct definition it must break it.

## 3. Dispatcher

State. `current`, `readyQ`, `waitList` are `prcb.current_thread`,
`prcb.ready_head`, `s_wait_list`; `state`, `quantum`, `waitObject` are fields
of KTHREAD; `signal` is `Header.SignalState`; `batch[c]` is the local array of
`ki_wake` in context `c`; `armed`, `expired` are the timer list and the batch of
`KiTimerTick`; `p4`, `legacy` are the two mode flags; `pc` and `target` say
where each context is in the kernel. `claims` is a history variable: mutants
whose wait told a thread SUCCESS (the code keeps no owner it checks).

Contexts. One processor runs threads (`Boot` is the thread of `kmain`, which
the code calls idle and which joins the round robin) and the clock interrupt
`Isr`. A section between `cli` and its restore is one action, or several that
`Interruptible` keeps the clock out of (`scan`, the walk of the wait list; `join`,
the system call's yield loop). Everywhere else `Tick` may come first.

| Code | Action |
|---|---|
| `ki_create_thread` + `ki_ready_thread` | `Launch`, `Enqueue` |
| `ki_quantum_end`, `ki_yield_processor` | `QuantumEnd`, `Swap`, `YieldProcessor` |
| `KeWaitForSingleObject_k` | `KeWaitForSingleObject`, then `WaitSatisfied`, `WaitAutoResolved` or `WaitBlocks`, again after each wake; `KeWaitWithTimeout` |
| `KeWaitForMultipleObjects_k` | `KeWaitForMultipleObjects` |
| `KeSetEvent_k`, `KeReleaseMutex_k`, `KeReleaseSemaphore_k` | same names, then `SkipWake` or `ki_wake` |
| `ki_wake` | `TakeWaiter`*, `ScanEnds`, `ReadyWoken`*, `WakeReturns` |
| `KiTimerTick` | `Tick`, `ExpireTimer`, `ki_wake`, `TimerDone` |
| thread end, join | `Exit`, `ExitYield`, `Join`, `JoinYield`, `JoinReturns` |
| `enable_preemption`, the window of `DriverEntry` | `EnablePreemption`, `DriverWindow` |

Environment assumptions: a thread releases only mutants it was told it owns and
does not wait for one it owns; threads launch each worker once; the boot thread
does not terminate.

## 4. TimerDpc

Contexts are layered: threads, the DPC routine that is running (`Routine`, run
by `drainer`), the clock. `Executing` gives the processor to the topmost one: a
routine called by a thread may be interrupted, one called by the interrupt runs
above it. `timerLock` and `dpcLock` are the test-and-set locks `s_tlock` and
`s_lock`; taking one is a step that waits (a spin), and it is here that the
interrupt can spin on its own processor. `raised`, `spinOwner` describe callers
(who raised the IRQL, who holds the drivers' lock). `Masked` names the services
called with interrupts off, as every `int 0x80` system call does; when it is
empty the services are called by preemptible kernel threads.

`KeLowerIrql` is three steps, as in the code: check `s_pending`, drain if set,
write the IRQL. `DrainIfPassive` of `KeInsertQueueDpc` enters the same steps.

## 5. ExSync

Each interlocked access of `ex/ex_sync.c` is an action. `count`, `owner`, `event`
are the fields of FAST_MUTEX, `activeCount`, `ownerThread`, `resEvent` those of
ERESOURCE, `seen[t]` the count a shared acquire loaded. Threads outside
`Blocking` (the boot thread) have their waits resolved at once, so they may use
the resource, whose waits retry, but not the mutex, whose wait does not.

## 6. IrpStack

One packet at a time (it runs in `Delivery`), on devices numbered by height. `current` is both
`CurrentLocation` and the pointer that moves with it (the walk's `sp` is always
one below); `loc[i]` keeps of a location the device, the completion routine (as
who registered it) and its Control bits; `iosb` and `event` are what `UserIosb`
and `UserEvent` point to. `stage` and `holder` say what happens to the packet and
who has it, `caller` is the originator's thread.

| Code | Action |
|---|---|
| `io_alloc_irp` and the builders | `IoAllocateIrp`, `Send` |
| skip / copy / copy and register, then `IoCallDriver` | `Forward`, by `Prepared` and `IoCallDriver` |
| a driver completes, or queues and completes later | `Complete`, `Queue` |
| turns of the loop of `IoCompleteRequest_k` | `Climb`; the routine's answer `RoutineReturns` or `RoutineKeeps` (MORE_PROCESSING_REQUIRED); `WriteUserIosb`, `SignalUserEvent` |
| completing or sending a kept packet again | `Complete`, `Resend` |
| `IoCancelIrp_k` from another thread, at any time | `IoCancelIrp` |
| waiting for the event, `io_free_irp` | `CallReturns`, `IoFreeIrp` |

The walk is interleaved with the cancelling thread and with the originator, whose
call may have come back. Drivers follow the protocol: only the holder completes or
sends; each forwards once. Three more assumptions are named in the module: the
originator allocates a location per device (`SizesOK`; the builders allocate one,
which `io/io.h:52-53` says is for drivers that do not chain); a device without a
dispatch function (`Deaf`) is not found on a second way down; the originator waits
for the event, where the system calls free at once because the repository's own
drivers complete in their dispatch functions. `PendingReturned` is not modelled:
nothing in the repository reads it.

`ImplementsChain` maps the locations from the current one up to the stack of
`CompletionChain`: routines run in the opposite order of registration, once
each, for the party that registered, and only on the outcomes asked for.

## 7. Services, hardware and libraries

Each part is a set of actions, one per call of the code, over the tables the code
keeps; a call that an interrupt, the hardware or a second processor can come into
is several. History variables, said to be so where they are declared, remember what a
property has to tell apart; where the code is right only as long as something
rare does not happen, the ghost says whether it did, and the property says that
nothing else breaks it.

| Part | What a step is | What the property says |
|---|---|---|
| processes (`ProcessManager` over `ObjectManager`) | a system call; programs nest, since `NtCreateProcess` runs the program before it returns | counts of handles and ids are exact, live processes and threads are listed, a wait is for its own thread and ends no earlier (`ObjectTablesSound`) |
| files (`FileServices`) | a system call on a device, a pipe or a directory | a pipe is a queue whose state follows from who came; a listing nobody disturbed is complete, though all handles share one cursor (`FilesSound`) |
| heap, frames (`KernelHeap`, `PhysicalMemory`) | `kmalloc`, `kfree` and their callers; a frame, a region, a fault, building and tearing down a space, each of which may run out | blocks tile the heap, frames and tables are counted once, all spaces share the kernel's half (`MemorySound`) |
| drivers (`DriverManager`) | load, unload, and every call of a driver that registers something | what is registered stays until it is taken back; stacks and their sizes match (`DriversSound`); `CmUnRegisterCallback` gives no slot back (`HistoryKept`) |
| registry (`Registry`) | create along a path, open, set, delete, close | a path names one key; a deleted key is never reached again (`StoresSound`, `HistoryKept`) |
| volume, disk (`NtfsVolume`) | the write of one sector; a poll, an interrupt or a timeout of the drive | entries lead to records in use and files keep their data, through stops and failed sectors; a read is what was written last unless an abandoned command answers late (`StoresSound`) |
| gpu queue, tablet (`VirtioQueue`) | each access to a ring or the free list; the device's steps | an answer is the sender's own, no descriptor or buffer is lost, events come once and in order (`HardwareSound`) |
| display (`GpuDisplay`) | one command of the set-up, which the host may refuse | what was acquired is given back; no command goes to a device that was not set up |
| interrupts (`InterruptObjects`) | connect, disconnect, synchronize, an interrupt | a connected routine is found, an unconnected line is masked |
| traps, faults, ps2 (`TrapDispatch`) | a register access of `apic_init`, an interrupt, its end; a retry; a byte of the PS/2 controller | nothing is left in service, retries are bounded, bytes are read for what they are |
| processors (`ProcessorStart`) | a command of the boot processor, a step of a starting one | no two processors on one stack, unless one came after its slots had been rewritten |
| loader (`ImageLoader`) | a turn of `pe_bind_imports`; `binding` is the stack of its recursion | cycles end, slots and pointers lead where they should, memory given out is not overwritten (`LoadedSound`) |
| messages, desktop (`MessageQueue`, `Desktop`) | a system call; each access to the ring while interrupts are on | the queue is FIFO, paints coalesce, windows are counted, focus is a window (`DesktopSound`); a quit ends the loop (`LoopEnds`) |
| libraries | a call of a client that keeps the rules of COM | the counts in the slots are those of the references held; a slot is not reused while it is referred to, except by the library's own leaks, which the ghosts name |

Facts about the code these models rest on:

- The heap is modelled call by call. That is exact for system calls, which run
  with interrupts off; kernel threads that allocate are preemptible, and what
  happens to the block list then is listed as a hazard and not modelled.
- A pending interrupt is taken before `mouse_init` sends its next command, since
  interrupts are on there and each command is an I/O access.
- An ATA drive takes no command while it is busy or wants data, so the flush that
  follows an abandoned write is not taken.
- At this commit the boot sequence calls neither `hal_disk_init` nor
  `FsMountVolume`; only the older `main.c.old` did. The volume and the disk are
  modelled as the code their callers would run.
- A key of the registry has no object header in front of it: the words the object
  manager would read there are chosen when the key is allocated.
- Devices answer in any order the protocol allows, or never; a host may refuse
  any command of the display.

## 8. Runs

| Run | Instance | Shows | Distinct states |
|---|---|---|---|
| `Dispatcher_safety` | 3 workers, mutant, timer; quantum 2, batch 3 | no lost wakeup, mutual exclusion, types | 0.31 million |
| `Dispatcher_modes` | 2 workers, notification event, semaphore, periodic timer; every mode on | placement, `ThreadLifecycle` | 0.8 million |
| `Dispatcher_live` | 2 workers, synchronization event, one-shot timer; fair | five liveness properties | 48 thousand |
| `Dispatcher_periodic` | 2 workers, periodic timer; fair | finding 1 | first error |
| `TimerDpc_interruptible` | 2 threads, 2 timers, 2 DPCs, interrupts on | IRQL discipline, both lists, types | 0.6 million |
| `TimerDpc_masked` | 1 thread, services with interrupts off, batch 1; fair | no stranded DPC, DPCs run, timers expire | 2 thousand |
| `TimerDpc_lock`, `TimerDpc_stranded` | 1 thread | findings 2 and 3 | first error |
| `ExSync_locks` | 3 workers and the boot thread; fair | owners, hand-off, two refinements, two liveness | 0.26 million |
| `Delivery` | `chain`: a packet on 3 devices with 2 resends; a ring of 3 messages; a desktop of 2 windows over a queue of 1; fair | packet properties and `CompletionChain`, requests end; `DesktopSound`; the loop ends | 0.37 million |
| `IrpStack_copy` | 2 devices, drivers that also copy | finding 4 | first error |
| `Services` | `part`: 35 services, one at a time | types and nine groups of properties, section 7 | 0.3 million |

### 8.1 Bounds and why they are enough

Core. Three workers are the smallest number with a running thread, one in a
waker's batch and one on the wait list at once; the boot thread is a fourth. Two
suffice for liveness, where a waiter needs one thread that takes what was meant
for it. The code's quantum is 4; 2 keeps one tick that only counts down and one
that switches, and 1 (`Dispatcher_periodic`) makes every tick switch. Objects of
one type do not interact, so there is one of each type a property needs; every
type occurs in some run. `MaxCount` = 2 keeps semaphores finite. A wake batch as
large as the number of workers keeps the 16-thread limit of `ki_wake` out of reach,
and `TimerBatch` = 1 puts every timer beyond the first over the limit of
`KiTimerTick`. Time is abstract: any set of armed timers may be due at a tick.
Three devices are the smallest stack with a driver between two others; two
resends let a driver be the target of a second way down that is itself stopped
and resent. Symmetry is used only in runs without liveness.

Tables of the kernel (`MaxHandle`, `MaxAll`, `MaxNamed`, `MaxCid`, `MaxRing3`, `CbMax`,
`MaxLinks`, `MAX_MODULES`, `MaxInterrupt`, `MaxCpus`, `PF_HIST`, `PipeSize`, `VqSize`, `EvSize`,
`KBD_BUF`, `LoopCap`, `DesktopCap`, `MaxWindow`) have one to six entries, fewer than in
the code: each is large enough for two users and small enough to fill up,
which is the case a test hardly reaches. `MaxObject`, `MaxDevice`, `MaxKey`,
`MaxKeyHandle`, `MaxId` and the counts of arrivals (`MaxOut`, `MaxArrived`) bound what is
only ever created; they allow one more than the tables hold, so that a table
fills and an entry is reused. `HeapSize` holds three small blocks and what splitting
leaves over; `Frames` = 7 let an address space be built and run out at each of its
steps, with one level of tables below another (`Levels` = 2); `RecordRoom` = 5 with
`FirstCells` = 1 puts a record's entries on both of its sectors, and `MaxFailures`,
`MaxTimeouts` = 1 admit one failure, after which everything is explored. `StartBlocks`
= 5 lets memory run out in the middle of the start of a processor. `Territory`,
`Mapped` and `LastUnit` cut memory so that an image can be inside, outside and across
what the frame allocator gives out. `CalibrationTicks` = 1 for the code's 6: the ticks
are alike. The libraries name their bounds (slots and references) next to their
use, two slots and two or three references for each class: one object to lose and
one to confuse it with.

Deadlock is checked except where the system really may stop: in the `TimerDpc`
runs with services called with interrupts on, where the interrupt can spin for
ever on a lock of the thread it interrupted (that is finding 2), and in `Delivery`
and `Services`, whose parts end (a freed request, an ended loop, a halt, a set-up
that is complete) or reach their bounds.

### 8.2 Findings

1. `Dispatcher_periodic`: the tick sets the signal of a periodic timer, wakes its
   waiters and clears the signal (`ke/timer.c:120-127`), all before a waiter can
   recheck (`ke/sync.c:73`). The waiter blocks again; no expiry releases it.
   `ke/timer.c:5` says the tick signals and wakes the waiters.
2. `TimerDpc_lock`: `KeSetTimerEx` and `KeCancelTimer` hold `s_tlock` with
   interrupts on (`ke/timer.c:78`, `95`), and `KiTimerTick` takes it
   (`ke/timer.c:109`): a tick in between never returns.
3. `TimerDpc_stranded`: a DPC queued by the tick between the pending check and
   the write of the IRQL (`ke/sync.c:196-201`) stays queued at PASSIVE, although
   `ke/dpc.c:8-9` promises it runs when the IRQL falls.
4. `IrpStack_copy`: `IoCopyCurrentIrpStackLocationToNext` (`sdk/ddk/ntddk.h:467-471`
   under `src/`) copies the completion routine and Control bits of the level above
   along; a driver that registers none of its own leaves them there, and the
   routine runs a second time, for the copying driver's device. `io/io.c:195-196`
   says it is called for the device that set it.

Places where the code is right only under a condition are not findings: no text
of the repository says otherwise. The ghost in the property names the condition
(`mixed`, `evOverlap`, `late`, `sharedUse`, `early`, `disturbed`, `misread`, `abandoned`,
`crossed`, `overtaken`), and the hazard list says where it bites.

### 8.3 Fairness

`Dispatcher`: strong fairness of a thread's kernel steps (a thread that has
entered the kernel goes on when it has the processor; a quantum may end before
it moves, so weak fairness would not do, and a quantum is long enough for one
step); weak fairness of the interrupt handler (it runs with interrupts off to
its end); strong fairness of ticks, for the local APIC keeps a tick pending
while interrupts are masked, so it comes if they are unmasked again and again;
and strong fairness of each timer's expiry, for time passes. Nothing is assumed
of what threads choose to call. `TimerDpc` assumes the same of ticks, handlers and
timers, and that a thread gives back the lock and the IRQL it took. `ExSync`
assumes that threads are scheduled fairly, which `ReadyRuns` shows, and not that
holders release. `Delivery` assumes that drivers complete what they have and that
routines and the originator's thread go on, and, for the loop of messages, that
the program asks for messages and the clock ticks while the processor is halted
(weak fairness each).

## 9. Proofs

The eight proof modules hold for every value of the constants that the named
assumptions admit. Each takes the same road: an inductive invariant, one lemma
per group of actions that it is kept, and the theorem from the invariant.

`DispatcherProofs`, from `ContextsDistinct` and `ParametersOK` of `Dispatcher`:

- `TypeCorrect`: `TypeOK` is inductive as it stands because it ties `pc` to `target`
  (a context inside a call about an object has one).
- `PlacementCorrect`: `ThreadPlacement` was written to be inductive: besides no
  duplicates and no sharing among ready queue, wait list and batches it says
  what `state` and `wait_object` are in each place, and that the boot thread is
  always runnable, which makes the fallback of `ki_pick_next_locked` safe.
- `LifecycleImplemented`: `Spec => ImplementsLifecycle`. Each action maps to a step of
  `ThreadLifecycle` or to a stutter, under the two above and the invariant that a
  terminated thread that still has the processor is in its exit loop.
- `MutexCorrect`: `MutexExclusion` under `OnlyBlockingWaits` (clients are workers, no
  finite timeout, no driver window, no early executable). Without one of these a
  wait is answered SUCCESS unsignalled and exclusion really fails.
- `WakeupsKept`: `NoLostWakeup` under `EveryWaiterFits` (a wake batch has room for every
  worker, and there is no driver window). The invariant follows the signal to the waiter:
  whoever is off the processor in a wait stands at its recheck (`WaitersAtRecheck`), and
  a signal that releases every waiter has its waker at work as long as one is blocked,
  where of one that releases a single thread that thread may be on its way
  (`SignalHeard`). Without room for all, the 17th waiter is the hazard at
  `ke/sched.c:468`.

`TimerDpcProofs`, from `ContextsDistinct` and `ParametersOK` of `TimerDpc`:

- `DeferredTypeCorrect`, `IrqlDisciplineHolds`: `TypeOK` and `IrqlDiscipline`. The
  invariant, `Control`, says where each kind of context can be, that a routine runs
  exactly while somebody waits for it, and (`Levels`) that the IRQL is 2 exactly
  while the current thread or the interrupt above it has raised it. From `Levels`
  follows what IRQL a thread finds again; from `SpinHeld` (the holder is at
  DISPATCH and does not lower) that nobody spins above the holder.
- `DpcQueueCorrect`, `DeferredListsCorrect`: the two lists are sound, the timer list
  under `QuietRoutines` (no DPC routine sets a timer). The strengthening is that
  the batch of the clock and the list share no timer. The assumption is needed:
  a routine that sets the periodic timer that is being expired links it twice
  (`ke/timer.c:122-128`).
- `MaskedQueueDrained`: `NoStrandedDpc` under `MaskedCalls` (every service is called
  with interrupts off, as system calls do): then the clock comes only between
  calls, and the queue is empty when the IRQL is written. `TimerDpc_stranded`
  shows the assumption to be needed.
- The lists are filtered by a walk (`Only`), whose lemma needs induction over its
  length. The library's induction theorems cannot be instantiated here; `NoLeast`
  replaces them by well-foundedness of the natural numbers (a set of numbers with
  no least element is empty).

`ExSyncProofs`, from `ThreadsOK` (the threads are a finite set):

- `LocksTypeCorrect`, `OwnersCorrect`, `HandoffCorrect`: `TypeOK`, `OwnersHold`,
  `MutexHandoff`. The invariant counts: the count of the mutex, its event and the
  threads holding, wanting and handing over fit together, and `ActiveCount` is the
  number of sharers, or -1.
- `MutexImplementsLock`, `ResourceImplementsLock`: both refinements of
  `SharedExclusiveLock`, action by action.

`IoProofs`, the requests, from `SizesOK`, `ChoicesOK` and `OwnRoutines` (drivers skip, or copy and
register; `IrpStack_copy` shows that the last is needed):

- `PacketTypeCorrect`, `HolderCorrect`, `InstallerCorrect`: none is inductive alone. The
  strengthening, `LocationsInUse`, says of every location from the current one up
  that its device is low enough for those below to have locations left, and that
  its routine is that of the party one location above.
- `FreeCorrect`: `FreedWhenIdle`, by `SignalledLast`: the event is signalled only at
  the very end, after the status block.

`IoProofs`, the messages, from `MqTabletOK` and `DtSizesOK`:

- `DesktopCorrect`: `DesktopSound`. `QueueInv` holds the ring against the list of what was
  posted: the entries are its last ones in order (`Holds`, `EndsAt`), so that messages
  come out first in, first out. Once an interrupt has posted inside the tablet's
  `queue_post` (`overtaken`) the claim of order is no longer made. `WindowsInv`: handles
  are given in order, windows are counted, each has its own handle and the focus is one
  of them; `ShellInv`: a frame button is armed, or a window dragged, only while the mouse
  button is held, and never both. A list of messages is posted one by one
  (`PostAll`), by a recursive function whose existence is proved step by step.

`ServiceProofs`, from `ObSizesOK`, `PsSizesOK` and `FsSizesOK`:

- Both theorems rest on `ObInv`: types, exact handle counts, and names that lead to
  objects. It is kept by creating, opening and closing whatever the type.
- `FilesCorrect`: `FilesSound`, for every set of devices whose names are their own
  (`Devices`). The tables of files and pipes are the objects of their kind, names are
  unique, a pipe's state agrees with its ends, and its ring holds the bytes written
  and not read in order (`PipeOk`; positions are numbers modulo the size, so the
  remainders are lemmas). A listing that was not disturbed has shown every entry
  before its position.
- `TablesCorrect`: `ObjectTablesSound`. Client ids are given once and every entry leads to
  a live object; the threads of a process are counted. The program that runs is alive,
  and nobody has a handle to it: this is why `NtTerminateProcess` by handle cannot hit
  the caller. A wait by a recorded handle still leads to the thread it was recorded for.

`DriverProofs`, from `DmSizesOK`:

- `DriversCorrect`: `DriversSound`. `RegistrationsStand` is not inductive: that a slot
  taken back is the driver's own needs that no slot is registered twice (`SlotsOk`), and
  that the Ps functions, which take back the first slot with the routine, leave nothing
  needs the count of a driver's slots to be that of its registrations (`SlotsCounted`, a
  bijection). `StacksOk` has the way up strictly ascending, without which the loop of
  `io_top` need not end (`TopFound`).
- `CmTableFills`: `CmNeverEmptied`, one half of `HistoryKept`.
- `VolumeCorrect` (from `NtSizesOK`): `VolumeSound`. A change of the volume is a list of sectors
  still to be written, so the invariant speaks of each of them: the index on the disk lists
  no file twice and only records in use (`IndexNow`); every index still to be written, and what
  the disk holds between its two sectors, lists only records that are in use by then
  (`IndexNext`); a record that is given free is listed by none of them (`FreedUnlisted`); and
  whatever is still to be written, files that are not its target keep their data
  (`Promised`). A stop drops the rest of the list, which takes nothing of this away.
- `DiskCorrect` (from `NtSizesOK`): `DiskSound`. Where the driver is fits where the drive is
  (`StepsFit`); until a command is abandoned, the one in the drive is the driver's own
  (`CommandIsOwn`), so that what it transfers is what was written last (`WrittenArrives`).
- `DisplayCorrect`: `DisplaySound`. What is held follows from how far the set-up is, for each
  of its steps and its way back (`HeldSoFar`, `DetectedSoFar`).
- `InterruptsCorrect` (from `IoSizesOK`): `InterruptsSound`. What is connected is in the table at its own vector and
  nowhere else (`TableLive`, `NothingShared`), and a
  processor hangs only inside a `KeSynchronizeExecution` below the level of its
  interrupt (`StuckAbove`).

`DeviceProofs`, what is behind a controller or a queue, and the memory:

- `Ps2Correct` (from `Ps2SizesOK`): `Ps2Sound`. While the mouse is set up the output holds at
  most the answer of the step that waits for it (`BootSteps`); once it streams, the bytes of a
  motion stand one behind the other and the packet holds those before the one at the head
  (`Streaming`), so that a packet is never put together from two motions. What stands in the
  ring is the queue of the console, index by index modulo its size (`RingIsQueue`).
- `QueueCorrect` (from `VqSizesOK`): `QueueSound`. The free list is a list through memory, so the
  invariant has a witness for it: a function that walks the list from its head, meets every
  descriptor that is free once and none that is in a command (`Walk`, `FreeAre`). Until two
  commands were mixed at most one context sends, and how far it is says which descriptors are
  apart and what stands in the rings (`Lists`, `Rings`). Freeing a descriptor puts it before
  the walk, taking one drops the first of it (`WalkBack`, `WalkOn`); that the walk is the
  `FreeList` of the model, and that it counts `numFree`, is proved without induction.
- `TabletCorrect` (from `EvSizesOK`): `TabletSound`. The ids of the buffers go round in one order,
  of which the ring of the driver, the ring of the device and the poll that has one in hand are
  three stretches (`Turn`): the device and the poll only move the boundaries between them, and no
  buffer is lost or has two owners. What the device reported and no poll handed on is what the
  used ring holds, in order (`Unread`). All positions are numbers modulo the size or twice the
  size of the ring.

- `HeapCorrect` (from `KhSizesOK`): `HeapSound`. The model knows a block by the address of its
  header, so that the list is a set of intervals. Every block but the first has exactly one that ends
  where it starts (`OneBefore`); `Kfree` drops the headers that are joined to the one
  before, and a chain of free blocks ends at the first that is not followed by a free one. The
  counters are cardinalities of sets of pairs, whose changes need no induction.
- `FramesCorrect` (from `PmSizesOK`): `FramesSound`. One invariant
  for the uses of a frame, the trees of tables and the roots; every operation, wherever it runs
  out, is reduced to how many frames of which use it `Gains` or gives back and to which tables and
  pages it adds.

`SystemProofs`, the rest of the services and all of them together:

- `RegistryCorrect`, `DeletedCorrect` (from `RgSizesOK`): `SiblingsDistinct`, `DeletedStaysGone`. The
  tree is one of ids (`TreeOk`: a parent is older than its keys, and linked keys of one parent have
  names of their own), and a step only adds keys and unlinks them (`KeysLast`): nothing links a
  key again. A lookup is a choice
  among the keys of one list, which is unique because the list has no name twice; where a creation
  stops for lack of keys the cases of the definition overlapped, which the proof found.
- `StartCorrect` (from `SmpSizesOK`, `MadtOK`): `StartSound`. The processors whose turn has
  not come are off (`TurnOk`); one that was not late read its own slots (`OwnSlots`); those
  that woke are at most those that were sent their commands (`AwakeBefore`). The assumption
  `MadtOK`, which the proof asked for, is one the code makes silently: entry 0 of the table of
  KPRCBs is the boot processor's whatever its id, so that a processor with the id 0
  that is not the boot processor would share it.
- `TrapsCorrect` (from `TrapSizesOK`, `FaultsOK`): `TrapsSound`. How far `apic_init` is
  decides which controller delivers (`ChangeOver`); what is in service is one line of the 8259,
  one vector of the local APIC above whatever an early end left there, or nothing
  (`ServesPic`, `ServesApic`, `ServesNothing`). For the faults: every entry of the history that was
  written after another is of a fault that came since, so that at an eviction the
  distinct entries of the ring, counted by an injection, are as many others as the
  history holds.
- `StoresCorrect`, `MemoryCorrect`, `HardwareCorrect`, `HistoryCorrect`: `Spec => []StoresSound`,
  `Spec => []MemorySound`, `Spec => []HardwareSound` and `Spec => HistoryKept` for the
  composition `MCServices`. Its parts share no variable, so that every step of `Next` is a
  step of each part or leaves it alone; the theorems of the parts carry over.

Induction over numbers is replaced, in all of them, by the well-foundedness of the
naturals: a set of numbers that has no first member is empty (`NoLeast`, `NothingFirst`).

Only model-checked: all liveness and what `ENABLED` is in (out of the prover's reach);
`ImplementsChain`, whose mapping filters a sequence of records by an operator the prover
cannot expand; and the invariants `LoadedSound` (the loader, whose binding is recursive over the
data of images, and thirty libraries) and `TypeOK` of `MCServices`, a conjunction over all of them.

## 10. Not modelled

- In the modelled parts: application processors beyond their start (they only
  idle, and all callers of `ki_ready_thread` pin threads to CPU 0); the GS base and
  `TSS.rsp0` of ring-3 threads; `KeDelayExecutionThread` (a busy wait); wraparound of
  64-bit counters and the arithmetic of due times; lookaside and interlocked
  lists (one section under a spin lock each); callers inside the legacy window,
  where `TimerDpc` and `ExSync` do nothing; preemption inside the heap; copies to
  and from user memory; enumeration and queries that only read; file data outside
  its record; drawing and geometry.
- Structured exception handling (unwinding by tables the compiler makes), plug and
  play (stubs without state), processor tables (hardware set-up executed once),
  the interception of CPUID and MSR instructions, port and PCI configuration.
- Network, audio, ACPI, USB, serial, text video and filter drivers: device I/O, or
  stubs that keep little state.
- kernel32, ntdll, ucrtbase, shcore and the other user libraries marshal system
  calls, convert strings or answer with constants: their critical sections,
  condition variables and thread local storage do nothing. The applications are
  demonstrations.

What a continuation would take up first: a theorem for the libraries, the heap under
preemptible kernel threads, and the order of data clusters and records when a file
leaves its record.
