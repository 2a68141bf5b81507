------------------------------ MODULE IrpStack ------------------------------
(***************************************************************************)
(* An I/O request packet (IRP) on its way through a stack of devices and   *)
(* back: io/io.c.  A device is its height above the bottom, 1 to Depth.    *)
(* The driver of each passes the packet to the one below, completes it, or *)
(* queues it and completes it later.  Location i of the packet is used by  *)
(* one driver; the driver, or the originator, above it leaves its          *)
(* completion routine there, and IoCompleteRequest climbs from the current *)
(* location to the top.  The originator waits for the event if the call    *)
(* came back while a driver has the packet, then frees it; another thread  *)
(* of it may cancel.  One request follows another.                         *)
(*                                                                         *)
(* CurrentLocation and CurrentStackLocation move together: `current' is    *)
(* both, and `sp' of the walk is always one below.  A routine is           *)
(* represented by who registered it (its Routine and Context).  Buffers,   *)
(* parameters and SL_PENDING_RETURNED, which nothing in the kernel reads,  *)
(* are left out.                                                           *)
(***************************************************************************)
EXTENDS Integers, SequencesExt

CONSTANTS
  Depth,         \* devices in the stack
  StackCount,    \* locations of the packet
  Deaf,          \* devices whose driver may lack the dispatch function
  Ways,          \* how drivers prepare the location of the driver below
  Invokes,       \* the Control bits they register routines with
  Retries        \* bound: times a kept packet is sent down again

\* The originator asks for a location per device.
ASSUME SizesOK == Depth \in Nat \ {0} /\ StackCount \in Nat /\ StackCount >= Depth

ASSUME ChoicesOK ==
  /\ Deaf \subseteq 1..Depth
  /\ Ways \subseteq {"skip", "copy", "set"} /\ Ways # {}
  /\ Invokes \subseteq SUBSET {"success", "error", "cancel"}
  /\ Retries \in Nat

VARIABLES
  current,       \* CurrentLocation
  loc,           \* the stack locations: DeviceObject, CompletionRoutine, Control
  status,        \* IoStatus.Status
  cancel,        \* Cancel
  iosb,          \* *UserIosb
  event,         \* *UserEvent
  stage,         \* what happens to the packet
  holder,        \* who has it, or whose routine runs
  dobj,          \* the device given to the completion routine
  pended,        \* some driver has kept it: the call may come back
  caller,        \* the thread of the originator
  deaf,          \* devices without a dispatch function for this request
  resent         \* times it was sent down again

vars == <<current, loc, status, cancel, iosb, event, stage, holder, dobj, pended,
          caller, deaf, resent>>

Device == 1..Depth

NULL == 0

\* The originator registers and keeps like a driver above the top device.
Originator == Depth + 1

\* The sentinel location above the last one.
Sentinel == StackCount + 1

Location == [device : 0..Depth, routine : 0..Originator,
             control : SUBSET {"success", "error", "cancel"}]

Blank == [device |-> NULL, routine |-> NULL, control |-> {}]

NoStatus == "none"

Stage == {"built", "dispatch", "queued", "refused", "completing", "routine", "kept",
          "signalling", "done"}

Init ==
  /\ current = Sentinel /\ loc = [i \in 1..Sentinel |-> Blank]
  /\ status = "success" /\ cancel = FALSE /\ iosb = NoStatus /\ event = FALSE
  /\ stage = "done" /\ holder = Originator /\ dobj = NULL /\ pended = FALSE
  /\ caller = "freed" /\ deaf \in SUBSET Deaf /\ resent = 0

\* io_alloc_irp by the originator, which also clears its event and status block.
IoAllocateIrp ==
  /\ caller = "freed"
  /\ current' = Sentinel /\ loc' = [i \in 1..Sentinel |-> Blank]
  /\ status' = "success" /\ cancel' = FALSE /\ iosb' = NoStatus /\ event' = FALSE
  /\ stage' = "built" /\ holder' = Originator /\ pended' = FALSE
  /\ caller' = "calling" /\ resent' = 0
  /\ UNCHANGED <<dobj, deaf>>

-----------------------------------------------------------------------------
(* Down the stack.                                                         *)

\* The routine and its Control bits replace those of the location.
IoSetCompletionRoutine(l, who, invoke) ==
  [device |-> l.device, routine |-> who, control |-> invoke]

\* A location for the driver below.  IoSkipCurrentIrpStackLocation gives it the
\* own one; IoCopyCurrentIrpStackLocationToNext copies the whole own one into
\* the next, to which IoSetCompletionRoutine may add a routine; the builders of
\* the originator fill a blank one.
Prepared(way, invoke) ==
  LET next == current - 1 IN
  CASE way = "skip" -> [at |-> current + 1, loc |-> loc]
    [] way = "fill" -> [at |-> current, loc |-> loc]
    [] way = "copy" -> [at |-> current, loc |-> [loc EXCEPT ![next] = loc[current]]]
    [] way = "set"  -> [at |-> current,
                        loc |-> [loc EXCEPT ![next] =
                                   IoSetCompletionRoutine(loc[current], holder, invoke)]]

CallDriverKeepsDevice(packet, dev) == packet.loc                  \* a mutant
Addressed(packet, dev) == [packet.loc EXCEPT ![packet.at - 1].device = dev]

\* The next location becomes current.  A driver without a dispatch function
\* leaves the packet as it is, with a failure in it.
IoCallDriver(packet, dev) ==
  /\ current' = packet.at - 1
  /\ loc' = Addressed(packet, dev)
  /\ \/ dev \notin deaf /\ stage' = "dispatch" /\ holder' = dev /\ UNCHANGED status
     \/ dev \in deaf /\ stage' = "refused" /\ status' = "error" /\ UNCHANGED holder
  /\ UNCHANGED <<cancel, iosb, event, dobj, pended, caller, deaf>>

SendDown(ways) ==
  \E way \in ways, invoke \in Invokes : IoCallDriver(Prepared(way, invoke), holder - 1)

\* The originator sends the packet to the top of the stack.
Send ==
  /\ stage = "built"
  /\ SendDown({"fill", "set"})
  /\ UNCHANGED resent

\* A dispatch function passes the packet on.
Forward ==
  /\ stage = "dispatch" /\ holder > 1
  /\ SendDown(Ways)
  /\ UNCHANGED resent

\* ... or keeps it for its DPC, and returns.
Queue ==
  /\ stage = "dispatch"
  /\ stage' = "queued" /\ pended' = TRUE
  /\ UNCHANGED <<current, loc, status, cancel, iosb, event, holder, dobj, caller, deaf,
                 resent>>

\* A party whose routine kept the packet may send it down again, with a routine.
\* In this model only stacks in which every driver answers do it.
Resend ==
  /\ stage = "kept" /\ holder > 1 /\ (holder = Originator => caller # "freed")
  /\ resent < Retries /\ deaf = {}
  /\ SendDown({"set"})
  /\ resent' = resent + 1

-----------------------------------------------------------------------------
(* IoCompleteRequest: up the stack.                                        *)

\* Whoever has the packet sets its status and completes it.
Complete ==
  /\ stage \in {"dispatch", "queued", "kept"}
  /\ holder = Originator => caller # "freed"
  /\ status' \in {"success", "error"}
  /\ stage' = "completing"
  /\ UNCHANGED <<current, loc, cancel, iosb, event, holder, dobj, pended, caller, deaf,
                 resent>>

PastTopLate == current > Sentinel                                 \* a mutant
PastTop == current > StackCount

WantedAnyway(l) == l.routine # NULL                               \* a mutant
Wanted(l) ==
  /\ l.routine # NULL
  /\ status \in l.control \/ (cancel /\ "cancel" \in l.control)

DeviceCompleting(i) == loc[i].device                              \* a mutant
DeviceAbove(i) == IF i + 1 = Sentinel THEN NULL ELSE loc[i + 1].device

\* A turn of the loop leaves the current location, and runs its routine, for
\* the device one above (none above the top), if it asked for this outcome.
Climb ==
  /\ stage = "completing" /\ ~PastTop
  /\ current' = current + 1
  /\ \/ /\ Wanted(loc[current])
        /\ stage' = "routine" /\ holder' = loc[current].routine
        /\ dobj' = DeviceAbove(current)
     \/ /\ ~Wanted(loc[current])
        /\ UNCHANGED <<stage, holder, dobj>>
  /\ UNCHANGED <<loc, status, cancel, iosb, event, pended, caller, deaf, resent>>

RoutineReturns ==
  /\ stage = "routine" /\ stage' = "completing"
  /\ UNCHANGED <<current, loc, status, cancel, iosb, event, holder, dobj, pended, caller,
                 deaf, resent>>

\* STATUS_MORE_PROCESSING_REQUIRED: IoCompleteRequest returns at once, and the
\* packet is the party's.  (What the routine does with it before it returns is
\* done here after: the walk touches the packet no more.)
RoutineKeeps ==
  /\ stage = "routine" /\ stage' = "kept" /\ pended' = TRUE
  /\ UNCHANGED <<current, loc, status, cancel, iosb, event, holder, dobj, caller, deaf,
                 resent>>

SignalEarly == event' = TRUE                                      \* a mutant
NoSignal == UNCHANGED event

\* Past the top: the status goes to the originator ...
WriteUserIosb ==
  /\ stage = "completing" /\ PastTop
  /\ current' = current + 1
  /\ iosb' = status /\ stage' = "signalling"
  /\ NoSignal
  /\ UNCHANGED <<loc, status, cancel, holder, dobj, pended, caller, deaf, resent>>

SignalledOnSuccess == status = "success"                          \* a mutant
Signalled == TRUE

\* ... and its event is signalled.  The packet is not freed here.
SignalUserEvent ==
  /\ stage = "signalling" /\ stage' = "done"
  /\ event' = (event \/ Signalled)
  /\ UNCHANGED <<current, loc, status, cancel, iosb, holder, dobj, pended, caller, deaf,
                 resent>>

-----------------------------------------------------------------------------
(* The originator.                                                         *)

\* IoCallDriver comes back and the request is not refused: wait for the event.
CallReturns ==
  /\ caller = "calling" /\ (pended \/ stage = "done")
  /\ caller' = "waiting"
  /\ UNCHANGED <<current, loc, status, cancel, iosb, event, stage, holder, dobj, pended,
                 deaf, resent>>

\* io_free_irp: after the event, after a refusal, or when the originator's own
\* routine kept the packet for that.
IoFreeIrp ==
  /\ \/ caller = "waiting" /\ event
     \/ caller = "calling" /\ stage = "refused"
     \/ caller = "waiting" /\ stage = "kept" /\ holder = Originator
  /\ caller' = "freed"
  /\ UNCHANGED <<current, loc, status, cancel, iosb, event, stage, holder, dobj, pended,
                 deaf, resent>>

\* Another thread of the originator cancels: there is no cancel routine to run,
\* the flag is set and the status overwritten.
IoCancelIrp ==
  /\ caller # "freed" /\ stage # "built" /\ ~cancel
  /\ cancel' = TRUE /\ status' = "error"
  /\ UNCHANGED <<current, loc, iosb, event, stage, holder, dobj, pended, caller, deaf,
                 resent>>

-----------------------------------------------------------------------------
Progress ==
  \/ Send \/ Forward \/ Queue \/ Resend \/ Complete
  \/ Climb \/ RoutineReturns \/ RoutineKeeps \/ WriteUserIosb \/ SignalUserEvent
  \/ CallReturns \/ IoFreeIrp

Next == IoAllocateIrp \/ Progress \/ IoCancelIrp

Spec == Init /\ [][Next]_vars

\* Drivers complete what they have and routines return.
FairSpec == Spec /\ WF_vars(Progress)

-----------------------------------------------------------------------------
(* What a packet on its stack must guarantee.                              *)

\* Every variable keeps its type; the current location stays in the packet's
\* array, or one past it once the packet is completed (io.c:34, 182).
TypeOK ==
  /\ current \in 1..(Sentinel + 1)
  /\ stage # "signalling" /\ stage # "done" => current <= Sentinel
  /\ loc \in [1..Sentinel -> Location]
  /\ status \in {"success", "error"} /\ cancel \in BOOLEAN
  /\ iosb \in {"success", "error", NoStatus} /\ event \in BOOLEAN
  /\ stage \in Stage /\ holder \in 1..Originator /\ dobj \in 0..Depth
  /\ pended \in BOOLEAN /\ caller \in {"calling", "waiting", "freed"}
  /\ deaf \subseteq Deaf /\ resent \in 0..Retries

\* Whoever has the packet, after any number of stops and returns, finds in
\* IoGetCurrentIrpStackLocation the location that was written for it: the one
\* with its device, or the sentinel for the originator (io.c:115-120, 182-201).
HolderOwnsLocation ==
  stage \in {"dispatch", "queued", "kept", "routine"} =>
    \/ holder = Originator /\ current = Sentinel
    \/ current < Sentinel /\ loc[current].device = holder

\* "DeviceObject = the device of who SET the routine, or NULL if we are past the
\* top" (comment at io.c:195-196).
CalledForInstaller ==
  stage = "routine" => dobj = IF holder = Originator THEN NULL ELSE holder

\* When the originator frees the packet, no driver has it and no walk will touch
\* it again, and if it was told of the end its status block is written
\* (io.c:204-205; nobody but the originator frees).
FreedWhenIdle ==
  caller = "freed" =>
    /\ \/ stage \in {"done", "refused"}
       \/ stage = "kept" /\ holder = Originator
    /\ event => iosb # NoStatus

\* A request that was sent ends: its originator gets to free it, whatever the
\* drivers do, if each completes what it has.
RequestEnds == caller = "calling" ~> caller = "freed"

-----------------------------------------------------------------------------
\* The routines the walk has not reached: those in the locations from the
\* current one up, the next to run last.
Registered ==
  LET climb == [i \in 1..(Sentinel - current) |-> loc[Sentinel - i]] IN
  SelectSeq(climb, LAMBDA l : l.routine # NULL)

Abandoned == caller = "freed" /\ stage \in {"kept", "refused"}

Chain == INSTANCE CompletionChain WITH
  Party <- 1..Originator,
  Nobody <- NULL,
  chain <- [i \in DOMAIN Registered |-> [party |-> Registered[i].routine,
                                         control |-> Registered[i].control]],
  running <- IF stage # "routine" THEN NULL
             ELSE IF dobj = NULL THEN Originator ELSE dobj,
  phase <- IF stage \in {"signalling", "done"} \/ Abandoned THEN "idle"
           ELSE IF stage \in {"completing", "routine"} THEN "up" ELSE "down"

\* The packet implements the chain of completion routines: the opposite order of
\* registration, once each, for the party that registered, only on the outcomes
\* it asked for, resumed above the party that stopped the walk.
ImplementsChain == Chain!Spec
=============================================================================
