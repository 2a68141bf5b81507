---------------------------- MODULE VirtioQueue ----------------------------
(***************************************************************************)
(* The control queue of the virtio display (drivers/display/VirtioGpu):       *)
(* a command takes two descriptors off the free list, is put in the ring, and  *)
(* its sender polls until the device has used it; then the buffers are freed.  *)
(* The queue has no lock.  Frames are presented under s_composing, except by   *)
(* the idle loop of GetMessage, which runs with interrupts on after its first  *)
(* halt.                                                                     *)
(*                                                                         *)
(* "thread" is a thread that may be interrupted, "above" an interrupt handler  *)
(* or the system call of another thread, which runs to its end above it.  Each *)
(* access to what both share is a step.  Descriptors count from 1; 0 is the    *)
(* end of the free list.                                                      *)
(***************************************************************************)
EXTENDS Integers, Sequences, FiniteSets

CONSTANTS
  VqSize         \* descriptors of the queue (q->size)

ASSUME VqSizesOK == VqSize \in Nat /\ VqSize >= 2

VARIABLES
  nextFree, numFree,   \* the free list of q
  descNext, descMore,  \* next, and the NEXT flag, of each descriptor
  ring, published, fetched, \* avail ring, avail->idx, and how far the device got
  usedIds,             \* entries of the used ring not taken yet
  composing,           \* s_composing
  sender,              \* what each context does in send_cmd
  mixed                \* a frame was presented inside one of the idle loop

listVars == <<nextFree, numFree, descNext, descMore>>
deviceRing == <<ring, published, fetched, usedIds>>
vqVars == <<listVars, deviceRing, composing, sender, mixed>>

Desc == 1..VqSize
Context == {"thread", "above"}
RingIndex == 0..(2 * VqSize - 1)         \* indexes of 16 bits, over twice the size
SlotOf(index) == index % VqSize
NextIndex(index) == (index + 1) % (2 * VqSize)
NotSending == [at |-> "idle", head |-> 0, resp |-> 0, guarded |-> FALSE, answered |-> FALSE]

VqTypeOK ==
  /\ nextFree \in 0..VqSize /\ numFree \in Int
  /\ descNext \in [Desc -> 0..VqSize] /\ descMore \in [Desc -> BOOLEAN]
  /\ ring \in [0..(VqSize - 1) -> 0..VqSize] /\ published \in RingIndex /\ fetched \in RingIndex
  /\ usedIds \in Seq(0..VqSize)
  /\ composing \in BOOLEAN /\ mixed \in BOOLEAN
  /\ sender \in [Context -> [at : {"idle", "head", "takeHead", "resp", "takeResp", "ring",
                                   "publish", "poll", "returned"},
                             head : 0..VqSize, resp : 0..VqSize,
                             guarded : BOOLEAN, answered : BOOLEAN]]

\* virtio_queue_init.
VqInit ==
  /\ nextFree = 1 /\ numFree = VqSize
  /\ descNext = [d \in Desc |-> IF d = VqSize THEN 0 ELSE d + 1]
  /\ descMore = [d \in Desc |-> FALSE]
  /\ ring = [i \in 0..(VqSize - 1) |-> 0] /\ published = 0 /\ fetched = 0
  /\ usedIds = <<>>
  /\ composing = FALSE /\ mixed = FALSE
  /\ sender = [c \in Context |-> NotSending]

-----------------------------------------------------------------------------
\* The thread goes on only when nothing runs above it.
Runs(c) == c = "above" \/ sender["above"].at = "idle"
Stands(c, step) == Runs(c) /\ sender[c].at = step
Moves(c, step) == sender' = [sender EXCEPT ![c].at = step]

\* Whether a frame that starts in c starts inside one of the idle loop.
Mixes(c) == mixed' = (mixed \/ (c = "above" /\ sender["thread"].at # "idle"
                                  /\ ~sender["thread"].guarded))

\* win32k_compose and win32k_cursor_repaint: dropped while another holds the guard.
PresentGuarded(c) ==
  /\ Stands(c, "idle") /\ ~composing
  /\ composing' = TRUE
  /\ sender' = [sender EXCEPT ![c].at = "head", ![c].guarded = TRUE]
  /\ Mixes(c)
  /\ UNCHANGED <<listVars, deviceRing>>

\* The idle loop of GetMessage calls gpu_present as it is.
PresentIdle ==
  /\ Stands("thread", "idle")
  /\ Moves("thread", "head")
  /\ UNCHANGED <<listVars, deviceRing, composing, mixed>>

\* virtio_queue_alloc_desc looks at the head of the free list, then moves it on.
Available == IF numFree = 0 THEN 0 ELSE nextFree

ReadHead(c) ==
  /\ Stands(c, "head")
  /\ sender' = [sender EXCEPT ![c].at = "takeHead", ![c].head = Available]
  /\ UNCHANGED <<listVars, deviceRing, composing, mixed>>

ReadResp(c) ==
  /\ Stands(c, "resp")
  /\ sender' = [sender EXCEPT ![c].at = "takeResp", ![c].resp = Available]
  /\ UNCHANGED <<listVars, deviceRing, composing, mixed>>

TakeHead(c) ==
  LET h == sender[c].head IN
  /\ Stands(c, "takeHead")
  /\ IF h = 0 THEN UNCHANGED <<nextFree, numFree>>
     ELSE nextFree' = descNext[h] /\ numFree' = numFree - 1
  /\ Moves(c, "resp")
  /\ UNCHANGED <<descNext, descMore, deviceRing, composing, mixed>>

\* MUTANT of Freed: only the first descriptor of a chain is given back.
FreedFirst(d) ==
  /\ descNext' = [descNext EXCEPT ![d] = nextFree]
  /\ descMore' = [descMore EXCEPT ![d] = FALSE]
  /\ nextFree' = d
  /\ numFree' = numFree + 1

\* virtio_queue_free_desc_chain on the one or two descriptors of a chain.
Freed(d) ==
  LET second == descNext[d]
      two == descMore[d] /\ second # 0 IN
  /\ descNext' = IF two THEN [descNext EXCEPT ![d] = nextFree, ![second] = d]
                 ELSE [descNext EXCEPT ![d] = nextFree]
  /\ descMore' = IF two THEN [descMore EXCEPT ![d] = FALSE, ![second] = FALSE]
                 ELSE [descMore EXCEPT ![d] = FALSE]
  /\ nextFree' = IF two THEN second ELSE d
  /\ numFree' = numFree + (IF two THEN 2 ELSE 1)

\* The second descriptor; without two of them the command is not sent.
TakeResp(c) ==
  LET h == sender[c].head
      r == sender[c].resp IN
  /\ Stands(c, "takeResp")
  /\ IF h # 0 /\ r # 0
     THEN /\ nextFree' = descNext[r] /\ numFree' = numFree - 1
          /\ descNext' = [descNext EXCEPT ![h] = r, ![r] = 0]
          /\ descMore' = [descMore EXCEPT ![h] = TRUE, ![r] = FALSE]
          /\ Moves(c, "ring")
     ELSE /\ IF h # 0 THEN Freed(h) ELSE UNCHANGED listVars
          /\ sender' = [sender EXCEPT ![c].at = "returned", ![c].answered = TRUE]
  /\ UNCHANGED <<deviceRing, composing, mixed>>

\* virtio_queue_submit: the slot, then the index.
PutInRing(c) ==
  /\ Stands(c, "ring")
  /\ ring' = [ring EXCEPT ![SlotOf(published)] = sender[c].head]
  /\ Moves(c, "publish")
  /\ UNCHANGED <<listVars, published, fetched, usedIds, composing, mixed>>

Publish(c) ==
  /\ Stands(c, "publish")
  /\ published' = NextIndex(published)
  /\ Moves(c, "poll")
  /\ UNCHANGED <<listVars, ring, fetched, usedIds, composing, mixed>>

\* The device uses the chains in the order of the ring and writes their answers.
DeviceAnswers ==
  LET h == ring[SlotOf(fetched)] IN
  /\ fetched # published
  /\ fetched' = NextIndex(fetched)
  /\ usedIds' = Append(usedIds, h)
  /\ sender' = [c \in Context |-> IF sender[c].at = "poll" /\ sender[c].head = h
                                  THEN [sender[c] EXCEPT !.answered = TRUE] ELSE sender[c]]
  /\ UNCHANGED <<listVars, ring, published, composing, mixed>>

\* virtio_queue_wait_response: whatever chain was used next is freed.
TakeUsed(c) ==
  /\ Stands(c, "poll") /\ usedIds # <<>>
  /\ usedIds' = Tail(usedIds)
  /\ IF Head(usedIds) # 0 THEN Freed(Head(usedIds))
     ELSE UNCHANGED listVars
  /\ Moves(c, "returned")
  /\ UNCHANGED <<ring, published, fetched, composing, mixed>>

\* The request and the answer are freed, and the guard is given back.
FreeBuffers(c) ==
  /\ Stands(c, "returned")
  /\ sender' = [sender EXCEPT ![c] = NotSending]
  /\ composing' = (composing /\ ~sender[c].guarded)
  /\ UNCHANGED <<listVars, deviceRing, mixed>>

\* Bound: frames that are mixed are not followed further.
VqNext ==
  /\ ~mixed
  /\ \/ PresentIdle
     \/ \E c \in Context :
          \/ PresentGuarded(c)
          \/ ReadHead(c) \/ TakeHead(c) \/ ReadResp(c) \/ TakeResp(c)
          \/ PutInRing(c) \/ Publish(c) \/ TakeUsed(c) \/ FreeBuffers(c)
     \/ DeviceAnswers

VqSpec == VqInit /\ [][VqNext]_vqVars
-----------------------------------------------------------------------------
\* A command returns, and frees its buffers, only after the device answered that very
\* command: the frames of interrupts and of other threads come before it or after it
\* (VirtioGpu.c:496-509, win32kbase.c:918).
AnswerIsOwn == \A c \in Context : sender[c].at = "returned" => sender[c].answered

\* The free list, followed from its head.
FreeList == LET follow[i \in 1..VqSize + 1] ==
                  IF i = 1 THEN nextFree
                  ELSE IF follow[i - 1] = 0 THEN 0 ELSE descNext[follow[i - 1]]
            IN follow

\* No descriptor is lost, or on the free list twice, by any sequence of commands and
\* interruptions (VirtioGpu.c:452-477).
NoDescriptorLost ==
  LET mine(c) == IF sender[c].at \in {"takeHead", "idle", "head", "returned"} THEN 0
                 ELSE IF sender[c].at \in {"resp", "takeResp"} THEN 1 ELSE 2
      list == FreeList IN
  /\ numFree = VqSize - mine("thread") - mine("above")
  /\ Cardinality({list[i] : i \in 1..numFree} \ {0}) = numFree
  /\ list[numFree + 1] = 0

\* What breaks it is a frame presented inside one of the idle loop, which holds no guard.
QueueSound == mixed \/ (AnswerIsOwn /\ NoDescriptorLost)
-----------------------------------------------------------------------------
(***************************************************************************)
(* The event queue of the tablet (drivers/input/virtio_input.c): the device   *)
(* writes events into the buffers it is given, and whoever waits for a message *)
(* polls, hands each event on and gives its buffer back.  Nothing keeps two     *)
(* threads that wait from polling at once.                                     *)
(***************************************************************************)
CONSTANTS EvSize,     \* buffers of the queue (VQ_SIZE)
          Poller      \* threads in the idle loop of GetMessage

ASSUME EvSizesOK == EvSize \in Nat \ {0}

VARIABLES
  evSetup,      \* what virtio_input_init does next, "active" or "unusable"
  evStatus,     \* device_status
  evRing, evIdx, evFetched, \* avail ring, avail->idx, and how far the device got
  evUsed,       \* used ring: ids from s_last_used on
  evBuf,        \* the event in each buffer
  poller,       \* what each thread does in virtio_input_poll
  evUnread,     \* ghost: events written and not handed on, the oldest first
  evOverlap,    \* ghost: one thread polled inside the poll of another
  evStray       \* ghost: an event was handed on twice, or before an older one

evVars == <<evSetup, evStatus, evRing, evIdx, evFetched, evUsed, evBuf, poller, evUnread,
            evOverlap, evStray>>
evQueue == <<evRing, evIdx, evFetched, evUsed, evBuf, poller, evUnread, evOverlap, evStray>>

EvId == 0..EvSize - 1
EvIndex == 0..(2 * EvSize - 1)
Event == {"move", "report"}
SetupSteps == <<"find", "map", "features", "queue", "ready">>
NotPolling == [at |-> "idle", id |-> 0, event |-> "move"]

EvTypeOK ==
  /\ evSetup \in {SetupSteps[k] : k \in DOMAIN SetupSteps} \union {"active", "unusable"}
  /\ evStatus \subseteq {"acknowledge", "driver", "features_ok", "driver_ok", "failed"}
  /\ evRing \in [EvId -> EvId] /\ evIdx \in EvIndex /\ evFetched \in EvIndex
  /\ evUsed \in Seq(EvId) /\ evBuf \in [EvId -> Event]
  /\ poller \in [Poller -> [at : {"idle", "read", "taken", "recycle"}, id : EvId, event : Event]]
  /\ evUnread \in Seq(Event) /\ evOverlap \in BOOLEAN /\ evStray \in BOOLEAN

EvInit ==
  /\ evSetup = "find" /\ evStatus = {}
  /\ evRing = [i \in EvId |-> 0] /\ evIdx = 0 /\ evFetched = 0 /\ evUsed = <<>>
  /\ evBuf = [i \in EvId |-> "move"]
  /\ poller = [p \in Poller |-> NotPolling]
  /\ evUnread = <<>> /\ evOverlap = FALSE /\ evStray = FALSE

\* virtio_input_init: each step may find the device, its memory or a frame missing; the bits
\* of the status are set as the code does on the way, and "failed" only by some refusals.
Advance(step, next, added) ==
  /\ evSetup = step /\ evSetup' = next
  /\ evStatus' = evStatus \union added

GivesUp(step, added) == Advance(step, "unusable", added) /\ UNCHANGED evQueue

FindTablet == Advance("find", "map", {}) /\ UNCHANGED evQueue
MapRegions == Advance("map", "features", {"acknowledge", "driver"}) /\ UNCHANGED evQueue
AcceptFeatures == Advance("features", "queue", {"features_ok"}) /\ UNCHANGED evQueue

\* eventq_setup: every buffer is given to the device.
EventqSetup ==
  /\ Advance("queue", "ready", {})
  /\ evRing' = [i \in EvId |-> i] /\ evIdx' = EvSize
  /\ UNCHANGED <<evFetched, evUsed, evBuf, poller, evUnread, evOverlap, evStray>>

DriverOk == Advance("ready", "active", {"driver_ok"}) /\ UNCHANGED evQueue

Refused ==
  \/ GivesUp("find", {}) \/ GivesUp("map", {}) \/ GivesUp("ready", {})
  \/ GivesUp("features", {"failed"})
  \/ GivesUp("queue", {}) \/ GivesUp("queue", {"failed"})

\* The device, from DRIVER_OK on, writes a report into buffers it has, or drops it whole.
DeviceReports(events) ==
  LET n == Len(events)
      id(k) == evRing[(evFetched + k - 1) % EvSize]
      free == (evIdx - evFetched) % (2 * EvSize)
  IN /\ evSetup = "active" /\ n <= free
     /\ evFetched' = (evFetched + n) % (2 * EvSize)
     /\ evUsed' = evUsed \o [k \in 1..n |-> id(k)]
     /\ evBuf' = [b \in EvId |-> IF \E k \in 1..n : id(k) = b
                                 THEN events[CHOOSE k \in 1..n : id(k) = b] ELSE evBuf[b]]
     /\ evUnread' = evUnread \o events
     /\ UNCHANGED <<evSetup, evStatus, evRing, evIdx, poller, evOverlap, evStray>>

\* virtio_input_poll: the entry of the used ring is read, the index moves on, the event is
\* handed on, the buffer is put back in the ring.
PollReads(p) ==
  /\ evSetup = "active" /\ poller[p].at = "idle" /\ evUsed # <<>>
  /\ poller' = [poller EXCEPT ![p] = [at |-> "read", id |-> Head(evUsed), event |-> "move"]]
  /\ evOverlap' = (evOverlap \/ \E o \in Poller \ {p} : poller[o].at # "idle")
  /\ UNCHANGED <<evSetup, evStatus, evRing, evIdx, evFetched, evUsed, evBuf, evUnread, evStray>>

PollAdvances(p) ==
  /\ poller[p].at = "read"
  /\ poller' = [poller EXCEPT ![p].at = "taken", ![p].event = evBuf[poller[p].id]]
  /\ evUsed' = IF evUsed = <<>> THEN evUsed ELSE Tail(evUsed)
  /\ UNCHANGED <<evSetup, evStatus, evRing, evIdx, evFetched, evBuf, evUnread, evOverlap, evStray>>

\* handle_event
PollHandles(p) ==
  /\ poller[p].at = "taken"
  /\ poller' = [poller EXCEPT ![p].at = "recycle"]
  /\ evStray' = (evStray \/ evUnread = <<>> \/ Head(evUnread) # poller[p].event)
  /\ evUnread' = IF evUnread = <<>> THEN evUnread ELSE Tail(evUnread)
  /\ UNCHANGED <<evSetup, evStatus, evRing, evIdx, evFetched, evUsed, evBuf, evOverlap>>

\* A bug: the buffer is not given back.
PollKeeps(p) ==
  /\ poller[p].at = "recycle" /\ poller' = [poller EXCEPT ![p] = NotPolling]
  /\ UNCHANGED <<evSetup, evStatus, evRing, evIdx, evFetched, evUsed, evBuf, evUnread,
                 evOverlap, evStray>>

PollRecycles(p) ==
  /\ poller[p].at = "recycle" /\ poller' = [poller EXCEPT ![p] = NotPolling]
  /\ evRing' = [evRing EXCEPT ![evIdx % EvSize] = poller[p].id]
  /\ evIdx' = (evIdx + 1) % (2 * EvSize)
  /\ UNCHANGED <<evSetup, evStatus, evFetched, evUsed, evBuf, evUnread, evOverlap, evStray>>

\* Bound: polls that overlap are not followed further.
EvNext ==
  /\ ~evOverlap
  /\ \/ FindTablet \/ MapRegions \/ AcceptFeatures \/ EventqSetup \/ DriverOk \/ Refused
     \/ \E events \in {<<"report">>, <<"move", "report">>} : DeviceReports(events)
     \/ \E p \in Poller : PollReads(p) \/ PollAdvances(p) \/ PollHandles(p) \/ PollRecycles(p)

EvSpec == EvInit /\ [][EvNext]_evVars

\* While the tablet is active no buffer is lost or with two owners, and every event is handed
\* on once and in order; what breaks it is a second thread that polls at the same time, for
\* nothing guards s_last_used (virtio_input.c:425-450, win32kbase.c:932).
TabletSound ==
  \/ evOverlap
  \/ /\ ~evStray
     /\ evSetup = "active" =>
          LET given == (evIdx - evFetched) % (2 * EvSize)
              offered == {evRing[(evFetched + k) % EvSize] : k \in 0..given - 1}
              used == {evUsed[k] : k \in DOMAIN evUsed}
              polled == {p \in Poller : poller[p].at \in {"taken", "recycle"}}
          IN /\ "driver_ok" \in evStatus /\ "failed" \notin evStatus
             /\ Cardinality(offered) = given /\ Cardinality(used) = Len(evUsed)
             /\ given + Len(evUsed) + Cardinality(polled) = EvSize
             /\ offered \union used \union {poller[p].id : p \in polled} = EvId
=============================================================================
