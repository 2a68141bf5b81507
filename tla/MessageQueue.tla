---------------------------- MODULE MessageQueue ----------------------------
(***************************************************************************)
(* The message queue of the window manager and the loop of NtUserGetMessage *)
(* (subsystems/win32/win32kbase.c).  System calls run with interrupts off,  *)
(* so that a call that finds a message is one step; one that finds none      *)
(* executes `sti; hlt', and from there on it polls the tablet and takes a    *)
(* message with interrupts on, while the keyboard and the mouse post from    *)
(* their interrupts: each access to the queue is a step of its own.          *)
(*                                                                         *)
(* Of a message only what the queue looks at is kept: whether it is a        *)
(* WM_PAINT, for which window, and whether it is the WM_QUIT.               *)
(***************************************************************************)
EXTENDS Integers, SequencesExt

CONSTANTS
  PolledTablet   \* whether there is a virtio tablet (virtio_input_poll)

ASSUME MqTabletOK == PolledTablet \in BOOLEAN

VARIABLES
  queue,         \* s_queue, s_q_head, s_q_tail, s_q_count
  posted,        \* the messages accepted and not yet returned, in order
  pump,          \* where the GUI thread is, the message it took or is posting
  overtaken      \* an interrupt posted inside queue_post of the tablet

mqVars == <<queue, posted, pump, overtaken>>

Paint(w) == [kind |-> "PAINT", to |-> w]
Quit == [kind |-> "QUIT", to |-> 0]
Other == [kind |-> "OTHER", to |-> 0]         \* keys, mouse, WM_CREATE, WM_CLOSE, ...
Move == [kind |-> "MOVE", to |-> 0]           \* a movement of the tablet
Message == [kind : {"PAINT", "QUIT", "OTHER", "MOVE"}, to : Nat]

\* "app" is ring 3, "ended" is ring 3 after the WM_QUIT; the others are places of
\* NtUserGetMessage_k after it has halted once.
PumpPlace == {"app", "ended", "halted", "poll", "check", "taken", "advanced", "idle",
              "refresh", "store", "tail", "count"}

\* MSG_QUEUE_CAP.
QueueCap == Cardinality(DOMAIN queue.ring)

MqTypeOK ==
  /\ DOMAIN queue.ring = 0..QueueCap - 1
  /\ queue \in [ring : [DOMAIN queue.ring -> Message], head : DOMAIN queue.ring,
                tail : DOMAIN queue.ring, count : Int]
  /\ posted \in Seq(Message)
  /\ pump \in [at : PumpPlace, msg : Message]
  /\ overtaken \in BOOLEAN

MqInit(cap) ==
  /\ queue = [ring |-> [i \in 0..cap - 1 |-> Other], head |-> 0, tail |-> 0, count |-> 0]
  /\ posted = <<>>
  /\ pump = [at |-> "app", msg |-> Other]
  /\ overtaken = FALSE

-----------------------------------------------------------------------------
After(i) == (i + 1) % QueueCap

\* paint_already_queued: the slots from head on, as many as there should be.
PaintQueued(q, w) == \E k \in 0..q.count - 1 : q.ring[(q.head + k) % QueueCap] = Paint(w)

\* MUTANT of Dropped: a full queue takes what does not fit.
DroppedNever(q, m) == m.kind = "PAINT" /\ PaintQueued(q, m.to)

\* queue_post drops what does not fit and a second WM_PAINT of a window.
Dropped(q, m) == q.count >= QueueCap \/ (m.kind = "PAINT" /\ PaintQueued(q, m.to))

\* queue_post without interruption, on the queue and the messages posted.
Post(qp, m) ==
  LET q == qp.queue IN
  IF Dropped(q, m) THEN qp
  ELSE [queue |-> [ring |-> [q.ring EXCEPT ![q.tail] = m], head |-> q.head,
                   tail |-> After(q.tail), count |-> q.count + 1],
        posted |-> Append(qp.posted, m)]

\* One message after the other.
PostAll(ms) ==
  LET after[i \in 0..Len(ms)] ==
        IF i = 0 THEN [queue |-> queue, posted |-> posted] ELSE Post(after[i - 1], ms[i])
  IN after[Len(ms)]

Posts(ms) == queue' = PostAll(ms).queue /\ posted' = PostAll(ms).posted

At(place) == pump.at = place
Goes(place) == pump' = [pump EXCEPT !.at = place]

\* Posts from ring 3, with interrupts off, or from an interrupt, which ends a halt.
Call(ms) == At("app") /\ Posts(ms) /\ UNCHANGED <<pump, overtaken>>

Interrupt(ms) ==
  /\ Posts(ms)
  /\ pump' = IF At("halted") THEN [pump EXCEPT !.at = "poll"] ELSE pump
  /\ overtaken' = (overtaken \/ (pump.at \in {"store", "tail", "count"} /\ ms # <<>>))

\* The clock, which posts nothing.
ClockTick == At("halted") /\ Goes("poll") /\ UNCHANGED <<queue, posted, overtaken>>

-----------------------------------------------------------------------------
Returns(m) == pump' = [at |-> IF m = Quit THEN "ended" ELSE "app", msg |-> Other]

\* NtUserGetMessage_k finds a message at once.
GetMessage ==
  /\ At("app") /\ queue.count > 0
  /\ queue' = [queue EXCEPT !.head = After(@), !.count = @ - 1]
  /\ posted' = Tail(posted)
  /\ Returns(queue.ring[queue.head])
  /\ UNCHANGED overtaken

\* It finds none: without windows the loop ends, else what it draws, and sti; hlt.
GetMessageIdle(windows, ms) ==
  /\ At("app") /\ queue.count <= 0
  /\ Posts(ms)
  /\ Goes(IF windows > 0 THEN "halted" ELSE "ended")
  /\ UNCHANGED overtaken

\* MUTANT of PollEnds: the thread halts again without looking at the queue.
PollEndsIdle == At("poll") /\ Goes("idle") /\ UNCHANGED <<queue, posted, overtaken>>

\* virtio_input_poll has nothing more and the loop starts again.
PollEnds == At("poll") /\ Goes("check") /\ UNCHANGED <<queue, posted, overtaken>>

\* queue_pop: the copy, the head, the count.
PopTakes ==
  /\ At("check") /\ queue.count > 0
  /\ pump' = [at |-> "taken", msg |-> queue.ring[queue.head]]
  /\ UNCHANGED <<queue, posted, overtaken>>

PopAdvances ==
  /\ At("taken") /\ Goes("advanced")
  /\ queue' = [queue EXCEPT !.head = After(@)]
  /\ UNCHANGED <<posted, overtaken>>

PopReturns ==
  /\ At("advanced") /\ Returns(pump.msg)
  /\ queue' = [queue EXCEPT !.count = @ - 1]
  /\ posted' = IF posted = <<>> THEN posted ELSE Tail(posted)
  /\ UNCHANGED overtaken

\* Still no message.
Empty(windows) ==
  /\ At("check") /\ queue.count <= 0
  /\ Goes(IF windows > 0 THEN "idle" ELSE "ended")
  /\ UNCHANGED <<queue, posted, overtaken>>

\* win32k_refresh_taskbar holds s_composing while it draws; gpu_present does not.
IdleRefresh == At("idle") /\ Goes("refresh") /\ UNCHANGED <<queue, posted, overtaken>>

\* sti; hlt.
Halt == (At("idle") \/ At("refresh")) /\ Goes("halted") /\ UNCHANGED <<queue, posted, overtaken>>

\* queue_post of an event of the tablet, with interrupts on: its test of the queue,
\* the slot, the tail, the count.
TabletPosts(m) ==
  /\ PolledTablet /\ At("poll") /\ ~Dropped(queue, m)
  /\ pump' = [at |-> "store", msg |-> m]
  /\ UNCHANGED <<queue, posted, overtaken>>

TabletStores ==
  /\ At("store") /\ Goes("tail")
  /\ queue' = [queue EXCEPT !.ring = [@ EXCEPT ![queue.tail] = pump.msg]]
  /\ UNCHANGED <<posted, overtaken>>

TabletAdvances ==
  /\ At("tail") /\ Goes("count")
  /\ queue' = [queue EXCEPT !.tail = After(@)]
  /\ UNCHANGED <<posted, overtaken>>

TabletCounts ==
  /\ At("count") /\ Goes("poll")
  /\ queue' = [queue EXCEPT !.count = @ + 1]
  /\ posted' = Append(posted, pump.msg)
  /\ UNCHANGED overtaken

GetMessageStep ==
  \/ PollEnds \/ PopTakes \/ PopAdvances \/ PopReturns \/ IdleRefresh \/ Halt
  \/ TabletStores \/ TabletAdvances \/ TabletCounts
  \/ TabletPosts(Move)

\* The queue by itself: a program with windows, and interrupts that post anything.  Bound:
\* a queue that the tablet and an interrupt wrote together is not followed further.
MqPump ==
  GetMessage \/ GetMessageIdle(1, <<>>) \/ GetMessageStep \/ Empty(1)

MqNext ==
  /\ ~overtaken
  /\ \/ MqPump \/ ClockTick
     \/ \E m \in {Paint(1), Paint(2), Other, Quit} : Call(<<m>>) \/ Interrupt(<<m>>)
-----------------------------------------------------------------------------
\* The messages that the ring will return.
InRing == [k \in 1..queue.count |-> queue.ring[(queue.head + k - 1) % QueueCap]]

\* What was posted is returned once each and in order, although interrupts post
\* between the copy, the head and the count of queue_pop, and the queue may be full
\* or wrap around at any of them (win32kbase.c:334-350, 892-933).  What may break it is
\* an interrupt that posts while the tablet is being polled (win32kbase.c:931).
QueueIsFifo ==
  \/ overtaken
  \/ CASE At("taken") -> InRing = posted /\ posted # <<>> /\ pump.msg = Head(posted)
       [] At("advanced") -> /\ posted # <<>> /\ pump.msg = Head(posted)
                            /\ queue.count = Len(posted)
                            /\ SubSeq(InRing, 1, queue.count - 1) = Tail(posted)
       [] OTHER -> InRing = posted

\* One WM_PAINT of each window is waiting at most (win32kbase.c:324-336).
PaintsCoalesced ==
  LET waiting == IF At("advanced") THEN Tail(posted) ELSE posted IN
  ~overtaken => \A i, j \in DOMAIN waiting :
                  waiting[i].kind = "PAINT" /\ waiting[i] = waiting[j] => i = j

\* A WM_QUIT that was accepted ends the loop of messages, also when it came between the
\* test of the queue and the halt: the clock wakes the thread (win32kbase.c:887-933).
QuitEndsLoop == Contains(posted, Quit) ~> At("ended") \/ overtaken
=============================================================================
