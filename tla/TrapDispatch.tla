---------------------------- MODULE TrapDispatch ----------------------------
(***************************************************************************)
(* What isr_handler does with an interrupt or a page fault                  *)
(* (ke/amd64/isr.c), while apic_init moves the machine from the 8259 to the  *)
(* APICs (ke/amd64/apic.c, pic.c).  The boot processor takes them, with       *)
(* interrupts off in the handler and on in the code it interrupts, apic_init    *)
(* included.                                                                  *)
(***************************************************************************)
EXTENDS Integers, Sequences, FiniteSets, FiniteSetsExt

CONSTANTS
  CalibrationTicks,   \* ticks of the PIT that the calibration waits for (6)
  TrapIrql,           \* levels the interrupted code runs at
  PF_HIST,            \* entries of the history of page faults (4)
  FaultAt             \* pairs of an instruction and an address that fault

ASSUME TrapSizesOK ==
  CalibrationTicks \in Nat /\ 0 \in TrapIrql /\ TrapIrql \subseteq Nat /\ PF_HIST \in Nat \ {0}

VARIABLES
  apicInit,    \* how far apic_init is
  window,      \* ticks the calibration has seen
  pic,         \* the 8259: [req, isr, on]
  lapic,       \* the local APIC: [req, isr, lint0 (reaches the 8259), clock]
  routed,      \* vectors of the IO-APIC that are unmasked
  active,      \* s_apic_active
  trap,        \* the interrupt that is handled: [vector, phase]
  trapIrql,    \* CR8
  preempts,    \* g_p4_active
  early,       \* ghost: a vector of the IO-APIC came before s_apic_active
  history,     \* s_pf_hist_rip, s_pf_hist_cr2, s_pf_hist_cnt: [1..PF_HIST -> [at, cnt]]
  nextEntry,   \* s_pf_hist_pos
  recovered,   \* ghost: how often a fault was retried, up to three
  since,       \* ghost: the others that entered the history since a fault first did
  stopped      \* the machine has halted

interruptVars == <<apicInit, window, pic, lapic, routed, active, trap, trapIrql, preempts, early>>
faultVars == <<history, nextEntry, recovered, since, stopped>>
trapVars == <<interruptVars, faultVars>>

Keyboard == 33
Mouse == 44
DriverVector == 64    \* a vector with a KINTERRUPT
Timer == 209          \* APIC_VECTOR_TIMER
Spurious == 255       \* APIC_VECTOR_SPURIOUS
IoVector == {Keyboard, Mouse, DriverVector}
NoTrap == [vector |-> 0, phase |-> "none"]
NoFault == "none"     \* both fields zero

ASSUME FaultsOK == IsFiniteSet(FaultAt) /\ NoFault \notin FaultAt

TrapTypeOK ==
  /\ apicInit \in {"start", "calibrating", "clock", "keyboard", "mouse", "lint0", "pic", "active", "failed"}
  /\ window \in 0..CalibrationTicks
  /\ pic \in [req : SUBSET {0, 1}, isr : SUBSET {0, 1}, on : BOOLEAN]
  /\ lapic \in [req : SUBSET (IoVector \union {Timer}), isr : SUBSET (IoVector \union {Timer}),
                lint0 : BOOLEAN, clock : BOOLEAN]
  /\ routed \subseteq IoVector /\ active \in BOOLEAN
  /\ trap.phase \in {"none", "body", "eoi", "gate"}
  /\ trapIrql \in TrapIrql /\ preempts \in BOOLEAN /\ early \in BOOLEAN
  /\ history \in [1..PF_HIST -> [at : FaultAt \union {NoFault}, cnt : 0..3]]
  /\ nextEntry \in 1..PF_HIST
  /\ recovered \in [FaultAt -> 0..3] /\ since \in [FaultAt -> SUBSET FaultAt]
  /\ stopped \in BOOLEAN

\* pic_remap: the lines of the PIT and of the keyboard, nothing of the slave.
TrapInit ==
  /\ apicInit = "start" /\ window = 0 /\ routed = {} /\ active = FALSE /\ early = FALSE
  /\ pic = [req |-> {}, isr |-> {}, on |-> TRUE]
  /\ lapic = [req |-> {}, isr |-> {}, lint0 |-> TRUE, clock |-> FALSE]
  /\ trap = NoTrap /\ trapIrql = 0 /\ preempts = FALSE
  /\ history = [e \in 1..PF_HIST |-> [at |-> NoFault, cnt |-> 0]] /\ nextEntry = 1
  /\ recovered = [f \in FaultAt |-> 0] /\ since = [f \in FaultAt |-> {}]
  /\ stopped = FALSE

Interrupted == trap = NoTrap
-----------------------------------------------------------------------------
\* apic_init, a step for each thing it changes.
Goes(from, to) == Interrupted /\ apicInit = from /\ apicInit' = to

\* hal_map_mmio of the local APIC or of the IO-APIC fails.
MappingFails ==
  /\ Goes("start", "failed")
  /\ UNCHANGED <<window, pic, lapic, routed, active, trap, trapIrql, preempts, early>>

EnableLapic ==
  /\ Goes("start", "calibrating")
  /\ UNCHANGED <<window, pic, lapic, routed, active, trap, trapIrql, preempts, early>>

\* apic_calibrate_against_pit ends, and the timer of the local APIC is started.
StartClock ==
  /\ Goes("calibrating", "clock") /\ window = CalibrationTicks
  /\ lapic' = [lapic EXCEPT !.clock = TRUE]
  /\ UNCHANGED <<window, pic, routed, active, trap, trapIrql, preempts, early>>

RouteKeyboard ==
  /\ Goes("clock", "keyboard") /\ routed' = routed \union {Keyboard}
  /\ UNCHANGED <<window, pic, lapic, active, trap, trapIrql, preempts, early>>

RouteMouse ==
  /\ Goes("keyboard", "mouse") /\ routed' = routed \union {Mouse}
  /\ UNCHANGED <<window, pic, lapic, active, trap, trapIrql, preempts, early>>

\* A bug: the pin of the 8259 is masked before the timer of the local APIC runs.
MaskLint0Early ==
  \/ /\ Goes("start", "calibrating") /\ lapic' = [lapic EXCEPT !.lint0 = FALSE]
     /\ UNCHANGED <<window, pic, routed, active, trap, trapIrql, preempts, early>>
  \/ /\ Goes("mouse", "lint0")
     /\ UNCHANGED <<window, lapic, pic, routed, active, trap, trapIrql, preempts, early>>

MaskLint0 ==
  /\ Goes("mouse", "lint0") /\ lapic' = [lapic EXCEPT !.lint0 = FALSE]
  /\ UNCHANGED <<window, pic, routed, active, trap, trapIrql, preempts, early>>

DisablePic ==
  /\ Goes("lint0", "pic") /\ pic' = [pic EXCEPT !.on = FALSE]
  /\ UNCHANGED <<window, lapic, routed, active, trap, trapIrql, preempts, early>>

Activate ==
  /\ Goes("pic", "active") /\ active' = TRUE
  /\ UNCHANGED <<window, pic, lapic, routed, trap, trapIrql, preempts, early>>

\* After the boot: a driver connects its line, the scheduler is switched on, the IRQL moves.
ConnectLine ==
  /\ Interrupted /\ active /\ routed' = routed \union {DriverVector}
  /\ UNCHANGED <<apicInit, window, pic, lapic, active, trap, trapIrql, preempts, early>>

SwitchOn ==
  /\ Interrupted /\ active /\ preempts' = TRUE
  /\ UNCHANGED <<apicInit, window, pic, lapic, routed, active, trap, trapIrql, early>>

MoveIrql(level) ==
  /\ Interrupted /\ trapIrql' = level
  /\ UNCHANGED <<apicInit, window, pic, lapic, routed, active, trap, preempts, early>>

\* The devices.  A line of the 8259 and its vector of the IO-APIC are raised together; the
\* mouse sends nothing before mouse_init, which comes later.
Raise(vector) ==
  /\ vector = Mouse => active
  /\ pic' = [pic EXCEPT !.req = @ \union ({vector - 32} \cap {0, 1})]
  /\ lapic' = [lapic EXCEPT !.req = @ \union ({vector} \cap routed)]
  /\ UNCHANGED <<apicInit, window, routed, active, trap, trapIrql, preempts, early>>

RaiseClock ==
  /\ lapic.clock /\ lapic' = [lapic EXCEPT !.req = @ \union {Timer}]
  /\ UNCHANGED <<apicInit, window, pic, routed, active, trap, trapIrql, preempts, early>>

\* The processor takes the first line of the 8259 that none in service precedes, whatever
\* CR8; or the highest vector of the local APIC above CR8 and above those in service.
TakePic ==
  /\ Interrupted /\ pic.on /\ lapic.lint0 /\ pic.req # {}
  /\ LET line == Min(pic.req)
     IN /\ \A s \in pic.isr : line < s
        /\ pic' = [pic EXCEPT !.req = @ \ {line}, !.isr = @ \union {line}]
        /\ trap' = [vector |-> 32 + line, phase |-> "body"]
  /\ UNCHANGED <<apicInit, window, lapic, routed, active, trapIrql, preempts, early>>

TakeApic ==
  /\ Interrupted /\ lapic.req # {}
  /\ LET vector == Max(lapic.req)
     IN /\ vector \div 16 > trapIrql
        /\ \A s \in lapic.isr : vector \div 16 > s \div 16
        /\ lapic' = [lapic EXCEPT !.req = @ \ {vector}, !.isr = @ \union {vector}]
        /\ trap' = [vector |-> vector, phase |-> "body"]
        /\ early' = (early \/ (vector \in routed /\ ~active))
  /\ UNCHANGED <<apicInit, window, pic, routed, active, trapIrql, preempts>>

\* A vector that CR8 came to mask as it was delivered.
TakeSpurious ==
  /\ Interrupted /\ apicInit \notin {"start", "failed"} /\ trapIrql > 0
  /\ trap' = [vector |-> Spurious, phase |-> "body"]
  /\ UNCHANGED <<apicInit, window, pic, lapic, routed, active, trapIrql, preempts, early>>
-----------------------------------------------------------------------------
\* isr_handler: the clock counts, a device is served, the spurious vector only returns.
TrapBody ==
  /\ trap.phase = "body"
  /\ trap' = IF trap.vector = Spurious THEN NoTrap ELSE [trap EXCEPT !.phase = "eoi"]
  /\ window' = IF trap.vector \in {32, Timer} /\ apicInit = "calibrating" /\ window < CalibrationTicks
                 THEN window + 1 ELSE window
  /\ UNCHANGED <<apicInit, pic, lapic, routed, active, trapIrql, preempts, early>>

\* The timer ends at the local APIC before the gate of preemption, everything else where
\* s_apic_active says: a command that ends what is first in service.
EndsAtApic == trap.vector = Timer \/ active

TrapEoi ==
  /\ trap.phase = "eoi"
  /\ IF EndsAtApic
       THEN /\ lapic' = [lapic EXCEPT !.isr = IF @ = {} THEN @ ELSE @ \ {Max(@)}]
            /\ UNCHANGED pic
       ELSE /\ pic' = [pic EXCEPT !.isr = IF @ = {} THEN @ ELSE @ \ {Min(@)}]
            /\ UNCHANGED lapic
  /\ trap' = IF trap.vector = Timer THEN [trap EXCEPT !.phase = "gate"] ELSE NoTrap
  /\ UNCHANGED <<apicInit, window, routed, active, trapIrql, preempts, early>>

\* ki_quantum_end below DISPATCH_LEVEL, or the return to the code that was interrupted.
TrapGate ==
  /\ trap.phase = "gate" /\ trap' = NoTrap
  /\ UNCHANGED <<apicInit, window, pic, lapic, routed, active, trapIrql, preempts, early>>

InterruptsNext ==
  /\ \/ MappingFails \/ EnableLapic \/ StartClock \/ RouteKeyboard \/ RouteMouse
     \/ MaskLint0 \/ DisablePic \/ Activate
     \/ ConnectLine \/ SwitchOn \/ \E level \in TrapIrql : MoveIrql(level)
     \/ \E vector \in IoVector \union {32} : Raise(vector)
     \/ RaiseClock \/ TakePic \/ TakeApic \/ TakeSpurious
     \/ TrapBody \/ TrapEoi \/ TrapGate
  /\ UNCHANGED faultVars
-----------------------------------------------------------------------------
\* pf_history_seen_too_many: a fault in the history is counted, one that is not takes the
\* place of the oldest.
EntriesOf(f) == {e \in 1..PF_HIST : history[e].at = f}
TooMany(f) == \E e \in EntriesOf(f) : history[e].cnt >= 2

\* The faults that entered the history after one first did.
Later(f) ==
  [g \in FaultAt |-> IF g # f /\ (EntriesOf(g) # {} \/ since[g] # {})
                       THEN since[g] \union {f} ELSE since[g]]

\* A bug: a fault that is counted is not told apart from a new one.
CountedAfresh(f) ==
  /\ history' = [history EXCEPT ![nextEntry] = [at |-> f, cnt |-> 1]]
  /\ nextEntry' = (nextEntry % PF_HIST) + 1
  /\ since' = Later(f)

Counted(f) ==
  IF EntriesOf(f) # {}
    THEN /\ history' = [history EXCEPT ![Min(EntriesOf(f))].cnt = IF @ = 3 THEN 3 ELSE @ + 1]
         /\ UNCHANGED <<nextEntry, since>>
    ELSE /\ history' = [history EXCEPT ![nextEntry] = [at |-> f, cnt |-> 1]]
         /\ nextEntry' = (nextEntry % PF_HIST) + 1
         /\ since' = Later(f)

\* try_pagefault_recover: reading or writing by code above 16 MiB of an address above 16 MiB
\* is retried with a page of zeros, if there is a frame and it was not retried too often; or
\* a thread or a process of ring 3 ends, and the machine halts for ring 0.
Retried(f, ring3, frame) ==
  /\ ~stopped /\ Counted(f)
  /\ LET retried == ~TooMany(f) /\ frame
     IN /\ recovered' = [recovered EXCEPT ![f] =
                           IF ~retried \/ @ = 3 THEN @
                           ELSE @ + 1]
        /\ stopped' = (~retried /\ ~ring3)

\* A fetch, or an address or code of the kernel: not retried, and not counted.
NotRetried(ring3) ==
  /\ ~stopped /\ stopped' = ~ring3
  /\ UNCHANGED <<history, nextEntry, recovered, since>>

FaultsNext ==
  /\ \/ \E f \in FaultAt, ring3, frame \in BOOLEAN : Retried(f, ring3, frame)
     \/ \E ring3 \in BOOLEAN : NotRetried(ring3)
  /\ UNCHANGED interruptVars

TrapSpec == TrapInit /\ [][InterruptsNext \/ FaultsNext]_trapVars
-----------------------------------------------------------------------------
\* Between interrupts nothing is left in service, so that every device can interrupt again,
\* and a thread is switched to with nothing in service; only a keyboard interrupt
\* that comes after its route is set and before s_apic_active is ended at the wrong
\* controller, and leaves its priority, which the mouse shares, blocked for good
\* (apic.c:175-196, isr.c:547).
NothingInService ==
  Interrupted \/ trap.phase = "gate" =>
    /\ pic.isr = {}
    /\ lapic.isr \subseteq (IF early THEN {Keyboard} ELSE {})

\* At every step of apic_init the clock and the keyboard have a way to the processor: the
\* calibration is waiting for the ticks of the PIT (apic.c:146-149).
EveryLineArrives ==
  LET byPic == pic.on /\ lapic.lint0
  IN /\ byPic \/ lapic.clock
     /\ byPic \/ Keyboard \in routed
     /\ apicInit = "calibrating" => byPic

\* A fault that is retried three times was forgotten in between: as many other faults as the
\* history holds came after it (isr.c:297-310).  So many that alternate never halt.
RetriesBounded ==
  \A f \in FaultAt : recovered[f] > 2 => Cardinality(since[f]) >= PF_HIST

TrapsSound == NothingInService /\ EveryLineArrives /\ RetriesBounded
-----------------------------------------------------------------------------
(***************************************************************************)
(* The PS/2 controller: one byte at a time stands in its output, of either    *)
(* device, and raises that device's line.  mouse_init polls for its answers     *)
(* with interrupts on, so the two handlers read the same port                    *)
(* (drivers/input/mouse/mouse.c, keyboard.c).                                    *)
(***************************************************************************)
CONSTANTS MaxOut,    \* bound: bytes the controller and its devices hold
          MaxArrived, \* bound: keys pressed or released, and motions
          KBD_BUF    \* slots of the ring of characters, one of them always free (256)

ASSUME Ps2SizesOK == MaxArrived \in Nat /\ KBD_BUF \in Nat \ {0}

VARIABLES
  psInit,      \* what mouse_init does next
  psCfg,       \* the byte it took for the configuration
  psOut,       \* bytes to be read, the first one in the output register
  psLatch,     \* what the port gives when no byte stands there: the last one read
  psLines,     \* interrupts raised and not taken: 1 and 12
  psEnabled,   \* lines the configuration lets through
  psUnmasked,  \* IRQ12 reaches the processor
  psPkt,       \* s_pkt[0..s_phase - 1]
  kbuf, kHead, kTail,   \* the ring of the console's input
  psArrived,   \* ghost: keys pressed or released, and motions
  stdin,       \* ghost: the characters accepted and not read
  disturbed,   \* ghost: a key or a motion came in the middle of mouse_init
  misread      \* ghost: a byte was taken for what it is not

ps2Vars == <<psInit, psCfg, psOut, psLatch, psLines, psEnabled, psUnmasked, psPkt, kbuf, kHead,
             kTail, psArrived, stdin, disturbed, misread>>
kbdRing == <<kbuf, kHead, kTail, stdin>>

Char == {"a", "b"}
KeyByte == Char \union {"release"}
Packet == <<"first", "second", "third">>
AuxByte == {"ack", "first", "second", "third"}
PsByte == KeyByte \union AuxByte \union {"config"}
Ps2Steps == {"drain", "ask", "config", "write", "defaults", "ack", "stream", "final", "unmask",
             "reset", "ready"}

Ps2TypeOK ==
  /\ psInit \in Ps2Steps /\ psCfg \in PsByte /\ psOut \in Seq(PsByte) /\ psLatch \in PsByte
  /\ psLines \subseteq {1, 12} /\ psEnabled \subseteq {1, 12} /\ psUnmasked \in BOOLEAN
  /\ psPkt \in Seq(AuxByte) /\ Len(psPkt) < 3
  /\ kbuf \in [0..KBD_BUF - 1 -> Char] /\ kHead \in 0..KBD_BUF - 1 /\ kTail \in 0..KBD_BUF - 1
  /\ psArrived \in 0..MaxArrived /\ stdin \in Seq(Char) /\ disturbed \in BOOLEAN /\ misread \in BOOLEAN

\* Under the APICs the IO-APIC lets IRQ12 through already; under the 8259 it is masked.
Ps2Init ==
  /\ psInit = "drain" /\ psCfg = "config" /\ psOut = <<>> /\ psLatch = "release"
  /\ psArrived = 0 /\ psLines = {} /\ psEnabled = {1} /\ psUnmasked \in BOOLEAN /\ psPkt = <<>>
  /\ kbuf = [k \in 0..KBD_BUF - 1 |-> "a"] /\ kHead = 0 /\ kTail = 0
  /\ stdin = <<>> /\ disturbed = FALSE /\ misread = FALSE

\* The line a byte raises as it comes to stand in the output.
LineOf(byte) == IF byte \in AuxByte THEN 12 ELSE 1
Announced(queue, enabled) == IF queue = <<>> THEN {} ELSE {LineOf(Head(queue))} \intersect enabled

Pending == psLines \intersect (IF psUnmasked THEN {1, 12} ELSE {1})

Queued(bytes) ==
  /\ psOut' = psOut \o bytes
  /\ psLines' = IF psOut = <<>> THEN psLines \union Announced(bytes, psEnabled) ELSE psLines

\* The devices, any time; the mouse once it streams.
Typed(byte) ==
  /\ Len(psOut) < MaxOut /\ Queued(<<byte>>)
  /\ psArrived < MaxArrived /\ psArrived' = psArrived + 1
  /\ disturbed' = (disturbed \/ psInit # "ready")
  /\ UNCHANGED <<psInit, psCfg, psLatch, psEnabled, psUnmasked, psPkt, kbdRing, misread>>

Moved ==
  /\ psInit \in {"final", "unmask", "reset", "ready"}
  /\ Len(psOut) + 3 <= MaxOut /\ Queued(Packet)
  /\ psArrived < MaxArrived /\ psArrived' = psArrived + 1
  /\ disturbed' = (disturbed \/ psInit # "ready")
  /\ UNCHANGED <<psInit, psCfg, psLatch, psEnabled, psUnmasked, psPkt, kbdRing, misread>>

\* inb of the data port, by mouse_init or a handler that leaves the lines `left' raised.
PortByte == IF psOut = <<>> THEN psLatch ELSE Head(psOut)
PortRead(left) ==
  /\ psLatch' = PortByte
  /\ IF psOut = <<>> THEN psOut' = psOut /\ psLines' = left
     ELSE psOut' = Tail(psOut) /\ psLines' = left \union Announced(Tail(psOut), psEnabled)

\* mouse_init.  An interrupt that is pending is taken before the next command is sent.
InitGoes(from, to) == psInit = from /\ psInit' = to
Commands(from, to, answer) ==
  /\ InitGoes(from, to) /\ Pending = {} /\ Queued(answer)
  /\ UNCHANGED <<psCfg, psLatch, psEnabled, psUnmasked, psPkt, psArrived, kbdRing, disturbed,
                 misread>>

\* i8042_drain
DrainOne ==
  /\ psInit = "drain" /\ psOut # <<>> /\ PortRead(psLines)
  /\ UNCHANGED <<psInit, psCfg, psEnabled, psUnmasked, psPkt, psArrived, kbdRing, disturbed,
                 misread>>

DrainEnds ==
  /\ InitGoes("drain", "ask") /\ psOut = <<>>
  /\ UNCHANGED <<psCfg, psOut, psLatch, psLines, psEnabled, psUnmasked, psPkt, psArrived, kbdRing,
                 disturbed, misread>>

AskConfig == Commands("ask", "config", <<"config">>)

\* read_data: the byte that stands there, or after 100000 polls the last one again.
ReadConfig ==
  /\ InitGoes("config", "write") /\ PortRead(psLines) /\ psCfg' = PortByte
  /\ UNCHANGED <<psEnabled, psUnmasked, psPkt, psArrived, kbdRing, disturbed, misread>>

\* What stood for the configuration is written back with the line of the mouse on: a scan code
\* in its place may switch the line of the keyboard off.
WriteConfig ==
  /\ InitGoes("write", "defaults") /\ Pending = {}
  /\ \E keys \in (IF psCfg = "config" THEN {{1}} ELSE {{}, {1}}) :
       /\ psEnabled' = {12} \union keys
       /\ psLines' = psLines \union Announced(psOut, {12} \union keys)
  /\ misread' = (misread \/ psCfg # "config")
  /\ UNCHANGED <<psCfg, psOut, psLatch, psUnmasked, psPkt, psArrived, kbdRing, disturbed>>

\* mouse_send
SetDefaults == Commands("defaults", "ack", <<"ack">>)
EnableStream == Commands("stream", "final", <<"ack">>)

ReadAck(from, to) ==
  /\ InitGoes(from, to) /\ PortRead(psLines)
  /\ UNCHANGED <<psCfg, psEnabled, psUnmasked, psPkt, psArrived, kbdRing, disturbed, misread>>

UnmaskIrq12 ==
  /\ InitGoes("unmask", "reset") /\ psUnmasked' = TRUE
  /\ UNCHANGED <<psCfg, psOut, psLatch, psLines, psEnabled, psPkt, psArrived, kbdRing,
                 disturbed, misread>>

\* A bug: the acknowledgements stay in the packet.
ResetForgotten ==
  /\ InitGoes("reset", "ready") /\ UNCHANGED psPkt
  /\ UNCHANGED <<psCfg, psOut, psLatch, psLines, psEnabled, psUnmasked, psArrived, kbdRing,
                 disturbed, misread>>

ResetPhase ==
  /\ InitGoes("reset", "ready") /\ psPkt' = <<>>
  /\ UNCHANGED <<psCfg, psOut, psLatch, psLines, psEnabled, psUnmasked, psArrived, kbdRing,
                 disturbed, misread>>

\* keyboard_irq: a byte of the mouse is left; nothing asks whether a byte stands there at all.
\* A byte of the mouse read again may look like any key.
CharOf(byte) == IF byte \in Char THEN {<<byte>>}
                ELSE IF byte \in AuxByte \ {"ack"} THEN {<<>>, <<"a">>} ELSE {<<>>}

\* A bug: the ring is filled to its last slot, where it looks empty.
PushFills(c) ==
  /\ kbuf' = [kbuf EXCEPT ![kHead] = c] /\ kHead' = (kHead + 1) % KBD_BUF
  /\ stdin' = Append(stdin, c) /\ UNCHANGED kTail

\* kbd_stdin_push: dropped when the ring is full.
Push(c) ==
  LET next == (kHead + 1) % KBD_BUF
  IN IF next = kTail THEN UNCHANGED kbdRing
     ELSE /\ kbuf' = [kbuf EXCEPT ![kHead] = c] /\ kHead' = next
          /\ stdin' = Append(stdin, c) /\ UNCHANGED kTail

KeyboardIrq(hasWindows) ==
  /\ 1 \in Pending
  /\ IF psOut # <<>> /\ Head(psOut) \in AuxByte
       THEN psLines' = psLines \ {1} /\ UNCHANGED <<psOut, psLatch, kbdRing, misread>>
       ELSE /\ PortRead(psLines \ {1})
            /\ misread' = (misread \/ (psOut = <<>> /\ CharOf(PortByte) # {<<>>}))
            /\ \E c \in CharOf(PortByte) :
                 IF c = <<>> \/ hasWindows THEN UNCHANGED kbdRing ELSE Push(c[1])
  /\ UNCHANGED <<psInit, psCfg, psEnabled, psUnmasked, psPkt, psArrived, disturbed>>

\* mouse_irq: only a byte of the mouse, into the packet; the first one must have the bit that
\* all first bytes and the acknowledgement have, and others may.
Assembles(byte) ==
  \/ psPkt = <<>> /\ byte \in {"second", "third"} /\ UNCHANGED <<psPkt, misread>>
  \/ Len(psPkt) < 2 /\ psPkt' = Append(psPkt, byte) /\ UNCHANGED misread
  \/ /\ Len(psPkt) = 2 /\ psPkt' = <<>>
     /\ misread' = (misread \/ Append(psPkt, byte) # Packet)

MouseIrq ==
  /\ 12 \in Pending
  /\ IF psOut = <<>> \/ Head(psOut) \notin AuxByte
       THEN psLines' = psLines \ {12} /\ UNCHANGED <<psOut, psLatch, psPkt, misread>>
       ELSE PortRead(psLines \ {12}) /\ Assembles(Head(psOut))
  /\ UNCHANGED <<psInit, psCfg, psEnabled, psUnmasked, psArrived, kbdRing, disturbed>>

\* kbd_stdin_read, for NtReadFile on the console by a process, which runs after the boot.
StdinRead(max) ==
  LET held == (kHead - kTail) % KBD_BUF
      n == IF max < held THEN max ELSE held
      got == [k \in 1..n |-> kbuf[(kTail + k - 1) % KBD_BUF]]
  IN /\ psInit = "ready" /\ n > 0 /\ kTail' = (kTail + n) % KBD_BUF
     /\ misread' = (misread \/ n > Len(stdin) \/ got # SubSeq(stdin, 1, n))
     /\ stdin' = SubSeq(stdin, n + 1, Len(stdin))
     /\ UNCHANGED <<psInit, psCfg, psOut, psLatch, psLines, psEnabled, psUnmasked, psPkt, kbuf,
                    kHead, psArrived, disturbed>>

\* Bound: what follows a disturbed mouse_init is not explored.
Ps2Next ==
  /\ ~(disturbed /\ psInit = "ready")
  /\ \/ \E byte \in KeyByte : Typed(byte)
     \/ Moved
     \/ DrainOne \/ DrainEnds \/ AskConfig \/ ReadConfig \/ WriteConfig \/ SetDefaults
     \/ ReadAck("ack", "stream") \/ EnableStream \/ ReadAck("final", "unmask")
     \/ UnmaskIrq12 \/ ResetPhase
     \/ \E hasWindows \in BOOLEAN : KeyboardIrq(hasWindows)
     \/ MouseIrq
     \/ \E max \in 1..2 : StdinRead(max)

Ps2Spec == Ps2Init /\ [][Ps2Next]_ps2Vars

\* A byte that stands in the output has its line raised, else neither device would be heard
\* again; only a scan code written as the configuration can take the keyboard's away.
ByteAnnounced ==
  psOut # <<>> /\ psInit = "ready" /\ 1 \in psEnabled => LineOf(Head(psOut)) \in psLines

\* If no key and no motion comes in mouse_init, though the handlers take its answers from
\* the port, the configuration is the one that was read, every packet is put together from
\* its own three bytes for ever after, and no key is read twice.
ReadForWhatItIs == misread => disturbed

\* The ring gives the characters it took, in their order (keyboard.c:22).
RingIsQueue ==
  /\ (kHead - kTail) % KBD_BUF = Len(stdin)
  /\ \A k \in DOMAIN stdin : kbuf[(kTail + k - 1) % KBD_BUF] = stdin[k]

Ps2Sound == ByteAnnounced /\ ReadForWhatItIs /\ RingIsQueue
=============================================================================
