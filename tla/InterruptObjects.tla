------------------------- MODULE InterruptObjects -------------------------
(***************************************************************************)
(* Interrupt objects: ke/amd64/kinterrupt.c.  A driver asks for the vector of *)
(* its line, connects a routine to the vector, and takes it back; the line    *)
(* is masked except while it is connected.  An interrupt is taken on the       *)
(* boot processor between any two steps of the code it interrupts, if its       *)
(* priority (the vector divided by sixteen) is above the IRQL, which CR8         *)
(* holds.                                                                      *)
(***************************************************************************)
EXTENDS Integers, Sequences, FiniteSets

CONSTANTS
  Line,          \* the lines of the devices (GSI)
  FirstVector, LastVector,  \* the vectors handed out (0x40..0x6F)
  MaxInterrupt,  \* entries of s_int_pool (32)
  DeviceIrql     \* levels a driver synchronizes at

\* The vector 0 is none, and 0xFFFFFFFF is no line.
ASSUME IoSizesOK ==
  /\ FirstVector \in Nat \ {0} /\ LastVector \in Nat /\ FirstVector <= LastVector + 1
  /\ Line \subseteq Nat /\ MaxInterrupt \in Nat /\ DeviceIrql \subseteq Nat

VARIABLES
  nextVector,    \* s_next_vec
  lineOf,        \* s_vec_gsi
  route,         \* the IO-APIC: the vector of each line, and whether it is masked
  ki,            \* s_int_pool
  table,         \* g_interrupt_table
  syncing,       \* the interrupt object whose KeSynchronizeExecution runs, 0 without one
  stuck,         \* a routine waits for a lock that the code it interrupted holds
  sharedUse      \* ghost: a line was asked for twice, or a vector connected twice

ioVars == <<nextVector, lineOf, route, ki, table, syncing, stuck, sharedUse>>

Vector == FirstVector..LastVector
\* No line: 0xFFFFFFFF.
NoLine == -1
Interrupt == 1..MaxInterrupt

IoTypeOK ==
  /\ nextVector \in FirstVector..LastVector + 1
  /\ lineOf \in [Vector -> Line \union {NoLine}]
  /\ route \in [Line -> [vector : Vector \union {0}, masked : BOOLEAN]]
  /\ ki \in Seq([vector : Vector, line : Line \union {NoLine}, sync : DeviceIrql,
                 connected : BOOLEAN]) /\ Len(ki) <= MaxInterrupt
  /\ table \in [Vector -> 0..Len(ki)]
  /\ syncing \in 0..Len(ki) /\ stuck \in BOOLEAN /\ sharedUse \in BOOLEAN

\* ke_interrupt_init
IoInit ==
  /\ nextVector = FirstVector /\ lineOf = [v \in Vector |-> NoLine]
  /\ route = [l \in Line |-> [vector |-> 0, masked |-> TRUE]]
  /\ ki = <<>> /\ table = [v \in Vector |-> 0]
  /\ syncing = 0 /\ stuck = FALSE /\ sharedUse = FALSE

Running == ~stuck
-----------------------------------------------------------------------------
\* HalGetInterruptVector: vectors are never given back, and a line that is asked for again
\* is routed to the new vector, masked.
GetVector(l) ==
  /\ Running /\ syncing = 0 /\ nextVector <= LastVector
  /\ nextVector' = nextVector + 1
  /\ lineOf' = [lineOf EXCEPT ![nextVector] = l]
  /\ route' = [route EXCEPT ![l] = [vector |-> nextVector, masked |-> TRUE]]
  /\ sharedUse' = (sharedUse \/ route[l].vector # 0)
  /\ UNCHANGED <<ki, table, syncing, stuck>>

\* IoConnectInterrupt: entries of the pool are never given back; the vector is taken over
\* whoever has it, and its line unmasked.  `sync' is the SynchronizeIrql that the driver
\* gives, or else its Irql, or else 11.
Connect(v, sync) ==
  /\ Running /\ syncing = 0 /\ Len(ki) < MaxInterrupt
  /\ ki' = Append(ki, [vector |-> v, line |-> lineOf[v], sync |-> sync, connected |-> TRUE])
  /\ table' = [table EXCEPT ![v] = Len(ki')]
  /\ route' = IF lineOf[v] = NoLine THEN route
              ELSE [route EXCEPT ![lineOf[v]] = [vector |-> v, masked |-> FALSE]]
  /\ sharedUse' = (sharedUse \/ table[v] # 0)
  /\ UNCHANGED <<nextVector, lineOf, syncing, stuck>>

\* IoDisconnectInterrupt: the vector is cleared whoever has it now.  A driver disconnects
\* what it connected.
Disconnect(k) ==
  /\ Running /\ syncing = 0 /\ ki[k].connected
  /\ ki' = [ki EXCEPT ![k].connected = FALSE]
  /\ table' = [table EXCEPT ![ki[k].vector] = 0]
  /\ route' = IF ki[k].line = NoLine THEN route
              ELSE [route EXCEPT ![ki[k].line] = [vector |-> ki[k].vector, masked |-> TRUE]]
  /\ UNCHANGED <<nextVector, lineOf, syncing, stuck, sharedUse>>

\* MUTANT of Disconnect: the line is left as it is.
DisconnectUnmasked(k) ==
  /\ Running /\ syncing = 0 /\ ki[k].connected
  /\ ki' = [ki EXCEPT ![k].connected = FALSE]
  /\ table' = [table EXCEPT ![ki[k].vector] = 0]
  /\ UNCHANGED <<route, nextVector, lineOf, syncing, stuck, sharedUse>>

\* KeSynchronizeExecution: the IRQL is raised and the lock taken; the routine runs; the
\* lock is released and the IRQL lowered.
SynchronizeBegin(k) ==
  /\ Running /\ syncing = 0 /\ ki[k].connected /\ syncing' = k
  /\ UNCHANGED <<nextVector, lineOf, route, ki, table, stuck, sharedUse>>

SynchronizeEnd ==
  /\ Running /\ syncing # 0 /\ syncing' = 0
  /\ UNCHANGED <<nextVector, lineOf, route, ki, table, stuck, sharedUse>>

\* ke_interrupt_dispatch, with interrupts off: the routine takes the lock of its object and
\* gives it back, or waits for ever if the interrupted code has it.
Dispatched(v) ==
  LET k == table[v] IN
  /\ Running /\ k # 0 /\ ki[k].connected
  /\ syncing # 0 => v \div 16 > ki[syncing].sync
  /\ stuck' = (syncing = k)
  /\ UNCHANGED <<nextVector, lineOf, route, ki, table, syncing, sharedUse>>

IoNext ==
  \/ \E l \in Line : GetVector(l)
  \/ \E v \in Vector, sync \in DeviceIrql : Connect(v, sync)
  \/ \E k \in DOMAIN ki : Disconnect(k) \/ SynchronizeBegin(k)
  \/ SynchronizeEnd
  \/ \E l \in Line : route[l].vector # 0 /\ ~route[l].masked /\ Dispatched(route[l].vector)

IoSpec == IoInit /\ [][IoNext]_ioVars
-----------------------------------------------------------------------------
\* An interrupt that is connected is found by its vector, and its line reaches the vector
\* unmasked; a line is masked while nobody is connected to it, so that a device cannot
\* interrupt without an end - unless a line or a vector was shared, which the code accepts
\* and does not support (kinterrupt.c:84, 96).  A routine waits for its own lock only if
\* its driver synchronizes below the priority of its vector (kinterrupt.c:131).
InterruptsSound ==
  /\ sharedUse \/ /\ \A k \in DOMAIN ki : ki[k].connected =>
                       /\ table[ki[k].vector] = k
                       /\ ki[k].line # NoLine => route[ki[k].line] = [vector |-> ki[k].vector, masked |-> FALSE]
                  /\ \A l \in Line : ~route[l].masked => table[route[l].vector] # 0
  /\ \A v \in Vector : table[v] # 0 => ki[table[v]].connected
  /\ stuck => ki[syncing].sync < ki[syncing].vector \div 16
=============================================================================
