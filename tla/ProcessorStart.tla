-------------------------- MODULE ProcessorStart --------------------------
(***************************************************************************)
(* The start of the application processors: ke/amd64/smp.c, the trampoline   *)
(* and ki_init_processor.  The boot processor writes a stack and a KPCR into *)
(* the slots of the trampoline, wakes one processor, waits a while, and goes  *)
(* on with the next; each processor reads the slots when it gets there.       *)
(***************************************************************************)
EXTENDS Integers, Sequences, FiniteSets

CONSTANTS
  MadtIds,       \* the APIC ids of the enabled processors, in the order of the MADT
  BootId,        \* the id of the boot processor
  MaxCpus,       \* MAX_CPUS: processors the tables have room for
  StartBlocks    \* blocks the heap has left for stacks and KPCRs

IdsOf(s) == {s[i] : i \in DOMAIN s}

ASSUME SmpSizesOK ==
  MadtIds \in Seq(Nat) /\ BootId \in Nat /\ MaxCpus \in Nat \ {0} /\ StartBlocks \in Nat

\* The MADT names a processor once, and none but the boot processor has the id 0: entry 0 of
\* g_ki_prcb is given to the boot processor whatever its id (main.c:373).
ASSUME MadtOK ==
  /\ \A i, j \in DOMAIN MadtIds : MadtIds[i] = MadtIds[j] => i = j
  /\ 0 \in IdsOf(MadtIds) => BootId = 0

VARIABLES
  cpus,          \* s_apic_id_table, up to s_cpu_count
  turn,          \* position in cpus of the processor to start, 0 before smp_start_aps
  sent,          \* commands sent to it: "slots", "INIT", "SIPI"
  slots,         \* for whom the stack and the KPCR in the trampoline are
  launched,      \* how many processors were sent their commands
  polling,       \* the boot processor polls s_ap_alive_count
  blocks,        \* heap blocks left
  ap,            \* how far each processor is
  mine,          \* whose stack and whose KPCR it read
  alive,         \* s_ap_alive_count
  seen,          \* s_ap_seen_id
  prcb,          \* processors that use each entry of g_ki_prcb
  late           \* a processor read the slots after they were given to the next one

smpVars == <<cpus, turn, sent, slots, launched, polling, blocks, ap, mine, alive, seen, prcb, late>>

\* No processor: 0xFF, which smp_apic_id_of answers too.
NoCpu == 255

Phase == {"off", "init", "stack", "kpcr", "entry", "alive", "online", "working"}

SmpTypeOK ==
  /\ cpus \in Seq(IdsOf(MadtIds) \union {BootId}) /\ Len(cpus) <= MaxCpus
  /\ turn \in 0..Len(cpus) + 1 /\ sent \in {"nothing", "slots", "INIT", "SIPI"}
  /\ slots \in IdsOf(MadtIds) \union {NoCpu} /\ launched \in 0..Len(MadtIds)
  /\ polling \in BOOLEAN /\ blocks \in 0..StartBlocks
  /\ ap \in [IdsOf(MadtIds) -> Phase] /\ alive \in Nat /\ seen \subseteq 0..MaxCpus - 1
  /\ mine \in [IdsOf(MadtIds) -> [stack : IdsOf(MadtIds) \union {NoCpu},
                                  kpcr : IdsOf(MadtIds) \union {NoCpu}]]
  /\ prcb \in [0..MaxCpus - 1 -> SUBSET (IdsOf(MadtIds) \union {BootId})] /\ late \in BOOLEAN

\* kmain registers the boot processor as number 0 before smp_init.
SmpInit ==
  /\ cpus = <<>> /\ turn = 0 /\ sent = "nothing" /\ slots = NoCpu
  /\ launched = 0 /\ polling = FALSE /\ blocks = StartBlocks
  /\ ap = [a \in IdsOf(MadtIds) |-> "off"]
  /\ mine = [a \in IdsOf(MadtIds) |-> [stack |-> NoCpu, kpcr |-> NoCpu]]
  /\ alive = 0 /\ seen = {} /\ prcb = [n \in 0..MaxCpus - 1 |-> IF n = 0 THEN {BootId} ELSE {}]
  /\ late = FALSE

apVars == <<ap, mine, alive, seen, prcb, late>>
-----------------------------------------------------------------------------
\* parse_madt: the first MAX_CPUS enabled processors; without a table, the boot
\* processor alone.  smp_start_aps ends at once when there is one processor.
Parse ==
  /\ cpus = <<>>
  /\ \/ /\ cpus' = SubSeq(MadtIds, 1, IF Len(MadtIds) > MaxCpus THEN MaxCpus ELSE Len(MadtIds))
        /\ turn' = IF Len(cpus') <= 1 THEN 0 ELSE 1
     \/ cpus' = <<BootId>> /\ turn' = 0
  /\ UNCHANGED <<sent, slots, launched, polling, blocks, apVars>>

Starting == turn \in DOMAIN cpus
Target == cpus[turn]
NextProcessor == /\ turn' = turn + 1 /\ sent' = "nothing"
                 /\ polling' = (turn = Len(cpus))

\* The boot processor itself is skipped.
SkipBoot ==
  /\ Starting /\ sent = "nothing" /\ Target = BootId
  /\ NextProcessor
  /\ UNCHANGED <<cpus, slots, launched, blocks, apVars>>

\* A KPCR and a stack; when one of them cannot be had, the other is lost.
WriteSlots ==
  /\ Starting /\ sent = "nothing" /\ Target # BootId
  /\ IF blocks < 2
       THEN /\ NextProcessor /\ blocks' = 0
            /\ UNCHANGED slots
       ELSE /\ sent' = "slots" /\ slots' = Target /\ blocks' = blocks - 2
            /\ UNCHANGED <<turn, polling>>
  /\ UNCHANGED <<cpus, launched, apVars>>

\* INIT, and after a delay two SIPIs, either of which may be lost; a processor that runs
\* takes no notice of the second.
SendInit ==
  /\ Starting /\ sent = "slots" /\ sent' = "INIT"
  /\ ap' = [ap EXCEPT ![Target] = "init"]
  /\ UNCHANGED <<cpus, turn, slots, launched, polling, blocks, mine, alive, seen, prcb, late>>

SendSipi ==
  /\ Starting /\ sent \in {"INIT", "SIPI"}
  /\ \/ UNCHANGED ap
     \/ ap[Target] = "init" /\ ap' = [ap EXCEPT ![Target] = "stack"]
  /\ IF sent = "INIT"
       THEN sent' = "SIPI" /\ UNCHANGED <<turn, polling, launched>>
       ELSE NextProcessor /\ launched' = launched + 1
  /\ UNCHANGED <<cpus, slots, blocks, mine, alive, seen, prcb, late>>

\* The polling ends when all answered, or after 200 rounds.
EndWait ==
  /\ polling /\ polling' = FALSE
  /\ UNCHANGED <<cpus, turn, sent, slots, launched, blocks, apVars>>

-----------------------------------------------------------------------------
\* lm_start of the trampoline: the stack, then the KPCR, as the slots are by then.
ReadSlot(a) ==
  /\ ap[a] \in {"stack", "kpcr"}
  /\ IF ap[a] = "stack"
       THEN mine' = [mine EXCEPT ![a].stack = slots] /\ ap' = [ap EXCEPT ![a] = "kpcr"]
       ELSE mine' = [mine EXCEPT ![a].kpcr = slots] /\ ap' = [ap EXCEPT ![a] = "entry"]
  /\ late' = (late \/ slots # a)
  /\ UNCHANGED <<cpus, turn, sent, slots, launched, polling, blocks, alive, seen, prcb>>

\* MUTANT of ReadSlot: the slots are read before the processor is told to start.
ReadSlotEarly(a) ==
  /\ ap[a] \in {"stack", "kpcr"}
  /\ IF ap[a] = "stack"
       THEN mine' = [mine EXCEPT ![a].stack = Head(cpus)] /\ ap' = [ap EXCEPT ![a] = "kpcr"]
       ELSE mine' = [mine EXCEPT ![a].kpcr = slots] /\ ap' = [ap EXCEPT ![a] = "entry"]
  /\ late' = (late \/ slots # a)
  /\ UNCHANGED <<cpus, turn, sent, slots, launched, polling, blocks, alive, seen, prcb>>

\* ap_entry, first part: the processor says that it is alive before it is set up.
SignalAlive(a) ==
  /\ ap[a] = "entry" /\ ap' = [ap EXCEPT ![a] = "alive"]
  /\ alive' = alive + 1
  /\ seen' = IF a < MaxCpus THEN seen \union {a} ELSE seen
  /\ UNCHANGED <<cpus, turn, sent, slots, launched, polling, blocks, mine, prcb, late>>

\* ki_init_processor(my_id, my_id): the APIC id is the index, and one past the tables is
\* left out.
InitProcessor(a) ==
  /\ ap[a] = "alive" /\ ap' = [ap EXCEPT ![a] = "online"]
  /\ prcb' = IF a < MaxCpus THEN [prcb EXCEPT ![a] = @ \union {a}] ELSE prcb
  /\ UNCHANGED <<cpus, turn, sent, slots, launched, polling, blocks, mine, alive, seen, late>>

\* ap_worker_loop, for ever.
EnterWorker(a) ==
  /\ ap[a] = "online" /\ ap' = [ap EXCEPT ![a] = "working"]
  /\ UNCHANGED <<cpus, turn, sent, slots, launched, polling, blocks, mine, alive, seen, prcb, late>>

SmpNext ==
  \/ Parse \/ SkipBoot \/ WriteSlots \/ SendInit \/ SendSipi \/ EndWait
  \/ \E a \in IdsOf(MadtIds) :
       ReadSlot(a) \/ SignalAlive(a) \/ InitProcessor(a) \/ EnterWorker(a)

SmpSpec == SmpInit /\ [][SmpNext]_smpVars
-----------------------------------------------------------------------------
\* Two processors never run on one stack or one KPCR, unless one came to the slots after
\* the boot processor had given them to the next (smp.c:349: the delays are all that
\* prevents it); the count of the living never runs ahead of the commands by more than the
\* processor that is being started; every entry of the scheduler has one processor.
StartSound ==
  /\ \A a, b \in IdsOf(MadtIds) :
       a # b /\ ap[a] \in {"entry", "alive", "online", "working"}
             /\ ap[b] \in {"entry", "alive", "online", "working"} /\ ~late
         => mine[a].stack # mine[b].stack /\ mine[a].kpcr # mine[b].kpcr
  /\ alive = Cardinality({a \in IdsOf(MadtIds) : ap[a] \in {"alive", "online", "working"}})
  /\ alive <= launched + 1 /\ Cardinality(seen) <= alive
  /\ \A n \in 0..MaxCpus - 1 : Cardinality(prcb[n]) <= 1
=============================================================================
