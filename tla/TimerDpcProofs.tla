--------------------------- MODULE TimerDpcProofs ---------------------------
(***************************************************************************)
(* Proofs about deferred work, for all sets of threads, timers and DPCs and  *)
(* every size of the batch.                                                 *)
(***************************************************************************)
EXTENDS TimerDpc, SequenceTheorems, WellFoundedInduction, TLAPS

\* The part of KeLowerIrql, and of the drain inside it, that runs at DISPATCH.
Lowering == {"lower", "drain", "draining", "called", "lowered"}

RoutinePC == {"off", "run", "set", "setting", "cancel", "cancelling", "insert", "inserting",
              "inserted", "remove", "removing", "spin"}

\* Each context is where its kind can be.
Places ==
  /\ \A t \in Thread : pc[t] \in ServicePC
  /\ pc[Isr] \in IsrPC
  /\ pc[Routine] \in RoutinePC

\* A call about a DPC or a timer has one.
Arguments ==
  \A c \in Context :
    /\ pc[c] \in {"insert", "inserting", "remove", "removing"} => arg[c] \in Dpc
    /\ pc[c] \in {"set", "setting", "cancel", "cancelling"} => arg[c] \in Timer

\* A routine runs exactly while somebody waits for it to return.
RoutineCalled ==
  /\ routine = NONE <=> drainer = NONE
  /\ routine = NONE <=> pc[Routine] = "off"
  /\ \A c \in Context : pc[c] = "called" <=> drainer = c

\* The IRQL is 2 exactly while the current thread, or the interrupt above it, has raised it
\* and not lowered it; the interrupt does so only when the thread had not.
Levels ==
  /\ raised \subseteq {current}
  /\ raised # {} => irql = 2
  /\ \A t \in Thread : pc[t] \in Lowering => t = current /\ irql = 2
  /\ \A t \in Thread : pc[t] = "spin" => t \in raised
  /\ pc[Isr] \in Lowering =>
       /\ irql = 2 /\ raised = {}
       /\ \A t \in Thread : pc[t] \notin Lowering
       /\ routine # NONE => drainer = Isr
  /\ irql = 2 => \/ raised # {}
                 \/ \E t \in Thread : pc[t] \in Lowering
                 \/ pc[Isr] \in Lowering

\* Whoever holds the drivers' lock is at DISPATCH and does not lower, nor spin again.
SpinHeld ==
  /\ spinOwner # Isr
  /\ spinOwner \in Thread => spinOwner \in raised /\ pc[spinOwner] \notin Lowering \cup {"spin"}
  /\ spinOwner = Routine => routine # NONE /\ pc[Routine] # "spin"

Control == TypeOK /\ Places /\ Arguments /\ RoutineCalled /\ Levels /\ SpinHeld

-----------------------------------------------------------------------------
(* Lists.                                                                  *)

LEMMA AppendList ==
  ASSUME NEW S, NEW s \in Seq(S), NEW e \in S
  PROVE  /\ Append(s, e) \in Seq(S)
         /\ Range(Append(s, e)) = Range(s) \cup {e}
         /\ IsInjective(s) /\ e \notin Range(s) => IsInjective(Append(s, e))
<1>1. /\ Append(s, e) \in Seq(S)
      /\ Len(s) \in Nat /\ DOMAIN s = 1 .. Len(s)
      /\ DOMAIN Append(s, e) = 1 .. (Len(s) + 1)
      /\ \A i \in 1 .. Len(s) : Append(s, e)[i] = s[i]
      /\ Append(s, e)[Len(s) + 1] = e
  BY AppendProperties, LenProperties
<1>2. Range(Append(s, e)) = Range(s) \cup {e}
  BY <1>1, SMTT(30) DEF Range
<1>3. IsInjective(s) /\ e \notin Range(s) => IsInjective(Append(s, e))
  BY <1>1, SMTT(30) DEF IsInjective, Range
<1> QED BY <1>1, <1>2, <1>3

\* A set of numbers that has no least element is empty.
LEMMA NoLeast ==
  ASSUME NEW T \in SUBSET Nat, 0 \notin T, \A n \in Nat : n \notin T => n + 1 \notin T
  PROVE  T = {}
<1> SUFFICES ASSUME T # {} PROVE FALSE
  OBVIOUS
<1>1. PICK m \in T : \A y \in T : ~(<<y, m>> \in OpToRel(<, Nat))
  BY NatLessThanWellFounded, WFMin
<1>2. m \in Nat /\ m # 0
  BY <1>1
<1>3. m - 1 \in Nat /\ (m - 1) + 1 = m
  BY <1>2
<1>4. m - 1 \in T
  BY <1>1, <1>3
<1>5. <<m - 1, m>> \in OpToRel(<, Nat)
  BY <1>2, <1>3 DEF OpToRel
<1> QED BY <1>1, <1>4, <1>5

\* What the walk of a list has kept after each element.
Kept(g, s, K, n) ==
  g = [i \in 0..n |->
         IF i = 0 THEN <<>>
         ELSE IF s[i] \in K THEN Append(g[i - 1], s[i]) ELSE g[i - 1]]

LEMMA KeptExists ==
  ASSUME NEW s, NEW K
  PROVE  \A n \in Nat : \E g : Kept(g, s, K, n)
<1> DEFINE T == {n \in Nat : ~ \E g : Kept(g, s, K, n)}
<1>1. 0 \notin T
  <2>1. Kept([i \in 0..0 |-> <<>>], s, K, 0)
    BY DEF Kept
  <2> QED BY <2>1
<1>2. ASSUME NEW n \in Nat, n \notin T PROVE n + 1 \notin T
  <2>1. PICK g : Kept(g, s, K, n)
    BY <1>2
  <2> DEFINE h == [i \in 0..(n + 1) |->
                     IF i <= n THEN g[i]
                     ELSE IF s[i] \in K THEN Append(g[n], s[i]) ELSE g[n]]
  <2>2. ASSUME NEW i \in 0..(n + 1)
        PROVE  h[i] = IF i = 0 THEN <<>>
                      ELSE IF s[i] \in K THEN Append(h[i - 1], s[i]) ELSE h[i - 1]
    <3>1. CASE i <= n
      <4>1. i \in 0..n /\ (i # 0 => i - 1 \in 0..n)
        BY <3>1
      <4>2. g[i] = IF i = 0 THEN <<>>
                   ELSE IF s[i] \in K THEN Append(g[i - 1], s[i]) ELSE g[i - 1]
        BY <4>1, <2>1 DEF Kept
      <4>3. h[i] = g[i] /\ (i # 0 => h[i - 1] = g[i - 1])
        BY <3>1, <4>1
      <4> QED BY <4>2, <4>3
    <3>2. CASE i = n + 1
      <4>1. i # 0 /\ i - 1 = n /\ n \in 0..(n + 1) /\ ~(i <= n)
        BY <3>2
      <4> QED BY <3>2, <4>1
    <3> QED BY <3>1, <3>2
  <2>3. h = [i \in 0..(n + 1) |->
               IF i = 0 THEN <<>>
               ELSE IF s[i] \in K THEN Append(h[i - 1], s[i]) ELSE h[i - 1]]
    BY <2>2
  <2>4. Kept(h, s, K, n + 1)
    BY <2>3 DEF Kept
  <2> QED BY <2>4
<1>3. T = {}
  BY <1>1, <1>2, NoLeast
<1> QED BY <1>3


\* The elements of a list that are in K, in their order: what is kept of the list
\* is in K, and no element of the list that is in K is missing or doubled.
LEMMA OnlyList ==
  ASSUME NEW S, NEW s \in Seq(S), NEW K
  PROVE  /\ Only(s, K) \in Seq(S)
         /\ Range(Only(s, K)) = Range(s) \cap K
         /\ IsInjective(s) => IsInjective(Only(s, K))
<1>1. Len(s) \in Nat /\ DOMAIN s = 1..Len(s) /\ \A i \in 1..Len(s) : s[i] \in S
  BY LenProperties, ElementOfSeq
<1> DEFINE f == CHOOSE g : Kept(g, s, K, Len(s))
<1>2. Kept(f, s, K, Len(s))
  BY <1>1, KeptExists
<1>3. Only(s, K) = f[Len(s)]
  BY DEF Only, Kept
<1> HIDE DEF f
<1>4. f[0] = <<>>
  BY <1>1, <1>2 DEF Kept
<1>5. ASSUME NEW n \in Nat, n + 1 <= Len(s)
      PROVE  f[n + 1] = IF s[n + 1] \in K THEN Append(f[n], s[n + 1]) ELSE f[n]
  <2>1. n + 1 \in 0..Len(s) /\ n + 1 # 0 /\ (n + 1) - 1 = n
    BY <1>1, <1>5
  <2> QED BY <2>1, <1>2 DEF Kept
<1> DEFINE Fits(n) == /\ f[n] \in Seq(S)
                      /\ Range(f[n]) = {s[i] : i \in 1..n} \cap K
                      /\ IsInjective(s) => IsInjective(f[n])
           T == {n \in Nat : n <= Len(s) /\ ~Fits(n)}
<1>6. 0 \notin T
  <2>1. <<>> \in Seq(S) /\ Range(<<>>) = {} /\ IsInjective(<<>>)
    BY EmptySeq DEF Range, IsInjective
  <2>2. {s[i] : i \in 1..0} = {}
    OBVIOUS
  <2> QED BY <2>1, <2>2, <1>4
<1>7. ASSUME NEW n \in Nat, n \notin T PROVE n + 1 \notin T
  <2> SUFFICES ASSUME n + 1 <= Len(s) PROVE Fits(n + 1)
    OBVIOUS
  <2>1. n <= Len(s) /\ Fits(n) /\ n + 1 \in 1..Len(s)
    BY <1>1, <1>7
  <2>2. {s[i] : i \in 1..(n + 1)} = {s[i] : i \in 1..n} \cup {s[n + 1]}
    <3>1. 1..(n + 1) = 1..n \cup {n + 1}
      OBVIOUS
    <3> QED BY <3>1
  <2>3. CASE s[n + 1] \notin K
    BY <2>1, <2>2, <2>3, <1>5
  <2>4. CASE s[n + 1] \in K
    <3>1. f[n + 1] = Append(f[n], s[n + 1])
      BY <2>4, <2>1, <1>5
    <3>2. s[n + 1] \in S
      BY <1>1, <2>1
    <3>3. /\ f[n + 1] \in Seq(S)
          /\ Range(f[n + 1]) = Range(f[n]) \cup {s[n + 1]}
          /\ IsInjective(f[n]) /\ s[n + 1] \notin Range(f[n]) => IsInjective(f[n + 1])
      BY <2>1, <3>1, <3>2, AppendList
    <3>4. IsInjective(s) => s[n + 1] \notin {s[i] : i \in 1..n}
      BY <1>1, <2>1 DEF IsInjective
    <3> QED BY <2>1, <2>2, <2>4, <3>3, <3>4
  <2> QED BY <2>3, <2>4
<1>8. T = {}
  <2> HIDE DEF Fits
  <2> QED BY <1>6, <1>7, NoLeast
<1>9. Fits(Len(s))
  <2> HIDE DEF Fits
  <2>1. Len(s) \in Nat /\ Len(s) <= Len(s)
    BY <1>1
  <2> QED BY <2>1, <1>8
<1>10. {s[i] : i \in 1..Len(s)} = Range(s)
  BY <1>1 DEF Range
<1> QED BY <1>3, <1>9, <1>10

LEMMA OnlyEmpty ==
  ASSUME NEW K
  PROVE  Only(<<>>, K) = <<>>
<1> DEFINE g == [i \in 0..0 |-> <<>>]
           h == CHOOSE f : Kept(f, <<>>, K, 0)
<1>1. Kept(g, <<>>, K, 0)
  BY DEF Kept
<1>2. Kept(h, <<>>, K, 0)
  BY <1>1
<1>3. Len(<<>>) = 0
  BY EmptySeq
<1>4. Only(<<>>, K) = h[0]
  BY <1>3 DEF Only, Kept
<1> HIDE DEF h
<1> QED BY <1>2, <1>4 DEF Kept

LEMMA TailList ==
  ASSUME NEW S, NEW s \in Seq(S), s # <<>>, IsInjective(s)
  PROVE  /\ Head(s) \in S /\ Tail(s) \in Seq(S)
         /\ Range(Tail(s)) = Range(s) \ {Head(s)} /\ Head(s) \in Range(s)
         /\ IsInjective(Tail(s))
<1>1. /\ Len(s) \in Nat /\ Len(s) > 0
      /\ DOMAIN s = 1 .. Len(s)
      /\ Head(s) = s[1] /\ Head(s) \in S
      /\ Tail(s) \in Seq(S)
      /\ DOMAIN Tail(s) = 1 .. (Len(s) - 1)
      /\ \A i \in 1 .. (Len(s) - 1) : Tail(s)[i] = s[i + 1]
  BY HeadTailProperties, LenProperties, EmptySeq
<1>2. Head(s) \in Range(s)
  BY <1>1 DEF Range
<1>3. \A i \in 1 .. (Len(s) - 1) : i + 1 \in 1 .. Len(s) /\ i + 1 # 1
  BY <1>1
<1>4. Range(Tail(s)) \subseteq Range(s) \ {Head(s)}
  BY <1>1, <1>3 DEF Range, IsInjective
<1>5. ASSUME NEW x \in Range(s) \ {Head(s)} PROVE x \in Range(Tail(s))
  <2>1. PICK i \in 1 .. Len(s) : x = s[i]
    BY <1>1 DEF Range
  <2>2. i # 1 /\ i - 1 \in 1 .. (Len(s) - 1) /\ Tail(s)[i - 1] = x
    BY <1>1, <2>1, <1>5
  <2> QED BY <2>2, <1>1 DEF Range
<1>6. IsInjective(Tail(s))
  BY <1>1, <1>3 DEF IsInjective
<1> QED BY <1>1, <1>2, <1>4, <1>5, <1>6

\* The first elements of a list.
LEMMA PrefixList ==
  ASSUME NEW S, NEW s \in Seq(S), NEW n \in Nat, n <= Len(s)
  PROVE  /\ SubSeq(s, 1, n) \in Seq(S)
         /\ Range(SubSeq(s, 1, n)) \subseteq Range(s)
         /\ IsInjective(s) => IsInjective(SubSeq(s, 1, n))
<1>1. /\ Len(s) \in Nat /\ DOMAIN s = 1 .. Len(s)
      /\ SubSeq(s, 1, n) \in Seq(S)
      /\ DOMAIN SubSeq(s, 1, n) = 1 .. n
      /\ \A i \in 1 .. n : SubSeq(s, 1, n)[i] = s[i] /\ i \in 1 .. Len(s)
  <2>1. Len(s) \in Nat /\ DOMAIN s = 1 .. Len(s)
    BY LenProperties
  <2>2. \A i \in 1 .. n : s[i] \in S /\ i \in 1 .. Len(s)
    BY <2>1, ElementOfSeq
  <2>3. SubSeq(s, 1, n) = [i \in 1 .. n |-> s[i]]
    BY <2>1, <2>2
  <2> QED BY <2>1, <2>2, <2>3, SeqDef
<1> QED BY <1>1 DEF Range, IsInjective

-----------------------------------------------------------------------------
(* Who executes.                                                           *)

LEMMA Executes ==
  ASSUME Control, NEW c \in Context, Executing(c)
  PROVE  /\ c \in Thread => /\ c = current /\ pc[Isr] = "off" /\ routine = NONE /\ drainer = NONE
                            /\ pc[Routine] = "off"
         /\ c = Routine => /\ routine # NONE /\ drainer # NONE /\ irql = 2
                           /\ pc[Isr] # "off" => drainer = Isr
         /\ c = Isr => /\ pc[Isr] # "off" /\ drainer # Isr /\ pc[Isr] # "called"
                       /\ pc[Isr] \in Lowering => routine = NONE
<1>1. CASE c \in Thread
  <2>1. c # Routine /\ c # Isr
    BY <1>1, ContextsDistinct DEF ContextsDistinct
  <2> QED BY <1>1, <2>1 DEF Executing, InIsr, Control, RoutineCalled
<1>2. CASE c = Routine
  <2>1. routine # NONE /\ drainer # NONE /\ (pc[Isr] # "off" => drainer = Isr)
    BY <1>2, ContextsDistinct DEF ContextsDistinct, Executing, InIsr, Control, RoutineCalled
  <2>2. drainer \in Thread \cup {Isr}
    BY <2>1 DEF Control, TypeOK, RoutineCalled, Places, RoutinePC, Context
  <2>3. irql = 2
    BY <2>2, ContextsDistinct DEF ContextsDistinct, Control, RoutineCalled, Levels, Lowering, Context
  <2> QED BY <1>2, <2>1, <2>3, ContextsDistinct DEF ContextsDistinct
<1>3. CASE c = Isr
  <2>1. c # Routine
    BY <1>3, ContextsDistinct DEF ContextsDistinct
  <2>2. pc[Isr] # "off" /\ drainer # Isr
    BY <1>3, <2>1 DEF Executing, InIsr
  <2>3. pc[Isr] # "called"
    BY <1>3, <2>2 DEF Control, RoutineCalled
  <2>4. pc[Isr] \in Lowering => routine = NONE
    BY <2>2 DEF Control, Levels
  <2> QED BY <1>3, <2>1, <2>2, <2>3, <2>4, ContextsDistinct DEF ContextsDistinct
<1> QED BY <1>1, <1>2, <1>3 DEF Context

LEMMA ControlInit == Init => Control
<1> SUFFICES ASSUME Init PROVE Control
  OBVIOUS
<1>1. TypeOK
  <2>1. <<>> \in Seq(Dpc) /\ <<>> \in Seq(Timer)
    BY EmptySeq
  <2>2. pc \in [Context -> ServicePC \cup IsrPC] /\ arg \in [Context -> Timer \cup Dpc \cup {NONE}]
    BY DEF Init, ServicePC, IsrPC
  <2>3. signal \in [Timer -> 0 .. 1] /\ queued \in [Dpc -> BOOLEAN]
    BY DEF Init
  <2>4. irql \in {0, 2} /\ raised \subseteq Thread /\ current \in Thread
    BY DEF Init
  <2> QED BY <2>1, <2>2, <2>3, <2>4 DEF Init, TypeOK
<1>2. /\ \A t \in Thread : pc[t] = "run"
      /\ pc[Isr] = "off" /\ pc[Routine] = "off"
  BY ContextsDistinct DEF ContextsDistinct, Init, Context
<1>3. Places /\ Arguments /\ RoutineCalled
  BY <1>2, ContextsDistinct DEF ContextsDistinct, Init, Places, Arguments, RoutineCalled, ServicePC, IsrPC,
     RoutinePC, Context
<1>4. Levels /\ SpinHeld
  BY <1>2, ContextsDistinct DEF ContextsDistinct, Init, Levels, SpinHeld, Lowering
<1> QED BY <1>1, <1>3, <1>4 DEF Control

-----------------------------------------------------------------------------
(* Steps of control: everything but the lists.                             *)

Scalars ==
  /\ current \in Thread /\ irql \in {0, 2} /\ ifOff \in BOOLEAN
  /\ pc \in [Context -> ServicePC \cup IsrPC]
  /\ arg \in [Context -> Timer \cup Dpc \cup {NONE}]
  /\ raised \subseteq Thread /\ spinOwner \in Context \cup {NONE}
  /\ drainer \in Context \cup {NONE} /\ routine \in Dpc \cup {NONE}

ControlKept == Scalars /\ Places /\ Arguments /\ RoutineCalled /\ Levels /\ SpinHeld

\* What a thread or a routine starts, and what it gives back.
LEMMA CallControl ==
  ASSUME Control
  PROVE  /\ \A c \in Context, d \in Dpc : KeInsertQueueDpc(c, d) => ControlKept'
         /\ \A c \in Context, d \in Dpc : KeRemoveQueueDpc(c, d) => ControlKept'
         /\ \A c \in Context, o \in Timer : KeSetTimerEx(c, o) => ControlKept'
         /\ \A c \in Context, o \in Timer : KeCancelTimer(c, o) => ControlKept'
         /\ \A t \in Thread : KeRaiseIrql(t) => ControlKept'
         /\ \A t \in Thread : KeAcquireSpinLock(t) => ControlKept'
         /\ KeAcquireSpinLockAtDpcLevel => ControlKept'
         /\ \A t \in Thread : KeLowerIrql(t) => ControlKept'
         /\ \A c \in Thread \cup {Routine} : KeReleaseSpinLock(c) => ControlKept'
         /\ RoutineReturns => ControlKept'
<1> USE Executes, ContextsDistinct
    DEF ContextsDistinct, Context, At, Goto, callVars, cpuVars, dpcVars, drainVars, timerVars, Control, TypeOK,
        ControlKept, Scalars, Places, Arguments, RoutineCalled, Levels, SpinHeld, Lowering, ServicePC, IsrPC, RoutinePC
<1>1. ASSUME NEW c \in Context, NEW d \in Dpc, KeInsertQueueDpc(c, d)
      PROVE  ControlKept'
  <2>1. /\ pc' = [pc EXCEPT ![c] = "insert"] /\ pc[c] = "run" /\ Executing(c) /\ c # Isr /\ ifOff' \in BOOLEAN
        /\ arg' = [arg EXCEPT ![c] = d]
        /\ UNCHANGED <<current, irql, raised, spinOwner, drainer, routine>>
    BY <1>1 DEF KeInsertQueueDpc, Call
  <2>2. Scalars' BY <2>1
  <2>3. (Places /\ RoutineCalled)' BY <2>1
  <2>4. Arguments' BY <2>1
  <2>5. (Levels /\ SpinHeld)' BY <2>1
  <2> QED BY ONLY <2>2, <2>3, <2>4, <2>5 DEF ControlKept
<1>2. ASSUME NEW c \in Context, NEW d \in Dpc, KeRemoveQueueDpc(c, d)
      PROVE  ControlKept'
  <2>1. /\ pc' = [pc EXCEPT ![c] = "remove"] /\ pc[c] = "run" /\ Executing(c) /\ c # Isr /\ ifOff' \in BOOLEAN
        /\ arg' = [arg EXCEPT ![c] = d]
        /\ UNCHANGED <<current, irql, raised, spinOwner, drainer, routine>>
    BY <1>2 DEF KeRemoveQueueDpc, Call
  <2>2. Scalars' BY <2>1
  <2>3. (Places /\ RoutineCalled)' BY <2>1
  <2>4. Arguments' BY <2>1
  <2>5. (Levels /\ SpinHeld)' BY <2>1
  <2> QED BY ONLY <2>2, <2>3, <2>4, <2>5 DEF ControlKept
<1>3. ASSUME NEW c \in Context, NEW o \in Timer, KeSetTimerEx(c, o)
      PROVE  ControlKept'
  <2>1. /\ pc' = [pc EXCEPT ![c] = "set"] /\ pc[c] = "run" /\ Executing(c) /\ c # Isr /\ ifOff' \in BOOLEAN
        /\ arg' = [arg EXCEPT ![c] = o]
        /\ UNCHANGED <<current, irql, raised, spinOwner, drainer, routine>>
    BY <1>3 DEF KeSetTimerEx, Call
  <2>2. Scalars' BY <2>1
  <2>3. (Places /\ RoutineCalled)' BY <2>1
  <2>4. Arguments' BY <2>1
  <2>5. (Levels /\ SpinHeld)' BY <2>1
  <2> QED BY ONLY <2>2, <2>3, <2>4, <2>5 DEF ControlKept
<1>4. ASSUME NEW c \in Context, NEW o \in Timer, KeCancelTimer(c, o)
      PROVE  ControlKept'
  <2>1. /\ pc' = [pc EXCEPT ![c] = "cancel"] /\ pc[c] = "run" /\ Executing(c) /\ c # Isr /\ ifOff' \in BOOLEAN
        /\ arg' = [arg EXCEPT ![c] = o]
        /\ UNCHANGED <<current, irql, raised, spinOwner, drainer, routine>>
    BY <1>4 DEF KeCancelTimer, Call
  <2>2. Scalars' BY <2>1
  <2>3. (Places /\ RoutineCalled)' BY <2>1
  <2>4. Arguments' BY <2>1
  <2>5. (Levels /\ SpinHeld)' BY <2>1
  <2> QED BY ONLY <2>2, <2>3, <2>4, <2>5 DEF ControlKept
<1>5. ASSUME NEW t \in Thread, KeRaiseIrql(t) PROVE  ControlKept'
  BY <1>5 DEF KeRaiseIrql
<1>6. ASSUME NEW t \in Thread, KeAcquireSpinLock(t) PROVE  ControlKept'
  BY <1>6 DEF KeAcquireSpinLock
<1>7. ASSUME KeAcquireSpinLockAtDpcLevel PROVE ControlKept'
  BY <1>7 DEF KeAcquireSpinLockAtDpcLevel, Call
<1>8. ASSUME NEW t \in Thread, KeLowerIrql(t) PROVE  ControlKept'
  BY <1>8 DEF KeLowerIrql
<1>9. ASSUME NEW c \in Thread \cup {Routine}, KeReleaseSpinLock(c)
      PROVE  ControlKept'
  BY <1>9 DEF KeReleaseSpinLock
<1>10. ASSUME RoutineReturns PROVE ControlKept'
  BY <1>10 DEF RoutineReturns
<1> QED
  <2> HIDE DEF ControlKept
  <2> QED BY ONLY <1>1, <1>2, <1>3, <1>4, <1>5, <1>6, <1>7, <1>8, <1>9, <1>10

\* Lowering the IRQL, with the drain.
LEMMA LowerControl ==
  ASSUME Control
  PROVE  /\ \A c \in Context : CheckPending(c) => ControlKept'
         /\ \A c \in Context : DrainIfPassive(c) => ControlKept'
         /\ \A c \in Context : Retire(c) => ControlKept'
         /\ \A c \in Context : WriteIrql(c) => ControlKept'
<1> USE Executes, ContextsDistinct
    DEF ContextsDistinct, Context, At, Goto, callVars, cpuVars, dpcVars, drainVars, timerVars, Control, TypeOK,
        ControlKept, Scalars, Places, Arguments, RoutineCalled, Levels, SpinHeld, Lowering, ServicePC, IsrPC, RoutinePC
<1>1. ASSUME NEW c \in Context, CheckPending(c) PROVE  ControlKept'
  BY <1>1 DEF CheckPending
<1>2. ASSUME NEW c \in Context, DrainIfPassive(c) PROVE  ControlKept'
  <2>1. CASE irql < 2
    <3>1. /\ pc' = [pc EXCEPT ![c] = "lower"] /\ pc[c] = "inserted" /\ Executing(c) /\ irql' = 2 /\ irql = 0
          /\ ifOff' \in BOOLEAN
          /\ UNCHANGED <<current, raised, arg, spinOwner, drainer, routine>>
      BY <1>2, <2>1 DEF DrainIfPassive
    <3> QED BY <3>1
  <2>2. CASE ~(irql < 2)
    BY <1>2, <2>2 DEF DrainIfPassive, Return, ReturnTo
  <2> QED BY <2>1, <2>2
<1>3. ASSUME NEW c \in Context, Retire(c) PROVE  ControlKept'
  <2>1. CASE dpcQ = <<>>
    BY SMTT(60), <1>3, <2>1 DEF Retire
  <2>2. CASE dpcQ # <<>>
    <3>1. Head(dpcQ) \in Dpc /\ Head(dpcQ) # NONE
      BY <2>2, HeadTailProperties
    <3>2. /\ pc' = [pc EXCEPT ![c] = "called", ![Routine] = "run"] /\ pc[c] = "draining" /\ Executing(c)
          /\ routine' = Head(dpcQ) /\ drainer' = c /\ ifOff' \in BOOLEAN
          /\ UNCHANGED <<current, irql, raised, arg, spinOwner>>
      BY <1>3, <2>2 DEF Retire
    <3>3. Scalars' BY <3>1, <3>2
    <3>4. Places' BY <3>1, <3>2
    <3>5. (Arguments /\ RoutineCalled)' BY <3>1, <3>2
    <3>6. Levels' BY <3>1, <3>2
    <3>7. SpinHeld' BY <3>1, <3>2
    <3> QED BY ONLY <3>3, <3>4, <3>5, <3>6, <3>7 DEF ControlKept
  <2> QED BY <2>1, <2>2
<1>4. ASSUME NEW c \in Context, WriteIrql(c) PROVE  ControlKept'
  BY <1>4 DEF WriteIrql, ReturnTo
<1> QED
  <2> HIDE DEF ControlKept
  <2> QED BY ONLY <1>1, <1>2, <1>3, <1>4

\* The lists of DPCs and of timers, and their locks.
LEMMA ListControl ==
  ASSUME Control
  PROVE  /\ \A c \in Context : LockDpcs(c, "insert", "inserting") => ControlKept'
         /\ \A c \in Context : LockDpcs(c, "remove", "removing") => ControlKept'
         /\ \A c \in Context : LockDpcs(c, "drain", "draining") => ControlKept'
         /\ \A c \in Context : Enqueue(c) => ControlKept'
         /\ \A c \in Context : Dequeue(c) => ControlKept'
         /\ \A c \in Context : LockTimers(c, "set", "setting") => ControlKept'
         /\ \A c \in Context : LockTimers(c, "cancel", "cancelling") => ControlKept'
         /\ \A c \in Context : SetTimer(c) => ControlKept'
         /\ \A c \in Context : CancelTimer(c) => ControlKept'
         /\ \A c \in Context : SpinAcquired(c) => ControlKept'
<1> USE Executes, ContextsDistinct
    DEF ContextsDistinct, Context, At, Goto, callVars, cpuVars, dpcVars, drainVars, timerVars, Control, TypeOK,
        ControlKept, Scalars, Places, Arguments, RoutineCalled, Levels, SpinHeld, Lowering, ServicePC, IsrPC, RoutinePC
<1>1. ASSUME NEW c \in Context, LockDpcs(c, "insert", "inserting") PROVE  ControlKept'
  BY <1>1 DEF LockDpcs
<1>8. ASSUME NEW c \in Context, LockDpcs(c, "remove", "removing") PROVE  ControlKept'
  BY <1>8 DEF LockDpcs
<1>9. ASSUME NEW c \in Context, LockDpcs(c, "drain", "draining") PROVE  ControlKept'
  BY <1>9 DEF LockDpcs
<1>2. ASSUME NEW c \in Context, Enqueue(c) PROVE  ControlKept'
  <2>1. CASE queued[arg[c]]
    <3>1. /\ pc' = [pc EXCEPT ![c] = IF c = Isr THEN "rearm" ELSE "run"] /\ pc[c] = "inserting"
          /\ arg' = [arg EXCEPT ![c] = NONE] /\ Executing(c) /\ ifOff' \in BOOLEAN
          /\ UNCHANGED <<current, irql, raised, spinOwner, drainer, routine>>
      BY <1>2, <2>1 DEF Enqueue, AlreadyQueued, Return, ReturnTo
    <3> QED BY <3>1
  <2>2. CASE ~queued[arg[c]]
    <3>1. /\ pc' = [pc EXCEPT ![c] = "inserted"] /\ pc[c] = "inserting" /\ Executing(c) /\ ifOff' \in BOOLEAN
          /\ UNCHANGED <<current, irql, raised, arg, spinOwner, drainer, routine>>
      BY <1>2, <2>2 DEF Enqueue, AlreadyQueued
    <3> QED BY <3>1
  <2> QED BY <2>1, <2>2
<1>3. ASSUME NEW c \in Context, Dequeue(c) PROVE  ControlKept'
  BY <1>3 DEF Dequeue, Return, ReturnTo
<1>4. ASSUME NEW c \in Context, LockTimers(c, "set", "setting") PROVE  ControlKept'
  BY <1>4 DEF LockTimers
<1>10. ASSUME NEW c \in Context, LockTimers(c, "cancel", "cancelling") PROVE  ControlKept'
  BY <1>10 DEF LockTimers
<1>5. ASSUME NEW c \in Context, SetTimer(c) PROVE  ControlKept'
  BY <1>5 DEF SetTimer, Return, ReturnTo
<1>6. ASSUME NEW c \in Context, CancelTimer(c) PROVE  ControlKept'
  BY <1>6 DEF CancelTimer, Return, ReturnTo
<1>7. ASSUME NEW c \in Context, SpinAcquired(c) PROVE  ControlKept'
  BY <1>7 DEF SpinAcquired
<1> QED
  <2> HIDE DEF ControlKept
  <2> QED BY ONLY <1>1, <1>2, <1>3, <1>4, <1>5, <1>6, <1>7, <1>8, <1>9, <1>10

\* The clock interrupt.
LEMMA ClockControl ==
  ASSUME Control
  PROVE  /\ Tick => ControlKept'
         /\ \A due : Collect(due) => ControlKept'
         /\ Expire => ControlKept'
         /\ Rearm => ControlKept'
         /\ InterruptReturns => ControlKept'
<1> USE Executes, ContextsDistinct
    DEF ContextsDistinct, Context, At, Goto, callVars, cpuVars, dpcVars, drainVars, timerVars, Control, TypeOK,
        ControlKept, Scalars, Places, Arguments, RoutineCalled, Levels, SpinHeld, Lowering, ServicePC, IsrPC, RoutinePC
<1>1. ASSUME Tick PROVE ControlKept'
  BY <1>1 DEF Tick, InIsr
<1>2. ASSUME NEW due, Collect(due) PROVE  ControlKept'
  BY <1>2 DEF Collect
<1>3. ASSUME Expire PROVE ControlKept'
  <2>1. Head(batch) \in Timer
    BY <1>3, HeadTailProperties DEF Expire
  <2>2. DpcOf[Head(batch)] \in Dpc \cup {NONE}
    BY <2>1, ParametersOK DEF ParametersOK
  <2> QED BY <1>3, <2>2 DEF Expire
<1>4. ASSUME Rearm PROVE ControlKept'
  BY <1>4 DEF Rearm
<1>5. ASSUME InterruptReturns PROVE ControlKept'
  BY <1>5 DEF InterruptReturns, Preempted
<1> QED
  <2> HIDE DEF ControlKept
  <2> QED BY ONLY <1>1, <1>2, <1>3, <1>4, <1>5


LEMMA ControlNext ==
  ASSUME Control, [Next]_vars
  PROVE  ControlKept'
<1>1. CASE UNCHANGED vars
  BY <1>1 DEF vars, callVars, cpuVars, drainVars, Control, TypeOK, ControlKept, Scalars, Places, Arguments,
              RoutineCalled, Levels, SpinHeld
<1>2. CASE \E t \in Thread : StartThread(t) \/ GiveBack(t)
  BY <1>2, CallControl DEF StartThread, Start, GiveBack, Context
<1>3. CASE Start(Routine) \/ KeAcquireSpinLockAtDpcLevel
  BY <1>3, CallControl DEF Start, Context
<1>4. ASSUME NEW c \in Context, Proceed(c) PROVE ControlKept'
  <2>1. /\ LockDpcs(c, "insert", "inserting") => ControlKept'
        /\ LockDpcs(c, "remove", "removing") => ControlKept'
        /\ LockDpcs(c, "drain", "draining") => ControlKept'
        /\ LockTimers(c, "set", "setting") => ControlKept'
        /\ LockTimers(c, "cancel", "cancelling") => ControlKept'
    BY ListControl
  <2>2. /\ Enqueue(c) => ControlKept'
        /\ Dequeue(c) => ControlKept'
        /\ SetTimer(c) => ControlKept'
        /\ CancelTimer(c) => ControlKept'
        /\ SpinAcquired(c) => ControlKept'
    BY ListControl
  <2>3. /\ CheckPending(c) => ControlKept'
        /\ DrainIfPassive(c) => ControlKept'
        /\ Retire(c) => ControlKept'
        /\ WriteIrql(c) => ControlKept'
    BY LowerControl
  <2> HIDE DEF ControlKept
  <2> QED BY ONLY <1>4, <2>1, <2>2, <2>3 DEF Proceed
<1>5. CASE KeReleaseSpinLock(Routine) \/ RoutineReturns
  BY <1>5, CallControl
<1>6. CASE Tick \/ (\E due \in SUBSET Range(timers) : Collect(due)) \/ Expire \/ Rearm \/ InterruptReturns
  BY <1>6, ClockControl
<1> QED BY <1>1, <1>2, <1>3, <1>4, <1>5, <1>6 DEF Next, RoutineStep, IsrStep, Context

-----------------------------------------------------------------------------
(* The queue of DPCs.                                                      *)

DpcStep(c) ==
  \/ LockDpcs(c, "insert", "inserting") \/ LockDpcs(c, "remove", "removing")
  \/ LockDpcs(c, "drain", "draining") \/ Enqueue(c) \/ Retire(c) \/ Dequeue(c)

LEMMA DpcSteps ==
  ASSUME [Next]_vars
  PROVE  UNCHANGED dpcVars \/ \E c \in Context : DpcStep(c)
<1>1. ASSUME NEW c \in Context, Start(c) \/ Proceed(c) PROVE UNCHANGED dpcVars \/ DpcStep(c)
  BY <1>1 DEF Start, Proceed, KeInsertQueueDpc, KeRemoveQueueDpc, KeSetTimerEx, KeCancelTimer, DrainIfPassive,
              CheckPending, WriteIrql, LockTimers, SetTimer, CancelTimer, SpinAcquired, DpcStep
<1>2. ASSUME NEW t \in Thread, StartThread(t) \/ GiveBack(t)
      PROVE  UNCHANGED dpcVars \/ DpcStep(t)
  BY <1>1, <1>2 DEF StartThread, GiveBack, KeRaiseIrql, KeAcquireSpinLock, KeReleaseSpinLock, KeLowerIrql, Context
<1>3. CASE KeAcquireSpinLockAtDpcLevel \/ KeReleaseSpinLock(Routine) \/ RoutineReturns \/ Tick
  BY <1>3 DEF KeAcquireSpinLockAtDpcLevel, KeReleaseSpinLock, RoutineReturns, Tick
<1>4. CASE (\E due \in SUBSET Range(timers) : Collect(due)) \/ Expire \/ Rearm \/ InterruptReturns
  BY <1>4 DEF Collect, Expire, Rearm, InterruptReturns
<1>5. CASE UNCHANGED vars
  BY <1>5 DEF vars
<1> QED BY <1>1, <1>2, <1>3, <1>4, <1>5 DEF Next, RoutineStep, IsrStep, Context

DpcTypes == dpcQ \in Seq(Dpc) /\ queued \in [Dpc -> BOOLEAN] /\ pending \in BOOLEAN /\ dpcLock \in BOOLEAN

LEMMA QueueNext ==
  ASSUME Control, DpcQueueSound, [Next]_vars
  PROVE  DpcTypes' /\ DpcQueueSound'
<1> USE DEF Control, TypeOK, DpcTypes, DpcQueueSound
<1>1. CASE UNCHANGED dpcVars
  BY <1>1 DEF dpcVars
<1>2. ASSUME NEW c \in Context,
             \/ LockDpcs(c, "insert", "inserting") \/ LockDpcs(c, "remove", "removing")
             \/ LockDpcs(c, "drain", "draining")
      PROVE  DpcTypes' /\ DpcQueueSound'
  BY <1>2 DEF LockDpcs
<1>3. ASSUME NEW c \in Context, Enqueue(c)
      PROVE  DpcTypes' /\ DpcQueueSound'
  <2>1. arg[c] \in Dpc
    BY <1>3 DEF Enqueue, At, Arguments
  <2>2. CASE queued[arg[c]]
    BY <1>3, <2>2 DEF Enqueue, AlreadyQueued
  <2>3. CASE ~queued[arg[c]]
    <3>1. /\ dpcQ' = Append(dpcQ, arg[c]) /\ queued' = [queued EXCEPT ![arg[c]] = TRUE]
          /\ pending' = TRUE /\ dpcLock' = FALSE
      BY <1>3, <2>3 DEF Enqueue, AlreadyQueued
    <3>2. /\ dpcQ' \in Seq(Dpc) /\ Range(dpcQ') = Range(dpcQ) \cup {arg[c]}
          /\ IsInjective(dpcQ')
      BY <2>1, <2>3, <3>1, AppendList
    <3> QED BY <2>1, <3>1, <3>2
  <2> QED BY <2>2, <2>3
<1>4. ASSUME NEW c \in Context, Retire(c)
      PROVE  DpcTypes' /\ DpcQueueSound'
  <2>1. CASE dpcQ = <<>>
    BY <1>4, <2>1 DEF Retire
  <2>2. CASE dpcQ # <<>>
    <3>1. /\ dpcQ' = Tail(dpcQ) /\ queued' = [queued EXCEPT ![Head(dpcQ)] = FALSE]
          /\ pending' = pending /\ dpcLock' = FALSE
      BY <1>4, <2>2 DEF Retire
    <3>2. /\ Head(dpcQ) \in Dpc /\ dpcQ' \in Seq(Dpc) /\ Range(dpcQ') = Range(dpcQ) \ {Head(dpcQ)}
          /\ IsInjective(dpcQ')
      BY <2>2, <3>1, TailList
    <3> QED BY <2>2, <3>1, <3>2
  <2> QED BY <2>1, <2>2
<1>5. ASSUME NEW c \in Context, Dequeue(c)
      PROVE  DpcTypes' /\ DpcQueueSound'
  <2>1. arg[c] \in Dpc
    BY <1>5 DEF Dequeue, At, Arguments
  <2>2. /\ dpcQ' = Only(dpcQ, Dpc \ {arg[c]}) /\ queued' = [queued EXCEPT ![arg[c]] = FALSE]
        /\ pending' = pending /\ dpcLock' = FALSE
    BY <1>5 DEF Dequeue
  <2>3. /\ dpcQ' \in Seq(Dpc) /\ Range(dpcQ') = Range(dpcQ) \cap (Dpc \ {arg[c]})
        /\ IsInjective(dpcQ')
    BY <2>2, OnlyList
  <2>4. dpcQ' # <<>> => dpcQ # <<>>
    <3> SUFFICES ASSUME dpcQ' # <<>>, dpcQ = <<>> PROVE FALSE
      OBVIOUS
    <3>1. Head(dpcQ') \in Range(dpcQ')
      BY <2>3, TailList
    <3>2. Range(<<>>) = {}
      BY EmptySeq DEF Range
    <3> QED BY <2>3, <3>1, <3>2
  <2> QED BY <2>1, <2>2, <2>3, <2>4
<1> QED BY <1>1, <1>2, <1>3, <1>4, <1>5, DpcSteps DEF DpcStep

-----------------------------------------------------------------------------
(* The list of timers, and the batch of the clock.                         *)

\* The clock has a batch exactly while it goes through one.
BatchHeld ==
  /\ batch # <<>> => pc[Isr] \notin {"off", "tick"}
  /\ pc[Isr] \notin {"off", "tick", "expire"} => batch # <<>>

TimerTypes ==
  /\ timers \in Seq(Timer) /\ batch \in Seq(Timer)
  /\ signal \in [Timer -> 0 .. 1] /\ timerLock \in BOOLEAN

\* A step outside the clock's own code leaves its batch alone, and leaves the clock in the
\* part of its code where it was; a routine comes to set a timer only by a call.
OutsideClock ==
  /\ batch' = batch
  /\ \A x \in {"off", "tick", "expire"} : pc'[Isr] = x <=> pc[Isr] = x
  /\ pc'[Routine] \in {"set", "setting"}
       => pc[Routine] \in {"set", "setting"} \/ "set" \in RoutineCalls

TimersKept == OutsideClock /\ UNCHANGED <<timers, signal>> /\ timerLock' \in BOOLEAN

LEMMA ProceedTimers ==
  ASSUME Control, TimerTypes, NEW c \in Context, Proceed(c)
  PROVE  TimersKept \/ (OutsideClock /\ (SetTimer(c) \/ CancelTimer(c)))
<1> USE Executes, ContextsDistinct
    DEF ContextsDistinct, Context, At, Goto, timerVars, callVars, Control, TypeOK, TimerTypes, TimersKept, OutsideClock,
        Places, RoutineCalled, RoutinePC, IsrPC, Return, ReturnTo
<1>1. CASE \/ LockDpcs(c, "insert", "inserting") \/ LockDpcs(c, "remove", "removing")
           \/ LockDpcs(c, "drain", "draining")
  BY <1>1 DEF LockDpcs
<1>2. CASE Enqueue(c)
  <2>1. /\ UNCHANGED timerVars /\ pc[c] = "inserting"
        /\ \/ pc' = [pc EXCEPT ![c] = IF c = Isr THEN "rearm" ELSE "run"]
           \/ pc' = [pc EXCEPT ![c] = "inserted"]
    BY <1>2 DEF Enqueue
  <2> QED BY <2>1
<1>3. CASE DrainIfPassive(c)
  <2>1. /\ UNCHANGED timerVars /\ pc[c] = "inserted"
        /\ \/ pc' = [pc EXCEPT ![c] = IF c = Isr THEN "rearm" ELSE "run"]
           \/ pc' = [pc EXCEPT ![c] = "lower"]
    BY <1>3 DEF DrainIfPassive
  <2> QED BY <2>1
<1>4. CASE Dequeue(c)
  BY <1>4 DEF Dequeue
<1>5. CASE CheckPending(c) \/ WriteIrql(c) \/ SpinAcquired(c)
  BY <1>5 DEF CheckPending, WriteIrql, SpinAcquired
<1>6. CASE Retire(c)
  <2>1. /\ UNCHANGED timerVars /\ pc[c] = "draining"
        /\ \/ pc' = [pc EXCEPT ![c] = "lowered"]
           \/ pc' = [pc EXCEPT ![c] = "called", ![Routine] = "run"]
    BY <1>6 DEF Retire
  <2> QED BY <2>1
<1>7. CASE LockTimers(c, "set", "setting") \/ LockTimers(c, "cancel", "cancelling")
  <2>1. /\ UNCHANGED <<timers, signal, batch>> /\ timerLock'
        /\ \/ pc[c] = "set" /\ pc' = [pc EXCEPT ![c] = "setting"]
           \/ pc[c] = "cancel" /\ pc' = [pc EXCEPT ![c] = "cancelling"]
    BY <1>7 DEF LockTimers
  <2> QED BY <2>1
<1>8. CASE SetTimer(c)
  BY <1>8 DEF SetTimer
<1>9. CASE CancelTimer(c)
  BY <1>9 DEF CancelTimer
<1> QED
  <2> HIDE DEF TimersKept, OutsideClock
  <2> QED BY ONLY Proceed(c), <1>1, <1>2, <1>3, <1>4, <1>5, <1>6, <1>7, <1>8, <1>9 DEF Proceed

LEMMA StartTimers ==
  ASSUME Control, TimerTypes
  PROVE  /\ \A c \in Thread \cup {Routine} : Start(c) => TimersKept
         /\ \A t \in Thread : KeRaiseIrql(t) \/ KeAcquireSpinLock(t) \/ KeLowerIrql(t) => TimersKept
         /\ \A c \in Thread \cup {Routine} : KeReleaseSpinLock(c) => TimersKept
         /\ KeAcquireSpinLockAtDpcLevel \/ RoutineReturns => TimersKept
<1> USE Executes, ContextsDistinct
    DEF ContextsDistinct, Context, At, Goto, timerVars, callVars, Control, TypeOK, TimerTypes, TimersKept, OutsideClock,
        Places, RoutineCalled, RoutinePC, IsrPC
<1>1. ASSUME NEW c \in Thread \cup {Routine}, Start(c) PROVE TimersKept
  <2>1. CASE \E d \in Dpc : KeInsertQueueDpc(c, d) \/ KeRemoveQueueDpc(c, d)
    BY <2>1 DEF KeInsertQueueDpc, KeRemoveQueueDpc, Call
  <2>2. CASE \E o \in Timer : KeSetTimerEx(c, o) \/ KeCancelTimer(c, o)
    BY <2>2 DEF KeSetTimerEx, KeCancelTimer, Call
  <2> QED BY <1>1, <2>1, <2>2 DEF Start
<1>2. ASSUME NEW t \in Thread, KeRaiseIrql(t) \/ KeAcquireSpinLock(t) \/ KeLowerIrql(t) PROVE TimersKept
  BY <1>2 DEF KeRaiseIrql, KeAcquireSpinLock, KeLowerIrql
<1>3. ASSUME NEW c \in Thread \cup {Routine}, KeReleaseSpinLock(c) PROVE TimersKept
  BY <1>3 DEF KeReleaseSpinLock
<1>4. ASSUME KeAcquireSpinLockAtDpcLevel PROVE TimersKept
  BY <1>4 DEF KeAcquireSpinLockAtDpcLevel, Call
<1>5. ASSUME RoutineReturns PROVE TimersKept
  BY <1>5 DEF RoutineReturns
<1> QED
  <2> HIDE DEF TimersKept
  <2> QED BY ONLY <1>1, <1>2, <1>3, <1>4, <1>5

\* Every step is the clock's, sets or cancels a timer, or leaves the list alone.
LEMMA TimerSteps ==
  ASSUME Control, TimerTypes, [Next]_vars
  PROVE  \/ TimersKept
         \/ OutsideClock /\ \E c \in Context : SetTimer(c) \/ CancelTimer(c)
         \/ Tick \/ (\E due \in SUBSET Range(timers) : Collect(due)) \/ Expire \/ Rearm \/ InterruptReturns
<1>1. CASE UNCHANGED vars
  BY <1>1 DEF vars, callVars, timerVars, TimersKept, OutsideClock, TimerTypes
<1>2. ASSUME NEW c \in Context, Proceed(c)
      PROVE  TimersKept \/ (OutsideClock /\ (SetTimer(c) \/ CancelTimer(c)))
  BY <1>2, ProceedTimers
<1>3. CASE \E t \in Thread : StartThread(t) \/ GiveBack(t)
  BY <1>3, StartTimers DEF StartThread, GiveBack
<1>4. CASE \/ Start(Routine) \/ KeAcquireSpinLockAtDpcLevel \/ KeReleaseSpinLock(Routine) \/ RoutineReturns
  BY <1>4, StartTimers
<1> HIDE DEF TimersKept, OutsideClock
<1> QED BY <1>1, <1>2, <1>3, <1>4 DEF Next, RoutineStep, IsrStep, Context

\* The timers, when no routine sets one: nothing of the batch is on the list.
Linked ==
  /\ pc[Routine] \notin {"set", "setting"}
  /\ Range(batch) \cap Range(timers) = {}
  /\ TimerListSound

LEMMA ClockTimers ==
  ASSUME Control, TimerTypes, BatchHeld, [Next]_vars
  PROVE  TimerTypes' /\ BatchHeld'
<1> USE DEF Control, TypeOK, TimerTypes, BatchHeld
<1>1. CASE TimersKept
  BY <1>1 DEF TimersKept, OutsideClock
<1>2. ASSUME NEW c \in Context, OutsideClock, SetTimer(c)
      PROVE  TimerTypes' /\ BatchHeld'
  <2>1. arg[c] \in Timer
    BY <1>2 DEF SetTimer, At, Arguments
  <2>2. Append(Unlinked(arg[c]), arg[c]) \in Seq(Timer)
    BY <2>1, OnlyList, AppendList DEF Unlinked
  <2>3. timers' \in Seq(Timer) /\ timerLock' = FALSE
    BY <1>2, <2>2 DEF SetTimer
  <2>4. signal' \in [Timer -> 0 .. 1]
    <3>1. signal' = [signal EXCEPT ![arg[c]] = 0]
      BY ONLY SetTimer(c) DEF SetTimer
    <3>2. signal \in [Timer -> 0 .. 1] /\ 0 \in 0 .. 1
      OBVIOUS
    <3> QED BY ONLY <2>1, <3>1, <3>2
  <2> QED BY <1>2, <2>3, <2>4 DEF OutsideClock
<1>3. ASSUME NEW c \in Context, OutsideClock, CancelTimer(c)
      PROVE  TimerTypes' /\ BatchHeld'
  <2>1. Unlinked(arg[c]) \in Seq(Timer)
    BY OnlyList DEF Unlinked
  <2> QED BY <1>3, <2>1 DEF OutsideClock, CancelTimer, timerVars
<1>4. CASE Tick
  BY <1>4, ContextsDistinct DEF ContextsDistinct, Tick, InIsr, Goto, timerVars, Context
<1>5. ASSUME NEW due \in SUBSET Range(timers), Collect(due)
      PROVE  TimerTypes' /\ BatchHeld'
  <2> DEFINE found == Only(timers, due)
             n == IF Len(found) < TimerBatch THEN Len(found) ELSE TimerBatch
  <2>1. found \in Seq(Timer)
    BY OnlyList
  <2>2. n \in Nat /\ n <= Len(found)
    BY <2>1, LenProperties, ParametersOK DEF ParametersOK
  <2>3. batch' = SubSeq(found, 1, n) /\ timers' = Only(timers, Timer \ Range(batch'))
    BY <1>5 DEF Collect
  <2>4. batch' \in Seq(Timer) /\ timers' \in Seq(Timer)
    BY <2>1, <2>2, <2>3, PrefixList, OnlyList
  <2> HIDE DEF found, n
  <2>5. pc' = [pc EXCEPT ![Isr] = "expire"] /\ UNCHANGED <<signal, timerLock>>
    BY <1>5 DEF Collect, Goto
  <2> QED BY <2>4, <2>5 DEF Context
<1>6. CASE Expire
  <2>1. Head(batch) \in Timer
    BY <1>6, HeadTailProperties DEF Expire
  <2>2. /\ pc' = [pc EXCEPT ![Isr] = IF DpcOf[Head(batch)] = NONE THEN "rearm" ELSE "insert"]
        /\ signal' = [signal EXCEPT ![Head(batch)] = 1] /\ UNCHANGED <<timers, batch, timerLock>>
        /\ batch # <<>>
    BY <1>6 DEF Expire, Goto
  <2> QED BY <2>1, <2>2 DEF Context
<1>7. CASE Rearm
  <2>1. batch # <<>>
    BY <1>7 DEF Rearm, At
  <2>2. Head(batch) \in Timer /\ Tail(batch) \in Seq(Timer)
    BY <2>1, HeadTailProperties
  <2>3. Append(timers, Head(batch)) \in Seq(Timer)
    BY <2>2, AppendList
  <2>4. /\ pc' = [pc EXCEPT ![Isr] = "expire"] /\ batch' = Tail(batch) /\ timerLock' = timerLock
        /\ \/ timers' = Append(timers, Head(batch)) /\ signal' = [signal EXCEPT ![Head(batch)] = 0]
           \/ UNCHANGED <<timers, signal>>
    BY <1>7 DEF Rearm, Goto
  <2>5. timers' \in Seq(Timer) /\ batch' \in Seq(Timer)
    BY <2>2, <2>3, <2>4
  <2>6. signal' \in [Timer -> 0 .. 1]
    BY <2>4
  <2> QED BY <2>4, <2>5, <2>6 DEF Context
<1>8. CASE InterruptReturns
  BY <1>8 DEF InterruptReturns, Goto, At, timerVars, Context
<1> QED BY <1>1, <1>2, <1>3, <1>4, <1>5, <1>6, <1>7, <1>8, TimerSteps

\* No routine of a DPC sets a timer.
QuietRoutines == "set" \notin RoutineCalls

LEMMA RangeOf ==
  ASSUME NEW S, NEW s \in Seq(S)
  PROVE  Range(s) \subseteq S
BY LenProperties, ElementOfSeq DEF Range

LEMMA LinkedNext ==
  ASSUME Control, TimerTypes, BatchHeld, QuietRoutines, Linked, [Next]_vars
  PROVE  Linked'
<1> USE DEF TimerTypes, Linked, TimerListSound
<1>1. CASE TimersKept
  BY <1>1 DEF TimersKept, OutsideClock, QuietRoutines
<1>2. ASSUME NEW c \in Context, OutsideClock, SetTimer(c)
      PROVE  Linked'
  <2>1. arg[c] \in Timer /\ Executing(c) /\ pc[c] = "setting"
    BY <1>2 DEF SetTimer, At, Control, Arguments
  <2>2. batch = <<>>
    <3>1. c # Routine
      BY <2>1
    <3>2. c # Isr
      BY <2>1 DEF Control, Places, IsrPC
    <3>3. pc[Isr] = "off"
      BY <2>1, <3>1, <3>2, Executes DEF Context
    <3> QED BY <3>3 DEF BatchHeld
  <2>3. /\ timers' = Append(Unlinked(arg[c]), arg[c]) /\ signal' = [signal EXCEPT ![arg[c]] = 0]
        /\ batch' = <<>>
    BY <1>2, <2>2 DEF SetTimer, OutsideClock
  <2>4. /\ Unlinked(arg[c]) \in Seq(Timer) /\ Range(Unlinked(arg[c])) = Range(timers) \ {arg[c]}
        /\ IsInjective(Unlinked(arg[c]))
    <3>1. Range(timers) \cap (Timer \ {arg[c]}) = Range(timers) \ {arg[c]}
      BY RangeOf
    <3> QED BY <3>1, OnlyList DEF Unlinked
  <2>5. Range(timers') = Range(timers) \cup {arg[c]} /\ IsInjective(timers')
    BY <2>1, <2>3, <2>4, AppendList
  <2>6. Range(batch') = {} /\ IsInjective(batch')
    BY <2>3, EmptySeq DEF Range, IsInjective
  <2>7. pc'[Routine] \notin {"set", "setting"}
    BY <1>2 DEF OutsideClock, QuietRoutines
  <2> QED BY <2>1, <2>3, <2>5, <2>6, <2>7
<1>3. ASSUME NEW c \in Context, OutsideClock, CancelTimer(c)
      PROVE  Linked'
  <2>1. Range(Unlinked(arg[c])) \subseteq Range(timers) /\ IsInjective(Unlinked(arg[c]))
    BY OnlyList DEF Unlinked
  <2>2. timers' = Unlinked(arg[c]) /\ signal' = signal /\ batch' = batch
    BY <1>3 DEF CancelTimer
  <2> QED BY <1>3, <2>1, <2>2 DEF OutsideClock, QuietRoutines
<1>4. CASE Tick
  <2>1. UNCHANGED timerVars /\ pc'[Routine] = pc[Routine]
    BY <1>4, ContextsDistinct DEF ContextsDistinct, Tick, Goto, Control, TypeOK, Context
  <2> QED BY <2>1 DEF timerVars
<1>5. ASSUME NEW due \in SUBSET Range(timers), Collect(due)
      PROVE  Linked'
  <2> DEFINE found == Only(timers, due)
             n == IF Len(found) < TimerBatch THEN Len(found) ELSE TimerBatch
  <2>1. found \in Seq(Timer) /\ IsInjective(found)
    BY OnlyList
  <2>2. n \in Nat /\ n <= Len(found)
    BY <2>1, LenProperties, ParametersOK DEF ParametersOK
  <2>3. batch' = SubSeq(found, 1, n) /\ timers' = Only(timers, Timer \ Range(batch')) /\ signal' = signal
    BY <1>5 DEF Collect
  <2>4. IsInjective(batch')
    BY <2>1, <2>2, <2>3, PrefixList
  <2>5. Range(timers') = Range(timers) \cap (Timer \ Range(batch')) /\ IsInjective(timers')
    BY <2>3, OnlyList
  <2> HIDE DEF found, n
  <2>6. pc'[Routine] = pc[Routine]
    BY <1>5, ContextsDistinct DEF ContextsDistinct, Collect, Goto, Control, TypeOK, Context
  <2> QED BY <2>3, <2>4, <2>5, <2>6
<1>6. CASE Expire
  <2>1. Head(batch) \in Timer /\ Head(batch) \in Range(batch)
    BY <1>6, TailList DEF Expire
  <2>2. /\ signal' = [signal EXCEPT ![Head(batch)] = 1] /\ UNCHANGED <<timers, batch>>
    BY <1>6 DEF Expire
  <2>3. pc'[Routine] = pc[Routine]
    BY <1>6, ContextsDistinct DEF ContextsDistinct, Expire, Goto, Control, TypeOK, Context
  <2> QED BY <2>1, <2>2, <2>3
<1>7. CASE Rearm
  <2>1. batch # <<>>
    BY <1>7 DEF Rearm, At, BatchHeld
  <2>2. /\ Head(batch) \in Timer /\ Head(batch) \in Range(batch) /\ IsInjective(Tail(batch))
        /\ Range(Tail(batch)) = Range(batch) \ {Head(batch)}
    BY <2>1, TailList
  <2>3. batch' = Tail(batch) /\ \/ timers' = Append(timers, Head(batch)) /\ signal' = [signal EXCEPT ![Head(batch)] = 0]
                                \/ timers' = timers /\ signal' = signal
    BY <1>7 DEF Rearm
  <2>4. pc'[Routine] = pc[Routine]
    BY <1>7, ContextsDistinct DEF ContextsDistinct, Rearm, Goto, Control, TypeOK, Context
  <2>5. CASE timers' = Append(timers, Head(batch)) /\ signal' = [signal EXCEPT ![Head(batch)] = 0]
    <3>1. Range(timers') = Range(timers) \cup {Head(batch)} /\ IsInjective(timers')
      BY <2>2, <2>5, AppendList
    <3> QED BY <2>2, <2>3, <2>4, <2>5, <3>1
  <2>6. CASE timers' = timers /\ signal' = signal
    BY <2>2, <2>3, <2>4, <2>6
  <2> QED BY <2>3, <2>5, <2>6
<1>8. CASE InterruptReturns
  <2>1. UNCHANGED timerVars /\ pc'[Routine] = pc[Routine]
    BY <1>8, ContextsDistinct DEF ContextsDistinct, InterruptReturns, Goto, Control, TypeOK, Context
  <2> QED BY <2>1 DEF timerVars
<1> QED BY <1>1, <1>2, <1>3, <1>4, <1>5, <1>6, <1>7, <1>8, TimerSteps

-----------------------------------------------------------------------------
(* Calls with interrupts off.                                              *)

\* The services are called with interrupts off, as system calls do.
MaskedCalls == Masked = Service

\* Then the clock comes only between calls, and the queue is empty when the IRQL falls.
Uninterrupted ==
  /\ \A t \in Thread : pc[t] # "run" \/ t \in raised => ifOff /\ t = current
  /\ pc[Isr] # "off" => ~ifOff
  /\ \A c \in Context : pc[c] = "lowered" => dpcQ = <<>>
  /\ NoStrandedDpc

LEMMA MaskedStart ==
  ASSUME Control, Uninterrupted, MaskedCalls
  PROVE  /\ \A c \in Thread \cup {Routine} : Start(c) => Uninterrupted'
         /\ \A t \in Thread : KeRaiseIrql(t) => Uninterrupted'
         /\ \A t \in Thread : KeAcquireSpinLock(t) => Uninterrupted'
         /\ \A t \in Thread : KeLowerIrql(t) => Uninterrupted'
         /\ \A c \in Thread \cup {Routine} : KeReleaseSpinLock(c) => Uninterrupted'
         /\ KeAcquireSpinLockAtDpcLevel => Uninterrupted'
         /\ RoutineReturns => Uninterrupted'
<1> USE Executes, ContextsDistinct
    DEF ContextsDistinct, Context, At, Goto, dpcVars, cpuVars, Control, TypeOK, Uninterrupted, NoStrandedDpc,
        Places, RoutineCalled, Levels, Lowering, RoutinePC, IsrPC
<1>0. \A service \in Service : \A b \in BOOLEAN : (b \/ service \in Masked) = TRUE
  BY DEF MaskedCalls
<1>8. ASSUME NEW c \in Thread \cup {Routine}, NEW service \in Service, NEW label, NEW what,
             label \notin {"lowered", "run", "inserted"}, Call(c, service, label, what),
             UNCHANGED <<current, irql, raised, dpcQ>>
      PROVE  Uninterrupted'
  <2>1. CASE c \in Thread
    <3>1. c # Routine
      BY <2>1
    <3>2. ifOff' = TRUE
      BY <1>8, <1>0, <3>1 DEF Call
    <3>3. Executing(c) /\ pc[c] = "run" /\ pc' = [pc EXCEPT ![c] = label]
      BY <1>8 DEF Call
    <3> QED BY <1>8, <2>1, <3>2, <3>3
  <2>2. CASE c = Routine
    <3>1. Executing(c) /\ pc[c] = "run" /\ pc' = [pc EXCEPT ![c] = label] /\ ifOff' = ifOff
      BY <1>8, <2>2 DEF Call
    <3> QED BY <1>8, <2>2, <3>1
  <2> QED BY <2>1, <2>2
<1>1. ASSUME NEW c \in Thread \cup {Routine}, Start(c) PROVE Uninterrupted'
  <2> HIDE DEF Uninterrupted
  <2>1. {"insert", "remove", "set", "cancel"} \subseteq Service
    BY DEF Service
  <2>2. ASSUME NEW d \in Dpc, KeInsertQueueDpc(c, d) \/ KeRemoveQueueDpc(c, d) PROVE Uninterrupted'
    BY <1>8, <2>1, <2>2 DEF KeInsertQueueDpc, KeRemoveQueueDpc
  <2>3. ASSUME NEW o \in Timer, KeSetTimerEx(c, o) \/ KeCancelTimer(c, o) PROVE Uninterrupted'
    BY <1>8, <2>1, <2>3 DEF KeSetTimerEx, KeCancelTimer
  <2> QED BY ONLY <1>1, <2>2, <2>3 DEF Start
<1>2. ASSUME NEW t \in Thread, KeRaiseIrql(t) PROVE Uninterrupted'
  <2>1. ifOff' = TRUE
    BY <1>2, <1>0 DEF KeRaiseIrql, Service
  <2>2. /\ pc' = pc /\ Executing(t) /\ pc[t] = "run" /\ irql' = 2
        /\ raised' = raised \cup {t} /\ UNCHANGED <<current, dpcQ>>
    BY <1>2 DEF KeRaiseIrql, callVars
  <2> QED BY <2>1, <2>2
<1>3. ASSUME NEW t \in Thread, KeAcquireSpinLock(t) PROVE Uninterrupted'
  <2>1. ifOff' = TRUE
    BY <1>3, <1>0 DEF KeAcquireSpinLock, Service
  <2>2. /\ pc' = [pc EXCEPT ![t] = "spin"] /\ Executing(t) /\ pc[t] = "run" /\ irql' = 2
        /\ raised' = raised \cup {t} /\ UNCHANGED <<current, dpcQ>>
    BY <1>3 DEF KeAcquireSpinLock
  <2> QED BY <2>1, <2>2
<1>4. ASSUME NEW t \in Thread, KeLowerIrql(t) PROVE Uninterrupted'
  BY <1>4 DEF KeLowerIrql
<1>5. ASSUME NEW c \in Thread \cup {Routine}, KeReleaseSpinLock(c) PROVE Uninterrupted'
  BY <1>5 DEF KeReleaseSpinLock, SpinHeld
<1>6. ASSUME KeAcquireSpinLockAtDpcLevel PROVE Uninterrupted'
  BY <1>6 DEF KeAcquireSpinLockAtDpcLevel, Call
<1>7. ASSUME RoutineReturns PROVE Uninterrupted'
  BY <1>7 DEF RoutineReturns
<1> QED
  <2> HIDE DEF Uninterrupted
  <2> QED BY ONLY <1>1, <1>2, <1>3, <1>4, <1>5, <1>6, <1>7

LEMMA MaskedProceed ==
  ASSUME Control, DpcQueueSound, Uninterrupted, NEW c \in Context, Proceed(c)
  PROVE  Uninterrupted'
<1> USE Executes, ContextsDistinct
    DEF ContextsDistinct, Context, At, Goto, dpcVars, cpuVars, drainVars, Control, TypeOK, Uninterrupted, NoStrandedDpc,
        Places, RoutineCalled, Levels, Lowering, RoutinePC, IsrPC
<1>1. ASSUME NEW before, NEW after, LockDpcs(c, before, after), before # "inserted", before # "run",
             after # "lowered", after # "run"
      PROVE  Uninterrupted'
  BY <1>1 DEF LockDpcs
<1>2. CASE Enqueue(c)
  <2>1. CASE queued[arg[c]]
    <3>1. /\ pc' = [pc EXCEPT ![c] = IF c = Isr THEN "rearm" ELSE "run"] /\ pc[c] = "inserting" /\ Executing(c)
          /\ ifOff' = (ifOff /\ c \notin Thread \ raised)
          /\ UNCHANGED <<current, irql, raised, dpcQ>>
      BY <1>2, <2>1 DEF Enqueue, AlreadyQueued, Return, ReturnTo
    <3> QED BY <3>1
  <2>2. CASE ~queued[arg[c]]
    <3>1. /\ pc' = [pc EXCEPT ![c] = "inserted"] /\ pc[c] = "inserting" /\ Executing(c)
          /\ UNCHANGED <<current, irql, ifOff, raised>>
      BY <1>2, <2>2 DEF Enqueue, AlreadyQueued
    <3>2. \A x \in Context : pc[x] # "lowered"
      BY <3>1
    <3> QED BY <3>1, <3>2
  <2> QED BY <2>1, <2>2
<1>3. CASE DrainIfPassive(c)
  <2>1. CASE irql < 2
    <3>1. /\ pc' = [pc EXCEPT ![c] = "lower"] /\ pc[c] = "inserted" /\ Executing(c) /\ irql' = 2
          /\ UNCHANGED <<current, raised, ifOff, dpcQ>>
      BY <1>3, <2>1 DEF DrainIfPassive
    <3> QED BY <3>1
  <2>2. CASE ~(irql < 2)
    <3>1. /\ pc' = [pc EXCEPT ![c] = IF c = Isr THEN "rearm" ELSE "run"] /\ pc[c] = "inserted" /\ Executing(c)
          /\ ifOff' = (ifOff /\ c \notin Thread \ raised)
          /\ UNCHANGED <<current, irql, raised, dpcQ>>
      BY <1>3, <2>2 DEF DrainIfPassive, Return, ReturnTo
    <3> QED BY <2>2, <3>1
  <2> QED BY <2>1, <2>2
<1>4. CASE Dequeue(c)
  <2>1. /\ pc' = [pc EXCEPT ![c] = IF c = Isr THEN "rearm" ELSE "run"] /\ pc[c] = "removing" /\ Executing(c)
        /\ ifOff' = (ifOff /\ c \notin Thread \ raised)
        /\ dpcQ' = Only(dpcQ, Dpc \ {arg[c]})
        /\ UNCHANGED <<current, irql, raised>>
    BY <1>4 DEF Dequeue, Return, ReturnTo
  <2>2. dpcQ = <<>> => dpcQ' = <<>>
    BY <2>1, OnlyEmpty
  <2> QED BY <2>1, <2>2
<1>5. CASE CheckPending(c)
  <2>1. /\ pc' = [pc EXCEPT ![c] = IF pending THEN "drain" ELSE "lowered"] /\ pc[c] = "lower"
        /\ UNCHANGED <<current, irql, ifOff, raised, dpcQ>>
    BY <1>5 DEF CheckPending
  <2>2. ~pending => dpcQ = <<>>
    BY DEF DpcQueueSound
  <2> QED BY <2>1, <2>2
<1>6. CASE Retire(c)
  <2>1. CASE dpcQ = <<>>
    BY <1>6, <2>1 DEF Retire
  <2>2. CASE dpcQ # <<>>
    <3>1. /\ pc' = [pc EXCEPT ![c] = "called", ![Routine] = "run"] /\ pc[c] = "draining" /\ Executing(c)
          /\ UNCHANGED <<current, irql, ifOff, raised>>
      BY <1>6, <2>2 DEF Retire
    <3>2. irql = 2
      BY <3>1
    <3> QED BY <2>2, <3>1, <3>2
  <2> QED BY <2>1, <2>2
<1>7. CASE WriteIrql(c)
  BY <1>7 DEF WriteIrql, ReturnTo
<1>8. ASSUME NEW before, NEW after, LockTimers(c, before, after), before # "inserted", before # "run",
             after # "lowered", after # "run"
      PROVE  Uninterrupted'
  BY <1>8 DEF LockTimers
<1>9. CASE SetTimer(c)
  BY <1>9 DEF SetTimer, Return, ReturnTo
<1>10. CASE CancelTimer(c)
  BY <1>10 DEF CancelTimer, Return, ReturnTo
<1>11. CASE SpinAcquired(c)
  BY <1>11 DEF SpinAcquired
<1> QED
  <2> HIDE DEF Uninterrupted
  <2>1. CASE \/ LockDpcs(c, "insert", "inserting") \/ LockDpcs(c, "remove", "removing")
             \/ LockDpcs(c, "drain", "draining")
    BY ONLY <2>1, <1>1
  <2>2. CASE LockTimers(c, "set", "setting") \/ LockTimers(c, "cancel", "cancelling")
    BY ONLY <2>2, <1>8
  <2> QED BY ONLY Proceed(c), <2>1, <2>2, <1>2, <1>3, <1>4, <1>5, <1>6, <1>7, <1>9, <1>10, <1>11 DEF Proceed

LEMMA MaskedNext ==
  ASSUME Control, DpcQueueSound, Uninterrupted, MaskedCalls, [Next]_vars
  PROVE  Uninterrupted'
<1>1. CASE UNCHANGED vars
  BY <1>1 DEF vars, callVars, cpuVars, dpcVars, Uninterrupted, NoStrandedDpc
<1>2. CASE \E t \in Thread : StartThread(t) \/ GiveBack(t)
  BY <1>2, MaskedStart DEF StartThread, GiveBack
<1>3. CASE \/ Start(Routine) \/ KeAcquireSpinLockAtDpcLevel \/ KeReleaseSpinLock(Routine) \/ RoutineReturns
  BY <1>3, MaskedStart
<1>4. ASSUME NEW c \in Context, Proceed(c) PROVE Uninterrupted'
  BY <1>4, MaskedProceed
<1>5. CASE Tick \/ (\E due \in SUBSET Range(timers) : Collect(due)) \/ Expire \/ Rearm \/ InterruptReturns
  <2> USE Executes, ContextsDistinct
      DEF ContextsDistinct, Context, At, Goto, dpcVars, cpuVars, Control, TypeOK, Uninterrupted, NoStrandedDpc,
          Places, IsrPC
  <2>1. CASE Tick
    BY <2>1 DEF Tick, InIsr
  <2>2. CASE (\E due \in SUBSET Range(timers) : Collect(due)) \/ Rearm
    BY <2>2 DEF Collect, Rearm
  <2>3. CASE Expire
    <3>1. /\ pc[Isr] = "expire" /\ UNCHANGED <<current, irql, ifOff, raised, dpcQ>>
          /\ pc' = [pc EXCEPT ![Isr] = "rearm"] \/ pc' = [pc EXCEPT ![Isr] = "insert"]
      BY <2>3 DEF Expire
    <3> QED BY <3>1
  <2>4. CASE InterruptReturns
    <3>1. \A t \in Thread : pc[t] = "run" /\ t \notin raised
      BY <2>4 DEF InterruptReturns
    <3> QED BY <2>4, <3>1 DEF InterruptReturns
  <2> QED BY <1>5, <2>1, <2>2, <2>3, <2>4
<1> QED BY <1>1, <1>2, <1>3, <1>4, <1>5 DEF Next, RoutineStep, IsrStep, Context

-----------------------------------------------------------------------------
(* The theorems.                                                           *)

\* Control, the queue and the batch, together: what every step needs of the state before it.
Inv == Control /\ DpcQueueSound /\ BatchHeld

LEMMA InvInit == Init => Inv
<1> SUFFICES ASSUME Init PROVE Inv
  OBVIOUS
<1>1. Control
  BY ControlInit
<1>2. Range(<<>>) = {} /\ IsInjective(<<>>)
  BY EmptySeq DEF Range, IsInjective
<1>3. DpcQueueSound
  BY <1>2 DEF Init, DpcQueueSound
<1>4. BatchHeld
  BY ContextsDistinct DEF ContextsDistinct, Init, BatchHeld, Context
<1> QED BY <1>1, <1>3, <1>4 DEF Inv

LEMMA InvNext == Inv /\ [Next]_vars => Inv'
<1> SUFFICES ASSUME Inv, [Next]_vars PROVE Inv'
  OBVIOUS
<1>1. Control /\ DpcQueueSound /\ BatchHeld /\ TimerTypes
  BY DEF Inv, Control, TypeOK, TimerTypes
<1>2. ControlKept' /\ DpcTypes' /\ DpcQueueSound' /\ TimerTypes' /\ BatchHeld'
  BY <1>1, ControlNext, QueueNext, ClockTimers
<1>3. Control'
  BY <1>2 DEF Control, ControlKept, TypeOK, Scalars, DpcTypes, TimerTypes
<1> QED BY <1>2, <1>3 DEF Inv

LEMMA InvHolds == Spec => []Inv
BY InvInit, InvNext, PTL DEF Spec

\* Every call of dpc.c, timer.c and sync.c keeps its variables in their types, whatever
\* drivers' routines call.
THEOREM DeferredTypeCorrect == Spec => []TypeOK
<1>1. Inv => TypeOK
  BY DEF Inv, Control
<1> QED BY <1>1, InvHolds, PTL

\* For every set of threads, timers and DPCs: a routine runs at DISPATCH, the thread below
\* finds the IRQL it left, and nobody spins on a lock held below him.
THEOREM IrqlDisciplineHolds == Spec => []IrqlDiscipline
<1>1. Inv => IrqlDiscipline
  <2> SUFFICES ASSUME Inv PROVE IrqlDiscipline
    OBVIOUS
  <2>1. Control
    BY DEF Inv
  <2>2. RoutineAtDispatch
    BY <2>1, ContextsDistinct DEF ContextsDistinct, RoutineAtDispatch, Control, TypeOK, RoutineCalled, Levels,
          Lowering, Places, RoutinePC, Context
  <2>3. IrqlRestored
    <3>1. ASSUME NEW t \in Thread, At(t, "run") PROVE irql = 2 <=> t \in raised
      <4>1. pc[t] = "run" /\ t = current /\ pc[Isr] = "off"
        BY <2>1, <3>1, Executes DEF At, Context
      <4> QED BY <2>1, <4>1 DEF Control, Levels, Lowering
    <3> QED BY <2>1, <3>1 DEF IrqlRestored, Control, Levels
  <2>4. SpinLockFree
    <3> SUFFICES ASSUME NEW c \in Context, At(c, "spin") PROVE spinOwner = NONE
      BY DEF SpinLockFree
    <3>1. Executing(c) /\ pc[c] = "spin"
      BY DEF At
    <3>2. c # Isr
      BY <2>1, <3>1 DEF Control, Places, IsrPC
    <3>3. CASE c \in Thread
      <4>1. c = current /\ routine = NONE
        BY <2>1, <3>1, <3>3, Executes
      <4> QED BY <2>1, <3>1, <3>3, <4>1 DEF Control, TypeOK, SpinHeld, Levels, Context
    <3>4. CASE c = Routine
      <4>1. drainer \in Thread \cup {Isr} /\ (drainer \in Thread => pc[drainer] = "called" /\ pc[Isr] = "off")
        BY <2>1, <3>1, <3>4, Executes, ContextsDistinct
           DEF ContextsDistinct, Control, TypeOK, RoutineCalled, Places, RoutinePC, Context
      <4>2. spinOwner \notin Thread
        BY <2>1, <3>4, <4>1 DEF Control, SpinHeld, Levels, RoutineCalled, Lowering, Context
      <4> QED BY <2>1, <3>1, <3>4, <4>2 DEF Control, TypeOK, SpinHeld, Context
    <3> QED BY <3>2, <3>3, <3>4 DEF Context
  <2> QED BY <2>2, <2>3, <2>4 DEF IrqlDiscipline
<1> QED BY <1>1, InvHolds, PTL

\* For every set of DPCs: a DPC is on the queue once, exactly while its Number says so, and a
\* queue that is not empty is announced by s_pending.
THEOREM DpcQueueCorrect == Spec => []DpcQueueSound
<1>1. Inv => DpcQueueSound
  BY DEF Inv
<1> QED BY <1>1, InvHolds, PTL

\* When no routine sets a timer, a timer is also linked at most once, and one that has expired
\* is not on the list until it is set again; a routine that sets a periodic timer which is being
\* expired links it twice.
THEOREM DeferredListsCorrect ==
  ASSUME QuietRoutines
  PROVE  Spec => []DeferredListsSound
<1>1. Init => Linked
  <2> SUFFICES ASSUME Init PROVE Linked
    OBVIOUS
  <2>1. Range(<<>>) = {} /\ IsInjective(<<>>)
    BY EmptySeq DEF Range, IsInjective
  <2>2. pc[Routine] = "off"
    BY ContextsDistinct DEF ContextsDistinct, Init, Context
  <2> QED BY <2>1, <2>2 DEF Init, Linked, TimerListSound
<1>2. Inv /\ Linked /\ [Next]_vars => Linked'
  BY LinkedNext, QuietRoutines DEF Inv, Control, TypeOK, TimerTypes
<1>3. Inv /\ Linked => DeferredListsSound
  BY DEF Inv, Linked, DeferredListsSound
<1> QED BY <1>1, <1>2, <1>3, InvHolds, PTL DEF Spec

\* When the services are called with interrupts off, no DPC is left on the queue while the
\* processor is below DISPATCH, except by the call that is about to drain it.
THEOREM MaskedQueueDrained ==
  ASSUME MaskedCalls
  PROVE  Spec => []NoStrandedDpc
<1>1. Init => Uninterrupted
  BY ContextsDistinct DEF ContextsDistinct, Init, Uninterrupted, NoStrandedDpc, Context
<1>2. Inv /\ Uninterrupted /\ [Next]_vars => Uninterrupted'
  BY MaskedNext, MaskedCalls DEF Inv
<1>3. Uninterrupted => NoStrandedDpc
  BY DEF Uninterrupted
<1> QED BY <1>1, <1>2, <1>3, InvHolds, PTL DEF Spec

=============================================================================
