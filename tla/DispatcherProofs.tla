-------------------------- MODULE DispatcherProofs --------------------------
(***************************************************************************)
(* Proofs about the dispatcher, for every number of threads and objects.    *)
(***************************************************************************)
EXTENDS DispatcherProps, SequenceTheorems, FiniteSetTheorems, TLAPS

-----------------------------------------------------------------------------
(* Lists.                                                                    *)

\* Linking an element at the tail of a list adds it, once, if it was not there.
LEMMA AppendList ==
  ASSUME NEW S, NEW s \in Seq(S), NEW e \in S
  PROVE  /\ Append(s, e) \in Seq(S)
         /\ Range(Append(s, e)) = Range(s) \cup {e}
         /\ IsInjective(s) /\ e \notin Range(s) => IsInjective(Append(s, e))
<1>1. /\ Append(s, e) \in Seq(S)
      /\ Len(s) \in Nat
      /\ DOMAIN s = 1 .. Len(s)
      /\ DOMAIN Append(s, e) = 1 .. (Len(s) + 1)
      /\ \A i \in 1 .. Len(s) : Append(s, e)[i] = s[i]
      /\ Append(s, e)[Len(s) + 1] = e
  BY AppendProperties, LenProperties
<1>2. Range(Append(s, e)) = Range(s) \cup {e}
  BY <1>1, SMTT(30) DEF Range
<1>3. IsInjective(s) /\ e \notin Range(s) => IsInjective(Append(s, e))
  BY <1>1, SMTT(30) DEF IsInjective, Range
<1> QED BY <1>1, <1>2, <1>3

\* Unlinking the head of a list without duplicates removes just that element.
LEMMA TailList ==
  ASSUME NEW S, NEW s \in Seq(S), s # <<>>, IsInjective(s)
  PROVE  /\ Head(s) \in S
         /\ Head(s) \in Range(s)
         /\ Tail(s) \in Seq(S)
         /\ Range(Tail(s)) = Range(s) \ {Head(s)}
         /\ IsInjective(Tail(s))
<1>1. /\ Len(s) \in Nat /\ Len(s) > 0
      /\ DOMAIN s = 1 .. Len(s)
      /\ Head(s) = s[1] /\ Head(s) \in S
      /\ Tail(s) \in Seq(S)
      /\ DOMAIN Tail(s) = 1 .. (Len(s) - 1)
      /\ \A i \in 1 .. (Len(s) - 1) : Tail(s)[i] = s[i + 1]
  BY HeadTailProperties, LenProperties, EmptySeq
<1>2. Head(s) \in Range(s)
  BY <1>1 DEF Range
<1>3. Range(Tail(s)) = Range(s) \ {Head(s)}
  <2>1. Range(Tail(s)) \subseteq Range(s) \ {Head(s)}
    BY <1>1, SMTT(30) DEF Range, IsInjective
  <2>2. ASSUME NEW x \in Range(s) \ {Head(s)} PROVE x \in Range(Tail(s))
    <3>1. PICK i \in 1 .. Len(s) : x = s[i]
      BY <1>1 DEF Range
    <3>2. i # 1 /\ i - 1 \in 1 .. (Len(s) - 1) /\ Tail(s)[i - 1] = x
      BY <1>1, <3>1, <2>2
    <3> QED BY <3>2, <1>1 DEF Range
  <2> QED BY <2>1, <2>2
<1>4. IsInjective(Tail(s))
  BY <1>1, SMTT(30) DEF IsInjective
<1> QED BY <1>1, <1>2, <1>3, <1>4

\* Unlinking any one element of a list without duplicates removes just that one.
LEMMA RemoveAtList ==
  ASSUME NEW S, NEW s \in Seq(S), NEW i \in DOMAIN s, IsInjective(s)
  PROVE  /\ s[i] \in S
         /\ s[i] \in Range(s)
         /\ RemoveAt(s, i) \in Seq(S)
         /\ Range(RemoveAt(s, i)) = Range(s) \ {s[i]}
         /\ IsInjective(RemoveAt(s, i))
<1> DEFINE n == Len(s)
           r == RemoveAt(s, i)
<1>1. n \in Nat /\ DOMAIN s = 1 .. n /\ i \in 1 .. n /\ s[i] \in S
  BY LenProperties, ElementOfSeq
<1>2. /\ SubSeq(s, 1, i - 1) \in Seq(S)
      /\ Len(SubSeq(s, 1, i - 1)) = i - 1
      /\ \A j \in 1 .. (i - 1) : SubSeq(s, 1, i - 1)[j] = s[j]
  BY <1>1, SubSeqProperties
<1>3. /\ SubSeq(s, i + 1, n) \in Seq(S)
      /\ Len(SubSeq(s, i + 1, n)) = n - i
      /\ \A j \in 1 .. (n - i) : SubSeq(s, i + 1, n)[j] = s[i + j]
  BY <1>1, SubSeqProperties
<1>4. /\ r \in Seq(S) /\ Len(r) = n - 1 /\ DOMAIN r = 1 .. (n - 1)
      /\ \A j \in 1 .. (n - 1) : r[j] = IF j < i THEN s[j] ELSE s[j + 1]
  <2> DEFINE a == SubSeq(s, 1, i - 1)
             b == SubSeq(s, i + 1, n)
  <2>1. r = a \o b
    BY DEF RemoveAt
  <2>2. /\ r \in Seq(S)
        /\ Len(r) = (i - 1) + (n - i)
        /\ \A j \in 1 .. ((i - 1) + (n - i)) :
             r[j] = IF j <= i - 1 THEN a[j] ELSE b[j - (i - 1)]
    <3> HIDE DEF a, b, r
    <3>1. /\ a \o b \in Seq(S)
          /\ Len(a \o b) = Len(a) + Len(b)
          /\ \A j \in 1 .. (Len(a) + Len(b)) :
               (a \o b)[j] = IF j <= Len(a) THEN a[j] ELSE b[j - Len(a)]
      BY <1>2, <1>3, ConcatProperties DEF a, b
    <3> QED BY <3>1, <2>1, <1>2, <1>3 DEF a, b
  <2>3. Len(r) = n - 1 /\ DOMAIN r = 1 .. (n - 1)
    BY <1>1, <2>2, LenProperties
  <2>4. ASSUME NEW j \in 1 .. (n - 1)
        PROVE  r[j] = IF j < i THEN s[j] ELSE s[j + 1]
    <3>1. CASE j < i
      BY <1>1, <1>2, <2>2, <3>1
    <3>2. CASE ~(j < i)
      <4>1. j - (i - 1) \in 1 .. (n - i) /\ i + (j - (i - 1)) = j + 1
        BY <1>1, <3>2
      <4>2. b[j - (i - 1)] = s[j + 1]
        BY <1>3, <4>1
      <4>3. r[j] = b[j - (i - 1)]
        BY <1>1, <2>2, <3>2
      <4> QED BY <3>2, <4>2, <4>3
    <3> QED BY <3>1, <3>2
  <2> QED BY <2>2, <2>3, <2>4
<1>5. Range(r) = Range(s) \ {s[i]}
  <2>1. Range(r) \subseteq Range(s) \ {s[i]}
    BY <1>1, <1>4, SMTT(30) DEF Range, IsInjective
  <2>2. ASSUME NEW x \in Range(s) \ {s[i]} PROVE x \in Range(r)
    <3>1. PICK k \in 1 .. n : x = s[k]
      BY <1>1 DEF Range
    <3>2. CASE k < i
      BY <1>1, <1>4, <3>1, <3>2 DEF Range
    <3>3. CASE k > i
      <4>1. k - 1 \in 1 .. (n - 1) /\ r[k - 1] = x
        BY <1>1, <1>4, <3>1, <3>3
      <4> QED BY <4>1, <1>4 DEF Range
    <3> QED BY <1>1, <2>2, <3>1, <3>2, <3>3
  <2> QED BY <2>1, <2>2
<1>6. IsInjective(r)
  BY <1>1, <1>4, SMTT(30) DEF IsInjective
<1>7. s[i] \in Range(s)
  BY <1>1 DEF Range
<1> QED BY <1>1, <1>4, <1>5, <1>6, <1>7

-----------------------------------------------------------------------------
(* Types.                                                                    *)

\* Switching keeps the types of what it switches.
LEMMA SwapTypes ==
  ASSUME TypeOK, NEW st \in [Thread -> ThreadState], Swap(st)
  PROVE  /\ current' \in Thread
         /\ readyQ' \in Seq(Thread)
         /\ state' \in [Thread -> ThreadState]
<1>1. Boot \in Thread /\ current \in Thread /\ readyQ \in Seq(Thread)
  BY DEF TypeOK, Thread
<1>2. CASE readyQ = <<>>
  <2>1. NextThread = Boot
    BY <1>2 DEF NextThread
  <2>2. /\ <<>> \in Seq(Thread)
        /\ Append(<<>>, current) \in Seq(Thread)
    BY <1>1, AppendProperties
  <2> QED BY <1>1, <1>2, <2>1, <2>2 DEF Swap, ThreadState
<1>3. CASE readyQ # <<>>
  <2>1. Head(readyQ) \in Thread /\ Tail(readyQ) \in Seq(Thread)
    BY <1>1, <1>3, HeadTailProperties
  <2>2. Append(Tail(readyQ), current) \in Seq(Thread)
    BY <1>1, <2>1, AppendProperties
  <2>3. NextThread = Head(readyQ)
    BY <1>3 DEF NextThread
  <2> QED BY <1>1, <1>3, <2>1, <2>2, <2>3 DEF Swap, ThreadState
<1> QED BY <1>2, <1>3

LEMMA YieldTypes ==
  ASSUME TypeOK, NEW st \in [Thread -> ThreadState], YieldProcessor(st)
  PROVE  /\ current' \in Thread
         /\ readyQ' \in Seq(Thread)
         /\ state' \in [Thread -> ThreadState]
         /\ quantum' \in [Worker -> 1 .. Quantum]
<1>1. Quantum \in 1 .. Quantum
  BY ParametersOK
<1>2. quantum' \in [Worker -> 1 .. Quantum]
  BY <1>1 DEF TypeOK, YieldProcessor
<1> QED BY <1>2, SwapTypes DEF YieldProcessor

LEMMA EnqueueTypes ==
  ASSUME TypeOK, NEW u \in Thread, Enqueue(u)
  PROVE  /\ current' \in Thread
         /\ readyQ' \in Seq(Thread)
         /\ state' \in [Thread -> ThreadState]
         /\ quantum' \in [Worker -> 1 .. Quantum]
BY AppendProperties DEF TypeOK, Enqueue, ThreadState

\* Going to a place with the target that place requires keeps the types of calls.
LEMMA GotoTypes ==
  ASSUME TypeOK, NEW c \in Context, NEW label, NEW what, Goto(c, label, what),
         c \in Thread => label \in ThreadPC,
         c = Isr => label \in IsrPC,
         what \in Object \cup Worker \cup {NONE},
         label \in ObjectPC => what \in Object
  PROVE  /\ pc' \in [Context -> ThreadPC \cup IsrPC]
         /\ \A t \in Thread : pc'[t] \in ThreadPC
         /\ pc'[Isr] \in IsrPC
         /\ target' \in [Context -> Object \cup Worker \cup {NONE}]
         /\ \A d \in Context : pc'[d] \in ObjectPC => target'[d] \in Object
<1>1. Isr \notin Thread
  BY ContextsDistinct DEF Thread
<1>2. c \in Thread \/ c = Isr
  BY DEF Context
<1> QED BY <1>1, <1>2 DEF TypeOK, Goto, Context, ThreadPC, ObjectPC, IsrPC

LEMMA ConsumedNat ==
  ASSUME TypeOK, NEW o \in Object
  PROVE  Consumed(o) \in Nat
<1>1. signal[o] \in Nat
  BY DEF TypeOK
<1>2. signal[o] > 0 => signal[o] - 1 \in Nat
  BY <1>1
<1>3. Type[o] \in ObjectType
  BY ParametersOK
<1> QED BY <1>1, <1>2, <1>3 DEF Consumed, ObjectType

LEMMA ClaimTypes ==
  ASSUME TypeOK, NEW t \in Thread, NEW o \in Object, Claim(t, o)
  PROVE  claims' \in [Thread -> SUBSET Mutant]
BY DEF TypeOK, Claim

\* Every variable keeps its type: KTHREAD states, list links, the quantum
\* between 1 and s_quantum_default, and the calls in progress.
THEOREM TypeStep == TypeOK /\ [Next]_vars => TypeOK'
<1> SUFFICES ASSUME TypeOK, [Next]_vars PROVE TypeOK'
  OBVIOUS
<1> USE DEF schedVars, waitVars, callVars, timerVars, modeVars
<1>0. /\ Thread \subseteq Context /\ Isr \in Context /\ Boot \in Thread
      /\ Isr \notin Thread /\ Worker \subseteq Thread
      /\ Mutant \subseteq Object /\ Timer \subseteq Object
      /\ Event \subseteq Object /\ Semaphore \subseteq Object
  BY ContextsDistinct DEF Thread, Context, Mutant, Timer, Event, Semaphore, OfType
<1>1. ASSUME NEW t \in Thread, Call(t) PROVE TypeOK'
  <2>1. ASSUME NEW u \in Worker, Launch(t, u) PROVE TypeOK'
    BY <1>0, <2>1, EnqueueTypes DEF Launch, TypeOK
  <2>2. ASSUME NEW u \in Worker, Join(t, u) PROVE TypeOK'
    BY <1>0, <2>2, GotoTypes DEF Join, TypeOK, ThreadPC, ObjectPC
  <2>3. CASE Exit(t)
    BY <1>0, <2>3, GotoTypes DEF Exit, TypeOK, ThreadPC, ObjectPC, ThreadState
  <2>4. ASSUME NEW o \in Object, KeWaitForSingleObject(t, o) PROVE TypeOK'
    BY <1>0, <2>4, GotoTypes DEF KeWaitForSingleObject, TypeOK, ThreadPC, ObjectPC
  <2>5. ASSUME NEW o \in Object, NEW zero \in BOOLEAN, KeWaitWithTimeout(t, o, zero)
        PROVE TypeOK'
    <3>1. signal' \in [Object -> Nat]
      BY ZenonT(30), <2>5, ConsumedNat DEF KeWaitWithTimeout, TypeOK
    <3>2. claims' \in [Thread -> SUBSET Mutant]
      BY <2>5, ClaimTypes DEF KeWaitWithTimeout, TypeOK
    <3> QED BY <2>5, <3>1, <3>2 DEF KeWaitWithTimeout, TypeOK
  <2>6. ASSUME NEW o \in Object, KeSetEvent(t, o) PROVE TypeOK'
    BY <1>0, <2>6, GotoTypes DEF KeSetEvent, Signal, TypeOK, ThreadPC, ObjectPC
  <2>7. ASSUME NEW o \in Object, KeResetEvent(t, o) PROVE TypeOK'
    BY <2>7 DEF KeResetEvent, TypeOK
  <2>8. ASSUME NEW o \in Object, KeReleaseMutex(t, o) PROVE TypeOK'
    <3>1. claims' \in [Thread -> SUBSET Mutant] /\ signal' \in [Object -> Nat]
      BY <2>8 DEF KeReleaseMutex, Signal, TypeOK
    <3> QED BY <1>0, <2>8, <3>1, GotoTypes DEF KeReleaseMutex, Signal, TypeOK, ThreadPC, ObjectPC
  <2>9. ASSUME NEW o \in Object, KeReleaseSemaphore(t, o) PROVE TypeOK'
    <3>1. prev' \in [Thread -> Nat]
      BY <2>9 DEF KeReleaseSemaphore, TypeOK
    <3> QED BY <1>0, <2>9, <3>1, GotoTypes DEF KeReleaseSemaphore, TypeOK, ThreadPC, ObjectPC
  <2>10. ASSUME NEW objs \in SUBSET (Object \ Mutant), NEW all \in BOOLEAN,
                KeWaitForMultipleObjects(t, objs, all)
         PROVE TypeOK'
    <3>1. signal' \in [Object -> Nat]
      BY <2>10, ConsumedNat DEF KeWaitForMultipleObjects, TypeOK
    <3> QED BY <2>10, <3>1 DEF KeWaitForMultipleObjects, TypeOK
  <2>11. ASSUME NEW o \in Timer, KeSetTimer(t, o) PROVE TypeOK'
    BY <1>0, <2>11 DEF KeSetTimer, TypeOK
  <2>12. ASSUME NEW o \in Timer, KeCancelTimer(t, o) PROVE TypeOK'
    BY <2>12 DEF KeCancelTimer, TypeOK
  <2> QED BY <1>1, <2>1, <2>2, <2>3, <2>4, <2>5, <2>6, <2>7, <2>8, <2>9, <2>10, <2>11,
             <2>12 DEF Call
<1>2. ASSUME NEW c \in Context, WakeStep(c) PROVE TypeOK'
  <2>1. CASE TakeWaiter(c)
    <3>1. target[c] \in Object
      BY <2>1 DEF TakeWaiter, Waking, TypeOK, ObjectPC
    <3>2. PICK i \in WaitersOf(target[c]) :
            /\ waitList' = RemoveAt(waitList, i)
            /\ waitObject' = [waitObject EXCEPT ![waitList[i]] = NONE]
            /\ batch' = [batch EXCEPT ![c] = Append(@, waitList[i])]
      BY <2>1 DEF TakeWaiter
    <3>3. i \in 1 .. Len(waitList) /\ waitList \in Seq(Thread) /\ waitList[i] \in Thread
      BY <3>2, LenProperties, ElementOfSeq DEF WaitersOf, TypeOK
    <3>4. waitList' \in Seq(Thread)
      <4>1. /\ SubSeq(waitList, 1, i - 1) \in Seq(Thread)
            /\ SubSeq(waitList, i + 1, Len(waitList)) \in Seq(Thread)
        BY <3>3, SubSeqProperties, LenProperties
      <4> QED BY <3>2, <4>1, ConcatProperties DEF RemoveAt
    <3>5. batch' \in [Context -> Seq(Thread)]
      BY <3>2, <3>3, AppendProperties DEF TypeOK
    <3>6. waitObject' \in [Thread -> Object \cup {NONE}]
      BY <3>2, <3>3 DEF TypeOK
    <3> QED BY <1>0, <2>1, <3>1, <3>4, <3>5, <3>6, GotoTypes
            DEF TakeWaiter, TypeOK, ThreadPC, ObjectPC, IsrPC
  <2>2. CASE ScanEnds(c)
    <3>1. target[c] \in Object
      BY <2>2 DEF ScanEnds, Waking, TypeOK, ObjectPC
    <3> QED BY <1>0, <2>2, <3>1, GotoTypes DEF ScanEnds, TypeOK, ThreadPC, ObjectPC, IsrPC
  <2>3. CASE ReadyWoken(c)
    <3>1. Head(batch[c]) \in Thread /\ Tail(batch[c]) \in Seq(Thread)
      BY <2>3, HeadTailProperties DEF ReadyWoken, TypeOK
    <3>2. batch' \in [Context -> Seq(Thread)]
      BY <2>3, <3>1 DEF ReadyWoken, TypeOK
    <3> QED BY <2>3, <3>1, <3>2, EnqueueTypes DEF ReadyWoken, TypeOK
  <2>4. CASE WakeReturns(c)
    <3>1. CASE c = Isr
      <4>1. target[Isr] \in Object
        BY <2>4, <3>1 DEF WakeReturns, TypeOK, ObjectPC
      <4> QED BY <1>0, <2>4, <3>1, <4>1, GotoTypes DEF WakeReturns, TypeOK, ThreadPC, ObjectPC, IsrPC
    <3>2. CASE c # Isr
      BY <1>0, <2>4, <3>2, GotoTypes DEF WakeReturns, Return, TypeOK, ThreadPC, ObjectPC, Context
    <3> QED BY <3>1, <3>2
  <2> QED BY <1>2, <2>1, <2>2, <2>3, <2>4 DEF WakeStep
<1>3. ASSUME NEW t \in Thread, KernelStep(t) PROVE TypeOK'
  <2>0. pc[t] = "wait" \/ pc[t] = "add" => target[t] \in Object
    BY <1>0 DEF TypeOK, ObjectPC
  <2>1. CASE WaitSatisfied(t)
    <3>1. signal' \in [Object -> Nat] /\ claims' \in [Thread -> SUBSET Mutant]
      BY <2>0, <2>1, ConsumedNat, ClaimTypes DEF WaitSatisfied, Waiting, TypeOK
    <3> QED BY <1>0, <2>1, <3>1, GotoTypes DEF WaitSatisfied, Return, TypeOK, ThreadPC, ObjectPC
  <2>2. CASE WaitAutoResolved(t)
    <3>1. claims' \in [Thread -> SUBSET Mutant]
      BY <2>0, <2>2, ClaimTypes DEF WaitAutoResolved, Waiting
    <3> QED BY <1>0, <2>2, <3>1, GotoTypes DEF WaitAutoResolved, Return, TypeOK, ThreadPC, ObjectPC
  <2>3. CASE WaitBlocks(t)
    <3>1. [state EXCEPT ![t] = "WAITING"] \in [Thread -> ThreadState]
      BY DEF TypeOK, ThreadState
    <3>2. waitList' \in Seq(Thread) /\ waitObject' \in [Thread -> Object \cup {NONE}]
      BY <2>0, <2>3, AppendProperties DEF WaitBlocks, Waiting, TypeOK
    <3> QED BY <2>3, <3>1, <3>2, YieldTypes DEF WaitBlocks, TypeOK
  <2>4. CASE AddCount(t)
    <3>1. signal' \in [Object -> Nat] /\ prev' \in [Thread -> Nat]
      BY <2>0, <2>4 DEF AddCount, Signal, TypeOK
    <3> QED BY <1>0, <2>0, <2>4, <3>1, GotoTypes DEF AddCount, Signal, TypeOK, ThreadPC, ObjectPC
  <2>5. CASE SkipWake(t)
    BY <1>0, <2>5, GotoTypes DEF SkipWake, Return, TypeOK, ThreadPC, ObjectPC
  <2>6. CASE WakeStep(t)
    BY <1>0, <1>2, <2>6
  <2>7. state \in [Thread -> ThreadState]
    BY DEF TypeOK
  <2>8. CASE ExitYield(t)
    BY <2>7, <2>8, YieldTypes DEF ExitYield, TypeOK
  <2>9. CASE JoinYield(t)
    BY <2>7, <2>9, YieldTypes DEF JoinYield, TypeOK
  <2>10. CASE JoinReturns(t)
    BY <1>0, <2>10, GotoTypes DEF JoinReturns, Return, TypeOK, ThreadPC, ObjectPC
  <2> QED BY <1>3, <2>1, <2>2, <2>3, <2>4, <2>5, <2>6, <2>8, <2>9, <2>10 DEF KernelStep
<1>4. ASSUME NEW due \in SUBSET armed, Tick(due) PROVE TypeOK'
  BY <1>0, <1>4, GotoTypes DEF Tick, TypeOK, IsrPC, ObjectPC
<1>5. CASE IsrStep
  <2>1. ASSUME NEW o \in Timer, ExpireTimer(o) PROVE TypeOK'
    <3>1. signal' \in [Object -> Nat]
      BY <2>1 DEF ExpireTimer, Signal, TypeOK
    <3> QED BY <1>0, <2>1, <3>1, GotoTypes DEF ExpireTimer, Signal, TypeOK, IsrPC, ObjectPC
  <2>2. CASE TimerDone
    <3>1. signal' \in [Object -> Nat] /\ armed' \subseteq Timer
      <4>1. CASE target[Isr] \in Periodic
        BY <2>2, <4>1, ParametersOK DEF TimerDone, TypeOK
      <4>2. CASE target[Isr] \notin Periodic
        BY <2>2, <4>2 DEF TimerDone, TypeOK
      <4> QED BY <4>1, <4>2
    <3> QED BY <1>0, <2>2, <3>1, GotoTypes DEF TimerDone, TypeOK, IsrPC, ObjectPC
  <2>3. CASE InterruptReturns
    <3>1. /\ current' \in Thread /\ readyQ' \in Seq(Thread)
          /\ state' \in [Thread -> ThreadState] /\ quantum' \in [Worker -> 1 .. Quantum]
      <4>1. CASE p4 /\ ~(current \in Worker /\ quantum[current] > 1)
        BY <2>3, <4>1, YieldTypes DEF InterruptReturns, QuantumEnd, TypeOK
      <4>2. CASE p4 /\ current \in Worker /\ quantum[current] > 1
        <5>1. quantum[current] - 1 \in 1 .. Quantum
          BY <4>2, ParametersOK DEF TypeOK
        <5> QED BY <2>3, <4>2, <5>1 DEF InterruptReturns, QuantumEnd, TypeOK
      <4>3. CASE ~p4
        BY <2>3, <4>3 DEF InterruptReturns, TypeOK
      <4> QED BY <4>1, <4>2, <4>3
    <3> QED BY <1>0, <2>3, <3>1, GotoTypes DEF InterruptReturns, TypeOK, IsrPC, ObjectPC
  <2> QED BY <1>0, <1>2, <1>5, <2>1, <2>2, <2>3 DEF IsrStep
<1>6. CASE ModeStep
  BY <1>6 DEF ModeStep, EnablePreemption, DriverWindow, TypeOK
<1>7. CASE UNCHANGED vars
  BY <1>7 DEF vars, TypeOK
<1> QED BY <1>1, <1>3, <1>4, <1>5, <1>6, <1>7 DEF Next

\* Spec keeps the types of its variables.
THEOREM TypeCorrect == Spec => []TypeOK
<1>1. Init => TypeOK
  <2> SUFFICES ASSUME Init PROVE TypeOK
    OBVIOUS
  <2>1. \A S : <<>> \in Seq(S)
    BY EmptySeq
  <2>2. Quantum \in 1 .. Quantum
    BY ParametersOK
  <2>3. Isr \notin Thread /\ Boot \in Thread
    BY ContextsDistinct DEF Thread
  <2> QED BY <2>1, <2>2, <2>3 DEF Init, TypeOK, Context, ThreadState, ThreadPC, IsrPC, ObjectPC
<1> QED BY <1>1, TypeStep, PTL DEF Spec

-----------------------------------------------------------------------------
(* Placement: every thread is in exactly one place, the one its state names. *)

\* What a switch does to the places, from a placement in which the caller has
\* (perhaps) just marked the current thread in st.
LEMMA SwapMoves ==
  ASSUME TypeOK, ThreadPlacement, NEW st \in [Thread -> ThreadState], Swap(st)
  PROVE  \/ /\ readyQ = <<>> /\ current = Boot
            /\ current' = current /\ readyQ' = readyQ /\ state' = st
         \/ /\ current' \in Queued /\ current' # current
            /\ IsInjective(readyQ')
            /\ Queued' = (Queued \ {current'})
                           \cup (IF Requeued(st) THEN {current} ELSE {})
            /\ state' = [st EXCEPT
                 ![current]  = IF Requeued(st) /\ current # Boot THEN "READY" ELSE @,
                 ![current'] = "RUNNING"]
<1>1. current \notin Queued /\ Boot \in Queued \cup {current} /\ IsInjective(readyQ)
  BY DEF ThreadPlacement, NoDuplicates, NoSharing, BootAlwaysRunnable
<1>2. readyQ \in Seq(Thread) /\ current \in Thread
  BY DEF TypeOK
<1>3. CASE readyQ = <<>>
  <2>1. Queued = {}
    BY <1>3 DEF Queued, Range
  <2> QED BY <1>1, <1>3, <2>1 DEF Swap, NextThread
<1>4. CASE readyQ # <<>>
  <2>1. /\ Head(readyQ) \in Queued
        /\ Tail(readyQ) \in Seq(Thread)
        /\ Range(Tail(readyQ)) = Queued \ {Head(readyQ)}
        /\ IsInjective(Tail(readyQ))
    BY <1>1, <1>2, <1>4, TailList DEF Queued
  <2>2. NextThread = Head(readyQ) /\ NextThread # current
    BY <1>1, <1>4, <2>1 DEF NextThread
  <2>3. /\ current' = NextThread
        /\ readyQ' = IF Requeued(st) THEN Append(Tail(readyQ), current) ELSE Tail(readyQ)
        /\ state' = [st EXCEPT
             ![current]    = IF Requeued(st) /\ current # Boot THEN "READY" ELSE @,
             ![NextThread] = "RUNNING"]
    BY <1>4, <2>2 DEF Swap
  <2>4. current \notin Range(Tail(readyQ))
    BY <1>1, <2>1
  <2>5. /\ IsInjective(readyQ')
        /\ Range(readyQ') = (Queued \ {current'})
                           \cup (IF Requeued(st) THEN {current} ELSE {})
    <3>1. CASE Requeued(st)
      <4>1. readyQ' = Append(Tail(readyQ), current)
        BY <2>3, <3>1
      <4>2. /\ Range(Append(Tail(readyQ), current)) = Range(Tail(readyQ)) \cup {current}
            /\ IsInjective(Append(Tail(readyQ), current))
        BY ZenonT(30), <1>2, <2>1, <2>4, AppendList
      <4> QED BY <2>1, <2>2, <2>3, <3>1, <4>1, <4>2
    <3>2. CASE ~Requeued(st)
      BY <2>1, <2>2, <2>3, <3>2
    <3> QED BY <3>1, <3>2
  <2> QED BY <2>1, <2>2, <2>3, <2>5 DEF Queued
<1> QED BY <1>3, <1>4

\* A yield of a thread that did not mark itself waiting keeps the placement.
LEMMA YieldPlacement ==
  ASSUME TypeOK, ThreadPlacement, Swap(state), UNCHANGED <<waitVars, batch>>
  PROVE  ThreadPlacement'
<1>1. state \in [Thread -> ThreadState] /\ current \in Thread /\ Boot \in Thread
  BY DEF TypeOK, Thread
<1>2. /\ UNCHANGED <<waitList, waitObject, batch>>
      /\ Blocked' = Blocked /\ WokenAny' = WokenAny
      /\ \A c \in Context : Woken(c)' = Woken(c)
  BY DEF waitVars, Blocked, WokenAny, Woken
<1>3. CASE /\ current' = current /\ readyQ' = readyQ /\ state' = state
  BY <1>2, <1>3 DEF ThreadPlacement, NoDuplicates, NoSharing, StateMatchesPlace,
     BootAlwaysRunnable, Queued, Woken
<1>4. CASE /\ current' \in Queued /\ current' # current
           /\ IsInjective(readyQ')
           /\ Queued' = (Queued \ {current'})
                          \cup (IF Requeued(state) THEN {current} ELSE {})
           /\ state' = [state EXCEPT
                ![current]  = IF Requeued(state) /\ current # Boot THEN "READY" ELSE @,
                ![current'] = "RUNNING"]
  <2>0. current' \in Thread
    BY <1>4, RangeOfSeq DEF TypeOK, Queued
  <2>1. Requeued(state) <=> state[current] = "RUNNING"
    BY DEF Requeued, ThreadPlacement, StateMatchesPlace
  <2>2. state[Boot] = "RUNNING" /\ Boot \in Queued \cup {current}
    BY DEF ThreadPlacement, BootAlwaysRunnable
  <2>7. /\ current \notin Queued \cup Blocked \cup WokenAny
        /\ \A t \in Queued : state[t] = IF t = Boot THEN "RUNNING" ELSE "READY"
        /\ \A t \in Thread : state[t] = "WAITING" <=> t \in Blocked \cup WokenAny
        /\ state[current] \in {"RUNNING", "TERMINATED"}
        /\ \A t \in Thread : state[t] \in {"READY", "RUNNING"} => t \in Queued \cup {current}
    BY DEF ThreadPlacement, NoSharing, StateMatchesPlace
  <2>8. /\ \A t \in Thread \ {current, current'} : state'[t] = state[t]
        /\ state'[current'] = "RUNNING"
        /\ state'[current] = IF Requeued(state) /\ current # Boot THEN "READY" ELSE state[current]
    BY <1>1, <1>4, <2>0
  <2>9. Queued \subseteq Thread
    BY RangeOfSeq DEF TypeOK, Queued
  <2>3. NoDuplicates'
    BY <1>2, <1>4 DEF ThreadPlacement, NoDuplicates
  <2>4. NoSharing'
    BY <1>2, <1>4 DEF ThreadPlacement, NoSharing
  <2>5. StateMatchesPlace'
    <3>1. \A t \in Queued' : state'[t] = IF t = Boot THEN "RUNNING" ELSE "READY"
      BY <1>1, <1>4, <2>1, <2>2, <2>7, <2>8, <2>9
    <3>2. \A t \in Thread : state'[t] = "WAITING" <=> t \in Blocked \cup WokenAny
      <4>1. current' \notin Blocked \cup WokenAny
        BY <1>4, <2>0, <2>2, <2>7
      <4> QED BY <1>1, <2>0, <2>1, <2>7, <2>8, <4>1
    <3>3. \A t \in Thread : waitObject'[t] # NONE <=> t \in Blocked'
      BY <1>2 DEF ThreadPlacement, StateMatchesPlace
    <3>4. state'[current'] \in {"RUNNING", "TERMINATED"}
      BY <1>1, <1>4, <2>0
    <3>5. \A t \in Thread : state'[t] \in {"READY", "RUNNING"} => t \in Queued' \cup {current'}
      BY <1>1, <1>4, <2>0, <2>1, <2>7, <2>8
    <3> QED BY <1>2, <3>1, <3>2, <3>3, <3>4, <3>5 DEF StateMatchesPlace
  <2>6. BootAlwaysRunnable'
    BY <1>1, <1>4, <2>0, <2>1, <2>2, <2>8 DEF BootAlwaysRunnable
  <2> QED BY <2>3, <2>4, <2>5, <2>6 DEF ThreadPlacement
<1> QED BY <1>1, <1>3, <1>4, SwapMoves

\* ki_ready_thread of a thread that was in no list, or just taken off one.
LEMMA EnqueuePlacement ==
  ASSUME TypeOK, ThreadPlacement, NEW u \in Worker, Enqueue(u),
         UNCHANGED waitVars,
         u \notin Queued \cup Blocked \cup {current},
         batch' \in [Context -> Seq(Thread)],
         \A c \in Context : IsInjective(batch'[c]) /\ Woken(c)' = Woken(c) \ {u},
         state[u] \in {"NEW", "WAITING"}
  PROVE  ThreadPlacement'
<1>1. /\ readyQ \in Seq(Thread) /\ u \in Thread /\ u # Boot
      /\ state \in [Thread -> ThreadState]
  BY ContextsDistinct DEF TypeOK, Thread
<1>2. IsInjective(readyQ') /\ Queued' = Queued \cup {u}
  BY <1>1, AppendList DEF Enqueue, Queued, ThreadPlacement, NoDuplicates
<1>3. /\ UNCHANGED <<waitList, waitObject, current>> /\ Blocked' = Blocked
      /\ state' = [state EXCEPT ![u] = "READY"]
  BY DEF Enqueue, waitVars, Blocked
<1>4. WokenAny' = WokenAny \ {u}
  BY DEF WokenAny
<1>5. NoDuplicates'
  BY <1>2, <1>3 DEF ThreadPlacement, NoDuplicates
<1>6. NoSharing'
  BY <1>2, <1>3, <1>4 DEF ThreadPlacement, NoSharing
<1>7. StateMatchesPlace'
  BY <1>1, <1>2, <1>3, <1>4 DEF ThreadPlacement, StateMatchesPlace
<1>8. BootAlwaysRunnable'
  BY <1>1, <1>2, <1>3 DEF ThreadPlacement, BootAlwaysRunnable
<1> QED BY <1>5, <1>6, <1>7, <1>8 DEF ThreadPlacement

\* ki_block_current and the switch: the current thread goes to the wait list.
LEMMA BlockPlacement ==
  ASSUME TypeOK, ThreadPlacement, NEW t \in Thread, WaitBlocks(t)
  PROVE  ThreadPlacement'
<1> DEFINE st == [state EXCEPT ![t] = "WAITING"]
<1>1. /\ t = current /\ t # Boot /\ target[t] \in Object /\ target[t] # NONE
      /\ waitObject' = [waitObject EXCEPT ![t] = target[t]]
      /\ waitList' = Append(waitList, t)
      /\ batch' = batch /\ Swap(st)
  BY ContextsDistinct
     DEF WaitBlocks, Waiting, Executing, CanBlock, Thread, Context, TypeOK, ObjectPC,
         YieldProcessor, callVars
<1>2. st \in [Thread -> ThreadState] /\ st[current] = "WAITING" /\ ~Requeued(st)
  BY <1>1 DEF TypeOK, ThreadState, Requeued
<1>3. waitList \in Seq(Thread) /\ waitObject \in [Thread -> Object \cup {NONE}]
      /\ state \in [Thread -> ThreadState] /\ Boot \in Thread
  BY DEF TypeOK, Thread
<1>4. /\ current' \in Queued /\ current' # current
      /\ IsInjective(readyQ')
      /\ Queued' = Queued \ {current'}
      /\ state' = [st EXCEPT ![current'] = "RUNNING"]
  <2> HIDE DEF st
  <2> QED BY <1>1, <1>2, SwapMoves
<1>5. current' \in Thread /\ Queued \subseteq Thread
  BY <1>4, RangeOfSeq DEF TypeOK, Queued
<1>6. /\ current \notin Queued \cup Blocked \cup WokenAny
      /\ \A u \in Queued : state[u] = IF u = Boot THEN "RUNNING" ELSE "READY"
      /\ \A u \in Thread : state[u] = "WAITING" <=> u \in Blocked \cup WokenAny
      /\ \A u \in Thread : waitObject[u] # NONE <=> u \in Blocked
      /\ \A u \in Thread : state[u] \in {"READY", "RUNNING"} => u \in Queued \cup {current}
  BY DEF ThreadPlacement, NoSharing, StateMatchesPlace
<1>7. IsInjective(waitList') /\ Blocked' = Blocked \cup {t}
  BY <1>1, <1>3, <1>6, AppendList DEF Blocked, ThreadPlacement, NoDuplicates
<1>8. WokenAny' = WokenAny /\ \A c \in Context : Woken(c)' = Woken(c)
  BY <1>1 DEF WokenAny, Woken
<1>9. NoDuplicates'
  BY <1>1, <1>4, <1>7 DEF ThreadPlacement, NoDuplicates
<1>10. NoSharing'
  BY <1>1, <1>4, <1>6, <1>7, <1>8 DEF ThreadPlacement, NoSharing
<1>11. /\ \A u \in Thread \ {t, current'} : state'[u] = state[u]
       /\ state'[t] = "WAITING" /\ state'[current'] = "RUNNING"
  BY <1>1, <1>3, <1>4, <1>5
<1>12. StateMatchesPlace'
  <2>1. current' \notin Blocked \cup WokenAny
    BY <1>4, <1>6, <1>5 DEF ThreadPlacement, NoSharing
  <2>2. \A u \in Queued' : state'[u] = IF u = Boot THEN "RUNNING" ELSE "READY"
    BY <1>1, <1>4, <1>5, <1>6, <1>11
  <2>3. \A u \in Thread : state'[u] = "WAITING" <=> u \in Blocked' \cup WokenAny'
    BY <1>1, <1>4, <1>5, <1>6, <1>7, <1>8, <1>11, <2>1
  <2>4. \A u \in Thread : waitObject'[u] # NONE <=> u \in Blocked'
    BY <1>1, <1>3, <1>6, <1>7
  <2>5. \A u \in Thread : state'[u] \in {"READY", "RUNNING"} => u \in Queued' \cup {current'}
    BY <1>1, <1>4, <1>6, <1>11
  <2> QED BY <1>11, <2>2, <2>3, <2>4, <2>5 DEF StateMatchesPlace
<1>13. BootAlwaysRunnable'
  BY <1>1, <1>3, <1>4, <1>11 DEF ThreadPlacement, BootAlwaysRunnable
<1> QED BY <1>9, <1>10, <1>12, <1>13 DEF ThreadPlacement

\* ki_wake takes one waiter off the wait list into its batch.
LEMMA TakePlacement ==
  ASSUME TypeOK, ThreadPlacement, NEW c \in Context, TakeWaiter(c)
  PROVE  ThreadPlacement'
<1>1. PICK i \in WaitersOf(target[c]) :
        /\ waitList' = RemoveAt(waitList, i)
        /\ waitObject' = [waitObject EXCEPT ![waitList[i]] = NONE]
        /\ batch' = [batch EXCEPT ![c] = Append(@, waitList[i])]
  BY DEF TakeWaiter
<1> DEFINE u == waitList[i]
<1>2. /\ i \in DOMAIN waitList /\ waitList \in Seq(Thread) /\ IsInjective(waitList)
      /\ batch \in [Context -> Seq(Thread)] /\ IsInjective(batch[c])
      /\ waitObject \in [Thread -> Object \cup {NONE}]
  BY <1>1 DEF WaitersOf, TypeOK, ThreadPlacement, NoDuplicates
<1>3. /\ u \in Thread /\ u \in Blocked
      /\ Blocked' = Blocked \ {u} /\ IsInjective(waitList')
  BY <1>1, <1>2, RemoveAtList DEF Blocked
<1>4. UNCHANGED <<current, readyQ, state>> /\ Queued' = Queued
  BY DEF TakeWaiter, schedVars, Queued
<1>5. u \notin Queued \cup WokenAny \cup {current}
  BY <1>3 DEF ThreadPlacement, NoSharing
<1>6. u \notin Woken(c)
  BY <1>5 DEF WokenAny
<1>7. /\ Range(Append(batch[c], u)) = Woken(c) \cup {u}
      /\ IsInjective(Append(batch[c], u))
  <2> HIDE DEF u
  <2> QED BY <1>2, <1>3, <1>6, AppendList DEF Woken
<1>8. /\ Woken(c)' = Woken(c) \cup {u}
      /\ \A d \in Context \ {c} : Woken(d)' = Woken(d) /\ batch'[d] = batch[d]
      /\ IsInjective(batch'[c])
  BY <1>1, <1>2, <1>7 DEF Woken
<1>9. WokenAny' = WokenAny \cup {u}
  BY <1>8 DEF WokenAny
<1> HIDE DEF u
<1>10. NoDuplicates'
  BY <1>3, <1>4, <1>8 DEF ThreadPlacement, NoDuplicates
<1>11. NoSharing'
  <2>1. \A d, e \in Context : d # e => Woken(d)' \cap Woken(e)' = {}
    <3>1. \A d \in Context : Woken(d) \subseteq WokenAny
      BY DEF WokenAny
    <3> QED BY <1>5, <1>8, <3>1 DEF ThreadPlacement, NoSharing
  <2> QED BY <1>3, <1>4, <1>5, <1>9, <2>1 DEF ThreadPlacement, NoSharing
<1>12. StateMatchesPlace'
  <2>1. \A t \in Thread : waitObject'[t] # NONE <=> t \in Blocked'
    BY <1>1, <1>2, <1>3 DEF u, ThreadPlacement, StateMatchesPlace
  <2> QED BY <1>3, <1>4, <1>9, <2>1 DEF ThreadPlacement, StateMatchesPlace
<1>13. BootAlwaysRunnable'
  BY <1>4 DEF ThreadPlacement, BootAlwaysRunnable
<1> QED BY <1>10, <1>11, <1>12, <1>13 DEF ThreadPlacement

\* ki_wake readies the next thread of its batch.
LEMMA ReadyPlacement ==
  ASSUME TypeOK, ThreadPlacement, NEW c \in Context, ReadyWoken(c)
  PROVE  ThreadPlacement'
<1> DEFINE u == Head(batch[c])
<1>1. batch \in [Context -> Seq(Thread)] /\ batch[c] # <<>> /\ IsInjective(batch[c])
  BY DEF ReadyWoken, TypeOK, ThreadPlacement, NoDuplicates
<1>2. /\ u \in Thread /\ u \in Woken(c)
      /\ Tail(batch[c]) \in Seq(Thread) /\ Range(Tail(batch[c])) = Woken(c) \ {u}
      /\ IsInjective(Tail(batch[c]))
  BY <1>1, TailList DEF Woken
<1>3. batch' = [batch EXCEPT ![c] = Tail(batch[c])] /\ Enqueue(u) /\ UNCHANGED waitVars
  BY DEF ReadyWoken
<1>4. u \in WokenAny
  BY <1>2 DEF WokenAny
<1>5. u \notin Queued \cup Blocked \cup {current} /\ u # Boot /\ state[u] = "WAITING"
  BY <1>2, <1>4 DEF ThreadPlacement, NoSharing, StateMatchesPlace, BootAlwaysRunnable
<1>6. \A d \in Context : IsInjective(batch'[d]) /\ Woken(d)' = Woken(d) \ {u}
  <2>1. ASSUME NEW d \in Context, d # c
        PROVE  IsInjective(batch'[d]) /\ Woken(d)' = Woken(d) \ {u}
    <3>1. u \notin Woken(d)
      BY <1>2, <2>1 DEF ThreadPlacement, NoSharing
    <3> QED BY <1>1, <1>3, <2>1, <3>1 DEF Woken, ThreadPlacement, NoDuplicates
  <2>2. IsInjective(batch'[c]) /\ Woken(c)' = Woken(c) \ {u}
    BY <1>1, <1>2, <1>3 DEF Woken
  <2> QED BY <2>1, <2>2
<1>7. batch' \in [Context -> Seq(Thread)]
  BY <1>1, <1>2, <1>3
<1>8. u \in Worker
  BY <1>2, <1>5 DEF Thread
<1> HIDE DEF u
<1> QED BY <1>3, <1>5, <1>6, <1>7, <1>8, EnqueuePlacement

\* The steps that touch no list and no KTHREAD.state.
LEMMA QuietPlacement ==
  ASSUME ThreadPlacement,
         UNCHANGED <<current, readyQ, state, waitList, waitObject, batch>>
  PROVE  ThreadPlacement'
<1>1. /\ Queued' = Queued /\ Blocked' = Blocked /\ WokenAny' = WokenAny
      /\ \A c \in Context : Woken(c)' = Woken(c)
  BY DEF Queued, Blocked, WokenAny, Woken
<1> QED BY <1>1 DEF ThreadPlacement, NoDuplicates, NoSharing, StateMatchesPlace,
           BootAlwaysRunnable

\* A new thread is in no list when it is readied for the first time.
LEMMA LaunchPlacement ==
  ASSUME TypeOK, ThreadPlacement, NEW t \in Thread, NEW u \in Worker, Launch(t, u)
  PROVE  ThreadPlacement'
<1>1. /\ Enqueue(u) /\ state[u] = "NEW" /\ UNCHANGED waitVars /\ batch' = batch
  BY DEF Launch, callVars
<1>2. u \in Thread /\ u # Boot
  BY ContextsDistinct DEF Thread
<1>3. u \notin Queued \cup Blocked \cup WokenAny \cup {current}
  BY <1>1, <1>2 DEF ThreadPlacement, StateMatchesPlace
<1>4. batch \in [Context -> Seq(Thread)]
  BY DEF TypeOK
<1>5. \A c \in Context : IsInjective(batch'[c]) /\ Woken(c)' = Woken(c) \ {u}
  BY <1>1, <1>3 DEF WokenAny, Woken, ThreadPlacement, NoDuplicates
<1> QED BY <1>1, <1>3, <1>4, <1>5, EnqueuePlacement

\* A worker marks itself TERMINATED while it still has the processor.
LEMMA ExitPlacement ==
  ASSUME TypeOK, ThreadPlacement, NEW t \in Thread, Exit(t)
  PROVE  ThreadPlacement'
<1>1. /\ t = current /\ t # Boot /\ state' = [state EXCEPT ![t] = "TERMINATED"]
      /\ UNCHANGED <<current, readyQ, waitList, waitObject, batch>>
  BY ContextsDistinct DEF Exit, InCode, Executing, Thread, waitVars
<1>2. /\ Queued' = Queued /\ Blocked' = Blocked /\ WokenAny' = WokenAny
      /\ \A c \in Context : Woken(c)' = Woken(c)
  BY <1>1 DEF Queued, Blocked, WokenAny, Woken
<1>3. t \notin Queued \cup Blocked \cup WokenAny /\ state \in [Thread -> ThreadState]
  BY <1>1 DEF TypeOK, ThreadPlacement, NoSharing
<1>4. NoDuplicates' /\ NoSharing'
  BY <1>1, <1>2 DEF ThreadPlacement, NoDuplicates, NoSharing
<1>5. StateMatchesPlace'
  <2>1. Queued \subseteq Thread
    BY RangeOfSeq DEF TypeOK, Queued
  <2>2. \A u \in Queued' : state'[u] = IF u = Boot THEN "RUNNING" ELSE "READY"
    BY <1>1, <1>2, <1>3, <2>1 DEF ThreadPlacement, StateMatchesPlace
  <2>3. \A u \in Thread : state'[u] = "WAITING" <=> u \in Blocked' \cup WokenAny'
    BY <1>1, <1>2, <1>3 DEF ThreadPlacement, StateMatchesPlace
  <2>4. \A u \in Thread : state'[u] \in {"READY", "RUNNING"} => u \in Queued' \cup {current'}
    BY <1>1, <1>2, <1>3 DEF ThreadPlacement, StateMatchesPlace
  <2>5. \A u \in Thread : waitObject'[u] # NONE <=> u \in Blocked'
    BY <1>1, <1>2 DEF ThreadPlacement, StateMatchesPlace
  <2> QED BY <1>1, <1>3, <2>2, <2>3, <2>4, <2>5 DEF StateMatchesPlace
<1>6. BootAlwaysRunnable'
  BY <1>1, <1>2, <1>3 DEF ThreadPlacement, BootAlwaysRunnable, Thread
<1> QED BY <1>4, <1>5, <1>6 DEF ThreadPlacement

\* Every step moves threads between places one at a time and whole.
THEOREM PlacementStep == TypeOK /\ ThreadPlacement /\ [Next]_vars => ThreadPlacement'
<1> SUFFICES ASSUME TypeOK, ThreadPlacement, [Next]_vars PROVE ThreadPlacement'
  OBVIOUS
<1> USE DEF schedVars, waitVars, callVars
<1>1. ASSUME NEW t \in Thread, Call(t) PROVE ThreadPlacement'
  <2>1. ASSUME NEW u \in Worker, Launch(t, u) PROVE ThreadPlacement'
    BY <2>1, LaunchPlacement
  <2>2. CASE Exit(t)
    BY <2>2, ExitPlacement
  <2>3. CASE \/ \E u \in Worker : Join(t, u)
             \/ \E o \in Object :
                  \/ KeWaitForSingleObject(t, o)
                  \/ \E zero \in BOOLEAN : KeWaitWithTimeout(t, o, zero)
                  \/ KeSetEvent(t, o)
                  \/ KeResetEvent(t, o)
                  \/ KeReleaseMutex(t, o)
                  \/ KeReleaseSemaphore(t, o)
             \/ \E objs \in SUBSET (Object \ Mutant), all \in BOOLEAN :
                  KeWaitForMultipleObjects(t, objs, all)
             \/ \E o \in Timer : KeSetTimer(t, o) \/ KeCancelTimer(t, o)
    BY <2>3, QuietPlacement
       DEF Join, KeWaitForSingleObject, KeWaitWithTimeout, KeSetEvent, KeResetEvent,
           KeReleaseMutex, KeReleaseSemaphore, KeWaitForMultipleObjects, KeSetTimer,
           KeCancelTimer
  <2> QED BY <1>1, <2>1, <2>2, <2>3 DEF Call
<1>2. ASSUME NEW c \in Context, WakeStep(c) PROVE ThreadPlacement'
  <2>1. CASE TakeWaiter(c)
    BY <2>1, TakePlacement
  <2>2. CASE ReadyWoken(c)
    BY <2>2, ReadyPlacement
  <2>3. CASE ScanEnds(c) \/ WakeReturns(c)
    BY <2>3, QuietPlacement DEF ScanEnds, WakeReturns
  <2> QED BY <1>2, <2>1, <2>2, <2>3 DEF WakeStep
<1>3. ASSUME NEW t \in Thread, KernelStep(t) PROVE ThreadPlacement'
  <2>1. CASE WaitBlocks(t)
    BY <2>1, BlockPlacement
  <2>2. CASE ExitYield(t) \/ JoinYield(t)
    BY <2>2, YieldPlacement DEF ExitYield, JoinYield, YieldProcessor
  <2>3. CASE WakeStep(t)
    BY <1>2, <2>3 DEF Context
  <2>4. CASE \/ WaitSatisfied(t) \/ WaitAutoResolved(t) \/ AddCount(t)
             \/ SkipWake(t) \/ JoinReturns(t)
    BY <2>4, QuietPlacement DEF WaitSatisfied, WaitAutoResolved, AddCount, SkipWake, JoinReturns
  <2> QED BY <1>3, <2>1, <2>2, <2>3, <2>4 DEF KernelStep
<1>4. ASSUME NEW due \in SUBSET armed, Tick(due) PROVE ThreadPlacement'
  BY <1>4, QuietPlacement DEF Tick
<1>5. CASE IsrStep
  <2>1. ASSUME NEW o \in Timer, ExpireTimer(o) PROVE ThreadPlacement'
    BY <2>1, QuietPlacement DEF ExpireTimer
  <2>2. CASE TimerDone
    BY <2>2, QuietPlacement DEF TimerDone
  <2>3. CASE InterruptReturns
    <3>1. CASE Swap(state)
      BY <2>3, <3>1, YieldPlacement DEF InterruptReturns
    <3>2. CASE ~Swap(state)
      BY <2>3, <3>2, QuietPlacement DEF InterruptReturns, QuantumEnd, YieldProcessor
    <3> QED BY <3>1, <3>2
  <2> QED BY <1>2, <1>5, <2>1, <2>2, <2>3 DEF IsrStep, Context
<1>6. CASE ModeStep
  BY <1>6, QuietPlacement DEF ModeStep, EnablePreemption, DriverWindow
<1>7. CASE UNCHANGED vars
  BY <1>7, QuietPlacement DEF vars
<1> QED BY <1>1, <1>3, <1>4, <1>5, <1>6, <1>7 DEF Next

\* At boot the idle thread runs and every list is empty.
LEMMA PlacementInit == Init => ThreadPlacement
<1> SUFFICES ASSUME Init PROVE ThreadPlacement
  OBVIOUS
<1>1. Queued = {} /\ Blocked = {} /\ WokenAny = {} /\ \A c \in Context : Woken(c) = {}
  BY DEF Init, Queued, Blocked, WokenAny, Woken, Range
<1>2. NoDuplicates
  BY DEF Init, NoDuplicates, IsInjective
<1>3. NoSharing
  BY <1>1 DEF NoSharing
<1>4. StateMatchesPlace /\ BootAlwaysRunnable
  BY <1>1 DEF Init, StateMatchesPlace, BootAlwaysRunnable, Thread
<1> QED BY <1>2, <1>3, <1>4 DEF ThreadPlacement

\* No list of the dispatcher ever holds a thread twice, no thread is in two
\* lists, and none is lost (sched.c:286-486).
THEOREM PlacementCorrect == Spec => []ThreadPlacement
<1>1. TypeOK /\ ThreadPlacement /\ [Next]_vars => ThreadPlacement'
  BY PlacementStep
<1> QED BY <1>1, PlacementInit, TypeCorrect, PTL DEF Spec

-----------------------------------------------------------------------------
(* The dispatcher implements ThreadLifecycle.                                *)

\* A step that keeps the places and ends no thread is a stutter of the life.
LEMMA QuietLife ==
  ASSUME UNCHANGED <<current, Queued, Blocked \cup WokenAny, Finished>>
  PROVE  UNCHANGED Lifecycle!lifecycle
BY DEF Lifecycle!lifecycle

LEMMA StillLife ==
  ASSUME UNCHANGED <<current, readyQ, state, waitList, waitObject, batch>>
  PROVE  UNCHANGED Lifecycle!lifecycle
BY QuietLife DEF Queued, Blocked, WokenAny, Woken, Finished

LEMMA LaunchLife ==
  ASSUME TypeOK, ThreadPlacement, NEW t \in Thread, NEW u \in Worker, Launch(t, u)
  PROVE  Lifecycle!Create(u)
<1>1. /\ Enqueue(u) /\ state[u] = "NEW" /\ UNCHANGED <<waitList, batch>>
      /\ u \in Thread /\ u # Boot /\ readyQ \in Seq(Thread)
      /\ state \in [Thread -> ThreadState]
  BY ContextsDistinct DEF Launch, callVars, waitVars, Thread, TypeOK
<1>2. u \notin Queued \cup Blocked \cup WokenAny \cup {current} \cup Finished
  BY <1>1 DEF ThreadPlacement, StateMatchesPlace, Finished
<1>3. Queued' = Queued \cup {u}
  BY <1>1, AppendList DEF Enqueue, Queued
<1>4. Finished' = Finished /\ Blocked' = Blocked /\ WokenAny' = WokenAny /\ current' = current
  BY <1>1 DEF Enqueue, Finished, Blocked, WokenAny, Woken
<1> QED BY <1>2, <1>3, <1>4 DEF Lifecycle!Create, Lifecycle!Created

LEMMA ExitLife ==
  ASSUME TypeOK, NEW t \in Thread, Exit(t)
  PROVE  Lifecycle!Finish
<1>1. /\ t = current /\ t # Boot /\ state' = [state EXCEPT ![t] = "TERMINATED"]
      /\ UNCHANGED <<current, readyQ, waitList, batch>>
  BY ContextsDistinct DEF Exit, InCode, Executing, Thread, waitVars
<1>2. Finished' = Finished \cup {t}
  BY <1>1 DEF Finished, TypeOK
<1>3. Queued' = Queued /\ Blocked' = Blocked /\ WokenAny' = WokenAny
  BY <1>1 DEF Queued, Blocked, WokenAny, Woken
<1> QED BY <1>1, <1>2, <1>3 DEF Lifecycle!Finish

LEMMA YieldLife ==
  ASSUME TypeOK, ThreadPlacement, Swap(state), UNCHANGED <<waitList, batch>>
  PROVE  Lifecycle!Switch(current') \/ UNCHANGED Lifecycle!lifecycle
<1>1. state \in [Thread -> ThreadState] /\ current \in Thread
  BY DEF TypeOK
<1>2. Blocked' = Blocked /\ WokenAny' = WokenAny
  BY DEF Blocked, WokenAny, Woken
<1>3. CASE /\ current' = current /\ readyQ' = readyQ /\ state' = state
  BY <1>2, <1>3, QuietLife DEF Queued, Finished
<1>4. CASE /\ current' \in Queued /\ current' # current
           /\ IsInjective(readyQ')
           /\ Queued' = (Queued \ {current'})
                          \cup (IF Requeued(state) THEN {current} ELSE {})
           /\ state' = [state EXCEPT
                ![current]  = IF Requeued(state) /\ current # Boot THEN "READY" ELSE @,
                ![current'] = "RUNNING"]
  <2>1. /\ state[current] \in {"RUNNING", "TERMINATED"}
        /\ state[current'] # "TERMINATED" /\ current' \in Thread
    BY <1>4, RangeOfSeq DEF ThreadPlacement, StateMatchesPlace, TypeOK, Queued
  <2>2. Requeued(state) <=> current \notin Finished
    BY <1>1, <2>1 DEF Requeued, Finished
  <2>3. Finished' = Finished
    BY <1>1, <1>4, <2>1 DEF Finished, Requeued
  <2> QED BY <1>2, <1>4, <2>2, <2>3 DEF Lifecycle!Switch
<1> QED BY <1>1, <1>3, <1>4, SwapMoves

\* A thread that is done stays in the loop at the end of its exit.
DoneInExit == \A t \in Thread : state[t] = "TERMINATED" => pc[t] = "exit"

\* Neither a switch nor a readying marks a thread as done.
LEMMA SwapEndsNone ==
  ASSUME NEW st \in [Thread -> ThreadState], Swap(st), NEW t \in Thread,
         state'[t] = "TERMINATED"
  PROVE  st[t] = "TERMINATED"
BY DEF Swap

LEMMA DoneStep == TypeOK /\ DoneInExit /\ [Next]_vars => DoneInExit'
<1> SUFFICES ASSUME TypeOK, DoneInExit, [Next]_vars,
                    NEW t \in Thread, state'[t] = "TERMINATED"
             PROVE  pc'[t] = "exit"
  BY DEF DoneInExit
<1> USE DEF schedVars, waitVars, callVars
<1>0. /\ state \in [Thread -> ThreadState] /\ pc \in [Context -> ThreadPC \cup IsrPC]
      /\ t \in Context /\ t # Isr /\ Isr \in Context /\ Thread \subseteq Context
  BY ContextsDistinct DEF TypeOK, Context, Thread
<1>1. state[t] = "TERMINATED" => pc[t] = "exit"
  BY DEF DoneInExit
<1>2. ASSUME NEW u \in Thread, Call(u) PROVE pc'[t] = "exit"
  <2>1. CASE Exit(u)
    BY <1>0, <1>1, <2>1 DEF Exit, InCode, Goto
  <2>2. CASE \E v \in Worker : Launch(u, v)
    BY <1>0, <1>1, <2>2 DEF Launch, Enqueue
  <2>3. CASE ~Exit(u) /\ ~\E v \in Worker : Launch(u, v)
    <3>1. pc[u] = "run" /\ state' = state /\ \A c \in Context \ {u} : pc'[c] = pc[c]
      BY <1>0, <1>2, <2>3
         DEF Call, Join, KeWaitForSingleObject, KeWaitWithTimeout, KeSetEvent, KeResetEvent,
             KeReleaseMutex, KeReleaseSemaphore, KeWaitForMultipleObjects, KeSetTimer,
             KeCancelTimer, InCode, Goto, Signal
    <3> QED BY <1>0, <1>1, <3>1
  <2> QED BY <2>1, <2>2, <2>3
<1>3. ASSUME NEW c \in Context, WakeStep(c) PROVE pc'[t] = "exit"
  BY <1>0, <1>1, <1>3
     DEF WakeStep, TakeWaiter, ScanEnds, ReadyWoken, WakeReturns, Waking, Return, Goto, Enqueue
<1>4. ASSUME NEW u \in Thread, KernelStep(u) PROVE pc'[t] = "exit"
  <2>1. CASE WaitBlocks(u)
    <3> DEFINE st == [state EXCEPT ![u] = "WAITING"]
    <3>1. Swap(st) /\ pc' = pc /\ st \in [Thread -> ThreadState]
      BY <1>0, <2>1 DEF WaitBlocks, YieldProcessor, ThreadState
    <3>2. st[t] = "TERMINATED"
      <4> HIDE DEF st
      <4> QED BY <3>1, SwapEndsNone
    <3> QED BY <1>0, <1>1, <3>1, <3>2
  <2>2. CASE ExitYield(u) \/ JoinYield(u)
    BY <1>0, <1>1, <2>2, SwapEndsNone DEF ExitYield, JoinYield, YieldProcessor
  <2>3. CASE WakeStep(u)
    BY <1>0, <1>3, <2>3
  <2>4. CASE \/ WaitSatisfied(u) \/ WaitAutoResolved(u) \/ AddCount(u)
             \/ SkipWake(u) \/ JoinReturns(u)
    BY <1>0, <1>1, <2>4
       DEF WaitSatisfied, WaitAutoResolved, AddCount, SkipWake, JoinReturns, Waiting,
           Return, Signal, Goto
  <2> QED BY <1>4, <2>1, <2>2, <2>3, <2>4 DEF KernelStep
<1>5. ASSUME NEW due \in SUBSET armed, Tick(due) PROVE pc'[t] = "exit"
  BY <1>0, <1>1, <1>5 DEF Tick, Goto
<1>6. CASE IsrStep
  <2>1. CASE InterruptReturns
    BY <1>0, <1>1, <2>1, SwapEndsNone DEF InterruptReturns, QuantumEnd, YieldProcessor, Goto
  <2>2. CASE TimerDone \/ \E o \in Timer : ExpireTimer(o)
    BY <1>0, <1>1, <2>2 DEF TimerDone, ExpireTimer, Signal, Goto
  <2> QED BY <1>0, <1>3, <1>6, <2>1, <2>2 DEF IsrStep
<1>7. CASE ModeStep \/ UNCHANGED vars
  BY <1>1, <1>7 DEF ModeStep, EnablePreemption, DriverWindow, vars
<1> QED BY <1>2, <1>4, <1>5, <1>6, <1>7 DEF Next

LEMMA DoneCorrect == Spec => []DoneInExit
<1>1. Init => DoneInExit
  BY DEF Init, DoneInExit
<1> QED BY <1>1, DoneStep, TypeCorrect, PTL DEF Spec

LEMMA BlockLife ==
  ASSUME TypeOK, ThreadPlacement, DoneInExit, NEW t \in Thread, WaitBlocks(t)
  PROVE  current' \in Thread /\ Lifecycle!Block(current')
<1> DEFINE st == [state EXCEPT ![t] = "WAITING"]
<1>1. /\ t = current /\ t # Boot /\ pc[t] = "wait" /\ waitList' = Append(waitList, t)
      /\ batch' = batch /\ Swap(st)
  BY ContextsDistinct
     DEF WaitBlocks, Waiting, Executing, CanBlock, YieldProcessor, callVars, Thread
<1>2. /\ st \in [Thread -> ThreadState] /\ ~Requeued(st) /\ waitList \in Seq(Thread)
      /\ state \in [Thread -> ThreadState]
  BY <1>1 DEF TypeOK, ThreadState, Requeued
<1>3. /\ current' \in Queued /\ current' # current
      /\ Queued' = Queued \ {current'}
      /\ state' = [st EXCEPT ![current'] = "RUNNING"]
  <2> HIDE DEF st
  <2> QED BY <1>1, <1>2, SwapMoves
<1>4. state[t] # "TERMINATED"
  BY <1>1 DEF DoneInExit
<1>5. state[current'] # "TERMINATED" /\ current' \in Thread
  BY <1>3, RangeOfSeq DEF ThreadPlacement, StateMatchesPlace, TypeOK, Queued
<1>6. Finished' = Finished /\ t \notin Finished
  BY <1>1, <1>2, <1>3, <1>4, <1>5 DEF Finished
<1>7. Blocked' = Blocked \cup {t} /\ WokenAny' = WokenAny
  BY <1>1, <1>2, AppendList DEF Blocked, WokenAny, Woken
<1> HIDE DEF st
<1> QED BY <1>1, <1>3, <1>5, <1>6, <1>7 DEF Lifecycle!Block

LEMMA TakeLife ==
  ASSUME TypeOK, ThreadPlacement, NEW c \in Context, TakeWaiter(c)
  PROVE  UNCHANGED Lifecycle!lifecycle
<1>1. PICK i \in WaitersOf(target[c]) :
        /\ waitList' = RemoveAt(waitList, i)
        /\ batch' = [batch EXCEPT ![c] = Append(@, waitList[i])]
  BY DEF TakeWaiter
<1> DEFINE u == waitList[i]
<1>2. /\ i \in DOMAIN waitList /\ waitList \in Seq(Thread) /\ IsInjective(waitList)
      /\ batch \in [Context -> Seq(Thread)]
  BY <1>1 DEF WaitersOf, TypeOK, ThreadPlacement, NoDuplicates
<1>3. u \in Thread /\ u \in Blocked /\ Blocked' = Blocked \ {u}
  BY <1>1, <1>2, RemoveAtList DEF Blocked
<1>4. Range(Append(batch[c], u)) = Woken(c) \cup {u}
  <2> HIDE DEF u
  <2> QED BY <1>2, <1>3, AppendList DEF Woken
<1>5. /\ Woken(c)' = Woken(c) \cup {u}
      /\ \A d \in Context \ {c} : Woken(d)' = Woken(d)
  BY <1>1, <1>2, <1>4 DEF Woken
<1>6. WokenAny' = WokenAny \cup {u}
  BY <1>5 DEF WokenAny
<1>7. UNCHANGED <<current, Queued, Finished>>
  BY DEF TakeWaiter, schedVars, Queued, Finished
<1> HIDE DEF u
<1> QED BY <1>3, <1>6, <1>7, QuietLife

LEMMA ReadyLife ==
  ASSUME TypeOK, ThreadPlacement, NEW c \in Context, ReadyWoken(c)
  PROVE  \E u \in Thread : Lifecycle!Wake(u)
<1> DEFINE u == Head(batch[c])
<1>1. /\ batch \in [Context -> Seq(Thread)] /\ batch[c] # <<>> /\ IsInjective(batch[c])
      /\ state \in [Thread -> ThreadState] /\ readyQ \in Seq(Thread)
  BY DEF ReadyWoken, TypeOK, ThreadPlacement, NoDuplicates
<1>2. /\ u \in Thread /\ u \in Woken(c)
      /\ Tail(batch[c]) \in Seq(Thread) /\ Range(Tail(batch[c])) = Woken(c) \ {u}
  BY <1>1, TailList DEF Woken
<1>3. /\ batch' = [batch EXCEPT ![c] = Tail(batch[c])] /\ Enqueue(u)
      /\ UNCHANGED <<waitList, current>>
  BY DEF ReadyWoken, waitVars, Enqueue
<1>4. /\ u \in WokenAny /\ u \notin Blocked /\ state[u] = "WAITING"
      /\ \A d \in Context \ {c} : u \notin Woken(d)
  <2>1. u \in WokenAny
    BY <1>2 DEF WokenAny
  <2> QED BY <1>2, <2>1 DEF ThreadPlacement, NoSharing, StateMatchesPlace
<1>5. WokenAny' = WokenAny \ {u}
  <2>1. Woken(c)' = Woken(c) \ {u} /\ \A d \in Context \ {c} : Woken(d)' = Woken(d)
    BY <1>1, <1>2, <1>3 DEF Woken
  <2> QED BY <1>4, <2>1 DEF WokenAny
<1> HIDE DEF u
<1>6. Queued' = Queued \cup {u}
  BY <1>1, <1>2, <1>3, AppendList DEF Enqueue, Queued
<1>7. Finished' = Finished /\ Blocked' = Blocked
  BY <1>1, <1>3, <1>4 DEF Enqueue, Finished, Blocked
<1> QED BY <1>2, <1>3, <1>4, <1>5, <1>6, <1>7 DEF Lifecycle!Wake

\* Every step of the dispatcher is one step of the life of a thread, or none.
THEOREM LifecycleStep ==
  TypeOK /\ ThreadPlacement /\ DoneInExit /\ [Next]_vars
    => [Lifecycle!Next]_(Lifecycle!lifecycle)
<1> SUFFICES ASSUME TypeOK, ThreadPlacement, DoneInExit, [Next]_vars
             PROVE  Lifecycle!Next \/ UNCHANGED Lifecycle!lifecycle
  OBVIOUS
<1> USE DEF schedVars, waitVars, callVars, Lifecycle!Next
<1>0. Worker \subseteq Thread /\ Thread \subseteq Context /\ Isr \in Context
  BY DEF Thread, Context
<1>1. ASSUME NEW t \in Thread, Call(t)
      PROVE  Lifecycle!Next \/ UNCHANGED Lifecycle!lifecycle
  <2>1. ASSUME NEW u \in Worker, Launch(t, u) PROVE Lifecycle!Next
    BY <1>0, <2>1, LaunchLife
  <2>2. CASE Exit(t)
    BY <2>2, ExitLife
  <2>3. CASE ~Exit(t) /\ ~\E u \in Worker : Launch(t, u)
    BY <1>1, <2>3, StillLife
       DEF Call, Join, KeWaitForSingleObject, KeWaitWithTimeout, KeSetEvent, KeResetEvent,
           KeReleaseMutex, KeReleaseSemaphore, KeWaitForMultipleObjects, KeSetTimer,
           KeCancelTimer
  <2> QED BY <2>1, <2>2, <2>3
<1>2. ASSUME NEW c \in Context, WakeStep(c)
      PROVE  Lifecycle!Next \/ UNCHANGED Lifecycle!lifecycle
  <2>1. CASE ScanEnds(c) \/ WakeReturns(c)
    BY <2>1, StillLife DEF ScanEnds, WakeReturns
  <2> QED BY <1>2, <2>1, TakeLife, ReadyLife DEF WakeStep
<1>3. ASSUME Swap(state), UNCHANGED <<waitList, batch>>
      PROVE  Lifecycle!Next \/ UNCHANGED Lifecycle!lifecycle
  <2>1. current' \in Thread
    BY <1>3, SwapTypes DEF TypeOK
  <2> QED BY <1>3, <2>1, YieldLife
<1>4. ASSUME NEW t \in Thread, KernelStep(t)
      PROVE  Lifecycle!Next \/ UNCHANGED Lifecycle!lifecycle
  <2>1. CASE WaitBlocks(t)
    BY <2>1, BlockLife
  <2>2. CASE ExitYield(t) \/ JoinYield(t)
    BY <1>3, <2>2 DEF ExitYield, JoinYield, YieldProcessor
  <2>3. CASE \/ WaitSatisfied(t) \/ WaitAutoResolved(t) \/ AddCount(t)
             \/ SkipWake(t) \/ JoinReturns(t)
    BY <2>3, StillLife DEF WaitSatisfied, WaitAutoResolved, AddCount, SkipWake, JoinReturns
  <2> QED BY <1>0, <1>2, <1>4, <2>1, <2>2, <2>3 DEF KernelStep
<1>5. CASE IsrStep
  <2>1. CASE InterruptReturns /\ Swap(state)
    BY <1>3, <2>1 DEF InterruptReturns
  <2>2. CASE InterruptReturns /\ ~Swap(state)
    BY <2>2, StillLife DEF InterruptReturns, QuantumEnd, YieldProcessor
  <2>3. CASE TimerDone \/ \E o \in Timer : ExpireTimer(o)
    BY <2>3, StillLife DEF TimerDone, ExpireTimer
  <2> QED BY <1>0, <1>2, <1>5, <2>1, <2>2, <2>3 DEF IsrStep
<1>6. CASE (\E due \in SUBSET armed : Tick(due)) \/ ModeStep \/ UNCHANGED vars
  BY <1>6, StillLife DEF Tick, ModeStep, EnablePreemption, DriverWindow, vars
<1> QED BY <1>1, <1>4, <1>5, <1>6 DEF Next

\* The dispatcher implements the abstract life of threads.
THEOREM LifecycleImplemented == Spec => ImplementsLifecycle
<1>1. Init => Lifecycle!Init
  BY DEF Init, Lifecycle!Init, Queued, Blocked, WokenAny, Woken, Finished, Range, Thread
<1>2. TypeOK /\ ThreadPlacement /\ DoneInExit /\ [Next]_vars
        => [Lifecycle!Next]_(Lifecycle!lifecycle)
  BY LifecycleStep
<1> QED BY <1>1, <1>2, TypeCorrect, PlacementCorrect, DoneCorrect, PTL
        DEF Spec, ImplementsLifecycle, Lifecycle!Spec

-----------------------------------------------------------------------------
(* Mutual exclusion.  A wait that resolves itself breaks it, so it holds only *)
(* of threads that may block: no finite timeouts, no legacy window, no wait   *)
(* by the boot thread, and no switch before preemption is on.                 *)

OnlyBlockingWaits == ~Finite /\ ~Drivers /\ ~EarlyExe /\ Client \subseteq Worker

\* Until preemption is on only the boot thread runs, and it does not wait.
BootFirst ==
  /\ ~legacy
  /\ ~p4 => current = Boot
  /\ \A t \in Thread : pc[t] \in {"join", "exit"} => p4
  /\ \A t \in Thread : pc[t] = "wait" => t \in Client
  /\ \A t \in Thread : pc[t] = "add" => target[t] \in Semaphore

MutexInv == MutexExclusion /\ BootFirst

LEMMA BootFirstStep ==
  ASSUME OnlyBlockingWaits, TypeOK, BootFirst, [Next]_vars
  PROVE  BootFirst'
<1> USE DEF schedVars, waitVars, callVars, timerVars, modeVars, BootFirst
<1>0. /\ pc \in [Context -> ThreadPC \cup IsrPC]
      /\ target \in [Context -> Object \cup Worker \cup {NONE}]
      /\ Thread \subseteq Context /\ Isr \in Context /\ Isr \notin Thread
      /\ Worker \subseteq Thread /\ Boot \notin Worker
  BY ContextsDistinct DEF TypeOK, Context, Thread
<1>1. ASSUME NEW t \in Thread, Call(t) PROVE BootFirst'
  <2>1. CASE Exit(t)
    BY <1>0, <2>1 DEF Exit, InCode, Executing, Goto
  <2>2. CASE \E u \in Worker : Launch(t, u)
    BY <2>2 DEF Launch, Enqueue
  <2>3. CASE \E u \in Worker : Join(t, u)
    BY <1>0, <2>3 DEF Join, Goto, OnlyBlockingWaits
  <2>4. CASE \E o \in Object : KeWaitForSingleObject(t, o)
    BY <1>0, <2>4 DEF KeWaitForSingleObject, Goto
  <2>5. CASE \E o \in Object : KeReleaseSemaphore(t, o)
    BY <1>0, <2>5 DEF KeReleaseSemaphore, Goto
  <2>6. CASE \E o \in Object : KeSetEvent(t, o) \/ KeReleaseMutex(t, o)
    BY <1>0, <2>6 DEF KeSetEvent, KeReleaseMutex, Signal, Goto
  <2>7. CASE \/ \E o \in Object :
                  \/ \E zero \in BOOLEAN : KeWaitWithTimeout(t, o, zero)
                  \/ KeResetEvent(t, o)
             \/ \E objs \in SUBSET (Object \ Mutant), all \in BOOLEAN :
                  KeWaitForMultipleObjects(t, objs, all)
             \/ \E o \in Timer : KeSetTimer(t, o) \/ KeCancelTimer(t, o)
    BY <2>7 DEF KeWaitWithTimeout, KeResetEvent, KeWaitForMultipleObjects, KeSetTimer,
                KeCancelTimer
  <2> QED BY <1>1, <2>1, <2>2, <2>3, <2>4, <2>5, <2>6, <2>7 DEF Call
<1>2. ASSUME NEW c \in Context, WakeStep(c) PROVE BootFirst'
  BY <1>0, <1>2 DEF WakeStep, TakeWaiter, ScanEnds, ReadyWoken, WakeReturns, Return, Goto, Enqueue
<1>3. ASSUME NEW t \in Thread, KernelStep(t) PROVE BootFirst'
  <2>1. CASE WaitBlocks(t)
    BY <2>1 DEF WaitBlocks, CanBlock
  <2>2. CASE ExitYield(t) \/ JoinYield(t)
    BY <2>2 DEF ExitYield, JoinYield
  <2>3. CASE \/ WaitSatisfied(t) \/ WaitAutoResolved(t) \/ AddCount(t)
             \/ SkipWake(t) \/ JoinReturns(t)
    BY <1>0, <2>3
       DEF WaitSatisfied, WaitAutoResolved, AddCount, SkipWake, JoinReturns, Return, Signal, Goto
  <2> QED BY <1>0, <1>2, <1>3, <2>1, <2>2, <2>3 DEF KernelStep
<1>4. CASE IsrStep
  <2>1. CASE InterruptReturns
    BY <1>0, <2>1 DEF InterruptReturns, Goto
  <2>2. CASE TimerDone \/ \E o \in Timer : ExpireTimer(o)
    BY <1>0, <2>2 DEF TimerDone, ExpireTimer, Signal, Goto
  <2> QED BY <1>0, <1>2, <1>4, <2>1, <2>2 DEF IsrStep
<1>5. CASE \E due \in SUBSET armed : Tick(due)
  BY <1>0, <1>5 DEF Tick, Goto
<1>6. CASE ModeStep \/ UNCHANGED vars
  BY <1>6 DEF ModeStep, EnablePreemption, DriverWindow, OnlyBlockingWaits, vars
<1> QED BY <1>1, <1>3, <1>4, <1>5, <1>6 DEF Next

\* The signal of a mutant goes down exactly when it is claimed, and up exactly
\* when its one claimant gives it back.
LEMMA MutexStep ==
  ASSUME OnlyBlockingWaits, TypeOK, MutexInv, [Next]_vars
  PROVE  MutexExclusion'
<1> USE DEF schedVars, waitVars, callVars, timerVars, modeVars
<1>0. /\ claims \in [Thread -> SUBSET Mutant] /\ signal \in [Object -> Nat]
      /\ Mutant \subseteq Object /\ Boot \notin Worker
      /\ \A o \in Mutant : o \notin Event \cup Semaphore \cup Timer
  BY ContextsDistinct DEF TypeOK, Mutant, Event, Semaphore, Timer, OfType
<1>1. /\ \A o \in Mutant, t, u \in Thread : o \in claims[t] /\ o \in claims[u] => t = u
      /\ \A o \in Mutant, t \in Thread : o \in claims[t] => signal[o] = 0
  BY DEF MutexInv, MutexExclusion
<1>2. ASSUME claims' = claims, \A o \in Mutant : signal'[o] = signal[o]
      PROVE  MutexExclusion'
  BY <1>1, <1>2 DEF MutexExclusion
<1>3. ASSUME NEW t \in Thread, NEW o \in Object, signal[o] > 0,
             signal' = [signal EXCEPT ![o] = Consumed(o)], Claim(t, o)
      PROVE  MutexExclusion'
  <2>1. CASE o \in Mutant
    <3>1. Consumed(o) = 0
      BY <2>1 DEF Consumed, Mutant, OfType
    <3>2. \A u \in Thread : o \notin claims[u]
      BY <1>0, <1>1, <1>3, <2>1
    <3>3. claims' = [claims EXCEPT ![t] = @ \cup {o}]
      BY <1>3, <2>1 DEF Claim
    <3> QED BY <1>0, <1>1, <1>3, <3>1, <3>2, <3>3 DEF MutexExclusion
  <2>2. CASE o \notin Mutant
    BY <1>0, <1>2, <1>3, <2>2 DEF Claim
  <2> QED BY <2>1, <2>2
<1>4. ASSUME NEW t \in Thread, Call(t) PROVE MutexExclusion'
  <2>1. ASSUME NEW o \in Object, NEW zero \in BOOLEAN, KeWaitWithTimeout(t, o, zero)
        PROVE  MutexExclusion'
    <3>1. CASE signal[o] > 0
      BY <1>3, <2>1, <3>1 DEF KeWaitWithTimeout
    <3>2. CASE ~(signal[o] > 0)
      BY <1>2, <2>1, <3>2 DEF KeWaitWithTimeout, OnlyBlockingWaits
    <3> QED BY <3>1, <3>2
  <2>2. ASSUME NEW o \in Object, KeReleaseMutex(t, o) PROVE MutexExclusion'
    BY <1>0, <1>1, <2>2 DEF KeReleaseMutex, Signal, MutexExclusion
  <2>3. ASSUME NEW objs \in SUBSET (Object \ Mutant), NEW all \in BOOLEAN,
               KeWaitForMultipleObjects(t, objs, all)
        PROVE  MutexExclusion'
    BY <1>0, <1>2, <2>3 DEF KeWaitForMultipleObjects
  <2>4. CASE \/ \E u \in Worker : Launch(t, u) \/ Join(t, u)
             \/ Exit(t)
             \/ \E o \in Object :
                  KeWaitForSingleObject(t, o) \/ KeReleaseSemaphore(t, o)
    BY <1>2, <2>4 DEF Launch, Join, Exit, KeWaitForSingleObject, KeReleaseSemaphore
  <2>5. CASE \/ \E o \in Object : KeSetEvent(t, o) \/ KeResetEvent(t, o)
             \/ \E o \in Timer : KeSetTimer(t, o) \/ KeCancelTimer(t, o)
    BY <1>0, <1>2, <2>5 DEF KeSetEvent, KeResetEvent, Signal, KeSetTimer, KeCancelTimer
  <2> QED BY <1>4, <2>1, <2>2, <2>3, <2>4, <2>5 DEF Call
<1>5. ASSUME NEW c \in Context, WakeStep(c) PROVE MutexExclusion'
  BY <1>2, <1>5 DEF WakeStep, TakeWaiter, ScanEnds, ReadyWoken, WakeReturns
<1>6. ASSUME NEW t \in Thread, KernelStep(t) PROVE MutexExclusion'
  <2>1. CASE WaitSatisfied(t)
    <3>1. target[t] \in Object
      BY <2>1 DEF WaitSatisfied, Waiting, TypeOK, Context, ObjectPC
    <3> QED BY <1>3, <2>1, <3>1 DEF WaitSatisfied
  <2>2. ~WaitAutoResolved(t)
    BY <1>0, ContextsDistinct
       DEF WaitAutoResolved, Waiting, Executing, CanBlock, MutexInv, BootFirst,
           OnlyBlockingWaits, Thread
  <2>3. CASE AddCount(t)
    BY <1>0, <1>2, <2>3 DEF AddCount, Signal, MutexInv, BootFirst
  <2>4. CASE \/ WaitBlocks(t) \/ SkipWake(t) \/ ExitYield(t) \/ JoinYield(t) \/ JoinReturns(t)
    BY <1>2, <2>4 DEF WaitBlocks, SkipWake, ExitYield, JoinYield, JoinReturns
  <2> QED BY <1>5, <1>6, <2>1, <2>2, <2>3, <2>4 DEF KernelStep, Context
<1>7. CASE IsrStep
  <2>1. CASE TimerDone
    <3>1. \A o \in Mutant : o \notin Periodic
      BY <1>0, ParametersOK
    <3> QED BY <1>0, <1>2, <2>1, <3>1 DEF TimerDone
  <2>2. CASE InterruptReturns \/ \E o \in Timer : ExpireTimer(o)
    BY <1>0, <1>2, <2>2 DEF InterruptReturns, ExpireTimer, Signal
  <2> QED BY <1>5, <1>7, <2>1, <2>2 DEF IsrStep, Context
<1>8. CASE (\E due \in SUBSET armed : Tick(due)) \/ ModeStep \/ UNCHANGED vars
  BY <1>2, <1>8 DEF Tick, ModeStep, EnablePreemption, DriverWindow, vars
<1> QED BY <1>4, <1>6, <1>7, <1>8 DEF Next

\* At most one thread is ever told that it acquired a mutant it has not given
\* back, whatever the number of threads, if every wait for it may block.
THEOREM MutexCorrect == OnlyBlockingWaits => (Spec => []MutexExclusion)
<1> SUFFICES ASSUME OnlyBlockingWaits PROVE Spec => []MutexExclusion
  OBVIOUS
<1>1. Init => MutexInv
  BY DEF Init, MutexInv, MutexExclusion, BootFirst, Context, Thread
<1>2. TypeOK /\ MutexInv /\ [Next]_vars => MutexInv'
  BY BootFirstStep, MutexStep DEF MutexInv
<1>3. MutexInv => MutexExclusion
  BY DEF MutexInv
<1> QED BY <1>1, <1>2, <1>3, TypeCorrect, PTL DEF Spec

-----------------------------------------------------------------------------
(* Wakeups.  ki_wake has room for a limited number of threads, and a thread  *)
(* that signals in a legacy window wakes nobody, so no wakeup is lost only    *)
(* while the batch has room for every worker and no driver is loaded.         *)

EveryWaiterFits == ~Drivers /\ Cardinality(Worker) <= WakeBatch

\* Whoever is off the processor in a wait stands at its recheck, and a batch is
\* only held by the ki_wake that is about the object its threads wait for.
WaitersAtRecheck ==
  /\ ~legacy
  /\ \A t \in Blocked : pc[t] = "wait" /\ target[t] = waitObject[t]
  /\ \A c \in Context : batch[c] # <<>> => pc[c] \in {"scan", "ready"}
  /\ \A c \in Context : \A t \in Woken(c) : pc[t] = "wait" /\ target[t] = target[c]

Waker(c, o) == pc[c] \in {"signalled", "scan"} /\ target[c] = o

\* A signal that releases every waiter has its waker at work as long as one is
\* blocked; of one that releases a single thread, that thread may be on its way.
SignalHeard ==
  \A t \in Blocked : signal[waitObject[t]] > 0 =>
    \/ \E c \in Context : Waker(c, waitObject[t])
    \/ ~WakesAll(waitObject[t]) /\ \E u \in Thread \ Blocked : WaitsFor(u, waitObject[t])

WakeInv == WaitersAtRecheck /\ SignalHeard

\* A step of a context that is not inside ki_wake: it signals only with a wake to
\* follow, and leaves a wait only when the signal is used up or releases everyone.
OutsideStep(c) ==
  /\ c = Isr \/ c = current
  /\ pc[c] \notin {"signalled", "scan"} /\ batch[c] = <<>>
  /\ \A d \in Context \ {c} : pc'[d] = pc[d] /\ target'[d] = target[d]
  /\ UNCHANGED <<waitList, waitObject, batch>> /\ ~legacy'
  /\ \/ c = Isr \/ pc[c] # "wait"
     \/ pc'[c] = pc[c] /\ target'[c] = target[c]
     \/ signal'[target[c]] = 0 \/ WakesAll(target[c])
  /\ \A o \in Object : signal'[o] > 0 =>
       \/ signal[o] > 0
       \/ pc'[c] = "signalled" /\ target'[c] = o

LEMMA OutsideWake ==
  ASSUME TypeOK, ThreadPlacement, WakeInv, NEW c \in Context, OutsideStep(c)
  PROVE  WakeInv'
<1> USE DEF OutsideStep
<1>1. /\ Blocked' = Blocked /\ Blocked \subseteq Thread
      /\ \A d \in Context : Woken(d)' = Woken(d) /\ Woken(d) \subseteq Thread /\ Woken(d) \subseteq WokenAny
      /\ waitObject \in [Thread -> Object \cup {NONE}] /\ Isr \notin Thread /\ Thread \subseteq Context
  BY RangeOfSeq, ContextsDistinct DEF TypeOK, Blocked, Woken, WokenAny, Context, Thread
<1>2. /\ c \notin Blocked \cup WokenAny
      /\ \A t \in Blocked : waitObject[t] \in Object
  <2>1. WokenAny \subseteq Thread
    BY <1>1 DEF WokenAny
  <2> QED BY <1>1, <2>1 DEF ThreadPlacement, NoSharing, StateMatchesPlace
<1>3. WaitersAtRecheck'
  <2>1. \A t \in Blocked : pc'[t] = "wait" /\ target'[t] = waitObject[t]
    BY <1>1, <1>2 DEF WakeInv, WaitersAtRecheck
  <2>2. \A d \in Context : batch[d] # <<>> => pc'[d] \in {"scan", "ready"}
    BY DEF WakeInv, WaitersAtRecheck
  <2>3. \A d \in Context : \A t \in Woken(d) : pc'[t] = "wait" /\ target'[t] = target'[d]
    <3>1. Woken(c) = {}
      BY DEF Woken, Range
    <3>2. ASSUME NEW d \in Context, NEW t \in Woken(d) PROVE pc'[t] = "wait" /\ target'[t] = target'[d]
      <4>1. t # c /\ d # c /\ t \in Context
        BY <1>1, <1>2, <3>1
      <4>2. pc[t] = "wait" /\ target[t] = target[d]
        BY DEF WakeInv, WaitersAtRecheck
      <4> QED BY <4>1, <4>2
    <3> QED BY <3>2
  <2> QED BY <1>1, <2>1, <2>2, <2>3 DEF WaitersAtRecheck
<1>4. SignalHeard'
  <2> SUFFICES ASSUME NEW t \in Blocked, signal'[waitObject[t]] > 0
               PROVE  \/ \E d \in Context : Waker(d, waitObject[t])'
                      \/ /\ ~WakesAll(waitObject[t])
                         /\ \E u \in Thread \ Blocked : WaitsFor(u, waitObject[t])'
    BY <1>1 DEF SignalHeard, Waker, WaitsFor, WakesAll
  <2> DEFINE o == waitObject[t]
  <2>1. o \in Object
    BY <1>2
  <2>2. CASE pc'[c] = "signalled" /\ target'[c] = o
    BY <2>2 DEF Waker
  <2>3. CASE signal[o] > 0
    <3>1. CASE \E d \in Context : Waker(d, o)
      BY <3>1 DEF Waker
    <3>2. ASSUME ~WakesAll(o), NEW u \in Thread \ Blocked, WaitsFor(u, o)
          PROVE  WaitsFor(u, o)'
      <4>1. CASE u # c
        BY <1>1, <3>2, <4>1 DEF WaitsFor
      <4>2. CASE u = c
        BY <1>1, <3>2, <4>2 DEF WaitsFor
      <4> QED BY <4>1, <4>2
    <3> QED BY <2>3, <3>1, <3>2 DEF WakeInv, SignalHeard
  <2> QED BY <2>1, <2>2, <2>3
<1> QED BY <1>3, <1>4 DEF WakeInv

\* The list the waker walks is walked to its end: its batch has room for every
\* worker but the one that is still on the list.
LEMMA BatchHasRoom ==
  ASSUME EveryWaiterFits, TypeOK, ThreadPlacement, NEW c \in Context, NEW t \in Blocked
  PROVE  Len(batch[c]) < WakeBatch
<1>1. /\ batch[c] \in Seq(Thread) /\ IsInjective(batch[c])
      /\ Len(batch[c]) \in Nat /\ DOMAIN batch[c] = 1 .. Len(batch[c])
  BY LenProperties DEF TypeOK, ThreadPlacement, NoDuplicates
<1>2. Woken(c) \subseteq Thread /\ Blocked \subseteq Thread /\ Woken(c) \subseteq WokenAny
  BY <1>1, RangeOfSeq DEF TypeOK, Woken, WokenAny, Blocked
<1>3. Boot \notin Woken(c) \cup Blocked
  BY <1>2 DEF ThreadPlacement, StateMatchesPlace, BootAlwaysRunnable, Thread
<1>4. Woken(c) \subseteq Worker \ {t} /\ t \in Worker
  BY <1>2, <1>3 DEF ThreadPlacement, NoSharing, Thread
<1>5. batch[c] \in [1 .. Len(batch[c]) -> Worker \ {t}]
  <2>1. \A i \in 1 .. Len(batch[c]) : batch[c][i] \in Woken(c)
    BY <1>1 DEF Woken, Range
  <2>2. batch[c] \in [1 .. Len(batch[c]) -> Thread]
    BY <1>1, LenProperties
  <2> QED BY <1>4, <2>1, <2>2
<1>6. batch[c] \in Injection(1 .. Len(batch[c]), Worker \ {t})
  BY <1>1, <1>5 DEF Injection
<1>7. /\ IsFiniteSet(Worker \ {t}) /\ Cardinality(Worker \ {t}) = Cardinality(Worker) - 1
      /\ Cardinality(Worker) \in Nat
  BY <1>4, ParametersOK, FS_RemoveElement, FS_CardinalityType
<1>8. Cardinality(1 .. Len(batch[c])) <= Cardinality(Worker \ {t})
  BY <1>6, <1>7, FS_Injection
<1>9. Cardinality(1 .. Len(batch[c])) = Len(batch[c])
  BY <1>1, FS_Interval
<1>10. WakeBatch \in Nat
  BY ParametersOK
<1> QED BY <1>1, <1>7, <1>8, <1>9, <1>10 DEF EveryWaiterFits

\* The end of the walk: nobody is left, or the one thread a signal releases is in the batch.
LEMMA ScanEndsHeard ==
  ASSUME EveryWaiterFits, TypeOK, ThreadPlacement, WakeInv, NEW c \in Context, ScanEnds(c)
  PROVE  WakeInv'
<1>1. /\ Blocked' = Blocked /\ Blocked \subseteq Thread /\ Thread \subseteq Context
      /\ \A d \in Context : Woken(d)' = Woken(d)
      /\ UNCHANGED <<waitList, waitObject, signal, batch, legacy, target>>
      /\ pc[c] \in {"signalled", "scan"} /\ pc' = [pc EXCEPT ![c] = "ready"]
      /\ pc \in [Context -> ThreadPC \cup IsrPC]
  BY RangeOfSeq DEF TypeOK, ScanEnds, Goto, Waking, waitVars, modeVars, Blocked, Woken, Context
<1>2. WaitersAtRecheck'
  BY <1>1 DEF WakeInv, WaitersAtRecheck, WokenAny, Woken
<1>3. ASSUME NEW t \in Blocked, signal[waitObject[t]] > 0
      PROVE  \/ \E d \in Context : Waker(d, waitObject[t])'
             \/ /\ ~WakesAll(waitObject[t])
                /\ \E u \in Thread \ Blocked : WaitsFor(u, waitObject[t])'
  <2>1. CASE target[c] # waitObject[t]
    BY <1>1, <1>3, <2>1 DEF WakeInv, SignalHeard, Waker, WaitsFor
  <2>2. CASE target[c] = waitObject[t]
    <3>1. PICK i \in DOMAIN waitList : t = waitList[i]
      BY DEF Blocked, Range
    <3>2. Len(batch[c]) >= WakeLimit(target[c])
      BY <2>2, <3>1 DEF ScanEnds, WaitersOf
    <3>3. ~WakesAll(target[c]) /\ Len(batch[c]) >= 1
      <4>1. Len(batch[c]) < WakeBatch /\ Len(batch[c]) \in Nat /\ WakeBatch \in Nat
        BY BatchHasRoom, ParametersOK, LenProperties DEF TypeOK
      <4> QED BY <3>2, <4>1 DEF WakeLimit
    <3>4. PICK u \in Woken(c) : u = batch[c][1]
      <4>1. batch[c] \in Seq(Thread)
        BY DEF TypeOK
      <4> QED BY <3>3, <4>1, LenProperties DEF Woken, Range
    <3>5. u \in Thread \ Blocked /\ pc[u] = "wait" /\ target[u] = target[c]
      <4>1. u \in WokenAny /\ u \in Thread
        BY <1>1, <3>4, RangeOfSeq DEF WokenAny, Woken, TypeOK
      <4> QED BY <4>1, <3>4 DEF WakeInv, WaitersAtRecheck, ThreadPlacement, NoSharing
    <3>6. u # c
      BY <1>1, <3>5
    <3>7. WaitsFor(u, waitObject[t])'
      BY <1>1, <2>2, <3>5, <3>6 DEF WaitsFor
    <3> QED BY <2>2, <3>3, <3>5, <3>7
  <2> QED BY <2>1, <2>2
<1>4. SignalHeard'
  BY <1>1, <1>3 DEF SignalHeard, Waker, WaitsFor, WakesAll
<1> QED BY <1>2, <1>4 DEF WakeInv

\* ki_wake takes a waiter: the walk goes on for the others.
LEMMA TakeHeard ==
  ASSUME TypeOK, ThreadPlacement, WakeInv, NEW c \in Context, TakeWaiter(c)
  PROVE  WakeInv'
<1>1. PICK i \in WaitersOf(target[c]) :
        /\ waitList' = RemoveAt(waitList, i)
        /\ waitObject' = [waitObject EXCEPT ![waitList[i]] = NONE]
        /\ batch' = [batch EXCEPT ![c] = Append(@, waitList[i])]
  BY DEF TakeWaiter
<1> DEFINE u == waitList[i]
<1>2. /\ i \in DOMAIN waitList /\ waitList \in Seq(Thread) /\ IsInjective(waitList)
      /\ batch \in [Context -> Seq(Thread)] /\ waitObject[u] = target[c]
      /\ waitObject \in [Thread -> Object \cup {NONE}]
  BY <1>1 DEF WaitersOf, TypeOK, ThreadPlacement, NoDuplicates
<1>3. u \in Thread /\ u \in Blocked /\ Blocked' = Blocked \ {u}
  BY <1>1, <1>2, RemoveAtList DEF Blocked
<1>4. /\ Woken(c)' = Woken(c) \cup {u} /\ batch'[c] # <<>>
      /\ \A d \in Context \ {c} : Woken(d)' = Woken(d) /\ batch'[d] = batch[d]
  <2>1. batch'[c] = Append(batch[c], u) /\ batch[c] \in Seq(Thread)
    BY <1>1, <1>2
  <2>2. Range(Append(batch[c], u)) = Woken(c) \cup {u} /\ Append(batch[c], u) # <<>>
    <3> HIDE DEF u
    <3> QED BY <1>3, <2>1, AppendList, AppendProperties DEF Woken
  <2> QED BY <1>1, <1>2, <2>1, <2>2 DEF Woken
<1>5. /\ pc' = [pc EXCEPT ![c] = "scan"] /\ pc[c] \in {"signalled", "scan"}
      /\ UNCHANGED <<signal, legacy, target>>
      /\ pc \in [Context -> ThreadPC \cup IsrPC] /\ target \in [Context -> Object \cup Worker \cup {NONE}]
      /\ Blocked \subseteq Thread /\ Thread \subseteq Context
  BY RangeOfSeq DEF TypeOK, TakeWaiter, Goto, Waking, modeVars, Blocked, Context
<1> HIDE DEF u
<1>6. pc[u] = "wait" /\ target[u] = target[c] /\ u # c
  BY <1>2, <1>3, <1>5 DEF WakeInv, WaitersAtRecheck
<1>7. WaitersAtRecheck'
  <2>1. \A t \in Blocked' : pc'[t] = "wait" /\ target'[t] = waitObject'[t]
    BY <1>1, <1>2, <1>3, <1>5 DEF WakeInv, WaitersAtRecheck, u
  <2>2. \A d \in Context : batch'[d] # <<>> => pc'[d] \in {"scan", "ready"}
    BY <1>4, <1>5 DEF WakeInv, WaitersAtRecheck
  <2>3. \A d \in Context : \A t \in Woken(d)' : pc'[t] = "wait" /\ target'[t] = target'[d]
    <3>1. \A d \in Context : Woken(d) \subseteq Context
      BY <1>5, RangeOfSeq DEF Woken, TypeOK
    <3>2. \A d \in Context : \A t \in Woken(d) : pc'[t] = "wait" /\ target'[t] = target'[d]
      BY <1>5, <3>1 DEF WakeInv, WaitersAtRecheck
    <3>3. pc'[u] = "wait" /\ target'[u] = target'[c]
      BY <1>3, <1>5, <1>6
    <3> QED BY <1>4, <3>2, <3>3
  <2> QED BY <1>5, <2>1, <2>2, <2>3 DEF WakeInv, WaitersAtRecheck
<1>8. SignalHeard'
  <2> SUFFICES ASSUME NEW t \in Blocked \ {u}, signal[waitObject[t]] > 0
               PROVE  \/ \E d \in Context : Waker(d, waitObject[t])'
                      \/ /\ ~WakesAll(waitObject[t])
                         /\ \E v \in Thread \ Blocked' : WaitsFor(v, waitObject[t])'
    <3>1. \A t \in Blocked' : waitObject'[t] = waitObject[t]
      BY <1>1, <1>2, <1>3, <1>5 DEF u
    <3> QED BY <1>3, <1>5, <3>1 DEF SignalHeard, Waker, WaitsFor, WakesAll
  <2>0. waitObject'[t] = waitObject[t]
    BY <1>1, <1>2, <1>3, <1>5 DEF u
  <2>1. CASE \E d \in Context : Waker(d, waitObject[t])
    BY <1>5, <2>0, <2>1 DEF Waker
  <2>2. ASSUME NEW v \in Thread \ Blocked, WaitsFor(v, waitObject[t])
        PROVE  v \in Thread \ Blocked' /\ WaitsFor(v, waitObject[t])'
    BY <1>3, <1>5, <2>0, <2>2 DEF WaitsFor
  <2> QED BY <2>1, <2>2 DEF WakeInv, SignalHeard
<1> QED BY <1>7, <1>8 DEF WakeInv

\* ki_wake readies a thread of its batch, which then is on its way to its recheck.
LEMMA ReadyHeard ==
  ASSUME TypeOK, ThreadPlacement, WakeInv, NEW c \in Context, ReadyWoken(c)
  PROVE  WakeInv'
<1>1. batch[c] \in Seq(Thread) /\ batch[c] # <<>> /\ IsInjective(batch[c])
  BY DEF ReadyWoken, TypeOK, ThreadPlacement, NoDuplicates
<1>2. Range(Tail(batch[c])) \subseteq Woken(c)
  BY <1>1, TailList DEF Woken
<1>3. /\ batch' = [batch EXCEPT ![c] = Tail(batch[c])] /\ batch \in [Context -> Seq(Thread)]
      /\ UNCHANGED <<waitList, waitObject, signal, pc, target, legacy>>
  BY DEF ReadyWoken, waitVars, modeVars, TypeOK
<1>4. Blocked' = Blocked /\ \A d \in Context : Woken(d)' \subseteq Woken(d)
  BY <1>2, <1>3 DEF Blocked, Woken
<1>5. WaitersAtRecheck'
  <2>1. \A d \in Context : batch'[d] # <<>> => batch[d] # <<>>
    BY <1>1, <1>3
  <2> QED BY <1>3, <1>4, <2>1 DEF WakeInv, WaitersAtRecheck
<1>6. SignalHeard'
  BY <1>3, <1>4 DEF WakeInv, SignalHeard, Waker, WaitsFor, WakesAll
<1> QED BY <1>5, <1>6 DEF WakeInv

\* A thread that blocks has seen its object unsignalled in the same cli section.
LEMMA BlockHeard ==
  ASSUME TypeOK, ThreadPlacement, WakeInv, NEW t \in Thread, WaitBlocks(t)
  PROVE  WakeInv'
<1>1. /\ t = current /\ target[t] \in Object /\ signal[target[t]] = 0 /\ pc[t] = "wait"
      /\ waitObject' = [waitObject EXCEPT ![t] = target[t]]
      /\ waitList' = Append(waitList, t)
      /\ UNCHANGED <<signal, batch, pc, target, legacy>>
  BY ContextsDistinct
     DEF WaitBlocks, Waiting, Executing, Thread, Context, TypeOK, ObjectPC, callVars, modeVars
<1>2. waitList \in Seq(Thread) /\ waitObject \in [Thread -> Object \cup {NONE}] /\ Thread \subseteq Context
  BY DEF TypeOK, Context
<1>3. Blocked' = Blocked \cup {t} /\ t \notin Blocked /\ Blocked \subseteq Thread
  BY <1>1, <1>2, AppendList, RangeOfSeq DEF Blocked, ThreadPlacement, NoSharing
<1>4. \A u \in Blocked : waitObject'[u] = waitObject[u]
  BY <1>1, <1>2, <1>3
<1>5. WaitersAtRecheck'
  BY <1>1, <1>2, <1>3, <1>4 DEF WakeInv, WaitersAtRecheck, Woken
<1>6. SignalHeard'
  <2> SUFFICES ASSUME NEW u \in Blocked, signal[waitObject[u]] > 0
               PROVE  \/ \E d \in Context : Waker(d, waitObject[u])'
                      \/ /\ ~WakesAll(waitObject[u])
                         /\ \E v \in Thread \ Blocked' : WaitsFor(v, waitObject[u])'
    BY <1>1, <1>2, <1>3, <1>4 DEF SignalHeard, Waker, WaitsFor, WakesAll
  <2>1. CASE \E d \in Context : Waker(d, waitObject[u])
    BY <1>1, <1>4, <2>1 DEF Waker
  <2>2. ASSUME NEW v \in Thread \ Blocked, WaitsFor(v, waitObject[u])
        PROVE  v \in Thread \ Blocked' /\ WaitsFor(v, waitObject[u])'
    BY <1>1, <1>3, <1>4, <2>2 DEF WaitsFor
  <2> QED BY <2>1, <2>2 DEF WakeInv, SignalHeard
<1> QED BY <1>5, <1>6 DEF WakeInv

LEMMA WakeInvStep ==
  ASSUME EveryWaiterFits, TypeOK, ThreadPlacement, WakeInv, [Next]_vars
  PROVE  WakeInv'
<1> USE DEF schedVars, waitVars, callVars, timerVars, modeVars
<1>0. /\ pc \in [Context -> ThreadPC \cup IsrPC] /\ current \in Thread
      /\ target \in [Context -> Object \cup Worker \cup {NONE}] /\ signal \in [Object -> Nat]
      /\ batch \in [Context -> Seq(Thread)]
      /\ Thread \subseteq Context /\ Isr \in Context /\ Isr \notin Thread
      /\ \A c \in Context : pc[c] \notin {"scan", "ready"} => batch[c] = <<>>
      /\ ~legacy
  BY ContextsDistinct DEF TypeOK, Context, Thread, WakeInv, WaitersAtRecheck
<1>1. ASSUME NEW t \in Thread, Call(t) PROVE WakeInv'
  <2>0. /\ t = current /\ pc[t] = "run" /\ batch[t] = <<>>
    BY <1>0, <1>1
       DEF Call, Launch, Exit, Join, KeWaitForSingleObject, KeWaitWithTimeout, KeSetEvent, KeResetEvent,
           KeReleaseMutex, KeReleaseSemaphore, KeWaitForMultipleObjects, KeSetTimer, KeCancelTimer,
           InCode, Executing
  <2>1. CASE \/ \E u \in Worker : Launch(t, u) \/ Join(t, u)
             \/ Exit(t)
             \/ \E o \in Object : KeWaitForSingleObject(t, o) \/ KeReleaseSemaphore(t, o)
    <3>9. OutsideStep(t)
      BY <1>0, <2>0, <2>1 DEF OutsideStep, Launch, Enqueue, Join, Exit, KeWaitForSingleObject, KeReleaseSemaphore, Goto
    <3> QED BY <1>0, <3>9, OutsideWake
  <2>2. CASE \E o \in Object : KeSetEvent(t, o) \/ KeReleaseMutex(t, o)
    <3>9. OutsideStep(t)
      BY <1>0, <2>0, <2>2 DEF OutsideStep, KeSetEvent, KeReleaseMutex, Signal, Goto
    <3> QED BY <1>0, <3>9, OutsideWake
  <2>3. ASSUME NEW p \in Object, KeResetEvent(t, p) \/ (p \in Timer /\ KeSetTimer(t, p))
        PROVE  WakeInv'
    <3>1. /\ UNCHANGED <<waitList, waitObject, batch, legacy, pc, target>>
          /\ signal' = [signal EXCEPT ![p] = 0]
      BY <2>3 DEF KeResetEvent, KeSetTimer
    <3>2. \A o \in Object : signal'[o] > 0 => signal[o] > 0
      BY <1>0, <3>1
    <3>9. OutsideStep(t)
      BY <1>0, <2>0, <3>1, <3>2 DEF OutsideStep
    <3> QED BY <1>0, <3>9, OutsideWake
  <2>6. CASE \E o \in Timer : KeCancelTimer(t, o)
    <3>1. UNCHANGED <<waitList, waitObject, batch, legacy, pc, target, signal>>
      BY <2>6 DEF KeCancelTimer
    <3>9. OutsideStep(t)
      BY <1>0, <2>0, <3>1 DEF OutsideStep
    <3> QED BY <1>0, <3>9, OutsideWake
  <2>4. ASSUME NEW p \in Object, NEW zero \in BOOLEAN, KeWaitWithTimeout(t, p, zero)
        PROVE  WakeInv'
    <3>1. /\ UNCHANGED <<waitList, waitObject, batch, legacy, pc, target>>
          /\ \/ signal' = signal
             \/ signal[p] > 0 /\ signal' = [signal EXCEPT ![p] = Consumed(p)]
      BY <2>4 DEF KeWaitWithTimeout
    <3>2. \A o \in Object : signal'[o] > 0 => signal[o] > 0
      BY <1>0, <3>1
    <3>9. OutsideStep(t)
      BY <1>0, <2>0, <3>1, <3>2 DEF OutsideStep
    <3> QED BY <1>0, <3>9, OutsideWake
  <2>5. ASSUME NEW objs \in SUBSET (Object \ Mutant), NEW all \in BOOLEAN,
               KeWaitForMultipleObjects(t, objs, all)
        PROVE  WakeInv'
    <3>1. PICK taken \in SUBSET objs :
            /\ \A o \in taken : signal[o] > 0
            /\ signal' = [o \in Object |-> IF o \in taken THEN Consumed(o) ELSE signal[o]]
      BY <2>5 DEF KeWaitForMultipleObjects
    <3>2. \A o \in Object : signal'[o] > 0 => signal[o] > 0
      BY <3>1
    <3>9. OutsideStep(t)
      BY <1>0, <2>0, <2>5, <3>2 DEF OutsideStep, KeWaitForMultipleObjects
    <3> QED BY <1>0, <3>9, OutsideWake
  <2>7. Timer \subseteq Object
    BY DEF Timer, OfType
  <2> QED BY <1>1, <2>1, <2>2, <2>3, <2>4, <2>5, <2>6, <2>7 DEF Call
<1>2. ASSUME NEW c \in Context, WakeStep(c) PROVE WakeInv'
  <2>1. CASE WakeReturns(c)
    <3>1. /\ c = Isr \/ c = current
          /\ pc[c] = "ready" /\ batch[c] = <<>> /\ signal' = signal
          /\ \A d \in Context \ {c} : pc'[d] = pc[d] /\ target'[d] = target[d]
          /\ UNCHANGED <<waitList, waitObject, batch, legacy>>
      BY <1>0, <2>1 DEF WakeReturns, Executing, Return, Goto
    <3>9. OutsideStep(c)
      BY <1>0, <3>1 DEF OutsideStep
    <3> QED BY <1>0, <3>9, OutsideWake
  <2> QED BY <1>2, <2>1, TakeHeard, ScanEndsHeard, ReadyHeard DEF WakeStep
<1>3. ASSUME NEW t \in Thread, KernelStep(t) PROVE WakeInv'
  <2>1. CASE WaitSatisfied(t)
    <3>1. /\ t = current /\ pc[t] = "wait" /\ target[t] \in Object /\ signal[target[t]] > 0
          /\ signal' = [signal EXCEPT ![target[t]] = Consumed(target[t])]
          /\ \A d \in Context \ {t} : pc'[d] = pc[d] /\ target'[d] = target[d]
          /\ UNCHANGED <<waitList, waitObject, batch, legacy>>
      BY <1>0, <2>1 DEF WaitSatisfied, Waiting, Executing, Return, Goto, TypeOK, ObjectPC
    <3>2. signal'[target[t]] = 0 \/ WakesAll(target[t])
      BY <1>0, <3>1 DEF Consumed, WakesAll
    <3>3. \A o \in Object : signal'[o] > 0 => signal[o] > 0
      BY <1>0, <3>1
    <3>9. OutsideStep(t)
      BY <1>0, <3>1, <3>2, <3>3 DEF OutsideStep
    <3> QED BY <1>0, <3>9, OutsideWake
  <2>2. CASE WaitAutoResolved(t)
    <3>9. OutsideStep(t)
      BY <1>0, <2>2 DEF OutsideStep, WaitAutoResolved, Waiting, Executing, Return, Goto
    <3> QED BY <1>0, <3>9, OutsideWake
  <2>3. CASE WaitBlocks(t)
    BY <2>3, BlockHeard
  <2>4. CASE AddCount(t)
    <3>1. /\ t = current /\ pc[t] = "add" /\ target[t] \in Object
          /\ signal' = [signal EXCEPT ![target[t]] = prev[t] + 1]
          /\ pc'[t] = "signalled" /\ target'[t] = target[t]
          /\ \A d \in Context \ {t} : pc'[d] = pc[d] /\ target'[d] = target[d]
          /\ UNCHANGED <<waitList, waitObject, batch, legacy>>
      BY <1>0, <2>4 DEF AddCount, Signal, Executing, Goto, TypeOK, ObjectPC
    <3>2. \A o \in Object : signal'[o] > 0 => signal[o] > 0 \/ target'[t] = o
      BY <1>0, <3>1
    <3>9. OutsideStep(t)
      BY <1>0, <3>1, <3>2 DEF OutsideStep
    <3> QED BY <1>0, <3>9, OutsideWake
  <2>5. CASE SkipWake(t)
    BY <1>0, <2>5 DEF SkipWake
  <2>6. CASE ExitYield(t) \/ JoinYield(t) \/ JoinReturns(t)
    <3>9. OutsideStep(t)
      BY <1>0, <2>6 DEF OutsideStep, ExitYield, JoinYield, JoinReturns, Executing, Return, Goto
    <3> QED BY <1>0, <3>9, OutsideWake
  <2> QED BY <1>0, <1>2, <1>3, <2>1, <2>2, <2>3, <2>4, <2>5, <2>6 DEF KernelStep
<1>4. CASE IsrStep
  <2>1. ASSUME NEW o \in Timer, ExpireTimer(o) PROVE WakeInv'
    <3>9. OutsideStep(Isr)
      BY <1>0, <2>1 DEF OutsideStep, ExpireTimer, Signal, Goto
    <3> QED BY <1>0, <3>9, OutsideWake
  <2>2. CASE TimerDone
    <3>1. /\ UNCHANGED <<waitList, waitObject, batch, legacy>>
          /\ pc[Isr] = "rearm" /\ pc' = [pc EXCEPT ![Isr] = "expire"]
          /\ target' = [target EXCEPT ![Isr] = NONE]
      BY <2>2 DEF TimerDone, Goto
    <3>2. signal' = signal \/ signal' = [signal EXCEPT ![target[Isr]] = 0]
      BY <2>2 DEF TimerDone
    <3>3. \A o \in Object : signal'[o] > 0 => signal[o] > 0
      BY <1>0, <3>2
    <3>9. OutsideStep(Isr)
      BY <1>0, <3>1, <3>3 DEF OutsideStep
    <3> QED BY <1>0, <3>9, OutsideWake
  <2>3. CASE InterruptReturns
    <3>9. OutsideStep(Isr)
      BY <1>0, <2>3 DEF OutsideStep, InterruptReturns, Goto
    <3> QED BY <1>0, <3>9, OutsideWake
  <2> QED BY <1>0, <1>2, <1>4, <2>1, <2>2, <2>3 DEF IsrStep
<1>5. CASE \E due \in SUBSET armed : Tick(due)
  <2>1. /\ pc[Isr] = "idle" /\ pc' = [pc EXCEPT ![Isr] = "expire"]
        /\ target' = [target EXCEPT ![Isr] = NONE]
        /\ UNCHANGED <<waitList, waitObject, batch, legacy, signal>>
    BY <1>5 DEF Tick, Goto
  <2>9. OutsideStep(Isr)
    BY <1>0, <2>1 DEF OutsideStep
  <2> QED BY <1>0, <2>9, OutsideWake
<1>6. CASE UNCHANGED vars \/ ModeStep
  <2>1. UNCHANGED <<waitList, waitObject, batch, legacy, signal, pc, target>>
    BY <1>6 DEF ModeStep, EnablePreemption, DriverWindow, EveryWaiterFits, vars
  <2> QED BY <2>1 DEF WakeInv, WaitersAtRecheck, SignalHeard, Waker, WaitsFor, WakesAll, Blocked, Woken
<1> QED BY <1>1, <1>3, <1>4, <1>5, <1>6 DEF Next

\* No thread stays blocked on a signalled object with nobody left to release it,
\* whatever the number of objects and of threads, as long as the batch of ki_wake
\* (sched.c:468) has room for all of them and no legacy window is opened.
THEOREM WakeupsKept == EveryWaiterFits => (Spec => []NoLostWakeup)
<1> SUFFICES ASSUME EveryWaiterFits PROVE Spec => []NoLostWakeup
  OBVIOUS
<1>1. Init => WakeInv
  BY DEF Init, WakeInv, WaitersAtRecheck, SignalHeard, Blocked, Woken, Range
<1>2. TypeOK /\ ThreadPlacement /\ WakeInv /\ [Next]_vars => WakeInv'
  BY WakeInvStep
<1>3. WakeInv => NoLostWakeup
  BY DEF WakeInv, SignalHeard, NoLostWakeup, WakePending, Waker
<1> QED BY <1>1, <1>2, <1>3, TypeCorrect, PlacementCorrect, PTL DEF Spec
=============================================================================
