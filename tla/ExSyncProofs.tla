---------------------------- MODULE ExSyncProofs ----------------------------
(***************************************************************************)
(* Proofs about the executive's locks, for every finite set of threads.     *)
(***************************************************************************)
EXTENDS ExSync, FiniteSetTheorems, TLAPS

Wanting == {t \in Thread : pc[t] = "contended"}
Handing == {t \in Thread : pc[t] = "wakeOne"}

ResourceSteps ==
  {"takeExclusive", "waitExclusive", "ownsExclusive", "loadShared", "takeShared",
   "waitShared", "store", "drop", "wake"}

\* Where a thread is says what it cannot hold.
HoldsFitPlace ==
  \A t \in Thread :
    /\ pc[t] \in {"contended", "owns"} => holds[t] = {}
    /\ pc[t] \in {"give", "wakeOne"} => "mutex" \notin holds[t]
    /\ pc[t] \in ResourceSteps => ~HoldsResource(t)
    /\ ~("shared" \in holds[t] /\ "exclusive" \in holds[t])
    /\ pc[t] = "takeShared" => seen[t] >= 0

OwnersFit ==
  /\ owner # NONE => "mutex" \in holds[owner]
  /\ ownerThread # NONE => "exclusive" \in holds[ownerThread]

\* ActiveCount tells who holds the resource, and how.
CountsHolders ==
  IF activeCount = -1
  THEN /\ \E t \in Thread : ExclusiveHolders = {t}
       /\ SharedHolders = {}
  ELSE /\ ExclusiveHolders = {}
       /\ activeCount = Cardinality(SharedHolders)

Inv == TypeOK /\ HoldsFitPlace /\ OwnersFit /\ MutexHandoff /\ CountsHolders

\* What a step leaves alone.
MutexKept ==
  /\ UNCHANGED mutexVars
  /\ MutexHolders' = MutexHolders /\ Wanting' = Wanting /\ Handing' = Handing
ResourceKept ==
  /\ UNCHANGED resourceVars
  /\ ExclusiveHolders' = ExclusiveHolders /\ SharedHolders' = SharedHolders

-----------------------------------------------------------------------------
(* Counting.                                                               *)

LEMMA Finite ==
  ASSUME NEW S \in SUBSET Thread
  PROVE  /\ IsFiniteSet(S) /\ Cardinality(S) \in Nat
         /\ Cardinality(S) <= Cardinality(Thread)
         /\ Cardinality(S) = 0 <=> S = {}
<1>1. IsFiniteSet(S) /\ Cardinality(S) <= Cardinality(Thread)
  BY ThreadsOK, FS_Subset DEF ThreadsOK
<1>2. Cardinality(S) \in Nat /\ (Cardinality(S) = 0 <=> S = {})
  BY <1>1, FS_CardinalityType, FS_EmptySet
<1> QED BY <1>1, <1>2

LEMMA OneMore ==
  ASSUME NEW S \in SUBSET Thread, NEW t \in Thread, t \notin S
  PROVE  Cardinality(S \cup {t}) = Cardinality(S) + 1
BY Finite, FS_AddElement

LEMMA OneLess ==
  ASSUME NEW S \in SUBSET Thread, NEW t \in S
  PROVE  Cardinality(S \ {t}) = Cardinality(S) - 1
BY Finite, FS_RemoveElement

LEMMA ThreadCount == Cardinality(Thread) \in Nat
  BY Finite

\* The numbers of MutexHandoff: holders, threads that want the mutex, threads on
\* their way to set the event, and the event itself.
Balanced(c, h, w, n, e) ==
  /\ c = 1 - h - w
  /\ n + (IF e THEN 1 ELSE 0) + h <= 1
  /\ n + (IF e THEN 1 ELSE 0) = 1 => w > 0
  /\ w > 0 => n + (IF e THEN 1 ELSE 0) + h = 1

LEMMA HandoffNumbers ==
  MutexHandoff <=> Balanced(count, Cardinality(MutexHolders), Cardinality(Wanting),
                            Cardinality(Handing), event)
<1>1. /\ Cardinality(Wanting) \in Nat
      /\ Cardinality(Wanting) = 0 <=> Wanting = {}
  BY Finite DEF Wanting
<1>2. Cardinality(Wanting) > 0 <=> Wanting # {}
  BY <1>1
<1> QED BY <1>2 DEF MutexHandoff, Balanced, Wanting, Handing

\* The numbers after a step, where the sets are known.
LEMMA HandoffNext ==
  ASSUME Balanced(count', Cardinality(MutexHolders'), Cardinality(Wanting'),
                  Cardinality(Handing'), event')
  PROVE  MutexHandoff'
<1>1. /\ Cardinality(Wanting') \in Nat
      /\ Cardinality(Wanting') = 0 <=> Wanting' = {}
  BY Finite DEF Wanting
<1>2. Cardinality(Wanting') > 0 <=> Wanting' # {}
  BY <1>1
<1> QED BY <1>2 DEF MutexHandoff, Balanced, Wanting, Handing

-----------------------------------------------------------------------------
(* The FAST_MUTEX.                                                         *)

LEMMA AcquireStep ==
  ASSUME Inv, NEW t \in Thread, ExAcquireFastMutex(t)
  PROVE  /\ MutexHandoff' /\ ResourceKept
         /\ MutexHolders' = MutexHolders \/ (MutexHolders = {} /\ MutexHolders' = {t})
<1> DEFINE h == Cardinality(MutexHolders)
           w == Cardinality(Wanting)
           n == Cardinality(Handing)
<1>1. ResourceKept
  BY DEF Inv, TypeOK, HoldsFitPlace, ExAcquireFastMutex, Goto, ResourceKept, ExclusiveHolders,
         SharedHolders, resourceVars, Contended
<1>2. h \in Nat /\ w \in Nat /\ n \in Nat /\ (h = 0 <=> MutexHolders = {})
  BY Finite DEF MutexHolders, Wanting, Handing
<1>3. Balanced(count, h, w, n, event) /\ count \in Int
  BY HandoffNumbers DEF Inv, TypeOK
<1>4. CASE count - 1 < 0
  <2>1. MutexHolders' = MutexHolders /\ Handing' = Handing
    BY <1>4 DEF Inv, TypeOK, HoldsFitPlace, ExAcquireFastMutex, Goto, Contended, MutexHolders, Handing
  <2>2. Wanting' = Wanting \cup {t} /\ t \notin Wanting
    BY <1>4 DEF Inv, TypeOK, ExAcquireFastMutex, Goto, Contended, Wanting
  <2>3. Cardinality(Wanting') = w + 1
    BY <2>2, OneMore DEF Wanting
  <2>4. Balanced(count', h, w + 1, n, event')
    BY <1>2, <1>3, <1>4 DEF Balanced, ExAcquireFastMutex, Inv, TypeOK
  <2> QED BY <1>1, <2>1, <2>3, <2>4, HandoffNext
<1>5. CASE ~(count - 1 < 0)
  <2>1. MutexHolders' = MutexHolders \cup {t} /\ t \notin MutexHolders
    BY <1>5 DEF Inv, TypeOK, ExAcquireFastMutex, Goto, Contended, MutexHolders
  <2>2. Wanting' = Wanting /\ Handing' = Handing
    BY <1>5 DEF Inv, TypeOK, ExAcquireFastMutex, Goto, Contended, Wanting, Handing
  <2>3. Cardinality(MutexHolders') = h + 1
    BY <2>1, OneMore DEF MutexHolders
  <2>4. h = 0 /\ Balanced(count', h + 1, w, n, event')
    BY <1>2, <1>3, <1>5 DEF Balanced, ExAcquireFastMutex, Inv, TypeOK
  <2> QED BY <1>1, <1>2, <2>1, <2>2, <2>3, <2>4, HandoffNext
<1> QED BY <1>4, <1>5

LEMMA WaitReturnsStep ==
  ASSUME Inv, NEW t \in Thread, MutexWaitReturns(t)
  PROVE  /\ MutexHandoff' /\ ResourceKept
         /\ MutexHolders = {} /\ MutexHolders' = {t}
<1> DEFINE h == Cardinality(MutexHolders)
           w == Cardinality(Wanting)
           n == Cardinality(Handing)
<1>1. ResourceKept
  BY DEF Inv, TypeOK, HoldsFitPlace, MutexWaitReturns, Goto, ResourceKept, ExclusiveHolders,
         SharedHolders, resourceVars
<1>2. h \in Nat /\ w \in Nat /\ n \in Nat /\ (h = 0 <=> MutexHolders = {})
  BY Finite DEF MutexHolders, Wanting, Handing
<1>3. Balanced(count, h, w, n, event) /\ count \in Int
  BY HandoffNumbers DEF Inv, TypeOK
<1>4. /\ MutexHolders' = MutexHolders \cup {t} /\ t \notin MutexHolders
      /\ Wanting' = Wanting \ {t} /\ t \in Wanting
      /\ Handing' = Handing
  BY DEF Inv, TypeOK, HoldsFitPlace, MutexWaitReturns, Goto, MutexHolders, Wanting, Handing
<1>5. Cardinality(MutexHolders') = h + 1 /\ Cardinality(Wanting') = w - 1
  BY <1>4, OneMore, OneLess DEF MutexHolders, Wanting
<1>6. h = 0 /\ Balanced(count', h + 1, w - 1, n, event')
  BY <1>2, <1>3 DEF Balanced, MutexWaitReturns
<1> QED BY <1>1, <1>2, <1>4, <1>5, <1>6, HandoffNext

LEMMA TryStep ==
  ASSUME Inv, NEW t \in Thread, ExTryToAcquireFastMutex(t)
  PROVE  /\ MutexHandoff' /\ ResourceKept
         /\ MutexHolders = {} /\ MutexHolders' = {t}
<1> DEFINE h == Cardinality(MutexHolders)
           w == Cardinality(Wanting)
           n == Cardinality(Handing)
<1>1. ResourceKept
  BY DEF Inv, TypeOK, ExTryToAcquireFastMutex, Gain, ResourceKept, ExclusiveHolders,
         SharedHolders, resourceVars
<1>2. h \in Nat /\ w \in Nat /\ n \in Nat /\ (h = 0 <=> MutexHolders = {})
  BY Finite DEF MutexHolders, Wanting, Handing
<1>3. Balanced(count, h, w, n, event) /\ count \in Int
  BY HandoffNumbers DEF Inv, TypeOK
<1>4. /\ MutexHolders' = MutexHolders \cup {t} /\ t \notin MutexHolders
      /\ Wanting' = Wanting /\ Handing' = Handing
  BY DEF Inv, TypeOK, ExTryToAcquireFastMutex, Gain, MutexHolders, Wanting, Handing
<1>5. Cardinality(MutexHolders') = h + 1
  BY <1>4, OneMore DEF MutexHolders
<1>6. h = 0 /\ Balanced(count', h + 1, w, n, event')
  BY <1>2, <1>3 DEF Balanced, ExTryToAcquireFastMutex
<1> QED BY <1>1, <1>2, <1>4, <1>5, <1>6, HandoffNext

LEMMA GiveStep ==
  ASSUME Inv, NEW t \in Thread, GiveCount(t)
  PROVE  /\ MutexHandoff' /\ ResourceKept
         /\ t \in MutexHolders /\ MutexHolders' = MutexHolders \ {t}
<1> DEFINE h == Cardinality(MutexHolders)
           w == Cardinality(Wanting)
           n == Cardinality(Handing)
<1>1. ResourceKept
  BY DEF Inv, TypeOK, GiveCount, Goto, ResourceKept, ExclusiveHolders, SharedHolders,
         resourceVars, HasWaiter
<1>2. h \in Nat /\ w \in Nat /\ n \in Nat
  BY Finite DEF MutexHolders, Wanting, Handing
<1>3. Balanced(count, h, w, n, event) /\ count \in Int
  BY HandoffNumbers DEF Inv, TypeOK
<1>4. /\ MutexHolders' = MutexHolders \ {t} /\ t \in MutexHolders
      /\ Wanting' = Wanting
  BY DEF Inv, TypeOK, HoldsFitPlace, GiveCount, Goto, HasWaiter, MutexHolders, Wanting
<1>5. Cardinality(MutexHolders') = h - 1
  BY <1>4, OneLess DEF MutexHolders
<1>6. CASE count + 1 <= 0
  <2>1. Handing' = Handing \cup {t} /\ t \notin Handing
    BY <1>6 DEF Inv, TypeOK, GiveCount, Goto, HasWaiter, Handing
  <2>2. Cardinality(Handing') = n + 1
    BY <2>1, OneMore DEF Handing
  <2>3. Balanced(count', h - 1, w, n + 1, event')
    BY <1>2, <1>3, <1>5, <1>6, <1>4, Finite DEF Balanced, GiveCount, MutexHolders
  <2> QED BY <1>1, <1>4, <1>5, <2>2, <2>3, HandoffNext
<1>7. CASE ~(count + 1 <= 0)
  <2>1. Handing' = Handing
    BY <1>7 DEF Inv, TypeOK, GiveCount, Goto, HasWaiter, Handing
  <2>2. Balanced(count', h - 1, w, n, event')
    BY <1>2, <1>3, <1>5, <1>7, <1>4, Finite DEF Balanced, GiveCount, MutexHolders
  <2> QED BY <1>1, <1>4, <1>5, <2>1, <2>2, HandoffNext
<1> QED BY <1>6, <1>7

LEMMA WakeOneStep ==
  ASSUME Inv, NEW t \in Thread, WakeOne(t)
  PROVE  MutexHandoff' /\ ResourceKept /\ MutexHolders' = MutexHolders
<1> DEFINE h == Cardinality(MutexHolders)
           w == Cardinality(Wanting)
           n == Cardinality(Handing)
<1>1. ResourceKept
  BY DEF Inv, TypeOK, WakeOne, Goto, ResourceKept, ExclusiveHolders, SharedHolders, resourceVars
<1>2. h \in Nat /\ w \in Nat /\ n \in Nat /\ (n = 0 <=> Handing = {})
  BY Finite DEF MutexHolders, Wanting, Handing
<1>3. Balanced(count, h, w, n, event)
  BY HandoffNumbers DEF Inv
<1>4. /\ MutexHolders' = MutexHolders /\ Wanting' = Wanting
      /\ Handing' = Handing \ {t} /\ t \in Handing
  BY DEF Inv, TypeOK, HoldsFitPlace, WakeOne, Goto, MutexHolders, Wanting, Handing
<1>5. Cardinality(Handing') = n - 1 /\ n # 0
  BY <1>2, <1>4, OneLess DEF Handing
<1>6. Balanced(count', h, w, n - 1, event')
  BY <1>2, <1>3, <1>5 DEF Balanced, WakeOne
<1> QED BY <1>1, <1>4, <1>5, <1>6, HandoffNext

\* A step that moves a thread about within what it holds.
LEMMA MutexStays ==
  ASSUME Inv, NEW t \in Thread, SetOwner(t) \/ ExReleaseFastMutex(t)
  PROVE  MutexHandoff' /\ ResourceKept /\ MutexHolders' = MutexHolders
<1>1. ResourceKept
  BY DEF Inv, TypeOK, HoldsFitPlace, SetOwner, ExReleaseFastMutex, Gain, Lose, Goto, ResourceKept,
         ExclusiveHolders, SharedHolders, resourceVars
<1>2. /\ MutexHolders' = MutexHolders /\ Wanting' = Wanting /\ Handing' = Handing
      /\ count' = count /\ event' = event
  BY DEF Inv, TypeOK, HoldsFitPlace, SetOwner, ExReleaseFastMutex, Gain, Lose, Goto, MutexHolders, Wanting, Handing
<1>3. MutexHandoff'
  BY <1>2, HandoffNumbers, HandoffNext DEF Inv
<1> QED BY <1>1, <1>2, <1>3

-----------------------------------------------------------------------------
(* The ERESOURCE.                                                          *)

LEMMA TakeExclusiveStep ==
  ASSUME Inv, NEW t \in Thread, TakeExclusive(t)
  PROVE  /\ CountsHolders' /\ MutexKept /\ SharedHolders' = SharedHolders
         /\ \/ ExclusiveHolders' = ExclusiveHolders
            \/ /\ ExclusiveHolders = {} /\ SharedHolders = {}
               /\ ExclusiveHolders' = {t}
<1>1. /\ MutexKept /\ SharedHolders' = SharedHolders
  BY DEF Inv, TypeOK, HoldsFitPlace, TakeExclusive, Goto, MutexKept, mutexVars, MutexHolders,
         Wanting, Handing, SharedHolders, ResourceSteps
<1>2. CASE activeCount = 0
  <2>1. ExclusiveHolders = {} /\ SharedHolders = {}
    BY <1>2, Finite DEF Inv, CountsHolders, SharedHolders
  <2>2. ExclusiveHolders' = ExclusiveHolders \cup {t} /\ activeCount' = -1
    BY <1>2 DEF Inv, TypeOK, TakeExclusive, Goto, ExclusiveHolders
  <2> QED BY <1>1, <2>1, <2>2 DEF CountsHolders
<1>3. CASE activeCount # 0
  <2>1. ExclusiveHolders' = ExclusiveHolders /\ activeCount' = activeCount
    BY <1>3 DEF Inv, TypeOK, HoldsFitPlace, TakeExclusive, Goto, ExclusiveHolders, ResourceSteps
  <2> QED BY <1>1, <2>1 DEF Inv, CountsHolders
<1> QED BY <1>2, <1>3

\* The exchange succeeds on the count that was loaded, and a loaded count that allows
\* to go on was of shared holders or of none.
LEMMA TakeSharedStep ==
  ASSUME Inv, NEW t \in Thread, TakeShared(t)
  PROVE  /\ CountsHolders' /\ MutexKept /\ ExclusiveHolders' = ExclusiveHolders
         /\ \/ SharedHolders' = SharedHolders
            \/ /\ ExclusiveHolders = {} /\ t \notin SharedHolders
               /\ SharedHolders' = SharedHolders \cup {t}
<1>1. /\ MutexKept /\ ExclusiveHolders' = ExclusiveHolders
  BY DEF Inv, TypeOK, HoldsFitPlace, TakeShared, Goto, Gain, MutexKept, mutexVars, MutexHolders,
         Wanting, Handing, ExclusiveHolders, ResourceSteps
<1>2. CASE activeCount = seen[t]
  <2>1. activeCount >= 0 /\ activeCount \in Int
    BY <1>2, ThreadCount DEF Inv, TypeOK, HoldsFitPlace, TakeShared
  <2>2. ExclusiveHolders = {} /\ activeCount = Cardinality(SharedHolders)
    BY <2>1 DEF Inv, CountsHolders
  <2>3. /\ SharedHolders' = SharedHolders \cup {t} /\ t \notin SharedHolders
        /\ activeCount' = activeCount + 1
    BY <1>2 DEF Inv, TypeOK, HoldsFitPlace, TakeShared, Goto, Gain, SharedHolders, ResourceSteps,
           HoldsResource
  <2>4. Cardinality(SharedHolders') = Cardinality(SharedHolders) + 1
    BY <2>3, OneMore DEF SharedHolders
  <2> QED BY <1>1, <2>1, <2>2, <2>3, <2>4 DEF CountsHolders
<1>3. CASE activeCount # seen[t]
  <2>1. SharedHolders' = SharedHolders /\ activeCount' = activeCount
    BY <1>3 DEF Inv, TypeOK, HoldsFitPlace, TakeShared, Goto, SharedHolders, ResourceSteps
  <2> QED BY <1>1, <2>1 DEF Inv, CountsHolders
<1> QED BY <1>2, <1>3

\* A release finds out by the count how its thread holds the resource.
LEMMA ReleaseStep ==
  ASSUME Inv, NEW t \in Thread, ExReleaseResourceLite(t)
  PROVE  /\ CountsHolders' /\ MutexKept
         /\ ExclusiveHolders' = ExclusiveHolders /\ SharedHolders' = SharedHolders
<1>1. MutexKept
  BY DEF Inv, TypeOK, ExReleaseResourceLite, Goto, Lose, MutexKept, mutexVars, MutexHolders,
         Wanting, Handing
<1>2. activeCount' = activeCount
  BY DEF ExReleaseResourceLite
<1>3. CASE "exclusive" \in holds[t]
  <2>1. t \in ExclusiveHolders
    BY <1>3 DEF ExclusiveHolders
  <2>2. activeCount = -1
    BY <2>1 DEF Inv, CountsHolders
  <2>3. ExclusiveHolders' = ExclusiveHolders /\ SharedHolders' = SharedHolders
    BY <1>3, <2>2 DEF Inv, TypeOK, HoldsFitPlace, ExReleaseResourceLite, Goto, Lose,
           ExclusiveHolders, SharedHolders
  <2> QED BY <1>1, <1>2, <2>3 DEF Inv, CountsHolders
<1>4. CASE "shared" \in holds[t]
  <2>1. t \in SharedHolders
    BY <1>4 DEF SharedHolders
  <2>2. activeCount > 0
    BY <2>1, Finite DEF Inv, CountsHolders, SharedHolders
  <2>3. ExclusiveHolders' = ExclusiveHolders /\ SharedHolders' = SharedHolders
    BY <1>4, <2>2 DEF Inv, TypeOK, HoldsFitPlace, ExReleaseResourceLite, Goto, Lose,
           ExclusiveHolders, SharedHolders
  <2> QED BY <1>1, <1>2, <2>3 DEF Inv, CountsHolders
<1> QED BY <1>3, <1>4 DEF ExReleaseResourceLite, HoldsResource

LEMMA StoreStep ==
  ASSUME Inv, NEW t \in Thread, StoreFree(t)
  PROVE  /\ CountsHolders' /\ MutexKept /\ SharedHolders' = SharedHolders
         /\ ExclusiveHolders = {t} /\ ExclusiveHolders' = {}
<1>1. MutexKept /\ SharedHolders' = SharedHolders
  BY DEF Inv, TypeOK, StoreFree, Goto, MutexKept, mutexVars, MutexHolders, Wanting, Handing,
         SharedHolders
<1>2. t \in ExclusiveHolders
  BY DEF StoreFree, ExclusiveHolders
<1>3. ExclusiveHolders = {t} /\ SharedHolders = {}
  BY <1>2 DEF Inv, CountsHolders
<1>4. ExclusiveHolders' = ExclusiveHolders \ {t}
  BY DEF Inv, TypeOK, HoldsFitPlace, StoreFree, Goto, ExclusiveHolders, ResourceSteps, HoldsResource
<1>5. activeCount' = 0
  BY DEF StoreFree
<1>6. SharedHolders' = {} /\ ExclusiveHolders' = {} /\ Cardinality({}) = 0
  BY <1>1, <1>3, <1>4, FS_EmptySet
<1> QED BY <1>1, <1>3, <1>5, <1>6 DEF CountsHolders

LEMMA DropStep ==
  ASSUME Inv, NEW t \in Thread, Drop(t)
  PROVE  /\ CountsHolders' /\ MutexKept /\ ExclusiveHolders' = ExclusiveHolders
         /\ t \in SharedHolders /\ SharedHolders' = SharedHolders \ {t}
<1>1. MutexKept /\ ExclusiveHolders' = ExclusiveHolders
  BY DEF Inv, TypeOK, Drop, Goto, MutexKept, mutexVars, MutexHolders, Wanting, Handing,
         ExclusiveHolders
<1>2. t \in SharedHolders
  BY DEF Drop, SharedHolders
<1>3. ExclusiveHolders = {} /\ activeCount = Cardinality(SharedHolders)
  BY <1>2 DEF Inv, CountsHolders
<1>4. SharedHolders' = SharedHolders \ {t}
  BY DEF Inv, TypeOK, HoldsFitPlace, Drop, Goto, SharedHolders, ResourceSteps, HoldsResource
<1>5. Cardinality(SharedHolders') = Cardinality(SharedHolders) - 1
  BY <1>2, <1>4, OneLess DEF SharedHolders
<1>6. Cardinality(SharedHolders) \in Nat /\ Cardinality(SharedHolders) # 0
  BY <1>2, Finite DEF SharedHolders
<1>7. activeCount' = activeCount - 1
  BY DEF Drop
<1> QED BY <1>1, <1>2, <1>3, <1>4, <1>5, <1>6, <1>7 DEF CountsHolders

\* The steps that leave the resource with those who have it.
Aside(t) ==
  \/ ExAcquireResourceExclusiveLite(t) \/ ExAcquireResourceSharedLite(t) \/ SetOwnerThread(t)
  \/ LoadShared(t) \/ ResourceWaitReturns(t) \/ Wake(t)

LEMMA AsideStep ==
  ASSUME Inv, NEW t \in Thread, Aside(t)
  PROVE  /\ CountsHolders' /\ MutexKept
         /\ ExclusiveHolders' = ExclusiveHolders /\ SharedHolders' = SharedHolders
<1>1. MutexKept
  BY DEF Inv, TypeOK, HoldsFitPlace, Aside, ExAcquireResourceExclusiveLite,
         ExAcquireResourceSharedLite, SetOwnerThread, LoadShared, ResourceWaitReturns, Wake, Goto,
         Gain, MutexKept, mutexVars, MutexHolders, Wanting, Handing
<1>2. /\ ExclusiveHolders' = ExclusiveHolders /\ SharedHolders' = SharedHolders
      /\ activeCount' = activeCount
  BY DEF Inv, TypeOK, HoldsFitPlace, Aside, ExAcquireResourceExclusiveLite,
         ExAcquireResourceSharedLite, SetOwnerThread, LoadShared, ResourceWaitReturns, Wake, Goto,
         Gain, resourceVars, ExclusiveHolders, SharedHolders
<1> QED BY <1>1, <1>2 DEF Inv, CountsHolders

-----------------------------------------------------------------------------
(* The invariant.                                                          *)

LEMMA CountRange ==
  ASSUME NEW H \in SUBSET Thread, NEW W \in SUBSET Thread, H \cap W = {}
  PROVE  1 - Cardinality(H) - Cardinality(W) \in (1 - Cardinality(Thread))..1
<1>1. /\ Cardinality(H \cup W) \in Nat /\ Cardinality(H \cup W) <= Cardinality(Thread)
      /\ Cardinality(H) \in Nat /\ Cardinality(W) \in Nat
      /\ IsFiniteSet(H) /\ IsFiniteSet(W)
  BY Finite
<1>2. Cardinality(H \cup W) = Cardinality(H) + Cardinality(W) - Cardinality({})
  BY <1>1, FS_Union
<1> QED BY <1>1, <1>2, ThreadCount, FS_EmptySet

LEMMA InvInit == Init => Inv
<1> SUFFICES ASSUME Init PROVE Inv
  OBVIOUS
<1>1. MutexHolders = {} /\ Wanting = {} /\ Handing = {} /\ ExclusiveHolders = {} /\ SharedHolders = {}
  BY DEF Init, MutexHolders, Wanting, Handing, ExclusiveHolders, SharedHolders
<1>2. Cardinality({}) = 0
  BY FS_EmptySet
<1>3. TypeOK
  <2>1. /\ 1 \in (1 - Cardinality(Thread))..1 /\ 0 \in -1 .. Cardinality(Thread)
    BY ThreadCount
  <2>2. "run" \in PC /\ {} \in SUBSET {"mutex", "shared", "exclusive"}
    BY DEF PC
  <2> QED BY <2>1, <2>2 DEF Init, TypeOK
<1>4. HoldsFitPlace /\ OwnersFit
  BY DEF Init, HoldsFitPlace, OwnersFit, HoldsResource, ResourceSteps
<1>5. MutexHandoff
  BY <1>1, <1>2, HandoffNumbers DEF Init, Balanced
<1>6. CountsHolders
  BY <1>1, <1>2 DEF Init, CountsHolders
<1> QED BY <1>3, <1>4, <1>5, <1>6 DEF Inv

MutexStep(t) ==
  \/ ExAcquireFastMutex(t) \/ ExTryToAcquireFastMutex(t) \/ ExReleaseFastMutex(t)
  \/ MutexWaitReturns(t) \/ SetOwner(t) \/ GiveCount(t) \/ WakeOne(t)

ResourceStep(t) ==
  \/ Aside(t) \/ TakeExclusive(t) \/ TakeShared(t) \/ ExReleaseResourceLite(t)
  \/ StoreFree(t) \/ Drop(t)

LEMMA StepsSplit ==
  ASSUME [Next]_vars
  PROVE  (\E t \in Thread : MutexStep(t) \/ ResourceStep(t)) \/ UNCHANGED vars
BY DEF Next, Acquire, Release, Proceed, MutexStep, ResourceStep, Aside

LEMMA MutexStepCounts ==
  ASSUME Inv, NEW t \in Thread, MutexStep(t)
  PROVE  MutexHandoff' /\ CountsHolders'
<1>1. MutexHandoff' /\ ResourceKept
  BY AcquireStep, WaitReturnsStep, TryStep, GiveStep, WakeOneStep, MutexStays DEF MutexStep
<1> QED BY <1>1 DEF Inv, ResourceKept, resourceVars, CountsHolders

LEMMA ResourceStepCounts ==
  ASSUME Inv, NEW t \in Thread, ResourceStep(t)
  PROVE  MutexHandoff' /\ CountsHolders'
<1>1. CountsHolders' /\ MutexKept
  BY TakeExclusiveStep, TakeSharedStep, ReleaseStep, StoreStep, DropStep, AsideStep DEF ResourceStep
<1>2. MutexHandoff'
  BY <1>1, HandoffNumbers, HandoffNext DEF Inv, MutexKept, mutexVars
<1> QED BY <1>1, <1>2

\* What a step of a thread sets: its place, what it holds, and what it saw.
LEMMA StepShape ==
  ASSUME Inv, NEW t \in Thread, MutexStep(t) \/ ResourceStep(t)
  PROVE  /\ HoldsFitPlace' /\ OwnersFit'
         /\ owner' \in Thread \cup {NONE} /\ ownerThread' \in Thread \cup {NONE}
         /\ event' \in BOOLEAN /\ resEvent' \in BOOLEAN
         /\ holds' \in [Thread -> SUBSET {"mutex", "shared", "exclusive"}]
         /\ pc' \in [Thread -> PC]
         /\ seen' \in [Thread -> -1 .. Cardinality(Thread)]
<1> USE DEF Inv, Goto, Gain, Lose, mutexVars, resourceVars
<1>1. CASE ExAcquireFastMutex(t)
  BY <1>1 DEF TypeOK, ExAcquireFastMutex, PC, HoldsFitPlace, OwnersFit, HoldsResource, ResourceSteps
<1>2. CASE ExTryToAcquireFastMutex(t)
  BY <1>2 DEF TypeOK, ExTryToAcquireFastMutex, PC, HoldsFitPlace, OwnersFit, HoldsResource, ResourceSteps
<1>3. CASE ExReleaseFastMutex(t)
  BY <1>3 DEF TypeOK, ExReleaseFastMutex, PC, HoldsFitPlace, OwnersFit, HoldsResource, ResourceSteps
<1>4. CASE MutexWaitReturns(t)
  BY <1>4 DEF TypeOK, MutexWaitReturns, PC, HoldsFitPlace, OwnersFit, HoldsResource, ResourceSteps
<1>5. CASE SetOwner(t)
  BY <1>5 DEF TypeOK, SetOwner, PC, HoldsFitPlace, OwnersFit, HoldsResource, ResourceSteps
<1>6. CASE GiveCount(t) \/ WakeOne(t)
  <2>1. CASE GiveCount(t)
    BY <2>1 DEF TypeOK, GiveCount, PC, HoldsFitPlace, OwnersFit, HoldsResource, ResourceSteps
  <2>2. CASE WakeOne(t)
    BY <2>2 DEF TypeOK, WakeOne, PC, HoldsFitPlace, OwnersFit, HoldsResource, ResourceSteps
  <2> QED BY <1>6, <2>1, <2>2
<1>7. CASE ExAcquireResourceExclusiveLite(t) \/ ExAcquireResourceSharedLite(t)
  BY <1>7 DEF TypeOK, ExAcquireResourceExclusiveLite, ExAcquireResourceSharedLite, PC, HoldsFitPlace, OwnersFit,
              HoldsResource, ResourceSteps
<1>8. CASE Wake(t) \/ StoreFree(t) \/ Drop(t)
  BY <1>8 DEF TypeOK, Wake, StoreFree, Drop, PC, HoldsFitPlace, OwnersFit, HoldsResource,
              ResourceSteps
<1>9. CASE SetOwnerThread(t)
  BY <1>9 DEF TypeOK, SetOwnerThread, PC, HoldsFitPlace, OwnersFit, HoldsResource, ResourceSteps
<1>10. CASE ResourceWaitReturns(t) \/ TakeExclusive(t)
  <2>1. CASE ResourceWaitReturns(t)
    BY <2>1 DEF TypeOK, ResourceWaitReturns, PC, HoldsFitPlace, OwnersFit, HoldsResource, ResourceSteps
  <2>2. CASE TakeExclusive(t)
    BY <2>2 DEF TypeOK, TakeExclusive, PC, HoldsFitPlace, OwnersFit, HoldsResource, ResourceSteps
  <2> QED BY <1>10, <2>1, <2>2
<1>11. CASE LoadShared(t)
  BY <1>11 DEF TypeOK, LoadShared, PC, HoldsFitPlace, OwnersFit, HoldsResource, ResourceSteps
<1>12. CASE TakeShared(t)
  BY <1>12, ThreadCount DEF TypeOK, TakeShared, PC, HoldsFitPlace, OwnersFit, HoldsResource, ResourceSteps
<1>13. CASE ExReleaseResourceLite(t)
  <2>1. activeCount # -1 => ownerThread = NONE
    BY DEF CountsHolders, OwnersFit, ExclusiveHolders, TypeOK
  <2> QED BY <1>13, <2>1 DEF TypeOK, ExReleaseResourceLite, PC, HoldsFitPlace, OwnersFit,
                             HoldsResource, ResourceSteps
<1> QED BY <1>1, <1>2, <1>3, <1>4, <1>5, <1>6, <1>7, <1>8, <1>9, <1>10, <1>11, <1>12, <1>13
        DEF MutexStep, ResourceStep, Aside

LEMMA InvNext ==
  ASSUME Inv, [Next]_vars
  PROVE  Inv'
<1>1. CASE UNCHANGED vars
  BY <1>1 DEF Inv, vars, mutexVars, resourceVars, TypeOK, HoldsFitPlace, OwnersFit, MutexHandoff,
              CountsHolders, MutexHolders, ExclusiveHolders, SharedHolders, HoldsResource
<1>2. ASSUME NEW t \in Thread, MutexStep(t) \/ ResourceStep(t)
      PROVE  Inv'
  <2>1. MutexHandoff' /\ CountsHolders'
    BY <1>2, MutexStepCounts, ResourceStepCounts
  <2>2. count' \in (1 - Cardinality(Thread))..1
    <3>1. count' = 1 - Cardinality(MutexHolders') - Cardinality(Wanting')
      BY <2>1 DEF MutexHandoff, Wanting
    <3>2. MutexHolders' \cap Wanting' = {}
      BY <1>2, StepShape DEF HoldsFitPlace, MutexHolders, Wanting
    <3>3. MutexHolders' \in SUBSET Thread /\ Wanting' \in SUBSET Thread
      BY DEF MutexHolders, Wanting
    <3> QED BY <3>1, <3>2, <3>3, CountRange
  <2>3. activeCount' \in -1 .. Cardinality(Thread)
    <3>1. /\ Cardinality(SharedHolders') \in Nat
          /\ Cardinality(SharedHolders') <= Cardinality(Thread)
      BY Finite DEF SharedHolders
    <3> QED BY <2>1, <3>1, ThreadCount DEF CountsHolders
  <2> QED BY <1>2, <2>1, <2>2, <2>3, StepShape DEF Inv, TypeOK
<1> QED BY <1>1, <1>2, StepsSplit

LEMMA InvAlways == Spec => []Inv
<1>1. Init => Inv
  BY InvInit
<1>2. Inv /\ [Next]_vars => Inv'
  BY InvNext
<1> QED BY <1>1, <1>2, PTL DEF Spec

-----------------------------------------------------------------------------
(* Theorems.                                                               *)

\* Every variable keeps its type: Count is never below what all threads together can
\* subtract, and ActiveCount never counts more sharers than there are threads.
THEOREM LocksTypeCorrect == Spec => []TypeOK
<1>1. Inv => TypeOK
  BY DEF Inv
<1> QED BY <1>1, InvAlways, PTL

\* The recorded owner of either lock holds it.
THEOREM OwnersCorrect == Spec => []OwnersHold
<1>1. Inv => OwnersHold
  <2> SUFFICES ASSUME Inv PROVE OwnersHold
    OBVIOUS
  <2>1. owner # NONE => owner \in Thread /\ "mutex" \in holds[owner]
    BY DEF Inv, TypeOK, OwnersFit
  <2>2. ownerThread # NONE => ownerThread \in Thread /\ "exclusive" \in holds[ownerThread]
    BY DEF Inv, TypeOK, OwnersFit
  <2> QED BY <2>1, <2>2 DEF OwnersHold, MutexHolders, ExclusiveHolders
<1> QED BY <1>1, InvAlways, PTL

\* The count and the event of a FAST_MUTEX hand it over, to one thread at a time.
THEOREM HandoffCorrect == Spec => []MutexHandoff
<1>1. Inv => MutexHandoff
  BY DEF Inv
<1> QED BY <1>1, InvAlways, PTL

\* A FAST_MUTEX implements an exclusive lock: ExAcquireFastMutex takes it in the step that
\* finds it free or in the step in which the wait for the event returns.
THEOREM MutexImplementsLock == Spec => MutexIsLock
<1>1. Init => Mutex!Init
  BY DEF Init, Mutex!Init, MutexHolders
<1>2. Inv /\ [Next]_vars => [Mutex!Next]_(Mutex!holders)
  <2> SUFFICES ASSUME Inv, [Next]_vars PROVE [Mutex!Next]_(Mutex!holders)
    OBVIOUS
  <2>1. CASE UNCHANGED vars
    BY <2>1 DEF vars, MutexHolders, Mutex!holders
  <2>2. ASSUME NEW t \in Thread, ResourceStep(t)
        PROVE  UNCHANGED Mutex!holders
    BY <2>2, TakeExclusiveStep, TakeSharedStep, ReleaseStep, StoreStep, DropStep, AsideStep
       DEF ResourceStep, MutexKept, Mutex!holders
  <2>3. ASSUME NEW t \in Thread, MutexStep(t)
        PROVE  [Mutex!Next]_(Mutex!holders)
    <3>1. \/ MutexHolders' = MutexHolders
          \/ MutexHolders = {} /\ MutexHolders' = {t}
          \/ t \in MutexHolders /\ MutexHolders' = MutexHolders \ {t}
      BY <2>3, AcquireStep, WaitReturnsStep, TryStep, GiveStep, WakeOneStep, MutexStays DEF MutexStep
    <3>2. CASE MutexHolders' = MutexHolders
      BY <3>2 DEF Mutex!holders
    <3>3. CASE MutexHolders = {} /\ MutexHolders' = {t}
      BY <3>3 DEF Mutex!Next, Mutex!AcquireExclusive
    <3>4. CASE t \in MutexHolders /\ MutexHolders' = MutexHolders \ {t}
      BY <3>4 DEF Mutex!Next, Mutex!Release
    <3> QED BY <3>1, <3>2, <3>3, <3>4
  <2> QED BY <2>1, <2>2, <2>3, StepsSplit
<1> QED BY <1>1, <1>2, InvAlways, PTL DEF Spec, MutexIsLock, Mutex!Spec

\* An ERESOURCE implements a lock with one exclusive or many shared holders.
THEOREM ResourceImplementsLock == Spec => ResourceIsLock
<1>1. Init => Resource!Init
  BY DEF Init, Resource!Init, ExclusiveHolders, SharedHolders
<1>2. Inv /\ [Next]_vars => [Resource!Next]_(Resource!holders)
  <2> SUFFICES ASSUME Inv, [Next]_vars PROVE [Resource!Next]_(Resource!holders)
    OBVIOUS
  <2>1. CASE UNCHANGED vars
    BY <2>1 DEF vars, ExclusiveHolders, SharedHolders, Resource!holders
  <2>2. ASSUME NEW t \in Thread, MutexStep(t)
        PROVE  UNCHANGED Resource!holders
    BY <2>2, AcquireStep, WaitReturnsStep, TryStep, GiveStep, WakeOneStep, MutexStays
       DEF MutexStep, ResourceKept, Resource!holders
  <2>3. ASSUME NEW t \in Thread, ResourceStep(t)
        PROVE  [Resource!Next]_(Resource!holders)
    <3>1. CASE Aside(t) \/ ExReleaseResourceLite(t)
      BY <3>1, <2>3, AsideStep, ReleaseStep DEF Resource!holders
    <3>2. CASE TakeExclusive(t)
      BY <3>2, <2>3, TakeExclusiveStep DEF Resource!Next, Resource!AcquireExclusive, Resource!holders
    <3>3. CASE TakeShared(t)
      BY <3>3, <2>3, TakeSharedStep DEF Resource!Next, Resource!AcquireShared, Resource!holders
    <3>4. CASE StoreFree(t)
      <4>1. /\ ExclusiveHolders = {t} /\ ExclusiveHolders' = {}
            /\ SharedHolders' = SharedHolders /\ SharedHolders = {}
        BY <3>4, StoreStep DEF Inv, CountsHolders
      <4> QED BY <4>1 DEF Resource!Next, Resource!Release
    <3>5. CASE Drop(t)
      <4>1. /\ t \in SharedHolders /\ SharedHolders' = SharedHolders \ {t}
            /\ ExclusiveHolders' = ExclusiveHolders /\ ExclusiveHolders = {}
        BY <3>5, DropStep DEF Inv, CountsHolders
      <4> QED BY <4>1 DEF Resource!Next, Resource!Release
    <3> QED BY <2>3, <3>1, <3>2, <3>3, <3>4, <3>5 DEF ResourceStep
  <2> QED BY <2>1, <2>2, <2>3, StepsSplit
<1> QED BY <1>1, <1>2, InvAlways, PTL DEF Spec, ResourceIsLock, Resource!Spec

=============================================================================
