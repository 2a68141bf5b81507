---------------------------- MODULE DriverProofs ----------------------------
(***************************************************************************)
(* Proofs about the drivers, what they register and the devices they stack,   *)
(* for every number of drivers, slots, links and devices; and about the      *)
(* devices: the disk, the volume on it, the display and the interrupts.      *)
(***************************************************************************)
EXTENDS ServiceProofs, DriverManager, NtfsVolume, GpuDisplay, InterruptObjects, FunctionTheorems

-----------------------------------------------------------------------------
(* The invariant.                                                            *)

Someone == DriverName \union {"none"}
DeviceType == [owner : DriverName \union {"boot"}, stackSize : Nat, attached : Nat]
Registration == [driver : DriverName, via : Registrar, slot : Callback]

\* What is registered stands in its slot, no slot is registered twice, and in the tables
\* that can be emptied nothing else stands.
SlotsOk(rs, hs) ==
  /\ rs \in [Table -> [Callback -> Someone]]
  /\ hs \subseteq Registration
  /\ \A h \in hs : rs[TableOf(h.via)][h.slot] = h.driver
  /\ \A g, h \in hs : TableOf(g.via) = TableOf(h.via) /\ g.slot = h.slot => g = h
  /\ \A t \in {"ps", "ob"}, i \in Callback :
       rs[t][i] # "none" => \E h \in hs : h.via = t /\ h.slot = i

\* What is above and below agree, and the way up ends.
StacksOk(devs, low) ==
  /\ devs \in Seq(DeviceType) /\ devs # <<>>
  /\ low \in [1..Len(devs) -> 0..Len(devs)]
  /\ \A d \in 1..Len(devs) :
       /\ low[d] # 0 => /\ devs[low[d]].attached = d
                        /\ devs[d].stackSize = devs[low[d]].stackSize + 1
       /\ devs[d].attached # 0 => /\ devs[d].attached \in d + 1..Len(devs)
                                  /\ low[devs[d].attached] = d

LinksOk(ls) ==
  /\ ls \in [1..MaxLinks -> Someone]
  /\ \A i, j \in 1..MaxLinks : ls[i] = ls[j] /\ ls[i] # "none" => i = j

DmInv ==
  /\ atBoot \subseteq DriverName
  /\ state \in [DriverName -> {"unknown", "stopped", "running"}]
  /\ StacksOk(device, lower)
  /\ SlotsOk(routine, held)
  /\ LinksOk(link)
  /\ \A n \in DriverName : state[n] = "running" => \E d \in 1..Len(device) : device[d].owner = n

-----------------------------------------------------------------------------
(* The tables of callbacks.                                                  *)

\* The first of the free slots, if there is one.
LEMMA FreeSlot ==
  ASSUME NEW S, NEW n \in Nat, NEW slots \in [1..n -> S], FreeIn(slots) # {}
  PROVE  Min(FreeIn(slots)) \in 1..n /\ slots[Min(FreeIn(slots))] = "none"
<1>1. FreeIn(slots) \in SUBSET Nat /\ \A i \in FreeIn(slots) : i \in 1..n /\ slots[i] = "none"
  BY DEF FreeIn
<1> QED BY <1>1, LeastIn

\* A count that is enough takes all the slots there are.
LEMMA FirstAll ==
  ASSUME NEW n \in Nat, NEW S \in SUBSET (1..n)
  PROVE  First(Cardinality(S), S) = S
<1>1. IsFiniteSet(S)
  <2>1. IsFiniteSet(1..n)
    BY FS_Interval
  <2> QED BY <2>1, FS_Subset
<1>2. ASSUME NEW i \in S PROVE Cardinality({j \in S : j < i}) < Cardinality(S)
  <2> DEFINE B == {j \in S : j < i}
  <2>1. B \subseteq S /\ B # S
    OBVIOUS
  <2> HIDE DEF B
  <2>2. IsFiniteSet(B) /\ Cardinality(B) =< Cardinality(S) /\ Cardinality(B) # Cardinality(S)
    BY <1>1, <2>1, FS_Subset
  <2>3. Cardinality(B) \in Nat /\ Cardinality(S) \in Nat
    BY <1>1, <2>2, FS_CardinalityType
  <2> QED BY <2>2, <2>3 DEF B
<1> QED BY <1>2 DEF First

\* A driver has as many slots of the table of the Ps functions as it has registered there.
LEMMA SlotsCounted ==
  ASSUME NEW rs, NEW hs, SlotsOk(rs, hs), NEW n \in DriverName
  PROVE  Cardinality({h \in hs : h.driver = n /\ h.via = "ps"})
           = Cardinality({i \in Callback : rs["ps"][i] = n})
<1> DEFINE mine == {i \in Callback : rs["ps"][i] = n}
           psOwn == {h \in hs : h.driver = n /\ h.via = "ps"}
           f == [h \in psOwn |-> h.slot]
<1>1. /\ n # "none" /\ Callback = 1..CbMax /\ CbMax \in Nat
      /\ \A h \in hs : h.slot \in Callback /\ h.driver \in DriverName
      /\ \A h \in hs : h.via = "ps" => rs["ps"][h.slot] = h.driver
      /\ \A g, h \in hs : g.via = "ps" /\ h.via = "ps" /\ g.slot = h.slot => g = h
      /\ \A i \in Callback : rs["ps"][i] # "none" => \E h \in hs : h.via = "ps" /\ h.slot = i
  BY DmSizesOK DEF SlotsOk, Callback, Registration, TableOf
<1>2. \A h \in psOwn : h.slot \in mine
  BY <1>1
<1>3. \A g, h \in psOwn : g.slot = h.slot => g = h
  BY <1>1
<1>4. \A i \in mine : \E h \in psOwn : h.slot = i
  <2> SUFFICES ASSUME NEW i \in mine PROVE \E h \in psOwn : h.slot = i
    OBVIOUS
  <2>1. PICK h \in hs : h.via = "ps" /\ h.slot = i
    BY <1>1
  <2>2. h.driver = n
    BY <1>1, <2>1
  <2> QED BY <2>1, <2>2
<1> HIDE DEF psOwn
<1>5. IsFiniteSet(mine)
  <2>1. IsFiniteSet(1..CbMax)
    BY <1>1, FS_Interval
  <2> QED BY <1>1, <2>1, FS_Subset
<1> HIDE DEF mine
<1>6. f \in Bijection(psOwn, mine)
  BY <1>2, <1>3, <1>4, Fun_IsBij
<1>7. ExistsBijection(mine, psOwn)
  BY <1>6, Fun_ExistsBijSymmetric DEF ExistsBijection
<1> QED BY <1>5, <1>7, FS_Bijection DEF psOwn, mine

\* Whatever is registered through a function of its own stands as the other registrations do.
LEMMA RegisteredOk ==
  ASSUME NEW rs, NEW hs, SlotsOk(rs, hs), NEW n \in DriverName, NEW via \in Registrar
  PROVE  /\ SlotsOk(Registered(rs, n, via), hs \union Kept(rs, n, via))
         /\ TableOf(via) = "cm" => SlotsOk(Registered(rs, n, via), hs)
<1> DEFINE t == TableOf(via)
           s == Min(FreeIn(rs[t]))
<1>1. t \in Table /\ (t = "cm" <=> via \in {"cm", "ex"}) /\ (via # "ex" => t = via)
  BY DEF TableOf, Table, Registrar
<1>2. rs[t] \in [1..CbMax -> Someone] /\ CbMax \in Nat
  BY <1>1, DmSizesOK DEF SlotsOk, Callback
<1> HIDE DEF t
<1>3. CASE FreeIn(rs[t]) = {}
  <2>1. Registered(rs, n, via) = rs /\ Kept(rs, n, via) = {}
    BY <1>3 DEF Registered, Kept, t
  <2> QED BY <2>1
<1>4. CASE FreeIn(rs[t]) # {}
  <2>1. s \in Callback /\ rs[t][s] = "none"
    BY <1>2, <1>4, FreeSlot DEF Callback
  <2> DEFINE new == [driver |-> n, via |-> via, slot |-> s]
             after == [rs EXCEPT ![t][s] = n]
  <2>2. Registered(rs, n, via) = after /\ Kept(rs, n, via) = {new}
    BY <1>4 DEF Registered, Kept, t
  <2> HIDE DEF s
  <2>3. after \in [Table -> [Callback -> Someone]] /\ n # "none"
    BY <1>1, <2>1, DmSizesOK DEF SlotsOk, Someone
  <2>4. \A u \in Table, i \in Callback : after[u][i] = IF u = t /\ i = s THEN n ELSE rs[u][i]
    BY <1>1, <2>1 DEF SlotsOk
  <2> HIDE DEF after
  <2>5. new \in Registration
    BY <2>1 DEF Registration
  <2>6. \A h \in hs : /\ h \in Registration /\ TableOf(h.via) \in Table /\ h.slot \in Callback
                      /\ h.driver # "none" /\ ~(TableOf(h.via) = t /\ h.slot = s)
    BY <2>1, DmSizesOK DEF SlotsOk, Registration, TableOf, Registrar, Table
  <2>7. \A h \in hs : after[TableOf(h.via)][h.slot] = h.driver
    BY <2>4, <2>6 DEF SlotsOk
  <2>8. /\ new.driver = n /\ new.via = via /\ new.slot = s
        /\ after[TableOf(new.via)][new.slot] = new.driver
    BY <1>1, <2>1, <2>4 DEF t
  <2> HIDE DEF new
  <2>9. \A g, h \in hs \union {new} :
          TableOf(g.via) = TableOf(h.via) /\ g.slot = h.slot => g = h
    BY <2>6, <2>8 DEF SlotsOk, t
  <2>10. ASSUME NEW u \in {"ps", "ob"}, NEW i \in Callback, after[u][i] # "none", u = t => i # s
         PROVE  \E h \in hs : h.via = u /\ h.slot = i
    <3>1. u \in Table /\ rs[u][i] # "none"
      BY <2>4, <2>10 DEF Table
    <3> QED BY <3>1 DEF SlotsOk
  <2>11. \A u \in {"ps", "ob"}, i \in Callback :
           after[u][i] # "none" => \E h \in hs \union {new} : h.via = u /\ h.slot = i
    BY <1>1, <2>8, <2>10
  <2>12. SlotsOk(after, hs \union {new})
    BY <2>3, <2>5, <2>6, <2>7, <2>8, <2>9, <2>11 DEF SlotsOk
  <2>13. ASSUME t = "cm" PROVE SlotsOk(after, hs)
    <3>1. \A u \in {"ps", "ob"}, i \in Callback :
            after[u][i] # "none" => \E h \in hs : h.via = u /\ h.slot = i
      BY <2>10, <2>13
    <3> QED BY <2>3, <2>6, <2>7, <3>1 DEF SlotsOk
  <2> QED BY <2>2, <2>12, <2>13 DEF t
<1> QED BY <1>3, <1>4

\* What a driver has registered is taken out of the tables, and nothing else.
LEMMA UnregisteredOk ==
  ASSUME NEW rs, NEW hs, SlotsOk(rs, hs), NEW n \in DriverName
  PROVE  LET own == {h \in hs : h.driver = n}
         IN SlotsOk(Unregistered(rs, n, own), hs \ own)
<1> DEFINE own == {h \in hs : h.driver = n}
           out == Emptied(rs, n, own)
           after == Unregistered(rs, n, own)
           mine == {i \in Callback : rs["ps"][i] = n}
           psOwn == {h \in own : h.via = "ps"}
           rest == hs \ own
<1>1. /\ rs \in [Table -> [Callback -> Someone]] /\ n # "none" /\ Callback = 1..CbMax /\ CbMax \in Nat
      /\ hs \subseteq Registration
      /\ \A h \in hs : rs[TableOf(h.via)][h.slot] = h.driver
      /\ \A g, h \in hs : TableOf(g.via) = TableOf(h.via) /\ g.slot = h.slot => g = h
      /\ \A t \in {"ps", "ob"}, i \in Callback :
           rs[t][i] # "none" => \E h \in hs : h.via = t /\ h.slot = i
  BY DmSizesOK DEF SlotsOk, Callback
<1>2. \A h \in hs : /\ h.slot \in Callback /\ h.driver \in DriverName /\ h.via \in Registrar
                    /\ TableOf(h.via) = IF h.via = "ex" THEN "cm" ELSE h.via
  BY <1>1 DEF Registration, TableOf
<1>3. out["ps"] = First(Cardinality(psOwn), mine)
      /\ out["ob"] = {h.slot : h \in {h \in own : h.via = "ob"}}
      /\ out["cm"] = {h.slot : h \in {h \in own : h.via = "ex"}}
  BY DEF Emptied
<1>4. psOwn = {h \in hs : h.driver = n /\ h.via = "ps"}
  OBVIOUS
<1>5. Cardinality(psOwn) = Cardinality(mine)
  <2> HIDE DEF psOwn, mine
  <2>1. Cardinality({h \in hs : h.driver = n /\ h.via = "ps"}) = Cardinality(mine)
    BY SlotsCounted DEF mine
  <2> QED BY <1>4, <2>1
<1>6. out["ps"] = mine
  <2>1. mine \in SUBSET (1..CbMax)
    BY <1>1
  <2> HIDE DEF mine, psOwn, out
  <2> QED BY <1>1, <1>3, <1>5, <2>1, FirstAll
<1>7. \A t \in Table, i \in Callback : after[t][i] = IF i \in out[t] THEN "none" ELSE rs[t][i]
  BY DEF Unregistered
<1>8. after \in [Table -> [Callback -> Someone]]
  BY <1>1 DEF Unregistered, Someone
<1> HIDE DEF after
<1>9. ASSUME NEW h \in rest
      PROVE  h.slot \notin out[TableOf(h.via)]
  <2>1. h \in hs /\ h.driver # n /\ h.slot \in Callback /\ h.via \in Registrar
    BY <1>2, <1>9
  <2>2. \A g \in own : g \in hs /\ g.driver = n
    OBVIOUS
  <2>3. CASE h.via = "ps"
    <3>1. rs["ps"][h.slot] # n /\ TableOf(h.via) = "ps"
      BY <1>1, <1>2, <2>1, <2>3
    <3> QED BY <1>6, <3>1
  <2>4. CASE h.via = "ob"
    <3>1. TableOf(h.via) = "ob"
      BY <1>2, <2>1, <2>4
    <3>2. ASSUME NEW g \in own, g.via = "ob", g.slot = h.slot PROVE FALSE
      BY <1>1, <2>1, <2>2, <2>4, <3>2
    <3> QED BY <1>3, <3>1, <3>2
  <2>5. CASE h.via \in {"cm", "ex"}
    <3>1. TableOf(h.via) = "cm"
      BY <1>2, <2>1, <2>5
    <3>2. ASSUME NEW g \in own, g.via = "ex", g.slot = h.slot PROVE FALSE
      <4>1. TableOf(g.via) = "cm"
        BY <1>2, <2>2, <3>2
      <4> QED BY <1>1, <2>1, <2>2, <3>1, <3>2, <4>1
    <3> QED BY <1>3, <3>1, <3>2
  <2> QED BY <2>1, <2>3, <2>4, <2>5 DEF Registrar
<1>10. \A h \in rest : after[TableOf(h.via)][h.slot] = h.driver
  <2> SUFFICES ASSUME NEW h \in rest PROVE after[TableOf(h.via)][h.slot] = h.driver
    OBVIOUS
  <2>1. TableOf(h.via) \in Table /\ h.slot \in Callback /\ h \in hs
    BY <1>2 DEF Table, Registrar
  <2> HIDE DEF rest, out
  <2> QED BY <1>1, <1>7, <1>9, <2>1
<1>11. ASSUME NEW t \in {"ps", "ob"}, NEW i \in Callback, after[t][i] # "none"
       PROVE  \E h \in rest : h.via = t /\ h.slot = i
  <2>1. i \notin out[t] /\ rs[t][i] # "none"
    <3>1. t \in Table
      BY DEF Table
    <3> QED BY <1>7, <1>11, <3>1
  <2>2. PICK h \in hs : h.via = t /\ h.slot = i
    BY <1>1, <2>1
  <2>3. h \notin own
    <3> SUFFICES ASSUME h \in own PROVE FALSE
      OBVIOUS
    <3>1. CASE t = "ps"
      BY <1>1, <1>2, <1>6, <2>1, <2>2, <3>1
    <3>2. CASE t = "ob"
      BY <1>3, <2>1, <2>2, <3>2
    <3> QED BY <3>1, <3>2
  <2> QED BY <2>2, <2>3
<1>12. rest \subseteq Registration
       /\ \A g, h \in rest : TableOf(g.via) = TableOf(h.via) /\ g.slot = h.slot => g = h
  BY <1>1
<1>13. SlotsOk(after, rest)
  <2> HIDE DEF rest
  <2> QED BY <1>8, <1>10, <1>11, <1>12 DEF SlotsOk
<1> QED BY <1>13 DEF after

-----------------------------------------------------------------------------
(* The stacks of devices.                                                    *)

\* The first n steps up from device d.
Climb(g, devs, d, n) ==
  g = [i \in 0..n |-> IF i = 0 THEN d
                      ELSE LET below == g[i - 1]
                           IN IF devs[below].attached = 0 THEN below ELSE devs[below].attached]

\* One can go up any number of steps.
LEMMA ClimbExists ==
  ASSUME NEW devs, NEW d
  PROVE  \A n \in Nat : \E g : Climb(g, devs, d, n)
<1> DEFINE T == {n \in Nat : ~ \E g : Climb(g, devs, d, n)}
           Over(e) == IF devs[e].attached = 0 THEN e ELSE devs[e].attached
<1>1. 0 \notin T
  <2>1. Climb([i \in 0..0 |-> d], devs, d, 0)
    BY DEF Climb
  <2> QED BY <2>1
<1>2. ASSUME NEW n \in Nat, n \notin T PROVE n + 1 \notin T
  <2>1. PICK g : Climb(g, devs, d, n)
    BY <1>2
  <2> DEFINE h == [i \in 0..n + 1 |-> IF i <= n THEN g[i] ELSE Over(g[n])]
  <2>2. \A i \in 0..n : g[i] = IF i = 0 THEN d ELSE Over(g[i - 1])
    BY <2>1 DEF Climb
  <2>3. \A i \in 0..n : h[i] = g[i]
    OBVIOUS
  <2> HIDE DEF Over
  <2>4. ASSUME NEW i \in 0..n + 1
        PROVE  h[i] = IF i = 0 THEN d ELSE Over(h[i - 1])
    <3>1. CASE i = 0
      BY <2>2, <3>1
    <3>2. CASE i \in 1..n
      <4>1. i - 1 \in 0..n /\ i \in 0..n /\ i # 0
        BY <3>2
      <4> HIDE DEF h
      <4> QED BY <2>2, <2>3, <4>1
    <3>3. CASE i = n + 1
      <4>1. i - 1 = n /\ n \in 0..n /\ ~(i <= n) /\ i # 0
        BY <3>3
      <4>2. h[i - 1] = g[n]
        BY <2>3, <4>1
      <4> QED BY <3>3, <4>1, <4>2
    <3> QED BY <3>1, <3>2, <3>3
  <2>5. h = [i \in 0..n + 1 |-> h[i]]
    OBVIOUS
  <2>6. Climb(h, devs, d, n + 1)
    <3> HIDE DEF h
    <3>1. h = [i \in 0..n + 1 |-> IF i = 0 THEN d ELSE Over(h[i - 1])]
      BY <2>4, <2>5
    <3> QED BY <3>1 DEF Climb, Over
  <2> QED BY <2>6
<1>3. T = {}
  BY <1>1, <1>2, NothingFirst
<1> QED BY <1>3

\* The way up from a device ends at one that nothing is attached to.
LEMMA TopFound ==
  ASSUME NEW devs, NEW low, StacksOk(devs, low), NEW d \in 1..Len(devs)
  PROVE  Top(devs, d) \in 1..Len(devs) /\ devs[Top(devs, d)].attached = 0
<1> DEFINE N == Len(devs)
           g == CHOOSE g : Climb(g, devs, d, N)
<1>1. N \in Nat /\ N > 0
  BY DEF StacksOk
<1>2. Climb(g, devs, d, N)
  BY <1>1, ClimbExists
<1>3. Top(devs, d) = g[N]
  BY DEF Top, Climb
<1> HIDE DEF g
<1>4. g[0] = d
  BY <1>1, <1>2 DEF Climb
<1>5. ASSUME NEW i \in Nat, i + 1 <= N
      PROVE  g[i + 1] = IF devs[g[i]].attached = 0 THEN g[i] ELSE devs[g[i]].attached
  <2>1. i + 1 \in 0..N /\ i + 1 # 0 /\ (i + 1) - 1 = i
    BY <1>1, <1>5
  <2> QED BY <1>2, <2>1 DEF Climb
<1> DEFINE Fits(i) == g[i] \in 1..N /\ (devs[g[i]].attached = 0 \/ g[i] > i)
           T == {i \in Nat : i <= N /\ ~Fits(i)}
<1>6. \A e \in 1..N : devs[e].attached = 0 \/ devs[e].attached \in e + 1..N
  BY DEF StacksOk
<1>7. 0 \notin T
  BY <1>4
<1>8. ASSUME NEW i \in Nat, i \notin T PROVE i + 1 \notin T
  <2> SUFFICES ASSUME i + 1 <= N PROVE Fits(i + 1)
    OBVIOUS
  <2>1. Fits(i)
    BY <1>1, <1>8
  <2>2. g[i + 1] = IF devs[g[i]].attached = 0 THEN g[i] ELSE devs[g[i]].attached
    BY <1>5
  <2>3. CASE devs[g[i]].attached = 0
    BY <2>1, <2>2, <2>3
  <2>4. CASE devs[g[i]].attached # 0
    <3>1. devs[g[i]].attached \in g[i] + 1..N /\ g[i] > i /\ g[i] \in 1..N
      BY <1>6, <2>1, <2>4
    <3> QED BY <1>1, <2>2, <2>4, <3>1
  <2> QED BY <2>3, <2>4
<1>9. T = {}
  <2> HIDE DEF Fits
  <2>1. T \in SUBSET Nat
    OBVIOUS
  <2> HIDE DEF T
  <2> QED BY <1>7, <1>8, <2>1, NothingFirst
<1>10. Fits(N)
  BY <1>1, <1>9
<1> QED BY <1>1, <1>3, <1>10

\* Only what is above device i changes.
LEMMA AboveSet ==
  ASSUME NEW n \in Nat, NEW devs \in [1..n -> DeviceType], NEW i \in 1..n, NEW a \in Nat
  PROVE  /\ WithAbove(devs, i, a) \in [1..n -> DeviceType]
         /\ \A e \in 1..n :
              /\ WithAbove(devs, i, a)[e].owner = devs[e].owner
              /\ WithAbove(devs, i, a)[e].attached = IF e = i THEN a ELSE devs[e].attached
              /\ WithAbove(devs, i, a)[e].stackSize = devs[e].stackSize
BY DEF WithAbove, DeviceType

\* A device that nothing was attached to and that is attached to nothing.
LEMMA CreatedOk ==
  ASSUME NEW devs, NEW low, StacksOk(devs, low), NEW n \in DriverName
  PROVE  LET after == Created(devs, n, 1) IN
         /\ StacksOk(after, Append(low, 0))
         /\ Len(after) = Len(devs) + 1
         /\ after[Len(devs) + 1].owner = n
         /\ \A e \in 1..Len(devs) : after[e].owner = devs[e].owner
<1> DEFINE N == Len(devs)
           new == [owner |-> n, stackSize |-> 1, attached |-> 0]
           after == Append(devs, new)
           under == Append(low, 0)
<1>1. N \in Nat /\ devs \in Seq(DeviceType) /\ low \in [1..N -> 0..N] /\ N > 0
  BY DEF StacksOk
<1>2. low \in Seq(0..N) /\ Len(low) = N
  BY <1>1, IsASeq
<1>3. new \in DeviceType
  BY DEF DeviceType
<1>4. new.owner = n /\ new.attached = 0
  OBVIOUS
<1>5. Created(devs, n, 1) = after
  BY DEF Created
<1> HIDE DEF new
<1>6. after \in Seq(DeviceType) /\ Len(after) = N + 1 /\ after[N + 1] = new
      /\ \A e \in 1..N : after[e] = devs[e]
  BY <1>1, <1>3, AppendProperties
<1>7. under \in Seq(0..N) /\ Len(under) = N + 1 /\ under[N + 1] = 0
      /\ \A e \in 1..N : under[e] = low[e]
  BY <1>1, <1>2, AppendProperties
<1> HIDE DEF after, under
<1>8. under \in [1..N + 1 -> 0..N + 1]
  <2>1. under = [e \in 1..N + 1 |-> under[e]]
    BY <1>7, LenProperties
  <2>2. \A e \in 1..N + 1 : under[e] \in 0..N + 1
    BY <1>1, <1>7
  <2> QED BY <2>1, <2>2
<1>9. ASSUME NEW d \in 1..N + 1
      PROVE  /\ under[d] # 0 => /\ after[under[d]].attached = d
                                /\ after[d].stackSize = after[under[d]].stackSize + 1
             /\ after[d].attached # 0 => /\ after[d].attached \in d + 1..N + 1
                                         /\ under[after[d].attached] = d
  <2>1. CASE d \in 1..N
    <3>1. low[d] \in 0..N /\ under[d] = low[d] /\ after[d] = devs[d]
      BY <1>1, <1>6, <1>7, <2>1
    <3>2. /\ low[d] # 0 => devs[low[d]].attached = d /\ devs[d].stackSize = devs[low[d]].stackSize + 1
          /\ devs[d].attached # 0 => devs[d].attached \in d + 1..N /\ low[devs[d].attached] = d
      BY <2>1 DEF StacksOk
    <3>3. ASSUME low[d] # 0 PROVE after[low[d]] = devs[low[d]]
      BY <1>1, <1>6, <3>1, <3>3
    <3>4. ASSUME devs[d].attached # 0
          PROVE  devs[d].attached \in d + 1..N + 1 /\ under[devs[d].attached] = d
      <4>1. devs[d].attached \in 1..N
        BY <1>1, <2>1, <3>2, <3>4
      <4> QED BY <1>1, <1>7, <3>2, <3>4, <4>1
    <3> QED BY <3>1, <3>2, <3>3, <3>4
  <2>2. CASE d = N + 1
    BY <1>4, <1>6, <1>7, <2>2
  <2> QED BY <1>1, <2>1, <2>2
<1>10. after # <<>>
  BY <1>1, <1>6
<1>11. StacksOk(after, under)
  BY <1>6, <1>8, <1>9, <1>10 DEF StacksOk
<1> QED BY <1>4, <1>5, <1>6, <1>11 DEF under

\* The new device on top of the stack of another.
LEMMA AttachedOk ==
  ASSUME NEW devs, NEW low, StacksOk(devs, low), NEW n \in DriverName
  PROVE  LET after == WithAbove(Created(devs, n, devs[Top(devs, 1)].stackSize + 1),
                                Top(devs, 1), Len(devs) + 1) IN
         /\ StacksOk(after, Append(low, Top(devs, 1)))
         /\ Len(after) = Len(devs) + 1
         /\ after[Len(devs) + 1].owner = n
         /\ \A e \in 1..Len(devs) : after[e].owner = devs[e].owner
<1> DEFINE N == Len(devs)
           new == N + 1
           top == Top(devs, 1)
           k == devs[top].stackSize + 1
           mid == Created(devs, n, k)
           after == WithAbove(mid, top, new)
           under == Append(low, top)
<1>1. N \in Nat /\ devs \in Seq(DeviceType) /\ low \in [1..N -> 0..N] /\ N > 0
  BY DEF StacksOk
<1>2. top \in 1..N /\ devs[top].attached = 0
  BY <1>1, TopFound
<1>3. k \in Nat
  <2>1. devs[top] \in DeviceType
    BY <1>1, <1>2, ElementOfSeq
  <2> QED BY <2>1 DEF DeviceType
<1> HIDE DEF k
<1>4. /\ mid \in Seq(DeviceType) /\ Len(mid) = new /\ mid[new].owner = n
      /\ mid[new].attached = 0 /\ mid[new].stackSize = k
      /\ \A e \in 1..N : mid[e] = devs[e]
  <2> DEFINE one == [owner |-> n, stackSize |-> k, attached |-> 0]
  <2>1. one \in DeviceType /\ one.owner = n /\ one.attached = 0 /\ one.stackSize = k
    BY <1>3 DEF DeviceType
  <2>2. mid = Append(devs, one)
    BY DEF Created
  <2> HIDE DEF one, mid
  <2> QED BY <1>1, <2>1, <2>2, AppendProperties
<1> HIDE DEF top, mid
<1>5. mid \in [1..new -> DeviceType]
  BY <1>1, <1>4, LenProperties
<1>6. /\ after \in [1..new -> DeviceType]
      /\ \A e \in 1..new :
           /\ after[e].owner = mid[e].owner
           /\ after[e].attached = IF e = top THEN new ELSE mid[e].attached
           /\ after[e].stackSize = mid[e].stackSize
  <2>1. new \in Nat /\ top \in 1..new
    BY <1>1, <1>2
  <2> HIDE DEF new
  <2> QED BY <1>5, <2>1, AboveSet
<1> HIDE DEF after
<1>7. after \in Seq(DeviceType) /\ Len(after) = new
  BY <1>1, <1>6, IsASeq
<1>8. low \in Seq(0..N) /\ Len(low) = N
  BY <1>1, IsASeq
<1>9. under \in Seq(0..N) /\ Len(under) = new /\ under[new] = top
      /\ \A e \in 1..N : under[e] = low[e]
  BY <1>1, <1>2, <1>8, AppendProperties
<1> HIDE DEF under
<1>10. under \in [1..new -> 0..new]
  <2>1. under = [e \in 1..new |-> under[e]]
    BY <1>9, LenProperties
  <2>2. \A e \in 1..new : under[e] \in 0..new
    BY <1>1, <1>2, <1>9
  <2> QED BY <2>1, <2>2
<1>11. ASSUME NEW d \in 1..new
       PROVE  /\ under[d] # 0 => /\ after[under[d]].attached = d
                                 /\ after[d].stackSize = after[under[d]].stackSize + 1
              /\ after[d].attached # 0 => /\ after[d].attached \in d + 1..new
                                          /\ under[after[d].attached] = d
  <2>1. CASE d \in 1..N
    <3>1. low[d] \in 0..N /\ under[d] = low[d] /\ d # new
      BY <1>1, <1>9, <2>1
    <3>2. /\ low[d] # 0 => devs[low[d]].attached = d /\ devs[d].stackSize = devs[low[d]].stackSize + 1
          /\ devs[d].attached # 0 => devs[d].attached \in d + 1..N /\ low[devs[d].attached] = d
      BY <2>1 DEF StacksOk
    <3>3. ASSUME low[d] # 0
          PROVE  after[low[d]].attached = d /\ after[d].stackSize = after[low[d]].stackSize + 1
      <4>1. low[d] \in 1..N /\ low[d] # top
        BY <1>2, <2>1, <3>1, <3>2, <3>3
      <4> QED BY <1>1, <1>4, <1>6, <2>1, <3>1, <3>2, <3>3, <4>1
    <3>4. ASSUME after[d].attached # 0
          PROVE  after[d].attached \in d + 1..new /\ under[after[d].attached] = d
      <4>1. CASE d = top
        BY <1>1, <1>2, <1>6, <1>9, <2>1, <4>1
      <4>2. CASE d # top
        <5>1. after[d].attached = devs[d].attached
          BY <1>1, <1>4, <1>6, <2>1, <4>2
        <5>2. devs[d].attached \in d + 1..N /\ devs[d].attached \in 1..N
          BY <1>1, <2>1, <3>2, <3>4, <5>1
        <5> QED BY <1>1, <1>9, <3>2, <3>4, <5>1, <5>2
      <4> QED BY <4>1, <4>2
    <3> QED BY <3>1, <3>3, <3>4
  <2>2. CASE d = new
    <3>1. under[d] = top /\ after[top].attached = new /\ after[d].stackSize = k
          /\ after[top].stackSize = devs[top].stackSize /\ after[d].attached = 0
      BY <1>1, <1>2, <1>4, <1>6, <1>9, <2>2
    <3> QED BY <2>2, <3>1 DEF k
  <2> QED BY <1>1, <2>1, <2>2
<1>12. after # <<>>
  BY <1>1, <1>7
<1>13. StacksOk(after, under)
  <2> HIDE DEF new
  <2>1. under \in [1..Len(after) -> 0..Len(after)]
    BY <1>7, <1>10
  <2>2. \A d \in 1..Len(after) :
          /\ under[d] # 0 => /\ after[under[d]].attached = d
                             /\ after[d].stackSize = after[under[d]].stackSize + 1
          /\ after[d].attached # 0 => /\ after[d].attached \in d + 1..Len(after)
                                      /\ under[after[d].attached] = d
    BY <1>7, <1>11
  <2> QED BY <1>7, <1>12, <2>1, <2>2 DEF StacksOk
<1>14. after[new].owner = n /\ \A e \in 1..N : after[e].owner = devs[e].owner
  BY <1>1, <1>4, <1>6
<1> QED BY <1>7, <1>13, <1>14 DEF after, under, top, mid, k

\* A device that is taken off the one below it.
LEMMA DetachedOk ==
  ASSUME NEW devs, NEW low, StacksOk(devs, low), NEW d \in 1..Len(devs), low[d] # 0
  PROVE  LET after == WithAbove(devs, low[d], 0) IN
         /\ StacksOk(after, [low EXCEPT ![d] = 0])
         /\ Len(after) = Len(devs)
         /\ \A e \in 1..Len(devs) : after[e].owner = devs[e].owner
<1> DEFINE N == Len(devs)
           b == low[d]
           after == WithAbove(devs, b, 0)
           under == [low EXCEPT ![d] = 0]
<1>1. N \in Nat /\ devs \in Seq(DeviceType) /\ low \in [1..N -> 0..N] /\ N > 0
  BY DEF StacksOk
<1>2. b \in 1..N /\ devs[b].attached = d
  BY <1>1 DEF StacksOk
<1>3. devs \in [1..N -> DeviceType]
  BY <1>1, LenProperties
<1> HIDE DEF b
<1>4. /\ after \in [1..N -> DeviceType]
      /\ \A e \in 1..N : /\ after[e].owner = devs[e].owner
                         /\ after[e].attached = IF e = b THEN 0 ELSE devs[e].attached
                         /\ after[e].stackSize = devs[e].stackSize
  BY <1>1, <1>2, <1>3, AboveSet
<1>5. /\ under \in [1..N -> 0..N]
      /\ \A e \in 1..N : under[e] = IF e = d THEN 0 ELSE low[e]
  BY <1>1
<1> HIDE DEF after, under
<1>6. after \in Seq(DeviceType) /\ Len(after) = N
  BY <1>1, <1>4, IsASeq
<1>7. ASSUME NEW e \in 1..N
      PROVE  /\ under[e] # 0 => /\ after[under[e]].attached = e
                                /\ after[e].stackSize = after[under[e]].stackSize + 1
             /\ after[e].attached # 0 => /\ after[e].attached \in e + 1..N
                                         /\ under[after[e].attached] = e
  <2>1. /\ low[e] # 0 => devs[low[e]].attached = e /\ devs[e].stackSize = devs[low[e]].stackSize + 1
        /\ devs[e].attached # 0 => devs[e].attached \in e + 1..N /\ low[devs[e].attached] = e
        /\ low[e] \in 0..N
    BY <1>1 DEF StacksOk
  <2>2. ASSUME under[e] # 0
        PROVE  /\ after[under[e]].attached = e
               /\ after[e].stackSize = after[under[e]].stackSize + 1
    <3>1. e # d /\ under[e] = low[e] /\ low[e] \in 1..N
      BY <1>5, <2>1, <2>2
    <3>2. low[e] # b
      BY <1>2, <2>1, <2>2, <3>1
    <3> QED BY <1>4, <2>1, <2>2, <3>1, <3>2
  <2>3. ASSUME after[e].attached # 0
        PROVE  after[e].attached \in e + 1..N /\ under[after[e].attached] = e
    <3>1. e # b /\ after[e].attached = devs[e].attached
      BY <1>4, <2>3
    <3>2. devs[e].attached \in 1..N /\ low[devs[e].attached] = e
      BY <1>1, <2>1, <2>3, <3>1
    <3>3. devs[e].attached # d
      BY <3>1, <3>2 DEF b
    <3> QED BY <1>5, <2>1, <2>3, <3>1, <3>2, <3>3
  <2> QED BY <2>2, <2>3
<1>8. after # <<>>
  BY <1>1, <1>6
<1>9. StacksOk(after, under)
  BY <1>5, <1>6, <1>7, <1>8 DEF StacksOk
<1> QED BY <1>4, <1>6, <1>9 DEF after, under, b

-----------------------------------------------------------------------------
(* The links.                                                                *)

\* A link that is there is not made twice.
LEMMA LinkedOk ==
  ASSUME NEW ls, LinksOk(ls), NEW n \in DriverName
  PROVE  LinksOk(Linked(ls, n))
<1>1. MaxLinks \in Nat /\ ls \in [1..MaxLinks -> Someone] /\ n \in Someone /\ n # "none"
  BY DmSizesOK DEF LinksOk, Someone
<1> DEFINE own == {i \in DOMAIN ls : ls[i] = n}
           s == Min(FreeIn(ls))
<1>2. CASE own # {} \/ FreeIn(ls) = {}
  <2>1. Linked(ls, n) = ls
    BY <1>2 DEF Linked
  <2> QED BY <2>1
<1>3. CASE own = {} /\ FreeIn(ls) # {}
  <2>1. s \in 1..MaxLinks /\ ls[s] = "none"
    BY <1>1, <1>3, FreeSlot
  <2>2. Linked(ls, n) = [ls EXCEPT ![s] = n]
    BY <1>3 DEF Linked
  <2>3. \A i \in 1..MaxLinks : ls[i] # n
    BY <1>1, <1>3
  <2> HIDE DEF s
  <2> QED BY <1>1, <2>1, <2>2, <2>3 DEF LinksOk
<1> QED BY <1>2, <1>3

\* A link that is deleted leaves its slot.
LEMMA UnlinkedOk ==
  ASSUME NEW ls, LinksOk(ls), NEW n
  PROVE  LinksOk(Unlinked(ls, n))
<1> DEFINE own == {i \in DOMAIN ls : ls[i] = n}
           s == Min(own)
<1>1. MaxLinks \in Nat /\ ls \in [1..MaxLinks -> Someone] /\ "none" \in Someone
  BY DmSizesOK DEF LinksOk, Someone
<1>2. CASE own = {}
  <2>1. Unlinked(ls, n) = ls
    BY <1>2 DEF Unlinked
  <2> QED BY <2>1
<1>3. CASE own # {}
  <2>1. Unlinked(ls, n) = [ls EXCEPT ![s] = "none"]
    BY <1>3 DEF Unlinked
  <2>2. own \in SUBSET Nat
    BY <1>1
  <2>3. s \in 1..MaxLinks
    <3> HIDE DEF own
    <3>1. s \in own
      BY <1>3, <2>2, LeastIn
    <3> QED BY <1>1, <3>1 DEF own
  <2> HIDE DEF s
  <2> QED BY <1>1, <2>1, <2>3 DEF LinksOk
<1> QED BY <1>2, <1>3

-----------------------------------------------------------------------------
(* The steps.                                                                *)

\* What the invariant is for.
LEMMA DmInvPromises == DmInv => DmTypeOK /\ DriversSound
<1> SUFFICES ASSUME DmInv PROVE DmTypeOK /\ DriversSound
  OBVIOUS
<1>1. /\ device \in Seq(DeviceType) /\ DOMAIN device = 1..Len(device)
      /\ lower \in [1..Len(device) -> 0..Len(device)]
  BY LenProperties DEF DmInv, StacksOk
<1>2. DmTypeOK
  BY <1>1 DEF DmInv, DmTypeOK, SlotsOk, LinksOk, DeviceType, Someone, Registration
<1>3. RegistrationsStand
  <2>1. \A h \in held : routine[TableOf(h.via)][h.slot] = h.driver
    BY DEF DmInv, SlotsOk
  <2>2. ASSUME NEW n \in DriverName
        PROVE  Cardinality(SlotsOf(n, "ps"))
                 = Cardinality({h \in held : h.driver = n /\ h.via = "ps"})
    BY <2>2, SlotsCounted DEF DmInv, SlotsOf
  <2>3. \A i \in Callback : routine["ob"][i] # "none" => \E h \in held : h.via = "ob" /\ h.slot = i
    BY DEF DmInv, SlotsOk
  <2> QED BY <2>1, <2>2, <2>3 DEF RegistrationsStand
<1>4. StacksMatch
  BY <1>1 DEF DmInv, StacksOk, StacksMatch
<1>5. LinksOnce
  <2>1. DOMAIN link = 1..MaxLinks
    BY DEF DmInv, LinksOk
  <2> QED BY <2>1 DEF DmInv, LinksOk, LinksOnce
<1> QED BY <1>2, <1>3, <1>4, <1>5 DEF DriversSound

\* At the start.
LEMMA DmStart == DmInit => DmInv
<1> SUFFICES ASSUME DmInit PROVE DmInv
  OBVIOUS
<1> DEFINE disk == [owner |-> "boot", stackSize |-> 1, attached |-> 0]
<1>1. disk \in DeviceType /\ disk.attached = 0
  BY DEF DeviceType
<1>2. device = <<disk>> /\ lower = <<0>>
  BY DEF DmInit
<1> HIDE DEF disk
<1>3. device \in Seq(DeviceType) /\ Len(device) = 1 /\ device[1] = disk
  BY <1>1, <1>2
<1>4. lower \in [1..1 -> 0..1] /\ lower[1] = 0
  BY <1>2
<1>5. StacksOk(device, lower)
  <2>1. device # <<>>
    BY <1>2
  <2> QED BY <1>1, <1>3, <1>4, <2>1 DEF StacksOk
<1>6. SlotsOk(routine, held)
  BY DEF DmInit, SlotsOk, Someone, Table
<1>7. LinksOk(link)
  BY DEF DmInit, LinksOk, Someone
<1> QED BY <1>5, <1>6, <1>7 DEF DmInit, DmInv

\* Devices keep the driver that made them, so that a running driver has one.
LEMMA OwnersStay ==
  ASSUME DmInv, Len(device') \in Nat, Len(device) <= Len(device'),
         \A d \in 1..Len(device) : device'[d].owner = device[d].owner,
         NEW n \in DriverName, state[n] = "running"
  PROVE  \E d \in 1..Len(device') : device'[d].owner = n
<1>1. PICK d \in 1..Len(device) : device[d].owner = n
  BY DEF DmInv
<1>2. Len(device) \in Nat
  BY LenProperties DEF DmInv, StacksOk
<1>3. d \in 1..Len(device')
  BY <1>2
<1> QED BY <1>1, <1>3

\* What DriverEntry leaves.
LEMMA EntryKept ==
  ASSUME DmInv, NEW n \in DriverName, NEW via \in Registrar, NEW attaches \in BOOLEAN,
         DriverEntry(n, via, attaches)
  PROVE  /\ StacksOk(device, lower)' /\ SlotsOk(routine, held)' /\ LinksOk(link)'
         /\ Len(device') = Len(device) + 1 /\ Len(device) \in Nat
         /\ device'[Len(device) + 1].owner = n
         /\ \A d \in 1..Len(device) : device'[d].owner = device[d].owner
<1>1. Len(device) \in Nat
  BY LenProperties DEF DmInv, StacksOk
<1>2. StacksOk(device, lower)
  BY DEF DmInv
<1>3. /\ StacksOk(device', lower') /\ Len(device') = Len(device) + 1
      /\ device'[Len(device) + 1].owner = n
      /\ \A d \in 1..Len(device) : device'[d].owner = device[d].owner
  <2>1. CASE attaches
    <3>1. /\ device' = WithAbove(Created(device, n, device[Top(device, 1)].stackSize + 1),
                                 Top(device, 1), Len(device) + 1)
          /\ lower' = Append(lower, Top(device, 1))
      BY <2>1 DEF DriverEntry, IoCreateDevice
    <3> QED BY ONLY <1>2, <3>1, n \in DriverName, AttachedOk
  <2>2. CASE ~attaches
    <3>1. device' = Created(device, n, 1) /\ lower' = Append(lower, 0)
      BY <2>2 DEF DriverEntry, IoCreateDevice
    <3> QED BY ONLY <1>2, <3>1, n \in DriverName, CreatedOk
  <2> QED BY <2>1, <2>2
<1>4. SlotsOk(routine', held')
  <2>1. routine' = Registered(routine, n, via) /\ held' = held \union Kept(routine, n, via)
    BY DEF DriverEntry
  <2> QED BY <2>1, RegisteredOk DEF DmInv
<1>5. LinksOk(link')
  <2>1. link' = Linked(link, n)
    BY DEF DriverEntry
  <2> QED BY <2>1, LinkedOk DEF DmInv
<1> QED BY <1>1, <1>3, <1>4, <1>5

\* What DriverUnload leaves.
LEMMA UnloadKept ==
  ASSUME DmInv, NEW n \in DriverName, state[n] = "running", DriverUnload(n)
  PROVE  /\ StacksOk(device, lower)' /\ SlotsOk(routine, held)' /\ LinksOk(link)'
         /\ Len(device') = Len(device) /\ Len(device) \in Nat
         /\ \A d \in 1..Len(device) : device'[d].owner = device[d].owner
<1>1. Len(device) \in Nat /\ DOMAIN device = 1..Len(device)
  BY LenProperties DEF DmInv, StacksOk
<1>2. StacksOk(device, lower)
  BY DEF DmInv
<1>3. CASE n \in NoUnload
  <2>1. UNCHANGED <<device, lower, link, routine, held>>
    BY <1>3 DEF DriverUnload
  <2> QED BY <1>1, <1>2, <2>1 DEF DmInv
<1>4. CASE n \notin NoUnload
  <2> DEFINE own == {h \in held : h.driver = n}
             d == Latest(n)
  <2>1. /\ DetachedFrom(d) /\ link' = Unlinked(link, n)
        /\ routine' = Unregistered(routine, n, own) /\ held' = held \ own
    BY <1>4 DEF DriverUnload
  <2>2. SlotsOk(routine', held')
    BY <2>1, UnregisteredOk DEF DmInv
  <2>3. LinksOk(link')
    BY <2>1, UnlinkedOk DEF DmInv
  <2>4. d \in 1..Len(device)
    <3> DEFINE T == {e \in 1..Len(device) : device[e].owner = n}
    <3>1. T # {}
      BY DEF DmInv
    <3>2. d = Max(T)
      BY <1>1 DEF Latest
    <3>3. T \in SUBSET (1..Len(device))
      OBVIOUS
    <3> HIDE DEF T
    <3>4. d \in T
      BY <1>1, <3>1, <3>2, <3>3, GreatestIn
    <3> QED BY <3>3, <3>4
  <2> HIDE DEF d
  <2>5. /\ StacksOk(device', lower') /\ Len(device') = Len(device)
        /\ \A e \in 1..Len(device) : device'[e].owner = device[e].owner
    <3>1. CASE lower[d] = 0
      <4>1. UNCHANGED <<device, lower>>
        BY <2>1, <3>1 DEF DetachedFrom
      <4> QED BY <1>2, <4>1
    <3>2. CASE lower[d] # 0
      <4>1. device[lower[d]].attached = d /\ d # 0
        BY <1>1, <1>2, <2>4, <3>2 DEF StacksOk
      <4>2. device' = WithAbove(device, lower[d], 0) /\ lower' = [lower EXCEPT ![d] = 0]
        BY <2>1, <3>2, <4>1 DEF DetachedFrom
      <4> QED BY ONLY <1>2, <2>4, <3>2, <4>2, DetachedOk
    <3> QED BY <3>1, <3>2
  <2> QED BY <1>1, <2>2, <2>3, <2>5
<1> QED BY <1>3, <1>4

\* Every step keeps the invariant.
LEMMA DmStepKept == DmInv /\ [DmNext]_dmVars => DmInv'
<1> SUFFICES ASSUME DmInv, [DmNext]_dmVars PROVE DmInv'
  OBVIOUS
<1>1. Len(device) \in Nat /\ state \in [DriverName -> {"unknown", "stopped", "running"}]
      /\ atBoot \subseteq DriverName
  BY LenProperties DEF DmInv, StacksOk
<1>2. ASSUME NEW n \in DriverName, NEW via \in Registrar, DriverLoad(n, via) PROVE DmInv'
  <2>1. atBoot' \subseteq DriverName
        /\ state' = [state EXCEPT ![n] = "stopped"]
        /\ state' \in [DriverName -> {"unknown", "stopped", "running"}]
        /\ \A m \in DriverName : state'[m] = "running" => state[m] = "running"
    BY <1>1, <1>2 DEF DriverLoad
  <2>2. /\ StacksOk(device, lower)' /\ SlotsOk(routine, held)' /\ LinksOk(link)'
        /\ Len(device') \in Nat /\ Len(device) <= Len(device')
        /\ \A d \in 1..Len(device) : device'[d].owner = device[d].owner
    <3>1. CASE /\ device' = Created(device, n, 1) /\ lower' = Append(lower, 0)
               /\ routine' = IF via = "cm" THEN Registered(routine, n, via) ELSE routine
               /\ UNCHANGED <<link, held>>
      <4>1. /\ StacksOk(device', lower') /\ Len(device') = Len(device) + 1
            /\ \A d \in 1..Len(device) : device'[d].owner = device[d].owner
        <5>1. StacksOk(device, lower)
          BY DEF DmInv
        <5> QED BY ONLY <3>1, <5>1, n \in DriverName, CreatedOk
      <4>2. SlotsOk(routine', held')
        <5>1. via = "cm" => TableOf(via) = "cm"
          BY DEF TableOf
        <5>2. SlotsOk(routine, held)
          BY DEF DmInv
        <5> QED BY <3>1, <5>1, <5>2, RegisteredOk
      <4> QED BY <1>1, <3>1, <4>1, <4>2 DEF DmInv
    <3>2. CASE DriverEntry(n, via, FALSE)
      <4>1. FALSE \in BOOLEAN
        OBVIOUS
      <4>2. /\ StacksOk(device, lower)' /\ SlotsOk(routine, held)' /\ LinksOk(link)'
            /\ Len(device') = Len(device) + 1
            /\ \A d \in 1..Len(device) : device'[d].owner = device[d].owner
        BY <3>2, <4>1, EntryKept
      <4> QED BY <1>1, <4>2
    <3>3. CASE UNCHANGED <<device, lower, link, routine, held>>
      BY <1>1, <3>3 DEF DmInv
    <3> QED BY <1>2, <3>1, <3>2, <3>3 DEF DriverLoad
  <2>3. \A m \in DriverName : state'[m] = "running" => \E d \in 1..Len(device') : device'[d].owner = m
    BY <2>1, <2>2, OwnersStay
  <2> QED BY <2>1, <2>2, <2>3 DEF DmInv
<1>3. ASSUME NEW n \in DriverName, NEW via \in Registrar, NEW attaches \in BOOLEAN,
             DriverLoadByName(n, via, attaches)
      PROVE  DmInv'
  <2>1. CASE DriverEntry(n, via, attaches) /\ state' = [state EXCEPT ![n] = "running"]
    <3>1. /\ StacksOk(device, lower)' /\ SlotsOk(routine, held)' /\ LinksOk(link)'
          /\ Len(device') = Len(device) + 1 /\ device'[Len(device) + 1].owner = n
          /\ \A d \in 1..Len(device) : device'[d].owner = device[d].owner
      BY <2>1, EntryKept
    <3>2. ASSUME NEW m \in DriverName, state'[m] = "running"
          PROVE  \E d \in 1..Len(device') : device'[d].owner = m
      <4>1. CASE m = n
        BY <1>1, <3>1, <4>1
      <4>2. CASE m # n
        <5>1. state[m] = "running"
          BY <1>1, <2>1, <3>2, <4>2
        <5> QED BY <1>1, <3>1, <5>1, OwnersStay
      <4> QED BY <4>1, <4>2
    <3>3. state' \in [DriverName -> {"unknown", "stopped", "running"}] /\ atBoot' = atBoot
      BY <1>1, <1>3, <2>1 DEF DriverLoadByName
    <3> QED BY <1>1, <3>1, <3>2, <3>3 DEF DmInv
  <2>2. CASE /\ state' = [state EXCEPT ![n] = "stopped"]
             /\ UNCHANGED <<device, lower, link, routine, held>>
    <3>1. /\ state' \in [DriverName -> {"unknown", "stopped", "running"}] /\ atBoot' = atBoot
          /\ \A m \in DriverName : state'[m] = "running" => state[m] = "running"
      BY <1>1, <1>3, <2>2 DEF DriverLoadByName
    <3> QED BY <2>2, <3>1 DEF DmInv
  <2> QED BY <1>3, <2>1, <2>2 DEF DriverLoadByName
<1>4. ASSUME NEW n \in DriverName, DriverUnloadByName(n) PROVE DmInv'
  <2>1. /\ state[n] = "running" /\ DriverUnload(n) /\ atBoot' = atBoot
        /\ state' \in [DriverName -> {"unknown", "stopped", "running"}]
        /\ \A m \in DriverName : state'[m] = "running" => state[m] = "running"
    BY <1>1, <1>4 DEF DriverUnloadByName
  <2>2. /\ StacksOk(device, lower)' /\ SlotsOk(routine, held)' /\ LinksOk(link)'
        /\ Len(device') = Len(device)
        /\ \A d \in 1..Len(device) : device'[d].owner = device[d].owner
    BY <2>1, UnloadKept
  <2>3. \A m \in DriverName : state'[m] = "running" => \E d \in 1..Len(device') : device'[d].owner = m
    BY <1>1, <2>1, <2>2, OwnersStay
  <2> QED BY <1>1, <2>1, <2>2, <2>3 DEF DmInv
<1>5. CASE UNCHANGED dmVars
  BY <1>5 DEF dmVars, DmInv
<1> QED BY <1>2, <1>3, <1>4, <1>5 DEF DmNext

-----------------------------------------------------------------------------
\* Whatever is loaded and unloaded in whatever order, what the drivers have registered
\* stands in the tables, their stacks agree from both sides and end, and a link is in one
\* slot (ex/callbacks.c, io/io.c, io/driver.c).
THEOREM DriversCorrect == DmSpec => [](DmTypeOK /\ DriversSound)
<1>1. DmInv /\ [DmNext]_dmVars => DmInv'
  BY DmStepKept
<1> QED BY <1>1, DmStart, DmInvPromises, PTL DEF DmSpec

\* A slot that CmRegisterCallback_k has filled is never empty again, for the way to take
\* back refuses every cookie (ex/callbacks.c:170-180).
LEMMA CmStepKept == DmInv /\ DmNext => CmFilledSlots \subseteq CmFilledSlots'
<1> SUFFICES ASSUME DmInv, DmNext PROVE CmFilledSlots \subseteq CmFilledSlots'
  OBVIOUS
<1> DEFINE Rest == CmFilledSlots \subseteq CmFilledSlots'
<1>1. /\ routine \in [Table -> [Callback -> Someone]] /\ held \subseteq Registration
      /\ Callback = 1..CbMax /\ CbMax \in Nat /\ "cm" \in Table /\ Callback \subseteq Nat
      /\ SlotsOk(routine, held)
  BY DmSizesOK DEF DmInv, SlotsOk, Callback, Table
<1>2. ASSUME NEW n \in DriverName, NEW via \in Registrar, routine' = Registered(routine, n, via),
             held' = held \union Kept(routine, n, via) \/ (held' = held /\ via # "ex")
      PROVE  Rest
  <2> DEFINE t == TableOf(via)
             s == Min(FreeIn(routine[t]))
  <2>1. t \in Table /\ (via = "ex" => t = "cm")
    BY DEF TableOf, Table, Registrar
  <2>2. routine[t] \in [1..CbMax -> Someone]
    BY <1>1, <2>1
  <2>3. CASE FreeIn(routine[t]) = {}
    <3>1. routine' = routine /\ held' = held
      BY <1>2, <2>3 DEF Registered, Kept
    <3> QED BY <3>1 DEF CmFilledSlots
  <2>4. CASE FreeIn(routine[t]) # {}
    <3>1. s \in Callback /\ routine[t][s] = "none"
      BY <1>1, <2>2, <2>4, FreeSlot
    <3>2. /\ routine' = [routine EXCEPT ![t][s] = n]
          /\ held' = held \union {[driver |-> n, via |-> via, slot |-> s]} \/ (held' = held /\ via # "ex")
      BY <1>2, <2>4 DEF Registered, Kept
    <3> HIDE DEF s, t
    <3>3. ASSUME NEW i \in CmFilledSlots PROVE i \in CmFilledSlots'
      <4>1. i \in Callback /\ routine["cm"][i] # "none" /\ ~\E h \in held : h.via = "ex" /\ h.slot = i
        BY <3>3 DEF CmFilledSlots
      <4>2. ~(t = "cm" /\ s = i)
        BY <3>1, <4>1
      <4>3. routine'["cm"][i] = routine["cm"][i]
        BY <1>1, <2>1, <3>1, <3>2, <4>1, <4>2
      <4>4. ~\E h \in held' : h.via = "ex" /\ h.slot = i
        BY <2>1, <3>2, <4>1, <4>2
      <4> QED BY <4>1, <4>3, <4>4 DEF CmFilledSlots
    <3> QED BY <3>3
  <2> QED BY <2>3, <2>4
<1>3. ASSUME UNCHANGED <<routine, held>> PROVE Rest
  BY <1>3 DEF CmFilledSlots
<1>4. ASSUME NEW n \in DriverName, NEW via \in Registrar, NEW attaches, DriverEntry(n, via, attaches)
      PROVE  Rest
  BY <1>2, <1>4 DEF DriverEntry
<1>5. ASSUME NEW n \in DriverName, NEW via \in Registrar, DriverLoad(n, via) PROVE Rest
  <2>1. CASE /\ routine' = IF via = "cm" THEN Registered(routine, n, via) ELSE routine
             /\ UNCHANGED <<link, held>>
    BY <1>2, <1>3, <2>1
  <2>2. CASE DriverEntry(n, via, FALSE)
    BY <1>4, <2>2
  <2>3. CASE UNCHANGED <<device, lower, link, routine, held>>
    BY <1>3, <2>3
  <2> QED BY <1>5, <2>1, <2>2, <2>3 DEF DriverLoad
<1>6. ASSUME NEW n \in DriverName, NEW via \in Registrar, NEW attaches \in BOOLEAN,
             DriverLoadByName(n, via, attaches)
      PROVE  Rest
  BY <1>3, <1>4, <1>6 DEF DriverLoadByName
<1>7. ASSUME NEW n \in DriverName, DriverUnloadByName(n) PROVE Rest
  <2> DEFINE own == {h \in held : h.driver = n}
  <2>1. CASE UNCHANGED <<device, lower, link, routine, held>>
    BY <1>3, <2>1
  <2>2. CASE routine' = Unregistered(routine, n, own) /\ held' = held \ own
    <3>1. ASSUME NEW i \in CmFilledSlots PROVE i \in CmFilledSlots'
      <4>1. i \in Callback /\ routine["cm"][i] # "none" /\ ~\E h \in held : h.via = "ex" /\ h.slot = i
        BY <3>1 DEF CmFilledSlots
      <4>2. i \notin Emptied(routine, n, own)["cm"]
        BY <4>1 DEF Emptied
      <4>3. routine'["cm"][i] = routine["cm"][i]
        BY <1>1, <2>2, <4>1, <4>2 DEF Unregistered
      <4> QED BY <2>2, <4>1, <4>3 DEF CmFilledSlots
    <3> QED BY <3>1
  <2> QED BY <1>7, <2>1, <2>2 DEF DriverUnloadByName, DriverUnload
<1> QED BY <1>5, <1>6, <1>7 DEF DmNext

\* The table of the registry's callbacks only fills (ex/callbacks.c:170-180).
THEOREM CmTableFills == DmSpec => CmNeverEmptied
<1>1. DmInv /\ [DmNext]_dmVars => DmInv'
  BY DmStepKept
<1>2. DmInv /\ [DmNext]_dmVars => [CmFilledSlots \subseteq CmFilledSlots']_dmVars
  BY CmStepKept
<1> QED BY <1>1, <1>2, DmStart, PTL DEF DmSpec, CmNeverEmptied

-----------------------------------------------------------------------------
(* The disk.                                                                 *)

CommandName == {"none", "identify", "read", "write", "flush"}
SomeSector == DiskSector \union {"none"}

DkType ==
  /\ present \in BOOLEAN /\ abandoned \in BOOLEAN /\ crossed \in BOOLEAN /\ timeouts \in 0..MaxTimeouts
  /\ medium \in [DiskSector -> DiskData] /\ expected \in [DiskSector -> DiskData]
  /\ drive \in [phase : {"idle", "working", "offers", "takes", "stores"}, err : BOOLEAN,
                command : CommandName, lba : SomeSector, data : DiskData]
  /\ request \in [op : {"none", "identify", "read", "write"}, lba : SomeSector, data : DiskData,
                  at : {"over", "ready", "identify", "drq", "flush", "flushed"}]
  /\ given.lba \in SomeSector
  /\ failed \subseteq DiskSector

\* What the drive does fits the command it has, and what the call does is what it is for.
StepsFit ==
  /\ drive.err => drive.phase = "idle"
  /\ drive.phase = "working" => drive.command # "none"
  /\ drive.phase = "offers" => drive.command \in {"read", "identify"}
  /\ drive.phase \in {"takes", "stores"} => drive.command = "write"
  /\ drive.command \in {"read", "write"} => drive.lba \in DiskSector
  /\ request.at \in {"ready", "drq", "flush", "flushed"} /\ request.op # "identify" =>
       request.op \in {"read", "write"} /\ request.lba \in DiskSector /\ given.lba = "none"
  /\ request.at = "identify" => request.op = "identify"
  /\ request.at = "ready" => request.op # "identify"
  /\ request.op = "identify" => request.lba = "none"

\* As long as no command was given up, the drive has the command of the call, and none that
\* moves data when there is no call.
CommandIsOwn ==
  /\ request.at \in {"identify", "drq"} =>
       Own /\ (drive.phase = "idle" => drive.err) /\ drive.phase # "stores"
  /\ request.at \notin {"identify", "drq"} =>
       drive.phase \in {"idle", "stores"} \/ (drive.phase = "working" /\ drive.command = "flush")
  /\ ~present => /\ request.at \in {"over", "identify", "drq"} /\ drive.phase # "stores"
                 /\ request.at = "over" => drive.phase = "idle"
                 /\ request.at # "over" => request.op = "identify"

\* What is written and not given up is on the medium or on its way there.
WrittenArrives ==
  /\ drive.phase = "stores" => drive.data = expected[drive.lba]
  /\ given.lba # "none" /\ given.lba \notin failed => given.data = expected[given.lba]
  /\ \A s \in DiskSector \ failed :
       medium[s] = expected[s] \/ (drive.phase = "stores" /\ drive.lba = s)

DkInv ==
  /\ DkType
  /\ crossed => abandoned
  /\ ~crossed => StepsFit /\ WrittenArrives
  /\ ~abandoned => CommandIsOwn

LEMMA DkStart == DiskInit => DkInv
<1> SUFFICES ASSUME DiskInit PROVE DkInv
  OBVIOUS
<1> USE NtSizesOK DEF DiskInit, NoCall
<1>1. DkType
  <2>1. /\ present \in BOOLEAN /\ abandoned \in BOOLEAN /\ crossed \in BOOLEAN
        /\ timeouts \in 0..MaxTimeouts /\ failed \subseteq DiskSector
        /\ medium \in [DiskSector -> DiskData] /\ expected \in [DiskSector -> DiskData]
    <3>1. medium \in [DiskSector -> DiskData]
      OBVIOUS
    <3>2. expected = medium
      OBVIOUS
    <3>3. present \in BOOLEAN /\ abandoned \in BOOLEAN /\ crossed \in BOOLEAN /\ failed \subseteq DiskSector
      OBVIOUS
    <3>4. timeouts \in 0..MaxTimeouts
      OBVIOUS
    <3> QED BY ONLY <3>1, <3>2, <3>3, <3>4
  <2>2. given.lba \in SomeSector
    BY DEF SomeSector
  <2> QED BY <2>1, <2>2 DEF DkType, CommandName, SomeSector
<1>2. StepsFit
  BY DEF StepsFit
<1>3. CommandIsOwn
  BY DEF CommandIsOwn, Own
<1>4. WrittenArrives
  BY DEF WrittenArrives
<1> QED BY <1>1, <1>2, <1>3, <1>4 DEF DkInv

LEMMA DkStepKept == DkInv /\ [DiskNext]_diskVars => DkInv'
<1> SUFFICES ASSUME DkInv, [DiskNext]_diskVars PROVE DkInv'
  OBVIOUS
<1>1. CASE UNCHANGED diskVars
  BY <1>1 DEF diskVars, DkInv, DkType, StepsFit, CommandIsOwn, WrittenArrives, CommandName, SomeSector, Own
<1> SUFFICES ASSUME DiskNext PROVE DkInv'
  BY <1>1
<1>2. ~crossed /\ DkType /\ StepsFit /\ WrittenArrives /\ (~abandoned => CommandIsOwn)
  BY DEF DiskNext, DkInv
<1> DEFINE Stays == DkType' /\ StepsFit' /\ WrittenArrives' /\ (~abandoned' => CommandIsOwn') /\ ~crossed'
<1>3. Stays => DkInv'
  BY DEF DkInv
<1> USE NtSizesOK DEF DkType, CommandName, SomeSector, Busy, Drq, Issue, At, CallEnds, NoCall, Own, SetupLba
<1>4. CASE HalDiskInit
  <2>1. DkType' /\ ~crossed'
    BY <1>2, <1>4 DEF HalDiskInit
  <2>2. StepsFit'
    BY <1>2, <1>4 DEF HalDiskInit, StepsFit
  <2>3. WrittenArrives'
    BY <1>2, <1>4 DEF HalDiskInit, WrittenArrives, StepsFit
  <2>4. ~abandoned' => CommandIsOwn'
    BY <1>2, <1>4 DEF HalDiskInit, CommandIsOwn, StepsFit
  <2> QED BY <1>3, <2>1, <2>2, <2>3, <2>4
<1>5. ASSUME NEW op \in {"read", "write"}, NEW s \in DiskSector, NEW d \in DiskData, HalSector(op, s, d)
      PROVE  DkInv'
  <2>1. Stays
    BY <1>2, <1>5 DEF HalSector, StepsFit, CommandIsOwn, WrittenArrives
  <2> QED BY <1>3, <2>1
<1>6. CASE NotBusy
  <2>1. DkType' /\ ~crossed'
    <3>1. request' = [request EXCEPT !.at = "drq"]
      BY <1>6 DEF NotBusy
    <3>2. request' \in [op : {"none", "identify", "read", "write"}, lba : SomeSector, data : DiskData,
                        at : {"over", "ready", "identify", "drq", "flush", "flushed"}]
      BY <1>2, <3>1
    <3>3. drive' \in [phase : {"idle", "working", "offers", "takes", "stores"}, err : BOOLEAN,
                      command : CommandName, lba : SomeSector, data : DiskData]
      <4>1. CASE drive' = drive
        BY <1>2, <4>1
      <4>2. CASE request.at = "ready" /\ Issue(request.op, SetupLba(request.lba))
        BY <1>2, <4>2
      <4> QED BY <1>6, <4>1, <4>2 DEF NotBusy
    <3>4. UNCHANGED <<present, medium, given, expected, failed, abandoned, crossed, timeouts>>
      BY <1>6 DEF NotBusy
    <3> QED BY <1>2, <3>2, <3>3, <3>4
  <2>2. StepsFit'
    BY <1>2, <1>6 DEF NotBusy, StepsFit
  <2>3. WrittenArrives'
    BY <1>2, <1>6 DEF NotBusy, WrittenArrives, StepsFit
  <2>4. ~abandoned' => CommandIsOwn'
    BY <1>2, <1>6 DEF NotBusy, CommandIsOwn, StepsFit
  <2> QED BY <1>3, <2>1, <2>2, <2>3, <2>4
<1>7. CASE PollsRunOut
  <2>1. DkType' /\ ~crossed'
    BY <1>2, <1>7 DEF PollsRunOut
  <2>2. StepsFit'
    BY <1>2, <1>7 DEF PollsRunOut, StepsFit
  <2>3. WrittenArrives'
    BY <1>2, <1>7 DEF PollsRunOut, WrittenArrives, StepsFit
  <2>4. ~abandoned' => CommandIsOwn'
    BY <1>2, <1>7 DEF PollsRunOut, CommandIsOwn, StepsFit
  <2> QED BY <1>3, <2>1, <2>2, <2>3, <2>4
<1>8. CASE Refuses
  <2>1. DkType' /\ ~crossed'
    BY <1>2, <1>8 DEF Refuses
  <2>2. StepsFit'
    BY <1>2, <1>8 DEF Refuses, StepsFit
  <2>3. WrittenArrives'
    BY <1>2, <1>8 DEF Refuses, WrittenArrives, StepsFit
  <2>4. ~abandoned' => CommandIsOwn'
    BY <1>2, <1>8 DEF Refuses, CommandIsOwn, StepsFit
  <2> QED BY <1>3, <2>1, <2>2, <2>3, <2>4
<1>9. CASE ReadWords
  <2>1. /\ request'.at = "over" /\ request'.op = "none" /\ request'.lba = "none"
        /\ drive'.phase \in {"idle", drive.phase} /\ (drive'.phase = "offers" => drive.phase = "offers")
        /\ drive'.err = drive.err /\ drive'.command = drive.command /\ drive'.lba = drive.lba
        /\ drive'.data = drive.data
        /\ ~crossed' => Own
    <3>1. request' = NoCall /\ (~crossed' => Own)
      BY <1>9 DEF ReadWords
    <3>2. drive' = drive \/ drive' = [drive EXCEPT !.phase = "idle"]
      BY <1>9 DEF ReadWords
    <3>3. drive.phase = "offers" \/ drive' = drive
      BY <1>9 DEF ReadWords
    <3> QED BY <1>2, <3>1, <3>2, <3>3
  <2>2. DkType'
    <3>1. request' = NoCall /\ present' \in BOOLEAN
      BY <1>2, <1>9 DEF ReadWords
    <3>4. given' = given \/ given'.lba = request.lba
      BY <1>9 DEF ReadWords
    <3>5. crossed' \in BOOLEAN
      BY <1>9 DEF ReadWords
    <3>2. drive' = drive \/ drive' = [drive EXCEPT !.phase = "idle"]
      BY <1>9 DEF ReadWords
    <3>3. UNCHANGED <<medium, expected, failed, abandoned, timeouts>>
      BY <1>9 DEF ReadWords
    <3> QED BY <1>2, <3>1, <3>2, <3>3, <3>4, <3>5
  <2>3. StepsFit'
    BY <1>2, <2>1 DEF StepsFit
  <2>4. ~abandoned' => CommandIsOwn' /\ ~crossed'
    BY <1>2, <1>9 DEF ReadWords, StepsFit, CommandIsOwn
  <2>5. ~crossed' => WrittenArrives'
    <3> SUFFICES ASSUME ~crossed' PROVE WrittenArrives'
      OBVIOUS
    <3>1. drive.phase # "stores" /\ drive'.phase # "stores"
      BY <1>2, <1>9, <2>1 DEF ReadWords, StepsFit
    <3>2. UNCHANGED <<medium, expected, failed>>
      BY <1>9 DEF ReadWords
    <3>3. given'.lba # "none" /\ given'.lba \notin failed => given'.data = expected[given'.lba]
      <4>1. CASE given' = given
        BY <1>2, <4>1 DEF WrittenArrives
      <4>2. CASE request.op = "read"
        BY <1>2, <1>9, <2>1, <3>1, <4>2 DEF ReadWords, WrittenArrives, StepsFit
      <4> QED BY <1>9, <4>1, <4>2 DEF ReadWords
    <3> QED BY <1>2, <3>1, <3>2, <3>3 DEF WrittenArrives
  <2> QED BY <2>2, <2>3, <2>4, <2>5 DEF DkInv
<1>10. CASE WriteWords
  <2>1. DkType' /\ (~crossed' => StepsFit') /\ (~abandoned' => CommandIsOwn') /\ (crossed' => abandoned')
    BY <1>2, <1>10 DEF WriteWords, StepsFit, CommandIsOwn
  <2>2. ~crossed' => WrittenArrives'
    BY <1>2, <1>10 DEF WriteWords, StepsFit, WrittenArrives
  <2> QED BY <2>1, <2>2 DEF DkInv
<1>11. CASE FlushCache
  <2>1. DkType' /\ ~crossed'
    BY <1>2, <1>11 DEF FlushCache
  <2>2. StepsFit'
    BY <1>2, <1>11 DEF FlushCache, StepsFit
  <2>3. WrittenArrives'
    BY <1>2, <1>11 DEF FlushCache, WrittenArrives, StepsFit
  <2>4. ~abandoned' => CommandIsOwn'
    BY <1>2, <1>11 DEF FlushCache, CommandIsOwn, StepsFit
  <2> QED BY <1>3, <2>1, <2>2, <2>3, <2>4
<1>12. CASE WriteReturns
  <2>1. DkType' /\ ~crossed'
    BY <1>2, <1>12 DEF WriteReturns
  <2>2. StepsFit'
    BY <1>2, <1>12 DEF WriteReturns, StepsFit
  <2>3. WrittenArrives'
    BY <1>2, <1>12 DEF WriteReturns, WrittenArrives, StepsFit
  <2>4. ~abandoned' => CommandIsOwn'
    BY <1>2, <1>12 DEF WriteReturns, CommandIsOwn, StepsFit
  <2> QED BY <1>3, <2>1, <2>2, <2>3, <2>4
<1>13. CASE DriveAnswers
  <2>1. DkType' /\ ~crossed'
    BY <1>2, <1>13 DEF DriveAnswers
  <2>2. StepsFit'
    <3>1. drive'.phase = IF drive.command = "write" THEN "takes" ELSE IF drive.command = "flush" THEN "idle" ELSE "offers"
      BY <1>2, <1>13 DEF DriveAnswers
    <3>2. drive'.err = drive.err /\ drive'.command = drive.command /\ drive'.lba = drive.lba
      BY <1>2, <1>13 DEF DriveAnswers
    <3>3. drive.phase = "working" /\ request' = request /\ given' = given
      BY <1>13 DEF DriveAnswers
    <3> QED BY <1>2, <3>1, <3>2, <3>3 DEF StepsFit
  <2>3. WrittenArrives'
    BY <1>2, <1>13 DEF DriveAnswers, WrittenArrives, StepsFit
  <2>4. ~abandoned' => CommandIsOwn'
    BY <1>2, <1>13 DEF DriveAnswers, CommandIsOwn, StepsFit
  <2> QED BY <1>3, <2>1, <2>2, <2>3, <2>4
<1>14. CASE DriveStores
  <2>1. DkType' /\ ~crossed'
    BY <1>2, <1>14 DEF DriveStores
  <2>2. StepsFit'
    BY <1>2, <1>14 DEF DriveStores, StepsFit
  <2>3. WrittenArrives'
    BY <1>2, <1>14 DEF DriveStores, WrittenArrives, StepsFit
  <2>4. ~abandoned' => CommandIsOwn'
    BY <1>2, <1>14 DEF DriveStores, CommandIsOwn, StepsFit
  <2> QED BY <1>3, <2>1, <2>2, <2>3, <2>4
<1>15. CASE DriveGivesUp
  <2>1. DkType' /\ ~crossed'
    <3>1. drive' \in [phase : {"idle", "working", "offers", "takes", "stores"}, err : BOOLEAN,
                      command : CommandName, lba : SomeSector, data : DiskData]
      BY <1>2, <1>15 DEF DriveGivesUp
    <3>2. failed' \subseteq DiskSector
      BY <1>2, <1>15 DEF DriveGivesUp, StepsFit
    <3> QED BY <1>2, <1>15, <3>1, <3>2 DEF DriveGivesUp
  <2>2. StepsFit'
    BY <1>2, <1>15 DEF DriveGivesUp, StepsFit
  <2>3. WrittenArrives'
    BY <1>2, <1>15 DEF DriveGivesUp, WrittenArrives, StepsFit
  <2>4. ~abandoned' => CommandIsOwn'
    BY <1>2, <1>15 DEF DriveGivesUp, CommandIsOwn, StepsFit
  <2> QED BY <1>3, <2>1, <2>2, <2>3, <2>4
<1> QED BY <1>4, <1>5, <1>6, <1>7, <1>8, <1>9, <1>10, <1>11, <1>12, <1>13, <1>14, <1>15 DEF DiskNext

\* Data is moved for another command only after one was given up, and until then what was
\* written is on the disk or on its way, and what is read was written last (hal/disk.c).
THEOREM DiskCorrect == DiskSpec => [](DiskTypeOK /\ DiskSound)
<1>1. DiskInit => DkInv
  BY DkStart
<1>2. DkInv /\ [DiskNext]_diskVars => DkInv'
  BY DkStepKept
<1>3. DkInv => DiskTypeOK /\ DiskSound
  BY DEF DkInv, DkType, WrittenArrives, DiskTypeOK, DiskSound
<1> QED BY <1>1, <1>2, <1>3, PTL DEF DiskSpec

-----------------------------------------------------------------------------
(* The volume.                                                               *)

SectorContent == [at : Record, first : BOOLEAN, to : RecordContent]

\* An index: its entries come first, and an end has nothing after it; where the end was
\* torn away there is none up to the count.
IndexOk(dir) ==
  /\ dir.count < RecordRoom
  /\ \A c \in 1..dir.count + 1 : dir.cell[c].ref = 0 => \A d \in c..RecordRoom : dir.cell[d].ref = 0

RefsOf(dir) == {dir.cell[c].ref : c \in IndexEntries(dir)}
OnceIn(dir, but) ==
  \A c, d \in IndexEntries(dir) : dir.cell[c].ref = dir.cell[d].ref /\ dir.cell[c].ref \notin but => c = d
UsedNow == {r \in FileRecord : mft[r].used}

\* The records that are taken into use before sector i of those that are left.
Before(i) == {todo[j].at : j \in {j \in 1..i - 1 : todo[j].first /\ todo[j].at # NtfsRoot}}
IndexPlanned == {i \in DOMAIN todo : todo[i].at = NtfsRoot}
Torn == todo # <<>> /\ Head(todo).at = NtfsRoot /\ ~Head(todo).first

VolumeType ==
  /\ mft \in [Record -> RecordContent]
  /\ todo \in Seq(SectorContent) /\ undo \in Seq(SectorContent)
  /\ target \subseteq Record
  /\ loose \subseteq FileRecord
  /\ failures \in 0..MaxFailures

\* The index that is on the disk, and what its entries lead to.
IndexNow ==
  /\ IndexOk(mft[NtfsRoot])
  /\ Torn \/ OnceIn(mft[NtfsRoot], loose)
  /\ RefsOf(mft[NtfsRoot]) \ loose \subseteq UsedNow

\* A write of the index that is planned: both sectors of it, the records that it names
\* are used by then, and it may be torn after the first.
IndexNext ==
  \A i \in IndexPlanned :
    LET s == todo[i]
        torn == Written(mft[NtfsRoot], s) IN
    /\ IndexOk(s.to) /\ OnceIn(s.to, loose)
    /\ RefsOf(s.to) \ loose \subseteq UsedNow \union Before(i)
    /\ \A j \in 1..i - 1 : todo[j].at # NtfsRoot => todo[j].to.used
    /\ IF s.first
       THEN /\ i + 1 \in IndexPlanned /\ todo[i + 1] = [at |-> NtfsRoot, first |-> FALSE, to |-> s.to]
            /\ IndexPlanned = {i, i + 1}
            /\ IndexOk(torn) /\ RefsOf(torn) \ loose \subseteq UsedNow \union Before(i)
       ELSE \/ i = 1 /\ IndexPlanned = {1} /\ torn = s.to
            \/ i - 1 \in IndexPlanned /\ todo[i - 1].first

\* A record that is freed is not listed any more, once the index is written as planned.
FreedUnlisted ==
  /\ \A j \in DOMAIN todo : todo[j].at # NtfsRoot /\ ~todo[j].to.used =>
       IF IndexPlanned = {} THEN todo[j].at \notin RefsOf(mft[NtfsRoot]) \ loose
       ELSE \A i \in IndexPlanned : todo[j].at \notin RefsOf(todo[i].to) \ loose
  /\ \A j \in DOMAIN undo : undo[j].at # NtfsRoot

\* Files that are being written hold nothing that is promised.
Promised ==
  /\ \A j \in DOMAIN todo : todo[j].at \in target
  /\ \A j \in DOMAIN undo : undo[j].at \in target
  /\ todo = <<>> => undo = <<>>
  /\ \A r \in FileRecord : r \in target => kept[r] = {}
  /\ kept \in [FileRecord -> SUBSET Seq(Nat)]
  /\ FilesKeepTheirData

NtInv == VolumeType /\ IndexNow /\ IndexNext /\ FreedUnlisted /\ Promised
-----------------------------------------------------------------------------

LEMMA NtSizes ==
  /\ Record \subseteq Nat \ {0} /\ NtfsRoot \in Record /\ RecordRoom \in Nat \ {0}
  /\ FirstCells \in 0..RecordRoom /\ FileRecord \subseteq Record /\ NtfsRoot \notin FileRecord
BY NtSizesOK DEF FileRecord

LEMMA ContentParts ==
  ASSUME NEW dir \in RecordContent
  PROVE  /\ dir.used \in BOOLEAN /\ dir.count \in 0..RecordRoom /\ dir.cell \in [1..RecordRoom -> Cell]
         /\ \A c \in 1..RecordRoom : dir.cell[c].ref \in FileRecord \union {0} /\ dir.cell[c].n \in Nat
BY DEF RecordContent, Cell

\* The end of an index, and its entries.
LEMMA EndOfIndex ==
  ASSUME NEW dir \in RecordContent, IndexOk(dir), Ends(dir) # {}
  PROVE  /\ Min(Ends(dir)) \in 1..dir.count + 1
         /\ \A c \in 1..RecordRoom : dir.cell[c].ref = 0 <=> c >= Min(Ends(dir))
<1> DEFINE e == Min(Ends(dir))
<1>1. dir.count \in Nat /\ dir.count < RecordRoom /\ RecordRoom \in Nat
  BY ContentParts, NtSizes DEF IndexOk
<1>2. Walked(dir) = 1..dir.count + 1
  BY <1>1, LeastOfTwo DEF Walked
<1>3. Ends(dir) \in SUBSET Nat
  BY <1>1, <1>2 DEF Ends
<1>4. e \in Ends(dir) /\ \A y \in Ends(dir) : e =< y
  BY <1>3, LeastIn
<1>5. e \in 1..dir.count + 1 /\ dir.cell[e].ref = 0
  BY <1>2, <1>4 DEF Ends
<1>6. ASSUME NEW c \in 1..RecordRoom, c >= e PROVE dir.cell[c].ref = 0
  BY <1>1, <1>5, <1>6 DEF IndexOk
<1>7. ASSUME NEW c \in 1..RecordRoom, c < e PROVE dir.cell[c].ref # 0
  <2> HIDE DEF e
  <2>1. c \in 1..dir.count + 1
    BY <1>5, <1>1, <1>7
  <2> QED BY <2>1, <1>2, <1>4, <1>7, <1>1, <1>5 DEF Ends
<1> QED BY <1>1, <1>5, <1>6, <1>7

LEMMA EntriesAre ==
  ASSUME NEW dir \in RecordContent, IndexOk(dir)
  PROVE  /\ IndexEntries(dir) = {c \in 1..dir.count : dir.cell[c].ref # 0}
         /\ IndexEntries(dir) \subseteq Seen(dir) /\ Seen(dir) \subseteq 1..RecordRoom
         /\ \A c \in Seen(dir) : \A d \in 1..c : d \in Seen(dir) /\ dir.cell[d].ref # 0
         /\ Ends(dir) = {} => \A c \in 1..dir.count + 1 : dir.cell[c].ref # 0
<1>1. dir.count \in Nat /\ dir.count < RecordRoom /\ RecordRoom \in Nat
  BY ContentParts, NtSizes DEF IndexOk
<1>2. Walked(dir) = 1..dir.count + 1
  BY <1>1, LeastOfTwo DEF Walked
<1>3. CASE Ends(dir) = {}
  <2>1. \A c \in 1..dir.count + 1 : dir.cell[c].ref # 0
    BY <1>2, <1>3 DEF Ends
  <2>2. Seen(dir) = 1..dir.count + 1
    BY <1>2, <1>3 DEF Seen
  <2>3. IndexEntries(dir) = 1..dir.count
    BY <2>2, <1>1 DEF IndexEntries
  <2>4. \A c \in 1..dir.count + 1 : c \in 1..RecordRoom
    BY <1>1
  <2>5. \A c \in 1..dir.count : c \in 1..dir.count + 1
    BY <1>1
  <2>6. \A c \in 1..dir.count + 1 : \A d \in 1..c : d \in 1..dir.count + 1
    BY <1>1
  <2>a. IndexEntries(dir) = {c \in 1..dir.count : dir.cell[c].ref # 0}
    BY <2>1, <2>3, <2>5
  <2>b. IndexEntries(dir) \subseteq Seen(dir) /\ Seen(dir) \subseteq 1..RecordRoom
    BY <2>2, <2>3, <2>4, <2>5
  <2>c. \A c \in Seen(dir) : \A d \in 1..c : d \in Seen(dir) /\ dir.cell[d].ref # 0
    BY <2>1, <2>2, <2>6
  <2> QED BY <2>a, <2>b, <2>c, <2>1
<1>4. CASE Ends(dir) # {}
  <2> DEFINE e == Min(Ends(dir))
  <2>1. e \in 1..dir.count + 1 /\ \A c \in 1..RecordRoom : dir.cell[c].ref = 0 <=> c >= e
    BY <1>4, EndOfIndex
  <2>2. Seen(dir) = 1..e - 1
    BY <1>4 DEF Seen
  <2>3. IndexEntries(dir) = 1..e - 1
    BY <2>1, <2>2, <1>1 DEF IndexEntries
  <2> HIDE DEF e
  <2>4. IndexEntries(dir) = {c \in 1..dir.count : dir.cell[c].ref # 0}
    BY <2>1, <2>3, <1>1
  <2>5. Seen(dir) \subseteq 1..RecordRoom
    BY <2>1, <2>2, <1>1
  <2>6. \A c \in Seen(dir) : \A d \in 1..c : d \in Seen(dir) /\ dir.cell[d].ref # 0
    BY <2>1, <2>2, <1>1
  <2> QED BY <2>2, <2>3, <2>4, <2>5, <2>6, <1>4
<1> QED BY <1>3, <1>4

\* What a write of the index leaves, after its first sector and after both.
LEMMA HalfWritten ==
  ASSUME NEW old \in RecordContent, NEW s \in SectorContent, s.first
  PROVE  LET half == Written(old, s)
             rest == [at |-> s.at, first |-> FALSE, to |-> s.to] IN
         /\ half \in RecordContent /\ half.used = s.to.used /\ half.count = s.to.count
         /\ \A c \in 1..RecordRoom : half.cell[c] = IF c =< FirstCells THEN s.to.cell[c] ELSE old.cell[c]
         /\ Written(half, rest) = s.to
<1> DEFINE half == Written(old, s)
           rest == [at |-> s.at, first |-> FALSE, to |-> s.to]
<1>0. s.to \in RecordContent /\ s.first = TRUE
  BY DEF SectorContent
<1>s. FirstCells \in Nat /\ RecordRoom \in Nat
  BY NtSizes
<1>1. half.used = s.to.used /\ half.count = s.to.count
  BY <1>0 DEF Written
<1>2. half.cell = [c \in 1..RecordRoom |-> IF c =< FirstCells THEN s.to.cell[c] ELSE old.cell[c]]
  <2>1. \A c \in 1..RecordRoom : (IF s.first = (c =< FirstCells) THEN s.to.cell[c] ELSE old.cell[c]) = IF c =< FirstCells THEN s.to.cell[c] ELSE old.cell[c]
    BY <1>0, <1>s
  <2>2. half.cell = [c \in 1..RecordRoom |-> IF s.first = (c =< FirstCells) THEN s.to.cell[c] ELSE old.cell[c]]
    BY DEF Written
  <2> QED BY <2>1, <2>2
<1>3. half = [used |-> half.used, count |-> half.count, cell |-> half.cell]
  BY DEF Written
<1>4. half.cell \in [1..RecordRoom -> Cell]
  <2>1. \A c \in 1..RecordRoom : s.to.cell[c] \in Cell /\ old.cell[c] \in Cell
    BY <1>0, ContentParts
  <2> HIDE DEF half
  <2> QED BY <1>2, <2>1
<1>5. half \in RecordContent
  BY <1>1, <1>3, <1>4, <1>0, ContentParts DEF RecordContent
<1>6. Written(half, rest) = [used |-> half.used, count |-> half.count,
                            cell |-> [c \in 1..RecordRoom |-> IF rest.first = (c =< FirstCells) THEN s.to.cell[c] ELSE half.cell[c]]]
  BY DEF Written
<1>7. \A c \in 1..RecordRoom : (IF rest.first = (c =< FirstCells) THEN s.to.cell[c] ELSE half.cell[c]) = s.to.cell[c]
  <2>1. rest.first = FALSE
    OBVIOUS
  <2> HIDE DEF half, rest
  <2>2. \A c \in 1..RecordRoom : half.cell[c] = IF c =< FirstCells THEN s.to.cell[c] ELSE old.cell[c]
    BY <1>2
  <2>3. ASSUME NEW c \in 1..RecordRoom PROVE (rest.first = (c =< FirstCells)) <=> ~(c =< FirstCells)
    <3>1. (c =< FirstCells) \in BOOLEAN
      BY <1>s
    <3> QED BY <2>1, <3>1
  <2>4. ASSUME NEW c \in 1..RecordRoom PROVE (IF rest.first = (c =< FirstCells) THEN s.to.cell[c] ELSE half.cell[c]) = s.to.cell[c]
    <3>1. CASE c =< FirstCells
      BY <3>1, <2>2, <2>3
    <3>2. CASE ~(c =< FirstCells)
      BY <3>2, <2>3
    <3> QED BY <3>1, <3>2
  <2> QED BY <2>4
<1>8. s.to.cell = [c \in 1..RecordRoom |-> s.to.cell[c]]
  BY <1>0, ContentParts
<1>9. s.to = [used |-> s.to.used, count |-> s.to.count, cell |-> s.to.cell]
  BY <1>0 DEF RecordContent
<1>10. Written(half, rest) = s.to
  BY <1>1, <1>6, <1>7, <1>8, <1>9
<1> QED BY <1>1, <1>2, <1>5, <1>10

\* A sector of a record leaves a record.
LEMMA WrittenTyped ==
  ASSUME NEW old \in RecordContent, NEW s \in SectorContent
  PROVE  /\ Written(old, s) \in RecordContent
         /\ Written(old, s).used = IF s.first THEN s.to.used ELSE old.used
<1>0. s.to \in RecordContent /\ s.first \in BOOLEAN
  BY DEF SectorContent
<1>1. \A c \in 1..RecordRoom : s.to.cell[c] \in Cell /\ old.cell[c] \in Cell
  BY <1>0, ContentParts
<1>2. (IF s.first THEN s.to.used ELSE old.used) \in BOOLEAN /\ (IF s.first THEN s.to.count ELSE old.count) \in 0..RecordRoom
  BY <1>0, ContentParts
<1>3. [c \in 1..RecordRoom |-> IF s.first = (c =< FirstCells) THEN s.to.cell[c] ELSE old.cell[c]] \in [1..RecordRoom -> Cell]
  BY <1>1
<1> QED BY <1>2, <1>3 DEF Written, RecordContent

\* What is between an index and what it becomes, after the first sector only.
Between(half, dir, to) ==
  /\ half.count = to.count
  /\ \A c \in 1..RecordRoom : half.cell[c] = IF c =< FirstCells THEN to.cell[c] ELSE dir.cell[c]

\* An entry is added at the end.
LEMMA EntryAdded ==
  ASSUME NEW dir \in RecordContent, IndexOk(dir), Ends(dir) # {}, dir.count + 1 < RecordRoom,
         NEW r \in FileRecord, NEW size \in Nat, NEW but
  PROVE  LET to == WithEntry(dir, r, size) IN
         /\ to \in RecordContent /\ to.used = dir.used /\ IndexOk(to)
         /\ RefsOf(to) \subseteq RefsOf(dir) \union {r}
         /\ OnceIn(dir, but) /\ r \notin RefsOf(dir) \ but => OnceIn(to, but)
         /\ \A half \in RecordContent : Between(half, dir, to) =>
              IndexOk(half) /\ RefsOf(half) \subseteq RefsOf(dir) \union {r}
<1> DEFINE to == WithEntry(dir, r, size)
           e == Min(Ends(dir))
<1>1. e \in 1..dir.count + 1 /\ \A c \in 1..RecordRoom : dir.cell[c].ref = 0 <=> c >= e
  BY EndOfIndex
<1>2. dir.count \in Nat /\ RecordRoom \in Nat /\ FirstCells \in Nat /\ dir.cell \in [1..RecordRoom -> Cell]
  BY ContentParts, NtSizes
<1>t. to = [dir EXCEPT !.count = @ + 1, !.cell = [@ EXCEPT ![e] = [ref |-> r, n |-> size], ![e + 1] = NoCell]]
  BY DEF WithEntry
<1>3. to.count = dir.count + 1 /\ to.used = dir.used
      /\ to.cell = [dir.cell EXCEPT ![e] = [ref |-> r, n |-> size], ![e + 1] = NoCell]
  BY <1>t DEF RecordContent
<1>4. to = [used |-> to.used, count |-> to.count, cell |-> to.cell]
  BY <1>t DEF RecordContent
<1> HIDE DEF e, to
<1>5. [ref |-> r, n |-> size] \in Cell /\ NoCell \in Cell /\ r # 0
  BY NtSizes DEF Cell, NoCell
<1>6. to.cell \in [1..RecordRoom -> Cell]
  BY <1>2, <1>3, <1>5
<1>7. to.count \in 0..RecordRoom
  BY <1>2, <1>3
<1>8. to \in RecordContent
  BY <1>3, <1>4, <1>6, <1>7, ContentParts DEF RecordContent
<1>9. \A c \in 1..RecordRoom : to.cell[c].ref = IF c < e THEN dir.cell[c].ref ELSE IF c = e THEN r ELSE 0
  <2>1. \A c \in 1..RecordRoom : to.cell[c] = IF c = e + 1 THEN NoCell ELSE IF c = e THEN [ref |-> r, n |-> size] ELSE dir.cell[c]
    BY <1>1, <1>2, <1>3
  <2>2. NoCell.ref = 0 /\ [ref |-> r, n |-> size].ref = r
    BY DEF NoCell
  <2> QED BY <2>1, <2>2, <1>1, <1>2
<1>10. IndexOk(to)
  <2>1. ASSUME NEW c \in 1..to.count + 1, to.cell[c].ref = 0, NEW d \in c..RecordRoom PROVE to.cell[d].ref = 0
    <3>1. c \in 1..RecordRoom /\ d \in 1..RecordRoom /\ c =< d
      BY <1>2, <1>3, <2>1
    <3>2. c > e
      BY <3>1, <2>1, <1>1, <1>2, <1>5, <1>9
    <3> QED BY <3>1, <3>2, <1>9, <1>1, <1>2
  <2>2. to.count < RecordRoom
    BY <1>3
  <2> QED BY <2>1, <2>2 DEF IndexOk
<1>d. IndexEntries(dir) = {c \in 1..dir.count : dir.cell[c].ref # 0}
  BY EntriesAre
<1>e. IndexEntries(to) = {c \in 1..to.count : to.cell[c].ref # 0}
  BY EntriesAre, <1>8, <1>10
<1>11. \A c \in IndexEntries(to) : c = e \/ (c \in IndexEntries(dir) /\ to.cell[c].ref = dir.cell[c].ref)
  BY <1>1, <1>2, <1>3, <1>5, <1>9, <1>d, <1>e
<1>f. e \in 1..RecordRoom /\ to.cell[e].ref = r
  BY <1>1, <1>2, <1>9
<1>12. RefsOf(to) \subseteq RefsOf(dir) \union {r}
  BY <1>11, <1>f DEF RefsOf
<1>13. ASSUME OnceIn(dir, but), r \notin RefsOf(dir) \ but PROVE OnceIn(to, but)
  <2> SUFFICES ASSUME NEW c \in IndexEntries(to), NEW d \in IndexEntries(to), to.cell[c].ref = to.cell[d].ref,
                      to.cell[c].ref \notin but
               PROVE  c = d
    BY DEF OnceIn
  <2>1. CASE c # e /\ d # e
    BY <2>1, <1>11, <1>13 DEF OnceIn
  <2>2. CASE c = e /\ d # e
    <3>1. d \in IndexEntries(dir) /\ dir.cell[d].ref = r /\ r \notin but
      BY <2>2, <1>11, <1>f
    <3> QED BY <3>1, <1>13 DEF RefsOf
  <2>3. CASE c # e /\ d = e
    <3>1. c \in IndexEntries(dir) /\ dir.cell[c].ref = r /\ r \notin but
      BY <2>3, <1>11, <1>f
    <3> QED BY <3>1, <1>13 DEF RefsOf
  <2> QED BY <2>1, <2>2, <2>3
<1>14. ASSUME NEW half \in RecordContent, Between(half, dir, to)
       PROVE  IndexOk(half) /\ RefsOf(half) \subseteq RefsOf(dir) \union {r}
  <2>1. half.count = dir.count + 1 /\ \A c \in 1..RecordRoom : half.cell[c].ref = IF c =< FirstCells THEN to.cell[c].ref ELSE dir.cell[c].ref
    BY <1>14, <1>3 DEF Between
  <2>2. \A c \in 1..RecordRoom : half.cell[c].ref = IF c < e THEN dir.cell[c].ref ELSE IF c = e /\ e =< FirstCells THEN r ELSE 0
    BY <2>1, <1>9, <1>1, <1>2
  <2>3. IndexOk(half)
    <3>1. ASSUME NEW c \in 1..half.count + 1, half.cell[c].ref = 0, NEW d \in c..RecordRoom PROVE half.cell[d].ref = 0
      <4>1. c \in 1..RecordRoom /\ d \in 1..RecordRoom /\ c =< d
        BY <1>2, <2>1, <3>1
      <4>2. c > e \/ (c = e /\ ~(e =< FirstCells))
        BY <4>1, <3>1, <1>1, <1>2, <1>5, <2>2
      <4> QED BY <4>1, <4>2, <2>2, <1>1, <1>2
    <3>2. half.count < RecordRoom
      BY <2>1
    <3> QED BY <3>1, <3>2 DEF IndexOk
  <2>4. IndexEntries(half) = {c \in 1..half.count : half.cell[c].ref # 0}
    BY EntriesAre, <2>3
  <2>5. \A c \in IndexEntries(half) : (c = e /\ half.cell[c].ref = r) \/ (c \in IndexEntries(dir) /\ half.cell[c].ref = dir.cell[c].ref)
    BY <1>1, <1>2, <1>5, <2>1, <2>2, <2>4, <1>d
  <2> QED BY <2>3, <2>5 DEF RefsOf
<1> QED BY <1>3, <1>8, <1>10, <1>12, <1>13, <1>14 DEF to

\* The first entry of a file is removed.
LEMMA EntryRemoved ==
  ASSUME NEW dir \in RecordContent, IndexOk(dir), NEW r \in RefsOf(dir), NEW but
  PROVE  LET to == WithoutEntry(dir, r) IN
         /\ to \in RecordContent /\ to.used = dir.used /\ IndexOk(to)
         /\ RefsOf(to) \subseteq RefsOf(dir)
         /\ OnceIn(dir, but) => OnceIn(to, but) /\ r \notin RefsOf(to) \ but
         /\ \A half \in RecordContent : Between(half, dir, to) =>
              IndexOk(half) /\ RefsOf(half) \subseteq RefsOf(dir)
<1> DEFINE to == WithoutEntry(dir, r)
           Hits == {c \in Seen(dir) : dir.cell[c].ref = r}
           hit == Min(Hits)
<1>2. dir.count \in Nat /\ dir.count < RecordRoom /\ RecordRoom \in Nat /\ FirstCells \in Nat /\ dir.cell \in [1..RecordRoom -> Cell]
  BY ContentParts, NtSizes DEF IndexOk
<1>d. IndexEntries(dir) = {c \in 1..dir.count : dir.cell[c].ref # 0}
  BY EntriesAre
<1>e. IndexEntries(dir) \subseteq Seen(dir) /\ Seen(dir) \subseteq 1..RecordRoom
      /\ \A c \in Seen(dir) : \A d \in 1..c : d \in Seen(dir) /\ dir.cell[d].ref # 0
  BY EntriesAre
<1>1. /\ hit \in 1..dir.count /\ dir.cell[hit].ref = r
      /\ \A c \in 1..hit : dir.cell[c].ref # 0 /\ (c # hit => dir.cell[c].ref # r)
  <2>1. PICK k \in IndexEntries(dir) : dir.cell[k].ref = r
    BY DEF RefsOf
  <2>2. k \in Hits /\ Hits \in SUBSET Nat
    BY <2>1, <1>e
  <2>3. hit \in Hits /\ \A y \in Hits : hit =< y
    BY <2>2, LeastIn
  <2> HIDE DEF hit
  <2>4. hit =< k /\ k \in 1..dir.count /\ hit \in 1..RecordRoom
    BY <2>1, <2>2, <2>3, <1>d, <1>e
  <2>5. \A c \in 1..hit : c \in Seen(dir) /\ dir.cell[c].ref # 0
    BY <1>e, <2>3
  <2> QED BY <2>3, <2>4, <2>5, <1>2
<1>t. to = [dir EXCEPT !.count = @ - 1,
                       !.cell = [c \in 1..RecordRoom |-> IF hit =< c /\ c =< dir.count THEN @[c + 1] ELSE @[c]]]
  BY DEF WithoutEntry
<1>3. to.count = dir.count - 1 /\ to.used = dir.used
      /\ to.cell = [c \in 1..RecordRoom |-> IF hit =< c /\ c =< dir.count THEN dir.cell[c + 1] ELSE dir.cell[c]]
  BY <1>t DEF RecordContent
<1>4. to = [used |-> to.used, count |-> to.count, cell |-> to.cell]
  BY <1>t DEF RecordContent
<1> HIDE DEF hit, to
<1>6. to.cell \in [1..RecordRoom -> Cell]
  BY <1>2, <1>3
<1>7. to.count \in 0..RecordRoom
  BY <1>1, <1>2, <1>3
<1>8. to \in RecordContent
  BY <1>3, <1>4, <1>6, <1>7, ContentParts DEF RecordContent
<1>9. \A c \in 1..RecordRoom : to.cell[c].ref = IF hit =< c /\ c =< dir.count THEN dir.cell[c + 1].ref ELSE dir.cell[c].ref
  BY <1>3
<1>z. \A c \in 1..dir.count + 1 : dir.cell[c].ref = 0 => \A d \in c..RecordRoom : dir.cell[d].ref = 0
  BY DEF IndexOk
<1>10. IndexOk(to)
  <2>1. ASSUME NEW c \in 1..dir.count, to.cell[c].ref = 0, NEW d \in c..RecordRoom PROVE to.cell[d].ref = 0
    <3>a. /\ dir.count \in Nat /\ dir.count =< RecordRoom /\ RecordRoom \in Nat /\ hit \in 1..dir.count
          /\ c \in Nat /\ 1 =< c /\ c =< dir.count
      BY <2>1, <1>1, <1>2
    <3>b. c + 1 \in 1..dir.count + 1 /\ c \in 1..RecordRoom
      BY <3>a
    <3>c. to.cell[c].ref = IF hit =< c /\ c =< dir.count THEN dir.cell[c + 1].ref ELSE dir.cell[c].ref
      BY <3>b, <1>9
    <3>d. hit =< c
      <4> SUFFICES ASSUME ~(hit =< c) PROVE FALSE
        OBVIOUS
      <4>1. c \in 1..hit /\ dir.cell[c].ref = 0
        BY <3>a, <3>c, <2>1
      <4> QED BY <4>1, <1>1
    <3>e. dir.cell[c + 1].ref = 0
      BY <3>a, <3>c, <3>d, <2>1
    <3>1. c >= hit /\ dir.cell[c + 1].ref = 0 /\ c + 1 \in 1..dir.count + 1
      BY <3>a, <3>b, <3>d, <3>e
    <3>2. \A x \in c + 1..RecordRoom : dir.cell[x].ref = 0
      BY <3>1, <1>z
    <3>3. d \in 1..RecordRoom /\ c =< d
      BY <1>2, <2>1
    <3>4. CASE d =< dir.count
      <4>1. d + 1 \in c + 1..RecordRoom /\ hit =< d
        BY <3>1, <3>3, <3>4, <1>1, <1>2
      <4> QED BY <4>1, <3>2, <3>3, <3>4, <1>9
    <3>5. CASE ~(d =< dir.count)
      <4>1. d \in c + 1..RecordRoom
        BY <2>1, <3>3, <3>5, <1>2
      <4> QED BY <4>1, <3>2, <3>3, <3>5, <1>9
    <3> QED BY <3>4, <3>5
  <2>2. to.count < RecordRoom /\ to.count + 1 = dir.count
    BY <1>1, <1>2, <1>3
  <2> QED BY <2>1, <2>2 DEF IndexOk
<1>f. IndexEntries(to) = {c \in 1..to.count : to.cell[c].ref # 0}
  BY EntriesAre, <1>8, <1>10
<1> DEFINE was(c) == IF hit =< c THEN c + 1 ELSE c
<1>11. \A c \in IndexEntries(to) : was(c) \in IndexEntries(dir) /\ to.cell[c].ref = dir.cell[was(c)].ref /\ was(c) # hit
  <2> TAKE c \in IndexEntries(to)
  <2>1. c \in 1..to.count /\ to.cell[c].ref # 0 /\ to.count = dir.count - 1
    BY <1>3, <1>f
  <2>2. c \in 1..RecordRoom /\ c \in 1..dir.count /\ c + 1 \in 1..dir.count
    BY <2>1, <1>2
  <2>3. to.cell[c].ref = dir.cell[was(c)].ref
    BY <2>2, <1>9
  <2>4. was(c) \in 1..dir.count /\ was(c) # hit
    BY <2>2, <1>1
  <2> QED BY <2>1, <2>3, <2>4, <1>d
<1>g. \A c \in IndexEntries(to) : c \in Nat
  BY <1>f
<1>12. RefsOf(to) \subseteq RefsOf(dir)
  BY <1>11 DEF RefsOf
<1>13. ASSUME OnceIn(dir, but) PROVE OnceIn(to, but) /\ r \notin RefsOf(to) \ but
  <2>1. ASSUME NEW c \in IndexEntries(to), NEW d \in IndexEntries(to), to.cell[c].ref = to.cell[d].ref,
               to.cell[c].ref \notin but
        PROVE  c = d
    <3>1. was(c) = was(d)
      BY <2>1, <1>11, <1>13 DEF OnceIn
    <3> QED BY <3>1, <1>g, <1>1
  <2>2. hit \in IndexEntries(dir)
    BY <1>1, <1>2, <1>d
  <2>3. ASSUME NEW c \in IndexEntries(to), to.cell[c].ref = r, r \notin but PROVE FALSE
    BY <2>2, <2>3, <1>1, <1>11, <1>13 DEF OnceIn
  <2> QED BY <2>1, <2>3 DEF OnceIn, RefsOf
<1>14. ASSUME NEW half \in RecordContent, Between(half, dir, to)
       PROVE  IndexOk(half) /\ RefsOf(half) \subseteq RefsOf(dir)
  <2>1. half.count = dir.count - 1 /\ \A c \in 1..RecordRoom : half.cell[c].ref = IF c =< FirstCells THEN to.cell[c].ref ELSE dir.cell[c].ref
    BY <1>14, <1>3 DEF Between
  <2>2. ASSUME NEW c \in 1..dir.count, half.cell[c].ref = 0, NEW d \in c..RecordRoom PROVE half.cell[d].ref = 0
    <3>0. c \in 1..RecordRoom /\ d \in 1..RecordRoom /\ c =< d
      BY <1>2, <2>2
    <3>1. CASE c =< FirstCells
      <4>0. to.cell[c].ref = 0
        BY <3>1, <3>0, <2>1, <2>2
      <4>1. c >= hit /\ dir.cell[c + 1].ref = 0 /\ c + 1 \in 1..dir.count + 1
        <5>1. to.cell[c].ref = IF hit =< c /\ c =< dir.count THEN dir.cell[c + 1].ref ELSE dir.cell[c].ref
          BY <3>0, <1>9
        <5>2. hit =< c
          <6> SUFFICES ASSUME ~(hit =< c) PROVE FALSE
            OBVIOUS
          <6>1. c \in 1..hit /\ dir.cell[c].ref = 0
            BY <5>1, <4>0, <2>2, <1>1, <1>2
          <6> QED BY <6>1, <1>1
        <5>3. c =< dir.count /\ c + 1 \in 1..dir.count + 1 /\ c >= hit
          BY <5>2, <2>2, <1>1, <1>2
        <5> QED BY <5>1, <5>2, <5>3, <4>0
      <4>2. \A x \in c + 1..RecordRoom : dir.cell[x].ref = 0
        BY <4>1, <1>z
      <4>3. to.cell[d].ref = 0
        <5>1. CASE d =< dir.count
          <6>1. d + 1 \in c + 1..RecordRoom /\ hit =< d
            BY <5>1, <4>1, <3>0, <1>1, <1>2
          <6> QED BY <6>1, <5>1, <4>2, <3>0, <1>9
        <5>2. CASE ~(d =< dir.count)
          <6>1. d \in c + 1..RecordRoom
            BY <5>2, <4>1, <3>0, <1>1, <1>2, <2>2
          <6> QED BY <6>1, <5>2, <4>2, <3>0, <1>9
        <5> QED BY <5>1, <5>2
      <4>4. d > FirstCells => d \in c + 1..RecordRoom
        BY <3>0, <3>1, <1>2
      <4> QED BY <4>2, <4>3, <4>4, <3>0, <2>1, <1>2
    <3>2. CASE ~(c =< FirstCells)
      <4>1. dir.cell[c].ref = 0 /\ c \in 1..dir.count + 1
        BY <3>2, <3>0, <2>1, <2>2, <1>2
      <4>2. dir.cell[d].ref = 0
        BY <4>1, <1>z
      <4>3. ~(d =< FirstCells)
        BY <3>2, <3>0, <1>2
      <4> QED BY <4>2, <4>3, <2>1, <3>0
    <3> QED BY <3>1, <3>2
  <2>3. half.count < RecordRoom /\ half.count + 1 = dir.count
    BY <2>1, <1>1, <1>2
  <2>4. IndexOk(half)
    BY <2>2, <2>3 DEF IndexOk
  <2>5. IndexEntries(half) = {c \in 1..half.count : half.cell[c].ref # 0}
    BY EntriesAre, <2>4
  <2>6. \A c \in IndexEntries(half) : \E d \in IndexEntries(dir) : half.cell[c].ref = dir.cell[d].ref
    <3> SUFFICES ASSUME NEW c \in IndexEntries(half) PROVE \E d \in IndexEntries(dir) : half.cell[c].ref = dir.cell[d].ref
      OBVIOUS
    <3>1. c \in 1..dir.count /\ c + 1 \in 1..dir.count /\ c \in 1..RecordRoom /\ half.cell[c].ref # 0
      BY <2>5, <2>1, <1>1, <1>2
    <3>2. half.cell[c].ref = dir.cell[c].ref \/ half.cell[c].ref = dir.cell[c + 1].ref
      BY <3>1, <2>1, <1>9
    <3> QED BY <3>1, <3>2, <1>d
  <2> QED BY <2>4, <2>6 DEF RefsOf
<1> QED BY <1>3, <1>8, <1>10, <1>12, <1>13, <1>14 DEF to

\* The size in an entry changes, and nothing that an index is judged by.
LEMMA SameRefs ==
  ASSUME NEW dir \in RecordContent, IndexOk(dir), NEW to \in RecordContent, to.count = dir.count,
         \A c \in 1..RecordRoom : to.cell[c].ref = dir.cell[c].ref
  PROVE  IndexOk(to) /\ IndexEntries(to) = IndexEntries(dir) /\ RefsOf(to) = RefsOf(dir)
         /\ \A but : OnceIn(dir, but) => OnceIn(to, but)
<1>1. dir.count \in Nat /\ dir.count < RecordRoom /\ RecordRoom \in Nat
  BY ContentParts, NtSizes DEF IndexOk
<1>2. \A c \in 1..dir.count + 1 : c \in 1..RecordRoom /\ \A d \in c..RecordRoom : d \in 1..RecordRoom
  BY <1>1
<1>3. IndexOk(to)
  BY <1>1, <1>2 DEF IndexOk
<1>4. IndexEntries(dir) = {c \in 1..dir.count : dir.cell[c].ref # 0}
      /\ IndexEntries(to) = {c \in 1..to.count : to.cell[c].ref # 0}
  BY EntriesAre, <1>3
<1>5. \A c \in 1..dir.count : c \in 1..RecordRoom
  BY <1>1
<1>6. IndexEntries(to) = IndexEntries(dir)
  BY <1>4, <1>5
<1>7. \A c \in IndexEntries(dir) : to.cell[c].ref = dir.cell[c].ref
  BY <1>4, <1>5
<1> QED BY <1>3, <1>6, <1>7 DEF RefsOf, OnceIn

LEMMA SizeChanged ==
  ASSUME NEW dir \in RecordContent, IndexOk(dir), NEW r, NEW size \in Nat
  PROVE  LET to == WithSize(dir, r, size) IN
         /\ to \in RecordContent /\ to.used = dir.used /\ to.count = dir.count
         /\ \A c \in 1..RecordRoom : to.cell[c].ref = dir.cell[c].ref
<1> DEFINE Hits == {c \in Seen(dir) : dir.cell[c].ref = r}
<1>1. CASE Hits = {}
  BY <1>1 DEF WithSize
<1>2. CASE Hits # {}
  <2> DEFINE hit == Min(Hits)
             to == WithSize(dir, r, size)
  <2>1. Hits \in SUBSET Nat /\ Seen(dir) \subseteq 1..RecordRoom
    BY EntriesAre
  <2>2. hit \in 1..RecordRoom
    BY <2>1, <1>2, LeastIn
  <2>3. to = [dir EXCEPT !.cell[hit].n = size]
    BY <1>2 DEF WithSize
  <2> HIDE DEF hit
  <2>p. dir.cell \in [1..RecordRoom -> Cell] /\ dir = [used |-> dir.used, count |-> dir.count, cell |-> dir.cell]
    BY ContentParts DEF RecordContent
  <2>4. to.used = dir.used /\ to.count = dir.count /\ to.cell = [dir.cell EXCEPT ![hit] = [@ EXCEPT !.n = size]]
        /\ to = [used |-> to.used, count |-> to.count, cell |-> to.cell]
    BY <2>3 DEF RecordContent
  <2> HIDE DEF to
  <2>5. dir.cell[hit] \in Cell
    BY <2>2, <2>p
  <2>6. [dir.cell[hit] EXCEPT !.n = size] \in Cell /\ [dir.cell[hit] EXCEPT !.n = size].ref = dir.cell[hit].ref
    BY <2>5 DEF Cell
  <2>7. to.cell \in [1..RecordRoom -> Cell] /\ \A c \in 1..RecordRoom : to.cell[c].ref = dir.cell[c].ref
    BY <2>2, <2>4, <2>6, <2>p
  <2>8. to \in RecordContent
    BY <2>4, <2>7, ContentParts DEF RecordContent
  <2> QED BY <2>4, <2>7, <2>8 DEF to
<1> QED BY <1>1, <1>2

LEMMA VolumeStart == NtInit => NtInv
<1> SUFFICES ASSUME NtInit PROVE NtInv
  OBVIOUS
<1> USE DEF NtInit
<1> DEFINE blank == [c \in 1..RecordRoom |-> NoCell]
           new(r) == [used |-> (r = NtfsRoot), count |-> 0, cell |-> blank]
<1>0. RecordRoom \in Nat \ {0} /\ NtfsRoot \in Record /\ NtfsRoot \notin FileRecord
  BY NtSizes
<1>1. NoCell \in Cell /\ NoCell.ref = 0
  BY DEF NoCell, Cell
<1>2. blank \in [1..RecordRoom -> Cell] /\ \A c \in 1..RecordRoom : blank[c] = NoCell
  BY <1>1
<1>u. Unused = [used |-> FALSE, count |-> 0, cell |-> blank]
  BY DEF Unused
<1> HIDE DEF blank
<1>3. \A r \in Record : new(r) \in RecordContent
  BY <1>0, <1>2 DEF RecordContent
<1>4. \A r \in Record : [Unused EXCEPT !.used = (r = NtfsRoot)] = new(r)
  BY <1>u
<1>5. mft = [r \in Record |-> new(r)]
  BY <1>4
<1>6. mft[NtfsRoot] = new(NtfsRoot) /\ mft[NtfsRoot] \in RecordContent
  BY <1>0, <1>3, <1>5
<1>7. mft[NtfsRoot].count = 0 /\ \A c \in 1..RecordRoom : mft[NtfsRoot].cell[c] = NoCell
  <2>1. mft[NtfsRoot].count = 0 /\ mft[NtfsRoot].cell = blank
    BY <1>6
  <2> QED BY ONLY <2>1, <1>2
<1>8. IndexOk(mft[NtfsRoot])
  <2>1. \A c \in 1..0 + 1 : \A d \in c..RecordRoom : d \in 1..RecordRoom
    BY <1>0
  <2> QED BY <1>0, <1>1, <1>7, <2>1 DEF IndexOk
<1>9. IndexEntries(mft[NtfsRoot]) = {}
  BY <1>6, <1>7, <1>8, EntriesAre
<1>10. IndexNow
  BY <1>8, <1>9 DEF IndexNow, OnceIn, RefsOf
<1>11. DOMAIN todo = {} /\ DOMAIN undo = {}
  OBVIOUS
<1>12. VolumeType
  BY <1>3, <1>5, NtSizesOK DEF VolumeType
<1>13. IndexNext /\ FreedUnlisted
  BY <1>11 DEF IndexNext, FreedUnlisted, IndexPlanned
<1>14. Promised
  BY <1>11 DEF Promised, FilesKeepTheirData
<1> QED BY <1>10, <1>12, <1>13, <1>14 DEF NtInv

\* The index that is listed is that of the root.
LEMMA ListedNow == InIndex = RefsOf(mft[NtfsRoot])
BY DEF InIndex, RefsOf

LEMMA RefsAreFiles ==
  ASSUME NEW dir \in RecordContent, IndexOk(dir)
  PROVE  RefsOf(dir) \subseteq FileRecord
<1>1. dir.count < RecordRoom /\ dir.count \in Nat /\ RecordRoom \in Nat
  BY ContentParts, NtSizes DEF IndexOk
<1>2. \A c \in 1..dir.count : c \in 1..RecordRoom
  BY <1>1
<1> QED BY <1>2, EntriesAre, ContentParts DEF RefsOf

\* The data of a record.
LEMMA DataTyped == ASSUME NEW content \in RecordContent PROVE DataOf(content) \in Seq(Nat)
<1>1. content.count \in Nat /\ content.count =< RecordRoom /\ RecordRoom \in Nat
  BY ContentParts, NtSizes
<1>2. \A c \in 1..content.count : c \in 1..RecordRoom
  BY <1>1
<1> QED BY <1>1, <1>2, ContentParts DEF DataOf

\* The files that an operation leaves alone keep what they promise when it begins.
LEMMA PromisedKept ==
  ASSUME NtInv, NEW r \in FileRecord, UNCHANGED mft,
         kept' = [kept EXCEPT ![r] = {}], target' \in {{r}, {r, NtfsRoot}},
         \A j \in DOMAIN todo' : todo'[j].at \in target',
         \A j \in DOMAIN undo' : undo'[j].at \in target', todo' # <<>>
  PROVE  Promised'
<1>1. kept \in [FileRecord -> SUBSET Seq(Nat)] /\ FilesKeepTheirData
  BY DEF NtInv, Promised
<1>2. kept' \in [FileRecord -> SUBSET Seq(Nat)] /\ \A q \in FileRecord : kept'[q] = IF q = r THEN {} ELSE kept[q]
  BY <1>1
<1>3. \A q \in FileRecord : q \in target' => kept'[q] = {}
  BY <1>2, NtSizes
<1>4. FilesKeepTheirData'
  BY <1>1, <1>2 DEF FilesKeepTheirData
<1> QED BY <1>2, <1>3, <1>4 DEF Promised

\* An operation begins that writes the index first, or last, or not at all.
LEMMA FourParts ==
  ASSUME NEW a, NEW b, NEW c, NEW d, NEW S, a \in S, b \in S, c \in S, d \in S
  PROVE  /\ <<a, b>> \o <<c, d>> = <<a, b, c, d>>
         /\ <<a, b, c, d>> \in Seq(S) /\ DOMAIN <<a, b, c, d>> = {1, 2, 3, 4}
         /\ <<a, b>> \in Seq(S) /\ DOMAIN <<a, b>> = {1, 2}
         /\ <<a, b, c, d>>[1] = a /\ <<a, b, c, d>>[2] = b /\ <<a, b, c, d>>[3] = c /\ <<a, b, c, d>>[4] = d
<1>1. <<a, b>> \in Seq(S) /\ <<c, d>> \in Seq(S) /\ <<a, b, c, d>> \in Seq(S)
  OBVIOUS
<1>2. Len(<<a, b>> \o <<c, d>>) = 4 /\ Len(<<a, b, c, d>>) = 4 /\ <<a, b>> \o <<c, d>> \in Seq(S)
  BY <1>1, ConcatProperties
<1>3. \A i \in 1..4 : (<<a, b>> \o <<c, d>>)[i] = <<a, b, c, d>>[i]
  OBVIOUS
<1>4. <<a, b>> \o <<c, d>> = <<a, b, c, d>>
  BY ONLY <1>1, <1>2, <1>3, SeqEqual
<1> QED BY <1>1, <1>4

LEMMA SectorsTyped ==
  ASSUME NEW r \in Record, NEW content \in RecordContent
  PROVE  /\ Sectors(r, content) = <<[at |-> r, first |-> TRUE, to |-> content],
                                    [at |-> r, first |-> FALSE, to |-> content]>>
         /\ \A b \in BOOLEAN : [at |-> r, first |-> b, to |-> content] \in SectorContent
         /\ Sectors(r, content) \in Seq(SectorContent)
         /\ DOMAIN Sectors(r, content) = {1, 2}
         /\ \A j \in {1, 2} : Sectors(r, content)[j].at = r /\ Sectors(r, content)[j].to = content
BY DEF Sectors, SectorContent

\* Only records are to be written.
LEMMA RecordsPlanned ==
  ASSUME NtInv, todo = <<>>, UNCHANGED <<mft, loose, failures>>, NEW r \in FileRecord,
         todo' \in Seq(SectorContent), \A j \in DOMAIN todo' : todo'[j].at = r /\ (~todo'[j].to.used => r \notin RefsOf(mft[NtfsRoot]) \ loose),
         \A j \in DOMAIN undo' : undo'[j].at # NtfsRoot
  PROVE  IndexNow' /\ IndexNext' /\ FreedUnlisted'
<1>0. r # NtfsRoot
  BY NtSizes
<1>1. IndexPlanned' = {}
  BY <1>0 DEF IndexPlanned
<1>2. IndexNow'
  BY DEF NtInv, IndexNow, Torn, UsedNow
<1>3. IndexNext'
  BY <1>1 DEF IndexNext
<1>4. FreedUnlisted'
  BY <1>1 DEF FreedUnlisted
<1> QED BY <1>2, <1>3, <1>4

\* What a plan for the index must be: what it becomes, and what it is between its sectors.
PlanOk(to, r) ==
  /\ to \in RecordContent /\ IndexOk(to) /\ OnceIn(to, loose)
  /\ RefsOf(to) \subseteq RefsOf(mft[NtfsRoot]) \union {r}
  /\ \A half \in RecordContent : Between(half, mft[NtfsRoot], to) =>
       IndexOk(half) /\ RefsOf(half) \subseteq RefsOf(mft[NtfsRoot]) \union {r}

LEMMA PlannedHalf ==
  ASSUME VolumeType, NEW to, NEW r, PlanOk(to, r)
  PROVE  LET s == [at |-> NtfsRoot, first |-> TRUE, to |-> to]
             half == Written(mft[NtfsRoot], s) IN
         IndexOk(half) /\ RefsOf(half) \subseteq RefsOf(mft[NtfsRoot]) \union {r}
<1> DEFINE s == [at |-> NtfsRoot, first |-> TRUE, to |-> to]
           half == Written(mft[NtfsRoot], s)
<1>1. to \in RecordContent /\ mft[NtfsRoot] \in RecordContent
  BY NtSizes DEF PlanOk, VolumeType
<1>2. s \in SectorContent /\ s.first /\ s.to = to
  BY <1>1, SectorsTyped, NtSizes
<1> HIDE DEF s
<1>3. half \in RecordContent /\ Between(half, mft[NtfsRoot], to)
  BY <1>1, <1>2, HalfWritten DEF Between
<1> QED BY <1>3 DEF PlanOk, s

\* The index is written first, then a record, whose name it may keep only if it is loose or used.
LEMMA IndexPlannedFirst ==
  ASSUME NtInv, todo = <<>>, UNCHANGED <<mft, loose, failures>>, NEW r \in FileRecord, NEW content \in RecordContent,
         NEW to, PlanOk(to, r), r \in RefsOf(mft[NtfsRoot]),
         todo' = Sectors(NtfsRoot, to) \o Sectors(r, content),
         ~content.used => r \notin RefsOf(to) \ loose,
         \A j \in DOMAIN undo' : undo'[j].at # NtfsRoot
  PROVE  /\ IndexNow' /\ IndexNext' /\ FreedUnlisted' /\ todo' \in Seq(SectorContent)
         /\ \A j \in DOMAIN todo' : todo'[j].at \in {r, NtfsRoot}
<1> DEFINE a == [at |-> NtfsRoot, first |-> TRUE, to |-> to]
           b == [at |-> NtfsRoot, first |-> FALSE, to |-> to]
           c == [at |-> r, first |-> TRUE, to |-> content]
           d == [at |-> r, first |-> FALSE, to |-> content]
<1>0. r # NtfsRoot /\ r \in Record /\ NtfsRoot \in Record
  BY NtSizes
<1>1. a \in SectorContent /\ b \in SectorContent /\ c \in SectorContent /\ d \in SectorContent
  BY SectorsTyped, NtSizes DEF PlanOk
<1>2. todo' = <<a, b>> \o <<c, d>>
  BY DEF Sectors
<1>p. a.at = NtfsRoot /\ a.first = TRUE /\ a.to = to /\ b.at = NtfsRoot /\ b.first = FALSE /\ b.to = to /\ b = [at |-> NtfsRoot, first |-> FALSE, to |-> a.to]
      /\ c.at = r /\ c.to = content /\ d.at = r /\ d.to = content
  OBVIOUS
<1> DEFINE half == Written(mft[NtfsRoot], a)
<1>h. IndexOk(half) /\ RefsOf(half) \subseteq RefsOf(mft[NtfsRoot]) \union {r}
  BY PlannedHalf DEF NtInv
<1> HIDE DEF a, b, c, d, half
<1>3. todo' = <<a, b, c, d>> /\ todo' \in Seq(SectorContent) /\ DOMAIN todo' = {1, 2, 3, 4}
      /\ todo'[1] = a /\ todo'[2] = b /\ todo'[3] = c /\ todo'[4] = d
  BY ONLY <1>1, <1>2, FourParts
<1>4. IndexPlanned' = {1, 2}
  BY <1>0, <1>3, <1>p DEF IndexPlanned
<1>5. RefsOf(mft[NtfsRoot]) \ loose \subseteq UsedNow /\ UsedNow' = UsedNow /\ IndexOk(mft[NtfsRoot]) /\ OnceIn(mft[NtfsRoot], loose)
  BY DEF NtInv, IndexNow, UsedNow, Torn
<1>6. todo' # <<>> /\ Head(todo') = a
  BY <1>3
<1>7. IndexNow'
  BY <1>5 DEF IndexNow
<1>8. /\ IndexOk(to) /\ OnceIn(to, loose) /\ RefsOf(to) \ loose \subseteq UsedNow
      /\ RefsOf(half) \ loose \subseteq UsedNow
  BY <1>5, <1>h DEF PlanOk
<1>9. IndexNext'
  <2>1. \A j \in 1..1 - 1 : FALSE
    OBVIOUS
  <2>2. \A j \in 1..2 - 1 : j = 1
    OBVIOUS
  <2> SUFFICES ASSUME NEW i \in {1, 2}
               PROVE  LET s == todo'[i]
                          torn == Written(mft[NtfsRoot], s) IN
                      /\ IndexOk(s.to) /\ OnceIn(s.to, loose)
                      /\ RefsOf(s.to) \ loose \subseteq UsedNow' \union Before(i)'
                      /\ \A j \in 1..i - 1 : todo'[j].at # NtfsRoot => todo'[j].to.used
                      /\ IF s.first
                         THEN /\ i + 1 \in IndexPlanned' /\ todo'[i + 1] = [at |-> NtfsRoot, first |-> FALSE, to |-> s.to]
                              /\ IndexPlanned' = {i, i + 1}
                              /\ IndexOk(torn) /\ RefsOf(torn) \ loose \subseteq UsedNow' \union Before(i)'
                         ELSE \/ i = 1 /\ IndexPlanned' = {1} /\ torn = s.to
                              \/ i - 1 \in IndexPlanned' /\ todo'[i - 1].first
    BY <1>4 DEF IndexNext
  <2>3. CASE i = 1
    <3>1. todo'[1] = a /\ todo'[1 + 1] = b /\ 1 + 1 \in IndexPlanned' /\ IndexPlanned' = {1, 1 + 1}
      BY <1>3, <1>4
    <3>2. \A j \in 1..1 - 1 : todo'[j].at # NtfsRoot => todo'[j].to.used
      BY <2>1
    <3>3. IndexOk(Written(mft[NtfsRoot], todo'[1])) /\ RefsOf(Written(mft[NtfsRoot], todo'[1])) \ loose \subseteq UsedNow'
      BY ONLY <3>1, <1>h, <1>8, <1>5 DEF half
    <3>4. todo'[1].first /\ todo'[1].to = to /\ todo'[1 + 1] = [at |-> NtfsRoot, first |-> FALSE, to |-> todo'[1].to]
      BY ONLY <3>1, <1>p
    <3>5. RefsOf(to) \ loose \subseteq UsedNow'
      BY ONLY <1>8, <1>5
    <3> QED BY ONLY <2>3, <3>1, <3>2, <3>3, <3>4, <3>5, <1>8
  <2>4. CASE i = 2
    <3>1. todo'[2] = b /\ todo'[1] = a /\ 2 - 1 = 1 /\ 1 \in IndexPlanned'
      BY <1>3, <1>4
    <3> QED BY ONLY <3>1, <2>2, <2>4, <1>5, <1>8, <1>p
  <2> QED BY <2>3, <2>4
<1>10. FreedUnlisted'
  <2>1. ASSUME NEW j \in {1, 2, 3, 4}, todo'[j].at # NtfsRoot, ~todo'[j].to.used
        PROVE  \A i \in IndexPlanned' : todo'[j].at \notin RefsOf(todo'[i].to) \ loose
    <3>1. todo'[j].at = r /\ todo'[j].to = content
      BY <2>1, <1>3, <1>p
    <3>2. \A i \in IndexPlanned' : todo'[i].to = to
      BY <1>3, <1>4, <1>p
    <3> QED BY <3>1, <3>2, <2>1
  <2> QED BY <2>1, <1>3, <1>4 DEF FreedUnlisted
<1>11. \A j \in DOMAIN todo' : todo'[j].at \in {r, NtfsRoot}
  BY <1>3, <1>p
<1> QED BY <1>3, <1>7, <1>9, <1>10, <1>11

\* A record is written first, which the index then names.
LEMMA IndexPlannedLast ==
  ASSUME NtInv, todo = <<>>, UNCHANGED <<mft, loose, failures>>, NEW r \in FileRecord, NEW content \in RecordContent,
         NEW to, PlanOk(to, r), content.used,
         todo' = Sectors(r, content) \o Sectors(NtfsRoot, to),
         \A j \in DOMAIN undo' : undo'[j].at # NtfsRoot
  PROVE  /\ IndexNow' /\ IndexNext' /\ FreedUnlisted' /\ todo' \in Seq(SectorContent)
         /\ \A j \in DOMAIN todo' : todo'[j].at \in {r, NtfsRoot}
<1> DEFINE a == [at |-> r, first |-> TRUE, to |-> content]
           b == [at |-> r, first |-> FALSE, to |-> content]
           c == [at |-> NtfsRoot, first |-> TRUE, to |-> to]
           d == [at |-> NtfsRoot, first |-> FALSE, to |-> to]
<1>0. r # NtfsRoot /\ r \in Record /\ NtfsRoot \in Record
  BY NtSizes
<1>1. a \in SectorContent /\ b \in SectorContent /\ c \in SectorContent /\ d \in SectorContent
  BY SectorsTyped, NtSizes DEF PlanOk
<1>2. todo' = <<a, b>> \o <<c, d>>
  BY DEF Sectors
<1>p. c.at = NtfsRoot /\ c.first = TRUE /\ c.to = to /\ d.at = NtfsRoot /\ d.first = FALSE /\ d.to = to /\ d = [at |-> NtfsRoot, first |-> FALSE, to |-> c.to]
      /\ a.at = r /\ a.to = content /\ a.first = TRUE /\ b.at = r /\ b.to = content /\ b.first = FALSE
  OBVIOUS
<1> DEFINE half == Written(mft[NtfsRoot], c)
<1>h. IndexOk(half) /\ RefsOf(half) \subseteq RefsOf(mft[NtfsRoot]) \union {r}
  BY PlannedHalf DEF NtInv
<1> HIDE DEF a, b, c, d, half
<1>3. todo' = <<a, b, c, d>> /\ todo' \in Seq(SectorContent) /\ DOMAIN todo' = {1, 2, 3, 4}
      /\ todo'[1] = a /\ todo'[2] = b /\ todo'[3] = c /\ todo'[4] = d
  BY ONLY <1>1, <1>2, FourParts
<1>4. IndexPlanned' = {3, 4}
  BY <1>0, <1>3, <1>p DEF IndexPlanned
<1>5. RefsOf(mft[NtfsRoot]) \ loose \subseteq UsedNow /\ UsedNow' = UsedNow /\ IndexOk(mft[NtfsRoot]) /\ OnceIn(mft[NtfsRoot], loose)
  BY DEF NtInv, IndexNow, UsedNow, Torn
<1>7. IndexNow'
  BY <1>5 DEF IndexNow
<1>b. r \in Before(3)' /\ r \in Before(4)'
  <2>1. 1 \in 1..3 - 1 /\ 1 \in 1..4 - 1
    OBVIOUS
  <2> QED BY <2>1, <1>0, <1>3, <1>p DEF Before
<1>8. /\ IndexOk(to) /\ OnceIn(to, loose)
      /\ RefsOf(to) \ loose \subseteq UsedNow \union {r}
      /\ RefsOf(half) \ loose \subseteq UsedNow \union {r}
  BY <1>5, <1>h DEF PlanOk
<1>9. IndexNext'
  <2>1. \A j \in 1..3 - 1 : j \in {1, 2}
    OBVIOUS
  <2>2. \A j \in 1..4 - 1 : j \in {1, 2, 3}
    OBVIOUS
  <2> SUFFICES ASSUME NEW i \in {3, 4}
               PROVE  LET s == todo'[i]
                          torn == Written(mft[NtfsRoot], s) IN
                      /\ IndexOk(s.to) /\ OnceIn(s.to, loose)
                      /\ RefsOf(s.to) \ loose \subseteq UsedNow' \union Before(i)'
                      /\ \A j \in 1..i - 1 : todo'[j].at # NtfsRoot => todo'[j].to.used
                      /\ IF s.first
                         THEN /\ i + 1 \in IndexPlanned' /\ todo'[i + 1] = [at |-> NtfsRoot, first |-> FALSE, to |-> s.to]
                              /\ IndexPlanned' = {i, i + 1}
                              /\ IndexOk(torn) /\ RefsOf(torn) \ loose \subseteq UsedNow' \union Before(i)'
                         ELSE \/ i = 1 /\ IndexPlanned' = {1} /\ torn = s.to
                              \/ i - 1 \in IndexPlanned' /\ todo'[i - 1].first
    BY <1>4 DEF IndexNext
  <2>3. CASE i = 3
    <3>1. todo'[3] = c /\ todo'[3 + 1] = d /\ 3 + 1 \in IndexPlanned' /\ IndexPlanned' = {3, 3 + 1}
      BY <1>3, <1>4
    <3>2. \A j \in 1..3 - 1 : todo'[j].to.used
      BY <2>1, <1>3, <1>p
    <3>3. IndexOk(Written(mft[NtfsRoot], todo'[3])) /\ RefsOf(Written(mft[NtfsRoot], todo'[3])) \ loose \subseteq UsedNow' \union Before(3)'
      BY ONLY <3>1, <1>h, <1>8, <1>5, <1>b DEF half
    <3>4. todo'[3].first /\ todo'[3].to = to /\ todo'[3 + 1] = [at |-> NtfsRoot, first |-> FALSE, to |-> todo'[3].to]
      BY ONLY <3>1, <1>p
    <3>5. RefsOf(to) \ loose \subseteq UsedNow' \union Before(3)'
      BY ONLY <1>8, <1>5, <1>b
    <3> QED BY ONLY <2>3, <3>1, <3>2, <3>3, <3>4, <3>5, <1>8
  <2>4. CASE i = 4
    <3>1. todo'[4] = d /\ todo'[4 - 1] = c /\ 4 - 1 \in IndexPlanned'
      BY <1>3, <1>4
    <3>2. \A j \in 1..4 - 1 : todo'[j].at # NtfsRoot => todo'[j].to.used
      BY <2>2, <1>3, <1>p
    <3> QED BY ONLY <3>1, <3>2, <2>4, <1>5, <1>8, <1>b, <1>p
  <2> QED BY <2>3, <2>4
<1>10. FreedUnlisted'
  <2>1. \A j \in {1, 2, 3, 4} : todo'[j].at = NtfsRoot \/ todo'[j].to.used
    BY <1>3, <1>p
  <2> QED BY <2>1, <1>3 DEF FreedUnlisted
<1>11. \A j \in DOMAIN todo' : todo'[j].at \in {r, NtfsRoot}
  BY <1>3, <1>p
<1> QED BY <1>3, <1>7, <1>9, <1>10, <1>11

LEMMA VolumeParts ==
  ASSUME NtInv
  PROVE  /\ mft \in [Record -> RecordContent] /\ mft[NtfsRoot] \in RecordContent
         /\ todo \in Seq(SectorContent) /\ undo \in Seq(SectorContent) /\ loose \subseteq FileRecord
         /\ IndexOk(mft[NtfsRoot]) /\ RefsOf(mft[NtfsRoot]) \ loose \subseteq UsedNow
         /\ todo = <<>> => OnceIn(mft[NtfsRoot], loose)
BY NtSizes DEF NtInv, VolumeType, IndexNow, Torn

\* An operation that plans what its records and the index may be.
LEMMA PlanKept ==
  ASSUME NtInv, NEW r \in FileRecord, UNCHANGED <<mft, loose, failures>>,
         IndexNow', IndexNext', FreedUnlisted', todo' \in Seq(SectorContent), undo' \in Seq(SectorContent), todo' # <<>>,
         \A j \in DOMAIN undo' : undo'[j].at = r,
         kept' = [kept EXCEPT ![r] = {}],
         \/ target' = {r} /\ \A j \in DOMAIN todo' : todo'[j].at = r
         \/ target' = {r, NtfsRoot} /\ \A j \in DOMAIN todo' : todo'[j].at \in {r, NtfsRoot}
  PROVE  NtInv'
<1>1. Promised'
  BY PromisedKept
<1>2. VolumeType'
  BY NtSizes DEF NtInv, VolumeType
<1> QED BY <1>1, <1>2 DEF NtInv

\* The content of a record, with a part of it changed.
LEMMA ContentMade ==
  ASSUME NEW used \in BOOLEAN, NEW count \in 0..RecordRoom, NEW cell \in [1..RecordRoom -> Cell]
  PROVE  LET content == [used |-> used, count |-> count, cell |-> cell] IN
         content \in RecordContent /\ content.used = used
BY DEF RecordContent

LEMMA FreedContent ==
  ASSUME NEW content \in RecordContent
  PROVE  [content EXCEPT !.used = FALSE] \in RecordContent /\ [content EXCEPT !.used = FALSE].used = FALSE
BY DEF RecordContent

LEMMA NtCreateKept == ASSUME NtInv, NEW len \in Length, NtfsCreateFile(len) PROVE NtInv'
<1> DEFINE free == {r \in FileRecord : ~mft[r].used}
           r == Min(free)
           cells == [c \in 1..RecordRoom |-> [ref |-> 0, n |-> IF c =< len THEN 1 ELSE 0]]
           content == [used |-> TRUE, count |-> len, cell |-> cells]
           unused == [content EXCEPT !.used = FALSE]
           root == mft[NtfsRoot]
           to == WithEntry(root, r, len)
<1>1. /\ free # {} /\ todo = <<>> /\ UNCHANGED <<mft, loose, failures>>
      /\ kept' = [kept EXCEPT ![r] = {}]
      /\ \/ /\ root.count + 1 < RecordRoom /\ Ends(root) # {}
            /\ todo' = Sectors(r, content) \o Sectors(NtfsRoot, to)
            /\ undo' = Sectors(r, unused) /\ target' = {r, NtfsRoot}
         \/ /\ todo' = Sectors(r, content) \o Sectors(r, unused)
            /\ undo' = <<>> /\ target' = {r}
  BY DEF NtfsCreateFile, StartWrite
<1>2. r \in FileRecord /\ ~mft[r].used
  <2>1. free \in SUBSET Nat
    BY NtSizes
  <2>2. r \in free
    BY <1>1, <2>1, LeastIn
  <2> QED BY <2>2
<1>3. content \in RecordContent /\ content.used = TRUE
  <2>1. len \in 0..RecordRoom /\ len \in Nat
    BY NtSizesOK
  <2>2. cells \in [1..RecordRoom -> Cell]
    <3>1. \A c \in 1..RecordRoom : [ref |-> 0, n |-> IF c =< len THEN 1 ELSE 0] \in Cell
      BY DEF Cell
    <3> QED BY <3>1
  <2> HIDE DEF cells
  <2> QED BY <2>1, <2>2, ContentMade
<1> HIDE DEF content, free
<1>4. unused \in RecordContent /\ unused.used = FALSE
  BY <1>3, FreedContent
<1> HIDE DEF unused, r, to
<1>5. root \in RecordContent /\ IndexOk(root) /\ RefsOf(root) \ loose \subseteq UsedNow /\ OnceIn(root, loose) /\ r \in Record
  BY <1>1, <1>2, VolumeParts, NtSizes
<1>6. r \notin RefsOf(root) \ loose
  BY <1>2, <1>5 DEF UsedNow
<1>7. Sectors(r, unused) \in Seq(SectorContent) /\ DOMAIN Sectors(r, unused) = {1, 2}
      /\ \A j \in {1, 2} : Sectors(r, unused)[j].at = r /\ Sectors(r, unused)[j].to = unused
  BY <1>4, <1>5, SectorsTyped
<1>n. r # NtfsRoot
  BY <1>2, NtSizes
<1>8. CASE /\ root.count + 1 < RecordRoom /\ Ends(root) # {}
            /\ todo' = Sectors(r, content) \o Sectors(NtfsRoot, to)
            /\ undo' = Sectors(r, unused) /\ target' = {r, NtfsRoot}
  <2>1. len \in Nat
    BY NtSizesOK
  <2>2. PlanOk(to, r)
    BY <2>1, <1>2, <1>5, <1>6, <1>8, EntryAdded DEF PlanOk, to
  <2>3. \A j \in DOMAIN undo' : undo'[j].at = r /\ undo'[j].at # NtfsRoot
    BY <1>7, <1>8, <1>n
  <2>4. /\ IndexNow' /\ IndexNext' /\ FreedUnlisted' /\ todo' \in Seq(SectorContent)
        /\ \A j \in DOMAIN todo' : todo'[j].at \in {r, NtfsRoot}
    BY <1>1, <1>2, <1>3, <1>8, <2>2, <2>3, IndexPlannedLast
  <2>5. todo' # <<>>
    <3>1. <<[at |-> r, first |-> TRUE, to |-> content], [at |-> r, first |-> FALSE, to |-> content]>> \o
          <<[at |-> NtfsRoot, first |-> TRUE, to |-> to], [at |-> NtfsRoot, first |-> FALSE, to |-> to]>> # <<>>
      OBVIOUS
    <3> QED BY <3>1, <1>8 DEF Sectors
  <2> QED BY <1>1, <1>2, <1>7, <1>8, <2>3, <2>4, <2>5, PlanKept
<1>9. CASE /\ todo' = Sectors(r, content) \o Sectors(r, unused)
            /\ undo' = <<>> /\ target' = {r}
  <2> DEFINE a == [at |-> r, first |-> TRUE, to |-> content]
             b == [at |-> r, first |-> FALSE, to |-> content]
             c == [at |-> r, first |-> TRUE, to |-> unused]
             d == [at |-> r, first |-> FALSE, to |-> unused]
  <2>1. a \in SectorContent /\ b \in SectorContent /\ c \in SectorContent /\ d \in SectorContent
    BY <1>3, <1>4, <1>5, SectorsTyped
  <2>2. todo' = <<a, b>> \o <<c, d>>
    BY <1>9 DEF Sectors
  <2>3. a.at = r /\ b.at = r /\ c.at = r /\ d.at = r
    OBVIOUS
  <2> HIDE DEF a, b, c, d
  <2>4. todo' = <<a, b, c, d>> /\ todo' \in Seq(SectorContent) /\ DOMAIN todo' = {1, 2, 3, 4}
        /\ todo'[1] = a /\ todo'[2] = b /\ todo'[3] = c /\ todo'[4] = d
    BY ONLY <2>1, <2>2, FourParts
  <2>5. todo' # <<>> /\ \A j \in DOMAIN todo' : todo'[j].at = r
    BY <2>3, <2>4
  <2>6. undo' \in Seq(SectorContent) /\ \A j \in DOMAIN undo' : FALSE
    BY <1>9
  <2>7. IndexNow' /\ IndexNext' /\ FreedUnlisted'
    BY <1>1, <1>2, <1>6, <2>4, <2>5, <2>6, RecordsPlanned
  <2> QED BY <1>1, <1>2, <1>9, <2>4, <2>5, <2>6, <2>7, PlanKept
<1> QED BY <1>1, <1>8, <1>9

LEMMA TwoBehind ==
  ASSUME NEW q, NEW to, NEW r, NEW content
  PROVE  Sectors(q, to) \o Sectors(r, content) # <<>>
<1>1. <<[at |-> q, first |-> TRUE, to |-> to], [at |-> q, first |-> FALSE, to |-> to]>> \o
      <<[at |-> r, first |-> TRUE, to |-> content], [at |-> r, first |-> FALSE, to |-> content]>> # <<>>
  OBVIOUS
<1> QED BY <1>1 DEF Sectors

LEMMA NtDeleteKept == ASSUME NtInv, NEW r \in FileRecord, NtfsDeleteFile(r) PROVE NtInv'
<1> DEFINE root == mft[NtfsRoot]
           to == WithoutEntry(root, r)
           freed == [mft[r] EXCEPT !.used = FALSE]
<1>1. /\ r \in InIndex /\ todo = <<>> /\ UNCHANGED <<mft, loose, failures>>
      /\ todo' = Sectors(NtfsRoot, to) \o Sectors(r, freed) /\ undo' = Sectors(r, freed) /\ target' = {r, NtfsRoot}
      /\ kept' = [kept EXCEPT ![r] = {}]
  BY DEF NtfsDeleteFile, StartWrite
<1>2. root \in RecordContent /\ IndexOk(root) /\ OnceIn(root, loose) /\ r \in Record /\ mft[r] \in RecordContent
  BY <1>1, VolumeParts, NtSizes
<1>3. freed \in RecordContent
  BY <1>2, FreedContent
<1> HIDE DEF freed, to
<1>4. r \in RefsOf(root)
  BY <1>1, ListedNow
<1>5. PlanOk(to, r) /\ r \notin RefsOf(to) \ loose
  BY <1>2, <1>4, EntryRemoved DEF PlanOk, to
<1>6. Sectors(r, freed) \in Seq(SectorContent) /\ DOMAIN Sectors(r, freed) = {1, 2}
      /\ \A j \in {1, 2} : Sectors(r, freed)[j].at = r
  BY <1>2, <1>3, SectorsTyped
<1>n. r # NtfsRoot
  BY NtSizes
<1>7. \A j \in DOMAIN undo' : undo'[j].at = r /\ undo'[j].at # NtfsRoot
  BY <1>1, <1>6, <1>n
<1>8. /\ IndexNow' /\ IndexNext' /\ FreedUnlisted' /\ todo' \in Seq(SectorContent)
      /\ \A j \in DOMAIN todo' : todo'[j].at \in {r, NtfsRoot}
  BY <1>1, <1>3, <1>4, <1>5, <1>7, IndexPlannedFirst
<1>9. todo' # <<>>
  BY <1>1, TwoBehind
<1> QED BY <1>1, <1>6, <1>7, <1>8, <1>9, PlanKept

LEMMA NtWriteKept ==
  ASSUME NtInv, NEW r \in FileRecord, NEW offset \in Offset, NEW len \in Length, NEW setEof, NEW withParent,
         NtfsWriteFile(r, offset, len, setEof, withParent)
  PROVE  NtInv'
<1> DEFINE root == mft[NtfsRoot]
           old == mft[r].count
           wanted == IF setEof \/ offset + len > old THEN offset + len ELSE old
           size == IF wanted > RecordRoom THEN old ELSE wanted
           end == IF offset + len > size THEN size ELSE offset + len
           cells == [c \in 1..RecordRoom |-> IF c > offset /\ c =< end THEN [ref |-> 0, n |-> 2]
                                             ELSE IF c > old /\ c =< offset THEN NoCell ELSE mft[r].cell[c]]
           content == [mft[r] EXCEPT !.count = size,
                         !.cell = [c \in 1..RecordRoom |-> IF c > offset /\ c =< end THEN [ref |-> 0, n |-> 2]
                                             ELSE IF c > old /\ c =< offset THEN NoCell ELSE @[c]]]
           to == WithSize(root, r, size)
<1>1. /\ r \in InIndex /\ mft[r].used /\ todo = <<>> /\ UNCHANGED <<mft, loose, failures>>
      /\ kept' = [kept EXCEPT ![r] = {}]
      /\ \/ /\ todo' = Sectors(NtfsRoot, to) \o Sectors(r, content)
            /\ undo' = Sectors(r, content) /\ target' = {r, NtfsRoot}
         \/ /\ todo' = Sectors(r, content) /\ undo' = <<>> /\ target' = {r}
  BY DEF NtfsWriteFile, StartWrite
<1>2. root \in RecordContent /\ IndexOk(root) /\ OnceIn(root, loose) /\ r \in Record /\ mft[r] \in RecordContent
  BY <1>1, VolumeParts, NtSizes
<1>3. old \in 0..RecordRoom /\ offset + len \in Nat /\ RecordRoom \in Nat
  <2>1. offset \in Nat /\ len \in Nat
    BY NtSizesOK
  <2> QED BY <2>1, <1>2, ContentParts, NtSizes
<1>4. size \in 0..RecordRoom /\ size \in Nat
  BY <1>3
<1> HIDE DEF size, old, end
<1>5. cells \in [1..RecordRoom -> Cell]
  <2>1. [ref |-> 0, n |-> 2] \in Cell /\ NoCell \in Cell /\ \A c \in 1..RecordRoom : mft[r].cell[c] \in Cell
    BY <1>2, ContentParts DEF Cell, NoCell
  <2> QED BY <2>1
<1>6. content = [used |-> mft[r].used, count |-> size, cell |-> cells]
  <2>1. mft[r] = [used |-> mft[r].used, count |-> mft[r].count, cell |-> mft[r].cell]
    BY <1>2 DEF RecordContent
  <2>2. content = [mft[r] EXCEPT !.count = size, !.cell = cells]
    BY <1>2 DEF RecordContent
  <2> HIDE DEF cells, content
  <2> QED BY <2>1, <2>2
<1> HIDE DEF cells, content
<1>7. content \in RecordContent /\ content.used
  BY <1>1, <1>2, <1>4, <1>5, <1>6, ContentParts, ContentMade
<1>8. r \in RefsOf(root) /\ r # NtfsRoot
  BY <1>1, ListedNow, NtSizes
<1>9. Sectors(r, content) \in Seq(SectorContent) /\ DOMAIN Sectors(r, content) = {1, 2} /\ Sectors(r, content) # <<>>
      /\ \A j \in {1, 2} : Sectors(r, content)[j].at = r /\ Sectors(r, content)[j].to = content
  BY <1>2, <1>7, SectorsTyped
<1>10. CASE /\ todo' = Sectors(NtfsRoot, to) \o Sectors(r, content)
             /\ undo' = Sectors(r, content) /\ target' = {r, NtfsRoot}
  <2> HIDE DEF to
  <2>1. /\ to \in RecordContent /\ to.used = root.used /\ to.count = root.count
        /\ \A c \in 1..RecordRoom : to.cell[c].ref = root.cell[c].ref
    BY <1>2, <1>4, SizeChanged DEF to
  <2>2. IndexOk(to) /\ RefsOf(to) = RefsOf(root) /\ OnceIn(to, loose)
    BY <1>2, <2>1, SameRefs
  <2>3. ASSUME NEW half \in RecordContent, Between(half, root, to)
        PROVE  IndexOk(half) /\ RefsOf(half) = RefsOf(root)
    <3>1. half.count = root.count /\ \A c \in 1..RecordRoom : half.cell[c].ref = root.cell[c].ref
      BY <2>1, <2>3 DEF Between
    <3> QED BY <3>1, <1>2, SameRefs
  <2>4. PlanOk(to, r)
    BY <2>1, <2>2, <2>3 DEF PlanOk
  <2>5. \A j \in DOMAIN undo' : undo'[j].at = r /\ undo'[j].at # NtfsRoot
    BY <1>8, <1>9, <1>10
  <2>6. /\ IndexNow' /\ IndexNext' /\ FreedUnlisted' /\ todo' \in Seq(SectorContent)
        /\ \A j \in DOMAIN todo' : todo'[j].at \in {r, NtfsRoot}
    BY <1>1, <1>7, <1>8, <1>10, <2>4, <2>5, IndexPlannedFirst
  <2>7. todo' # <<>>
    BY <1>10, TwoBehind
  <2> QED BY <1>1, <1>9, <1>10, <2>5, <2>6, <2>7, PlanKept
<1>11. CASE todo' = Sectors(r, content) /\ undo' = <<>> /\ target' = {r}
  <2>1. todo' \in Seq(SectorContent) /\ todo' # <<>> /\ \A j \in DOMAIN todo' : todo'[j].at = r /\ todo'[j].to.used
    BY <1>7, <1>9, <1>11
  <2>2. undo' \in Seq(SectorContent) /\ \A j \in DOMAIN undo' : FALSE
    BY <1>11
  <2>3. IndexNow' /\ IndexNext' /\ FreedUnlisted'
    BY <1>1, <2>1, <2>2, RecordsPlanned
  <2> QED BY <1>1, <1>11, <2>1, <2>2, <2>3, PlanKept
<1> QED BY <1>1, <1>10, <1>11

LEMMA ListBelow ==
  ASSUME NEW S, NEW s \in Seq(S), s # <<>>
  PROVE  /\ Head(s) = s[1] /\ Head(s) \in S /\ 1 \in DOMAIN s /\ Tail(s) \in Seq(S) /\ Len(s) \in Nat \ {0}
         /\ DOMAIN s = 1..Len(s) /\ DOMAIN Tail(s) = 1..Len(s) - 1 /\ Len(Tail(s)) = Len(s) - 1
         /\ \A i \in DOMAIN Tail(s) : i + 1 \in DOMAIN s /\ Tail(s)[i] = s[i + 1]
OBVIOUS

\* What a sector of a record, or of the index, leaves of the plan.
LEMMA RecordWritten ==
  ASSUME NtInv, WriteSector, Head(todo).at # NtfsRoot
  PROVE  IndexNow' /\ IndexNext' /\ FreedUnlisted'
<1> DEFINE s == Head(todo)
           r == s.at
<1>1. /\ todo # <<>> /\ mft' = [mft EXCEPT ![r] = Written(@, s)] /\ todo' = Tail(todo) /\ UNCHANGED <<loose, failures>>
      /\ undo' \in {undo, <<>>}
  BY DEF WriteSector, Finish
<1>2. /\ mft \in [Record -> RecordContent] /\ mft[NtfsRoot] \in RecordContent
      /\ IndexOk(mft[NtfsRoot]) /\ RefsOf(mft[NtfsRoot]) \ loose \subseteq UsedNow
      /\ todo \in Seq(SectorContent)
  BY VolumeParts
<1>3. /\ Head(todo) = todo[1] /\ Head(todo) \in SectorContent /\ 1 \in DOMAIN todo /\ Len(todo) \in Nat \ {0}
      /\ DOMAIN todo = 1..Len(todo) /\ DOMAIN todo' = 1..Len(todo) - 1
      /\ \A i \in DOMAIN todo' : i + 1 \in DOMAIN todo /\ todo'[i] = todo[i + 1]
  BY <1>1, <1>2, ListBelow
<1>4. r \in FileRecord /\ r \in Record /\ mft[r] \in RecordContent
  BY <1>2, <1>3, NtSizes DEF SectorContent, FileRecord
<1>5. mft'[NtfsRoot] = mft[NtfsRoot] /\ \A q \in Record : mft'[q].used = IF q = r /\ s.first THEN s.to.used ELSE mft[q].used
  BY <1>1, <1>2, <1>3, <1>4, WrittenTyped, NtSizes
<1>6. IndexPlanned' = {i \in DOMAIN todo' : i + 1 \in IndexPlanned} /\ 1 \notin IndexPlanned
  <2>1. todo[1].at # NtfsRoot
    BY <1>3
  <2> HIDE DEF s
  <2> QED BY <2>1, <1>3 DEF IndexPlanned
<1>7. \A i \in IndexPlanned : i - 1 \in IndexPlanned' /\ (i - 1) + 1 = i /\ i \in Nat
  BY <1>3, <1>6 DEF IndexPlanned
<1> HIDE DEF s
<1>8. ASSUME s.first, ~s.to.used PROVE IndexPlanned = {} /\ r \notin RefsOf(mft[NtfsRoot]) \ loose
  <2>1. ASSUME NEW i \in IndexPlanned PROVE FALSE
    <3>1. \A j \in 1..i - 1 : todo[j].at # NtfsRoot => todo[j].to.used
      BY <2>1 DEF NtInv, IndexNext
    <3>2. 1 \in 1..i - 1
      BY <2>1, <1>6, <1>3 DEF IndexPlanned
    <3> QED BY <3>1, <3>2, <1>3, <1>8 DEF s
  <2>2. todo[1].at # NtfsRoot /\ ~todo[1].to.used
    BY <1>3, <1>8 DEF s
  <2> QED BY <2>1, <2>2, <1>3 DEF s, NtInv, FreedUnlisted
<1>9. RefsOf(mft[NtfsRoot]) \ loose \subseteq UsedNow'
  <2>1. ASSUME NEW q \in RefsOf(mft[NtfsRoot]) \ loose PROVE q \in UsedNow'
    <3>1. q \in FileRecord /\ mft[q].used /\ q \in Record
      BY <2>1, <1>2, NtSizes DEF UsedNow
    <3>2. mft'[q].used
      BY <3>1, <2>1, <1>5, <1>8
    <3> QED BY <3>1, <3>2 DEF UsedNow
  <2> QED BY <2>1
<1>10. IndexNow'
  <2>1. ~Torn
    BY DEF Torn
  <2> QED BY <2>1, <1>1, <1>2, <1>5, <1>9 DEF NtInv, IndexNow
<1>11. ASSUME NEW i \in IndexPlanned PROVE UsedNow \union Before(i) \subseteq UsedNow' \union Before(i - 1)'
  <2>0. s.first => s.to.used
    BY <1>8, <1>11
  <2>1. UsedNow \subseteq UsedNow'
    <3>1. \A q \in FileRecord : q \in Record
      BY NtSizes
    <3> QED BY <2>0, <3>1, <1>5 DEF UsedNow
  <2>2. ASSUME NEW j \in 1..i - 1, todo[j].first, todo[j].at # NtfsRoot PROVE todo[j].at \in UsedNow' \union Before(i - 1)'
    <3>1. CASE j = 1
      <4>1. s.first /\ todo[j].at = r
        BY <2>2, <3>1, <1>3 DEF s
      <4> QED BY <4>1, <2>0, <1>4, <1>5 DEF UsedNow
    <3>2. CASE j # 1
      <4>1. j - 1 \in 1..(i - 1) - 1 /\ j - 1 \in DOMAIN todo' /\ (j - 1) + 1 = j
        BY <2>2, <3>2, <1>3, <1>11, <1>7 DEF IndexPlanned
      <4>2. todo'[j - 1] = todo[j]
        BY <4>1, <1>3
      <4> QED BY <4>1, <4>2, <2>2 DEF Before
    <3> QED BY <3>1, <3>2
  <2> QED BY <2>1, <2>2 DEF Before
<1>12. IndexNext'
  <2> SUFFICES ASSUME NEW k \in IndexPlanned'
               PROVE  LET z == todo'[k]
                          torn == Written(mft'[NtfsRoot], z) IN
                      /\ IndexOk(z.to) /\ OnceIn(z.to, loose')
                      /\ RefsOf(z.to) \ loose' \subseteq UsedNow' \union Before(k)'
                      /\ \A j \in 1..k - 1 : todo'[j].at # NtfsRoot => todo'[j].to.used
                      /\ IF z.first
                         THEN /\ k + 1 \in IndexPlanned' /\ todo'[k + 1] = [at |-> NtfsRoot, first |-> FALSE, to |-> z.to]
                              /\ IndexPlanned' = {k, k + 1}
                              /\ IndexOk(torn) /\ RefsOf(torn) \ loose' \subseteq UsedNow' \union Before(k)'
                         ELSE \/ k = 1 /\ IndexPlanned' = {1} /\ torn = z.to
                              \/ k - 1 \in IndexPlanned' /\ todo'[k - 1].first
    BY DEF IndexNext
  <2> DEFINE i == k + 1
             z == todo[i]
             torn == Written(mft[NtfsRoot], z)
  <2>1. i \in IndexPlanned /\ k \in DOMAIN todo' /\ todo'[k] = z /\ i - 1 = k /\ k \in Nat
    BY <1>3, <1>6
  <2>2. /\ IndexOk(z.to) /\ OnceIn(z.to, loose)
        /\ RefsOf(z.to) \ loose \subseteq UsedNow \union Before(i)
        /\ \A j \in 1..i - 1 : todo[j].at # NtfsRoot => todo[j].to.used
        /\ IF z.first
           THEN /\ i + 1 \in IndexPlanned /\ todo[i + 1] = [at |-> NtfsRoot, first |-> FALSE, to |-> z.to]
                /\ IndexPlanned = {i, i + 1}
                /\ IndexOk(torn) /\ RefsOf(torn) \ loose \subseteq UsedNow \union Before(i)
           ELSE \/ i = 1 /\ IndexPlanned = {1} /\ torn = z.to
                \/ i - 1 \in IndexPlanned /\ todo[i - 1].first
    BY <2>1 DEF NtInv, IndexNext
  <2> HIDE DEF z, torn, i
  <2>3. UsedNow \union Before(i) \subseteq UsedNow' \union Before(k)'
    BY <2>1, <1>11
  <2>4. \A j \in 1..k - 1 : todo'[j].at # NtfsRoot => todo'[j].to.used
    <3> SUFFICES ASSUME NEW j \in 1..k - 1 PROVE j \in DOMAIN todo' /\ j + 1 \in 1..i - 1
      BY <1>3, <2>2
    <3> QED BY <2>1, <1>3
  <2>5. CASE z.first
    <3>1. i + 1 \in IndexPlanned /\ todo[i + 1] = [at |-> NtfsRoot, first |-> FALSE, to |-> z.to] /\ IndexPlanned = {i, i + 1}
          /\ IndexOk(torn) /\ RefsOf(torn) \ loose \subseteq UsedNow \union Before(i)
      BY <2>2, <2>5
    <3>2. k + 1 = i /\ (k + 1) + 1 = i + 1 /\ i + 1 \in DOMAIN todo /\ i \in Nat
      BY <3>1, <2>1 DEF i, IndexPlanned
    <3>3. k + 1 \in DOMAIN todo'
      <4>1. i + 1 =< Len(todo) /\ Len(todo) \in Nat
        BY <3>2, <1>3
      <4>2. k + 1 \in 1..Len(todo) - 1
        BY ONLY <4>1, <3>2, <2>1
      <4> QED BY <4>2, <1>3
    <3>4. k + 1 \in IndexPlanned' /\ todo'[k + 1] = todo[i + 1]
      BY <3>1, <3>2, <3>3, <1>3, <1>6
    <3>5. IndexPlanned' = {k, k + 1}
      <4>1. ASSUME NEW y \in IndexPlanned' PROVE y = k \/ y = k + 1
        <5>1. y + 1 \in {i, i + 1} /\ y \in Nat
          BY <3>1, <1>3, <1>6
        <5> QED BY <5>1, <3>2, <2>1
      <4> QED BY <4>1, <3>4
    <3> QED BY <3>1, <3>4, <3>5, <2>1, <2>2, <2>3, <2>4, <2>5, <1>1, <1>5 DEF torn
  <2>6. CASE ~z.first
    <3>1. i # 1
      BY <2>1, <1>6
    <3>2. i - 1 \in IndexPlanned /\ todo[i - 1].first
      BY <3>1, <2>2, <2>6
    <3>3. k \in IndexPlanned /\ k # 1 /\ todo[k].first
      BY <3>2, <2>1, <1>6
    <3>4. k - 1 \in IndexPlanned' /\ (k - 1) + 1 = k
      BY <3>3, <1>7
    <3>5. todo'[k - 1] = todo[k]
      BY <3>4, <1>3, <1>6
    <3> QED BY <3>3, <3>4, <3>5, <2>1, <2>2, <2>3, <2>4, <2>6, <1>1
  <2> QED BY <2>5, <2>6
<1>13. FreedUnlisted'
  <2>1. \A j \in DOMAIN undo' : undo'[j].at # NtfsRoot
    BY <1>1 DEF NtInv, FreedUnlisted
  <2>2. ASSUME NEW j \in DOMAIN todo', todo'[j].at # NtfsRoot, ~todo'[j].to.used
        PROVE  IF IndexPlanned' = {} THEN todo'[j].at \notin RefsOf(mft'[NtfsRoot]) \ loose'
               ELSE \A i \in IndexPlanned' : todo'[j].at \notin RefsOf(todo'[i].to) \ loose'
    <3>1. j + 1 \in DOMAIN todo /\ todo'[j] = todo[j + 1]
      BY <1>3
    <3>2. IF IndexPlanned = {} THEN todo[j + 1].at \notin RefsOf(mft[NtfsRoot]) \ loose
          ELSE \A i \in IndexPlanned : todo[j + 1].at \notin RefsOf(todo[i].to) \ loose
      BY <2>2, <3>1 DEF NtInv, FreedUnlisted
    <3>3. IndexPlanned = {} <=> IndexPlanned' = {}
      BY <1>6, <1>7
    <3>4. \A i \in IndexPlanned' : i + 1 \in IndexPlanned /\ todo'[i] = todo[i + 1]
      BY <1>3, <1>6
    <3> QED BY <3>1, <3>2, <3>3, <3>4, <1>1, <1>5
  <2> QED BY <2>1, <2>2 DEF FreedUnlisted
<1> QED BY <1>10, <1>12, <1>13

LEMMA IndexWritten ==
  ASSUME NtInv, WriteSector, Head(todo).at = NtfsRoot
  PROVE  IndexNow' /\ IndexNext' /\ FreedUnlisted'
<1> DEFINE s == Head(todo)
           torn == Written(mft[NtfsRoot], s)
<1>1. /\ todo # <<>> /\ mft' = [mft EXCEPT ![NtfsRoot] = Written(@, s)] /\ todo' = Tail(todo) /\ UNCHANGED <<loose, failures>>
      /\ undo' \in {undo, <<>>}
  BY DEF WriteSector, Finish
<1>2. /\ mft \in [Record -> RecordContent] /\ mft[NtfsRoot] \in RecordContent
      /\ IndexOk(mft[NtfsRoot]) /\ RefsOf(mft[NtfsRoot]) \ loose \subseteq UsedNow
      /\ todo \in Seq(SectorContent) /\ NtfsRoot \in Record /\ NtfsRoot \notin FileRecord
  BY VolumeParts, NtSizes
<1>3. /\ Head(todo) = todo[1] /\ Head(todo) \in SectorContent /\ 1 \in DOMAIN todo /\ Len(todo) \in Nat \ {0}
      /\ DOMAIN todo = 1..Len(todo) /\ DOMAIN todo' = 1..Len(todo) - 1
      /\ \A i \in DOMAIN todo' : i + 1 \in DOMAIN todo /\ todo'[i] = todo[i + 1]
  BY <1>1, <1>2, ListBelow
<1>4. 1 \in IndexPlanned /\ todo[1] = s
  BY <1>3 DEF IndexPlanned
<1>5. mft'[NtfsRoot] = torn /\ UsedNow' = UsedNow
  BY <1>1, <1>2 DEF UsedNow, FileRecord
<1>b. Before(1) = {}
  BY DEF Before
<1>6. /\ IndexOk(s.to) /\ OnceIn(s.to, loose) /\ RefsOf(s.to) \ loose \subseteq UsedNow
      /\ IF s.first
         THEN /\ 1 + 1 \in IndexPlanned /\ todo[1 + 1] = [at |-> NtfsRoot, first |-> FALSE, to |-> s.to]
              /\ IndexPlanned = {1, 1 + 1}
              /\ IndexOk(torn) /\ RefsOf(torn) \ loose \subseteq UsedNow
         ELSE \/ IndexPlanned = {1} /\ torn = s.to
              \/ 1 - 1 \in IndexPlanned
  BY <1>4, <1>b DEF NtInv, IndexNext
<1>f. \A j \in DOMAIN undo' : undo'[j].at # NtfsRoot
  BY <1>1 DEF NtInv, FreedUnlisted
<1>7. ~(1 - 1 \in IndexPlanned)
  BY <1>3 DEF IndexPlanned
<1>8. IndexPlanned' = {i \in DOMAIN todo' : i + 1 \in IndexPlanned}
  BY <1>3 DEF IndexPlanned
<1> HIDE DEF s, torn
<1>9. CASE s.first
  <2> DEFINE rest == [at |-> NtfsRoot, first |-> FALSE, to |-> s.to]
  <2>1. todo[2] = rest /\ IndexPlanned = {1, 2} /\ 2 \in DOMAIN todo /\ IndexOk(torn) /\ RefsOf(torn) \ loose \subseteq UsedNow
    BY <1>6, <1>9 DEF IndexPlanned
  <2>2. 1 \in DOMAIN todo' /\ todo'[1] = rest /\ IndexPlanned' = {1}
    <3>1. 1 \in DOMAIN todo'
      BY <2>1, <1>3
    <3>2. todo'[1] = todo[2]
      BY <3>1, <1>3
    <3>3. \A i \in DOMAIN todo' : i + 1 \in {1, 2} <=> i = 1
      BY <1>3
    <3> QED BY <3>1, <3>2, <3>3, <2>1, <1>8
  <2>3. Written(torn, rest) = s.to
    <3>1. s \in SectorContent /\ s.at = NtfsRoot
      BY <1>3 DEF s
    <3>2. rest = [at |-> s.at, first |-> FALSE, to |-> s.to]
      BY <3>1
    <3> QED BY <3>1, <3>2, <1>2, <1>9, HalfWritten DEF torn
  <2>4. Torn'
    <3>1. todo' \in Seq(SectorContent) /\ todo' # <<>>
      <4>1. todo' \in Seq(SectorContent)
        BY <1>1, <1>2, ListBelow
      <4>2. DOMAIN <<>> = {}
        OBVIOUS
      <4> QED BY <4>1, <4>2, <2>2
    <3>2. Head(todo') = rest
      BY <3>1, <2>2, ListBelow
    <3>3. rest.at = NtfsRoot /\ ~rest.first
      OBVIOUS
    <3> QED BY <3>1, <3>2, <3>3 DEF Torn
  <2>5. IndexNow'
    BY <2>1, <2>4, <1>1, <1>5 DEF IndexNow
  <2>r. rest.to = s.to /\ rest.first = FALSE
    OBVIOUS
  <2> HIDE DEF rest
  <2>6. IndexNext'
    <3>1. \A j \in 1..1 - 1 : FALSE
      OBVIOUS
    <3>2. /\ IndexOk(todo'[1].to) /\ OnceIn(todo'[1].to, loose') /\ RefsOf(todo'[1].to) \ loose' \subseteq UsedNow'
          /\ ~todo'[1].first /\ Written(mft'[NtfsRoot], todo'[1]) = todo'[1].to
      BY <1>1, <1>5, <1>6, <2>2, <2>3, <2>r
    <3> QED BY <2>2, <3>1, <3>2 DEF IndexNext
  <2>7. FreedUnlisted'
    <3>1. ASSUME NEW j \in DOMAIN todo', todo'[j].at # NtfsRoot, ~todo'[j].to.used
          PROVE  \A i \in IndexPlanned' : todo'[j].at \notin RefsOf(todo'[i].to) \ loose'
      <4>1. j + 1 \in DOMAIN todo /\ todo'[j] = todo[j + 1]
        BY <1>3
      <4>2. \A i \in IndexPlanned : todo[j + 1].at \notin RefsOf(todo[i].to) \ loose
        BY <3>1, <4>1, <2>1 DEF NtInv, FreedUnlisted
      <4>3. todo[j + 1].at \notin RefsOf(s.to) \ loose
        BY <4>2, <1>4
      <4> QED BY <4>1, <4>3, <2>2, <2>r, <1>1
    <3> QED BY <3>1, <2>2, <1>f DEF FreedUnlisted
  <2> QED BY <2>5, <2>6, <2>7
<1>10. CASE ~s.first
  <2>1. IndexPlanned = {1} /\ torn = s.to
    BY <1>6, <1>7, <1>10
  <2>2. IndexPlanned' = {}
    <3>1. \A i \in DOMAIN todo' : i + 1 # 1
      BY <1>3
    <3> QED BY <3>1, <2>1, <1>8
  <2>3. IndexNow'
    BY <2>1, <1>1, <1>5, <1>6 DEF IndexNow
  <2>4. IndexNext'
    BY <2>2 DEF IndexNext
  <2>5. FreedUnlisted'
    <3>1. ASSUME NEW j \in DOMAIN todo', todo'[j].at # NtfsRoot, ~todo'[j].to.used
          PROVE  todo'[j].at \notin RefsOf(mft'[NtfsRoot]) \ loose'
      <4>1. j + 1 \in DOMAIN todo /\ todo'[j] = todo[j + 1]
        BY <1>3
      <4>2. \A i \in IndexPlanned : todo[j + 1].at \notin RefsOf(todo[i].to) \ loose
        BY <3>1, <4>1, <2>1 DEF NtInv, FreedUnlisted
      <4> QED BY <4>1, <4>2, <2>1, <1>1, <1>4, <1>5
    <3> QED BY <3>1, <2>2, <1>f DEF FreedUnlisted
  <2> QED BY <2>3, <2>4, <2>5
<1> QED BY <1>9, <1>10

LEMMA WriteSectorKept == ASSUME NtInv, WriteSector PROVE NtInv'
<1> DEFINE s == Head(todo)
           disk == [mft EXCEPT ![s.at] = Written(@, s)]
<1>1. /\ todo # <<>> /\ mft' = disk /\ todo' = Tail(todo) /\ UNCHANGED <<loose, failures>>
      /\ IF Len(todo) = 1 THEN Finish(disk) ELSE UNCHANGED <<kept, undo, target>>
  BY DEF WriteSector
<1>2. /\ mft \in [Record -> RecordContent] /\ todo \in Seq(SectorContent) /\ undo \in Seq(SectorContent)
      /\ target \subseteq Record /\ loose \subseteq FileRecord /\ failures \in 0..MaxFailures
      /\ kept \in [FileRecord -> SUBSET Seq(Nat)] /\ FilesKeepTheirData
  BY DEF NtInv, VolumeType, Promised
<1>3. /\ s = todo[1] /\ s \in SectorContent /\ 1 \in DOMAIN todo /\ Len(todo) \in Nat \ {0}
      /\ DOMAIN todo = 1..Len(todo) /\ DOMAIN todo' = 1..Len(todo) - 1 /\ todo' \in Seq(SectorContent)
      /\ \A i \in DOMAIN todo' : i + 1 \in DOMAIN todo /\ todo'[i] = todo[i + 1]
  BY <1>1, <1>2, ListBelow
<1>4. s.at \in Record /\ s.at \in target
  BY <1>3 DEF NtInv, Promised, SectorContent
<1> HIDE DEF s
<1>5. mft' \in [Record -> RecordContent] /\ \A q \in Record : q # s.at => mft'[q] = mft[q]
  BY <1>1, <1>2, <1>3, <1>4, WrittenTyped
<1>6. \A q \in FileRecord : q \in target => kept[q] = {}
  BY DEF NtInv, Promised
<1>7. \A q \in FileRecord : q \in Record
  BY NtSizes
<1>8. \A q \in FileRecord : kept[q] # {} => mft'[q].used /\ kept[q] = {DataOf(mft'[q])}
  BY <1>2, <1>4, <1>5, <1>6, <1>7 DEF FilesKeepTheirData
<1> HIDE DEF disk
<1>9. VolumeType' /\ Promised'
  <2>1. CASE Len(todo) = 1
    <3>1. /\ undo' = <<>> /\ target' = {}
          /\ kept' = [r \in FileRecord |-> IF r \in target /\ mft'[r].used THEN {DataOf(mft'[r])} ELSE kept[r]]
      BY <2>1, <1>1 DEF Finish
    <3>2. DOMAIN todo' = {} /\ DOMAIN undo' = {} /\ undo' \in Seq(SectorContent)
      BY <2>1, <3>1, <1>3
    <3>3. \A q \in FileRecord : DataOf(mft'[q]) \in Seq(Nat)
      BY <1>5, <1>7, DataTyped
    <3>4. kept' \in [FileRecord -> SUBSET Seq(Nat)]
      BY <3>1, <3>3, <1>2
    <3>5. FilesKeepTheirData'
      BY <3>1, <1>8 DEF FilesKeepTheirData
    <3>6. VolumeType'
      BY <3>1, <3>2, <1>1, <1>2, <1>3, <1>5 DEF VolumeType
    <3> QED BY <3>1, <3>2, <3>4, <3>5, <3>6 DEF Promised
  <2>2. CASE Len(todo) # 1
    <3>1. UNCHANGED <<kept, undo, target>>
      BY <2>2, <1>1
    <3>2. todo' # <<>>
      BY <2>2, <1>1, <1>2, <1>3, ListBelow
    <3>3. \A j \in DOMAIN todo' : todo'[j].at \in target
      BY <1>3 DEF NtInv, Promised
    <3>4. FilesKeepTheirData'
      BY <3>1, <1>8 DEF FilesKeepTheirData
    <3>5. VolumeType'
      BY <3>1, <1>1, <1>2, <1>3, <1>5 DEF VolumeType
    <3>6. \A j \in DOMAIN undo : undo[j].at \in target
      BY DEF NtInv, Promised
    <3> QED BY <3>1, <3>2, <3>3, <3>4, <3>5, <3>6, <1>2, <1>6 DEF Promised
  <2> QED BY <2>1, <2>2
<1>10. IndexNow' /\ IndexNext' /\ FreedUnlisted'
  BY RecordWritten, IndexWritten
<1> QED BY <1>9, <1>10 DEF NtInv

\* A sector is not written, and the operation gives up or goes back.
LEMMA GivenUp ==
  ASSUME NtInv, todo # <<>>, failures < MaxFailures, failures' = failures + 1, undo' = <<>>, UNCHANGED <<mft, target, kept>>,
         todo' = <<>> \/ todo' = undo, loose \subseteq loose', loose' \subseteq FileRecord,
         OnceIn(mft[NtfsRoot], loose) \/ OnceIn(mft[NtfsRoot], loose'),
         todo' = undo => \A j \in DOMAIN undo : ~undo[j].to.used => undo[j].at \notin InIndex \ loose'
  PROVE  NtInv'
<1>1. /\ mft \in [Record -> RecordContent] /\ todo \in Seq(SectorContent) /\ undo \in Seq(SectorContent)
      /\ target \subseteq Record /\ loose \subseteq FileRecord /\ failures \in 0..MaxFailures
      /\ Promised /\ IndexOk(mft[NtfsRoot]) /\ RefsOf(mft[NtfsRoot]) \ loose \subseteq UsedNow
      /\ \A j \in DOMAIN undo : undo[j].at # NtfsRoot
  BY DEF NtInv, VolumeType, IndexNow, FreedUnlisted
<1>2. VolumeType'
  <2>1. failures' \in 0..MaxFailures
    BY <1>1, NtSizesOK
  <2>2. undo' \in Seq(SectorContent) /\ todo' \in Seq(SectorContent)
    <3>1. <<>> \in Seq(SectorContent)
      OBVIOUS
    <3>2. undo' = <<>> /\ (todo' = <<>> \/ todo' = undo)
      OBVIOUS
    <3> QED BY ONLY <3>1, <3>2, <1>1
  <2> QED BY ONLY <2>1, <2>2, <1>1, loose' \subseteq FileRecord, UNCHANGED <<mft, target, kept>> DEF VolumeType
<1>3. DOMAIN undo' = {} /\ \A j \in DOMAIN todo' : j \in DOMAIN undo /\ todo'[j] = undo[j] /\ todo' = undo
  OBVIOUS
<1>4. Promised'
  BY <1>1, <1>3 DEF Promised, FilesKeepTheirData
<1>5. IndexPlanned' = {}
  BY <1>1, <1>3 DEF IndexPlanned
<1>6. IndexNow'
  BY <1>1 DEF IndexNow, OnceIn, UsedNow
<1>7. IndexNext'
  BY <1>5 DEF IndexNext
<1>8. FreedUnlisted'
  BY <1>3, <1>5, ListedNow DEF FreedUnlisted
<1> QED BY <1>2, <1>4, <1>6, <1>7, <1>8 DEF NtInv

LEMMA DoubledAreLoose ==
  ASSUME NtInv, todo # <<>>
  PROVE  Doubled \subseteq FileRecord /\ (OnceIn(mft[NtfsRoot], loose) \/ \A more : Doubled \subseteq more => OnceIn(mft[NtfsRoot], more))
<1> DEFINE root == mft[NtfsRoot]
<1>1. CASE Head(todo).at # NtfsRoot \/ Head(todo).first
  BY <1>1 DEF NtInv, IndexNow, Torn, Doubled
<1>2. CASE ~(Head(todo).at # NtfsRoot \/ Head(todo).first)
  <2>1. Doubled = {r \in FileRecord : \E c, d \in IndexEntries(root) : c # d /\ root.cell[c].ref = r /\ root.cell[d].ref = r}
    BY <1>2 DEF Doubled
  <2>2. RefsOf(root) \subseteq FileRecord
    BY RefsAreFiles, VolumeParts
  <2>3. \A c \in IndexEntries(root) : root.cell[c].ref \in FileRecord
    BY <2>2 DEF RefsOf
  <2> QED BY <2>1, <2>3 DEF OnceIn
<1> QED BY <1>1, <1>2

LEMMA WriteFailsKept == ASSUME NtInv, WriteFails PROVE NtInv'
<1>1. /\ todo # <<>> /\ failures < MaxFailures /\ failures' = failures + 1 /\ undo' = <<>> /\ UNCHANGED <<mft, target, kept>>
      /\ \/ Head(todo).at = NtfsRoot /\ todo' = undo /\ loose' = loose \union Doubled \union FreedThoughListed
         \/ Head(todo).at # NtfsRoot /\ todo' = <<>> /\ loose' = loose
  BY DEF WriteFails
<1>2. undo \in Seq(SectorContent) /\ loose \subseteq FileRecord
  BY VolumeParts
<1>3. CASE Head(todo).at = NtfsRoot /\ todo' = undo /\ loose' = loose \union Doubled \union FreedThoughListed
  <2>1. FreedThoughListed \subseteq FileRecord
    <3>1. InIndex \subseteq FileRecord
      BY ListedNow, RefsAreFiles, VolumeParts
    <3> QED BY <3>1 DEF FreedThoughListed
  <2>2. Doubled \subseteq FileRecord /\ (OnceIn(mft[NtfsRoot], loose) \/ OnceIn(mft[NtfsRoot], loose'))
    BY <1>1, <1>3, DoubledAreLoose
  <2>3. ASSUME NEW j \in DOMAIN undo, ~undo[j].to.used PROVE undo[j].at \notin InIndex \ loose'
    <3>1. undo[j] \in Range(undo)
      BY DEF Range
    <3> QED BY <3>1, <2>3, <1>3 DEF FreedThoughListed
  <2>4. loose' \subseteq FileRecord /\ loose \subseteq loose'
    BY <2>1, <2>2, <1>2, <1>3
  <2> QED BY <1>1, <1>3, <2>2, <2>3, <2>4, GivenUp
<1>4. CASE Head(todo).at # NtfsRoot /\ todo' = <<>> /\ loose' = loose
  <2>1. OnceIn(mft[NtfsRoot], loose)
    BY <1>4 DEF NtInv, IndexNow, Torn
  <2>2. todo' = undo => \A j \in DOMAIN undo : FALSE
    BY <1>4
  <2> QED BY <2>1, <2>2, <1>1, <1>2, <1>4, GivenUp
<1> QED BY <1>1, <1>3, <1>4

LEMMA PowerFailKept == ASSUME NtInv, PowerFail PROVE NtInv'
<1>1. /\ todo # <<>> /\ failures < MaxFailures /\ failures' = failures + 1 /\ undo' = <<>> /\ UNCHANGED <<mft, target, kept>>
      /\ todo' = <<>> /\ loose' = loose \union Doubled
  BY DEF PowerFail
<1>2. Doubled \subseteq FileRecord /\ (OnceIn(mft[NtfsRoot], loose) \/ OnceIn(mft[NtfsRoot], loose'))
  BY <1>1, DoubledAreLoose
<1>3. loose \subseteq FileRecord
  BY VolumeParts
<1>4. todo' = undo => \A j \in DOMAIN undo : FALSE
  BY <1>1
<1> QED BY <1>1, <1>2, <1>3, <1>4, GivenUp

LEMMA NtStepKept == NtInv /\ [NtNext]_ntVars => NtInv'
<1> SUFFICES ASSUME NtInv, [NtNext]_ntVars PROVE NtInv'
  OBVIOUS
<1>1. CASE UNCHANGED ntVars
  <2>1. UNCHANGED <<mft, todo, undo, target, kept, loose, failures>>
    BY <1>1 DEF ntVars
  <2>2. VolumeType' /\ IndexNow'
    BY <2>1 DEF NtInv, VolumeType, IndexNow, Torn, UsedNow
  <2>3. IndexPlanned' = IndexPlanned /\ UsedNow' = UsedNow /\ \A i : Before(i)' = Before(i)
    BY <2>1 DEF IndexPlanned, UsedNow, Before
  <2>4. IndexNext'
    BY <2>1, <2>3 DEF NtInv, IndexNext
  <2>5. FreedUnlisted'
    BY <2>1, <2>3 DEF NtInv, FreedUnlisted
  <2>6. Promised'
    BY <2>1 DEF NtInv, Promised, FilesKeepTheirData
  <2> QED BY <2>2, <2>4, <2>5, <2>6 DEF NtInv
<1>2. CASE NtNext
  BY <1>2, NtCreateKept, NtDeleteKept, NtWriteKept, WriteSectorKept, WriteFailsKept, PowerFailKept DEF NtNext
<1> QED BY <1>1, <1>2

LEMMA NtInvPromises == NtInv => NtTypeOK /\ VolumeSound
<1> SUFFICES ASSUME NtInv PROVE NtTypeOK /\ VolumeSound
  OBVIOUS
<1>1. FilesKeepTheirData /\ kept \in [FileRecord -> SUBSET Seq(Nat)] /\ VolumeType
  BY DEF NtInv, Promised
<1>2. ListedAreUsed
  BY ListedNow DEF NtInv, IndexNow, ListedAreUsed, UsedNow
<1>3. \A r \in FileRecord : Cardinality(kept[r]) =< 1
  <2>1. \A r \in FileRecord : kept[r] = {} \/ kept[r] = {DataOf(mft[r])}
    BY <1>1 DEF FilesKeepTheirData
  <2>2. Cardinality({}) = 0 /\ \A x : Cardinality({x}) = 1
    BY FS_EmptySet, FS_Singleton
  <2>3. \A r \in FileRecord : Cardinality(kept[r]) \in {0, 1}
    BY <2>1, <2>2
  <2> QED BY <2>3
<1> QED BY <1>1, <1>2, <1>3 DEF NtTypeOK, VolumeType, VolumeSound

\* An entry of the directory leads to a record that is in use, unless its removal failed or was
\* torn, and a file that is not being written holds what was last written to it, for every number
\* of records and cells, wherever the operations are cut off (ntfs.c:784-813, 1287-1355, 1458-1477).
THEOREM VolumeCorrect == NtSpec => [](NtTypeOK /\ VolumeSound)
<1>1. NtInit => NtInv
  BY VolumeStart
<1>2. NtInv /\ [NtNext]_ntVars => NtInv'
  BY NtStepKept
<1>3. NtInv => NtTypeOK /\ VolumeSound
  BY NtInvPromises
<1> QED BY <1>1, <1>2, <1>3, PTL DEF NtSpec

-----------------------------------------------------------------------------
(* The display.                                                              *)

\* What is left of the two sequences, and of what undoes them.
S1 == <<"info", "buffer", "create", "attach", "transfer", "flush", "unref", "free">>
S2 == <<"buffer", "create", "attach", "transfer", "flush", "unref", "free">>
S3 == <<"create", "attach", "transfer", "flush", "unref", "free">>
S4 == <<"attach", "transfer", "flush", "unref", "free">>
S5 == <<"transfer", "flush", "unref", "free">>
S6 == <<"flush", "unref", "free">>
D1 == <<"info", "buffer", "create", "attach", "scanout", "ready", "transfer", "flush">>
D2 == <<"buffer", "create", "attach", "scanout", "ready", "transfer", "flush">>
D3 == <<"create", "attach", "scanout", "ready", "transfer", "flush">>
D4 == <<"attach", "scanout", "ready", "transfer", "flush">>
D5 == <<"scanout", "ready", "transfer", "flush">>
D6 == <<"ready", "transfer", "flush">>
D7 == <<"transfer", "flush">>
D8 == <<"flush">>
U1 == <<"unref", "free">>
U2 == <<"free">>

Nothing == allocated = {} /\ backing = "no resource"

\* What the host and the memory hold at each point of the two sequences.
HeldSoFar ==
  \/ steps = <<>> /\ Nothing /\ backend # "virtio"
  \/ steps = <<>> /\ allocated = {"display"} /\ backing = "display" /\ scanout /\ backend = "virtio"
  \/ /\ sequence = "smoke" /\ backend = "none"
     /\ \/ steps \in {S1, S2} /\ Nothing
        \/ steps = S3 /\ allocated = {"smoke"} /\ backing = "no resource"
        \/ steps = S4 /\ allocated = {"smoke"} /\ backing = "nothing"
        \/ steps \in {S5, S6} /\ allocated = {"smoke"} /\ backing = "smoke"
        \/ steps = U1 /\ allocated = {"smoke"} /\ backing \in {"nothing", "smoke"}
        \/ steps = U2 /\ allocated = {"smoke"} /\ backing = "no resource"
  \/ /\ sequence = "display" /\ backend = "none"
     /\ \/ steps \in {D1, D2} /\ Nothing
        \/ steps = D3 /\ allocated = {"display"} /\ backing = "no resource"
        \/ steps = D4 /\ allocated = {"display"} /\ backing = "nothing"
        \/ steps = D5 /\ allocated = {"display"} /\ backing = "display"
        \/ steps = D6 /\ allocated = {"display"} /\ backing = "display" /\ scanout
        \/ steps = U1 /\ allocated = {"display"} /\ backing \in {"nothing", "display"}
        \/ steps = U2 /\ allocated = {"display"} /\ backing = "no resource"
  \/ /\ sequence = "display" /\ backend = "virtio" /\ allocated = {"display"} /\ backing = "display" /\ scanout
     /\ steps \in {D7, D8}

\* How far the detection is, and what may come of it.
DetectedSoFar ==
  /\ detecting \in {"find", "map", "features"} => ~gpuActive
  /\ detecting = "find" => status = {}
  /\ detecting = "map" => status = {}
  /\ detecting = "features" => status = {"acknowledge", "driver"}
  /\ detecting \in {"controlq", "cursorq", "ready"} =>
       status = {"acknowledge", "driver", "features_ok"} /\ gpuActive
  /\ queuesOk => detecting = "over" /\ gpuActive /\ status = {"acknowledge", "driver", "features_ok", "driver_ok"}
  /\ detecting = "over" /\ "driver" \in status /\ ~queuesOk => status \intersect {"failed", "needs_reset"} # {}
  /\ detecting # "over" => steps = <<>> /\ sequence = "none" /\ backend = "none" /\ ~tested
  /\ steps # <<>> => queuesOk
  /\ sequence = "smoke" => tested
  /\ sequence = "display" => gpuActive /\ queuesOk /\ tested
  /\ tested => gpuActive
  /\ backend # "none" => sequence = "display" \/ ~gpuActive \/ ~queuesOk
  /\ gpuActive /\ ~tested => backend = "none"

GdInv == GdTypeOK /\ HeldSoFar /\ DetectedSoFar

\* The first of what is left, and the rest.
LEMMA StepsLeft ==
  /\ S1 # <<>> /\ Head(S1) = "info" /\ Tail(S1) = S2
  /\ S2 # <<>> /\ Head(S2) = "buffer" /\ Tail(S2) = S3
  /\ S3 # <<>> /\ Head(S3) = "create" /\ Tail(S3) = S4
  /\ S4 # <<>> /\ Head(S4) = "attach" /\ Tail(S4) = S5
  /\ S5 # <<>> /\ Head(S5) = "transfer" /\ Tail(S5) = S6
  /\ S6 # <<>> /\ Head(S6) = "flush" /\ Tail(S6) = U1
  /\ D1 # <<>> /\ Head(D1) = "info" /\ Tail(D1) = D2
  /\ D2 # <<>> /\ Head(D2) = "buffer" /\ Tail(D2) = D3
  /\ D3 # <<>> /\ Head(D3) = "create" /\ Tail(D3) = D4
  /\ D4 # <<>> /\ Head(D4) = "attach" /\ Tail(D4) = D5
  /\ D5 # <<>> /\ Head(D5) = "scanout" /\ Tail(D5) = D6
  /\ D6 # <<>> /\ Head(D6) = "ready" /\ Tail(D6) = D7
  /\ D7 # <<>> /\ Head(D7) = "transfer" /\ Tail(D7) = D8
  /\ D8 # <<>> /\ Head(D8) = "flush" /\ Tail(D8) = <<>>
  /\ U1 # <<>> /\ Head(U1) = "unref" /\ Tail(U1) = U2
  /\ U2 # <<>> /\ Head(U2) = "free" /\ Tail(U2) = <<>>
BY DEF S1, S2, S3, S4, S5, S6, D1, D2, D3, D4, D5, D6, D7, D8, U1, U2

LEMMA StepsTyped ==
  /\ <<>> \in Seq(Command) /\ S1 \in Seq(Command) /\ S2 \in Seq(Command) /\ S3 \in Seq(Command) /\ S4 \in Seq(Command)
  /\ S5 \in Seq(Command) /\ S6 \in Seq(Command) /\ D1 \in Seq(Command) /\ D2 \in Seq(Command)
  /\ D3 \in Seq(Command) /\ D4 \in Seq(Command) /\ D5 \in Seq(Command) /\ D6 \in Seq(Command)
  /\ D7 \in Seq(Command) /\ D8 \in Seq(Command) /\ U1 \in Seq(Command) /\ U2 \in Seq(Command)
BY DEF Command, S1, S2, S3, S4, S5, S6, D1, D2, D3, D4, D5, D6, D7, D8, U1, U2

LEMMA HeldTyped == HeldSoFar => steps \in Seq(Command)
BY StepsTyped DEF HeldSoFar

LEMMA GdInvPromises == GdInv => GdTypeOK /\ DisplaySound
<1> SUFFICES ASSUME GdInv PROVE GdTypeOK /\ DisplaySound
  OBVIOUS
<1>1. DisplayHeld
  <2> USE DEF GdInv, HeldSoFar, Nothing
  <2>1. backing \in {"smoke", "display"} => backing \in allocated
    OBVIOUS
  <2>2. backend = "virtio" => backing = "display" /\ scanout
    OBVIOUS
  <2>3. ASSUME steps = <<>>, backend # "virtio" PROVE allocated = {} /\ backing = "no resource"
    <3>1. steps \notin {S1, S2, S3, S4, S5, S6, D1, D2, D3, D4, D5, D6, U1, U2}
      BY <2>3, StepsLeft
    <3> QED BY <2>3, <3>1
  <2> QED BY <2>1, <2>2, <2>3 DEF DisplayHeld
<1>2. DetectionSound
  BY DEF GdInv, DetectedSoFar, DetectionSound
<1> QED BY <1>1, <1>2 DEF GdInv, DisplaySound

LEMMA GdStart == GdInit => GdInv
BY StepsTyped DEF GdInit, GdInv, GdTypeOK, HeldSoFar, DetectedSoFar, Nothing

\* A step of the detection.
LEMMA DetectsKept ==
  ASSUME GdInv, NEW step \in {"find", "map", "features", "controlq", "cursorq", "ready"},
         NEW next, NEW bits, Detects(step, next, bits), GdTypeOK', DetectedSoFar'
  PROVE  GdInv'
<1>1. steps = <<>> /\ backend = "none" /\ UNCHANGED <<steps, sequence, tested, allocated, backing, scanout, backend>>
  BY DEF Detects, GdInv, DetectedSoFar
<1>2. HeldSoFar'
  BY <1>1, StepsLeft DEF GdInv, HeldSoFar, Nothing
<1> QED BY <1>2 DEF GdInv

LEMMA DetectionKept ==
  ASSUME GdInv, FindDevice \/ MapDevice \/ NotUsable \/ NegotiateFeatures
                \/ InitQueue("controlq", "cursorq") \/ InitQueue("cursorq", "ready") \/ SetDriverOk
  PROVE  GdInv'
<1> USE DEF GdInv, GdTypeOK, DetectedSoFar, Detects
<1>1. CASE FindDevice
  <2>1. Detects("find", "map", {}) /\ GdTypeOK' /\ DetectedSoFar'
    BY <1>1 DEF FindDevice
  <2> QED BY <2>1, DetectsKept
<1>2. CASE MapDevice
  <2>1. Detects("map", "features", {"acknowledge", "driver"}) /\ GdTypeOK' /\ DetectedSoFar'
    BY <1>2 DEF MapDevice
  <2> QED BY <2>1, DetectsKept
<1>3. CASE NotUsable
  <2>1. PICK step \in {"find", "map"} : Detects(step, "over", {}) /\ UNCHANGED <<gpuActive, queuesOk>>
    BY <1>3 DEF NotUsable
  <2>2. GdTypeOK' /\ DetectedSoFar'
    BY <2>1
  <2> QED BY <2>1, <2>2, DetectsKept
<1>4. CASE NegotiateFeatures
  <2>1. CASE Detects("features", "controlq", {"features_ok"}) /\ gpuActive' = TRUE /\ UNCHANGED queuesOk
    <3>1. GdTypeOK' /\ DetectedSoFar'
      BY <2>1
    <3> QED BY <2>1, <3>1, DetectsKept
  <2>2. CASE Detects("features", "over", {"failed"}) /\ UNCHANGED <<gpuActive, queuesOk>>
    <3>1. GdTypeOK' /\ DetectedSoFar'
      BY <2>2
    <3> QED BY <2>2, <3>1, DetectsKept
  <2> QED BY <1>4, <2>1, <2>2 DEF NegotiateFeatures
<1>5. ASSUME NEW queue \in {"controlq", "cursorq"}, NEW next \in {"cursorq", "ready"}, InitQueue(queue, next) PROVE GdInv'
  <2>1. CASE Detects(queue, next, {})
    <3>1. GdTypeOK' /\ DetectedSoFar'
      BY <2>1, <1>5 DEF InitQueue
    <3> QED BY <2>1, <3>1, DetectsKept
  <2>2. CASE Detects(queue, "over", {"failed"})
    <3>1. GdTypeOK' /\ DetectedSoFar'
      BY <2>2, <1>5 DEF InitQueue
    <3> QED BY <2>2, <3>1, DetectsKept
  <2> QED BY <1>5, <2>1, <2>2 DEF InitQueue
<1>6. CASE SetDriverOk
  <2>1. CASE Detects("ready", "over", {"driver_ok"}) /\ queuesOk' = TRUE /\ UNCHANGED gpuActive
    <3>1. GdTypeOK' /\ DetectedSoFar'
      BY <2>1
    <3> QED BY <2>1, <3>1, DetectsKept
  <2>2. ASSUME NEW bits \in {{"failed"}, {"driver_ok", "needs_reset"}}, Detects("ready", "over", bits), UNCHANGED <<queuesOk, gpuActive>>
        PROVE  GdInv'
    <3>1. GdTypeOK' /\ DetectedSoFar'
      BY <2>2
    <3> QED BY <2>2, <3>1, DetectsKept
  <2> QED BY <1>6, <2>1, <2>2 DEF SetDriverOk
<1> QED BY <1>1, <1>2, <1>3, <1>4, <1>5, <1>6

LEMMA SequenceKept ==
  ASSUME GdInv, SmokeTest \/ InitDisplay \/ FallBack
  PROVE  GdInv'
<1>0. steps = <<>> /\ detecting = "over"
  <2>1. CASE SmokeTest
    <3>1. sequence \notin {"smoke", "display"} /\ backend # "virtio" /\ detecting = "over"
      BY <2>1 DEF SmokeTest, GdInv, DetectedSoFar
    <3> QED BY <3>1 DEF GdInv, HeldSoFar
  <2>2. CASE InitDisplay \/ FallBack
    BY <2>2 DEF InitDisplay, FallBack, DetectionOver
  <2> QED BY <2>1, <2>2
<1>h. (Nothing /\ backend # "virtio") \/ (allocated = {"display"} /\ backing = "display" /\ scanout /\ backend = "virtio")
  BY <1>0, StepsLeft DEF GdInv, HeldSoFar
<1>1. CASE SmokeTest
  <2>1. steps' \in {<<>>, S1} /\ sequence' = "smoke" /\ (steps' # <<>> => queuesOk) /\ tested' = TRUE
        /\ UNCHANGED <<detection, allocated, backing, scanout, backend>> /\ gpuActive /\ ~tested
    BY <1>1 DEF SmokeTest, S1
  <2>2. Nothing /\ backend = "none"
    BY <1>0, <1>h, <2>1 DEF GdInv, DetectedSoFar
  <2>3. HeldSoFar'
    BY <2>1, <2>2 DEF HeldSoFar, Nothing
  <2>4. DetectedSoFar'
    BY <1>0, <2>1, <2>2 DEF GdInv, DetectedSoFar, detection
  <2> QED BY <2>1, <2>3, <2>4, StepsTyped DEF GdInv, GdTypeOK, detection
<1>2. CASE InitDisplay
  <2>1. steps' = D1 /\ sequence' = "display" /\ sequence # "display" /\ gpuActive /\ queuesOk /\ (gpuActive => tested)
        /\ UNCHANGED <<detection, tested, allocated, backing, scanout, backend>>
    BY <1>2 DEF InitDisplay, DetectionOver, D1
  <2>2. Nothing /\ backend = "none"
    BY <1>0, <1>h, <2>1 DEF GdInv, GdTypeOK, DetectedSoFar
  <2>3. HeldSoFar'
    BY <2>1, <2>2 DEF HeldSoFar, Nothing
  <2>4. DetectedSoFar'
    BY <1>0, <2>1, <2>2 DEF GdInv, DetectedSoFar, detection
  <2> QED BY <2>1, <2>3, <2>4, StepsTyped DEF GdInv, GdTypeOK, detection
<1>3. CASE FallBack
  <2>1. backend = "none" /\ backend' = "bochs" /\ (~gpuActive \/ ~queuesOk \/ sequence = "display") /\ (gpuActive => tested)
        /\ UNCHANGED <<detection, steps, sequence, tested, allocated, backing, scanout>>
    BY <1>3 DEF FallBack, DetectionOver
  <2>3. HeldSoFar'
    BY <1>0, <1>h, <2>1 DEF HeldSoFar, Nothing
  <2>4. DetectedSoFar'
    BY <1>0, <2>1 DEF GdInv, DetectedSoFar, detection
  <2> QED BY <2>1, <2>3, <2>4 DEF GdInv, GdTypeOK, detection
<1> QED BY <1>1, <1>2, <1>3

\* A command, done or refused, from each point of the smoke test, of the set-up of the
\* display, and of the drawing that follows it.
InSmoke == sequence = "smoke" /\ backend = "none"
InSetUp == sequence = "display" /\ backend = "none"
InDisplay == sequence = "display" /\ backend = "virtio" /\ allocated = {"display"} /\ backing = "display" /\ scanout

LEMMA CommandDone ==
  ASSUME GdInv, CommandSucceeds
  PROVE  HeldSoFar'
<1> DEFINE c == Head(steps)
<1>1. /\ steps # <<>> /\ ~Invalid(c) /\ steps' = Tail(steps)
      /\ c = "buffer" => allocated' = allocated \union {sequence}
      /\ c = "free" => allocated' = allocated \ {sequence}
      /\ c \notin {"buffer", "free"} => allocated' = allocated
      /\ c = "create" => backing' = "nothing"
      /\ c = "attach" => backing' = sequence
      /\ c = "unref" => backing' = "no resource"
      /\ c \notin {"create", "attach", "unref"} => backing' = backing
      /\ c = "scanout" => scanout'
      /\ c \notin {"scanout", "unref"} => scanout' = scanout
      /\ c = "ready" => backend' = "virtio"
      /\ c # "ready" => backend' = backend
      /\ UNCHANGED sequence
  BY DEF CommandSucceeds
<1> HIDE DEF c
<1>2. CASE InSmoke
  <2>1. CASE steps = S1 /\ Nothing
    <3>1. c = "info" /\ steps' = S2
      BY <2>1, <1>1, StepsLeft DEF c
    <3> QED BY <3>1, <2>1, <1>1, <1>2 DEF HeldSoFar, Nothing, InSmoke
  <2>2. CASE steps = S2 /\ Nothing
    <3>1. c = "buffer" /\ steps' = S3
      BY <2>2, <1>1, StepsLeft DEF c
    <3> QED BY <3>1, <2>2, <1>1, <1>2 DEF HeldSoFar, Nothing, InSmoke
  <2>3. CASE steps = S3 /\ allocated = {"smoke"} /\ backing = "no resource"
    <3>1. c = "create" /\ steps' = S4
      BY <2>3, <1>1, StepsLeft DEF c
    <3> QED BY <3>1, <2>3, <1>1, <1>2 DEF HeldSoFar, Nothing, InSmoke
  <2>4. CASE steps = S4 /\ allocated = {"smoke"} /\ backing = "nothing"
    <3>1. c = "attach" /\ steps' = S5
      BY <2>4, <1>1, StepsLeft DEF c
    <3> QED BY <3>1, <2>4, <1>1, <1>2 DEF HeldSoFar, Nothing, InSmoke
  <2>5. CASE steps = S5 /\ allocated = {"smoke"} /\ backing = "smoke"
    <3>1. c = "transfer" /\ steps' = S6
      BY <2>5, <1>1, StepsLeft DEF c
    <3> QED BY <3>1, <2>5, <1>1, <1>2 DEF HeldSoFar, Nothing, InSmoke
  <2>6. CASE steps = S6 /\ allocated = {"smoke"} /\ backing = "smoke"
    <3>1. c = "flush" /\ steps' = U1
      BY <2>6, <1>1, StepsLeft DEF c
    <3> QED BY <3>1, <2>6, <1>1, <1>2 DEF HeldSoFar, Nothing, InSmoke
  <2>7. CASE steps = U1 /\ allocated = {"smoke"} /\ backing \in {"nothing", "smoke"}
    <3>1. c = "unref" /\ steps' = U2
      BY <2>7, <1>1, StepsLeft DEF c
    <3> QED BY <3>1, <2>7, <1>1, <1>2 DEF HeldSoFar, Nothing, InSmoke
  <2>8. CASE steps = U2 /\ allocated = {"smoke"} /\ backing = "no resource"
    <3>1. c = "free" /\ steps' = <<>>
      BY <2>8, <1>1, StepsLeft DEF c
    <3> QED BY <3>1, <2>8, <1>1, <1>2 DEF HeldSoFar, Nothing, InSmoke
  <2> QED BY <2>1, <2>2, <2>3, <2>4, <2>5, <2>6, <2>7, <2>8, <1>2, <1>1 DEF GdInv, HeldSoFar, InSmoke, Nothing
<1>3. CASE InSetUp
  <2>1. CASE steps = D1 /\ Nothing
    <3>1. c = "info" /\ steps' = D2
      BY <2>1, <1>1, StepsLeft DEF c
    <3> QED BY <3>1, <2>1, <1>1, <1>3 DEF HeldSoFar, Nothing, InSetUp
  <2>2. CASE steps = D2 /\ Nothing
    <3>1. c = "buffer" /\ steps' = D3
      BY <2>2, <1>1, StepsLeft DEF c
    <3> QED BY <3>1, <2>2, <1>1, <1>3 DEF HeldSoFar, Nothing, InSetUp
  <2>3. CASE steps = D3 /\ allocated = {"display"} /\ backing = "no resource"
    <3>1. c = "create" /\ steps' = D4
      BY <2>3, <1>1, StepsLeft DEF c
    <3> QED BY <3>1, <2>3, <1>1, <1>3 DEF HeldSoFar, Nothing, InSetUp
  <2>4. CASE steps = D4 /\ allocated = {"display"} /\ backing = "nothing"
    <3>1. c = "attach" /\ steps' = D5
      BY <2>4, <1>1, StepsLeft DEF c
    <3> QED BY <3>1, <2>4, <1>1, <1>3 DEF HeldSoFar, Nothing, InSetUp
  <2>5. CASE steps = D5 /\ allocated = {"display"} /\ backing = "display"
    <3>1. c = "scanout" /\ steps' = D6
      BY <2>5, <1>1, StepsLeft DEF c
    <3> QED BY <3>1, <2>5, <1>1, <1>3 DEF HeldSoFar, Nothing, InSetUp
  <2>6. CASE steps = D6 /\ allocated = {"display"} /\ backing = "display" /\ scanout
    <3>1. c = "ready" /\ steps' = D7
      BY <2>6, <1>1, StepsLeft DEF c
    <3> QED BY <3>1, <2>6, <1>1, <1>3 DEF HeldSoFar, Nothing, InSetUp
  <2>7. CASE steps = U1 /\ allocated = {"display"} /\ backing \in {"nothing", "display"}
    <3>1. c = "unref" /\ steps' = U2
      BY <2>7, <1>1, StepsLeft DEF c
    <3> QED BY <3>1, <2>7, <1>1, <1>3 DEF HeldSoFar, Nothing, InSetUp
  <2>8. CASE steps = U2 /\ allocated = {"display"} /\ backing = "no resource"
    <3>1. c = "free" /\ steps' = <<>>
      BY <2>8, <1>1, StepsLeft DEF c
    <3> QED BY <3>1, <2>8, <1>1, <1>3 DEF HeldSoFar, Nothing, InSetUp
  <2> QED BY <2>1, <2>2, <2>3, <2>4, <2>5, <2>6, <2>7, <2>8, <1>3, <1>1 DEF GdInv, HeldSoFar, InSetUp, Nothing
<1>4. CASE InDisplay
  <2>1. CASE steps = D7
    <3>1. c = "transfer" /\ steps' = D8
      BY <2>1, <1>1, StepsLeft DEF c
    <3> QED BY <3>1, <2>1, <1>1, <1>4 DEF HeldSoFar, Nothing, InDisplay
  <2>2. CASE steps = D8
    <3>1. c = "flush" /\ steps' = <<>>
      BY <2>2, <1>1, StepsLeft DEF c
    <3> QED BY <3>1, <2>2, <1>1, <1>4 DEF HeldSoFar, Nothing, InDisplay
  <2> QED BY <2>1, <2>2, <1>4, <1>1 DEF GdInv, HeldSoFar, InDisplay, Nothing
<1> QED BY <1>1, <1>2, <1>3, <1>4 DEF GdInv, HeldSoFar, InSmoke, InSetUp, InDisplay

LEMMA CommandUndone ==
  ASSUME GdInv, CommandRefused
  PROVE  HeldSoFar'
<1> DEFINE c == Head(steps)
<1>1. /\ steps # <<>> /\ c \notin {"free", "ready"} /\ (c = "unref" => backing = "no resource")
      /\ steps' = Unwinding(c) /\ UNCHANGED <<sequence, allocated, backing, scanout, backend>>
  BY DEF CommandRefused, Invalid
<1>u. /\ c \in {"info", "buffer"} => Unwinding(c) = <<>>
      /\ c = "create" => Unwinding(c) = U2
      /\ c \in {"attach", "scanout"} => Unwinding(c) = U1
      /\ c \in {"transfer", "flush"} => Unwinding(c) = IF sequence = "smoke" THEN U1 ELSE Tail(steps)
  BY DEF Unwinding, U1, U2
<1> HIDE DEF c
<1>2. CASE InSmoke
  <2>1. CASE steps = S1 /\ Nothing
    <3>1. c = "info" /\ Tail(steps) = S2
      BY <2>1, <1>1, StepsLeft DEF c
    <3>2. steps' = <<>>
      BY <3>1, <1>1, <1>u, <1>2 DEF InSmoke
    <3> QED BY <3>2, <2>1, <1>1, <1>2 DEF HeldSoFar, Nothing, InSmoke
  <2>2. CASE steps = S2 /\ Nothing
    <3>1. c = "buffer" /\ Tail(steps) = S3
      BY <2>2, <1>1, StepsLeft DEF c
    <3>2. steps' = <<>>
      BY <3>1, <1>1, <1>u, <1>2 DEF InSmoke
    <3> QED BY <3>2, <2>2, <1>1, <1>2 DEF HeldSoFar, Nothing, InSmoke
  <2>3. CASE steps = S3 /\ allocated = {"smoke"} /\ backing = "no resource"
    <3>1. c = "create" /\ Tail(steps) = S4
      BY <2>3, <1>1, StepsLeft DEF c
    <3>2. steps' = U2
      BY <3>1, <1>1, <1>u, <1>2 DEF InSmoke
    <3> QED BY <3>2, <2>3, <1>1, <1>2 DEF HeldSoFar, Nothing, InSmoke
  <2>4. CASE steps = S4 /\ allocated = {"smoke"} /\ backing = "nothing"
    <3>1. c = "attach" /\ Tail(steps) = S5
      BY <2>4, <1>1, StepsLeft DEF c
    <3>2. steps' = U1
      BY <3>1, <1>1, <1>u, <1>2 DEF InSmoke
    <3> QED BY <3>2, <2>4, <1>1, <1>2 DEF HeldSoFar, Nothing, InSmoke
  <2>5. CASE steps = S5 /\ allocated = {"smoke"} /\ backing = "smoke"
    <3>1. c = "transfer" /\ Tail(steps) = S6
      BY <2>5, <1>1, StepsLeft DEF c
    <3>2. steps' = U1
      BY <3>1, <1>1, <1>u, <1>2 DEF InSmoke
    <3> QED BY <3>2, <2>5, <1>1, <1>2 DEF HeldSoFar, Nothing, InSmoke
  <2>6. CASE steps = S6 /\ allocated = {"smoke"} /\ backing = "smoke"
    <3>1. c = "flush" /\ Tail(steps) = U1
      BY <2>6, <1>1, StepsLeft DEF c
    <3>2. steps' = U1
      BY <3>1, <1>1, <1>u, <1>2 DEF InSmoke
    <3> QED BY <3>2, <2>6, <1>1, <1>2 DEF HeldSoFar, Nothing, InSmoke
  <2>7. CASE steps = U1 /\ allocated = {"smoke"} /\ backing \in {"nothing", "smoke"}
    <3>1. c = "unref"
      BY <2>7, <1>1, StepsLeft DEF c
    <3> QED BY <3>1, <2>7, <1>1
  <2>8. CASE steps = U2 /\ allocated = {"smoke"} /\ backing = "no resource"
    <3>1. c = "free"
      BY <2>8, <1>1, StepsLeft DEF c
    <3> QED BY <3>1, <2>8, <1>1
  <2> QED BY <2>1, <2>2, <2>3, <2>4, <2>5, <2>6, <2>7, <2>8, <1>2, <1>1 DEF GdInv, HeldSoFar, InSmoke, Nothing
<1>3. CASE InSetUp
  <2>1. CASE steps = D1 /\ Nothing
    <3>1. c = "info" /\ Tail(steps) = D2
      BY <2>1, <1>1, StepsLeft DEF c
    <3>2. steps' = <<>>
      BY <3>1, <1>1, <1>u, <1>3 DEF InSetUp
    <3> QED BY <3>2, <2>1, <1>1, <1>3 DEF HeldSoFar, Nothing, InSetUp
  <2>2. CASE steps = D2 /\ Nothing
    <3>1. c = "buffer" /\ Tail(steps) = D3
      BY <2>2, <1>1, StepsLeft DEF c
    <3>2. steps' = <<>>
      BY <3>1, <1>1, <1>u, <1>3 DEF InSetUp
    <3> QED BY <3>2, <2>2, <1>1, <1>3 DEF HeldSoFar, Nothing, InSetUp
  <2>3. CASE steps = D3 /\ allocated = {"display"} /\ backing = "no resource"
    <3>1. c = "create" /\ Tail(steps) = D4
      BY <2>3, <1>1, StepsLeft DEF c
    <3>2. steps' = U2
      BY <3>1, <1>1, <1>u, <1>3 DEF InSetUp
    <3> QED BY <3>2, <2>3, <1>1, <1>3 DEF HeldSoFar, Nothing, InSetUp
  <2>4. CASE steps = D4 /\ allocated = {"display"} /\ backing = "nothing"
    <3>1. c = "attach" /\ Tail(steps) = D5
      BY <2>4, <1>1, StepsLeft DEF c
    <3>2. steps' = U1
      BY <3>1, <1>1, <1>u, <1>3 DEF InSetUp
    <3> QED BY <3>2, <2>4, <1>1, <1>3 DEF HeldSoFar, Nothing, InSetUp
  <2>5. CASE steps = D5 /\ allocated = {"display"} /\ backing = "display"
    <3>1. c = "scanout" /\ Tail(steps) = D6
      BY <2>5, <1>1, StepsLeft DEF c
    <3>2. steps' = U1
      BY <3>1, <1>1, <1>u, <1>3 DEF InSetUp
    <3> QED BY <3>2, <2>5, <1>1, <1>3 DEF HeldSoFar, Nothing, InSetUp
  <2>6. CASE steps = D6 /\ allocated = {"display"} /\ backing = "display" /\ scanout
    <3>1. c = "ready"
      BY <2>6, <1>1, StepsLeft DEF c
    <3> QED BY <3>1, <2>6, <1>1
  <2>7. CASE steps = U1 /\ allocated = {"display"} /\ backing \in {"nothing", "display"}
    <3>1. c = "unref"
      BY <2>7, <1>1, StepsLeft DEF c
    <3> QED BY <3>1, <2>7, <1>1
  <2>8. CASE steps = U2 /\ allocated = {"display"} /\ backing = "no resource"
    <3>1. c = "free"
      BY <2>8, <1>1, StepsLeft DEF c
    <3> QED BY <3>1, <2>8, <1>1
  <2> QED BY <2>1, <2>2, <2>3, <2>4, <2>5, <2>6, <2>7, <2>8, <1>3, <1>1 DEF GdInv, HeldSoFar, InSetUp, Nothing
<1>4. CASE InDisplay
  <2>1. CASE steps = D7
    <3>1. c = "transfer" /\ Tail(steps) = D8
      BY <2>1, <1>1, StepsLeft DEF c
    <3>2. steps' = D8
      BY <3>1, <1>1, <1>u, <1>4 DEF InDisplay
    <3> QED BY <3>2, <2>1, <1>1, <1>4 DEF HeldSoFar, Nothing, InDisplay
  <2>2. CASE steps = D8
    <3>1. c = "flush" /\ Tail(steps) = <<>>
      BY <2>2, <1>1, StepsLeft DEF c
    <3>2. steps' = <<>>
      BY <3>1, <1>1, <1>u, <1>4 DEF InDisplay
    <3> QED BY <3>2, <2>2, <1>1, <1>4 DEF HeldSoFar, Nothing, InDisplay
  <2> QED BY <2>1, <2>2, <1>4, <1>1 DEF GdInv, HeldSoFar, InDisplay, Nothing
<1> QED BY <1>1, <1>2, <1>3, <1>4 DEF GdInv, HeldSoFar, InSmoke, InSetUp, InDisplay

LEMMA CommandKept ==
  ASSUME GdInv, CommandSucceeds \/ CommandRefused
  PROVE  GdInv'
<1>1. HeldSoFar'
  BY CommandDone, CommandUndone
<1>2. /\ steps # <<>> /\ UNCHANGED <<detection, sequence, tested>>
      /\ backend' = backend \/ (backend' = "virtio" /\ Head(steps) = "ready")
  BY DEF CommandSucceeds, CommandRefused
<1>3. Head(steps) = "ready" => sequence = "display"
  BY <1>2, StepsLeft DEF GdInv, HeldSoFar
<1>4. allocated' \subseteq {"smoke", "display"} /\ backing' \in {"no resource", "nothing", "smoke", "display"}
      /\ scanout' \in BOOLEAN
  <2>1. CASE CommandSucceeds
    <3>1. sequence \in {"smoke", "display"}
      BY <1>2 DEF GdInv, HeldSoFar
    <3>2. allocated' \in {allocated, allocated \union {sequence}, allocated \ {sequence}}
      BY <2>1 DEF CommandSucceeds
    <3>3. backing' \in {"nothing", "no resource", sequence, backing}
      BY <2>1 DEF CommandSucceeds
    <3>4. scanout' \in {TRUE, FALSE, scanout}
      BY <2>1 DEF CommandSucceeds
    <3> QED BY <3>1, <3>2, <3>3, <3>4 DEF GdInv, GdTypeOK
  <2>2. CASE CommandRefused
    BY <2>2 DEF CommandRefused, GdInv, GdTypeOK
  <2> QED BY <2>1, <2>2
<1>5. DetectedSoFar'
  BY <1>2, <1>3 DEF GdInv, DetectedSoFar, detection
<1>6. steps' \in Seq(Command)
  BY <1>1, HeldTyped, StepsTyped DEF HeldSoFar
<1>7. GdTypeOK'
  BY <1>2, <1>4, <1>6 DEF GdInv, GdTypeOK, detection
<1> QED BY <1>1, <1>5, <1>7 DEF GdInv

LEMMA GdStepKept == ASSUME GdInv, [GdNext]_gdVars PROVE GdInv'
<1>1. CASE GdNext
  BY <1>1, DetectionKept, SequenceKept, CommandKept DEF GdNext
<1>2. CASE UNCHANGED gdVars
  BY <1>2 DEF gdVars, detection, GdInv, GdTypeOK, HeldSoFar, DetectedSoFar, Nothing
<1> QED BY <1>1, <1>2

\* The host shows the display from memory that is allocated, keeps nothing of one that
\* is not in use, and no command goes to a device that did not take its set-up: whatever
\* was refused (VirtioGpu.c:806-886, 1063-1130, 1171-1270).
THEOREM DisplayCorrect == GdSpec => [](GdTypeOK /\ DisplaySound)
<1>1. GdInit => GdInv
  BY GdStart
<1>2. GdInv /\ [GdNext]_gdVars => GdInv'
  BY GdStepKept
<1>3. GdInv => GdTypeOK /\ DisplaySound
  BY GdInvPromises
<1> QED BY <1>1, <1>2, <1>3, PTL DEF GdSpec

-----------------------------------------------------------------------------
(* Interrupt objects.                                                        *)

KInterrupt == [vector : Vector, line : Line \union {NoLine}, sync : DeviceIrql, connected : BOOLEAN]

IoTables ==
  /\ nextVector \in FirstVector..LastVector + 1
  /\ lineOf \in [Vector -> Line \union {NoLine}]
  /\ route \in [Line -> [vector : Vector \union {0}, masked : BOOLEAN]]
  /\ ki \in Seq(KInterrupt) /\ Len(ki) <= MaxInterrupt
  /\ table \in [Vector -> 0..Len(ki)]
  /\ syncing \in 0..Len(ki) /\ stuck \in BOOLEAN /\ sharedUse \in BOOLEAN

\* What is in the table of the vectors is connected, to that vector.
TableLive == \A v \in Vector : table[v] # 0 => ki[table[v]].connected /\ ki[table[v]].vector = v

\* Vectors that were not handed out have no line.
VectorsFresh == \A v \in Vector : v >= nextVector => lineOf[v] = NoLine

\* As long as nothing is shared: the interrupts that are connected, and the lines.
NothingShared ==
  /\ \A k \in DOMAIN ki : ki[k].connected =>
       /\ table[ki[k].vector] = k
       /\ ki[k].line # NoLine => route[ki[k].line] = [vector |-> ki[k].vector, masked |-> FALSE]
  /\ \A l \in Line : ~route[l].masked =>
       route[l].vector # 0 /\ table[route[l].vector] # 0 /\ ki[table[route[l].vector]].line = l
  /\ \A v \in Vector : lineOf[v] # NoLine => route[lineOf[v]].vector = v

\* Who waits for ever was let in above the level of the code it interrupted.
StuckAbove == stuck => syncing # 0 /\ ki[syncing].sync < ki[syncing].vector \div 16

IoInv == IoTables /\ TableLive /\ VectorsFresh /\ (sharedUse \/ NothingShared) /\ StuckAbove

LEMMA IoSizes ==
  /\ FirstVector \in Nat \ {0} /\ LastVector \in Nat /\ FirstVector <= LastVector + 1
  /\ Line \subseteq Nat /\ NoLine \notin Line /\ NoLine \in Int /\ 0 \notin Vector /\ Vector \subseteq Nat
BY IoSizesOK DEF NoLine, Vector

LEMMA IoInvPromises == IoInv => IoTypeOK /\ InterruptsSound
BY DEF IoInv, IoTables, TableLive, NothingShared, StuckAbove, IoTypeOK, InterruptsSound, KInterrupt

LEMMA IoStart == IoInit => IoInv
<1> SUFFICES ASSUME IoInit PROVE IoInv
  OBVIOUS
<1> USE DEF IoInit
<1>1. Len(ki) = 0 /\ DOMAIN ki = {} /\ ki \in Seq(KInterrupt)
  OBVIOUS
<1>2. IoTables
  <2>1. /\ nextVector \in FirstVector..LastVector + 1 /\ Len(ki) <= MaxInterrupt /\ syncing \in 0..Len(ki)
        /\ stuck \in BOOLEAN /\ sharedUse \in BOOLEAN
    <3>1. FirstVector \in FirstVector..LastVector + 1
      BY IoSizesOK
    <3>2. 0 \in 0..Len(ki) /\ Len(ki) <= MaxInterrupt
      BY <1>1, IoSizesOK
    <3> QED BY <3>1, <3>2
  <2>2. lineOf \in [Vector -> Line \union {NoLine}] /\ 0 \in 0..Len(ki)
    BY <1>1
  <2>3. table \in [Vector -> 0..Len(ki)]
    BY <2>2
  <2>4. route \in [Line -> [vector : Vector \union {0}, masked : BOOLEAN]]
    OBVIOUS
  <2> QED BY <2>1, <2>2, <2>3, <2>4, <1>1 DEF IoTables
<1>3. TableLive /\ VectorsFresh /\ StuckAbove
  BY DEF TableLive, VectorsFresh, StuckAbove
<1>4. NothingShared
  BY <1>1 DEF NothingShared
<1> QED BY <1>2, <1>3, <1>4 DEF IoInv

LEMMA GetVectorKept == ASSUME IoInv, NEW l \in Line, GetVector(l) PROVE IoInv'
<1>1. /\ nextVector <= LastVector /\ nextVector' = nextVector + 1
      /\ lineOf' = [lineOf EXCEPT ![nextVector] = l]
      /\ route' = [route EXCEPT ![l] = [vector |-> nextVector, masked |-> TRUE]]
      /\ sharedUse' = (sharedUse \/ route[l].vector # 0)
      /\ UNCHANGED <<ki, table, syncing, stuck>>
  BY DEF GetVector
<1>2. IoTables /\ TableLive /\ VectorsFresh /\ (sharedUse \/ NothingShared) /\ StuckAbove
  BY DEF IoInv
<1>3. nextVector \in Vector /\ nextVector # 0
  BY <1>1, <1>2, IoSizes DEF IoTables, Vector
<1>4. [vector |-> nextVector, masked |-> TRUE] \in [vector : Vector \union {0}, masked : BOOLEAN]
  BY <1>3
<1>5. /\ lineOf' \in [Vector -> Line \union {NoLine}] /\ \A v \in Vector : lineOf'[v] = IF v = nextVector THEN l ELSE lineOf[v]
      /\ route' \in [Line -> [vector : Vector \union {0}, masked : BOOLEAN]]
      /\ \A m \in Line : route'[m] = IF m = l THEN [vector |-> nextVector, masked |-> TRUE] ELSE route[m]
  BY <1>1, <1>2, <1>3, <1>4 DEF IoTables
<1>6. IoTables'
  <2>1. nextVector' \in FirstVector..LastVector + 1
    BY <1>1, <1>2, IoSizes DEF IoTables
  <2>2. sharedUse' \in BOOLEAN
    BY <1>1, <1>2 DEF IoTables
  <2> QED BY <2>1, <2>2, <1>1, <1>2, <1>5 DEF IoTables
<1>7. TableLive' /\ StuckAbove'
  BY <1>1, <1>2 DEF TableLive, StuckAbove
<1>8. VectorsFresh'
  BY <1>1, <1>2, <1>3, <1>5, IoSizes DEF VectorsFresh, IoTables
<1>9. ASSUME ~sharedUse' PROVE NothingShared'
  <2>1. NothingShared /\ route[l].vector = 0
    BY <1>1, <1>2, <1>9
  <2>2. \A k \in DOMAIN ki : ki[k] \in KInterrupt /\ ki[k].vector \in Vector
    <3>1. ki \in Seq(KInterrupt)
      BY <1>2 DEF IoTables
    <3>2. ASSUME NEW j \in DOMAIN ki PROVE ki[j] \in KInterrupt
      BY <3>1
    <3> QED BY <3>2 DEF KInterrupt
  <2>3. ASSUME NEW k \in DOMAIN ki, ki[k].connected
        PROVE  table'[ki[k].vector] = k /\ (ki[k].line # NoLine => route'[ki[k].line] = [vector |-> ki[k].vector, masked |-> FALSE])
    <3>1. table[ki[k].vector] = k /\ (ki[k].line # NoLine => route[ki[k].line] = [vector |-> ki[k].vector, masked |-> FALSE])
      BY <2>1, <2>3 DEF NothingShared
    <3>2. ki[k].line # l
      BY <3>1, <2>1, <2>2, IoSizes
    <3>3. ki[k].line \in Line \union {NoLine}
      BY <2>2 DEF KInterrupt
    <3> QED BY <3>1, <3>2, <3>3, <1>1, <1>5
  <2>4. ASSUME NEW m \in Line, ~route'[m].masked
        PROVE  route'[m].vector # 0 /\ table'[route'[m].vector] # 0 /\ ki[table'[route'[m].vector]].line = m
    <3>1. m # l /\ route'[m] = route[m]
      BY <2>4, <1>5
    <3> QED BY <3>1, <2>1, <2>4, <1>1 DEF NothingShared
  <2>5. ASSUME NEW v \in Vector, lineOf'[v] # NoLine PROVE route'[lineOf'[v]].vector = v
    <3>1. CASE v = nextVector
      BY <3>1, <1>5
    <3>2. CASE v # nextVector
      <4>1. lineOf'[v] = lineOf[v] /\ lineOf[v] \in Line /\ route[lineOf[v]].vector = v
        BY <3>2, <2>1, <2>5, <1>2, <1>5 DEF NothingShared, IoTables
      <4>2. lineOf[v] # l
        BY <4>1, <2>1, IoSizes
      <4> QED BY <4>1, <4>2, <1>5
    <3> QED BY <3>1, <3>2
  <2> QED BY <2>3, <2>4, <2>5, <1>1 DEF NothingShared
<1> QED BY <1>6, <1>7, <1>8, <1>9 DEF IoInv

LEMMA ConnectedKept == ASSUME IoInv, NEW v \in Vector, NEW sync \in DeviceIrql, Connect(v, sync) PROVE IoInv'
<1> DEFINE new == [vector |-> v, line |-> lineOf[v], sync |-> sync, connected |-> TRUE]
           l == lineOf[v]
           n == Len(ki) + 1
<1>1. /\ Len(ki) < MaxInterrupt /\ ki' = Append(ki, new) /\ table' = [table EXCEPT ![v] = Len(ki')]
      /\ route' = IF l = NoLine THEN route ELSE [route EXCEPT ![l] = [vector |-> v, masked |-> FALSE]]
      /\ sharedUse' = (sharedUse \/ table[v] # 0) /\ UNCHANGED <<nextVector, lineOf, syncing, stuck>>
      /\ ~stuck
  BY DEF Connect, Running
<1>2. IoTables /\ TableLive /\ VectorsFresh /\ (sharedUse \/ NothingShared) /\ StuckAbove
  BY DEF IoInv
<1>l. l \in Line \union {NoLine} /\ Len(ki) \in Nat /\ ki \in Seq(KInterrupt)
  BY <1>2 DEF IoTables
<1>3. new \in KInterrupt /\ new.vector = v /\ new.line = l /\ new.connected
  BY <1>l DEF KInterrupt
<1> HIDE DEF new
<1>4. /\ ki' \in Seq(KInterrupt) /\ Len(ki') = n /\ DOMAIN ki' = DOMAIN ki \union {n} /\ n \notin DOMAIN ki /\ n \in Nat \ {0}
      /\ ki'[n] = new /\ \A k \in DOMAIN ki : ki'[k] = ki[k]
  BY <1>1, <1>3, <1>l, AppendProperties
<1>n. \A u \in Vector : table[u] \in 0..Len(ki)
  BY <1>2 DEF IoTables
<1>5. table' \in [Vector -> 0..n] /\ \A u \in Vector : table'[u] = IF u = v THEN n ELSE table[u]
  <2>1. \A u \in Vector : table[u] \in 0..n
    BY <1>n, <1>l
  <2> QED BY <2>1, <1>1, <1>2, <1>4 DEF IoTables
<1>6. /\ route' \in [Line -> [vector : Vector \union {0}, masked : BOOLEAN]]
      /\ \A m \in Line : route'[m] = IF m = l THEN [vector |-> v, masked |-> FALSE] ELSE route[m]
  BY <1>1, <1>2, <1>l, IoSizes DEF IoTables
<1>7. IoTables'
  <2>1. sharedUse' \in BOOLEAN
    BY <1>1, <1>2 DEF IoTables
  <2>2. syncing' \in 0..Len(ki') /\ Len(ki') <= MaxInterrupt
    BY <1>1, <1>2, <1>4, <1>l, IoSizesOK DEF IoTables
  <2> QED BY <2>1, <2>2, <1>1, <1>2, <1>4, <1>5, <1>6 DEF IoTables
<1>8. TableLive'
  <2>1. ASSUME NEW u \in Vector, table'[u] # 0 PROVE ki'[table'[u]].connected /\ ki'[table'[u]].vector = u
    <3>1. CASE u = v
      BY <3>1, <1>3, <1>4, <1>5
    <3>2. CASE u # v
      <4>1. table'[u] = table[u] /\ table[u] \in DOMAIN ki
        BY <3>2, <2>1, <1>5, <1>n, <1>l
      <4> QED BY <4>1, <2>1, <1>2, <1>4 DEF TableLive
    <3> QED BY <3>1, <3>2
  <2> QED BY <2>1 DEF TableLive
<1>9. VectorsFresh' /\ StuckAbove'
  BY <1>1, <1>2 DEF VectorsFresh, StuckAbove
<1>10. ASSUME ~sharedUse' PROVE NothingShared'
  <2>1. NothingShared /\ table[v] = 0
    BY <1>1, <1>2, <1>10
  <2>2. \A k \in DOMAIN ki : ki[k].vector \in Vector /\ ki[k].line \in Line \union {NoLine}
    <3>1. ki \in Seq(KInterrupt)
      BY <1>2 DEF IoTables
    <3>2. ASSUME NEW j \in DOMAIN ki PROVE ki[j] \in KInterrupt
      BY <3>1
    <3> QED BY <3>2 DEF KInterrupt
  <2>3. ASSUME NEW k \in DOMAIN ki', ki'[k].connected
        PROVE  table'[ki'[k].vector] = k /\ (ki'[k].line # NoLine => route'[ki'[k].line] = [vector |-> ki'[k].vector, masked |-> FALSE])
    <3>1. CASE k = n
      BY <3>1, <1>3, <1>4, <1>5, <1>6, <1>l
    <3>2. CASE k # n
      <4>1. k \in DOMAIN ki /\ ki'[k] = ki[k] /\ k # 0
        BY <3>2, <1>4, <1>l
      <4>2. table[ki[k].vector] = k /\ (ki[k].line # NoLine => route[ki[k].line] = [vector |-> ki[k].vector, masked |-> FALSE])
        BY <4>1, <2>1, <2>3 DEF NothingShared
      <4>3. ki[k].vector # v
        BY <4>1, <4>2, <2>1
      <4>4. ki[k].line # NoLine => ki[k].line # l
        BY <4>2, <4>3, <2>1 DEF NothingShared
      <4> QED BY <4>1, <4>2, <4>3, <4>4, <2>2, <1>5, <1>6
    <3> QED BY <3>1, <3>2
  <2>4. ASSUME NEW m \in Line, ~route'[m].masked
        PROVE  route'[m].vector # 0 /\ table'[route'[m].vector] # 0 /\ ki'[table'[route'[m].vector]].line = m
    <3>1. CASE m = l
      BY <3>1, <1>3, <1>4, <1>5, <1>6, IoSizes
    <3>2. CASE m # l
      <4>1. route'[m] = route[m] /\ route[m].vector \in Vector \union {0}
        BY <3>2, <1>2, <1>6 DEF IoTables
      <4>2. route[m].vector # 0 /\ table[route[m].vector] # 0 /\ ki[table[route[m].vector]].line = m
        BY <4>1, <2>1, <2>4 DEF NothingShared
      <4>3. route[m].vector # v /\ route[m].vector \in Vector
        BY <4>1, <4>2, <2>1
      <4>4. table'[route[m].vector] = table[route[m].vector] /\ table[route[m].vector] \in DOMAIN ki
        BY <4>2, <4>3, <1>5, <1>n, <1>l
      <4> QED BY <4>1, <4>2, <4>4, <1>4
    <3> QED BY <3>1, <3>2
  <2>5. ASSUME NEW u \in Vector, lineOf[u] # NoLine PROVE route'[lineOf[u]].vector = u
    <3>1. lineOf[u] \in Line /\ route[lineOf[u]].vector = u
      BY <2>1, <2>5, <1>2 DEF NothingShared, IoTables
    <3>2. lineOf[u] = l => u = v
      BY <3>1, <2>1, <2>5 DEF NothingShared
    <3> QED BY <3>1, <3>2, <1>6
  <2> QED BY <2>3, <2>4, <2>5, <1>1 DEF NothingShared
<1> QED BY <1>7, <1>8, <1>9, <1>10 DEF IoInv

LEMMA DisconnectKept == ASSUME IoInv, NEW k \in DOMAIN ki, Disconnect(k) PROVE IoInv'
<1> DEFINE v == ki[k].vector
           l == ki[k].line
<1>1. /\ ki[k].connected /\ ki' = [ki EXCEPT ![k].connected = FALSE] /\ table' = [table EXCEPT ![v] = 0]
      /\ route' = IF l = NoLine THEN route ELSE [route EXCEPT ![l] = [vector |-> v, masked |-> TRUE]]
      /\ UNCHANGED <<nextVector, lineOf, syncing, stuck, sharedUse>> /\ ~stuck
  BY DEF Disconnect, Running
<1>2. IoTables /\ TableLive /\ VectorsFresh /\ (sharedUse \/ NothingShared) /\ StuckAbove
  BY DEF IoInv
<1>3. ki \in Seq(KInterrupt) /\ ki[k] \in KInterrupt
  BY <1>2 DEF IoTables
<1>4. v \in Vector /\ l \in Line \union {NoLine}
  BY <1>3 DEF KInterrupt
<1>5. [ki[k] EXCEPT !.connected = FALSE] \in KInterrupt
  BY <1>3 DEF KInterrupt
<1>6. ki' \in Seq(KInterrupt) /\ Len(ki') = Len(ki) /\ DOMAIN ki' = DOMAIN ki
      /\ \A j \in DOMAIN ki : ki'[j] = IF j = k THEN [ki[k] EXCEPT !.connected = FALSE] ELSE ki[j]
  BY <1>1, <1>3, <1>5, ExceptSeq
<1>7. \A j \in DOMAIN ki : ki'[j].vector = ki[j].vector /\ ki'[j].line = ki[j].line /\ ki'[j].sync = ki[j].sync
      /\ ki'[j].connected = (IF j = k THEN FALSE ELSE ki[j].connected)
  <2>1. /\ [ki[k] EXCEPT !.connected = FALSE].vector = ki[k].vector /\ [ki[k] EXCEPT !.connected = FALSE].line = ki[k].line
        /\ [ki[k] EXCEPT !.connected = FALSE].sync = ki[k].sync /\ [ki[k] EXCEPT !.connected = FALSE].connected = FALSE
    BY <1>3 DEF KInterrupt
  <2> QED BY <2>1, <1>6
<1> HIDE DEF v, l
<1>8. table' \in [Vector -> 0..Len(ki)] /\ \A u \in Vector : table'[u] = IF u = v THEN 0 ELSE table[u]
  BY <1>1, <1>2, <1>4 DEF IoTables
<1>9. /\ route' \in [Line -> [vector : Vector \union {0}, masked : BOOLEAN]]
      /\ \A m \in Line : route'[m] = IF m = l THEN [vector |-> v, masked |-> TRUE] ELSE route[m]
  BY <1>1, <1>2, <1>4, IoSizes DEF IoTables
<1>10. IoTables'
  BY <1>1, <1>2, <1>6, <1>8, <1>9 DEF IoTables
<1>d. DOMAIN ki = 1..Len(ki) /\ Len(ki) \in Nat
  BY <1>3
<1>n. \A u \in Vector : table[u] # 0 => table[u] \in DOMAIN ki
  BY <1>2, <1>d DEF IoTables
<1>11. TableLive'
  <2>1. ASSUME NEW u \in Vector, table'[u] # 0 PROVE ki'[table'[u]].connected /\ ki'[table'[u]].vector = u
    <3>1. u # v /\ table'[u] = table[u] /\ table[u] \in DOMAIN ki
      BY <2>1, <1>8, <1>n
    <3>2. ki[table[u]].connected /\ ki[table[u]].vector = u
      BY <3>1, <2>1, <1>2 DEF TableLive
    <3>3. table[u] # k
      BY <3>1, <3>2 DEF v
    <3> QED BY <3>1, <3>2, <3>3, <1>7
  <2> QED BY <2>1 DEF TableLive
<1>12. VectorsFresh' /\ StuckAbove'
  BY <1>1, <1>2 DEF VectorsFresh, StuckAbove
<1>13. ASSUME ~sharedUse' PROVE NothingShared'
  <2>1. NothingShared
    BY <1>1, <1>2, <1>13
  <2>2. \A j \in DOMAIN ki : ki[j].vector \in Vector /\ ki[j].line \in Line \union {NoLine}
    <3>1. ki \in Seq(KInterrupt)
      BY <1>2 DEF IoTables
    <3>2. ASSUME NEW j \in DOMAIN ki PROVE ki[j] \in KInterrupt
      BY <3>1
    <3> QED BY <3>2 DEF KInterrupt
  <2>k. table[v] = k /\ (l # NoLine => route[l] = [vector |-> v, masked |-> FALSE])
    BY <2>1, <1>1 DEF NothingShared, v, l
  <2>3. ASSUME NEW j \in DOMAIN ki, ki'[j].connected
        PROVE  table'[ki'[j].vector] = j /\ (ki'[j].line # NoLine => route'[ki'[j].line] = [vector |-> ki'[j].vector, masked |-> FALSE])
    <3>1. j # k /\ ki[j].connected /\ ki'[j].vector = ki[j].vector /\ ki'[j].line = ki[j].line
      BY <2>3, <1>7
    <3>2. table[ki[j].vector] = j /\ (ki[j].line # NoLine => route[ki[j].line] = [vector |-> ki[j].vector, masked |-> FALSE])
      BY <3>1, <2>1 DEF NothingShared
    <3>3. ki[j].vector # v
      BY <3>1, <3>2, <2>k
    <3>4. ki[j].line # NoLine => ki[j].line # l
      BY <3>2, <3>3, <2>k
    <3> QED BY <3>1, <3>2, <3>3, <3>4, <2>2, <1>8, <1>9
  <2>4. ASSUME NEW m \in Line, ~route'[m].masked
        PROVE  route'[m].vector # 0 /\ table'[route'[m].vector] # 0 /\ ki'[table'[route'[m].vector]].line = m
    <3>1. m # l /\ route'[m] = route[m] /\ route[m].vector \in Vector \union {0}
      BY <2>4, <1>2, <1>9 DEF IoTables
    <3>2. route[m].vector # 0 /\ table[route[m].vector] # 0 /\ ki[table[route[m].vector]].line = m
      BY <3>1, <2>1, <2>4 DEF NothingShared
    <3>3. route[m].vector # v /\ route[m].vector \in Vector
      BY <3>1, <3>2, <2>k DEF l
    <3>4. table'[route[m].vector] = table[route[m].vector] /\ table[route[m].vector] \in DOMAIN ki
      BY <3>2, <3>3, <1>8, <1>n
    <3> QED BY <3>1, <3>2, <3>4, <1>7
  <2>5. ASSUME NEW u \in Vector, lineOf[u] # NoLine PROVE route'[lineOf[u]].vector = u
    <3>1. lineOf[u] \in Line /\ route[lineOf[u]].vector = u
      BY <2>1, <2>5, <1>2 DEF NothingShared, IoTables
    <3>2. lineOf[u] = l => u = v
      BY <3>1, <2>k, IoSizes
    <3> QED BY <3>1, <3>2, <1>9
  <2> QED BY <2>3, <2>4, <2>5, <1>1, <1>6 DEF NothingShared
<1> QED BY <1>10, <1>11, <1>12, <1>13 DEF IoInv

LEMMA TablesStay ==
  ASSUME IoInv, UNCHANGED <<nextVector, lineOf, route, ki, table, sharedUse>>, syncing' \in 0..Len(ki), stuck' \in BOOLEAN, StuckAbove'
  PROVE  IoInv'
BY DEF IoInv, IoTables, TableLive, VectorsFresh, NothingShared

LEMMA DispatchedKept == ASSUME IoInv, NEW l \in Line, Dispatched(route[l].vector), route[l].vector # 0 PROVE IoInv'
<1> DEFINE v == route[l].vector
           k == table[v]
<1>1. /\ k # 0 /\ (syncing # 0 => v \div 16 > ki[syncing].sync) /\ stuck' = (syncing = k)
      /\ UNCHANGED <<nextVector, lineOf, route, ki, table, syncing, sharedUse>>
  BY DEF Dispatched
<1>2. v \in Vector /\ TableLive /\ IoTables
  BY DEF IoInv, IoTables
<1>3. k \in DOMAIN ki /\ ki[k].vector = v /\ ki \in Seq(KInterrupt)
  BY <1>1, <1>2 DEF TableLive, IoTables
<1>4. ki[k].sync \in Nat /\ v \div 16 \in Int
  <2>1. ki[k] \in KInterrupt
    BY <1>3
  <2>2. ki[k].sync \in DeviceIrql /\ v \in Nat
    BY <2>1, <1>2, IoSizes DEF KInterrupt
  <2> HIDE DEF v, k
  <2>3. v \div 16 \in Int
    BY <2>2
  <2> QED BY <2>2, <2>3, IoSizesOK
<1>5. StuckAbove'
  BY <1>1, <1>3, <1>4 DEF StuckAbove
<1> QED BY <1>1, <1>2, <1>5, TablesStay DEF IoTables

LEMMA IoStepKept == IoInv /\ [IoNext]_ioVars => IoInv'
<1> SUFFICES ASSUME IoInv, [IoNext]_ioVars PROVE IoInv'
  OBVIOUS
<1>1. CASE UNCHANGED ioVars
  BY <1>1 DEF ioVars, IoInv, IoTables, TableLive, VectorsFresh, NothingShared, StuckAbove
<1>2. ASSUME NEW k \in DOMAIN ki, SynchronizeBegin(k) PROVE IoInv'
  <2>1. syncing' \in 0..Len(ki) /\ stuck' \in BOOLEAN /\ StuckAbove' /\ UNCHANGED <<nextVector, lineOf, route, ki, table, sharedUse>>
    BY <1>2 DEF SynchronizeBegin, Running, StuckAbove, IoInv, IoTables
  <2> QED BY <2>1, TablesStay
<1>3. CASE SynchronizeEnd
  <2>1. syncing' \in 0..Len(ki) /\ stuck' \in BOOLEAN /\ StuckAbove' /\ UNCHANGED <<nextVector, lineOf, route, ki, table, sharedUse>>
    BY <1>3 DEF SynchronizeEnd, Running, StuckAbove, IoInv, IoTables
  <2> QED BY <2>1, TablesStay
<1>4. CASE IoNext
  BY <1>2, <1>3, <1>4, GetVectorKept, ConnectedKept, DisconnectKept, DispatchedKept DEF IoNext
<1> QED BY <1>1, <1>4

\* The tables of interrupts are sound, for every number of lines, vectors and interrupt objects
\* (kinterrupt.c:84-131).
THEOREM InterruptsCorrect == IoSpec => [](IoTypeOK /\ InterruptsSound)
<1>1. IoInit => IoInv
  BY IoStart
<1>2. IoInv /\ [IoNext]_ioVars => IoInv'
  BY IoStepKept
<1>3. IoInv => IoTypeOK /\ InterruptsSound
  BY IoInvPromises
<1> QED BY <1>1, <1>2, <1>3, PTL DEF IoSpec
=============================================================================
