------------------------------ MODULE IoProofs ------------------------------
(***************************************************************************)
(* Proofs about what goes in and out.                                      *)
(* The requests: IrpStack, for every depth of the stack, every number of   *)
(* locations and of returns, when drivers skip, or copy and then register  *)
(* a routine of their own: a location copied alone carries the routine of  *)
(* the driver above with it, and CalledForInstaller fails.                 *)
(* The messages: the windows over their queue, for every number of         *)
(* windows, programs and places in the queue.                              *)
(***************************************************************************)
EXTENDS IrpStack, Desktop, SequenceTheorems, FiniteSetTheorems, WellFoundedInduction, TLAPS

-----------------------------------------------------------------------------
(* The stack of an IRP.                                                      *)

OwnRoutines == Ways \subseteq {"skip", "set"}

\* The location one above, as the walk sees it: who may have left a routine in i.
Leaver(i) == IF i = StackCount THEN Originator ELSE loc[i + 1].device

\* The locations in use name devices, each low enough that those below it have
\* locations left, and hold no routine but one of the party above.
LocationsInUse ==
  \A i \in current..StackCount :
    /\ loc[i].device \in Device
    /\ loc[i].device + StackCount <= Depth + i
    /\ loc[i].routine \in {NULL, Leaver(i)}

\* The originator builds the packet on blank locations.
BuiltBlank ==
  stage = "built" => /\ holder = Originator /\ current = Sentinel
                     /\ loc[StackCount].routine = NULL

\* Only drivers dispatch.
DispatchedToDevice == stage = "dispatch" => holder # Originator

StackInv ==
  /\ TypeOK
  /\ DispatchedToDevice
  /\ LocationsInUse
  /\ BuiltBlank
  /\ HolderOwnsLocation
  /\ CalledForInstaller

-----------------------------------------------------------------------------
LEMMA Bounds == Retries \in Nat
  BY ChoicesOK DEF ChoicesOK

\* A blank packet has no location in use.
LEMMA StackInvInit == Init => StackInv
<1> SUFFICES ASSUME Init PROVE StackInv
  OBVIOUS
<1>1. loc \in [1..Sentinel -> Location] /\ Sentinel = StackCount + 1 /\ StackCount \in Nat
  BY SizesOK DEF Init, Location, Blank, NULL, Originator, Sentinel
<1>2. TypeOK
  <2>1. /\ current \in 1..(Sentinel + 1) /\ current <= Sentinel
        /\ holder \in 1..Originator /\ dobj \in 0..Depth /\ resent \in 0..Retries
    BY <1>1, SizesOK, Bounds DEF Init, Originator, NULL
  <2> QED BY <1>1, <2>1 DEF Init, TypeOK, NoStatus, Stage
<1>3. LocationsInUse
  BY <1>1 DEF Init, LocationsInUse
<1> QED BY <1>2, <1>3
        DEF Init, StackInv, DispatchedToDevice, BuiltBlank, HolderOwnsLocation, CalledForInstaller

LEMMA StackInvAllocate ==
  ASSUME StackInv, IoAllocateIrp
  PROVE  StackInv'
<1>1. /\ loc' \in [1..Sentinel -> Location] /\ loc'[StackCount].routine = NULL
      /\ Sentinel = StackCount + 1 /\ StackCount \in Nat
  BY SizesOK DEF IoAllocateIrp, Location, Blank, NULL, Originator, Sentinel
<1>2. TypeOK'
  <2>1. /\ current' \in 1..(Sentinel + 1) /\ current' <= Sentinel
        /\ holder' \in 1..Originator /\ dobj' \in 0..Depth /\ resent' \in 0..Retries
    BY <1>1, SizesOK, Bounds DEF StackInv, TypeOK, IoAllocateIrp, Originator, NULL
  <2> QED BY <1>1, <2>1 DEF StackInv, IoAllocateIrp, TypeOK, NoStatus, Stage
<1>3. LocationsInUse'
  BY <1>1 DEF IoAllocateIrp, LocationsInUse
<1> QED BY <1>1, <1>2, <1>3
        DEF IoAllocateIrp, StackInv, DispatchedToDevice, BuiltBlank, HolderOwnsLocation,
            CalledForInstaller

\* The party that sends the packet down has a party below it and room for its
\* location: the next location is in the array.
LEMMA RoomBelow ==
  ASSUME StackInv, stage \in {"built", "dispatch", "kept"}, holder > 1
  PROVE  /\ holder - 1 \in Device
         /\ current \in 2..Sentinel
         /\ holder + StackCount <= Depth + current
  BY SizesOK
  DEF StackInv, TypeOK, LocationsInUse, BuiltBlank, HolderOwnsLocation, Sentinel, Originator,
      Device, Stage

\* Writing one field of a location leaves a location with the others unchanged.
LEMMA WithDevice ==
  ASSUME NEW l \in Location, NEW dev \in 0..Depth
  PROVE  /\ [l EXCEPT !.device = dev] \in Location
         /\ [l EXCEPT !.device = dev].device = dev
         /\ [l EXCEPT !.device = dev].routine = l.routine
  BY DEF Location

LEMMA WithRoutine ==
  ASSUME NEW l \in Location, NEW who \in 0..Originator,
         NEW invoke \in SUBSET {"success", "error", "cancel"}
  PROVE  /\ IoSetCompletionRoutine(l, who, invoke) \in Location
         /\ IoSetCompletionRoutine(l, who, invoke).routine = who
  BY DEF Location, IoSetCompletionRoutine

\* Whatever way the location below is prepared, IoCallDriver makes it current,
\* with the device called in it and no routine but one of the party above, and
\* leaves the locations above alone.
LEMMA NextLocation ==
  ASSUME StackInv, stage \in {"built", "dispatch", "kept"}, holder > 1,
         NEW way \in {"skip", "fill", "set"}, NEW invoke \in Invokes,
         way = "fill" => stage = "built",
         way = "skip" => stage = "dispatch" /\ holder # Originator,
         IoCallDriver(Prepared(way, invoke), holder - 1)
  PROVE  /\ current' \in 1..StackCount
         /\ loc' \in [1..Sentinel -> Location]
         /\ loc'[current'].device = holder - 1
         /\ holder - 1 + StackCount <= Depth + current'
         /\ loc'[current'].routine \in
              {NULL, IF current' = StackCount THEN Originator ELSE loc'[current' + 1].device}
         /\ \A i \in (current' + 1)..StackCount : i >= current /\ loc'[i] = loc[i]
<1> DEFINE c == current
           d == holder
<1>1. /\ d - 1 \in 1..Depth /\ c \in 2..Sentinel /\ d + StackCount <= Depth + c
      /\ d \in 1..Originator /\ Originator = Depth + 1 /\ Depth \in Nat
      /\ Sentinel = StackCount + 1 /\ StackCount \in Nat
  BY RoomBelow, SizesOK DEF StackInv, TypeOK, Device, Sentinel, Originator
<1>2. loc \in [1..Sentinel -> Location]
  BY DEF StackInv, TypeOK
<1>3. invoke \in SUBSET {"success", "error", "cancel"}
  BY ChoicesOK
<1>4. \/ d = Originator /\ c = Sentinel
      \/ c <= StackCount /\ loc[c].device = d
  BY <1>1 DEF StackInv, HolderOwnsLocation, BuiltBlank
<1> DEFINE above == IF current' = StackCount THEN Originator ELSE loc'[current' + 1].device
<1>5. CASE way = "skip"
  <2> DEFINE l == [loc[c] EXCEPT !.device = d - 1]
  <2>1. c <= StackCount /\ loc[c].device = d /\ loc[c] \in Location
    BY <1>1, <1>2, <1>4, <1>5
  <2>2. current' = c /\ loc' = [loc EXCEPT ![c] = l]
    BY <1>1, <1>5 DEF IoCallDriver, Prepared, Addressed
  <2>3. l \in Location /\ l.device = d - 1 /\ l.routine = loc[c].routine
    BY <1>1, <2>1, WithDevice
  <2>4. /\ loc' \in [1..Sentinel -> Location]
        /\ loc'[c].device = d - 1 /\ loc'[c].routine = loc[c].routine
        /\ \A i \in 1..Sentinel : i # c => loc'[i] = loc[i]
    <3> HIDE DEF l
    <3> QED BY <1>1, <1>2, <2>1, <2>2, <2>3
  <2>5. above = Leaver(c)
    <3>1. current' = c
      BY <2>2
    <3>2. CASE c = StackCount
      BY <3>1, <3>2 DEF Leaver
    <3>3. CASE c # StackCount
      <4>1. c + 1 \in 1..Sentinel /\ c + 1 # c
        BY <1>1, <2>1, <3>3
      <4>2. loc'[c + 1] = loc[c + 1]
        BY <2>4, <4>1
      <4> QED BY ONLY <3>1, <3>3, <4>2 DEF Leaver
    <3> QED BY <3>2, <3>3
  <2>6. loc[c].routine \in {NULL, Leaver(c)}
    <3>1. c \in c..StackCount
      BY <1>1, <2>1
    <3> QED BY <3>1 DEF StackInv, LocationsInUse
  <2>7. \A i \in (c + 1)..StackCount : i >= c /\ loc'[i] = loc[i]
    BY <1>1, <2>1, <2>4
  <2> QED BY <1>1, <2>1, <2>2, <2>4, <2>5, <2>6, <2>7
<1>6. CASE way \in {"fill", "set"}
  <2>1. current' = c - 1
    BY <1>1, <1>6 DEF IoCallDriver, Prepared
  <2>2. /\ loc' \in [1..Sentinel -> Location]
        /\ loc'[c - 1].device = d - 1
        /\ loc'[c - 1].routine = (IF way = "set" THEN d ELSE loc[c - 1].routine)
        /\ \A i \in 1..Sentinel : i # c - 1 => loc'[i] = loc[i]
    <3>1. PICK b \in Location : /\ b.routine = (IF way = "set" THEN d ELSE loc[c - 1].routine)
                                /\ loc' = [loc EXCEPT ![c - 1] = [b EXCEPT !.device = d - 1]]
      <4>1. CASE way = "fill"
        <5>1. loc' = [loc EXCEPT ![c - 1] = [loc[c - 1] EXCEPT !.device = d - 1]]
          BY <1>1, <4>1 DEF IoCallDriver, Prepared, Addressed
        <5>2. loc[c - 1] \in Location
          BY <1>1, <1>2
        <5> QED BY <4>1, <5>1, <5>2
      <4>2. CASE way = "set"
        <5> DEFINE b == IoSetCompletionRoutine(loc[c], d, invoke)
        <5>1. loc' = [[loc EXCEPT ![c - 1] = b] EXCEPT ![c - 1].device = d - 1]
          BY <1>1, <4>2 DEF IoCallDriver, Prepared, Addressed
        <5>2. b \in Location /\ b.routine = d
          <6>1. loc[c] \in Location /\ d \in 0..Originator
            BY <1>1, <1>2
          <6> QED BY <6>1, <1>3, WithRoutine
        <5> HIDE DEF b
        <5>3. loc' = [loc EXCEPT ![c - 1] = [b EXCEPT !.device = d - 1]]
          BY <5>1, <1>1, <1>2
        <5> QED BY <4>2, <5>2, <5>3
      <4> QED BY <1>6, <4>1, <4>2
    <3> DEFINE l == [b EXCEPT !.device = d - 1]
    <3>2. l \in Location /\ l.device = d - 1 /\ l.routine = b.routine
      BY <1>1, WithDevice
    <3>3. loc' = [loc EXCEPT ![c - 1] = l]
      BY <3>1
    <3> HIDE DEF l
    <3> QED BY <1>1, <1>2, <3>1, <3>2, <3>3
  <2>3. above = d
    BY <1>1, <1>4, <2>1, <2>2
  <2>4. loc'[c - 1].routine \in {NULL, d}
    <3>1. CASE way = "set"
      BY <3>1, <2>2
    <3>2. CASE way = "fill"
      BY <3>2, <1>1, <2>2 DEF StackInv, BuiltBlank
    <3> QED BY <1>6, <3>1, <3>2
  <2> QED BY <1>1, <2>1, <2>2, <2>3, <2>4
<1> QED BY <1>5, <1>6

LEMMA StackInvSent ==
  ASSUME StackInv, stage \in {"built", "dispatch", "kept"}, holder > 1,
         NEW way \in {"skip", "fill", "set"}, NEW invoke \in Invokes,
         way = "fill" => stage = "built",
         way = "skip" => stage = "dispatch" /\ holder # Originator,
         IoCallDriver(Prepared(way, invoke), holder - 1),
         resent' \in 0..Retries
  PROVE  StackInv'
<1>1. /\ current' \in 1..StackCount
      /\ loc' \in [1..Sentinel -> Location]
      /\ loc'[current'].device = holder - 1
      /\ holder - 1 + StackCount <= Depth + current'
      /\ loc'[current'].routine \in
           {NULL, IF current' = StackCount THEN Originator ELSE loc'[current' + 1].device}
      /\ \A i \in (current' + 1)..StackCount : i >= current /\ loc'[i] = loc[i]
  BY NextLocation
<1>2. /\ holder - 1 \in Device /\ Sentinel = StackCount + 1 /\ StackCount \in Nat
      /\ Originator = Depth + 1 /\ Depth \in Nat
  BY RoomBelow, SizesOK DEF Sentinel, Originator
<1>3. /\ stage' \in {"dispatch", "refused"}
      /\ stage' = "dispatch" => holder' = holder - 1
      /\ holder' \in {holder, holder - 1} /\ status' \in {status, "error"}
      /\ UNCHANGED <<cancel, iosb, event, dobj, pended, caller, deaf>>
  BY DEF IoCallDriver
<1>4. TypeOK'
  <2>1. current' \in 1..(Sentinel + 1) /\ current' <= Sentinel /\ holder' \in 1..Originator
    BY <1>1, <1>2, <1>3 DEF StackInv, TypeOK, Device
  <2> QED BY <1>1, <1>3, <2>1 DEF StackInv, TypeOK, Stage
<1>5. LocationsInUse'
  <2>1. LocationsInUse
    BY DEF StackInv
  <2> SUFFICES ASSUME NEW i \in current'..StackCount
               PROVE  /\ loc'[i].device \in Device
                      /\ loc'[i].device + StackCount <= Depth + i
                      /\ loc'[i].routine \in
                           {NULL, IF i = StackCount THEN Originator ELSE loc'[i + 1].device}
    BY DEF LocationsInUse, Leaver
  <2>2. CASE i = current'
    BY <1>1, <1>2, <2>2
  <2>3. CASE i # current'
    <3>1. current \in Nat /\ current' \in Nat /\ i \in Nat
      BY <1>1, <1>2 DEF StackInv, TypeOK
    <3> DEFINE n == current'
    <3>2. n \in Nat /\ i >= n /\ i <= StackCount /\ i # n
      BY <1>2, <2>3, <3>1
    <3>3. i \in (n + 1)..StackCount /\ (i # StackCount => i + 1 \in (n + 1)..StackCount)
      <4> HIDE DEF n
      <4> QED BY <1>2, <3>1, <3>2
    <3>4. i >= current /\ loc'[i] = loc[i] /\ (i # StackCount => loc'[i + 1] = loc[i + 1])
      BY <1>1, <3>3
    <3>5. i \in current..StackCount
      BY <1>2, <3>1, <3>3, <3>4
    <3> QED BY <2>1, <3>4, <3>5 DEF LocationsInUse, Leaver
  <2> QED BY <2>2, <2>3
<1>6. HolderOwnsLocation'
  BY <1>1, <1>2, <1>3 DEF HolderOwnsLocation
<1>7. BuiltBlank' /\ CalledForInstaller' /\ DispatchedToDevice'
  BY <1>2, <1>3 DEF BuiltBlank, CalledForInstaller, DispatchedToDevice, Device
<1> QED BY <1>4, <1>5, <1>6, <1>7 DEF StackInv

\* A turn of the walk: the routine that runs was left by the party whose
\* location becomes current.
LEMMA StackInvClimb ==
  ASSUME StackInv, Climb
  PROVE  StackInv'
<1>1. /\ current \in 1..StackCount /\ current' = current + 1
      /\ loc' = loc /\ Sentinel = StackCount + 1 /\ StackCount \in Nat
      /\ Originator = Depth + 1 /\ Depth \in Nat
  BY SizesOK DEF StackInv, TypeOK, Climb, PastTop, Sentinel, Originator
<1>2. LocationsInUse'
  BY <1>1 DEF StackInv, LocationsInUse, Leaver
<1>3. CASE Wanted(loc[current])
  <2>1. /\ stage' = "routine" /\ holder' = loc[current].routine
        /\ dobj' = IF current' = Sentinel THEN NULL ELSE loc[current'].device
    BY <1>1, <1>3 DEF Climb, DeviceAbove
  <2>2. loc[current].routine = Leaver(current)
    BY <1>1, <1>3 DEF StackInv, LocationsInUse, Wanted
  <2>3. \/ current' = Sentinel /\ holder' = Originator /\ dobj' = NULL
        \/ /\ current' < Sentinel /\ holder' = loc'[current'].device
           /\ dobj' = holder' /\ holder' \in Device
    BY <1>1, <2>1, <2>2 DEF Leaver, StackInv, LocationsInUse
  <2>4. holder' \in 1..Originator /\ dobj' \in 0..Depth /\ (holder' = Originator => dobj' = NULL)
    BY <1>1, <2>3 DEF Device, NULL
  <2>5. TypeOK'
    BY <1>1, <2>1, <2>4 DEF StackInv, TypeOK, Climb, Stage
  <2>6. HolderOwnsLocation' /\ CalledForInstaller' /\ BuiltBlank' /\ DispatchedToDevice'
    BY <1>1, <2>1, <2>3, <2>4
    DEF HolderOwnsLocation, CalledForInstaller, BuiltBlank, DispatchedToDevice
  <2> QED BY <1>2, <2>5, <2>6 DEF StackInv
<1>4. CASE ~Wanted(loc[current])
  <2>1. UNCHANGED <<stage, holder, dobj>> /\ stage = "completing"
    BY <1>4 DEF Climb
  <2>2. TypeOK'
    BY <1>1, <2>1 DEF StackInv, TypeOK, Climb
  <2> QED BY <1>2, <2>1, <2>2 DEF StackInv, HolderOwnsLocation, CalledForInstaller, BuiltBlank,
                                          DispatchedToDevice
<1> QED BY <1>3, <1>4

LEMMA StackInvWriteUserIosb ==
  ASSUME StackInv, WriteUserIosb
  PROVE  StackInv'
<1>1. /\ current = Sentinel /\ current' = Sentinel + 1 /\ stage' = "signalling"
      /\ loc' = loc /\ Sentinel = StackCount + 1 /\ StackCount \in Nat
  BY SizesOK DEF StackInv, TypeOK, WriteUserIosb, PastTop, Sentinel
<1>2. TypeOK'
  BY <1>1 DEF StackInv, TypeOK, WriteUserIosb, NoSignal, Stage
<1>3. LocationsInUse'
  BY <1>1 DEF LocationsInUse
<1> QED BY <1>1, <1>2, <1>3 DEF StackInv, HolderOwnsLocation, CalledForInstaller, BuiltBlank,
                                          DispatchedToDevice

\* The other steps leave the locations, the current one and the holder alone.
LEMMA StackInvSame ==
  ASSUME StackInv, UNCHANGED <<current, loc, holder, dobj, iosb, deaf, resent>>,
         stage' \in Stage, stage' # "built" \/ stage = "built",
         stage' \in {"signalling", "done"} \/ current <= Sentinel,
         stage' \in {"dispatch", "queued", "kept", "routine"} =>
           stage \in {"dispatch", "queued", "kept", "routine"},
         stage' = "routine" => stage = "routine",
         stage' = "dispatch" => stage = "dispatch",
         status' \in {"success", "error"}, cancel' \in BOOLEAN, event' \in BOOLEAN,
         pended' \in BOOLEAN, caller' \in {"calling", "waiting", "freed"}
  PROVE  StackInv'
<1>1. TypeOK'
  BY DEF StackInv, TypeOK
<1>2. LocationsInUse' /\ BuiltBlank'
  BY DEF StackInv, LocationsInUse, BuiltBlank, Leaver
<1>3. HolderOwnsLocation' /\ CalledForInstaller' /\ DispatchedToDevice'
  BY DEF StackInv, HolderOwnsLocation, CalledForInstaller, DispatchedToDevice
<1> QED BY <1>1, <1>2, <1>3 DEF StackInv

LEMMA StackInvSendDown ==
  ASSUME StackInv, stage \in {"built", "dispatch", "kept"}, holder > 1,
         NEW ways \in SUBSET {"skip", "fill", "set"},
         "fill" \in ways => stage = "built",
         "skip" \in ways => stage = "dispatch" /\ holder # Originator,
         SendDown(ways),
         resent' \in 0..Retries
  PROVE  StackInv'
<1>1. PICK way \in ways, invoke \in Invokes : IoCallDriver(Prepared(way, invoke), holder - 1)
  BY DEF SendDown
<1> QED BY <1>1, StackInvSent

\* Every step keeps the invariant.
LEMMA StackInvNext ==
  ASSUME StackInv, OwnRoutines, [Next]_vars
  PROVE  StackInv'
<1>1. TypeOK /\ Retries \in Nat /\ StackCount \in Nat /\ Sentinel = StackCount + 1
      /\ Depth \in Nat \ {0} /\ Originator = Depth + 1
  BY SizesOK, Bounds DEF StackInv, Sentinel, Originator
<1>2. CASE IoAllocateIrp
  BY <1>2, StackInvAllocate
<1>3. CASE Send
  <2>1. stage = "built" /\ holder = Originator /\ holder > 1 /\ resent' \in 0..Retries
    BY <1>1, <1>3 DEF Send, StackInv, BuiltBlank, TypeOK
  <2>2. SendDown({"fill", "set"})
    BY <1>3 DEF Send
  <2>3. {"fill", "set"} \in SUBSET {"skip", "fill", "set"} /\ "skip" \notin {"fill", "set"}
    OBVIOUS
  <2> QED BY <2>1, <2>2, <2>3, StackInvSendDown
<1>4. CASE Forward
  <2>1. stage = "dispatch" /\ holder > 1 /\ SendDown(Ways) /\ resent' \in 0..Retries
    BY <1>1, <1>4 DEF Forward, TypeOK
  <2>2. Ways \in SUBSET {"skip", "fill", "set"} /\ "fill" \notin Ways
    BY DEF OwnRoutines
  <2>3. holder # Originator
    BY <2>1 DEF StackInv, DispatchedToDevice
  <2> QED BY <2>1, <2>2, <2>3, StackInvSendDown
<1>5. CASE Resend
  <2>1. stage = "kept" /\ holder > 1 /\ SendDown({"set"}) /\ resent' \in 0..Retries
    BY <1>1, <1>5 DEF Resend, TypeOK
  <2>2. {"set"} \in SUBSET {"skip", "fill", "set"} /\ "skip" \notin {"set"} /\ "fill" \notin {"set"}
    OBVIOUS
  <2> QED BY <2>1, <2>2, StackInvSendDown
<1>6. CASE Climb
  BY <1>6, StackInvClimb
<1>7. CASE WriteUserIosb
  BY <1>7, StackInvWriteUserIosb
<1>8. CASE Queue
  BY <1>1, <1>8, StackInvSame DEF Queue, TypeOK, Stage
<1>9. CASE Complete
  BY <1>1, <1>9, StackInvSame DEF Complete, TypeOK, Stage
<1>10. CASE RoutineReturns
  BY <1>1, <1>10, StackInvSame DEF RoutineReturns, TypeOK, Stage
<1>11. CASE RoutineKeeps
  BY <1>1, <1>11, StackInvSame DEF RoutineKeeps, TypeOK, Stage
<1>12. CASE SignalUserEvent
  BY <1>1, <1>12, StackInvSame DEF SignalUserEvent, Signalled, TypeOK, Stage
<1>13. CASE CallReturns
  BY <1>1, <1>13, StackInvSame DEF CallReturns, TypeOK, Stage
<1>14. CASE IoFreeIrp
  BY <1>1, <1>14, StackInvSame DEF IoFreeIrp, TypeOK, Stage
<1>15. CASE IoCancelIrp
  BY <1>1, <1>15, StackInvSame DEF IoCancelIrp, TypeOK, Stage
<1>16. CASE UNCHANGED vars
  BY <1>1, <1>16, StackInvSame DEF vars, TypeOK, Stage
<1> QED
  BY <1>2, <1>3, <1>4, <1>5, <1>6, <1>7, <1>8, <1>9, <1>10, <1>11, <1>12, <1>13, <1>14,
     <1>15, <1>16 DEF Next, Progress

-----------------------------------------------------------------------------
(* Freeing.                                                                *)

\* The event of a request is signalled at its very end, after the status block
\* is written.
SignalledLast ==
  /\ stage \in {"signalling"} => iosb # NoStatus
  /\ event => stage = "done" /\ iosb # NoStatus

LEMMA FreedInit == Init => SignalledLast /\ FreedWhenIdle
  BY DEF Init, SignalledLast, FreedWhenIdle

LEMMA FreedNext ==
  ASSUME StackInv, SignalledLast, FreedWhenIdle, [Next]_vars
  PROVE  SignalledLast' /\ FreedWhenIdle'
<1> USE DEF SignalledLast, FreedWhenIdle
<1>1. CASE IoAllocateIrp
  BY <1>1 DEF IoAllocateIrp
<1>2. CASE Send
  BY <1>2 DEF Send, SendDown, IoCallDriver
<1>3. CASE Forward
  BY <1>3 DEF Forward, SendDown, IoCallDriver
<1>4. CASE Resend
  BY <1>4 DEF Resend, SendDown, IoCallDriver
<1>5. CASE Queue \/ Climb \/ RoutineReturns \/ RoutineKeeps
  BY <1>5 DEF Queue, Climb, RoutineReturns, RoutineKeeps
<1>6. CASE Complete
  BY <1>6 DEF Complete
<1>7. CASE WriteUserIosb
  <2>1. iosb' \in {"success", "error"} /\ iosb' # NoStatus
    BY <1>7 DEF WriteUserIosb, StackInv, TypeOK, NoStatus
  <2> QED BY <1>7, <2>1 DEF WriteUserIosb, NoSignal
<1>8. CASE SignalUserEvent
  BY <1>8 DEF SignalUserEvent, Signalled
<1>9. CASE CallReturns \/ IoFreeIrp \/ IoCancelIrp \/ UNCHANGED vars
  BY <1>9 DEF CallReturns, IoFreeIrp, IoCancelIrp, vars
<1> QED BY <1>1, <1>2, <1>3, <1>4, <1>5, <1>6, <1>7, <1>8, <1>9 DEF Next, Progress

-----------------------------------------------------------------------------
(* Theorems.                                                               *)

LEMMA StackInvAlways == OwnRoutines => (Spec => []StackInv)
<1> SUFFICES ASSUME OwnRoutines PROVE Spec => []StackInv
  OBVIOUS
<1>1. Init => StackInv
  BY StackInvInit
<1>2. StackInv /\ [Next]_vars => StackInv'
  BY StackInvNext
<1> QED BY <1>1, <1>2, PTL DEF Spec

\* Every variable keeps its type, and the current location stays in the array
\* however often the packet goes down again.
THEOREM PacketTypeCorrect == OwnRoutines => (Spec => []TypeOK)
<1>1. StackInv => TypeOK
  BY DEF StackInv
<1> QED BY <1>1, StackInvAlways, PTL

\* Whoever has the packet finds its own location current.
THEOREM HolderCorrect == OwnRoutines => (Spec => []HolderOwnsLocation)
<1>1. StackInv => HolderOwnsLocation
  BY DEF StackInv
<1> QED BY <1>1, StackInvAlways, PTL

\* A completion routine is called for the device that registered it.
THEOREM InstallerCorrect == OwnRoutines => (Spec => []CalledForInstaller)
<1>1. StackInv => CalledForInstaller
  BY DEF StackInv
<1> QED BY <1>1, StackInvAlways, PTL

\* The originator frees the packet only when nobody will touch it again.
THEOREM FreeCorrect == OwnRoutines => (Spec => []FreedWhenIdle)
<1> SUFFICES ASSUME OwnRoutines PROVE Spec => []FreedWhenIdle
  OBVIOUS
<1>1. Spec => []StackInv
  BY StackInvAlways
<1>2. Init => SignalledLast /\ FreedWhenIdle
  BY FreedInit
<1>3. StackInv /\ SignalledLast /\ FreedWhenIdle /\ [Next]_vars => SignalledLast' /\ FreedWhenIdle'
  BY FreedNext
<1> QED BY <1>1, <1>2, <1>3, PTL DEF Spec


-----------------------------------------------------------------------------
(* Numbers and sequences.                                                    *)

\* A set of numbers that is closed under its own complement's successor is empty.
LEMMA NothingFirst ==
  ASSUME NEW T \in SUBSET Nat, 0 \notin T, \A n \in Nat : n \notin T => n + 1 \notin T
  PROVE  T = {}
<1> SUFFICES ASSUME T # {} PROVE FALSE
  OBVIOUS
<1>1. PICK m \in T : \A y \in T : ~(<<y, m>> \in OpToRel(<, Nat))
  BY NatLessThanWellFounded, WFMin
<1>2. m \in Nat /\ m # 0
  BY <1>1
<1>3. m - 1 \in Nat /\ (m - 1) + 1 = m /\ m - 1 < m
  BY <1>2
<1>4. m - 1 \in T
  BY <1>1, <1>3
<1>5. <<m - 1, m>> \in OpToRel(<, Nat)
  BY <1>2, <1>3 DEF OpToRel
<1> QED BY <1>1, <1>4, <1>5

\* The least and the greatest of some numbers are among them.
LEMMA LeastIn ==
  ASSUME NEW T \in SUBSET Nat, T # {}
  PROVE  Min(T) \in T /\ \A y \in T : Min(T) =< y
<1> SUFFICES ASSUME ~ \E m \in T : \A y \in T : m =< y PROVE FALSE
  BY DEF Min
<1> DEFINE Above == {n \in Nat : \E y \in T : y =< n}
<1>1. 0 \notin Above
  OBVIOUS
<1>2. ASSUME NEW n \in Nat, n \notin Above PROVE n + 1 \notin Above
  <2> SUFFICES ASSUME NEW y \in T, y =< n + 1 PROVE FALSE
    OBVIOUS
  <2>1. \A z \in T : z > n
    BY <1>2
  <2>2. \A z \in T : y =< z
    BY <2>1
  <2> QED BY <2>2
<1>3. Above = {}
  <2> HIDE DEF Above
  <2>1. Above \in SUBSET Nat
    BY DEF Above
  <2> QED BY <1>1, <1>2, <2>1, NothingFirst
<1>4. PICK t \in T : TRUE
  OBVIOUS
<1>5. t \in Above
  OBVIOUS
<1> QED BY <1>3, <1>5

LEMMA GreatestIn ==
  ASSUME NEW n \in Nat, NEW T \in SUBSET (0..n), T # {}
  PROVE  Max(T) \in T
<1> DEFINE D == {n - x : x \in T}
<1>1. D \in SUBSET Nat /\ D # {}
  <2>1. PICK t \in T : TRUE
    OBVIOUS
  <2>2. n - t \in D
    OBVIOUS
  <2> QED BY <2>2
<1>2. Min(D) \in D /\ \A y \in D : Min(D) =< y
  BY <1>1, LeastIn
<1>3. PICK m \in T : \A y \in D : n - m =< y
  BY <1>2
<1>4. \A y \in T : m >= y
  <2> TAKE y \in T
  <2>1. n - m =< n - y
    BY <1>3
  <2> QED BY <2>1
<1> QED BY <1>4 DEF Max

\* Putting lists of messages one behind the other gives a list of messages.
Joined(g, s, n) == g = [i \in 1..n |-> IF i = 1 THEN s[i] ELSE g[i - 1] \o s[i]]

LEMMA JoinedExists ==
  ASSUME NEW s
  PROVE  \A n \in Nat : \E g : Joined(g, s, n)
<1> DEFINE T == {n \in Nat : ~ \E g : Joined(g, s, n)}
<1>1. 0 \notin T
  <2>1. Joined([i \in 1..0 |-> <<>>], s, 0)
    BY DEF Joined
  <2> QED BY <2>1
<1>2. ASSUME NEW n \in Nat, n \notin T PROVE n + 1 \notin T
  <2>1. PICK g : Joined(g, s, n)
    BY <1>2
  <2> DEFINE h == [i \in 1..n + 1 |-> IF i <= n THEN g[i]
                                      ELSE IF i = 1 THEN s[i] ELSE g[i - 1] \o s[i]]
  <2>2. \A i \in 1..n : g[i] = IF i = 1 THEN s[i] ELSE g[i - 1] \o s[i]
    BY <2>1 DEF Joined
  <2>3. \A i \in 1..n : h[i] = g[i]
    OBVIOUS
  <2>4. ASSUME NEW i \in 1..n + 1
        PROVE  h[i] = IF i = 1 THEN s[i] ELSE h[i - 1] \o s[i]
    <3>1. CASE i <= n
      BY <2>2, <3>1
    <3>2. CASE i = n + 1 /\ i # 1
      <4>1. i - 1 \in 1..n /\ ~(i <= n)
        BY <3>2
      <4>2. h[i - 1] = g[i - 1]
        BY <2>3, <4>1
      <4> QED BY <3>2, <4>1, <4>2
    <3>3. CASE i = n + 1 /\ i = 1
      BY <3>3
    <3> QED BY <3>1, <3>2, <3>3
  <2>9. h = [i \in 1..n + 1 |-> h[i]]
    OBVIOUS
  <2>5. Joined(h, s, n + 1)
    <3> HIDE DEF h
    <3> QED BY <2>4, <2>9 DEF Joined
  <2> QED BY <2>5
<1>3. T = {}
  BY <1>1, <1>2, NothingFirst
<1> QED BY <1>3

LEMMA FlattenType ==
  ASSUME NEW S, NEW s, Len(s) \in Nat, Len(s) = 0 => s = <<>>,
         \A i \in 1..Len(s) : s[i] \in Seq(S)
  PROVE  FlattenSeq(s) \in Seq(S)
<1>1. CASE Len(s) = 0
  BY <1>1 DEF FlattenSeq
<1>2. CASE Len(s) # 0
  <2> DEFINE f == CHOOSE g : Joined(g, s, Len(s))
  <2>1. Joined(f, s, Len(s))
    BY JoinedExists
  <2>2. FlattenSeq(s) = f[Len(s)]
    BY <1>2 DEF FlattenSeq, Joined
  <2> HIDE DEF f
  <2>3. \A i \in 1..Len(s) : f[i] = IF i = 1 THEN s[i] ELSE f[i - 1] \o s[i]
    BY <2>1 DEF Joined
  <2> DEFINE T == {n \in Nat : n + 1 <= Len(s) /\ f[n + 1] \notin Seq(S)}
  <2>4. 0 \notin T
    BY <1>2, <2>3
  <2>5. ASSUME NEW n \in Nat, n \notin T PROVE n + 1 \notin T
    <3> SUFFICES ASSUME n + 2 <= Len(s) PROVE f[n + 2] \in Seq(S)
      OBVIOUS
    <3>1. f[n + 1] \in Seq(S) /\ s[n + 2] \in Seq(S)
      BY <2>5
    <3>2. n + 2 \in 1..Len(s) /\ n + 2 # 1 /\ (n + 2) - 1 = n + 1
      OBVIOUS
    <3>3. f[n + 2] = f[n + 1] \o s[n + 2]
      BY <2>3, <3>2
    <3> QED BY <3>1, <3>3, ConcatProperties
  <2>6. T = {}
    <3> HIDE DEF T
    <3>1. T \in SUBSET Nat
      BY DEF T
    <3> QED BY <2>4, <2>5, <3>1, NothingFirst
  <2>7. Len(s) - 1 \in Nat /\ (Len(s) - 1) + 1 = Len(s)
    BY <1>2
  <2>8. Len(s) - 1 \notin T
    BY <2>6
  <2> QED BY <2>2, <2>7, <2>8
<1> QED BY <1>1, <1>2

-----------------------------------------------------------------------------
(* The ring.                                                                 *)

\* The place k slots after h, without the remainder.
Place(h, k) == IF h + k < DesktopCap THEN h + k ELSE h + k - DesktopCap
Index == 0..DesktopCap - 1

LEMMA Remainder ==
  ASSUME NEW c \in Nat, c > 0, NEW x \in 0..c - 1
  PROVE  x % c = x /\ (x + c) % c = x
<1>1. /\ (x + c) % c \in 0..c - 1
      /\ (x + c) \div c \in Int
      /\ x + c = c * ((x + c) \div c) + ((x + c) % c)
  OBVIOUS
<1>2. PICK d \in Int : x + c = c * d + ((x + c) % c)
  BY <1>1
<1>3. (d =< 0 => c * d =< 0) /\ (d >= 2 => c * d >= 2 * c)
  OBVIOUS
<1>4. d = 1
  BY <1>1, <1>2, <1>3
<1> QED BY <1>1, <1>2, <1>4

LEMMA Wraps ==
  ASSUME NEW h \in Index, NEW k \in 0..DesktopCap
  PROVE  /\ (h + k) % DesktopCap = Place(h, k)
         /\ Place(h, k) \in Index
<1>1. DesktopCap \in Nat /\ DesktopCap > 0
  BY DtSizesOK
<1>2. CASE h + k < DesktopCap
  BY <1>1, <1>2 DEF Place, Index
<1>3. CASE h + k >= DesktopCap
  <2>1. h + k - DesktopCap \in 0..DesktopCap - 1
    BY <1>1, <1>3 DEF Index
  <2>2. (h + k) % DesktopCap = h + k - DesktopCap
    <3>1. (h + k - DesktopCap) + DesktopCap = h + k
      BY <1>1 DEF Index
    <3> QED BY <1>1, <2>1, <3>1, Remainder
  <2> QED BY <1>1, <1>3, <2>1, <2>2 DEF Place, Index
<1> QED BY <1>1, <1>2, <1>3 DEF Index

LEMMA Slots ==
  ASSUME NEW h \in Index, NEW k \in 0..DesktopCap - 1
  PROVE  /\ Place(h, k) \in Index
         /\ Place(h, k + 1) \in Index
         /\ Place(Place(h, k), 1) = Place(h, k + 1)
         /\ Place(Place(h, 1), k) = Place(h, k + 1)
         /\ \A j \in 0..DesktopCap - 1 : Place(h, j) = Place(h, k) => j = k
BY DtSizesOK DEF Place, Index

\* The slots of a queue, its places and its number.
QueueOk(q) ==
  q \in [ring : [Index -> Message], head : Index, tail : Index, count : Int]

\* Of the messages p the queue holds the last ones, all but the s first, in order.
Holds(q, p, s) ==
  /\ QueueOk(q) /\ p \in Seq(Message) /\ s \in {0, 1}
  /\ q.count = Len(p) /\ s =< q.count /\ q.count =< DesktopCap
  /\ \A k \in s + 1..q.count : p[k] = q.ring[Place(q.head, k - 1 - s)]
  /\ \A i, j \in s + 1..q.count : p[i].kind = "PAINT" /\ p[i] = p[j] => i = j

EndsAt(q, n) == q.tail = Place(q.head, n)

LEMMA PostKeepsType ==
  ASSUME QueueCap = DesktopCap, NEW q, NEW p, NEW m \in Message, QueueOk(q), p \in Seq(Message)
  PROVE  LET r == Post([queue |-> q, posted |-> p], m) IN
         QueueOk(r.queue) /\ r.posted \in Seq(Message)
<1> DEFINE r == Post([queue |-> q, posted |-> p], m)
<1>1. CASE Dropped(q, m)
  BY <1>1 DEF Post
<1>2. CASE ~Dropped(q, m)
  <2>1. /\ r.queue = [ring |-> [q.ring EXCEPT ![q.tail] = m], head |-> q.head,
                     tail |-> After(q.tail), count |-> q.count + 1]
        /\ r.posted = Append(p, m)
    BY <1>2 DEF Post
  <2>2. After(q.tail) \in Index
    <3>1. q.tail \in Index /\ 1 \in 0..DesktopCap
      BY DtSizesOK DEF QueueOk
    <3> QED BY <3>1, Wraps DEF After
  <2>3. QueueOk(r.queue)
    BY <2>1, <2>2 DEF QueueOk
  <2> QED BY <2>1, <2>3, AppendProperties
<1> QED BY <1>1, <1>2

\* A message that is not dropped goes behind the others, and a second WM_PAINT is dropped.
LEMMA PostHolds ==
  ASSUME QueueCap = DesktopCap, NEW q, NEW p, NEW s, NEW m \in Message,
         Holds(q, p, s), EndsAt(q, q.count - s)
  PROVE  LET r == Post([queue |-> q, posted |-> p], m) IN
         /\ Holds(r.queue, r.posted, s) /\ EndsAt(r.queue, r.queue.count - s)
         /\ r.queue.count >= q.count
         /\ q.count > 0 => r.posted[1] = p[1]
<1> DEFINE r == Post([queue |-> q, posted |-> p], m)
           n == q.count
<1>1. CASE Dropped(q, m)
  <2>1. r.queue = q /\ r.posted = p
    BY <1>1 DEF Post
  <2>2. q.count \in Int
    BY DEF Holds, QueueOk
  <2> HIDE DEF r
  <2> QED BY <2>1, <2>2 DEF r
<1>2. CASE ~Dropped(q, m)
  <2>1. /\ r.queue = [ring |-> [q.ring EXCEPT ![q.tail] = m], head |-> q.head,
                     tail |-> After(q.tail), count |-> q.count + 1]
        /\ r.posted = Append(p, m)
    BY <1>2 DEF Post
  <2>2. /\ QueueOk(q) /\ p \in Seq(Message) /\ s \in {0, 1} /\ n = Len(p) /\ n \in Nat
        /\ s =< n /\ n < DesktopCap /\ DesktopCap \in Nat \ {0}
        /\ q.head \in Index /\ q.tail \in Index
        /\ q.tail = Place(q.head, n - s)
    BY <1>2, DtSizesOK, LenProperties DEF Holds, QueueOk, Dropped, EndsAt
  <2> HIDE DEF r, n
  <2>3. n = q.count
    BY DEF n
  <2>4. After(q.tail) = Place(q.head, n + 1 - s)
    <3>1. After(q.tail) = Place(q.tail, 1)
      BY <2>2, Wraps DEF After
    <3>2. n - s \in 0..DesktopCap - 1 /\ (n - s) + 1 = n + 1 - s
      BY <2>2
    <3> QED BY <2>2, <3>1, <3>2, Slots
  <2>5. After(q.tail) \in Index
    <3>1. 1 \in 0..DesktopCap
      BY <2>2
    <3> QED BY <2>2, <3>1, Wraps DEF After
  <2>6. /\ r.queue.head = q.head /\ r.queue.count = n + 1
        /\ r.queue.tail = After(q.tail)
        /\ r.queue.ring = [q.ring EXCEPT ![q.tail] = m]
        /\ QueueOk(r.queue)
    <3>1. /\ r.queue.head = q.head /\ r.queue.tail = After(q.tail) /\ r.queue.count = n + 1
          /\ r.queue.ring = [q.ring EXCEPT ![q.tail] = m]
      BY <2>1, <2>3
    <3>2. [q.ring EXCEPT ![q.tail] = m] \in [Index -> Message]
      <4>1. q.ring \in [Index -> Message]
        BY <2>2 DEF QueueOk
      <4> QED BY <4>1
    <3>3. n + 1 \in Int
      BY <2>2
    <3>4. r.queue = [ring |-> [q.ring EXCEPT ![q.tail] = m], head |-> q.head,
                     tail |-> After(q.tail), count |-> n + 1]
      BY <2>1, <2>3
    <3> QED BY ONLY <2>2, <2>5, <3>1, <3>2, <3>3, <3>4 DEF QueueOk
  <2>7. /\ r.posted \in Seq(Message) /\ Len(r.posted) = n + 1 /\ r.posted[n + 1] = m
        /\ \A k \in 1..n : r.posted[k] = p[k]
    BY <2>1, <2>2, AppendProperties
  <2>8. ASSUME NEW k \in s + 1..n
        PROVE  /\ r.posted[k] = p[k]
               /\ p[k] = q.ring[Place(q.head, k - 1 - s)]
               /\ Place(q.head, k - 1 - s) # q.tail
               /\ Place(q.head, k - 1 - s) \in Index
    <3>1. k \in 1..n /\ k - 1 - s \in 0..DesktopCap - 1 /\ n - s \in 0..DesktopCap - 1
          /\ k - 1 - s # n - s
      BY <2>2
    <3>2. p[k] = q.ring[Place(q.head, k - 1 - s)]
      BY <2>3 DEF Holds
    <3>3. /\ Place(q.head, k - 1 - s) # Place(q.head, n - s)
          /\ Place(q.head, k - 1 - s) \in Index
      BY <2>2, <3>1, Slots
    <3> QED BY <2>2, <2>7, <3>1, <3>2, <3>3
  <2>9. \A k \in s + 1..n + 1 : r.posted[k] = r.queue.ring[Place(q.head, k - 1 - s)]
    <3> TAKE k \in s + 1..n + 1
    <3>1. CASE k \in s + 1..n
      BY <2>2, <2>6, <2>8, <3>1 DEF QueueOk
    <3>2. CASE k = n + 1
      <4>1. k - 1 - s = n - s
        BY <2>2, <3>2
      <4> QED BY <2>2, <2>6, <2>7, <3>2, <4>1 DEF QueueOk
    <3> QED BY <2>2, <3>1, <3>2
  <2>10. ASSUME NEW k \in s + 1..n, m.kind = "PAINT" PROVE p[k] # m
    <3>1. ~PaintQueued(q, m.to)
      BY <1>2, <2>10 DEF Dropped
    <3>2. m = Paint(m.to)
      BY <2>10 DEF Message, Paint
    <3>3. k - 1 - s \in 0..q.count - 1 /\ k - 1 - s \in 0..DesktopCap
      BY <2>2, <2>3
    <3>4. (q.head + (k - 1 - s)) % DesktopCap = Place(q.head, k - 1 - s)
      BY <2>2, <3>3, Wraps
    <3>5. q.ring[(q.head + (k - 1 - s)) % QueueCap] # Paint(m.to)
      BY <3>1, <3>3 DEF PaintQueued
    <3> QED BY <2>8, <3>2, <3>4, <3>5
  <2>11. \A i, j \in s + 1..n + 1 :
           r.posted[i].kind = "PAINT" /\ r.posted[i] = r.posted[j] => i = j
    <3> SUFFICES ASSUME NEW i \in s + 1..n + 1, NEW j \in s + 1..n + 1,
                        r.posted[i].kind = "PAINT", r.posted[i] = r.posted[j]
                 PROVE  i = j
      OBVIOUS
    <3>1. CASE i \in s + 1..n /\ j \in s + 1..n
      BY <2>3, <2>8, <3>1 DEF Holds
    <3>2. CASE i \in s + 1..n /\ j = n + 1
      BY <2>7, <2>8, <2>10, <3>2
    <3>3. CASE i = n + 1 /\ j \in s + 1..n
      BY <2>7, <2>8, <2>10, <3>3
    <3> QED BY <2>2, <3>1, <3>2, <3>3
  <2>12. Holds(r.queue, r.posted, s)
    BY <2>2, <2>6, <2>7, <2>9, <2>11 DEF Holds
  <2>13. EndsAt(r.queue, r.queue.count - s)
    BY <2>2, <2>4, <2>6 DEF EndsAt
  <2>14. n > 0 => r.posted[1] = p[1]
    BY <2>2, <2>7
  <2> QED BY <2>2, <2>3, <2>6, <2>12, <2>13, <2>14 DEF r
<1> QED BY <1>1, <1>2

\* What a list of messages leaves in the queue, one after the other.
Series(g, ms, n) ==
  g = [i \in 0..n |-> IF i = 0 THEN [queue |-> queue, posted |-> posted]
                      ELSE Post(g[i - 1], ms[i])]

LEMMA PostsExist ==
  ASSUME NEW ms
  PROVE  \A n \in Nat : \E g : Series(g, ms, n)
<1> DEFINE T == {n \in Nat : ~ \E g : Series(g, ms, n)}
<1>1. 0 \notin T
  <2>1. Series([i \in 0..0 |-> [queue |-> queue, posted |-> posted]], ms, 0)
    BY DEF Series
  <2> QED BY <2>1
<1>2. ASSUME NEW n \in Nat, n \notin T PROVE n + 1 \notin T
  <2>1. PICK g : Series(g, ms, n)
    BY <1>2
  <2> DEFINE h == [i \in 0..n + 1 |-> IF i <= n THEN g[i] ELSE Post(g[n], ms[n + 1])]
  <2>2. \A i \in 0..n : g[i] = IF i = 0 THEN [queue |-> queue, posted |-> posted]
                                ELSE Post(g[i - 1], ms[i])
    BY <2>1 DEF Series
  <2>3. \A i \in 0..n : h[i] = g[i]
    OBVIOUS
  <2>4. ASSUME NEW i \in 0..n + 1
        PROVE  h[i] = IF i = 0 THEN [queue |-> queue, posted |-> posted]
                      ELSE Post(h[i - 1], ms[i])
    <3>1. CASE i = 0
      BY <2>2, <3>1
    <3>2. CASE i \in 1..n
      <4>1. i - 1 \in 0..n /\ i \in 0..n /\ i # 0
        BY <3>2
      <4> HIDE DEF h
      <4> QED BY <2>2, <2>3, <4>1
    <3>3. CASE i = n + 1
      <4>1. i - 1 = n /\ n \in 0..n /\ ~(i <= n) /\ i # 0
        BY <3>3
      <4>2. h[i - 1] = g[n]
        BY <2>3, <4>1
      <4> QED BY <3>3, <4>1, <4>2
    <3> QED BY <3>1, <3>2, <3>3
  <2>5. h = [i \in 0..n + 1 |-> h[i]]
    OBVIOUS
  <2>6. Series(h, ms, n + 1)
    <3> HIDE DEF h
    <3> QED BY <2>4, <2>5 DEF Series
  <2> QED BY <2>6
<1>3. T = {}
  BY <1>1, <1>2, NothingFirst
<1> QED BY <1>3

\* A list of messages keeps what each of them keeps.
LEMMA PostAllHolds ==
  ASSUME QueueCap = DesktopCap, NEW ms \in Seq(Message), QueueOk(queue), posted \in Seq(Message)
  PROVE  /\ QueueOk(PostAll(ms).queue) /\ PostAll(ms).posted \in Seq(Message)
         /\ \A s \in {0, 1} : Holds(queue, posted, s) /\ EndsAt(queue, queue.count - s) =>
              LET r == PostAll(ms) IN
              /\ Holds(r.queue, r.posted, s) /\ EndsAt(r.queue, r.queue.count - s)
              /\ r.queue.count >= queue.count
              /\ queue.count > 0 => r.posted[1] = posted[1]
<1>1. Len(ms) \in Nat /\ \A i \in 1..Len(ms) : ms[i] \in Message
  BY LenProperties, ElementOfSeq
<1> DEFINE f == CHOOSE g : Series(g, ms, Len(ms))
<1>2. Series(f, ms, Len(ms))
  BY <1>1, PostsExist
<1>3. PostAll(ms) = f[Len(ms)]
  BY DEF PostAll, Series
<1> HIDE DEF f
<1>4. f[0] = [queue |-> queue, posted |-> posted]
  BY <1>1, <1>2 DEF Series
<1>5. ASSUME NEW n \in Nat, n + 1 =< Len(ms)
      PROVE  f[n + 1] = Post(f[n], ms[n + 1])
  <2>1. n + 1 \in 0..Len(ms) /\ n + 1 # 0 /\ (n + 1) - 1 = n
    BY <1>1, <1>5
  <2> QED BY <2>1, <1>2 DEF Series
<1> DEFINE Kept(r, s) == /\ Holds(r.queue, r.posted, s) /\ EndsAt(r.queue, r.queue.count - s)
                         /\ r.queue.count >= queue.count
                         /\ queue.count > 0 => r.posted[1] = posted[1]
           Fits(r) == /\ r = [queue |-> r.queue, posted |-> r.posted]
                      /\ QueueOk(r.queue) /\ r.posted \in Seq(Message)
                      /\ \A s \in {0, 1} :
                           Holds(queue, posted, s) /\ EndsAt(queue, queue.count - s) => Kept(r, s)
           T == {n \in Nat : n =< Len(ms) /\ ~Fits(f[n])}
<1>6. queue.count \in Int
  BY DEF QueueOk
<1>7. Fits(f[0])
  BY <1>4, <1>6
<1>8. ASSUME NEW r, NEW m \in Message, Fits(r) PROVE Fits(Post(r, m))
  <2> DEFINE q == r.queue
             p == r.posted
  <2>1. r = [queue |-> q, posted |-> p] /\ QueueOk(q) /\ p \in Seq(Message)
    BY <1>8
  <2>2. Post(r, m) = [queue |-> Post(r, m).queue, posted |-> Post(r, m).posted]
    BY <2>1 DEF Post
  <2>3. QueueOk(Post(r, m).queue) /\ Post(r, m).posted \in Seq(Message)
    <3> HIDE DEF q, p
    <3> QED BY <2>1, PostKeepsType
  <2>4. ASSUME NEW s \in {0, 1}, Kept(r, s) PROVE Kept(Post(r, m), s)
    <3>1. Holds(q, p, s) /\ EndsAt(q, q.count - s) /\ q.count >= queue.count
          /\ (queue.count > 0 => p[1] = posted[1]) /\ q.count \in Int
      BY <2>4, <2>1 DEF QueueOk
    <3>2. /\ Holds(Post(r, m).queue, Post(r, m).posted, s)
          /\ EndsAt(Post(r, m).queue, Post(r, m).queue.count - s)
          /\ Post(r, m).queue.count >= q.count
          /\ q.count > 0 => Post(r, m).posted[1] = p[1]
      <4>1. Post(r, m) = Post([queue |-> q, posted |-> p], m)
        BY <2>1
      <4>2. LET b == Post([queue |-> q, posted |-> p], m) IN
            /\ Holds(b.queue, b.posted, s) /\ EndsAt(b.queue, b.queue.count - s)
            /\ b.queue.count >= q.count
            /\ q.count > 0 => b.posted[1] = p[1]
        <5> HIDE DEF q, p
        <5> QED BY <3>1, PostHolds, ZenonT(60)
      <4> HIDE DEF q, p
      <4> QED BY <4>1, <4>2
    <3>3. Post(r, m).queue.count \in Int
      BY <2>3 DEF QueueOk
    <3> HIDE DEF q, p
    <3> QED BY <1>6, <3>1, <3>2, <3>3
  <2> HIDE DEF Kept
  <2> QED BY <1>8, <2>2, <2>3, <2>4
<1>9. ASSUME NEW n \in Nat, n \notin T PROVE n + 1 \notin T
  <2> SUFFICES ASSUME n + 1 =< Len(ms) PROVE Fits(f[n + 1])
    OBVIOUS
  <2>1. Fits(f[n])
    <3> HIDE DEF Fits
    <3> QED BY <1>1, <1>9
  <2>2. ms[n + 1] \in Message
    BY <1>1
  <2> HIDE DEF Fits
  <2> QED BY <1>5, <1>8, <2>1, <2>2
<1>10. T = {}
  <2> HIDE DEF Fits
  <2>1. T \in SUBSET Nat /\ 0 \notin T
    BY <1>7
  <2> HIDE DEF T
  <2> QED BY <1>9, <2>1, NothingFirst
<1>11. Fits(f[Len(ms)])
  <2> HIDE DEF Fits
  <2> QED BY <1>1, <1>10
<1> QED BY <1>3, <1>11

-----------------------------------------------------------------------------
(* The loop of NtUserGetMessage over the ring.                               *)

\* How many of the messages in the list have left the ring, but not its count.
Copied == IF At("advanced") THEN 1 ELSE 0
Quiet == PumpPlace \ {"taken", "advanced", "store", "tail", "count"}
Writing == {"store", "tail", "count"}

\* The ring holds what was posted; the message being returned is the first of
\* them, and one that the tablet writes is in the slot behind the last.
PumpFifo ==
  /\ Holds(queue, posted, Copied)
  /\ EndsAt(queue, IF At("count") THEN queue.count + 1 ELSE queue.count - Copied)
  /\ At("taken") \/ At("advanced") => queue.count > 0 /\ pump.msg = posted[1]
  /\ pump.at \in Writing => queue.count < DesktopCap /\ pump.msg = Move
  /\ At("tail") \/ At("count") => queue.ring[Place(queue.head, queue.count)] = pump.msg

QueueInv ==
  /\ QueueOk(queue) /\ posted \in Seq(Message)
  /\ pump \in [at : PumpPlace, msg : Message]
  /\ overtaken \in BOOLEAN
  /\ ~overtaken => PumpFifo

LEMMA CapIs == QueueOk(queue) => QueueCap = DesktopCap /\ DOMAIN queue.ring = 0..QueueCap - 1
<1> SUFFICES ASSUME QueueOk(queue) PROVE QueueCap = DesktopCap /\ DOMAIN queue.ring = Index
  BY DEF Index
<1>1. DOMAIN queue.ring = Index
  BY DEF QueueOk
<1>2. Cardinality(0..DesktopCap - 1) = DesktopCap
  BY DtSizesOK, FS_Interval
<1> QED BY <1>1, <1>2 DEF QueueCap, Index

LEMMA MessageTypes ==
  /\ Other \in Message /\ Quit \in Message /\ Move \in Message
  /\ \A w \in Nat : Paint(w) \in Message
BY DEF Other, Quit, Move, Paint, Message

\* Nothing posted, nothing changed.
LEMMA PostNothing == PostAll(<<>>) = [queue |-> queue, posted |-> posted]
<1> DEFINE f == CHOOSE g : Series(g, <<>>, 0)
<1>1. Len(<<>>) = 0
  BY EmptySeq
<1>2. Series(f, <<>>, 0)
  BY PostsExist
<1>3. PostAll(<<>>) = f[0]
  BY <1>1 DEF PostAll, Series
<1> HIDE DEF f
<1> QED BY <1>2, <1>3 DEF Series

\* Messages posted while the queue is not being popped, or between the steps that
\* pop it, keep it; between the steps of the tablet nothing may be posted.
LEMMA PostsKept ==
  ASSUME QueueInv, ~overtaken, NEW ms \in Seq(Message), Posts(ms), overtaken' \in BOOLEAN,
         pump.at \in Writing /\ ms # <<>> => overtaken',
         \/ pump' = pump
         \/ pump.at \in Quiet /\ pump' \in [at : PumpPlace, msg : Message] /\ pump'.at \in Quiet
  PROVE  QueueInv'
<1>1. QueueOk(queue) /\ posted \in Seq(Message) /\ QueueCap = DesktopCap /\ PumpFifo
      /\ pump \in [at : PumpPlace, msg : Message] /\ pump' \in [at : PumpPlace, msg : Message]
  BY CapIs DEF QueueInv
<1>2. QueueOk(queue') /\ posted' \in Seq(Message)
  BY <1>1, PostAllHolds DEF Posts
<1>3. CASE pump.at \in Writing
  <2> SUFFICES ASSUME ms = <<>> PROVE QueueInv'
    BY <1>1, <1>2, <1>3 DEF QueueInv
  <2>1. queue' = queue /\ posted' = posted /\ pump' = pump
    BY <1>3, PostNothing DEF Posts, Quiet, Writing
  <2>2. PumpFifo'
    BY <1>1, <2>1 DEF PumpFifo, At, Copied, Holds, EndsAt, QueueOk
  <2> QED BY <1>1, <1>2, <2>2 DEF QueueInv
<1>4. CASE pump.at \notin Writing
  <2>1. Copied \in {0, 1} /\ Copied' = Copied
    BY DEF Copied, At, Quiet
  <2>2. Holds(queue, posted, Copied) /\ EndsAt(queue, queue.count - Copied)
    BY <1>1, <1>4 DEF PumpFifo, At, Writing
  <2>3. /\ Holds(queue', posted', Copied) /\ EndsAt(queue', queue'.count - Copied)
        /\ queue'.count >= queue.count
        /\ queue.count > 0 => posted'[1] = posted[1]
    BY <1>1, <2>1, <2>2, PostAllHolds DEF Posts
  <2>4. pump'.at \notin Writing /\ (pump'.at \in {"taken", "advanced"} => pump' = pump)
    BY <1>4 DEF Writing, Quiet
  <2>5. queue.count \in Int /\ queue'.count \in Int
    BY <1>1, <1>2 DEF QueueOk
  <2>6. (At("taken") \/ At("advanced") => queue.count > 0 /\ pump.msg = posted[1])'
    BY <1>1, <2>3, <2>4, <2>5 DEF PumpFifo, At
  <2>7. ~At("count")' /\ ~At("tail")'
    BY <2>4 DEF At, Writing
  <2>8. PumpFifo'
    BY <2>1, <2>3, <2>4, <2>6, <2>7 DEF PumpFifo
  <2> QED BY <1>1, <1>2, <2>8 DEF QueueInv
<1> QED BY <1>3, <1>4

\* queue_pop in two: the head moves on, then the count goes down.
LEMMA HeadAdvances ==
  ASSUME QueueCap = DesktopCap, NEW q, NEW p, Holds(q, p, 0), EndsAt(q, q.count), q.count > 0,
         NEW r, r = [q EXCEPT !.head = After(@)]
  PROVE  Holds(r, p, 1) /\ EndsAt(r, r.count - 1)
<1>1. /\ QueueOk(q) /\ p \in Seq(Message) /\ q.count = Len(p) /\ q.count \in 1..DesktopCap
      /\ q.head \in Index /\ DesktopCap \in Nat \ {0} /\ q.tail = Place(q.head, q.count)
  BY DtSizesOK DEF Holds, QueueOk, EndsAt
<1>2. After(q.head) = Place(q.head, 1) /\ After(q.head) \in Index
  BY <1>1, Wraps DEF After
<1>3. /\ QueueOk(r) /\ r.head = Place(q.head, 1) /\ r.tail = q.tail /\ r.count = q.count
      /\ r.ring = q.ring
  BY <1>1, <1>2 DEF QueueOk
<1>4. ASSUME NEW j \in 1..q.count PROVE Place(r.head, j - 1) = Place(q.head, j)
  <2>1. j - 1 \in 0..DesktopCap - 1 /\ (j - 1) + 1 = j
    BY <1>1
  <2> QED BY <1>1, <1>3, <2>1, Slots
<1>5. \A k \in 2..r.count : p[k] = r.ring[Place(r.head, k - 1 - 1)]
  <2> TAKE k \in 2..r.count
  <2>1. k \in 1..q.count /\ k - 1 \in 1..q.count
    BY <1>1, <1>3
  <2>2. p[k] = q.ring[Place(q.head, k - 1)]
    BY <2>1 DEF Holds
  <2> QED BY <1>3, <1>4, <2>1, <2>2
<1>6. \A i, j \in 2..r.count : p[i].kind = "PAINT" /\ p[i] = p[j] => i = j
  BY <1>1, <1>3 DEF Holds
<1>7. EndsAt(r, r.count - 1)
  BY <1>1, <1>3, <1>4 DEF EndsAt
<1> QED BY <1>1, <1>3, <1>5, <1>6, <1>7 DEF Holds

LEMMA CountFalls ==
  ASSUME NEW q, NEW p, Holds(q, p, 1), EndsAt(q, q.count - 1),
         NEW r, r = [q EXCEPT !.count = @ - 1]
  PROVE  Holds(r, Tail(p), 0) /\ EndsAt(r, r.count)
<1>1. /\ QueueOk(q) /\ p \in Seq(Message) /\ q.count = Len(p) /\ q.count \in 1..DesktopCap
      /\ DesktopCap \in Nat \ {0} /\ p # <<>>
  BY DtSizesOK, EmptySeq, LenProperties DEF Holds, QueueOk
<1>2. /\ QueueOk(r) /\ r.head = q.head /\ r.tail = q.tail /\ r.count = q.count - 1
      /\ r.ring = q.ring
  BY <1>1 DEF QueueOk
<1>3. /\ Tail(p) \in Seq(Message) /\ Len(Tail(p)) = q.count - 1
      /\ \A i \in 1..q.count - 1 : Tail(p)[i] = p[i + 1]
  BY <1>1, HeadTailProperties
<1>4. \A k \in 1..r.count : Tail(p)[k] = r.ring[Place(r.head, k - 1)]
  <2> TAKE k \in 1..r.count
  <2>1. k + 1 \in 2..q.count /\ k + 1 - 1 - 1 = k - 1 /\ k \in 1..q.count - 1
    BY <1>1, <1>2
  <2>2. p[k + 1] = q.ring[Place(q.head, k + 1 - 1 - 1)]
    BY <2>1 DEF Holds
  <2> QED BY <1>2, <1>3, <2>1, <2>2
<1>5. \A i, j \in 1..r.count : Tail(p)[i].kind = "PAINT" /\ Tail(p)[i] = Tail(p)[j] => i = j
  <2> SUFFICES ASSUME NEW i \in 1..r.count, NEW j \in 1..r.count,
                      p[i + 1].kind = "PAINT", p[i + 1] = p[j + 1]
               PROVE  i = j
    BY <1>2, <1>3
  <2>1. i + 1 \in 2..q.count /\ j + 1 \in 2..q.count
    BY <1>1, <1>2
  <2>2. i + 1 = j + 1
    BY <2>1 DEF Holds
  <2> QED BY <1>1, <1>2, <2>2
<1>6. EndsAt(r, r.count)
  BY <1>2 DEF EndsAt
<1>7. r.count = Len(Tail(p)) /\ 0 =< r.count /\ r.count =< DesktopCap
  BY <1>1, <1>2, <1>3
<1> QED BY <1>2, <1>3, <1>4, <1>5, <1>6, <1>7 DEF Holds

\* Ring 3 takes a message at once.
LEMMA GetMessageKept ==
  ASSUME QueueInv, ~overtaken, GetMessage
  PROVE  QueueInv'
<1>1. /\ QueueOk(queue) /\ posted \in Seq(Message) /\ QueueCap = DesktopCap /\ PumpFifo
      /\ pump \in [at : PumpPlace, msg : Message] /\ At("app") /\ queue.count > 0
  BY CapIs DEF QueueInv, GetMessage
<1>2. Holds(queue, posted, 0) /\ EndsAt(queue, queue.count)
  <2>1. Copied = 0 /\ ~At("count") /\ queue.count - 0 = queue.count
    BY <1>1 DEF Copied, At, QueueOk
  <2> QED BY <1>1, <2>1 DEF PumpFifo
<1> DEFINE q == [queue EXCEPT !.head = After(@)]
           r == [q EXCEPT !.count = @ - 1]
<1>3. Holds(q, posted, 1) /\ EndsAt(q, q.count - 1)
  BY <1>1, <1>2, HeadAdvances
<1>4. Holds(r, Tail(posted), 0) /\ EndsAt(r, r.count)
  <2> HIDE DEF q
  <2> QED BY <1>3, CountFalls
<1>5. queue' = r /\ posted' = Tail(posted)
  BY <1>1 DEF GetMessage, QueueOk
<1>6. pump'.at \in {"app", "ended"} /\ pump' \in [at : PumpPlace, msg : Message]
  BY MessageTypes DEF GetMessage, Returns, PumpPlace
<1> HIDE DEF r
<1>7. PumpFifo'
  <2>1. Copied' = 0 /\ ~At("count")' /\ ~At("tail")' /\ ~At("taken")' /\ ~At("advanced")'
        /\ pump'.at \notin Writing
    BY <1>6 DEF Copied, At, Writing
  <2>2. r.count - 0 = r.count
    BY <1>4 DEF Holds, QueueOk
  <2> QED BY <1>4, <1>5, <2>1, <2>2 DEF PumpFifo
<1> QED BY <1>4, <1>5, <1>6, <1>7 DEF QueueInv, GetMessage, Holds

\* A step that moves the thread to another place and leaves the queue alone.
LEMMA MovesKept ==
  ASSUME QueueInv, ~overtaken, pump.at \in Quiet,
         pump' \in [at : PumpPlace, msg : Message], pump'.at \in Quiet,
         UNCHANGED <<queue, posted, overtaken>>
  PROVE  QueueInv'
<1>1. QueueOk(queue) /\ posted \in Seq(Message) /\ PumpFifo
  BY DEF QueueInv
<1>2. PumpFifo'
  BY <1>1 DEF PumpFifo, Quiet, Writing, At, Copied
<1> QED BY <1>2 DEF QueueInv

\* The steps of queue_pop with interrupts on.
LEMMA PopKept ==
  ASSUME QueueInv, ~overtaken, PopTakes \/ PopAdvances \/ PopReturns
  PROVE  QueueInv'
<1>1. /\ QueueOk(queue) /\ posted \in Seq(Message) /\ QueueCap = DesktopCap /\ PumpFifo
      /\ pump \in [at : PumpPlace, msg : Message] /\ queue.count \in Int
  BY CapIs DEF QueueInv, QueueOk
<1>2. CASE PopTakes
  <2>1. /\ pump'.at = "taken" /\ pump'.msg = queue.ring[queue.head] /\ At("check")
        /\ queue.count > 0 /\ UNCHANGED <<queue, posted, overtaken>>
    BY <1>2 DEF PopTakes
  <2>2. /\ Holds(queue, posted, 0) /\ EndsAt(queue, queue.count - 0)
    BY <1>1, <2>1 DEF PumpFifo, Copied, At
  <2>3. posted[1] = queue.ring[queue.head] /\ posted[1] \in Message
    <3>1. Place(queue.head, 0) = queue.head /\ 1 - 1 - 0 = 0 /\ 1 \in 0 + 1..queue.count
      BY <1>1, <2>1, DtSizesOK DEF Place, Index, QueueOk
    <3>2. posted[1] = queue.ring[Place(queue.head, 1 - 1 - 0)]
      BY <2>2, <3>1 DEF Holds
    <3> QED BY <1>1, <3>1, <3>2 DEF QueueOk
  <2>4. pump' \in [at : PumpPlace, msg : Message]
    BY <1>2, <2>1, <2>3 DEF PopTakes, PumpPlace
  <2>5. PumpFifo'
    BY <2>1, <2>2, <2>3 DEF PumpFifo, Copied, At, Writing
  <2> QED BY <1>1, <2>1, <2>4, <2>5 DEF QueueInv
<1>3. CASE PopAdvances
  <2>1. /\ pump.at = "taken" /\ pump' = [pump EXCEPT !.at = "advanced"]
        /\ UNCHANGED <<posted, overtaken>>
    BY <1>3 DEF PopAdvances, At, Goes
  <2>2. /\ Holds(queue, posted, 0) /\ EndsAt(queue, queue.count) /\ queue.count > 0
        /\ pump.msg = posted[1]
    BY <1>1, <2>1 DEF PumpFifo, Copied, At
  <2>3. Holds(queue', posted, 1) /\ EndsAt(queue', queue'.count - 1)
    BY <1>1, <1>3, <2>2, HeadAdvances DEF PopAdvances
  <2>4. pump' \in [at : PumpPlace, msg : Message] /\ pump'.at = "advanced" /\ pump'.msg = pump.msg
    BY <1>1, <2>1 DEF PumpPlace
  <2>5. QueueOk(queue') /\ queue'.count > 0
    BY <2>3 DEF Holds, QueueOk
  <2>6. PumpFifo'
    BY <2>1, <2>2, <2>3, <2>4, <2>5 DEF PumpFifo, Copied, At, Writing
  <2> QED BY <1>1, <2>1, <2>4, <2>5, <2>6 DEF QueueInv
<1>4. CASE PopReturns
  <2>1. pump.at = "advanced" /\ UNCHANGED overtaken
    BY <1>4 DEF PopReturns, At
  <2>2. Holds(queue, posted, 1) /\ EndsAt(queue, queue.count - 1) /\ queue.count > 0
    BY <1>1, <2>1 DEF PumpFifo, Copied, At
  <2>3. posted' = Tail(posted)
    <3>1. posted # <<>>
      BY <2>2, EmptySeq DEF Holds
    <3> QED BY <1>4, <3>1 DEF PopReturns
  <2>4. Holds(queue', posted', 0) /\ EndsAt(queue', queue'.count)
    BY <1>4, <2>2, <2>3, CountFalls DEF PopReturns
  <2>5. pump' \in [at : PumpPlace, msg : Message] /\ pump'.at \in {"app", "ended"}
    BY <1>4, MessageTypes DEF PopReturns, Returns, PumpPlace
  <2>6. QueueOk(queue') /\ posted' \in Seq(Message) /\ queue'.count - 0 = queue'.count
    BY <2>4 DEF Holds, QueueOk
  <2>7. PumpFifo'
    BY <2>4, <2>5, <2>6 DEF PumpFifo, Copied, At, Writing
  <2> QED BY <1>1, <2>1, <2>5, <2>6, <2>7 DEF QueueInv
<1> QED BY <1>2, <1>3, <1>4

\* The steps of queue_post when the tablet is polled with interrupts on.
LEMMA TabletKept ==
  ASSUME QueueInv, ~overtaken, TabletPosts(Move) \/ TabletStores \/ TabletAdvances \/ TabletCounts
  PROVE  QueueInv'
<1>1. /\ QueueOk(queue) /\ posted \in Seq(Message) /\ QueueCap = DesktopCap /\ PumpFifo
      /\ pump \in [at : PumpPlace, msg : Message] /\ queue.count \in Int
      /\ DesktopCap \in Nat \ {0} /\ queue.head \in Index /\ queue.tail \in Index
      /\ Move \in Message
  BY CapIs, DtSizesOK, MessageTypes DEF QueueInv, QueueOk
<1>2. CASE TabletPosts(Move)
  <2>1. /\ pump.at = "poll" /\ pump' = [at |-> "store", msg |-> Move] /\ queue.count < DesktopCap
        /\ UNCHANGED <<queue, posted, overtaken>>
    BY <1>1, <1>2 DEF TabletPosts, At, Dropped
  <2>2. pump' \in [at : PumpPlace, msg : Message]
    BY <1>1, <2>1 DEF PumpPlace
  <2>3. PumpFifo'
    BY <1>1, <2>1 DEF PumpFifo, Copied, At, Writing
  <2> QED BY <1>1, <2>1, <2>2, <2>3 DEF QueueInv
<1>3. ASSUME pump.at \in Writing
      PROVE  /\ Holds(queue, posted, 0) /\ queue.count < DesktopCap /\ pump.msg = Move
             /\ queue.count \in 0..DesktopCap - 1 /\ queue.count = Len(posted)
             /\ pump.at # "count" => queue.tail = Place(queue.head, queue.count)
             /\ pump.at = "count" => queue.tail = Place(queue.head, queue.count + 1)
  <2>1. Copied = 0
    BY <1>3 DEF Copied, At, Writing
  <2>2. Holds(queue, posted, 0) /\ queue.count < DesktopCap /\ pump.msg = Move
    BY <1>1, <1>3, <2>1 DEF PumpFifo
  <2>3. queue.count \in 0..DesktopCap - 1 /\ queue.count = Len(posted)
    BY <1>1, <2>2, LenProperties DEF Holds
  <2>4. queue.count - 0 = queue.count
    BY <1>1
  <2> QED BY <1>1, <2>1, <2>2, <2>3, <2>4 DEF PumpFifo, EndsAt, At
<1>4. CASE TabletStores
  <2>1. /\ pump.at = "store" /\ pump' = [pump EXCEPT !.at = "tail"]
        /\ UNCHANGED <<posted, overtaken>>
        /\ queue' = [queue EXCEPT !.ring = [queue.ring EXCEPT ![queue.tail] = pump.msg]]
    BY <1>4 DEF TabletStores, At, Goes
  <2>2. /\ Holds(queue, posted, 0) /\ queue.count < DesktopCap /\ pump.msg = Move
        /\ queue.count \in 0..DesktopCap - 1
        /\ queue.tail = Place(queue.head, queue.count)
    BY <1>3, <2>1 DEF Writing
  <2>3. /\ QueueOk(queue') /\ queue'.head = queue.head /\ queue'.tail = queue.tail
        /\ queue'.count = queue.count /\ queue'.ring = [queue.ring EXCEPT ![queue.tail] = Move]
    BY <1>1, <2>1, <2>2 DEF QueueOk
  <2>4. pump' \in [at : PumpPlace, msg : Message] /\ pump'.at = "tail" /\ pump'.msg = pump.msg
    BY <1>1, <2>1 DEF PumpPlace
  <2>5. \A k \in 0 + 1..queue'.count : posted[k] = queue'.ring[Place(queue'.head, k - 1 - 0)]
    <3> TAKE k \in 0 + 1..queue'.count
    <3>1. k - 1 - 0 \in 0..DesktopCap - 1 /\ k - 1 - 0 # queue.count /\ k \in 0 + 1..queue.count
      BY <1>1, <2>2, <2>3
    <3>2. /\ Place(queue.head, k - 1 - 0) # Place(queue.head, queue.count)
          /\ Place(queue.head, k - 1 - 0) \in Index
      BY <1>1, <2>2, <3>1, Slots
    <3>3. posted[k] = queue.ring[Place(queue.head, k - 1 - 0)]
      BY <2>2, <3>1 DEF Holds
    <3> QED BY <1>1, <2>2, <2>3, <3>2, <3>3 DEF QueueOk
  <2>6. Holds(queue', posted', 0)
    BY <2>1, <2>2, <2>3, <2>5 DEF Holds
  <2>7. queue'.ring[Place(queue'.head, queue'.count)] = pump'.msg
    BY <1>1, <2>2, <2>3, <2>4 DEF QueueOk
  <2>8. EndsAt(queue', queue'.count - 0)
    BY <1>1, <2>2, <2>3 DEF EndsAt
  <2>9. PumpFifo'
    BY <2>2, <2>3, <2>4, <2>6, <2>7, <2>8 DEF PumpFifo, Copied, At, Writing
  <2> QED BY <1>1, <2>1, <2>3, <2>4, <2>9 DEF QueueInv
<1>5. CASE TabletAdvances
  <2>1. /\ pump.at = "tail" /\ pump' = [pump EXCEPT !.at = "count"]
        /\ UNCHANGED <<posted, overtaken>> /\ queue' = [queue EXCEPT !.tail = After(queue.tail)]
    BY <1>5 DEF TabletAdvances, At, Goes
  <2>2. /\ Holds(queue, posted, 0) /\ queue.count < DesktopCap /\ pump.msg = Move
        /\ queue.count \in 0..DesktopCap - 1
        /\ queue.tail = Place(queue.head, queue.count)
        /\ queue.ring[Place(queue.head, queue.count)] = pump.msg
    BY <1>1, <1>3, <2>1 DEF Writing, PumpFifo, At
  <2>3. After(queue.tail) = Place(queue.head, queue.count + 1) /\ After(queue.tail) \in Index
    <3>1. After(queue.tail) = Place(queue.tail, 1) /\ After(queue.tail) \in Index
      BY <1>1, Wraps DEF After
    <3> QED BY <1>1, <2>2, <3>1, Slots
  <2>4. /\ QueueOk(queue') /\ queue'.head = queue.head /\ queue'.tail = After(queue.tail)
        /\ queue'.count = queue.count /\ queue'.ring = queue.ring
    BY <1>1, <2>1, <2>3 DEF QueueOk
  <2>5. pump' \in [at : PumpPlace, msg : Message] /\ pump'.at = "count" /\ pump'.msg = pump.msg
    BY <1>1, <2>1 DEF PumpPlace
  <2>6. Holds(queue', posted', 0)
    BY <2>1, <2>2, <2>4 DEF Holds
  <2>7. EndsAt(queue', queue'.count + 1)
    BY <2>3, <2>4 DEF EndsAt
  <2>8. PumpFifo'
    BY <2>2, <2>4, <2>5, <2>6, <2>7 DEF PumpFifo, Copied, At, Writing
  <2> QED BY <1>1, <2>1, <2>4, <2>5, <2>8 DEF QueueInv
<1>6. CASE TabletCounts
  <2> DEFINE n == queue.count
  <2>1. /\ pump.at = "count" /\ pump' = [pump EXCEPT !.at = "poll"]
        /\ posted' = Append(posted, pump.msg) /\ UNCHANGED overtaken
        /\ queue' = [queue EXCEPT !.count = n + 1]
    BY <1>6 DEF TabletCounts, At, Goes
  <2>2. /\ Holds(queue, posted, 0) /\ n < DesktopCap /\ pump.msg = Move
        /\ n \in 0..DesktopCap - 1 /\ n = Len(posted)
        /\ queue.tail = Place(queue.head, n + 1)
        /\ queue.ring[Place(queue.head, n)] = Move
    BY <1>1, <1>3, <2>1 DEF Writing, PumpFifo, At
  <2>3. /\ QueueOk(queue') /\ queue'.head = queue.head /\ queue'.tail = queue.tail
        /\ queue'.count = n + 1 /\ queue'.ring = queue.ring
    <3>1. n + 1 \in Int
      BY <1>1
    <3> HIDE DEF n
    <3> QED BY <1>1, <2>1, <3>1 DEF QueueOk
  <2>4. pump' \in [at : PumpPlace, msg : Message] /\ pump'.at = "poll"
    BY <1>1, <2>1 DEF PumpPlace
  <2>5. /\ posted' \in Seq(Message) /\ Len(posted') = n + 1 /\ posted'[n + 1] = Move
        /\ \A k \in 1..n : posted'[k] = posted[k]
    BY <1>1, <2>1, <2>2, AppendProperties
  <2>6. \A k \in 0 + 1..queue'.count : posted'[k] = queue'.ring[Place(queue'.head, k - 1 - 0)]
    <3> TAKE k \in 0 + 1..queue'.count
    <3>1. CASE k \in 0 + 1..n
      BY <2>2, <2>3, <2>5, <3>1 DEF Holds
    <3>2. CASE k = n + 1
      <4>1. k - 1 - 0 = n
        BY <2>2, <3>2
      <4> QED BY <2>2, <2>3, <2>5, <3>2, <4>1
    <3> QED BY <2>2, <2>3, <3>1, <3>2
  <2>7. \A i, j \in 0 + 1..queue'.count :
          posted'[i].kind = "PAINT" /\ posted'[i] = posted'[j] => i = j
    <3> SUFFICES ASSUME NEW i \in 1..n + 1, NEW j \in 1..n + 1,
                        posted'[i].kind = "PAINT", posted'[i] = posted'[j]
                 PROVE  i = j
      BY <2>3
    <3>1. i # n + 1 /\ j # n + 1
      BY <2>5 DEF Move
    <3>2. i \in 0 + 1..n /\ j \in 0 + 1..n
      BY <2>2, <3>1
    <3> QED BY <2>2, <2>5, <3>2 DEF Holds
  <2>8. Holds(queue', posted', 0)
    <3>1. queue'.count = Len(posted') /\ 0 =< queue'.count /\ queue'.count =< DesktopCap
      BY <1>1, <2>2, <2>3, <2>5
    <3> QED BY <2>3, <2>5, <2>6, <2>7, <3>1 DEF Holds
  <2>9. EndsAt(queue', queue'.count - 0)
    BY <2>2, <2>3 DEF EndsAt
  <2>10. PumpFifo'
    BY <2>4, <2>8, <2>9 DEF PumpFifo, Copied, At, Writing
  <2> QED BY <1>1, <2>1, <2>3, <2>4, <2>5, <2>10 DEF QueueInv
<1> QED BY <1>2, <1>4, <1>5, <1>6

\* Every step of NtUserGetMessage that posts nothing, and the clock.
LEMMA PumpKept ==
  ASSUME QueueInv, ~overtaken, NEW n, GetMessage \/ Empty(n) \/ GetMessageStep \/ ClockTick
  PROVE  QueueInv'
<1>1. CASE Empty(n) \/ PollEnds \/ IdleRefresh \/ Halt \/ ClockTick
  <2>1. pump \in [at : PumpPlace, msg : Message]
    BY DEF QueueInv
  <2>2. pump.at \in Quiet
    BY <1>1 DEF Empty, PollEnds, IdleRefresh, Halt, ClockTick, At, Quiet, PumpPlace
  <2>3. PICK place \in Quiet : pump' = [pump EXCEPT !.at = place]
    BY <1>1 DEF Empty, PollEnds, IdleRefresh, Halt, ClockTick, Goes, Quiet, PumpPlace
  <2>4. UNCHANGED <<queue, posted, overtaken>>
    BY <1>1 DEF Empty, PollEnds, IdleRefresh, Halt, ClockTick
  <2>5. pump' \in [at : PumpPlace, msg : Message] /\ pump'.at \in Quiet
    BY <2>1, <2>3 DEF Quiet
  <2> QED BY <2>2, <2>4, <2>5, MovesKept
<1> QED BY <1>1, GetMessageKept, PopKept, TabletKept DEF GetMessageStep

\* What the queue promises follows.
LEMMA QueuePromises ==
  ASSUME QueueInv
  PROVE  MqTypeOK /\ QueueIsFifo /\ PaintsCoalesced
<1>1. /\ QueueOk(queue) /\ posted \in Seq(Message) /\ QueueCap = DesktopCap
      /\ DOMAIN queue.ring = 0..QueueCap - 1 /\ DOMAIN queue.ring = Index
      /\ pump \in [at : PumpPlace, msg : Message] /\ queue.count \in Int
      /\ DesktopCap \in Nat \ {0} /\ queue.head \in Index
  BY CapIs, DtSizesOK DEF QueueInv, QueueOk
<1>2. MqTypeOK
  BY <1>1 DEF MqTypeOK, QueueOk, QueueInv
<1>3. CASE overtaken
  BY <1>2, <1>3 DEF QueueIsFifo, PaintsCoalesced
<1>4. CASE ~overtaken
  <2>1. PumpFifo
    BY <1>4 DEF QueueInv
  <2>2. Holds(queue, posted, Copied) /\ queue.count = Len(posted) /\ queue.count =< DesktopCap
        /\ queue.count \in Nat
    BY <1>1, <2>1, LenProperties DEF PumpFifo, Holds
  <2>3. ASSUME NEW k \in 1..queue.count
        PROVE  InRing[k] = queue.ring[Place(queue.head, k - 1)] /\ InRing[k] \in Message
    <3>1. k - 1 \in 0..DesktopCap /\ queue.head + k - 1 = queue.head + (k - 1)
      BY <1>1, <2>2 DEF Index
    <3>2. /\ (queue.head + (k - 1)) % DesktopCap = Place(queue.head, k - 1)
          /\ Place(queue.head, k - 1) \in Index
      BY <1>1, <3>1, Wraps
    <3>3. InRing[k] = queue.ring[(queue.head + k - 1) % DesktopCap]
      BY <1>1 DEF InRing
    <3> QED BY <1>1, <3>1, <3>2, <3>3 DEF QueueOk
  <2>4. InRing \in Seq(Message) /\ Len(InRing) = queue.count
    <3>1. InRing = [k \in 1..queue.count |-> InRing[k]]
      BY DEF InRing
    <3>2. InRing \in [1..queue.count -> Message]
      <4> HIDE DEF InRing
      <4> QED BY <2>3, <3>1
    <3> QED BY <2>2, <3>2
  <2>5. CASE ~At("advanced")
    <3>1. Copied = 0
      BY <2>5 DEF Copied
    <3>2. \A k \in 1..queue.count : posted[k] = InRing[k]
      <4> TAKE k \in 1..queue.count
      <4>1. k - 1 - 0 = k - 1 /\ k \in 0 + 1..queue.count
        BY <2>2
      <4> QED BY <2>2, <2>3, <3>1, <4>1 DEF Holds
    <3>3. InRing = posted
      BY <1>1, <2>2, <2>4, <3>2, SeqEqual
    <3>4. At("taken") => posted # <<>> /\ pump.msg = Head(posted)
      BY <1>1, <2>1, <2>2, EmptySeq DEF PumpFifo
    <3>5. QueueIsFifo
      BY <2>5, <3>3, <3>4 DEF QueueIsFifo
    <3>6. PaintsCoalesced
      BY <1>1, <2>2, <2>5, <3>1, LenProperties DEF PaintsCoalesced, Holds
    <3> QED BY <1>2, <3>5, <3>6
  <2>6. CASE At("advanced")
    <3>1. Copied = 1 /\ queue.count > 0 /\ pump.msg = posted[1] /\ ~At("taken")
      BY <2>1, <2>6 DEF Copied, PumpFifo, At
    <3>2. posted # <<>>
      BY <2>2, <3>1, EmptySeq
    <3>3. /\ Tail(posted) \in Seq(Message) /\ Len(Tail(posted)) = queue.count - 1
          /\ \A i \in 1..queue.count - 1 : Tail(posted)[i] = posted[i + 1]
      BY <1>1, <2>2, <3>2, HeadTailProperties
    <3> DEFINE S == SubSeq(InRing, 1, queue.count - 1)
    <3>4. /\ S \in Seq(Message) /\ Len(S) = queue.count - 1
          /\ \A i \in 1..queue.count - 1 : S[i] = InRing[i]
      <4>1. \A i \in 1..queue.count - 1 : InRing[i] \in Message
        BY <2>2, <2>3
      <4>2. 1 \in Int /\ queue.count - 1 \in Int
        BY <1>1
      <4>3. /\ S \in Seq(Message)
            /\ Len(S) = (IF 1 <= queue.count - 1 THEN queue.count - 1 - 1 + 1 ELSE 0)
            /\ \A i \in 1..queue.count - 1 - 1 + 1 : S[i] = InRing[1 + i - 1]
        BY <4>1, <4>2, SubSeqProperties
      <4>4. queue.count - 1 - 1 + 1 = queue.count - 1 /\ \A i \in 1..queue.count - 1 : 1 + i - 1 = i
        BY <2>2
      <4>5. Len(S) = queue.count - 1
        <5> HIDE DEF S
        <5>1. queue.count - 1 \in Nat /\ (1 <= queue.count - 1 \/ queue.count - 1 = 0)
          <6>1. queue.count \in Nat
            BY <2>2
          <6>2. queue.count > 0
            BY <3>1
          <6> QED BY <6>1, <6>2
        <5>2. CASE 1 <= queue.count - 1
          BY <4>3, <4>4, <5>2
        <5>3. CASE queue.count - 1 = 0
          <6>1. ~(1 <= queue.count - 1)
            BY <5>3
          <6> QED BY <4>3, <5>3, <6>1
        <5> QED BY <5>1, <5>2, <5>3
      <4>6. \A i \in 1..queue.count - 1 : S[i] = InRing[i]
        <5> HIDE DEF S
        <5> QED BY <4>3, <4>4
      <4> QED BY <4>3, <4>5, <4>6
    <3>5. \A i \in 1..queue.count - 1 : S[i] = Tail(posted)[i]
      <4> TAKE i \in 1..queue.count - 1
      <4>1. i + 1 \in 1 + 1..queue.count /\ i + 1 - 1 - 1 = i - 1 /\ i \in 1..queue.count
        BY <2>2
      <4>2. posted[i + 1] = queue.ring[Place(queue.head, i + 1 - 1 - 1)]
        BY <2>2, <3>1, <4>1 DEF Holds
      <4> QED BY <2>3, <3>3, <3>4, <4>1, <4>2
    <3>6. S = Tail(posted)
      <4> HIDE DEF S
      <4> QED BY <3>3, <3>4, <3>5, SeqEqual
    <3>7. QueueIsFifo
      <4>1. pump.msg = Head(posted)
        BY <3>1
      <4> QED BY <2>2, <2>6, <3>1, <3>2, <3>6, <4>1 DEF QueueIsFifo
    <3>8. PaintsCoalesced
      <4> SUFFICES ASSUME NEW i \in DOMAIN Tail(posted), NEW j \in DOMAIN Tail(posted),
                          Tail(posted)[i].kind = "PAINT", Tail(posted)[i] = Tail(posted)[j]
                   PROVE  i = j
        BY <2>6 DEF PaintsCoalesced
      <4>1. i \in 1..queue.count - 1 /\ j \in 1..queue.count - 1
        BY <3>3, LenProperties
      <4>2. i + 1 \in 1 + 1..queue.count /\ j + 1 \in 1 + 1..queue.count
        BY <2>2, <4>1
      <4>3. i + 1 = j + 1
        BY <2>2, <3>1, <3>3, <4>1, <4>2 DEF Holds
      <4> QED BY <2>2, <4>1, <4>3
    <3> QED BY <1>2, <3>7, <3>8
  <2> QED BY <2>5, <2>6
<1> QED BY <1>3, <1>4

-----------------------------------------------------------------------------
(* Windows, focus and shell.                                                 *)

Window == [id : 0..MaxId, owner : 0..Program, desktop : BOOLEAN, visible : BOOLEAN]
Existing == {w \in Slot : Exists(w)}

\* Handles are given in order; the windows are counted, each has a handle of its
\* own and the focus is one of them.
WindowsInv ==
  /\ win \in [Slot -> Window]
  /\ nwin \in Int /\ nextId \in 1..MaxId + 1 /\ focus \in 0..MaxId /\ running \in 1..Program
  /\ \A w \in Slot : win[w].id < nextId
  /\ WindowsCounted
  /\ FocusIsAWindow

ShellInv ==
  /\ shell \in [minimized : SUBSET Slot, drag : 0..MaxId,
                armed : [part : FrameButton \union {"none"}, slot : 0..MaxWindow],
                menu : BOOLEAN]
  /\ left \in BOOLEAN
  /\ once \in [active : BOOLEAN, injected : BOOLEAN, painted : BOOLEAN]
  /\ ArmedWhilePressed

LEMMA SlotsFinite == ASSUME NEW T \in SUBSET Slot PROVE IsFiniteSet(T) /\ Cardinality(T) \in Nat
<1>1. MaxWindow \in Int /\ 1 \in Int
  BY DtSizesOK
<1>2. IsFiniteSet(Slot)
  BY <1>1, FS_Interval DEF Slot
<1>3. IsFiniteSet(T)
  BY <1>2, FS_Subset
<1> QED BY <1>3, FS_CardinalityType

LEMMA RepaintsType ==
  ASSUME NEW windows \in [Slot -> Window]
  PROVE  Repaints(windows) \in Seq(Message)
<1> DEFINE paints == [w \in Slot |-> IF windows[w].visible /\ ~windows[w].desktop
                                     THEN <<Paint(windows[w].id)>> ELSE <<>>]
<1>1. MaxWindow \in Nat /\ MaxId \in Nat /\ MaxWindow # 0
  BY DtSizesOK
<1>2. \A w \in Slot : paints[w] \in Seq(Message)
  <2> TAKE w \in Slot
  <2>1. Paint(windows[w].id) \in Message
    BY <1>1, MessageTypes DEF Window
  <2> QED BY <2>1, EmptySeq
<1>3. Len(paints) = MaxWindow
  BY <1>1 DEF Slot
<1>4. FlattenSeq(paints) \in Seq(Message)
  <2> HIDE DEF paints
  <2> QED BY <1>1, <1>2, <1>3, FlattenType DEF Slot
<1> QED BY <1>4, EmptySeq DEF Repaints

LEMMA CallKept ==
  ASSUME QueueInv, ~overtaken, NEW ms \in Seq(Message), Call(ms)
  PROVE  QueueInv'
<1>1. pump' = pump /\ Posts(ms) /\ overtaken' = overtaken /\ pump.at \notin Writing
  BY DEF Call, At, Writing
<1> QED BY <1>1, PostsKept DEF QueueInv

LEMMA InterruptKept ==
  ASSUME QueueInv, ~overtaken, NEW ms \in Seq(Message), Interrupt(ms)
  PROVE  QueueInv'
<1>1. Posts(ms) /\ overtaken' \in BOOLEAN /\ (pump.at \in Writing /\ ms # <<>> => overtaken')
      /\ pump \in [at : PumpPlace, msg : Message]
  BY DEF Interrupt, Writing, QueueInv
<1>2. CASE At("halted")
  <2>1. pump' = [pump EXCEPT !.at = "poll"] /\ pump.at = "halted"
    BY <1>2 DEF Interrupt, At
  <2>2. pump' \in [at : PumpPlace, msg : Message] /\ pump'.at \in Quiet /\ pump.at \in Quiet
    BY <1>1, <2>1 DEF PumpPlace, Quiet
  <2> QED BY <1>1, <2>2, PostsKept
<1>3. CASE ~At("halted")
  <2>1. pump' = pump
    BY <1>3 DEF Interrupt
  <2> QED BY <1>1, <2>1, PostsKept
<1> QED BY <1>2, <1>3

LEMMA IdleKept ==
  ASSUME QueueInv, ~overtaken, NEW ms \in Seq(Message), NEW n, GetMessageIdle(n, ms)
  PROVE  QueueInv'
<1>1. pump \in [at : PumpPlace, msg : Message] /\ pump.at = "app" /\ Posts(ms)
      /\ overtaken' = overtaken /\ overtaken \in BOOLEAN
  BY DEF GetMessageIdle, At, QueueInv
<1>2. PICK place \in {"halted", "ended"} : pump' = [pump EXCEPT !.at = place]
  BY DEF GetMessageIdle, Goes
<1>3. pump' \in [at : PumpPlace, msg : Message] /\ pump'.at \in Quiet /\ pump.at \in Quiet
      /\ pump.at \notin Writing
  BY <1>1, <1>2 DEF PumpPlace, Quiet, Writing
<1> QED BY <1>1, <1>3, PostsKept

\* Windows are created, shown, destroyed with their program.
LEMMA CreateKept ==
  ASSUME WindowsInv, NEW desktop \in BOOLEAN, NtUserCreateWindowEx(desktop)
  PROVE  WindowsInv'
<1> DEFINE free == {w \in Slot : ~Exists(w)}
           f == Min(free)
           new == [id |-> nextId, owner |-> running, desktop |-> desktop, visible |-> FALSE]
<1>1. free \in SUBSET Nat /\ free # {}
  BY DtSizesOK DEF NtUserCreateWindowEx, Slot
<1>2. f \in free
  <2> HIDE DEF free
  <2> QED BY <1>1, LeastIn
<1>3. /\ win' = [win EXCEPT ![f] = new] /\ nwin' = nwin + 1 /\ nextId' = nextId + 1
      /\ focus' = (IF desktop THEN focus ELSE nextId) /\ running' = running /\ nextId =< MaxId
  BY DEF NtUserCreateWindowEx
<1>4. /\ MaxId \in Nat /\ Program \in Nat /\ win \in [Slot -> Window] /\ nextId \in 1..MaxId
      /\ f \in Slot /\ win[f].id = 0 /\ nwin \in Int /\ running \in 1..Program /\ focus \in 0..MaxId
  BY <1>2, <1>3, DtSizesOK DEF WindowsInv, Exists
<1>5. new \in Window
  BY <1>4 DEF Window
<1> HIDE DEF free, f
<1>6. /\ win' \in [Slot -> Window] /\ win'[f].id = nextId /\ win'[f].desktop = desktop
      /\ \A w \in Slot : w # f => win'[w] = win[w]
      /\ nextId' \in 1..MaxId + 1 /\ focus' \in 0..MaxId /\ running' \in 1..Program
  BY <1>3, <1>4, <1>5
<1>7. \A w \in Slot : win'[w].id < nextId' /\ win[w].id \in 0..MaxId
  BY <1>3, <1>4, <1>6 DEF WindowsInv, Window
<1>8. WindowsCounted'
  <2>1. Existing' = Existing \union {f} /\ f \notin Existing
    BY <1>4, <1>6 DEF Existing, Exists
  <2>2. IsFiniteSet(Existing)
    BY SlotsFinite DEF Existing
  <2>3. Cardinality(Existing') = Cardinality(Existing) + 1
    BY <2>1, <2>2, FS_AddElement
  <2>4. nwin' = Cardinality(Existing')
    BY <1>3, <2>3 DEF WindowsInv, WindowsCounted, Existing
  <2>5. ASSUME NEW v \in Slot, NEW w \in Slot, win'[v].id # 0, win'[v].id = win'[w].id
        PROVE  v = w
    <3>1. \A u \in Slot : win[u].id < nextId
      BY DEF WindowsInv
    <3>2. \A a, b \in Slot : win[a].id # 0 /\ win[a].id = win[b].id => a = b
      BY DEF WindowsInv, WindowsCounted, Exists
    <3>3. \A u \in Slot : u # f => win'[u].id # nextId
      BY <1>4, <1>6, <1>7, <3>1
    <3> QED BY <1>6, <2>5, <3>2, <3>3
  <2> QED BY <2>4, <2>5 DEF WindowsCounted, Existing, Exists
<1>9. FocusIsAWindow'
  <2>1. CASE desktop
    <3> SUFFICES ASSUME focus # 0 PROVE \E w \in Slot : win'[w].id = focus /\ win'[w].id # 0 /\ ~win'[w].desktop
      BY <1>3, <2>1 DEF FocusIsAWindow, Plain, Exists
    <3>1. PICK w \in Slot : win[w].id = focus /\ ~win[w].desktop
      BY DEF WindowsInv, FocusIsAWindow, Plain
    <3> QED BY <1>4, <1>6, <3>1
  <2>2. CASE ~desktop
    BY <1>3, <1>4, <1>6, <2>2 DEF FocusIsAWindow, Plain, Exists
  <2> QED BY <2>1, <2>2
<1> QED BY <1>3, <1>4, <1>6, <1>7, <1>8, <1>9 DEF WindowsInv

LEMMA ShowKept ==
  ASSUME WindowsInv, NEW w \in Slot, NEW visible \in BOOLEAN, NtUserShowWindow(w, visible)
  PROVE  WindowsInv'
<1>1. /\ win' = [win EXCEPT ![w].visible = visible] /\ win \in [Slot -> Window]
      /\ UNCHANGED <<nwin, nextId, focus, running>>
  BY DEF NtUserShowWindow, WindowsInv
<1>2. /\ win' \in [Slot -> Window]
      /\ \A v \in Slot : win'[v].id = win[v].id /\ win'[v].desktop = win[v].desktop
  BY <1>1 DEF Window
<1>3. Existing' = Existing
  BY <1>2 DEF Existing, Exists
<1>4. WindowsCounted'
  <2>1. nwin' = Cardinality(Existing')
    BY <1>1, <1>3 DEF WindowsInv, WindowsCounted, Existing
  <2>2. \A u, v \in Slot : win'[u].id # 0 /\ win'[u].id = win'[v].id => u = v
    BY <1>2 DEF WindowsInv, WindowsCounted, Exists
  <2> QED BY <2>1, <2>2 DEF WindowsCounted, Existing, Exists
<1>5. FocusIsAWindow'
  BY <1>1, <1>2 DEF WindowsInv, FocusIsAWindow, Plain, Exists
<1> QED BY <1>1, <1>2, <1>4, <1>5 DEF WindowsInv

\* The focus that NtUserDestroyWindow_k gives is a plain window that is left.
LEMMA DestroyKept ==
  ASSUME WindowsInv, NEW w \in Slot, NtUserDestroyWindow(w)
  PROVE  WindowsInv'
<1> DEFINE rest == [win EXCEPT ![w] = NoWindow]
           ids == {rest[v].id : v \in {v \in Slot : ~rest[v].desktop}}
<1>1. /\ win' = rest /\ nwin' = nwin - 1 /\ win[w].id # 0
      /\ focus' = (IF focus = win[w].id THEN Max(ids \union {0}) ELSE focus)
      /\ UNCHANGED <<nextId, running>> /\ win \in [Slot -> Window] /\ MaxId \in Nat
      /\ nextId \in 1..MaxId + 1 /\ focus \in 0..MaxId /\ nwin \in Int /\ running \in 1..Program
  BY DtSizesOK DEF NtUserDestroyWindow, WindowsInv, Exists
<1>2. NoWindow \in Window /\ NoWindow.id = 0
  BY DtSizesOK DEF NoWindow, Window
<1>3. /\ rest \in [Slot -> Window] /\ rest[w] = NoWindow
      /\ \A v \in Slot : v # w => rest[v] = win[v]
  BY <1>1, <1>2
<1> HIDE DEF rest
<1>4. \A v \in Slot : rest[v].id < nextId /\ rest[v].id \in 0..MaxId
  BY <1>1, <1>2, <1>3 DEF WindowsInv, Window
<1>5. WindowsCounted'
  <2>1. Existing' = Existing \ {w} /\ w \in Existing
    BY <1>1, <1>2, <1>3 DEF Existing, Exists
  <2>2. IsFiniteSet(Existing)
    BY SlotsFinite DEF Existing
  <2>3. Cardinality(Existing') = Cardinality(Existing) - 1
    BY <2>1, <2>2, FS_RemoveElement
  <2>4. nwin' = Cardinality(Existing')
    BY <1>1, <2>3 DEF WindowsInv, WindowsCounted, Existing
  <2>5. \A u, v \in Slot : win'[u].id # 0 /\ win'[u].id = win'[v].id => u = v
    BY <1>1, <1>2, <1>3 DEF WindowsInv, WindowsCounted, Exists
  <2> QED BY <2>4, <2>5 DEF WindowsCounted, Existing, Exists
<1>6. focus' \in 0..MaxId /\ FocusIsAWindow'
  <2>1. CASE focus = win[w].id
    <3>1. ids \union {0} \in SUBSET (0..MaxId) /\ ids \union {0} # {}
      BY <1>1, <1>4
    <3>2. focus' \in ids \union {0}
      <4> HIDE DEF ids
      <4> QED BY <1>1, <2>1, <3>1, GreatestIn
    <3>3. focus' # 0 => \E v \in Slot : ~rest[v].desktop /\ rest[v].id = focus'
      BY <3>2
    <3> QED BY <1>1, <3>1, <3>2, <3>3 DEF FocusIsAWindow, Plain, Exists
  <2>2. CASE focus # win[w].id
    BY <1>1, <1>3, <2>2 DEF WindowsInv, FocusIsAWindow, Plain, Exists
  <2> QED BY <2>1, <2>2
<1> QED BY <1>1, <1>3, <1>4, <1>5, <1>6 DEF WindowsInv

LEMMA ProgramEndsKept ==
  ASSUME WindowsInv, ProgramEnds
  PROVE  WindowsInv'
<1> DEFINE own == {w \in Slot : Exists(w) /\ win[w].owner = running}
<1>1. /\ win' = [w \in Slot |-> IF w \in own THEN NoWindow ELSE win[w]]
      /\ nwin' = nwin - Cardinality(own) /\ running' = running - 1 /\ running > 1
      /\ focus' = (IF focus \in {win[w].id : w \in own} THEN 0 ELSE focus)
      /\ nextId' = nextId /\ win \in [Slot -> Window] /\ MaxId \in Nat /\ Program \in Nat
      /\ nextId \in 1..MaxId + 1 /\ focus \in 0..MaxId /\ nwin \in Int /\ running \in 1..Program
  BY DtSizesOK DEF ProgramEnds, WindowsInv
<1>2. NoWindow \in Window /\ NoWindow.id = 0
  BY DtSizesOK DEF NoWindow, Window
<1>3. own \in SUBSET Existing
  BY DEF Existing
<1>4. Existing' = Existing \ own
  BY <1>1, <1>2 DEF Existing, Exists
<1> HIDE DEF own
<1>5. /\ win' \in [Slot -> Window]
      /\ \A w \in Slot : w \in own => win'[w] = NoWindow
      /\ \A w \in Slot : w \notin own => win'[w] = win[w]
  BY <1>1, <1>2
<1>6. WindowsCounted'
  <2>1. IsFiniteSet(Existing) /\ Cardinality(Existing) \in Nat /\ Existing \cap own = own
    BY <1>3, SlotsFinite DEF Existing
  <2>2. Cardinality(Existing') = Cardinality(Existing) - Cardinality(own)
    <3>1. Cardinality(Existing \ own) = Cardinality(Existing) - Cardinality(Existing \cap own)
      BY <2>1, FS_Difference
    <3> QED BY <1>4, <2>1, <3>1
  <2>3. nwin' = Cardinality(Existing')
    BY <1>1, <2>2 DEF WindowsInv, WindowsCounted, Existing
  <2>4. \A u, v \in Slot : win'[u].id # 0 /\ win'[u].id = win'[v].id => u = v
    BY <1>2, <1>5 DEF WindowsInv, WindowsCounted, Exists
  <2> QED BY <2>3, <2>4 DEF WindowsCounted, Existing, Exists
<1>7. FocusIsAWindow'
  <2> SUFFICES ASSUME focus' # 0 PROVE \E w \in Slot : win'[w].id = focus' /\ win'[w].id # 0 /\ ~win'[w].desktop
    BY DEF FocusIsAWindow, Plain, Exists
  <2>1. focus' = focus /\ focus \notin {win[w].id : w \in own}
    BY <1>1
  <2>2. PICK w \in Slot : win[w].id = focus /\ ~win[w].desktop
    BY <2>1 DEF WindowsInv, FocusIsAWindow, Plain
  <2>3. w \notin own
    BY <2>1, <2>2
  <2> QED BY <1>5, <2>1, <2>2, <2>3
<1>8. \A w \in Slot : win'[w].id < nextId'
  BY <1>1, <1>2, <1>5 DEF WindowsInv
<1>9. focus' \in 0..MaxId /\ nwin' \in Int /\ running' \in 1..Program
  <2>1. Cardinality(own) \in Nat
    BY <1>3, SlotsFinite DEF Existing
  <2> QED BY <1>1, <2>1
<1> QED BY <1>1, <1>5, <1>6, <1>7, <1>8, <1>9 DEF WindowsInv

\* Only the focus changes, to none or to a plain window.
LEMMA FocusKept ==
  ASSUME WindowsInv, UNCHANGED <<win, nwin, nextId, running>>,
         \/ focus' \in {0, focus}
         \/ \E w \in Slot : Plain(w) /\ focus' = win[w].id
  PROVE  WindowsInv'
<1>1. win \in [Slot -> Window] /\ focus \in 0..MaxId /\ MaxId \in Nat
  BY DtSizesOK DEF WindowsInv
<1>2. focus' \in 0..MaxId
  BY <1>1 DEF Window
<1>3. FocusIsAWindow'
  BY DEF WindowsInv, FocusIsAWindow, Plain, Exists
<1>4. WindowsCounted'
  BY DEF WindowsInv, WindowsCounted, Exists
<1> QED BY <1>2, <1>3, <1>4 DEF WindowsInv

\* One event of the mouse: what the shell remembers, and the focus.
LEMMA MouseKept ==
  ASSUME QueueInv, ~overtaken, WindowsInv, ShellInv, NEW down \in BOOLEAN, MouseInterrupt(down)
  PROVE  QueueInv' /\ WindowsInv' /\ ShellInv'
<1>1. /\ UNCHANGED <<win, nwin, nextId, running, once>> /\ left' = down
      /\ win \in [Slot -> Window] /\ left \in BOOLEAN /\ MaxId \in Nat /\ MaxWindow \in Nat
      /\ shell \in [minimized : SUBSET Slot, drag : 0..MaxId,
                    armed : [part : FrameButton \union {"none"}, slot : 0..MaxWindow],
                    menu : BOOLEAN]
      /\ once \in [active : BOOLEAN, injected : BOOLEAN, painted : BOOLEAN]
      /\ shell.armed # NoButton \/ shell.drag # 0 => left
      /\ shell.armed = NoButton \/ shell.drag = 0
      /\ NoButton \in [part : FrameButton \union {"none"}, slot : 0..MaxWindow]
  BY DtSizesOK DEF MouseInterrupt, WindowsInv, ShellInv, ArmedWhilePressed, NoButton
<1>2. /\ RepaintsIfActive \in Seq(Message) /\ <<>> \in Seq(Message) /\ Other \in Message
      /\ <<Other>> \in Seq(Message) /\ <<Other, Other>> \in Seq(Message)
  BY <1>1, RepaintsType, MessageTypes, EmptySeq DEF RepaintsIfActive
<1>3. \A m1, m2 \in Seq(Message) : m1 \o m2 \in Seq(Message)
  BY ConcatProperties
<1> DEFINE ShellState == [minimized : SUBSET Slot, drag : 0..MaxId,
                          armed : [part : FrameButton \union {"none"}, slot : 0..MaxWindow],
                          menu : BOOLEAN]
           Fine(s) == /\ s \in ShellState
                      /\ s.armed # NoButton \/ s.drag # 0 => down
                      /\ s.armed = NoButton \/ s.drag = 0
           Focused == focus' \in {0, focus} \/ \E w \in Slot : Plain(w) /\ focus' = win[w].id
<1>4. ASSUME NEW ms \in Seq(Message), NEW s, ShellTakes(ms, s), Fine(s), Focused
      PROVE  QueueInv' /\ WindowsInv' /\ ShellInv'
  <2>1. QueueInv'
    BY <1>4, InterruptKept DEF ShellTakes
  <2>2. WindowsInv'
    BY <1>1, <1>4, FocusKept
  <2>3. ShellInv'
    BY <1>1, <1>4 DEF ShellTakes, ShellInv, ArmedWhilePressed
  <2> QED BY <2>1, <2>2, <2>3
<1>5. /\ Free \in ShellState /\ Free.drag = 0 /\ Free.armed = shell.armed
      /\ Free.minimized = shell.minimized
  BY <1>1 DEF Free
<1>6. CASE DragMoves(down)
  <2> DEFINE s == IF Releases(down) THEN [shell EXCEPT !.drag = 0] ELSE shell
  <2>1. ShellTakes(<<>>, s) /\ focus' = focus /\ shell.drag # 0
    BY <1>6 DEF DragMoves, Dragging
  <2>2. Fine(s)
    BY <1>1, <2>1 DEF Releases
  <2> HIDE DEF s
  <2> QED BY <1>2, <1>4, <2>1, <2>2
<1>7. CASE StartPressed(down) \/ MenuLeft(down)
  <2>1. PICK open \in BOOLEAN : ShellTakes(RepaintsIfActive, [Free EXCEPT !.menu = open])
    BY <1>1, <1>7 DEF StartPressed, MenuLeft, Free
  <2>2. focus' = focus /\ ~left /\ down
    BY <1>7 DEF StartPressed, MenuLeft, Presses
  <2>3. Fine([Free EXCEPT !.menu = open])
    BY <1>1, <1>5, <2>2
  <2> HIDE DEF Fine
  <2> QED BY <1>2, <1>4, <2>1, <2>2, <2>3
<1>8. ASSUME NEW w \in Slot, TaskbarPressed(down, w) PROVE QueueInv' /\ WindowsInv' /\ ShellInv'
  <2>1. PICK m \in SUBSET Slot : ShellTakes(RepaintsIfActive, [Free EXCEPT !.minimized = m])
    <3> DEFINE s == IF w \in shell.minimized THEN [Free EXCEPT !.minimized = @ \ {w}]
                    ELSE IF win[w].id = focus THEN [Free EXCEPT !.minimized = @ \union {w}] ELSE Free
    <3>1. ShellTakes(RepaintsIfActive, s)
      BY <1>8 DEF TaskbarPressed
    <3>2. \E m \in SUBSET Slot : s = [Free EXCEPT !.minimized = m]
      <4>1. Free = [Free EXCEPT !.minimized = Free.minimized]
        BY <1>5
      <4>2. Free.minimized \in SUBSET Slot
        BY <1>5
      <4> QED BY <4>1, <4>2
    <3> HIDE DEF s
    <3> QED BY <3>1, <3>2
  <2>2. ~left /\ down /\ Focused
    BY <1>8 DEF TaskbarPressed, Presses, Visible
  <2>3. Fine([Free EXCEPT !.minimized = m])
    BY <1>1, <1>5, <2>2
  <2> HIDE DEF Fine, Focused
  <2> QED BY <1>2, <1>4, <2>1, <2>2, <2>3
<1>9. ASSUME NEW w \in Slot, NEW part \in FramePart, FramePressed(down, w, part)
      PROVE  QueueInv' /\ WindowsInv' /\ ShellInv'
  <2>1. ~left /\ down /\ Focused /\ part # "client" /\ win[w].id \in 0..MaxId
    BY <1>1, <1>9 DEF FramePressed, Presses, Visible, Window
  <2>2. shell.armed = NoButton
    BY <1>1, <2>1
  <2>3. CASE part = "title"
    <3>1. ShellTakes(RepaintsIfActive, [Free EXCEPT !.drag = win[w].id])
      BY <1>9, <2>3 DEF FramePressed
    <3>2. Fine([Free EXCEPT !.drag = win[w].id])
      BY <1>1, <1>5, <2>1, <2>2
    <3> HIDE DEF Fine, Focused
    <3> QED BY <1>2, <1>4, <2>1, <3>1, <3>2
  <2>4. CASE part # "title"
    <3> DEFINE b == [part |-> part, slot |-> w]
    <3>1. ShellTakes(RepaintsIfActive, [Free EXCEPT !.armed = b])
      BY <1>9, <2>4 DEF FramePressed
    <3>2. b \in [part : FrameButton \union {"none"}, slot : 0..MaxWindow]
      BY <1>1, <2>1, <2>4 DEF FramePart, Slot
    <3>3. Fine([Free EXCEPT !.armed = b])
      <4> HIDE DEF b
      <4> QED BY <1>1, <1>5, <2>1, <3>2
    <3> HIDE DEF Fine, Focused
    <3> QED BY <1>2, <1>4, <2>1, <3>1, <3>3
  <2> QED BY <2>3, <2>4
<1>10. ASSUME NEW w \in Slot, NEW part \in FramePart, FrameReleased(down, w, part)
       PROVE  QueueInv' /\ WindowsInv' /\ ShellInv'
  <2> DEFINE s == [Free EXCEPT !.armed = NoButton]
             ms == (IF part = "close" THEN <<Other>> ELSE <<>>) \o RepaintsIfActive
             t == IF part = "min" THEN [s EXCEPT !.minimized = @ \union {w}] ELSE s
  <2>1. ShellTakes(ms, t) /\ Focused
    BY <1>10 DEF FrameReleased
  <2>2. ms \in Seq(Message)
    BY <1>2, <1>3
  <2>3. Fine(s) /\ s.minimized \in SUBSET Slot /\ s.armed = NoButton /\ s.drag = 0
    BY <1>1, <1>5
  <2>4. Fine(t)
    <3> HIDE DEF s
    <3> QED BY <2>3
  <2> HIDE DEF Fine, Focused, ms, t
  <2> QED BY <1>4, <2>1, <2>2, <2>4
<1>11. ASSUME NEW under \in Slot \union {0}, MousePasses(down, under)
       PROVE  QueueInv' /\ WindowsInv' /\ ShellInv'
  <2> DEFINE changed == down # left
             ms == IF under = 0 THEN <<>> ELSE IF changed THEN <<Other, Other>> ELSE <<Other>>
             ns == IF changed THEN RepaintsIfActive ELSE <<>>
             s == IF Releases(down) THEN [Free EXCEPT !.armed = NoButton] ELSE Free
  <2>1. ShellTakes(ms \o ns, s)
    BY <1>11 DEF MousePasses
  <2>2. Focused
    BY <1>11 DEF MousePasses
  <2>3. ms \in Seq(Message) /\ ns \in Seq(Message)
    BY <1>2
  <2>4. ms \o ns \in Seq(Message)
    <3> HIDE DEF ms, ns
    <3> QED BY <1>3, <2>3
  <2>5. Fine(s)
    <3>1. CASE Releases(down)
      BY <1>1, <1>5, <3>1
    <3>2. CASE ~Releases(down)
      BY <1>1, <1>5, <3>2 DEF Releases
    <3> QED BY <3>1, <3>2
  <2> HIDE DEF Fine, Focused, ms, ns, s
  <2> QED BY <1>4, <2>1, <2>2, <2>4, <2>5
<1> QED BY <1>6, <1>7, <1>8, <1>9, <1>10, <1>11 DEF MouseInterrupt

Inv == QueueInv /\ WindowsInv /\ ShellInv

LEMMA StepKept == Inv /\ [DtNext]_<<mqVars, dtVars>> => Inv'
<1> SUFFICES ASSUME QueueInv, WindowsInv, ShellInv, [DtNext]_<<mqVars, dtVars>>
             PROVE  QueueInv' /\ WindowsInv' /\ ShellInv'
  BY DEF Inv
<1>1. CASE UNCHANGED <<mqVars, dtVars>>
  <2>1. QueueInv'
    BY <1>1 DEF mqVars, QueueInv, PumpFifo, At, Copied
  <2>2. WindowsInv'
    BY <1>1 DEF dtVars, WindowsInv, WindowsCounted, FocusIsAWindow, Plain, Exists
  <2>3. ShellInv'
    BY <1>1 DEF dtVars, ShellInv, ArmedWhilePressed
  <2> QED BY <2>1, <2>2, <2>3
<1> SUFFICES ASSUME DtNext PROVE QueueInv' /\ WindowsInv' /\ ShellInv'
  BY <1>1
<1>2. ~overtaken /\ win \in [Slot -> Window] /\ Other \in Message /\ Quit \in Message
      /\ once \in [active : BOOLEAN, injected : BOOLEAN, painted : BOOLEAN]
  BY MessageTypes DEF DtNext, WindowsInv, ShellInv
<1>3. ASSUME UNCHANGED <<shell, left>>, \/ once' = once
                                        \/ once' \in [active : BOOLEAN, injected : BOOLEAN, painted : BOOLEAN]
      PROVE  ShellInv'
  BY <1>2, <1>3 DEF ShellInv, ArmedWhilePressed
<1>4. ASSUME UNCHANGED dtVars PROVE WindowsInv' /\ ShellInv'
  BY <1>4, <1>3, FocusKept DEF dtVars
<1>5. ASSUME NEW desktop \in BOOLEAN, NtUserCreateWindowEx(desktop)
      PROVE  QueueInv' /\ WindowsInv' /\ ShellInv'
  <2>1. <<Other>> \in Seq(Message) /\ Call(<<Other>>)
    BY <1>2, <1>5 DEF NtUserCreateWindowEx
  <2>2. UNCHANGED <<shell, left, once>>
    BY <1>5 DEF NtUserCreateWindowEx
  <2> QED BY <1>2, <1>3, <1>5, <2>1, <2>2, CallKept, CreateKept
<1>6. ASSUME NEW w \in Slot, NtUserSetFocus(w) PROVE QueueInv' /\ WindowsInv' /\ ShellInv'
  <2>1. /\ Call(Repaints(win)) /\ Repaints(win) \in Seq(Message) /\ Composed
        /\ UNCHANGED <<win, nwin, nextId, running, shell, left>>
        /\ Plain(w) /\ focus' = win[w].id
    BY <1>2, <1>6, RepaintsType DEF NtUserSetFocus
  <2>2. once' \in [active : BOOLEAN, injected : BOOLEAN, painted : BOOLEAN]
    BY <1>2, <2>1 DEF Composed
  <2> QED BY <1>2, <1>3, <2>1, <2>2, CallKept, FocusKept
<1>7. ASSUME NEW w \in Slot, NtUserDestroyWindow(w) PROVE QueueInv' /\ WindowsInv' /\ ShellInv'
  <2> DEFINE rest == [win EXCEPT ![w] = NoWindow]
  <2>1. rest \in [Slot -> Window]
    BY <1>2, DtSizesOK DEF NoWindow, Window
  <2>2. <<Other>> \o Repaints(rest) \in Seq(Message)
    <3> HIDE DEF rest
    <3>1. <<Other>> \in Seq(Message) /\ Repaints(rest) \in Seq(Message)
      BY <1>2, <2>1, RepaintsType
    <3> QED BY <3>1, ConcatProperties
  <2>3. Call(<<Other>> \o Repaints(rest)) /\ Composed /\ UNCHANGED <<shell, left>>
    BY <1>7 DEF NtUserDestroyWindow
  <2>4. once' \in [active : BOOLEAN, injected : BOOLEAN, painted : BOOLEAN]
    BY <1>2, <2>3 DEF Composed
  <2> HIDE DEF rest
  <2> QED BY <1>2, <1>3, <1>7, <2>2, <2>3, <2>4, CallKept, DestroyKept
<1>8. ASSUME NEW w \in Slot, NEW visible \in BOOLEAN, NtUserShowWindow(w, visible)
      PROVE  QueueInv' /\ WindowsInv' /\ ShellInv'
  <2> DEFINE shown == [win EXCEPT ![w].visible = visible]
             inject == visible /\ ~once.injected /\ ~win[w].desktop
             keys == IF inject /\ focus # 0 THEN <<Other, Other, Other, Other, Quit>> ELSE <<>>
             ms == IF ~visible THEN <<>> ELSE Repaints(shown) \o <<Paint(win[w].id)>> \o keys
  <2>1. shown \in [Slot -> Window] /\ win[w].id \in Nat
    BY <1>2, DtSizesOK DEF Window
  <2>2. ms \in Seq(Message)
    <3> HIDE DEF shown, inject
    <3>1. <<Paint(win[w].id)>> \in Seq(Message) /\ Repaints(shown) \in Seq(Message)
      BY <2>1, MessageTypes, RepaintsType
    <3>2. keys \in Seq(Message)
      BY <1>2
    <3> HIDE DEF keys
    <3>3. Repaints(shown) \o <<Paint(win[w].id)>> \o keys \in Seq(Message)
      BY <3>1, <3>2, ConcatProperties
    <3> QED BY <3>3, EmptySeq
  <2>3. Call(ms) /\ UNCHANGED <<shell, left>>
    BY <1>8 DEF NtUserShowWindow
  <2>4. once' \in [active : BOOLEAN, injected : BOOLEAN, painted : BOOLEAN]
    BY <1>2, <1>8 DEF NtUserShowWindow
  <2> HIDE DEF ms
  <2> QED BY <1>2, <1>3, <1>8, <2>2, <2>3, <2>4, CallKept, ShowKept
<1>9. ASSUME NEW m \in Message, NtUserPost(m) PROVE QueueInv' /\ WindowsInv' /\ ShellInv'
  <2>1. <<m>> \in Seq(Message) /\ Call(<<m>>) /\ UNCHANGED dtVars
    BY <1>9 DEF NtUserPost
  <2> QED BY <1>2, <1>4, <2>1, CallKept
<1>10. CASE ProgramStarts
  <2>1. UNCHANGED <<queue, posted, pump, overtaken>> /\ running' = running + 1 /\ running < Program
        /\ UNCHANGED <<win, nwin, nextId, focus, shell, left, once>>
    BY <1>10 DEF ProgramStarts, mqVars
  <2>2. QueueInv'
    BY <2>1 DEF QueueInv, PumpFifo, At, Copied
  <2>3. WindowsInv'
    BY <2>1, DtSizesOK DEF WindowsInv, WindowsCounted, FocusIsAWindow, Plain, Exists
  <2> QED BY <1>3, <2>1, <2>2, <2>3
<1>11. CASE ProgramEnds
  <2>1. /\ pump.at \in {"app", "ended"} /\ pump' = [pump EXCEPT !.at = "app"]
        /\ UNCHANGED <<queue, posted, overtaken>> /\ UNCHANGED <<shell, left, once>>
    BY <1>11 DEF ProgramEnds, At
  <2>2. pump \in [at : PumpPlace, msg : Message]
    BY DEF QueueInv
  <2>3. pump.at \in Quiet /\ pump' \in [at : PumpPlace, msg : Message] /\ pump'.at \in Quiet
    BY <2>1, <2>2 DEF PumpPlace, Quiet
  <2> QED BY <1>2, <1>3, <1>11, <2>1, <2>3, MovesKept, ProgramEndsKept
<1>12. CASE PumpRuns
  <2>1. CASE UNCHANGED dtVars
    <3>1. CASE GetMessage \/ Empty(nwin) \/ GetMessageStep \/ ClockTick
      BY <1>2, <1>4, <2>1, <3>1, PumpKept
    <3>2. CASE ~(GetMessage \/ Empty(nwin) \/ GetMessageStep \/ ClockTick)
      <4>1. PICK ms \in Seq(Message) : GetMessageIdle(nwin, ms)
        BY <1>2, <1>12, <3>2, RepaintsType, EmptySeq DEF PumpRuns
      <4> QED BY <1>2, <1>4, <2>1, <4>1, IdleKept
    <3> QED BY <3>1, <3>2
  <2>2. CASE ~UNCHANGED dtVars
    <3>1. PICK ms \in Seq(Message) : GetMessageIdle(nwin, ms)
      BY <1>2, <1>12, <2>2, RepaintsType, EmptySeq DEF PumpRuns
    <3>2. UNCHANGED <<win, nwin, nextId, focus, running, shell, left>>
      BY <1>12, <2>2 DEF PumpRuns
    <3>3. once' \in [active : BOOLEAN, injected : BOOLEAN, painted : BOOLEAN]
      BY <1>2, <1>12, <2>2 DEF PumpRuns
    <3> QED BY <1>2, <1>3, <3>1, <3>2, <3>3, IdleKept, FocusKept
  <2> QED BY <2>1, <2>2
<1>13. CASE KeyboardInterrupt
  <2>1. <<Other, Other>> \in Seq(Message) /\ Interrupt(<<Other, Other>>) /\ UNCHANGED dtVars
    BY <1>2, <1>13 DEF KeyboardInterrupt
  <2> QED BY <1>2, <1>4, <2>1, InterruptKept
<1>14. \A w \in Slot : Paint(win[w].id) \in Message
  BY <1>2, DtSizesOK, MessageTypes DEF Window
<1> QED BY <1>2, <1>5, <1>6, <1>7, <1>8, <1>9, <1>10, <1>11, <1>12, <1>13, <1>14, MouseKept DEF DtNext

\* What the windows and their queue promise, for every number of windows, programs and
\* places in the queue: messages are returned once each and in the order they were
\* accepted, whatever the interrupts post between the steps of queue_pop; one WM_PAINT
\* of a window waits at most; the windows are counted; the focus is a window; a
\* button is armed or a window dragged only while the mouse holds it.
THEOREM DesktopCorrect == DtSpec => []DesktopSound
<1>1. DtInit(DesktopCap) => Inv
  <2> SUFFICES ASSUME DtInit(DesktopCap) PROVE QueueInv /\ WindowsInv /\ ShellInv
    BY DEF Inv
  <2>1. QueueInv
    <3>1. DesktopCap \in Nat \ {0} /\ Other \in Message /\ 0 \in Index
      BY DtSizesOK, MessageTypes DEF Index
    <3>2. /\ queue = [ring |-> [i \in Index |-> Other], head |-> 0, tail |-> 0, count |-> 0]
          /\ posted = <<>> /\ pump = [at |-> "app", msg |-> Other] /\ overtaken = FALSE
      BY DEF DtInit, MqInit, Index
    <3>3. QueueOk(queue) /\ posted \in Seq(Message) /\ Len(posted) = 0
          /\ pump \in [at : PumpPlace, msg : Message]
      BY <3>1, <3>2 DEF QueueOk, PumpPlace
    <3>4. Copied = 0 /\ ~At("count") /\ ~At("tail") /\ ~At("taken") /\ ~At("advanced")
          /\ pump.at \notin Writing
      BY <3>2 DEF Copied, At, Writing
    <3>5. Holds(queue, posted, 0)
      BY <3>1, <3>2, <3>3 DEF Holds
    <3>6. EndsAt(queue, queue.count - 0)
      BY <3>1, <3>2 DEF EndsAt, Place
    <3>7. PumpFifo
      BY <3>4, <3>5, <3>6 DEF PumpFifo
    <3> QED BY <3>2, <3>3, <3>7 DEF QueueInv
  <2>2. WindowsInv
    <3>1. /\ win = [w \in Slot |-> NoWindow] /\ nwin = 0 /\ nextId = 1 /\ focus = 0 /\ running = 1
          /\ NoWindow \in Window /\ NoWindow.id = 0
      BY DtSizesOK DEF DtInit, NoWindow, Window
    <3>2. Existing = {}
      BY <3>1 DEF Existing, Exists
    <3>3. WindowsCounted
      BY <3>1, <3>2, FS_EmptySet DEF WindowsCounted, Existing, Exists
    <3> QED BY <3>1, <3>3, DtSizesOK DEF WindowsInv, FocusIsAWindow
  <2>3. ShellInv
    <3>1. NoButton \in [part : FrameButton \union {"none"}, slot : 0..MaxWindow] /\ 0 \in 0..MaxId
      BY DtSizesOK DEF NoButton
    <3>2. /\ shell = [minimized |-> {}, drag |-> 0, armed |-> NoButton, menu |-> FALSE]
          /\ left = FALSE /\ once = [active |-> FALSE, injected |-> FALSE, painted |-> FALSE]
      BY DEF DtInit
    <3> QED BY <3>1, <3>2 DEF ShellInv, ArmedWhilePressed
  <2> QED BY <2>1, <2>2, <2>3
<1>2. Inv => DesktopSound
  BY QueuePromises DEF Inv, WindowsInv, ShellInv, DesktopSound, DtTypeOK, Window
<1> QED BY <1>1, <1>2, StepKept, PTL DEF DtSpec

=============================================================================
