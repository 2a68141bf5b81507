---------------------------- MODULE DeviceProofs ----------------------------
(***************************************************************************)
(* Proofs about the devices: the keyboard and mouse behind their           *)
(* controller, the queue the display takes its commands from and the one   *)
(* the tablet puts its events in, for every size of the queues; and about   *)
(* the memory: the heap with the pool, and the frames, for every size.      *)
(***************************************************************************)
EXTENDS ServiceProofs, TrapDispatch, VirtioQueue, KernelHeap, PhysicalMemory, FunctionTheorems

-----------------------------------------------------------------------------
(* The PS/2 controller.                                                      *)

\* Before the mouse streams, what stands in the output, what the port gave last, what lines are
\* raised and what the packet holds, if no key and no motion came.
Answers(b, latch, lines) ==
  /\ psOut = b \/ (psOut = <<>> /\ psLatch = latch)
  /\ psLines \subseteq lines
AcksHeld(n) == psPkt \in Seq({"ack"}) /\ Len(psPkt) <= n - Len(psOut)

BootSteps ==
  /\ psInit \in {"drain", "ask"} =>
       /\ psCfg = "config" /\ psOut = <<>> /\ psLatch = "release" /\ psLines = {} /\ psPkt = <<>>
  /\ psInit = "config" => Answers(<<"config">>, "config", {1}) /\ psPkt = <<>>
  /\ psInit = "write" =>
       psOut = <<>> /\ psLatch = "config" /\ psLines \subseteq {1} /\ psPkt = <<>> /\ psCfg = "config"
  /\ psInit = "defaults" => psOut = <<>> /\ psLatch = "config" /\ psLines = {} /\ psPkt = <<>>
  /\ psInit = "ack" => Answers(<<"ack">>, "ack", {12}) /\ AcksHeld(1)
  /\ psInit = "stream" => psOut = <<>> /\ psLatch = "ack" /\ psLines \subseteq {12} /\ AcksHeld(1)
  /\ psInit = "final" => Answers(<<"ack">>, "ack", {12}) /\ AcksHeld(2)
  /\ psInit \in {"unmask", "reset"} => psOut = <<>> /\ psLatch = "ack" /\ psLines \subseteq {12} /\ AcksHeld(2)

\* Once it streams, the bytes of a motion stand one behind the other, and the packet holds those
\* before the one at the head; the line of the keyboard is raised for one of its bytes only.
Following(b) ==
  /\ b \in Seq(KeyByte \union {"first", "second", "third"})
  /\ \A i \in 1..Len(b) :
       /\ b[i] = "first" => i < Len(b) /\ b[i + 1] = "second"
       /\ b[i] = "second" => i < Len(b) /\ b[i + 1] = "third"
       /\ b[i] = "second" /\ i > 1 => b[i - 1] = "first"
       /\ b[i] = "third" /\ i > 1 => b[i - 1] = "second"
HeldBefore(b) ==
  IF b = <<>> THEN <<>>
  ELSE IF b[1] = "second" THEN <<"first">>
  ELSE IF b[1] = "third" THEN <<"first", "second">> ELSE <<>>
Streaming ==
  /\ Following(psOut) /\ psPkt = HeldBefore(psOut)
  /\ 1 \in psLines => psOut # <<>> /\ psOut[1] \in KeyByte

\* The byte at the head has its line raised, if the configuration lets it.
HeadAnnounced == psOut # <<>> /\ LineOf(Head(psOut)) \in psEnabled => LineOf(Head(psOut)) \in psLines

Ps2Inv ==
  /\ Ps2TypeOK /\ HeadAnnounced
  /\ psInit \notin {"drain", "ask", "config", "write"} => 12 \in psEnabled
  /\ ~disturbed => ~misread /\ BootSteps /\ (psInit = "ready" => Streaming)
  /\ RingIsQueue


\* The ring of characters.
LEMMA RingArithmetic ==
  ASSUME NEW n \in Nat \ {0}, NEW h \in 0..n - 1, NEW t \in 0..n - 1
  PROVE  /\ (h - t) % n = (IF h >= t THEN h - t ELSE h - t + n)
         /\ \A k \in 0..n : (h + k) % n = IF h + k < n THEN h + k ELSE h + k - n
<1>1. (h - t) % n = IF h >= t THEN h - t ELSE h - t + n
  <2>1. h - t \in 0 - n..n - 1
    OBVIOUS
  <2> QED BY <2>1, NearRemainder
<1>2. ASSUME NEW k \in 0..n PROVE (h + k) % n = IF h + k < n THEN h + k ELSE h + k - n
  <2>1. CASE h + k < n
    <3>1. h + k \in 0 - n..n - 1
      BY <2>1
    <3> QED BY <2>1, <3>1, NearRemainder
  <2>2. CASE ~(h + k < n)
    <3>1. h + k - n \in 0..n - 1 /\ n * 1 + (h + k - n) = h + k /\ n > 0 /\ 1 \in Int
      BY <2>2
    <3>2. (n * 1 + (h + k - n)) % n = h + k - n
      BY <3>1, OneRemainder
    <3> QED BY <2>2, <3>1, <3>2
  <2> QED BY <2>1, <2>2
<1> QED BY <1>1, <1>2

RingType ==
  /\ kbuf \in [0..KBD_BUF - 1 -> Char] /\ kHead \in 0..KBD_BUF - 1 /\ kTail \in 0..KBD_BUF - 1
  /\ stdin \in Seq(Char)

\* A character is put behind those that are there.
LEMMA PushKept ==
  ASSUME RingType, RingIsQueue, NEW c \in Char, Push(c)
  PROVE  RingType' /\ RingIsQueue'
<1> DEFINE B == KBD_BUF
           L == Len(stdin)
           next == (kHead + 1) % B
<1>0. B \in Nat \ {0} /\ L \in Nat
  BY Ps2SizesOK DEF RingType
<1>1. CASE next = kTail
  BY <1>1 DEF Push, kbdRing, RingType, RingIsQueue
<1>2. CASE next # kTail
  <2>1. /\ kbuf' = [kbuf EXCEPT ![kHead] = c] /\ kHead' = next /\ stdin' = Append(stdin, c) /\ kTail' = kTail
    BY <1>2 DEF Push
  <2>2. next = (IF kHead + 1 < B THEN kHead + 1 ELSE kHead + 1 - B) /\ next \in 0..B - 1
    BY <1>0, RingArithmetic, 1 \in 0..B DEF RingType
  <2>3. L = IF kHead >= kTail THEN kHead - kTail ELSE kHead - kTail + B
    BY <1>0, RingArithmetic DEF RingIsQueue, RingType
  <2>4. (next - kTail) % B = L + 1
    <3>1. (next - kTail) % B = IF next >= kTail THEN next - kTail ELSE next - kTail + B
      BY <1>0, <2>2, RingArithmetic DEF RingType
    <3>2. kHead \in 0..B - 1 /\ kTail \in 0..B - 1
      BY DEF RingType
    <3> HIDE DEF next, B, L
    <3>3. CASE kHead + 1 < B
      BY ONLY <1>0, <1>2, <2>2, <2>3, <3>1, <3>2, <3>3
    <3>4. CASE ~(kHead + 1 < B)
      BY ONLY <1>0, <1>2, <2>2, <2>3, <3>1, <3>2, <3>4
    <3> QED BY ONLY <3>3, <3>4
  <2>5. /\ stdin' \in Seq(Char) /\ Len(stdin') = L + 1 /\ stdin'[L + 1] = c
        /\ \A k \in 1..L : stdin'[k] = stdin[k]
    BY <2>1, AppendProperties DEF RingType
  <2> HIDE DEF next
  <2>6. RingType'
    BY <2>1, <2>2, <2>5 DEF RingType
  <2>7. \A k \in 1..L + 1 : (kTail + k - 1) % B = IF kTail + k - 1 < B THEN kTail + k - 1 ELSE kTail + k - 1 - B
    <3> TAKE k \in 1..L + 1
    <3>1. k - 1 \in 0..B /\ kTail + k - 1 = kTail + (k - 1)
      BY <1>0, <2>3 DEF RingType
    <3> QED BY <1>0, <3>1, RingArithmetic DEF RingType
  <2>8. ASSUME NEW k \in 1..L + 1 PROVE kbuf'[(kTail + k - 1) % B] = stdin'[k]
    <3>1. CASE k = L + 1
      <4>1. (kTail + k - 1) % B = kHead
        BY <1>0, <2>3, <2>7, <3>1 DEF RingType
      <4> QED BY <2>1, <2>5, <3>1, <4>1 DEF RingType
    <3>2. CASE k # L + 1
      <4>1. (kTail + k - 1) % B # kHead /\ (kTail + k - 1) % B \in 0..B - 1 /\ k \in 1..L
        BY <1>0, <2>3, <2>7, <3>2 DEF RingType
      <4>2. kbuf[(kTail + k - 1) % B] = stdin[k]
        <5>1. DOMAIN stdin = 1..L
          BY DEF RingType
        <5> QED BY <4>1, <5>1 DEF RingIsQueue
      <4> QED BY <2>1, <2>5, <4>1, <4>2 DEF RingType
    <3> QED BY <3>1, <3>2
  <2>9. DOMAIN stdin' = 1..L + 1
    BY <1>0, <2>5
  <2>10. RingIsQueue'
    BY <2>1, <2>4, <2>5, <2>8, <2>9 DEF RingIsQueue
  <2> QED BY <2>6, <2>10
<1> QED BY <1>1, <1>2

\* The first characters are read.
LEMMA StdinKept ==
  ASSUME RingType, RingIsQueue, misread \in BOOLEAN, NEW max \in Nat, StdinRead(max)
  PROVE  RingType' /\ RingIsQueue' /\ misread' = misread
<1> DEFINE B == KBD_BUF
           L == Len(stdin)
           n == IF max < L THEN max ELSE L
           got == [k \in 1..n |-> kbuf[(kTail + k - 1) % B]]
<1>0. B \in Nat \ {0} /\ L \in Nat
  BY Ps2SizesOK DEF RingType
<1>1. (kHead - kTail) % B = L
  BY DEF RingIsQueue
<1>2. /\ n > 0 /\ kTail' = (kTail + n) % B /\ kbuf' = kbuf /\ kHead' = kHead
      /\ misread' = (misread \/ n > L \/ got # SubSeq(stdin, 1, n))
      /\ stdin' = SubSeq(stdin, n + 1, L)
  BY <1>1 DEF StdinRead
<1>3. n \in 1..L
  BY <1>0, <1>2
<1>4. L = IF kHead >= kTail THEN kHead - kTail ELSE kHead - kTail + B
  BY <1>0, <1>1, RingArithmetic DEF RingType
<1>5. got = SubSeq(stdin, 1, n)
  <2>1. \A k \in 1..n : kbuf[(kTail + k - 1) % B] = stdin[k]
    <3>1. DOMAIN stdin = 1..L
      BY DEF RingType
    <3>2. \A k \in 1..n : k \in 1..L
      BY <1>0, <1>3
    <3> QED BY <3>1, <3>2 DEF RingIsQueue
  <2>2. SubSeq(stdin, 1, n) = [k \in 1..n |-> stdin[k]]
    BY <1>0, <1>3 DEF RingType
  <2> QED BY <2>1, <2>2
<1> HIDE DEF n, got
<1>6. misread' = misread
  <2>1. ~(n > L) /\ ~(got # SubSeq(stdin, 1, n))
    BY <1>0, <1>3, <1>5
  <2> QED BY <1>2, <2>1
<1>7. stdin' \in Seq(Char) /\ Len(stdin') = L - n /\ \A k \in 1..L - n : stdin'[k] = stdin[n + k]
  <2>1. \A i \in n + 1..L : stdin[i] \in Char
    BY <1>0, <1>3 DEF RingType
  <2>2. /\ SubSeq(stdin, n + 1, L) \in Seq(Char)
        /\ Len(SubSeq(stdin, n + 1, L)) = IF n + 1 <= L THEN L - (n + 1) + 1 ELSE 0
        /\ \A i \in 1..L - (n + 1) + 1 : SubSeq(stdin, n + 1, L)[i] = stdin[n + 1 + i - 1]
    BY <1>0, <1>3, <2>1, n + 1 \in Int, L \in Int, SubSeqProperties
  <2>3. \A k \in 1..L - n : n + 1 + k - 1 = n + k
    BY <1>0, <1>3
  <2> QED BY <1>0, <1>2, <1>3, <2>2, <2>3
<1>8. n \in 0..B /\ kTail' = (IF kTail + n < B THEN kTail + n ELSE kTail + n - B) /\ kTail' \in 0..B - 1
  <2>1. n \in 0..B
    BY <1>0, <1>3, <1>4 DEF RingType
  <2>2. (kTail + n) % B = IF kTail + n < B THEN kTail + n ELSE kTail + n - B
    BY <1>0, <2>1, RingArithmetic DEF RingType
  <2>3. kTail \in 0..B - 1
    BY DEF RingType
  <2> QED BY <1>0, <1>2, <2>1, <2>2, <2>3
<1>9. RingType'
  BY <1>2, <1>7, <1>8 DEF RingType
<1>10. (kHead - kTail') % B = L - n
  <2>1. (kHead - kTail') % B = IF kHead >= kTail' THEN kHead - kTail' ELSE kHead - kTail' + B
    BY <1>0, <1>8, RingArithmetic DEF RingType
  <2>2. kHead \in 0..B - 1 /\ kTail \in 0..B - 1
    BY DEF RingType
  <2> HIDE DEF B, L
  <2>0. n \in Int /\ kHead \in Int /\ kTail \in Int /\ B \in Int /\ L \in Int
    BY ONLY <1>0, <1>3, <2>2
  <2>3. CASE kTail + n < B
    <3>1. kTail' = kTail + n
      BY ONLY <1>8, <2>3
    <3> QED BY ONLY <1>0, <1>3, <1>4, <2>0, <2>1, <2>2, <3>1
  <2>4. CASE ~(kTail + n < B)
    <3>1. kTail' = kTail + n - B
      BY ONLY <1>8, <2>4
    <3> QED BY ONLY <1>0, <1>3, <1>4, <2>0, <2>1, <2>2, <2>4, <3>1
  <2> QED BY ONLY <2>3, <2>4
<1>11. ASSUME NEW k \in 1..L - n PROVE kbuf[(kTail' + k - 1) % B] = stdin'[k]
  <2>1. kTail' + k - 1 = kTail' + (k - 1) /\ n + k \in 1..L
    BY <1>0, <1>3, <1>4, <1>8 DEF RingType
  <2>2. kTail' = (kTail + n) % B /\ kTail + n \in Int /\ k - 1 \in Int
    BY <1>0, <1>2, <1>3, <2>1 DEF RingType
  <2>3. (((kTail + n) % B) + (k - 1)) % B = ((kTail + n) + (k - 1)) % B
    <3>1. B \in Nat /\ B > 0
      BY <1>0
    <3> HIDE DEF B
    <3> QED BY <2>2, <3>1, RemainderAdds
  <2>4. (kTail' + k - 1) % B = (kTail + (n + k) - 1) % B
    <3>1. (kTail + n) + (k - 1) = kTail + (n + k) - 1
      BY <1>0, <1>3 DEF RingType
    <3> HIDE DEF B, L
    <3> QED BY ONLY <2>1, <2>2, <2>3, <3>1
  <2>5. kbuf[(kTail + (n + k) - 1) % B] = stdin[n + k]
    BY <1>0, <2>1 DEF RingIsQueue, RingType
  <2> QED BY <1>7, <2>4, <2>5
<1>12. DOMAIN stdin' = 1..L - n
  BY <1>0, <1>3, <1>7
<1>13. RingIsQueue'
  BY <1>2, <1>7, <1>10, <1>11, <1>12 DEF RingIsQueue
<1> QED BY <1>6, <1>9, <1>13

PortType ==
  /\ psInit \in Ps2Steps /\ psCfg \in PsByte /\ psOut \in Seq(PsByte) /\ psLatch \in PsByte
  /\ psLines \subseteq {1, 12} /\ psEnabled \subseteq {1, 12} /\ psUnmasked \in BOOLEAN
  /\ psPkt \in Seq(AuxByte) /\ Len(psPkt) < 3
  /\ psArrived \in 0..MaxArrived /\ disturbed \in BOOLEAN /\ misread \in BOOLEAN

LineOn == psInit \notin {"drain", "ask", "config", "write"} => 12 \in psEnabled
Undisturbed == ~disturbed => ~misread /\ BootSteps /\ (psInit = "ready" => Streaming)

LEMMA Ps2Parts ==
  Ps2Inv <=> PortType /\ RingType /\ HeadAnnounced /\ LineOn /\ Undisturbed /\ RingIsQueue
BY DEF Ps2Inv, Ps2TypeOK, PortType, RingType, LineOn, Undisturbed

LEMMA RingStays == ASSUME RingType, RingIsQueue, UNCHANGED kbdRing PROVE RingType' /\ RingIsQueue'
BY DEF RingType, RingIsQueue, kbdRing

LEMMA TwoBytes ==
  ASSUME NEW x, NEW y
  PROVE  Append(<<x>>, y) = <<x, y>> /\ Len(<<x>>) = 1 /\ <<x>> # <<>>
<1>1. Append(<<x>>, y) = <<x, y>>
  <2> DEFINE a == Append(<<x>>, y)
             b == <<x, y>>
  <2>1. <<x>> \in Seq({x, y}) /\ Len(<<x>>) = 1 /\ <<x>>[1] = x
    OBVIOUS
  <2>2. a \in Seq({x, y}) /\ Len(a) = 2 /\ a[1] = x /\ a[2] = y
    BY <2>1, AppendProperties
  <2>3. b \in Seq({x, y}) /\ Len(b) = 2 /\ b[1] = x /\ b[2] = y
    OBVIOUS
  <2> HIDE DEF a, b
  <2>4. \A i \in 1..Len(a) : a[i] = b[i]
    BY <2>2, <2>3
  <2>5. a = b
    BY <2>2, <2>3, <2>4, SeqEqual
  <2> QED BY <2>5 DEF a, b
<1>2. Len(<<x>>) = 1
  OBVIOUS
<1>3. <<x>> # <<>>
  BY <1>2
<1> QED BY <1>1, <1>2, <1>3

LEMMA ThreeBytes ==
  ASSUME NEW x, NEW y, NEW z
  PROVE  Append(<<x, y>>, z) = <<x, y, z>> /\ Len(<<x, y>>) = 2 /\ <<x, y>> # <<>>
<1>1. Append(<<x, y>>, z) = <<x, y, z>>
  <2> DEFINE a == Append(<<x, y>>, z)
             b == <<x, y, z>>
  <2>1. <<x, y>> \in Seq({x, y, z}) /\ Len(<<x, y>>) = 2 /\ <<x, y>>[1] = x /\ <<x, y>>[2] = y
    OBVIOUS
  <2>2. a \in Seq({x, y, z}) /\ Len(a) = 3 /\ a[1] = x /\ a[2] = y /\ a[3] = z
    BY <2>1, AppendProperties
  <2>3. b \in Seq({x, y, z}) /\ Len(b) = 3 /\ b[1] = x /\ b[2] = y /\ b[3] = z
    OBVIOUS
  <2> HIDE DEF a, b
  <2>4. \A i \in 1..Len(a) : a[i] = b[i]
    BY <2>2, <2>3
  <2>5. a = b
    BY <2>2, <2>3, <2>4, SeqEqual
  <2> QED BY <2>5 DEF a, b
<1>2. Len(<<x, y>>) = 2
  OBVIOUS
<1>3. <<x, y>> # <<>>
  BY <1>2
<1> QED BY <1>1, <1>2, <1>3

LEMMA OneByte ==
  ASSUME NEW x
  PROVE  <<x>> # <<>> /\ Head(<<x>>) = x /\ Tail(<<x>>) = <<>> /\ Len(<<x>>) = 1 /\ <<>> \o <<x>> = <<x>> /\ Len(<<>>) = 0
<1>1. <<x>> \in Seq({x}) /\ Len(<<x>>) = 1 /\ <<x>>[1] = x
  OBVIOUS
<1>2. <<x>> # <<>> /\ Head(<<x>>) = x
  BY <1>1
<1>3. Tail(<<x>>) \in Seq({x}) /\ Len(Tail(<<x>>)) = 0
  BY <1>1, <1>2, HeadTailProperties
<1>4. Tail(<<x>>) = <<>>
  BY <1>3, EmptySeq
<1>5. <<>> \o <<x>> = <<x>>
  BY <1>1, ConcatEmptySeq
<1> QED BY <1>1, <1>2, <1>4, <1>5

LEMMA LinesAre == ASSUME NEW x PROVE LineOf(x) \in {1, 12}
BY DEF LineOf

\* Bytes come behind those that stand.
LEMMA QueuedKeeps ==
  ASSUME PortType, HeadAnnounced, NEW b \in Seq(PsByte), b # <<>>, Queued(b), psEnabled' = psEnabled
  PROVE  psOut' \in Seq(PsByte) /\ psLines' \subseteq {1, 12} /\ HeadAnnounced' /\ psOut' = psOut \o b
<1>1. psOut' = psOut \o b /\ psLines' = IF psOut = <<>> THEN psLines \union Announced(b, psEnabled) ELSE psLines
  BY DEF Queued
<1>2. psOut' \in Seq(PsByte)
  BY <1>1, ConcatProperties DEF PortType
<1>3. psLines' \subseteq {1, 12}
  BY <1>1, LinesAre DEF PortType, Announced
<1>4. CASE psOut = <<>>
  <2>1. psOut' = b
    BY <1>1, <1>4, ConcatEmptySeq
  <2>2. psLines' = psLines \union ({LineOf(Head(b))} \intersect psEnabled)
    BY <1>1, <1>4 DEF Announced
  <2> QED BY <1>1, <1>2, <1>3, <2>1, <2>2 DEF HeadAnnounced
<1>5. CASE psOut # <<>>
  <2>1. psOut \in Seq(PsByte) /\ Len(psOut) > 0 /\ Len(psOut) \in Nat
    BY <1>5 DEF PortType
  <2>2. psOut'[1] = psOut[1] /\ psOut' # <<>>
    BY <1>1, <2>1, ConcatProperties
  <2>3. Head(psOut') = Head(psOut)
    BY <1>2, <2>1, <2>2
  <2> QED BY <1>1, <1>2, <1>3, <1>5, <2>3 DEF HeadAnnounced
<1> QED BY <1>4, <1>5

\* The port is read.
LEMMA PortKeeps ==
  ASSUME PortType, NEW left \in SUBSET {1, 12}, PortRead(left), psEnabled' = psEnabled
  PROVE  /\ psOut' \in Seq(PsByte) /\ psLatch' \in PsByte /\ psLines' \subseteq {1, 12} /\ HeadAnnounced'
         /\ PortByte \in PsByte /\ psLatch' = PortByte
<1>1. PortByte \in PsByte
  <2>1. CASE psOut = <<>>
    BY <2>1 DEF PortByte, PortType
  <2>2. CASE psOut # <<>>
    BY <2>2, HeadTailProperties DEF PortByte, PortType
  <2> QED BY <2>1, <2>2
<1>2. CASE psOut = <<>>
  BY <1>1, <1>2 DEF PortRead, PortType, HeadAnnounced
<1>3. CASE psOut # <<>>
  <2>1. psOut' = Tail(psOut) /\ psLines' = left \union Announced(Tail(psOut), psEnabled) /\ psLatch' = PortByte
    BY <1>3 DEF PortRead
  <2>2. Tail(psOut) \in Seq(PsByte)
    BY <1>3, HeadTailProperties DEF PortType
  <2>3. Announced(Tail(psOut), psEnabled) \subseteq {1, 12}
    BY LinesAre DEF Announced
  <2>4. HeadAnnounced'
    BY <2>1 DEF HeadAnnounced, Announced
  <2> QED BY <1>1, <2>1, <2>2, <2>3, <2>4
<1> QED BY <1>2, <1>3

LEMMA Ps2Start == Ps2Init => Ps2Inv
<1> SUFFICES ASSUME Ps2Init PROVE Ps2Inv
  OBVIOUS
<1>1. PortType
  <2>1. psPkt \in Seq(AuxByte) /\ Len(psPkt) < 3 /\ psOut \in Seq(PsByte)
    BY DEF Ps2Init
  <2>2. psInit \in Ps2Steps /\ psCfg \in PsByte /\ psLatch \in PsByte
    BY DEF Ps2Init, Ps2Steps, PsByte, KeyByte
  <2> QED BY <2>1, <2>2, Ps2SizesOK DEF Ps2Init, PortType
<1>2. RingType
  <2>1. 0 \in 0..KBD_BUF - 1
    BY Ps2SizesOK
  <2>2. kbuf \in [0..KBD_BUF - 1 -> Char] /\ stdin \in Seq(Char) /\ kHead = 0 /\ kTail = 0
    BY DEF Ps2Init, Char
  <2> QED BY <2>1, <2>2 DEF RingType
<1>3. RingIsQueue
  <2>1. kHead = 0 /\ kTail = 0 /\ stdin = <<>>
    BY DEF Ps2Init
  <2>2. (0 - 0) % KBD_BUF = 0
    BY Ps2SizesOK, RingArithmetic
  <2>3. Len(stdin) = 0 /\ DOMAIN stdin = {}
    BY <2>1
  <2> QED BY <2>1, <2>2, <2>3 DEF RingIsQueue
<1>4. HeadAnnounced /\ LineOn /\ Undisturbed
  BY DEF Ps2Init, HeadAnnounced, LineOn, Undisturbed, BootSteps
<1> QED BY <1>1, <1>2, <1>3, <1>4, Ps2Parts

LEMMA Ps2Stays == Ps2Inv /\ UNCHANGED ps2Vars => Ps2Inv'
<1> SUFFICES ASSUME Ps2Inv, UNCHANGED ps2Vars PROVE Ps2Inv'
  OBVIOUS
<1>1. PortType' /\ RingType' /\ HeadAnnounced' /\ LineOn'
  BY Ps2Parts DEF ps2Vars, kbdRing, PortType, RingType, HeadAnnounced, LineOn
<1>2. RingIsQueue'
  <2>1. UNCHANGED kbdRing
    BY DEF ps2Vars, kbdRing
  <2> QED BY <2>1, Ps2Parts, RingStays
<1>3. Undisturbed'
  BY Ps2Parts DEF ps2Vars, Undisturbed, BootSteps, Answers, AcksHeld, Streaming
<1> QED BY <1>1, <1>2, <1>3, Ps2Parts DEF Ps2Inv, Ps2TypeOK, PortType, RingType, LineOn, Undisturbed

LEMMA Ps2Promises == Ps2Inv => Ps2TypeOK /\ Ps2Sound
<1> SUFFICES ASSUME Ps2Inv PROVE Ps2TypeOK /\ Ps2Sound
  OBVIOUS
<1>1. ByteAnnounced
  <2> SUFFICES ASSUME psOut # <<>>, psInit = "ready", 1 \in psEnabled PROVE LineOf(Head(psOut)) \in psLines
    BY DEF ByteAnnounced
  <2>1. 12 \in psEnabled
    BY DEF Ps2Inv
  <2> QED BY <2>1, LinesAre DEF Ps2Inv, HeadAnnounced
<1> QED BY <1>1 DEF Ps2Inv, Ps2Sound, ReadForWhatItIs

\* A key or a motion.
LEMMA ArrivalKept ==
  ASSUME Ps2Inv, Moved \/ \E byte \in KeyByte : Typed(byte)
  PROVE  Ps2Inv'
<1>0. PortType /\ RingType /\ HeadAnnounced /\ LineOn /\ Undisturbed /\ RingIsQueue
  BY Ps2Parts
<1>1. /\ psInit' = psInit /\ psCfg' = psCfg /\ psLatch' = psLatch /\ psEnabled' = psEnabled /\ psUnmasked' = psUnmasked
      /\ psPkt' = psPkt /\ UNCHANGED kbdRing /\ misread' = misread
      /\ psArrived < MaxArrived /\ psArrived' = psArrived + 1 /\ disturbed' = (disturbed \/ psInit # "ready")
  BY DEF Moved, Typed
<1>2. PICK b \in Seq(PsByte) : b # <<>> /\ Queued(b) /\ (b = Packet \/ \E byte \in KeyByte : b = <<byte>>)
  <2>1. CASE Moved
    <3>1. Packet \in Seq(PsByte) /\ Packet # <<>>
      BY DEF Packet, PsByte, AuxByte
    <3> QED BY <2>1, <3>1 DEF Moved
  <2>2. ASSUME NEW byte \in KeyByte, Typed(byte) PROVE <<byte>> \in Seq(PsByte) /\ <<byte>> # <<>> /\ Queued(<<byte>>)
    BY <2>2, OneByte DEF Typed, PsByte
  <2> QED BY <2>1, <2>2
<1>3. psOut' \in Seq(PsByte) /\ psLines' \subseteq {1, 12} /\ HeadAnnounced' /\ psOut' = psOut \o b
  BY <1>0, <1>1, <1>2, QueuedKeeps
<1>4. PortType'
  <2>1. psArrived' \in 0..MaxArrived
    BY <1>0, <1>1, Ps2SizesOK DEF PortType
  <2>2. disturbed' \in BOOLEAN
    BY <1>0, <1>1 DEF PortType
  <2> QED BY <1>0, <1>1, <1>3, <2>1, <2>2 DEF PortType
<1>5. RingType' /\ RingIsQueue'
  BY <1>0, <1>1, RingStays
<1>6. LineOn'
  BY <1>0, <1>1 DEF LineOn
<1>7. Undisturbed'
  <2> SUFFICES ASSUME ~disturbed' PROVE ~misread' /\ BootSteps' /\ (psInit' = "ready" => Streaming')
    BY DEF Undisturbed
  <2>1. psInit = "ready" /\ ~disturbed
    BY <1>0, <1>1 DEF PortType
  <2>2. ~misread' /\ BootSteps'
    BY <1>0, <1>1, <2>1 DEF Undisturbed, BootSteps
  <2>3. Streaming
    BY <1>0, <2>1 DEF Undisturbed
  <2> DEFINE Bytes == KeyByte \union {"first", "second", "third"}
  <2>4. psOut \in Seq(Bytes) /\ b \in Seq(Bytes) /\ Len(b) >= 1
    <3>1. psOut \in Seq(Bytes)
      BY <2>3 DEF Streaming, Following
    <3>2. CASE b = Packet
      <4>1. Packet \in Seq(Bytes) /\ Len(Packet) = 3
        BY DEF Packet
      <4> QED BY <3>1, <3>2, <4>1
    <3>3. CASE \E byte \in KeyByte : b = <<byte>>
      BY <3>1, <3>3, OneByte
    <3> QED BY <1>2, <3>2, <3>3
  <2>5. /\ psOut' \in Seq(Bytes) /\ Len(psOut') = Len(psOut) + Len(b)
        /\ \A i \in 1..Len(psOut) : psOut'[i] = psOut[i]
        /\ \A i \in 1..Len(b) : psOut'[Len(psOut) + i] = b[i]
    <3>1. \A i \in 1..Len(psOut) + Len(b) : (psOut \o b)[i] = IF i <= Len(psOut) THEN psOut[i] ELSE b[i - Len(psOut)]
      BY <2>4, ConcatProperties
    <3>2. psOut \o b \in Seq(Bytes) /\ Len(psOut \o b) = Len(psOut) + Len(b)
      BY <2>4, ConcatProperties
    <3>3. \A i \in 1..Len(b) : (psOut \o b)[Len(psOut) + i] = b[i]
      BY <2>4, <3>1
    <3> QED BY <1>3, <2>4, <3>1, <3>2, <3>3
  <2>6. Len(psOut) \in Nat /\ Len(b) \in Nat
    BY <2>4
  <2>7. b[1] \notin {"second", "third"} /\ Following(b)
    <3>1. CASE b = Packet
      <4>1. Len(b) = 3 /\ b[1] = "first" /\ b[2] = "second" /\ b[3] = "third"
        BY <3>1 DEF Packet
      <4>2. \A i \in 1..3 : i = 1 \/ i = 2 \/ i = 3
        OBVIOUS
      <4> QED BY <2>4, <4>1, <4>2 DEF Following
    <3>2. ASSUME NEW byte \in KeyByte, b = <<byte>> PROVE b[1] \notin {"second", "third"} /\ Following(b)
      <4>1. Len(b) = 1 /\ b[1] = byte /\ byte \notin {"first", "second", "third"}
        BY <3>2 DEF KeyByte, Char
      <4>2. \A i \in 1..Len(b) : i = 1
        BY <4>1
      <4> QED BY <2>4, <4>1, <4>2 DEF Following
    <3> QED BY <1>2, <3>1, <3>2
  <2> HIDE DEF Bytes
  <2>8. Following(psOut')
    <3> SUFFICES ASSUME NEW i \in 1..Len(psOut')
                 PROVE  /\ psOut'[i] = "first" => i < Len(psOut') /\ psOut'[i + 1] = "second"
                        /\ psOut'[i] = "second" => i < Len(psOut') /\ psOut'[i + 1] = "third"
                        /\ psOut'[i] = "second" /\ i > 1 => psOut'[i - 1] = "first"
                        /\ psOut'[i] = "third" /\ i > 1 => psOut'[i - 1] = "second"
      BY <2>5 DEF Following, Bytes
    <3>1. CASE i \in 1..Len(psOut)
      <4>1. psOut'[i] = psOut[i]
        BY <2>5, <3>1
      <4>2. i < Len(psOut) => psOut'[i + 1] = psOut[i + 1] /\ i < Len(psOut')
        BY <2>5, <2>6, <3>1
      <4>3. i > 1 => psOut'[i - 1] = psOut[i - 1]
        BY <2>5, <2>6, <3>1
      <4> QED BY <2>3, <3>1, <4>1, <4>2, <4>3 DEF Streaming, Following
    <3>2. CASE i \notin 1..Len(psOut)
      <4> DEFINE j == i - Len(psOut)
      <4>1. j \in 1..Len(b) /\ i = Len(psOut) + j
        BY <2>5, <2>6, <3>2
      <4>2. psOut'[i] = b[j]
        BY <2>5, <4>1
      <4>3. j < Len(b) => psOut'[i + 1] = b[j + 1] /\ i < Len(psOut')
        <5> SUFFICES ASSUME j < Len(b) PROVE psOut'[i + 1] = b[j + 1] /\ i < Len(psOut')
          OBVIOUS
        <5>1. j + 1 \in 1..Len(b) /\ i + 1 = Len(psOut) + (j + 1)
          BY <2>6, <4>1
        <5> QED BY <2>5, <2>6, <4>1, <5>1
      <4>4. j > 1 => psOut'[i - 1] = b[j - 1]
        <5> SUFFICES ASSUME j > 1 PROVE psOut'[i - 1] = b[j - 1]
          OBVIOUS
        <5>1. j - 1 \in 1..Len(b) /\ i - 1 = Len(psOut) + (j - 1)
          BY <2>6, <4>1
        <5> QED BY <2>5, <5>1
      <4>5. CASE j = 1
        <5>1. b[j] \notin {"second", "third"}
          BY <2>7, <4>5
        <5> QED BY <2>7, <4>1, <4>2, <4>3, <5>1 DEF Following
      <4>6. CASE j # 1
        <5>1. j > 1
          BY <4>1, <4>6
        <5> HIDE DEF j
        <5> QED BY <2>7, <4>1, <4>2, <4>3, <4>4, <5>1 DEF Following
      <4> QED BY <4>5, <4>6
    <3> QED BY <3>1, <3>2
  <2>9. psOut' # <<>>
    BY <2>5, <2>6, <2>4
  <2>10. psPkt' = HeldBefore(psOut')
    <3>1. CASE psOut = <<>>
      <4>1. psOut'[1] = b[1]
        BY <2>4, <2>5, <3>1
      <4> QED BY <1>1, <2>3, <2>7, <2>9, <3>1, <4>1 DEF Streaming, HeldBefore
    <3>2. CASE psOut # <<>>
      <4>1. psOut'[1] = psOut[1]
        BY <2>4, <2>5, <3>2
      <4> QED BY <1>1, <2>3, <2>9, <3>2, <4>1 DEF Streaming, HeldBefore
    <3> QED BY <3>1, <3>2
  <2>11. 1 \in psLines' => psOut'[1] \in KeyByte
    <3>1. CASE psOut = <<>>
      <4>1. psOut'[1] = b[1] /\ Head(b) = b[1] /\ 1 \notin psLines
        BY <2>3, <2>4, <2>5, <3>1 DEF Streaming
      <4>2. psLines' = psLines \union ({LineOf(Head(b))} \intersect psEnabled)
        BY <1>2, <3>1 DEF Queued, Announced
      <4>3. b[1] \in Bytes /\ (LineOf(b[1]) = 1 => b[1] \notin AuxByte)
        BY <2>4 DEF LineOf
      <4> QED BY <4>1, <4>2, <4>3 DEF Bytes, AuxByte
    <3>2. CASE psOut # <<>>
      <4>1. psOut'[1] = psOut[1] /\ psLines' = psLines
        BY <1>2, <2>4, <2>5, <3>2 DEF Queued
      <4> QED BY <2>3, <4>1 DEF Streaming
    <3> QED BY <3>1, <3>2
  <2>12. Streaming'
    BY <2>8, <2>9, <2>10, <2>11 DEF Streaming
  <2> QED BY <2>2, <2>12
<1> QED BY <1>3, <1>4, <1>5, <1>6, <1>7 DEF Ps2Inv, Ps2TypeOK, PortType, RingType, LineOn, Undisturbed

\* A command of mouse_init, which is answered at once.
LEMMA AuxCommandKept ==
  ASSUME Ps2Inv, AskConfig \/ SetDefaults \/ EnableStream
  PROVE  Ps2Inv'
<1>0. PortType /\ RingType /\ HeadAnnounced /\ LineOn /\ Undisturbed /\ RingIsQueue
  BY Ps2Parts
<1>1. /\ Pending = {} /\ psCfg' = psCfg /\ psLatch' = psLatch /\ psEnabled' = psEnabled /\ psUnmasked' = psUnmasked
      /\ psPkt' = psPkt /\ UNCHANGED kbdRing /\ misread' = misread /\ psArrived' = psArrived /\ disturbed' = disturbed
  BY DEF AskConfig, SetDefaults, EnableStream, Commands
<1>2. PICK answer \in {"config", "ack"} :
        /\ Queued(<<answer>>)
        /\ \/ psInit = "ask" /\ psInit' = "config" /\ answer = "config"
           \/ psInit = "defaults" /\ psInit' = "ack" /\ answer = "ack"
           \/ psInit = "stream" /\ psInit' = "final" /\ answer = "ack"
  BY DEF AskConfig, SetDefaults, EnableStream, Commands, InitGoes
<1>3. <<answer>> \in Seq(PsByte) /\ <<answer>> # <<>> /\ Head(<<answer>>) = answer /\ Len(<<answer>>) = 1
      /\ <<>> \o <<answer>> = <<answer>>
  <2>1. answer \in PsByte
    BY <1>2 DEF PsByte, AuxByte
  <2> QED BY <2>1, OneByte
<1>4. psOut' \in Seq(PsByte) /\ psLines' \subseteq {1, 12} /\ HeadAnnounced' /\ psOut' = psOut \o <<answer>>
  BY <1>0, <1>1, <1>2, <1>3, QueuedKeeps
<1>5. PortType'
  <2>1. psInit' \in Ps2Steps
    BY <1>2 DEF Ps2Steps
  <2> QED BY <1>0, <1>1, <1>4, <2>1 DEF PortType
<1>6. RingType' /\ RingIsQueue'
  BY <1>0, <1>1, RingStays
<1>7. LineOn'
  BY <1>0, <1>1, <1>2 DEF LineOn
<1>8. Undisturbed'
  <2> SUFFICES ASSUME ~disturbed' PROVE ~misread' /\ BootSteps' /\ (psInit' = "ready" => Streaming')
    BY DEF Undisturbed
  <2>1. ~disturbed /\ ~misread /\ BootSteps
    BY <1>0, <1>1 DEF Undisturbed
  <2>2. psOut = <<>>
    BY <1>2, <2>1 DEF BootSteps
  <2>3. psOut' = <<answer>> /\ psLines' = psLines \union ({LineOf(answer)} \intersect psEnabled)
    BY <1>2, <1>3, <1>4, <2>2 DEF Queued, Announced
  <2>4. LineOf(answer) = IF answer = "ack" THEN 12 ELSE 1
    BY <1>2 DEF LineOf, AuxByte
  <2>5. AcksHeld(1) /\ psInit = "stream" => AcksHeld(2)'
    BY <1>1, <1>3, <2>2, <2>3 DEF AcksHeld, PortType
  <2>6. psPkt = <<>> /\ psInit = "defaults" => AcksHeld(1)'
    BY <1>1, <1>3, <2>3 DEF AcksHeld
  <2>7. BootSteps'
    <3>1. CASE psInit = "ask"
      BY <1>1, <1>2, <2>1, <2>3, <2>4, <3>1 DEF BootSteps, Answers
    <3>2. CASE psInit = "defaults"
      BY <1>1, <1>2, <2>1, <2>3, <2>4, <2>6, <3>2 DEF BootSteps, Answers
    <3>3. CASE psInit = "stream"
      BY <1>1, <1>2, <2>1, <2>3, <2>4, <2>5, <3>3 DEF BootSteps, Answers
    <3> QED BY <1>2, <3>1, <3>2, <3>3
  <2> QED BY <1>1, <1>2, <2>1, <2>7
<1> QED BY <1>4, <1>5, <1>6, <1>7, <1>8 DEF Ps2Inv, Ps2TypeOK, PortType, RingType, LineOn, Undisturbed

\* mouse_init reads the port.
LEMMA PollKept ==
  ASSUME Ps2Inv, DrainOne \/ ReadConfig \/ ReadAck("ack", "stream") \/ ReadAck("final", "unmask")
  PROVE  Ps2Inv'
<1>0. PortType /\ RingType /\ HeadAnnounced /\ LineOn /\ Undisturbed /\ RingIsQueue
  BY Ps2Parts
<1>1. /\ PortRead(psLines) /\ psEnabled' = psEnabled /\ psUnmasked' = psUnmasked
      /\ psPkt' = psPkt /\ UNCHANGED kbdRing /\ misread' = misread /\ psArrived' = psArrived /\ disturbed' = disturbed
  BY DEF DrainOne, ReadConfig, ReadAck
<1>2. \/ psInit = "drain" /\ psInit' = "drain" /\ psOut # <<>> /\ psCfg' = psCfg
      \/ psInit = "config" /\ psInit' = "write" /\ psCfg' = PortByte
      \/ psInit = "ack" /\ psInit' = "stream" /\ psCfg' = psCfg
      \/ psInit = "final" /\ psInit' = "unmask" /\ psCfg' = psCfg
  BY DEF DrainOne, ReadConfig, ReadAck, InitGoes
<1>3. /\ psOut' \in Seq(PsByte) /\ psLatch' \in PsByte /\ psLines' \subseteq {1, 12} /\ HeadAnnounced'
      /\ PortByte \in PsByte /\ psLatch' = PortByte
  <2>1. psLines \in SUBSET {1, 12}
    BY <1>0 DEF PortType
  <2> QED BY <1>0, <1>1, <2>1, PortKeeps
<1>5. PortType'
  <2>1. psInit' \in Ps2Steps /\ psCfg' \in PsByte
    BY <1>0, <1>2, <1>3 DEF Ps2Steps, PortType
  <2> QED BY <1>0, <1>1, <1>3, <2>1 DEF PortType
<1>6. RingType' /\ RingIsQueue'
  BY <1>0, <1>1, RingStays
<1>7. LineOn'
  BY <1>0, <1>1, <1>2 DEF LineOn
<1>8. Undisturbed'
  <2> SUFFICES ASSUME ~disturbed' PROVE ~misread' /\ BootSteps' /\ (psInit' = "ready" => Streaming')
    BY DEF Undisturbed
  <2>1. ~disturbed /\ ~misread /\ BootSteps
    BY <1>0, <1>1 DEF Undisturbed
  <2>2. ASSUME NEW answer, psOut = <<answer>> \/ (psOut = <<>> /\ psLatch = answer)
        PROVE  PortByte = answer /\ psOut' = <<>> /\ psLines' = psLines
    <3>1. CASE psOut = <<>>
      BY <1>1, <2>2, <3>1, OneByte DEF PortByte, PortRead
    <3>2. CASE psOut = <<answer>>
      <4>1. psOut # <<>> /\ Head(psOut) = answer /\ Tail(psOut) = <<>>
        BY <3>2, OneByte
      <4> QED BY <1>1, <4>1 DEF PortByte, PortRead, Announced
    <3> QED BY <2>2, <3>1, <3>2
  <2>3. psOut' = <<>> => (AcksHeld(1) => AcksHeld(1)') /\ (AcksHeld(2) => AcksHeld(2)')
    <3>1. Len(psOut) \in Nat
      BY <1>0 DEF PortType
    <3>2. Len(<<>>) = 0 /\ Len(psPkt) \in Nat
      BY <1>0 DEF PortType
    <3> QED BY <1>1, <3>1, <3>2 DEF AcksHeld
  <2>4. psInit # "drain"
    BY <1>2, <2>1 DEF BootSteps
  <2>5. CASE psInit = "config"
    <3>1. psOut = <<"config">> \/ (psOut = <<>> /\ psLatch = "config")
      BY <2>1, <2>5 DEF BootSteps, Answers
    <3>2. PortByte = "config" /\ psOut' = <<>> /\ psLines' = psLines
      BY <2>2, <3>1
    <3> QED BY <1>1, <1>2, <1>3, <2>1, <2>5, <3>2 DEF BootSteps, Answers
  <2>6. CASE psInit = "ack"
    <3>1. (psOut = <<"ack">> \/ (psOut = <<>> /\ psLatch = "ack")) /\ AcksHeld(1) /\ psLines \subseteq {12}
      BY <2>1, <2>6 DEF BootSteps, Answers
    <3>2. PortByte = "ack" /\ psOut' = <<>> /\ psLines' = psLines
      BY <2>2, <3>1
    <3>3. AcksHeld(1)'
      BY <2>3, <3>1, <3>2
    <3> QED BY <1>1, <1>2, <1>3, <2>1, <2>6, <3>1, <3>2, <3>3 DEF BootSteps
  <2>7. CASE psInit = "final"
    <3>1. (psOut = <<"ack">> \/ (psOut = <<>> /\ psLatch = "ack")) /\ AcksHeld(2) /\ psLines \subseteq {12}
      BY <2>1, <2>7 DEF BootSteps, Answers
    <3>2. PortByte = "ack" /\ psOut' = <<>> /\ psLines' = psLines
      BY <2>2, <3>1
    <3>3. AcksHeld(2)'
      BY <2>3, <3>1, <3>2
    <3> QED BY <1>1, <1>2, <1>3, <2>1, <2>7, <3>1, <3>2, <3>3 DEF BootSteps
  <2> QED BY <1>2, <2>4, <2>5, <2>6, <2>7
<1> QED BY <1>3, <1>5, <1>6, <1>7, <1>8 DEF Ps2Inv, Ps2TypeOK, PortType, RingType, LineOn, Undisturbed

\* The other steps of mouse_init.
LEMMA SetUpKept ==
  ASSUME Ps2Inv, DrainEnds \/ WriteConfig \/ UnmaskIrq12 \/ ResetPhase
  PROVE  Ps2Inv'
<1>0. PortType /\ RingType /\ HeadAnnounced /\ LineOn /\ Undisturbed /\ RingIsQueue
  BY Ps2Parts
<1>1. psCfg' = psCfg /\ psOut' = psOut /\ psLatch' = psLatch /\ psArrived' = psArrived /\ UNCHANGED kbdRing /\ disturbed' = disturbed
  BY DEF DrainEnds, WriteConfig, UnmaskIrq12, ResetPhase
<1>2. RingType' /\ RingIsQueue'
  BY <1>0, <1>1, RingStays
<1>3. CASE WriteConfig
  <2>1. PICK keys \in {{}, {1}} :
          /\ psEnabled' = {12} \union keys /\ psLines' = psLines \union Announced(psOut, {12} \union keys)
          /\ psCfg = "config" => keys = {1}
    BY <1>3 DEF WriteConfig
  <2>2. /\ psInit = "write" /\ psInit' = "defaults" /\ Pending = {} /\ misread' = (misread \/ psCfg # "config")
        /\ psUnmasked' = psUnmasked /\ psPkt' = psPkt
    BY <1>3 DEF WriteConfig, InitGoes
  <2>3. psLines' \subseteq {1, 12} /\ psEnabled' \subseteq {1, 12} /\ psInit' \in Ps2Steps /\ misread' \in BOOLEAN
    BY <1>0, <2>1, <2>2, LinesAre DEF PortType, Announced, Ps2Steps
  <2>4. PortType'
    BY <1>0, <1>1, <2>2, <2>3 DEF PortType
  <2>5. HeadAnnounced'
    BY <1>1, <2>1 DEF HeadAnnounced, Announced
  <2>6. LineOn'
    BY <2>1 DEF LineOn
  <2>7. Undisturbed'
    <3> SUFFICES ASSUME ~disturbed PROVE ~misread' /\ BootSteps'
      BY <1>1, <2>2 DEF Undisturbed
    <3>1. ~misread /\ psOut = <<>> /\ psLatch = "config" /\ psLines \subseteq {1} /\ psPkt = <<>> /\ psCfg = "config"
      BY <1>0, <2>2 DEF Undisturbed, BootSteps
    <3>2. psLines = {}
      BY <2>2, <3>1 DEF Pending
    <3>3. psLines' = {}
      BY <2>1, <3>1, <3>2 DEF Announced
    <3> QED BY <1>1, <2>2, <3>1, <3>3 DEF BootSteps
  <2> QED BY <1>2, <2>4, <2>5, <2>6, <2>7 DEF Ps2Inv, Ps2TypeOK, PortType, RingType, LineOn, Undisturbed
<1>4. CASE DrainEnds \/ UnmaskIrq12 \/ ResetPhase
  <2>1. /\ psEnabled' = psEnabled /\ psLines' = psLines /\ misread' = misread
        /\ \/ psInit = "drain" /\ psInit' = "ask" /\ psPkt' = psPkt /\ psUnmasked' = psUnmasked
           \/ psInit = "unmask" /\ psInit' = "reset" /\ psPkt' = psPkt /\ psUnmasked' = TRUE
           \/ psInit = "reset" /\ psInit' = "ready" /\ psPkt' = <<>> /\ psUnmasked' = psUnmasked
    BY <1>4 DEF DrainEnds, UnmaskIrq12, ResetPhase, InitGoes
  <2>2. PortType'
    <3>1. psInit' \in Ps2Steps /\ psUnmasked' \in BOOLEAN
      BY <1>0, <2>1 DEF Ps2Steps, PortType
    <3>2. psPkt' \in Seq(AuxByte) /\ Len(psPkt') < 3
      <4>1. <<>> \in Seq(AuxByte) /\ Len(<<>>) < 3
        OBVIOUS
      <4> QED BY <1>0, <2>1, <4>1 DEF PortType
    <3> QED BY <1>0, <1>1, <2>1, <3>1, <3>2 DEF PortType
  <2>3. HeadAnnounced' /\ LineOn'
    BY <1>0, <1>1, <2>1 DEF HeadAnnounced, LineOn
  <2>4. Undisturbed'
    <3> SUFFICES ASSUME ~disturbed PROVE ~misread' /\ BootSteps' /\ (psInit' = "ready" => Streaming')
      BY <1>1 DEF Undisturbed
    <3>1. ~misread /\ BootSteps
      BY <1>0 DEF Undisturbed
    <3>2. BootSteps'
      BY <1>1, <2>1, <3>1 DEF BootSteps, AcksHeld
    <3>3. psInit' = "ready" => Streaming'
      <4> SUFFICES ASSUME psInit' = "ready" PROVE Streaming'
        OBVIOUS
      <4>1. psOut' = <<>> /\ psLines' \subseteq {12} /\ psPkt' = <<>>
        BY <1>1, <2>1, <3>1 DEF BootSteps
      <4>2. Following(<<>>)
        BY DEF Following
      <4> QED BY <4>1, <4>2 DEF Streaming, HeldBefore
    <3> QED BY <2>1, <3>1, <3>2, <3>3
  <2> QED BY <1>2, <2>2, <2>3, <2>4 DEF Ps2Inv, Ps2TypeOK, PortType, RingType, LineOn, Undisturbed
<1> QED BY <1>3, <1>4

\* A process reads the console.
LEMMA ConsoleKept ==
  ASSUME Ps2Inv, NEW max \in 1..2, StdinRead(max)
  PROVE  Ps2Inv'
<1>0. PortType /\ RingType /\ HeadAnnounced /\ LineOn /\ Undisturbed /\ RingIsQueue
  BY Ps2Parts
<1>1. UNCHANGED <<psInit, psCfg, psOut, psLatch, psLines, psEnabled, psUnmasked, psPkt, psArrived, disturbed>>
  BY DEF StdinRead
<1>2. RingType' /\ RingIsQueue' /\ misread' = misread
  <2>1. misread \in BOOLEAN /\ max \in Nat
    BY <1>0 DEF PortType
  <2> QED BY <1>0, <2>1, StdinKept
<1>3. PortType' /\ HeadAnnounced' /\ LineOn'
  BY <1>0, <1>1, <1>2 DEF PortType, HeadAnnounced, LineOn
<1>4. Undisturbed'
  BY <1>0, <1>1, <1>2 DEF Undisturbed, BootSteps, Answers, AcksHeld, Streaming
<1> QED BY <1>2, <1>3, <1>4 DEF Ps2Inv, Ps2TypeOK, PortType, RingType, LineOn, Undisturbed

\* The byte at the head is taken, and what follows it comes to stand there.
LEMMA HeadTaken ==
  ASSUME Following(psOut), psOut # <<>>
  PROVE  /\ Following(Tail(psOut)) /\ psOut[1] = Head(psOut) /\ psOut[1] \in KeyByte \union {"first", "second", "third"}
         /\ psOut[1] = "first" => HeldBefore(Tail(psOut)) = <<"first">>
         /\ psOut[1] = "second" => HeldBefore(Tail(psOut)) = <<"first", "second">>
         /\ psOut[1] \notin {"first", "second"} => HeldBefore(Tail(psOut)) = <<>>
<1> DEFINE Bytes == KeyByte \union {"first", "second", "third"}
           t == Tail(psOut)
           n == Len(psOut)
<1>1. psOut \in Seq(Bytes) /\ n \in Nat /\ n >= 1 /\ psOut[1] = Head(psOut) /\ psOut[1] \in Bytes
  BY DEF Following
<1>2. t \in Seq(Bytes) /\ Len(t) = n - 1 /\ \A i \in 1..n - 1 : t[i] = psOut[i + 1]
  BY <1>1, HeadTailProperties
<1>3. \A i \in 1..n :
       /\ psOut[i] = "first" => i < n /\ psOut[i + 1] = "second"
       /\ psOut[i] = "second" => i < n /\ psOut[i + 1] = "third"
       /\ psOut[i] = "second" /\ i > 1 => psOut[i - 1] = "first"
       /\ psOut[i] = "third" /\ i > 1 => psOut[i - 1] = "second"
  BY DEF Following
<1> HIDE DEF t, n, Bytes
<1>4. ASSUME NEW i \in 1..n - 1
      PROVE  /\ t[i] = "first" => i < n - 1 /\ t[i + 1] = "second"
             /\ t[i] = "second" => i < n - 1 /\ t[i + 1] = "third"
             /\ t[i] = "second" /\ i > 1 => t[i - 1] = "first"
             /\ t[i] = "third" /\ i > 1 => t[i - 1] = "second"
  <2>1. i + 1 \in 1..n /\ t[i] = psOut[i + 1] /\ i + 1 > 1
    BY <1>1, <1>2
  <2>2. i < n - 1 => i + 1 \in 1..n - 1 /\ t[i + 1] = psOut[(i + 1) + 1] /\ i + 1 < n
    <3>1. i < n - 1 => i + 1 \in 1..n - 1
      BY <1>1
    <3> QED BY <1>1, <1>2, <3>1
  <2>3. i > 1 => t[i - 1] = psOut[(i + 1) - 1]
    <3>1. i > 1 => i - 1 \in 1..n - 1 /\ (i - 1) + 1 = (i + 1) - 1
      BY <1>1
    <3> QED BY <1>2, <3>1
  <2>4. i + 1 < n => i < n - 1
    BY <1>1
  <2> QED BY <1>3, <2>1, <2>2, <2>3, <2>4
<1>5. Following(t)
  BY <1>2, <1>4 DEF Following, Bytes
<1>6. psOut[1] = "first" => HeldBefore(t) = <<"first">>
  <2> SUFFICES ASSUME psOut[1] = "first" PROVE HeldBefore(t) = <<"first">>
    OBVIOUS
  <2>1. 1 \in 1..n /\ 1 < n /\ psOut[1 + 1] = "second"
    BY <1>1, <1>3
  <2>2. t[1] = "second" /\ t # <<>>
    BY <1>1, <1>2, <2>1
  <2> QED BY <2>2 DEF HeldBefore
<1>7. psOut[1] = "second" => HeldBefore(t) = <<"first", "second">>
  <2> SUFFICES ASSUME psOut[1] = "second" PROVE HeldBefore(t) = <<"first", "second">>
    OBVIOUS
  <2>1. 1 \in 1..n /\ 1 < n /\ psOut[1 + 1] = "third"
    BY <1>1, <1>3
  <2>2. t[1] = "third" /\ t # <<>>
    BY <1>1, <1>2, <2>1
  <2> QED BY <2>2 DEF HeldBefore
<1>8. psOut[1] \notin {"first", "second"} => HeldBefore(t) = <<>>
  <2> SUFFICES ASSUME psOut[1] \notin {"first", "second"}, t # <<>> PROVE t[1] \notin {"second", "third"}
    BY DEF HeldBefore
  <2>1. n > 1
    <3> SUFFICES ASSUME n = 1 PROVE FALSE
      BY <1>1
    <3>1. Len(t) = 0
      BY <1>2
    <3> QED BY <1>2, <3>1, EmptySeq
  <2>2. 2 \in 1..n /\ 1 \in 1..n - 1 /\ t[1] = psOut[2] /\ 2 - 1 = 1 /\ 2 > 1
    BY <1>1, <1>2, <2>1
  <2> QED BY <1>3, <2>2
<1> QED BY <1>1, <1>5, <1>6, <1>7, <1>8 DEF t, Bytes

\* keyboard_irq.
LEMMA KeyboardKept ==
  ASSUME Ps2Inv, NEW hasWindows \in BOOLEAN, KeyboardIrq(hasWindows)
  PROVE  Ps2Inv'
<1>0. PortType /\ RingType /\ HeadAnnounced /\ LineOn /\ Undisturbed /\ RingIsQueue
  BY Ps2Parts
<1>1. UNCHANGED <<psInit, psCfg, psEnabled, psUnmasked, psPkt, psArrived, disturbed>> /\ 1 \in psLines
  BY DEF KeyboardIrq, Pending
<1>l. LineOn'
  BY <1>0, <1>1 DEF LineOn
<1>2. CASE psOut # <<>> /\ Head(psOut) \in AuxByte
  <2>1. psLines' = psLines \ {1} /\ UNCHANGED <<psOut, psLatch, kbdRing, misread>>
    BY <1>2 DEF KeyboardIrq
  <2>2. RingType' /\ RingIsQueue'
    BY <1>0, <2>1, RingStays
  <2>3. PortType'
    BY <1>0, <1>1, <2>1 DEF PortType
  <2>4. HeadAnnounced'
    BY <1>0, <1>1, <1>2, <2>1 DEF HeadAnnounced, LineOf
  <2>5. Undisturbed'
    <3> SUFFICES ASSUME ~disturbed PROVE ~misread /\ BootSteps' /\ (psInit = "ready" => Streaming')
      BY <1>1, <2>1 DEF Undisturbed
    <3>1. ~misread /\ BootSteps /\ (psInit = "ready" => Streaming)
      BY <1>0 DEF Undisturbed
    <3>2. BootSteps'
      <4>1. psLines' \subseteq psLines
        BY <2>1
      <4> QED BY <1>1, <2>1, <3>1, <4>1 DEF BootSteps, Answers, AcksHeld
    <3> QED BY <1>1, <2>1, <3>1, <3>2 DEF Streaming
  <2> QED BY <1>l, <2>2, <2>3, <2>4, <2>5 DEF Ps2Inv, Ps2TypeOK, PortType, RingType, LineOn, Undisturbed
<1>3. CASE ~(psOut # <<>> /\ Head(psOut) \in AuxByte)
  <2>1. /\ PortRead(psLines \ {1}) /\ misread' = (misread \/ (psOut = <<>> /\ CharOf(PortByte) # {<<>>}))
        /\ \E c \in CharOf(PortByte) : IF c = <<>> \/ hasWindows THEN UNCHANGED kbdRing ELSE Push(c[1])
    BY <1>3 DEF KeyboardIrq
  <2>2. psLines \ {1} \in SUBSET {1, 12}
    BY <1>0 DEF PortType
  <2>3. /\ psOut' \in Seq(PsByte) /\ psLatch' \in PsByte /\ psLines' \subseteq {1, 12} /\ HeadAnnounced'
        /\ PortByte \in PsByte /\ psLatch' = PortByte
    BY <1>0, <1>1, <2>1, <2>2, PortKeeps
  <2>4. RingType' /\ RingIsQueue'
    <3>1. PICK c \in CharOf(PortByte) : IF c = <<>> \/ hasWindows THEN UNCHANGED kbdRing ELSE Push(c[1])
      BY <2>1
    <3>2. c = <<>> \/ c[1] \in Char
      BY <3>1 DEF CharOf, Char
    <3>3. UNCHANGED kbdRing \/ (c[1] \in Char /\ Push(c[1]))
      BY <3>1, <3>2
    <3> QED BY <1>0, <3>3, RingStays, PushKept
  <2>5. PortType'
    <3>1. misread' \in BOOLEAN
      BY <2>1, <1>0 DEF PortType
    <3> QED BY <1>0, <1>1, <2>3, <3>1 DEF PortType
  <2>6. Undisturbed'
    <3> SUFFICES ASSUME ~disturbed PROVE ~misread' /\ BootSteps' /\ (psInit = "ready" => Streaming')
      BY <1>1 DEF Undisturbed
    <3>1. ~misread /\ BootSteps /\ (psInit = "ready" => Streaming)
      BY <1>0 DEF Undisturbed
    <3>2. psInit \in {"config", "write", "ready"}
      BY <1>0, <1>1, <3>1 DEF BootSteps, Answers, PortType, Ps2Steps
    <3>3. CASE psInit \in {"config", "write"}
      <4>1. (psOut = <<"config">> \/ (psOut = <<>> /\ psLatch = "config")) /\ (psInit = "write" => psOut = <<>>)
            /\ psLines \subseteq {1} /\ psPkt = <<>> /\ (psInit = "write" => psCfg = "config")
        BY <3>1, <3>3 DEF BootSteps, Answers
      <4>2. PortByte = "config" /\ psOut' = <<>> /\ psLines' = psLines \ {1}
        <5>1. CASE psOut = <<>>
          BY <2>1, <4>1, <5>1, OneByte DEF PortByte, PortRead
        <5>2. CASE psOut = <<"config">>
          <6>1. psOut # <<>> /\ Head(psOut) = "config" /\ Tail(psOut) = <<>>
            BY <5>2, OneByte
          <6> QED BY <2>1, <6>1 DEF PortByte, PortRead, Announced
        <5> QED BY <4>1, <5>1, <5>2
      <4>3. CharOf("config") = {<<>>}
        BY DEF CharOf, Char, AuxByte
      <4>4. ~misread'
        BY <2>1, <3>1, <4>2, <4>3
      <4> QED BY <1>1, <2>3, <3>3, <4>1, <4>2, <4>4 DEF BootSteps, Answers
    <3>4. CASE psInit = "ready"
      <4>1. Following(psOut) /\ psPkt = HeldBefore(psOut) /\ psOut # <<>> /\ psOut[1] \in KeyByte
        BY <1>1, <3>1, <3>4 DEF Streaming
      <4>2. ~misread'
        BY <2>1, <3>1, <4>1
      <4>3. psOut' = Tail(psOut) /\ psLines' = (psLines \ {1}) \union Announced(Tail(psOut), psEnabled)
        BY <2>1, <4>1 DEF PortRead
      <4>4. psOut[1] \notin {"first", "second", "third"}
        BY <4>1 DEF KeyByte, Char
      <4>5. Following(psOut') /\ HeldBefore(psOut') = <<>>
        BY <4>1, <4>3, <4>4, HeadTaken
      <4>6. psPkt' = <<>>
        BY <1>1, <4>1, <4>4 DEF HeldBefore
      <4>7. 1 \in psLines' => psOut' # <<>> /\ psOut'[1] \in KeyByte
        <5> SUFFICES ASSUME 1 \in psLines' PROVE psOut' # <<>> /\ psOut'[1] \in KeyByte
          OBVIOUS
        <5>1. psOut' # <<>> /\ LineOf(Head(psOut')) = 1
          BY <4>3 DEF Announced
        <5>2. Head(psOut') \notin AuxByte
          BY <5>1 DEF LineOf
        <5>3. Head(psOut') = psOut'[1] /\ psOut'[1] \in KeyByte \union {"first", "second", "third"}
          BY <4>5, <5>1 DEF Following
        <5> QED BY <5>1, <5>2, <5>3 DEF AuxByte
      <4> QED BY <1>1, <3>4, <4>2, <4>5, <4>6, <4>7 DEF Streaming, BootSteps
    <3> QED BY <3>2, <3>3, <3>4
  <2> QED BY <1>l, <2>3, <2>4, <2>5, <2>6 DEF Ps2Inv, Ps2TypeOK, PortType, RingType, LineOn, Undisturbed
<1> QED BY <1>2, <1>3

\* mouse_irq.
LEMMA MouseKept ==
  ASSUME Ps2Inv, MouseIrq
  PROVE  Ps2Inv'
<1>0. PortType /\ RingType /\ HeadAnnounced /\ LineOn /\ Undisturbed /\ RingIsQueue
  BY Ps2Parts
<1>1. UNCHANGED <<psInit, psCfg, psEnabled, psUnmasked, psArrived, disturbed, kbdRing>> /\ 12 \in psLines
  BY DEF MouseIrq, Pending
<1>l. LineOn' /\ RingType' /\ RingIsQueue'
  BY <1>0, <1>1, RingStays DEF LineOn
<1>2. CASE psOut = <<>> \/ Head(psOut) \notin AuxByte
  <2>1. psLines' = psLines \ {12} /\ UNCHANGED <<psOut, psLatch, psPkt, misread>>
    BY <1>2 DEF MouseIrq
  <2>3. PortType'
    BY <1>0, <1>1, <2>1 DEF PortType
  <2>4. HeadAnnounced'
    BY <1>0, <1>1, <1>2, <2>1 DEF HeadAnnounced, LineOf
  <2>5. Undisturbed'
    <3> SUFFICES ASSUME ~disturbed PROVE ~misread /\ BootSteps' /\ (psInit = "ready" => Streaming')
      BY <1>1, <2>1 DEF Undisturbed
    <3>1. ~misread /\ BootSteps /\ (psInit = "ready" => Streaming)
      BY <1>0 DEF Undisturbed
    <3>2. BootSteps'
      <4>1. psLines' \subseteq psLines
        BY <2>1
      <4> QED BY <1>1, <2>1, <3>1, <4>1 DEF BootSteps, Answers, AcksHeld
    <3> QED BY <1>1, <2>1, <3>1, <3>2 DEF Streaming
  <2> QED BY <1>l, <2>3, <2>4, <2>5 DEF Ps2Inv, Ps2TypeOK, PortType, RingType, LineOn, Undisturbed
<1>3. CASE psOut # <<>> /\ Head(psOut) \in AuxByte
  <2>1. PortRead(psLines \ {12}) /\ Assembles(Head(psOut))
    BY <1>3 DEF MouseIrq
  <2>2. psLines \ {12} \in SUBSET {1, 12}
    BY <1>0 DEF PortType
  <2>3. /\ psOut' \in Seq(PsByte) /\ psLatch' \in PsByte /\ psLines' \subseteq {1, 12} /\ HeadAnnounced'
        /\ PortByte \in PsByte /\ psLatch' = PortByte
    BY <1>0, <1>1, <2>1, <2>2, PortKeeps
  <2>4. PortType'
    <3>1. misread' \in BOOLEAN
      BY <2>1, <1>0 DEF PortType, Assembles
    <3>2. psPkt' \in Seq(AuxByte) /\ Len(psPkt') < 3
      <4>1. /\ Append(psPkt, Head(psOut)) \in Seq(AuxByte) /\ Len(Append(psPkt, Head(psOut))) = Len(psPkt) + 1
            /\ Len(psPkt) \in Nat /\ <<>> \in Seq(AuxByte) /\ Len(<<>>) < 3
        BY <1>0, <1>3, AppendProperties DEF PortType
      <4>2. psPkt' = psPkt \/ (Len(psPkt) < 2 /\ psPkt' = Append(psPkt, Head(psOut))) \/ psPkt' = <<>>
        BY <2>1 DEF Assembles
      <4>0. psPkt \in Seq(AuxByte) /\ Len(psPkt) < 3
        BY <1>0 DEF PortType
      <4>a. CASE psPkt' = psPkt
        BY <4>a, <4>0
      <4>b. CASE Len(psPkt) < 2 /\ psPkt' = Append(psPkt, Head(psOut))
        <5>1. Len(psPkt') = Len(psPkt) + 1 /\ psPkt' \in Seq(AuxByte)
          BY <4>b, <4>1
        <5>2. Len(psPkt) + 1 < 3
          BY <4>b, <4>1
        <5> QED BY <5>1, <5>2
      <4>c. CASE psPkt' = <<>>
        BY <4>c, <4>1
      <4> QED BY <4>2, <4>a, <4>b, <4>c
    <3> QED BY <1>0, <1>1, <2>3, <3>1, <3>2 DEF PortType
  <2>5. Undisturbed'
    <3> SUFFICES ASSUME ~disturbed PROVE ~misread' /\ BootSteps' /\ (psInit = "ready" => Streaming')
      BY <1>1 DEF Undisturbed
    <3>1. ~misread /\ BootSteps /\ (psInit = "ready" => Streaming)
      BY <1>0 DEF Undisturbed
    <3>2. psInit \in {"ack", "final", "ready"}
      BY <1>0, <1>1, <1>3, <3>1 DEF BootSteps, Answers, PortType, Ps2Steps
    <3>3. CASE psInit \in {"ack", "final"}
      <4>1. psOut = <<"ack">> /\ psLines \subseteq {12} /\ psPkt \in Seq({"ack"}) /\ (psInit = "ack" => AcksHeld(1))
            /\ (psInit = "final" => AcksHeld(2))
        BY <1>3, <3>1, <3>3 DEF BootSteps, Answers, AcksHeld
      <4>2. Head(psOut) = "ack" /\ Tail(psOut) = <<>> /\ Len(psOut) = 1 /\ Len(<<>>) = 0
        BY <4>1, OneByte
      <4>3. psOut' = <<>> /\ psLines' = psLines \ {12} /\ psLatch' = "ack"
        BY <1>3, <2>1, <4>2 DEF PortRead, PortByte, Announced
      <4>4. Len(psPkt) \in Nat /\ (psInit = "ack" => Len(psPkt) <= 0) /\ Len(psPkt) <= 1
        BY <1>0, <3>3, <4>1, <4>2 DEF AcksHeld, PortType
      <4>5. Assembles("ack")
        BY <2>1, <4>2
      <4>6. misread' = misread /\ psPkt' = Append(psPkt, "ack")
        <5>1. "ack" \notin {"second", "third"} /\ Len(psPkt) # 2
          BY ONLY <4>4
        <5> QED BY ONLY <4>5, <5>1 DEF Assembles
      <4>7. psPkt' \in Seq({"ack"}) /\ Len(psPkt') = Len(psPkt) + 1
        BY <4>1, <4>6, AppendProperties
      <4>8. (psInit = "ack" => AcksHeld(1)') /\ (psInit = "final" => AcksHeld(2)')
        BY <4>2, <4>3, <4>4, <4>7 DEF AcksHeld
      <4> QED BY <1>1, <3>1, <3>3, <4>1, <4>3, <4>6, <4>8 DEF BootSteps, Answers
    <3>4. CASE psInit = "ready"
      <4>1. Following(psOut) /\ psPkt = HeldBefore(psOut) /\ Head(psOut) = psOut[1]
        BY <1>3, <3>1, <3>4, HeadTaken DEF Streaming
      <4>2. psOut[1] \in {"first", "second", "third"}
        BY <1>3, <4>1, HeadTaken DEF AuxByte, KeyByte, Char
      <4>3. psOut' = Tail(psOut) /\ psLines' = (psLines \ {12}) \union Announced(Tail(psOut), psEnabled)
        BY <1>3, <2>1 DEF PortRead
      <4>4. Following(psOut')
        BY <1>3, <4>1, <4>3, HeadTaken
      <4>5. ~misread' /\ psPkt' = HeldBefore(psOut')
        <5>1. CASE psOut[1] = "first"
          <6>1. psPkt = <<>> /\ HeldBefore(psOut') = <<"first">>
            BY <1>3, <4>1, <4>3, <5>1, HeadTaken DEF HeldBefore
          <6>2. Append(psPkt, "first") = <<"first">> /\ Len(psPkt) = 0
            BY <6>1
          <6> QED BY <2>1, <3>1, <4>1, <5>1, <6>1, <6>2 DEF Assembles
        <5>2. CASE psOut[1] = "second"
          <6>1. psPkt = <<"first">> /\ HeldBefore(psOut') = <<"first", "second">>
            BY <1>3, <4>1, <4>3, <5>2, HeadTaken DEF HeldBefore
          <6>2. Append(psPkt, "second") = <<"first", "second">> /\ Len(psPkt) = 1 /\ psPkt # <<>>
            BY <6>1, TwoBytes
          <6> QED BY <2>1, <3>1, <4>1, <5>2, <6>1, <6>2 DEF Assembles
        <5>3. CASE psOut[1] = "third"
          <6>1. psPkt = <<"first", "second">> /\ HeldBefore(psOut') = <<>>
            BY <1>3, <4>1, <4>3, <5>3, HeadTaken DEF HeldBefore
          <6>2. Append(psPkt, "third") = Packet /\ Len(psPkt) = 2 /\ psPkt # <<>>
            BY <6>1, ThreeBytes DEF Packet
          <6>3. psPkt' = <<>>
            BY <2>1, <3>1, <5>3, <6>2 DEF Assembles
          <6>4. ~misread'
            <7>1. misread' = misread \/ misread' = (misread \/ Append(psPkt, Head(psOut)) # Packet)
              BY ONLY <2>1, Zenon DEF Assembles
            <7>2. Append(psPkt, Head(psOut)) = Packet /\ ~misread
              BY ONLY <4>1, <5>3, <6>2, <3>1
            <7> QED BY ONLY <7>1, <7>2, Zenon
          <6> QED BY <3>1, <4>1, <6>1, <6>3, <6>4
        <5> QED BY <4>2, <5>1, <5>2, <5>3
      <4>6. 1 \in psLines' => psOut' # <<>> /\ psOut'[1] \in KeyByte
        <5> SUFFICES ASSUME 1 \in psLines' PROVE psOut' # <<>> /\ psOut'[1] \in KeyByte
          OBVIOUS
        <5>1. 1 \notin psLines
          BY <3>1, <3>4, <4>2 DEF Streaming, KeyByte, Char
        <5>2. psOut' # <<>> /\ LineOf(Head(psOut')) = 1
          BY <4>3, <5>1 DEF Announced
        <5>3. Head(psOut') \notin AuxByte
          BY <5>2 DEF LineOf
        <5>4. Head(psOut') = psOut'[1] /\ psOut'[1] \in KeyByte \union {"first", "second", "third"}
          BY <4>4, <5>2 DEF Following
        <5> QED BY <5>2, <5>3, <5>4 DEF AuxByte
      <4> QED BY <1>1, <3>4, <4>4, <4>5, <4>6 DEF Streaming, BootSteps
    <3> QED BY <3>2, <3>3, <3>4
  <2> QED BY <1>l, <2>3, <2>4, <2>5 DEF Ps2Inv, Ps2TypeOK, PortType, RingType, LineOn, Undisturbed
<1> QED BY <1>2, <1>3

LEMMA Ps2StepKept == Ps2Inv /\ [Ps2Next]_ps2Vars => Ps2Inv'
<1> SUFFICES ASSUME Ps2Inv, [Ps2Next]_ps2Vars PROVE Ps2Inv'
  OBVIOUS
<1>1. CASE UNCHANGED ps2Vars
  BY <1>1, Ps2Stays
<1>2. CASE Ps2Next
  BY <1>2, ArrivalKept, PollKept, AuxCommandKept, SetUpKept, KeyboardKept, MouseKept, ConsoleKept DEF Ps2Next
<1> QED BY <1>1, <1>2

\* The PS/2 controller keeps what Ps2Sound says, for every size of the ring and of the output
\* (mouse.c, keyboard.c).
THEOREM Ps2Correct == Ps2Spec => [](Ps2TypeOK /\ Ps2Sound)
<1>1. Ps2Init => Ps2Inv
  BY Ps2Start
<1>2. Ps2Inv /\ [Ps2Next]_ps2Vars => Ps2Inv'
  BY Ps2StepKept
<1>3. Ps2Inv => Ps2TypeOK /\ Ps2Sound
  BY Ps2Promises
<1> QED BY <1>1, <1>2, <1>3, PTL DEF Ps2Spec

-----------------------------------------------------------------------------
(* The control queue of the display.                                         *)

Sender == [at : {"idle", "head", "takeHead", "resp", "takeResp", "ring", "publish", "poll", "returned"},
           head : 0..VqSize, resp : 0..VqSize, guarded : BOOLEAN, answered : BOOLEAN]

\* w walks the list that starts at d, which has n descriptors, all different and none apart.
Walk(w, d, links, n, apart) ==
  /\ w \in [Nat -> 0..VqSize] /\ w[0] = d
  /\ \A i \in Nat : w[i] # 0 => w[i + 1] = links[w[i]] /\ w[i] \notin apart
  /\ \A i \in Nat : w[i] # 0 <=> i < n
  /\ \A i, j \in Nat : w[i] = w[j] /\ w[i] # 0 => i = j
FreeAre(n, apart) == numFree = n /\ \E w : Walk(w, nextFree, descNext, n, apart)

\* The descriptors and the rings, as the context that sends left them.
Lists(s) ==
  /\ s.at \in {"idle", "head", "takeHead", "returned"} => FreeAre(VqSize, {})
  /\ s.at = "takeHead" => s.head = nextFree
  /\ s.at \in {"resp", "takeResp"} => FreeAre(VqSize - 1, {s.head}) /\ s.head # 0
  /\ s.at = "takeResp" => s.resp = nextFree
  /\ s.at \in {"ring", "publish", "poll"} =>
       /\ FreeAre(VqSize - 2, {s.head, s.resp})
       /\ s.head # 0 /\ s.resp # 0 /\ s.head # s.resp
       /\ descNext[s.head] = s.resp /\ descMore[s.head] /\ ~descMore[s.resp]
Rings(s) ==
  /\ s.at # "poll" => usedIds = <<>> /\ fetched = published
  /\ s.at = "publish" => ring[SlotOf(published)] = s.head
  /\ s.at = "poll" => \/ usedIds = <<>> /\ published = NextIndex(fetched) /\ ring[SlotOf(fetched)] = s.head
                      \/ usedIds = <<s.head>> /\ fetched = published /\ s.answered
  /\ s.at = "returned" => s.answered

\* One context sends; the frame it presents is guarded, or that of the idle loop.
Sends(c) ==
  /\ \A o \in Context : o # c => sender[o].at = "idle"
  /\ sender[c].at # "idle" /\ sender[c].guarded => composing
  /\ Lists(sender[c]) /\ Rings(sender[c])

VqType == VqTypeOK /\ \A c \in Context : sender[c].at = "idle" => sender[c] = NotSending
VqInv == VqType /\ (mixed \/ \E c \in Context : Sends(c))

LEMMA WalkOn ==
  ASSUME NEW w, NEW d, NEW links, NEW n \in Nat, n > 0, NEW apart, Walk(w, d, links, n, apart)
  PROVE  d # 0 /\ d \notin apart /\ d \in 1..VqSize /\ \E v : Walk(v, links[d], links, n - 1, apart \union {d})
<1> DEFINE v == [i \in Nat |-> w[i + 1]]
<1>1. w[0] = d /\ d # 0 /\ d \notin apart /\ d \in 1..VqSize /\ w[0 + 1] = links[d]
  BY VqSizesOK DEF Walk
<1>2. \A i \in Nat : v[i] = w[i + 1] /\ i + 1 \in Nat /\ i + 1 # 0
  OBVIOUS
<1>3. v \in [Nat -> 0..VqSize]
  BY DEF Walk
<1> HIDE DEF v
<1>4. v[0] = links[d]
  BY <1>1, <1>2
<1>5. ASSUME NEW i \in Nat, v[i] # 0 PROVE v[i + 1] = links[v[i]] /\ v[i] \notin apart \union {d}
  <2>1. v[i] = w[i + 1] /\ v[i + 1] = w[(i + 1) + 1] /\ i + 1 \in Nat /\ i + 1 # 0 /\ 0 \in Nat
    BY <1>2
  <2>2. w[(i + 1) + 1] = links[w[i + 1]] /\ w[i + 1] \notin apart
    BY <1>5, <2>1 DEF Walk
  <2>3. w[i + 1] # w[0]
    BY <1>1, <1>5, <2>1 DEF Walk
  <2> QED BY <1>1, <2>1, <2>2, <2>3
<1>6. \A i \in Nat : v[i] # 0 <=> i < n - 1
  <2> TAKE i \in Nat
  <2>1. w[i + 1] # 0 <=> i + 1 < n
    BY DEF Walk
  <2> QED BY <1>2, <2>1
<1>7. \A i, j \in Nat : v[i] = v[j] /\ v[i] # 0 => i = j
  <2> TAKE i, j \in Nat
  <2> HAVE v[i] = v[j] /\ v[i] # 0
  <2>1. \A k, l \in Nat : w[k] = w[l] /\ w[k] # 0 => k = l
    BY DEF Walk
  <2>2. w[i + 1] = w[j + 1] /\ w[i + 1] # 0 /\ i + 1 \in Nat /\ j + 1 \in Nat
    BY <1>2
  <2>3. i + 1 = j + 1
    BY ONLY <2>1, <2>2
  <2> QED BY <2>3
<1>8. Walk(v, links[d], links, n - 1, apart \union {d})
  BY <1>3, <1>4, <1>5, <1>6, <1>7 DEF Walk
<1> QED BY <1>1, <1>8

\* What is apart is linked as one likes.
LEMMA WalkStays ==
  ASSUME NEW w, NEW d, NEW links, NEW n, NEW apart, Walk(w, d, links, n, apart), NEW other,
         \A x \in 1..VqSize : x \notin apart => other[x] = links[x]
  PROVE  Walk(w, d, other, n, apart)
<1>1. ASSUME NEW i \in Nat, w[i] # 0 PROVE w[i + 1] = other[w[i]] /\ w[i] \notin apart
  <2>1. w[i] \in 1..VqSize /\ w[i] \notin apart /\ w[i + 1] = links[w[i]]
    BY <1>1, VqSizesOK DEF Walk
  <2> QED BY <2>1
<1> QED BY <1>1 DEF Walk

LEMMA WalkBack ==
  ASSUME NEW w, NEW d, NEW links, NEW n \in Nat, NEW apart, Walk(w, d, links, n, apart),
         NEW e \in apart, e \in 1..VqSize, links[e] = d
  PROVE  \E v : Walk(v, e, links, n + 1, apart \ {e})
<1> DEFINE v == [i \in Nat |-> IF i = 0 THEN e ELSE w[i - 1]]
<1>1. v[0] = e /\ \A i \in Nat : i # 0 => i - 1 \in Nat /\ v[i] = w[i - 1] /\ (i - 1) + 1 = i
  OBVIOUS
<1>2. v \in [Nat -> 0..VqSize]
  BY VqSizesOK DEF Walk
<1> HIDE DEF v
<1>e. e # 0
  BY VqSizesOK
<1>3. ASSUME NEW i \in Nat, v[i] # 0 PROVE v[i + 1] = links[v[i]] /\ v[i] \notin apart \ {e}
  <2>1. CASE i = 0
    <3>1. v[0 + 1] = w[0] /\ 0 \in Nat /\ w[0] = d
      BY <1>1 DEF Walk
    <3> QED BY <1>1, <2>1, <3>1
  <2>2. CASE i # 0
    <3>1. v[i] = w[i - 1] /\ i - 1 \in Nat /\ v[i + 1] = w[(i - 1) + 1]
      BY <1>1, <2>2
    <3> QED BY <1>3, <3>1 DEF Walk
  <2> QED BY <2>1, <2>2
<1>4. \A i \in Nat : v[i] # 0 <=> i < n + 1
  <2> TAKE i \in Nat
  <2>1. CASE i = 0
    BY <1>1, <1>e, <2>1
  <2>2. CASE i # 0
    <3>1. v[i] = w[i - 1] /\ i - 1 \in Nat
      BY <1>1, <2>2
    <3>2. w[i - 1] # 0 <=> i - 1 < n
      BY <3>1 DEF Walk
    <3> QED BY <3>1, <3>2
  <2> QED BY <2>1, <2>2
<1>5. ASSUME NEW i \in Nat, NEW j \in Nat, v[i] = v[j], v[i] # 0 PROVE i = j
  <2>1. \A k \in Nat : k # 0 /\ v[k] # 0 => v[k] # e
    BY <1>1, VqSizesOK DEF Walk
  <2>2. CASE i = 0 \/ j = 0
    BY <1>1, <1>5, <2>1, <2>2
  <2>3. CASE i # 0 /\ j # 0
    <3>1. v[i] = w[i - 1] /\ v[j] = w[j - 1] /\ i - 1 \in Nat /\ j - 1 \in Nat
      BY <1>1, <2>3
    <3>2. i - 1 = j - 1
      BY <1>5, <3>1 DEF Walk
    <3> QED BY <3>2
  <2> QED BY <2>2, <2>3
<1>6. Walk(v, e, links, n + 1, apart \ {e})
  BY <1>1, <1>2, <1>3, <1>4, <1>5 DEF Walk
<1> QED BY <1>6

\* The list as the property follows it.
LEMMA ListIsWalk ==
  ASSUME NEW n \in 0..VqSize, NEW w, Walk(w, nextFree, descNext, n, {})
  PROVE  FreeList = [i \in 1..VqSize + 1 |-> w[i - 1]]
<1> DEFINE I == 1..VqSize + 1
           step(f) == [i \in I |-> IF i = 1 THEN nextFree ELSE IF f[i - 1] = 0 THEN 0 ELSE descNext[f[i - 1]]]
           W == [i \in I |-> w[i - 1]]
<1>1. FreeList = CHOOSE f : f = step(f)
  BY DEF FreeList
<1>2. W = step(W)
  <2>1. ASSUME NEW i \in I PROVE W[i] = step(W)[i]
    <3>1. CASE i = 1
      BY <3>1 DEF Walk
    <3>2. CASE i # 1
      <4>1. i - 1 \in I /\ i - 2 \in Nat /\ W[i] = w[i - 1] /\ W[i - 1] = w[i - 2] /\ (i - 2) + 1 = i - 1 /\ i - 1 \in Nat
        BY <3>2, VqSizesOK
      <4>2. w[i - 2] # 0 => w[i - 1] = descNext[w[i - 2]]
        BY <4>1 DEF Walk
      <4>3. w[i - 2] = 0 => w[i - 1] = 0
        <5>1. (w[i - 2] # 0 <=> i - 2 < n) /\ (w[i - 1] # 0 <=> i - 1 < n)
          BY <4>1 DEF Walk
        <5> QED BY <5>1
      <4> QED BY <3>2, <4>1, <4>2, <4>3
    <3> QED BY <3>1, <3>2
  <2> QED BY <2>1
<1>3. \E f : f = step(f)
  BY <1>2
<1> DEFINE L == CHOOSE f : f = step(f)
<1>4. L = step(L)
  BY <1>3
<1> HIDE DEF L
<1>5. \A i \in I : L[i] = IF i = 1 THEN nextFree ELSE IF L[i - 1] = 0 THEN 0 ELSE descNext[L[i - 1]]
  BY <1>4
<1>w. \A i \in I : W[i] = IF i = 1 THEN nextFree ELSE IF W[i - 1] = 0 THEN 0 ELSE descNext[W[i - 1]]
  BY <1>2
<1> HIDE DEF W
<1> DEFINE T == {i \in I : L[i] # W[i]}
<1>6. T = {}
  <2>1. T \in SUBSET Nat /\ 0 \notin T
    BY VqSizesOK
  <2>2. ASSUME NEW k \in Nat, k \notin T PROVE k + 1 \notin T
    <3> SUFFICES ASSUME k + 1 \in I PROVE L[k + 1] = W[k + 1]
      OBVIOUS
    <3>1. CASE k = 0
      <4>1. k + 1 = 1
        BY <3>1
      <4> QED BY <4>1, <1>5, <1>w
    <3>2. CASE k # 0
      <4>1. k \in I /\ k + 1 # 1 /\ (k + 1) - 1 = k
        BY <3>2, VqSizesOK
      <4>2. L[k] = W[k]
        BY <2>2, <4>1
      <4> QED BY <4>1, <4>2, <1>5, <1>w
    <3> QED BY <3>1, <3>2
  <2> HIDE DEF T
  <2> QED BY <2>1, <2>2, NothingFirst
<1>7. L = W
  <2>1. L = [i \in I |-> L[i]] /\ W = [i \in I |-> W[i]]
    BY <1>4, <1>2
  <2>2. \A i \in I : L[i] = W[i]
    BY <1>6
  <2> QED BY <2>1, <2>2
<1> QED BY <1>1, <1>7 DEF L, W

LEMMA FreeCounted ==
  ASSUME NEW n \in 0..VqSize, NEW apart, FreeAre(n, apart)
  PROVE  /\ numFree = n /\ Cardinality({FreeList[i] : i \in 1..numFree} \ {0}) = numFree
         /\ FreeList[numFree + 1] = 0
<1>1. PICK w : Walk(w, nextFree, descNext, n, apart)
  BY DEF FreeAre
<1>2. Walk(w, nextFree, descNext, n, {}) /\ numFree = n
  BY <1>1 DEF Walk, FreeAre
<1>3. FreeList = [i \in 1..VqSize + 1 |-> w[i - 1]]
  BY <1>2, ListIsWalk
<1> DEFINE F == FreeList
<1>4. \A i \in 1..n + 1 : F[i] = w[i - 1] /\ i - 1 \in Nat
  BY <1>3, VqSizesOK
<1> HIDE DEF F
<1>5. F[n + 1] = 0
  <2>1. n + 1 \in 1..n + 1 /\ n \in Nat /\ (n + 1) - 1 = n /\ ~(n < n)
    BY VqSizesOK
  <2>2. w[n] # 0 <=> n < n
    BY <2>1, <1>2 DEF Walk
  <2> QED BY <1>4, <2>1, <2>2
<1>6. \A i \in 1..n : F[i] # 0 /\ F[i] = w[i - 1]
  <2> TAKE i \in 1..n
  <2>1. i \in 1..n + 1 /\ i - 1 < n
    BY VqSizesOK
  <2> QED BY <1>4, <2>1, <1>2 DEF Walk
<1>7. \A i, j \in 1..n : F[i] = F[j] => i = j
  <2> TAKE i, j \in 1..n
  <2> HAVE F[i] = F[j]
  <2>1. i - 1 \in Nat /\ j - 1 \in Nat /\ w[i - 1] = w[j - 1] /\ w[i - 1] # 0
    BY <1>6
  <2>2. i - 1 = j - 1
    BY <2>1, <1>2 DEF Walk
  <2> QED BY <2>2
<1> DEFINE S == {F[i] : i \in 1..n}
           g == [i \in 1..n |-> F[i]]
<1>8. S \ {0} = S
  BY <1>6
<1>9. g \in Bijection(1..n, S)
  <2>1. g \in [1..n -> S]
    OBVIOUS
  <2>2. \A a, b \in 1..n : g[a] = g[b] => a = b
    BY <1>7
  <2>3. \A t \in S : \E s \in 1..n : g[s] = t
    OBVIOUS
  <2> QED BY <2>1, <2>2, <2>3, Fun_IsBij
<1>10. IsFiniteSet(1..n) /\ Cardinality(1..n) = n
  BY FS_Interval
<1>11. Cardinality(S) = n
  <2> HIDE DEF S, g
  <2>1. ExistsBijection(1..n, S)
    BY <1>9 DEF ExistsBijection
  <2> QED BY <1>10, <2>1, FS_Bijection
<1>12. {F[i] : i \in 1..numFree} \ {0} = S
  BY <1>2, <1>8
<1> HIDE DEF S
<1> QED BY <1>2, <1>5, <1>11, <1>12 DEF F

LEMMA VqParts ==
  ASSUME VqInv
  PROVE  /\ nextFree \in 0..VqSize /\ numFree \in Int /\ descNext \in [Desc -> 0..VqSize] /\ descMore \in [Desc -> BOOLEAN]
         /\ ring \in [0..(VqSize - 1) -> 0..VqSize] /\ published \in RingIndex /\ fetched \in RingIndex
         /\ usedIds \in Seq(0..VqSize) /\ composing \in BOOLEAN /\ mixed \in BOOLEAN
         /\ sender \in [Context -> Sender] /\ \A c \in Context : sender[c].at = "idle" => sender[c] = NotSending
BY DEF VqInv, VqType, VqTypeOK, Sender

\* What may be counted on about the context that sends, and when none does.
LEMMA SenderSends ==
  ASSUME VqInv, ~mixed, NEW c \in Context, sender[c].at # "idle"
  PROVE  Sends(c) /\ \A o \in Context : o # c => sender[o] = NotSending
<1>1. PICK a \in Context : Sends(a)
  BY DEF VqInv
<1>2. a = c
  BY <1>1 DEF Sends
<1> QED BY <1>1, <1>2, VqParts DEF Sends

LEMMA NobodySends ==
  ASSUME VqInv, ~mixed, NEW c \in Context, \A o \in Context : sender[o].at = "idle"
  PROVE  Sends(c)
<1>1. PICK a \in Context : Sends(a)
  BY DEF VqInv
<1>2. sender[a] = NotSending /\ sender[c] = NotSending
  BY VqParts
<1>3. NotSending.at = "idle"
  BY DEF NotSending
<1>4. Lists(sender[c]) /\ Rings(sender[c])
  BY <1>1, <1>2 DEF Sends
<1> QED BY <1>4, <1>2, <1>3 DEF Sends

LEMMA QueueIsSound == VqInv => QueueSound
<1> SUFFICES ASSUME VqInv, ~mixed PROVE AnswerIsOwn /\ NoDescriptorLost
  BY DEF QueueSound
<1>1. PICK c \in Context : Sends(c)
  BY DEF VqInv
<1>2. \A o \in Context : o # c => sender[o].at = "idle"
  BY <1>1 DEF Sends
<1>3. sender[c] \in Sender
  BY VqParts
<1> DEFINE chained(x) == IF sender[x].at \in {"takeHead", "idle", "head", "returned"} THEN 0
                      ELSE IF sender[x].at \in {"resp", "takeResp"} THEN 1 ELSE 2
           n == VqSize - chained(c)
<1>4. n = VqSize - chained("thread") - chained("above") /\ n \in 0..VqSize
  <2>0. VqSize \in Nat /\ VqSize >= 2 /\ chained(c) \in 0..2
    BY VqSizesOK
  <2>1. CASE c = "thread"
    <3>1. chained("above") = 0
      BY <1>2, <2>1 DEF Context
    <3> QED BY <2>0, <2>1, <3>1
  <2>2. CASE c = "above"
    <3>1. chained("thread") = 0
      BY <1>2, <2>2 DEF Context
    <3> QED BY <2>0, <2>2, <3>1
  <2> QED BY <2>1, <2>2 DEF Context
<1>5. \E others : FreeAre(n, others)
  <2>0. VqSize - 0 = VqSize
    BY VqSizesOK
  <2>1. CASE sender[c].at \in {"takeHead", "idle", "head", "returned"}
    BY <1>1, <2>0, <2>1 DEF Sends, Lists
  <2>2. CASE sender[c].at \in {"resp", "takeResp"}
    BY <1>1, <2>2 DEF Sends, Lists
  <2>3. CASE sender[c].at \in {"ring", "publish", "poll"}
    BY <1>1, <2>3 DEF Sends, Lists
  <2> QED BY <1>3, <2>1, <2>2, <2>3 DEF Sender
<1>6. /\ numFree = n /\ Cardinality({FreeList[i] : i \in 1..numFree} \ {0}) = numFree
      /\ FreeList[numFree + 1] = 0
  <2> HIDE DEF n
  <2> QED BY <1>4, <1>5, FreeCounted
<1>7. NoDescriptorLost
  <2>1. numFree = VqSize - chained("thread") - chained("above")
    BY <1>4, <1>6
  <2> QED BY <1>6, <2>1 DEF NoDescriptorLost
<1>8. AnswerIsOwn
  BY <1>1, <1>2 DEF AnswerIsOwn, Sends, Rings
<1> QED BY <1>7, <1>8

LEMMA VqStart == VqInit => VqInv
<1> SUFFICES ASSUME VqInit PROVE VqInv
  OBVIOUS
<1>0. VqSize \in Nat /\ VqSize >= 2
  BY VqSizesOK
<1> DEFINE w == [i \in Nat |-> IF i < VqSize THEN i + 1 ELSE 0]
<1>1. Walk(w, nextFree, descNext, VqSize, {})
  <2>1. w \in [Nat -> 0..VqSize] /\ \A i \in Nat : w[i] = IF i < VqSize THEN i + 1 ELSE 0
    BY <1>0
  <2> HIDE DEF w
  <2>2. nextFree = 1 /\ \A d \in Desc : descNext[d] = IF d = VqSize THEN 0 ELSE d + 1
    BY DEF VqInit
  <2>3. w[0] = nextFree
    BY <2>1, <2>2, <1>0
  <2>4. ASSUME NEW i \in Nat, w[i] # 0 PROVE w[i + 1] = descNext[w[i]] /\ w[i] \notin {}
    <3>1. i < VqSize /\ w[i] = i + 1 /\ i + 1 \in Desc
      BY <1>0, <2>1, <2>4 DEF Desc
    <3>2. w[i + 1] = IF i + 1 < VqSize THEN i + 2 ELSE 0
      BY <2>1
    <3>3. descNext[w[i]] = IF i + 1 = VqSize THEN 0 ELSE i + 2
      BY <2>2, <3>1
    <3> QED BY <1>0, <3>1, <3>2, <3>3
  <2>5. \A i \in Nat : w[i] # 0 <=> i < VqSize
    BY <1>0, <2>1
  <2>6. \A i, j \in Nat : w[i] = w[j] /\ w[i] # 0 => i = j
    BY <1>0, <2>1
  <2> QED BY <2>1, <2>3, <2>4, <2>5, <2>6 DEF Walk
<1> HIDE DEF w
<1>2. FreeAre(VqSize, {})
  BY <1>1 DEF FreeAre, VqInit
<1>3. sender["thread"] = NotSending /\ \A c \in Context : sender[c] = NotSending
  BY DEF VqInit, Context
<1>4. NotSending.at = "idle" /\ NotSending \in Sender
  BY <1>0 DEF NotSending, Sender
<1>5. Sends("thread")
  BY <1>2, <1>3, <1>4 DEF Sends, Lists, Rings, VqInit
<1>6. VqTypeOK
  <2>1. sender \in [Context -> Sender]
    BY <1>4 DEF VqInit
  <2>2. nextFree \in 0..VqSize /\ numFree \in Int /\ published \in RingIndex /\ fetched \in RingIndex
    BY <1>0 DEF VqInit, RingIndex
  <2>3. descNext \in [Desc -> 0..VqSize] /\ descMore \in [Desc -> BOOLEAN] /\ ring \in [0..(VqSize - 1) -> 0..VqSize]
    BY <1>0 DEF VqInit, Desc
  <2>5. <<>> \in Seq(0..VqSize)
    OBVIOUS
  <2>4. usedIds \in Seq(0..VqSize) /\ composing \in BOOLEAN /\ mixed \in BOOLEAN
    BY <2>5, Zenon DEF VqInit
  <2> QED BY <2>1, <2>2, <2>3, <2>4 DEF VqTypeOK, Sender
<1> QED BY <1>3, <1>5, <1>6 DEF VqInv, VqType, Context

\* A step of the context that sends.
LEMMA SenderMoves ==
  ASSUME VqInv, NEW c \in Context, NEW s \in Sender, sender' = [sender EXCEPT ![c] = s],
         s.at = "idle" => s = NotSending, mixed' = mixed, composing' \in BOOLEAN,
         nextFree' \in 0..VqSize, numFree' \in Int, descNext' \in [Desc -> 0..VqSize], descMore' \in [Desc -> BOOLEAN],
         ring' \in [0..(VqSize - 1) -> 0..VqSize], published' \in RingIndex, fetched' \in RingIndex,
         usedIds' \in Seq(0..VqSize), Sends(c)'
  PROVE  VqInv'
<1>1. sender' \in [Context -> Sender] /\ \A o \in Context : sender'[o] = IF o = c THEN s ELSE sender[o]
  BY VqParts
<1>2. \A o \in Context : sender'[o].at = "idle" => sender'[o] = NotSending
  BY <1>1, VqParts
<1>3. mixed' \in BOOLEAN
  BY VqParts
<1>4. VqTypeOK'
  BY <1>1, <1>3 DEF VqTypeOK, Sender
<1> QED BY <1>2, <1>4 DEF VqInv, VqType

LEMMA SetAt ==
  ASSUME NEW s \in Sender,
         NEW step \in {"idle", "head", "takeHead", "resp", "takeResp", "ring", "publish", "poll", "returned"}
  PROVE  LET t == [s EXCEPT !.at = step] IN
         /\ t \in Sender /\ t.at = step /\ t.head = s.head /\ t.resp = s.resp /\ t.guarded = s.guarded
         /\ t.answered = s.answered
BY DEF Sender

LEMMA SetGuarded ==
  ASSUME NEW s \in Sender
  PROVE  LET t == [s EXCEPT !.at = "head", !.guarded = TRUE] IN
         t \in Sender /\ t.at = "head" /\ t.guarded
BY DEF Sender

\* A frame is begun.
LEMMA BeginKept ==
  ASSUME VqInv, ~mixed, NEW c \in Context, PresentGuarded(c) \/ (c = "thread" /\ PresentIdle)
  PROVE  VqInv'
<1> DEFINE g == sender'[c].guarded
           s == [NotSending EXCEPT !.at = "head", !.guarded = g]
<1>0. /\ sender \in [Context -> Sender] /\ sender[c] = NotSending /\ NotSending.head = 0 /\ NotSending \in Sender
      /\ Runs(c) /\ NotSending.at = "idle"
  BY VqParts, VqSizesOK DEF PresentGuarded, PresentIdle, Stands, NotSending, Sender
<1>1. UNCHANGED <<listVars, deviceRing>>
  BY DEF PresentGuarded, PresentIdle
<1>2. /\ sender'[c] \in Sender /\ sender'[c].at = "head" /\ (g => composing') /\ composing' \in BOOLEAN
      /\ sender' = [sender EXCEPT ![c] = sender'[c]]
  <2>1. CASE PresentGuarded(c)
    <3>1. sender' = [sender EXCEPT ![c] = [NotSending EXCEPT !.at = "head", !.guarded = TRUE]] /\ composing' = TRUE
      BY <1>0, <2>1 DEF PresentGuarded
    <3>2. [NotSending EXCEPT !.at = "head", !.guarded = TRUE] \in Sender
          /\ [NotSending EXCEPT !.at = "head", !.guarded = TRUE].at = "head"
      BY <1>0, SetGuarded
    <3> QED BY <1>0, <3>1, <3>2
  <2>2. CASE c = "thread" /\ PresentIdle
    <3>1. sender' = [sender EXCEPT ![c] = [NotSending EXCEPT !.at = "head"]] /\ composing' = composing
      BY <1>0, <2>2 DEF PresentIdle, Moves
    <3>2. /\ [NotSending EXCEPT !.at = "head"] \in Sender /\ [NotSending EXCEPT !.at = "head"].at = "head"
          /\ [NotSending EXCEPT !.at = "head"].guarded = FALSE
      <4>1. NotSending.guarded = FALSE
        BY DEF NotSending
      <4> QED BY <1>0, <4>1, SetAt
    <3> QED BY <1>0, <3>1, <3>2, VqParts
  <2> QED BY <2>1, <2>2
<1>3. /\ nextFree' \in 0..VqSize /\ numFree' \in Int /\ descNext' \in [Desc -> 0..VqSize] /\ descMore' \in [Desc -> BOOLEAN]
      /\ ring' \in [0..(VqSize - 1) -> 0..VqSize] /\ published' \in RingIndex /\ fetched' \in RingIndex
      /\ usedIds' \in Seq(0..VqSize)
  BY <1>1, VqParts DEF listVars, deviceRing
<1>4. CASE \A o \in Context : sender[o].at = "idle"
  <2>1. Sends(c)
    BY <1>4, NobodySends
  <2>2. mixed' = mixed
    <3>1. CASE PresentGuarded(c)
      <4>1. ~(c = "above" /\ sender["thread"].at # "idle" /\ ~sender["thread"].guarded)
        BY <1>4 DEF Context
      <4>2. Mixes(c) /\ mixed \in BOOLEAN
        BY <3>1, VqParts DEF PresentGuarded
      <4> QED BY ONLY <4>1, <4>2, Zenon DEF Mixes
    <3>2. CASE c = "thread" /\ PresentIdle
      BY <3>2 DEF PresentIdle
    <3> QED BY <3>1, <3>2
  <2>3. Lists(sender[c]) /\ Rings(sender[c]) /\ sender[c].at = "idle"
    BY <1>0, <2>1 DEF Sends
  <2>4. Lists(sender[c])' /\ Rings(sender[c])'
    BY <1>1, <1>2, <2>3 DEF Lists, Rings, FreeAre, listVars, deviceRing
  <2>5. Sends(c)'
    BY <1>0, <1>2, <1>4, <2>4 DEF Sends
  <2> QED BY <1>2, <1>3, <2>2, <2>5, SenderMoves
<1>5. CASE \E o \in Context : sender[o].at # "idle"
  <2>1. c = "above" /\ sender["thread"].at # "idle" /\ PresentGuarded(c)
    BY <1>0, <1>5 DEF Runs, Context
  <2>2. Sends("thread")
    BY <2>1, SenderSends DEF Context
  <2>3. ~sender["thread"].guarded
    BY <2>1, <2>2 DEF Sends, PresentGuarded
  <2>4. mixed'
    BY <2>1, <2>3 DEF PresentGuarded, Mixes
  <2>5. mixed' \in BOOLEAN
    BY <2>1, VqParts DEF PresentGuarded, Mixes
  <2>6. sender' \in [Context -> Sender] /\ \A o \in Context : sender'[o].at = "idle" => sender'[o] = NotSending
    BY <1>0, <1>2, VqParts
  <2>7. VqTypeOK'
    BY <1>2, <1>3, <2>5, <2>6 DEF VqTypeOK, Sender
  <2> QED BY <2>4, <2>6, <2>7 DEF VqInv, VqType
<1> QED BY <1>4, <1>5

\* The descriptors are taken off the free list.
LEMMA ReadDescKept ==
  ASSUME VqInv, ~mixed, NEW c \in Context, ReadHead(c) \/ ReadResp(c)
  PROVE  VqInv'
<1> DEFINE s == sender[c]
<1>0. sender[c].at \in {"head", "resp"} /\ UNCHANGED <<listVars, deviceRing, composing, mixed>>
  BY DEF ReadHead, ReadResp, Stands
<1>1. Sends(c) /\ sender[c] \in Sender /\ sender \in [Context -> Sender] /\ VqSize - 1 # 0 /\ VqSize # 0 /\ 0 \in 0..VqSize
  BY <1>0, SenderSends, VqParts, VqSizesOK
<1>2. Available = nextFree /\ nextFree \in 0..VqSize
  <2>1. numFree = VqSize \/ numFree = VqSize - 1
    BY <1>0, <1>1 DEF Sends, Lists, FreeAre
  <2> QED BY <1>1, <2>1, VqParts DEF Available
<1>3. /\ nextFree' \in 0..VqSize /\ numFree' \in Int /\ descNext' \in [Desc -> 0..VqSize] /\ descMore' \in [Desc -> BOOLEAN]
      /\ ring' \in [0..(VqSize - 1) -> 0..VqSize] /\ published' \in RingIndex /\ fetched' \in RingIndex
      /\ usedIds' \in Seq(0..VqSize) /\ composing' \in BOOLEAN /\ mixed' = mixed
  BY <1>0, VqParts DEF listVars, deviceRing
<1>4. CASE ReadHead(c)
  <2> DEFINE t == [s EXCEPT !.at = "takeHead", !.head = nextFree]
  <2>1. t \in Sender /\ t.at = "takeHead" /\ t.head = nextFree /\ t.guarded = s.guarded
    BY <1>1, <1>2 DEF Sender
  <2>2. sender' = [sender EXCEPT ![c] = t] /\ sender[c].at = "head"
    BY <1>1, <1>2, <1>4 DEF ReadHead, Stands
  <2> HIDE DEF t
  <2>3. sender'[c] = t /\ \A o \in Context : o # c => sender'[o] = sender[o]
    BY <1>1, <2>2
  <2>4. Sends(c)'
    BY <1>0, <1>1, <2>1, <2>2, <2>3 DEF Sends, Lists, Rings, FreeAre, listVars, deviceRing
  <2> QED BY <1>3, <2>1, <2>2, <2>4, SenderMoves
<1>5. CASE ReadResp(c)
  <2> DEFINE t == [s EXCEPT !.at = "takeResp", !.resp = nextFree]
  <2>1. t \in Sender /\ t.at = "takeResp" /\ t.resp = nextFree /\ t.guarded = s.guarded /\ t.head = s.head
    BY <1>1, <1>2 DEF Sender
  <2>2. sender' = [sender EXCEPT ![c] = t] /\ sender[c].at = "resp"
    BY <1>1, <1>2, <1>5 DEF ReadResp, Stands
  <2> HIDE DEF t
  <2>3. sender'[c] = t /\ \A o \in Context : o # c => sender'[o] = sender[o]
    BY <1>1, <2>2
  <2>4. Sends(c)'
    BY <1>0, <1>1, <2>1, <2>2, <2>3 DEF Sends, Lists, Rings, FreeAre, listVars, deviceRing
  <2> QED BY <1>3, <2>1, <2>2, <2>4, SenderMoves
<1>6. ReadHead(c) \/ ReadResp(c)
  OBVIOUS
<1> QED BY ONLY <1>4, <1>5, <1>6

LEMMA TakeHeadKept ==
  ASSUME VqInv, ~mixed, NEW c \in Context, TakeHead(c)
  PROVE  VqInv'
<1> DEFINE s == sender[c]
           h == s.head
           t == [s EXCEPT !.at = "resp"]
<1>0. s.at = "takeHead" /\ UNCHANGED <<descNext, descMore, deviceRing, composing, mixed>>
  BY DEF TakeHead, Stands
<1>1. Sends(c) /\ s \in Sender /\ sender \in [Context -> Sender] /\ VqSize \in Nat /\ VqSize > 0
  BY <1>0, SenderSends, VqParts, VqSizesOK
<1>2. t \in Sender /\ t.at = "resp" /\ t.head = h /\ t.guarded = s.guarded
  BY <1>1, SetAt
<1>3. h = nextFree /\ numFree = VqSize /\ \E w : Walk(w, h, descNext, VqSize, {})
  BY <1>0, <1>1 DEF Sends, Lists, FreeAre
<1>4. h # 0 /\ h \in Desc /\ \E v : Walk(v, descNext[h], descNext, VqSize - 1, {} \union {h})
  BY <1>1, <1>3, WalkOn DEF Desc
<1>5. nextFree' = descNext[h] /\ numFree' = numFree - 1 /\ sender' = [sender EXCEPT ![c] = t]
  BY <1>1, <1>4 DEF TakeHead, Moves
<1> HIDE DEF t, h
<1>6. sender'[c] = t /\ \A o \in Context : o # c => sender'[o] = sender[o]
  BY <1>1, <1>5
<1>7. numFree' = VqSize - 1 /\ \E w : Walk(w, nextFree', descNext', VqSize - 1, {h})
  <2>1. {} \union {h} = {h}
    OBVIOUS
  <2> QED BY <1>0, <1>2, <1>3, <1>4, <1>5, <2>1
<1>8. Sends(c)'
  BY <1>0, <1>1, <1>2, <1>4, <1>6, <1>7 DEF Sends, Lists, FreeAre, Rings, deviceRing
<1>9. nextFree' \in 0..VqSize /\ numFree' \in Int
  BY <1>3, <1>4, <1>5, VqParts
<1> QED BY <1>0, <1>2, <1>5, <1>8, <1>9, VqParts, SenderMoves DEF deviceRing

LEMMA TakeRespKept ==
  ASSUME VqInv, ~mixed, NEW c \in Context, TakeResp(c)
  PROVE  VqInv'
<1> DEFINE s == sender[c]
           h == s.head
           r == s.resp
           t == [s EXCEPT !.at = "ring"]
<1>0. s.at = "takeResp" /\ UNCHANGED <<deviceRing, composing, mixed>>
  BY DEF TakeResp, Stands
<1>1. Sends(c) /\ s \in Sender /\ sender \in [Context -> Sender] /\ VqSize \in Nat /\ VqSize >= 2
  BY <1>0, SenderSends, VqParts, VqSizesOK
<1>2. t \in Sender /\ t.at = "ring" /\ t.head = h /\ t.resp = r /\ t.guarded = s.guarded
  BY <1>1, SetAt
<1>3. r = nextFree /\ numFree = VqSize - 1 /\ (\E w : Walk(w, r, descNext, VqSize - 1, {h})) /\ h # 0
  BY <1>0, <1>1 DEF Sends, Lists, FreeAre
<1>4. r # 0 /\ r # h /\ r \in Desc /\ h \in Desc /\ \E v : Walk(v, descNext[r], descNext, VqSize - 2, {h} \union {r})
  <2>1. VqSize - 1 \in Nat /\ VqSize - 1 > 0 /\ (VqSize - 1) - 1 = VqSize - 2
    BY <1>1
  <2>2. h \in Desc
    BY <1>1, <1>3 DEF Sender, Desc
  <2>3. PICK w : Walk(w, r, descNext, VqSize - 1, {h})
    BY <1>3
  <2> HIDE DEF r, h
  <2> QED BY <2>1, <2>2, <2>3, WalkOn DEF Desc
<1>5. /\ nextFree' = descNext[r] /\ numFree' = numFree - 1
      /\ descNext' = [descNext EXCEPT ![h] = r, ![r] = 0]
      /\ descMore' = [descMore EXCEPT ![h] = TRUE, ![r] = FALSE]
      /\ sender' = [sender EXCEPT ![c] = t]
  BY <1>1, <1>3, <1>4 DEF TakeResp, Moves
<1>6. sender'[c] = t /\ \A o \in Context : o # c => sender'[o] = sender[o]
  BY <1>1, <1>5
<1> HIDE DEF t, h, r
<1>7. /\ descNext' \in [Desc -> 0..VqSize] /\ descMore' \in [Desc -> BOOLEAN]
      /\ descNext'[h] = r /\ descMore'[h] /\ ~descMore'[r] /\ nextFree' \in 0..VqSize /\ numFree' = VqSize - 2 /\ numFree' \in Int
      /\ \A x \in Desc : x \notin {h} \union {r} => descNext'[x] = descNext[x]
  <2>0. descNext \in [Desc -> 0..VqSize] /\ descMore \in [Desc -> BOOLEAN] /\ r \in 0..VqSize /\ 0 \in 0..VqSize
    BY <1>1, <1>4, VqParts DEF Desc
  <2>1. /\ descNext' \in [Desc -> 0..VqSize] /\ descNext'[h] = r
        /\ \A x \in Desc : x \notin {h} \union {r} => descNext'[x] = descNext[x]
    BY <1>4, <1>5, <2>0
  <2>2. descMore' \in [Desc -> BOOLEAN] /\ descMore'[h] /\ ~descMore'[r]
    BY <1>4, <1>5, <2>0
  <2>3. nextFree' \in 0..VqSize
    BY <1>4, <1>5, <2>0
  <2>4. numFree' = VqSize - 2 /\ numFree' \in Int
    BY <1>1, <1>3, <1>5
  <2> QED BY <2>1, <2>2, <2>3, <2>4
<1>8. \E w : Walk(w, nextFree', descNext', VqSize - 2, {h, r})
  <2>1. PICK v : Walk(v, descNext[r], descNext, VqSize - 2, {h} \union {r})
    BY <1>4
  <2>2. Walk(v, descNext[r], descNext', VqSize - 2, {h} \union {r})
    <3>1. \A x \in 1..VqSize : x \notin {h} \union {r} => descNext'[x] = descNext[x]
      BY <1>7 DEF Desc
    <3> QED BY ONLY <2>1, <3>1, WalkStays
  <2>3. {h} \union {r} = {h, r}
    OBVIOUS
  <2> QED BY <1>5, <2>2, <2>3
<1>9. Sends(c)'
  <2>1. sender'[c].at = "ring" /\ sender'[c].head = h /\ sender'[c].resp = r /\ sender'[c].guarded = s.guarded
    BY <1>2, <1>6
  <2>2. Lists(sender[c])'
    BY <1>3, <1>4, <1>7, <1>8, <2>1 DEF Lists, FreeAre
  <2>3. Rings(sender[c])'
    BY <1>0, <1>1, <2>1 DEF Sends, Rings, deviceRing
  <2>4. s.guarded => composing'
    BY <1>0, <1>1 DEF Sends
  <2>5. \A o \in Context : o # c => sender'[o].at = "idle"
    BY <1>1, <1>6 DEF Sends
  <2> QED BY <2>1, <2>2, <2>3, <2>4, <2>5 DEF Sends
<1> QED BY <1>0, <1>2, <1>5, <1>7, <1>9, VqParts, SenderMoves DEF deviceRing

\* The indexes of the ring.
LEMMA SlotInRing == ASSUME NEW i \in RingIndex PROVE SlotOf(i) \in 0..(VqSize - 1) /\ NextIndex(i) \in RingIndex
<1>1. VqSize \in Nat /\ VqSize > 0 /\ 2 * VqSize \in Nat /\ 2 * VqSize > 0 /\ i \in Int /\ i + 1 \in Int
  BY VqSizesOK DEF RingIndex
<1>2. i % VqSize \in 0..VqSize - 1
  BY <1>1, Quotient
<1> DEFINE m == 2 * VqSize
<1>3. m \in Nat /\ m > 0
  BY <1>1
<1> HIDE DEF m
<1>4. (i + 1) % m \in 0..m - 1
  BY <1>1, <1>3, Quotient
<1> QED BY <1>2, <1>4 DEF SlotOf, NextIndex, RingIndex, m

LEMMA SubmitKept ==
  ASSUME VqInv, ~mixed, NEW c \in Context, PutInRing(c) \/ Publish(c)
  PROVE  VqInv'
<1> DEFINE s == sender[c]
<1>0. s.at \in {"ring", "publish"} /\ UNCHANGED <<listVars, fetched, usedIds, composing, mixed>>
  BY DEF PutInRing, Publish, Stands
<1>1. Sends(c) /\ s \in Sender /\ sender \in [Context -> Sender]
  BY <1>0, SenderSends, VqParts
<1>2. SlotOf(published) \in 0..(VqSize - 1) /\ NextIndex(published) \in RingIndex
  BY VqParts, SlotInRing
<1>3. s.head \in 0..VqSize
  BY <1>1 DEF Sender
<1>4. CASE PutInRing(c)
  <2> DEFINE t == [s EXCEPT !.at = "publish"]
  <2>1. t \in Sender /\ t.at = "publish" /\ t.head = s.head /\ t.resp = s.resp /\ t.guarded = s.guarded
    BY <1>1, SetAt
  <2>2. sender' = [sender EXCEPT ![c] = t] /\ s.at = "ring" /\ ring' = [ring EXCEPT ![SlotOf(published)] = s.head]
        /\ published' = published
    BY <1>1, <1>4 DEF PutInRing, Stands, Moves
  <2> HIDE DEF t
  <2>3. sender'[c] = t /\ \A o \in Context : o # c => sender'[o] = sender[o]
    BY <1>1, <2>2
  <2>4. ring' \in [0..(VqSize - 1) -> 0..VqSize] /\ ring'[SlotOf(published)] = s.head
    BY <1>2, <1>3, <2>2, VqParts
  <2>5. SlotOf(published)' = SlotOf(published)
    BY <2>2 DEF SlotOf
  <2>6. Sends(c)'
    BY <1>0, <1>1, <2>1, <2>2, <2>3, <2>4, <2>5 DEF Sends, Lists, Rings, FreeAre, listVars
  <2> QED BY <1>0, <2>1, <2>2, <2>4, <2>6, VqParts, SenderMoves DEF listVars
<1>5. CASE Publish(c)
  <2> DEFINE t == [s EXCEPT !.at = "poll"]
  <2>1. t \in Sender /\ t.at = "poll" /\ t.head = s.head /\ t.resp = s.resp /\ t.guarded = s.guarded
    BY <1>1, SetAt
  <2>2. sender' = [sender EXCEPT ![c] = t] /\ s.at = "publish" /\ ring' = ring /\ published' = NextIndex(published)
    BY <1>1, <1>5 DEF Publish, Stands, Moves
  <2> HIDE DEF t
  <2>3. sender'[c] = t /\ \A o \in Context : o # c => sender'[o] = sender[o]
    BY <1>1, <2>2
  <2>4. fetched = published /\ ring[SlotOf(published)] = s.head /\ usedIds = <<>>
    BY <1>1, <2>2 DEF Sends, Rings
  <2>5. ring'[SlotOf(fetched')] = s.head /\ published' = NextIndex(fetched')
    BY <1>0, <2>2, <2>4
  <2>6. Sends(c)'
    BY <1>0, <1>1, <2>1, <2>2, <2>3, <2>4, <2>5 DEF Sends, Lists, Rings, FreeAre, listVars
  <2> QED BY <1>0, <1>2, <2>1, <2>2, <2>6, VqParts, SenderMoves DEF listVars
<1>6. PutInRing(c) \/ Publish(c)
  OBVIOUS
<1> QED BY ONLY <1>4, <1>5, <1>6

LEMMA DeviceAnswersKept ==
  ASSUME VqInv, ~mixed, DeviceAnswers
  PROVE  VqInv'
<1>0. UNCHANGED <<listVars, ring, published, composing, mixed>> /\ fetched # published /\ fetched' = NextIndex(fetched)
  BY DEF DeviceAnswers
<1>1. PICK c \in Context : Sends(c)
  BY DEF VqInv
<1> DEFINE s == sender[c]
           t == [s EXCEPT !.answered = TRUE]
<1>2. s.at = "poll" /\ usedIds = <<>> /\ published = NextIndex(fetched) /\ ring[SlotOf(fetched)] = s.head
  BY <1>0, <1>1 DEF Sends, Rings
<1>3. s \in Sender /\ sender \in [Context -> Sender] /\ \A o \in Context : o # c => sender[o] = NotSending
  BY <1>2, SenderSends, VqParts
<1>4. t \in Sender /\ t.at = s.at /\ t.head = s.head /\ t.resp = s.resp /\ t.guarded = s.guarded /\ t.answered
  BY <1>3 DEF Sender
<1>5. NotSending.at = "idle"
  BY DEF NotSending
<1>6. usedIds' = <<s.head>>
  <2>1. usedIds' = Append(<<>>, s.head)
    BY <1>2 DEF DeviceAnswers
  <2> QED BY <2>1
<1>7. sender' = [o \in Context |-> IF sender[o].at = "poll" /\ sender[o].head = s.head
                                   THEN [sender[o] EXCEPT !.answered = TRUE] ELSE sender[o]]
  BY <1>2 DEF DeviceAnswers
<1>8. sender' = [sender EXCEPT ![c] = t]
  <2>1. sender'[c] = t /\ \A o \in Context : o # c => sender'[o] = sender[o]
    BY <1>2, <1>3, <1>5, <1>7
  <2>2. sender' = [o \in Context |-> sender'[o]]
    BY <1>7
  <2> HIDE DEF t
  <2> QED BY <1>3, <2>1, <2>2
<1> HIDE DEF t
<1>9. sender'[c] = t /\ \A o \in Context : o # c => sender'[o] = sender[o]
  BY <1>3, <1>8
<1>10. Sends(c)'
  BY <1>0, <1>1, <1>2, <1>4, <1>6, <1>9 DEF Sends, Lists, FreeAre, Rings, listVars
<1>11. fetched' \in RingIndex /\ usedIds' \in Seq(0..VqSize)
  <2>1. s.head \in 0..VqSize
    BY <1>3 DEF Sender
  <2>2. <<s.head>> \in Seq(0..VqSize)
    BY <2>1
  <2> QED BY <1>0, <1>6, <2>2, VqParts, SlotInRing
<1> QED BY <1>0, <1>2, <1>4, <1>8, <1>10, <1>11, VqParts, SenderMoves DEF listVars

\* A chain of two comes back on the list.
LEMMA FreedBack ==
  ASSUME VqInv, NEW h \in Desc, NEW r \in Desc, h # r, descNext[h] = r, descMore[h], FreeAre(VqSize - 2, {h, r}), Freed(h)
  PROVE  /\ nextFree' \in 0..VqSize /\ numFree' \in Int /\ descNext' \in [Desc -> 0..VqSize] /\ descMore' \in [Desc -> BOOLEAN]
         /\ FreeAre(VqSize, {})'
<1>0. VqSize \in Nat /\ VqSize >= 2 /\ descNext \in [Desc -> 0..VqSize] /\ descMore \in [Desc -> BOOLEAN]
      /\ nextFree \in 0..VqSize /\ Desc = 1..VqSize
  BY VqParts, VqSizesOK DEF Desc
<1>1. descMore[h] /\ descNext[h] # 0
  BY <1>0
<1>2. /\ descNext' = [descNext EXCEPT ![h] = nextFree, ![r] = h]
      /\ descMore' = [descMore EXCEPT ![h] = FALSE, ![r] = FALSE]
      /\ nextFree' = r /\ numFree' = numFree + 2
  BY <1>1 DEF Freed
<1>3. numFree = VqSize - 2 /\ \E w : Walk(w, nextFree, descNext, VqSize - 2, {h, r})
  BY DEF FreeAre
<1>4. h \in 0..VqSize /\ r \in 0..VqSize
  BY <1>0
<1>5. /\ descNext' \in [Desc -> 0..VqSize] /\ descNext'[h] = nextFree /\ descNext'[r] = h
      /\ \A x \in Desc : x \notin {h, r} => descNext'[x] = descNext[x]
  BY <1>0, <1>2, <1>4
<1>6. descMore' \in [Desc -> BOOLEAN]
  BY <1>0, <1>2
<1>7. numFree' = VqSize
  BY <1>0, <1>2, <1>3
<1>8. PICK w : Walk(w, nextFree, descNext, VqSize - 2, {h, r})
  BY <1>3
<1>9. Walk(w, nextFree, descNext', VqSize - 2, {h, r})
  <2>1. \A x \in 1..VqSize : x \notin {h, r} => descNext'[x] = descNext[x]
    BY <1>0, <1>5
  <2> QED BY ONLY <1>8, <2>1, WalkStays
<1>10. PICK v : Walk(v, h, descNext', (VqSize - 2) + 1, {h, r} \ {h})
  <2>1. VqSize - 2 \in Nat /\ h \in {h, r} /\ h \in 1..VqSize
    BY <1>0
  <2>2. descNext'[h] = nextFree
    BY <1>5
  <2> QED BY ONLY <1>9, <2>1, <2>2, WalkBack
<1>11. \E u : Walk(u, r, descNext', ((VqSize - 2) + 1) + 1, ({h, r} \ {h}) \ {r})
  <2> DEFINE m == (VqSize - 2) + 1
             apart == {h, r} \ {h}
  <2>1. m \in Nat /\ r \in apart /\ r \in 1..VqSize
    BY <1>0
  <2>2. descNext'[r] = h
    BY <1>5
  <2>3. Walk(v, h, descNext', m, apart)
    BY <1>10
  <2> HIDE DEF m, apart
  <2>4. \E u : Walk(u, r, descNext', m + 1, apart \ {r})
    BY ONLY <2>1, <2>2, <2>3, WalkBack
  <2> QED BY <2>4 DEF m, apart
<1>12. ((VqSize - 2) + 1) + 1 = VqSize /\ ({h, r} \ {h}) \ {r} = {}
  BY <1>0
<1>13. FreeAre(VqSize, {})'
  BY <1>2, <1>7, <1>11, <1>12 DEF FreeAre
<1>14. nextFree' \in 0..VqSize /\ numFree' \in Int
  BY <1>0, <1>2, <1>4, <1>7
<1> QED BY ONLY <1>5, <1>6, <1>13, <1>14

LEMMA TakeUsedKept ==
  ASSUME VqInv, ~mixed, NEW c \in Context, TakeUsed(c)
  PROVE  VqInv'
<1> DEFINE s == sender[c]
           t == [s EXCEPT !.at = "returned"]
<1>0. s.at = "poll" /\ usedIds # <<>> /\ UNCHANGED <<ring, published, fetched, composing, mixed>>
  BY DEF TakeUsed, Stands
<1>1. Sends(c) /\ s \in Sender /\ sender \in [Context -> Sender]
  BY <1>0, SenderSends, VqParts
<1>2. t \in Sender /\ t.at = "returned" /\ t.guarded = s.guarded /\ t.answered = s.answered
  BY <1>1, SetAt
<1>3. usedIds = <<s.head>> /\ fetched = published /\ s.answered
  BY <1>0, <1>1 DEF Sends, Rings
<1>4. Head(usedIds) = s.head /\ Tail(usedIds) = <<>>
  BY <1>3
<1>5. /\ FreeAre(VqSize - 2, {s.head, s.resp}) /\ s.head # 0 /\ s.resp # 0 /\ s.head # s.resp
      /\ descNext[s.head] = s.resp /\ descMore[s.head]
  BY <1>0, <1>1 DEF Sends, Lists
<1>6. s.head \in Desc /\ s.resp \in Desc
  BY <1>1, <1>5, VqSizesOK DEF Sender, Desc
<1>7. Freed(s.head) /\ usedIds' = <<>> /\ sender' = [sender EXCEPT ![c] = t]
  BY <1>1, <1>4, <1>5 DEF TakeUsed, Moves
<1> HIDE DEF t
<1>8. /\ nextFree' \in 0..VqSize /\ numFree' \in Int /\ descNext' \in [Desc -> 0..VqSize] /\ descMore' \in [Desc -> BOOLEAN]
      /\ FreeAre(VqSize, {})'
  BY <1>5, <1>6, <1>7, FreedBack
<1>9. sender'[c] = t /\ \A o \in Context : o # c => sender'[o] = sender[o]
  BY <1>1, <1>7
<1>10. Sends(c)'
  BY <1>0, <1>1, <1>2, <1>3, <1>7, <1>8, <1>9 DEF Sends, Lists, Rings
<1>11. <<>> \in Seq(0..VqSize)
  OBVIOUS
<1> QED BY <1>0, <1>2, <1>7, <1>8, <1>10, <1>11, VqParts, SenderMoves

LEMMA FreeBuffersKept ==
  ASSUME VqInv, ~mixed, NEW c \in Context, FreeBuffers(c)
  PROVE  VqInv'
<1>0. sender[c].at = "returned" /\ UNCHANGED <<listVars, deviceRing, mixed>> /\ sender' = [sender EXCEPT ![c] = NotSending]
  BY DEF FreeBuffers, Stands
<1>1. Sends(c) /\ sender \in [Context -> Sender]
  BY <1>0, SenderSends, VqParts
<1>2. NotSending \in Sender /\ NotSending.at = "idle"
  BY VqSizesOK DEF NotSending, Sender
<1>3. sender'[c] = NotSending /\ \A o \in Context : o # c => sender'[o] = sender[o]
  BY <1>0, <1>1
<1>4. composing' \in BOOLEAN
  BY DEF FreeBuffers
<1>5. Sends(c)'
  BY <1>0, <1>1, <1>2, <1>3 DEF Sends, Lists, FreeAre, Rings, listVars, deviceRing
<1> QED BY <1>0, <1>2, <1>4, <1>5, VqParts, SenderMoves DEF listVars, deviceRing

LEMMA VqStays == VqInv /\ UNCHANGED vqVars => VqInv'
<1> SUFFICES ASSUME VqInv, UNCHANGED vqVars PROVE VqInv'
  OBVIOUS
<1>1. UNCHANGED <<nextFree, numFree, descNext, descMore, ring, published, fetched, usedIds, composing, sender, mixed>>
  BY DEF vqVars, listVars, deviceRing
<1>2. VqType'
  BY <1>1 DEF VqInv, VqType, VqTypeOK
<1>3. ASSUME NEW c \in Context, Sends(c) PROVE Sends(c)'
  <2>1. Lists(sender[c]) /\ Rings(sender[c])
    BY <1>3 DEF Sends
  <2>2. Lists(sender[c])'
    BY <1>1, <2>1 DEF Lists, FreeAre
  <2>3. Rings(sender[c])'
    BY <1>1, <2>1 DEF Rings, SlotOf, NextIndex
  <2> QED BY <1>1, <1>3, <2>2, <2>3 DEF Sends
<1>4. mixed \/ \E c \in Context : Sends(c)
  BY DEF VqInv
<1>5. CASE mixed
  BY <1>1, <1>2, <1>5 DEF VqInv
<1>6. CASE \E c \in Context : Sends(c)
  BY <1>2, <1>3, <1>6 DEF VqInv
<1> QED BY <1>4, <1>5, <1>6

LEMMA VqStepKept == VqInv /\ [VqNext]_vqVars => VqInv'
<1> SUFFICES ASSUME VqInv, [VqNext]_vqVars PROVE VqInv'
  OBVIOUS
<1>1. CASE UNCHANGED vqVars
  BY <1>1, VqStays
<1>2. CASE VqNext
  <2>1. ~mixed
    BY <1>2 DEF VqNext
  <2>2. CASE PresentIdle
    BY <2>1, <2>2, BeginKept DEF Context
  <2>3. CASE DeviceAnswers
    BY <2>1, <2>3, DeviceAnswersKept
  <2>4. ASSUME NEW c \in Context,
               PresentGuarded(c) \/ ReadHead(c) \/ TakeHead(c) \/ ReadResp(c) \/ TakeResp(c)
               \/ PutInRing(c) \/ Publish(c) \/ TakeUsed(c) \/ FreeBuffers(c)
        PROVE  VqInv'
    BY <2>1, <2>4, BeginKept, ReadDescKept, TakeHeadKept, TakeRespKept, SubmitKept, TakeUsedKept, FreeBuffersKept
  <2> QED BY <1>2, <2>2, <2>3, <2>4 DEF VqNext
<1> QED BY <1>1, <1>2

\* The control queue under every sequence of commands and interruptions: types and QueueSound.
\* No descriptor is lost and each command returns with its own answer, unless a frame was
\* presented inside one of the idle loop (VirtioGpu.c:452-509, win32kbase.c:915-928).
THEOREM QueueCorrect == VqSpec => [](VqTypeOK /\ QueueSound)
<1>1. VqInit => VqInv
  BY VqStart
<1>2. VqInv /\ [VqNext]_vqVars => VqInv'
  BY VqStepKept
<1>3. VqInv => VqTypeOK /\ QueueSound
  BY QueueIsSound DEF VqInv, VqType
<1> QED BY <1>1, <1>2, <1>3, PTL DEF VqSpec
-----------------------------------------------------------------------------
(* The event queue of the tablet.                                            *)

\* The ids of the buffers in the order in which they go round: the one a poll has out, those
\* that are used, those the device has.
Turn(q) ==
  /\ q \in [0..EvSize - 1 -> EvId]
  /\ \A i, j \in 0..EvSize - 1 : q[i] = q[j] => i = j
  /\ \A x \in EvId : \E i \in 0..EvSize - 1 : q[i] = x

Offered == (evIdx - evFetched) % (2 * EvSize)
Holders == {p \in Poller : poller[p].at \in {"taken", "recycle"}}
Out == IF Holders = {} THEN 0 ELSE 1
Untold == IF \E p \in Poller : poller[p].at = "taken" THEN 1 ELSE 0

Owned(q) ==
  /\ Turn(q)
  /\ Out + Len(evUsed) + Offered = EvSize
  /\ \A p \in Holders : poller[p].id = q[0]
  /\ \A k \in 1..Len(evUsed) : evUsed[k] = q[Out + k - 1]
  /\ \A k \in 0..Offered - 1 : evRing[(evFetched + k) % EvSize] = q[Out + Len(evUsed) + k]

\* What is not handed on yet is what the used buffers hold, after the event a poll took out.
Unread ==
  /\ Len(evUnread) = Untold + Len(evUsed)
  /\ \A p \in Poller : poller[p].at = "taken" => poller[p].event = evUnread[1]
  /\ \A k \in 1..Len(evUsed) : evBuf[evUsed[k]] = evUnread[Untold + k]
  /\ \A p \in Poller : poller[p].at = "read" => evUsed # <<>> /\ poller[p].id = evUsed[1]

OnePolls == \A p, o \in Poller : poller[p].at # "idle" /\ poller[o].at # "idle" => p = o

SetupSound ==
  /\ evSetup # "unusable" => "failed" \notin evStatus
  /\ evSetup = "active" => "driver_ok" \in evStatus
  /\ evSetup # "active" => \A p \in Poller : poller[p] = NotPolling
  /\ evSetup \notin {"ready", "active", "unusable"} => evFetched = 0 /\ evUsed = <<>> /\ evUnread = <<>>

PollerState == [at : {"idle", "read", "taken", "recycle"}, id : EvId, event : Event]

EvType ==
  /\ evSetup \in {"find", "map", "features", "queue", "ready", "active", "unusable"}
  /\ evStatus \subseteq {"acknowledge", "driver", "features_ok", "driver_ok", "failed"}
  /\ evRing \in [EvId -> EvId] /\ evIdx \in EvIndex /\ evFetched \in EvIndex
  /\ evUsed \in Seq(EvId) /\ evBuf \in [EvId -> Event] /\ poller \in [Poller -> PollerState]
  /\ evUnread \in Seq(Event) /\ evOverlap \in BOOLEAN /\ evStray \in BOOLEAN

EvInv ==
  /\ EvType
  /\ \/ evOverlap
     \/ /\ ~evStray /\ SetupSound /\ OnePolls
        /\ evSetup \in {"ready", "active"} => Unread /\ \E q : Owned(q)

\* A multiple of what one divides by counts for nothing.
LEMMA MultipleDrops ==
  ASSUME NEW m \in Nat, m > 0, NEW d \in Int, NEW y \in Int
  PROVE  (m * d + y) % m = y % m
<1>1. PICK e \in Int : y = m * e + (y % m)
  BY Quotient
<1>2. y % m \in 0..m - 1
  BY Quotient
<1> DEFINE r == y % m
<1> HIDE DEF r
<1>3. m * d + (m * e + r) = m * (d + e) + r /\ d + e \in Int
  BY <1>2 DEF r
<1>4. (m * (d + e) + r) % m = r
  BY <1>2, <1>3, OneRemainder DEF r
<1> QED BY <1>1, <1>3, <1>4 DEF r

LEMMA SlotAdds ==
  ASSUME NEW m \in Nat, m > 0, NEW x \in Int, NEW k \in Int
  PROVE  ((x % (2 * m)) + k) % m = (x + k) % m
<1> DEFINE b == 2 * m
<1>0. b \in Nat /\ b > 0
  OBVIOUS
<1>1. PICK d \in Int : x = b * d + (x % b)
  <2> HIDE DEF b
  <2> QED BY <1>0, Quotient
<1>2. x % b \in Int
  <2> HIDE DEF b
  <2> QED BY <1>0, Quotient
<1> DEFINE y == (x % b) + k
<1>3. x + k = m * (2 * d) + y /\ 2 * d \in Int /\ y \in Int
  <2> DEFINE z == x % b
  <2>1. x = (2 * m) * d + z /\ z \in Int
    BY <1>1, <1>2
  <2> HIDE DEF z
  <2>2. (2 * m) * d = m * (2 * d)
    OBVIOUS
  <2> QED BY <2>1, <2>2 DEF z
<1> HIDE DEF y
<1>4. (m * (2 * d) + y) % m = y % m
  BY <1>3, MultipleDrops
<1> QED BY <1>3, <1>4 DEF y

\* Places of a ring of m from f on, with fewer than m between them, are different.
LEMMA SlotsDiffer ==
  ASSUME NEW m \in Nat, m > 0, NEW f \in Int, NEW a \in 0..m - 1, NEW b \in 0..m - 1, a # b
  PROVE  (f + a) % m # (f + b) % m
<1> DEFINE g == f % m
<1>1. g \in 0..m - 1
  BY Quotient
<1>2. (g + a) % m = (f + a) % m /\ (g + b) % m = (f + b) % m
  <2>1. ((f % m) + a) % m = (f + a) % m
    BY a \in Int, RemainderAdds
  <2>2. ((f % m) + b) % m = (f + b) % m
    BY b \in Int, RemainderAdds
  <2> QED BY <2>1, <2>2
<1> HIDE DEF g
<1>3. a \in 0..m /\ b \in 0..m /\ m \in Nat \ {0}
  OBVIOUS
<1>4. /\ (g + a) % m = (IF g + a < m THEN g + a ELSE g + a - m)
      /\ (g + b) % m = (IF g + b < m THEN g + b ELSE g + b - m)
  BY <1>1, <1>3, RingArithmetic
<1>5. (g + a) % m # (g + b) % m
  BY <1>1, <1>4
<1> QED BY <1>2, <1>5

LEMMA ImageCount ==
  ASSUME NEW n \in Nat, NEW f, \A i, j \in 1..n : f[i] = f[j] => i = j
  PROVE  Cardinality({f[i] : i \in 1..n}) = n
<1> DEFINE S == {f[i] : i \in 1..n}
           g == [i \in 1..n |-> f[i]]
<1>1. g \in Bijection(1..n, S)
  <2>1. g \in [1..n -> S]
    OBVIOUS
  <2>2. \A a, b \in 1..n : g[a] = g[b] => a = b
    OBVIOUS
  <2>3. \A t \in S : \E s \in 1..n : g[s] = t
    OBVIOUS
  <2> QED BY <2>1, <2>2, <2>3, Fun_IsBij
<1>2. IsFiniteSet(1..n) /\ Cardinality(1..n) = n
  BY FS_Interval
<1> HIDE DEF S, g
<1>3. ExistsBijection(1..n, S)
  BY <1>1 DEF ExistsBijection
<1>4. Cardinality(S) = n
  BY <1>2, <1>3, FS_Bijection
<1> QED BY <1>4 DEF S

LEMMA EvParts ==
  ASSUME EvInv, ~evOverlap
  PROVE  /\ EvSize \in Nat \ {0} /\ evRing \in [EvId -> EvId] /\ evIdx \in EvIndex /\ evFetched \in EvIndex
         /\ evUsed \in Seq(EvId) /\ evBuf \in [EvId -> Event] /\ evUnread \in Seq(Event)
         /\ poller \in [Poller -> PollerState]
         /\ ~evStray /\ SetupSound /\ OnePolls
         /\ evSetup \in {"ready", "active"} => Unread /\ \E q : Owned(q)
BY EvSizesOK DEF EvInv, EvType

LEMMA OutIs ==
  /\ Out \in {0, 1} /\ Untold \in {0, 1}
  /\ Out = 0 <=> Holders = {}
  /\ Untold = 0 <=> \A p \in Poller : poller[p].at # "taken"
BY DEF Out, Untold

LEMMA HoldersCounted ==
  ASSUME OnePolls
  PROVE  Cardinality(Holders) = Out
<1>1. CASE Holders = {}
  BY <1>1, FS_EmptySet DEF Out
<1>2. CASE Holders # {}
  <2>1. PICK p : p \in Holders
    BY <1>2
  <2>2. Holders = {p}
    BY <2>1 DEF Holders, OnePolls
  <2> QED BY <1>2, <2>2, FS_Singleton DEF Out
<1> QED BY <1>1, <1>2

LEMMA OfferedIs ==
  ASSUME EvSize \in Nat \ {0}, evIdx \in EvIndex, evFetched \in EvIndex
  PROVE  /\ Offered = IF evIdx >= evFetched THEN evIdx - evFetched ELSE evIdx - evFetched + 2 * EvSize
         /\ Offered \in 0..2 * EvSize - 1
<1> DEFINE b == 2 * EvSize
<1>1. b \in Nat \ {0} /\ evIdx \in 0..b - 1 /\ evFetched \in 0..b - 1
  BY DEF EvIndex
<1> HIDE DEF b
<1>2. (evIdx - evFetched) % b = IF evIdx >= evFetched THEN evIdx - evFetched ELSE evIdx - evFetched + b
  BY <1>1, RingArithmetic
<1>3. (IF evIdx >= evFetched THEN evIdx - evFetched ELSE evIdx - evFetched + b) \in 0..b - 1
  BY <1>1
<1> QED BY <1>2, <1>3 DEF Offered, b

LEMMA TabletIsSound == EvInv => TabletSound
<1> SUFFICES ASSUME EvInv, ~evOverlap, evSetup = "active"
             PROVE  /\ "driver_ok" \in evStatus /\ "failed" \notin evStatus
                    /\ Cardinality({evRing[(evFetched + k) % EvSize] : k \in 0..Offered - 1}) = Offered
                    /\ Cardinality({evUsed[k] : k \in DOMAIN evUsed}) = Len(evUsed)
                    /\ Offered + Len(evUsed) + Cardinality(Holders) = EvSize
                    /\ {evRing[(evFetched + k) % EvSize] : k \in 0..Offered - 1}
                       \union {evUsed[k] : k \in DOMAIN evUsed} \union {poller[p].id : p \in Holders} = EvId
  BY EvParts DEF TabletSound, Offered, Holders
<1>1. SetupSound /\ OnePolls /\ evUsed \in Seq(EvId) /\ EvSize \in Nat \ {0}
      /\ poller \in [Poller -> PollerState]
      /\ Offered \in 0..2 * EvSize - 1
  BY EvParts, OfferedIs
<1>2. PICK q : Owned(q)
  BY EvParts
<1> DEFINE g == Offered
           u == Len(evUsed)
           o == Out
           place(k) == evRing[(evFetched + k) % EvSize]
<1>3. g \in Nat /\ u \in Nat /\ o \in {0, 1} /\ o + u + g = EvSize /\ (o = 0 <=> Holders = {}) /\ DOMAIN evUsed = 1..u
  BY <1>1, <1>2, OutIs DEF Owned
<1>4. /\ \A k \in 1..u : evUsed[k] = q[o + k - 1]
      /\ \A k \in 0..g - 1 : place(k) = q[o + u + k]
      /\ \A p \in Holders : poller[p].id = q[0]
  BY <1>2 DEF Owned
<1>5. /\ q \in [0..EvSize - 1 -> EvId] /\ \A i, j \in 0..EvSize - 1 : q[i] = q[j] => i = j
      /\ \A x \in EvId : \E i \in 0..EvSize - 1 : q[i] = x
  BY <1>2 DEF Owned, Turn
<1> HIDE DEF g, u, o, place
<1>6. Cardinality({place(k) : k \in 0..g - 1}) = g
  <2> DEFINE f == [i \in 1..g |-> place(i - 1)]
  <2>1. \A i \in 1..g : f[i] = q[o + u + (i - 1)] /\ o + u + (i - 1) \in 0..EvSize - 1
    <3> TAKE i \in 1..g
    <3>1. i - 1 \in 0..g - 1 /\ o + u + (i - 1) \in 0..EvSize - 1
      BY <1>1, <1>3
    <3> QED BY <1>4, <3>1
  <2>2. \A i, j \in 1..g : f[i] = f[j] => i = j
    <3> TAKE i, j \in 1..g
    <3> HAVE f[i] = f[j]
    <3>1. o + u + (i - 1) = o + u + (j - 1)
      BY <1>5, <2>1
    <3> QED BY <1>3, <3>1
  <2>3. {place(k) : k \in 0..g - 1} = {f[i] : i \in 1..g}
    <3>1. \A k \in 0..g - 1 : k + 1 \in 1..g /\ f[k + 1] = place(k)
      BY <1>3
    <3>2. \A i \in 1..g : i - 1 \in 0..g - 1 /\ f[i] = place(i - 1)
      BY <1>3
    <3> HIDE DEF f
    <3> QED BY <3>1, <3>2
  <2> HIDE DEF f
  <2>4. Cardinality({f[i] : i \in 1..g}) = g
    BY <1>3, <2>2, ImageCount
  <2> QED BY <2>3, <2>4
<1>7. Cardinality({evUsed[k] : k \in DOMAIN evUsed}) = u
  <2>1. \A i, j \in 1..u : evUsed[i] = evUsed[j] => i = j
    <3> TAKE i, j \in 1..u
    <3> HAVE evUsed[i] = evUsed[j]
    <3>1. o + i - 1 \in 0..EvSize - 1 /\ o + j - 1 \in 0..EvSize - 1
      BY <1>1, <1>3
    <3>2. o + i - 1 = o + j - 1
      BY <1>4, <1>5, <3>1
    <3> QED BY <1>3, <3>2
  <2>2. Cardinality({evUsed[i] : i \in 1..u}) = u
    BY <1>3, <2>1, ImageCount
  <2> QED BY <1>3, <2>2
<1>8. g + u + Cardinality(Holders) = EvSize
  <2>1. Cardinality(Holders) = o
    BY <1>1, HoldersCounted DEF o
  <2> QED BY <1>1, <1>3, <2>1
<1>9. {place(k) : k \in 0..g - 1} \union {evUsed[k] : k \in DOMAIN evUsed} \union {poller[p].id : p \in Holders} = EvId
  <2>1. ASSUME NEW x \in EvId
        PROVE  (\E k \in 0..g - 1 : x = place(k)) \/ (\E k \in 1..u : x = evUsed[k]) \/ (\E p \in Holders : x = poller[p].id)
    <3>1. PICK i \in 0..EvSize - 1 : q[i] = x
      BY <1>5
    <3>2. CASE i < o
      <4>1. i = 0 /\ Holders # {}
        BY <1>1, <1>3, <3>1, <3>2
      <4> QED BY <1>4, <3>1, <4>1
    <3>3. CASE o <= i /\ i < o + u
      <4>1. i - o + 1 \in 1..u /\ o + (i - o + 1) - 1 = i
        BY <1>1, <1>3, <3>1, <3>3
      <4>2. evUsed[i - o + 1] = x
        BY <1>4, <3>1, <4>1
      <4> QED BY <4>1, <4>2
    <3>4. CASE o + u <= i
      <4>1. i - o - u \in 0..g - 1 /\ o + u + (i - o - u) = i
        BY <1>1, <1>3, <3>1, <3>4
      <4>2. place(i - o - u) = x
        BY <1>4, <3>1, <4>1
      <4> QED BY <4>1, <4>2
    <3> QED BY <1>1, <1>3, <3>1, <3>2, <3>3, <3>4
  <2>2. \A k \in 0..g - 1 : place(k) \in EvId
    <3> TAKE k \in 0..g - 1
    <3>1. o + u + k \in 0..EvSize - 1
      BY <1>1, <1>3
    <3> QED BY <1>4, <1>5, <3>1
  <2>3. (\A k \in DOMAIN evUsed : evUsed[k] \in EvId) /\ \A p \in Holders : poller[p].id \in EvId
    BY <1>1 DEF Holders, PollerState
  <2> QED BY <1>3, <2>1, <2>2, <2>3
<1>10. "driver_ok" \in evStatus /\ "failed" \notin evStatus
  BY <1>1 DEF SetupSound
<1> QED BY <1>6, <1>7, <1>8, <1>9, <1>10 DEF g, u, place

LEMMA EvSetUp == NotPolling \in PollerState /\ NotPolling.at = "idle" /\ 0 \in EvId /\ 0 \in EvIndex /\ EvSize \in EvIndex
<1>1. 0 \in EvId /\ 0 \in EvIndex /\ EvSize \in EvIndex
  BY EvSizesOK DEF EvId, EvIndex
<1> QED BY <1>1 DEF NotPolling, PollerState, Event

LEMMA StepsAre == {SetupSteps[k] : k \in DOMAIN SetupSteps} = {"find", "map", "features", "queue", "ready"}
<1>1. DOMAIN SetupSteps = 1..5
  BY DEF SetupSteps
<1>2. /\ SetupSteps[1] = "find" /\ SetupSteps[2] = "map" /\ SetupSteps[3] = "features" /\ SetupSteps[4] = "queue"
      /\ SetupSteps[5] = "ready"
  BY DEF SetupSteps
<1>3. \A k \in 1..5 : k = 1 \/ k = 2 \/ k = 3 \/ k = 4 \/ k = 5
  OBVIOUS
<1>4. 1 \in 1..5 /\ 2 \in 1..5 /\ 3 \in 1..5 /\ 4 \in 1..5 /\ 5 \in 1..5
  OBVIOUS
<1> HIDE DEF SetupSteps
<1>5. \A k \in 1..5 : SetupSteps[k] \in {"find", "map", "features", "queue", "ready"}
  BY <1>2, <1>3
<1> QED BY <1>1, <1>2, <1>4, <1>5

LEMMA EvTyped == EvType => EvTypeOK
<1>1. {"find", "map", "features", "queue", "ready"} \union {"active", "unusable"}
      = {"find", "map", "features", "queue", "ready", "active", "unusable"}
  OBVIOUS
<1> QED BY <1>1, StepsAre, Zenon DEF EvType, EvTypeOK, PollerState

LEMMA EvStart == EvInit => EvInv
<1> SUFFICES ASSUME EvInit PROVE EvInv
  OBVIOUS
<1>1. poller \in [Poller -> PollerState] /\ \A p \in Poller : poller[p] = NotPolling
  BY EvSetUp DEF EvInit
<1>2. <<>> \in Seq(EvId) /\ <<>> \in Seq(Event)
  OBVIOUS
<1>3. evRing \in [EvId -> EvId] /\ evBuf \in [EvId -> Event]
  BY EvSetUp DEF EvInit, Event
<1>4. evIdx \in EvIndex /\ evFetched \in EvIndex
  BY EvSetUp DEF EvInit
<1>5. /\ evSetup \in {"find", "map", "features", "queue", "ready", "active", "unusable"}
      /\ evStatus \subseteq {"acknowledge", "driver", "features_ok", "driver_ok", "failed"}
      /\ evUsed \in Seq(EvId) /\ evUnread \in Seq(Event) /\ evOverlap \in BOOLEAN /\ evStray \in BOOLEAN
  BY <1>2 DEF EvInit
<1>6. EvType
  BY <1>1, <1>3, <1>4, <1>5 DEF EvType
<1>7. OnePolls
  BY <1>1, EvSetUp DEF OnePolls
<1>8. SetupSound
  BY <1>1 DEF SetupSound, EvInit
<1> QED BY <1>6, <1>7, <1>8 DEF EvInv, EvInit

LEMMA OwnedStays ==
  ASSUME NEW q, UNCHANGED evQueue, Unread, Owned(q)
  PROVE  Unread' /\ Owned(q)'
<1>1. UNCHANGED <<evRing, evIdx, evFetched, evUsed, evBuf, poller, evUnread>>
  BY DEF evQueue
<1>2. Holders' = Holders /\ Out' = Out /\ Untold' = Untold /\ Offered' = Offered
  BY <1>1 DEF Holders, Out, Untold, Offered
<1>3. Unread'
  BY <1>1, <1>2 DEF Unread
<1>4. Owned(q)'
  BY <1>1, <1>2 DEF Owned
<1> QED BY <1>3, <1>4

LEMMA TabletKept ==
  ASSUME EvType', ~evStray', SetupSound', OnePolls', evSetup' \in {"ready", "active"} => Unread' /\ \E q : Owned(q)'
  PROVE  EvInv'
BY DEF EvInv

\* The set-up.
LEMMA SetupKept ==
  ASSUME EvInv, ~evOverlap, FindTablet \/ MapRegions \/ AcceptFeatures \/ DriverOk \/ Refused
  PROVE  EvInv'
<1>0. UNCHANGED evQueue
  BY DEF FindTablet, MapRegions, AcceptFeatures, DriverOk, Refused, GivesUp
<1>1. /\ evSetup \in {"find", "map", "features", "queue", "ready"}
      /\ \/ evSetup' = "unusable" /\ evStatus' \subseteq evStatus \union {"failed"}
         \/ /\ evSetup' \in {"map", "features", "queue"} /\ evSetup \in {"find", "map", "features"}
            /\ evStatus' \subseteq evStatus \union {"acknowledge", "driver", "features_ok"}
         \/ evSetup = "ready" /\ evSetup' = "active" /\ evStatus' = evStatus \union {"driver_ok"}
  BY DEF FindTablet, MapRegions, AcceptFeatures, DriverOk, Refused, GivesUp, Advance
<1>2. UNCHANGED <<evRing, evIdx, evFetched, evUsed, evBuf, poller, evUnread, evOverlap, evStray>>
  BY <1>0 DEF evQueue
<1>3. EvType'
  <2>1. EvType
    BY DEF EvInv
  <2>2. evSetup' \in {"find", "map", "features", "queue", "ready", "active", "unusable"}
        /\ evStatus' \subseteq {"acknowledge", "driver", "features_ok", "driver_ok", "failed"}
    BY <1>1, <2>1 DEF EvType
  <2> QED BY <1>2, <2>1, <2>2 DEF EvType
<1>4. OnePolls' /\ ~evStray'
  BY <1>2, EvParts DEF OnePolls
<1>5. SetupSound'
  <2>1. SetupSound /\ evSetup # "active" /\ evSetup # "unusable"
    BY <1>1, EvParts
  <2> QED BY <1>1, <1>2, <2>1 DEF SetupSound
<1>6. evSetup' \in {"ready", "active"} => Unread' /\ \E q : Owned(q)'
  <2> SUFFICES ASSUME evSetup' \in {"ready", "active"} PROVE Unread' /\ \E q : Owned(q)'
    OBVIOUS
  <2>1. evSetup = "ready"
    BY <1>1
  <2>2. Unread /\ \E q : Owned(q)
    BY <2>1, EvParts
  <2> QED BY <1>0, <2>2, OwnedStays
<1> QED BY <1>3, <1>4, <1>5, <1>6, TabletKept

\* All buffers are given to the device.
LEMMA EventqKept ==
  ASSUME EvInv, ~evOverlap, EventqSetup
  PROVE  EvInv'
<1> DEFINE q == [i \in EvId |-> i]
<1>0. /\ evSetup = "queue" /\ evSetup' = "ready" /\ evStatus' = evStatus
      /\ evRing' = q /\ evIdx' = EvSize
      /\ UNCHANGED <<evFetched, evUsed, evBuf, poller, evUnread, evOverlap, evStray>>
  BY DEF EventqSetup, Advance
<1>1. EvType /\ EvSize \in Nat \ {0} /\ ~evStray /\ SetupSound /\ OnePolls
  BY EvParts DEF EvInv
<1>2. evFetched = 0 /\ evUsed = <<>> /\ evUnread = <<>> /\ \A p \in Poller : poller[p] = NotPolling
  BY <1>0, <1>1 DEF SetupSound
<1>3. EvType'
  <2>1. q \in [EvId -> EvId]
    OBVIOUS
  <2> HIDE DEF q
  <2> QED BY <1>0, <1>1, <2>1, EvSetUp DEF EvType
<1>4. SetupSound' /\ OnePolls' /\ ~evStray'
  BY <1>0, <1>1 DEF SetupSound, OnePolls
<1>5. Holders' = {} /\ Out' = 0 /\ Untold' = 0 /\ Len(<<>>) = 0
  BY <1>0, <1>2, EvSetUp DEF Holders, Out, Untold
<1>6. Unread'
  BY <1>0, <1>2, <1>5, EvSetUp DEF Unread
<1>7. Offered' = EvSize
  <2> DEFINE b == 2 * EvSize
  <2>1. b \in Nat \ {0} /\ EvSize \in 0..b - 1 /\ 0 \in 0..b - 1 /\ EvSize >= 0 /\ EvSize - 0 = EvSize
    BY <1>1
  <2> HIDE DEF b
  <2>2. (EvSize - 0) % b = EvSize
    BY <2>1, RingArithmetic
  <2> QED BY <1>0, <1>2, <2>2 DEF Offered, b
<1>8. Turn(q)
  BY DEF Turn, EvId
<1>9. Owned(q)'
  <2>1. ASSUME NEW k \in 0..EvSize - 1 PROVE evRing'[(0 + k) % EvSize] = q[0 + 0 + k]
    <3>1. k \in 0 - EvSize..EvSize - 1 /\ k >= 0 /\ 0 + k = k /\ 0 + 0 + k = k
      BY <1>1
    <3>2. k % EvSize = k
      BY <1>1, <3>1, NearRemainder
    <3> QED BY <1>0, <3>1, <3>2
  <2> HIDE DEF q
  <2>2. 0 + 0 + EvSize = EvSize /\ ~(\E k \in 1..0 : TRUE)
    BY <1>1
  <2> QED BY <1>0, <1>2, <1>5, <1>7, <1>8, <2>1, <2>2 DEF Owned
<1> QED BY <1>3, <1>4, <1>6, <1>9, TabletKept

\* One polls, and it is now as in new.
LEMMA PollerMoves ==
  ASSUME EvInv, ~evOverlap, NEW p \in Poller, \A o \in Poller : o # p => poller[o].at = "idle",
         NEW new \in PollerState, new.at = "idle" => new = NotPolling, evSetup = "active",
         poller' = [poller EXCEPT ![p] = new], UNCHANGED <<evSetup, evStatus>>
  PROVE  /\ poller' \in [Poller -> PollerState] /\ SetupSound' /\ OnePolls' /\ poller'[p] = new
         /\ \A o \in Poller : o # p => poller'[o].at = "idle"
         /\ Holders' = (IF new.at \in {"taken", "recycle"} THEN {p} ELSE {})
         /\ Out' = (IF new.at \in {"taken", "recycle"} THEN 1 ELSE 0)
         /\ Untold' = (IF new.at = "taken" THEN 1 ELSE 0)
<1>1. poller \in [Poller -> PollerState] /\ SetupSound
  BY EvParts
<1>2. poller'[p] = new /\ (\A o \in Poller : o # p => poller'[o].at = "idle") /\ poller' \in [Poller -> PollerState]
  BY <1>1
<1>3. SetupSound'
  BY <1>1 DEF SetupSound
<1>4. OnePolls'
  BY <1>2 DEF OnePolls
<1>5. Holders' = (IF new.at \in {"taken", "recycle"} THEN {p} ELSE {})
  BY <1>2 DEF Holders
<1>6. Out' = IF new.at \in {"taken", "recycle"} THEN 1 ELSE 0
  BY <1>5 DEF Out
<1>7. Untold' = IF new.at = "taken" THEN 1 ELSE 0
  BY <1>2 DEF Untold
<1> QED BY <1>2, <1>3, <1>4, <1>5, <1>6, <1>7

LEMMA PollerWas ==
  ASSUME EvInv, ~evOverlap, NEW p \in Poller, \A o \in Poller : o # p => poller[o].at = "idle"
  PROVE  /\ Holders = (IF poller[p].at \in {"taken", "recycle"} THEN {p} ELSE {})
         /\ Out = (IF poller[p].at \in {"taken", "recycle"} THEN 1 ELSE 0)
         /\ Untold = (IF poller[p].at = "taken" THEN 1 ELSE 0)
<1>1. Holders = (IF poller[p].at \in {"taken", "recycle"} THEN {p} ELSE {})
  BY DEF Holders
<1>2. Out = IF poller[p].at \in {"taken", "recycle"} THEN 1 ELSE 0
  BY <1>1 DEF Out
<1>3. Untold = IF poller[p].at = "taken" THEN 1 ELSE 0
  BY DEF Untold
<1> QED BY <1>1, <1>2, <1>3

LEMMA PollingNow ==
  ASSUME EvInv, ~evOverlap, NEW p \in Poller, poller[p].at # "idle"
  PROVE  /\ evSetup = "active" /\ \A o \in Poller : o # p => poller[o].at = "idle"
         /\ Unread /\ (\E q : Owned(q)) /\ poller[p] \in PollerState /\ poller \in [Poller -> PollerState]
<1>1. SetupSound /\ OnePolls
  BY EvParts
<1>2. evSetup = "active"
  BY <1>1, EvSetUp DEF SetupSound
<1> QED BY <1>1, <1>2, EvParts DEF OnePolls

\* A poll reads the entry of the used ring.
LEMMA PollReadsKept ==
  ASSUME EvInv, ~evOverlap, NEW p \in Poller, PollReads(p)
  PROVE  EvInv'
<1> DEFINE new == [at |-> "read", id |-> Head(evUsed), event |-> "move"]
<1>0. /\ evSetup = "active" /\ poller[p].at = "idle" /\ evUsed # <<>>
      /\ UNCHANGED <<evSetup, evStatus, evRing, evIdx, evFetched, evUsed, evBuf, evUnread, evStray>>
      /\ poller' = [poller EXCEPT ![p] = new]
  BY DEF PollReads
<1>1. EvType /\ evUsed \in Seq(EvId) /\ ~evStray /\ poller \in [Poller -> PollerState]
  BY EvParts DEF EvInv
<1>2. Head(evUsed) = evUsed[1] /\ Len(evUsed) >= 1 /\ Head(evUsed) \in EvId
  BY <1>0, <1>1
<1>3. new \in PollerState /\ new.at = "read" /\ new.id = evUsed[1]
  BY <1>2 DEF PollerState, Event
<1> HIDE DEF new
<1>4. CASE \A o \in Poller : o # p => poller[o].at = "idle"
  <2>1. /\ poller' \in [Poller -> PollerState] /\ SetupSound' /\ OnePolls' /\ poller'[p] = new
        /\ \A o \in Poller : o # p => poller'[o].at = "idle"
        /\ Holders' = {} /\ Out' = 0 /\ Untold' = 0
    BY <1>0, <1>3, <1>4, PollerMoves
  <2>2. Holders = {} /\ Out = 0 /\ Untold = 0
    BY <1>0, <1>4, PollerWas
  <2>3. PICK q : Owned(q)
    BY <1>0, EvParts
  <2>4. Unread
    BY <1>0, EvParts
  <2>5. Offered' = Offered
    BY <1>0 DEF Offered
  <2>6. Owned(q)'
    BY <1>0, <2>1, <2>2, <2>3, <2>5 DEF Owned
  <2>7. Unread'
    BY <1>0, <1>3, <2>1, <2>2, <2>4 DEF Unread
  <2>8. evOverlap' \in BOOLEAN
    BY <1>1, Zenon DEF PollReads, EvType
  <2>9. EvType'
    BY <1>0, <1>1, <2>1, <2>8 DEF EvType
  <2>10. ~evStray'
    BY <1>0, <1>1
  <2> QED BY <2>1, <2>6, <2>7, <2>9, <2>10, TabletKept
<1>5. CASE \E o \in Poller \ {p} : poller[o].at # "idle"
  <2>1. evOverlap' = TRUE
    BY <1>5, Zenon DEF PollReads
  <2>2. poller' \in [Poller -> PollerState]
    BY <1>0, <1>1, <1>3
  <2>3. EvType'
    BY <1>0, <1>1, <2>1, <2>2 DEF EvType
  <2> QED BY <2>1, <2>3 DEF EvInv
<1> QED BY <1>4, <1>5

\* The index moves on: the entry is out of the used ring.
LEMMA PollAdvancesKept ==
  ASSUME EvInv, ~evOverlap, NEW p \in Poller, PollAdvances(p)
  PROVE  EvInv'
<1> DEFINE new == [poller[p] EXCEPT !.at = "taken", !.event = evBuf[poller[p].id]]
           u == Len(evUsed)
<1>0. /\ poller[p].at = "read"
      /\ UNCHANGED <<evSetup, evStatus, evRing, evIdx, evFetched, evBuf, evUnread, evOverlap, evStray>>
  BY DEF PollAdvances
<1>1. /\ evSetup = "active" /\ (\A o \in Poller : o # p => poller[o].at = "idle") /\ Unread
      /\ poller[p] \in PollerState /\ poller \in [Poller -> PollerState]
  BY <1>0, PollingNow
<1>2. EvType /\ evUsed \in Seq(EvId) /\ ~evStray /\ evBuf \in [EvId -> Event] /\ EvSize \in Nat \ {0}
  BY EvParts DEF EvInv
<1>3. evUsed # <<>> /\ poller[p].id = evUsed[1]
  BY <1>0, <1>1 DEF Unread
<1>4. new \in PollerState /\ new.at = "taken" /\ new.id = evUsed[1] /\ new.event = evBuf[evUsed[1]]
  <2>1. poller[p].id \in EvId /\ evBuf[poller[p].id] \in Event
    BY <1>1, <1>2 DEF PollerState
  <2> QED BY <1>1, <1>3, <2>1 DEF PollerState
<1>5. poller' = [poller EXCEPT ![p] = new] /\ evUsed' = Tail(evUsed)
  BY <1>1, <1>3 DEF PollAdvances
<1> HIDE DEF new
<1>6. /\ u >= 1 /\ u \in Nat /\ evUsed' \in Seq(EvId) /\ Len(evUsed') = u - 1
      /\ \A k \in 1..u - 1 : evUsed'[k] = evUsed[k + 1]
  BY <1>2, <1>3, <1>5
<1>7. /\ poller' \in [Poller -> PollerState] /\ SetupSound' /\ OnePolls' /\ poller'[p] = new
      /\ \A o \in Poller : o # p => poller'[o].at = "idle"
      /\ Holders' = {p} /\ Out' = 1 /\ Untold' = 1
  BY <1>0, <1>1, <1>4, <1>5, PollerMoves
<1>8. Out = 0 /\ Untold = 0
  BY <1>0, <1>1, PollerWas
<1>9. Offered' = Offered /\ Offered \in Nat
  BY <1>0, OfferedIs, EvParts DEF Offered
<1>10. PICK q : Owned(q)
  BY <1>0, PollingNow
<1> HIDE DEF u
<1>11. Owned(q)'
  <2>1. /\ Turn(q) /\ 0 + u + Offered = EvSize
        /\ \A k \in 1..u : evUsed[k] = q[0 + k - 1]
        /\ \A k \in 0..Offered - 1 : evRing[(evFetched + k) % EvSize] = q[0 + u + k]
    BY <1>8, <1>10 DEF Owned, u
  <2>2. new.id = q[0]
    BY <1>4, <1>6, <2>1
  <2>3. \A k \in 1..u - 1 : evUsed'[k] = q[1 + k - 1]
    <3> TAKE k \in 1..u - 1
    <3>1. k + 1 \in 1..u /\ 0 + (k + 1) - 1 = 1 + k - 1
      BY <1>6
    <3> QED BY <1>6, <2>1, <3>1
  <2>4. \A k \in 0..Offered - 1 : evRing[(evFetched + k) % EvSize] = q[1 + (u - 1) + k]
    <3> TAKE k \in 0..Offered - 1
    <3>1. 0 + u + k = 1 + (u - 1) + k
      BY <1>6, <1>9
    <3> QED BY <2>1, <3>1
  <2>5. 1 + (u - 1) + Offered = EvSize
    BY <1>6, <1>9, <2>1
  <2> QED BY <1>0, <1>6, <1>7, <1>9, <2>1, <2>2, <2>3, <2>4, <2>5 DEF Owned
<1>12. Unread'
  <2>1. Len(evUnread) = 0 + u /\ \A k \in 1..u : evBuf[evUsed[k]] = evUnread[0 + k]
    BY <1>1, <1>8 DEF Unread, u
  <2>2. new.event = evUnread[1]
    BY <1>4, <1>6, <2>1
  <2>3. \A k \in 1..u - 1 : evBuf[evUsed'[k]] = evUnread[1 + k]
    <3> TAKE k \in 1..u - 1
    <3>1. k + 1 \in 1..u /\ 0 + (k + 1) = 1 + k
      BY <1>6
    <3> QED BY <1>6, <2>1, <3>1
  <2>4. 0 + u = 1 + (u - 1)
    BY <1>6
  <2> QED BY <1>0, <1>4, <1>6, <1>7, <2>1, <2>2, <2>3, <2>4 DEF Unread
<1>13. EvType' /\ ~evStray'
  BY <1>0, <1>2, <1>6, <1>7 DEF EvType
<1> QED BY <1>7, <1>11, <1>12, <1>13, TabletKept

\* The event is handed on.
LEMMA PollHandlesKept ==
  ASSUME EvInv, ~evOverlap, NEW p \in Poller, PollHandles(p)
  PROVE  EvInv'
<1> DEFINE new == [poller[p] EXCEPT !.at = "recycle"]
           u == Len(evUsed)
<1>0. /\ poller[p].at = "taken" /\ poller' = [poller EXCEPT ![p] = new]
      /\ UNCHANGED <<evSetup, evStatus, evRing, evIdx, evFetched, evUsed, evBuf, evOverlap>>
  BY PollingNow, EvParts DEF PollHandles
<1>1. /\ evSetup = "active" /\ (\A o \in Poller : o # p => poller[o].at = "idle") /\ Unread
      /\ poller[p] \in PollerState /\ poller \in [Poller -> PollerState]
  BY <1>0, PollingNow
<1>2. EvType /\ evUsed \in Seq(EvId) /\ ~evStray /\ evUnread \in Seq(Event) /\ EvSize \in Nat \ {0}
  BY EvParts DEF EvInv
<1>3. new \in PollerState /\ new.at = "recycle" /\ new.id = poller[p].id
  BY <1>1 DEF PollerState
<1> HIDE DEF new
<1>4. /\ poller' \in [Poller -> PollerState] /\ SetupSound' /\ OnePolls' /\ poller'[p] = new
      /\ \A o \in Poller : o # p => poller'[o].at = "idle"
      /\ Holders' = {p} /\ Out' = 1 /\ Untold' = 0
  BY <1>0, <1>1, <1>3, PollerMoves
<1>5. Holders = {p} /\ Out = 1 /\ Untold = 1
  BY <1>0, <1>1, PollerWas
<1>6. u \in Nat /\ Len(evUnread) = 1 + u /\ poller[p].event = evUnread[1]
      /\ \A k \in 1..u : evBuf[evUsed[k]] = evUnread[1 + k]
  BY <1>0, <1>1, <1>2, <1>5 DEF Unread
<1> HIDE DEF u
<1>7. evUnread # <<>> /\ Head(evUnread) = evUnread[1] /\ Tail(evUnread) \in Seq(Event)
      /\ Len(Tail(evUnread)) = u /\ \A k \in 1..u : Tail(evUnread)[k] = evUnread[k + 1]
  BY <1>2, <1>6
<1>8. evUnread' = Tail(evUnread) /\ ~evStray'
  <2>1. evUnread' = Tail(evUnread)
    BY <1>7 DEF PollHandles
  <2>2. evStray' = (evStray \/ evUnread = <<>> \/ Head(evUnread) # poller[p].event)
    BY DEF PollHandles
  <2>3. Head(evUnread) = poller[p].event
    BY <1>6, <1>7
  <2>4. ~evStray'
    BY ONLY <1>2, <1>7, <2>2, <2>3, Zenon
  <2> QED BY <2>1, <2>4
<1>9. Offered' = Offered
  BY <1>0 DEF Offered
<1>10. PICK q : Owned(q)
  BY <1>0, PollingNow
<1>11. Owned(q)'
  BY <1>0, <1>3, <1>4, <1>5, <1>9, <1>10 DEF Owned
<1>12. Unread'
  <2>1. \A k \in 1..u : evBuf[evUsed[k]] = Tail(evUnread)[0 + k]
    <3> TAKE k \in 1..u
    <3>1. 0 + k = k /\ 1 + k = k + 1
      BY <1>6
    <3> QED BY <1>6, <1>7, <3>1
  <2>2. Len(evUnread') = 0 + u
    BY <1>6, <1>7, <1>8
  <2> QED BY <1>0, <1>3, <1>4, <1>8, <2>1, <2>2 DEF Unread, u
<1>13. EvType'
  <2>1. evStray' \in BOOLEAN
    BY Zenon DEF PollHandles
  <2> QED BY <1>0, <1>2, <1>4, <1>7, <1>8, <2>1 DEF EvType
<1> QED BY <1>4, <1>8, <1>11, <1>12, <1>13, TabletKept

\* What is offered, as a place from where the device is.
LEMMA IndexIs ==
  ASSUME EvSize \in Nat \ {0}, evIdx \in EvIndex, evFetched \in EvIndex
  PROVE  evIdx % EvSize = (evFetched + Offered) % EvSize
<1> DEFINE b == 2 * EvSize
           x == evFetched + Offered
<1>1. /\ b \in Nat \ {0} /\ evIdx \in 0..b - 1 /\ evFetched \in 0..b - 1 /\ Offered \in 0..b - 1
      /\ Offered = IF evIdx >= evFetched THEN evIdx - evFetched ELSE evIdx - evFetched + b
  BY OfferedIs DEF EvIndex
<1> HIDE DEF b
<1>2. x \in Int /\ Offered \in 0..b
  BY <1>1
<1>3. x % b = IF x < b THEN x ELSE x - b
  BY <1>1, <1>2, RingArithmetic
<1>4. x % b = evIdx
  <2> DEFINE g == Offered
  <2>1. g = (IF evIdx >= evFetched THEN evIdx - evFetched ELSE evIdx - evFetched + b) /\ x = evFetched + g
    BY <1>1
  <2> HIDE DEF g, x
  <2>2. CASE evIdx >= evFetched
    <3>1. x = evIdx /\ x < b
      BY ONLY <1>1, <2>1, <2>2
    <3> QED BY <1>3, <3>1
  <2>3. CASE ~(evIdx >= evFetched)
    <3>1. x = evIdx + b /\ ~(x < b) /\ x - b = evIdx
      BY ONLY <1>1, <2>1, <2>3
    <3> QED BY <1>3, <3>1
  <2> QED BY <2>2, <2>3
<1> HIDE DEF x
<1>5. ((x % (2 * EvSize)) + 0) % EvSize = (x + 0) % EvSize
  <2>1. EvSize \in Nat /\ EvSize > 0 /\ x \in Int /\ 0 \in Int
    BY <1>2 DEF x
  <2> QED BY ONLY <2>1, SlotAdds
<1>6. evIdx + 0 = evIdx /\ x + 0 = x
  BY <1>1, <1>2
<1>7. x % (2 * EvSize) = evIdx
  BY <1>4 DEF b
<1>8. evIdx % EvSize = x % EvSize
  BY ONLY <1>5, <1>6, <1>7
<1> QED BY ONLY <1>8 DEF x

\* The buffers go round by one.
LEMMA TurnOn ==
  ASSUME EvSize \in Nat \ {0}, NEW q, Turn(q)
  PROVE  Turn([i \in 0..EvSize - 1 |-> IF i < EvSize - 1 THEN q[i + 1] ELSE q[0]])
<1> DEFINE v == [i \in 0..EvSize - 1 |-> IF i < EvSize - 1 THEN q[i + 1] ELSE q[0]]
           n == EvSize - 1
           on(i) == IF i < n THEN i + 1 ELSE 0
           back(i) == IF i > 0 THEN i - 1 ELSE n
<1>1. n \in Nat /\ 0 \in 0..n /\ \A i \in 0..n : on(i) \in 0..n /\ back(i) \in 0..n /\ on(back(i)) = i /\ back(on(i)) = i
  OBVIOUS
<1>2. \A i \in 0..n : v[i] = q[on(i)]
  OBVIOUS
<1>3. q \in [0..n -> EvId] /\ (\A i, j \in 0..n : q[i] = q[j] => i = j) /\ \A x \in EvId : \E i \in 0..n : q[i] = x
  BY DEF Turn
<1>4. v \in [0..n -> EvId]
  <2>1. \A i \in 0..n : v[i] \in EvId
    BY <1>1, <1>2, <1>3
  <2> QED BY <2>1
<1> HIDE DEF v, on, back
<1>5. \A i, j \in 0..n : v[i] = v[j] => i = j
  <2> TAKE i, j \in 0..n
  <2> HAVE v[i] = v[j]
  <2>1. on(i) = on(j)
    BY <1>1, <1>2, <1>3
  <2>2. back(on(i)) = i /\ back(on(j)) = j
    BY <1>1
  <2> QED BY <2>1, <2>2
<1>6. \A x \in EvId : \E i \in 0..n : v[i] = x
  <2> TAKE x \in EvId
  <2>1. PICK i \in 0..n : q[i] = x
    BY <1>3
  <2>2. v[back(i)] = x /\ back(i) \in 0..n
    BY <1>1, <1>2, <2>1
  <2> QED BY <2>2
<1>7. Turn(v)
  BY <1>4, <1>5, <1>6 DEF Turn, n
<1> QED BY <1>7 DEF v

\* The buffer is given back to the device.
LEMMA PollRecyclesKept ==
  ASSUME EvInv, ~evOverlap, NEW p \in Poller, PollRecycles(p)
  PROVE  EvInv'
<1> DEFINE u == Len(evUsed)
           g == Offered
           N == EvSize
           id == poller[p].id
<1>0. /\ poller[p].at = "recycle" /\ poller' = [poller EXCEPT ![p] = NotPolling]
      /\ evRing' = [evRing EXCEPT ![evIdx % N] = id] /\ evIdx' = (evIdx + 1) % (2 * N)
      /\ UNCHANGED <<evSetup, evStatus, evFetched, evUsed, evBuf, evUnread, evOverlap, evStray>>
  BY DEF PollRecycles
<1>1. /\ evSetup = "active" /\ (\A o \in Poller : o # p => poller[o].at = "idle") /\ Unread
      /\ poller[p] \in PollerState /\ poller \in [Poller -> PollerState]
  BY <1>0, PollingNow
<1>2. /\ EvType /\ evUsed \in Seq(EvId) /\ ~evStray /\ N \in Nat \ {0} /\ evIdx \in EvIndex /\ evFetched \in EvIndex
      /\ evRing \in [EvId -> EvId] /\ id \in EvId /\ u \in Nat
  BY <1>1, EvParts DEF EvInv, PollerState
<1>4. /\ poller' \in [Poller -> PollerState] /\ SetupSound' /\ OnePolls' /\ poller'[p] = NotPolling
      /\ \A o \in Poller : o # p => poller'[o].at = "idle"
      /\ Holders' = {} /\ Out' = 0 /\ Untold' = 0
  BY <1>0, <1>1, EvSetUp, PollerMoves
<1>5. Holders = {p} /\ Out = 1 /\ Untold = 0
  BY <1>0, <1>1, PollerWas
<1>6. PICK q : Owned(q)
  BY <1>0, PollingNow
<1>7. /\ Turn(q) /\ 1 + u + g = N /\ id = q[0]
      /\ \A k \in 1..u : evUsed[k] = q[1 + k - 1]
      /\ \A k \in 0..g - 1 : evRing[(evFetched + k) % N] = q[1 + u + k]
  BY <1>5, <1>6 DEF Owned
<1>8. g \in Nat /\ g = (IF evIdx >= evFetched THEN evIdx - evFetched ELSE evIdx - evFetched + 2 * N)
  BY <1>2, OfferedIs
<1>9. evIdx' \in EvIndex /\ Offered' = g + 1
  <2> DEFINE b == 2 * N
  <2>1. b \in Nat \ {0} /\ evIdx \in 0..b - 1 /\ evFetched \in 0..b - 1 /\ 1 \in 0..b /\ g + 1 < b
        /\ g = IF evIdx >= evFetched THEN evIdx - evFetched ELSE evIdx - evFetched + b
    BY <1>2, <1>7, <1>8 DEF EvIndex
  <2> HIDE DEF b, g
  <2>2. (evIdx + 1) % b = IF evIdx + 1 < b THEN evIdx + 1 ELSE evIdx + 1 - b
    BY <2>1, RingArithmetic
  <2> DEFINE next == (evIdx + 1) % b
  <2>3. next \in 0..b - 1
    BY <2>1, <2>2
  <2> HIDE DEF next
  <2>4. (next - evFetched) % b = IF next >= evFetched THEN next - evFetched ELSE next - evFetched + b
    BY <2>1, <2>3, RingArithmetic
  <2>5. (IF next >= evFetched THEN next - evFetched ELSE next - evFetched + b) = g + 1
    BY <1>8, <2>1, <2>2, <2>3 DEF next
  <2>6. evIdx' = next
    BY <1>0 DEF next, b
  <2> QED BY <1>0, <2>3, <2>4, <2>5, <2>6 DEF Offered, EvIndex, b
<1>10. evIdx % N = (evFetched + g) % N
  BY <1>2, IndexIs
<1>11. evIdx % N \in EvId
  <2>1. evIdx \in Int /\ N > 0
    BY <1>2 DEF EvIndex
  <2> QED BY <1>2, <2>1, Quotient DEF EvId
<1>12. evRing' \in [EvId -> EvId] /\ evRing'[(evFetched + g) % N] = id
  BY <1>0, <1>2, <1>10, <1>11
<1>13. \A k \in 0..g - 1 : evRing'[(evFetched + k) % N] = evRing[(evFetched + k) % N]
  <2> TAKE k \in 0..g - 1
  <2>1. k \in 0..N - 1 /\ g \in 0..N - 1 /\ k # g /\ N > 0 /\ N \in Nat /\ evFetched \in Int
    BY <1>2, <1>7, <1>8 DEF EvIndex
  <2> HIDE DEF g, N
  <2>2. (evFetched + k) % N # (evFetched + g) % N
    BY <2>1, SlotsDiffer
  <2>3. (evFetched + k) % N \in EvId
    <3>1. evFetched + k \in Int
      BY <2>1
    <3> QED BY <2>1, <3>1, Quotient DEF EvId, N
  <2> QED BY <1>0, <1>2, <1>10, <2>2, <2>3
<1> DEFINE v == [i \in 0..EvSize - 1 |-> IF i < EvSize - 1 THEN q[i + 1] ELSE q[0]]
<1>14. Turn(v)
  BY <1>2, <1>7, TurnOn
<1>15. \A i \in 0..N - 1 : v[i] = IF i < N - 1 THEN q[i + 1] ELSE q[0]
  OBVIOUS
<1> HIDE DEF v, u, g, N, id
<1>16. Owned(v)'
  <2>1. \A k \in 1..u : evUsed[k] = v[0 + k - 1]
    <3> TAKE k \in 1..u
    <3>1. 0 + k - 1 \in 0..N - 1 /\ 0 + k - 1 < N - 1 /\ (0 + k - 1) + 1 = 1 + k - 1
      BY <1>2, <1>7, <1>8
    <3> QED BY <1>7, <1>15, <3>1
  <2>2. \A k \in 0..(g + 1) - 1 : evRing'[(evFetched + k) % N] = v[0 + u + k]
    <3> TAKE k \in 0..(g + 1) - 1
    <3>1. CASE k < g
      <4>1. k \in 0..g - 1 /\ 0 + u + k \in 0..N - 1 /\ 0 + u + k < N - 1 /\ (0 + u + k) + 1 = 1 + u + k
        BY <1>2, <1>7, <1>8, <3>1
      <4>2. v[0 + u + k] = q[1 + u + k]
        BY <1>15, <4>1
      <4> QED BY <1>7, <1>13, <4>1, <4>2
    <3>2. CASE ~(k < g)
      <4>1. k = g /\ 0 + u + k \in 0..N - 1 /\ ~(0 + u + k < N - 1)
        BY <1>2, <1>7, <1>8, <3>2
      <4> QED BY <1>7, <1>12, <1>15, <4>1
    <3> QED BY <3>1, <3>2
  <2>3. 0 + u + (g + 1) = N
    BY <1>2, <1>7, <1>8
  <2> QED BY <1>0, <1>4, <1>9, <1>14, <2>1, <2>2, <2>3 DEF Owned, u, N
<1>17. Unread'
  BY <1>0, <1>1, <1>4, <1>5, EvSetUp DEF Unread
<1>18. EvType' /\ ~evStray'
  BY <1>0, <1>2, <1>4, <1>9, <1>12 DEF EvType
<1> QED BY <1>4, <1>16, <1>17, <1>18, TabletKept

\* The device writes a report.
LEMMA ReportsKept ==
  ASSUME EvInv, ~evOverlap, NEW events \in Seq(Event), DeviceReports(events)
  PROVE  EvInv'
<1> DEFINE u == Len(evUsed)
           g == Offered
           n == Len(events)
           o == Out
           N == EvSize
           id(k) == evRing[(evFetched + k - 1) % N]
           ids == [k \in 1..n |-> id(k)]
<1>0. /\ evSetup = "active" /\ n <= g
      /\ evFetched' = (evFetched + n) % (2 * N)
      /\ evUsed' = evUsed \o ids
      /\ evBuf' = [b \in EvId |-> IF \E k \in 1..n : id(k) = b THEN events[CHOOSE k \in 1..n : id(k) = b] ELSE evBuf[b]]
      /\ evUnread' = evUnread \o events
      /\ UNCHANGED <<evSetup, evStatus, evRing, evIdx, poller, evOverlap, evStray>>
  BY DEF DeviceReports, Offered
<1>1. /\ EvType /\ evUsed \in Seq(EvId) /\ ~evStray /\ N \in Nat \ {0} /\ evIdx \in EvIndex /\ evFetched \in EvIndex
      /\ evRing \in [EvId -> EvId] /\ u \in Nat /\ n \in Nat /\ evUnread \in Seq(Event) /\ evBuf \in [EvId -> Event]
      /\ SetupSound /\ OnePolls /\ Unread
  BY <1>0, EvParts DEF EvInv
<1>2. PICK q : Owned(q)
  BY <1>0, EvParts
<1>3. /\ Turn(q) /\ o + u + g = N /\ (\A p \in Holders : poller[p].id = q[0])
      /\ \A k \in 1..u : evUsed[k] = q[o + k - 1]
      /\ \A k \in 0..g - 1 : evRing[(evFetched + k) % N] = q[o + u + k]
  BY <1>2 DEF Owned
<1>4. o \in {0, 1} /\ g \in Nat /\ g = (IF evIdx >= evFetched THEN evIdx - evFetched ELSE evIdx - evFetched + 2 * N)
  BY <1>1, OutIs, OfferedIs
<1>5. q \in [0..N - 1 -> EvId] /\ \A i, j \in 0..N - 1 : q[i] = q[j] => i = j
  BY <1>3 DEF Turn
<1>6. Holders' = Holders /\ Out' = o /\ Untold' = Untold
  BY <1>0 DEF Holders, Out, Untold
<1>a. /\ n \in Nat /\ u \in Nat /\ g \in Nat /\ N \in Nat /\ N > 0 /\ o \in Int /\ n <= g /\ o + u + g = N /\ 0 <= o
      /\ evFetched \in Int
  BY <1>0, <1>1, <1>3, <1>4 DEF EvIndex
<1>b. evIdx \in 0..2 * N - 1 /\ evFetched \in 0..2 * N - 1
  BY <1>1 DEF EvIndex
<1>7. evFetched' \in EvIndex /\ Offered' = g - n
  <2> DEFINE b == 2 * N
             next == (evFetched + n) % b
  <2>8. g = IF evIdx >= evFetched THEN evIdx - evFetched ELSE evIdx - evFetched + b
    BY <1>4
  <2>9. evIdx \in 0..b - 1 /\ evFetched \in 0..b - 1
    BY <1>b
  <2> HIDE DEF u, g, n, o, N
  <2>10. b \in Nat \ {0} /\ n \in 0..b /\ g < b
    BY ONLY <1>a
  <2>1. b \in Nat \ {0} /\ evIdx \in 0..b - 1 /\ evFetched \in 0..b - 1 /\ n \in 0..b /\ g < b
        /\ g = IF evIdx >= evFetched THEN evIdx - evFetched ELSE evIdx - evFetched + b
    BY <2>8, <2>9, <2>10
  <2>7. n \in Nat /\ n <= g
    BY <1>0, <1>1
  <2>6. evFetched' = next
    BY <1>0
  <2> HIDE DEF b, g, n
  <2>2. (evFetched + n) % b = IF evFetched + n < b THEN evFetched + n ELSE evFetched + n - b
    BY <2>1, RingArithmetic
  <2>3. next \in 0..b - 1
    BY <2>1, <2>2
  <2> HIDE DEF next
  <2>4. (evIdx - next) % b = IF evIdx >= next THEN evIdx - next ELSE evIdx - next + b
    BY <2>1, <2>3, RingArithmetic
  <2>5. (IF evIdx >= next THEN evIdx - next ELSE evIdx - next + b) = g - n
    <3>1. next = IF evFetched + n < b THEN evFetched + n ELSE evFetched + n - b
      BY <2>2 DEF next
    <3>2. CASE evFetched + n < b
      BY <2>1, <2>7, <3>1, <3>2
    <3>3. CASE ~(evFetched + n < b)
      BY <2>1, <2>7, <3>1, <3>3
    <3> QED BY <3>2, <3>3
  <2> QED BY <1>0, <2>3, <2>4, <2>5, <2>6 DEF Offered, EvIndex, b, N, g, n
<1>8. \A k \in 1..n : id(k) = q[o + u + k - 1] /\ o + u + k - 1 \in 0..N - 1 /\ id(k) \in EvId
  <2> TAKE k \in 1..n
  <2>1. k - 1 \in 0..g - 1 /\ evFetched + k - 1 = evFetched + (k - 1) /\ o + u + (k - 1) = o + u + k - 1
        /\ o + u + k - 1 \in 0..N - 1
    <3>1. k \in 1..n
      OBVIOUS
    <3> HIDE DEF u, g, n, o, N
    <3> QED BY ONLY <1>a, <3>1
  <2>2. id(k) = q[o + u + k - 1]
    BY <1>3, <2>1
  <2> QED BY <1>5, <2>1, <2>2
<1>9. ASSUME NEW j \in 1..n, NEW k \in 1..n, id(j) = id(k) PROVE j = k
  <2>1. o + u + j - 1 = o + u + k - 1
    BY <1>5, <1>8, <1>9
  <2> QED BY <1>1, <1>4, <2>1
<1>10. ids \in Seq(EvId) /\ Len(ids) = n /\ \A k \in 1..n : ids[k] = id(k)
  BY <1>1, <1>8
<1>11. \A k \in 1..n : evBuf'[id(k)] = events[k]
  <2> TAKE k \in 1..n
  <2>1. (CHOOSE j \in 1..n : id(j) = id(k)) = k
    BY <1>9
  <2> QED BY <1>0, <1>8, <2>1
<1>12. \A b \in EvId : (\A k \in 1..n : id(k) # b) => evBuf'[b] = evBuf[b]
  BY <1>0
<1>13. evBuf' \in [EvId -> Event]
  <2>1. \A b \in EvId : evBuf'[b] \in Event
    <3> TAKE b \in EvId
    <3>1. CASE \E k \in 1..n : id(k) = b
      <4>1. PICK k \in 1..n : id(k) = b
        BY <3>1
      <4> QED BY <1>11, <4>1
    <3>2. CASE \A k \in 1..n : id(k) # b
      BY <1>1, <1>12, <3>2
    <3> QED BY <3>1, <3>2
  <2>2. evBuf' = [b \in EvId |-> evBuf'[b]]
    BY <1>0
  <2> QED BY <2>1, <2>2
<1> HIDE DEF u, g, n, o, N, id, ids
<1>14. /\ evUsed' \in Seq(EvId) /\ Len(evUsed') = u + n
       /\ \A k \in 1..u : evUsed'[k] = evUsed[k]
       /\ \A k \in u + 1..u + n : evUsed'[k] = id(k - u)
  <2>1. /\ evUsed \o ids \in Seq(EvId) /\ Len(evUsed \o ids) = u + n
        /\ \A k \in 1..u + n : (evUsed \o ids)[k] = IF k <= u THEN evUsed[k] ELSE ids[k - u]
    BY <1>1, <1>10, ConcatProperties DEF u
  <2>2. \A k \in u + 1..u + n : k \in 1..u + n /\ ~(k <= u) /\ k - u \in 1..n
    BY <1>1
  <2>3. \A k \in 1..u : k \in 1..u + n /\ k <= u
    BY <1>1
  <2> QED BY <1>0, <1>10, <2>1, <2>2, <2>3
<1>15. Owned(q)'
  <2>1. \A k \in 1..u + n : evUsed'[k] = q[o + k - 1]
    <3> TAKE k \in 1..u + n
    <3>1. CASE k <= u
      <4>1. k \in 1..u
        BY <1>1, <3>1
      <4> QED BY <1>3, <1>14, <4>1
    <3>2. CASE ~(k <= u)
      <4>1. k \in u + 1..u + n /\ k - u \in 1..n /\ o + u + (k - u) - 1 = o + k - 1
        BY <1>1, <1>4, <3>2
      <4>2. id(k - u) = q[o + u + (k - u) - 1]
        BY <1>8, <4>1
      <4> QED BY <1>14, <4>1, <4>2
    <3> QED BY <3>1, <3>2
  <2>2. \A k \in 0..(g - n) - 1 : evRing'[(evFetched' + k) % N] = q[o + (u + n) + k]
    <3> TAKE k \in 0..(g - n) - 1
    <3>1. n + k \in 0..g - 1 /\ o + u + (n + k) = o + (u + n) + k /\ (evFetched + n) + k = evFetched + (n + k)
          /\ evFetched + n \in Int /\ k \in Int /\ N > 0 /\ N \in Nat
      BY <1>0, <1>1, <1>4 DEF EvIndex
    <3>2. (((evFetched + n) % (2 * N)) + k) % N = ((evFetched + n) + k) % N
      BY <3>1, SlotAdds
    <3>3. evRing[(evFetched + (n + k)) % N] = q[o + u + (n + k)]
      BY <1>3, <3>1
    <3> QED BY <1>0, <3>1, <3>2, <3>3
  <2>3. o + (u + n) + (g - n) = N
    BY <1>1, <1>3, <1>4
  <2> QED BY <1>0, <1>3, <1>6, <1>7, <1>14, <2>1, <2>2, <2>3 DEF Owned, N
<1>16. Unread'
  <2> DEFINE t == Untold
  <2>1. t \in {0, 1} /\ Len(evUnread) = t + u /\ (\A p \in Poller : poller[p].at = "taken" => poller[p].event = evUnread[1])
        /\ (\A k \in 1..u : evBuf[evUsed[k]] = evUnread[t + k])
        /\ (\A p \in Poller : poller[p].at = "read" => evUsed # <<>> /\ poller[p].id = evUsed[1])
        /\ (t = 0 <=> \A p \in Poller : poller[p].at # "taken")
    BY <1>1, OutIs DEF Unread, u
  <2> HIDE DEF t
  <2>2. /\ Len(evUnread') = t + u + n
        /\ \A k \in 1..t + u + n : evUnread'[k] = IF k <= t + u THEN evUnread[k] ELSE events[k - (t + u)]
    <3>1. /\ Len(evUnread \o events) = Len(evUnread) + n
          /\ \A k \in 1..Len(evUnread) + n :
               (evUnread \o events)[k] = IF k <= Len(evUnread) THEN evUnread[k] ELSE events[k - Len(evUnread)]
      BY <1>1, ConcatProperties DEF n
    <3>2. Len(evUnread) = t + u
      BY <2>1
    <3> QED BY <1>0, <3>1, <3>2
  <2>3. ASSUME NEW p \in Poller, poller[p].at = "taken" PROVE poller[p].event = evUnread'[1]
    <3>1. t = 1
      BY <2>1, <2>3
    <3>2. 1 \in 1..t + u + n /\ 1 <= t + u
      BY <1>1, <3>1
    <3> QED BY <2>1, <2>2, <2>3, <3>2
  <2>4. ASSUME NEW k \in 1..u + n PROVE evBuf'[evUsed'[k]] = evUnread'[t + k]
    <3>1. CASE k <= u
      <4>0. k \in Nat /\ 1 <= k /\ k <= u /\ t \in Nat
        BY <1>a, <2>1, <3>1
      <4>a. k \in 1..u /\ t + k <= t + u /\ o + k - 1 \in 0..N - 1
        BY ONLY <1>a, <4>0
      <4>b. t + k \in 1..t + u + n
        BY ONLY <1>a, <4>0
      <4>1. k \in 1..u /\ t + k \in 1..t + u + n /\ t + k <= t + u /\ o + k - 1 \in 0..N - 1
        BY <4>a, <4>b
      <4>2. \A j \in 1..n : id(j) # evUsed[k]
        <5> SUFFICES ASSUME NEW j \in 1..n, id(j) = evUsed[k] PROVE FALSE
          OBVIOUS
        <5>1. o + u + j - 1 = o + k - 1
          BY <1>3, <1>5, <1>8, <4>1
        <5> QED BY <1>1, <1>4, <4>1, <5>1
      <4>3. evUsed[k] \in EvId
        BY <1>1, <4>1 DEF u
      <4> QED BY <1>12, <1>14, <2>1, <2>2, <4>1, <4>2, <4>3
    <3>2. CASE ~(k <= u)
      <4>1. k \in u + 1..u + n /\ k - u \in 1..n /\ t + k \in 1..t + u + n /\ ~(t + k <= t + u) /\ (t + k) - (t + u) = k - u
        BY <1>1, <2>1, <3>2
      <4> QED BY <1>11, <1>14, <2>2, <4>1
    <3> QED BY <3>1, <3>2
  <2>5. ASSUME NEW p \in Poller, poller[p].at = "read" PROVE evUsed' # <<>> /\ poller[p].id = evUsed'[1]
    <3>1. evUsed # <<>> /\ poller[p].id = evUsed[1]
      BY <2>1, <2>5
    <3>2. u >= 1
      BY <1>1, <3>1 DEF u
    <3>3. 1 \in 1..u /\ Len(evUsed') # 0
      BY <1>1, <1>14, <3>2
    <3> QED BY <1>14, <3>1, <3>3
  <2>6. t + (u + n) = t + u + n
    BY <1>1, <2>1
  <2> QED BY <1>0, <1>6, <1>14, <2>2, <2>3, <2>4, <2>5, <2>6 DEF Unread, t
<1>17. SetupSound' /\ OnePolls' /\ ~evStray'
  BY <1>0, <1>1 DEF SetupSound, OnePolls
<1>18. EvType'
  <2>1. evUnread' \in Seq(Event)
    BY <1>0, <1>1, ConcatProperties
  <2> QED BY <1>0, <1>1, <1>7, <1>13, <1>14, <2>1 DEF EvType
<1> QED BY <1>15, <1>16, <1>17, <1>18, TabletKept

LEMMA EvStays == EvInv /\ UNCHANGED evVars => EvInv'
<1> SUFFICES ASSUME EvInv, UNCHANGED evVars PROVE EvInv'
  OBVIOUS
<1>1. UNCHANGED <<evSetup, evStatus, evRing, evIdx, evFetched, evUsed, evBuf, poller, evUnread, evOverlap, evStray>>
      /\ UNCHANGED evQueue
  BY DEF evVars, evQueue
<1>2. EvType'
  BY <1>1 DEF EvInv, EvType
<1>3. CASE evOverlap
  BY <1>1, <1>2, <1>3 DEF EvInv
<1>4. CASE ~evOverlap
  <2>1. ~evStray /\ SetupSound /\ OnePolls /\ (evSetup \in {"ready", "active"} => Unread /\ \E q : Owned(q))
    BY <1>4, EvParts
  <2>2. evSetup \in {"ready", "active"} => Unread' /\ \E q : Owned(q)'
    BY <1>1, <2>1, OwnedStays
  <2>3. ~evStray' /\ SetupSound' /\ OnePolls'
    BY <1>1, <2>1 DEF SetupSound, OnePolls
  <2> QED BY <1>1, <1>2, <2>2, <2>3, TabletKept
<1> QED BY <1>3, <1>4

LEMMA EvStepKept == EvInv /\ [EvNext]_evVars => EvInv'
<1> SUFFICES ASSUME EvInv, [EvNext]_evVars PROVE EvInv'
  OBVIOUS
<1>1. CASE UNCHANGED evVars
  BY <1>1, EvStays
<1>2. CASE EvNext
  <2>1. ~evOverlap
    BY <1>2 DEF EvNext
  <2>2. ASSUME NEW events \in {<<"report">>, <<"move", "report">>}, DeviceReports(events) PROVE EvInv'
    <3>1. events \in Seq(Event)
      <4>1. "move" \in Event /\ "report" \in Event
        BY DEF Event
      <4>2. <<"report">> \in Seq(Event)
        BY <4>1
      <4>3. <<"move", "report">> \in Seq(Event)
        BY <4>1
      <4> QED BY <2>2, <4>2, <4>3
    <3> QED BY <2>1, <2>2, <3>1, ReportsKept
  <2>3. ASSUME NEW p \in Poller, PollReads(p) \/ PollAdvances(p) \/ PollHandles(p) \/ PollRecycles(p) PROVE EvInv'
    BY <2>1, <2>3, PollReadsKept, PollAdvancesKept, PollHandlesKept, PollRecyclesKept
  <2>4. CASE EventqSetup
    BY <2>1, <2>4, EventqKept
  <2>5. CASE FindTablet \/ MapRegions \/ AcceptFeatures \/ DriverOk \/ Refused
    BY <2>1, <2>5, SetupKept
  <2> QED BY <1>2, <2>2, <2>3, <2>4, <2>5 DEF EvNext
<1> QED BY <1>1, <1>2

\* The event queue of the tablet, for every number of buffers and of threads: types and
\* TabletSound. No buffer is lost or with two owners and every event is handed on once and in
\* order, unless two threads poll at once (virtio_input.c:425-450, win32kbase.c:932).
THEOREM TabletCorrect == EvSpec => [](EvTypeOK /\ TabletSound)
<1>1. EvInit => EvInv
  BY EvStart
<1>2. EvInv /\ [EvNext]_evVars => EvInv'
  BY EvStepKept
<1>3. EvInv => EvTypeOK /\ TabletSound
  BY TabletIsSound, EvTyped DEF EvInv
<1> QED BY <1>1, <1>2, <1>3, PTL DEF EvSpec

-----------------------------------------------------------------------------
(* The kernel heap.                                                          *)

\* A list of blocks that tile the heap, as HeapTiled says of the present one.
Tiled(bs) ==
  /\ 0 \in DOMAIN bs /\ DOMAIN bs \subseteq 0..HeapSize - 1
  /\ \A a \in DOMAIN bs : bs[a] \in [size : Nat, free : BOOLEAN]
  /\ \A a \in DOMAIN bs : End(bs, a) \in DOMAIN bs \union {HeapSize}
  /\ \A a, b \in DOMAIN bs : a < b => End(bs, a) <= b

LEMMA BlockEnds ==
  ASSUME NEW bs, Tiled(bs), NEW a \in DOMAIN bs
  PROVE  a \in Nat /\ a < HeapSize /\ End(bs, a) \in Nat /\ End(bs, a) > a /\ bs[a].size \in Nat
         /\ End(bs, a) = a + 3 + bs[a].size
<1>1. HeapSize \in Nat /\ a \in 0..HeapSize - 1 /\ bs[a] \in [size : Nat, free : BOOLEAN]
  BY KhSizesOK DEF Tiled
<1>2. bs[a].size \in Nat
  BY <1>1
<1> QED BY <1>1, <1>2 DEF End, BlockHeader

\* Every block but the first is where another ends, the only one that ends there.
LEMMA OneBefore ==
  ASSUME NEW bs, Tiled(bs), NEW b \in DOMAIN bs \union {HeapSize}, b # 0
  PROVE  \E p \in DOMAIN bs : /\ End(bs, p) = b /\ p < b
                               /\ \A x \in DOMAIN bs : x < b => x <= p
<1> DEFINE below == {x \in DOMAIN bs : x < b}
           up == {x + 1 : x \in below}
<1>0. HeapSize \in Nat /\ HeapSize > 0 /\ b \in Nat /\ b <= HeapSize
  BY KhSizesOK DEF Tiled
<1>1. 0 \in below /\ \A x \in below : x \in Nat /\ x < b /\ x \in DOMAIN bs
  BY <1>0, BlockEnds DEF Tiled
<1>2. up \in SUBSET (1..b) /\ up # {}
  BY <1>0, <1>1
<1>3. PICK m \in up : \A y \in up : y <= m
  BY <1>0, <1>2, GreatestIn
<1>4. PICK p \in below : m = p + 1
  BY <1>3
<1>5. \A x \in below : x <= p
  <2> TAKE x \in below
  <2>1. x + 1 \in up
    OBVIOUS
  <2>2. x + 1 <= p + 1
    BY <1>3, <1>4, <2>1
  <2> QED BY <1>1, <1>4, <2>2
<1>6. p \in DOMAIN bs /\ p < b
  BY <1>4
<1>7. End(bs, p) <= b
  <2>1. CASE b \in DOMAIN bs
    BY <1>6, <2>1 DEF Tiled
  <2>2. CASE b = HeapSize
    <3>1. End(bs, p) \in DOMAIN bs \union {HeapSize}
      BY <1>6 DEF Tiled
    <3>2. \A x \in DOMAIN bs : x <= HeapSize
      BY <1>0, BlockEnds
    <3> QED BY <1>0, <2>2, <3>1, <3>2
  <2> QED BY <2>1, <2>2
<1>8. End(bs, p) = b
  <2>1. End(bs, p) \in Nat /\ End(bs, p) > p /\ p \in Nat
    BY <1>6, BlockEnds
  <2>2. CASE End(bs, p) = HeapSize
    BY <1>0, <1>7, <2>1, <2>2
  <2>3. CASE End(bs, p) \in DOMAIN bs
    <3>1. ~(End(bs, p) < b)
      <4> SUFFICES ASSUME End(bs, p) < b PROVE FALSE
        OBVIOUS
      <4>1. End(bs, p) \in below
        BY <2>3
      <4> HIDE DEF below
      <4> QED BY <1>5, <2>1, <4>1
    <3> QED BY <1>0, <1>7, <2>1, <3>1
  <2>4. End(bs, p) \in DOMAIN bs \union {HeapSize}
    BY <1>6 DEF Tiled
  <2> QED BY <2>2, <2>3, <2>4
<1> QED BY <1>5, <1>6, <1>8

LEMMA EndsApart ==
  ASSUME NEW bs, Tiled(bs), NEW a \in DOMAIN bs, NEW b \in DOMAIN bs, End(bs, a) = End(bs, b)
  PROVE  a = b
<1>1. a \in Nat /\ b \in Nat /\ End(bs, a) > a /\ End(bs, b) > b /\ End(bs, a) \in Nat
  BY BlockEnds
<1>2. ~(a < b) /\ ~(b < a)
  BY <1>1 DEF Tiled
<1> QED BY <1>1, <1>2

\* No two free ones are neighbours; those in use.
Apart(bs) == \A a, b \in DOMAIN bs : bs[a].free /\ bs[b].free => End(bs, a) # b
BlocksTaken(bs) == {a \in DOMAIN bs : ~bs[a].free}

\* The last block of the row that starts at a.
Closes(bs, x) == End(bs, x) \in DOMAIN bs => ~Joined(bs, End(bs, x))
LastOf(bs, a) == Min({x \in DOMAIN bs : x >= a /\ Closes(bs, x)})
Heads(bs) == {a \in DOMAIN bs : ~Joined(bs, a)}

LEMMA MergedIs ==
  ASSUME NEW bs
  PROVE  Merged(bs) = [a \in Heads(bs) |-> [size |-> End(bs, LastOf(bs, a)) - a - BlockHeader, free |-> bs[a].free]]
BY DEF Merged, Heads, LastOf, Closes

LEMMA LastIs ==
  ASSUME NEW bs, Tiled(bs), NEW a \in DOMAIN bs
  PROVE  /\ LastOf(bs, a) \in DOMAIN bs /\ LastOf(bs, a) >= a /\ Closes(bs, LastOf(bs, a))
         /\ \A y \in DOMAIN bs : y >= a /\ Closes(bs, y) => LastOf(bs, a) <= y
<1> DEFINE row == {x \in DOMAIN bs : x >= a /\ Closes(bs, x)}
<1>1. row \in SUBSET Nat
  BY BlockEnds
<1>2. row # {}
  <2>1. PICK p \in DOMAIN bs : End(bs, p) = HeapSize /\ \A x \in DOMAIN bs : x < HeapSize => x <= p
    BY OneBefore, KhSizesOK
  <2>2. p >= a
    BY <2>1, BlockEnds
  <2>3. HeapSize \notin DOMAIN bs
    BY KhSizesOK, BlockEnds
  <2> QED BY <2>1, <2>2, <2>3 DEF Closes
<1>3. Min(row) \in row /\ \A y \in row : Min(row) <= y
  BY <1>1, <1>2, LeastIn
<1>4. LastOf(bs, a) = Min(row)
  BY DEF LastOf
<1> QED BY <1>3, <1>4

\* What merging makes of blocks that tile the heap: they still do, no two that are free are
\* neighbours, and those in use are what they were.
LEMMA MergedSound ==
  ASSUME NEW bs, Tiled(bs)
  PROVE  /\ Tiled(Merged(bs))
         /\ Apart(Merged(bs)) /\ BlocksTaken(Merged(bs)) = BlocksTaken(bs)
         /\ \A a \in DOMAIN bs : ~bs[a].free => Merged(bs)[a].size = bs[a].size
<1> DEFINE ms == Merged(bs)
<1>1. DOMAIN ms = Heads(bs) /\ \A a \in Heads(bs) : ms[a] = [size |-> End(bs, LastOf(bs, a)) - a - BlockHeader, free |-> bs[a].free]
  BY MergedIs
<1> HIDE DEF ms
<1>2. \A a \in Heads(bs) : a \in DOMAIN bs /\ ~Joined(bs, a) /\ a \in Nat
  BY BlockEnds DEF Heads
<1>3. \A a \in Heads(bs) : /\ LastOf(bs, a) \in DOMAIN bs /\ LastOf(bs, a) >= a /\ Closes(bs, LastOf(bs, a))
                            /\ \A y \in DOMAIN bs : y >= a /\ Closes(bs, y) => LastOf(bs, a) <= y
  BY <1>2, LastIs
<1>4. \A a \in Heads(bs) : /\ ms[a].size = End(bs, LastOf(bs, a)) - a - 3 /\ ms[a].free = bs[a].free
                            /\ End(bs, LastOf(bs, a)) \in Nat /\ End(bs, LastOf(bs, a)) >= a + 3
                            /\ ms[a] \in [size : Nat, free : BOOLEAN]
  <2> TAKE a \in Heads(bs)
  <2> DEFINE l == LastOf(bs, a)
             e == End(bs, l)
  <2>1. l \in DOMAIN bs /\ l >= a /\ a \in Nat
    BY <1>2, <1>3
  <2>2. l \in Nat /\ e \in Nat /\ e = l + 3 + bs[l].size /\ bs[l].size \in Nat
    BY <2>1, BlockEnds
  <2> HIDE DEF l
  <2>3. ms[a] = [size |-> e - a - 3, free |-> bs[a].free]
    BY <1>1 DEF BlockHeader, l
  <2> HIDE DEF e
  <2>4. e - a - 3 \in Nat /\ e >= a + 3
    BY <2>1, <2>2
  <2>5. bs[a].free \in BOOLEAN
    BY <1>2 DEF Tiled
  <2>6. ms[a].size = e - a - 3 /\ ms[a].free = bs[a].free /\ ms[a] \in [size : Nat, free : BOOLEAN]
    BY <2>3, <2>4, <2>5
  <2> QED BY <2>2, <2>4, <2>6 DEF l, e
<1>5. \A a \in Heads(bs) : End(ms, a) = End(bs, LastOf(bs, a))
  BY <1>2, <1>4 DEF End, BlockHeader
<1>6. \A a \in Heads(bs) : End(ms, a) \in Heads(bs) \union {HeapSize}
  <2> TAKE a \in Heads(bs)
  <2>1. LastOf(bs, a) \in DOMAIN bs /\ Closes(bs, LastOf(bs, a))
    BY <1>3
  <2>2. End(bs, LastOf(bs, a)) \in DOMAIN bs \union {HeapSize}
    BY <2>1 DEF Tiled
  <2> QED BY <1>5, <2>1, <2>2 DEF Closes, Heads
<1>7. ASSUME NEW a \in Heads(bs), NEW b \in Heads(bs), a < b PROVE End(ms, a) <= b
  <2>1. b \in DOMAIN bs /\ b # 0 /\ a \in Nat /\ b \in Nat
    BY <1>2, <1>7
  <2>2. PICK p \in DOMAIN bs : End(bs, p) = b /\ p < b /\ \A x \in DOMAIN bs : x < b => x <= p
    BY <2>1, OneBefore
  <2>3. p >= a /\ Closes(bs, p)
    BY <1>2, <1>7, <2>2, BlockEnds DEF Closes
  <2>4. LastOf(bs, a) <= p /\ LastOf(bs, a) \in DOMAIN bs
    BY <1>3, <2>2, <2>3
  <2>5. End(bs, LastOf(bs, a)) <= End(bs, p)
    <3>1. CASE LastOf(bs, a) = p
      BY <2>2, <2>1, <3>1
    <3>2. CASE LastOf(bs, a) < p
      <4>1. End(bs, LastOf(bs, a)) <= p
        BY <2>2, <2>4, <3>2 DEF Tiled
      <4>2. End(bs, LastOf(bs, a)) \in Nat /\ p \in Nat
        BY <2>4, BlockEnds
      <4> QED BY <2>1, <2>2, <4>1, <4>2
    <3>3. LastOf(bs, a) \in Nat /\ p \in Nat
      BY <2>4, BlockEnds
    <3> QED BY <2>4, <3>1, <3>2, <3>3
  <2> QED BY <1>5, <2>2, <2>5
<1>8. Tiled(ms)
  <2>1. 0 \in Heads(bs)
    <3>1. \A p \in DOMAIN bs : End(bs, p) # 0
      BY BlockEnds
    <3> QED BY <3>1 DEF Heads, Joined, Tiled
  <2>2. Heads(bs) \subseteq 0..HeapSize - 1
    BY DEF Tiled, Heads
  <2> QED BY <1>1, <1>4, <1>6, <1>7, <2>1, <2>2 DEF Tiled
<1>9. ASSUME NEW a \in Heads(bs), NEW b \in Heads(bs), ms[a].free, ms[b].free PROVE End(ms, a) # b
  <2> DEFINE l == LastOf(bs, a)
  <2>1. l \in DOMAIN bs /\ l >= a /\ Closes(bs, l) /\ a \in DOMAIN bs /\ a \in Nat /\ b \in DOMAIN bs
        /\ \A y \in DOMAIN bs : y >= a /\ Closes(bs, y) => l <= y
    BY <1>2, <1>3
  <2>2. bs[a].free /\ bs[b].free
    BY <1>4, <1>9
  <2> HIDE DEF l
  <2>3. bs[l].free
    <3>1. CASE l = a
      BY <2>2, <3>1
    <3>2. CASE l # a
      <4>1. l \in Nat /\ l # 0 /\ a < l
        BY <2>1, <3>2, BlockEnds
      <4>2. PICK p \in DOMAIN bs : End(bs, p) = l /\ p < l /\ \A x \in DOMAIN bs : x < l => x <= p
        BY <2>1, <4>1, OneBefore
      <4>3. p \in Nat /\ p >= a
        BY <2>1, <4>1, <4>2, BlockEnds
      <4>4. ~Closes(bs, p)
        BY <2>1, <4>1, <4>2, <4>3
      <4> QED BY <4>2, <4>4 DEF Closes, Joined
    <3> QED BY <3>1, <3>2
  <2>4. ASSUME End(bs, l) = b PROVE FALSE
    <3>1. Joined(bs, b)
      BY <2>1, <2>2, <2>3, <2>4 DEF Joined
    <3> QED BY <1>2, <3>1
  <2> QED BY <1>5, <2>4 DEF l
<1>10. ASSUME NEW a \in DOMAIN bs, ~bs[a].free PROVE a \in Heads(bs) /\ ms[a].size = bs[a].size
  <2>1. a \in Heads(bs)
    BY <1>10 DEF Heads, Joined
  <2>2. Closes(bs, a)
    <3> SUFFICES ASSUME NEW p \in DOMAIN bs, bs[p].free, End(bs, p) = End(bs, a) PROVE FALSE
      BY DEF Closes, Joined
    <3> QED BY <1>10, EndsApart
  <2>3. LastOf(bs, a) = a
    <3>1. LastOf(bs, a) <= a /\ LastOf(bs, a) >= a /\ LastOf(bs, a) \in DOMAIN bs
      BY <1>3, <2>1, <2>2, <1>2
    <3> QED BY <3>1, BlockEnds
  <2>4. End(bs, a) = a + 3 + bs[a].size /\ a \in Nat /\ bs[a].size \in Nat
    BY BlockEnds
  <2> QED BY <1>4, <2>1, <2>3, <2>4
<1>11. BlocksTaken(ms) = BlocksTaken(bs)
  BY <1>1, <1>2, <1>4, <1>10 DEF BlocksTaken
<1>12. Apart(ms)
  BY <1>1, <1>9 DEF Apart
<1> QED BY <1>8, <1>10, <1>11, <1>12 DEF ms

\* A block that is taken, with what is left of it.
LEMMA TakenSound ==
  ASSUME Tiled(block), Apart(block), NEW n \in Nat, NEW a \in Fitting(n)
  PROVE  /\ Tiled(Taken(a, n)) /\ Apart(Taken(a, n))
         /\ BlocksTaken(Taken(a, n)) = BlocksTaken(block) \union {a} /\ a \in DOMAIN block \ BlocksTaken(block)
         /\ Taken(a, n)[a].size >= n
         /\ \A x \in BlocksTaken(block) : Taken(a, n)[x].size = block[x].size
<1> DEFINE size == block[a].size
           m == Aligned(n)
           rest == size - m - BlockHeader
           next == Address(a) + m
           bs == Taken(a, n)
<1>1. /\ a \in DOMAIN block /\ block[a].free /\ a \in Nat /\ a < HeapSize /\ size \in Nat
      /\ End(block, a) = a + 3 + size /\ a \notin BlocksTaken(block)
  BY BlockEnds DEF Fitting, BlocksTaken
<1>2. m \in Nat /\ m >= n /\ size >= m
  BY DEF Aligned, Fitting
<1>3. \A x \in DOMAIN block : /\ x \in Nat /\ x < HeapSize /\ End(block, x) \in Nat /\ block[x].size \in Nat
                              /\ End(block, x) = x + 3 + block[x].size
                              /\ block[x] \in [size : Nat, free : BOOLEAN]
                              /\ End(block, x) \in DOMAIN block \union {HeapSize}
                              /\ End(block, x) = End(block, a) => x = a
  BY <1>1, BlockEnds, EndsApart DEF Tiled
<1>4. CASE rest < 2
  <2> DEFINE whole == [block[a] EXCEPT !.free = FALSE]
  <2>1. bs = [block EXCEPT ![a] = whole]
    BY <1>4 DEF Taken
  <2>2. whole.size = size /\ whole.free = FALSE /\ whole \in [size : Nat, free : BOOLEAN]
    BY <1>1, <1>3
  <2> HIDE DEF whole
  <2>3. DOMAIN bs = DOMAIN block /\ bs[a] = whole /\ \A x \in DOMAIN block : x # a => bs[x] = block[x]
    BY <1>1, <2>1
  <2> HIDE DEF bs
  <2>4. \A x \in DOMAIN block : End(bs, x) = End(block, x)
    BY <2>2, <2>3 DEF End
  <2>5. Tiled(bs)
    BY <2>2, <2>3, <2>4 DEF Tiled
  <2>6. Apart(bs)
    BY <2>2, <2>3, <2>4 DEF Apart
  <2>7. BlocksTaken(bs) = BlocksTaken(block) \union {a}
    BY <1>1, <2>2, <2>3 DEF BlocksTaken
  <2>8. bs[a].size >= n /\ \A x \in BlocksTaken(block) : bs[x].size = block[x].size
    BY <1>1, <1>2, <2>2, <2>3 DEF BlocksTaken
  <2> QED BY <1>1, <2>5, <2>6, <2>7, <2>8 DEF bs
<1>5. CASE ~(rest < 2)
  <2> DEFINE taken == [size |-> m, free |-> FALSE]
             left == [size |-> rest, free |-> TRUE]
  <2>1. bs = [x \in DOMAIN block \union {next} |-> IF x = a THEN taken ELSE IF x = next THEN left ELSE block[x]]
    BY <1>5 DEF Taken
  <2>2. rest \in Nat /\ rest = size - m - 3 /\ next = a + 3 + m /\ next \in Nat /\ next > a /\ next < End(block, a)
    BY <1>1, <1>2, <1>5 DEF Address, BlockHeader
  <2>3. taken.size = m /\ taken.free = FALSE /\ taken \in [size : Nat, free : BOOLEAN]
        /\ left.size = rest /\ left.free = TRUE /\ left \in [size : Nat, free : BOOLEAN]
    BY <1>2, <2>2
  <2> HIDE DEF taken, left, rest, next, m
  <2>4. next \notin DOMAIN block
    <3> SUFFICES ASSUME next \in DOMAIN block PROVE FALSE
      OBVIOUS
    <3>1. End(block, a) <= next
      BY <1>1, <2>2 DEF Tiled
    <3> QED BY <1>1, <2>2, <3>1
  <2>5. /\ DOMAIN bs = DOMAIN block \union {next} /\ bs[a] = taken /\ bs[next] = left
        /\ \A x \in DOMAIN block : x # a => bs[x] = block[x]
    BY <1>1, <2>1, <2>4
  <2> HIDE DEF bs
  <2>6. /\ End(bs, a) = next /\ End(bs, next) = End(block, a)
        /\ \A x \in DOMAIN block : x # a => End(bs, x) = End(block, x)
    <3>1. End(bs, a) = next
      BY <1>1, <1>2, <2>2, <2>3, <2>5 DEF End, BlockHeader
    <3>2. End(bs, next) = End(block, a)
      BY <1>1, <1>2, <2>2, <2>3, <2>5 DEF End, BlockHeader
    <3> QED BY <2>5, <3>1, <3>2 DEF End
  <2>7. HeapSize \in Nat /\ End(block, a) <= HeapSize
    BY <1>1, <1>3, KhSizesOK
  <2>8. \A x, y \in DOMAIN bs : x < y => End(bs, x) <= y
    <3> SUFFICES ASSUME NEW x \in DOMAIN bs, NEW y \in DOMAIN bs, x < y PROVE End(bs, x) <= y
      OBVIOUS
    <3>1. CASE x = a
      <4>1. CASE y = next
        BY <1>1, <2>2, <2>6, <3>1, <4>1
      <4>2. CASE y \in DOMAIN block
        <5>1. End(block, a) <= y
          BY <1>1, <3>1, <4>2 DEF Tiled
        <5> QED BY <1>1, <1>3, <2>2, <2>6, <3>1, <4>2, <5>1
      <4> QED BY <2>5, <4>1, <4>2
    <3>2. CASE x = next
      <4>1. y \in DOMAIN block /\ a < y
        BY <1>1, <1>3, <2>2, <2>5, <3>2
      <4>2. End(block, a) <= y
        BY <1>1, <4>1 DEF Tiled
      <4> QED BY <2>6, <3>2, <4>2
    <3>3. CASE x \in DOMAIN block /\ x # a
      <4>1. End(bs, x) = End(block, x)
        BY <2>6, <3>3
      <4>2. CASE y = next
        <5>1. x < a
          <6>1. ASSUME a < x PROVE FALSE
            <7>1. End(block, a) <= x
              BY <1>1, <3>3, <6>1 DEF Tiled
            <7> QED BY <1>1, <1>3, <2>2, <3>3, <4>2, <7>1
          <6> QED BY <1>1, <1>3, <3>3, <6>1
        <5>2. End(block, x) <= a
          BY <1>1, <3>3, <5>1 DEF Tiled
        <5> QED BY <1>1, <1>3, <2>2, <3>3, <4>1, <4>2, <5>2
      <4>3. CASE y \in DOMAIN block
        BY <3>3, <4>1, <4>3 DEF Tiled
      <4> QED BY <2>5, <4>2, <4>3
    <3> QED BY <2>5, <3>1, <3>2, <3>3
  <2>9. Tiled(bs)
    <3>1. DOMAIN bs \subseteq 0..HeapSize - 1 /\ 0 \in DOMAIN bs
      BY <1>1, <1>3, <2>2, <2>5, <2>7 DEF Tiled
    <3>2. \A x \in DOMAIN bs : bs[x] \in [size : Nat, free : BOOLEAN]
      BY <1>3, <2>3, <2>5
    <3>3. \A x \in DOMAIN bs : End(bs, x) \in DOMAIN bs \union {HeapSize}
      BY <1>1, <1>3, <2>5, <2>6
    <3> QED BY <2>8, <3>1, <3>2, <3>3 DEF Tiled
  <2>10. Apart(bs)
    <3> SUFFICES ASSUME NEW x \in DOMAIN bs, NEW y \in DOMAIN bs, bs[x].free, bs[y].free, End(bs, x) = y PROVE FALSE
      BY DEF Apart
    <3>1. x # a /\ y # a
      BY <2>3, <2>5
    <3>2. CASE x = next
      <4>1. y = End(block, a) /\ y # next /\ y \in DOMAIN block
        BY <1>1, <2>2, <2>5, <2>6, <3>2
      <4>2. block[y].free
        BY <2>5, <3>1, <4>1
      <4> QED BY <1>1, <4>1, <4>2 DEF Apart
    <3>3. CASE x \in DOMAIN block
      <4>1. End(block, x) = y /\ block[x].free
        BY <2>5, <2>6, <3>1, <3>3
      <4>2. CASE y = next
        <5>1. next = HeapSize
          BY <1>3, <2>4, <3>3, <4>1, <4>2
        <5> QED BY <1>1, <1>3, <2>2, <2>7, <5>1
      <4>3. CASE y \in DOMAIN block
        <5>1. block[y].free
          BY <2>5, <3>1, <4>3
        <5> QED BY <3>3, <4>1, <4>3, <5>1 DEF Apart
      <4> QED BY <2>5, <4>2, <4>3
    <3> QED BY <2>5, <3>2, <3>3
  <2>11. BlocksTaken(bs) = BlocksTaken(block) \union {a}
    BY <1>1, <2>2, <2>3, <2>4, <2>5 DEF BlocksTaken
  <2>12. bs[a].size >= n /\ \A x \in BlocksTaken(block) : bs[x].size = block[x].size
    BY <1>1, <1>2, <2>3, <2>5 DEF BlocksTaken, m
  <2> QED BY <1>1, <2>9, <2>10, <2>11, <2>12 DEF bs
<1> QED BY <1>4, <1>5

\* A row of pairs that is added to a set of others, or taken out of it.
LEMMA RowCount ==
  ASSUME NEW t, NEW K, IsFiniteSet(K)
  PROVE  IsFiniteSet({t} \X K) /\ Cardinality({t} \X K) = Cardinality(K)
<1> DEFINE f == [k \in K |-> <<t, k>>]
<1>1. f \in Bijection(K, {t} \X K)
  <2>1. f \in [K -> {t} \X K] /\ \A k, l \in K : f[k] = f[l] => k = l
    OBVIOUS
  <2>2. \A z \in {t} \X K : \E k \in K : f[k] = z
    OBVIOUS
  <2> HIDE DEF f
  <2> QED BY <2>1, <2>2 DEF Bijection, Injection, Surjection, IsInjective
<1>2. ExistsBijection(K, {t} \X K)
  BY <1>1 DEF ExistsBijection
<1> QED BY <1>2, FS_Bijection

RowOutside(P, t, K) == \A k \in K : <<t, k>> \notin P
RowInside(P, t, K) == \A k \in K : <<t, k>> \in P

LEMMA RowAdded ==
  ASSUME NEW P, IsFiniteSet(P), NEW t, NEW K, IsFiniteSet(K), RowOutside(P, t, K)
  PROVE  /\ IsFiniteSet(P \union ({t} \X K))
         /\ Cardinality(P \union ({t} \X K)) = Cardinality(P) + Cardinality(K)
<1> DEFINE R == {t} \X K
<1>1. IsFiniteSet(R) /\ Cardinality(R) = Cardinality(K)
  BY RowCount
<1>2. P \intersect R = {}
  BY DEF RowOutside
<1> HIDE DEF R
<1>3. Cardinality(P) \in Nat /\ Cardinality(R) \in Nat /\ Cardinality(P \intersect R) = 0
  BY <1>1, <1>2, FS_CardinalityType, FS_EmptySet
<1>4. IsFiniteSet(P \union R) /\ Cardinality(P \union R) = Cardinality(P) + Cardinality(R) - Cardinality(P \intersect R)
  BY <1>1, FS_Union
<1>5. IsFiniteSet(P \union R) /\ Cardinality(P \union R) = Cardinality(P) + Cardinality(K)
  BY <1>1, <1>3, <1>4
<1> QED BY <1>5 DEF R

LEMMA RowTaken ==
  ASSUME NEW P, IsFiniteSet(P), NEW t, NEW K, IsFiniteSet(K), RowInside(P, t, K)
  PROVE  /\ IsFiniteSet(P \ ({t} \X K)) /\ Cardinality(K) <= Cardinality(P)
         /\ Cardinality(P \ ({t} \X K)) = Cardinality(P) - Cardinality(K)
<1> DEFINE R == {t} \X K
<1>1. IsFiniteSet(R) /\ Cardinality(R) = Cardinality(K)
  BY RowCount
<1>2. P \intersect R = R /\ R \in SUBSET P
  BY DEF RowInside
<1> HIDE DEF R
<1>3. IsFiniteSet(P \ R) /\ Cardinality(P \ R) = Cardinality(P) - Cardinality(P \intersect R)
  BY FS_Difference
<1>4. Cardinality(R) <= Cardinality(P)
  BY <1>2, FS_Subset
<1>5. IsFiniteSet(P \ R) /\ Cardinality(P \ R) = Cardinality(P) - Cardinality(K) /\ Cardinality(K) <= Cardinality(P)
  BY <1>1, <1>2, <1>3, <1>4
<1> QED BY <1>5 DEF R

\* The bytes that those in c asked for, of some kinds.
Cells(c, kinds) == UNION {{a} \X (1..c[a].asked) : a \in {x \in DOMAIN c : c[x].kind \in kinds}}

LEMMA CellsAre ==
  ASSUME NEW c, NEW kinds, NEW z
  PROVE  z \in Cells(c, kinds) <=> \E a \in DOMAIN c : c[a].kind \in kinds /\ \E k \in 1..c[a].asked : z = <<a, k>>
<1>1. z \in Cells(c, kinds) <=> \E a \in DOMAIN c : c[a].kind \in kinds /\ z \in {a} \X (1..c[a].asked)
  BY DEF Cells
<1>2. \A a, K : z \in {a} \X K <=> \E k \in K : z = <<a, k>>
  OBVIOUS
<1> QED BY <1>1, <1>2

LEMMA CellsAdded ==
  ASSUME NEW c, NEW kinds, IsFiniteSet(Cells(c, kinds)), NEW A, A \notin DOMAIN c,
         NEW taker \in [kind : Kind, asked : Nat]
  PROVE  LET after == [x \in DOMAIN c \union {A} |-> IF x = A THEN taker ELSE c[x]]
         IN /\ IsFiniteSet(Cells(after, kinds))
            /\ Cardinality(Cells(after, kinds))
                 = Cardinality(Cells(c, kinds)) + (IF taker.kind \in kinds THEN taker.asked ELSE 0)
<1> DEFINE after == [x \in DOMAIN c \union {A} |-> IF x = A THEN taker ELSE c[x]]
           K == 1..taker.asked
<1>1. DOMAIN after = DOMAIN c \union {A} /\ after[A] = taker /\ \A x \in DOMAIN c : after[x] = c[x]
  OBVIOUS
<1>2. taker.asked \in Nat
  OBVIOUS
<1> HIDE DEF after
<1>3. IsFiniteSet(K) /\ Cardinality(K) = taker.asked
  BY <1>2, FS_Interval
<1>4. RowOutside(Cells(c, kinds), A, K)
  <2> SUFFICES ASSUME NEW k \in K, <<A, k>> \in Cells(c, kinds) PROVE FALSE
    BY DEF RowOutside
  <2>1. PICK a \in DOMAIN c : \E l \in 1..c[a].asked : <<A, k>> = <<a, l>>
    BY CellsAre
  <2> QED BY <2>1
<1> HIDE DEF K
<1>5. CASE taker.kind \in kinds
  <2>1. ASSUME NEW z PROVE z \in Cells(after, kinds) <=> z \in Cells(c, kinds) \union ({A} \X K)
    <3>1. z \in {A} \X K <=> \E k \in 1..after[A].asked : z = <<A, k>>
      BY <1>1 DEF K
    <3>2. z \in Cells(after, kinds) <=> \E a \in DOMAIN after : after[a].kind \in kinds /\ \E k \in 1..after[a].asked : z = <<a, k>>
      BY CellsAre
    <3>3. z \in Cells(c, kinds) <=> \E a \in DOMAIN c : c[a].kind \in kinds /\ \E k \in 1..c[a].asked : z = <<a, k>>
      BY CellsAre
    <3> QED BY <1>1, <1>5, <3>1, <3>2, <3>3
  <2>2. Cells(after, kinds) = Cells(c, kinds) \union ({A} \X K)
    BY <2>1
  <2>3. /\ IsFiniteSet(Cells(c, kinds) \union ({A} \X K))
        /\ Cardinality(Cells(c, kinds) \union ({A} \X K)) = Cardinality(Cells(c, kinds)) + Cardinality(K)
    BY ONLY <1>3, <1>4, RowAdded, IsFiniteSet(Cells(c, kinds))
  <2>4. IsFiniteSet(Cells(after, kinds)) /\ Cardinality(Cells(after, kinds)) = Cardinality(Cells(c, kinds)) + taker.asked
    BY <1>3, <2>2, <2>3
  <2> QED BY <1>5, <2>4 DEF after
<1>6. CASE taker.kind \notin kinds
  <2>1. ASSUME NEW z PROVE z \in Cells(after, kinds) <=> z \in Cells(c, kinds)
    <3>2. z \in Cells(after, kinds) <=> \E a \in DOMAIN after : after[a].kind \in kinds /\ \E k \in 1..after[a].asked : z = <<a, k>>
      BY CellsAre
    <3>3. z \in Cells(c, kinds) <=> \E a \in DOMAIN c : c[a].kind \in kinds /\ \E k \in 1..c[a].asked : z = <<a, k>>
      BY CellsAre
    <3> QED BY <1>1, <1>6, <3>2, <3>3
  <2>2. Cells(after, kinds) = Cells(c, kinds)
    BY <2>1
  <2>3. Cardinality(Cells(c, kinds)) \in Nat
    BY FS_CardinalityType
  <2> QED BY <1>6, <2>2, <2>3 DEF after
<1> QED BY <1>5, <1>6

LEMMA CellsTaken ==
  ASSUME NEW c, NEW kinds, IsFiniteSet(Cells(c, kinds)), NEW A \in DOMAIN c, c[A] \in [kind : Kind, asked : Nat]
  PROVE  LET after == [x \in DOMAIN c \ {A} |-> c[x]]
             here == IF c[A].kind \in kinds THEN c[A].asked ELSE 0
         IN /\ IsFiniteSet(Cells(after, kinds)) /\ here <= Cardinality(Cells(c, kinds))
            /\ Cardinality(Cells(after, kinds)) = Cardinality(Cells(c, kinds)) - here
<1> DEFINE after == [x \in DOMAIN c \ {A} |-> c[x]]
           K == 1..c[A].asked
<1>1. DOMAIN after = DOMAIN c \ {A} /\ \A x \in DOMAIN after : after[x] = c[x]
  OBVIOUS
<1>2. c[A].asked \in Nat
  OBVIOUS
<1> HIDE DEF after
<1>3. IsFiniteSet(K) /\ Cardinality(K) = c[A].asked
  BY <1>2, FS_Interval
<1>4. c[A].kind \in kinds => RowInside(Cells(c, kinds), A, K)
  BY CellsAre DEF RowInside
<1>5. Cardinality(Cells(c, kinds)) \in Nat
  BY FS_CardinalityType
<1> HIDE DEF K
<1>6. ASSUME NEW z PROVE z \in Cells(after, kinds) <=> z \in Cells(c, kinds) /\ ~(\E k \in K : z = <<A, k>>)
  <2>2. z \in Cells(after, kinds) <=> \E a \in DOMAIN after : after[a].kind \in kinds /\ \E k \in 1..after[a].asked : z = <<a, k>>
    BY CellsAre
  <2>3. z \in Cells(c, kinds) <=> \E a \in DOMAIN c : c[a].kind \in kinds /\ \E k \in 1..c[a].asked : z = <<a, k>>
    BY CellsAre
  <2>4. \A a, b, k, l : <<a, k>> = <<b, l>> => a = b /\ k = l
    OBVIOUS
  <2> QED BY <1>1, <2>2, <2>3, <2>4 DEF K
<1>7. CASE c[A].kind \in kinds
  <2>1. Cells(after, kinds) = Cells(c, kinds) \ ({A} \X K)
    BY <1>6
  <2>2. /\ IsFiniteSet(Cells(c, kinds) \ ({A} \X K)) /\ Cardinality(K) <= Cardinality(Cells(c, kinds))
        /\ Cardinality(Cells(c, kinds) \ ({A} \X K)) = Cardinality(Cells(c, kinds)) - Cardinality(K)
    BY ONLY <1>3, <1>4, <1>7, RowTaken, IsFiniteSet(Cells(c, kinds))
  <2>3. /\ IsFiniteSet(Cells(after, kinds)) /\ c[A].asked <= Cardinality(Cells(c, kinds))
        /\ Cardinality(Cells(after, kinds)) = Cardinality(Cells(c, kinds)) - c[A].asked
    BY <1>3, <2>1, <2>2
  <2> QED BY <1>7, <2>3 DEF after
<1>8. CASE c[A].kind \notin kinds
  <2>1. \A k : <<A, k>> \notin Cells(c, kinds)
    BY <1>8, CellsAre
  <2>2. Cells(after, kinds) = Cells(c, kinds)
    BY <1>6, <2>1
  <2> QED BY <1>5, <1>8, <2>2 DEF after
<1> QED BY <1>7, <1>8

\* The blocks in use are held, the bytes asked for are counted.
HeldBy(bs, c) ==
  /\ {Address(a) : a \in BlocksTaken(bs)} = DOMAIN c
  /\ \A a \in BlocksTaken(bs) :
       bs[a].size >= c[Address(a)].asked + (IF c[Address(a)].kind = "raw" THEN 0 ELSE PoolHeader)

BytesOf(c, kinds) == Cardinality(Cells(c, kinds))
Bytes(c) == [all |-> BytesOf(c, PoolType), paged |-> BytesOf(c, {"paged"}), nonpaged |-> BytesOf(c, {"nonpaged"})]

KhInv ==
  /\ Tiled(block) /\ Apart(block) /\ HeldBy(block, client)
  /\ \A a \in DOMAIN client : client[a] \in [kind : Kind, asked : Nat]
  /\ \A kinds : IsFiniteSet(Cells(client, kinds))
  /\ poolBytes = Bytes(client)

LEMMA KhInvPromises == KhInv => KhTypeOK /\ HeapSound
<1> SUFFICES ASSUME KhInv PROVE KhTypeOK /\ HeapSound
  OBVIOUS
<1>1. HeapTiled
  BY DEF KhInv, Tiled, HeapTiled
<1>2. FreeBlocksApart
  BY DEF KhInv, Apart, FreeBlocksApart
<1>3. BlocksHeld
  BY DEF KhInv, HeldBy, BlocksHeld, BlocksTaken
<1>4. PoolBytesExact
  BY DEF KhInv, Bytes, BytesOf, Cells, Asked, PoolBytesExact
<1>5. \A kinds : BytesOf(client, kinds) \in Nat
  BY FS_CardinalityType DEF KhInv, BytesOf
<1>6. poolBytes \in [all : Nat, paged : Nat, nonpaged : Nat]
  BY <1>5 DEF KhInv, Bytes
<1>7. \A a \in DOMAIN client : a \in 0..HeapSize
  <2> TAKE a \in DOMAIN client
  <2>1. PICK b \in BlocksTaken(block) : a = Address(b)
    BY DEF KhInv, HeldBy
  <2>2. b \in DOMAIN block /\ Tiled(block)
    BY <2>1 DEF BlocksTaken, KhInv
  <2>3. b \in Nat /\ End(block, b) = b + 3 + block[b].size /\ block[b].size \in Nat
    BY <2>2, BlockEnds
  <2>4. End(block, b) \in DOMAIN block \union {HeapSize}
    BY <2>2 DEF Tiled
  <2>5. End(block, b) <= HeapSize /\ HeapSize \in Nat
    BY <2>2, <2>3, <2>4, BlockEnds, KhSizesOK
  <2> QED BY <2>1, <2>3, <2>5 DEF Address, BlockHeader
<1>8. KhTypeOK
  BY <1>6, <1>7 DEF KhInv, Tiled, KhTypeOK
<1> QED BY <1>1, <1>2, <1>3, <1>4, <1>8 DEF HeapSound

LEMMA KhStart == KhInit => KhInv
<1> SUFFICES ASSUME KhInit PROVE KhInv
  OBVIOUS
<1>1. /\ DOMAIN block = {0} /\ block[0] = [size |-> HeapSize - 3, free |-> TRUE]
      /\ HeapSize \in Nat /\ HeapSize > 5
  BY KhSizesOK DEF KhInit, BlockHeader
<1>2. block[0].size = HeapSize - 3 /\ block[0].free = TRUE /\ block[0] \in [size : Nat, free : BOOLEAN]
  BY <1>1
<1>3. End(block, 0) = HeapSize
  BY <1>1, <1>2 DEF End, BlockHeader
<1>4. Tiled(block) /\ Apart(block) /\ BlocksTaken(block) = {}
  <2>1. DOMAIN block \subseteq 0..HeapSize - 1 /\ ~(HeapSize = 0)
    BY <1>1
  <2>2. Tiled(block)
    <3>1. \A x \in DOMAIN block : x = 0
      BY <1>1
    <3>2. \A x \in DOMAIN block : block[x] \in [size : Nat, free : BOOLEAN] /\ End(block, x) = HeapSize
      BY <1>2, <1>3, <3>1
    <3>3. \A x, y \in DOMAIN block : ~(x < y)
      BY <3>1
    <3> QED BY <1>1, <2>1, <3>2, <3>3 DEF Tiled
  <2> QED BY <1>1, <1>2, <1>3, <2>1, <2>2 DEF Apart, BlocksTaken
<1>5. DOMAIN client = {}
  BY DEF KhInit
<1>6. \A kinds : Cells(client, kinds) = {}
  BY <1>5 DEF Cells
<1>7. HeldBy(block, client)
  BY <1>4, <1>5 DEF HeldBy
<1>8. (\A kinds : IsFiniteSet(Cells(client, kinds))) /\ \A kinds : BytesOf(client, kinds) = 0
  BY <1>6, FS_EmptySet DEF BytesOf
<1>9. poolBytes = Bytes(client)
  BY <1>8 DEF Bytes, KhInit
<1> QED BY <1>4, <1>5, <1>7, <1>8, <1>9 DEF KhInv

LEMMA KmallocKept ==
  ASSUME KhInv, NEW n \in Nat, NEW taker \in [kind : Kind, asked : Nat], Kmalloc(n, taker),
         n >= taker.asked + (IF taker.kind = "raw" THEN 0 ELSE PoolHeader)
  PROVE  /\ Tiled(block') /\ Apart(block') /\ HeldBy(block', client')
         /\ \A a \in DOMAIN client' : client'[a] \in [kind : Kind, asked : Nat]
         /\ \A kinds : /\ IsFiniteSet(Cells(client', kinds))
                       /\ BytesOf(client', kinds) = BytesOf(client, kinds) + (IF taker.kind \in kinds THEN taker.asked ELSE 0)
<1> DEFINE a == Min(Fitting(n))
           A == Address(a)
<1>1. a \in Fitting(n)
  <2>1. Fitting(n) \in SUBSET Nat /\ Fitting(n) # {}
    BY BlockEnds DEF Fitting, KhInv, Kmalloc
  <2> QED BY <2>1, LeastIn
<1>2. block' = Taken(a, n) /\ client' = [x \in DOMAIN client \union {A} |-> IF x = A THEN taker ELSE client[x]]
  BY DEF Kmalloc
<1> HIDE DEF a
<1>3. /\ Tiled(block') /\ Apart(block') /\ BlocksTaken(block') = BlocksTaken(block) \union {a}
      /\ a \in DOMAIN block \ BlocksTaken(block) /\ block'[a].size >= n
      /\ \A x \in BlocksTaken(block) : block'[x].size = block[x].size
  BY <1>1, <1>2, TakenSound DEF KhInv
<1>4. \A x \in BlocksTaken(block) : x \in Nat /\ a \in Nat /\ block[x].size \in Nat
  BY <1>3, BlockEnds DEF BlocksTaken, KhInv
<1>5. A \notin DOMAIN client /\ \A x \in BlocksTaken(block) : Address(x) # A /\ Address(x) \in DOMAIN client
  <2>1. \A x \in BlocksTaken(block) : Address(x) # A
    BY <1>3, <1>4 DEF Address, BlockHeader
  <2> QED BY <2>1 DEF KhInv, HeldBy
<1> HIDE DEF A
<1>6. DOMAIN client' = DOMAIN client \union {A} /\ client'[A] = taker /\ \A x \in DOMAIN client : client'[x] = client[x]
  BY <1>2, <1>5
<1>7. HeldBy(block', client')
  <2>1. {Address(x) : x \in BlocksTaken(block')} = DOMAIN client'
    BY <1>3, <1>6 DEF KhInv, HeldBy, A
  <2>2. a \in Nat /\ block'[a].size \in Nat
    BY <1>3, BlockEnds DEF BlocksTaken
  <2>3. \A x \in BlocksTaken(block') :
          block'[x].size >= client'[Address(x)].asked + (IF client'[Address(x)].kind = "raw" THEN 0 ELSE PoolHeader)
    <3> TAKE x \in BlocksTaken(block')
    <3>1. CASE x = a
      <4>1. client'[Address(x)] = taker
        BY <1>6, <3>1 DEF A
      <4>2. taker.asked \in Nat /\ PoolHeader = 2
        BY DEF PoolHeader
      <4> QED BY <1>3, <2>2, <3>1, <4>1, <4>2
    <3>2. CASE x \in BlocksTaken(block)
      <4>1. client'[Address(x)] = client[Address(x)] /\ block'[x].size = block[x].size
        BY <1>3, <1>5, <1>6, <3>2
      <4> QED BY <3>2, <4>1 DEF KhInv, HeldBy
    <3> QED BY <1>3, <3>1, <3>2
  <2> QED BY <2>1, <2>3 DEF HeldBy
<1>8. \A x \in DOMAIN client' : client'[x] \in [kind : Kind, asked : Nat]
  BY <1>6 DEF KhInv
<1>9. ASSUME NEW kinds PROVE
        /\ IsFiniteSet(Cells(client', kinds))
        /\ BytesOf(client', kinds) = BytesOf(client, kinds) + (IF taker.kind \in kinds THEN taker.asked ELSE 0)
  <2>1. IsFiniteSet(Cells(client, kinds))
    BY DEF KhInv
  <2> QED BY <1>2, <1>5, <2>1, CellsAdded DEF BytesOf
<1> QED BY <1>3, <1>7, <1>8, <1>9

LEMMA KfreeKept ==
  ASSUME KhInv, NEW A \in DOMAIN client, Kfree(A)
  PROVE  /\ Tiled(block') /\ Apart(block') /\ HeldBy(block', client')
         /\ \A a \in DOMAIN client' : client'[a] \in [kind : Kind, asked : Nat]
         /\ \A kinds : LET here == IF client[A].kind \in kinds THEN client[A].asked ELSE 0
                       IN /\ IsFiniteSet(Cells(client', kinds)) /\ here <= BytesOf(client, kinds)
                          /\ BytesOf(client', kinds) = BytesOf(client, kinds) - here
<1> DEFINE a == A - BlockHeader
           freed == [block[a] EXCEPT !.free = TRUE]
           bs == [block EXCEPT ![a].free = TRUE]
<1>1. PICK b \in BlocksTaken(block) : A = Address(b)
  BY DEF KhInv, HeldBy
<1>2. b \in DOMAIN block /\ b \in Nat /\ Tiled(block)
  BY <1>1, BlockEnds DEF BlocksTaken, KhInv
<1>3. a = b
  BY <1>1, <1>2 DEF Address, BlockHeader
<1>4. block' = Merged(bs) /\ client' = [x \in DOMAIN client \ {A} |-> client[x]]
  BY DEF Kfree
<1>5. bs = [block EXCEPT ![a] = freed]
  OBVIOUS
<1>6. freed.size = block[a].size /\ freed.free = TRUE /\ freed \in [size : Nat, free : BOOLEAN]
  BY <1>2, <1>3 DEF Tiled
<1> HIDE DEF freed
<1>7. DOMAIN bs = DOMAIN block /\ bs[a] = freed /\ \A x \in DOMAIN block : x # a => bs[x] = block[x]
  BY <1>2, <1>3, <1>5
<1> HIDE DEF bs, a
<1>8. \A x \in DOMAIN block : End(bs, x) = End(block, x)
  BY <1>6, <1>7 DEF End
<1>9. Tiled(bs)
  BY <1>2, <1>6, <1>7, <1>8 DEF Tiled
<1>10. BlocksTaken(bs) = BlocksTaken(block) \ {a}
  BY <1>6, <1>7 DEF BlocksTaken
<1>11. /\ Tiled(block') /\ Apart(block') /\ BlocksTaken(block') = BlocksTaken(bs)
       /\ \A x \in BlocksTaken(bs) : block'[x].size = bs[x].size
  BY <1>4, <1>9, MergedSound DEF BlocksTaken
<1>12. DOMAIN client' = DOMAIN client \ {A} /\ \A x \in DOMAIN client' : client'[x] = client[x]
  BY <1>4
<1>13. \A x \in BlocksTaken(block) : x \in Nat /\ (Address(x) = A => x = a)
  BY <1>1, <1>2, <1>3, BlockEnds DEF BlocksTaken, Address, BlockHeader
<1>14. HeldBy(block', client')
  <2>1. {Address(x) : x \in BlocksTaken(block')} = DOMAIN client'
    BY <1>1, <1>3, <1>10, <1>11, <1>12, <1>13 DEF KhInv, HeldBy
  <2>2. \A x \in BlocksTaken(block') :
          block'[x].size >= client'[Address(x)].asked + (IF client'[Address(x)].kind = "raw" THEN 0 ELSE PoolHeader)
    <3> TAKE x \in BlocksTaken(block')
    <3>1. x \in BlocksTaken(block) /\ x # a /\ x \in DOMAIN block
      BY <1>10, <1>11 DEF BlocksTaken
    <3>2. block'[x].size = block[x].size
      BY <1>7, <1>10, <1>11, <3>1
    <3>3. client'[Address(x)] = client[Address(x)]
      BY <1>12, <2>1
    <3> QED BY <3>1, <3>2, <3>3 DEF KhInv, HeldBy
  <2> QED BY <2>1, <2>2 DEF HeldBy
<1>15. \A x \in DOMAIN client' : client'[x] \in [kind : Kind, asked : Nat]
  BY <1>12 DEF KhInv
<1>16. ASSUME NEW kinds PROVE
        LET here == IF client[A].kind \in kinds THEN client[A].asked ELSE 0
        IN /\ IsFiniteSet(Cells(client', kinds)) /\ here <= BytesOf(client, kinds)
           /\ BytesOf(client', kinds) = BytesOf(client, kinds) - here
  <2>1. IsFiniteSet(Cells(client, kinds)) /\ client[A] \in [kind : Kind, asked : Nat]
    BY DEF KhInv
  <2> QED BY <1>4, <2>1, CellsTaken DEF BytesOf
<1> QED BY <1>11, <1>14, <1>15, <1>16

LEMMA PoolAllocated ==
  ASSUME KhInv, NEW type \in PoolType, NEW n \in Nat, ExAllocatePool(type, n)
  PROVE  KhInv'
<1> DEFINE taker == [kind |-> type, asked |-> n]
<1>1. taker \in [kind : Kind, asked : Nat] /\ taker.kind = type /\ taker.asked = n /\ type # "raw"
  BY DEF Kind, PoolType
<1>2. n + PoolHeader \in Nat /\ Kmalloc(n + PoolHeader, taker)
  BY DEF ExAllocatePool, PoolHeader
<1> HIDE DEF taker
<1>3. n + PoolHeader >= taker.asked + (IF taker.kind = "raw" THEN 0 ELSE PoolHeader)
  BY <1>1 DEF PoolHeader
<1>4. /\ Tiled(block') /\ Apart(block') /\ HeldBy(block', client')
      /\ \A a \in DOMAIN client' : client'[a] \in [kind : Kind, asked : Nat]
      /\ \A kinds : /\ IsFiniteSet(Cells(client', kinds))
                    /\ BytesOf(client', kinds) = BytesOf(client, kinds) + (IF type \in kinds THEN n ELSE 0)
  BY <1>1, <1>2, <1>3, KmallocKept
<1>5. \A kinds : BytesOf(client, kinds) \in Nat
  BY FS_CardinalityType DEF KhInv, BytesOf
<1>6. poolBytes' = Bytes(client')
  <2>1. poolBytes = Bytes(client) /\ poolBytes' = [poolBytes EXCEPT !.all = @ + n, ![type] = @ + n]
    BY DEF KhInv, ExAllocatePool
  <2>2. BytesOf(client', PoolType) = BytesOf(client, PoolType) + n
    BY <1>4
  <2>3. CASE type = "paged"
    <3>1. BytesOf(client', {"paged"}) = BytesOf(client, {"paged"}) + n /\ BytesOf(client', {"nonpaged"}) = BytesOf(client, {"nonpaged"})
      BY <1>4, <1>5, <2>3
    <3>2. poolBytes' = [poolBytes EXCEPT !.all = @ + n, !.paged = @ + n]
      BY <2>1, <2>3
    <3> QED BY <1>5, <2>1, <2>2, <3>1, <3>2 DEF Bytes
  <2>4. CASE type = "nonpaged"
    <3>1. BytesOf(client', {"nonpaged"}) = BytesOf(client, {"nonpaged"}) + n /\ BytesOf(client', {"paged"}) = BytesOf(client, {"paged"})
      BY <1>4, <1>5, <2>4
    <3>2. poolBytes' = [poolBytes EXCEPT !.all = @ + n, !.nonpaged = @ + n]
      BY <2>1, <2>4
    <3> QED BY <1>5, <2>1, <2>2, <3>1, <3>2 DEF Bytes
  <2> QED BY <2>3, <2>4 DEF PoolType
<1> QED BY <1>4, <1>6 DEF KhInv

LEMMA PoolFreed ==
  ASSUME KhInv, NEW A \in DOMAIN client, ExFreePool(A)
  PROVE  KhInv'
<1> DEFINE n == client[A].asked
           type == client[A].kind
<1>1. n \in Nat /\ type \in PoolType
  BY DEF KhInv, ExFreePool
<1>2. /\ Tiled(block') /\ Apart(block') /\ HeldBy(block', client')
      /\ \A a \in DOMAIN client' : client'[a] \in [kind : Kind, asked : Nat]
      /\ \A kinds : LET here == IF type \in kinds THEN n ELSE 0
                    IN /\ IsFiniteSet(Cells(client', kinds)) /\ here <= BytesOf(client, kinds)
                       /\ BytesOf(client', kinds) = BytesOf(client, kinds) - here
  BY KfreeKept DEF ExFreePool
<1>3. poolBytes = Bytes(client) /\ poolBytes' = [poolBytes EXCEPT !.all = Less(@, n), ![type] = Less(@, n)]
  BY DEF KhInv, ExFreePool
<1>4. \A kinds : BytesOf(client, kinds) \in Nat
  BY FS_CardinalityType DEF KhInv, BytesOf
<1> HIDE DEF n, type
<1>5. n <= BytesOf(client, PoolType) /\ BytesOf(client', PoolType) = BytesOf(client, PoolType) - n
  BY <1>1, <1>2
<1>6. Less(BytesOf(client, PoolType), n) = BytesOf(client', PoolType)
  BY <1>1, <1>4, <1>5 DEF Less
<1>7. poolBytes' = Bytes(client')
  <2>1. CASE type = "paged"
    <3>1. n <= BytesOf(client, {"paged"}) /\ BytesOf(client', {"paged"}) = BytesOf(client, {"paged"}) - n
          /\ BytesOf(client', {"nonpaged"}) = BytesOf(client, {"nonpaged"}) - 0
      BY <1>2, <2>1
    <3>2. Less(BytesOf(client, {"paged"}), n) = BytesOf(client', {"paged"}) /\ BytesOf(client', {"nonpaged"}) = BytesOf(client, {"nonpaged"})
      BY <1>1, <1>4, <3>1 DEF Less
    <3>3. poolBytes' = [poolBytes EXCEPT !.all = Less(@, n), !.paged = Less(@, n)]
      BY <1>3, <2>1
    <3> QED BY <1>3, <1>6, <3>2, <3>3 DEF Bytes
  <2>2. CASE type = "nonpaged"
    <3>1. n <= BytesOf(client, {"nonpaged"}) /\ BytesOf(client', {"nonpaged"}) = BytesOf(client, {"nonpaged"}) - n
          /\ BytesOf(client', {"paged"}) = BytesOf(client, {"paged"}) - 0
      BY <1>2, <2>2
    <3>2. Less(BytesOf(client, {"nonpaged"}), n) = BytesOf(client', {"nonpaged"}) /\ BytesOf(client', {"paged"}) = BytesOf(client, {"paged"})
      BY <1>1, <1>4, <3>1 DEF Less
    <3>3. poolBytes' = [poolBytes EXCEPT !.all = Less(@, n), !.nonpaged = Less(@, n)]
      BY <1>3, <2>2
    <3> QED BY <1>3, <1>6, <3>2, <3>3 DEF Bytes
  <2> QED BY <1>1, <2>1, <2>2 DEF PoolType
<1> QED BY <1>2, <1>7 DEF KhInv

LEMMA RawKept ==
  ASSUME KhInv, (\E n \in RawRequest : MmAllocate(n)) \/ (\E A \in DOMAIN client : MmFree(A))
  PROVE  KhInv'
<1>1. \A kinds : BytesOf(client, kinds) \in Nat
  BY FS_CardinalityType DEF KhInv, BytesOf
<1>2. ASSUME Bytes(client') = Bytes(client), poolBytes' = poolBytes PROVE poolBytes' = Bytes(client')
  BY <1>2 DEF KhInv
<1>3. ASSUME NEW n \in RawRequest, MmAllocate(n) PROVE KhInv'
  <2> DEFINE taker == [kind |-> "raw", asked |-> n]
  <2>1. n \in Nat
    BY KhSizesOK
  <2>2. taker \in [kind : Kind, asked : Nat] /\ taker.kind = "raw" /\ taker.asked = n /\ Kmalloc(n, taker) /\ poolBytes' = poolBytes
    BY <1>3, <2>1 DEF Kind, MmAllocate
  <2> HIDE DEF taker
  <2>3. n >= taker.asked + (IF taker.kind = "raw" THEN 0 ELSE PoolHeader)
    BY <2>1, <2>2
  <2>4. /\ Tiled(block') /\ Apart(block') /\ HeldBy(block', client')
        /\ \A a \in DOMAIN client' : client'[a] \in [kind : Kind, asked : Nat]
        /\ \A kinds : /\ IsFiniteSet(Cells(client', kinds))
                      /\ BytesOf(client', kinds) = BytesOf(client, kinds) + (IF "raw" \in kinds THEN n ELSE 0)
    BY <2>1, <2>2, <2>3, KmallocKept
  <2>5. \A kinds : "raw" \notin kinds => BytesOf(client', kinds) = BytesOf(client, kinds)
    BY <1>1, <2>4
  <2>6. Bytes(client') = Bytes(client)
    BY <2>5 DEF Bytes, PoolType
  <2> QED BY <1>2, <2>2, <2>4, <2>6 DEF KhInv
<1>4. ASSUME NEW A \in DOMAIN client, MmFree(A) PROVE KhInv'
  <2>1. client[A].kind = "raw" /\ Kfree(A) /\ poolBytes' = poolBytes
    BY <1>4 DEF MmFree
  <2>2. /\ Tiled(block') /\ Apart(block') /\ HeldBy(block', client')
        /\ \A a \in DOMAIN client' : client'[a] \in [kind : Kind, asked : Nat]
        /\ \A kinds : LET here == IF client[A].kind \in kinds THEN client[A].asked ELSE 0
                      IN /\ IsFiniteSet(Cells(client', kinds)) /\ here <= BytesOf(client, kinds)
                         /\ BytesOf(client', kinds) = BytesOf(client, kinds) - here
    BY <2>1, KfreeKept
  <2>3. \A kinds : "raw" \notin kinds => BytesOf(client', kinds) = BytesOf(client, kinds)
    BY <1>1, <2>1, <2>2
  <2>4. Bytes(client') = Bytes(client)
    BY <2>3 DEF Bytes, PoolType
  <2> QED BY <1>2, <2>1, <2>2, <2>4 DEF KhInv
<1> QED BY <1>3, <1>4

LEMMA KhStepKept == KhInv /\ [KhNext]_khVars => KhInv'
<1> SUFFICES ASSUME KhInv, [KhNext]_khVars PROVE KhInv'
  OBVIOUS
<1>1. ASSUME NEW n \in PoolRequest, NEW type \in PoolType, ExAllocatePool(type, n) PROVE KhInv'
  BY <1>1, KhSizesOK, PoolAllocated
<1>2. ASSUME NEW n \in MdlPages, IoAllocateMdl(n) PROVE KhInv'
  <2>1. "nonpaged" \in PoolType /\ MdlHeader + n \in Nat
    BY KhSizesOK DEF PoolType, MdlHeader
  <2> QED BY <1>2, <2>1, PoolAllocated DEF IoAllocateMdl
<1>3. ASSUME NEW A \in DOMAIN client, ExFreePool(A) PROVE KhInv'
  BY <1>3, PoolFreed
<1>4. CASE (\E n \in RawRequest : MmAllocate(n)) \/ (\E A \in DOMAIN client : MmFree(A))
  BY <1>4, RawKept
<1>5. CASE UNCHANGED khVars
  BY <1>5 DEF khVars, KhInv
<1> QED BY <1>1, <1>2, <1>3, <1>4, <1>5 DEF KhNext

\* The blocks tile the heap, no two free ones are neighbours, each that is in use is held and
\* large enough, and the counters of the pool are exact (mm/heap.c:25-55, ex/pool.c:33-98).
THEOREM HeapCorrect == KhSpec => [](KhTypeOK /\ HeapSound)
<1>1. KhInit => KhInv
  BY KhStart
<1>2. KhInv /\ [KhNext]_khVars => KhInv'
  BY KhStepKept
<1>3. KhInv => KhTypeOK /\ HeapSound
  BY KhInvPromises
<1> QED BY <1>1, <1>2, <1>3, PTL DEF KhSpec

-----------------------------------------------------------------------------
(* The frames of memory.                                                     *)

\* The lowest numbers of a set; those up to one of them.
UpTo(S, f) == {g \in S : g <= f}
LowestOf(S, n) == {f \in S : Cardinality(UpTo(S, f)) <= n}

LEMMA LowestCount ==
  ASSUME NEW S \in SUBSET Nat, IsFiniteSet(S), NEW n \in Nat
  PROVE  /\ LowestOf(S, n) \subseteq S /\ IsFiniteSet(LowestOf(S, n))
         /\ Cardinality(LowestOf(S, n)) = IF n <= Cardinality(S) THEN n ELSE Cardinality(S)
         /\ \A m \in Nat : n <= m => LowestOf(S, n) \subseteq LowestOf(S, m)
<1> DEFINE rank == [f \in S |-> Cardinality(UpTo(S, f))]
           c == Cardinality(S)
           L == LowestOf(S, n)
           k == IF n <= c THEN n ELSE c
<1>1. c \in Nat
  BY FS_CardinalityType
<1>2. ASSUME NEW f \in S PROVE IsFiniteSet(UpTo(S, f)) /\ Cardinality(UpTo(S, f)) \in 1..c
  <2>1. UpTo(S, f) \in SUBSET S /\ f \in UpTo(S, f)
    BY DEF UpTo
  <2>2. IsFiniteSet(UpTo(S, f)) /\ Cardinality(UpTo(S, f)) <= c
    BY <2>1, FS_Subset
  <2>3. Cardinality(UpTo(S, f)) \in Nat /\ Cardinality(UpTo(S, f)) # 0
    BY <2>1, <2>2, FS_CardinalityType, FS_EmptySet
  <2> QED BY <1>1, <2>2, <2>3
<1>3. ASSUME NEW f \in S, NEW g \in S, f < g PROVE Cardinality(UpTo(S, f)) < Cardinality(UpTo(S, g))
  <2>0. \A x \in S : x \in Nat
    OBVIOUS
  <2>1. UpTo(S, f) \in SUBSET UpTo(S, g) /\ g \in UpTo(S, g) /\ g \notin UpTo(S, f)
    <3>1. \A x \in S : x <= f => x <= g
      BY <1>3, <2>0
    <3>2. g <= g /\ ~(g <= f)
      BY <1>3, <2>0
    <3> QED BY <3>1, <3>2 DEF UpTo
  <2>2. IsFiniteSet(UpTo(S, g)) /\ Cardinality(UpTo(S, g)) \in Nat /\ Cardinality(UpTo(S, f)) \in Nat
    BY <1>2
  <2>3. Cardinality(UpTo(S, f)) <= Cardinality(UpTo(S, g)) /\ Cardinality(UpTo(S, g)) # Cardinality(UpTo(S, f))
    BY <2>1, <2>2, FS_Subset
  <2> QED BY <2>2, <2>3
<1>4. rank \in Injection(S, 1..c)
  <2>1. rank \in [S -> 1..c]
    BY <1>2
  <2>2. \A f, g \in S : rank[f] = rank[g] => f = g
    <3> SUFFICES ASSUME NEW f \in S, NEW g \in S, rank[f] = rank[g], f # g PROVE FALSE
      OBVIOUS
    <3>1. f < g \/ g < f
      OBVIOUS
    <3>2. Cardinality(UpTo(S, f)) = Cardinality(UpTo(S, g)) /\ Cardinality(UpTo(S, f)) \in Nat
      BY <1>2
    <3> QED BY <1>3, <3>1, <3>2
  <2> HIDE DEF rank
  <2> QED BY <2>1, <2>2 DEF Injection, IsInjective
<1>5. rank \in Surjection(S, 1..c)
  <2>1. IsFiniteSet(1..c) /\ Cardinality(1..c) = c
    BY <1>1, FS_Interval
  <2> HIDE DEF rank, c
  <2>2. Cardinality(S) = Cardinality(1..c)
    BY <2>1 DEF c
  <2> QED BY <1>4, <2>1, <2>2, FS_Injection
<1>6. k \in Nat /\ k <= c /\ k <= n /\ \A i \in 1..c : i <= n <=> i <= k
  BY <1>1
<1> HIDE DEF k
<1>7. \A f \in S : f \in L <=> rank[f] <= k
  BY <1>2, <1>6 DEF LowestOf
<1>8. L \in SUBSET S /\ IsFiniteSet(L)
  <2>1. L \in SUBSET S
    BY DEF LowestOf
  <2> HIDE DEF L
  <2> QED BY <2>1, FS_Subset
<1> HIDE DEF L
<1>9. Cardinality(L) = k
  <2> DEFINE r == [f \in L |-> rank[f]]
  <2>1. /\ \A f \in L : rank[f] \in 1..k
        /\ \A f, g \in L : rank[f] = rank[g] => f = g
        /\ \A i \in 1..k : \E f \in L : rank[f] = i
    <3>1. \A f \in S : rank[f] \in 1..c
      BY <1>2
    <3>2. \A f, g \in S : rank[f] = rank[g] => f = g
      BY <1>4 DEF Injection, IsInjective
    <3>3. \A i \in 1..c : \E f \in S : rank[f] = i
      BY <1>5 DEF Surjection
    <3> HIDE DEF rank
    <3> QED BY <1>1, <1>6, <1>7, <1>8, <3>1, <3>2, <3>3
  <2> HIDE DEF rank
  <2>2. r \in [L -> 1..k] /\ (\A f, g \in L : r[f] = r[g] => f = g) /\ \A i \in 1..k : \E f \in L : r[f] = i
    BY <2>1
  <2> HIDE DEF r
  <2>3. r \in Bijection(L, 1..k)
    BY <2>2 DEF Bijection, Injection, Surjection, IsInjective
  <2>4. ExistsBijection(L, 1..k)
    BY <2>3 DEF ExistsBijection
  <2>5. Cardinality(1..k) = k
    BY <1>6, FS_Interval
  <2>6. Cardinality(1..k) = Cardinality(L)
    BY <1>8, <2>4, FS_Bijection
  <2> QED BY <2>5, <2>6
<1>10. \A m \in Nat : n <= m => L \subseteq LowestOf(S, m)
  <2> SUFFICES ASSUME NEW m \in Nat, n <= m, NEW f \in L PROVE f \in LowestOf(S, m)
    OBVIOUS
  <2>1. f \in S /\ Cardinality(UpTo(S, f)) <= n
    BY DEF L, LowestOf
  <2>2. Cardinality(UpTo(S, f)) \in Nat
    BY <1>2, <2>1
  <2> QED BY <2>1, <2>2 DEF LowestOf
<1> QED BY <1>8, <1>9, <1>10 DEF L, k

\* Pairs of a number and a member of its set, when a set gets more members.
Pairs(f) == UNION {{t} \X f[t] : t \in DOMAIN f}

Gains(g, h, t, K) ==
  /\ DOMAIN h = DOMAIN g \union {t} /\ \A x \in DOMAIN g : x # t => h[x] = g[x]
  /\ IF t \in DOMAIN g THEN h[t] = g[t] \union K /\ g[t] \intersect K = {} ELSE h[t] = K

LEMMA PairsGrow ==
  ASSUME NEW g, NEW h, NEW t, NEW K, IsFiniteSet(Pairs(g)), IsFiniteSet(K), Gains(g, h, t, K)
  PROVE  IsFiniteSet(Pairs(h)) /\ Together(h) = Together(g) + Cardinality(K)
<1>1. ASSUME NEW f, NEW z PROVE z \in Pairs(f) <=> \E x \in DOMAIN f : \E k \in f[x] : z = <<x, k>>
  <2>1. z \in Pairs(f) <=> \E x \in DOMAIN f : z \in {x} \X f[x]
    BY DEF Pairs
  <2>2. \A x, A : z \in {x} \X A <=> \E k \in A : z = <<x, k>>
    OBVIOUS
  <2> QED BY <2>1, <2>2
<1>2. RowOutside(Pairs(g), t, K)
  <2> SUFFICES ASSUME NEW k \in K, <<t, k>> \in Pairs(g) PROVE FALSE
    BY DEF RowOutside
  <2>1. PICK x \in DOMAIN g : \E l \in g[x] : <<t, k>> = <<x, l>>
    BY <1>1
  <2> QED BY <2>1 DEF Gains
<1>3. Pairs(h) = Pairs(g) \union ({t} \X K)
  <2>1. ASSUME NEW z PROVE z \in Pairs(h) <=> z \in Pairs(g) \union ({t} \X K)
    <3>1. z \in {t} \X K <=> \E k \in K : z = <<t, k>>
      OBVIOUS
    <3>2. z \in Pairs(h) <=> \E x \in DOMAIN h : \E k \in h[x] : z = <<x, k>>
      BY <1>1
    <3>3. z \in Pairs(g) <=> \E x \in DOMAIN g : \E k \in g[x] : z = <<x, k>>
      BY <1>1
    <3> QED BY <3>1, <3>2, <3>3 DEF Gains
  <2> QED BY <2>1
<1>4. /\ IsFiniteSet(Pairs(g) \union ({t} \X K))
      /\ Cardinality(Pairs(g) \union ({t} \X K)) = Cardinality(Pairs(g)) + Cardinality(K)
  BY ONLY <1>2, RowAdded, IsFiniteSet(Pairs(g)), IsFiniteSet(K)
<1>5. Together(h) = Cardinality(Pairs(h)) /\ Together(g) = Cardinality(Pairs(g))
  BY DEF Together, Pairs
<1> QED BY <1>3, <1>4, <1>5

\* The frames held for something, when some that are free are taken, or some are released.
FramesTyped == used \subseteq Frame /\ holder \in [Frame -> Use] /\ FramesCounted
HeldFor(h, use) == {f \in Frame : h[f] = use}

LEMMA FramesFinite ==
  ASSUME NEW S \in SUBSET Frame
  PROVE  IsFiniteSet(S) /\ Cardinality(S) \in Nat /\ Cardinality(S) <= Frames /\ Frames \in Nat
<1>1. Frames \in Nat
  BY PmSizesOK
<1> QED BY <1>1, SomeUpTo DEF Frame

LEMMA FramesTaken ==
  ASSUME FramesTyped, NEW S \in SUBSET (Frame \ used), NEW as \in [S -> Use \ {"free"}],
         Hold(as), used' = used \union S, free' = free - Cardinality(S)
  PROVE  /\ FramesTyped'
         /\ \A use \in Use \ {"free"} :
              Cardinality(HeldFor(holder', use)) = Cardinality(HeldFor(holder, use)) + Cardinality({f \in S : as[f] = use})
<1>1. holder' = [f \in Frame |-> IF f \in S THEN as[f] ELSE holder[f]]
  BY DEF Hold
<1>2. /\ used \subseteq Frame /\ holder \in [Frame -> Use] /\ free = Frames - Cardinality(used)
      /\ used = {f \in Frame : holder[f] # "free"}
  BY DEF FramesTyped, FramesCounted
<1>3. holder' \in [Frame -> Use] /\ used' \subseteq Frame /\ used' = {f \in Frame : holder'[f] # "free"}
  BY <1>1, <1>2
<1>4. free' = Frames - Cardinality(used')
  <2>1. /\ Cardinality(used \union S) = Cardinality(used) + Cardinality(S) - Cardinality(used \intersect S)
        /\ Cardinality(used) \in Nat /\ Cardinality(S) \in Nat
    BY <1>2, FramesFinite, FS_Union
  <2>2. used \intersect S = {}
    OBVIOUS
  <2>3. Cardinality(used \intersect S) = 0
    BY <2>2, FS_EmptySet
  <2>4. Frames \in Nat
    BY PmSizesOK
  <2> QED BY <1>2, <2>1, <2>3, <2>4
<1>5. ASSUME NEW use \in Use \ {"free"}
      PROVE  Cardinality(HeldFor(holder', use)) = Cardinality(HeldFor(holder, use)) + Cardinality({f \in S : as[f] = use})
  <2> DEFINE A == HeldFor(holder, use)
             B == {f \in S : as[f] = use}
  <2>1. HeldFor(holder', use) = A \union B /\ A \intersect B = {}
    <3>1. \A f \in S : f \in Frame /\ holder[f] = "free" /\ holder'[f] = as[f]
      BY <1>1, <1>2
    <3>2. \A f \in Frame \ S : holder'[f] = holder[f]
      BY <1>1
    <3>3. A \intersect B = {}
      BY <3>1 DEF HeldFor
    <3>4. \A f \in Frame : holder'[f] = use <=> (holder[f] = use \/ (f \in S /\ as[f] = use))
      <4> TAKE f \in Frame
      <4>1. use # "free"
        OBVIOUS
      <4>2. CASE f \in S
        <5>1. holder[f] # use /\ holder'[f] = as[f]
          BY <3>1, <4>1, <4>2
        <5> QED BY <4>2, <5>1
      <4>3. CASE f \notin S
        BY <3>2, <4>3
      <4> QED BY <4>2, <4>3
    <3>5. HeldFor(holder', use) = A \union B
      BY <3>1, <3>4 DEF HeldFor
    <3> QED BY <3>3, <3>5
  <2>2. A \in SUBSET Frame /\ B \in SUBSET Frame
    BY DEF HeldFor
  <2> HIDE DEF A, B
  <2>3. IsFiniteSet(A) /\ IsFiniteSet(B) /\ Cardinality(A) \in Nat /\ Cardinality(B) \in Nat
    BY <2>2, FramesFinite
  <2>4. Cardinality(A \union B) = Cardinality(A) + Cardinality(B) - Cardinality(A \intersect B)
    BY <2>3, FS_Union
  <2>5. Cardinality(A \intersect B) = 0
    BY <2>1, FS_EmptySet
  <2>6. Cardinality(HeldFor(holder', use)) = Cardinality(A) + Cardinality(B)
    BY <2>1, <2>3, <2>4, <2>5
  <2> QED BY <2>6 DEF A, B
<1> QED BY <1>3, <1>4, <1>5 DEF FramesTyped, FramesCounted

LEMMA FramesReleased ==
  ASSUME FramesTyped, NEW u \in Use \ {"free"}, NEW S \in SUBSET HeldFor(holder, u), Release(S)
  PROVE  /\ FramesTyped'
         /\ Cardinality(S) \in Nat /\ Cardinality(S) <= Cardinality(HeldFor(holder, u))
         /\ Cardinality(HeldFor(holder', u)) = Cardinality(HeldFor(holder, u)) - Cardinality(S)
         /\ \A use \in Use \ {"free", u} : HeldFor(holder', use) = HeldFor(holder, use)
<1>1. holder' = [f \in Frame |-> IF f \in S THEN "free" ELSE holder[f]]
  BY DEF Release, Hold
<1>2. /\ used \subseteq Frame /\ holder \in [Frame -> Use] /\ free = Frames - Cardinality(used)
      /\ used = {f \in Frame : holder[f] # "free"}
  BY DEF FramesTyped, FramesCounted
<1>3. S \in SUBSET used /\ S \in SUBSET Frame /\ S \intersect used = S /\ used \intersect S = S
  BY <1>2 DEF HeldFor
<1>4. "free" \in Use
  BY DEF Use
<1>5. used' = used \ S /\ free' = free + Cardinality(S)
  BY <1>3 DEF Release
<1>6. holder' \in [Frame -> Use] /\ used' \subseteq Frame /\ used' = {f \in Frame : holder'[f] # "free"}
  BY <1>1, <1>2, <1>3, <1>4, <1>5
<1>7. free' = Frames - Cardinality(used')
  <2>1. Cardinality(used \ S) = Cardinality(used) - Cardinality(used \intersect S)
    BY <1>2, FramesFinite, FS_Difference
  <2>2. Cardinality(used) \in Nat /\ Cardinality(S) \in Nat /\ Frames \in Nat
    BY <1>2, <1>3, FramesFinite
  <2>3. Cardinality(used') = Cardinality(used) - Cardinality(S)
    BY <1>3, <1>5, <2>1
  <2>4. free = Frames - Cardinality(used) /\ free' = free + Cardinality(S)
    BY <1>2, <1>5
  <2> QED BY <2>2, <2>3, <2>4
<1>8. /\ Cardinality(S) \in Nat /\ Cardinality(S) <= Cardinality(HeldFor(holder, u))
      /\ Cardinality(HeldFor(holder', u)) = Cardinality(HeldFor(holder, u)) - Cardinality(S)
  <2> DEFINE A == HeldFor(holder, u)
  <2>1. HeldFor(holder', u) = A \ S /\ A \intersect S = S
    BY <1>1, <1>3 DEF HeldFor
  <2>2. A \in SUBSET Frame
    BY DEF HeldFor
  <2>3. IsFiniteSet(A) /\ Cardinality(S) \in Nat
    BY <1>3, <2>2, FramesFinite
  <2>4. Cardinality(A \ S) = Cardinality(A) - Cardinality(A \intersect S)
    BY <2>3, FS_Difference
  <2>5. Cardinality(S) <= Cardinality(A)
    BY <2>3, FS_Subset
  <2> QED BY <2>1, <2>3, <2>4, <2>5
<1>9. \A use \in Use \ {"free", u} : HeldFor(holder', use) = HeldFor(holder, use)
  BY <1>1, <1>3 DEF HeldFor
<1> QED BY <1>6, <1>7, <1>8, <1>9 DEF FramesTyped, FramesCounted

LEMMA WindowIs ==
  ASSUME NEW n \in Nat \ {0}, Window(n) # {}
  PROVE  Window(n) \in SUBSET (Frame \ used) /\ Cardinality(Window(n)) = n
<1> DEFINE starts == {f \in Frame : f + n - 1 <= Frames /\ (f..f + n - 1) \intersect used = {}}
           m == Min(starts)
<1>1. Window(n) = IF starts = {} THEN {} ELSE m..m + n - 1
  BY DEF Window
<1>2. starts # {} /\ Frames \in Nat
  BY <1>1, PmSizesOK
<1>3. starts \in SUBSET Nat
  BY <1>2 DEF Frame
<1>4. m \in starts
  BY <1>2, <1>3, LeastIn
<1>5. m \in Frame /\ m + n - 1 <= Frames /\ (m..m + n - 1) \intersect used = {}
  BY <1>4
<1>6. Window(n) = m..m + n - 1
  BY <1>1, <1>2
<1> HIDE DEF m, starts
<1>7. m \in Nat /\ m >= 1
  BY <1>2, <1>5 DEF Frame
<1>8. Cardinality(m..m + n - 1) = n
  <2>1. m + n - 1 \in Int /\ ~(m > m + n - 1) /\ (m + n - 1) - m + 1 = n
    BY <1>7
  <2> QED BY <1>7, <2>1, FS_Interval
<1>9. \A f \in m..m + n - 1 : f \in Frame
  BY <1>2, <1>5, <1>7 DEF Frame
<1> QED BY <1>5, <1>6, <1>8, <1>9

\* The frames that are taken one by one: as many as asked for, or all that are free.
LEMMA LowestIs ==
  ASSUME NEW n \in Nat
  PROVE  /\ Lowest(n) \in SUBSET (Frame \ used) /\ Cardinality(Frame \ used) \in Nat
         /\ Cardinality(Lowest(n)) = IF n <= Cardinality(Frame \ used) THEN n ELSE Cardinality(Frame \ used)
         /\ n >= Cardinality(Frame \ used) => Lowest(n) = Frame \ used
         /\ \A m \in Nat : n <= m => Lowest(n) \subseteq Lowest(m)
<1> DEFINE S == Frame \ used
<1>1. \A m : Lowest(m) = LowestOf(S, m)
  BY DEF Lowest, LowestOf, UpTo
<1>2. S \in SUBSET Nat /\ S \in SUBSET Frame
  BY PmSizesOK DEF Frame
<1> HIDE DEF S
<1>3. IsFiniteSet(S) /\ Cardinality(S) \in Nat
  BY <1>2, FramesFinite
<1>4. /\ LowestOf(S, n) \subseteq S
      /\ Cardinality(LowestOf(S, n)) = IF n <= Cardinality(S) THEN n ELSE Cardinality(S)
      /\ \A m \in Nat : n <= m => LowestOf(S, n) \subseteq LowestOf(S, m)
  BY <1>2, <1>3, LowestCount
<1>5. n >= Cardinality(S) => LowestOf(S, n) = S
  <2> SUFFICES ASSUME n >= Cardinality(S) PROVE LowestOf(S, n) = S
    OBVIOUS
  <2>1. Cardinality(LowestOf(S, n)) = Cardinality(S)
    BY <1>3, <1>4
  <2> QED BY <1>3, <1>4, <2>1, FS_Subset
<1> QED BY <1>1, <1>3, <1>4, <1>5 DEF S

\* The trees of tables, whose first is the arena, and the address spaces.
TreeType == [tables : 0..Levels, pages : SUBSET (Page \union 0..ArenaPages)]
TablesIn(ts) == [t \in DOMAIN ts |-> 1..ts[t].tables]
PagesIn(ts) == [t \in DOMAIN ts \ {1} |-> ts[t].pages]

TreesOk(ts, res) ==
  /\ ts \in Seq(TreeType) /\ Len(ts) >= 1 /\ ts[1].pages \subseteq 1..res
  /\ IsFiniteSet(Pairs(TablesIn(ts))) /\ IsFiniteSet(Pairs(PagesIn(ts)))

RootsOk(rs, n) ==
  /\ rs \in Seq([Entry -> 0..n]) /\ Len(rs) >= 1
  /\ \A s \in DOMAIN rs : /\ rs[s]["arena"] = 1 /\ rs[s]["other"] # 1 /\ rs[s]["kuser"] # 1
                          /\ rs[s]["kuser"] = rs[1]["kuser"]

LEMMA NextNumbers ==
  ASSUME NEW a \in Nat, NEW n \in Nat
  PROVE  IsFiniteSet(a + 1..a + n) /\ Cardinality(a + 1..a + n) = n
<1> DEFINE lo == a + 1
           hi == a + n
<1>1. lo \in Int /\ hi \in Int /\ (n = 0 => lo > hi) /\ (n # 0 => ~(lo > hi)) /\ hi - lo + 1 = n
  OBVIOUS
<1> HIDE DEF lo, hi
<1>2. IsFiniteSet(lo..hi) /\ Cardinality(lo..hi) = IF lo > hi THEN 0 ELSE hi - lo + 1
  BY <1>1, FS_Interval
<1>3. IsFiniteSet(lo..hi) /\ Cardinality(lo..hi) = n
  BY <1>1, <1>2
<1> QED BY <1>3 DEF lo, hi

\* A tree that gets tables and pages, or a new one.
LEMMA TreeGrows ==
  ASSUME NEW res \in Nat, NEW more \in Nat, res <= more, TreesOk(tree, res), NEW t \in DOMAIN tree, NEW n \in Nat,
         tree[t].tables + n <= Levels, NEW pages \in SUBSET (Page \union 0..ArenaPages), IsFiniteSet(pages),
         t = 1 => pages \subseteq 1..more, t # 1 => tree[t].pages \intersect pages = {},
         tree' = [tree EXCEPT ![t] = [tables |-> @.tables + n, pages |-> @.pages \union pages]]
  PROVE  /\ TreesOk(tree', more) /\ Len(tree') = Len(tree)
         /\ Together(TablesIn(tree')) = Together(TablesIn(tree)) + n
         /\ Together(PagesIn(tree')) = Together(PagesIn(tree)) + (IF t = 1 THEN 0 ELSE Cardinality(pages))
<1> DEFINE new == [tables |-> tree[t].tables + n, pages |-> tree[t].pages \union pages]
           old == tree[t].tables
           K == old + 1..old + n
<1>1. Levels \in Nat /\ tree \in Seq(TreeType) /\ tree[t] \in TreeType /\ DOMAIN tree = 1..Len(tree) /\ Len(tree) \in Nat
  BY PmSizesOK DEF TreesOk
<1>2. old \in Nat /\ tree[t].pages \in SUBSET (Page \union 0..ArenaPages)
  BY <1>1 DEF TreeType
<1>3. new \in TreeType /\ new.tables = old + n /\ new.pages = tree[t].pages \union pages
  BY <1>1, <1>2 DEF TreeType
<1>4. tree' = [tree EXCEPT ![t] = new]
  OBVIOUS
<1> HIDE DEF new, old
<1>5. /\ tree' \in Seq(TreeType) /\ Len(tree') = Len(tree) /\ DOMAIN tree' = DOMAIN tree
      /\ tree'[t] = new /\ \A x \in DOMAIN tree : x # t => tree'[x] = tree[x]
  <2>1. t \in 1..Len(tree)
    BY <1>1
  <2>2. /\ [tree EXCEPT ![t] = new] \in Seq(TreeType) /\ Len([tree EXCEPT ![t] = new]) = Len(tree)
        /\ \A x \in 1..Len(tree) : [tree EXCEPT ![t] = new][x] = IF x = t THEN new ELSE tree[x]
    BY ONLY <1>1, <1>3, <2>1, ExceptSeq
  <2>3. tree' \in Seq(TreeType) /\ Len(tree') = Len(tree) /\ \A x \in 1..Len(tree) : tree'[x] = IF x = t THEN new ELSE tree[x]
    BY <1>4, <2>2
  <2>4. DOMAIN tree' = DOMAIN tree
    BY ONLY <1>1, <2>3, LenProperties
  <2> QED BY <1>1, <2>1, <2>3, <2>4
<1>6. IsFiniteSet(K) /\ Cardinality(K) = n
  BY <1>2, NextNumbers
<1>7. IsFiniteSet(Pairs(TablesIn(tree'))) /\ Together(TablesIn(tree')) = Together(TablesIn(tree)) + n
  <2> DEFINE g == TablesIn(tree)
             h == TablesIn(tree')
  <2>1. DOMAIN g = DOMAIN tree /\ DOMAIN h = DOMAIN tree /\ g[t] = 1..old /\ h[t] = 1..old + n
    BY <1>3, <1>5 DEF TablesIn, old
  <2>2. \A x \in DOMAIN tree : x # t => h[x] = g[x]
    BY <1>5 DEF TablesIn
  <2>3. 1..old + n = (1..old) \union K /\ (1..old) \intersect K = {}
    BY <1>2
  <2>4. IsFiniteSet(Pairs(g))
    BY DEF TreesOk
  <2> HIDE DEF g, h, K
  <2>5. Gains(g, h, t, K)
    BY <2>1, <2>2, <2>3 DEF Gains
  <2>6. IsFiniteSet(Pairs(h)) /\ Together(h) = Together(g) + Cardinality(K)
    BY ONLY <1>6, <2>4, <2>5, PairsGrow
  <2> QED BY <1>6, <2>6 DEF g, h
<1>8. IsFiniteSet(Pairs(PagesIn(tree')))
      /\ Together(PagesIn(tree')) = Together(PagesIn(tree)) + (IF t = 1 THEN 0 ELSE Cardinality(pages))
  <2> DEFINE g == PagesIn(tree)
             h == PagesIn(tree')
  <2>1. IsFiniteSet(Pairs(g)) /\ Together(g) \in Nat
    <3>1. IsFiniteSet(Pairs(g))
      BY DEF TreesOk
    <3> HIDE DEF g
    <3> QED BY <3>1, FS_CardinalityType DEF Together, Pairs
  <2>2. DOMAIN g = DOMAIN tree \ {1} /\ DOMAIN h = DOMAIN tree \ {1} /\ \A x \in DOMAIN g : x # t => h[x] = g[x]
    BY <1>5 DEF PagesIn
  <2>3. CASE t = 1
    <3>1. h = g
      BY <1>5, <2>3 DEF PagesIn
    <3> HIDE DEF g, h
    <3> QED BY <2>1, <2>3, <3>1 DEF g, h
  <2>4. CASE t # 1
    <3>1. g[t] = tree[t].pages /\ h[t] = tree[t].pages \union pages
      BY <1>3, <1>5, <2>4 DEF PagesIn
    <3> HIDE DEF g, h
    <3>2. Gains(g, h, t, pages)
      BY <2>2, <2>4, <3>1 DEF Gains
    <3>3. IsFiniteSet(pages)
      OBVIOUS
    <3>4. IsFiniteSet(Pairs(h)) /\ Together(h) = Together(g) + Cardinality(pages)
      BY ONLY <2>1, <3>2, <3>3, PairsGrow
    <3> QED BY <2>4, <3>4 DEF g, h
  <2> QED BY <2>3, <2>4
<1>9. tree'[1].pages \subseteq 1..more
  <2>1. tree[1].pages \subseteq 1..more /\ 1 \in DOMAIN tree
    BY <1>1 DEF TreesOk
  <2>2. CASE t = 1
    BY <1>3, <1>5, <2>1, <2>2
  <2>3. CASE t # 1
    BY <1>5, <2>1, <2>3
  <2> QED BY <2>2, <2>3
<1> QED BY <1>5, <1>7, <1>8, <1>9 DEF TreesOk

LEMMA TreeComes ==
  ASSUME NEW res \in Nat, TreesOk(tree, res), NEW n \in Nat, n <= Levels,
         NEW pages \in SUBSET (Page \union 0..ArenaPages), IsFiniteSet(pages),
         tree' = Append(tree, [tables |-> n, pages |-> pages])
  PROVE  /\ TreesOk(tree', res) /\ Len(tree') = Len(tree) + 1
         /\ Together(TablesIn(tree')) = Together(TablesIn(tree)) + n
         /\ Together(PagesIn(tree')) = Together(PagesIn(tree)) + Cardinality(pages)
<1> DEFINE new == [tables |-> n, pages |-> pages]
<1>0. PICK t : t = Len(tree) + 1
  OBVIOUS
<1>1. Levels \in Nat /\ tree \in Seq(TreeType) /\ Len(tree) \in Nat /\ Len(tree) >= 1 /\ DOMAIN tree = 1..Len(tree)
  BY PmSizesOK DEF TreesOk
<1>2. new \in TreeType /\ new.tables = n /\ new.pages = pages
  BY <1>1 DEF TreeType
<1>3. tree' = Append(tree, new)
  OBVIOUS
<1> HIDE DEF new
<1>4. /\ tree' \in Seq(TreeType) /\ Len(tree') = t /\ DOMAIN tree' = DOMAIN tree \union {t}
      /\ tree'[t] = new /\ \A x \in DOMAIN tree : tree'[x] = tree[x] /\ x # t
  BY <1>0, <1>1, <1>2, <1>3
<1>5. t # 1 /\ t \notin DOMAIN tree /\ 1 \in DOMAIN tree
  BY <1>0, <1>1
<1>6. PICK K : K = 1..n /\ IsFiniteSet(K) /\ Cardinality(K) = n
  <2>1. IsFiniteSet(1..n) /\ Cardinality(1..n) = n
    BY FS_Interval
  <2> QED BY <2>1
<1>7. IsFiniteSet(Pairs(TablesIn(tree'))) /\ Together(TablesIn(tree')) = Together(TablesIn(tree)) + n
  <2> DEFINE g == TablesIn(tree)
             h == TablesIn(tree')
  <2>1. DOMAIN g = DOMAIN tree /\ DOMAIN h = DOMAIN tree \union {t} /\ h[t] = K
    BY <1>2, <1>4, <1>6 DEF TablesIn
  <2>2. \A x \in DOMAIN tree : h[x] = g[x]
    BY <1>4 DEF TablesIn
  <2>3. IsFiniteSet(Pairs(g))
    BY DEF TreesOk
  <2> HIDE DEF g, h
  <2>4. Gains(g, h, t, K)
    BY <1>5, <2>1, <2>2 DEF Gains
  <2>5. IsFiniteSet(Pairs(h)) /\ Together(h) = Together(g) + Cardinality(K)
    BY ONLY <1>6, <2>3, <2>4, PairsGrow
  <2> QED BY <1>6, <2>5 DEF g, h
<1>8. IsFiniteSet(Pairs(PagesIn(tree'))) /\ Together(PagesIn(tree')) = Together(PagesIn(tree)) + Cardinality(pages)
  <2> DEFINE g == PagesIn(tree)
             h == PagesIn(tree')
  <2>1. DOMAIN g = DOMAIN tree \ {1} /\ DOMAIN h = (DOMAIN tree \union {t}) \ {1}
    BY <1>4 DEF PagesIn
  <2>2. h[t] = pages /\ \A x \in DOMAIN g : h[x] = g[x]
    BY <1>2, <1>4, <1>5 DEF PagesIn
  <2>3. IsFiniteSet(Pairs(g)) /\ IsFiniteSet(pages)
    BY DEF TreesOk
  <2> HIDE DEF g, h
  <2>4. Gains(g, h, t, pages)
    BY <1>5, <2>1, <2>2 DEF Gains
  <2>5. IsFiniteSet(Pairs(h)) /\ Together(h) = Together(g) + Cardinality(pages)
    BY ONLY <2>3, <2>4, PairsGrow
  <2> QED BY <2>5 DEF g, h
<1>9. tree'[1].pages \subseteq 1..res
  BY <1>4, <1>5 DEF TreesOk
<1> QED BY <1>0, <1>1, <1>4, <1>7, <1>8, <1>9 DEF TreesOk

\* Tables and pages below an entry of a space, as Grown makes them.
LEMMA GrownKept ==
  ASSUME reserved \in Nat, NEW more \in Nat, reserved <= more, TreesOk(tree, reserved),
         RootsOk(root, Len(tree)),
         NEW s \in DOMAIN root, NEW e \in Entry, NEW n \in Nat, n <= TablesMissing(s, e),
         NEW pages \in SUBSET (Page \union 0..ArenaPages), IsFiniteSet(pages), Grown(s, e, n, pages),
         e = "arena" => pages \subseteq 1..more, e = "kuser" => Len(root) = 1,
         e # "arena" /\ root[s][e] # 0 => tree[root[s][e]].pages \intersect pages = {},
         n = 0 /\ root[s][e] = 0 => pages = {}
  PROVE  /\ TreesOk(tree', more) /\ RootsOk(root', Len(tree')) /\ Len(root') = Len(root)
         /\ e # "kuser" => root'[1]["kuser"] = root[1]["kuser"]
         /\ Together(TablesIn(tree')) = Together(TablesIn(tree)) + n
         /\ Together(PagesIn(tree')) = Together(PagesIn(tree)) + (IF e = "arena" THEN 0 ELSE Cardinality(pages))
<1> DEFINE t == root[s][e]
<1>1. /\ root \in Seq([Entry -> 0..Len(tree)]) /\ DOMAIN root = 1..Len(root) /\ Len(root) \in Nat /\ Len(root) >= 1
      /\ root[s] \in [Entry -> 0..Len(tree)] /\ t \in 0..Len(tree)
      /\ tree \in Seq(TreeType) /\ DOMAIN tree = 1..Len(tree) /\ Len(tree) \in Nat /\ Levels \in Nat
  BY PmSizesOK DEF RootsOk, TreesOk
<1>2. t = 1 <=> e = "arena"
  BY DEF RootsOk, Entry
<1>3. \A x \in DOMAIN root : root[x]["kuser"] = root[1]["kuser"]
  BY DEF RootsOk
<1>4. CASE t # 0
  <2>1. t \in DOMAIN tree
    BY <1>1, <1>4
  <2>2. tree' = [tree EXCEPT ![t] = [tables |-> @.tables + n, pages |-> @.pages \union pages]] /\ root' = root
    BY <1>4 DEF Grown
  <2>3. tree[t] \in TreeType /\ tree[t].tables + n <= Levels
    <3>1. tree[t] \in TreeType
      BY <1>1, <2>1
    <3>2. tree[t].tables \in Nat
      BY <1>1, <3>1 DEF TreeType
    <3>3. n <= Levels - tree[t].tables
      BY <1>4 DEF TablesMissing
    <3> QED BY <1>1, <3>1, <3>2, <3>3
  <2> HIDE DEF t
  <2>4. (t = 1 => pages \subseteq 1..more) /\ (t # 1 => tree[t].pages \intersect pages = {})
    BY <1>2, <1>4 DEF t
  <2>5. /\ TreesOk(tree', more) /\ Len(tree') = Len(tree)
        /\ Together(TablesIn(tree')) = Together(TablesIn(tree)) + n
        /\ Together(PagesIn(tree')) = Together(PagesIn(tree)) + (IF t = 1 THEN 0 ELSE Cardinality(pages))
    BY ONLY <2>1, <2>2, <2>3, <2>4, TreeGrows, TreesOk(tree, reserved), reserved \in Nat, more \in Nat, reserved <= more,
            n \in Nat, pages \in SUBSET (Page \union 0..ArenaPages), IsFiniteSet(pages)
  <2>6. RootsOk(root', Len(tree'))
    BY <2>2, <2>5 DEF RootsOk
  <2> QED BY <1>2, <2>2, <2>5, <2>6
<1>5. CASE t = 0 /\ n = 0
  <2>1. tree' = tree /\ root' = root /\ pages = {}
    BY <1>5 DEF Grown
  <2>2. Cardinality(pages) = 0
    BY <2>1, FS_EmptySet
  <2>3. Together(TablesIn(tree)) \in Nat /\ Together(PagesIn(tree)) \in Nat
    BY FS_CardinalityType DEF TreesOk, Together, Pairs
  <2>4. TreesOk(tree, more)
    <3>1. 1..reserved \subseteq 1..more
      OBVIOUS
    <3> QED BY <3>1 DEF TreesOk
  <2>5. RootsOk(root, Len(tree))
    BY DEF RootsOk
  <2> QED BY <1>5, <2>1, <2>2, <2>3, <2>4, <2>5
<1>6. CASE t = 0 /\ n # 0
  <2>1. tree' = Append(tree, [tables |-> n, pages |-> pages]) /\ root' = [root EXCEPT ![s][e] = Len(tree) + 1] /\ n <= Levels
    BY <1>1, <1>6 DEF Grown, TablesMissing
  <2>2. e # "arena"
    BY <1>2, <1>6
  <2>3. /\ TreesOk(tree', reserved) /\ Len(tree') = Len(tree) + 1
        /\ Together(TablesIn(tree')) = Together(TablesIn(tree)) + n
        /\ Together(PagesIn(tree')) = Together(PagesIn(tree)) + Cardinality(pages)
    BY ONLY <2>1, TreeComes, TreesOk(tree, reserved), reserved \in Nat,
            n \in Nat, pages \in SUBSET (Page \union 0..ArenaPages), IsFiniteSet(pages)
  <2>4. TreesOk(tree', more)
    <3>1. 1..reserved \subseteq 1..more
      OBVIOUS
    <3> QED BY <2>3, <3>1 DEF TreesOk
  <2> DEFINE k == Len(tree) + 1
             space == [root[s] EXCEPT ![e] = k]
  <2>5. /\ space \in [Entry -> 0..k] /\ space[e] = k /\ \A x \in Entry : x # e => space[x] = root[s][x]
    BY <1>1
  <2>6. root' = [root EXCEPT ![s] = space]
    BY <2>1
  <2>7. root \in Seq([Entry -> 0..k])
    <3>1. [Entry -> 0..Len(tree)] \subseteq [Entry -> 0..k]
      BY <1>1
    <3> QED BY <1>1, <3>1, SeqMonotonic
  <2>8. k \in Nat /\ k # 1
    BY <1>1 DEF TreesOk
  <2> HIDE DEF space, k
  <2>9. /\ root' \in Seq([Entry -> 0..k]) /\ Len(root') = Len(root) /\ DOMAIN root' = DOMAIN root
        /\ root'[s] = space /\ \A x \in DOMAIN root : x # s => root'[x] = root[x]
    BY <1>1, <2>5, <2>6, <2>7, ExceptSeq, LenProperties
  <2>10. \A x \in DOMAIN root : /\ root'[x]["arena"] = 1 /\ root'[x]["other"] # 1 /\ root'[x]["kuser"] # 1
                                /\ root'[x]["kuser"] = root'[1]["kuser"]
    <3> TAKE x \in DOMAIN root
    <3>1. \A y \in DOMAIN root : root[y]["arena"] = 1 /\ root[y]["other"] # 1 /\ root[y]["kuser"] # 1
                                  /\ root[y]["kuser"] = root[1]["kuser"]
      BY DEF RootsOk
    <3>2. CASE e = "kuser"
      <4>1. x = 1 /\ s = 1
        BY <1>1, <3>2
      <4> QED BY <2>5, <2>8, <2>9, <3>1, <3>2, <4>1 DEF Entry
    <3>3. CASE e = "other"
      <4>1. \A y \in DOMAIN root : root'[y]["kuser"] = root[y]["kuser"] /\ root'[y]["arena"] = root[y]["arena"]
        BY <2>5, <2>9, <3>3 DEF Entry
      <4>2. root'[x]["other"] # 1
        BY <2>5, <2>8, <2>9, <3>1, <3>3
      <4>3. 1 \in DOMAIN root
        BY <1>1
      <4> QED BY <3>1, <4>1, <4>2, <4>3
    <3> QED BY <2>2, <3>2, <3>3 DEF Entry
  <2>11. e # "kuser" => root'[1]["kuser"] = root[1]["kuser"]
    <3>1. 1 \in DOMAIN root /\ "kuser" \in Entry
      BY <1>1 DEF Entry
    <3>2. CASE s = 1
      BY <2>5, <2>9, <3>1, <3>2
    <3>3. CASE s # 1
      BY <2>9, <3>1, <3>3
    <3> QED BY <3>2, <3>3
  <2>12. RootsOk(root', Len(tree'))
    BY <1>1, <2>3, <2>9, <2>10 DEF RootsOk, k
  <2> QED BY <2>2, <2>3, <2>4, <2>9, <2>11, <2>12
<1> QED BY <1>4, <1>5, <1>6

PmInv ==
  /\ FramesTyped /\ TreesOk(tree, reserved) /\ RootsOk(root, Len(tree))
  /\ reserved \in 0..ArenaPages /\ booted \in BOOLEAN
  /\ ~booted => Len(root) = 1 /\ root[1]["kuser"] = 0
  /\ vmPages = Cardinality(HeldFor(holder, "region"))
  /\ Cardinality(HeldFor(holder, "table")) = Together(TablesIn(tree))
  /\ Cardinality(HeldFor(holder, "page")) = Together(PagesIn(tree))
  /\ Cardinality(HeldFor(holder, "root")) = 3 * (Len(root) - 1)

LEMMA HeldForCounted ==
  \A h, use : Cardinality(HeldFor(h, use)) \in Nat
<1> TAKE h, use
<1>1. HeldFor(h, use) \in SUBSET Frame
  BY DEF HeldFor
<1> QED BY <1>1, FramesFinite

LEMMA PmInvPromises == PmInv => PmTypeOK /\ FramesSound
<1> SUFFICES ASSUME PmInv PROVE PmTypeOK /\ FramesSound
  OBVIOUS
<1>1. \A use : Held(use) = Cardinality(HeldFor(holder, use))
  BY DEF Held, HeldFor
<1>2. \A s \in DOMAIN root : /\ root[s].arena = 1 /\ root[s].kuser = root[1].kuser
  BY DEF PmInv, RootsOk
<1>3. 1 \in DOMAIN root
  BY DEF PmInv, RootsOk
<1>4. free \in Int
  <2>1. Cardinality(used) \in Nat /\ Frames \in Nat
    BY FramesFinite DEF PmInv, FramesTyped
  <2> QED BY <2>1 DEF PmInv, FramesTyped, FramesCounted
<1>5. PmTypeOK
  BY <1>4, HeldForCounted DEF PmInv, FramesTyped, TreesOk, TreeType, RootsOk, PmTypeOK
<1>6. FramesCounted /\ RegionsCounted
  BY <1>1 DEF PmInv, FramesTyped, RegionsCounted
<1>7. TablesCounted
  BY <1>1 DEF PmInv, TablesCounted, TablesIn
<1>8. KernelHalfShared
  BY <1>2, <1>3 DEF KernelHalfShared
<1>9. PagesHeld
  <2>1. \A s \in DOMAIN root : tree[root[s].arena].pages \subseteq 1..reserved
    BY <1>2 DEF PmInv, TreesOk
  <2>2. Held("page") = Together([t \in DOMAIN tree \ {root[1].arena} |-> tree[t].pages])
    BY <1>1, <1>2, <1>3 DEF PmInv, PagesIn
  <2> QED BY <2>1, <2>2 DEF PagesHeld
<1> QED BY <1>5, <1>6, <1>7, <1>8, <1>9 DEF FramesSound

LEMMA PmStart == PmInit => PmInv
<1> SUFFICES ASSUME PmInit PROVE PmInv
  OBVIOUS
<1>1. Frames \in Nat /\ Frames >= 1 /\ Levels \in Nat /\ Levels >= 1 /\ ArenaPages \in Nat
  BY PmSizesOK
<1>2. 1 \in Frame /\ "table" \in Use /\ "free" \in Use
  BY <1>1 DEF Frame, Use
<1>3. /\ holder = [f \in Frame |-> IF f = 1 THEN "table" ELSE "free"] /\ used = {1} /\ free = Frames - 1
      /\ vmPages = 0 /\ tree = <<Arena>> /\ root = <<[arena |-> 1, kuser |-> 0, other |-> 0]>>
      /\ reserved = 0 /\ booted = FALSE
  BY DEF PmInit
<1>4. Cardinality({1}) = 1 /\ Cardinality({}) = 0
  BY FS_Singleton, FS_EmptySet
<1>5. FramesTyped
  BY <1>2, <1>3, <1>4 DEF FramesTyped, FramesCounted
<1>6. /\ HeldFor(holder, "region") = {} /\ HeldFor(holder, "page") = {} /\ HeldFor(holder, "root") = {}
      /\ HeldFor(holder, "table") = {1}
  BY <1>2, <1>3 DEF HeldFor
<1>7. Arena \in TreeType /\ Arena.tables = 1 /\ Arena.pages = {}
  BY <1>1 DEF Arena, TreeType
<1>8. tree \in Seq(TreeType) /\ Len(tree) = 1 /\ DOMAIN tree = {1} /\ tree[1] = Arena
  BY <1>3, <1>7
<1>9. IsFiniteSet(Pairs(TablesIn(tree))) /\ Together(TablesIn(tree)) = 1
  <2>1. TablesIn(tree) = [t \in {1} |-> 1..1]
    BY <1>7, <1>8 DEF TablesIn
  <2>2. Pairs(TablesIn(tree)) = {1} \X {1}
    BY <2>1 DEF Pairs
  <2>3. IsFiniteSet({1} \X {1}) /\ Cardinality({1} \X {1}) = 1
    <3> DEFINE K == {1}
    <3>1. IsFiniteSet(K) /\ Cardinality(K) = 1
      BY FS_Singleton
    <3> HIDE DEF K
    <3>2. IsFiniteSet({1} \X K) /\ Cardinality({1} \X K) = 1
      BY <3>1, RowCount
    <3> QED BY <3>2 DEF K
  <2>4. Together(TablesIn(tree)) = Cardinality(Pairs(TablesIn(tree)))
    BY DEF Together, Pairs
  <2> QED BY <2>2, <2>3, <2>4
<1>10. IsFiniteSet(Pairs(PagesIn(tree))) /\ Together(PagesIn(tree)) = 0
  <2>1. DOMAIN PagesIn(tree) = {}
    BY <1>8 DEF PagesIn
  <2>2. Pairs(PagesIn(tree)) = {}
    BY <2>1 DEF Pairs
  <2>3. Together(PagesIn(tree)) = Cardinality(Pairs(PagesIn(tree)))
    BY DEF Together, Pairs
  <2> QED BY <2>2, <2>3, FS_EmptySet
<1>11. TreesOk(tree, reserved)
  BY <1>7, <1>8, <1>9, <1>10 DEF TreesOk
<1>12. RootsOk(root, Len(tree))
  <2> DEFINE space == [arena |-> 1, kuser |-> 0, other |-> 0]
  <2>1. space \in [Entry -> 0..1] /\ space["arena"] = 1 /\ space["kuser"] = 0 /\ space["other"] = 0
    BY DEF Entry
  <2>2. root = <<space>>
    BY <1>3
  <2> HIDE DEF space
  <2>3. root \in Seq([Entry -> 0..1]) /\ Len(root) = 1 /\ DOMAIN root = {1} /\ root[1] = space
    BY <2>1, <2>2
  <2> QED BY <1>8, <2>1, <2>3 DEF RootsOk
<1>13. Len(root) = 1
  BY <1>3
<1>14. /\ vmPages = Cardinality(HeldFor(holder, "region"))
       /\ Cardinality(HeldFor(holder, "table")) = Together(TablesIn(tree))
       /\ Cardinality(HeldFor(holder, "page")) = Together(PagesIn(tree))
       /\ Cardinality(HeldFor(holder, "root")) = 0
  BY <1>3, <1>4, <1>6, <1>9, <1>10
<1>15. reserved \in 0..ArenaPages /\ booted \in BOOLEAN /\ 3 * (Len(root) - 1) = 0
  <2>1. 3 * (Len(root) - 1) = 0
    BY <1>13
  <2>2. reserved = 0 /\ booted = FALSE
    BY <1>3
  <2>3. reserved \in 0..ArenaPages
    BY <1>1, <2>2
  <2>4. booted \in BOOLEAN
    BY <2>2
  <2> QED BY <2>1, <2>3, <2>4
<1>16. root[1]["kuser"] = 0
  BY <1>3
<1> QED BY <1>5, <1>11, <1>12, <1>13, <1>14, <1>15, <1>16 DEF PmInv

\* Frames that are taken or released for something that has no table.
LEMMA RegionsKept ==
  ASSUME PmInv, \/ \E n \in Region : MmAllocateVirtualMemory(n) \/ AllocateCommonBuffer(n)
                \/ \E n \in Region, f \in Frame : FreeCommonBuffer(f, n)
                \/ \E n \in Region \union {1}, f \in Frame : MmFreeVirtualMemory(f, n)
  PROVE  PmInv'
<1>1. /\ UNCHANGED <<tree, root, reserved, booted>>
  BY DEF MmAllocateVirtualMemory, AllocateCommonBuffer, FreeCommonBuffer, MmFreeVirtualMemory
<1>2. ASSUME FramesTyped', vmPages' = Cardinality(HeldFor(holder', "region")),
             \A use \in {"table", "page", "root"} : Cardinality(HeldFor(holder', use)) = Cardinality(HeldFor(holder, use))
      PROVE  PmInv'
  BY <1>1, <1>2 DEF PmInv
<1>3. \A n \in Region \union {1} : n \in Nat \ {0}
  BY PmSizesOK
<1>4. "region" \in Use \ {"free"} /\ "buffer" \in Use \ {"free"} /\ {"table", "page", "root"} \subseteq Use \ {"free"}
  BY DEF Use
<1>5. ASSUME NEW n \in Region, NEW use \in {"region", "buffer"}, Window(n) # {}, Take(Window(n), use)
      PROVE  /\ FramesTyped' /\ Cardinality(HeldFor(holder', use)) = Cardinality(HeldFor(holder, use)) + n
             /\ \A other \in (Use \ {"free"}) \ {use} : Cardinality(HeldFor(holder', other)) = Cardinality(HeldFor(holder, other))
  <2> DEFINE W == Window(n)
             as == [f \in W |-> use]
  <2>1. W \in SUBSET (Frame \ used) /\ Cardinality(W) = n
    BY <1>3, <1>5, WindowIs
  <2> HIDE DEF W
  <2>2. as \in [W -> Use \ {"free"}] /\ Hold(as) /\ used' = used \union W /\ free' = free - Cardinality(W)
    BY <1>4, <1>5 DEF Take, W
  <2>3. \A x : {f \in W : as[f] = x} = IF x = use THEN W ELSE {}
    OBVIOUS
  <2> HIDE DEF as
  <2>4. /\ FramesTyped'
        /\ \A x \in Use \ {"free"} :
             Cardinality(HeldFor(holder', x)) = Cardinality(HeldFor(holder, x)) + Cardinality({f \in W : as[f] = x})
    BY <2>1, <2>2, FramesTaken DEF PmInv
  <2>5. Cardinality({}) = 0
    BY FS_EmptySet
  <2>6. Cardinality(HeldFor(holder', use)) = Cardinality(HeldFor(holder, use)) + n
    BY <1>4, <2>1, <2>3, <2>4
  <2>7. ASSUME NEW other \in (Use \ {"free"}) \ {use}
        PROVE  Cardinality(HeldFor(holder', other)) = Cardinality(HeldFor(holder, other))
    <3>1. {f \in W : as[f] = other} = {}
      BY <2>3
    <3>2. Cardinality(HeldFor(holder', other)) = Cardinality(HeldFor(holder, other)) + 0
      BY <2>4, <2>5, <3>1
    <3>3. Cardinality(HeldFor(holder, other)) \in Nat
      BY HeldForCounted
    <3> QED BY <3>2, <3>3
  <2> QED BY <2>4, <2>6, <2>7
<1>6. ASSUME NEW n \in Region \union {1}, NEW b \in Frame, NEW use \in {"region", "buffer"},
             b..b + n - 1 \subseteq {f \in Frame : holder[f] = use}, Release(b..b + n - 1)
      PROVE  /\ FramesTyped'
             /\ n <= Cardinality(HeldFor(holder, use)) /\ Cardinality(HeldFor(holder', use)) = Cardinality(HeldFor(holder, use)) - n
             /\ \A other \in (Use \ {"free"}) \ {use} : Cardinality(HeldFor(holder', other)) = Cardinality(HeldFor(holder, other))
  <2> DEFINE S == b..b + n - 1
  <2>1. b \in Nat /\ n \in Nat /\ n >= 1
    BY <1>3, PmSizesOK DEF Frame
  <2>2. Cardinality(S) = n
    <3>1. b + n - 1 \in Int /\ ~(b > b + n - 1) /\ (b + n - 1) - b + 1 = n
      BY <2>1
    <3> QED BY <2>1, <3>1, FS_Interval
  <2>3. S \in SUBSET HeldFor(holder, use) /\ Release(S)
    BY <1>6 DEF HeldFor
  <2> HIDE DEF S
  <2>4. use \in Use \ {"free"}
    BY <1>4
  <2>5. /\ FramesTyped'
        /\ Cardinality(S) <= Cardinality(HeldFor(holder, use))
        /\ Cardinality(HeldFor(holder', use)) = Cardinality(HeldFor(holder, use)) - Cardinality(S)
        /\ \A x \in Use \ {"free", use} : HeldFor(holder', x) = HeldFor(holder, x)
    BY <2>3, <2>4, FramesReleased DEF PmInv
  <2> QED BY <2>2, <2>5
<1>7. ASSUME NEW n \in Region, MmAllocateVirtualMemory(n) PROVE PmInv'
  BY <1>2, <1>4, <1>5, <1>7 DEF MmAllocateVirtualMemory, PmInv
<1>8. ASSUME NEW n \in Region, AllocateCommonBuffer(n) PROVE PmInv'
  BY <1>2, <1>4, <1>5, <1>8 DEF AllocateCommonBuffer, PmInv
<1>9. ASSUME NEW n \in Region, NEW b \in Frame, FreeCommonBuffer(b, n) PROVE PmInv'
  BY <1>2, <1>4, <1>6, <1>9 DEF FreeCommonBuffer, PmInv
<1>10. ASSUME NEW n \in Region \union {1}, NEW b \in Frame, MmFreeVirtualMemory(b, n) PROVE PmInv'
  <2>1. /\ b..b + n - 1 \subseteq {f \in Frame : holder[f] = "region"} /\ Release(b..b + n - 1)
        /\ vmPages' = IF vmPages >= n THEN vmPages - n ELSE 0
    BY <1>10 DEF MmFreeVirtualMemory
  <2> QED BY <1>2, <1>4, <1>6, <2>1 DEF PmInv
<1> QED BY <1>7, <1>8, <1>9, <1>10

LEMMA MissingIs ==
  ASSUME PmInv, NEW s \in DOMAIN root, NEW e \in Entry
  PROVE  /\ TablesMissing(s, e) \in Nat /\ TablesMissing(s, e) <= Levels /\ Levels \in Nat \ {0}
         /\ root[s][e] = 0 => TablesMissing(s, e) = Levels
         /\ root[s][e] \in 0..Len(tree) /\ (root[s][e] = 1 <=> e = "arena")
         /\ root[s][e] # 0 => root[s][e] \in DOMAIN tree /\ tree[root[s][e]] \in TreeType
<1> DEFINE t == root[s][e]
<1>1. /\ root[s] \in [Entry -> 0..Len(tree)] /\ tree \in Seq(TreeType) /\ DOMAIN tree = 1..Len(tree) /\ Len(tree) \in Nat
      /\ Levels \in Nat \ {0}
  BY PmSizesOK DEF PmInv, RootsOk, TreesOk
<1>2. t = 1 <=> e = "arena"
  BY DEF PmInv, RootsOk, Entry
<1>3. t \in 0..Len(tree)
  BY <1>1
<1>4. CASE t = 0
  BY <1>1, <1>2, <1>3, <1>4 DEF TablesMissing
<1>5. CASE t # 0
  <2>1. t \in DOMAIN tree /\ tree[t] \in TreeType
    BY <1>1, <1>3, <1>5
  <2>2. tree[t].tables \in 0..Levels
    BY <2>1 DEF TreeType
  <2>3. TablesMissing(s, e) = Levels - tree[t].tables
    BY <1>5 DEF TablesMissing
  <2> QED BY <1>1, <1>2, <1>3, <1>5, <2>1, <2>2, <2>3
<1> QED BY <1>4, <1>5

\* A step that leaves the bytes of virtual memory alone and takes tables and pages.
LEMMA StepFrames ==
  ASSUME PmInv, NEW S \in SUBSET (Frame \ used), NEW as \in [S -> Use \ {"free"}],
         Hold(as), used' = used \union S, free' = free - Cardinality(S), vmPages' = vmPages,
         \A f \in S : as[f] # "region"
  PROVE  /\ FramesTyped' /\ vmPages' = Cardinality(HeldFor(holder', "region"))
         /\ \A use \in {"table", "page", "root"} :
              Cardinality(HeldFor(holder', use)) = Cardinality(HeldFor(holder, use)) + Cardinality({f \in S : as[f] = use})
<1>1. {"region", "table", "page", "root"} \subseteq Use \ {"free"}
  BY DEF Use
<1>2. /\ FramesTyped'
      /\ \A use \in Use \ {"free"} :
           Cardinality(HeldFor(holder', use)) = Cardinality(HeldFor(holder, use)) + Cardinality({f \in S : as[f] = use})
  BY FramesTaken DEF PmInv
<1>3. {f \in S : as[f] = "region"} = {} /\ Cardinality({}) = 0
  BY FS_EmptySet
<1>4. Cardinality(HeldFor(holder', "region")) = Cardinality(HeldFor(holder, "region")) + 0
  BY <1>1, <1>2, <1>3
<1>5. vmPages' = Cardinality(HeldFor(holder', "region"))
  BY <1>4, HeldForCounted DEF PmInv
<1> QED BY <1>1, <1>2, <1>5

LEMMA SpaceCreated == ASSUME PmInv, MmCreateAddressSpace PROVE PmInv'
<1> DEFINE L == Lowest(3)
           as == [f \in L |-> "root"]
<1>1. /\ booted /\ Cardinality(Frame \ used) >= 3 /\ Take(L, "root") /\ root' = Append(root, root[1])
      /\ UNCHANGED <<vmPages, tree, reserved, booted>>
  BY DEF MmCreateAddressSpace
<1>2. L \in SUBSET (Frame \ used) /\ Cardinality(L) = 3
  BY <1>1, LowestIs
<1> HIDE DEF L
<1>3. as \in [L -> Use \ {"free"}] /\ Hold(as) /\ used' = used \union L /\ free' = free - Cardinality(L)
  BY <1>1 DEF Take, Use
<1>4. \A f \in L : as[f] # "region"
  OBVIOUS
<1>5. {f \in L : as[f] = "root"} = L /\ {f \in L : as[f] = "table"} = {} /\ {f \in L : as[f] = "page"} = {}
  OBVIOUS
<1> HIDE DEF as
<1>6. /\ FramesTyped' /\ vmPages' = Cardinality(HeldFor(holder', "region"))
      /\ \A use \in {"table", "page", "root"} :
           Cardinality(HeldFor(holder', use)) = Cardinality(HeldFor(holder, use)) + Cardinality({f \in L : as[f] = use})
  BY <1>1, <1>2, <1>3, <1>4, StepFrames
<1>7. Cardinality({}) = 0
  BY FS_EmptySet
<1>8. /\ Cardinality(HeldFor(holder', "root")) = Cardinality(HeldFor(holder, "root")) + 3
      /\ Cardinality(HeldFor(holder', "table")) = Cardinality(HeldFor(holder, "table"))
      /\ Cardinality(HeldFor(holder', "page")) = Cardinality(HeldFor(holder, "page"))
  <2>1. Cardinality(HeldFor(holder', "root")) = Cardinality(HeldFor(holder, "root")) + 3
    BY <1>2, <1>5, <1>6
  <2>2. /\ Cardinality(HeldFor(holder', "table")) = Cardinality(HeldFor(holder, "table")) + 0
        /\ Cardinality(HeldFor(holder', "page")) = Cardinality(HeldFor(holder, "page")) + 0
    BY <1>5, <1>6, <1>7
  <2>3. Cardinality(HeldFor(holder, "table")) \in Nat /\ Cardinality(HeldFor(holder, "page")) \in Nat
    BY HeldForCounted
  <2> QED BY <2>1, <2>2, <2>3
<1>9. /\ root \in Seq([Entry -> 0..Len(tree)]) /\ Len(root) \in Nat /\ Len(root) >= 1 /\ DOMAIN root = 1..Len(root)
      /\ root[1] \in [Entry -> 0..Len(tree)]
  BY DEF PmInv, RootsOk
<1>10. /\ root' \in Seq([Entry -> 0..Len(tree)]) /\ Len(root') = Len(root) + 1 /\ root'[Len(root) + 1] = root[1]
       /\ DOMAIN root' = DOMAIN root \union {Len(root) + 1} /\ \A s \in DOMAIN root : root'[s] = root[s]
  BY <1>1, <1>9
<1>11. RootsOk(root', Len(tree))
  <2>1. \A s \in DOMAIN root : root[s]["arena"] = 1 /\ root[s]["other"] # 1 /\ root[s]["kuser"] # 1 /\ root[s]["kuser"] = root[1]["kuser"]
    BY DEF PmInv, RootsOk
  <2>2. 1 \in DOMAIN root
    BY <1>9
  <2>3. \A s \in DOMAIN root' : root'[s]["arena"] = 1 /\ root'[s]["other"] # 1 /\ root'[s]["kuser"] # 1 /\ root'[s]["kuser"] = root'[1]["kuser"]
    BY <1>10, <2>1, <2>2
  <2> QED BY <1>1, <1>9, <1>10, <2>3 DEF RootsOk
<1>12. Cardinality(HeldFor(holder', "root")) = 3 * (Len(root') - 1)
  <2>1. Cardinality(HeldFor(holder, "root")) = 3 * (Len(root) - 1)
    BY DEF PmInv
  <2> QED BY <1>8, <1>9, <1>10, <2>1
<1>13. booted' /\ booted
  BY <1>1
<1> QED BY <1>1, <1>6, <1>8, <1>11, <1>12, <1>13 DEF PmInv

LEMMA ZeroPageMapped ==
  ASSUME PmInv, NEW s \in DOMAIN root, NEW p \in Page, MmMapZeroPage(s, p)
  PROVE  PmInv'
<1> DEFINE c == Cardinality(Frame \ used)
           missing == TablesMissing(s, "other")
           got == Min({missing, c - 1})
           data == Lowest(1)
           tables == Lowest(1 + got) \ data
           as == [f \in data \union tables |-> IF f \in tables THEN "table" ELSE IF got = missing THEN "page" ELSE "lost"]
           pages == IF got = missing THEN {p} ELSE {}
<1>1. /\ root[s]["other"] # 0 => p \notin tree[root[s]["other"]].pages
      /\ data # {} /\ used' = used \union data \union tables /\ free' = free - 1 - got /\ Hold(as)
      /\ Grown(s, "other", got, pages)
      /\ UNCHANGED <<vmPages, reserved, booted>>
  BY DEF MmMapZeroPage
<1>2. /\ missing \in Nat /\ missing <= Levels /\ Levels \in Nat \ {0} /\ (root[s]["other"] = 0 => missing = Levels)
      /\ root[s]["other"] # 1 /\ "other" \in Entry
  BY MissingIs DEF Entry
<1>3. c \in Nat /\ data \in SUBSET (Frame \ used) /\ Cardinality(data) = IF 1 <= c THEN 1 ELSE c
  BY LowestIs
<1>4. c >= 1 /\ Cardinality(data) = 1
  <2>1. c # 0
    <3>1. Frame \ used # {} /\ Frame \ used \in SUBSET Frame
      BY <1>1, <1>3
    <3> QED BY <3>1, FramesFinite, FS_EmptySet
  <2> QED BY <1>3, <2>1
<1> HIDE DEF missing, c
<1>5. got \in Nat /\ got <= missing /\ got <= c - 1
  <2>1. c - 1 \in Nat
    BY <1>3, <1>4
  <2> QED BY <1>2, <2>1, LeastOfTwo
<1> HIDE DEF got
<1>6. Lowest(1 + got) \in SUBSET (Frame \ used) /\ Cardinality(Lowest(1 + got)) = 1 + got /\ data \in SUBSET Lowest(1 + got)
  <2>1. 1 + got \in Nat /\ 1 + got <= c /\ 1 <= 1 + got
    BY <1>3, <1>4, <1>5
  <2> QED BY <2>1, LowestIs DEF c
<1>7. tables \in SUBSET (Frame \ used) /\ Cardinality(tables) = got
  <2> DEFINE L == Lowest(1 + got)
  <2>1. L \in SUBSET Frame /\ L \intersect data = data
    BY <1>6
  <2> HIDE DEF L, data
  <2>2. IsFiniteSet(L) /\ Cardinality(L \ data) = Cardinality(L) - Cardinality(L \intersect data)
    BY <2>1, FramesFinite, FS_Difference
  <2>3. Cardinality(L \ data) = got
    <3>1. Cardinality(L) = 1 + got
      BY <1>6 DEF L
    <3>2. Cardinality(L \intersect data) = 1
      BY <1>4, <2>1
    <3> QED BY <1>5, <2>2, <3>1, <3>2
  <2> QED BY <1>6, <2>3 DEF L
<1> DEFINE S == data \union tables
<1>8. S = Lowest(1 + got)
  BY <1>6
<1>9. S \in SUBSET (Frame \ used) /\ Cardinality(S) = 1 + got /\ used' = used \union S
  BY <1>1, <1>6, <1>8
<1>10. data \intersect tables = {}
  OBVIOUS
<1> HIDE DEF tables, data
<1>11. as \in [S -> Use \ {"free"}] /\ (\A f \in S : as[f] # "region") /\ Hold(as)
  <2>1. \A f \in S : as[f] \in Use \ {"free"} /\ as[f] # "region"
    BY DEF Use
  <2>2. DOMAIN as = S /\ as = [f \in S |-> as[f]]
    OBVIOUS
  <2> HIDE DEF as, S
  <2> QED BY <1>1, <2>1, <2>2
<1>12. /\ {f \in S : as[f] = "table"} = tables /\ {f \in S : as[f] = "root"} = {}
       /\ {f \in S : as[f] = "page"} = IF got = missing THEN data ELSE {}
  <2>1. \A f \in S : as[f] = "table" <=> f \in tables
    OBVIOUS
  <2>2. \A f \in S : as[f] # "root"
    OBVIOUS
  <2>3. \A f \in S : as[f] = "page" <=> (got = missing /\ f \in data)
    BY <1>10
  <2> HIDE DEF as
  <2> QED BY <2>1, <2>2, <2>3
<1> HIDE DEF as
<1>13. free' = free - Cardinality(S)
  <2>1. Cardinality(used) \in Nat /\ Frames \in Nat /\ free = Frames - Cardinality(used)
    BY FramesFinite DEF PmInv, FramesTyped, FramesCounted
  <2> QED BY <1>1, <1>5, <1>9, <2>1
<1>14. /\ FramesTyped' /\ vmPages' = Cardinality(HeldFor(holder', "region"))
       /\ \A use \in {"table", "page", "root"} :
            Cardinality(HeldFor(holder', use)) = Cardinality(HeldFor(holder, use)) + Cardinality({f \in S : as[f] = use})
  <2> HIDE DEF S
  <2> QED BY <1>1, <1>9, <1>11, <1>13, StepFrames
<1>15. Cardinality({}) = 0
  BY FS_EmptySet
<1>16. /\ Cardinality(HeldFor(holder', "table")) = Cardinality(HeldFor(holder, "table")) + got
       /\ Cardinality(HeldFor(holder', "page")) = Cardinality(HeldFor(holder, "page")) + (IF got = missing THEN 1 ELSE 0)
       /\ Cardinality(HeldFor(holder', "root")) = Cardinality(HeldFor(holder, "root"))
  <2> HIDE DEF S
  <2>1. Cardinality(HeldFor(holder', "table")) = Cardinality(HeldFor(holder, "table")) + got
    BY <1>7, <1>12, <1>14
  <2>2. Cardinality(HeldFor(holder', "root")) = Cardinality(HeldFor(holder, "root")) + 0
    BY <1>12, <1>14, <1>15
  <2>3. Cardinality(HeldFor(holder', "page")) = Cardinality(HeldFor(holder, "page")) + (IF got = missing THEN 1 ELSE 0)
    <3>1. Cardinality({f \in S : as[f] = "page"}) = IF got = missing THEN 1 ELSE 0
      <4>1. CASE got = missing
        BY <1>4, <1>12, <4>1
      <4>2. CASE got # missing
        BY <1>12, <1>15, <4>2
      <4> QED BY <4>1, <4>2
    <3> QED BY <1>14, <3>1
  <2>4. Cardinality(HeldFor(holder, "root")) \in Nat
    BY HeldForCounted
  <2> QED BY <2>1, <2>2, <2>3, <2>4
<1>17. /\ IsFiniteSet(pages) /\ Cardinality(pages) = (IF got = missing THEN 1 ELSE 0)
       /\ pages \in SUBSET (Page \union 0..ArenaPages)
  BY <1>15, FS_EmptySet, FS_Singleton
<1>18. /\ root[s]["other"] # 0 => tree[root[s]["other"]].pages \intersect pages = {}
       /\ got = 0 /\ root[s]["other"] = 0 => pages = {}
  BY <1>1, <1>2
<1> HIDE DEF pages
<1>19. reserved \in Nat /\ booted \in BOOLEAN /\ TreesOk(tree, reserved) /\ RootsOk(root, Len(tree))
  BY PmSizesOK DEF PmInv
<1>20. /\ TreesOk(tree', reserved) /\ RootsOk(root', Len(tree')) /\ Len(root') = Len(root)
       /\ root'[1]["kuser"] = root[1]["kuser"]
       /\ Together(TablesIn(tree')) = Together(TablesIn(tree)) + got
       /\ Together(PagesIn(tree')) = Together(PagesIn(tree)) + Cardinality(pages)
  <2>1. "other" \in Entry /\ got <= TablesMissing(s, "other") /\ reserved <= reserved
    BY <1>2, <1>5, <1>19 DEF missing
  <2> QED BY <1>1, <1>5, <1>17, <1>18, <1>19, <2>1, GrownKept
<1>21. /\ Cardinality(HeldFor(holder', "table")) = Together(TablesIn(tree'))
       /\ Cardinality(HeldFor(holder', "page")) = Together(PagesIn(tree'))
       /\ Cardinality(HeldFor(holder', "root")) = 3 * (Len(root') - 1)
  BY <1>16, <1>17, <1>20 DEF PmInv
<1> QED BY <1>1, <1>14, <1>20, <1>21 DEF PmInv

LEMMA SharedPageMapped == ASSUME PmInv, MmMapKuserSharedData PROVE PmInv'
<1> DEFINE c == Cardinality(Frame \ used)
           missing == TablesMissing(1, "kuser")
           got == Min({missing, c})
           tables == Lowest(got)
           page == Lowest(missing + 1) \ Lowest(missing)
           as == [f \in tables \union page |-> IF f \in page THEN "page" ELSE "table"]
           pages == IF page = {} THEN {} ELSE {Shared}
           S == tables \union page
<1>1. /\ ~booted /\ used' = used \union tables \union page /\ free' = free - got - Cardinality(page) /\ Hold(as)
      /\ Grown(1, "kuser", got, pages) /\ booted' = TRUE /\ UNCHANGED <<vmPages, reserved>>
  BY DEF MmMapKuserSharedData
<1>2. /\ Len(root) = 1 /\ 1 \in DOMAIN root /\ root[1]["kuser"] = 0 /\ "kuser" \in Entry
  BY <1>1, LenProperties DEF PmInv, RootsOk, Entry
<1>3. missing = Levels /\ Levels \in Nat \ {0}
  BY <1>2, MissingIs
<1>4. c \in Nat
  BY LowestIs
<1> HIDE DEF missing
<1>5. got \in Nat /\ got <= missing /\ got <= c /\ (got = missing \/ got = c)
  BY <1>3, <1>4, LeastOfTwo
<1>6. tables \in SUBSET (Frame \ used) /\ Cardinality(tables) = got
  <2>1. \A n \in Nat : n <= c => Lowest(n) \in SUBSET (Frame \ used) /\ Cardinality(Lowest(n)) = n
    BY LowestIs
  <2> HIDE DEF got, c
  <2> QED BY <1>5, <2>1
<1>7. tables = Lowest(missing)
  <2>1. got = missing \/ (got = c /\ missing >= c)
    BY <1>3, <1>4, <1>5
  <2>2. CASE got = missing
    BY <2>2
  <2>3. CASE got = c /\ missing >= c
    <3>1. Lowest(missing) = Frame \ used
      BY <1>3, <2>3, LowestIs
    <3>2. Lowest(c) = Frame \ used
      <4>1. \A n \in Nat : n >= c => Lowest(n) = Frame \ used
        BY LowestIs
      <4> HIDE DEF c
      <4> QED BY <1>4, <4>1
    <3> HIDE DEF got, c
    <3> QED BY <2>3, <3>1, <3>2
  <2> QED BY <2>1, <2>2, <2>3
<1>8. /\ page \in SUBSET (Frame \ used) /\ tables \intersect page = {} /\ Cardinality(page) \in Nat
      /\ page # {} => Cardinality(page) = 1 /\ got = missing
  <2> DEFINE L == Lowest(missing + 1)
             K == Lowest(missing)
  <2>1. missing \in Nat /\ missing + 1 \in Nat
    BY <1>3
  <2>2. /\ L \in SUBSET (Frame \ used) /\ K \in SUBSET L
        /\ Cardinality(L) = (IF missing + 1 <= c THEN missing + 1 ELSE c)
        /\ Cardinality(K) = (IF missing <= c THEN missing ELSE c)
        /\ missing >= c => K = Frame \ used
    <3>1. missing <= missing + 1
      BY <2>1
    <3> QED BY <2>1, <3>1, LowestIs
  <2>3. page = L \ K
    OBVIOUS
  <2>4. tables = K
    BY <1>7
  <2> HIDE DEF L, K, tables, page, c, got
  <2>5. IsFiniteSet(L) /\ page \in SUBSET Frame
    BY <2>2, <2>3, FramesFinite
  <2>6. Cardinality(page) = Cardinality(L) - Cardinality(K) /\ Cardinality(page) \in Nat
    <3>1. L \intersect K = K
      BY <2>2
    <3>2. Cardinality(L \ K) = Cardinality(L) - Cardinality(L \intersect K)
      BY <2>5, FS_Difference
    <3> QED BY <2>3, <2>5, <3>1, <3>2, FramesFinite
  <2>7. ASSUME page # {} PROVE Cardinality(page) = 1 /\ got = missing
    <3>1. ~(missing >= c)
      BY <2>2, <2>3, <2>7
    <3>2. missing + 1 <= c /\ missing <= c /\ got = missing
      BY <1>4, <1>5, <2>1, <3>1
    <3> QED BY <2>1, <2>2, <2>6, <3>2
  <2> QED BY <2>2, <2>3, <2>4, <2>6, <2>7
<1> HIDE DEF tables, page, got, c
<1>9. S \in SUBSET (Frame \ used) /\ used' = used \union S /\ Cardinality(S) = got + Cardinality(page)
  <2>1. tables \in SUBSET Frame /\ page \in SUBSET Frame
    BY <1>6, <1>8
  <2>2. Cardinality(tables \union page) = Cardinality(tables) + Cardinality(page) - Cardinality(tables \intersect page)
    BY <2>1, FramesFinite, FS_Union
  <2>3. Cardinality(tables \intersect page) = 0
    BY <1>8, FS_EmptySet
  <2>4. Cardinality(tables \union page) = got + Cardinality(page)
    BY <1>5, <1>6, <1>8, <2>2, <2>3
  <2> QED BY <1>1, <1>6, <1>8, <2>4
<1>10. as \in [S -> Use \ {"free"}] /\ (\A f \in S : as[f] # "region") /\ Hold(as)
  <2>1. \A f \in S : as[f] \in Use \ {"free"} /\ as[f] # "region"
    BY DEF Use
  <2>2. DOMAIN as = S /\ as = [f \in S |-> as[f]]
    OBVIOUS
  <2> HIDE DEF as, S
  <2> QED BY <1>1, <2>1, <2>2
<1>11. {f \in S : as[f] = "table"} = tables /\ {f \in S : as[f] = "root"} = {} /\ {f \in S : as[f] = "page"} = page
  <2>1. \A f \in S : as[f] = "table" <=> f \in tables
    BY <1>8
  <2>2. \A f \in S : as[f] # "root"
    OBVIOUS
  <2>3. \A f \in S : as[f] = "page" <=> f \in page
    OBVIOUS
  <2> HIDE DEF as
  <2> QED BY <2>1, <2>2, <2>3
<1> HIDE DEF as
<1>12. free' = free - Cardinality(S)
  <2>1. Cardinality(used) \in Nat /\ Frames \in Nat /\ free = Frames - Cardinality(used)
    BY FramesFinite DEF PmInv, FramesTyped, FramesCounted
  <2>2. free' = free - got - Cardinality(page)
    BY <1>1
  <2> QED BY <1>5, <1>8, <1>9, <2>1, <2>2
<1> HIDE DEF S
<1>13. /\ FramesTyped' /\ vmPages' = Cardinality(HeldFor(holder', "region"))
       /\ \A use \in {"table", "page", "root"} :
            Cardinality(HeldFor(holder', use)) = Cardinality(HeldFor(holder, use)) + Cardinality({f \in S : as[f] = use})
  <2>1. vmPages' = vmPages
    BY <1>1
  <2> QED BY <1>9, <1>10, <1>12, <2>1, StepFrames
<1>14. Cardinality({}) = 0
  BY FS_EmptySet
<1>15. /\ Cardinality(HeldFor(holder', "table")) = Cardinality(HeldFor(holder, "table")) + got
       /\ Cardinality(HeldFor(holder', "page")) = Cardinality(HeldFor(holder, "page")) + Cardinality(page)
       /\ Cardinality(HeldFor(holder', "root")) = Cardinality(HeldFor(holder, "root"))
  <2>1. Cardinality(HeldFor(holder', "root")) = Cardinality(HeldFor(holder, "root")) + 0
    BY <1>11, <1>13, <1>14
  <2>2. Cardinality(HeldFor(holder, "root")) \in Nat
    BY HeldForCounted
  <2>3. Cardinality(HeldFor(holder', "table")) = Cardinality(HeldFor(holder, "table")) + got
    BY <1>6, <1>11, <1>13
  <2>4. Cardinality(HeldFor(holder', "page")) = Cardinality(HeldFor(holder, "page")) + Cardinality(page)
    BY <1>11, <1>13
  <2> QED BY <2>1, <2>2, <2>3, <2>4
<1>16. IsFiniteSet(pages) /\ Cardinality(pages) = Cardinality(page) /\ pages \in SUBSET (Page \union 0..ArenaPages)
  <2>1. CASE page = {}
    BY <1>14, <2>1, FS_EmptySet
  <2>2. CASE page # {}
    <3>1. 0 \in 0..ArenaPages
      BY PmSizesOK
    <3> QED BY <1>8, <2>2, <3>1, FS_Singleton DEF Shared
  <2> QED BY <2>1, <2>2
<1>17. got = 0 => pages = {}
  BY <1>3, <1>8
<1> HIDE DEF pages
<1>18. reserved \in Nat /\ booted \in BOOLEAN /\ TreesOk(tree, reserved) /\ RootsOk(root, Len(tree))
  BY PmSizesOK DEF PmInv
<1>19. /\ TreesOk(tree', reserved) /\ RootsOk(root', Len(tree')) /\ Len(root') = Len(root)
       /\ Together(TablesIn(tree')) = Together(TablesIn(tree)) + got
       /\ Together(PagesIn(tree')) = Together(PagesIn(tree)) + Cardinality(pages)
  <2>1. got <= TablesMissing(1, "kuser") /\ reserved <= reserved
    BY <1>5, <1>18 DEF missing
  <2>2. Grown(1, "kuser", got, pages)
    BY <1>1
  <2>3. "kuser" # "arena"
    OBVIOUS
  <2>4. root[1]["kuser"] # 0 => tree[root[1]["kuser"]].pages \intersect pages = {}
    BY <1>2
  <2> QED BY ONLY <1>2, <1>5, <1>16, <1>17, <1>18, <2>1, <2>2, <2>3, <2>4, GrownKept
<1>20. /\ Cardinality(HeldFor(holder', "table")) = Together(TablesIn(tree'))
       /\ Cardinality(HeldFor(holder', "page")) = Together(PagesIn(tree'))
       /\ Cardinality(HeldFor(holder', "root")) = 3 * (Len(root') - 1)
  BY <1>15, <1>16, <1>19 DEF PmInv
<1>21. booted' = TRUE /\ reserved' = reserved /\ reserved \in 0..ArenaPages
  BY <1>1 DEF PmInv
<1> QED BY <1>13, <1>19, <1>20, <1>21 DEF PmInv

LEMMA DeviceMapped ==
  ASSUME PmInv, NEW s \in DOMAIN root, NEW n \in Region, HalMapMmio(s, n)
  PROVE  PmInv'
<1> DEFINE c == Cardinality(Frame \ used)
           missing == TablesMissing(s, "arena")
           got == Min({missing, c})
           L == Lowest(got)
           as == [f \in L |-> "table"]
           pages == IF got = missing THEN reserved + 1..reserved + n ELSE {}
<1>1. /\ reserved + n <= ArenaPages /\ reserved' = reserved + n /\ Take(L, "table")
      /\ Grown(s, "arena", got, pages) /\ UNCHANGED <<vmPages, booted>>
  BY DEF HalMapMmio, Reserve
<1>2. "arena" \in Entry /\ missing \in Nat /\ root[s]["arena"] = 1
  BY MissingIs DEF Entry
<1>3. c \in Nat
  BY LowestIs
<1> HIDE DEF missing, c
<1>4. got \in Nat /\ got <= missing /\ got <= c
  <2>1. missing \in Nat
    BY <1>2
  <2> QED BY ONLY <1>3, <2>1, LeastOfTwo
<1>5. L \in SUBSET (Frame \ used) /\ Cardinality(L) = got
  <2>1. \A m \in Nat : m <= c => Lowest(m) \in SUBSET (Frame \ used) /\ Cardinality(Lowest(m)) = m
    BY LowestIs DEF c
  <2> HIDE DEF got
  <2> QED BY <1>4, <2>1
<1> HIDE DEF L, got
<1>6. as \in [L -> Use \ {"free"}] /\ Hold(as) /\ used' = used \union L /\ free' = free - Cardinality(L)
  BY <1>1 DEF Take, Use
<1>7. \A f \in L : as[f] # "region"
  OBVIOUS
<1>8. {f \in L : as[f] = "table"} = L /\ {f \in L : as[f] = "root"} = {} /\ {f \in L : as[f] = "page"} = {}
  OBVIOUS
<1> HIDE DEF as
<1>9. /\ FramesTyped' /\ vmPages' = Cardinality(HeldFor(holder', "region"))
      /\ \A use \in {"table", "page", "root"} :
           Cardinality(HeldFor(holder', use)) = Cardinality(HeldFor(holder, use)) + Cardinality({f \in L : as[f] = use})
  <2>1. vmPages' = vmPages
    BY <1>1
  <2> QED BY <1>5, <1>6, <1>7, <2>1, StepFrames
<1>10. Cardinality({}) = 0
  BY FS_EmptySet
<1>11. /\ Cardinality(HeldFor(holder', "table")) = Cardinality(HeldFor(holder, "table")) + got
       /\ Cardinality(HeldFor(holder', "page")) = Cardinality(HeldFor(holder, "page"))
       /\ Cardinality(HeldFor(holder', "root")) = Cardinality(HeldFor(holder, "root"))
  <2>1. /\ Cardinality(HeldFor(holder', "page")) = Cardinality(HeldFor(holder, "page")) + 0
        /\ Cardinality(HeldFor(holder', "root")) = Cardinality(HeldFor(holder, "root")) + 0
    BY <1>8, <1>9, <1>10
  <2>2. Cardinality(HeldFor(holder, "page")) \in Nat /\ Cardinality(HeldFor(holder, "root")) \in Nat
    BY HeldForCounted
  <2>3. Cardinality(HeldFor(holder', "table")) = Cardinality(HeldFor(holder, "table")) + got
    BY <1>5, <1>8, <1>9
  <2> QED BY <2>1, <2>2, <2>3
<1>12. reserved \in Nat /\ n \in Nat /\ ArenaPages \in Nat /\ reserved \in 0..ArenaPages
  BY PmSizesOK DEF PmInv
<1>13. IsFiniteSet(pages) /\ pages \in SUBSET (Page \union 0..ArenaPages) /\ pages \subseteq 1..reserved + n
  <2>1. IsFiniteSet(reserved + 1..reserved + n)
    BY <1>12, NextNumbers
  <2>2. reserved + 1..reserved + n \subseteq 1..reserved + n /\ 1..reserved + n \subseteq 0..ArenaPages
    BY <1>1, <1>12
  <2> QED BY <2>1, <2>2, FS_EmptySet
<1> HIDE DEF pages
<1>14. booted \in BOOLEAN /\ TreesOk(tree, reserved) /\ RootsOk(root, Len(tree))
  BY DEF PmInv
<1>15. /\ TreesOk(tree', reserved + n) /\ RootsOk(root', Len(tree')) /\ Len(root') = Len(root)
       /\ root'[1]["kuser"] = root[1]["kuser"]
       /\ Together(TablesIn(tree')) = Together(TablesIn(tree)) + got
       /\ Together(PagesIn(tree')) = Together(PagesIn(tree)) + 0
  <2>1. got <= TablesMissing(s, "arena") /\ reserved <= reserved + n /\ reserved + n \in Nat
    BY <1>4, <1>12 DEF missing
  <2>2. Grown(s, "arena", got, pages) /\ "arena" # "kuser" /\ root[s]["arena"] # 0
    BY <1>1, <1>2
  <2> QED BY <1>2, <1>4, <1>12, <1>13, <1>14, <2>1, <2>2, GrownKept
<1>16. /\ Cardinality(HeldFor(holder', "table")) = Together(TablesIn(tree'))
       /\ Cardinality(HeldFor(holder', "page")) = Together(PagesIn(tree'))
       /\ Cardinality(HeldFor(holder', "root")) = 3 * (Len(root') - 1)
  <2>1. Cardinality(HeldFor(holder, "page")) \in Nat
    BY HeldForCounted
  <2> QED BY <1>11, <1>15, <2>1 DEF PmInv
<1>17. booted' = booted /\ reserved' = reserved + n /\ reserved + n \in 0..ArenaPages
  BY <1>1, <1>12
<1> QED BY <1>9, <1>14, <1>15, <1>16, <1>17 DEF PmInv

LEMMA DeviceUnmapped ==
  ASSUME PmInv, NEW s \in DOMAIN root, NEW ps, HalUnmapMmio(s, ps)
  PROVE  PmInv'
<1>1. root[s].arena = 1
  BY DEF PmInv, RootsOk
<1>2. tree' = [tree EXCEPT ![1].pages = @ \ ps] /\ UNCHANGED <<used, free, holder, vmPages, root, reserved, booted>>
  BY <1>1 DEF HalUnmapMmio, Unmap
<1>3. tree \in Seq(TreeType) /\ Len(tree) \in Nat /\ Len(tree) >= 1 /\ DOMAIN tree = 1..Len(tree) /\ tree[1] \in TreeType
  BY DEF PmInv, TreesOk
<1> DEFINE new == [tree[1] EXCEPT !.pages = @ \ ps]
<1>4. new \in TreeType /\ new.tables = tree[1].tables /\ new.pages = tree[1].pages \ ps
  BY <1>3 DEF TreeType
<1>5. tree' = [tree EXCEPT ![1] = new]
  BY <1>2
<1> HIDE DEF new
<1>6. /\ tree' \in Seq(TreeType) /\ Len(tree') = Len(tree) /\ DOMAIN tree' = DOMAIN tree
      /\ tree'[1] = new /\ \A x \in DOMAIN tree : x # 1 => tree'[x] = tree[x]
  <2>1. 1 \in 1..Len(tree)
    BY <1>3
  <2>2. /\ [tree EXCEPT ![1] = new] \in Seq(TreeType) /\ Len([tree EXCEPT ![1] = new]) = Len(tree)
        /\ \A x \in 1..Len(tree) : [tree EXCEPT ![1] = new][x] = IF x = 1 THEN new ELSE tree[x]
    BY ONLY <1>3, <1>4, <2>1, ExceptSeq
  <2>3. tree' \in Seq(TreeType) /\ Len(tree') = Len(tree) /\ \A x \in 1..Len(tree) : tree'[x] = IF x = 1 THEN new ELSE tree[x]
    BY <1>5, <2>2
  <2>4. DOMAIN tree' = DOMAIN tree
    BY ONLY <1>3, <2>3, LenProperties
  <2> QED BY <1>3, <2>1, <2>3, <2>4
<1>7. TablesIn(tree') = TablesIn(tree) /\ PagesIn(tree') = PagesIn(tree)
  <2>1. \A x \in DOMAIN tree : tree'[x].tables = tree[x].tables
    BY <1>4, <1>6
  <2>2. TablesIn(tree') = TablesIn(tree)
    BY <1>6, <2>1 DEF TablesIn
  <2>3. PagesIn(tree') = PagesIn(tree)
    BY <1>6 DEF PagesIn
  <2> QED BY <2>2, <2>3
<1>8. TreesOk(tree', reserved)
  BY <1>3, <1>4, <1>6, <1>7 DEF PmInv, TreesOk
<1>9. FramesTyped'
  BY <1>2 DEF PmInv, FramesTyped, FramesCounted
<1> QED BY <1>2, <1>6, <1>7, <1>8, <1>9 DEF PmInv

LEMMA PmStepKept == PmInv /\ [PmNext]_pmVars => PmInv'
<1> SUFFICES ASSUME PmInv, [PmNext]_pmVars PROVE PmInv'
  OBVIOUS
<1>1. CASE \/ \E n \in Region : MmAllocateVirtualMemory(n) \/ AllocateCommonBuffer(n)
           \/ \E n \in Region, f \in Frame : FreeCommonBuffer(f, n)
           \/ \E n \in Region \union {1}, f \in Frame : MmFreeVirtualMemory(f, n)
  BY <1>1, RegionsKept
<1>2. CASE MmCreateAddressSpace
  BY <1>2, SpaceCreated
<1>3. ASSUME NEW s \in DOMAIN root, NEW p \in Page, MmMapZeroPage(s, p) PROVE PmInv'
  BY <1>3, ZeroPageMapped
<1>4. CASE MmMapKuserSharedData
  BY <1>4, SharedPageMapped
<1>5. ASSUME NEW s \in DOMAIN root, NEW n \in Region, HalMapMmio(s, n) PROVE PmInv'
  BY <1>5, DeviceMapped
<1>6. ASSUME NEW s \in DOMAIN root, NEW n \in Region, NEW p \in 1..ArenaPages, HalUnmapMmio(s, p..p + n - 1) PROVE PmInv'
  BY <1>6, DeviceUnmapped
<1>7. CASE UNCHANGED pmVars
  BY <1>7 DEF pmVars, PmInv, FramesTyped, FramesCounted
<1> QED BY <1>1, <1>2, <1>3, <1>4, <1>5, <1>6, <1>7 DEF PmNext

\* Every frame that is used has one holder, and the tables, pages and address spaces hold as
\* many as they need; what is mapped for a device was reserved for it and all spaces share it (mm/pmm.c:16-60,
\* mm/virtmem.c:92-142, mm/paging.c:60-142, 332-394).
THEOREM FramesCorrect == PmSpec => [](PmTypeOK /\ FramesSound)
<1>1. PmInit => PmInv
  BY PmStart
<1>2. PmInv /\ [PmNext]_pmVars => PmInv'
  BY PmStepKept
<1>3. PmInv => PmTypeOK /\ FramesSound
  BY PmInvPromises
<1> QED BY <1>1, <1>2, <1>3, PTL DEF PmSpec
=============================================================================
