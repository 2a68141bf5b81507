---------------------------- MODULE ServiceProofs ----------------------------
(***************************************************************************)
(* Proofs about the tables of the processes and about the open files, for     *)
(* every size of the tables and every number of names, records and handles.  *)
(***************************************************************************)
EXTENDS ProcessManager, FileServices, SequenceTheorems, FiniteSetTheorems,
        WellFoundedInduction, TLAPS

-----------------------------------------------------------------------------
(* Numbers.                                                                  *)

\* A set of numbers that is closed under its own complement's successor is empty.
LEMMA NothingFirst ==
  ASSUME NEW T \in SUBSET Nat, 0 \notin T, \A n \in Nat : n \notin T => n + 1 \notin T
  PROVE  T = {}
<1> SUFFICES ASSUME T # {} PROVE FALSE
  OBVIOUS
<1>1. PICK m \in T : \A y \in T : ~(<<y, m>> \in OpToRel(<, Nat))
  BY NatLessThanWellFounded, WFMin
<1>2. m \in Nat /\ m # 0
  BY <1>1
<1>3. m - 1 \in Nat /\ (m - 1) + 1 = m /\ m - 1 < m
  BY <1>2
<1>4. m - 1 \in T
  BY <1>1, <1>3
<1>5. <<m - 1, m>> \in OpToRel(<, Nat)
  BY <1>2, <1>3 DEF OpToRel
<1> QED BY <1>1, <1>4, <1>5

\* The least and the greatest of some numbers are among them.
LEMMA LeastIn ==
  ASSUME NEW T \in SUBSET Nat, T # {}
  PROVE  Min(T) \in T /\ \A y \in T : Min(T) =< y
<1> SUFFICES ASSUME ~ \E m \in T : \A y \in T : m =< y PROVE FALSE
  BY DEF Min
<1> DEFINE Above == {n \in Nat : \E y \in T : y =< n}
<1>1. 0 \notin Above
  OBVIOUS
<1>2. ASSUME NEW n \in Nat, n \notin Above PROVE n + 1 \notin Above
  <2> SUFFICES ASSUME NEW y \in T, y =< n + 1 PROVE FALSE
    OBVIOUS
  <2>1. \A z \in T : z > n
    BY <1>2
  <2>2. \A z \in T : y =< z
    BY <2>1
  <2> QED BY <2>2
<1>3. Above = {}
  <2> HIDE DEF Above
  <2>1. Above \in SUBSET Nat
    BY DEF Above
  <2> QED BY <1>1, <1>2, <2>1, NothingFirst
<1>4. PICK t \in T : TRUE
  OBVIOUS
<1>5. t \in Above
  OBVIOUS
<1> QED BY <1>3, <1>5

\* The lesser of two numbers.
LEMMA LeastOfTwo ==
  ASSUME NEW a \in Nat, NEW b \in Nat
  PROVE  Min({a, b}) = IF a =< b THEN a ELSE b
<1>1. Min({a, b}) \in {a, b} /\ \A y \in {a, b} : Min({a, b}) =< y
  BY LeastIn
<1> QED BY <1>1

\* The greatest of some numbers up to n.
LEMMA GreatestIn ==
  ASSUME NEW n \in Nat, NEW T \in SUBSET (1..n), T # {}
  PROVE  Max(T) \in T /\ \A y \in T : y =< Max(T)
<1> SUFFICES ASSUME ~ \E m \in T : \A y \in T : m >= y PROVE FALSE
  BY DEF Max
<1> DEFINE U == {n - y : y \in T}
<1>1. U \in SUBSET Nat /\ U # {}
  <2>1. PICK y \in T : TRUE
    OBVIOUS
  <2>2. n - y \in U
    BY <2>1
  <2>3. \A z \in T : n - z \in Nat
    OBVIOUS
  <2> QED BY <2>2, <2>3
<1> HIDE DEF U
<1>2. Min(U) \in U /\ \A u \in U : Min(U) =< u
  BY <1>1, LeastIn
<1>3. PICK m \in T : Min(U) = n - m
  BY <1>2 DEF U
<1>4. \A y \in T : n - m =< n - y
  BY <1>2, <1>3 DEF U
<1> QED BY <1>3, <1>4

\* Some of the numbers up to n are finitely many.
LEMMA SomeUpTo ==
  ASSUME NEW n \in Nat, NEW T \in SUBSET (1..n)
  PROVE  IsFiniteSet(T) /\ Cardinality(T) \in Nat /\ Cardinality(T) =< n
<1>1. IsFiniteSet(1..n) /\ Cardinality(1..n) = n
  BY FS_Interval
<1> QED BY <1>1, FS_Subset, FS_CardinalityType

-----------------------------------------------------------------------------
(* The objects.                                                              *)

HeaderType == [type : ObjectType, name : ObjectName \union {Unnamed}, refs : Nat, handles : Nat]
NewHeader == {Header(type, name) : type \in ObjectType, name \in ObjectName \union {Unnamed}}

\* The tables of objects with exact counters, and names that lead to objects.
ObInv ==
  /\ ObTypeOK
  /\ HandleCountsExact
  /\ \A i \in DOMAIN named : named[i] \in DOMAIN object

\* An array that is full ignores what comes.
LEMMA ListedKeeps ==
  ASSUME NEW S, NEW array \in Seq(S), NEW news \in Seq(S), NEW size \in Nat, Len(array) =< size
  PROVE  /\ Listed(array, news, size) \in Seq(S)
         /\ Len(Listed(array, news, size)) =< size
         /\ Len(Listed(array, news, size)) =< Len(array) + Len(news)
         /\ Len(Listed(array, news, size)) >= Len(array)
         /\ \A i \in 1..Len(array) : Listed(array, news, size)[i] = array[i]
         /\ \A i \in Len(array) + 1..Len(Listed(array, news, size)) :
              Listed(array, news, size)[i] = news[i - Len(array)]
<1> DEFINE both == array \o news
           n == Min({size, Len(both)})
<1>1. Len(array) \in Nat /\ Len(news) \in Nat
  BY LenProperties
<1>2. both \in Seq(S) /\ Len(both) = Len(array) + Len(news)
  BY ConcatProperties
<1>3. \A i \in 1..Len(both) : both[i] = IF i =< Len(array) THEN array[i] ELSE news[i - Len(array)]
  BY ConcatProperties
<1>4. n = IF size =< Len(both) THEN size ELSE Len(both)
  BY <1>1, <1>2, LeastOfTwo
<1> HIDE DEF both
<1>5. n \in Nat /\ n =< size /\ n =< Len(both) /\ n >= Len(array)
  BY <1>1, <1>2, <1>4
<1> HIDE DEF n
<1>6. SubSeq(both, 1, n) = [i \in 1..n |-> both[i]]
  BY <1>2, <1>5, SubSeqProperties
<1>7. SubSeq(both, 1, n) \in Seq(S) /\ Len(SubSeq(both, 1, n)) = n
  BY <1>2, <1>5, <1>6, SubSeqProperties
<1>8. Listed(array, news, size) = SubSeq(both, 1, n)
  BY DEF Listed, both, n
<1> QED BY <1>1, <1>2, <1>3, <1>5, <1>6, <1>7, <1>8

\* A new handle is a free slot, or none.
LEMMA NewHandleFree ==
  ASSUME ObTypeOK
  PROVE  /\ NewHandle \in 0..MaxHandle
         /\ NewHandle # 0 => NewHandle \in Handle /\ slot[NewHandle] = 0
<1> DEFINE free == {h \in Handle : slot[h] = 0}
<1>1. free \in SUBSET Nat /\ MaxHandle \in Nat
  BY ObSizesOK DEF Handle
<1>2. CASE free = {}
  BY <1>1, <1>2 DEF NewHandle
<1>3. CASE free # {}
  <2>1. Min(free) \in free
    BY <1>1, <1>3, LeastIn
  <2> QED BY <1>1, <1>3, <2>1 DEF NewHandle, Handle
<1> QED BY <1>2, <1>3

\* The handles that are open on an object.
Open(s, o) == {h \in Handle : s[h] = o}

\* The handles that are open on an object are finitely many.
LEMMA OpenFinite ==
  \A s, o : IsFiniteSet(Open(s, o)) /\ Cardinality(Open(s, o)) \in Nat
<1>1. MaxHandle \in Nat
  BY ObSizesOK
<1>2. \A s, o : Open(s, o) \in SUBSET (1..MaxHandle)
  BY DEF Open, Handle
<1> QED BY <1>1, <1>2, SomeUpTo

\* A handle that is given to an object counts for it and for no other.
LEMMA HandleOpened ==
  ASSUME ObTypeOK, NEW h \in Handle, slot[h] = 0, NEW n \in Nat \ {0},
         slot' = [slot EXCEPT ![h] = n]
  PROVE  /\ Open(slot', n) = Open(slot, n) \union {h}
         /\ \A o \in Nat \ {0, n} : Open(slot', o) = Open(slot, o)
<1>1. \A g \in Handle : slot'[g] = IF g = h THEN n ELSE slot[g]
  BY DEF ObTypeOK
<1> QED BY <1>1 DEF Open

\* The names of the objects that are there, and of the first new one.
NamesGiven(news) ==
  /\ Len(named') \in Len(named)..Len(named) + 1
  /\ \A i \in 1..Len(named) : named'[i] = named[i]
  /\ \A i \in Len(named) + 1..Len(named') :
       /\ named'[i] = Len(object) + 1
       /\ 1 \in DOMAIN news /\ news[1].name # Unnamed

\* What a creation leaves: the old objects as they were but for their counters,
\* behind them the new ones.
ObjectsMade(news) ==
  /\ Len(object') = Len(object) + Len(news)
  /\ \A o \in 1..Len(object) : object'[o] = object[o]
  /\ \A i \in 1..Len(news) : object'[Len(object) + i].type = news[i].type
                             /\ object'[Len(object) + i].name = news[i].name
  /\ NamesGiven(news)

\* The handle that a creation gives.
Given(news, opened) ==
  \/ slot' = slot
  \/ /\ opened # 0 /\ NewHandle # 0
     /\ slot' = [slot EXCEPT ![NewHandle] = Len(object) + opened]

\* A new header, and what a handle makes of it.
LEMMA HeaderOpened ==
  ASSUME NEW x \in NewHeader
  PROVE  /\ x \in HeaderType /\ x.handles = 0 /\ x.refs = 1
         /\ Recounted(x, 1) \in HeaderType
         /\ Recounted(x, 1).type = x.type /\ Recounted(x, 1).name = x.name
         /\ Recounted(x, 1).handles = 1 /\ Recounted(x, 1).refs = 2
<1>1. PICK type \in ObjectType, name \in ObjectName \union {Unnamed} : x = Header(type, name)
  BY DEF NewHeader
<1>2. x = [type |-> type, name |-> name, refs |-> 1, handles |-> 0]
  BY <1>1 DEF Header
<1> QED BY <1>2 DEF HeaderType, Recounted

\* A creation puts the new objects behind the old ones with exact counters, whatever the
\* tables take of them (ob/object.c).
LEMMA CreateKept ==
  ASSUME ObInv, NEW news \in Seq(NewHeader), Len(news) =< Room, NEW opened \in 0..Len(news),
         CreateObjects(news, opened)
  PROVE  ObInv' /\ ObjectsMade(news) /\ Given(news, opened)
<1> DEFINE h == IF opened = 0 THEN 0 ELSE NewHandle
           ids == [i \in DOMAIN news |-> Len(object) + i]
           header(i) == IF h # 0 /\ i = opened
                        THEN Recounted(news[i], 1) ELSE news[i]
           added == [i \in DOMAIN news |-> header(i)]
           first == IF ids # <<>> /\ news[1].name # Unnamed THEN <<Len(object) + 1>> ELSE <<>>
<1>1. /\ object' = object \o added
      /\ all' = Listed(all, ids, MaxAll)
      /\ named' = Listed(named, first, MaxNamed)
      /\ slot' = IF h = 0 THEN slot ELSE [slot EXCEPT ![h] = Len(object) + opened]
  BY DEF CreateObjects
<1>2. /\ object \in Seq(HeaderType) /\ Len(object) \in Nat /\ DOMAIN object = 1..Len(object)
      /\ Len(news) \in Nat /\ DOMAIN news = 1..Len(news) /\ Len(object) + Len(news) =< MaxObject
      /\ MaxObject \in Nat /\ MaxAll \in Nat /\ MaxNamed \in Nat /\ MaxHandle \in Nat
  BY LenProperties, ObSizesOK DEF ObInv, ObTypeOK, HeaderType, Room
<1>3. \A i \in 1..Len(news) : news[i] \in NewHeader
  BY <1>2
<1>4. \A i \in 1..Len(news) :
        /\ header(i) \in HeaderType
        /\ header(i).type = news[i].type /\ header(i).name = news[i].name
        /\ header(i).handles = IF h # 0 /\ i = opened THEN 1 ELSE 0
        /\ header(i).refs = 1 + header(i).handles
  <2> TAKE i \in 1..Len(news)
  <2>1. news[i] \in NewHeader
    BY <1>3
  <2>2. CASE h # 0 /\ i = opened
    BY <2>1, <2>2, HeaderOpened
  <2>3. CASE ~(h # 0 /\ i = opened)
    BY <2>1, <2>3, HeaderOpened
  <2> QED BY <2>2, <2>3
<1> HIDE DEF header
<1>5. added \in Seq(HeaderType) /\ Len(added) = Len(news) /\ \A i \in 1..Len(news) : added[i] = header(i)
  <2>1. added \in [1..Len(news) -> HeaderType]
    BY <1>2, <1>4
  <2> QED BY <1>2, <2>1, IsASeq
<1> HIDE DEF added
<1>6. ids \in Seq(ObjectId) /\ Len(ids) = Len(news) /\ (ids # <<>> => 1 \in DOMAIN news)
  <2>1. \A i \in 1..Len(news) : Len(object) + i \in ObjectId
    BY <1>2 DEF ObjectId
  <2>2. ids \in [1..Len(news) -> ObjectId]
    BY <1>2, <2>1
  <2>3. ids \in Seq(ObjectId) /\ Len(ids) = Len(news)
    BY <1>2, <2>2
  <2>4. ids # <<>> => Len(ids) # 0
    BY <2>3, EmptySeq
  <2> QED BY <1>2, <2>3, <2>4
<1> HIDE DEF ids
<1>7. first \in Seq(ObjectId) /\ Len(first) \in {0, 1}
      /\ \A i \in 1..Len(first) : first[i] = Len(object) + 1 /\ 1 \in DOMAIN news
                                  /\ news[1].name # Unnamed
  <2>1. 1 \in DOMAIN news => Len(object) + 1 \in ObjectId
    BY <1>2 DEF ObjectId
  <2>2. CASE ids # <<>> /\ news[1].name # Unnamed
    BY <1>6, <2>1, <2>2 DEF first
  <2>3. CASE ~(ids # <<>> /\ news[1].name # Unnamed)
    BY <2>3, EmptySeq DEF first
  <2> QED BY <2>2, <2>3
<1> HIDE DEF first
<1>8. /\ object' \in Seq(HeaderType)
      /\ Len(object') = Len(object) + Len(news)
      /\ \A o \in 1..Len(object) : object'[o] = object[o]
      /\ \A i \in 1..Len(news) : object'[Len(object) + i] = header(i)
  <2>1. /\ object' \in Seq(HeaderType)
        /\ Len(object') = Len(object) + Len(news)
        /\ \A i \in 1..Len(object) + Len(news) :
             object'[i] = IF i =< Len(object) THEN object[i] ELSE added[i - Len(object)]
    <3>1. /\ object \o added \in Seq(HeaderType)
          /\ Len(object \o added) = Len(object) + Len(added)
          /\ \A i \in 1..Len(object) + Len(added) :
               (object \o added)[i] = IF i =< Len(object) THEN object[i] ELSE added[i - Len(object)]
      BY <1>2, <1>5, ConcatProperties
    <3> QED BY <1>1, <1>5, <3>1
  <2>2. \A i \in 1..Len(news) : object'[Len(object) + i] = added[i]
    <3> TAKE i \in 1..Len(news)
    <3>1. Len(object) + i \in 1..Len(object) + Len(news) /\ ~(Len(object) + i =< Len(object))
          /\ (Len(object) + i) - Len(object) = i
      BY <1>2
    <3> QED BY <2>1, <3>1
  <2>3. \A i \in 1..Len(object) : i \in 1..Len(object) + Len(news)
    BY <1>2
  <2>4. object' \in Seq(HeaderType) /\ Len(object') = Len(object) + Len(news)
    BY <1>2, <1>5, <2>1
  <2>5. \A i \in 1..Len(object) : object'[i] = object[i]
    BY <1>2, <2>1, <2>3
  <2> QED BY <1>5, <2>2, <2>4, <2>5
<1>9. all' \in Seq(ObjectId) /\ Len(all') =< MaxAll
  <2>1. all \in Seq(ObjectId) /\ Len(all) =< MaxAll
    BY DEF ObInv, ObTypeOK
  <2> QED BY <1>1, <1>2, <1>6, <2>1, ListedKeeps
<1>10. named' \in Seq(ObjectId) /\ Len(named') =< MaxNamed /\ NamesGiven(news)
  <2>1. named \in Seq(ObjectId) /\ Len(named) =< MaxNamed /\ Len(named) \in Nat
    BY LenProperties DEF ObInv, ObTypeOK
  <2>2. /\ named' \in Seq(ObjectId) /\ Len(named') =< MaxNamed
        /\ Len(named') =< Len(named) + Len(first) /\ Len(named') >= Len(named)
        /\ \A i \in 1..Len(named) : named'[i] = named[i]
        /\ \A i \in Len(named) + 1..Len(named') : named'[i] = first[i - Len(named)]
    <3>1. /\ named \in Seq(ObjectId) /\ first \in Seq(ObjectId)
          /\ MaxNamed \in Nat /\ Len(named) =< MaxNamed
      BY <1>2, <1>7, <2>1
    <3>2. /\ Listed(named, first, MaxNamed) \in Seq(ObjectId)
          /\ Len(Listed(named, first, MaxNamed)) =< MaxNamed
          /\ Len(Listed(named, first, MaxNamed)) =< Len(named) + Len(first)
          /\ Len(Listed(named, first, MaxNamed)) >= Len(named)
          /\ \A i \in 1..Len(named) : Listed(named, first, MaxNamed)[i] = named[i]
          /\ \A i \in Len(named) + 1..Len(Listed(named, first, MaxNamed)) :
               Listed(named, first, MaxNamed)[i] = first[i - Len(named)]
      BY ONLY <3>1, ListedKeeps
    <3>3. named' = Listed(named, first, MaxNamed)
      BY <1>1
    <3> QED BY ONLY <3>2, <3>3
  <2>3. Len(named') \in Nat
    BY <2>2, LenProperties
  <2>4. Len(named') \in Len(named)..Len(named) + 1
    <3>1. Len(first) \in Nat /\ Len(first) =< 1
      BY <1>7
    <3> QED BY <2>1, <2>2, <2>3, <3>1
  <2>5. ASSUME NEW i \in Len(named) + 1..Len(named') PROVE i - Len(named) \in 1..Len(first)
    <3>1. Len(first) \in Nat
      BY <1>7, LenProperties
    <3> QED BY <2>1, <2>2, <2>3, <3>1
  <2> QED BY <1>7, <2>2, <2>4, <2>5 DEF NamesGiven
<1>11. h \in 0..MaxHandle /\ (h # 0 => h \in Handle /\ slot[h] = 0 /\ opened # 0)
  BY NewHandleFree, ObSizesOK DEF ObInv
<1> HIDE DEF h
<1>12. slot' \in [Handle -> 0..Len(object')]
  <2>1. slot \in [Handle -> 0..Len(object)]
    BY DEF ObInv, ObTypeOK
  <2> QED BY <1>1, <1>2, <1>8, <1>11, <2>1
<1>13. HandleCountsExact'
  <2> DEFINE exact(o) == object'[o].handles = Cardinality(Open(slot', o))
                         /\ object'[o].refs = 1 + Cardinality(Open(slot', o))
  <2>1. \A o \in 1..Len(object) : object[o].handles = Cardinality(Open(slot, o))
                                  /\ object[o].refs = 1 + Cardinality(Open(slot, o))
    BY <1>2 DEF ObInv, HandleCountsExact, Open
  <2>2. \A i \in 1..Len(news) : Open(slot, Len(object) + i) = {}
    <3> TAKE i \in 1..Len(news)
    <3>1. \A g \in Handle : slot[g] \in 0..Len(object)
      BY DEF ObInv, ObTypeOK
    <3> QED BY <1>2, <3>1 DEF Open
  <2>3. Len(object) + opened \in Nat
    BY <1>2
  <2>4. CASE h = 0
    <3>1. \A o : Open(slot', o) = Open(slot, o)
      BY <1>1, <2>4 DEF Open
    <3>2. \A o \in 1..Len(object) : exact(o)
      BY <1>8, <2>1, <3>1
    <3>3. \A i \in 1..Len(news) : exact(Len(object) + i)
      <4> TAKE i \in 1..Len(news)
      <4>1. Cardinality(Open(slot', Len(object) + i)) = 0
        BY <2>2, <3>1, FS_EmptySet
      <4>2. header(i).handles = 0 /\ header(i).refs = 1
        BY <1>4, <2>4
      <4> QED BY <1>8, <4>1, <4>2
    <3>9. \A o \in 1..Len(object') : exact(o)
      <4> TAKE o \in 1..Len(object')
      <4>1. CASE o =< Len(object)
        BY <1>2, <3>2, <4>1, <1>8
      <4>2. CASE o > Len(object)
        <5>1. o - Len(object) \in 1..Len(news) /\ Len(object) + (o - Len(object)) = o
          BY <1>2, <1>8, <4>2
        <5> QED BY <3>3, <5>1
      <4> QED BY <1>2, <1>8, <4>1, <4>2
    <3> QED BY <1>8, <3>9, LenProperties DEF HandleCountsExact, Open
  <2>5. CASE h # 0
    <3> DEFINE n == Len(object) + opened
    <3>1. n \in Nat \ {0} /\ h \in Handle /\ slot[h] = 0 /\ opened \in 1..Len(news)
      BY <1>2, <1>11, <2>5
    <3>2. slot' = [slot EXCEPT ![h] = n]
      BY <1>1, <2>5
    <3>3. Open(slot', n) = Open(slot, n) \union {h} /\ \A o \in Nat \ {0, n} : Open(slot', o) = Open(slot, o)
      <4> HIDE DEF n, h
      <4> QED BY <3>1, <3>2, HandleOpened DEF ObInv
    <3>4. \A o \in 1..Len(object) : exact(o)
      <4> TAKE o \in 1..Len(object)
      <4>1. o \in Nat \ {0, n}
        BY <1>2, <3>1
      <4> QED BY <1>8, <2>1, <3>3, <4>1
    <3>5. \A i \in 1..Len(news) : exact(Len(object) + i)
      <4> TAKE i \in 1..Len(news)
      <4>1. CASE i = opened
        <5>1. Cardinality(Open(slot', Len(object) + i)) = 1
          <6>1. Open(slot', Len(object) + i) = {h}
            BY <2>2, <3>3, <4>1
          <6> QED BY <6>1, FS_Singleton
        <5>2. header(i).handles = 1 /\ header(i).refs = 2
          BY <1>4, <2>5, <4>1
        <5> QED BY <1>8, <5>1, <5>2
      <4>2. CASE i # opened
        <5>1. Len(object) + i \in Nat \ {0, n}
          BY <1>2, <4>2, <3>1
        <5>2. Cardinality(Open(slot', Len(object) + i)) = 0
          BY <2>2, <3>3, <5>1, FS_EmptySet
        <5>3. header(i).handles = 0 /\ header(i).refs = 1
          BY <1>4, <4>2
        <5> QED BY <1>8, <5>2, <5>3
      <4> QED BY <4>1, <4>2
    <3>9. \A o \in 1..Len(object') : exact(o)
      <4> TAKE o \in 1..Len(object')
      <4>1. CASE o =< Len(object)
        BY <1>2, <3>4, <4>1, <1>8
      <4>2. CASE o > Len(object)
        <5>1. o - Len(object) \in 1..Len(news) /\ Len(object) + (o - Len(object)) = o
          BY <1>2, <1>8, <4>2
        <5> QED BY <3>5, <5>1
      <4> QED BY <1>2, <1>8, <4>1, <4>2
    <3> QED BY <1>8, <3>9, LenProperties DEF HandleCountsExact, Open
  <2> QED BY <2>4, <2>5
<1>14. \A i \in DOMAIN named' : named'[i] \in DOMAIN object'
  <2>1. DOMAIN named = 1..Len(named) /\ Len(named) \in Nat /\ DOMAIN named' = 1..Len(named')
        /\ Len(named') \in Nat /\ DOMAIN object' = 1..Len(object')
    BY <1>8, <1>10, LenProperties DEF ObInv, ObTypeOK
  <2> TAKE i \in DOMAIN named'
  <2>2. CASE i =< Len(named)
    <3>1. named'[i] = named[i] /\ named[i] \in 1..Len(object)
      BY <1>2, <1>10, <2>1, <2>2 DEF NamesGiven, ObInv
    <3> QED BY <1>2, <1>8, <2>1, <3>1
  <2>3. CASE i > Len(named)
    <3>1. named'[i] = Len(object) + 1 /\ Len(news) >= 1
      BY <1>2, <1>10, <2>1, <2>3 DEF NamesGiven
    <3> QED BY <1>2, <1>8, <2>1, <3>1
  <2> QED BY <2>1, <2>2, <2>3
<1>15. ObjectsMade(news)
  <2>1. \A i \in 1..Len(news) : header(i).type = news[i].type /\ header(i).name = news[i].name
    BY <1>4
  <2> QED BY <1>8, <1>10, <2>1 DEF ObjectsMade
<1>16. Given(news, opened)
  BY <1>1 DEF Given, h
<1>17. ObTypeOK'
  BY <1>2, <1>8, <1>9, <1>10, <1>12 DEF ObTypeOK, HeaderType, ObjectId, Handle
<1> QED BY <1>13, <1>14, <1>15, <1>16, <1>17 DEF ObInv

\* A close takes one from both counters of one object.
LEMMA CloseKept ==
  ASSUME ObInv, NEW h, CloseHandle(h)
  PROVE  /\ ObInv'
         /\ Len(object') = Len(object) /\ DOMAIN object' = DOMAIN object
         /\ \A o \in DOMAIN object : object'[o].type = object[o].type
                                     /\ object'[o].name = object[o].name
         /\ named' = named
         /\ h \in Handle /\ slot[h] # 0 /\ slot' = [slot EXCEPT ![h] = 0]
<1> DEFINE n == slot[h]
<1>1. /\ h \in Handle /\ n # 0 /\ slot' = [slot EXCEPT ![h] = 0] /\ all' = all /\ named' = named
      /\ object' = [object EXCEPT ![n] = Recounted(@, -1)]
  BY DEF CloseHandle
<1>2. /\ object \in Seq(HeaderType) /\ Len(object) \in Nat /\ DOMAIN object = 1..Len(object)
      /\ slot \in [Handle -> 0..Len(object)] /\ n \in 1..Len(object)
  BY <1>1, LenProperties DEF ObInv, ObTypeOK, HeaderType
<1>3. /\ object[n].handles = Cardinality(Open(slot, n))
      /\ object[n].refs = 1 + Cardinality(Open(slot, n))
      /\ \A o \in 1..Len(object) : object[o].handles = Cardinality(Open(slot, o))
                                   /\ object[o].refs = 1 + Cardinality(Open(slot, o))
  BY <1>2 DEF ObInv, HandleCountsExact, Open
<1>4. IsFiniteSet(Open(slot, n)) /\ Cardinality(Open(slot, n)) \in Nat /\ h \in Open(slot, n)
  BY <1>1, <1>2, OpenFinite DEF Open
<1>5. Open(slot', n) = Open(slot, n) \ {h}
      /\ \A o \in 1..Len(object) : o # n => Open(slot', o) = Open(slot, o)
  BY <1>1, <1>2 DEF Open
<1>6. Cardinality(Open(slot, n) \ {h}) = Cardinality(Open(slot, n)) - 1
      /\ Cardinality(Open(slot, n) \ {h}) \in Nat
  BY <1>4, FS_RemoveElement, FS_CardinalityType
<1> DEFINE less == Recounted(object[n], -1)
<1>7. object[n] \in HeaderType /\ object[n].handles \in Int /\ object[n].refs \in Int
  <2>1. object[n] \in HeaderType
    BY <1>2
  <2> QED BY <2>1 DEF HeaderType
<1>20. less.type = object[n].type /\ less.name = object[n].name
       /\ less.handles = object[n].handles - 1 /\ less.refs = object[n].refs - 1
  BY <1>7 DEF Recounted
<1>8. object' = [object EXCEPT ![n] = less]
  BY <1>1, <1>2
<1>9. less \in HeaderType
  BY <1>3, <1>4, <1>6, <1>7 DEF HeaderType, Recounted
<1> HIDE DEF less, Recounted
<1>10. /\ object' \in Seq(HeaderType) /\ Len(object') = Len(object)
       /\ DOMAIN object' = DOMAIN object
       /\ \A o \in 1..Len(object) : object'[o] = IF o = n THEN less ELSE object[o]
  BY <1>2, <1>8, <1>9, ExceptSeq
<1>11. HandleCountsExact'
  <2>1. \A o \in 1..Len(object) : object'[o].handles = Cardinality(Open(slot', o))
                                  /\ object'[o].refs = 1 + Cardinality(Open(slot', o))
    <3> TAKE o \in 1..Len(object)
    <3>1. CASE o = n
      <4>1. object'[o].handles = object[n].handles - 1 /\ object'[o].refs = object[n].refs - 1
        BY <1>10, <1>20, <3>1
      <4>2. Cardinality(Open(slot', n)) = Cardinality(Open(slot, n)) - 1
        BY <1>5, <1>6
      <4> QED BY <1>3, <1>4, <3>1, <4>1, <4>2
    <3>2. CASE o # n
      BY <1>3, <1>5, <1>10, <3>2
    <3> QED BY <3>1, <3>2
  <2> QED BY <1>2, <1>10, <2>1 DEF HandleCountsExact, Open
<1>12. slot' \in [Handle -> 0..Len(object')]
  BY <1>1, <1>2, <1>10
<1>13. ObTypeOK'
  BY <1>1, <1>10, <1>12 DEF ObInv, ObTypeOK, HeaderType, ObjectId, Handle
<1>14. \A o \in DOMAIN object : object'[o].type = object[o].type /\ object'[o].name = object[o].name
  BY <1>2, <1>10, <1>20
<1> QED BY <1>1, <1>10, <1>11, <1>13, <1>14 DEF ObInv

-----------------------------------------------------------------------------
(* Remainders.                                                               *)

\* What is added to a multiple of m, if it is less than m, is the remainder.
LEMMA OneRemainder ==
  ASSUME NEW m \in Nat, m > 0, NEW d \in Int, NEW r \in 0..m - 1
  PROVE  (m * d + r) % m = r
<1> DEFINE x == m * d + r
<1>1. m * d \in Int
  OBVIOUS
<1> HIDE DEF x
<1>2. x \in Int /\ x = m * d + r
  BY <1>1 DEF x
<1>3. x % m \in 0..m - 1 /\ x \div m \in Int /\ x = m * (x \div m) + (x % m)
  BY <1>2
<1>4. PICK e \in Int : x = m * e + (x % m)
  BY <1>3
<1>5. d = e
  <2>1. m * d + r = m * e + (x % m)
    BY <1>2, <1>4
  <2>2. m * d \in Int /\ m * e \in Int /\ m * (d - e) = m * d - m * e
    OBVIOUS
  <2>3. m * (d - e) < m /\ m * (d - e) > 0 - m
    <3>1. m * d - m * e = (x % m) - r /\ (x % m) \in 0..m - 1
      BY <1>3, <2>1, <2>2
    <3>2. (x % m) - r < m /\ (x % m) - r > 0 - m
      BY <3>1
    <3> QED BY <2>2, <3>1, <3>2
  <2>4. d - e >= 1 => m * (d - e) >= m
    OBVIOUS
  <2>5. d - e =< 0 - 1 => m * (d - e) =< 0 - m
    OBVIOUS
  <2> QED BY <2>3, <2>4, <2>5, <2>2
<1> QED BY <1>1, <1>2, <1>3, <1>4, <1>5 DEF x

\* A remainder is below m.
LEMMA Quotient ==
  ASSUME NEW m \in Nat, m > 0, NEW x \in Int
  PROVE  x % m \in 0..m - 1 /\ \E d \in Int : x = m * d + (x % m)
<1>1. x % m \in 0..m - 1 /\ x \div m \in Int /\ x = m * (x \div m) + (x % m)
  OBVIOUS
<1> QED BY <1>1

\* A remainder can be taken before a number is added.
LEMMA RemainderAdds ==
  ASSUME NEW m \in Nat, m > 0, NEW a \in Int, NEW b \in Int
  PROVE  ((a % m) + b) % m = (a + b) % m
<1>1. PICK d \in Int : a = m * d + (a % m)
  BY Quotient
<1>2. a % m \in 0..m - 1
  BY Quotient
<1> DEFINE s == ((a % m) + b) % m
<1>3. (a % m) + b \in Int
  BY <1>2
<1>4. s \in 0..m - 1 /\ \E e \in Int : (a % m) + b = m * e + s
  BY <1>3, Quotient
<1> HIDE DEF s
<1>5. PICK e \in Int : (a % m) + b = m * e + s
  BY <1>4
<1>6. m * d \in Int /\ m * e \in Int /\ m * (d + e) = m * d + m * e
  OBVIOUS
<1>7. a + b = m * (d + e) + s
  BY <1>1, <1>2, <1>4, <1>5, <1>6
<1>8. (m * (d + e) + s) % m = s
  BY <1>4, OneRemainder
<1> QED BY <1>7, <1>8 DEF s

\* What a remainder is from below zero to the second multiple.
LEMMA NearRemainder ==
  ASSUME NEW m \in Nat, m > 0, NEW x \in 0 - m..m - 1
  PROVE  x % m = IF x < 0 THEN x + m ELSE x
<1>1. CASE x >= 0
  <2>1. m * 0 + x = x /\ x \in 0..m - 1
    BY <1>1
  <2>2. (m * 0 + x) % m = x
    BY <2>1, OneRemainder
  <2> QED BY <1>1, <2>1, <2>2
<1>2. CASE x < 0
  <2>1. m * (0 - 1) + (x + m) = x /\ x + m \in 0..m - 1
    BY <1>2
  <2>2. (m * (0 - 1) + (x + m)) % m = x + m
    BY <2>1, OneRemainder
  <2> QED BY <1>2, <2>1, <2>2
<1> QED BY <1>1, <1>2

\* What is in a ring of `size' places that start at `head' and are numbered from
\* `read', modulo `mod'.
Ring(size, mod, buffer, head, tail, count, written, read) ==
  /\ tail = (head + count) % size
  /\ written = (read + count) % mod
  /\ \A k \in 0..count - 1 : buffer[(head + k) % size] = (read + k) % mod

\* A ring of bytes stays in order when n bytes are put behind those that are there.
LEMMA RingFills ==
  ASSUME NEW size \in Nat, size > 0, NEW mod \in Nat, mod > 0, NEW old, NEW new,
         NEW head \in 0..size - 1, NEW tail \in 0..size - 1, NEW count \in 0..size,
         NEW written \in 0..mod - 1, NEW read \in 0..mod - 1, NEW n \in 0..size - count,
         Ring(size, mod, old, head, tail, count, written, read),
         \A i \in 0..size - 1 :
           new[i] = IF (i - tail) % size < n THEN (written + ((i - tail) % size)) % mod ELSE old[i]
  PROVE  Ring(size, mod, new, head, (tail + n) % size, count + n, (written + n) % mod, read)
<1>1. /\ tail = (head + count) % size
      /\ written = (read + count) % mod
      /\ \A k \in 0..count - 1 : old[(head + k) % size] = (read + k) % mod
  BY DEF Ring
<1>2. head \in Int /\ tail \in Int /\ count \in Int /\ written \in Int /\ read \in Int /\ n \in Int
      /\ head + count \in Int /\ read + count \in Int
  OBVIOUS
<1>3. (tail + n) % size = (head + (count + n)) % size
  <2>1. (((head + count) % size) + n) % size = ((head + count) + n) % size
    BY <1>2, RemainderAdds
  <2> QED BY <1>1, <1>2, <2>1
<1>4. (written + n) % mod = (read + (count + n)) % mod
  <2>1. (((read + count) % mod) + n) % mod = ((read + count) + n) % mod
    BY <1>2, RemainderAdds
  <2> QED BY <1>1, <1>2, <2>1
<1>5. ASSUME NEW k \in 0..count + n - 1
      PROVE  new[(head + k) % size] = (read + k) % mod
  <2> DEFINE i == (head + k) % size
             j == (i - tail) % size
  <2>1. k \in Int /\ k >= 0 /\ k < count + n
    BY <1>2
  <2>2. i \in 0..size - 1
    BY <1>2, <2>1, Quotient
  <2> HIDE DEF i
  <2>3. new[i] = IF j < n THEN (written + j) % mod ELSE old[i]
    BY <2>2
  <2>4. j = (k - count) % size
    <3> DEFINE d == k - count - tail
    <3>1. d \in Int /\ (head + count) + d = head + k - tail /\ tail + d = k - count
          /\ i + (0 - tail) = i - tail /\ (head + k) + (0 - tail) = head + k - tail
          /\ head + count \in Int /\ head + k \in Int /\ 0 - tail \in Int
      BY <1>2, <2>1, <2>2
    <3> HIDE DEF d
    <3>2. (((head + k) % size) + (0 - tail)) % size = ((head + k) + (0 - tail)) % size
      BY <3>1, RemainderAdds
    <3>3. (((head + count) % size) + d) % size = ((head + count) + d) % size
      BY <3>1, RemainderAdds
    <3> QED BY <1>1, <3>1, <3>2, <3>3 DEF i
  <2> HIDE DEF j
  <2>5. CASE k < count
    <3>1. k - count \in 0 - size..size - 1 /\ k - count < 0
      BY <1>2, <2>1, <2>5
    <3>2. j = (k - count) + size
      BY <2>4, <3>1, NearRemainder
    <3>3. ~(j < n)
      BY <1>2, <2>1, <3>2
    <3>4. old[i] = (read + k) % mod
      BY <1>1, <2>1, <2>5 DEF i
    <3> QED BY <2>3, <3>3, <3>4 DEF i
  <2>6. CASE k >= count
    <3>1. k - count \in 0 - size..size - 1 /\ ~(k - count < 0)
      BY <1>2, <2>1, <2>6
    <3>2. j = k - count
      BY <2>4, <3>1, NearRemainder
    <3>3. j < n /\ j \in Int /\ (read + count) + j = read + k
      BY <1>2, <2>1, <2>6, <3>2
    <3>4. (((read + count) % mod) + j) % mod = ((read + count) + j) % mod
      BY <1>2, <3>3, RemainderAdds
    <3> QED BY <1>1, <2>3, <3>3, <3>4 DEF i
  <2> QED BY <1>2, <2>1, <2>5, <2>6
<1> QED BY <1>3, <1>4, <1>5 DEF Ring

\* A ring of bytes stays in order when the first n are taken.
LEMMA RingEmpties ==
  ASSUME NEW size \in Nat, size > 0, NEW mod \in Nat, mod > 0, NEW buffer,
         NEW head \in 0..size - 1, NEW tail \in 0..size - 1, NEW count \in 0..size,
         NEW written \in 0..mod - 1, NEW read \in 0..mod - 1, NEW n \in 0..count,
         Ring(size, mod, buffer, head, tail, count, written, read)
  PROVE  Ring(size, mod, buffer, (head + n) % size, tail, count - n, written, (read + n) % mod)
<1>1. /\ tail = (head + count) % size
      /\ written = (read + count) % mod
      /\ \A k \in 0..count - 1 : buffer[(head + k) % size] = (read + k) % mod
  BY DEF Ring
<1>2. /\ head \in Int /\ tail \in Int /\ count \in Int /\ written \in Int /\ read \in Int /\ n \in Int
      /\ count - n \in Int /\ head + n \in Int /\ read + n \in Int
      /\ (head + n) + (count - n) = head + count /\ (read + n) + (count - n) = read + count
  OBVIOUS
<1>3. (((head + n) % size) + (count - n)) % size = ((head + n) + (count - n)) % size
  BY <1>2, RemainderAdds
<1>4. (((read + n) % mod) + (count - n)) % mod = ((read + n) + (count - n)) % mod
  BY <1>2, RemainderAdds
<1>5. ASSUME NEW k \in 0..(count - n) - 1
      PROVE  buffer[(((head + n) % size) + k) % size] = (((read + n) % mod) + k) % mod
  <2>1. k \in Int /\ n + k \in 0..count - 1
        /\ (head + n) + k = head + (n + k) /\ (read + n) + k = read + (n + k)
    BY <1>2
  <2>2. (((head + n) % size) + k) % size = ((head + n) + k) % size
    BY <1>2, <2>1, RemainderAdds
  <2>3. (((read + n) % mod) + k) % mod = ((read + n) + k) % mod
    BY <1>2, <2>1, RemainderAdds
  <2> QED BY <1>1, <2>1, <2>2, <2>3
<1> QED BY <1>1, <1>2, <1>3, <1>4, <1>5 DEF Ring

-----------------------------------------------------------------------------
(* Open files.                                                               *)

PipeType ==
  [buffer : [0..PipeSize - 1 -> 0..ByteMod - 1], head : 0..PipeSize - 1,
   tail : 0..PipeSize - 1, count : 0..PipeSize, state : PipeState,
   client : BOOLEAN, server : BOOLEAN]
WordType == [written : 0..ByteMod - 1, read : 0..ByteMod - 1]
RecordId == Directory \union PlainFile
FileType(pipes) == [pipe : {0} \union pipes, record : {0} \union RecordId, offset : Nat]

\* The bytes w that were written and not read are in the buffer of pipe b, in order.
Fifo(b, w) ==
  Ring(PipeSize, ByteMod, b.buffer, b.head, b.tail, b.count, w.written, w.read)

Agrees(b) ==
  b.state = IF b.client THEN "CONNECTED" ELSE IF b.server THEN "LISTENING" ELSE "DISCONNECTED"

\* A pipe that is what it should be.
PipeOk(b, w) == b \in PipeType /\ w \in WordType /\ Fifo(b, w) /\ Agrees(b)

FileKind(type) == {o \in DOMAIN object : object[o].type = type}

FsInv ==
  /\ ObInv /\ NamesUnique
  /\ DOMAIN file = FileKind("file") /\ DOMAIN pipe = FileKind("pipe") /\ DOMAIN bytes = DOMAIN pipe
  /\ \A f \in DOMAIN file : file[f] \in FileType(DOMAIN pipe)
  /\ \A p \in DOMAIN pipe : PipeOk(pipe[p], bytes[p])
  /\ cursor \in [record : RecordId, index : Nat]
  /\ scan \in [file : {0} \union DOMAIN file, entries : Nat]
  /\ ListingIsComplete

\* The invariant of the files says what is promised of them.
LEMMA FsInvPromises == FsInv => FsTypeOK /\ FilesSound
  BY DEF FsInv, FsTypeOK, FilesSound, PipesAreFifo, PipeStatesAgree, Fifo, Agrees, PipeOk,
     Ring, PipeType, WordType, FileType, RecordId, FileKind

\* The sizes and the names of records.
LEMMA FsSizes ==
  /\ PipeSize \in Nat /\ PipeSize > 0 /\ ByteMod \in Nat /\ ByteMod > 0
  /\ \A r \in RecordId : r # 0 /\ Entries[r] \in Nat
  /\ FsRoot \in RecordId
  BY FsSizesOK DEF RecordId

\* A pipe begins empty and in the state of its ends.
LEMMA NewPipeOk == PipeOk(NewPipe, [written |-> 0, read |-> 0])
<1> DEFINE w == [written |-> 0, read |-> 0]
<1>1. NewPipe \in PipeType /\ w \in WordType /\ Agrees(NewPipe)
  BY FsSizes DEF NewPipe, PipeType, WordType, Agrees, PipeState
<1>2. (0 + 0) % PipeSize = 0 /\ (0 + 0) % ByteMod = 0
  BY FsSizes, NearRemainder
<1>3. Fifo(NewPipe, w)
  BY <1>2 DEF Fifo, Ring, NewPipe
<1> QED BY <1>1, <1>3 DEF PipeOk

\* What a server or a client that comes changes is the state, as it should.
LEMMA PipeComes ==
  ASSUME NEW b, NEW w, PipeOk(b, w)
  PROVE  /\ PipeOk(ServerWaits(b), w)
         /\ PipeOk(ClientComes(b), w)
<1>1. b \in PipeType
  BY DEF PipeOk
<1>2. ServerWaits(b) \in PipeType /\ Agrees(ServerWaits(b)) /\ Fifo(ServerWaits(b), w)
  BY <1>1 DEF PipeOk, ServerWaits, PipeType, PipeState, Agrees, Fifo
<1>3. ClientComes(b) \in PipeType /\ Agrees(ClientComes(b)) /\ Fifo(ClientComes(b), w)
  BY <1>1 DEF PipeOk, ClientComes, PipeType, PipeState, Agrees, Fifo
<1> QED BY <1>2, <1>3 DEF PipeOk

\* A write puts as many bytes as fit behind those that are there.
LEMMA WriteKept ==
  ASSUME NEW b, NEW w, PipeOk(b, w), NEW n \in 0..PipeSize - b.count
  PROVE  PipeOk(Filled(b, w.written, n), [w EXCEPT !.written = (@ + n) % ByteMod])
<1> DEFINE c == Filled(b, w.written, n)
           buffer == [i \in 0..PipeSize - 1 |-> LET k == (i - b.tail) % PipeSize
                        IN IF k < n THEN (w.written + k) % ByteMod ELSE b.buffer[i]]
           v == [w EXCEPT !.written = (@ + n) % ByteMod]
<1>1. b \in PipeType /\ w \in WordType
  BY DEF PipeOk
<1>2. /\ b.head \in 0..PipeSize - 1 /\ b.tail \in 0..PipeSize - 1 /\ b.count \in 0..PipeSize
      /\ b.buffer \in [0..PipeSize - 1 -> 0..ByteMod - 1]
      /\ w.written \in 0..ByteMod - 1 /\ w.read \in 0..ByteMod - 1
  BY <1>1 DEF PipeType, WordType
<1>3. b.count + n \in 0..PipeSize /\ b.tail + n \in Int /\ w.written + n \in Int
  <2>1. PipeSize \in Nat /\ ByteMod \in Nat
    BY FsSizes
  <2>2. b.count \in 0..PipeSize /\ n \in 0..PipeSize - b.count
    BY <1>2
  <2>3. b.count + n \in 0..PipeSize
    BY ONLY <2>1, <2>2
  <2>4. b.tail \in Int /\ w.written \in Int /\ n \in Int
    <3>1. b.tail \in 0..PipeSize - 1 /\ w.written \in 0..ByteMod - 1
      BY <1>2
    <3>2. b.count \in Int
      BY ONLY <2>1, <2>2
    <3> QED BY ONLY <2>1, <2>2, <3>1, <3>2
  <2> QED BY ONLY <2>3, <2>4
<1>4. (b.tail + n) % PipeSize \in 0..PipeSize - 1 /\ (w.written + n) % ByteMod \in 0..ByteMod - 1
  BY <1>3, FsSizes, Quotient
<1>5. \A i \in 0..PipeSize - 1 :
        buffer[i] = IF (i - b.tail) % PipeSize < n
                    THEN (w.written + ((i - b.tail) % PipeSize)) % ByteMod ELSE b.buffer[i]
  OBVIOUS
<1>6. buffer \in [0..PipeSize - 1 -> 0..ByteMod - 1]
  <2>1. ASSUME NEW i \in 0..PipeSize - 1 PROVE buffer[i] \in 0..ByteMod - 1
    <3>1. i - b.tail \in Int
      BY <1>2, FsSizes
    <3>2. (i - b.tail) % PipeSize \in 0..PipeSize - 1
      BY <3>1, FsSizes, Quotient
    <3>3. w.written + ((i - b.tail) % PipeSize) \in Int
      BY <1>2, <3>2, FsSizes
    <3>4. (w.written + ((i - b.tail) % PipeSize)) % ByteMod \in 0..ByteMod - 1
      BY <3>3, FsSizes, Quotient
    <3> QED BY <1>2, <1>5, <3>4
  <2> QED BY <2>1
<1> HIDE DEF buffer
<1>13. c = [b EXCEPT !.buffer = buffer, !.tail = (@ + n) % PipeSize, !.count = @ + n]
  BY DEF Filled, buffer
<1> HIDE DEF c
<1>7. c \in PipeType /\ v \in WordType
  <2> DEFINE d == [b EXCEPT !.buffer = buffer, !.tail = (@ + n) % PipeSize, !.count = @ + n]
  <2>1. d \in PipeType /\ v \in WordType
    BY <1>1, <1>2, <1>3, <1>4, <1>6 DEF PipeType, WordType
  <2> QED BY <1>13, <2>1
<1>8. /\ c.head = b.head /\ c.tail = (b.tail + n) % PipeSize /\ c.count = b.count + n
      /\ c.buffer = buffer /\ c.state = b.state /\ c.client = b.client /\ c.server = b.server
      /\ v.read = w.read /\ v.written = (w.written + n) % ByteMod
  BY <1>1, <1>13 DEF PipeType, WordType
<1> HIDE DEF c, v
<1>9. Ring(PipeSize, ByteMod, b.buffer, b.head, b.tail, b.count, w.written, w.read)
  BY DEF PipeOk, Fifo
<1>10. Ring(PipeSize, ByteMod, buffer, b.head, (b.tail + n) % PipeSize, b.count + n,
            (w.written + n) % ByteMod, w.read)
  BY <1>2, <1>5, <1>9, FsSizes, RingFills
<1>11. Fifo(c, v)
  BY <1>8, <1>10 DEF Fifo
<1>12. Agrees(c)
  BY <1>8 DEF Agrees, PipeOk
<1> QED BY <1>7, <1>11, <1>12 DEF PipeOk, c, v

\* A read takes the first bytes.
LEMMA ReadKept ==
  ASSUME NEW b, NEW w, PipeOk(b, w), NEW n \in 0..b.count
  PROVE  PipeOk(Drained(b, n), [w EXCEPT !.read = (@ + n) % ByteMod])
<1> DEFINE c == Drained(b, n)
           v == [w EXCEPT !.read = (@ + n) % ByteMod]
<1>1. b \in PipeType /\ w \in WordType
  BY DEF PipeOk
<1>2. /\ b.head \in 0..PipeSize - 1 /\ b.tail \in 0..PipeSize - 1 /\ b.count \in 0..PipeSize
      /\ b.buffer \in [0..PipeSize - 1 -> 0..ByteMod - 1]
      /\ w.written \in 0..ByteMod - 1 /\ w.read \in 0..ByteMod - 1
  BY <1>1 DEF PipeType, WordType
<1>3. b.count - n \in 0..PipeSize /\ b.head + n \in Int /\ w.read + n \in Int
  <2>1. PipeSize \in Nat /\ ByteMod \in Nat
    BY FsSizes
  <2>2. b.count \in 0..PipeSize /\ n \in 0..b.count
    BY <1>2
  <2>3. b.count - n \in 0..PipeSize
    BY ONLY <2>1, <2>2
  <2>4. b.head \in Int /\ w.read \in Int /\ n \in Int
    <3>1. b.head \in 0..PipeSize - 1 /\ w.read \in 0..ByteMod - 1
      BY <1>2
    <3>2. b.count \in Int
      BY ONLY <2>1, <2>2
    <3> QED BY ONLY <2>1, <2>2, <3>1, <3>2
  <2> QED BY ONLY <2>3, <2>4
<1>4. (b.head + n) % PipeSize \in 0..PipeSize - 1 /\ (w.read + n) % ByteMod \in 0..ByteMod - 1
  BY <1>3, FsSizes, Quotient
<1>7. c \in PipeType /\ v \in WordType
  BY <1>1, <1>2, <1>3, <1>4 DEF PipeType, WordType, Drained
<1>8. /\ c.tail = b.tail /\ c.head = (b.head + n) % PipeSize /\ c.count = b.count - n
      /\ c.buffer = b.buffer /\ c.state = b.state /\ c.client = b.client /\ c.server = b.server
      /\ v.written = w.written /\ v.read = (w.read + n) % ByteMod
  BY <1>1 DEF PipeType, WordType, Drained
<1> HIDE DEF c, v
<1>9. Ring(PipeSize, ByteMod, b.buffer, b.head, b.tail, b.count, w.written, w.read)
  BY DEF PipeOk, Fifo
<1>10. Ring(PipeSize, ByteMod, b.buffer, (b.head + n) % PipeSize, b.tail, b.count - n,
            w.written, (w.read + n) % ByteMod)
  BY <1>2, <1>9, FsSizes, RingEmpties
<1>11. Fifo(c, v)
  BY <1>8, <1>10 DEF Fifo
<1>12. Agrees(c)
  BY <1>8 DEF Agrees, PipeOk
<1> QED BY <1>7, <1>11, <1>12 DEF PipeOk, c, v

\* The objects stay.
LEMMA ObStays ==
  ASSUME ObInv, UNCHANGED obVars
  PROVE  ObInv' /\ \A type : FileKind(type)' = FileKind(type)
<1>1. object' = object /\ all' = all /\ named' = named /\ slot' = slot
  BY DEF obVars
<1>2. ObTypeOK' /\ HandleCountsExact'
  BY <1>1 DEF ObInv, ObTypeOK, HandleCountsExact
<1> QED BY <1>1, <1>2 DEF ObInv, FileKind

\* The objects of the files stay with their names.
LEMMA ObjectsStay ==
  ASSUME FsInv, UNCHANGED obVars
  PROVE  ObInv' /\ NamesUnique' /\ \A type : FileKind(type)' = FileKind(type)
<1>1. object' = object /\ named' = named
  BY DEF obVars
<1>2. NamesUnique'
  BY <1>1 DEF FsInv, NamesUnique
<1> QED BY <1>2, ObStays DEF FsInv

\* Names stay unique if the name of a new object is not one of them.
LEMMA NamesKept ==
  ASSUME ObInv, NamesUnique, ObInv', NEW news \in Seq(NewHeader), ObjectsMade(news),
         \A i \in DOMAIN named : 1 \in DOMAIN news /\ news[1].name # Unnamed
                                 => object[named[i]].name # news[1].name
  PROVE  NamesUnique'
<1>1. /\ DOMAIN named = 1..Len(named) /\ Len(named) \in Nat
      /\ DOMAIN named' = 1..Len(named') /\ Len(named') \in Nat
      /\ DOMAIN object = 1..Len(object) /\ Len(object) \in Nat
      /\ DOMAIN news = 1..Len(news) /\ Len(news) \in Nat
  BY LenProperties DEF ObInv, ObTypeOK
<1>2. \A i \in 1..Len(named) : named'[i] = named[i] /\ object'[named'[i]].name = object[named[i]].name
  BY <1>1 DEF ObjectsMade, NamesGiven, ObInv
<1>3. \A i \in 1..Len(named') : i > Len(named) =>
        i = Len(named) + 1 /\ object'[named'[i]].name = news[1].name
        /\ 1 \in DOMAIN news /\ news[1].name # Unnamed
  <2> TAKE i \in 1..Len(named')
  <2> HAVE i > Len(named)
  <2>1. i = Len(named) + 1 /\ i \in Len(named) + 1..Len(named')
    BY <1>1 DEF ObjectsMade, NamesGiven
  <2>2. named'[i] = Len(object) + 1 /\ 1 \in DOMAIN news /\ news[1].name # Unnamed
    BY <2>1 DEF ObjectsMade, NamesGiven
  <2>3. object'[Len(object) + 1].name = news[1].name
    BY <1>1, <2>2 DEF ObjectsMade
  <2> QED BY <2>1, <2>2, <2>3
<1>4. ASSUME NEW i \in 1..Len(named'), NEW j \in 1..Len(named'),
             object'[named'[i]].name = object'[named'[j]].name
      PROVE  i = j
  <2>1. CASE i =< Len(named) /\ j =< Len(named)
    <3>1. i \in 1..Len(named) /\ j \in 1..Len(named)
      BY <1>1, <2>1
    <3>2. object[named[i]].name = object[named[j]].name
      BY <1>2, <1>4, <3>1
    <3>3. DOMAIN named = 1..Len(named)
      BY <1>1
    <3> QED BY ONLY NamesUnique, <3>1, <3>2, <3>3 DEF NamesUnique
  <2>2. CASE i =< Len(named) /\ j > Len(named)
    BY <1>1, <1>2, <1>3, <1>4, <2>2
  <2>3. CASE i > Len(named) /\ j =< Len(named)
    BY <1>1, <1>2, <1>3, <1>4, <2>3
  <2>4. CASE i > Len(named) /\ j > Len(named)
    BY <1>3, <2>4
  <2> QED BY <1>1, <2>1, <2>2, <2>3, <2>4
<1> QED BY <1>1, <1>4 DEF NamesUnique

\* A name that is not found is nobody's.
LEMMA NotFound ==
  ASSUME FsInv, NEW name, ObLookupObject(name) = 0
  PROVE  \A i \in DOMAIN named : object[named[i]].name # name
<1> DEFINE hits == {i \in DOMAIN named : object[named[i]].name = name}
<1>1. DOMAIN named = 1..Len(named) /\ Len(named) \in Nat
      /\ \A i \in DOMAIN named : named[i] \in DOMAIN object /\ named[i] # 0
  BY LenProperties DEF FsInv, ObInv, ObTypeOK, ObjectId
<1>2. hits # {} => Min(hits) \in hits
  <2>1. hits \in SUBSET Nat
    BY <1>1
  <2> QED BY <2>1, LeastIn
<1>3. hits = {}
  BY <1>1, <1>2 DEF ObLookupObject
<1> QED BY <1>3

\* A name that is found leads to an object.
LEMMA Found ==
  ASSUME FsInv, NEW name, ObLookupObject(name) # 0
  PROVE  ObLookupObject(name) \in DOMAIN object
<1> DEFINE hits == {i \in DOMAIN named : object[named[i]].name = name}
<1>1. DOMAIN named = 1..Len(named) /\ Len(named) \in Nat
      /\ \A i \in DOMAIN named : named[i] \in DOMAIN object
  BY LenProperties DEF FsInv, ObInv, ObTypeOK, ObjectId
<1>2. hits # {} => Min(hits) \in hits
  <2>1. hits \in SUBSET Nat
    BY <1>1
  <2> QED BY <2>1, LeastIn
<1> QED BY <1>1, <1>2 DEF ObLookupObject

\* A handle of a file leads to an open file, and that to its pipe.
LEMMA FileOpen ==
  ASSUME FsInv, NEW h
  PROVE  /\ Referenced(h, "file") # 0 => Referenced(h, "file") \in DOMAIN file
         /\ PipeOf(h) # 0 => PipeOf(h) \in DOMAIN pipe
<1>1. \A g \in Handle : slot[g] \in 0..Len(object)
  BY DEF FsInv, ObInv, ObTypeOK
<1>2. DOMAIN object = 1..Len(object) /\ Len(object) \in Nat
  BY LenProperties DEF FsInv, ObInv, ObTypeOK
<1>3. Referenced(h, "file") # 0 => Referenced(h, "file") \in DOMAIN file
  BY <1>1, <1>2 DEF Referenced, FsInv, FileKind
<1>4. 0 \notin DOMAIN file
  BY <1>2 DEF FsInv, FileKind
<1> QED BY <1>3 DEF PipeOf, FsInv, FileType

\* A file object that is made.
LEMMA FileMade ==
  ASSUME FsInv, Room > 0, CreateObjects(<<Header("file", Unnamed)>>, 1), NEW body,
         file' = Added(file, Len(object) + 1, body)
  PROVE  /\ ObInv' /\ NamesUnique'
         /\ DOMAIN file' = FileKind("file")' /\ FileKind("pipe")' = FileKind("pipe")
         /\ DOMAIN file' = DOMAIN file \union {Len(object) + 1}
         /\ Len(object) + 1 \notin DOMAIN file
         /\ \A f \in DOMAIN file : file'[f] = file[f]
         /\ file'[Len(object) + 1] = body
<1> DEFINE news == <<Header("file", Unnamed)>>
<1>1. news \in Seq(NewHeader) /\ Len(news) = 1 /\ news[1] = Header("file", Unnamed) /\ DOMAIN news = {1}
  BY DEF NewHeader, ObjectType
<1>2. Len(object) \in Nat /\ MaxObject \in Nat /\ Room >= 1 /\ DOMAIN object = 1..Len(object)
  BY ObSizesOK, LenProperties DEF FsInv, ObInv, ObTypeOK, Room
<1> HIDE DEF news
<1>3. ObInv' /\ ObjectsMade(news)
  <2>1. CreateObjects(news, 1) /\ Len(news) =< Room /\ 1 \in 0..Len(news)
    BY <1>1, <1>2 DEF news
  <2> QED BY <1>1, <2>1, CreateKept DEF FsInv
<1>4. NamesUnique'
  <2>1. news[1].name = Unnamed
    BY <1>1 DEF Header
  <2> QED BY <1>1, <1>3, <2>1, NamesKept DEF FsInv
<1>5. /\ DOMAIN object' = 1..Len(object) + 1
      /\ \A o \in 1..Len(object) : object'[o] = object[o]
      /\ object'[Len(object) + 1].type = "file"
  <2>1. Len(object') = Len(object) + 1 /\ DOMAIN object' = 1..Len(object')
    BY <1>1, <1>3, LenProperties DEF ObjectsMade, ObInv, ObTypeOK
  <2>2. object'[Len(object) + 1].type = news[1].type /\ news[1].type = "file"
    BY <1>1, <1>3 DEF ObjectsMade, Header
  <2> QED BY <1>3, <2>1, <2>2 DEF ObjectsMade
<1>6. FileKind("file")' = FileKind("file") \union {Len(object) + 1} /\ FileKind("pipe")' = FileKind("pipe")
      /\ Len(object) + 1 \notin FileKind("file")
  BY <1>2, <1>5 DEF FileKind
<1>7. DOMAIN file = FileKind("file")
  BY DEF FsInv
<1> QED BY <1>3, <1>4, <1>6, <1>7 DEF Added

\* The directory that is listed is listed on, if its file and the cursor stay.
LEMMA ListingStays ==
  ASSUME FsInv, UNCHANGED <<cursor, scan>>, DOMAIN file \subseteq DOMAIN file',
         \A f \in DOMAIN file : file'[f].record = file[f].record
  PROVE  ListingIsComplete' /\ scan' \in [file : {0} \union DOMAIN file', entries : Nat]
  BY DEF FsInv, ListingIsComplete

\* A pipe that changes as it may.
LEMMA PipeChanges ==
  ASSUME FsInv, NEW p \in DOMAIN pipe, NEW b, NEW w, PipeOk(b, w),
         DOMAIN pipe' = DOMAIN pipe, DOMAIN bytes' = DOMAIN bytes,
         \A q \in DOMAIN pipe : /\ pipe'[q] = IF q = p THEN b ELSE pipe[q]
                                /\ bytes'[q] = IF q = p THEN w ELSE bytes[q]
  PROVE  /\ DOMAIN pipe' = DOMAIN pipe /\ DOMAIN bytes' = DOMAIN pipe'
         /\ \A q \in DOMAIN pipe' : PipeOk(pipe'[q], bytes'[q])
  BY DEF FsInv

\* NtCreateNamedPipe, with as many objects as there is room for.
LEMMA CreatePipeKept == ASSUME FsInv, NEW name \in PipeName, NtCreateNamedPipe(name) PROVE FsInv'
<1> DEFINE made == Min({2, Room})
           p == Len(object) + 1
           f == Len(object) + 2
           news == SubSeq(<<Header("pipe", name), Header("file", Unnamed)>>, 1, made)
           opened == IF made = 2 THEN 2 ELSE 0
<1>1. /\ Room > 0 /\ ObLookupObject(name) = 0 /\ CreateObjects(news, opened)
      /\ pipe' = Added(pipe, p, NewPipe)
      /\ bytes' = Added(bytes, p, [written |-> 0, read |-> 0])
      /\ file' = IF made = 2 THEN Added(file, f, OpenFile(p, 0)) ELSE file
      /\ UNCHANGED <<cursor, scan>>
  BY DEF NtCreateNamedPipe
<1>2. Len(object) \in Nat /\ MaxObject \in Nat /\ Room \in Nat /\ DOMAIN object = 1..Len(object)
  BY <1>1, ObSizesOK, LenProperties DEF FsInv, ObInv, ObTypeOK, Room
<1>3. made = (IF 2 =< Room THEN 2 ELSE Room) /\ made \in 1..2 /\ made =< Room
  BY <1>1, <1>2, LeastOfTwo
<1> HIDE DEF made
<1>4. /\ news \in Seq(NewHeader) /\ Len(news) = made /\ DOMAIN news = 1..made
      /\ news[1] = Header("pipe", name)
      /\ made = 2 => news[2] = Header("file", Unnamed)
  <2> DEFINE two == <<Header("pipe", name), Header("file", Unnamed)>>
  <2>1. two[1] = Header("pipe", name) /\ two[2] = Header("file", Unnamed)
        /\ Header("pipe", name) \in NewHeader /\ Header("file", Unnamed) \in NewHeader
    BY FsSizesOK DEF NewHeader, ObjectType
  <2> HIDE DEF two
  <2>2. \A i \in 1..made : two[i] \in NewHeader
    BY <1>3, <2>1
  <2>3. news = SubSeq(two, 1, made)
    BY DEF two
  <2>4. /\ SubSeq(two, 1, made) \in Seq(NewHeader)
        /\ Len(SubSeq(two, 1, made)) = made
        /\ \A i \in 1..made : SubSeq(two, 1, made)[i] = two[i]
    BY <1>3, <2>2, SubSeqProperties
  <2> HIDE DEF news
  <2> QED BY <1>3, <2>1, <2>3, <2>4, LenProperties
<1> HIDE DEF news
<1>5. ObInv' /\ ObjectsMade(news)
  <2>1. Len(news) = made /\ made \in 1..2 /\ made =< Room /\ opened \in {0, made}
    BY <1>3, <1>4
  <2>2. opened \in 0..Len(news) /\ Len(news) =< Room
    <3> HIDE DEF opened
    <3> QED BY <2>1
  <2> HIDE DEF opened
  <2> QED BY <1>1, <1>4, <2>2, CreateKept DEF FsInv
<1>6. NamesUnique'
  <2>1. news[1].name = name
    BY <1>4 DEF Header
  <2> QED BY <1>1, <1>4, <1>5, <2>1, NotFound, NamesKept DEF FsInv
<1>7. /\ DOMAIN object' = 1..Len(object) + made
      /\ \A o \in 1..Len(object) : object'[o] = object[o]
      /\ object'[p].type = "pipe" /\ (made = 2 => object'[f].type = "file")
  <2>1. Len(object') = Len(object) + made /\ DOMAIN object' = 1..Len(object')
    BY <1>4, <1>5, LenProperties DEF ObjectsMade, ObInv, ObTypeOK
  <2>2. object'[Len(object) + 1].type = news[1].type
        /\ (made = 2 => object'[Len(object) + 2].type = news[2].type)
    BY <1>3, <1>4, <1>5 DEF ObjectsMade
  <2>3. news[1].type = "pipe" /\ (made = 2 => news[2].type = "file")
    BY <1>4 DEF Header
  <2> QED BY <1>5, <2>1, <2>2, <2>3 DEF ObjectsMade
<1>8. /\ FileKind("pipe")' = FileKind("pipe") \union {p}
      /\ FileKind("file")' = FileKind("file") \union (IF made = 2 THEN {f} ELSE {})
      /\ p \notin FileKind("pipe") /\ f \notin FileKind("file")
  BY <1>2, <1>3, <1>7 DEF FileKind
<1> HIDE DEF p, f
<1>9. DOMAIN file = FileKind("file") /\ DOMAIN pipe = FileKind("pipe") /\ DOMAIN bytes = DOMAIN pipe
  BY DEF FsInv
<1>10. /\ DOMAIN pipe' = FileKind("pipe")' /\ DOMAIN bytes' = DOMAIN pipe'
       /\ \A q \in DOMAIN pipe' : PipeOk(pipe'[q], bytes'[q])
  <2>1. pipe' = [x \in DOMAIN pipe \union {p} |-> IF x = p THEN NewPipe ELSE pipe[x]]
        /\ bytes' = [x \in DOMAIN pipe \union {p} |-> IF x = p THEN [written |-> 0, read |-> 0] ELSE bytes[x]]
    BY <1>1, <1>9 DEF Added
  <2>2. \A q \in DOMAIN pipe : PipeOk(pipe[q], bytes[q])
    BY DEF FsInv
  <2> QED BY <1>8, <1>9, <2>1, <2>2, NewPipeOk
<1>11. /\ DOMAIN file' = FileKind("file")' /\ \A g \in DOMAIN file' : file'[g] \in FileType(DOMAIN pipe')
       /\ DOMAIN file \subseteq DOMAIN file'
       /\ \A g \in DOMAIN file : file'[g] = file[g]
  <2>1. \A g \in DOMAIN file : file[g] \in FileType(DOMAIN pipe')
    BY <1>8, <1>9, <1>10 DEF FsInv, FileType
  <2>2. OpenFile(p, 0) \in FileType(DOMAIN pipe')
    BY <1>8, <1>10 DEF FileType, OpenFile
  <2>3. CASE made = 2
    BY <1>1, <1>8, <1>9, <2>1, <2>2, <2>3 DEF Added
  <2>4. CASE made # 2
    BY <1>1, <1>8, <1>9, <2>1, <2>4
  <2> QED BY <2>3, <2>4
<1>12. ListingIsComplete' /\ scan' \in [file : {0} \union DOMAIN file', entries : Nat]
  BY <1>1, <1>11, ListingStays
<1>13. cursor' \in [record : RecordId, index : Nat]
  BY <1>1 DEF FsInv
<1> QED BY <1>5, <1>6, <1>10, <1>11, <1>12, <1>13 DEF FsInv

\* A file that is opened on something else than the volume.
LEMMA OpenKept ==
  ASSUME FsInv, Room > 0, CreateObjects(<<Header("file", Unnamed)>>, 1), NEW p \in {0} \union DOMAIN pipe,
         file' = Added(file, Len(object) + 1, OpenFile(p, 0)),
         DOMAIN pipe' = DOMAIN pipe, DOMAIN bytes' = DOMAIN pipe',
         \A q \in DOMAIN pipe' : PipeOk(pipe'[q], bytes'[q]),
         UNCHANGED <<cursor, scan>>
  PROVE  FsInv'
<1>1. /\ ObInv' /\ NamesUnique'
      /\ DOMAIN file' = FileKind("file")' /\ FileKind("pipe")' = FileKind("pipe")
      /\ DOMAIN file' = DOMAIN file \union {Len(object) + 1}
      /\ \A f \in DOMAIN file : file'[f] = file[f]
      /\ file'[Len(object) + 1] = OpenFile(p, 0)
  BY FileMade
<1>2. OpenFile(p, 0) \in FileType(DOMAIN pipe')
  BY DEF OpenFile, FileType
<1>3. \A f \in DOMAIN file' : file'[f] \in FileType(DOMAIN pipe')
  <2>1. \A f \in DOMAIN file : file[f] \in FileType(DOMAIN pipe')
    BY DEF FsInv
  <2> QED BY <1>1, <1>2, <2>1
<1>4. ListingIsComplete' /\ scan' \in [file : {0} \union DOMAIN file', entries : Nat]
  BY <1>1, ListingStays
<1>5. cursor' \in [record : RecordId, index : Nat] /\ DOMAIN pipe' = FileKind("pipe")'
  BY <1>1 DEF FsInv
<1> QED BY <1>1, <1>3, <1>4, <1>5 DEF FsInv

\* A client that opens a pipe by name.
LEMMA OpenPipeKept == ASSUME FsInv, NEW name, OpenPipe(name) PROVE FsInv'
<1> DEFINE p == ObLookupObject(name)
           c == ClientComes(pipe[p])
<1>1. /\ p # 0 /\ object[p].type = "pipe"
      /\ pipe' = [pipe EXCEPT ![p] = ClientComes(@)]
      /\ UNCHANGED <<bytes, cursor, scan>>
      /\ \/ /\ Room > 0 /\ CreateObjects(<<Header("file", Unnamed)>>, 1)
            /\ file' = Added(file, Len(object) + 1, OpenFile(p, 0))
         \/ UNCHANGED <<obVars, file>>
  BY DEF OpenPipe
<1>2. p \in DOMAIN pipe
  BY <1>1, Found DEF FsInv, FileKind
<1> HIDE DEF p
<1>3. PipeOk(c, bytes[p])
  BY <1>2, PipeComes DEF FsInv
<1>4. /\ DOMAIN pipe' = DOMAIN pipe /\ DOMAIN bytes' = DOMAIN bytes
      /\ \A q \in DOMAIN pipe : /\ pipe'[q] = IF q = p THEN c ELSE pipe[q]
                                /\ bytes'[q] = IF q = p THEN bytes[p] ELSE bytes[q]
  BY <1>1, <1>2 DEF FsInv
<1> HIDE DEF c
<1>5. /\ DOMAIN pipe' = DOMAIN pipe /\ DOMAIN bytes' = DOMAIN pipe'
      /\ \A q \in DOMAIN pipe' : PipeOk(pipe'[q], bytes'[q])
  BY <1>2, <1>3, <1>4, PipeChanges
<1>6. CASE UNCHANGED <<obVars, file>>
  <2>1. ObInv' /\ NamesUnique' /\ FileKind("file")' = FileKind("file") /\ FileKind("pipe")' = FileKind("pipe")
    BY <1>6, ObjectsStay
  <2>2. ListingIsComplete' /\ scan' \in [file : {0} \union DOMAIN file', entries : Nat]
    BY <1>1, <1>6, ListingStays
  <2> QED BY <1>1, <1>5, <1>6, <2>1, <2>2 DEF FsInv
<1>7. CASE /\ Room > 0 /\ CreateObjects(<<Header("file", Unnamed)>>, 1)
           /\ file' = Added(file, Len(object) + 1, OpenFile(p, 0))
  BY <1>1, <1>2, <1>5, <1>7, OpenKept
<1> QED BY <1>1, <1>6, <1>7

\* A step on a pipe that is there.
LEMMA PipeStepKept ==
  ASSUME FsInv, NEW p \in DOMAIN pipe, NEW b, NEW w, PipeOk(b, w),
         DOMAIN pipe' = DOMAIN pipe, DOMAIN bytes' = DOMAIN bytes,
         \A q \in DOMAIN pipe : /\ pipe'[q] = IF q = p THEN b ELSE pipe[q]
                                /\ bytes'[q] = IF q = p THEN w ELSE bytes[q],
         UNCHANGED <<obVars, file, cursor, scan>>
  PROVE  FsInv'
<1>1. /\ DOMAIN pipe' = DOMAIN pipe /\ DOMAIN bytes' = DOMAIN pipe'
      /\ \A q \in DOMAIN pipe' : PipeOk(pipe'[q], bytes'[q])
  BY PipeChanges
<1>2. ObInv' /\ NamesUnique' /\ FileKind("file")' = FileKind("file") /\ FileKind("pipe")' = FileKind("pipe")
  BY ObjectsStay
<1>3. ListingIsComplete' /\ scan' \in [file : {0} \union DOMAIN file', entries : Nat]
  BY ListingStays
<1> QED BY <1>1, <1>2, <1>3 DEF FsInv

\* A server that waits for a client.
LEMMA ConnectKept == ASSUME FsInv, NEW h, NtConnectNamedPipe(h) PROVE FsInv'
<1> DEFINE p == PipeOf(h)
           b == ServerWaits(pipe[p])
<1>1. /\ p # 0 /\ pipe' = [pipe EXCEPT ![p] = b]
      /\ UNCHANGED <<obVars, file, bytes, cursor, scan>>
  BY DEF NtConnectNamedPipe
<1>2. p \in DOMAIN pipe
  BY <1>1, FileOpen
<1> HIDE DEF p
<1>3. PipeOk(b, bytes[p])
  BY <1>2, PipeComes DEF FsInv
<1> HIDE DEF b
<1>4. /\ DOMAIN pipe' = DOMAIN pipe /\ DOMAIN bytes' = DOMAIN bytes
      /\ \A q \in DOMAIN pipe : /\ pipe'[q] = IF q = p THEN b ELSE pipe[q]
                                /\ bytes'[q] = IF q = p THEN bytes[p] ELSE bytes[q]
  BY <1>1, <1>2 DEF FsInv
<1> QED BY <1>1, <1>2, <1>3, <1>4, PipeStepKept

\* A write, of what fits.
LEMMA PipeWriteKept ==
  ASSUME FsInv, NEW h, NEW len \in 1..PipeSize, NtWritePipe(h, len)
  PROVE  FsInv'
<1> DEFINE p == PipeOf(h)
           n == Min({len, PipeSize - pipe[p].count})
           b == Filled(pipe[p], bytes[p].written, n)
           w == [bytes[p] EXCEPT !.written = (@ + n) % ByteMod]
<1>1. /\ p # 0 /\ PipeWrite(p, len) /\ UNCHANGED <<obVars, file, cursor, scan>>
  BY DEF NtWritePipe
<1>2. p \in DOMAIN pipe
  BY <1>1, FileOpen
<1> HIDE DEF p
<1>3. PipeOk(pipe[p], bytes[p])
  BY <1>2 DEF FsInv
<1>4. /\ DOMAIN pipe' = DOMAIN pipe /\ DOMAIN bytes' = DOMAIN bytes
      /\ \A q \in DOMAIN pipe : /\ pipe'[q] = IF q = p THEN b ELSE pipe[q]
                                /\ bytes'[q] = IF q = p THEN w ELSE bytes[q]
  <2>1. pipe' = [pipe EXCEPT ![p] = b] /\ bytes' = [bytes EXCEPT ![p] = w]
    BY <1>1 DEF PipeWrite
  <2>2. DOMAIN bytes = DOMAIN pipe
    BY DEF FsInv
  <2> HIDE DEF b, w
  <2> QED BY <2>1, <2>2
<1>5. n \in 0..PipeSize - pipe[p].count
  <2>1. pipe[p].count \in 0..PipeSize
    BY <1>3 DEF PipeOk, PipeType
  <2>2. PipeSize - pipe[p].count \in Nat /\ len \in Nat
    BY <2>1, FsSizes
  <2> QED BY <2>2, LeastOfTwo
<1> HIDE DEF n
<1>6. PipeOk(b, w)
  BY <1>3, <1>5, WriteKept
<1> HIDE DEF b, w
<1> QED BY <1>1, <1>2, <1>4, <1>6, PipeStepKept

\* A read, of what is there.
LEMMA PipeReadKept ==
  ASSUME FsInv, NEW h, NEW len \in 1..PipeSize, NtReadPipe(h, len)
  PROVE  FsInv'
<1> DEFINE p == PipeOf(h)
           n == Min({len, pipe[p].count})
           b == Drained(pipe[p], n)
           w == [bytes[p] EXCEPT !.read = (@ + n) % ByteMod]
<1>1. /\ p # 0 /\ PipeRead(p, len) /\ UNCHANGED <<obVars, file, cursor, scan>>
  BY DEF NtReadPipe
<1>2. p \in DOMAIN pipe
  BY <1>1, FileOpen
<1> HIDE DEF p
<1>3. PipeOk(pipe[p], bytes[p])
  BY <1>2 DEF FsInv
<1>4. /\ DOMAIN pipe' = DOMAIN pipe /\ DOMAIN bytes' = DOMAIN bytes
      /\ \A q \in DOMAIN pipe : /\ pipe'[q] = IF q = p THEN b ELSE pipe[q]
                                /\ bytes'[q] = IF q = p THEN w ELSE bytes[q]
  <2>1. pipe' = [pipe EXCEPT ![p] = b] /\ bytes' = [bytes EXCEPT ![p] = w]
    BY <1>1 DEF PipeRead
  <2>2. DOMAIN bytes = DOMAIN pipe
    BY DEF FsInv
  <2> HIDE DEF b, w
  <2> QED BY <2>1, <2>2
<1>5. n \in 0..pipe[p].count
  <2>1. pipe[p].count \in Nat /\ len \in Nat
    BY <1>3, FsSizes DEF PipeOk, PipeType
  <2> QED BY <2>1, LeastOfTwo
<1> HIDE DEF n
<1>6. PipeOk(b, w)
  BY <1>3, <1>5, ReadKept
<1> HIDE DEF b, w
<1> QED BY <1>1, <1>2, <1>4, <1>6, PipeStepKept

\* A device that is opened.
LEMMA OpenDeviceKept == ASSUME FsInv, NEW name, OpenDevice(name) PROVE FsInv'
<1>1. /\ Room > 0 /\ CreateObjects(<<Header("file", Unnamed)>>, 1)
      /\ file' = Added(file, Len(object) + 1, OpenFile(0, 0))
      /\ UNCHANGED <<pipe, bytes, cursor, scan>>
  BY DEF OpenDevice
<1>2. /\ DOMAIN pipe' = DOMAIN pipe /\ DOMAIN bytes' = DOMAIN pipe'
      /\ \A q \in DOMAIN pipe' : PipeOk(pipe'[q], bytes'[q])
  BY <1>1 DEF FsInv
<1> QED BY <1>1, <1>2, OpenKept

\* A file or a directory of the volume that is opened moves the cursor there.
LEMMA OpenVolumeKept == ASSUME FsInv, NEW record \in RecordId, OpenVolume(record) PROVE FsInv'
<1> DEFINE f == Len(object) + 1
           body == OpenFile(0, record)
<1>1. /\ Room > 0 /\ CreateObjects(<<Header("file", Unnamed)>>, 1)
      /\ file' = Added(file, f, body)
      /\ cursor' = [record |-> IF record \in Directory THEN record ELSE cursor.record, index |-> 0]
      /\ scan' = IF record \in Directory THEN [file |-> f, entries |-> 0] ELSE Nobody
      /\ UNCHANGED <<pipe, bytes>>
  BY DEF OpenVolume
<1>2. /\ ObInv' /\ NamesUnique'
      /\ DOMAIN file' = FileKind("file")' /\ FileKind("pipe")' = FileKind("pipe")
      /\ DOMAIN file' = DOMAIN file \union {f}
      /\ \A g \in DOMAIN file : file'[g] = file[g]
      /\ file'[f] = body
  <2> HIDE DEF body
  <2> QED BY <1>1, FileMade
<1> HIDE DEF f
<1>3. body \in FileType(DOMAIN pipe') /\ body.record = record
  BY DEF OpenFile, FileType
<1> HIDE DEF body
<1>4. \A g \in DOMAIN file' : file'[g] \in FileType(DOMAIN pipe')
  <2>1. \A g \in DOMAIN file : file[g] \in FileType(DOMAIN pipe')
    BY <1>1 DEF FsInv
  <2> QED BY <1>2, <1>3, <2>1
<1>5. cursor' \in [record : RecordId, index : Nat]
  BY <1>1 DEF FsInv, RecordId
<1>6. ListingIsComplete' /\ scan' \in [file : {0} \union DOMAIN file', entries : Nat]
  <2>1. CASE record \in Directory
    <3>1. cursor' = [record |-> record, index |-> 0] /\ scan' = [file |-> f, entries |-> 0]
      BY <1>1, <2>1
    <3>2. Entries[record] \in Nat
      BY FsSizes
    <3> QED BY <1>2, <1>3, <3>1, <3>2 DEF ListingIsComplete
  <2>2. CASE record \notin Directory
    BY <1>1, <2>2 DEF ListingIsComplete, Nobody
  <2> QED BY <2>1, <2>2
<1>7. /\ DOMAIN pipe' = FileKind("pipe")' /\ DOMAIN bytes' = DOMAIN pipe'
      /\ \A q \in DOMAIN pipe' : PipeOk(pipe'[q], bytes'[q])
  BY <1>1, <1>2 DEF FsInv
<1> QED BY <1>2, <1>4, <1>5, <1>6, <1>7 DEF FsInv

\* A read of the volume.
LEMMA ReadVolumeKept == ASSUME FsInv, NEW h, NtReadVolume(h, 1) PROVE FsInv'
<1> DEFINE f == Referenced(h, "file")
           r == IF f = 0 THEN 0 ELSE file[f].record
<1>1. /\ r \in PlainFile
      /\ file' = [file EXCEPT ![f].offset = Min({@ + 1, Entries[r]})]
      /\ UNCHANGED <<obVars, pipe, bytes, cursor, scan>>
  BY DEF NtReadVolume
<1>2. f # 0 /\ r = file[f].record
  BY <1>1, FsSizesOK
<1>3. f \in DOMAIN file
  BY <1>2, FileOpen
<1> HIDE DEF f
<1>4. file[f] \in FileType(DOMAIN pipe)
  BY <1>3 DEF FsInv
<1>5. Min({file[f].offset + 1, Entries[r]}) \in Nat
  <2>1. file[f].offset + 1 \in Nat /\ Entries[r] \in Nat
    BY <1>1, <1>4, FsSizes DEF FileType, RecordId
  <2> QED BY <2>1, LeastOfTwo
<1> DEFINE body == [file[f] EXCEPT !.offset = Min({@ + 1, Entries[r]})]
<1>6. file' = [file EXCEPT ![f] = body]
  BY <1>1
<1>7. body \in FileType(DOMAIN pipe) /\ body.record = file[f].record
  BY <1>4, <1>5 DEF FileType
<1> HIDE DEF body
<1>8. DOMAIN file' = DOMAIN file /\ \A g \in DOMAIN file : file'[g] = IF g = f THEN body ELSE file[g]
  BY <1>6
<1>9. ObInv' /\ NamesUnique' /\ FileKind("file")' = FileKind("file") /\ FileKind("pipe")' = FileKind("pipe")
  BY <1>1, ObjectsStay
<1>10. ListingIsComplete' /\ scan' \in [file : {0} \union DOMAIN file', entries : Nat]
  <2>1. \A g \in DOMAIN file : file'[g].record = file[g].record
    BY <1>7, <1>8
  <2> QED BY <1>1, <1>8, <2>1, ListingStays
<1>11. \A g \in DOMAIN file' : file'[g] \in FileType(DOMAIN pipe')
  BY <1>1, <1>7, <1>8 DEF FsInv
<1> QED BY <1>1, <1>8, <1>9, <1>10, <1>11 DEF FsInv

\* An entry of a directory that is listed.
LEMMA ListKept == ASSUME FsInv, NEW h, NtQueryDirectoryFile(h) PROVE FsInv'
<1> DEFINE f == Referenced(h, "file")
           r == IF f = 0 THEN 0 ELSE file[f].record
           index == IF cursor.record = r THEN cursor.index ELSE 0
           size == IF r \in Directory THEN Entries[r] ELSE 0
           found == index < size
<1>1. /\ r # 0
      /\ cursor' = [record |-> r, index |-> IF found THEN index + 1 ELSE index]
      /\ scan' = IF scan.file # f THEN Nobody
                 ELSE [file |-> f, entries |-> IF found THEN scan.entries + 1 ELSE scan.entries]
      /\ UNCHANGED <<obVars, file, pipe, bytes>>
  BY DEF NtQueryDirectoryFile
<1>2. f # 0 /\ r = file[f].record
  BY <1>1
<1>3. f \in DOMAIN file
  BY <1>2, FileOpen
<1> HIDE DEF f
<1>4. r \in RecordId
  BY <1>1, <1>2, <1>3 DEF FsInv, FileType
<1> HIDE DEF r
<1>5. cursor.record \in RecordId /\ cursor.index \in Nat /\ scan.entries \in Nat
  BY DEF FsInv
<1>6. index \in Nat /\ size \in Nat /\ size =< Entries[r] /\ Entries[r] \in Nat
  BY <1>4, <1>5, FsSizes
<1>7. cursor' \in [record : RecordId, index : Nat]
  BY <1>1, <1>4, <1>6
<1>8. scan' \in [file : {0} \union DOMAIN file', entries : Nat]
  BY <1>1, <1>3, <1>5 DEF Nobody
<1>9. ListingIsComplete'
  <2>1. CASE scan.file # f
    BY <1>1, <2>1 DEF ListingIsComplete, Nobody
  <2>2. CASE scan.file = f
    <3>1. cursor.record = r /\ cursor.index = scan.entries /\ scan.entries =< Entries[r]
      BY <1>2, <2>2 DEF FsInv, ListingIsComplete
    <3>2. index = scan.entries
      BY <3>1
    <3>3. scan'.file = f /\ scan'.entries = (IF found THEN scan.entries + 1 ELSE scan.entries)
          /\ cursor'.record = r /\ cursor'.index = (IF found THEN index + 1 ELSE index)
      BY <1>1, <2>2
    <3>4. (IF found THEN scan.entries + 1 ELSE scan.entries) =< Entries[r]
      BY <1>5, <1>6, <3>1, <3>2
    <3> HIDE DEF found, index
    <3> QED BY <1>1, <1>2, <3>2, <3>3, <3>4 DEF ListingIsComplete
  <2> QED BY <2>1, <2>2
<1>10. ObInv' /\ NamesUnique' /\ FileKind("file")' = FileKind("file") /\ FileKind("pipe")' = FileKind("pipe")
  BY <1>1, ObjectsStay
<1> QED BY <1>1, <1>7, <1>8, <1>9, <1>10 DEF FsInv

\* A handle of a file that is closed.
LEMMA FsCloseKept == ASSUME FsInv, NEW h, FsClose(h) PROVE FsInv'
<1>1. CloseHandle(h) /\ UNCHANGED fsVars
  BY DEF FsClose
<1>2. /\ ObInv'
      /\ DOMAIN object' = DOMAIN object
      /\ \A o \in DOMAIN object : object'[o].type = object[o].type /\ object'[o].name = object[o].name
      /\ named' = named
  BY <1>1, CloseKept DEF FsInv
<1>3. \A type : FileKind(type)' = FileKind(type)
  BY <1>2 DEF FileKind
<1>4. NamesUnique'
  <2>1. \A i \in DOMAIN named : named[i] \in DOMAIN object
    BY DEF FsInv, ObInv
  <2> QED BY <1>2, <2>1 DEF FsInv, NamesUnique
<1> QED BY <1>1, <1>2, <1>3, <1>4 DEF FsInv, fsVars, ListingIsComplete

\* A step that is not of the files.
LEMMA FsStays == ASSUME FsInv, UNCHANGED <<obVars, fsVars>> PROVE FsInv'
<1>1. ObInv' /\ NamesUnique' /\ \A type : FileKind(type)' = FileKind(type)
  BY ObjectsStay
<1> QED BY <1>1 DEF FsInv, fsVars, ListingIsComplete

\* Every step of the files keeps their invariant.
LEMMA FsStepKept == FsInv /\ [FsNext]_<<obVars, fsVars>> => FsInv'
<1> SUFFICES ASSUME FsInv, [FsNext]_<<obVars, fsVars>> PROVE FsInv'
  OBVIOUS
<1>1. CASE \E name \in PipeName : NtCreateNamedPipe(name) \/ OpenPipe(name)
  BY <1>1, CreatePipeKept, OpenPipeKept
<1>2. CASE \E name \in Device : OpenDevice(name)
  BY <1>2, OpenDeviceKept
<1>3. CASE \E r \in Directory \union PlainFile : OpenVolume(r)
  BY <1>3, OpenVolumeKept DEF RecordId
<1>4. CASE \E h \in Handle : NtConnectNamedPipe(h) \/ NtQueryDirectoryFile(h) \/ FsClose(h)
  BY <1>4, ConnectKept, ListKept, FsCloseKept
<1>5. CASE \E h \in Handle : \E len \in 1..PipeSize : NtWritePipe(h, len) \/ NtReadPipe(h, len)
  BY <1>5, PipeWriteKept, PipeReadKept
<1>6. CASE \E h \in Handle : NtReadVolume(h, 1)
  BY <1>6, ReadVolumeKept
<1>7. CASE UNCHANGED <<obVars, fsVars>>
  BY <1>7, FsStays
<1> QED BY <1>1, <1>2, <1>3, <1>4, <1>5, <1>6, <1>7 DEF FsNext

\* The devices that exist when files are first opened have names of their own.
Devices(devices) ==
  /\ devices \in Seq(ObjectName) /\ Len(devices) =< MaxObject
  /\ \A i, j \in DOMAIN devices : devices[i] = devices[j] => i = j

\* The devices that exist at first.
LEMMA ObjectsAtStart ==
  ASSUME NEW devices, Devices(devices), ObInit(devices)
  PROVE  /\ ObInv /\ NamesUnique
         /\ DOMAIN object = DOMAIN devices /\ \A o \in DOMAIN object : object[o].type = "device"
<1> DEFINE ids == [i \in DOMAIN devices |-> i]
<1>1. /\ Len(devices) \in Nat /\ DOMAIN devices = 1..Len(devices) /\ Len(devices) =< MaxObject
      /\ \A i \in 1..Len(devices) : devices[i] \in ObjectName
      /\ MaxObject \in Nat /\ MaxAll \in Nat /\ MaxNamed \in Nat
  BY LenProperties, ElementOfSeq, ObSizesOK DEF Devices
<1>2. /\ object = [i \in 1..Len(devices) |-> Header("device", devices[i])]
      /\ all = Listed(<<>>, ids, MaxAll) /\ named = Listed(<<>>, ids, MaxNamed)
      /\ slot = [h \in Handle |-> 0]
  BY <1>1 DEF ObInit
<1>3. ids \in Seq(ObjectId) /\ Len(ids) = Len(devices) /\ \A i \in 1..Len(ids) : ids[i] = i
  <2>1. ids \in [1..Len(devices) -> ObjectId]
    BY <1>1 DEF ObjectId
  <2> QED BY <1>1, <2>1
<1> HIDE DEF ids
<1>4. <<>> \in Seq(ObjectId) /\ Len(<<>>) = 0
  BY EmptySeq
<1>5. ASSUME NEW size \in Nat
      PROVE  /\ Listed(<<>>, ids, size) \in Seq(ObjectId) /\ Len(Listed(<<>>, ids, size)) =< size
             /\ DOMAIN Listed(<<>>, ids, size) = 1..Len(Listed(<<>>, ids, size))
             /\ \A i \in DOMAIN Listed(<<>>, ids, size) :
                  Listed(<<>>, ids, size)[i] = i /\ i \in 1..Len(devices)
  <2> DEFINE l == Listed(<<>>, ids, size)
  <2>1. /\ l \in Seq(ObjectId) /\ Len(l) =< size /\ Len(l) =< 0 + Len(ids)
        /\ \A i \in 0 + 1..Len(l) : l[i] = ids[i - 0]
    <3>1. PICK empty : empty = <<>>
      OBVIOUS
    <3>2. empty \in Seq(ObjectId) /\ Len(empty) = 0 /\ Len(empty) =< size
      BY <1>4, <3>1
    <3>3. /\ Listed(empty, ids, size) \in Seq(ObjectId)
          /\ Len(Listed(empty, ids, size)) =< size
          /\ Len(Listed(empty, ids, size)) =< Len(empty) + Len(ids)
          /\ \A i \in Len(empty) + 1..Len(Listed(empty, ids, size)) :
               Listed(empty, ids, size)[i] = ids[i - Len(empty)]
      <4>1. ids \in Seq(ObjectId) /\ empty \in Seq(ObjectId) /\ size \in Nat /\ Len(empty) =< size
        BY <1>3, <3>2
      <4> QED BY ONLY <4>1, ListedKeeps
    <3> QED BY <3>1, <3>2, <3>3
  <2> HIDE DEF l
  <2>2. DOMAIN l = 1..Len(l) /\ Len(l) \in Nat
    BY <2>1, LenProperties
  <2>3. \A i \in 1..Len(l) : l[i] = i /\ i \in 1..Len(devices)
    BY <1>1, <1>3, <2>1, <2>2
  <2> QED BY <2>1, <2>2, <2>3 DEF l
<1>6. /\ all \in Seq(ObjectId) /\ Len(all) =< MaxAll
      /\ named \in Seq(ObjectId) /\ Len(named) =< MaxNamed
      /\ \A i \in DOMAIN named : named[i] = i /\ i \in 1..Len(devices)
  BY <1>1, <1>2, <1>5
<1>7. \A o \in 1..Len(devices) : Header("device", devices[o]) \in HeaderType
  BY <1>1 DEF Header, HeaderType, ObjectType
<1>8. object \in Seq(HeaderType) /\ Len(object) = Len(devices) /\ DOMAIN object = 1..Len(devices)
  <2>1. object \in [1..Len(devices) -> HeaderType]
    BY <1>2, <1>7
  <2> QED BY <1>1, <2>1
<1>9. \A o \in DOMAIN object : /\ object[o].type = "device" /\ object[o].name = devices[o]
                               /\ object[o].refs = 1 /\ object[o].handles = 0
  BY <1>2, <1>8 DEF Header
<1>10. HandleCountsExact
  <2> SUFFICES ASSUME NEW o \in DOMAIN object
               PROVE  LET open == Cardinality({h \in Handle : slot[h] = o})
                      IN object[o].handles = open /\ object[o].refs = 1 + open
    BY DEF HandleCountsExact
  <2>1. {h \in Handle : slot[h] = o} = {}
    BY <1>1, <1>2, <1>8
  <2>2. Cardinality({h \in Handle : slot[h] = o}) = 0
    BY <2>1, FS_EmptySet
  <2> QED BY <1>9, <2>2
<1>11. ObTypeOK
  BY <1>1, <1>2, <1>6, <1>8 DEF ObTypeOK, HeaderType
<1>12. NamesUnique
  BY <1>1, <1>6, <1>8, <1>9 DEF NamesUnique, Devices
<1> QED BY <1>1, <1>6, <1>8, <1>9, <1>10, <1>11, <1>12 DEF ObInv

\* The files begin in their invariant.
LEMMA FsStart ==
  ASSUME NEW devices, Devices(devices), ObInit(devices), FsInit
  PROVE  FsInv
<1>1. /\ ObInv /\ NamesUnique /\ \A o \in DOMAIN object : object[o].type = "device"
  BY ObjectsAtStart
<1>2. FileKind("file") = {} /\ FileKind("pipe") = {}
  BY <1>1 DEF FileKind
<1>3. DOMAIN file = {} /\ DOMAIN pipe = {} /\ DOMAIN bytes = {}
  BY DEF FsInit
<1>4. cursor \in [record : RecordId, index : Nat]
      /\ scan \in [file : {0} \union DOMAIN file, entries : Nat] /\ ListingIsComplete
  BY FsSizes DEF FsInit, Nobody, ListingIsComplete
<1> QED BY <1>1, <1>2, <1>3, <1>4 DEF FsInv

\* Pipes keep every byte in order through short writes and reads and are in the state
\* their ends give them, no two objects of one name can be found, and a listing nothing
\* came between is complete (lpc/pipe.c, ntfs_fs.c, ob/object.c).
THEOREM FilesCorrect ==
  ASSUME NEW devices, Devices(devices)
  PROVE  FsSpec(devices) => [](FsTypeOK /\ FilesSound)
<1>1. ObInit(devices) /\ FsInit => FsInv
  BY FsStart
<1>2. FsInv /\ [FsNext]_<<obVars, fsVars>> => FsInv'
  BY FsStepKept
<1>3. FsInv => FsTypeOK /\ FilesSound
  BY FsInvPromises
<1> QED BY <1>1, <1>2, <1>3, PTL DEF FsSpec

-----------------------------------------------------------------------------
(* The table of client ids.                                                  *)

KindOf == {"process", "thread"}
EntryType == [cid : Nat, kind : KindOf, object : Nat]
InUse(c) == {i \in 1..MaxCid : c.entry[i].cid # 0}

\* The entries that a table holds.
Entered(c) == {c.entry[i] : i \in InUse(c)}

TableOk(c) ==
  /\ c \in [entry : [1..MaxCid -> EntryType], count : Nat]
  /\ \A i \in 1..MaxCid : c.entry[i].cid = 0 => c.entry[i] = FreeEntry
  /\ c.count = Cardinality(InUse(c))
  /\ \A i, j \in InUse(c) : c.entry[i].cid = c.entry[j].cid
                            /\ c.entry[i].kind = c.entry[j].kind => i = j

\* The entries in use are finitely many.
LEMMA InUseFinite ==
  \A c : IsFiniteSet(InUse(c)) /\ Cardinality(InUse(c)) \in Nat
<1>1. MaxCid \in Nat
  BY PsSizesOK
<1>2. \A c : InUse(c) \in SUBSET (1..MaxCid)
  BY DEF InUse
<1> QED BY <1>1, <1>2, SomeUpTo

\* An id is found exactly when one of the entries has it.
LEMMA FoundEntered ==
  ASSUME NEW c, NEW id \in Nat \ {0}, NEW kind
  PROVE  CidFind(c, id, kind) # {} <=> \E e \in Entered(c) : e.cid = id /\ e.kind = kind
BY DEF CidFind, Entered, InUse

\* A new id is entered as long as the table is not full.
LEMMA InsertKept ==
  ASSUME NEW c, TableOk(c), NEW id \in Nat \ {0}, NEW kind \in KindOf, NEW o \in Nat,
         CidFind(c, id, kind) = {}
  PROVE  LET d == CidInsert(c, id, kind, o)
             new == [cid |-> id, kind |-> kind, object |-> o]
         IN /\ TableOk(d) /\ d.count =< c.count + 1
            /\ Entered(d) \subseteq Entered(c) \union {new}
            /\ Entered(c) \subseteq Entered(d)
            /\ c.count < MaxCid => new \in Entered(d)
<1> DEFINE d == CidInsert(c, id, kind, o)
           new == [cid |-> id, kind |-> kind, object |-> o]
           free == {i \in 1..MaxCid : c.entry[i].cid = 0}
           k == Min(free)
<1>1. MaxCid \in Nat /\ c.entry \in [1..MaxCid -> EntryType] /\ c.count \in Nat
  BY PsSizesOK DEF TableOk
<1>2. CASE free = {}
  <2>1. d = c
    BY <1>2 DEF CidInsert
  <2>2. InUse(c) = 1..MaxCid
    BY <1>2 DEF InUse
  <2>3. c.count = MaxCid
    <3>1. Cardinality(1..MaxCid) = MaxCid
      BY <1>1, FS_Interval
    <3> QED BY <2>2, <3>1 DEF TableOk
  <2> HIDE DEF d
  <2> QED BY <1>1, <2>1, <2>3 DEF d
<1>3. CASE free # {}
  <2>1. k \in free
    <3>1. free \in SUBSET Nat
      OBVIOUS
    <3> QED BY <1>3, <3>1, LeastIn
  <2>2. d = [entry |-> [c.entry EXCEPT ![k] = new], count |-> c.count + 1]
    BY <1>3 DEF CidInsert
  <2>3. k \in 1..MaxCid /\ c.entry[k].cid = 0
    BY <2>1
  <2> HIDE DEF d, k, free
  <2>4. new \in EntryType /\ new.cid = id /\ new.kind = kind /\ id # 0
    BY DEF EntryType
  <2> HIDE DEF new
  <2>5. /\ d.count = c.count + 1
        /\ d.entry \in [1..MaxCid -> EntryType]
        /\ \A i \in 1..MaxCid : d.entry[i] = IF i = k THEN new ELSE c.entry[i]
    BY <1>1, <2>2, <2>3, <2>4
  <2>6. InUse(d) = InUse(c) \union {k} /\ k \notin InUse(c)
    BY <2>3, <2>4, <2>5 DEF InUse
  <2>7. Entered(d) = Entered(c) \union {new}
    <3>1. \A i \in InUse(c) : i # k /\ i \in 1..MaxCid /\ d.entry[i] = c.entry[i]
      BY <2>5, <2>6 DEF InUse
    <3>2. d.entry[k] = new
      BY <2>3, <2>5
    <3> QED BY <2>6, <3>1, <3>2 DEF Entered
  <2>8. d.count = Cardinality(InUse(d))
    <3>1. IsFiniteSet(InUse(c))
      BY InUseFinite
    <3>2. Cardinality(InUse(d)) = Cardinality(InUse(c)) + 1
      BY <2>6, <3>1, FS_AddElement
    <3> QED BY <2>5, <3>2 DEF TableOk
  <2>9. \A i \in InUse(c) : ~(c.entry[i].cid = id /\ c.entry[i].kind = kind)
    BY DEF CidFind, InUse
  <2>10. \A i, j \in InUse(d) : d.entry[i].cid = d.entry[j].cid
                                /\ d.entry[i].kind = d.entry[j].kind => i = j
    <3>1. \A i \in InUse(c) : i # k /\ i \in 1..MaxCid /\ d.entry[i] = c.entry[i]
      BY <2>5, <2>6 DEF InUse
    <3>2. d.entry[k] = new
      BY <2>3, <2>5
    <3> QED BY <2>4, <2>6, <2>9, <3>1, <3>2 DEF TableOk
  <2>11. TableOk(d)
    <3>1. d \in [entry : [1..MaxCid -> EntryType], count : Nat]
      BY <1>1, <2>2, <2>5
    <3>2. \A i \in 1..MaxCid : d.entry[i].cid = 0 => d.entry[i] = FreeEntry
      BY <2>4, <2>5 DEF TableOk
    <3> QED BY <2>8, <2>10, <3>1, <3>2 DEF TableOk
  <2> QED BY <2>5, <2>7, <2>11, <1>1 DEF d, new
<1> QED BY <1>2, <1>3

\* The entry of an id is taken from the table and no other.
LEMMA RemoveKept ==
  ASSUME NEW c, TableOk(c), NEW id \in Nat \ {0}, NEW kind \in KindOf
  PROVE  LET d == CidRemove(c, id, kind)
         IN /\ TableOk(d) /\ d.count =< c.count
            /\ Entered(d) = {e \in Entered(c) : ~(e.cid = id /\ e.kind = kind)}
<1> DEFINE d == CidRemove(c, id, kind)
           found == CidFind(c, id, kind)
           k == Min(found)
<1>1. MaxCid \in Nat /\ c.entry \in [1..MaxCid -> EntryType] /\ c.count \in Nat
  BY PsSizesOK DEF TableOk
<1>2. CASE found = {}
  <2>1. d = c
    BY <1>2 DEF CidRemove
  <2>2. \A e \in Entered(c) : ~(e.cid = id /\ e.kind = kind)
    BY <1>2, FoundEntered
  <2> HIDE DEF d, found
  <2> QED BY <1>1, <2>1, <2>2 DEF d
<1>3. CASE found # {}
  <2>1. k \in found
    <3>1. found \in SUBSET Nat
      BY DEF CidFind
    <3> QED BY <1>3, <3>1, LeastIn
  <2>2. d = [entry |-> [c.entry EXCEPT ![k] = FreeEntry],
             count |-> IF c.count > 0 THEN c.count - 1 ELSE 0]
    BY <1>3 DEF CidRemove
  <2>3. k \in InUse(c) /\ k \in 1..MaxCid /\ c.entry[k].cid = id /\ c.entry[k].kind = kind
    BY <2>1 DEF CidFind, InUse
  <2> HIDE DEF d, k, found
  <2>4. FreeEntry \in EntryType /\ FreeEntry.cid = 0
    BY DEF FreeEntry, EntryType, KindOf
  <2>5. /\ d.count = IF c.count > 0 THEN c.count - 1 ELSE 0
        /\ d.entry \in [1..MaxCid -> EntryType]
        /\ \A i \in 1..MaxCid : d.entry[i] = IF i = k THEN FreeEntry ELSE c.entry[i]
    BY <1>1, <2>2, <2>3, <2>4
  <2>6. InUse(d) = InUse(c) \ {k}
    BY <2>3, <2>4, <2>5 DEF InUse
  <2>7. \A i \in InUse(d) : i # k /\ i \in InUse(c) /\ i \in 1..MaxCid /\ d.entry[i] = c.entry[i]
    BY <2>5, <2>6 DEF InUse
  <2>8. Entered(d) = {e \in Entered(c) : ~(e.cid = id /\ e.kind = kind)}
    <3>1. \A i \in InUse(c) : i # k => ~(c.entry[i].cid = id /\ c.entry[i].kind = kind)
      BY <2>3 DEF TableOk
    <3>2. \A i \in InUse(c) : i # k => i \in InUse(d)
      BY <2>6
    <3> QED BY <2>3, <2>7, <3>1, <3>2 DEF Entered
  <2>9. d.count = Cardinality(InUse(d)) /\ d.count \in Nat /\ d.count =< c.count
    <3>1. IsFiniteSet(InUse(c)) /\ Cardinality(InUse(c)) \in Nat
      BY InUseFinite
    <3>2. Cardinality(InUse(d)) = Cardinality(InUse(c)) - 1 /\ Cardinality(InUse(d)) \in Nat
      BY <2>3, <2>6, <3>1, FS_RemoveElement, InUseFinite
    <3>3. c.count = Cardinality(InUse(c))
      BY DEF TableOk
    <3> QED BY <2>5, <3>1, <3>2, <3>3
  <2>10. TableOk(d)
    <3>1. d \in [entry : [1..MaxCid -> EntryType], count : Nat]
      BY <1>1, <2>2, <2>5, <2>9
    <3>2. \A i \in 1..MaxCid : d.entry[i].cid = 0 => d.entry[i] = FreeEntry
      BY <2>5 DEF TableOk
    <3>3. \A i, j \in InUse(d) : d.entry[i].cid = d.entry[j].cid
                                 /\ d.entry[i].kind = d.entry[j].kind => i = j
      BY <2>7 DEF TableOk
    <3> QED BY <2>9, <3>1, <3>2, <3>3 DEF TableOk
  <2> QED BY <2>8, <2>9, <2>10 DEF d
<1> QED BY <1>2, <1>3

-----------------------------------------------------------------------------
(* The records of processes and threads.                                     *)

ProcessType(np, threads) ==
  [pid : 1..np - 1, threads : Nat, active : Nat, terminated : BOOLEAN, main : {0} \union threads]
ThreadType(nt, processes) == [tid : 1..nt - 1, process : processes, terminated : BOOLEAN]

ThreadsOf(T, p) == {t \in DOMAIN T : T[t].process = p}

\* Processes P, threads T and the next ids: every id is given once and the threads of a
\* process are counted.
RecordsOk(P, T, np, nt) ==
  /\ np \in Nat \ {0} /\ nt \in Nat \ {0}
  /\ DOMAIN P \subseteq Nat /\ DOMAIN T \subseteq Nat \ {0} /\ IsFiniteSet(DOMAIN T)
  /\ \A p \in DOMAIN P : P[p] \in ProcessType(np, DOMAIN T)
  /\ \A t \in DOMAIN T : T[t] \in ThreadType(nt, DOMAIN P)
  /\ \A p, q \in DOMAIN P : P[p].pid = P[q].pid => p = q
  /\ \A t, u \in DOMAIN T : T[t].tid = T[u].tid => t = u
  /\ \A p \in DOMAIN P : /\ P[p].threads = Cardinality(ThreadsOf(T, p))
                         /\ P[p].active =< P[p].threads

\* An entry that leads to a live process or thread with its id.
Leads(e, P, T) ==
  IF e.kind = "process"
  THEN e.object \in DOMAIN P /\ P[e.object].pid = e.cid /\ ~P[e.object].terminated
  ELSE e.object \in DOMAIN T /\ T[e.object].tid = e.cid /\ ~T[e.object].terminated

Listing(E, id, kind) == \E e \in E : e.cid = id /\ e.kind = kind

\* The live ones are entered.
AllListed(E, P, T) ==
  /\ \A p \in DOMAIN P : ~P[p].terminated => Listing(E, P[p].pid, "process")
  /\ \A t \in DOMAIN T : ~T[t].terminated => Listing(E, T[t].tid, "thread")

\* The table c beside them.
TablesOk(P, T, np, nt, c) ==
  /\ RecordsOk(P, T, np, nt) /\ TableOk(c)
  /\ c.count =< np + nt - 2
  /\ \A e \in Entered(c) : Leads(e, P, T)
  /\ np + nt - 2 =< MaxCid => AllListed(Entered(c), P, T)

\* What an entry is.
LEMMA EnteredTypes ==
  ASSUME NEW c, TableOk(c), NEW e \in Entered(c)
  PROVE  e \in EntryType /\ e.cid \in Nat \ {0} /\ e.kind \in KindOf
<1>1. PICK i \in 1..MaxCid : e = c.entry[i] /\ c.entry[i].cid # 0
  BY DEF Entered, InUse
<1>2. c.entry \in [1..MaxCid -> EntryType]
  BY DEF TableOk
<1>3. e \in EntryType
  BY <1>1, <1>2
<1> QED BY <1>1, <1>3 DEF EntryType

\* The record of a process that gets a thread.
LEMMA RecordWithThread ==
  ASSUME NEW np, NEW S, NEW x \in ProcessType(np, S), NEW t
  PROVE  /\ WithThread(x, t) \in ProcessType(np, S \union {t})
         /\ WithThread(x, t).pid = x.pid /\ WithThread(x, t).threads = x.threads + 1
         /\ WithThread(x, t).active = x.active + 1
         /\ WithThread(x, t).terminated = x.terminated
<1> DEFINE w == WithThread(x, t)
<1>1. x.pid \in 1..np - 1 /\ x.threads \in Nat /\ x.active \in Nat /\ x.terminated \in BOOLEAN
      /\ x.main \in {0} \union S
  BY DEF ProcessType
<1>2. w.pid = x.pid /\ w.threads = x.threads + 1 /\ w.active = x.active + 1
      /\ w.terminated = x.terminated /\ w.main = IF x.main = 0 THEN t ELSE x.main
  BY DEF WithThread, ProcessType
<1>3. w \in ProcessType(np, S \union {t})
  <2>1. PICK m \in {0} \union S \union {t} : m = IF x.main = 0 THEN t ELSE x.main
    BY <1>1
  <2>4. PICK n \in Nat, k \in Nat : n = x.threads + 1 /\ k = x.active + 1
    BY <1>1
  <2>2. w = [x EXCEPT !.threads = n, !.active = k, !.main = m]
    BY <2>1, <2>4 DEF WithThread
  <2>3. [x EXCEPT !.threads = n, !.active = k, !.main = m] \in ProcessType(np, S \union {t})
    BY <1>1 DEF ProcessType
  <2> QED BY <2>2, <2>3
<1> QED BY <1>2, <1>3

\* The record of a process that is terminated.
LEMMA RecordEnded ==
  ASSUME NEW np, NEW S, NEW x \in ProcessType(np, S)
  PROVE  /\ Ended(x) \in ProcessType(np, S)
         /\ Ended(x).pid = x.pid /\ Ended(x).threads = x.threads
         /\ Ended(x).active =< x.active /\ Ended(x).terminated
<1> DEFINE w == Ended(x)
<1>1. x.pid \in 1..np - 1 /\ x.threads \in Nat /\ x.active \in Nat /\ x.terminated \in BOOLEAN
      /\ x.main \in {0} \union S
  BY DEF ProcessType
<1>2. PICK a \in Nat : a = (IF x.active > 0 THEN x.active - 1 ELSE 0) /\ a =< x.active
  BY <1>1
<1>3. w = [x EXCEPT !.terminated = TRUE, !.active = a]
  BY <1>2 DEF Ended
<1>4. LET v == [x EXCEPT !.terminated = TRUE, !.active = a]
      IN v \in ProcessType(np, S) /\ v.pid = x.pid /\ v.threads = x.threads /\ v.active = a
         /\ v.terminated
  BY <1>1 DEF ProcessType
<1> QED BY <1>2, <1>3, <1>4

\* The next ids and the count of entries are numbers.
LEMMA CountsAre ==
  ASSUME NEW P, NEW T, NEW np, NEW nt, NEW c, TablesOk(P, T, np, nt, c)
  PROVE  np \in Nat \ {0} /\ nt \in Nat \ {0} /\ c.count \in Nat /\ MaxCid \in Nat
BY PsSizesOK DEF TablesOk, RecordsOk, TableOk

\* A new process.
LEMMA ProcessAdded ==
  ASSUME NEW P, NEW T, NEW np, NEW nt, NEW c, TablesOk(P, T, np, nt, c),
         NEW o \in Nat, o \notin DOMAIN P
  PROVE  TablesOk(With(P, o, NewProcess(np)), T, np + 1, nt, CidInsert(c, np, "process", o))
<1> DEFINE Q == With(P, o, NewProcess(np))
           d == CidInsert(c, np, "process", o)
           new == [cid |-> np, kind |-> "process", object |-> o]
<1>1. np \in Nat \ {0} /\ nt \in Nat \ {0} /\ c.count \in Nat /\ MaxCid \in Nat
  BY CountsAre
<1>2. /\ RecordsOk(P, T, np, nt) /\ TableOk(c) /\ c.count =< np + nt - 2
      /\ \A e \in Entered(c) : Leads(e, P, T)
      /\ np + nt - 2 =< MaxCid => AllListed(Entered(c), P, T)
  BY DEF TablesOk
<1>3. DOMAIN Q = DOMAIN P \union {o} /\ Q[o] = NewProcess(np) /\ \A p \in DOMAIN P : Q[p] = P[p]
  BY DEF With
<1>4. \A p \in DOMAIN P : P[p] \in ProcessType(np, DOMAIN T) /\ P[p].pid \in 1..np - 1
  BY <1>2 DEF RecordsOk, ProcessType
<1>5. \A t \in DOMAIN T : T[t] \in ThreadType(nt, DOMAIN P) /\ T[t].process \in DOMAIN P
  BY <1>2 DEF RecordsOk, ThreadType
<1>6. NewProcess(np) \in ProcessType(np + 1, DOMAIN T) /\ NewProcess(np).pid = np
      /\ NewProcess(np).threads = 0 /\ NewProcess(np).active = 0 /\ ~NewProcess(np).terminated
  BY <1>1 DEF NewProcess, ProcessType
<1> HIDE DEF Q
<1>7. RecordsOk(Q, T, np + 1, nt)
  <2>1. np + 1 \in Nat \ {0} /\ nt \in Nat \ {0}
    BY <1>1
  <2>2. DOMAIN Q \subseteq Nat /\ DOMAIN T \subseteq Nat \ {0} /\ IsFiniteSet(DOMAIN T)
    BY <1>2, <1>3 DEF RecordsOk
  <2>3. \A p \in DOMAIN P : P[p] \in ProcessType(np + 1, DOMAIN T)
    BY <1>1, <1>4 DEF ProcessType
  <2>4. \A p \in DOMAIN Q : Q[p] \in ProcessType(np + 1, DOMAIN T)
    BY <1>3, <1>6, <2>3
  <2>5. \A t \in DOMAIN T : T[t] \in ThreadType(nt, DOMAIN Q)
    BY <1>3, <1>5 DEF ThreadType
  <2>6. \A p, q \in DOMAIN Q : Q[p].pid = Q[q].pid => p = q
    <3>1. \A p, q \in DOMAIN P : P[p].pid = P[q].pid => p = q
      BY <1>2 DEF RecordsOk
    <3>2. \A p \in DOMAIN P : P[p].pid # np
      BY <1>1, <1>4
    <3> QED BY <1>3, <1>6, <3>1, <3>2
  <2>7. \A t, u \in DOMAIN T : T[t].tid = T[u].tid => t = u
    BY <1>2 DEF RecordsOk
  <2>8. \A p \in DOMAIN P : /\ P[p].threads = Cardinality(ThreadsOf(T, p))
                            /\ P[p].active =< P[p].threads
    BY <1>2 DEF RecordsOk
  <2>9. Cardinality(ThreadsOf(T, o)) = 0
    <3>1. ThreadsOf(T, o) = {}
      BY <1>5 DEF ThreadsOf
    <3> QED BY <3>1, FS_EmptySet
  <2>10. \A p \in DOMAIN Q : /\ Q[p].threads = Cardinality(ThreadsOf(T, p))
                             /\ Q[p].active =< Q[p].threads
    BY <1>3, <1>6, <2>8, <2>9
  <2> QED BY <2>1, <2>2, <2>4, <2>5, <2>6, <2>7, <2>10 DEF RecordsOk
<1>8. CidFind(c, np, "process") = {}
  <2> SUFFICES ASSUME NEW e \in Entered(c), e.cid = np, e.kind = "process" PROVE FALSE
    BY <1>1, FoundEntered
  <2>1. e.object \in DOMAIN P /\ P[e.object].pid = np
    BY <1>2 DEF Leads
  <2> QED BY <1>1, <1>4, <2>1
<1>9. /\ TableOk(d) /\ d.count =< c.count + 1
      /\ Entered(d) \subseteq Entered(c) \union {new}
      /\ Entered(c) \subseteq Entered(d)
      /\ c.count < MaxCid => new \in Entered(d)
  BY <1>1, <1>2, <1>8, InsertKept DEF KindOf
<1> HIDE DEF d
<1>10. d.count \in Nat
  BY <1>9 DEF TableOk
<1>11. Leads(new, Q, T) /\ new.cid = np /\ new.kind = "process"
  BY <1>3, <1>6 DEF Leads
<1> HIDE DEF new
<1>12. \A e \in Entered(d) : Leads(e, Q, T)
  <2>1. \A e \in Entered(c) : Leads(e, Q, T)
    BY <1>2, <1>3 DEF Leads
  <2> QED BY <1>9, <1>11, <2>1
<1>13. ASSUME np + 1 + nt - 2 =< MaxCid PROVE AllListed(Entered(d), Q, T)
  <2>1. np + nt - 2 =< MaxCid /\ c.count < MaxCid
    BY <1>1, <1>2, <1>13
  <2>2. AllListed(Entered(c), P, T) /\ new \in Entered(d)
    BY <1>2, <1>9, <2>1
  <2>3. Listing(Entered(d), np, "process")
    BY <1>11, <2>2 DEF Listing
  <2> QED BY <1>3, <1>6, <1>9, <2>2, <2>3 DEF AllListed, Listing
<1>14. d.count =< np + 1 + nt - 2
  BY <1>1, <1>2, <1>9, <1>10
<1> QED BY <1>7, <1>9, <1>12, <1>13, <1>14 DEF TablesOk, Q, d

\* A new thread of a process.
LEMMA ThreadAdded ==
  ASSUME NEW P, NEW T, NEW np, NEW nt, NEW c, TablesOk(P, T, np, nt, c),
         NEW p \in DOMAIN P, NEW t \in Nat \ {0}, t \notin DOMAIN T,
         NEW Q, DOMAIN Q = DOMAIN P,
         \A q \in DOMAIN P : Q[q] = IF q = p THEN WithThread(P[p], t) ELSE P[q]
  PROVE  TablesOk(Q, With(T, t, [tid |-> nt, process |-> p, terminated |-> FALSE]),
                  np, nt + 1, CidInsert(c, nt, "thread", t))
<1> DEFINE r == [tid |-> nt, process |-> p, terminated |-> FALSE]
           U == With(T, t, r)
           d == CidInsert(c, nt, "thread", t)
           new == [cid |-> nt, kind |-> "thread", object |-> t]
<1>1. np \in Nat \ {0} /\ nt \in Nat \ {0} /\ c.count \in Nat /\ MaxCid \in Nat
  BY CountsAre
<1>2. /\ RecordsOk(P, T, np, nt) /\ TableOk(c) /\ c.count =< np + nt - 2
      /\ \A e \in Entered(c) : Leads(e, P, T)
      /\ np + nt - 2 =< MaxCid => AllListed(Entered(c), P, T)
  BY DEF TablesOk
<1>3. DOMAIN U = DOMAIN T \union {t} /\ U[t] = r /\ \A u \in DOMAIN T : U[u] = T[u]
  BY DEF With
<1>4. \A q \in DOMAIN P : P[q] \in ProcessType(np, DOMAIN T)
  BY <1>2 DEF RecordsOk
<1>5. \A u \in DOMAIN T : T[u] \in ThreadType(nt, DOMAIN P) /\ T[u].tid \in 1..nt - 1
  BY <1>2 DEF RecordsOk, ThreadType
<1>6. r \in ThreadType(nt + 1, DOMAIN Q) /\ r.tid = nt /\ r.process = p /\ ~r.terminated
  BY <1>1 DEF ThreadType
<1> DEFINE w == WithThread(P[p], t)
<1>7. /\ w \in ProcessType(np, DOMAIN U)
      /\ w.pid = P[p].pid /\ w.threads = P[p].threads + 1 /\ w.active = P[p].active + 1
      /\ w.terminated = P[p].terminated
  <2>1. P[p] \in ProcessType(np, DOMAIN T)
    BY <1>4
  <2>2. w \in ProcessType(np, DOMAIN T \union {t})
    BY <2>1, RecordWithThread
  <2> QED BY <1>3, <2>1, <2>2, RecordWithThread
<1> HIDE DEF w, U, r
<1>8. \A q \in DOMAIN P : /\ Q[q] \in ProcessType(np, DOMAIN U)
                          /\ Q[q].pid = P[q].pid /\ Q[q].terminated = P[q].terminated
  <2>1. \A q \in DOMAIN P : P[q] \in ProcessType(np, DOMAIN U)
    BY <1>3, <1>4 DEF ProcessType
  <2> QED BY <1>7, <2>1 DEF w
<1>9. RecordsOk(Q, U, np, nt + 1)
  <2>1. np \in Nat \ {0} /\ nt + 1 \in Nat \ {0}
    BY <1>1
  <2>2. DOMAIN Q \subseteq Nat /\ DOMAIN U \subseteq Nat \ {0} /\ IsFiniteSet(DOMAIN U)
    BY <1>2, <1>3, FS_AddElement DEF RecordsOk
  <2>3. \A u \in DOMAIN T : T[u] \in ThreadType(nt + 1, DOMAIN Q)
    BY <1>1, <1>5 DEF ThreadType
  <2>4. \A u \in DOMAIN U : U[u] \in ThreadType(nt + 1, DOMAIN Q)
    BY <1>3, <1>6, <2>3
  <2>5. \A q, s \in DOMAIN Q : Q[q].pid = Q[s].pid => q = s
    BY <1>2, <1>8 DEF RecordsOk
  <2>6. \A s, u \in DOMAIN U : U[s].tid = U[u].tid => s = u
    <3>1. \A s, u \in DOMAIN T : T[s].tid = T[u].tid => s = u
      BY <1>2 DEF RecordsOk
    <3>2. \A u \in DOMAIN T : T[u].tid # nt
      BY <1>1, <1>5
    <3> QED BY <1>3, <1>6, <3>1, <3>2
  <2>7. \A q \in DOMAIN P : /\ P[q].threads = Cardinality(ThreadsOf(T, q))
                            /\ P[q].active =< P[q].threads
    BY <1>2 DEF RecordsOk
  <2>8. \A q \in DOMAIN P : P[q].threads \in Nat /\ P[q].active \in Nat
    BY <1>4 DEF ProcessType
  <2>9. Cardinality(ThreadsOf(U, p)) = Cardinality(ThreadsOf(T, p)) + 1
    <3>1. ThreadsOf(U, p) = ThreadsOf(T, p) \union {t} /\ t \notin ThreadsOf(T, p)
      BY <1>3, <1>6 DEF ThreadsOf
    <3>2. ThreadsOf(T, p) \in SUBSET DOMAIN T /\ IsFiniteSet(DOMAIN T)
      BY <1>2 DEF ThreadsOf, RecordsOk
    <3>3. IsFiniteSet(ThreadsOf(T, p))
      BY <3>2, FS_Subset
    <3> QED BY <3>1, <3>3, FS_AddElement
  <2>10. \A q \in DOMAIN P : q # p => ThreadsOf(U, q) = ThreadsOf(T, q)
    BY <1>3, <1>6 DEF ThreadsOf
  <2>11. \A q \in DOMAIN Q : /\ Q[q].threads = Cardinality(ThreadsOf(U, q))
                             /\ Q[q].active =< Q[q].threads
    <3> TAKE q \in DOMAIN Q
    <3>1. CASE q = p
      <4>1. Q[q] = w
        BY <3>1 DEF w
      <4> QED BY <1>7, <2>7, <2>8, <2>9, <3>1, <4>1
    <3>2. CASE q # p
      BY <2>7, <2>10, <3>2
    <3> QED BY <3>1, <3>2
  <2> QED BY <1>8, <2>1, <2>2, <2>4, <2>5, <2>6, <2>11 DEF RecordsOk
<1>10. CidFind(c, nt, "thread") = {}
  <2> SUFFICES ASSUME NEW e \in Entered(c), e.cid = nt, e.kind = "thread" PROVE FALSE
    BY <1>1, FoundEntered
  <2>1. e.object \in DOMAIN T /\ T[e.object].tid = nt
    BY <1>2 DEF Leads
  <2> QED BY <1>1, <1>5, <2>1
<1>11. /\ TableOk(d) /\ d.count =< c.count + 1
       /\ Entered(d) \subseteq Entered(c) \union {new}
       /\ Entered(c) \subseteq Entered(d)
       /\ c.count < MaxCid => new \in Entered(d)
  BY <1>1, <1>2, <1>10, InsertKept DEF KindOf
<1> HIDE DEF d
<1>12. d.count \in Nat
  BY <1>11 DEF TableOk
<1>13. Leads(new, Q, U) /\ new.cid = nt /\ new.kind = "thread"
  BY <1>3, <1>6 DEF Leads
<1> HIDE DEF new
<1>14. \A e \in Entered(d) : Leads(e, Q, U)
  <2>1. \A e \in Entered(c) : Leads(e, Q, U)
    BY <1>2, <1>3, <1>8 DEF Leads
  <2> QED BY <1>11, <1>13, <2>1
<1>15. ASSUME np + (nt + 1) - 2 =< MaxCid PROVE AllListed(Entered(d), Q, U)
  <2>1. np + nt - 2 =< MaxCid /\ c.count < MaxCid
    BY <1>1, <1>2, <1>15
  <2>2. AllListed(Entered(c), P, T) /\ new \in Entered(d)
    BY <1>2, <1>11, <2>1
  <2>3. Listing(Entered(d), nt, "thread")
    BY <1>13, <2>2 DEF Listing
  <2> QED BY <1>3, <1>6, <1>8, <1>11, <2>2, <2>3 DEF AllListed, Listing
<1>16. d.count =< np + (nt + 1) - 2
  BY <1>1, <1>2, <1>11, <1>12
<1> QED BY <1>9, <1>11, <1>14, <1>15, <1>16 DEF TablesOk, U, d, r

\* A process that is terminated, and its main thread, leave the table and nothing else does.
LEMMA TerminateKept ==
  ASSUME TablesOk(process, thread, nextPid, nextTid, cid), NEW p \in DOMAIN process,
         PsTerminateProcess(p)
  PROVE  /\ TablesOk(process', thread', nextPid, nextTid, cid')
         /\ DOMAIN process' = DOMAIN process /\ DOMAIN thread' = DOMAIN thread
         /\ \A q \in DOMAIN process : q # p => process'[q] = process[q]
<1> DEFINE m == process[p].main
           c == IF m = 0 THEN cid ELSE CidRemove(cid, thread[m].tid, "thread")
           np == nextPid
           nt == nextTid
<1>1. /\ process' = [process EXCEPT ![p] = Ended(@)]
      /\ thread' = IF m = 0 THEN thread ELSE [thread EXCEPT ![m].terminated = TRUE]
      /\ cid' = CidRemove(c, process[p].pid, "process")
  BY DEF PsTerminateProcess
<1>2. np \in Nat \ {0} /\ nt \in Nat \ {0} /\ cid.count \in Nat /\ MaxCid \in Nat
  BY CountsAre
<1>3. /\ RecordsOk(process, thread, np, nt) /\ TableOk(cid) /\ cid.count =< np + nt - 2
      /\ \A e \in Entered(cid) : Leads(e, process, thread)
      /\ np + nt - 2 =< MaxCid => AllListed(Entered(cid), process, thread)
  BY DEF TablesOk
<1> HIDE DEF np, nt
<1>4. /\ \A q \in DOMAIN process : process[q] \in ProcessType(np, DOMAIN thread)
      /\ \A t \in DOMAIN thread : thread[t] \in ThreadType(nt, DOMAIN process)
      /\ DOMAIN thread \subseteq Nat \ {0}
  BY <1>3 DEF RecordsOk
<1>5. m \in {0} \union DOMAIN thread /\ process[p].pid \in Nat \ {0}
  BY <1>2, <1>4 DEF ProcessType
<1>6. m # 0 => m \in DOMAIN thread /\ thread[m].tid \in Nat \ {0}
  BY <1>2, <1>4, <1>5 DEF ThreadType
<1> HIDE DEF m
<1> DEFINE w == Ended(process[p])
<1>7. /\ w \in ProcessType(np, DOMAIN thread) /\ w.pid = process[p].pid
      /\ w.threads = process[p].threads /\ w.active =< process[p].active /\ w.terminated
  <2>1. PICK x \in ProcessType(np, DOMAIN thread) : x = process[p]
    BY <1>4
  <2>2. /\ Ended(x) \in ProcessType(np, DOMAIN thread) /\ Ended(x).pid = x.pid
        /\ Ended(x).threads = x.threads /\ Ended(x).active =< x.active
        /\ Ended(x).terminated
    BY ONLY <2>1, RecordEnded
  <2> QED BY ONLY <2>1, <2>2
<1>8. DOMAIN process' = DOMAIN process
      /\ \A q \in DOMAIN process : process'[q] = IF q = p THEN w ELSE process[q]
  BY <1>1
<1> HIDE DEF w
<1>9. /\ DOMAIN thread' = DOMAIN thread
      /\ \A t \in DOMAIN thread : /\ thread'[t] \in ThreadType(nt, DOMAIN process)
                                  /\ thread'[t].tid = thread[t].tid
                                  /\ thread'[t].process = thread[t].process
                                  /\ thread'[t].terminated = (thread[t].terminated \/ t = m)
  <2>1. CASE m = 0
    <3>2. thread' = thread
      BY <1>1, <2>1
    <3>3. \A t \in DOMAIN thread : t # m
      BY <1>4, <2>1
    <3> QED BY <1>4, <3>2, <3>3 DEF ThreadType
  <2>2. CASE m # 0
    <3>1. thread' = [thread EXCEPT ![m].terminated = TRUE] /\ m \in DOMAIN thread
      BY <1>1, <1>6, <2>2
    <3> QED BY <1>4, <3>1 DEF ThreadType
  <2> QED BY <2>1, <2>2
<1>10. RecordsOk(process', thread', np, nt)
  <2>1. np \in Nat \ {0} /\ nt \in Nat \ {0} /\ DOMAIN process' \subseteq Nat
        /\ DOMAIN thread' \subseteq Nat \ {0} /\ IsFiniteSet(DOMAIN thread')
    BY <1>3, <1>8, <1>9 DEF RecordsOk
  <2>2. \A q \in DOMAIN process' : /\ process'[q] \in ProcessType(np, DOMAIN thread')
                                   /\ process'[q].pid = process[q].pid
    BY <1>4, <1>7, <1>8, <1>9
  <2>3. \A q, s \in DOMAIN process' : process'[q].pid = process'[s].pid => q = s
    BY <1>3, <1>8, <2>2 DEF RecordsOk
  <2>4. \A t, u \in DOMAIN thread' : thread'[t].tid = thread'[u].tid => t = u
    BY <1>3, <1>9 DEF RecordsOk
  <2>5. \A q : ThreadsOf(thread', q) = ThreadsOf(thread, q)
    BY <1>9 DEF ThreadsOf
  <2>6. \A q \in DOMAIN process : /\ process[q].threads = Cardinality(ThreadsOf(thread, q))
                                  /\ process[q].active =< process[q].threads
                                  /\ process[q].active \in Nat /\ process[q].threads \in Nat
    BY <1>3, <1>4 DEF RecordsOk, ProcessType
  <2>7. w.active \in Nat
    BY <1>7 DEF ProcessType
  <2>8. \A q \in DOMAIN process' : /\ process'[q].threads = Cardinality(ThreadsOf(thread', q))
                                   /\ process'[q].active =< process'[q].threads
    BY <1>7, <1>8, <2>5, <2>6, <2>7
  <2> QED BY <1>8, <1>9, <2>1, <2>2, <2>3, <2>4, <2>8 DEF RecordsOk
<1>11. /\ TableOk(c) /\ c.count =< cid.count
       /\ Entered(c) = {e \in Entered(cid) : ~(m # 0 /\ e.cid = thread[m].tid /\ e.kind = "thread")}
  <2>1. CASE m = 0
    BY <1>2, <1>3, <2>1
  <2>2. CASE m # 0
    <3>1. c = CidRemove(cid, thread[m].tid, "thread") /\ "thread" \in KindOf
      BY <2>2 DEF KindOf
    <3> HIDE DEF c
    <3> QED BY <1>3, <1>6, <2>2, <3>1, RemoveKept
  <2> QED BY <2>1, <2>2
<1> HIDE DEF c
<1>12. /\ TableOk(cid') /\ cid'.count =< c.count
       /\ Entered(cid') = {e \in Entered(c) : ~(e.cid = process[p].pid /\ e.kind = "process")}
  BY <1>1, <1>5, <1>11, RemoveKept DEF KindOf
<1>13. cid'.count =< np + nt - 2
  <2>1. cid'.count \in Nat /\ c.count \in Nat
    BY <1>11, <1>12 DEF TableOk
  <2> QED BY <1>2, <1>3, <1>11, <1>12, <2>1
<1>14. ASSUME NEW e \in Entered(cid') PROVE Leads(e, process', thread')
  <2>1. /\ e \in Entered(cid) /\ Leads(e, process, thread)
        /\ ~(m # 0 /\ e.cid = thread[m].tid /\ e.kind = "thread")
        /\ ~(e.cid = process[p].pid /\ e.kind = "process")
    BY <1>3, <1>11, <1>12
  <2>2. e.kind \in {"process", "thread"}
    BY <1>3, <2>1, EnteredTypes DEF KindOf
  <2>3. CASE e.kind = "process"
    BY <1>8, <2>1, <2>3 DEF Leads
  <2>4. CASE e.kind = "thread"
    <3>1. e.object \in DOMAIN thread /\ thread[e.object].tid = e.cid /\ ~thread[e.object].terminated
      BY <2>1, <2>4 DEF Leads
    <3>2. e.object # m
      <4>1. e.object # 0
        BY <1>4, <3>1
      <4> QED BY <2>1, <2>4, <3>1, <4>1
    <3> QED BY <1>9, <2>4, <3>1, <3>2 DEF Leads
  <2> QED BY <2>2, <2>3, <2>4
<1>15. ASSUME np + nt - 2 =< MaxCid PROVE AllListed(Entered(cid'), process', thread')
  <2>1. AllListed(Entered(cid), process, thread)
    BY <1>3, <1>15
  <2>2. ASSUME NEW q \in DOMAIN process', ~process'[q].terminated
        PROVE  Listing(Entered(cid'), process'[q].pid, "process")
    <3>1. q # p /\ q \in DOMAIN process /\ process'[q] = process[q]
      BY <1>7, <1>8, <2>2
    <3>2. PICK e \in Entered(cid) : e.cid = process[q].pid /\ e.kind = "process"
      BY <2>1, <2>2, <3>1 DEF AllListed, Listing
    <3>3. process[q].pid # process[p].pid
      BY <1>3, <3>1 DEF RecordsOk
    <3>4. e \in Entered(cid')
      BY <1>11, <1>12, <3>2, <3>3
    <3> QED BY <3>1, <3>2, <3>4 DEF Listing
  <2>3. ASSUME NEW t \in DOMAIN thread', ~thread'[t].terminated
        PROVE  Listing(Entered(cid'), thread'[t].tid, "thread")
    <3>1. t # m /\ t \in DOMAIN thread /\ thread'[t].tid = thread[t].tid /\ ~thread[t].terminated
      BY <1>9, <2>3
    <3>2. PICK e \in Entered(cid) : e.cid = thread[t].tid /\ e.kind = "thread"
      BY <2>1, <3>1 DEF AllListed, Listing
    <3>3. m # 0 => thread[t].tid # thread[m].tid
      BY <1>3, <1>6, <3>1 DEF RecordsOk
    <3>4. e \in Entered(cid')
      BY <1>11, <1>12, <3>2, <3>3
    <3> QED BY <3>1, <3>2, <3>4 DEF Listing
  <2> QED BY <2>2, <2>3 DEF AllListed
<1> QED BY <1>8, <1>9, <1>10, <1>12, <1>13, <1>14, <1>15 DEF TablesOk, np, nt

-----------------------------------------------------------------------------
(* The processes, the programs that run and the waits for threads.            *)

\* A program that runs has a process of its own, alive and without handles.
ProgramsOk ==
  /\ program \in Seq([process : {0} \union DOMAIN process, thread : {0} \union DOMAIN thread])
  /\ \A i \in DOMAIN program : program[i].process # 0 =>
       /\ ~process[program[i].process].terminated
       /\ \A h \in Handle : slot[h] # program[i].process
       /\ \A j \in DOMAIN program : program[j].process = program[i].process => i = j

\* A recorded handle still leads to its thread and is recorded once.
WaitsOk ==
  /\ DOMAIN kthread \subseteq DOMAIN thread /\ \A t \in DOMAIN kthread : kthread[t] \in BOOLEAN
  /\ waiting \in {0} \union DOMAIN kthread
  /\ ring3 \in Seq([h : {0} \union Handle, kt : DOMAIN kthread]) /\ Len(ring3) =< MaxRing3
  /\ ~ClosesThreads => \A i \in DOMAIN ring3 : ring3[i].h # 0 =>
       /\ slot[ring3[i].h] = ring3[i].kt
       /\ \A j \in DOMAIN ring3 : ring3[j].h = ring3[i].h => i = j

PsInv ==
  /\ ObInv
  /\ DOMAIN process = FileKind("process") /\ DOMAIN thread = FileKind("thread")
  /\ TablesOk(process, thread, nextPid, nextTid, cid)
  /\ ProgramsOk
  /\ WaitsOk

\* The sizes, and where processes and threads are.
LEMMA PsFacts ==
  ASSUME PsInv
  PROVE  /\ Len(object) \in Nat /\ DOMAIN object = 1..Len(object)
         /\ DOMAIN process \subseteq 1..Len(object) /\ DOMAIN thread \subseteq 1..Len(object)
         /\ slot \in [Handle -> 0..Len(object)]
         /\ MaxObject \in Nat /\ MaxRing3 \in Nat /\ Room \in Nat
<1>1. Len(object) \in Nat /\ DOMAIN object = 1..Len(object) /\ slot \in [Handle -> 0..Len(object)]
      /\ Len(object) =< MaxObject
  BY LenProperties DEF PsInv, ObInv, ObTypeOK
<1> QED BY <1>1, ObSizesOK, PsSizesOK DEF PsInv, FileKind, Room

\* The invariant of the processes says what is promised of them.
LEMMA PsInvPromises == PsInv => PsTypeOK /\ ObjectTablesSound
<1> SUFFICES ASSUME PsInv PROVE PsTypeOK /\ ObjectTablesSound
  OBVIOUS
<1>1. /\ RecordsOk(process, thread, nextPid, nextTid) /\ TableOk(cid)
      /\ \A e \in Entered(cid) : Leads(e, process, thread)
      /\ nextPid + nextTid - 2 =< MaxCid => AllListed(Entered(cid), process, thread)
  BY DEF PsInv, TablesOk
<1>2. /\ nextPid \in Nat \ {0} /\ nextTid \in Nat \ {0}
      /\ \A p \in DOMAIN process : process[p] \in ProcessType(nextPid, DOMAIN thread)
      /\ \A t \in DOMAIN thread : thread[t] \in ThreadType(nextTid, DOMAIN process)
  BY <1>1 DEF RecordsOk
<1>3. \A i \in InUse(cid) : /\ cid.entry[i] \in EntryType /\ cid.entry[i] \in Entered(cid)
                            /\ Leads(cid.entry[i], process, thread)
  BY <1>1 DEF Entered, InUse, TableOk
<1>4. ClientIdsExact
  <2>1. Used = InUse(cid) /\ cid.count = Cardinality(InUse(cid))
        /\ \A i, j \in InUse(cid) : cid.entry[i].cid = cid.entry[j].cid
                                    /\ cid.entry[i].kind = cid.entry[j].kind => i = j
    BY <1>1 DEF Used, InUse, TableOk
  <2> QED BY <1>3, <2>1 DEF ClientIdsExact, Leads
<1>5. LiveAreListed
  <2> SUFFICES ASSUME nextPid + nextTid - 2 =< MaxCid
               PROVE  /\ \A p \in DOMAIN process :
                           ~process[p].terminated => CidFind(cid, process[p].pid, "process") # {}
                      /\ \A t \in DOMAIN thread :
                           ~thread[t].terminated => CidFind(cid, thread[t].tid, "thread") # {}
    BY DEF LiveAreListed
  <2>1. AllListed(Entered(cid), process, thread)
    BY <1>1
  <2>2. \A p \in DOMAIN process : process[p].pid \in Nat \ {0}
    BY <1>2 DEF ProcessType
  <2>3. \A t \in DOMAIN thread : thread[t].tid \in Nat \ {0}
    BY <1>2 DEF ThreadType
  <2> QED BY <2>1, <2>2, <2>3, FoundEntered DEF AllListed, Listing
<1>6. ProgramsAlive
  BY DEF PsInv, ProgramsOk, ProgramsAlive
<1>7. ThreadsCounted
  BY <1>1 DEF RecordsOk, ThreadsOf, ThreadsCounted
<1>8. WaitsForItsThread
  <2> SUFFICES ASSUME ~ClosesThreads, NEW i \in DOMAIN ring3, ring3[i].h # 0
               PROVE  slot[ring3[i].h] = ring3[i].kt /\ RecordOf(ring3[i].h) = i
    BY DEF WaitsForItsThread
  <2> DEFINE hits == {j \in DOMAIN ring3 : ring3[j].h = ring3[i].h}
  <2>1. hits \in SUBSET Nat /\ i \in hits
    BY DEF PsInv, WaitsOk
  <2>2. Min(hits) \in hits
    BY <2>1, LeastIn
  <2>3. slot[ring3[i].h] = ring3[i].kt /\ \A j \in hits : j = i
    BY DEF PsInv, WaitsOk
  <2> QED BY <2>1, <2>2, <2>3 DEF RecordOf
<1>9. PsTypeOK
  <2>1. cid.entry \in [1..MaxCid -> [cid : Nat, kind : {"process", "thread"}, object : 0..Len(object)]]
    <3> SUFFICES ASSUME NEW i \in 1..MaxCid
                 PROVE  cid.entry[i] \in [cid : Nat, kind : {"process", "thread"}, object : 0..Len(object)]
      BY <1>1 DEF TableOk
    <3>1. cid.entry[i] \in EntryType
      BY <1>1 DEF TableOk
    <3>2. cid.entry[i].object \in 0..Len(object)
      <4>1. CASE cid.entry[i].cid = 0
        BY <1>1, <4>1, PsFacts DEF TableOk, FreeEntry
      <4>2. CASE cid.entry[i].cid # 0
        <5>1. Leads(cid.entry[i], process, thread)
          BY <1>3, <4>2 DEF InUse
        <5> QED BY <5>1, PsFacts DEF Leads
      <4> QED BY <4>1, <4>2
    <3> QED BY <3>1, <3>2 DEF EntryType, KindOf
  <2>2. cid.count \in Nat
    BY <1>1 DEF TableOk
  <2>3. /\ \A p \in DOMAIN process :
             process[p] \in [pid : 1..nextPid - 1, threads : Nat, active : Nat,
                             terminated : BOOLEAN, main : {0} \union DOMAIN thread]
        /\ \A t \in DOMAIN thread :
             thread[t] \in [tid : 1..nextTid - 1, process : DOMAIN process, terminated : BOOLEAN]
    BY <1>2 DEF ProcessType, ThreadType
  <2>4. ProgramsOk /\ WaitsOk /\ DOMAIN process = FileKind("process") /\ DOMAIN thread = FileKind("thread")
    BY DEF PsInv
  <2> QED BY <1>2, <2>1, <2>2, <2>3, <2>4 DEF PsTypeOK, ProgramsOk, WaitsOk, FileKind
<1>10. HandleCountsExact
  BY DEF PsInv, ObInv
<1> QED BY <1>4, <1>5, <1>6, <1>7, <1>8, <1>9, <1>10 DEF ObjectTablesSound

\* The processes begin in their invariant.
LEMMA PsStart == ObInit(<<>>) /\ PsInit => PsInv
<1> SUFFICES ASSUME ObInit(<<>>), PsInit PROVE PsInv
  OBVIOUS
<1>1. PICK devices : devices = <<>>
  OBVIOUS
<1>2. Devices(devices) /\ ObInit(devices)
  BY <1>1, ObSizesOK DEF Devices
<1>3. ObInv /\ DOMAIN object = DOMAIN devices
  BY <1>2, ObjectsAtStart
<1>4. DOMAIN process = {} /\ DOMAIN thread = {} /\ DOMAIN kthread = {}
      /\ FileKind("process") = {} /\ FileKind("thread") = {}
  BY <1>1, <1>3 DEF PsInit, FileKind
<1>5. TableOk(cid) /\ Entered(cid) = {} /\ cid.count = 0
  <2>1. MaxCid \in Nat /\ FreeEntry \in EntryType /\ FreeEntry.cid = 0
    BY PsSizesOK DEF FreeEntry, EntryType, KindOf
  <2>2. cid.entry = [i \in 1..MaxCid |-> FreeEntry] /\ cid.count = 0
        /\ cid \in [entry : [1..MaxCid -> EntryType], count : Nat]
    BY <2>1 DEF PsInit
  <2>3. InUse(cid) = {}
    BY <2>1, <2>2 DEF InUse
  <2>4. Cardinality(InUse(cid)) = 0
    BY <2>3, FS_EmptySet
  <2> QED BY <2>1, <2>2, <2>3, <2>4 DEF TableOk, Entered
<1>6. RecordsOk(process, thread, nextPid, nextTid)
  <2>1. nextPid = 1 /\ nextTid = 1
    BY DEF PsInit
  <2>2. IsFiniteSet(DOMAIN thread)
    BY <1>4, FS_EmptySet
  <2> QED BY <1>4, <2>1, <2>2 DEF RecordsOk
<1>7. TablesOk(process, thread, nextPid, nextTid, cid)
  <2>1. nextPid + nextTid - 2 = 0
    BY DEF PsInit
  <2> QED BY <1>4, <1>5, <1>6, <2>1 DEF TablesOk, AllListed
<1>8. ProgramsOk /\ WaitsOk
  BY <1>4, PsSizesOK DEF PsInit, ProgramsOk, WaitsOk
<1> QED BY <1>3, <1>4, <1>7, <1>8 DEF PsInv

\* The objects of a kind after a creation.
LEMMA KindsMade ==
  ASSUME ObInv, ObInv', NEW news \in Seq(NewHeader), ObjectsMade(news), NEW type
  PROVE  FileKind(type)' = FileKind(type) \union
                                     {Len(object) + i : i \in {j \in DOMAIN news : news[j].type = type}}
<1>1. /\ DOMAIN object = 1..Len(object) /\ Len(object) \in Nat
      /\ DOMAIN object' = 1..Len(object') /\ Len(object') = Len(object) + Len(news)
      /\ DOMAIN news = 1..Len(news) /\ Len(news) \in Nat
  BY LenProperties DEF ObInv, ObTypeOK, ObjectsMade
<1>2. \A o \in 1..Len(object) : object'[o] = object[o]
  BY DEF ObjectsMade
<1>3. \A i \in 1..Len(news) : object'[Len(object) + i].type = news[i].type
  BY DEF ObjectsMade
<1>4. \A o \in DOMAIN object' :
        \/ o \in 1..Len(object)
        \/ o - Len(object) \in 1..Len(news) /\ o = Len(object) + (o - Len(object))
  BY <1>1
<1>5. \A i \in 1..Len(news) : Len(object) + i \in DOMAIN object'
  BY <1>1
<1>6. \A o \in 1..Len(object) : o \in DOMAIN object'
  BY <1>1
<1>7. ASSUME NEW o \in FileKind(type)'
      PROVE  o \in FileKind(type) \union
                                     {Len(object) + i : i \in {j \in DOMAIN news : news[j].type = type}}
  <2>1. o \in DOMAIN object' /\ object'[o].type = type
    BY <1>7 DEF FileKind
  <2>2. CASE o \in 1..Len(object)
    BY <1>1, <1>2, <2>1, <2>2 DEF FileKind
  <2>3. CASE o - Len(object) \in 1..Len(news) /\ o = Len(object) + (o - Len(object))
    <3>1. PICK i \in 1..Len(news) : o = Len(object) + i
      BY <2>3
    <3> QED BY <1>1, <1>3, <2>1, <3>1
  <2> QED BY <1>4, <2>1, <2>2, <2>3
<1>8. FileKind(type) \subseteq FileKind(type)'
  BY <1>1, <1>2, <1>6 DEF FileKind
<1>9. ASSUME NEW i \in DOMAIN news, news[i].type = type PROVE Len(object) + i \in FileKind(type)'
  BY <1>1, <1>3, <1>5, <1>9 DEF FileKind
<1> QED BY <1>7, <1>8, <1>9

\* A handle that a creation gives was free.
LEMMA SlotsGiven ==
  ASSUME ObInv, NEW news \in Seq(NewHeader), NEW opened \in 0..Len(news), Given(news, opened)
  PROVE  \A h \in Handle : \/ slot'[h] = slot[h]
                           \/ opened # 0 /\ slot[h] = 0 /\ slot'[h] = Len(object) + opened
<1>1. slot \in [Handle -> 0..Len(object)]
  BY DEF ObInv, ObTypeOK
<1>2. CASE slot' = slot
  BY <1>2
<1>3. CASE /\ opened # 0 /\ NewHandle # 0
           /\ slot' = [slot EXCEPT ![NewHandle] = Len(object) + opened]
  <2>1. NewHandle \in Handle /\ slot[NewHandle] = 0
    BY <1>3, NewHandleFree DEF ObInv
  <2> HIDE DEF NewHandle
  <2> QED BY <1>1, <1>3, <2>1
<1> QED BY <1>2, <1>3 DEF Given

\* The programs that run lead to processes and threads that exist.
LEMMA ProgramsTyped ==
  ASSUME PsInv
  PROVE  \A i \in DOMAIN program :
           /\ program[i] \in [process : {0} \union DOMAIN process, thread : {0} \union DOMAIN thread]
           /\ program[i].process \in {0} \union DOMAIN process
           /\ program[i].thread \in {0} \union DOMAIN thread
<1>1. program \in Seq([process : {0} \union DOMAIN process, thread : {0} \union DOMAIN thread])
  BY DEF PsInv, ProgramsOk
<1>2. \A i \in DOMAIN program :
        program[i] \in [process : {0} \union DOMAIN process, thread : {0} \union DOMAIN thread]
  BY <1>1, ElementOfSeq, LenProperties
<1> QED BY <1>2

\* The records of ring-3 threads lead to threads that exist.
LEMMA RecordsTyped ==
  ASSUME PsInv
  PROVE  \A i \in DOMAIN ring3 :
           ring3[i].h \in {0} \union Handle /\ ring3[i].kt \in DOMAIN kthread
           /\ ring3[i].kt \in DOMAIN thread
<1>1. ring3 \in Seq([h : {0} \union Handle, kt : DOMAIN kthread])
      /\ DOMAIN kthread \subseteq DOMAIN thread
  BY DEF PsInv, WaitsOk
<1>2. \A i \in DOMAIN ring3 : ring3[i] \in [h : {0} \union Handle, kt : DOMAIN kthread]
  BY <1>1, ElementOfSeq, LenProperties
<1> QED BY <1>1, <1>2

\* The programs that run, if their processes live on and get no handle.
LEMMA ProgramsStay ==
  ASSUME PsInv, program' = program,
         DOMAIN process \subseteq DOMAIN process', DOMAIN thread \subseteq DOMAIN thread',
         \A i \in DOMAIN program : program[i].process # 0 =>
           process'[program[i].process].terminated = process[program[i].process].terminated,
         \A h \in Handle : slot'[h] = slot[h] \/ slot'[h] \notin DOMAIN process
  PROVE  ProgramsOk'
<1>1. ProgramsOk
  BY DEF PsInv
<1>2. \A i \in DOMAIN program : program[i].process \in {0} \union DOMAIN process
                                /\ program[i].thread \in {0} \union DOMAIN thread
  BY ProgramsTyped
<1>3. program' \in Seq([process : {0} \union DOMAIN process', thread : {0} \union DOMAIN thread'])
  <2> DEFINE S == [process : {0} \union DOMAIN process', thread : {0} \union DOMAIN thread']
  <2>1. \A i \in DOMAIN program : program[i] \in S
    BY ProgramsTyped
  <2> HIDE DEF S
  <2>2. /\ DOMAIN program = 1..Len(program) /\ Len(program) \in Nat
        /\ program = [i \in 1..Len(program) |-> program[i]]
    BY <1>1, LenProperties DEF ProgramsOk
  <2>3. program \in [1..Len(program) -> S]
    BY <2>1, <2>2
  <2>4. program \in Seq(S)
    BY <2>2, <2>3
  <2> QED BY <2>4 DEF S
<1>4. ASSUME NEW i \in DOMAIN program', program'[i].process # 0
      PROVE  /\ ~process'[program'[i].process].terminated
             /\ \A h \in Handle : slot'[h] # program'[i].process
             /\ \A j \in DOMAIN program' : program'[j].process = program'[i].process => i = j
  <2>1. program[i].process \in DOMAIN process
    BY <1>2, <1>4
  <2> QED BY <1>1, <1>4, <2>1 DEF ProgramsOk
<1> QED BY <1>3, <1>4 DEF ProgramsOk

\* The records of threads, if the handles of threads stay.
LEMMA WaitsStay ==
  ASSUME PsInv, UNCHANGED <<ring3, kthread, waiting>>, DOMAIN thread \subseteq DOMAIN thread',
         ~ClosesThreads => \A h \in Handle : slot[h] \in DOMAIN thread => slot'[h] = slot[h]
  PROVE  WaitsOk'
<1>1. WaitsOk
  BY DEF PsInv
<1>2. ASSUME ~ClosesThreads, NEW i \in DOMAIN ring3', ring3'[i].h # 0
      PROVE  /\ slot'[ring3'[i].h] = ring3'[i].kt
             /\ \A j \in DOMAIN ring3' : ring3'[j].h = ring3'[i].h => i = j
  <2>1. ring3[i].h \in Handle /\ ring3[i].kt \in DOMAIN thread
    BY <1>2, RecordsTyped
  <2> QED BY <1>1, <1>2, <2>1 DEF WaitsOk
<1> QED BY <1>1, <1>2 DEF WaitsOk

\* NtCreateProcess without an image.
LEMMA NoImageKept == ASSUME PsInv, NtCreateProcessNoImage PROVE PsInv'
<1> DEFINE news == <<Header("process", Unnamed)>>
           o == Len(object) + 1
<1>1. /\ Room > 0 /\ CreateObjects(news, 1)
      /\ process' = With(process, o, NewProcess(nextPid))
      /\ cid' = CidInsert(cid, nextPid, "process", o) /\ nextPid' = nextPid + 1
      /\ thread' = thread /\ nextTid' = nextTid /\ program' = program
      /\ UNCHANGED <<ring3, kthread, waiting>>
  BY DEF NtCreateProcessNoImage
<1>2. /\ Len(object) \in Nat /\ DOMAIN process \subseteq 1..Len(object)
      /\ DOMAIN thread \subseteq 1..Len(object) /\ Room \in Nat
  BY PsFacts
<1>3. /\ news \in Seq(NewHeader) /\ Len(news) = 1 /\ DOMAIN news = {1}
      /\ news[1].type = "process"
  <2>1. Header("process", Unnamed) \in NewHeader
    BY DEF NewHeader, ObjectType
  <2>2. Header("process", Unnamed).type = "process"
    BY DEF Header
  <2> QED BY <2>1, <2>2
<1> HIDE DEF news
<1>4. ObInv /\ ObInv' /\ ObjectsMade(news) /\ Given(news, 1)
  <2>1. Len(news) =< Room /\ 1 \in 0..Len(news)
    BY <1>1, <1>2, <1>3
  <2> QED BY <1>1, <1>3, <2>1, CreateKept DEF PsInv
<1>5. o \in Nat /\ o \notin DOMAIN process
  BY <1>2
<1>6. FileKind("process")' = FileKind("process") \union {o} /\ FileKind("thread")' = FileKind("thread")
  <2>1. {Len(object) + i : i \in {j \in DOMAIN news : news[j].type = "process"}} = {o}
        /\ {Len(object) + i : i \in {j \in DOMAIN news : news[j].type = "thread"}} = {}
    BY <1>3
  <2>2. \A type : FileKind(type)' = FileKind(type) \union
                                     {Len(object) + i : i \in {j \in DOMAIN news : news[j].type = type}}
    BY <1>3, <1>4, KindsMade
  <2> QED BY <2>1, <2>2
<1>7. \A h \in Handle : slot'[h] = slot[h] \/ (slot[h] = 0 /\ slot'[h] = o)
  <2>1. 1 \in 0..Len(news)
    BY <1>3
  <2> QED BY <1>3, <1>4, <2>1, SlotsGiven
<1> HIDE DEF o
<1>8. TablesOk(process', thread', nextPid', nextTid', cid')
  BY <1>1, <1>5, ProcessAdded DEF PsInv
<1>9. DOMAIN process' = DOMAIN process \union {o} /\ \A p \in DOMAIN process : process'[p] = process[p]
  BY <1>1, <1>5 DEF With
<1>10. ProgramsOk'
  <2>1. \A i \in DOMAIN program : program[i].process # 0 => program[i].process \in DOMAIN process
    BY ProgramsTyped
  <2> QED BY <1>1, <1>5, <1>7, <1>9, <2>1, ProgramsStay
<1>11. WaitsOk'
  <2>1. 0 \notin DOMAIN thread
    BY <1>2
  <2> QED BY <1>1, <1>7, <2>1, WaitsStay
<1> QED BY <1>1, <1>4, <1>6, <1>8, <1>9, <1>10, <1>11 DEF PsInv

\* Steps that leave the objects alone and terminate at most the process p, which is not
\* that of a program that still runs.
LEMMA TerminatedKept ==
  ASSUME PsInv, NEW p \in DOMAIN process, PsTerminateProcess(p),
         UNCHANGED <<object, all, named, slot, nextPid, nextTid, program, ring3, kthread, waiting>>,
         \A i \in DOMAIN program : program[i].process # p
  PROVE  PsInv'
<1>1. ObInv' /\ \A type : FileKind(type)' = FileKind(type)
  BY ObStays DEF PsInv, obVars
<1>2. /\ TablesOk(process', thread', nextPid, nextTid, cid')
      /\ DOMAIN process' = DOMAIN process /\ DOMAIN thread' = DOMAIN thread
      /\ \A q \in DOMAIN process : q # p => process'[q] = process[q]
  BY TerminateKept DEF PsInv
<1>3. ProgramsOk'
  <2>1. \A i \in DOMAIN program : program[i].process # 0 => program[i].process \in DOMAIN process
    BY ProgramsTyped
  <2> QED BY <1>2, <2>1, ProgramsStay
<1>4. WaitsOk'
  BY <1>2, WaitsStay
<1> QED BY <1>1, <1>2, <1>3, <1>4 DEF PsInv

\* NtTerminateProcess by handle, which no program that runs has.
LEMMA TerminateByHandleKept == ASSUME PsInv, NEW h, NtTerminateProcess(h) PROVE PsInv'
<1> DEFINE p == Referenced(h, "process")
<1>1. /\ p # 0 /\ PsTerminateProcess(p)
      /\ UNCHANGED <<object, all, named, slot, nextPid, nextTid, program, ring3, kthread, waiting>>
  BY DEF NtTerminateProcess
<1>2. h \in Handle /\ p = slot[h] /\ p \in FileKind("process")
  <2>1. h \in Handle /\ slot[h] # 0 /\ object[slot[h]].type = "process" /\ p = slot[h]
    BY <1>1 DEF Referenced
  <2> QED BY <1>1, <2>1, PsFacts DEF FileKind
<1>3. p \in DOMAIN process /\ \A i \in DOMAIN program : program[i].process # p
  BY <1>1, <1>2 DEF PsInv, ProgramsOk
<1> HIDE DEF p
<1> QED BY <1>1, <1>3, TerminatedKept

\* A program that ends takes its process with it.
LEMMA ExitKept == ASSUME PsInv, ProgramExits PROVE PsInv'
<1> DEFINE n == Len(program)
           p == Current
<1>1. /\ program # <<>> /\ program' = SubSeq(program, 1, n - 1)
      /\ IF p # 0 THEN PsTerminateProcess(p) ELSE UNCHANGED <<process, thread, cid>>
      /\ UNCHANGED <<object, all, named, slot, nextPid, nextTid, ring3, kthread, waiting>>
  BY DEF ProgramExits
<1>2. /\ program \in Seq([process : {0} \union DOMAIN process, thread : {0} \union DOMAIN thread])
      /\ DOMAIN program = 1..n /\ n \in Nat \ {0} /\ n - 1 \in Nat
  BY <1>1, LenProperties, EmptySeq DEF PsInv, ProgramsOk
<1>3. p = program[n].process /\ p \in {0} \union DOMAIN process
  BY <1>1, <1>2, ProgramsTyped DEF Current
<1> HIDE DEF p, n
<1>4. ObInv' /\ \A type : FileKind(type)' = FileKind(type)
  BY <1>1, ObStays DEF PsInv, obVars
<1>5. /\ TablesOk(process', thread', nextPid', nextTid', cid')
      /\ DOMAIN process' = DOMAIN process /\ DOMAIN thread' = DOMAIN thread
      /\ \A q \in DOMAIN process : q # p => process'[q] = process[q]
  <2>1. CASE p = 0
    BY <1>1, <2>1 DEF PsInv
  <2>2. CASE p # 0
    <3>1. p \in DOMAIN process /\ PsTerminateProcess(p) /\ UNCHANGED <<nextPid, nextTid>>
      BY <1>1, <1>3, <2>2
    <3> QED BY <3>1, TerminateKept DEF PsInv
  <2> QED BY <2>1, <2>2
<1>6. /\ program' \in Seq([process : {0} \union DOMAIN process, thread : {0} \union DOMAIN thread])
      /\ DOMAIN program' = 1..n - 1 /\ \A i \in 1..n - 1 : program'[i] = program[i]
  <2> DEFINE S == [process : {0} \union DOMAIN process, thread : {0} \union DOMAIN thread]
  <2>1. \A i \in 1..n - 1 : program[i] \in S
    BY <1>2, ProgramsTyped
  <2> HIDE DEF S
  <2>2. /\ program \in Seq(S) /\ 1 \in 1..Len(program) + 1 /\ n - 1 \in 0..Len(program)
        /\ n - 1 =< Len(program)
    BY <1>2 DEF S, n
  <2> DEFINE q == SubSeq(program, 1, n - 1)
  <2>3. \A i \in 1..n - 1 : program[i] \in S
    BY <2>1
  <2>4. q \in Seq(S) /\ Len(q) = n - 1 /\ \A i \in 1..n - 1 : q[i] = program[i]
    BY <1>2, <2>2, <2>3, SubSeqProperties
  <2>5. program' = q
    BY <1>1
  <2> HIDE DEF q
  <2> QED BY <2>4, <2>5, LenProperties DEF S
<1>7. ProgramsOk'
  <2>1. ASSUME NEW i \in 1..n - 1, program[i].process # 0
        PROVE  /\ program[i].process \in DOMAIN process /\ program[i].process # p
               /\ ~process[program[i].process].terminated
               /\ \A h \in Handle : slot[h] # program[i].process
               /\ \A j \in 1..n - 1 : program[j].process = program[i].process => i = j
    <3>1. i \in DOMAIN program /\ n \in DOMAIN program /\ i # n
      BY <1>2
    <3>2. \A j \in 1..n - 1 : j \in DOMAIN program
      BY <1>2
    <3>3. /\ ~process[program[i].process].terminated
          /\ \A h \in Handle : slot[h] # program[i].process
          /\ \A j \in DOMAIN program : program[j].process = program[i].process => i = j
      BY <2>1, <3>1 DEF PsInv, ProgramsOk
    <3> QED BY <1>3, <2>1, <3>1, <3>2, <3>3, ProgramsTyped
  <2> QED BY <1>1, <1>5, <1>6, <2>1 DEF ProgramsOk
<1>8. WaitsOk'
  BY <1>1, <1>5, WaitsStay
<1> QED BY <1>1, <1>4, <1>5, <1>7, <1>8 DEF PsInv

\* A ring-3 thread that ends, and the wait for one.
LEMMA WaitsKept ==
  ASSUME PsInv, \/ \E t : ThreadExits(t)
                \/ \E h : WaitBegins(h)
                \/ WaitReturns
  PROVE  PsInv'
<1>1. /\ UNCHANGED <<object, all, named, slot, process, thread, nextPid, nextTid, cid, program,
                     ring3>>
      /\ \/ UNCHANGED kthread
         \/ \E t \in DOMAIN kthread : kthread' = [kthread EXCEPT ![t] = FALSE]
      /\ waiting' \in {waiting, 0} \union {ring3[i].kt : i \in DOMAIN ring3}
  <2>1. CASE \E t : ThreadExits(t)
    BY <2>1 DEF ThreadExits
  <2>2. CASE \E h : WaitBegins(h)
    <3>1. PICK h : WaitBegins(h)
      BY <2>2
    <3> DEFINE hits == {i \in DOMAIN ring3 : ring3[i].h = h}
    <3>2. hits # {} /\ RecordOf(h) = Min(hits)
      BY <3>1 DEF WaitBegins, RecordOf
    <3>3. hits \in SUBSET Nat
      <4>1. DOMAIN ring3 \subseteq Nat
        BY LenProperties DEF PsInv, WaitsOk
      <4> QED BY <4>1
    <3>4. RecordOf(h) \in DOMAIN ring3
      BY <3>2, <3>3, LeastIn
    <3> QED BY <3>1, <3>4 DEF WaitBegins
  <2>3. CASE WaitReturns
    BY <2>3 DEF WaitReturns
  <2> QED BY <2>1, <2>2, <2>3
<1>2. ObInv' /\ \A type : FileKind(type)' = FileKind(type)
  BY <1>1, ObStays DEF PsInv, obVars
<1>3. WaitsOk /\ DOMAIN kthread' = DOMAIN kthread /\ \A t \in DOMAIN kthread' : kthread'[t] \in BOOLEAN
  BY <1>1 DEF PsInv, WaitsOk
<1>4. waiting' \in {0} \union DOMAIN kthread'
  BY <1>1, <1>3, RecordsTyped DEF WaitsOk
<1>5. WaitsOk'
  BY <1>1, <1>3, <1>4 DEF WaitsOk
<1>6. ProgramsOk'
  BY <1>1 DEF PsInv, ProgramsOk
<1> QED BY <1>1, <1>2, <1>5, <1>6 DEF PsInv

\* A step that is not of the processes.
LEMMA PsStutters == ASSUME PsInv, UNCHANGED <<obVars, psVars>> PROVE PsInv'
<1>1. ObInv' /\ \A type : FileKind(type)' = FileKind(type)
  BY ObStays DEF PsInv
<1>2. /\ process' = process /\ thread' = thread /\ nextPid' = nextPid /\ nextTid' = nextTid
      /\ cid' = cid /\ program' = program /\ ring3' = ring3 /\ kthread' = kthread
      /\ waiting' = waiting /\ slot' = slot
  BY DEF psVars, obVars
<1> QED BY <1>1, <1>2 DEF PsInv, ProgramsOk, WaitsOk

\* A handle of a process or a thread that is closed.
LEMMA PsCloseKept == ASSUME PsInv, NEW h, PsClose(h) PROVE PsInv'
<1>1. /\ CloseHandle(h) /\ UNCHANGED psVars
      /\ object[slot[h]].type = "process" \/ (object[slot[h]].type = "thread" /\ ClosesThreads)
  BY DEF PsClose
<1>2. /\ ObInv' /\ DOMAIN object' = DOMAIN object
      /\ \A o \in DOMAIN object : object'[o].type = object[o].type
      /\ h \in Handle /\ slot[h] # 0 /\ slot' = [slot EXCEPT ![h] = 0]
  BY <1>1, CloseKept DEF PsInv
<1>3. /\ process' = process /\ thread' = thread /\ nextPid' = nextPid /\ nextTid' = nextTid
      /\ cid' = cid /\ program' = program /\ ring3' = ring3 /\ kthread' = kthread
      /\ waiting' = waiting
  BY <1>1 DEF psVars
<1>4. \A type : FileKind(type)' = FileKind(type)
  BY <1>2 DEF FileKind
<1>5. \A g \in Handle : slot'[g] = IF g = h THEN 0 ELSE slot[g]
  BY <1>2, PsFacts
<1>6. 0 \notin DOMAIN process /\ 0 \notin DOMAIN thread
  BY PsFacts
<1>7. ProgramsOk'
  BY <1>3, <1>5, <1>6, ProgramsStay
<1>8. WaitsOk'
  <2>1. ~ClosesThreads => slot[h] \notin DOMAIN thread
    BY <1>1 DEF PsInv, FileKind
  <2> QED BY <1>3, <1>5, <2>1, WaitsStay
<1> QED BY <1>2, <1>3, <1>4, <1>7, <1>8 DEF PsInv

\* NtCreateThread.
LEMMA CreateThreadKept == ASSUME PsInv, NEW h, NtCreateThread(h) PROVE PsInv'
<1> DEFINE p == IF h = 0 THEN Current ELSE Referenced(h, "process")
           t == Len(object) + 1
           news == <<Header("thread", Unnamed)>>
           r == [tid |-> nextTid, process |-> p, terminated |-> FALSE]
           record == [h |-> NewHandle, kt |-> t]
<1>1. /\ p # 0 /\ Room > 0 /\ CreateObjects(news, 1)
      /\ process' = [process EXCEPT ![p] = WithThread(@, t)]
      /\ thread' = With(thread, t, r)
      /\ cid' = CidInsert(cid, nextTid, "thread", t) /\ nextTid' = nextTid + 1
      /\ nextPid' = nextPid /\ program' = program /\ waiting' = waiting
  BY DEF NtCreateThread
<1>2. \/ /\ kthread' = With(kthread, t, TRUE)
         /\ ring3' = IF Len(ring3) = MaxRing3 THEN ring3 ELSE Append(ring3, record)
      \/ kthread' = kthread /\ ring3' = ring3
  BY DEF NtCreateThread
<1>3. p \in DOMAIN process
  <2>1. CASE h = 0
    <3>1. p = Current
      BY <2>1
    <3> HIDE DEF p
    <3>2. program # <<>> /\ p = program[Len(program)].process
      BY <1>1, <3>1 DEF Current
    <3>3. Len(program) \in DOMAIN program
      BY <3>2, LenProperties, EmptySeq DEF PsInv, ProgramsOk
    <3> QED BY <1>1, <3>2, <3>3, ProgramsTyped
  <2>2. CASE h # 0
    <3>1. p = slot[h] /\ h \in Handle /\ slot[h] # 0 /\ object[slot[h]].type = "process"
      BY <1>1, <2>2 DEF Referenced
    <3> QED BY <3>1, PsFacts DEF PsInv, FileKind
  <2> QED BY <2>1, <2>2
<1>4. /\ Len(object) \in Nat /\ DOMAIN process \subseteq 1..Len(object)
      /\ DOMAIN thread \subseteq 1..Len(object) /\ Room \in Nat /\ MaxRing3 \in Nat
      /\ t \in Nat \ {0} /\ t \notin DOMAIN thread /\ t \notin DOMAIN process
  BY PsFacts
<1> HIDE DEF p
<1>5. news \in Seq(NewHeader) /\ Len(news) = 1 /\ DOMAIN news = {1} /\ news[1].type = "thread"
  <2>1. Header("thread", Unnamed) \in NewHeader
    BY DEF NewHeader, ObjectType
  <2>2. Header("thread", Unnamed).type = "thread"
    BY DEF Header
  <2> QED BY <2>1, <2>2
<1> HIDE DEF news
<1>6. ObInv /\ ObInv' /\ ObjectsMade(news)
  <2>1. Len(news) =< Room /\ 1 \in 0..Len(news)
    BY <1>1, <1>4, <1>5
  <2> QED BY <1>1, <1>5, <2>1, CreateKept DEF PsInv
<1>7. FileKind("thread")' = FileKind("thread") \union {t} /\ FileKind("process")' = FileKind("process")
  <2>1. {Len(object) + i : i \in {j \in DOMAIN news : news[j].type = "thread"}} = {t}
        /\ {Len(object) + i : i \in {j \in DOMAIN news : news[j].type = "process"}} = {}
    BY <1>5
  <2>2. \A type : FileKind(type)' = FileKind(type) \union
                                     {Len(object) + i : i \in {j \in DOMAIN news : news[j].type = type}}
    BY <1>5, <1>6, KindsMade
  <2> QED BY <2>1, <2>2
<1>8. /\ NewHandle = 0 => slot' = slot
      /\ NewHandle # 0 => /\ NewHandle \in Handle /\ slot[NewHandle] = 0
                          /\ \A g \in Handle : slot'[g] = IF g = NewHandle THEN t ELSE slot[g]
  <2>1. slot' = IF NewHandle = 0 THEN slot ELSE [slot EXCEPT ![NewHandle] = t]
    BY <1>1 DEF CreateObjects
  <2>2. NewHandle # 0 => NewHandle \in Handle /\ slot[NewHandle] = 0
    BY NewHandleFree DEF PsInv, ObInv
  <2> HIDE DEF t
  <2> QED BY <2>1, <2>2, PsFacts
<1> HIDE DEF t, r
<1>9. /\ DOMAIN thread' = DOMAIN thread \union {t}
      /\ DOMAIN process' = DOMAIN process
      /\ \A q \in DOMAIN process : process'[q] = IF q = p THEN WithThread(process[p], t) ELSE process[q]
  BY <1>1, <1>3 DEF With
<1>10. TablesOk(process', thread', nextPid', nextTid', cid')
  <2>1. TablesOk(process', With(thread, t, [tid |-> nextTid, process |-> p, terminated |-> FALSE]),
                 nextPid, nextTid + 1, CidInsert(cid, nextTid, "thread", t))
    <3>1. /\ TablesOk(process, thread, nextPid, nextTid, cid) /\ p \in DOMAIN process
          /\ t \in Nat \ {0} /\ t \notin DOMAIN thread /\ DOMAIN process' = DOMAIN process
          /\ \A q \in DOMAIN process : process'[q] = IF q = p THEN WithThread(process[p], t) ELSE process[q]
      BY <1>3, <1>4, <1>9 DEF PsInv
    <3> QED BY ONLY <3>1, ThreadAdded
  <2> QED BY <1>1, <2>1 DEF r
<1>11. ProgramsOk'
  <2>1. \A q \in DOMAIN process : process'[q].terminated = process[q].terminated
    <3>1. \A q \in DOMAIN process : process[q] \in ProcessType(nextPid, DOMAIN thread)
      BY DEF PsInv, TablesOk, RecordsOk
    <3>2. WithThread(process[p], t).terminated = process[p].terminated
      <4>1. PICK x \in ProcessType(nextPid, DOMAIN thread) : x = process[p]
        BY <1>3, <3>1
      <4>2. WithThread(x, t).terminated = x.terminated
        BY <4>1 DEF WithThread, ProcessType
      <4> QED BY <4>1, <4>2
    <3> QED BY <1>9, <3>2
  <2>2. \A i \in DOMAIN program : program[i].process # 0 => program[i].process \in DOMAIN process
    BY ProgramsTyped
  <2>3. \A g \in Handle : slot'[g] = slot[g] \/ slot'[g] \notin DOMAIN process
    BY <1>4, <1>8
  <2> QED BY <1>1, <1>9, <2>1, <2>2, <2>3, ProgramsStay
<1>12. WaitsOk'
  <2>1. WaitsOk /\ DOMAIN ring3 = 1..Len(ring3) /\ Len(ring3) \in Nat
    BY LenProperties DEF PsInv, WaitsOk
  <2>2. \A g \in Handle : slot[g] \in DOMAIN thread => slot'[g] = slot[g]
    BY <1>4, <1>8
  <2>3. CASE kthread' = kthread /\ ring3' = ring3
    BY <1>1, <1>9, <2>2, <2>3, WaitsStay
  <2>4. CASE /\ kthread' = With(kthread, t, TRUE)
             /\ ring3' = IF Len(ring3) = MaxRing3 THEN ring3 ELSE Append(ring3, record)
    <3>1. /\ DOMAIN kthread' = DOMAIN kthread \union {t}
          /\ \A u \in DOMAIN kthread' : kthread'[u] \in BOOLEAN
      BY <2>1, <2>4 DEF With, WaitsOk
    <3>2. DOMAIN kthread' \subseteq DOMAIN thread' /\ waiting' \in {0} \union DOMAIN kthread'
      BY <1>1, <1>9, <2>1, <3>1 DEF WaitsOk
    <3> DEFINE S == [h : {0} \union Handle, kt : DOMAIN kthread']
    <3>3. ring3 \in Seq(S)
      <4>1. \A i \in DOMAIN ring3 : ring3[i] \in S
        <5>1. \A i \in DOMAIN ring3 : ring3[i] \in [h : {0} \union Handle, kt : DOMAIN kthread]
          BY <2>1, ElementOfSeq DEF WaitsOk
        <5> QED BY <3>1, <5>1
      <4> HIDE DEF S
      <4>2. ring3 = [i \in 1..Len(ring3) |-> ring3[i]]
        BY <2>1 DEF WaitsOk
      <4>3. ring3 \in [1..Len(ring3) -> S]
        BY <2>1, <4>1, <4>2
      <4> QED BY <2>1, <4>3
    <3>4. record \in S /\ record.h = NewHandle /\ record.kt = t
      <4>1. NewHandle \in {0} \union Handle
        BY <1>8
      <4> QED BY <3>1, <4>1
    <3> HIDE DEF S, record
    <3>5. \/ ring3' = ring3
          \/ ring3' = Append(ring3, record) /\ Len(ring3) + 1 =< MaxRing3
      <4>1. Len(ring3) =< MaxRing3
        BY <2>1 DEF WaitsOk
      <4>2. Len(ring3) \in Nat /\ MaxRing3 \in Nat
        BY <1>4, <2>1
      <4>3. Len(ring3) # MaxRing3 => Len(ring3) + 1 =< MaxRing3
        BY <4>1, <4>2
      <4>4. ring3' = IF Len(ring3) = MaxRing3 THEN ring3 ELSE Append(ring3, record)
        BY <2>4
      <4> QED BY <4>3, <4>4
    <3>6. /\ ring3' \in Seq(S) /\ Len(ring3') =< MaxRing3
          /\ \A i \in DOMAIN ring3' : \/ i \in DOMAIN ring3 /\ ring3'[i] = ring3[i]
                                      \/ i = Len(ring3) + 1 /\ ring3'[i] = record
      <4>1. CASE ring3' = ring3
        <5>1. Len(ring3) =< MaxRing3
          BY <2>1 DEF WaitsOk
        <5> QED BY <3>3, <4>1, <5>1
      <4>2. CASE ring3' = Append(ring3, record) /\ Len(ring3) + 1 =< MaxRing3
        <5>1. /\ ring3' \in Seq(S) /\ Len(ring3') = Len(ring3) + 1
              /\ \A i \in 1..Len(ring3) : ring3'[i] = ring3[i]
              /\ ring3'[Len(ring3) + 1] = record
          BY <3>3, <3>4, <4>2, AppendProperties
        <5>2. DOMAIN ring3' = 1..Len(ring3) + 1
          BY <5>1, LenProperties
        <5> QED BY <2>1, <4>2, <5>1, <5>2
      <4> QED BY <3>5, <4>1, <4>2
    <3>7. ASSUME ~ClosesThreads, NEW i \in DOMAIN ring3', ring3'[i].h # 0
          PROVE  /\ slot'[ring3'[i].h] = ring3'[i].kt
                 /\ \A j \in DOMAIN ring3' : ring3'[j].h = ring3'[i].h => i = j
      <4>1. \A j \in DOMAIN ring3 : ring3[j].h # 0 =>
              /\ ring3[j].h \in Handle /\ ring3[j].kt \in DOMAIN thread
              /\ slot[ring3[j].h] = ring3[j].kt /\ ring3[j].h # NewHandle
              /\ slot'[ring3[j].h] = ring3[j].kt
        <5> SUFFICES ASSUME NEW j \in DOMAIN ring3, ring3[j].h # 0
                     PROVE  /\ ring3[j].h \in Handle /\ ring3[j].kt \in DOMAIN thread
                            /\ slot[ring3[j].h] = ring3[j].kt /\ ring3[j].h # NewHandle
                            /\ slot'[ring3[j].h] = ring3[j].kt
          OBVIOUS
        <5>1. ring3[j].h \in Handle /\ ring3[j].kt \in DOMAIN thread
          BY RecordsTyped
        <5>2. slot[ring3[j].h] = ring3[j].kt
          BY <2>1, <3>7 DEF WaitsOk
        <5>3. 0 \notin DOMAIN thread
          BY <1>4
        <5> QED BY <1>8, <2>2, <5>1, <5>2, <5>3
      <4>2. \A j, k \in DOMAIN ring3 : ring3[j].h # 0 /\ ring3[k].h = ring3[j].h => j = k
        BY <2>1, <3>7 DEF WaitsOk
      <4>3. CASE i \in DOMAIN ring3 /\ ring3'[i] = ring3[i]
        BY <3>4, <3>6, <3>7, <4>1, <4>2, <4>3
      <4>4. CASE i = Len(ring3) + 1 /\ ring3'[i] = record
        <5>1. NewHandle # 0
          BY <3>4, <3>7, <4>4
        <5>2. slot'[NewHandle] = t
          BY <1>8, <5>1
        <5>3. \A j \in DOMAIN ring3' : ring3'[j].h = NewHandle => j = i
          BY <3>6, <4>1, <4>4, <5>1
        <5> QED BY <3>4, <4>4, <5>2, <5>3
      <4> QED BY <3>6, <4>3, <4>4
    <3> QED BY <3>1, <3>2, <3>6, <3>7 DEF WaitsOk, S
  <2> QED BY <1>2, <2>3, <2>4
<1> QED BY <1>6, <1>7, <1>9, <1>10, <1>11, <1>12 DEF PsInv

\* A process object as NtCreateProcess makes it.
LEMMA ShellAdded ==
  ASSUME PsInv, NEW shell \in BOOLEAN
  PROVE  LET o == Len(object) + 1
             P == IF shell THEN With(process, o, NewProcess(nextPid)) ELSE process
             np == IF shell THEN nextPid + 1 ELSE nextPid
             c == IF shell THEN CidInsert(cid, nextPid, "process", o) ELSE cid
         IN /\ TablesOk(P, thread, np, nextTid, c)
            /\ DOMAIN P = DOMAIN process \union (IF shell THEN {o} ELSE {})
            /\ \A p \in DOMAIN process : P[p] = process[p]
<1> DEFINE o == Len(object) + 1
<1>1. o \in Nat /\ o \notin DOMAIN process
  BY PsFacts
<1> HIDE DEF o
<1>2. TablesOk(process, thread, nextPid, nextTid, cid)
  BY DEF PsInv
<1>3. TablesOk(With(process, o, NewProcess(nextPid)), thread, nextPid + 1, nextTid,
               CidInsert(cid, nextPid, "process", o))
  BY <1>1, <1>2, ProcessAdded
<1>4. /\ DOMAIN With(process, o, NewProcess(nextPid)) = DOMAIN process \union {o}
      /\ \A p \in DOMAIN process : With(process, o, NewProcess(nextPid))[p] = process[p]
  BY <1>1 DEF With
<1>5. CASE shell
  BY <1>3, <1>4, <1>5 DEF o
<1>6. CASE ~shell
  BY <1>2, <1>6
<1> QED BY <1>5, <1>6

\* The launch of an image, as far as there is memory for its objects.
LEMMA LaunchKept ==
  ASSUME PsInv, NEW shell \in BOOLEAN, Launch(shell), UNCHANGED <<ring3, kthread, waiting>>,
         shell => Room > 0
  PROVE  PsInv'
<1> DEFINE made == Min({Room, IF shell THEN 3 ELSE 2})
           id(i) == Len(object) + i
           p == IF shell THEN id(2) ELSE id(1)
           t == p + 1
           last == Len(object) + made
           pid == IF shell THEN nextPid + 1 ELSE nextPid
           shells == IF shell THEN With(process, id(1), NewProcess(nextPid)) ELSE process
           c == IF shell THEN CidInsert(cid, nextPid, "process", id(1)) ELSE cid
           cp == IF p =< last THEN CidInsert(c, pid, "process", p) ELSE c
           type(i) == IF id(i) = t THEN "thread" ELSE "process"
           news == [i \in 1..made |-> Header(type(i), Unnamed)]
           opened == IF shell THEN 1 ELSE 0
           r == [tid |-> nextTid, process |-> p, terminated |-> FALSE]
           record == [process |-> IF p > last THEN 0 ELSE p, thread |-> IF t > last THEN 0 ELSE t]
<1>1. /\ CreateObjects(news, opened)
      /\ process' = IF p > last THEN shells
                    ELSE With(shells, p, IF t > last THEN NewProcess(pid)
                                         ELSE WithThread(NewProcess(pid), t))
      /\ thread' = IF t > last THEN thread ELSE With(thread, t, r)
      /\ nextPid' = IF p > last THEN pid ELSE pid + 1
      /\ nextTid' = IF t > last THEN nextTid ELSE nextTid + 1
      /\ cid' = IF t > last THEN cp ELSE CidInsert(cp, nextTid, "thread", t)
      /\ program' = Append(program, record)
  BY DEF Launch
<1>2. /\ Len(object) \in Nat /\ DOMAIN process \subseteq 1..Len(object)
      /\ DOMAIN thread \subseteq 1..Len(object) /\ Room \in Nat
  BY PsFacts
<1>3. /\ made \in Nat /\ made =< Room /\ made =< (IF shell THEN 3 ELSE 2)
      /\ shell => made >= 1
  <2>1. made = IF Room =< (IF shell THEN 3 ELSE 2) THEN Room ELSE (IF shell THEN 3 ELSE 2)
    BY <1>2, LeastOfTwo
  <2> HIDE DEF made
  <2> QED BY <1>2, <2>1
<1>4. /\ TablesOk(shells, thread, pid, nextTid, c)
      /\ DOMAIN shells = DOMAIN process \union (IF shell THEN {Len(object) + 1} ELSE {})
      /\ \A q \in DOMAIN process : shells[q] = process[q]
  BY ShellAdded
<1>5. /\ p \in Nat /\ t \in Nat \ {0} /\ last \in Nat /\ t = p + 1
      /\ p > Len(object) /\ p \notin DOMAIN process /\ t \notin DOMAIN thread
      /\ p = Len(object) + (IF shell THEN 2 ELSE 1)
      /\ t = Len(object) + (IF shell THEN 3 ELSE 2)
      /\ p =< last <=> made >= (IF shell THEN 2 ELSE 1)
      /\ t =< last <=> made >= (IF shell THEN 3 ELSE 2)
  <2> HIDE DEF made
  <2> QED BY <1>2, <1>3
<1>6. /\ news \in Seq(NewHeader) /\ Len(news) = made /\ DOMAIN news = 1..made
      /\ \A i \in 1..made : news[i].type = IF i = (IF shell THEN 3 ELSE 2) THEN "thread" ELSE "process"
  <2> HIDE DEF made
  <2>1. \A i \in 1..made : Header(type(i), Unnamed) \in NewHeader
    BY DEF NewHeader, ObjectType
  <2>2. \A i \in 1..made : type(i) = IF i = (IF shell THEN 3 ELSE 2) THEN "thread" ELSE "process"
    BY <1>2, <1>3, <1>5
  <2>3. \A i \in 1..made : news[i] = Header(type(i), Unnamed)
    OBVIOUS
  <2>4. \A i \in 1..made : news[i].type = type(i)
    BY <2>3 DEF Header
  <2>5. news \in [1..made -> NewHeader]
    BY <2>1
  <2> HIDE DEF news, type
  <2>6. news \in Seq(NewHeader) /\ Len(news) = made /\ DOMAIN news = 1..made
    BY <1>3, <2>5
  <2> QED BY <2>2, <2>4, <2>6
<1> HIDE DEF news, type
<1>7. opened \in 0..Len(news) /\ Len(news) =< Room /\ (opened # 0 => shell /\ opened = 1)
  <2> HIDE DEF made
  <2> QED BY <1>3, <1>6
<1> HIDE DEF made, opened, shells, c, pid, r
<1>8. ObInv /\ ObInv' /\ ObjectsMade(news) /\ Given(news, opened)
  BY <1>1, <1>6, <1>7, CreateKept DEF PsInv
<1>9. \A h \in Handle : slot'[h] = slot[h] \/ (slot[h] = 0 /\ shell /\ slot'[h] = Len(object) + 1)
  <2>1. \A h \in Handle : \/ slot'[h] = slot[h]
                          \/ opened # 0 /\ slot[h] = 0 /\ slot'[h] = Len(object) + opened
    BY <1>6, <1>7, <1>8, SlotsGiven
  <2> QED BY <1>7, <2>1
<1> DEFINE Ps == (IF shell THEN {Len(object) + 1} ELSE {}) \union (IF p =< last THEN {p} ELSE {})
           Ts == IF t =< last THEN {t} ELSE {}
<1>10. FileKind("process")' = FileKind("process") \union Ps /\ FileKind("thread")' = FileKind("thread") \union Ts
  <2>1. \A k : FileKind(k)' = FileKind(k) \union {Len(object) + i : i \in {j \in DOMAIN news : news[j].type = k}}
    BY <1>6, <1>8, KindsMade
  <2>2. {Len(object) + i : i \in {j \in DOMAIN news : news[j].type = "process"}} = Ps
    <3>1. {j \in DOMAIN news : news[j].type = "process"} = {j \in 1..made : j # (IF shell THEN 3 ELSE 2)}
      BY <1>6
    <3>2. \A j \in 1..made : j # (IF shell THEN 3 ELSE 2) =>
            (shell /\ j = 1) \/ (shell /\ j = 2 /\ p =< last /\ Len(object) + j = p)
            \/ (~shell /\ j = 1 /\ p =< last /\ Len(object) + j = p)
      BY <1>3, <1>5
    <3>3. /\ shell => 1 \in 1..made /\ 1 # 3
          /\ p =< last => /\ (IF shell THEN 2 ELSE 1) \in 1..made
                          /\ (IF shell THEN 2 ELSE 1) # (IF shell THEN 3 ELSE 2)
      BY <1>3, <1>5
    <3> HIDE DEF p, t, last
    <3> QED BY <1>5, <3>1, <3>2, <3>3
  <2>3. {Len(object) + i : i \in {j \in DOMAIN news : news[j].type = "thread"}} = Ts
    <3>1. {j \in DOMAIN news : news[j].type = "thread"} = {j \in 1..made : j = (IF shell THEN 3 ELSE 2)}
      BY <1>6
    <3>2. (IF shell THEN 3 ELSE 2) \in 1..made <=> t =< last
      BY <1>3, <1>5
    <3> HIDE DEF p, t, last
    <3> QED BY <1>5, <3>1, <3>2
  <2> QED BY <2>1, <2>2, <2>3
<1>11. p \notin DOMAIN shells /\ (t =< last => p =< last) /\ (p > last <=> ~(p =< last))
       /\ (t > last <=> ~(t =< last))
  <2> HIDE DEF p, t, last
  <2> QED BY <1>2, <1>4, <1>5
<1>12. /\ cp = IF p =< last THEN CidInsert(c, pid, "process", p) ELSE c
       /\ r = [tid |-> nextTid, process |-> p, terminated |-> FALSE]
       /\ record.process = (IF p > last THEN 0 ELSE p) /\ record.thread = (IF t > last THEN 0 ELSE t)
       /\ record = [process |-> IF p > last THEN 0 ELSE p, thread |-> IF t > last THEN 0 ELSE t]
  BY DEF r
<1> HIDE DEF p, t, last, record, cp
<1> DEFINE one == With(shells, p, NewProcess(pid))
<1>13. /\ TablesOk(one, thread, pid + 1, nextTid, CidInsert(c, pid, "process", p))
       /\ DOMAIN one = DOMAIN shells \union {p} /\ one[p] = NewProcess(pid)
       /\ \A q \in DOMAIN shells : one[q] = shells[q]
  BY <1>4, <1>5, <1>11, ProcessAdded DEF With
<1> HIDE DEF one
<1>14. ~NewProcess(pid).terminated /\ ~WithThread(NewProcess(pid), t).terminated
  BY DEF NewProcess, WithThread
<1>15. /\ TablesOk(process', thread', nextPid', nextTid', cid')
       /\ DOMAIN process' = DOMAIN process \union Ps /\ DOMAIN thread' = DOMAIN thread \union Ts
       /\ \A q \in DOMAIN process : process'[q] = process[q]
       /\ p =< last => ~process'[p].terminated
  <2>1. CASE ~(p =< last)
    <3>1. process' = shells /\ thread' = thread /\ nextPid' = pid /\ nextTid' = nextTid /\ cid' = c
      BY <1>1, <1>11, <1>12, <2>1
    <3> QED BY <1>4, <1>11, <2>1, <3>1
  <2>2. CASE p =< last /\ ~(t =< last)
    <3>1. process' = one /\ thread' = thread /\ nextPid' = pid + 1 /\ nextTid' = nextTid
          /\ cid' = CidInsert(c, pid, "process", p)
      BY <1>1, <1>11, <1>12, <2>2 DEF one
    <3> QED BY <1>4, <1>11, <1>13, <1>14, <2>2, <3>1
  <2>3. CASE t =< last
    <3>1. /\ process' = With(shells, p, WithThread(NewProcess(pid), t))
          /\ thread' = With(thread, t, [tid |-> nextTid, process |-> p, terminated |-> FALSE])
          /\ nextPid' = pid + 1 /\ nextTid' = nextTid + 1
          /\ cid' = CidInsert(CidInsert(c, pid, "process", p), nextTid, "thread", t)
      BY <1>1, <1>11, <1>12, <2>3
    <3>2. /\ DOMAIN process' = DOMAIN one
          /\ \A q \in DOMAIN one : process'[q] = IF q = p THEN WithThread(one[p], t) ELSE one[q]
          /\ DOMAIN thread' = DOMAIN thread \union {t}
      BY <1>13, <3>1 DEF With
    <3>3. TablesOk(process', thread', pid + 1, nextTid + 1, cid')
      <4>1. /\ TablesOk(one, thread, pid + 1, nextTid, CidInsert(c, pid, "process", p))
            /\ p \in DOMAIN one /\ t \in Nat \ {0} /\ t \notin DOMAIN thread
            /\ DOMAIN process' = DOMAIN one
            /\ \A q \in DOMAIN one : process'[q] = IF q = p THEN WithThread(one[p], t) ELSE one[q]
        BY <1>5, <1>13, <3>2
      <4>2. TablesOk(process', With(thread, t, [tid |-> nextTid, process |-> p, terminated |-> FALSE]),
                     pid + 1, nextTid + 1,
                     CidInsert(CidInsert(c, pid, "process", p), nextTid, "thread", t))
        BY ONLY <4>1, ThreadAdded
      <4> QED BY <3>1, <4>2
    <3>4. \A q \in DOMAIN process : q # p /\ process'[q] = process[q]
      BY <1>4, <1>5, <1>13, <3>2
    <3>5. ~process'[p].terminated
      BY <1>13, <1>14, <3>2
    <3> QED BY <1>4, <1>11, <1>13, <2>3, <3>1, <3>2, <3>3, <3>4, <3>5
  <2> QED BY <1>11, <2>1, <2>2, <2>3
<1>16. ProgramsOk'
  <2>1. program \in Seq([process : {0} \union DOMAIN process, thread : {0} \union DOMAIN thread])
        /\ DOMAIN program = 1..Len(program) /\ Len(program) \in Nat
    BY LenProperties DEF PsInv, ProgramsOk
  <2> DEFINE S == [process : {0} \union DOMAIN process', thread : {0} \union DOMAIN thread']
  <2>2. \A i \in DOMAIN program : program[i] \in S
    BY <1>15, ProgramsTyped
  <2>3. record \in S
    <3>1. (IF p > last THEN 0 ELSE p) \in {0} \union DOMAIN process'
          /\ (IF t > last THEN 0 ELSE t) \in {0} \union DOMAIN thread'
      BY <1>11, <1>15
    <3> QED BY <1>12, <3>1
  <2> HIDE DEF S, Ps, Ts
  <2>4. program \in Seq(S)
    <3>1. program = [i \in 1..Len(program) |-> program[i]]
      BY <2>1
    <3>2. program \in [1..Len(program) -> S]
      BY <2>1, <2>2, <3>1
    <3> QED BY <2>1, <3>2
  <2>5. /\ program' \in Seq(S) /\ Len(program') = Len(program) + 1
        /\ \A i \in 1..Len(program) : program'[i] = program[i]
        /\ program'[Len(program) + 1] = record
    BY <1>1, <2>3, <2>4, AppendProperties
  <2>6. \A i \in DOMAIN program' :
          \/ i \in DOMAIN program /\ program'[i] = program[i]
          \/ i = Len(program) + 1 /\ program'[i] = record
    <3>1. DOMAIN program' = 1..Len(program) + 1
      BY <2>1, <2>5, LenProperties
    <3>2. \A i \in 1..Len(program) + 1 : i \in 1..Len(program) \/ i = Len(program) + 1
      BY <2>1
    <3>3. \A i \in 1..Len(program) : i \in DOMAIN program /\ program'[i] = program[i]
      BY <2>1, <2>5
    <3>4. program'[Len(program) + 1] = record
      BY <2>5
    <3> QED BY ONLY <3>1, <3>2, <3>3, <3>4
  <2>7. ASSUME NEW i \in DOMAIN program, program[i].process # 0
        PROVE  /\ program[i].process \in DOMAIN process /\ program[i].process # p
               /\ ~process'[program[i].process].terminated
               /\ \A h \in Handle : slot'[h] # program[i].process
               /\ \A j \in DOMAIN program : program[j].process = program[i].process => i = j
    <3>1. program[i].process \in DOMAIN process
      BY <2>7, ProgramsTyped
    <3>2. /\ ~process[program[i].process].terminated
          /\ \A h \in Handle : slot[h] # program[i].process
          /\ \A j \in DOMAIN program : program[j].process = program[i].process => i = j
      BY <2>7 DEF PsInv, ProgramsOk
    <3>3. Len(object) + 1 \notin DOMAIN process
      BY <1>2
    <3> QED BY <1>5, <1>9, <1>15, <3>1, <3>2, <3>3
  <2>8. record.process # 0 =>
          /\ record.process = p /\ ~process'[p].terminated
          /\ \A h \in Handle : slot'[h] # p
    <3>1. \A h \in Handle : slot[h] \in 0..Len(object)
      BY PsFacts
    <3>2. \A h \in Handle : slot'[h] # p
      BY <1>2, <1>5, <1>9, <3>1
    <3> QED BY <1>11, <1>12, <1>15, <3>2
  <2>9. ASSUME NEW i \in DOMAIN program', program'[i].process # 0
        PROVE  /\ ~process'[program'[i].process].terminated
               /\ \A h \in Handle : slot'[h] # program'[i].process
               /\ \A j \in DOMAIN program' : program'[j].process = program'[i].process => i = j
    <3>1. CASE i \in DOMAIN program /\ program'[i] = program[i]
      <4>1. \A j \in DOMAIN program' : program'[j].process = program[i].process => j \in DOMAIN program
        BY <2>6, <2>7, <2>8, <2>9, <3>1
      <4>2. /\ ~process'[program'[i].process].terminated
            /\ \A h \in Handle : slot'[h] # program'[i].process
        BY <2>7, <2>9, <3>1
      <4>3. ASSUME NEW j \in DOMAIN program', program'[j].process = program'[i].process
            PROVE  i = j
        <5>1. j \in DOMAIN program
          BY <3>1, <4>1, <4>3
        <5>2. j # Len(program) + 1
          BY <2>1, <5>1
        <5>3. program[j].process = program[i].process /\ program[i].process # 0
          BY <2>6, <2>9, <3>1, <4>3, <5>2
        <5> QED BY <2>7, <3>1, <5>1, <5>3
      <4> QED BY <4>2, <4>3
    <3>2. CASE i = Len(program) + 1 /\ program'[i] = record
      <4>1. \A j \in DOMAIN program : program[j].process # p
        BY <1>5, <2>7
      <4> QED BY <2>6, <2>8, <2>9, <3>2, <4>1
    <3> QED BY <2>6, <3>1, <3>2
  <2> QED BY <2>5, <2>9 DEF ProgramsOk, S
<1>17. WaitsOk'
  <2>1. 0 \notin DOMAIN thread
    BY <1>2
  <2> QED BY <1>9, <1>15, <2>1, WaitsStay
<1> QED BY <1>8, <1>10, <1>15, <1>16, <1>17 DEF PsInv

\* Every step of the processes keeps their invariant.
LEMMA PsStepKept == PsInv /\ [PsNext]_<<obVars, psVars>> => PsInv'
<1> SUFFICES ASSUME PsInv, [PsNext]_<<obVars, psVars>> PROVE PsInv'
  OBVIOUS
<1>1. CASE RunImage
  BY <1>1, LaunchKept DEF RunImage
<1>2. CASE NtCreateProcess
  BY <1>2, LaunchKept DEF NtCreateProcess
<1>3. CASE NtCreateProcessNoImage
  BY <1>3, NoImageKept
<1>4. CASE ProgramExits
  BY <1>4, ExitKept
<1>5. CASE WaitReturns
  BY <1>5, WaitsKept
<1>6. ASSUME NEW h \in Handle \union {0}, NtCreateThread(h) \/ WaitBegins(h) PROVE PsInv'
  BY <1>6, CreateThreadKept, WaitsKept
<1>7. ASSUME NEW h \in Handle, NtTerminateProcess(h) \/ PsClose(h) PROVE PsInv'
  BY <1>7, TerminateByHandleKept, PsCloseKept
<1>8. ASSUME NEW t \in DOMAIN kthread, ThreadExits(t) PROVE PsInv'
  BY <1>8, WaitsKept
<1>9. CASE UNCHANGED <<obVars, psVars>>
  BY <1>9, PsStutters
<1> QED BY <1>1, <1>2, <1>3, <1>4, <1>5, <1>6, <1>7, <1>8, <1>9 DEF PsNext

\* The tables of handles, objects and client ids agree with the processes and threads
\* there are, whatever is launched, terminated and closed in whatever order and however
\* full the tables are; a program that runs is alive and a wait by a recorded handle is
\* for its thread (ps/process.c, ps/cid_table.c, ob/object.c, ldr/loader.c).
THEOREM TablesCorrect == PsSpec => [](PsTypeOK /\ ObjectTablesSound)
<1>1. ObInit(<<>>) /\ PsInit => PsInv
  BY PsStart
<1>2. PsInv /\ [PsNext]_<<obVars, psVars>> => PsInv'
  BY PsStepKept
<1>3. PsInv => PsTypeOK /\ ObjectTablesSound
  BY PsInvPromises
<1> QED BY <1>1, <1>2, <1>3, PTL DEF PsSpec
=====
