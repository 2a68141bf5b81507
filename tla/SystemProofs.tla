---------------------------- MODULE SystemProofs ----------------------------
(***************************************************************************)
(* Proofs about the services of the kernel, alone and together.              *)
(***************************************************************************)
EXTENDS DriverProofs, DeviceProofs, MCServices

-----------------------------------------------------------------------------
(* The registry.                                                             *)

KeyType == [name : KeyName \union {"\\Registry"}, parent : 0..MaxKey, linked : BOOLEAN,
            value : [ValueName -> Stored \union {"absent"}]]

\* The keys there are: each below an older one, the root in place, and no two of a name
\* in one list.
TreeOk(keys) ==
  /\ keys \in Seq(KeyType)
  /\ Len(keys) >= 1 /\ keys[Root].linked
  /\ \A k \in 1..Len(keys) : keys[k].parent < k
  /\ \A c, d \in 1..Len(keys) : keys[c].linked /\ keys[d].linked /\ keys[c].parent = keys[d].parent
                                /\ keys[c].name = keys[d].name => c = d

RgInv ==
  /\ TreeOk(key)
  /\ typed \subseteq 1..Len(key)
  /\ keyHandle \in [RegHandle -> 0..Len(key)]

\* What a step may do to the keys that are there.
KeysLast(old, new) ==
  /\ Len(new) >= Len(old)
  /\ \A k \in 1..Len(old) : /\ new[k].parent = old[k].parent /\ new[k].name = old[k].name
                            /\ new[k].linked => old[k].linked

LEMMA OneKeyMore ==
  ASSUME NEW keys, TreeOk(keys), NEW k \in 1..Len(keys), NEW n \in KeyName, Len(keys) + 1 =< MaxKey,
         \A c \in 1..Len(keys) : ~(keys[c].linked /\ keys[c].parent = k /\ keys[c].name = n)
  PROVE  LET after == keys \o <<KeyUnder(k, n)>>
         IN TreeOk(after) /\ Len(after) = Len(keys) + 1 /\ KeysLast(keys, after)
<1> DEFINE new == KeyUnder(k, n)
           after == keys \o <<new>>
<1>1. keys \in Seq(KeyType) /\ Len(keys) \in Nat /\ MaxKey \in Nat
  BY LenProperties, RgSizesOK DEF TreeOk
<1>2. new \in KeyType /\ new.linked /\ new.parent = k /\ new.name = n
  BY <1>1 DEF KeyType, KeyUnder, Blank, Stored
<1> HIDE DEF new
<1>3. /\ after \in Seq(KeyType) /\ Len(after) = Len(keys) + 1 /\ after[Len(keys) + 1] = new
      /\ \A i \in 1..Len(keys) : after[i] = keys[i]
  BY <1>1, <1>2
<1> HIDE DEF after
<1>4. \A i \in 1..Len(after) : i \in 1..Len(keys) \/ i = Len(keys) + 1
  BY <1>1, <1>3
<1>5. 1 \in 1..Len(keys) /\ 1 \in 1..Len(after) /\ after[Root].linked
  BY <1>1, <1>3 DEF TreeOk, Root
<1>6. \A i \in 1..Len(after) : after[i].parent < i
  BY <1>1, <1>2, <1>3, <1>4 DEF TreeOk
<1>7. \A c, d \in 1..Len(after) : after[c].linked /\ after[d].linked /\ after[c].parent = after[d].parent
                                  /\ after[c].name = after[d].name => c = d
  BY <1>1, <1>2, <1>3, <1>4 DEF TreeOk
<1>8. TreeOk(after)
  BY <1>1, <1>3, <1>5, <1>6, <1>7 DEF TreeOk
<1>9. KeysLast(keys, after)
  BY <1>1, <1>3 DEF KeysLast
<1> QED BY <1>3, <1>8, <1>9 DEF after, new

LEMMA KeysLastTrans ==
  ASSUME NEW a, NEW b, NEW c, TreeOk(a), TreeOk(b), TreeOk(c), KeysLast(a, b), KeysLast(b, c)
  PROVE  KeysLast(a, c)
<1>1. Len(a) \in Nat /\ Len(b) \in Nat /\ Len(c) \in Nat
  BY LenProperties DEF TreeOk
<1> QED BY <1>1 DEF KeysLast

LEMMA ValueStays ==
  ASSUME NEW keys, TreeOk(keys), NEW k \in 1..Len(keys), NEW v \in ValueName, NEW data \in Stored \union {"absent"}
  PROVE  LET after == WithValue(keys, k, v, data)
         IN TreeOk(after) /\ Len(after) = Len(keys) /\ KeysLast(keys, after)
<1> DEFINE after == WithValue(keys, k, v, data)
           changed == [keys[k] EXCEPT !.value = [@ EXCEPT ![v] = data]]
<1>1. keys \in Seq(KeyType) /\ Len(keys) \in Nat /\ DOMAIN keys = 1..Len(keys) /\ keys[k] \in KeyType
  BY LenProperties DEF TreeOk
<1>2. changed \in KeyType /\ changed.linked = keys[k].linked /\ changed.parent = keys[k].parent
      /\ changed.name = keys[k].name
  BY <1>1 DEF KeyType
<1>3. after = [keys EXCEPT ![k] = changed]
  BY <1>1 DEF WithValue
<1> HIDE DEF changed, after
<1>4. after \in Seq(KeyType) /\ Len(after) = Len(keys)
      /\ \A i \in 1..Len(keys) : after[i] = IF i = k THEN changed ELSE keys[i]
  BY <1>1, <1>2, <1>3, ExceptSeq
<1>5. \A i \in 1..Len(keys) : after[i].linked = keys[i].linked /\ after[i].parent = keys[i].parent
                              /\ after[i].name = keys[i].name
  BY <1>2, <1>4
<1>6. 1 \in 1..Len(keys)
  BY <1>1 DEF TreeOk
<1>7. TreeOk(after)
  BY <1>4, <1>5, <1>6 DEF TreeOk, Root
<1>8. KeysLast(keys, after)
  BY <1>1, <1>4, <1>5 DEF KeysLast
<1> QED BY <1>4, <1>7, <1>8 DEF after

LEMMA DeletedKeeps ==
  ASSUME NEW keys, TreeOk(keys), NEW k \in 1..Len(keys), k # Root
  PROVE  LET after == OffList(keys, k)
         IN TreeOk(after) /\ Len(after) = Len(keys) /\ KeysLast(keys, after)
<1> DEFINE after == OffList(keys, k)
           changed == [keys[k] EXCEPT !.linked = FALSE]
<1>1. keys \in Seq(KeyType) /\ Len(keys) \in Nat /\ DOMAIN keys = 1..Len(keys) /\ keys[k] \in KeyType
  BY LenProperties DEF TreeOk
<1>2. changed \in KeyType /\ ~changed.linked /\ changed.parent = keys[k].parent /\ changed.name = keys[k].name
  BY <1>1 DEF KeyType
<1>3. after = [keys EXCEPT ![k] = changed]
  BY <1>1 DEF OffList
<1> HIDE DEF changed, after
<1>4. after \in Seq(KeyType) /\ Len(after) = Len(keys)
      /\ \A i \in 1..Len(keys) : after[i] = IF i = k THEN changed ELSE keys[i]
  BY <1>1, <1>2, <1>3, ExceptSeq
<1>5. \A i \in 1..Len(keys) : /\ after[i].linked => keys[i].linked
                              /\ after[i].parent = keys[i].parent /\ after[i].name = keys[i].name
  BY <1>2, <1>4
<1>6. 1 \in 1..Len(keys) /\ after[Root].linked
  BY <1>1, <1>4 DEF TreeOk, Root
<1>7. TreeOk(after)
  BY <1>4, <1>5, <1>6 DEF TreeOk
<1>8. KeysLast(keys, after)
  BY <1>1, <1>4, <1>5 DEF KeysLast
<1> QED BY <1>4, <1>7, <1>8 DEF after

\* reg_find_child finds the key of the name, if there is one.
LEMMA ChildFound ==
  ASSUME NEW keys, TreeOk(keys), NEW k, NEW n
  PROVE  LET c == Child(keys, k, n)
         IN /\ c \in 0..Len(keys)
            /\ c # 0 => keys[c].linked /\ keys[c].parent = k /\ keys[c].name = n
            /\ c = 0 => \A d \in 1..Len(keys) : ~(keys[d].linked /\ keys[d].parent = k /\ keys[d].name = n)
<1> DEFINE found == {c \in Children(keys, k) : keys[c].name = n}
<1>1. Len(keys) \in Nat /\ DOMAIN keys = 1..Len(keys)
  BY LenProperties DEF TreeOk
<1>2. found = {c \in 1..Len(keys) : keys[c].linked /\ keys[c].parent = k /\ keys[c].name = n}
  BY <1>1 DEF Children
<1> HIDE DEF found
<1>3. CASE found = {}
  <2>1. Child(keys, k, n) = 0
    BY <1>3 DEF Child, found
  <2> QED BY <1>1, <1>2, <1>3, <2>1
<1>4. CASE found # {}
  <2>1. found \in SUBSET Nat
    BY <1>1, <1>2
  <2>2. Min(found) \in found
    BY <1>4, <2>1, LeastIn
  <2>3. Child(keys, k, n) = Min(found)
    BY <1>4 DEF Child, found
  <2> QED BY <1>1, <1>2, <2>2, <2>3
<1> QED BY <1>3, <1>4

LEMMA TwoTogether ==
  ASSUME NEW S, NEW a \in S, NEW b \in S
  PROVE  <<a>> \o <<b>> = <<a, b>>
<1>1. <<a>> \in Seq(S) /\ <<b>> \in Seq(S) /\ <<a, b>> \in Seq(S)
  OBVIOUS
<1>2. Len(<<a>>) = 1 /\ Len(<<b>>) = 1 /\ Len(<<a, b>>) = 2
  OBVIOUS
<1>3. <<a>> \o <<b>> \in Seq(S) /\ Len(<<a>> \o <<b>>) = 2
  BY <1>1, <1>2, ConcatProperties
<1>4. (<<a>> \o <<b>>)[1] = a /\ (<<a>> \o <<b>>)[2] = b
  BY <1>1, <1>2, ConcatProperties
<1>5. \A i \in 1..2 : (<<a>> \o <<b>>)[i] = <<a, b>>[i]
  BY <1>4
<1> QED BY <1>1, <1>2, <1>3, <1>5, SeqEqual

LEMMA PathParts ==
  ASSUME NEW path \in KeyPath
  PROVE  /\ Len(path) \in {1, 2} /\ path[1] \in KeyName
         /\ Len(path) # 1 => path[2] \in KeyName
BY DEF KeyPath

\* Resolving a path gives a key that is in the list of its parent, or none.
LEMMA ResolvedFound ==
  ASSUME TreeOk(key), NEW base \in 1..Len(key), NEW path \in KeyPath
  PROVE  LET k == Resolved(base, path)
             first == Child(key, base, path[1])
         IN /\ k \in 0..Len(key)
            /\ k = 0 /\ Len(path) = 1 => first = 0
            /\ k = 0 /\ first # 0 => Child(key, first, path[2]) = 0
<1> USE PathParts
<1>1. Child(key, base, path[1]) \in 0..Len(key) /\ Len(key) \in Nat
  BY ChildFound, LenProperties DEF TreeOk
<1>2. \A n : Child(key, Child(key, base, path[1]), n) \in 0..Len(key)
  BY ChildFound
<1> QED BY <1>1, <1>2 DEF Resolved

\* What NtCreateKey_k makes keeps the tree in order.
LEMMA CreatingOk ==
  ASSUME TreeOk(key), NEW base \in 1..Len(key), NEW path \in KeyPath,
         Len(key) + Len(Creating(base, path)) =< MaxKey
  PROVE  LET new == Creating(base, path)
             after == key \o new
         IN /\ TreeOk(after) /\ Len(new) \in Nat /\ Len(after) = Len(key) + Len(new) /\ KeysLast(key, after)
            /\ new = <<>> => Resolved(base, path) \in 1..Len(key)
            /\ new # <<>> => Len(new) > 0
<1> DEFINE new == Creating(base, path)
           first == Child(key, base, path[1])
           last == KeyUnder(base, path[1])
<1>1. key \in Seq(KeyType) /\ Len(key) \in Nat /\ MaxKey \in Nat
  BY LenProperties, RgSizesOK DEF TreeOk
<1>2. Resolved(base, path) \in 0..Len(key)
  BY ResolvedFound
<1>3. CASE Resolved(base, path) # 0
  <2>1. new = <<>> /\ Len(new) = 0
    BY <1>3 DEF Creating
  <2>2. key \o new = key
    BY <1>1, <2>1, ConcatEmptySeq
  <2>3. KeysLast(key, key)
    BY <1>1 DEF KeysLast
  <2> QED BY <1>1, <1>2, <1>3, <2>1, <2>2, <2>3
<1>4. CASE Resolved(base, path) = 0 /\ Len(path) = 1
  <2>1. new = <<last>> /\ Len(new) = 1
    BY <1>4 DEF Creating
  <2>2. first = 0
    BY <1>4, ResolvedFound
  <2>3. \A c \in 1..Len(key) : ~(key[c].linked /\ key[c].parent = base /\ key[c].name = path[1])
    BY <2>2, ChildFound
  <2>4. path[1] \in KeyName /\ Len(key) + 1 =< MaxKey
    BY <2>1, PathParts
  <2> QED BY <1>1, <1>4, <2>1, <2>3, <2>4, OneKeyMore
<1>5. CASE Resolved(base, path) = 0 /\ Len(path) # 1 /\ first # 0
  <2>1. new = <<KeyUnder(first, path[2])>> /\ Len(new) = 1
    BY <1>5 DEF Creating
  <2>2. first \in 1..Len(key)
    BY <1>1, <1>5, ChildFound
  <2>3. Child(key, first, path[2]) = 0
    BY <1>5, ResolvedFound
  <2>4. \A c \in 1..Len(key) : ~(key[c].linked /\ key[c].parent = first /\ key[c].name = path[2])
    BY <2>3, ChildFound
  <2>5. path[2] \in KeyName /\ Len(key) + 1 =< MaxKey
    BY <1>5, <2>1, PathParts
  <2> QED BY <1>1, <1>5, <2>1, <2>2, <2>4, <2>5, OneKeyMore
<1>6. CASE Resolved(base, path) = 0 /\ Len(path) # 1 /\ first = 0
  <2> DEFINE place == Len(key) + 1
             second == KeyUnder(place, path[2])
             between == key \o <<last>>
  <2>1. new = <<last, second>> /\ Len(new) = 2
    BY <1>6 DEF Creating
  <2>2. \A c \in 1..Len(key) : ~(key[c].linked /\ key[c].parent = base /\ key[c].name = path[1])
    BY <1>6, ChildFound
  <2>3. path[1] \in KeyName /\ path[2] \in KeyName /\ Len(key) + 2 =< MaxKey
    BY <1>6, <2>1, PathParts
  <2>4. TreeOk(between) /\ Len(between) = Len(key) + 1 /\ KeysLast(key, between)
    <3>1. Len(key) + 1 =< MaxKey /\ path[1] \in KeyName
      BY <1>1, <2>3
    <3>2. LET after == key \o <<last>> IN TreeOk(after) /\ Len(after) = Len(key) + 1 /\ KeysLast(key, after)
      BY <2>2, <3>1, OneKeyMore
    <3> QED BY <3>2
  <2>5. place \in 1..Len(between)
    BY <1>1, <2>4
  <2> HIDE DEF between, second, place, last
  <2>6. \A c \in 1..Len(between) : ~(between[c].linked /\ between[c].parent = place /\ between[c].name = path[2])
    <3>1. \A c \in 1..Len(between) : between[c].parent < c /\ between[c].parent \in Int
      <4> TAKE c \in 1..Len(between)
      <4>1. between[c] \in KeyType /\ between[c].parent < c
        BY <2>4, ElementOfSeq DEF TreeOk
      <4> QED BY <1>1, <4>1 DEF KeyType
    <3>2. place = Len(between)
      BY <2>4 DEF place
    <3> QED BY <1>1, <2>4, <3>1, <3>2
  <2>7. Len(between) + 1 =< MaxKey
    BY <1>1, <2>3, <2>4
  <2>8. /\ TreeOk(between \o <<second>>) /\ Len(between \o <<second>>) = Len(between) + 1
        /\ KeysLast(between, between \o <<second>>)
    BY <2>3, <2>4, <2>5, <2>6, <2>7, OneKeyMore DEF second
  <2>9. key \o new = between \o <<second>>
    <3>1. last \in KeyType /\ second \in KeyType
      <4>1. base \in 0..MaxKey /\ place \in 0..MaxKey
        BY <1>1, <2>3 DEF place
      <4> QED BY <2>3, <4>1 DEF KeyType, KeyUnder, Blank, Stored, last, second
    <3>2. <<last>> \in Seq(KeyType) /\ <<second>> \in Seq(KeyType)
      BY <3>1
    <3>3. (key \o <<last>>) \o <<second>> = key \o (<<last>> \o <<second>>)
      BY <1>1, <3>2, ConcatAssociative
    <3>4. <<last>> \o <<second>> = <<last, second>>
      BY <3>1, TwoTogether
    <3> QED BY <2>1, <3>3, <3>4 DEF between
  <2>10. KeysLast(key, key \o new)
    BY <2>4, <2>8, <2>9, KeysLastTrans
  <2>11. Len(key \o new) = Len(key) + 2 /\ TreeOk(key \o new)
    BY <1>1, <2>4, <2>8, <2>9
  <2>12. new # <<>>
    BY <2>1
  <2> HIDE DEF new
  <2> QED BY <1>1, <1>6, <2>1, <2>10, <2>11, <2>12 DEF new
<1> QED BY <1>2, <1>3, <1>4, <1>5, <1>6

LEMMA HandlesKept ==
  ASSUME RgInv, NEW k \in 0..Len(key'), Len(key') \in Nat, Len(key') >= Len(key), OpenHandle(k)
  PROVE  keyHandle' \in [RegHandle -> 0..Len(key')]
<1>1. keyHandle \in [RegHandle -> 0..Len(key)] /\ Len(key) \in Nat
  BY LenProperties DEF RgInv, TreeOk
<1>2. keyHandle \in [RegHandle -> 0..Len(key')]
  BY <1>1
<1>3. FreeRegHandle \in SUBSET Nat /\ FreeRegHandle # {}
  BY DEF FreeRegHandle, RegHandle, OpenHandle
<1>4. Min(FreeRegHandle) \in RegHandle
  BY <1>3, LeastIn DEF FreeRegHandle
<1>5. keyHandle' = [keyHandle EXCEPT ![Min(FreeRegHandle)] = k]
  BY DEF OpenHandle
<1> HIDE DEF FreeRegHandle
<1> QED BY <1>2, <1>4, <1>5

LEMMA BasesThere ==
  ASSUME RgInv, NEW h \in {0} \union RegHandle
  PROVE  Base(h) \in 1..Len(key)
<1>1. Len(key) \in Nat /\ Len(key) >= 1
  BY LenProperties DEF RgInv, TreeOk
<1>2. h # 0 => h \in RegHandle
  OBVIOUS
<1>3. h # 0 => Opened(h) \in 0..Len(key)
  BY <1>1, <1>2 DEF RgInv, Opened
<1> QED BY <1>1, <1>3 DEF Base, Root

LEMMA RgStart == RgInit => RgInv
<1> SUFFICES ASSUME RgInit PROVE RgInv
  OBVIOUS
<1> DEFINE top == [name |-> "\\Registry", parent |-> 0, linked |-> TRUE, value |-> Blank]
<1>1. MaxKey \in Nat /\ MaxKey > 1
  BY RgSizesOK
<1>2. top \in KeyType /\ top.linked /\ top.parent = 0
  BY <1>1 DEF KeyType, Blank
<1>3. key = <<top>>
  BY DEF RgInit
<1> HIDE DEF top
<1>4. key \in Seq(KeyType) /\ Len(key) = 1 /\ key[1] = top
  BY <1>2, <1>3
<1>5. \A k \in 1..Len(key) : k = 1
  BY <1>4
<1>6. TreeOk(key)
  BY <1>2, <1>4, <1>5 DEF TreeOk, Root
<1>7. typed \subseteq 1..Len(key) /\ keyHandle \in [RegHandle -> 0..Len(key)]
  BY <1>4 DEF RgInit, Root
<1> QED BY <1>6, <1>7 DEF RgInv

LEMMA RgStepKept == RgInv /\ [RgNext]_rgVars => RgInv' /\ KeysLast(key, key')
<1> SUFFICES ASSUME RgInv, [RgNext]_rgVars PROVE RgInv' /\ KeysLast(key, key')
  OBVIOUS
<1>1. TreeOk(key) /\ Len(key) \in Nat /\ Len(key) >= 1 /\ typed \subseteq 1..Len(key)
      /\ keyHandle \in [RegHandle -> 0..Len(key)]
  BY LenProperties DEF RgInv, TreeOk
<1>2. KeysLast(key, key)
  BY <1>1 DEF KeysLast
<1>3. ASSUME NEW h \in {0} \union RegHandle, NEW path \in KeyPath, NtCreateKey(h, path)
      PROVE  RgInv' /\ KeysLast(key, key')
  <2> DEFINE new == Creating(Base(h), path)
             k == IF new = <<>> THEN Resolved(Base(h), path) ELSE Len(key) + Len(new)
  <2>1. Base(h) \in 1..Len(key)
    BY BasesThere
  <2>2. Len(key) + Len(new) =< MaxKey /\ key' = key \o new /\ OpenHandle(k)
    BY <1>3 DEF NtCreateKey
  <2>3. PICK read \in SUBSET (Len(key) + 1..Len(key) + Len(new)) : typed' = typed \union read
    BY <1>3 DEF NtCreateKey
  <2>4. /\ TreeOk(key') /\ Len(new) \in Nat /\ Len(key') = Len(key) + Len(new) /\ KeysLast(key, key')
        /\ new = <<>> => Resolved(Base(h), path) \in 1..Len(key)
    BY <1>1, <2>1, <2>2, CreatingOk
  <2> HIDE DEF new
  <2>5. k \in 0..Len(key') /\ Len(key') \in Nat /\ Len(key') >= Len(key)
    BY <1>1, <2>4
  <2> HIDE DEF k
  <2>6. keyHandle' \in [RegHandle -> 0..Len(key')]
    BY <2>2, <2>5, HandlesKept
  <2>7. typed' \subseteq 1..Len(key')
    BY <1>1, <2>3, <2>4
  <2> QED BY <2>4, <2>6, <2>7 DEF RgInv
<1>4. ASSUME NEW h \in {0} \union RegHandle, NEW path \in KeyPath, NtOpenKey(h, path)
      PROVE  RgInv' /\ KeysLast(key, key')
  <2>1. Base(h) \in 1..Len(key)
    BY BasesThere
  <2>2. Resolved(Base(h), path) \in 0..Len(key)
    BY <1>1, <2>1, ResolvedFound
  <2>3. key' = key /\ typed' = typed /\ OpenHandle(Resolved(Base(h), path))
    BY <1>4 DEF NtOpenKey
  <2>4. keyHandle' \in [RegHandle -> 0..Len(key')]
    BY <1>1, <2>2, <2>3, HandlesKept
  <2> QED BY <1>1, <1>2, <2>3, <2>4 DEF RgInv
<1>5. ASSUME NEW h \in RegHandle, NtCloseKey(h) PROVE RgInv' /\ KeysLast(key, key')
  <2>1. key' = key /\ typed' = typed /\ keyHandle' = [keyHandle EXCEPT ![h] = 0]
    BY <1>5 DEF NtCloseKey
  <2> QED BY <1>1, <1>2, <2>1 DEF RgInv
<1>6. ASSUME NEW after, key' = after, Len(after) = Len(key), TreeOk(after), KeysLast(key, after),
             UNCHANGED <<typed, keyHandle>>
      PROVE  RgInv' /\ KeysLast(key, key')
  BY <1>1, <1>6 DEF RgInv
<1>7. ASSUME NEW h \in RegHandle PROVE Opened(h) \in 0..Len(key)
  BY <1>1 DEF Opened
<1>8. ASSUME NEW h \in RegHandle, NtDeleteKey(h) PROVE RgInv' /\ KeysLast(key, key')
  <2>1. Opened(h) \in 1..Len(key) /\ Opened(h) # Root
    BY <1>1, <1>7, <1>8 DEF NtDeleteKey
  <2> QED BY <1>1, <1>6, <1>8, <2>1, DeletedKeeps DEF NtDeleteKey
<1>9. ASSUME NEW h \in RegHandle, NEW v \in ValueName, NtDeleteValueKey(h, v)
      PROVE  RgInv' /\ KeysLast(key, key')
  <2>1. Opened(h) \in 1..Len(key)
    BY <1>1, <1>7, <1>9 DEF NtDeleteValueKey
  <2> QED BY <1>1, <1>6, <1>9, <2>1, ValueStays DEF NtDeleteValueKey
<1>10. ASSUME NEW h \in RegHandle, NEW v \in ValueName, NEW data \in Stored, NtSetValueKey(h, v, data)
       PROVE  RgInv' /\ KeysLast(key, key')
  <2>1. Opened(h) \in 1..Len(key)
    BY <1>1, <1>7, <1>10 DEF NtSetValueKey
  <2> QED BY <1>1, <1>6, <1>10, <2>1, ValueStays DEF NtSetValueKey
<1>11. ASSUME NEW path \in KeyPath, NEW v \in ValueName, NEW data \in Stored, SetValueAscii(path, v, data)
       PROVE  RgInv' /\ KeysLast(key, key')
  <2> DEFINE new == Creating(Root, path)
             k == IF new = <<>> THEN Resolved(Root, path) ELSE Len(key) + Len(new)
             between == key \o new
  <2>1. Root \in 1..Len(key)
    BY <1>1 DEF Root
  <2>2. Len(key) + Len(new) =< MaxKey /\ key' = WithValue(between, k, v, data) /\ keyHandle' = keyHandle
    BY <1>11 DEF SetValueAscii
  <2>3. PICK read \in SUBSET (Len(key) + 1..Len(key) + Len(new)) : typed' = typed \union read
    BY <1>11 DEF SetValueAscii
  <2>4. /\ TreeOk(between) /\ Len(new) \in Nat /\ Len(between) = Len(key) + Len(new) /\ KeysLast(key, between)
        /\ new = <<>> => Resolved(Root, path) \in 1..Len(key)
        /\ new # <<>> => Len(new) > 0
    BY <1>1, <2>1, <2>2, CreatingOk
  <2> HIDE DEF new, between
  <2>5. k \in 1..Len(between)
    BY <1>1, <2>4
  <2> HIDE DEF k
  <2>6. TreeOk(key') /\ Len(key') = Len(between) /\ KeysLast(between, key')
    BY <2>2, <2>4, <2>5, ValueStays
  <2>7. KeysLast(key, key')
    BY <1>1, <2>4, <2>6, KeysLastTrans
  <2>8. typed' \subseteq 1..Len(key') /\ keyHandle' \in [RegHandle -> 0..Len(key')]
    BY <1>1, <2>2, <2>3, <2>4, <2>6
  <2> QED BY <2>6, <2>7, <2>8 DEF RgInv
<1>12. CASE UNCHANGED rgVars
  BY <1>1, <1>2, <1>12 DEF rgVars, RgInv
<1> QED BY <1>3, <1>4, <1>5, <1>8, <1>9, <1>10, <1>11, <1>12 DEF RgNext

LEMMA RgInvPromises == RgInv => RgTypeOK /\ SiblingsDistinct
<1> SUFFICES ASSUME RgInv PROVE RgTypeOK /\ SiblingsDistinct
  OBVIOUS
<1>1. key \in Seq(KeyType) /\ DOMAIN key = 1..Len(key)
  BY LenProperties DEF RgInv, TreeOk
<1> QED BY <1>1 DEF RgInv, TreeOk, RgTypeOK, SiblingsDistinct, KeyType

\* The registry keeps one key of a name in each list, whatever is created, also below keys
\* that were deleted (cm/registry.c:62-93).
THEOREM RegistryCorrect == RgSpec => [](RgTypeOK /\ SiblingsDistinct)
<1>1. RgInit => RgInv
  BY RgStart
<1>2. RgInv /\ [RgNext]_rgVars => RgInv'
  BY RgStepKept
<1>3. RgInv => RgTypeOK /\ SiblingsDistinct
  BY RgInvPromises
<1> QED BY <1>1, <1>2, <1>3, PTL DEF RgSpec

LEMMA GoneForGood == RgInv /\ [RgNext]_rgVars => [\A k \in DOMAIN key : Gone(k) => ~Reached(k)']_rgVars
<1> SUFFICES ASSUME RgInv, [RgNext]_rgVars, NEW k \in DOMAIN key, Gone(k), Reached(k)' PROVE FALSE
  OBVIOUS
<1>1. RgInv' /\ KeysLast(key, key')
  BY RgStepKept
<1>2. TreeOk(key) /\ TreeOk(key') /\ Len(key) \in Nat /\ Len(key) >= 1 /\ k \in 1..Len(key)
  BY <1>1, LenProperties DEF RgInv, TreeOk
<1>3. PICK path \in KeyPath : Resolved(Root, path)' = k
  BY DEF Reached
<1> DEFINE first == Child(key', Root, path[1])
           second == Child(key', first, path[2])
<1>4. Resolved(Root, path)' = IF Len(path) = 1 \/ first = 0 THEN first ELSE second
  BY DEF Resolved
<1>5. first # 0 => key'[first].linked /\ key'[first].parent = Root
  BY <1>2, ChildFound
<1>6. second # 0 => key'[second].linked /\ key'[second].parent = first
  BY <1>2, ChildFound
<1> HIDE DEF first, second
<1>7. key'[k].linked /\ k # 0
  BY <1>2, <1>3, <1>4, <1>5, <1>6
<1>8. key[k].linked /\ key'[k].parent = key[k].parent
  BY <1>1, <1>2, <1>7 DEF KeysLast
<1>9. k # Root /\ ~key[key[k].parent].linked
  BY <1>8 DEF Gone
<1>10. key'[k].parent = Root \/ (first # 0 /\ key'[k].parent = first)
  BY <1>3, <1>4, <1>5, <1>6, <1>7
<1>11. key'[key'[k].parent].linked
  BY <1>2, <1>5, <1>10 DEF TreeOk
<1>12. key[k].parent \in Nat /\ key[k].parent < k /\ key[k].parent # 0
  <2>1. key[k] \in KeyType /\ key[k].parent < k
    BY <1>2, ElementOfSeq DEF TreeOk
  <2>2. key[k].parent \in Nat
    BY <2>1, RgSizesOK DEF KeyType
  <2> QED BY <1>8, <1>10, <2>1, <2>2 DEF Root
<1>13. key[k].parent \in 1..Len(key)
  BY <1>2, <1>12
<1>14. key[key[k].parent].linked
  BY <1>1, <1>8, <1>11, <1>13 DEF KeysLast
<1> QED BY <1>9, <1>14

\* What was deleted is not found by a path from the root again, not even when what follows
\* creates a key of its name (cm/registry.c:259-268).
THEOREM DeletedCorrect == RgSpec => DeletedStaysGone
<1>1. RgInit => RgInv
  BY RgStart
<1>2. RgInv /\ [RgNext]_rgVars => RgInv'
  BY RgStepKept
<1>3. RgInv /\ [RgNext]_rgVars => [\A k \in DOMAIN key : Gone(k) => ~Reached(k)']_rgVars
  BY GoneForGood
<1> QED BY <1>1, <1>2, <1>3, PTL DEF RgSpec, DeletedStaysGone

-----------------------------------------------------------------------------
(* The start of the processors.                                              *)

Ids == IdsOf(MadtIds)
Living == {a \in Ids : ap[a] \in {"alive", "online", "working"}}
HasEntered == {"entry", "alive", "online", "working"}

\* The processors that took a start-up command, the one it is being sent to left out.
Awake == {a \in Ids : ap[a] \notin {"off", "init"}}
AwakeBefore == {a \in Awake : ~(sent = "SIPI" /\ a = Target)}

\* The processor whose turn it is, and the ones after it, are still off.
TurnOk ==
  /\ turn # 0 => cpus # <<>>
  /\ turn # 0 => cpus \in Seq(Ids) /\ Len(cpus) <= Len(MadtIds) /\ \A i \in DOMAIN cpus : cpus[i] = MadtIds[i]
  /\ launched = 0 \/ launched < turn
  /\ sent # "nothing" => Starting /\ Target # BootId
  /\ Starting => \A i \in DOMAIN cpus : i > turn \/ (i = turn /\ sent \in {"nothing", "slots"}) => ap[cpus[i]] = "off"
  /\ turn = 0 => \A a \in Ids : ap[a] = "off"
  /\ \A a \in Ids : a = BootId => ap[a] = "off"

\* What each processor read, unless one came late.
OwnSlots ==
  ~late => \A a \in Ids : /\ ap[a] \in {"kpcr"} \union HasEntered => mine[a].stack = a
                          /\ ap[a] \in HasEntered => mine[a].kpcr = a

EveryCounted ==
  /\ alive = Cardinality(Living)
  /\ seen \subseteq Living
  /\ Cardinality(AwakeBefore) <= launched
  /\ \A n \in 0..MaxCpus - 1 : prcb[n] \subseteq (IF n = 0 THEN {BootId} ELSE {n})

SmpInv == SmpTypeOK /\ TurnOk /\ OwnSlots /\ EveryCounted

LEMMA IdsFinite == IsFiniteSet(Ids) /\ Ids \subseteq Nat /\ Len(MadtIds) \in Nat /\ DOMAIN MadtIds = 1..Len(MadtIds)
<1>1. DOMAIN MadtIds = 1..Len(MadtIds) /\ Len(MadtIds) \in Nat /\ MadtIds \in Seq(Nat)
  BY SmpSizesOK
<1>2. IsFiniteSet(1..Len(MadtIds))
  BY <1>1, FS_Interval
<1>3. IsFiniteSet({MadtIds[i] : i \in 1..Len(MadtIds)})
  <2> DEFINE f == [i \in 1..Len(MadtIds) |-> MadtIds[i]]
  <2>1. f \in Surjection(1..Len(MadtIds), {MadtIds[i] : i \in 1..Len(MadtIds)})
    BY DEF Surjection
  <2> QED BY <2>1, <1>2, FS_Surjection
<1>4. Ids = {MadtIds[i] : i \in 1..Len(MadtIds)}
  BY <1>1 DEF Ids, IdsOf
<1>5. \A i \in 1..Len(MadtIds) : MadtIds[i] \in Nat
  BY <1>1
<1> QED BY <1>1, <1>3, <1>4, <1>5

LEMMA SmpTypes ==
  SmpTypeOK <=>
    /\ cpus \in Seq(Ids \union {BootId}) /\ Len(cpus) <= MaxCpus
    /\ turn \in 0..Len(cpus) + 1 /\ sent \in {"nothing", "slots", "INIT", "SIPI"}
    /\ slots \in Ids \union {NoCpu} /\ launched \in 0..Len(MadtIds)
    /\ polling \in BOOLEAN /\ blocks \in 0..StartBlocks
    /\ ap \in [Ids -> Phase] /\ alive \in Nat /\ seen \subseteq 0..MaxCpus - 1
    /\ mine \in [Ids -> [stack : Ids \union {NoCpu}, kpcr : Ids \union {NoCpu}]]
    /\ prcb \in [0..MaxCpus - 1 -> SUBSET (Ids \union {BootId})] /\ late \in BOOLEAN
BY DEF SmpTypeOK, Ids

LEMMA Launches == SmpInv => launched \in Nat /\ launched \in 0..Len(MadtIds) /\ Len(MadtIds) \in Nat
BY IdsFinite, SmpTypes DEF SmpInv

LEMMA LivingFinite ==
  ASSUME SmpInv
  PROVE  /\ IsFiniteSet(Living) /\ IsFiniteSet(Awake) /\ IsFiniteSet(AwakeBefore)
         /\ Cardinality(Living) \in Nat /\ Cardinality(AwakeBefore) \in Nat
BY IdsFinite, FS_Subset, FS_CardinalityType DEF Living, Awake, AwakeBefore

LEMMA OneMore ==
  ASSUME NEW S, IsFiniteSet(S), NEW x
  PROVE  /\ IsFiniteSet(S \union {x}) /\ Cardinality(S \union {x}) \in Nat /\ Cardinality(S \union {x}) <= Cardinality(S) + 1
<1>1. IsFiniteSet(S \union {x}) /\ Cardinality(S \union {x}) = IF x \in S THEN Cardinality(S) ELSE Cardinality(S) + 1
  BY FS_AddElement
<1>2. Cardinality(S) \in Nat
  BY FS_CardinalityType
<1> QED BY <1>1, <1>2

LEMMA SmpInvPromises == SmpInv => SmpTypeOK /\ StartSound
<1> SUFFICES ASSUME SmpInv PROVE StartSound
  BY DEF SmpInv
<1>1. \A a, b \in Ids : a # b /\ ap[a] \in HasEntered /\ ap[b] \in HasEntered /\ ~late
                        => mine[a].stack # mine[b].stack /\ mine[a].kpcr # mine[b].kpcr
  BY DEF SmpInv, OwnSlots
<1>2. alive = Cardinality(Living)
  BY DEF SmpInv, EveryCounted
<1>3. alive <= launched + 1
  <2>1. Living \subseteq AwakeBefore \union {Target}
    BY DEF Living, AwakeBefore, Awake
  <2>2. Cardinality(AwakeBefore \union {Target}) <= Cardinality(AwakeBefore) + 1
        /\ IsFiniteSet(AwakeBefore \union {Target}) /\ Cardinality(AwakeBefore \union {Target}) \in Nat
    BY LivingFinite, OneMore
  <2>3. Cardinality(Living) <= Cardinality(AwakeBefore \union {Target})
    BY <2>1, <2>2, FS_Subset
  <2>4. launched \in Nat /\ Cardinality(AwakeBefore) <= launched
    BY Launches DEF SmpInv, EveryCounted
  <2> QED BY <1>2, <2>2, <2>3, <2>4, LivingFinite
<1>4. Cardinality(seen) <= alive
  BY <1>2, LivingFinite, FS_Subset DEF SmpInv, EveryCounted
<1>5. \A n \in 0..MaxCpus - 1 : Cardinality(prcb[n]) <= 1
  <2> TAKE n \in 0..MaxCpus - 1
  <2>1. PICK m : prcb[n] \subseteq {m}
    BY DEF SmpInv, EveryCounted
  <2>2. IsFiniteSet({m}) /\ Cardinality({m}) = 1
    BY FS_Singleton
  <2> QED BY <2>1, <2>2, FS_Subset
<1> QED BY <1>1, <1>2, <1>3, <1>4, <1>5 DEF StartSound, Ids, Living, HasEntered

LEMMA SmpStart == SmpInit => SmpInv
<1> SUFFICES ASSUME SmpInit PROVE SmpInv
  OBVIOUS
<1> USE DEF SmpInit
<1>1. Living = {} /\ AwakeBefore = {} /\ Cardinality({}) = 0
  BY FS_EmptySet DEF Living, AwakeBefore, Awake, Ids
<1>2. EveryCounted
  BY <1>1 DEF EveryCounted
<1>3. TurnOk
  BY DEF TurnOk, Starting, Ids
<1>4. OwnSlots
  BY DEF OwnSlots, Ids, HasEntered
<1>5. SmpTypeOK
  <2>1. cpus \in Seq(Ids \union {BootId}) /\ Len(cpus) = 0 /\ turn \in 0..Len(cpus) + 1
    OBVIOUS
  <2>2. ap \in [Ids -> Phase] /\ mine \in [Ids -> [stack : Ids \union {NoCpu}, kpcr : Ids \union {NoCpu}]]
    BY DEF Phase, Ids
  <2>3. prcb \in [0..MaxCpus - 1 -> SUBSET (Ids \union {BootId})]
    OBVIOUS
  <2>4. launched \in 0..Len(MadtIds) /\ blocks \in 0..StartBlocks /\ Len(cpus) <= MaxCpus
    BY <2>1, SmpSizesOK, IdsFinite
  <2>5. alive \in Nat /\ seen \subseteq 0..MaxCpus - 1 /\ polling \in BOOLEAN /\ late \in BOOLEAN /\ sent = "nothing" /\ slots = NoCpu
    OBVIOUS
  <2> QED BY <2>1, <2>2, <2>3, <2>4, <2>5 DEF SmpTypeOK, Ids
<1> QED BY <1>2, <1>3, <1>4, <1>5 DEF SmpInv

\* The next processor's turn.
LEMMA TurnNext ==
  ASSUME SmpInv, Starting, NextProcessor, UNCHANGED <<cpus, ap>>, launched' \in {launched, launched + 1}
  PROVE  /\ TurnOk' /\ turn' \in 0..Len(cpus') + 1 /\ sent' = "nothing" /\ polling' \in BOOLEAN
         /\ launched' \in 0..Len(MadtIds) /\ launched' >= launched
<1>1. turn \in 1..Len(cpus) /\ Len(cpus) \in Nat /\ DOMAIN cpus = 1..Len(cpus) /\ turn' = turn + 1 /\ sent' = "nothing"
      /\ polling' \in BOOLEAN
  BY SmpTypes DEF Starting, SmpInv, NextProcessor
<1>2. /\ cpus \in Seq(Ids) /\ Len(cpus) <= Len(MadtIds) /\ \A i \in DOMAIN cpus : cpus[i] = MadtIds[i]
      /\ launched = 0 \/ launched < turn
      /\ cpus # <<>>
      /\ \A i \in DOMAIN cpus : i > turn => ap[cpus[i]] = "off"
      /\ \A a \in Ids : a = BootId => ap[a] = "off"
  BY <1>1 DEF SmpInv, TurnOk
<1>3. launched \in Nat /\ Len(MadtIds) \in Nat
  BY IdsFinite, SmpTypes DEF SmpInv
<1>4. \A i \in DOMAIN cpus' : i > turn' \/ (i = turn' /\ sent' \in {"nothing", "slots"}) => (ap')[cpus'[i]] = "off"
  BY <1>1, <1>2
<1>5. turn' # 0 /\ (launched' = 0 \/ launched' < turn') /\ launched' \in 0..Len(MadtIds) /\ launched' >= launched
  BY <1>1, <1>2, <1>3
<1> QED BY <1>1, <1>2, <1>4, <1>5 DEF TurnOk

\* What the processors hold does not change.
LEMMA ProcessorsStay ==
  ASSUME SmpInv, UNCHANGED <<ap, mine, alive, seen, prcb, late>>, AwakeBefore' \subseteq AwakeBefore, launched' >= launched,
         launched' \in Nat
  PROVE  OwnSlots' /\ EveryCounted'
<1>1. OwnSlots'
  BY DEF SmpInv, OwnSlots
<1>2. Living' = Living
  BY DEF Living
<1>3. Cardinality(AwakeBefore') <= Cardinality(AwakeBefore) /\ Cardinality(AwakeBefore') \in Nat
  BY LivingFinite, FS_Subset, FS_CardinalityType
<1>4. Cardinality(AwakeBefore') <= launched'
  BY <1>3, LivingFinite, IdsFinite, SmpTypes DEF SmpInv, EveryCounted
<1> QED BY <1>1, <1>2, <1>4 DEF SmpInv, EveryCounted

LEMMA ParseKept ==
  ASSUME SmpInv, Parse
  PROVE  SmpInv'
<1>1. cpus = <<>> /\ UNCHANGED <<sent, slots, launched, polling, blocks, ap, mine, alive, seen, prcb, late>>
  BY DEF Parse, apVars
<1>2. turn = 0 /\ sent = "nothing" /\ launched = 0
  <2>1. turn = 0
    BY <1>1 DEF SmpInv, TurnOk
  <2>2. sent = "nothing"
    BY <1>1 DEF SmpInv, TurnOk, Starting
  <2> QED BY <2>1, <2>2, IdsFinite, SmpTypes DEF SmpInv, TurnOk
<1>3. \A a \in Ids : ap[a] = "off"
  BY <1>2 DEF SmpInv, TurnOk
<1>4. AwakeBefore' \subseteq AwakeBefore
  BY <1>1, <1>3 DEF AwakeBefore, Awake
<1>5. OwnSlots' /\ EveryCounted'
  BY <1>1, <1>2, <1>4, ProcessorsStay
<1>6. CASE cpus' = <<BootId>> /\ turn' = 0
  <2>1. cpus' \in Seq(Ids \union {BootId}) /\ Len(cpus') = 1 /\ turn' \in 0..Len(cpus') + 1 /\ DOMAIN cpus' = 1..1
    BY <1>6
  <2>2. TurnOk'
    BY <1>1, <1>2, <1>3, <1>6, <2>1 DEF TurnOk, Starting
  <2>3. SmpTypeOK'
    BY <1>1, <2>1, SmpSizesOK DEF SmpInv, SmpTypeOK, Ids
  <2> QED BY <1>5, <2>2, <2>3 DEF SmpInv
<1>7. CASE cpus' # <<BootId>> \/ turn' # 0
  <2> DEFINE m == IF Len(MadtIds) > MaxCpus THEN MaxCpus ELSE Len(MadtIds)
  <2>1. cpus' = SubSeq(MadtIds, 1, m) /\ turn' = IF Len(cpus') <= 1 THEN 0 ELSE 1
    BY <1>7 DEF Parse
  <2>2. m \in 0..Len(MadtIds) /\ m <= MaxCpus /\ Len(MadtIds) \in Nat /\ m \in Nat
    BY SmpSizesOK, IdsFinite
  <2>3. MadtIds \in Seq(Ids)
    BY IdsFinite, SmpSizesOK DEF Ids, IdsOf
  <2> HIDE DEF m
  <2>4. cpus' \in Seq(Ids) /\ Len(cpus') = m /\ DOMAIN cpus' = 1..m /\ \A i \in 1..m : cpus'[i] = MadtIds[i]
    BY <2>1, <2>2, <2>3
  <2>5. turn' \in {0, 1} /\ turn' \in 0..Len(cpus') + 1 /\ (turn' # 0 => cpus' # <<>>)
    BY <2>1, <2>2, <2>4
  <2>6. \A i \in DOMAIN cpus' : (ap')[cpus'[i]] = "off"
    <3> TAKE i \in DOMAIN cpus'
    <3>1. cpus'[i] \in Ids
      BY <2>4
    <3> QED BY <3>1, <1>1, <1>3
  <2>7. TurnOk'
    BY <1>1, <1>2, <1>3, <2>2, <2>4, <2>5, <2>6 DEF TurnOk, Starting
  <2>8. cpus' \in Seq(Ids \union {BootId})
    BY <2>4
  <2>9. SmpTypeOK'
    BY <1>1, <2>2, <2>4, <2>5, <2>8 DEF SmpInv, SmpTypeOK, Ids
  <2> QED BY <1>5, <2>7, <2>9 DEF SmpInv
<1> QED BY <1>6, <1>7

LEMMA TargetIs ==
  ASSUME SmpInv, Starting
  PROVE  /\ Target \in Ids /\ turn # 0 /\ turn \in 1..Len(cpus) /\ DOMAIN cpus = 1..Len(cpus) /\ Len(cpus) \in Nat
         /\ \A i \in DOMAIN cpus : cpus[i] = Target => i = turn
         /\ sent \in {"nothing", "slots"} => ap[Target] = "off"
<1>1. turn \in 1..Len(cpus) /\ DOMAIN cpus = 1..Len(cpus) /\ Len(cpus) \in Nat /\ turn # 0
  BY SmpTypes DEF Starting, SmpInv
<1>2. cpus \in Seq(Ids) /\ Len(cpus) <= Len(MadtIds) /\ \A i \in DOMAIN cpus : cpus[i] = MadtIds[i]
  BY <1>1 DEF SmpInv, TurnOk
<1>3. \A i \in DOMAIN cpus : cpus[i] = Target => i = turn
  BY <1>1, <1>2, MadtOK, IdsFinite DEF Target
<1> QED BY <1>1, <1>2, <1>3 DEF Target, SmpInv, TurnOk

\* The boot processor.
LEMMA BootKept ==
  ASSUME SmpInv, SkipBoot \/ WriteSlots \/ EndWait
  PROVE  SmpInv'
<1>0. launched \in Nat /\ launched \in 0..Len(MadtIds) /\ Len(MadtIds) \in Nat
  BY IdsFinite, SmpTypes DEF SmpInv
<1>1. ASSUME Starting, sent = "nothing", NextProcessor, UNCHANGED <<cpus, slots, launched, apVars>>, blocks' \in 0..StartBlocks
      PROVE SmpInv'
  <2>1. UNCHANGED <<ap, mine, alive, seen, prcb, late>>
    BY <1>1 DEF apVars
  <2>2. TurnOk' /\ turn' \in 0..Len(cpus') + 1 /\ sent' = "nothing" /\ polling' \in BOOLEAN
    BY <1>1, <2>1, TurnNext
  <2>3. AwakeBefore' \subseteq AwakeBefore
    BY <1>1, <2>1, <2>2 DEF AwakeBefore, Awake
  <2>4. OwnSlots' /\ EveryCounted'
    BY <1>0, <1>1, <2>1, <2>3, ProcessorsStay
  <2>5. SmpTypeOK'
    BY <1>1, <2>1, <2>2 DEF SmpInv, SmpTypeOK, Ids
  <2> QED BY <2>2, <2>4, <2>5 DEF SmpInv
<1>2. CASE SkipBoot
  BY <1>1, <1>2, SmpTypes DEF SkipBoot, SmpInv
<1>3. CASE WriteSlots /\ blocks < 2
  BY <1>1, <1>3, SmpSizesOK DEF WriteSlots
<1>4. CASE WriteSlots /\ ~(blocks < 2)
  <2>1. /\ Starting /\ sent = "nothing" /\ Target # BootId /\ sent' = "slots" /\ slots' = Target /\ blocks' = blocks - 2
        /\ UNCHANGED <<cpus, turn, polling, launched, ap, mine, alive, seen, prcb, late>>
    BY <1>4 DEF WriteSlots, apVars
  <2>2. Target \in Ids /\ ap[Target] = "off"
    BY <2>1, TargetIs
  <2>3. TurnOk'
    BY <2>1 DEF SmpInv, TurnOk, Starting, Target
  <2>4. AwakeBefore' \subseteq AwakeBefore
    BY <2>1 DEF AwakeBefore, Awake
  <2>5. OwnSlots' /\ EveryCounted'
    BY <1>0, <2>1, <2>4, ProcessorsStay
  <2>6. blocks' \in 0..StartBlocks
    BY <1>4, <2>1, SmpSizesOK, SmpTypes DEF SmpInv
  <2>7. SmpTypeOK'
    BY <2>1, <2>2, <2>6 DEF SmpInv, SmpTypeOK, Ids
  <2> QED BY <2>3, <2>5, <2>7 DEF SmpInv
<1>5. CASE EndWait
  <2>1. polling' = FALSE /\ UNCHANGED <<cpus, turn, sent, slots, launched, blocks, ap, mine, alive, seen, prcb, late>>
    BY <1>5 DEF EndWait, apVars
  <2>2. TurnOk'
    BY <2>1 DEF SmpInv, TurnOk, Starting, Target
  <2>4. AwakeBefore' \subseteq AwakeBefore
    BY <2>1 DEF AwakeBefore, Awake, Target
  <2>5. OwnSlots' /\ EveryCounted'
    BY <1>0, <2>1, <2>4, ProcessorsStay
  <2>6. SmpTypeOK'
    BY <2>1 DEF SmpInv, SmpTypeOK, Ids
  <2> QED BY <2>2, <2>5, <2>6 DEF SmpInv
<1> QED BY <1>2, <1>3, <1>4, <1>5

\* The commands it sends.
LEMMA CommandsKept ==
  ASSUME SmpInv, SendInit \/ SendSipi
  PROVE  SmpInv'
<1>0. launched \in Nat /\ launched \in 0..Len(MadtIds) /\ Len(MadtIds) \in Nat /\ ap \in [Ids -> Phase]
  BY IdsFinite, SmpTypes DEF SmpInv
<1>1. Starting /\ sent \in {"slots", "INIT", "SIPI"} /\ UNCHANGED <<cpus, slots, blocks, mine, alive, seen, prcb, late>>
  BY DEF SendInit, SendSipi
<1>2. Target \in Ids /\ Target # BootId /\ turn # 0 /\ turn \in 1..Len(cpus) /\ DOMAIN cpus = 1..Len(cpus) /\ Len(cpus) \in Nat
      /\ (\A i \in DOMAIN cpus : cpus[i] = Target => i = turn) /\ (sent = "slots" => ap[Target] = "off")
  BY <1>1, TargetIs DEF SmpInv, TurnOk
<1>3. CASE SendInit
  <2>1. sent = "slots" /\ sent' = "INIT" /\ ap' = [ap EXCEPT ![Target] = "init"] /\ UNCHANGED <<turn, launched, polling>>
    BY <1>3 DEF SendInit
  <2>2. ap' \in [Ids -> Phase] /\ (ap')[Target] = "init" /\ \A a \in Ids : a # Target => (ap')[a] = ap[a]
    BY <1>0, <1>2, <2>1 DEF Phase
  <2>3. Living' = Living /\ AwakeBefore' = AwakeBefore
    <3>1. Living' = Living
      BY <1>2, <2>1, <2>2 DEF Living
    <3>2. \A a \in Ids : a \in Awake' <=> a \in Awake
      BY <1>2, <2>1, <2>2 DEF Awake
    <3> QED BY <3>1, <3>2, <2>1 DEF AwakeBefore, Awake
  <2>4. EveryCounted'
    BY <1>1, <2>1, <2>3 DEF SmpInv, EveryCounted
  <2>5. OwnSlots'
    BY <1>1, <2>2 DEF SmpInv, OwnSlots, HasEntered
  <2>6. \A i \in DOMAIN cpus : i > turn => (ap')[cpus[i]] = "off"
    <3> TAKE i \in DOMAIN cpus
    <3>1. CASE i > turn
      <4>1. cpus[i] # Target /\ cpus[i] \in Ids /\ ap[cpus[i]] = "off"
        BY <1>1, <1>2, <3>1 DEF SmpInv, TurnOk
      <4> QED BY <4>1, <2>2
    <3> QED BY <3>1
  <2>7. TurnOk'
    BY <1>1, <1>2, <2>1, <2>2, <2>6 DEF SmpInv, TurnOk, Starting, Target
  <2>8. SmpTypeOK'
    BY <1>1, <2>1, <2>2 DEF SmpInv, SmpTypeOK, Ids
  <2> QED BY <2>4, <2>5, <2>7, <2>8 DEF SmpInv
<1>4. CASE SendSipi
  <2>1. /\ sent \in {"INIT", "SIPI"}
        /\ ap' = ap \/ (ap[Target] = "init" /\ ap' = [ap EXCEPT ![Target] = "stack"])
    BY <1>4 DEF SendSipi
  <2>2. /\ ap' \in [Ids -> Phase] /\ \A a \in Ids : a # Target => (ap')[a] = ap[a]
        /\ (ap')[Target] = ap[Target] \/ (ap[Target] = "init" /\ (ap')[Target] = "stack")
    BY <1>0, <1>2, <2>1 DEF Phase
  <2>3. Living' = Living
    BY <1>2, <2>2 DEF Living
  <2>4. OwnSlots'
    BY <1>1, <1>2, <2>2 DEF SmpInv, OwnSlots, HasEntered
  <2>5. Awake' \subseteq Awake \union {Target}
    BY <1>2, <2>2 DEF Awake
  <2>6. \A i \in DOMAIN cpus : i > turn => (ap')[cpus[i]] = "off"
    <3> TAKE i \in DOMAIN cpus
    <3>1. CASE i > turn
      <4>1. cpus[i] # Target /\ cpus[i] \in Ids /\ ap[cpus[i]] = "off"
        BY <1>1, <1>2, <3>1 DEF SmpInv, TurnOk
      <4> QED BY <4>1, <2>2
    <3> QED BY <3>1
  <2>7. CASE sent = "INIT"
    <3>1. sent' = "SIPI" /\ UNCHANGED <<turn, polling, launched>>
      BY <2>7, <1>4 DEF SendSipi
    <3>2. AwakeBefore' \subseteq AwakeBefore
      BY <1>1, <2>5, <2>7, <3>1 DEF AwakeBefore, Awake, Target
    <3>3. Cardinality(AwakeBefore') <= Cardinality(AwakeBefore) /\ Cardinality(AwakeBefore') \in Nat
      BY <3>2, LivingFinite, FS_Subset, FS_CardinalityType
    <3>4. EveryCounted'
      BY <1>0, <1>1, <2>3, <3>1, <3>3, LivingFinite DEF SmpInv, EveryCounted
    <3>5. TurnOk'
      BY <1>1, <1>2, <2>2, <2>6, <3>1 DEF SmpInv, TurnOk, Starting, Target
    <3>6. SmpTypeOK'
      BY <1>1, <2>2, <3>1 DEF SmpInv, SmpTypeOK, Ids
    <3> QED BY <2>4, <3>4, <3>5, <3>6 DEF SmpInv
  <2>8. CASE sent = "SIPI"
    <3>1. NextProcessor /\ launched' = launched + 1
      BY <2>8, <1>4 DEF SendSipi
    <3>2. turn' = turn + 1 /\ sent' = "nothing" /\ polling' \in BOOLEAN
      BY <3>1 DEF NextProcessor
    <3>3. AwakeBefore' \subseteq AwakeBefore \union {Target}
      BY <2>5, <2>8 DEF AwakeBefore, Awake
    <3>4. Cardinality(AwakeBefore \union {Target}) <= Cardinality(AwakeBefore) + 1
          /\ IsFiniteSet(AwakeBefore \union {Target}) /\ Cardinality(AwakeBefore \union {Target}) \in Nat
      BY LivingFinite, OneMore
    <3>5. Cardinality(AwakeBefore') <= Cardinality(AwakeBefore \union {Target}) /\ Cardinality(AwakeBefore') \in Nat
      BY <3>3, <3>4, FS_Subset, FS_CardinalityType
    <3>6. Cardinality(AwakeBefore') <= launched'
      BY <1>0, <3>1, <3>4, <3>5, LivingFinite DEF SmpInv, EveryCounted
    <3>7. EveryCounted'
      BY <1>1, <2>3, <3>6 DEF SmpInv, EveryCounted
    <3>8. /\ cpus \in Seq(Ids) /\ Len(cpus) <= Len(MadtIds) /\ \A i \in DOMAIN cpus : cpus[i] = MadtIds[i]
          /\ launched = 0 \/ launched < turn
          /\ cpus # <<>>
          /\ \A a \in Ids : a = BootId => ap[a] = "off"
      BY <1>2 DEF SmpInv, TurnOk
    <3>9. launched' < turn' /\ launched' \in 0..Len(MadtIds) /\ turn' \in 0..Len(cpus) + 1
      BY <1>0, <1>2, <3>1, <3>2, <3>8
    <3>10. TurnOk'
      <4>1. \A i \in DOMAIN cpus' : i > turn' \/ (i = turn' /\ sent' \in {"nothing", "slots"}) => (ap')[cpus'[i]] = "off"
        BY <1>1, <1>2, <2>6, <3>2
      <4>2. \A a \in Ids : a = BootId => (ap')[a] = "off"
        BY <1>2, <2>2, <3>8
      <4>3. turn' # 0
        BY <1>2, <3>2
      <4> QED BY <1>1, <3>2, <3>8, <3>9, <4>1, <4>2, <4>3 DEF TurnOk
    <3>11. SmpTypeOK'
      BY <1>1, <2>2, <3>2, <3>9 DEF SmpInv, SmpTypeOK, Ids
    <3> QED BY <2>4, <3>7, <3>10, <3>11 DEF SmpInv
  <2> QED BY <2>1, <2>7, <2>8
<1> QED BY <1>3, <1>4

\* A processor that starts.
LEMMA ProcessorKept ==
  ASSUME SmpInv, NEW a \in Ids, ReadSlot(a) \/ SignalAlive(a) \/ InitProcessor(a) \/ EnterWorker(a)
  PROVE  SmpInv'
<1>0. ap \in [Ids -> Phase] /\ alive \in Nat /\ MaxCpus \in Nat
  BY SmpSizesOK, SmpTypes DEF SmpInv
<1>1. /\ UNCHANGED <<cpus, turn, sent, slots, launched, polling, blocks>>
      /\ ap[a] \in {"stack", "kpcr", "entry", "alive", "online"}
      /\ \E p \in {"kpcr", "entry", "alive", "online", "working"} : ap' = [ap EXCEPT ![a] = p]
  BY DEF ReadSlot, SignalAlive, InitProcessor, EnterWorker
<1>2. /\ ap' \in [Ids -> Phase] /\ (ap')[a] \in {"kpcr", "entry", "alive", "online", "working"}
      /\ \A b \in Ids : b # a => (ap')[b] = ap[b]
  BY <1>0, <1>1 DEF Phase
<1>3. Awake' = Awake /\ AwakeBefore' = AwakeBefore
  <2>1. Awake' = Awake
    BY <1>1, <1>2 DEF Awake
  <2> QED BY <2>1, <1>1 DEF AwakeBefore, Target
<1>4. a # BootId
  BY <1>1 DEF SmpInv, TurnOk
<1>5. TurnOk'
  <2>1. \A b \in Ids : ap[b] = "off" => (ap')[b] = "off"
    BY <1>1, <1>2
  <2>2. Starting => \A i \in DOMAIN cpus : cpus[i] \in Ids
    BY TargetIs DEF SmpInv, TurnOk
  <2>3. \A b \in Ids : b = BootId => (ap')[b] = "off"
    BY <2>1 DEF SmpInv, TurnOk
  <2>4. turn = 0 => \A b \in Ids : (ap')[b] = "off"
    BY <2>1 DEF SmpInv, TurnOk
  <2>5. Starting => \A i \in DOMAIN cpus : i > turn \/ (i = turn /\ sent \in {"nothing", "slots"}) => (ap')[cpus[i]] = "off"
    BY <2>1, <2>2 DEF SmpInv, TurnOk
  <2> QED BY <1>1, <2>3, <2>4, <2>5 DEF SmpInv, TurnOk, Starting, Target
<1>6. CASE ReadSlot(a)
  <2>1. /\ \/ ap[a] = "stack" /\ mine' = [mine EXCEPT ![a].stack = slots] /\ ap' = [ap EXCEPT ![a] = "kpcr"]
           \/ ap[a] = "kpcr" /\ mine' = [mine EXCEPT ![a].kpcr = slots] /\ ap' = [ap EXCEPT ![a] = "entry"]
        /\ late' = (late \/ slots # a) /\ UNCHANGED <<alive, seen, prcb>>
    BY <1>6 DEF ReadSlot
  <2>2. mine \in [Ids -> [stack : Ids \union {NoCpu}, kpcr : Ids \union {NoCpu}]] /\ slots \in Ids \union {NoCpu}
    BY SmpTypes DEF SmpInv
  <2>3. /\ mine' \in [Ids -> [stack : Ids \union {NoCpu}, kpcr : Ids \union {NoCpu}]]
        /\ \A b \in Ids : b # a => (mine')[b] = mine[b]
        /\ \/ ap[a] = "stack" /\ (ap')[a] = "kpcr" /\ (mine')[a].stack = slots
           \/ ap[a] = "kpcr" /\ (ap')[a] = "entry" /\ (mine')[a].stack = mine[a].stack /\ (mine')[a].kpcr = slots
    BY <1>0, <2>1, <2>2
  <2>4. OwnSlots'
    BY <1>2, <2>1, <2>3 DEF SmpInv, OwnSlots, HasEntered
  <2>5. Living' = Living
    BY <1>2, <2>1, <2>3 DEF Living
  <2>6. EveryCounted'
    BY <1>1, <1>3, <2>1, <2>5 DEF SmpInv, EveryCounted
  <2>7. late' \in BOOLEAN
    BY <2>1
  <2>8. SmpTypeOK'
    BY <1>1, <1>2, <2>1, <2>3, <2>7 DEF SmpInv, SmpTypeOK, Ids
  <2> QED BY <1>5, <2>4, <2>6, <2>8 DEF SmpInv
<1>7. CASE SignalAlive(a)
  <2>1. /\ ap[a] = "entry" /\ ap' = [ap EXCEPT ![a] = "alive"] /\ alive' = alive + 1
        /\ seen' = (IF a < MaxCpus THEN seen \union {a} ELSE seen) /\ UNCHANGED <<mine, prcb, late>>
    BY <1>7 DEF SignalAlive
  <2>2. (ap')[a] = "alive"
    BY <1>0, <2>1
  <2>3. Living' = Living \union {a} /\ a \notin Living
    BY <1>2, <2>1, <2>2 DEF Living
  <2>4. Cardinality(Living') = Cardinality(Living) + 1
    BY <2>3, LivingFinite, FS_AddElement
  <2>5. EveryCounted'
    BY <1>1, <1>3, <2>1, <2>3, <2>4 DEF SmpInv, EveryCounted
  <2>6. OwnSlots'
    BY <1>2, <2>1, <2>2 DEF SmpInv, OwnSlots, HasEntered
  <2>7. seen' \subseteq 0..MaxCpus - 1 /\ alive' \in Nat
    BY <1>0, <2>1, IdsFinite, SmpTypes DEF SmpInv
  <2>8. SmpTypeOK'
    BY <1>1, <1>2, <2>1, <2>7 DEF SmpInv, SmpTypeOK, Ids
  <2> QED BY <1>5, <2>5, <2>6, <2>8 DEF SmpInv
<1>8. CASE InitProcessor(a)
  <2>1. /\ ap[a] = "alive" /\ ap' = [ap EXCEPT ![a] = "online"]
        /\ prcb' = (IF a < MaxCpus THEN [prcb EXCEPT ![a] = @ \union {a}] ELSE prcb) /\ UNCHANGED <<mine, alive, seen, late>>
    BY <1>8 DEF InitProcessor
  <2>2. (ap')[a] = "online"
    BY <1>0, <2>1
  <2>3. Living' = Living
    BY <1>2, <2>1, <2>2 DEF Living
  <2>4. prcb \in [0..MaxCpus - 1 -> SUBSET (Ids \union {BootId})]
    BY SmpTypes DEF SmpInv
  <2>5. a \in Nat /\ a # 0
    <3>1. a \in Nat
      BY IdsFinite
    <3>2. a # 0
      BY <1>4, MadtOK DEF Ids
    <3> QED BY <3>1, <3>2
  <2>6. prcb' \in [0..MaxCpus - 1 -> SUBSET (Ids \union {BootId})]
        /\ \A n \in 0..MaxCpus - 1 : (prcb')[n] = IF n = a THEN prcb[n] \union {a} ELSE prcb[n]
    <3>1. CASE a < MaxCpus
      <4>1. a \in 0..MaxCpus - 1 /\ prcb' = [prcb EXCEPT ![a] = @ \union {a}]
        BY <1>0, <2>1, <2>5, <3>1
      <4>2. prcb[a] \union {a} \in SUBSET (Ids \union {BootId})
        BY <2>4, <4>1
      <4> QED BY <2>4, <4>1, <4>2
    <3>2. CASE ~(a < MaxCpus)
      BY <1>0, <2>1, <2>4, <2>5, <3>2
    <3> QED BY <3>1, <3>2
  <2>7. \A n \in 0..MaxCpus - 1 : (prcb')[n] \subseteq (IF n = 0 THEN {BootId} ELSE {n})
    BY <2>5, <2>6 DEF SmpInv, EveryCounted
  <2>8. EveryCounted'
    BY <1>1, <1>3, <2>1, <2>3, <2>7 DEF SmpInv, EveryCounted
  <2>9. OwnSlots'
    BY <1>2, <2>1, <2>2 DEF SmpInv, OwnSlots, HasEntered
  <2>10. SmpTypeOK'
    BY <1>1, <1>2, <2>1, <2>6 DEF SmpInv, SmpTypeOK, Ids
  <2> QED BY <1>5, <2>8, <2>9, <2>10 DEF SmpInv
<1>9. CASE EnterWorker(a)
  <2>1. ap[a] = "online" /\ ap' = [ap EXCEPT ![a] = "working"] /\ UNCHANGED <<mine, alive, seen, prcb, late>>
    BY <1>9 DEF EnterWorker
  <2>2. (ap')[a] = "working"
    BY <1>0, <2>1
  <2>3. Living' = Living
    BY <1>2, <2>1, <2>2 DEF Living
  <2>4. EveryCounted'
    BY <1>1, <1>3, <2>1, <2>3 DEF SmpInv, EveryCounted
  <2>5. OwnSlots'
    BY <1>2, <2>1, <2>2 DEF SmpInv, OwnSlots, HasEntered
  <2>6. SmpTypeOK'
    BY <1>1, <1>2, <2>1 DEF SmpInv, SmpTypeOK, Ids
  <2> QED BY <1>5, <2>4, <2>5, <2>6 DEF SmpInv
<1> QED BY <1>6, <1>7, <1>8, <1>9

LEMMA SmpStepKept == ASSUME SmpInv, [SmpNext]_smpVars PROVE SmpInv'
<1>1. CASE SmpNext
  BY <1>1, ParseKept, BootKept, CommandsKept, ProcessorKept DEF SmpNext, Ids
<1>2. CASE UNCHANGED smpVars
  <2> USE <1>2 DEF smpVars, SmpInv
  <2>1. SmpTypeOK'
    BY DEF SmpTypeOK, Ids
  <2>2. TurnOk'
    BY DEF TurnOk, Starting, Target
  <2>3. OwnSlots'
    BY DEF OwnSlots
  <2>4. EveryCounted'
    BY DEF EveryCounted, Living, AwakeBefore, Awake, Target
  <2> QED BY <2>1, <2>2, <2>3, <2>4
<1> QED BY <1>1, <1>2

\* Two processors share no stack and no KPCR unless one came late, the living are counted and
\* each entry of the scheduler has one processor: for every MADT that names a processor once
\* (smp.c:128-300).
THEOREM StartCorrect == SmpSpec => [](SmpTypeOK /\ StartSound)
<1>1. SmpInit => SmpInv
  BY SmpStart
<1>2. SmpInv /\ [SmpNext]_smpVars => SmpInv'
  BY SmpStepKept
<1>3. SmpInv => SmpTypeOK /\ StartSound
  BY SmpInvPromises
<1> QED BY <1>1, <1>2, <1>3, PTL DEF SmpSpec

-----------------------------------------------------------------------------
(* Interrupts.                                                               *)

IntVector == {0, 32, Keyboard, Mouse, DriverVector, Timer, Spurious}
LapicVector == {Keyboard, Mouse, DriverVector, Timer}
InitStage == {"start", "calibrating", "clock", "keyboard", "mouse", "lint0", "pic", "active", "failed"}

LinesType ==
  /\ apicInit \in InitStage /\ window \in 0..CalibrationTicks
  /\ pic \in [req : SUBSET {0, 1}, isr : SUBSET {0, 1}, on : BOOLEAN]
  /\ lapic \in [req : SUBSET LapicVector, isr : SUBSET LapicVector, lint0 : BOOLEAN, clock : BOOLEAN]
  /\ routed \subseteq IoVector /\ active \in BOOLEAN
  /\ trap \in [vector : IntVector, phase : {"none", "body", "eoi", "gate"}]
  /\ trapIrql \in TrapIrql /\ preempts \in BOOLEAN /\ early \in BOOLEAN

\* How far the machine has moved to the APICs.
ChangeOver ==
  /\ active <=> apicInit = "active"
  /\ pic.on <=> apicInit \notin {"pic", "active"}
  /\ lapic.lint0 <=> apicInit \notin {"lint0", "pic", "active"}
  /\ apicInit \in {"clock", "keyboard", "mouse", "lint0", "pic", "active"} => lapic.clock
  /\ apicInit \in {"keyboard", "mouse", "lint0", "pic", "active"} => Keyboard \in routed
  /\ lapic.req \subseteq routed \union {Timer}
  /\ ~active => lapic.req \subseteq {Keyboard, Timer} /\ DriverVector \notin routed

\* What an interrupt that was ended at the wrong controller leaves in service.
Stale == IF early THEN {Keyboard} ELSE {}

\* What is in service, by what is handled: nothing, an interrupt of the 8259, or one of the
\* local APIC, which is above what is stale.
ServesNothing ==
  /\ trap = NoTrap \/ trap.phase = "gate" \/ (trap.phase = "body" /\ trap.vector = Spurious)
  /\ pic.isr = {} /\ lapic.isr \subseteq Stale
ServesPic ==
  /\ trap.phase \in {"body", "eoi"} /\ ~active
  /\ \E line \in {0, 1} : trap.vector = 32 + line /\ pic.isr = {line}
  /\ lapic.isr \subseteq Stale
ServesApic ==
  /\ trap.phase \in {"body", "eoi"} /\ pic.isr = {} /\ trap.vector \in LapicVector
  /\ trap.vector \in lapic.isr /\ lapic.isr \subseteq {trap.vector} \union Stale
  /\ trap.vector # Keyboard /\ Keyboard \in lapic.isr => trap.vector \in {DriverVector, Timer}
  /\ trap.vector # Timer /\ ~active => trap.vector = Keyboard /\ early

LinesInv == LinesType /\ ChangeOver /\ (ServesNothing \/ ServesPic \/ ServesApic)

LEMMA Priorities ==
  /\ Keyboard \div 16 = 2 /\ Mouse \div 16 = 2 /\ DriverVector \div 16 = 4 /\ Timer \div 16 = 13
  /\ Keyboard = 33 /\ Mouse = 44 /\ DriverVector = 64 /\ Timer = 209 /\ Spurious = 255
BY DEF Keyboard, Mouse, DriverVector, Timer, Spurious

LEMMA HighestVector ==
  ASSUME NEW T \in SUBSET LapicVector, T # {}
  PROVE  Max(T) \in T /\ \A y \in T : y <= Max(T)
<1>1. T \in SUBSET (1..255)
  BY Priorities DEF LapicVector
<1>2. 255 \in Nat
  OBVIOUS
<1> QED BY <1>1, <1>2, T # {}, GreatestIn

LEMMA LowestLine ==
  ASSUME NEW T \in SUBSET {0, 1}, T # {}
  PROVE  Min(T) \in T /\ \A y \in T : Min(T) <= y
BY LeastIn

LEMMA LinesPromise == LinesInv => NothingInService /\ EveryLineArrives
<1> SUFFICES ASSUME LinesInv PROVE NothingInService /\ EveryLineArrives
  OBVIOUS
<1>1. NothingInService
  <2> SUFFICES ASSUME Interrupted \/ trap.phase = "gate"
               PROVE  pic.isr = {} /\ lapic.isr \subseteq Stale
    BY DEF NothingInService, Stale
  <2>1. trap.phase \notin {"body", "eoi"}
    BY DEF Interrupted, NoTrap
  <2> QED BY <2>1 DEF LinesInv, ServesNothing, ServesPic, ServesApic
<1>2. EveryLineArrives
  BY DEF EveryLineArrives, LinesInv, LinesType, InitStage, ChangeOver
<1> QED BY <1>1, <1>2

LEMMA LinesStart == TrapInit => LinesInv
<1> SUFFICES ASSUME TrapInit PROVE LinesInv
  OBVIOUS
<1>1. LinesType
  <2>1. trap \in [vector : IntVector, phase : {"none", "body", "eoi", "gate"}]
    BY DEF TrapInit, NoTrap, IntVector
  <2>2. window \in 0..CalibrationTicks /\ trapIrql \in TrapIrql
    BY TrapSizesOK DEF TrapInit
  <2>3. pic \in [req : SUBSET {0, 1}, isr : SUBSET {0, 1}, on : BOOLEAN]
        /\ lapic \in [req : SUBSET LapicVector, isr : SUBSET LapicVector, lint0 : BOOLEAN, clock : BOOLEAN]
    BY DEF TrapInit
  <2> QED BY <2>1, <2>2, <2>3 DEF TrapInit, LinesType, InitStage
<1>2. ChangeOver
  BY DEF TrapInit, ChangeOver
<1>3. ServesNothing
  BY DEF TrapInit, ServesNothing
<1> QED BY <1>1, <1>2, <1>3 DEF LinesInv

\* A step of apic_init, or of the code after it, between interrupts.
LEMMA InitsKept ==
  ASSUME LinesInv,
         \/ MappingFails \/ EnableLapic \/ StartClock \/ RouteKeyboard \/ RouteMouse \/ MaskLint0 \/ DisablePic \/ Activate
         \/ ConnectLine \/ SwitchOn \/ \E level \in TrapIrql : MoveIrql(level)
  PROVE  LinesInv'
<1> USE DEF LinesInv, LinesType, InitStage
<1>1. trap = NoTrap /\ trap' = trap /\ early' = early /\ window' = window
  BY DEF MappingFails, EnableLapic, StartClock, RouteKeyboard, RouteMouse, MaskLint0, DisablePic, Activate,
         ConnectLine, SwitchOn, MoveIrql, Goes, Interrupted
<1>2. ServesNothing
  BY <1>1 DEF ServesPic, ServesApic, NoTrap
<1>3. pic'.isr = pic.isr /\ lapic'.isr = lapic.isr /\ pic'.req = pic.req /\ lapic'.req = lapic.req
  BY DEF MappingFails, EnableLapic, StartClock, RouteKeyboard, RouteMouse, MaskLint0, DisablePic, Activate,
         ConnectLine, SwitchOn, MoveIrql
<1>4. ServesNothing'
  BY <1>1, <1>2, <1>3 DEF ServesNothing, Stale
<1>5. LinesType'
  <2>1. apicInit' \in InitStage /\ active' \in BOOLEAN /\ preempts' \in BOOLEAN /\ trapIrql' \in TrapIrql
    BY DEF MappingFails, EnableLapic, StartClock, RouteKeyboard, RouteMouse, MaskLint0, DisablePic, Activate,
           ConnectLine, SwitchOn, MoveIrql, Goes
  <2>2. routed' \subseteq IoVector
    BY DEF MappingFails, EnableLapic, StartClock, RouteKeyboard, RouteMouse, MaskLint0, DisablePic, Activate,
           ConnectLine, SwitchOn, MoveIrql, IoVector
  <2>3. pic' = pic \/ pic' = [pic EXCEPT !.on = FALSE]
    BY DEF MappingFails, EnableLapic, StartClock, RouteKeyboard, RouteMouse, MaskLint0, DisablePic, Activate,
           ConnectLine, SwitchOn, MoveIrql
  <2>4. lapic' = lapic \/ lapic' = [lapic EXCEPT !.lint0 = FALSE] \/ lapic' = [lapic EXCEPT !.clock = TRUE]
    BY DEF MappingFails, EnableLapic, StartClock, RouteKeyboard, RouteMouse, MaskLint0, DisablePic, Activate,
           ConnectLine, SwitchOn, MoveIrql
  <2>5. pic' \in [req : SUBSET {0, 1}, isr : SUBSET {0, 1}, on : BOOLEAN]
    BY <2>3
  <2>6. lapic' \in [req : SUBSET LapicVector, isr : SUBSET LapicVector, lint0 : BOOLEAN, clock : BOOLEAN]
    BY <2>4
  <2> QED BY <1>1, <2>1, <2>2, <2>5, <2>6
<1>6. ChangeOver'
  <2>0. DriverVector # Keyboard /\ DriverVector # Mouse
    BY Priorities
  <2> USE <1>1, <1>3, <2>0 DEF ChangeOver, Goes
  <2>1. CASE MappingFails \/ EnableLapic \/ StartClock
    BY <2>1 DEF MappingFails, EnableLapic, StartClock
  <2>2. CASE RouteKeyboard \/ RouteMouse
    BY <2>2 DEF RouteKeyboard, RouteMouse
  <2>3. CASE MaskLint0
    BY <2>3 DEF MaskLint0
  <2>4. CASE DisablePic
    BY <2>4 DEF DisablePic
  <2>5. CASE Activate
    BY <2>5 DEF Activate
  <2>6. CASE ConnectLine
    BY <2>6 DEF ConnectLine
  <2>7. CASE SwitchOn \/ \E level \in TrapIrql : MoveIrql(level)
    BY <2>7 DEF SwitchOn, MoveIrql
  <2> QED BY <2>1, <2>2, <2>3, <2>4, <2>5, <2>6, <2>7
<1> QED BY <1>4, <1>5, <1>6

\* A device raises its line.
LEMMA RaisesKept ==
  ASSUME LinesInv, (\E vector \in IoVector \union {32} : Raise(vector)) \/ RaiseClock
  PROVE  LinesInv'
<1>1. /\ UNCHANGED <<apicInit, window, routed, active, trap, trapIrql, preempts, early>>
      /\ pic'.isr = pic.isr /\ pic'.on = pic.on /\ lapic'.isr = lapic.isr /\ lapic'.lint0 = lapic.lint0
      /\ lapic'.clock = lapic.clock
  BY DEF Raise, RaiseClock, LinesInv, LinesType
<1>2. pic' \in [req : SUBSET {0, 1}, isr : SUBSET {0, 1}, on : BOOLEAN]
      /\ lapic' \in [req : SUBSET LapicVector, isr : SUBSET LapicVector, lint0 : BOOLEAN, clock : BOOLEAN]
      /\ lapic'.req \subseteq routed \union {Timer} /\ (~active => lapic'.req \subseteq {Keyboard, Timer})
  <2>1. CASE RaiseClock
    BY <2>1 DEF RaiseClock, LinesInv, LinesType, LapicVector, ChangeOver
  <2>2. ASSUME NEW vector \in IoVector \union {32}, Raise(vector)
        PROVE  /\ pic'.req \in SUBSET {0, 1} /\ lapic'.req \in SUBSET LapicVector
               /\ lapic'.req \subseteq routed \union {Timer} /\ (~active => lapic'.req \subseteq {Keyboard, Timer})
    <3>1. pic'.req = pic.req \union ({vector - 32} \cap {0, 1}) /\ lapic'.req = lapic.req \union ({vector} \cap routed)
      BY <2>2 DEF Raise, LinesInv, LinesType
    <3>2. {vector} \cap routed \subseteq IoVector
      BY DEF LinesInv, LinesType
    <3>3. ASSUME ~active, vector \in routed PROVE vector = Keyboard
      <4>1. vector # Mouse
        BY <2>2, <3>3 DEF Raise
      <4>2. vector # DriverVector
        BY <3>3 DEF LinesInv, ChangeOver
      <4> QED BY <3>2, <3>3, <4>1, <4>2 DEF IoVector
    <3> QED BY <3>1, <3>2, <3>3 DEF LinesInv, LinesType, ChangeOver, LapicVector, IoVector
  <2>3. ASSUME NEW vector \in IoVector \union {32}, Raise(vector)
        PROVE  /\ pic' = [pic EXCEPT !.req = pic'.req] /\ lapic' = [lapic EXCEPT !.req = lapic'.req]
    BY <2>3 DEF Raise, LinesInv, LinesType
  <2>4. CASE \E vector \in IoVector \union {32} : Raise(vector)
    <3>1. /\ pic'.req \in SUBSET {0, 1} /\ lapic'.req \in SUBSET LapicVector
          /\ lapic'.req \subseteq routed \union {Timer} /\ (~active => lapic'.req \subseteq {Keyboard, Timer})
      BY <2>4, <2>2
    <3>2. pic' = [pic EXCEPT !.req = pic'.req] /\ lapic' = [lapic EXCEPT !.req = lapic'.req]
      BY <2>4, <2>3
    <3> QED BY <3>1, <3>2 DEF LinesInv, LinesType
  <2> QED BY <2>1, <2>4
<1>3. LinesType'
  BY <1>1, <1>2 DEF LinesInv, LinesType
<1>4. ChangeOver'
  BY <1>1, <1>2 DEF LinesInv, ChangeOver
<1>5. ServesNothing' <=> ServesNothing
  BY <1>1 DEF ServesNothing, Stale
<1>6. ServesPic' <=> ServesPic
  BY <1>1 DEF ServesPic, Stale
<1>7. ServesApic' <=> ServesApic
  BY <1>1 DEF ServesApic, Stale
<1> QED BY <1>3, <1>4, <1>5, <1>6, <1>7 DEF LinesInv

\* An interrupt is taken.
LEMMA TakesKept ==
  ASSUME LinesInv, TakePic \/ TakeApic \/ TakeSpurious
  PROVE  LinesInv'
<1>0. trap = NoTrap /\ UNCHANGED <<apicInit, window, routed, active, trapIrql, preempts>>
  BY DEF TakePic, TakeApic, TakeSpurious, Interrupted
<1>1. pic.isr = {} /\ lapic.isr \subseteq Stale
  BY <1>0 DEF LinesInv, ServesNothing, ServesPic, ServesApic, NoTrap
<1>2. CASE TakePic
  <2> DEFINE line == Min(pic.req)
  <2>1. /\ pic.on /\ pic.req # {} /\ lapic' = lapic /\ early' = early
        /\ pic' = [pic EXCEPT !.req = @ \ {line}, !.isr = @ \union {line}]
        /\ trap' = [vector |-> 32 + line, phase |-> "body"]
    BY <1>2 DEF TakePic
  <2>2. line \in {0, 1}
    BY <2>1, LowestLine DEF LinesInv, LinesType
  <2> HIDE DEF line
  <2>3. pic' \in [req : SUBSET {0, 1}, isr : SUBSET {0, 1}, on : BOOLEAN] /\ pic'.isr = {line} /\ pic'.on = pic.on
    BY <1>1, <2>1, <2>2 DEF LinesInv, LinesType
  <2>4. trap' \in [vector : IntVector, phase : {"none", "body", "eoi", "gate"}]
    BY <2>1, <2>2, Priorities DEF IntVector
  <2>5. LinesType'
    BY <1>0, <2>1, <2>3, <2>4 DEF LinesInv, LinesType
  <2>6. ChangeOver'
    BY <1>0, <2>1, <2>3 DEF LinesInv, ChangeOver
  <2>7. ~active
    BY <2>1 DEF LinesInv, ChangeOver
  <2>8. ServesPic'
    BY <1>0, <1>1, <2>1, <2>2, <2>3, <2>7 DEF ServesPic, Stale
  <2> QED BY <2>5, <2>6, <2>8 DEF LinesInv
<1>3. CASE TakeApic
  <2> DEFINE vector == Max(lapic.req)
  <2>1. /\ lapic.req # {} /\ pic' = pic
        /\ \A s \in lapic.isr : vector \div 16 > s \div 16
        /\ lapic' = [lapic EXCEPT !.req = @ \ {vector}, !.isr = @ \union {vector}]
        /\ trap' = [vector |-> vector, phase |-> "body"]
        /\ early' = (early \/ (vector \in routed /\ ~active))
    BY <1>3 DEF TakeApic
  <2>2. vector \in lapic.req /\ vector \in LapicVector
    BY <2>1, HighestVector DEF LinesInv, LinesType
  <2> HIDE DEF vector
  <2>3. lapic' \in [req : SUBSET LapicVector, isr : SUBSET LapicVector, lint0 : BOOLEAN, clock : BOOLEAN]
        /\ lapic'.isr = lapic.isr \union {vector} /\ lapic'.lint0 = lapic.lint0 /\ lapic'.clock = lapic.clock
        /\ lapic'.req \subseteq lapic.req
    BY <2>1, <2>2 DEF LinesInv, LinesType
  <2>4. trap' \in [vector : IntVector, phase : {"none", "body", "eoi", "gate"}]
    BY <2>1, <2>2 DEF IntVector, LapicVector
  <2>5. LinesType'
    BY <1>0, <2>1, <2>3, <2>4 DEF LinesInv, LinesType
  <2>6. ChangeOver'
    BY <1>0, <2>1, <2>3 DEF LinesInv, ChangeOver
  <2>7. Stale \subseteq Stale'
    BY <2>1 DEF Stale
  <2>8. vector # Timer /\ ~active => vector = Keyboard /\ early'
    <3> SUFFICES ASSUME vector # Timer, ~active PROVE vector = Keyboard /\ early'
      OBVIOUS
    <3>1. lapic.req \subseteq {Keyboard, Timer} /\ lapic.req \subseteq routed \union {Timer}
      BY DEF LinesInv, ChangeOver
    <3>2. vector = Keyboard /\ vector \in routed
      BY <2>2, <3>1
    <3> QED BY <2>1, <3>2
  <2>9. vector # Keyboard /\ Keyboard \in lapic'.isr => vector \in {DriverVector, Timer}
    <3> SUFFICES ASSUME vector # Keyboard, Keyboard \in lapic'.isr PROVE vector # Mouse
      BY <2>2 DEF LapicVector
    <3>1. vector \div 16 > Keyboard \div 16
      BY <2>1, <2>3
    <3> QED BY <3>1, Priorities
  <2>10. ServesApic'
    BY <1>0, <1>1, <2>1, <2>2, <2>3, <2>7, <2>8, <2>9 DEF ServesApic
  <2> QED BY <2>5, <2>6, <2>10 DEF LinesInv
<1>4. CASE TakeSpurious
  <2>1. UNCHANGED <<pic, lapic, early>> /\ trap' = [vector |-> Spurious, phase |-> "body"]
    BY <1>4 DEF TakeSpurious
  <2>2. LinesType'
    BY <1>0, <2>1 DEF LinesInv, LinesType, IntVector
  <2>3. ChangeOver'
    BY <1>0, <2>1 DEF LinesInv, ChangeOver
  <2>4. ServesNothing'
    BY <1>1, <2>1 DEF ServesNothing, Stale
  <2> QED BY <2>2, <2>3, <2>4 DEF LinesInv
<1> QED BY <1>2, <1>3, <1>4

\* The handler, and the ends of the interrupt.
LEMMA HandlerKept ==
  ASSUME LinesInv, TrapBody \/ TrapEoi \/ TrapGate
  PROVE  LinesInv'
<1>0. UNCHANGED <<apicInit, routed, active, trapIrql, preempts, early>> /\ Stale' = Stale
  BY DEF TrapBody, TrapEoi, TrapGate, Stale
<1>t. trap \in [vector : IntVector, phase : {"none", "body", "eoi", "gate"}]
  BY DEF LinesInv, LinesType
<1>n. NoTrap \in [vector : IntVector, phase : {"none", "body", "eoi", "gate"}]
  BY DEF NoTrap, IntVector
<1>1. CASE TrapBody
  <2>1. trap.phase = "body" /\ UNCHANGED <<pic, lapic>> /\ trap' = IF trap.vector = Spurious THEN NoTrap ELSE [trap EXCEPT !.phase = "eoi"]
    BY <1>1 DEF TrapBody
  <2>2. window' \in 0..CalibrationTicks
    BY <1>1, TrapSizesOK DEF TrapBody, LinesInv, LinesType
  <2>3. trap' \in [vector : IntVector, phase : {"none", "body", "eoi", "gate"}]
    BY <2>1, <1>t, <1>n
  <2>4. LinesType'
    BY <1>0, <2>1, <2>2, <2>3 DEF LinesInv, LinesType
  <2>5. ChangeOver'
    BY <1>0, <2>1 DEF LinesInv, ChangeOver
  <2>6. CASE trap.vector = Spurious
    <3>1. trap.vector \notin {32, 33} \union LapicVector
      BY <2>6, Priorities DEF LapicVector
    <3>2. ServesNothing
      BY <3>1 DEF LinesInv, ServesPic, ServesApic
    <3>3. ServesNothing'
      BY <3>2, <2>1, <2>6, <1>0 DEF ServesNothing
    <3> QED BY <2>4, <2>5, <3>3 DEF LinesInv
  <2>7. CASE trap.vector # Spurious
    <3>1. ~ServesNothing
      BY <2>1, <2>7 DEF ServesNothing, NoTrap
    <3>2. trap'.vector = trap.vector /\ trap'.phase = "eoi"
      BY <2>1, <2>7, <1>t
    <3>3. ServesPic => ServesPic'
      BY <1>0, <2>1, <3>2 DEF ServesPic
    <3>4. ServesApic => ServesApic'
      BY <1>0, <2>1, <3>2 DEF ServesApic
    <3> QED BY <2>4, <2>5, <3>1, <3>3, <3>4 DEF LinesInv
  <2> QED BY <2>6, <2>7
<1>2. CASE TrapGate
  <2>1. trap.phase = "gate" /\ trap' = NoTrap /\ UNCHANGED <<window, pic, lapic>>
    BY <1>2 DEF TrapGate
  <2>2. LinesType' /\ ChangeOver'
    BY <1>0, <1>n, <2>1 DEF LinesInv, LinesType, ChangeOver
  <2>3. ServesNothing
    BY <2>1 DEF LinesInv, ServesPic, ServesApic
  <2>4. ServesNothing'
    BY <1>0, <2>1, <2>3 DEF ServesNothing
  <2> QED BY <2>2, <2>4 DEF LinesInv
<1>3. CASE TrapEoi
  <2>1. /\ trap.phase = "eoi" /\ window' = window
        /\ trap' = IF trap.vector = Timer THEN [trap EXCEPT !.phase = "gate"] ELSE NoTrap
    BY <1>3 DEF TrapEoi
  <2>2. trap' \in [vector : IntVector, phase : {"none", "body", "eoi", "gate"}] /\ (trap' = NoTrap \/ trap'.phase = "gate")
    BY <2>1, <1>t, <1>n
  <2>3. ServesPic \/ ServesApic
    BY <2>1 DEF LinesInv, ServesNothing, NoTrap
  <2>4. CASE EndsAtApic
    <3>1. pic' = pic /\ lapic' = [lapic EXCEPT !.isr = IF @ = {} THEN @ ELSE @ \ {Max(@)}]
      BY <1>3, <2>4 DEF TrapEoi
    <3>2. ServesApic
      BY <2>3, <2>4, Priorities DEF EndsAtApic, ServesPic
    <3>3. lapic.isr \in SUBSET LapicVector /\ lapic.isr # {}
      BY <3>2 DEF ServesApic, LinesInv, LinesType
    <3>4. Max(lapic.isr) \in lapic.isr /\ \A y \in lapic.isr : y <= Max(lapic.isr)
      BY <3>3, HighestVector
    <3>5. Max(lapic.isr) = trap.vector
      <4>1. ASSUME NEW y \in lapic.isr, y # trap.vector PROVE y < trap.vector
        <5>1. y = Keyboard /\ trap.vector \in {DriverVector, Timer}
          BY <3>2, <4>1 DEF ServesApic, Stale
        <5> QED BY <5>1, Priorities
      <4>2. trap.vector \in lapic.isr
        BY <3>2 DEF ServesApic
      <4> QED BY <3>3, <3>4, <4>1, <4>2, Priorities DEF LapicVector
    <3>6. lapic'.isr = lapic.isr \ {trap.vector} /\ lapic'.req = lapic.req /\ lapic'.lint0 = lapic.lint0
          /\ lapic'.clock = lapic.clock
          /\ lapic' \in [req : SUBSET LapicVector, isr : SUBSET LapicVector, lint0 : BOOLEAN, clock : BOOLEAN]
      BY <3>1, <3>3, <3>5 DEF LinesInv, LinesType
    <3>7. lapic'.isr \subseteq Stale /\ pic'.isr = {}
      BY <3>1, <3>2, <3>6 DEF ServesApic
    <3>8. LinesType'
      BY <1>0, <2>1, <2>2, <3>1, <3>6 DEF LinesInv, LinesType
    <3>9. ChangeOver'
      BY <1>0, <3>1, <3>6 DEF LinesInv, ChangeOver
    <3>10. ServesNothing'
      BY <1>0, <2>2, <3>7 DEF ServesNothing
    <3> QED BY <3>8, <3>9, <3>10 DEF LinesInv
  <2>5. CASE ~EndsAtApic
    <3>1. lapic' = lapic /\ pic' = [pic EXCEPT !.isr = IF @ = {} THEN @ ELSE @ \ {Min(@)}]
      BY <1>3, <2>5 DEF TrapEoi
    <3>2. ~active /\ trap.vector # Timer
      BY <2>5 DEF EndsAtApic
    <3>3. lapic.isr \subseteq Stale
      BY <2>3, <3>2 DEF ServesPic, ServesApic, Stale
    <3>4. \/ pic.isr = {}
          \/ \E line \in {0, 1} : pic.isr = {line}
      BY <2>3 DEF ServesPic, ServesApic
    <3>5. pic' \in [req : SUBSET {0, 1}, isr : SUBSET {0, 1}, on : BOOLEAN] /\ pic'.isr = {} /\ pic'.on = pic.on
      <4>1. CASE pic.isr = {}
        BY <3>1, <4>1 DEF LinesInv, LinesType
      <4>2. ASSUME NEW line \in {0, 1}, pic.isr = {line} PROVE pic' = [pic EXCEPT !.isr = {}]
        <5>1. Min(pic.isr) = line
          BY <4>2, LowestLine
        <5>2. pic.isr \ {Min(pic.isr)} = {}
          BY <5>1, <4>2
        <5> QED BY <3>1, <4>2, <5>2 DEF LinesInv, LinesType
      <4> QED BY <3>4, <4>1, <4>2 DEF LinesInv, LinesType
    <3>6. LinesType'
      BY <1>0, <2>1, <2>2, <3>1, <3>5 DEF LinesInv, LinesType
    <3>7. ChangeOver'
      BY <1>0, <3>1, <3>5 DEF LinesInv, ChangeOver
    <3>8. ServesNothing'
      BY <1>0, <2>2, <3>1, <3>3, <3>5 DEF ServesNothing
    <3> QED BY <3>6, <3>7, <3>8 DEF LinesInv
  <2> QED BY <2>4, <2>5
<1> QED BY <1>1, <1>2, <1>3

LEMMA LinesStay == ASSUME LinesInv, UNCHANGED interruptVars PROVE LinesInv'
BY DEF interruptVars, LinesInv, LinesType, ChangeOver, ServesNothing, ServesPic, ServesApic, Stale

LEMMA LinesStepKept ==
  LinesInv /\ [InterruptsNext \/ FaultsNext]_trapVars => LinesInv'
<1> SUFFICES ASSUME LinesInv, [InterruptsNext \/ FaultsNext]_trapVars PROVE LinesInv'
  OBVIOUS
<1>1. CASE InterruptsNext
  BY <1>1, InitsKept, RaisesKept, TakesKept, HandlerKept DEF InterruptsNext
<1>2. CASE FaultsNext \/ UNCHANGED trapVars
  BY <1>2, LinesStay DEF FaultsNext, trapVars
<1> QED BY <1>1, <1>2
-----------------------------------------------------------------------------
(* Page faults.                                                              *)

FaultType ==
  /\ history \in [1..PF_HIST -> [at : FaultAt \union {NoFault}, cnt : 0..3]]
  /\ nextEntry \in 1..PF_HIST /\ recovered \in [FaultAt -> 0..3]
  /\ since \in [FaultAt -> SUBSET FaultAt] /\ stopped \in BOOLEAN

\* Entry d was written after entry e was, when n is the next one to be written.
After(d, e, n) == IF n > e THEN e < d /\ d < n ELSE e < d \/ d < n

WasForgotten(f) == Cardinality(since[f]) >= PF_HIST

\* A fault has one entry, and every fault whose entry is newer came since; what was retried was
\* counted, until it was forgotten.
FaultsInv ==
  /\ FaultType
  /\ \A d, e \in 1..PF_HIST : history[d].at \in FaultAt /\ history[d].at = history[e].at => d = e
  /\ \A d, e \in 1..PF_HIST : history[e].at \in FaultAt /\ After(d, e, nextEntry) => history[d].at \in since[history[e].at]
  /\ \A e \in 1..PF_HIST : history[e].at \in FaultAt =>
       \/ recovered[history[e].at] <= history[e].cnt /\ recovered[history[e].at] <= 2
       \/ WasForgotten(history[e].at)
  /\ \A f \in FaultAt : (\A e \in 1..PF_HIST : history[e].at # f) => recovered[f] = 0 \/ WasForgotten(f)

LEMMA SinceGrows ==
  ASSUME NEW A \in SUBSET FaultAt, NEW B \in SUBSET FaultAt, A \subseteq B
  PROVE  Cardinality(A) \in Nat /\ Cardinality(B) \in Nat /\ Cardinality(A) <= Cardinality(B)
BY FaultsOK, FS_Subset, FS_CardinalityType

LEMMA WriteOrder ==
  ASSUME NEW n \in 1..PF_HIST, NEW e \in 1..PF_HIST, NEW d \in 1..PF_HIST
  PROVE  /\ (n % PF_HIST) + 1 \in 1..PF_HIST
         /\ e # n /\ After(d, e, (n % PF_HIST) + 1) => d = n \/ After(d, e, n)
         /\ ~After(d, n, (n % PF_HIST) + 1) /\ ~After(n, n, (n % PF_HIST) + 1)
         /\ d # n => After(d, n, n)
<1>1. PF_HIST \in Nat \ {0}
  BY TrapSizesOK
<1>2. (n % PF_HIST) + 1 = IF n = PF_HIST THEN 1 ELSE n + 1
  BY <1>1
<1> QED BY <1>1, <1>2 DEF After

LEMMA FaultsPromise == FaultsInv => RetriesBounded
<1> SUFFICES ASSUME FaultsInv, NEW f \in FaultAt, recovered[f] > 2 PROVE WasForgotten(f)
  BY DEF RetriesBounded, WasForgotten
<1>1. recovered[f] \in 0..3 /\ recovered[f] # 0 /\ ~(recovered[f] <= 2)
  BY DEF FaultsInv, FaultType
<1>2. CASE \A e \in 1..PF_HIST : history[e].at # f
  BY <1>1, <1>2 DEF FaultsInv
<1>3. ASSUME NEW e \in 1..PF_HIST, history[e].at = f PROVE WasForgotten(f)
  BY <1>1, <1>3 DEF FaultsInv
<1> QED BY <1>2, <1>3

LEMMA FaultsStart == TrapInit => FaultsInv
<1> SUFFICES ASSUME TrapInit PROVE FaultsInv
  OBVIOUS
<1>1. FaultType
  <2>1. 1 \in 1..PF_HIST
    BY TrapSizesOK
  <2>2. history \in [1..PF_HIST -> [at : FaultAt \union {NoFault}, cnt : 0..3]]
    BY DEF TrapInit
  <2>3. recovered = [f \in FaultAt |-> 0] /\ since = [f \in FaultAt |-> {}] /\ stopped = FALSE
    BY DEF TrapInit
  <2>4. recovered \in [FaultAt -> 0..3] /\ since \in [FaultAt -> SUBSET FaultAt] /\ stopped \in BOOLEAN
    <3>1. recovered \in [FaultAt -> 0..3]
      BY <2>3
    <3>2. since \in [FaultAt -> SUBSET FaultAt]
      BY <2>3
    <3> QED BY <2>3, <3>1, <3>2
  <2> QED BY <2>1, <2>2, <2>4 DEF TrapInit, FaultType
<1>2. \A e \in 1..PF_HIST : history[e].at = NoFault
  BY DEF TrapInit
<1>3. \A f \in FaultAt : recovered[f] = 0
  BY DEF TrapInit
<1> QED BY <1>1, <1>2, <1>3, FaultsOK DEF FaultsInv

\* A fault that stands in the history.
LEMMA CountedAgain ==
  ASSUME FaultsInv, NEW f \in FaultAt, NEW own \in BOOLEAN, NEW frame \in BOOLEAN, Retried(f, own, frame),
         EntriesOf(f) # {}
  PROVE  FaultsInv'
<1> DEFINE e == Min(EntriesOf(f))
           grown == IF history[e].cnt = 3 THEN 3 ELSE history[e].cnt + 1
<1>1. e \in EntriesOf(f)
  <2>1. EntriesOf(f) \in SUBSET Nat
    BY TrapSizesOK DEF EntriesOf
  <2> QED BY <2>1, LeastIn
<1>2. e \in 1..PF_HIST /\ history[e].at = f
  BY <1>1 DEF EntriesOf
<1>3. history' = [history EXCEPT ![e].cnt = IF @ = 3 THEN 3 ELSE @ + 1] /\ nextEntry' = nextEntry /\ since' = since
  BY DEF Retried, Counted
<1>4. \A d \in 1..PF_HIST : history[d].at = f => d = e
  BY <1>2 DEF FaultsInv
<1> HIDE DEF e
<1>5. history[e] \in [at : FaultAt \union {NoFault}, cnt : 0..3]
  BY <1>2 DEF FaultsInv, FaultType
<1>6. history' = [history EXCEPT ![e] = [at |-> f, cnt |-> grown]]
  <2>1. [history[e] EXCEPT !.cnt = grown] = [at |-> f, cnt |-> grown]
    BY <1>2, <1>5
  <2>2. history' = [history EXCEPT ![e] = [history[e] EXCEPT !.cnt = grown]]
    BY <1>3
  <2> QED BY <2>1, <2>2
<1>7. grown \in 0..3 /\ grown >= history[e].cnt
  BY <1>5
<1>8. /\ history' \in [1..PF_HIST -> [at : FaultAt \union {NoFault}, cnt : 0..3]]
      /\ \A d \in 1..PF_HIST : history'[d].at = history[d].at /\ (d # e => history'[d].cnt = history[d].cnt)
      /\ history'[e].cnt = grown
  BY <1>2, <1>6, <1>7 DEF FaultsInv, FaultType
<1>9. /\ recovered' \in [FaultAt -> 0..3] /\ stopped' \in BOOLEAN
      /\ \A g \in FaultAt \ {f} : recovered'[g] = recovered[g]
      /\ recovered'[f] = recovered[f] \/ (~TooMany(f) /\ recovered'[f] = recovered[f] + 1)
  BY DEF Retried, FaultsInv, FaultType
<1>10. FaultType'
  BY <1>3, <1>8, <1>9 DEF FaultsInv, FaultType
<1>11. \A g \in FaultAt : WasForgotten(g)' <=> WasForgotten(g)
  BY <1>3 DEF WasForgotten
<1>12. (recovered'[f] <= grown /\ recovered'[f] <= 2) \/ WasForgotten(f)
  <2> SUFFICES ASSUME ~WasForgotten(f) PROVE recovered'[f] <= grown /\ recovered'[f] <= 2
    OBVIOUS
  <2>1. recovered[f] <= history[e].cnt /\ recovered[f] <= 2 /\ recovered[f] \in 0..3
    BY <1>2 DEF FaultsInv, FaultType
  <2>2. CASE recovered'[f] = recovered[f]
    BY <1>5, <1>7, <2>1, <2>2
  <2>3. CASE ~TooMany(f) /\ recovered'[f] = recovered[f] + 1
    <3>1. ~(history[e].cnt >= 2)
      BY <1>1, <2>3 DEF TooMany
    <3> QED BY <1>5, <2>1, <2>3, <3>1
  <2> QED BY <1>9, <2>2, <2>3
<1> HIDE DEF grown
<1>13. \A d \in 1..PF_HIST : history'[d].at \in FaultAt =>
         \/ recovered'[history'[d].at] <= history'[d].cnt /\ recovered'[history'[d].at] <= 2
         \/ WasForgotten(history'[d].at)
  <2> SUFFICES ASSUME NEW d \in 1..PF_HIST, history'[d].at \in FaultAt, ~WasForgotten(history'[d].at)
               PROVE  recovered'[history'[d].at] <= history'[d].cnt /\ recovered'[history'[d].at] <= 2
    OBVIOUS
  <2>1. CASE d = e
    BY <1>2, <1>8, <1>12, <2>1
  <2>2. CASE d # e
    <3>1. history[d].at # f /\ history'[d].at = history[d].at /\ history'[d].cnt = history[d].cnt
      BY <1>4, <1>8, <2>2
    <3>2. recovered'[history[d].at] = recovered[history[d].at]
      BY <1>9, <3>1
    <3>3. recovered[history[d].at] <= history[d].cnt /\ recovered[history[d].at] <= 2
      BY <3>1 DEF FaultsInv
    <3> QED BY <3>1, <3>2, <3>3
  <2> QED BY <2>1, <2>2
<1>14. \A g \in FaultAt : (\A d \in 1..PF_HIST : history'[d].at # g) => recovered'[g] = 0 \/ WasForgotten(g)
  <2> SUFFICES ASSUME NEW g \in FaultAt, \A d \in 1..PF_HIST : history'[d].at # g, ~WasForgotten(g)
               PROVE  recovered'[g] = 0
    OBVIOUS
  <2>1. \A d \in 1..PF_HIST : history[d].at # g
    BY <1>8
  <2>2. g # f /\ recovered[g] = 0
    BY <1>2, <2>1 DEF FaultsInv
  <2> QED BY <1>9, <2>2
<1>15. \A a, b \in 1..PF_HIST : history'[a].at \in FaultAt /\ history'[a].at = history'[b].at => a = b
  BY <1>8 DEF FaultsInv
<1>16. \A a, b \in 1..PF_HIST : history'[b].at \in FaultAt /\ After(a, b, nextEntry') => history'[a].at \in since'[history'[b].at]
  BY <1>3, <1>8 DEF FaultsInv
<1> QED BY <1>3, <1>8, <1>10, <1>11, <1>13, <1>14, <1>15, <1>16 DEF FaultsInv, WasForgotten

\* A fault that does not, in the place of the oldest.
LEMMA CountedAnew ==
  ASSUME FaultsInv, NEW f \in FaultAt, NEW own \in BOOLEAN, NEW frame \in BOOLEAN, Retried(f, own, frame),
         EntriesOf(f) = {}
  PROVE  FaultsInv'
<1> DEFINE n == nextEntry
<1>1. \A d \in 1..PF_HIST : history[d].at # f
  BY DEF EntriesOf
<1>2. n \in 1..PF_HIST /\ PF_HIST \in Nat \ {0}
  BY TrapSizesOK DEF FaultsInv, FaultType
<1>3. history' = [history EXCEPT ![n] = [at |-> f, cnt |-> 1]] /\ nextEntry' = (n % PF_HIST) + 1 /\ since' = Later(f)
  BY DEF Retried, Counted
<1>4. /\ history' \in [1..PF_HIST -> [at : FaultAt \union {NoFault}, cnt : 0..3]]
      /\ history'[n].at = f /\ history'[n].cnt = 1
      /\ \A d \in 1..PF_HIST \ {n} : history'[d] = history[d]
  BY <1>2, <1>3 DEF FaultsInv, FaultType
<1>5. nextEntry' \in 1..PF_HIST
  BY <1>2, <1>3, WriteOrder
<1>6. /\ since' \in [FaultAt -> SUBSET FaultAt]
      /\ \A g \in FaultAt : since[g] \subseteq since'[g]
      /\ \A d \in 1..PF_HIST : history[d].at \in FaultAt => f \in since'[history[d].at]
  <2>1. \A g \in FaultAt : since[g] \in SUBSET FaultAt
    BY DEF FaultsInv, FaultType
  <2>2. since' = [g \in FaultAt |-> IF g # f /\ (EntriesOf(g) # {} \/ since[g] # {}) THEN since[g] \union {f} ELSE since[g]]
    BY <1>3 DEF Later
  <2>3. \A d \in 1..PF_HIST : EntriesOf(history[d].at) # {} /\ history[d].at # f
    BY <1>1 DEF EntriesOf
  <2> QED BY <2>1, <2>2, <2>3
<1>7. /\ recovered' \in [FaultAt -> 0..3] /\ stopped' \in BOOLEAN
      /\ \A g \in FaultAt \ {f} : recovered'[g] = recovered[g]
      /\ recovered'[f] = recovered[f] \/ recovered'[f] = recovered[f] + 1
  BY DEF Retried, FaultsInv, FaultType
<1>8. FaultType'
  BY <1>4, <1>5, <1>6, <1>7 DEF FaultType
<1>9. \A g \in FaultAt : WasForgotten(g) => WasForgotten(g)'
  <2> SUFFICES ASSUME NEW g \in FaultAt, Cardinality(since[g]) >= PF_HIST PROVE Cardinality(since'[g]) >= PF_HIST
    BY DEF WasForgotten
  <2>1. since[g] \in SUBSET FaultAt /\ since'[g] \in SUBSET FaultAt /\ since[g] \subseteq since'[g]
    BY <1>6 DEF FaultsInv, FaultType
  <2> QED BY <1>2, <2>1, SinceGrows
\* What is overwritten is forgotten.
<1>10. ASSUME history[n].at \in FaultAt PROVE Cardinality(since'[history[n].at]) >= PF_HIST
  <2> DEFINE g == history[n].at
             new == [d \in 1..PF_HIST |-> history'[d].at]
  <2>1. g \in FaultAt /\ since'[g] \in SUBSET FaultAt
    BY <1>6, <1>10
  <2>2. \A d \in 1..PF_HIST : history'[d].at \in since'[g] /\ history'[d].at \in FaultAt
    <3> TAKE d \in 1..PF_HIST
    <3>1. CASE d = n
      BY <1>2, <1>4, <1>6, <2>1, <3>1
    <3>2. CASE d # n
      <4>1. After(d, n, n)
        BY <1>2, <3>2, WriteOrder
      <4>2. history[d].at \in since[g]
        BY <1>2, <2>1, <4>1 DEF FaultsInv
      <4> QED BY <1>4, <1>6, <2>1, <3>2, <4>2
    <3> QED BY <3>1, <3>2
  <2>3. \A d, b \in 1..PF_HIST : history'[d].at = history'[b].at => d = b
    <3> SUFFICES ASSUME NEW d \in 1..PF_HIST, NEW b \in 1..PF_HIST, history'[d].at = history'[b].at PROVE d = b
      OBVIOUS
    <3>1. history'[d].at \in FaultAt
      BY <2>2
    <3>2. CASE d # n /\ b # n
      BY <1>4, <3>1, <3>2 DEF FaultsInv
    <3>3. CASE d = n \/ b = n
      BY <1>1, <1>4, <3>3
    <3> QED BY <3>2, <3>3
  <2>4. new \in Injection(1..PF_HIST, since'[g])
    BY <2>2, <2>3, Fun_IsInj
  <2>5. IsFiniteSet(since'[g])
    BY <2>1, FaultsOK, FS_Subset
  <2>6. Cardinality(1..PF_HIST) = PF_HIST
    BY <1>2, FS_Interval
  <2>7. Cardinality(1..PF_HIST) <= Cardinality(since'[g])
    BY <2>4, <2>5, FS_Injection
  <2> HIDE DEF g
  <2>8. Cardinality(since'[g]) \in Nat
    BY <2>5, FS_CardinalityType
  <2> QED BY <1>2, <2>6, <2>7, <2>8 DEF g
<1> HIDE DEF n
<1>11. \A a, b \in 1..PF_HIST : history'[a].at \in FaultAt /\ history'[a].at = history'[b].at => a = b
  <2> SUFFICES ASSUME NEW a \in 1..PF_HIST, NEW b \in 1..PF_HIST, history'[a].at \in FaultAt, history'[a].at = history'[b].at
               PROVE  a = b
    OBVIOUS
  <2>1. CASE a # n /\ b # n
    BY <1>4, <2>1 DEF FaultsInv
  <2>2. CASE a = n \/ b = n
    BY <1>1, <1>4, <2>2
  <2> QED BY <2>1, <2>2
<1>12. \A a, b \in 1..PF_HIST : history'[b].at \in FaultAt /\ After(a, b, nextEntry') => history'[a].at \in since'[history'[b].at]
  <2> SUFFICES ASSUME NEW a \in 1..PF_HIST, NEW b \in 1..PF_HIST, history'[b].at \in FaultAt, After(a, b, nextEntry')
               PROVE  history'[a].at \in since'[history'[b].at]
    OBVIOUS
  <2>1. b # n
    BY <1>2, <1>3, WriteOrder
  <2>2. history'[b].at = history[b].at
    BY <1>4, <2>1
  <2>3. CASE a = n
    BY <1>4, <1>6, <2>2, <2>3
  <2>4. CASE a # n
    <3>1. After(a, b, nextEntry)
      BY <1>2, <1>3, <2>1, <2>4, WriteOrder DEF n
    <3>2. history[a].at \in since[history[b].at]
      BY <2>2, <3>1 DEF FaultsInv
    <3>3. history'[a].at = history[a].at
      BY <1>4, <2>4
    <3> QED BY <1>6, <2>2, <3>2, <3>3
  <2> QED BY <2>3, <2>4
\* The new one had not been retried, unless it was forgotten.
<1>13. recovered[f] = 0 \/ WasForgotten(f)
  BY <1>1 DEF FaultsInv
<1>14. \A d \in 1..PF_HIST : history'[d].at \in FaultAt =>
         \/ recovered'[history'[d].at] <= history'[d].cnt /\ recovered'[history'[d].at] <= 2
         \/ Cardinality(since'[history'[d].at]) >= PF_HIST
  <2> SUFFICES ASSUME NEW d \in 1..PF_HIST, history'[d].at \in FaultAt, ~(Cardinality(since'[history'[d].at]) >= PF_HIST)
               PROVE  recovered'[history'[d].at] <= history'[d].cnt /\ recovered'[history'[d].at] <= 2
    OBVIOUS
  <2>1. CASE d = n
    <3>1. recovered[f] = 0
      BY <1>4, <1>9, <1>13, <2>1 DEF WasForgotten
    <3> QED BY <1>4, <1>7, <2>1, <3>1
  <2>2. CASE d # n
    <3>1. history'[d] = history[d] /\ history[d].at # f
      BY <1>1, <1>4, <2>2
    <3>2. recovered[history[d].at] <= history[d].cnt /\ recovered[history[d].at] <= 2
      BY <1>9, <3>1 DEF FaultsInv, WasForgotten
    <3> QED BY <1>7, <3>1, <3>2
  <2> QED BY <2>1, <2>2
<1>15. \A g \in FaultAt : (\A d \in 1..PF_HIST : history'[d].at # g) => recovered'[g] = 0 \/ Cardinality(since'[g]) >= PF_HIST
  <2> SUFFICES ASSUME NEW g \in FaultAt, \A d \in 1..PF_HIST : history'[d].at # g, ~(Cardinality(since'[g]) >= PF_HIST)
               PROVE  recovered'[g] = 0
    OBVIOUS
  <2>1. g # f
    BY <1>2, <1>4
  <2>2. \A d \in 1..PF_HIST : history[d].at # g
    BY <1>4, <1>10
  <2> QED BY <1>7, <1>9, <2>1, <2>2 DEF FaultsInv, WasForgotten
<1> QED BY <1>8, <1>11, <1>12, <1>14, <1>15 DEF FaultsInv, WasForgotten

LEMMA FaultsStepKept ==
  FaultsInv /\ [InterruptsNext \/ FaultsNext]_trapVars => FaultsInv'
<1> SUFFICES ASSUME FaultsInv, [InterruptsNext \/ FaultsNext]_trapVars PROVE FaultsInv'
  OBVIOUS
<1>1. ASSUME UNCHANGED <<history, nextEntry, recovered, since>>, stopped' \in BOOLEAN PROVE FaultsInv'
  BY <1>1 DEF FaultsInv, FaultType, WasForgotten
<1>2. CASE UNCHANGED faultVars
  BY <1>1, <1>2 DEF faultVars, FaultsInv, FaultType
<1>3. ASSUME NEW own \in BOOLEAN, NotRetried(own) PROVE FaultsInv'
  BY <1>1, <1>3 DEF NotRetried
<1>4. ASSUME NEW f \in FaultAt, NEW own \in BOOLEAN, NEW frame \in BOOLEAN, Retried(f, own, frame) PROVE FaultsInv'
  BY <1>4, CountedAgain, CountedAnew
<1> QED BY <1>2, <1>3, <1>4 DEF FaultsNext, InterruptsNext, trapVars

LEMMA TrapsPromise == LinesInv /\ FaultsInv => TrapTypeOK /\ TrapsSound
<1> SUFFICES ASSUME LinesInv, FaultsInv PROVE TrapTypeOK /\ TrapsSound
  OBVIOUS
<1>1. TrapTypeOK
  <2>1. LapicVector = IoVector \union {Timer}
    BY DEF LapicVector, IoVector
  <2>2. trap.phase \in {"none", "body", "eoi", "gate"}
    BY DEF LinesInv, LinesType
  <2> QED BY <2>1, <2>2 DEF TrapTypeOK, LinesInv, LinesType, InitStage, FaultsInv, FaultType
<1> QED BY <1>1, LinesPromise, FaultsPromise DEF TrapsSound

\* Interrupts and page faults keep what TrapsSound says (isr.c, apic.c).
THEOREM TrapsCorrect == TrapSpec => [](TrapTypeOK /\ TrapsSound)
<1>1. TrapInit => LinesInv /\ FaultsInv
  BY LinesStart, FaultsStart
<1>2. LinesInv /\ FaultsInv /\ [InterruptsNext \/ FaultsNext]_trapVars => (LinesInv /\ FaultsInv)'
  BY LinesStepKept, FaultsStepKept
<1>3. LinesInv /\ FaultsInv => TrapTypeOK /\ TrapsSound
  BY TrapsPromise
<1> QED BY <1>1, <1>2, <1>3, PTL DEF TrapSpec
-----------------------------------------------------------------------------
(* The services together.                                                    *)

LEMMA RegistryAlone == Spec => RgSpec
<1>1. Init => RgInit
  BY DEF Init
<1>2. [Next]_vars => [RgNext]_rgVars
  BY DEF Next, vars, KernelStep, DeviceStep, ProcessorStep, kernelVars
<1> QED BY <1>1, <1>2, PTL DEF Spec, RgSpec

LEMMA DriversAlone == Spec => DmSpec
<1>1. Init => DmInit
  BY DEF Init
<1>2. [Next]_vars => [DmNext]_dmVars
  BY DEF Next, vars, KernelStep, DeviceStep, ProcessorStep, kernelVars
<1> QED BY <1>1, <1>2, PTL DEF Spec, DmSpec

LEMMA VolumeAlone == Spec => NtSpec
<1>1. Init => NtInit
  BY DEF Init
<1>2. [Next]_vars => [NtNext]_ntVars
  BY DEF Next, vars, KernelStep, DeviceStep, ProcessorStep, deviceVars
<1> QED BY <1>1, <1>2, PTL DEF Spec, NtSpec

LEMMA DiskAlone == Spec => DiskSpec
<1>1. Init => DiskInit
  BY DEF Init
<1>2. [Next]_vars => [DiskNext]_diskVars
  BY DEF Next, vars, KernelStep, DeviceStep, ProcessorStep, deviceVars
<1> QED BY <1>1, <1>2, PTL DEF Spec, DiskSpec

LEMMA QueueAlone == Spec => VqSpec
<1>1. Init => VqInit
  BY DEF Init
<1>2. [Next]_vars => [VqNext]_vqVars
  BY DEF Next, vars, KernelStep, DeviceStep, ProcessorStep, deviceVars
<1> QED BY <1>1, <1>2, PTL DEF Spec, VqSpec

LEMMA TabletAlone == Spec => EvSpec
<1>1. Init => EvInit
  BY DEF Init
<1>2. [Next]_vars => [EvNext]_evVars
  BY DEF Next, vars, KernelStep, DeviceStep, ProcessorStep, deviceVars
<1> QED BY <1>1, <1>2, PTL DEF Spec, EvSpec

LEMMA DisplayAlone == Spec => GdSpec
<1>1. Init => GdInit
  BY DEF Init
<1>2. [Next]_vars => [GdNext]_gdVars
  BY DEF Next, vars, KernelStep, DeviceStep, ProcessorStep, deviceVars
<1> QED BY <1>1, <1>2, PTL DEF Spec, GdSpec

LEMMA InterruptsAlone == Spec => IoSpec
<1>1. Init => IoInit
  BY DEF Init
<1>2. [Next]_vars => [IoNext]_ioVars
  BY DEF Next, vars, KernelStep, DeviceStep, ProcessorStep, processorVars
<1> QED BY <1>1, <1>2, PTL DEF Spec, IoSpec

LEMMA ProcessorsAlone == Spec => SmpSpec
<1>1. Init => SmpInit
  BY DEF Init
<1>2. [Next]_vars => [SmpNext]_smpVars
  BY DEF Next, vars, KernelStep, DeviceStep, ProcessorStep, processorVars
<1> QED BY <1>1, <1>2, PTL DEF Spec, SmpSpec

LEMMA TrapsAlone == Spec => TrapSpec
<1>1. Init => TrapInit
  BY DEF Init
<1>2. [Next]_vars => [InterruptsNext \/ FaultsNext]_trapVars
  BY DEF Next, vars, KernelStep, DeviceStep, ProcessorStep, processorVars
<1> QED BY <1>1, <1>2, PTL DEF Spec, TrapSpec

LEMMA Ps2Alone == Spec => Ps2Spec
<1>1. Init => Ps2Init
  BY DEF Init
<1>2. [Next]_vars => [Ps2Next]_ps2Vars
  BY DEF Next, vars, KernelStep, DeviceStep, ProcessorStep, processorVars
<1> QED BY <1>1, <1>2, PTL DEF Spec, Ps2Spec

LEMMA HeapAlone == Spec => KhSpec
<1>1. Init => KhInit
  BY DEF Init
<1>2. [Next]_vars => [KhNext]_khVars
  BY DEF Next, vars, KernelStep, DeviceStep, ProcessorStep, kernelVars
<1> QED BY <1>1, <1>2, PTL DEF Spec, KhSpec

LEMMA FramesAlone == Spec => PmSpec
<1>1. Init => PmInit
  BY DEF Init
<1>2. [Next]_vars => [PmNext]_pmVars
  BY DEF Next, vars, KernelStep, DeviceStep, ProcessorStep, kernelVars
<1> QED BY <1>1, <1>2, PTL DEF Spec, PmSpec

\* What is stored: the keys of the registry under their names, the files of the volume and
\* the sectors of the disk (cm/registry.c:66-92, ntfs.c, hal/disk.c).
THEOREM StoresCorrect == Spec => []StoresSound
<1>1. SiblingsDistinct /\ VolumeSound /\ DiskSound => StoresSound
  BY DEF StoresSound
<1> QED BY <1>1, RegistryAlone, RegistryCorrect, VolumeAlone, VolumeCorrect, DiskAlone, DiskCorrect, PTL

\* A key that was deleted is not found again, and CmUnRegisterCallback gives no slot back
\* (cm/registry.c:259-268, ex/callbacks.c:170-180).
THEOREM HistoryCorrect == Spec => HistoryKept
BY RegistryAlone, DriversAlone, DeletedCorrect, CmTableFills DEF HistoryKept

\* Memory: the blocks tile the heap, each pool allocation is counted, and each frame is in use for
\* one owner only, for every size of the heap and number of frames (mm/heap.c, ex/pool.c,
\* mm/pmm.c, mm/paging.c).
THEOREM MemoryCorrect == Spec => []MemorySound
<1>1. HeapSound /\ FramesSound => MemorySound
  BY DEF MemorySound
<1> QED BY <1>1, HeapAlone, HeapCorrect, FramesAlone, FramesCorrect, PTL

\* The hardware the kernel drives: what HardwareSound says of the queues, the display, the
\* interrupts, the processors that start, the faults, the keyboard and the mouse, for every size
\* of each (VirtioGpu.c, virtio_input.c, ke/amd64/kinterrupt.c, smp.c, isr.c, apic.c, mouse.c).
THEOREM HardwareCorrect == Spec => []HardwareSound
<1>1. QueueSound /\ TabletSound /\ DisplaySound /\ InterruptsSound /\ StartSound /\ TrapsSound /\ Ps2Sound
      => HardwareSound
  BY DEF HardwareSound
<1> QED BY <1>1, QueueAlone, QueueCorrect, TabletAlone, TabletCorrect, DisplayAlone, DisplayCorrect, InterruptsAlone,
           InterruptsCorrect, ProcessorsAlone, StartCorrect, TrapsAlone, TrapsCorrect, Ps2Alone, Ps2Correct, PTL
=============================================================================
