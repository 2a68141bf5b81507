------------------------------ MODULE Registry ------------------------------
(***************************************************************************)
(* The registry (cm/registry.c): a tree of keys with values, in memory, and    *)
(* the handles to keys.                                                       *)
(*                                                                         *)
(* A handle to a key is made with ob_create_handle, but a key has no object    *)
(* header: the words that the object manager takes for the type and the        *)
(* counts of the key are the end of the block in front of it in the heap.       *)
(* What is there is not known, and is chosen when the key is allocated.         *)
(***************************************************************************)
EXTENDS Integers, Sequences, FiniteSetsExt

CONSTANTS
  KeyName,       \* names of keys, in lower case: names are compared without case
  ValueName,
  ValueData,
  MaxKey,        \* bound: keys ever allocated
  MaxKeyHandle   \* bound: handles to keys that are open

ASSUME RgSizesOK == MaxKey \in Nat /\ MaxKey > 1 /\ MaxKeyHandle \in Nat \ {0}

VARIABLES
  key,           \* REG_KEY: name, parent, whether it is in its parent's list, values
  typed,         \* keys with a word in front that reads OB_TYPE_REGKEY
  keyHandle      \* open handles: the key

rgVars == <<key, typed, keyHandle>>

Root == 1
KeyId == 1..MaxKey
KeyPath == {<<n>> : n \in KeyName} \union {<<m, n>> : m, n \in KeyName}
RegHandle == 1..MaxKeyHandle
\* A value whose data could not be allocated keeps its name and size only.
Stored == ValueData \union {"lost"}

RgTypeOK ==
  /\ key \in Seq([name : KeyName \union {"\\Registry"}, parent : 0..MaxKey, linked : BOOLEAN,
                  value : [ValueName -> Stored \union {"absent"}]])
  /\ typed \subseteq DOMAIN key
  /\ keyHandle \in [RegHandle -> 0..Len(key)]

Blank == [v \in ValueName |-> "absent"]

\* registry_init.
RgInit ==
  /\ key = <<[name |-> "\\Registry", parent |-> 0, linked |-> TRUE, value |-> Blank]>>
  /\ typed \in SUBSET {Root}
  /\ keyHandle = [h \in RegHandle |-> 0]

-----------------------------------------------------------------------------
\* MUTANT of Children: keys that were deleted are found by their parent.
ChildrenEver(keys, k) == {c \in DOMAIN keys : keys[c].parent = k}

\* reg_find_child, reg_alloc_key.
Children(keys, k) == {c \in DOMAIN keys : keys[c].linked /\ keys[c].parent = k}

Child(keys, k, n) ==
  LET found == {c \in Children(keys, k) : keys[c].name = n} IN IF found = {} THEN 0 ELSE Min(found)

KeyUnder(k, n) == [name |-> n, parent |-> k, linked |-> TRUE, value |-> Blank]

\* reg_resolve_path without creating: the key, or 0.
Resolved(base, path) ==
  LET first == Child(key, base, path[1])
  IN IF Len(path) = 1 \/ first = 0 THEN first ELSE Child(key, first, path[2])

\* MUTANT of Creating: the key on the way is created though it is there.
CreatingAgain(base, path) ==
  IF Resolved(base, path) # 0 THEN <<>>
  ELSE IF Len(path) = 1 THEN <<KeyUnder(base, path[1])>>
  ELSE <<KeyUnder(base, path[1]), KeyUnder(Len(key) + 1, path[2])>>

\* ... and creating: the keys that are allocated, below the last one that is there.
Creating(base, path) ==
  LET first == Child(key, base, path[1])
      new == Len(key) + 1 IN
  IF Resolved(base, path) # 0 THEN <<>>
  ELSE IF Len(path) = 1 THEN <<KeyUnder(base, path[1])>>
  ELSE IF first # 0 THEN <<KeyUnder(first, path[2])>>
  ELSE <<KeyUnder(base, path[1]), KeyUnder(new, path[2])>>

\* ob_handle_to_object(h, OB_TYPE_REGKEY): the key if the word in front of it says so.
Opened(h) == IF keyHandle[h] \in typed THEN keyHandle[h] ELSE 0

\* RootDirectory: a handle that does not resolve means the root.
Base(h) == IF h = 0 \/ Opened(h) = 0 THEN Root ELSE Opened(h)

FreeRegHandle == {h \in RegHandle : keyHandle[h] = 0}
OpenHandle(k) ==
  /\ FreeRegHandle # {}
  /\ keyHandle' = [keyHandle EXCEPT ![Min(FreeRegHandle)] = k]

\* NtCreateKey_k.
NtCreateKey(h, path) ==
  LET new == Creating(Base(h), path) IN
  /\ Len(key) + Len(new) <= MaxKey
  /\ key' = key \o new
  /\ \E read \in SUBSET (Len(key) + 1..Len(key) + Len(new)) : typed' = typed \union read
  /\ OpenHandle(IF new = <<>> THEN Resolved(Base(h), path) ELSE Len(key) + Len(new))

\* NtOpenKey_k.
NtOpenKey(h, path) ==
  /\ Resolved(Base(h), path) # 0
  /\ OpenHandle(Resolved(Base(h), path))
  /\ UNCHANGED <<key, typed>>

\* NtCloseKey_k.
NtCloseKey(h) ==
  /\ keyHandle[h] # 0
  /\ keyHandle' = [keyHandle EXCEPT ![h] = 0]
  /\ UNCHANGED <<key, typed>>

\* NtDeleteKey_k: the key leaves its parent's list with all that is below it; handles to
\* it stay.
OffList(keys, k) == [keys EXCEPT ![k].linked = FALSE]
NtDeleteKey(h) ==
  /\ Opened(h) \notin {0, Root}
  /\ key' = OffList(key, Opened(h))
  /\ UNCHANGED <<typed, keyHandle>>

\* reg_set_value; the old data is freed first.
WithValue(keys, k, v, data) == [keys EXCEPT ![k].value[v] = data]

\* NtSetValueKey_k, NtDeleteValueKey_k.
NtSetValueKey(h, v, data) ==
  /\ Opened(h) # 0
  /\ key' = WithValue(key, Opened(h), v, data)
  /\ UNCHANGED <<typed, keyHandle>>

NtDeleteValueKey(h, v) ==
  /\ Opened(h) # 0 /\ key[Opened(h)].value[v] # "absent"
  /\ key' = WithValue(key, Opened(h), v, "absent")
  /\ UNCHANGED <<typed, keyHandle>>

\* registry_set_value_ascii, and registry_create_driver_service with the values of a
\* driver: the path is created from the root and no handle is made.
SetValueAscii(path, v, data) ==
  LET new == Creating(Root, path)
      k == IF new = <<>> THEN Resolved(Root, path) ELSE Len(key) + Len(new) IN
  /\ Len(key) + Len(new) <= MaxKey
  /\ key' = WithValue(key \o new, k, v, data)
  /\ \E read \in SUBSET (Len(key) + 1..Len(key) + Len(new)) : typed' = typed \union read
  /\ UNCHANGED keyHandle

RgNext ==
  \/ \E h \in {0} \union RegHandle, path \in KeyPath : NtCreateKey(h, path) \/ NtOpenKey(h, path)
  \/ \E h \in RegHandle :
       \/ NtCloseKey(h) \/ NtDeleteKey(h)
       \/ \E v \in ValueName :
            NtDeleteValueKey(h, v) \/ \E data \in Stored : NtSetValueKey(h, v, data)
  \/ \E path \in KeyPath, v \in ValueName, data \in Stored : SetValueAscii(path, v, data)

RgSpec == RgInit /\ [][RgNext]_rgVars
-----------------------------------------------------------------------------
\* A path names one key: the keys of a list have different names, also when keys were
\* created below a key that had been deleted (cm/registry.c:62-93).
SiblingsDistinct ==
  \A c, d \in DOMAIN key : key[c].linked /\ key[d].linked /\ key[c].parent = key[d].parent
                           /\ key[c].name = key[d].name => c = d

\* A key that was deleted never comes back: what has its name later is a new key, and
\* the values of the old one are not seen through a path (cm/registry.c:259-268).
Reached(k) == \E path \in KeyPath : Resolved(Root, path) = k
Gone(k) == ~key[k].linked \/ (k # Root /\ ~key[key[k].parent].linked)
DeletedStaysGone == [][\A k \in DOMAIN key : Gone(k) => ~Reached(k)']_rgVars

\* A handle that NtCreateKey_k or NtOpenKey_k returned can be used (cm/registry.c:209).
KeyHandlesResolve == \A h \in RegHandle : keyHandle[h] # 0 => Opened(h) = keyHandle[h]
=============================================================================
