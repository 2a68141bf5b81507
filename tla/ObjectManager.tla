--------------------------- MODULE ObjectManager ---------------------------
(***************************************************************************)
(* The object manager: ob/object.c.  Objects are created and never freed;  *)
(* ObDereferenceObject only counts.  The names, the list of every object   *)
(* and the handle table are three arrays of fixed size that fill up         *)
(* silently.  The system calls that use them run with interrupts off (the   *)
(* gate of int 0x80 clears IF), so each is one step.                        *)
(*                                                                         *)
(* An object is its number in the order of creation; 0 is the null pointer. *)
(* A handle is its slot (the value handed out is four times that); 0 is no  *)
(* handle.                                                                 *)
(***************************************************************************)
EXTENDS Integers, Sequences, FiniteSets, FiniteSetsExt

CONSTANTS
  MaxObject,     \* bound: objects the kernel heap has room for
  MaxHandle,     \* usable slots of the handle table (MAX_HANDLES - 1)
  MaxAll,        \* entries of the list of all objects (MAX_OBJECTS)
  MaxNamed,      \* entries of the name space (MAX_NAMED)
  ObjectName     \* the names objects are given

ASSUME ObSizesOK ==
  MaxObject \in Nat /\ MaxHandle \in Nat /\ MaxAll \in Nat /\ MaxNamed \in Nat

VARIABLES
  object,        \* the headers of the objects, in the order of creation
  all,           \* s_all
  named,         \* s_named
  slot           \* s_handles

obVars == <<object, all, named, slot>>

ObjectId == 1..MaxObject
Handle == 1..MaxHandle
ObjectType == {"process", "thread", "file", "pipe", "device", "directory"}

\* The name of objects created without one.
Unnamed == "unnamed"

Header(type, name) == [type |-> type, name |-> name, refs |-> 1, handles |-> 0]

\* Every array keeps within its size and leads to objects that exist.
ObTypeOK ==
  /\ object \in Seq([type : ObjectType, name : ObjectName \union {Unnamed},
                     refs : Nat, handles : Nat])
  /\ Len(object) <= MaxObject
  /\ all \in Seq(ObjectId) /\ Len(all) <= MaxAll
  /\ named \in Seq(ObjectId) /\ Len(named) <= MaxNamed
  /\ slot \in [Handle -> 0..Len(object)]

-----------------------------------------------------------------------------
\* The first free slot, 0 when the table is full.
NewHandle ==
  LET free == {h \in Handle : slot[h] = 0} IN IF free = {} THEN 0 ELSE Min(free)

Room == MaxObject - Len(object)

\* MUTANT of Listed: the size of the array is not tested.
ListedPast(array, news, size) == array \o news

\* An array of `size' entries that ignores what comes when it is full.
Listed(array, news, size) == SubSeq(array \o news, 1, Min({size, Len(array \o news)}))

\* At the mount of the volume and the start of drivers the devices exist.
ObInit(devices) ==
  /\ object = [i \in DOMAIN devices |-> Header("device", devices[i])]
  /\ all = Listed(<<>>, [i \in DOMAIN devices |-> i], MaxAll)
  /\ named = Listed(<<>>, [i \in DOMAIN devices |-> i], MaxNamed)
  /\ slot = [h \in Handle |-> 0]

\* The header with a handle more or less.
Recounted(header, d) ==
  [type |-> header.type, name |-> header.name, refs |-> header.refs + d,
   handles |-> header.handles + d]

\* Creates objects with these headers, of which the first may have a name; the one
\* at `opened' gets a handle.
CreateObjects(news, opened) ==
  LET h == IF opened = 0 THEN 0 ELSE NewHandle
      id(i) == Len(object) + i
      ids == [i \in DOMAIN news |-> id(i)]
      header(i) == IF h # 0 /\ i = opened THEN Recounted(news[i], 1) ELSE news[i]
  IN /\ object' = object \o [i \in DOMAIN news |-> header(i)]
     /\ all' = Listed(all, ids, MaxAll)
     /\ named' = Listed(named, IF ids # <<>> /\ news[1].name # Unnamed THEN <<id(1)>> ELSE <<>>,
                        MaxNamed)
     /\ slot' = IF h = 0 THEN slot ELSE [slot EXCEPT ![h] = id(opened)]

ObLookupObject(name) ==
  LET hits == {i \in DOMAIN named : object[named[i]].name = name}
  IN IF hits = {} THEN 0 ELSE named[Min(hits)]

\* ob_handle_to_object with a type: 0 for a bad handle or another type.
Referenced(h, type) ==
  IF h \in Handle /\ slot[h] # 0 /\ object[slot[h]].type = type THEN slot[h] ELSE 0

CloseHandle(h) ==
  /\ h \in Handle /\ slot[h] # 0
  /\ object' = [object EXCEPT ![slot[h]] = Recounted(@, -1)]
  /\ slot' = [slot EXCEPT ![h] = 0]
  /\ UNCHANGED <<all, named>>

\* The n-th object of a type in the list of all objects, from 1.
ObEnumByType(type, n) ==
  LET hits == SelectSeq(all, LAMBDA o : object[o].type = type)
  IN IF n \in DOMAIN hits THEN hits[n] ELSE 0
-----------------------------------------------------------------------------
\* The two counters of a header say how many handles are open on the object: a
\* creation, any number of opens and closes of any handles, and full tables in
\* between leave them exact (ob/object.c:65-96).
HandleCountsExact ==
  \A o \in DOMAIN object :
    LET open == Cardinality({h \in Handle : slot[h] = o})
    IN object[o].handles = open /\ object[o].refs = 1 + open

\* Two objects of one name cannot both be found: pipe_create looks the name up
\* before it creates, as long as the name space takes what it is given
\* (lpc/pipe.c:42-47, ob/object.c:51).
NamesUnique ==
  \A i, j \in DOMAIN named : object[named[i]].name = object[named[j]].name => i = j
=============================================================================
