--------------------------- MODULE DriverManager ---------------------------
(***************************************************************************)
(* Drivers and what they register with the kernel: the table of known        *)
(* drivers (io/driver.c), their devices, names, links and device stacks       *)
(* (io/io.c) and the tables of callbacks (ex/callbacks.c).                     *)
(*                                                                         *)
(* A driver is what the I/O manager calls: DriverEntry registers callbacks,   *)
(* creates a device, a link to it, and attaches the device to the stack of     *)
(* the device that was there at boot; DriverUnload, if the driver has one,     *)
(* takes all that back.  The calls a driver may make are the operators below.  *)
(***************************************************************************)
EXTENDS Integers, SequencesExt, FiniteSetsExt

CONSTANTS
  DriverName,    \* the .sys modules
  NoUnload,      \* those that set no DriverUnload
  CbMax,         \* CB_MAX
  MaxLinks,      \* SYMLINK_MAX
  MaxDevice      \* bound: devices ever created

ASSUME DmSizesOK ==
  /\ NoUnload \subseteq DriverName /\ "none" \notin DriverName
  /\ CbMax \in Nat \ {0} /\ MaxLinks \in Nat /\ MaxDevice \in Nat \ {0}

VARIABLES
  atBoot,        \* modules that driver_load has still to load
  state,         \* s_drivers: the state of each known driver
  device,        \* device objects: the driver's name, StackSize, AttachedDevice
  lower,         \* s_lower: the device below
  link,          \* s_links: slots with the driver whose link they hold
  routine,       \* s_proc (and s_proc_ex, s_thread, s_image), s_ob, s_cm
  held           \* what the drivers have registered and not taken back

dmVars == <<atBoot, state, device, lower, link, routine, held>>

Table == {"ps", "ob", "cm"}
\* s_cm is filled through two functions, and each has a way to take back of its own.
Registrar == {"ps", "ob", "cm", "ex"}
TableOf(via) == IF via = "ex" THEN "cm" ELSE via
Callback == 1..CbMax

DmTypeOK ==
  /\ atBoot \subseteq DriverName
  /\ state \in [DriverName -> {"unknown", "stopped", "running"}]
  /\ device \in Seq([owner : DriverName \union {"boot"}, stackSize : Nat, attached : Nat])
  /\ lower \in [DOMAIN device -> 0..Len(device)]
  /\ link \in [1..MaxLinks -> DriverName \union {"none"}]
  /\ routine \in [Table -> [Callback -> DriverName \union {"none"}]]
  /\ held \subseteq [driver : DriverName, via : Registrar, slot : Callback]

\* callbacks_init; one device is there, that of the disk.
DmInit ==
  /\ atBoot = DriverName
  /\ state = [n \in DriverName |-> "unknown"]
  /\ device = <<[owner |-> "boot", stackSize |-> 1, attached |-> 0]>>
  /\ lower = <<0>>
  /\ link = [i \in 1..MaxLinks |-> "none"]
  /\ routine = [t \in Table |-> [i \in Callback |-> "none"]]
  /\ held = {}

-----------------------------------------------------------------------------
\* The callback tables.

FreeIn(slots) == {i \in DOMAIN slots : slots[i] = "none"}

\* PsSetCreateProcessNotifyRoutine_k and its kin, ObRegisterCallbacks_k,
\* CmRegisterCallback_k, ExRegisterCallback_k: the first free slot, if any.
Registered(rs, n, via) ==
  LET t == TableOf(via) IN
  IF FreeIn(rs[t]) = {} THEN rs ELSE [rs EXCEPT ![t][Min(FreeIn(rs[t]))] = n]

\* ... and the slot that the driver remembers; the Ps functions return none, and take
\* back by routine.
Kept(rs, n, via) ==
  LET free == FreeIn(rs[TableOf(via)]) IN
  IF free = {} THEN {} ELSE {[driver |-> n, via |-> via, slot |-> Min(free)]}

\* PsSet...(Remove) and its kin take out the first slot that has the routine, once for each
\* call; ObUnRegisterCallbacks_k and ExUnregisterCallback_k the slot they are given.
\* CmUnRegisterCallback_k compares the wrong bits of the cookie and refuses it.
First(count, slots) == {i \in slots : Cardinality({j \in slots : j < i}) < count}

Emptied(rs, n, hs) ==
  LET via(r) == {h \in hs : h.via = r} IN
  [ps |-> First(Cardinality(via("ps")), {i \in Callback : rs["ps"][i] = n}),
   ob |-> {h.slot : h \in via("ob")},
   cm |-> {h.slot : h \in via("ex")}]

\* The tables when driver n has taken back its registrations hs.
Unregistered(rs, n, hs) ==
  [t \in Table |-> [i \in Callback |-> IF i \in Emptied(rs, n, hs)[t] THEN "none" ELSE rs[t][i]]]

-----------------------------------------------------------------------------
\* Device stacks.

\* io_top: up from device d as long as something is attached.
Top(devs, d) ==
  LET up[i \in 0..Len(devs)] ==
        IF i = 0 THEN d
        ELSE LET below == up[i - 1]
             IN IF devs[below].attached = 0 THEN below ELSE devs[below].attached
  IN up[Len(devs)]

\* AttachedDevice of device d is set.
WithAbove(devs, d, above) == [devs EXCEPT ![d].attached = above]

\* IoCreateDevice_k and, for a driver of a stack, IoAttachDeviceToDeviceStack_k on the
\* device of the disk.
Created(devs, n, size) == Append(devs, [owner |-> n, stackSize |-> size, attached |-> 0])

IoCreateDevice(n, attaches) ==
  LET new == Len(device) + 1
      top == Top(device, 1) IN
  IF attaches
  THEN /\ device' = WithAbove(Created(device, n, device[top].stackSize + 1), top, new)
       /\ lower' = Append(lower, top)
  ELSE /\ device' = Created(device, n, 1)
       /\ lower' = Append(lower, 0)

\* MUTANT of DetachedFrom: the device above keeps the one below.
DetachedAbove(d) ==
  IF lower[d] = 0 THEN UNCHANGED <<device, lower>>
  ELSE device' = WithAbove(device, lower[d], 0) /\ UNCHANGED lower

\* IoDetachDevice_k by the driver of device d on the device below it; IoDeleteDevice_k
\* does nothing.
DetachedFrom(d) ==
  IF lower[d] = 0 THEN UNCHANGED <<device, lower>>
  ELSE LET above == device[lower[d]].attached IN
       /\ device' = WithAbove(device, lower[d], 0)
       /\ lower' = IF above = 0 THEN lower ELSE [lower EXCEPT ![above] = 0]

\* io_symlink_create_ascii, IoDeleteSymbolicLink_k.
Linked(ls, n) ==
  LET own == {i \in DOMAIN ls : ls[i] = n} IN
  IF own # {} \/ FreeIn(ls) = {} THEN ls ELSE [ls EXCEPT ![Min(FreeIn(ls))] = n]

Unlinked(ls, n) ==
  LET own == {i \in DOMAIN ls : ls[i] = n} IN
  IF own = {} THEN ls ELSE [ls EXCEPT ![Min(own)] = "none"]

\* ObLookupObject of the device's name, IoGetDeviceObjectPointer_k of its link: devices
\* are never deleted, and the oldest of a name is found.
Named(n) ==
  LET own == {d \in DOMAIN device : device[d].owner = n}
  IN IF own = {} THEN 0 ELSE Min(own)

-----------------------------------------------------------------------------
\* DriverEntry of n, which registers through one function; it fails only after it has
\* taken back what it did.
DriverEntry(n, via, attaches) ==
  /\ Len(device) < MaxDevice
  /\ IoCreateDevice(n, attaches)
  /\ link' = Linked(link, n)
  /\ routine' = Registered(routine, n, via)
  /\ held' = held \union Kept(routine, n, via)

\* DriverUnload of n, of the device and the registrations of its last DriverEntry.
Latest(n) == Max({d \in DOMAIN device : device[d].owner = n})

DriverUnload(n) ==
  IF n \in NoUnload THEN UNCHANGED <<device, lower, link, routine, held>>
  ELSE LET own == {h \in held : h.driver = n} IN
       /\ DetachedFrom(Latest(n))
       /\ link' = Unlinked(link, n)
       /\ routine' = Unregistered(routine, n, own)
       /\ held' = held \ own

\* driver_load at boot, before any program runs: the driver is loaded, tried and, if it
\* can be, unloaded, and is then known as stopped.
DriverLoad(n, via) ==
  /\ n \in atBoot
  /\ atBoot' = atBoot \ {n}
  /\ state' = [state EXCEPT ![n] = "stopped"]
  /\ \/ /\ n \notin NoUnload
        /\ Len(device) < MaxDevice
        /\ device' = Created(device, n, 1) /\ lower' = Append(lower, 0)
        /\ routine' = IF via = "cm" THEN Registered(routine, n, via) ELSE routine
        /\ UNCHANGED <<link, held>>
     \/ n \in NoUnload /\ DriverEntry(n, via, FALSE)
     \/ UNCHANGED <<device, lower, link, routine, held>>    \* DriverEntry fails

\* driver_load_by_name: nothing is done for a driver that runs.
DriverLoadByName(n, via, attaches) ==
  /\ atBoot = {}
  /\ state[n] # "running"
  /\ \/ DriverEntry(n, via, attaches) /\ state' = [state EXCEPT ![n] = "running"]
     \/ /\ state' = [state EXCEPT ![n] = "stopped"]
        /\ UNCHANGED <<device, lower, link, routine, held>>
  /\ UNCHANGED atBoot

\* driver_unload_by_name: stopped, also when there was no DriverUnload to call.
DriverUnloadByName(n) ==
  /\ state[n] = "running"
  /\ state' = [state EXCEPT ![n] = "stopped"]
  /\ DriverUnload(n)
  /\ UNCHANGED atBoot

DmNext ==
  \E n \in DriverName :
    \/ \E via \in Registrar : DriverLoad(n, via)
    \/ \E via \in Registrar, attaches \in BOOLEAN : DriverLoadByName(n, via, attaches)
    \/ DriverUnloadByName(n)

DmSpec == DmInit /\ [][DmNext]_dmVars
-----------------------------------------------------------------------------
SlotsOf(n, t) == {i \in Callback : routine[t][i] = n}

\* What a driver has registered and not taken back is in the tables, once for each time
\* it was registered, whatever the others have registered and taken back meanwhile
\* (ex/callbacks.c:63-195).
RegistrationsStand ==
  /\ \A h \in held : h.via \in {"ob", "cm", "ex"} => routine[TableOf(h.via)][h.slot] = h.driver
  /\ \A n \in DriverName :
       Cardinality(SlotsOf(n, "ps")) = Cardinality({h \in held : h.driver = n /\ h.via = "ps"})
  /\ \A i \in Callback : routine["ob"][i] # "none" => \E h \in held : h.via = "ob" /\ h.slot = i

\* The device below a device is the one it is attached to, its requests have one stack
\* location more, and the way up ends, whatever was attached and detached
\* (io/io.c:271-314).
StacksMatch ==
  \A d \in DOMAIN device :
    /\ lower[d] # 0 => device[lower[d]].attached = d
                       /\ device[d].stackSize = device[lower[d]].stackSize + 1
    /\ device[d].attached # 0 => /\ device[d].attached \in d + 1..Len(device)
                                 /\ lower[device[d].attached] = d

\* No link is in two slots, or a deleted link would be found again (io/io.c:585-632).
LinksOnce == \A i, j \in DOMAIN link : link[i] = link[j] /\ link[i] # "none" => i = j

\* A routine of CmRegisterCallback_k is never taken out again: the table only fills, and
\* what is unloaded is called on every operation on the registry (ex/callbacks.c:170-180).
CmFilledSlots == {i \in Callback : routine["cm"][i] # "none"
                                   /\ ~\E h \in held : h.via = "ex" /\ h.slot = i}
CmNeverEmptied == [][CmFilledSlots \subseteq CmFilledSlots']_dmVars

DriversSound ==
  /\ RegistrationsStand
  /\ StacksMatch
  /\ LinksOnce

\* The device that the name of a running driver finds is the one this driver created.
NameFindsRunning == \A n \in DriverName : state[n] = "running" => Named(n) = Latest(n)
=============================================================================
