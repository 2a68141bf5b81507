----------------------------- MODULE MCServices -----------------------------
(***************************************************************************)
(* The services of the kernel and of its drivers, for TLC.  They share no   *)
(* state but the objects, so that each is explored alone, with the others at *)
(* rest: `part' is the one that runs.                                       *)
(***************************************************************************)
EXTENDS ProcessManager, FileServices, KernelHeap, PhysicalMemory,
        DriverManager, Registry, NtfsVolume, VirtioQueue, GpuDisplay,
        InterruptObjects, ProcessorStart, TrapDispatch, ImageLoader, Libraries

CONSTANT Part        \* the services to explore

VARIABLE part

MCMadt == <<0, 1, 2, 4>>

\* A few images: kernel32 and ucrtbase import each other through contracts, combase is linked
\* for the place of ucrtbase, kernel32 and the images of the disk for places among the frames.
ByName(dll, fn) == [dll |-> dll, fn |-> fn, byOrdinal |-> FALSE, ord |-> 0,
                   delayed |-> FALSE, nullstub |-> FALSE]
ByNumber(dll, ord) == [ByName(dll, "") EXCEPT !.byOrdinal = TRUE, !.ord = ord]
Stub == [ByName(<<"ntdll", "dll">>, "LdrpNullStub") EXCEPT !.nullstub = TRUE]
Delayed(dll, fn) == [ByName(dll, fn) EXCEPT !.delayed = TRUE]
Plain(preferred, exports, imports) ==
  [ExportImage(exports) EXCEPT !.preferred = preferred, !.imports = imports]
MCPe ==
  [ntoskrnl |-> ExportImage(<<"KeBugCheck", "KeTick">>),
   ntdll |-> Plain(2, <<"LdrpNullStub", "RtlExit">>, <<>>),
   ucrtbase |-> Plain(3, <<"malloc", "", "free">>,
                      <<ByName(<<"api-ms-win", "core", "synch">>, "Sleep")>>),
   combase |-> Plain(3, <<"CoTaskMemAlloc">>, <<>>),
   kernel32 |-> [Plain(5, <<"Sleep">>,
                       <<ByName(<<"api-ms-win", "crt", "l1">>, "free"),
                         ByNumber(<<"ucrtbase", "dll">>, 2), ByNumber(<<"ntdll", "dll">>, 2),
                         Stub, Delayed(<<"api-ms-win", "core", "com">>, "CoTaskMemAlloc"),
                         Delayed(<<"shell32", "dll">>, "Assoc")>>)
                 EXCEPT !.size = 2, !.pointers = {1, 2},
                   !.relocs = <<[short |-> FALSE, entries |-> {[type |-> 10, at |-> 1], [type |-> 0, at |-> 3]}],
                                [short |-> FALSE, entries |-> {[type |-> 3, at |-> 2]}],
                                [short |-> TRUE, entries |-> {[type |-> 3, at |-> 4]}]>>],
   plug |-> Plain(6, <<"Plug">>, <<ByName(<<"kernelbase", "dll">>, "Sleep"), ByNumber(Ntoskrnl, 2), Stub,
                                   Delayed(<<"plug", "dll">>, "Gone")>>),
   bad |-> [Plain(4, <<>>, <<>>) EXCEPT !.valid = FALSE]]
MCImage == DOMAIN MCPe
MCBooted == [i \in 1..4 |-> LET n == <<"ntdll", "ucrtbase", "kernel32", "combase">>[i]
                            IN <<<<n, "dll">>, n>>]
MCOnDisk == {<<<<"C:", "plug">>, "plug">>, <<<<"C:", "combase">>, "bad">>,
             <<<<"C:", "more">>, "plug">>}
MCWanted == {<<"kernelbase", "dll">>, <<"combase">>, <<"api-ms-win", "crt", "l1">>}

MCEntries == [r \in Directory \union PlainFile |-> IF r = FsRoot THEN 2 ELSE 1]

kernelVars == <<obVars, psVars, fsVars, khVars, pmVars, dmVars, rgVars, ldVars>>
deviceVars == <<ntVars, diskVars, vqVars, evVars, gdVars>>
processorVars == <<ioVars, smpVars, trapVars, ps2Vars>>
vars == <<part, kernelVars, deviceVars, processorVars, libraryVars>>

Init ==
  /\ part \in Part
  /\ ObInit(IF part = "files" THEN <<"vol", "dev">> ELSE <<>>)
  /\ PsInit /\ FsInit /\ KhInit /\ PmInit /\ DmInit /\ RgInit /\ LdInit
  /\ NtInit /\ DiskInit /\ VqInit /\ EvInit /\ GdInit /\ IoInit /\ SmpInit /\ TrapInit /\ Ps2Init
  /\ LibrariesInit(part)
  /\ part # "registry" => typed = {}
  /\ part # "ps2" => psUnmasked

KernelStep ==
  \/ /\ part = "processes" /\ PsNext
     /\ UNCHANGED <<fsVars, khVars, pmVars, dmVars, rgVars, ldVars>>
  \/ /\ part = "files" /\ FsNext
     /\ UNCHANGED <<psVars, khVars, pmVars, dmVars, rgVars, ldVars>>
  \/ /\ part = "heap" /\ KhNext
     /\ UNCHANGED <<obVars, psVars, fsVars, pmVars, dmVars, rgVars, ldVars>>
  \/ /\ part = "frames" /\ PmNext
     /\ UNCHANGED <<obVars, psVars, fsVars, khVars, dmVars, rgVars, ldVars>>
  \/ /\ part = "drivers" /\ DmNext
     /\ UNCHANGED <<obVars, psVars, fsVars, khVars, pmVars, rgVars, ldVars>>
  \/ /\ part = "registry" /\ RgNext
     /\ UNCHANGED <<obVars, psVars, fsVars, khVars, pmVars, dmVars, ldVars>>
  \/ /\ part = "loader" /\ LdNext
     /\ UNCHANGED <<obVars, psVars, fsVars, khVars, pmVars, dmVars, rgVars>>

DeviceStep ==
  \/ /\ part = "volume" /\ NtNext
     /\ UNCHANGED <<diskVars, vqVars, evVars, gdVars>>
  \/ /\ part = "disk" /\ DiskNext
     /\ UNCHANGED <<ntVars, vqVars, evVars, gdVars>>
  \/ /\ part = "gpu queue" /\ VqNext
     /\ UNCHANGED <<ntVars, diskVars, evVars, gdVars>>
  \/ /\ part = "display" /\ GdNext
     /\ UNCHANGED <<ntVars, diskVars, vqVars, evVars>>
  \/ /\ part = "tablet" /\ EvNext
     /\ UNCHANGED <<ntVars, diskVars, vqVars, gdVars>>

ProcessorStep ==
  \/ part = "interrupts" /\ IoNext /\ UNCHANGED <<smpVars, trapVars, ps2Vars>>
  \/ part = "processors" /\ SmpNext /\ UNCHANGED <<ioVars, trapVars, ps2Vars>>
  \/ part = "traps" /\ InterruptsNext /\ UNCHANGED <<ioVars, smpVars, ps2Vars>>
  \/ part = "faults" /\ FaultsNext /\ UNCHANGED <<ioVars, smpVars, ps2Vars>>
  \/ part = "ps2" /\ Ps2Next /\ UNCHANGED <<ioVars, smpVars, trapVars>>

Next ==
  /\ UNCHANGED part
  /\ \/ KernelStep /\ UNCHANGED <<deviceVars, processorVars, libraryVars>>
     \/ DeviceStep /\ UNCHANGED <<kernelVars, processorVars, libraryVars>>
     \/ ProcessorStep /\ UNCHANGED <<kernelVars, deviceVars, libraryVars>>
     \/ LibrariesNext(part) /\ UNCHANGED <<kernelVars, deviceVars, processorVars>>

Spec == Init /\ [][Next]_vars

TypeOK ==
  /\ part \in Part
  /\ ObTypeOK /\ PsTypeOK /\ FsTypeOK /\ KhTypeOK /\ PmTypeOK /\ DmTypeOK /\ RgTypeOK /\ LdTypeOK
  /\ NtTypeOK /\ DiskTypeOK /\ VqTypeOK /\ EvTypeOK /\ GdTypeOK /\ IoTypeOK /\ SmpTypeOK /\ TrapTypeOK /\ Ps2TypeOK
  /\ LibrariesTypeOK(part)

\* The heap and the frames (mm/heap.c, mm/pmm.c).
MemorySound == HeapSound /\ FramesSound

\* What is stored: the keys of the registry under their names, the files of the volume and
\* the sectors of the disk (cm/registry.c:66-92, ntfs.c, hal/disk.c).
StoresSound == SiblingsDistinct /\ VolumeSound /\ DiskSound

\* The hardware the kernel drives: the display with its queue (VirtioGpu.c), the
\* queue of the tablet (virtio_input.c), the vectors of
\* interrupts (ke/amd64/kinterrupt.c), the processors that start (ke/amd64/smp.c) the
\* interrupts and faults that are taken (ke/amd64/isr.c, apic.c) and the keyboard and the
\* mouse (drivers/input).
HardwareSound ==
  /\ QueueSound /\ TabletSound /\ DisplaySound /\ InterruptsSound /\ StartSound /\ TrapsSound
  /\ Ps2Sound

\* What is loaded: the images, bound and placed (ldr), and the objects of a library (dll/win32).
LoadedSound == LoaderSound /\ LibrariesSound(part)

\* What the tables of the kernel promise over time: a key that was deleted is not found
\* again, and CmUnRegisterCallback gives no slot back (cm/registry.c:259-268,
\* ex/callbacks.c:170-180).
HistoryKept == DeletedStaysGone /\ CmNeverEmptied
=============================================================================
