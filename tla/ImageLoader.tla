----------------------------- MODULE ImageLoader -----------------------------
(***************************************************************************)
(* The loader of libraries (ldr/loader.c, pe.c, pe_export_image.c): the     *)
(* table of modules, where an image is mapped, and the binding of its       *)
(* imports, which loads what it names.  The recursion of ldr_load through   *)
(* pe_bind_imports is `binding', a stack of the modules being bound.  A     *)
(* name is the sequence of its parts, memory a row of units.                *)
(***************************************************************************)
EXTENDS Integers, SequencesExt, FiniteSetsExt

CONSTANTS
  Image,         \* the bytes an image can be
  Pe,            \* what its headers say: [Image -> record with the fields of ExportImage]
  Booted,        \* the modules the boot hands over: a sequence of <<name, image>>
  OnDisk,        \* the files of the volume that are images: a set of <<path, image>>
  Wanted,        \* the names a program gives to LoadLibrary
  MAX_MODULES,   \* the room of s_mods
  Territory,     \* the first unit of the frame allocator (LDR_PMM_TERRITORY)
  Mapped,        \* the first unit that is not mapped one to one (1 GiB)
  LastUnit

VARIABLES
  s_mods,    \* [name, image, base, iat, moved]: base 0 is a module that is not loaded
  binding,   \* the calls of pe_bind_imports that run: [mod, next], the last one on top
  content,   \* what was last written to a unit of memory: a module, Heap or None
  taken      \* the units that pmm_alloc_contiguous has given away

ldVars == <<s_mods, binding, content, taken>>

None == 0
Heap == -1
PmmUnit == Territory .. LastUnit
Ntoskrnl == <<"ntoskrnl", "exe">>
NtoskrnlBase == 1     \* .bss of the kernel
Slot(at, fn) == [at |-> at, fn |-> fn]
Unresolved == Slot(0, 0)
Thunk == Slot(0, -1)     \* what the linker left in a slot of the delayed imports

\* The image that stands for the kernel: it exports every name of the table, by name and by
\* ordinals that begin at 1, and has nothing to bind or to relocate.
ExportImage(names) ==
  [valid |-> TRUE, preferred |-> NtoskrnlBase, size |-> 1, ordBase |-> 1, exports |-> names,
   imports |-> <<>>, relocs |-> <<>>, pointers |-> {}]

\* The contracts of apiset_redirect with the library that serves each: the first that is a
\* prefix of the name counts.
Contracts ==
  << <<<<"api-ms-win", "crt">>, "ucrtbase">>, <<<<"api-ms-win", "core", "com">>, "combase">>,
     <<<<"api-ms-win", "core", "winrt">>, "combase">>,
     <<<<"api-ms-win", "core", "registry">>, "advapi32">>, <<<<"api-ms-win", "core">>, "kernel32">>,
     <<<<"api-ms-win", "rtcore", "ntuser">>, "user32">>, <<<<"api-ms-win", "ntuser">>, "user32">>,
     <<<<"api-ms-win", "security">>, "advapi32">>, <<<<"api-ms-win", "eventing">>, "advapi32">>,
     <<<<"api-ms-win", "shell">>, "shell32">>, <<<<"api-ms-win", "shcore">>, "shcore">>,
     <<<<"api-ms-win", "shlwapi">>, "shcore">>, <<<<"shlwapi">>, "shcore">>,
     <<<<"api-ms-win", "storage">>, "shell32">>, <<<<"ext-ms-win", "rtcore", "ntuser">>, "user32">>,
     <<<<"ext-ms-win", "ntuser">>, "user32">>, <<<<"ext-ms-win", "session", "winsta">>, "user32">>,
     <<<<"ext-ms-win", "gdi">>, "gdi32">>, <<<<"ext-ms-win", "shell32">>, "shell32">>,
     <<<<"ext-ms-win", "shell">>, "shell32">>, <<<<"ext-ms-win", "security">>, "advapi32">>,
     <<<<"ext-ms-win", "core">>, "kernel32">>, <<<<"userenv">>, "advapi32">>,
     <<<<"sspicli">>, "advapi32">>, <<<<"kernelbase">>, "kernel32">> >>

apiset_redirect(name) ==
  LET fits == {c \in DOMAIN Contracts : IsPrefix(Contracts[c][1], name)}
  IN IF fits = {} THEN name ELSE <<Contracts[Min(fits)][2], "dll">>

append_dll_if_bare(name) == IF Len(name) = 1 THEN Append(name, "dll") ELSE name

Units(base, image) == base .. base + Pe[image].size - 1

find_mod(mods, name) ==
  LET found == {i \in DOMAIN mods : mods[i].name = name}
  IN IF found = {} THEN None ELSE Min(found)

Unloaded(name, image) ==
  [name |-> name, image |-> image, base |-> 0, iat |-> <<>>, moved |-> {}]

ldr_register(mods, name, image) ==
  IF Len(mods) >= MAX_MODULES THEN mods ELSE Append(mods, Unloaded(name, image))

\* pe_get_export and pe_get_export_by_ordinal: the place of the function, 0 when there is
\* none.  An empty place of the ordinals is "".
Export(image, import) ==
  LET funcs == Pe[image].exports
      idx == import.ord - Pe[image].ordBase + 1
  IN IF import.byOrdinal
       THEN IF idx \in DOMAIN funcs /\ funcs[idx] # "" THEN idx ELSE 0
       ELSE LET named == {k \in DOMAIN funcs : funcs[k] = import.fn}
            IN IF named = {} THEN 0 ELSE Min(named)

\* A bug: a block that is too short does not end the walk.
PatchedPast(image, base) ==
  IF base = Pe[image].preferred THEN {}
  ELSE LET blocks == Pe[image].relocs
       IN UNION {{e.at : e \in {d \in blocks[b].entries : d.type \in {3, 10}}} : b \in DOMAIN blocks}

\* pe_relocate: the places it patches, the blocks after one that is too short left out; an
\* image at the address it was linked for needs none.
Patched(image, base) ==
  IF base = Pe[image].preferred THEN {}
  ELSE LET blocks == Pe[image].relocs
           short == {b \in DOMAIN blocks : blocks[b].short}
           walked == IF short = {} THEN DOMAIN blocks ELSE 1 .. Min(short) - 1
       IN UNION {{e.at : e \in {d \in blocks[b].entries : d.type \in {3, 10}}} : b \in walked}

\* The slots as pe_map_at copies them from the file.
FreshIat(image) ==
  [k \in DOMAIN Pe[image].imports |->
     IF Pe[image].imports[k].delayed THEN Thunk ELSE Unresolved]

Write(base, image, who) ==
  content' = [u \in DOMAIN content |-> IF u \in Units(base, image) THEN who ELSE content[u]]

Place(mods, i, base, moved) ==
  [mods EXCEPT ![i].base = base, ![i].iat = FreshIat(mods[i].image), ![i].moved = moved]

\* pmm_alloc_contiguous: the lowest run of free frames, 0 when there is none.
LowestRun(n) ==
  LET runs == {u \in PmmUnit : u + n - 1 <= LastUnit /\ (u .. u + n - 1) \cap taken = {}}
  IN IF runs = {} THEN 0 ELSE Min(runs)

\* The base a module gets, with the module registered as loaded before its imports are bound
\* (which ends the cycles), or a load that fails and keeps the frames it took.
MapAtPreferred(mods, i) ==
  LET image == mods[i].image
      base == Pe[image].preferred
  IN /\ s_mods' = Place(mods, i, base, {})
     /\ Write(base, image, i)
     /\ UNCHANGED taken

CanMapInFrames(image) ==
  LET alt == LowestRun(Pe[image].size) IN alt # 0 /\ alt < Mapped

MapInFrames(i) ==
  LET image == s_mods[i].image
      alt == LowestRun(Pe[image].size)
  IN /\ taken' = taken \union Units(alt, image)
     /\ s_mods' = Place(s_mods, i, alt, Patched(image, alt))
     /\ Write(alt, image, i)

FailInFrames(image) ==
  LET alt == LowestRun(Pe[image].size)
  IN taken' = IF alt = 0 THEN taken ELSE taken \union Units(alt, image)

High(image) == Pe[image].preferred >= Territory
\* ldr_load of a module that is not loaded gives a base.
Loads(image) == Pe[image].valid /\ (High(image) => CanMapInFrames(image))

LoadAndBind(i) ==
  /\ IF High(s_mods[i].image) THEN MapInFrames(i) ELSE MapAtPreferred(s_mods, i)
  /\ binding' = Append(binding, [mod |-> i, next |-> 1])

\* What a load that fails leaves behind.
LoadFails(image) ==
  IF Pe[image].valid /\ High(image) THEN FailInFrames(image) ELSE UNCHANGED taken
-----------------------------------------------------------------------------
LdInit ==
  /\ s_mods = << [Unloaded(Ntoskrnl, "ntoskrnl") EXCEPT !.base = NtoskrnlBase] >>
                \o [i \in DOMAIN Booted |-> Unloaded(Booted[i][1], Booted[i][2])]
  /\ binding = <<>>
  /\ content = [u \in 1 .. LastUnit |-> IF u = NtoskrnlBase THEN 1 ELSE None]
  /\ taken = {}

\* ldr_load_runtime of a name: the redirected name, else the same with ".dll".
Runtime(name) ==
  LET red == apiset_redirect(name)
      direct == find_mod(s_mods, red)
  IN IF direct # None THEN direct ELSE find_mod(s_mods, append_dll_if_bare(red))

\* sys_loadlibrary of a module of the boot.
LoadLibrary(name) ==
  /\ binding = <<>>
  /\ Runtime(name) # None
  /\ LET i == Runtime(name)
     IN /\ s_mods[i].base = 0
        /\ IF Loads(s_mods[i].image)
             THEN LoadAndBind(i)
             ELSE LoadFails(s_mods[i].image) /\ UNCHANGED <<s_mods, binding, content>>

\* sys_loadlibrary of a file of the volume, then ldr_load_image: under the name of the file,
\* not redirected, at the address it was linked for.
LoadFromDisk(path, image) ==
  /\ binding = <<>>
  /\ LET bn == <<Last(path), "dll">>
         old == find_mod(s_mods, bn)
         mods == IF old = None THEN ldr_register(s_mods, bn, image)
                 ELSE [s_mods EXCEPT ![old].image = image]
         i == find_mod(mods, bn)
     IN /\ old # None => s_mods[old].base = 0
        /\ i # None
        /\ IF Pe[image].valid
             THEN /\ MapAtPreferred(mods, i)
                  /\ binding' = <<[mod |-> i, next |-> 1]>>
             ELSE s_mods' = mods /\ UNCHANGED <<binding, content, taken>>

\* pe_bind_imports takes the next import of the module on top: ldr_resolve finds its library,
\* loaded, loads it first, or leaves 0.  A delayed import that nothing serves gets the no-op
\* of ntdll, which was resolved before the delayed ones, or keeps its thunk.
Binder == Last(binding)
Import == Pe[s_mods[Binder.mod].image].imports[Binder.next]
Binding == binding # <<>> /\ Binder.next <= Len(Pe[s_mods[Binder.mod].image].imports)
Provider == find_mod(s_mods, apiset_redirect(Import.dll))

NullStub(i) ==
  LET stubs == {k \in DOMAIN Pe[s_mods[i].image].imports : Pe[s_mods[i].image].imports[k].nullstub}
  IN IF stubs = {} THEN Unresolved ELSE s_mods[i].iat[Min(stubs)]

Bind(slot) ==
  LET i == Binder.mod
      bound == IF slot # Unresolved \/ ~Import.delayed THEN slot
               ELSE IF NullStub(i) # Unresolved THEN NullStub(i) ELSE Thunk
  IN /\ s_mods' = [s_mods EXCEPT ![i].iat[Binder.next] = bound]
     /\ binding' = [binding EXCEPT ![Len(binding)].next = @ + 1]
     /\ UNCHANGED content

BindLoaded ==
  /\ Binding /\ Provider # None /\ s_mods[Provider].base # 0
  /\ LET fn == Export(s_mods[Provider].image, Import)
     IN Bind(IF fn = 0 THEN Unresolved ELSE Slot(s_mods[Provider].base, fn))
  /\ UNCHANGED taken

BindLoads ==
  /\ Binding /\ Provider # None /\ s_mods[Provider].base = 0
  /\ Loads(s_mods[Provider].image)
  /\ LoadAndBind(Provider)

BindFails ==
  /\ Binding
  /\ \/ Provider = None /\ UNCHANGED taken
     \/ /\ Provider # None /\ s_mods[Provider].base = 0
        /\ ~Loads(s_mods[Provider].image)
        /\ LoadFails(s_mods[Provider].image)
  /\ Bind(Unresolved)

BindReturns ==
  /\ binding # <<>> /\ ~Binding
  /\ binding' = Front(binding)
  /\ UNCHANGED <<s_mods, content, taken>>

\* VirtualAlloc of a program takes frames and writes to them.
HeapGrows ==
  /\ binding = <<>>
  /\ LET u == LowestRun(1)
     IN /\ u # 0
        /\ taken' = taken \union {u}
        /\ content' = [content EXCEPT ![u] = Heap]
  /\ UNCHANGED <<s_mods, binding>>

LdNext ==
  \/ \E name \in Wanted : LoadLibrary(name)
  \/ \E file \in OnDisk : LoadFromDisk(file[1], file[2])
  \/ BindLoaded \/ BindLoads \/ BindFails \/ BindReturns
  \/ HeapGrows
-----------------------------------------------------------------------------
SlotSet == {Unresolved, Thunk} \union {Slot(at, fn) : at \in 1 .. LastUnit, fn \in 1 .. 4}

LdTypeOK ==
  /\ \A i \in DOMAIN s_mods :
       /\ s_mods[i].image \in Image
       /\ s_mods[i].base \in 0 .. LastUnit
       /\ s_mods[i].iat \in Seq(SlotSet)
  /\ Len(s_mods) <= MAX_MODULES
  /\ \A d \in DOMAIN binding : binding[d].mod \in DOMAIN s_mods /\ binding[d].next \in Nat
  /\ content \in [1 .. LastUnit -> {None, Heap} \union DOMAIN s_mods]
  /\ taken \subseteq PmmUnit

Loaded == {i \in DOMAIN s_mods : s_mods[i].base # 0}
Home(i) == Units(s_mods[i].base, s_mods[i].image)
FromDisk(i) == s_mods[i].image \in {file[2] : file \in OnDisk}

\* No module is bound twice at once: a cycle of imports ends at the module that is already
\* registered as loaded (loader.c:195, "evita loop").
CyclesEnd == \A d, e \in DOMAIN binding : binding[d].mod = binding[e].mod => d = e

\* Once its binding is over, no slot of a module leads anywhere but to the function the import
\* names, in the library that serves it and where that library is, to the no-op of ntdll for
\* a delayed import, or nowhere; a slot leads nowhere only where the library does not export the
\* function, or could fail to load for want of frames or of its file (pe.c:188-275).
SlotLeads(i, k) ==
  LET import == Pe[s_mods[i].image].imports[k]
      slot == s_mods[i].iat[k]
      p == find_mod(s_mods, apiset_redirect(import.dll))
      serves == p # None /\ s_mods[p].base # 0 /\ Export(s_mods[p].image, import) # 0
  IN IF slot.at = 0
       THEN /\ import.delayed => slot = Thunk /\ NullStub(i) = Unresolved
            /\ serves => High(s_mods[p].image) \/ FromDisk(p)
     ELSE \/ serves /\ slot = Slot(s_mods[p].base, Export(s_mods[p].image, import))
          \/ import.delayed /\ slot = NullStub(i)

SlotsLead ==
  \A i \in Loaded :
    (\A d \in DOMAIN binding : binding[d].mod # i) =>
       \A k \in DOMAIN s_mods[i].iat : SlotLeads(i, k)

\* The pointers an image with relocations holds into itself are patched when, and only
\* when, it is not where it was linked for (loader.c:203, pe.c:127-163).
PointersHold ==
  \A i \in Loaded \ {1} :
    IF s_mods[i].base = Pe[s_mods[i].image].preferred THEN s_mods[i].moved = {}
    ELSE Pe[s_mods[i].image].relocs # <<>> => s_mods[i].moved = Pe[s_mods[i].image].pointers

\* A module whose memory was overwritten owes it to an image from the disk that is, or lies,
\* where it was linked for among the frames, which ldr_load avoids and ldr_load_image does
\* not (loader.c:160-172 against 275), or below the frames to two images linked for one place.
OverwrittenBy(i, u) ==
  IF u \in PmmUnit
    THEN \/ FromDisk(i) /\ s_mods[i].base = Pe[s_mods[i].image].preferred
         \/ content[u] \in Loaded /\ FromDisk(content[u])
    ELSE content[u] \in Loaded /\ u \in Units(Pe[s_mods[content[u]].image].preferred,
                                              s_mods[content[u]].image)

MemoryKept == \A i \in Loaded : \A u \in Home(i) : content[u] # i => OverwrittenBy(i, u)

LoaderSound == CyclesEnd /\ SlotsLead /\ PointersHold /\ MemoryKept
=============================================================================
