--------------------------- MODULE PhysicalMemory ---------------------------
(***************************************************************************)
(* Page frames (mm/pmm.c) and who takes them: virtual memory (mm/virtmem.c), *)
(* common buffers of devices (hal/haldma.c), address spaces, page tables and *)
(* pages mapped on a fault (mm/paging.c, hal/hal.c).                         *)
(*                                                                         *)
(* An address space is a root table with three entries that are not the       *)
(* identity map: that of the arena of devices and that of the page all share  *)
(* with the kernel (KUSER_SHARED_DATA), both made at boot before any process, *)
(* and one other.  Below an entry are up to Levels tables and the pages that  *)
(* are mapped there; this is a tree, and roots share it if they were copied   *)
(* when it was there.                                                        *)
(***************************************************************************)
EXTENDS Integers, SequencesExt

CONSTANTS
  Frames,        \* frames that pmm_init finds
  Region,        \* the numbers of pages that are asked for together
  Levels,        \* tables between a root entry and a page
  Page,          \* bound: the pages of the other entry
  ArenaPages     \* the pages of the arena

ASSUME PmSizesOK ==
  /\ Frames \in Nat \ {0} /\ Region \subseteq Nat \ {0}
  /\ Levels \in Nat \ {0} /\ ArenaPages \in Nat

VARIABLES
  used,          \* bitmap
  free,          \* s_free
  holder,        \* what each used frame was taken for
  vmPages,       \* s_vm_bytes
  tree,          \* trees of tables: how many there are, the pages mapped
  root,          \* the address spaces; the first is the kernel's
  reserved,      \* s_mmio_next: the pages of the arena given out so far
  booted         \* KUSER_SHARED_DATA was mapped, or could not be

pmVars == <<used, free, holder, vmPages, tree, root, reserved, booted>>

Frame == 1..Frames
Entry == {"arena", "kuser", "other"}
Shared == 0                \* the page below "kuser"
Use == {"free", "region", "buffer", "table", "root", "page", "lost"}

PmTypeOK ==
  /\ used \subseteq Frame /\ free \in Int
  /\ holder \in [Frame -> Use]
  /\ vmPages \in Nat
  /\ tree \in Seq([tables : 0..Levels, pages : SUBSET (Page \union 0..ArenaPages)])
  /\ root \in Seq([Entry -> 0..Len(tree)])
  /\ reserved \in 0..ArenaPages /\ booted \in BOOLEAN

\* mm_mmio_init makes the first table of the arena.
Arena == [tables |-> 1, pages |-> {}]

\* pmm_init, then the arena.
PmInit ==
  /\ used = {1} /\ free = Frames - 1
  /\ holder = [f \in Frame |-> IF f = 1 THEN "table" ELSE "free"]
  /\ vmPages = 0
  /\ tree = <<Arena>>
  /\ root = <<[arena |-> 1, kuser |-> 0, other |-> 0]>>
  /\ reserved = 0 /\ booted = FALSE

-----------------------------------------------------------------------------
\* The frames that n calls of pmm_alloc_frame return: the lowest ones.
Lowest(n) == {f \in Frame \ used : Cardinality({g \in Frame \ used : g <= f}) <= n}

\* The first window of n free frames (pmm_alloc_contiguous), or none.
Window(n) ==
  LET starts == {f \in Frame : f + n - 1 <= Frames /\ (f..f + n - 1) \intersect used = {}}
  IN IF starts = {} THEN {} ELSE Min(starts)..Min(starts) + n - 1

Hold(as) == holder' = [f \in Frame |-> IF f \in DOMAIN as THEN as[f] ELSE holder[f]]
Take(fs, use) ==
  /\ used' = used \union fs
  /\ free' = free - Cardinality(fs)
  /\ Hold([f \in fs |-> use])

\* pmm_free_frame ignores a frame that is free.
Release(fs) ==
  /\ used' = used \ fs
  /\ free' = free + Cardinality(fs \intersect used)
  /\ Hold([f \in fs |-> "free"])

\* MmAllocateVirtualMemory_k.
MmAllocateVirtualMemory(n) ==
  /\ Window(n) # {}
  /\ Take(Window(n), "region")
  /\ vmPages' = vmPages + n
  /\ UNCHANGED <<tree, root, reserved, booted>>

\* MmFreeVirtualMemory_k of n pages of what was allocated; with size 0 of one page.
MmFreeVirtualMemory(base, n) ==
  LET fs == base..base + n - 1 IN
  /\ fs \subseteq {f \in Frame : holder[f] = "region"}
  /\ Release(fs)
  /\ vmPages' = IF vmPages >= n THEN vmPages - n ELSE 0
  /\ UNCHANGED <<tree, root, reserved, booted>>

\* dma_alloc_common, dma_free_common.
AllocateCommonBuffer(n) ==
  /\ Window(n) # {}
  /\ Take(Window(n), "buffer")
  /\ UNCHANGED <<vmPages, tree, root, reserved, booted>>

FreeCommonBuffer(base, n) ==
  /\ base..base + n - 1 \subseteq {f \in Frame : holder[f] = "buffer"}
  /\ Release(base..base + n - 1)
  /\ UNCHANGED <<vmPages, tree, root, reserved, booted>>

\* mm_create_address_space copies the directory, its parent and the root; what it has
\* taken it gives back when there is no frame for the next.
MmCreateAddressSpace ==
  /\ booted
  /\ Cardinality(Frame \ used) >= 3
  /\ Take(Lowest(3), "root")
  /\ root' = Append(root, root[1])
  /\ UNCHANGED <<vmPages, tree, reserved, booted>>

\* ensure_table below an entry of space s, with n frames to spare: the tables it makes
\* stay, also when there are too few.
TablesMissing(s, e) == Levels - (IF root[s][e] = 0 THEN 0 ELSE tree[root[s][e]].tables)

Grown(s, e, n, pages) ==
  LET t == root[s][e] IN
  IF t # 0
  THEN /\ tree' = [tree EXCEPT ![t] = [tables |-> @.tables + n, pages |-> @.pages \union pages]]
       /\ UNCHANGED root
  ELSE IF n = 0 THEN UNCHANGED <<tree, root>>
  ELSE /\ tree' = Append(tree, [tables |-> n, pages |-> pages])
       /\ root' = [root EXCEPT ![s][e] = Len(tree) + 1]

\* mm_map_zero_page on a fault in space s: the frame first, then the tables; when these
\* cannot be had the frame is not given back.  A page that is there is only cleared.
MmMapZeroPage(s, p) ==
  LET e == "other"
      t == root[s][e]
      missing == TablesMissing(s, e)
      got == Min({missing, Cardinality(Frame \ used) - 1})
      data == Lowest(1)
      tables == Lowest(1 + got) \ data IN
  /\ t # 0 => p \notin tree[t].pages
  /\ data # {}
  /\ used' = used \union data \union tables
  /\ free' = free - 1 - got
  /\ Hold([f \in data \union tables |-> IF f \in tables THEN "table"
                                         ELSE IF got = missing THEN "page" ELSE "lost"])
  /\ Grown(s, e, got, IF got = missing THEN {p} ELSE {})
  /\ UNCHANGED <<vmPages, reserved, booted>>

\* mm_map_kuser_shared_data, once, before the first process: the tables, then the page;
\* the tables stay also when there is no frame for it.
MmMapKuserSharedData ==
  LET missing == TablesMissing(1, "kuser")
      got == Min({missing, Cardinality(Frame \ used)})
      tables == Lowest(got)
      page == Lowest(missing + 1) \ Lowest(missing) IN
  /\ ~booted
  /\ used' = used \union tables \union page
  /\ free' = free - got - Cardinality(page)
  /\ Hold([f \in tables \union page |-> IF f \in page THEN "page" ELSE "table"])
  /\ Grown(1, "kuser", got, IF page = {} THEN {} ELSE {Shared})
  /\ booted' = TRUE
  /\ UNCHANGED <<vmPages, reserved>>

\* mm_mmio_reserve gives addresses out once, those of a mapping that then fails too.
Reserve(n) ==
  /\ reserved + n <= ArenaPages
  /\ reserved' = reserved + n

\* hal_map_mmio of a device of n pages in the space that is current.
HalMapMmio(s, n) ==
  LET missing == TablesMissing(s, "arena")
      got == Min({missing, Cardinality(Frame \ used)}) IN
  /\ Reserve(n)
  /\ Take(Lowest(got), "table")
  /\ Grown(s, "arena", got, IF got = missing THEN reserved + 1..reserved + n ELSE {})
  /\ UNCHANGED <<vmPages, booted>>

\* mm_unmap_range leaves the tables.
Unmap(t, ps) == tree' = [tree EXCEPT ![t].pages = @ \ ps]

\* hal_unmap_mmio of pages that were mapped.
HalUnmapMmio(s, ps) ==
  /\ ps \subseteq tree[root[s].arena].pages
  /\ Unmap(root[s].arena, ps)
  /\ UNCHANGED <<used, free, holder, vmPages, root, reserved, booted>>

PmNext ==
  \/ \E n \in Region :
       \/ MmAllocateVirtualMemory(n) \/ AllocateCommonBuffer(n)
       \/ \E f \in Frame : FreeCommonBuffer(f, n)
  \/ \E n \in Region \union {1}, f \in Frame : MmFreeVirtualMemory(f, n)
  \/ MmCreateAddressSpace
  \/ \E s \in DOMAIN root, p \in Page :
       MmMapZeroPage(s, p)
  \/ MmMapKuserSharedData
  \/ \E s \in DOMAIN root, n \in Region :
       \/ HalMapMmio(s, n)
       \/ \E p \in 1..ArenaPages : HalUnmapMmio(s, p..p + n - 1)
PmSpec == PmInit /\ [][PmNext]_pmVars
-----------------------------------------------------------------------------
\* How many there are in the sets of f together.
Together(f) == Cardinality(UNION {{t} \X f[t] : t \in DOMAIN f})

Held(use) == Cardinality({f \in Frame : holder[f] = use})

\* s_free is the number of frames that are free in the bitmap, and every used frame has
\* one holder (mm/pmm.c:16-60).
FramesCounted ==
  /\ free = Frames - Cardinality(used)
  /\ used = {f \in Frame : holder[f] # "free"}

\* Tables are never counted twice nor forgotten: each frame of a table is in one tree,
\* and each space has its own three (mm/paging.c:60-112).
TablesCounted ==
  /\ Held("table") = Together([t \in DOMAIN tree |-> 1..tree[t].tables])
  /\ Held("root") = 3 * (Len(root) - 1)

\* The bytes of virtual memory are those of the frames it holds (mm/virtmem.c:92-142).
RegionsCounted == vmPages = Held("region")

\* A device that is mapped, and the page shared with the kernel, are mapped in every address
\* space, those of the processes that were there before included, for all have one table of
\* each (mm/paging.c:115-142, 332-376).
KernelHalfShared ==
  \A s \in DOMAIN root : /\ root[s].arena = root[1].arena /\ root[s].arena # 0
                          /\ root[s].kuser = root[1].kuser

\* What is mapped in the arena was reserved for it, and a page that is mapped on its own has
\* a frame of its own (mm/paging.c:383-394).
PagesHeld ==
  /\ \A s \in DOMAIN root : tree[root[s].arena].pages \subseteq 1..reserved
  /\ Held("page") = Together([t \in DOMAIN tree \ {root[1].arena} |-> tree[t].pages])

FramesSound ==
  /\ FramesCounted
  /\ TablesCounted
  /\ RegionsCounted
  /\ KernelHalfShared
  /\ PagesHeld
=============================================================================
