----------------------------- MODULE KernelHeap -----------------------------
(***************************************************************************)
(* The kernel heap (mm/heap.c) and what is allocated from it: the executive  *)
(* pool (ex/pool.c), memory descriptor lists (mm/mdl.c), sections and         *)
(* contiguous memory (mm/section.c).  Sizes are in units of 8 bytes: the      *)
(* header of a block takes 3, sizes are rounded up to 2, and a pool header    *)
(* takes 2.  A call is one step: the heap has no lock, so this holds only as  *)
(* long as the threads that allocate are not preempted inside it.             *)
(***************************************************************************)
EXTENDS Integers, SequencesExt

CONSTANTS
  HeapSize,      \* HEAP_SIZE
  PoolRequest,   \* the sizes drivers ask of the pool
  RawRequest,    \* the sizes asked of kmalloc itself
  MdlPages       \* the numbers of pages of memory descriptor lists

ASSUME KhSizesOK ==
  /\ HeapSize \in Nat /\ HeapSize > 5 /\ HeapSize % 2 = 1
  /\ PoolRequest \subseteq Nat \ {0} /\ RawRequest \subseteq Nat \ {0}
  /\ MdlPages \subseteq Nat \ {0}

VARIABLES
  block,         \* the blocks of the list at s_head, by their headers: sizes and whether free
  client,        \* who holds the block at an address: PoolType, bytes asked
  poolBytes      \* s_bytes, s_bytes_paged, s_bytes_nonpag

khVars == <<block, client, poolBytes>>

BlockHeader == 3
PoolHeader == 2
MdlHeader == 6                            \* 0x30 bytes
Aligned(n) == n + (n % 2)

PoolType == {"paged", "nonpaged"}
Kind == PoolType \union {"raw"}

KhTypeOK ==
  /\ DOMAIN block \subseteq 0..HeapSize - 1
  /\ \A a \in DOMAIN block : block[a] \in [size : Nat, free : BOOLEAN]
  /\ \A a \in DOMAIN client : a \in 0..HeapSize /\ client[a] \in [kind : Kind, asked : Nat]
  /\ poolBytes \in [all : Nat, paged : Nat, nonpaged : Nat]

\* heap_init.
KhInit ==
  /\ block = [a \in {0} |-> [size |-> HeapSize - BlockHeader, free |-> TRUE]]
  /\ client = <<>>
  /\ poolBytes = [all |-> 0, paged |-> 0, nonpaged |-> 0]

-----------------------------------------------------------------------------
\* Where the block whose header is at a ends, and the next one starts.
End(bs, a) == a + BlockHeader + bs[a].size

Address(a) == a + BlockHeader

\* kmalloc: the first free block that is large enough, split when the rest can hold a
\* block of its own.
Fitting(n) == {a \in DOMAIN block : block[a].free /\ block[a].size >= Aligned(n)}

Taken(a, n) ==
  LET rest == block[a].size - Aligned(n) - BlockHeader
      next == Address(a) + Aligned(n) IN
  IF rest < 2 THEN [block EXCEPT ![a].free = FALSE]
  ELSE [x \in DOMAIN block \union {next} |->
          IF x = a THEN [size |-> Aligned(n), free |-> FALSE]
          ELSE IF x = next THEN [size |-> rest, free |-> TRUE]
          ELSE block[x]]

\* MUTANT of Joined: what follows a block that was joined is not joined with it.
JoinedOnce(bs, a) ==
  bs[a].free /\ \E p \in DOMAIN bs : /\ bs[p].free /\ End(bs, p) = a
                                      /\ \A o \in DOMAIN bs : bs[o].free => End(bs, o) # p

\* A block that becomes part of the one before it: both are free.
Joined(bs, a) == bs[a].free /\ \E p \in DOMAIN bs : bs[p].free /\ End(bs, p) = a

\* kfree, once the block is free: the blocks that are left, each reaching to the end of the
\* last that became part of it.
Merged(bs) ==
  LET ends(x) == End(bs, x) \in DOMAIN bs => ~Joined(bs, End(bs, x))
      last(a) == Min({x \in DOMAIN bs : x >= a /\ ends(x)})
  IN [a \in {a \in DOMAIN bs : ~Joined(bs, a)} |->
        [size |-> End(bs, last(a)) - a - BlockHeader, free |-> bs[a].free]]

Kmalloc(n, holder) ==
  LET a == Min(Fitting(n)) IN
  /\ Fitting(n) # {}
  /\ block' = Taken(a, n)
  /\ client' = [x \in DOMAIN client \union {Address(a)} |->
                  IF x = Address(a) THEN holder ELSE client[x]]

Kfree(a) ==
  /\ block' = Merged([block EXCEPT ![a - BlockHeader].free = TRUE])
  /\ client' = [x \in DOMAIN client \ {a} |-> client[x]]

\* ExAllocatePoolWithTag_k and the other names of it.
ExAllocatePool(type, n) ==
  /\ Kmalloc(n + PoolHeader, [kind |-> type, asked |-> n])
  /\ poolBytes' = [poolBytes EXCEPT !.all = @ + n, ![type] = @ + n]

Less(x, n) == IF x >= n THEN x - n ELSE 0

\* ExFreePoolWithTag_k: memory of the pool; another address has no magic and is ignored.
ExFreePool(a) ==
  LET c == client[a] IN
  /\ c.kind \in PoolType
  /\ Kfree(a)
  /\ poolBytes' = [poolBytes EXCEPT !.all = Less(@, c.asked), ![c.kind] = Less(@, c.asked)]

\* IoAllocateMdl_k; IoFreeMdl_k is ExFreePool.
IoAllocateMdl(pages) == ExAllocatePool("nonpaged", MdlHeader + pages)

\* MmAllocateContiguousMemory_k, MmAllocateNonCachedMemory_k, section_create_anon.
MmAllocate(n) ==
  /\ Kmalloc(n, [kind |-> "raw", asked |-> n])
  /\ UNCHANGED poolBytes

MmFree(a) ==
  /\ client[a].kind = "raw"
  /\ Kfree(a)
  /\ UNCHANGED poolBytes

KhNext ==
  \/ \E n \in PoolRequest, type \in PoolType : ExAllocatePool(type, n)
  \/ \E n \in MdlPages : IoAllocateMdl(n)
  \/ \E n \in RawRequest : MmAllocate(n)
  \/ \E a \in DOMAIN client : ExFreePool(a) \/ MmFree(a)

KhSpec == KhInit /\ [][KhNext]_khVars
-----------------------------------------------------------------------------
\* The blocks tile the heap, whatever was split and merged: each ends where the next one
\* starts, the last at the end of the heap (mm/heap.c:25-55).
HeapTiled ==
  /\ 0 \in DOMAIN block
  /\ \A a \in DOMAIN block : End(block, a) \in DOMAIN block \union {HeapSize}
  /\ \A a, b \in DOMAIN block : a < b => End(block, a) <= b

\* No two free blocks are neighbours: free memory is never in more pieces than the
\* blocks in use make of it.
FreeBlocksApart ==
  \A a, b \in DOMAIN block : block[a].free /\ block[b].free => End(block, a) # b

\* The blocks in use are those that somebody holds, and each is as large as was asked.
BlocksHeld ==
  /\ {Address(a) : a \in {a \in DOMAIN block : ~block[a].free}} = DOMAIN client
  /\ \A a \in DOMAIN block :
       ~block[a].free =>
         LET c == client[Address(a)]
         IN block[a].size >= c.asked + (IF c.kind = "raw" THEN 0 ELSE PoolHeader)

\* The counters of the pool are the bytes asked for and not freed, by type
\* (ex/pool.c:33-37, 55-60, 92-98).
Asked(kinds) ==
  Cardinality(UNION {{a} \X (1..client[a].asked) : a \in {x \in DOMAIN client : client[x].kind \in kinds}})

PoolBytesExact ==
  poolBytes = [all |-> Asked(PoolType), paged |-> Asked({"paged"}), nonpaged |-> Asked({"nonpaged"})]

HeapSound ==
  /\ HeapTiled
  /\ FreeBlocksApart
  /\ BlocksHeld
  /\ PoolBytesExact
=============================================================================
