---------------------------- MODULE Direct3D12 ----------------------------
(***************************************************************************)
(* d3d12.dll: dll/win32/d3d12/d3d12.c.  A device makes every other object,   *)
(* and no object keeps another: GetDevice answers nothing.  There is no GPU:  *)
(* a fence takes the value it is told at once, and lists are not executed.     *)
(***************************************************************************)
EXTENDS ComObjects

CONSTANT FenceValue      \* the values that fences are given

Blob12 == Unknown("blob")

\* Fen_Signal, and CQ_Signal of a fence that is in use; GetCompletedValue answers it, and
\* SetEventOnCompletion and CQ_Wait wait for nothing.
Signal(f) == \E v \in FenceValue : Change("fence", f, v)
Fence12 == Unknown("fence") \/ \E f \in Held("fence") : Signal(f)
QueueSignal(f) == Held("queue") # {} /\ Signal(f)

Resource12 == Unknown("resource")

\* PS12_GetCachedBlob and D3D12SerializeRootSignature: a new blob.
GetCachedBlob(p) == p \in Held("pipeline") /\ Create("blob", 0)
SerializeRootSignature == Create("blob", 0)

Pipeline12 == Unknown("pipeline") \/ \E p \in Held("pipeline") : GetCachedBlob(p)
RootSignature12 == Unknown("rootsig")
DescriptorHeap12 == Unknown("heap")
Allocator12 == Unknown("allocator")

-----------------------------------------------------------------------------
\* CL_Close and CL_Reset.
CloseList(l) == Change("list", l, "closed")
ResetList(l) == Change("list", l, "recording")

\* CL_ResourceBarrier: the transition is made when it is recorded, and also in a list that
\* is closed.
ResourceBarrier(r, state) == Held("list") # {} /\ Change("resource", r, state)

\* The other commands are not recorded.
List12 ==
  \/ Unknown("list")
  \/ \E l \in Held("list") : CloseList(l) \/ ResetList(l)
  \/ \E r \in Held("resource"), state \in {"common", "target"} : ResourceBarrier(r, state)

Queue12 == Unknown("queue") \/ \E f \in Held("fence") : QueueSignal(f)

-----------------------------------------------------------------------------
Device12 == Unknown("device")
CreateCommandQueue(d) == d \in Held("device") /\ Create("queue", 0)
CreateCommandAllocator(d) == d \in Held("device") /\ Create("allocator", 0)
CreatePipelineState(d) == d \in Held("device") /\ Create("pipeline", 0)

\* The list is recording at once, whatever its allocator is used for.
CreateCommandList(d) == d \in Held("device") /\ Create("list", "recording")

\* Heaps of descriptors, heaps of memory and query heaps are entries of one pool, as are
\* root signatures and command signatures.
CreateDescriptorHeap(d) == d \in Held("device") /\ Create("heap", 0)
CreateHeap(d) == d \in Held("device") /\ Create("heap", 0)
CreateQueryHeap(d) == d \in Held("device") /\ Create("heap", 0)
CreateRootSignature(d) == d \in Held("device") /\ Create("rootsig", 0)
CreateCommandSignature(d) == d \in Held("device") /\ Create("rootsig", 0)

\* Committed, placed and reserved resources.
CreateResource(d) == d \in Held("device") /\ \E state \in {"common", "target"} : Create("resource", state)
CreateFence(d) == d \in Held("device") /\ \E v \in FenceValue : Create("fence", v)

\* D3D12CreateDevice, and D3D12GetDebugInterface, whose answer is another device.
D3D12CreateDevice == Create("device", 0)
GetDebugInterface == Create("device", 0)

D3D12Next ==
  /\ ~strayed
  /\ \/ Blob12 \/ Fence12 \/ Resource12 \/ Pipeline12 \/ RootSignature12 \/ DescriptorHeap12
     \/ Allocator12 \/ List12 \/ Queue12 \/ Device12
     \/ \E d \in Held("device") :
          \/ CreateCommandQueue(d) \/ CreateCommandAllocator(d) \/ CreatePipelineState(d)
          \/ CreateCommandList(d) \/ CreateDescriptorHeap(d) \/ CreateHeap(d)
          \/ CreateQueryHeap(d) \/ CreateRootSignature(d) \/ CreateCommandSignature(d)
          \/ CreateResource(d) \/ CreateFence(d)
     \/ SerializeRootSignature \/ D3D12CreateDevice \/ GetDebugInterface
-----------------------------------------------------------------------------
\* The references are exact, also for the blobs, devices, heaps and signatures that several
\* functions take from one pool; a fence never answers a value it was not given.
D3D12Sound ==
  LET none(c, i) == 0 IN
  /\ ~strayed /\ CountsSound(none)
  /\ \A f \in InUse("fence") : pool["fence"][f].is \in FenceValue
=============================================================================
