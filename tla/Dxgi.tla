------------------------------- MODULE Dxgi -------------------------------
(***************************************************************************)
(* What the graphics libraries share: dxgi.dll (dll/win32/dxgi/dxgi.c) and   *)
(* dxcore.dll (dll/win32/dxcore/dxcore.c), which list the adapters, their     *)
(* outputs and the swap chains.  Each is loaded by itself: DxgiNext has the     *)
(* classes factory, adapter, output and swapchain, DxCoreNext has factory,       *)
(* list and adapter.                                                             *)
(***************************************************************************)
EXTENDS ComObjects

\* dxgi.dll: an output keeps the adapter it was made from, 0 when a swap chain made it, and
\* no reference to it.
\* Out_GetParent: the adapter, which may have been given back.
GetParent(o) == o \in Held("output") /\ pool["output"][o].is # 0 /\ HandOut("adapter", pool["output"][o].is)
Output == Unknown("output") \/ \E o \in Held("output") : GetParent(o)

\* Adp_EnumOutputs: a new output at each call.
EnumOutputs(a) == a \in Held("adapter") /\ Create("output", a)
Adapter == Unknown("adapter") \/ \E a \in Held("adapter") : EnumOutputs(a)

-----------------------------------------------------------------------------
\* Sc_Present: the buffers take turns; a test presents nothing.
Present(s) ==
  LET chain == pool["swapchain"][s].is IN
  Change("swapchain", s, [chain EXCEPT !.current = (@ + 1) % chain.count])

\* Sc_ResizeBuffers: zero keeps the number of buffers.
ResizeBuffers(s, n) ==
  Change("swapchain", s, [pool["swapchain"][s].is EXCEPT !.current = 0,
                          !.count = IF n = 0 THEN @ ELSE n])

\* Sc_GetBuffer: the swap chain itself, counted.
GetBuffer(s) == s \in Held("swapchain") /\ HandOut("swapchain", s)

\* Sc_GetContainingOutput: a new output, of no adapter.
GetContainingOutput(s) == s \in Held("swapchain") /\ Create("output", 0)

SwapChain ==
  \/ Unknown("swapchain")
  \/ \E s \in Held("swapchain") :
       \/ Present(s) \/ GetBuffer(s) \/ GetContainingOutput(s)
       \/ \E n \in 0..1 : ResizeBuffers(s, n)

-----------------------------------------------------------------------------
\* Fac_EnumAdapters, Fac_EnumAdapters1 and Fac_CreateSoftwareAdapter: a new adapter at each call.
EnumAdapters(f) == f \in Held("factory") /\ Create("adapter", 0)

\* Fac_CreateSwapChain: a description of no buffers is one of one buffer.
CreateSwapChain(f) ==
  /\ f \in Held("factory")
  /\ \E n \in 0..2 : Create("swapchain", [count |-> IF n = 0 THEN 1 ELSE n, current |-> 0])

\* CreateDXGIFactory, CreateDXGIFactory1 and CreateDXGIFactory2.
CreateDXGIFactory == Create("factory", 0)

DxgiNext ==
  /\ ~strayed
  /\ \/ Output \/ Adapter \/ SwapChain \/ Unknown("factory") \/ CreateDXGIFactory
     \/ \E f \in Held("factory") : EnumAdapters(f) \/ CreateSwapChain(f)

\* The references are exact until an output hands out an adapter that was given back
\* (dxgi.c:321), and the buffer that is next to be shown is one of the chain's.
DxgiSound ==
  LET none(c, i) == 0 IN
  /\ CountsSound(none)
  /\ \A s \in InUse("swapchain") :
       pool["swapchain"][s].is.current < pool["swapchain"][s].is.count

-----------------------------------------------------------------------------
\* dxcore.dll.  Ad_GetFactory and Ls_GetFactory: factory 0, counted, also when it is not in use.
GetFactory(c) == Held(c) # {} /\ HandOut("factory", 1)

CoreAdapter == Unknown("adapter") \/ GetFactory("adapter")

\* alloc_list and Fc_CreateAdapterList: a list of one new adapter, whose first reference is
\* the list's; an empty list when there is no adapter left.
CreateAdapterList(f) ==
  LET l == FirstFree(pool, "list")
      a == FirstFree(pool, "adapter")
  IN /\ f \in Held("factory") /\ MayAsk /\ l # 0
     /\ pool' = WithNew(WithNew(pool, "adapter", 0), "list", a)
     /\ clientRefs' = Given(clientRefs, "list", l)
     /\ UNCHANGED strayed

\* Ls_GetAdapter
GetAdapter(l) ==
  l \in Held("list") /\ pool["list"][l].is # 0 /\ HandOut("adapter", pool["list"][l].is)

\* Ls_Release: the last one leaves the list's reference to its adapter as it is.
ReleaseList(l) ==
  LET a == pool["list"][l].is IN
  /\ clientRefs["list"][l] > 0
  /\ pool' = IF pool["list"][l].refs = 1 /\ a # 0
               THEN [Uncounted(pool, "list", l) EXCEPT !["adapter"][a].lost = @ + 1]
               ELSE Uncounted(pool, "list", l)
  /\ clientRefs' = [clientRefs EXCEPT !["list"][l] = @ - 1]
  /\ UNCHANGED strayed

AdapterList ==
  GetFactory("list") \/ \E l \in Held("list") : AddRef("list", l) \/ ReleaseList(l) \/ GetAdapter(l)

\* Fc_GetAdapterByLuid: every adapter has the same identifier, and the first that is in use
\* is handed out.
GetAdapterByLuid(f) ==
  f \in Held("factory") /\ InUse("adapter") # {} /\ HandOut("adapter", Min(InUse("adapter")))

DXCoreCreateAdapterFactory == Create("factory", 0)

DxCoreNext ==
  /\ ~strayed
  /\ \/ CoreAdapter \/ AdapterList \/ Unknown("factory") \/ DXCoreCreateAdapterFactory
     \/ \E f \in Held("factory") : CreateAdapterList(f) \/ GetAdapterByLuid(f)

\* The references are exact until factory 0 is handed out while it is not in use
\* (dxcore.c:382, 456); a list that is gone has lost one (dxcore.c:437).
DxCoreSound ==
  LET ofList(c, i) == IF c # "adapter" THEN 0
                      ELSE Cardinality({l \in InUse("list") : pool["list"][l].is = i})
  IN CountsSound(ofList)
=============================================================================
