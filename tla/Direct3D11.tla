---------------------------- MODULE Direct3D11 ----------------------------
(***************************************************************************)
(* d3d11.dll: dll/win32/d3d11/d3d11.c.  Devices with an immediate context      *)
(* each, deferred contexts, resources of every kind in one pool, and swap        *)
(* chains.  What a context has bound (shaders, layout, target) is read by         *)
(* nobody and left out.                                                            *)
(***************************************************************************)
EXTENDS ComObjects

\* Res_*: the other methods answer constants or what the description says.
Resource11 == Unknown("resource")

\* Ctx_*: the setters keep what nobody reads, drawing draws nothing, and
\* FinishCommandList makes no list.
Context11 == Unknown("context")

\* alloc_context
ContextCreated(p, kind) == WithNew(p, "context", kind)

-----------------------------------------------------------------------------
\* Dev_Create* up to the input layout: every kind of resource, view or layout is an entry
\* of the one pool.
CreateView(d) == d \in Held("device") /\ Create("resource", 0)

\* Dev_Create* of shaders.
CreateShader(d) == d \in Held("device") /\ Create("resource", 0)

\* Dev_Create* of states, queries, predicates and counters.
CreateState(d) == d \in Held("device") /\ Create("resource", 0)

CreateDeferredContext(d) == d \in Held("device") /\ Create("context", "deferred")

\* Null when the device was created while every context was in use.
GetImmediateContext(d) ==
  /\ d \in Held("device") /\ pool["device"][d].is # 0
  /\ HandOut("context", pool["device"][d].is)

\* IUnknown of the device: its last Release leaves its immediate context as it is.
Device11 == Unknown("device")

-----------------------------------------------------------------------------
\* alloc_device: the device, with an immediate context if there is one.  Its own reference
\* to the context is never given back.
DeviceCreated ==
  LET x == FirstFree(pool, "context")
      p == WithNew(ContextCreated(pool, "immediate"), "device", x)
  IN IF x = 0 THEN p ELSE [p EXCEPT !["context"][x].lost = 1]

\* D3D11CreateDevice: the caller may take the device, the context, or both; a device it
\* does not take is lost.
CreateDevice11(takesDevice, takesContext) ==
  LET d == FirstFree(pool, "device")
      x == FirstFree(pool, "context")
      p == IF takesContext THEN Counted(DeviceCreated, "context", x) ELSE DeviceCreated
      h == IF takesContext THEN Given(clientRefs, "context", x) ELSE clientRefs
  IN /\ MayAsk /\ d # 0 /\ (takesDevice \/ takesContext)
     /\ pool' = IF takesDevice THEN p ELSE [p EXCEPT !["device"][d].lost = 1]
     /\ clientRefs' = IF takesDevice THEN Given(h, "device", d) ELSE h
     /\ UNCHANGED strayed

\* alloc_d3d11_swapchain: two buffers, and the device without a reference to it.
SwapChainCreated(p, d) == WithNew(p, "swapchain", [device |-> d, count |-> 2, current |-> 0])

\* D3D11CreateDeviceAndSwapChain: when there is no swap chain left the call fails, and the
\* device and the context that were made for it are lost.
CreateDeviceAndSwapChain ==
  LET d == FirstFree(pool, "device")
      x == FirstFree(pool, "context")
      s == FirstFree(pool, "swapchain")
      p == Counted(DeviceCreated, "context", x)
  IN /\ MayAsk /\ d # 0 /\ UNCHANGED strayed
     /\ IF s # 0
          THEN /\ pool' = SwapChainCreated(p, d)
               /\ clientRefs' = Given(Given(Given(clientRefs, "context", x), "device", d), "swapchain", s)
          ELSE /\ pool' = [c \in Class |-> [i \in DOMAIN p[c] |->
                             IF <<c, i>> \in {<<"device", d>>, <<"context", x>>}
                             THEN [p[c][i] EXCEPT !.lost = @ + 1] ELSE p[c][i]]]
               /\ UNCHANGED clientRefs

\* D3D11Sc_Present
Present11(s) ==
  LET chain == pool["swapchain"][s].is IN
  Change("swapchain", s, [chain EXCEPT !.current = (@ + 1) % chain.count])

\* MUTANT of Present11: the number of buffers is reached.
Present11Past(s) ==
  LET chain == pool["swapchain"][s].is IN
  Change("swapchain", s, [chain EXCEPT !.current = (@ + 1) % (chain.count + 1)])

\* D3D11Sc_ResizeBuffers: zero keeps the number of buffers.
ResizeBuffers11(s, n) ==
  Change("swapchain", s, [pool["swapchain"][s].is EXCEPT !.current = 0,
                          !.count = IF n = 0 THEN @ ELSE n])

\* D3D11Sc_GetBuffer: a new resource at every call.
GetBuffer11(s) == s \in Held("swapchain") /\ Create("resource", 0)

\* D3D11Sc_GetDevice: the device may have been given back since.
GetDevice11(s) == s \in Held("swapchain") /\ HandOut("device", pool["swapchain"][s].is.device)

SwapChain11 ==
  \/ Unknown("swapchain")
  \/ \E s \in Held("swapchain") :
       \/ Present11(s) \/ GetBuffer11(s) \/ GetDevice11(s)
       \/ \E n \in 0..1 : ResizeBuffers11(s, n)

D3D11Next ==
  /\ ~strayed
  /\ \/ Resource11 \/ Context11 \/ Device11 \/ SwapChain11
     \/ \E d \in Held("device") :
          \/ CreateView(d) \/ CreateShader(d) \/ CreateState(d)
          \/ CreateDeferredContext(d) \/ GetImmediateContext(d)
     \/ \E takesDevice, takesContext \in BOOLEAN : CreateDevice11(takesDevice, takesContext)
     \/ CreateDeviceAndSwapChain
-----------------------------------------------------------------------------
\* The references are exact; a device without a context was created when there was none; a
\* swap chain shows one of its buffers; a context given with a device stays for ever
\* (d3d11.c:630: Dev_Release does not give it back).
D3D11Sound ==
  LET none(c, i) == 0 IN
  /\ CountsSound(none)
  /\ \A d \in InUse("device") : LET x == pool["device"][d].is IN
       x # 0 => pool["context"][x].used /\ pool["context"][x].is = "immediate"
  /\ \A s \in InUse("swapchain") : LET chain == pool["swapchain"][s].is IN
       chain.current \in 0..chain.count - 1
=============================================================================
