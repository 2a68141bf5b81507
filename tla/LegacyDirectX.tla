--------------------------- MODULE LegacyDirectX ---------------------------
(***************************************************************************)
(* The first generation of the multimedia libraries, each loaded by itself:  *)
(* ddraw.dll, d3d9.dll and dsound.dll (dll/win32/ddraw/ddraw.c, d3d9/d3d9.c,  *)
(* dsound/dsound.c).  No pixel and no sound is followed, nor the numbers that  *)
(* are only kept to be read back.                                               *)
(***************************************************************************)
EXTENDS ComObjects

\* ensure_d3d11_backend: one attempt to make a Direct3D 11 device, which is kept for good;
\* `is' says that it was made.
BackendTried(p) ==
  IF p["backend"][1].is = 1 THEN {p}
  ELSE {[p EXCEPT !["backend"][1] =
           [used |-> made, refs |-> IF made THEN 1 ELSE 0, lost |-> IF made THEN 1 ELSE 0, is |-> 1]]
         : made \in BOOLEAN}

\* DD_CreateSurface: the attempt comes first, also when there is no surface left.
CreateSurface(d) ==
  LET s == FirstFree(pool, "surface") IN
  /\ d \in Held("draw") /\ MayAsk
  /\ \E p \in BackendTried(pool) : pool' = WithNew(p, "surface", 0)
  /\ clientRefs' = Given(clientRefs, "surface", s)
  /\ UNCHANGED strayed

\* Surf_*: nothing is drawn.
Surface == Unknown("surface")

\* DD_SetDisplayMode, DD_GetDisplayMode: the mode is kept, and nothing is set; none is
\* the mode of the start.
SetDisplayMode(d, mode) == Change("draw", d, mode)
Draw == Unknown("draw") \/ \E d \in Held("draw"), mode \in {"none", "set"} : SetDisplayMode(d, mode)

\* DirectDrawCreate and DirectDrawCreateEx
DirectDrawCreate == Create("draw", "none")

DirectDrawNext ==
  /\ ~strayed
  /\ Surface \/ Draw \/ DirectDrawCreate \/ \E d \in Held("draw") : CreateSurface(d)

-----------------------------------------------------------------------------
\* d3d9.dll.  Dev_GetDirect3D: the first object in use, not the one that made the device.
GetDirect3D(d) ==
  d \in Held("device7") /\ InUse("d3d") # {} /\ HandOut("d3d", Min(InUse("d3d")))

\* Dev_SetTransform, Dev_SetViewport, Dev_SetRenderState: kept; the rest does nothing.
SetState(d, state) == Change("device7", d, state)

Device7 ==
  \/ Unknown("device7")
  \/ \E d \in Held("device7") : GetDirect3D(d) \/ \E state \in {"default", "set"} : SetState(d, state)

\* D3D_CreateDevice
CreateDevice(x) == x \in Held("d3d") /\ Create("device7", "default")

\* Direct3DCreate7, Direct3DCreate8 and Direct3DCreate9 make the same object.
Direct3DCreate == Create("d3d", 0)

Direct3DNext ==
  /\ ~strayed
  /\ \/ Device7 \/ Unknown("d3d") \/ Direct3DCreate
     \/ \E x \in Held("d3d") : CreateDevice(x)

-----------------------------------------------------------------------------
\* dsound.dll.  Buf_Play, Buf_Stop: the status that Buf_GetStatus reports.
Play(b, looping) == Change("buffer", b, IF looping THEN "looping" ELSE "playing")
Stop(b) == Change("buffer", b, "stopped")
SoundBuffer ==
  Unknown("buffer") \/ \E b \in Held("buffer") : Stop(b) \/ \E looping \in BOOLEAN : Play(b, looping)

\* DS_CreateSoundBuffer
CreateSoundBuffer(d) == d \in Held("sound") /\ Create("buffer", "stopped")

\* DS_DuplicateSoundBuffer: what is set is copied, and the copy does not play.
DuplicateSoundBuffer(d, b) ==
  d \in Held("sound") /\ b \in Held("buffer") /\ Create("buffer", "stopped")

\* DirectSoundCreate, DirectSoundCreate8, DirectSoundCaptureCreate8, DllGetClassObject.
DirectSoundCreate == Create("sound", 0)

DirectSoundNext ==
  /\ ~strayed
  /\ \/ SoundBuffer \/ Unknown("sound") \/ DirectSoundCreate
     \/ \E d \in Held("sound") :
          CreateSoundBuffer(d) \/ \E b \in Held("buffer") : DuplicateSoundBuffer(d, b)

-----------------------------------------------------------------------------
\* The references are exact: nothing here hands out an object that is not in use.
LegacySound == LET none(c, i) == 0 IN ~strayed /\ CountsSound(none)
=============================================================================
