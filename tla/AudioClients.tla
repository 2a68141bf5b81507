---------------------------- MODULE AudioClients ----------------------------
(***************************************************************************)
(* The audio libraries, each loaded by itself: mmdevapi.dll, which lists the *)
(* one endpoint, and audioses.dll, which runs streams on it                   *)
(* (dll/win32/mmdevapi/mmdevapi.c, audioses/audioses.c).  Frames are counted   *)
(* in packets of 480; no sample is followed.                                    *)
(***************************************************************************)
EXTENDS ComObjects

\* mmdevapi.dll.  The property stores are empty.
Store == Unknown("store")

\* Dev_OpenPropertyStore; Dev_Activate answers a fake handle.
OpenPropertyStore(d) == d \in Held("device") /\ Create("store", 0)
Endpoint == Unknown("device") \/ \E d \in Held("device") : OpenPropertyStore(d)

\* Col_Item: a new device at each call.
Item(k) == k \in Held("collection") /\ Create("device", pool["collection"][k].is)
Endpoints == Unknown("collection") \/ \E k \in Held("collection") : Item(k)

\* Enum_EnumAudioEndpoints
EnumAudioEndpoints(e) ==
  e \in Held("enum") /\ \E flow \in {"render", "capture"} : Create("collection", flow)

\* Enum_GetDefaultAudioEndpoint; Enum_GetDevice always finds the one that renders.
GetDefaultAudioEndpoint(e) ==
  e \in Held("enum") /\ \E flow \in {"render", "capture"} : Create("device", flow)

\* CoCreateInstance and MMDevApiCreateEnumerator
CreateEnumerator == Create("enum", 0)

DeviceNext ==
  /\ ~strayed
  /\ \/ Store \/ Endpoint \/ Endpoints \/ Unknown("enum") \/ CreateEnumerator
     \/ \E e \in Held("enum") : EnumAudioEndpoints(e) \/ GetDefaultAudioEndpoint(e)

DeviceSound == LET none(c, i) == 0 IN ~strayed /\ CountsSound(none)

-----------------------------------------------------------------------------
\* audioses.dll.  A client: bufferFrames, padding, running; no frames before Initialize.
Unset == [frames |-> 0, padding |-> 0, running |-> FALSE]
Client(x) == pool["client"][x].is
Initialized(x) == x \in Held("client") /\ Client(x).frames > 0

\* The services of a client keep it, and no reference to it.
Service == {"render", "capture", "streamvol", "simplevol", "clock"} \intersect Class

\* Cl_Initialize: once.
Initialize(x, n) ==
  x \in Held("client") /\ Client(x).frames = 0 /\ Change("client", x, [Unset EXCEPT !.frames = n])

\* Cl_GetCurrentPadding: a packet is taken as played at each call, running or not.
GetCurrentPadding(x) ==
  Initialized(x) /\ Change("client", x, [Client(x) EXCEPT !.padding = IF @ > 0 THEN @ - 1 ELSE 0])

\* Cl_Start, Cl_Stop
StartStop(x, running) == Initialized(x) /\ Change("client", x, [Client(x) EXCEPT !.running = running])

\* Cl_Reset: refused while running.
Reset(x) ==
  Initialized(x) /\ ~Client(x).running /\ Change("client", x, [Client(x) EXCEPT !.padding = 0])

\* Cl_GetService: the interface tells the service by its first byte.
GetService(x, c) == Initialized(x) /\ Create(c, x)

AudioClient ==
  \/ Unknown("client")
  \/ \E x \in Held("client") :
       \/ \E n \in 1..2 : Initialize(x, n)
       \/ GetCurrentPadding(x) \/ Reset(x)
       \/ \E running \in BOOLEAN : StartStop(x, running)
       \/ \E c \in Service : GetService(x, c)

\* RC_ReleaseBuffer: the padding of the client, at most its buffer.  The client may have been
\* given back since, and its entry given to another, which then has the padding.
ReleaseBuffer(r, n) ==
  LET x == pool["render"][r].is
      full == pool["client"][x].is.frames
  IN /\ r \in Held("render") /\ pool["client"][x].used
     /\ pool' = [pool EXCEPT !["client"][x].is.padding = Min({@ + n, full})]
     /\ UNCHANGED <<clientRefs, strayed>>

\* The services: capture is always silent, and volumes and positions are only kept.
Render == Unknown("render") \/ \E r \in Held("render"), n \in 1..2 : ReleaseBuffer(r, n)
Capture == Unknown("capture")
StreamVolume == Unknown("streamvol")
SimpleVolume == Unknown("simplevol")
AudioClock == Unknown("clock")

\* AudiosesCreateAudioClient and DllGetClassObject
CreateAudioClient == Create("client", Unset)

SessionNext ==
  /\ ~strayed
  /\ AudioClient \/ Render \/ Capture \/ StreamVolume \/ SimpleVolume \/ AudioClock \/ CreateAudioClient

\* The references are exact, and a client never has more queued than its buffer holds, nor
\* runs without one, although a service that outlives its client (audioses.c:463) plays into
\* whichever has the entry.
SessionSound ==
  LET none(c, i) == 0 IN
  /\ ~strayed /\ CountsSound(none)
  /\ \A x \in InUse("client") :
       /\ Client(x).padding <= Client(x).frames
       /\ Client(x).running => Client(x).frames > 0
=============================================================================
