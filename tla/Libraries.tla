----------------------------- MODULE Libraries -----------------------------
(***************************************************************************)
(* The COM libraries, each with small pools.  A process loads one of them:   *)
(* `loaded' is its name.                                                     *)
(***************************************************************************)
EXTENDS Integers, Sequences, FiniteSets, FiniteSetsExt

VARIABLES pool, clientRefs, strayed       \* as in ComObjects

libraryVars == <<pool, clientRefs, strayed>>

D3D11 == INSTANCE Direct3D11 WITH MaxRefs <- 4,
  Slots <- [device |-> 1, context |-> 2, resource |-> 1, swapchain |-> 1]
D3D12 == INSTANCE Direct3D12 WITH MaxRefs <- 4, FenceValue <- 0..1,
  Slots <- [c \in {"blob", "fence", "resource", "pipeline", "rootsig", "heap", "allocator",
                   "list", "queue", "device"} |-> IF c \in {"device", "blob"} THEN 2 ELSE 1]
D2D1 == INSTANCE Direct2D WITH MaxRefs <- 4,
  Slots <- [factory |-> 2, brush |-> 1, bitmap |-> 1, geometry |-> 1, target |-> 2]

DWrite == INSTANCE Direct2D WITH MaxRefs <- 4,
  Slots <- [c \in {"font", "family", "collection", "format", "layout", "factory"} |->
              IF c \in {"family", "collection"} THEN 2 ELSE 1]
DXGI == INSTANCE Dxgi WITH MaxRefs <- 4,
  Slots <- [factory |-> 1, adapter |-> 2, output |-> 2, swapchain |-> 1]
DXCore == INSTANCE Dxgi WITH MaxRefs <- 5, Slots <- [factory |-> 2, list |-> 2, adapter |-> 2]
DDraw == INSTANCE LegacyDirectX WITH MaxRefs <- 5, Slots <- [draw |-> 2, surface |-> 2, backend |-> 1]
D3D9 == INSTANCE LegacyDirectX WITH MaxRefs <- 5, Slots <- [d3d |-> 2, device7 |-> 2]
DSound == INSTANCE LegacyDirectX WITH MaxRefs <- 5, Slots <- [sound |-> 2, buffer |-> 2]
MMDevice == INSTANCE AudioClients WITH MaxRefs <- 4,
  Slots <- [enum |-> 1, collection |-> 1, device |-> 2, store |-> 1]
Audio == INSTANCE AudioClients WITH MaxRefs <- 3,
  Slots <- [client |-> 2, render |-> 1, capture |-> 1, streamvol |-> 1, simplevol |-> 1, clock |-> 1]

Sockets == INSTANCE SlotTables WITH MaxRefs <- 4, Slots <- [wsa |-> 1, socket |-> 2, info |-> 1]
Security == INSTANCE SlotTables WITH MaxRefs <- 4, Slots <- [cred |-> 2, ctx |-> 2]
Vault == INSTANCE SlotTables WITH MaxRefs <- 3, Slots <- [vault |-> 2, read |-> 1]
Wave == INSTANCE SlotTables WITH MaxRefs <- 3, Slots <- [waveout |-> 3]
Streams == INSTANCE ComBase WITH MaxRefs <- 2, ArenaSize <- 4, StreamEnd <- 2,
  Slots <- [arena |-> 1, stream |-> 2, object |-> 1]
Strings == INSTANCE ComBase WITH MaxRefs <- 4, ArenaSize <- 7, StreamEnd <- 0,
  Slots <- [arena |-> 1, string |-> 4]
User == INSTANCE SlotTables WITH MaxRefs <- 3,
  Slots <- [class |-> 2, hwnd |-> 2, window |-> 1, long |-> 1, prop |-> 1]

LibrariesInit(loaded) ==
  CASE loaded = "d3d11" -> D3D11!ComInit
    [] loaded = "d3d12" -> D3D12!ComInit
    [] loaded = "d2d1" -> D2D1!ComInit
    [] loaded = "dwrite" -> DWrite!ComInit
    [] loaded = "dxgi" -> DXGI!ComInit
    [] loaded = "dxcore" -> DXCore!ComInit
    [] loaded = "ddraw" -> DDraw!ComInit
    [] loaded = "d3d9" -> D3D9!ComInit
    [] loaded = "dsound" -> DSound!ComInit
    [] loaded = "mmdevapi" -> MMDevice!ComInit
    [] loaded = "audioses" -> Audio!ComInit
    [] loaded = "ws2_32" -> Sockets!ComInit
    [] loaded = "secur32" -> Security!ComInit
    [] loaded = "credui" -> Vault!ComInit
    [] loaded = "winmm" -> Wave!ComInit
    [] loaded = "user32" -> User!ComInit
    [] loaded = "streams" -> Streams!ComInit
    [] loaded = "strings" -> Strings!ComInit
    [] OTHER -> pool = <<>> /\ clientRefs = <<>> /\ strayed = FALSE

LibrariesNext(loaded) ==
  \/ loaded = "d3d11" /\ D3D11!D3D11Next
  \/ loaded = "d3d12" /\ D3D12!D3D12Next
  \/ loaded = "d2d1" /\ D2D1!D2D1Next
  \/ loaded = "dwrite" /\ DWrite!DWriteNext
  \/ loaded = "dxgi" /\ DXGI!DxgiNext
  \/ loaded = "dxcore" /\ DXCore!DxCoreNext
  \/ loaded = "ddraw" /\ DDraw!DirectDrawNext
  \/ loaded = "d3d9" /\ D3D9!Direct3DNext
  \/ loaded = "dsound" /\ DSound!DirectSoundNext
  \/ loaded = "mmdevapi" /\ MMDevice!DeviceNext
  \/ loaded = "audioses" /\ Audio!SessionNext
  \/ loaded = "ws2_32" /\ Sockets!SocketsNext
  \/ loaded = "secur32" /\ Security!SecurityNext
  \/ loaded = "credui" /\ Vault!VaultNext
  \/ loaded = "winmm" /\ Wave!WaveNext
  \/ loaded = "user32" /\ User!UserNext
  \/ loaded = "streams" /\ Streams!StreamsNext
  \/ loaded = "strings" /\ Strings!StringsNext

LibrariesTypeOK(loaded) ==
  CASE loaded = "d3d11" -> D3D11!ComTypeOK
    [] loaded = "d3d12" -> D3D12!ComTypeOK
    [] loaded = "d2d1" -> D2D1!ComTypeOK
    [] loaded = "dwrite" -> DWrite!ComTypeOK
    [] loaded = "dxgi" -> DXGI!ComTypeOK
    [] loaded = "dxcore" -> DXCore!ComTypeOK
    [] loaded = "ddraw" -> DDraw!ComTypeOK
    [] loaded = "d3d9" -> D3D9!ComTypeOK
    [] loaded = "dsound" -> DSound!ComTypeOK
    [] loaded = "mmdevapi" -> MMDevice!ComTypeOK
    [] loaded = "audioses" -> Audio!ComTypeOK
    [] loaded = "ws2_32" -> Sockets!ComTypeOK
    [] loaded = "secur32" -> Security!ComTypeOK
    [] loaded = "credui" -> Vault!ComTypeOK
    [] loaded = "winmm" -> Wave!ComTypeOK
    [] loaded = "user32" -> User!ComTypeOK
    [] loaded = "streams" -> Streams!ComTypeOK
    [] loaded = "strings" -> Strings!ComTypeOK
    [] OTHER -> pool = <<>>

LibrariesSound(loaded) ==
  CASE loaded = "d3d11" -> D3D11!D3D11Sound
    [] loaded = "d3d12" -> D3D12!D3D12Sound
    [] loaded = "d2d1" -> D2D1!D2D1Sound
    [] loaded = "dwrite" -> DWrite!DWriteSound
    [] loaded = "dxgi" -> DXGI!DxgiSound
    [] loaded = "dxcore" -> DXCore!DxCoreSound
    [] loaded = "ddraw" -> DDraw!LegacySound
    [] loaded = "d3d9" -> D3D9!LegacySound
    [] loaded = "dsound" -> DSound!LegacySound
    [] loaded = "mmdevapi" -> MMDevice!DeviceSound
    [] loaded = "audioses" -> Audio!SessionSound
    [] loaded = "ws2_32" -> Sockets!SocketsSound
    [] loaded = "secur32" -> Security!SecuritySound
    [] loaded = "credui" -> Vault!VaultSound
    [] loaded = "winmm" -> Wave!WaveSound
    [] loaded = "user32" -> User!UserSound
    [] loaded = "streams" -> Streams!StreamsSound
    [] loaded = "strings" -> Strings!StringsSound
    [] OTHER -> TRUE
=============================================================================
