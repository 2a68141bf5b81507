---------------------------- MODULE GpuDisplay ----------------------------
(***************************************************************************)
(* The display of the virtio device (drivers/display/VirtioGpu, gpu.c): its   *)
(* detection and the smoke test at boot, then gpu_init.  The last two are       *)
(* sequences of commands any of which the host may refuse; what was acquired is  *)
(* then given back, and the Bochs display is used instead.                     *)
(***************************************************************************)
EXTENDS Integers, Sequences

VARIABLES
  detecting,    \* what virtio_gpu_detect does next, "over" when it has returned
  status,       \* device_status
  gpuActive,    \* g_vgpu.active, which virtio_gpu_detect returned
  queuesOk,     \* g_vgpu.queues_ok
  steps,        \* commands of the sequence that runs, from the next on
  sequence,     \* "smoke", "display", or "none"
  tested,       \* the smoke test ran
  allocated,    \* buffers that are allocated
  backing,      \* on the host: what backs resource 1, "no resource" without one
  scanout,     \* on the host: resource 1 is shown
  backend      \* s_backend, "none" until gpu_init has one

detection == <<detecting, status, gpuActive, queuesOk>>
gdVars == <<detection, steps, sequence, tested, allocated, backing, scanout, backend>>

Command == {"info", "buffer", "create", "attach", "scanout", "ready", "transfer", "flush",
            "unref", "free"}

GdTypeOK ==
  /\ detecting \in {"find", "map", "features", "controlq", "cursorq", "ready", "over"}
  /\ status \subseteq {"acknowledge", "driver", "features_ok", "driver_ok", "failed", "needs_reset"}
  /\ gpuActive \in BOOLEAN /\ queuesOk \in BOOLEAN
  /\ steps \in Seq(Command) /\ sequence \in {"smoke", "display", "none"}
  /\ tested \in BOOLEAN /\ allocated \subseteq {"smoke", "display"}
  /\ backing \in {"no resource", "nothing", "smoke", "display"} /\ scanout \in BOOLEAN
  /\ backend \in {"none", "virtio", "bochs"}

GdInit ==
  /\ detecting = "find" /\ status = {} /\ gpuActive = FALSE /\ queuesOk = FALSE
  /\ steps = <<>> /\ sequence = "none" /\ tested = FALSE
  /\ allocated = {} /\ backing = "no resource" /\ scanout = FALSE
  /\ backend = "none"

-----------------------------------------------------------------------------
\* virtio_gpu_detect: any step may find that something is not there.
Detects(step, next, bits) ==
  /\ detecting = step /\ detecting' = next /\ status' = status \union bits
  /\ UNCHANGED <<steps, sequence, tested, allocated, backing, scanout, backend>>

\* No device; no common capability, a region that is of ports or cannot be mapped.
NotUsable == \E step \in {"find", "map"} : Detects(step, "over", {}) /\ UNCHANGED <<gpuActive, queuesOk>>

FindDevice == Detects("find", "map", {}) /\ UNCHANGED <<gpuActive, queuesOk>>
MapDevice == Detects("map", "features", {"acknowledge", "driver"}) /\ UNCHANGED <<gpuActive, queuesOk>>

NegotiateFeatures ==
  \/ Detects("features", "controlq", {"features_ok"}) /\ gpuActive' = TRUE /\ UNCHANGED queuesOk
  \/ Detects("features", "over", {"failed"}) /\ UNCHANGED <<gpuActive, queuesOk>>

\* virtio_queue_init: the device has no such queue, or there are too few frames, and those
\* that were taken are lost.
InitQueue(queue, next) ==
  /\ Detects(queue, next, {}) \/ Detects(queue, "over", {"failed"})
  /\ UNCHANGED <<gpuActive, queuesOk>>

\* A bug: the answer of the device to DRIVER_OK is not looked at.
SetDriverOkBlindly ==
  /\ \E answer \in {{"driver_ok"}, {"failed"}, {"driver_ok", "needs_reset"}} : Detects("ready", "over", answer)
  /\ queuesOk' = TRUE /\ UNCHANGED gpuActive

SetDriverOk ==
  /\ \/ Detects("ready", "over", {"driver_ok"}) /\ queuesOk' = TRUE
     \/ /\ Detects("ready", "over", {"failed"}) \/ Detects("ready", "over", {"driver_ok", "needs_reset"})
        /\ UNCHANGED queuesOk
  /\ UNCHANGED gpuActive

\* virtio_gpu_smoke_test, when the detection returned 1.
SmokeTest ==
  /\ detecting = "over" /\ gpuActive /\ ~tested
  /\ tested' = TRUE /\ sequence' = "smoke"
  /\ steps' = IF ~queuesOk THEN <<>>
              ELSE <<"info", "buffer", "create", "attach", "transfer", "flush", "unref", "free">>
  /\ UNCHANGED <<detection, allocated, backing, scanout, backend>>

\* gpu_init comes later in the boot.
DetectionOver == detecting = "over" /\ steps = <<>> /\ (gpuActive => tested)

\* virtio_gpu_init_display, from gpu_init
InitDisplay ==
  /\ DetectionOver /\ sequence # "display" /\ gpuActive /\ queuesOk
  /\ sequence' = "display"
  /\ steps' = <<"info", "buffer", "create", "attach", "scanout", "ready", "transfer", "flush">>
  /\ UNCHANGED <<detection, tested, allocated, backing, scanout, backend>>

\* bochsvbe_init, when the virtio display is not to be had.
FallBack ==
  /\ DetectionOver /\ backend = "none"
  /\ ~gpuActive \/ ~queuesOk \/ sequence = "display"
  /\ backend' = "bochs"
  /\ UNCHANGED <<detection, steps, sequence, tested, allocated, backing, scanout>>

\* The commands that undo a sequence whose command c is refused.
Unwinding(c) ==
  CASE c \in {"info", "buffer"} -> <<>>
    [] c = "create" \/ (c = "unref" /\ sequence = "smoke") -> <<"free">>
    [] c \in {"attach", "scanout"} -> <<"unref", "free">>
    [] c \in {"transfer", "flush"} -> IF sequence = "smoke" THEN <<"unref", "free">> ELSE Tail(steps)

\* What the host refuses whatever its memory: a second resource of one number, and any
\* other command without it.
Invalid(c) ==
  \/ c = "create" /\ backing # "no resource"
  \/ c \in {"attach", "scanout", "transfer", "flush", "unref"} /\ backing = "no resource"

CommandSucceeds ==
  LET c == Head(steps) IN
  /\ steps # <<>> /\ ~Invalid(c)
  /\ steps' = Tail(steps)
  /\ allocated' = CASE c = "buffer" -> allocated \union {sequence} [] c = "free" -> allocated \ {sequence}
               [] OTHER -> allocated
  /\ backing' = CASE c = "create" -> "nothing" [] c = "attach" -> sequence
                  [] c = "unref" -> "no resource" [] OTHER -> backing
  /\ scanout' = CASE c = "scanout" -> TRUE [] c = "unref" -> FALSE [] OTHER -> scanout
  /\ backend' = IF c = "ready" THEN "virtio" ELSE backend
  /\ UNCHANGED <<detection, sequence, tested>>

\* The host refuses any command but the release of a resource it has.
CommandRefused ==
  LET c == Head(steps) IN
  /\ steps # <<>> /\ c \notin {"free", "ready"}
  /\ c = "unref" => Invalid(c)
  /\ steps' = Unwinding(c)
  /\ UNCHANGED <<detection, sequence, tested, allocated, backing, scanout, backend>>

GdNext ==
  \/ FindDevice \/ MapDevice \/ NotUsable \/ NegotiateFeatures
  \/ InitQueue("controlq", "cursorq") \/ InitQueue("cursorq", "ready") \/ SetDriverOk
  \/ SmokeTest \/ InitDisplay \/ FallBack \/ CommandSucceeds \/ CommandRefused

GdSpec == GdInit /\ [][GdNext]_gdVars
-----------------------------------------------------------------------------
\* The host never reads from memory that was given back, and shows the frame buffer
\* while the display is in use; a display that is not in use keeps no memory and no
\* resource, whatever was refused (VirtioGpu.c:806-886, 1171-1270).
DisplayHeld ==
  /\ backing \in {"smoke", "display"} => backing \in allocated
  /\ backend = "virtio" => backing = "display" /\ scanout
  /\ steps = <<>> /\ backend # "virtio" => allocated = {} /\ backing = "no resource"

\* No command is sent to a device that did not take all of the set-up, though detection
\* returns 1 for it as soon as its features are accepted; and a device that was told of
\* a driver and is not used has been told that the driver failed, or has itself asked
\* for a reset (VirtioGpu.c:1063-1130).
DetectionSound ==
  /\ steps # <<>> => queuesOk
  /\ queuesOk => status = {"acknowledge", "driver", "features_ok", "driver_ok"}
  /\ detecting = "over" /\ "driver" \in status /\ ~queuesOk =>
       status \intersect {"failed", "needs_reset"} # {}

DisplaySound == DisplayHeld /\ DetectionSound
=============================================================================
