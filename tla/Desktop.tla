------------------------------ MODULE Desktop ------------------------------
(***************************************************************************)
(* Windows, focus and the shell: subsystems/win32/win32kbase.c and           *)
(* win32kshell.c, over the queue of MessageQueue.  A window is its slot; its *)
(* handle is a number given in order, which is also its place in the         *)
(* z-order.                                                                 *)
(*                                                                         *)
(* Geometry is left out: the mouse is over any visible window, over any part *)
(* of its frame, or over the parts of the taskbar.  Of the buttons only the   *)
(* left one is kept; the others post a message each.                        *)
(***************************************************************************)
EXTENDS MessageQueue

CONSTANTS
  DesktopCap,    \* MSG_QUEUE_CAP here
  MaxWindow,     \* MAX_WINDOWS
  MaxId,         \* bound: windows created
  Program,       \* the processes that run in turn, each inside the one before
  FrameButton    \* buttons of a frame

ASSUME DtSizesOK ==
  /\ DesktopCap \in Nat \ {0} /\ MaxWindow \in Nat \ {0} /\ MaxId \in Nat
  /\ Program \in Nat \ {0} /\ FrameButton \subseteq {"close", "max", "min"}

VARIABLES
  win,           \* s_wins
  nwin,          \* s_nwin
  nextId,        \* s_next_id and s_next_z
  focus,         \* s_focus_id
  running,       \* how many programs run; the last is the current process
  shell,         \* minimised slots, dragged window, armed button, menu
  left,          \* the left button in s_cursor_buttons
  once           \* s_was_active, s_injected, s_idle_painted

dtVars == <<win, nwin, nextId, focus, running, shell, left, once>>

Slot == 1..MaxWindow
NoWindow == [id |-> 0, owner |-> 0, desktop |-> FALSE, visible |-> FALSE]
Exists(w) == win[w].id # 0
Plain(w) == Exists(w) /\ ~win[w].desktop
Visible(w) == Plain(w) /\ win[w].visible
FramePart == FrameButton \union {"title", "client"}
NoButton == [part |-> "none", slot |-> 0]

DtTypeOK ==
  /\ MqTypeOK
  /\ win \in [Slot -> [id : 0..MaxId, owner : 0..Program, desktop : BOOLEAN, visible : BOOLEAN]]
  /\ nwin \in Int /\ nextId \in 1..MaxId + 1 /\ focus \in 0..MaxId /\ running \in 1..Program
  /\ shell \in [minimized : SUBSET Slot, drag : 0..MaxId,
                armed : [part : FrameButton \union {"none"}, slot : 0..MaxWindow],
                menu : BOOLEAN]
  /\ left \in BOOLEAN
  /\ once \in [active : BOOLEAN, injected : BOOLEAN, painted : BOOLEAN]

DtInit(cap) ==
  /\ MqInit(cap)
  /\ win = [w \in Slot |-> NoWindow] /\ nwin = 0 /\ nextId = 1 /\ focus = 0 /\ running = 1
  /\ shell = [minimized |-> {}, drag |-> 0, armed |-> NoButton, menu |-> FALSE]
  /\ left = FALSE
  /\ once = [active |-> FALSE, injected |-> FALSE, painted |-> FALSE]

-----------------------------------------------------------------------------
\* win32k_compose on the GPU: every window that shows is asked to paint, unless
\* s_composing is held: then the request is dropped.
Repaints(windows) ==
  LET paints == [w \in Slot |-> IF windows[w].visible /\ ~windows[w].desktop
                                THEN <<Paint(windows[w].id)>> ELSE <<>>]
  IN IF At("refresh") THEN <<>> ELSE FlattenSeq(paints)

Composed == once' = IF At("refresh") THEN once ELSE [once EXCEPT !.active = TRUE]

\* Handlers compose only when the desktop has been shown.
RepaintsIfActive == IF once.active THEN Repaints(win) ELSE <<>>

\* NtUserCreateWindowEx_k: the first free slot; whatever the shell knew of the slot stays.
NtUserCreateWindowEx(desktop) ==
  LET free == {w \in Slot : ~Exists(w)} IN
  /\ free # {} /\ nextId <= MaxId
  /\ Call(<<Other>>)
  /\ win' = [win EXCEPT ![Min(free)] = [id |-> nextId, owner |-> running,
                                        desktop |-> desktop, visible |-> FALSE]]
  /\ nwin' = nwin + 1 /\ nextId' = nextId + 1
  /\ focus' = IF desktop THEN focus ELSE nextId
  /\ UNCHANGED <<running, shell, left, once>>

\* NtUserShowWindow_k: composes, asks for a paint, and the first plain window shown
\* gets the demonstration keys and WM_QUIT if something has the focus.
NtUserShowWindow(w, visible) ==
  LET shown == [win EXCEPT ![w].visible = visible]
      inject == visible /\ ~once.injected /\ ~win[w].desktop IN
  /\ Exists(w)
  /\ win' = shown
  /\ Call(IF ~visible THEN <<>>
           ELSE Repaints(shown) \o <<Paint(win[w].id)>>
                \o (IF inject /\ focus # 0 THEN <<Other, Other, Other, Other, Quit>> ELSE <<>>))
  /\ once' = IF visible THEN [once EXCEPT !.active = TRUE, !.injected = @ \/ inject] ELSE once
  /\ UNCHANGED <<nwin, nextId, focus, running, shell, left>>

NtUserSetFocus(w) ==
  /\ Plain(w) /\ focus # win[w].id
  /\ focus' = win[w].id
  /\ Call(Repaints(win)) /\ Composed
  /\ UNCHANGED <<win, nwin, nextId, running, shell, left>>

\* NtUserDestroyWindow_k: the focus passes to the highest window left.
NtUserDestroyWindow(w) ==
  LET rest == [win EXCEPT ![w] = NoWindow]
      ids == {rest[v].id : v \in {v \in Slot : ~rest[v].desktop}} IN
  /\ Exists(w)
  /\ win' = rest /\ nwin' = nwin - 1
  /\ focus' = IF focus = win[w].id THEN Max(ids \union {0}) ELSE focus
  /\ Call(<<Other>> \o Repaints(rest)) /\ Composed
  /\ UNCHANGED <<nextId, running, shell, left>>

\* NtUserInvalidate_k, NtUserPostKey_k, NtUserPostMessage_k, NtUserPostQuitMessage_k.
NtUserPost(m) ==
  /\ Call(<<m>>)
  /\ UNCHANGED dtVars

\* A program launches another; when one ends its windows are gone, and so is the
\* focus if one of them had it.
ProgramStarts ==
  /\ At("app") /\ running < Program
  /\ running' = running + 1
  /\ UNCHANGED <<mqVars, win, nwin, nextId, focus, shell, left, once>>

ProgramEnds ==
  LET own == {w \in Slot : Exists(w) /\ win[w].owner = running} IN
  /\ At("app") \/ At("ended")
  /\ running > 1
  /\ running' = running - 1
  /\ win' = [w \in Slot |-> IF w \in own THEN NoWindow ELSE win[w]]
  /\ nwin' = nwin - Cardinality(own)
  /\ focus' = IF focus \in {win[w].id : w \in own} THEN 0 ELSE focus
  /\ pump' = [pump EXCEPT !.at = "app"]
  /\ UNCHANGED <<queue, posted, overtaken, nextId, shell, left, once>>

\* NtUserGetMessage_k; the first time it is idle it composes the whole desktop, and it
\* halts with the WM_PAINTs in the queue.
PumpRuns ==
  \/ /\ GetMessageIdle(nwin, IF nwin > 0 /\ ~once.painted THEN Repaints(win) ELSE <<>>)
     /\ once' = IF nwin > 0 /\ ~once.painted THEN [once EXCEPT !.active = TRUE, !.painted = TRUE]
                ELSE once
     /\ UNCHANGED <<win, nwin, nextId, focus, running, shell, left>>
  \/ (GetMessage \/ Empty(nwin) \/ GetMessageStep \/ ClockTick) /\ UNCHANGED dtVars
-----------------------------------------------------------------------------
\* win32k_on_key: a key and its character go to the window with the focus.
KeyboardInterrupt ==
  /\ nwin > 0 /\ focus # 0
  /\ Interrupt(<<Other, Other>>)
  /\ UNCHANGED dtVars

Presses(down) == down /\ ~left
Releases(down) == ~down /\ left
ShellTakes(ms, s) == Interrupt(ms) /\ shell' = s

\* The window that is dragged is still there.
Dragging == shell.drag # 0 /\ \E w \in Slot : win[w].id = shell.drag

\* win32k_shell_on_mouse, case by case.  A drag takes every event and ends with the
\* release.
DragMoves(down) ==
  /\ Dragging
  /\ ShellTakes(<<>>, IF Releases(down) THEN [shell EXCEPT !.drag = 0] ELSE shell)
  /\ UNCHANGED focus

\* The shell state after the test for a drag: a window that is gone is let go.
Free == [shell EXCEPT !.drag = 0]

StartPressed(down) ==
  /\ ~Dragging /\ Presses(down)
  /\ ShellTakes(RepaintsIfActive, [Free EXCEPT !.menu = ~@])
  /\ UNCHANGED focus

\* A button of the taskbar restores, minimises or gives the focus.
TaskbarPressed(down, w) ==
  /\ ~Dragging /\ Presses(down) /\ Visible(w)
  /\ ShellTakes(RepaintsIfActive,
       IF w \in shell.minimized THEN [Free EXCEPT !.minimized = @ \ {w}]
       ELSE IF win[w].id = focus THEN [Free EXCEPT !.minimized = @ \union {w}] ELSE Free)
  /\ focus' = win[w].id

\* A click outside the menu closes it and does nothing else.
MenuLeft(down) ==
  /\ ~Dragging /\ Presses(down) /\ shell.menu
  /\ ShellTakes(RepaintsIfActive, [Free EXCEPT !.menu = FALSE])
  /\ UNCHANGED focus

\* The frame of a window is pressed: outside an open menu, or inside it, where the
\* menu is drawn over the window.
FramePressed(down, w, part) ==
  /\ ~Dragging /\ Presses(down) /\ Visible(w) /\ w \notin shell.minimized
  /\ part # "client"
  /\ ShellTakes(RepaintsIfActive,
       IF part = "title" THEN [Free EXCEPT !.drag = win[w].id]
       ELSE [Free EXCEPT !.armed = [part |-> part, slot |-> w]])
  /\ focus' = IF part = "title" THEN win[w].id ELSE focus

Executes(w, part) == part # "client" /\ shell.armed = [part |-> part, slot |-> w]

\* The button that was armed is released: WM_CLOSE, minimise, or the size changes.
FrameReleased(down, w, part) ==
  LET s == [Free EXCEPT !.armed = NoButton] IN
  /\ ~Dragging /\ Releases(down) /\ Visible(w) /\ w \notin shell.minimized
  /\ Executes(w, part)
  /\ ShellTakes((IF part = "close" THEN <<Other>> ELSE <<>>) \o RepaintsIfActive,
       IF part = "min" THEN [s EXCEPT !.minimized = @ \union {w}] ELSE s)
  /\ focus' = IF part = "min" /\ focus = win[w].id THEN 0 ELSE focus

\* The shell lets the event pass: WM_MOUSEMOVE and, if the button changed, its message
\* to the window under the cursor, which gets the focus when it is pressed.
MousePasses(down, under) ==
  LET changed == down # left
      ms == IF under = 0 THEN <<>> ELSE IF changed THEN <<Other, Other>> ELSE <<Other>> IN
  /\ ~Dragging
  /\ under # 0 => Exists(under) /\ win[under].visible
  /\ ShellTakes(ms \o (IF changed THEN RepaintsIfActive ELSE <<>>),
                IF Releases(down) THEN [Free EXCEPT !.armed = NoButton] ELSE Free)
  /\ focus' = IF Presses(down) /\ under # 0 /\ Plain(under) THEN win[under].id ELSE focus

\* win32k_on_mouse_event: a packet of the mouse moves the cursor anywhere.
MouseInterrupt(down) ==
  /\ \/ DragMoves(down) \/ StartPressed(down) \/ MenuLeft(down)
     \/ \E w \in Slot : \/ TaskbarPressed(down, w) \/ MousePasses(down, w)
                        \/ \E part \in FramePart : \/ FramePressed(down, w, part)
                                                   \/ FrameReleased(down, w, part)
     \/ MousePasses(down, 0)
  /\ left' = down
  /\ UNCHANGED <<win, nwin, nextId, running, once>>

DtNext ==
  /\ ~overtaken
  /\ \/ \E desktop \in BOOLEAN : NtUserCreateWindowEx(desktop)
     \/ \E w \in Slot : \/ NtUserSetFocus(w) \/ NtUserDestroyWindow(w)
                        \/ \E visible \in BOOLEAN : NtUserShowWindow(w, visible)
                        \/ Exists(w) /\ NtUserPost(Paint(win[w].id))
     \/ NtUserPost(Other) \/ NtUserPost(Quit)
     \/ ProgramStarts \/ ProgramEnds
     \/ PumpRuns
     \/ KeyboardInterrupt
     \/ \E down \in BOOLEAN : MouseInterrupt(down)

DtSpec == DtInit(DesktopCap) /\ [][DtNext]_<<mqVars, dtVars>>
-----------------------------------------------------------------------------
\* The count that decides whether the loop of messages ends is the number of windows,
\* and no two have one handle (win32kbase.c:726-778, 843-861, 1179-1194).
WindowsCounted ==
  /\ nwin = Cardinality({w \in Slot : Exists(w)})
  /\ \A v, w \in Slot : Exists(v) /\ win[v].id = win[w].id => v = w

\* The keyboard goes to a window that is there and is not the wallpaper, whatever was
\* clicked, destroyed or reaped (win32kbase.c:820-829, 843-861, 1021-1030).
FocusIsAWindow ==
  focus # 0 => \E w \in Slot : Plain(w) /\ win[w].id = focus

\* A button of a frame is armed or a window dragged only while the button that did it
\* is held, and never both (win32kshell.c:650-670, 741-815).
ArmedWhilePressed ==
  /\ shell.armed # NoButton \/ shell.drag # 0 => left
  /\ shell.armed = NoButton \/ shell.drag = 0

DesktopSound ==
  /\ DtTypeOK
  /\ QueueIsFifo
  /\ PaintsCoalesced
  /\ WindowsCounted
  /\ FocusIsAWindow
  /\ ArmedWhilePressed
=============================================================================
