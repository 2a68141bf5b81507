---------------------------- MODULE SlotTables ----------------------------
(***************************************************************************)
(* Libraries that give handles to the entries of a fixed table, each loaded   *)
(* by itself: ws2_32.dll, secur32.dll, credui.dll, winmm.dll and user32.dll   *)
(* (dll/win32/ws2_32/ws2_32.c, secur32/secur32.c, credui/credui.c,             *)
(* winmm/winmm.c, user32/user32.c).  A handle is the number of its entry and nothing more: when  *)
(* the entry is given back and taken again, the old handle is good for the new. *)
(* There is no network and no sound, and nobody is authenticated: what is left   *)
(* is which entries are whose.                                                    *)
(***************************************************************************)
EXTENDS ComObjects

\* The reference to an entry that its table itself keeps: only the name gives it back.
Kept(is) == [used |-> TRUE, refs |-> 1, lost |-> 1, is |-> is]

-----------------------------------------------------------------------------
\* ws2_32.dll.  Whether WSAStartup was called, and the sockets; `info' is the one answer of
\* getaddrinfo, with the port in it.
Started == pool["wsa"][1].is = 1
NewSocket == [bound |-> FALSE, listening |-> FALSE, connected |-> FALSE]
Socket(s) == pool["socket"][s].is

WSAStartup ==
  /\ pool' = [pool EXCEPT !["wsa"][1].is = 1]
  /\ UNCHANGED <<clientRefs, strayed>>

\* WSACleanup: the calls are not counted, so that one user of the library closes the sockets
\* of all.
WSACleanup ==
  /\ pool' = [pool EXCEPT !["wsa"][1].is = 0, !["socket"] = [s \in DOMAIN @ |-> Vacancy]]
  /\ strayed' = (Held("socket") # {})
  /\ UNCHANGED clientRefs

\* socket, WSASocketA, WSASocketW
OpenSocket == Started /\ Create("socket", NewSocket)

\* closesocket
CloseSocket(s) == Release("socket", s)

Bind(s) == s \in Held("socket") /\ Change("socket", s, [Socket(s) EXCEPT !.bound = TRUE])
Listen(s) ==
  s \in Held("socket") /\ Socket(s).bound /\ Change("socket", s, [Socket(s) EXCEPT !.listening = TRUE])

\* connect: always succeeds, also on a socket that listens; accept never does.
Connect(s) == s \in Held("socket") /\ Change("socket", s, [Socket(s) EXCEPT !.connected = TRUE])

\* getaddrinfo and freeaddrinfo: every answer is in the same place, and the next call writes
\* there what others may still read.
GetAddrInfo(port) ==
  /\ MayAsk
  /\ pool' = [pool EXCEPT !["info"][1] = [used |-> TRUE, refs |-> @.refs + 1, lost |-> 0, is |-> port]]
  /\ clientRefs' = Given(clientRefs, "info", 1)
  /\ strayed' = (Held("info") # {} /\ pool["info"][1].is # port)
FreeAddrInfo == Release("info", 1)

\* What is sent is gone and nothing is received; options and the blocking mode are only kept.
SocketsNext ==
  /\ ~strayed
  /\ \/ WSAStartup \/ WSACleanup \/ OpenSocket \/ FreeAddrInfo
     \/ \E port \in 1..2 : GetAddrInfo(port)
     \/ \E s \in Held("socket") : CloseSocket(s) \/ Bind(s) \/ Listen(s) \/ Connect(s)

\* A socket that is open has one owner and was opened since the last WSAStartup, and listens
\* only when it is bound; until WSACleanup closes the sockets of others (ws2_32.c:234) or an
\* answer is written over (ws2_32.c:571).
SocketsSound ==
  LET none(c, i) == 0 IN
  /\ CountsSound(none)
  /\ strayed \/ \A s \in InUse("socket") :
       Started /\ pool["socket"][s].refs = 1 /\ (Socket(s).listening => Socket(s).bound)

-----------------------------------------------------------------------------
\* secur32.dll.  A context names the credential it was made with and counts its steps.
AcquireCredentialsHandle == \E package \in {"NTLM", "Negotiate"} : Create("cred", package)
FreeCredentialsHandle(c) == Release("cred", c)

\* InitializeSecurityContext: a new context, or one more step of an old one, with whatever
\* credential; the steps stop at two here.
InitializeSecurityContext(c, x) ==
  /\ c \in Held("cred")
  /\ IF x = 0 THEN Create("ctx", [cred |-> c, step |-> 1])
     ELSE /\ x \in Held("ctx")
          /\ Change("ctx", x, [pool["ctx"][x].is EXCEPT !.step = Min({@ + 1, 2})])

\* AcceptSecurityContext: the same, but the entry of an old context is not looked at.
AcceptSecurityContext(c, x) == InitializeSecurityContext(c, x)

DeleteSecurityContext(x) == Release("ctx", x)

\* The other calls answer that they succeeded, and change nothing.
SecurityNext ==
  /\ ~strayed
  /\ \/ AcquireCredentialsHandle
     \/ \E c \in Held("cred") :
          \/ FreeCredentialsHandle(c)
          \/ \E x \in Held("ctx") \union {0} :
               InitializeSecurityContext(c, x) \/ AcceptSecurityContext(c, x)
     \/ \E x \in Held("ctx") : DeleteSecurityContext(x)

\* Every handle has an entry of its own, and a context that is in use has taken a step.
SecuritySound ==
  LET none(c, i) == 0 IN
  /\ ~strayed /\ CountsSound(none)
  /\ \A x \in InUse("ctx") : pool["ctx"][x].refs = 1 /\ pool["ctx"][x].is.step >= 1

-----------------------------------------------------------------------------
\* credui.dll.  The entries of the vault are found by the name of their target.
Find(target) == {i \in InUse("vault") : pool["vault"][i].is.target = target}
Place(target) == IF Find(target) # {} THEN Min(Find(target)) ELSE FirstFree(pool, "vault")

\* CredWriteA.  Who reads the entry now, finds the new secret there.
CredWrite(target, blob) ==
  LET i == Place(target)
      new == [target |-> target, blob |-> blob]
  IN /\ i # 0
     /\ pool' = [pool EXCEPT !["vault"][i] = Kept(new)]
     /\ strayed' = (Held("read") # {} /\ pool["read"][1].is = i /\ pool["vault"][i].is # new)
     /\ UNCHANGED clientRefs

\* CredUIPromptForCredentialsA, when it is to persist.
Prompt(target, blob) == CredWrite(target, blob)

\* CredDeleteA: the entry keeps its text.
CredDelete(target) ==
  /\ Find(target) # {}
  /\ pool' = [pool EXCEPT !["vault"][Min(Find(target))] =
                [@ EXCEPT !.used = FALSE, !.refs = 0, !.lost = 0]]
  /\ UNCHANGED <<clientRefs, strayed>>

\* CredUIConfirmCredentialsA: what was confirmed stays, and the rest goes.
Confirm(target, right) == ~right /\ CredDelete(target)

\* CredReadA: the one answer points into the vault; CredFree does nothing.
CredRead(target) ==
  LET i == Min(Find(target)) IN
  /\ MayAsk /\ Find(target) # {}
  /\ pool' = [pool EXCEPT !["read"][1] = [used |-> TRUE, refs |-> @.refs + 1, lost |-> 0, is |-> i]]
  /\ clientRefs' = Given(clientRefs, "read", 1)
  /\ strayed' = (Held("read") # {} /\ pool["read"][1].is # i)
CredFree == Release("read", 1)

\* The wide forms keep nothing, and there is no single sign-on.
VaultNext ==
  /\ ~strayed
  /\ \/ CredFree
     \/ \E target \in {"host", "site"} :
          \/ \E blob \in {"old", "new"} : CredWrite(target, blob) \/ Prompt(target, blob)
          \/ \E right \in BOOLEAN : Confirm(target, right)
          \/ CredDelete(target) \/ CredRead(target)

\* No target has two entries, however its entries are written, removed and written again;
\* and an answer of CredReadA stays what it was until the vault is used again
\* (credui.c:331, 354, 373).
VaultSound ==
  LET none(c, i) == 0 IN
  /\ CountsSound(none)
  /\ \A i, j \in InUse("vault") : pool["vault"][i].is.target = pool["vault"][j].is.target => i = j

-----------------------------------------------------------------------------
\* winmm.dll.  waveOutOpen, waveOutClose, waveOutSetVolume; a buffer is played at once, so that
\* nothing waits for waveOutPause, waveOutReset or waveOutRestart.
WaveOutOpen == Create("waveout", "full")
WaveOutClose(w) == Release("waveout", w)
WaveOutSetVolume(w, volume) == Change("waveout", w, volume)

WaveNext ==
  /\ ~strayed
  /\ \/ WaveOutOpen
     \/ \E w \in Held("waveout") :
          WaveOutClose(w) \/ \E volume \in {"full", "low"} : WaveOutSetVolume(w, volume)

\* Every handle has an entry of its own.
WaveSound ==
  LET none(c, i) == 0 IN ~strayed /\ CountsSound(none) /\ \A w \in InUse("waveout") : pool["waveout"][w].refs = 1
-----------------------------------------------------------------------------
\* user32.dll.  Windows are the kernel's, and their handles are never used again; the library
\* keeps which procedure a window has, in one table, and what its program keeps with it, in
\* two.  Nothing is taken out of them when a window is destroyed.  The handles are the class
\* "hwnd", with what the program may expect of each: its procedure, the datum of
\* SetWindowLongPtr and the property.
Windows == {w \in InUse("hwnd") : pool["hwnd"][w].is.alive}
ClassNamed(p, name) == {i \in DOMAIN p : p[i].used /\ p[i].is.name = name}
EntriesOf(t, w) == {i \in InUse(t) : pool[t][i].is.hwnd = w}

\* RegisterClassA, RegisterClassW: a class that is there gets the new procedure.
RegisterClassA(name, proc) ==
  LET there == ClassNamed(pool["class"], name)
      i == IF there # {} THEN Min(there) ELSE FirstFree(pool, "class")
  IN /\ i # 0
     /\ pool' = [pool EXCEPT !["class"][i] = Kept([name |-> name, proc |-> proc])]
     /\ UNCHANGED <<clientRefs, strayed>>
RegisterClassW(name, proc) == RegisterClassA(name, proc)

\* find_wndproc of a name, or of an atom: the number of an entry.
FindProc(name) ==
  LET there == ClassNamed(pool["class"], name) IN
  IF there = {} THEN "none" ELSE pool["class"][Min(there)].is.proc
NameOfAtom(i) == IF pool["class"][i].used THEN pool["class"][i].is.name ELSE "none"

\* create_window_impl: the window is in the table if there is room.
CreateWindow(name) ==
  LET w == FirstFree(pool, "hwnd")
      i == FirstFree(pool, "window")
      proc == FindProc(name)
      made == [pool EXCEPT !["hwnd"][w] = Kept([alive |-> TRUE, proc |-> proc, data |-> 0, prop |-> 0])]
  IN /\ w # 0
     /\ pool' = IF i = 0 THEN made ELSE [made EXCEPT !["window"][i] = Kept([hwnd |-> w, proc |-> proc])]
     /\ UNCHANGED <<clientRefs, strayed>>
CreateWindowExA(i) == CreateWindow(NameOfAtom(i))

DestroyWindow(w) ==
  /\ pool' = [pool EXCEPT !["hwnd"][w].is.alive = FALSE]
  /\ UNCHANGED <<clientRefs, strayed>>

\* DispatchMessage and SendMessage: the procedure of the window, else DefWindowProc, which
\* quits the program on WM_DESTROY, the message that comes after the window.
ProcOf(w) == LET e == EntriesOf("window", w) IN IF e = {} THEN "none" ELSE pool["window"][Min(e)].is.proc
DispatchMessage(w) ==
  /\ strayed' = (ProcOf(w) # pool["hwnd"][w].is.proc)
  /\ UNCHANGED <<pool, clientRefs>>
SendMessage(w) == DispatchMessage(w)

\* SetWindowLongPtr: when the table is full the answer is that of a first call.
SetWindowLong(w, data) ==
  LET e == EntriesOf("long", w)
      i == IF e # {} THEN Min(e) ELSE FirstFree(pool, "long")
      told == [pool EXCEPT !["hwnd"][w].is.data = data]
  IN /\ pool' = IF i = 0 THEN told ELSE [told EXCEPT !["long"][i] = Kept([hwnd |-> w, data |-> data])]
     /\ strayed' = (i = 0)
     /\ UNCHANGED clientRefs
GetWindowLong(w) ==
  LET e == EntriesOf("long", w) IN IF e = {} THEN 0 ELSE pool["long"][Min(e)].is.data

\* SetPropW, GetPropW, RemovePropW: SetPropW fails when the table is full.
SetProp(w, data) ==
  LET e == EntriesOf("prop", w)
      i == IF e # {} THEN Min(e) ELSE FirstFree(pool, "prop")
  IN /\ i # 0
     /\ pool' = [pool EXCEPT !["prop"][i] = Kept([hwnd |-> w, data |-> data]), !["hwnd"][w].is.prop = data]
     /\ UNCHANGED <<clientRefs, strayed>>
GetProp(w) == LET e == EntriesOf("prop", w) IN IF e = {} THEN 0 ELSE pool["prop"][Min(e)].is.data
RemoveProp(w) ==
  /\ EntriesOf("prop", w) # {}
  /\ pool' = [pool EXCEPT !["prop"][Min(EntriesOf("prop", w))] = Vacancy, !["hwnd"][w].is.prop = 0]
  /\ UNCHANGED <<clientRefs, strayed>>

\* The rest passes on to the kernel, or answers a constant.
UserNext ==
  /\ ~strayed
  /\ \/ \E name \in {"tray", "worker"} :
          \/ CreateWindow(name)
          \/ \E proc \in {"first", "second"} : RegisterClassA(name, proc) \/ RegisterClassW(name, proc)
     \/ \E i \in DOMAIN pool["class"] : CreateWindowExA(i)
     \/ \E w \in InUse("hwnd") : DispatchMessage(w) \/ SendMessage(w)
     \/ \E w \in Windows :
          \/ DestroyWindow(w) \/ RemoveProp(w)
          \/ SetWindowLong(w, 1) \/ SetProp(w, 1)

\* No class is there twice; a window's message reaches the procedure its class had when it
\* was made, and what the program keeps with it is found again: unless more windows were ever
\* made, or given data, than the tables have entries (user32.c:122, 173, 222).
UserSound ==
  LET none(c, i) == 0 IN
  /\ CountsSound(none)
  /\ \A i, j \in InUse("class") : pool["class"][i].is.name = pool["class"][j].is.name => i = j
  /\ strayed => \/ Cardinality(InUse("hwnd")) > Slots["window"]
                \/ FirstFree(pool, "long") = 0
  /\ \A w \in Windows : GetProp(w) = pool["hwnd"][w].is.prop
  /\ strayed \/ \A w \in Windows : GetWindowLong(w) = pool["hwnd"][w].is.data
=============================================================================
