--------------------------- MODULE ProcessManager ---------------------------
(***************************************************************************)
(* Processes, threads and their client ids: ps/process.c, ps/cid_table.c,   *)
(* the launch of an image (ldr/loader.c, ke/amd64/usermode.c) and the        *)
(* system calls on them (ke/amd64/syscall.c).                               *)
(*                                                                         *)
(* A program runs inside the call that launched it: NtCreateProcess nests,   *)
(* so the programs form a stack and only the last runs.  A ring-3 thread is  *)
(* scheduled beside it; it is named by its thread object.  What a thread     *)
(* does to be scheduled is in Dispatcher.                                   *)
(***************************************************************************)
EXTENDS ObjectManager

CONSTANTS
  MaxCid,            \* entries of PspCidTable (CID_MAX_ENTRIES)
  MaxRing3,          \* entries of g_ring3_threads
  ClosesThreads      \* whether programs close handles of threads

ASSUME PsSizesOK == MaxCid \in Nat /\ MaxRing3 \in Nat /\ ClosesThreads \in BOOLEAN

VARIABLES
  process,           \* EPROCESS of each process object
  thread,            \* ETHREAD of each thread object
  nextPid, nextTid,  \* s_next_pid, s_next_tid
  cid,               \* PspCidTable and its HandleCount
  program,           \* the programs launched and not ended: process and thread
  ring3,             \* g_ring3_threads
  kthread,           \* the ring-3 threads that were launched: do they run
  waiting            \* the thread NtWaitForSingleObject waits for, 0 if none

psVars == <<process, thread, nextPid, nextTid, cid, program, ring3, kthread, waiting>>

FreeEntry == [cid |-> 0, kind |-> "process", object |-> 0]

Current == IF program = <<>> THEN 0 ELSE program[Len(program)].process

PsTypeOK ==
  /\ DOMAIN process = {o \in DOMAIN object : object[o].type = "process"}
  /\ DOMAIN thread = {o \in DOMAIN object : object[o].type = "thread"}
  /\ \A p \in DOMAIN process :
       process[p] \in [pid : 1..nextPid - 1, threads : Nat, active : Nat,
                       terminated : BOOLEAN, main : {0} \union DOMAIN thread]
  /\ \A t \in DOMAIN thread :
       thread[t] \in [tid : 1..nextTid - 1, process : DOMAIN process, terminated : BOOLEAN]
  /\ nextPid \in Nat /\ nextTid \in Nat
  /\ cid.entry \in [1..MaxCid -> [cid : Nat, kind : {"process", "thread"}, object : 0..Len(object)]]
  /\ cid.count \in Nat
  /\ program \in Seq([process : {0} \union DOMAIN process, thread : {0} \union DOMAIN thread])
  /\ ring3 \in Seq([h : {0} \union Handle, kt : DOMAIN kthread]) /\ Len(ring3) <= MaxRing3
  /\ DOMAIN kthread \subseteq DOMAIN thread /\ \A t \in DOMAIN kthread : kthread[t] \in BOOLEAN
  /\ waiting \in {0} \union DOMAIN kthread

PsInit ==
  /\ process = <<>> /\ thread = <<>> /\ kthread = <<>>
  /\ nextPid = 1 /\ nextTid = 1
  /\ cid = [entry |-> [i \in 1..MaxCid |-> FreeEntry], count |-> 0]
  /\ program = <<>> /\ ring3 = <<>> /\ waiting = 0

-----------------------------------------------------------------------------
\* Extends a table of objects by one.
With(table, o, record) == [x \in DOMAIN table \union {o} |-> IF x = o THEN record ELSE table[x]]

\* MUTANT of CidFind: an id of either kind is found.
CidFindAny(c, id, kind) == {i \in 1..MaxCid : c.entry[i].cid = id}

CidFind(c, id, kind) == {i \in 1..MaxCid : c.entry[i].cid = id /\ c.entry[i].kind = kind}

\* cid_insert_process, cid_insert_thread: a full table ignores the entry.
CidInsert(c, id, kind, o) ==
  LET free == {i \in 1..MaxCid : c.entry[i].cid = 0}
      found == CidFind(c, id, kind)
      at == IF found # {} THEN found ELSE free
  IN IF at = {} THEN c
     ELSE [entry |-> [c.entry EXCEPT ![Min(at)] = [cid |-> id, kind |-> kind, object |-> o]],
           count |-> c.count + 1]

CidRemove(c, id, kind) ==
  LET found == CidFind(c, id, kind)
  IN IF found = {} THEN c
     ELSE [entry |-> [c.entry EXCEPT ![Min(found)] = FreeEntry],
           count |-> IF c.count > 0 THEN c.count - 1 ELSE 0]

NewProcess(pid) == [pid |-> pid, threads |-> 0, active |-> 0, terminated |-> FALSE, main |-> 0]

\* PsCreateThread counts the thread in its process; the first is the main one.
WithThread(p, t) ==
  [p EXCEPT !.threads = @ + 1, !.active = @ + 1, !.main = IF @ = 0 THEN t ELSE @]

Ended(p) == [p EXCEPT !.terminated = TRUE, !.active = IF @ > 0 THEN @ - 1 ELSE 0]

\* PsTerminateProcess: the record and the main thread of it, nothing that runs.
PsTerminateProcess(p) ==
  LET main == process[p].main IN
  /\ process' = [process EXCEPT ![p] = Ended(@)]
  /\ thread' = IF main = 0 THEN thread ELSE [thread EXCEPT ![main].terminated = TRUE]
  /\ LET c == IF main = 0 THEN cid ELSE CidRemove(cid, thread[main].tid, "thread")
     IN cid' = CidRemove(c, process[p].pid, "process")

\* Somebody is in ring 3: the program, if it does not wait, or a thread, which
\* outlives the program that made it.
UserRuns ==
  \/ program # <<>> /\ waiting = 0
  \/ \E t \in DOMAIN kthread : kthread[t]

-----------------------------------------------------------------------------
\* ldr_run: a process and its main thread, as far as there is memory, and the
\* program starts; with `shell' the process object that NtCreateProcess made and
\* gave a handle comes first.
Launch(shell) ==
  LET made == Min({Room, IF shell THEN 3 ELSE 2})
      id(i) == Len(object) + i
      p == IF shell THEN id(2) ELSE id(1)
      t == p + 1
      last == Len(object) + made
      pid == IF shell THEN nextPid + 1 ELSE nextPid
      shells == IF shell THEN With(process, id(1), NewProcess(nextPid)) ELSE process
      c == IF shell THEN CidInsert(cid, nextPid, "process", id(1)) ELSE cid
      cp == IF p <= last THEN CidInsert(c, pid, "process", p) ELSE c
      type(i) == IF id(i) = t THEN "thread" ELSE "process"
  IN /\ CreateObjects([i \in 1..made |-> Header(type(i), Unnamed)], IF shell THEN 1 ELSE 0)
     /\ process' = IF p > last THEN shells
                   ELSE With(shells, p, IF t > last THEN NewProcess(pid)
                                        ELSE WithThread(NewProcess(pid), t))
     /\ thread' = IF t > last THEN thread
                  ELSE With(thread, t, [tid |-> nextTid, process |-> p, terminated |-> FALSE])
     /\ nextPid' = IF p > last THEN pid ELSE pid + 1
     /\ nextTid' = IF t > last THEN nextTid ELSE nextTid + 1
     /\ cid' = IF t > last THEN cp ELSE CidInsert(cp, nextTid, "thread", t)
     /\ program' = Append(program, [process |-> IF p > last THEN 0 ELSE p,
                                    thread |-> IF t > last THEN 0 ELSE t])

\* The boot thread runs an image, one after the other.
RunImage ==
  /\ program = <<>>
  /\ Launch(FALSE)
  /\ UNCHANGED <<ring3, kthread, waiting>>

\* The image is found and the child runs at once, its parent inside the call.
NtCreateProcess ==
  /\ program # <<>> /\ waiting = 0 /\ Room > 0
  /\ Launch(TRUE)
  /\ UNCHANGED <<ring3, kthread, waiting>>

\* No such image: the process object and its handle are left.
NtCreateProcessNoImage ==
  /\ program # <<>> /\ waiting = 0 /\ Room > 0
  /\ CreateObjects(<<Header("process", Unnamed)>>, 1)
  /\ process' = With(process, Len(object) + 1, NewProcess(nextPid))
  /\ cid' = CidInsert(cid, nextPid, "process", Len(object) + 1)
  /\ nextPid' = nextPid + 1
  /\ UNCHANGED <<thread, nextTid, program, ring3, kthread, waiting>>

\* A thread of process p: recorded for NtWaitForSingleObject if it could be
\* launched and there is an entry left.  SUCCESS even if there is no handle.
NtCreateThread(h) ==
  LET p == IF h = 0 THEN Current ELSE Referenced(h, "process")
      t == Len(object) + 1 IN
  /\ UserRuns /\ p # 0 /\ Room > 0
  /\ CreateObjects(<<Header("thread", Unnamed)>>, 1)
  /\ process' = [process EXCEPT ![p] = WithThread(@, t)]
  /\ thread' = With(thread, t, [tid |-> nextTid, process |-> p, terminated |-> FALSE])
  /\ cid' = CidInsert(cid, nextTid, "thread", t)
  /\ nextTid' = nextTid + 1
  /\ \/ /\ kthread' = With(kthread, t, TRUE)
        /\ ring3' = IF Len(ring3) = MaxRing3 THEN ring3
                    ELSE Append(ring3, [h |-> NewHandle, kt |-> t])
     \/ UNCHANGED <<kthread, ring3>>      \* no start address, or no stack for it
  /\ UNCHANGED <<nextPid, program, waiting>>

\* By handle: the program that runs under another process object goes on.
NtTerminateProcess(h) ==
  LET p == Referenced(h, "process") IN
  /\ UserRuns /\ p # 0
  /\ PsTerminateProcess(p)
  /\ UNCHANGED <<object, all, named, slot, nextPid, nextTid, program, ring3, kthread, waiting>>

\* exit, NtTerminateProcess(0) or a fault of the main thread: back into ldr_run,
\* which terminates the process and makes the parent current again.
ProgramExits ==
  LET p == Current IN
  /\ program # <<>> /\ waiting = 0
  /\ IF p # 0 THEN PsTerminateProcess(p) ELSE UNCHANGED <<process, thread, cid>>
  /\ program' = SubSeq(program, 1, Len(program) - 1)
  /\ UNCHANGED <<object, all, named, slot, nextPid, nextTid, ring3, kthread, waiting>>

\* A ring-3 thread returns, calls exit or faults: only it ends.
ThreadExits(t) ==
  /\ t \in DOMAIN kthread /\ kthread[t]
  /\ kthread' = [kthread EXCEPT ![t] = FALSE]
  /\ UNCHANGED <<object, all, named, slot, process, thread, nextPid, nextTid, cid, program,
                 ring3, waiting>>

\* The first record with the value of the handle, 0 if there is none.
RecordOf(h) ==
  LET hits == {i \in DOMAIN ring3 : ring3[i].h = h} IN IF hits = {} THEN 0 ELSE Min(hits)

\* NtWaitForSingleObject by the main thread; without a record it returns at once.
WaitBegins(h) ==
  /\ program # <<>> /\ waiting = 0
  /\ RecordOf(h) # 0 /\ kthread[ring3[RecordOf(h)].kt]
  /\ waiting' = ring3[RecordOf(h)].kt
  /\ UNCHANGED <<object, all, named, slot, process, thread, nextPid, nextTid, cid, program,
                 ring3, kthread>>

WaitReturns ==
  /\ waiting # 0 /\ ~kthread[waiting]
  /\ waiting' = 0
  /\ UNCHANGED <<object, all, named, slot, process, thread, nextPid, nextTid, cid, program,
                 ring3, kthread>>

\* NtClose of a process or a thread.
PsClose(h) ==
  /\ UserRuns
  /\ CloseHandle(h)
  /\ object[slot[h]].type = "process" \/ (object[slot[h]].type = "thread" /\ ClosesThreads)
  /\ UNCHANGED psVars

PsNext ==
  \/ RunImage \/ NtCreateProcess \/ NtCreateProcessNoImage \/ ProgramExits \/ WaitReturns
  \/ \E h \in Handle \union {0} : NtCreateThread(h) \/ WaitBegins(h)
  \/ \E h \in Handle : NtTerminateProcess(h) \/ PsClose(h)
  \/ \E t \in DOMAIN kthread : ThreadExits(t)

PsSpec == ObInit(<<>>) /\ PsInit /\ [][PsNext]_<<obVars, psVars>>
-----------------------------------------------------------------------------
Used == {i \in 1..MaxCid : cid.entry[i].cid # 0}

\* HandleCount of PspCidTable is the number of entries in use; an entry leads to
\* the one object with its id, and a process in the table has not been
\* terminated, whatever the order of launches, terminations and full tables
\* (ps/cid_table.c:84-145, ps/process.c:167-182).
ClientIdsExact ==
  /\ cid.count = Cardinality(Used)
  /\ \A i, j \in Used : cid.entry[i].cid = cid.entry[j].cid
                        /\ cid.entry[i].kind = cid.entry[j].kind => i = j
  /\ \A i \in Used :
       LET e == cid.entry[i] IN
       IF e.kind = "process"
       THEN e.object \in DOMAIN process /\ process[e.object].pid = e.cid
            /\ ~process[e.object].terminated
       ELSE e.object \in DOMAIN thread /\ thread[e.object].tid = e.cid
            /\ ~thread[e.object].terminated

\* While no more ids were given out than the table has entries, every live
\* process and every thread that is not the main one of a terminated process is
\* in it (ps/process.c:110-113, 154-156).
LiveAreListed ==
  nextPid + nextTid - 2 <= MaxCid =>
    /\ \A p \in DOMAIN process :
         ~process[p].terminated => CidFind(cid, process[p].pid, "process") # {}
    /\ \A t \in DOMAIN thread :
         ~thread[t].terminated => CidFind(cid, thread[t].tid, "thread") # {}

\* A program that runs is never marked terminated: a handle leads to the process
\* object that NtCreateProcess made, never to the one ldr_run made for the program
\* (ldr/loader.c:407-426, syscall.c:453-545).
ProgramsAlive ==
  \A i \in DOMAIN program :
    program[i].process # 0 => ~process[program[i].process].terminated

\* ThreadCount counts every thread ever made in the process; ActiveThreads is never
\* above it.
ThreadsCounted ==
  \A p \in DOMAIN process :
    /\ process[p].threads = Cardinality({t \in DOMAIN thread : thread[t].process = p})
    /\ process[p].active <= process[p].threads

\* NtWaitForSingleObject on a handle of a recorded thread waits for that thread,
\* not for one that had the same handle before, if programs never close the handle
\* of a thread: the records are never removed (syscall.c:498-524, 561-570).
WaitsForItsThread ==
  ~ClosesThreads =>
    \A i \in DOMAIN ring3 :
      ring3[i].h # 0 => slot[ring3[i].h] = ring3[i].kt /\ RecordOf(ring3[i].h) = i

ObjectTablesSound ==
  /\ HandleCountsExact
  /\ ClientIdsExact
  /\ LiveAreListed
  /\ ProgramsAlive
  /\ ThreadsCounted
  /\ WaitsForItsThread
=============================================================================
