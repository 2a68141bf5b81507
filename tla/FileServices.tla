---------------------------- MODULE FileServices ----------------------------
(***************************************************************************)
(* File objects and what they are open on: a device, a named pipe           *)
(* (lpc/pipe.c) or a file or directory of the NTFS volume                   *)
(* (ntfs/ntfs_fs.c), by the system calls of ke/amd64/syscall.c.  The volume  *)
(* has one cursor for the directory that is being listed, shared by every    *)
(* handle.                                                                  *)
(*                                                                         *)
(* A byte of a pipe is represented by its number in the order of writing,    *)
(* modulo ByteMod.  A file has as many units as its size; the records of the *)
(* volume and what it does on disk are in NtfsVolume.                       *)
(***************************************************************************)
EXTENDS ObjectManager

CONSTANTS
  Device,        \* names of devices that are not the volume
  PipeName,      \* names of pipes, as pipe_normalize_name leaves them
  PipeSize,      \* PIPE_BUF_SIZE
  ByteMod,       \* bound: bytes are numbered modulo this
  Directory,     \* records of directories
  PlainFile,     \* records of plain files
  FsRoot,        \* the record of the root directory (NTFS_MFT_ROOT)
  Entries        \* entries of a directory, units of a plain file

ASSUME FsSizesOK ==
  /\ PipeSize \in Nat \ {0} /\ ByteMod \in Nat /\ ByteMod > PipeSize
  /\ FsRoot \in Directory /\ Directory \intersect PlainFile = {} /\ 0 \notin Directory \union PlainFile
  /\ Entries \in [Directory \union PlainFile -> Nat]
  /\ Device \union PipeName \subseteq ObjectName /\ Device \intersect PipeName = {}

VARIABLES
  file,          \* the body of each file object: DeviceObject, PipeObject, FsContext
  pipe,          \* the body of each pipe object
  bytes,         \* for each pipe, the numbers of bytes written and read so far
  cursor,        \* NTFS_VOLUME_EXT: dir_record and dir_index
  scan           \* the directory handle that alone used the cursor since it was
                 \* opened, and the entries it was given

fsVars == <<file, pipe, bytes, cursor, scan>>

PipeState == {"DISCONNECTED", "LISTENING", "CONNECTED"}
Nobody == [file |-> 0, entries |-> 0]

FsTypeOK ==
  /\ DOMAIN file = {o \in DOMAIN object : object[o].type = "file"}
  /\ DOMAIN pipe = {o \in DOMAIN object : object[o].type = "pipe"}
  /\ DOMAIN bytes = DOMAIN pipe
  /\ \A f \in DOMAIN file :
       file[f] \in [pipe : {0} \union DOMAIN pipe, record : {0} \union Directory \union PlainFile,
                    offset : Nat]
  /\ \A p \in DOMAIN pipe :
       pipe[p] \in [buffer : [0..PipeSize - 1 -> 0..ByteMod - 1], head : 0..PipeSize - 1,
                    tail : 0..PipeSize - 1, count : 0..PipeSize, state : PipeState,
                    client : BOOLEAN, server : BOOLEAN]
  /\ \A p \in DOMAIN bytes : bytes[p] \in [written : 0..ByteMod - 1, read : 0..ByteMod - 1]
  /\ cursor \in [record : Directory \union PlainFile, index : Nat]
  /\ scan \in [file : {0} \union DOMAIN file, entries : Nat]

FsInit ==
  /\ file = <<>> /\ pipe = <<>> /\ bytes = <<>>
  /\ cursor = [record |-> FsRoot, index |-> 0]
  /\ scan = Nobody

Added(table, o, record) == [x \in DOMAIN table \union {o} |-> IF x = o THEN record ELSE table[x]]

OpenFile(p, record) == [pipe |-> p, record |-> record, offset |-> 0]

\* The pipe a handle leads to, 0 if it leads to none.
PipeOf(h) == LET f == Referenced(h, "file") IN IF f = 0 THEN 0 ELSE file[f].pipe

-----------------------------------------------------------------------------
\* pipe_create and the file object of the server.  The pipe takes its name first:
\* if there is no memory for the file object it stays, and no other gets the name.
NewPipe ==
  [buffer |-> [i \in 0..PipeSize - 1 |-> 0], head |-> 0, tail |-> 0, count |-> 0,
   state |-> "DISCONNECTED", client |-> FALSE, server |-> FALSE]

NtCreateNamedPipe(name) ==
  LET made == Min({2, Room})
      p == Len(object) + 1
      f == Len(object) + 2 IN
  /\ Room > 0
  /\ ObLookupObject(name) = 0
  /\ CreateObjects(SubSeq(<<Header("pipe", name), Header("file", Unnamed)>>, 1, made),
                   IF made = 2 THEN 2 ELSE 0)
  /\ pipe' = Added(pipe, p, NewPipe)
  /\ bytes' = Added(bytes, p, [written |-> 0, read |-> 0])
  /\ file' = IF made = 2 THEN Added(file, f, OpenFile(p, 0)) ELSE file
  /\ UNCHANGED <<cursor, scan>>

\* MUTANT of ServerWaits: a client that came first is forgotten.
ServerListens(p) == [p EXCEPT !.server = TRUE, !.state = "LISTENING"]

\* NtConnectNamedPipe: the server does not block.
ServerWaits(p) ==
  [p EXCEPT !.server = TRUE, !.state = IF p.client THEN "CONNECTED" ELSE "LISTENING"]

NtConnectNamedPipe(h) ==
  /\ PipeOf(h) # 0
  /\ pipe' = [pipe EXCEPT ![PipeOf(h)] = ServerWaits(@)]
  /\ UNCHANGED <<obVars, file, bytes, cursor, scan>>

ClientComes(p) == [p EXCEPT !.client = TRUE, !.state = "CONNECTED"]

\* NtCreateFile on the name of a pipe: connected before the file object exists.
OpenPipe(name) ==
  LET p == ObLookupObject(name) IN
  /\ p # 0 /\ object[p].type = "pipe"
  /\ pipe' = [pipe EXCEPT ![p] = ClientComes(@)]
  /\ IF Room > 0
     THEN /\ CreateObjects(<<Header("file", Unnamed)>>, 1)
          /\ file' = Added(file, Len(object) + 1, OpenFile(p, 0))
     ELSE UNCHANGED <<obVars, file>>
  /\ UNCHANGED <<bytes, cursor, scan>>

\* NtCreateFile on a device of the name space.
OpenDevice(name) ==
  LET d == ObLookupObject(name) IN
  /\ d # 0 /\ object[d].type = "device" /\ Room > 0
  /\ CreateObjects(<<Header("file", Unnamed)>>, 1)
  /\ file' = Added(file, Len(object) + 1, OpenFile(0, 0))
  /\ UNCHANGED <<pipe, bytes, cursor, scan>>

\* NtCreateFile on the volume: ntfs_fs_set_target aims the cursor, and the create
\* request sets its index back whatever was opened.
OpenVolume(record) ==
  LET f == Len(object) + 1 IN
  /\ Room > 0
  /\ CreateObjects(<<Header("file", Unnamed)>>, 1)
  /\ file' = Added(file, f, OpenFile(0, record))
  /\ cursor' = [record |-> IF record \in Directory THEN record ELSE cursor.record,
                index |-> 0]
  /\ scan' = IF record \in Directory THEN [file |-> f, entries |-> 0] ELSE Nobody
  /\ UNCHANGED <<pipe, bytes>>

\* The pipe with n bytes more, numbered from `first', and with the first n gone.
Filled(b, first, n) ==
  [b EXCEPT
     !.buffer = [i \in 0..PipeSize - 1 |-> LET k == (i - b.tail) % PipeSize
                                           IN IF k < n THEN (first + k) % ByteMod ELSE @[i]],
     !.tail = (@ + n) % PipeSize,
     !.count = @ + n]

Drained(b, n) == [b EXCEPT !.head = (@ + n) % PipeSize, !.count = @ - n]

\* pipe_write: as much as fits.
PipeWrite(p, len) ==
  LET n == Min({len, PipeSize - pipe[p].count}) IN
  /\ pipe' = [pipe EXCEPT ![p] = Filled(@, bytes[p].written, n)]
  /\ bytes' = [bytes EXCEPT ![p].written = (@ + n) % ByteMod]

\* pipe_read: as much as there is.
PipeRead(p, len) ==
  LET n == Min({len, pipe[p].count}) IN
  /\ pipe' = [pipe EXCEPT ![p] = Drained(@, n)]
  /\ bytes' = [bytes EXCEPT ![p].read = (@ + n) % ByteMod]

\* NtWriteFile and NtReadFile on a pipe, from either end.
NtWritePipe(h, len) ==
  /\ PipeOf(h) # 0 /\ PipeWrite(PipeOf(h), len)
  /\ UNCHANGED <<obVars, file, cursor, scan>>

NtReadPipe(h, len) ==
  /\ PipeOf(h) # 0 /\ PipeRead(PipeOf(h), len)
  /\ UNCHANGED <<obVars, file, cursor, scan>>

\* NtReadFile on the volume: the handle keeps the offset (NtWriteFile advances it in
\* the same way by what was written; what is written is in NtfsVolume).
NtReadVolume(h, len) ==
  LET f == Referenced(h, "file")
      r == IF f = 0 THEN 0 ELSE file[f].record IN
  /\ r \in PlainFile
  /\ file' = [file EXCEPT ![f].offset = Min({@ + len, Entries[r]})]
  /\ UNCHANGED <<obVars, pipe, bytes, cursor, scan>>

\* NtQueryDirectoryFile: the cursor is aimed at the record of the handle, which
\* sets the index back only if another directory was being listed; then the next
\* entry, if there is one.
NtQueryDirectoryFile(h) ==
  LET f == Referenced(h, "file")
      r == IF f = 0 THEN 0 ELSE file[f].record
      index == IF cursor.record = r THEN cursor.index ELSE 0
      size == IF r \in Directory THEN Entries[r] ELSE 0
      found == index < size IN
  /\ r # 0
  /\ cursor' = [record |-> r, index |-> IF found THEN index + 1 ELSE index]
  /\ scan' = IF scan.file # f THEN Nobody
             ELSE [file |-> f, entries |-> IF found THEN scan.entries + 1 ELSE scan.entries]
  /\ UNCHANGED <<obVars, file, pipe, bytes>>

\* NtClose: the driver's close request keeps nothing; a pipe stays connected.
FsClose(h) ==
  /\ CloseHandle(h)
  /\ object[slot[h]].type = "file"
  /\ UNCHANGED fsVars

FsNext ==
  \/ \E name \in PipeName : NtCreateNamedPipe(name) \/ OpenPipe(name)
  \/ \E name \in Device : OpenDevice(name)
  \/ \E r \in Directory \union PlainFile : OpenVolume(r)
  \/ \E h \in Handle :
       \/ NtConnectNamedPipe(h) \/ NtQueryDirectoryFile(h) \/ FsClose(h)
       \/ \E len \in 1..PipeSize : NtWritePipe(h, len) \/ NtReadPipe(h, len)
       \/ NtReadVolume(h, 1)

FsSpec(devices) == ObInit(devices) /\ FsInit /\ [][FsNext]_<<obVars, fsVars>>
-----------------------------------------------------------------------------
\* The bytes between the reader and the writer of a pipe are in its buffer, each
\* once and in the order they were written, whatever writes and reads fell short
\* (lpc/pipe.c:90-120).
PipesAreFifo ==
  \A p \in DOMAIN pipe :
    LET b == pipe[p] IN
    /\ b.tail = (b.head + b.count) % PipeSize
    /\ bytes[p].written = (bytes[p].read + b.count) % ByteMod
    /\ \A k \in 0..b.count - 1 :
         b.buffer[(b.head + k) % PipeSize] = (bytes[p].read + k) % ByteMod

\* The state of a pipe follows from who came, in whatever order the two came: it is
\* connected exactly when a client opened it, and listening when only the server is
\* there (lpc/pipe.c:60-88).
PipeStatesAgree ==
  \A p \in DOMAIN pipe :
    pipe[p].state = IF pipe[p].client THEN "CONNECTED"
                    ELSE IF pipe[p].server THEN "LISTENING" ELSE "DISCONNECTED"

\* A directory that is opened and listed with no other open and no listing by
\* another handle in between gives each of its entries once, in order, although the
\* volume has one cursor for all (ntfs_fs.c:66-77, 152-222).
ListingIsComplete ==
  scan.file # 0 =>
    /\ cursor.record = file[scan.file].record
    /\ cursor.index = scan.entries
    /\ scan.entries <= Entries[cursor.record]

FilesSound ==
  /\ PipesAreFifo
  /\ PipeStatesAgree
  /\ NamesUnique
  /\ ListingIsComplete
=============================================================================
