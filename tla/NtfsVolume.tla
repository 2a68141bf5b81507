----------------------------- MODULE NtfsVolume -----------------------------
(***************************************************************************)
(* Writing to the NTFS volume (drivers/filesystems/ntfs/ntfs.c): files are     *)
(* created, written and deleted by rewriting records of the master file        *)
(* table, each of two sectors, one sector after the other.  The machine may    *)
(* stop between two sectors, a sector may fail to be written, and nothing is   *)
(* repaired when the volume is mounted again.                                  *)
(*                                                                         *)
(* A record is a header and cells.  The cells of a directory are the entries   *)
(* of its index root, Count of them and an end; those of a file are its data,  *)
(* in units.  The first sector has the header and the first cells.             *)
(*                                                                         *)
(* The second part is the disk below (hal/disk.c): one ATA drive that is       *)
(* polled, each command with a limit of polls after which the caller is told   *)
(* of a failure while the drive may still answer.                            *)
(***************************************************************************)
EXTENDS Integers, SequencesExt, FiniteSetsExt

CONSTANTS
  Record,        \* numbers of records: the root, and those after it are free or files
  NtfsRoot,      \* NTFS_MFT_ROOT
  RecordRoom,          \* cells that fit in a record
  FirstCells,    \* cells in the first sector of a record
  Offset,        \* offsets that files are written at
  Length,        \* lengths of what is written
  MaxFailures,   \* bound: sectors that cannot be written, and stops
  DiskSector,    \* sectors of the drive
  DiskData,      \* what they may hold
  BlankData,         \* what they hold at first
  MaxTimeouts    \* bound: loops that end without an answer

ASSUME NtSizesOK ==
  /\ Record \subseteq Nat \ {0} /\ NtfsRoot \in Record
  /\ RecordRoom \in Nat \ {0} /\ FirstCells \in 0..RecordRoom
  /\ Offset \subseteq Nat /\ Length \subseteq 1..RecordRoom /\ MaxFailures \in Nat
  /\ BlankData \in DiskData /\ MaxTimeouts \in Nat /\ "none" \notin DiskSector

VARIABLES
  mft,           \* the records on the disk
  todo,          \* the sectors that the operation has still to write
  undo,          \* what it writes instead if one of them fails
  target,        \* the records that the operation rewrites
  kept,          \* for each file that no operation is writing, its data
  loose,         \* records whose entry stays when they are freed, or is in the index twice
  failures

ntVars == <<mft, todo, undo, target, kept, loose, failures>>

FileRecord == Record \ {NtfsRoot}
Cell == [ref : FileRecord \union {0}, n : Nat]
NoCell == [ref |-> 0, n |-> 0]             \* zeros; in a directory, the end
RecordContent == [used : BOOLEAN, count : 0..RecordRoom, cell : [1..RecordRoom -> Cell]]

NtTypeOK ==
  /\ mft \in [Record -> RecordContent]
  /\ target \subseteq Record
  /\ \A r \in FileRecord : kept[r] \subseteq Seq(Nat) /\ Cardinality(kept[r]) <= 1
  /\ loose \subseteq FileRecord
  /\ failures \in 0..MaxFailures

Unused == [used |-> FALSE, count |-> 0, cell |-> [c \in 1..RecordRoom |-> NoCell]]

\* A volume with an empty root.
NtInit ==
  /\ mft = [r \in Record |-> [Unused EXCEPT !.used = (r = NtfsRoot)]]
  /\ todo = <<>> /\ undo = <<>> /\ target = {}
  /\ kept = [r \in FileRecord |-> {}]
  /\ loose = {} /\ failures = 0

-----------------------------------------------------------------------------
\* ntfs_write_mft_record: the two sectors of a record.
Sectors(r, content) == <<[at |-> r, first |-> TRUE, to |-> content],
                         [at |-> r, first |-> FALSE, to |-> content]>>

\* HalWriteSector: the header and the first cells, or the other cells.
Written(old, s) ==
  [used |-> IF s.first THEN s.to.used ELSE old.used,
   count |-> IF s.first THEN s.to.count ELSE old.count,
   cell |-> [c \in 1..RecordRoom |-> IF s.first = (c <= FirstCells) THEN s.to.cell[c] ELSE old.cell[c]]]

\* The cells an index walk may look at, and the ends among them: without one, the walk
\* stops at the count.
Walked(dir) == 1..Min({dir.count + 1, RecordRoom})
Ends(dir) == {c \in Walked(dir) : dir.cell[c].ref = 0}
Seen(dir) == IF Ends(dir) = {} THEN Walked(dir) ELSE 1..Min(Ends(dir)) - 1

\* ntfs_walk_index_entries: what lies beyond the count is not listed.
IndexEntries(dir) == Seen(dir) \ {dir.count + 1}
InIndex == {mft[NtfsRoot].cell[c].ref : c \in IndexEntries(mft[NtfsRoot])}

\* ntfs_index_insert: the end moves on and the entry takes its place.
WithEntry(dir, r, size) ==
  LET end == Min(Ends(dir)) IN
  [dir EXCEPT !.count = @ + 1,
              !.cell = [@ EXCEPT ![end] = [ref |-> r, n |-> size], ![end + 1] = NoCell]]

\* MUTANT of WithoutEntry: the entry that follows is removed.
WithoutNextEntry(dir, r) ==
  LET hit == Min({c \in Seen(dir) : dir.cell[c].ref = r}) IN
  [dir EXCEPT !.count = @ - 1,
              !.cell = [c \in 1..RecordRoom |->
                          IF hit < c /\ c <= dir.count THEN @[c + 1] ELSE @[c]]]

\* ntfs_index_remove: what follows moves up, the end with it, which also stays.
WithoutEntry(dir, r) ==
  LET hit == Min({c \in Seen(dir) : dir.cell[c].ref = r}) IN
  [dir EXCEPT !.count = @ - 1,
              !.cell = [c \in 1..RecordRoom |->
                          IF hit <= c /\ c <= dir.count THEN @[c + 1] ELSE @[c]]]

\* ntfs_index_update_size: the size in the first entry of the file, if it has one.
WithSize(dir, r, size) ==
  LET hits == {c \in Seen(dir) : dir.cell[c].ref = r} IN
  IF hits = {} THEN dir ELSE [dir EXCEPT !.cell[Min(hits)].n = size]

DataOf(content) == [c \in 1..content.count |-> content.cell[c].n]

StartWrite(sectors, otherwise, records) ==
  /\ todo = <<>>
  /\ todo' = sectors /\ undo' = otherwise /\ target' = records
  /\ UNCHANGED <<mft, failures>>

\* ntfs_create_file: a free record is written, then the entry; if the index has no room
\* or no end, or the entry cannot be written, the record is marked as not in use again.
NtfsCreateFile(len) ==
  LET free == {r \in FileRecord : ~mft[r].used}
      r == Min(free)
      content == [used |-> TRUE, count |-> len,
                  cell |-> [c \in 1..RecordRoom |-> [ref |-> 0, n |-> IF c <= len THEN 1 ELSE 0]]]
      reverted == Sectors(r, [content EXCEPT !.used = FALSE])
      root == mft[NtfsRoot] IN
  /\ free # {}
  /\ IF root.count + 1 < RecordRoom /\ Ends(root) # {}
     THEN StartWrite(Sectors(r, content) \o Sectors(NtfsRoot, WithEntry(root, r, len)),
                reverted, {r, NtfsRoot})
     ELSE StartWrite(Sectors(r, content) \o reverted, <<>>, {r})
  /\ kept' = [kept EXCEPT ![r] = {}]
  /\ UNCHANGED loose

\* ntfs_delete_file: the entry, then the record, which is also marked when the entry
\* could not be removed.
NtfsDeleteFile(r) ==
  LET freed == Sectors(r, [mft[r] EXCEPT !.used = FALSE]) IN
  /\ r \in InIndex
  /\ StartWrite(Sectors(NtfsRoot, WithoutEntry(mft[NtfsRoot], r)) \o freed, freed, {r, NtfsRoot})
  /\ kept' = [kept EXCEPT ![r] = {}]
  /\ UNCHANGED loose

\* ntfs_write_file on resident data: its size changes if the new one fits, and is then
\* written to the parent, if this is given; what does not fit is cut off.
NtfsWriteFile(r, offset, len, setEof, withParent) ==
  LET old == mft[r].count
      wanted == IF setEof \/ offset + len > old THEN offset + len ELSE old
      size == IF wanted > RecordRoom THEN old ELSE wanted
      end == IF offset + len > size THEN size ELSE offset + len
      content == [mft[r] EXCEPT
                    !.count = size,
                    !.cell = [c \in 1..RecordRoom |->
                                IF c > offset /\ c <= end THEN [ref |-> 0, n |-> 2]
                                ELSE IF c > old /\ c <= offset THEN NoCell ELSE @[c]]] IN
  /\ r \in InIndex /\ mft[r].used
  /\ end > offset
  /\ IF withParent /\ size # old
     THEN StartWrite(Sectors(NtfsRoot, WithSize(mft[NtfsRoot], r, size)) \o Sectors(r, content),
                Sectors(r, content), {r, NtfsRoot})
     ELSE StartWrite(Sectors(r, content), <<>>, {r})
  /\ kept' = [kept EXCEPT ![r] = {}]
  /\ UNCHANGED loose

\* The last sector: files that the operation has written hold what it wrote.
Finish(disk) ==
  /\ undo' = <<>> /\ target' = {}
  /\ kept' = [r \in FileRecord |->
              IF r \in target /\ disk[r].used THEN {DataOf(disk[r])} ELSE kept[r]]

WriteSector ==
  /\ todo # <<>>
  /\ LET disk == [mft EXCEPT ![Head(todo).at] = Written(@, Head(todo))] IN
     /\ mft' = disk
     /\ todo' = Tail(todo)
     /\ IF Len(todo) = 1 THEN Finish(disk) ELSE UNCHANGED <<kept, undo, target>>
  /\ UNCHANGED <<loose, failures>>

\* Entries that the index has twice when only its first sector was written, and those
\* whose record is freed next though they are still there.
Doubled ==
  LET s == Head(todo) IN
  IF s.at # NtfsRoot \/ s.first THEN {}
  ELSE {r \in FileRecord : \E c, d \in IndexEntries(mft[NtfsRoot]) :
          c # d /\ mft[NtfsRoot].cell[c].ref = r /\ mft[NtfsRoot].cell[d].ref = r}
FreedThoughListed == {s.at : s \in {s \in Range(undo) : ~s.to.used /\ s.at \in InIndex}}

\* HalWriteSector fails: the record is given up, and what the caller does instead is what
\* undo says, unless it was doing that.
WriteFails ==
  /\ todo # <<>> /\ failures < MaxFailures
  /\ failures' = failures + 1
  /\ todo' = IF Head(todo).at = NtfsRoot THEN undo ELSE <<>>
  /\ undo' = <<>>
  /\ loose' = IF Head(todo).at = NtfsRoot THEN loose \union Doubled \union FreedThoughListed
              ELSE loose
  /\ UNCHANGED <<mft, target, kept>>

\* The machine stops; the volume is mounted as it is.
PowerFail ==
  /\ todo # <<>> /\ failures < MaxFailures
  /\ failures' = failures + 1
  /\ todo' = <<>> /\ undo' = <<>>
  /\ loose' = loose \union Doubled
  /\ UNCHANGED <<mft, target, kept>>

NtNext ==
  \/ \E len \in Length : NtfsCreateFile(len)
  \/ \E r \in FileRecord : NtfsDeleteFile(r)
  \/ \E r \in FileRecord, offset \in Offset, len \in Length, setEof, withParent \in BOOLEAN :
       NtfsWriteFile(r, offset, len, setEof, withParent)
  \/ WriteSector \/ WriteFails \/ PowerFail

NtSpec == NtInit /\ [][NtNext]_ntVars
-----------------------------------------------------------------------------
\* An entry of the directory never leads to a record that is not in use, and which the
\* next file may take: only a removal that failed, or was torn between the sectors of the
\* index, makes such entries (ntfs.c:1287-1355, 1458-1477).
ListedAreUsed == \A r \in InIndex \ loose : mft[r].used

\* A file that no operation was writing holds what was last written to it, whatever was
\* interrupted in other records (ntfs.c:784-813).
FilesKeepTheirData ==
  \A r \in FileRecord : kept[r] # {} => mft[r].used /\ kept[r] = {DataOf(mft[r])}

VolumeSound == ListedAreUsed /\ FilesKeepTheirData
-----------------------------------------------------------------------------
(* The disk.                                                               *)
VARIABLES
  present,       \* s_present
  medium,        \* the sectors of the drive
  drive,         \* what the drive does, with its registers
  request,       \* the call that is under way and where it is
  given,         \* what the last read that answered 0 gave, and of which sector
  expected,      \* what was last written to each sector by a call that answered 0
  failed,        \* sectors whose write the drive gave up after it had all the data
  abandoned,     \* a command was given up while the drive had it
  crossed,         \* data was moved for another command than that of the call
  timeouts

diskVars == <<present, medium, drive, request, given, expected, failed, abandoned, crossed, timeouts>>

Junk == "junk"
NoCall == [op |-> "none", lba |-> "none", data |-> BlankData, at |-> "over"]

DiskTypeOK ==
  /\ {present, abandoned, crossed} \subseteq BOOLEAN /\ timeouts \in 0..MaxTimeouts
  /\ {medium, expected} \subseteq [DiskSector -> DiskData]
  /\ drive.phase \in {"idle", "working", "offers", "takes", "stores"} /\ drive.err \in BOOLEAN
  /\ request.at \in {"over", "ready", "identify", "drq", "flush", "flushed"}
  /\ failed \subseteq DiskSector

DiskInit ==
  /\ present = FALSE /\ abandoned = FALSE /\ crossed = FALSE /\ timeouts = 0
  /\ medium = [s \in DiskSector |-> BlankData] /\ expected = medium
  /\ drive = [phase |-> "idle", err |-> FALSE, command |-> "none", lba |-> "none", data |-> BlankData]
  /\ request = NoCall /\ failed = {}
  /\ given = [lba |-> "none", data |-> BlankData]

\* The status register: BSY and DRQ.
Busy == drive.phase \in {"working", "stores"}
Drq == drive.phase \in {"offers", "takes"}

\* MUTANT of SetupLba: the registers of the sector are not written.
SetupForgotten(lba) == drive.lba

\* ata_setup_lba.
SetupLba(lba) == lba

\* A drive takes no command while BSY or DRQ is set.
Issue(command, lba) ==
  drive' = IF Busy \/ Drq THEN drive
           ELSE [phase |-> "working", err |-> FALSE, command |-> command, lba |-> lba, data |-> drive.data]

At(step) == request' = [request EXCEPT !.at = step]
CallEnds == request' = NoCall

\* hal_disk_init, HalReadSector and HalWriteSector begin.
HalDiskInit ==
  /\ request.at = "over" /\ ~present
  /\ request' = [NoCall EXCEPT !.op = "identify", !.at = "identify"]
  /\ Issue("identify", "none")
  /\ UNCHANGED <<present, medium, given, expected, failed, abandoned, crossed, timeouts>>

HalSector(op, lba, data) ==
  /\ request.at = "over" /\ present
  /\ request' = [op |-> op, lba |-> lba, data |-> data, at |-> "ready"]
  /\ given' = [lba |-> "none", data |-> BlankData]
  /\ UNCHANGED <<present, medium, drive, expected, failed, abandoned, crossed, timeouts>>

\* ata_wait_not_busy before the command, or after that of the identification.
NotBusy ==
  /\ ~Busy
  /\ \/ request.at = "ready" /\ Issue(request.op, SetupLba(request.lba)) /\ At("drq")
     \/ request.at = "identify" /\ At("drq") /\ UNCHANGED drive
  /\ UNCHANGED <<present, medium, given, expected, failed, abandoned, crossed, timeouts>>

\* The polls of ata_wait_not_busy or ata_wait_drq run out.
PollsRunOut ==
  /\ timeouts < MaxTimeouts /\ timeouts' = timeouts + 1
  /\ \/ request.at \in {"ready", "identify"} /\ Busy
     \/ request.at = "drq" /\ ~drive.err /\ ~Drq
  /\ abandoned' = (abandoned \/ request.at # "ready")
  /\ CallEnds
  /\ UNCHANGED <<present, medium, drive, given, expected, failed, crossed>>

\* The bit ERR ends ata_wait_drq; a device that is no ATA disk ends the identification.
Refuses ==
  /\ \/ request.at = "drq" /\ drive.err /\ UNCHANGED abandoned
     \/ request.op = "identify" /\ request.at = "drq" /\ ~Busy /\ abandoned' = TRUE
  /\ CallEnds
  /\ UNCHANGED <<present, medium, drive, given, expected, failed, crossed, timeouts>>

\* 256 words are moved, whatever the drive does: it may still be at a command that was
\* given up.
Own == drive.command = request.op /\ drive.lba = request.lba

ReadWords ==
  /\ request.op \in {"identify", "read"} /\ request.at = "drq" /\ ~drive.err /\ Drq
  /\ drive' = IF drive.phase = "offers" THEN [drive EXCEPT !.phase = "idle"] ELSE drive
  /\ crossed' = (crossed \/ ~Own)
  /\ IF request.op = "identify" THEN present' = TRUE /\ UNCHANGED given
     ELSE /\ given' = [lba |-> request.lba, data |-> IF drive.command = "read" THEN medium[drive.lba] ELSE Junk]
          /\ UNCHANGED present
  /\ CallEnds
  /\ UNCHANGED <<medium, expected, failed, abandoned, timeouts>>

WriteWords ==
  /\ request.op = "write" /\ request.at = "drq" /\ ~drive.err /\ Drq
  /\ drive' = IF drive.phase = "takes" THEN [drive EXCEPT !.phase = "stores", !.data = request.data] ELSE drive
  /\ crossed' = (crossed \/ ~Own)
  /\ expected' = [expected EXCEPT ![request.lba] = request.data]
  /\ failed' = failed \ {request.lba}
  /\ At("flush")
  /\ UNCHANGED <<present, medium, given, abandoned, timeouts>>

\* The flush is sent at once: a drive that still stores does not take it.  HalWriteSector
\* then answers 0 whatever becomes of it.
FlushCache ==
  /\ request.at = "flush" /\ Issue("flush", "none") /\ At("flushed")
  /\ UNCHANGED <<present, medium, given, expected, failed, abandoned, crossed, timeouts>>

WriteReturns ==
  /\ request.at = "flushed"
  /\ \/ ~Busy /\ UNCHANGED timeouts
     \/ Busy /\ timeouts < MaxTimeouts /\ timeouts' = timeouts + 1
  /\ CallEnds
  /\ UNCHANGED <<present, medium, drive, given, expected, failed, abandoned, crossed>>

\* The drive takes its time, and may give a command up.
DriveAnswers ==
  /\ drive.phase = "working"
  /\ drive' = [drive EXCEPT !.phase = CASE drive.command = "write" -> "takes"
                                        [] drive.command = "flush" -> "idle" [] OTHER -> "offers"]
  /\ UNCHANGED <<present, medium, request, given, expected, failed, abandoned, crossed, timeouts>>

DriveStores ==
  /\ drive.phase = "stores"
  /\ medium' = [medium EXCEPT ![drive.lba] = drive.data]
  /\ drive' = [drive EXCEPT !.phase = "idle"]
  /\ UNCHANGED <<present, request, given, expected, failed, abandoned, crossed, timeouts>>

DriveGivesUp ==
  /\ Busy
  /\ drive' = [drive EXCEPT !.phase = "idle", !.err = TRUE]
  /\ failed' = IF drive.phase = "stores" THEN failed \union {drive.lba} ELSE failed
  /\ UNCHANGED <<present, medium, request, given, expected, abandoned, crossed, timeouts>>

\* Bound: what comes after data was moved for another command is not followed.
DiskNext ==
  /\ ~crossed
  /\ \/ HalDiskInit
     \/ \E s \in DiskSector : \/ HalSector("read", s, BlankData)
                             \/ \E d \in DiskData : HalSector("write", s, d)
     \/ NotBusy \/ PollsRunOut \/ Refuses \/ ReadWords \/ WriteWords \/ FlushCache \/ WriteReturns
     \/ DriveAnswers \/ DriveStores \/ DriveGivesUp

DiskSpec == DiskInit /\ [][DiskNext]_diskVars
-----------------------------------------------------------------------------
\* Data is moved for another command, and a sector read or written in place of another, only
\* after the polls for a command ran out while the drive had it: nothing ends that command,
\* and DRQ of the late answer is taken for the next one's (hal/disk.c:80-87, 186-201).  A
\* read gives what was written last, and a write that answered 0 is on the disk, but for one
\* that the drive gave up after it had the data, which nothing looks at (disk.c:242-247).
DiskSound ==
  /\ crossed => abandoned
  /\ ~crossed => /\ given.lba # "none" /\ given.lba \notin failed => given.data = expected[given.lba]
               /\ \A s \in DiskSector \ failed :
                    medium[s] = expected[s] \/ (drive.phase = "stores" /\ drive.lba = s)
=============================================================================
