------------------------------ MODULE ComBase ------------------------------
(***************************************************************************)
(* combase.dll (dll/win32/combase/combase.c): memory streams, interfaces that *)
(* are handed to another thread in a stream, and strings.  All of them are in  *)
(* one arena, from which nothing is ever given back: the last Release of a      *)
(* stream and the last WindowsDeleteString only count.                           *)
(*                                                                          *)
(* The class "arena" has one entry, that keeps how many cells are taken; a       *)
(* stream, the head of a string and its text take one, a buffer its capacity.     *)
(***************************************************************************)
EXTENDS ComObjects

CONSTANTS
  ArenaSize,     \* g_comheap
  StreamEnd      \* bound: the positions a stream is set to

Taken == pool["arena"][1].is

\* The pools with n cells more taken, if the arena has them.
Fits(p, n) == p["arena"][1].is + n <= ArenaSize
Take(p, n) == [p EXCEPT !["arena"][1].is = @ + n]

-----------------------------------------------------------------------------
\* A stream: its buffer begins at cell `buf' and has `cap' cells; `reach' is a ghost: the cells
\* of it that were written.  `carries' is the interface that was marshaled into it, or 0.
EmptyStream == [buf |-> 0, cap |-> 0, size |-> 0, pos |-> 0, reach |-> 0, carries |-> 0]
Stream(s) == pool["stream"][s].is

\* The capacity that stream_ensure finds for `need' cells: it doubles from the first.
Capacity(st, need) ==
  Min({c \in {2^k * Max({st.cap, 1}) : k \in 0..need} : c >= need})

\* MUTANT of Ensured: the capacity grows and the buffer stays.
EnsuredInPlace(p, s, need) ==
  IF need <= p["stream"][s].is.cap THEN p ELSE [p EXCEPT !["stream"][s].is.cap = need]

\* stream_ensure: the pools once stream s has room for `need' cells; the old buffer is left.
Ensured(p, s, need) ==
  LET st == p["stream"][s].is
      cap == Capacity(st, need)
  IN IF need <= st.cap \/ ~Fits(p, cap) THEN p
     ELSE [Take(p, cap) EXCEPT !["stream"][s].is =
             [st EXCEPT !.buf = p["arena"][1].is, !.cap = cap, !.reach = Min({@, st.size})]]
HasRoom(p, s, need) == p["stream"][s].is.cap >= need

\* stm_Write: the pools once n cells are written at the position of s, if there is room.
Written(p, s, n) ==
  LET end == p["stream"][s].is.pos + n
      q == Ensured(p, s, end)
  IN IF HasRoom(q, s, end)
     THEN [q EXCEPT !["stream"][s].is =
             [@ EXCEPT !.pos = end, !.size = Max({@, end}), !.reach = Max({@, end})]]
     ELSE q

\* Cells that were cut off come back when the stream becomes longer than `from' again.
ComesBack(st, from) == st.reach > st.size /\ from > st.size

NewStream(p) == WithNew(p, "stream", EmptyStream)
StreamSlot == FirstFree(pool, "stream")

\* CreateStreamOnHGlobal
CreateStream ==
  /\ MayAsk /\ StreamSlot # 0 /\ Fits(pool, 1)
  /\ pool' = Take(NewStream(pool), 1)
  /\ clientRefs' = Given(clientRefs, "stream", StreamSlot)
  /\ UNCHANGED strayed

StreamAddRef(s) == HandOut("stream", s)
\* stm_Release: nothing is given back.
StreamRelease(s) ==
  /\ pool' = [pool EXCEPT !["stream"][s].refs = @ - 1]
  /\ clientRefs' = [clientRefs EXCEPT !["stream"][s] = @ - 1]
  /\ UNCHANGED strayed

Write(s, n) ==
  /\ pool' = Written(pool, s, n)
  /\ strayed' = ComesBack(Stream(s), Stream(s).pos)
  /\ UNCHANGED clientRefs
Avail(st) == Max({0, st.size - st.pos})
Read(s, n) == Change("stream", s, [Stream(s) EXCEPT !.pos = @ + Min({n, Avail(Stream(s))})])
Seek(s, to) == Change("stream", s, [Stream(s) EXCEPT !.pos = to])

\* stm_SetSize: a stream that is made shorter keeps its buffer as it is.
SetSize(s, size) ==
  LET q == Ensured(pool, s, size) IN
  /\ HasRoom(q, s, size)
  /\ pool' = [q EXCEPT !["stream"][s].is.size = size]
  /\ strayed' = ComesBack(Stream(s), size)
  /\ UNCHANGED clientRefs

\* stm_CopyTo: what cannot be written is skipped, and the answer is S_OK.
CopyTo(s, t, n) ==
  LET moved == Min({n, Avail(Stream(s))})
      q == IF moved = 0 THEN pool ELSE Written(pool, t, moved)
  IN /\ pool' = [q EXCEPT !["stream"][s].is.pos = @ + moved]
     /\ strayed' = (moved > 0 /\ ComesBack(Stream(t), Stream(t).pos))
     /\ UNCHANGED clientRefs

\* stm_Clone: a copy that does not fit is lost, with its place in the arena.
Clone(s) ==
  LET c == StreamSlot
      q == Ensured(Take(NewStream(pool), 1), c, Stream(s).size)
      copy == [q["stream"][c].is EXCEPT !.size = Stream(s).size, !.pos = Stream(s).pos,
                                        !.reach = Stream(s).size, !.carries = Stream(s).carries]
  IN /\ MayAsk /\ c # 0 /\ Fits(pool, 1)
     /\ IF HasRoom(q, c, Stream(s).size)
        THEN pool' = [q EXCEPT !["stream"][c].is = copy] /\ clientRefs' = Given(clientRefs, "stream", c)
        ELSE pool' = [q EXCEPT !["stream"][c].lost = 1] /\ UNCHANGED clientRefs
     /\ UNCHANGED strayed

\* CoMarshalInterThreadInterfaceInStream: the interface is not counted, and whether it could
\* be written is not looked at.
Marshal(o) ==
  LET q == Written(Take(NewStream(pool), 1), StreamSlot, 1) IN
  /\ MayAsk /\ StreamSlot # 0 /\ Fits(pool, 1)
  /\ pool' = [q EXCEPT !["stream"][StreamSlot].is =
                [@ EXCEPT !.pos = 0, !.carries = IF @ = 0 /\ q["stream"][StreamSlot].is.size = 1 THEN o ELSE 0]]
  /\ clientRefs' = Given(clientRefs, "stream", StreamSlot)
  /\ UNCHANGED strayed

\* CoGetInterfaceAndReleaseStream: the interface may be gone by now.
Unmarshal(s) ==
  LET o == Stream(s).carries
      released == [clientRefs EXCEPT !["stream"][s] = @ - 1]
      read == [pool EXCEPT !["stream"][s] = [@ EXCEPT !.refs = @ - 1, !.is.pos = 1]]
  IN /\ o # 0 /\ Stream(s).pos = 0 /\ Stream(s).size = 1 /\ MayAsk
     /\ pool' = Counted(read, "object", o)
     /\ clientRefs' = Given(released, "object", o)
     /\ strayed' = ~pool["object"][o].used

StreamsNext ==
  /\ ~strayed
  /\ \/ CreateStream
     \/ Create("object", 0) \/ Unknown("object")
     \/ \E o \in Held("object") : Marshal(o)
     \/ \E s \in Held("stream") :
          \/ StreamAddRef(s) \/ StreamRelease(s) \/ Clone(s) \/ Unmarshal(s)
          \/ Stream(s).pos < StreamEnd /\ Write(s, 1)
          \/ Read(s, 1)
          \/ \E to \in {0, StreamEnd} : Seek(s, to) \/ SetSize(s, to)
          \/ \E t \in Held("stream") : Stream(t).pos < StreamEnd /\ CopyTo(s, t, 1)

\* No stream writes where another keeps its cells, whatever buffers they left behind; what a
\* stream may read it has, and the counts are those of its clients.  What was cut off and
\* came back (combase.c:227, 239), and an interface that was released while a stream carried it
\* (combase.c:547-564), are known not to be.
StreamsSound ==
  /\ Taken <= ArenaSize
  /\ \A s \in InUse("stream") : LET st == Stream(s) IN
       /\ st.size <= st.cap /\ st.reach <= st.cap /\ st.buf + st.cap <= Taken
       /\ pool["stream"][s].refs = clientRefs["stream"][s] + pool["stream"][s].lost
       /\ \A t \in InUse("stream") \ {s} :
            st.cap = 0 \/ Stream(t).cap = 0 \/ st.buf + st.cap <= Stream(t).buf \/ Stream(t).buf + Stream(t).cap <= st.buf
  /\ strayed \/ \A o \in DOMAIN pool["object"] : pool["object"][o].refs = clientRefs["object"][o]

-----------------------------------------------------------------------------
\* Strings.  `text' is the cell of the text, 0 for the caller's; `open' one that is being
\* filled (WindowsPreallocateStringBuffer).
StringSlot == FirstFree(pool, "string")

\* WindowsCreateString: the head is taken before it is known whether there is room for the
\* text.  The empty string has no head, and nothing is taken for it.
CreateString ==
  /\ MayAsk /\ StringSlot # 0
  /\ IF Fits(pool, 2)
     THEN /\ pool' = Take(WithNew(pool, "string", [text |-> Taken + 1, open |-> FALSE]), 2)
          /\ clientRefs' = Given(clientRefs, "string", StringSlot)
     ELSE Fits(pool, 1) /\ pool' = Take(pool, 1) /\ UNCHANGED clientRefs
  /\ UNCHANGED strayed

\* WindowsCreateStringReference: head and text are the caller's.
CreateStringReference == Create("string", [text |-> 0, open |-> FALSE])

\* WindowsDuplicateString: a reference is copied, any other string is counted.
Duplicate(h) ==
  IF pool["string"][h].is.text = 0 THEN CreateString ELSE HandOut("string", h)

\* WindowsSubstring: a part of a string is a new one.
Substring(h) == CreateString

\* WindowsDeleteString: a reference stays its caller's.
DeleteString(h) ==
  /\ pool' = [pool EXCEPT !["string"][h] =
                IF @.is.text = 0 THEN Vacancy ELSE [@ EXCEPT !.refs = @ - 1]]
  /\ clientRefs' = [clientRefs EXCEPT !["string"][h] = @ - 1]
  /\ UNCHANGED strayed

\* WindowsPreallocateStringBuffer, WindowsPromoteStringBuffer
Preallocate ==
  /\ MayAsk /\ StringSlot # 0
  /\ IF Fits(pool, 2)
     THEN /\ pool' = Take(WithNew(pool, "string", [text |-> Taken + 1, open |-> TRUE]), 2)
          /\ clientRefs' = Given(clientRefs, "string", StringSlot)
     ELSE Fits(pool, 1) /\ pool' = Take(pool, 1) /\ UNCHANGED clientRefs
  /\ UNCHANGED strayed
Promote(h) == Change("string", h, [pool["string"][h].is EXCEPT !.open = FALSE])

StringsNext ==
  \/ CreateString \/ CreateStringReference \/ Preallocate
  \/ \E h \in Held("string") :
       IF pool["string"][h].is.open THEN Promote(h)
       ELSE Duplicate(h) \/ Substring(h) \/ DeleteString(h)

\* Every string a client has is counted for it, and no two have the same text, so that
\* duplicates live as long as their last owner; only a reference depends on its caller.
StringsSound ==
  /\ ~strayed /\ Taken <= ArenaSize
  /\ \A h \in InUse("string") :
       /\ pool["string"][h].refs = clientRefs["string"][h]
       /\ pool["string"][h].is.text <= Taken
       /\ \A g \in InUse("string") \ {h} :
            pool["string"][h].is.text = 0 \/ pool["string"][h].is.text # pool["string"][g].is.text
=============================================================================
