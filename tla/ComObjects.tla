---------------------------- MODULE ComObjects ----------------------------
(***************************************************************************)
(* The objects of the COM libraries (dll/win32).  Each library keeps the     *)
(* objects of a class in a static pool: creation takes the first entry that  *)
(* is not used, AddRef and QueryInterface count, and the Release that counts  *)
(* down to zero gives the entry back.  Nothing is safe against two threads,    *)
(* and nothing here is: a call is a step.                                      *)
(*                                                                          *)
(* A client follows the rules of COM: it releases each reference it was given, *)
(* once, and calls only objects it has a reference to.                          *)
(***************************************************************************)
EXTENDS Integers, Sequences, FiniteSets, FiniteSetsExt

CONSTANTS
  Slots,         \* the entries of the pool of each class
  MaxRefs        \* bound: references that clients hold when they ask for another

VARIABLES
  pool,          \* the entries: used, refs (refCount), lost (ghost: references that
                 \* nobody will give back), is (what the library keeps there)
  clientRefs,          \* ghost: references the clients hold
  strayed        \* ghost: a client was given what it has no right to, or lost what it had;
                 \* nothing is followed after that

comVars == <<pool, clientRefs, strayed>>

Class == DOMAIN Slots
Vacancy == [used |-> FALSE, refs |-> 0, lost |-> 0, is |-> 0]

ComInit ==
  /\ pool = [c \in Class |-> [i \in 1..Slots[c] |-> Vacancy]]
  /\ clientRefs = [c \in Class |-> [i \in 1..Slots[c] |-> 0]]
  /\ strayed = FALSE

Held(c) == {i \in DOMAIN clientRefs[c] : clientRefs[c][i] > 0}
InUse(c) == {i \in DOMAIN pool[c] : pool[c][i].used}

\* Clients may still ask for a reference.
MayAsk == MapThenSumSet(LAMBDA c : MapThenSumSet(LAMBDA i : clientRefs[c][i], 1..Slots[c]), Class) < MaxRefs

\* The first entry of class c in p that is not used, 0 when all are.
FirstFree(p, c) ==
  LET free == {i \in DOMAIN p[c] : ~p[c][i].used} IN IF free = {} THEN 0 ELSE Min(free)

\* The pools once the first free entry of class c is taken, if there is one.
WithNew(p, c, is) ==
  LET i == FirstFree(p, c) IN
  IF i = 0 THEN p ELSE [p EXCEPT ![c][i] = [used |-> TRUE, refs |-> 1, lost |-> 0, is |-> is]]

\* The pools and the references with one more to entry i of class c.
Counted(p, c, i) == IF i = 0 THEN p ELSE [p EXCEPT ![c][i].refs = @ + 1]
Given(h, c, i) == IF i = 0 THEN h ELSE [h EXCEPT ![c][i] = @ + 1]

\* MUTANT of Uncounted: the entry is not given back.
UncountedKept(p, c, i) == [p EXCEPT ![c][i].refs = IF @ <= 1 THEN 0 ELSE @ - 1]

\* The pools with one reference less to entry i of class c: refCount stops at zero, and
\* what a free entry still holds is not looked at.
Uncounted(p, c, i) ==
  IF p[c][i].refs <= 1 THEN [p EXCEPT ![c][i] = Vacancy] ELSE [p EXCEPT ![c][i].refs = @ - 1]

-----------------------------------------------------------------------------
\* A method that creates an object of class c, or answers E_OUTOFMEMORY.
Create(c, is) ==
  /\ MayAsk /\ FirstFree(pool, c) # 0
  /\ pool' = WithNew(pool, c, is)
  /\ clientRefs' = Given(clientRefs, c, FirstFree(pool, c))
  /\ UNCHANGED strayed

\* A method that hands out an object there is, counted; it may be one that was given back.
HandOut(c, i) ==
  /\ MayAsk
  /\ pool' = Counted(pool, c, i)
  /\ clientRefs' = Given(clientRefs, c, i)
  /\ strayed' = ~pool[c][i].used

\* A method that hands out an object and does not count the reference.
HandOutUncounted(c, i) ==
  /\ MayAsk /\ pool' = pool /\ clientRefs' = Given(clientRefs, c, i)
  /\ strayed' = TRUE

AddRef(c, i) == i \in Held(c) /\ HandOut(c, i)

Release(c, i) ==
  /\ clientRefs[c][i] > 0
  /\ pool' = Uncounted(pool, c, i)
  /\ clientRefs' = [clientRefs EXCEPT ![c][i] = @ - 1]
  /\ UNCHANGED strayed

\* IUnknown of a class.
Unknown(c) == \E i \in Held(c) : AddRef(c, i) \/ Release(c, i)

\* A method that changes what an object keeps.
Change(c, i, is) ==
  /\ i \in Held(c)
  /\ pool' = [pool EXCEPT ![c][i].is = is]
  /\ UNCHANGED <<clientRefs, strayed>>

-----------------------------------------------------------------------------
ComTypeOK ==
  /\ DOMAIN pool = Class /\ DOMAIN clientRefs = Class /\ strayed \in BOOLEAN
  /\ \A c \in Class : /\ DOMAIN pool[c] = 1..Slots[c] /\ clientRefs[c] \in [1..Slots[c] -> Nat]
                      /\ \A i \in 1..Slots[c] : pool[c][i].refs \in Nat

\* An entry is in use exactly while references to it are out, and counts them: those of the
\* clients, those of other objects (Inner), and those that are lost.  So no client's object
\* is given to another, and what every client gave back is free again.
CountsSound(Inner(_, _)) ==
  strayed \/ \A c \in Class : \A i \in DOMAIN pool[c] :
    /\ pool[c][i].used <=> pool[c][i].refs > 0
    /\ pool[c][i].refs = clientRefs[c][i] + pool[c][i].lost + Inner(c, i)
=============================================================================
