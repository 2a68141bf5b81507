--------------------------- MODULE CompletionChain ---------------------------
(***************************************************************************)
(* What the completion of an I/O request promises to those who sent it     *)
(* down: the routines they registered form a chain; completion takes them  *)
(* off in the opposite order, runs a routine once for the party that       *)
(* registered it, and only if it asked for this outcome, and ends when     *)
(* the chain is empty.  A routine may keep the request: its party has it   *)
(* again, may send it down once more, and completes it from where it was.  *)
(***************************************************************************)
EXTENDS Sequences, SequencesExt

CONSTANTS
  Party,         \* those who may register a routine
  Nobody

VARIABLES
  chain,         \* registered routines not reached yet, the next one last
  running,       \* the party whose routine runs, or Nobody
  phase,         \* "idle", "down", "up"
  status,        \* the outcome: "success" or "error"
  cancel         \* somebody asked to cancel

chainVars == <<chain, running, phase, status, cancel>>

Outcome == {"success", "error"}

Condition == {"success", "error", "cancel"}

\* A routine runs when it asked for the outcome, or for cancelled requests.
Wanted(control) == status \in control \/ (cancel /\ "cancel" \in control)

Init ==
  /\ chain = <<>> /\ running = Nobody /\ phase = "idle"
  /\ status = "success" /\ cancel = FALSE

Send ==
  /\ phase = "idle" /\ phase' = "down"
  /\ chain' = <<>> /\ status' = "success" /\ cancel' = FALSE
  /\ UNCHANGED running

\* A party passes the request on, with a routine or without; the next one may
\* refuse it at once.
PassDown(registered) ==
  /\ phase = "down" /\ running = Nobody
  /\ chain' = chain \o registered
  /\ status' \in {status, "error"}
  /\ UNCHANGED <<running, phase, cancel>>

Complete(s) ==
  /\ phase = "down" /\ phase' = "up"
  /\ status' = s
  /\ UNCHANGED <<chain, running, cancel>>

PassOver ==
  /\ phase = "up" /\ running = Nobody
  /\ chain # <<>> /\ ~Wanted(Last(chain).control)
  /\ chain' = Front(chain)
  /\ UNCHANGED <<running, phase, status, cancel>>

Run ==
  /\ phase = "up" /\ running = Nobody
  /\ chain # <<>> /\ Wanted(Last(chain).control)
  /\ chain' = Front(chain) /\ running' = Last(chain).party
  /\ UNCHANGED <<phase, status, cancel>>

\* The routine ends, and completion goes on or the party keeps the request.
RoutineEnds ==
  /\ running # Nobody /\ running' = Nobody
  /\ phase' \in {"up", "down"}
  /\ UNCHANGED <<chain, status, cancel>>

End ==
  /\ phase = "up" /\ running = Nobody /\ chain = <<>>
  /\ phase' = "idle"
  /\ UNCHANGED <<chain, running, status, cancel>>

\* The request comes back uncompleted, or its sender keeps it for good.
Abandon ==
  /\ phase = "down" /\ phase' = "idle"
  /\ status' \in Outcome
  /\ UNCHANGED <<chain, running, cancel>>

\* The sender cancels at any time: the outcome becomes an error.
Cancel ==
  /\ cancel' = TRUE /\ status' = "error"
  /\ UNCHANGED <<chain, running, phase>>

Next ==
  \/ Send \/ PassOver \/ Run \/ RoutineEnds \/ End \/ Abandon \/ Cancel
  \/ PassDown(<<>>)
  \/ \E p \in Party, control \in SUBSET Condition :
        PassDown(<<[party |-> p, control |-> control]>>)
  \/ \E s \in Outcome : Complete(s)

Spec == Init /\ [][Next]_chainVars
=============================================================================
