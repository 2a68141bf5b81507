---------------------------- MODULE MCDelivery ----------------------------
(***************************************************************************)
(* What is handed from one party to the next, for TLC: the requests on a     *)
(* stack of drivers, the messages of the windows, and the windows over a     *)
(* queue so short that it fills up.  They share no state; `chain' is the one *)
(* that runs, the others are at rest.                                       *)
(***************************************************************************)
EXTENDS IrpStack, Desktop

CONSTANTS
  Carrier,       \* the chains of delivery to explore
  LoopCap        \* MSG_QUEUE_CAP where the queue runs without the desktop

VARIABLE chain

\* A routine for every outcome, for success only, for failure and cancellation.
MCInvokes == {{"success", "error", "cancel"}, {"success"}, {"error", "cancel"}}

allVars == <<chain, vars, mqVars, dtVars>>

DeliveryInit ==
  /\ chain \in Carrier
  /\ Init /\ (chain # "requests" => deaf = {})
  /\ DtInit(IF chain = "messages" THEN LoopCap ELSE DesktopCap)

DeliveryNext ==
  /\ UNCHANGED chain
  /\ \/ chain = "requests" /\ Next /\ UNCHANGED <<mqVars, dtVars>>
     \/ chain = "messages" /\ MqNext /\ UNCHANGED <<vars, dtVars>>
     \/ chain = "desktop" /\ DtNext /\ UNCHANGED vars

\* The fairness of each alone: the request goes on, the program asks for messages and
\* the clock ticks while the processor is halted.
DeliverySpec ==
  /\ DeliveryInit /\ [][DeliveryNext]_allVars
  /\ WF_vars(chain = "requests" /\ Progress /\ UNCHANGED <<chain, mqVars, dtVars>>)
  /\ WF_mqVars(chain = "messages" /\ MqPump /\ UNCHANGED <<chain, vars, dtVars>>)
  /\ WF_mqVars(chain = "messages" /\ ClockTick /\ UNCHANGED <<chain, vars, dtVars>>)

\* The loop of messages ends, where it runs under its own fairness.
LoopEnds == chain = "messages" => QuitEndsLoop
=============================================================================
