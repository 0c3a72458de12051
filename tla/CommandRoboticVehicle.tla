----------------------- MODULE CommandRoboticVehicle -----------------------
(***************************************************************************)
(* The vehicle's side of a command: command_robotic_vehicle_impl.cpp.  The *)
(* receive thread puts each COMMAND_LONG into the queue of user callbacks; *)
(* the callback thread runs the subscribed callback, which answers with    *)
(* send_ack(): some IN_PROGRESS, then one other result.                    *)
(***************************************************************************)
EXTENDS CommandLink, Sequences, FiniteSets

CONSTANTS
  MaxInbox,      \* bound: COMMAND_LONGs in the queue; the others wait in the network
  MaxProgress    \* bound: IN_PROGRESS acks under way at a time, one of a call

ASSUME ProgressAssumption == MaxInbox \in Nat /\ MaxProgress \in Nat

VARIABLES
  subscribed,  \* command_callback is not null
  inbox,       \* the user callbacks that wait or run, the first one running
  progress     \* an IN_PROGRESS ack was sent (history)

vehicleVars == <<subscribed, inbox, progress>>

VehicleOK ==
  /\ subscribed \in BOOLEAN
  /\ inbox \in Seq(Orders)
  /\ progress \in BOOLEAN

VehicleInit == subscribed = FALSE /\ inbox = <<>> /\ progress = FALSE
-----------------------------------------------------------------------------
\* subscribe_command()
Subscribe ==
  /\ ~subscribed
  /\ subscribed' = TRUE
  /\ UNCHANGED <<linkVars, inbox, progress>>

\* process_command(): dropped without a subscription.
ProcessCommand(o) ==
  /\ UnderWay(o)
  /\ Len(inbox) < MaxInbox
  /\ net' = Without(o)
  /\ inbox' = IF subscribed THEN Append(inbox, o) ELSE inbox
  /\ UNCHANGED <<duplicates, subscribed, progress>>

\* send_ack(): an error is only logged.
SendAck(ack) ==
  \E sent \in SendOutcomes : net' = IF sent THEN With(net, ack) ELSE net

\* The callback tells that it goes on with the command, as often as it likes ...
Progress ==
  /\ inbox # <<>>
  /\ ~UnderWay(AckOf(Head(inbox), "InProgress"))
  /\ Cardinality({ack \in Acks : ack.result = "InProgress" /\ UnderWay(ack)}) < MaxProgress
  /\ progress' = TRUE
  /\ SendAck(AckOf(Head(inbox), "InProgress"))
  /\ UNCHANGED <<duplicates, subscribed, inbox>>

\* Bug variant: the answer goes out twice.
AnswerTwice ==
  /\ inbox # <<>>
  /\ inbox' = Tail(inbox)
  /\ net' = With(With(net, AckOf(Head(inbox), "Final")), AckOf(Head(inbox), "Final"))
  /\ UNCHANGED <<duplicates, subscribed, progress>>

\* ... or answers it and returns.
Answer ==
  /\ inbox # <<>>
  /\ inbox' = Tail(inbox)
  /\ SendAck(AckOf(Head(inbox), "Final"))
  /\ UNCHANGED <<duplicates, subscribed, progress>>
-----------------------------------------------------------------------------
VehicleNext ==
  \/ Subscribe
  \/ \E o \in Orders : ProcessCommand(o)
  \/ Progress \/ Answer
=============================================================================
