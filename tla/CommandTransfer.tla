--------------------------- MODULE CommandTransfer ---------------------------
(***************************************************************************)
(* A ground station that sends commands to a robotic vehicle.  The station *)
(* repeats a COMMAND_LONG until it is acknowledged; nothing in the packets *)
(* tells one call from the next, or a first try from a repeated one.       *)
(***************************************************************************)
EXTENDS CommandGroundStation, CommandRoboticVehicle

CONSTANTS
  MaxDisturbed,   \* bound: cancellations and duplicated packets, and one for
                  \* a vehicle that sends IN_PROGRESS acks
  MaxOrphans      \* bound: timers nobody can remove when an IN_PROGRESS comes

ASSUME DisturbedAssumption == MaxDisturbed \in Nat /\ MaxOrphans \in Nat

vars == <<linkVars, stationVars, vehicleVars>>

Init == LinkInit /\ StationInit /\ VehicleInit

Network == Duplicate /\ UNCHANGED <<stationVars, vehicleVars>>
GroundStation == StationNext /\ UNCHANGED vehicleVars
RoboticVehicle == VehicleNext /\ UNCHANGED stationVars

Next ==
  /\ Network \/ GroundStation \/ RoboticVehicle
  /\ cancels' + duplicates' + (IF progress' THEN 1 ELSE 0) <= MaxDisturbed
  /\ Restarted => item.orphans <= MaxOrphans

Spec == Init /\ [][Next]_vars
FairSpec == Spec /\ StationFairness

TypeOK == LinkOK /\ StationOK /\ VehicleOK
-----------------------------------------------------------------------------
(***************************************************************************)
(* callback_and_reset(): the user is told a final result exactly once,     *)
(* whatever acks, timeouts and cancels come after it.                      *)
(***************************************************************************)
ReportedOnce == ReportsWhenDone(item)

(***************************************************************************)
(* process_command_ack() stops the timer and starts another: a command in  *)
(* progress still has a timer, so a vehicle that falls silent after an     *)
(* IN_PROGRESS cannot block the work queue.                                *)
(***************************************************************************)
NothingWedged == NeverWedged(item)

(***************************************************************************)
(* A call sends its command at most `retries` times, late timeouts         *)
(* included; twice as often if its timeout came before start(), which      *)
(* counts anew: a late IN_PROGRESS adds a timer to an item that waits in   *)
(* the queue.  Timeout is reported only after `retries` tries.             *)
(***************************************************************************)
RetriesRespected ==
  /\ item.sent <= IF item.early THEN 2 * Retries ELSE Retries
  /\ item.result = "Timeout" => item.sent >= Retries

(***************************************************************************)
(* A success comes with a final ack of the command that was sent.  If each *)
(* call before was a success at its first try, and the network duplicated  *)
(* nothing, it is the ack of this very call: without a sequence number in  *)
(* the packets process_command_ack() cannot know more.                     *)
(***************************************************************************)
SuccessIsForThisCall ==
  item.result = "Success" =>
    /\ item.answer # NoAck
    /\ item.answer.result = "Final"
    /\ item.answer.command = item.command
    /\ settled /\ duplicates = 0 => item.answer.call = calls

(***************************************************************************)
(* send_command() gives its callback a promise on its own stack, which     *)
(* command.h:52 calls "blocking" with the result of the request: the       *)
(* callback may run once, since with the first result send_command()       *)
(* returns and the promise is gone.                                        *)
(***************************************************************************)
PromiseSetOnce == ~(item.told /\ item.reports > 0)

(***************************************************************************)
(* Every call is answered and leaves the queue, even if the network loses  *)
(* every packet, unless IN_PROGRESS acks restart its timer for ever: a     *)
(* vehicle that goes on sending them keeps a call for as long as it likes. *)
(***************************************************************************)
CommandEnds == <>[][~Restarted]_<<linkVars, stationVars>> => (Alive(item) ~> ~Alive(item))

(***************************************************************************)
(* send_command_async() accepts a call when the last one was answered, and *)
(* gives it one final answer.                                              *)
(***************************************************************************)
StationCalls == INSTANCE OneShot WITH
  Answers <- Results, NoAnswer <- NoResult,
  phase <- IF item.done THEN "idle" ELSE "open", answer <- item.result

CommandIsOneShot == StationCalls!Spec
=============================================================================
