------------------------- MODULE InspectionTransfer -------------------------
(***************************************************************************)
(* A ground station and a robotic vehicle that transfer waypoint lists in  *)
(* both directions over one link.  An upload by either side: COUNT, then   *)
(* READ and ITEM for each waypoint, then ACK; the station begins one by    *)
(* itself, the vehicle when a REQUEST comes.  The two directions use the   *)
(* same messages and, on each side, one work queue.                        *)
(***************************************************************************)
EXTENDS InspectionGroundStation, InspectionRoboticVehicle

CONSTANTS
  MaxGiven,       \* bound: lists the users of both sides give to be uploaded
  MaxDisturbed    \* bound: cancellations by both sides, duplicated packets and
                  \* calls of the station that are not the first of their kind

ASSUME BothSidesAssumption == MaxGiven \in Nat /\ MaxDisturbed \in Nat

vars == <<linkVars, stationVars, vehicleVars>>

Init == LinkInit /\ StationInit /\ VehicleInit

Network == Duplicate /\ UNCHANGED <<stationVars, vehicleVars>>
GroundStation == StationNext /\ UNCHANGED vehicleVars
RoboticVehicle == VehicleNext /\ UNCHANGED stationVars

Again(n) == IF n > 1 THEN n - 1 ELSE 0

Next ==
  /\ Network \/ GroundStation \/ RoboticVehicle
  /\ uploads' + offers' <= MaxGiven
  /\ cancels' + holds' + duplicates' + Again(uploads') + Again(downloads')
       <= MaxDisturbed

Spec == Init /\ [][Next]_vars
FairSpec == Spec /\ StationFairness /\ VehicleFairness

TypeOK == LinkOK /\ StationOK /\ VehicleOK
-----------------------------------------------------------------------------
(***************************************************************************)
(* callback_and_reset(): each of the four items has called its callback    *)
(* exactly once if it is done and never before, although an item hears the *)
(* packets of transfers before it and of the other direction.              *)
(***************************************************************************)
ReportedOnce ==
  /\ ReportsWhenDone(up) /\ ReportsWhenDone(down)
  /\ ReportsWhenDone(vup) /\ ReportsWhenDone(vdown)

(***************************************************************************)
(* A started item that is not done has a timer or a timeout callback on    *)
(* its way.  Both directions wait behind it in the queue.                  *)
(***************************************************************************)
NothingWedged ==
  NeverWedged(up) /\ NeverWedged(down) /\ NeverWedged(vup) /\ NeverWedged(vdown)

(***************************************************************************)
(* No packet is repeated more than `retries` times without an answer.      *)
(***************************************************************************)
RetriesRespected ==
  /\ RetriesBounded(up) /\ RetriesBounded(down)
  /\ RetriesBounded(vup) /\ RetriesBounded(vdown)

(***************************************************************************)
(* An upload is a Success only if every waypoint was sent, although READs  *)
(* go back and an ACK may be one for the other direction.                  *)
(***************************************************************************)
AllSent(s) == \A i \in DOMAIN s.list.items : i - 1 \in s.sent

SuccessMeansAllSent ==
  /\ up.result.result = "Success" => AllSent(up)
  /\ vup.result.result = "Success" => AllSent(vup)

(***************************************************************************)
(* While nothing is repeated, by a timeout or by the network, the first    *)
(* upload that the vehicle's user accepts is what that user was given, and *)
(* the first list the station downloads is the vehicle's: in order, each   *)
(* waypoint once, under the plan it was sent with.  A list of SeqRange     *)
(* waypoints, whose COUNT says 0, is downloaded as an empty one.           *)
(***************************************************************************)
SameList(got, list) ==
  \/ /\ got.plan = list.plan
     /\ Len(got.items) = Len(list.items)
     /\ \A i \in DOMAIN got.items : got.items[i] = [seq |-> i - 1, name |-> list.items[i]]
  \/ Len(list.items) \in {0, SeqRange} /\ got.items = <<>>

NothingRepeated ==
  /\ duplicates = 0
  /\ ~up.resent /\ ~down.resent /\ ~vup.resent /\ ~vdown.resent

AcceptedMeansDelivered ==
  NothingRepeated /\ uploads = 1 /\ up.result = [result |-> "Success", got |-> "Accepted"]
    => /\ vdown.result.result = "Success"
       /\ SameList(vdown.result.got, up.list)

DownloadIsExact ==
  NothingRepeated /\ downloads = 1 /\ down.result.result = "Success"
    => SameList(down.result.got, vup.list)

(***************************************************************************)
(* Every transfer is answered, leaves the queue and makes way for the next *)
(* call, in both directions and even if the network loses every packet:    *)
(* when the users stop calling, the work queues of both sides run empty.   *)
(***************************************************************************)
StationTransfersEnd == (Alive(up) \/ Alive(down)) ~> ~(Alive(up) \/ Alive(down))
VehicleTransfersEnd == (Alive(vup) \/ Alive(vdown)) ~> ~(Alive(vup) \/ Alive(vdown))

(***************************************************************************)
(* The plugins' view of the four kinds of call (see OneShot).              *)
(***************************************************************************)
Phase(s) == IF s.done THEN "idle" ELSE "open"
UploadAnswers == [result : Results, got : Acks]
DownloadAnswers == [result : Results, got : Gathered]
NoUploadAnswer == NoUpload.result
NoDownloadAnswer == NoDownload.result

UpCalls == INSTANCE OneShot WITH
  Answers <- UploadAnswers, NoAnswer <- NoUploadAnswer,
  calls <- uploads, phase <- Phase(up), answer <- up.result
DownCalls == INSTANCE OneShot WITH
  Answers <- DownloadAnswers, NoAnswer <- NoDownloadAnswer,
  calls <- downloads, phase <- Phase(down), answer <- down.result
VehicleUpCalls == INSTANCE OneShot WITH
  Answers <- UploadAnswers, NoAnswer <- NoUploadAnswer,
  calls <- vuploads, phase <- Phase(vup), answer <- vup.result
VehicleDownCalls == INSTANCE OneShot WITH
  Answers <- DownloadAnswers, NoAnswer <- NoDownloadAnswer,
  calls <- vdownloads, phase <- Phase(vdown), answer <- vdown.result

StationCallsAreOneShot == UpCalls!Spec /\ DownCalls!Spec
VehicleCallsAreOneShot == VehicleUpCalls!Spec /\ VehicleDownCalls!Spec
=============================================================================
