---------------------------- MODULE ListTransfer ----------------------------
(***************************************************************************)
(* A ground station and a robotic vehicle that transfer a list: the        *)
(* station asks for the list (REQUEST), the vehicle answers with its       *)
(* length (COUNT), the station reads the items one by one (READ, ITEM) and *)
(* acknowledges (ACK).  Only the station repeats packets.                  *)
(***************************************************************************)
EXTENDS ListGroundStation, ListRoboticVehicle

CONSTANTS
  MaxDisturbed,   \* bound: cancellations by the vehicle and duplicated packets
  MaxAgain        \* bound: downloads and uploads that are not the first

ASSUME BothSidesAssumption == MaxDisturbed \in Nat /\ MaxAgain \in Nat

vars == <<linkVars, gsVars, rvVars>>

Init == LinkInit /\ GSInit /\ RVInit

Network == Duplicate /\ UNCHANGED <<gsVars, rvVars>>
GroundStation == GSNext /\ UNCHANGED rvVars
RoboticVehicle == RVNext /\ UNCHANGED gsVars

Again(n) == IF n > 1 THEN n - 1 ELSE 0

Next ==
  /\ Network \/ GroundStation \/ RoboticVehicle
  /\ rvCancels' + duplicates' <= MaxDisturbed
  /\ Again(downloads') + Again(uploads') <= MaxAgain

Spec == Init /\ [][Next]_vars
FairSpec == Spec /\ GSFairness /\ RVFairness

TypeOK == LinkOK /\ GSOK /\ RVOK
-----------------------------------------------------------------------------
(***************************************************************************)
(* callback_and_reset(): on both sides an item has called its callback     *)
(* exactly once if it is done and not at all before, whatever late         *)
(* packets, timeouts and cancels it sees after it is done.                 *)
(***************************************************************************)
ReportedOnce == ReportsWhenDone(gs) /\ ReportsWhenDone(rv)

(***************************************************************************)
(* A started item that is not done has a timer running or a timeout        *)
(* callback on its way: the front of the work queue, which do_work() pops  *)
(* only when it is done, cannot block the queue for ever.                  *)
(***************************************************************************)
NothingWedged == NeverWedged(gs) /\ NeverWedged(rv)

(***************************************************************************)
(* No packet is repeated more than `retries` times without an answer.      *)
(***************************************************************************)
RetriesRespected == RetriesBounded(gs) /\ RetriesBounded(rv)

(***************************************************************************)
(* The vehicle reports Success only when it has sent every item of the     *)
(* list, although READs come in any order and go back.                     *)
(***************************************************************************)
SentSoFar(s) ==
  /\ s.next <= Len(s.items)
  /\ ~s.done => \A i \in 0 .. s.next - 1 : i \in s.sent

AllSent(s) == \A i \in DOMAIN s.items : i - 1 \in s.sent

SuccessMeansAllSent == rv.result.result = "Success" => AllSent(rv)

(***************************************************************************)
(* While nothing was repeated, by the station or by the network, since the *)
(* first download began, a successful download is the vehicle's list in    *)
(* its order: requests and answers alternate.  The exception is a list of  *)
(* SeqRange entries: its COUNT says 0, and the station ends with an empty  *)
(* list and a Success.                                                     *)
(***************************************************************************)
NothingRepeated == downloads = 1 /\ duplicates = 0 /\ ~gs.resent

SameList(list, items) ==
  IF Len(items) = SeqRange
  THEN list = <<>>
  ELSE /\ Len(list) = Len(items)
       /\ \A i \in DOMAIN list : list[i] = [index |-> i - 1, name |-> items[i].name]

SuccessWithoutRepeatsIsExact ==
  NothingRepeated /\ gs.result = "Success" => SameList(gs.list, rv.items)

(***************************************************************************)
(* alarm.h:57 "Download a list of alarm items from the system": a download *)
(* that succeeds has the items of the vehicle, each one once.              *)
(***************************************************************************)
DownloadIsTheList ==
  gs.result = "Success" => \A i \in DOMAIN gs.list : gs.list[i].index = i - 1

(***************************************************************************)
(* Every download and every upload is answered and leaves the queue, even  *)
(* if the network loses every packet.                                      *)
(***************************************************************************)
DownloadEnds == gs.queued ~> ~gs.queued
UploadEnds == rv.queued ~> ~rv.queued

(***************************************************************************)
(* The plugins' view: download_..._async() and upload_..._async() accept a *)
(* call when the last one was answered, and answer once.                   *)
(***************************************************************************)
GSCalls == INSTANCE OneShot WITH
  Answers <- Results, NoAnswer <- NoResult,
  calls <- downloads, phase <- IF gs.done THEN "idle" ELSE "open", answer <- gs.result

RVCalls == INSTANCE OneShot WITH
  Answers <- Outcomes, NoAnswer <- NoOutcome,
  calls <- uploads, phase <- IF rv.done THEN "idle" ELSE "open", answer <- rv.result

DownloadIsOneShot == GSCalls!Spec
UploadIsOneShot == RVCalls!Spec
=============================================================================
