---------------------- MODULE InspectionRoboticVehicle ----------------------
(***************************************************************************)
(* The robotic vehicle: the two work items of                              *)
(* mavlink_inspection_transfer_robotic_vehicle.cpp, their work queue, and  *)
(* inspection_robotic_vehicle_impl.cpp, which begins a download when a     *)
(* COUNT comes and an upload when a REQUEST comes.                         *)
(***************************************************************************)
EXTENDS InspectionWork

CONSTANTS
  UserAcks,     \* what the user says of a list that was downloaded
  MaxOffers,    \* bound: calls of upload_inspection_async(), set_upload_inspection()
  MaxServed,    \* bound: uploads and downloads begun, one per packet that is not lost
  MaxHolds      \* bound: cancel_inspection_...() calls

ASSUME VehicleAssumption ==
  /\ UserAcks \subseteq AckTypes
  /\ MaxOffers \in Nat /\ MaxServed \in Nat /\ MaxHolds \in Nat

VARIABLES
  vup,         \* the UploadWorkItem
  vdown,       \* the DownloadWorkItem
  vline,       \* _work_queue
  offered,     \* _inspection_data.list
  ready,       \* which of upload_callback, download_callback are set
  owed,        \* successful downloads the user has not acknowledged
  offers,      \* how often the user has offered a list
  vuploads,    \* how many uploads were begun
  vdownloads,  \* how many downloads were begun
  holds        \* how often an item was taken to cancel it

userVars == <<offered, ready, offers>>
servedVars == <<vuploads, vdownloads, holds>>
vehicleVars == <<vup, vdown, vline, userVars, owed, servedVars>>

VehicleOK ==
  /\ vup \in Uploads /\ vdown \in Downloads
  /\ vline \in {<<>>, <<"up">>, <<"down">>, <<"up", "down">>, <<"down", "up">>}
  /\ vup.queued <=> \E i \in DOMAIN vline : vline[i] = "up"
  /\ vdown.queued <=> \E i \in DOMAIN vline : vline[i] = "down"
  /\ offered \in Lists
  /\ ready \in SUBSET {"up", "down"}
  /\ owed \in Nat
  /\ offers \in 0 .. MaxOffers
  /\ vuploads \in 0 .. MaxServed /\ vdownloads \in 0 .. MaxServed
  /\ holds \in 0 .. MaxHolds

VehicleInit ==
  /\ vup = NoUpload /\ vdown = NoDownload /\ vline = <<>>
  /\ offered = NoList /\ ready = {} /\ owed = 0
  /\ offers = 0 /\ vuploads = 0 /\ vdownloads = 0 /\ holds = 0

VehicleInFront(id) == vline # <<>> /\ Head(vline) = id

VUps(outcomes, link) ==
  /\ \E o \in outcomes : vup' = o.item /\ net' = Sent(link, o.out)
  /\ UNCHANGED <<duplicates, vdown, vline, userVars, owed, servedVars>>

\* The callback of a download that succeeds makes the user owe an ACK.
NewSuccess(s, t) == ~s.done /\ t.done /\ t.result.result = "Success"

VDowns(outcomes, link) ==
  /\ \E o \in outcomes : /\ vdown' = o.item
                         /\ net' = Sent(link, o.out)
                         /\ owed' = IF NewSuccess(vdown, o.item) THEN owed + 1 ELSE owed
  /\ UNCHANGED <<duplicates, vup, vline, userVars, servedVars>>
-----------------------------------------------------------------------------
(***************************************************************************)
(* The user's threads.                                                     *)
(***************************************************************************)
\* upload_inspection_async() sets the list and the callback.
Offer(l) ==
  /\ offers < MaxOffers
  /\ offers' = offers + 1
  /\ offered' = l
  /\ ready' = ready \cup {"up"}
  /\ UNCHANGED <<linkVars, vup, vdown, vline, owed, servedVars>>

\* set_upload_inspection() sets the list only.
SetList(l) ==
  /\ offers < MaxOffers
  /\ offers' = offers + 1
  /\ offered' = l
  /\ UNCHANGED <<linkVars, vup, vdown, vline, ready, owed, servedVars>>

\* download_inspection_async() sets the callback.
AcceptDownloads ==
  /\ ready' = ready \cup {"down"}
  /\ UNCHANGED <<linkVars, vup, vdown, vline, offered, owed, offers, servedVars>>

\* send_download_ack(), from the callback of a download that succeeded.
SendDownloadAck(a) ==
  /\ owed > 0
  /\ owed' = owed - 1
  /\ \E sent \in SendOutcomes : net' = Sent(net, IF sent THEN {Ack("station", a)} ELSE {})
  /\ UNCHANGED <<duplicates, vup, vdown, vline, userVars, servedVars>>

\* cancel_inspection_upload() and _download(), in two halves.
VehicleHoldUpload ==
  /\ holds < MaxHolds
  /\ CanHold(vup)
  /\ vup' = Held(vup)
  /\ holds' = holds + 1
  /\ UNCHANGED <<linkVars, vdown, vline, userVars, owed, vuploads, vdownloads>>

VehicleHoldDownload ==
  /\ holds < MaxHolds
  /\ CanHold(vdown)
  /\ vdown' = Held(vdown)
  /\ holds' = holds + 1
  /\ UNCHANGED <<linkVars, vup, vline, userVars, owed, vuploads, vdownloads>>

VehicleCancelUpload == vup.held /\ VUps(Cancelled(vup, "station"), net)
VehicleCancelDownload == vdown.held /\ VDowns(Cancelled(vdown, "station"), net)
-----------------------------------------------------------------------------
(***************************************************************************)
(* The system thread, in do_work().                                        *)
(***************************************************************************)
\* Bug variant: the timer is added for the first COUNT of a filled list only.
VehicleStartUploadUntimed ==
  /\ VehicleInFront("up") /\ CanStart(vup)
  /\ LET s == [vup EXCEPT !.started = TRUE, !.retries = 0, !.step = "SendCount", !.hears = {"ACK"}] IN
     CASE vup.list.items = <<>> -> VUps(SendCount(s, "station"), net)
       [] ~Numbered(vup.list) -> VUps(Quietly(Report(s, "InvalidSequence")), net)
       [] OTHER -> VUps(SendCount(AddTimeout([s EXCEPT !.next = 0, !.hears = {"ACK", "READ"}]),
                                  "station"),
                        net)

\* UploadWorkItem::start(): the timer is added before anything can fail; an
\* empty list has no handler for READs.
VehicleStartUpload ==
  /\ VehicleInFront("up") /\ CanStart(vup)
  /\ LET s == AddTimeout([vup EXCEPT !.started = TRUE, !.retries = 0,
                                     !.step = "SendCount", !.hears = {"ACK"}]) IN
     CASE vup.list.items = <<>> -> VUps(SendCount(s, "station"), net)
       [] ~Numbered(vup.list) -> VUps(Quietly(Report(s, "InvalidSequence")), net)
       [] OTHER -> VUps(SendCount([s EXCEPT !.next = 0, !.hears = {"ACK", "READ"}], "station"),
                        net)

\* Bug variant: an empty list is not reported.
VehicleStartDownloadSilently ==
  /\ VehicleInFront("down") /\ CanStart(vdown)
  /\ LET s == [vdown EXCEPT !.started = TRUE, !.hears = {"ITEM"}] IN
     IF s.expected = 0
     THEN VDowns(Quietly(s), net)
     ELSE VDowns(RequestItem(AddTimeout([s EXCEPT !.got.items = <<>>, !.retries = 0, !.next = 0]),
                             "station"),
                 net)

\* DownloadWorkItem::start()
VehicleStartDownload ==
  /\ VehicleInFront("down") /\ CanStart(vdown)
  /\ LET s == [vdown EXCEPT !.started = TRUE, !.hears = {"ITEM"}] IN
     IF s.expected = 0
     THEN VDowns(Quietly(Report(s, "Success")), net)
     ELSE VDowns(RequestItem(AddTimeout([s EXCEPT !.got.items = <<>>, !.retries = 0, !.next = 0]),
                             "station"),
                 net)

VehiclePopUpload ==
  /\ VehicleInFront("up") /\ CanPop(vup)
  /\ vup' = Popped(vup)
  /\ vline' = Tail(vline)
  /\ UNCHANGED <<linkVars, vdown, userVars, owed, servedVars>>

VehiclePopDownload ==
  /\ VehicleInFront("down") /\ CanPop(vdown)
  /\ vdown' = Popped(vdown)
  /\ vline' = Tail(vline)
  /\ UNCHANGED <<linkVars, vup, userVars, owed, servedVars>>
-----------------------------------------------------------------------------
(***************************************************************************)
(* The receive thread.                                                     *)
(***************************************************************************)
\* Bug variant: a REQUEST begins a new upload whatever the old one does.
VehicleRequestWithoutBusy ==
  /\ UnderWay(Request)
  /\ net' = Without(Request)
  /\ IF "up" \in ready /\ vuploads + vdownloads < MaxServed
     THEN /\ vup' = [Fresh(NoUpload, vup, {}) EXCEPT !.list = offered]
          /\ vline' = IF vup.queued THEN vline ELSE Append(vline, "up")
          /\ vuploads' = vuploads + 1
     ELSE UNCHANGED <<vup, vline, vuploads>>
  /\ UNCHANGED <<duplicates, vdown, userVars, owed, vdownloads, holds>>

\* upload_inspection(): without a callback the REQUEST is ignored, with an
\* upload alive the user is told Busy.
VehicleRequest ==
  /\ UnderWay(Request)
  /\ net' = Without(Request)
  /\ IF "up" \in ready /\ ~Alive(vup) /\ vuploads + vdownloads < MaxServed
     THEN /\ vup' = [Fresh(NoUpload, vup, {}) EXCEPT !.list = offered]
          /\ vline' = Append(vline, "up")
          /\ vuploads' = vuploads + 1
     ELSE UNCHANGED <<vup, vline, vuploads>>
  /\ UNCHANGED <<duplicates, vdown, userVars, owed, vdownloads, holds>>

\* download_inspection(): the callback of the item keeps the COUNT's plan.
VehicleCount(p, n) ==
  LET m == Count("vehicle", p, n) IN
  /\ UnderWay(m)
  /\ net' = Without(m)
  /\ IF "down" \in ready /\ ~Alive(vdown) /\ vuploads + vdownloads < MaxServed
     THEN /\ vdown' = [Fresh(NoDownload, vdown, {}) EXCEPT !.expected = n, !.got.plan = p]
          /\ vline' = Append(vline, "down")
          /\ vdownloads' = vdownloads + 1
     ELSE UNCHANGED <<vdown, vline, vdownloads>>
  /\ UNCHANGED <<duplicates, vup, userVars, owed, vuploads, holds>>

VehicleRead(i) ==
  LET m == Read("vehicle", i) IN
  Hears(vup, m) /\ VUps(Serve(vup, i, "station"), Without(m))

VehicleAck(a) ==
  LET m == Ack("vehicle", a) IN
  Hears(vup, m) /\ VUps(Acknowledged(vup, a), Without(m))

VehicleItem(i, w) ==
  LET m == Item("vehicle", i, w) IN
  Hears(vdown, m) /\ VDowns(Collect(vdown, m, "station"), Without(m))
-----------------------------------------------------------------------------
(***************************************************************************)
(* The work thread.                                                        *)
(***************************************************************************)
VehicleExpireUpload == \E s \in Expired(vup) : VUps(Quietly(s), net)
VehicleExpireDownload == \E s \in Expired(vdown) : VDowns(Quietly(s), net)

\* UploadWorkItem::process_timeout(): the vehicle does not send again.
VehicleTimeoutUpload ==
  /\ vup.firing
  /\ VUps(Quietly(Report([vup EXCEPT !.firing = FALSE], "Timeout")), net)

\* DownloadWorkItem::process_timeout()
VehicleTimeoutDownload ==
  /\ vdown.firing
  /\ LET s == [vdown EXCEPT !.firing = FALSE] IN
     IF vdown.retries >= Retries
     THEN VDowns(Quietly(Report(s, "Timeout")), net)
     ELSE VDowns(RequestItem(AddTimeout([s EXCEPT !.resent = TRUE]), "station"), net)
-----------------------------------------------------------------------------
VehicleReceive ==
  \/ VehicleRequest
  \/ \E p \in Plans, n \in SeqNumbers : VehicleCount(p, n)
  \/ \E i \in SeqNumbers : VehicleRead(i) \/ \E w \in Names : VehicleItem(i, w)
  \/ \E a \in AckTypes : VehicleAck(a)

VehicleDoWork ==
  VehicleStartUpload \/ VehicleStartDownload \/ VehiclePopUpload \/ VehiclePopDownload
VehicleRunOnce ==
  \/ VehicleExpireUpload \/ VehicleExpireDownload
  \/ VehicleTimeoutUpload \/ VehicleTimeoutDownload
VehicleCancel == VehicleCancelUpload \/ VehicleCancelDownload

VehicleNext ==
  \/ AcceptDownloads \/ \E l \in Lists : Offer(l) \/ SetList(l)
  \/ \E a \in UserAcks : SendDownloadAck(a)
  \/ VehicleHoldUpload \/ VehicleHoldDownload \/ VehicleCancel
  \/ VehicleDoWork \/ VehicleRunOnce \/ VehicleReceive

\* As on the ground station.
VehicleFairness ==
  /\ WF_vehicleVars(VehicleDoWork)
  /\ WF_vehicleVars(VehicleRunOnce)
  /\ WF_vehicleVars(VehicleCancel)
=============================================================================
