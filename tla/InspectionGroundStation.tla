----------------------- MODULE InspectionGroundStation -----------------------
(***************************************************************************)
(* The ground station: the two work items of                               *)
(* mavlink_inspection_transfer_ground_station.cpp, their work queue, and   *)
(* the operations of inspection_impl.cpp that create and cancel them.      *)
(***************************************************************************)
EXTENDS InspectionWork

CONSTANTS
  MaxUploads,     \* bound: uploads the station's user asks for
  MaxDownloads,   \* bound: downloads
  MaxTransfers,   \* bound: both together
  MaxCancels      \* bound: cancel_inspection_...() calls

ASSUME StationAssumption ==
  MaxUploads \in Nat /\ MaxDownloads \in Nat /\ MaxTransfers \in Nat /\ MaxCancels \in Nat

VARIABLES
  up,         \* the UploadWorkItem
  down,       \* the DownloadWorkItem
  line,       \* _work_queue: which of the two, in order
  uploads,    \* how many uploads were begun
  downloads,  \* how many downloads were begun
  cancels     \* how often an item was taken to cancel it

callVars == <<uploads, downloads, cancels>>
stationVars == <<up, down, line, callVars>>

StationOK ==
  /\ up \in Uploads /\ down \in Downloads
  /\ line \in {<<>>, <<"up">>, <<"down">>, <<"up", "down">>, <<"down", "up">>}
  /\ up.queued <=> \E i \in DOMAIN line : line[i] = "up"
  /\ down.queued <=> \E i \in DOMAIN line : line[i] = "down"
  /\ uploads \in 0 .. MaxUploads /\ downloads \in 0 .. MaxDownloads
  /\ cancels \in 0 .. MaxCancels

StationInit ==
  /\ up = NoUpload /\ down = NoDownload /\ line = <<>>
  /\ uploads = 0 /\ downloads = 0 /\ cancels = 0

InFront(id) == line # <<>> /\ Head(line) = id

\* One of the two items takes a step, with the packets `link` so far.
Ups(outcomes, link) ==
  /\ \E o \in outcomes : up' = o.item /\ net' = Sent(link, o.out)
  /\ UNCHANGED <<duplicates, down, line, callVars>>

Downs(outcomes, link) ==
  /\ \E o \in outcomes : down' = o.item /\ net' = Sent(link, o.out)
  /\ UNCHANGED <<duplicates, up, line, callVars>>
-----------------------------------------------------------------------------
(***************************************************************************)
(* The user's threads.                                                     *)
(***************************************************************************)
\* Bug variant: no Busy check.
UploadWithoutBusy(l) ==
  /\ uploads < MaxUploads /\ uploads + downloads < MaxTransfers
  /\ uploads' = uploads + 1
  /\ up' = [Fresh(NoUpload, up, {"READ", "ACK"}) EXCEPT !.list = l]
  /\ line' = IF up.queued THEN line ELSE Append(line, "up")
  /\ UNCHANGED <<linkVars, down, downloads, cancels>>

\* upload_inspection_async(); with an earlier upload alive only Busy.
Upload(l) ==
  /\ uploads < MaxUploads /\ uploads + downloads < MaxTransfers
  /\ ~Alive(up)
  /\ uploads' = uploads + 1
  /\ up' = [Fresh(NoUpload, up, {"READ", "ACK"}) EXCEPT !.list = l]
  /\ line' = Append(line, "up")
  /\ UNCHANGED <<linkVars, down, downloads, cancels>>

\* download_inspection_async()
Download ==
  /\ downloads < MaxDownloads /\ uploads + downloads < MaxTransfers
  /\ ~Alive(down)
  /\ downloads' = downloads + 1
  /\ down' = Fresh(NoDownload, down, {"COUNT", "ITEM"})
  /\ line' = Append(line, "down")
  /\ UNCHANGED <<linkVars, up, uploads, cancels>>

\* cancel_inspection_upload() and _download(): first take a shared_ptr ...
HoldUpload ==
  /\ cancels < MaxCancels
  /\ CanHold(up)
  /\ up' = Held(up)
  /\ cancels' = cancels + 1
  /\ UNCHANGED <<linkVars, down, line, uploads, downloads>>

HoldDownload ==
  /\ cancels < MaxCancels
  /\ CanHold(down)
  /\ down' = Held(down)
  /\ cancels' = cancels + 1
  /\ UNCHANGED <<linkVars, up, line, uploads, downloads>>

\* ... then call cancel() on it.
CancelUpload == up.held /\ Ups(Cancelled(up, "vehicle"), net)
CancelDownload == down.held /\ Downs(Cancelled(down, "vehicle"), net)
-----------------------------------------------------------------------------
(***************************************************************************)
(* The system thread, in do_work().                                        *)
(***************************************************************************)
\* UploadWorkItem::start(): a refused list never has a timer.
StartUpload ==
  /\ InFront("up") /\ CanStart(up)
  /\ LET s == [up EXCEPT !.started = TRUE] IN
     IF ~Numbered(up.list)
     THEN Ups(Quietly(Report(s, "InvalidSequence")), net)
     ELSE Ups(SendCount(AddTimeout([s EXCEPT !.retries = 0, !.step = "SendCount", !.next = 0]),
                        "vehicle"),
              net)

\* Bug variant: the REQUEST is sent with no timer for the answer.
StartDownloadUntimed ==
  /\ InFront("down") /\ CanStart(down)
  /\ LET s == [down EXCEPT !.got = NoList, !.started = TRUE, !.retries = 0] IN
     Downs(Try(s, Request), net)

\* DownloadWorkItem::start()
StartDownload ==
  /\ InFront("down") /\ CanStart(down)
  /\ LET s == [down EXCEPT !.got = NoList, !.started = TRUE, !.retries = 0] IN
     Downs(Try(AddTimeout(s), Request), net)

PopUpload ==
  /\ InFront("up") /\ CanPop(up)
  /\ up' = Popped(up)
  /\ line' = Tail(line)
  /\ UNCHANGED <<linkVars, down, callVars>>

PopDownload ==
  /\ InFront("down") /\ CanPop(down)
  /\ down' = Popped(down)
  /\ line' = Tail(line)
  /\ UNCHANGED <<linkVars, up, callVars>>
-----------------------------------------------------------------------------
(***************************************************************************)
(* The receive thread.                                                     *)
(***************************************************************************)
StationRead(i) ==
  LET m == Read("station", i) IN
  Hears(up, m) /\ Ups(Serve(up, i, "vehicle"), Without(m))

StationAck(a) ==
  LET m == Ack("station", a) IN
  Hears(up, m) /\ Ups(Acknowledged(up, a), Without(m))

\* process_inspection_count(): with nothing to read, the timer goes last.
StationCount(p, n) ==
  LET m == Count("station", p, n) IN
  /\ Hears(down, m)
  /\ IF n = 0
     THEN Downs({[o EXCEPT !.item = RemoveTimeout(@)] : o \in Accepted(down)}, Without(m))
     ELSE Downs(RequestItem([down EXCEPT !.next = 0, !.step = "RequestItem", !.retries = 0,
                                         !.expected = n, !.got.plan = p], "vehicle"),
                Without(m))

StationItem(i, w) ==
  LET m == Item("station", i, w) IN
  Hears(down, m) /\ Downs(Collect(down, m, "vehicle"), Without(m))
-----------------------------------------------------------------------------
(***************************************************************************)
(* The work thread.                                                        *)
(***************************************************************************)
ExpireUpload == \E s \in Expired(up) : Ups(Quietly(s), net)
ExpireDownload == \E s \in Expired(down) : Downs(Quietly(s), net)

\* Bug variant: the COUNT is sent again with no timer for the answer.
TimeoutUploadWithoutRearm ==
  /\ up.firing
  /\ LET s == [up EXCEPT !.firing = FALSE] IN
     IF up.retries >= Retries \/ up.step = "SendItems"
     THEN Ups(Quietly(Report(s, "Timeout")), net)
     ELSE Ups(SendCount([s EXCEPT !.resent = TRUE], "vehicle"), net)

\* UploadWorkItem::process_timeout(): only the COUNT is sent again.
TimeoutUpload ==
  /\ up.firing
  /\ LET s == [up EXCEPT !.firing = FALSE] IN
     IF up.retries >= Retries \/ up.step = "SendItems"
     THEN Ups(Quietly(Report(s, "Timeout")), net)
     ELSE Ups(SendCount(AddTimeout([s EXCEPT !.resent = TRUE]), "vehicle"), net)

\* DownloadWorkItem::process_timeout()
TimeoutDownload ==
  /\ down.firing
  /\ LET s == [down EXCEPT !.firing = FALSE]
         t == AddTimeout([s EXCEPT !.resent = TRUE]) IN
     IF down.retries >= Retries
     THEN Downs(Quietly(Report(s, "Timeout")), net)
     ELSE Downs(IF down.step = "RequestList" THEN Try(t, Request)
                                             ELSE RequestItem(t, "vehicle"),
                net)
-----------------------------------------------------------------------------
StationReceive ==
  \/ \E i \in SeqNumbers : StationRead(i) \/ \E w \in Names : StationItem(i, w)
  \/ \E a \in AckTypes : StationAck(a)
  \/ \E p \in Plans, n \in SeqNumbers : StationCount(p, n)

StationDoWork == StartUpload \/ StartDownload \/ PopUpload \/ PopDownload
StationRunOnce == ExpireUpload \/ ExpireDownload \/ TimeoutUpload \/ TimeoutDownload
StationCancel == CancelUpload \/ CancelDownload

StationNext ==
  \/ Download \/ \E l \in Lists : Upload(l)
  \/ HoldUpload \/ HoldDownload \/ StationCancel
  \/ StationDoWork \/ StationRunOnce \/ StationReceive

(***************************************************************************)
(* The system thread and the work thread loop for ever, and a user inside  *)
(* cancel gets on.  Nothing is assumed of the network or of users' calls.  *)
(***************************************************************************)
StationFairness ==
  /\ WF_stationVars(StationDoWork)
  /\ WF_stationVars(StationRunOnce)
  /\ WF_stationVars(StationCancel)
=============================================================================
