------------------------- MODULE ListGroundStation -------------------------
(***************************************************************************)
(* The ground station's side of a list download: DownloadWorkItem of       *)
(* mavlink_alarm_transfer_ground_station.cpp with the operations of        *)
(* alarm_impl.cpp that create and cancel it.  The checklist and hl_action  *)
(* transfers have the same code with other message names.                  *)
(***************************************************************************)
EXTENDS WorkItem, ListLink, Sequences

CONSTANTS
  MaxDownloads,   \* bound: downloads the user asks for
  MaxCancels      \* bound: cancel_...() calls of the users of one side

ASSUME GroundStationAssumption == MaxDownloads \in Nat /\ MaxCancels \in Nat

VARIABLES
  gs,         \* the DownloadWorkItem
  downloads,  \* how many downloads were begun
  gsCancels   \* how often cancel_..._download() was called

gsVars == <<gs, downloads, gsCancels>>

Steps == {"RequestList", "RequestItem"}

DownloadItems ==
  [queued : BOOLEAN, held : BOOLEAN, started : BOOLEAN, done : BOOLEAN, callback : BOOLEAN,
   retries : Nat, armed : BOOLEAN, orphans : Nat, firing : BOOLEAN, reports : Nat,
   result : Results \cup {NoResult}, step : Steps, next : 0 .. SeqRange,
   expected : Indices, list : Seq(Entries),
   resent : BOOLEAN]   \* a timeout has made it ask again (history)

NoDownload ==
  [queued |-> FALSE, held |-> FALSE, started |-> FALSE, done |-> TRUE, callback |-> FALSE,
   retries |-> 0, armed |-> FALSE, orphans |-> 0, firing |-> FALSE, reports |-> 1,
   result |-> NoResult, step |-> "RequestList", next |-> 0, expected |-> 0, list |-> <<>>,
   resent |-> FALSE]

\* The constructor; timers lost at this address stay (see WorkItem).
NewDownload ==
  [NoDownload EXCEPT !.queued = TRUE, !.done = FALSE, !.callback = TRUE, !.reports = 0,
                     !.orphans = LostTimers(gs), !.firing = gs.firing]

GSOK ==
  /\ gs \in DownloadItems
  /\ downloads \in 0 .. MaxDownloads
  /\ gsCancels \in 0 .. MaxCancels

GSInit == gs = NoDownload /\ downloads = 0 /\ gsCancels = 0
-----------------------------------------------------------------------------
(***************************************************************************)
(* Pieces of handlers.  s is the item so far, link the packets so far.     *)
(***************************************************************************)
\* request_list() and request_item(): send m and count a try, or give up.
Ask(s, link, m) ==
  \E sent \in SendOutcomes :
    IF sent
    THEN gs' = [s EXCEPT !.retries = @ + 1] /\ net' = With(link, m)
    ELSE gs' = CallbackAndReset(RemoveTimeout(s), "ConnectionError") /\ net' = link

\* send_ack_and_finish() and send_cancel_and_finish(): one packet, no answer.
Finish(s, link, ack, result) ==
  \E sent \in SendOutcomes :
    IF sent
    THEN gs' = CallbackAndReset(s, result) /\ net' = With(link, Ack(ack))
    ELSE gs' = CallbackAndReset(s, "ConnectionError") /\ net' = link
-----------------------------------------------------------------------------
(***************************************************************************)
(* The user's threads.                                                     *)
(***************************************************************************)
\* Bug variant: no Busy check.
DownloadWithoutBusy ==
  /\ downloads < MaxDownloads
  /\ downloads' = downloads + 1
  /\ gs' = NewDownload
  /\ UNCHANGED <<linkVars, gsCancels>>

\* download_alarm_async(); with an earlier item alive it only reports Busy.
Download ==
  /\ downloads < MaxDownloads
  /\ ~Alive(gs)
  /\ downloads' = downloads + 1
  /\ gs' = NewDownload
  /\ UNCHANGED <<linkVars, gsCancels>>

\* cancel_alarm_download() takes a shared_ptr to the item ...
GSHold ==
  /\ gsCancels < MaxCancels
  /\ CanHold(gs)
  /\ gs' = Held(gs)
  /\ gsCancels' = gsCancels + 1
  /\ UNCHANGED <<linkVars, downloads>>

\* ... and calls cancel() on it, whatever happened in between.
GSCancel ==
  /\ gs.held
  /\ Finish(LetGo(RemoveTimeout(gs)), net, "Cancelled", "Cancelled")
  /\ UNCHANGED <<duplicates, downloads, gsCancels>>
-----------------------------------------------------------------------------
(***************************************************************************)
(* The system thread.                                                      *)
(***************************************************************************)
\* Bug variant: the timer is only added for a download that cannot be empty.
StartWithoutTimer ==
  /\ CanStart(gs)
  /\ Ask([gs EXCEPT !.list = <<>>, !.started = TRUE, !.retries = 0], net, Request)
  /\ UNCHANGED <<duplicates, downloads, gsCancels>>

\* start(): an item that was cancelled or answered before is started as well.
GSStart ==
  /\ CanStart(gs)
  /\ Ask(AddTimeout([gs EXCEPT !.list = <<>>, !.started = TRUE, !.retries = 0]), net, Request)
  /\ UNCHANGED <<duplicates, downloads, gsCancels>>

GSPop ==
  /\ CanPop(gs)
  /\ gs' = Popped(gs)
  /\ UNCHANGED <<linkVars, downloads, gsCancels>>
-----------------------------------------------------------------------------
(***************************************************************************)
(* The receive thread.  The handlers are registered from the constructor   *)
(* on, so they also run for an item that has not started or is done.       *)
(***************************************************************************)
\* Bug variant: the count is taken for the index of the last item.
ProcessCountAsLast(n) ==
  /\ Alive(gs)
  /\ UnderWay(Count(n))
  /\ IF n = 0
     THEN Finish(RemoveTimeout(gs), Without(Count(n)), "Accepted", "Success")
     ELSE Ask([gs EXCEPT !.next = 0, !.step = "RequestItem", !.retries = 0, !.expected = n + 1],
              Without(Count(n)), Read(0))
  /\ UNCHANGED <<duplicates, downloads, gsCancels>>

\* process_alarm_count(): the list collected so far is kept.
ProcessCount(n) ==
  /\ Alive(gs)
  /\ UnderWay(Count(n))
  /\ IF n = 0
     THEN Finish(RemoveTimeout(gs), Without(Count(n)), "Accepted", "Success")
     ELSE Ask([gs EXCEPT !.next = 0, !.step = "RequestItem", !.retries = 0, !.expected = n],
              Without(Count(n)), Read(0))
  /\ UNCHANGED <<duplicates, downloads, gsCancels>>

\* Bug variant: off by one in the test for the last item.
ProcessItemOffByOne(e) ==
  /\ Alive(gs)
  /\ UnderWay(Item(e))
  /\ LET s == [gs EXCEPT !.list = Append(@, e)] IN
     IF gs.next + 2 >= gs.expected
     THEN Finish(RemoveTimeout(s), Without(Item(e)), "Accepted", "Success")
     ELSE Ask([s EXCEPT !.next = e.index + 1, !.retries = 0],
              Without(Item(e)), Read(Packed(e.index + 1)))
  /\ UNCHANGED <<duplicates, downloads, gsCancels>>

\* Bug variant: the tries are not counted anew for the next item.
ProcessItemKeepRetries(e) ==
  /\ Alive(gs)
  /\ UnderWay(Item(e))
  /\ LET s == [gs EXCEPT !.list = Append(@, e)] IN
     IF gs.next + 1 = gs.expected
     THEN Finish(RemoveTimeout(s), Without(Item(e)), "Accepted", "Success")
     ELSE Ask([s EXCEPT !.next = e.index + 1], Without(Item(e)), Read(Packed(e.index + 1)))
  /\ UNCHANGED <<duplicates, downloads, gsCancels>>

\* process_alarm_item(): every item is appended, whatever index it has.
ProcessItem(e) ==
  /\ Alive(gs)
  /\ UnderWay(Item(e))
  /\ LET s == [gs EXCEPT !.list = Append(@, e)] IN
     IF gs.next + 1 = gs.expected
     THEN Finish(RemoveTimeout(s), Without(Item(e)), "Accepted", "Success")
     ELSE Ask([s EXCEPT !.next = e.index + 1, !.retries = 0],
              Without(Item(e)), Read(Packed(e.index + 1)))
  /\ UNCHANGED <<duplicates, downloads, gsCancels>>
-----------------------------------------------------------------------------
(***************************************************************************)
(* The work thread.                                                        *)
(***************************************************************************)
GSExpire ==
  /\ gs' \in Expired(gs)
  /\ UNCHANGED <<linkVars, downloads, gsCancels>>

\* Bug variant: the timer is not added again for a retry.
TimeoutWithoutRearm ==
  /\ gs.firing
  /\ LET s == [gs EXCEPT !.firing = FALSE] IN
     IF gs.retries >= Retries
     THEN gs' = CallbackAndReset(s, "Timeout") /\ UNCHANGED net
     ELSE Ask([s EXCEPT !.resent = TRUE], net,
              IF gs.step = "RequestList" THEN Request ELSE Read(Packed(gs.next)))
  /\ UNCHANGED <<duplicates, downloads, gsCancels>>

\* process_timeout(): done is not looked at.
GSTimeout ==
  /\ gs.firing
  /\ LET s == [gs EXCEPT !.firing = FALSE] IN
     IF gs.retries >= Retries
     THEN gs' = CallbackAndReset(s, "Timeout") /\ UNCHANGED net
     ELSE Ask(AddTimeout([s EXCEPT !.resent = TRUE]), net,
              IF gs.step = "RequestList" THEN Request ELSE Read(Packed(gs.next)))
  /\ UNCHANGED <<duplicates, downloads, gsCancels>>
-----------------------------------------------------------------------------
GSReceive ==
  \/ \E n \in Indices : ProcessCount(n)
  \/ \E e \in Entries : ProcessItem(e)

GSNext ==
  \/ Download \/ GSHold \/ GSCancel
  \/ GSStart \/ GSPop
  \/ GSReceive
  \/ GSExpire \/ GSTimeout

(***************************************************************************)
(* The library's threads loop for ever: a startable or finished item is    *)
(* seen by the next do_work(), an armed entry expires, a callback taken    *)
(* out of the TimeoutHandler gets the mutex, and a user inside cancel      *)
(* gets on.  Nothing is assumed of the network or of users' calls.         *)
(***************************************************************************)
GSFairness ==
  /\ WF_gsVars(GSStart) /\ WF_gsVars(GSPop)
  /\ WF_gsVars(GSExpire) /\ WF_gsVars(GSTimeout)
  /\ WF_gsVars(GSCancel)
=============================================================================
