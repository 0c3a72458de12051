------------------------- MODULE ListRoboticVehicle -------------------------
(***************************************************************************)
(* The vehicle's side of a list download: UploadWorkItem of                *)
(* mavlink_alarm_transfer_robotic_vehicle.cpp with the operations of       *)
(* alarm_robotic_vehicle_impl.cpp that offer a list, answer a request with *)
(* an upload and cancel it.                                                *)
(***************************************************************************)
EXTENDS WorkItem, ListLink, Sequences

CONSTANTS
  Lists,       \* the lists users may offer
  MaxOffers,   \* bound: calls of upload_..._async() and set_upload_...()
  MaxUploads,  \* bound: uploads begun, one per request that is not lost
  MaxHolds     \* bound: calls of cancel_..._upload()

\* A user may number the entries of a list as they like, and offer more of
\* them than their numbers can tell apart.
ASSUME VehicleAssumption ==
  /\ \A l \in Lists : l \in Seq(Entries)
  /\ <<>> \in Lists
  /\ MaxOffers \in Nat /\ MaxUploads \in Nat /\ MaxHolds \in Nat

VARIABLES
  rv,        \* the UploadWorkItem
  offered,   \* _alarm_data.alarm_list
  ready,     \* _alarm_data.upload_callback is set
  offers,    \* how often a user offered a list
  uploads,   \* how many uploads were begun
  rvCancels  \* how often cancel_..._upload() was called

offerVars == <<offered, ready, offers>>
rvVars == <<rv, offerVars, uploads, rvCancels>>

Acks == AckTypes \cup {"Unknown"}
Outcomes == [result : Results, ack : Acks]
NoOutcome == [result |-> NoResult, ack |-> "Unknown"]

UploadItems ==
  [queued : BOOLEAN, held : BOOLEAN, started : BOOLEAN, done : BOOLEAN, callback : BOOLEAN,
   retries : Nat, armed : BOOLEAN, orphans : Nat, firing : BOOLEAN, reports : Nat,
   result : Outcomes \cup {NoOutcome}, next : 0 .. SeqRange, ack : Acks, items : Lists,
   reads : BOOLEAN,          \* start() has registered the READ handler
   sent : SUBSET Indices]    \* the indices of the items sent (history)

NoUpload ==
  [queued |-> FALSE, held |-> FALSE, started |-> FALSE, done |-> TRUE, callback |-> FALSE,
   retries |-> 0, armed |-> FALSE, orphans |-> 0, firing |-> FALSE, reports |-> 1,
   result |-> NoOutcome, next |-> 0, ack |-> "Unknown", items |-> <<>>, reads |-> FALSE,
   sent |-> {}]

\* The constructor; the list is copied.
NewUpload ==
  [NoUpload EXCEPT !.queued = TRUE, !.done = FALSE, !.callback = TRUE, !.reports = 0,
                   !.items = offered, !.orphans = LostTimers(rv), !.firing = rv.firing]

RVOK ==
  /\ rv \in UploadItems
  /\ offered \in Lists
  /\ ready \in BOOLEAN
  /\ offers \in 0 .. MaxOffers
  /\ uploads \in 0 .. MaxUploads
  /\ rvCancels \in 0 .. MaxHolds

RVInit ==
  /\ rv = NoUpload
  /\ offered = <<>> /\ ready = FALSE /\ offers = 0
  /\ uploads = 0 /\ rvCancels = 0
-----------------------------------------------------------------------------
Report(s, result) == CallbackAndReset(s, [result |-> result, ack |-> s.ack])

\* send_count(): counts a try, or gives up.  A list of SeqRange entries, the
\* longest that start() lets through, is announced as an empty one.
SendCount(s) ==
  \E sent \in SendOutcomes :
    IF sent
    THEN rv' = [s EXCEPT !.retries = @ + 1] /\ net' = With(net, Count(Packed(Len(s.items))))
    ELSE rv' = Report(RemoveTimeout(s), "ConnectionError") /\ UNCHANGED net

\* send_alarm_item(): the sequence number goes on before the send.  The
\* packet carries the position in the list, not the index its user gave it.
SendItem(s, link) ==
  IF s.next >= Len(s.items)
  THEN rv' = s /\ net' = link
  ELSE LET t == [s EXCEPT !.next = @ + 1] IN
       \E sent \in SendOutcomes :
         IF sent
         THEN /\ rv' = [t EXCEPT !.retries = @ + 1, !.sent = @ \cup {s.next}]
              /\ net' = With(link, Item([index |-> s.next, name |-> s.items[s.next + 1].name]))
         ELSE rv' = Report(RemoveTimeout(t), "ConnectionError") /\ net' = link
-----------------------------------------------------------------------------
(***************************************************************************)
(* The user's threads.                                                     *)
(***************************************************************************)
\* upload_alarm_async() sets the list and the callback.
Offer(l) ==
  /\ offers < MaxOffers
  /\ offers' = offers + 1
  /\ offered' = l
  /\ ready' = TRUE
  /\ UNCHANGED <<linkVars, rv, uploads, rvCancels>>

\* set_upload_alarm() sets the list only.
SetList(l) ==
  /\ offers < MaxOffers
  /\ offers' = offers + 1
  /\ offered' = l
  /\ UNCHANGED <<linkVars, rv, ready, uploads, rvCancels>>

\* cancel_alarm_upload(), in two halves as on the ground station.
RVHold ==
  /\ rvCancels < MaxHolds
  /\ CanHold(rv)
  /\ rv' = Held(rv)
  /\ rvCancels' = rvCancels + 1
  /\ UNCHANGED <<linkVars, offerVars, uploads>>

\* The ground station has no handler for the packet cancel() sends.
RVCancel ==
  /\ rv.held
  /\ \E sent \in SendOutcomes :
       rv' = Report(LetGo(RemoveTimeout(rv)), IF sent THEN "Cancelled" ELSE "ConnectionError")
  /\ UNCHANGED <<linkVars, offerVars, uploads, rvCancels>>
-----------------------------------------------------------------------------
(***************************************************************************)
(* The system thread.                                                      *)
(***************************************************************************)
\* start() checks that the user numbered the entries from 0 on.
Numbered(l) == \A i \in DOMAIN l : l[i].index = i - 1

\* Bug variant: an unnumbered list is refused without reporting it.
StartSilently ==
  /\ CanStart(rv)
  /\ LET s == [rv EXCEPT !.started = TRUE, !.retries = 0] IN
     IF ~Numbered(rv.items)
     THEN rv' = s /\ UNCHANGED net
     ELSE SendCount(AddTimeout([s EXCEPT !.next = 0, !.reads = rv.items # <<>>]))
  /\ UNCHANGED <<duplicates, offerVars, uploads, rvCancels>>

RVStart ==
  /\ CanStart(rv)
  /\ LET s == AddTimeout([rv EXCEPT !.started = TRUE, !.retries = 0]) IN
     IF ~Numbered(rv.items)
     THEN rv' = Report(s, "InvalidSequence") /\ UNCHANGED net
     ELSE SendCount([s EXCEPT !.next = 0, !.reads = rv.items # <<>>])
  /\ UNCHANGED <<duplicates, offerVars, uploads, rvCancels>>

RVPop ==
  /\ CanPop(rv)
  /\ rv' = Popped(rv)
  /\ UNCHANGED <<linkVars, offerVars, uploads, rvCancels>>
-----------------------------------------------------------------------------
(***************************************************************************)
(* The receive thread.                                                     *)
(***************************************************************************)
\* Bug variant: no Busy check.
ProcessRequestWithoutBusy ==
  /\ UnderWay(Request)
  /\ net' = Without(Request)
  /\ IF ready /\ uploads < MaxUploads
     THEN rv' = NewUpload /\ uploads' = uploads + 1
     ELSE UNCHANGED <<rv, uploads>>
  /\ UNCHANGED <<duplicates, offerVars, rvCancels>>

\* upload_alarm(), the REQUEST handler: without a callback the request is
\* ignored, with an upload alive the user is told Busy.
ProcessRequest ==
  /\ UnderWay(Request)
  /\ net' = Without(Request)
  /\ IF ready /\ ~Alive(rv) /\ uploads < MaxUploads
     THEN rv' = NewUpload /\ uploads' = uploads + 1
     ELSE UNCHANGED <<rv, uploads>>
  /\ UNCHANGED <<duplicates, offerVars, rvCancels>>

\* Bug variant: repeated READs are not limited.
ProcessReadForEver(i) ==
  /\ Alive(rv) /\ rv.reads
  /\ UnderWay(Read(i))
  /\ \/ /\ i > rv.next
        /\ rv' = rv /\ net' = Without(Read(i))
     \/ /\ i <= rv.next
        /\ SendItem([rv EXCEPT !.next = i, !.retries = IF i = rv.next THEN 0 ELSE @],
                    Without(Read(i)))
  /\ UNCHANGED <<duplicates, offerVars, uploads, rvCancels>>

\* process_alarm_read(): a READ beyond the next item is ignored, one for an
\* earlier item is served again, `Retries` times in a row at most.
ProcessRead(i) ==
  /\ Alive(rv) /\ rv.reads
  /\ UnderWay(Read(i))
  /\ \/ /\ i > rv.next
        /\ rv' = rv /\ net' = Without(Read(i))
     \/ /\ i < rv.next /\ rv.retries >= Retries
        /\ rv' = Report(RemoveTimeout(rv), "Timeout") /\ net' = Without(Read(i))
     \/ /\ i < rv.next /\ rv.retries < Retries
        /\ SendItem([rv EXCEPT !.next = i], Without(Read(i)))
     \/ /\ i = rv.next
        /\ SendItem([rv EXCEPT !.retries = 0], Without(Read(i)))
  /\ UNCHANGED <<duplicates, offerVars, uploads, rvCancels>>

\* Bug variant: any acknowledgement counts as success.
ProcessAckTrusting(a) ==
  /\ Alive(rv) /\ rv.started
  /\ UnderWay(Ack(a))
  /\ net' = Without(Ack(a))
  /\ rv' = Report([RemoveTimeout(rv) EXCEPT !.ack = a], "Success")
  /\ UNCHANGED <<duplicates, offerVars, uploads, rvCancels>>

\* process_alarm_ack(), registered by start(); the ack's type is passed on
\* to the user, success depends on the sequence number only.
ProcessAck(a) ==
  /\ Alive(rv) /\ rv.started
  /\ UnderWay(Ack(a))
  /\ net' = Without(Ack(a))
  /\ rv' = Report([RemoveTimeout(rv) EXCEPT !.ack = a],
                  IF rv.next = Len(rv.items) THEN "Success" ELSE "ProtocolError")
  /\ UNCHANGED <<duplicates, offerVars, uploads, rvCancels>>
-----------------------------------------------------------------------------
(***************************************************************************)
(* The work thread.                                                        *)
(***************************************************************************)
RVExpire ==
  /\ rv' \in Expired(rv)
  /\ UNCHANGED <<linkVars, offerVars, uploads, rvCancels>>

\* process_timeout(): the vehicle does not retry.
RVTimeout ==
  /\ rv.firing
  /\ rv' = Report([rv EXCEPT !.firing = FALSE], "Timeout")
  /\ UNCHANGED <<linkVars, offerVars, uploads, rvCancels>>
-----------------------------------------------------------------------------
RVReceive ==
  \/ ProcessRequest
  \/ \E i \in Indices : ProcessRead(i)
  \/ \E a \in AckTypes : ProcessAck(a)

RVNext ==
  \/ \E l \in Lists : Offer(l) \/ SetList(l)
  \/ RVHold \/ RVCancel
  \/ RVStart \/ RVPop
  \/ RVReceive
  \/ RVExpire \/ RVTimeout

\* As on the ground station.
RVFairness ==
  /\ WF_rvVars(RVStart) /\ WF_rvVars(RVPop)
  /\ WF_rvVars(RVExpire) /\ WF_rvVars(RVTimeout)
  /\ WF_rvVars(RVCancel)
=============================================================================
