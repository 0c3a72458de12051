--------------------------- MODULE InspectionWork ---------------------------
(***************************************************************************)
(* What the four work items of an inspection transfer share: station and   *)
(* vehicle each upload waypoint lists to the other and download them from  *)
(* it, with the same packets in both directions.  A handler of an item is  *)
(* written as the set of its outcomes: the item after the handler and the  *)
(* packets it has sent.                                                    *)
(***************************************************************************)
EXTENDS WorkItem, InspectionLink, Sequences

CONSTANTS
  Lists,      \* the waypoint lists users may upload
  MaxLength   \* bound: the longest list

NoPlan == "no plan"
NoList == [plan |-> NoPlan, items |-> <<>>]   \* a WaypointList nobody has filled

ASSUME InspectionAssumption ==
  /\ MaxLength \in Nat
  /\ NoList \in Lists
  /\ \A l \in Lists : /\ l.plan \in Plans
                      /\ l.items \in Seq(Names)
                      /\ l = [plan |-> l.plan, items |-> l.items]
                      /\ Len(l.items) <= MaxLength

-----------------------------------------------------------------------------
(***************************************************************************)
(* Items.  `got` is what an item passes to its callback together with the  *)
(* result: the acknowledgement of an upload, the waypoints of a download.  *)
(***************************************************************************)
Acks == AckTypes \cup {"Unknown"}
Waypoints == [seq : SeqNumbers, name : Names]
Gathered == [plan : Plans, items : Seq(Waypoints)]

Steps == {"SendCount", "SendItems", "RequestList", "RequestItem"}

Work(Got) ==
  [queued : BOOLEAN, held : BOOLEAN, started : BOOLEAN, done : BOOLEAN, callback : BOOLEAN,
   retries : Nat, armed : BOOLEAN, orphans : Nat, firing : BOOLEAN, reports : Nat,
   result : [result : Results \cup {NoResult}, got : Got], got : Got,
   hears : SUBSET {"COUNT", "READ", "ITEM", "ACK"},   \* messages with a handler registered
   step : Steps, next : Nat, expected : Nat,
   list : Lists,
   sent : SUBSET Nat,      \* the positions of the waypoints sent (history)
   resent : BOOLEAN]       \* a timeout has made it send again (history)

Uploads == Work(Acks)
Downloads == Work(Gathered)

\* Nothing at this address yet.
NoWork(nothing, step) ==
  [queued |-> FALSE, held |-> FALSE, started |-> FALSE, done |-> TRUE, callback |-> FALSE,
   retries |-> 0, armed |-> FALSE, orphans |-> 0, firing |-> FALSE, reports |-> 1,
   result |-> [result |-> NoResult, got |-> nothing], got |-> nothing, hears |-> {},
   step |-> step, next |-> 0, expected |-> 0, list |-> NoList,
   sent |-> {}, resent |-> FALSE]

NoUpload == NoWork("Unknown", "SendCount")
NoDownload == NoWork(NoList, "RequestList")

\* A constructor: a fresh item where the item s was (see WorkItem).
Fresh(nothing, s, hears) ==
  [nothing EXCEPT !.queued = TRUE, !.done = FALSE, !.callback = TRUE, !.reports = 0,
                  !.hears = hears, !.orphans = LostTimers(s), !.firing = s.firing]

Hears(s, m) == Alive(s) /\ m.type \in s.hears /\ UnderWay(m)
-----------------------------------------------------------------------------
(***************************************************************************)
(* Outcomes.                                                               *)
(***************************************************************************)
Report(s, r) == CallbackAndReset(s, [result |-> r, got |-> s.got])

Quietly(s) == {[item |-> s, out |-> {}]}

\* Send m and count a try, or give up.
Try(s, m) ==
  {IF sent
   THEN [item |-> [s EXCEPT !.retries = @ + 1], out |-> {m}]
   ELSE [item |-> Report(RemoveTimeout(s), "ConnectionError"), out |-> {}] : sent \in SendOutcomes}

\* Send m, which nobody answers, and report r.
Finish(s, m, r) ==
  {IF sent
   THEN [item |-> Report(s, r), out |-> {m}]
   ELSE [item |-> Report(s, "ConnectionError"), out |-> {}] : sent \in SendOutcomes}

\* cancel(), called with the shared_ptr that cancel_inspection_...() took.
Cancelled(s, side) == Finish(LetGo(RemoveTimeout(s)), Ack(side, "Cancelled"), "Cancelled")
-----------------------------------------------------------------------------
(***************************************************************************)
(* Uploading, to `side`.                                                   *)
(***************************************************************************)
SendCount(s, side) == Try(s, Count(side, s.list.plan, Len(s.list.items)))

\* Bug variant: start() compares as the plugins count, modulo SeqRange.
NumberedModulo(l) == TRUE

\* The plugins number a list with static_cast<uint16_t>(size), start()
\* compares with an int.
Numbered(l) == Len(l.items) <= SeqRange

\* Bug variant: the waypoint is taken after the sequence number went on.
SendItemAfter(s, side) ==
  IF s.next >= Len(s.list.items)
  THEN Quietly(s)
  ELSE {IF o.out = {} THEN o
        ELSE [o EXCEPT !.item.sent = @ \cup {s.next}] :
          o \in Try([s EXCEPT !.next = @ + 1],
                    Item(side, s.next, s.list.items[((s.next + 1) % Len(s.list.items)) + 1]))}

\* send_inspection_item(): the sequence number goes on before the send.
SendItem(s, side) ==
  IF s.next >= Len(s.list.items)
  THEN Quietly(s)
  ELSE {IF o.out = {} THEN o
        ELSE [o EXCEPT !.item.sent = @ \cup {s.next}] :
          o \in Try([s EXCEPT !.next = @ + 1], Item(side, s.next, s.list.items[s.next + 1]))}

\* Bug variant: repeated READs are not limited.
ServeForEver(s, i, side) ==
  LET t == [s EXCEPT !.step = "SendItems"] IN
  IF i > s.next
  THEN Quietly(t)
  ELSE SendItem([t EXCEPT !.next = i, !.retries = IF i = s.next THEN 0 ELSE @], side)

\* process_inspection_read()
Serve(s, i, side) ==
  LET t == [s EXCEPT !.step = "SendItems"] IN
  CASE i > s.next -> Quietly(t)
    [] i < s.next /\ s.retries >= Retries -> Quietly(Report(RemoveTimeout(t), "Timeout"))
    [] i < s.next /\ s.retries < Retries -> SendItem([t EXCEPT !.next = i], side)
    [] i = s.next -> SendItem([t EXCEPT !.retries = 0], side)

\* Bug variant: any acknowledgement counts as success.
AcknowledgedTrusting(s, a) ==
  Quietly(Report([RemoveTimeout(s) EXCEPT !.got = a], "Success"))

\* process_inspection_ack()
Acknowledged(s, a) ==
  Quietly(Report([RemoveTimeout(s) EXCEPT !.got = a],
                 IF s.next = Len(s.list.items) THEN "Success" ELSE "ProtocolError"))
-----------------------------------------------------------------------------
(***************************************************************************)
(* Downloading, from `side`.                                               *)
(***************************************************************************)
RequestItem(s, side) == Try(s, Read(side, s.next))

\* The station acknowledges the list, the vehicle leaves that to its user.
Accepted(s) == Finish(s, Ack("vehicle", "Accepted"), "Success")
AllCollected(s, side) == IF side = "vehicle" THEN Accepted(s) ELSE Quietly(Report(s, "Success"))

\* process_inspection_item(): whatever sequence number it has, the waypoint
\* is appended.
Collect(s, m, side) ==
  LET t == [s EXCEPT !.got.items = Append(@, [seq |-> m.seq, name |-> m.name])] IN
  IF s.next + 1 = s.expected
  THEN AllCollected(RemoveTimeout(t), side)
  ELSE RequestItem([t EXCEPT !.next = m.seq + 1, !.retries = 0], side)
=============================================================================
