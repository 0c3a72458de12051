---------------------- MODULE InspectionTransfer_proof ----------------------
(***************************************************************************)
(* Theorems about InspectionTransfer, for all waypoint lists, ranges of    *)
(* sequence numbers, retries, calls, cancellations, duplicated packets and *)
(* failing sends.                                                          *)
(***************************************************************************)
EXTENDS InspectionTransfer, TLAPS

USE DEF NoResult, Results

\* Two states of an item in which it has told its caller the same, ...
SameReports(s, t) ==
  /\ t.done = s.done /\ t.callback = s.callback
  /\ t.reports = s.reports /\ t.result = s.result

\* ... has the same timers, ...
SameTimers(s, t) ==
  /\ t.started = s.started /\ t.armed = s.armed
  /\ t.orphans = s.orphans /\ t.firing = s.firing

\* ... and has come as far in its list.
SameProgress(s, t) == t.next = s.next /\ t.list = s.list /\ t.sent = s.sent

\* From s to t the item has told its caller at most one thing.
Answers(s, t, Got) ==
  \/ t.done = s.done /\ t.result = s.result
  \/ ~s.done /\ t.done /\ t.result \in [result : Results, got : Got]

\* What every piece of a handler relies on.
Core(s, Got) ==
  /\ s \in Work(Got)
  /\ ReportsWhenDone(s)
  /\ RetriesBounded(s)
  /\ QueuedUntilDone(s)

\* What is invariant of every item.
Inv(s, Got) == Core(s, Got) /\ NeverWedged(s)

\* From s to t nothing but a failure may have been reported, nothing was sent.
Moves(s, t) ==
  /\ SameProgress(s, t)
  /\ s.done => t.done
  /\ t.result = s.result \/ t.result.result # "Success"
-----------------------------------------------------------------------------
(***************************************************************************)
(* The pieces the handlers of all items are made of.                       *)
(***************************************************************************)
\* callback_and_reset() leaves an item done and reported once.
LEMMA ReportStep ==
  ASSUME NEW Got, NEW s, Core(s, Got), NEW r \in Results
  PROVE  /\ Inv(Report(s, r), Got) /\ Report(s, r).done
         /\ Answers(s, Report(s, r), Got)
         /\ SameProgress(s, Report(s, r))
         /\ \/ Report(s, r).result = s.result
            \/ ~s.done /\ Report(s, r).result.result = r
<1> DEFINE q == [result |-> r, got |-> s.got]
           n == IF s.callback THEN s.reports + 1 ELSE s.reports
           a == IF s.callback THEN q ELSE s.result
           t == Report(s, r)
<1>1. s \in Work(Got)
  BY DEF Core
<1>2. q \in [result : Results, got : Got] /\ q.result = r
  BY <1>1 DEF Work
<1>3. t = [s EXCEPT !.reports = n, !.result = a, !.callback = FALSE, !.done = TRUE]
  BY DEF Report, CallbackAndReset
<1> HIDE DEF q
<1>4. n \in Nat /\ a \in [result : Results \cup {NoResult}, got : Got]
  BY <1>1, <1>2 DEF Work
<1>5. n = 1 /\ (IF s.done THEN a = s.result ELSE a = q)
  BY <1>1 DEF Core, ReportsWhenDone, Work
<1> HIDE DEF n, a, t
<1>6. t \in Work(Got)
  BY <1>1, <1>3, <1>4 DEF Work
<1>7. /\ t.reports = n /\ t.callback = FALSE /\ t.done = TRUE /\ t.retries = s.retries
      /\ t.result = a /\ SameProgress(s, t)
  BY <1>1, <1>3 DEF Work, SameProgress
<1>8. Inv(t, Got)
  BY <1>5, <1>6, <1>7
  DEF Inv, Core, ReportsWhenDone, RetriesBounded, NeverWedged, QueuedUntilDone
<1>9. Answers(s, t, Got) /\ (t.result = s.result \/ (~s.done /\ t.result.result = r))
  <2>1. CASE s.done
    BY <1>5, <1>7, <2>1 DEF Answers
  <2>2. CASE ~s.done
    BY <1>2, <1>5, <1>7, <2>2 DEF Answers
  <2> QED BY <2>1, <2>2
<1> QED BY <1>7, <1>8, <1>9 DEF t

\* A change of other fields keeps the invariant.
LEMMA Update ==
  ASSUME NEW Got, NEW s, NEW t \in Work(Got), Core(s, Got), SameReports(s, t),
         t.queued = s.queued \/ s.done, t.retries \in {0, s.retries}
  PROVE  /\ Core(t, Got)
         /\ NeverWedged(t) => Inv(t, Got)
  BY RetriesAssumption
  DEF Inv, Core, ReportsWhenDone, RetriesBounded, SameReports, QueuedUntilDone

LEMMA UpdateTimed ==
  ASSUME NEW Got, NEW s, NEW t \in Work(Got), Inv(s, Got), SameReports(s, t), SameTimers(s, t),
         t.queued = s.queued, t.retries \in {0, s.retries}
  PROVE  Inv(t, Got)
  BY Update DEF Inv, NeverWedged, TimerPending, SameReports, SameTimers

\* Adding a timer keeps the invariant and makes one pending.
LEMMA AddTimeoutStep ==
  ASSUME NEW Got, NEW s, Core(s, Got)
  PROVE  /\ Inv(AddTimeout(s), Got)
         /\ AddTimeout(s).retries = s.retries
         /\ SameReports(s, AddTimeout(s)) /\ SameProgress(s, AddTimeout(s))
<1> DEFINE n == IF s.armed THEN s.orphans + 1 ELSE s.orphans
           t == AddTimeout(s)
<1>1. s \in Work(Got)
  BY DEF Core
<1>2. n \in Nat
  BY <1>1 DEF Work
<1>3. t = [s EXCEPT !.armed = TRUE, !.orphans = n]
  BY DEF AddTimeout
<1> HIDE DEF n, t
<1>4. t \in Work(Got)
  BY <1>1, <1>2, <1>3 DEF Work
<1>5. /\ t.armed = TRUE /\ t.retries = s.retries /\ t.queued = s.queued
      /\ SameReports(s, t) /\ SameProgress(s, t)
  BY <1>1, <1>3 DEF Work, SameReports, SameProgress
<1>6. Inv(t, Got)
  BY <1>4, <1>5, Update DEF NeverWedged, TimerPending
<1> QED BY <1>5, <1>6 DEF t

\* Removing a timer keeps everything but NeverWedged.
LEMMA RemoveTimeoutStep ==
  ASSUME NEW Got, NEW s, Core(s, Got)
  PROVE  /\ Core(RemoveTimeout(s), Got)
         /\ SameReports(s, RemoveTimeout(s)) /\ SameProgress(s, RemoveTimeout(s))
         /\ RemoveTimeout(s).retries = s.retries
<1> DEFINE t == RemoveTimeout(s)
<1>1. s \in Work(Got)
  BY DEF Core
<1>2. t = [s EXCEPT !.armed = FALSE]
  BY DEF RemoveTimeout
<1> HIDE DEF t
<1>3. t \in Work(Got)
  BY <1>1, <1>2 DEF Work
<1>4. /\ t.retries = s.retries /\ t.queued = s.queued
      /\ SameReports(s, t) /\ SameProgress(s, t)
  BY <1>1, <1>2 DEF Work, SameReports, SameProgress
<1>5. Core(t, Got)
  BY <1>3, <1>4, Update
<1> QED BY <1>4, <1>5 DEF t

\* The destructor may remove the timer.
LEMMA ReleasedStep ==
  ASSUME NEW Got, NEW s, Core(s, Got)
  PROVE  Core(Released(s), Got) /\ SameReports(s, Released(s)) /\ SameProgress(s, Released(s))
  BY RemoveTimeoutStep DEF Released, SameReports, SameProgress

\* A packet that is sent counts as a try, if one is left; a failure is reported.
LEMMA TryStep ==
  ASSUME NEW Got, NEW s, Inv(s, Got), s.retries < Retries, NEW m, NEW o \in Try(s, m)
  PROVE  Inv(o.item, Got) /\ Answers(s, o.item, Got) /\ Moves(s, o.item)
<1>1. PICK sent \in SendOutcomes :
        o = IF sent
            THEN [item |-> [s EXCEPT !.retries = @ + 1], out |-> {m}]
            ELSE [item |-> Report(RemoveTimeout(s), "ConnectionError"), out |-> {}]
  BY DEF Try
<1>2. CASE sent
  <2> DEFINE t == [s EXCEPT !.retries = @ + 1]
  <2>1. s \in Work(Got)
    BY DEF Inv, Core
  <2>2. t \in Work(Got)
    BY <2>1 DEF Work
  <2>3. /\ t.retries = s.retries + 1 /\ s.retries \in Nat /\ t.queued = s.queued
        /\ SameReports(s, t) /\ SameTimers(s, t) /\ SameProgress(s, t)
    BY <2>1 DEF Work, SameReports, SameTimers, SameProgress
  <2>4. o.item = t
    BY <1>1, <1>2
  <2> HIDE DEF t
  <2>5. Inv(t, Got)
    BY <2>2, <2>3, RetriesAssumption
    DEF Inv, Core, ReportsWhenDone, RetriesBounded, NeverWedged, TimerPending,
        SameReports, SameTimers, QueuedUntilDone
  <2> QED BY <2>3, <2>4, <2>5 DEF Answers, Moves, SameReports
<1>3. CASE ~sent
  <2> DEFINE r == RemoveTimeout(s)
  <2>1. Core(r, Got) /\ SameReports(s, r) /\ SameProgress(s, r)
    BY RemoveTimeoutStep DEF Inv
  <2>2. o.item = Report(r, "ConnectionError")
    BY <1>1, <1>3
  <2> HIDE DEF r
  <2> QED BY <2>1, <2>2, ReportStep DEF SameReports, SameProgress, Answers, Moves
<1> QED BY <1>2, <1>3

\* Finishing needs nothing of the timer.
LEMMA FinishStep ==
  ASSUME NEW Got, NEW s, Core(s, Got), NEW m, NEW r \in Results, NEW o \in Finish(s, m, r)
  PROVE  /\ Inv(o.item, Got) /\ Answers(s, o.item, Got) /\ o.item.done
         /\ r # "Success" => Moves(s, o.item)
<1>1. o.item = Report(s, r) \/ o.item = Report(s, "ConnectionError")
  BY DEF Finish
<1> QED BY <1>1, ReportStep DEF Moves

\* cancel() finishes an item, started or not.
LEMMA CancelStep ==
  ASSUME NEW Got, NEW s, Inv(s, Got), NEW side, NEW o \in Cancelled(s, side)
  PROVE  Inv(o.item, Got) /\ Answers(s, o.item, Got) /\ Moves(s, o.item)
<1> DEFINE r == RemoveTimeout(s)
           t == [r EXCEPT !.held = FALSE]
           u == Released(t)
<1>1. o \in Finish(u, Ack(side, "Cancelled"), "Cancelled")
  BY DEF Cancelled, LetGo
<1>2. Core(r, Got) /\ SameReports(s, r) /\ SameProgress(s, r)
  BY RemoveTimeoutStep DEF Inv
<1> HIDE DEF r
<1>3. t \in Work(Got)
  BY <1>2 DEF Core, Work
<1>4. SameReports(r, t) /\ SameProgress(r, t) /\ t.retries = r.retries /\ t.queued = r.queued
  BY <1>2 DEF Core, Work, SameReports, SameProgress
<1> HIDE DEF t
<1>5. Core(t, Got)
  BY <1>2, <1>3, <1>4, Update
<1>6. Core(u, Got) /\ SameReports(t, u) /\ SameProgress(t, u)
  BY <1>5, ReleasedStep
<1> HIDE DEF u
<1>7. Inv(o.item, Got) /\ Answers(u, o.item, Got) /\ Moves(u, o.item)
  BY <1>1, <1>6, FinishStep
<1> QED BY <1>2, <1>4, <1>6, <1>7 DEF SameReports, SameProgress, Answers, Moves

\* run_once() takes an entry out: the callback is on its way.
LEMMA ExpireStep ==
  ASSUME NEW Got, NEW s, Inv(s, Got), NEW t \in Expired(s)
  PROVE  Inv(t, Got) /\ Answers(s, t, Got) /\ Moves(s, t)
<1>1. s \in Work(Got) /\ Core(s, Got)
  BY DEF Inv, Core
<1>2. /\ t \in Work(Got) /\ SameReports(s, t) /\ SameProgress(s, t)
      /\ t.retries = s.retries /\ t.queued = s.queued /\ t.firing
  <2>1. CASE t = [s EXCEPT !.armed = FALSE, !.firing = TRUE]
    BY <1>1, <2>1 DEF Work, SameReports, SameProgress
  <2>2. CASE s.orphans > 0 /\ t = [s EXCEPT !.orphans = @ - 1, !.firing = TRUE]
    <3>1. s.orphans - 1 \in Nat
      BY <1>1, <2>2 DEF Work
    <3> QED BY <1>1, <2>2, <3>1 DEF Work, SameReports, SameProgress
  <2> QED BY <2>1, <2>2 DEF Expired
<1>3. Inv(t, Got)
  BY <1>1, <1>2, Update DEF NeverWedged, TimerPending
<1> QED BY <1>2, <1>3 DEF SameReports, Answers, Moves

LEMMA HoldStep ==
  ASSUME NEW Got, NEW s, Inv(s, Got)
  PROVE  Inv(Held(s), Got) /\ Answers(s, Held(s), Got) /\ Moves(s, Held(s))
<1> DEFINE t == Held(s)
<1>1. s \in Work(Got) /\ t = [s EXCEPT !.held = TRUE]
  BY DEF Inv, Core, Held
<1> HIDE DEF t
<1>2. /\ t \in Work(Got) /\ SameReports(s, t) /\ SameTimers(s, t) /\ SameProgress(s, t)
      /\ t.retries = s.retries /\ t.queued = s.queued
  BY <1>1 DEF Work, SameReports, SameTimers, SameProgress
<1>3. Inv(t, Got)
  BY <1>2, UpdateTimed
<1>4. Answers(s, t, Got) /\ Moves(s, t)
  BY <1>2 DEF SameReports, Answers, Moves
<1> QED BY <1>3, <1>4 DEF t

\* An item leaves the queue only when it is done.
LEMMA PopStep ==
  ASSUME NEW Got, NEW s, Inv(s, Got), CanPop(s)
  PROVE  Inv(Popped(s), Got) /\ Answers(s, Popped(s), Got) /\ Moves(s, Popped(s))
<1> DEFINE t == [s EXCEPT !.queued = FALSE]
           u == Released(t)
<1>1. s \in Work(Got) /\ Core(s, Got) /\ s.done
  BY DEF Inv, Core, CanPop
<1>2. /\ t \in Work(Got) /\ SameReports(s, t) /\ SameProgress(s, t) /\ t.retries = s.retries
  BY <1>1 DEF Work, SameReports, SameProgress
<1> HIDE DEF t
<1>3. Core(t, Got)
  BY <1>1, <1>2, Update
<1>4. Core(u, Got) /\ SameReports(t, u) /\ SameProgress(t, u)
  BY <1>3, ReleasedStep
<1>5. Popped(s) = u
  BY DEF Popped, t
<1> HIDE DEF u
<1> QED
  BY <1>1, <1>2, <1>4, <1>5
  DEF Inv, NeverWedged, SameReports, SameProgress, Answers, Moves
-----------------------------------------------------------------------------
(***************************************************************************)
(* Uploads.  SentSoFar is the strengthening that makes SuccessMeansAllSent *)
(* inductive: READs never move the sequence number past a waypoint that    *)
(* was not sent, except in an item that is done.                           *)
(***************************************************************************)
SentSoFar(s) == ~s.done => \A i \in Nat : i < s.next => i \in s.sent

Served(s) ==
  /\ SentSoFar(s)
  /\ s.result.result = "Success" => AllSent(s)

UploadInv(s) == Inv(s, Acks) /\ Served(s)

UploadStep(s, t) == UploadInv(t) /\ Answers(s, t, Acks)

LEMMA MovesServed ==
  ASSUME NEW s, NEW t, Served(s), Moves(s, t)
  PROVE  Served(t)
  BY DEF Moves, SameProgress, Served, SentSoFar, AllSent

\* Whatever moves an item without sending a waypoint is a step of an upload.
LEMMA UploadMoves ==
  ASSUME NEW s, NEW t, UploadInv(s), Inv(t, Acks), Answers(s, t, Acks), Moves(s, t)
  PROVE  UploadStep(s, t)
  BY MovesServed DEF UploadStep, UploadInv

\* The item t got from s by changes that a handler makes first.
LEMMA UploadThen ==
  ASSUME NEW s, NEW t, NEW u, SameReports(s, t), Answers(t, u, Acks)
  PROVE  Answers(s, u, Acks)
  BY DEF SameReports, Answers

\* send_inspection_item(), for a sequence number within what was sent.
LEMMA SendItemStep ==
  ASSUME NEW s, UploadInv(s), s.retries < Retries, NEW side, NEW o \in SendItem(s, side)
  PROVE  UploadStep(s, o.item)
<1>1. s \in Uploads /\ s.next \in Nat /\ s.retries \in Nat /\ s.sent \in SUBSET Nat
  BY DEF UploadInv, Inv, Core, Uploads, Work
<1>2. CASE s.next >= Len(s.list.items)
  BY <1>2 DEF SendItem, Quietly, UploadStep, Answers
<1>3. CASE ~(s.next >= Len(s.list.items))
  <2> DEFINE t == [s EXCEPT !.next = @ + 1]
             m == Item(side, s.next, s.list.items[s.next + 1])
  <2>1. PICK p \in Try(t, m) : o = IF p.out = {} THEN p
                                   ELSE [p EXCEPT !.item.sent = @ \cup {s.next}]
    BY <1>3 DEF SendItem
  <2>2. PICK sent \in SendOutcomes :
          p = IF sent
              THEN [item |-> [t EXCEPT !.retries = @ + 1], out |-> {m}]
              ELSE [item |-> Report(RemoveTimeout(t), "ConnectionError"), out |-> {}]
    BY <2>1 DEF Try
  <2> HIDE DEF m
  <2>3. t \in Uploads
    BY <1>1 DEF Uploads, Work
  <2>4. /\ t.next = s.next + 1 /\ t.list = s.list /\ t.sent = s.sent
        /\ SameReports(s, t) /\ SameTimers(s, t) /\ t.queued = s.queued /\ t.retries = s.retries
    BY <1>1 DEF Uploads, Work, SameReports, SameTimers
  <2> HIDE DEF t
  <2>5. Inv(t, Acks)
    BY <2>3, <2>4, UpdateTimed DEF UploadInv, Uploads
  <2>6. CASE sent
    <3> DEFINE x == [t EXCEPT !.retries = @ + 1]
               u == [x EXCEPT !.sent = @ \cup {s.next}]
    <3>1. p = [item |-> x, out |-> {m}]
      BY <2>2, <2>6
    <3>2. x \in Uploads
      BY <2>3 DEF Uploads, Work
    <3>3. /\ x.retries = s.retries + 1 /\ SameReports(s, x) /\ SameTimers(s, x)
          /\ x.queued = s.queued /\ x.next = s.next + 1 /\ x.list = s.list /\ x.sent = s.sent
      BY <2>3, <2>4 DEF Uploads, Work, SameReports, SameTimers
    <3> HIDE DEF x
    <3>4. o.item = u
      BY <2>1, <3>1
    <3>5. u \in Uploads
      BY <1>1, <3>2, <3>3 DEF Uploads, Work
    <3>6. /\ u.retries = s.retries + 1 /\ SameReports(s, u) /\ SameTimers(s, u)
          /\ u.queued = s.queued /\ u.next = s.next + 1 /\ u.list = s.list
          /\ u.sent = s.sent \cup {s.next}
      BY <3>2, <3>3 DEF Uploads, Work, SameReports, SameTimers
    <3> HIDE DEF u
    <3>7. Inv(u, Acks)
      BY <1>1, <3>5, <3>6, RetriesAssumption
      DEF UploadInv, Inv, Core, ReportsWhenDone, RetriesBounded, NeverWedged, TimerPending,
          SameReports, SameTimers, QueuedUntilDone, Uploads
    <3>8. Served(u)
      BY <1>1, <3>6 DEF UploadInv, Served, SentSoFar, AllSent, SameReports
    <3>9. Answers(s, u, Acks)
      BY <3>6 DEF SameReports, Answers
    <3> QED BY <3>4, <3>7, <3>8, <3>9 DEF UploadStep, UploadInv
  <2>7. CASE ~sent
    <3> DEFINE r == RemoveTimeout(t)
    <3>1. o.item = Report(r, "ConnectionError")
      BY <2>1, <2>2, <2>7
    <3>2. Core(r, Acks) /\ SameReports(t, r) /\ SameProgress(t, r)
      BY <2>5, RemoveTimeoutStep DEF Inv
    <3> HIDE DEF r
    <3>3. /\ Inv(o.item, Acks) /\ o.item.done /\ Answers(r, o.item, Acks)
          /\ SameProgress(r, o.item)
          /\ o.item.result = r.result \/ o.item.result.result = "ConnectionError"
      BY <3>1, <3>2, ReportStep
    <3>4. Served(o.item)
      BY <2>4, <3>2, <3>3
      DEF UploadInv, Served, SentSoFar, AllSent, SameReports, SameProgress
    <3> QED
      BY <2>4, <3>2, <3>3, <3>4 DEF UploadStep, UploadInv, SameReports, Answers
  <2> QED BY <2>6, <2>7
<1> QED BY <1>2, <1>3

\* A READ goes back or serves the next waypoint, never one beyond.
LEMMA ServeStep ==
  ASSUME NEW s, UploadInv(s), NEW i \in SeqNumbers, NEW side, NEW o \in Serve(s, i, side)
  PROVE  UploadStep(s, o.item)
<1> DEFINE t == [s EXCEPT !.step = "SendItems"]
           u == [t EXCEPT !.next = i]
           v == [t EXCEPT !.retries = 0]
<1>1. s \in Uploads /\ s.next \in Nat /\ s.retries \in Nat /\ i \in Nat
  BY LinkAssumption DEF UploadInv, Inv, Core, Uploads, Work, SeqNumbers
<1>2. \/ i > s.next /\ o \in Quietly(t)
      \/ i < s.next /\ o \in Quietly(Report(RemoveTimeout(t), "Timeout"))
      \/ i < s.next /\ s.retries < Retries /\ o \in SendItem(u, side)
      \/ i = s.next /\ o \in SendItem(v, side)
  <2>1. CASE i > s.next
    BY <1>1, <2>1 DEF Serve
  <2>2. CASE i < s.next /\ s.retries >= Retries
    BY <1>1, <2>2, RetriesAssumption DEF Serve
  <2>3. CASE i < s.next /\ s.retries < Retries
    BY <1>1, <2>3, RetriesAssumption DEF Serve
  <2>4. CASE i = s.next
    BY <1>1, <2>4 DEF Serve
  <2> QED BY <1>1, <2>1, <2>2, <2>3, <2>4, RetriesAssumption
<1>3. t \in Uploads /\ "SendItems" \in Steps
  BY <1>1 DEF Uploads, Work, Steps
<1>4. /\ SameReports(s, t) /\ SameTimers(s, t) /\ SameProgress(s, t)
      /\ t.queued = s.queued /\ t.retries = s.retries
  BY <1>1 DEF Uploads, Work, SameReports, SameTimers, SameProgress
<1> HIDE DEF t
<1>5. UploadInv(t)
  BY <1>3, <1>4, UpdateTimed, MovesServed DEF UploadInv, Uploads, Moves, SameReports
<1>6. CASE o \in Quietly(t)
  BY <1>4, <1>5, <1>6 DEF Quietly, UploadStep, Answers, SameReports
<1>7. CASE o \in Quietly(Report(RemoveTimeout(t), "Timeout"))
  <2> DEFINE r == RemoveTimeout(t)
  <2>1. Core(r, Acks) /\ SameReports(t, r) /\ SameProgress(t, r)
    BY <1>5, RemoveTimeoutStep DEF UploadInv, Inv
  <2>2. o.item = Report(r, "Timeout")
    BY <1>7 DEF Quietly
  <2> HIDE DEF r
  <2>3. Inv(o.item, Acks) /\ Answers(t, o.item, Acks) /\ Moves(t, o.item)
    BY <2>1, <2>2, ReportStep DEF SameReports, SameProgress, Answers, Moves
  <2> QED BY <1>4, <1>5, <2>3, UploadMoves, UploadThen DEF UploadStep
<1>8. CASE i < s.next /\ s.retries < Retries /\ o \in SendItem(u, side)
  <2>1. u \in Uploads
    BY <1>1, <1>3 DEF Uploads, Work
  <2>2. /\ SameReports(t, u) /\ SameTimers(t, u) /\ u.queued = t.queued /\ u.retries = t.retries
        /\ u.next = i /\ u.list = t.list /\ u.sent = t.sent
    BY <1>3 DEF Uploads, Work, SameReports, SameTimers
  <2> HIDE DEF u
  <2>3. Inv(u, Acks)
    BY <1>5, <2>1, <2>2, UpdateTimed DEF UploadInv, Uploads
  <2>4. Served(u)
    BY <1>1, <1>4, <1>5, <1>8, <2>2
    DEF UploadInv, Served, SentSoFar, AllSent, SameReports, SameProgress
  <2>5. UploadStep(u, o.item)
    BY <1>4, <1>8, <2>2, <2>3, <2>4, SendItemStep DEF UploadInv
  <2> QED BY <1>4, <2>2, <2>5 DEF UploadStep, SameReports, Answers
<1>9. CASE i = s.next /\ o \in SendItem(v, side)
  <2>1. v \in Uploads
    BY <1>3 DEF Uploads, Work
  <2>2. /\ SameReports(t, v) /\ SameTimers(t, v) /\ v.queued = t.queued /\ v.retries = 0
        /\ SameProgress(t, v)
    BY <1>3 DEF Uploads, Work, SameReports, SameTimers, SameProgress
  <2> HIDE DEF v
  <2>3. Inv(v, Acks)
    BY <1>5, <2>1, <2>2, UpdateTimed DEF UploadInv, Uploads
  <2>4. Served(v)
    BY <1>5, <2>2, MovesServed DEF UploadInv, Moves, SameReports
  <2>5. UploadStep(v, o.item)
    BY <1>9, <2>2, <2>3, <2>4, SendItemStep, RetriesAssumption DEF UploadInv
  <2> QED BY <1>4, <2>2, <2>5 DEF UploadStep, SameReports, Answers
<1> QED BY <1>2, <1>6, <1>7, <1>8, <1>9

\* An ACK counts as a success only with the sequence number at the end.
LEMMA AcknowledgedStep ==
  ASSUME NEW s, UploadInv(s), NEW a \in AckTypes, NEW o \in Acknowledged(s, a)
  PROVE  UploadStep(s, o.item)
<1> DEFINE r == RemoveTimeout(s)
           t == [r EXCEPT !.got = a]
           q == IF s.next = Len(s.list.items) THEN "Success" ELSE "ProtocolError"
<1>1. o.item = Report(t, q) /\ q \in Results
  BY DEF Acknowledged, Quietly
<1>2. Core(r, Acks) /\ SameReports(s, r) /\ SameProgress(s, r) /\ r.retries = s.retries
  BY RemoveTimeoutStep DEF UploadInv, Inv
<1> HIDE DEF r
<1>3. t \in Work(Acks)
  BY <1>2 DEF Core, Work, Acks
<1>4. SameReports(r, t) /\ SameProgress(r, t) /\ t.queued = r.queued /\ t.retries = r.retries
  BY <1>2 DEF Core, Work, SameReports, SameProgress
<1> HIDE DEF t
<1>5. Core(t, Acks)
  BY <1>2, <1>3, <1>4, Update
<1>6. q = "Success" /\ ~t.done => AllSent(t)
  <2> SUFFICES ASSUME q = "Success", ~t.done, NEW k \in DOMAIN t.list.items
               PROVE  k - 1 \in t.sent
    BY DEF AllSent
  <2>1. t.next = Len(t.list.items) /\ t.next \in Nat
    BY <1>2, <1>3, <1>4 DEF SameProgress, Work
  <2>2. t.list \in Lists /\ t.list.items \in Seq(Names)
    BY <1>3, InspectionAssumption DEF Work
  <2>3. k - 1 \in Nat /\ k - 1 < t.next
    BY <2>1, <2>2
  <2>4. SentSoFar(s) /\ ~s.done /\ s.next = t.next /\ s.sent = t.sent
    BY <1>2, <1>4 DEF UploadInv, Served, SameReports, SameProgress
  <2> QED BY <2>3, <2>4 DEF SentSoFar
<1> HIDE DEF q
<1>7. /\ Inv(o.item, Acks) /\ o.item.done /\ Answers(t, o.item, Acks) /\ SameProgress(t, o.item)
      /\ o.item.result = t.result \/ (~t.done /\ o.item.result.result = q)
  BY <1>1, <1>5, ReportStep
<1>8. Served(o.item)
  BY <1>2, <1>4, <1>6, <1>7
  DEF UploadInv, Served, SentSoFar, AllSent, SameReports, SameProgress
<1> QED BY <1>2, <1>4, <1>7, <1>8 DEF UploadStep, UploadInv, SameReports, Answers
-----------------------------------------------------------------------------
(***************************************************************************)
(* Timers that are added before a packet is sent, and whole handlers.      *)
(***************************************************************************)
\* A packet that is sent with a timer for the answer.
LEMMA TimedTryStep ==
  ASSUME NEW Got, NEW s, Core(s, Got), s.retries < Retries,
         NEW m, NEW o \in Try(AddTimeout(s), m)
  PROVE  Inv(o.item, Got) /\ Answers(s, o.item, Got) /\ Moves(s, o.item)
<1> DEFINE t == AddTimeout(s)
<1>1. Inv(t, Got) /\ t.retries = s.retries /\ SameReports(s, t) /\ SameProgress(s, t)
  BY AddTimeoutStep
<1> HIDE DEF t
<1>2. o \in Try(t, m)
  BY DEF t
<1>3. Inv(o.item, Got) /\ Answers(t, o.item, Got) /\ Moves(t, o.item)
  BY <1>1, <1>2, TryStep
<1> QED BY <1>1, <1>3 DEF SameReports, SameProgress, Answers, Moves

\* The callback of a timer that has been taken out begins.
LEMMA FiringStep ==
  ASSUME NEW Got, NEW s, Core(s, Got),
         NEW t, t = [s EXCEPT !.firing = FALSE] \/ t = [s EXCEPT !.firing = FALSE, !.resent = TRUE]
  PROVE  Core(t, Got) /\ SameReports(s, t) /\ SameProgress(s, t) /\ t.retries = s.retries
<1>1. s \in Work(Got)
  BY DEF Core
<1>2. /\ t \in Work(Got) /\ SameReports(s, t) /\ SameProgress(s, t)
      /\ t.retries = s.retries /\ t.queued = s.queued
  <2>1. CASE t = [s EXCEPT !.firing = FALSE]
    BY <1>1, <2>1 DEF Work, SameReports, SameProgress
  <2>2. CASE t = [s EXCEPT !.firing = FALSE, !.resent = TRUE]
    BY <1>1, <2>2 DEF Work, SameReports, SameProgress
  <2> QED BY <2>1, <2>2
<1> QED BY <1>2, Update

\* A report of r after changes that tell the caller nothing.
LEMMA ReportAfter ==
  ASSUME NEW Got, NEW s, NEW t, Core(t, Got), SameReports(s, t), NEW r \in Results
  PROVE  /\ Inv(Report(t, r), Got) /\ Answers(s, Report(t, r), Got)
         /\ r # "Success" /\ SameProgress(s, t) => Moves(s, Report(t, r))
<1>1. /\ Inv(Report(t, r), Got) /\ Answers(t, Report(t, r), Got) /\ SameProgress(t, Report(t, r))
      /\ Report(t, r).done
      /\ Report(t, r).result = t.result \/ Report(t, r).result.result = r
  BY ReportStep
<1> QED BY <1>1 DEF SameReports, SameProgress, Answers, Moves

\* An upload begins at the first waypoint.
LEMMA BackToFirst ==
  ASSUME NEW s, NEW t, Served(s), SameReports(s, t), t.next = 0, t.list = s.list, t.sent = s.sent
  PROVE  Served(t)
  BY DEF Served, SentSoFar, AllSent, SameReports

\* UploadWorkItem::start() on the station.
LEMMA StartUploadStep ==
  ASSUME NEW s, UploadInv(s), NEW o,
         LET t == [s EXCEPT !.started = TRUE] IN
         \/ o \in Quietly(Report(t, "InvalidSequence"))
         \/ o \in SendCount(AddTimeout([t EXCEPT !.retries = 0, !.step = "SendCount", !.next = 0]),
                            "vehicle")
  PROVE  UploadStep(s, o.item)
<1> DEFINE t == [s EXCEPT !.started = TRUE]
           u == [t EXCEPT !.retries = 0, !.step = "SendCount", !.next = 0]
<1>0. o \in Quietly(Report(t, "InvalidSequence")) \/ o \in SendCount(AddTimeout(u), "vehicle")
  OBVIOUS
<1>1. s \in Uploads /\ Core(s, Acks) /\ Served(s)
  BY DEF UploadInv, Inv, Core, Uploads
<1>2. /\ t \in Uploads /\ SameReports(s, t) /\ SameProgress(s, t)
      /\ t.retries = s.retries /\ t.queued = s.queued
  BY <1>1 DEF Uploads, Work, SameReports, SameProgress
<1> HIDE DEF t
<1>3. Core(t, Acks)
  BY <1>1, <1>2, Update DEF Uploads
<1>4. CASE o \in Quietly(Report(t, "InvalidSequence"))
  <2>1. Inv(o.item, Acks) /\ Answers(s, o.item, Acks) /\ Moves(s, o.item)
    BY <1>2, <1>3, <1>4, ReportAfter DEF Quietly
  <2> QED BY <2>1, UploadMoves
<1>5. CASE o \in SendCount(AddTimeout(u), "vehicle")
  <2>1. "SendCount" \in Steps
    BY DEF Steps
  <2>2. /\ u \in Uploads /\ SameReports(t, u) /\ u.retries = 0 /\ u.queued = t.queued
        /\ u.next = 0 /\ u.list = t.list /\ u.sent = t.sent
    BY <1>2, <2>1 DEF Uploads, Work, SameReports
  <2> HIDE DEF u
  <2>3. Core(u, Acks)
    BY <1>3, <2>2, Update DEF Uploads
  <2>4. Served(u)
    BY <1>1, <1>2, <2>2, BackToFirst DEF SameReports, SameProgress
  <2>5. Inv(o.item, Acks) /\ Answers(u, o.item, Acks) /\ Moves(u, o.item)
    BY <1>5, <2>2, <2>3, TimedTryStep, RetriesAssumption DEF SendCount
  <2>6. Served(o.item)
    BY <2>4, <2>5, MovesServed
  <2> QED BY <1>2, <2>2, <2>5, <2>6 DEF UploadStep, UploadInv, SameReports, Answers
<1> QED BY <1>0, <1>4, <1>5

\* UploadWorkItem::start() on the vehicle: the timer is there already.
LEMMA VehicleStartUploadStep ==
  ASSUME NEW s, UploadInv(s),
         NEW t, t = AddTimeout([s EXCEPT !.started = TRUE, !.retries = 0,
                                         !.step = "SendCount", !.hears = {"ACK"}]),
         NEW o,
         \/ o \in SendCount(t, "station")
         \/ o \in Quietly(Report(t, "InvalidSequence"))
         \/ o \in SendCount([t EXCEPT !.next = 0, !.hears = {"ACK", "READ"}], "station")
  PROVE  UploadStep(s, o.item)
<1> DEFINE u == [s EXCEPT !.started = TRUE, !.retries = 0,
                          !.step = "SendCount", !.hears = {"ACK"}]
           v == [t EXCEPT !.next = 0, !.hears = {"ACK", "READ"}]
<1>1. s \in Uploads /\ Core(s, Acks) /\ Served(s) /\ "SendCount" \in Steps
  BY DEF UploadInv, Inv, Core, Uploads, Steps
<1>2. /\ u \in Uploads /\ SameReports(s, u) /\ SameProgress(s, u)
      /\ u.retries = 0 /\ u.queued = s.queued
  BY <1>1 DEF Uploads, Work, SameReports, SameProgress
<1>3. t = AddTimeout(u)
  OBVIOUS
<1> HIDE DEF u
<1>4. Core(u, Acks)
  BY <1>1, <1>2, Update DEF Uploads
<1>5. Inv(t, Acks) /\ t.retries = 0 /\ SameReports(s, t) /\ SameProgress(s, t)
  BY <1>2, <1>3, <1>4, AddTimeoutStep DEF SameReports, SameProgress
<1>6. Served(t)
  BY <1>1, <1>5, MovesServed DEF Moves, SameReports
<1>7. CASE o \in SendCount(t, "station")
  <2>1. UploadStep(t, o.item)
    BY <1>5, <1>6, <1>7, TryStep, UploadMoves, RetriesAssumption DEF SendCount, UploadInv
  <2> QED BY <1>5, <2>1, UploadThen DEF UploadStep
<1>8. CASE o \in Quietly(Report(t, "InvalidSequence"))
  <2>1. Inv(o.item, Acks) /\ Answers(s, o.item, Acks) /\ Moves(s, o.item)
    BY <1>5, <1>8, ReportAfter DEF Quietly, Inv
  <2> QED BY <2>1, UploadMoves
<1>9. CASE o \in SendCount(v, "station")
  <2>1. t \in Uploads
    BY <1>5 DEF Inv, Core, Uploads
  <2>2. /\ v \in Uploads /\ SameReports(t, v) /\ SameTimers(t, v)
        /\ v.retries = t.retries /\ v.queued = t.queued
        /\ v.next = 0 /\ v.list = t.list /\ v.sent = t.sent
    BY <2>1 DEF Uploads, Work, SameReports, SameTimers
  <2> HIDE DEF v
  <2>3. Inv(v, Acks)
    BY <1>5, <2>2, UpdateTimed DEF Uploads
  <2>4. Served(v)
    BY <1>6, <2>2, BackToFirst
  <2>5. UploadStep(v, o.item)
    BY <1>5, <1>9, <2>2, <2>3, <2>4, TryStep, UploadMoves, RetriesAssumption
    DEF SendCount, UploadInv
  <2> QED BY <1>5, <2>2, <2>5 DEF UploadStep, SameReports, Answers
<1> QED BY <1>7, <1>8, <1>9

\* UploadWorkItem::process_timeout(), which on the vehicle only gives up.
LEMMA TimeoutUploadStep ==
  ASSUME NEW s, UploadInv(s), NEW t, t = [s EXCEPT !.firing = FALSE],
         NEW o,
         \/ o \in Quietly(Report(t, "Timeout"))
         \/ /\ ~(s.retries >= Retries)
            /\ o \in SendCount(AddTimeout([t EXCEPT !.resent = TRUE]), "vehicle")
  PROVE  UploadStep(s, o.item)
<1>1. Core(s, Acks) /\ s \in Uploads /\ s.retries \in Nat
  BY DEF UploadInv, Inv, Core, Uploads, Work
<1>2. CASE o \in Quietly(Report(t, "Timeout"))
  <2>1. Core(t, Acks) /\ SameReports(s, t) /\ SameProgress(s, t)
    BY <1>1, FiringStep
  <2>2. Inv(o.item, Acks) /\ Answers(s, o.item, Acks) /\ Moves(s, o.item)
    BY <1>2, <2>1, ReportAfter DEF Quietly
  <2> QED BY <2>2, UploadMoves
<1>3. CASE /\ ~(s.retries >= Retries)
           /\ o \in SendCount(AddTimeout([t EXCEPT !.resent = TRUE]), "vehicle")
  <2> DEFINE u == [t EXCEPT !.resent = TRUE]
  <2>1. u = [s EXCEPT !.firing = FALSE, !.resent = TRUE]
    BY <1>1 DEF Uploads, Work
  <2>2. o \in SendCount(AddTimeout(u), "vehicle")
    BY <1>3
  <2> HIDE DEF u
  <2>3. Core(u, Acks) /\ SameReports(s, u) /\ SameProgress(s, u) /\ u.retries = s.retries
    BY <1>1, <2>1, FiringStep
  <2>4. Inv(o.item, Acks) /\ Answers(u, o.item, Acks) /\ Moves(u, o.item)
    BY <1>1, <1>3, <2>2, <2>3, TimedTryStep, RetriesAssumption DEF SendCount
  <2>5. Answers(s, o.item, Acks) /\ Moves(s, o.item)
    BY <2>3, <2>4 DEF SameReports, SameProgress, Answers, Moves
  <2> QED BY <2>4, <2>5, UploadMoves
<1> QED BY <1>2, <1>3
-----------------------------------------------------------------------------
(***************************************************************************)
(* Fresh items.                                                            *)
(***************************************************************************)
LEMMA NoListTyped == NoList \in Lists /\ NoList \in Gathered
<1>1. NoList \in Lists
  BY InspectionAssumption
<1>2. NoList.plan \in Plans
  BY <1>1, InspectionAssumption
<1> QED BY <1>1, <1>2 DEF Gathered, NoList

LEMMA NothingStep ==
  ASSUME NEW Got, NEW g \in Got, NEW q \in Steps
  PROVE  Inv(NoWork(g, q), Got) /\ NoWork(g, q).done
  BY NoListTyped, RetriesAssumption
  DEF NoWork, Inv, Core, Work, ReportsWhenDone, RetriesBounded, QueuedUntilDone, NeverWedged

\* A constructor makes an item that is not done and has no result.
LEMMA FreshStep ==
  ASSUME NEW Got, NEW g \in Got, NEW q \in Steps, NEW s \in Work(Got),
         NEW h \in SUBSET {"COUNT", "READ", "ITEM", "ACK"}
  PROVE  LET t == Fresh(NoWork(g, q), s, h) IN
         /\ Inv(t, Got) /\ ~t.done /\ t.next = 0
         /\ t.result = NoWork(g, q).result
<1> DEFINE w == NoWork(g, q)
           n == LostTimers(s)
           t == Fresh(w, s, h)
<1>1. /\ w \in Work(Got) /\ w.started = FALSE /\ w.next = 0 /\ w.retries = 0
  BY NothingStep DEF Inv, Core, NoWork
<1>2. n \in Nat
  BY DEF LostTimers, Work
<1>3. t = [w EXCEPT !.queued = TRUE, !.done = FALSE, !.callback = TRUE, !.reports = 0,
                    !.hears = h, !.orphans = n, !.firing = s.firing]
  BY DEF Fresh
<1> HIDE DEF w, n, t
<1>4. t \in Work(Got)
  BY <1>1, <1>2, <1>3 DEF Work
<1>5. /\ t.queued = TRUE /\ t.done = FALSE /\ t.callback = TRUE /\ t.reports = 0
      /\ t.started = FALSE /\ t.next = 0 /\ t.retries = 0 /\ t.result = w.result
  BY <1>1, <1>3 DEF Work
<1>6. Inv(t, Got)
  BY <1>4, <1>5, RetriesAssumption
  DEF Inv, Core, ReportsWhenDone, RetriesBounded, QueuedUntilDone, NeverWedged
<1> QED BY <1>5, <1>6 DEF t, w

\* A new upload, where the item s was.
LEMMA NewUploadStep ==
  ASSUME NEW s, UploadInv(s), NEW h \in SUBSET {"COUNT", "READ", "ITEM", "ACK"},
         NEW l \in Lists
  PROVE  LET t == [Fresh(NoUpload, s, h) EXCEPT !.list = l] IN
         UploadInv(t) /\ ~t.done /\ t.result = NoUpload.result
<1> DEFINE f == Fresh(NoUpload, s, h)
           t == [f EXCEPT !.list = l]
<1>1. "Unknown" \in Acks /\ "SendCount" \in Steps /\ s \in Work(Acks)
  BY DEF Acks, Steps, UploadInv, Inv, Core
<1>2. Inv(f, Acks) /\ ~f.done /\ f.next = 0 /\ f.result = NoUpload.result
  BY <1>1, FreshStep DEF NoUpload
<1> HIDE DEF f
<1>3. /\ t \in Work(Acks) /\ SameReports(f, t) /\ SameTimers(f, t)
      /\ t.retries = f.retries /\ t.queued = f.queued /\ t.next = f.next
  BY <1>2 DEF Inv, Core, Work, SameReports, SameTimers
<1> HIDE DEF t
<1>4. Inv(t, Acks)
  BY <1>2, <1>3, UpdateTimed
<1>5. NoUpload.result.result = NoResult
  BY DEF NoUpload, NoWork
<1>6. Served(t)
  BY <1>2, <1>3, <1>5 DEF Served, SentSoFar, SameReports
<1> QED BY <1>2, <1>3, <1>4, <1>6 DEF UploadInv, SameReports, t, f
-----------------------------------------------------------------------------
(***************************************************************************)
(* Downloads.                                                              *)
(***************************************************************************)
DownloadStep(s, t) == Inv(t, Gathered) /\ Answers(s, t, Gathered)

\* The item that the vehicle makes of a COUNT, where the item s was.
Counted(s, n, p) == [Fresh(NoDownload, s, {}) EXCEPT !.expected = n, !.got.plan = p]

\* A new download of the station, and one of the vehicle.
LEMMA NewDownloadStep ==
  ASSUME NEW s, Inv(s, Gathered), NEW h \in SUBSET {"COUNT", "READ", "ITEM", "ACK"}
  PROVE  LET f == Fresh(NoDownload, s, h) IN
         Inv(f, Gathered) /\ ~f.done /\ f.result = NoDownload.result
<1>1. "RequestList" \in Steps /\ s \in Work(Gathered)
  BY DEF Steps, Inv, Core
<1> QED BY <1>1, NoListTyped, FreshStep DEF NoDownload

LEMMA CountedStep ==
  ASSUME NEW s, Inv(s, Gathered), NEW p \in Plans, NEW n \in Nat
  PROVE  LET t == Counted(s, n, p) IN
         Inv(t, Gathered) /\ ~t.done /\ t.result = NoDownload.result
<1> DEFINE f == Fresh(NoDownload, s, {})
           u == Counted(s, n, p)
<1>1. u = [f EXCEPT !.expected = n, !.got.plan = p]
  BY DEF Counted
<1>2. Inv(f, Gathered) /\ ~f.done /\ f.result = NoDownload.result
  BY NewDownloadStep
<1> HIDE DEF f, u
<1>3. f \in Work(Gathered) /\ f.got \in Gathered
  BY <1>2 DEF Inv, Core, Work
<1>4. [f.got EXCEPT !.plan = p] \in Gathered
  BY <1>3 DEF Gathered
<1>5. u = [f EXCEPT !.expected = n, !.got = [f.got EXCEPT !.plan = p]]
  BY <1>1, <1>3 DEF Work
<1>6. /\ u \in Work(Gathered) /\ SameReports(f, u) /\ SameTimers(f, u)
      /\ u.retries = f.retries /\ u.queued = f.queued
  BY <1>3, <1>4, <1>5 DEF Work, SameReports, SameTimers
<1>7. Inv(u, Gathered)
  BY <1>2, <1>6, UpdateTimed
<1>8. ~u.done /\ u.result = NoDownload.result
  BY <1>2, <1>6 DEF SameReports
<1> QED BY <1>7, <1>8 DEF u

\* DownloadWorkItem::start() on the station.
LEMMA StartDownloadStep ==
  ASSUME NEW s, Inv(s, Gathered), NEW m,
         NEW o \in Try(AddTimeout([s EXCEPT !.got = NoList, !.started = TRUE, !.retries = 0]), m)
  PROVE  DownloadStep(s, o.item)
<1> DEFINE t == [s EXCEPT !.got = NoList, !.started = TRUE, !.retries = 0]
<1>1. s \in Work(Gathered) /\ Core(s, Gathered)
  BY DEF Inv, Core
<1>2. t \in Work(Gathered) /\ SameReports(s, t) /\ t.retries = 0 /\ t.queued = s.queued
  BY <1>1, NoListTyped DEF Work, SameReports
<1>3. o \in Try(AddTimeout(t), m)
  OBVIOUS
<1> HIDE DEF t
<1>4. Core(t, Gathered)
  BY <1>1, <1>2, Update
<1>5. Inv(o.item, Gathered) /\ Answers(t, o.item, Gathered)
  BY <1>2, <1>3, <1>4, TimedTryStep, RetriesAssumption
<1> QED BY <1>2, <1>5 DEF DownloadStep, SameReports, Answers

\* DownloadWorkItem::start() on the vehicle: an empty list is a Success.
LEMMA VehicleStartDownloadStep ==
  ASSUME NEW s, Inv(s, Gathered), NEW o,
         LET t == [s EXCEPT !.started = TRUE, !.hears = {"ITEM"}] IN
         \/ o \in Quietly(Report(t, "Success"))
         \/ o \in RequestItem(AddTimeout([t EXCEPT !.got.items = <<>>, !.retries = 0, !.next = 0]),
                              "station")
  PROVE  DownloadStep(s, o.item)
<1> DEFINE t == [s EXCEPT !.started = TRUE, !.hears = {"ITEM"}]
           u == [t EXCEPT !.got.items = <<>>, !.retries = 0, !.next = 0]
<1>1. o \in Quietly(Report(t, "Success")) \/ o \in RequestItem(AddTimeout(u), "station")
  OBVIOUS
<1>2. s \in Work(Gathered) /\ Core(s, Gathered)
  BY DEF Inv, Core
<1>3. /\ t \in Work(Gathered) /\ SameReports(s, t) /\ t.retries = s.retries
      /\ t.queued = s.queued
  BY <1>2 DEF Work, SameReports
<1> HIDE DEF t
<1>4. Core(t, Gathered)
  BY <1>2, <1>3, Update
<1>5. CASE o \in Quietly(Report(t, "Success"))
  BY <1>3, <1>4, <1>5, ReportAfter DEF Quietly, DownloadStep
<1>6. CASE o \in RequestItem(AddTimeout(u), "station")
  <2> DEFINE e == <<>>
  <2>1. t.got \in Gathered /\ e \in Seq(Waypoints)
    BY <1>3 DEF Work
  <2> HIDE DEF e
  <2>2. [t.got EXCEPT !.items = e] \in Gathered
    BY <2>1 DEF Gathered
  <2>3. u = [t EXCEPT !.got = [t.got EXCEPT !.items = e], !.retries = 0, !.next = 0]
    BY <1>3 DEF Work, e
  <2> HIDE DEF u
  <2>4. u \in Work(Gathered) /\ SameReports(t, u) /\ u.retries = 0 /\ u.queued = t.queued
    BY <1>3, <2>2, <2>3 DEF Work, SameReports
  <2>5. Core(u, Gathered)
    BY <1>4, <2>4, Update
  <2>6. Inv(o.item, Gathered) /\ Answers(u, o.item, Gathered)
    BY <1>6, <2>4, <2>5, TimedTryStep, RetriesAssumption DEF RequestItem
  <2> QED BY <1>3, <2>4, <2>6 DEF DownloadStep, SameReports, Answers
<1> QED BY <1>1, <1>5, <1>6

\* process_inspection_count() with something to read.
LEMMA CountStep ==
  ASSUME NEW s, Inv(s, Gathered), NEW p \in Plans, NEW n \in Nat,
         NEW o \in RequestItem([s EXCEPT !.next = 0, !.step = "RequestItem", !.retries = 0,
                                         !.expected = n, !.got.plan = p], "vehicle")
  PROVE  DownloadStep(s, o.item)
<1> DEFINE t == [s EXCEPT !.next = 0, !.step = "RequestItem", !.retries = 0,
                          !.expected = n, !.got.plan = p]
<1>1. s \in Work(Gathered) /\ s.got \in Gathered /\ "RequestItem" \in Steps
  BY DEF Inv, Core, Work, Steps
<1>2. [s.got EXCEPT !.plan = p] \in Gathered
  BY <1>1 DEF Gathered
<1>3. t = [s EXCEPT !.next = 0, !.step = "RequestItem", !.retries = 0,
                    !.expected = n, !.got = [s.got EXCEPT !.plan = p]]
  BY <1>1 DEF Work
<1>4. o \in RequestItem(t, "vehicle")
  OBVIOUS
<1> HIDE DEF t
<1>5. /\ t \in Work(Gathered) /\ SameReports(s, t) /\ SameTimers(s, t)
      /\ t.retries = 0 /\ t.queued = s.queued
  BY <1>1, <1>2, <1>3 DEF Work, SameReports, SameTimers
<1>6. Inv(t, Gathered)
  BY <1>5, UpdateTimed
<1>7. Inv(o.item, Gathered) /\ Answers(t, o.item, Gathered)
  BY <1>4, <1>5, <1>6, TryStep, RetriesAssumption DEF RequestItem
<1> QED BY <1>5, <1>7 DEF DownloadStep, SameReports, Answers

\* ... and with nothing to read, where the timer is removed last.
LEMMA EmptyCountStep ==
  ASSUME NEW s, Inv(s, Gathered), NEW o \in Accepted(s)
  PROVE  DownloadStep(s, RemoveTimeout(o.item))
<1> DEFINE t == RemoveTimeout(o.item)
<1>1. Inv(o.item, Gathered) /\ Answers(s, o.item, Gathered) /\ o.item.done
  BY FinishStep DEF Accepted, Inv
<1>2. Core(t, Gathered) /\ SameReports(o.item, t)
  BY <1>1, RemoveTimeoutStep DEF Inv
<1> HIDE DEF t
<1>3. DownloadStep(s, t)
  BY <1>1, <1>2 DEF DownloadStep, Inv, NeverWedged, SameReports, Answers
<1> QED BY <1>3 DEF t

\* process_inspection_item()
LEMMA CollectStep ==
  ASSUME NEW s, Inv(s, Gathered), NEW i \in SeqNumbers, NEW w \in Names, NEW to, NEW side,
         NEW o \in Collect(s, Item(to, i, w), side)
  PROVE  DownloadStep(s, o.item)
<1> DEFINE x == [seq |-> i, name |-> w]
           t == [s EXCEPT !.got.items = Append(@, x)]
           u == [t EXCEPT !.next = i + 1, !.retries = 0]
           r == RemoveTimeout(t)
<1>1. s \in Work(Gathered) /\ s.got \in Gathered /\ s.got.items \in Seq(Waypoints)
  BY DEF Inv, Core, Work, Gathered
<1>2. x \in Waypoints /\ i + 1 \in Nat
  BY LinkAssumption DEF Waypoints, SeqNumbers
<1>3. o \in AllCollected(r, side) \/ o \in RequestItem(u, side)
  BY DEF Collect, Item
<1> HIDE DEF x
<1>4. [s.got EXCEPT !.items = Append(s.got.items, x)] \in Gathered
  BY <1>1, <1>2 DEF Gathered
<1>5. t = [s EXCEPT !.got = [s.got EXCEPT !.items = Append(s.got.items, x)]]
  BY <1>1 DEF Work, Gathered
<1> HIDE DEF t
<1>6. /\ t \in Work(Gathered) /\ SameReports(s, t) /\ SameTimers(s, t)
      /\ t.retries = s.retries /\ t.queued = s.queued
  BY <1>1, <1>4, <1>5 DEF Work, SameReports, SameTimers
<1>7. Inv(t, Gathered)
  BY <1>6, UpdateTimed
<1>8. CASE o \in AllCollected(r, side)
  <2>1. Core(r, Gathered) /\ SameReports(t, r)
    BY <1>7, RemoveTimeoutStep DEF Inv
  <2> HIDE DEF r
  <2>2. o \in Accepted(r) \/ o \in Quietly(Report(r, "Success"))
    BY <1>8 DEF AllCollected
  <2>3. Inv(o.item, Gathered) /\ Answers(r, o.item, Gathered)
    BY <2>1, <2>2, FinishStep, ReportStep DEF Accepted, Quietly
  <2> QED BY <1>6, <2>1, <2>3 DEF DownloadStep, SameReports, Answers
<1>9. CASE o \in RequestItem(u, side)
  <2>1. /\ u \in Work(Gathered) /\ SameReports(t, u) /\ SameTimers(t, u)
        /\ u.retries = 0 /\ u.queued = t.queued
    BY <1>2, <1>6 DEF Work, SameReports, SameTimers
  <2> HIDE DEF u
  <2>2. Inv(u, Gathered)
    BY <1>7, <2>1, UpdateTimed
  <2>3. Inv(o.item, Gathered) /\ Answers(u, o.item, Gathered)
    BY <1>9, <2>1, <2>2, TryStep, RetriesAssumption DEF RequestItem
  <2> QED BY <1>6, <2>1, <2>3 DEF DownloadStep, SameReports, Answers
<1> QED BY <1>3, <1>8, <1>9

\* DownloadWorkItem::process_timeout()
LEMMA TimeoutDownloadStep ==
  ASSUME NEW s, Inv(s, Gathered), NEW m, NEW o,
         LET t == [s EXCEPT !.firing = FALSE] IN
         \/ o \in Quietly(Report(t, "Timeout"))
         \/ ~(s.retries >= Retries) /\ o \in Try(AddTimeout([t EXCEPT !.resent = TRUE]), m)
  PROVE  DownloadStep(s, o.item)
<1> DEFINE t == [s EXCEPT !.firing = FALSE]
           u == [t EXCEPT !.resent = TRUE]
<1>1. \/ o \in Quietly(Report(t, "Timeout"))
      \/ ~(s.retries >= Retries) /\ o \in Try(AddTimeout(u), m)
  OBVIOUS
<1>2. Core(s, Gathered) /\ s.retries \in Nat /\ u = [s EXCEPT !.firing = FALSE, !.resent = TRUE]
  BY DEF Inv, Core, Work
<1>3. Core(t, Gathered) /\ SameReports(s, t)
  BY <1>2, FiringStep
<1> HIDE DEF t, u
<1>4. Core(u, Gathered) /\ SameReports(s, u) /\ u.retries = s.retries
  BY <1>2, FiringStep
<1>5. CASE o \in Quietly(Report(t, "Timeout"))
  BY <1>3, <1>5, ReportAfter DEF Quietly, DownloadStep
<1>6. CASE ~(s.retries >= Retries) /\ o \in Try(AddTimeout(u), m)
  <2>1. u.retries < Retries
    BY <1>2, <1>4, <1>6, RetriesAssumption
  <2>2. Inv(o.item, Gathered) /\ Answers(u, o.item, Gathered)
    BY <1>4, <1>6, <2>1, TimedTryStep
  <2> QED BY <1>4, <2>2 DEF DownloadStep, SameReports, Answers
<1> QED BY <1>1, <1>5, <1>6
-----------------------------------------------------------------------------
(***************************************************************************)
(* The inductive invariant, and what a step does to each of the items:     *)
(* nothing that a handler of one item does touches another.                *)
(***************************************************************************)
IInv ==
  /\ UploadInv(up) /\ Inv(down, Gathered)
  /\ UploadInv(vup) /\ Inv(vdown, Gathered)
  /\ offered \in Lists

\* From s to t, an upload and the number of uploads begun.
UploadMove(s, t, c, d) ==
  \/ UploadStep(s, t) /\ d = c
  \/ s.done /\ UploadInv(t) /\ ~t.done /\ t.result = NoUpload.result /\ d = c + 1

DownloadMove(s, t, c, d) ==
  \/ DownloadStep(s, t) /\ d = c
  \/ s.done /\ Inv(t, Gathered) /\ ~t.done /\ t.result = NoDownload.result /\ d = c + 1

LEMMA UploadStays ==
  ASSUME NEW s, UploadInv(s), NEW c
  PROVE  UploadMove(s, s, c, c)
  BY DEF UploadMove, UploadStep, Answers

LEMMA DownloadStays ==
  ASSUME NEW s, Inv(s, Gathered), NEW c
  PROVE  DownloadMove(s, s, c, c)
  BY DEF DownloadMove, DownloadStep, Answers

\* An item nobody refers to is done.
LEMMA FreeIsDone ==
  ASSUME NEW Got, NEW s, Inv(s, Got), ~Alive(s)
  PROVE  s.done
  BY DEF Inv, Core, QueuedUntilDone, Alive

\* The pieces that are the same for an upload of either side.
LEMMA UploadPieces ==
  ASSUME NEW s, UploadInv(s)
  PROVE  /\ \A side, o : o \in Cancelled(s, side) => UploadStep(s, o.item)
         /\ \A t \in Expired(s) : UploadStep(s, t)
         /\ UploadStep(s, Held(s))
         /\ CanPop(s) => UploadStep(s, Popped(s))
<1>1. Inv(s, Acks)
  BY DEF UploadInv
<1>2. ASSUME NEW side, NEW o \in Cancelled(s, side) PROVE UploadStep(s, o.item)
  BY <1>1, CancelStep, UploadMoves
<1>3. ASSUME NEW t \in Expired(s) PROVE UploadStep(s, t)
  BY <1>1, ExpireStep, UploadMoves
<1>4. UploadStep(s, Held(s))
  BY <1>1, HoldStep, UploadMoves
<1>5. CanPop(s) => UploadStep(s, Popped(s))
  BY <1>1, PopStep, UploadMoves
<1> QED BY <1>2, <1>3, <1>4, <1>5

LEMMA DownloadPieces ==
  ASSUME NEW s, Inv(s, Gathered)
  PROVE  /\ \A side, o : o \in Cancelled(s, side) => DownloadStep(s, o.item)
         /\ \A t \in Expired(s) : DownloadStep(s, t)
         /\ DownloadStep(s, Held(s))
         /\ CanPop(s) => DownloadStep(s, Popped(s))
<1>1. ASSUME NEW side, NEW o \in Cancelled(s, side) PROVE DownloadStep(s, o.item)
  BY CancelStep DEF DownloadStep
<1>2. ASSUME NEW t \in Expired(s) PROVE DownloadStep(s, t)
  BY ExpireStep DEF DownloadStep
<1>3. DownloadStep(s, Held(s))
  BY HoldStep DEF DownloadStep
<1>4. CanPop(s) => DownloadStep(s, Popped(s))
  BY PopStep DEF DownloadStep
<1> QED BY <1>1, <1>2, <1>3, <1>4
-----------------------------------------------------------------------------
(***************************************************************************)
(* The ground station.                                                     *)
(***************************************************************************)
\* A handler of the upload.
StationUpload ==
  \/ CancelUpload \/ StartUpload \/ ExpireUpload \/ TimeoutUpload
  \/ \E i \in SeqNumbers : StationRead(i)
  \/ \E a \in AckTypes : StationAck(a)

StationDownload ==
  \/ CancelDownload \/ StartDownload \/ ExpireDownload \/ TimeoutDownload
  \/ \E p \in Plans, n \in SeqNumbers : StationCount(p, n)
  \/ \E i \in SeqNumbers, w \in Names : StationItem(i, w)

LEMMA StationUploadStep ==
  ASSUME IInv, StationUpload
  PROVE  UploadStep(up, up') /\ UNCHANGED <<down, uploads, downloads>>
<1>0. UploadInv(up)
  BY DEF IInv
<1> USE DEF Ups, callVars
<1>1. CASE CancelUpload
  BY <1>0, <1>1, UploadPieces DEF CancelUpload
<1>2. CASE StartUpload
  BY <1>0, <1>2, StartUploadStep DEF StartUpload
<1>3. CASE ExpireUpload
  BY <1>0, <1>3, UploadPieces DEF ExpireUpload, Quietly
<1>4. CASE TimeoutUpload
  BY <1>0, <1>4, TimeoutUploadStep DEF TimeoutUpload
<1>5. ASSUME NEW i \in SeqNumbers, StationRead(i) PROVE UploadStep(up, up') /\ UNCHANGED <<down, uploads, downloads>>
  BY <1>0, <1>5, ServeStep DEF StationRead
<1>6. ASSUME NEW a \in AckTypes, StationAck(a) PROVE UploadStep(up, up') /\ UNCHANGED <<down, uploads, downloads>>
  BY <1>0, <1>6, AcknowledgedStep DEF StationAck
<1> QED BY <1>1, <1>2, <1>3, <1>4, <1>5, <1>6 DEF StationUpload

LEMMA StationDownloadStep ==
  ASSUME IInv, StationDownload
  PROVE  DownloadStep(down, down') /\ UNCHANGED <<up, uploads, downloads>>
<1>0. Inv(down, Gathered)
  BY DEF IInv
<1> USE DEF Downs, callVars
<1>1. CASE CancelDownload
  BY <1>0, <1>1, DownloadPieces DEF CancelDownload
<1>2. CASE StartDownload
  BY <1>0, <1>2, StartDownloadStep DEF StartDownload
<1>3. CASE ExpireDownload
  BY <1>0, <1>3, DownloadPieces DEF ExpireDownload, Quietly
<1>4. CASE TimeoutDownload
  BY <1>0, <1>4, TimeoutDownloadStep DEF TimeoutDownload, RequestItem
<1>5. ASSUME NEW p \in Plans, NEW n \in SeqNumbers, StationCount(p, n)
      PROVE  DownloadStep(down, down') /\ UNCHANGED <<up, uploads, downloads>>
  <2>1. n \in Nat
    BY LinkAssumption DEF SeqNumbers
  <2>2. CASE n = 0
    <3> DEFINE x(o) == [o EXCEPT !.item = RemoveTimeout(@)]
    <3>1. PICK o \in Accepted(down) : down' = x(o).item
      BY <1>5, <2>2 DEF StationCount
    <3>2. PICK s, out : o = [item |-> s, out |-> out]
      BY DEF Accepted, Finish
    <3>3. down' = RemoveTimeout(o.item)
      BY <3>1, <3>2
    <3>4. DownloadStep(down, down')
      BY <1>0, <3>3, EmptyCountStep
    <3> QED BY <1>5, <2>2, <3>4 DEF StationCount
  <2>3. CASE n # 0
    BY <1>0, <1>5, <2>1, <2>3, CountStep DEF StationCount
  <2> QED BY <2>2, <2>3
<1>6. ASSUME NEW i \in SeqNumbers, NEW w \in Names, StationItem(i, w)
      PROVE  DownloadStep(down, down') /\ UNCHANGED <<up, uploads, downloads>>
  BY <1>0, <1>6, CollectStep DEF StationItem
<1> QED BY <1>1, <1>2, <1>3, <1>4, <1>5, <1>6 DEF StationDownload

LEMMA StationMoves ==
  ASSUME IInv, StationNext
  PROVE  /\ UploadMove(up, up', uploads, uploads')
         /\ DownloadMove(down, down', downloads, downloads')
<1>0. UploadInv(up) /\ Inv(up, Acks) /\ Inv(down, Gathered)
  BY DEF IInv, UploadInv
<1> DEFINE UMove == UploadMove(up, up', uploads, uploads')
           DMove == DownloadMove(down, down', downloads, downloads')
<1>a. UNCHANGED <<up, uploads>> => UMove
  BY <1>0, UploadStays
<1>b. UNCHANGED <<down, downloads>> => DMove
  BY <1>0, DownloadStays
<1>c. UploadStep(up, up') /\ UNCHANGED uploads => UMove
  BY DEF UploadMove
<1>d. DownloadStep(down, down') /\ UNCHANGED downloads => DMove
  BY DEF DownloadMove
<1>1. CASE StationUpload
  BY <1>1, <1>b, <1>c, StationUploadStep
<1>2. CASE StationDownload
  BY <1>2, <1>a, <1>d, StationDownloadStep
<1>3. ASSUME NEW l \in Lists, Upload(l) PROVE UMove /\ DMove
  <2>1. up.done
    BY <1>0, <1>3, FreeIsDone DEF Upload
  <2>2. UploadInv(up') /\ ~up'.done /\ up'.result = NoUpload.result
    BY <1>0, <1>3, NewUploadStep DEF Upload
  <2> QED BY <1>3, <1>b, <2>1, <2>2 DEF Upload, UploadMove
<1>4. CASE Download
  <2>1. down.done
    BY <1>0, <1>4, FreeIsDone DEF Download
  <2>2. Inv(down', Gathered) /\ ~down'.done /\ down'.result = NoDownload.result
    BY <1>0, <1>4, NewDownloadStep DEF Download
  <2> QED BY <1>4, <1>a, <2>1, <2>2 DEF Download, DownloadMove
<1>5. CASE HoldUpload
  BY <1>0, <1>5, <1>b, <1>c, UploadPieces DEF HoldUpload
<1>6. CASE HoldDownload
  BY <1>0, <1>6, <1>a, <1>d, DownloadPieces DEF HoldDownload
<1>7. CASE PopUpload
  BY <1>0, <1>7, <1>b, <1>c, UploadPieces DEF PopUpload, callVars
<1>8. CASE PopDownload
  BY <1>0, <1>8, <1>a, <1>d, DownloadPieces DEF PopDownload, callVars
<1> QED
  BY <1>1, <1>2, <1>3, <1>4, <1>5, <1>6, <1>7, <1>8
  DEF StationNext, StationCancel, StationDoWork, StationRunOnce, StationReceive,
      StationUpload, StationDownload
-----------------------------------------------------------------------------
(***************************************************************************)
(* The robotic vehicle.                                                    *)
(***************************************************************************)
VehicleUpload ==
  \/ VehicleCancelUpload \/ VehicleStartUpload \/ VehicleExpireUpload \/ VehicleTimeoutUpload
  \/ \E i \in SeqNumbers : VehicleRead(i)
  \/ \E a \in AckTypes : VehicleAck(a)

VehicleDownload ==
  \/ VehicleCancelDownload \/ VehicleStartDownload
  \/ VehicleExpireDownload \/ VehicleTimeoutDownload
  \/ \E i \in SeqNumbers, w \in Names : VehicleItem(i, w)

LEMMA VehicleUploadStep ==
  ASSUME IInv, VehicleUpload
  PROVE  UploadStep(vup, vup') /\ UNCHANGED <<vdown, offered, vuploads, vdownloads>>
<1> DEFINE Goal == UploadStep(vup, vup') /\ UNCHANGED <<vdown, offered, vuploads, vdownloads>>
<1>0. UploadInv(vup)
  BY DEF IInv
<1> USE DEF VUps, userVars, servedVars
<1>1. CASE VehicleCancelUpload
  BY <1>0, <1>1, UploadPieces DEF VehicleCancelUpload
<1>2. CASE VehicleStartUpload
  BY <1>0, <1>2, VehicleStartUploadStep DEF VehicleStartUpload
<1>3. CASE VehicleExpireUpload
  BY <1>0, <1>3, UploadPieces DEF VehicleExpireUpload, Quietly
<1>4. CASE VehicleTimeoutUpload
  BY <1>0, <1>4, TimeoutUploadStep DEF VehicleTimeoutUpload
<1>5. ASSUME NEW i \in SeqNumbers, VehicleRead(i) PROVE Goal
  BY <1>0, <1>5, ServeStep DEF VehicleRead
<1>6. ASSUME NEW a \in AckTypes, VehicleAck(a) PROVE Goal
  BY <1>0, <1>6, AcknowledgedStep DEF VehicleAck
<1> QED BY <1>1, <1>2, <1>3, <1>4, <1>5, <1>6 DEF VehicleUpload

LEMMA VehicleDownloadStep ==
  ASSUME IInv, VehicleDownload
  PROVE  DownloadStep(vdown, vdown') /\ UNCHANGED <<vup, offered, vuploads, vdownloads>>
<1> DEFINE Goal == DownloadStep(vdown, vdown') /\ UNCHANGED <<vup, offered, vuploads, vdownloads>>
<1>0. Inv(vdown, Gathered)
  BY DEF IInv
<1> USE DEF VDowns, userVars, servedVars
<1>1. CASE VehicleCancelDownload
  BY <1>0, <1>1, DownloadPieces DEF VehicleCancelDownload
<1>2. CASE VehicleStartDownload
  BY <1>0, <1>2, VehicleStartDownloadStep DEF VehicleStartDownload
<1>3. CASE VehicleExpireDownload
  BY <1>0, <1>3, DownloadPieces DEF VehicleExpireDownload, Quietly
<1>4. CASE VehicleTimeoutDownload
  BY <1>0, <1>4, TimeoutDownloadStep DEF VehicleTimeoutDownload, RequestItem
<1>5. ASSUME NEW i \in SeqNumbers, NEW w \in Names, VehicleItem(i, w) PROVE Goal
  BY <1>0, <1>5, CollectStep DEF VehicleItem
<1> QED BY <1>1, <1>2, <1>3, <1>4, <1>5 DEF VehicleDownload

LEMMA VehicleMoves ==
  ASSUME IInv, VehicleNext
  PROVE  /\ UploadMove(vup, vup', vuploads, vuploads')
         /\ DownloadMove(vdown, vdown', vdownloads, vdownloads')
         /\ offered' \in Lists
<1>0. UploadInv(vup) /\ Inv(vup, Acks) /\ Inv(vdown, Gathered) /\ offered \in Lists
  BY DEF IInv, UploadInv
<1> DEFINE UMove == UploadMove(vup, vup', vuploads, vuploads')
           DMove == DownloadMove(vdown, vdown', vdownloads, vdownloads')
           Goal == UMove /\ DMove /\ offered' \in Lists
<1>a. UNCHANGED <<vup, vuploads>> => UMove
  BY <1>0, UploadStays
<1>b. UNCHANGED <<vdown, vdownloads>> => DMove
  BY <1>0, DownloadStays
<1>c. UploadStep(vup, vup') /\ UNCHANGED vuploads => UMove
  BY DEF UploadMove
<1>d. DownloadStep(vdown, vdown') /\ UNCHANGED vdownloads => DMove
  BY DEF DownloadMove
<1>1. CASE VehicleUpload
  BY <1>0, <1>1, <1>b, <1>c, VehicleUploadStep
<1>2. CASE VehicleDownload
  BY <1>0, <1>2, <1>a, <1>d, VehicleDownloadStep
<1>3. CASE VehicleRequest
  <2>1. CASE UNCHANGED <<vup, vline, vuploads>>
    BY <1>0, <1>3, <1>a, <1>b, <2>1 DEF VehicleRequest, userVars
  <2>2. CASE /\ ~Alive(vup)
             /\ vup' = [Fresh(NoUpload, vup, {}) EXCEPT !.list = offered]
             /\ vuploads' = vuploads + 1
    <3>1. vup.done
      BY <1>0, <2>2, FreeIsDone
    <3>2. UploadInv(vup') /\ ~vup'.done /\ vup'.result = NoUpload.result
      BY <1>0, <2>2, NewUploadStep
    <3> QED BY <1>0, <1>3, <1>b, <2>2, <3>1, <3>2 DEF VehicleRequest, UploadMove, userVars
  <2> QED BY <1>3, <2>1, <2>2 DEF VehicleRequest
<1>4. ASSUME NEW p \in Plans, NEW n \in SeqNumbers, VehicleCount(p, n) PROVE Goal
  <2>1. CASE UNCHANGED <<vdown, vline, vdownloads>>
    BY <1>0, <1>4, <1>a, <1>b, <2>1 DEF VehicleCount, userVars
  <2>2. CASE /\ ~Alive(vdown)
             /\ vdown' = [Fresh(NoDownload, vdown, {}) EXCEPT !.expected = n, !.got.plan = p]
             /\ vdownloads' = vdownloads + 1
    <3>1. vdown.done
      BY <1>0, <2>2, FreeIsDone
    <3>2. n \in Nat
      BY LinkAssumption DEF SeqNumbers
    <3>3. Inv(vdown', Gathered) /\ ~vdown'.done /\ vdown'.result = NoDownload.result
      <4>1. vdown' = Counted(vdown, n, p)
        BY <2>2 DEF Counted
      <4> QED BY <1>0, <3>2, <4>1, CountedStep
    <3>4. DMove
      BY <2>2, <3>1, <3>3 DEF DownloadMove
    <3>5. UMove /\ offered' = offered
      BY <1>4, <1>a DEF VehicleCount, userVars
    <3> QED BY <1>0, <3>4, <3>5
  <2> QED BY <1>4, <2>1, <2>2 DEF VehicleCount
<1>5. CASE VehicleHoldUpload
  BY <1>0, <1>5, <1>b, <1>c, UploadPieces DEF VehicleHoldUpload, userVars
<1>6. CASE VehicleHoldDownload
  BY <1>0, <1>6, <1>a, <1>d, DownloadPieces DEF VehicleHoldDownload, userVars
<1>7. CASE VehiclePopUpload
  BY <1>0, <1>7, <1>b, <1>c, UploadPieces DEF VehiclePopUpload, userVars, servedVars
<1>8. CASE VehiclePopDownload
  BY <1>0, <1>8, <1>a, <1>d, DownloadPieces DEF VehiclePopDownload, userVars, servedVars
<1>9. CASE AcceptDownloads
  BY <1>0, <1>9, <1>a, <1>b DEF AcceptDownloads, servedVars
<1>10. ASSUME NEW l \in Lists, Offer(l) \/ SetList(l) PROVE Goal
  BY <1>10, <1>a, <1>b DEF Offer, SetList, servedVars
<1>11. ASSUME NEW a \in UserAcks, SendDownloadAck(a) PROVE Goal
  BY <1>0, <1>11, <1>a, <1>b DEF SendDownloadAck, userVars, servedVars
<1> QED
  BY <1>1, <1>2, <1>3, <1>4, <1>5, <1>6, <1>7, <1>8, <1>9, <1>10, <1>11
  DEF VehicleNext, VehicleCancel, VehicleDoWork, VehicleRunOnce, VehicleReceive,
      VehicleUpload, VehicleDownload
-----------------------------------------------------------------------------
(***************************************************************************)
(* The whole system.                                                       *)
(***************************************************************************)
LEMMA InvInit == Init => IInv
<1> SUFFICES ASSUME Init PROVE IInv
  OBVIOUS
<1>1. /\ "Unknown" \in Acks /\ "SendCount" \in Steps /\ "RequestList" \in Steps
  BY DEF Acks, Steps
<1>2. Inv(NoUpload, Acks) /\ Inv(NoDownload, Gathered) /\ NoUpload.done
  BY <1>1, NothingStep, NoListTyped DEF NoUpload, NoDownload
<1>3. Served(NoUpload)
  BY <1>2 DEF Served, SentSoFar, NoUpload, NoWork
<1> QED BY <1>2, <1>3, NoListTyped DEF Init, StationInit, VehicleInit, IInv, UploadInv

\* What a step of the system does to the four items.
LEMMA NextMoves ==
  ASSUME IInv, [Next]_vars
  PROVE  /\ UploadMove(up, up', uploads, uploads')
         /\ DownloadMove(down, down', downloads, downloads')
         /\ UploadMove(vup, vup', vuploads, vuploads')
         /\ DownloadMove(vdown, vdown', vdownloads, vdownloads')
         /\ offered' \in Lists
<1>1. UNCHANGED stationVars => /\ UploadMove(up, up', uploads, uploads')
                               /\ DownloadMove(down, down', downloads, downloads')
  BY UploadStays, DownloadStays DEF IInv, stationVars, callVars
<1>2. UNCHANGED vehicleVars => /\ UploadMove(vup, vup', vuploads, vuploads')
                               /\ DownloadMove(vdown, vdown', vdownloads, vdownloads')
                               /\ offered' \in Lists
  BY UploadStays, DownloadStays DEF IInv, vehicleVars, userVars, servedVars
<1>3. CASE GroundStation
  BY <1>2, <1>3, StationMoves DEF GroundStation
<1>4. CASE RoboticVehicle
  BY <1>1, <1>4, VehicleMoves DEF RoboticVehicle
<1>5. CASE UNCHANGED <<stationVars, vehicleVars>>
  BY <1>1, <1>2, <1>5
<1> QED BY <1>3, <1>4, <1>5 DEF Next, Network, vars

LEMMA InvNext == IInv /\ [Next]_vars => IInv'
<1> SUFFICES ASSUME IInv, [Next]_vars PROVE IInv'
  OBVIOUS
<1> QED BY NextMoves DEF IInv, UploadMove, DownloadMove, UploadStep, DownloadStep

LEMMA Invariance == Spec => []IInv
  BY InvInit, InvNext, PTL DEF Spec
-----------------------------------------------------------------------------
(***************************************************************************)
(* The theorems.                                                           *)
(***************************************************************************)
\* callback_and_reset(): each of the four items has called its callback once
\* if it is done and never before.
THEOREM CallbackOnce == Spec => []ReportedOnce
<1>1. IInv => ReportedOnce
  BY DEF IInv, ReportedOnce, UploadInv, Inv, Core
<1> QED BY <1>1, Invariance, PTL

\* A started item that is not done has a timer or a timeout on its way, so
\* neither work queue is left behind an item that nobody will finish.
THEOREM QueueNeverWedged == Spec => []NothingWedged
<1>1. IInv => NothingWedged
  BY DEF IInv, NothingWedged, UploadInv, Inv
<1> QED BY <1>1, Invariance, PTL

\* No packet is repeated more than `retries` times without an answer, and a
\* peer that keeps reading the same waypoint is given up.
THEOREM RetriesLimited == Spec => []RetriesRespected
<1>1. IInv => RetriesRespected
  BY DEF IInv, RetriesRespected, UploadInv, Inv, Core
<1> QED BY <1>1, Invariance, PTL

\* Either side reports the Success of an upload only after it has sent every
\* waypoint, whatever READs and ACKs it has heard.
THEOREM SuccessAfterAllSent == Spec => []SuccessMeansAllSent
<1>1. IInv => SuccessMeansAllSent
  BY DEF IInv, SuccessMeansAllSent, UploadInv, Served
<1> QED BY <1>1, Invariance, PTL

\* The station's calls, uploads and downloads, implement the one-shot call:
\* accepted only when the last one was answered, and answered at most once.
THEOREM StationImplementsOneShot == Spec => StationCallsAreOneShot
<1>1. Init => UpCalls!Init /\ DownCalls!Init
  BY DEF Init, StationInit, NoUpload, NoDownload, NoWork, Phase, NoUploadAnswer,
         NoDownloadAnswer, UpCalls!Init, DownCalls!Init
<1>2. IInv /\ [Next]_vars => /\ [UpCalls!Next]_<<uploads, Phase(up), up.result>>
                             /\ [DownCalls!Next]_<<downloads, Phase(down), down.result>>
  <2> SUFFICES ASSUME IInv, [Next]_vars
               PROVE  /\ [UpCalls!Next]_<<uploads, Phase(up), up.result>>
                      /\ [DownCalls!Next]_<<downloads, Phase(down), down.result>>
    OBVIOUS
  <2>1. [UpCalls!Next]_<<uploads, Phase(up), up.result>>
    <3>1. CASE UploadStep(up, up') /\ uploads' = uploads
      BY <3>1 DEF UploadStep, Answers, UpCalls!Next, UpCalls!Reply, Phase, UploadAnswers
    <3>2. CASE /\ up.done /\ ~up'.done
               /\ up'.result = NoUpload.result /\ uploads' = uploads + 1
      BY <3>2 DEF UpCalls!Next, UpCalls!Call, Phase, NoUploadAnswer
    <3> QED BY <3>1, <3>2, NextMoves DEF UploadMove
  <2>2. [DownCalls!Next]_<<downloads, Phase(down), down.result>>
    <3>1. CASE DownloadStep(down, down') /\ downloads' = downloads
      BY <3>1 DEF DownloadStep, Answers, DownCalls!Next, DownCalls!Reply, Phase, DownloadAnswers
    <3>2. CASE /\ down.done /\ ~down'.done
               /\ down'.result = NoDownload.result /\ downloads' = downloads + 1
      BY <3>2 DEF DownCalls!Next, DownCalls!Call, Phase, NoDownloadAnswer
    <3> QED BY <3>1, <3>2, NextMoves DEF DownloadMove
  <2> QED BY <2>1, <2>2
<1> QED
  BY <1>1, <1>2, Invariance, PTL
  DEF Spec, StationCallsAreOneShot, UpCalls!Spec, UpCalls!vars, DownCalls!Spec, DownCalls!vars

\* So do the transfers that the vehicle begins: a REQUEST or a COUNT begins
\* one only when the last one was answered.
THEOREM VehicleImplementsOneShot == Spec => VehicleCallsAreOneShot
<1>1. Init => VehicleUpCalls!Init /\ VehicleDownCalls!Init
  BY DEF Init, VehicleInit, NoUpload, NoDownload, NoWork, Phase, NoUploadAnswer,
         NoDownloadAnswer, VehicleUpCalls!Init, VehicleDownCalls!Init
<1>2. IInv /\ [Next]_vars => /\ [VehicleUpCalls!Next]_<<vuploads, Phase(vup), vup.result>>
                             /\ [VehicleDownCalls!Next]_<<vdownloads, Phase(vdown), vdown.result>>
  <2> SUFFICES ASSUME IInv, [Next]_vars
               PROVE  /\ [VehicleUpCalls!Next]_<<vuploads, Phase(vup), vup.result>>
                      /\ [VehicleDownCalls!Next]_<<vdownloads, Phase(vdown), vdown.result>>
    OBVIOUS
  <2>1. [VehicleUpCalls!Next]_<<vuploads, Phase(vup), vup.result>>
    <3>1. CASE UploadStep(vup, vup') /\ vuploads' = vuploads
      BY <3>1 DEF UploadStep, Answers, VehicleUpCalls!Next, VehicleUpCalls!Reply, Phase,
                  UploadAnswers
    <3>2. CASE /\ vup.done /\ ~vup'.done
               /\ vup'.result = NoUpload.result /\ vuploads' = vuploads + 1
      BY <3>2 DEF VehicleUpCalls!Next, VehicleUpCalls!Call, Phase, NoUploadAnswer
    <3> QED BY <3>1, <3>2, NextMoves DEF UploadMove
  <2>2. [VehicleDownCalls!Next]_<<vdownloads, Phase(vdown), vdown.result>>
    <3>1. CASE DownloadStep(vdown, vdown') /\ vdownloads' = vdownloads
      BY <3>1 DEF DownloadStep, Answers, VehicleDownCalls!Next, VehicleDownCalls!Reply, Phase,
                  DownloadAnswers
    <3>2. CASE /\ vdown.done /\ ~vdown'.done
               /\ vdown'.result = NoDownload.result /\ vdownloads' = vdownloads + 1
      BY <3>2 DEF VehicleDownCalls!Next, VehicleDownCalls!Call, Phase, NoDownloadAnswer
    <3> QED BY <3>1, <3>2, NextMoves DEF DownloadMove
  <2> QED BY <2>1, <2>2
<1> QED
  BY <1>1, <1>2, Invariance, PTL
  DEF Spec, VehicleCallsAreOneShot, VehicleUpCalls!Spec, VehicleUpCalls!vars,
      VehicleDownCalls!Spec, VehicleDownCalls!vars
=============================================================================
