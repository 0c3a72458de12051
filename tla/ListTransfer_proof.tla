------------------------- MODULE ListTransfer_proof -------------------------
(***************************************************************************)
(* Theorems about ListTransfer, for every list length, number of retries,  *)
(* downloads, uploads, cancellations, duplicates and send failures.        *)
(***************************************************************************)
EXTENDS ListTransfer, TLAPS

USE DEF NoResult, Results

\* Two states of an item in which it has told its caller the same ...
SameReports(s, t) ==
  /\ t.done = s.done /\ t.callback = s.callback
  /\ t.reports = s.reports /\ t.result = s.result

\* ... and has the same timers.
SameTimers(s, t) ==
  /\ t.started = s.started /\ t.armed = s.armed
  /\ t.orphans = s.orphans /\ t.firing = s.firing

\* From s to t the item has told its caller at most one thing.
Answers(s, t, outcomes) ==
  \/ t.done = s.done /\ t.result = s.result
  \/ ~s.done /\ t.done /\ t.result \in outcomes

-----------------------------------------------------------------------------
(***************************************************************************)
(* The ground station's item.                                              *)
(***************************************************************************)
\* What every piece of a handler relies on.
DownloadCore(s) ==
  /\ s \in DownloadItems
  /\ ReportsWhenDone(s)
  /\ RetriesBounded(s)
  /\ QueuedUntilDone(s)

\* What is invariant of a DownloadWorkItem.
DownloadInv(s) == DownloadCore(s) /\ NeverWedged(s)

\* callback_and_reset() leaves an item done and reported once.
LEMMA DownloadReports ==
  ASSUME NEW s, DownloadCore(s), NEW r \in Results
  PROVE  /\ DownloadInv(CallbackAndReset(s, r))
         /\ Answers(s, CallbackAndReset(s, r), Results)
<1> DEFINE n == IF s.callback THEN s.reports + 1 ELSE s.reports
           q == IF s.callback THEN r ELSE s.result
           t == CallbackAndReset(s, r)
<1>1. s \in DownloadItems
  BY DEF DownloadCore
<1>2. n \in Nat /\ q \in Results \cup {NoResult}
  BY <1>1 DEF DownloadItems
<1>3. n = 1 /\ (IF s.done THEN q = s.result ELSE q \in Results)
  BY <1>1 DEF DownloadCore, ReportsWhenDone, DownloadItems
<1>4. t = [s EXCEPT !.reports = n, !.result = q, !.callback = FALSE, !.done = TRUE]
  BY DEF CallbackAndReset
<1> HIDE DEF n, q, t
<1>5. t \in DownloadItems
  BY <1>1, <1>2, <1>4 DEF DownloadItems
<1>6. /\ t.reports = n /\ t.callback = FALSE /\ t.done = TRUE /\ t.retries = s.retries
      /\ t.result = q
  BY <1>1, <1>4 DEF DownloadItems
<1>7. DownloadInv(t) /\ Answers(s, t, Results)
  <2>1. DownloadInv(t)
    BY <1>3, <1>5, <1>6
    DEF DownloadInv, DownloadCore, ReportsWhenDone, RetriesBounded, NeverWedged,
        QueuedUntilDone
  <2>2. CASE s.done
    BY <1>3, <1>6, <2>1, <2>2 DEF Answers
  <2>3. CASE ~s.done
    BY <1>3, <1>6, <2>1, <2>3 DEF Answers
  <2>4. QED
    BY <2>2, <2>3
<1>8. QED
  BY <1>7 DEF t

\* Adding a timer keeps the invariant and makes one pending.
LEMMA DownloadAddTimeout ==
  ASSUME NEW s, DownloadCore(s)
  PROVE  /\ DownloadInv(AddTimeout(s))
         /\ AddTimeout(s).retries = s.retries
         /\ SameReports(s, AddTimeout(s))
<1> DEFINE n == IF s.armed THEN s.orphans + 1 ELSE s.orphans
           t == AddTimeout(s)
<1>1. s \in DownloadItems
  BY DEF DownloadCore
<1>2. n \in Nat
  BY <1>1 DEF DownloadItems
<1>3. t = [s EXCEPT !.armed = TRUE, !.orphans = n]
  BY DEF AddTimeout
<1> HIDE DEF n, t
<1>4. t \in DownloadItems
  BY <1>1, <1>2, <1>3 DEF DownloadItems
<1>5. t.armed = TRUE /\ t.retries = s.retries /\ SameReports(s, t) /\ t.queued = s.queued
  BY <1>1, <1>3 DEF DownloadItems, SameReports
<1>6. DownloadInv(t) /\ t.retries = s.retries /\ SameReports(s, t)
  BY <1>4, <1>5
  DEF DownloadInv, DownloadCore, ReportsWhenDone, RetriesBounded, NeverWedged, TimerPending,
      SameReports, QueuedUntilDone
<1>7. QED
  BY <1>6 DEF t

\* Removing a timer keeps everything but NeverWedged.
LEMMA DownloadRemoveTimeout ==
  ASSUME NEW s, DownloadCore(s)
  PROVE  DownloadCore(RemoveTimeout(s)) /\ SameReports(s, RemoveTimeout(s))
<1> DEFINE t == RemoveTimeout(s)
<1>1. s \in DownloadItems
  BY DEF DownloadCore
<1>2. t = [s EXCEPT !.armed = FALSE]
  BY DEF RemoveTimeout
<1> HIDE DEF t
<1>3. t \in DownloadItems
  BY <1>1, <1>2 DEF DownloadItems
<1>4. t.retries = s.retries /\ SameReports(s, t) /\ t.queued = s.queued
  BY <1>1, <1>2 DEF DownloadItems, SameReports
<1>5. DownloadCore(t) /\ SameReports(s, t)
  BY <1>3, <1>4
  DEF DownloadCore, ReportsWhenDone, RetriesBounded, SameReports, QueuedUntilDone
<1>6. QED
  BY <1>5 DEF t

\* Asking keeps the invariant if a try is left.
LEMMA AskKeepsInv ==
  ASSUME NEW s, DownloadInv(s), s.retries < Retries, NEW link, NEW m, Ask(s, link, m)
  PROVE  DownloadInv(gs') /\ Answers(s, gs', Results)
<1>1. PICK sent \in SendOutcomes :
        IF sent THEN gs' = [s EXCEPT !.retries = @ + 1]
        ELSE gs' = CallbackAndReset(RemoveTimeout(s), "ConnectionError")
  BY DEF Ask
<1>2. CASE sent
  <2> DEFINE t == [s EXCEPT !.retries = @ + 1]
  <2>1. s \in DownloadItems
    BY DEF DownloadInv, DownloadCore
  <2>2. t \in DownloadItems
    BY <2>1 DEF DownloadItems
  <2>3. /\ t.retries = s.retries + 1 /\ s.retries \in Nat /\ t.queued = s.queued
        /\ SameReports(s, t) /\ SameTimers(s, t)
    BY <2>1 DEF DownloadItems, SameReports, SameTimers
  <2> HIDE DEF t
  <2>4. DownloadInv(t) /\ Answers(s, t, Results)
    BY <2>2, <2>3, RetriesAssumption
    DEF DownloadInv, DownloadCore, ReportsWhenDone, RetriesBounded, NeverWedged, TimerPending,
        SameReports, SameTimers, QueuedUntilDone, Answers
  <2>5. QED
    BY <1>1, <1>2, <2>4 DEF t
<1>3. CASE ~sent
  BY <1>1, <1>3, DownloadRemoveTimeout, DownloadReports DEF DownloadInv, SameReports, Answers
<1>4. QED
  BY <1>2, <1>3

\* Finishing needs nothing of the timer.
LEMMA FinishKeepsInv ==
  ASSUME NEW s, DownloadCore(s), NEW link, NEW ack, NEW r \in Results, Finish(s, link, ack, r)
  PROVE  DownloadInv(gs') /\ Answers(s, gs', Results)
  BY DownloadReports DEF Finish

\* A change of other fields keeps the invariant.
LEMMA DownloadUpdate ==
  ASSUME NEW s, NEW t \in DownloadItems, DownloadCore(s), SameReports(s, t),
         t.queued = s.queued \/ s.done, t.retries \in {0, s.retries}
  PROVE  /\ DownloadCore(t)
         /\ NeverWedged(t) => DownloadInv(t)
  BY RetriesAssumption
  DEF DownloadInv, DownloadCore, ReportsWhenDone, RetriesBounded, SameReports, QueuedUntilDone

LEMMA DownloadUpdateTimed ==
  ASSUME NEW s, NEW t \in DownloadItems, DownloadInv(s), SameReports(s, t), SameTimers(s, t),
         t.queued = s.queued, t.retries \in {0, s.retries}
  PROVE  DownloadInv(t)
  BY DownloadUpdate DEF DownloadInv, NeverWedged, TimerPending, SameReports, SameTimers

\* download_alarm_async() creates a fresh item.
LEMMA DownloadKeepsInv ==
  ASSUME gs \in DownloadItems
  PROVE  DownloadInv(NewDownload)
<1> DEFINE n == LostTimers(gs)
           f == gs.firing
           t == NewDownload
<1>1. n \in Nat /\ f \in BOOLEAN
  BY DEF LostTimers, DownloadItems
<1>2. NoDownload \in DownloadItems
  <2>1. 0 \in 0 .. SeqRange /\ 0 \in Indices
    BY SeqRangeAssumption DEF Indices
  <2> QED BY <2>1 DEF NoDownload, DownloadItems, Steps
<1>3. t = [NoDownload EXCEPT !.queued = TRUE, !.done = FALSE, !.callback = TRUE,
                            !.reports = 0, !.orphans = n, !.firing = f]
  BY DEF NewDownload
<1>4. NoDownload.started = FALSE /\ NoDownload.retries = 0
  BY DEF NoDownload
<1> HIDE DEF n, f, t
<1>5. t \in DownloadItems
  BY <1>1, <1>2, <1>3 DEF DownloadItems
<1>6. ~t.done /\ t.callback /\ t.reports = 0 /\ ~t.started /\ t.retries = 0 /\ t.queued
  BY <1>2, <1>3, <1>4 DEF DownloadItems
<1>7. DownloadInv(t)
  BY <1>5, <1>6, RetriesAssumption
  DEF DownloadInv, DownloadCore, ReportsWhenDone, RetriesBounded, NeverWedged, QueuedUntilDone
<1>8. QED
  BY <1>7 DEF t

\* The destructor may remove the timer of an item that is done.
LEMMA ReleasedKeepsInv ==
  ASSUME NEW s, DownloadCore(s)
  PROVE  DownloadCore(Released(s)) /\ SameReports(s, Released(s))
  BY DownloadRemoveTimeout DEF Released, SameReports

LEMMA DoneIsEnough ==
  ASSUME NEW s, DownloadCore(s), s.done
  PROVE  DownloadInv(s)
  BY DEF DownloadInv, NeverWedged

\* Every step of the ground station but Download keeps its item's invariant
\* and answers its caller at most once.
LEMMA GroundStationStep ==
  ASSUME DownloadInv(gs), GSNext, ~Download
  PROVE  DownloadInv(gs') /\ Answers(gs, gs', Results)
<1> USE DEF SameReports, SameTimers
<1> gs \in DownloadItems /\ DownloadCore(gs)
  BY DEF DownloadInv, DownloadCore
<1>2. CASE GSHold
  <2> DEFINE t == [gs EXCEPT !.held = TRUE]
  <2>1. t \in DownloadItems
    BY DEF DownloadItems
  <2>2. /\ SameReports(gs, t) /\ SameTimers(gs, t)
        /\ t.retries = gs.retries /\ t.queued = gs.queued
    BY DEF DownloadItems
  <2>3. gs' = t
    BY <1>2 DEF GSHold, Held
  <2> HIDE DEF t, SameReports, SameTimers
  <2>4. DownloadInv(t)
    BY <2>1, <2>2, DownloadUpdateTimed
  <2>5. QED
    BY <2>2, <2>3, <2>4 DEF Answers, SameReports
<1>3. CASE GSCancel
  <2> DEFINE r == RemoveTimeout(gs)
             t == [r EXCEPT !.held = FALSE]
  <2>1. DownloadCore(r) /\ r \in DownloadItems /\ SameReports(gs, r)
    BY DownloadRemoveTimeout DEF DownloadCore
  <2>2. Finish(Released(t), net, "Cancelled", "Cancelled")
    BY <1>3 DEF GSCancel, LetGo
  <2> HIDE DEF r
  <2>3. t \in DownloadItems
    BY <2>1 DEF DownloadItems
  <2>4. SameReports(r, t) /\ t.retries = r.retries /\ t.queued = r.queued
    BY <2>1 DEF DownloadItems
  <2> HIDE DEF t, SameReports
  <2>5. DownloadCore(Released(t)) /\ SameReports(t, Released(t))
    BY <2>1, <2>3, <2>4, DownloadUpdate, ReleasedKeepsInv
  <2>6. DownloadInv(gs') /\ Answers(Released(t), gs', Results)
    BY <2>2, <2>5, FinishKeepsInv
  <2>7. QED
    BY <2>1, <2>4, <2>5, <2>6 DEF SameReports, Answers
<1>4. CASE GSStart
  <2> DEFINE t == [gs EXCEPT !.list = <<>>, !.started = TRUE, !.retries = 0]
  <2>0. <<>> \in Seq(Entries) /\ 0 \in Nat
    OBVIOUS
  <2>1. t \in DownloadItems
    BY <2>0 DEF DownloadItems
  <2>2. SameReports(gs, t) /\ t.retries = 0 /\ t.queued = gs.queued
    BY DEF DownloadItems
  <2>3. Ask(AddTimeout(t), net, Request)
    BY <1>4 DEF GSStart
  <2> HIDE DEF t, SameReports
  <2>4. /\ DownloadInv(AddTimeout(t)) /\ AddTimeout(t).retries = 0
        /\ SameReports(t, AddTimeout(t))
    BY <2>1, <2>2, DownloadUpdate, DownloadAddTimeout
  <2>5. DownloadInv(gs') /\ Answers(AddTimeout(t), gs', Results)
    BY <2>3, <2>4, AskKeepsInv, RetriesAssumption
  <2>6. QED
    BY <2>2, <2>4, <2>5 DEF SameReports, Answers
<1>5. CASE GSPop
  <2> DEFINE t == [gs EXCEPT !.queued = FALSE]
  <2>1. t \in DownloadItems
    BY DEF DownloadItems
  <2>2. SameReports(gs, t) /\ t.retries = gs.retries
    BY DEF DownloadItems
  <2>3. gs' = Released(t) /\ gs.done
    BY <1>5 DEF GSPop, Popped, CanPop
  <2> HIDE DEF t, SameReports
  <2>4. DownloadCore(Released(t)) /\ SameReports(t, Released(t))
    BY <2>1, <2>2, <2>3, DownloadUpdate, ReleasedKeepsInv
  <2>5. QED
    BY <2>2, <2>3, <2>4, DoneIsEnough DEF SameReports, Answers
<1>6. ASSUME NEW n \in Indices, ProcessCount(n)
      PROVE  DownloadInv(gs') /\ Answers(gs, gs', Results)
  <2>1. CASE n = 0
    <3>1. Finish(RemoveTimeout(gs), Without(Count(n)), "Accepted", "Success")
      BY <1>6, <2>1 DEF ProcessCount
    <3>2. QED
      BY <3>1, DownloadRemoveTimeout, FinishKeepsInv DEF Answers
  <2>2. CASE n # 0
    <3> DEFINE t == [gs EXCEPT !.next = 0, !.step = "RequestItem", !.retries = 0,
                               !.expected = n]
    <3>0. 0 \in 0 .. SeqRange /\ 0 \in Nat /\ "RequestItem" \in Steps
      BY SeqRangeAssumption DEF Steps
    <3>1. t \in DownloadItems
      BY <3>0 DEF DownloadItems
    <3>2. /\ SameReports(gs, t) /\ SameTimers(gs, t)
          /\ t.retries = 0 /\ t.queued = gs.queued
      BY DEF DownloadItems
    <3>3. Ask(t, Without(Count(n)), Read(0))
      BY <1>6, <2>2 DEF ProcessCount
    <3> HIDE DEF t, SameReports, SameTimers
    <3>4. DownloadInv(t)
      BY <3>1, <3>2, DownloadUpdateTimed
    <3>5. QED
      BY <3>2, <3>3, <3>4, AskKeepsInv, RetriesAssumption DEF SameReports, Answers
  <2>3. QED
    BY <2>1, <2>2
<1>7. ASSUME NEW e \in Entries, ProcessItem(e)
      PROVE  DownloadInv(gs') /\ Answers(gs, gs', Results)
  <2> DEFINE s == [gs EXCEPT !.list = Append(@, e)]
             t == [s EXCEPT !.next = e.index + 1, !.retries = 0]
  <2>0. gs \in DownloadItems /\ gs.list \in Seq(Entries)
    BY DEF DownloadItems
  <2>1. s \in DownloadItems
    <3>1. Append(gs.list, e) \in Seq(Entries)
      BY <2>0
    <3>2. s = [gs EXCEPT !.list = Append(gs.list, e)]
      OBVIOUS
    <3> QED BY <2>0, <3>1, <3>2 DEF DownloadItems
  <2>2. /\ SameReports(gs, s) /\ SameTimers(gs, s)
        /\ s.retries = gs.retries /\ s.queued = gs.queued
    BY DEF DownloadItems
  <2>3. \/ Finish(RemoveTimeout(s), Without(Item(e)), "Accepted", "Success")
        \/ Ask(t, Without(Item(e)), Read(Packed(e.index + 1)))
    BY <1>7 DEF ProcessItem
  <2>4. e.index + 1 \in 0 .. SeqRange
    BY LinkAssumption, SeqRangeAssumption DEF Entries, Indices
  <2> HIDE DEF s
  <2>5. t \in DownloadItems
    BY <2>1, <2>4 DEF DownloadItems
  <2>6. /\ SameReports(s, t) /\ SameTimers(s, t)
        /\ t.retries = 0 /\ t.queued = s.queued
    BY <2>1 DEF DownloadItems
  <2> HIDE DEF t, SameReports, SameTimers
  <2>7. DownloadInv(s)
    BY <2>1, <2>2, DownloadUpdateTimed
  <2>8. DownloadInv(t)
    BY <2>5, <2>6, <2>7, DownloadUpdateTimed
  <2>9. CASE Finish(RemoveTimeout(s), Without(Item(e)), "Accepted", "Success")
    <3>1. /\ DownloadCore(RemoveTimeout(s)) /\ SameReports(s, RemoveTimeout(s))
      BY <2>7, DownloadRemoveTimeout DEF DownloadInv
    <3>2. DownloadInv(gs') /\ Answers(RemoveTimeout(s), gs', Results)
      BY <2>9, <3>1, FinishKeepsInv
    <3>3. QED
      BY <2>2, <3>1, <3>2 DEF SameReports, Answers
  <2>10. CASE Ask(t, Without(Item(e)), Read(Packed(e.index + 1)))
    <3>1. DownloadInv(gs') /\ Answers(t, gs', Results)
      BY <2>6, <2>8, <2>10, AskKeepsInv, RetriesAssumption
    <3>2. QED
      BY <2>2, <2>6, <3>1 DEF SameReports, Answers
  <2>11. QED
    BY <2>3, <2>9, <2>10
<1>8. CASE GSExpire
  <2>1. gs' \in Expired(gs)
    BY <1>8 DEF GSExpire
  <2>2. CASE gs' = [gs EXCEPT !.armed = FALSE, !.firing = TRUE]
    <3> DEFINE t == [gs EXCEPT !.armed = FALSE, !.firing = TRUE]
    <3>1. t \in DownloadItems
      BY DEF DownloadItems
    <3>2. SameReports(gs, t) /\ t.retries = gs.retries /\ t.queued = gs.queued /\ t.firing
      BY DEF DownloadItems
    <3> HIDE DEF t, SameReports
    <3>3. DownloadInv(t)
      BY <3>1, <3>2, DownloadUpdate DEF NeverWedged, TimerPending
    <3>4. QED
      BY <2>2, <3>2, <3>3 DEF SameReports, Answers, t
  <2>3. CASE gs.orphans > 0 /\ gs' = [gs EXCEPT !.orphans = @ - 1, !.firing = TRUE]
    <3> DEFINE t == [gs EXCEPT !.orphans = @ - 1, !.firing = TRUE]
    <3>1. gs.orphans - 1 \in Nat
      BY <2>3 DEF DownloadItems
    <3>2. t \in DownloadItems
      BY <3>1 DEF DownloadItems
    <3>3. SameReports(gs, t) /\ t.retries = gs.retries /\ t.queued = gs.queued /\ t.firing
      BY DEF DownloadItems
    <3> HIDE DEF t, SameReports
    <3>4. DownloadInv(t)
      BY <3>2, <3>3, DownloadUpdate DEF NeverWedged, TimerPending
    <3>5. QED
      BY <2>3, <3>3, <3>4 DEF SameReports, Answers, t
  <2>4. QED
    BY <2>1, <2>2, <2>3 DEF Expired
<1>9. CASE GSTimeout
  <2> DEFINE s == [gs EXCEPT !.firing = FALSE]
             t == [s EXCEPT !.resent = TRUE]
  <2>1. s \in DownloadItems
    BY DEF DownloadItems
  <2>2. SameReports(gs, s) /\ s.retries = gs.retries /\ s.queued = gs.queued
    BY DEF DownloadItems
  <2>3. \/ gs' = CallbackAndReset(s, "Timeout")
        \/ ~(gs.retries >= Retries) /\ \E m : Ask(AddTimeout(t), net, m)
    BY <1>9 DEF GSTimeout
  <2> HIDE DEF s
  <2>4. t \in DownloadItems
    BY <2>1 DEF DownloadItems
  <2>5. SameReports(s, t) /\ t.retries = s.retries /\ t.queued = s.queued
    BY <2>1 DEF DownloadItems
  <2> HIDE DEF t, SameReports
  <2>6. DownloadCore(s) /\ DownloadCore(t)
    BY <2>1, <2>2, <2>4, <2>5, DownloadUpdate
  <2>7. CASE gs' = CallbackAndReset(s, "Timeout")
    BY <2>2, <2>6, <2>7, DownloadReports DEF SameReports, Answers
  <2>8. CASE ~(gs.retries >= Retries) /\ \E m : Ask(AddTimeout(t), net, m)
    <3>1. PICK m : Ask(AddTimeout(t), net, m)
      BY <2>8
    <3>2. AddTimeout(t).retries < Retries
      BY <2>2, <2>5, <2>6, <2>8, DownloadAddTimeout, RetriesAssumption DEF DownloadItems
    <3>3. /\ DownloadInv(gs') /\ Answers(AddTimeout(t), gs', Results)
          /\ SameReports(t, AddTimeout(t))
      BY <2>6, <3>1, <3>2, DownloadAddTimeout, AskKeepsInv
    <3>4. QED
      BY <2>2, <2>5, <3>3 DEF SameReports, Answers
  <2>9. QED
    BY <2>3, <2>7, <2>8
<1>10. QED
  BY <1>2, <1>3, <1>4, <1>5, <1>6, <1>7, <1>8, <1>9 DEF GSNext, GSReceive

-----------------------------------------------------------------------------
(***************************************************************************)
(* The vehicle's item.  SentSoFar is the strengthening that makes          *)
(* SuccessMeansAllSent inductive: READs never move the sequence number     *)
(* past an item that was not sent, except in an item that is done.         *)
(***************************************************************************)
\* What holds even between the advance of the sequence number and the send.
UploadBase(s) ==
  /\ s \in UploadItems
  /\ ReportsWhenDone(s)
  /\ RetriesBounded(s)
  /\ QueuedUntilDone(s)
  /\ s.next <= Len(s.items)
  /\ s.result.result = "Success" => AllSent(s)

\* What every piece of a handler relies on.
UploadCore(s) == UploadBase(s) /\ SentSoFar(s)

\* What is invariant of an UploadWorkItem.
UploadInv(s) == UploadCore(s) /\ NeverWedged(s)

\* Two states of an item with the same progress in its list.
SameProgress(s, t) == t.next = s.next /\ t.items = s.items /\ t.sent = s.sent

\* callback_and_reset() leaves an item done and reported once.
LEMMA UploadReports ==
  ASSUME NEW s, UploadBase(s), NEW r \in Results,
         r = "Success" /\ ~s.done => AllSent(s)
  PROVE  UploadInv(Report(s, r)) /\ Answers(s, Report(s, r), Outcomes)
<1> DEFINE o == [result |-> r, ack |-> s.ack]
           n == IF s.callback THEN s.reports + 1 ELSE s.reports
           q == IF s.callback THEN o ELSE s.result
           t == Report(s, r)
<1>1. s \in UploadItems
  BY DEF UploadBase
<1>2. o \in Outcomes /\ o.result = r
  BY <1>1 DEF UploadItems, Outcomes
<1>3. t = [s EXCEPT !.reports = n, !.result = q, !.callback = FALSE, !.done = TRUE]
  BY DEF Report, CallbackAndReset
<1> HIDE DEF o
<1>4. n \in Nat /\ q \in Outcomes \cup {NoOutcome}
  BY <1>1, <1>2 DEF UploadItems
<1>5. n = 1 /\ (IF s.done THEN q = s.result ELSE q = o)
  BY <1>1 DEF UploadBase, ReportsWhenDone, UploadItems
<1> HIDE DEF n, q, t
<1>6. t \in UploadItems
  BY <1>1, <1>3, <1>4 DEF UploadItems
<1>7. /\ t.reports = n /\ t.callback = FALSE /\ t.done = TRUE /\ t.retries = s.retries
      /\ t.result = q /\ SameProgress(s, t)
  BY <1>1, <1>3 DEF UploadItems, SameProgress
<1>8. t.result.result = "Success" => AllSent(t)
  <2>1. CASE s.done
    BY <1>5, <1>7, <2>1 DEF UploadBase, SameProgress, AllSent
  <2>2. CASE ~s.done
    BY <1>2, <1>5, <1>7, <2>2 DEF SameProgress, AllSent
  <2>3. QED
    BY <2>1, <2>2
<1>9. UploadInv(t)
  BY <1>5, <1>6, <1>7, <1>8
  DEF UploadInv, UploadCore, UploadBase, ReportsWhenDone, RetriesBounded, NeverWedged, QueuedUntilDone,
      SentSoFar, SameProgress
<1>10. Answers(s, t, Outcomes)
  <2>1. CASE s.done
    BY <1>5, <1>7, <2>1 DEF Answers
  <2>2. CASE ~s.done
    BY <1>2, <1>5, <1>7, <2>2 DEF Answers
  <2>3. QED
    BY <2>1, <2>2
<1>11. QED
  BY <1>9, <1>10 DEF t

\* A change of other fields keeps the invariant.
LEMMA UploadUpdate ==
  ASSUME NEW s, NEW t \in UploadItems, UploadCore(s), SameReports(s, t),
         t.queued = s.queued \/ s.done, t.retries \in {0, s.retries},
         t.items = s.items, t.sent = s.sent, t.next <= s.next
  PROVE  UploadCore(t)
<1>1. t.next <= Len(t.items) /\ s.next \in Nat /\ t.next \in Nat
  BY LinkAssumption, SeqRangeAssumption, VehicleAssumption DEF UploadCore, UploadBase, SentSoFar, UploadItems
<1>2. SentSoFar(t)
  BY <1>1 DEF UploadCore, UploadBase, SentSoFar, SameReports
<1>3. UploadBase(t)
  BY <1>1, RetriesAssumption
  DEF UploadCore, UploadBase, ReportsWhenDone, RetriesBounded, SameReports, QueuedUntilDone,
      AllSent
<1>4. QED
  BY <1>2, <1>3 DEF UploadCore

LEMMA UploadUpdateTimed ==
  ASSUME NEW s, NEW t \in UploadItems, UploadInv(s), SameReports(s, t), SameTimers(s, t),
         t.queued = s.queued, t.retries \in {0, s.retries},
         t.items = s.items, t.sent = s.sent, t.next <= s.next
  PROVE  UploadInv(t)
  BY UploadUpdate DEF UploadInv, NeverWedged, TimerPending, SameReports, SameTimers

\* Adding a timer keeps the invariant and makes one pending.
LEMMA UploadAddTimeout ==
  ASSUME NEW s, UploadCore(s)
  PROVE  /\ UploadInv(AddTimeout(s))
         /\ AddTimeout(s).retries = s.retries
         /\ SameReports(s, AddTimeout(s))
<1> DEFINE n == IF s.armed THEN s.orphans + 1 ELSE s.orphans
           t == AddTimeout(s)
<1>1. s \in UploadItems
  BY DEF UploadCore, UploadBase
<1>2. n \in Nat
  BY <1>1 DEF UploadItems
<1>3. t = [s EXCEPT !.armed = TRUE, !.orphans = n]
  BY DEF AddTimeout
<1> HIDE DEF n, t
<1>4. t \in UploadItems
  BY <1>1, <1>2, <1>3 DEF UploadItems
<1>5. /\ t.armed = TRUE /\ t.retries = s.retries /\ t.queued = s.queued
      /\ SameReports(s, t) /\ SameProgress(s, t)
  BY <1>1, <1>3 DEF UploadItems, SameReports, SameProgress
<1>6. s.next \in Nat
  BY <1>1, LinkAssumption, SeqRangeAssumption DEF UploadItems
<1>7. UploadCore(t)
  BY <1>4, <1>5, <1>6, UploadUpdate DEF SameProgress
<1>8. UploadInv(t)
  BY <1>5, <1>7 DEF UploadInv, NeverWedged, TimerPending
<1>9. QED
  BY <1>5, <1>8 DEF t

\* Removing a timer keeps everything but NeverWedged.
LEMMA UploadRemoveTimeout ==
  ASSUME NEW s, UploadCore(s)
  PROVE  /\ UploadCore(RemoveTimeout(s))
         /\ SameReports(s, RemoveTimeout(s)) /\ SameProgress(s, RemoveTimeout(s))
<1> DEFINE t == RemoveTimeout(s)
<1>1. s \in UploadItems
  BY DEF UploadCore, UploadBase
<1>2. t = [s EXCEPT !.armed = FALSE]
  BY DEF RemoveTimeout
<1> HIDE DEF t
<1>3. t \in UploadItems
  BY <1>1, <1>2 DEF UploadItems
<1>4. /\ t.retries = s.retries /\ t.queued = s.queued
      /\ SameReports(s, t) /\ SameProgress(s, t)
  BY <1>1, <1>2 DEF UploadItems, SameReports, SameProgress
<1>5. s.next \in Nat
  BY <1>1, LinkAssumption, SeqRangeAssumption DEF UploadItems
<1>6. UploadCore(t)
  BY <1>3, <1>4, <1>5, UploadUpdate DEF SameProgress
<1>7. QED
  BY <1>4, <1>6 DEF t

LEMMA UploadReleased ==
  ASSUME NEW s, UploadCore(s)
  PROVE  UploadCore(Released(s)) /\ SameReports(s, Released(s)) /\ SameProgress(s, Released(s))
  BY UploadRemoveTimeout DEF Released, SameReports, SameProgress

\* A packet was sent: a try is counted, and more may have been sent.
LEMMA UploadTried ==
  ASSUME NEW s, UploadInv(s), s.retries < Retries,
         NEW t \in UploadItems, t.retries = s.retries + 1, t.queued = s.queued,
         SameReports(s, t), SameTimers(s, t),
         t.items = s.items, s.sent \subseteq t.sent, SentSoFar(t)
  PROVE  UploadInv(t) /\ Answers(s, t, Outcomes)
<1>1. ReportsWhenDone(t) /\ QueuedUntilDone(t) /\ NeverWedged(t) /\ Answers(s, t, Outcomes)
  BY DEF UploadInv, UploadCore, UploadBase, ReportsWhenDone, QueuedUntilDone, NeverWedged,
         TimerPending, SameReports, SameTimers, Answers
<1>2. s.retries \in Nat
  BY DEF UploadInv, UploadCore, UploadBase, UploadItems
<1>3. RetriesBounded(t)
  BY <1>2, RetriesAssumption DEF RetriesBounded
<1>4. t.result.result = "Success" => AllSent(t)
  BY DEF UploadInv, UploadCore, UploadBase, AllSent, SameReports
<1>5. QED
  BY <1>1, <1>3, <1>4 DEF UploadInv, UploadCore, UploadBase, SentSoFar

\* send_count() keeps the invariant if a try is left.
LEMMA SendCountKeepsInv ==
  ASSUME NEW s, UploadInv(s), s.retries < Retries, SendCount(s)
  PROVE  UploadInv(rv') /\ Answers(s, rv', Outcomes)
<1>1. PICK sent \in SendOutcomes :
        IF sent THEN rv' = [s EXCEPT !.retries = @ + 1]
        ELSE rv' = Report(RemoveTimeout(s), "ConnectionError")
  BY DEF SendCount
<1>2. CASE sent
  <2> DEFINE t == [s EXCEPT !.retries = @ + 1]
  <2>1. s \in UploadItems
    BY DEF UploadInv, UploadCore, UploadBase
  <2>2. t \in UploadItems
    BY <2>1 DEF UploadItems
  <2>3. /\ t.retries = s.retries + 1 /\ s.retries \in Nat /\ t.queued = s.queued
        /\ SameReports(s, t) /\ SameTimers(s, t) /\ SameProgress(s, t)
    BY <2>1 DEF UploadItems, SameReports, SameTimers, SameProgress
  <2> HIDE DEF t
  <2>4. SentSoFar(t)
    BY <2>3 DEF UploadInv, UploadCore, SentSoFar, SameReports, SameProgress
  <2>5. UploadInv(t) /\ Answers(s, t, Outcomes)
    BY <2>2, <2>3, <2>4, UploadTried DEF SameProgress
  <2>6. QED
    BY <1>1, <1>2, <2>5 DEF t
<1>3. CASE ~sent
  <2>1. UploadBase(RemoveTimeout(s)) /\ SameReports(s, RemoveTimeout(s))
    BY UploadRemoveTimeout DEF UploadInv, UploadCore
  <2>2. QED
    BY <1>1, <1>3, <2>1, UploadReports DEF SameReports, Answers
<1>4. QED
  BY <1>2, <1>3

\* send_alarm_item() for a sequence number within what was sent.  The
\* number goes on before the send: if the send fails the item is done.
LEMMA SendItemKeepsInv ==
  ASSUME NEW s, UploadInv(s), s.retries < Retries, s.next \in Indices, NEW link,
         SendItem(s, link)
  PROVE  UploadInv(rv') /\ Answers(s, rv', Outcomes)
<1>1. s \in UploadItems /\ UploadCore(s)
  BY DEF UploadInv, UploadCore, UploadBase
<1>2. s.next \in Nat /\ Len(s.items) \in Nat
  BY <1>1, SeqRangeAssumption, VehicleAssumption DEF UploadItems
<1>3. CASE s.next >= Len(s.items)
  BY <1>3 DEF SendItem, Answers
<1>4. CASE ~(s.next >= Len(s.items))
  <2> DEFINE t == [s EXCEPT !.next = @ + 1]
  <2>1. PICK sent \in SendOutcomes :
          IF sent THEN rv' = [t EXCEPT !.retries = @ + 1, !.sent = @ \cup {s.next}]
          ELSE rv' = Report(RemoveTimeout(t), "ConnectionError")
    BY <1>4 DEF SendItem
  <2>2. s.next + 1 \in 0 .. SeqRange /\ s.next \in Indices
    BY SeqRangeAssumption DEF Indices
  <2>3. t \in UploadItems
    BY <1>1, <2>2 DEF UploadItems
  <2>4. /\ t.next = s.next + 1 /\ t.items = s.items /\ t.sent = s.sent
        /\ SameReports(s, t) /\ SameTimers(s, t)
        /\ t.queued = s.queued /\ t.retries = s.retries
    BY <1>1 DEF UploadItems, SameReports, SameTimers
  <2> HIDE DEF t
  <2>5. CASE sent
    <3> DEFINE u == [t EXCEPT !.retries = @ + 1, !.sent = @ \cup {s.next}]
    <3>0. /\ t.retries + 1 \in Nat
          /\ t.sent \cup {s.next} \in SUBSET Indices
      BY <2>2, <2>3 DEF UploadItems
    <3>1. u \in UploadItems
      BY <2>3, <3>0 DEF UploadItems
    <3>2. /\ u.next = s.next + 1 /\ u.items = s.items /\ u.sent = s.sent \cup {s.next}
          /\ u.retries = s.retries + 1 /\ s.retries \in Nat /\ u.queued = s.queued
          /\ SameReports(s, u) /\ SameTimers(s, u)
      BY <1>1, <2>3, <2>4 DEF UploadItems, SameReports, SameTimers
    <3> HIDE DEF u
    <3>3. SentSoFar(u)
      BY <1>1, <1>2, <1>4, <3>2 DEF UploadCore, UploadBase, SentSoFar, SameReports
    <3>4. UploadInv(u) /\ Answers(s, u, Outcomes)
      BY <3>1, <3>2, <3>3, UploadTried
    <3>5. QED
      BY <2>1, <2>5, <3>4 DEF u
  <2>6. CASE ~sent
    <3> DEFINE r == RemoveTimeout(t)
    <3>1. rv' = Report(r, "ConnectionError") /\ r = [t EXCEPT !.armed = FALSE]
      BY <2>1, <2>6 DEF RemoveTimeout
    <3> HIDE DEF r
    <3>2. r \in UploadItems
      BY <2>3, <3>1 DEF UploadItems
    <3>3. /\ r.next = s.next + 1 /\ r.items = s.items /\ r.sent = s.sent
          /\ SameReports(s, r) /\ r.queued = s.queued /\ r.retries = s.retries
      BY <2>3, <2>4, <3>1 DEF UploadItems, SameReports
    <3>4. UploadBase(r)
      BY <1>1, <1>2, <1>4, <3>2, <3>3
      DEF UploadCore, UploadBase, ReportsWhenDone, RetriesBounded, QueuedUntilDone, AllSent,
          SameReports
    <3>5. QED
      BY <3>1, <3>3, <3>4, UploadReports DEF SameReports, Answers
  <2>7. QED
    BY <2>5, <2>6
<1>5. QED
  BY <1>3, <1>4

\* The REQUEST handler creates a fresh item.
LEMMA UploadKeepsInv ==
  ASSUME rv \in UploadItems, offered \in Lists
  PROVE  UploadInv(NewUpload)
<1> DEFINE n == LostTimers(rv)
           f == rv.firing
           t == NewUpload
<1>1. n \in Nat /\ f \in BOOLEAN
  BY DEF LostTimers, UploadItems
<1>2. NoUpload \in UploadItems
  <2>1. 0 \in 0 .. SeqRange /\ <<>> \in Lists
    BY LinkAssumption, SeqRangeAssumption, VehicleAssumption
  <2>2. QED
    BY <2>1 DEF NoUpload, UploadItems, Acks
<1>3. t = [NoUpload EXCEPT !.queued = TRUE, !.done = FALSE, !.callback = TRUE,
                          !.reports = 0, !.items = offered, !.orphans = n, !.firing = f]
  BY DEF NewUpload
<1>4. /\ NoUpload.started = FALSE /\ NoUpload.retries = 0 /\ NoUpload.next = 0
      /\ NoUpload.result = NoOutcome
  BY DEF NoUpload
<1> HIDE DEF n, f, t
<1>5. t \in UploadItems
  BY <1>1, <1>2, <1>3 DEF UploadItems
<1>6. /\ ~t.done /\ t.callback /\ t.reports = 0 /\ ~t.started /\ t.retries = 0 /\ t.queued
      /\ t.next = 0 /\ t.result = NoOutcome
  BY <1>2, <1>3, <1>4 DEF UploadItems
<1>7. t.result.result # "Success"
  BY <1>6 DEF NoOutcome
<1>8. Len(t.items) \in Nat
  BY <1>5, VehicleAssumption DEF UploadItems
<1>9. UploadInv(t)
  BY <1>5, <1>6, <1>7, <1>8, RetriesAssumption
  DEF UploadInv, UploadCore, UploadBase, ReportsWhenDone, RetriesBounded, NeverWedged,
      QueuedUntilDone, SentSoFar
<1>10. QED
  BY <1>9 DEF t

LEMMA UploadDoneIsEnough ==
  ASSUME NEW s, UploadCore(s), s.done
  PROVE  UploadInv(s)
  BY DEF UploadInv, NeverWedged

\* A READ keeps the vehicle's item in order: it goes back or serves the next
\* item, never one beyond.
LEMMA ReadKeepsInv ==
  ASSUME UploadInv(rv), NEW i \in Indices, ProcessRead(i)
  PROVE  UploadInv(rv') /\ Answers(rv, rv', Outcomes)
<1>1. rv \in UploadItems /\ UploadCore(rv)
  BY DEF UploadInv, UploadCore, UploadBase
<1>2. rv.next \in Nat /\ i \in Nat /\ rv.retries \in Nat
  BY <1>1, SeqRangeAssumption DEF UploadItems, Indices
<1>3. CASE rv' = rv
  BY <1>3 DEF Answers
<1>4. CASE rv' = Report(RemoveTimeout(rv), "Timeout")
  <2>1. UploadBase(RemoveTimeout(rv)) /\ SameReports(rv, RemoveTimeout(rv))
    BY <1>1, UploadRemoveTimeout DEF UploadCore
  <2>2. QED
    BY <1>4, <2>1, UploadReports DEF SameReports, Answers
<1>5. CASE i < rv.next /\ rv.retries < Retries /\ SendItem([rv EXCEPT !.next = i], Without(Read(i)))
  <2> DEFINE t == [rv EXCEPT !.next = i]
  <2>0. i \in 0 .. SeqRange
    BY SeqRangeAssumption DEF Indices
  <2>1. t \in UploadItems
    BY <1>1, <2>0 DEF UploadItems
  <2>2. /\ SameReports(rv, t) /\ SameTimers(rv, t) /\ t.queued = rv.queued
        /\ t.retries = rv.retries /\ t.next = i /\ t.items = rv.items /\ t.sent = rv.sent
    BY <1>1 DEF UploadItems, SameReports, SameTimers
  <2>3. SendItem(t, Without(Read(i)))
    BY <1>5
  <2> HIDE DEF t
  <2>4. UploadInv(t)
    BY <1>2, <1>5, <2>1, <2>2, UploadUpdateTimed
  <2>5. UploadInv(rv') /\ Answers(t, rv', Outcomes)
    BY <1>5, <2>2, <2>3, <2>4, SendItemKeepsInv
  <2>6. QED
    BY <2>2, <2>5 DEF SameReports, Answers
<1>6. CASE i = rv.next /\ SendItem([rv EXCEPT !.retries = 0], Without(Read(i)))
  <2> DEFINE t == [rv EXCEPT !.retries = 0]
  <2>1. t \in UploadItems
    BY <1>1 DEF UploadItems
  <2>2. /\ SameReports(rv, t) /\ SameTimers(rv, t) /\ t.queued = rv.queued
        /\ t.retries = 0 /\ t.next = rv.next /\ t.items = rv.items /\ t.sent = rv.sent
    BY <1>1 DEF UploadItems, SameReports, SameTimers
  <2>3. SendItem(t, Without(Read(i)))
    BY <1>6
  <2> HIDE DEF t
  <2>4. UploadInv(t)
    BY <1>2, <2>1, <2>2, UploadUpdateTimed
  <2>5. UploadInv(rv') /\ Answers(t, rv', Outcomes)
    BY <1>6, <2>2, <2>3, <2>4, SendItemKeepsInv, RetriesAssumption
  <2>6. QED
    BY <2>2, <2>5 DEF SameReports, Answers
<1>7. QED
  BY <1>3, <1>4, <1>5, <1>6 DEF ProcessRead

\* An ACK counts as success only with the sequence number at the end.
LEMMA AckKeepsInv ==
  ASSUME UploadInv(rv), NEW a \in AckTypes, ProcessAck(a)
  PROVE  UploadInv(rv') /\ Answers(rv, rv', Outcomes)
<1> DEFINE r == RemoveTimeout(rv)
           t == [r EXCEPT !.ack = a]
           q == IF rv.next = Len(rv.items) THEN "Success" ELSE "ProtocolError"
<1>1. rv \in UploadItems /\ UploadCore(rv)
  BY DEF UploadInv, UploadCore, UploadBase
<1>2. UploadCore(r) /\ r \in UploadItems /\ SameReports(rv, r) /\ SameProgress(rv, r)
  BY <1>1, UploadRemoveTimeout DEF UploadCore, UploadBase
<1>3. rv' = Report(t, q) /\ q \in Results
  BY DEF ProcessAck
<1> HIDE DEF r
<1>4. t \in UploadItems
  BY <1>2 DEF UploadItems, Acks
<1>5. /\ SameReports(r, t) /\ t.queued = r.queued /\ t.retries = r.retries
      /\ t.next = r.next /\ t.items = r.items /\ t.sent = r.sent
  BY <1>2 DEF UploadItems, SameReports
<1>6. r.next \in Nat
  BY <1>2, LinkAssumption, SeqRangeAssumption DEF UploadItems
<1> HIDE DEF t
<1>7. UploadCore(t)
  BY <1>2, <1>4, <1>5, <1>6, UploadUpdate
<1>8. q = "Success" /\ ~t.done => AllSent(t)
  <2> SUFFICES ASSUME q = "Success", ~t.done, NEW i \in DOMAIN t.items
               PROVE  i - 1 \in t.sent
    BY DEF AllSent
  <2>1. t.next = Len(t.items)
    BY <1>2, <1>5 DEF SameProgress
  <2>2. i \in 1 .. Len(t.items)
    BY <1>4, VehicleAssumption DEF UploadItems
  <2>3. i - 1 \in 0 .. t.next - 1
    BY <1>5, <1>6, <2>1, <2>2
  <2>4. QED
    BY <1>7, <2>3 DEF UploadCore, SentSoFar
<1> HIDE DEF q
<1>9. UploadInv(rv') /\ Answers(t, rv', Outcomes)
  BY <1>3, <1>7, <1>8, UploadReports DEF UploadCore
<1>10. QED
  BY <1>2, <1>5, <1>9 DEF SameReports, Answers

\* Every step of the vehicle keeps its item's invariant, and it answers its
\* user at most once or begins a new upload.
LEMMA RoboticVehicleStep ==
  ASSUME UploadInv(rv), offered \in Lists, RVNext
  PROVE  /\ UploadInv(rv')
         /\ \/ Answers(rv, rv', Outcomes) /\ uploads' = uploads
            \/ ~Alive(rv) /\ rv' = NewUpload /\ uploads' = uploads + 1
<1>0. rv \in UploadItems /\ UploadCore(rv) /\ UploadBase(rv)
  BY DEF UploadInv, UploadCore, UploadBase
<1>1. rv.next \in Nat
  BY <1>0, LinkAssumption, SeqRangeAssumption DEF UploadItems
<1>2. ASSUME rv' = rv
      PROVE  UploadInv(rv') /\ Answers(rv, rv', Outcomes)
  BY <1>2 DEF Answers
<1>3. ASSUME RVHold
      PROVE  UploadInv(rv') /\ Answers(rv, rv', Outcomes)
  <2> DEFINE t == [rv EXCEPT !.held = TRUE]
  <2>1. t \in UploadItems
    BY <1>0 DEF UploadItems
  <2>2. /\ SameReports(rv, t) /\ SameTimers(rv, t) /\ t.queued = rv.queued
        /\ t.retries = rv.retries /\ t.next = rv.next /\ t.items = rv.items
        /\ t.sent = rv.sent
    BY <1>0 DEF UploadItems, SameReports, SameTimers
  <2>3. rv' = t
    BY <1>3 DEF RVHold, Held
  <2> HIDE DEF t
  <2>4. UploadInv(t)
    BY <1>1, <2>1, <2>2, UploadUpdateTimed
  <2>5. QED
    BY <2>2, <2>3, <2>4 DEF Answers, SameReports
<1>4. ASSUME RVCancel
      PROVE  UploadInv(rv') /\ Answers(rv, rv', Outcomes)
  <2> DEFINE r == RemoveTimeout(rv)
             t == [r EXCEPT !.held = FALSE]
             u == Released(t)
  <2>1. PICK result \in {"Cancelled", "ConnectionError"} : rv' = Report(u, result)
    BY <1>4 DEF RVCancel, LetGo
  <2>2. UploadCore(r) /\ r \in UploadItems /\ SameReports(rv, r)
    BY <1>0, UploadRemoveTimeout DEF UploadCore, UploadBase
  <2> HIDE DEF r
  <2>3. t \in UploadItems
    BY <2>2 DEF UploadItems
  <2>4. /\ SameReports(r, t) /\ t.queued = r.queued /\ t.retries = r.retries
        /\ t.next = r.next /\ t.items = r.items /\ t.sent = r.sent /\ r.next \in Nat
    BY <2>2, LinkAssumption, SeqRangeAssumption DEF UploadItems, SameReports
  <2> HIDE DEF t
  <2>5. UploadCore(t)
    BY <2>2, <2>3, <2>4, UploadUpdate
  <2>6. UploadBase(u) /\ SameReports(t, u)
    BY <2>5, UploadReleased DEF UploadCore
  <2> HIDE DEF u
  <2>7. UploadInv(rv') /\ Answers(u, rv', Outcomes)
    BY <2>1, <2>6, UploadReports
  <2>8. QED
    BY <2>2, <2>4, <2>6, <2>7 DEF SameReports, Answers
<1>5. ASSUME RVStart
      PROVE  UploadInv(rv') /\ Answers(rv, rv', Outcomes)
  <2> DEFINE s == [rv EXCEPT !.started = TRUE, !.retries = 0]
             t == AddTimeout(s)
             u == [t EXCEPT !.next = 0, !.reads = rv.items # <<>>]
  <2>1. s \in UploadItems
    BY <1>0 DEF UploadItems
  <2>2. /\ SameReports(rv, s) /\ s.queued = rv.queued /\ s.retries = 0
        /\ s.next = rv.next /\ s.items = rv.items /\ s.sent = rv.sent
    BY <1>0 DEF UploadItems, SameReports
  <2>3. (rv' = Report(t, "InvalidSequence")) \/ SendCount(u)
    BY <1>5 DEF RVStart
  <2> HIDE DEF s
  <2>4. UploadCore(s)
    BY <1>0, <1>1, <2>1, <2>2, UploadUpdate
  <2>5. UploadInv(t) /\ t.retries = 0 /\ SameReports(s, t)
    BY <2>2, <2>4, UploadAddTimeout
  <2>6. t \in UploadItems /\ UploadBase(t)
    BY <2>5 DEF UploadInv, UploadCore, UploadBase
  <2> HIDE DEF t
  <2>7. 0 \in 0 .. SeqRange /\ (rv.items # <<>>) \in BOOLEAN
    BY LinkAssumption, SeqRangeAssumption
  <2> DEFINE b == rv.items # <<>>
  <2>8. b \in BOOLEAN
    BY <2>7
  <2>9. u = [t EXCEPT !.next = 0, !.reads = b]
    OBVIOUS
  <2> HIDE DEF b, u
  <2>10. u \in UploadItems
    BY <2>6, <2>7, <2>8, <2>9 DEF UploadItems
  <2>11. /\ SameReports(t, u) /\ SameTimers(t, u) /\ u.queued = t.queued
         /\ u.retries = t.retries /\ u.next = 0 /\ u.items = t.items /\ u.sent = t.sent
         /\ 0 <= t.next
    BY <2>6, <2>9, LinkAssumption, SeqRangeAssumption DEF UploadItems, SameReports, SameTimers
  <2>12. UploadInv(u)
    BY <2>5, <2>10, <2>11, UploadUpdateTimed
  <2>13. CASE rv' = Report(t, "InvalidSequence")
    BY <2>2, <2>5, <2>6, <2>13, UploadReports DEF SameReports, Answers
  <2>14. CASE SendCount(u)
    <3>1. UploadInv(rv') /\ Answers(u, rv', Outcomes)
      BY <2>5, <2>11, <2>12, <2>14, SendCountKeepsInv, RetriesAssumption
    <3>2. QED
      BY <2>2, <2>5, <2>11, <3>1 DEF SameReports, Answers
  <2>15. QED
    BY <2>3, <2>13, <2>14
<1>6. ASSUME RVPop
      PROVE  UploadInv(rv') /\ Answers(rv, rv', Outcomes)
  <2> DEFINE t == [rv EXCEPT !.queued = FALSE]
  <2>1. t \in UploadItems
    BY <1>0 DEF UploadItems
  <2>2. /\ SameReports(rv, t) /\ t.retries = rv.retries /\ t.next = rv.next
        /\ t.items = rv.items /\ t.sent = rv.sent
    BY <1>0 DEF UploadItems, SameReports
  <2>3. rv' = Released(t) /\ rv.done
    BY <1>6 DEF RVPop, Popped, CanPop
  <2> HIDE DEF t
  <2>4. UploadCore(Released(t)) /\ SameReports(t, Released(t))
    BY <1>0, <1>1, <2>1, <2>2, <2>3, UploadUpdate, UploadReleased
  <2>5. QED
    BY <2>2, <2>3, <2>4, UploadDoneIsEnough DEF SameReports, Answers
<1>7. CASE ProcessRequest
  <2>1. CASE rv' = NewUpload /\ ~Alive(rv) /\ uploads' = uploads + 1
    BY <1>0, <2>1, UploadKeepsInv
  <2>2. CASE rv' = rv /\ uploads' = uploads
    BY <1>2, <2>2
  <2>3. QED
    BY <1>7, <2>1, <2>2 DEF ProcessRequest
<1>8. ASSUME RVExpire
      PROVE  UploadInv(rv') /\ Answers(rv, rv', Outcomes)
  <2>1. rv' \in Expired(rv)
    BY <1>8 DEF RVExpire
  <2>2. CASE rv' = [rv EXCEPT !.armed = FALSE, !.firing = TRUE]
    <3> DEFINE t == [rv EXCEPT !.armed = FALSE, !.firing = TRUE]
    <3>1. t \in UploadItems
      BY <1>0 DEF UploadItems
    <3>2. /\ SameReports(rv, t) /\ t.retries = rv.retries /\ t.queued = rv.queued
          /\ t.firing /\ t.next = rv.next /\ t.items = rv.items /\ t.sent = rv.sent
      BY <1>0 DEF UploadItems, SameReports
    <3> HIDE DEF t
    <3>3. UploadInv(t)
      BY <1>0, <1>1, <3>1, <3>2, UploadUpdate DEF UploadInv, NeverWedged, TimerPending
    <3>4. QED
      BY <2>2, <3>2, <3>3 DEF SameReports, Answers, t
  <2>3. CASE rv.orphans > 0 /\ rv' = [rv EXCEPT !.orphans = @ - 1, !.firing = TRUE]
    <3> DEFINE t == [rv EXCEPT !.orphans = @ - 1, !.firing = TRUE]
    <3>1. rv.orphans - 1 \in Nat
      BY <1>0, <2>3 DEF UploadItems
    <3>2. t \in UploadItems
      BY <1>0, <3>1 DEF UploadItems
    <3>3. /\ SameReports(rv, t) /\ t.retries = rv.retries /\ t.queued = rv.queued
          /\ t.firing /\ t.next = rv.next /\ t.items = rv.items /\ t.sent = rv.sent
      BY <1>0 DEF UploadItems, SameReports
    <3> HIDE DEF t
    <3>4. UploadInv(t)
      BY <1>0, <1>1, <3>2, <3>3, UploadUpdate DEF UploadInv, NeverWedged, TimerPending
    <3>5. QED
      BY <2>3, <3>3, <3>4 DEF SameReports, Answers, t
  <2>4. QED
    BY <2>1, <2>2, <2>3 DEF Expired
<1>9. ASSUME RVTimeout
      PROVE  UploadInv(rv') /\ Answers(rv, rv', Outcomes)
  <2> DEFINE t == [rv EXCEPT !.firing = FALSE]
  <2>1. t \in UploadItems
    BY <1>0 DEF UploadItems
  <2>2. /\ SameReports(rv, t) /\ t.retries = rv.retries /\ t.queued = rv.queued
        /\ t.next = rv.next /\ t.items = rv.items /\ t.sent = rv.sent
    BY <1>0 DEF UploadItems, SameReports
  <2>3. rv' = Report(t, "Timeout")
    BY <1>9 DEF RVTimeout
  <2> HIDE DEF t
  <2>4. UploadBase(t)
    BY <1>0, <1>1, <2>1, <2>2, UploadUpdate DEF UploadCore
  <2>5. QED
    BY <2>2, <2>3, <2>4, UploadReports DEF SameReports, Answers
<1>10. CASE ~ProcessRequest
  <2>1. uploads' = uploads
    BY <1>10 DEF RVNext, RVReceive, Offer, SetList, RVHold, RVCancel, RVStart, RVPop, RVExpire,
                 RVTimeout, ProcessRead, ProcessAck
  <2>2. UploadInv(rv') /\ Answers(rv, rv', Outcomes)
    BY <1>2, <1>3, <1>4, <1>5, <1>6, <1>8, <1>9, <1>10, ReadKeepsInv, AckKeepsInv
    DEF RVNext, RVReceive, Offer, SetList
  <2>3. QED
    BY <2>1, <2>2
<1>11. QED
  BY <1>7, <1>10

-----------------------------------------------------------------------------
(***************************************************************************)
(* The link and the counters.                                              *)
(***************************************************************************)
\* Adding a packet to the link, or taking one that is under way from it,
\* leaves a number of copies of each packet.
LEMMA LinkType ==
  ASSUME NEW link \in [Messages -> Nat], NEW m
  PROVE  /\ With(link, m) \in [Messages -> Nat]
         /\ link = net /\ UnderWay(m) => Without(m) \in [Messages -> Nat]
<1>1. With(link, m) \in [Messages -> Nat]
  <2>1. m \in Messages => link[m] + 1 \in Nat
    OBVIOUS
  <2> HIDE DEF Messages
  <2>2. QED
    BY <2>1 DEF With
<1>2. ASSUME link = net, UnderWay(m)
      PROVE  Without(m) \in [Messages -> Nat]
  <2>1. m \in Messages => net[m] - 1 \in Nat
    BY <1>2 DEF UnderWay
  <2>2. QED
    BY <1>2, <2>1 DEF Without
<1>3. QED
  BY <1>1, <1>2

\* Every step leaves such a link.
LEMMA LinkStep ==
  ASSUME LinkOK, Next
  PROVE  LinkOK'
<1>1. net \in [Messages -> Nat] /\ duplicates \in 0 .. MaxDuplicates /\ MaxDuplicates \in Nat
  BY LinkAssumption, SeqRangeAssumption DEF LinkOK
<1>2. CASE Duplicate
  BY <1>1, <1>2, LinkType DEF Duplicate, LinkOK
<1>3. CASE GSNext
  <2>1. duplicates' = duplicates
    BY <1>3 DEF GSNext, GSReceive, Download, GSHold, GSCancel, GSStart, GSPop, GSExpire,
                GSTimeout, ProcessCount, ProcessItem, linkVars
  <2>2. net' \in [Messages -> Nat]
    <3>1. CASE UNCHANGED net
      BY <1>1, <3>1
    <3>2. ASSUME NEW s, NEW link \in [Messages -> Nat], NEW m, Ask(s, link, m)
          PROVE  net' \in [Messages -> Nat]
      BY <3>2, LinkType DEF Ask
    <3>3. ASSUME NEW s, NEW link \in [Messages -> Nat], NEW ack, NEW r, Finish(s, link, ack, r)
          PROVE  net' \in [Messages -> Nat]
      BY <3>3, LinkType DEF Finish
    <3>4. CASE GSCancel
      BY <1>1, <3>3, <3>4 DEF GSCancel
    <3>5. CASE GSStart
      BY <1>1, <3>2, <3>5 DEF GSStart
    <3>6. CASE GSTimeout
      BY <1>1, <3>1, <3>2, <3>6 DEF GSTimeout
    <3>7. ASSUME NEW n \in Indices, ProcessCount(n)
          PROVE  net' \in [Messages -> Nat]
      <4>1. Without(Count(n)) \in [Messages -> Nat]
        BY <1>1, <3>7, LinkType DEF ProcessCount
      <4>2. QED
        BY <3>2, <3>3, <3>7, <4>1 DEF ProcessCount
    <3>8. ASSUME NEW e \in Entries, ProcessItem(e)
          PROVE  net' \in [Messages -> Nat]
      <4>1. Without(Item(e)) \in [Messages -> Nat]
        BY <1>1, <3>8, LinkType DEF ProcessItem
      <4>2. QED
        BY <3>2, <3>3, <3>8, <4>1 DEF ProcessItem
    <3>9. QED
      BY <1>3, <3>1, <3>4, <3>5, <3>6, <3>7, <3>8
      DEF GSNext, GSReceive, Download, GSHold, GSPop, GSExpire, linkVars
  <2>3. QED
    BY <1>1, <2>1, <2>2 DEF LinkOK
<1>4. CASE RVNext
  <2>1. duplicates' = duplicates
    BY <1>4 DEF RVNext, RVReceive, Offer, SetList, RVHold, RVCancel, RVStart, RVPop, RVExpire,
                RVTimeout, ProcessRequest, ProcessRead, ProcessAck, linkVars
  <2>2. net' \in [Messages -> Nat]
    <3>1. CASE UNCHANGED net
      BY <1>1, <3>1
    <3>2. ASSUME NEW s, NEW link \in [Messages -> Nat], SendItem(s, link)
          PROVE  net' \in [Messages -> Nat]
      BY <3>2, LinkType DEF SendItem
    <3>3. CASE RVStart
      BY <1>1, <3>3, LinkType DEF RVStart, SendCount
    <3>4. CASE ProcessRequest
      BY <1>1, <3>4, LinkType DEF ProcessRequest
    <3>5. ASSUME NEW i \in Indices, ProcessRead(i)
          PROVE  net' \in [Messages -> Nat]
      <4>1. Without(Read(i)) \in [Messages -> Nat]
        BY <1>1, <3>5, LinkType DEF ProcessRead
      <4>2. QED
        BY <3>2, <3>5, <4>1 DEF ProcessRead
    <3>6. ASSUME NEW a \in AckTypes, ProcessAck(a)
          PROVE  net' \in [Messages -> Nat]
      BY <1>1, <3>6, LinkType DEF ProcessAck
    <3>7. QED
      BY <1>4, <3>1, <3>3, <3>4, <3>5, <3>6
      DEF RVNext, RVReceive, Offer, SetList, RVHold, RVCancel, RVPop, RVExpire, RVTimeout,
          linkVars
  <2>3. QED
    BY <1>1, <2>1, <2>2 DEF LinkOK
<1>5. QED
  BY <1>2, <1>3, <1>4 DEF Next, Network, GroundStation, RoboticVehicle

\* The users' counters and the list on offer.
GSCountersOK == downloads \in 0 .. MaxDownloads /\ gsCancels \in 0 .. MaxCancels
RVCountersOK ==
  /\ offered \in Lists /\ ready \in BOOLEAN
  /\ offers \in 0 .. MaxOffers /\ uploads \in 0 .. MaxUploads /\ rvCancels \in 0 .. MaxHolds

LEMMA GSCounters ==
  ASSUME GSCountersOK, GSNext
  PROVE  GSCountersOK'
<1>1. /\ downloads' = downloads \/ (downloads < MaxDownloads /\ downloads' = downloads + 1)
      /\ gsCancels' = gsCancels \/ (gsCancels < MaxCancels /\ gsCancels' = gsCancels + 1)
  BY DEF GSNext, GSReceive, Download, GSHold, GSCancel, GSStart, GSPop, GSExpire, GSTimeout,
         ProcessCount, ProcessItem
<1>2. QED
  BY <1>1, GroundStationAssumption DEF GSCountersOK

LEMMA RVCounters ==
  ASSUME RVCountersOK, RVNext
  PROVE  RVCountersOK'
<1>1. /\ offers' = offers \/ (offers < MaxOffers /\ offers' = offers + 1)
      /\ uploads' = uploads \/ (uploads < MaxUploads /\ uploads' = uploads + 1)
      /\ rvCancels' = rvCancels \/ (rvCancels < MaxHolds /\ rvCancels' = rvCancels + 1)
      /\ offered' \in Lists /\ ready' \in BOOLEAN
  BY DEF RVCountersOK, RVNext, RVReceive, Offer, SetList, RVHold, RVCancel, RVStart, RVPop,
         RVExpire, RVTimeout, ProcessRequest, ProcessRead, ProcessAck, offerVars
<1>2. MaxOffers \in Nat /\ MaxUploads \in Nat /\ MaxHolds \in Nat
  BY VehicleAssumption
<1>3. QED
  BY <1>1, <1>2 DEF RVCountersOK
-----------------------------------------------------------------------------
(***************************************************************************)
(* The composition.                                                        *)
(***************************************************************************)
IInv ==
  /\ LinkOK
  /\ GSCountersOK /\ DownloadInv(gs)
  /\ RVCountersOK /\ UploadInv(rv)

LEMMA InvInit == Init => IInv
<1> SUFFICES ASSUME Init PROVE IInv
  OBVIOUS
<1>1. LinkOK
  BY LinkAssumption, SeqRangeAssumption DEF Init, LinkInit, LinkOK
<1>2. GSCountersOK /\ RVCountersOK
  <2>1. MaxDownloads \in Nat /\ MaxCancels \in Nat
    BY GroundStationAssumption
  <2>2. MaxOffers \in Nat /\ MaxUploads \in Nat /\ MaxHolds \in Nat /\ <<>> \in Lists
    BY VehicleAssumption
  <2>3. GSCountersOK
    BY <2>1 DEF Init, GSInit, GSCountersOK
  <2>4. RVCountersOK
    <3>1. offered \in Lists /\ ready \in BOOLEAN
      BY <2>2, Zenon DEF Init, RVInit
    <3>2. offers = 0 /\ uploads = 0 /\ rvCancels = 0
      BY DEF Init, RVInit
    <3>3. QED
      BY <2>2, <3>1, <3>2 DEF RVCountersOK
  <2>5. QED
    BY <2>3, <2>4
<1>3. DownloadInv(gs)
  <2>1. gs = NoDownload /\ 0 \in 0 .. SeqRange /\ 0 \in Indices
    BY SeqRangeAssumption DEF Init, GSInit, Indices
  <2>2. gs \in DownloadItems
    BY <2>1 DEF NoDownload, DownloadItems, Steps
  <2>3. QED
    BY <2>1, <2>2, RetriesAssumption
    DEF NoDownload, DownloadInv, DownloadCore, ReportsWhenDone, RetriesBounded, NeverWedged,
        QueuedUntilDone
<1>4. UploadInv(rv)
  <2>1. rv = NoUpload /\ 0 \in 0 .. SeqRange /\ <<>> \in Lists
    BY LinkAssumption, SeqRangeAssumption, VehicleAssumption DEF Init, RVInit
  <2>2. rv \in UploadItems
    BY <2>1 DEF NoUpload, UploadItems, Acks
  <2>3. rv.next = 0 /\ rv.items = <<>> /\ rv.result.result # "Success" /\ rv.done
    BY <2>1 DEF NoUpload, NoOutcome
  <2>4. QED
    BY <2>1, <2>2, <2>3, RetriesAssumption
    DEF NoUpload, UploadInv, UploadCore, UploadBase, ReportsWhenDone, RetriesBounded,
        NeverWedged, QueuedUntilDone, SentSoFar
<1>5. QED
  BY <1>1, <1>2, <1>3, <1>4 DEF IInv

LEMMA InvNext == IInv /\ [Next]_vars => IInv'
<1> SUFFICES ASSUME IInv, [Next]_vars PROVE IInv'
  OBVIOUS
<1>1. CASE Next
  <2>1. LinkOK'
    BY <1>1, LinkStep DEF IInv
  <2>2. CASE GSNext /\ UNCHANGED rvVars
    <3>1. DownloadInv(gs')
      <4>1. CASE Download
        BY <4>1, DownloadKeepsInv DEF Download, IInv, DownloadInv, DownloadCore
      <4>2. CASE ~Download
        BY <2>2, <4>2, GroundStationStep DEF IInv
      <4>3. QED
        BY <4>1, <4>2
    <3>2. GSCountersOK'
      BY <2>2, GSCounters DEF IInv
    <3>3. RVCountersOK' /\ UploadInv(rv')
      BY <2>2 DEF IInv, rvVars, offerVars, RVCountersOK
    <3>4. QED
      BY <2>1, <3>1, <3>2, <3>3 DEF IInv
  <2>3. CASE RVNext /\ UNCHANGED gsVars
    <3>1. UploadInv(rv')
      BY <2>3, RoboticVehicleStep DEF IInv, RVCountersOK
    <3>2. RVCountersOK'
      BY <2>3, RVCounters DEF IInv
    <3>3. GSCountersOK' /\ DownloadInv(gs')
      BY <2>3 DEF IInv, gsVars, GSCountersOK
    <3>4. QED
      BY <2>1, <3>1, <3>2, <3>3 DEF IInv
  <2>4. CASE Network
    BY <2>1, <2>4 DEF Network, IInv, gsVars, rvVars, offerVars, GSCountersOK, RVCountersOK
  <2>5. QED
    BY <1>1, <2>2, <2>3, <2>4 DEF Next, GroundStation, RoboticVehicle
<1>2. CASE UNCHANGED vars
  BY <1>2 DEF vars, gsVars, rvVars, offerVars, linkVars, IInv, LinkOK, GSCountersOK,
              RVCountersOK
<1>3. QED
  BY <1>1, <1>2

LEMMA Invariance == Spec => []IInv
  BY InvInit, InvNext, PTL DEF Spec

-----------------------------------------------------------------------------
(***************************************************************************)
(* The theorems.                                                           *)
(***************************************************************************)
\* Every variable keeps its type; in particular sequence numbers stay within
\* the longest list and no list of a user is read out of bounds.
THEOREM TypeCorrect == Spec => []TypeOK
<1>1. IInv => TypeOK
  BY DEF IInv, TypeOK, GSOK, RVOK, GSCountersOK, RVCountersOK, DownloadInv, DownloadCore,
         UploadInv, UploadCore, UploadBase
<1>2. QED
  BY <1>1, Invariance, PTL

\* callback_and_reset(): an item that is done has called its callback once,
\* one that is not has not, on both sides.
THEOREM CallbackOnce == Spec => []ReportedOnce
<1>1. IInv => ReportedOnce
  BY DEF IInv, ReportedOnce, DownloadInv, DownloadCore, UploadInv, UploadCore, UploadBase
<1>2. QED
  BY <1>1, Invariance, PTL

\* A started item that is not done has a timer or a timeout on its way, so
\* do_work() is never left with a front item nobody will finish.
THEOREM QueueNeverWedged == Spec => []NothingWedged
<1>1. IInv => NothingWedged
  BY DEF IInv, NothingWedged, DownloadInv, UploadInv
<1>2. QED
  BY <1>1, Invariance, PTL

\* No packet is repeated more than `retries` times.
THEOREM RetriesLimited == Spec => []RetriesRespected
<1>1. IInv => RetriesRespected
  BY DEF IInv, RetriesRespected, DownloadInv, DownloadCore, UploadInv, UploadCore, UploadBase
<1>2. QED
  BY <1>1, Invariance, PTL

\* The vehicle reports Success only after it has sent every item.
THEOREM SuccessAfterAllSent == Spec => []SuccessMeansAllSent
<1>1. IInv => SuccessMeansAllSent
  BY DEF IInv, SuccessMeansAllSent, UploadInv, UploadCore, UploadBase
<1>2. QED
  BY <1>1, Invariance, PTL

\* The ground station's download implements the one-shot call: accepted only
\* when the last one was answered, and answered at most once.
THEOREM DownloadImplementsOneShot == Spec => DownloadIsOneShot
<1>1. Init => GSCalls!Init
  BY DEF Init, GSInit, NoDownload, GSCalls!Init
<1>2. IInv /\ [Next]_vars
        => [GSCalls!Next]_<<downloads, IF gs.done THEN "idle" ELSE "open", gs.result>>
  <2> SUFFICES ASSUME IInv, [Next]_vars
               PROVE  [GSCalls!Next]_<<downloads, IF gs.done THEN "idle" ELSE "open", gs.result>>
    OBVIOUS
  <2> USE DEF GSCalls!Next, GSCalls!Call, GSCalls!Reply, GSCalls!vars
  <2>1. CASE Download
    <3>1. gs.done
      BY <2>1 DEF Download, Alive, IInv, DownloadInv, DownloadCore, QueuedUntilDone
    <3>2. ~gs'.done /\ gs'.result = NoResult /\ downloads' = downloads + 1
      BY <2>1 DEF Download, NewDownload, NoDownload
    <3>3. QED
      BY <3>1, <3>2
  <2>2. CASE GSNext /\ ~Download
    <3>1. Answers(gs, gs', Results)
      BY <2>2, GroundStationStep DEF IInv
    <3>2. downloads' = downloads
      BY <2>2 DEF GSNext, GSReceive, GSHold, GSCancel, GSStart, GSPop, GSExpire, GSTimeout,
                  ProcessCount, ProcessItem
    <3>3. QED
      BY <3>1, <3>2 DEF Answers
  <2>3. CASE UNCHANGED <<gs, downloads>>
    BY <2>3
  <2>4. QED
    BY <2>1, <2>2, <2>3
    DEF Next, Network, GroundStation, RoboticVehicle, vars, gsVars
<1>3. QED
  BY <1>1, <1>2, Invariance, PTL DEF Spec, DownloadIsOneShot, GSCalls!Spec, GSCalls!vars

\* So does the vehicle's upload: a REQUEST begins one only when the last one
\* was answered.
THEOREM UploadImplementsOneShot == Spec => UploadIsOneShot
<1>1. Init => RVCalls!Init
  BY DEF Init, RVInit, NoUpload, RVCalls!Init
<1>2. IInv /\ [Next]_vars
        => [RVCalls!Next]_<<uploads, IF rv.done THEN "idle" ELSE "open", rv.result>>
  <2> SUFFICES ASSUME IInv, [Next]_vars
               PROVE  [RVCalls!Next]_<<uploads, IF rv.done THEN "idle" ELSE "open", rv.result>>
    OBVIOUS
  <2> USE DEF RVCalls!Next, RVCalls!Call, RVCalls!Reply, RVCalls!vars
  <2>1. CASE ~Alive(rv) /\ rv' = NewUpload /\ uploads' = uploads + 1
    <3>1. rv.done
      BY <2>1 DEF Alive, IInv, UploadInv, UploadCore, UploadBase, QueuedUntilDone
    <3>2. ~rv'.done /\ rv'.result = NoOutcome
      BY <2>1 DEF NewUpload, NoUpload
    <3>3. QED
      BY <2>1, <3>1, <3>2
  <2>2. CASE Answers(rv, rv', Outcomes) /\ uploads' = uploads
    BY <2>2 DEF Answers
  <2>3. CASE UNCHANGED <<rv, uploads>>
    BY <2>3
  <2>4. QED
    BY <2>1, <2>2, <2>3, RoboticVehicleStep
    DEF Next, Network, GroundStation, RoboticVehicle, vars, rvVars, IInv, RVCountersOK
<1>3. QED
  BY <1>1, <1>2, Invariance, PTL DEF Spec, UploadIsOneShot, RVCalls!Spec, RVCalls!vars

=============================================================================
