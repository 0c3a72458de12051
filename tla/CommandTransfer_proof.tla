----------------------- MODULE CommandTransfer_proof -----------------------
(***************************************************************************)
(* Theorems about CommandTransfer, for every set of commands and every     *)
(* number of retries, calls, cancels, duplicates and IN_PROGRESS acks.     *)
(***************************************************************************)
EXTENDS CommandTransfer, TLAPS

USE DEF NoResult, Results

-----------------------------------------------------------------------------
(***************************************************************************)
(* The item.                                                               *)
(***************************************************************************)
\* The strengthening of RetriesRespected: how _retries_done counts what was
\* sent.  Before start() it counts everything; start() counts anew, but only
\* an early timeout can have sent something before.
TriesCounted(s) ==
  /\ s.retries <= Retries /\ s.retries <= s.sent
  /\ s.sent <= IF s.early /\ s.started THEN Retries + s.retries ELSE s.retries
  /\ ~s.started /\ ~s.early => s.sent = 0
  /\ s.result = "Timeout" => s.sent >= Retries

\* An ack that may end an item with a success.
Ends(ack, s) == ack \in Acks /\ ack.result = "Final" /\ ack.command = s.command

SuccessIsAcked(s) == s.result = "Success" => Ends(s.answer, s)

\* What every piece of a handler relies on.
Core(s) ==
  /\ s \in SendItems
  /\ ReportsWhenDone(s)
  /\ QueuedUntilDone(s)
  /\ TriesCounted(s)
  /\ SuccessIsAcked(s)

\* What is invariant of a SendWorkItem.
Inv(s) == Core(s) /\ NeverWedged(s)

\* Two states of an item in which it has told its user the same ...
SameReports(s, t) ==
  /\ t.done = s.done /\ t.callback = s.callback /\ t.reports = s.reports
  /\ t.result = s.result /\ t.answer = s.answer /\ t.command = s.command

\* ... and has sent the same.
SameTries(s, t) ==
  t.retries = s.retries /\ t.sent = s.sent /\ t.early = s.early /\ t.started = s.started

\* From s to t the item has told its user at most one final result.
Answered(s, t) ==
  \/ t.done = s.done /\ t.result = s.result
  \/ ~s.done /\ t.done /\ t.result \in Results

\* What a handler does to what SuccessIsForThisCall reads: it sends nothing
\* and tells of no new success, ...
Quiet(s, t) ==
  /\ t.sent = s.sent
  /\ t.result # "Success" \/ (t.result = s.result /\ t.answer = s.answer)

\* ... or it sends the command once, ...
Sends(s, t) ==
  /\ t.sent = s.sent + 1 /\ t.result = s.result /\ t.answer = s.answer
  /\ net' = With(net, Order(s.command, calls))

\* ... or the ack ends the item, unless it is done.
Succeeds(s, t, ack) ==
  /\ t.sent = s.sent
  /\ t.answer = ack \/ (t.result = s.result /\ t.answer = s.answer)

LEMMA Update ==
  ASSUME NEW s, NEW t \in SendItems, Core(s), SameReports(s, t), SameTries(s, t),
         t.queued = s.queued \/ s.done
  PROVE  Core(t) /\ (t.done \/ TimerPending(t) => Inv(t))
  BY DEF Inv, Core, ReportsWhenDone, QueuedUntilDone, TriesCounted, SuccessIsAcked, Ends,
         NeverWedged, SameReports, SameTries

\* Report() leaves an item done and reported once.
LEMMA ReportKeeps ==
  ASSUME NEW s, Core(s), NEW r \in Results,
         r = "Success" => Ends(s.ack, s), r = "Timeout" => s.sent >= Retries
  PROVE  /\ Inv(Report(s, r))
         /\ Answered(s, Report(s, r))
         /\ SameTries(s, Report(s, r))
         /\ Succeeds(s, Report(s, r), s.ack)
         /\ r # "Success" => Quiet(s, Report(s, r))
<1> DEFINE n == IF s.callback THEN s.reports + 1 ELSE s.reports
           q == IF s.callback THEN r ELSE s.result
           a == IF s.callback THEN s.ack ELSE s.answer
           t == Report(s, r)
<1>1. s \in SendItems
  BY DEF Core
<1>2. n \in Nat /\ q \in Results \cup {NoResult} /\ a \in Acks \cup {NoAck}
  BY <1>1 DEF SendItems
<1>3. n = 1 /\ (IF s.done THEN q = s.result /\ a = s.answer ELSE q = r /\ a = s.ack)
  BY <1>1 DEF Core, ReportsWhenDone, SendItems
<1>4. t = [s EXCEPT !.reports = n, !.result = q, !.callback = FALSE, !.done = TRUE,
                    !.answer = a]
  BY <1>1 DEF Report, CallbackAndReset, SendItems
<1> HIDE DEF n, q, a, t
<1>5. t \in SendItems
  BY <1>1, <1>2, <1>4 DEF SendItems
<1>6. /\ t.reports = n /\ t.callback = FALSE /\ t.done = TRUE /\ t.result = q /\ t.answer = a
      /\ t.command = s.command /\ SameTries(s, t)
  BY <1>1, <1>4 DEF SendItems, SameTries
<1>7. TriesCounted(t)
  BY <1>3, <1>6 DEF Core, TriesCounted, SameTries
<1>8. SuccessIsAcked(t)
  BY <1>3, <1>6 DEF Core, SuccessIsAcked, Ends
<1>9. Inv(t)
  BY <1>3, <1>5, <1>6, <1>7, <1>8 DEF Inv, Core, ReportsWhenDone, NeverWedged, QueuedUntilDone
<1>10. Answered(s, t) /\ Succeeds(s, t, s.ack) /\ (r # "Success" => Quiet(s, t))
  BY <1>3, <1>6 DEF Answered, Succeeds, Quiet, SameTries
<1>11. QED
  BY <1>6, <1>9, <1>10 DEF t

\* AddTimeout() makes a timer pending.
LEMMA AddTimeoutKeeps ==
  ASSUME NEW s, Core(s)
  PROVE  /\ Inv(AddTimeout(s))
         /\ SameReports(s, AddTimeout(s)) /\ SameTries(s, AddTimeout(s))
         /\ AddTimeout(s).ack = s.ack
<1> DEFINE n == IF s.armed THEN s.orphans + 1 ELSE s.orphans
           t == AddTimeout(s)
<1>1. s \in SendItems
  BY DEF Core
<1>2. n \in Nat
  BY <1>1 DEF SendItems
<1>3. t = [s EXCEPT !.armed = TRUE, !.orphans = n]
  BY DEF AddTimeout
<1> HIDE DEF n, t
<1>4. t \in SendItems
  BY <1>1, <1>2, <1>3 DEF SendItems
<1>5. /\ t.armed = TRUE /\ t.queued = s.queued /\ t.ack = s.ack
      /\ SameReports(s, t) /\ SameTries(s, t)
  BY <1>1, <1>3 DEF SendItems, SameReports, SameTries
<1>6. Inv(t)
  BY <1>4, <1>5, Update DEF TimerPending
<1>7. QED
  BY <1>5, <1>6 DEF t

\* RemoveTimeout() keeps everything but NeverWedged.
LEMMA RemoveTimeoutKeeps ==
  ASSUME NEW s, Core(s)
  PROVE  /\ Core(RemoveTimeout(s))
         /\ SameReports(s, RemoveTimeout(s)) /\ SameTries(s, RemoveTimeout(s))
<1> DEFINE t == RemoveTimeout(s)
<1>1. s \in SendItems
  BY DEF Core
<1>2. t = [s EXCEPT !.armed = FALSE]
  BY DEF RemoveTimeout
<1> HIDE DEF t
<1>3. t \in SendItems
  BY <1>1, <1>2 DEF SendItems
<1>4. t.queued = s.queued /\ SameReports(s, t) /\ SameTries(s, t)
  BY <1>1, <1>2 DEF SendItems, SameReports, SameTries
<1>5. Core(t)
  BY <1>3, <1>4, Update
<1>6. QED
  BY <1>4, <1>5 DEF t

\* The destructor may remove the timer.
LEMMA ReleasedKeeps ==
  ASSUME NEW s, Core(s)
  PROVE  /\ Core(Released(s))
         /\ SameReports(s, Released(s)) /\ SameTries(s, Released(s))
  BY RemoveTimeoutKeeps DEF Released, SameReports, SameTries

LEMMA DoneIsEnough == ASSUME NEW s, Core(s), s.done PROVE Inv(s)
  BY DEF Inv, NeverWedged

\* Sending keeps the invariant if a try is left.
LEMMA SendKeeps ==
  ASSUME NEW s, Inv(s), s.retries < Retries, s.started \/ s.early, SendCommand(s)
  PROVE  /\ Inv(item') /\ Answered(s, item')
         /\ Sends(s, item') \/ (Quiet(s, item') /\ UNCHANGED net)
<1>1. PICK sent \in SendOutcomes :
        IF sent THEN /\ item' = [s EXCEPT !.retries = @ + 1, !.sent = @ + 1]
                     /\ net' = With(net, Order(s.command, calls))
        ELSE item' = Report(RemoveTimeout(s), "ConnectionError") /\ UNCHANGED net
  BY DEF SendCommand
<1>2. CASE sent
  <2> DEFINE n == s.retries + 1
             k == s.sent + 1
             t == [s EXCEPT !.retries = n, !.sent = k]
  <2>1. item' = t
    BY <1>1, <1>2
  <2>2. s \in SendItems
    BY DEF Inv, Core
  <2>3. s.retries \in Nat /\ s.sent \in Nat
    BY <2>2 DEF SendItems
  <2>4. n \in Nat /\ k \in Nat /\ n = s.retries + 1 /\ k = s.sent + 1
    BY <2>3
  <2> HIDE DEF n, k
  <2>5. t \in SendItems
    BY <2>2, <2>4 DEF SendItems
  <2>6. /\ t.retries = n /\ t.sent = k
        /\ t.early = s.early /\ t.started = s.started /\ t.queued = s.queued
        /\ SameReports(s, t)
    BY <2>2 DEF SendItems, SameReports
  <2>7. t.armed = s.armed /\ t.orphans = s.orphans /\ t.firing = s.firing
    BY <2>2 DEF SendItems
  <2> HIDE DEF t
  <2>8. TriesCounted(t)
    BY <2>3, <2>4, <2>6, RetriesAssumption DEF Inv, Core, TriesCounted, SameReports
  <2>9. Inv(t)
    BY <2>5, <2>6, <2>7, <2>8
    DEF Inv, Core, ReportsWhenDone, QueuedUntilDone, SuccessIsAcked, Ends, NeverWedged,
        TimerPending, SameReports
  <2>10. QED
    BY <1>1, <1>2, <2>1, <2>4, <2>6, <2>9 DEF Answered, SameReports, Sends
<1>3. CASE ~sent
  <2>1. Core(s)
    BY DEF Inv
  <2>2. /\ Core(RemoveTimeout(s))
        /\ SameReports(s, RemoveTimeout(s)) /\ SameTries(s, RemoveTimeout(s))
    BY <2>1, RemoveTimeoutKeeps
  <2>3. Inv(item') /\ Answered(RemoveTimeout(s), item') /\ Quiet(RemoveTimeout(s), item')
    BY <1>1, <1>3, <2>2, ReportKeeps
  <2>4. QED
    BY <1>1, <1>3, <2>2, <2>3 DEF SameReports, SameTries, Answered, Quiet
<1>4. QED
  BY <1>2, <1>3

\* send_command_async() creates a fresh item.
LEMMA NewItemKeeps ==
  ASSUME item \in SendItems, NEW c \in Commands
  PROVE  Inv(NewItem(c))
<1> DEFINE n == LostTimers(item)
           f == item.firing
           t == NewItem(c)
<1>1. n \in Nat /\ f \in BOOLEAN
  BY DEF LostTimers, SendItems
<1>2. NoItem \in SendItems
  <2>1. (CHOOSE d \in Commands : TRUE) \in Commands
    BY CommandAssumption
  <2>2. QED
    BY <2>1 DEF NoItem, SendItems
<1>3. t = [NoItem EXCEPT !.queued = TRUE, !.done = FALSE, !.callback = TRUE, !.reports = 0,
                        !.command = c, !.orphans = n, !.firing = f]
  BY DEF NewItem
<1>4. /\ NoItem.started = FALSE /\ NoItem.retries = 0 /\ NoItem.sent = 0
      /\ NoItem.early = FALSE /\ NoItem.result = NoResult
  BY DEF NoItem
<1> HIDE DEF n, f, t
<1>5. t \in SendItems
  BY <1>1, <1>2, <1>3 DEF SendItems
<1>6. /\ ~t.done /\ t.callback /\ t.reports = 0 /\ ~t.started /\ t.queued
      /\ t.retries = 0 /\ t.sent = 0 /\ ~t.early /\ t.result = NoResult
  BY <1>2, <1>3, <1>4 DEF SendItems
<1>7. Inv(t)
  BY <1>5, <1>6, RetriesAssumption
  DEF Inv, Core, ReportsWhenDone, QueuedUntilDone, TriesCounted, SuccessIsAcked, NeverWedged
<1>8. QED
  BY <1>7 DEF t

-----------------------------------------------------------------------------
(***************************************************************************)
(* The handlers.                                                           *)
(***************************************************************************)
LEMMA HoldKeeps ==
  ASSUME Inv(item), Hold
  PROVE  Inv(item') /\ Answered(item, item') /\ Quiet(item, item')
<1> DEFINE t == [item EXCEPT !.held = TRUE]
<1>1. item \in SendItems /\ Core(item)
  BY DEF Inv, Core
<1>2. t \in SendItems
  BY <1>1 DEF SendItems
<1>3. t.queued = item.queued /\ SameReports(item, t) /\ SameTries(item, t)
  BY <1>1 DEF SendItems, SameReports, SameTries
<1>4. t.armed = item.armed /\ t.orphans = item.orphans /\ t.firing = item.firing
  BY <1>1 DEF SendItems
<1>5. item' = t
  BY DEF Hold, Held
<1> HIDE DEF t
<1>6. Core(t)
  BY <1>1, <1>2, <1>3, Update
<1>7. NeverWedged(t)
  BY <1>3, <1>4 DEF Inv, NeverWedged, TimerPending, SameReports, SameTries
<1>8. QED
  BY <1>3, <1>5, <1>6, <1>7 DEF Inv, Answered, Quiet, SameReports, SameTries

LEMMA CancelKeeps ==
  ASSUME Inv(item), Cancel
  PROVE  Inv(item') /\ Answered(item, item') /\ Quiet(item, item')
<1> DEFINE r == RemoveTimeout(item)
           p == Report(r, "Cancelled")
           t == [p EXCEPT !.held = FALSE]
<1>1. item' = Released(t)
  BY DEF Cancel, LetGo
<1>2. Core(r) /\ SameReports(item, r) /\ SameTries(item, r)
  BY RemoveTimeoutKeeps DEF Inv
<1> HIDE DEF r
<1>3. Inv(p) /\ Answered(r, p) /\ Quiet(r, p)
  BY <1>2, ReportKeeps
<1>4. p.done
  BY <1>3 DEF Answered, p, Report, CallbackAndReset, Inv, Core, SendItems
<1> HIDE DEF p
<1>5. p \in SendItems /\ Core(p)
  BY <1>3 DEF Inv, Core
<1>6. t \in SendItems
  BY <1>5 DEF SendItems
<1>7. t.queued = p.queued /\ SameReports(p, t) /\ SameTries(p, t)
  BY <1>5 DEF SendItems, SameReports, SameTries
<1> HIDE DEF t
<1>8. Core(t)
  BY <1>5, <1>6, <1>7, Update
<1>9. Core(item') /\ SameReports(t, item') /\ SameTries(t, item')
  BY <1>1, <1>8, ReleasedKeeps
<1>10. Inv(item')
  BY <1>4, <1>7, <1>9, DoneIsEnough DEF SameReports
<1>11. QED
  BY <1>2, <1>3, <1>7, <1>9, <1>10 DEF SameReports, SameTries, Answered, Quiet

LEMMA StartKeeps ==
  ASSUME Inv(item), Start
  PROVE  /\ Inv(item') /\ Answered(item, item')
         /\ Sends(item, item') \/ (Quiet(item, item') /\ UNCHANGED net)
<1> DEFINE t == [item EXCEPT !.started = TRUE, !.retries = 0]
<1>1. item \in SendItems /\ Core(item) /\ ~item.started
  BY DEF Inv, Core, Start, CanStart
<1>2. item.retries \in Nat /\ item.sent \in Nat
  BY <1>1 DEF SendItems
<1>3. t \in SendItems
  BY <1>1 DEF SendItems
<1>4. /\ t.started /\ t.retries = 0 /\ t.sent = item.sent /\ t.early = item.early
      /\ t.queued = item.queued /\ SameReports(item, t)
  BY <1>1 DEF SendItems, SameReports
<1>5. SendCommand(AddTimeout(t))
  BY DEF Start
<1> HIDE DEF t
<1>6. TriesCounted(t)
  BY <1>1, <1>2, <1>4, RetriesAssumption DEF Core, TriesCounted, SameReports
<1>7. Core(t)
  BY <1>1, <1>3, <1>4, <1>6
  DEF Core, ReportsWhenDone, QueuedUntilDone, SuccessIsAcked, Ends, SameReports
<1>8. Inv(AddTimeout(t)) /\ SameReports(t, AddTimeout(t)) /\ SameTries(t, AddTimeout(t))
  BY <1>7, AddTimeoutKeeps
<1>9. AddTimeout(t).retries < Retries /\ AddTimeout(t).started
  BY <1>4, <1>8, RetriesAssumption DEF SameTries
<1>10. /\ Inv(item') /\ Answered(AddTimeout(t), item')
       /\ \/ Sends(AddTimeout(t), item')
          \/ Quiet(AddTimeout(t), item') /\ UNCHANGED net
  BY <1>5, <1>8, <1>9, SendKeeps
<1>11. QED
  BY <1>4, <1>8, <1>10 DEF SameReports, SameTries, Answered, Quiet, Sends

LEMMA PopKeeps ==
  ASSUME Inv(item), Pop
  PROVE  Inv(item') /\ Answered(item, item') /\ Quiet(item, item')
<1> DEFINE t == [item EXCEPT !.queued = FALSE]
<1>1. item \in SendItems /\ Core(item) /\ item.done
  BY DEF Inv, Core, Pop, CanPop
<1>2. t \in SendItems
  BY <1>1 DEF SendItems
<1>3. SameReports(item, t) /\ SameTries(item, t)
  BY <1>1 DEF SendItems, SameReports, SameTries
<1>4. item' = Released(t)
  BY DEF Pop, Popped
<1> HIDE DEF t
<1>5. Core(t)
  BY <1>1, <1>2, <1>3, Update
<1>6. Core(item') /\ SameReports(t, item') /\ SameTries(t, item')
  BY <1>4, <1>5, ReleasedKeeps
<1>7. QED
  BY <1>1, <1>3, <1>6, DoneIsEnough DEF SameReports, SameTries, Answered, Quiet

LEMMA ProcessAckKeeps ==
  ASSUME Inv(item), NEW ack \in Acks, ProcessAck(ack)
  PROVE  /\ Inv(item') /\ Answered(item, item')
         /\ \/ Quiet(item, item')
            \/ ack.result = "Final" /\ Succeeds(item, item', ack)
<1> DEFINE r == RemoveTimeout(item)
           s == [r EXCEPT !.ack = ack]
           a == AddTimeout(s)
           t == [a EXCEPT !.told = @ \/ s.callback]
<1>1. \/ item' = item
      \/ ack.command = item.command /\ item' = t
      \/ /\ ack.command = item.command /\ ack.result # "InProgress"
         /\ item' = Report(s, "Success")
  BY DEF ProcessAck
<1>2. Core(r) /\ SameReports(item, r) /\ SameTries(item, r)
  BY RemoveTimeoutKeeps DEF Inv
<1> HIDE DEF r
<1>3. r \in SendItems
  BY <1>2 DEF Core
<1>4. s \in SendItems
  BY <1>3 DEF SendItems
<1>5. s.ack = ack /\ s.queued = r.queued /\ SameReports(r, s) /\ SameTries(r, s)
  BY <1>3 DEF SendItems, SameReports, SameTries
<1> HIDE DEF s
<1>6. Core(s)
  BY <1>2, <1>4, <1>5, Update
<1>7. CASE ack.command = item.command /\ item' = t
  <2>1. Inv(a) /\ SameReports(s, a) /\ SameTries(s, a)
    BY <1>6, AddTimeoutKeeps
  <2>2. a.armed
    BY <1>4 DEF a, AddTimeout, SendItems
  <2> HIDE DEF a
  <2>3. a \in SendItems /\ Core(a)
    BY <2>1 DEF Inv, Core
  <2>4. (a.told \/ s.callback) \in BOOLEAN
    BY <1>4, <2>3 DEF SendItems
  <2>5. t \in SendItems
    BY <2>3, <2>4 DEF SendItems
  <2>6. t.armed = a.armed /\ t.queued = a.queued /\ SameReports(a, t) /\ SameTries(a, t)
    BY <2>3 DEF SendItems, SameReports, SameTries
  <2> HIDE DEF t
  <2>7. Inv(t)
    BY <2>2, <2>3, <2>5, <2>6, Update DEF TimerPending
  <2>8. QED
    BY <1>2, <1>5, <1>7, <2>1, <2>6, <2>7 DEF SameReports, SameTries, Answered, Quiet
<1>8. CASE /\ ack.command = item.command /\ ack.result # "InProgress"
           /\ item' = Report(s, "Success")
  <2>1. ack.result = "Final"
    BY <1>8 DEF Acks
  <2>2. Ends(s.ack, s)
    BY <1>2, <1>5, <1>8, <2>1 DEF Ends, SameReports
  <2>3. Inv(item') /\ Answered(s, item') /\ Succeeds(s, item', s.ack)
    BY <1>6, <1>8, <2>2, ReportKeeps
  <2>4. QED
    BY <1>2, <1>5, <2>1, <2>3 DEF SameReports, SameTries, Answered, Succeeds
<1>9. QED
  BY <1>1, <1>7, <1>8 DEF Answered, Quiet

LEMMA ExpireKeeps ==
  ASSUME Inv(item), Expire
  PROVE  Inv(item') /\ Answered(item, item') /\ Quiet(item, item')
<1>1. item \in SendItems /\ Core(item)
  BY DEF Inv, Core
<1>2. item' \in SendItems /\ item'.firing
  <2>1. \/ item' = [item EXCEPT !.armed = FALSE, !.firing = TRUE]
        \/ item.orphans > 0 /\ item' = [item EXCEPT !.orphans = @ - 1, !.firing = TRUE]
    BY DEF Expire, Expired
  <2>2. CASE item' = [item EXCEPT !.armed = FALSE, !.firing = TRUE]
    BY <1>1, <2>2 DEF SendItems
  <2>3. CASE item.orphans > 0 /\ item' = [item EXCEPT !.orphans = @ - 1, !.firing = TRUE]
    <3>1. item.orphans - 1 \in Nat
      BY <1>1, <2>3 DEF SendItems
    <3>2. QED
      BY <1>1, <2>3, <3>1 DEF SendItems
  <2>4. QED
    BY <2>1, <2>2, <2>3
<1>3. SameReports(item, item') /\ SameTries(item, item') /\ item'.queued = item.queued
  BY <1>1 DEF Expire, Expired, SendItems, SameReports, SameTries
<1>4. QED
  BY <1>1, <1>2, <1>3, Update DEF TimerPending, SameReports, SameTries, Answered, Quiet

LEMMA TimeoutKeeps ==
  ASSUME Inv(item), Timeout
  PROVE  /\ Inv(item') /\ Answered(item, item')
         /\ Sends(item, item') \/ (Quiet(item, item') /\ UNCHANGED net)
<1> DEFINE s == [item EXCEPT !.firing = FALSE, !.early = @ \/ ~item.started]
<1>1. item \in SendItems /\ Core(item)
  BY DEF Inv, Core
<1>2. item.retries \in Nat /\ item.sent \in Nat /\ item.started \in BOOLEAN
      /\ item.early \in BOOLEAN
  BY <1>1 DEF SendItems
<1>3. (item.early \/ ~item.started) \in BOOLEAN
  OBVIOUS
<1>4. s \in SendItems
  BY <1>1, <1>3 DEF SendItems
<1>5. /\ s.early = (item.early \/ ~item.started) /\ s.started = item.started
      /\ s.retries = item.retries /\ s.sent = item.sent /\ s.queued = item.queued
      /\ SameReports(item, s)
  BY <1>1 DEF SendItems, SameReports
<1>6. \/ s.retries >= Retries /\ item' = Report(s, "Timeout") /\ UNCHANGED net
      \/ ~(s.retries >= Retries) /\ SendCommand(AddTimeout(s))
  BY DEF Timeout
<1> HIDE DEF s
<1>7. TriesCounted(s)
  BY <1>1, <1>2, <1>5 DEF Core, TriesCounted, SameReports
<1>8. Core(s)
  BY <1>1, <1>4, <1>5, <1>7
  DEF Core, ReportsWhenDone, QueuedUntilDone, SuccessIsAcked, Ends, SameReports
<1>9. CASE s.retries >= Retries /\ item' = Report(s, "Timeout") /\ UNCHANGED net
  <2>1. s.sent >= Retries
    BY <1>2, <1>5, <1>7, <1>9, RetriesAssumption DEF TriesCounted
  <2>2. Inv(item') /\ Answered(s, item') /\ Quiet(s, item') /\ UNCHANGED net
    BY <1>8, <1>9, <2>1, ReportKeeps
  <2>3. QED
    BY <1>5, <2>2 DEF SameReports, Answered, Quiet
<1>10. CASE ~(s.retries >= Retries) /\ SendCommand(AddTimeout(s))
  <2>1. /\ Inv(AddTimeout(s)) /\ SameReports(s, AddTimeout(s))
        /\ SameTries(s, AddTimeout(s))
    BY <1>8, AddTimeoutKeeps
  <2>2. AddTimeout(s).retries < Retries
    BY <1>2, <1>5, <1>10, <2>1, RetriesAssumption DEF SameTries
  <2>3. AddTimeout(s).started \/ AddTimeout(s).early
    BY <1>5, <2>1 DEF SameTries
  <2>4. /\ Inv(item') /\ Answered(AddTimeout(s), item')
        /\ \/ Sends(AddTimeout(s), item')
           \/ Quiet(AddTimeout(s), item') /\ UNCHANGED net
    BY <1>10, <2>1, <2>2, <2>3, SendKeeps
  <2>5. QED
    BY <1>5, <2>1, <2>4 DEF SameReports, SameTries, Answered, Quiet, Sends
<1>11. QED
  BY <1>6, <1>9, <1>10

-----------------------------------------------------------------------------
(***************************************************************************)
(* The link, the counters and the vehicle.                                 *)
(***************************************************************************)
CountersOK == calls \in 0 .. MaxCalls /\ cancels \in 0 .. MaxCancels /\ settled \in BOOLEAN

LEMMA LinkType ==
  ASSUME net \in [Messages -> Nat], NEW m
  PROVE  /\ With(net, m) \in [Messages -> Nat]
         /\ UnderWay(m) => Without(m) \in [Messages -> Nat]
<1>1. With(net, m) \in [Messages -> Nat]
  <2>1. CASE m \in Messages
    <3>1. net[m] + 1 \in Nat
      BY <2>1
    <3>2. QED
      BY <2>1, <3>1 DEF With
  <2>2. CASE m \notin Messages
    BY <2>2 DEF With
  <2>3. QED
    BY <2>1, <2>2
<1>2. ASSUME UnderWay(m), m \in Messages PROVE Without(m) \in [Messages -> Nat]
  <2>1. net[m] - 1 \in Nat
    BY <1>2 DEF UnderWay
  <2>2. QED
    BY <1>2, <2>1 DEF Without
<1>3. ASSUME m \notin Messages PROVE Without(m) \in [Messages -> Nat]
  BY <1>3 DEF Without
<1>4. QED
  BY <1>1, <1>2, <1>3

\* What a step of the station does to its item, the packets and the counters.
LEMMA StationStep ==
  ASSUME Inv(item), StationNext
  PROVE  /\ Inv(item')
         /\ \/ \E c \in Commands : SendCommandAsync(c)
            \/ /\ UNCHANGED <<duplicates, calls, settled>>
               /\ cancels' = cancels \/ (cancels < MaxCancels /\ cancels' = cancels + 1)
               /\ Answered(item, item')
               /\ \/ Sends(item, item')
                  \/ Quiet(item, item') /\ UNCHANGED net
                  \/ \E ack \in Acks :
                       /\ UnderWay(ack)
                       /\ net' = Without(ack)
                       /\ \/ Quiet(item, item')
                          \/ ack.result = "Final" /\ Succeeds(item, item', ack)
<1>1. CASE \E c \in Commands : SendCommandAsync(c)
  <2>1. PICK c \in Commands : item' = NewItem(c)
    BY <1>1 DEF SendCommandAsync
  <2>2. item \in SendItems
    BY DEF Inv, Core
  <2>3. QED
    BY <1>1, <2>1, <2>2, NewItemKeeps
<1>2. CASE Hold
  BY <1>2, HoldKeeps DEF Hold, linkVars
<1>3. CASE Cancel
  BY <1>3, CancelKeeps DEF Cancel, Uncounted
<1>4. CASE Start
  BY <1>4, StartKeeps DEF Start, Uncounted
<1>5. CASE Pop
  BY <1>5, PopKeeps DEF Pop, Uncounted
<1>6. ASSUME NEW ack \in Acks, ProcessAck(ack)
      PROVE  /\ Inv(item') /\ Answered(item, item')
             /\ UNCHANGED <<duplicates, calls, settled, cancels>>
             /\ UnderWay(ack) /\ net' = Without(ack)
             /\ \/ Quiet(item, item')
                \/ ack.result = "Final" /\ Succeeds(item, item', ack)
  <2>1. UNCHANGED <<duplicates, calls, settled, cancels>> /\ UnderWay(ack) /\ net' = Without(ack)
    BY <1>6 DEF ProcessAck, Uncounted
  <2>2. QED
    BY <1>6, <2>1, ProcessAckKeeps
<1>7. CASE Expire
  BY <1>7, ExpireKeeps DEF Expire, Uncounted
<1>8. CASE Timeout
  BY <1>8, TimeoutKeeps DEF Timeout, Uncounted
<1>9. QED
  BY <1>1, <1>2, <1>3, <1>4, <1>5, <1>6, <1>7, <1>8 DEF StationNext

\* What a step of the vehicle does to the packets and its callbacks.
LEMMA VehicleStep ==
  ASSUME VehicleOK, net \in [Messages -> Nat], VehicleNext
  PROVE  /\ VehicleOK' /\ net' \in [Messages -> Nat] /\ UNCHANGED duplicates
         /\ \/ UNCHANGED <<net, inbox>>
            \/ \E o \in Orders : UnderWay(o) /\ net' = Without(o) /\ inbox' \in {inbox, Append(inbox, o)}
            \/ /\ inbox # <<>> /\ UNCHANGED inbox
               /\ net' = With(net, AckOf(Head(inbox), "InProgress"))
            \/ /\ inbox # <<>> /\ inbox' = Tail(inbox)
               /\ net' \in {net, With(net, AckOf(Head(inbox), "Final"))}
<1> inbox \in Seq(Orders)
  BY DEF VehicleOK
<1>1. CASE Subscribe
  BY <1>1 DEF Subscribe, VehicleOK, linkVars
<1>2. ASSUME NEW o \in Orders, ProcessCommand(o)
      PROVE  /\ VehicleOK' /\ net' \in [Messages -> Nat] /\ UNCHANGED duplicates
             /\ UnderWay(o) /\ net' = Without(o) /\ inbox' \in {inbox, Append(inbox, o)}
  <2>1. /\ UNCHANGED <<duplicates, subscribed, progress>> /\ UnderWay(o) /\ net' = Without(o)
        /\ inbox' \in {inbox, Append(inbox, o)}
    BY <1>2 DEF ProcessCommand
  <2>2. net' \in [Messages -> Nat]
    BY <2>1, LinkType
  <2>3. inbox' \in Seq(Orders)
    BY <2>1
  <2>4. QED
    BY <2>1, <2>2, <2>3 DEF VehicleOK
<1>3. CASE Progress
  <2>1. /\ inbox # <<>> /\ UNCHANGED <<duplicates, subscribed, inbox>>
        /\ progress' = TRUE
        /\ net' \in {net, With(net, AckOf(Head(inbox), "InProgress"))}
    BY <1>3 DEF Progress, SendAck
  <2>2. net' \in [Messages -> Nat]
    BY <2>1, LinkType
  <2>3. QED
    BY <2>1, <2>2 DEF VehicleOK
<1>4. CASE Answer
  <2>1. /\ inbox # <<>> /\ inbox' = Tail(inbox) /\ UNCHANGED <<duplicates, subscribed, progress>>
        /\ net' \in {net, With(net, AckOf(Head(inbox), "Final"))}
    BY <1>4 DEF Answer, SendAck
  <2>2. net' \in [Messages -> Nat]
    BY <2>1, LinkType
  <2>3. inbox' \in Seq(Orders)
    BY <2>1
  <2>4. QED
    BY <2>1, <2>2, <2>3 DEF VehicleOK
<1>5. QED
  BY <1>1, <1>2, <1>3, <1>4 DEF VehicleNext

-----------------------------------------------------------------------------
(***************************************************************************)
(* The strengthening of SuccessIsForThisCall.  A COMMAND_LONG turns into a *)
(* user callback of the vehicle and that into a final ack; each step takes *)
(* the one and makes at most one of the other.  So what was sent once is   *)
(* under way in one place at most, and when its final ack has arrived, in  *)
(* none.                                                                   *)
(***************************************************************************)
\* The packets of call k that lead to its final ack, or are it.
Leads(k) == {m \in Messages : m.call = k /\ (m \in Acks => m.result = "Final")}

Waiting(k) == {i \in 1 .. Len(inbox) : inbox[i].call = k}

Gone(k) == (\A m \in Leads(k) : net[m] = 0) /\ Waiting(k) = {}

OnePlace(k) ==
  /\ \A m \in Leads(k) : net[m] <= 1 /\ (net[m] > 0 => Waiting(k) = {})
  /\ \A m, n \in Leads(k) : net[m] > 0 /\ net[n] > 0 => m = n
  /\ \A i, j \in Waiting(k) : i = j

Fresh ==
  settled /\ duplicates = 0 =>
    /\ \A k \in Calls : k # calls => Gone(k)
    /\ item.sent = 0 => Gone(calls) /\ item.result # "Success"
    /\ item.sent = 1 => OnePlace(calls) /\ (item.result = "Success" => Gone(calls))
    /\ item.result = "Success" => item.answer.call = calls

\* What the lemmas below rely on.
Places == net \in [Messages -> Nat] /\ inbox \in Seq(Orders)

LEMMA CallOfMessages ==
  /\ \A o \in Orders : o \in Messages /\ o \notin Acks /\ o.call \in Calls
  /\ \A a \in Acks : a \in Messages /\ a.call \in Calls
  /\ \A o \in Orders : \A r \in {"InProgress", "Final"} :
       AckOf(o, r) \in Acks /\ AckOf(o, r).call = o.call /\ AckOf(o, r).result = r
<1>1. \A o \in Orders : o.type = "CommandLong" /\ o.call \in Calls /\ o.command \in Commands
  BY DEF Orders
<1>2. \A a \in Acks : a.type = "CommandAck" /\ a.call \in Calls
  BY DEF Acks
<1>3. \A o \in Orders : o \in Messages /\ o \notin Acks /\ o.call \in Calls
  BY <1>1, <1>2 DEF Messages
<1>4. \A a \in Acks : a \in Messages /\ a.call \in Calls
  BY <1>2 DEF Messages
<1>5. ASSUME NEW o \in Orders, NEW r \in {"InProgress", "Final"}
      PROVE  AckOf(o, r) \in Acks /\ AckOf(o, r).call = o.call /\ AckOf(o, r).result = r
  BY <1>1 DEF AckOf, Acks
<1>6. QED
  BY <1>3, <1>4, <1>5

\* A packet that is received is under way no more.
LEMMA ReceiveMovesOn ==
  ASSUME Places, NEW m \in Messages, UnderWay(m), net' = Without(m), UNCHANGED inbox, NEW k
  PROVE  /\ Gone(k) => Gone(k)'
         /\ OnePlace(k) => OnePlace(k)'
         /\ OnePlace(k) /\ m \in Leads(k) => Gone(k)'
<1>1. \A n \in Messages : net[n] \in Nat
  BY DEF Places
<1>2. \A n \in Messages : net'[n] = IF n = m THEN net[n] - 1 ELSE net[n]
  BY DEF Places, Without
<1>3. net[m] > 0
  BY DEF UnderWay
<1>4. \A n \in Leads(k) : n \in Messages
  BY DEF Leads
<1>5. Leads(k)' = Leads(k) /\ Waiting(k)' = Waiting(k)
  BY DEF Leads, Waiting
<1>6. \A n \in Leads(k) : net'[n] \in Nat /\ net'[n] <= net[n]
  BY <1>1, <1>2, <1>3, <1>4
<1>7. Gone(k) => Gone(k)'
  BY <1>1, <1>4, <1>5, <1>6 DEF Gone
<1>8. OnePlace(k) => OnePlace(k)'
  BY <1>1, <1>4, <1>5, <1>6 DEF OnePlace
<1>9. ASSUME OnePlace(k), m \in Leads(k) PROVE Gone(k)'
  <2>1. Waiting(k) = {} /\ net[m] <= 1
    BY <1>3, <1>9 DEF OnePlace
  <2>2. ASSUME NEW n \in Leads(k) PROVE net'[n] = 0
    <3>1. CASE n = m
      BY <1>1, <1>2, <1>3, <2>1, <3>1
    <3>2. CASE n # m
      <4>1. ~(net[n] > 0)
        BY <1>3, <1>9, <3>2 DEF OnePlace
      <4>2. QED
        BY <1>1, <1>2, <1>4, <3>2, <4>1
    <3>3. QED
      BY <3>1, <3>2
  <2>3. QED
    BY <1>5, <2>1, <2>2 DEF Gone
<1>10. QED
  BY <1>7, <1>8, <1>9

\* A packet that leads nowhere changes nothing.
LEMMA OtherPackets ==
  ASSUME Places, NEW m, NEW k, m \notin Leads(k), net' = With(net, m), UNCHANGED inbox
  PROVE  /\ Gone(k) => Gone(k)'
         /\ OnePlace(k) => OnePlace(k)'
<1>1. \A n \in Leads(k) : n \in Messages /\ n # m
  BY DEF Leads
<1>2. \A n \in Leads(k) : net'[n] = net[n]
  BY <1>1 DEF Places, With
<1>3. Leads(k)' = Leads(k) /\ Waiting(k)' = Waiting(k)
  BY DEF Leads, Waiting
<1>4. QED
  BY <1>2, <1>3 DEF Gone, OnePlace

\* The first COMMAND_LONG of a call is in one place.
LEMMA FirstSend ==
  ASSUME Places, NEW m, NEW k, Gone(k), net' = With(net, m), UNCHANGED inbox
  PROVE  OnePlace(k)'
<1>1. \A n \in Leads(k) : n \in Messages /\ net[n] = 0
  BY DEF Leads, Gone
<1>2. \A n \in Leads(k) : net'[n] = IF n = m THEN 1 ELSE 0
  <2>1. ASSUME NEW n \in Leads(k) PROVE net'[n] = IF n = m THEN net[n] + 1 ELSE net[n]
    BY <1>1, <2>1 DEF Places, With
  <2>2. QED
    BY <1>1, <2>1
<1>3. Leads(k)' = Leads(k) /\ Waiting(k)' = Waiting(k) /\ Waiting(k) = {}
  BY DEF Leads, Waiting, Gone
<1>4. QED
  BY <1>2, <1>3 DEF OnePlace

\* process_command() moves a COMMAND_LONG to the callbacks or drops it.
LEMMA ProcessCommandMovesOn ==
  ASSUME Places, NEW o \in Orders, UnderWay(o), net' = Without(o), inbox' = Append(inbox, o),
         NEW k
  PROVE  /\ Gone(k) => Gone(k)'
         /\ OnePlace(k) => OnePlace(k)'
<1>1. \A n \in Messages : net[n] \in Nat
  BY DEF Places
<1>2. o \in Messages /\ (o.call = k => o \in Leads(k))
  BY CallOfMessages DEF Leads
<1>3. \A n \in Messages : net'[n] = IF n = o THEN net[n] - 1 ELSE net[n]
  BY DEF Places, Without
<1>4. net[o] > 0
  BY DEF UnderWay
<1>5. \A n \in Leads(k) : n \in Messages
  BY DEF Leads
<1>6. Leads(k)' = Leads(k)
  BY DEF Leads
<1>7. Len(inbox) \in Nat /\ Len(inbox') = Len(inbox) + 1
      /\ \A i \in 1 .. Len(inbox') : inbox'[i] = IF i = Len(inbox) + 1 THEN o ELSE inbox[i]
  BY DEF Places
<1>8. Waiting(k)' = Waiting(k) \cup (IF o.call = k THEN {Len(inbox) + 1} ELSE {})
  BY <1>7 DEF Waiting
<1>9. CASE o.call # k
  <2>1. Waiting(k)' = Waiting(k)
    BY <1>8, <1>9
  <2>2. \A n \in Leads(k) : net'[n] = net[n]
    BY <1>3, <1>5, <1>9 DEF Leads
  <2>3. QED
    BY <1>6, <2>1, <2>2 DEF Gone, OnePlace
<1>10. CASE o.call = k
  <2>1. o \in Leads(k) /\ Waiting(k)' = Waiting(k) \cup {Len(inbox) + 1}
    BY <1>2, <1>8, <1>10
  <2>2. ~Gone(k)
    BY <1>4, <2>1 DEF Gone
  <2>3. ASSUME OnePlace(k) PROVE OnePlace(k)'
    <3>1. Waiting(k) = {} /\ net[o] <= 1
      BY <1>4, <2>1, <2>3 DEF OnePlace
    <3>2. ASSUME NEW n \in Leads(k) PROVE net'[n] = 0
      <4>1. CASE n = o
        BY <1>1, <1>2, <1>3, <1>4, <3>1, <4>1
      <4>2. CASE n # o
        <5>1. ~(net[n] > 0)
          BY <1>4, <2>1, <2>3, <4>2 DEF OnePlace
        <5>2. QED
          BY <1>1, <1>3, <1>5, <4>2, <5>1
      <4>3. QED
        BY <4>1, <4>2
    <3>3. QED
      BY <1>6, <2>1, <3>1, <3>2 DEF OnePlace
  <2>4. QED
    BY <2>2, <2>3
<1>11. QED
  BY <1>9, <1>10

\* The callback at the head makes way for at most one final ack.
LEMMA AnswerMovesOn ==
  ASSUME Places, inbox # <<>>, inbox' = Tail(inbox),
         net' = net \/ net' = With(net, AckOf(Head(inbox), "Final")), NEW k
  PROVE  /\ Gone(k) => Gone(k)'
         /\ OnePlace(k) => OnePlace(k)'
<1> DEFINE o == Head(inbox)
           a == AckOf(o, "Final")
<1>1. /\ o \in Orders /\ o = inbox[1] /\ 1 \in 1 .. Len(inbox)
      /\ Len(inbox) \in Nat /\ Len(inbox') = Len(inbox) - 1
      /\ \A i \in 1 .. Len(inbox') : inbox'[i] = inbox[i + 1] /\ i + 1 \in 1 .. Len(inbox)
  BY DEF Places
<1>2. a \in Messages /\ a.call = o.call
  BY <1>1, CallOfMessages
<1>3. 1 \in Waiting(k) <=> o.call = k
  BY <1>1 DEF Waiting
<1> HIDE DEF o, a
<1>4. \A i \in Waiting(k)' : i \in Nat \ {0} /\ i + 1 \in Waiting(k)
  BY <1>1 DEF Waiting
<1>5. Leads(k)' = Leads(k) /\ \A n \in Leads(k) : n \in Messages
  BY DEF Leads
<1>6. \A n \in Messages : net[n] \in Nat
  BY DEF Places
<1>7. \A n \in Messages : net'[n] = net[n] \/ (n = a /\ net'[n] = net[n] + 1)
  BY <1>2 DEF a, o, Places, With
<1>8. CASE o.call # k
  <2>1. a \notin Leads(k)
    BY <1>2, <1>8 DEF Leads
  <2>2. \A n \in Leads(k) : net'[n] = net[n]
    BY <1>5, <1>7, <2>1
  <2>3. Gone(k) => Gone(k)'
    BY <1>4, <1>5, <2>2 DEF Gone
  <2>4. ASSUME OnePlace(k) PROVE OnePlace(k)'
    <3>1. \A i, j \in Waiting(k)' : i = j
      <4>1. TAKE i, j \in Waiting(k)'
      <4>2. i + 1 = j + 1
        BY <1>4, <2>4 DEF OnePlace
      <4>3. QED
        BY <1>4, <4>2
    <3>2. Waiting(k) = {} => Waiting(k)' = {}
      BY <1>4
    <3>3. QED
      BY <1>5, <2>2, <2>4, <3>1, <3>2 DEF OnePlace
  <2>5. QED
    BY <2>3, <2>4
<1>9. CASE o.call = k
  <2>1. 1 \in Waiting(k) /\ ~Gone(k)
    BY <1>3, <1>9 DEF Gone
  <2>2. ASSUME OnePlace(k) PROVE OnePlace(k)'
    <3>1. Waiting(k)' = {}
      <4>1. SUFFICES ASSUME NEW i \in Waiting(k)' PROVE FALSE
        OBVIOUS
      <4>2. i + 1 = 1
        BY <1>4, <2>1, <2>2 DEF OnePlace
      <4>3. QED
        BY <1>4, <4>2
    <3>2. \A n \in Leads(k) : net[n] = 0
      BY <1>5, <1>6, <2>1, <2>2 DEF OnePlace
    <3>3. \A n \in Leads(k) : net'[n] = 0 \/ (n = a /\ net'[n] = 1)
      BY <1>5, <1>7, <3>2
    <3>4. QED
      BY <1>5, <3>1, <3>3 DEF OnePlace
  <2>3. QED
    BY <2>1, <2>2
<1>10. QED
  BY <1>8, <1>9

\* Fresh is kept by the steps of the station ...
LEMMA FreshStation ==
  ASSUME Places, CountersOK, duplicates \in Nat, Inv(item), Fresh, StationNext, UNCHANGED inbox
  PROVE  Fresh'
<1> calls \in Nat /\ item.sent \in Nat /\ item \in SendItems
  BY DEF CountersOK, Inv, Core, SendItems
<1>1. ASSUME NEW c \in Commands, SendCommandAsync(c) PROVE Fresh'
  <2>1. /\ calls' = calls + 1 /\ item' = NewItem(c) /\ UNCHANGED <<net, duplicates>>
        /\ settled' = (settled /\ (calls > 0 => item.result = "Success" /\ item.sent = 1))
    BY <1>1 DEF SendCommandAsync, linkVars
  <2>2. item'.sent = 0 /\ item'.result = NoResult
    BY <2>1 DEF NewItem, NoItem
  <2>3. ASSUME NEW k PROVE Gone(k)' <=> Gone(k)
    BY <2>1 DEF Gone, Leads, Waiting
  <2>4. SUFFICES ASSUME settled', duplicates = 0
                 PROVE  (\A k \in Calls : Gone(k)) /\ Gone(calls + 1)
    BY <2>1, <2>2, <2>3 DEF Fresh
  <2>5. settled /\ (calls > 0 => item.result = "Success" /\ item.sent = 1)
    BY <2>1, <2>4
  <2>6. \A k \in Calls : k # calls => Gone(k)
    BY <2>4, <2>5 DEF Fresh
  <2>7. calls > 0 => Gone(calls)
    BY <2>4, <2>5 DEF Fresh
  <2>8. \A k \in Calls : Gone(k)
    BY <2>6, <2>7 DEF Calls
  <2>9. calls + 1 \in Calls
    BY <1>1, CommandAssumption DEF SendCommandAsync, Calls
  <2>10. QED
    BY <2>8, <2>9
<1>2. ASSUME Sends(item, item'), UNCHANGED <<duplicates, calls, settled>> PROVE Fresh'
  <2> DEFINE o == Order(item.command, calls)
  <2>1. net' = With(net, o) /\ item'.sent = item.sent + 1 /\ item'.result = item.result
        /\ item'.answer = item.answer
    BY <1>2 DEF Sends
  <2>2. o.call = calls
    BY DEF Order
  <2> HIDE DEF o
  <2>3. SUFFICES ASSUME settled, duplicates = 0 PROVE Fresh'
    BY <1>2 DEF Fresh
  <2>4. ASSUME NEW k \in Calls, k # calls PROVE Gone(k)'
    <3>1. o \notin Leads(k)
      BY <2>2, <2>4 DEF Leads
    <3>2. Gone(k)
      BY <2>3, <2>4 DEF Fresh
    <3>3. QED
      BY <2>1, <3>1, <3>2, OtherPackets
  <2>5. ASSUME item'.sent = 1 PROVE OnePlace(calls)' /\ item.result # "Success"
    <3>1. item.sent = 0
      BY <2>1, <2>5
    <3>2. Gone(calls) /\ item.result # "Success"
      BY <2>3, <3>1 DEF Fresh
    <3>3. calls' = calls
      BY <1>2
    <3>4. ASSUME NEW k, k = calls PROVE OnePlace(k)'
      BY <2>1, <3>2, <3>4, FirstSend
    <3>5. QED
      BY <3>2, <3>3, <3>4
  <2>6. item'.sent # 0
    BY <2>1
  <2>7. item.result = "Success" => item.answer.call = calls
    BY <2>3 DEF Fresh
  <2>8. QED
    BY <1>2, <2>1, <2>4, <2>5, <2>6, <2>7 DEF Fresh
<1>3. ASSUME Quiet(item, item'), UNCHANGED <<duplicates, calls, settled>>,
             \A k : (Gone(k) => Gone(k)') /\ (OnePlace(k) => OnePlace(k)')
      PROVE  Fresh'
  <2>1. SUFFICES ASSUME settled, duplicates = 0 PROVE Fresh'
    BY <1>3 DEF Fresh
  <2>2. \A k \in Calls : k # calls => Gone(k)'
    BY <1>3, <2>1 DEF Fresh
  <2>3. ASSUME NEW k, k = calls
        PROVE  /\ item.sent = 0 => Gone(k)' /\ item.result # "Success"
               /\ item.sent = 1 => OnePlace(k)' /\ (item.result = "Success" => Gone(k)')
    BY <1>3, <2>1, <2>3 DEF Fresh
  <2>4. item.result = "Success" => item.answer.call = calls
    BY <2>1 DEF Fresh
  <2>5. calls' = calls
    BY <1>3
  <2>6. /\ item'.sent = item.sent
        /\ item'.result = "Success" => item.result = "Success" /\ item'.answer = item.answer
    BY <1>3 DEF Quiet
  <2>7. QED
    BY <2>2, <2>3, <2>4, <2>5, <2>6 DEF Fresh
<1>4. ASSUME Quiet(item, item'), UNCHANGED <<net, duplicates, calls, settled>> PROVE Fresh'
  <2>1. \A k : (Gone(k) => Gone(k)') /\ (OnePlace(k) => OnePlace(k)')
    BY <1>4 DEF Gone, OnePlace, Leads, Waiting
  <2>2. QED
    BY <1>3, <1>4, <2>1
<1>5. ASSUME NEW ack \in Acks, UnderWay(ack), net' = Without(ack), Quiet(item, item'),
             UNCHANGED <<duplicates, calls, settled>>
      PROVE  Fresh'
  <2>1. \A k : (Gone(k) => Gone(k)') /\ (OnePlace(k) => OnePlace(k)')
    BY <1>5, CallOfMessages, ReceiveMovesOn
  <2>2. QED
    BY <1>3, <1>5, <2>1
<1>6. ASSUME NEW ack \in Acks, UnderWay(ack), net' = Without(ack), ack.result = "Final",
             Succeeds(item, item', ack), UNCHANGED <<duplicates, calls, settled>>
      PROVE  Fresh'
  <2>1. SUFFICES ASSUME settled, duplicates = 0 PROVE Fresh'
    BY <1>6 DEF Fresh
  <2>2. ack \in Messages /\ ack.call \in Calls /\ ack \in Leads(ack.call)
    BY <1>6, CallOfMessages DEF Leads
  <2>3. ~Gone(ack.call)
    <3>1. net[ack] > 0
      BY <1>6 DEF UnderWay
    <3>2. QED
      BY <2>2, <3>1 DEF Gone
  <2>4. ack.call = calls
    BY <2>1, <2>2, <2>3 DEF Fresh
  <2>5. item.sent # 0
    BY <2>1, <2>3, <2>4 DEF Fresh
  <2>6. \A k \in Calls : k # calls => Gone(k)'
    BY <1>6, <2>1, <2>2, ReceiveMovesOn DEF Fresh
  <2>7. ASSUME item.sent = 1, NEW k, k = calls PROVE OnePlace(k)' /\ Gone(k)'
    <3>1. OnePlace(k) /\ ack \in Leads(k)
      BY <2>1, <2>2, <2>4, <2>7 DEF Fresh
    <3>2. QED
      BY <1>6, <2>2, <3>1, ReceiveMovesOn
  <2>8. item'.result = "Success" => item'.answer.call = calls
    BY <1>6, <2>1, <2>4 DEF Fresh, Succeeds
  <2>9. calls' = calls /\ item'.sent = item.sent
    BY <1>6 DEF Succeeds
  <2>10. QED
    BY <2>5, <2>6, <2>7, <2>8, <2>9 DEF Fresh
<1>7. QED
  BY <1>1, <1>2, <1>4, <1>5, <1>6, StationStep

\* ... and of the vehicle.
LEMMA FreshVehicle ==
  ASSUME Places, VehicleOK, Fresh, VehicleNext, UNCHANGED stationVars
  PROVE  Fresh'
<1>1. \A k : (Gone(k) => Gone(k)') /\ (OnePlace(k) => OnePlace(k)')
  <2>1. SUFFICES ASSUME NEW k
                 PROVE  (Gone(k) => Gone(k)') /\ (OnePlace(k) => OnePlace(k)')
    OBVIOUS
  <2>2. CASE UNCHANGED <<net, inbox>>
    BY <2>2 DEF Gone, OnePlace, Leads, Waiting
  <2>3. ASSUME NEW o \in Orders, UnderWay(o), net' = Without(o), UNCHANGED inbox
        PROVE  (Gone(k) => Gone(k)') /\ (OnePlace(k) => OnePlace(k)')
    BY <2>3, CallOfMessages, ReceiveMovesOn
  <2>4. ASSUME NEW o \in Orders, UnderWay(o), net' = Without(o), inbox' = Append(inbox, o)
        PROVE  (Gone(k) => Gone(k)') /\ (OnePlace(k) => OnePlace(k)')
    BY <2>4, ProcessCommandMovesOn
  <2>5. CASE /\ inbox # <<>> /\ UNCHANGED inbox
             /\ net' = With(net, AckOf(Head(inbox), "InProgress"))
    <3>1. Head(inbox) \in Orders
      BY <2>5 DEF Places
    <3>2. AckOf(Head(inbox), "InProgress") \notin Leads(k)
      BY <3>1, CallOfMessages DEF Leads
    <3>3. QED
      BY <2>5, <3>2, OtherPackets
  <2>6. CASE /\ inbox # <<>> /\ inbox' = Tail(inbox)
             /\ net' \in {net, With(net, AckOf(Head(inbox), "Final"))}
    BY <2>6, AnswerMovesOn
  <2>7. QED
    BY <2>2, <2>3, <2>4, <2>5, <2>6, VehicleStep DEF Places
<1>2. UNCHANGED <<item, calls, settled, duplicates>>
  BY VehicleStep DEF Places, stationVars
<1>3. QED
  BY <1>1, <1>2 DEF Fresh

-----------------------------------------------------------------------------
(***************************************************************************)
(* The composition.                                                        *)
(***************************************************************************)
IInv == LinkOK /\ CountersOK /\ VehicleOK /\ Inv(item) /\ Fresh

LEMMA InvInit == Init => IInv
<1> SUFFICES ASSUME Init PROVE IInv
  OBVIOUS
<1>1. LinkOK /\ CountersOK /\ VehicleOK
  <2>1. /\ 0 \in 0 .. MaxDuplicates /\ 0 \in 0 .. MaxCalls /\ 0 \in 0 .. MaxCancels
    BY LinkAssumption, CommandAssumption, CancelsAssumption
  <2>2. LinkOK
    BY <2>1 DEF Init, LinkInit, LinkOK
  <2>3. CountersOK
    BY <2>1, Zenon DEF Init, StationInit, CountersOK
  <2>4. inbox \in Seq(Orders)
    BY DEF Init, VehicleInit
  <2>5. VehicleOK
    BY <2>1, <2>4, Zenon DEF Init, VehicleInit, VehicleOK
  <2>6. QED
    BY <2>2, <2>3, <2>5
<1>2. item = NoItem /\ NoItem \in SendItems
  <2>1. (CHOOSE d \in Commands : TRUE) \in Commands
    BY CommandAssumption
  <2>2. QED
    BY <2>1 DEF Init, StationInit, NoItem, SendItems
<1>3. Inv(item)
  BY <1>2, RetriesAssumption
  DEF NoItem, Inv, Core, ReportsWhenDone, QueuedUntilDone, TriesCounted, SuccessIsAcked,
      NeverWedged
<1>4. \A k : Gone(k)
  BY DEF Init, LinkInit, VehicleInit, Gone, Leads, Waiting
<1>5. item.sent = 0 /\ item.result = NoResult
  BY <1>2 DEF NoItem
<1>6. Fresh
  BY <1>4, <1>5 DEF Fresh
<1>7. QED
  BY <1>1, <1>3, <1>6 DEF IInv

LEMMA InvNext == IInv /\ [Next]_vars => IInv'
<1> SUFFICES ASSUME IInv, [Next]_vars PROVE IInv'
  OBVIOUS
<1> Places /\ duplicates \in Nat
  BY LinkAssumption DEF IInv, LinkOK, VehicleOK, Places
<1>1. CASE StationNext /\ UNCHANGED vehicleVars
  <2>1. Inv(item')
    BY <1>1, StationStep DEF IInv
  <2>2. CountersOK' /\ duplicates' = duplicates
    <3>1. ASSUME NEW c \in Commands, SendCommandAsync(c)
          PROVE  CountersOK' /\ duplicates' = duplicates
      BY <3>1, CommandAssumption DEF SendCommandAsync, linkVars, IInv, CountersOK
    <3>2. CASE /\ UNCHANGED <<duplicates, calls, settled>>
               /\ cancels' = cancels \/ (cancels < MaxCancels /\ cancels' = cancels + 1)
      BY <3>2, CancelsAssumption DEF IInv, CountersOK
    <3>3. QED
      BY <1>1, <3>1, <3>2, StationStep DEF IInv
  <2>3. net' \in [Messages -> Nat]
    <3>1. CASE \E c \in Commands : SendCommandAsync(c)
      BY <3>1 DEF SendCommandAsync, linkVars, IInv, LinkOK
    <3>2. CASE Sends(item, item')
      BY <3>2, LinkType DEF Sends, Places
    <3>3. QED
      BY <1>1, <3>1, <3>2, LinkType, StationStep DEF IInv, Places
  <2>4. VehicleOK'
    BY <1>1 DEF IInv, VehicleOK, vehicleVars
  <2>5. Fresh'
    BY <1>1, FreshStation DEF IInv, vehicleVars
  <2>6. QED
    BY <2>1, <2>2, <2>3, <2>4, <2>5 DEF IInv, LinkOK
<1>2. CASE VehicleNext /\ UNCHANGED stationVars
  <2>1. VehicleOK' /\ net' \in [Messages -> Nat] /\ duplicates' = duplicates
    BY <1>2, VehicleStep DEF IInv, Places
  <2>2. Fresh'
    BY <1>2, FreshVehicle DEF IInv
  <2>3. QED
    BY <1>2, <2>1, <2>2 DEF IInv, LinkOK, CountersOK, stationVars
<1>3. CASE Network
  <2>1. duplicates' \in 0 .. MaxDuplicates /\ duplicates' # 0 /\ net' \in [Messages -> Nat]
    BY <1>3, LinkAssumption, LinkType DEF Network, Duplicate, IInv, LinkOK, Places
  <2>2. QED
    BY <1>3, <2>1
    DEF Network, stationVars, vehicleVars, IInv, LinkOK, CountersOK, VehicleOK, Fresh
<1>4. CASE UNCHANGED vars
  BY <1>4
  DEF vars, linkVars, stationVars, vehicleVars, IInv, LinkOK, CountersOK, VehicleOK, Fresh,
      Gone, OnePlace, Leads, Waiting
<1>5. QED
  BY <1>1, <1>2, <1>3, <1>4 DEF Next, GroundStation, RoboticVehicle

LEMMA Invariance == Spec => []IInv
  BY InvInit, InvNext, PTL DEF Spec

-----------------------------------------------------------------------------
(***************************************************************************)
(* The theorems.                                                           *)
(***************************************************************************)
\* Every variable keeps its type, however many packets are lost or repeated.
THEOREM TypeCorrect == Spec => []TypeOK
<1>1. IInv => TypeOK
  BY DEF IInv, TypeOK, StationOK, CountersOK, Inv, Core
<1>2. QED
  BY <1>1, Invariance, PTL

\* callback_and_reset(): an item that is done has told its user one final
\* result, one that is not has told none.
THEOREM CallbackOnce == Spec => []ReportedOnce
<1>1. IInv => ReportedOnce
  BY DEF IInv, ReportedOnce, Inv, Core
<1>2. QED
  BY <1>1, Invariance, PTL

\* A started command that is not done has a timer or a timeout on its way,
\* also after any number of IN_PROGRESS acks.
THEOREM QueueNeverWedged == Spec => []NothingWedged
<1>1. IInv => NothingWedged
  BY DEF IInv, NothingWedged, Inv
<1>2. QED
  BY <1>1, Invariance, PTL

\* A command is sent at most `retries` times, twice as often if its timeout
\* came before start(), and not given up before.
THEOREM RetriesLimited == Spec => []RetriesRespected
<1>1. IInv => RetriesRespected
  <2> SUFFICES ASSUME IInv PROVE RetriesRespected
    OBVIOUS
  <2>1. item.sent \in Nat /\ item.retries \in Nat /\ Retries \in Nat /\ TriesCounted(item)
    BY RetriesAssumption DEF IInv, Inv, Core, SendItems
  <2>2. QED
    BY <2>1 DEF TriesCounted, RetriesRespected
<1>2. QED
  BY <1>1, Invariance, PTL

\* A success comes with a final ack of the command; with the ack of this very
\* call, if no earlier call and no duplicate left another one under way.
THEOREM SuccessIsOfThisCall == Spec => []SuccessIsForThisCall
<1>1. IInv => SuccessIsForThisCall
  <2> SUFFICES ASSUME IInv, item.result = "Success"
               PROVE  /\ item.answer # NoAck
                      /\ item.answer.result = "Final"
                      /\ item.answer.command = item.command
                      /\ settled /\ duplicates = 0 => item.answer.call = calls
    BY DEF SuccessIsForThisCall
  <2>1. Ends(item.answer, item)
    BY DEF IInv, Inv, Core, SuccessIsAcked
  <2>2. item.answer.type # NoAck.type
    BY <2>1 DEF Ends, Acks, NoAck
  <2>3. QED
    BY <2>1, <2>2 DEF Ends, IInv, Fresh
<1>2. QED
  BY <1>1, Invariance, PTL

\* send_command_async() implements the one-shot call: accepted only when the
\* last one was answered, and answered at most once.
THEOREM CommandImplementsOneShot == Spec => CommandIsOneShot
<1>1. Init => StationCalls!Init
  BY DEF Init, StationInit, NoItem, StationCalls!Init
<1>2. IInv /\ [Next]_vars
        => [StationCalls!Next]_<<calls, IF item.done THEN "idle" ELSE "open", item.result>>
  <2> SUFFICES ASSUME IInv, [Next]_vars
               PROVE  [StationCalls!Next]_<<calls, IF item.done THEN "idle" ELSE "open",
                                            item.result>>
    OBVIOUS
  <2> USE DEF StationCalls!Next, StationCalls!Call, StationCalls!Reply, StationCalls!vars
  <2>1. ASSUME NEW c \in Commands, SendCommandAsync(c)
        PROVE  StationCalls!Next
    <3>1. item.done
      BY <2>1 DEF SendCommandAsync, Alive, IInv, Inv, Core, QueuedUntilDone
    <3>2. ~item'.done /\ item'.result = NoResult /\ calls' = calls + 1
      BY <2>1 DEF SendCommandAsync, NewItem, NoItem
    <3>3. QED
      BY <3>1, <3>2
  <2>2. CASE Answered(item, item') /\ calls' = calls
    BY <2>2 DEF Answered
  <2>3. CASE UNCHANGED <<item, calls>>
    BY <2>3
  <2>4. QED
    BY <2>1, <2>2, <2>3, StationStep
    DEF Next, Network, GroundStation, RoboticVehicle, vars, stationVars, IInv
<1>3. QED
  BY <1>1, <1>2, Invariance, PTL DEF Spec, CommandIsOneShot, StationCalls!Spec, StationCalls!vars

=============================================================================
