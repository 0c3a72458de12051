---------------------- MODULE InspectionExactness_proof ----------------------
(***************************************************************************)
(* A transfer of waypoints that was not disturbed delivers the list, in    *)
(* both directions, for every length of the list and whatever goes on in   *)
(* the other direction: an upload and the download it belongs to take      *)
(* turns, so that their state tells which single packet is under way.      *)
(***************************************************************************)
EXTENDS InspectionTransfer_proof

(***************************************************************************)
(* A direction is named by the side that downloads.                        *)
(***************************************************************************)
Other(side) == IF side = "station" THEN "vehicle" ELSE "station"

\* The packets that carry the transfer to `side`: all but acknowledgements.
Belongs(side, m) ==
  \/ m.to = side /\ m.type \in {"COUNT", "ITEM"}
  \/ m.to # side /\ m.type \in {"READ", "REQUEST"}

NoneIn(side, link) == \A m \in DOMAIN link : ~Belongs(side, m)

OnlyIn(side, link, m) ==
  /\ m \in DOMAIN link /\ Belongs(side, m) /\ link[m] = 1
  /\ \A k \in DOMAIN link : Belongs(side, k) => k = m

(***************************************************************************)
(* How far the download d at `side` of the upload s is.                    *)
(***************************************************************************)
\* What was collected is the beginning of the list.
Begins(items, list) ==
  /\ Len(items) <= Len(list)
  /\ \A i \in DOMAIN items : items[i] = [seq |-> i - 1, name |-> list[i]]

Announced(side, s, link) ==
  /\ OnlyIn(side, link, Count(side, s.list.plan, Len(s.list.items)))
  /\ s.started /\ s.next = 0 /\ Numbered(s.list)

Halfway(s, d) ==
  /\ s.started /\ d.started
  /\ d.expected = Len(s.list.items) /\ d.expected < SeqRange
  /\ d.next = Len(d.got.items) /\ d.next < d.expected
  /\ d.got.plan = s.list.plan
  /\ Begins(d.got.items, s.list.items)

Reading(side, s, d, link) ==
  /\ Halfway(s, d) /\ s.next = d.next
  /\ OnlyIn(side, link, Read(Other(side), d.next))

Answered(side, s, d, link) ==
  /\ Halfway(s, d) /\ s.next = d.next + 1
  /\ OnlyIn(side, link, Item(side, d.next, s.list.items[d.next + 1]))

\* Nothing will come any more: all was received, or a send failed.
Over(side, s, d, link) == NoneIn(side, link) /\ s.started /\ d.started

Flow(side, s, d, link) ==
  Reading(side, s, d, link) \/ Answered(side, s, d, link) \/ Over(side, s, d, link)

Complete(side, s, d, link) ==
  d.done /\ Over(side, s, d, link) /\ SameList(d.result.got, s.list)
-----------------------------------------------------------------------------
(***************************************************************************)
(* Packets and links.                                                      *)
(***************************************************************************)
LEMMA OtherSide ==
  ASSUME NEW side \in Sides
  PROVE  Other(side) \in Sides /\ Other(side) # side /\ Other(Other(side)) = side
  BY DEF Sides, Other

LEMMA PacketsOfDirection ==
  ASSUME NEW side \in Sides
  PROVE  /\ \A p, n : Belongs(side, Count(side, p, n))
         /\ \A i : Belongs(side, Read(Other(side), i))
         /\ \A i, w : Belongs(side, Item(side, i, w))
  BY OtherSide DEF Belongs, Count, Read, Item

LEMMA PacketsOfOther ==
  ASSUME NEW side \in Sides
  PROVE  /\ \A p, n : ~Belongs(Other(side), Count(side, p, n))
         /\ \A i : ~Belongs(Other(side), Read(Other(side), i))
         /\ \A i, w : ~Belongs(Other(side), Item(side, i, w))
         /\ \A to, a : ~Belongs(side, Ack(to, a))
  BY OtherSide DEF Belongs, Count, Read, Item, Ack

\* Links with the same packets of a direction.
Alike(side, x, y) ==
  \A m : Belongs(side, m) =>
    (m \in DOMAIN x <=> m \in DOMAIN y) /\ (m \in DOMAIN x /\ x[m] = 1 => y[m] = 1)

LEMMA AlikeLinks ==
  ASSUME NEW side, NEW x, NEW y, Alike(side, x, y)
  PROVE  /\ NoneIn(side, x) => NoneIn(side, y)
         /\ \A m : OnlyIn(side, x, m) => OnlyIn(side, y, m)
  BY DEF Alike, NoneIn, OnlyIn

LEMMA AlikeChain ==
  ASSUME NEW side, NEW x, NEW y, NEW z, Alike(side, x, y), Alike(side, y, z)
  PROVE  Alike(side, x, z)
  BY DEF Alike

\* The only packet is received ...
LEMMA Taken ==
  ASSUME NEW side, NEW link, NEW m, OnlyIn(side, link, m)
  PROVE  NoneIn(side, BagRemove(link, m))
  BY DEF OnlyIn, NoneIn, BagRemove

\* ... and the next one sent.
LEMMA Given ==
  ASSUME NEW side, NEW link, NoneIn(side, link), NEW m, Belongs(side, m)
  PROVE  OnlyIn(side, Sent(link, {m}), m)
  BY DEF OnlyIn, NoneIn, Sent, (+), SetToBag

LEMMA NothingGiven ==
  ASSUME NEW side, NEW link, NoneIn(side, link)
  PROVE  NoneIn(side, Sent(link, {}))
  BY DEF NoneIn, Sent, (+), SetToBag

\* Packets of the other direction and acknowledgements come and go.
LEMMA TakenForeign ==
  ASSUME NEW side, NEW link, NEW m, ~Belongs(side, m)
  PROVE  Alike(side, link, BagRemove(link, m))
  BY DEF Alike, BagRemove

LEMMA GivenForeign ==
  ASSUME NEW side, NEW link, NEW out, \A m \in out : ~Belongs(side, m)
  PROVE  Alike(side, link, Sent(link, out))
  BY DEF Alike, Sent, (+), SetToBag

(***************************************************************************)
(* The COUNTs of the station, which begin a download on the vehicle.       *)
(***************************************************************************)
IsCount(m) == m.to = "vehicle" /\ m.type = "COUNT"

NoCount(link) == \A m \in DOMAIN link : ~IsCount(m)

OneCount(link) ==
  \E k \in DOMAIN link : /\ IsCount(k) /\ link[k] = 1
                         /\ \A m \in DOMAIN link : IsCount(m) => m = k

\* From x to y no COUNT was added.
Calm(x, y) ==
  \A m : IsCount(m) /\ m \in DOMAIN y => m \in DOMAIN x /\ (x[m] = 1 => y[m] = 1)

LEMMA CalmLinks ==
  ASSUME NEW x, NEW y, Calm(x, y)
  PROVE  /\ NoCount(x) => NoCount(y)
         /\ OneCount(x) => NoCount(y) \/ OneCount(y)
<1>1. NoCount(x) => NoCount(y)
  BY DEF Calm, NoCount
<1>2. ASSUME OneCount(x) PROVE NoCount(y) \/ OneCount(y)
  <2>1. PICK k \in DOMAIN x : /\ IsCount(k) /\ x[k] = 1
                              /\ \A m \in DOMAIN x : IsCount(m) => m = k
    BY <1>2 DEF OneCount
  <2>2. \A m \in DOMAIN y : IsCount(m) => m = k
    BY <2>1 DEF Calm
  <2>3. k \in DOMAIN y => y[k] = 1
    BY <2>1 DEF Calm
  <2> QED BY <2>1, <2>2, <2>3 DEF NoCount, OneCount
<1> QED BY <1>1, <1>2

LEMMA AlikeCalm ==
  ASSUME NEW x, NEW y, Alike("vehicle", x, y)
  PROVE  Calm(x, y)
  BY DEF Alike, Calm, IsCount, Belongs

LEMMA CountGiven ==
  ASSUME NEW link, NoCount(link), NEW m
  PROVE  NoCount(Sent(link, {m})) \/ OneCount(Sent(link, {m}))
<1>1. ASSUME NEW k \in DOMAIN Sent(link, {m}), IsCount(k)
      PROVE  k = m /\ Sent(link, {m})[k] = 1
  BY <1>1 DEF NoCount, Sent, (+), SetToBag
<1> QED BY <1>1 DEF NoCount, OneCount

LEMMA CountTaken ==
  ASSUME NEW link, OneCount(link), NEW m \in DOMAIN link, IsCount(m)
  PROVE  NoCount(BagRemove(link, m))
  BY DEF NoCount, OneCount, BagRemove

LEMMA CalmOut ==
  ASSUME NEW link, NEW k, NEW out, \A m \in out : ~IsCount(m)
  PROVE  /\ Calm(link, Sent(link, out))
         /\ ~IsCount(k) => Calm(link, Sent(BagRemove(link, k), out))
<1>1. Calm(link, Sent(link, out))
  BY DEF Calm, Sent, (+), SetToBag
<1>2. ASSUME ~IsCount(k) PROVE Calm(link, Sent(BagRemove(link, k), out))
  BY <1>2 DEF Calm, Sent, (+), SetToBag, BagRemove
<1> QED BY <1>1, <1>2

\* What is under way was under way or was sent.
LEMMA WasSent ==
  ASSUME NEW link, NEW out, NEW m, m \in DOMAIN Sent(link, out)
  PROVE  m \in DOMAIN link \/ m \in out
  BY DEF Sent, (+), SetToBag

LEMMA WasThere ==
  ASSUME NEW link, NEW k, NEW m, m \in DOMAIN BagRemove(link, k)
  PROVE  m \in DOMAIN link
  BY DEF BagRemove

LEMMA Remainders ==
  /\ \A i \in SeqNumbers : i % SeqRange = i
  /\ SeqRange % SeqRange = 0
  /\ 0 \in SeqNumbers
<1>1. SeqRange \in Nat \ {0}
  BY LinkAssumption
<1>2. ASSUME NEW i \in 0 .. SeqRange - 1 PROVE i % SeqRange = i
  BY <1>1
<1>3. SeqRange % SeqRange = 0
  BY <1>1
<1> QED BY <1>1, <1>2, <1>3 DEF SeqNumbers
-----------------------------------------------------------------------------
(***************************************************************************)
(* What the pieces of handlers leave alone.                                *)
(***************************************************************************)
\* From s to t the item has come no further.
Keeps(s, t) ==
  /\ t.list = s.list /\ t.next = s.next /\ t.expected = s.expected /\ t.got = s.got
  /\ t.started = s.started /\ t.resent = s.resent

\* ... and has told its caller nothing, or that it failed.
Idles(s, t) ==
  /\ Keeps(s, t)
  /\ \/ t.done = s.done /\ t.result = s.result
     \/ ~s.done /\ t.done /\ t.result.result # "Success" /\ t.result.got = s.got

\* The caller was told r, if nothing was told before.
Tells(s, t, r) ==
  /\ t.done = TRUE
  /\ t.result = IF s.done THEN s.result ELSE [result |-> r, got |-> s.got]

LEMMA TimerPieces ==
  ASSUME NEW Got, NEW s \in Work(Got)
  PROVE  /\ RemoveTimeout(s) \in Work(Got)
         /\ Keeps(s, RemoveTimeout(s)) /\ SameReports(s, RemoveTimeout(s))
         /\ AddTimeout(s) \in Work(Got)
         /\ Keeps(s, AddTimeout(s)) /\ SameReports(s, AddTimeout(s))
<1> DEFINE n == IF s.armed THEN s.orphans + 1 ELSE s.orphans
           t == AddTimeout(s)
<1>1. t = [s EXCEPT !.armed = TRUE, !.orphans = n] /\ n \in Nat
  BY DEF AddTimeout, Work
<1> HIDE DEF n, t
<1>2. t \in Work(Got) /\ Keeps(s, t) /\ SameReports(s, t)
  BY <1>1 DEF Work, Keeps, SameReports
<1>3. /\ RemoveTimeout(s) \in Work(Got)
      /\ Keeps(s, RemoveTimeout(s)) /\ SameReports(s, RemoveTimeout(s))
  BY DEF RemoveTimeout, Work, Keeps, SameReports
<1> QED BY <1>2, <1>3 DEF t

\* callback_and_reset()
LEMMA ReportPieces ==
  ASSUME NEW Got, NEW s \in Work(Got), s.callback <=> ~s.done, NEW r
  PROVE  Keeps(s, Report(s, r)) /\ Tells(s, Report(s, r), r)
<1> DEFINE q == [result |-> r, got |-> s.got]
           n == IF s.callback THEN s.reports + 1 ELSE s.reports
           a == IF s.callback THEN q ELSE s.result
           t == Report(s, r)
<1>1. t = [s EXCEPT !.reports = n, !.result = a, !.callback = FALSE, !.done = TRUE]
  BY DEF Report, CallbackAndReset
<1>2. a = IF s.done THEN s.result ELSE q
  BY DEF Work
<1> HIDE DEF n, a, t
<1>3. Keeps(s, t) /\ t.done = TRUE /\ t.result = a
  BY <1>1 DEF Work, Keeps
<1>4. Tells(s, t, r)
  BY <1>2, <1>3 DEF Tells
<1> QED BY <1>3, <1>4 DEF t

\* After changes elsewhere in the item, a report of r.
LEMMA ReportLater ==
  ASSUME NEW Got, NEW s \in Work(Got), s.callback <=> ~s.done,
         NEW t \in Work(Got), Keeps(s, t), SameReports(s, t), NEW r
  PROVE  Keeps(s, Report(t, r)) /\ Tells(s, Report(t, r), r)
<1> DEFINE u == Report(t, r)
<1>1. t.callback <=> ~t.done
  BY DEF SameReports
<1>2. Keeps(t, u) /\ Tells(t, u, r)
  BY <1>1, ReportPieces
<1> HIDE DEF u
<1>3. Keeps(s, u)
  BY <1>2 DEF Keeps
<1>4. Tells(s, u, r)
  BY <1>2 DEF Tells, SameReports, Keeps
<1> QED BY <1>3, <1>4 DEF u

LEMMA FailureIdles ==
  ASSUME NEW Got, NEW s \in Work(Got), NEW t, Keeps(s, t), NEW r, Tells(s, t, r), r # "Success"
  PROVE  Idles(s, t)
<1>1. CASE s.done = TRUE
  BY <1>1 DEF Idles, Tells
<1>2. CASE s.done = FALSE
  BY <1>2 DEF Idles, Tells
<1> QED BY <1>1, <1>2 DEF Work

LEMMA FailsLater ==
  ASSUME NEW Got, NEW s \in Work(Got), s.callback <=> ~s.done,
         NEW t \in Work(Got), Keeps(s, t), SameReports(s, t), NEW r, r # "Success"
  PROVE  Idles(s, Report(t, r))
<1> DEFINE u == Report(t, r)
<1>1. Keeps(s, u) /\ Tells(s, u, r)
  BY ReportLater
<1> HIDE DEF u
<1>2. Idles(s, u)
  BY <1>1, FailureIdles
<1> QED BY <1>2 DEF u

LEMMA KeepsIdles ==
  ASSUME NEW s, NEW t, Keeps(s, t), SameReports(s, t)
  PROVE  Idles(s, t)
  BY DEF Idles, SameReports

\* An item as its invariant describes it.
LEMMA ItemOf ==
  ASSUME NEW Got, NEW s, Inv(s, Got)
  PROVE  s \in Work(Got) /\ (s.callback <=> ~s.done)
  BY DEF Inv, Core, ReportsWhenDone

\* cancel()
LEMMA CancelIdles ==
  ASSUME NEW Got, NEW s, Inv(s, Got), NEW side, NEW o \in Cancelled(s, side)
  PROVE  Idles(s, o.item) /\ o.out \subseteq {Ack(side, "Cancelled")}
<1> DEFINE r == RemoveTimeout(s)
           t == [r EXCEPT !.held = FALSE]
           u == LetGo(r)
<1>0. s \in Work(Got) /\ (s.callback <=> ~s.done)
  BY ItemOf
<1>1. r \in Work(Got) /\ Keeps(s, r) /\ SameReports(s, r)
  BY <1>0, TimerPieces
<1>2. u = t \/ u = RemoveTimeout(t)
  BY DEF LetGo, Released
<1>3. o \in Finish(u, Ack(side, "Cancelled"), "Cancelled")
  BY DEF Cancelled
<1> HIDE DEF r
<1>4. t \in Work(Got) /\ Keeps(r, t) /\ SameReports(r, t)
  BY <1>1 DEF Work, Keeps, SameReports
<1> HIDE DEF t
<1>5. u \in Work(Got) /\ Keeps(t, u) /\ SameReports(t, u)
  BY <1>2, <1>4, TimerPieces DEF Keeps, SameReports
<1> HIDE DEF u
<1>6. Keeps(s, u) /\ SameReports(s, u)
  BY <1>1, <1>4, <1>5 DEF Keeps, SameReports
<1>7. \/ o = [item |-> Report(u, "Cancelled"), out |-> {Ack(side, "Cancelled")}]
      \/ o = [item |-> Report(u, "ConnectionError"), out |-> {}]
  BY <1>3 DEF Finish
<1>8. \E x \in {"Cancelled", "ConnectionError"} : o.item = Report(u, x)
  BY <1>7
<1>9. Idles(s, o.item)
  BY <1>0, <1>5, <1>6, <1>8, FailsLater
<1> QED BY <1>7, <1>9

\* run_once() takes a timer out.
LEMMA ExpireIdles ==
  ASSUME NEW Got, NEW s, Inv(s, Got), NEW t \in Expired(s)
  PROVE  Idles(s, t)
<1>1. s \in Work(Got)
  BY ItemOf
<1>2. \/ t = [s EXCEPT !.armed = FALSE, !.firing = TRUE]
      \/ t = [s EXCEPT !.orphans = @ - 1, !.firing = TRUE]
  BY DEF Expired
<1>3. Keeps(s, t) /\ SameReports(s, t)
  BY <1>1, <1>2 DEF Work, Keeps, SameReports
<1> QED BY <1>3, KeepsIdles

LEMMA HoldIdles ==
  ASSUME NEW Got, NEW s, Inv(s, Got)
  PROVE  Idles(s, Held(s))
<1>1. s \in Work(Got)
  BY ItemOf
<1>2. Keeps(s, Held(s)) /\ SameReports(s, Held(s))
  BY <1>1 DEF Held, Work, Keeps, SameReports
<1> QED BY <1>2, KeepsIdles

LEMMA PopIdles ==
  ASSUME NEW Got, NEW s, Inv(s, Got)
  PROVE  Idles(s, Popped(s))
<1> DEFINE t == [s EXCEPT !.queued = FALSE]
           u == Popped(s)
<1>0. s \in Work(Got)
  BY ItemOf
<1>1. t \in Work(Got) /\ Keeps(s, t) /\ SameReports(s, t)
  BY <1>0 DEF Work, Keeps, SameReports
<1>2. u = t \/ u = RemoveTimeout(t)
  BY DEF Popped, Released
<1> HIDE DEF t, u
<1>3. Keeps(s, u) /\ SameReports(s, u)
  BY <1>1, <1>2, TimerPieces DEF Keeps, SameReports
<1> QED BY <1>3, KeepsIdles DEF u
-----------------------------------------------------------------------------
(***************************************************************************)
(* What handlers send.                                                     *)
(***************************************************************************)
LEMMA TryIdles ==
  ASSUME NEW Got, NEW s \in Work(Got), s.callback <=> ~s.done, NEW m, NEW o \in Try(s, m)
  PROVE  Idles(s, o.item) /\ (o.out = {m} \/ o.out = {})
<1>1. \/ o = [item |-> [s EXCEPT !.retries = @ + 1], out |-> {m}]
      \/ o = [item |-> Report(RemoveTimeout(s), "ConnectionError"), out |-> {}]
  BY DEF Try
<1>2. CASE o = [item |-> [s EXCEPT !.retries = @ + 1], out |-> {m}]
  <2> DEFINE t == [s EXCEPT !.retries = @ + 1]
  <2>1. Keeps(s, t) /\ SameReports(s, t)
    BY DEF Work, Keeps, SameReports
  <2> HIDE DEF t
  <2>2. Idles(s, t)
    BY <2>1, KeepsIdles
  <2> QED BY <1>2, <2>2 DEF t
<1>3. CASE o = [item |-> Report(RemoveTimeout(s), "ConnectionError"), out |-> {}]
  <2>1. Idles(s, Report(RemoveTimeout(s), "ConnectionError"))
    BY TimerPieces, FailsLater
  <2> QED BY <1>3, <2>1
<1> QED BY <1>1, <1>2, <1>3

\* After changes elsewhere in the item, a try.
LEMMA FinishTells ==
  ASSUME NEW Got, NEW s \in Work(Got), s.callback <=> ~s.done, NEW m, NEW r,
         NEW o \in Finish(s, m, r)
  PROVE  /\ Keeps(s, o.item)
         /\ Tells(s, o.item, r) \/ Tells(s, o.item, "ConnectionError")
         /\ o.out = {m} \/ o.out = {}
<1>1. \/ o = [item |-> Report(s, r), out |-> {m}]
      \/ o = [item |-> Report(s, "ConnectionError"), out |-> {}]
  BY DEF Finish
<1>2. CASE o = [item |-> Report(s, r), out |-> {m}]
  BY <1>2, ReportPieces
<1>3. CASE o = [item |-> Report(s, "ConnectionError"), out |-> {}]
  BY <1>3, ReportPieces
<1> QED BY <1>1, <1>2, <1>3
-----------------------------------------------------------------------------
(***************************************************************************)
(* An upload as the other side sees it, and the acknowledgement it has.    *)
(***************************************************************************)
SameUpload(s, t) ==
  t.list = s.list /\ t.next = s.next /\ t.started = s.started /\ t.resent = s.resent

SameAck(s, t) == t.got = s.got /\ (t.result = s.result \/ t.result.got = s.got)

LEMMA IdlesUploads ==
  ASSUME NEW s, NEW t, Idles(s, t)
  PROVE  SameUpload(s, t) /\ SameAck(s, t)
  BY DEF Idles, Keeps, SameUpload, SameAck

\* What an upload to `side` may send.
UploadOut(side, out) ==
  \A m \in out : \/ m.to = side /\ m.type \in {"COUNT", "ITEM"}
                 \/ m = Ack(side, "Cancelled")

\* What the download of `side` may send.
DownloadOut(side, out) ==
  \A m \in out : \/ m.to = Other(side) /\ m.type \in {"READ", "REQUEST"}
                 \/ m = Ack(Other(side), "Cancelled")
                 \/ m = Ack("vehicle", "Accepted")

LEMMA SendItemPieces ==
  ASSUME NEW s \in Uploads, s.callback <=> ~s.done, NEW side, NEW o \in SendItem(s, side)
  PROVE  LET m == Item(side, s.next, s.list.items[s.next + 1]) IN
         /\ o.out = {m} \/ o.out = {}
         /\ o.item.list = s.list /\ o.item.started = s.started /\ o.item.resent = s.resent
         /\ SameAck(s, o.item)
         /\ s.next < Len(s.list.items) => o.item.next = s.next + 1
<1> DEFINE m == Item(side, s.next, s.list.items[s.next + 1])
           t == [s EXCEPT !.next = @ + 1]
<1>0. s \in Work(Acks) /\ s.next \in Nat /\ s.list.items \in Seq(Names)
  BY InspectionAssumption DEF Uploads, Work
<1>00. Len(s.list.items) \in Nat
  BY <1>0
<1>1. CASE s.next >= Len(s.list.items)
  <2>1. o = [item |-> s, out |-> {}]
    BY <1>1 DEF SendItem, Quietly
  <2>2. ~(s.next < Len(s.list.items))
    BY <1>0, <1>00, <1>1
  <2> QED BY <2>1, <2>2 DEF SameAck
<1>2. CASE ~(s.next >= Len(s.list.items))
  <2>1. PICK p \in Try(t, m) : o = IF p.out = {} THEN p
                                   ELSE [p EXCEPT !.item.sent = @ \cup {s.next}]
    BY <1>2 DEF SendItem
  <2>2. PICK sent \in SendOutcomes :
          p = IF sent
              THEN [item |-> [t EXCEPT !.retries = @ + 1], out |-> {m}]
              ELSE [item |-> Report(RemoveTimeout(t), "ConnectionError"), out |-> {}]
    BY <2>1 DEF Try
  <2> HIDE DEF m
  <2>3. t \in Work(Acks) /\ t.next = s.next + 1 /\ t.list = s.list /\ t.started = s.started
        /\ t.resent = s.resent /\ t.got = s.got /\ SameReports(s, t)
    BY <1>0 DEF Work, SameReports
  <2> HIDE DEF t
  <2>4. CASE sent
    <3> DEFINE x == [t EXCEPT !.retries = @ + 1]
               u == [x EXCEPT !.sent = @ \cup {s.next}]
    <3>1. p = [item |-> x, out |-> {m}]
      BY <2>2, <2>4
    <3>2. x \in Work(Acks) /\ Keeps(t, x) /\ SameReports(t, x)
      BY <2>3 DEF Work, Keeps, SameReports
    <3> HIDE DEF x
    <3>3. o.item = u /\ o.out = {m}
      BY <2>1, <3>1
    <3>4. Keeps(x, u) /\ SameReports(x, u)
      BY <3>2 DEF Work, Keeps, SameReports
    <3> HIDE DEF u
    <3> QED BY <2>3, <3>2, <3>3, <3>4 DEF Keeps, SameReports, SameAck, m
  <2>5. CASE ~sent
    <3>1. o = [item |-> Report(RemoveTimeout(t), "ConnectionError"), out |-> {}]
      BY <2>1, <2>2, <2>5
    <3>2. t.callback <=> ~t.done
      BY <2>3 DEF SameReports
    <3>3. Idles(t, Report(RemoveTimeout(t), "ConnectionError"))
      BY <2>3, <3>2, TimerPieces, FailsLater
    <3>4. Idles(t, o.item) /\ o.out = {}
      BY <3>1, <3>3
    <3> QED BY <2>3, <3>4 DEF Idles, Keeps, SameReports, SameAck
  <2> QED BY <2>4, <2>5
<1> QED BY <1>1, <1>2

\* process_inspection_read(), of any READ and of the one that is due.
LEMMA ServePieces ==
  ASSUME NEW s, UploadInv(s), NEW i \in SeqNumbers, NEW side, NEW o \in Serve(s, i, side)
  PROVE  /\ o.item.list = s.list /\ o.item.started = s.started /\ o.item.resent = s.resent
         /\ SameAck(s, o.item)
         /\ UploadOut(side, o.out) /\ \A m \in o.out : m.type = "ITEM"
         /\ i = s.next /\ s.next < Len(s.list.items) =>
              /\ o.item.next = s.next + 1
              /\ o.out = {Item(side, s.next, s.list.items[s.next + 1])} \/ o.out = {}
<1> DEFINE t == [s EXCEPT !.step = "SendItems"]
           u == [t EXCEPT !.next = i]
           v == [t EXCEPT !.retries = 0]
<1>1. /\ s \in Work(Acks) /\ s.next \in Nat /\ s.retries \in Nat /\ i \in Nat
      /\ s.callback <=> ~s.done
  BY LinkAssumption DEF UploadInv, Inv, Core, ReportsWhenDone, Work, SeqNumbers
<1>2. \/ i > s.next /\ o \in Quietly(t)
      \/ i < s.next /\ o \in Quietly(Report(RemoveTimeout(t), "Timeout"))
      \/ i < s.next /\ o \in SendItem(u, side)
      \/ i = s.next /\ o \in SendItem(v, side)
  <2>1. CASE i > s.next
    BY <1>1, <2>1 DEF Serve
  <2>2. CASE i < s.next /\ s.retries >= Retries
    BY <1>1, <2>2, RetriesAssumption DEF Serve
  <2>3. CASE i < s.next /\ s.retries < Retries
    BY <1>1, <2>3, RetriesAssumption DEF Serve
  <2>4. CASE i = s.next
    BY <1>1, <2>4 DEF Serve
  <2> QED BY <1>1, <2>1, <2>2, <2>3, <2>4, RetriesAssumption
<1>3. /\ t \in Work(Acks) /\ Keeps(s, t) /\ SameReports(s, t)
  BY <1>1 DEF Work, Steps, Keeps, SameReports
<1> HIDE DEF t
<1>4. /\ u \in Uploads /\ u.list = s.list /\ u.started = s.started /\ u.resent = s.resent
      /\ u.got = s.got /\ SameReports(s, u)
  BY <1>1, <1>3 DEF Uploads, Work, Keeps, SameReports
<1>5. v \in Uploads /\ Keeps(s, v) /\ SameReports(s, v)
  BY <1>3 DEF Uploads, Work, Keeps, SameReports
<1> HIDE DEF u, v
<1>6. CASE i > s.next /\ o \in Quietly(t)
  <2>1. o = [item |-> t, out |-> {}] /\ i # s.next
    BY <1>1, <1>6 DEF Quietly
  <2> QED BY <1>3, <2>1 DEF Keeps, SameReports, SameAck, UploadOut
<1>7. CASE i < s.next /\ o \in Quietly(Report(RemoveTimeout(t), "Timeout"))
  <2>1. o = [item |-> Report(RemoveTimeout(t), "Timeout"), out |-> {}] /\ i # s.next
    BY <1>1, <1>7 DEF Quietly
  <2>2. RemoveTimeout(t) \in Work(Acks) /\ Keeps(s, RemoveTimeout(t))
        /\ SameReports(s, RemoveTimeout(t))
    BY <1>3, TimerPieces DEF Keeps, SameReports
  <2>3. Idles(s, Report(RemoveTimeout(t), "Timeout"))
    BY <1>1, <2>2, FailsLater
  <2>4. Idles(s, o.item) /\ o.out = {}
    BY <2>1, <2>3
  <2> QED BY <2>1, <2>4, IdlesUploads DEF SameUpload, UploadOut
<1>8. CASE i < s.next /\ o \in SendItem(u, side)
  <2>1. u.callback <=> ~u.done
    BY <1>1, <1>4 DEF SameReports
  <2>2. /\ \E w : o.out = {Item(side, u.next, w)} \/ o.out = {}
        /\ o.item.list = u.list /\ o.item.started = u.started /\ o.item.resent = u.resent
        /\ SameAck(u, o.item)
    BY <1>4, <1>8, <2>1, SendItemPieces
  <2>3. UploadOut(side, o.out) /\ \A m \in o.out : m.type = "ITEM"
    BY <2>2 DEF UploadOut, Item
  <2>4. i # s.next
    BY <1>1, <1>8
  <2> QED BY <1>4, <2>2, <2>3, <2>4 DEF SameReports, SameAck
<1>9. CASE i = s.next /\ o \in SendItem(v, side)
  <2>1. v.callback <=> ~v.done
    BY <1>1, <1>5 DEF SameReports
  <2>2. /\ o.out = {Item(side, v.next, v.list.items[v.next + 1])} \/ o.out = {}
        /\ o.item.list = v.list /\ o.item.started = v.started /\ o.item.resent = v.resent
        /\ SameAck(v, o.item)
        /\ v.next < Len(v.list.items) => o.item.next = v.next + 1
    BY <1>5, <1>9, <2>1, SendItemPieces
  <2>3. UploadOut(side, o.out) /\ \A m \in o.out : m.type = "ITEM"
    BY <2>2 DEF UploadOut, Item
  <2> QED BY <1>5, <2>2, <2>3 DEF Keeps, SameReports, SameAck
<1> QED BY <1>2, <1>6, <1>7, <1>8, <1>9
-----------------------------------------------------------------------------
(***************************************************************************)
(* A waypoint that was received.                                           *)
(***************************************************************************)
LEMMA BeginsEmpty ==
  ASSUME NEW list \in Seq(Names)
  PROVE  Begins(<<>>, list)
<1>1. Len(list) \in Nat /\ Len(<<>>) = 0 /\ DOMAIN <<>> = {}
  OBVIOUS
<1> QED BY <1>1 DEF Begins

LEMMA BeginsLonger ==
  ASSUME NEW list \in Seq(Names), NEW items \in Seq(Waypoints), Begins(items, list),
         Len(items) < Len(list), NEW x \in Waypoints,
         x = [seq |-> Len(items), name |-> list[Len(items) + 1]]
  PROVE  Begins(Append(items, x), list) /\ Len(Append(items, x)) = Len(items) + 1
<1> DEFINE longer == Append(items, x)
<1>1. Len(items) \in Nat /\ Len(list) \in Nat /\ DOMAIN items = 1 .. Len(items)
  OBVIOUS
<1>2. Len(longer) = Len(items) + 1 /\ DOMAIN longer = 1 .. Len(items) + 1
  OBVIOUS
<1>3. longer[Len(items) + 1] = x /\ \A i \in 1 .. Len(items) : longer[i] = items[i]
  OBVIOUS
<1> HIDE DEF longer
<1>4. ASSUME NEW i \in 1 .. Len(items) + 1
      PROVE  longer[i] = [seq |-> i - 1, name |-> list[i]]
  <2>1. CASE i = Len(items) + 1
    <3>1. i - 1 = Len(items)
      BY <1>1, <2>1
    <3> QED BY <1>3, <2>1, <3>1
  <2>2. CASE i # Len(items) + 1
    <3>1. i \in 1 .. Len(items)
      BY <1>1, <2>2
    <3> QED BY <1>1, <1>3, <3>1 DEF Begins
  <2> QED BY <2>1, <2>2
<1>5. Len(longer) <= Len(list)
  BY <1>1, <1>2
<1>6. Begins(longer, list)
  BY <1>2, <1>4, <1>5 DEF Begins
<1> QED BY <1>2, <1>6 DEF longer

\* From s to t the caller was told nothing, a failure, or what was gathered.
Concludes(s, t) ==
  \/ t.done = s.done /\ t.result = s.result
  \/ ~s.done /\ t.done /\ t.result.result # "Success"
  \/ ~s.done /\ t.done /\ t.result = [result |-> "Success", got |-> t.got]

\* process_inspection_item()
LEMMA CollectPieces ==
  ASSUME NEW s, Inv(s, Gathered), NEW i \in SeqNumbers, NEW w \in Names, NEW side \in Sides,
         NEW o \in Collect(s, Item(side, i, w), Other(side))
  PROVE  /\ o.item.expected = s.expected /\ o.item.started = s.started
         /\ o.item.resent = s.resent /\ o.item.got.plan = s.got.plan
         /\ o.item.got.items = Append(s.got.items, [seq |-> i, name |-> w])
         /\ Concludes(s, o.item)
         /\ s.next + 1 = s.expected =>
              o.out = {Ack("vehicle", "Accepted")} \/ o.out = {}
         /\ s.next + 1 # s.expected =>
              /\ o.item.next = i + 1
              /\ o.out = {Read(Other(side), i + 1)} \/ o.out = {}
              /\ \/ o.item.result = s.result /\ o.item.done = s.done
                 \/ o.item.result.result # "Success"
<1> DEFINE x == [seq |-> i, name |-> w]
           t == [s EXCEPT !.got.items = Append(@, x)]
           u == [t EXCEPT !.next = i + 1, !.retries = 0]
           r == RemoveTimeout(t)
<1>1. s \in Work(Gathered) /\ s.got \in Gathered /\ s.got.items \in Seq(Waypoints)
  BY DEF Inv, Core, Work, Gathered
<1>1a. s.callback <=> ~s.done
  BY ItemOf
<1>2. x \in Waypoints /\ i + 1 \in Nat
  BY LinkAssumption DEF Waypoints, SeqNumbers
<1>3. IF s.next + 1 = s.expected THEN o \in AllCollected(r, Other(side))
                                 ELSE o \in RequestItem(u, Other(side))
  BY DEF Collect, Item
<1> HIDE DEF x
<1>4. [s.got EXCEPT !.items = Append(s.got.items, x)] \in Gathered
  BY <1>1, <1>2 DEF Gathered
<1>5. t = [s EXCEPT !.got = [s.got EXCEPT !.items = Append(s.got.items, x)]]
  BY <1>1 DEF Work, Gathered
<1>5a. /\ [s.got EXCEPT !.items = Append(s.got.items, x)].items = Append(s.got.items, x)
       /\ [s.got EXCEPT !.items = Append(s.got.items, x)].plan = s.got.plan
  BY <1>1 DEF Gathered
<1> HIDE DEF t
<1>6. /\ t \in Work(Gathered) /\ SameReports(s, t)
      /\ t.expected = s.expected /\ t.started = s.started /\ t.resent = s.resent
      /\ t.next = s.next
      /\ t.got.items = Append(s.got.items, x) /\ t.got.plan = s.got.plan
  BY <1>1, <1>4, <1>5, <1>5a DEF Work, SameReports
<1>7. t.callback <=> ~t.done
  BY <1>1a, <1>6 DEF SameReports
<1>8. CASE s.next + 1 = s.expected
  <2>1. r \in Work(Gathered) /\ Keeps(t, r) /\ SameReports(t, r) /\ (r.callback <=> ~r.done)
    BY <1>6, <1>7, TimerPieces DEF SameReports
  <2> HIDE DEF r
  <2>2. \/ o \in Finish(r, Ack("vehicle", "Accepted"), "Success")
        \/ o = [item |-> Report(r, "Success"), out |-> {}]
    BY <1>3, <1>8 DEF AllCollected, Accepted, Quietly
  <2>3. /\ Keeps(r, o.item)
        /\ Tells(r, o.item, "Success") \/ Tells(r, o.item, "ConnectionError")
        /\ o.out = {Ack("vehicle", "Accepted")} \/ o.out = {}
    <3>1. CASE o \in Finish(r, Ack("vehicle", "Accepted"), "Success")
      BY <2>1, <3>1, FinishTells
    <3>2. CASE o = [item |-> Report(r, "Success"), out |-> {}]
      BY <2>1, <3>2, ReportPieces
    <3> QED BY <2>2, <3>1, <3>2
  <2>4. /\ o.item.expected = s.expected /\ o.item.started = s.started
        /\ o.item.resent = s.resent /\ o.item.got = t.got
    BY <1>6, <2>1, <2>3 DEF Keeps
  <2>5. Concludes(s, o.item)
    <3>1. r.done = s.done /\ r.result = s.result /\ r.got = o.item.got /\ s.done \in BOOLEAN
      BY <1>1, <1>6, <2>1, <2>3 DEF SameReports, Keeps, Work
    <3>2. CASE s.done = TRUE
      BY <2>3, <3>1, <3>2 DEF Concludes, Tells
    <3>3. CASE s.done = FALSE
      BY <2>3, <3>1, <3>3 DEF Concludes, Tells
    <3> QED BY <3>1, <3>2, <3>3
  <2> QED BY <1>6, <1>8, <2>3, <2>4, <2>5 DEF x
<1>9. CASE s.next + 1 # s.expected
  <2>1. /\ u \in Work(Gathered) /\ SameReports(t, u) /\ u.next = i + 1
        /\ u.expected = t.expected /\ u.started = t.started /\ u.resent = t.resent
        /\ u.got = t.got
    BY <1>2, <1>6 DEF Work, SameReports
  <2>2. o \in Try(u, Read(Other(side), u.next))
    BY <1>3, <1>9 DEF RequestItem
  <2> HIDE DEF u
  <2>3. u.callback <=> ~u.done
    BY <1>7, <2>1 DEF SameReports
  <2>4. Idles(u, o.item) /\ (o.out = {Read(Other(side), i + 1)} \/ o.out = {})
    BY <2>1, <2>2, <2>3, TryIdles
  <2>5. /\ Concludes(s, o.item)
        /\ \/ o.item.result = s.result /\ o.item.done = s.done
           \/ o.item.result.result # "Success"
    BY <1>6, <2>1, <2>4 DEF Idles, SameReports, Concludes
  <2> QED BY <1>6, <1>9, <2>1, <2>4, <2>5 DEF Idles, Keeps, x
<1> QED BY <1>8, <1>9
-----------------------------------------------------------------------------
(***************************************************************************)
(* The two items of a direction taking turns.                              *)
(***************************************************************************)
LEMMA ListOf ==
  ASSUME NEW Got, NEW s \in Work(Got)
  PROVE  s.list.items \in Seq(Names) /\ Len(s.list.items) \in Nat /\ s.list.plan \in Plans
<1>1. s.list.items \in Seq(Names) /\ s.list.plan \in Plans
  BY InspectionAssumption DEF Work
<1> QED BY <1>1

\* Steps that leave a transfer where it is.
LEMMA FlowStays ==
  ASSUME NEW side \in Sides, NEW s, NEW d, NEW x, NEW t, NEW e, NEW y,
         Alike(side, x, y), SameUpload(s, t), Keeps(d, e)
  PROVE  /\ Announced(side, s, x) => Announced(side, t, y)
         /\ Flow(side, s, d, x) => Flow(side, t, e, y)
<1>1. NoneIn(side, x) => NoneIn(side, y)
  BY AlikeLinks
<1>2. \A m : OnlyIn(side, x, m) => OnlyIn(side, y, m)
  BY AlikeLinks
<1>3. t.list = s.list /\ t.next = s.next /\ t.started = s.started
  BY DEF SameUpload
<1>4. e.got = d.got /\ e.next = d.next /\ e.expected = d.expected /\ e.started = d.started
  BY DEF Keeps
<1>5. Announced(side, s, x) => Announced(side, t, y)
  BY <1>2, <1>3 DEF Announced
<1>6. Halfway(s, d) => Halfway(t, e)
  BY <1>3, <1>4 DEF Halfway
<1>7. Reading(side, s, d, x) => Reading(side, t, e, y)
  BY <1>2, <1>3, <1>4, <1>6 DEF Reading
<1>8. Answered(side, s, d, x) => Answered(side, t, e, y)
  BY <1>2, <1>3, <1>4, <1>6 DEF Answered
<1>9. Over(side, s, d, x) => Over(side, t, e, y)
  BY <1>1, <1>3, <1>4 DEF Over
<1> QED BY <1>5, <1>7, <1>8, <1>9 DEF Flow

LEMMA CompleteStays ==
  ASSUME NEW side \in Sides, NEW s, NEW d, NEW x, NEW t, NEW e, NEW y,
         Alike(side, x, y), SameUpload(s, t), e.started = d.started, e.done = d.done,
         e.result = d.result
  PROVE  Complete(side, s, d, x) => Complete(side, t, e, y)
<1>1. NoneIn(side, x) => NoneIn(side, y)
  BY AlikeLinks
<1>2. t.list = s.list /\ t.started = s.started
  BY DEF SameUpload
<1> QED BY <1>1, <1>2 DEF Complete, Over

\* A READ is served.
LEMMA FlowServes ==
  ASSUME NEW side \in Sides, NEW s, UploadInv(s), NEW d, Inv(d, Gathered), NEW link,
         Flow(side, s, d, link), NEW i \in SeqNumbers, Read(Other(side), i) \in DOMAIN link,
         NEW o \in Serve(s, i, side)
  PROVE  Flow(side, o.item, d, Sent(BagRemove(link, Read(Other(side), i)), o.out))
<1> DEFINE m == Read(Other(side), i)
           taken == BagRemove(link, m)
           link2 == Sent(taken, o.out)
<1>0. /\ d \in Work(Gathered) /\ d.next \in Nat /\ s \in Work(Acks) /\ s.list.items \in Seq(Names)
      /\ Len(s.list.items) \in Nat
  BY ListOf DEF UploadInv, Inv, Core, Work
<1>1. Belongs(side, m)
  BY PacketsOfDirection
<1>2. ~Over(side, s, d, link)
  BY <1>1 DEF Over, NoneIn
<1>3. ~Answered(side, s, d, link)
  <2>1. SUFFICES ASSUME Answered(side, s, d, link) PROVE FALSE
    OBVIOUS
  <2>2. m = Item(side, d.next, s.list.items[d.next + 1])
    BY <1>1, <2>1 DEF Answered, OnlyIn
  <2> QED BY <2>2 DEF Read, Item
<1>4. Reading(side, s, d, link)
  BY <1>2, <1>3 DEF Flow
<1>5. Read(Other(side), d.next) = m
  BY <1>1, <1>4 DEF Reading, OnlyIn
<1>6. i = d.next
  <2>1. d.next \in SeqNumbers
    BY <1>0, <1>4, LinkAssumption DEF Reading, Halfway, SeqNumbers
  <2>2. i % SeqRange = d.next % SeqRange
    BY <1>5 DEF Read
  <2> QED BY <2>1, <2>2, Remainders
<1>7. i = s.next /\ s.next < Len(s.list.items)
  BY <1>4, <1>6 DEF Reading, Halfway
<1>8. /\ o.item.next = s.next + 1 /\ o.item.list = s.list /\ o.item.started = s.started
      /\ o.out = {Item(side, d.next, s.list.items[d.next + 1])} \/ o.out = {}
  BY <1>6, <1>7, ServePieces
<1>9. NoneIn(side, taken)
  BY <1>4, <1>5, Taken DEF Reading
<1>10. Halfway(o.item, d)
  BY <1>4, <1>8 DEF Reading, Halfway
<1> HIDE DEF taken, m
<1>11. CASE o.out = {Item(side, d.next, s.list.items[d.next + 1])}
  <2>1. OnlyIn(side, link2, Item(side, d.next, s.list.items[d.next + 1]))
    BY <1>9, <1>11, Given, PacketsOfDirection
  <2>2. Answered(side, o.item, d, link2)
    BY <1>6, <1>7, <1>8, <1>10, <2>1 DEF Answered
  <2> QED BY <2>2 DEF Flow, taken, m
<1>12. CASE o.out = {}
  <2>1. NoneIn(side, link2)
    BY <1>9, <1>12, NothingGiven
  <2>2. Over(side, o.item, d, link2)
    BY <1>10, <2>1 DEF Over, Halfway
  <2> QED BY <2>2 DEF Flow, taken, m
<1> QED BY <1>8, <1>11, <1>12

\* An ITEM is collected.
LEMMA FlowCollects ==
  ASSUME NEW side \in Sides, NEW s, UploadInv(s), NEW d, Inv(d, Gathered), NEW link,
         Flow(side, s, d, link), NEW i \in SeqNumbers, NEW w \in Names,
         Item(side, i, w) \in DOMAIN link,
         NEW o \in Collect(d, Item(side, i, w), Other(side))
  PROVE  LET link2 == Sent(BagRemove(link, Item(side, i, w)), o.out) IN
         /\ Flow(side, s, o.item, link2)
         /\ \/ o.item.result = d.result /\ o.item.done = d.done
            \/ o.item.result.result # "Success"
            \/ Complete(side, s, o.item, link2)
<1> DEFINE m == Item(side, i, w)
           taken == BagRemove(link, m)
           link2 == Sent(taken, o.out)
           x == [seq |-> i, name |-> w]
<1>0. /\ d \in Work(Gathered) /\ d.next \in Nat /\ d.expected \in Nat
      /\ d.got.items \in Seq(Waypoints)
      /\ s \in Work(Acks) /\ s.list.items \in Seq(Names) /\ Len(s.list.items) \in Nat
  BY ListOf DEF UploadInv, Inv, Core, Work, Gathered
<1>1. Belongs(side, m)
  BY PacketsOfDirection
<1>2. ~Over(side, s, d, link)
  BY <1>1 DEF Over, NoneIn
<1>3. ~Reading(side, s, d, link)
  <2>1. SUFFICES ASSUME Reading(side, s, d, link) PROVE FALSE
    OBVIOUS
  <2>2. m = Read(Other(side), d.next)
    BY <1>1, <2>1 DEF Reading, OnlyIn
  <2> QED BY <2>2 DEF Read, Item
<1>4. Answered(side, s, d, link)
  BY <1>2, <1>3 DEF Flow
<1>5. Item(side, d.next, s.list.items[d.next + 1]) = m
  BY <1>1, <1>4 DEF Answered, OnlyIn
<1>6. i = d.next /\ w = s.list.items[d.next + 1]
  BY <1>5 DEF Item
<1>7. NoneIn(side, taken)
  BY <1>4, <1>5, Taken DEF Answered
<1>8. /\ o.item.expected = d.expected /\ o.item.started = d.started
      /\ o.item.got.plan = d.got.plan
      /\ o.item.got.items = Append(d.got.items, x)
      /\ Concludes(d, o.item)
      /\ d.next + 1 = d.expected =>
           o.out = {Ack("vehicle", "Accepted")} \/ o.out = {}
      /\ d.next + 1 # d.expected =>
           /\ o.item.next = i + 1
           /\ o.out = {Read(Other(side), i + 1)} \/ o.out = {}
           /\ \/ o.item.result = d.result /\ o.item.done = d.done
              \/ o.item.result.result # "Success"
  BY CollectPieces
<1>9. x \in Waypoints
  BY DEF Waypoints
<1>10. /\ Begins(o.item.got.items, s.list.items)
       /\ Len(o.item.got.items) = d.next + 1
       /\ o.item.got.plan = s.list.plan
       /\ s.started /\ d.started /\ o.item.started
       /\ d.expected = Len(s.list.items) /\ d.expected < SeqRange /\ d.next < d.expected
  <2>1. /\ Begins(d.got.items, s.list.items) /\ Len(d.got.items) = d.next
        /\ d.next < Len(s.list.items)
    BY <1>4 DEF Answered, Halfway
  <2>2. /\ Begins(Append(d.got.items, x), s.list.items)
        /\ Len(Append(d.got.items, x)) = d.next + 1
    <3>1. x = [seq |-> Len(d.got.items), name |-> s.list.items[Len(d.got.items) + 1]]
      BY <1>6, <2>1
    <3> HIDE DEF x
    <3> QED BY <1>0, <1>9, <2>1, <3>1, BeginsLonger
  <2> QED BY <1>4, <1>8, <2>2 DEF Answered, Halfway
<1> HIDE DEF taken, m, x
<1>11. CASE d.next + 1 = d.expected
  <2>1. NoneIn(side, link2)
    <3>1. \A k \in o.out : ~Belongs(side, k)
      BY <1>8, <1>11, PacketsOfOther
    <3> QED BY <1>7, <3>1, GivenForeign, AlikeLinks
  <2>2. Over(side, s, o.item, link2)
    BY <1>10, <2>1 DEF Over
  <2>3. SameList(o.item.got, s.list)
    BY <1>10, <1>11 DEF SameList, Begins
  <2>4. ~d.done /\ o.item.done /\ o.item.result = [result |-> "Success", got |-> o.item.got]
          => Complete(side, s, o.item, link2)
    BY <2>2, <2>3 DEF Complete
  <2> QED BY <1>8, <2>2, <2>4 DEF Flow, Concludes, taken, m
<1>12. CASE d.next + 1 # d.expected
  <2>1. o.item.next = d.next + 1 /\ o.item.next < o.item.expected
    BY <1>0, <1>6, <1>8, <1>10, <1>12
  <2>2. Halfway(s, o.item)
    BY <1>8, <1>10, <2>1 DEF Halfway
  <2>3. Flow(side, s, o.item, link2)
    <3>1. CASE o.out = {Read(Other(side), i + 1)}
      <4>1. OnlyIn(side, link2, Read(Other(side), o.item.next))
        BY <1>6, <1>7, <2>1, <3>1, Given, PacketsOfDirection
      <4> QED BY <1>4, <2>1, <2>2, <4>1 DEF Answered, Reading, Flow
    <3>2. CASE o.out = {}
      <4>1. NoneIn(side, link2)
        BY <1>7, <3>2, NothingGiven
      <4> QED BY <1>10, <4>1 DEF Over, Flow
    <3> QED BY <1>8, <1>12, <3>1, <3>2
  <2>4. (o.item.result = d.result /\ o.item.done = d.done) \/ o.item.result.result # "Success"
    BY <1>8, <1>12
  <2> QED BY <2>3, <2>4 DEF taken, m
<1> QED BY <1>11, <1>12

\* The first READ.
LEMMA FlowBegins ==
  ASSUME NEW side \in Sides, NEW s, NEW Got, s \in Work(Got), NEW d, NEW link, NoneIn(side, link),
         s.started, s.next = 0, d.started, d.next = 0, d.expected = Len(s.list.items),
         d.expected # 0, d.expected < SeqRange,
         d.got = [plan |-> s.list.plan, items |-> <<>>],
         NEW out, out = {Read(Other(side), 0)} \/ out = {}
  PROVE  Flow(side, s, d, Sent(link, out))
<1>1. s.list.items \in Seq(Names) /\ Len(s.list.items) \in Nat
  BY ListOf
<1>2. Halfway(s, d)
  BY <1>1, BeginsEmpty DEF Halfway
<1>3. CASE out = {Read(Other(side), 0)}
  <2>1. OnlyIn(side, Sent(link, out), Read(Other(side), 0))
    BY <1>3, Given, PacketsOfDirection
  <2> QED BY <1>2, <2>1 DEF Reading, Flow
<1>4. CASE out = {}
  BY <1>4, NothingGiven DEF Over, Flow
<1> QED BY <1>3, <1>4
-----------------------------------------------------------------------------
(***************************************************************************)
(* The two directions do not disturb each other's packets.                 *)
(***************************************************************************)
\* The user's acceptance of an upload of the station.
Acceptance == Ack("station", "Accepted")

\* From x to y, packets that do not matter for the transfer to `side`.
Apart(side, x, y) ==
  Alike(side, x, y) /\ (Acceptance \in DOMAIN y => Acceptance \in DOMAIN x)

LEMMA ApartSame ==
  ASSUME NEW side, NEW x
  PROVE  Apart(side, x, x)
  BY DEF Apart, Alike

LEMMA ApartOut ==
  ASSUME NEW side, NEW link, NEW out,
         \A m \in out : ~Belongs(side, m) /\ m # Acceptance
  PROVE  Apart(side, link, Sent(link, out))
  BY GivenForeign, WasSent DEF Apart

LEMMA ApartTaken ==
  ASSUME NEW side, NEW link, NEW k, ~Belongs(side, k)
  PROVE  Apart(side, link, BagRemove(link, k))
  BY TakenForeign, WasThere DEF Apart

LEMMA ApartTakenOut ==
  ASSUME NEW side, NEW link, NEW k, ~Belongs(side, k), NEW out,
         \A m \in out : ~Belongs(side, m) /\ m # Acceptance
  PROVE  Apart(side, link, Sent(BagRemove(link, k), out))
<1>1. Apart(side, link, BagRemove(link, k))
  BY ApartTaken
<1>2. Apart(side, BagRemove(link, k), Sent(BagRemove(link, k), out))
  BY ApartOut
<1> QED BY <1>1, <1>2, AlikeChain DEF Apart

LEMMA OutApart ==
  ASSUME NEW side \in Sides, NEW out, UploadOut(side, out) \/ DownloadOut(side, out)
  PROVE  \A m \in out : ~Belongs(Other(side), m) /\ m # Acceptance
<1> SUFFICES ASSUME NEW m \in out PROVE ~Belongs(Other(side), m) /\ m # Acceptance
  OBVIOUS
<1>1. CASE m.to = side /\ m.type \in {"COUNT", "ITEM"}
  BY <1>1, OtherSide DEF Belongs, Acceptance, Ack
<1>2. CASE \E to : m = Ack(to, "Cancelled")
  BY <1>2 DEF Belongs, Acceptance, Ack
<1>3. CASE m.to = Other(side) /\ m.type \in {"READ", "REQUEST"}
  BY <1>3, OtherSide DEF Belongs, Acceptance, Ack
<1>4. CASE m = Ack("vehicle", "Accepted")
  BY <1>4 DEF Belongs, Acceptance, Ack
<1> QED BY <1>1, <1>2, <1>3, <1>4 DEF UploadOut, DownloadOut

LEMMA OutcomeOut ==
  ASSUME NEW s, NEW m
  PROVE  /\ \A o \in Try(s, m) : o.out = {m} \/ o.out = {}
         /\ \A r : \A o \in Finish(s, m, r) : o.out = {m} \/ o.out = {}
         /\ \A o \in Quietly(s) : o.item = s /\ o.out = {}
  BY DEF Try, Finish, Quietly

\* Handlers of an upload to `side`, with a packet k received or none.
LEMMA UploadApart ==
  ASSUME NEW side \in Sides, NEW out, UploadOut(side, out), NEW k, ~Belongs(Other(side), k),
         net' = Sent(net, out) \/ net' = Sent(BagRemove(net, k), out)
  PROVE  Apart(Other(side), net, net')
  BY OutApart, ApartOut, ApartTakenOut

LEMMA DownloadApart ==
  ASSUME NEW side \in Sides, NEW out, DownloadOut(side, out), NEW k, ~Belongs(Other(side), k),
         net' = Sent(net, out) \/ net' = Sent(BagRemove(net, k), out)
  PROVE  Apart(Other(side), net, net')
  BY OutApart, ApartOut, ApartTakenOut

LEMMA SimpleOuts ==
  /\ \A side, p, n : UploadOut(side, {Count(side, p, n)})
  /\ \A side : UploadOut(side, {}) /\ DownloadOut(side, {})
  /\ \A side : UploadOut(side, {Ack(side, "Cancelled")})
  /\ \A side : DownloadOut(side, {Ack(Other(side), "Cancelled")})
  /\ \A side, i : DownloadOut(side, {Read(Other(side), i)})
  /\ \A side : DownloadOut(side, {Ack("vehicle", "Accepted")})
  /\ DownloadOut("station", {Request})
  BY DEF UploadOut, DownloadOut, Count, Read, Request, Other

LEMMA SidesNamed ==
  /\ "station" \in Sides /\ Other("station") = "vehicle"
  /\ "vehicle" \in Sides /\ Other("vehicle") = "station"
  BY DEF Sides, Other

LEMMA CancelPieces ==
  ASSUME NEW Got, NEW s, Inv(s, Got), NEW side, NEW o \in Cancelled(s, Other(side))
  PROVE  UploadOut(Other(side), o.out) /\ DownloadOut(side, o.out)
<1>1. o.out \subseteq {Ack(Other(side), "Cancelled")}
  BY CancelIdles
<1> QED BY <1>1 DEF UploadOut, DownloadOut

\* What the vehicle's download sends is no COUNT.
LEMMA DownloadCalm ==
  ASSUME NEW out, DownloadOut("vehicle", out), NEW k,
         \/ net' = Sent(net, out)
         \/ ~IsCount(k) /\ net' = Sent(BagRemove(net, k), out)
  PROVE  Calm(net, net')
<1>1. \A m \in out : ~IsCount(m)
  BY SidesNamed DEF DownloadOut, IsCount, Ack
<1> QED BY <1>1, CalmOut

\* Whatever the station's upload does is apart from its download ...
LEMMA StationUploadApart ==
  ASSUME IInv, StationUpload
  PROVE  Apart("station", net, net') /\ UNCHANGED <<duplicates, down, uploads, downloads>>
<1> DEFINE Goal == Apart("station", net, net') /\ UNCHANGED <<duplicates, down, uploads, downloads>>
<1>0. UploadInv(up) /\ Inv(up, Acks)
  BY DEF IInv, UploadInv
<1>a. ASSUME NEW outcomes, Ups(outcomes, net), \A o \in outcomes : UploadOut("vehicle", o.out)
      PROVE  Goal
  <2>1. PICK o \in outcomes : net' = Sent(net, o.out)
    BY <1>a DEF Ups
  <2>2. ~Belongs("station", Acceptance)
    BY PacketsOfOther, SidesNamed DEF Acceptance
  <2>3. Apart("station", net, net')
    BY <1>a, <2>1, <2>2, SidesNamed, UploadApart
  <2> QED BY <1>a, <2>3 DEF Ups, callVars
<1>b. ASSUME NEW k, ~Belongs("station", k), NEW outcomes, Ups(outcomes, Without(k)),
             \A o \in outcomes : UploadOut("vehicle", o.out)
      PROVE  Goal
  <2>1. PICK o \in outcomes : net' = Sent(BagRemove(net, k), o.out)
    BY <1>b DEF Ups, Without
  <2>3. Apart("station", net, net')
    BY <1>b, <2>1, SidesNamed, UploadApart
  <2> QED BY <1>b, <2>3 DEF Ups, callVars
<1>c. ASSUME NEW s, NEW o \in Quietly(s) \cup SendCount(s, "vehicle")
      PROVE  UploadOut("vehicle", o.out)
  <2>1. o.out = {} \/ o.out = {Count("vehicle", s.list.plan, Len(s.list.items))}
    BY OutcomeOut DEF SendCount
  <2> QED BY <2>1, SimpleOuts
<1>1. CASE CancelUpload
  <2>1. ASSUME NEW o \in Cancelled(up, "vehicle") PROVE UploadOut("vehicle", o.out)
    BY <1>0, CancelPieces, SidesNamed
  <2> QED BY <1>1, <1>a, <2>1 DEF CancelUpload
<1>2. CASE StartUpload
  <2>1. \E s : Ups(Quietly(s), net) \/ Ups(SendCount(s, "vehicle"), net)
    BY <1>2 DEF StartUpload
  <2> QED BY <1>a, <1>c, <2>1
<1>3. CASE ExpireUpload
  <2>1. \E s : Ups(Quietly(s), net)
    BY <1>3 DEF ExpireUpload
  <2> QED BY <1>a, <1>c, <2>1
<1>4. CASE TimeoutUpload
  <2>1. \E s : Ups(Quietly(s), net) \/ Ups(SendCount(s, "vehicle"), net)
    BY <1>4 DEF TimeoutUpload
  <2> QED BY <1>a, <1>c, <2>1
<1>5. ASSUME NEW i \in SeqNumbers, StationRead(i) PROVE Goal
  <2>1. \A o \in Serve(up, i, "vehicle") : UploadOut("vehicle", o.out)
    BY <1>0, ServePieces
  <2>2. ~Belongs("station", Read("station", i))
    BY PacketsOfOther, SidesNamed
  <2> QED BY <1>5, <1>b, <2>1, <2>2 DEF StationRead
<1>6. ASSUME NEW a \in AckTypes, StationAck(a) PROVE Goal
  <2>1. \E s : Ups(Quietly(s), Without(Ack("station", a)))
    BY <1>6 DEF StationAck, Acknowledged
  <2>2. ~Belongs("station", Ack("station", a))
    BY PacketsOfOther, SidesNamed
  <2> QED BY <1>b, <1>c, <2>1, <2>2
<1> QED BY <1>1, <1>2, <1>3, <1>4, <1>5, <1>6 DEF StationUpload

\* ... its download from its upload, ...
LEMMA StationDownloadApart ==
  ASSUME IInv, StationDownload
  PROVE  Apart("vehicle", net, net') /\ UNCHANGED <<duplicates, up, uploads, downloads>>
<1> DEFINE Goal == Apart("vehicle", net, net') /\ UNCHANGED <<duplicates, up, uploads, downloads>>
<1>0. Inv(down, Gathered)
  BY DEF IInv
<1>a. ASSUME NEW outcomes, Downs(outcomes, net), \A o \in outcomes : DownloadOut("station", o.out)
      PROVE  Goal
  <2>1. PICK o \in outcomes : net' = Sent(net, o.out)
    BY <1>a DEF Downs
  <2>2. ~Belongs("vehicle", Acceptance)
    BY PacketsOfOther, SidesNamed DEF Acceptance
  <2>3. Apart("vehicle", net, net')
    BY <1>a, <2>1, <2>2, SidesNamed, DownloadApart
  <2> QED BY <1>a, <2>3 DEF Downs, callVars
<1>b. ASSUME NEW k, ~Belongs("vehicle", k), NEW outcomes, Downs(outcomes, Without(k)),
             \A o \in outcomes : DownloadOut("station", o.out)
      PROVE  Goal
  <2>1. PICK o \in outcomes : net' = Sent(BagRemove(net, k), o.out)
    BY <1>b DEF Downs, Without
  <2>3. Apart("vehicle", net, net')
    BY <1>b, <2>1, SidesNamed, DownloadApart
  <2> QED BY <1>b, <2>3 DEF Downs, callVars
<1>c. ASSUME NEW s, NEW o \in Quietly(s) \cup Try(s, Request) \cup RequestItem(s, "vehicle")
      PROVE  DownloadOut("station", o.out)
  <2>1. o.out = {} \/ o.out = {Request} \/ o.out = {Read("vehicle", s.next)}
    BY OutcomeOut DEF RequestItem
  <2> QED BY <2>1, SimpleOuts, SidesNamed
<1>1. CASE CancelDownload
  <2>1. ASSUME NEW o \in Cancelled(down, "vehicle") PROVE DownloadOut("station", o.out)
    BY <1>0, CancelPieces, SidesNamed
  <2> QED BY <1>1, <1>a, <2>1 DEF CancelDownload
<1>2. CASE StartDownload
  <2>1. \E s : Downs(Try(s, Request), net)
    BY <1>2 DEF StartDownload
  <2> QED BY <1>a, <1>c, <2>1
<1>3. CASE ExpireDownload
  <2>1. \E s : Downs(Quietly(s), net)
    BY <1>3 DEF ExpireDownload
  <2> QED BY <1>a, <1>c, <2>1
<1>4. CASE TimeoutDownload
  <2>1. \E s : \/ Downs(Quietly(s), net) \/ Downs(Try(s, Request), net)
               \/ Downs(RequestItem(s, "vehicle"), net)
    BY <1>4 DEF TimeoutDownload
  <2> QED BY <1>a, <1>c, <2>1
<1>5. ASSUME NEW p \in Plans, NEW n \in SeqNumbers, StationCount(p, n) PROVE Goal
  <2>1. ~Belongs("vehicle", Count("station", p, n))
    BY PacketsOfOther, SidesNamed
  <2>2. CASE n = 0
    <3> DEFINE outcomes == {[o EXCEPT !.item = RemoveTimeout(@)] : o \in Accepted(down)}
    <3>1. ASSUME NEW q \in outcomes PROVE DownloadOut("station", q.out)
      <4>1. PICK o \in Accepted(down) : q = [o EXCEPT !.item = RemoveTimeout(@)]
        BY <3>1
      <4>2. PICK s, out : o = [item |-> s, out |-> out] /\ (out = {Ack("vehicle", "Accepted")} \/ out = {})
        BY <4>1 DEF Accepted, Finish
      <4> QED BY <4>1, <4>2, SimpleOuts
    <3>2. Downs(outcomes, Without(Count("station", p, n)))
      BY <1>5, <2>2 DEF StationCount
    <3> QED BY <1>b, <2>1, <3>1, <3>2
  <2>3. CASE n # 0
    <3>1. \E s : Downs(RequestItem(s, "vehicle"), Without(Count("station", p, n)))
      BY <1>5, <2>3 DEF StationCount
    <3> QED BY <1>b, <1>c, <2>1, <3>1
  <2> QED BY <2>2, <2>3
<1>6. ASSUME NEW i \in SeqNumbers, NEW w \in Names, StationItem(i, w) PROVE Goal
  <2>1. ASSUME NEW o, o \in Collect(down, Item("station", i, w), "vehicle")
        PROVE  DownloadOut("station", o.out)
    <3>1. \/ o.out = {Ack("vehicle", "Accepted")} \/ o.out = {}
          \/ o.out = {Read("vehicle", i + 1)}
      <4>1. o \in Collect(down, Item("station", i, w), Other("station")) /\ "station" \in Sides
        BY <2>1, SidesNamed
      <4>2. \/ o.out = {Ack("vehicle", "Accepted")} \/ o.out = {}
            \/ o.out = {Read(Other("station"), i + 1)}
        BY <1>0, <4>1, CollectPieces
      <4> QED BY <4>2, SidesNamed
    <3> QED BY <3>1, SimpleOuts, SidesNamed
  <2>2. ~Belongs("vehicle", Item("station", i, w))
    BY PacketsOfOther, SidesNamed
  <2> QED BY <1>6, <1>b, <2>1, <2>2 DEF StationItem
<1> QED BY <1>1, <1>2, <1>3, <1>4, <1>5, <1>6 DEF StationDownload
-----------------------------------------------------------------------------
\* ... and the same on the vehicle.
LEMMA VehicleUploadApart ==
  ASSUME IInv, VehicleUpload
  PROVE  /\ Apart("vehicle", net, net')
         /\ UNCHANGED <<duplicates, vdown, owed, vuploads, vdownloads>>
<1> DEFINE Goal == /\ Apart("vehicle", net, net')
                   /\ UNCHANGED <<duplicates, vdown, owed, vuploads, vdownloads>>
<1>0. UploadInv(vup) /\ Inv(vup, Acks)
  BY DEF IInv, UploadInv
<1>a. ASSUME NEW outcomes, VUps(outcomes, net), \A o \in outcomes : UploadOut("station", o.out)
      PROVE  Goal
  <2>1. PICK o \in outcomes : net' = Sent(net, o.out)
    BY <1>a DEF VUps
  <2>2. ~Belongs("vehicle", Acceptance)
    BY PacketsOfOther, SidesNamed DEF Acceptance
  <2>3. Apart("vehicle", net, net')
    BY <1>a, <2>1, <2>2, SidesNamed, UploadApart
  <2> QED BY <1>a, <2>3 DEF VUps, servedVars
<1>b. ASSUME NEW k, ~Belongs("vehicle", k), NEW outcomes, VUps(outcomes, Without(k)),
             \A o \in outcomes : UploadOut("station", o.out)
      PROVE  Goal
  <2>1. PICK o \in outcomes : net' = Sent(BagRemove(net, k), o.out)
    BY <1>b DEF VUps, Without
  <2>3. Apart("vehicle", net, net')
    BY <1>b, <2>1, SidesNamed, UploadApart
  <2> QED BY <1>b, <2>3 DEF VUps, servedVars
<1>c. ASSUME NEW s, NEW o \in Quietly(s) \cup SendCount(s, "station")
      PROVE  UploadOut("station", o.out)
  <2>1. o.out = {} \/ o.out = {Count("station", s.list.plan, Len(s.list.items))}
    BY OutcomeOut DEF SendCount
  <2> QED BY <2>1, SimpleOuts
<1>1. CASE VehicleCancelUpload
  <2>1. ASSUME NEW o \in Cancelled(vup, "station") PROVE UploadOut("station", o.out)
    BY <1>0, CancelPieces, SidesNamed
  <2> QED BY <1>1, <1>a, <2>1 DEF VehicleCancelUpload
<1>2. CASE VehicleStartUpload
  <2>1. \E s : VUps(Quietly(s), net) \/ VUps(SendCount(s, "station"), net)
    BY <1>2 DEF VehicleStartUpload
  <2> QED BY <1>a, <1>c, <2>1
<1>3. CASE VehicleExpireUpload
  <2>1. \E s : VUps(Quietly(s), net)
    BY <1>3 DEF VehicleExpireUpload
  <2> QED BY <1>a, <1>c, <2>1
<1>4. CASE VehicleTimeoutUpload
  <2>1. \E s : VUps(Quietly(s), net)
    BY <1>4 DEF VehicleTimeoutUpload
  <2> QED BY <1>a, <1>c, <2>1
<1>5. ASSUME NEW i \in SeqNumbers, VehicleRead(i) PROVE Goal
  <2>1. \A o \in Serve(vup, i, "station") : UploadOut("station", o.out)
    BY <1>0, ServePieces
  <2>2. ~Belongs("vehicle", Read("vehicle", i))
    BY PacketsOfOther, SidesNamed
  <2> QED BY <1>5, <1>b, <2>1, <2>2 DEF VehicleRead
<1>6. ASSUME NEW a \in AckTypes, VehicleAck(a) PROVE Goal
  <2>1. \E s : VUps(Quietly(s), Without(Ack("vehicle", a)))
    BY <1>6 DEF VehicleAck, Acknowledged
  <2>2. ~Belongs("vehicle", Ack("vehicle", a))
    BY PacketsOfOther, SidesNamed
  <2> QED BY <1>b, <1>c, <2>1, <2>2
<1> QED BY <1>1, <1>2, <1>3, <1>4, <1>5, <1>6 DEF VehicleUpload

LEMMA VehicleDownloadApart ==
  ASSUME IInv, VehicleDownload
  PROVE  /\ Apart("station", net, net') /\ Calm(net, net')
         /\ UNCHANGED <<duplicates, vup, vuploads, vdownloads>>
<1> DEFINE Goal == /\ Apart("station", net, net') /\ Calm(net, net')
                   /\ UNCHANGED <<duplicates, vup, vuploads, vdownloads>>
<1>0. Inv(vdown, Gathered)
  BY DEF IInv
<1>a. ASSUME NEW outcomes, VDowns(outcomes, net), \A o \in outcomes : DownloadOut("vehicle", o.out)
      PROVE  Goal
  <2>1. PICK o \in outcomes : net' = Sent(net, o.out)
    BY <1>a DEF VDowns
  <2>2. ~Belongs("station", Acceptance)
    BY PacketsOfOther, SidesNamed DEF Acceptance
  <2>3. Apart("station", net, net')
    BY <1>a, <2>1, <2>2, SidesNamed, DownloadApart
  <2>4. Calm(net, net')
    BY <1>a, <2>1, DownloadCalm
  <2> QED BY <1>a, <2>3, <2>4 DEF VDowns, servedVars
<1>b. ASSUME NEW k, ~Belongs("station", k), ~IsCount(k), NEW outcomes, VDowns(outcomes, Without(k)),
             \A o \in outcomes : DownloadOut("vehicle", o.out)
      PROVE  Goal
  <2>1. PICK o \in outcomes : net' = Sent(BagRemove(net, k), o.out)
    BY <1>b DEF VDowns, Without
  <2>3. Apart("station", net, net')
    BY <1>b, <2>1, SidesNamed, DownloadApart
  <2>4. Calm(net, net')
    BY <1>b, <2>1, DownloadCalm
  <2> QED BY <1>b, <2>3, <2>4 DEF VDowns, servedVars
<1>c. ASSUME NEW s, NEW o \in Quietly(s) \cup RequestItem(s, "station")
      PROVE  DownloadOut("vehicle", o.out)
  <2>1. o.out = {} \/ o.out = {Read("station", s.next)}
    BY OutcomeOut DEF RequestItem
  <2> QED BY <2>1, SimpleOuts, SidesNamed
<1>1. CASE VehicleCancelDownload
  <2>1. ASSUME NEW o \in Cancelled(vdown, "station") PROVE DownloadOut("vehicle", o.out)
    BY <1>0, CancelPieces, SidesNamed
  <2> QED BY <1>1, <1>a, <2>1 DEF VehicleCancelDownload
<1>2. CASE VehicleStartDownload
  <2>1. \E s : VDowns(Quietly(s), net) \/ VDowns(RequestItem(s, "station"), net)
    BY <1>2 DEF VehicleStartDownload
  <2> QED BY <1>a, <1>c, <2>1
<1>3. CASE VehicleExpireDownload
  <2>1. \E s : VDowns(Quietly(s), net)
    BY <1>3 DEF VehicleExpireDownload
  <2> QED BY <1>a, <1>c, <2>1
<1>4. CASE VehicleTimeoutDownload
  <2>1. \E s : VDowns(Quietly(s), net) \/ VDowns(RequestItem(s, "station"), net)
    BY <1>4 DEF VehicleTimeoutDownload
  <2> QED BY <1>a, <1>c, <2>1
<1>5. ASSUME NEW i \in SeqNumbers, NEW w \in Names, VehicleItem(i, w) PROVE Goal
  <2>1. ASSUME NEW o, o \in Collect(vdown, Item("vehicle", i, w), "station")
        PROVE  DownloadOut("vehicle", o.out)
    <3>1. o \in Collect(vdown, Item("vehicle", i, w), Other("vehicle")) /\ "vehicle" \in Sides
      BY <2>1, SidesNamed
    <3>2. \/ o.out = {Ack("vehicle", "Accepted")} \/ o.out = {}
          \/ o.out = {Read(Other("vehicle"), i + 1)}
      BY <1>0, <3>1, CollectPieces
    <3> QED BY <3>2, SimpleOuts
  <2>2. ~Belongs("station", Item("vehicle", i, w)) /\ ~IsCount(Item("vehicle", i, w))
    BY PacketsOfOther, SidesNamed DEF IsCount, Item
  <2> QED BY <1>5, <1>b, <2>1, <2>2 DEF VehicleItem
<1> QED BY <1>1, <1>2, <1>3, <1>4, <1>5 DEF VehicleDownload
-----------------------------------------------------------------------------
(***************************************************************************)
(* Steps that carry nothing, of any item.                                  *)
(***************************************************************************)
\* While nothing was begun there is no item that could act.
LEMMA NothingActs ==
  ASSUME NEW s \in {NoUpload, NoDownload}
  PROVE  ~Alive(s) /\ ~s.firing /\ Expired(s) = {} /\ ~s.queued /\ ~s.held
         /\ s.started = FALSE /\ s.resent = FALSE /\ s.next = 0
         /\ s.result.result = NoResult
  BY DEF NoUpload, NoDownload, NoWork, Alive, Expired

\* The packets of a transfer do not change when acknowledgements travel.
LEMMA AcksAlike ==
  ASSUME NEW side \in Sides, NEW link, NEW to, NEW a, NEW out, NEW to2, NEW a2,
         out = {Ack(to, a)} \/ out = {}
  PROVE  /\ Alike(side, link, Sent(link, out))
         /\ Alike(side, link, Sent(BagRemove(link, Ack(to2, a2)), out))
<1>1. \A m \in out : ~Belongs(side, m)
  BY PacketsOfOther
<1>2. Alike(side, link, BagRemove(link, Ack(to2, a2)))
  BY TakenForeign, PacketsOfOther
<1>3. \A x : Alike(side, x, Sent(x, out))
  BY <1>1, GivenForeign
<1> QED BY <1>2, <1>3, AlikeChain

\* process_inspection_ack()
LEMMA AcknowledgedPieces ==
  ASSUME NEW s, UploadInv(s), NEW a, NEW o \in Acknowledged(s, a)
  PROVE  /\ SameUpload(s, o.item) /\ o.out = {}
         /\ o.item.got = a /\ (o.item.result = s.result \/ o.item.result.got = a)
<1> DEFINE q == RemoveTimeout(s)
           t == [q EXCEPT !.got = a]
           r == IF s.next = Len(s.list.items) THEN "Success" ELSE "ProtocolError"
           x == [result |-> r, got |-> t.got]
           n == IF t.callback THEN t.reports + 1 ELSE t.reports
           b == IF t.callback THEN x ELSE t.result
           u == Report(t, r)
<1>0. s \in Work(Acks)
  BY ItemOf DEF UploadInv
<1>1. q \in Work(Acks) /\ Keeps(s, q) /\ SameReports(s, q)
  BY <1>0, TimerPieces
<1>2. o = [item |-> u, out |-> {}]
  BY DEF Acknowledged, Quietly
<1>3. u = [t EXCEPT !.reports = n, !.result = b, !.callback = FALSE, !.done = TRUE]
  BY DEF Report, CallbackAndReset
<1> HIDE DEF q, r
<1>4. /\ t.list = q.list /\ t.next = q.next /\ t.started = q.started /\ t.resent = q.resent
      /\ t.got = a /\ t.result = q.result
  BY <1>1 DEF Work
<1>5. b = q.result \/ b.got = a
  BY <1>4
<1> HIDE DEF n, b, u
<1>6. /\ u.list = t.list /\ u.next = t.next /\ u.started = t.started /\ u.resent = t.resent
      /\ u.got = t.got /\ u.result = b
  BY <1>1, <1>3 DEF Work
<1> HIDE DEF t
<1> QED BY <1>1, <1>2, <1>4, <1>5, <1>6 DEF Keeps, SameReports, SameUpload

\* The vehicle's process_timeout() of an upload.
LEMMA TimeoutIdles ==
  ASSUME NEW Got, NEW s, Inv(s, Got)
  PROVE  Idles(s, Report([s EXCEPT !.firing = FALSE], "Timeout"))
<1> DEFINE t == [s EXCEPT !.firing = FALSE]
<1>0. s \in Work(Got) /\ (s.callback <=> ~s.done)
  BY ItemOf
<1>1. t \in Work(Got) /\ Keeps(s, t) /\ SameReports(s, t)
  BY <1>0 DEF Work, Keeps, SameReports
<1> HIDE DEF t
<1>2. Idles(s, Report(t, "Timeout"))
  BY <1>0, <1>1, FailsLater
<1> QED BY <1>2 DEF t

\* What stays of a download that repeats a packet: it is marked.
LEMMA RepeatMarks ==
  ASSUME NEW Got, NEW s, Inv(s, Got), NEW m,
         NEW o \in Try(AddTimeout([[s EXCEPT !.firing = FALSE] EXCEPT !.resent = TRUE]), m)
  PROVE  o.item.resent = TRUE /\ o.item.list = s.list /\ SameAck(s, o.item)
         /\ o.item.started = s.started
<1> DEFINE r == [s EXCEPT !.firing = FALSE]
           t == [r EXCEPT !.resent = TRUE]
           u == AddTimeout(t)
<1>0. s \in Work(Got) /\ (s.callback <=> ~s.done)
  BY ItemOf
<1>1. /\ t \in Work(Got) /\ t.resent = TRUE /\ SameReports(s, t)
      /\ t.list = s.list /\ t.got = s.got /\ t.started = s.started
  BY <1>0 DEF Work, SameReports
<1> HIDE DEF t
<1>2. u \in Work(Got) /\ Keeps(t, u) /\ SameReports(t, u)
  BY <1>1, TimerPieces
<1>3. o \in Try(u, m)
  BY DEF t
<1> HIDE DEF u
<1>4. u.callback <=> ~u.done
  BY <1>0, <1>1, <1>2 DEF SameReports
<1>5. Idles(u, o.item)
  BY <1>2, <1>3, <1>4, TryIdles
<1> QED BY <1>1, <1>2, <1>5 DEF Idles, Keeps, SameReports, SameAck
-----------------------------------------------------------------------------
(***************************************************************************)
(* The station's download.                                                 *)
(***************************************************************************)
\* Nothing has been repeated, and no second download begun.
CleanDown == downloads <= 1 /\ duplicates = 0 /\ ~down.resent

Asked == OnlyIn("station", net, Request) /\ vuploads = 0 /\ down.got = NoList

\* The REQUEST was ignored, or never sent.
Ignored == NoneIn("station", net) /\ vuploads = 0

Begun ==
  /\ NoneIn("station", net) /\ vuploads = 1
  /\ ~vup.started /\ vup.next = 0 /\ down.got = NoList

CountSent == Announced("station", vup, net) /\ vuploads = 1 /\ down.got = NoList

Flowing == vuploads = 1 /\ Flow("station", vup, down, net)

DownStage == Asked \/ Ignored \/ Begun \/ CountSent \/ Flowing

DownComplete == vuploads = 1 /\ Complete("station", vup, down, net)

DownTurn ==
  /\ downloads = 0 => down = NoDownload
  /\ vuploads = 0 => vup = NoUpload
  /\ CleanDown /\ ~down.started => Ignored
  /\ CleanDown /\ down.started => DownStage
  /\ CleanDown /\ down.result.result = "Success" => DownComplete

\* Steps that leave the transfer where it is.
LEMMA DownStays ==
  ASSUME DownTurn, Alike("station", net, net'), SameUpload(vup, vup'), Idles(down, down'),
         UNCHANGED <<downloads, vuploads, duplicates>>,
         downloads = 0 => down' = down, vuploads = 0 => vup' = vup
  PROVE  DownTurn'
<1>1. Keeps(down, down')
  BY DEF Idles
<1>2. "station" \in Sides
  BY SidesNamed
<1>3. NoneIn("station", net) => NoneIn("station", net')
  BY AlikeLinks
<1>4. \A m : OnlyIn("station", net, m) => OnlyIn("station", net', m)
  BY AlikeLinks
<1>5. /\ Announced("station", vup, net) => Announced("station", vup', net')
      /\ Flow("station", vup, down, net) => Flow("station", vup', down', net')
  BY <1>1, <1>2, FlowStays
<1>6. /\ down'.got = down.got /\ down'.started = down.started /\ down'.resent = down.resent
      /\ vup'.started = vup.started /\ vup'.next = vup.next
  BY <1>1 DEF Keeps, SameUpload
<1>7. DownStage => DownStage'
  BY <1>3, <1>4, <1>5, <1>6 DEF DownStage, Asked, Ignored, Begun, CountSent, Flowing
<1>8. Ignored => Ignored'
  BY <1>3 DEF Ignored
<1>9. CleanDown' => CleanDown
  BY <1>6 DEF CleanDown
<1>10. ASSUME DownComplete, down'.result = down.result, down'.done = down.done PROVE DownComplete'
  BY <1>2, <1>6, <1>10, CompleteStays DEF DownComplete
<1>11. down'.result.result = "Success" => down'.result = down.result /\ down'.done = down.done
  BY DEF Idles
<1> QED BY <1>6, <1>7, <1>8, <1>9, <1>10, <1>11 DEF DownTurn

\* With a packet of the transfer under way it has started and not succeeded.
LEMMA DownTells ==
  ASSUME DownTurn, CleanDown, NEW m \in DOMAIN net, Belongs("station", m)
  PROVE  /\ down.started /\ down.result.result # "Success"
         /\ Asked \/ CountSent \/ Flowing
<1>1. ~NoneIn("station", net)
  BY DEF NoneIn
<1> QED BY <1>1 DEF DownTurn, DownStage, Ignored, Begun, DownComplete, Complete, Over

LEMMA FlowTells ==
  ASSUME NEW side \in Sides, NEW s, NEW d, NEW link, Flow(side, s, d, link),
         NEW m \in DOMAIN link, Belongs(side, m)
  PROVE  m.type \in {"READ", "ITEM"}
<1>1. ~Over(side, s, d, link)
  BY DEF Over, NoneIn
<1>2. CASE Reading(side, s, d, link)
  BY <1>2 DEF Reading, OnlyIn, Read
<1>3. CASE Answered(side, s, d, link)
  BY <1>3 DEF Answered, OnlyIn, Item
<1> QED BY <1>1, <1>2, <1>3 DEF Flow

LEMMA AnnouncedTells ==
  ASSUME NEW side \in Sides, NEW s, NEW link, Announced(side, s, link),
         NEW m \in DOMAIN link, Belongs(side, m)
  PROVE  m = Count(side, s.list.plan, Len(s.list.items))
  BY DEF Announced, OnlyIn
-----------------------------------------------------------------------------
\* Handlers of the station's download that carry nothing.
LEMMA DownQuiet ==
  ASSUME IInv, DownTurn, UNCHANGED <<vup, vuploads>>,
         CancelDownload \/ HoldDownload \/ PopDownload \/ ExpireDownload
  PROVE  DownTurn'
<1>0. Inv(down, Gathered) /\ "station" \in Sides /\ SameUpload(vup, vup')
  BY SidesNamed DEF IInv, SameUpload
<1>1. downloads = 0 => ~down.queued /\ ~down.held /\ Expired(down) = {}
  BY NothingActs DEF DownTurn
<1>2. CASE CancelDownload
  <2>1. PICK o \in Cancelled(down, "vehicle") : down' = o.item /\ net' = Sent(net, o.out)
    BY <1>2 DEF CancelDownload, Downs
  <2>2. down.held /\ UNCHANGED <<duplicates, downloads>>
    BY <1>2 DEF CancelDownload, Downs, callVars
  <2>3. Idles(down, down') /\ (o.out = {Ack("vehicle", "Cancelled")} \/ o.out = {})
    BY <1>0, <2>1, CancelIdles
  <2>4. Alike("station", net, net')
    BY <1>0, <2>1, <2>3, AcksAlike
  <2> QED BY <1>0, <1>1, <2>2, <2>3, <2>4, DownStays
<1>3. CASE HoldDownload
  <2>1. down' = Held(down) /\ down.queued /\ UNCHANGED <<net, duplicates, downloads>>
    BY <1>3 DEF HoldDownload, CanHold, linkVars
  <2>2. Idles(down, down')
    BY <1>0, <2>1, HoldIdles
  <2>3. Alike("station", net, net')
    BY <2>1 DEF Alike
  <2> QED BY <1>0, <1>1, <2>1, <2>2, <2>3, DownStays
<1>4. CASE PopDownload
  <2>1. down' = Popped(down) /\ down.queued /\ UNCHANGED <<net, duplicates, downloads>>
    BY <1>4 DEF PopDownload, CanPop, linkVars, callVars
  <2>2. Idles(down, down')
    BY <1>0, <2>1, PopIdles
  <2>3. Alike("station", net, net')
    BY <2>1 DEF Alike
  <2> QED BY <1>0, <1>1, <2>1, <2>2, <2>3, DownStays
<1>5. CASE ExpireDownload
  <2>1. /\ down' \in Expired(down) /\ net' = Sent(net, {}) /\ UNCHANGED <<duplicates, downloads>>
    BY <1>5 DEF ExpireDownload, Downs, Quietly, callVars
  <2>2. Idles(down, down')
    BY <1>0, <2>1, ExpireIdles
  <2>3. Alike("station", net, net')
    BY <1>0, <2>1, AcksAlike
  <2> QED BY <1>0, <1>1, <2>1, <2>2, <2>3, DownStays
<1> QED BY <1>2, <1>3, <1>4, <1>5

\* Handlers of the vehicle's upload that carry nothing.
LEMMA VupQuiet ==
  ASSUME IInv, DownTurn, UNCHANGED <<down, downloads>>,
         \/ VehicleCancelUpload \/ VehicleHoldUpload \/ VehiclePopUpload \/ VehicleExpireUpload
         \/ VehicleTimeoutUpload \/ \E a \in AckTypes : VehicleAck(a)
  PROVE  DownTurn'
<1>0. UploadInv(vup) /\ Inv(vup, Acks) /\ "station" \in Sides /\ Idles(down, down')
  BY SidesNamed DEF IInv, UploadInv, Idles, Keeps
<1>1. vuploads = 0 => /\ ~vup.queued /\ ~vup.held /\ Expired(vup) = {}
                      /\ ~Alive(vup) /\ ~vup.firing
  BY NothingActs DEF DownTurn
<1>2. CASE VehicleCancelUpload
  <2>1. PICK o \in Cancelled(vup, "station") : vup' = o.item /\ net' = Sent(net, o.out)
    BY <1>2 DEF VehicleCancelUpload, VUps
  <2>2. vup.held /\ UNCHANGED <<duplicates, vuploads>>
    BY <1>2 DEF VehicleCancelUpload, VUps, servedVars
  <2>3. Idles(vup, vup') /\ (o.out = {Ack("station", "Cancelled")} \/ o.out = {})
    BY <1>0, <2>1, CancelIdles
  <2>4. Alike("station", net, net')
    BY <1>0, <2>1, <2>3, AcksAlike
  <2> QED BY <1>0, <1>1, <2>2, <2>3, <2>4, IdlesUploads, DownStays
<1>3. CASE VehicleHoldUpload
  <2>1. vup' = Held(vup) /\ vup.queued /\ UNCHANGED <<net, duplicates, vuploads>>
    BY <1>3 DEF VehicleHoldUpload, CanHold, linkVars
  <2>2. Idles(vup, vup')
    BY <1>0, <2>1, HoldIdles
  <2>3. Alike("station", net, net')
    BY <2>1 DEF Alike
  <2> QED BY <1>0, <1>1, <2>1, <2>2, <2>3, IdlesUploads, DownStays
<1>4. CASE VehiclePopUpload
  <2>1. vup' = Popped(vup) /\ vup.queued /\ UNCHANGED <<net, duplicates, vuploads>>
    BY <1>4 DEF VehiclePopUpload, CanPop, linkVars, servedVars
  <2>2. Idles(vup, vup')
    BY <1>0, <2>1, PopIdles
  <2>3. Alike("station", net, net')
    BY <2>1 DEF Alike
  <2> QED BY <1>0, <1>1, <2>1, <2>2, <2>3, IdlesUploads, DownStays
<1>5. CASE VehicleExpireUpload
  <2>1. /\ vup' \in Expired(vup) /\ net' = Sent(net, {}) /\ UNCHANGED <<duplicates, vuploads>>
    BY <1>5 DEF VehicleExpireUpload, VUps, Quietly, servedVars
  <2>2. Idles(vup, vup')
    BY <1>0, <2>1, ExpireIdles
  <2>3. Alike("station", net, net')
    BY <1>0, <2>1, AcksAlike
  <2> QED BY <1>0, <1>1, <2>1, <2>2, <2>3, IdlesUploads, DownStays
<1>6. CASE VehicleTimeoutUpload
  <2>1. /\ vup' = Report([vup EXCEPT !.firing = FALSE], "Timeout") /\ vup.firing
        /\ net' = Sent(net, {}) /\ UNCHANGED <<duplicates, vuploads>>
    BY <1>6 DEF VehicleTimeoutUpload, VUps, Quietly, servedVars
  <2>2. Idles(vup, vup')
    BY <1>0, <2>1, TimeoutIdles
  <2>3. Alike("station", net, net')
    BY <1>0, <2>1, AcksAlike
  <2> QED BY <1>0, <1>1, <2>1, <2>2, <2>3, IdlesUploads, DownStays
<1>7. ASSUME NEW a \in AckTypes, VehicleAck(a) PROVE DownTurn'
  <2>1. PICK o \in Acknowledged(vup, a) :
          vup' = o.item /\ net' = Sent(BagRemove(net, Ack("vehicle", a)), o.out)
    BY <1>7 DEF VehicleAck, VUps, Without
  <2>2. Alive(vup) /\ UNCHANGED <<duplicates, vuploads>>
    BY <1>7 DEF VehicleAck, VUps, servedVars, Hears
  <2>3. SameUpload(vup, vup') /\ o.out = {}
    BY <1>0, <2>1, AcknowledgedPieces
  <2>4. Alike("station", net, net')
    BY <1>0, <2>1, <2>3, AcksAlike
  <2> QED BY <1>0, <1>1, <2>2, <2>3, <2>4, DownStays
<1> QED BY <1>2, <1>3, <1>4, <1>5, <1>6, <1>7

\* Steps of neither item.
LEMMA DownApart ==
  ASSUME DownTurn, Alike("station", net, net'),
         UNCHANGED <<down, downloads, vup, vuploads, duplicates>>
  PROVE  DownTurn'
<1>1. SameUpload(vup, vup') /\ Idles(down, down')
  BY DEF SameUpload, Idles, Keeps
<1> QED BY <1>1, DownStays
-----------------------------------------------------------------------------
\* A constructor begins from nothing but the timers that were lost.
LEMMA FreshPieces ==
  ASSUME NEW s, NEW h, NEW n \in {NoUpload, NoDownload}
  PROVE  LET f == Fresh(n, s, h) IN
         /\ f.started = FALSE /\ f.resent = FALSE /\ f.next = 0
         /\ f.result = n.result /\ f.got = n.got /\ f.list = n.list /\ f.done = FALSE
         /\ f.expected = 0
  BY DEF Fresh, NoUpload, NoDownload, NoWork

\* download_inspection_async()
LEMMA DownTurnNew ==
  ASSUME DownTurn, downloads \in Nat, Download, UNCHANGED <<vup, vuploads>>
  PROVE  DownTurn'
<1>1. /\ downloads' = downloads + 1 /\ UNCHANGED <<net, duplicates>>
      /\ down' = Fresh(NoDownload, down, {"COUNT", "ITEM"})
  BY DEF Download, linkVars
<1>2. /\ down'.started = FALSE /\ down'.resent = FALSE
      /\ down'.result = NoDownload.result
  BY <1>1, FreshPieces
<1>3. down'.result.result # "Success"
  BY <1>2, NothingActs DEF NoResult
<1>4. CleanDown' => CleanDown /\ ~down.started
  <2>1. CleanDown' => downloads = 0 /\ duplicates = 0
    BY <1>1 DEF CleanDown
  <2>2. downloads = 0 => ~down.started /\ ~down.resent
    BY NothingActs DEF DownTurn
  <2> QED BY <2>1, <2>2 DEF CleanDown
<1>5. Ignored => Ignored'
  BY <1>1 DEF Ignored
<1>6. downloads' # 0
  BY <1>1
<1> QED BY <1>2, <1>3, <1>4, <1>5, <1>6 DEF DownTurn

\* start(): the REQUEST goes out.
LEMMA DownTurnStart ==
  ASSUME IInv, DownTurn, StartDownload, UNCHANGED <<vup, vuploads>>
  PROVE  DownTurn'
<1> DEFINE s == [down EXCEPT !.got = NoList, !.started = TRUE, !.retries = 0]
           t == AddTimeout(s)
<1>0. down \in Work(Gathered) /\ (down.callback <=> ~down.done)
  BY ItemOf DEF IInv
<1>1a. CanStart(down) /\ Downs(Try(t, Request), net)
  BY DEF StartDownload
<1>1. PICK o \in Try(t, Request) : down' = o.item /\ net' = Sent(net, o.out)
  BY <1>1a DEF Downs
<1>2. down.queued /\ ~down.started /\ UNCHANGED <<duplicates, downloads>>
  BY <1>1a DEF Downs, CanStart, callVars
<1>3. /\ s \in Work(Gathered) /\ SameReports(down, s) /\ s.got = NoList
      /\ s.started = TRUE /\ s.resent = down.resent
  BY <1>0, NoListTyped DEF Work, SameReports
<1> HIDE DEF s
<1>4. t \in Work(Gathered) /\ Keeps(s, t) /\ SameReports(s, t)
  BY <1>3, TimerPieces
<1> HIDE DEF t
<1>5. t.callback <=> ~t.done
  BY <1>0, <1>3, <1>4 DEF SameReports
<1>6. Idles(t, down') /\ (o.out = {Request} \/ o.out = {})
  BY <1>1, <1>4, <1>5, TryIdles
<1>7. down'.got = NoList /\ down'.started = TRUE /\ down'.resent = down.resent
  BY <1>3, <1>4, <1>6 DEF Idles, Keeps
<1>8. down'.result = down.result \/ down'.result.result # "Success"
  BY <1>3, <1>4, <1>6 DEF Idles, SameReports
<1>9. downloads # 0
  BY <1>2, NothingActs DEF DownTurn
<1>10. CleanDown' => CleanDown /\ Ignored
  BY <1>2, <1>7 DEF CleanDown, DownTurn
<1>11. CleanDown' => down.result.result # "Success"
  BY <1>10 DEF DownTurn, Ignored, DownComplete
<1>12. Ignored => DownStage'
  <2>1. ASSUME Ignored, o.out = {Request} PROVE Asked'
    <3>1. Belongs("station", Request)
      BY DEF Belongs, Request
    <3> QED BY <1>1, <1>7, <2>1, <3>1, Given DEF Ignored, Asked
  <2>2. ASSUME Ignored, o.out = {} PROVE Ignored'
    BY <1>1, <2>2, NothingGiven DEF Ignored
  <2> QED BY <1>6, <2>1, <2>2 DEF DownStage
<1> QED BY <1>2, <1>7, <1>8, <1>9, <1>10, <1>11, <1>12 DEF DownTurn

\* process_timeout(): a packet that is repeated marks the transfer.
LEMMA DownTurnTimeout ==
  ASSUME IInv, DownTurn, TimeoutDownload, UNCHANGED <<vup, vuploads>>
  PROVE  DownTurn'
<1>0. Inv(down, Gathered) /\ "station" \in Sides /\ SameUpload(vup, vup')
  BY SidesNamed DEF IInv, SameUpload
<1>1. down.firing /\ UNCHANGED <<duplicates, downloads>>
  BY DEF TimeoutDownload, Downs, callVars
<1>2. downloads # 0
  BY <1>1, NothingActs DEF DownTurn
<1>3. CASE down.retries >= Retries
  <2>1. down' = Report([down EXCEPT !.firing = FALSE], "Timeout") /\ net' = Sent(net, {})
    BY <1>3 DEF TimeoutDownload, Downs, Quietly
  <2>2. Idles(down, down')
    BY <1>0, <2>1, TimeoutIdles
  <2>3. Alike("station", net, net')
    BY <1>0, <2>1, AcksAlike
  <2> QED BY <1>0, <1>1, <1>2, <2>2, <2>3, DownStays
<1>4. CASE ~(down.retries >= Retries)
  <2>1. PICK m : \E o \in Try(AddTimeout([[down EXCEPT !.firing = FALSE] EXCEPT !.resent = TRUE]), m) :
                   down' = o.item
    BY <1>4 DEF TimeoutDownload, Downs, RequestItem
  <2>2. down'.resent = TRUE
    BY <1>0, <2>1, RepeatMarks
  <2>3. ~CleanDown'
    BY <2>2 DEF CleanDown
  <2> QED BY <1>1, <1>2, <2>3 DEF DownTurn
<1> QED BY <1>3, <1>4
-----------------------------------------------------------------------------
\* What a COUNT that was sent for a list of an accepted length says.
LEMMA CountSays ==
  ASSUME NEW side, NEW p, NEW n \in SeqNumbers, NEW q, NEW k \in Nat, k <= SeqRange,
         Count(side, p, n) = Count(side, q, k)
  PROVE  p = q /\ (IF n = 0 THEN k \in {0, SeqRange} ELSE n = k /\ k < SeqRange)
<1>1. SeqRange \in Nat \ {0} /\ n \in Nat
  BY LinkAssumption DEF SeqNumbers
<1>2. p = q /\ n % SeqRange = k % SeqRange
  BY DEF Count
<1>3. n % SeqRange = n /\ SeqRange % SeqRange = 0
  BY Remainders
<1>4. k < SeqRange => k % SeqRange = k
  <2>1. k < SeqRange => k \in SeqNumbers
    BY <1>1 DEF SeqNumbers
  <2> QED BY <2>1, Remainders
<1> QED BY <1>1, <1>2, <1>3, <1>4

\* process_inspection_count()
LEMMA DownTurnCount ==
  ASSUME IInv, DownTurn, NEW p \in Plans, NEW n \in SeqNumbers, StationCount(p, n),
         UNCHANGED <<vup, vuploads>>
  PROVE  DownTurn'
<1> DEFINE m == Count("station", p, n)
           taken == BagRemove(net, m)
<1>0. /\ Inv(down, Gathered) /\ down \in Work(Gathered) /\ (down.callback <=> ~down.done)
      /\ UploadInv(vup) /\ vup \in Work(Acks)
  BY ItemOf DEF IInv, UploadInv
<1>1. Alive(down) /\ m \in DOMAIN net
  BY DEF StationCount, Hears, UnderWay, BagIn, BagToSet
<1>2. UNCHANGED <<duplicates, downloads>>
  BY DEF StationCount, Downs, callVars
<1>3. downloads # 0
  BY <1>1, NothingActs DEF DownTurn
<1>4. Belongs("station", m)
  BY PacketsOfDirection, SidesNamed
<1>5. ASSUME CleanDown
      PROVE  /\ down.started /\ down.result.result # "Success"
             /\ NoneIn("station", taken) /\ vuploads = 1 /\ vup.started /\ vup.next = 0
             /\ down.got = NoList /\ p = vup.list.plan
             /\ IF n = 0 THEN Len(vup.list.items) \in {0, SeqRange}
                         ELSE n = Len(vup.list.items) /\ Len(vup.list.items) < SeqRange
  <2>1. down.started /\ down.result.result # "Success" /\ (Asked \/ CountSent \/ Flowing)
    BY <1>1, <1>4, <1>5, DownTells
  <2>2. ~Asked
    BY <1>1, <1>4 DEF Asked, OnlyIn, Request, Count
  <2>3. ~Flowing
    BY <1>1, <1>4, FlowTells, SidesNamed DEF Flowing, Count
  <2>4. CountSent
    BY <2>1, <2>2, <2>3
  <2>5. m = Count("station", vup.list.plan, Len(vup.list.items))
    BY <1>1, <1>4, <2>4, AnnouncedTells, SidesNamed DEF CountSent
  <2>6. NoneIn("station", taken)
    BY <2>4, <2>5, Taken DEF CountSent, Announced
  <2>7. Len(vup.list.items) \in Nat /\ Len(vup.list.items) <= SeqRange
    BY <1>0, <2>4, ListOf DEF CountSent, Announced, Numbered
  <2>8. /\ p = vup.list.plan
        /\ IF n = 0 THEN Len(vup.list.items) \in {0, SeqRange}
                    ELSE n = Len(vup.list.items) /\ Len(vup.list.items) < SeqRange
    BY <2>5, <2>7, CountSays
  <2> QED BY <2>1, <2>4, <2>6, <2>8 DEF CountSent, Announced
<1>6. CASE n = 0
  <2>1. PICK x \in {[o EXCEPT !.item = RemoveTimeout(@)] : o \in Accepted(down)} :
          down' = x.item /\ net' = Sent(taken, x.out)
    BY <1>6 DEF StationCount, Downs, Without
  <2>2. PICK o \in Accepted(down) : x = [o EXCEPT !.item = RemoveTimeout(@)]
    BY <2>1
  <2>3. PICK s, out : o = [item |-> s, out |-> out]
    BY <2>2 DEF Accepted, Finish
  <2>4. down' = RemoveTimeout(s) /\ net' = Sent(taken, out)
    BY <2>1, <2>2, <2>3
  <2>5. /\ Keeps(down, s)
        /\ Tells(down, s, "Success") \/ Tells(down, s, "ConnectionError")
        /\ out = {Ack("vehicle", "Accepted")} \/ out = {}
    <3>1. o \in Finish(down, Ack("vehicle", "Accepted"), "Success")
      BY <2>2 DEF Accepted
    <3> QED BY <1>0, <2>3, <3>1, FinishTells
  <2>6. s \in Work(Gathered)
    <3>1. \E r \in Results : s = Report(down, r)
      BY <2>2, <2>3 DEF Accepted, Finish, Results
    <3> QED BY <1>0, <3>1, ReportStep DEF Inv, Core
  <2>7. Keeps(s, down') /\ SameReports(s, down')
    BY <2>4, <2>6, TimerPieces
  <2>8. /\ down'.started = down.started /\ down'.resent = down.resent
        /\ down'.done = TRUE
        /\ \/ down'.result = IF down.done THEN down.result ELSE [result |-> "Success", got |-> down.got]
           \/ down'.result = IF down.done THEN down.result
                             ELSE [result |-> "ConnectionError", got |-> down.got]
    BY <2>5, <2>7 DEF Keeps, SameReports, Tells
  <2>9. CleanDown' => CleanDown
    BY <1>2, <2>8 DEF CleanDown
  <2>10. CleanDown => NoneIn("station", net')
    <3>1. Alike("station", taken, net')
      BY <2>4, <2>5, AcksAlike, SidesNamed
    <3> QED BY <1>5, <3>1, AlikeLinks
  <2>11. CleanDown => Over("station", vup, down', net')
    BY <1>5, <2>8, <2>10 DEF Over
  <2>12. ASSUME CleanDown, down'.result.result = "Success" PROVE DownComplete'
    <3>1. down'.result.got = down.got
      BY <1>5, <2>8, <2>12
    <3>2. SameList(NoList, vup.list)
      BY <1>5, <1>6, <2>12 DEF SameList, NoList
    <3>3. SameList(down'.result.got, vup.list)
      BY <1>5, <2>12, <3>1, <3>2
    <3> QED BY <1>5, <2>8, <2>11, <2>12, <3>3 DEF DownComplete, Complete
  <2>13. CleanDown => DownStage'
    BY <1>5, <2>11 DEF Flow, Flowing, DownStage
  <2> QED BY <1>2, <1>3, <1>5, <2>8, <2>9, <2>12, <2>13 DEF DownTurn
<1>7. CASE n # 0
  <2> DEFINE g == [down.got EXCEPT !.plan = p]
             t == [down EXCEPT !.next = 0, !.step = "RequestItem", !.retries = 0,
                               !.expected = n, !.got.plan = p]
  <2>1. PICK o \in RequestItem(t, "vehicle") : down' = o.item /\ net' = Sent(taken, o.out)
    BY <1>7 DEF StationCount, Downs, Without
  <2>2. g \in Gathered /\ (down.got = NoList => g = [plan |-> p, items |-> <<>>])
    <3>1. down.got \in Gathered
      BY <1>0 DEF Work
    <3>2. g \in Gathered
      BY <3>1 DEF Gathered
    <3> QED BY <3>2 DEF NoList
  <2>3. t = [down EXCEPT !.next = 0, !.step = "RequestItem", !.retries = 0,
                         !.expected = n, !.got = g]
    BY <1>0 DEF Work
  <2>4. n \in Nat /\ "RequestItem" \in Steps
    BY LinkAssumption DEF SeqNumbers, Steps
  <2> HIDE DEF t, g
  <2>5. /\ t \in Work(Gathered) /\ SameReports(down, t) /\ t.next = 0 /\ t.expected = n
        /\ t.got = g /\ t.started = down.started /\ t.resent = down.resent
    BY <1>0, <2>2, <2>3, <2>4 DEF Work, SameReports
  <2>6. (t.callback <=> ~t.done) /\ o \in Try(t, Read("vehicle", 0))
    BY <1>0, <2>1, <2>5 DEF SameReports, RequestItem
  <2>7. Idles(t, down') /\ (o.out = {Read("vehicle", 0)} \/ o.out = {})
    BY <2>1, <2>5, <2>6, TryIdles
  <2>8. /\ down'.started = down.started /\ down'.resent = down.resent /\ down'.next = 0
        /\ down'.expected = n /\ down'.got = g
        /\ down'.result = down.result \/ down'.result.result # "Success"
    BY <2>5, <2>7 DEF Idles, Keeps, SameReports
  <2>9. CleanDown' => CleanDown
    BY <1>2, <2>8 DEF CleanDown
  <2>10. ASSUME CleanDown PROVE Flow("station", vup, down', net')
    <3>1. /\ NoneIn("station", taken) /\ vup.started /\ vup.next = 0 /\ down'.started
          /\ down'.expected = Len(vup.list.items) /\ down'.expected < SeqRange
          /\ down'.got = [plan |-> vup.list.plan, items |-> <<>>]
      BY <1>5, <1>7, <2>2, <2>8, <2>10
    <3>2. o.out = {Read(Other("station"), 0)} \/ o.out = {}
      BY <2>7, SidesNamed
    <3> HIDE DEF taken
    <3> QED BY <1>0, <1>7, <2>1, <2>8, <3>1, <3>2, FlowBegins, SidesNamed
  <2>11. CleanDown => DownStage'
    BY <1>5, <2>10 DEF Flowing, DownStage
  <2> QED BY <1>2, <1>3, <1>5, <2>8, <2>9, <2>11 DEF DownTurn
<1> QED BY <1>6, <1>7

LEMMA CollectKeeps ==
  ASSUME NEW s, Inv(s, Gathered), NEW i \in SeqNumbers, NEW w \in Names, NEW side \in Sides,
         NEW o \in Collect(s, Item(side, i, w), Other(side))
  PROVE  o.item.started = s.started /\ o.item.resent = s.resent
<1>1. /\ o.item.expected = s.expected /\ o.item.started = s.started
      /\ o.item.resent = s.resent /\ o.item.got.plan = s.got.plan
      /\ o.item.got.items = Append(s.got.items, [seq |-> i, name |-> w])
      /\ Concludes(s, o.item)
      /\ s.next + 1 = s.expected =>
           o.out = {Ack("vehicle", "Accepted")} \/ o.out = {}
      /\ s.next + 1 # s.expected =>
           /\ o.item.next = i + 1
           /\ o.out = {Read(Other(side), i + 1)} \/ o.out = {}
           /\ \/ o.item.result = s.result /\ o.item.done = s.done
              \/ o.item.result.result # "Success"
  BY CollectPieces
<1> QED BY <1>1

\* process_inspection_item()
LEMMA DownTurnItem ==
  ASSUME IInv, DownTurn, NEW i \in SeqNumbers, NEW w \in Names, StationItem(i, w),
         UNCHANGED <<vup, vuploads>>
  PROVE  DownTurn'
<1> DEFINE m == Item("station", i, w)
<1>0. Inv(down, Gathered) /\ UploadInv(vup) /\ "station" \in Sides
  BY SidesNamed DEF IInv
<1>1. Alive(down) /\ m \in DOMAIN net
  BY DEF StationItem, Hears, UnderWay, BagIn, BagToSet
<1>2. UNCHANGED <<duplicates, downloads>>
  BY DEF StationItem, Downs, callVars
<1>3. PICK o \in Collect(down, m, "vehicle") :
        down' = o.item /\ net' = Sent(BagRemove(net, m), o.out)
  BY DEF StationItem, Downs, Without
<1>3a. o \in Collect(down, Item("station", i, w), Other("station"))
  BY <1>3, SidesNamed
<1>4. downloads # 0
  BY <1>1, NothingActs DEF DownTurn
<1>5. Belongs("station", m)
  BY PacketsOfDirection, SidesNamed
<1>6. down'.started = down.started /\ down'.resent = down.resent
  <2>1. o.item.started = down.started /\ o.item.resent = down.resent
    BY <1>0, <1>3a, CollectKeeps
  <2> QED BY <1>3, <2>1
<1>7. CleanDown' => CleanDown
  BY <1>2, <1>6 DEF CleanDown
<1>8. ASSUME CleanDown PROVE down.started /\ down.result.result # "Success" /\ Flowing
  <2>1. down.started /\ down.result.result # "Success" /\ (Asked \/ CountSent \/ Flowing)
    BY <1>1, <1>5, <1>8, DownTells
  <2>2. ~Asked
    BY <1>1, <1>5 DEF Asked, OnlyIn, Request, Item
  <2>3. ~CountSent
    BY <1>0, <1>1, <1>5, AnnouncedTells DEF CountSent, Item, Count
  <2> QED BY <2>1, <2>2, <2>3
<1>9. ASSUME CleanDown
      PROVE  /\ Flow("station", vup, down', net')
             /\ \/ down'.result = down.result /\ down'.done = down.done
                \/ down'.result.result # "Success"
                \/ Complete("station", vup, down', net')
  <2>1. Flow("station", vup, down, net)
    BY <1>8, <1>9 DEF Flowing
  <2> HIDE DEF m
  <2>2. LET link2 == Sent(BagRemove(net, Item("station", i, w)), o.out) IN
         /\ Flow("station", vup, o.item, link2)
         /\ \/ o.item.result = down.result /\ o.item.done = down.done
            \/ o.item.result.result # "Success"
            \/ Complete("station", vup, o.item, link2)
    BY <1>0, <1>1, <1>3a, <2>1, FlowCollects DEF m
  <2> QED BY <1>3, <2>2 DEF m
<1>10. CleanDown => DownStage' /\ (down'.result.result = "Success" => DownComplete')
  BY <1>8, <1>9 DEF Flowing, DownStage, DownComplete
<1> QED BY <1>2, <1>4, <1>6, <1>7, <1>8, <1>10 DEF DownTurn
-----------------------------------------------------------------------------
\* start() of the vehicle's upload: the COUNT goes out.
LEMMA DownTurnBegin ==
  ASSUME IInv, DownTurn, VehicleStartUpload, UNCHANGED <<down, downloads>>
  PROVE  DownTurn'
<1> DEFINE r == [vup EXCEPT !.started = TRUE, !.retries = 0,
                            !.step = "SendCount", !.hears = {"ACK"}]
           s == AddTimeout(r)
           u == [s EXCEPT !.next = 0, !.hears = {"ACK", "READ"}]
           c == Count("station", vup.list.plan, Len(vup.list.items))
<1>0. /\ vup \in Work(Acks) /\ (vup.callback <=> ~vup.done)
      /\ vup.list.items \in Seq(Names) /\ Len(vup.list.items) \in Nat
  BY ItemOf, ListOf DEF IInv, UploadInv
<1>1. /\ vup.queued /\ ~vup.started
      /\ \/ vup.list.items = <<>> /\ VUps(SendCount(s, "station"), net)
         \/ VUps(Quietly(Report(s, "InvalidSequence")), net)
         \/ Numbered(vup.list) /\ VUps(SendCount(u, "station"), net)
  <2>1. /\ CanStart(vup)
        /\ CASE vup.list.items = <<>> -> VUps(SendCount(s, "station"), net)
             [] ~Numbered(vup.list) -> VUps(Quietly(Report(s, "InvalidSequence")), net)
             [] OTHER -> VUps(SendCount(u, "station"), net)
    BY DEF VehicleStartUpload
  <2> HIDE DEF s, u
  <2> QED BY <2>1 DEF CanStart
<1>2. PICK o : /\ vup' = o.item /\ net' = Sent(net, o.out)
               /\ \/ vup.list.items = <<>> /\ o \in Try(s, Count("station", s.list.plan, Len(s.list.items)))
                  \/ o \in Quietly(Report(s, "InvalidSequence"))
                  \/ Numbered(vup.list) /\ o \in Try(u, Count("station", u.list.plan, Len(u.list.items)))
  <2> HIDE DEF s, u
  <2> QED BY <1>1 DEF VUps, SendCount
<1>3. UNCHANGED <<duplicates, vuploads>>
  <2> HIDE DEF s, u
  <2> QED BY <1>1 DEF VUps, servedVars
<1>4. vuploads # 0
  BY <1>1, NothingActs DEF DownTurn
<1>5. /\ r \in Work(Acks) /\ SameReports(vup, r) /\ r.list = vup.list /\ r.next = vup.next
      /\ r.started = TRUE
  BY <1>0 DEF Work, Steps, SameReports
<1> HIDE DEF r
<1>6. s \in Work(Acks) /\ Keeps(r, s) /\ SameReports(r, s)
  BY <1>5, TimerPieces
<1> HIDE DEF s
<1>7. /\ s.list = vup.list /\ s.next = vup.next /\ s.started = TRUE
      /\ (s.callback <=> ~s.done)
  BY <1>0, <1>5, <1>6 DEF Keeps, SameReports
<1>8. /\ u \in Work(Acks) /\ SameReports(s, u) /\ u.list = s.list /\ u.next = 0
      /\ u.started = TRUE
  BY <1>6, <1>7 DEF Work, SameReports
<1> HIDE DEF u
<1>9. u.callback <=> ~u.done
  BY <1>7, <1>8 DEF SameReports
<1>10. /\ vup'.list = vup.list /\ vup'.started = TRUE
       /\ \/ o.out = {}
          \/ o.out = {c} /\ Numbered(vup.list) /\ (vup.next = 0 => vup'.next = 0)
  <2>1. CASE vup.list.items = <<>> /\ o \in Try(s, Count("station", s.list.plan, Len(s.list.items)))
    <3>1. Numbered(vup.list)
      <4>1. Len(vup.list.items) = 0
        BY <2>1
      <4> QED BY <4>1, LinkAssumption DEF Numbered
    <3>2. Idles(s, o.item) /\ (o.out = {Count("station", s.list.plan, Len(s.list.items))} \/ o.out = {})
      BY <1>6, <1>7, <2>1, TryIdles
    <3> QED BY <1>2, <1>7, <3>1, <3>2 DEF Idles, Keeps
  <2>2. CASE o \in Quietly(Report(s, "InvalidSequence"))
    <3>1. Keeps(s, Report(s, "InvalidSequence"))
      BY <1>6, <1>7, ReportPieces
    <3> QED BY <1>2, <1>7, <2>2, <3>1 DEF Quietly, Keeps
  <2>3. CASE Numbered(vup.list) /\ o \in Try(u, Count("station", u.list.plan, Len(u.list.items)))
    <3>1. Idles(u, o.item) /\ (o.out = {Count("station", u.list.plan, Len(u.list.items))} \/ o.out = {})
      BY <1>8, <1>9, <2>3, TryIdles
    <3> QED BY <1>2, <1>7, <1>8, <2>3, <3>1 DEF Idles, Keeps
  <2> QED BY <1>2, <2>1, <2>2, <2>3
<1>11. CleanDown => down.started /\ Begun /\ down.result.result # "Success"
  BY <1>1, <1>4
  DEF DownTurn, DownStage, Asked, Ignored, CountSent, Announced, Flowing, Flow, Reading,
      Answered, Halfway, Over, DownComplete, Complete
<1>12. CleanDown' => CleanDown
  BY <1>3 DEF CleanDown
<1>13. ASSUME CleanDown PROVE DownStage'
  <2>1. CASE o.out = {}
    <3>1. NoneIn("station", net')
      BY <1>2, <1>11, <1>13, <2>1, NothingGiven DEF Begun
    <3> QED BY <1>3, <1>10, <1>11, <1>13, <3>1 DEF Begun, Over, Flow, Flowing, DownStage
  <2>2. CASE o.out = {c} /\ Numbered(vup.list) /\ (vup.next = 0 => vup'.next = 0)
    <3>1. OnlyIn("station", net', c)
      BY <1>2, <1>11, <1>13, <2>2, Given, PacketsOfDirection, SidesNamed DEF Begun
    <3> HIDE DEF c
    <3>2. Announced("station", vup', net')
      BY <1>10, <1>11, <1>13, <2>2, <3>1 DEF Announced, Begun, c
    <3> QED BY <1>3, <1>11, <1>13, <3>2 DEF Begun, CountSent, DownStage
  <2> QED BY <1>10, <2>1, <2>2
<1> QED BY <1>3, <1>4, <1>11, <1>12, <1>13 DEF DownTurn

\* process_inspection_read()
LEMMA DownTurnRead ==
  ASSUME IInv, DownTurn, NEW i \in SeqNumbers, VehicleRead(i), UNCHANGED <<down, downloads>>
  PROVE  DownTurn'
<1> DEFINE m == Read("vehicle", i)
<1>0. UploadInv(vup) /\ Inv(down, Gathered) /\ "station" \in Sides
  BY SidesNamed DEF IInv
<1>1. Alive(vup) /\ m \in DOMAIN net
  BY DEF VehicleRead, Hears, UnderWay, BagIn, BagToSet
<1>2. UNCHANGED <<duplicates, vuploads>>
  BY DEF VehicleRead, VUps, servedVars
<1>3. PICK o \in Serve(vup, i, "station") :
        vup' = o.item /\ net' = Sent(BagRemove(net, m), o.out)
  BY DEF VehicleRead, VUps, Without
<1>4. vuploads # 0
  BY <1>1, NothingActs DEF DownTurn
<1>5. Belongs("station", m)
  BY PacketsOfDirection, SidesNamed
<1>6. ASSUME CleanDown PROVE down.started /\ down.result.result # "Success" /\ Flowing
  <2>1. down.started /\ down.result.result # "Success" /\ (Asked \/ CountSent \/ Flowing)
    BY <1>1, <1>5, <1>6, DownTells
  <2>2. ~Asked
    BY <1>1, <1>5 DEF Asked, OnlyIn, Request, Read
  <2>3. ~CountSent
    BY <1>0, <1>1, <1>5, AnnouncedTells DEF CountSent, Read, Count
  <2> QED BY <2>1, <2>2, <2>3
<1>7. ASSUME CleanDown PROVE DownStage'
  <2>1. Flow("station", vup, down, net)
    BY <1>6, <1>7 DEF Flowing
  <2>2. Read(Other("station"), i) \in DOMAIN net
    BY <1>1, SidesNamed
  <2> HIDE DEF m
  <2>3. Flow("station", o.item, down, Sent(BagRemove(net, Read(Other("station"), i)), o.out))
    BY <1>0, <1>3, <2>1, <2>2, FlowServes
  <2>4. Flow("station", vup', down, net')
    BY <1>3, <2>3, SidesNamed DEF m
  <2> QED BY <1>2, <1>6, <1>7, <2>4 DEF Flowing, DownStage
<1> QED BY <1>2, <1>4, <1>6, <1>7 DEF DownTurn, CleanDown

\* upload_inspection(): a REQUEST begins an upload or is ignored.
LEMMA DownTurnRequest ==
  ASSUME DownTurn, vuploads \in Nat, VehicleRequest, UNCHANGED <<down, downloads>>
  PROVE  DownTurn'
<1>1. /\ Request \in DOMAIN net /\ net' = BagRemove(net, Request) /\ UNCHANGED duplicates
      /\ \/ UNCHANGED <<vup, vuploads>>
         \/ /\ vup' = [Fresh(NoUpload, vup, {}) EXCEPT !.list = offered]
            /\ vuploads' = vuploads + 1
  BY DEF VehicleRequest, UnderWay, BagIn, BagToSet, Without
<1>2. Belongs("station", Request)
  BY DEF Belongs, Request
<1>3. ASSUME CleanDown PROVE down.started /\ down.result.result # "Success" /\ Asked
  <2>1. down.started /\ down.result.result # "Success" /\ (Asked \/ CountSent \/ Flowing)
    BY <1>1, <1>2, <1>3, DownTells
  <2>2. ~CountSent
    BY <1>1, <1>2, AnnouncedTells, SidesNamed DEF CountSent, Request, Count
  <2>3. ~Flowing
    BY <1>1, <1>2, FlowTells, SidesNamed DEF Flowing, Request
  <2> QED BY <2>1, <2>2, <2>3
<1>4. CleanDown => NoneIn("station", net')
  BY <1>1, <1>3, Taken DEF Asked
<1>5. CleanDown' => CleanDown
  BY <1>1 DEF CleanDown
<1>6. CASE UNCHANGED <<vup, vuploads>>
  BY <1>3, <1>4, <1>5, <1>6 DEF DownTurn, Asked, Ignored, DownStage
<1>7. CASE /\ vup' = [Fresh(NoUpload, vup, {}) EXCEPT !.list = offered]
           /\ vuploads' = vuploads + 1
  <2>1. vup'.started = FALSE /\ vup'.next = 0
    BY <1>7 DEF Fresh, NoUpload, NoWork
  <2>2. vuploads' # 0
    BY <1>7
  <2>3. CleanDown => Begun'
    BY <1>3, <1>4, <1>7, <2>1 DEF Asked, Begun
  <2> QED BY <1>3, <1>5, <2>2, <2>3 DEF DownTurn, DownStage
<1> QED BY <1>1, <1>6, <1>7
-----------------------------------------------------------------------------
(***************************************************************************)
(* Counters count, and only the network duplicates.                        *)
(***************************************************************************)
Counting ==
  /\ uploads \in Nat /\ downloads \in Nat /\ vuploads \in Nat /\ vdownloads \in Nat
  /\ duplicates \in Nat /\ owed \in Nat

LEMMA OwedNext ==
  ASSUME IInv, owed \in Nat, VehicleNext
  PROVE  owed' \in Nat /\ UNCHANGED duplicates
<1>1. CASE VehicleUpload
  BY <1>1, VehicleUploadApart
<1>2. CASE VehicleDownload
  <2>1. UNCHANGED duplicates
    BY <1>2, VehicleDownloadApart
  <2>2. \E outcomes, link : VDowns(outcomes, link)
    BY <1>2
    DEF VehicleDownload, VehicleCancelDownload, VehicleStartDownload, VehicleExpireDownload,
        VehicleTimeoutDownload, VehicleItem
  <2>3. owed' = owed + 1 \/ owed' = owed
    BY <2>2 DEF VDowns
  <2> QED BY <2>1, <2>3
<1>3. ASSUME NEW a \in UserAcks, SendDownloadAck(a) PROVE owed' \in Nat /\ UNCHANGED duplicates
  BY <1>3 DEF SendDownloadAck
<1>4. CASE UNCHANGED <<owed, duplicates>>
  BY <1>4
<1>5. CASE \/ AcceptDownloads \/ \E l \in Lists : Offer(l) \/ SetList(l)
           \/ VehicleHoldUpload \/ VehicleHoldDownload
           \/ VehiclePopUpload \/ VehiclePopDownload \/ VehicleRequest
           \/ \E p \in Plans, n \in SeqNumbers : VehicleCount(p, n)
  BY <1>4, <1>5
  DEF AcceptDownloads, Offer, SetList, VehicleHoldUpload, VehicleHoldDownload,
      VehiclePopUpload, VehiclePopDownload, VehicleRequest, VehicleCount, linkVars
<1> QED
  BY <1>1, <1>2, <1>3, <1>5
  DEF VehicleNext, VehicleCancel, VehicleDoWork, VehicleRunOnce, VehicleReceive,
      VehicleUpload, VehicleDownload

LEMMA StationDuplicatesNothing ==
  ASSUME IInv, StationNext
  PROVE  UNCHANGED duplicates
<1>1. CASE StationUpload
  BY <1>1, StationUploadApart
<1>2. CASE StationDownload
  BY <1>2, StationDownloadApart
<1>3. CASE \/ Download \/ \E l \in Lists : Upload(l)
           \/ HoldUpload \/ HoldDownload \/ PopUpload \/ PopDownload
  BY <1>3 DEF Download, Upload, HoldUpload, HoldDownload, PopUpload, PopDownload, linkVars
<1> QED
  BY <1>1, <1>2, <1>3
  DEF StationNext, StationCancel, StationDoWork, StationRunOnce, StationReceive,
      StationUpload, StationDownload

LEMMA CountingNext ==
  ASSUME IInv, Counting, [Next]_vars
  PROVE  Counting'
<1>1. /\ uploads' \in Nat /\ downloads' \in Nat /\ vuploads' \in Nat /\ vdownloads' \in Nat
  BY NextMoves DEF Counting, UploadMove, DownloadMove
<1>2. owed' \in Nat /\ duplicates' \in Nat
  <2>1. CASE Network
    BY <2>1 DEF Network, Duplicate, vehicleVars, Counting
  <2>2. CASE GroundStation
    BY <2>2, StationDuplicatesNothing DEF GroundStation, vehicleVars, Counting
  <2>3. CASE RoboticVehicle
    BY <2>3, OwedNext DEF RoboticVehicle, Counting
  <2>4. CASE UNCHANGED vars
    BY <2>4 DEF vars, linkVars, vehicleVars, Counting
  <2> QED BY <2>1, <2>2, <2>3, <2>4 DEF Next
<1> QED BY <1>1, <1>2 DEF Counting
-----------------------------------------------------------------------------
(***************************************************************************)
(* The station's download: every step.                                     *)
(***************************************************************************)
LEMMA DownTurnStation ==
  ASSUME IInv, Counting, DownTurn, StationNext, UNCHANGED vehicleVars
  PROVE  DownTurn'
<1>0. UNCHANGED <<vup, vuploads>>
  BY DEF vehicleVars, servedVars
<1>1. CASE StationUpload
  BY <1>0, <1>1, StationUploadApart, DownApart DEF Apart
<1>2. CASE HoldUpload \/ PopUpload \/ \E l \in Lists : Upload(l)
  <2>1. UNCHANGED <<net, duplicates, down, downloads>>
    BY <1>2 DEF HoldUpload, PopUpload, Upload, linkVars, callVars
  <2> QED BY <1>0, <2>1, ApartSame, DownApart DEF Apart
<1>3. CASE CancelDownload \/ HoldDownload \/ PopDownload \/ ExpireDownload
  BY <1>0, <1>3, DownQuiet
<1>4. CASE Download
  BY <1>0, <1>4, DownTurnNew DEF Counting
<1>5. CASE StartDownload
  BY <1>0, <1>5, DownTurnStart
<1>6. CASE TimeoutDownload
  BY <1>0, <1>6, DownTurnTimeout
<1>7. ASSUME NEW p \in Plans, NEW n \in SeqNumbers, StationCount(p, n) PROVE DownTurn'
  BY <1>0, <1>7, DownTurnCount
<1>8. ASSUME NEW i \in SeqNumbers, NEW w \in Names, StationItem(i, w) PROVE DownTurn'
  BY <1>0, <1>8, DownTurnItem
<1> QED
  BY <1>1, <1>2, <1>3, <1>4, <1>5, <1>6, <1>7, <1>8
  DEF StationNext, StationCancel, StationDoWork, StationRunOnce, StationReceive, StationUpload

LEMMA DownTurnVehicle ==
  ASSUME IInv, Counting, DownTurn, VehicleNext, UNCHANGED stationVars
  PROVE  DownTurn'
<1>0. UNCHANGED <<down, downloads>>
  BY DEF stationVars, callVars
<1>1. CASE VehicleDownload
  BY <1>0, <1>1, VehicleDownloadApart, DownApart DEF Apart
<1>2. CASE \/ AcceptDownloads \/ \E l \in Lists : Offer(l) \/ SetList(l)
           \/ VehicleHoldDownload \/ VehiclePopDownload
  <2>1. UNCHANGED <<net, duplicates, vup, vuploads>>
    BY <1>2
    DEF AcceptDownloads, Offer, SetList, VehicleHoldDownload, VehiclePopDownload,
        linkVars, servedVars
  <2> QED BY <1>0, <2>1, ApartSame, DownApart DEF Apart
<1>3. ASSUME NEW a \in UserAcks, SendDownloadAck(a) PROVE DownTurn'
  <2>1. /\ UNCHANGED <<duplicates, vup, vuploads>>
        /\ \E out : net' = Sent(net, out) /\ (out = {Ack("station", a)} \/ out = {})
    BY <1>3 DEF SendDownloadAck, servedVars
  <2>2. Alike("station", net, net')
    BY <2>1, AcksAlike, SidesNamed
  <2> QED BY <1>0, <2>1, <2>2, DownApart
<1>4. ASSUME NEW p \in Plans, NEW n \in SeqNumbers, VehicleCount(p, n) PROVE DownTurn'
  <2>1. net' = BagRemove(net, Count("vehicle", p, n)) /\ UNCHANGED <<duplicates, vup, vuploads>>
    BY <1>4 DEF VehicleCount, Without
  <2>2. ~Belongs("station", Count("vehicle", p, n))
    BY PacketsOfOther, SidesNamed
  <2>3. Alike("station", net, net')
    BY <2>1, <2>2, TakenForeign
  <2> QED BY <1>0, <2>1, <2>3, DownApart
<1>5. CASE \/ VehicleCancelUpload \/ VehicleHoldUpload \/ VehiclePopUpload \/ VehicleExpireUpload
           \/ VehicleTimeoutUpload \/ \E a \in AckTypes : VehicleAck(a)
  BY <1>0, <1>5, VupQuiet
<1>6. CASE VehicleStartUpload
  BY <1>0, <1>6, DownTurnBegin
<1>7. ASSUME NEW i \in SeqNumbers, VehicleRead(i) PROVE DownTurn'
  BY <1>0, <1>7, DownTurnRead
<1>8. CASE VehicleRequest
  BY <1>0, <1>8, DownTurnRequest DEF Counting
<1> QED
  BY <1>1, <1>2, <1>3, <1>4, <1>5, <1>6, <1>7, <1>8
  DEF VehicleNext, VehicleCancel, VehicleDoWork, VehicleRunOnce, VehicleReceive, VehicleDownload

LEMMA DownTurnNext ==
  ASSUME IInv, Counting, DownTurn, [Next]_vars
  PROVE  DownTurn'
<1>1. CASE Network
  <2>1. /\ duplicates' = duplicates + 1 /\ UNCHANGED <<down, downloads, vup, vuploads>>
    BY <1>1 DEF Network, Duplicate, stationVars, vehicleVars, callVars, servedVars
  <2>2. ~CleanDown'
    BY <2>1 DEF CleanDown, Counting
  <2> QED BY <2>1, <2>2 DEF DownTurn
<1>2. CASE GroundStation
  BY <1>2, DownTurnStation DEF GroundStation
<1>3. CASE RoboticVehicle
  BY <1>3, DownTurnVehicle DEF RoboticVehicle
<1>4. CASE UNCHANGED vars
  <2>1. UNCHANGED <<net, duplicates, down, downloads, vup, vuploads>>
    BY <1>4 DEF vars, linkVars, stationVars, vehicleVars, callVars, servedVars
  <2> QED BY <2>1, ApartSame, DownApart DEF Apart
<1> QED BY <1>1, <1>2, <1>3, <1>4 DEF Next

LEMMA TurnInit == Init => Counting /\ DownTurn
<1> SUFFICES ASSUME Init PROVE Counting /\ DownTurn
  OBVIOUS
<1> USE DEF Init, LinkInit, StationInit, VehicleInit
<1>1. Counting
  BY DEF Counting
<1>2. NoneIn("station", net)
  BY DEF NoneIn, EmptyBag, SetToBag
<1>3. DownTurn
  BY <1>2, NothingActs DEF DownTurn, Ignored, NoResult
<1> QED BY <1>1, <1>3

LEMMA DownInTurns == Spec => [](Counting /\ DownTurn)
<1>1. IInv /\ Counting /\ DownTurn /\ [Next]_vars => (Counting /\ DownTurn)'
  BY CountingNext, DownTurnNext
<1> QED BY <1>1, TurnInit, Invariance, PTL DEF Spec

(***************************************************************************)
(* DownloadIsExact: the first list the station downloads, with nothing     *)
(* repeated, is the vehicle's.  process_inspection_item() appends whatever *)
(* comes; that what comes is the next waypoint follows from the turns.  A  *)
(* list of SeqRange waypoints is announced as an empty one and arrives as  *)
(* one: SameList says so.                                                  *)
(***************************************************************************)
THEOREM UndisturbedDownloadIsTheList == Spec => []DownloadIsExact
<1>1. DownTurn => DownloadIsExact
  BY DEF DownTurn, DownComplete, Complete, DownloadIsExact, NothingRepeated, CleanDown
<1> QED BY <1>1, DownInTurns, PTL
-----------------------------------------------------------------------------
(***************************************************************************)
(* The station's upload.                                                   *)
(***************************************************************************)
\* Nothing has been repeated, and no second upload begun.
CleanUp == uploads <= 1 /\ duplicates = 0 /\ ~up.resent /\ ~vdown.resent

\* The vehicle's user has said, or may yet say, that a list is accepted.
Acceptable ==
  owed > 0 \/ Acceptance \in DOMAIN net \/ up.got = "Accepted" \/ up.result.got = "Accepted"

\* The COUNT was refused, or never sent.
Unheard == NoneIn("vehicle", net) /\ vdownloads = 0

CountOut == Announced("vehicle", up, net) /\ vdownloads = 0

Expecting ==
  /\ NoneIn("vehicle", net) /\ vdownloads = 1
  /\ up.started /\ up.next = 0 /\ Numbered(up.list)
  /\ ~vdown.started /\ vdown.expected = Len(up.list.items) % SeqRange
  /\ vdown.got = [plan |-> up.list.plan, items |-> <<>>]

Streaming == vdownloads = 1 /\ Flow("vehicle", up, vdown, net)

UpStage == Unheard \/ CountOut \/ Expecting \/ Streaming

UpComplete == vdownloads = 1 /\ Complete("vehicle", up, vdown, net)

\* A COUNT that is not repeated begins one download, which may then end in
\* any way: the next would need another COUNT.
Once == uploads <= 1 /\ duplicates = 0 /\ ~up.resent

Single ==
  /\ Once /\ ~up.started => NoCount(net) /\ vdownloads = 0
  /\ Once /\ up.started => NoCount(net) \/ (vdownloads = 0 /\ OneCount(net))

UpTurn ==
  /\ Single
  /\ uploads = 0 => up = NoUpload
  /\ vdownloads = 0 => vdown = NoDownload
  /\ CleanUp /\ ~up.started => Unheard
  /\ CleanUp /\ up.started => UpStage
  /\ CleanUp /\ vdown.result.result = "Success" => UpComplete
  /\ CleanUp /\ Acceptable => vdown.result.result = "Success"

LEMMA SingleStays ==
  ASSUME Single, Calm(net, net'), Once' => Once, up'.started = up.started,
         UNCHANGED vdownloads
  PROVE  Single'
<1>1. /\ NoCount(net) => NoCount(net')
      /\ OneCount(net) => NoCount(net') \/ OneCount(net')
  BY CalmLinks
<1> QED BY <1>1 DEF Single

\* Steps that leave the transfer where it is.
LEMMA UpStays ==
  ASSUME UpTurn, Alike("vehicle", net, net'), SameUpload(up, up'), Idles(vdown, vdown'),
         UNCHANGED <<uploads, vdownloads, duplicates>>,
         uploads = 0 => up' = up, vdownloads = 0 => vdown' = vdown,
         Acceptable' => Acceptable
  PROVE  UpTurn'
<1>1. Keeps(vdown, vdown') /\ "vehicle" \in Sides
  BY SidesNamed DEF Idles
<1>2. NoneIn("vehicle", net) => NoneIn("vehicle", net')
  BY AlikeLinks
<1>3. /\ Announced("vehicle", up, net) => Announced("vehicle", up', net')
      /\ Flow("vehicle", up, vdown, net) => Flow("vehicle", up', vdown', net')
  BY <1>1, FlowStays
<1>4. /\ vdown'.got = vdown.got /\ vdown'.started = vdown.started
      /\ vdown'.resent = vdown.resent /\ vdown'.expected = vdown.expected
      /\ up'.started = up.started /\ up'.next = up.next /\ up'.list = up.list
      /\ up'.resent = up.resent
  BY <1>1 DEF Keeps, SameUpload
<1>5. UpStage => UpStage'
  BY <1>2, <1>3, <1>4 DEF UpStage, Unheard, CountOut, Expecting, Streaming
<1>6. Unheard => Unheard'
  BY <1>2 DEF Unheard
<1>7. CleanUp' => CleanUp
  BY <1>4 DEF CleanUp
<1>8. ASSUME UpComplete, vdown'.result = vdown.result, vdown'.done = vdown.done PROVE UpComplete'
  BY <1>1, <1>4, <1>8, CompleteStays DEF UpComplete
<1>9. vdown'.result.result = "Success" => vdown'.result = vdown.result /\ vdown'.done = vdown.done
  BY DEF Idles
<1>10. UpComplete => vdown'.result = vdown.result
  BY DEF UpComplete, Complete, Idles
<1>11. Single'
  BY <1>4, AlikeCalm, SingleStays DEF UpTurn, Once
<1> QED BY <1>4, <1>5, <1>6, <1>7, <1>8, <1>9, <1>10, <1>11 DEF UpTurn

LEMMA SeenStays ==
  ASSUME SameAck(up, up'), owed' > 0 => owed > 0,
         Acceptance \in DOMAIN net' => Acceptance \in DOMAIN net
  PROVE  Acceptable' => Acceptable
  BY DEF SameAck, Acceptable, Acceptance, Ack

\* Steps of neither item.
LEMMA UpApart ==
  ASSUME UpTurn, Apart("vehicle", net, net'),
         UNCHANGED <<up, uploads, vdown, vdownloads, duplicates, owed>>
  PROVE  UpTurn'
<1>1. /\ SameUpload(up, up') /\ SameAck(up, up') /\ Idles(vdown, vdown')
      /\ Alike("vehicle", net, net')
  BY DEF SameUpload, SameAck, Idles, Keeps, Apart
<1>2. Acceptable' => Acceptable
  BY <1>1, SeenStays DEF Apart
<1> QED BY <1>1, <1>2, UpStays

\* With a packet of the transfer under way it has started and not succeeded.
LEMMA UpTells ==
  ASSUME UpTurn, CleanUp, NEW m \in DOMAIN net, Belongs("vehicle", m)
  PROVE  /\ up.started /\ vdown.result.result # "Success" /\ ~Acceptable
         /\ CountOut \/ Streaming
<1>1. ~NoneIn("vehicle", net)
  BY DEF NoneIn
<1> QED BY <1>1 DEF UpTurn, UpStage, Unheard, Expecting, UpComplete, Complete, Over

LEMMA IdlesOwed ==
  ASSUME NEW s, NEW t, Idles(s, t)
  PROVE  ~NewSuccess(s, t)
  BY DEF Idles, NewSuccess

LEMMA Apartly ==
  ASSUME NEW out, (\E a : a # "Accepted" /\ out = {Ack("vehicle", a)}) \/ out = {}
  PROVE  Apart("vehicle", net, Sent(net, out))
<1>1. ASSUME NEW m \in out PROVE ~Belongs("vehicle", m) /\ m # Acceptance
  BY <1>1, SidesNamed, PacketsOfOther DEF Ack, Acceptance
<1> QED BY <1>1, ApartOut

LEMMA ApartlyCancelled ==
  ASSUME NEW side, NEW out, out \subseteq {Ack(side, "Cancelled")}
  PROVE  Apart("vehicle", net, Sent(net, out))
<1>1. ASSUME NEW m \in out PROVE ~Belongs("vehicle", m) /\ m # Acceptance
  BY <1>1, SidesNamed, PacketsOfOther DEF Ack, Acceptance
<1> QED BY <1>1, ApartOut
-----------------------------------------------------------------------------
\* Handlers of the station's upload that carry nothing.
LEMMA UpQuiet ==
  ASSUME IInv, UpTurn, UNCHANGED <<vdown, vdownloads, owed>>,
         \/ CancelUpload \/ HoldUpload \/ PopUpload \/ ExpireUpload
         \/ \E a \in AckTypes : StationAck(a)
  PROVE  UpTurn'
<1>0. UploadInv(up) /\ Inv(up, Acks) /\ "vehicle" \in Sides /\ Idles(vdown, vdown')
  BY SidesNamed DEF IInv, UploadInv, Idles, Keeps
<1>1. uploads = 0 => ~up.queued /\ ~up.held /\ Expired(up) = {} /\ ~Alive(up)
  BY NothingActs DEF UpTurn
<1>a. ASSUME Idles(up, up'), Apart("vehicle", net, net'), UNCHANGED <<duplicates, uploads>>,
             uploads = 0 => up' = up
      PROVE  UpTurn'
  <2>1. SameUpload(up, up') /\ SameAck(up, up') /\ Alike("vehicle", net, net')
    BY <1>a, IdlesUploads DEF Apart
  <2>2. Acceptable' => Acceptable
    BY <1>a, <2>1, SeenStays DEF Apart
  <2> QED BY <1>0, <1>a, <2>1, <2>2, UpStays
<1>2. CASE CancelUpload
  <2>1. PICK o \in Cancelled(up, "vehicle") : up' = o.item /\ net' = Sent(net, o.out)
    BY <1>2 DEF CancelUpload, Ups
  <2>2. up.held /\ UNCHANGED <<duplicates, uploads>>
    BY <1>2 DEF CancelUpload, Ups, callVars
  <2>3. Idles(up, up') /\ o.out \subseteq {Ack("vehicle", "Cancelled")}
    BY <1>0, <2>1, CancelIdles
  <2> QED BY <1>1, <1>a, <2>1, <2>2, <2>3, ApartlyCancelled
<1>3. CASE HoldUpload
  <2>1. up' = Held(up) /\ up.queued /\ UNCHANGED <<net, duplicates, uploads>>
    BY <1>3 DEF HoldUpload, CanHold, linkVars
  <2>2. Idles(up, up')
    BY <1>0, <2>1, HoldIdles
  <2> QED BY <1>1, <1>a, <2>1, <2>2, ApartSame
<1>4. CASE PopUpload
  <2>1. up' = Popped(up) /\ up.queued /\ UNCHANGED <<net, duplicates, uploads>>
    BY <1>4 DEF PopUpload, CanPop, linkVars, callVars
  <2>2. Idles(up, up')
    BY <1>0, <2>1, PopIdles
  <2> QED BY <1>1, <1>a, <2>1, <2>2, ApartSame
<1>5. CASE ExpireUpload
  <2>1. up' \in Expired(up) /\ net' = Sent(net, {}) /\ UNCHANGED <<duplicates, uploads>>
    BY <1>5 DEF ExpireUpload, Ups, Quietly, callVars
  <2>2. Idles(up, up')
    BY <1>0, <2>1, ExpireIdles
  <2> QED BY <1>1, <1>a, <2>1, <2>2, Apartly
<1>6. ASSUME NEW a \in AckTypes, StationAck(a) PROVE UpTurn'
  <2>1. PICK o \in Acknowledged(up, a) :
          up' = o.item /\ net' = Sent(BagRemove(net, Ack("station", a)), o.out)
    BY <1>6 DEF StationAck, Ups, Without
  <2>2. /\ Alive(up) /\ UNCHANGED <<duplicates, uploads>> /\ Ack("station", a) \in DOMAIN net
    BY <1>6 DEF StationAck, Ups, callVars, Hears, UnderWay, BagIn, BagToSet
  <2>3. /\ SameUpload(up, up') /\ o.out = {}
        /\ up'.got = a /\ (up'.result = up.result \/ up'.result.got = a)
    BY <1>0, <2>1, AcknowledgedPieces
  <2>4. Alike("vehicle", net, net')
    BY <1>0, <2>1, <2>3, AcksAlike
  <2>5. Acceptance \in DOMAIN net' => Acceptance \in DOMAIN net
    BY <2>1, <2>3, WasSent, WasThere
  <2>6. Acceptable' => Acceptable
    BY <2>2, <2>3, <2>5 DEF Acceptable, Acceptance
  <2> QED BY <1>0, <1>1, <2>2, <2>3, <2>4, <2>6, UpStays
<1> QED BY <1>2, <1>3, <1>4, <1>5, <1>6

\* Handlers of the vehicle's download that carry nothing.
LEMMA VdownQuiet ==
  ASSUME IInv, UpTurn, UNCHANGED <<up, uploads>>,
         \/ VehicleCancelDownload \/ VehicleHoldDownload
         \/ VehiclePopDownload \/ VehicleExpireDownload
  PROVE  UpTurn'
<1>0. Inv(vdown, Gathered) /\ SameUpload(up, up') /\ SameAck(up, up')
  BY DEF IInv, SameUpload, SameAck
<1>1. vdownloads = 0 => ~vdown.queued /\ ~vdown.held /\ Expired(vdown) = {}
  BY NothingActs DEF UpTurn
<1>a. ASSUME Idles(vdown, vdown'), Apart("vehicle", net, net'),
             UNCHANGED <<duplicates, vdownloads, owed>>, vdownloads = 0 => vdown' = vdown
      PROVE  UpTurn'
  <2>1. Alike("vehicle", net, net')
    BY <1>a DEF Apart
  <2>2. Acceptable' => Acceptable
    BY <1>0, <1>a, SeenStays DEF Apart
  <2> QED BY <1>0, <1>a, <2>1, <2>2, UpStays
<1>2. CASE VehicleCancelDownload
  <2>1. PICK o \in Cancelled(vdown, "station") :
          /\ vdown' = o.item /\ net' = Sent(net, o.out)
          /\ owed' = IF NewSuccess(vdown, o.item) THEN owed + 1 ELSE owed
    BY <1>2 DEF VehicleCancelDownload, VDowns
  <2>2. vdown.held /\ UNCHANGED <<duplicates, vdownloads>>
    BY <1>2 DEF VehicleCancelDownload, VDowns, servedVars
  <2>3. Idles(vdown, vdown') /\ o.out \subseteq {Ack("station", "Cancelled")}
    BY <1>0, <2>1, CancelIdles
  <2>4. owed' = owed
    BY <2>1, <2>3, IdlesOwed
  <2> QED BY <1>1, <1>a, <2>1, <2>2, <2>3, <2>4, ApartlyCancelled
<1>3. CASE VehicleHoldDownload
  <2>1. vdown' = Held(vdown) /\ vdown.queued /\ UNCHANGED <<net, duplicates, vdownloads, owed>>
    BY <1>3 DEF VehicleHoldDownload, CanHold, linkVars
  <2>2. Idles(vdown, vdown')
    BY <1>0, <2>1, HoldIdles
  <2> QED BY <1>1, <1>a, <2>1, <2>2, ApartSame
<1>4. CASE VehiclePopDownload
  <2>1. vdown' = Popped(vdown) /\ vdown.queued /\ UNCHANGED <<net, duplicates, vdownloads, owed>>
    BY <1>4 DEF VehiclePopDownload, CanPop, linkVars, servedVars
  <2>2. Idles(vdown, vdown')
    BY <1>0, <2>1, PopIdles
  <2> QED BY <1>1, <1>a, <2>1, <2>2, ApartSame
<1>5. CASE VehicleExpireDownload
  <2>1. PICK s \in Expired(vdown) :
          /\ vdown' = s /\ net' = Sent(net, {})
          /\ owed' = IF NewSuccess(vdown, s) THEN owed + 1 ELSE owed
    BY <1>5 DEF VehicleExpireDownload, VDowns, Quietly
  <2>2. UNCHANGED <<duplicates, vdownloads>>
    BY <1>5 DEF VehicleExpireDownload, VDowns, servedVars
  <2>3. Idles(vdown, vdown')
    BY <1>0, <2>1, ExpireIdles
  <2>4. owed' = owed
    BY <2>1, <2>3, IdlesOwed
  <2> QED BY <1>1, <1>a, <2>1, <2>2, <2>3, <2>4, Apartly
<1> QED BY <1>2, <1>3, <1>4, <1>5
-----------------------------------------------------------------------------
\* upload_inspection_async()
LEMMA UpTurnNew ==
  ASSUME UpTurn, uploads \in Nat, NEW l \in Lists, Upload(l),
         UNCHANGED <<vdown, vdownloads, owed>>
  PROVE  UpTurn'
<1>1. /\ uploads' = uploads + 1 /\ UNCHANGED <<net, duplicates>>
      /\ up' = [Fresh(NoUpload, up, {"READ", "ACK"}) EXCEPT !.list = l]
  BY DEF Upload, linkVars
<1>2. /\ up'.started = FALSE /\ up'.resent = FALSE
      /\ up'.got = "Unknown" /\ up'.result.got = "Unknown"
  BY <1>1 DEF Fresh, NoUpload, NoWork
<1>3. uploads' # 0
  BY <1>1
<1>4. CleanUp' => CleanUp /\ ~up.started
  <2>1. CleanUp' => uploads = 0 /\ duplicates = 0 /\ ~vdown.resent
    BY <1>1 DEF CleanUp
  <2>2. uploads = 0 => ~up.started /\ ~up.resent
    BY NothingActs DEF UpTurn
  <2> QED BY <2>1, <2>2 DEF CleanUp
<1>5. CleanUp' => Unheard /\ vdown.result.result # "Success"
  BY <1>4, NothingActs DEF UpTurn, Unheard, NoResult
<1>6. Unheard => Unheard'
  BY <1>1 DEF Unheard
<1>7. Acceptable' => Acceptable
  BY <1>1, <1>2 DEF Acceptable
<1>8. Single'
  <2>1. Once' => Once /\ ~up.started
    <3>1. Once' => uploads = 0 /\ duplicates = 0
      BY <1>1 DEF Once
    <3>2. uploads = 0 => ~up.started /\ ~up.resent
      BY NothingActs DEF UpTurn
    <3> QED BY <3>1, <3>2 DEF Once
  <2> QED BY <1>1, <1>2, <2>1 DEF UpTurn, Single
<1> QED BY <1>2, <1>3, <1>4, <1>5, <1>6, <1>7, <1>8 DEF UpTurn

\* start(): the COUNT goes out.
LEMMA UpTurnStart ==
  ASSUME IInv, UpTurn, StartUpload, UNCHANGED <<vdown, vdownloads, owed>>
  PROVE  UpTurn'
<1> DEFINE s == [up EXCEPT !.started = TRUE]
           t == [s EXCEPT !.retries = 0, !.step = "SendCount", !.next = 0]
           u == AddTimeout(t)
           c == Count("vehicle", up.list.plan, Len(up.list.items))
<1>0. up \in Work(Acks) /\ (up.callback <=> ~up.done)
  BY ItemOf DEF IInv, UploadInv
<1>1. /\ up.queued /\ ~up.started
      /\ \/ Ups(Quietly(Report(s, "InvalidSequence")), net)
         \/ Numbered(up.list) /\ Ups(SendCount(u, "vehicle"), net)
  <2>1. /\ CanStart(up)
        /\ IF ~Numbered(up.list)
           THEN Ups(Quietly(Report(s, "InvalidSequence")), net)
           ELSE Ups(SendCount(u, "vehicle"), net)
    BY DEF StartUpload
  <2> HIDE DEF s, u
  <2> QED BY <2>1 DEF CanStart
<1>2. PICK o : /\ up' = o.item /\ net' = Sent(net, o.out)
               /\ \/ o \in Quietly(Report(s, "InvalidSequence"))
                  \/ /\ Numbered(up.list)
                     /\ o \in Try(u, Count("vehicle", u.list.plan, Len(u.list.items)))
  <2> HIDE DEF s, u
  <2> QED BY <1>1 DEF Ups, SendCount
<1>3. UNCHANGED <<duplicates, uploads>>
  <2> HIDE DEF s, u
  <2> QED BY <1>1 DEF Ups, callVars
<1>4. uploads # 0
  BY <1>1, NothingActs DEF UpTurn
<1>5. /\ s \in Work(Acks) /\ SameReports(up, s) /\ s.list = up.list /\ s.started = TRUE
      /\ s.resent = up.resent /\ s.got = up.got
  BY <1>0 DEF Work, SameReports
<1> HIDE DEF s
<1>6. /\ t \in Work(Acks) /\ SameReports(s, t) /\ t.list = s.list /\ t.started = TRUE
      /\ t.resent = s.resent /\ t.got = s.got /\ t.next = 0
  BY <1>5 DEF Work, Steps, SameReports
<1> HIDE DEF t
<1>7. u \in Work(Acks) /\ Keeps(t, u) /\ SameReports(t, u)
  BY <1>6, TimerPieces
<1> HIDE DEF u
<1>8. (s.callback <=> ~s.done) /\ (u.callback <=> ~u.done)
  BY <1>0, <1>5, <1>6, <1>7 DEF SameReports
<1>9. /\ up'.list = up.list /\ up'.started = TRUE /\ up'.resent = up.resent /\ SameAck(up, up')
      /\ \/ o.out = {}
         \/ o.out = {c} /\ Numbered(up.list) /\ up'.next = 0
  <2>1. CASE o \in Quietly(Report(s, "InvalidSequence"))
    <3>1. Idles(s, Report(s, "InvalidSequence"))
      BY <1>5, <1>8, FailsLater DEF Keeps, SameReports
    <3>2. Idles(s, up') /\ o.out = {}
      BY <1>2, <2>1, <3>1 DEF Quietly
    <3> QED BY <1>5, <3>2 DEF Idles, Keeps, SameReports, SameAck
  <2>2. CASE /\ Numbered(up.list)
             /\ o \in Try(u, Count("vehicle", u.list.plan, Len(u.list.items)))
    <3>1. Idles(u, o.item) /\ (o.out = {Count("vehicle", u.list.plan, Len(u.list.items))} \/ o.out = {})
      BY <1>7, <1>8, <2>2, TryIdles
    <3>2. u.list = up.list /\ u.next = 0 /\ u.started = TRUE
          /\ u.resent = up.resent /\ u.got = up.got /\ u.result = up.result
      BY <1>5, <1>6, <1>7 DEF Keeps, SameReports
    <3> QED BY <1>2, <2>2, <3>1, <3>2 DEF Idles, Keeps, SameAck
  <2> QED BY <1>2, <2>1, <2>2
<1>10. CleanUp' => CleanUp
  BY <1>3, <1>9 DEF CleanUp
<1>11. CleanUp => Unheard /\ vdown.result.result # "Success"
  BY <1>1, NothingActs DEF UpTurn, Unheard, NoResult
<1>12. Acceptable' => Acceptable
  <2>1. Acceptance \in DOMAIN net' => Acceptance \in DOMAIN net
    <3>1. Acceptance # c
      BY DEF Acceptance, Ack, Count
    <3> QED BY <1>2, <1>9, <3>1, WasSent
  <2> QED BY <1>9, <2>1, SeenStays
<1>13. Unheard => UpStage'
  <2>1. ASSUME Unheard, o.out = {} PROVE Unheard'
    BY <1>2, <2>1, NothingGiven DEF Unheard
  <2>2. ASSUME Unheard, o.out = {c}, Numbered(up.list), up'.next = 0 PROVE CountOut'
    <3>1. OnlyIn("vehicle", net', c)
      BY <1>2, <2>2, Given, PacketsOfDirection, SidesNamed DEF Unheard
    <3> QED BY <1>9, <2>2, <3>1 DEF Announced, Unheard, CountOut
  <2> QED BY <1>9, <2>1, <2>2 DEF UpStage
<1>14. Single'
  <2>1. Once' => Once /\ NoCount(net) /\ vdownloads = 0
    BY <1>1, <1>3, <1>9 DEF Once, Single, UpTurn
  <2>2. NoCount(net) => NoCount(net') \/ OneCount(net')
    <3>1. CASE o.out = {}
      BY <1>2, <3>1, CalmOut, CalmLinks
    <3>2. CASE o.out = {c}
      BY <1>2, <3>2, CountGiven
    <3> QED BY <1>9, <3>1, <3>2
  <2> QED BY <1>9, <2>1, <2>2 DEF Single
<1> QED BY <1>3, <1>4, <1>9, <1>10, <1>11, <1>12, <1>13, <1>14 DEF UpTurn

\* process_timeout(): a COUNT that is repeated marks the transfer.
LEMMA UpTurnTimeout ==
  ASSUME IInv, UpTurn, TimeoutUpload, UNCHANGED <<vdown, vdownloads, owed>>
  PROVE  UpTurn'
<1> DEFINE s == [up EXCEPT !.firing = FALSE]
<1>0. Inv(up, Acks) /\ Idles(vdown, vdown')
  BY DEF IInv, UploadInv, Idles, Keeps
<1>1. up.firing /\ UNCHANGED <<duplicates, uploads>>
  BY DEF TimeoutUpload, Ups, callVars
<1>2. uploads # 0
  BY <1>1, NothingActs DEF UpTurn
<1>3. \/ Ups(Quietly(Report(s, "Timeout")), net)
      \/ Ups(SendCount(AddTimeout([s EXCEPT !.resent = TRUE]), "vehicle"), net)
  BY DEF TimeoutUpload
<1>4. CASE Ups(Quietly(Report(s, "Timeout")), net)
  <2>1. up' = Report(s, "Timeout") /\ net' = Sent(net, {})
    BY <1>4 DEF Ups, Quietly
  <2>2. Idles(up, up')
    BY <1>0, <2>1, TimeoutIdles
  <2>3. Apart("vehicle", net, net')
    BY <2>1, Apartly
  <2>4. SameUpload(up, up') /\ SameAck(up, up') /\ Alike("vehicle", net, net')
    BY <2>2, <2>3, IdlesUploads DEF Apart
  <2>5. Acceptable' => Acceptable
    BY <2>3, <2>4, SeenStays DEF Apart
  <2> QED BY <1>0, <1>1, <1>2, <2>4, <2>5, UpStays
<1>5. CASE Ups(SendCount(AddTimeout([s EXCEPT !.resent = TRUE]), "vehicle"), net)
  <2>1. PICK m : \E o \in Try(AddTimeout([s EXCEPT !.resent = TRUE]), m) : up' = o.item
    BY <1>5 DEF Ups, SendCount
  <2>2. up'.resent = TRUE
    BY <1>0, <2>1, RepeatMarks
  <2>3. ~CleanUp' /\ ~Once'
    BY <2>2 DEF CleanUp, Once
  <2> QED BY <1>1, <1>2, <2>3 DEF UpTurn, Single
<1> QED BY <1>3, <1>4, <1>5

\* process_inspection_read()
LEMMA UpTurnRead ==
  ASSUME IInv, UpTurn, NEW i \in SeqNumbers, StationRead(i),
         UNCHANGED <<vdown, vdownloads, owed>>
  PROVE  UpTurn'
<1> DEFINE m == Read("station", i)
<1>0. UploadInv(up) /\ Inv(vdown, Gathered) /\ "vehicle" \in Sides
  BY SidesNamed DEF IInv
<1>1. Alive(up) /\ m \in DOMAIN net
  BY DEF StationRead, Hears, UnderWay, BagIn, BagToSet
<1>2. UNCHANGED <<duplicates, uploads>>
  BY DEF StationRead, Ups, callVars
<1>3. PICK o \in Serve(up, i, "vehicle") :
        up' = o.item /\ net' = Sent(BagRemove(net, m), o.out)
  BY DEF StationRead, Ups, Without
<1>4. uploads # 0
  BY <1>1, NothingActs DEF UpTurn
<1>5. Belongs("vehicle", m)
  BY PacketsOfDirection, SidesNamed
<1>6. ASSUME CleanUp PROVE up.started /\ vdown.result.result # "Success" /\ ~Acceptable /\ Streaming
  <2>1. /\ up.started /\ vdown.result.result # "Success" /\ ~Acceptable
        /\ CountOut \/ Streaming
    BY <1>1, <1>5, <1>6, UpTells
  <2>2. ~CountOut
    BY <1>0, <1>1, <1>5, AnnouncedTells DEF CountOut, Read, Count
  <2> QED BY <2>1, <2>2
<1>7. /\ up'.started = up.started /\ up'.resent = up.resent /\ SameAck(up, up')
      /\ UploadOut("vehicle", o.out)
  BY <1>0, <1>3, ServePieces
<1>8. CleanUp' => CleanUp
  BY <1>2, <1>7 DEF CleanUp
<1>9. Acceptable' => Acceptable
  <2>1. Acceptance \notin o.out
    BY <1>7 DEF UploadOut, Acceptance, Ack
  <2>2. Acceptance \in DOMAIN net' => Acceptance \in DOMAIN net
    BY <1>3, <2>1, WasSent, WasThere
  <2> QED BY <1>7, <2>2, SeenStays
<1>10. ASSUME CleanUp PROVE UpStage'
  <2>1. Flow("vehicle", up, vdown, net)
    BY <1>6, <1>10 DEF Streaming
  <2>2. Read(Other("vehicle"), i) \in DOMAIN net
    BY <1>1, SidesNamed
  <2> HIDE DEF m
  <2>3. Flow("vehicle", o.item, vdown, Sent(BagRemove(net, Read(Other("vehicle"), i)), o.out))
    BY <1>0, <1>3, <2>1, <2>2, FlowServes
  <2>4. Flow("vehicle", up', vdown', net')
    BY <1>3, <2>3, SidesNamed DEF m
  <2> QED BY <1>2, <1>6, <1>10, <2>4 DEF Streaming, UpStage
<1>11. Single'
  <2>1. \A k \in o.out : ~IsCount(k)
    BY <1>0, <1>3, ServePieces DEF IsCount
  <2>2. ~IsCount(m)
    BY DEF IsCount, Read
  <2>3. Calm(net, net')
    BY <1>3, <2>1, <2>2, CalmOut
  <2> QED BY <1>2, <1>7, <2>3, SingleStays DEF UpTurn, Once
<1> QED BY <1>2, <1>4, <1>6, <1>7, <1>8, <1>9, <1>10, <1>11 DEF UpTurn
-----------------------------------------------------------------------------
\* download_inspection(): a COUNT begins a download or is ignored.
LEMMA UpTurnCount ==
  ASSUME IInv, UpTurn, vdownloads \in Nat, NEW p \in Plans, NEW n \in SeqNumbers,
         VehicleCount(p, n), UNCHANGED <<up, uploads>>
  PROVE  UpTurn'
<1> DEFINE m == Count("vehicle", p, n)
<1>1. /\ m \in DOMAIN net /\ net' = BagRemove(net, m) /\ UNCHANGED <<duplicates, owed>>
      /\ \/ UNCHANGED <<vdown, vdownloads>>
         \/ /\ vdown' = [Fresh(NoDownload, vdown, {}) EXCEPT !.expected = n, !.got.plan = p]
            /\ vdownloads' = vdownloads + 1
  BY DEF VehicleCount, UnderWay, BagIn, BagToSet, Without
<1>2. Belongs("vehicle", m)
  BY PacketsOfDirection, SidesNamed
<1>3. ASSUME CleanUp
      PROVE  up.started /\ vdown.result.result # "Success" /\ ~Acceptable /\ CountOut
  <2>1. /\ up.started /\ vdown.result.result # "Success" /\ ~Acceptable
        /\ CountOut \/ Streaming
    BY <1>1, <1>2, <1>3, UpTells
  <2>2. ~Streaming
    BY <1>1, <1>2, FlowTells, SidesNamed DEF Streaming, Count
  <2> QED BY <2>1, <2>2
<1>4. ASSUME CleanUp PROVE NoneIn("vehicle", net') /\ p = up.list.plan /\ n = Len(up.list.items) % SeqRange
  <2>1. m = Count("vehicle", up.list.plan, Len(up.list.items))
    BY <1>1, <1>2, <1>3, <1>4, AnnouncedTells, SidesNamed DEF CountOut
  <2>2. NoneIn("vehicle", net')
    BY <1>1, <1>3, <1>4, <2>1, Taken DEF CountOut, Announced
  <2>3. p = up.list.plan /\ n % SeqRange = Len(up.list.items) % SeqRange
    BY <2>1 DEF Count
  <2>4. n % SeqRange = n
    BY Remainders
  <2> QED BY <2>2, <2>3, <2>4
<1>5a. Once => up.started /\ NoCount(net') /\ vdownloads = 0
  <2>1. IsCount(m)
    BY DEF IsCount, Count
  <2>2. ~NoCount(net)
    BY <1>1, <2>1 DEF NoCount
  <2> HIDE DEF m
  <2> QED BY <1>1, <2>1, <2>2, CountTaken DEF UpTurn, Single
<1>5. Acceptance \in DOMAIN net' => Acceptance \in DOMAIN net
  BY <1>1, WasThere
<1>6. Acceptable' => Acceptable
  BY <1>1, <1>5 DEF Acceptable
<1>7. CASE UNCHANGED <<vdown, vdownloads>>
  <2>1. (CleanUp' => CleanUp) /\ (Once' => Once)
    BY <1>1, <1>7 DEF CleanUp, Once
  <2>2. CleanUp => Unheard'
    BY <1>3, <1>4, <1>7 DEF CountOut, Unheard
  <2>3. Single'
    BY <1>1, <1>5a, <2>1, <1>7 DEF Single
  <2> QED BY <1>3, <1>6, <1>7, <2>1, <2>2, <2>3 DEF UpTurn, UpStage
<1>8. CASE /\ vdown' = [Fresh(NoDownload, vdown, {}) EXCEPT !.expected = n, !.got.plan = p]
           /\ vdownloads' = vdownloads + 1
  <2>1. /\ vdown'.started = FALSE /\ vdown'.resent = FALSE /\ vdown'.expected = n
        /\ vdown'.got = [plan |-> p, items |-> <<>>] /\ vdown'.result = NoDownload.result
    BY <1>8 DEF Fresh, NoDownload, NoWork, NoList
  <2>2. vdown'.result.result # "Success"
    BY <2>1, NothingActs DEF NoResult
  <2>3. vdownloads' # 0
    BY <1>8
  <2>4. CleanUp' => CleanUp
    <3>1. CleanUp' => Once
      BY <1>1 DEF CleanUp, Once
    <3>2. vdownloads = 0 => ~vdown.resent
      BY NothingActs DEF UpTurn
    <3> QED BY <1>5a, <3>1, <3>2 DEF CleanUp, Once
  <2>5. CleanUp => Expecting'
    BY <1>3, <1>4, <1>8, <2>1 DEF CountOut, Announced, Expecting
  <2>6. Once' => Once
    BY <1>1 DEF Once
  <2>7. Single'
    BY <1>1, <1>5a, <2>6 DEF Single
  <2> QED BY <1>3, <1>6, <2>2, <2>3, <2>4, <2>5, <2>7 DEF UpTurn, UpStage
<1> QED BY <1>1, <1>7, <1>8

\* What a COUNT says of the length of a list that was not refused.
LEMMA LengthCases ==
  ASSUME NEW n \in Nat, n <= SeqRange
  PROVE  IF n % SeqRange = 0 THEN n \in {0, SeqRange} ELSE n < SeqRange /\ n % SeqRange = n
<1>1. SeqRange \in Nat \ {0}
  BY LinkAssumption
<1>2. CASE n = SeqRange
  BY <1>2, Remainders
<1>3. CASE n < SeqRange
  <2>1. n \in SeqNumbers
    BY <1>1, <1>3 DEF SeqNumbers
  <2> QED BY <1>3, <2>1, Remainders
<1> QED BY <1>1, <1>2, <1>3

\* The user may accept only what was delivered.
LEMMA AcceptLater ==
  ASSUME UNCHANGED up, Acceptance \in DOMAIN net' => Acceptance \in DOMAIN net,
         owed' = IF NewSuccess(vdown, vdown') THEN owed + 1 ELSE owed
  PROVE  Acceptable' => Acceptable \/ vdown'.result.result = "Success"
  BY DEF Acceptable, Acceptance, Ack, NewSuccess

\* The handlers of the vehicle's download say nothing of other COUNTs.
LEMMA SingleDownload ==
  ASSUME IInv, UpTurn, VehicleDownload, UNCHANGED <<up, uploads>>
  PROVE  /\ Single' /\ UNCHANGED <<duplicates, vdownloads>>
         /\ Acceptance \in DOMAIN net' => Acceptance \in DOMAIN net
<1>1. /\ Calm(net, net') /\ UNCHANGED <<duplicates, vdownloads>>
      /\ Acceptance \in DOMAIN net' => Acceptance \in DOMAIN net
  BY VehicleDownloadApart DEF Apart
<1>2. Once' => Once
  BY <1>1 DEF Once
<1> QED BY <1>1, <1>2, SingleStays DEF UpTurn

LEMMA EmptiedList ==
  ASSUME NEW g \in Gathered
  PROVE  /\ [g EXCEPT !.items = <<>>] \in Gathered
         /\ [g EXCEPT !.items = <<>>].plan = g.plan
         /\ [g EXCEPT !.items = <<>>].items = <<>>
<1> DEFINE t == [g EXCEPT !.items = <<>>]
<1>1. <<>> \in Seq(Waypoints)
  OBVIOUS
<1>2. t = [plan |-> g.plan, items |-> <<>>]
  BY DEF Gathered
<1> HIDE DEF t
<1>3. t \in Gathered
  BY <1>1, <1>2 DEF Gathered
<1>4. t.plan = g.plan /\ t.items = <<>>
  BY <1>2
<1> QED BY <1>3, <1>4 DEF t

\* start(): an empty list is complete, of another the first READ goes out.
LEMMA UpTurnBegin ==
  ASSUME IInv, UpTurn, VehicleStartDownload, UNCHANGED <<up, uploads>>
  PROVE  UpTurn'
<1> DEFINE s == [vdown EXCEPT !.started = TRUE, !.hears = {"ITEM"}]
           g == [vdown.got EXCEPT !.items = <<>>]
           t == [s EXCEPT !.got.items = <<>>, !.retries = 0, !.next = 0]
           u == AddTimeout(t)
<1>0. /\ vdown \in Work(Gathered) /\ (vdown.callback <=> ~vdown.done) /\ vdown.got \in Gathered
      /\ up \in Work(Acks)
  <2>1. vdown \in Work(Gathered) /\ (vdown.callback <=> ~vdown.done)
    BY ItemOf DEF IInv
  <2>2. up \in Work(Acks)
    BY ItemOf DEF IInv, UploadInv
  <2> QED BY <2>1, <2>2 DEF Work
<1>1. Single' /\ UNCHANGED <<duplicates, vdownloads>>
      /\ (Acceptance \in DOMAIN net' => Acceptance \in DOMAIN net)
  BY SingleDownload DEF VehicleDownload
<1>2. /\ vdown.queued /\ ~vdown.started
      /\ IF s.expected = 0
         THEN VDowns(Quietly(Report(s, "Success")), net)
         ELSE VDowns(RequestItem(u, "station"), net)
  <2>1. /\ CanStart(vdown)
        /\ IF s.expected = 0
           THEN VDowns(Quietly(Report(s, "Success")), net)
           ELSE VDowns(RequestItem(u, "station"), net)
    BY DEF VehicleStartDownload
  <2> HIDE DEF s, u
  <2> QED BY <2>1 DEF CanStart
<1>3. vdownloads # 0
  BY <1>2, NothingActs DEF UpTurn
<1>4. /\ s \in Work(Gathered) /\ SameReports(vdown, s) /\ s.started = TRUE
      /\ s.expected = vdown.expected /\ s.got = vdown.got /\ s.resent = vdown.resent
  BY <1>0 DEF Work, SameReports
<1>5. s.callback <=> ~s.done
  BY <1>0, <1>4 DEF SameReports
<1>6. g \in Gathered /\ g.plan = vdown.got.plan /\ g.items = <<>>
  <2>1. vdown.got \in Gathered
    BY <1>0
  <2> QED BY <2>1, EmptiedList
<1>7. t = [s EXCEPT !.got = g, !.retries = 0, !.next = 0]
  BY <1>0, <1>4 DEF Work
<1> HIDE DEF s
<1>8. CleanUp => /\ up.started /\ Expecting /\ vdown.result.result # "Success" /\ ~Acceptable
  BY <1>2, <1>3
  DEF UpTurn, UpStage, Unheard, CountOut, Streaming, Flow, Reading, Answered, Halfway, Over,
      UpComplete, Complete
<1>9. CleanUp => /\ Len(up.list.items) \in Nat /\ Len(up.list.items) <= SeqRange
                 /\ vdown.expected = Len(up.list.items) % SeqRange
  BY <1>0, <1>8, ListOf DEF Expecting, Numbered
<1>10. CASE s.expected = 0
  <2>1. /\ vdown' = Report(s, "Success") /\ net' = Sent(net, {})
        /\ owed' = IF NewSuccess(vdown, vdown') THEN owed + 1 ELSE owed
    BY <1>2, <1>10 DEF VDowns, Quietly
  <2>2. Keeps(s, vdown') /\ Tells(s, vdown', "Success")
    BY <1>4, <1>5, <2>1, ReportPieces
  <2>3. /\ vdown'.started = TRUE /\ vdown'.resent = vdown.resent /\ vdown'.done = TRUE
        /\ vdown'.result = IF vdown.done THEN vdown.result
                           ELSE [result |-> "Success", got |-> vdown.got]
    BY <1>4, <2>2 DEF Keeps, Tells, SameReports
  <2>4. CleanUp' => CleanUp
    BY <1>1, <2>3 DEF CleanUp
  <2>5. ASSUME CleanUp PROVE vdownloads = 1 /\ Over("vehicle", up, vdown', net')
    <3>1. NoneIn("vehicle", net')
      BY <1>8, <2>1, <2>5, NothingGiven DEF Expecting
    <3> QED BY <1>8, <2>3, <2>5, <3>1 DEF Over, Expecting
  <2>6. ASSUME CleanUp, vdown'.result.result = "Success" PROVE UpComplete'
    <3>1. vdown'.result.got = [plan |-> up.list.plan, items |-> <<>>]
      BY <1>8, <2>3, <2>6 DEF Expecting
    <3>2. Len(up.list.items) \in {0, SeqRange}
      BY <1>4, <1>9, <1>10, <2>6, LengthCases
    <3>3. SameList(vdown'.result.got, up.list)
      BY <3>1, <3>2 DEF SameList
    <3> QED BY <1>1, <2>3, <2>5, <2>6, <3>3 DEF UpComplete, Complete
  <2>7. CleanUp => UpStage'
    BY <1>1, <2>5 DEF UpStage, Streaming, Flow
  <2>8. Acceptable' => Acceptable \/ vdown'.result.result = "Success"
    BY <1>1, <2>1, AcceptLater
  <2> QED BY <1>1, <1>3, <1>8, <2>4, <2>6, <2>7, <2>8 DEF UpTurn
<1>11. CASE s.expected # 0
  <2>1. /\ t \in Work(Gathered) /\ SameReports(s, t) /\ t.started = TRUE /\ t.next = 0
        /\ t.expected = s.expected /\ t.resent = s.resent /\ t.got = g
    <3> HIDE DEF g, t
    <3> QED BY <1>4, <1>6, <1>7 DEF Work, SameReports
  <2> HIDE DEF t
  <2>2. u \in Work(Gathered) /\ Keeps(t, u) /\ SameReports(t, u)
    BY <2>1, TimerPieces
  <2> HIDE DEF u
  <2>3. PICK o \in RequestItem(u, "station") :
          /\ vdown' = o.item /\ net' = Sent(net, o.out)
          /\ owed' = IF NewSuccess(vdown, o.item) THEN owed + 1 ELSE owed
    BY <1>2, <1>11 DEF VDowns
  <2>4. u.next = 0 /\ (u.callback <=> ~u.done)
    BY <1>5, <2>1, <2>2 DEF SameReports, Keeps
  <2>5. Idles(u, vdown') /\ (o.out = {Read("station", 0)} \/ o.out = {})
    BY <2>2, <2>3, <2>4, TryIdles DEF RequestItem
  <2>6. /\ vdown'.started = TRUE /\ vdown'.next = 0 /\ vdown'.expected = vdown.expected
        /\ vdown'.resent = vdown.resent /\ vdown'.got = g
        /\ vdown'.result = vdown.result \/ vdown'.result.result # "Success"
    BY <1>4, <2>1, <2>2, <2>4, <2>5 DEF Idles, Keeps, SameReports
  <2>7. CleanUp' => CleanUp
    BY <1>1, <2>6 DEF CleanUp
  <2>8. ASSUME CleanUp PROVE Flow("vehicle", up, vdown', net')
    <3>1. vdown.expected = Len(up.list.items) /\ vdown.expected < SeqRange /\ vdown.expected # 0
      BY <1>4, <1>9, <1>11, <2>8, LengthCases
    <3>2. vdown'.got = [plan |-> up.list.plan, items |-> <<>>]
      BY <1>6, <1>8, <2>6, <2>8 DEF Expecting
    <3>3. o.out = {Read(Other("vehicle"), 0)} \/ o.out = {}
      BY <2>5, SidesNamed
    <3>4. NoneIn("vehicle", net) /\ up.started /\ up.next = 0
      BY <1>8, <2>8 DEF Expecting
    <3> HIDE DEF g
    <3> QED BY <1>0, <2>3, <2>6, <3>1, <3>2, <3>3, <3>4, FlowBegins, SidesNamed
  <2>9. CleanUp => UpStage'
    BY <1>1, <1>8, <2>8 DEF UpStage, Streaming, Expecting
  <2>10. Acceptable' => Acceptable \/ vdown'.result.result = "Success"
    BY <1>1, <2>3, AcceptLater
  <2> QED BY <1>1, <1>3, <1>8, <2>6, <2>7, <2>9, <2>10 DEF UpTurn
<1> QED BY <1>10, <1>11

\* process_timeout(): a READ that is repeated marks the transfer.
LEMMA UpTurnAgain ==
  ASSUME IInv, UpTurn, VehicleTimeoutDownload, UNCHANGED <<up, uploads>>
  PROVE  UpTurn'
<1> DEFINE s == [vdown EXCEPT !.firing = FALSE]
<1>0. Inv(vdown, Gathered) /\ SameUpload(up, up') /\ SameAck(up, up')
  BY DEF IInv, SameUpload, SameAck
<1>1. vdown.firing
  BY DEF VehicleTimeoutDownload
<1>2. Single' /\ UNCHANGED <<duplicates, vdownloads>>
  BY SingleDownload DEF VehicleDownload
<1>3. vdownloads # 0
  BY <1>1, NothingActs DEF UpTurn
<1>4. \/ VDowns(Quietly(Report(s, "Timeout")), net)
      \/ VDowns(RequestItem(AddTimeout([s EXCEPT !.resent = TRUE]), "station"), net)
  BY DEF VehicleTimeoutDownload
<1>5. CASE VDowns(Quietly(Report(s, "Timeout")), net)
  <2>1. /\ vdown' = Report(s, "Timeout") /\ net' = Sent(net, {})
        /\ owed' = IF NewSuccess(vdown, vdown') THEN owed + 1 ELSE owed
    BY <1>5 DEF VDowns, Quietly
  <2>2. Idles(vdown, vdown')
    BY <1>0, <2>1, TimeoutIdles
  <2>3. Apart("vehicle", net, net')
    BY <2>1, Apartly
  <2>4. owed' = owed
    BY <2>1, <2>2, IdlesOwed
  <2>5. Acceptable' => Acceptable
    BY <1>0, <2>3, <2>4, SeenStays DEF Apart
  <2> QED BY <1>0, <1>2, <1>3, <2>2, <2>3, <2>5, UpStays DEF Apart
<1>6. CASE VDowns(RequestItem(AddTimeout([s EXCEPT !.resent = TRUE]), "station"), net)
  <2>1. PICK m : \E o \in Try(AddTimeout([s EXCEPT !.resent = TRUE]), m) : vdown' = o.item
    BY <1>6 DEF VDowns, RequestItem
  <2>2. vdown'.resent = TRUE
    BY <1>0, <2>1, RepeatMarks
  <2>3. ~CleanUp'
    BY <2>2 DEF CleanUp
  <2> QED BY <1>2, <1>3, <2>3 DEF UpTurn
<1> QED BY <1>4, <1>5, <1>6

\* process_inspection_item()
LEMMA UpTurnItem ==
  ASSUME IInv, UpTurn, NEW i \in SeqNumbers, NEW w \in Names, VehicleItem(i, w),
         UNCHANGED <<up, uploads>>
  PROVE  UpTurn'
<1> DEFINE m == Item("vehicle", i, w)
<1>0. Inv(vdown, Gathered) /\ UploadInv(up) /\ "vehicle" \in Sides
  BY SidesNamed DEF IInv
<1>1. Alive(vdown) /\ m \in DOMAIN net
  BY DEF VehicleItem, Hears, UnderWay, BagIn, BagToSet
<1>2. Single' /\ UNCHANGED <<duplicates, vdownloads>>
      /\ (Acceptance \in DOMAIN net' => Acceptance \in DOMAIN net)
  BY SingleDownload DEF VehicleDownload
<1>3. PICK o \in Collect(vdown, m, "station") :
        /\ vdown' = o.item /\ net' = Sent(BagRemove(net, m), o.out)
        /\ owed' = IF NewSuccess(vdown, o.item) THEN owed + 1 ELSE owed
  BY DEF VehicleItem, VDowns, Without
<1>3a. o \in Collect(vdown, Item("vehicle", i, w), Other("vehicle"))
  BY <1>3, SidesNamed
<1>4. vdownloads # 0
  BY <1>1, NothingActs DEF UpTurn
<1>5. Belongs("vehicle", m)
  BY PacketsOfDirection, SidesNamed
<1>6. vdown'.started = vdown.started /\ vdown'.resent = vdown.resent
  <2>1. o.item.started = vdown.started /\ o.item.resent = vdown.resent
    BY <1>0, <1>3a, CollectKeeps
  <2> QED BY <1>3, <2>1
<1>7. CleanUp' => CleanUp
  BY <1>2, <1>6 DEF CleanUp
<1>8. ASSUME CleanUp
      PROVE  up.started /\ vdown.result.result # "Success" /\ ~Acceptable /\ Streaming
  <2>1. /\ up.started /\ vdown.result.result # "Success" /\ ~Acceptable
        /\ CountOut \/ Streaming
    BY <1>1, <1>5, <1>8, UpTells
  <2>2. ~CountOut
    BY <1>0, <1>1, <1>5, AnnouncedTells DEF CountOut, Item, Count
  <2> QED BY <2>1, <2>2
<1>9. ASSUME CleanUp
      PROVE  /\ Flow("vehicle", up, vdown', net')
             /\ \/ vdown'.result = vdown.result /\ vdown'.done = vdown.done
                \/ vdown'.result.result # "Success"
                \/ Complete("vehicle", up, vdown', net')
  <2>1. Flow("vehicle", up, vdown, net)
    BY <1>8, <1>9 DEF Streaming
  <2> HIDE DEF m
  <2>2. LET link2 == Sent(BagRemove(net, Item("vehicle", i, w)), o.out) IN
         /\ Flow("vehicle", up, o.item, link2)
         /\ \/ o.item.result = vdown.result /\ o.item.done = vdown.done
            \/ o.item.result.result # "Success"
            \/ Complete("vehicle", up, o.item, link2)
    BY <1>0, <1>1, <1>3a, <2>1, FlowCollects DEF m
  <2> QED BY <1>3, <2>2 DEF m
<1>10. CleanUp => UpStage' /\ (vdown'.result.result = "Success" => UpComplete')
  BY <1>2, <1>8, <1>9 DEF Streaming, UpStage, UpComplete
<1>11. Acceptable' => Acceptable \/ vdown'.result.result = "Success"
  BY <1>2, <1>3, AcceptLater
<1> QED BY <1>2, <1>4, <1>7, <1>8, <1>10, <1>11 DEF UpTurn
-----------------------------------------------------------------------------
(***************************************************************************)
(* The station's upload: every step.                                       *)
(***************************************************************************)
LEMMA UpTurnStation ==
  ASSUME IInv, Counting, UpTurn, StationNext, UNCHANGED vehicleVars
  PROVE  UpTurn'
<1>0. UNCHANGED <<vdown, vdownloads, owed>>
  BY DEF vehicleVars, servedVars
<1>1. CASE StationDownload
  BY <1>0, <1>1, StationDownloadApart, UpApart
<1>2. CASE HoldDownload \/ PopDownload \/ Download
  <2>1. UNCHANGED <<net, duplicates, up, uploads>>
    BY <1>2 DEF HoldDownload, PopDownload, Download, linkVars, callVars
  <2> QED BY <1>0, <2>1, ApartSame, UpApart
<1>3. CASE \/ CancelUpload \/ HoldUpload \/ PopUpload \/ ExpireUpload
           \/ \E a \in AckTypes : StationAck(a)
  BY <1>0, <1>3, UpQuiet
<1>4. ASSUME NEW l \in Lists, Upload(l) PROVE UpTurn'
  BY <1>0, <1>4, UpTurnNew DEF Counting
<1>5. CASE StartUpload
  BY <1>0, <1>5, UpTurnStart
<1>6. CASE TimeoutUpload
  BY <1>0, <1>6, UpTurnTimeout
<1>7. ASSUME NEW i \in SeqNumbers, StationRead(i) PROVE UpTurn'
  BY <1>0, <1>7, UpTurnRead
<1> QED
  BY <1>1, <1>2, <1>3, <1>4, <1>5, <1>6, <1>7
  DEF StationNext, StationCancel, StationDoWork, StationRunOnce, StationReceive, StationDownload

\* send_download_ack(): a list is accepted only after its success.
LEMMA UpTurnAck ==
  ASSUME UpTurn, NEW a \in UserAcks, SendDownloadAck(a), UNCHANGED <<up, uploads>>
  PROVE  UpTurn'
<1>1. /\ Acceptable /\ UNCHANGED <<duplicates, vdown, vdownloads>>
      /\ \E out : net' = Sent(net, out) /\ (out = {Ack("station", a)} \/ out = {})
  BY DEF SendDownloadAck, Acceptable, servedVars
<1>2. Alike("vehicle", net, net')
  BY <1>1, AcksAlike, SidesNamed
<1>3. SameUpload(up, up') /\ Idles(vdown, vdown')
  BY <1>1 DEF SameUpload, Idles, Keeps
<1> QED BY <1>1, <1>2, <1>3, UpStays

LEMMA UpTurnVehicle ==
  ASSUME IInv, Counting, UpTurn, VehicleNext, UNCHANGED stationVars
  PROVE  UpTurn'
<1>0. UNCHANGED <<up, uploads>>
  BY DEF stationVars, callVars
<1>1. CASE VehicleUpload
  BY <1>0, <1>1, VehicleUploadApart, UpApart
<1>2. CASE \/ AcceptDownloads \/ \E l \in Lists : Offer(l) \/ SetList(l)
           \/ VehicleHoldUpload \/ VehiclePopUpload
  <2>1. UNCHANGED <<net, duplicates, vdown, vdownloads, owed>>
    BY <1>2
    DEF AcceptDownloads, Offer, SetList, VehicleHoldUpload, VehiclePopUpload,
        linkVars, servedVars
  <2> QED BY <1>0, <2>1, ApartSame, UpApart
<1>3. CASE VehicleRequest
  <2>1. net' = BagRemove(net, Request) /\ UNCHANGED <<duplicates, vdown, vdownloads, owed>>
    BY <1>3 DEF VehicleRequest, Without
  <2>2. ~Belongs("vehicle", Request)
    BY DEF Belongs, Request
  <2>3. Apart("vehicle", net, net')
    BY <2>1, <2>2, ApartTaken
  <2> QED BY <1>0, <2>1, <2>3, UpApart
<1>4. ASSUME NEW a \in UserAcks, SendDownloadAck(a) PROVE UpTurn'
  BY <1>0, <1>4, UpTurnAck
<1>5. CASE \/ VehicleCancelDownload \/ VehicleHoldDownload
           \/ VehiclePopDownload \/ VehicleExpireDownload
  BY <1>0, <1>5, VdownQuiet
<1>6. ASSUME NEW p \in Plans, NEW n \in SeqNumbers, VehicleCount(p, n) PROVE UpTurn'
  BY <1>0, <1>6, UpTurnCount DEF Counting
<1>7. CASE VehicleStartDownload
  BY <1>0, <1>7, UpTurnBegin
<1>8. CASE VehicleTimeoutDownload
  BY <1>0, <1>8, UpTurnAgain
<1>9. ASSUME NEW i \in SeqNumbers, NEW w \in Names, VehicleItem(i, w) PROVE UpTurn'
  BY <1>0, <1>9, UpTurnItem
<1> QED
  BY <1>1, <1>2, <1>3, <1>4, <1>5, <1>6, <1>7, <1>8, <1>9
  DEF VehicleNext, VehicleCancel, VehicleDoWork, VehicleRunOnce, VehicleReceive, VehicleUpload

LEMMA UpTurnNext ==
  ASSUME IInv, Counting, UpTurn, [Next]_vars
  PROVE  UpTurn'
<1>1. CASE Network
  <2>1. /\ duplicates' = duplicates + 1 /\ UNCHANGED <<up, uploads, vdown, vdownloads>>
    BY <1>1 DEF Network, Duplicate, stationVars, vehicleVars, callVars, servedVars
  <2>2. ~CleanUp' /\ ~Once'
    BY <2>1 DEF CleanUp, Once, Counting
  <2> QED BY <2>1, <2>2 DEF UpTurn, Single
<1>2. CASE GroundStation
  BY <1>2, UpTurnStation DEF GroundStation
<1>3. CASE RoboticVehicle
  BY <1>3, UpTurnVehicle DEF RoboticVehicle
<1>4. CASE UNCHANGED vars
  <2>1. UNCHANGED <<net, duplicates, up, uploads, vdown, vdownloads, owed>>
    BY <1>4 DEF vars, linkVars, stationVars, vehicleVars, callVars, servedVars
  <2> QED BY <2>1, ApartSame, UpApart
<1> QED BY <1>1, <1>2, <1>3, <1>4 DEF Next

LEMMA UpTurnInit == Init => UpTurn
<1> SUFFICES ASSUME Init PROVE UpTurn
  OBVIOUS
<1>1. /\ net = EmptyBag /\ owed = 0 /\ up = NoUpload /\ vdown = NoDownload
      /\ uploads = 0 /\ vdownloads = 0
  BY DEF Init, LinkInit, StationInit, VehicleInit
<1>2. DOMAIN net = {}
  BY <1>1 DEF EmptyBag, SetToBag
<1>3. Unheard /\ Single
  BY <1>1, <1>2, NothingActs DEF Unheard, NoneIn, Single, NoCount
<1>4. up.started = FALSE /\ vdown.result.result # "Success"
  BY <1>1, NothingActs DEF NoResult
<1>5. up.got = "Unknown" /\ up.result.got = "Unknown"
  BY <1>1 DEF NoUpload, NoWork
<1>6. ~Acceptable
  BY <1>1, <1>2, <1>5 DEF Acceptable
<1> QED BY <1>1, <1>3, <1>4, <1>6 DEF UpTurn

LEMMA UpInTurns == Spec => []UpTurn
<1>1. IInv /\ Counting /\ UpTurn /\ [Next]_vars => UpTurn'
  BY UpTurnNext
<1> QED BY <1>1, UpTurnInit, Invariance, DownInTurns, PTL DEF Spec

(***************************************************************************)
(* AcceptedMeansDelivered: an upload the vehicle's user accepted, with     *)
(* nothing repeated, was delivered as it was given.  The ACK may be of     *)
(* either direction and process_inspection_ack() does not ask which; that  *)
(* only the download of this upload can have caused it follows from the    *)
(* turns.                                                                  *)
(***************************************************************************)
THEOREM AcceptedUploadWasDelivered == Spec => []AcceptedMeansDelivered
<1>1. UpTurn => AcceptedMeansDelivered
  <2> SUFFICES ASSUME UpTurn, NothingRepeated, uploads = 1,
                      up.result = [result |-> "Success", got |-> "Accepted"]
               PROVE  vdown.result.result = "Success" /\ SameList(vdown.result.got, up.list)
    BY DEF AcceptedMeansDelivered
  <2>1. CleanUp /\ Acceptable
    BY DEF NothingRepeated, CleanUp, Acceptable
  <2> QED BY <2>1 DEF UpTurn, UpComplete, Complete
<1> QED BY <1>1, UpInTurns, PTL
=============================================================================
