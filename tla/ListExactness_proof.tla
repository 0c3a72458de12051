------------------------- MODULE ListExactness_proof -------------------------
(***************************************************************************)
(* A download that was not disturbed is the vehicle's list, but for a list *)
(* of SeqRange entries, whose COUNT is 0: requests and answers alternate,  *)
(* so that the state of the two sides tells which single packet is under   *)
(* way.                                                                    *)
(***************************************************************************)
EXTENDS ListTransfer_proof

\* Nothing has been repeated, and no second download begun.
Clean == downloads <= 1 /\ duplicates = 0 /\ ~gs.resent

\* The packets that ask for something or answer: all but acknowledgements.
Asking(m) == m.type # "ACK"

NoneIn(link) == \A m \in Messages : Asking(m) => link[m] = 0

OnlyIn(link, m) ==
  /\ m \in Messages /\ Asking(m) /\ link[m] = 1
  /\ \A k \in Messages : Asking(k) /\ k # m => link[k] = 0

\* What the station has collected is the beginning of the list.
Begins(list, items) ==
  /\ Len(list) <= Len(items)
  /\ \A i \in DOMAIN list : list[i] = [index |-> i - 1, name |-> items[i].name]

SoFar == Begins(gs.list, rv.items)

(***************************************************************************)
(* How far a transfer is: which packet is under way, or who acts next.     *)
(***************************************************************************)
Asked == OnlyIn(net, Request) /\ uploads = 0 /\ gs.list = <<>>

Begun == NoneIn(net) /\ uploads = 1 /\ ~rv.started /\ gs.list = <<>>

Counted ==
  /\ OnlyIn(net, Count(Packed(Len(rv.items)))) /\ Len(rv.items) \in 0 .. SeqRange
  /\ uploads = 1 /\ rv.started /\ rv.next = 0 /\ gs.list = <<>>

Halfway ==
  /\ uploads = 1 /\ rv.started
  /\ gs.expected = Len(rv.items) /\ Len(rv.items) < SeqRange
  /\ gs.next = Len(gs.list) /\ gs.next < Len(rv.items)
  /\ SoFar

Reading == Halfway /\ rv.next = gs.next /\ OnlyIn(net, Read(gs.next))

NextItem == Item([index |-> gs.next, name |-> rv.items[gs.next + 1].name])

Answered == Halfway /\ rv.next = gs.next + 1 /\ OnlyIn(net, NextItem)

\* A packet was refused or could not be sent: nothing will come any more.
Broken == NoneIn(net) /\ (uploads = 0 \/ (uploads = 1 /\ rv.started))

Stage == Asked \/ Begun \/ Counted \/ Reading \/ Answered \/ Broken

Complete ==
  /\ NoneIn(net)
  /\ gs.started /\ uploads = 1 /\ rv.started
  /\ SameList(gs.list, rv.items)

InTurn ==
  /\ downloads = 0 => gs = NoDownload
  /\ uploads = 0 => rv = NoUpload
  /\ Clean /\ ~gs.started => NoneIn(net) /\ uploads = 0
  /\ Clean /\ gs.started /\ ~gs.done => Stage
  /\ Clean /\ gs.result = "Success" => Complete
-----------------------------------------------------------------------------
(***************************************************************************)
(* Packets.                                                                *)
(***************************************************************************)
LEMMA AskingMessages ==
  /\ Request \in Messages /\ Asking(Request)
  /\ \A n \in Indices : Count(n) \in Messages /\ Asking(Count(n))
  /\ \A n \in Indices : Read(n) \in Messages /\ Asking(Read(n))
  /\ \A e \in Entries : Item(e) \in Messages /\ Asking(Item(e))
  /\ \A a \in AckTypes : Ack(a) \in Messages /\ ~Asking(Ack(a))
<1>1. Request \in Messages /\ Asking(Request)
  BY DEF Messages, Request, Asking
<1>2. ASSUME NEW n \in Indices
      PROVE  Count(n) \in Messages /\ Asking(Count(n)) /\ Read(n) \in Messages /\ Asking(Read(n))
  BY DEF Messages, Count, Read, Asking
<1>3. ASSUME NEW e \in Entries PROVE Item(e) \in Messages /\ Asking(Item(e))
  BY DEF Messages, Item, Asking
<1>4. ASSUME NEW a \in AckTypes PROVE Ack(a) \in Messages /\ ~Asking(Ack(a))
  BY DEF Messages, Ack, Asking
<1> QED BY <1>1, <1>2, <1>3, <1>4

\* Only the length of the longest list does not fit a packet.
LEMMA PackedIs ==
  /\ \A n \in Indices : Packed(n) = n
  /\ Packed(SeqRange) = 0
  /\ 0 \in Indices
<1>1. SeqRange \in Nat \ {0}
  BY SeqRangeAssumption
<1>2. ASSUME NEW n \in 0 .. SeqRange - 1 PROVE n % SeqRange = n
  BY <1>1
<1>3. SeqRange % SeqRange = 0
  BY <1>1
<1> QED BY <1>1, <1>2, <1>3 DEF Indices, Packed

\* start() lets no list through whose positions do not fit an index.
LEMMA NumberedIsShort ==
  ASSUME NEW l \in Seq(Entries), Numbered(l)
  PROVE  Len(l) \in 0 .. SeqRange
<1>1. Len(l) \in Nat /\ SeqRange \in Nat /\ DOMAIN l = 1 .. Len(l)
  BY SeqRangeAssumption
<1>2. CASE Len(l) > 0
  <2>1. l[Len(l)] \in Entries /\ l[Len(l)].index = Len(l) - 1
    BY <1>1, <1>2 DEF Numbered
  <2>2. Len(l) - 1 \in 0 .. SeqRange - 1
    BY <2>1 DEF Entries, Indices
  <2> QED BY <1>1, <2>2
<1> QED BY <1>1, <1>2

LEMMA OnlyOne ==
  ASSUME NEW link \in [Messages -> Nat], NEW m, OnlyIn(link, m),
         NEW k \in Messages, Asking(k), link[k] > 0
  PROVE  k = m
  BY DEF OnlyIn

LEMMA NoneUnderWay ==
  ASSUME NEW link \in [Messages -> Nat], NoneIn(link), NEW k \in Messages, Asking(k)
  PROVE  ~(link[k] > 0)
  BY DEF NoneIn

\* The only packet is received ...
LEMMA Taken ==
  ASSUME NEW link \in [Messages -> Nat], NEW m, OnlyIn(link, m)
  PROVE  NoneIn([link EXCEPT ![m] = @ - 1])
<1> HIDE DEF Messages
<1> QED BY DEF OnlyIn, NoneIn

\* ... and the next one sent.
LEMMA Given ==
  ASSUME NEW link \in [Messages -> Nat], NoneIn(link), NEW m \in Messages, Asking(m)
  PROVE  OnlyIn(With(link, m), m)
<1> HIDE DEF Messages
<1> QED BY DEF OnlyIn, NoneIn, With

\* Links with the same packets that ask for something.
Alike(x, y) == \A m \in Messages : Asking(m) => y[m] = x[m]

LEMMA AlikeLinks ==
  ASSUME NEW x, NEW y, Alike(x, y)
  PROVE  /\ NoneIn(x) => NoneIn(y)
         /\ \A m : OnlyIn(x, m) => OnlyIn(y, m)
<1> HIDE DEF Messages
<1> QED BY DEF Alike, NoneIn, OnlyIn

LEMMA AckIsAlike ==
  ASSUME NEW link \in [Messages -> Nat], NEW a \in AckTypes
  PROVE  Alike(link, With(link, Ack(a))) /\ Alike(link, [link EXCEPT ![Ack(a)] = @ - 1])
<1>1. Ack(a) \in Messages /\ ~Asking(Ack(a))
  BY AskingMessages
<1> HIDE DEF Messages
<1> QED BY <1>1 DEF Alike, With
-----------------------------------------------------------------------------
(***************************************************************************)
(* What the pieces of handlers leave alone.                                *)
(***************************************************************************)
SameDownload(s, t) ==
  /\ t.list = s.list /\ t.next = s.next /\ t.expected = s.expected
  /\ t.started = s.started /\ t.resent = s.resent

\* From s to t the station's item has collected nothing and not succeeded.
Idles(s, t) ==
  /\ SameDownload(s, t)
  /\ \/ t.done = s.done /\ t.result = s.result
     \/ ~s.done /\ t.done /\ t.result # "Success"

LEMMA DownloadPieces ==
  ASSUME NEW s \in DownloadItems
  PROVE  /\ RemoveTimeout(s) \in DownloadItems
         /\ SameDownload(s, RemoveTimeout(s)) /\ SameReports(s, RemoveTimeout(s))
         /\ AddTimeout(s) \in DownloadItems
         /\ SameDownload(s, AddTimeout(s)) /\ SameReports(s, AddTimeout(s))
         /\ AddTimeout(s).retries = s.retries
<1> DEFINE n == IF s.armed THEN s.orphans + 1 ELSE s.orphans
           t == AddTimeout(s)
<1>1. t = [s EXCEPT !.armed = TRUE, !.orphans = n] /\ n \in Nat
  BY DEF AddTimeout, DownloadItems
<1> HIDE DEF n, t
<1>2. t \in DownloadItems /\ SameDownload(s, t) /\ SameReports(s, t) /\ t.retries = s.retries
  BY <1>1 DEF DownloadItems, SameDownload, SameReports
<1>3. /\ RemoveTimeout(s) \in DownloadItems
      /\ SameDownload(s, RemoveTimeout(s)) /\ SameReports(s, RemoveTimeout(s))
  BY DEF RemoveTimeout, DownloadItems, SameDownload, SameReports
<1> QED BY <1>2, <1>3 DEF t

\* callback_and_reset()
LEMMA ReportedDownload ==
  ASSUME NEW s \in DownloadItems, s.callback <=> ~s.done, NEW r
  PROVE  LET t == CallbackAndReset(s, r) IN
         /\ SameDownload(s, t) /\ t.done
         /\ t.result = IF s.done THEN s.result ELSE r
<1> DEFINE n == IF s.callback THEN s.reports + 1 ELSE s.reports
           q == IF s.callback THEN r ELSE s.result
           t == CallbackAndReset(s, r)
<1>1. t = [s EXCEPT !.reports = n, !.result = q, !.callback = FALSE, !.done = TRUE]
  BY DEF CallbackAndReset
<1>2. q = IF s.done THEN s.result ELSE r
  BY DEF DownloadItems
<1> HIDE DEF n, q, t
<1>3. SameDownload(s, t) /\ t.done /\ t.result = q
  BY <1>1 DEF DownloadItems, SameDownload
<1> QED BY <1>2, <1>3 DEF t

SameUpload(s, t) == t.items = s.items /\ t.next = s.next /\ t.started = s.started

LEMMA UploadPieces ==
  ASSUME NEW s \in UploadItems
  PROVE  /\ RemoveTimeout(s) \in UploadItems /\ SameUpload(s, RemoveTimeout(s))
         /\ AddTimeout(s) \in UploadItems /\ SameUpload(s, AddTimeout(s))
         /\ \A r : SameUpload(s, Report(s, r))
<1>1. RemoveTimeout(s) \in UploadItems /\ SameUpload(s, RemoveTimeout(s))
  BY DEF RemoveTimeout, UploadItems, SameUpload
<1>2. AddTimeout(s) \in UploadItems /\ SameUpload(s, AddTimeout(s))
  <2> DEFINE n == IF s.armed THEN s.orphans + 1 ELSE s.orphans
             t == AddTimeout(s)
  <2>1. t = [s EXCEPT !.armed = TRUE, !.orphans = n] /\ n \in Nat
    BY DEF AddTimeout, UploadItems
  <2> HIDE DEF n, t
  <2>2. t \in UploadItems /\ SameUpload(s, t)
    BY <2>1 DEF UploadItems, SameUpload
  <2> QED BY <2>2 DEF t
<1>3. ASSUME NEW r PROVE SameUpload(s, Report(s, r))
  <2> DEFINE n == IF s.callback THEN s.reports + 1 ELSE s.reports
             q == IF s.callback THEN [result |-> r, ack |-> s.ack] ELSE s.result
             t == Report(s, r)
  <2>1. t = [s EXCEPT !.reports = n, !.result = q, !.callback = FALSE, !.done = TRUE]
    BY DEF Report, CallbackAndReset
  <2> HIDE DEF n, q, t
  <2>2. SameUpload(s, t)
    BY <2>1 DEF UploadItems, SameUpload
  <2> QED BY <2>2 DEF t
<1> QED BY <1>1, <1>2, <1>3
-----------------------------------------------------------------------------
(***************************************************************************)
(* Steps that leave the transfer where it is.                              *)
(***************************************************************************)
\* The same items with the same progress, and the same packets.
LEMMA StageStays ==
  ASSUME Alike(net, net'), SameDownload(gs, gs'), SameUpload(rv, rv'), uploads' = uploads
  PROVE  /\ NoneIn(net) => NoneIn(net')
         /\ Stage => Stage'
         /\ Complete => Complete'
<1>1. NoneIn(net) => NoneIn(net')
  BY AlikeLinks
<1>2. \A m : OnlyIn(net, m) => OnlyIn(net', m)
  BY AlikeLinks
<1>3. /\ gs'.list = gs.list /\ gs'.next = gs.next /\ gs'.expected = gs.expected
      /\ gs'.started = gs.started
      /\ rv'.items = rv.items /\ rv'.next = rv.next /\ rv'.started = rv.started
  BY DEF SameDownload, SameUpload
<1>4. SoFar => SoFar'
  BY <1>3 DEF SoFar
<1>5. Halfway => Halfway'
  BY <1>3, <1>4 DEF Halfway
<1>6. NextItem' = NextItem
  BY <1>3 DEF NextItem
<1>7. Asked => Asked'
  BY <1>2, <1>3 DEF Asked
<1>8. Begun => Begun'
  BY <1>1, <1>3 DEF Begun
<1>9. Counted => Counted'
  BY <1>2, <1>3 DEF Counted
<1>10. Reading => Reading'
  BY <1>2, <1>3, <1>5 DEF Reading
<1>11. Answered => Answered'
  BY <1>2, <1>3, <1>5, <1>6 DEF Answered
<1>12. Broken => Broken'
  BY <1>1, <1>3 DEF Broken
<1>13. Complete => Complete'
  BY <1>1, <1>3 DEF Complete
<1> QED BY <1>1, <1>7, <1>8, <1>9, <1>10, <1>11, <1>12, <1>13 DEF Stage

\* A step of the station that only ends its item, if anything.
LEMMA StationIdles ==
  ASSUME InTurn, downloads # 0, Alike(net, net'), Idles(gs, gs'),
         UNCHANGED <<rv, uploads, downloads, duplicates>>
  PROVE  InTurn'
<1>1. SameDownload(gs, gs') /\ SameUpload(rv, rv')
  BY DEF Idles, SameUpload
<1>2. /\ NoneIn(net) => NoneIn(net')
      /\ Stage => Stage'
      /\ Complete => Complete'
  BY <1>1, StageStays
<1>3. Clean' => Clean
  BY <1>1 DEF Clean, SameDownload
<1>4. gs'.started = gs.started
  BY <1>1 DEF SameDownload
<1>5. gs'.result = "Success" => gs.result = "Success"
  BY DEF Idles
<1>6. ~gs'.done => ~gs.done
  BY DEF Idles
<1> QED BY <1>2, <1>3, <1>4, <1>5, <1>6 DEF InTurn

\* A step of the vehicle that serves nothing.
LEMMA VehicleIdles ==
  ASSUME InTurn, uploads # 0, Alike(net, net'), SameUpload(rv, rv'),
         UNCHANGED <<gs, uploads, downloads, duplicates>>
  PROVE  InTurn'
<1>1. /\ NoneIn(net) => NoneIn(net')
      /\ Stage => Stage'
      /\ Complete => Complete'
  BY StageStays DEF SameDownload
<1> QED BY <1>1 DEF InTurn, Clean

\* A step that changes neither item.
LEMMA NeitherMoves ==
  ASSUME InTurn, UNCHANGED <<net, gs, rv, uploads, downloads, duplicates>>
  PROVE  InTurn'
<1>1. /\ NoneIn(net) => NoneIn(net')
      /\ Stage => Stage'
      /\ Complete => Complete'
  BY StageStays DEF SameDownload, SameUpload, Alike
<1> QED BY <1>1 DEF InTurn, Clean
-----------------------------------------------------------------------------
(***************************************************************************)
(* The ground station.                                                     *)
(***************************************************************************)
LEMMA InTurnDownload ==
  ASSUME IInv, InTurn, Download, UNCHANGED <<rv, uploads>>
  PROVE  InTurn'
<1>1. downloads \in Nat
  BY DEF IInv, GSCountersOK
<1>2. /\ downloads' = downloads + 1 /\ gs' = NewDownload
      /\ UNCHANGED <<net, duplicates, rv, uploads>>
  BY DEF Download, linkVars
<1>3. /\ gs'.started = FALSE /\ gs'.result = NoResult /\ gs'.resent = FALSE
  BY <1>2 DEF NewDownload, NoDownload
<1>4. NoResult # "Success"
  BY DEF NoResult
<1>5. Clean' => Clean /\ ~gs.started
  BY <1>1, <1>2 DEF Clean, InTurn, NoDownload
<1>6. downloads' # 0
  BY <1>1, <1>2
<1>7. NoneIn(net) => NoneIn(net')
  BY <1>2
<1> QED BY <1>2, <1>3, <1>4, <1>5, <1>6, <1>7 DEF InTurn

\* The item and its callback, as far as these proofs need them.
LEMMA StationItem ==
  ASSUME IInv
  PROVE  /\ gs \in DownloadItems /\ (gs.callback <=> ~gs.done)
         /\ rv \in UploadItems
         /\ net \in [Messages -> Nat]
         /\ downloads \in Nat /\ uploads \in Nat
  BY DEF IInv, DownloadInv, DownloadCore, ReportsWhenDone, UploadInv, UploadCore, UploadBase,
         LinkOK, GSCountersOK, RVCountersOK

LEMMA ReportedIsDone ==
  ASSUME NEW s \in DownloadItems, NEW r
  PROVE  CallbackAndReset(s, r).done = TRUE
<1> DEFINE n == IF s.callback THEN s.reports + 1 ELSE s.reports
           q == IF s.callback THEN r ELSE s.result
           t == CallbackAndReset(s, r)
<1>1. t = [s EXCEPT !.reports = n, !.result = q, !.callback = FALSE, !.done = TRUE]
  BY DEF CallbackAndReset
<1> HIDE DEF n, q, t
<1>2. t.done = TRUE
  BY <1>1 DEF DownloadItems
<1> QED BY <1>2 DEF t

\* A report other than Success, after a change of other fields.
LEMMA FailedIdles ==
  ASSUME NEW s \in DownloadItems, NEW t \in DownloadItems, s.callback <=> ~s.done,
         SameDownload(s, t), SameReports(s, t), NEW r, r # "Success"
  PROVE  Idles(s, CallbackAndReset(t, r))
<1> DEFINE u == CallbackAndReset(t, r)
<1>1. t.callback <=> ~t.done
  BY DEF SameReports
<1>2. SameDownload(t, u) /\ u.done /\ u.result = IF t.done THEN t.result ELSE r
  BY <1>1, ReportedDownload
<1> HIDE DEF u
<1>3. SameDownload(s, u)
  BY <1>2 DEF SameDownload
<1>4. t.done = s.done /\ t.result = s.result /\ s.done \in BOOLEAN
  BY DEF SameReports, DownloadItems
<1>5. CASE s.done = TRUE
  <2>1. u.result = s.result
    BY <1>2, <1>4, <1>5
  <2>2. u.done = TRUE
    BY <1>2, ReportedIsDone DEF u
  <2>3. Idles(s, u)
    BY <1>3, <1>5, <2>1, <2>2 DEF Idles
  <2> QED BY <2>3 DEF u
<1>6. CASE s.done = FALSE
  <2>1. u.result = r
    BY <1>2, <1>4, <1>6
  <2>2. Idles(s, u)
    BY <1>2, <1>3, <1>6, <2>1 DEF Idles
  <2> QED BY <2>2 DEF u
<1> QED BY <1>4, <1>5, <1>6

\* While nothing was downloaded there is no item that could act.
LEMMA NoItemNoStep ==
  ASSUME InTurn, downloads = 0
  PROVE  ~Alive(gs) /\ ~gs.firing /\ Expired(gs) = {} /\ ~gs.queued /\ ~gs.held
  BY DEF InTurn, NoDownload, Alive, Expired

LEMMA InTurnQuiet ==
  ASSUME IInv, InTurn, UNCHANGED <<rv, uploads>>, GSHold \/ GSCancel \/ GSPop \/ GSExpire
  PROVE  InTurn'
<1>0. /\ gs \in DownloadItems /\ (gs.callback <=> ~gs.done)
      /\ net \in [Messages -> Nat]
  BY StationItem
<1>1. CASE GSHold
  <2>1. gs' = [gs EXCEPT !.held = TRUE] /\ UNCHANGED <<net, duplicates, downloads>> /\ gs.queued
    BY <1>1 DEF GSHold, Held, CanHold, linkVars
  <2>2. Idles(gs, gs')
    BY <1>0, <2>1 DEF Idles, SameDownload, DownloadItems
  <2> QED BY <2>1, <2>2, NoItemNoStep, StationIdles DEF Alike
<1>2. CASE GSCancel
  <2> DEFINE r == RemoveTimeout(gs)
             t == [r EXCEPT !.held = FALSE]
             u == LetGo(r)
  <2>1. r \in DownloadItems /\ SameDownload(gs, r) /\ SameReports(gs, r)
    BY <1>0, DownloadPieces
  <2>2. u = t \/ u = RemoveTimeout(t)
    BY DEF LetGo, Released
  <2> HIDE DEF r
  <2>3. t \in DownloadItems /\ SameDownload(r, t) /\ SameReports(r, t)
    BY <2>1 DEF DownloadItems, SameDownload, SameReports
  <2> HIDE DEF t
  <2>4. u \in DownloadItems /\ SameDownload(t, u) /\ SameReports(t, u)
    BY <2>2, <2>3, DownloadPieces DEF SameDownload, SameReports
  <2>5. /\ gs.held /\ Finish(u, net, "Cancelled", "Cancelled")
        /\ UNCHANGED <<duplicates, downloads>>
    BY <1>2 DEF GSCancel, r
  <2> HIDE DEF u
  <2>6. SameDownload(gs, u) /\ SameReports(gs, u)
    BY <2>1, <2>3, <2>4 DEF SameDownload, SameReports
  <2>7. /\ \/ gs' = CallbackAndReset(u, "Cancelled") /\ net' = With(net, Ack("Cancelled"))
           \/ gs' = CallbackAndReset(u, "ConnectionError") /\ net' = net
    BY <2>5 DEF Finish
  <2>8. Idles(gs, gs')
    BY <1>0, <2>4, <2>6, <2>7, FailedIdles
  <2>9. Alike(net, net')
    <3>1. CASE net' = net
      BY <3>1 DEF Alike
    <3>2. CASE net' = With(net, Ack("Cancelled"))
      BY <1>0, <3>2, AckIsAlike DEF AckTypes
    <3> QED BY <2>7, <3>1, <3>2
  <2> QED BY <2>5, <2>8, <2>9, NoItemNoStep, StationIdles
<1>3. CASE GSPop
  <2> DEFINE t == [gs EXCEPT !.queued = FALSE]
  <2>1. /\ gs' = t \/ gs' = RemoveTimeout(t)
        /\ UNCHANGED <<net, duplicates, downloads>> /\ gs.queued
    BY <1>3 DEF GSPop, Popped, Released, CanPop, linkVars
  <2>2. t \in DownloadItems /\ SameDownload(gs, t) /\ SameReports(gs, t)
    BY <1>0 DEF DownloadItems, SameDownload, SameReports
  <2> HIDE DEF t
  <2>3. Idles(gs, gs')
    BY <2>1, <2>2, DownloadPieces DEF Idles, SameDownload, SameReports
  <2> QED BY <2>1, <2>3, NoItemNoStep, StationIdles DEF Alike
<1>4. CASE GSExpire
  <2>1. gs' \in Expired(gs) /\ UNCHANGED <<net, duplicates, downloads>>
    BY <1>4 DEF GSExpire, linkVars
  <2>2. \/ gs' = [gs EXCEPT !.armed = FALSE, !.firing = TRUE]
        \/ gs' = [gs EXCEPT !.orphans = @ - 1, !.firing = TRUE]
    BY <2>1 DEF Expired
  <2>3. Idles(gs, gs')
    BY <1>0, <2>2 DEF Idles, SameDownload, DownloadItems
  <2> QED BY <2>1, <2>3, NoItemNoStep, StationIdles DEF Alike
<1> QED BY <1>1, <1>2, <1>3, <1>4

\* start(): the REQUEST goes out.
LEMMA InTurnStart ==
  ASSUME IInv, InTurn, GSStart, UNCHANGED <<rv, uploads>>
  PROVE  InTurn'
<1> DEFINE s == [gs EXCEPT !.list = <<>>, !.started = TRUE, !.retries = 0]
           t == AddTimeout(s)
<1>0. /\ gs \in DownloadItems /\ (gs.callback <=> ~gs.done)
      /\ net \in [Messages -> Nat]
  BY StationItem
<1>1. gs.queued /\ ~gs.started /\ Ask(t, net, Request) /\ UNCHANGED <<duplicates, downloads>>
  BY DEF GSStart, CanStart
<1>2a. <<>> \in Seq(Entries)
  OBVIOUS
<1>2b. s \in DownloadItems
  BY <1>0, <1>2a DEF DownloadItems
<1>2. /\ s \in DownloadItems /\ s.list = <<>> /\ s.started = TRUE /\ s.resent = gs.resent
      /\ SameReports(gs, s)
  BY <1>0, <1>2b DEF DownloadItems, SameReports
<1> HIDE DEF s
<1>3. /\ t \in DownloadItems /\ t.list = <<>> /\ t.started = TRUE /\ t.resent = gs.resent
      /\ SameReports(gs, t)
  BY <1>2, DownloadPieces DEF SameDownload, SameReports
<1> HIDE DEF t
<1>4. downloads # 0
  BY <1>1, NoItemNoStep
<1>5. Clean => NoneIn(net) /\ uploads = 0
  BY <1>1 DEF InTurn
<1>6. Clean => gs.result # "Success"
  BY <1>1 DEF InTurn, Complete
<1>7. CASE gs' = [t EXCEPT !.retries = @ + 1] /\ net' = With(net, Request)
  <2>1. /\ gs'.list = <<>> /\ gs'.started = TRUE /\ gs'.resent = gs.resent
        /\ gs'.result = gs.result /\ gs'.done = gs.done
    BY <1>3, <1>7 DEF DownloadItems, SameReports
  <2>2. Clean' => Clean
    BY <1>1, <2>1 DEF Clean
  <2>3. Clean => OnlyIn(net', Request)
    BY <1>0, <1>5, <1>7, Given, AskingMessages
  <2>4. Clean' => Asked'
    BY <1>5, <2>1, <2>2, <2>3 DEF Asked
  <2> QED BY <1>1, <1>4, <1>5, <1>6, <2>1, <2>2, <2>4 DEF InTurn, Stage
<1>8. CASE gs' = CallbackAndReset(RemoveTimeout(t), "ConnectionError") /\ net' = net
  <2>1. /\ RemoveTimeout(t) \in DownloadItems /\ SameDownload(t, RemoveTimeout(t))
        /\ SameReports(t, RemoveTimeout(t))
    BY <1>3, DownloadPieces
  <2>2. Idles(t, gs')
    BY <1>0, <1>3, <1>8, <2>1, FailedIdles DEF SameReports
  <2>3. gs'.done
    BY <1>0, <1>3, <1>8, <2>1, ReportedDownload DEF SameReports
  <2>4. gs'.started = TRUE /\ gs'.resent = gs.resent
    BY <1>3, <2>2 DEF Idles, SameDownload
  <2>5. gs'.result = "Success" => gs.result = "Success"
    BY <1>3, <2>2 DEF Idles, SameReports
  <2>6. Clean' => Clean
    BY <1>1, <2>4 DEF Clean
  <2> QED BY <1>1, <1>4, <1>6, <2>3, <2>4, <2>5, <2>6 DEF InTurn
<1> QED BY <1>1, <1>7, <1>8 DEF Ask
-----------------------------------------------------------------------------
LEMMA BeginsEmpty ==
  ASSUME NEW items \in Seq(Entries)
  PROVE  Begins(<<>>, items)
<1>1. Len(items) \in Nat /\ Len(<<>>) = 0 /\ DOMAIN <<>> = {}
  OBVIOUS
<1> QED BY <1>1 DEF Begins

LEMMA BeginsLonger ==
  ASSUME NEW items \in Seq(Entries), NEW list \in Seq(Entries), Begins(list, items),
         Len(list) < Len(items), NEW e \in Entries,
         e = [index |-> Len(list), name |-> items[Len(list) + 1].name]
  PROVE  Begins(Append(list, e), items) /\ Len(Append(list, e)) = Len(list) + 1
<1> DEFINE longer == Append(list, e)
<1>1. Len(list) \in Nat /\ Len(items) \in Nat /\ DOMAIN list = 1 .. Len(list)
  OBVIOUS
<1>2. Len(longer) = Len(list) + 1 /\ DOMAIN longer = 1 .. Len(list) + 1
  OBVIOUS
<1>3. longer[Len(list) + 1] = e /\ \A i \in 1 .. Len(list) : longer[i] = list[i]
  OBVIOUS
<1> HIDE DEF longer
<1>4. ASSUME NEW i \in 1 .. Len(list) + 1
      PROVE  longer[i] = [index |-> i - 1, name |-> items[i].name]
  <2>1. CASE i = Len(list) + 1
    <3>1. i - 1 = Len(list)
      BY <1>1, <2>1
    <3> QED BY <1>3, <2>1, <3>1
  <2>2. CASE i # Len(list) + 1
    <3>1. i \in 1 .. Len(list)
      BY <1>1, <2>2
    <3> QED BY <1>1, <1>3, <3>1 DEF Begins
  <2> QED BY <2>1, <2>2
<1>5. Len(longer) <= Len(items)
  BY <1>1, <1>2
<1>6. Begins(longer, items)
  BY <1>2, <1>4, <1>5 DEF Begins
<1> QED BY <1>2, <1>6 DEF longer

\* The list that is uploaded.
LEMMA VehicleList ==
  ASSUME IInv
  PROVE  rv.items \in Seq(Entries) /\ Len(rv.items) \in Nat
<1>1. rv.items \in Lists
  BY StationItem DEF UploadItems
<1> QED BY <1>1, VehicleAssumption

\* What Clean says of an item s that is about to be the station's.
CleanItem(s) == downloads <= 1 /\ duplicates = 0 /\ ~s.resent

(***************************************************************************)
(* The last packet was received and is acknowledged: if nothing was        *)
(* repeated the list is complete.                                          *)
(***************************************************************************)
LEMMA InTurnFinish ==
  ASSUME InTurn, downloads # 0, NEW s \in DownloadItems, s.callback <=> ~s.done,
         NEW link \in [Messages -> Nat], Finish(s, link, "Accepted", "Success"),
         UNCHANGED <<rv, uploads, downloads, duplicates>>,
         CleanItem(s) => s.started,
         CleanItem(s) => s.result # "Success",
         CleanItem(s) /\ ~s.done =>
           /\ NoneIn(link) /\ uploads = 1 /\ rv.started
           /\ SameList(s.list, rv.items)
  PROVE  InTurn'
<1>1. PICK r \in {"Success", "ConnectionError"} :
        /\ gs' = CallbackAndReset(s, r)
        /\ net' = link \/ net' = With(link, Ack("Accepted"))
  BY DEF Finish
<1>2. /\ SameDownload(s, gs') /\ gs'.done
      /\ gs'.result = IF s.done THEN s.result ELSE r
  BY <1>1, ReportedDownload
<1>3. gs'.list = s.list /\ gs'.started = s.started /\ gs'.resent = s.resent
  BY <1>2 DEF SameDownload
<1>4. Clean' => CleanItem(s)
  BY <1>3 DEF Clean, CleanItem
<1>5. NoneIn(link) => NoneIn(net')
  <2>1. Alike(link, link) /\ Alike(link, With(link, Ack("Accepted")))
    BY AckIsAlike DEF Alike, AckTypes
  <2> QED BY <1>1, <2>1, AlikeLinks
<1>6. ASSUME CleanItem(s), gs'.result = "Success" PROVE Complete'
  <2>1. ~s.done
    BY <1>2, <1>6
  <2> QED BY <1>3, <1>5, <1>6, <2>1 DEF Complete
<1> QED BY <1>2, <1>3, <1>4, <1>6 DEF InTurn

(***************************************************************************)
(* A packet was received and the next entry is asked for.                  *)
(***************************************************************************)
LEMMA InTurnRead ==
  ASSUME InTurn, downloads # 0, NEW s \in DownloadItems, s.callback <=> ~s.done,
         NEW link \in [Messages -> Nat], NEW i \in Indices, Ask(s, link, Read(i)),
         UNCHANGED <<rv, uploads, downloads, duplicates>>,
         CleanItem(s) => s.started,
         CleanItem(s) => s.result # "Success",
         CleanItem(s) /\ ~s.done =>
           /\ NoneIn(link) /\ uploads = 1 /\ rv.started
           /\ i = s.next /\ rv.next = s.next
           /\ s.expected = Len(rv.items) /\ Len(rv.items) < SeqRange
           /\ s.next = Len(s.list) /\ s.next < Len(rv.items) /\ Begins(s.list, rv.items)
  PROVE  InTurn'
<1>1. CASE gs' = [s EXCEPT !.retries = @ + 1] /\ net' = With(link, Read(i))
  <2>1. /\ gs'.list = s.list /\ gs'.started = s.started /\ gs'.resent = s.resent
        /\ gs'.next = s.next /\ gs'.expected = s.expected
        /\ gs'.done = s.done /\ gs'.result = s.result
    BY <1>1 DEF DownloadItems
  <2>2. Clean' => CleanItem(s)
    BY <2>1 DEF Clean, CleanItem
  <2>3. NoneIn(link) => OnlyIn(net', Read(i))
    BY <1>1, Given, AskingMessages
  <2>4. ASSUME CleanItem(s), ~s.done PROVE Reading'
    BY <2>1, <2>3, <2>4 DEF Reading, Halfway, SoFar
  <2> QED BY <2>1, <2>2, <2>4 DEF InTurn, Stage
<1>2. CASE gs' = CallbackAndReset(RemoveTimeout(s), "ConnectionError") /\ net' = link
  <2> DEFINE t == RemoveTimeout(s)
  <2>1. t \in DownloadItems /\ SameDownload(s, t) /\ SameReports(s, t)
    BY DownloadPieces
  <2> HIDE DEF t
  <2>2. (t.callback <=> ~t.done) /\ gs' = CallbackAndReset(t, "ConnectionError")
    BY <1>2, <2>1 DEF SameReports, t
  <2>3. /\ SameDownload(t, gs') /\ gs'.done
        /\ gs'.result = IF t.done THEN t.result ELSE "ConnectionError"
    BY <2>1, <2>2, ReportedDownload
  <2>4. gs'.started = s.started /\ gs'.resent = s.resent
    BY <2>1, <2>3 DEF SameDownload
  <2>5. Clean' => CleanItem(s)
    BY <2>4 DEF Clean, CleanItem
  <2>6. CleanItem(s) => gs'.result # "Success"
    BY <2>1, <2>3 DEF SameReports
  <2> QED BY <2>3, <2>4, <2>5, <2>6 DEF InTurn
<1> QED BY <1>1, <1>2 DEF Ask
-----------------------------------------------------------------------------
\* With a packet m under way that asks for something, a clean transfer has
\* started and has not succeeded; if it is not done, it is at a stage.
LEMMA PacketTells ==
  ASSUME IInv, InTurn, Clean, NEW m \in Messages, Asking(m), net[m] > 0
  PROVE  gs.started /\ gs.result # "Success" /\ (~gs.done => Stage)
<1>1. ~NoneIn(net)
  BY StationItem, NoneUnderWay
<1> QED BY <1>1 DEF InTurn, Complete

LEMMA CountTells ==
  ASSUME IInv, InTurn, Clean, NEW n \in Indices, net[Count(n)] > 0, ~gs.done
  PROVE  Counted /\ n = Packed(Len(rv.items))
<1>1. Count(n) \in Messages /\ Asking(Count(n)) /\ net \in [Messages -> Nat]
  BY AskingMessages, StationItem
<1>2. Stage /\ ~NoneIn(net)
  BY <1>1, PacketTells, NoneUnderWay
<1>3. ASSUME NEW m, OnlyIn(net, m) PROVE m = Count(n)
  BY <1>1, <1>3, OnlyOne
<1>4. ~Asked
  BY <1>3 DEF Asked, Request, Count
<1>5. ~Reading
  BY <1>3 DEF Reading, Read, Count
<1>6. ~Answered
  BY <1>3 DEF Answered, NextItem, Item, Count
<1>7. Counted
  BY <1>2, <1>4, <1>5, <1>6 DEF Stage, Begun, Broken
<1>8. Count(Packed(Len(rv.items))) = Count(n)
  BY <1>3, <1>7 DEF Counted
<1> QED BY <1>7, <1>8 DEF Count

LEMMA ItemTells ==
  ASSUME IInv, InTurn, Clean, NEW e \in Entries, net[Item(e)] > 0, ~gs.done
  PROVE  Answered /\ e = [index |-> gs.next, name |-> rv.items[gs.next + 1].name]
<1>1. Item(e) \in Messages /\ Asking(Item(e)) /\ net \in [Messages -> Nat]
  BY AskingMessages, StationItem
<1>2. Stage /\ ~NoneIn(net)
  BY <1>1, PacketTells, NoneUnderWay
<1>3. ASSUME NEW m, OnlyIn(net, m) PROVE m = Item(e)
  BY <1>1, <1>3, OnlyOne
<1>4. ~Asked
  BY <1>3 DEF Asked, Request, Item
<1>5. ~Reading
  BY <1>3 DEF Reading, Read, Item
<1>6. ~Counted
  BY <1>3 DEF Counted, Item, Count
<1>7. Answered
  BY <1>2, <1>4, <1>5, <1>6 DEF Stage, Begun, Broken
<1>8. NextItem = Item(e)
  BY <1>3, <1>7 DEF Answered
<1> QED BY <1>7, <1>8 DEF NextItem, Item

LEMMA InTurnCount ==
  ASSUME IInv, InTurn, NEW n \in Indices, ProcessCount(n), UNCHANGED <<rv, uploads>>
  PROVE  InTurn'
<1> DEFINE link == Without(Count(n))
<1>0. /\ gs \in DownloadItems /\ (gs.callback <=> ~gs.done)
      /\ net \in [Messages -> Nat]
      /\ Count(n) \in Messages /\ Asking(Count(n)) /\ net[Count(n)] > 0
      /\ UNCHANGED <<rv, uploads, downloads, duplicates>>
  BY StationItem, AskingMessages DEF ProcessCount, UnderWay
<1>1. downloads # 0
  BY NoItemNoStep DEF ProcessCount
<1>2. link \in [Messages -> Nat]
  BY <1>0, LinkType DEF Without, UnderWay
<1>3. Clean => gs.started /\ gs.result # "Success"
  BY <1>0, PacketTells
<1>4. ASSUME Clean, ~gs.done
      PROVE  /\ NoneIn(link) /\ n = Packed(Len(rv.items)) /\ Len(rv.items) \in 0 .. SeqRange
             /\ uploads = 1 /\ rv.started /\ rv.next = 0 /\ gs.list = <<>>
  <2>1. Counted /\ n = Packed(Len(rv.items))
    BY <1>0, <1>4, CountTells
  <2> QED BY <1>0, <2>1, Taken DEF Counted, Without
<1>5. rv.items \in Seq(Entries)
  BY VehicleList
<1> HIDE DEF link
<1>6. CASE n = 0
  <2> DEFINE t == RemoveTimeout(gs)
  <2>1. t \in DownloadItems /\ SameDownload(gs, t) /\ SameReports(gs, t)
    BY <1>0, DownloadPieces
  <2>2. Finish(t, link, "Accepted", "Success")
    BY <1>6 DEF ProcessCount, link
  <2> HIDE DEF t
  <2>3. t.callback <=> ~t.done
    BY <1>0, <2>1 DEF SameReports
  <2>4. CleanItem(t) => Clean
    BY <2>1 DEF CleanItem, Clean, SameDownload
  <2>5. CleanItem(t) => t.started /\ t.result # "Success"
    BY <1>3, <2>1, <2>4 DEF SameDownload, SameReports
  <2>6. ASSUME CleanItem(t), ~t.done
        PROVE  /\ NoneIn(link) /\ uploads = 1 /\ rv.started
               /\ SameList(t.list, rv.items)
    <3>1. ~gs.done /\ Clean
      BY <2>1, <2>4, <2>6 DEF SameReports
    <3>2. t.list = <<>>
      BY <1>4, <2>1, <3>1 DEF SameDownload
    <3>3. Len(rv.items) = 0 \/ Len(rv.items) = SeqRange
      <4>1. CASE Len(rv.items) \in Indices
        BY <1>4, <1>6, <3>1, <4>1, PackedIs
      <4> QED BY <1>4, <3>1, <4>1, SeqRangeAssumption DEF Indices
    <3>4. Len(<<>>) = 0 /\ DOMAIN <<>> = {}
      OBVIOUS
    <3>5. SameList(t.list, rv.items)
      BY <3>2, <3>3, <3>4 DEF SameList
    <3> QED BY <1>4, <3>1, <3>5
  <2> QED BY <1>0, <1>1, <1>2, <2>1, <2>2, <2>3, <2>5, <2>6, InTurnFinish
<1>7. CASE n # 0
  <2> DEFINE t == [gs EXCEPT !.next = 0, !.step = "RequestItem", !.retries = 0,
                             !.expected = n]
  <2>0. 0 \in 0 .. SeqRange /\ 0 \in Nat /\ 0 \in Indices /\ "RequestItem" \in Steps
    BY SeqRangeAssumption, PackedIs DEF Steps
  <2>1. t \in DownloadItems
    BY <1>0, <2>0 DEF DownloadItems
  <2>2. /\ SameReports(gs, t) /\ t.next = 0 /\ t.expected = n
        /\ t.list = gs.list /\ t.started = gs.started /\ t.resent = gs.resent
    BY <1>0 DEF DownloadItems, SameReports
  <2>3. Ask(t, link, Read(0))
    BY <1>7 DEF ProcessCount, link
  <2> HIDE DEF t
  <2>4. t.callback <=> ~t.done
    BY <1>0, <2>2 DEF SameReports
  <2>5. CleanItem(t) => Clean
    BY <2>2 DEF CleanItem, Clean
  <2>6. CleanItem(t) => t.started /\ t.result # "Success"
    BY <1>3, <2>2, <2>5 DEF SameReports
  <2>7. ASSUME CleanItem(t), ~t.done
        PROVE  /\ NoneIn(link) /\ uploads = 1 /\ rv.started
               /\ 0 = t.next /\ rv.next = t.next
               /\ t.expected = Len(rv.items) /\ Len(rv.items) < SeqRange
               /\ t.next = Len(t.list) /\ t.next < Len(rv.items) /\ Begins(t.list, rv.items)
    <3>1. ~gs.done /\ Clean
      BY <2>2, <2>5, <2>7 DEF SameReports
    <3>2. Len(rv.items) # SeqRange
      BY <1>4, <1>7, <3>1, PackedIs
    <3>3. Len(rv.items) \in Indices
      BY <1>4, <3>1, <3>2, SeqRangeAssumption DEF Indices
    <3>4. n = Len(rv.items) /\ Len(rv.items) < SeqRange
      BY <1>4, <3>1, <3>3, PackedIs, SeqRangeAssumption DEF Indices
    <3>5. t.list = <<>> /\ Len(<<>>) = 0 /\ 0 < n
      BY <1>4, <1>7, <2>2, <3>1, <3>4
    <3> QED BY <1>4, <1>5, <2>2, <3>1, <3>4, <3>5, BeginsEmpty
  <2> QED BY <1>0, <1>1, <1>2, <2>0, <2>1, <2>3, <2>4, <2>6, <2>7, InTurnRead
<1> QED BY <1>6, <1>7

LEMMA InTurnItem ==
  ASSUME IInv, InTurn, NEW e \in Entries, ProcessItem(e), UNCHANGED <<rv, uploads>>
  PROVE  InTurn'
<1> DEFINE link == Without(Item(e))
           s == [gs EXCEPT !.list = Append(@, e)]
<1>0. /\ gs \in DownloadItems /\ (gs.callback <=> ~gs.done)
      /\ net \in [Messages -> Nat]
      /\ Item(e) \in Messages /\ Asking(Item(e)) /\ net[Item(e)] > 0
      /\ UNCHANGED <<rv, uploads, downloads, duplicates>>
  BY StationItem, AskingMessages DEF ProcessItem, UnderWay
<1>1. downloads # 0
  BY NoItemNoStep DEF ProcessItem
<1>2. link \in [Messages -> Nat]
  BY <1>0, LinkType DEF Without, UnderWay
<1>3. Clean => gs.started /\ gs.result # "Success"
  BY <1>0, PacketTells
<1>4. /\ rv.items \in Seq(Entries) /\ Len(rv.items) \in Nat
      /\ gs.list \in Seq(Entries) /\ Len(gs.list) \in Nat /\ gs.next \in Nat
  BY <1>0, VehicleList DEF DownloadItems
<1>5. s \in DownloadItems
  <2>1. Append(gs.list, e) \in Seq(Entries)
    BY <1>4
  <2> QED BY <1>0, <2>1 DEF DownloadItems
<1>6. /\ SameReports(gs, s) /\ s.next = gs.next /\ s.expected = gs.expected
      /\ s.list = Append(gs.list, e) /\ s.started = gs.started /\ s.resent = gs.resent
  BY <1>0 DEF DownloadItems, SameReports
<1>7. ASSUME Clean, ~gs.done
      PROVE  /\ NoneIn(link) /\ Halfway /\ rv.next = gs.next + 1
             /\ e.index = gs.next
             /\ Begins(s.list, rv.items) /\ Len(s.list) = gs.next + 1
  <2>1. Answered /\ e = [index |-> gs.next, name |-> rv.items[gs.next + 1].name]
    BY <1>0, <1>7, ItemTells
  <2>2. Halfway /\ rv.next = gs.next + 1 /\ OnlyIn(net, Item(e))
    BY <2>1 DEF Answered, NextItem
  <2>3. NoneIn(link)
    BY <1>0, <2>2, Taken DEF Without
  <2>4. Begins(gs.list, rv.items) /\ gs.next = Len(gs.list) /\ gs.next < Len(rv.items)
    BY <2>2 DEF Halfway, SoFar
  <2>5. Begins(s.list, rv.items) /\ Len(s.list) = Len(gs.list) + 1
    BY <1>4, <1>6, <2>1, <2>4, BeginsLonger
  <2> QED BY <2>1, <2>2, <2>3, <2>4, <2>5
<1> DEFINE t == [s EXCEPT !.next = e.index + 1, !.retries = 0]
<1>8. \/ gs.next + 1 = gs.expected /\ Finish(RemoveTimeout(s), link, "Accepted", "Success")
      \/ gs.next + 1 # gs.expected /\ Ask(t, link, Read(Packed(e.index + 1)))
  BY DEF ProcessItem
<1>9. e.index + 1 \in 0 .. SeqRange /\ Packed(e.index + 1) \in Indices
  <2>1. e.index \in 0 .. SeqRange - 1 /\ SeqRange \in Nat \ {0}
    BY SeqRangeAssumption DEF Entries, Indices
  <2>2. (e.index + 1) % SeqRange \in 0 .. SeqRange - 1
    BY <2>1
  <2> QED BY <2>1, <2>2 DEF Packed, Indices
<1> HIDE DEF link, s
<1>10. CleanItem(s) => Clean
  BY <1>6 DEF CleanItem, Clean
<1>11. CASE gs.next + 1 = gs.expected /\ Finish(RemoveTimeout(s), link, "Accepted", "Success")
  <2> DEFINE u == RemoveTimeout(s)
  <2>1. u \in DownloadItems /\ SameDownload(s, u) /\ SameReports(s, u)
    BY <1>5, DownloadPieces
  <2>2. Finish(u, link, "Accepted", "Success")
    BY <1>11
  <2> HIDE DEF u
  <2>3. u.callback <=> ~u.done
    BY <1>0, <1>6, <2>1 DEF SameReports
  <2>4. CleanItem(u) => Clean
    BY <1>10, <2>1 DEF CleanItem, SameDownload
  <2>5. CleanItem(u) => u.started /\ u.result # "Success"
    BY <1>3, <1>6, <2>1, <2>4 DEF SameDownload, SameReports
  <2>6. ASSUME CleanItem(u), ~u.done
        PROVE  /\ NoneIn(link) /\ uploads = 1 /\ rv.started
               /\ SameList(u.list, rv.items)
    <3>1. ~gs.done /\ Clean /\ u.list = s.list
      BY <1>6, <2>1, <2>4, <2>6 DEF SameReports, SameDownload
    <3>2. Halfway /\ Begins(u.list, rv.items) /\ Len(u.list) = Len(rv.items)
      BY <1>7, <1>11, <3>1 DEF Halfway
    <3>3. Len(rv.items) # SeqRange
      BY <1>4, <3>2, SeqRangeAssumption DEF Halfway
    <3>4. SameList(u.list, rv.items)
      BY <3>2, <3>3 DEF SameList, Begins
    <3> QED BY <1>7, <3>1, <3>4 DEF Halfway
  <2> QED BY <1>0, <1>1, <1>2, <2>1, <2>2, <2>3, <2>5, <2>6, InTurnFinish
<1>12. CASE gs.next + 1 # gs.expected /\ Ask(t, link, Read(Packed(e.index + 1)))
  <2>1. t \in DownloadItems
    BY <1>5, <1>9 DEF DownloadItems
  <2>2. /\ SameReports(s, t) /\ t.next = e.index + 1 /\ t.expected = s.expected
        /\ t.list = s.list /\ t.started = s.started /\ t.resent = s.resent
    BY <1>5 DEF DownloadItems, SameReports
  <2>3. Ask(t, link, Read(Packed(e.index + 1)))
    BY <1>12
  <2> HIDE DEF t
  <2>4. t.callback <=> ~t.done
    BY <1>0, <1>6, <2>2 DEF SameReports
  <2>5. CleanItem(t) => Clean
    BY <1>10, <2>2 DEF CleanItem
  <2>6. CleanItem(t) => t.started /\ t.result # "Success"
    BY <1>3, <1>6, <2>2, <2>5 DEF SameReports
  <2>7. ASSUME CleanItem(t), ~t.done
        PROVE  /\ NoneIn(link) /\ uploads = 1 /\ rv.started
               /\ Packed(e.index + 1) = t.next /\ rv.next = t.next
               /\ t.expected = Len(rv.items) /\ Len(rv.items) < SeqRange
               /\ t.next = Len(t.list) /\ t.next < Len(rv.items) /\ Begins(t.list, rv.items)
    <3>1. ~gs.done /\ Clean
      BY <1>6, <2>2, <2>5, <2>7 DEF SameReports
    <3>2. gs.expected = Len(rv.items) /\ gs.next < Len(rv.items) /\ Len(rv.items) < SeqRange
      BY <1>7, <3>1 DEF Halfway
    <3>3. gs.next + 1 < Len(rv.items)
      BY <1>4, <1>12, <3>2
    <3>4. e.index = gs.next
      BY <1>7, <3>1
    <3>5. e.index + 1 \in Indices
      BY <1>4, <3>2, <3>3, <3>4, SeqRangeAssumption DEF Indices
    <3>6. Packed(e.index + 1) = t.next
      BY <2>2, <3>5, PackedIs
    <3> QED BY <1>6, <1>7, <2>2, <3>1, <3>2, <3>3, <3>6 DEF Halfway
  <2> QED BY <1>0, <1>1, <1>2, <1>9, <2>1, <2>3, <2>4, <2>6, <2>7, InTurnRead
<1> QED BY <1>8, <1>11, <1>12

LEMMA ReportedKeepsResent ==
  ASSUME NEW s \in DownloadItems, NEW r
  PROVE  CallbackAndReset(s, r).resent = s.resent
<1> DEFINE n == IF s.callback THEN s.reports + 1 ELSE s.reports
           q == IF s.callback THEN r ELSE s.result
           t == CallbackAndReset(s, r)
<1>1. t = [s EXCEPT !.reports = n, !.result = q, !.callback = FALSE, !.done = TRUE]
  BY DEF CallbackAndReset
<1> HIDE DEF n, q, t
<1>2. t.resent = s.resent
  BY <1>1 DEF DownloadItems
<1> QED BY <1>2 DEF t

\* process_timeout(): an item that asked again is not clean any more.
LEMMA InTurnTimeout ==
  ASSUME IInv, InTurn, GSTimeout, UNCHANGED <<rv, uploads>>
  PROVE  InTurn'
<1> DEFINE s == [gs EXCEPT !.firing = FALSE]
           u == [s EXCEPT !.resent = TRUE]
           t == AddTimeout(u)
<1>0. /\ gs \in DownloadItems /\ (gs.callback <=> ~gs.done)
      /\ UNCHANGED <<rv, uploads, downloads, duplicates>>
  BY StationItem DEF GSTimeout
<1>1. downloads # 0
  BY NoItemNoStep DEF GSTimeout
<1>2. /\ s \in DownloadItems /\ SameDownload(gs, s) /\ SameReports(gs, s)
  BY <1>0 DEF DownloadItems, SameDownload, SameReports
<1>3. \/ gs' = CallbackAndReset(s, "Timeout") /\ net' = net
      \/ \E m : Ask(t, net, m)
  BY DEF GSTimeout
<1> HIDE DEF s
<1>4. u \in DownloadItems /\ u.resent = TRUE
  BY <1>2 DEF DownloadItems
<1> HIDE DEF u
<1>5. t \in DownloadItems /\ t.resent = TRUE
  BY <1>4, DownloadPieces DEF SameDownload
<1> HIDE DEF t
<1>6. CASE gs' = CallbackAndReset(s, "Timeout") /\ net' = net
  <2>1. Idles(gs, gs')
    BY <1>0, <1>2, <1>6, FailedIdles
  <2>2. Alike(net, net')
    BY <1>6 DEF Alike
  <2> QED BY <1>0, <1>1, <2>1, <2>2, StationIdles
<1>7. ASSUME NEW m, Ask(t, net, m) PROVE InTurn'
  <2>1. CASE gs' = [t EXCEPT !.retries = @ + 1]
    <3>1. gs'.resent = TRUE
      BY <1>5, <2>1 DEF DownloadItems
    <3> QED BY <1>0, <1>1, <3>1 DEF InTurn, Clean
  <2>2. CASE gs' = CallbackAndReset(RemoveTimeout(t), "ConnectionError")
    <3> DEFINE v == RemoveTimeout(t)
    <3>1. v \in DownloadItems /\ v.resent = TRUE
      BY <1>5, DownloadPieces DEF SameDownload
    <3>2. gs' = CallbackAndReset(v, "ConnectionError")
      BY <2>2
    <3> HIDE DEF v
    <3>3. gs'.resent = TRUE
      BY <3>1, <3>2, ReportedKeepsResent
    <3> QED BY <1>0, <1>1, <3>3 DEF InTurn, Clean
  <2> QED BY <1>7, <2>1, <2>2 DEF Ask
<1> QED BY <1>3, <1>6, <1>7

\* Every step of the ground station.
LEMMA InTurnStation ==
  ASSUME IInv, InTurn, GSNext, UNCHANGED <<rv, uploads>>
  PROVE  InTurn'
<1>1. CASE Download
  BY <1>1, InTurnDownload
<1>2. CASE GSHold \/ GSCancel \/ GSPop \/ GSExpire
  BY <1>2, InTurnQuiet
<1>3. CASE GSStart
  BY <1>3, InTurnStart
<1>4. CASE GSTimeout
  BY <1>4, InTurnTimeout
<1>5. CASE GSReceive
  BY <1>5, InTurnCount, InTurnItem DEF GSReceive
<1> QED BY <1>1, <1>2, <1>3, <1>4, <1>5 DEF GSNext
-----------------------------------------------------------------------------
(***************************************************************************)
(* The robotic vehicle.                                                    *)
(***************************************************************************)
LEMMA NoUploadNoStep ==
  ASSUME InTurn, uploads = 0
  PROVE  ~Alive(rv) /\ ~rv.firing /\ Expired(rv) = {} /\ ~rv.queued /\ ~rv.held
  BY DEF InTurn, NoUpload, Alive, Expired

LEMMA InTurnVehicleQuiet ==
  ASSUME IInv, InTurn, UNCHANGED <<gs, downloads>>,
         RVHold \/ RVCancel \/ RVPop \/ RVExpire \/ RVTimeout
  PROVE  InTurn'
<1>0. rv \in UploadItems /\ UNCHANGED <<net, duplicates, uploads>>
  BY StationItem DEF RVHold, RVCancel, RVPop, RVExpire, RVTimeout, linkVars
<1>1. uploads # 0
  BY NoUploadNoStep DEF RVHold, RVCancel, RVPop, RVExpire, RVTimeout, CanHold, CanPop
<1>2. ASSUME RVHold PROVE SameUpload(rv, rv')
  BY <1>0, <1>2 DEF RVHold, Held, SameUpload, UploadItems
<1>3. ASSUME RVCancel PROVE SameUpload(rv, rv')
  <2> DEFINE r == RemoveTimeout(rv)
             t == [r EXCEPT !.held = FALSE]
             u == LetGo(r)
  <2>1. r \in UploadItems /\ SameUpload(rv, r)
    BY <1>0, UploadPieces
  <2>2. u = t \/ u = RemoveTimeout(t)
    BY DEF LetGo, Released
  <2> HIDE DEF r
  <2>3. t \in UploadItems /\ SameUpload(r, t)
    BY <2>1 DEF UploadItems, SameUpload
  <2> HIDE DEF t
  <2>4. u \in UploadItems /\ SameUpload(t, u)
    BY <2>2, <2>3, UploadPieces DEF SameUpload
  <2>5. \E q : rv' = Report(u, q)
    BY <1>3 DEF RVCancel, r
  <2> HIDE DEF u
  <2>6. SameUpload(u, rv')
    BY <2>4, <2>5, UploadPieces
  <2>7. SameUpload(rv, rv')
    BY <2>1, <2>3, <2>4, <2>6 DEF SameUpload
  <2> QED BY <2>7
<1>4. ASSUME RVPop PROVE SameUpload(rv, rv')
  <2> DEFINE t == [rv EXCEPT !.queued = FALSE]
  <2>1. rv' = t \/ rv' = RemoveTimeout(t)
    BY <1>4 DEF RVPop, Popped, Released
  <2>2. t \in UploadItems /\ SameUpload(rv, t)
    BY <1>0 DEF UploadItems, SameUpload
  <2> HIDE DEF t
  <2>3. SameUpload(rv, rv')
    BY <2>1, <2>2, UploadPieces DEF SameUpload
  <2> QED BY <2>3
<1>5. ASSUME RVExpire PROVE SameUpload(rv, rv')
  <2>1. \/ rv' = [rv EXCEPT !.armed = FALSE, !.firing = TRUE]
        \/ rv' = [rv EXCEPT !.orphans = @ - 1, !.firing = TRUE]
    BY <1>5 DEF RVExpire, Expired
  <2>2. SameUpload(rv, rv')
    BY <1>0, <2>1 DEF SameUpload, UploadItems
  <2> QED BY <2>2
<1>6. ASSUME RVTimeout PROVE SameUpload(rv, rv')
  <2> DEFINE t == [rv EXCEPT !.firing = FALSE]
  <2>1. t \in UploadItems /\ SameUpload(rv, t)
    BY <1>0 DEF UploadItems, SameUpload
  <2>2. rv' = Report(t, "Timeout")
    BY <1>6 DEF RVTimeout
  <2> HIDE DEF t
  <2>3. SameUpload(rv, rv')
    BY <2>1, <2>2, UploadPieces DEF SameUpload
  <2> QED BY <2>3
<1>7. SameUpload(rv, rv')
  BY <1>2, <1>3, <1>4, <1>5, <1>6
<1>8. Alike(net, net')
  BY <1>0 DEF Alike
<1> QED BY <1>0, <1>1, <1>7, <1>8, VehicleIdles

\* process_alarm_ack(): an acknowledgement is not what the others wait for.
LEMMA InTurnAck ==
  ASSUME IInv, InTurn, NEW a \in AckTypes, ProcessAck(a), UNCHANGED <<gs, downloads>>
  PROVE  InTurn'
<1> DEFINE r == RemoveTimeout(rv)
           t == [r EXCEPT !.ack = a]
<1>0. rv \in UploadItems /\ net \in [Messages -> Nat] /\ UNCHANGED <<duplicates, uploads>>
  BY StationItem DEF ProcessAck
<1>1. uploads # 0
  BY NoUploadNoStep DEF ProcessAck
<1>2. r \in UploadItems /\ SameUpload(rv, r)
  BY <1>0, UploadPieces
<1>3. \E q : rv' = Report(t, q)
  BY DEF ProcessAck
<1> HIDE DEF r
<1>4. t \in UploadItems /\ SameUpload(r, t)
  BY <1>2 DEF UploadItems, SameUpload, Acks
<1> HIDE DEF t
<1>5. SameUpload(t, rv')
  BY <1>3, <1>4, UploadPieces
<1>6. SameUpload(rv, rv')
  BY <1>2, <1>4, <1>5 DEF SameUpload
<1>7. Alike(net, net')
  BY <1>0, AckIsAlike DEF ProcessAck, Without
<1> QED BY <1>0, <1>1, <1>6, <1>7, VehicleIdles

\* A step of the vehicle that brings the transfer to another stage.
LEMMA VehicleActs ==
  ASSUME InTurn, UNCHANGED <<gs, downloads, duplicates>>,
         uploads' = 0 => rv' = NoUpload,
         Clean => gs.started /\ gs.result # "Success",
         Clean /\ ~gs.done => Stage'
  PROVE  InTurn'
<1>1. Clean' => Clean
  BY DEF Clean
<1> QED BY <1>1 DEF InTurn

\* start(): the length of the list goes out, or an answer will never come.
LEMMA InTurnVehicleStart ==
  ASSUME IInv, InTurn, RVStart, UNCHANGED <<gs, downloads>>
  PROVE  InTurn'
<1> DEFINE b == [rv EXCEPT !.started = TRUE, !.retries = 0]
           s == AddTimeout(b)
           t == [s EXCEPT !.next = 0, !.reads = rv.items # <<>>]
<1>0. /\ rv \in UploadItems /\ net \in [Messages -> Nat]
      /\ ~rv.started /\ UNCHANGED <<gs, downloads, duplicates, uploads>>
  BY StationItem DEF RVStart, CanStart
<1>1. uploads # 0
  BY NoUploadNoStep DEF RVStart, CanStart
<1>2. Clean => gs.started /\ gs.result # "Success"
  BY <1>0, <1>1 DEF InTurn, Complete
<1>3. ASSUME Clean, ~gs.done PROVE Begun
  <2>1. Stage
    BY <1>2, <1>3 DEF InTurn
  <2> QED BY <1>0, <1>1, <2>1 DEF Stage, Asked, Counted, Reading, Answered, Halfway, Broken
<1>4. /\ rv.items \in Seq(Entries)
      /\ Numbered(rv.items) => Len(rv.items) \in 0 .. SeqRange
  BY VehicleList, NumberedIsShort
<1>5. \/ rv' = Report(s, "InvalidSequence") /\ net' = net
      \/ SendCount(t) /\ Numbered(rv.items)
  BY DEF RVStart
<1>6. b \in UploadItems /\ b.started = TRUE /\ b.items = rv.items
  BY <1>0 DEF UploadItems
<1> HIDE DEF b
<1>7. s \in UploadItems /\ s.started = TRUE /\ s.items = rv.items
  BY <1>6, UploadPieces DEF SameUpload
<1> HIDE DEF s
<1>8. 0 \in 0 .. SeqRange /\ (rv.items # <<>>) \in BOOLEAN
  BY SeqRangeAssumption
<1>9. t \in UploadItems /\ t.started = TRUE /\ t.items = rv.items /\ t.next = 0
  BY <1>7, <1>8 DEF UploadItems
<1> HIDE DEF t
<1>10. ASSUME net' = net, rv'.started = TRUE, Clean, ~gs.done PROVE Stage'
  <2>1. NoneIn(net') /\ uploads' = 1
    BY <1>0, <1>3, <1>10 DEF Begun
  <2> QED BY <1>10, <2>1 DEF Stage, Broken
<1>11. CASE rv' = Report(s, "InvalidSequence") /\ net' = net
  <2>1. rv'.started = TRUE
    BY <1>7, <1>11, UploadPieces DEF SameUpload
  <2> QED BY <1>0, <1>1, <1>2, <1>10, <1>11, <2>1, VehicleActs
<1>12. CASE SendCount(t) /\ Numbered(rv.items)
  <2>0. Len(rv.items) \in 0 .. SeqRange /\ Packed(Len(rv.items)) \in Indices
    <3>1. Len(rv.items) \in 0 .. SeqRange
      BY <1>4, <1>12
    <3>2. CASE Len(rv.items) \in Indices
      <4>1. Packed(Len(rv.items)) = Len(rv.items)
        BY <3>2, PackedIs
      <4> QED BY <3>1, <3>2, <4>1
    <3>3. CASE Len(rv.items) = SeqRange
      BY <3>1, <3>3, PackedIs
    <3> QED BY <3>1, <3>2, <3>3, SeqRangeAssumption DEF Indices
  <2>1. CASE rv' = [t EXCEPT !.retries = @ + 1]
             /\ net' = With(net, Count(Packed(Len(t.items))))
    <3>1. rv'.started = TRUE /\ rv'.items = rv.items /\ rv'.next = 0
      BY <1>9, <2>1 DEF UploadItems
    <3>2. ASSUME Clean, ~gs.done PROVE Counted'
      <4>1. OnlyIn(net', Count(Packed(Len(rv.items))))
        BY <1>0, <1>3, <1>9, <2>0, <2>1, <3>2, Given, AskingMessages DEF Begun
      <4> QED BY <1>0, <1>3, <2>0, <3>1, <3>2, <4>1 DEF Begun, Counted
    <3> QED BY <1>0, <1>1, <1>2, <3>2, VehicleActs DEF Stage
  <2>2. CASE rv' = Report(RemoveTimeout(t), "ConnectionError") /\ net' = net
    <3>1. rv'.started = TRUE
      BY <1>9, <2>2, UploadPieces DEF SameUpload
    <3> QED BY <1>0, <1>1, <1>2, <1>10, <2>2, <3>1, VehicleActs
  <2> QED BY <1>12, <2>1, <2>2 DEF SendCount
<1> QED BY <1>5, <1>11, <1>12

\* upload_alarm(): the request begins an upload or is ignored.
LEMMA InTurnRequest ==
  ASSUME IInv, InTurn, ProcessRequest, UNCHANGED <<gs, downloads>>
  PROVE  InTurn'
<1>0. /\ net \in [Messages -> Nat] /\ uploads \in Nat
      /\ Request \in Messages /\ Asking(Request) /\ net[Request] > 0
      /\ UNCHANGED <<gs, downloads, duplicates>>
      /\ net' = Without(Request)
  BY StationItem, AskingMessages DEF ProcessRequest, UnderWay
<1>1. Clean => gs.started /\ gs.result # "Success"
  BY <1>0, PacketTells
<1>2. ASSUME Clean, ~gs.done PROVE Asked
  <2>1. Stage /\ ~NoneIn(net)
    BY <1>0, <1>2, PacketTells, NoneUnderWay
  <2>2. ASSUME NEW m, OnlyIn(net, m) PROVE m = Request
    BY <1>0, <2>2, OnlyOne
  <2>3. ~Counted
    BY <2>2 DEF Counted, Count, Request
  <2>4. ~Reading
    BY <2>2 DEF Reading, Read, Request
  <2>5. ~Answered
    BY <2>2 DEF Answered, NextItem, Item, Request
  <2> QED BY <2>1, <2>3, <2>4, <2>5 DEF Stage, Begun, Broken
<1>3. ASSUME Clean, ~gs.done PROVE NoneIn(net') /\ uploads = 0 /\ gs.list = <<>>
  BY <1>0, <1>2, <1>3, Taken DEF Asked, Without
<1>4. CASE rv' = NewUpload /\ uploads' = uploads + 1
  <2>1. ~rv'.started
    BY <1>4 DEF NewUpload, NoUpload
  <2>2. Clean /\ ~gs.done => Begun'
    BY <1>0, <1>3, <1>4, <2>1 DEF Begun
  <2>3. uploads' # 0
    BY <1>0, <1>4
  <2> QED BY <1>0, <1>1, <2>2, <2>3, VehicleActs DEF Stage
<1>5. CASE UNCHANGED <<rv, uploads>>
  <2>1. Clean /\ ~gs.done => Broken'
    BY <1>3, <1>5 DEF Broken
  <2>2. uploads' = 0 => rv' = NoUpload
    BY <1>5 DEF InTurn
  <2> QED BY <1>0, <1>1, <2>1, <2>2, VehicleActs DEF Stage
<1> QED BY <1>4, <1>5 DEF ProcessRequest

\* process_alarm_read(): in turn, the READ is for the next entry.
LEMMA InTurnServe ==
  ASSUME IInv, InTurn, NEW i \in Indices, ProcessRead(i), UNCHANGED <<gs, downloads>>
  PROVE  InTurn'
<1> DEFINE link == Without(Read(i))
           s == [rv EXCEPT !.retries = 0]
<1>0. /\ rv \in UploadItems /\ net \in [Messages -> Nat]
      /\ Read(i) \in Messages /\ Asking(Read(i)) /\ net[Read(i)] > 0
      /\ UNCHANGED <<gs, downloads, duplicates, uploads>>
  BY StationItem, AskingMessages DEF ProcessRead, UnderWay
<1>1. uploads # 0
  BY NoUploadNoStep DEF ProcessRead
<1>2. Clean => gs.started /\ gs.result # "Success"
  BY <1>0, PacketTells
<1>3. ASSUME Clean, ~gs.done PROVE Reading /\ i = rv.next /\ NoneIn(link)
  <2>1. Stage /\ ~NoneIn(net)
    BY <1>0, <1>3, PacketTells, NoneUnderWay
  <2>2. ASSUME NEW m, OnlyIn(net, m) PROVE m = Read(i)
    BY <1>0, <2>2, OnlyOne
  <2>3. ~Counted
    BY <2>2 DEF Counted, Count, Read
  <2>4. ~Asked
    BY <2>2 DEF Asked, Read, Request
  <2>5. ~Answered
    BY <2>2 DEF Answered, NextItem, Item, Read
  <2>6. Reading
    BY <2>1, <2>3, <2>4, <2>5 DEF Stage, Begun, Broken
  <2>7. Read(gs.next) = Read(i)
    BY <2>2, <2>6 DEF Reading
  <2>8. i = rv.next
    BY <2>6, <2>7 DEF Read, Reading
  <2>9. NoneIn(link)
    BY <1>0, <2>6, <2>7, Taken DEF Reading, Without
  <2> QED BY <2>6, <2>8, <2>9
<1>4. Clean /\ ~gs.done => Stage'
  <2> SUFFICES ASSUME Clean, ~gs.done PROVE Stage'
    OBVIOUS
  <2>1. Reading /\ i = rv.next /\ NoneIn(link)
    BY <1>3
  <2>2. /\ Halfway /\ rv.next = gs.next /\ gs.next < Len(rv.items)
        /\ Len(rv.items) < SeqRange
    BY <2>1 DEF Reading, Halfway
  <2>3. rv.next \in Nat /\ ~(i < rv.next) /\ ~(i > rv.next)
    BY <1>0, <2>1, SeqRangeAssumption DEF UploadItems
  <2>4. SendItem(s, link)
    BY <2>3 DEF ProcessRead
  <2>5. s \in UploadItems /\ s.next = rv.next /\ s.items = rv.items /\ s.started = rv.started
    BY <1>0 DEF UploadItems
  <2>6. rv.items \in Seq(Entries) /\ Len(rv.items) \in Nat
    BY VehicleList
  <2> DEFINE t == [s EXCEPT !.next = @ + 1]
  <2> HIDE DEF s, link
  <2>7. s.next + 1 \in 0 .. SeqRange /\ ~(s.next >= Len(s.items))
    BY <2>2, <2>3, <2>5, <2>6, SeqRangeAssumption
  <2>8. t \in UploadItems /\ t.next = rv.next + 1 /\ t.items = rv.items /\ t.started = rv.started
    BY <2>5, <2>7 DEF UploadItems
  <2> DEFINE e == [index |-> s.next, name |-> s.items[s.next + 1].name]
             sent == s.sent \cup {s.next}
  <2>9. \/ rv' = [t EXCEPT !.retries = @ + 1, !.sent = sent] /\ net' = With(link, Item(e))
        \/ rv' = Report(RemoveTimeout(t), "ConnectionError") /\ net' = link
    <3>1. PICK out \in SendOutcomes :
            IF out
            THEN /\ rv' = [t EXCEPT !.retries = @ + 1, !.sent = @ \cup {s.next}]
                 /\ net' = With(link, Item(e))
            ELSE rv' = Report(RemoveTimeout(t), "ConnectionError") /\ net' = link
      BY <2>4, <2>7 DEF SendItem
    <3>2. t.sent = s.sent
      BY <2>5 DEF UploadItems
    <3> HIDE DEF t, e
    <3>3. [t EXCEPT !.retries = @ + 1, !.sent = @ \cup {s.next}]
            = [t EXCEPT !.retries = @ + 1, !.sent = sent]
      BY <3>2
    <3> QED BY <3>1, <3>3
  <2> HIDE DEF t, sent
  <2>10. CASE rv' = [t EXCEPT !.retries = @ + 1, !.sent = sent] /\ net' = With(link, Item(e))
    <3>1. rv'.next = rv.next + 1 /\ rv'.items = rv.items /\ rv'.started = rv.started
      BY <2>8, <2>10 DEF UploadItems
    <3>2. e \in Entries
      <4>1. s.next + 1 \in 1 .. Len(s.items) /\ s.items \in Seq(Entries)
        BY <2>2, <2>3, <2>5, <2>6
      <4>2. s.items[s.next + 1] \in Entries
        BY <4>1
      <4>3. s.next \in Indices
        BY <2>2, <2>3, <2>5, <2>6, SeqRangeAssumption DEF Indices
      <4> QED BY <4>2, <4>3 DEF Entries
    <3>3. NextItem' = Item(e)
      BY <1>0, <2>2, <2>5, <3>1 DEF NextItem
    <3> HIDE DEF e
    <3>4. link \in [Messages -> Nat]
      BY <1>0, LinkType DEF UnderWay, link, Without
    <3>5. OnlyIn(net', NextItem')
      BY <2>1, <2>10, <3>2, <3>3, <3>4, Given, AskingMessages
    <3>6. Halfway'
      BY <1>0, <2>2, <3>1 DEF Halfway, SoFar
    <3>7. Answered'
      BY <1>0, <2>2, <3>1, <3>5, <3>6 DEF Answered
    <3> QED BY <3>7 DEF Stage
  <2>11. CASE rv' = Report(RemoveTimeout(t), "ConnectionError") /\ net' = link
    <3>1. RemoveTimeout(t) \in UploadItems /\ SameUpload(t, RemoveTimeout(t))
      BY <2>8, UploadPieces
    <3>2. SameUpload(RemoveTimeout(t), rv')
      BY <2>11, <3>1, UploadPieces
    <3>3. rv'.started = rv.started
      BY <2>8, <3>1, <3>2 DEF SameUpload
    <3>4. Broken'
      BY <1>0, <2>1, <2>2, <2>11, <3>3 DEF Broken, Halfway
    <3> QED BY <3>4 DEF Stage
  <2> QED BY <2>9, <2>10, <2>11
<1> QED BY <1>0, <1>1, <1>2, <1>4, VehicleActs

\* Every step of the vehicle.
LEMMA InTurnVehicle ==
  ASSUME IInv, InTurn, RVNext, UNCHANGED <<gs, downloads>>
  PROVE  InTurn'
<1>1. ASSUME NEW l, Offer(l) \/ SetList(l) PROVE InTurn'
  BY <1>1, NeitherMoves DEF Offer, SetList, linkVars
<1>2. CASE RVHold \/ RVCancel \/ RVPop \/ RVExpire \/ RVTimeout
  BY <1>2, InTurnVehicleQuiet
<1>3. CASE RVStart
  BY <1>3, InTurnVehicleStart
<1>4. CASE RVReceive
  BY <1>4, InTurnRequest, InTurnServe, InTurnAck DEF RVReceive
<1> QED BY <1>1, <1>2, <1>3, <1>4 DEF RVNext
-----------------------------------------------------------------------------
(***************************************************************************)
(* The invariant and the theorem.                                          *)
(***************************************************************************)
LEMMA InTurnInit == Init => InTurn
<1> SUFFICES ASSUME Init PROVE InTurn
  OBVIOUS
<1>1. NoneIn(net)
  <2> HIDE DEF Messages
  <2> QED BY DEF Init, LinkInit, NoneIn
<1>2. gs = NoDownload /\ rv = NoUpload /\ uploads = 0
  BY DEF Init, GSInit, RVInit
<1>3. gs.started = FALSE /\ gs.result # "Success"
  BY <1>2 DEF NoDownload, NoResult
<1>4. Clean /\ ~gs.started => NoneIn(net) /\ uploads = 0
  BY <1>1, <1>2
<1>5. ~(Clean /\ gs.started /\ ~gs.done)
  BY <1>3
<1>6. ~(Clean /\ gs.result = "Success")
  BY <1>3
<1> QED BY <1>2, <1>4, <1>5, <1>6 DEF InTurn

LEMMA InTurnNext == IInv /\ InTurn /\ [Next]_vars => InTurn'
<1> SUFFICES ASSUME IInv, InTurn, [Next]_vars PROVE InTurn'
  OBVIOUS
<1>1. CASE GroundStation
  BY <1>1, InTurnStation DEF GroundStation, rvVars
<1>2. CASE RoboticVehicle
  BY <1>2, InTurnVehicle DEF RoboticVehicle, gsVars
<1>3. CASE Network
  <2>1. duplicates \in Nat /\ duplicates' = duplicates + 1 /\ UNCHANGED <<gsVars, rvVars>>
    BY <1>3, LinkAssumption DEF Network, Duplicate, IInv, LinkOK
  <2>2. duplicates' # 0
    BY <2>1
  <2>3. UNCHANGED <<gs, downloads, rv, uploads>>
    BY <2>1 DEF gsVars, rvVars
  <2> QED BY <2>2, <2>3 DEF InTurn, Clean
<1>4. CASE UNCHANGED vars
  BY <1>4, NeitherMoves DEF vars, linkVars, gsVars, rvVars
<1> QED BY <1>1, <1>2, <1>3, <1>4 DEF Next

LEMMA InTurnInvariance == Spec => [](IInv /\ InTurn)
<1>1. Init => IInv /\ InTurn
  BY InvInit, InTurnInit
<1>2. (IInv /\ InTurn) /\ [Next]_vars => (IInv /\ InTurn)'
  BY InvNext, InTurnNext
<1> QED BY <1>1, <1>2, PTL DEF Spec

\* A download during which neither the station nor the network repeated a
\* packet, and which reports Success, has the vehicle's entries in their
\* order, each once: process_alarm_item() appends what it receives and looks
\* at no index, so only the turns of the protocol make the list right.  The
\* exception is a list of SeqRange (65536) entries, the longest that start()
\* lets through: send_count() packs its length into a uint16_t as 0, and the
\* station succeeds with an empty list.
THEOREM UndisturbedDownloadIsExact == Spec => []SuccessWithoutRepeatsIsExact
<1>1. InTurn => SuccessWithoutRepeatsIsExact
  <2> SUFFICES ASSUME InTurn, NothingRepeated, gs.result = "Success"
               PROVE  SameList(gs.list, rv.items)
    BY DEF SuccessWithoutRepeatsIsExact
  <2>1. Clean
    BY DEF NothingRepeated, Clean
  <2>2. Complete
    BY <2>1 DEF InTurn
  <2> QED BY <2>2 DEF Complete
<1> QED BY <1>1, InTurnInvariance, PTL
=============================================================================
