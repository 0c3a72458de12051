-------------------------- MODULE MavsdkThreads_proof --------------------------
(***************************************************************************)
(* Proofs about MavsdkThreads, for every set of items, addresses and       *)
(* waypoints and every limit of the queue.                                 *)
(***************************************************************************)
EXTENDS MavsdkThreads, TLAPS

USE TimeoutAssumption, CallbacksAssumption, SeqsAssumption, ReportsAssumption,
    ThreadsAssumption, NotificationAssumption

(***************************************************************************)
(* Types.                                                                  *)
(***************************************************************************)
LEMMA AddType ==
  ASSUME TimersOK, NEW o \in Owners, Add(o)
  PROVE  /\ timeouts' \in [Addresses -> Owners \cup {Nobody}]
         /\ cookie' \in [Owners -> Addresses \cup {Null}]
         /\ reused' \in BOOLEAN
<1> PICK a \in Addresses :
       /\ timeouts' = [timeouts EXCEPT ![a] = o]
       /\ cookie' = [cookie EXCEPT ![o] = a]
       /\ reused' = (reused \/ \E p \in Owners \ {o} : cookie[p] = a)
  BY Zenon DEF Add, Places, Free
<1>1. /\ timeouts' \in [Addresses -> Owners \cup {Nobody}]
      /\ cookie' \in [Owners -> Addresses \cup {Null}]
  BY DEF TimersOK
<1>2. reused' \in BOOLEAN
  BY Zenon DEF TimersOK
<1> QED BY <1>1, <1>2

LEMMA RemoveType ==
  ASSUME TimersOK, NEW o \in Owners, Remove(o)
  PROVE  timeouts' \in [Addresses -> Owners \cup {Nobody}]
  BY DEF TimersOK, Remove

LEMMA ClearType ==
  ASSUME TimersOK, NEW o \in Owners
  PROVE  [cookie EXCEPT ![o] = Null] \in [Owners -> Addresses \cup {Null}]
  BY DEF TimersOK

LEMMA ExpireType ==
  ASSUME TimersOK, NEW a \in Addresses, Expire(a)
  PROVE  TimersOK'
  BY DEF TimersOK, Expire

LEMMA AskType ==
  ASSUME CallbacksOK, NEW c \in Callers, NEW f \in Callbacks, CallUserCallback(c, f)
  PROVE  CallbacksOK'
  BY DEF CallbacksOK, CallUserCallback

LEMMA EnqueueType ==
  ASSUME CallbacksOK, NEW c \in Callers, Enqueue(c)
  PROVE  CallbacksOK'
<1>1. asked[c] \in Callbacks
  BY DEF CallbacksOK, Enqueue, Asking
<1>2. queue' \in Seq(Callbacks)
  BY <1>1 DEF CallbacksOK, Enqueue
<1>3. /\ asked' \in [Callers -> Callbacks \cup {NoCallback}]
      /\ full' \in [Callers -> BOOLEAN]
  BY DEF CallbacksOK, Enqueue
<1> QED BY <1>2, <1>3 DEF CallbacksOK, Enqueue

LEMMA DequeueType ==
  ASSUME CallbacksOK, Dequeue
  PROVE  CallbacksOK'
  BY DEF CallbacksOK, Dequeue

LEMMA NoProgressType == NoProgress \in Progress
  BY DEF NoProgress, Progress, None

LEMMA StoreType ==
  ASSUME ProgressOK, NEW field \in {"current", "reached"}, NEW n \in Seqs, Store(field, n)
  PROVE  ProgressOK'
<1>1. stored' \in Progress
  BY DEF ProgressOK, Store, Progress
<1> QED BY <1>1 DEF ProgressOK, Store

LEMMA ResetType ==
  ASSUME ProgressOK, Reset
  PROVE  ProgressOK'
  BY NoProgressType DEF ProgressOK, Reset
-----------------------------------------------------------------------------
LEMMA TypeInit == Init => TypeOK
<1> SUFFICES ASSUME Init PROVE TypeOK
  OBVIOUS
<1>1. TimersOK
  BY DEF Init, TimersInit, TimersOK
<1>2. CallbacksOK
  <2>1. queue \in Seq(Callbacks)
    <3>1. queue = << >>
      BY DEF Init, CallbacksInit
    <3> QED BY <3>1
  <2>2. /\ asked \in [Callers -> Callbacks \cup {NoCallback}]
        /\ full \in [Callers -> BOOLEAN]
    BY DEF Init, CallbacksInit
  <2>3. raced \in BOOLEAN
    BY Zenon DEF Init, CallbacksInit
  <2>4. /\ runner = "looping" /\ running = NoCallback /\ shutdown = "not begun"
    BY DEF Init, CallbacksInit
  <2> QED BY <2>1, <2>2, <2>3, <2>4 DEF CallbacksOK, Shutdown
<1>3. ProgressOK
  BY NoProgressType DEF Init, ProgressInit, ProgressOK
<1>4. SystemOK
  <2>1. 0 \in 0 .. MaxEvents
    BY SMT
  <2> QED BY <2>1 DEF Init, SystemOK
<1> QED BY <1>1, <1>2, <1>3, <1>4 DEF TypeOK

\* Every item and the two owners that are no items.
LEMMA OwnersKnown ==
  /\ \A i \in Items : i \in Owners
  /\ "heartbeats" \in Owners /\ "watchdog" \in Owners
  /\ \A i \in Items : i # "heartbeats" /\ i # "watchdog"
  OBVIOUS

LEMMA TimersNext ==
  ASSUME TypeOK, [Next]_vars
  PROVE  TimersOK'
<1> USE OwnersKnown DEF TypeOK
<1>1. CASE Connect
  BY <1>1, AddType DEF Connect, TimersOK
<1>2. CASE \E i \in Items : Repeat(i) \/ StartItem(i)
  BY <1>2, AddType, Zenon DEF Repeat, StartItem, TimersOK
<1>3. CASE Dequeue
  BY <1>3, AddType DEF Dequeue, TimersOK
<1>4. CASE Return
  BY <1>4, RemoveType, ClearType DEF Return, TimersOK
<1>5. CASE \E i \in Items : DropItem(i)
  <2> PICK i \in Items : DropItem(i)
    BY <1>5
  <2> QED BY RemoveType, ClearType DEF DropItem, TimersOK
<1>6. CASE \E i \in Items : FinishItem(i)
  BY <1>6, RemoveType DEF FinishItem, TimersOK
<1>7. CASE \E i \in Items : MakeItem(i)
  <2> PICK i \in Items : MakeItem(i)
    BY <1>7
  <2> QED BY ClearType DEF MakeItem, TimersOK
<1>8. CASE RunOnce
  BY <1>8, ExpireType DEF RunOnce
<1>9. CASE WatchdogBarks \/ Disable \/ \E i \in Items : GiveUp(i)
  BY <1>9 DEF WatchdogBarks, Disable, GiveUp, TimersOK
<1>10. CASE UNCHANGED timerVars
  BY <1>10 DEF timerVars, TimersOK
<1> QED
  BY <1>1, <1>2, <1>3, <1>4, <1>5, <1>6, <1>7, <1>8, <1>9, <1>10
  DEF Next, ReceiveThread, WorkThread, SystemThread, UserThread, CallbackThread, Destructor,
      ProcessProgress, ReportProgress, ReceiveEnqueues, HeartbeatsTimedOut, WorkEnqueues, Upload,
      Subscribe, Exit, Loop, DequeueNothing, StopQueue, JoinCallbacks, JoinWork, vars

LEMMA CallbacksNext ==
  ASSUME TypeOK, [Next]_vars
  PROVE  CallbacksOK'
<1> USE DEF TypeOK
<1>1. CASE Connect
  BY <1>1, AskType DEF Connect
<1>2. CASE ReportProgress
  <2>1. Report(stored) \in Callbacks
    BY DEF ProgressOK
  <2> QED BY <1>2, <2>1, AskType DEF ReportProgress, queueVars, CallbacksOK
<1>3. CASE HeartbeatsTimedOut
  BY <1>3, AskType DEF HeartbeatsTimedOut
<1>4. CASE ReceiveEnqueues \/ WorkEnqueues
  BY <1>4, EnqueueType DEF ReceiveEnqueues, WorkEnqueues
<1>5. CASE Dequeue
  BY <1>5, DequeueType
<1>6. CASE Loop \/ DequeueNothing \/ Return
  BY <1>6 DEF Loop, DequeueNothing, Return, CallbacksOK
<1>7. CASE Exit \/ StopQueue \/ JoinCallbacks \/ JoinWork
  BY <1>7 DEF Exit, StopQueue, JoinCallbacks, JoinWork, CallbacksOK, Shutdown
<1>8. CASE UNCHANGED queueVars
  BY <1>8 DEF queueVars, CallbacksOK
<1> QED
  BY <1>1, <1>2, <1>3, <1>4, <1>5, <1>6, <1>7, <1>8
  DEF Next, ReceiveThread, WorkThread, SystemThread, UserThread, CallbackThread, Destructor,
      ProcessProgress, FinishItem, RunOnce, Disable, WatchdogBarks, Repeat, GiveUp, StartItem,
      DropItem, MakeItem, Upload, Subscribe, vars

LEMMA ProgressNext ==
  ASSUME TypeOK, [Next]_vars
  PROVE  ProgressOK'
<1> USE DEF TypeOK
<1>1. CASE \E field \in {"current", "reached"}, n \in Seqs : ProcessProgress(field, n)
  BY <1>1, StoreType DEF ProcessProgress
<1>2. CASE ReportProgress
  BY <1>2 DEF ReportProgress, ProgressOK
<1>3. CASE ReceiveEnqueues
  BY <1>3, Zenon DEF ReceiveEnqueues, ProgressOK, CallbacksOK
<1>4. CASE Disable \/ Upload
  BY <1>4, ResetType DEF Disable, Upload
<1>5. CASE Subscribe
  BY <1>5 DEF Subscribe, ProgressOK
<1>6. CASE Return /\ shown' = ShownBy(running)
           /\ UNCHANGED <<stored, reported, reporting, subscribed, missed, systemVars>>
  <2>1. shown' \in Progress
    BY <1>6 DEF ShownBy, ProgressOK, CallbacksOK, Return
  <2> QED BY <1>6, <2>1 DEF ProgressOK
<1>7. CASE UNCHANGED progressVars
  BY <1>7 DEF progressVars, ProgressOK
<1> QED
  BY <1>1, <1>2, <1>3, <1>4, <1>5, <1>6, <1>7
  DEF Next, ReceiveThread, WorkThread, SystemThread, UserThread, CallbackThread, Destructor,
      Connect, FinishItem, RunOnce, HeartbeatsTimedOut, WorkEnqueues, Repeat, GiveUp, StartItem,
      DropItem, MakeItem, vars

LEMMA SystemNext ==
  ASSUME TypeOK, [Next]_vars
  PROVE  SystemOK'
<1> USE DEF TypeOK, SystemOK
<1>0. ASSUME Event PROVE events' \in 0 .. MaxEvents
  BY <1>0 DEF Event
<1>1. events' \in 0 .. MaxEvents
  BY <1>0, Zenon
  DEF Next, ReceiveThread, WorkThread, SystemThread, UserThread, CallbackThread, Destructor,
      Connect, ProcessProgress, ReceiveEnqueues, FinishItem, RunOnce, HeartbeatsTimedOut,
      WorkEnqueues, Disable, Repeat, GiveUp, StartItem, DropItem, MakeItem, Upload, systemVars, vars
<1>2. connected' \in BOOLEAN /\ losing' \in BOOLEAN
  BY Zenon
  DEF Next, ReceiveThread, WorkThread, SystemThread, UserThread, CallbackThread, Destructor,
      Connect, ProcessProgress, ReceiveEnqueues, FinishItem, RunOnce, HeartbeatsTimedOut,
      WorkEnqueues, Disable, Repeat, GiveUp, StartItem, DropItem, MakeItem, Upload, systemVars, vars
<1>3. /\ made' \subseteq Items /\ started' \subseteq made' /\ done' \subseteq made'
  <2>1. CASE \E i \in Items : FinishItem(i)
    BY <2>1 DEF FinishItem
  <2>2. CASE \E i \in Items : GiveUp(i)
    BY <2>2 DEF GiveUp
  <2>3. CASE \E i \in Items : StartItem(i) \/ MakeItem(i)
    BY <2>3 DEF StartItem, MakeItem
  <2>4. CASE \E i \in Items : DropItem(i)
    BY <2>4 DEF DropItem
  <2>5. CASE UNCHANGED <<made, started, done>>
    BY <2>5
  <2> QED
    BY <2>1, <2>2, <2>3, <2>4, <2>5, Zenon
    DEF Next, ReceiveThread, WorkThread, SystemThread, UserThread, CallbackThread, Destructor,
        Connect, ProcessProgress, ReceiveEnqueues, RunOnce, HeartbeatsTimedOut,
        WorkEnqueues, Disable, Repeat, Upload, systemVars, vars
<1> QED BY <1>1, <1>2, <1>3

(***************************************************************************)
(* Every variable keeps its type: cookies point to addresses or nowhere,   *)
(* the queue holds callbacks, and only items that exist have started or    *)
(* are done.                                                               *)
(***************************************************************************)
THEOREM TypeCorrect == Spec => []TypeOK
<1>1. TypeOK /\ [Next]_vars => TypeOK'
  BY TimersNext, CallbacksNext, ProgressNext, SystemNext DEF TypeOK
<1> QED BY TypeInit, <1>1, PTL DEF Spec
-----------------------------------------------------------------------------
(***************************************************************************)
(* The timeouts.  TimeoutsKept is not inductive: one must know that what a *)
(* cookie points to is its owner's, and that a system that reconnects      *)
(* while its loss is handled has set a timeout again.                      *)
(***************************************************************************)
CookiesOwn ==
  \A p \in Owners : cookie[p] \in Addresses => timeouts[cookie[p]] \in {p, Nobody}

LosingKnown ==
  losing => /\ calling = "heartbeats"
            /\ connected => HasTimeout("heartbeats")

RelyingWatched == \A o \in Relying : Watched(o)

TimersInv == reused \/ (CookiesOwn /\ LosingKnown /\ RelyingWatched)

\* Add() erases nothing, and makes no cookie point to another owner's entry
\* without a trace.
LEMMA AddKeeps ==
  ASSUME TimersOK, NEW o \in Owners, Add(o), ~reused', reused \/ CookiesOwn
  PROVE  /\ ~reused /\ CookiesOwn'
         /\ HasTimeout(o)'
         /\ \A p \in Owners : HasTimeout(p) => HasTimeout(p)'
<1> PICK a \in Free :
       /\ timeouts' = [timeouts EXCEPT ![a] = o]
       /\ cookie' = [cookie EXCEPT ![o] = a]
       /\ reused' = (reused \/ \E p \in Owners \ {o} : cookie[p] = a)
  BY Zenon DEF Add, Places
<1>1. /\ a \in Addresses /\ timeouts[a] = Nobody
  BY DEF Free
<1>2. ~reused /\ \A p \in Owners \ {o} : cookie[p] # a
  OBVIOUS
<1>3. timeouts'[a] = o /\ \A b \in Addresses \ {a} : timeouts'[b] = timeouts[b]
  BY <1>1 DEF TimersOK
<1>4. cookie'[o] = a /\ \A p \in Owners \ {o} : cookie'[p] = cookie[p]
  BY DEF TimersOK
<1>5. CookiesOwn'
  BY <1>1, <1>2, <1>3, <1>4 DEF CookiesOwn
<1>6. HasTimeout(o)'
  BY <1>1, <1>3 DEF HasTimeout
<1>7. \A p \in Owners : HasTimeout(p) => HasTimeout(p)'
  BY <1>1, <1>3 DEF HasTimeout
<1> QED BY <1>2, <1>5, <1>6, <1>7

\* Remove() with the cookie of an owner takes no other owner's entry.
LEMMA RemoveKeeps ==
  ASSUME TimersOK, NEW o \in Owners, Remove(o), CookiesOwn
  PROVE  /\ \A p \in Owners \ {o} : HasTimeout(p) => HasTimeout(p)'
         /\ cookie' = cookie \/ cookie' = [cookie EXCEPT ![o] = Null] => CookiesOwn'
<1>1. \A a \in Addresses : timeouts'[a] = IF a = cookie[o] THEN Nobody ELSE timeouts[a]
  BY DEF Remove
<1>2. \A p \in Owners \ {o} : HasTimeout(p) => HasTimeout(p)'
  BY <1>1 DEF HasTimeout, CookiesOwn
<1>3. ASSUME cookie' = cookie \/ cookie' = [cookie EXCEPT ![o] = Null]
      PROVE  CookiesOwn'
  <2> SUFFICES ASSUME NEW p \in Owners, cookie'[p] \in Addresses
               PROVE  timeouts'[cookie'[p]] \in {p, Nobody}
    BY DEF CookiesOwn
  <2>1. cookie'[p] = cookie[p]
    BY <1>3 DEF TimersOK
  <2> QED BY <1>1, <2>1 DEF CookiesOwn
<1> QED BY <1>2, <1>3

LEMMA TimersInitInv == Init => TimersInv
  BY DEF Init, TimersInit, TimersInv, CookiesOwn, LosingKnown, RelyingWatched, Relying

LEMMA TimersInvNext ==
  ASSUME TypeOK, TimersInv, [Next]_vars
  PROVE  TimersInv'
<1> USE OwnersKnown
<1>0. SUFFICES ASSUME ~reused' PROVE TimersInv'
  BY DEF TimersInv
<1>1. TimersOK /\ SystemOK
  BY DEF TypeOK
<1>2. reused \/ CookiesOwn
  BY DEF TimersInv
<1> HIDE DEF TimersInv
<1>3. CASE Connect
  <2>1. Add("heartbeats")
    BY <1>3 DEF Connect
  <2>2. /\ ~reused /\ CookiesOwn' /\ HasTimeout("heartbeats")'
        /\ \A p \in Owners : HasTimeout(p) => HasTimeout(p)'
    BY <1>0, <1>1, <1>2, <2>1, AddKeeps
  <2>3. LosingKnown'
    BY <1>3, <2>2 DEF Connect, LosingKnown, TimersInv
  <2>4. RelyingWatched'
    BY <1>1, <1>3, <2>2 DEF Connect, TimersInv, RelyingWatched, Relying, Watched, SystemOK
  <2> QED BY <2>2, <2>3, <2>4 DEF TimersInv
<1>4. CASE \E i \in Items : StartItem(i)
  <2> PICK i \in Items : StartItem(i)
    BY <1>4
  <2>1. Add(i)
    BY DEF StartItem
  <2>2. /\ ~reused /\ CookiesOwn' /\ HasTimeout(i)'
        /\ \A p \in Owners : HasTimeout(p) => HasTimeout(p)'
    BY <1>0, <1>1, <1>2, <2>1, AddKeeps
  <2>3. LosingKnown'
    BY <2>2 DEF StartItem, LosingKnown, TimersInv
  <2>4. RelyingWatched'
    BY <1>1, <2>2 DEF StartItem, TimersInv, RelyingWatched, Relying, Watched, SystemOK
  <2> QED BY <2>2, <2>3, <2>4 DEF TimersInv
<1>5. CASE \E i \in Items : Repeat(i)
  <2> PICK i \in Items : Repeat(i)
    BY <1>5
  <2>1. Add(i)
    BY DEF Repeat
  <2>2. /\ ~reused /\ CookiesOwn' /\ HasTimeout(i)'
        /\ \A p \in Owners : HasTimeout(p) => HasTimeout(p)'
    BY <1>0, <1>1, <1>2, <2>1, AddKeeps
  <2>3. LosingKnown'
    BY <2>2 DEF Repeat, LosingKnown, TimersInv
  <2>4. RelyingWatched'
    BY <1>1, <2>2 DEF Repeat, TimersInv, RelyingWatched, Relying, Watched, SystemOK
  <2> QED BY <2>2, <2>3, <2>4 DEF TimersInv
<1>6. CASE Dequeue /\ UNCHANGED <<progressVars, systemVars>>
  <2>1. Add("watchdog")
    BY <1>6 DEF Dequeue
  <2>2. /\ ~reused /\ CookiesOwn'
        /\ \A p \in Owners : HasTimeout(p) => HasTimeout(p)'
    BY <1>0, <1>1, <1>2, <2>1, AddKeeps
  <2>3. LosingKnown'
    BY <1>6, <2>2 DEF Dequeue, systemVars, LosingKnown, TimersInv
  <2>4. RelyingWatched'
    BY <1>1, <1>6, <2>2
    DEF Dequeue, systemVars, TimersInv, RelyingWatched, Relying, Watched, SystemOK
  <2> QED BY <2>2, <2>3, <2>4 DEF TimersInv
<1>7. CASE Return /\ UNCHANGED systemVars
  <2>1. ~reused /\ CookiesOwn /\ LosingKnown /\ RelyingWatched
    BY <1>0, <1>7 DEF Return, TimersInv
  <2>2. /\ CookiesOwn'
        /\ \A p \in Owners \ {"watchdog"} : HasTimeout(p) => HasTimeout(p)'
    BY <1>1, <1>7, <2>1, RemoveKeeps DEF Return
  <2>3. LosingKnown'
    BY <1>7, <2>1, <2>2 DEF Return, systemVars, LosingKnown
  <2>4. RelyingWatched'
    BY <1>1, <1>7, <2>1, <2>2 DEF Return, systemVars, RelyingWatched, Relying, Watched, SystemOK
  <2> QED BY <2>2, <2>3, <2>4 DEF TimersInv
<1>8. CASE \E i \in Items : FinishItem(i)
  <2> PICK i \in Items : FinishItem(i)
    BY <1>8
  <2>1. ~reused /\ CookiesOwn /\ LosingKnown /\ RelyingWatched
    BY <1>0 DEF FinishItem, TimersInv
  <2>2. /\ CookiesOwn'
        /\ \A p \in Owners \ {i} : HasTimeout(p) => HasTimeout(p)'
    BY <1>1, <2>1, RemoveKeeps DEF FinishItem
  <2>3. LosingKnown'
    BY <2>1, <2>2 DEF FinishItem, LosingKnown
  <2>4. RelyingWatched'
    BY <1>1, <2>1, <2>2 DEF FinishItem, RelyingWatched, Relying, Watched, SystemOK
  <2> QED BY <2>2, <2>3, <2>4 DEF TimersInv
<1>9. CASE \E i \in Items : DropItem(i)
  <2> PICK i \in Items : DropItem(i)
    BY <1>9
  <2>1. ~reused /\ CookiesOwn /\ LosingKnown /\ RelyingWatched
    BY <1>0 DEF DropItem, TimersInv
  <2>2. /\ CookiesOwn'
        /\ \A p \in Owners \ {i} : HasTimeout(p) => HasTimeout(p)'
    BY <1>1, <2>1, RemoveKeeps DEF DropItem
  <2>3. LosingKnown'
    BY <2>1, <2>2 DEF DropItem, LosingKnown
  <2>4. RelyingWatched'
    BY <1>1, <2>1, <2>2 DEF DropItem, RelyingWatched, Relying, Watched, SystemOK
  <2> QED BY <2>2, <2>3, <2>4 DEF TimersInv
<1>10. CASE RunOnce
  <2> PICK a \in Addresses : Expire(a)
    BY <1>10 DEF RunOnce
  <2>1. ~reused /\ CookiesOwn /\ LosingKnown /\ RelyingWatched /\ UNCHANGED systemVars
    BY <1>0, <1>10 DEF RunOnce, Expire, TimersInv
  <2>2. timeouts'[a] = Nobody /\ \A b \in Addresses \ {a} : timeouts'[b] = timeouts[b]
    BY <1>1 DEF Expire, TimersOK
  <2>3. CookiesOwn'
    BY <1>1, <2>1, <2>2 DEF Expire, CookiesOwn, TimersOK
  <2>4. LosingKnown'
    BY <2>1 DEF Expire, LosingKnown, systemVars
  <2>5. RelyingWatched'
    BY <1>1, <2>1, <2>2
    DEF Expire, systemVars, RelyingWatched, Relying, Watched, HasTimeout, SystemOK
  <2> QED BY <2>3, <2>4, <2>5 DEF TimersInv
<1>11. CASE HeartbeatsTimedOut \/ \E i \in Items : GiveUp(i)
  <2>1. /\ ~reused /\ CookiesOwn /\ LosingKnown /\ RelyingWatched
        /\ UNCHANGED <<timeouts, cookie>>
    BY <1>0, <1>11 DEF HeartbeatsTimedOut, GiveUp, timerVars, TimersInv
  <2>2. CookiesOwn' /\ \A p \in Owners : HasTimeout(p) => HasTimeout(p)'
    BY <2>1 DEF CookiesOwn, HasTimeout
  <2>3. LosingKnown'
    BY <1>11, <2>1, <2>2 DEF HeartbeatsTimedOut, GiveUp, timerVars, LosingKnown
  <2>4. RelyingWatched'
    BY <1>1, <1>11, <2>1, <2>2
    DEF HeartbeatsTimedOut, GiveUp, timerVars, RelyingWatched, Relying, Watched, SystemOK
  <2> QED BY <2>2, <2>3, <2>4 DEF TimersInv
<1>12. CASE Disable \/ (WatchdogBarks /\ UNCHANGED systemVars)
  <2>1. /\ ~reused /\ CookiesOwn /\ LosingKnown /\ RelyingWatched
        /\ UNCHANGED <<timeouts, cookie>>
    BY <1>0, <1>12 DEF Disable, WatchdogBarks, TimersInv
  <2>2. CookiesOwn' /\ \A p \in Owners : HasTimeout(p) => HasTimeout(p)'
    BY <2>1 DEF CookiesOwn, HasTimeout
  <2>3. LosingKnown'
    BY <1>12, <2>1, <2>2 DEF Disable, WatchdogBarks, systemVars, LosingKnown
  <2>4. RelyingWatched'
    BY <1>1, <1>12, <2>1, <2>2
    DEF Disable, WatchdogBarks, systemVars, LosingKnown, RelyingWatched, Relying, Watched, SystemOK
  <2> QED BY <2>2, <2>3, <2>4 DEF TimersInv
<1>13. CASE \E i \in Items : MakeItem(i)
  <2> PICK i \in Items : MakeItem(i)
    BY <1>13
  <2>1. /\ ~reused /\ CookiesOwn /\ LosingKnown /\ RelyingWatched
        /\ UNCHANGED timeouts
    BY <1>0 DEF MakeItem, TimersInv
  <2>2. CookiesOwn'
    BY <1>1, <2>1 DEF MakeItem, CookiesOwn, TimersOK
  <2>3. LosingKnown'
    BY <2>1 DEF MakeItem, LosingKnown, HasTimeout
  <2>4. RelyingWatched'
    BY <1>1, <2>1
    DEF MakeItem, RelyingWatched, Relying, Watched, HasTimeout, SystemOK
  <2> QED BY <2>2, <2>3, <2>4 DEF TimersInv
<1>14. CASE UNCHANGED <<timerVars, connected, losing, made, started, done>>
  BY <1>14
  DEF timerVars, TimersInv, CookiesOwn, LosingKnown, RelyingWatched, Relying, Watched, HasTimeout
<1> QED
  BY <1>3, <1>4, <1>5, <1>6, <1>7, <1>8, <1>9, <1>10, <1>11, <1>12, <1>13, <1>14
  DEF Next, ReceiveThread, WorkThread, SystemThread, UserThread, CallbackThread, Destructor,
      ProcessProgress, ReportProgress, ReceiveEnqueues, WorkEnqueues, Upload,
      Subscribe, Exit, Loop, DequeueNothing, StopQueue, JoinCallbacks, JoinWork, systemVars, vars

(***************************************************************************)
(* A connected system and an item under way keep their timeout until it is *)
(* called, as long as no Timeout is allocated where a cookie of another    *)
(* owner points.                                                           *)
(***************************************************************************)
THEOREM TimeoutsAreKept == Spec => []TimeoutsKept
<1>1. TypeOK /\ TimersInv /\ [Next]_vars => TimersInv'
  BY TimersInvNext
<1>2. TimersInv => TimeoutsKept
  BY DEF TimersInv, TimeoutsKept, RelyingWatched
<1> QED BY TimersInitInv, TypeCorrect, <1>1, <1>2, PTL DEF Spec
-----------------------------------------------------------------------------
(***************************************************************************)
(* The queue.  QueueBounded needs that a thread that has seen a place left *)
(* still finds one when it enqueues.                                       *)
(***************************************************************************)
OneAsks == \A c, d \in Callers : Asking(c) /\ Asking(d) => c = d

PlaceLeft == \A c \in Callers : Asking(c) /\ ~full[c] => Len(queue) < QueueLimit

QueueInv == raced \/ (OneAsks /\ PlaceLeft /\ Len(queue) <= QueueLimit)

LEMMA AskKeepsQueue ==
  ASSUME CallbacksOK, QueueInv, NEW c \in Callers, NEW f \in Callbacks, CallUserCallback(c, f)
  PROVE  QueueInv'
<1> SUFFICES ASSUME ~raced' PROVE QueueInv'
  BY DEF QueueInv
<1>1. ~raced /\ \A d \in Callers \ {c} : ~Asking(d)
  BY DEF CallUserCallback
<1>2. OneAsks /\ PlaceLeft /\ Len(queue) <= QueueLimit /\ queue' = queue
  BY <1>1 DEF QueueInv, CallUserCallback
<1>3. \A d \in Callers \ {c} : asked'[d] = asked[d]
  BY DEF CallUserCallback, CallbacksOK
<1>4. full'[c] = (Len(queue) = QueueLimit)
  BY DEF CallUserCallback, CallbacksOK
<1>5. OneAsks'
  BY <1>1, <1>3 DEF OneAsks, Asking
<1>6. PlaceLeft'
  <2> SUFFICES ASSUME NEW d \in Callers, Asking(d)', ~full'[d]
               PROVE  Len(queue) < QueueLimit
    BY <1>2 DEF PlaceLeft
  <2>1. d = c
    BY <1>1, <1>3 DEF Asking
  <2>2. Len(queue) # QueueLimit
    BY <2>1, <1>4, Zenon
  <2> QED BY <1>2, <2>2 DEF CallbacksOK
<1> QED BY <1>2, <1>5, <1>6 DEF QueueInv

LEMMA EnqueueKeepsQueue ==
  ASSUME CallbacksOK, QueueInv, NEW c \in Callers, Enqueue(c)
  PROVE  QueueInv'
<1> SUFFICES ASSUME ~raced PROVE QueueInv'
  BY DEF QueueInv, Enqueue
<1>1. OneAsks /\ PlaceLeft /\ Len(queue) <= QueueLimit /\ Asking(c)
  BY DEF QueueInv, Enqueue
<1>2. \A d \in Callers : ~Asking(d)'
  BY <1>1 DEF OneAsks, Asking, Enqueue, CallbacksOK
<1>3. Len(queue') <= QueueLimit
  BY <1>1 DEF PlaceLeft, Enqueue, Asking, CallbacksOK
<1> QED BY <1>2, <1>3 DEF QueueInv, OneAsks, PlaceLeft

LEMMA QueueInit == Init => QueueInv
<1> SUFFICES ASSUME Init PROVE QueueInv
  OBVIOUS
<1>1. \A c \in Callers : ~Asking(c)
  BY DEF Init, CallbacksInit, Asking
<1>2. Len(queue) <= QueueLimit
  <2>1. queue = << >>
    BY DEF Init, CallbacksInit
  <2> QED BY <2>1
<1> QED BY <1>1, <1>2 DEF QueueInv, OneAsks, PlaceLeft

LEMMA QueueNext ==
  ASSUME TypeOK, QueueInv, [Next]_vars
  PROVE  QueueInv'
<1>1. CallbacksOK /\ ProgressOK
  BY DEF TypeOK
<1>2. CASE Connect
  BY <1>1, <1>2, AskKeepsQueue DEF Connect
<1>3. CASE ReportProgress
  <2>1. Report(stored) \in Callbacks
    BY <1>1 DEF ProgressOK
  <2>2. CASE subscribed
    BY <1>1, <1>3, <2>1, <2>2, AskKeepsQueue DEF ReportProgress
  <2>3. CASE ~subscribed
    BY <1>3, <2>3 DEF ReportProgress, queueVars, QueueInv, OneAsks, PlaceLeft, Asking
  <2> QED BY <2>2, <2>3
<1>4. CASE HeartbeatsTimedOut
  BY <1>1, <1>4, AskKeepsQueue DEF HeartbeatsTimedOut
<1>5. CASE ReceiveEnqueues \/ WorkEnqueues
  BY <1>1, <1>5, EnqueueKeepsQueue DEF ReceiveEnqueues, WorkEnqueues
<1>6. CASE Dequeue
  <2>1. Len(queue') < Len(queue) /\ Len(queue') \in Nat /\ Len(queue) \in Nat
    BY <1>1, <1>6 DEF Dequeue, CallbacksOK
  <2>2. UNCHANGED <<asked, full, raced>>
    BY <1>6 DEF Dequeue
  <2> QED BY <2>1, <2>2 DEF QueueInv, OneAsks, PlaceLeft, Asking
<1>7. CASE UNCHANGED <<queue, asked, full, raced>>
  BY <1>7 DEF QueueInv, OneAsks, PlaceLeft, Asking
<1> QED
  BY <1>2, <1>3, <1>4, <1>5, <1>6, <1>7
  DEF Next, ReceiveThread, WorkThread, SystemThread, UserThread, CallbackThread, Destructor,
      ProcessProgress, FinishItem, RunOnce, Disable, WatchdogBarks, Repeat, GiveUp, StartItem,
      DropItem, MakeItem, Upload, Subscribe, Loop, DequeueNothing, Return, Exit, StopQueue,
      JoinCallbacks, JoinWork, queueVars, vars

(***************************************************************************)
(* call_user_callback() keeps the queue at its limit, as long as no two    *)
(* threads are between size() and enqueue() at once.                       *)
(***************************************************************************)
THEOREM QueueIsBounded == Spec => []QueueBounded
<1>1. TypeOK /\ QueueInv /\ [Next]_vars => QueueInv'
  BY QueueNext
<1>2. QueueInv => QueueBounded
  BY DEF QueueInv, QueueBounded
<1> QED BY QueueInit, TypeCorrect, <1>1, <1>2, PTL DEF Spec
-----------------------------------------------------------------------------
(***************************************************************************)
(* The progress.  LastProgressIsShown needs to know where the last report  *)
(* is on its way to the user: with the receive thread, in the queue with   *)
(* no later report behind it, with the callback thread, or shown.          *)
(***************************************************************************)
IsReport(f) == f.of = "progress"

LastInQueue(p) ==
  \E k \in 1 .. Len(queue) :
    /\ IsReport(queue[k]) /\ queue[k].progress = p
    /\ \A j \in 1 .. Len(queue) : j > k => ~IsReport(queue[j])

NoneInQueue == \A k \in 1 .. Len(queue) : ~IsReport(queue[k])

RunningReport == running # NoCallback /\ IsReport(running)

LastReport(p) ==
  \/ LastInQueue(p)
  \/ NoneInQueue /\ RunningReport /\ running.progress = p
  \/ NoneInQueue /\ ~RunningReport /\ shown = p

StoredReported == ~reporting => stored = reported

AskedReported ==
  Asking("receive") =>
    /\ ~reporting
    /\ \/ asked["receive"] = Notification
       \/ /\ IsReport(asked["receive"])
          /\ reported \in {NoProgress, asked["receive"].progress}

WorkNotifies == Asking("work") => asked["work"] = Notification

ReportPending == Asking("receive") /\ IsReport(asked["receive"])

ReportKnown == ReportPending \/ missed \/ reported = NoProgress \/ LastReport(reported)

ShownInv == StoredReported /\ AskedReported /\ WorkNotifies /\ ReportKnown

LEMMA NotificationIsNone == ~IsReport(Notification)
  BY DEF IsReport, Notification

\* What is appended is the last of the queue ...
LEMMA AppendLast ==
  ASSUME CallbacksOK, NEW f \in Callbacks, IsReport(f), queue' = Append(queue, f)
  PROVE  LastInQueue(f.progress)'
<1>1. /\ Len(queue') = Len(queue) + 1 /\ Len(queue) \in Nat
      /\ queue'[Len(queue) + 1] = f
  BY DEF CallbacksOK
<1> QED BY <1>1 DEF LastInQueue

\* ... unless it is no report.
LEMMA AppendOther ==
  ASSUME CallbacksOK, NEW f \in Callbacks, ~IsReport(f), queue' = Append(queue, f),
         UNCHANGED <<running, shown>>, NEW p, LastReport(p)
  PROVE  LastReport(p)'
<1>1. /\ Len(queue') = Len(queue) + 1 /\ Len(queue) \in Nat
      /\ queue'[Len(queue) + 1] = f
      /\ \A k \in 1 .. Len(queue) : queue'[k] = queue[k]
  BY DEF CallbacksOK
<1>2. LastInQueue(p) => LastInQueue(p)'
  BY <1>1 DEF LastInQueue
<1>3. NoneInQueue => NoneInQueue'
  BY <1>1 DEF NoneInQueue
<1> QED BY <1>2, <1>3 DEF LastReport, RunningReport

LEMMA DequeueLast ==
  ASSUME CallbacksOK, Dequeue, UNCHANGED shown, NEW p, LastReport(p)
  PROVE  LastReport(p)'
<1>1. running = NoCallback /\ queue # << >> /\ queue \in Seq(Callbacks)
  BY DEF Dequeue, CallbacksOK
<1>2. queue' = Tail(queue) /\ running' = Head(queue)
  BY DEF Dequeue
<1>3. /\ Len(queue) \in Nat /\ Len(queue) > 0 /\ Len(queue') = Len(queue) - 1
      /\ \A k \in 1 .. Len(queue') : queue'[k] = queue[k + 1]
  BY <1>1, <1>2
<1>4. queue[1] \in Callbacks /\ running' = queue[1] /\ running' # NoCallback
  BY <1>1, <1>2
<1>5. CASE LastInQueue(p)
  <2> PICK k \in 1 .. Len(queue) :
         /\ IsReport(queue[k]) /\ queue[k].progress = p
         /\ \A j \in 1 .. Len(queue) : j > k => ~IsReport(queue[j])
    BY <1>5 DEF LastInQueue
  <2>1. CASE k = 1
    <3>1. NoneInQueue'
      BY <1>3, <2>1 DEF NoneInQueue
    <3>2. RunningReport' /\ running'.progress = p
      BY <1>4, <2>1 DEF RunningReport
    <3> QED BY <3>1, <3>2 DEF LastReport
  <2>2. CASE k # 1
    <3>1. /\ k - 1 \in 1 .. Len(queue')
          /\ IsReport(queue'[k - 1]) /\ queue'[k - 1].progress = p
      BY <1>3, <2>2
    <3>2. \A j \in 1 .. Len(queue') : j > k - 1 => ~IsReport(queue'[j])
      BY <1>3, <2>2
    <3> QED BY <3>1, <3>2 DEF LastReport, LastInQueue
  <2> QED BY <2>1, <2>2
<1>6. CASE ~LastInQueue(p)
  <2>1. NoneInQueue /\ shown = p
    BY <1>1, <1>6 DEF LastReport, RunningReport
  <2>2. NoneInQueue' /\ ~RunningReport'
    BY <1>3, <1>4, <2>1 DEF NoneInQueue, RunningReport
  <2> QED BY <2>1, <2>2 DEF LastReport
<1> QED BY <1>5, <1>6

LEMMA ShownInit == Init => ShownInv
<1> SUFFICES ASSUME Init PROVE ShownInv
  OBVIOUS
<1>1. ~Asking("receive") /\ ~Asking("work")
  BY DEF Init, CallbacksInit, Asking
<1> QED
  BY <1>1
  DEF Init, ProgressInit, ShownInv, StoredReported, AskedReported, WorkNotifies, ReportKnown

\* No step takes the last report away: who resets it leaves nothing to show.
LEMMA ShownNext ==
  ASSUME TypeOK, ShownInv, [Next]_vars
  PROVE  ShownInv'
<1>1. CallbacksOK /\ ProgressOK /\ "receive" \in Callers /\ "work" \in Callers
  BY DEF TypeOK
<1>2. StoredReported /\ AskedReported /\ WorkNotifies /\ ReportKnown
  BY DEF ShownInv
<1>3. ~IsReport(Notification) /\ Notification # NoCallback /\ Notification \in Callbacks
  BY NotificationIsNone
<1> PICK p \in Progress : p = reported
  BY <1>1 DEF ProgressOK
<1>p. LastReport(reported) => LastReport(p)
  BY DEF LastReport, LastInQueue
<1>q. reported' = p /\ LastReport(p)' => LastReport(reported)'
  BY DEF LastReport, LastInQueue
<1>4. CASE Connect
  <2>1. /\ asked'["receive"] = Notification /\ asked'["work"] = asked["work"]
        /\ UNCHANGED <<queue, running, shown, missed, stored, reported, reporting>>
        /\ ~reporting /\ ~Asking("receive")
    BY <1>1, <1>4 DEF Connect, CallUserCallback, Receives, progressVars, CallbacksOK
  <2>2. ReportKnown'
    BY <1>2, <2>1
    DEF ReportKnown, ReportPending, LastReport, LastInQueue, NoneInQueue, RunningReport
  <2> QED
    BY <1>2, <2>1, <2>2 DEF ShownInv, StoredReported, AskedReported, WorkNotifies, Asking
<1>5. CASE \E field \in {"current", "reached"}, n \in Seqs : ProcessProgress(field, n)
  <2> PICK field \in {"current", "reached"}, n \in Seqs : ProcessProgress(field, n)
    BY <1>5
  <2>1. /\ ~reporting /\ ~Asking("receive")
        /\ UNCHANGED <<queue, asked, running, shown, missed, reported>>
        /\ stored' = [stored EXCEPT ![field] = n]
        /\ reporting' = (reported[field] # n)
    BY DEF ProcessProgress, Store, Receives, queueVars
  <2>2. StoredReported'
    <3> SUFFICES ASSUME ~reporting' PROVE stored' = reported
      BY <2>1 DEF StoredReported
    <3>1. reported[field] = n
      BY <2>1, Zenon
    <3>2. stored = reported
      BY <1>2, <2>1 DEF StoredReported
    <3> QED BY <1>1, <2>1, <3>1, <3>2 DEF ProgressOK, Progress
  <2>3. ReportKnown'
    BY <1>2, <2>1
    DEF ReportKnown, ReportPending, Asking, LastReport, LastInQueue, NoneInQueue, RunningReport
  <2> QED BY <1>2, <2>1, <2>2, <2>3 DEF ShownInv, AskedReported, WorkNotifies, Asking
<1>6. CASE ReportProgress
  <2>1. /\ reporting /\ ~reporting' /\ reported' = stored /\ ~Asking("receive")
        /\ UNCHANGED <<stored, shown, queue, running>>
    BY <1>2, <1>6 DEF ReportProgress, AskedReported, CallUserCallback, queueVars
  <2>2. CASE subscribed
    <3>1. asked' = [asked EXCEPT !["receive"] = Report(stored)]
      BY <1>6, <2>2 DEF ReportProgress, CallUserCallback
    <3>2. asked'["receive"] = Report(stored) /\ asked'["work"] = asked["work"]
      BY <1>1, <3>1 DEF CallbacksOK
    <3>3. Report(stored) \in Callbacks /\ Report(stored) # NoCallback
      BY <1>1 DEF ProgressOK
    <3>4. IsReport(Report(stored)) /\ Report(stored).progress = stored
      BY DEF IsReport, Report
    <3> HIDE DEF Report
    <3> QED
      BY <1>2, <2>1, <3>2, <3>3, <3>4
      DEF ShownInv, StoredReported, AskedReported, WorkNotifies, ReportKnown, ReportPending, Asking
  <2>3. CASE ~subscribed
    <3>1. missed' /\ UNCHANGED asked
      BY <1>6, <2>3 DEF ReportProgress, queueVars
    <3> QED
      BY <1>2, <2>1, <3>1
      DEF ShownInv, StoredReported, AskedReported, WorkNotifies, ReportKnown, Asking
  <2> QED BY <2>2, <2>3
<1>7. CASE ReceiveEnqueues
  <2> PICK f \in Callbacks : f = asked["receive"]
    BY <1>1, <1>7 DEF ReceiveEnqueues, Enqueue, Asking, CallbacksOK
  <2>1. /\ Asking("receive")
        /\ asked'["receive"] = NoCallback /\ asked'["work"] = asked["work"]
        /\ UNCHANGED <<running, shown, stored, reported, reporting>>
    BY <1>1, <1>7 DEF ReceiveEnqueues, Enqueue, Asking, CallbacksOK
  <2>2. queue' = IF full["receive"] THEN queue ELSE Append(queue, f)
    BY <1>7 DEF ReceiveEnqueues, Enqueue
  <2>3. CASE f = Notification
    <3>1. missed' = missed
      BY <1>7, <2>3 DEF ReceiveEnqueues
    <3>2. LastReport(p) => LastReport(p)'
      <4>1. CASE queue' = Append(queue, f)
        BY <1>1, <1>3, <2>1, <2>3, <4>1, AppendOther
      <4>2. CASE queue' = queue
        BY <2>1, <4>2 DEF LastReport, LastInQueue, NoneInQueue, RunningReport
      <4> QED BY <2>2, <4>1, <4>2, Zenon
    <3>3. ~ReportPending
      BY <1>3, <2>3 DEF ReportPending
    <3> QED
      BY <1>2, <1>p, <1>q, <2>1, <3>1, <3>2, <3>3
      DEF ShownInv, StoredReported, AskedReported, WorkNotifies, ReportKnown, Asking
  <2>4. CASE f # Notification
    <3>1. IsReport(f) /\ reported \in {NoProgress, f.progress}
      BY <1>2, <2>1, <2>4 DEF AskedReported, Asking
    <3>2. missed' = full["receive"]
      BY <1>7, <2>4 DEF ReceiveEnqueues
    <3>3. ReportKnown'
      <4>1. CASE full["receive"]
        BY <3>2, <4>1, Zenon DEF ReportKnown
      <4>2. CASE ~full["receive"]
        <5>1. LastInQueue(f.progress)'
          BY <1>1, <2>1, <2>2, <3>1, <4>2, AppendLast
        <5>2. reported = f.progress => LastReport(reported)'
          BY <2>1, <5>1 DEF LastReport, LastInQueue
        <5> QED BY <2>1, <3>1, <5>2 DEF ReportKnown
      <4> QED BY <4>1, <4>2
    <3> QED
      BY <1>2, <2>1, <3>3 DEF ShownInv, StoredReported, AskedReported, WorkNotifies, Asking
  <2> QED BY <2>3, <2>4
<1>8. CASE HeartbeatsTimedOut
  <2>1. /\ asked'["work"] = Notification /\ asked'["receive"] = asked["receive"]
        /\ UNCHANGED <<queue, running, shown, missed, stored, reported, reporting>>
    BY <1>1, <1>8 DEF HeartbeatsTimedOut, CallUserCallback, progressVars, CallbacksOK
  <2>2. ReportKnown'
    BY <1>2, <2>1
    DEF ReportKnown, ReportPending, Asking, LastReport, LastInQueue, NoneInQueue, RunningReport
  <2> QED
    BY <1>2, <2>1, <2>2 DEF ShownInv, StoredReported, AskedReported, WorkNotifies, Asking
<1>9. CASE WorkEnqueues
  <2>1. /\ asked["work"] = Notification /\ asked'["work"] = NoCallback
        /\ asked'["receive"] = asked["receive"]
        /\ UNCHANGED <<running, shown, missed, stored, reported, reporting>>
    BY <1>1, <1>2, <1>9 DEF WorkEnqueues, Enqueue, WorkNotifies, progressVars, CallbacksOK
  <2>2. queue' = Append(queue, Notification) \/ queue' = queue
    BY <1>9, <2>1 DEF WorkEnqueues, Enqueue
  <2>3. LastReport(p) => LastReport(p)'
    <3>1. CASE queue' = Append(queue, Notification)
      BY <1>1, <1>3, <2>1, <3>1, AppendOther
    <3>2. CASE queue' = queue
      BY <2>1, <3>2 DEF LastReport, LastInQueue, NoneInQueue, RunningReport
    <3> QED BY <2>2, <3>1, <3>2
  <2>4. ReportKnown'
    BY <1>2, <1>p, <1>q, <2>1, <2>3 DEF ReportKnown, ReportPending, Asking
  <2> QED BY <1>2, <2>1, <2>4 DEF ShownInv, StoredReported, AskedReported, WorkNotifies, Asking
<1>10. CASE Disable \/ Upload
  <2>1. /\ stored' = NoProgress /\ reported' = NoProgress
        /\ UNCHANGED <<asked, reporting>>
    BY <1>10 DEF Disable, Upload, Reset, queueVars
  <2> QED
    BY <1>2, <2>1
    DEF ShownInv, StoredReported, AskedReported, WorkNotifies, ReportKnown, Asking
<1>11. CASE Dequeue /\ UNCHANGED progressVars
  <2>1. UNCHANGED <<asked, shown, missed, stored, reported, reporting>>
    BY <1>11 DEF Dequeue, progressVars
  <2>2. LastReport(p) => LastReport(p)'
    BY <1>1, <1>11, <2>1, DequeueLast
  <2> QED
    BY <1>2, <1>p, <1>q, <2>1, <2>2
    DEF ShownInv, StoredReported, AskedReported, WorkNotifies, ReportKnown, ReportPending, Asking
<1>12. CASE /\ Return /\ shown' = ShownBy(running)
            /\ UNCHANGED <<stored, reported, reporting, subscribed, missed, systemVars>>
  <2>1. /\ running # NoCallback /\ running' = NoCallback
        /\ shown' = (IF IsReport(running) THEN running.progress ELSE shown)
        /\ UNCHANGED <<queue, asked, missed, stored, reported, reporting>>
    BY <1>1, <1>12 DEF Return, ShownBy, IsReport, CallbacksOK
  <2>2. LastReport(p) => LastReport(p)'
    BY <2>1 DEF LastReport, LastInQueue, NoneInQueue, RunningReport
  <2> QED
    BY <1>2, <1>p, <1>q, <2>1, <2>2
    DEF ShownInv, StoredReported, AskedReported, WorkNotifies, ReportKnown, ReportPending, Asking
<1>13. CASE UNCHANGED <<queue, asked, running, stored, reported, reporting, shown, missed>>
  BY <1>2, <1>13
  DEF ShownInv, StoredReported, AskedReported, WorkNotifies, ReportKnown, ReportPending, Asking,
      LastReport, LastInQueue, NoneInQueue, RunningReport
<1> QED
  BY <1>4, <1>5, <1>6, <1>7, <1>8, <1>9, <1>10, <1>11, <1>12, <1>13
  DEF Next, ReceiveThread, WorkThread, SystemThread, UserThread, CallbackThread, Destructor,
      FinishItem, RunOnce, WatchdogBarks, Repeat, GiveUp, StartItem, DropItem, MakeItem,
      Subscribe, Loop, DequeueNothing, Exit, StopQueue, JoinCallbacks, JoinWork,
      queueVars, progressVars, vars

(***************************************************************************)
(* When nothing is on its way the user was last shown the progress that is *)
(* stored, unless that was reset since, or the last report was missed.     *)
(***************************************************************************)
THEOREM LastProgressShown == Spec => []LastProgressIsShown
<1>1. TypeOK /\ ShownInv /\ [Next]_vars => ShownInv'
  BY ShownNext
<1>2. TypeOK /\ ShownInv => LastProgressIsShown
  <2> SUFFICES ASSUME TypeOK, ShownInv, Settled, ~missed, stored # NoProgress
               PROVE  shown = stored
    BY DEF LastProgressIsShown
  <2>1. /\ ~reporting /\ ~Asking("receive") /\ Len(queue) = 0 /\ running = NoCallback
    BY DEF Settled, Receives
  <2>2. stored = reported /\ LastReport(reported)
    BY <2>1 DEF ShownInv, StoredReported, ReportKnown, ReportPending
  <2> QED BY <2>1, <2>2 DEF LastReport, LastInQueue, RunningReport
<1> QED BY ShownInit, TypeCorrect, <1>1, <1>2, PTL DEF Spec
=============================================================================
