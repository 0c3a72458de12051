----------------------------- MODULE MavsdkThreads -----------------------------
(***************************************************************************)
(* What the threads of a ground station's program share: one system, the   *)
(* work items of its transfers, the progress of its inspection, the        *)
(* timeouts of all of them, and the queue of user callbacks.               *)
(***************************************************************************)
EXTENDS InspectionProgress

CONSTANTS
  Items,      \* work items, each at its place in memory
  MaxEvents   \* bound: messages received, calls of the user, repeated packets

ASSUME ThreadsAssumption ==
  /\ Items \cup {"heartbeats"} \subseteq Owners
  /\ Items \cap {"heartbeats", "watchdog"} = {}
  /\ MaxEvents \in Nat

VARIABLES
  connected,            \* SystemImpl::_connected
  losing,               \* the work thread is inside set_disconnected()
  made, started, done,  \* the items that exist, _started and _done of them
  events

systemVars == <<connected, losing, made, started, done, events>>
vars == <<timerVars, queueVars, progressVars, systemVars>>

SystemOK ==
  /\ connected \in BOOLEAN /\ losing \in BOOLEAN
  /\ made \subseteq Items /\ started \subseteq made /\ done \subseteq made
  /\ events \in 0 .. MaxEvents

TypeOK == TimersOK /\ CallbacksOK /\ ProgressOK /\ SystemOK

Init ==
  /\ TimersInit /\ CallbacksInit /\ ProgressInit
  /\ connected = FALSE /\ losing = FALSE
  /\ made = {} /\ started = {} /\ done = {}
  /\ events = 0

Event == events < MaxEvents /\ events' = events + 1
-----------------------------------------------------------------------------
(***************************************************************************)
(* The receive thread: one message at a time.                              *)
(***************************************************************************)
Receives == ~reporting /\ ~Asking("receive")

\* What tells the user that the connection has changed; stands for the callbacks
\* of subscribe_on_new_system() and subscribe_is_connected().
Notification == [of |-> "connection", progress |-> NoProgress]

ASSUME NotificationAssumption ==
  Notification \in Callbacks /\ {"receive", "work"} \subseteq Callers

\* set_connected() and set_disconnected() notify with _connection_mutex held.
Connecting == asked["receive"] = Notification
Disconnecting == losing /\ Asking("work")

\* set_connected(); a later heartbeat refreshes the timeout.
Connect ==
  /\ Receives /\ Event
  /\ ~Disconnecting
  /\ ~connected
  /\ connected' = TRUE
  /\ Add("heartbeats")
  /\ CallUserCallback("receive", Notification)
  /\ UNCHANGED <<calling, progressVars, losing, made, started, done>>

ProcessProgress(field, n) ==
  /\ Receives /\ Event
  /\ Store(field, n)
  /\ UNCHANGED <<timerVars, queueVars, connected, losing, made, started, done>>

\* The enqueue of a progress decides whether the user will see it.
ReceiveEnqueues ==
  /\ Enqueue("receive")
  /\ missed' = IF asked["receive"] = Notification THEN missed ELSE full["receive"]
  /\ UNCHANGED <<timerVars, stored, reported, reporting, subscribed, shown, systemVars>>

\* A handler, or a cancel, finishes an item.
FinishItem(i) ==
  /\ Receives /\ Event
  /\ i \in made
  /\ done' = done \cup {i}
  /\ Remove(i)
  /\ UNCHANGED <<cookie, calling, reused, queueVars, progressVars, connected, losing, made, started>>

ReceiveThread ==
  \/ Connect
  \/ \E field \in {"current", "reached"}, n \in Seqs : ProcessProgress(field, n)
  \/ ReportProgress /\ UNCHANGED systemVars
  \/ ReceiveEnqueues
  \/ \E i \in Items : FinishItem(i)
-----------------------------------------------------------------------------
(***************************************************************************)
(* The work thread: run_once() and what it calls.                          *)
(***************************************************************************)
RunOnce ==
  /\ shutdown # "done"
  /\ \E a \in Addresses : Expire(a)
  /\ UNCHANGED <<queueVars, progressVars, systemVars>>

HeartbeatsTimedOut ==
  /\ calling = "heartbeats" /\ ~losing
  /\ ~Connecting
  /\ losing' = TRUE
  /\ connected' = FALSE
  /\ CallUserCallback("work", Notification)
  /\ UNCHANGED <<timerVars, progressVars, made, started, done, events>>

WorkEnqueues ==
  /\ Enqueue("work")
  /\ UNCHANGED <<timerVars, progressVars, systemVars>>

\* The inspection plugin's disable(), after the mutex is released.
Disable ==
  /\ losing /\ ~Asking("work")
  /\ Reset
  /\ losing' = FALSE
  /\ calling' = Nobody
  /\ UNCHANGED <<timeouts, cookie, reused, queueVars, connected, made, started, done, events>>

\* process_timeout() sends again, or gives up; the item may be gone by now.
Repeat(i) ==
  /\ calling = i /\ Event
  /\ Add(i)
  /\ calling' = Nobody
  /\ UNCHANGED <<queueVars, progressVars, connected, losing, made, started, done>>

GiveUp(i) ==
  /\ calling = i
  /\ done' = done \cup ({i} \cap made)
  /\ calling' = Nobody
  /\ UNCHANGED <<timeouts, cookie, reused, queueVars, progressVars, connected, losing, made,
                 started, events>>

WorkThread ==
  \/ RunOnce \/ HeartbeatsTimedOut \/ WorkEnqueues \/ Disable
  \/ WatchdogBarks /\ UNCHANGED <<progressVars, systemVars>>
  \/ \E i \in Items : Repeat(i) \/ GiveUp(i)
-----------------------------------------------------------------------------
(***************************************************************************)
(* The system thread: do_work().                                           *)
(***************************************************************************)
StartItem(i) ==
  /\ i \in made \ started
  /\ started' = started \cup {i}
  /\ Add(i)
  /\ UNCHANGED <<calling, queueVars, progressVars, connected, losing, made, done, events>>

\* pop_front() of the last reference: the destructor removes the timer once more.
DropItem(i) ==
  /\ i \in started \cap done
  /\ made' = made \ {i} /\ started' = started \ {i} /\ done' = done \ {i}
  /\ Remove(i)
  /\ cookie' = [cookie EXCEPT ![i] = Null]
  /\ UNCHANGED <<calling, reused, queueVars, progressVars, connected, losing, events>>

SystemThread == \E i \in Items : StartItem(i) \/ DropItem(i)
-----------------------------------------------------------------------------
(***************************************************************************)
(* The user's threads.                                                     *)
(***************************************************************************)
MakeItem(i) ==
  /\ ~ShouldExit /\ Event
  /\ i \notin made
  /\ made' = made \cup {i}
  /\ cookie' = [cookie EXCEPT ![i] = Null]
  /\ UNCHANGED <<timeouts, calling, reused, queueVars, progressVars, connected, losing, started, done>>

\* upload_inspection_async() resets the progress.
Upload ==
  /\ ~ShouldExit /\ Event
  /\ Reset
  /\ UNCHANGED <<timerVars, queueVars, connected, losing, made, started, done>>

\* The user is shown what a callback carries when it runs.
ShownBy(f) == IF f.of = "progress" THEN f.progress ELSE shown

UserThread ==
  \/ \E i \in Items : MakeItem(i)
  \/ Upload
  \/ ~ShouldExit /\ Subscribe /\ UNCHANGED systemVars
  \/ Exit /\ UNCHANGED <<progressVars, systemVars>>

CallbackThread ==
  \/ (Loop \/ DequeueNothing \/ Dequeue) /\ UNCHANGED <<progressVars, systemVars>>
  \/ /\ Return
     /\ shown' = ShownBy(running)
     /\ UNCHANGED <<stored, reported, reporting, subscribed, missed, systemVars>>

\* ~MavsdkImpl() joins the work thread at last.
JoinWork ==
  /\ shutdown = "callbacks joined" /\ calling = Nobody
  /\ shutdown' = "done"
  /\ UNCHANGED <<queue, asked, full, raced, runner, running, timerVars>>

Destructor ==
  /\ StopQueue \/ JoinCallbacks \/ JoinWork
  /\ UNCHANGED <<progressVars, systemVars>>

Next ==
  \/ ReceiveThread \/ WorkThread \/ SystemThread \/ UserThread
  \/ CallbackThread \/ Destructor

Spec == Init /\ [][Next]_vars

FairSpec ==
  /\ Spec
  /\ WF_vars(WorkThread) /\ WF_vars(CallbackThread) /\ WF_vars(Destructor)
  /\ WF_vars(ReceiveEnqueues)
-----------------------------------------------------------------------------
\* Who relies on a timeout: a connected system and the items under way.
Relying == {o \in {"heartbeats"} : connected} \cup (started \ done)

(***************************************************************************)
(* A connected system and an item under way keep their timeout until it is *)
(* called, whatever the others remove and however late, as long as no      *)
(* Timeout is allocated where a cookie of another owner still points.      *)
(* Every work item removes twice, in its handler and in its destructor,    *)
(* and the callback thread removes watchdogs that have expired.            *)
(***************************************************************************)
TimeoutsKept == reused \/ \A o \in Relying : Watched(o)

(***************************************************************************)
(* call_user_callback() keeps the queue at its limit, as long as no two    *)
(* threads are between size() and enqueue() at once: two that both see one *)
(* place left take the queue past the limit, which is compared for         *)
(* equality and holds nothing back from then on.                           *)
(***************************************************************************)
QueueBounded == raced \/ Len(queue) <= QueueLimit

(***************************************************************************)
(* Once the receive thread and the callback thread have nothing left to do *)
(* the user was last shown the progress that inspection_progress()         *)
(* returns, unless that was reset since or the last report found no        *)
(* callback or a full queue: report_progress() reads the progress again,   *)
(* which an upload or the loss of the system may have reset in between.    *)
(***************************************************************************)
Settled == Receives /\ queue = <<>> /\ running = NoCallback

LastProgressIsShown ==
  Settled /\ ~missed /\ stored # NoProgress => shown = stored

(***************************************************************************)
(* ~MavsdkImpl() joins both threads, wherever they are when it begins: a   *)
(* callback thread that waits in dequeue() is woken.                       *)
(***************************************************************************)
DestructorEnds == ShouldExit ~> shutdown = "done"

(***************************************************************************)
(* The callback thread empties the queue unless the program ends first:    *)
(* the watchdogs and the work thread do not hold it up.                    *)
(***************************************************************************)
CallbacksRun == queue # <<>> ~> queue = <<>> \/ ShouldExit
=============================================================================
