----------------------------- MODULE UserCallbacks -----------------------------
(***************************************************************************)
(* The queue of callbacks of MavsdkImpl, the thread that runs them under a *)
(* watchdog of the TimeoutHandler, and the destructor that ends the        *)
(* threads.  call_user_callback() looks at the size of the queue first and *)
(* enqueues later.                                                         *)
(***************************************************************************)
EXTENDS TimeoutHandler, Naturals, Sequences

CONSTANTS
  Callbacks, NoCallback,
  Callers,     \* threads of the library that call user callbacks
  QueueLimit   \* 100 in the code

ASSUME CallbacksAssumption ==
  /\ NoCallback \notin Callbacks
  /\ QueueLimit \in Nat \ {0}
  /\ "watchdog" \in Owners

VARIABLES
  queue,      \* _user_callback_queue
  asked,      \* the callback each caller has looked at the size for
  full,       \* whether the size was QueueLimit then
  raced,      \* history: two callers were between the look and the enqueue
  runner,     \* where process_user_callbacks_thread() is
  running,    \* the callback it runs
  shutdown    \* how far ~MavsdkImpl() is

queueVars == <<queue, asked, full, raced, runner, running, shutdown>>

\* The destructor sets _should_exit, stops the queue and joins the threads.
Shutdown == {"not begun", "should exit", "queue stopped", "callbacks joined", "done"}
ShouldExit == shutdown # "not begun"
QueueStopped == shutdown \in {"queue stopped", "callbacks joined", "done"}

CallbacksOK ==
  /\ queue \in Seq(Callbacks)
  /\ asked \in [Callers -> Callbacks \cup {NoCallback}]
  /\ full \in [Callers -> BOOLEAN]
  /\ raced \in BOOLEAN
  /\ runner \in {"looping", "dequeuing", "running", "ended"}
  /\ running \in Callbacks \cup {NoCallback}
  /\ runner = "running" <=> running # NoCallback
  /\ shutdown \in Shutdown

CallbacksInit ==
  /\ queue = <<>>
  /\ asked = [c \in Callers |-> NoCallback]
  /\ full = [c \in Callers |-> FALSE]
  /\ raced = FALSE
  /\ runner = "looping" /\ running = NoCallback
  /\ shutdown = "not begun"
-----------------------------------------------------------------------------
Asking(c) == asked[c] # NoCallback

\* call_user_callback_located() up to the size() ...
CallUserCallback(c, f) ==
  /\ asked' = [asked EXCEPT ![c] = f]
  /\ full' = [full EXCEPT ![c] = Len(queue) = QueueLimit]
  /\ raced' = (raced \/ \E d \in Callers \ {c} : Asking(d))
  /\ UNCHANGED <<queue, runner, running, shutdown>>

\* Bug variant: the queue is never full.
EnqueueAlways(c) ==
  /\ Asking(c)
  /\ queue' = Append(queue, asked[c])
  /\ asked' = [asked EXCEPT ![c] = NoCallback]
  /\ full' = [full EXCEPT ![c] = FALSE]
  /\ UNCHANGED <<raced, runner, running, shutdown>>

\* ... and the rest of it: a callback for a full queue is dropped.
Enqueue(c) ==
  /\ Asking(c)
  /\ queue' = IF full[c] THEN queue ELSE Append(queue, asked[c])
  /\ asked' = [asked EXCEPT ![c] = NoCallback]
  /\ full' = [full EXCEPT ![c] = FALSE]
  /\ UNCHANGED <<raced, runner, running, shutdown>>
-----------------------------------------------------------------------------
(***************************************************************************)
(* process_user_callbacks_thread()                                         *)
(***************************************************************************)
Loop ==
  /\ runner = "looping"
  /\ runner' = IF ShouldExit THEN "ended" ELSE "dequeuing"
  /\ UNCHANGED <<queue, asked, full, raced, running, shutdown, timerVars>>

\* dequeue() returns nothing once the queue is stopped ...
DequeueNothing ==
  /\ runner = "dequeuing" /\ QueueStopped
  /\ runner' = "looping"
  /\ UNCHANGED <<queue, asked, full, raced, running, shutdown, timerVars>>

\* Bug variant: off by one in the test for an empty queue.
DequeueOffByOne ==
  /\ runner = "dequeuing" /\ ~QueueStopped
  /\ Len(queue) > 1
  /\ queue' = Tail(queue)
  /\ running' = Head(queue)
  /\ runner' = "running"
  /\ Add("watchdog")
  /\ UNCHANGED <<asked, full, raced, shutdown, calling>>

\* ... and waits for a callback before.  The watchdog is set.
Dequeue ==
  /\ runner = "dequeuing" /\ ~QueueStopped
  /\ queue # <<>>
  /\ queue' = Tail(queue)
  /\ running' = Head(queue)
  /\ runner' = "running"
  /\ Add("watchdog")
  /\ UNCHANGED <<asked, full, raced, shutdown, calling>>

\* func() returns: the watchdog is removed by its cookie, expired or not, and
\* the cookie, a local variable, goes.
Return ==
  /\ runner = "running"
  /\ running' = NoCallback
  /\ runner' = "looping"
  /\ Remove("watchdog")
  /\ cookie' = [cookie EXCEPT !["watchdog"] = Null]
  /\ UNCHANGED <<queue, asked, full, raced, shutdown, calling, reused>>

\* The callback of the watchdog logs.
WatchdogBarks ==
  /\ calling = "watchdog"
  /\ calling' = Nobody
  /\ UNCHANGED <<queueVars, timeouts, cookie, reused>>
-----------------------------------------------------------------------------
(***************************************************************************)
(* ~MavsdkImpl()                                                           *)
(***************************************************************************)
Exit ==
  /\ shutdown = "not begun"
  /\ shutdown' = "should exit"
  /\ UNCHANGED <<queue, asked, full, raced, runner, running, timerVars>>

\* Bug variant: the join comes before the stop.
StopAfterJoin ==
  /\ shutdown = "should exit" /\ runner = "ended"
  /\ shutdown' = "queue stopped"
  /\ UNCHANGED <<queue, asked, full, raced, runner, running, timerVars>>

StopQueue ==
  /\ shutdown = "should exit"
  /\ shutdown' = "queue stopped"
  /\ UNCHANGED <<queue, asked, full, raced, runner, running, timerVars>>

JoinCallbacks ==
  /\ shutdown = "queue stopped" /\ runner = "ended"
  /\ shutdown' = "callbacks joined"
  /\ UNCHANGED <<queue, asked, full, raced, runner, running, timerVars>>
=============================================================================
