-------------------------------- MODULE Locks --------------------------------
(***************************************************************************)
(* The mutexes of the library and who takes them in which order.  Each     *)
(* operation of the code is written as the sequence of its steps: taking   *)
(* and releasing mutexes, and what it does to the shared state in between. *)
(* A thread with nothing left to do begins its next operation; what an     *)
(* operation finds (a registered handler, a finished item) decides how its *)
(* sequence goes on.                                                       *)
(*                                                                         *)
(* One system, and one of its transfers: a list download on the ground     *)
(* station's side, waypoint uploads and downloads on the vehicle's.        *)
(* Mutexes that are held only over code that waits for nothing (sending,   *)
(* the user callback queue, UDP) are left out, as are the recursive locks  *)
(* of _systems_mutex that receive_message() takes again.                   *)
(***************************************************************************)
EXTENDS Naturals, Sequences, FiniteSets, SequencesExt

CONSTANTS
  Items,     \* the work items, used again when they are freed
  NoItem,
  Sides,     \* a subset of {"station", "vehicle"}: which programs to look at
  MaxEvents  \* bound: messages received and calls of the user

ASSUME LocksAssumption ==
  /\ NoItem \notin Items /\ IsFiniteSet(Items)
  /\ Sides \subseteq {"station", "vehicle"}
  /\ MaxEvents \in Nat

VARIABLES
  side,       \* what this program is
  todo,       \* the steps each thread has left of its operation
  calling,    \* the call the user's thread is in
  events,     \* how many messages were received and calls made
  holder,     \* the thread that holds each mutex
  table,      \* MAVLinkMessageHandler::_table, the entries of work items
  armed,      \* entries of the TimeoutHandler; NoItem stands for the heartbeats
  fifo,       \* the transfer's _work_queue
  refs,       \* who holds a shared_ptr to each item
  exists,     \* the items whose memory is not freed
  kind,       \* "upload" or "download"
  started, done,   \* _started and _done of each item
  connected   \* SystemImpl::_connected

itemVars == <<table, armed, fifo, refs, exists, kind, started, done>>
counters == <<calling, events>>
vars == <<side, todo, counters, holder, itemVars, connected>>

Threads == {"receive", "work", "system", "user"}
Nobody == "nobody"

(***************************************************************************)
(* systems  MavsdkImpl::_systems_mutex     queue     LockedQueue::_mutex   *)
(* news     _new_system_callback_mutex     item      WorkItem::_mutex      *)
(* link     SystemImpl::_connection_mutex  data      the mutex of a plugin *)
(* plugins  SystemImpl::_plugin_impls_mutex                                *)
(* table    MAVLinkMessageHandler::_mutex                                  *)
(* timeouts TimeoutHandler::_timeouts_mutex                                *)
(***************************************************************************)
Mutexes == ({"systems", "news", "link", "plugins", "table", "timeouts", "queue", "data"} \X {NoItem})
           \cup ({"item"} \X Items)

Init ==
  /\ side \in Sides
  /\ todo = [t \in Threads |-> <<>>] /\ calling = "nothing"
  /\ events = 0
  /\ holder = [m \in Mutexes |-> Nobody]
  /\ table = {} /\ armed = {} /\ fifo = <<>>
  /\ refs = [i \in Items |-> {}] /\ exists = {}
  /\ kind = [i \in Items |-> "download"]
  /\ started = {} /\ done = {}
  /\ connected = FALSE
-----------------------------------------------------------------------------
(***************************************************************************)
(* The operations, as sequences of steps.                                  *)
(***************************************************************************)
Step(op, on, i) == [op |-> op, on |-> on, item |-> i]
Do(op, i) == <<Step(op, "", i)>>
LockedItem(i, body) == <<Step("lock", "item", i)>> \o body \o <<Step("unlock", "item", i)>>
Locked(m, body) == <<Step("lock", m, NoItem)>> \o body \o <<Step("unlock", m, NoItem)>>

\* A mutex that is taken over code that waits for nothing: one step.
Pass(m) == <<Step("pass", m, NoItem)>>

AddTimeout(i) == Do("arm", i)
RemoveTimeout(i) == Do("disarm", i)
RefreshTimeout == Pass("timeouts")
Register(message, i) == <<Step("register", message, i)>>

\* callback_and_reset(): the vehicle's plugins lock their data in the callback.
CallbackAndReset(i) ==
  (IF side = "vehicle" THEN Pass("data") ELSE <<>>) \o Do("done", i)

\* The constructor, on the station: both handlers under the item's mutex.
Construct(i) ==
  IF side = "station" THEN LockedItem(i, Register("COUNT", i) \o Register("ITEM", i)) ELSE <<>>

\* download_items_async(), upload_items_async(): ptr goes when they return.
NewItem(i) == Construct(i) \o Do("push", i) \o Do("drop", i)

\* start(): its ways to go on.
Starts(i) ==
  {LockedItem(i, steps) : steps \in
    CASE side = "station" -> {AddTimeout(i), AddTimeout(i) \o RemoveTimeout(i) \o CallbackAndReset(i)}
      [] side = "vehicle" /\ kind[i] = "upload" ->
           {Register("ACK", i) \o AddTimeout(i) \o rest :
              rest \in {<<>>, CallbackAndReset(i), Register("READ", i)}}
      [] OTHER -> {Register("ITEM", i) \o rest : rest \in {CallbackAndReset(i), AddTimeout(i)}}}

\* A handler of the item goes on or finishes it.
Handles(i, finish) ==
  LockedItem(i, IF finish THEN RemoveTimeout(i) \o CallbackAndReset(i) ELSE RefreshTimeout)

\* process_timeout() repeats, or gives up.
TimeoutHandlers(i) == {LockedItem(i, AddTimeout(i)), LockedItem(i, CallbackAndReset(i))}

Cancels(i) == LockedItem(i, RemoveTimeout(i) \o CallbackAndReset(i)) \o Do("drop", i)

\* Bug variant: the handlers stay in the table.
DestroyQuietly(i) == LockedItem(i, RemoveTimeout(i)) \o Do("free", i)

\* The destructor.
Destroy(i) ==
  LockedItem(i, Do("unregister", i) \o RemoveTimeout(i)) \o Do("free", i)

DoWork == Locked("queue", Do("front", NoItem))
WorkOn(i) == Do("started?", i) \o Do("done?", i) \o Do("drop", i)

\* MavsdkImpl::receive_message() and process_message()
Receive(message) == Locked("systems", Locked("table", <<Step("dispatch", message, NoItem)>>))
ItemMessages == IF side = "station" THEN {"COUNT", "ITEM"} ELSE {"ACK", "READ", "ITEM"}
PluginMessages == IF side = "station" THEN {} ELSE {"COUNT", "REQUEST"}

\* The plugin's handler of a REQUEST or a COUNT.
Serves(message) == Locked("data", <<Step("serve", message, NoItem)>>)

\* set_connected() and set_disconnected(): enable() does nothing, the
\* inspection plugin's disable() resets its progress.
SetConnected == Locked("link", Do("connect", NoItem))
Notify == Pass("news")
EnableAll == Pass("plugins")
DisableAll ==
  IF side = "station" THEN Locked("plugins", Pass("data")) ELSE Pass("plugins")
HeartbeatsTimedOut == Locked("link", Do("disconnect", NoItem) \o Notify) \o DisableAll

\* Bug variant: the callback is called with the mutex held.
RunLocked(callback) == callback

\* run_once() erases the entry and unlocks while it calls.
RunUnlocked(callback) ==
  <<Step("unlock", "timeouts", NoItem)>> \o callback \o <<Step("lock", "timeouts", NoItem)>>

SubscribeOnNewSystem == Locked("news", Pass("systems"))
RegisterPlugin == Pass("table") \o Pass("plugins")
UnregisterPlugin ==
  (IF side = "station" THEN Pass("data") ELSE <<>>) \o Pass("table")
  \o Pass("plugins")
-----------------------------------------------------------------------------
(***************************************************************************)
(* The threads begin their operations.                                     *)
(***************************************************************************)
Idle(t) == todo[t] = <<>>
Begin(t, steps) == Idle(t) /\ todo' = [todo EXCEPT ![t] = steps]
Alive(i) == refs[i] # {}
Busy(k) == \E i \in Items : Alive(i) /\ kind[i] = k

Event == events < MaxEvents /\ events' = events + 1

Fresh(t, i, k) ==
  /\ i \notin exists
  /\ exists' = exists \cup {i}
  /\ refs' = [refs EXCEPT ![i] = {t}]
  /\ kind' = [kind EXCEPT ![i] = k]

ReceiveThread ==
  /\ Event
  /\ \E message \in ItemMessages \cup PluginMessages \cup {"HEARTBEAT"} :
       Begin("receive", Receive(message))
  /\ UNCHANGED <<side, calling, holder, itemVars, connected>>

\* A pass of run_once() or do_work() that finds nothing is left out.
WorkThread ==
  /\ armed # {}
  /\ Begin("work", Locked("timeouts", Do("expire", NoItem)))
  /\ UNCHANGED <<side, counters, holder, itemVars, connected>>

SystemThread ==
  /\ fifo # <<>>
  /\ Begin("system", DoWork)
  /\ UNCHANGED <<side, counters, holder, itemVars, connected>>

Call(name) == Event /\ calling' = name

\* download_..._async() on the station, when no item is alive.
Download ==
  /\ side = "station"
  /\ ~Busy("download")
  /\ \E i \in Items : Fresh("user", i, "download") /\ Begin("user", NewItem(i))
  /\ Call("download")
  /\ UNCHANGED <<side, holder, table, armed, fifo, started, done, connected>>

\* cancel_...(): lock() of the weak_ptr.
Cancel ==
  /\ \E i \in Items :
       /\ Alive(i)
       /\ refs' = [refs EXCEPT ![i] = @ \cup {"user"}]
       /\ Begin("user", Cancels(i))
  /\ Call("cancel")
  /\ UNCHANGED <<side, holder, table, armed, fifo, exists, kind, started, done, connected>>

OtherCall(name, steps) ==
  /\ Begin("user", steps)
  /\ Call(name)
  /\ UNCHANGED <<side, holder, itemVars, connected>>

UserThread ==
  \/ Download
  \/ Cancel
  \/ OtherCall("subscribe_on_new_system", SubscribeOnNewSystem)
  \/ OtherCall("register_plugin", RegisterPlugin)
  \/ OtherCall("unregister_plugin", UnregisterPlugin)
-----------------------------------------------------------------------------
(***************************************************************************)
(* A thread takes its next step.                                           *)
(***************************************************************************)
Now(t) == Head(todo[t])
Due(t, op) == ~Idle(t) /\ Now(t).op = op

\* The mutex a step takes.
Mutex(s) ==
  CASE s.op \in {"arm", "disarm"} -> <<"timeouts", NoItem>>
    [] s.op \in {"register", "unregister"} -> <<"table", NoItem>>
    [] s.op = "push" -> <<"queue", NoItem>>
    [] s.op \in {"started?", "done?"} -> <<"item", s.item>>
    [] OTHER -> <<s.on, s.item>>

Takes == {"lock", "pass", "arm", "disarm", "register", "unregister", "push", "started?", "done?"}
Waits(t) == ~Idle(t) /\ Now(t).op \in Takes
MayTake(t) == holder[Mutex(Now(t))] = Nobody

\* The thread goes on with these steps and then the rest.
GoOn(t, steps) == todo' = [todo EXCEPT ![t] = steps \o Tail(@)]

Lock(t) ==
  /\ Due(t, "lock") /\ MayTake(t)
  /\ holder' = [holder EXCEPT ![Mutex(Now(t))] = t]
  /\ GoOn(t, <<>>)
  /\ UNCHANGED <<side, counters, itemVars, connected>>

Unlock(t) ==
  /\ Due(t, "unlock")
  /\ holder' = [holder EXCEPT ![Mutex(Now(t))] = Nobody]
  /\ GoOn(t, <<>>)
  /\ UNCHANGED <<side, counters, itemVars, connected>>

LockAndUnlock(t) ==
  /\ Due(t, "pass") /\ MayTake(t)
  /\ GoOn(t, <<>>)
  /\ UNCHANGED <<side, counters, holder, itemVars, connected>>

\* register_one() and unregister_all()
ChangeTable(t) ==
  /\ \/ Due(t, "register") /\ table' = table \cup {<<Now(t).on, Now(t).item>>}
     \/ Due(t, "unregister") /\ table' = {e \in table : e[2] # Now(t).item}
  /\ MayTake(t)
  /\ GoOn(t, <<>>)
  /\ UNCHANGED <<side, counters, holder, armed, fifo, refs, exists, kind, started, done, connected>>

\* add() and remove()
ChangeTimers(t) ==
  /\ \/ Due(t, "arm") /\ armed' = armed \cup {Now(t).item}
     \/ Due(t, "disarm") /\ armed' = armed \ {Now(t).item}
  /\ MayTake(t)
  /\ GoOn(t, <<>>)
  /\ UNCHANGED <<side, counters, holder, table, fifo, refs, exists, kind, started, done, connected>>

\* run_once(): one expired entry, or none.
Expire(t) ==
  /\ Due(t, "expire")
  /\ \/ GoOn(t, <<>>) /\ UNCHANGED armed
     \/ \E i \in armed :
          /\ armed' = armed \ {i}
          /\ \E steps \in IF i = NoItem THEN {HeartbeatsTimedOut} ELSE TimeoutHandlers(i) :
               GoOn(t, RunUnlocked(steps))
  /\ UNCHANGED <<side, counters, holder, table, fifo, refs, exists, kind, started, done, connected>>

\* push_back()
Push(t) ==
  /\ Due(t, "push") /\ MayTake(t)
  /\ fifo' = Append(fifo, Now(t).item)
  /\ refs' = [refs EXCEPT ![Now(t).item] = @ \cup {"queue"}]
  /\ GoOn(t, <<>>)
  /\ UNCHANGED <<side, counters, holder, table, armed, exists, kind, started, done, connected>>

\* get_front()
GetFront(t) ==
  /\ Due(t, "front")
  /\ refs' = [refs EXCEPT ![Head(fifo)] = @ \cup {t}]
  /\ GoOn(t, WorkOn(Head(fifo)))
  /\ UNCHANGED <<side, counters, holder, table, armed, fifo, exists, kind, started, done, connected>>

\* has_started(), and start() after it.
AskStarted(t) ==
  LET i == Now(t).item IN
  /\ Due(t, "started?") /\ MayTake(t)
  /\ started' = started \cup {i}
  /\ \E steps \in IF i \in started THEN {<<>>} ELSE Starts(i) : GoOn(t, steps)
  /\ UNCHANGED <<side, counters, holder, table, armed, fifo, refs, exists, kind, done, connected>>

\* is_done(), and pop_front() after it.
AskDone(t) ==
  LET i == Now(t).item IN
  /\ Due(t, "done?") /\ MayTake(t)
  /\ IF i \in done
     THEN fifo' = Tail(fifo) /\ refs' = [refs EXCEPT ![i] = @ \ {"queue"}]
     ELSE UNCHANGED <<fifo, refs>>
  /\ GoOn(t, <<>>)
  /\ UNCHANGED <<side, counters, holder, table, armed, exists, kind, started, done, connected>>

Finish(t) ==
  /\ Due(t, "done")
  /\ done' = done \cup {Now(t).item}
  /\ GoOn(t, <<>>)
  /\ UNCHANGED <<side, counters, holder, table, armed, fifo, refs, exists, kind, started, connected>>

\* A shared_ptr goes; the last one destroys the item.
Drop(t) ==
  LET i == Now(t).item IN
  /\ Due(t, "drop")
  /\ refs' = [refs EXCEPT ![i] = @ \ {t}]
  /\ GoOn(t, IF refs[i] = {t} THEN Destroy(i) ELSE <<>>)
  /\ UNCHANGED <<side, counters, holder, table, armed, fifo, exists, kind, started, done, connected>>

Free(t) ==
  /\ Due(t, "free")
  /\ exists' = exists \ {Now(t).item}
  /\ started' = started \ {Now(t).item} /\ done' = done \ {Now(t).item}
  /\ kind' = [kind EXCEPT ![Now(t).item] = "download"]
  /\ GoOn(t, <<>>)
  /\ UNCHANGED <<side, counters, holder, table, armed, fifo, refs, connected>>

\* process_message(): the handlers of the message, one after the other.
Dispatch(t) ==
  LET message == Now(t).on
      handlers == {i \in Items : <<message, i>> \in table} IN
  /\ Due(t, "dispatch")
  /\ CASE message = "HEARTBEAT" -> GoOn(t, SetConnected)
       [] message \in PluginMessages -> GoOn(t, Serves(message))
       [] OTHER -> \E order \in SetToSeqs(handlers) :
            GoOn(t, [n \in DOMAIN order |-> Step("handle", "", order[n])])
  /\ UNCHANGED <<side, counters, holder, itemVars, connected>>

\* A handler of an item is called.
Handle(t) ==
  /\ Due(t, "handle")
  /\ \E finish \in BOOLEAN : GoOn(t, Handles(Now(t).item, finish))
  /\ UNCHANGED <<side, counters, holder, itemVars, connected>>

\* upload_inspection(), download_inspection(): a new item unless one is alive.
Serve(t) ==
  LET k == IF Now(t).on = "REQUEST" THEN "upload" ELSE "download" IN
  /\ Due(t, "serve")
  /\ IF Busy(k)
     THEN GoOn(t, <<>>) /\ UNCHANGED <<refs, exists, kind>>
     ELSE \E i \in Items : Fresh(t, i, k) /\ GoOn(t, NewItem(i))
  /\ UNCHANGED <<side, counters, holder, table, armed, fifo, started, done, connected>>

\* The parts of set_connected() and set_disconnected() under the mutex.
Connect(t) ==
  /\ \/ /\ Due(t, "connect") /\ ~connected
        /\ connected' = TRUE
        /\ todo' = [todo EXCEPT ![t] = Notify \o AddTimeout(NoItem) \o <<@[2]>> \o EnableAll
                                       \o SubSeq(@, 3, Len(@))]
     \/ /\ Due(t, "connect") /\ connected
        /\ GoOn(t, RefreshTimeout) /\ UNCHANGED connected
     \/ /\ Due(t, "disconnect")
        /\ connected' = FALSE
        /\ GoOn(t, <<>>)
  /\ UNCHANGED <<side, counters, holder, itemVars>>

Perform(t) ==
  \/ Lock(t) \/ Unlock(t) \/ LockAndUnlock(t) \/ ChangeTable(t) \/ ChangeTimers(t) \/ Expire(t)
  \/ Push(t) \/ GetFront(t) \/ AskStarted(t) \/ AskDone(t) \/ Finish(t)
  \/ Drop(t) \/ Free(t) \/ Dispatch(t) \/ Handle(t) \/ Serve(t) \/ Connect(t)

Next ==
  \/ ReceiveThread \/ WorkThread \/ SystemThread \/ UserThread
  \/ \E t \in Threads : Perform(t)

Spec == Init /\ [][Next]_vars
-----------------------------------------------------------------------------
\* Every thread of T waits for a mutex that one of T holds.
Deadlocked(T) ==
  T # {} /\ \A t \in T : Waits(t) /\ holder[Mutex(Now(t))] \in T

(***************************************************************************)
(* The work thread, the system thread and the user's thread never wait for *)
(* each other in a circle: whatever deadlock there is, the receive thread  *)
(* is in it, with the table's and the systems' mutexes held                *)
(* (process_message() calls the handlers under its mutex).                 *)
(***************************************************************************)
ReceiverInEveryDeadlock ==
  \A T \in SUBSET Threads : Deadlocked(T) => "receive" \in T

(***************************************************************************)
(* A thread that waits for the mutex of an item, or holds it, does so      *)
(* while the item is there: its handlers leave the table before its memory *)
(* goes, and a cancelling thread keeps it.  Not so the work thread, which  *)
(* may carry a callback of an item that is gone.                           *)
(***************************************************************************)
HandlersOfLiveItems ==
  \A t \in Threads \ {"work"}, i \in Items :
    (Waits(t) /\ Mutex(Now(t)) = <<"item", i>>) \/ holder[<<"item", i>>] = t => i \in exists

(***************************************************************************)
(* alarm.h:52 "This function is non-blocking": download_alarm_async() does *)
(* not wait for ever.                                                      *)
(***************************************************************************)
DownloadIsNonBlocking ==
  calling = "download" => ~ \E T \in SUBSET Threads : "user" \in T /\ Deadlocked(T)
=============================================================================
