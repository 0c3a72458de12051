-------------------------- MODULE SystemConnection --------------------------
(***************************************************************************)
(* How the library sees the other systems come and go: system_impl.cpp     *)
(* (heartbeats, their timer, the plugins) with the parts of mavsdk_impl.cpp*)
(* it calls.  Four threads meet here: the receive thread takes heartbeats, *)
(* the work thread runs the TimeoutHandler, a user's threads make and      *)
(* destroy plugins, and the callback thread runs the user's callbacks.     *)
(* set_connected() and set_disconnected() have two parts under two         *)
(* mutexes: first the state, then the plugins.  The first part ends by     *)
(* telling the user, in call_user_callback_located(), which reads the size *)
(* of the queue and enqueues later.  Between all these the other threads   *)
(* go on, as far as the mutex of the first part lets them.                 *)
(***************************************************************************)
EXTENDS Naturals, Sequences, FiniteSets

CONSTANTS
  Systems,        \* the remote systems that may be heard
  Plugins,        \* the plugin objects the user makes
  Home,           \* the system each plugin was made for
  Timeout,        \* ticks of the clock in _HEARTBEAT_TIMEOUT_S
  QueueLimit,     \* the size of the queue that drops a user callback: 100 in the code
  MaxHeartbeats,  \* bound: heartbeats received
  AlwaysSend      \* get_always_send_heartbeats()

ASSUME ConnectionAssumption ==
  /\ Systems \subseteq 1 .. 255
  /\ Home \in [Plugins -> Systems]
  /\ Timeout \in Nat \ {0}
  /\ QueueLimit \in Nat \ {0}
  /\ MaxHeartbeats \in Nat
  /\ AlwaysSend \in BOOLEAN

VARIABLES
  known,       \* _systems
  connected,   \* the systems whose _connected is set
  armed,       \* the systems that have an entry in the TimeoutHandler
  age,         \* ticks since that entry was added or refreshed
  receiving,   \* where the receive thread is in set_connected(): see Receiving
  working,     \* what the work thread is about: see Work
  listening,   \* the systems with an _is_connected_callback
  callbacks,   \* _user_callback_queue, is_connected callbacks only
  stage,       \* how far each plugin's construction or destruction is
  enabled,     \* the plugins whose last call was enable(), not disable()
  senders,     \* entries of send_heartbeat() in the CallEveryHandler
  heartbeats,  \* how many heartbeats were received
  silence,     \* ticks since a heartbeat was processed (history)
  seen,        \* what the user's is_connected callback was told last (history)
  dropped,     \* the systems a callback of which the full queue dropped (history)
  overtaken    \* plugins a change of connection overtook (history)

connectionVars == <<known, connected, armed, age, receiving, working, senders>>
callbackVars == <<listening, callbacks, seen, dropped>>
pluginVars == <<stage, enabled>>
vars == <<connectionVars, callbackVars, pluginVars, heartbeats, silence, overtaken>>

NoSystem == 0   \* receive_message() refuses system id 0
Idle == [at |-> "idle", system |-> NoSystem]
Receiving == {Idle} \cup [at : {"telling", "enabling"}, system : Systems]
Work == {Idle} \cup [at : {"firing", "telling", "disabling"}, system : Systems]

\* A thread has read the size of the queue and holds _connection_mutex of s.
TellsUp(s) == receiving = [at |-> "telling", system |-> s]
TellsDown(s) == working = [at |-> "telling", system |-> s]
Locked(s) == TellsUp(s) \/ TellsDown(s)

\* The state of s has changed and the plugins are still to be told of it.
Connecting(s) == receiving.system = s
Disconnecting(s) == working.system = s /\ working.at # "firing"

(***************************************************************************)
(* A plugin object is registered by its constructor (init() and into the   *)
(* list, "new"; then _connected is read, "enabling" if it was set) and     *)
(* unregistered by its destructor (disable(), "disabled"; deinit(),        *)
(* "deinited"; off the list, "gone").                                      *)
(***************************************************************************)
Stages == {"none", "new", "enabling", "ready", "disabled", "deinited", "gone"}

\* _plugin_impls of system s.
Registered(s) == {p \in Plugins : Home[p] = s /\ stage[p] \notin {"none", "gone"}}

TypeOK ==
  /\ known \subseteq Systems
  /\ connected \subseteq known
  /\ armed \subseteq known
  /\ age \in [Systems -> 0 .. Timeout]
  /\ receiving \in Receiving
  /\ working \in Work
  /\ listening \subseteq known
  /\ callbacks \in Seq([system : Systems, state : {"up", "down"}])
  /\ stage \in [Plugins -> Stages]
  /\ enabled \subseteq Plugins
  /\ senders \in Nat
  /\ heartbeats \in 0 .. MaxHeartbeats
  /\ silence \in [Systems -> 0 .. Timeout]
  /\ seen \in [Systems -> {"nothing", "up", "down"}]
  /\ dropped \subseteq Systems
  /\ overtaken \subseteq Plugins

Init ==
  /\ known = {} /\ connected = {} /\ armed = {}
  /\ age = [s \in Systems |-> 0]
  /\ receiving = Idle /\ working = Idle
  /\ listening = {} /\ callbacks = <<>>
  /\ stage = [p \in Plugins |-> "none"] /\ enabled = {}
  /\ senders = IF AlwaysSend THEN 1 ELSE 0   \* set_connection()
  /\ heartbeats = 0
  /\ silence = [s \in Systems |-> 0]
  /\ seen = [s \in Systems |-> "nothing"]
  /\ dropped = {} /\ overtaken = {}
-----------------------------------------------------------------------------
(***************************************************************************)
(* call_user_callback_located() of _is_connected_callback, up to where it  *)
(* has read the size of the queue: at exactly QueueLimit the callback is   *)
(* dropped, at any other size it will be enqueued.                         *)
(***************************************************************************)
Full == Len(callbacks) = QueueLimit

Called(s, next) ==
  [at |-> IF s \in listening /\ ~Full THEN "telling" ELSE next, system |-> s]

DropIfFull(s) == dropped' = IF s \in listening /\ Full THEN dropped \cup {s} ELSE dropped

\* Its end: whatever the size is by now.
Enqueue(s, state) == callbacks' = Append(callbacks, [system |-> s, state |-> state])

(***************************************************************************)
(* The connection of s changes while a plugin of s still has to be told of *)
(* an earlier state: whoever comes last has the say.                       *)
(***************************************************************************)
Overtake(s, pending) ==
  overtaken' = {p \in overtaken : Home[p] # s}
               \cup {p \in Plugins : Home[p] = s /\ (pending \/ stage[p] = "enabling")}
-----------------------------------------------------------------------------
(***************************************************************************)
(* The receive thread.  A message makes its system known; a heartbeat goes *)
(* on to set_connected(), which keeps the thread until it has called       *)
(* enable().                                                               *)
(***************************************************************************)
\* receive_message() without a handler: the system is made, not connected.
OtherMessage(s) ==
  /\ receiving = Idle
  /\ s \notin known
  /\ known' = known \cup {s}
  /\ UNCHANGED <<connected, armed, age, receiving, working, senders, callbackVars, pluginVars,
                 heartbeats, silence, overtaken>>

\* Bug variant: the system a heartbeat comes from is not put into _systems.
HeardUnknown(s) ==
  /\ receiving = Idle
  /\ ~Locked(s)
  /\ heartbeats < MaxHeartbeats
  /\ heartbeats' = heartbeats + 1
  /\ known' = known
  /\ silence' = [silence EXCEPT ![s] = 0]

Heard(s) ==
  /\ receiving = Idle
  /\ ~Locked(s)
  /\ heartbeats < MaxHeartbeats
  /\ heartbeats' = heartbeats + 1
  /\ known' = known \cup {s}
  /\ silence' = [silence EXCEPT ![s] = 0]

\* Bug variant: the timer is not refreshed.
HeartbeatWithoutRefresh(s) ==
  /\ Heard(s)
  /\ s \in connected
  /\ UNCHANGED <<connected, armed, age, receiving, working, senders, callbackVars, pluginVars,
                 overtaken>>

\* set_connected() of a connected system: refresh(), which finds nothing when
\* run_once() has erased the entry and is about to call heartbeats_timed_out().
HeartbeatRefreshes(s) ==
  /\ Heard(s)
  /\ s \in connected
  /\ age' = IF s \in armed THEN [age EXCEPT ![s] = 0] ELSE age
  /\ UNCHANGED <<connected, armed, receiving, working, senders, callbackVars, pluginVars,
                 overtaken>>

\* Bug variant: the system connects and no timer is added.
HeartbeatUntimed(s) ==
  /\ Heard(s)
  /\ s \notin connected
  /\ connected' = connected \cup {s}
  /\ senders' = senders + 1   \* start_sending_heartbeat(); none is ever removed
  /\ receiving' = Called(s, "enabling") /\ DropIfFull(s)
  /\ Overtake(s, Disconnecting(s))
  /\ UNCHANGED <<armed, age, working, listening, callbacks, seen, pluginVars>>

\* set_connected() of another: the state, and the size of the queue is read.
HeartbeatConnects(s) ==
  /\ Heard(s)
  /\ s \notin connected
  /\ connected' = connected \cup {s}
  /\ armed' = armed \cup {s}
  /\ age' = [age EXCEPT ![s] = 0]
  /\ senders' = senders + 1   \* start_sending_heartbeat(); none is ever removed
  /\ receiving' = Called(s, "enabling") /\ DropIfFull(s)
  /\ Overtake(s, Disconnecting(s))
  /\ UNCHANGED <<working, listening, callbacks, seen, pluginVars>>

\* The callback is enqueued and _connection_mutex released.
TellConnected ==
  /\ receiving.at = "telling"
  /\ Enqueue(receiving.system, "up")
  /\ receiving' = [receiving EXCEPT !.at = "enabling"]
  /\ UNCHANGED <<known, connected, armed, age, working, senders, listening, seen, dropped,
                 pluginVars, heartbeats, silence, overtaken>>

\* The part under _plugin_impls_mutex: enable() for every plugin on the list.
EnablePlugins ==
  /\ receiving.at = "enabling"
  /\ enabled' = enabled \cup Registered(receiving.system)
  /\ receiving' = Idle
  /\ UNCHANGED <<known, connected, armed, age, working, senders, callbackVars, stage, heartbeats,
                 silence, overtaken>>
-----------------------------------------------------------------------------
(***************************************************************************)
(* The work thread and the clock.                                          *)
(***************************************************************************)
Tick ==
  /\ \E s \in armed : age[s] < Timeout
  /\ age' = [s \in Systems |-> IF s \in armed /\ age[s] < Timeout THEN age[s] + 1 ELSE age[s]]
  /\ silence' = [s \in Systems |-> IF silence[s] < Timeout THEN silence[s] + 1 ELSE Timeout]
  /\ UNCHANGED <<known, connected, armed, receiving, working, senders, callbackVars, pluginVars,
                 heartbeats, overtaken>>

\* run_once() erases the entry and unlocks ...
Expire(s) ==
  /\ working = Idle
  /\ s \in armed
  /\ age[s] = Timeout
  /\ armed' = armed \ {s}
  /\ working' = [at |-> "firing", system |-> s]
  /\ UNCHANGED <<known, connected, age, receiving, senders, callbackVars, pluginVars, heartbeats,
                 silence, overtaken>>

\* Bug variant: set_disconnected() does not take _connection_mutex.
TimedOutUnlocked ==
  /\ working.at = "firing"
  /\ connected' = connected \ {working.system}
  /\ working' = Called(working.system, "disabling") /\ DropIfFull(working.system)
  /\ Overtake(working.system, Connecting(working.system))
  /\ UNCHANGED <<known, armed, age, receiving, senders, listening, callbacks, seen, pluginVars,
                 heartbeats, silence>>

\* ... and calls heartbeats_timed_out(): the state, and the size is read.
TimedOut ==
  /\ working.at = "firing"
  /\ ~Locked(working.system)
  /\ connected' = connected \ {working.system}
  /\ working' = Called(working.system, "disabling") /\ DropIfFull(working.system)
  /\ Overtake(working.system, Connecting(working.system))
  /\ UNCHANGED <<known, armed, age, receiving, senders, listening, callbacks, seen, pluginVars,
                 heartbeats, silence>>

\* The callback is enqueued and _connection_mutex released.
TellDisconnected ==
  /\ working.at = "telling"
  /\ Enqueue(working.system, "down")
  /\ working' = [working EXCEPT !.at = "disabling"]
  /\ UNCHANGED <<known, connected, armed, age, receiving, senders, listening, seen, dropped,
                 pluginVars, heartbeats, silence, overtaken>>

\* The part under _plugin_impls_mutex: disable() for every plugin on the list.
DisablePlugins ==
  /\ working.at = "disabling"
  /\ enabled' = enabled \ Registered(working.system)
  /\ working' = Idle
  /\ UNCHANGED <<known, connected, armed, age, receiving, senders, callbackVars, stage, heartbeats,
                 silence, overtaken>>
-----------------------------------------------------------------------------
(***************************************************************************)
(* The user's threads: each plugin is made and destroyed by one of them.   *)
(***************************************************************************)
Step(p, from, to) ==
  /\ stage[p] = from
  /\ stage' = [stage EXCEPT ![p] = to]
  /\ UNCHANGED <<connectionVars, callbackVars, heartbeats, silence, overtaken>>

\* register_plugin(): init(), then into the list ...
Register(p) == Home[p] \in known /\ Step(p, "none", "new") /\ UNCHANGED enabled

\* Bug variant: whether the system is connected already is not looked at.
LookAway(p) == Step(p, "new", "ready") /\ UNCHANGED enabled

\* ... then _connected is read, without a mutex ...
Look(p) ==
  /\ Step(p, "new", IF Home[p] \in connected THEN "enabling" ELSE "ready")
  /\ UNCHANGED enabled

\* ... and enable() called if it was set.
Enable(p) == Step(p, "enabling", "ready") /\ enabled' = enabled \cup {p}

\* unregister_plugin(): disable(), deinit(), and only then off the list.
Disable(p) == Step(p, "ready", "disabled") /\ enabled' = enabled \ {p}
Deinit(p) == Step(p, "disabled", "deinited") /\ UNCHANGED enabled
Remove(p) == Step(p, "deinited", "gone") /\ UNCHANGED enabled

\* subscribe_is_connected(): the state so far is not told.
Subscribe(s) ==
  /\ s \in known \ listening
  /\ ~Locked(s)
  /\ listening' = listening \cup {s}
  /\ UNCHANGED <<connectionVars, callbacks, seen, dropped, pluginVars, heartbeats, silence,
                 overtaken>>

\* process_user_callbacks_thread()
RunCallback ==
  /\ callbacks # <<>>
  /\ callbacks' = Tail(callbacks)
  /\ seen' = [seen EXCEPT ![Head(callbacks).system] = Head(callbacks).state]
  /\ UNCHANGED <<connectionVars, listening, dropped, pluginVars, heartbeats, silence, overtaken>>
-----------------------------------------------------------------------------
Receive ==
  \/ \E s \in Systems : OtherMessage(s) \/ HeartbeatRefreshes(s) \/ HeartbeatConnects(s)
  \/ TellConnected \/ EnablePlugins

WorkThread ==
  \/ \E s \in Systems : Expire(s)
  \/ TimedOut \/ TellDisconnected \/ DisablePlugins

Users ==
  \/ \E p \in Plugins : \/ Register(p) \/ Look(p) \/ Enable(p)
                        \/ Disable(p) \/ Deinit(p) \/ Remove(p)
  \/ \E s \in Systems : Subscribe(s)

Next == Receive \/ WorkThread \/ Tick \/ Users \/ RunCallback

(***************************************************************************)
(* Time passes, the work thread loops, and the receive thread finishes a   *)
(* call of set_connected() it has begun: the mutexes are held for a while  *)
(* only.  No heartbeat need come.                                          *)
(***************************************************************************)
Spec == Init /\ [][Next]_vars
FairSpec == Spec /\ WF_vars(Tick) /\ WF_vars(WorkThread) /\ WF_vars(TellConnected)
-----------------------------------------------------------------------------
(***************************************************************************)
(* set_connected() adds a timer only for a system that was not connected,  *)
(* and the only timer's end disconnects it: a connected system is watched, *)
(* and one that is not has no timer whose cookie the next add() could      *)
(* overwrite.                                                              *)
(***************************************************************************)
Watched ==
  \A s \in Systems :
    LET firing == working = [at |-> "firing", system |-> s] IN
    /\ s \in connected <=> s \in armed \/ firing
    /\ ~(s \in armed /\ firing)

(***************************************************************************)
(* mavsdk.h:224 "if no heartbeat of the system has been received in 3      *)
(* seconds": run_once() takes a timer out only after that much silence.  A *)
(* heartbeat between that and heartbeats_timed_out() does not help any     *)
(* more: the system is disconnected until its next one.                    *)
(***************************************************************************)
LostAfterSilence ==
  [][\A s \in Systems : s \in armed /\ s \notin armed' => silence[s] = Timeout]_vars

(***************************************************************************)
(* A plugin that is made and not yet destroyed is enabled when its system  *)
(* is connected and disabled when it is not, except where the next change  *)
(* of the connection came before the last one had reached the plugins:     *)
(* enable() and disable() are called after _connection_mutex is released.  *)
(***************************************************************************)
PluginsFollow ==
  \A p \in Plugins :
    /\ stage[p] = "ready" /\ p \notin overtaken
    /\ ~Connecting(Home[p]) /\ ~Disconnecting(Home[p])
    => (p \in enabled <=> Home[p] \in connected)

(***************************************************************************)
(* When the callbacks of subscribe_is_connected() have all run and none is *)
(* on its way to the queue, the last one told the state that holds, unless *)
(* the queue dropped one: the mutex is kept from the change of the state   *)
(* until the callback is in the queue, so two changes of one system cannot *)
(* be told in the wrong order.                                             *)
(***************************************************************************)
UserKnows ==
  callbacks = <<>> =>
    \A s \in Systems \ dropped :
      seen[s] # "nothing" /\ ~Locked(s) =>
        seen[s] = IF s \in connected THEN "up" ELSE "down"

(***************************************************************************)
(* system_impl.cpp:441 "Remove first, so it won't get enabled/disabled     *)
(* anymore": a plugin that was deinitialised is not enabled.               *)
(***************************************************************************)
NotEnabledAfterDeinit ==
  \A p \in Plugins : stage[p] \in {"deinited", "gone"} => p \notin enabled

(***************************************************************************)
(* A system whose heartbeats stop is noticed to be lost.                   *)
(***************************************************************************)
LossNoticed == \A s \in Systems : s \in connected ~> s \notin connected
=============================================================================
