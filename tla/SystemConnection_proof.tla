----------------------- MODULE SystemConnection_proof -----------------------
(***************************************************************************)
(* Proofs about SystemConnection: types, the watch over connected systems, *)
(* the plugins that follow the connection and the user who is told of it.  *)
(***************************************************************************)
EXTENDS SystemConnection, TLAPS

\* The timer is never older than the silence it measures.
TimersAreYoung == \A s \in armed : age[s] <= silence[s]

(***************************************************************************)
(* PluginsFollow is not inductive: it says nothing while enable() or       *)
(* disable() is still to come.  For a plugin that no change has overtaken, *)
(* what is still to come agrees with the connection, and a plugin that is  *)
(* not made yet is not enabled.                                            *)
(***************************************************************************)
InStep(p) ==
  /\ stage[p] = "none" => p \notin enabled
  /\ p \notin overtaken =>
       /\ Connecting(Home[p]) => Home[p] \in connected
       /\ Disconnecting(Home[p]) => Home[p] \notin connected
       /\ stage[p] = "enabling" => Home[p] \in connected
       /\ ~Connecting(Home[p]) /\ ~Disconnecting(Home[p]) =>
            /\ stage[p] = "new" /\ p \in enabled => Home[p] \in connected
            /\ stage[p] = "ready" => (p \in enabled <=> Home[p] \in connected)

(***************************************************************************)
(* UserKnows says nothing while callbacks are in the queue.  For a system  *)
(* none of whose callbacks was dropped, one that tells the state that      *)
(* holds is on its way to the queue or is the last one in it, or none is   *)
(* there and the user was told it; before the user subscribes, none is     *)
(* there and nothing was told.  What is on its way is up to date, since    *)
(* its thread holds the mutex.                                             *)
(***************************************************************************)
State(s) == IF s \in connected THEN "up" ELSE "down"

NoneQueued(s) == \A k \in 1 .. Len(callbacks) : callbacks[k].system # s

LastQueued(s) ==
  \E k \in 1 .. Len(callbacks) :
    /\ callbacks[k].system = s /\ callbacks[k].state = State(s)
    /\ \A j \in 1 .. Len(callbacks) : j > k => callbacks[j].system # s

Told(s) ==
  /\ s \notin listening => NoneQueued(s) /\ seen[s] = "nothing" /\ ~Locked(s)
  /\ TellsUp(s) => s \in connected
  /\ TellsDown(s) => s \notin connected
  /\ s \notin dropped =>
       \/ Locked(s)
       \/ LastQueued(s)
       \/ NoneQueued(s) /\ (seen[s] # "nothing" => seen[s] = State(s))

IInv ==
  /\ TypeOK /\ Watched /\ TimersAreYoung
  /\ \A p \in Plugins : InStep(p)
  /\ \A s \in Systems : Told(s)
-----------------------------------------------------------------------------
LEMMA TypeInit == ASSUME Init PROVE TypeOK
  BY ConnectionAssumption DEF Init, TypeOK, Receiving, Work, Idle, NoSystem, Stages

LEMMA EnqueueType ==
  ASSUME TypeOK, NEW s \in Systems, NEW state \in {"up", "down"}, Enqueue(s, state)
  PROVE  callbacks' \in Seq([system : Systems, state : {"up", "down"}])
  BY DEF TypeOK, Enqueue

LEMMA CalledType ==
  ASSUME TypeOK, NEW s \in Systems
  PROVE  /\ Called(s, "enabling") \in Receiving
         /\ Called(s, "disabling") \in Work
         /\ DropIfFull(s) => dropped' \subseteq Systems
  BY DEF TypeOK, Called, DropIfFull, Receiving, Work

\* A thread that is not idle is about a system.
LEMMA ReceivingSystem ==
  ASSUME TypeOK, receiving # Idle
  PROVE  /\ receiving.system \in Systems /\ receiving.at \in {"telling", "enabling"}
         /\ receiving = [at |-> receiving.at, system |-> receiving.system]
  BY DEF TypeOK, Receiving

LEMMA WorkingSystem ==
  ASSUME TypeOK, working # Idle
  PROVE  /\ working.system \in Systems /\ working.at \in {"firing", "telling", "disabling"}
         /\ working = [at |-> working.at, system |-> working.system]
  BY DEF TypeOK, Work

LEMMA TellConnectedStep ==
  ASSUME TypeOK, TellConnected
  PROVE  /\ receiving.system \in Systems /\ TellsUp(receiving.system)
         /\ receiving' = [at |-> "enabling", system |-> receiving.system]
<1>1. receiving # Idle /\ receiving.at = "telling"
  BY DEF TellConnected, Idle
<1>2. receiving' = [receiving EXCEPT !.at = "enabling"]
  BY DEF TellConnected
<1> QED BY <1>1, <1>2, ReceivingSystem DEF TellsUp

LEMMA TellDisconnectedStep ==
  ASSUME TypeOK, TellDisconnected
  PROVE  /\ working.system \in Systems /\ TellsDown(working.system)
         /\ working' = [at |-> "disabling", system |-> working.system]
<1>1. working # Idle /\ working.at = "telling"
  BY DEF TellDisconnected, Idle
<1>2. working' = [working EXCEPT !.at = "disabling"]
  BY DEF TellDisconnected
<1> QED BY <1>1, <1>2, WorkingSystem DEF TellsDown

LEMMA TimedOutWork ==
  ASSUME TypeOK, TimedOut
  PROVE  /\ working.system \in Systems
         /\ working = [at |-> "firing", system |-> working.system]
         /\ working' = Called(working.system, "disabling")
<1>1. working # Idle /\ working.at = "firing"
  BY DEF TimedOut, Idle
<1>2. working' = Called(working.system, "disabling")
  BY DEF TimedOut
<1> QED BY <1>1, <1>2, WorkingSystem

LEMMA TypeStep == ASSUME TypeOK, [Next]_vars PROVE TypeOK'
<1> USE ConnectionAssumption
<1>1. ASSUME NEW s \in Systems, OtherMessage(s) PROVE TypeOK'
  BY <1>1 DEF TypeOK, OtherMessage, callbackVars, pluginVars
<1>2. ASSUME NEW s \in Systems, HeartbeatRefreshes(s) PROVE TypeOK'
  BY <1>2 DEF TypeOK, HeartbeatRefreshes, Heard, callbackVars, pluginVars
<1>3. ASSUME NEW s \in Systems, HeartbeatConnects(s) PROVE TypeOK'
  <2>1. receiving' \in Receiving /\ dropped' \subseteq Systems
    BY <1>3, CalledType DEF HeartbeatConnects
  <2>2. overtaken' \subseteq Plugins
    BY <1>3 DEF TypeOK, HeartbeatConnects, Overtake
  <2> QED BY <1>3, <2>1, <2>2 DEF TypeOK, HeartbeatConnects, Heard, pluginVars
<1>4. ASSUME EnablePlugins PROVE TypeOK'
  BY <1>4 DEF TypeOK, EnablePlugins, Receiving, Registered, callbackVars
<1>5. ASSUME Tick PROVE TypeOK'
  <2>1. ASSUME NEW n \in 0 .. Timeout, n < Timeout PROVE n + 1 \in 0 .. Timeout
    BY <2>1, ConnectionAssumption
  <2>2. Timeout \in 0 .. Timeout
    BY ConnectionAssumption
  <2>3. age' \in [Systems -> 0 .. Timeout]
    <3>1. age' = [s \in Systems |->
                   IF s \in armed /\ age[s] < Timeout THEN age[s] + 1 ELSE age[s]]
      BY <1>5 DEF Tick
    <3>2. ASSUME NEW s \in Systems
          PROVE  (IF s \in armed /\ age[s] < Timeout THEN age[s] + 1 ELSE age[s])
                   \in 0 .. Timeout
      <4>1. age[s] \in 0 .. Timeout
        BY DEF TypeOK
      <4>2. QED
        BY <2>1, <4>1
    <3>3. QED
      BY <3>1, <3>2
  <2>4. silence' \in [Systems -> 0 .. Timeout]
    <3>1. silence' = [s \in Systems |-> IF silence[s] < Timeout THEN silence[s] + 1 ELSE Timeout]
      BY <1>5 DEF Tick
    <3>2. ASSUME NEW s \in Systems
          PROVE  (IF silence[s] < Timeout THEN silence[s] + 1 ELSE Timeout) \in 0 .. Timeout
      <4>1. silence[s] \in 0 .. Timeout
        BY DEF TypeOK
      <4>2. QED
        BY <2>1, <2>2, <4>1
    <3>3. QED
      BY <3>1, <3>2
  <2> QED BY <1>5, <2>3, <2>4 DEF TypeOK, Tick, callbackVars, pluginVars
<1>6. ASSUME NEW s \in Systems, Expire(s) PROVE TypeOK'
  BY <1>6 DEF TypeOK, Expire, Work, callbackVars, pluginVars
<1>7. ASSUME TimedOut PROVE TypeOK'
  <2>1. working.system \in Systems /\ working' = Called(working.system, "disabling")
    BY <1>7, TimedOutWork
  <2>2. working' \in Work /\ dropped' \subseteq Systems
    BY <1>7, <2>1, CalledType DEF TimedOut
  <2>3. overtaken' \subseteq Plugins
    BY <1>7 DEF TypeOK, TimedOut, Overtake
  <2> QED BY <1>7, <2>1, <2>2, <2>3 DEF TypeOK, TimedOut, pluginVars
<1>8. ASSUME DisablePlugins PROVE TypeOK'
  BY <1>8 DEF TypeOK, DisablePlugins, Work, callbackVars
<1>9. ASSUME NEW p \in Plugins, NEW from \in Stages, NEW to \in Stages, Step(p, from, to),
             enabled' \subseteq Plugins
      PROVE  TypeOK'
  BY <1>9 DEF TypeOK, Step, connectionVars, callbackVars
<1>10. ASSUME NEW p \in Plugins,
              Register(p) \/ Look(p) \/ Enable(p) \/ Disable(p) \/ Deinit(p) \/ Remove(p)
       PROVE  TypeOK'
  <2>1. enabled' \subseteq Plugins
    BY <1>10 DEF TypeOK, Register, Look, Enable, Disable, Deinit, Remove
  <2>2. \E from, to \in Stages : Step(p, from, to)
    BY <1>10 DEF Register, Look, Enable, Disable, Deinit, Remove, Stages
  <2> QED BY <1>9, <2>1, <2>2
<1>11. ASSUME NEW s \in Systems, Subscribe(s) PROVE TypeOK'
  BY <1>11 DEF TypeOK, Subscribe, connectionVars, pluginVars
<1>12. ASSUME RunCallback PROVE TypeOK'
  <2>1. /\ Head(callbacks) \in [system : Systems, state : {"up", "down"}]
        /\ Tail(callbacks) \in Seq([system : Systems, state : {"up", "down"}])
    <3> DEFINE E == [system : Systems, state : {"up", "down"}]
    <3> HIDE DEF E
    <3>1. callbacks \in Seq(E) /\ callbacks # <<>>
      BY <1>12 DEF TypeOK, RunCallback, E
    <3>2. Head(callbacks) \in E /\ Tail(callbacks) \in Seq(E)
      BY <3>1
    <3> QED BY <3>1, <3>2 DEF E
  <2>2. seen' \in [Systems -> {"nothing", "up", "down"}]
    BY <1>12, <2>1 DEF TypeOK, RunCallback
  <2> QED BY <1>12, <2>1, <2>2 DEF TypeOK, RunCallback, connectionVars, pluginVars
<1>13. ASSUME TellConnected PROVE TypeOK'
  <2>1. /\ receiving.system \in Systems
        /\ receiving' = [at |-> "enabling", system |-> receiving.system]
    BY <1>13, TellConnectedStep
  <2>2. callbacks' \in Seq([system : Systems, state : {"up", "down"}])
    BY <1>13, <2>1, EnqueueType DEF TellConnected
  <2> QED BY <1>13, <2>1, <2>2 DEF TypeOK, TellConnected, Receiving, pluginVars
<1>14. ASSUME TellDisconnected PROVE TypeOK'
  <2>1. /\ working.system \in Systems
        /\ working' = [at |-> "disabling", system |-> working.system]
    BY <1>14, TellDisconnectedStep
  <2>2. callbacks' \in Seq([system : Systems, state : {"up", "down"}])
    BY <1>14, <2>1, EnqueueType DEF TellDisconnected
  <2> QED BY <1>14, <2>1, <2>2 DEF TypeOK, TellDisconnected, Work, pluginVars
<1>15. ASSUME UNCHANGED vars PROVE TypeOK'
  BY <1>15 DEF TypeOK, vars, connectionVars, callbackVars, pluginVars
<1> QED
  BY <1>1, <1>2, <1>3, <1>4, <1>5, <1>6, <1>7, <1>8, <1>10, <1>11, <1>12, <1>13, <1>14, <1>15
  DEF Next, Receive, WorkThread, Users
-----------------------------------------------------------------------------
(***************************************************************************)
(* The watch over connected systems.                                       *)
(***************************************************************************)
LEMMA WatchedStep ==
  ASSUME TypeOK, Watched, [Next]_vars
  PROVE  Watched'
<1>1. ASSUME NEW s \in Systems, OtherMessage(s) \/ HeartbeatRefreshes(s) \/ Subscribe(s)
      PROVE  Watched'
  BY <1>1 DEF Watched, OtherMessage, HeartbeatRefreshes, Subscribe, connectionVars
<1>2. ASSUME NEW s \in Systems, HeartbeatConnects(s) PROVE Watched'
  BY <1>2 DEF Watched, HeartbeatConnects
<1>3. ASSUME EnablePlugins \/ TellConnected \/ Tick \/ RunCallback PROVE Watched'
  BY <1>3 DEF Watched, EnablePlugins, TellConnected, Tick, RunCallback, connectionVars
<1>4. ASSUME NEW s \in Systems, Expire(s) PROVE Watched'
  BY <1>4 DEF Watched, Expire, Idle
<1>5. ASSUME TimedOut PROVE Watched'
  <2>1. /\ working = [at |-> "firing", system |-> working.system]
        /\ working.system \in Systems
    BY <1>5, TimedOutWork
  <2>2. working.system \notin armed
    BY <2>1 DEF Watched
  <2>3. \A s \in Systems : working' # [at |-> "firing", system |-> s]
    BY <1>5, TimedOutWork DEF Called
  <2> QED BY <1>5, <2>1, <2>2, <2>3 DEF Watched, TimedOut
<1>6. ASSUME DisablePlugins \/ TellDisconnected PROVE Watched'
  <2>1. /\ \A s \in Systems : working # [at |-> "firing", system |-> s]
        /\ UNCHANGED <<connected, armed>>
    BY <1>6 DEF DisablePlugins, TellDisconnected
  <2>2. \A s \in Systems : working' # [at |-> "firing", system |-> s]
    BY <1>6, TellDisconnectedStep DEF DisablePlugins, Idle
  <2> QED BY <2>1, <2>2 DEF Watched
<1>7. ASSUME NEW p \in Plugins,
             Register(p) \/ Look(p) \/ Enable(p) \/ Disable(p) \/ Deinit(p) \/ Remove(p)
      PROVE  Watched'
  BY <1>7 DEF Watched, Register, Look, Enable, Disable, Deinit, Remove, Step, connectionVars
<1>8. ASSUME UNCHANGED vars PROVE Watched'
  BY <1>8 DEF Watched, vars, connectionVars
<1> QED
  BY <1>1, <1>2, <1>3, <1>4, <1>5, <1>6, <1>7, <1>8 DEF Next, Receive, WorkThread, Users
-----------------------------------------------------------------------------
(***************************************************************************)
(* The age of timers.                                                      *)
(***************************************************************************)
LEMMA TimersStep ==
  ASSUME TypeOK, TimersAreYoung, [Next]_vars
  PROVE  TimersAreYoung'
<1> USE ConnectionAssumption
<1>1. ASSUME NEW s \in Systems, OtherMessage(s) \/ Subscribe(s) PROVE TimersAreYoung'
  BY <1>1 DEF TimersAreYoung, OtherMessage, Subscribe, connectionVars
<1>2. ASSUME NEW s \in Systems, HeartbeatRefreshes(s) \/ HeartbeatConnects(s)
      PROVE  TimersAreYoung'
  <2> SUFFICES ASSUME NEW t \in armed' PROVE age'[t] <= silence'[t]
    BY DEF TimersAreYoung
  <2>1. /\ t \in Systems /\ age \in [Systems -> 0 .. Timeout]
        /\ silence \in [Systems -> 0 .. Timeout]
    <3>1. armed' = armed \/ armed' = armed \cup {s}
      BY <1>2 DEF HeartbeatRefreshes, HeartbeatConnects
    <3>2. /\ known \subseteq Systems /\ armed \subseteq known
          /\ age \in [Systems -> 0 .. Timeout] /\ silence \in [Systems -> 0 .. Timeout]
      BY DEF TypeOK
    <3>3. t \in Systems
      BY <3>1, <3>2
    <3> QED BY <3>2, <3>3
  <2>2. CASE t = s
    BY <1>2, <2>1, <2>2 DEF HeartbeatRefreshes, HeartbeatConnects, Heard
  <2>3. CASE t # s
    BY <1>2, <2>1, <2>3 DEF TimersAreYoung, HeartbeatRefreshes, HeartbeatConnects, Heard
  <2> QED BY <2>2, <2>3
<1>3. ASSUME Tick PROVE TimersAreYoung'
  <2> SUFFICES ASSUME NEW t \in armed PROVE age'[t] <= silence'[t]
    BY <1>3 DEF TimersAreYoung, Tick
  <2>1. t \in Systems /\ age[t] \in 0 .. Timeout /\ silence[t] \in 0 .. Timeout
    BY DEF TypeOK
  <2>2. /\ age'[t] = IF age[t] < Timeout THEN age[t] + 1 ELSE age[t]
        /\ silence'[t] = IF silence[t] < Timeout THEN silence[t] + 1 ELSE Timeout
    BY <1>3, <2>1 DEF Tick
  <2> QED BY <2>1, <2>2 DEF TimersAreYoung
<1>4. ASSUME \/ TellConnected \/ EnablePlugins \/ TimedOut \/ TellDisconnected
             \/ DisablePlugins \/ RunCallback
      PROVE  TimersAreYoung'
  BY <1>4 DEF TimersAreYoung, TellConnected, EnablePlugins, TimedOut, TellDisconnected,
              DisablePlugins, RunCallback, connectionVars
<1>5. ASSUME NEW s \in Systems, Expire(s) PROVE TimersAreYoung'
  BY <1>5 DEF TimersAreYoung, Expire
<1>6. ASSUME NEW p \in Plugins,
             Register(p) \/ Look(p) \/ Enable(p) \/ Disable(p) \/ Deinit(p) \/ Remove(p)
      PROVE  TimersAreYoung'
  BY <1>6 DEF TimersAreYoung, Register, Look, Enable, Disable, Deinit, Remove, Step,
              connectionVars
<1>7. ASSUME UNCHANGED vars PROVE TimersAreYoung'
  BY <1>7 DEF TimersAreYoung, vars, connectionVars
<1> QED
  BY <1>1, <1>2, <1>3, <1>4, <1>5, <1>6, <1>7 DEF Next, Receive, WorkThread, Users

LEMMA SilenceStep ==
  ASSUME TypeOK, TimersAreYoung, [Next]_vars, NEW s \in Systems, s \in armed, s \notin armed'
  PROVE  silence[s] = Timeout
<1>1. Expire(s)
  <2>1. CASE \E t \in Systems : Expire(t)
    BY <2>1 DEF Expire
  <2>2. CASE \E t \in Systems : OtherMessage(t) \/ HeartbeatRefreshes(t) \/ HeartbeatConnects(t)
    BY <2>2 DEF OtherMessage, HeartbeatRefreshes, HeartbeatConnects
  <2>3. CASE \/ TellConnected \/ EnablePlugins \/ TimedOut \/ TellDisconnected
              \/ DisablePlugins \/ Tick \/ RunCallback
    BY <2>3 DEF TellConnected, EnablePlugins, TimedOut, TellDisconnected, DisablePlugins, Tick,
                RunCallback, connectionVars
  <2>4. CASE Users
    BY <2>4 DEF Users, Register, Look, Enable, Disable, Deinit, Remove, Step, Subscribe,
                connectionVars
  <2>5. CASE UNCHANGED vars
    BY <2>5 DEF vars, connectionVars
  <2> QED BY <2>1, <2>2, <2>3, <2>4, <2>5 DEF Next, Receive, WorkThread
<1>2. age[s] = Timeout /\ age[s] <= silence[s] /\ silence[s] \in 0 .. Timeout /\ Timeout \in Nat
  BY <1>1, ConnectionAssumption DEF Expire, TimersAreYoung, TypeOK
<1> QED BY <1>2
-----------------------------------------------------------------------------
(***************************************************************************)
(* The plugins.                                                            *)
(***************************************************************************)
LEMMA HomeIsSystem ==
  ASSUME NEW p \in Plugins
  PROVE  Home[p] \in Systems /\ Home[p] # NoSystem
  BY ConnectionAssumption DEF NoSystem

\* A step that leaves p and the connection of its system alone.
LEMMA InStepUntouched ==
  ASSUME NEW p, InStep(p), UNCHANGED <<receiving, working, stage, overtaken>>,
         p \in enabled <=> p \in enabled',
         Home[p] \in connected <=> Home[p] \in connected'
  PROVE  InStep(p)'
  BY DEF InStep, Connecting, Disconnecting

\* A step of set_connected() or set_disconnected() that leaves it where it is.
LEMMA InStepSamePart ==
  ASSUME NEW p, InStep(p), UNCHANGED <<connected, stage, enabled, overtaken>>,
         Connecting(Home[p])' <=> Connecting(Home[p]),
         Disconnecting(Home[p])' <=> Disconnecting(Home[p])
  PROVE  InStep(p)'
  BY DEF InStep

LEMMA InStepStep ==
  ASSUME TypeOK, Watched, NEW p \in Plugins, InStep(p), [Next]_vars
  PROVE  InStep(p)'
<1> DEFINE h == Home[p]
<1>0. /\ h \in Systems /\ h # NoSystem /\ stage \in [Plugins -> Stages]
  BY HomeIsSystem DEF TypeOK
<1>1. ASSUME NEW s \in Systems, OtherMessage(s) \/ HeartbeatRefreshes(s) \/ Subscribe(s)
      PROVE  InStep(p)'
  BY <1>1, InStepUntouched
  DEF OtherMessage, HeartbeatRefreshes, Subscribe, connectionVars, pluginVars
<1>2. ASSUME Tick \/ RunCallback \/ UNCHANGED vars PROVE InStep(p)'
  BY <1>2, InStepUntouched DEF Tick, RunCallback, vars, connectionVars, pluginVars
<1>3. ASSUME NEW s \in Systems, HeartbeatConnects(s) PROVE InStep(p)'
  <2>1. /\ s \notin connected /\ connected' = connected \cup {s}
        /\ UNCHANGED <<working, stage, enabled>>
        /\ overtaken' = {x \in overtaken : Home[x] # s}
                        \cup {x \in Plugins : Home[x] = s /\ (Disconnecting(s) \/ stage[x] = "enabling")}
    BY <1>3 DEF HeartbeatConnects, Heard, Overtake, pluginVars
  <2>2. /\ ~Connecting(h) /\ (Connecting(h)' <=> h = s)
        /\ Disconnecting(h)' <=> Disconnecting(h)
    BY <1>0, <1>3, <2>1 DEF HeartbeatConnects, Heard, Called, Idle, Connecting, Disconnecting
  <2>3. CASE h = s
    BY <1>0, <2>1, <2>2, <2>3 DEF InStep
  <2>4. CASE h # s
    BY <1>0, <2>1, <2>2, <2>4 DEF InStep
  <2> QED BY <2>3, <2>4
<1>4. ASSUME EnablePlugins PROVE InStep(p)'
  <2>1. /\ receiving' = Idle
        /\ enabled' = enabled \cup Registered(receiving.system)
        /\ UNCHANGED <<connected, working, stage, overtaken>>
    BY <1>4 DEF EnablePlugins
  <2>2. /\ ~Connecting(h)' /\ (Connecting(h) <=> h = receiving.system)
        /\ Disconnecting(h)' <=> Disconnecting(h)
    BY <1>0, <2>1 DEF Idle, Connecting, Disconnecting
  <2>3. CASE h = receiving.system
    BY <1>0, <2>1, <2>2, <2>3 DEF InStep, Registered
  <2>4. CASE h # receiving.system
    BY <1>0, <2>1, <2>2, <2>4 DEF InStep, Registered
  <2> QED BY <2>3, <2>4
<1>5. ASSUME NEW s \in Systems, Expire(s) PROVE InStep(p)'
  <2>1. UNCHANGED <<connected, receiving, stage, enabled, overtaken>>
    BY <1>5 DEF Expire, pluginVars
  <2>2. /\ ~Disconnecting(h) /\ ~Disconnecting(h)'
        /\ Connecting(h)' <=> Connecting(h)
    BY <1>0, <1>5, <2>1 DEF Expire, Idle, Connecting, Disconnecting
  <2> QED BY <2>1, <2>2, InStepSamePart
<1>6. ASSUME TimedOut PROVE InStep(p)'
  <2> DEFINE s == working.system
  <2>1. /\ s \in Systems
        /\ working = [at |-> "firing", system |-> s]
        /\ working' = Called(s, "disabling")
    BY <1>6, TimedOutWork
  <2>2. /\ connected' = connected \ {s}
        /\ UNCHANGED <<receiving, stage, enabled>>
        /\ overtaken' = {x \in overtaken : Home[x] # s}
                        \cup {x \in Plugins : Home[x] = s /\ (Connecting(s) \/ stage[x] = "enabling")}
    BY <1>6 DEF TimedOut, Overtake, pluginVars
  <2>3. /\ ~Disconnecting(h) /\ (Disconnecting(h)' <=> h = s)
        /\ Connecting(h)' <=> Connecting(h)
    BY <2>1, <2>2 DEF Called, Connecting, Disconnecting
  <2> HIDE DEF s
  <2>4. CASE h = s
    BY <1>0, <2>2, <2>3, <2>4 DEF InStep
  <2>5. CASE h # s
    BY <1>0, <2>2, <2>3, <2>5 DEF InStep
  <2> QED BY <2>4, <2>5
<1>7. ASSUME DisablePlugins PROVE InStep(p)'
  <2>1. /\ working.at = "disabling" /\ working' = Idle
        /\ enabled' = enabled \ Registered(working.system)
        /\ UNCHANGED <<connected, receiving, stage, overtaken>>
    BY <1>7 DEF DisablePlugins
  <2>3. /\ ~Disconnecting(h)' /\ (Disconnecting(h) <=> h = working.system)
        /\ Connecting(h)' <=> Connecting(h)
    BY <1>0, <2>1 DEF Connecting, Disconnecting, Idle
  <2>4. CASE h = working.system
    BY <1>0, <2>1, <2>3, <2>4 DEF InStep, Registered
  <2>5. CASE h # working.system
    BY <1>0, <2>1, <2>3, <2>5 DEF InStep, Registered
  <2> QED BY <2>4, <2>5
<1>9. ASSUME TellConnected PROVE InStep(p)'
  <2>1. /\ receiving' = [at |-> "enabling", system |-> receiving.system]
        /\ UNCHANGED <<working, connected, stage, enabled, overtaken>>
    BY <1>9, TellConnectedStep DEF TellConnected, pluginVars
  <2> QED BY <2>1, InStepSamePart DEF Connecting, Disconnecting
<1>10. ASSUME TellDisconnected PROVE InStep(p)'
  <2>1. /\ working.at = "telling" /\ working' = [at |-> "disabling", system |-> working.system]
        /\ UNCHANGED <<receiving, connected, stage, enabled, overtaken>>
    BY <1>10, TellDisconnectedStep DEF TellDisconnected, pluginVars
  <2> QED BY <2>1, InStepSamePart DEF Connecting, Disconnecting
<1>8. ASSUME NEW x \in Plugins,
             Register(x) \/ Look(x) \/ Enable(x) \/ Disable(x) \/ Deinit(x) \/ Remove(x)
      PROVE  InStep(p)'
  <2>1. UNCHANGED <<connected, receiving, working, overtaken>>
    BY <1>8 DEF Register, Look, Enable, Disable, Deinit, Remove, Step, connectionVars
  <2>2. CASE x # p
    <3>1. stage'[p] = stage[p] /\ (p \in enabled' <=> p \in enabled)
      BY <1>0, <1>8, <2>2 DEF Register, Look, Enable, Disable, Deinit, Remove, Step
    <3> QED BY <2>1, <3>1 DEF InStep, Connecting, Disconnecting
  <2>3. CASE x = p
    <3>1. CASE Register(p)
      BY <1>0, <2>1, <3>1 DEF InStep, Connecting, Disconnecting, Register, Step
    <3>2. CASE Look(p)
      BY <1>0, <2>1, <3>2 DEF InStep, Connecting, Disconnecting, Look, Step
    <3>3. CASE Enable(p)
      BY <1>0, <2>1, <3>3 DEF InStep, Connecting, Disconnecting, Enable, Step
    <3>4. CASE Disable(p)
      BY <1>0, <2>1, <3>4 DEF InStep, Connecting, Disconnecting, Disable, Step
    <3>5. CASE Deinit(p)
      BY <1>0, <2>1, <3>5 DEF InStep, Connecting, Disconnecting, Deinit, Step
    <3>6. CASE Remove(p)
      BY <1>0, <2>1, <3>6 DEF InStep, Connecting, Disconnecting, Remove, Step
    <3> QED BY <1>8, <2>3, <3>1, <3>2, <3>3, <3>4, <3>5, <3>6
  <2> QED BY <2>2, <2>3
<1> QED
  BY <1>1, <1>2, <1>3, <1>4, <1>5, <1>6, <1>7, <1>8, <1>9, <1>10
  DEF Next, Receive, WorkThread, Users
-----------------------------------------------------------------------------
\* A step that leaves what is told of s, and the state of s, alone.
LEMMA ToldUntouched ==
  ASSUME NEW s, Told(s), UNCHANGED <<callbacks, seen>>,
         s \in dropped => s \in dropped', listening \subseteq listening',
         s \in connected <=> s \in connected',
         TellsUp(s)' <=> TellsUp(s), TellsDown(s)' <=> TellsDown(s)
  PROVE  Told(s)'
  BY DEF Told, LastQueued, NoneQueued, State, Locked

(***************************************************************************)
(* A change of the state of t, made by the one thread that holds its mutex:*)
(* the callback is on its way, or dropped, or nobody listens.              *)
(***************************************************************************)
LEMMA CalledStep ==
  ASSUME NEW t \in Systems, NEW s \in Systems, Told(s), DropIfFull(t),
         UNCHANGED <<listening, callbacks, seen>>,
         s # t => /\ s \in connected <=> s \in connected'
                  /\ TellsUp(s)' <=> TellsUp(s)
                  /\ TellsDown(s)' <=> TellsDown(s),
         Locked(t)' <=> t \in listening /\ ~Full,
         TellsUp(t)' => t \in connected', TellsDown(t)' => t \notin connected'
  PROVE  Told(s)'
<1>1. s \in dropped => s \in dropped'
  BY DEF DropIfFull
<1>2. CASE s # t
  BY <1>1, <1>2, ToldUntouched
<1>3. CASE s = t /\ t \notin listening
  BY <1>1, <1>3 DEF Told, NoneQueued
<1>4. CASE s = t /\ t \in listening /\ Full
  BY <1>4 DEF Told, DropIfFull
<1>5. CASE s = t /\ t \in listening /\ ~Full
  BY <1>5 DEF Told
<1> QED BY <1>2, <1>3, <1>4, <1>5

\* What call_user_callback() adds to the queue is the state that holds now.
LEMMA EnqueueStep ==
  ASSUME TypeOK, NEW t \in Systems, NEW state \in {"up", "down"}, Enqueue(t, state),
         UNCHANGED <<connected, listening, seen, dropped>>,
         t \in listening, t \in connected <=> state = "up", ~Locked(t)',
         NEW s \in Systems, Told(s),
         s # t => (TellsUp(s)' <=> TellsUp(s)) /\ (TellsDown(s)' <=> TellsDown(s))
  PROVE  Told(s)'
<1> DEFINE e == [system |-> t, state |-> state]
<1>1. /\ Len(callbacks) \in Nat /\ Len(callbacks') = Len(callbacks) + 1
      /\ \A k \in 1 .. Len(callbacks) : callbacks'[k] = callbacks[k]
      /\ callbacks'[Len(callbacks) + 1] = e
  <2>1. callbacks' = Append(callbacks, e)
    BY DEF Enqueue
  <2>2. callbacks \in Seq([system : Systems, state : {"up", "down"}])
    BY DEF TypeOK
  <2> QED BY <2>1, <2>2
<1>2. CASE s = t
  <2>1. callbacks'[Len(callbacks) + 1].system = s
    BY <1>1, <1>2
  <2>2. callbacks'[Len(callbacks) + 1].state = State(s)'
    BY <1>1, <1>2 DEF State
  <2>3. \A j \in 1 .. Len(callbacks') : ~(j > Len(callbacks) + 1)
    BY <1>1
  <2>4. LastQueued(s)'
    BY <1>1, <2>1, <2>2, <2>3 DEF LastQueued
  <2> QED BY <1>2, <2>4 DEF Told, Locked
<1>3. CASE s # t
  <2>1. callbacks'[Len(callbacks) + 1].system # s
    BY <1>1, <1>3
  <2>2. State(s)' = State(s)
    BY DEF State
  <2>3. NoneQueued(s) => NoneQueued(s)'
    BY <1>1, <2>1 DEF NoneQueued
  <2>4. LastQueued(s) => LastQueued(s)'
    BY <1>1, <2>1, <2>2 DEF LastQueued
  <2> QED BY <1>3, <2>2, <2>3, <2>4 DEF Told, Locked
<1> QED BY <1>2, <1>3

\* The callback thread tells the user what was first in the queue.
LEMMA RunCallbackStep ==
  ASSUME TypeOK, RunCallback, NEW s \in Systems, Told(s)
  PROVE  Told(s)'
<1> DEFINE h == Head(callbacks)
<1>1. /\ callbacks \in Seq([system : Systems, state : {"up", "down"}]) /\ callbacks # <<>>
      /\ callbacks' = Tail(callbacks) /\ seen' = [seen EXCEPT ![h.system] = h.state]
      /\ seen \in [Systems -> {"nothing", "up", "down"}]
      /\ UNCHANGED <<connected, listening, dropped, receiving, working>>
  BY DEF TypeOK, RunCallback, connectionVars
<1>2. /\ Len(callbacks) \in Nat /\ Len(callbacks) > 0 /\ Len(callbacks') = Len(callbacks) - 1
      /\ \A k \in 1 .. Len(callbacks') : callbacks'[k] = callbacks[k + 1]
      /\ h = callbacks[1]
  BY <1>1
<1>3. h.system = s => seen'[s] = h.state
  BY <1>1
<1>4. h.system # s => seen'[s] = seen[s]
  BY <1>1
<1>5. State(s)' = State(s)
  BY <1>1 DEF State
<1> HIDE DEF h
<1>6. NoneQueued(s) => NoneQueued(s)' /\ seen'[s] = seen[s]
  BY <1>2, <1>4 DEF NoneQueued
<1>7. LastQueued(s) => \/ LastQueued(s)'
                       \/ NoneQueued(s)' /\ seen'[s] = State(s)
  <2> SUFFICES ASSUME NEW k \in 1 .. Len(callbacks),
                      callbacks[k].system = s, callbacks[k].state = State(s),
                      \A j \in 1 .. Len(callbacks) : j > k => callbacks[j].system # s
               PROVE  LastQueued(s)' \/ (NoneQueued(s)' /\ seen'[s] = State(s))
    BY DEF LastQueued
  <2>1. CASE k = 1
    <3>1. NoneQueued(s)'
      BY <1>2, <2>1 DEF NoneQueued
    <3>2. seen'[s] = State(s)
      BY <1>2, <1>3, <2>1
    <3> QED BY <3>1, <3>2
  <2>2. CASE k # 1
    <3>1. /\ k - 1 \in 1 .. Len(callbacks')
          /\ callbacks'[k - 1].system = s /\ callbacks'[k - 1].state = State(s)
      BY <1>2, <2>2
    <3>2. \A j \in 1 .. Len(callbacks') : j > k - 1 => callbacks'[j].system # s
      BY <1>2, <2>2
    <3> QED BY <1>5, <3>1, <3>2 DEF LastQueued
  <2> QED BY <2>1, <2>2
<1> QED BY <1>1, <1>5, <1>6, <1>7 DEF Told, Locked, TellsUp, TellsDown

LEMMA ToldStep ==
  ASSUME TypeOK, \A t \in Systems : Told(t), [Next]_vars, NEW s \in Systems
  PROVE  Told(s)'
<1>1. ASSUME NEW t \in Systems, OtherMessage(t) \/ HeartbeatRefreshes(t)
      PROVE  Told(s)'
  BY <1>1, ToldUntouched
  DEF OtherMessage, HeartbeatRefreshes, callbackVars, TellsUp, TellsDown
<1>2. ASSUME NEW t \in Systems, HeartbeatConnects(t) PROVE Told(s)'
  <2>1. /\ receiving = Idle /\ receiving' = Called(t, "enabling") /\ ~Locked(t)
        /\ connected' = connected \cup {t} /\ DropIfFull(t)
        /\ UNCHANGED <<working, listening, callbacks, seen>>
    BY <1>2 DEF HeartbeatConnects, Heard
  <2>2. /\ Locked(t)' <=> t \in listening /\ ~Full
        /\ ~TellsDown(t)'
    BY <2>1 DEF Called, Locked, TellsUp, TellsDown
  <2>3. s # t => (TellsUp(s)' <=> TellsUp(s)) /\ (TellsDown(s)' <=> TellsDown(s))
    BY <2>1 DEF Called, Idle, TellsUp, TellsDown
  <2> QED BY <2>1, <2>2, <2>3, CalledStep
<1>3. CASE EnablePlugins \/ Tick \/ DisablePlugins
  <2>1. /\ TellsUp(s)' <=> TellsUp(s)
        /\ TellsDown(s)' <=> TellsDown(s)
    BY <1>3 DEF EnablePlugins, Tick, DisablePlugins, Idle, TellsUp, TellsDown
  <2> QED BY <1>3, <2>1, ToldUntouched DEF EnablePlugins, Tick, DisablePlugins, callbackVars
<1>4. ASSUME NEW t \in Systems, Expire(t) PROVE Told(s)'
  <2>1. /\ TellsUp(s)' <=> TellsUp(s)
        /\ TellsDown(s)' <=> TellsDown(s)
    BY <1>4 DEF Expire, Idle, TellsUp, TellsDown
  <2> QED BY <1>4, <2>1, ToldUntouched DEF Expire, callbackVars
<1>5. CASE TimedOut
  <2> DEFINE t == working.system
  <2>1. /\ t \in Systems /\ working = [at |-> "firing", system |-> t]
        /\ working' = Called(t, "disabling")
    BY <1>5, TimedOutWork
  <2>2. /\ ~Locked(t) /\ connected' = connected \ {t} /\ DropIfFull(t)
        /\ UNCHANGED <<receiving, listening, callbacks, seen>>
    BY <1>5 DEF TimedOut
  <2> HIDE DEF t
  <2> QED
    <3> PICK u \in Systems : u = t
      BY <2>1
    <3>1. /\ Locked(u)' <=> u \in listening /\ ~Full
          /\ ~TellsUp(u)'
      BY <2>1, <2>2 DEF Called, Locked, TellsUp, TellsDown
    <3>2. s # u => (TellsUp(s)' <=> TellsUp(s)) /\ (TellsDown(s)' <=> TellsDown(s))
      BY <2>1, <2>2 DEF Called, TellsUp, TellsDown
    <3> QED BY <2>2, <3>1, <3>2, CalledStep
<1>6. ASSUME NEW p \in Plugins, \/ Register(p) \/ Look(p) \/ Enable(p)
                                \/ Disable(p) \/ Deinit(p) \/ Remove(p)
      PROVE  Told(s)'
  <2>1. UNCHANGED <<connectionVars, callbackVars>>
    BY <1>6 DEF Register, Look, Enable, Disable, Deinit, Remove, Step
  <2> QED BY <2>1, ToldUntouched DEF connectionVars, callbackVars, TellsUp, TellsDown
<1>7. ASSUME NEW t \in Systems, Subscribe(t) PROVE Told(s)'
  BY <1>7, ToldUntouched DEF Subscribe, connectionVars, TellsUp, TellsDown
<1>8. CASE RunCallback
  BY <1>8, RunCallbackStep
<1>9. CASE UNCHANGED vars
  BY <1>9, ToldUntouched DEF vars, connectionVars, callbackVars, TellsUp, TellsDown
<1>10. CASE TellConnected
  <2> PICK u \in Systems : u = receiving.system
    BY <1>10, TellConnectedStep
  <2>1. /\ TellsUp(u) /\ receiving' = [at |-> "enabling", system |-> u]
    BY <1>10, TellConnectedStep
  <2>2. /\ Enqueue(u, "up")
        /\ UNCHANGED <<connected, working, listening, seen, dropped>>
    BY <1>10 DEF TellConnected
  <2>3. s # u => (TellsUp(s)' <=> TellsUp(s)) /\ (TellsDown(s)' <=> TellsDown(s))
    BY <2>1, <2>2 DEF TellsUp, TellsDown
  <2>4. Told(u)
    OBVIOUS
  <2>5. u \in listening /\ u \in connected /\ ~Locked(u)'
    BY <2>1, <2>2, <2>4 DEF Told, Locked, TellsUp, TellsDown
  <2> QED BY <2>2, <2>3, <2>5, EnqueueStep
<1>11. CASE TellDisconnected
  <2> PICK u \in Systems : u = working.system
    BY <1>11, TellDisconnectedStep
  <2>1. /\ TellsDown(u) /\ working' = [at |-> "disabling", system |-> u]
    BY <1>11, TellDisconnectedStep
  <2>2. /\ Enqueue(u, "down")
        /\ UNCHANGED <<connected, receiving, listening, seen, dropped>>
    BY <1>11 DEF TellDisconnected
  <2>3. s # u => (TellsUp(s)' <=> TellsUp(s)) /\ (TellsDown(s)' <=> TellsDown(s))
    BY <2>1, <2>2 DEF TellsUp, TellsDown
  <2>4. Told(u)
    OBVIOUS
  <2>5. u \in listening /\ u \notin connected /\ ~Locked(u)'
    BY <2>1, <2>2, <2>4 DEF Told, Locked, TellsUp, TellsDown
  <2> QED BY <2>2, <2>3, <2>5, EnqueueStep
<1> QED
  BY <1>1, <1>2, <1>3, <1>4, <1>5, <1>6, <1>7, <1>8, <1>9, <1>10, <1>11
  DEF Next, Receive, WorkThread, Users
-----------------------------------------------------------------------------
LEMMA Inductive == Spec => []IInv
<1>1. Init => IInv
  <2> SUFFICES ASSUME Init PROVE IInv
    OBVIOUS
  <2>1. TypeOK
    BY TypeInit
  <2>2. Watched /\ TimersAreYoung
    BY DEF Init, Watched, TimersAreYoung, Idle
  <2>3. ASSUME NEW p \in Plugins PROVE InStep(p)
    BY HomeIsSystem DEF Init, InStep, Connecting, Disconnecting, Idle
  <2>4. ASSUME NEW s \in Systems PROVE Told(s)
    BY DEF Init, Told, NoneQueued, Locked, TellsUp, TellsDown, Idle
  <2> QED BY <2>1, <2>2, <2>3, <2>4 DEF IInv
<1>2. IInv /\ [Next]_vars => IInv'
  BY TypeStep, WatchedStep, TimersStep, InStepStep, ToldStep DEF IInv
<1> QED BY <1>1, <1>2, PTL DEF Spec

(***************************************************************************)
(* Every variable keeps its type: a connected system, and one whose timer  *)
(* runs or whose user has subscribed, is one of _systems.                  *)
(***************************************************************************)
THEOREM TypeCorrect == Spec => []TypeOK
<1>1. IInv => TypeOK
  BY DEF IInv
<1> QED BY <1>1, Inductive, PTL

(***************************************************************************)
(* A system is connected if and only if it has exactly one timer, running  *)
(* or about to call heartbeats_timed_out(), for any number of systems.     *)
(***************************************************************************)
THEOREM ConnectedIsWatched == Spec => []Watched
<1>1. IInv => Watched
  BY DEF IInv
<1> QED BY <1>1, Inductive, PTL

(***************************************************************************)
(* Plugins follow the connection unless a change of it overtook the one    *)
(* before, for any number of systems and plugins.                          *)
(***************************************************************************)
THEOREM PluginsFollowConnection == Spec => []PluginsFollow
<1>1. IInv => PluginsFollow
  BY DEF IInv, InStep, PluginsFollow
<1> QED BY <1>1, Inductive, PTL

(***************************************************************************)
(* When the callbacks of subscribe_is_connected() have all run and none is *)
(* on its way to the queue, the last one told the state that holds, for    *)
(* any limit of the queue and however far two threads went past it.        *)
(***************************************************************************)
THEOREM UserIsTold == Spec => []UserKnows
<1>1. IInv => UserKnows
  BY DEF IInv, Told, LastQueued, UserKnows, State, Locked
<1> QED BY <1>1, Inductive, PTL

(***************************************************************************)
(* The timer of a system is taken out only after _HEARTBEAT_TIMEOUT_S      *)
(* without a heartbeat from it.                                            *)
(***************************************************************************)
THEOREM LostOnlyAfterSilence == Spec => LostAfterSilence
<1>1. IInv /\ [Next]_vars =>
        [\A s \in Systems : s \in armed /\ s \notin armed' => silence[s] = Timeout]_vars
  BY SilenceStep DEF IInv
<1> QED BY <1>1, Inductive, PTL DEF Spec, LostAfterSilence
=============================================================================
