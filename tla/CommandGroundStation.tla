------------------------ MODULE CommandGroundStation ------------------------
(***************************************************************************)
(* The ground station's side of a command: SendWorkItem of                 *)
(* mavlink_command_transfer_ground_station.cpp with the calls of           *)
(* command_impl.cpp that create and cancel it.                             *)
(***************************************************************************)
EXTENDS WorkItem, CommandLink

CONSTANT MaxCancels   \* bound: calls of cancel_send_command()

ASSUME CancelsAssumption == MaxCancels \in Nat

VARIABLES
  item,     \* the SendWorkItem
  calls,    \* how many calls were accepted
  cancels,  \* how often cancel_send_command() was called
  settled   \* every call before this one was a success and sent once (history)

stationVars == <<item, calls, cancels, settled>>

NoAck == [type |-> "None"]

SendItems ==
  [queued : BOOLEAN, held : BOOLEAN, started : BOOLEAN, done : BOOLEAN, callback : BOOLEAN,
   retries : Nat, armed : BOOLEAN, orphans : Nat, firing : BOOLEAN, reports : Nat,
   result : Results \cup {NoResult},
   command : Commands,
   ack : Acks \cup {NoAck},      \* _ack
   answer : Acks \cup {NoAck},   \* the _ack the last report came with (history)
   sent : Nat,                   \* COMMAND_LONGs sent (history)
   early : BOOLEAN,              \* process_timeout() came before start() (history)
   told : BOOLEAN]               \* _callback was told InProgress (history)

NoItem ==
  [queued |-> FALSE, held |-> FALSE, started |-> FALSE, done |-> TRUE, callback |-> FALSE,
   retries |-> 0, armed |-> FALSE, orphans |-> 0, firing |-> FALSE, reports |-> 1,
   result |-> NoResult, command |-> CHOOSE c \in Commands : TRUE,
   ack |-> NoAck, answer |-> NoAck, sent |-> 0, early |-> FALSE, told |-> FALSE]

\* The constructor; timers lost at this address stay (see WorkItem).
NewItem(c) ==
  [NoItem EXCEPT !.queued = TRUE, !.done = FALSE, !.callback = TRUE, !.reports = 0,
                 !.command = c, !.orphans = LostTimers(item), !.firing = item.firing]

StationOK ==
  /\ item \in SendItems
  /\ calls \in 0 .. MaxCalls
  /\ cancels \in 0 .. MaxCancels
  /\ settled \in BOOLEAN

StationInit == item = NoItem /\ calls = 0 /\ cancels = 0 /\ settled = TRUE
-----------------------------------------------------------------------------
\* callback_and_reset(): the user gets the result with the last ack.
Report(s, result) ==
  [CallbackAndReset(s, result) EXCEPT !.answer = IF s.callback THEN s.ack ELSE @]

\* send_command(): send and count a try, or give up.
SendCommand(s) ==
  \E sent \in SendOutcomes :
    IF sent
    THEN /\ item' = [s EXCEPT !.retries = @ + 1, !.sent = @ + 1]
         /\ net' = With(net, Order(s.command, calls))
    ELSE item' = Report(RemoveTimeout(s), "ConnectionError") /\ UNCHANGED net

Uncounted == UNCHANGED <<duplicates, calls, cancels, settled>>
-----------------------------------------------------------------------------
(***************************************************************************)
(* The user's threads.  Both calls hold _command_data.mutex to the end, so *)
(* none is accepted while a cancel has the item.                           *)
(***************************************************************************)
\* Bug variant: no Busy check.
SendCommandWithoutBusy(c) ==
  /\ calls < MaxCalls
  /\ calls' = calls + 1
  /\ item' = NewItem(c)
  /\ settled' = (settled /\ (calls > 0 => item.result = "Success" /\ item.sent = 1))
  /\ UNCHANGED <<linkVars, cancels>>

\* send_command_async(); with an earlier item alive it only reports Busy.
SendCommandAsync(c) ==
  /\ calls < MaxCalls
  /\ ~Alive(item)
  /\ calls' = calls + 1
  /\ item' = NewItem(c)
  /\ settled' = (settled /\ (calls > 0 => item.result = "Success" /\ item.sent = 1))
  /\ UNCHANGED <<linkVars, cancels>>

\* cancel_send_command() locks the weak_ptr ...
Hold ==
  /\ cancels < MaxCancels
  /\ CanHold(item)
  /\ item' = Held(item)
  /\ cancels' = cancels + 1
  /\ UNCHANGED <<linkVars, calls, settled>>

\* ... and cancel() waits for the item's mutex.  No packet is sent.
Cancel ==
  /\ item.held
  /\ item' = LetGo(Report(RemoveTimeout(item), "Cancelled"))
  /\ Uncounted /\ UNCHANGED net
-----------------------------------------------------------------------------
(***************************************************************************)
(* The system thread.                                                      *)
(***************************************************************************)
\* Bug variant: no timer runs for the first try.
StartUntimed ==
  /\ CanStart(item)
  /\ SendCommand([item EXCEPT !.started = TRUE, !.retries = 0])
  /\ Uncounted

\* start(): an item that was cancelled or answered before is sent as well.
Start ==
  /\ CanStart(item)
  /\ SendCommand(AddTimeout([item EXCEPT !.started = TRUE, !.retries = 0]))
  /\ Uncounted

Pop ==
  /\ CanPop(item)
  /\ item' = Popped(item)
  /\ Uncounted /\ UNCHANGED net
-----------------------------------------------------------------------------
(***************************************************************************)
(* The receive thread.  The handler is registered by the constructor, so   *)
(* it also runs for an item that has not started or is done.               *)
(***************************************************************************)
\* Bug variant: IN_PROGRESS resets the callback.
ProcessAckAndReset(ack) ==
  /\ Alive(item)
  /\ UnderWay(ack)
  /\ net' = Without(ack)
  /\ LET s == [RemoveTimeout(item) EXCEPT !.ack = ack] IN
     IF ack.command # item.command
     THEN UNCHANGED item
     ELSE item' = IF ack.result = "InProgress"
                  THEN Report(AddTimeout(s), "InProgress")
                  ELSE Report(s, "Success")
  /\ Uncounted

\* Bug variant: IN_PROGRESS stops the timer for good.
ProcessAckUntimed(ack) ==
  /\ Alive(item)
  /\ UnderWay(ack)
  /\ net' = Without(ack)
  /\ LET s == [RemoveTimeout(item) EXCEPT !.ack = ack] IN
     IF ack.command # item.command
     THEN UNCHANGED item
     ELSE item' = IF ack.result = "InProgress"
                  THEN [s EXCEPT !.told = @ \/ s.callback]
                  ELSE Report(s, "Success")
  /\ Uncounted

\* process_command_ack(): IN_PROGRESS adds a timer even to an item that has
\* not started or is done; the ack of another command is ignored.
ProcessAck(ack) ==
  /\ Alive(item)
  /\ UnderWay(ack)
  /\ net' = Without(ack)
  /\ LET s == [RemoveTimeout(item) EXCEPT !.ack = ack] IN
     IF ack.command # item.command
     THEN UNCHANGED item
     ELSE item' = IF ack.result = "InProgress"
                  THEN [AddTimeout(s) EXCEPT !.told = @ \/ s.callback]
                  ELSE Report(s, "Success")
  /\ Uncounted

\* An IN_PROGRESS ack gives the item a new timer.
Restarted ==
  \E ack \in Acks : ack.result = "InProgress" /\ ack.command = item.command /\ ProcessAck(ack)
-----------------------------------------------------------------------------
(***************************************************************************)
(* The work thread.                                                        *)
(***************************************************************************)
Expire ==
  /\ item' \in Expired(item)
  /\ Uncounted /\ UNCHANGED net

\* Bug variant: off by one in the test for the last try.
TimeoutOffByOne ==
  /\ item.firing
  /\ LET s == [item EXCEPT !.firing = FALSE, !.early = @ \/ ~item.started] IN
     IF s.retries + 1 >= Retries
     THEN item' = Report(s, "Timeout") /\ UNCHANGED net
     ELSE SendCommand(AddTimeout(s))
  /\ Uncounted

\* process_timeout(): done is not looked at.
Timeout ==
  /\ item.firing
  /\ LET s == [item EXCEPT !.firing = FALSE, !.early = @ \/ ~item.started] IN
     IF s.retries >= Retries
     THEN item' = Report(s, "Timeout") /\ UNCHANGED net
     ELSE SendCommand(AddTimeout(s))
  /\ Uncounted
-----------------------------------------------------------------------------
StationNext ==
  \/ \E c \in Commands : SendCommandAsync(c)
  \/ Hold \/ Cancel
  \/ Start \/ Pop
  \/ \E ack \in Acks : ProcessAck(ack)
  \/ Expire \/ Timeout

\* The library's threads loop for ever and a user inside cancel gets on.  A
\* timer expires unless it is replaced by a new one again and again.
StationFairness ==
  /\ WF_stationVars(Start) /\ WF_stationVars(Pop)
  /\ WF_stationVars(Timeout) /\ WF_stationVars(Cancel)
  /\ WF_stationVars(Expire) \/ []<><<Restarted>>_<<linkVars, stationVars>>
=============================================================================
