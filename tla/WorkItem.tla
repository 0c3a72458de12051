------------------------------ MODULE WorkItem ------------------------------
(***************************************************************************)
(* What every transfer of src/src/core has in common: a WorkItem sits in   *)
(* the work queue of its transfer, is started and finally popped by        *)
(* do_work() on the system thread, owns one timer of the TimeoutHandler    *)
(* through a cookie, and reports to its callback through                   *)
(* callback_and_reset().  The operators below act on the record of one     *)
(* item; the handlers of an item all run under the item's mutex, so a      *)
(* handler is one step, and an operator is a piece of such a step.         *)
(*                                                                         *)
(* The fields every item record has:                                       *)
(*   queued    the work queue holds a shared_ptr to the item               *)
(*   held      a user thread inside cancel_...() holds another             *)
(*   started   _started                                                    *)
(*   done      _done                                                       *)
(*   callback  _callback is not null                                       *)
(*   retries   _retries_done                                               *)
(*   armed     the TimeoutHandler has the entry _cookie points to          *)
(*   orphans   entries whose cookie was overwritten: nobody can remove them*)
(*   firing    run_once() has erased an entry and is about to call, or is  *)
(*             blocked in, process_timeout()                               *)
(*   reports   how often _callback was called for this item (history)      *)
(*   result    what it was called with last (history)                      *)
(***************************************************************************)
EXTENDS Naturals

CONSTANT Retries   \* `retries` of the transfer classes, 4 in the code

ASSUME RetriesAssumption == Retries \in Nat \ {0}

NoResult == "None"
Results == {"Success", "ConnectionError", "Timeout", "Cancelled",
            "InvalidSequence", "ProtocolError"}

(***************************************************************************)
(* The timer of an item.  TimeoutHandler::add writes the new entry's       *)
(* address over _cookie without looking at the old one.  refresh() moves   *)
(* the expiry of an entry; the model lets an armed entry expire at any     *)
(* moment, so refresh changes nothing here.                                *)
(***************************************************************************)
AddTimeout(s) ==
  [s EXCEPT !.armed = TRUE,
            !.orphans = IF s.armed THEN @ + 1 ELSE @]

RemoveTimeout(s) == [s EXCEPT !.armed = FALSE]

(***************************************************************************)
(* run_once() on the work thread erases an expired entry, unlocks and then *)
(* calls its callback: from here on remove() finds nothing, but the        *)
(* callback still comes.  There is one work thread, so one at a time.      *)
(***************************************************************************)
Expired(s) ==
  IF s.firing THEN {}
  ELSE (IF s.armed THEN {[s EXCEPT !.armed = FALSE, !.firing = TRUE]} ELSE {})
       \cup
       (IF s.orphans > 0 THEN {[s EXCEPT !.orphans = @ - 1, !.firing = TRUE]} ELSE {})

\* Timers that the destructor of the item at this address cannot remove.
LostTimers(s) == s.orphans + IF s.armed THEN 1 ELSE 0

TimerPending(s) == s.armed \/ s.orphans > 0 \/ s.firing

(***************************************************************************)
(* callback_and_reset(): the callback runs at most once, then is nulled.   *)
(***************************************************************************)
\* Bug variant: the callback is not nulled after it was called.
CallbackNotReset(s, r) ==
  [s EXCEPT !.reports = IF s.callback THEN @ + 1 ELSE @,
            !.result = IF s.callback THEN r ELSE @,
            !.done = TRUE]

CallbackAndReset(s, r) ==
  [s EXCEPT !.reports = IF s.callback THEN @ + 1 ELSE @,
            !.result = IF s.callback THEN r ELSE @,
            !.callback = FALSE,
            !.done = TRUE]

(***************************************************************************)
(* The object lives while somebody holds a shared_ptr to it; the plugins'  *)
(* Busy checks are weak_ptr::lock() on it.  When the last one goes, the    *)
(* destructor unregisters the handlers and removes the timer the cookie    *)
(* names.  It does not wait for a callback that run_once() has taken out   *)
(* already: that one runs on the freed object.  In the builds at hand the  *)
(* freed memory either still has the old contents or belongs to the next   *)
(* item of the same type, so the pending call acts on whatever the record  *)
(* holds when it runs.                                                     *)
(***************************************************************************)
Alive(s) == s.queued \/ s.held

\* s is the record with one of the two references just given up.
Released(s) == IF Alive(s) THEN s ELSE RemoveTimeout(s)

(***************************************************************************)
(* do_work(): start the front item unless it has started; pop it when it   *)
(* is done.                                                                *)
(***************************************************************************)
CanStart(s) == s.queued /\ ~s.started
CanPop(s) == s.queued /\ s.started /\ s.done
Popped(s) == Released([s EXCEPT !.queued = FALSE])

\* cancel_...(): lock() the weak_ptr first, cancel() the item later.
CanHold(s) == s.queued /\ ~s.held
Held(s) == [s EXCEPT !.held = TRUE]
LetGo(s) == Released([s EXCEPT !.held = FALSE])

(***************************************************************************)
(* The named parts of the safety argument, for one item.                   *)
(***************************************************************************)
ReportsWhenDone(s) ==
  /\ s.callback <=> ~s.done
  /\ s.reports = IF s.done THEN 1 ELSE 0

QueuedUntilDone(s) == ~s.queued => s.done

NeverWedged(s) == s.started /\ ~s.done => TimerPending(s)

RetriesBounded(s) == s.retries <= Retries
=============================================================================
