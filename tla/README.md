# Verification of piloting_mavsdk

TLA+ models, TLC runs and machine-checked proofs for the protocol core of
piloting_mavsdk, the MAVSDK fork that the PILOTING ground station and its
robotic vehicles talk through. Everything here is written from the C++ sources
(paths below are relative to the repository root, whose library is in `src/`).

## 1. The system

One process links the library and talks to other systems over UDP. Four kinds
of thread meet in it:

| thread | loop | what it runs |
|---|---|---|
| receive thread | `UdpConnection` -> `MavsdkImpl::receive_message` | the MAVLink message handlers, one packet at a time |
| work thread | `MavsdkImpl::work_thread` | `TimeoutHandler::run_once`, `CallEveryHandler::run_once` |
| system thread, one per remote system | `SystemImpl::system_thread` | `do_work()` of each transfer, time synchronisation, ping |
| callback thread | `process_user_callbacks_thread` | the user's callbacks, first in first out |

and the user's own threads call the plugins.

### Components

| component | state | operations | what makes it correct |
|---|---|---|---|
| **List transfers** (alarm, checklist, hl_action): `core/mavlink_*_transfer*.cpp`, `plugins/alarm*`, `plugins/checklist*`, `plugins/hl_action*` | work queue of items; per item `_started`, `_done`, `_step`, next and expected index, retries, collected list, callback, timer cookie | download (station), set/offer list and answer a request (vehicle), cancel, start, COUNT, ITEM, READ, ACK, timeout, pop | each call answered once; the queue never stuck; bounded repeats; a success is a success on both sides; one call at a time |
| **Inspection transfer**: `core/mavlink_inspection_transfer*.cpp`, `plugins/inspection*` | as above, for uploads and downloads in both directions that share one queue per side and one set of messages | upload, download, user's answer, cancel, start, all handlers and timeouts on both sides | as above; what was accepted is what was sent; the directions do not disturb one another |
| **Command transfer**: `core/mavlink_command_transfer*.cpp`, `plugins/command*` | one item: command, last ack, callback, retries, cookie | send (blocking or not), cancel, start, ACK, IN_PROGRESS, timeout; on the vehicle subscribe, receive, acknowledge | one final answer, from an ack of this command; no wedge after IN_PROGRESS; bounded repeats |
| **System**: `core/system_impl.cpp` | `_connected`, the heartbeat timer, the plugin list, components | heartbeat, heartbeat timeout, register and unregister a plugin, subscribe | a connected system is watched; a loss is noticed, and only after silence; plugins and users follow |
| **Mavsdk**: `core/mavsdk_impl.cpp`, `core/safe_queue.h` | systems, the connection, the user callback queue (limit 100), the heartbeat sender | receive and send a message, set up UDP, callbacks | callbacks in order, a queue that keeps about its limit, no callback after destruction |
| **TimeoutHandler, CallEveryHandler**: `core/timeout_handler.cpp`, `core/call_every_handler.cpp` | entries keyed by their own address (the cookie) | add, refresh, remove, run_once | an entry fires once, not after it was removed, except for the callback already taken out |
| **MAVLinkMessageHandler**: `core/mavlink_message_handler.cpp` | table of (message id, callback, cookie) under one mutex | register, unregister, process | no handler of a destroyed owner runs |
| Timesync, Ping | an offset, a sequence number | send, process | small; no protocol state |
| Telemetry plugins | last values, subscriptions | store, queue a callback | no protocol |
| Receiver, channels, UDP, data types, examples | - | socket and byte work | outside the models, which take whole packets |

### How they interact

A plugin call makes a work item and pushes it onto its transfer's queue. The
constructor of the item registers its message handlers, so packets reach it
from then on; the system thread's `do_work()` starts the front item and pops it
when it is done. The item sends through `Sender::send_message`, adds a timer to
the `TimeoutHandler`, and the receive thread (packets) and the work thread
(timeouts) drive it on. It reports through `callback_and_reset()`, which queues
the user's callback. The plugin keeps a `weak_ptr` to the item: its being alive
is the Busy check.

### What is hard here

* Handlers run for items that have **not started** or are **already done**.
* `run_once()` erases a timer, unlocks, then calls: `remove()` in between finds
  nothing and the **callback still comes**, on a finished or even freed item.
* No packet says which call it belongs to, so packets of one transfer **reach
  the next**, or the other direction.
* Packets are lost, duplicated and reordered; timeouts race late answers.
* Cancellation takes hold of an item first and cancels it later.
* A change of connection is published in two parts under two mutexes.
* `process_message()` calls the handlers **with the table's mutex held**; items
  register and remove their timers with their own mutex held.
* A timer's cookie is an **address**: it outlives the entry, and the next entry
  may be allocated there.
* The size of the callback queue is read **before** the callback is enqueued,
  and the progress of an inspection is read again **after** it was compared.

The full list, each at its line, is under `hazards` in `PROJECT.json`.

## 2. Modules

| module | models |
|---|---|
| `Link` | the UDP link: a bag of packets under way, which may be lost (never received), reordered, duplicated |
| `WorkItem` | what all transfers share: the timer of an item, `callback_and_reset`, being alive, popped, held by a cancelling thread; the named parts of the invariants |
| `OneShot` | abstract specification of an asynchronous call: accepted only after the last one was answered, answered once |
| `ListLink`, `ListGroundStation`, `ListRoboticVehicle`, `ListTransfer` | the list download, both sides, and their composition |
| `InspectionLink`, `InspectionWork`, `InspectionGroundStation`, `InspectionRoboticVehicle`, `InspectionTransfer` | the waypoint transfers: the packets (a bag of those under way), the handlers both sides share, each side, the composition |
| `CommandLink`, `CommandGroundStation`, `CommandRoboticVehicle`, `CommandTransfer` | commands, both sides, the composition |
| `SystemConnection` | heartbeats, connection state, plugins, the user's connection callbacks |
| `Locks` | who takes which mutex in which order: each thread is a list of steps it has still to do, a step that locks waits for its mutex |
| `TimeoutHandler` | timeouts of several owners, at addresses that are used again |
| `UserCallbacks` | the queue of user callbacks, its thread and watchdog, the end of the threads in `~MavsdkImpl()` |
| `InspectionProgress` | the progress a station's inspection plugin stores, reports and resets |
| `MavsdkThreads` | the composition of the last three with one system and the items of its transfers: the receive, work, system, callback and user threads |
| `MC...` | instances for TLC |
| `ListTransfer_proof`, `InspectionTransfer_proof`, `CommandTransfer_proof`, `SystemConnection_proof`, `MavsdkThreads_proof`, `Locks_proof` | theorems |
| `ListExactness_proof`, `InspectionExactness_proof` | theorems: what a transfer delivers |

### How state and actions correspond to the code

*One action per handler.* Every handler of an item runs under the item's mutex
from its first line to its last, so a handler is one step. What the code does
in two steps is two actions: `cancel_...()` (`...Hold`: `weak_ptr::lock()`;
`...Cancel`: `cancel()`), `run_once()` (`...Expire`: the entry is erased;
`...Timeout`: `process_timeout()` gets the mutex), `do_work()` (`...Start`,
`...Pop`), and in `SystemConnection` each call of `register_plugin()` and
`unregister_plugin()` and three parts of `set_connected()` and
`set_disconnected()`: the change of state up to where
`call_user_callback_located()` has read the size of the queue, the enqueue, and
the plugins. The first two are under `_connection_mutex` (`Locked`), but a
thread that does the same for another system may come between them.

*An item* is a record with the fields of the class, plus `armed` (the entry the
cookie names exists), `orphans` (entries whose cookie was overwritten by a
second `add`), `firing` (an entry was taken out and its callback is on its way)
and histories (`reports`, `result`, `sent`, ...). `weak_ptr` expiry is
`~Alive(item)`. The destructor removes the timer the cookie names and nothing
else; a callback on its way then runs on memory that holds the old object or
the next one of the same type. That is undefined behaviour; the models let it
act on whatever the record holds, so a late timeout of one call hits the next.

*Three transfers, one model.* The checklist and hl_action transfers are the
alarm transfer with other names (the sources differ in identifiers only), so
`ListTransfer` stands for the three.

*Time.* In the transfers an armed timer may expire at any moment, which covers
every delay; `refresh()` is then no change. In `SystemConnection` a clock ticks,
because there the refresh is what matters.

*Numbers.* Counts and sequence numbers of waypoints, alarms, checks and actions
are uint16, taken modulo `SeqRange` (65536 in the code; 3 in the runs, 2 in
`list_again`), so that a list as long as the range, whose COUNT says 0, is among
the inputs. `Retries` is 4 in the code. The callback queue drops at exactly
`QueueLimit` entries (100 in the code); two threads that have both read a smaller
size may take it further, in `SystemConnection` as in `MavsdkThreads`.

*Mutexes.* In every module but `Locks` a piece of code under one mutex is one
step. `Locks` justifies that and shows where it ends: there a handler, a
constructor, `start()`, `do_work()`, `run_once()` or a call of the user is a
sequence of steps, each of which locks or unlocks a mutex or does what has to be
done under it, on a ground station or on a vehicle. Its data is what decides
which mutex is next: the table of handlers, the queue, who holds a reference.

*Timers of several owners.* `WorkItem` knows the timers of one item.
`TimeoutHandler` puts every entry at an address; a free address to which a
cookie still points is told from the others, which are all alike. The history
`reused` says that an entry went where the cookie of another owner points.
`MavsdkThreads` reduces an item to made, started, done, with its timer, and a
system to connected or not, with its timer and the two halves of its loss.

*Data.* A waypoint or alarm is a model value; a plan id likewise. All final
results of a command ack are one, `Final`; all refusals of a list likewise.

## 3. Runs

Each bound is a CONSTANT that appears in a guard. `Retries = 2` is the smallest
value with a repeated packet (`start()` counts as the first try); lists of two
items have a first and a last one that differ; two calls are enough for packets
and timers of one to reach the next, and an item knows nothing of the calls
before the last. `MaxDisturbed` bounds the rare events together, so that each is
met with every interleaving of the rest:

* lists: the vehicle's cancellations and duplicated packets; `MaxAgain` bounds
  the downloads and uploads that are not the first, either of which may come,
* inspection: cancellations of both sides, duplicated packets, and the second
  upload or download of the station,
* commands: cancellations, duplicated packets, and one for a vehicle that sends
  IN_PROGRESS. How often it sends it has no bound. `MaxProgress` bounds those
  under way at once and `MaxInbox` the COMMAND_LONGs in the vehicle's queue: the
  others are still in the network, which keeps no order either, so nothing is
  lost but a wait in another place. `MaxOrphans` bounds the timers an item has
  lost (its cookie was overwritten) when an IN_PROGRESS adds another: each round
  of a timeout that races an IN_PROGRESS loses one more, so without a bound there
  are infinitely many states. With 0, as in the run, no IN_PROGRESS is handled
  while such a timer exists; with 1 the run passes too, with 1.4 million states,
  and the theorems are for every value.

`MaxEvents` bounds messages, calls and repeated packets of `MavsdkThreads`
together, and its shortest counterexamples to what does not hold need two.

| run | question | instance |
|---|---|---|
| `list_transfer` | Does each side answer once, never get stuck, keep to its retries, and claim only a success it earned? (`ReportedOnce`, `NothingWedged`, `RetriesRespected`, `SuccessMeansAllSent`, `SuccessWithoutRepeatsIsExact`) | one download; empty, good and misnumbered lists and one announced as empty; failing sends; a cancellation on each side |
| `list_again` | Do both sides implement `OneShot`, refuse a call that comes too early, and does each call end? | two downloads and one upload or one download and two uploads; retransmissions; a duplicated packet or a cancellation by the vehicle |
| `list_is_the_list` | **violated**: is a successful download the vehicle's list? | one download, a timeout that races the answer |
| `inspection_transfer` | As `list_transfer`; is an accepted upload on the vehicle, and a downloaded list the vehicle's, waypoint for waypoint? (`AcceptedMeansDelivered`, `DownloadIsExact`) | one upload or download; empty, good, wrapping, too long lists; failing sends; a retransmission; a cancellation |
| `inspection_both` | Do all four items implement `OneShot` and end, with both directions under way? | two calls: an upload and a download at once with a duplicated packet or a cancellation, or two of a kind; lost packets; `Retries = 1`, the retransmissions are in `inspection_transfer` |
| `command_transfer` | Is a command answered once, never stuck after IN_PROGRESS, sent a bounded number of times, a success an answer to it; does `send_command_async()` implement `OneShot`, and does each call end? | two calls of one command, failing sends, one of a duplicated packet, a cancellation, a vehicle that sends IN_PROGRESS without end |
| `command_promise` | **violated**: does the blocking call's callback run once? | one call, an IN_PROGRESS |
| `connection` | Is a connected system watched, lost after silence only, and noticed to be; do plugins and users follow? | two systems, three heartbeats, one plugin, a queue of two |
| `connection_plugin` | **violated**: is a plugin left alone after `deinit()`? | the same, two heartbeats |
| `locks` | Which threads can deadlock, and can a handler use the mutex of a freed item? (`ReceiverInEveryDeadlock`, `HandlersOfLiveItems`) | station and vehicle, two items, calls and messages of every kind |
| `locks_nonblocking` | **violated**: does `download_alarm_async()` return? | a station, one item |
| `threads` | Do timeouts outlive what others remove, does the queue keep its limit, is the last progress shown, do callbacks run and does the destructor end? | one system, one item, four addresses, two waypoints, a queue of one, three events, the destructor at any point |

### What the violated runs show

* `list_is_the_list`: `process_alarm_item` appends every item whatever its
  index. When a timeout races the answer the same item comes twice, counts for
  two, and the download succeeds with a list that is not the vehicle's, where
  `alarm.h:57` says "Download a list of alarm items from the system".
  `SuccessWithoutRepeatsIsExact` says what does hold.
* `command_promise`: `send_command()` sets a promise on its own stack each time
  its callback runs. With IN_PROGRESS it runs twice: the call returns
  InProgress, not the result of the request, and the second run sets a promise
  that is gone.
* `connection_plugin`: the comment at `system_impl.cpp:441` says "Remove first,
  so it won't get enabled/disabled anymore", the code removes last. A heartbeat
  that connects the system in between enables a deinitialised plugin.
* `locks_nonblocking`: the constructor of a `DownloadWorkItem` registers two
  handlers with its own mutex held. A COUNT between the two is dispatched with
  the table's mutex held to the item, whose mutex is taken: the receive thread
  and the user's thread wait for each other for ever, where `alarm.h:52` says
  "This function is non-blocking".

### What the passing runs show by what they exclude

Some properties hold only with a condition, and the condition is what a user
has to know:

* `RetriesRespected` (commands): a call sends its command up to `2 * retries`
  times if its timer expired before `start()`, which a late IN_PROGRESS of the
  call before can cause.
* `SuccessIsForThisCall`: only if every call before was a success at its first
  try, and the network duplicated nothing, is the ack known to be this call's.
* `PluginsFollow`: not for plugins that a change of connection `overtook`. A
  heartbeat right after a timeout can leave the plugins of a connected system
  disabled, until the connection changes again.
* `CommandEnds`: not when IN_PROGRESS acks restart the timer for ever. A vehicle
  that goes on sending them keeps the call, and every later one waits; without
  this premise TLC finds the loop.
* `UserKnows`: not when the full queue dropped the callback.
* `ReceiverInEveryDeadlock`: the receive thread does meet others in circles,
  since it calls handlers under the table's mutex and plugins under the
  systems'. `locks_nonblocking` shows one of them. The property does not rule
  them out; it says that without the receive thread there would be none, in
  whatever order the others come.
* `TimeoutsKept`: not when an entry is `reused`. Without that condition TLC
  takes six steps to have an item's destructor remove the heartbeat timer of a
  connected system, which is never noticed to be lost: the item is made, started
  and finished, the system connects, its timer is put where the item's was, the
  item is freed.
* `QueueBounded`: not when two threads `raced`. Both see a place left, the queue
  goes past the limit, and the comparison for equality holds nothing back then.
* `LastProgressIsShown`: not when the last report was `missed`, and after a
  reset the user goes on being shown what was.
* `SameList` (lists and inspection): a list of `SeqRange` alarms or waypoints is
  announced as an empty one, arrives as one and is reported a success.

### Fairness

The library's threads loop for ever with a short sleep, and the mutexes they
wait for are held for the length of a handler. So: a startable or finished front
item is started or popped (`WF` of the start and pop actions), an armed timer
expires and its callback runs (`WF` of expire and timeout), a thread inside
`cancel_...()` gets on, and in `SystemConnection` a thread that has read the size
of the queue enqueues. A command's timer that is replaced by a new one again and
again need not expire (`StationFairness`: it expires, or there is no end of
`Restarted`). Fairness is per action because the work thread visits
every expired entry on each pass and the system thread each transfer. Nothing
is assumed of the network or of users: every liveness property holds although
all packets may be lost. Of the other side only `CommandEnds` assumes something,
that it does not send IN_PROGRESS for ever. In `MavsdkThreads` the work
thread, the callback thread and the destructor are each one process that gets
on, and a callback that was asked for is enqueued; the user's callbacks return.
These modules take a handler as one step, so their liveness is that of a
program that has not run into one of the deadlocks that `Locks` describes.

## 4. Proofs

Checked by TLAPS for every value of the constants (lists, retries, numbers of
calls, systems and plugins), from the named ASSUMEs of the modules only.

`ListTransfer_proof`. The inductive invariant is the conjunction of the link's
and the counters' types with `DownloadInv(gs)` and `UploadInv(rv)`: the type of
the item, `ReportsWhenDone`, `QueuedUntilDone` (an item leaves the queue only
when it is done, which is why a new call finds the last one answered),
`NeverWedged`, `RetriesBounded`, and for uploads `SentSoFar` (every index below
`next` was sent), without which `SuccessMeansAllSent` is not inductive. Lemmas
say what each shared operator (`AddTimeout`, `CallbackAndReset`, `Ask`,
`Finish`, `SendItem`, ...) keeps of it; then there is one step per action. The
same lemmas say how a step maps to `OneShot`: `Call`, `Reply` or a stutter.

| theorem | states |
|---|---|
| `TypeCorrect` | `TypeOK` |
| `CallbackOnce` | `ReportedOnce` |
| `QueueNeverWedged` | `NothingWedged` |
| `RetriesLimited` | `RetriesRespected` |
| `SuccessAfterAllSent` | `SuccessMeansAllSent` |
| `DownloadImplementsOneShot`, `UploadImplementsOneShot` | refinement of `OneShot` (safety) |

`ListExactness_proof`. `process_alarm_item` and `process_alarm_read` compare no
index with the one they expect, so nothing in a handler makes the collected list
the vehicle's: that packets come in turns does. The invariant `InTurn` says that
until something is repeated (by a timeout, by the network or by a second call)
the two items are in one of six stages, and in each which single packet other
than an ACK is under way: the REQUEST (`Asked`), none while the vehicle's item
waits for its start (`Begun`), the COUNT (`Counted`), the READ of the next index
(`Reading`), the ITEM that answers it (`Answered`), none for ever after a loss
or a refusal (`Broken`). ACKs come and go meanwhile: they change an item's
result, never its list.

| theorem | states |
|---|---|
| `UndisturbedDownloadIsExact` | `SuccessWithoutRepeatsIsExact` |

The COUNT is the length modulo `SeqRange` (`Packed`), so the theorem has the
exception of `SameList`: `start()` refuses a list with more entries than
`SeqRange`, whose indices cannot be in turn, but not one with exactly as many.

`InspectionTransfer_proof`. The invariant is the types with `UploadInv` for both
uploads and `Inv` for both downloads: the conjuncts of the list transfer, here
for items that hear the packets of two directions. A READ may go back, so
`SentSoFar` (every index below `next` was sent, unless the item is done) is what
`SuccessMeansAllSent` rests on. `NextMoves` says that a step acts on one of the
four items and how; the refinements of `OneShot` follow for each.

| theorem | states |
|---|---|
| `CallbackOnce` | `ReportedOnce` |
| `QueueNeverWedged` | `NothingWedged` |
| `RetriesLimited` | `RetriesRespected` |
| `SuccessAfterAllSent` | `SuccessMeansAllSent` |
| `StationImplementsOneShot`, `VehicleImplementsOneShot` | `StationCallsAreOneShot`, `VehicleCallsAreOneShot` (safety) |

`InspectionExactness_proof`. Stages as in the list transfer, once for each
direction (`DownTurn`, `UpTurn`): a COUNT is under way (`Announced`), a READ
(`Reading`), an ITEM (`Answered`), or nothing will come any more (`Over`). Steps
of the other direction, acknowledgements and cancellations keep a stage because
they leave the packets of the direction as they are (`Alike`). The COUNT is the
length modulo `SeqRange`, which is why the downloading side knows the length
only of a list that is shorter. For `AcceptedMeansDelivered` an ACK does not
tell its direction: `Acceptable` follows an acceptance from the vehicle's user
to the station's result and shows that only a download that was a success can
have caused it. A new item of the vehicle forgets that the one before repeated
something, so the invariant also says that a COUNT that is not repeated begins
one download and no second (`Single`).

| theorem | states |
|---|---|
| `UndisturbedDownloadIsTheList` | `DownloadIsExact` |
| `AcceptedUploadWasDelivered` | `AcceptedMeansDelivered` |

`CommandTransfer_proof`. The same conjuncts for the item (`Inv(item)`), with two
strengthenings. `TriesCounted` relates `_retries_done` to what was sent:
`start()` counts anew, so `sent` is bounded by `retries`, or by `Retries +
retries` once an item that timed out early has started. `Fresh` makes
`SuccessIsForThisCall` inductive: a COMMAND_LONG becomes a user callback of the
vehicle and that at most one final ack, so a command that was sent once is in
one place at most (`OnePlace`), and when its final ack has come, in none
(`Gone`); a call that finds all earlier ones settled can be answered by its own
ack only. One lemma says for each kind of step (receive, send, callback,
answer) how it moves what is under way.

| theorem | states |
|---|---|
| `TypeCorrect` | `TypeOK` |
| `CallbackOnce` | `ReportedOnce` |
| `QueueNeverWedged` | `NothingWedged` |
| `RetriesLimited` | `RetriesRespected` |
| `SuccessIsOfThisCall` | `SuccessIsForThisCall` |
| `CommandImplementsOneShot` | refinement of `OneShot` (safety) |

`SystemConnection_proof`. `Watched` is inductive with the types, which say
nothing of how long the queue of callbacks is.
`LostAfterSilence` needs `TimersAreYoung`: a timer's age is at most the silence.
`PluginsFollow` says nothing while `enable()` or `disable()` is still to come,
so it is proved from `InStep`: for a plugin not overtaken, what is still to come
agrees with the connection. `UserKnows` is proved from `Told`: for a system of
which no callback was dropped, the last callback in the queue carries the
system's state, or there is none and the user has seen that state.

| theorem | states |
|---|---|
| `TypeCorrect` | `TypeOK` |
| `ConnectedIsWatched` | `Watched` |
| `PluginsFollowConnection` | `PluginsFollow` |
| `LostOnlyAfterSilence` | `LostAfterSilence` |
| `UserIsTold` | `UserKnows` |

`MavsdkThreads_proof`. `TimeoutsKept` is proved from `TimersInv`: what a cookie
points to is its owner's entry or free (`CookiesOwn`), and a system that
reconnects while its loss is still being handled has set a new timer
(`LosingKnown`). `QueueBounded` is inductive once one knows that a thread which
saw a place left still has it (`PlaceLeft`), which is true as long as one thread
at a time is between the look and the enqueue (`OneAsks`). For
`LastProgressIsShown` the invariant says where the last report is: with the
receive thread (`ReportPending`), in the queue with no later report behind it,
in the callback thread, or shown (`LastReport`).

| theorem | states |
|---|---|
| `TypeCorrect` | `TypeOK` |
| `TimeoutsAreKept` | `TimeoutsKept` |
| `QueueIsBounded` | `QueueBounded` |
| `LastProgressShown` | `LastProgressIsShown` |

`Locks_proof`. Each thread is a sequence of steps, so the invariant has to say
what a sequence needs before and has after. `Runs(t, seq, h, k)`: thread `t`,
with `h`, finds what it needs for every step of `seq` and has `k` in the end,
where `h` holds the mutexes it has and the rights it was given by what it did or
found before: a pointer to an item, an item to destroy, one without handlers
left, the queue's front, an item seen in the locked table. One lemma for each
operation of the model says what it runs from and to. `LockInv` then says that
some such `x[t]` of each thread agrees with the state (`Fits`: mutexes held,
pointers held, one destroyer, handlers in the table only of items that exist)
and that each thread's rest runs from it to nothing. A step needs a mutex of
higher `Rank` than those held, except in the receive thread; ranks are three, so
the others cannot wait in a circle. A thread that locks an item has one of the
rights that keep its memory (`Keeps`), except the work thread.

| theorem | states |
|---|---|
| `LocksInOrder` | the invariant `LockInv` |
| `ReceiverAlwaysInDeadlock` | `ReceiverInEveryDeadlock` |
| `ItemsOutliveHandlers` | `HandlersOfLiveItems` |

Model-checked only: all liveness properties (`CommandEnds`, `DownloadEnds`,
`UploadEnds`, `StationTransfersEnd`, `VehicleTransfersEnd`, `LossNoticed`,
`DestructorEnds`, `CallbacksRun`), since fairness is outside the prover's reach. The invariant of `Locks_proof` is proved only: what the threads
have is an existential over all functions, which TLC does not enumerate.

## 5. Not modelled

* `src/mavlink/include`: about nine tenths of the lines of the repository are
  MAVLink headers that a generator has written, packing, unpacking and testing
  one message after the other. The models take whole packets.
* Iteration in `run_once()` and the `_iterator_invalidated` flag: an expired
  entry is called at some point, in any order.
* The blocking variants of the plugins' calls other than `send_command()`: a
  promise that the callback sets.
* Alarm status and telemetry: a message is stored and a callback is queued, as
  the connection's notifications in `MavsdkThreads`; no protocol.
* `send_progress` and `set_current_item` of the vehicle: one packet each.
* Components of a system, intercept callbacks, versions, configuration.
* Timesync and ping: one message and one number each, and round-trip times.
  Two ends of this library do not synchronise, since `process_timesync()` answers
  requests only when it has acquired the time from an answer.
* Sockets, byte parsing, data types, printing, clocks, examples: no protocol
  state.
