-------------------------- MODULE InspectionProgress --------------------------
(***************************************************************************)
(* The progress of an inspection as the ground station's plugin keeps it:  *)
(* the receive thread stores what the vehicle reports and hands it to the  *)
(* user, an upload and the loss of the system reset it from other threads. *)
(***************************************************************************)
EXTENDS UserCallbacks, Integers

CONSTANT Seqs   \* numbers of waypoints

ASSUME SeqsAssumption == Seqs \subseteq Nat

VARIABLES
  stored,      \* last_current_mavlink_..., last_reached_mavlink_inspection_item
  reported,    \* last_current_reported_..., last_reached_reported_inspection_item
  reporting,   \* the receive thread is about to call report_progress()
  subscribed,  \* progress_callback is set
  shown,       \* history: the last progress a callback of the user got
  missed       \* history: the last report found no callback, or a full queue

progressVars == <<stored, reported, reporting, subscribed, shown, missed>>

None == -1
Progress == [current : Seqs \cup {None}, reached : Seqs \cup {None}]
NoProgress == [current |-> None, reached |-> None]

ProgressOK ==
  /\ stored \in Progress /\ reported \in Progress /\ shown \in Progress
  /\ reporting \in BOOLEAN /\ subscribed \in BOOLEAN /\ missed \in BOOLEAN

ProgressInit ==
  /\ stored = NoProgress /\ reported = NoProgress /\ shown = NoProgress
  /\ reporting = FALSE /\ subscribed = FALSE /\ missed = FALSE

\* reset_inspection_progress()
Reset ==
  /\ stored' = NoProgress /\ reported' = NoProgress
  /\ UNCHANGED <<reporting, subscribed, shown, missed>>

\* Bug variant: both numbers are compared with the current one.
StoreComparing(field, n) ==
  /\ stored' = [stored EXCEPT ![field] = n]
  /\ reporting' = (reported["current"] # n)
  /\ UNCHANGED <<reported, subscribed, shown, missed>>

\* process_inspection_current(), process_inspection_item_reached()
Store(field, n) ==
  /\ stored' = [stored EXCEPT ![field] = n]
  /\ reporting' = (reported[field] # n)
  /\ UNCHANGED <<reported, subscribed, shown, missed>>
-----------------------------------------------------------------------------
Report(p) == [of |-> "progress", progress |-> p]

ASSUME ReportsAssumption ==
  /\ \A p \in Progress : Report(p) \in Callbacks
  /\ \A f \in Callbacks : f.of = "progress" => f.progress \in Progress

\* report_progress(): what is stored by now counts as reported.
ReportProgress ==
  /\ reporting
  /\ reporting' = FALSE
  /\ reported' = stored
  /\ IF subscribed
     THEN CallUserCallback("receive", Report(stored)) /\ UNCHANGED missed
     ELSE missed' = TRUE /\ UNCHANGED queueVars
  /\ UNCHANGED <<stored, subscribed, shown, timerVars>>

\* inspection_progress_async()
Subscribe ==
  /\ ~subscribed
  /\ subscribed' = TRUE
  /\ UNCHANGED <<stored, reported, reporting, shown, missed, queueVars, timerVars>>
=============================================================================
