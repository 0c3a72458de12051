------------------------------- MODULE OneShot -------------------------------
(***************************************************************************)
(* What the asynchronous calls of the library promise their caller: a call *)
(* that was accepted is answered once, with one result, and no other call  *)
(* is accepted before that.                                                *)
(***************************************************************************)
EXTENDS Naturals

CONSTANTS
  Answers,   \* the results a call may be answered with
  NoAnswer

VARIABLES
  calls,   \* how many calls were accepted
  phase,   \* "idle": the last call was answered, "open": one is not
  answer   \* the result of the last call

vars == <<calls, phase, answer>>

Init == calls = 0 /\ phase = "idle" /\ answer = NoAnswer

Call ==
  /\ phase = "idle"
  /\ calls' = calls + 1
  /\ phase' = "open"
  /\ answer' = NoAnswer

Reply ==
  /\ phase = "open"
  /\ phase' = "idle"
  /\ answer' \in Answers
  /\ UNCHANGED calls

Next == Call \/ Reply

Spec == Init /\ [][Next]_vars

\* Every call is answered.
FairSpec == Spec /\ WF_vars(Reply)
=============================================================================
