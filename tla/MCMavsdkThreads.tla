--------------------------- MODULE MCMavsdkThreads ---------------------------
(***************************************************************************)
(* Instances of MavsdkThreads for TLC.                                     *)
(***************************************************************************)
EXTENDS MavsdkThreads

MCCallbacks == {Report(p) : p \in Progress} \cup {Notification}
=============================================================================
