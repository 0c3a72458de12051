-------------------------- MODULE MCCommandTransfer --------------------------
(***************************************************************************)
(* Instances of CommandTransfer for TLC.                                   *)
(***************************************************************************)
EXTENDS CommandTransfer

CONSTANTS a, b
=============================================================================
