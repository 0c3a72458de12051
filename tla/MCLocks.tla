------------------------------- MODULE MCLocks -------------------------------
(***************************************************************************)
(* Instances of Locks for TLC.  The items are interchangeable.             *)
(***************************************************************************)
EXTENDS Locks, TLC

CONSTANTS item1, item2

AnyItem == Permutations(Items)
=============================================================================
