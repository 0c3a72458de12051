------------------------ MODULE MCInspectionTransfer ------------------------
(***************************************************************************)
(* Instances of InspectionTransfer for TLC.                                *)
(***************************************************************************)
EXTENDS InspectionTransfer

CONSTANTS a, b

MCPlans == {NoPlan, "plan"}
MCNames == {a, b}
Two == [plan |-> "plan", items |-> <<a, b>>]
Range3 == [plan |-> "plan", items |-> <<a, b, a>>]      \* the COUNT wraps to 0
TooLong == [plan |-> "plan", items |-> <<a, b, a, b>>]  \* refused by start()

AllLists == {NoList, Two, Range3, TooLong}
One == [plan |-> "plan", items |-> <<a>>]
OneOrNone == {NoList, One}
=============================================================================
