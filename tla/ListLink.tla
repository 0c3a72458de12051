------------------------------ MODULE ListLink ------------------------------
(***************************************************************************)
(* The packets of a list transfer (alarm, checklist, hl_action).           *)
(***************************************************************************)
EXTENDS Link

CONSTANTS
  Names,          \* what a list entry says
  SeqRange        \* 65536: counts and indices travel as uint16_t

ASSUME SeqRangeAssumption == SeqRange \in Nat \ {0}

Request == [type |-> "REQUEST"]                            \* to the vehicle
Read(i) == [type |-> "READ", index |-> i]                  \* to the vehicle
Ack(a) == [type |-> "ACK", ack |-> a]                      \* to the vehicle
Count(n) == [type |-> "COUNT", count |-> n]                \* to the station
Item(e) == [type |-> "ITEM", item |-> e]                   \* to the station

Indices == 0 .. SeqRange - 1
Entries == [index : Indices, name : Names]
AckTypes == {"Accepted", "Cancelled"}

\* What is left of a size_t in a packet.
Packed(n) == n % SeqRange

Messages ==
  {Request}
    \cup {Read(i) : i \in Indices}
    \cup {Ack(a) : a \in AckTypes}
    \cup {Count(n) : n \in Indices}
    \cup {Item(e) : e \in Entries}

LinkOK == net \in [Messages -> Nat] /\ duplicates \in 0 .. MaxDuplicates

LinkInit == net = [m \in Messages |-> 0] /\ duplicates = 0
=============================================================================
