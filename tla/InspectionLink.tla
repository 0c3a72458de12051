--------------------------- MODULE InspectionLink ---------------------------
(***************************************************************************)
(* The packets of an inspection transfer and the link they travel on: the  *)
(* network of module Link, kept as the bag of the packets under way since  *)
(* two transfers have many packets and few of them travel at a time.       *)
(***************************************************************************)
EXTENDS Integers, Bags, BagsExt

CONSTANTS
  Plans,          \* what tells one plan_uuid and sync_id from another
  Names,          \* what tells one waypoint from another
  SeqRange,       \* 65536: sequence numbers and counts are uint16_t
  SendOutcomes,   \* what send_message() may return, a subset of BOOLEAN
  MaxDuplicates   \* bound: how many packets the network duplicates

ASSUME LinkAssumption ==
  /\ SeqRange \in Nat \ {0}
  /\ MaxDuplicates \in Nat
  /\ SendOutcomes \in (SUBSET BOOLEAN) \ {{}}

VARIABLES
  net,        \* the packets under way, a bag
  duplicates  \* how many packets the network has duplicated

linkVars == <<net, duplicates>>

Sides == {"station", "vehicle"}
SeqNumbers == 0 .. SeqRange - 1
AckTypes == {"Accepted", "Refused", "Cancelled"}   \* Refused: all the others

Request == [to |-> "vehicle", type |-> "REQUEST"]
Count(side, p, n) == [to |-> side, type |-> "COUNT", plan |-> p, count |-> n % SeqRange]
Read(side, i) == [to |-> side, type |-> "READ", seq |-> i % SeqRange]
Item(side, i, w) == [to |-> side, type |-> "ITEM", seq |-> i, name |-> w]
Ack(side, a) == [to |-> side, type |-> "ACK", ack |-> a]

Messages ==
  {Request}
    \cup {Count(side, p, n) : side \in Sides, p \in Plans, n \in SeqNumbers}
    \cup {Read(side, i) : side \in Sides, i \in SeqNumbers}
    \cup {Item(side, i, w) : side \in Sides, i \in SeqNumbers, w \in Names}
    \cup {Ack(side, a) : side \in Sides, a \in AckTypes}

LinkOK ==
  /\ IsABag(net) /\ BagToSet(net) \subseteq Messages
  /\ duplicates \in 0 .. MaxDuplicates

LinkInit == net = EmptyBag /\ duplicates = 0

UnderWay(m) == BagIn(m, net)
Without(m) == BagRemove(net, m)
Sent(link, out) == link (+) SetToBag(out)

Duplicate ==
  /\ duplicates < MaxDuplicates
  /\ duplicates' = duplicates + 1
  /\ \E m \in BagToSet(net) : net' = BagAdd(net, m)
=============================================================================
