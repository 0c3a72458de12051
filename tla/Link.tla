-------------------------------- MODULE Link --------------------------------
(***************************************************************************)
(* The link between one ground station and one robotic vehicle:            *)
(* Sender::send_message hands a packet to UDP, the receive thread of the   *)
(* other side takes one packet at a time.  The network is outside the      *)
(* repository: packets come in any order, some never come (a packet in     *)
(* `net` need not be received) and some come twice.                        *)
(***************************************************************************)
EXTENDS Naturals

CONSTANTS
  SendOutcomes,   \* what send_message() may return, a subset of BOOLEAN
  MaxDuplicates   \* bound: how many packets the network duplicates

ASSUME LinkAssumption ==
  /\ MaxDuplicates \in Nat
  /\ SendOutcomes \in (SUBSET BOOLEAN) \ {{}}

VARIABLES
  net,        \* how many copies of each packet are under way
  duplicates  \* how many packets the network has duplicated

linkVars == <<net, duplicates>>

UnderWay(m) == net[m] > 0
Without(m) == [net EXCEPT ![m] = @ - 1]
With(link, m) == [link EXCEPT ![m] = @ + 1]

Duplicate ==
  /\ duplicates < MaxDuplicates
  /\ duplicates' = duplicates + 1
  /\ \E m \in DOMAIN net : UnderWay(m) /\ net' = With(net, m)
=============================================================================
