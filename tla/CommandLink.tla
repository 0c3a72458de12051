----------------------------- MODULE CommandLink -----------------------------
(***************************************************************************)
(* The packets of a command: COMMAND_LONG and COMMAND_ACK, with what the   *)
(* two sides read of them.  `call` says for which call a COMMAND_LONG was  *)
(* sent and which one an ACK answers; no packet of MAVLink has it and no   *)
(* handler reads it.                                                       *)
(***************************************************************************)
EXTENDS Link

CONSTANTS
  Commands,   \* the commands the user sends
  MaxCalls    \* bound: calls of send_command_async()

ASSUME CommandAssumption == MaxCalls \in Nat /\ Commands # {}

Calls == 1 .. MaxCalls
Orders == [type : {"CommandLong"}, command : Commands, call : Calls]
Acks == [type : {"CommandAck"}, command : Commands, call : Calls,
         result : {"InProgress", "Final"}]
Messages == Orders \cup Acks

Order(c, n) == [type |-> "CommandLong", command |-> c, call |-> n]
AckOf(o, r) == [type |-> "CommandAck", command |-> o.command, call |-> o.call, result |-> r]

LinkOK == net \in [Messages -> Nat] /\ duplicates \in 0 .. MaxDuplicates
LinkInit == net = [m \in Messages |-> 0] /\ duplicates = 0
=============================================================================
