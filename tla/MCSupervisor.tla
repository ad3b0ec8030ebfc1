--------------------------- MODULE MCSupervisor ---------------------------
(* Small instances of Supervisor for TLC. *)
EXTENDS Supervisor

(* A service that is always restarted, one that is never restarted and has *)
(* a trappable kill signal, and a oneshot.                                 *)
MCSetups ==
    {[policy |-> "always", type |-> "longrun", hardKill |-> TRUE,  scale |-> 1, objects |-> 3],
     [policy |-> "never",  type |-> "longrun", hardKill |-> FALSE, scale |-> 2, objects |-> 2],
     [policy |-> "never",  type |-> "oneshot", hardKill |-> TRUE,  scale |-> 1, objects |-> 2]}

MCCalls ==
    {[op |-> "start", n |-> 0], [op |-> "stop", n |-> 0],
     [op |-> "up", n |-> 2], [op |-> "down", n |-> 1]}

(* Two instances that are always restarted, and a scale-down to one.       *)
ScaleDownSetups ==
    {[policy |-> "always", type |-> "longrun", hardKill |-> TRUE, scale |-> 2, objects |-> 3]}

ScaleDownCalls == {[op |-> "start", n |-> 0], [op |-> "down", n |-> 1]}

=============================================================================
