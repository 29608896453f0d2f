---------------------------- MODULE MCRouterGroups ----------------------------
(* Instances of RouterGroups for TLC. *)
EXTENDS RouterGroups

\* No ports, valid ports, ranges that share one port.
SomePorts == {<<>>, <<<<2, 3>>>>, <<<<2, 3>>, <<3>>>>}

OneSeed == <<[name |-> "a", type |-> "tcp", ports |-> <<<<2>>>>]>>

=============================================================================
