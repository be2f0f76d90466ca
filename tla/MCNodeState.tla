---------------------------- MODULE MCNodeState ----------------------------
(* NodeState for two nodes with a referee.                                 *)
EXTENDS NodeState

MCMajorNodes == {}

\* no node was populated from a base backup of another
MCDonorNodeId == [n \in Nodes |-> n]

NoFaults        == [left |-> 0, kinds |-> {}]
OneRefereeFault == [left |-> 1, kinds |-> {"referee"}]
OneLinkFault    == [left |-> 1, kinds |-> {"link"}]
OneOutage       == [left |-> 1, kinds |-> {"link", "crash"}]
OneFault        == [left |-> 1, kinds |-> FaultKind]
=============================================================================
