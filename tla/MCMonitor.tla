----------------------------- MODULE MCMonitor -----------------------------
(* The monitor of node 1 in a cluster with the peers 2 and 3.              *)
EXTENDS Monitor, TLC

TwoPeers == {2, 3}

\* A new cluster of nodes 1 and 2, or the copy of a node that ran with
\* both peers.
FreshOrCopied ==
    { [my_node_id |-> TRUE, nodes |-> (2 :> "added" @@ 3 :> "absent")],
      [my_node_id |-> TRUE, nodes |-> (2 :> "init_done" @@ 3 :> "init_done")] }
=============================================================================
