---------------------------- MODULE MCConnectivity ----------------------------
(***************************************************************************)
(* Connectivity instantiated for model checking: three nodes, the smallest *)
(* cluster with a row of the matrix that tells of a third node.            *)
(***************************************************************************)
EXTENDS Connectivity

MCNNodes == 3

\* every connection
AllLinks == Link

\* the two connections between nodes 1 and 2
Between1And2 == {<<1, 2>>, <<2, 1>>}

\* the four connections of node 1
OfNode1 == {l \in Link : 1 \in {l[1], l[2]}}

From1To2 == {<<1, 2>>}

Nobody == {}
NoLink == {}
Node1  == {1}

=============================================================================
