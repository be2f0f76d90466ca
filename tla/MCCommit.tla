------------------------------ MODULE MCCommit ------------------------------
(* Commit for two nodes with a referee: node 1 commits, node 2 applies.    *)
EXTENDS Commit

LinkAndApply == {"link", "apply"}
LinkOnly     == {"link"}
=============================================================================
