---------------------------- MODULE MCTransList ----------------------------
(***************************************************************************)
(* Instances of TransList for TLC.                                         *)
(***************************************************************************)
EXTENDS TransList

\* Transaction 3 is coordinated by the neighbour, the others by this node.
ThreeTxn == 1..3
OneRemote == [x \in ThreeTxn |-> IF x = 3 THEN 2 ELSE 1]

\* Transaction 1 has one committed subtransaction.
OneChild == [x \in ThreeTxn |-> IF x = 1 THEN {4} ELSE {}]

=============================================================================
