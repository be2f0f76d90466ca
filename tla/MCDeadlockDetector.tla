------------------------ MODULE MCDeadlockDetector ------------------------
(***************************************************************************)
(* Instances of DeadlockDetector for TLC.                                  *)
(***************************************************************************)
EXTENDS DeadlockDetector

\* Two transactions of node 1 and two of node 2.
FourTxn == {"a1", "b1", "a2", "b2"}
OriginOfFour == [t \in FourTxn |-> IF t \in {"a1", "b1"} THEN 1 ELSE 2]

\* b1 wants the lock of a2 and b2 the lock of a1.  With one worker in a
\* pool, b1 applied on node 2 waits for a2 and keeps the worker from a1, b2
\* applied on node 1 waits for a1 and keeps the worker from a2: nobody waits
\* in a loop of locks, and only the pools stall.
Stall == {{"b1", "a2"}, {"b2", "a1"}}

\* Two transactions of node 1 and one of node 2.  a1 and a2 want the same
\* lock: the deadlock over two nodes.  b1 wants a lock of a2 and, applied
\* before a1 by the one worker of node 2, keeps the worker from a1.
ThreeTxn == {"a1", "b1", "a2"}
OriginOfThree == [t \in ThreeTxn |-> IF t = "a2" THEN 2 ELSE 1]
CrossOrStall == {{"a1", "a2"}, {"b1", "a2"}}

TwoTxn == {"a1", "a2"}
OriginOfTwo == [t \in TwoTxn |-> IF t = "a1" THEN 1 ELSE 2]
Cross == {{"a1", "a2"}}

Nobody == {}

\* The detector with the stalled pool left out of it.
NeverStalled(n) == FALSE

=============================================================================
