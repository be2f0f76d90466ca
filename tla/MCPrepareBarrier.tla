-------------------------- MODULE MCPrepareBarrier --------------------------
(***************************************************************************)
(* PrepareBarrier for TLC: two preparers (a backend and a receiver) and    *)
(* two holders (a receiver and the campaigner) that compete for gen_lock.  *)
(***************************************************************************)
EXTENDS PrepareBarrier

CONSTANTS p1, p2, h1, h2

MCPreparers == {p1, p2}
MCHolders   == {h1, h2}

=============================================================================
