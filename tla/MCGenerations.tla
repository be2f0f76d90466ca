---------------------------- MODULE MCGenerations ----------------------------
(***************************************************************************)
(* Generations instantiated for model checking: three nodes, the smallest  *)
(* cluster in which a majority can lose a member.                          *)
(***************************************************************************)
EXTENDS Generations

\* three configured nodes: a majority is two
MCNNodes == 3

=============================================================================
