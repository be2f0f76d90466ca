------------------------------ MODULE MCBgwPool ------------------------------
(***************************************************************************)
(* BgwPool for TLC: a buffer of four words, and work of 2, 8 and 12 bytes  *)
(* (one job, three jobs or two jobs fill the buffer, the small one is not  *)
(* aligned) and of 16 bytes (larger than the buffer with its size).        *)
(***************************************************************************)
EXTENDS BgwPool

MCJobSizes == {2, 8, 12, 16}

=============================================================================
