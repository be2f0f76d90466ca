---------------------------- MODULE BarrierSpec ----------------------------
(***************************************************************************)
(* What the prepare barrier of src/src/state.c promises to its callers,    *)
(* without counters, spinlock and condition variable: preparers write      *)
(* their PREPAREs together, a holder alone; a holder that has announced    *)
(* itself keeps new preparers out ("Holder has the priority, so prevent    *)
(* new committers immediately") and gets in when the preparers that were   *)
(* in have left; there is one holder at a time, because holders come with  *)
(* gen_lock in exclusive mode; the generation changes only behind the      *)
(* barrier.                                                                *)
(***************************************************************************)
EXTENDS Naturals

CONSTANTS Preparers, Holders, MaxGenNum

VARIABLES
    preparing,   \* the preparers behind the barrier
    announced,   \* the holders that have asked for the barrier
    holding,     \* the holders behind the barrier
    gen          \* the number of the current generation

vars == <<preparing, announced, holding, gen>>

Init ==
    /\ preparing = {} /\ announced = {} /\ holding = {}
    /\ gen = 1

Prepare(p) ==
    /\ p \notin preparing
    /\ announced = {}
    /\ preparing' = preparing \cup {p}
    /\ UNCHANGED <<announced, holding, gen>>

Finish(p) ==
    /\ p \in preparing
    /\ preparing' = preparing \ {p}
    /\ UNCHANGED <<announced, holding, gen>>

Announce(h) ==
    /\ announced = {}
    /\ announced' = {h}
    /\ UNCHANGED <<preparing, holding, gen>>

Exclude(h) ==
    /\ h \in announced \ holding
    /\ preparing = {}
    /\ holding' = holding \cup {h}
    /\ UNCHANGED <<preparing, announced, gen>>

Switch(h) ==
    /\ h \in holding
    /\ gen < MaxGenNum
    /\ gen' = gen + 1
    /\ UNCHANGED <<preparing, announced, holding>>

Release(h) ==
    /\ h \in holding
    /\ holding' = holding \ {h}
    /\ announced' = announced \ {h}
    /\ UNCHANGED <<preparing, gen>>

Next ==
    \/ \E p \in Preparers : Prepare(p) \/ Finish(p)
    \/ \E h \in Holders : Announce(h) \/ Exclude(h) \/ Switch(h) \/ Release(h)

Spec == Init /\ [][Next]_vars
=============================================================================
