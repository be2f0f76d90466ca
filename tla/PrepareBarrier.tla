--------------------------- MODULE PrepareBarrier ---------------------------
(***************************************************************************)
(* The prepare barrier of src/src/state.c: two counters under a spinlock   *)
(* and one condition variable.  Backends and receivers that write a        *)
(* PREPARE are preparers; whoever switches the generation or promotes the  *)
(* node to online is a holder, and takes the barrier while it has gen_lock *)
(* in exclusive mode.  Preparers do not take gen_lock.                     *)
(*                                                                         *)
(* A step is what happens under one acquisition of cb_lock, or one call of *)
(* the condition variable.  ConditionVariableSleep is PostgreSQL's: the    *)
(* first call in a loop puts the process on the wait list and returns, the *)
(* later ones block until a broadcast has taken the process off the list,  *)
(* and put it back.                                                        *)
(***************************************************************************)
EXTENDS Naturals, FiniteSets

CONSTANTS
    Preparers,   \* processes that call AcquirePBByPreparer
    Holders,     \* processes that call AcquirePBByHolder under gen_lock
    MaxGenNum    \* bound: no generation switch beyond this number

ASSUME ConstantsOK ==
    /\ IsFiniteSet(Preparers) /\ IsFiniteSet(Holders)
    /\ Preparers \cap Holders = {}
    /\ MaxGenNum \in Nat \ {0}

VARIABLES
    n_committers,       \* mtm_state->n_committers
    n_prepare_holders,  \* mtm_state->n_prepare_holders
    cv_queue,           \* wait list of mtm_state->commit_barrier_cv
    gen_lock,           \* who holds mtm_state->gen_lock exclusively
    current_gen_num,    \* mtm_state->current_gen_num
    pc                  \* where every process is

vars == <<n_committers, n_prepare_holders, cv_queue, gen_lock, current_gen_num, pc>>

Procs == Preparers \cup Holders

\* "check": in the loop, not yet on the wait list; "recheck": in the loop and
\* prepared to sleep; "inside": pb_preparers_incremented or
\* pb_holders_incremented is set
Pc == {"idle", "locked", "check", "recheck", "sleep", "inside", "released", "woke"}

Goto(p, from, to) == pc[p] \in from /\ pc' = [pc EXCEPT ![p] = to]

-----------------------------------------------------------------------------
(* The loop both sides share *)

\* one turn of the loop of process p whose condition is 'free': get in (and
\* cancel the sleep), or prepare to sleep, or sleep
Turn(p, free) ==
    \/ /\ free
       /\ Goto(p, {"check", "recheck"}, "inside")
       /\ cv_queue' = cv_queue \ {p}
    \/ /\ ~free
       /\ Goto(p, {"check"}, "recheck")
       /\ cv_queue' = cv_queue \cup {p}
    \/ /\ ~free
       /\ Goto(p, {"recheck"}, "sleep")
       /\ UNCHANGED cv_queue

\* ConditionVariableSleep returns: a broadcast took p off the list; p puts
\* itself back and looks again
ConditionVariableSleep(p) ==
    /\ p \notin cv_queue
    /\ Goto(p, {"sleep"}, "recheck")
    /\ cv_queue' = cv_queue \cup {p}
    /\ UNCHANGED <<n_committers, n_prepare_holders, gen_lock, current_gen_num>>

\* mutant of Woken: a preparer that leaves wakes nobody
Woken_ByHoldersOnly(p) == IF p \in Holders THEN {} ELSE cv_queue

\* the wait list after the broadcast of ReleasePB by p: empty
Woken(p) == {}

\* ReleasePB, after the spinlock: ConditionVariableBroadcast
Broadcast(p, to) ==
    /\ Goto(p, {"released"}, to)
    /\ cv_queue' = Woken(p)
    /\ UNCHANGED <<n_committers, n_prepare_holders, gen_lock, current_gen_num>>

-----------------------------------------------------------------------------
(* Preparers *)

\* mutant of AdmitsPreparer: holders are not looked at
AdmitsPreparer_Always == TRUE

\* a preparer gets in while no holder has announced itself
AdmitsPreparer == n_prepare_holders = 0

\* AcquirePBByPreparer: the call, then the turns of its loop
AcquirePBByPreparer(p) ==
    /\ \/ Goto(p, {"idle"}, "check") /\ UNCHANGED <<n_committers, cv_queue>>
       \/ /\ Turn(p, AdmitsPreparer)
          /\ n_committers' = IF pc'[p] = "inside" THEN n_committers + 1 ELSE n_committers
    /\ UNCHANGED <<n_prepare_holders, gen_lock, current_gen_num>>

\* mutant of HasAcquired: ReleasePB does not ask whether the barrier was taken
HasAcquired_Unasked(p) == pc[p] \in {"idle", "inside"}

\* pb_preparers_incremented or pb_holders_incremented of process p
HasAcquired(p) == pc[p] = "inside"

\* ReleasePB by a preparer: the decrement under the spinlock; nothing if the
\* barrier was not acquired (the callers release on every way out)
ReleasePBByPreparer(p) ==
    /\ pc[p] \in {"idle", "inside"}
    /\ IF HasAcquired(p)
       THEN /\ n_committers' = n_committers - 1
            /\ pc' = [pc EXCEPT ![p] = "released"]
       ELSE UNCHANGED <<n_committers, pc>>
    /\ UNCHANGED <<n_prepare_holders, cv_queue, gen_lock, current_gen_num>>

-----------------------------------------------------------------------------
(* Holders: MtmConsiderGenSwitch and MtmHandleParallelSafe *)

\* mutant of LockGen: the lock is taken in shared mode
LockGen_Shared(h) ==
    /\ gen_lock' = gen_lock \cup {h}
    /\ Goto(h, {"idle"}, "locked")
    /\ UNCHANGED <<n_committers, n_prepare_holders, cv_queue, current_gen_num>>

\* LWLockAcquire(gen_lock, LW_EXCLUSIVE)
LockGen(h) ==
    /\ gen_lock = {}
    /\ gen_lock' = {h}
    /\ Goto(h, {"idle"}, "locked")
    /\ UNCHANGED <<n_committers, n_prepare_holders, cv_queue, current_gen_num>>

\* mutant of AdmitsHolder: the preparers behind the barrier are not waited for
AdmitsHolder_Always == TRUE

\* a holder gets in once the preparers that were in have left
AdmitsHolder == n_committers = 0

\* AcquirePBByHolder: announce at once, then the turns of the loop
AcquirePBByHolder(h) ==
    /\ \/ /\ Goto(h, {"locked"}, "check")
          /\ n_prepare_holders' = n_prepare_holders + 1
          /\ UNCHANGED cv_queue
       \/ /\ Turn(h, AdmitsHolder)
          /\ UNCHANGED n_prepare_holders
    /\ UNCHANGED <<n_committers, gen_lock, current_gen_num>>

\* the generation switch of MtmConsiderGenSwitch, behind the barrier
SwitchGen(h) ==
    /\ pc[h] = "inside"
    /\ current_gen_num < MaxGenNum
    /\ current_gen_num' = current_gen_num + 1
    /\ UNCHANGED <<n_committers, n_prepare_holders, cv_queue, gen_lock, pc>>

\* ReleasePB by a holder: the decrement under the spinlock
ReleasePBByHolder(h) ==
    /\ Goto(h, {"inside"}, "released")
    /\ n_prepare_holders' = n_prepare_holders - 1
    /\ UNCHANGED <<n_committers, cv_queue, gen_lock, current_gen_num>>

\* LWLockRelease(gen_lock)
UnlockGen(h) ==
    /\ Goto(h, {"woke"}, "idle")
    /\ gen_lock' = {}
    /\ UNCHANGED <<n_committers, n_prepare_holders, cv_queue, current_gen_num>>

-----------------------------------------------------------------------------
(* Specification *)

Init ==
    /\ n_committers = 0
    /\ n_prepare_holders = 0
    /\ cv_queue = {}
    /\ gen_lock = {}
    /\ current_gen_num = 1
    /\ pc = [p \in Procs |-> "idle"]

Preparer(p) ==
    \/ AcquirePBByPreparer(p)
    \/ ConditionVariableSleep(p)
    \/ ReleasePBByPreparer(p)
    \/ Broadcast(p, "idle")

Holder(h) ==
    \/ LockGen(h)
    \/ AcquirePBByHolder(h)
    \/ ConditionVariableSleep(h)
    \/ SwitchGen(h)
    \/ ReleasePBByHolder(h)
    \/ Broadcast(h, "woke")
    \/ UnlockGen(h)

Next == (\E p \in Preparers : Preparer(p)) \/ (\E h \in Holders : Holder(h))

\* what a process that has called one of the functions goes on to do: the
\* scheduler runs it, a prepare and a generation switch come to an end
Proceeds(p) ==
    /\ pc[p] # "idle"
    /\ IF p \in Preparers THEN Preparer(p)
       ELSE \/ AcquirePBByHolder(p) \/ ConditionVariableSleep(p)
            \/ ReleasePBByHolder(p) \/ Broadcast(p, "woke") \/ UnlockGen(p)

Spec == Init /\ [][Next]_vars /\ \A p \in Procs : WF_vars(Proceeds(p))

-----------------------------------------------------------------------------
(* Properties *)

\* The variables keep their types: in particular no counter is decremented
\* below zero by a ReleasePB of a process that did not acquire the barrier
\* ("No-op, if not acquired"), and only a process in a wait loop is on the
\* wait list of the condition variable.
TypeOK ==
    /\ n_committers \in 0..Cardinality(Preparers)
    /\ n_prepare_holders \in 0..Cardinality(Holders)
    /\ cv_queue \subseteq {p \in Procs : pc[p] \in {"recheck", "sleep"}}
    /\ gen_lock \in {{}} \cup {{h} : h \in Holders}
    /\ current_gen_num \in 1..MaxGenNum
    /\ pc \in [Procs -> Pc]

\* The generation does not change while a preparer is behind the barrier:
\* every PREPARE is written in the generation its writer saw when it got in
\* (comment in MtmConsiderGenSwitch: "once any new gen PREPARE appeared in
\* WAL, accepting old one must be forbidden").
NoSwitchDuringPrepare ==
    [][current_gen_num' # current_gen_num =>
          \A p \in Preparers : pc[p] # "inside" /\ pc'[p] # "inside"]_vars

\* No wake-up is lost: a process that sleeps on commit_barrier_cv while what
\* it waits for is true (no holder for a preparer, no preparer for a holder)
\* leaves ConditionVariableSleep.  Every change of a counter that can make a
\* condition true must be followed by a broadcast.
NoLostWakeup ==
    \A p \in Procs :
        (/\ pc[p] = "sleep"
         /\ IF p \in Preparers THEN n_prepare_holders = 0 ELSE n_committers = 0)
            ~> (pc[p] # "sleep")

\* A holder has the priority: once it has announced itself it gets behind
\* the barrier, however many preparers keep coming (AcquirePBByHolder:
\* "Holder has the priority, so prevent new committers immediately").
HolderGetsIn ==
    \A h \in Holders : (pc[h] \in {"check", "recheck", "sleep"}) ~> (pc[h] = "inside")

\* who is behind the barrier, and which holders have announced themselves:
\* AcquirePBByHolder counts the holder in before its loop
Behind(procs) == {p \in procs : pc[p] = "inside"}
Announced == {h \in Holders : pc[h] \in {"check", "recheck", "sleep", "inside"}}

Abstract ==
    INSTANCE BarrierSpec WITH preparing <- Behind(Preparers), announced <- Announced,
                              holding <- Behind(Holders), gen <- current_gen_num

\* The two counters, the spinlock and the condition variable implement the
\* barrier of BarrierSpec: every step of AcquirePBByPreparer,
\* AcquirePBByHolder and ReleasePB, and of the generation switch under
\* gen_lock, is a step of the abstract barrier or changes nothing of it.
\* Preparers and a holder are never behind the barrier together, a preparer
\* never gets in past a holder that has announced itself, and two holders
\* never ask at once.
ImplementsBarrier == Abstract!Spec

=============================================================================
