------------------------- MODULE DeadlockDetector -------------------------
(***************************************************************************)
(* The distributed deadlock detector of the legacy multimaster             *)
(* (src/multimaster.c, "Deadlock detection").                              *)
(*                                                                         *)
(* A backend or an apply worker that has waited for a lock longer than the *)
(* deadlock timeout calls MtmDetectGlobalDeadLock.  The detector writes    *)
(* the local wait-for graph, in global transaction identifiers, to the WAL *)
(* as an "L" message, merges it with the last graph it has received from   *)
(* every enabled peer, and looks for a loop through the waiting            *)
(* transaction.  When there is none and the pool of apply workers has been *)
(* at its peak for longer than the deadlock timeout, it reports a deadlock *)
(* all the same; otherwise it arms the timeout again.                      *)
(*                                                                         *)
(* The lock manager, the transactions and the replication stream are the   *)
(* environment: a transaction takes one lock on every node, first on the   *)
(* node of its origin and then, applied by a worker of the pool, on every  *)
(* other node; two transactions of Conflicts cannot hold theirs on the     *)
(* same node at the same time.                                             *)
(*                                                                         *)
(* The membership does not change while the detector is looked at: the     *)
(* same nodes are disabled everywhere, and every enabled node is online.   *)
(* So no node is in MTM_RECOVERY, where MtmExecute applies the changes     *)
(* itself and MtmJoinTransaction makes no state, every transaction comes   *)
(* once and with its snapshot, and its participants are the live           *)
(* nodes, which the ERROR of MtmJoinTransaction asks for.                  *)
(***************************************************************************)
EXTENDS Integers, FiniteSets, Sequences

CONSTANTS
    NNodes,             \* Mtm->nAllNodes
    Txn,                \* the distributed transactions
    Origin,             \* Origin[t]: the node that coordinates t
    Conflicts,          \* sets {t, u} of transactions that want the same lock
    MtmWorkers,         \* workers of a pool at start (multimaster.workers)
    MtmMaxWorkers,      \* upper bound of dynamic workers (multimaster.max_workers)
    QueueJobs,          \* the jobs the queue of a pool has room for (pool->size)
    disabledNodeMask,   \* Mtm->disabledNodeMask, the same on every node
    MaxInFlight         \* bound: "L" messages on their way from one node to another

VARIABLES
    outcome,        \* outcome[t]: "none", "running", "commit" or "abort"
    holds,          \* holds[n]: transactions whose lock is granted on n
    waits,          \* waits[n]: transactions whose process sleeps on proc->waitLock
    deadlockTimer,  \* deadlockTimer[n]: waiters with DEADLOCK_TIMEOUT armed
    received,       \* received[n]: transactions the receiver of n has passed on
    pending,        \* pending[n]: jobs in the queue of the pool (pool->pending)
    active,         \* active[n]: jobs a worker executes (pool->active)
    nWorkers,       \* pool->nWorkers
    lastPeakTime,   \* pool->lastPeakTime, as the age it has now
    MtmXid2State,   \* MtmXid2State[n]: local xids that have a transaction state
    lockGraphData,  \* lockGraphData[n][p]: Mtm->nodes[p].lockGraphData on node n
    wal             \* wal[<<p, n>>]: "L" messages of p not yet applied by n

locks == <<holds, waits, deadlockTimer>>
pool  == <<received, pending, active, nWorkers, lastPeakTime>>
vars  == <<outcome, locks, pool, MtmXid2State, lockGraphData, wal>>

Nodes == 1..NNodes
Link  == {l \in Nodes \X Nodes : l[1] # l[2]}

\* GlobalTransactionId: the node and the xid.  The xid t on node n stands for
\* the local xid that t has on n.
Gtid == Nodes \X Txn
Edge == Gtid \X Gtid

\* pool->lastPeakTime against MtmGetSystemTime(): not at the peak, at the
\* peak for less than DeadlockTimeout, at the peak for longer.
NotAtPeak == 0
Recent    == 1
Long      == 2

Enabled == Nodes \ disabledNodeMask

-----------------------------------------------------------------------------
(***************************************************************************)
(* The lock manager (PostgreSQL).                                          *)
(***************************************************************************)

Holders(n, t) == {u \in holds[n] \ {t} : {t, u} \in Conflicts}

\* LockAcquire: the lock is granted at once, or the process goes to sleep
\* with the deadlock timeout armed.
LockAcquire(n, t) ==
    IF Holders(n, t) = {}
    THEN /\ holds' = [holds EXCEPT ![n] = @ \cup {t}]
         /\ UNCHANGED <<waits, deadlockTimer>>
    ELSE /\ waits' = [waits EXCEPT ![n] = @ \cup {t}]
         /\ deadlockTimer' = [deadlockTimer EXCEPT ![n] = @ \cup {t}]
         /\ UNCHANGED holds

\* The holders are gone: the sleeping process is woken with the lock.
Grant(n, t) ==
    /\ t \in waits[n]
    /\ Holders(n, t) = {}
    /\ holds' = [holds EXCEPT ![n] = @ \cup {t}]
    /\ waits' = [waits EXCEPT ![n] = @ \ {t}]
    /\ deadlockTimer' = [deadlockTimer EXCEPT ![n] = @ \ {t}]
    /\ UNCHANGED <<outcome, pool, MtmXid2State, lockGraphData, wal>>

\* The process of t on n leaves the lock manager.
Release(n, t) ==
    /\ holds' = [holds EXCEPT ![n] = @ \ {t}]
    /\ waits' = [waits EXCEPT ![n] = @ \ {t}]
    /\ deadlockTimer' = [deadlockTimer EXCEPT ![n] = @ \ {t}]

-----------------------------------------------------------------------------
(***************************************************************************)
(* The pool of apply workers, as far as lastPeakTime needs it              *)
(* (src/src/bgwpool.c).                                                    *)
(***************************************************************************)

\* The peak begins when every worker is busy and a job is left in the queue.
PeakTime(n, act, pend, workers) ==
    IF lastPeakTime[n] = NotAtPeak /\ Cardinality(act) = workers /\ pend # {}
    THEN Recent
    ELSE lastPeakTime[n]

BgwStartExtraWorker(n) ==
    IF nWorkers[n] < MtmMaxWorkers THEN nWorkers[n] + 1 ELSE nWorkers[n]

\* The queue has no room for another job.
QueueFull(n) == Cardinality(pending[n]) = QueueJobs

\* The receiver finds no room: the peak begins, and the receiver waits on
\* 'overflow' until a worker has taken a job.
ProducerBlocked(n) ==
    /\ QueueFull(n)
    /\ lastPeakTime[n] = NotAtPeak
    /\ lastPeakTime' = [lastPeakTime EXCEPT ![n] = Recent]
    /\ UNCHANGED <<received, pending, nWorkers>>

\* The job is put in the queue.
Enqueued(n, t) ==
    LET pend    == pending[n] \cup {t}
        workers == IF Cardinality(active[n]) + Cardinality(pend) > nWorkers[n]
                   THEN BgwStartExtraWorker(n)
                   ELSE nWorkers[n]
    IN  /\ ~QueueFull(n)
        /\ received' = [received EXCEPT ![n] = @ \cup {t}]
        /\ pending' = [pending EXCEPT ![n] = pend]
        /\ nWorkers' = [nWorkers EXCEPT ![n] = workers]
        /\ lastPeakTime' = [lastPeakTime EXCEPT ![n] = PeakTime(n, active[n], pend, workers)]

\* The receiver of n hands a transaction of a peer to the pool.
BgwPoolExecute(n, t) == Enqueued(n, t) \/ ProducerBlocked(n)

\* A worker is done with its job, with or without an error.
WorkerDone(n, t) ==
    /\ active' = [active EXCEPT ![n] = @ \ {t}]
    /\ lastPeakTime' = [lastPeakTime EXCEPT ![n] = NotAtPeak]

BgwGetLastPeekTime(n) == lastPeakTime[n]

\* Time passes: the peak has lasted for DeadlockTimeout.
Tick(n) ==
    /\ lastPeakTime[n] = Recent
    /\ lastPeakTime' = [lastPeakTime EXCEPT ![n] = Long]
    /\ UNCHANGED <<outcome, locks, received, pending, active, nWorkers,
                   MtmXid2State, lockGraphData, wal>>

-----------------------------------------------------------------------------
(***************************************************************************)
(* The transactions.                                                       *)
(***************************************************************************)

Participants(t) == Enabled \ {Origin[t]}

\* A backend of the origin starts t and asks for its lock.
Begin(t) ==
    /\ outcome[t] = "none"
    /\ Origin[t] \in Enabled
    /\ outcome' = [outcome EXCEPT ![t] = "running"]
    /\ LockAcquire(Origin[t], t)
    /\ UNCHANGED <<pool, MtmXid2State, lockGraphData, wal>>

\* The changes of t, done on its origin, reach the receiver of n.
MtmExecute(n, t) ==
    /\ outcome[t] = "running"
    /\ t \in holds[Origin[t]]
    /\ n \in Participants(t)
    /\ t \notin received[n]
    /\ BgwPoolExecute(n, t)
    /\ UNCHANGED <<outcome, locks, active, MtmXid2State, lockGraphData, wal>>

JoinWithoutState(n, t) == UNCHANGED MtmXid2State

\* "we need local->remote xid mapping for deadlock detection"
MtmJoinTransaction(n, t) ==
    MtmXid2State' = [MtmXid2State EXCEPT ![n] = @ \cup {t}]

\* A free worker of n takes t from the queue, joins the transaction and
\* asks for its lock.
BgwPoolMainLoop(n, t) ==
    /\ t \in pending[n]
    /\ Cardinality(active[n]) < nWorkers[n]
    /\ LET pend == pending[n] \ {t}
           act  == active[n] \cup {t}
       IN  /\ pending' = [pending EXCEPT ![n] = pend]
           /\ active' = [active EXCEPT ![n] = act]
           /\ lastPeakTime' = [lastPeakTime EXCEPT ![n] = PeakTime(n, act, pend, nWorkers[n])]
    /\ MtmJoinTransaction(n, t)
    /\ LockAcquire(n, t)
    /\ UNCHANGED <<outcome, received, nWorkers, lockGraphData, wal>>

\* t holds its lock on every node that takes part: it is committed.
Commit(t) ==
    /\ outcome[t] = "running"
    /\ \A n \in Participants(t) \cup {Origin[t]} : t \in holds[n]
    /\ outcome' = [outcome EXCEPT ![t] = "commit"]
    /\ UNCHANGED <<locks, pool, MtmXid2State, lockGraphData, wal>>

\* The outcome of t reaches n: its process there ends the transaction.
Finish(n, t) ==
    /\ outcome[t] \in {"commit", "abort"}
    /\ t \in holds[n] \cup waits[n]
    /\ Release(n, t)
    /\ IF n = Origin[t]
       THEN UNCHANGED <<active, lastPeakTime>>
       ELSE WorkerDone(n, t)
    /\ UNCHANGED <<outcome, received, pending, nWorkers, MtmXid2State, lockGraphData, wal>>

-----------------------------------------------------------------------------
(***************************************************************************)
(* The detector.                                                           *)
(***************************************************************************)

\* The global identifier of the local xid of t: the one of its transaction
\* state, and without one the xid as a transaction of this node.
MtmGetGtid(n, t) ==
    IF t \in MtmXid2State[n] THEN <<Origin[t], t>> ELSE <<n, t>>

\* The local wait-for graph: from every waiter to every holder of a
\* conflicting lock.
MtmSerializeLock(n) ==
    UNION {{<<MtmGetGtid(n, t), MtmGetGtid(n, u)>> : u \in Holders(n, t)} : t \in waits[n]}

Successors(graph, vs) == {e[2] : e \in {d \in graph : d[1] \in vs}}

RECURSIVE recursiveTraverseGraph(_, _)
recursiveTraverseGraph(graph, visited) ==
    LET next == visited \cup Successors(graph, visited)
    IN  IF next = visited THEN visited ELSE recursiveTraverseGraph(graph, next)

\* A path of the graph leads from root back to root.
MtmGraphFindLoop(graph, root) ==
    root \in recursiveTraverseGraph(graph, Successors(graph, {root}))

\* The graph the detector of n searches: its own and the last one received
\* from every enabled peer.
MtmGraphAdd(n) ==
    MtmSerializeLock(n) \cup UNION {lockGraphData[n][p] : p \in Enabled \ {n}}

\* XLogFlush(LogLogicalMessage("L", ...)): the graph goes to every enabled
\* peer.  A peer that still has MaxInFlight messages of n to apply applies
\* the oldest of them first.
Publish(n) ==
    LET Full(l) == Len(wal[l]) = MaxInFlight
        To(l)   == l[1] = n /\ l[2] \in Enabled
    IN  /\ wal' = [l \in Link |->
                      IF To(l)
                      THEN Append(IF Full(l) THEN Tail(wal[l]) ELSE wal[l], MtmSerializeLock(n))
                      ELSE wal[l]]
        /\ lockGraphData' = [p \in Nodes |-> [q \in Nodes |->
                      IF p # q /\ To(<<q, p>>) /\ Full(<<q, p>>)
                      THEN Head(wal[<<q, p>>])
                      ELSE lockGraphData[p][q]]]

TimeoutNotEnabled(n, t) ==
    deadlockTimer' = [deadlockTimer EXCEPT ![n] = @ \ {t}]

\* enable_timeout_after(DEADLOCK_TIMEOUT, DeadlockTimeout): the timeout that
\* has just expired is armed again.
EnableTimeout(n, t) ==
    deadlockTimer' = [deadlockTimer EXCEPT ![n] = @ \cup {t}]

\* The copy of a peer's graph comes from palloc, which does not return
\* NULL: the "return true" for that case is never taken.
HasLoop(n, t) == MtmGraphFindLoop(MtmGraphAdd(n), MtmGetGtid(n, t))

\* "Apply workers were blocked more than %d msec"
Stalled(n) == BgwGetLastPeekTime(n) = Long

MtmDetectGlobalDeadLockForXid(n, t) == HasLoop(n, t) \/ Stalled(n)

\* The deadlock timeout of the process of t on n expires.
MtmDetectGlobalDeadLock(n, t) ==
    /\ t \in waits[n] \cap deadlockTimer[n]
    /\ Publish(n)
    /\ \/ /\ MtmDetectGlobalDeadLockForXid(n, t)
          \* the lock manager ends the waiter with a deadlock error
          /\ Release(n, t)
          /\ outcome' = [outcome EXCEPT ![t] = "abort"]
          /\ IF n = Origin[t]
             THEN UNCHANGED <<active, lastPeakTime>>
             ELSE WorkerDone(n, t)
       \/ /\ ~MtmDetectGlobalDeadLockForXid(n, t)
          /\ EnableTimeout(n, t)
          /\ UNCHANGED <<outcome, holds, waits, active, lastPeakTime>>
    /\ UNCHANGED <<received, pending, nWorkers, MtmXid2State>>

\* SELECT mtm.check_deadlock(xid): the answer goes to the client, the graph
\* to the WAL.
mtm_check_deadlock(n, t) ==
    /\ t \in holds[n] \cup waits[n]
    /\ Publish(n)
    /\ UNCHANGED <<outcome, locks, pool, MtmXid2State>>

\* The receiver of n applies the next "L" message of p.
MtmUpdateLockGraph(n, p) ==
    /\ wal[<<p, n>>] # <<>>
    /\ lockGraphData' = [lockGraphData EXCEPT ![n][p] = Head(wal[<<p, n>>])]
    /\ wal' = [wal EXCEPT ![<<p, n>>] = Tail(@)]
    /\ UNCHANGED <<outcome, locks, pool, MtmXid2State>>

-----------------------------------------------------------------------------

Init ==
    /\ outcome = [t \in Txn |-> "none"]
    /\ holds = [n \in Nodes |-> {}]
    /\ waits = [n \in Nodes |-> {}]
    /\ deadlockTimer = [n \in Nodes |-> {}]
    /\ received = [n \in Nodes |-> {}]
    /\ pending = [n \in Nodes |-> {}]
    /\ active = [n \in Nodes |-> {}]
    /\ nWorkers = [n \in Nodes |-> MtmWorkers]
    /\ lastPeakTime = [n \in Nodes |-> NotAtPeak]
    /\ MtmXid2State = [n \in Nodes |-> {}]
    /\ lockGraphData = [n \in Nodes |-> [p \in Nodes |-> {}]]
    /\ wal = [l \in Link |-> <<>>]

Transactions ==
    \E t \in Txn :
        \/ Begin(t)
        \/ Commit(t)
        \/ \E n \in Nodes : MtmExecute(n, t) \/ BgwPoolMainLoop(n, t) \/ Grant(n, t) \/ Finish(n, t)

Detector ==
    \E n \in Nodes :
        \/ \E t \in Txn : MtmDetectGlobalDeadLock(n, t) \/ mtm_check_deadlock(n, t)
        \/ \E p \in Nodes \ {n} : MtmUpdateLockGraph(n, p)
        \/ Tick(n)

Next == Transactions \/ Detector

Spec == Init /\ [][Next]_vars

\* The lock manager wakes a waiter, the pool runs its jobs, the replication
\* stream delivers, time passes and an armed timeout expires.  Clients need
\* not start a transaction and nobody need call mtm.check_deadlock.
Fairness ==
    /\ \A t \in Txn : WF_vars(Commit(t))
    /\ \A n \in Nodes : \A t \in Txn :
           /\ WF_vars(MtmExecute(n, t))
           /\ WF_vars(BgwPoolMainLoop(n, t))
           /\ WF_vars(Grant(n, t))
           /\ WF_vars(Finish(n, t))
           /\ WF_vars(MtmDetectGlobalDeadLock(n, t))
    /\ \A n \in Nodes : WF_vars(Tick(n))
    /\ \A l \in Link : WF_vars(MtmUpdateLockGraph(l[1], l[2]))

LiveSpec == Spec /\ Fairness

-----------------------------------------------------------------------------

TypeOK ==
    /\ outcome \in [Txn -> {"none", "running", "commit", "abort"}]
    /\ holds \in [Nodes -> SUBSET Txn]
    /\ waits \in [Nodes -> SUBSET Txn]
    /\ deadlockTimer \in [Nodes -> SUBSET Txn]
    /\ received \in [Nodes -> SUBSET Txn]
    /\ pending \in [Nodes -> SUBSET Txn]
    /\ active \in [Nodes -> SUBSET Txn]
    /\ nWorkers \in [Nodes -> MtmWorkers..MtmMaxWorkers]
    /\ lastPeakTime \in [Nodes -> {NotAtPeak, Recent, Long}]
    /\ MtmXid2State \in [Nodes -> SUBSET Txn]
    /\ \A n \in Nodes : \A p \in Nodes : lockGraphData[n][p] \subseteq Edge
    /\ \A l \in Link : /\ Len(wal[l]) <= MaxInFlight
                       /\ \A i \in 1..Len(wal[l]) : wal[l][i] \subseteq Edge

\* Who waits for whom, in transactions and over all nodes.
WaitsOn(n) == UNION {{<<t, u>> : u \in Holders(n, t)} : t \in waits[n]}
WaitsFor   == UNION {WaitsOn(n) : n \in Nodes}

\* The graphs node n has of its peers are the graphs the peers have now.
Current(n) == \A p \in Enabled \ {n} : lockGraphData[n][p] = MtmSerializeLock(p)

\* The subgraphs of the nodes join up: MtmSerializeLock names a transaction
\* by the same identifier on every node (MtmGetGtid, from the state that
\* MtmJoinTransaction makes), so a detector whose graphs of the peers are
\* up to date finds a loop through a waiter exactly when the waiter is on a
\* loop of waits over the nodes.
LoopFoundWhenCurrent ==
    \A n \in Enabled : \A t \in waits[n] :
        Current(n) => (HasLoop(n, t) <=> MtmGraphFindLoop(WaitsFor, t))

\* Again and again no transaction is under way, so none waits for ever: a
\* deadlock over several nodes, and a pool whose workers all wait for
\* transactions that wait for a worker, is broken by
\* MtmDetectGlobalDeadLock, which arms its timeout again when the graphs it
\* has do not show the loop yet.
EveryTransactionEnds ==
    []<>(\A t \in Txn :
            /\ outcome[t] # "running"
            /\ \A n \in Nodes : t \notin holds[n] \cup waits[n])

\* A transaction the detector ends because of a loop is on a loop of waits.
\* MtmDetectGlobalDeadLockForXid merges the graph of now with the graphs the
\* peers have published at their last detection; spec.md 4.9: "If a global
\* cycle is found, abort the victim locally".
VictimIsDeadlocked ==
    [][\A n \in Nodes : \A t \in Txn :
           /\ MtmDetectGlobalDeadLock(n, t)
           /\ outcome'[t] = "abort"
           /\ ~Stalled(n)
           => MtmGraphFindLoop(WaitsFor, t)]_vars

=============================================================================
