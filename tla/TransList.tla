------------------------------ MODULE TransList ------------------------------
(***************************************************************************)
(* The transaction states of one node of the legacy multimaster            *)
(* (src/multimaster.c): the hash MtmXid2State of fixed size, the list of   *)
(* all transactions (transListHead, transListTail) that the polls walk,    *)
(* the ring of active transactions (activeTransList) that                  *)
(* MtmAdjustOldestXid sweeps, and the transactions that create, finish and *)
(* free the states.                                                        *)
(*                                                                         *)
(* Pointers are slots of the hash: NULL is 0, and 0 also stands for the    *)
(* two list heads (&Mtm->transListHead in transListTail,                   *)
(* &Mtm->activeTransList in the ring).  An entry that HASH_REMOVE freed    *)
(* keeps its content, and HASH_ENTER may hand any free entry out again.    *)
(* A CSN is kept as the flag 'aged': it is older than MtmVacuumDelay.      *)
(***************************************************************************)
EXTENDS Integers, FiniteSets, FiniteSetsExt

CONSTANTS
    NSlots,        \* MTM_HASH_SIZE: the entries MtmXid2State has
    Txn,           \* the local xids of the transactions, positive integers
    Origin,        \* Origin[x]: gtid.node, the coordinator of x
    Children,      \* Children[x]: the xids of the committed children of x
    MtmNodeId,     \* this node
    MtmGcPeriod,   \* multimaster.gc_period
    MtmUseDtm,     \* multimaster.use_dtm
    MaxRestarts    \* bound: restarts of the node

VARIABLES
    MtmXid2State,      \* the entries of the hash, used and free
    transListHead,     \* Mtm->transListHead
    transListTail,     \* Mtm->transListTail: the entry whose next it is, or 0
    activeTransList,   \* Mtm->activeTransList, the head of the ring
    gcCount,           \* Mtm->gcCount
    disabledNodeMask,  \* Mtm->disabledNodeMask, without this node
    pc,                \* how far each transaction has come
    poll,              \* the walk of MtmRefreshClusterStatus over the list
    relinked,          \* history: an entry still linked was appended again
    restarts           \* restarts so far

vars == <<MtmXid2State, transListHead, transListTail, activeTransList, gcCount,
          disabledNodeMask, pc, poll, relinked, restarts>>

Slot == 1..NSlots
NULL == 0
Xid == Txn \cup UNION {Children[x] : x \in Txn}
InvalidTransactionId == 0
Neighbor == IF MtmNodeId = 1 THEN 2 ELSE 1

InDoubtStatus == {"IN_PROGRESS", "UNKNOWN"}
FinishedStatus == {"ABORTED", "COMMITTED"}
L2List == [next : Slot \cup {NULL}, prev : Slot \cup {NULL}]

MtmTransState ==
    [xid : Xid \cup {InvalidTransactionId}, inHash : BOOLEAN,
     status : InDoubtStatus \cup FinishedStatus, node : 0..2,
     isLocal : BOOLEAN, isActive : BOOLEAN, isPinned : BOOLEAN,
     isEnqueued : BOOLEAN, votingCompleted : BOOLEAN, aged : BOOLEAN,
     nSubxids : 0..Cardinality(Xid), next : Slot \cup {NULL},
     activeList : L2List]

\* Shared memory as ShmemInitHash and MemSet leave it.
Zeroed ==
    [xid |-> InvalidTransactionId, inHash |-> FALSE, status |-> "IN_PROGRESS",
     node |-> 0, isLocal |-> FALSE, isActive |-> FALSE, isPinned |-> FALSE, isEnqueued |-> FALSE,
     votingCompleted |-> FALSE, aged |-> FALSE, nSubxids |-> 0, next |-> NULL,
     activeList |-> [next |-> NULL, prev |-> NULL]]

\* The part of the shared state the list operations work on.
Heap ==
    [e |-> MtmXid2State, head |-> transListHead, tail |-> transListTail,
     act |-> activeTransList, gcCount |-> gcCount]

Store(h) ==
    /\ MtmXid2State' = h.e
    /\ transListHead' = h.head
    /\ transListTail' = h.tail
    /\ activeTransList' = h.act
    /\ gcCount' = h.gcCount

MtmInitialize ==
    [e |-> [s \in Slot |-> Zeroed], head |-> NULL, tail |-> NULL,
     act |-> [next |-> NULL, prev |-> NULL], gcCount |-> 0]

-----------------------------------------------------------------------------
(* The hash *)

Find(h, x) == {s \in Slot : h.e[s].inHash /\ h.e[s].xid = x}
Free(h) == {s \in Slot : ~h.e[s].inHash}

\* hash_search(MtmXid2State, &xid, HASH_ENTER, &found): the entry of x, or
\* any free one.
Enter(h, x) == IF Find(h, x) # {} THEN Find(h, x) ELSE Free(h)

-----------------------------------------------------------------------------
(* The ring of active transactions *)

SetNext(h, p, q) ==
    IF p = NULL THEN [h EXCEPT !.act.next = q]
                ELSE [h EXCEPT !.e[p].activeList.next = q]

SetPrev(h, p, q) ==
    IF p = NULL THEN [h EXCEPT !.act.prev = q]
                ELSE [h EXCEPT !.e[p].activeList.prev = q]

RingNext(h, p) == IF p = NULL THEN h.act.next ELSE h.e[p].activeList.next

MtmActivateTransaction(h, s) ==
    IF h.e[s].isActive THEN h
    ELSE LET first == h.act.next
             linked == [h EXCEPT !.e[s].activeList = [next |-> first, prev |-> NULL],
                                 !.e[s].isActive = TRUE]
         IN  [SetPrev(linked, first, s) EXCEPT !.act.next = s]

\* The state stays in the ring until MtmAdjustOldestXid takes it out.
MtmDeactivateTransaction(h, s) == [h EXCEPT !.e[s].isActive = FALSE]

\* (mutant) MtmAdjustOldestXid without the test of isPinned.
CollectablePinned(ts) ==
    /\ ts.status \in FinishedStatus
    /\ ~ts.isActive
    /\ ts.aged

Collectable(ts) ==
    /\ ts.status \in FinishedStatus
    /\ ~ts.isActive
    /\ ~ts.isPinned
    /\ ts.aged

\* The loop of MtmAdjustOldestXid: cur goes round the ring until its
\* successor is start.  A state that is collected leaves the ring and the
\* hash; its next, and the next of the state before it in the transaction
\* list, stay as they are.  The loop stops in front of the head of the
\* ring, which is no transaction: cur is never NULL where it is looked at.
RECURSIVE Sweep(_, _, _)
Sweep(h, start, cur) ==
    IF RingNext(h, cur) = start THEN h
    ELSE IF Collectable(h.e[cur])
         THEN LET al == h.e[cur].activeList
                  unlinked == SetPrev(SetNext(h, al.prev, al.next), al.next, al.prev)
              IN  Sweep([unlinked EXCEPT !.e[cur].inHash = FALSE],
                        IF cur = start THEN al.next ELSE start, al.next)
         ELSE Sweep(h, start, RingNext(h, cur))

MtmAdjustOldestXid(h) == [Sweep(h, h.act.next, h.act.next) EXCEPT !.gcCount = 0]

\* MtmBeginTransaction of a process whose transaction has no snapshot yet.
GcIfDue(h) == IF h.gcCount >= MtmGcPeriod THEN MtmAdjustOldestXid(h) ELSE h

-----------------------------------------------------------------------------
(* The list of all transactions *)

\* (mutant) MtmTransactionListAppend that leaves transListTail where it is.
AppendKeepsTail(h, s) ==
    IF h.e[s].isEnqueued THEN h
    ELSE LET fresh == [h EXCEPT !.e[s].isEnqueued = TRUE, !.e[s].next = NULL,
                                !.e[s].nSubxids = 0]
         IN  IF h.tail = NULL THEN [fresh EXCEPT !.head = s]
                              ELSE [fresh EXCEPT !.e[h.tail].next = s]

MtmTransactionListAppend(h, s) ==
    IF h.e[s].isEnqueued THEN h
    ELSE LET fresh == [h EXCEPT !.e[s].isEnqueued = TRUE, !.e[s].next = NULL,
                                !.e[s].nSubxids = 0]
             atTail == IF h.tail = NULL THEN [fresh EXCEPT !.head = s]
                                        ELSE [fresh EXCEPT !.e[h.tail].next = s]
         IN  [atTail EXCEPT !.tail = s]

MtmTransactionListInsertAfter(h, after, s) ==
    LET linked == [h EXCEPT !.e[s].next = h.e[after].next, !.e[after].next = s,
                            !.e[s].isEnqueued = TRUE]
    IN  IF h.tail = after THEN [linked EXCEPT !.tail = s] ELSE linked

\* The loop of MtmAddSubtransactions over the first n of subxids: each gets
\* an entry, the status and the CSN of its parent s, and the place after s.
RECURSIVE AddSubxids(_, _, _, _)
AddSubxids(h, s, subxids, n) ==
    IF n = 0 THEN h
    ELSE LET c == Min(subxids)
             sts == Min(Free(h))
             entered == [h EXCEPT !.e[sts] =
                            [@ EXCEPT !.xid = c, !.inHash = TRUE, !.isActive = FALSE,
                                      !.isPinned = FALSE, !.status = h.e[s].status,
                                      !.aged = h.e[s].aged, !.votingCompleted = TRUE]]
         IN  AddSubxids(MtmTransactionListInsertAfter(entered, s, sts), s,
                        subxids \ {c}, n - 1)

MtmAddSubtransactions(h, s, subxids, nSubxids) ==
    AddSubxids([h EXCEPT !.e[s].nSubxids = nSubxids], s, subxids, nSubxids)

\* The loop of MtmAdjustSubtransactions: the i states after sts in the list
\* get the status and the CSN of s.
RECURSIVE AdjustFrom(_, _, _, _)
AdjustFrom(h, s, sts, i) ==
    IF i = 0 THEN h
    ELSE LET sub == h.e[sts].next IN
             AdjustFrom([h EXCEPT !.e[sub].status = h.e[s].status,
                                  !.e[sub].aged = h.e[s].aged], s, sub, i - 1)

MtmAdjustSubtransactions(h, s) == AdjustFrom(h, s, s, h.e[s].nSubxids)

\* Abort the transaction if it is not yet aborted, and not committed.
MtmAbortTransaction(h, s) ==
    IF h.e[s].status \in FinishedStatus THEN h
    ELSE MtmAdjustSubtransactions([h EXCEPT !.e[s].status = "ABORTED"], s)

\* The entries a walk from p passes before it ends or comes to one it has
\* passed.
RECURSIVE Reach(_, _, _)
Reach(e, p, seen) ==
    IF p = NULL \/ p \in seen THEN seen ELSE Reach(e, e[p].next, seen \cup {p})

Listed(h) == Reach(h.e, h.head, {})

\* MtmCreateTransState for the entry s that HASH_ENTER gave for x.
MtmCreateTransState(h, s, x) ==
    LET found == h.e[s].inHash
        ts == [h.e[s] EXCEPT !.xid = x, !.inHash = TRUE, !.status = "IN_PROGRESS",
                             !.isLocal = TRUE, !.isPinned = FALSE,
                             !.votingCompleted = FALSE, !.node = Origin[x]]
    IN  [h EXCEPT !.e[s] = IF found THEN ts
                           ELSE [ts EXCEPT !.isEnqueued = FALSE, !.isActive = FALSE]]

\* Appending s would link an entry that the list still leads to.
Relinks(h, s) == ~h.e[s].isEnqueued /\ s \in Listed(h)

-----------------------------------------------------------------------------
(* The transactions *)

IsReplica(x) == Origin[x] # MtmNodeId
StateOf(x) == CHOOSE s \in Slot : s \in Find(Heap, x)

\* A process that found a loop in the transaction list walks it for ever,
\* and holds MtmLock.
Locked == poll.phase = "hung"

Goes(x, to) == pc' = [pc EXCEPT ![x] = to]

MtmBeginTransaction(x) ==
    /\ ~Locked
    /\ pc[x] = "none"
    /\ Origin[x] \notin disabledNodeMask
    /\ Store(GcIfDue(Heap))
    /\ Goes(x, "begun")
    /\ UNCHANGED <<disabledNodeMask, poll, relinked, restarts>>

\* withState: the record came with a snapshot and the node is not in
\* recovery.
MtmJoinTransaction(x, withState) ==
    /\ ~Locked
    /\ pc[x] = "begun"
    /\ IsReplica(x)
    /\ IF withState
       THEN \E s \in Enter(Heap, x) :
                Store(MtmActivateTransaction(MtmCreateTransState(Heap, s, x), s))
       ELSE UNCHANGED <<MtmXid2State, transListHead, transListTail,
                        activeTransList, gcCount>>
    /\ Goes(x, "joined")
    /\ UNCHANGED <<disabledNodeMask, poll, relinked, restarts>>

MtmPrePrepareTransaction(x) ==
    /\ ~Locked
    /\ pc[x] = IF IsReplica(x) THEN "joined" ELSE "begun"
    /\ Origin[x] \notin disabledNodeMask
    /\ \E s \in Enter(Heap, x) :
           LET created == MtmCreateTransState(Heap, s, x)
               alone == IsReplica(x) \/ Neighbor \in disabledNodeMask
               active == MtmActivateTransaction(
                             [created EXCEPT !.e[s].aged = FALSE,
                                             !.e[s].isLocal = alone,
                                             !.e[s].nSubxids = Cardinality(Children[x])], s)
               counted == [active EXCEPT !.gcCount = @ + 1]
               appended == MtmTransactionListAppend(counted, s)
           IN  /\ Store(MtmAddSubtransactions(appended, s, Children[x],
                                              appended.e[s].nSubxids))
               /\ relinked' = (relinked \/ Relinks(counted, s))
    /\ Goes(x, "prepared")
    /\ UNCHANGED <<disabledNodeMask, poll, restarts>>

\* The end of MtmEndTransaction for a replicated transaction that aborts and
\* has no state under its gid: the entry as it is before it is appended.
AbortedState(h, s, x) ==
    LET found == h.e[s].inHash
        ts == [h.e[s] EXCEPT !.xid = x, !.inHash = TRUE, !.status = "ABORTED",
                             !.isLocal = TRUE, !.isPinned = FALSE, !.aged = FALSE,
                             !.node = Origin[x], !.nSubxids = 0,
                             !.votingCompleted = TRUE]
    IN  [h EXCEPT !.e[s] =
            IF found THEN ts
            ELSE [ts EXCEPT !.isEnqueued = FALSE, !.isActive = FALSE]]

\* A worker fails before PRE_PREPARE, or MtmPrePrepareTransaction refuses
\* the transaction of a disabled coordinator: MtmEndTransaction(x, false).
ApplyFails(x) ==
    /\ ~Locked
    /\ pc[x] = "joined"
    /\ \E s \in Enter(Heap, x) :
           LET aborted == AbortedState(Heap, s, x) IN
               /\ Store(MtmDeactivateTransaction(
                            MtmTransactionListAppend(aborted, s), s))
               /\ relinked' = (relinked \/ Relinks(aborted, s))
    /\ Goes(x, "done")
    /\ UNCHANGED <<disabledNodeMask, poll, restarts>>

\* No entry is free: hash_search raises 'out of shared memory', and the
\* abort of the transaction has no entry to write to either.
OutOfSharedMemory(x) ==
    /\ ~Locked
    /\ pc[x] \in {"begun", "joined"}
    /\ Enter(Heap, x) = {}
    /\ Goes(x, "done")
    /\ UNCHANGED <<MtmXid2State, transListHead, transListTail, activeTransList,
                   gcCount, disabledNodeMask, poll, relinked, restarts>>

\* For a coordinator with participants, agreed says how Mtm2PCVoting ended.
MtmPostPrepareTransaction(x, agreed) ==
    /\ ~Locked
    /\ pc[x] = "prepared"
    /\ MtmXid2State[StateOf(x)].isLocal => agreed
    /\ LET s == StateOf(x)
           voted == [Heap EXCEPT !.e[s].votingCompleted = TRUE]
       IN  Store(IF IsReplica(x)
                 THEN [voted EXCEPT !.e[s].status = IF MtmUseDtm THEN @ ELSE "UNKNOWN"]
                 ELSE IF Heap.e[s].isLocal
                      THEN [voted EXCEPT !.e[s].status = "UNKNOWN"]
                 ELSE IF agreed
                      THEN [voted EXCEPT !.e[s].status = "UNKNOWN", !.e[s].aged = FALSE]
                      ELSE MtmAbortTransaction(Heap, s))
    /\ Goes(x, "voted")
    /\ UNCHANGED <<disabledNodeMask, poll, relinked, restarts>>

MtmPrecommitTransaction(x) ==
    /\ ~Locked
    /\ pc[x] = "voted"
    /\ IsReplica(x)
    /\ Origin[x] \notin disabledNodeMask
    /\ MtmXid2State[StateOf(x)].status = "IN_PROGRESS"
    /\ LET s == StateOf(x) IN
           Store(MtmAdjustSubtransactions(
                     [Heap EXCEPT !.e[s].status = "UNKNOWN", !.e[s].aged = FALSE], s))
    /\ UNCHANGED <<disabledNodeMask, pc, poll, relinked, restarts>>

\* The end of a prepared transaction: the status, and the state leaves the
\* active ones.  newCsn: the commit came with a CSN later than the state's,
\* or is the commit of a coordinator without participants.
Ended(h, s, commit, newCsn) ==
    MtmDeactivateTransaction(
        IF commit
        THEN MtmAdjustSubtransactions(
                 [h EXCEPT !.e[s].status = "COMMITTED",
                           !.e[s].aged = IF newCsn THEN FALSE ELSE @], s)
        ELSE MtmAbortTransaction(h, s), s)

\* The coordinator ends its transaction as the voting said.
MtmEndTransaction(x) ==
    /\ ~Locked
    /\ pc[x] = "voted"
    /\ ~IsReplica(x)
    /\ LET s == StateOf(x) IN
           Store(Ended(Heap, s, MtmXid2State[s].status = "UNKNOWN",
                       MtmXid2State[s].isLocal))
    /\ Goes(x, "done")
    /\ UNCHANGED <<disabledNodeMask, poll, relinked, restarts>>

\* MtmEndTransaction of a process that is not the one that prepared x and
\* finds the state by its gid: COMMIT PREPARED or ROLLBACK PREPARED of the
\* coordinator is applied, or a transaction loaded after a restart is
\* resolved.
MtmEndPrepared(x, commit, newCsn) ==
    /\ ~Locked
    /\ \/ pc[x] = "voted" /\ IsReplica(x) /\ Origin[x] \notin disabledNodeMask
       \/ pc[x] = "loaded"
    /\ LET s == StateOf(x) IN
           /\ commit => \/ MtmXid2State[s].status = "UNKNOWN"
                        \/ MtmXid2State[s].status = "IN_PROGRESS" /\ pc[x] = "loaded"
           /\ Store(Ended(Heap, s, commit, newCsn))
    /\ Goes(x, "done")
    /\ UNCHANGED <<disabledNodeMask, poll, relinked, restarts>>

\* Time goes by: every CSN given so far is older than MtmVacuumDelay.
VacuumDelayPasses ==
    /\ ~Locked
    /\ \E s \in Slot : MtmXid2State[s].inHash /\ ~MtmXid2State[s].aged
    /\ MtmXid2State' = [s \in Slot |-> [MtmXid2State[s] EXCEPT !.aged = TRUE]]
    /\ UNCHANGED <<transListHead, transListTail, activeTransList, gcCount,
                   disabledNodeMask, pc, poll, relinked, restarts>>

-----------------------------------------------------------------------------
(* The polls of MtmPollStatusOfPreparedTransactionsForDisabledNode *)

Idle == [phase |-> "idle", ts |-> NULL, xid |-> InvalidTransactionId]

\* The test of the poll for the transactions of disabledNodeId.
Polled(ts, disabledNodeId) ==
    /\ ts.xid # InvalidTransactionId
    /\ ts.node = disabledNodeId
    /\ ts.votingCompleted
    /\ ts.status \in InDoubtStatus

\* What FinishPreparedTransaction does between MtmUnlock and MtmLock of
\* MtmFinishPreparedTransaction: the new transaction begins, the prepared
\* one gets its status and leaves the active ones.
FinishPinned(h, s) ==
    Ended(GcIfDue(h), s, h.e[s].status = "UNKNOWN", FALSE)

\* The poll of MtmDisableNode, which is called with MtmLock held twice: the
\* lock is not given up, the walk is one step.  It aborts what is in
\* progress and asks the others about what is precommitted.  A walk that
\* comes to an entry it has passed never ends.
RECURSIVE PollDisabled(_, _, _, _)
PollDisabled(h, p, seen, disabledNodeId) ==
    IF p = NULL THEN [h |-> h, hung |-> FALSE]
    ELSE IF p \in seen THEN [h |-> h, hung |-> TRUE]
    ELSE IF Polled(h.e[p], disabledNodeId) /\ h.e[p].status = "IN_PROGRESS"
         THEN LET pinned == [h EXCEPT !.e[p].isPinned = TRUE]
                  finished == [FinishPinned(pinned, p) EXCEPT !.e[p].isPinned = FALSE]
              IN  PollDisabled(finished, finished.e[p].next, seen \cup {p},
                               disabledNodeId)
         ELSE PollDisabled(h, h.e[p].next, seen \cup {p}, disabledNodeId)

\* The transactions whose state went from in doubt to finished.
Resolved(was, is) ==
    {x \in Txn : \E s \in Find(was, x) :
        was.e[s].status \in InDoubtStatus /\ is.e[s].status \in FinishedStatus}

MtmDisableNode(nodeId, online) ==
    /\ ~Locked
    /\ nodeId = Neighbor
    /\ nodeId \notin disabledNodeMask
    /\ poll.phase = "idle"
    /\ disabledNodeMask' = disabledNodeMask \cup {nodeId}
    /\ IF online
       THEN LET walk == PollDisabled(Heap, transListHead, {}, nodeId) IN
                /\ Store(walk.h)
                /\ poll' = [poll EXCEPT !.phase = IF walk.hung THEN "hung" ELSE "idle"]
                /\ pc' = [x \in Txn |-> IF x \in Resolved(Heap, walk.h)
                                        THEN "done" ELSE pc[x]]
       ELSE UNCHANGED <<MtmXid2State, transListHead, transListTail,
                        activeTransList, gcCount, poll, pc>>
    /\ UNCHANGED <<relinked, restarts>>

MtmEnableNode(nodeId) ==
    /\ ~Locked
    /\ nodeId \in disabledNodeMask
    /\ poll.phase = "idle"
    /\ disabledNodeMask' = disabledNodeMask \ {nodeId}
    /\ UNCHANGED <<MtmXid2State, transListHead, transListTail, activeTransList,
                   gcCount, pc, poll, relinked, restarts>>

\* The walk from p to the next state the poll finishes: the state, NULL at
\* the end of the list, or -1 when the walk never ends.
RECURSIVE NextPolled(_, _, _)
NextPolled(e, p, seen) ==
    IF p = NULL THEN NULL
    ELSE IF p \in seen THEN -1
    ELSE IF Polled(e[p], Neighbor) THEN p
    ELSE NextPolled(e, e[p].next, seen \cup {p})

\* The poll comes to ts: MtmFinishPreparedTransaction pins it and gives up
\* the lock.
WalksTo(ts) ==
    /\ poll' = IF ts = NULL THEN Idle
               ELSE IF ts = -1 THEN [Idle EXCEPT !.phase = "hung"]
               ELSE [phase |-> "pinned", ts |-> ts, xid |-> MtmXid2State[ts].xid]
    /\ MtmXid2State' =
           [s \in Slot |-> [MtmXid2State[s] EXCEPT !.isPinned =
               IF s = ts THEN TRUE ELSE IF s = poll.ts THEN FALSE ELSE @]]

\* The referee lets the node go on alone: the poll of
\* MtmRefreshClusterStatus, under MtmLock held once, commits what is
\* precommitted and aborts the rest.
MtmRefreshClusterStatus ==
    /\ poll.phase = "idle"
    /\ Neighbor \in disabledNodeMask
    /\ WalksTo(NextPolled(MtmXid2State, transListHead, {}))
    /\ poll'.phase # "idle"
    /\ UNCHANGED <<transListHead, transListTail, activeTransList, gcCount,
                   disabledNodeMask, pc, relinked, restarts>>

FinishPreparedTransaction ==
    /\ poll.phase = "pinned"
    /\ Store(FinishPinned(Heap, poll.ts))
    /\ poll' = [poll EXCEPT !.phase = "finished"]
    /\ Goes(poll.xid, "done")
    /\ UNCHANGED <<disabledNodeMask, relinked, restarts>>

\* MtmFinishPreparedTransaction has the lock again, the state is no longer
\* pinned, and the loop goes on with ts->next.
PollGoesOn ==
    /\ poll.phase = "finished"
    /\ WalksTo(NextPolled(MtmXid2State, MtmXid2State[poll.ts].next, {}))
    /\ UNCHANGED <<transListHead, transListTail, activeTransList, gcCount,
                   disabledNodeMask, pc, relinked, restarts>>

\* A walk of the whole transaction list never comes to NULL.
NeverEnds(h) == Listed(h) # {} /\ \A s \in Listed(h) : h.e[s].next # NULL

\* The poll of a disabled node that starts recovery (MtmGetReplicationMode)
\* asks the other nodes about every transaction in doubt, finishes none,
\* and changes nothing that is kept here: the only step of it that shows
\* is the one that does not come to the end of the list.
MtmPollStatusOfPreparedTransactions ==
    /\ poll.phase = "idle"
    /\ NeverEnds(Heap)
    /\ poll' = [poll EXCEPT !.phase = "hung"]
    /\ UNCHANGED <<MtmXid2State, transListHead, transListTail, activeTransList,
                   gcCount, disabledNodeMask, pc, relinked, restarts>>

-----------------------------------------------------------------------------
(* Restart *)

\* The transactions the engine holds prepared.
Prepared == {x \in Txn : pc[x] \in {"voted", "loaded"}}

\* state_3pc of a prepared transaction is MULTIMASTER_PRECOMMITTED.
Precommitted(x) == MtmUseDtm /\ MtmXid2State[StateOf(x)].status = "UNKNOWN"

\* MtmLoadPreparedTransactions, for the prepared transactions xs in the
\* order of their xids: each gets an entry of the new hash.
RECURSIVE MtmLoadPreparedTransactions(_, _)
MtmLoadPreparedTransactions(h, xs) ==
    IF xs = {} THEN h
    ELSE LET x == Min(xs)
             s == Min(Free(h))
             entered == [h EXCEPT !.e[s].xid = x, !.e[s].inHash = TRUE,
                                  !.e[s].isEnqueued = FALSE, !.e[s].isActive = FALSE]
             active == MtmActivateTransaction(entered, s)
             ts == [active.e[s] EXCEPT
                       !.status = IF Precommitted(x) THEN "UNKNOWN" ELSE "IN_PROGRESS",
                       !.isLocal = TRUE, !.isPinned = FALSE, !.aged = TRUE,
                       !.node = MtmNodeId, !.nSubxids = 0,
                       !.votingCompleted = TRUE]
         IN  MtmLoadPreparedTransactions(
                 MtmTransactionListAppend([active EXCEPT !.e[s] = ts], s), xs \ {x})

\* The node stops and starts: shared memory is made anew, and the first
\* MtmGetReplicationMode loads what the engine holds prepared.
Restart ==
    /\ restarts < MaxRestarts
    /\ restarts' = restarts + 1
    /\ Store(MtmLoadPreparedTransactions(MtmInitialize, Prepared))
    /\ pc' = [x \in Txn |-> IF x \in Prepared THEN "loaded"
                            ELSE IF pc[x] = "none" THEN "none" ELSE "done"]
    /\ disabledNodeMask' = {Neighbor}
    /\ poll' = Idle
    /\ relinked' = FALSE

-----------------------------------------------------------------------------

Init ==
    /\ MtmXid2State = MtmInitialize.e
    /\ transListHead = MtmInitialize.head
    /\ transListTail = MtmInitialize.tail
    /\ activeTransList = MtmInitialize.act
    /\ gcCount = MtmInitialize.gcCount
    /\ disabledNodeMask = {Neighbor}
    /\ pc = [x \in Txn |-> "none"]
    /\ poll = Idle
    /\ relinked = FALSE
    /\ restarts = 0

Next ==
    \/ \E x \in Txn :
        \/ MtmBeginTransaction(x)
        \/ \E withState \in BOOLEAN : MtmJoinTransaction(x, withState)
        \/ MtmPrePrepareTransaction(x)
        \/ ApplyFails(x)
        \/ OutOfSharedMemory(x)
        \/ \E agreed \in BOOLEAN : MtmPostPrepareTransaction(x, agreed)
        \/ MtmPrecommitTransaction(x)
        \/ MtmEndTransaction(x)
        \/ \E commit, newCsn \in BOOLEAN : MtmEndPrepared(x, commit, newCsn)
    \/ VacuumDelayPasses
    \/ \E online \in BOOLEAN : MtmDisableNode(Neighbor, online)
    \/ MtmEnableNode(Neighbor)
    \/ MtmRefreshClusterStatus
    \/ MtmPollStatusOfPreparedTransactions
    \/ FinishPreparedTransaction
    \/ PollGoesOn
    \/ Restart

Spec == Init /\ [][Next]_vars

-----------------------------------------------------------------------------
(* Properties *)

TypeOK ==
    /\ MtmXid2State \in [Slot -> MtmTransState]
    /\ transListHead \in Slot \cup {NULL}
    /\ transListTail \in Slot \cup {NULL}
    /\ activeTransList \in L2List
    /\ gcCount \in 0..Cardinality(Txn)
    /\ disabledNodeMask \subseteq {Neighbor}
    /\ pc \in [Txn -> {"none", "begun", "joined", "prepared", "voted", "loaded", "done"}]
    /\ poll \in [phase : {"idle", "pinned", "finished", "hung"},
                 ts : Slot \cup {NULL}, xid : Xid \cup {InvalidTransactionId}]
    /\ relinked \in BOOLEAN
    /\ restarts \in 0..MaxRestarts

\* A prepared transaction whose outcome this node does not know.
InDoubt(ts) == ts.inHash /\ ts.votingCompleted /\ ts.status \in InDoubtStatus

\* The states in the ring of active transactions.
RECURSIVE RingFrom(_, _)
RingFrom(p, seen) ==
    IF p = NULL \/ p \in seen THEN seen
    ELSE RingFrom(MtmXid2State[p].activeList.next, seen \cup {p})

\* While MtmFinishPreparedTransaction has given up MtmLock, the state the
\* poll of MtmRefreshClusterStatus stands on stays the state of the
\* transaction it pinned: MtmAdjustOldestXid of another process passes over
\* it, although FinishPreparedTransaction has finished and deactivated it,
\* and the loop goes on from the next of that transaction.
CursorStaysValid ==
    poll.phase \in {"pinned", "finished"} =>
        /\ MtmXid2State[poll.ts].inHash
        /\ MtmXid2State[poll.ts].xid = poll.xid

\* Every transaction in doubt is in the transaction list, where
\* MtmPollStatusOfPreparedTransactionsForDisabledNode and
\* MtmPollStatusOfPreparedTransactions look for it, as long as
\* MtmTransactionListAppend has not appended an entry that the list still
\* led to.
ListedUnlessRelinked ==
    relinked \/ \A s \in Slot : InDoubt(MtmXid2State[s]) => s \in Listed(Heap)

\* Every transaction in doubt is in the transaction list: what the comment
\* above MtmTransactionListAppend says of the list ('All distributed
\* transactions are linked in L1-list', from which MtmAdjustOldestXid
\* removes them).
InDoubtIsListed ==
    \A s \in Slot : InDoubt(MtmXid2State[s]) => s \in Listed(Heap)

\* The poll of a disabled node comes to the end of the transaction list
\* and gives MtmLock back.
PollReturns == poll.phase # "hung"

\* A finished state that no transaction uses is in the ring that
\* MtmAdjustOldestXid sweeps, so its entry is freed once its CSN is old:
\* 'Size of this hash table should be limited by MtmAdjustOldestXid'.
FinishedIsSwept ==
    \A s \in Slot :
        LET ts == MtmXid2State[s] IN
            ts.inHash /\ ts.status \in FinishedStatus /\ ~ts.isActive
                => s \in RingFrom(activeTransList.next, {})

\* A prepared transaction has a state for each of its committed children,
\* with its status: MtmPrePrepareTransaction counts them and calls
\* MtmAddSubtransactions 'ts, subxids, ts->nSubxids'.
ChildrenHaveStates ==
    \A x \in Txn : pc[x] \in {"prepared", "voted"} =>
        \A c \in Children[x] : Find(Heap, c) # {}

=============================================================================
