------------------------------- MODULE Commit -------------------------------
(***************************************************************************)
(* The commit of one distributed transaction in src/multimaster.c: the     *)
(* backend of the origin replaces COMMIT by PREPARE, waits in Mtm2PCVoting *)
(* for the votes of the live participants, marks the transaction           *)
(* precommitted, waits for the second round of votes and finishes the      *)
(* prepared transaction; an apply worker of every participant joins the    *)
(* transaction, prepares it and votes, and later records of the origin     *)
(* precommit, commit or roll it back there.  A node that loses the origin  *)
(* decides about the transaction by itself                                 *)
(* (MtmPollStatusOfPreparedTransactionsForDisabledNode).                   *)
(*                                                                         *)
(* Kept: MtmTransState (ts), the entry of MtmGid2State (tm) and MtmTx (x)  *)
(* of the process that carries the transaction, per node, with the fields  *)
(* the control flow reads; the state of the prepared transaction in the    *)
(* engine (pxact).  Left out: CSNs and snapshots (a snapshot is valid or   *)
(* not), subtransactions, the counters nRunningTransactions,               *)
(* nActiveTransactions, transCount and gcCount, abortedByNode (reported in *)
(* an error message only), isPinned (set and cleared inside one step       *)
(* here), error injection, MtmBypass and the administrator's connections.  *)
(* nConfigChanges is compared for equality only: a handler that bumps it   *)
(* several times bumps it once here.                                       *)
(*                                                                         *)
(* The user may also prepare the transaction by name (PREPARE TRANSACTION, *)
(* isTwoPhase) and finish it later: the first round of votes is taken at   *)
(* the prepare, the second at COMMIT PREPARED                              *)
(* (MtmPreCommitPreparedTransaction).  The transaction has written, so     *)
(* that containsDML is set.                                                *)
(*                                                                         *)
(* Of the status machine (src/state.c, module NodeState) the commit path   *)
(* reads status, disabledNodeMask and nConfigChanges.  They change here    *)
(* by the loss of a connection and by the referee's grant; a node that     *)
(* was disabled does not recover while the transaction lives.              *)
(*                                                                         *)
(* Not in this repository, and modelled after what their callers expect:   *)
(* the engine (a prepared transaction is finished once, and only if it     *)
(* exists), the apply worker's order of calls for a PREPARE (join,         *)
(* exchange the status, prepare, exchange again), the arbiter (it adds a   *)
(* vote to votedMask in the round the vote belongs to, and aborts and      *)
(* wakes the backend on MSG_ABORTED).  The engine finishes the prepared    *)
(* transaction a COMMIT PREPARED names once its callback has returned: the *)
(* callback has no result, and MtmTx is private to the extension.  The     *)
(* requests of                                                             *)
(* MtmBroadcastPollMessage and their answers are the arbiter's: only the   *)
(* reset of votedMask is kept.                                             *)
(***************************************************************************)
EXTENDS Integers, FiniteSets, Sequences

CONSTANTS
    NNodes,            \* Mtm->nAllNodes
    Origin,            \* the node whose backend commits
    MtmUseDtm,         \* multimaster.use_dtm
    MtmEnforceLocalTx, \* multimaster.enforce_local_tx
    UseReferee,        \* multimaster.referee_connstring is set
    UserTwoPhase,      \* bound: the user may issue PREPARE TRANSACTION
    Faults             \* bound: the kinds of fault that may strike, each once

ASSUME /\ NNodes \in Nat \ {0, 1}
       /\ Origin \in 1..NNodes
       /\ {MtmUseDtm, MtmEnforceLocalTx, UseReferee, UserTwoPhase} \subseteq BOOLEAN
       /\ Faults \subseteq {"link", "apply"}

Nodes == 1..NNodes
Workers == Nodes \ {Origin}
NoNode == 0

VARIABLES
    mtm,      \* mtm[n]: status, masks and nConfigChanges of MtmState at n
    ts,       \* ts[n]: the MtmTransState of the transaction at n, or NoTs
    tm,       \* tm[n]: its entry in MtmGid2State at n, or NoTm
    x,        \* x[n]: MtmTx of the backend (origin) or of the apply worker
    pc,       \* pc[n]: where that process is
    pxact,    \* pxact[n]: the prepared transaction in the engine of n
    wal,      \* what the origin has logged for its participants
    applied,  \* applied[n]: how many records of wal n has taken
    msgs,     \* arbiter messages on their way to the origin
    link,     \* whether the nodes reach each other
    referee,  \* the winner the referee has chosen
    failed    \* the kinds of fault that have struck

vars == <<mtm, ts, tm, x, pc, pxact, wal, applied, msgs, link, referee, failed>>

XidStatus == {"IN_PROGRESS", "UNKNOWN", "COMMITTED", "ABORTED"}
Status == {"MTM_DISABLED", "MTM_RECOVERY", "MTM_RECOVERED", "MTM_ONLINE"}
Record == {"PREPARE", "PRECOMMIT", "COMMIT_PREPARED", "ABORT_PREPARED"}
MtmMessageCode == {"MSG_PREPARED", "MSG_PRECOMMITTED", "MSG_ABORTED"}

NoTs == [status |-> "none"]
NoTm == [status |-> "none"]

MaxConfigChanges == 8   \* bound: more than the faults of a run can cause

-----------------------------------------------------------------------------
(* MtmTx and MtmTransState *)

\* MtmTx of a process that runs no transaction
FreshTx == [status |-> "UNKNOWN", isDistributed |-> FALSE, isReplicated |-> FALSE,
            isPrepared |-> FALSE, isSuspended |-> FALSE, isTwoPhase |-> FALSE,
            gid |-> FALSE, gtid |-> FALSE, snapshot |-> FALSE]

MtmResetTransaction(xx) ==
    [xx EXCEPT !.snapshot = FALSE, !.gtid = FALSE, !.isDistributed = FALSE,
               !.isPrepared = FALSE, !.isSuspended = FALSE, !.isTwoPhase = FALSE,
               !.status = "UNKNOWN", !.gid = FALSE]

\* MtmTx of a process that finishes a prepared transaction by its name:
\* MtmResetTransaction, MtmBeginTransaction of a background worker, then
\* MtmSetCurrentTransactionGID
MtmSetCurrentTransactionGID(xx) ==
    [xx EXCEPT !.gid = TRUE, !.isDistributed = TRUE, !.isReplicated = TRUE]

\* the entry of MtmXid2State is found again if it was there
MtmCreateTransState(old, xx, me) ==
    [status |-> "IN_PROGRESS", isLocal |-> TRUE, isPrepared |-> FALSE,
     isTwoPhase |-> xx.isTwoPhase, votingCompleted |-> FALSE,
     isActive |-> old # NoTs /\ old.isActive,
     node |-> IF xx.gtid THEN Origin ELSE me,
     participantsMask |-> {}, votedMask |-> {}, nConfigChanges |-> 0]

MtmActivateTransaction(t) == [t EXCEPT !.isActive = TRUE]
MtmDeactivateTransaction(t) == [t EXCEPT !.isActive = FALSE]

MtmAbortTransaction(t) ==
    IF t.status \in {"ABORTED", "COMMITTED"} THEN t ELSE [t EXCEPT !.status = "ABORTED"]

MtmWakeUpBackend(t) == [t EXCEPT !.votingCompleted = TRUE]

\* liveNodesMask: the enabled nodes other than me
Live(m, me) == Nodes \ (m.disabledNodeMask \cup {me})

MtmSend2PCMessage_ToDisabled(m, t, cmd, me) ==
    IF t.node \in m.disabledNodeMask THEN {[code |-> cmd, node |-> me]} ELSE {}

\* the answers of a participant go to the coordinator unless it is disabled
MtmSend2PCMessage(m, t, cmd, me) ==
    IF t.node \notin m.disabledNodeMask THEN {[code |-> cmd, node |-> me]} ELSE {}

-----------------------------------------------------------------------------
(* The end of a transaction and of a prepared transaction *)

Prepared(px) == px \in {"prepared", "precommitted"}

\* what MtmEndTransaction accepts to commit
MayCommit(t, m) ==
    \/ t.status = "UNKNOWN"
    \/ t.status = "IN_PROGRESS" /\ m.status \in {"MTM_DISABLED", "MTM_RECOVERY"}

AbortedState_NoCoordinator(old, xx, me) ==
    [MtmCreateTransState(old, xx, me) EXCEPT
        !.status = "ABORTED", !.votingCompleted = TRUE, !.isActive = FALSE, !.node = NoNode]

\* the state a replica makes up for a transaction that failed before it
\* was prepared
AbortedState(old, xx, me) ==
    [MtmCreateTransState(old, xx, me) EXCEPT
        !.status = "ABORTED", !.votingCompleted = TRUE, !.isActive = FALSE]

\* XACT_EVENT_COMMIT or XACT_EVENT_ABORT at node me.  A commit that is
\* refused raises an error, and the abort that follows takes the other path.
\* The result is the transaction state and the messages sent.
MtmEndTransaction(xx, t, e, m, me, commit) ==
    LET tracked == xx.isDistributed /\ (xx.isPrepared \/ xx.isReplicated) /\ ~xx.isTwoPhase
        found   == IF xx.isPrepared THEN t # NoTs
                   ELSE xx.gid /\ e # NoTm /\ e.state
        commits == /\ commit /\ xx.status # "ABORTED"
                   /\ (tracked /\ found) => MayCommit(t, m)
        ended   == IF ~found THEN t
                   ELSE MtmDeactivateTransaction(
                            IF commits THEN [t EXCEPT !.status = "COMMITTED"]
                                       ELSE MtmAbortTransaction(t))
        notify  == ~commits /\ xx.isReplicated /\ xx.gtid
        final   == IF notify /\ ~found THEN AbortedState(t, xx, me) ELSE ended
    IN  IF ~tracked THEN [ts |-> t, sent |-> {}]
        ELSE [ts |-> final,
              sent |-> IF notify THEN MtmSend2PCMessage(m, final, "MSG_ABORTED", me) ELSE {}]

\* XACT_EVENT_ABORT_PREPARED
MtmAbortPreparedTransaction(xx, t, e) ==
    LET aborted == MtmAbortTransaction(t) IN
    [x  |-> [xx EXCEPT !.status = "ABORTED"],
     ts |-> IF xx.status # "ABORTED" /\ e # NoTm /\ e.state
            THEN IF t.isTwoPhase THEN MtmDeactivateTransaction(aborted) ELSE aborted
            ELSE t]

\* A prepared transaction is finished by its name, by a process that did
\* not prepare it.  The engine refuses what it has not prepared, and the
\* command ends in XACT_EVENT_ABORT; XACT_EVENT_PRE_COMMIT_PREPARED returns
\* at once for a replicated transaction; the command that wraps the finish
\* ends in XACT_EVENT_COMMIT.  The state is pinned and MtmLock given up for
\* the engine's finish; with one transaction nothing that runs in that
\* window touches the state (TransList has the window as a step of its own).
MtmFinishPreparedTransaction(t, e, px, m, me, commit) ==
    LET xx == [MtmSetCurrentTransactionGID(FreshTx) EXCEPT !.status = "IN_PROGRESS"]
        ab == MtmAbortPreparedTransaction(xx, t, e)
    IN  IF ~Prepared(px)
        THEN [ts |-> MtmEndTransaction(xx, t, e, m, me, FALSE).ts, pxact |-> px]
        ELSE IF commit
        THEN [ts |-> MtmEndTransaction(xx, t, e, m, me, TRUE).ts, pxact |-> "committed"]
        ELSE [ts |-> MtmEndTransaction(ab.x, ab.ts, e, m, me, TRUE).ts, pxact |-> "aborted"]

MtmBroadcastPollMessage(t) == [t EXCEPT !.votedMask = {}]

MtmPollStatus_AbortsPrecommitted(t, e, px, m, me, disabledNodeId, commitPrecommited) ==
    IF /\ t # NoTs /\ t.node = disabledNodeId /\ t.votingCompleted
       /\ t.status \in {"UNKNOWN", "IN_PROGRESS"}
    THEN MtmFinishPreparedTransaction(t, e, px, m, me,
                                      t.status = "UNKNOWN" /\ commitPrecommited)
    ELSE [ts |-> t, pxact |-> px]

\* a node that has lost the coordinator rolls back what it has only
\* prepared, and commits, or asks the others about, what it has precommitted
MtmPollStatusOfPreparedTransactionsForDisabledNode(t, e, px, m, me, disabledNodeId, commitPrecommited) ==
    IF /\ t # NoTs /\ t.node = disabledNodeId /\ t.votingCompleted
       /\ t.status \in {"UNKNOWN", "IN_PROGRESS"}
    THEN IF t.status = "IN_PROGRESS" \/ commitPrecommited
         THEN MtmFinishPreparedTransaction(t, e, px, m, me, t.status = "UNKNOWN")
         ELSE [ts |-> MtmBroadcastPollMessage(t), pxact |-> px]
    ELSE [ts |-> t, pxact |-> px]

\* the status the caller finds, and what the entry becomes
MtmExchangeGlobalTransactionStatus(e, new_status) ==
    IF e = NoTm
    THEN [tm |-> [status |-> new_status, state |-> FALSE], old |-> "IN_PROGRESS"]
    ELSE [tm |-> [e EXCEPT !.status = IF @ = "ABORTED" THEN @ ELSE new_status],
          old |-> IF e.state /\ e.status = "IN_PROGRESS" THEN "UNKNOWN" ELSE e.status]

-----------------------------------------------------------------------------
(* The status machine, as far as the commit path reads it *)

countZeroBits(mask) == NNodes - Cardinality(mask)

MtmEnableNode(m, nodeId) ==
    IF nodeId \in m.disabledNodeMask
    THEN [m EXCEPT !.disabledNodeMask = @ \ {nodeId}, !.nConfigChanges = @ + 1]
    ELSE m

MtmSetClusterStatus(m, status) ==
    IF m.status = status THEN m
    ELSE [m EXCEPT !.status = status, !.nConfigChanges = @ + 1]

\* Without a majority or the referee's grant the node is disabled, and is
\* itself in disabledNodeMask.  An enabled node goes from MTM_DISABLED
\* through recovery; the one case kept is the node that works alone, which
\* needs no receiver and no sender to be online.
MtmCheckState(m, me) ==
    LET nConnected     == countZeroBits(m.connectivityMask)
        isEnabledState == \/ nConnected >= NNodes \div 2 + 1
                          \/ nConnected = NNodes \div 2 /\ m.refereeGrant
        down           == MtmSetClusterStatus(m, "MTM_DISABLED")
    IN  IF ~isEnabledState
        THEN [down EXCEPT !.disabledNodeMask = @ \cup {me}, !.nConfigChanges = @ + 1]
        ELSE IF /\ m.status = "MTM_DISABLED" /\ me \notin m.disabledNodeMask
                /\ countZeroBits(m.disabledNodeMask) = nConnected
                /\ nConnected = 1
             THEN MtmSetClusterStatus(m, "MTM_ONLINE")
             ELSE m

\* what a handler of node n leaves: shared memory, transaction, engine
Leaves(n, m, fin) ==
    /\ mtm' = [mtm EXCEPT ![n] = m]
    /\ ts' = [ts EXCEPT ![n] = fin.ts]
    /\ pxact' = [pxact EXCEPT ![n] = fin.pxact]

\* the decision about the prepared transactions of nodeId is taken "only
\* in quorum": by the status the node had before it counts its neighbours
MtmDisableNode(n, nodeId) ==
    [mtm |-> [mtm[n] EXCEPT !.disabledNodeMask = @ \cup {nodeId}, !.nConfigChanges = @ + 1],
     fin |-> IF mtm[n].status = "MTM_ONLINE"
             THEN MtmPollStatusOfPreparedTransactionsForDisabledNode(
                      ts[n], tm[n], pxact[n], mtm[n], n, nodeId, FALSE)
             ELSE [ts |-> ts[n], pxact |-> pxact[n]]]

\* the arbiter or the watchdog of n finds that nodeId is gone
MtmOnNodeDisconnect(n, nodeId) ==
    LET d == MtmDisableNode(n, nodeId) IN
    /\ nodeId # n /\ ~link
    /\ nodeId \notin mtm[n].connectivityMask
    /\ Leaves(n, MtmCheckState([d.mtm EXCEPT !.connectivityMask = @ \cup {nodeId}], n), d.fin)
    /\ UNCHANGED <<tm, x, pc, wal, applied, msgs, link, referee, failed>>

\* the monitor of n sees half of the cluster, asks the referee and is the
\* winner: the first node that asks
MtmRefreshClusterStatus(n) ==
    LET granted  == [mtm[n] EXCEPT !.refereeGrant = TRUE]
        neighbor == IF n = 1 THEN 2 ELSE 1
    IN  /\ UseReferee /\ ~mtm[n].refereeGrant
        /\ countZeroBits(mtm[n].connectivityMask) = NNodes \div 2
        /\ referee \in {NoNode, n}
        /\ referee' = n
        /\ Leaves(n, MtmCheckState(MtmEnableNode(granted, n), n),
                  IF countZeroBits(mtm[n].connectivityMask) = 1
                  THEN MtmPollStatusOfPreparedTransactionsForDisabledNode(
                           ts[n], tm[n], pxact[n], granted, n, neighbor, TRUE)
                  ELSE [ts |-> ts[n], pxact |-> pxact[n]])
        /\ UNCHANGED <<tm, x, pc, wal, applied, msgs, link, failed>>

\* the network between the nodes fails, and stays down
LinkDown ==
    /\ link /\ "link" \in Faults
    /\ link' = FALSE /\ failed' = failed \cup {"link"}
    /\ UNCHANGED <<mtm, ts, tm, x, pc, pxact, wal, applied, msgs, referee>>

-----------------------------------------------------------------------------
(* The backend of the origin *)

Rec(type, mask) == [type |-> type, participantsMask |-> mask]

\* XACT_EVENT_START of a user's transaction
MtmBeginTransaction ==
    /\ pc[Origin] = "idle"
    /\ IF mtm[Origin].status # "MTM_ONLINE"
       THEN /\ pc' = [pc EXCEPT ![Origin] = "done"]
            /\ x' = [x EXCEPT ![Origin] = MtmResetTransaction(@)]
       ELSE /\ pc' = [pc EXCEPT ![Origin] = "running"]
            /\ x' = [x EXCEPT ![Origin] = [FreshTx EXCEPT !.isDistributed = TRUE,
                                               !.status = "IN_PROGRESS", !.snapshot = TRUE]]
    /\ UNCHANGED <<mtm, ts, tm, pxact, wal, applied, msgs, link, referee, failed>>

\* the state and the map entry a transaction gets before it is prepared
MtmPrePrepareTransaction(n, xx) ==
    LET mask == Live(mtm[n], n)
        t    == MtmCreateTransState(ts[n], xx, n)
    IN  [ts |-> MtmActivateTransaction(
                    [t EXCEPT !.participantsMask = mask,
                              !.isLocal = xx.isReplicated \/ mask = {} \/ MtmEnforceLocalTx,
                              !.nConfigChanges = mtm[n].nConfigChanges]),
         tm |-> [status |-> "IN_PROGRESS", state |-> TRUE],
         x  |-> [xx EXCEPT !.isPrepared = TRUE]]

\* XACT_EVENT_POST_PREPARE is through: the command of the user that
\* prepared by name ends here, and the transaction stays prepared
Prepared2PC(xx) ==
    /\ x' = [x EXCEPT ![Origin] = IF xx.isTwoPhase THEN MtmResetTransaction(xx) ELSE xx]
    /\ pc' = [pc EXCEPT ![Origin] = IF xx.isTwoPhase THEN "held" ELSE "decided"]

\* The transaction is prepared under a name: XACT_EVENT_PRE_PREPARE refuses
\* it on a node that is not online, the engine prepares and logs it, and
\* XACT_EVENT_POST_PREPARE finishes a local transaction at once.
PrepareTransactionBlock(twoPhase) ==
    LET xx  == [x[Origin] EXCEPT !.isTwoPhase = twoPhase, !.gid = TRUE]
        p   == MtmPrePrepareTransaction(Origin, xx)
        out == MtmEndTransaction(xx, ts[Origin], tm[Origin], mtm[Origin], Origin, FALSE)
    IN  /\ pc[Origin] = "running"
        /\ IF mtm[Origin].status # "MTM_ONLINE"
           THEN /\ pc' = [pc EXCEPT ![Origin] = "done"]
                /\ ts' = [ts EXCEPT ![Origin] = out.ts]
                /\ x' = [x EXCEPT ![Origin] = MtmResetTransaction(xx)]
                /\ UNCHANGED <<tm, pxact, wal>>
           ELSE /\ tm' = [tm EXCEPT ![Origin] = p.tm]
                /\ pxact' = [pxact EXCEPT ![Origin] = "prepared"]
                /\ wal' = Append(wal, Rec("PREPARE", p.ts.participantsMask))
                /\ IF p.ts.isLocal
                   THEN /\ ts' = [ts EXCEPT ![Origin] =
                                     [p.ts EXCEPT !.status = "UNKNOWN", !.votingCompleted = TRUE]]
                        /\ Prepared2PC(p.x)
                   ELSE /\ ts' = [ts EXCEPT ![Origin] = p.ts]
                        /\ x' = [x EXCEPT ![Origin] = p.x]
                        /\ pc' = [pc EXCEPT ![Origin] = "voting"]
        /\ UNCHANGED <<mtm, applied, msgs, link, referee, failed>>

\* COMMIT of the user becomes PREPARE under a name MtmTwoPhaseCommit makes up
MtmTwoPhaseCommit == PrepareTransactionBlock(FALSE)

\* PREPARE TRANSACTION of the user: MtmProcessUtility notes isTwoPhase and
\* the name
PrepareTransaction == UserTwoPhase /\ PrepareTransactionBlock(TRUE)

\* one evaluation of the condition of the loop in Mtm2PCVoting: whether the
\* wait is over, and whether the transaction was marked precommitted
MtmVotingCompleted(t, m) ==
    LET allVoted == (t.participantsMask \ (m.disabledNodeMask \cup t.votedMask)) = {}
        res(tt, done, pre) == [ts |-> tt, done |-> done, precommit |-> pre]
    IN  IF ~t.isPrepared /\ t.nConfigChanges # m.nConfigChanges
        THEN res(MtmAbortTransaction(t), TRUE, FALSE)
        ELSE IF t.votingCompleted THEN res(t, TRUE, FALSE)
        ELSE IF t.status = "IN_PROGRESS" /\ allVoted
        THEN IF t.isPrepared
             THEN res([t EXCEPT !.votingCompleted = TRUE, !.status = "UNKNOWN"], TRUE, FALSE)
             ELSE IF t.isTwoPhase
             THEN res([t EXCEPT !.isPrepared = TRUE, !.votingCompleted = TRUE], TRUE, FALSE)
             ELSE IF MtmUseDtm
             THEN res([t EXCEPT !.isPrepared = TRUE, !.votedMask = {}], FALSE, TRUE)
             ELSE res([t EXCEPT !.isPrepared = TRUE, !.votingCompleted = TRUE,
                                !.status = "UNKNOWN"], TRUE, FALSE)
        ELSE res(t, m.status # "MTM_ONLINE" \/ t.status = "ABORTED", FALSE)

\* what follows the loop: a wait that ended without a decision suspends a
\* precommitted transaction and aborts any other
AfterVoting(t, xx) ==
    LET stopped == t.status # "ABORTED" /\ ~t.votingCompleted
        voted   == IF stopped /\ ~t.isPrepared THEN MtmAbortTransaction(t) ELSE t
    IN  [ts |-> voted,
         x  |-> [xx EXCEPT !.isSuspended = stopped /\ t.isPrepared, !.status = voted.status]]

\* MtmPostPrepareTransaction and MtmPreCommitPreparedTransaction abort
\* whatever was decided if the configuration is not what it was at the
\* prepare
Recheck(a, m) ==
    IF a.ts.nConfigChanges = m.nConfigChanges THEN a
    ELSE [ts |-> MtmAbortTransaction(a.ts), x |-> [a.x EXCEPT !.status = "ABORTED"]]

\* the rest of MtmPostPrepareTransaction
Decide(t) ==
    LET a == Recheck(AfterVoting(t, x[Origin]), mtm[Origin]) IN
    /\ ts' = [ts EXCEPT ![Origin] = a.ts]
    /\ Prepared2PC(a.x)

\* the rest of MtmPreCommitPreparedTransaction: the callback returns, with
\* what it found in MtmTx
Confirm(t) ==
    LET a == Recheck(AfterVoting(t, x[Origin]), mtm[Origin]) IN
    /\ ts' = [ts EXCEPT ![Origin] = a.ts]
    /\ x' = [x EXCEPT ![Origin] = [a.x EXCEPT !.isPrepared = TRUE]]
    /\ pc' = [pc EXCEPT ![Origin] = "finishing"]

\* the backend wakes up in Mtm2PCVoting and finds something to do
Mtm2PCVoting ==
    LET r == MtmVotingCompleted(ts[Origin], mtm[Origin]) IN
    /\ pc[Origin] \in {"voting", "confirming"}
    /\ \/ /\ r.precommit
          /\ ts' = [ts EXCEPT ![Origin] = r.ts]
          /\ pxact' = [pxact EXCEPT ![Origin] = "precommitted"]
          /\ wal' = Append(wal, Rec("PRECOMMIT", {}))
          /\ UNCHANGED <<x, pc>>
       \/ /\ r.done
          /\ IF pc[Origin] = "voting" THEN Decide(r.ts) ELSE Confirm(r.ts)
          /\ UNCHANGED <<pxact, wal>>
    /\ UNCHANGED <<mtm, tm, applied, msgs, link, referee, failed>>

\* the deadline passes: only a transaction that is not precommitted is
\* cancelled, the wait for a precommitted one goes on (the wait at COMMIT
\* PREPARED is for a transaction that is precommitted or aborted)
Timeout2PC ==
    /\ pc[Origin] = "voting"
    /\ ~ts[Origin].isPrepared
    /\ Decide(MtmAbortTransaction(ts[Origin]))
    /\ UNCHANGED <<mtm, tm, pxact, wal, applied, msgs, link, referee, failed>>

\* the rest of MtmTwoPhaseCommit and the end of the command: a suspended
\* transaction stays prepared, any other is finished and logged
FinishPrepared ==
    LET commit == x[Origin].status # "ABORTED"
        out    == MtmEndTransaction(x[Origin], ts[Origin], tm[Origin], mtm[Origin], Origin, commit)
    IN  /\ pc[Origin] = "decided"
        /\ pc' = [pc EXCEPT ![Origin] = "done"]
        /\ x' = [x EXCEPT ![Origin] = MtmResetTransaction(@)]
        /\ IF x[Origin].isSuspended
           THEN UNCHANGED <<ts, pxact, wal>>
           ELSE /\ ts' = [ts EXCEPT ![Origin] = out.ts]
                /\ pxact' = [pxact EXCEPT ![Origin] = IF commit THEN "committed" ELSE "aborted"]
                /\ wal' = Append(wal, Rec(IF commit THEN "COMMIT_PREPARED" ELSE "ABORT_PREPARED", {}))
        /\ UNCHANGED <<mtm, tm, applied, msgs, link, referee, failed>>

MtmPreCommitPreparedTransaction_KeepsVotes(t) == [t EXCEPT !.votingCompleted = FALSE]

\* the second round begins: the votes of the first are forgotten
MtmPreCommitPreparedTransaction(t) == [t EXCEPT !.votingCompleted = FALSE, !.votedMask = {}]

\* what MtmTx holds when the command that finishes a prepared transaction
\* by its name reaches its callback: MtmBeginTransaction, then the name
\* from MtmProcessUtility
NamedTx == [FreshTx EXCEPT !.isDistributed = TRUE, !.status = "IN_PROGRESS",
                           !.snapshot = TRUE, !.gid = TRUE]

\* COMMIT PREPARED of the user.  A node that is not online refuses the
\* command (MtmBeginTransaction) and the transaction stays prepared.
\* XACT_EVENT_PRE_COMMIT_PREPARED marks the transaction precommitted and
\* asks for the second round of votes; a local transaction needs none.
CommitPreparedCommand ==
    /\ pc[Origin] = "held"
    /\ mtm[Origin].status = "MTM_ONLINE"
    /\ IF ts[Origin].isLocal
       THEN /\ ts' = [ts EXCEPT ![Origin].status = "UNKNOWN"]
            /\ x' = [x EXCEPT ![Origin] = [NamedTx EXCEPT !.isPrepared = TRUE]]
            /\ pc' = [pc EXCEPT ![Origin] = "finishing"]
            /\ UNCHANGED <<pxact, wal>>
       ELSE /\ ts' = [ts EXCEPT ![Origin] = MtmPreCommitPreparedTransaction(@)]
            /\ x' = [x EXCEPT ![Origin] = NamedTx]
            /\ pxact' = [pxact EXCEPT ![Origin] = "precommitted"]
            /\ wal' = Append(wal, Rec("PRECOMMIT", {}))
            /\ pc' = [pc EXCEPT ![Origin] = "confirming"]
    /\ UNCHANGED <<mtm, tm, applied, msgs, link, referee, failed>>

\* The engine finishes the transaction COMMIT PREPARED names: the callback
\* has returned, the transaction is committed and logged, and
\* XACT_EVENT_COMMIT ends the command.
FinishCommitPrepared ==
    LET out == MtmEndTransaction(x[Origin], ts[Origin], tm[Origin], mtm[Origin], Origin, TRUE) IN
    /\ pc[Origin] = "finishing"
    /\ pxact' = [pxact EXCEPT ![Origin] = "committed"]
    /\ wal' = Append(wal, Rec("COMMIT_PREPARED", {}))
    /\ ts' = [ts EXCEPT ![Origin] = out.ts]
    /\ x' = [x EXCEPT ![Origin] = MtmResetTransaction(@)]
    /\ pc' = [pc EXCEPT ![Origin] = "done"]
    /\ UNCHANGED <<mtm, tm, applied, msgs, link, referee, failed>>

\* ROLLBACK PREPARED of the user, refused like COMMIT PREPARED by a node
\* that is not online: XACT_EVENT_ABORT_PREPARED, and the engine rolls the
\* transaction back and logs it
RollbackPreparedCommand ==
    LET ab == MtmAbortPreparedTransaction(NamedTx, ts[Origin], tm[Origin]) IN
    /\ pc[Origin] = "held"
    /\ mtm[Origin].status = "MTM_ONLINE"
    /\ ts' = [ts EXCEPT ![Origin] = ab.ts]
    /\ pxact' = [pxact EXCEPT ![Origin] = "aborted"]
    /\ wal' = Append(wal, Rec("ABORT_PREPARED", {}))
    /\ x' = [x EXCEPT ![Origin] = MtmResetTransaction(ab.x)]
    /\ pc' = [pc EXCEPT ![Origin] = "done"]
    /\ UNCHANGED <<mtm, tm, applied, msgs, link, referee, failed>>

\* the arbiter of the origin takes an answer of a participant: a vote
\* counts in the round it belongs to
Arbiter(msg) ==
    LET t == ts[Origin] IN
    /\ link /\ msg \in msgs
    /\ msgs' = msgs \ {msg}
    /\ ts' = [ts EXCEPT ![Origin] =
                 IF t = NoTs THEN t
                 ELSE IF msg.code = "MSG_ABORTED"
                 THEN MtmWakeUpBackend(MtmAbortTransaction(t))
                 ELSE IF t.status = "IN_PROGRESS"
                         /\ t.isPrepared = (msg.code = "MSG_PRECOMMITTED")
                 THEN [t EXCEPT !.votedMask = @ \cup {msg.node}]
                 ELSE t]
    /\ UNCHANGED <<mtm, tm, x, pc, pxact, wal, applied, link, referee, failed>>

-----------------------------------------------------------------------------
(* The apply worker of a participant and the records of the origin *)

\* the record of the origin that p takes next
Next1(p, type) ==
    /\ link
    /\ applied[p] < Len(wal)
    /\ wal[applied[p] + 1].type = type
    /\ applied' = [applied EXCEPT ![p] = @ + 1]

\* the worker gives up: XACT_EVENT_ABORT tells the coordinator
Abandon(p) ==
    LET out == MtmEndTransaction(x[p], ts[p], tm[p], mtm[p], p, FALSE) IN
    /\ ts' = [ts EXCEPT ![p] = out.ts]
    /\ msgs' = msgs \cup out.sent
    /\ x' = [x EXCEPT ![p] = MtmResetTransaction(@)]
    /\ pc' = [pc EXCEPT ![p] = "done"]

\* a worker begins to apply the transaction; a transaction a live node
\* takes no part in is ignored
MtmJoinTransaction(p) ==
    LET xx == [FreshTx EXCEPT !.status = "IN_PROGRESS", !.gtid = TRUE,
                   !.isReplicated = TRUE, !.isDistributed = TRUE, !.snapshot = TRUE]
        participantsMask == wal[applied[p] + 1].participantsMask \cup {Origin}
    IN  /\ pc[p] = "idle"
        /\ Next1(p, "PREPARE")
        /\ IF (Nodes \ mtm[p].disabledNodeMask) \ participantsMask # {}
           THEN LET out == MtmEndTransaction(xx, ts[p], tm[p], mtm[p], p, FALSE) IN
                /\ ts' = [ts EXCEPT ![p] = out.ts]
                /\ msgs' = msgs \cup out.sent
                /\ pc' = [pc EXCEPT ![p] = "done"]
                /\ UNCHANGED x
           ELSE /\ x' = [x EXCEPT ![p] = xx]
                /\ ts' = [ts EXCEPT ![p] =
                             IF mtm[p].status = "MTM_RECOVERY" THEN @
                             ELSE MtmActivateTransaction(MtmCreateTransState(@, xx, p))]
                /\ pc' = [pc EXCEPT ![p] = "joined"]
                /\ UNCHANGED msgs
        /\ UNCHANGED <<mtm, tm, pxact, wal, link, referee, failed>>

\* the changes of the transaction fail at p
ApplyError(p) ==
    /\ pc[p] = "joined"
    /\ "apply" \in Faults \ failed
    /\ failed' = failed \cup {"apply"}
    /\ Abandon(p)
    /\ UNCHANGED <<mtm, tm, pxact, wal, applied, link, referee>>

\* the worker reaches the PREPARE of the origin and looks the name up: a
\* transaction whose abort came first is not prepared
ExchangeOnPrepare(p) ==
    LET r == MtmExchangeGlobalTransactionStatus(tm[p], "IN_PROGRESS") IN
    /\ pc[p] = "joined"
    /\ tm' = [tm EXCEPT ![p] = r.tm]
    /\ IF r.old = "ABORTED"
       THEN /\ Abandon(p)
       ELSE /\ x' = [x EXCEPT ![p] = MtmSetCurrentTransactionGID(@)]
            /\ pc' = [pc EXCEPT ![p] = "exchanged"]
            /\ UNCHANGED <<ts, msgs>>
    /\ UNCHANGED <<mtm, pxact, wal, applied, link, referee, failed>>

AlreadyAborted_Never(e) == FALSE

\* the entry of MtmGid2State says that the transaction was aborted
AlreadyAborted(e) == e # NoTm /\ e.status # "IN_PROGRESS"

\* XACT_EVENT_PRE_PREPARE in the worker
PrePrepare(p) ==
    LET r == MtmPrePrepareTransaction(p, x[p]) IN
    /\ pc[p] = "exchanged"
    /\ IF Origin \in mtm[p].disabledNodeMask \/ AlreadyAborted(tm[p])
       THEN /\ Abandon(p)
            /\ UNCHANGED tm
       ELSE /\ ts' = [ts EXCEPT ![p] = r.ts]
            /\ tm' = [tm EXCEPT ![p] = r.tm]
            /\ x' = [x EXCEPT ![p] = r.x]
            /\ pc' = [pc EXCEPT ![p] = "preparing"]
            /\ UNCHANGED msgs
    /\ UNCHANGED <<mtm, pxact, wal, applied, link, referee, failed>>

\* the engine prepares, and XACT_EVENT_POST_PREPARE votes
MtmPostPrepareTransaction(p) ==
    LET recovery == mtm[p].status = "MTM_RECOVERY"
        voted    == [ts[p] EXCEPT !.votingCompleted = TRUE,
                        !.status = IF recovery \/ ~MtmUseDtm THEN "UNKNOWN" ELSE @]
    IN  /\ pc[p] = "preparing"
        /\ pxact' = [pxact EXCEPT ![p] = "prepared"]
        /\ ts' = [ts EXCEPT ![p] = voted]
        /\ msgs' = msgs \cup IF recovery THEN {}
                             ELSE MtmSend2PCMessage(mtm[p], voted, "MSG_PREPARED", p)
        /\ x' = [x EXCEPT ![p] = MtmResetTransaction(@)]
        /\ pc' = [pc EXCEPT ![p] = "prepared"]
        /\ UNCHANGED <<mtm, tm, wal, applied, link, referee, failed>>

\* after the prepare the worker looks the name up again and rolls back a
\* transaction whose abort has arrived in between
ExchangeAfterPrepare(p) ==
    LET r   == MtmExchangeGlobalTransactionStatus(tm[p], "UNKNOWN")
        fin == MtmFinishPreparedTransaction(ts[p], r.tm, pxact[p], mtm[p], p, FALSE)
    IN  /\ pc[p] = "prepared"
        /\ tm' = [tm EXCEPT ![p] = r.tm]
        /\ pc' = [pc EXCEPT ![p] = "done"]
        /\ IF r.old = "ABORTED"
           THEN ts' = [ts EXCEPT ![p] = fin.ts] /\ pxact' = [pxact EXCEPT ![p] = fin.pxact]
           ELSE UNCHANGED <<ts, pxact>>
        /\ UNCHANGED <<mtm, x, wal, applied, msgs, link, referee, failed>>

\* the PRECOMMIT of the origin
MtmPrecommitTransaction(p) ==
    LET t  == [ts[p] EXCEPT !.status = "UNKNOWN"] IN
    /\ Next1(p, "PRECOMMIT")
    /\ IF tm[p] # NoTm /\ tm[p].state /\ ts[p].status = "IN_PROGRESS"
       THEN /\ ts' = [ts EXCEPT ![p] = t]
            /\ pxact' = [pxact EXCEPT ![p] = IF @ = "prepared" THEN "precommitted" ELSE @]
            /\ msgs' = msgs \cup IF mtm[p].status = "MTM_RECOVERY" THEN {}
                                 ELSE MtmSend2PCMessage(mtm[p], t, "MSG_PRECOMMITTED", p)
       ELSE UNCHANGED <<ts, pxact, msgs>>
    /\ UNCHANGED <<mtm, tm, x, pc, wal, link, referee, failed>>

\* the COMMIT PREPARED of the origin
CommitPrepared(p) ==
    LET fin == MtmFinishPreparedTransaction(ts[p], tm[p], pxact[p], mtm[p], p, TRUE) IN
    /\ Next1(p, "COMMIT_PREPARED")
    /\ ts' = [ts EXCEPT ![p] = fin.ts]
    /\ pxact' = [pxact EXCEPT ![p] = fin.pxact]
    /\ UNCHANGED <<mtm, tm, x, pc, wal, msgs, link, referee, failed>>

\* the ROLLBACK PREPARED of the origin: the abort is remembered under the
\* name, and a transaction that is prepared is rolled back
MtmRollbackPreparedTransaction(p) ==
    LET r   == MtmExchangeGlobalTransactionStatus(tm[p], "ABORTED")
        fin == MtmFinishPreparedTransaction(ts[p], r.tm, pxact[p], mtm[p], p, FALSE)
    IN  /\ Next1(p, "ABORT_PREPARED")
        /\ tm' = [tm EXCEPT ![p] = r.tm]
        /\ IF r.old = "UNKNOWN" \/ (r.old = "IN_PROGRESS" /\ Prepared(pxact[p]))
           THEN ts' = [ts EXCEPT ![p] = fin.ts] /\ pxact' = [pxact EXCEPT ![p] = fin.pxact]
           ELSE UNCHANGED <<ts, pxact>>
        /\ UNCHANGED <<mtm, x, pc, wal, msgs, link, referee, failed>>

-----------------------------------------------------------------------------
(* The specification *)

Init ==
    /\ mtm = [n \in Nodes |-> [status |-> "MTM_ONLINE", disabledNodeMask |-> {},
                               connectivityMask |-> {}, nConfigChanges |-> 0,
                               refereeGrant |-> FALSE]]
    /\ ts = [n \in Nodes |-> NoTs]
    /\ tm = [n \in Nodes |-> NoTm]
    /\ x = [n \in Nodes |-> FreshTx]
    /\ pc = [n \in Nodes |-> "idle"]
    /\ pxact = [n \in Nodes |-> "none"]
    /\ wal = <<>>
    /\ applied = [n \in Workers |-> 0]
    /\ msgs = {}
    /\ link = TRUE
    /\ referee = NoNode
    /\ failed = {}

\* the steps a backend takes by itself once the user has sent a command
Backend ==
    \/ MtmBeginTransaction \/ MtmTwoPhaseCommit \/ PrepareTransaction
    \/ Mtm2PCVoting \/ FinishPrepared \/ FinishCommitPrepared

\* the commands the user may send for a transaction it holds prepared
User == CommitPreparedCommand \/ RollbackPreparedCommand

Worker(p) ==
    \/ MtmJoinTransaction(p) \/ ExchangeOnPrepare(p) \/ PrePrepare(p)
    \/ MtmPostPrepareTransaction(p) \/ ExchangeAfterPrepare(p)

Receiver(p) ==
    MtmPrecommitTransaction(p) \/ CommitPrepared(p) \/ MtmRollbackPreparedTransaction(p)

Next ==
    \/ Backend
    \/ User
    \/ Timeout2PC
    \/ \E msg \in msgs : Arbiter(msg)
    \/ \E p \in Workers : Worker(p) \/ Receiver(p) \/ ApplyError(p)
    \/ \E n \in Nodes : \E i \in Nodes : MtmOnNodeDisconnect(n, i)
    \/ \E n \in Nodes : MtmRefreshClusterStatus(n)
    \/ LinkDown

\* Every process runs when it can: the backend and the workers are
\* scheduled, the arbiter reads its socket, a missing heartbeat is noticed.
\* The deadline of Mtm2PCVoting is not needed for progress, and faults are
\* never bound to happen.  Nothing is assumed of the user: a transaction
\* prepared by name may stay prepared.
Fairness ==
    /\ WF_vars(Backend)
    /\ WF_vars(\E msg \in msgs : Arbiter(msg))
    /\ \A p \in Workers : WF_vars(Worker(p)) /\ WF_vars(Receiver(p))
    /\ \A n \in Nodes : WF_vars(\E i \in Nodes : MtmOnNodeDisconnect(n, i))

Spec == Init /\ [][Next]_vars /\ Fairness

-----------------------------------------------------------------------------
(* Properties *)

PC == {"idle", "running", "voting", "decided", "held", "confirming", "finishing",
       "joined", "exchanged", "preparing", "prepared", "done"}

TransState ==
    [status : XidStatus, isLocal : BOOLEAN, isPrepared : BOOLEAN, isTwoPhase : BOOLEAN,
     votingCompleted : BOOLEAN, isActive : BOOLEAN, node : Nodes,
     participantsMask : SUBSET Nodes, votedMask : SUBSET Nodes,
     nConfigChanges : 0..MaxConfigChanges]

TypeOK ==
    /\ mtm \in [Nodes -> [status : Status, disabledNodeMask : SUBSET Nodes,
                          connectivityMask : SUBSET Nodes,
                          nConfigChanges : 0..MaxConfigChanges, refereeGrant : BOOLEAN]]
    /\ ts \in [Nodes -> TransState \cup {NoTs}]
    /\ tm \in [Nodes -> [status : XidStatus, state : BOOLEAN] \cup {NoTm}]
    /\ x \in [Nodes -> [status : XidStatus, isDistributed : BOOLEAN, isReplicated : BOOLEAN,
                        isPrepared : BOOLEAN, isSuspended : BOOLEAN,
                        isTwoPhase : BOOLEAN, gid : BOOLEAN,
                        gtid : BOOLEAN, snapshot : BOOLEAN]]
    /\ pc \in [Nodes -> PC]
    /\ pxact \in [Nodes -> {"none", "prepared", "precommitted", "committed", "aborted"}]
    /\ wal \in Seq([type : Record, participantsMask : SUBSET Nodes])
    /\ applied \in [Workers -> 0..Len(wal)]
    /\ msgs \subseteq [code : MtmMessageCode, node : Workers]
    /\ link \in BOOLEAN
    /\ referee \in Nodes \cup {NoNode}
    /\ failed \subseteq Faults

Split == \E a, b \in Nodes : pxact[a] = "committed" /\ pxact[b] = "aborted"

\* The promise of the commit protocol, and of the comment in
\* MtmVotingCompleted ("We can not just abort precommitted transactions"):
\* the transaction is never committed on one node and rolled back on another.
Atomicity == ~Split

Granted == \E n \in Nodes : mtm[n].refereeGrant

\* COMMIT PREPARED of the user has committed a transaction the coordinator's
\* own state calls aborted
Overruled ==
    /\ ts[Origin] # NoTs /\ ts[Origin].isTwoPhase
    /\ ts[Origin].status = "ABORTED" /\ pxact[Origin] = "committed"

\* As long as no node works on the referee's grant and no COMMIT PREPARED
\* has overruled the coordinator, the transaction is not committed on one
\* node and rolled back on another: the coordinator decides to commit only
\* after every participant it counted on has precommitted, in the round of
\* votes that follows the precommit (MtmVotingCompleted,
\* MtmPreCommitPreparedTransaction), and with the configuration it had at
\* the prepare (the recheck of nConfigChanges), and a node that loses the
\* coordinator rolls back by itself only what cannot have been committed.
AtomicUnlessGrantedOrOverruled ==
    ~Granted /\ ~Overruled => ~Split

\* What the recheck of nConfigChanges in MtmPreCommitPreparedTransaction and
\* its warning ("Abort transaction ... because cluster configuration is
\* changed") promise: a transaction of the user whose PREPARE TRANSACTION
\* got the vote of every participant is not committed by COMMIT PREPARED on
\* the coordinator and rolled back on a participant.
CommitPreparedIsAtomic ==
    ~Granted /\ ts[Origin] # NoTs /\ ts[Origin].isTwoPhase /\ ts[Origin].isPrepared => ~Split

\* A participant that has precommitted rolls the transaction back only on
\* the ROLLBACK PREPARED of the coordinator: losing the coordinator
\* (MtmPollStatusOfPreparedTransactionsForDisabledNode, called by
\* MtmDisableNode and under the referee's grant) never aborts what the
\* coordinator may have committed.
PrecommittedNeverAbortsAlone ==
    [][\A p \in Workers :
          pxact[p] = "precommitted" /\ pxact'[p] = "aborted" =>
              \E i \in 1..applied'[p] : wal[i].type = "ABORT_PREPARED"]_vars

\* An abort is never forgotten, in whatever order the worker that prepares
\* and the ROLLBACK PREPARED of the coordinator run: once a participant has
\* taken the rollback and its worker is through, nothing is left prepared
\* (the lookups of MtmExchangeGlobalTransactionStatus before and after the
\* prepare, and the test of the map entry in MtmPrePrepareTransaction).
AbortIsApplied ==
    \A p \in Workers :
        /\ pc[p] = "done"
        /\ \E i \in 1..applied[p] : wal[i].type = "ABORT_PREPARED"
        => ~Prepared(pxact[p])

\* The backend does not wait in Mtm2PCVoting for ever, even without its
\* deadline (which does not end the wait for a precommitted transaction),
\* in either round of votes: every participant votes, reports its failure
\* (MtmSend2PCMessage from MtmEndTransaction), or is disabled when its
\* heartbeats stop.  The command ends, and leaves the transaction finished
\* or, after PREPARE TRANSACTION, prepared.
VotingEnds == (pc[Origin] \in {"voting", "confirming"}) ~> (pc[Origin] \in {"held", "done"})
=============================================================================
