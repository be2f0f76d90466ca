----------------------------- MODULE NodeState -----------------------------
(***************************************************************************)
(* The node status machine of src/state.c and the parts of                 *)
(* src/multimaster.c that drive it: every node keeps in shared memory      *)
(* (MtmState) its status, the masks of disabled and unreachable nodes,     *)
(* the clique, the masks of running WAL receivers and senders, and what    *)
(* the referee told it.  Handlers run under MtmLock and end with           *)
(* MtmCheckState; the monitor's MtmRefreshClusterStatus talks to the       *)
(* referee and looks for a clique between its locked sections.             *)
(*                                                                         *)
(* A bit mask of the code is the set of the nodes whose bit is 1.  The     *)
(* counters nConfigChanges, timeline, nLiveNodes and the masks             *)
(* reconnectMask and recoveredNodeMask are written here and read only by   *)
(* the commit path and the arbiter: they are left out.  recoveryCount is   *)
(* kept as the set of receivers that have not yet seen its last value,     *)
(* and lastHeartbeat is left to the arbiter: a broken connection is        *)
(* reported whether or not a heartbeat was seen before.  No node is        *)
(* stopped, declared dead or stalled: mtm.stop_node and mtm.referee_poll  *)
(* are SQL functions nobody calls here and no slot is dropped for lagging  *)
(* (MtmDropSlot), so stoppedNodeMask and deadNodeMask keep the value       *)
(* MtmInitialize gives them and the sender's ERRORs for a stopped or a     *)
(* stalled node are never raised.  The commit path is not here either: a   *)
(* sender that is through the WAL may say so at any time, where the code   *)
(* also waits for nActiveTransactions = 0, and the load and the polls of   *)
(* prepared transactions are left to the modules of the commit path.       *)
(*                                                                         *)
(* The arbiter, the WAL receiver and the referee's SQL functions are not   *)
(* in this repository.  What is assumed of them: the arbiter reports a     *)
(* peer only after its own receiver has started; a heartbeat carries the   *)
(* sender's own connectivity mask, however old; replication connections    *)
(* do not survive an outage of the link; a crashed node may be back before *)
(* its peers notice (the comment in MtmStateProcessNeighborEvent says so); *)
(* MtmFindMaxClique returns, of several largest cliques, the one of the    *)
(* lowest nodes; referee.get_winner keeps the first node that asked.       *)
(***************************************************************************)
EXTENDS Integers, FiniteSets, Sequences

LOCAL INSTANCE SequencesExt

CONSTANTS
    NNodes,          \* Mtm->nAllNodes
    MajorNodes,      \* the nodes started with multimaster.major_node
    UseReferee,      \* multimaster.referee_connstring is set
    donorNodeId,     \* donorNodeId[n]: Mtm->donorNodeId of n, from its control file
    ColdFaults,      \* bound: the faults that strike a cluster after a cold start
    SteadyFaults     \* bound: the faults that strike a cluster that was running

ASSUME /\ NNodes \in Nat \ {0}
       /\ MajorNodes \subseteq 1..NNodes
       /\ UseReferee \in BOOLEAN
       /\ donorNodeId \in [1..NNodes -> 1..NNodes]

\* a link goes down, a node crashes, a call of the referee fails
FaultKind == {"link", "crash", "referee"}

\* how many faults strike, and of which kinds
FaultBudget == [left : Nat, kinds : SUBSET FaultKind]

ASSUME ColdFaults \in FaultBudget /\ SteadyFaults \in FaultBudget

VARIABLES
    mtm,          \* mtm[n]: the MtmState of node n
    monitor,      \* monitor[n]: where n's monitor is in MtmRefreshClusterStatus
    recv,         \* recv[n][i]: node n's WAL receiver from node i
    referee,      \* the winner the referee holds, NoNode if none
    saved,        \* saved[n]: the row of mtm.referee_decision at n
    initialized,  \* mtm_state_initialized of n's monitor
    link,         \* the pairs of nodes that can talk to each other
    faults        \* the faults that may still strike, a FaultBudget

vars == <<mtm, monitor, recv, referee, saved, initialized, link, faults>>

Nodes  == 1..NNodes
NoNode == 0
Pairs  == {p \in SUBSET Nodes : Cardinality(p) = 2}
Connected(n, i) == {n, i} \in link

\* MtmNodeStatus, in the order the code compares them
Status == {"MTM_DISABLED", "MTM_RECOVERY", "MTM_RECOVERED", "MTM_ONLINE"}

\* src/state.h
MtmNeighborEvent == {"MTM_NEIGHBOR_CLIQUE_DISABLE", "MTM_NEIGHBOR_WAL_RECEIVER_START",
                     "MTM_NEIGHBOR_WAL_SENDER_START_RECOVERY",
                     "MTM_NEIGHBOR_WAL_SENDER_START_RECOVERED",
                     "MTM_NEIGHBOR_RECOVERY_CAUGHTUP"}
MtmEvent == {"MTM_REMOTE_DISABLE", "MTM_CLIQUE_DISABLE", "MTM_CLIQUE_MINORITY",
             "MTM_ARBITER_RECEIVER_START", "MTM_RECOVERY_START1", "MTM_RECOVERY_START2",
             "MTM_RECOVERY_FINISH1", "MTM_RECOVERY_FINISH2", "MTM_NONRECOVERABLE_ERROR"}

-----------------------------------------------------------------------------
(* Shared memory and the handlers, as functions from MtmState to MtmState *)

MtmInitialize ==
    [status                |-> "MTM_DISABLED",
     disabledNodeMask      |-> Nodes,
     connectivityMask      |-> [i \in Nodes |-> Nodes],
     clique                |-> {},
     refereeGrant          |-> FALSE,
     refereeWinnerId       |-> NoNode,
     stoppedNodeMask       |-> {},
     deadNodeMask          |-> {},
     pglogicalReceiverMask |-> {},
     pglogicalSenderMask   |-> {},
     originLockNodeMask    |-> {},
     recoverySlot          |-> NoNode,
     recoveryCount         |-> {}]     \* the receivers that must restart

\* the receivers of node me, one for every other node
Receivers(me) == Nodes \ {me}

countZeroBits(mask) == NNodes - Cardinality(mask)

SELF_CONNECTIVITY_MASK(m, me) == m.connectivityMask[me]

EFFECTIVE_CONNECTIVITY_MASK(m, me) ==
    SELF_CONNECTIVITY_MASK(m, me) \cup m.stoppedNodeMask \cup (Nodes \ m.clique)

\* mutant: every receiver slot of the array is told to restart, the node's own too
MtmSetClusterStatus_AllNodes(m, me, status) ==
    IF m.status = status THEN m
    ELSE IF status = "MTM_DISABLED"
         THEN [m EXCEPT !.status = status, !.recoverySlot = NoNode,
                        !.pglogicalReceiverMask = {}, !.pglogicalSenderMask = {},
                        !.recoveryCount = Nodes]
         ELSE [m EXCEPT !.status = status]

\* mutant: the recovery slot is given up and the receivers are not told
MtmSetClusterStatus_NoNewRound(m, me, status) ==
    IF m.status = status THEN m
    ELSE IF status = "MTM_DISABLED"
         THEN [m EXCEPT !.status = status, !.recoverySlot = NoNode,
                        !.pglogicalReceiverMask = {}, !.pglogicalSenderMask = {}]
         ELSE [m EXCEPT !.status = status]

MtmSetClusterStatus(m, me, status) ==
    IF m.status = status THEN m
    ELSE IF status = "MTM_DISABLED"
         THEN [m EXCEPT !.status = status, !.recoverySlot = NoNode,
                        !.pglogicalReceiverMask = {}, !.pglogicalSenderMask = {},
                        !.recoveryCount = Receivers(me)]
         ELSE [m EXCEPT !.status = status]

\* the poll of prepared transactions it starts when ONLINE is the commit path's
MtmDisableNode(m, nodeId) ==
    [m EXCEPT !.disabledNodeMask = @ \cup {nodeId}]

MtmEnableNode(m, nodeId) ==
    IF nodeId \in m.disabledNodeMask
    THEN [m EXCEPT !.disabledNodeMask = @ \ {nodeId}]
    ELSE m

isEnabledState(m, me) ==
    LET nConnected == countZeroBits(SELF_CONNECTIVITY_MASK(m, me))
    IN  /\ \/ nConnected >= NNodes \div 2 + 1
           \/ nConnected = NNodes \div 2 /\ me \in MajorNodes
           \/ nConnected = NNodes \div 2 /\ m.refereeGrant
        /\ me \in m.clique \/ m.refereeGrant
        /\ me \notin m.stoppedNodeMask

AllStarted(m, me) ==
    LET nEnabled == countZeroBits(m.disabledNodeMask)
    IN  /\ Cardinality(m.pglogicalReceiverMask) = nEnabled - 1
        /\ Cardinality(m.pglogicalSenderMask) = nEnabled - 1
        /\ nEnabled = countZeroBits(SELF_CONNECTIVITY_MASK(m, me))

RECURSIVE MtmCheckState(_, _)
MtmCheckState(m, me) ==
    IF ~isEnabledState(m, me)
    THEN MtmDisableNode(MtmSetClusterStatus(m, me, "MTM_DISABLED"), me)
    ELSE CASE m.status = "MTM_DISABLED" ->
                MtmCheckState(MtmSetClusterStatus(m, me, "MTM_RECOVERY"), me)
           [] m.status = "MTM_RECOVERY" /\ me \notin m.disabledNodeMask ->
                MtmCheckState(MtmSetClusterStatus(
                    [m EXCEPT !.originLockNodeMask = @ \cup {me}], me, "MTM_RECOVERED"), me)
           [] m.status = "MTM_RECOVERED" /\ AllStarted(m, me) ->
                MtmCheckState(MtmSetClusterStatus(
                    [m EXCEPT !.originLockNodeMask = @ \ {me}], me, "MTM_ONLINE"), me)
           [] OTHER -> m

\* mutant: the started sender enables this node, not the node it serves
MtmStateProcessNeighborEvent_EnablesSelf(m, me, node_id, ev) ==
    MtmCheckState(
        CASE ev = "MTM_NEIGHBOR_CLIQUE_DISABLE" -> MtmDisableNode(m, node_id)
          [] ev = "MTM_NEIGHBOR_WAL_RECEIVER_START" ->
                [m EXCEPT !.pglogicalReceiverMask = @ \cup {node_id},
                          !.originLockNodeMask = @ \ {me}]
          [] ev = "MTM_NEIGHBOR_WAL_SENDER_START_RECOVERY" ->
                [m EXCEPT !.disabledNodeMask = @ \cup {node_id}]
          [] ev = "MTM_NEIGHBOR_WAL_SENDER_START_RECOVERED" ->
                MtmEnableNode([m EXCEPT !.pglogicalSenderMask = @ \cup {node_id}], me)
          [] ev = "MTM_NEIGHBOR_RECOVERY_CAUGHTUP" ->
                MtmEnableNode([m EXCEPT !.originLockNodeMask = @ \ {node_id}], node_id),
        me)

MtmStateProcessNeighborEvent(m, me, node_id, ev) ==
    MtmCheckState(
        CASE ev = "MTM_NEIGHBOR_CLIQUE_DISABLE" -> MtmDisableNode(m, node_id)
          [] ev = "MTM_NEIGHBOR_WAL_RECEIVER_START" ->
                [m EXCEPT !.pglogicalReceiverMask = @ \cup {node_id},
                          !.originLockNodeMask = @ \ {me}]
          [] ev = "MTM_NEIGHBOR_WAL_SENDER_START_RECOVERY" ->
                [m EXCEPT !.disabledNodeMask = @ \cup {node_id}]
          [] ev = "MTM_NEIGHBOR_WAL_SENDER_START_RECOVERED" ->
                MtmEnableNode([m EXCEPT !.pglogicalSenderMask = @ \cup {node_id}], node_id)
          [] ev = "MTM_NEIGHBOR_RECOVERY_CAUGHTUP" ->
                MtmEnableNode([m EXCEPT !.originLockNodeMask = @ \ {node_id}], node_id),
        me)

ConnectedTo(m, me, nodeId) ==
    MtmCheckState([m EXCEPT !.connectivityMask[me] = @ \ {nodeId}], me)

MtmStateProcessEvent(m, me, ev) ==
    MtmCheckState(
        CASE ev = "MTM_CLIQUE_DISABLE" ->
                [m EXCEPT !.disabledNodeMask = @ \cup {me}, !.recoveryCount = Receivers(me)]
          [] ev = "MTM_ARBITER_RECEIVER_START" -> ConnectedTo(m, me, me)
          [] ev \in {"MTM_RECOVERY_FINISH1", "MTM_RECOVERY_FINISH2"} ->
                [MtmEnableNode(m, me) EXCEPT !.recoveryCount = Receivers(me),
                                             !.recoverySlot = NoNode]
          [] OTHER -> m,
        me)

\* mutant: the masks are changed and the status is not looked at again
DisconnectedFrom_NoCheck(m, me, nodeId) ==
    [MtmDisableNode(m, nodeId) EXCEPT !.connectivityMask[me] = @ \cup {nodeId}]

DisconnectedFrom(m, me, nodeId) ==
    MtmCheckState([MtmDisableNode(m, nodeId) EXCEPT !.connectivityMask[me] = @ \cup {nodeId}],
                  me)

-----------------------------------------------------------------------------
(* The clique *)

\* the row of node i before the matrix is made symmetric
Unreachable(m, i) == m.connectivityMask[i] \cup m.deadNodeMask

\* i and j see each other, in the matrix MtmBuildConnectivityMatrix makes symmetric
Edge(m, i, j) == j \notin Unreachable(m, i) /\ i \notin Unreachable(m, j)

MtmBuildConnectivityMatrix(m) ==
    [i \in Nodes |-> {j \in Nodes \ {i} : ~Edge(m, i, j)}]

\* a node mask as the number the code holds
MaskValue(mask) == FoldLeft(LAMBDA acc, i : IF i \in mask THEN acc + 2^(i-1) ELSE acc,
                            0, [i \in 1..NNodes |-> i])

\* Bron-Kerbosch: a largest set of nodes that all see each other, and of
\* several largest ones the one found first, that of the lowest nodes
MtmFindMaxClique(matrix) ==
    LET IsClique(c) == \A i, j \in c : i # j => j \notin matrix[i]
        cliques     == {c \in SUBSET Nodes : IsClique(c)}
        largest     == {c \in cliques : \A d \in cliques : Cardinality(d) <= Cardinality(c)}
    IN  CHOOSE c \in largest : \A d \in largest : MaskValue(c) <= MaskValue(d)

\* the locked end of MtmRefreshClusterStatus
ApplyClique(m, me, newClique) ==
    LET withClique == [m EXCEPT !.clique = newClique]
        Disable(acc, i) ==
            IF i \in newClique \/ i \in acc.disabledNodeMask THEN acc
            ELSE IF i = me
                 THEN MtmStateProcessEvent(acc, me, "MTM_CLIQUE_DISABLE")
                 ELSE MtmStateProcessNeighborEvent(acc, me, i, "MTM_NEIGHBOR_CLIQUE_DISABLE")
    IN  IF withClique.refereeGrant THEN withClique
        ELSE MtmCheckState(FoldLeft(Disable, withClique, [i \in 1..NNodes |-> i]), me)

\* the test of the winner's bit, made without the lock and again with it:
\* the grant is for a node that sees the winner, the winner itself included
SeesWinner(m, me, winner) == winner \notin SELF_CONNECTIVITY_MASK(m, me)

\* mutant: the recheck under the lock trusts the test made before it
TakeGrant_NoRecheck(m, me, winner) ==
    MtmCheckState(MtmEnableNode([m EXCEPT !.refereeGrant = TRUE], me), me)

\* the locked block that takes the referee's grant, after the recheck
TakeGrant(m, me, winner) ==
    IF /\ countZeroBits(SELF_CONNECTIVITY_MASK(m, me)) = NNodes \div 2
       /\ SeesWinner(m, me, winner)
    THEN MtmCheckState(MtmEnableNode([m EXCEPT !.refereeGrant = TRUE], me), me)
    ELSE m

-----------------------------------------------------------------------------
(* The arbiter: connections and heartbeats *)

Locked(n, m) == mtm' = [mtm EXCEPT ![n] = m]

\* MTM_ARBITER_RECEIVER_START, raised once when the arbiter of n starts
ArbiterReceiverStart(n) ==
    /\ n \in SELF_CONNECTIVITY_MASK(mtm[n], n)
    /\ Locked(n, MtmStateProcessEvent(mtm[n], n, "MTM_ARBITER_RECEIVER_START"))
    /\ UNCHANGED <<monitor, recv, referee, saved, initialized, link, faults>>

\* the arbiter of n, once started, has a connection to nodeId again
MtmOnNodeConnect(n, nodeId) ==
    /\ nodeId # n /\ Connected(n, nodeId)
    /\ n \notin SELF_CONNECTIVITY_MASK(mtm[n], n)
    /\ nodeId \in SELF_CONNECTIVITY_MASK(mtm[n], n)
    /\ Locked(n, ConnectedTo(mtm[n], n, nodeId))
    /\ UNCHANGED <<monitor, recv, referee, saved, initialized, link, faults>>

\* a heartbeat of node i arrives at n with i's connectivity mask
Heartbeat(n, i) ==
    LET m == [mtm[n] EXCEPT !.connectivityMask[i] = SELF_CONNECTIVITY_MASK(mtm[i], i)]
    IN  /\ i # n /\ Connected(n, i)
        /\ i \notin SELF_CONNECTIVITY_MASK(mtm[n], n)
        /\ m # mtm[n]
        /\ Locked(n, m)
        /\ UNCHANGED <<monitor, recv, referee, saved, initialized, link, faults>>

\* the arbiter lost its connection to nodeId.  The bit is tested before the
\* lock is taken; of the handlers only this one sets it, and setting it
\* twice changes nothing, so test and locked section are one step.
MtmOnNodeDisconnect(n, nodeId) ==
    /\ nodeId # n /\ ~Connected(n, nodeId)
    /\ nodeId \notin SELF_CONNECTIVITY_MASK(mtm[n], n)
    /\ Locked(n, DisconnectedFrom(mtm[n], n, nodeId))
    /\ UNCHANGED <<monitor, recv, referee, saved, initialized, link, faults>>

\* no heartbeat of an enabled node i for MtmHeartbeatRecvTimeout
MtmWatchdog(n, i) ==
    /\ i \notin mtm[n].disabledNodeMask
    /\ MtmOnNodeDisconnect(n, i)

-----------------------------------------------------------------------------
(* The monitor: MtmRefreshClusterStatus.  What it reads without the lock   *)
(* between two calls or locked sections it reads at once: a round that     *)
(* finds nothing to do is one step.                                        *)

At(n, pc) == monitor[n].pc = pc
Goto(n, pc) == monitor' = [monitor EXCEPT ![n].pc = pc]

MonitorPc == {"check_state", "get_winner", "take_grant", "clear", "clean",
              "cleaned", "clique", "stabilize"}

IdleMonitor == [pc |-> "check_state", newClique |-> {}]

\* the unlocked test before the referee is asked
HalfVisible(m, me) ==
    /\ UseReferee
    /\ m.refereeWinnerId = NoNode
    /\ countZeroBits(SELF_CONNECTIVITY_MASK(m, me)) = NNodes \div 2

\* the unlocked test before the winner is cleared
AllRecovered(m) ==
    /\ UseReferee
    /\ m.refereeWinnerId # NoNode
    /\ countZeroBits(m.disabledNodeMask) = NNodes

\* the first look at the clique: nothing to do if it is the one we have
CliqueSection(n, m) ==
    LET c == MtmFindMaxClique(MtmBuildConnectivityMatrix(m)) IN
        monitor' = [monitor EXCEPT ![n] =
                       IF c = m.clique THEN IdleMonitor
                                       ELSE [pc |-> "stabilize", newClique |-> c]]

\* MtmRefereeClearWinner deletes the local row first
ClearSection(n, m) ==
    IF AllRecovered(m)
    THEN saved' = [saved EXCEPT ![n] = NoNode] /\ Goto(n, "clean")
    ELSE UNCHANGED saved /\ CliqueSection(n, m)

RefreshCheckState(n) ==
    LET m == MtmCheckState(mtm[n], n)
    IN  /\ At(n, "check_state")
        /\ Locked(n, m)
        /\ IF HalfVisible(m, n) THEN Goto(n, "get_winner") /\ UNCHANGED saved
                                ELSE ClearSection(n, m)
        /\ UNCHANGED <<recv, referee, initialized, link, faults>>

\* referee.get_winner(n): the first node that asks wins
Decision(n) == IF referee = NoNode THEN n ELSE referee

MayStrike(kind) == faults.left > 0 /\ kind \in faults.kinds
Struck == [faults EXCEPT !.left = @ - 1]

\* a call of the referee fails before the referee acts or after it
CallOutcomes == IF MayStrike("referee")
                THEN {"answered", "unreachable", "reply_lost"} ELSE {"answered"}

Called(outcome) == faults' = IF outcome = "answered" THEN faults ELSE Struck

MtmRefereeReadSaved(n) == saved[n]

\* the call of the referee, the fallback to the saved row, and the store of
\* the winner with the test of its bit, both made without the lock
MtmRefereeGetWinner(n) ==
    /\ At(n, "get_winner")
    /\ \E outcome \in CallOutcomes :
          LET answer    == IF outcome = "answered" THEN Decision(n) ELSE NoNode
              readSaved == answer = NoNode /\ ~initialized[n]
              winner    == IF readSaved THEN MtmRefereeReadSaved(n) ELSE answer
          IN  /\ referee' = IF outcome = "unreachable" THEN referee ELSE Decision(n)
              /\ saved' = IF answer # NoNode /\ saved[n] = NoNode
                          THEN [saved EXCEPT ![n] = answer] ELSE saved
              /\ initialized' = [initialized EXCEPT ![n] = @ \/ readSaved]
              /\ IF winner = NoNode
                 THEN UNCHANGED mtm /\ Goto(n, "clear")
                 ELSE /\ Locked(n, [mtm[n] EXCEPT !.refereeWinnerId = winner])
                      /\ Goto(n, IF SeesWinner(mtm[n], n, winner) THEN "take_grant"
                                                                  ELSE "clear")
              /\ Called(outcome)
    /\ UNCHANGED <<recv, link>>

\* ... then the lock is taken and the conditions are looked at again.  The
\* winner is the monitor's local; nothing else writes refereeWinnerId while
\* the monitor is here, so it is read back from there.
RefereeGrant(n) ==
    /\ At(n, "take_grant")
    /\ Locked(n, TakeGrant(mtm[n], n, mtm[n].refereeWinnerId))
    /\ Goto(n, "clear")
    /\ UNCHANGED <<recv, referee, saved, initialized, link, faults>>

ClearLocal(n) ==
    /\ At(n, "clear")
    /\ ClearSection(n, mtm[n])
    /\ UNCHANGED <<mtm, recv, referee, initialized, link, faults>>

\* ... then calls referee.clean()
RefereeClean(n) ==
    /\ At(n, "clean")
    /\ \E outcome \in CallOutcomes :
          /\ referee' = IF outcome = "unreachable" THEN referee ELSE NoNode
          /\ Goto(n, IF outcome = "answered" THEN "cleaned" ELSE "clique")
          /\ Called(outcome)
    /\ UNCHANGED <<mtm, recv, saved, initialized, link>>

\* ... and the monitor forgets the winner, without the lock
ForgetWinner(n) ==
    /\ At(n, "cleaned")
    /\ Locked(n, [mtm[n] EXCEPT !.refereeWinnerId = NoNode, !.refereeGrant = FALSE])
    /\ Goto(n, "clique")
    /\ UNCHANGED <<recv, referee, saved, initialized, link, faults>>

CliqueChanged(n) ==
    /\ At(n, "clique")
    /\ CliqueSection(n, mtm[n])
    /\ UNCHANGED <<mtm, recv, referee, saved, initialized, link, faults>>

\* sleep and look again until two looks agree, then take the lock
CliqueStabilized(n) ==
    /\ At(n, "stabilize")
    /\ LET c == MtmFindMaxClique(MtmBuildConnectivityMatrix(mtm[n])) IN
          IF c = monitor[n].newClique
          THEN /\ Locked(n, ApplyClique(mtm[n], n, c))
               /\ monitor' = [monitor EXCEPT ![n] = IdleMonitor]
          ELSE /\ monitor' = [monitor EXCEPT ![n].newClique = c]
               /\ UNCHANGED mtm
    /\ UNCHANGED <<recv, referee, saved, initialized, link, faults>>

MtmRefreshClusterStatus(n) ==
    \/ RefreshCheckState(n) \/ MtmRefereeGetWinner(n) \/ RefereeGrant(n)
    \/ ClearLocal(n) \/ RefereeClean(n) \/ ForgetWinner(n)
    \/ CliqueChanged(n) \/ CliqueStabilized(n)

-----------------------------------------------------------------------------
(* WAL receivers of n and the WAL senders that serve them at i *)

Receives(n, i, state) == recv' = [recv EXCEPT ![n][i] = state]

MtmReleaseRecoverySlot(m, nodeId) ==
    IF m.recoverySlot = nodeId THEN [m EXCEPT !.recoverySlot = NoNode] ELSE m

\* the receiver starts: recovery through the one slot, or normal replication.
\* It waits, polling, while neither is open to it.
MtmGetReplicationMode(n, i) ==
    LET m == [mtm[n] EXCEPT !.recoveryCount = @ \ {i}]
    IN  /\ i # n /\ recv[n][i] = "start"
        /\ {i, n} \cap EFFECTIVE_CONNECTIVITY_MASK(m, n) = {}
        /\ \/ /\ n \in m.disabledNodeMask
              /\ m.recoverySlot \in {NoNode, i}
              /\ donorNodeId[n] \in {n, i}
              /\ Locked(n, [m EXCEPT !.recoverySlot = i])
              /\ Receives(n, i, "REPLMODE_RECOVERY")
           \/ /\ n \notin m.disabledNodeMask
              /\ Locked(n, m)
              /\ Receives(n, i, "REPLMODE_RECOVERED")
        /\ UNCHANGED <<monitor, referee, saved, initialized, link, faults>>

\* the sender at i starts for the receiver of n, in the mode the receiver
\* got from MtmGetReplicationMode: "recovery" or "recovered", never the
\* other two, so "reconnect without recovery" is not raised
MtmReplicationStartupHook(i, n) ==
    /\ Connected(n, i)
    /\ \/ /\ recv[n][i] = "REPLMODE_RECOVERY"
          /\ Receives(n, i, "recovery")
          /\ Locked(i, MtmStateProcessNeighborEvent(mtm[i], i, n,
                                       "MTM_NEIGHBOR_WAL_SENDER_START_RECOVERY"))
       \/ /\ recv[n][i] = "REPLMODE_RECOVERED"
          /\ Receives(n, i, "connected")
          /\ Locked(i, MtmStateProcessNeighborEvent(mtm[i], i, n,
                                       "MTM_NEIGHBOR_WAL_SENDER_START_RECOVERED"))
    /\ UNCHANGED <<monitor, referee, saved, initialized, link, faults>>

MtmIsRecoveredNode(i, n) == n \in mtm[i].disabledNodeMask

\* the sender at i is almost through the WAL: it asks for the cluster lock
MtmCheckRecoveryCaughtUp(i, n) ==
    /\ recv[n][i] = "recovery" /\ Connected(n, i)
    /\ MtmIsRecoveredNode(i, n)
    /\ n \notin mtm[i].originLockNodeMask
    /\ Locked(i, [mtm[i] EXCEPT !.originLockNodeMask = @ \cup {n}])
    /\ UNCHANGED <<monitor, recv, referee, saved, initialized, link, faults>>

\* the sender at i is through the WAL: n is enabled at i and told so
MtmRecoveryCaughtUp(i, n) ==
    /\ recv[n][i] = "recovery" /\ Connected(n, i)
    /\ MtmIsRecoveredNode(i, n)
    /\ Locked(i, MtmStateProcessNeighborEvent(mtm[i], i, n, "MTM_NEIGHBOR_RECOVERY_CAUGHTUP"))
    /\ Receives(n, i, "caughtup")
    /\ UNCHANGED <<monitor, referee, saved, initialized, link, faults>>

\* the receiver of n learns that its recovery is complete, and restarts
RecoveryFinish(n, i) ==
    /\ recv[n][i] = "caughtup"
    /\ Locked(n, MtmStateProcessEvent(mtm[n], n, "MTM_RECOVERY_FINISH1"))
    /\ Receives(n, i, "start")
    /\ UNCHANGED <<monitor, referee, saved, initialized, link, faults>>

\* the receiver of n is connected in normal mode
ReceiverStart(n, i) ==
    /\ recv[n][i] = "connected"
    /\ Locked(n, MtmStateProcessNeighborEvent(mtm[n], n, i, "MTM_NEIGHBOR_WAL_RECEIVER_START"))
    /\ Receives(n, i, "normal")
    /\ UNCHANGED <<monitor, referee, saved, initialized, link, faults>>

MtmReplicationShutdownHook(m, n) == [m EXCEPT !.pglogicalSenderMask = @ \ {n}]

\* the connection breaks, or the receiver sees a new recoveryCount: the
\* sender at i exits and the receiver of n starts over
ReceiverRestart(n, i) ==
    /\ i # n /\ recv[n][i] # "start"
    /\ ~Connected(n, i) \/ i \in mtm[n].recoveryCount
    /\ mtm' = [mtm EXCEPT ![n] = MtmReleaseRecoverySlot(@, i),
                          ![i] = MtmReplicationShutdownHook(@, n)]
    /\ Receives(n, i, "start")
    /\ UNCHANGED <<monitor, referee, saved, initialized, link, faults>>

-----------------------------------------------------------------------------
(* Faults *)

LinkDown(p) ==
    /\ p \in link /\ MayStrike("link")
    /\ link' = link \ {p} /\ faults' = Struck
    /\ UNCHANGED <<mtm, monitor, recv, referee, saved, initialized>>

LinkUp(p) ==
    /\ p \in Pairs \ link
    /\ \A n \in p : \A i \in p \ {n} : recv[n][i] = "start"
    /\ link' = link \cup {p}
    /\ UNCHANGED <<mtm, monitor, recv, referee, saved, initialized, faults>>

\* node n crashes and starts again: shared memory is new, the table is kept
Restart(n) ==
    /\ MayStrike("crash")
    /\ faults' = Struck
    /\ mtm' = [j \in Nodes |-> IF j = n THEN MtmInitialize
                               ELSE MtmReleaseRecoverySlot(mtm[j], n)]
    /\ monitor' = [monitor EXCEPT ![n] = IdleMonitor]
    /\ initialized' = [initialized EXCEPT ![n] = FALSE]
    /\ recv' = [j \in Nodes |-> [i \in Nodes |->
                   IF n \in {i, j} THEN "start" ELSE recv[j][i]]]
    /\ UNCHANGED <<referee, saved, link>>

-----------------------------------------------------------------------------
\* shared memory of node n when every node has recovered and is online
Steady(n) ==
    [MtmInitialize EXCEPT !.status = "MTM_ONLINE", !.disabledNodeMask = {},
                          !.connectivityMask = [i \in Nodes |-> {}],
                          !.clique = Nodes, !.recoveryCount = {},
                          !.pglogicalReceiverMask = Receivers(n),
                          !.pglogicalSenderMask = Receivers(n)]

\* the postmasters have just started
ColdStart ==
    /\ mtm = [n \in Nodes |-> MtmInitialize]
    /\ recv = [n \in Nodes |-> [i \in Nodes |-> "start"]]
    /\ faults = ColdFaults

\* the cluster that a cold start without faults brings up
Running ==
    /\ mtm = [n \in Nodes |-> Steady(n)]
    /\ recv = [n \in Nodes |-> [i \in Nodes |-> IF i = n THEN "start" ELSE "normal"]]
    /\ faults = SteadyFaults

Init ==
    /\ ColdStart \/ Running
    /\ monitor = [n \in Nodes |-> IdleMonitor]
    /\ referee = NoNode
    /\ saved = [n \in Nodes |-> NoNode]
    /\ initialized = [n \in Nodes |-> FALSE]
    /\ link = Pairs

Arbiter(n) ==
    \/ ArbiterReceiverStart(n)
    \/ \E i \in Nodes : \/ MtmOnNodeConnect(n, i) \/ Heartbeat(n, i)
                        \/ MtmOnNodeDisconnect(n, i) \/ MtmWatchdog(n, i)

Replication(n) ==
    \E i \in Nodes :
        \/ MtmGetReplicationMode(n, i) \/ MtmReplicationStartupHook(i, n)
        \/ MtmCheckRecoveryCaughtUp(i, n) \/ MtmRecoveryCaughtUp(i, n)
        \/ RecoveryFinish(n, i) \/ ReceiverStart(n, i) \/ ReceiverRestart(n, i)

Fault == (\E p \in Pairs : LinkDown(p) \/ LinkUp(p)) \/ (\E n \in Nodes : Restart(n))

Next == (\E n \in Nodes : Arbiter(n) \/ MtmRefreshClusterStatus(n) \/ Replication(n)) \/ Fault

Spec == Init /\ [][Next]_vars

-----------------------------------------------------------------------------
TypeOK ==
    /\ \A n \in Nodes :
          /\ mtm[n].status \in Status
          /\ mtm[n].refereeWinnerId \in Nodes \cup {NoNode}
          /\ mtm[n].recoverySlot \in Receivers(n) \cup {NoNode}
          /\ mtm[n].recoveryCount \subseteq Receivers(n)
          /\ mtm[n].pglogicalReceiverMask \subseteq Receivers(n)
          /\ mtm[n].pglogicalSenderMask \subseteq Receivers(n)
          /\ monitor[n].pc \in MonitorPc
          /\ monitor[n].newClique \subseteq Nodes
    /\ referee \in Nodes \cup {NoNode}
    /\ saved \in [Nodes -> Nodes \cup {NoNode}]
    /\ link \subseteq Pairs
    /\ faults \in FaultBudget

\* Two nodes that have each disabled the other are never both online: each
\* would commit alone ("two masters", in the words of MtmRefereeClearWinner).
\* The referee is asked (MtmRefereeGetWinner) so that of the two halves of a
\* cluster only the winner's goes on.
NoSplitBrain ==
    \A n, i \in Nodes :
        /\ n # i
        /\ mtm[n].status = "MTM_ONLINE" /\ mtm[i].status = "MTM_ONLINE"
        => ~(i \in mtm[n].disabledNodeMask /\ n \in mtm[i].disabledNodeMask)

\* what isEnabledState reads
QuorumView(n) == <<SELF_CONNECTIVITY_MASK(mtm[n], n), mtm[n].clique, mtm[n].refereeGrant,
                   mtm[n].stoppedNodeMask, mtm[n].status>>

\* Every handler that changes what the status depends on ends in
\* MtmCheckState, so it leaves a node that is not disabled with a quorum: a
\* majority, or half with the referee's grant.  The one step that does not is
\* the monitor's unlocked "refereeGrant = false" in MtmRefreshClusterStatus,
\* which waits for the next round's MtmCheckState.
StatusRechecked ==
    [][\A n \in Nodes :
          /\ QuorumView(n)' # QuorumView(n)
          /\ mtm'[n].status # "MTM_DISABLED"
          => isEnabledState(mtm'[n], n) \/ monitor[n].pc = "cleaned"]_vars

\* A receiver streams in recovery mode only from the donor of the recovery
\* slot (MtmGetReplicationMode takes the slot), or it is about to restart
\* because MtmSetClusterStatus gave the slot up and asked for a new round.
RecoveryFromSlot ==
    \A n \in Nodes : \A i \in Receivers(n) :
        recv[n][i] \in {"recovery", "caughtup"} =>
            mtm[n].recoverySlot = i \/ i \in mtm[n].recoveryCount

\* Only the winner's half takes the grant (the test of the winner's bit in
\* MtmRefreshClusterStatus): a node that holds it has recorded a winner, and
\* in a cluster of two that winner is the node itself.
GrantOnlyToWinner ==
    \A n \in Nodes :
        mtm[n].refereeGrant =>
            /\ mtm[n].refereeWinnerId # NoNode
            /\ NNodes = 2 => mtm[n].refereeWinnerId = n

\* A node that has disabled itself comes back only through a finished
\* recovery (MTM_RECOVERY_FINISH1 from a receiver that caught up) or by the
\* referee's grant; connecting to its peers alone never enables it.
EnabledByRecoveryOrGrant ==
    [][\A n \in Nodes :
          n \in mtm[n].disabledNodeMask /\ n \notin mtm'[n].disabledNodeMask =>
              \/ \E i \in Receivers(n) : recv[n][i] = "caughtup" /\ recv'[n][i] = "start"
              \/ ~mtm[n].refereeGrant /\ mtm'[n].refereeGrant]_vars
=============================================================================
