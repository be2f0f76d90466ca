# TLA+ models of multimaster (mmts)

This directory holds TLA+ specifications of multimaster (generation
management, the prepare barrier with the abstract barrier it implements, the
resolution of a transaction whose coordinator is gone, the monitor with the
workers, slots and destinations it keeps per node, the pool of apply
workers, and of the older code the status machine with its referee client,
the three-phase commit of a distributed transaction, the transaction states
it leaves in shared memory with their garbage collection, the distributed
deadlock detector, and one session between the hooks that decide what of
it is replicated, and the connectivity tracker) and
the TLC configurations that check them.  Every definition is
translated from the C source under `src/`; `PROJECT.json` names, for each
definition, the lines it stands for, and lists the runs, the findings and the
hazards.

## 1. The system

A multimaster cluster is a fixed set of configured nodes, numbered from 1.
The nodes that may currently commit are the *members* of the current
*generation* `{num, members, configured}`.  Each node keeps in shared memory
(`struct MtmState`) and in the file `pg_mtm/state`:

| field | meaning |
|---|---|
| `current_gen` | the generation the node is in |
| `donors` | nodes that hold all transactions of earlier generations |
| `last_online_in` | number of the last generation the node was online in |
| `last_vote` | the last generation the node voted for (its promise) |

and, in shared memory only, `receive_mode` (normal, disabled, or the node to
recover from) and `campaigner_on_tour`.

Parts of the system, by source:

| part | source | what it does |
|---|---|---|
| Persistent state store | `src/src/state.c` `mtm_state_create`, `MtmStateSave`, `MtmStateLoad`, `MtmStateStartup` | writes and reads `pg_mtm/state`; restores `receive_mode` after a restart |
| Generation manager | `MtmConsiderGenSwitch`, `MtmHandleParallelSafe`, `MtmGetCurrentStatusInGen`, `MtmGetCurrentStatus` | enters generations learned from a tour, a heartbeat or a ParallelSafe record; decides whether the node is online, in recovery or dead |
| Campaigner | `CampaignerMain`, `CampaignMyself`, `CampaignTour`, `CampaignerOnExit` | background worker; ballots for a generation of the nodes in its connectivity clique |
| Vote handler | `HandleGenVoteRequest` (called by the monitor in `check_status_requests`) | answers vote requests |
| Connectivity tracker | `MtmOnDmq*Connect/Disconnect/Heartbeat`, `MtmGetConnectivityClique`, `SetCatchupDonor` | connectivity matrix, clique, who is the most advanced node |
| Prepare barrier | `AcquirePBByPreparer`, `AcquirePBByHolder`, `ReleasePB` | keeps prepares out of a generation switch |
| Monitor | `MtmMonitor`, `check_status_requests`, `start_node_workers`, `stop_node_workers`, `is_basebackuped`, `pubsub_change_cb` | starts and restarts campaigner, resolver and receivers; serves requests |
| Resolver, acceptor side | the `T_MtmTxRequest` and `T_MtmLastTermRequest` branches of `check_status_requests`; the resolver itself, the table of global transactions and the engine's prepared transactions are not in the tree | promises and accepts the proposals of the resolvers about a prepared transaction, finishes it on a decision |
| Referee client | `MtmRefereeReadSaved`, `MtmRefereeGetWinner`, `MtmRefereeClearWinner` in `src/state.c` (the copy in `src/src/state.c` is compiled out with `#if 0`) | asks the referee for a winner when half of the cluster is visible, keeps the answer in a local table, clears it when all nodes are back |
| Apply worker pool | `src/src/bgwpool.c` | ring buffer of jobs between a receiver and its workers |
| Legacy commit path | `src/multimaster.c` | 3PC on the origin and on the participants |
| Transaction states | `MtmCreateXidMap`, `MtmCreateTransState`, `MtmTransactionListAppend`, `MtmActivateTransaction`, `MtmDeactivateTransaction`, `MtmAdjustOldestXid`, `MtmFinishPreparedTransaction`, `MtmPollStatusOfPreparedTransactions`, `MtmLoadPreparedTransactions` in `src/multimaster.c` | one entry of a hash of fixed size per transaction, a list of all of them for the polls, a ring of the active ones for the garbage collection |
| Deadlock detector | `MtmDetectGlobalDeadLock`, `MtmDetectGlobalDeadLockForXid`, `MtmSerializeLock`, `MtmGetGtid`, `MtmUpdateLockGraph`, `mtm_check_deadlock` in `src/multimaster.c`; `lastPeakTime` in `src/src/bgwpool.c` | distributed wait-for graph: every node publishes its waits in the WAL and searches the union of what it has received |
| DDL replication and session settings | `MtmProcessUtility`, `MtmExecutorStart`, `MtmExecutorFinish`, `MtmProcessDDLCommand`, `MtmFinishDDLCommand`, `MtmGucInit` to `MtmGucSerialize`, `MtmBeginTransaction`, `MtmResetTransaction`, the savepoint callbacks, `mtm_make_table_local`, `mtm_broadcast_table`, `MtmSeqNextvalHook` in `src/multimaster.c` | decides in every session which statements are sent to the other nodes as text, under which settings they are replayed there, and whether the transaction commits in two phases |
| Legacy node status machine | `src/state.c`, `src/state.h`, and the replication hooks, the watchdog and `MtmInitialize` of `src/multimaster.c` | status of the node (disabled, recovery, recovered, online) by events and masks; the monitor's `MtmRefreshClusterStatus` |

How they interact: heartbeats feed the connectivity tracker; a change of
connectivity wakes the campaigner; the campaigner votes for itself, saves,
asks the clique, and with a majority of votes calls the generation manager to
switch; the winner's heartbeats and, for donors, a ParallelSafe record in the
WAL, bring the other nodes into the generation; a node in recovery becomes
online when its receiver, in recovery mode, reaches the ParallelSafe record of
its generation.

A transaction that is prepared on some members when its coordinator goes
away is finished by the *resolvers* of the members that hold it, by one
round of Paxos per attempt.  A resolver takes a term `(ballot, node_id)`
above every term it has heard of (`MtmLastTermRequest`), asks the members
for the status of the transaction under that term (`MTReq_Status`), and with
the answers of a majority either learns the outcome, or proposes one:
the status accepted under the highest term among the answers, PreCommit or
PreAbort, or PreAbort when nothing was accepted (`MTReq_Precommit`,
`MTReq_Preabort`).  When a majority has accepted, it tells everyone to
commit or to abort.  The monitor of every member answers these requests in
`check_status_requests`, and writes what it promises and accepts into the
`state_3pc` of the prepared transaction, from which `GlobalTxLoadAll`
rebuilds the entry after a restart.

The tree holds two ages of the code.  `src/src/` is the generation-based
implementation described above.  `src/multimaster.c`, `src/state.c` and
`src/state.h` are the older implementation, in which each node keeps a mask
of disabled nodes and a status, the arbiter's connection callbacks and the
WAL senders and receivers feed events to `MtmStateProcessEvent` and
`MtmStateProcessNeighborEvent`, `MtmCheckState` derives the status from the
masks, and the monitor computes the connectivity clique and, in a cluster of
two, asks the referee who may go on alone.

In the older implementation a COMMIT of a user becomes a three-phase commit
(`MtmTwoPhaseCommit`).  The backend prepares the transaction, and waits in
`Mtm2PCVoting` until every participant that is not disabled has answered
`MSG_PREPARED`; it then marks the transaction precommitted, logs that, waits
for `MSG_PRECOMMITTED` of all, and finishes the prepared transaction.  On a
participant an apply worker joins the transaction (`MtmJoinTransaction`),
prepares it and votes (`MtmPostPrepareTransaction`), and the later records of
the origin precommit it, commit it or roll it back.  The status machine cuts
in at two places: the backend compares `Mtm->nConfigChanges` with the value
at the prepare and aborts when it has changed, and a node that disables the
coordinator decides about the coordinator's prepared transactions by itself
(`MtmPollStatusOfPreparedTransactionsForDisabledNode`).  A user may also
prepare the transaction by name: PREPARE TRANSACTION takes the first round
of votes and leaves the transaction prepared, and COMMIT PREPARED marks it
precommitted and takes the second round in its callback
(`MtmPreCommitPreparedTransaction`) before the engine commits.

Every distributed transaction has a state (`MtmTransState`) in the hash
`MtmXid2State`, which has `MTM_HASH_SIZE` entries in shared memory.  A state
is made by `MtmPrePrepareTransaction`, by `MtmJoinTransaction` on a
participant, by `MtmEndTransaction` for a transaction that aborts on a
participant before it had one, and by `MtmLoadPreparedTransactions` after a
restart.  It is linked in two lists: the list of all transactions
(`transListHead`, `transListTail`, `ts->next`), which the polls walk to find
the transactions in doubt, and the ring of active transactions
(`activeTransList`, `ts->activeList`), which `MtmAdjustOldestXid` sweeps
every `multimaster.gc_period` prepares, at the begin of a transaction, to
free the states that are finished, not active, not pinned and older than
`multimaster.vacuum_delay`.  A poll that finishes a transaction
(`MtmFinishPreparedTransaction`) pins its state and gives up `MtmLock` while
the engine finishes the prepared transaction.

Locks are taken on every node by itself, so two transactions can wait for
each other without any node seeing a loop: a1 holds a row on node 1, a2 the
same row on node 2, and the apply worker of each waits on the other node.
A process whose wait has lasted for the deadlock timeout calls
`MtmDetectGlobalDeadLock`.  It writes the waits of its node to the WAL (an
"L" message, `MtmSerializeLock`), with every transaction named by the node
and xid of its origin (`MtmGetGtid`), adds to them the last message it has
applied from every enabled peer (`MtmUpdateLockGraph` keeps it in
`Mtm->nodes[].lockGraphData`), and searches the result for a loop through
its own transaction.  With a loop, or with a pool of apply workers that has
been busy with jobs waiting for longer than the timeout, it answers
"deadlock" and the lock manager ends the transaction; otherwise it arms the
timeout again.

Rows reach the other nodes by logical decoding, statements do not: the
utility hook `MtmProcessUtility` and the executor hook `MtmExecutorStart`
write a DDL statement, or a query that calls a function marked as remote,
into the WAL as a logical message "D" (`MtmProcessDDLCommand`) and close it
with a message "E" when the statement has returned (`MtmFinishDDLCommand`);
the apply worker of every other node runs the text between the two.  The
pointer `MtmDDLStatement` says which statement has the message open, so
that what the statement runs inside itself is not sent a second time.  The
text begins with the SET commands of the session: `MtmGucSet` follows every
SET and RESET outside a transaction block in a list, `MtmGucSerialize`
writes the list out.  The statements that cannot run in a transaction
(VACUUM, CREATE INDEX CONCURRENTLY, tablespaces) go as a message "C" that is
flushed at once, and the worker that applies one puts it aside until its
transaction has ended.  Whether the COMMIT of the session becomes the
three-phase commit above is `MtmTx.containsDML`, which the same hooks set,
and which `MtmRestoreSavepointContext` takes back at ROLLBACK TO SAVEPOINT.

The monitor is also what turns the table of nodes into running parts.
`MtmReloadConfig` reads `mtm.cluster_nodes` whenever `pubsub_change_cb` has
cleared `config_valid`, and calls `start_node_workers` for every node that
is new (recovery slot, dmq destination, receiver, logical slot, and
`init_done` in the table) and `stop_node_workers` for every node that is
gone.  A node that finds itself dropped stops everything, empties the table
and leaves; a node that finds rows marked `init_done` without any slot is a
copy of another node's data directory, empties the table and leaves too.
Each turn of the loop restarts the resolver, the campaigner and the
receivers that have stopped.

What must hold (and what the runs ask):

* a node is online only in a generation it is a member of, with a majority of
  members, and never below its promise;
* `receive_mode` fits the status in every state;
* `last_vote` never decreases, also across restarts, and no number is
  balloted twice by one node;
* two nodes in generations of one number are in the same generation;
* donors are members; a lagging node does not add itself back;
* `campaigner_on_tour` is set only during a tour;
* the generation does not change while a PREPARE is being written, and
  neither side of the barrier waits forever;
* a transaction in doubt is not committed on one member and rolled back on
  another, however the requests of two resolvers interleave, and a member
  that restarts finds in its log everything it has promised and accepted;
* the monitor runs a receiver, two slots and a destination for exactly the
  nodes of the table, one resolver and one campaigner, and leaves nothing
  behind when the node is dropped; it can start again after it has died at
  any point;
* every job given to the pool is run once and as it was given, and neither
  the producer nor a worker waits for a wake-up that does not come;
* in the older status machine, two nodes are never online with each other
  disabled; a node leaves the disabled nodes of its own mask only by a
  finished recovery or a grant of the referee; the grant goes to the
  referee's winner only; a receiver streams in recovery mode only through
  the recovery slot;
* in the older commit path, a transaction is not committed on one node and
  rolled back on another, whether the extension or the user finishes it; a
  participant that has precommitted does not roll
  back on its own; an abort is not forgotten by a worker that prepares late;
  the backend does not wait for votes for ever;
* a DDL is replayed on the other nodes under the settings the session had;
  the messages "D" and "E" of a transaction pair up around the statements
  that are replayed, whatever runs inside them and wherever an error cuts
  in; a transaction that has logged something for the other nodes commits
  in two phases, also after a rollback to a savepoint;
* the state a poll stands on is not freed under it, and every transaction
  in doubt is in the list the polls walk;
* transactions that wait for each other over several nodes, or for a worker
  of a pool whose workers all wait, do not wait for ever, and a detector
  that has the graphs of its peers finds exactly the loops there are.

## 2. Modules

### Generations.tla (the core)

State:

| variable | code |
|---|---|
| `mtm_state[n]` | the four persistent fields of `struct MtmState` on node n |
| `disk[n]` | `pg_mtm/state` (`MtmStateOnDisk`) |
| `receive_mode[n]`, `campaigner_on_tour[n]` | the fields of the same name |
| `tour[n]` | the locals the campaigner carries from `CampaignMyself` through `CampaignTour`: candidate, `my_last_online_in`, `max_last_vote_num`, and where it is |
| `msgs` | dmq streams `genvotereq` and `genvoteresp` |
| `wal` | ParallelSafe records logged by donors |
| `gossip` | heartbeats sent |
| `balloted`, `ballots`, `crashes`, `exits` | history variables and bound counters |

Actions, one per critical section (`gen_lock` and `vote_lock` make each of
them atomic in the code):

| action | code |
|---|---|
| `CampaignMyself(n, clique)` = `CampaignStay` or `CampaignBallot` | `CampaignMyself` and the `scatter` at the start of `CampaignTour` |
| `CampaignTourCount(n)` | `CampaignTour`: gather, count, donors, `MtmConsiderGenSwitch` |
| `CampaignTourFinish(n)` | `CampaignTour`, last locked section |
| `CampaignerOnExit(n)` | death of the campaigner during a tour |
| `HandleGenVoteRequest(n, req, clique)` | the function of that name |
| `MtmOnDmqReceiverHeartbeat(n, hb)` | generation part of the heartbeat callback |
| `MtmHandleParallelSafe(n, ps, is_recovery)` | the function of that name |
| `MtmStateStartup(n)` | load and restore at monitor start |
| `Crash(n)` | restart of the postmaster: `MtmStateShmemStartup` zeroes shared memory |

`MtmConsiderGenSwitch` is an operator on a node record `[st, disk, mode]`; the
handlers that call it apply its result with `SwitchAnd`, so the trailing
`MtmStateSave` and `MtmSetReceiveMode` of the code are part of the same step.

What is abstracted, and why it is sound for the safety properties checked:

* **Connectivity is an input.**  A handler that reads the clique gets any
  non-empty set of nodes, a clique of one node being rewritten to `{n}`
  (`ConnectivityCliques`); the connected mask is any set with the node itself
  that contains the clique when the node is in it (`ConnectedMasksWithMe`:
  both come from one locked copy of the matrix).  This contains every
  value the tracker can compute (module Connectivity has the tracker
  itself), so all behaviours of the code are behaviours of the model.
* **Recovery progress is an input.**  `SetCatchupDonor` returns one of the
  connected nodes; whether the node lags behind it and whether its receiver
  has caught up is the boolean `lag_ok`.
* **Heartbeats** are the set `gossip`: a node adds its generation and donors
  when it enters a generation, and a receiver may take any element at any
  later time, any number of times.  This covers delay, duplication and
  reordering.  Heartbeats that carry a generation not newer than the
  receiver's return on the first test of `MtmConsiderGenSwitch` and are not
  steps.
* **`MtmHandleParallelSafe`** is one step although the code leaves `gen_lock`
  between the switch and the promotion: whatever slips in between is what a
  call with `is_recovery` false followed by one with `is_recovery` true gives
  in the model.
* **Vote answers to a tour that is over** are dropped when they are produced
  (`Awaited`) rather than kept until `CampaignerGatherHook` throws them away;
  tour numbers of a node grow strictly, so such an answer can never match.
* `configured` is constant (no node is added or dropped), the checksum and
  file format of the state file are left out, timing is any interleaving.

### MCGenerations.tla

Gives `NNodes` the value 3.  Nodes are the integers 1..3 and not model values
because the code tests bit `my_node_id` of a mask whose bits count from 0
(`LagChecked`); for the same reason there is no symmetry set.

### Connectivity.tla

The connectivity tracker of every node and the dmq connections that drive
it.  A connection is an ordered pair `<<p, n>>`: the dmq sender of node p
and the receiver process node n runs for it.

| variable | code |
|---|---|
| `dmq_receivers_mask`, `dmq_senders_mask`, `connectivity_matrix`, `others_last_online_in` | the fields of `struct MtmState`, one copy per node |
| `latch` | the latch of the campaigner, set by `CampaignerWake` (SIGUSR1) |
| `last_online_in` | the persistent field the heartbeat carries; it survives a restart |
| `sender`, `receiver` | the state of the two ends of a connection (`idle`, `negotiating`, `active`; `none`, `live`) |
| `stopping` | a receiver has given up its handle and its stop hook has not run |
| `wire` | the heartbeats of a connection on their way, in the order sent |
| `cut` | the connections the network does not carry at the moment |

| action | code |
|---|---|
| `MtmOnDmqReceiverConnect(l)` | the receiver takes the handle; the bit is *not* set |
| `MtmOnDmqSenderConnect(l)`, `MtmOnDmqSenderDisconnect(l)` | set and clear the bit of `dmq_senders_mask`, wake the campaigner if the connected mask changed |
| `MtmOnDmqSenderHeartbeat(l)` | packs `MtmGetConnectedMask` and `last_online_in` |
| `MtmOnDmqReceiverHeartbeat(l)` | stores `others_last_online_in`, then under the lock sets the bit and the row, wakes if the mask or the row changed |
| `ReceiverExits(l)`, `MtmOnDmqReceiverDisconnect(l)` | the receiver leaves; later its stop hook clears the bit and the row, and wakes only if the connected mask changed |
| `CampaignerMain(n)` | the campaigner leaves `WaitLatch` (latch or timeout) and resets the latch |
| `MtmStateShmemStartup(n)` | restart of the postmaster: shared memory zeroed, the processes of the node gone |
| `BecomesOnline(n)`, `NetworkChanges(l)` | the environment: the generation manager raises `last_online_in`, the network drops or carries a connection |

The four callbacks that change a mask share `UpdateConnectivity`, the section
under `connectivity_lock` followed by `CampaignerWake`.  What the campaigner
reads are operators on the state: `MtmGetConnectivityClique(n)` (the set of
cliques the search may return for the symmetric matrix of node n) and
`SetCatchupDonor(n, connected, mode)` (the receive mode it leaves).  They are
the inputs of Generations: `DonorIsKnown` shows that the donor is a connected
node other than the caller, as `SetCatchupDonor` of Generations assumes.

dmq is not in the tree.  What the model takes from the callbacks and their
comments: one receiver per sender at a time, the handle released *before*
the stop hook runs (the comment in `MtmOnDmqReceiverConnect`), heartbeats of
a connection delivered in order, whatever is on its way lost with the
receiver.  `CampaignerWake` does nothing while no campaigner runs
(`campaigner_pid == 0`); a campaigner that starts looks at the connectivity
first, so the model lets the latch be set at any time.

### MCConnectivity.tla

Names the sets of connections and nodes the configurations give to
`Established`, `Flaky` and `Restartable`.

### PrepareBarrier.tla

The barrier between writing PREPAREs and switching the generation
(`AcquirePBByPreparer`, `AcquirePBByHolder`, `ReleasePB`).  Preparers are
backends and receivers; holders are the callers of `MtmConsiderGenSwitch` and
`MtmHandleParallelSafe`, which take `gen_lock` exclusively first.

| variable | code |
|---|---|
| `n_committers`, `n_prepare_holders` | the counters under `cb_lock` |
| `cv_queue` | the wait list of `commit_barrier_cv` |
| `gen_lock` | the holder of `gen_lock` in exclusive mode |
| `current_gen_num` | the field of that name, changed only behind the barrier |
| `pc[p]` | where process p is; `"inside"` stands for `pb_preparers_incremented` or `pb_holders_incremented` |

A step is one section under `cb_lock` or one call of the condition variable,
so every interleaving of the test of a counter, the going to sleep and the
broadcast of another process is explored.  `ConditionVariableSleep` is
PostgreSQL's and is modelled after its contract: the first call in a loop
only puts the process on the wait list (`Turn`, second disjunct), later calls
block until a broadcast has removed it, and the process puts itself back
before it looks again.  `ReleasePB` of a process that holds nothing is a step
that changes nothing.

### BarrierSpec.tla

What the barrier promises, without locks, counters and wait lists: a set of
processes that are writing a PREPARE, a set of holders that have announced a
switch, the holders that are behind the barrier, and the generation number.
A preparer enters only while no holder is announced (`Prepare`); a holder
excludes the preparers only when none is left (`Exclude`); only a holder
behind the barrier changes the generation (`Switch`).  It is a safety
specification.

`PrepareBarrier` is shown to implement it (`ImplementsBarrier`, run
`barrier`) under the mapping

| abstract | in `PrepareBarrier` |
|---|---|
| `preparing` | the preparers with `pc = "inside"` |
| `announced` | the holders that have `gen_lock`: `pc` in `check`, `recheck`, `sleep`, `inside` |
| `holding` | the holders with `pc = "inside"` |
| `gen` | `current_gen_num` |

The steps under `cb_lock` that only test a counter, go to sleep or wake up
are stuttering steps of the abstract barrier.  `announced` is mapped to the
owner of `gen_lock`, not to `n_prepare_holders`: a preparer that has read
`n_prepare_holders = 0` takes its next step with the count already stale,
and what keeps it from entering beside a holder is that the holder has not
passed its own test of `n_committers` yet.

### BgwPool.tla

The pool of apply workers of `src/src/bgwpool.c`.

| variable | code |
|---|---|
| `queue` | `pool->queue`, one entry per 4-byte word: the number of the job whose size or work was written there |
| `head`, `tail`, `pending`, `active`, `nWorkers`, `producerBlocked`, `shutdown` | the fields of `BgwPool` |
| `available`, `overflow` | the counts of the two semaphores |
| `producer` | whether the producer waits in `BgwPoolExecute` |
| `worker[w]` | waiting for the semaphore, past it, running a job, or gone |
| `submitted`, `executed`, `overrun` | history: sizes of the jobs submitted, what the executor was given, whether the tail ever caught up with the head |

| action | code |
|---|---|
| `BgwPoolExecute(size)` | the call: work larger than the buffer is run at once, otherwise the first turn of the loop (`Attempt`) |
| `ProducerWakes` | `PGSemaphoreLock(overflow)` returns, next turn of the loop |
| `WorkerTakes(w)` | `PGSemaphoreLock(available)` |
| `WorkerDequeues(w)`, `WorkerExits(w)` | the locked section after it: copy the job out and wake the producer, or leave on shutdown and pass the wake-up on |
| `WorkerFinishes(w)` | the executor returns |
| `BgwPoolStop` | sets `shutdown` and unlocks both semaphores once |

Positions are bytes, as in the code, so that the tests `size + 4` against
aligned positions are the code's; the content of the buffer is kept by word,
which is enough to see that a job was overwritten (`executed[i].intact`).
A worker that reads a size where no job was written reads the size of the job
that left the word there, or zero.  Left out: `lastPeakTime`, which is in
DeadlockDetector with the pool reduced to its counters, and the restart of
an exited worker by the postmaster.

### NodeState.tla

The status machine of the older code: `src/state.c`, `src/state.h`, and of
`src/multimaster.c` the functions the status machine is driven by
(`MtmInitialize`, `MtmWatchdog`, `MtmGetReplicationMode`,
`MtmReplicationStartupHook`, `MtmReplicationShutdownHook`,
`MtmCheckRecoveryCaughtUp`, `MtmRecoveryCaughtUp`, `MtmReleaseRecoverySlot`).

| variable | code |
|---|---|
| `mtm[n]` | the fields of `MtmState` (`Mtm->`) the status machine reads and writes: `status`, `disabledNodeMask`, `connectivityMask` (the row of every node), `clique`, `refereeGrant`, `refereeWinnerId`, `stoppedNodeMask`, `deadNodeMask`, `pglogicalReceiverMask`, `pglogicalSenderMask`, `originLockNodeMask`, `recoverySlot`, `recoveryCount`; masks are sets of nodes |
| `monitor[n]` | where the monitor is in `MtmRefreshClusterStatus`, and its local `newClique` |
| `recv[n][i]` | the WAL receiver of n from i and the sender that serves it: not started, mode chosen, streaming in recovery, caught up, connected, normal |
| `referee` | the winner the referee has decided, if any |
| `saved[n]` | the row of table `mtm.referee_decision` at n |
| `initialized[n]` | the static flag of `MtmRefereeGetWinner`: the saved row is read once per postmaster |
| `link` | the pairs of nodes that can reach each other |
| `faults` | the faults still allowed: how many, and of which kinds |

The handlers that run under `MtmLock` are operators from a record of node n
to a record (`MtmCheckState`, `MtmStateProcessEvent`,
`MtmStateProcessNeighborEvent`, `MtmDisableNode`, `MtmEnableNode`,
`MtmSetClusterStatus`), each ending with `MtmCheckState` where the code ends
with it; `MtmCheckState` is recursive as in the code (a switch to
`MTM_RECOVERED` or `MTM_ONLINE` checks again).  An action applies one of them
to `mtm[n]` in one step.

| action | code |
|---|---|
| `ArbiterReceiverStart(n)`, `MtmOnNodeConnect(n, i)`, `MtmOnNodeDisconnect(n, i)`, `MtmWatchdog(n, i)`, `Heartbeat(n, i)` | the arbiter's callbacks and the watchdog; a heartbeat carries the sender's own connectivity mask |
| `RefreshCheckState`, `MtmRefereeGetWinner`, `RefereeGrant`, `ClearLocal`, `RefereeClean`, `ForgetWinner`, `CliqueChanged`, `CliqueStabilized` | `MtmRefreshClusterStatus`, one action per locked section or call of the referee; what the function reads without the lock is read in the step that uses it |
| `MtmGetReplicationMode(n, i)` | the receiver chooses recovery (one slot, and from `donorNodeId[n]` only when the node is the copy of another) or normal replication |
| `MtmReplicationStartupHook(i, n)` | the sender at i starts and raises `WAL_SENDER_START_RECOVERY` or `..._RECOVERED` |
| `MtmCheckRecoveryCaughtUp(i, n)`, `MtmRecoveryCaughtUp(i, n)` | the sender is almost, then fully, through the WAL; n is enabled at i |
| `RecoveryFinish(n, i)`, `ReceiverStart(n, i)`, `ReceiverRestart(n, i)` | what the receiver (outside `src/`) does with the status machine |
| `LinkDown(p)`, `LinkUp(p)`, `Restart(n)` | faults |

`Init` is either the cold start (`MtmInitialize` on every node) or the
running cluster that a cold start without faults brings up (`Steady`).

The referee is asked in two steps, as in the code.  `MtmRefereeGetWinner`
is everything the monitor does without the lock: the call (line 441), the
fallback to the saved row, the store of `refereeWinnerId` (452) and the
test of the winner's bit (453).  `RefereeGrant` is the locked section that
follows (459 to 476): it tests the number of visible nodes and the winner's
bit again, and only then sets `refereeGrant`, enables the node and checks
the state.  The callbacks of both arbiters, the watchdog and the senders
run between the two steps, so the mask the grant is taken on is not the
mask the answer was asked for.

`Edge` leaves out the nodes of `deadNodeMask` as line 399 does.  The mask is
written by `mtm.referee_poll` only, an SQL function nobody calls here, so it
stays empty.  `MtmOnNodeDisconnect` tests the bit of the peer before it
takes the lock and returns when it is set; of the handlers only this one
sets the bit, and setting it twice changes nothing, so the test and the
locked section are one step.

Assumptions about code that is not under `src/`, marked `spec_modelled` in
the map:

* the arbiter raises `MTM_ARBITER_RECEIVER_START` once, calls
  `MtmOnNodeConnect` and `MtmOnNodeDisconnect` when a connection comes and
  goes, and copies the sender's connectivity mask from every heartbeat;
* the receiver raises `MTM_RECOVERY_FINISH1` when its sender says that it
  has caught up, and `MTM_NEIGHBOR_WAL_RECEIVER_START` when it is connected
  in normal mode, and starts over when its connection breaks or
  `recoveryCount` has moved;
* the referee gives the first node that asks the win and keeps it until
  `clean`; a call can fail before the referee acts (`unreachable`) or after
  it (`reply_lost`);
* `MtmFindMaxClique` returns a clique of maximal size; among several, the
  one with the smallest mask;
* a link that went down comes back only after the receivers across it have
  noticed (`LinkUp`): a replication connection does not survive an outage.

Left out: `stop_node`, `recover_node` and `resume_node` (`stoppedNodeMask`
stays empty), the dropping of a slot for lagging (`stalledNodeMask`), and the
3PC of `src/multimaster.c`.  With them go the ERRORs of
`MtmReplicationStartupHook` for a stopped or a stalled node; its ERROR for a
reconnect without recovery needs a receiver that asks for neither mode,
which `MtmGetReplicationMode` never returns.  Because the module has no
transactions, `MtmRecoveryCaughtUp` does not wait for
`nActiveTransactions == 0` (line 2160): a sender that is through the WAL
may say so at any moment, which allows every behaviour of the code and some
in which it says so earlier.  The load and the polls of prepared
transactions in `MtmGetReplicationMode` belong to Commit and TransList.

### MCNodeState.tla

Names the fault budgets the configurations use (`NoFaults`,
`OneRefereeFault`, `OneLinkFault`, `OneOutage`), the empty set of major
nodes, and `MCDonorNodeId`: every node is its own donor, none was populated
from a base backup of another.

### Commit.tla

The commit of one distributed transaction of node `Origin` in the older
implementation (`src/multimaster.c`), with the part of the status machine
(`src/state.c`) that the commit path reads.  The transaction is committed
by the extension (the COMMIT of the user) or, with `UserTwoPhase`, prepared
by name and finished by a later command of the user.

| variable | code |
|---|---|
| `mtm[n]` | `Mtm->status`, `disabledNodeMask`, `connectivityMask`, `nConfigChanges`, `refereeGrant` of node n |
| `ts[n]` | the `MtmTransState` of the transaction at n: `status`, `isLocal`, `isPrepared`, `isTwoPhase`, `votingCompleted`, `isActive`, `gtid.node`, `participantsMask`, `votedMask`, `nConfigChanges` |
| `tm[n]` | the entry of `MtmGid2State`: its `status` and whether `state` is set |
| `x[n]` | `MtmTx` of the backend (origin) or of the apply worker (participant) |
| `pc[n]` | where that process is |
| `pxact[n]` | the prepared transaction in the engine of n: none, prepared, precommitted, committed, aborted |
| `wal`, `applied[p]` | the records the origin has logged (PREPARE, PRECOMMIT, COMMIT PREPARED, ROLLBACK PREPARED) and how many of them p has taken |
| `msgs` | arbiter messages on their way to the origin |
| `link`, `referee`, `failed` | the network, the referee's winner, the faults that have struck |

| action | code |
|---|---|
| `MtmBeginTransaction` | `XACT_EVENT_START` in the backend |
| `MtmTwoPhaseCommit` | `MtmTwoPhaseCommit` up to the wait: `MtmPrePrepareTransaction`, the engine's prepare, the first part of `MtmPostPrepareTransaction` (`PrepareTransactionBlock`) |
| `PrepareTransaction` | PREPARE TRANSACTION of the user: `MtmProcessUtility` sets `isTwoPhase`, then the same callbacks |
| `Mtm2PCVoting` | one wake-up in the loop of `Mtm2PCVoting` with `MtmVotingCompleted`: precommit, or leave the loop (`AfterVoting`, then the recheck of `nConfigChanges`, `Recheck`) and go on in the caller: `Decide` in `MtmPostPrepareTransaction`, after which a transaction prepared by name is left to the user (`Prepared2PC`), `Confirm` in `MtmPreCommitPreparedTransaction` |
| `CommitPreparedCommand` | COMMIT PREPARED of the user up to the wait: `MtmBeginTransaction` refuses it on a node that is not online; `MtmPreCommitPreparedTransaction` forgets the votes, marks the transaction precommitted and logs that; a local transaction is ready at once |
| `FinishCommitPrepared` | the engine commits the prepared transaction after the callback and logs it; `MtmEndTransaction` |
| `RollbackPreparedCommand` | ROLLBACK PREPARED of the user: `MtmAbortPreparedTransaction`, the engine's rollback and its record |
| `Timeout2PC` | the deadline of the loop, which cancels a transaction that is not precommitted |
| `FinishPrepared` | the rest of `MtmTwoPhaseCommit`: `FinishPreparedTransaction` unless the transaction is suspended, and `MtmEndTransaction` |
| `Arbiter(msg)` | the arbiter of the origin takes a vote or an abort |
| `MtmJoinTransaction`, `ExchangeOnPrepare`, `PrePrepare`, `MtmPostPrepareTransaction`, `ExchangeAfterPrepare` | the apply worker of a participant on the PREPARE of the origin |
| `ApplyError` | the worker fails and `MtmEndTransaction` sends `MSG_ABORTED` |
| `MtmPrecommitTransaction`, `CommitPrepared`, `MtmRollbackPreparedTransaction` | the receiver of a participant on the later records |
| `MtmOnNodeDisconnect(n, i)` | `MtmOnNodeDisconnect` with `MtmDisableNode`, the poll of the prepared transactions of i, and `MtmCheckState` |
| `MtmRefreshClusterStatus(n)` | the monitor takes the referee's grant: the poll with `commitPrecommited`, `MtmEnableNode`, `MtmCheckState` |
| `LinkDown` | the network fails |

`MtmEndTransaction`, `MtmFinishPreparedTransaction` and
`MtmPollStatusOfPreparedTransactionsForDisabledNode` are operators: each is
called by several actions, and the whole of it belongs to the step of its
caller.  A prepared transaction is finished by a process that did not prepare
it, which finds the transaction state through the name in `MtmGid2State`;
`MtmFinishPreparedTransaction` builds the `MtmTx` that process has.
`MtmFinishPreparedTransaction` pins the state, gives up `MtmLock` for the
engine's `FinishPreparedTransaction` and takes it again (lines 3364 to
3393).  Here that is one step: the module has one transaction, a second
process that finishes it is refused by the engine (`~Prepared`), and the
handlers that run in the window change the state only through the status
the finish itself sets.  The window is a step of its own in TransList, where
the garbage collector runs inside it (`CursorStaysValid`).

Abstractions.  CSNs and snapshots are left out (a snapshot is there or not),
as are subtransactions, the counters of running and active transactions,
`abortedByNode` and error injection.  A transaction prepared by name has
written (`containsDML`).
`nConfigChanges` is compared for equality only, so a handler that bumps it
several times bumps it once.  A node that was disabled does not recover
while the transaction lives.  `MtmCheckState` is cut down to what two nodes
can reach without recovery (disabled, or online alone), and
`MtmRefreshClusterStatus` to the request for the grant; the whole of both is
in `NodeState`.

Modelled after what their callers in `src/` expect, because their code is not
in this tree: the engine (a prepared transaction is finished once, and only
if it exists; COMMIT PREPARED commits once its callback has returned, for
the callback has no result and `MtmPreCommitPreparedTransaction` raises no
error), the order in which the apply worker handles a PREPARE (join,
look the name up, prepare, look it up again), and the arbiter (a vote counts
in the round it belongs to; `MSG_ABORTED` aborts and wakes the backend).

### MCCommit.tla

Names the fault sets of the configurations: `LinkAndApply` and `LinkOnly`.

### Resolver.tla

The resolution of one prepared transaction (one gid) among the members of
the generation.  The acceptor is translated from `check_status_requests`;
the other side of the protocol is not in the tree and is modelled after
section 4.8 of `spec.md`.

| variable | code |
|---|---|
| `gtx[n]` | the `GlobalTx` entry of the transaction in n's shared memory: `state.status`, `state.proposal`, `state.accepted` |
| `pxact[n]` | the engine's transaction at n (none, prepared, committed, aborted) and the `state_3pc` logged with it |
| `txreq[<<s, n>>]`, `txresp[<<n, r>>]` | the dmq streams `txreq` and `txresp` between two nodes, in order |
| `res[r]` | the resolver of r: stage, term, the promises and the acceptances it has counted |
| `promised`, `broken` | history: the highest term a member has answered a status request for, and the members that accepted a term below it |
| `restarts` | restarts so far |

| action | code |
|---|---|
| `check_status_requests(n)` | one turn of the loop: take a message of one sender and handle it |
| `StatusRequest` | `MTReq_Status`: `StatusOfFinished` (the transaction is not in memory: answer from the log, or answer `GTXInvalid`; the row `GlobalTxSaveInTable` writes for it is read by nothing in the tree and is left out, and the entry `GlobalTxAcquire` makes for the answer goes with `GlobalTxRelease`), `StatusOfPrepared` (the term is above the proposal: log it and answer), `StatusRefused` (no answer) |
| `TwoAAccepted` | `MTReq_Preabort`, `MTReq_Precommit` with a term that is not below the proposal: log and remember status, proposal and accepted term, answer |
| `FinishRequest` | `MTReq_Abort`, `MTReq_Commit`: `FinishPreparedTransaction` and forget the entry |
| `RequestIgnored` | a 2A request or a decision for a transaction that is not in memory (the `continue` of line 2743, which also leaves the transaction of the loop open: no state of the module), a 2A request below the proposal |
| `LastTermRequest` | `T_MtmLastTermRequest`: answer `GlobalTxGetMaxProposal()` |
| `Restart(n)` | the node goes down and `MtmMonitor` starts again: `GlobalTxLoadAll` rebuilds the entry from the log, the streams to and from n are empty, the resolver of n starts over |
| `ResolverMain(r)` | a step of the resolver: `Discover` (take the transaction up under a new ballot), or receive one answer (`OnLastTermResponse`, `OnTxStatusResponse`, `On2AResponse`) and go on to the next phase when that answer completes a majority |

`StatusPromise` is what the status branch leaves in memory when it promises:
in the code nothing (lines 2706 to 2718 log the term and do not assign
`gtx->state.proposal`), which is the subject of the configuration
`resolver_agreement.cfg`.  `StatusPromise_Remembered` is the assignment the two
neighbouring branches make.

Assumptions about what is not in the tree.  The engine keeps the
`state_3pc` with the prepared transaction, finishes a transaction once, and
`SetPreparedTransactionState` changes the log only.  A stream delivers in
order and loses its content when one end restarts.  A resolver handles its
own node by calls (`dmq_pop_nb` takes messages of peers only), with the same
tests as the acceptor; it does not match an answer to the ballot it was sent
for, except by the stage it is in; it acts as soon as a majority has
answered; a resolver that has decided or was overtaken starts again with a
higher ballot.  The connected mask of `dmq_pop_nb` is left out: a message of
a sender that has gone is handled or lost, and both are modelled.

### MCResolver.tla

Names the members (1, 2, 3), the resolvers (1 and 3), the member that may
restart (2), and the two situations the coordinator leaves behind:
`Precommitting` (the precommit reached 1 and 2, not 3) and, in `LeftBehind`,
also a prepare that member 2 never received.  `AgreementUnlessAcceptorBreaks`
is `Agreement` for the behaviours in which only a member without a resolver
has accepted below its promise; put in the place of `Agreement` in
`resolver_agreement.cfg` it is violated by the same kind of behaviour, so
that the disagreement rests on the acceptor alone.

### Monitor.tla

The monitor of one node and the objects it creates, which live in the
engine and outlive the monitor process.

| variable | code |
|---|---|
| `table` | `mtm.cluster_nodes`: whether the node has a row of its own, and per peer no row, a row, or a row with `init_done` |
| `slots[p]` | the replication slots `mtm_slot_p` (logical) and `mtm_recovery_slot_p` that exist |
| `dmq_dest` | the peers with `Mtm->peers[].dmq_dest_id` set |
| `bgw` | every background worker registered so far: its kind, its node, whether it runs; a `BackgroundWorkerHandle` is an index |
| `inval` | an invalidation of a subscription or publication is queued for the monitor |
| `my_node_id` | `Mtm->my_node_id` is set |
| `pc` | the monitor is down, in its loop, between `MtmReloadConfig`'s read of the table and its callbacks, or has left by `proc_exit(0)` |
| `config_valid`, `mtm_cfg`, `resolver`, `campaigner`, `receivers` | the static flag and the locals of `MtmMonitor` |
| `new_cfg` | the configuration `MtmReloadConfig` has read |
| `missed`, `mixed`, `crashed` | history: an invalidation was taken during a reload; a campaigner was restarted; the monitor has died in its loop |
| `changes`, `deaths`, `errors` | bound counters |

| action | code |
|---|---|
| `MtmMonitor` | the function up to `for (;;)`: the wait for a configuration, `is_basebackuped` with the cleanup and `proc_exit(0)`, the start of resolver and campaigner |
| `MtmMonitorFails` | the same start when it ends with an ERROR: the table has peers and no row of this node (line 3131), or some but not all slots of the peers are there (`is_basebackuped`, line 2868); the monitor stays down and is started again |
| `MtmReloadConfig` | a turn that finds `config_valid` cleared, up to the read of the table |
| `ApplyConfig` | the rest of that turn: the callbacks in the order of the node ids (`Reloaded`, `start_node_workers`, `stop_node_workers`), the exclusion (`Excluded`), `config_valid = true`, and the restarts (`Supervised`) |
| `MonitorTurn` | a turn with a valid configuration: the restarts only |
| `Interrupted` | `CHECK_FOR_INTERRUPTS`: the monitor is told to stop, and is started again |
| `AddNode(p)`, `DropNode(p)`, `DropSelf` | the administrator changes the table; the change of the subscription or publication invalidates the configuration |
| `WorkerStops(h)` | a worker ends by an error of its own |

`start_node_workers` is one operator with the engine state before and after
and the point at which it fails: at the test for the slots of an `init_done`
node, at `ReplicationSlotCreate` of a slot that exists, or (chosen by
`ApplyConfig`) at the update of `init_done`.  What it has done up to that
point stays, except the update, which is rolled back with the transaction.
`CampaignerRestarted` assigns the new handle to `resolver`, as line 3287
does; `CampaignerRestarted_InPlace` is the loop with the handle assigned to
`campaigner`.

Assumed of the engine: a dynamic background worker goes on when the process
that registered it ends; `ReplicationSlotCreate` raises an ERROR when the
slot exists; a persistent slot survives the ERROR of the transaction that
made it; an update that finds no row succeeds; invalidations are accepted
at the start of every transaction, so that `pubsub_change_cb` runs inside
the callbacks of `MtmReloadConfig`.  Assumed of `MtmReloadConfig`, which is
not in the tree: it compares the new table with the configuration it is
given, starts before it stops, goes by node id, and calls the start
callback for every node when it is given `NULL`.

Left out: the upgrade of `mtm.syncpoints`, replication origins, the dmq
streams the monitor subscribes to, and `check_status_requests`, which is in
Generations and Resolver.

### MCMonitor.tla

Names the peers (2 and 3) and the two tables a monitor may find at its first
start: a fresh cluster with peer 2 added, and the copy of a node that had
both peers `init_done` (rows, no slots).

### DeadlockDetector.tla

The deadlock detector of `src/multimaster.c` on every node, with the lock
manager, the transactions and the replication stream as its environment.

| variable | code |
|---|---|
| `outcome[t]` | the transaction has not begun, runs, is committed or aborted |
| `holds[n]`, `waits[n]` | the lock table of node n: whose lock is granted, whose process sleeps on `proc->waitLock` |
| `deadlockTimer[n]` | the waiters with `DEADLOCK_TIMEOUT` armed |
| `received[n]` | what the receiver of n has put in the queue of the pool |
| `pending[n]`, `active[n]`, `nWorkers[n]` | `pool->pending`, `pool->active`, `pool->nWorkers`, as sets of jobs |
| `lastPeakTime[n]` | `pool->lastPeakTime` as its age: not at the peak, at the peak for less than `DeadlockTimeout`, for longer |
| `MtmXid2State[n]` | the local xids that have an entry in the hash of that name |
| `lockGraphData[n][p]` | `Mtm->nodes[p].lockGraphData` on node n, as a set of edges |
| `wal[<<p, n>>]` | the "L" messages of p that the receiver of n has not applied yet |

| action | code |
|---|---|
| `MtmDetectGlobalDeadLock(n, t)` | the timeout of a waiter expires: `MtmDetectGlobalDeadLockForXid` with `Publish` (the message), `MtmGraphAdd` (own graph and the peers'), `HasLoop`, `Stalled`, and `EnableTimeout`; on "deadlock" the lock manager ends the waiter, and a worker that ends so leaves the pool by `WorkerDone` |
| `mtm_check_deadlock(n, t)` | the SQL function: the same call with a given xid; its answer goes to the client only, the message to the WAL |
| `MtmUpdateLockGraph(n, p)` | the receiver of n applies the next message of p |
| `MtmExecute(n, t)` | the receiver hands a transaction to the pool: `BgwPoolExecute` either puts it in the queue (`Enqueued`, with `BgwStartExtraWorker` and the start of a peak) or finds the queue full (`ProducerBlocked`: the peak starts, the receiver waits and tries again) |
| `BgwPoolMainLoop(n, t)` | a free worker takes the job (start of a peak), joins the transaction (`MtmJoinTransaction` makes the state `MtmGetGtid` reads) and asks for the lock |
| `Tick(n)` | the peak gets older than `DeadlockTimeout` |
| `Begin`, `Grant`, `Commit`, `Finish` | the environment: a backend starts a transaction and asks for its lock; the lock manager wakes a waiter; the transaction holds its lock on every node; its process on a node ends and releases |

A transaction takes one lock on each node, first at its origin; `Conflicts`
says which transactions want the same one.  Lock modes, several locks per
transaction and the order of commit records are left to the engine: a wait
is an edge from the waiter to every holder, which is what
`MtmSerializeLock` writes for one.  `MtmGraphFindLoop` and the graph
(`ddd.c`, not in the tree) are the reachability of the root from itself.
`disabledNodeMask` is a constant: the detector reads it, the status machine
that writes it is NodeState.  The stream from p to n holds at most
`MaxInFlight` messages; when p writes one more, n applies the oldest first,
so that a writer never waits for a reader, as in the code.

The test `if (lockGraphData == NULL) return true` at line 5538 looks at the
copy that was allocated two lines above it and never fires; a peer that has
not sent a graph yet has `lockGraphDataUsed = 0` and adds nothing.  The
model follows the code.

The membership is fixed and every enabled node is online.  `MtmExecute` and
`MtmJoinTransaction` therefore take their ordinary branch: no node is in
`MTM_RECOVERY` (where `MtmExecute` runs the job in the receiver itself),
every transaction arrives once and with its snapshot, and its participants
are live nodes, so the ERROR of `MtmJoinTransaction` is not raised.  The
queue of a pool has room for `QueueJobs` jobs, a count where the code has
bytes (the ring buffer in bytes is the module BgwPool): a receiver that
finds it full starts the peak (`lastPeakTime`), which is the one thing of
the blocked producer the detector reads.

### TransList.tla

The transaction states of one node of the older implementation.

| variable | code |
|---|---|
| `MtmXid2State` | the entries of the hash, used and free: `xid`, `status`, `gtid.node` (`node`), `isLocal`, `isActive`, `isPinned`, `isEnqueued`, `votingCompleted`, `nSubxids`, `next`, `activeList`, and `inHash` for whether `HASH_FIND` finds the entry |
| `transListHead`, `transListTail` | `Mtm->transListHead`, `Mtm->transListTail` (the entry whose `next` the tail points to, 0 for the head) |
| `activeTransList` | `Mtm->activeTransList`, the head of the ring (0 stands for its address) |
| `gcCount` | `Mtm->gcCount` |
| `disabledNodeMask` | the bit of the neighbour in `Mtm->disabledNodeMask` |
| `pc` | how far each transaction has come: begun, joined, prepared, voted, loaded after a restart, done |
| `poll` | the walk of `MtmRefreshClusterStatus` over the list: idle, on a pinned state without the lock, back with the lock, or hung; the state it stands on and the xid that state had when it was pinned |
| `relinked` | history: `MtmTransactionListAppend` has appended an entry the list still led to |
| `restarts` | restarts of the node so far |

| action | code |
|---|---|
| `MtmBeginTransaction(x)` | `MtmBeginTransaction`: `MtmAdjustOldestXid` when `gcCount >= MtmGcPeriod` |
| `MtmJoinTransaction(x, withState)` | `MtmJoinTransaction` of the apply worker; without a snapshot or in recovery no state is made |
| `MtmPrePrepareTransaction(x)` | `MtmPrePrepareTransaction`: `MtmCreateTransState`, the count of committed children, `MtmActivateTransaction`, `gcCount += 1`, `MtmTransactionListAppend`, `MtmAddSubtransactions`; refused for a disabled coordinator |
| `ApplyFails(x)` | `MtmEndTransaction(x, false)` of a replicated transaction without a state: the aborted state it makes, appends and deactivates |
| `OutOfSharedMemory(x)` | `hash_search` finds no free entry |
| `MtmPostPrepareTransaction(x, agreed)` | `MtmPostPrepareTransaction`: the participant has voted; the coordinator has the result of `Mtm2PCVoting` |
| `MtmPrecommitTransaction(x)` | `MtmPrecommitTransaction` on a participant |
| `MtmEndTransaction(x)` | `MtmEndTransaction` of the coordinator |
| `MtmEndPrepared(x, commit, newCsn)` | `MtmEndTransaction` of the process that applies COMMIT PREPARED or ROLLBACK PREPARED and finds the state by its gid |
| `VacuumDelayPasses` | time: every CSN given so far gets older than `MtmVacuumDelay` |
| `MtmDisableNode(n, online)` | `MtmDisableNode` with its poll when the node is online |
| `MtmEnableNode(n)` | `MtmEnableNode` |
| `MtmRefreshClusterStatus`, `FinishPreparedTransaction`, `PollGoesOn` | the poll under the referee's grant: the walk to the next state to finish with `isPinned = true` and `MtmUnlock`; what the engine's `FinishPreparedTransaction` calls (`MtmBeginTransaction`, `MtmEndTransaction`); `MtmLock`, `isPinned = false` and the walk from `ts->next` |
| `MtmPollStatusOfPreparedTransactions` | the poll before recovery, which finishes nothing |
| `Restart` | shared memory made anew by `MtmInitialize`, and `MtmLoadPreparedTransactions` at the first `MtmGetReplicationMode` |

The operators of the lists are functions of a record `Heap` of the five
variables they work on, so that an action composes them in the order of
the code (`MtmTransactionListAppend(MtmActivateTransaction(MtmCreateTransState(...)))`)
and `Store` assigns the result.  `Sweep` is the loop of
`MtmAdjustOldestXid` as written, with `start` moved when the first state of
the ring is collected; the loop ends in front of the head of the ring,
which is no transaction, so the state it looks at is never `NULL`.  `MtmAbortTransaction` and `MtmAdjustSubtransactions`
are applied wherever the code calls them (the end of a transaction, the
precommit, a vote that fails); `AddSubxids` and `AdjustFrom` are their
loops.

Abstractions and what they rest on:

* **Pointers are slots.**  A pointer to a state is the number of its entry,
  `NULL` is 0.
* **The hash.**  dynahash is part of the engine and not in the repository.
  The model takes from it that `HASH_REMOVE` puts the entry on the free
  list and leaves its content, and that `HASH_ENTER` of a new key hands
  out a free entry and sets only the key: `MtmCreateTransState` and
  `MtmEndTransaction` then reset `isEnqueued` and `isActive`
  (`if (!found)`) and assign some of the other fields, never `next`.
  Which free entry is handed out is not determined.  `MtmGid2State` is
  entered and removed together with `MtmXid2State` and has no variable.
* **CSNs.**  The garbage collection only asks whether a CSN is older than
  `MtmVacuumDelay`: the state has the flag `aged`, reset by everything
  that assigns a new CSN and set for all states by `VacuumDelayPasses`.
  A state loaded after a restart has the CSN 0 the zeroed memory gives it
  and is aged at once.
* **xids.**  A transaction is known by one number; that
  `MtmLoadPreparedTransactions` gives a loaded transaction a new xid is
  left out.
* **The lock.**  All handlers run under `MtmLock` and are one step each.
  `MtmLock` counts (`MtmLockCount`): `MtmDisableNode` is called with the
  lock held and takes it again, so the `MtmUnlock` of
  `MtmFinishPreparedTransaction` releases nothing there, and that poll is
  one step (`PollDisabled`).  `MtmRefreshClusterStatus` holds it once, and
  its poll is the three actions above.  One such poll runs at a time (the
  monitor is one process).
* **The finish inside the poll.**  `FinishPreparedTransaction` of the
  engine starts a transaction, so `MtmBeginTransaction` may collect
  garbage before `MtmEndTransaction` sets the status (`FinishPinned`).
* **The status of the node** is not a variable: `online` and `withState`
  are inputs of the actions that read it, and a restart leaves the
  neighbour disabled as `MtmInitialize` does.
* **A walk that never ends.**  A poll that comes to a state it has passed
  sets `poll.phase = "hung"`: it holds `MtmLock` for ever, and the only
  step left is a restart.

Properties: `CursorStaysValid` (while the poll of
`MtmRefreshClusterStatus` is without the lock, and when it has it back, the
entry it stands on is still the state of the transaction it pinned),
`ListedUnlessRelinked` (a transaction in doubt is reachable from
`transListHead` unless an entry that was still linked has been appended
again), and, violated, `InDoubtIsListed`, `PollReturns`,
`FinishedIsSwept` and `ChildrenHaveStates` (section 3).

### MCTransList.tla

Three transactions, 1 and 2 coordinated by this node and 3 by its
neighbour; transaction 1 has one committed subtransaction, with xid 4.

### MCDeadlockDetector.tla

The transactions and conflicts of the instances: `TwoTxn` with `Cross` (a1
of node 1 and a2 of node 2 want the same lock), `ThreeTxn` with
`CrossOrStall` (b1 of node 1 wants the lock of a2 as well and competes with
a1 for the one worker of node 2), `FourTxn` with `Stall` (no two
transactions wait for each other, both pools stall), and `NeverStalled`,
the detector without the test of `lastPeakTime`.

### Session.tla

One session of `src/multimaster.c`, a backend or an apply worker, between
the hooks the engine calls.  The module has no MC module: its constants are
plain values, given in the configurations.

| variable | code |
|---|---|
| `MtmIsLogicalReceiver`, `login`, `workload` | the process is an apply worker; the user the session came in as; which statements the session issues (a bound, see below) |
| `x` | `MtmTx`: `isReplicated`, `isDistributed`, `containsDML`, `isTransactionBlock`, `isTwoPhase`, and whether `snapshot` is valid |
| `MtmDDLStatement` | the pointer of that name: `NULL`, the depth of the statement it points to, or `Stale` when that statement is not executed any more |
| `MtmGuc` | `MtmGucHash` (is it there) and `MtmGucList` (the entries in order) |
| `MtmLocalTables` | the tables in the hash of local tables: the one `mtm_make_table_local` has entered, the one without a primary key |
| `aside` | `MtmVacuumStmt`, `MtmIndexStmt`, `MtmDropStmt`, `MtmTablespaceStmt` of an apply worker |
| `wal`, `flushed` | the logical messages of the transaction in order ("D", "E", "W" for rows, "B" for a table copy, "N" for a sequence value), and the number of messages "C" flushed at once |
| `open` | the statements being executed, outermost first, with what the hooks read of each when it returns |
| `txn`, `savepoint`, `guc`, `catalog`, `atStart`, `MyXactAccessedTempRel` | the engine: the state of the transaction, what a rollback to the savepoint or of the transaction restores, the settings of the session, the row of `mtm.local_tables`, the flag for temporary tables |
| `drift`, `nstmt` | history: the settings changed by a statement `MtmGucSet` does not follow; bound counter |

| action | code |
|---|---|
| `MtmProcessUtility(stmt)` | the utility hook up to `standard_ProcessUtility`: the `Switch` over the kind of statement, `MtmProcessDDLCommand` when the statement is sent, the statements put aside by a worker |
| `Refused` | CREATE DATABASE and DROP DATABASE, which the hook refuses with an error |
| `UtilityReturns` | the hook after `standard_ProcessUtility`: the test for temporary tables, `MtmFinishDDLCommand`, the reset of `MtmDDLStatement` |
| `MtmExecutorStart(q)`, `MtmExecutorFinish` | the executor hooks: a query that calls a remote function is sent as DDL; a query that has written sets `containsDML`, unless the table has no primary key and is made local |
| `mtm_make_table_local`, `mtm_broadcast_table`, `MtmSeqNextvalHook` | functions called inside a query |
| `VariableSet(stmt, ok)`, `Discard` | SET, RESET and DISCARD ALL: `MtmGucSet` outside a transaction block, a DDL inside one; `ok` is whether the engine accepts the statement |
| `Begin`, `Savepoint`, `RollbackTo`, `Release` | transaction control, with `MtmCreateSavepointContext` and `MtmRestoreSavepointContext` |
| `Commit(voted)`, `CommitCommand(voted)`, `Prepare`, `Rollback` | the end of the transaction: `MtmTwoPhaseCommit` decides whether it is the commit of module Commit, whose outcome is `voted`; `MtmEndTransaction` and `MtmResetTransaction` |
| `Error` | an error in a statement that is being executed |

`MtmGucInit`, `MtmGucUpdate`, `MtmGucRemove`, `MtmGucSet`, `MtmGucDiscard`
and `MtmGucSerialize` are operators over the list.  The text of a message
is left out; the SET commands it begins with are kept as the list
`MtmGucSerialize` returns, and `Replay` is what an apply worker has after
`RESET SESSION AUTHORIZATION; reset all;` and those commands.  `Context` is
`Replay` of what a DDL sent now would carry.

Assumed of the engine, which is not in the tree: SET of
`session_authorization` takes the role back to its default; RESET ALL
leaves the user and the role; a setting changed in a transaction that is
rolled back, or after a savepoint that is rolled back to, goes back; SET
LOCAL outside a transaction block has no effect; DISCARD ALL is refused in
a transaction block; an error leaves every statement being executed; the
messages of a subtransaction that is rolled back are not decoded;
`XACT_EVENT_START` comes once in a transaction.  The node is online.

The properties `ContextFollowsSession`, `MarkerIsLive` and
`HashFollowsCatalog` say what comments in the code and the purpose of the
three mechanisms say; they are violated (section 3).  The run checks what
holds of the same state: `ContextFollowsTracked`, `MessagesPaired` and
`WrittenMeansTwoPhase`.

## 3. Runs

| run | bounds | result |
|---|---|---|
| `gen_safety` | 3 nodes, `MaxGenNum = 3`, `MaxBallots = 3`, no restart | passes, about 200 000 states: `TypeOK`, `OnlineOnlyInViableGen`, `OnlineMeansSettled`, `OnlineKeepsPromise`, `LastVoteNeverDecreases` |
| `gen_restart` | 3 nodes, `MaxGenNum = 3`, `MaxBallots = 2`, `MaxCrashes = 2`, `MaxExits = 1`, history of ballots | passes, about 157 000 states: `StateIsSaved`, `ReceiveModeMatchesStatus`, `FreshBallotNumbers` |
| `barrier` | 2 preparers, 2 holders, `MaxGenNum = 3` | passes, about 2 900 states: `NoSwitchDuringPrepare`, `NoLostWakeup`, `HolderGetsIn`, `ImplementsBarrier` |
| `pool` | buffer of 16 bytes, work of 2, 8, 12 and 16 bytes, 4 jobs, 1 static and 1 dynamic worker, `BgwPoolStop` at any moment | passes, about 89 000 states: `SemaphoreCountsJobs`, `IntactUnlessOverrun`, `WakeupIsPending`, `EveryoneLeavesOnShutdown` |
| `resolver` | 3 members, resolvers at 1 and 3, `MaxBallot = 2`, one restart of member 2, both initial situations | passes, about 844 000 states: `AgreementUnlessPromiseBroken`, `LogCoversMemory` |
| `connectivity` | 2 nodes from a cold start, connection 1 to 2 cut and mended at any moment, both postmasters restart, `MaxGenNum = 2`, `MaxInFlight = 1` | passes, about 104 000 states: `DonorIsKnown`, `ViewsConverge` |
| `nodestate` | 2 nodes with referee; cold start with at most one failed call of the referee, or a running cluster with one link failure or one crash | passes, about 236 000 states: `RecoveryFromSlot`, `GrantOnlyToWinner`, `StatusRechecked`, `EnabledByRecoveryOrGrant` |
| `commit` | 2 nodes with referee, one transaction, committed by the extension or prepared and finished by the user, `use_dtm`, at most one link failure and one failure of the apply worker | passes, about 2 900 states: `TypeOK`, `AtomicUnlessGrantedOrOverruled`, `AbortIsApplied`, `PrecommittedNeverAbortsAlone`, `VotingEnds` |
| `monitor` | 2 peers, both initial tables, `MaxChanges = 3`, `MaxDeaths = 2`, `MaxErrors = 2`, `MaxStarts = 9` | passes, about 659 000 states: `TypeOK`, `InitDoneHasSlots`, `ConfigFollowedUnlessMissed`, `ExcludedNodeIsQuiet` |
| `deadlock` | 2 nodes, one worker in each pool and a queue of one job (`QueueJobs = 1`), `ThreeTxn` with `CrossOrStall`, `MaxInFlight = 1` | passes, about 42 000 states: `LoopFoundWhenCurrent`, `EveryTransactionEnds` |
| `translist` | one node, a hash of 2 entries, transactions 1 and 2 of the node and 3 of its neighbour, `MtmGcPeriod = 1`, `use_dtm`, the neighbour disabled and enabled at any moment, one restart | passes, about 238 000 states: `CursorStaysValid`, `ListedUnlessRelinked` |
| `session` | one session, a backend of user alice or an apply worker, that issues either statements with savepoints (`MaxStmts = 3`, `MaxDepth = 2`) or settings and transaction control (`MaxSets = 1`); `multimaster.database_user` is mtm | passes, about 231 000 states: `ContextFollowsTracked`, `MessagesPaired`, `WrittenMeansTwoPhase` |

Every module has a type invariant.  It is a property of the runs
`gen_safety`, `commit` and `monitor`; the `TypeOK` of the other modules has
been checked with the bounds of their runs and is left out of them, in
favour of a property that says more.

Further configurations are kept beside the runs `PROJECT.json` lists:

| configuration | module | result |
|---|---|---|
| `gen_uniqueness.cfg` | `MCGenerations`, `MaxGenNum = 2`, `MaxBallots = 2` | `GenUniqueness` violated in 10 steps |
| `lagging_rejoin.cfg` | `MCGenerations`, `MaxGenNum = 3`, `MaxBallots = 2`, history of lag | `NoLaggingRejoin` violated in 9 steps |
| `donors_members.cfg` | `MCGenerations`, `MaxGenNum = 4`, `MaxBallots = 4` | `DonorsAreMembers` violated |
| `stale_on_tour.cfg` | `MCGenerations`, `MaxGenNum = 2`, `MaxBallots = 2`, `MaxExits = 1` | `OnTourMeansTouring` violated |
| `pool_overwrite.cfg` | `MCBgwPool`, as `pool` without `BgwPoolStop` | `JobsRunIntactOnce` violated in 6 steps |
| `pool_stranded.cfg` | `MCBgwPool`, as `pool` without `BgwPoolStop` | `ProducerNotStranded` violated in 4 steps |
| `commit_split.cfg` | `MCCommit`, as `commit` with the link failure only and without the user's PREPARE TRANSACTION | `Atomicity` violated in 16 states |
| `commit_user.cfg` | `MCCommit`, as `commit` with the link failure only and without referee | `CommitPreparedIsAtomic` violated in 15 states |
| `monitor_campaigners.cfg` | `MCMonitor`, as `monitor` | `OneCampaigner` violated in 6 states |
| `monitor_reload.cfg` | `MCMonitor`, as `monitor` | `ConfigFollowed` violated in 5 states |
| `monitor_partial.cfg` | `MCMonitor`, as `monitor` | `NewNodeStartsClean` violated in 4 states |
| `monitor_orphans.cfg` | `MCMonitor`, as `monitor` | `NoOrphanSlots` violated in 8 states |
| `resolver_agreement.cfg` | `MCResolver`, as `resolver` from `Precommitting`, no restart | `Agreement` violated in 15 states |
| `connectivity_wake.cfg` | `MCConnectivity`, 3 nodes with all connections up, both connections between 1 and 2 cut and mended at any moment, no restart, `MaxGenNum = 1`, `MaxInFlight = 1` | `ChangeWakesCampaigner` violated in 7 states |
| `referee_two_masters.cfg` | `MCNodeState`, 2 nodes with referee, cold start, one link failure | `NoSplitBrain` violated by a behaviour of 22 states |
| `deadlock_victims.cfg` | `MCDeadlockDetector`, as `deadlock` with `TwoTxn` and `Cross`, no fairness | `VictimIsDeadlocked` violated in 12 states |
| `deadlock_stall.cfg` | `MCDeadlockDetector`, as `deadlock` with `FourTxn` and `Stall` | `TypeOK`, `LoopFoundWhenCurrent` and `EveryTransactionEnds` hold, about 354 000 states in almost three minutes |
| `translist_cut.cfg` | `MCTransList`, as `translist` | `InDoubtIsListed` violated in 11 states |
| `translist_loop.cfg` | `MCTransList`, as `translist` | `PollReturns` violated in 9 states |
| `translist_leak.cfg` | `MCTransList`, as `translist` | `FinishedIsSwept` violated in 5 states |
| `translist_sub.cfg` | `MCTransList`, as `translist` | `ChildrenHaveStates` violated in 3 states |
| `session_context.cfg` | `Session`, as `session` with settings only | `ContextFollowsSession` violated in 2 states |
| `session_marker.cfg` | `Session`, as `session` with statements only | `MarkerIsLive` violated in 6 states |
| `session_local.cfg` | `Session`, as `session` with statements only | `HashFollowsCatalog` violated in 5 states |

What the violations show:

* **gen_uniqueness.cfg.**  `HandleGenVoteRequest` answers yes without recording
  the vote.  Node 1 ballots for generation 2 = {1,2} and node 2 votes for it;
  node 2, whose `last_vote` is still 1, ballots for generation 2 = {2,3} and
  node 3 votes for it; both win.
* **lagging_rejoin.cfg.**  The membership test before the lag check uses
  `my_node_id` as bit number.  A non-member whose successor is a member skips
  the check and ballots while lagging.
* **donors_members.cfg.**  `CampaignTour` makes a donor of every voter that is as
  advanced as the most advanced one, member of the candidate or not, while
  `struct MtmState` documents donors as a subset of the members.  It takes
  four ballots to separate the voters from the candidates this way.
* **stale_on_tour.cfg.**  Nothing clears `campaigner_on_tour` when the campaigner
  dies in a tour; the node keeps answering `MTM_ISOLATED`.
* **pool_overwrite.cfg.**  `BgwPoolExecute` admits a job that ends exactly at the
  head.  Work of 12 bytes fills the empty buffer of 16, the tail wraps to 0
  and equals the head; the test for room reads that as empty, and the next
  job is written over the first before a worker has taken it.  One worker
  then runs the second job in place of the first, and another runs what it
  finds at the wrong place.  `IntactUnlessOverrun` in the passing run shows
  that this is the only way jobs get damaged.
* **pool_stranded.cfg.**  After work of 2 bytes was queued and taken, head and
  tail are both 8.  Work of 12 bytes fits neither behind the tail (8 bytes
  left) nor in front of the head (8 < 12), so the producer blocks, with no
  job in the buffer whose worker could wake it.

* **referee_two_masters.cfg.**  `MtmRefreshClusterStatus` clears the winner in
  three steps: it deletes the local row, calls `referee.clean()`, and only
  then resets `refereeGrant` and `refereeWinnerId`, without `MtmLock` and
  without `MtmCheckState`.  Node 1 starts alone, wins and goes online by the
  grant; node 2 recovers from it and both are online; node 1 cleans the
  referee; the link fails before node 1 has reset its grant; node 2 sees
  half of the cluster, asks the referee, which has just forgotten node 1,
  and wins; node 1 still holds its grant when it notices the failure.  Both
  are online and each has the other disabled.
* **commit_split.cfg.**  Node 1 prepares, node 2 prepares and votes, node 1
  precommits and logs it, node 2 precommits and answers.  The link fails
  before the answer arrives.  Node 1 notices first: `MtmDisableNode` bumps
  `nConfigChanges` and `MtmCheckState` disables node 1.  The backend wakes
  up in `Mtm2PCVoting`; node 2 is disabled and no longer counted, so
  `MtmVotingCompleted` finds the second round complete and the status
  becomes unknown, ready to commit.  The recheck that follows in
  `MtmPostPrepareTransaction` finds
  `ts->nConfigChanges != Mtm->nConfigChanges`, aborts the transaction and
  sets `x->status = TRANSACTION_STATUS_ABORTED`, and `MtmTwoPhaseCommit`
  rolls the prepared transaction back.  Node 2 notices the failure next,
  keeps the precommitted transaction (it only asks the
  others about it), takes the referee's grant, and
  `MtmPollStatusOfPreparedTransactionsForDisabledNode` with
  `commitPrecommited` commits it.  The comment in `MtmVotingCompleted` says
  "We can not just abort precommitted transactions"; the recheck does.
  `AtomicUnlessGrantedOrOverruled` in the passing run shows that without
  the grant the two nodes never disagree about a transaction the extension
  commits, and `PrecommittedNeverAbortsAlone` that the participant's side
  of the rule holds.
* **commit_user.cfg.**  The user prepares a transaction by name; node 2
  prepares it and votes, and PREPARE TRANSACTION returns.  COMMIT PREPARED
  begins on node 1, which is online: `MtmPreCommitPreparedTransaction`
  forgets the votes, marks the transaction precommitted, logs that and
  waits in `Mtm2PCVoting`.  The link fails before node 2 takes the record.
  Node 1 notices: node 2 is disabled and no longer counted, the wait ends,
  and the recheck finds `ts->nConfigChanges != Mtm->nConfigChanges`, aborts
  the transaction state, sets `x->status = TRANSACTION_STATUS_ABORTED` and
  warns that it aborts the transaction.  Nothing reads that: the callback
  returns, the engine commits, and `MtmEndTransaction` turns the commit
  into an abort of the state alone.  Node 2 notices the failure, holds a
  transaction that is prepared and not precommitted, and rolls it back.
  `MtmTwoPhaseCommit` tests `x->status` after its prepare and rolls back;
  the path of the user has no such test.  COMMIT PREPARED likewise
  commits a transaction whose PREPARE TRANSACTION was aborted and ended
  with the warning "is aborted by DTM"; the property leaves that case
  aside.
  The passing run excepts the state in which the coordinator has committed
  what its own state calls aborted (`Overruled`), and shows that the path
  of the user is atomic otherwise: the coordinator decides to commit only
  on the votes of the second round.

* **connectivity_wake.cfg.**  Three nodes, everything connected.  The
  network stops carrying connection 1 to 2: the sender of node 1 notices,
  `MtmOnDmqSenderDisconnect` clears the bit of node 2 and wakes the
  campaigner, which runs.  Then connection 2 to 1 is lost as well; the
  receiver of node 1 leaves and its stop hook clears the receiver bit and
  the row of node 2.  The connected mask of node 1 was {3} before and is {3}
  after, so `changed` stays false and the campaigner sleeps on, although the
  matrix it computes the clique from is another one: before the hook the
  search could return {2,3}, a clique without node 1, after it only {1,3}.
  The heartbeat callback compares the row, the disconnect callback does
  not.  The campaigner learns of the change when its timeout ends (at most
  three seconds), so this delays an election and does not prevent it.

* **deadlock_victims.cfg.**  a1 holds its lock on node 1 and a2 on node 2;
  the worker of a1 waits on node 2 and the worker of a2 on node 1.  Both
  nodes have published their waits (here by `mtm.check_deadlock`; a first
  round of the detectors, too early to see the loop, does the same).  The
  timeout of a1 expires on node 2, whose detector has the graph of node 1,
  finds the loop and ends a1.  The message it wrote before the search, with
  the wait of a1 in it, reaches node 1.  Now the timeout of a2 expires on
  node 1: the detector joins the wait of a2 for a1, which is real until the
  rollback of a1 arrives, with the wait of a1 for a2, which is over, finds
  the loop and ends a2.  Both transactions of one deadlock are rolled back.
  `lockGraphData` of a peer is replaced by the peer's next message only,
  and a node that has no waiter left writes none.  The specification asks
  for "the victim"; no data is lost, and clients see two deadlock errors
  in place of one.
* **deadlock_stall.cfg** holds, and is beside the runs for its size.  b1
  is applied on node 2 and waits for a2, b2 is applied on node 1 and waits
  for a1; a1 and a2 are in the queues of the pools, whose one worker each
  is taken.  a1 cannot commit before it is applied on node 2, nor a2 before
  node 1.  No process waits for a lock in a loop, so the graphs never show
  one: what ends b1 or b2, and with it the stall, is the code's test of
  `lastPeakTime`.

* **resolver_agreement.cfg.**  Members 1 and 2 hold the transaction
  precommitted, member 3 prepared.  TLC reports one of several
  counterexamples of 15 states, which differ in the member that accepts a
  term below its promise.  In the one `AgreementUnlessAcceptorBreaks` asks
  for, it is member 2, which has no resolver and does everything in
  `check_status_requests`.  Resolver 1 takes term (1,1), member 2 answers
  its status request, and resolver 1, with the answers of a majority, both
  precommitted, accepts PreCommit under (1,1) at its own node and sends
  `MTReq_Precommit`.  Resolver 3 asks for the last term; member 2 answers
  `GlobalTxGetMaxProposal()`, which is still 0, and resolver 3 takes (1,3).
  Member 2 takes the status request of (1,3) first: it writes (1,3) into
  the log as the proposal, leaves `gtx->state.proposal` as it is, and
  answers.  Then it takes `MTReq_Precommit` of (1,1): the test of the 2A
  branch, `term_cmp(msg->term, gtx->state.proposal) < 0`, compares with
  what is in memory, and member 2 accepts.  Resolver 1 counts a majority
  of acceptances and commits at member 1.  Resolver 3 has the answers of
  members 2 and 3, neither with an accepted term and one only prepared,
  proposes PreAbort under (1,3), member 2 accepts that as well, and
  resolver 3 aborts at member 3.  In the other counterexamples the
  monitor of member 1 answers the status request of resolver 3 in the same
  way, and resolver 1 then accepts its own lower term at member 1.
  `AgreementUnlessPromiseBroken` in the passing run shows that the members
  disagree in no other way; with `StatusPromise <- StatusPromise_Remembered`
  in the same configuration they agree in every behaviour, that is once
  the status branch assigns the proposal as the branch for an unknown
  transaction (line 2690) and the 2A branch (line 2773) do.  The finding
  rests on the assumption stated above that `SetPreparedTransactionState`
  does not touch the entry in shared memory; the two other branches, which
  call it and assign the entry themselves, speak for it.

* **monitor_campaigners.cfg.**  The campaigner stops.  The next turn of the
  loop finds `campaigner` stopped, starts a new one and assigns its handle
  to `resolver` (line 3287).  `campaigner` is still the handle of the dead
  worker, so the turn after that starts another campaigner beside the
  first.  From then on nobody looks after the resolver, whose handle is
  lost, and when the node is dropped the exclusion branch terminates the
  last campaigner and the dead one: the resolver and the other campaigners
  go on (`ExcludedNodeIsQuietAfterRestarts`).  Both properties hold in
  the same configuration with the handle assigned to `campaigner`
  (`CampaignerRestarted <- CampaignerRestarted_InPlace`, about 510 000
  states), and `ExcludedNodeIsQuiet` in the passing run shows that the
  exclusion is complete as long as no campaigner was restarted.
* **monitor_reload.cfg.**  The monitor reads the table, which holds node 2.
  The administrator drops node 2.  `start_node_workers` for node 2 opens a
  transaction, which accepts the invalidation: `pubsub_change_cb` clears
  `config_valid`.  After the reload, line 3272 sets `config_valid = true`.
  The monitor now runs a receiver, two slots and a destination for a node
  that is not in the table, and will not look again until something else
  changes.  In the same way a node that is added during a reload is not
  started.  `ConfigFollowedUnlessMissed` in the passing run shows that
  this is the only way the monitor falls behind the table.
* **monitor_partial.cfg.**  `start_node_workers` for the new node 2 creates
  the recovery slot, the destination, the receiver and the logical slot, and
  fails at the update of `init_done` (or is interrupted before it commits).
  The monitor dies; the slots stay and the table still says that node 2 is
  new.  Every later start calls `ReplicationSlotCreate` for a slot that
  exists, and the monitor dies again before it reaches the restarts.
  `InitDoneHasSlots` in the passing run shows the other direction: what the
  table marks `init_done` always has its slots, so that the test at the
  head of `start_node_workers` never fails after a restart.
* **monitor_orphans.cfg.**  After the same failure the administrator drops
  node 2.  The monitor starts with `mtm_cfg = NULL`, finds nothing to start
  and nothing to stop, and the slots of node 2 stay for good.
  `stop_node_workers` is only ever called for what this monitor process
  started.
* **translist_cut.cfg.**  The neighbour is enabled.  Transaction 3, which
  it coordinates, is joined with a state in entry A and fails in the apply
  worker: its state is aborted and appended, the list is A.  Transaction 1
  of this node is prepared in entry B, appended after A, and its voting
  is complete: it is in doubt, the list is A, B.  `MtmVacuumDelay` passes.  Transaction 2
  begins, and `MtmAdjustOldestXid` frees A, which stays the head of the
  list.  Transaction 2 is prepared and gets entry A: `found` is false,
  `isEnqueued` is reset, and `MtmTransactionListAppend` sets the `next` of A
  to NULL and links A after the tail B.  The list is A alone, with
  B.next = A; transaction 1 is in doubt and no walk from `transListHead`
  comes to it.
* **translist_loop.cfg.**  Transaction 1 is prepared in entry A, commits
  and ends; the list is A and `transListTail` is `&A->next`.  After
  `MtmVacuumDelay` the begin of transaction 2 frees A.  Transaction 2 is
  prepared in A: `*Mtm->transListTail = ts` assigns `A->next = A`.  The
  next poll (`MtmRefreshClusterStatus` under the referee's grant here, any
  of the three loops over the list in general) never finds `ts == NULL`,
  and it holds `MtmLock` exclusively.
* **translist_leak.cfg.**  The neighbour is enabled, its transaction 3 is
  joined without a state (no snapshot, or the node is in recovery) and
  fails.  `MtmEndTransaction` makes an aborted state for the notification
  of the coordinator, appends it and calls `MtmDeactivateTransaction`; the
  state was never in the ring `MtmAdjustOldestXid` sweeps, and its entry is
  used for good.
* **translist_sub.cfg.**  Transaction 1 has a committed child.
  `MtmPrePrepareTransaction` writes the number of children to
  `ts->nSubxids`, `MtmTransactionListAppend` sets `ts->nSubxids = 0` as it
  enqueues the state, and `MtmAddSubtransactions(ts, subxids, ts->nSubxids)`
  is called with 0: the child has no state, and none of the later calls of
  `MtmAdjustSubtransactions` has anything to adjust.  In every behaviour
  of the model the two loops run zero times.

* **session_context.cfg.**  The shortest behaviour is one statement: alice
  issues a SET and the engine refuses it.  The utility hook
  has called `MtmGucSet` before the engine looked at the statement (line
  5124), so the list has the entry and the session has not.  The other
  ways the list and the session part: `SET LOCAL` outside a block,
  which the engine ignores and the list takes; a SET inside a transaction
  block, which the hook sends as DDL and does not enter in the list, though
  it stays in force after COMMIT; RESET ALL, after which the list is empty
  (`MtmGucDiscard`) and the engine has kept the user and the role; `SET
  session_authorization TO DEFAULT` and `RESET session_authorization`,
  after which no user is sent and the statement runs as
  `multimaster.database_user`; DISCARD ALL with an empty list, which
  returns before it destroys the hash, so that `MtmGucInit` does not enter
  the user again.  `ContextFollowsTracked` in the passing run shows that
  these are all: a setting none of them has touched is replayed as it is.
* **session_marker.cfg.**  BEGIN, SAVEPOINT, a DDL statement in which an
  error is raised while the engine executes it (here by a statement inside
  it that the hook refuses), ROLLBACK TO SAVEPOINT.  The hook had set
  `MtmDDLStatement` and written "D"; the error skipped line 5285, which
  clears it; the rollback took the "D" out of the log and left the pointer.
  Every later utility statement of the transaction finds `!MtmDDLStatement`
  false, is executed on this node and sent to no other, and the
  transaction commits.  `MessagesPaired` in the passing run shows that the
  messages themselves stay paired.
* **session_local.cfg.**  A query calls `mtm_make_table_local` and fails
  afterwards, and its transaction is rolled back.  `MtmMakeRelationLocal` has entered the table in the hash in
  shared memory (line 2326), the row of `mtm.local_tables` was inserted in
  the transaction and is gone with it.  The row filter of this node leaves
  the table out of replication until the node restarts and
  `MtmLoadLocalTables` reads the catalog; the other nodes replicate it.

The first three counterexamples of TransList rest on what the engine's hash does with a removed entry (see
TransList.tla above): with a hash that cleared an entry when it hands it
out, the first two would need `isEnqueued` to survive, and the defect
would be a list that leads through freed memory instead.

The passing runs of Generations hold *in spite of* the defect
`gen_uniqueness.cfg` shows, because they are about one node's own state: what is checked is what the code does.

### Bounds

* Three nodes are the smallest cluster with a majority smaller than the
  whole and with two different majorities that overlap in one voter.
* `MaxBallots` bounds the ballots started in a behaviour and `MaxGenNum` the
  number a ballot may carry.  With three ballots a node can lose a tour, bump
  its vote from the refusal and win the next; a second campaigner can
  overtake it in between.  Each further ballot multiplies the state space by
  10 to 40, which is why restarts are explored with two ballots.
* `MaxCrashes = 2` lets one node restart twice or two nodes once, in any
  state, including between the vote for itself and the end of the tour.
* `MaxExits = 1` is one death of a campaigner.
* `History` switches on the history a property needs (`"ballots"` for
  `FreshBallotNumbers`, `"lagging"` for `NoLaggingRejoin`), so that the other
  runs do not tell states apart by it.

* PrepareBarrier: two preparers are needed for a preparer to enter while
  another leaves, two holders for a holder to announce itself while the other
  is behind the barrier (holders queue on `gen_lock`, so the second counter
  is 0 or 1; the preparer count reaches 2).
* BgwPool: in a buffer of four words work of 12 bytes fills it, work of 8
  bytes leaves one word, work of 2 bytes is not aligned and takes two words,
  and work of 16 bytes is larger than the buffer; four jobs let the tail go
  round once and meet the head from both sides.  Two workers are needed for
  the wake-up of `BgwPoolStop` to be passed on.

* NodeState: the referee is used in clusters of two only
  (`countZeroBits(SELF_CONNECTIVITY_MASK) == Mtm->nAllNodes/2` with a
  majority that the visible half does not have), so two nodes are the
  instance in which every line of the referee client runs; with two nodes a
  clique is one node or both.  The fault budget bounds the faults of one
  behaviour and names their kinds.  `nodestate` explores (a) every
  interleaving of a cold start, including one node starting alone, taking
  the grant, the other recovering from it and the winner being cleared,
  with one call of the referee failing at any point, and (b) from the
  running cluster one link failure or one crash at any later moment, the
  detection of it in any order by arbiter, watchdog, senders and receivers,
  and the heal.  Link failures and crashes *during* a cold start are beyond
  the five minutes of a run (more than three million states); that part of
  the state space is entered by `referee_two_masters.cfg` up to its
  counterexample only.  With three nodes the state space is out of reach
  as well, so cliques that differ between nodes are not explored.

* Commit: two nodes, because the grant of the referee, which the commit
  path takes into account (`commitPrecommited`), exists in clusters of two
  only, and because coordinator and one participant already disagree.  One
  transaction: the properties are about the outcome of one transaction on
  both nodes, and transactions share nothing that is modelled but the masks.
  The user chooses once between COMMIT and PREPARE TRANSACTION, and between
  COMMIT PREPARED and ROLLBACK PREPARED, at any moment after the prepare or
  never.
  `Faults` names the kinds of fault, each of which strikes at most once, at
  any moment: the link fails for good (before the PREPARE is taken, between
  the two rounds of votes, before or after the decision is logged), and the
  apply worker fails before it prepares.  `MaxConfigChanges = 8` bounds the
  type of `nConfigChanges` only; a link failure and the grant raise it to
  5 at most.
  With three nodes a participant that disables the coordinator would have a
  quorum without the referee; that case is not explored.

* Resolver: three members are the smallest generation in which two
  majorities differ, two resolvers the least that compete.  `MaxBallot = 2`
  lets a resolver that was overtaken, or that has decided, come back once
  with a higher term and meet what the first round left: accepted values,
  a finished transaction, a member without the entry.  One restart of
  member 2, the member without a resolver, at any moment, loses the
  messages to and from it and reloads its entry from the log.  Restarts of
  the resolvers' nodes multiply the states beyond the time of a run.  With
  three members a resolver has a majority of promises with its own and the
  first answer, so the branch of `OnTxStatusResponse` that only records an
  answer is not reached; it is with five members, which is out of reach.

* Monitor: two peers let `MtmReloadConfig` start one node and stop another
  in one reload and fail at the second of two starts.  Three changes of the
  table are enough for add, drop and add again of one node, or for the drop
  of the node itself after two changes; two deaths of workers for a
  campaigner and the resolver that is no longer looked after; two deaths
  of the monitor for a failed start followed by an interrupt.  `MaxStarts`
  bounds the workers registered, which grows with every restart; with 9
  every combination of the other bounds is reached except the longest
  chains of restarted campaigners.  The copied data directory has no slots
  at all; one with some slots is an ERROR at every start and changes
  nothing.

* Connectivity: the run has two nodes because a restart or the loss of a
  connection at any moment, with every callback a step of its own, gives
  some 300 000 states for two nodes when both connections may fail, and
  tens of millions for three.  With two nodes the row of a peer is empty or the node itself; the
  configuration with three nodes (`connectivity_wake.cfg`), in which a row
  tells of a third node and there is more than one clique, starts from a
  connected cluster and has a network that fails between nodes 1 and 2
  only.  `Established`, `Flaky` and
  `Restartable` say which connections are up at the start, which may fail
  and which nodes restart; faults are not counted, they may happen for
  ever.  `MaxInFlight = 1` bounds the heartbeats on their way in the whole
  cluster: a heartbeat still overtakes every change at its sender, and two
  callbacks of one node exclude each other by `connectivity_lock` anyway.
  `MaxGenNum = 2` lets every node raise `last_online_in` once, so that a
  value stored from an earlier heartbeat is stale.  One stop hook per
  connection is pending at a time (`~stopping[l]` in `ReceiverExits`).

* DeadlockDetector: a loop of waits over nodes needs two nodes and a
  transaction of each; the third transaction of the run shares the worker
  of node 2 with a1, so that a transaction in a loop may still be in the
  queue, may be behind a waiter that is not in the loop, and may lose its
  place at the lock to another one.  One worker per pool
  (`MtmWorkers = MtmMaxWorkers = 1`) is the pool at its limit; with more
  workers than transactions of the peers a pool never has a peak.  A stall
  of the pools without any loop takes two transactions of each node
  (`deadlock_stall.cfg`) and more states than a run has time for.
  `QueueJobs = 1` makes the second transaction of node 1 find the queue of
  node 2 full while the first waits in it; the configurations beside the
  run have `QueueJobs = 2`.  With
  `MaxInFlight = 1` a node reads a graph that is one or two messages behind
  its peer, which is what staleness needs; every transaction begins once.

* TransList: two entries are a hash that can be full, can hold a
  transaction in doubt beside a finished one, and can give a freed entry to
  a new transaction while the other is still in the list.  Three
  transactions, two of this node, let one be in doubt while the second
  finishes and the third begins with a garbage collection;
  `MtmGcPeriod = 1` is the least value of `multimaster.gc_period` (the
  default is 1000), with which every prepare makes the next begin collect.
  `MtmVacuumDelay` is not a number: `VacuumDelayPasses` may happen at any
  moment and ages every CSN given so far.  `MaxRestarts = 1`: a restart
  makes the hash anew, and the states it loads are what a second restart
  would load again.

* Session: one session, because the hooks share nothing with another
  session but the hash of local tables, which only grows.  A session
  issues either settings and transaction control or every other statement
  with savepoints (`Workload`); the two meet where a SET in a transaction
  block is sent as a DDL and where `MtmGucSerialize` makes the hash, and the
  session that issues settings has both.  `MaxDepth = 2` is a statement
  inside a statement, which is what `MtmDDLStatement` is for; `MaxStmts = 3`
  is, in one transaction, a DDL, a statement inside it and one after it, or
  three statements around a savepoint.  `MaxSets = 1` bounds the settings
  statements of one transaction, not of the session: the list grows over
  transactions of the session.  Four settings are
  the two the engine ties together (`session_authorization` and `role`),
  the one `MtmGucSerialize` treats by itself (`search_path`) and one other;
  one value besides the default tells a set from a reset.  The user alice
  is not `multimaster.database_user`, which is the case in which
  `MtmGucInit` enters the user; the apply worker is the session of that
  user.  The switches `ignore_tables_without_pk`, `volkswagen_mode` and
  `monotonic_sequences` have the values with which the hooks do the most:
  a table without a primary key is made local, VACUUM is sent, and the
  values of sequences are logged.

### Fairness

Generations: none.  Its properties are safety properties; `Spec` is
`Init /\ [][Next]_vars`.  The campaigner loop (a latch wait with a random
timeout) and the receivers would justify weak fairness of `Campaigner(n)` and
`Receiver(n)` for a liveness run, which is part of the plan.

PrepareBarrier: weak fairness of `Proceeds(p)` for every process, the steps
of p between its call of an acquire function and its return from the
release.  The operating system runs every process that can run, a PREPARE
and a generation switch come to an end, and a holder is not interrupted
(interrupts are held while it has `gen_lock`).  Nothing is assumed about when
a process *calls* the barrier.

BgwPool: weak fairness of `ProducerWakes` and of the steps of every worker,
for the same reason; the executor is assumed to return.  Nothing is assumed
about when the producer submits or whether the pool is stopped.

NodeState: none.  A node that restarts unnoticed by its peer stays in
`MTM_RECOVERED` with the peer disabled (the comment in `MtmCheckState` names
the case), so "every node is online again" does not hold under any fairness
the code justifies, and TLC's liveness check of the 200 000 states does not
end within the time of a run.  The properties of NodeState are invariants
and action properties.

Commit: weak fairness of the backend (`Backend`), of the arbiter taking a
message, of the worker and the receiver of every participant, and of
`MtmOnNodeDisconnect` at every node.  The backend is woken by its latch and
by its own timeout of the wait, the arbiter reads what arrives, the workers
are scheduled, and the watchdog disables a node whose heartbeats have
stopped for `MtmHeartbeatRecvTimeout`.  Not assumed: that the deadline of
`Mtm2PCVoting` passes (`Timeout2PC`), that the monitor asks the referee,
that a fault happens, or that the user ever finishes a transaction it has
prepared by name (`User` is outside `Backend`).  `VotingEnds` therefore
says that the wait ends, in either round of votes, by the votes or by the
detection of the failure alone.

Connectivity: for every connection, weak fairness of the two connect
callbacks, of `MtmOnDmqSenderDisconnect`, `MtmOnDmqReceiverHeartbeat`,
`ReceiverExits` and `MtmOnDmqReceiverDisconnect`, and strong fairness of
`MtmOnDmqSenderHeartbeat`.  dmq connects again and again to a destination
it has lost, sends a heartbeat every `heartbeat_send_timeout`, gives up a
connection that was silent for `heartbeat_recv_timeout`, and runs the stop
hook of a receiver that exits.  The heartbeat needs strong fairness only
because `MaxInFlight` makes a sender wait while the heartbeat of another
connection is on its way, which no sender in the code does.  Nothing is
assumed of the network, the postmasters or the generations: `ViewsConverge`
says what happens *if* the faults stop.

DeadlockDetector: weak fairness of `Grant`, `Commit` and `Finish` (the
lock manager wakes a waiter whose holders are gone, and a transaction whose
locks are granted everywhere, or whose outcome is known, comes to its
end), of `MtmExecute`, `BgwPoolMainLoop` and `MtmUpdateLockGraph` (the
stream delivers, a free worker takes a job, the receiver applies an "L"
message), of `Tick` (time passes) and of `MtmDetectGlobalDeadLock` (an
armed timeout expires while the process still waits; the action is
disabled only by the end of the wait).  Not assumed: that a client begins a
transaction or calls `mtm.check_deadlock`, nor anything stronger than weak
fairness: a waiter that loses the lock, or a job that loses the worker, to
another one again and again has no claim to its turn, and the property
holds without one because every transaction begins once.

Resolver: none, and no liveness property.  Two resolvers can overtake each
other for as long as they have ballots, so that resolution ends only if one
of them is left alone for long enough, which is a matter of the resolvers'
timing and not of the acceptor in this tree; and the liveness check of a
graph of this size does not end within the time of a run.

Session: none.  The properties are invariants; what a client issues next,
and whether it goes on at all, is up to the client.

Monitor: none.  The properties are invariants over what the monitor has
done; that a change of the table is eventually followed is exactly what
`monitor_reload.cfg` refutes.

Deadlock is checked in the runs of Generations, PrepareBarrier, NodeState
(a monitor can always take another round) and Connectivity (a campaigner
can always leave `WaitLatch` by its timeout); a node can
always campaign (possibly without effect) and a process can always call the
barrier.  The runs of BgwPool do not check it, because a pool that was
stopped, or whose `MaxJobs` jobs were all run, has nothing left to do; nor
do the runs of Commit and Resolver, in which the one transaction comes to
an end (or the ballots are used up), nor the run of Monitor, in which a
monitor that has left by `proc_exit(0)` is not started again, nor the run
of DeadlockDetector, in which every transaction begins once and nothing is
left to do when all have ended; that they do end is `EveryTransactionEnds`;
nor the run of TransList, in which every transaction begins once, and in
which a poll that walks a loop of the list stops the node.  The run of
Session checks it: a session without a transaction can always begin one,
and a transaction or a statement that runs can always come to its end.

## 4. Plan

Order of work, most important first; items 1 to 7, 9, 10 and 12 to 14 are
done, and of item 8 what the repository has code for.

1. **Generations** (done): election, switch, promotion, persistence, restart.
2. **PrepareBarrier** (done): `AcquirePBByPreparer`, `AcquirePBByHolder`,
   `ReleasePB` with the condition variable; exclusion of preparers and
   holders, holders get through, no waiting forever.
3. **BgwPool** (`src/src/bgwpool.c`, done): the ring buffer with producer and
   workers; every job is run once, unread bytes are never overwritten, the
   producer waiting for space and the workers waiting for work do not miss
   each other.
4. **NodeState** (`src/state.c`, done): the legacy status machine by events,
   with the referee client.
5. **Commit** (`src/multimaster.c`, done for one transaction): the
   three-phase commit on origin and participant with the loss of the link,
   and the two-phase commit of the user.
6. **BarrierSpec** (done): the abstract barrier and the refinement.
7. **Resolver** (done for one transaction): the acceptor of
   `check_status_requests` against resolvers after section 4.8 of the
   specification, with restarts.
8. **Commit, restart**: a crash of a node with a prepared transaction,
   `MtmLoadPreparedTransactions` and `MtmPollStatusOfPreparedTransactions`
   at recovery (done in TransList, for what they do to the states).  The
   poll requests are answered by the arbiter, which is not in the tree, so
   a property that every prepared transaction is finished in the end has
   nothing to be checked against.
9. **Monitor** (done): `MtmMonitor` with its reload, its exclusion and its
   restarts, `start_node_workers`, `stop_node_workers`, and the death of
   the monitor at any point.
10. **Connectivity** (done): the dmq callbacks, the matrix,
   `others_last_online_in`, `MtmGetConnectivityClique` and
   `SetCatchupDonor`, with a network that fails and postmasters that
   restart.
11. A liveness run of Generations with stable connectivity under weak
    fairness, and an abstract election specification that Generations is
    shown to implement once the vote is recorded.
12. **DeadlockDetector** (done): the distributed deadlock detector with
    the lock graphs in the WAL and the stalled pool.
13. **TransList** (done): the transaction states, their two lists, the
    garbage collection and the polls.
    Subtransactions are part of it (`MtmAddSubtransactions`,
    `MtmTransactionListInsertAfter`, `MtmAdjustSubtransactions`).
14. **Session** (done): the utility and executor hooks, the DDL messages,
    the list of settings, the savepoint callbacks, and `MtmTx` up to the
    decision for the two-phase commit.

## 5. Not modelled

* Of the connectivity tracker: `MtmFindMaxClique` (the Bron-Kerbosch
  search, outside `src/`) is the set of cliques of the greatest size, so
  that which of several the search returns is not told; a node that is not
  in the configuration (`FATAL` in `MtmOnDmqReceiverConnect`); the
  campaigner that is not running when it is woken.
* The Bron-Kerbosch clique search, dmq itself, the logical replication
  protocol (`pglogical_proto.h` only declares it) and PostgreSQL's WAL and
  lock manager are outside `src/`; their results are inputs.
* Of the monitor: the upgrade of `mtm.syncpoints` at its start, replication
  origins, and the walsender that holds the logical slot while
  `stop_node_workers` waits to drop it.  `MtmReloadConfig` and
  `MtmStartReceiver` are not in the tree and are modelled by what the
  monitor expects of them.
* SQL-callable reporting functions (`mtm_status`, `mtm_node_info`) only read
  state.
* The checksum and layout of the state file: a save is atomic and a short or
  corrupt file is an error at load.
* Of the older commit path: the answers to poll requests
  (`MSG_POLL_REQUEST` and `MSG_POLL_STATUS` are handled by the arbiter,
  which is not in the tree); the order of the CSNs of several transactions
  and the snapshots they see, which need the engine's visibility rules.
* Of the sessions: the text of a statement and the quoting of
  `MtmGucSerialize`; the apply worker's side of a message beyond the
  call of the same utility hook (the worker is not in the tree); the
  walsender's filters (`MtmReplicationRowFilterHook`,
  `MtmReplicationTxnFilterHook`, `MtmFilterTransaction`), which read the
  hash of local tables and the origin of a record in a process of their
  own and decide per row what the decoder, which is not in the tree,
  gives them; `MtmLoadLocalTables` after a restart; what a later statement
  does with a `MtmDDLStatement` that points to a statement that is gone,
  beyond the test for `NULL`.
* The administration of nodes in the older implementation (`mtm.add_node`,
  `mtm.stop_node`, `mtm.poll_node`, `MtmStopNode`, `MtmRecoverNode`,
  `MtmResumeNode`, `MtmBroadcastUtilityStmt`): each is a change of masks
  under `MtmLock` and the same SQL call sent to every other node over a
  connection of its own.  With them the state space of NodeState is out
  of reach, so `stoppedNodeMask` stays empty there; what is hard in them
  (slots and workers that outlive a failed step) is what Monitor checks of
  the newer implementation.  `_PG_init`, `MtmSplitConnStrs` and the other parsing
  of the configuration run once, in one process, before anything is
  shared.
* Of the transaction states: `MtmGid2State`, which is entered and removed
  together with `MtmXid2State`; the values of the CSNs and `MtmSyncClock`;
  the hash itself, which is the engine's; and a hash without a free entry
  inside `MtmAddSubtransactions` or `MtmLoadPreparedTransactions`, which
  no behaviour reaches (the first is never asked for an entry, the second
  runs on an empty hash).
* Of the deadlock detector: lock modes and several locks of one
  transaction (the lock manager's), the graph module `ddd.c` and the
  receiver that recognises an "L" message (not in the tree), a
  `disabledNodeMask` that changes while transactions wait, and
  `mtm_dump_lock_graph`, which only reads.
* Of the resolution of transactions: several transactions at once, the
  discovery of orphans and the timing of the resolver's retries (the
  resolver is not in the tree), the connected mask of `dmq_pop_nb`, and the
  transaction that `check_status_requests` leaves open when it skips a
  request with `continue` (line 2743), whose effect is the engine's.
* The apply worker and the arbiter of the older implementation
  (`pglogical_apply.c`, `arbiter.c`) are not in the tree; `Commit` takes
  from them only the order of the calls into `src/multimaster.c`.  Of the
  engine's `FinishPreparedTransaction` it takes that the transaction is
  committed after the callback of COMMIT PREPARED; a cancel of the query
  during the wait of that callback is left out.
