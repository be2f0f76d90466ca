------------------------------ MODULE Monitor ------------------------------
(***************************************************************************)
(* The monitor of one node (MtmMonitor, src/src/state.c): it starts the    *)
(* resolver, the campaigner and one receiver per peer, restarts the ones   *)
(* that have stopped, follows the table of nodes (start_node_workers for   *)
(* a peer that was added, stop_node_workers for one that was dropped) and  *)
(* winds everything up when the node itself was dropped.                   *)
(*                                                                         *)
(* The table mtm.cluster_nodes, the replication slots, the background      *)
(* workers and MtmReloadConfig belong to the engine and to files that are  *)
(* not in the tree; they are modelled as the monitor uses them.  What the  *)
(* monitor does with a request (check_status_requests) is in the modules   *)
(* Generations and Resolver.                                               *)
(***************************************************************************)
EXTENDS Integers, FiniteSets, Sequences, SequencesExt

CONSTANTS
    Peers,          \* ids of the nodes other than this one
    InitialTables,  \* what mtm.cluster_nodes holds when the monitor starts
    MaxStarts,      \* bound: background workers registered in a behaviour
    MaxChanges,     \* bound: changes of the table by the administrator
    MaxDeaths,      \* bound: workers that stop by an error of their own
    MaxErrors       \* bound: times the monitor dies by an ERROR or a signal

NULL == 0

ASSUME /\ Peers \subseteq Nat \ {NULL}
       /\ {MaxStarts, MaxChanges, MaxDeaths, MaxErrors} \subseteq Nat

VARIABLES
    table,         \* mtm.cluster_nodes: my row and a row per peer
    slots,         \* slots[p]: the replication slots that exist for peer p
    dmq_dest,      \* the peers with a dmq destination (Mtm->peers[].dmq_dest_id)
    bgw,           \* the background workers registered so far; a handle is an index
    inval,         \* an invalidation of the subscriptions waits for the monitor
    my_node_id,    \* Mtm->my_node_id is set
    pc,            \* where the monitor is: down, loop, reloading, exited
    config_valid,  \* the static flag of the monitor process
    mtm_cfg,       \* the configuration the monitor runs, NULL before the first
    new_cfg,       \* the configuration MtmReloadConfig has just read
    resolver, campaigner, receivers,   \* the handles the monitor holds
    missed,        \* history: an invalidation was taken during a reload
    mixed,         \* history: a campaigner was restarted
    crashed,       \* history: the monitor has died in its loop
    changes, deaths, errors

vars == <<table, slots, dmq_dest, bgw, inval, my_node_id, pc, config_valid,
          mtm_cfg, new_cfg, resolver, campaigner, receivers, missed, mixed,
          crashed, changes, deaths, errors>>

-----------------------------------------------------------------------------
(* The table, the slots and the workers                                    *)

Row == {"absent", "added", "init_done"}

MtmConfig == [my_node_id : BOOLEAN, nodes : [Peers -> Row]]

NoConfig == [my_node_id |-> FALSE, nodes |-> [p \in Peers |-> "absent"]]

Configured(cfg) == {p \in Peers : cfg.nodes[p] # "absent"}

AllSlots == {"recovery", "logical"}

Worker == [kind : {"resolver", "campaigner", "receiver"},
           node : Peers \cup {NULL}, alive : BOOLEAN]

ByNodeId(S) == SetToSortSeq(S, <)

\* What one turn of the monitor works on: the engine's objects and its own
\* handles, handed from one call to the next; ok is FALSE after an ERROR.
World == [table |-> table, slots |-> slots, dmq_dest |-> dmq_dest,
          bgw |-> bgw, resolver |-> resolver, campaigner |-> campaigner,
          receivers |-> receivers, ok |-> TRUE]

slot_exists(m, p, name) == name \in m.slots[p]

\* RegisterDynamicBackgroundWorker: the handle of the new worker is the
\* length of the result.
Registered(b, kind, node) ==
    Append(b, [kind |-> kind, node |-> node, alive |-> TRUE])

CampaignerStart(b) == Registered(b, "campaigner", NULL)

BGWH_STOPPED(b, handle) == ~b[handle].alive

TerminateBackgroundWorker(b, handle) == [b EXCEPT ![handle].alive = FALSE]

\* The handle lands in the slot of a neighbour.
MtmStartReceiver_WrongSlot(m, p) ==
    [m EXCEPT !.bgw = Registered(@, "receiver", p),
              !.receivers[CHOOSE q \in Peers : q # p] = Len(m.bgw) + 1]

\* receivers[node_id - 1] = MtmStartReceiver(node_id, ...)
MtmStartReceiver(m, p) ==
    [m EXCEPT !.bgw = Registered(@, "receiver", p),
              !.receivers[p] = Len(m.bgw) + 1]

-----------------------------------------------------------------------------
(* Workers of a peer                                                       *)

\* init_done is written before there is a slot to go with it.
start_node_workers_MarkedFirst(m, p, spi_ok) ==
    [m EXCEPT !.table.nodes[p] = "init_done", !.ok = spi_ok]

\* A node that has its slots, or a new one: the recovery slot, the dmq
\* destination and the receiver, the logical slot, and at last init_done
\* in the table, which is committed with the transaction.  The update
\* finds no row when the peer was dropped meanwhile.
start_node_workers(m, p, spi_ok) ==
    LET init_done == new_cfg.nodes[p] = "init_done"
        recovery  == [m EXCEPT !.slots[p] = IF init_done THEN @
                                            ELSE @ \cup {"recovery"}]
        received  == MtmStartReceiver(
                         [recovery EXCEPT !.dmq_dest = @ \cup {p}], p)
        logical   == [received EXCEPT !.slots[p] = @ \cup {"logical"}]
        marked    == [logical EXCEPT !.table.nodes[p] =
                         IF @ = "absent" THEN @ ELSE "init_done"]
        failed(w) == [w EXCEPT !.ok = FALSE]
    IN  CASE init_done /\ m.slots[p] # AllSlots            -> failed(m)
          [] init_done                                     -> received
          [] slot_exists(m, p, "recovery")                 -> failed(m)
          [] slot_exists(m, p, "logical")                  -> failed(received)
          [] ~spi_ok                                       -> failed(logical)
          [] OTHER                                         -> marked

\* The slots of the node are left behind.
stop_node_workers_KeepsSlots(m, p) ==
    [m EXCEPT !.dmq_dest = @ \ {p},
              !.bgw = TerminateBackgroundWorker(@, m.receivers[p]),
              !.receivers[p] = NULL]

\* The receiver is terminated and its destination, both slots and the
\* origin are dropped.
stop_node_workers(m, p) ==
    [m EXCEPT !.dmq_dest = @ \ {p},
              !.bgw = TerminateBackgroundWorker(@, m.receivers[p]),
              !.receivers[p] = NULL,
              !.slots[p] = {}]

\* All nodes with an init_done lack their slot: the data directory is a
\* copy of another node's.  Some of them do: an ERROR.
MissingSlots(cfg) ==
    {p \in Configured(cfg) :
        cfg.nodes[p] = "init_done" /\ ~slot_exists(World, p, "logical")}

is_basebackuped(cfg) == MissingSlots(cfg) = Configured(cfg)

-----------------------------------------------------------------------------
(* The loop                                                                *)

ResolverRestarted(m) ==
    IF BGWH_STOPPED(m.bgw, m.resolver)
      THEN [m EXCEPT !.bgw = Registered(@, "resolver", NULL),
                     !.resolver = Len(m.bgw) + 1]
      ELSE m

\* What the handle of a campaigner ought to be stored in.
CampaignerRestarted_InPlace(m) ==
    IF BGWH_STOPPED(m.bgw, m.campaigner)
      THEN [m EXCEPT !.bgw = CampaignerStart(@),
                     !.campaigner = Len(m.bgw) + 1]
      ELSE m

\* The handle of the new campaigner is assigned to resolver.
CampaignerRestarted(m) ==
    IF BGWH_STOPPED(m.bgw, m.campaigner)
      THEN [m EXCEPT !.bgw = CampaignerStart(@),
                     !.resolver = Len(m.bgw) + 1]
      ELSE m

ReceiverRestarted(m, p) ==
    IF m.receivers[p] # NULL /\ BGWH_STOPPED(m.bgw, m.receivers[p])
      THEN MtmStartReceiver(m, p)
      ELSE m

\* "Check and restart resolver and receivers if its stopped by any error."
Supervised(m) ==
    FoldLeft(ReceiverRestarted, CampaignerRestarted(ResolverRestarted(m)),
             ByNodeId(Peers))

\* The callbacks of MtmReloadConfig: the peers that are new to the monitor
\* are started, in the order of their ids and up to the first ERROR, and
\* then the ones that are gone are stopped.
ToStart == Configured(new_cfg) \ Configured(mtm_cfg)

ToStop == Configured(mtm_cfg) \ Configured(new_cfg)

Reloaded(m, fault) ==
    LET started == FoldLeft(LAMBDA w, p : IF w.ok
                                THEN start_node_workers(w, p, p # fault)
                                ELSE w,
                            m, ByNodeId(ToStart))
    IN  IF started.ok
          THEN FoldLeft(stop_node_workers, started, ByNodeId(ToStop))
          ELSE started

Excluded_HandlesOnly(m) ==
    [m EXCEPT !.bgw = TerminateBackgroundWorker(
                        TerminateBackgroundWorker(@, m.resolver),
                        m.campaigner),
              !.table = NoConfig]

\* "we were excluded from cluster"
Excluded(m) ==
    LET stopped == FoldLeft(LAMBDA w, p : IF w.receivers[p] # NULL
                                            THEN stop_node_workers(w, p)
                                            ELSE w,
                            m, ByNodeId(Peers))
    IN  Excluded_HandlesOnly(stopped)

\* The monitor process ends, by an ERROR or by proc_exit: what it held in
\* its own memory is gone, the workers it started go on.
Gone(m, state) ==
    /\ pc' = state
    /\ table' = m.table /\ slots' = m.slots /\ dmq_dest' = m.dmq_dest
    /\ bgw' = m.bgw
    /\ resolver' = NULL /\ campaigner' = NULL
    /\ receivers' = [p \in Peers |-> NULL]
    /\ mtm_cfg' = NoConfig /\ new_cfg' = NoConfig
    /\ config_valid' = FALSE /\ inval' = FALSE

Goes_on(m) ==
    /\ pc' = "loop"
    /\ table' = m.table /\ slots' = m.slots /\ dmq_dest' = m.dmq_dest
    /\ bgw' = m.bgw
    /\ resolver' = m.resolver /\ campaigner' = m.campaigner
    /\ receivers' = m.receivers

\* The start of the monitor ends in an ERROR: "multimaster is not
\* configured" without a row of its own, or "Missing ... replication slots"
\* of is_basebackuped when some slots are missing and others are not.  The
\* process holds nothing yet, and the postmaster starts it again.
MtmMonitorFails ==
    /\ pc = "down"
    /\ Configured(table) # {}
    /\ ~table.my_node_id \/ MissingSlots(table) \notin {{}, Configured(table)}
    /\ errors < MaxErrors
    /\ errors' = errors + 1
    /\ my_node_id' = (my_node_id \/ table.my_node_id)
    /\ UNCHANGED <<table, slots, dmq_dest, bgw, inval, pc, config_valid,
                   mtm_cfg, new_cfg, resolver, campaigner, receivers,
                   missed, mixed, crashed, changes, deaths>>

\* The start of the monitor up to its loop.  It waits until the table has
\* nodes.  The online upgrade of mtm.syncpoints before that is a change of
\* a table nothing here reads.
MtmMonitor ==
    /\ pc = "down"
    /\ Configured(table) # {} /\ table.my_node_id
    /\ MissingSlots(table) \in {{}, Configured(table)}
    /\ my_node_id' = TRUE
    /\ IF is_basebackuped(table)
         THEN Gone([World EXCEPT !.table = NoConfig], "exited")
         ELSE LET b == CampaignerStart(Registered(bgw, "resolver", NULL))
              IN  /\ Len(b) <= MaxStarts
                  /\ Goes_on([World EXCEPT !.bgw = b,
                                           !.resolver = Len(b) - 1,
                                           !.campaigner = Len(b)])
                  /\ UNCHANGED <<inval, config_valid, mtm_cfg, new_cfg>>
    /\ UNCHANGED <<missed, mixed, crashed, changes, deaths, errors>>

\* pubsub_change_cb, called where the process accepts invalidations.
pubsub_change_cb == config_valid /\ ~inval

\* A turn of the loop with a valid configuration.
MonitorTurn ==
    /\ pc = "loop" /\ pubsub_change_cb
    /\ LET m == Supervised(World)
       IN  /\ Len(m.bgw) <= MaxStarts
           /\ Goes_on(m)
           /\ mixed' = (mixed \/ BGWH_STOPPED(bgw, campaigner))
    /\ UNCHANGED <<inval, my_node_id, config_valid, mtm_cfg, new_cfg,
                   missed, crashed, changes, deaths, errors>>

\* CHECK_FOR_INTERRUPTS at the head of a turn: the monitor is told to stop
\* and the postmaster starts it again.
Interrupted ==
    /\ pc = "loop"
    /\ errors < MaxErrors
    /\ errors' = errors + 1
    /\ crashed' = TRUE
    /\ Gone(World, "down")
    /\ UNCHANGED <<my_node_id, missed, mixed, changes, deaths>>

\* A turn with an invalid one begins: the table is read.
MtmReloadConfig ==
    /\ pc = "loop" /\ ~pubsub_change_cb
    /\ pc' = "reloading"
    /\ new_cfg' = table
    /\ config_valid' = FALSE /\ inval' = FALSE
    /\ UNCHANGED <<table, slots, dmq_dest, bgw, my_node_id, mtm_cfg,
                   resolver, campaigner, receivers, missed, mixed, crashed,
                   changes, deaths, errors>>

\* The rest of that turn: the callbacks, the exclusion, config_valid, and
\* the supervision.  The transactions of the callbacks accept the
\* invalidations that have arrived since the table was read.
ApplyConfig ==
    /\ pc = "reloading"
    /\ \E fault \in ToStart \cup {NULL} :
         LET m      == Reloaded(World, fault)
             within == ToStart \cup ToStop # {}
             turned == Supervised(m)
         IN  /\ fault # NULL => errors < MaxErrors
             /\ Len(m.bgw) <= MaxStarts
             /\ errors' = IF fault # NULL /\ ~m.ok THEN errors + 1 ELSE errors
             /\ crashed' = (crashed \/ ~m.ok)
             /\ CASE ~m.ok ->
                       /\ Gone(m, "down")
                       /\ UNCHANGED <<my_node_id, missed, mixed>>
                  [] m.ok /\ ~new_cfg.my_node_id ->
                       /\ Gone(Excluded(m), "exited")
                       /\ my_node_id' = FALSE
                       /\ UNCHANGED <<missed, mixed>>
                  [] OTHER ->
                       /\ Len(turned.bgw) <= MaxStarts
                       /\ Goes_on(turned)
                       /\ config_valid' = TRUE
                       /\ mtm_cfg' = new_cfg /\ new_cfg' = NoConfig
                       /\ inval' = (inval /\ ~within)
                       /\ missed' = (missed \/ (inval /\ within))
                       /\ mixed' = (mixed \/ BGWH_STOPPED(m.bgw, m.campaigner))
                       /\ UNCHANGED my_node_id
    /\ UNCHANGED <<changes, deaths>>

-----------------------------------------------------------------------------
(* The administrator and the workers                                       *)

Changed(t) ==
    /\ changes < MaxChanges
    /\ changes' = changes + 1
    /\ table' = t
    /\ inval' = TRUE
    /\ UNCHANGED <<slots, dmq_dest, bgw, my_node_id, pc, config_valid,
                   mtm_cfg, new_cfg, resolver, campaigner, receivers,
                   missed, mixed, crashed, deaths, errors>>

\* mtm.add_node, mtm.drop_node: a row appears or goes, and the change of
\* the subscription invalidates the monitor's configuration.
AddNode(p) ==
    /\ table.my_node_id /\ table.nodes[p] = "absent"
    /\ Changed([table EXCEPT !.nodes[p] = "added"])

DropNode(p) ==
    /\ table.my_node_id /\ table.nodes[p] # "absent"
    /\ Changed([table EXCEPT !.nodes[p] = "absent"])

DropSelf ==
    /\ table.my_node_id
    /\ Changed([table EXCEPT !.my_node_id = FALSE])

\* A worker stops by an error of its own.
WorkerStops(h) ==
    /\ deaths < MaxDeaths /\ bgw[h].alive
    /\ deaths' = deaths + 1
    /\ bgw' = TerminateBackgroundWorker(bgw, h)
    /\ UNCHANGED <<table, slots, dmq_dest, inval, my_node_id, pc,
                   config_valid, mtm_cfg, new_cfg, resolver, campaigner,
                   receivers, missed, mixed, crashed, changes, errors>>

-----------------------------------------------------------------------------
Init ==
    /\ table \in InitialTables
    /\ slots = [p \in Peers |-> {}]
    /\ dmq_dest = {} /\ bgw = <<>>
    /\ inval = FALSE /\ my_node_id = FALSE
    /\ pc = "down" /\ config_valid = FALSE
    /\ mtm_cfg = NoConfig /\ new_cfg = NoConfig
    /\ resolver = NULL /\ campaigner = NULL
    /\ receivers = [p \in Peers |-> NULL]
    /\ missed = FALSE /\ mixed = FALSE /\ crashed = FALSE
    /\ changes = 0 /\ deaths = 0 /\ errors = 0

Next ==
    \/ MtmMonitor \/ MtmMonitorFails
    \/ Interrupted \/ MonitorTurn \/ MtmReloadConfig
    \/ ApplyConfig
    \/ \E p \in Peers : AddNode(p) \/ DropNode(p)
    \/ DropSelf
    \/ \E h \in DOMAIN bgw : WorkerStops(h)

Spec == Init /\ [][Next]_vars

-----------------------------------------------------------------------------
(* Properties                                                              *)

Handle == 0..MaxStarts

TypeOK ==
    /\ table \in MtmConfig /\ mtm_cfg \in MtmConfig /\ new_cfg \in MtmConfig
    /\ slots \in [Peers -> SUBSET AllSlots]
    /\ dmq_dest \subseteq Peers
    /\ bgw \in Seq(Worker) /\ Len(bgw) <= MaxStarts
    /\ {inval, my_node_id, config_valid, missed, mixed, crashed}
          \subseteq BOOLEAN
    /\ pc \in {"down", "loop", "reloading", "exited"}
    /\ {resolver, campaigner} \subseteq Handle
    /\ receivers \in [Peers -> Handle]
    /\ \A p \in Peers : receivers[p] # NULL =>
          /\ receivers[p] \in DOMAIN bgw
          /\ bgw[receivers[p]].kind = "receiver"
          /\ bgw[receivers[p]].node = p
    /\ changes \in 0..MaxChanges /\ deaths \in 0..MaxDeaths
    /\ errors \in 0..MaxErrors

Live(kind) == {h \in DOMAIN bgw : bgw[h].alive /\ bgw[h].kind = kind}

\* Once the monitor has started (and has told a copy from its own data),
\* a peer that the table marks init_done has both of its slots, so that
\* the test at the head of start_node_workers never stops the monitor:
\* start_node_workers sets init_done last and in the transaction that an
\* ERROR rolls back, and stop_node_workers drops the slots of a peer only
\* after its row is gone.
InitDoneHasSlots ==
    (pc # "down" \/ crashed) =>
        \A p \in Peers : table.nodes[p] = "init_done" => slots[p] = AllSlots

\* What node p has of this node: its receiver, its slots, its destination.
Runs(p)  == receivers[p] # NULL /\ slots[p] = AllSlots /\ p \in dmq_dest
Clear(p) == receivers[p] = NULL /\ slots[p] = {} /\ p \notin dmq_dest

\* When the monitor has a valid configuration and no invalidation waits,
\* it runs the peers of the table and nothing of any other node: the loop
\* of MtmMonitor reloads after every change of the table, with
\* start_node_workers for a peer that is new and stop_node_workers for one
\* that is gone.  Set aside are the changes whose invalidation arrived
\* while a reload was under way, and what a monitor that died has left.
ConfigFollowedUnlessMissed ==
    (pc = "loop" /\ config_valid /\ ~inval /\ ~missed /\ ~crashed) =>
        /\ Configured(mtm_cfg) = Configured(table)
        /\ \A p \in Configured(table) : Runs(p)
        /\ \A p \in Peers \ Configured(table) : Clear(p)

\* The same without the first exception: what the comment "check wheter
\* we need to update config" promises of the loop.
ConfigFollowed ==
    (pc = "loop" /\ config_valid /\ ~inval /\ ~crashed) =>
        Configured(mtm_cfg) = Configured(table)

\* The same without the second: a monitor that was restarted after an
\* ERROR of start_node_workers still leaves nothing of a node that is not
\* in the table.
NoOrphanSlots ==
    (pc = "loop" /\ config_valid /\ ~inval /\ ~missed) =>
        \A p \in Peers \ Configured(table) : slots[p] = {}

\* A node that was excluded, or that found itself to be a copy, is quiet
\* when its monitor has left: no worker runs, no slot and no destination
\* is left.  The exclusion branch of MtmMonitor stops the receivers and
\* terminates resolver and campaigner.  Set aside are a monitor that died
\* and left its workers, and a campaigner that was restarted.
ExcludedNodeIsQuiet ==
    (pc = "exited" /\ ~crashed /\ ~mixed) =>
        /\ \A h \in DOMAIN bgw : ~bgw[h].alive
        /\ \A p \in Peers : slots[p] = {}
        /\ dmq_dest = {}

\* The same with the restart of a campaigner.
ExcludedNodeIsQuietAfterRestarts ==
    (pc = "exited" /\ ~crashed) => \A h \in DOMAIN bgw : ~bgw[h].alive

\* One campaigner runs at a time, as long as the monitor itself has not
\* died: the monitor starts one and restarts it when it has stopped.
OneCampaigner == ~crashed => Cardinality(Live("campaigner")) <= 1

\* A peer that is new to the table has no slots, so that
\* start_node_workers can create them.
NewNodeStartsClean ==
    \A p \in Peers : table.nodes[p] = "added" /\ p \notin Configured(mtm_cfg)
                        => slots[p] = {}
=============================================================================
