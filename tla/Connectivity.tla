----------------------------- MODULE Connectivity -----------------------------
(***************************************************************************)
(* The connectivity tracker of multimaster (src/src/state.c, "Connectivity:*)
(* who sees who, clique calculation").                                     *)
(*                                                                         *)
(* Every node keeps two masks, the peers whose dmq receiver has delivered  *)
(* a heartbeat and the peers its dmq senders are connected to, the mask    *)
(* every peer reported in its last heartbeat (the connectivity matrix) and *)
(* the last_online_in every peer reported.  The campaigner reads them:     *)
(* MtmGetConnectivityClique makes the matrix symmetric and looks for a     *)
(* maximum clique, SetCatchupDonor picks the most advanced connected node. *)
(*                                                                         *)
(* dmq itself is not in the repository.  It is modelled by what the        *)
(* callbacks say of it: one connection per ordered pair of nodes, opened   *)
(* by the sender and served by a receiver process on the other node; a     *)
(* receiver gives up its handle before its stop hook runs, and only then   *)
(* can the sender connect again; heartbeats of a connection arrive in the  *)
(* order they were sent.  The generation manager is the environment: the   *)
(* last_online_in of a node grows, and survives a restart.                 *)
(***************************************************************************)
EXTENDS Integers, FiniteSets, FiniteSetsExt, Sequences

CONSTANTS
    NNodes,       \* configured nodes; their ids are 1..NNodes
    MaxGenNum,    \* bound: last_online_in of a node does not pass it
    MaxInFlight,  \* bound: heartbeats on their way in the cluster
    Established,  \* the connections that are up in the initial state
    Flaky,        \* the connections the network may stop carrying
    Restartable   \* the nodes whose postmaster may restart

ASSUME ConstantsOK ==
    /\ NNodes \in Nat \ {0}
    /\ MaxGenNum \in Nat \ {0}
    /\ MaxInFlight \in Nat \ {0}
    /\ Established \subseteq (1..NNodes) \X (1..NNodes)
    /\ Flaky \subseteq (1..NNodes) \X (1..NNodes)
    /\ Restartable \subseteq 1..NNodes

VARIABLES
    dmq_receivers_mask,     \* mtm_state->dmq_receivers_mask, per node
    dmq_senders_mask,       \* mtm_state->dmq_senders_mask, per node
    connectivity_matrix,    \* mtm_state->connectivity_matrix, per node
    others_last_online_in,  \* mtm_state->others_last_online_in, per node
    latch,                  \* the campaigner's latch is set (SIGUSR1)
    last_online_in,         \* mtm_state->last_online_in, also in the file
    sender,                 \* dmq sender of a connection, on the first node
    receiver,               \* dmq receiver of a connection, on the second node
    stopping,               \* receivers that gave up the handle, hook not run
    wire,                   \* heartbeats of a connection on their way
    cut                     \* connections the network does not carry

tracker == <<dmq_receivers_mask, dmq_senders_mask, connectivity_matrix,
             others_last_online_in>>
dmq     == <<sender, receiver, stopping, wire>>
vars    == <<tracker, latch, last_online_in, dmq, cut>>

-----------------------------------------------------------------------------
(* Data *)

Nodes    == 1..NNodes
NodeMask == SUBSET Nodes
GenNum   == 0..MaxGenNum

MtmInvalidGenNum == 0
MtmInvalidNodeId == 0

RECEIVE_MODE_NORMAL   == 0
RECEIVE_MODE_DISABLED == -1

IS_RECEIVE_MODE_DONOR(mode) ==
    mode # RECEIVE_MODE_NORMAL /\ mode # RECEIVE_MODE_DISABLED

\* a connection <<p, n>>: the dmq sender of p and the receiver of n for p
Link == {l \in Nodes \X Nodes : l[1] # l[2]}

\* the fields of MtmHeartbeat the tracker reads (the generation and the
\* donors go to MtmConsiderGenSwitch)
MtmHeartbeat == [connected_mask : NodeMask, last_online_in : GenNum]

MtmQuorum(count) == count >= NNodes \div 2 + 1

-----------------------------------------------------------------------------
(* Masks *)

\* MtmGetConnectedMask: whom node n sees in both directions, without itself
MtmGetConnectedMask(n) == dmq_receivers_mask[n] \cap dmq_senders_mask[n]

\* MtmGetConnectedMaskWithMe
MtmGetConnectedMaskWithMe(n) == MtmGetConnectedMask(n) \cup {n}

\* CampaignerWake after a handler of node n: the latch is set when the
\* handler found a change
CampaignerWake(n, changed) ==
    latch' = [latch EXCEPT ![n] = @ \/ changed]

\* the body of the four connect and disconnect callbacks and the tail of the
\* heartbeat: under connectivity_lock, install the masks and the row of peer
\* p, and wake the campaigner if the connected mask is another one or, where
\* the callback looks at it, the row is
UpdateConnectivity(n, p, receivers, senders, row, row_counts) ==
    LET old_connected_mask == MtmGetConnectedMask(n)
        changed == \/ old_connected_mask # receivers \cap senders
                   \/ row_counts /\ connectivity_matrix[n][p] # row
    IN  /\ dmq_receivers_mask' = [dmq_receivers_mask EXCEPT ![n] = receivers]
        /\ dmq_senders_mask' = [dmq_senders_mask EXCEPT ![n] = senders]
        /\ connectivity_matrix' = [connectivity_matrix EXCEPT ![n][p] = row]
        /\ CampaignerWake(n, changed)

-----------------------------------------------------------------------------
(* dmq connections *)

\* the sender's end of connection l leads nowhere
LostBySender(l) == l \in cut \/ receiver[l] = "none"

\* the receiver's end of connection l hears nobody
LostByReceiver(l) == l \in cut \/ sender[l] = "idle"

\* the heartbeats on their way
InFlight == MapThenSumSet(LAMBDA l : Len(wire[l]), Link)

\* (mutant) the receiver sets the bit of its peer when it takes the handle
ReceiverConnectSetsBit(l) ==
    /\ sender[l] = "idle" /\ receiver[l] = "none" /\ l \notin cut
    /\ sender' = [sender EXCEPT ![l] = "negotiating"]
    /\ receiver' = [receiver EXCEPT ![l] = "live"]
    /\ UpdateConnectivity(l[2], l[1], dmq_receivers_mask[l[2]] \cup {l[1]},
                          dmq_senders_mask[l[2]], connectivity_matrix[l[2]][l[1]],
                          FALSE)
    /\ UNCHANGED <<others_last_online_in, last_online_in, stopping, wire, cut>>

\* MtmOnDmqReceiverConnect on node l[2]: a receiver process took the handle
\* for the sender of l[1].  The bit of the peer is not set here but by the
\* first heartbeat.  (The callback ends the process when the peer is not in
\* the configuration; here every node is.)
MtmOnDmqReceiverConnect(l) ==
    /\ sender[l] = "idle" /\ receiver[l] = "none" /\ l \notin cut
    /\ sender' = [sender EXCEPT ![l] = "negotiating"]
    /\ receiver' = [receiver EXCEPT ![l] = "live"]
    /\ UNCHANGED <<tracker, latch, last_online_in, stopping, wire, cut>>

\* MtmOnDmqSenderConnect on node l[1]: its sender got through to l[2]
MtmOnDmqSenderConnect(l) ==
    /\ sender[l] = "negotiating" /\ ~LostBySender(l)
    /\ sender' = [sender EXCEPT ![l] = "active"]
    /\ UpdateConnectivity(l[1], l[2], dmq_receivers_mask[l[1]],
                          dmq_senders_mask[l[1]] \cup {l[2]},
                          connectivity_matrix[l[1]][l[2]], FALSE)
    /\ UNCHANGED <<others_last_online_in, last_online_in, receiver, stopping,
                   wire, cut>>

\* MtmOnDmqSenderDisconnect on node l[1]: the sender found the connection
\* lost.  A sender that never got through gives up without the callback.
MtmOnDmqSenderDisconnect(l) ==
    /\ sender[l] # "idle" /\ LostBySender(l)
    /\ sender' = [sender EXCEPT ![l] = "idle"]
    /\ IF sender[l] = "active"
       THEN UpdateConnectivity(l[1], l[2], dmq_receivers_mask[l[1]],
                               dmq_senders_mask[l[1]] \ {l[2]},
                               connectivity_matrix[l[1]][l[2]], FALSE)
       ELSE UNCHANGED <<dmq_receivers_mask, dmq_senders_mask,
                        connectivity_matrix, latch>>
    /\ UNCHANGED <<others_last_online_in, last_online_in, receiver, stopping,
                   wire, cut>>

\* (mutant) a sender that does not wait for the heartbeats on their way
SenderHeartbeatUnbounded(l) ==
    /\ sender[l] = "active" /\ ~LostBySender(l)
    /\ wire' = [wire EXCEPT ![l] = Append(@,
                    [connected_mask |-> MtmGetConnectedMask(l[1]),
                     last_online_in |-> last_online_in[l[1]]])]
    /\ UNCHANGED <<tracker, latch, last_online_in, sender, receiver, stopping,
                   cut>>

\* MtmOnDmqSenderHeartbeat on node l[1]: what the sender puts into a
\* heartbeat to l[2]
MtmOnDmqSenderHeartbeat(l) ==
    /\ sender[l] = "active" /\ ~LostBySender(l)
    /\ InFlight < MaxInFlight
    /\ wire' = [wire EXCEPT ![l] = Append(@,
                    [connected_mask |-> MtmGetConnectedMask(l[1]),
                     last_online_in |-> last_online_in[l[1]]])]
    /\ UNCHANGED <<tracker, latch, last_online_in, sender, receiver, stopping,
                   cut>>

\* MtmOnDmqReceiverHeartbeat on node l[2] for the oldest heartbeat on its
\* way: remember the peer's last_online_in, then set its bit and store the
\* mask it sees
MtmOnDmqReceiverHeartbeat(l) ==
    /\ receiver[l] = "live" /\ wire[l] # <<>>
    /\ LET n == l[2]
           p == l[1]
           parsed_msg == Head(wire[l])
       IN  /\ others_last_online_in' =
                  [others_last_online_in EXCEPT ![n][p] = parsed_msg.last_online_in]
           /\ UpdateConnectivity(n, p, dmq_receivers_mask[n] \cup {p},
                                 dmq_senders_mask[n], parsed_msg.connected_mask, TRUE)
    /\ wire' = [wire EXCEPT ![l] = Tail(@)]
    /\ UNCHANGED <<last_online_in, sender, receiver, stopping, cut>>

\* a receiver that hears nobody gives up its handle; its stop hook has not
\* run yet.  What was on its way to it is lost.
ReceiverExits(l) ==
    /\ receiver[l] = "live" /\ LostByReceiver(l)
    /\ ~stopping[l]
    /\ receiver' = [receiver EXCEPT ![l] = "none"]
    /\ stopping' = [stopping EXCEPT ![l] = TRUE]
    /\ wire' = [wire EXCEPT ![l] = <<>>]
    /\ UNCHANGED <<tracker, latch, last_online_in, sender, cut>>

\* (mutant) the stop hook clears the bit and leaves the row of the peer
ReceiverDisconnectKeepsRow(l) ==
    /\ stopping[l]
    /\ stopping' = [stopping EXCEPT ![l] = FALSE]
    /\ UpdateConnectivity(l[2], l[1], dmq_receivers_mask[l[2]] \ {l[1]},
                          dmq_senders_mask[l[2]], connectivity_matrix[l[2]][l[1]],
                          FALSE)
    /\ UNCHANGED <<others_last_online_in, last_online_in, sender, receiver,
                   wire, cut>>

\* MtmOnDmqReceiverDisconnect on node l[2], the stop hook of a receiver that
\* gave up its handle: clear the bit and the row of the peer
MtmOnDmqReceiverDisconnect(l) ==
    /\ stopping[l]
    /\ stopping' = [stopping EXCEPT ![l] = FALSE]
    /\ UpdateConnectivity(l[2], l[1], dmq_receivers_mask[l[2]] \ {l[1]},
                          dmq_senders_mask[l[2]], {}, FALSE)
    /\ UNCHANGED <<others_last_online_in, last_online_in, sender, receiver,
                   wire, cut>>

-----------------------------------------------------------------------------
(* What the campaigner reads *)

\* the matrix MtmGetConnectivityClique of node n searches: the rows of the
\* others as their heartbeats told them, my own row from my masks, an edge
\* left only where both ends report it, and a loop on every node
SymmetricMatrix(n) ==
    LET matrix == [connectivity_matrix[n] EXCEPT ![n] = MtmGetConnectedMaskWithMe(n)]
    IN  [i \in Nodes |-> {j \in Nodes : i = j \/ (j \in matrix[i] /\ i \in matrix[j])}]

IsClique(nodes, matrix) == \A i, j \in nodes : j \in matrix[i]

\* MtmFindMaxClique: the cliques of the greatest size (which of them the
\* search returns is its own business)
MtmFindMaxClique(matrix) ==
    LET cliques == {c \in NodeMask \ {{}} : IsClique(c, matrix)}
    IN  {c \in cliques : \A d \in cliques : Cardinality(d) <= Cardinality(c)}

\* MtmGetConnectivityClique on node n: a clique of one node is node n
MtmGetConnectivityClique(n) ==
    {IF Cardinality(clique) = 1 THEN {n} ELSE clique :
         clique \in MtmFindMaxClique(SymmetricMatrix(n))}

\* the node SetCatchupDonor finds most advanced among the connected ones, and
\* its last_online_in: the first of the greatest, none if nobody reported
MostAdvanced(n, connected) ==
    LET most_advanced_gen_num ==
            Max({others_last_online_in[n][i] : i \in connected} \cup {MtmInvalidGenNum})
    IN  [gen_num |-> most_advanced_gen_num,
         node    |-> IF most_advanced_gen_num = MtmInvalidGenNum
                     THEN MtmInvalidNodeId
                     ELSE Min({i \in connected :
                                  others_last_online_in[n][i] = most_advanced_gen_num})]

\* SetCatchupDonor on node n: the receive_mode it leaves, given the one it
\* finds.  The donor is kept while it is connected and as advanced as any.
SetCatchupDonor(n, connected, curr_receive_mode) ==
    LET most == MostAdvanced(n, connected)
    IN  IF \/ ~IS_RECEIVE_MODE_DONOR(curr_receive_mode)
           \/ curr_receive_mode \notin connected
           \/ others_last_online_in[n][curr_receive_mode] < most.gen_num
        THEN most.node
        ELSE curr_receive_mode

\* the campaigner of node n leaves WaitLatch, by the latch or by the
\* timeout, resets the latch and looks at the connectivity
CampaignerMain(n) ==
    /\ latch' = [latch EXCEPT ![n] = FALSE]
    /\ UNCHANGED <<tracker, last_online_in, dmq, cut>>

-----------------------------------------------------------------------------
(* Environment: generations, the network, restarts *)

\* node n becomes online in a newer generation: MtmConsiderGenSwitch of a
\* donor, MtmHandleParallelSafe of a node that caught up
BecomesOnline(n) ==
    /\ last_online_in[n] < MaxGenNum
    /\ last_online_in' = [last_online_in EXCEPT ![n] = @ + 1]
    /\ UNCHANGED <<tracker, latch, dmq, cut>>

\* the network stops carrying connection l, or carries it again
NetworkChanges(l) ==
    /\ l \in Flaky
    /\ cut' = IF l \in cut THEN cut \ {l} ELSE cut \cup {l}
    /\ UNCHANGED <<tracker, latch, last_online_in, dmq>>

\* the values of a function over connections, replaced on those of 'ls'
OnLinks(f, ls, v) == [l \in Link |-> IF l \in ls THEN v ELSE f[l]]

\* MtmStateShmemStartup after a restart of the postmaster of node n: shared
\* memory is zeroed, its senders and receivers are gone (no hook of theirs
\* matters any more), what was on its way to it is lost; the file stays.
\* The monitor loads last_online_in from the file (MtmStateStartup) before it
\* gives dmq a destination.
MtmStateShmemStartup(n) ==
    /\ n \in Restartable
    /\ LET from_me == {l \in Link : l[1] = n}
           to_me   == {l \in Link : l[2] = n}
       IN  /\ sender' = OnLinks(sender, from_me, "idle")
           /\ receiver' = OnLinks(receiver, to_me, "none")
           /\ stopping' = OnLinks(stopping, to_me, FALSE)
           /\ wire' = OnLinks(wire, to_me, <<>>)
    /\ dmq_receivers_mask' = [dmq_receivers_mask EXCEPT ![n] = {}]
    /\ dmq_senders_mask' = [dmq_senders_mask EXCEPT ![n] = {}]
    /\ connectivity_matrix' = [connectivity_matrix EXCEPT ![n] = [p \in Nodes |-> {}]]
    /\ others_last_online_in' =
           [others_last_online_in EXCEPT ![n] = [p \in Nodes |-> MtmInvalidGenNum]]
    /\ latch' = [latch EXCEPT ![n] = FALSE]
    /\ UNCHANGED <<last_online_in, cut>>

-----------------------------------------------------------------------------
(* Specification *)

\* every node is online in the generation mtm_state_create wrote.  The
\* connections of Established are up and their first heartbeat is handled,
\* the other ones have not been opened: with none established the cluster
\* has just started.
Init ==
    LET receivers == [n \in Nodes |-> {p \in Nodes : <<p, n>> \in Established}]
        senders   == [n \in Nodes |-> {p \in Nodes : <<n, p>> \in Established}]
    IN  /\ dmq_receivers_mask = receivers
        /\ dmq_senders_mask = senders
        /\ connectivity_matrix =
               [n \in Nodes |-> [p \in Nodes |->
                   IF p \in receivers[n] THEN receivers[p] \cap senders[p] ELSE {}]]
        /\ others_last_online_in =
               [n \in Nodes |-> [p \in Nodes |->
                   IF p \in receivers[n] THEN 1 ELSE MtmInvalidGenNum]]
        /\ latch = [n \in Nodes |-> FALSE]
        /\ last_online_in = [n \in Nodes |-> 1]
        /\ sender = [l \in Link |-> IF l \in Established THEN "active" ELSE "idle"]
        /\ receiver = [l \in Link |-> IF l \in Established THEN "live" ELSE "none"]
        /\ stopping = [l \in Link |-> FALSE]
        /\ wire = [l \in Link |-> <<>>]
        /\ cut = {}

Sender(l) ==
    \/ MtmOnDmqSenderConnect(l)
    \/ MtmOnDmqSenderHeartbeat(l)
    \/ MtmOnDmqSenderDisconnect(l)

Receiver(l) ==
    \/ MtmOnDmqReceiverConnect(l)
    \/ MtmOnDmqReceiverHeartbeat(l)
    \/ ReceiverExits(l)
    \/ MtmOnDmqReceiverDisconnect(l)

Environment ==
    \/ \E n \in Nodes : BecomesOnline(n) \/ MtmStateShmemStartup(n)
    \/ \E l \in Link : NetworkChanges(l)

Next ==
    \/ \E l \in Link : Sender(l) \/ Receiver(l)
    \/ \E n \in Nodes : CampaignerMain(n)
    \/ Environment

Spec == Init /\ [][Next]_vars

\* what the network and the postmaster do to the tracker from outside
Fault ==
    \/ \E l \in Link : NetworkChanges(l)
    \/ \E n \in Nodes : MtmStateShmemStartup(n)

\* dmq keeps trying: a sender connects again after it lost its peer, sends a
\* heartbeat every heartbeat_send_timeout and notices a dead connection; a
\* receiver handles what arrives, leaves after heartbeat_recv_timeout of
\* silence, and its stop hook runs.  The heartbeat timer needs strong
\* fairness only because the bound MaxInFlight, not the code, makes a sender
\* wait for the heartbeats of the others.  Nothing is asked of the network,
\* of restarts or of the generations.
Fairness ==
    \A l \in Link :
        /\ WF_vars(MtmOnDmqReceiverConnect(l))
        /\ WF_vars(MtmOnDmqSenderConnect(l))
        /\ WF_vars(MtmOnDmqSenderDisconnect(l))
        /\ SF_vars(MtmOnDmqSenderHeartbeat(l))
        /\ WF_vars(MtmOnDmqReceiverHeartbeat(l))
        /\ WF_vars(ReceiverExits(l))
        /\ WF_vars(MtmOnDmqReceiverDisconnect(l))

LiveSpec == Spec /\ Fairness

-----------------------------------------------------------------------------
(* Properties *)

\* The variables keep their types, and no more heartbeats are on their way
\* than the bound allows.
TypeOK ==
    /\ dmq_receivers_mask \in [Nodes -> NodeMask]
    /\ dmq_senders_mask \in [Nodes -> NodeMask]
    /\ connectivity_matrix \in [Nodes -> [Nodes -> NodeMask]]
    /\ others_last_online_in \in [Nodes -> [Nodes -> GenNum]]
    /\ latch \in [Nodes -> BOOLEAN]
    /\ last_online_in \in [Nodes -> GenNum \ {MtmInvalidGenNum}]
    /\ sender \in [Link -> {"idle", "negotiating", "active"}]
    /\ receiver \in [Link -> {"none", "live"}]
    /\ stopping \in [Link -> BOOLEAN]
    /\ wire \in [Link -> Seq(MtmHeartbeat)]
    /\ InFlight <= MaxInFlight
    /\ cut \subseteq Flaky

\* the receive modes SetCatchupDonor of node n may find
ReceiveModes(n) ==
    {RECEIVE_MODE_NORMAL, RECEIVE_MODE_DISABLED} \cup (Nodes \ {n})

\* Whenever a node is connected to a majority, SetCatchupDonor finds a donor
\* for it: a connected peer, and one that really was online in the generation
\* the node believes.  This is the Assert of SetCatchupDonor
\* (most_advanced_gen_num != MtmInvalidGenNum): a peer whose bit is set has
\* reported its last_online_in on this life of the shared memory, because the
\* bit is set by the heartbeat and not by MtmOnDmqReceiverConnect, and after
\* the value is stored.  An invalid donor would be stored as receive mode 0,
\* which is RECEIVE_MODE_NORMAL.
DonorIsKnown ==
    \A n \in Nodes :
        LET connected == MtmGetConnectedMaskWithMe(n)
        IN  MtmQuorum(Cardinality(connected)) /\ NNodes > 1 =>
                \A mode \in ReceiveModes(n) :
                    LET donor == SetCatchupDonor(n, connected, mode)
                    IN  /\ donor \in connected \ {n}
                        /\ others_last_online_in[n][donor] \in 1..last_online_in[donor]

\* the tracker of every node says what the network is like: a peer's bit is
\* set in a mask exactly if the connection is carried, its row is the mask
\* the peer has now, and its last_online_in is the peer's
Accurate ==
    \A n \in Nodes : \A p \in Nodes \ {n} :
        /\ p \in dmq_senders_mask[n] <=> <<n, p>> \notin cut
        /\ p \in dmq_receivers_mask[n] <=> <<p, n>> \notin cut
        /\ connectivity_matrix[n][p] =
               IF <<p, n>> \in cut THEN {} ELSE MtmGetConnectedMask(p)
        /\ <<p, n>> \notin cut => others_last_online_in[n][p] = last_online_in[p]

\* Once the network stops changing and no postmaster restarts, the views of
\* all nodes become accurate and stay so, whatever happened before: a stop
\* hook of an old receiver that clears the bit a new receiver has set
\* (the race the comment of MtmOnDmqReceiverConnect tells of), a restart that
\* zeroes the masks under live connections, a heartbeat that carries a mask
\* the sender no longer has.  The campaigners of the nodes then search the
\* same matrix.
ViewsConverge == []<><<Fault>>_vars \/ <>[]Accurate

\* A step of a callback that changes the connected mask of a node or a row of
\* its matrix wakes its campaigner ("any change that alters connected_mask or
\* matrix[peer] wakes the Campaigner").  MtmOnDmqReceiverDisconnect compares
\* only the masks.
ChangeWakesCampaigner ==
    [][\A n \in Nodes :
           /\ \/ MtmGetConnectedMask(n)' # MtmGetConnectedMask(n)
              \/ connectivity_matrix'[n] # connectivity_matrix[n]
           /\ ~MtmStateShmemStartup(n)
           => latch'[n]]_vars

=============================================================================
