----------------------------- MODULE Generations -----------------------------
(***************************************************************************)
(* Generation management of multimaster (src/src/state.c).                 *)
(*                                                                         *)
(* Every node keeps, in shared memory and in the file pg_mtm/state, the    *)
(* generation it is in (number, members, configured nodes), the donors of  *)
(* that generation, the last generation it was online in and its last      *)
(* vote.  A campaigner on every node ballots for a new generation when the *)
(* connectivity clique no longer matches the members; the monitor of the   *)
(* other nodes answers the vote requests; the winner switches, and the     *)
(* others learn the generation from heartbeats and from ParallelSafe       *)
(* records in the WAL of the donors.                                       *)
(*                                                                         *)
(* One action stands for one critical section of the code (gen_lock and    *)
(* vote_lock make them atomic).  Two things are inputs here: connectivity  *)
(* (the clique and the connected mask a handler reads are chosen among the *)
(* masks the connectivity tracker can hand out) and the progress of        *)
(* recovery (which connected node is the most advanced, whether a dead     *)
(* node is behind it, whether its receiver has caught up).                 *)
(***************************************************************************)
EXTENDS Integers, FiniteSets, FiniteSetsExt

CONSTANTS
    NNodes,      \* configured nodes; their ids are 1..NNodes (mtm_state_create)
    MaxGenNum,   \* bound: no ballot is started for a number above it
    MaxBallots,  \* bound: number of ballots started in a behaviour
    MaxCrashes,  \* bound: number of postmaster restarts in a behaviour
    MaxExits,    \* bound: number of campaigner deaths in a behaviour
    History      \* the history kept: any of "ballots", "lagging"

ASSUME ConstantsOK ==
    /\ NNodes \in Nat \ {0}
    /\ MaxGenNum \in Nat \ {0}
    /\ MaxBallots \in Nat
    /\ MaxCrashes \in Nat
    /\ MaxExits \in Nat
    /\ History \subseteq {"ballots", "lagging"}

VARIABLES
    mtm_state,              \* persistent fields of struct MtmState, per node
    disk,                   \* content of pg_mtm/state, per node
    receive_mode,           \* mtm_state->receive_mode
    campaigner_on_tour,     \* mtm_state->campaigner_on_tour
    tour,                   \* locals of the campaigner across CampaignMyself/Tour
    msgs,                   \* dmq streams genvotereq / genvoteresp
    wal,                    \* ParallelSafe records logged, by origin
    gossip,                 \* heartbeats sent: they arrive late, twice, in any order
    balloted,               \* history: the numbers every node balloted for
    ballots,                \* history: number of ballots so far
    crashes,                \* history: number of restarts so far
    exits                   \* history: number of campaigner deaths so far

volatile == <<receive_mode, campaigner_on_tour, tour>>
history  == <<balloted, ballots, crashes, exits>>
vars     == <<mtm_state, disk, volatile, msgs, wal, gossip, history>>

-----------------------------------------------------------------------------
(* Data *)

Nodes    == 1..NNodes
NodeMask == SUBSET Nodes
GenNum   == 0..MaxGenNum

MtmInvalidGenNum == 0
MtmInvalidNodeId == 0

\* receive_mode is one of these two or the id of the donor to recover from
RECEIVE_MODE_NORMAL   == 0
RECEIVE_MODE_DISABLED == -1
ReceiveMode == {RECEIVE_MODE_DISABLED, RECEIVE_MODE_NORMAL} \cup Nodes

IS_RECEIVE_MODE_DONOR(mode) ==
    mode # RECEIVE_MODE_NORMAL /\ mode # RECEIVE_MODE_DISABLED

MtmGeneration == [num : GenNum, members : NodeMask, configured : NodeMask]
ZeroGen == [num |-> MtmInvalidGenNum, members |-> {}, configured |-> {}]

\* the part of struct MtmState that MtmStateSave writes and MtmStateLoad reads
MtmStateOnDisk ==
    [current_gen    : MtmGeneration,
     donors         : NodeMask,
     last_online_in : GenNum,
     last_vote      : MtmGeneration]

\* shared memory after MemSet: nothing loaded yet
ZeroState ==
    [current_gen |-> ZeroGen, donors |-> {}, last_online_in |-> 0,
     last_vote |-> ZeroGen]

\* what mtm_state_create saves: everybody online in generation 1; the
\* compound literal for last_vote leaves its 'configured' zero
InitialState ==
    [current_gen    |-> [num |-> 1, members |-> Nodes, configured |-> Nodes],
     donors         |-> Nodes,
     last_online_in |-> 1,
     last_vote      |-> [num |-> 1, members |-> Nodes, configured |-> {}]]

GenVoteRequest ==
    [tag : {"GenVoteRequest"}, from : Nodes, to : Nodes, gen : MtmGeneration]
GenVoteResponse ==
    [tag : {"GenVoteResponse"}, from : Nodes, to : Nodes, gen_num : GenNum,
     vote_ok : BOOLEAN, last_online_in : GenNum, last_vote_num : GenNum]

ParallelSafe == [origin : Nodes, gen : MtmGeneration, donors : NodeMask]
Heartbeat    == [from : Nodes, current_gen : MtmGeneration, donors : NodeMask]

Tour ==
    [phase : {"idle", "gather", "counted"}, candidate_gen : MtmGeneration,
     my_last_online_in : GenNum, max_last_vote_num : GenNum,
     lagging : BOOLEAN]      \* history: balloted without having caught up
NoTour ==
    [phase |-> "idle", candidate_gen |-> ZeroGen,
     my_last_online_in |-> 0, max_last_vote_num |-> MtmInvalidGenNum,
     lagging |-> FALSE]


-----------------------------------------------------------------------------
(* Pure helpers *)

Quorum(ntotal, nvotes) == nvotes >= ntotal \div 2 + 1
MtmQuorum(nvotes)      == Quorum(NNodes, nvotes)

\* first_set_bit(mask) + 1: the lowest node of the mask, 0 for an empty one
FirstNode(mask) == IF mask = {} THEN MtmInvalidNodeId ELSE Min(mask)

Initialized(n) == mtm_state[n].current_gen.num # MtmInvalidGenNum

-----------------------------------------------------------------------------
(* Status in the current generation *)

\* MtmGetCurrentStatusInGen on a given persistent state
StatusInGen(n, st) ==
    IF st.last_online_in = st.current_gen.num THEN "ONLINE"
    ELSE IF /\ n \in st.current_gen.members
            /\ Quorum(Cardinality(st.current_gen.configured),
                      Cardinality(st.current_gen.members))
            /\ st.current_gen.num = st.last_vote.num
         THEN "RECOVERY"
         ELSE "DEAD"

MtmGetCurrentStatusInGen(n) == StatusInGen(n, mtm_state[n])

\* mutant of MtmGetCurrentStatus: the tour of the campaigner is not asked about
MtmGetCurrentStatus_IgnoringTour(n, clique) ==
    LET status_in_gen == MtmGetCurrentStatusInGen(n)
        isolated == ~(mtm_state[n].current_gen.members \subseteq clique)
    IN  CASE status_in_gen = "DEAD"     -> "MTM_DISABLED"
          [] status_in_gen # "DEAD" /\ isolated      -> "MTM_ISOLATED"
          [] status_in_gen = "RECOVERY" /\ ~isolated -> "MTM_RECOVERY"
          [] status_in_gen = "ONLINE" /\ ~isolated   -> "MTM_ONLINE"

\* MtmGetCurrentStatus: what user-facing code is told, given the clique
MtmGetCurrentStatus(n, clique) ==
    LET status_in_gen == MtmGetCurrentStatusInGen(n)
        isolated == \/ ~(mtm_state[n].current_gen.members \subseteq clique)
                    \/ campaigner_on_tour[n]
    IN  CASE status_in_gen = "DEAD" /\ receive_mode[n] = RECEIVE_MODE_DISABLED
                                                     -> "MTM_DISABLED"
          [] status_in_gen = "DEAD" /\ receive_mode[n] # RECEIVE_MODE_DISABLED
                                                     -> "MTM_CATCHUP"
          [] status_in_gen # "DEAD" /\ isolated      -> "MTM_ISOLATED"
          [] status_in_gen = "RECOVERY" /\ ~isolated -> "MTM_RECOVERY"
          [] status_in_gen = "ONLINE" /\ ~isolated   -> "MTM_ONLINE"

-----------------------------------------------------------------------------
(* A node: what the handlers of one node read and write under gen_lock *)

\* node n as a record: shared memory, file and receive_mode
Node(n) == [st |-> mtm_state[n], disk |-> disk[n], mode |-> receive_mode[n]]

\* node n becomes the record node
Install(n, node) ==
    /\ mtm_state' = [mtm_state EXCEPT ![n] = node.st]
    /\ disk' = [disk EXCEPT ![n] = node.disk]
    /\ receive_mode' = [receive_mode EXCEPT ![n] = node.mode]

\* mutant of MtmStateSave: the vote is left out of the file
MtmStateSave_WithoutVote(node) ==
    [node EXCEPT !.disk = [node.st EXCEPT !.last_vote = node.disk.last_vote]]

\* MtmStateSave: the file gets what shared memory holds
MtmStateSave(node) == [node EXCEPT !.disk = node.st]

\* mutant of MtmStateLoad: the vote is not read back, the node starts from
\* the generation it is in
MtmStateLoad_WithoutVote(node) ==
    [node EXCEPT !.st = [node.disk EXCEPT !.last_vote = node.disk.current_gen]]

\* MtmStateLoad: shared memory gets what the file holds
MtmStateLoad(node) == [node EXCEPT !.st = node.disk]

\* MtmSetReceiveMode
MtmSetReceiveMode(node, mode) == [node EXCEPT !.mode = mode]

-----------------------------------------------------------------------------
(* Generation switch *)

\* mutant of PromiseForbids: the promise is not looked at
PromiseForbids_Never(vote, gen) == FALSE

\* a vote for a greater number forbids to be online in this generation
PromiseForbids(vote, gen) == vote.num > gen.num

\* the three reasons why node n can never create xacts in generation gen
NeverOnlineIn(n, gen, vote) ==
    \/ n \notin gen.members
    \/ ~Quorum(Cardinality(gen.configured), Cardinality(gen.members))
    \/ PromiseForbids(vote, gen)

\* the first lines of the switch: the vote follows the generation, the
\* generation and the donors are replaced ('configured' of the current
\* generation is not assigned)
EnteredGen(st, gen, dnrs) ==
    [st EXCEPT !.last_vote   = IF @.num < gen.num THEN gen ELSE @,
               !.current_gen = [gen EXCEPT !.configured = st.current_gen.configured],
               !.donors      = dnrs]

\* MtmConsiderGenSwitch on an initialized node: nothing for a generation that
\* is not newer; otherwise the node enters it dead (receivers off), online
\* as a donor (normal mode) or in recovery from the first donor, and saves
MtmConsiderGenSwitch(n, node, gen, dnrs) ==
    LET st == EnteredGen(node.st, gen, dnrs)
    IN  CASE node.st.current_gen.num >= gen.num -> node
          [] node.st.current_gen.num < gen.num /\ NeverOnlineIn(n, gen, st.last_vote) ->
                MtmStateSave(MtmSetReceiveMode([node EXCEPT !.st = st],
                                               RECEIVE_MODE_DISABLED))
          [] node.st.current_gen.num < gen.num /\ ~NeverOnlineIn(n, gen, st.last_vote)
                /\ n \in dnrs ->
                MtmSetReceiveMode(
                    MtmStateSave([node EXCEPT !.st = [st EXCEPT !.last_online_in = gen.num]]),
                    RECEIVE_MODE_NORMAL)
          [] node.st.current_gen.num < gen.num /\ ~NeverOnlineIn(n, gen, st.last_vote)
                /\ n \notin dnrs ->
                MtmSetReceiveMode(MtmStateSave([node EXCEPT !.st = st]), FirstNode(dnrs))

\* the ParallelSafe record MtmConsiderGenSwitch logs when it makes node n
\* online as a donor
ParallelSafeLogged(n, node, gen, dnrs) ==
    IF /\ node.st.current_gen.num < gen.num
       /\ MtmConsiderGenSwitch(n, node, gen, dnrs).st.last_online_in = gen.num
    THEN {[origin |-> n, gen |-> gen, donors |-> dnrs]}
    ELSE {}

\* MtmOnDmqSenderHeartbeat: what the senders of node n put into every
\* heartbeat while the node is in state st
MtmOnDmqSenderHeartbeat(n, st) ==
    [from |-> n, current_gen |-> st.current_gen, donors |-> st.donors]

\* a handler of node n that calls MtmConsiderGenSwitch(gen, dnrs) and then
\* brings the node to 'after'; from a new generation on, the heartbeats of
\* the node tell it
SwitchAnd(n, gen, dnrs, after) ==
    /\ Install(n, after)
    /\ gossip' = IF after.st.current_gen.num > mtm_state[n].current_gen.num
                 THEN gossip \cup {MtmOnDmqSenderHeartbeat(n, after.st)}
                 ELSE gossip
    /\ wal' = wal \cup ParallelSafeLogged(n, Node(n), gen, dnrs)

-----------------------------------------------------------------------------
(* Start and restart *)

\* MtmStateShmemStartup after a restart of the postmaster of node n: shared
\* memory is zeroed, connections and workers are gone, the file stays
Crash(n) ==
    /\ crashes < MaxCrashes
    /\ crashes' = crashes + 1
    /\ Install(n, [st |-> ZeroState, disk |-> disk[n], mode |-> RECEIVE_MODE_DISABLED])
    /\ campaigner_on_tour' = [campaigner_on_tour EXCEPT ![n] = FALSE]
    /\ tour' = [tour EXCEPT ![n] = NoTour]
    /\ msgs' = {m \in msgs : m.to # n}
    /\ UNCHANGED <<wal, gossip, balloted, ballots, exits>>

\* mutant of RestoredReceiveMode: a node in recovery is left without donor
RestoredReceiveMode_OnlineOnly(n, st) ==
    IF StatusInGen(n, st) = "ONLINE" THEN RECEIVE_MODE_NORMAL
                                     ELSE RECEIVE_MODE_DISABLED

\* receive_mode that fits the status: MtmStateStartup restores it
RestoredReceiveMode(n, st) ==
    CASE StatusInGen(n, st) = "ONLINE"   -> RECEIVE_MODE_NORMAL
      [] StatusInGen(n, st) = "RECOVERY" -> FirstNode(st.donors)
      [] StatusInGen(n, st) = "DEAD"     -> RECEIVE_MODE_DISABLED

\* MtmStateStartup, by the monitor: load the file, restore receive_mode
MtmStateStartup(n) ==
    /\ ~Initialized(n)
    /\ LET loaded == MtmStateLoad(Node(n))
       IN  Install(n, MtmSetReceiveMode(loaded, RestoredReceiveMode(n, loaded.st)))
    /\ UNCHANGED <<campaigner_on_tour, tour, msgs, wal, gossip, history>>

-----------------------------------------------------------------------------
(* Heartbeats and ParallelSafe records *)

\* MtmOnDmqReceiverHeartbeat on node n for a heartbeat hb of another node,
\* as old as it may be: switch into its generation if that is newer (for any
\* other the call returns on its first test, and changes nothing)
MtmOnDmqReceiverHeartbeat(n, hb) ==
    /\ hb \in gossip /\ hb.from # n
    /\ Initialized(n)
    /\ hb.current_gen.num > mtm_state[n].current_gen.num
    /\ SwitchAnd(n, hb.current_gen, hb.donors,
                 MtmConsiderGenSwitch(n, Node(n), hb.current_gen, hb.donors))
    /\ UNCHANGED <<campaigner_on_tour, tour, msgs, history>>

\* mutant of PromotedByParallelSafe: the status in the generation is not asked
PromotedByParallelSafe_AnyStatus(n, st, ps, is_recovery) ==
    ps.gen.num = st.current_gen.num /\ is_recovery

\* the record makes a node in state st online: it is of the current
\* generation, the node is in recovery there, the record came in recovery mode
PromotedByParallelSafe(n, st, ps, is_recovery) ==
    /\ ps.gen.num = st.current_gen.num
    /\ StatusInGen(n, st) = "RECOVERY"
    /\ is_recovery

\* MtmHandleParallelSafe on node n for the record ps of another node's WAL:
\* enter the generation of the record, then get online by it if it came in
\* recovery mode to a node in recovery.  (The code leaves gen_lock between
\* the two; what can slip in is what a call with is_recovery false followed
\* by one with is_recovery true gives here.)
MtmHandleParallelSafe(n, ps, is_recovery) ==
    /\ Initialized(n)
    /\ ps \in wal /\ ps.origin # n
    /\ LET switched == MtmConsiderGenSwitch(n, Node(n), ps.gen, ps.donors)
       IN  SwitchAnd(n, ps.gen, ps.donors,
               IF PromotedByParallelSafe(n, switched.st, ps, is_recovery)
               THEN MtmSetReceiveMode(
                        MtmStateSave([switched EXCEPT !.st.last_online_in = ps.gen.num]),
                        RECEIVE_MODE_NORMAL)
               ELSE switched)
    /\ UNCHANGED <<campaigner_on_tour, tour, msgs, history>>

-----------------------------------------------------------------------------
(* Connectivity and recovery progress, as the campaigner and the voter see them *)

\* MtmGetConnectivityClique: the cliques node n can compute; a clique of one
\* node is replaced by n alone
ConnectivityCliques(n) ==
    {q \in SUBSET Nodes : q # {} /\ (Cardinality(q) = 1 => q = {n})}

\* MtmGetConnectedMaskWithMe as filled in by MtmGetConnectivityClique: me, any
\* of the others, and every node of a clique I am in (both come from one
\* copy of the matrix)
ConnectedMasksWithMe(n, clique) ==
    {c \in SUBSET Nodes : n \in c /\ (n \in clique => clique \subseteq c)}

\* SetCatchupDonor: receive_mode becomes, or stays, a connected node; no
\* node if nobody but me is connected
SetCatchupDonor(n, connected) ==
    IF connected = {n} THEN {MtmInvalidNodeId} ELSE connected \ {n}

-----------------------------------------------------------------------------
(* Campaigner: CampaignMyself *)

QuorumCliqueWithMe(n, clique) == MtmQuorum(Cardinality(clique)) /\ n \in clique

\* mutant of NeedsCatchup: the catch-up donor is set in any status
NeedsCatchup_InAnyStatus(n) == TRUE

\* only a node that is dead in its generation gets a catch-up donor
NeedsCatchup(n) == MtmGetCurrentStatusInGen(n) = "DEAD"

\* receive_mode of a dead node after CampaignMyself, for a connected mask: it
\* catches up from a node of the quorum clique or of a connected majority,
\* else from nobody
CatchupMode(n, clique, connected) ==
    IF QuorumCliqueWithMe(n, clique) \/ MtmQuorum(Cardinality(connected))
    THEN SetCatchupDonor(n, connected)
    ELSE {RECEIVE_MODE_DISABLED}

\* the same for every mask the clique allows
CatchupModes(n, clique) ==
    UNION {CatchupMode(n, clique, connected) :
               connected \in ConnectedMasksWithMe(n, clique)}

\* mutant of LagChecked: membership of me is what is tested
LagChecked_OfMe(n) == n \notin mtm_state[n].current_gen.members

\* the recovery lag is looked at before a ballot that adds me back.  The code
\* tests bit my_node_id of the members, and bits are numbered from 0: that
\* is the bit of node n + 1.
LagChecked(n) == (n + 1) \notin mtm_state[n].current_gen.members

\* candidates: the members I still see in the clique, and me
Candidates(n, clique) == (mtm_state[n].current_gen.members \cap clique) \cup {n}

\* the generation a ballot of node n proposes
CandidateGen(n, clique) ==
    [num        |-> mtm_state[n].last_vote.num + 1,
     members    |-> Candidates(n, clique),
     configured |-> Nodes]

\* there is something to ballot for: no minority generation if I am already
\* a member, and the same members again only to get rid of a promise
InterestingCandidates(n, clique) ==
    LET st == mtm_state[n]
    IN  /\ \/ MtmQuorum(Cardinality(Candidates(n, clique)))
           \/ n \notin st.current_gen.members
        /\ \/ Candidates(n, clique) # st.current_gen.members
           \/ /\ MtmGetCurrentStatusInGen(n) = "DEAD"
              /\ st.last_vote.num # st.current_gen.num

\* CampaignMyself goes on to ballot; 'lag_ok' says that the most advanced
\* donor is not ahead of me or that my receiver reported, recently and from
\* the donor in use, to have caught up
Ballots(n, clique, lag_ok) ==
    /\ QuorumCliqueWithMe(n, clique)
    /\ MtmGetCurrentStatusInGen(n) = "DEAD" /\ LagChecked(n) => lag_ok
    /\ InterestingCandidates(n, clique)

\* CampaignMyself finds nothing to ballot for
CampaignStay(n, clique, mode, lag_ok) ==
    /\ ~Ballots(n, clique, lag_ok)
    /\ receive_mode' = [receive_mode EXCEPT ![n] = mode]
    /\ UNCHANGED <<mtm_state, disk, campaigner_on_tour, tour, msgs, wal, gossip, history>>

\* CampaignMyself ballots: vote for myself, save, and ask the rest of the
\* clique (the scatter of CampaignTour)
CampaignBallot(n, clique, mode, lag_ok) ==
    /\ Ballots(n, clique, lag_ok)
    /\ CandidateGen(n, clique).num <= MaxGenNum
    /\ ballots < MaxBallots
    /\ ballots' = ballots + 1
    /\ Install(n, MtmStateSave(MtmSetReceiveMode(
                      [Node(n) EXCEPT !.st.last_vote = CandidateGen(n, clique)], mode)))
    /\ campaigner_on_tour' = [campaigner_on_tour EXCEPT ![n] = TRUE]
    /\ tour' = [tour EXCEPT ![n] =
           [phase             |-> "gather",
            candidate_gen     |-> CandidateGen(n, clique),
            my_last_online_in |-> mtm_state[n].last_online_in,
            max_last_vote_num |-> MtmInvalidGenNum,
            lagging           |-> /\ "lagging" \in History
                                  /\ LagChecked_OfMe(n) /\ ~lag_ok]]
    /\ balloted' = IF "ballots" \in History
                   THEN [balloted EXCEPT ![n] = @ \cup {CandidateGen(n, clique).num}]
                   ELSE balloted
    /\ msgs' = msgs \cup
           {[tag |-> "GenVoteRequest", from |-> n, to |-> m,
             gen |-> CandidateGen(n, clique)] : m \in clique \ {n}}
    /\ UNCHANGED <<wal, gossip, crashes, exits>>

\* CampaignMyself for the clique it computed.  A dead node first gets its
\* catch-up donor, among the nodes it is connected to, and has its recovery
\* lag looked at; the others keep their receive_mode.
CampaignMyself(n, clique) ==
    /\ Initialized(n)
    /\ tour[n].phase = "idle"
    /\ IF NeedsCatchup(n)
       THEN \E mode \in CatchupModes(n, clique), lag_ok \in BOOLEAN :
              \/ CampaignStay(n, clique, mode, lag_ok)
              \/ CampaignBallot(n, clique, mode, lag_ok)
       ELSE \/ CampaignStay(n, clique, receive_mode[n], TRUE)
            \/ CampaignBallot(n, clique, receive_mode[n], TRUE)

-----------------------------------------------------------------------------
(* Voter: HandleGenVoteRequest *)

\* already voted for exactly this generation
VotedFor(n, gen)  == mtm_state[n].last_vote = gen

\* already voted for this number or a greater one
VotedPast(n, gen) == mtm_state[n].last_vote.num >= gen.num

\* the proposal adds nobody but the proposer, fits my clique and my
\* configuration
Sensible(n, req, clique) ==
    /\ req.gen.members \subseteq mtm_state[n].current_gen.members \cup {req.from}
    /\ req.gen.members \subseteq clique
    /\ req.gen.configured = Nodes

\* the answer of node n to the request req
VoteResponse(n, req, clique) ==
    LET again   == VotedFor(n, req.gen)
        refused == ~again /\ VotedPast(n, req.gen)
        vote_ok == again \/ (~refused /\ Sensible(n, req, clique))
    IN  [tag            |-> "GenVoteResponse",
         from           |-> n,
         to             |-> req.from,
         gen_num        |-> req.gen.num,
         vote_ok        |-> vote_ok,
         last_online_in |-> IF vote_ok THEN mtm_state[n].last_online_in
                                       ELSE MtmInvalidGenNum,
         last_vote_num  |-> IF refused THEN mtm_state[n].last_vote.num
                                       ELSE MtmInvalidGenNum]

\* the tour the answer is for still gathers; the answers to a tour that is
\* over are thrown away by CampaignerGatherHook and are not kept here
Awaited(resp) ==
    /\ tour[resp.to].phase = "gather"
    /\ tour[resp.to].candidate_gen.num = resp.gen_num

\* HandleGenVoteRequest, by the monitor of node n.  The answer is all it
\* does: the vote is neither put into last_vote nor saved.
HandleGenVoteRequest(n, req, clique) ==
    /\ Initialized(n)
    /\ req \in msgs /\ req.tag = "GenVoteRequest" /\ req.to = n
    /\ msgs' = (msgs \ {req}) \cup {r \in {VoteResponse(n, req, clique)} : Awaited(r)}
    /\ UNCHANGED <<mtm_state, disk, volatile, wal, gossip, history>>

-----------------------------------------------------------------------------
(* Campaigner: CampaignTour *)

\* what gather returns: the answers to this tour that arrived (the cohort is
\* who was asked; CampaignerGatherHook drops the answers to older tours)
Gathered(n) ==
    {m \in msgs : /\ m.tag = "GenVoteResponse" /\ m.to = n
                  /\ m.gen_num = tour[n].candidate_gen.num}

\* last_online_in of the voters: mine as of the ballot, theirs as answered
VotersLastOnlineIn(n) ==
    LET oks == {m \in Gathered(n) : m.vote_ok}
    IN  [v \in {n} \cup {m.from : m \in oks} |->
            IF v = n THEN tour[n].my_last_online_in
            ELSE Max({m.last_online_in : m \in {g \in oks : g.from = v}})]

\* mutant of TourDonors: a voter as advanced as the best so far is not added
TourDonors_NoTies(n) ==
    LET loi == VotersLastOnlineIn(n)
    IN  {v \in DOMAIN loi : \A w \in DOMAIN loi \ {v} : loi[v] > loi[w]}

\* donors of the new generation: the voters with the greatest last_online_in
TourDonors(n) ==
    LET loi == VotersLastOnlineIn(n)
    IN  {v \in DOMAIN loi : \A w \in DOMAIN loi : loi[v] >= loi[w]}

\* the greatest last_vote.num a refusing voter complained with
MaxLastVoteNum(n) ==
    Max({MtmInvalidGenNum} \cup
        {m.last_vote_num : m \in {g \in Gathered(n) : ~g.vote_ok}})

\* CampaignTour up to the generation switch: count the votes, name the
\* donors and, with a majority, switch into the candidate generation
CampaignTourCount(n) ==
    /\ tour[n].phase = "gather"
    /\ IF MtmQuorum(Cardinality(DOMAIN VotersLastOnlineIn(n)))
       THEN SwitchAnd(n, tour[n].candidate_gen, TourDonors(n),
                MtmConsiderGenSwitch(n, Node(n), tour[n].candidate_gen, TourDonors(n)))
       ELSE UNCHANGED <<mtm_state, disk, receive_mode, wal, gossip>>
    /\ tour' = [tour EXCEPT ![n].phase = "counted",
                            ![n].max_last_vote_num = MaxLastVoteNum(n)]
    /\ msgs' = {m \in msgs : ~(m.tag = "GenVoteResponse" /\ m.to = n)}
    /\ UNCHANGED <<campaigner_on_tour, history>>

\* mutant of BumpedVote: the complaint is taken without comparing
BumpedVote_Unchecked(vote, max_last_vote_num) ==
    IF max_last_vote_num # MtmInvalidGenNum
    THEN [num |-> max_last_vote_num, members |-> {}, configured |-> {}]
    ELSE vote

\* if anyone complained about our last_vote being too low, bump it
BumpedVote(vote, max_last_vote_num) ==
    IF max_last_vote_num # MtmInvalidGenNum /\ max_last_vote_num > vote.num
    THEN [num |-> max_last_vote_num, members |-> {}, configured |-> {}]
    ELSE vote

\* CampaignTour, last critical section: bump the vote and save it if anyone
\* complained, end the tour
CampaignTourFinish(n) ==
    /\ tour[n].phase = "counted"
    /\ LET vote == BumpedVote(mtm_state[n].last_vote, tour[n].max_last_vote_num)
       IN  Install(n, IF vote # mtm_state[n].last_vote
                      THEN MtmStateSave([Node(n) EXCEPT !.st.last_vote = vote])
                      ELSE Node(n))
    /\ campaigner_on_tour' = [campaigner_on_tour EXCEPT ![n] = FALSE]
    /\ tour' = [tour EXCEPT ![n] = NoTour]
    /\ UNCHANGED <<msgs, wal, gossip, history>>

\* the campaigner of node n dies in the middle of a tour (an ERROR in
\* gather, SIGTERM); CampaignerOnExit clears campaigner_pid and nothing
\* else, the monitor starts a new campaigner
CampaignerOnExit(n) ==
    /\ tour[n].phase # "idle"
    /\ exits < MaxExits
    /\ exits' = exits + 1
    /\ tour' = [tour EXCEPT ![n] = NoTour]
    /\ msgs' = {m \in msgs : ~(m.tag = "GenVoteResponse" /\ m.to = n)}
    /\ UNCHANGED <<mtm_state, disk, receive_mode, campaigner_on_tour, wal, gossip,
                   balloted, ballots, crashes>>

-----------------------------------------------------------------------------
(* Specification *)

\* every node has the file mtm_state_create wrote and nothing in memory
Init ==
    /\ mtm_state = [n \in Nodes |-> ZeroState]
    /\ disk = [n \in Nodes |-> InitialState]
    /\ receive_mode = [n \in Nodes |-> RECEIVE_MODE_DISABLED]
    /\ campaigner_on_tour = [n \in Nodes |-> FALSE]
    /\ tour = [n \in Nodes |-> NoTour]
    /\ msgs = {}
    /\ wal = {}
    /\ gossip = {}
    /\ balloted = [n \in Nodes |-> {}]
    /\ ballots = 0
    /\ crashes = 0
    /\ exits = 0

Campaigner(n) ==
    \/ \E clique \in ConnectivityCliques(n) : CampaignMyself(n, clique)
    \/ CampaignTourCount(n)
    \/ CampaignTourFinish(n)
    \/ CampaignerOnExit(n)

Monitor(n) ==
    \/ MtmStateStartup(n)
    \/ \E req \in msgs, clique \in ConnectivityCliques(n) :
         HandleGenVoteRequest(n, req, clique)

Receiver(n) ==
    \/ \E hb \in gossip : MtmOnDmqReceiverHeartbeat(n, hb)
    \/ \E ps \in wal : \E is_recovery \in BOOLEAN :
         MtmHandleParallelSafe(n, ps, is_recovery)

Next == \E n \in Nodes : Campaigner(n) \/ Monitor(n) \/ Receiver(n) \/ Crash(n)

Spec == Init /\ [][Next]_vars

-----------------------------------------------------------------------------
(* Properties *)

\* The variables keep their types, and an initialized node knows at least one
\* donor of its generation (struct MtmState: "always has at least one node";
\* MtmConsiderGenSwitch and MtmStateStartup take first_set_bit of it).
TypeOK ==
    /\ mtm_state \in [Nodes -> MtmStateOnDisk]
    /\ disk \in [Nodes -> MtmStateOnDisk]
    /\ receive_mode \in [Nodes -> ReceiveMode]
    /\ campaigner_on_tour \in [Nodes -> BOOLEAN]
    /\ tour \in [Nodes -> Tour]
    /\ msgs \subseteq GenVoteRequest \cup GenVoteResponse
    /\ wal \subseteq ParallelSafe
    /\ gossip \subseteq Heartbeat
    /\ balloted \in [Nodes -> SUBSET GenNum]
    /\ ballots \in 0..MaxBallots
    /\ crashes \in 0..MaxCrashes
    /\ exits \in 0..MaxExits
    /\ \A n \in Nodes : Initialized(n) => mtm_state[n].donors # {}

\* The receivers of a node work in normal mode exactly while the node is
\* online in its generation, and a node in recovery recovers from a donor of
\* its generation.  MtmConsiderGenSwitch, MtmHandleParallelSafe,
\* MtmStateStartup and the campaigner (SetCatchupDonor, the no-quorum branch
\* of CampaignMyself) all write receive_mode; none may leave it out of step
\* with last_online_in, last_vote and the current generation.
ReceiveModeMatchesStatus ==
    \A n \in Nodes : Initialized(n) =>
        LET status == MtmGetCurrentStatusInGen(n)
        IN  /\ status = "ONLINE" <=> receive_mode[n] = RECEIVE_MODE_NORMAL
            /\ status = "RECOVERY" => receive_mode[n] \in mtm_state[n].donors

\* A node gets online only in a generation that is at least its last vote:
\* whoever balloted for generation m never becomes online in a generation
\* n < m afterwards, neither as a donor in MtmConsiderGenSwitch nor by a
\* ParallelSafe record in MtmHandleParallelSafe (the promise the donors of m
\* are computed from).
OnlineKeepsPromise ==
    [][\A n \in Nodes :
          Initialized(n) /\ mtm_state'[n].last_online_in # mtm_state[n].last_online_in
              => mtm_state'[n].last_online_in >= mtm_state'[n].last_vote.num]_vars

\* The number of the last vote on disk never goes down, whatever CampaignTour
\* learns from refusals and however generation switches interleave with a
\* tour (spec.md, Safety-4: vote monotonicity).
LastVoteNeverDecreases ==
    [][\A n \in Nodes : disk'[n].last_vote.num >= disk[n].last_vote.num]_vars

\* Between two critical sections the file of an initialized node holds what
\* its shared memory holds: a restart at any such moment loses no vote, no
\* generation switch and no promotion, so a restarted node never ballots
\* again under a number it has used, nor forgets a generation it was in.
\* Every handler that changes the state must end with MtmStateSave.
StateIsSaved ==
    \A n \in Nodes : Initialized(n) => mtm_state[n] = disk[n]

\* A node is online only in a generation it is a member of and whose members
\* are a majority of the configured nodes, whether it got there as a donor,
\* by a ParallelSafe record or by loading its file.
OnlineOnlyInViableGen ==
    \A n \in Nodes :
        Initialized(n) /\ MtmGetCurrentStatusInGen(n) = "ONLINE" =>
            /\ n \in mtm_state[n].current_gen.members
            /\ MtmQuorum(Cardinality(mtm_state[n].current_gen.members))

\* A node that tells its clients MTM_ONLINE is not about to leave its
\* generation by its own doing: no tour of its campaigner is under way, and
\* CampaignMyself would not ballot for the clique the status was computed
\* from (MtmGetCurrentStatus: "we must be sure campaigner doesn't operate an
\* older data ... campaigner_on_tour serves this purpose").
OnlineMeansSettled ==
    \A n \in Nodes : \A clique \in ConnectivityCliques(n) :
        Initialized(n) /\ MtmGetCurrentStatus(n, clique) = "MTM_ONLINE" =>
            /\ tour[n].phase = "idle"
            /\ ~Ballots(n, clique, TRUE)

\* campaigner_on_tour is set only while a tour of the campaigner is under
\* way (CampaignMyself sets it under vote_lock, the end of CampaignTour
\* clears it); otherwise MtmGetCurrentStatus keeps answering MTM_ISOLATED
\* for a node that is online and sees all members of its generation.
OnTourMeansTouring ==
    \A n \in Nodes : campaigner_on_tour[n] => tour[n].phase # "idle"

\* A node never ballots twice under one number, not even after a restart in
\* the middle of a tour: the vote for myself is in the file before the first
\* request leaves (CampaignMyself saves before CampaignTour scatters), and
\* MtmStateLoad brings it back.  Two tours under one number could both win
\* with different members.
FreshBallotNumbers ==
    [][\A n \in Nodes :
          tour[n].phase = "idle" /\ tour'[n].phase = "gather"
              => tour'[n].candidate_gen.num \notin balloted[n]]_vars

\* Two nodes in generations of the same number are in the same generation
\* (spec.md, Safety-2: generation uniqueness; it rests on every voter keeping
\* its vote, "used for not voting twice" in struct MtmState).
GenUniqueness ==
    \A n, m \in Nodes :
        /\ Initialized(n) /\ Initialized(m)
        /\ mtm_state[n].current_gen.num = mtm_state[m].current_gen.num
        => mtm_state[n].current_gen.members = mtm_state[m].current_gen.members

\* A node that is not a member of its generation and is behind the most
\* advanced node it sees ballots for adding itself only after its receiver
\* reported to have caught up (comment in CampaignMyself: "if we are going
\* to ballot for adding me back ... make sure recovery lag is not too high").
NoLaggingRejoin == \A n \in Nodes : ~tour[n].lagging

\* The donors of a generation are members of it (struct MtmState: "subset of
\* current_gen_members which definitely has all xacts of gens < current").
DonorsAreMembers ==
    \A n \in Nodes :
        Initialized(n) => mtm_state[n].donors \subseteq mtm_state[n].current_gen.members

=============================================================================
