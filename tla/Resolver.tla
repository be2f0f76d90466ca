------------------------------ MODULE Resolver ------------------------------
(***************************************************************************)
(* Resolution of one prepared transaction whose coordinator is gone.       *)
(*                                                                         *)
(* The acceptor is the monitor's check_status_requests (src/src/state.c):  *)
(* it answers the status requests and the 2A requests of the resolvers,    *)
(* finishes the transaction on a decision, and reports its highest         *)
(* proposal.  The resolver itself, the table of global transactions and    *)
(* the engine's prepared transaction are not in src/src/state.c: they are  *)
(* modelled after section 4.8 of the specification.                        *)
(*                                                                         *)
(* One transaction (one gid) is modelled.  A node's requests reach a peer  *)
(* in the order they were sent (one stream per pair of nodes), and so do   *)
(* the answers.                                                            *)
(***************************************************************************)
EXTENDS Integers, FiniteSets, Sequences

CONSTANTS
    Nodes,            \* node ids of the generation's members, positive
    Resolvers,        \* the members whose resolver takes the transaction up
    InitialStatuses,  \* the ways the coordinator can have left the members
    MaxBallot,        \* bound: no resolver starts a ballot above it
    MaxRestarts,      \* bound: restarts in a behaviour
    Restartable       \* the members that may go down and come back

ASSUME /\ Nodes \subseteq Nat \ {0}
       /\ Resolvers \subseteq Nodes /\ Restartable \subseteq Nodes
       /\ MaxBallot \in Nat /\ MaxRestarts \in Nat
       /\ \A f \in InitialStatuses :
            /\ f \in [Nodes -> {"GTXInvalid", "GTXPrepared", "GTXPreCommitted"}]
            /\ \A r \in Resolvers : f[r] # "GTXInvalid"

VARIABLES
    gtx,       \* gtx[n]: the entry of the transaction in n's shared memory
    pxact,     \* pxact[n]: the engine's transaction at n and its state_3pc
    txreq,     \* txreq[<<s, n>>]: requests of s's resolver on their way to n
    txresp,    \* txresp[<<n, r>>]: answers of n's monitor on their way to r
    res,       \* res[r]: the resolver of r
    promised,  \* history: the highest term n answered a status request for
    broken,    \* history: the nodes that accepted below what they promised
    restarts   \* restarts so far

vars == <<gtx, pxact, txreq, txresp, res, promised, broken, restarts>>

-----------------------------------------------------------------------------
(* Terms and the state of a global transaction                             *)

GlobalTxTerm == [ballot : 0..MaxBallot, node_id : Nodes \cup {0}]

InvalidGTxTerm == [ballot |-> 0, node_id |-> 0]

\* Ballot first, proposer second; negative, zero or positive as in C.
term_cmp(t1, t2) ==
    IF t1.ballot # t2.ballot THEN t1.ballot - t2.ballot
                             ELSE t1.node_id - t2.node_id

MaxTerm(t1, t2) == IF term_cmp(t1, t2) >= 0 THEN t1 ELSE t2

GlobalTxStatus == {"GTXInvalid", "GTXPrepared", "GTXPreCommitted",
                   "GTXPreAborted", "GTXCommitted", "GTXAborted"}

GTxState == [status : GlobalTxStatus, proposal : GlobalTxTerm,
             accepted : GlobalTxTerm]

\* What GlobalTxAcquire(gid, true) creates; GlobalTxAcquire(gid, false)
\* finds nothing while the entry is like this.
NoGtx == [status |-> "GTXInvalid", proposal |-> InvalidGTxTerm,
          accepted |-> InvalidGTxTerm]

\* The coordinator's own prepare and precommit carry no ballot.
serialize_gtx_state(status, proposal, accepted) ==
    [status |-> status, proposal |-> proposal, accepted |-> accepted]

Peers(n) == Nodes \ {n}

Quorum == Cardinality(Nodes) \div 2 + 1

MtmTxRequestType == {"MTReq_Status", "MTReq_Abort", "MTReq_Commit",
                     "MTReq_Precommit", "MTReq_Preabort"}

MtmTxRequest == [tag : {"MtmTxRequest"}, type : MtmTxRequestType,
                 term : GlobalTxTerm]

MtmLastTermRequest == [tag : {"MtmLastTermRequest"}]

MtmTxStatusResponse == [tag : {"MtmTxStatusResponse"}, node_id : Nodes,
                        state : GTxState]

Mtm2AResponse == [tag : {"Mtm2AResponse"}, node_id : Nodes,
                  status : {"GTXPreCommitted", "GTXPreAborted"},
                  accepted : GlobalTxTerm]

MtmLastTermResponse == [tag : {"MtmLastTermResponse"}, term : GlobalTxTerm]

Links == {p \in Nodes \X Nodes : p[1] # p[2]}

-----------------------------------------------------------------------------
(* The engine and the streams                                              *)

\* "committed", "aborted", "notfound", or the transaction is prepared.
GetLoggedPreparedXactState(n) == pxact[n].state

\* SetPreparedTransactionState: the new state_3pc of the prepared
\* transaction is written to the log.
SetPreparedTransactionState(n, sstate) ==
    [pxact EXCEPT ![n].state_3pc = sstate]

\* FinishPreparedTransaction: the transaction is committed or rolled back
\* and its entry leaves the memory with it.
FinishPreparedTransaction(n, commit) ==
    /\ pxact' = [pxact EXCEPT
                   ![n].state = IF commit THEN "committed" ELSE "aborted"]
    /\ gtx' = [gtx EXCEPT ![n] = NoGtx]

GlobalTxGetMaxProposal(n) == gtx[n].proposal

\* dmq_push_buffer(dest_id, "txresp", ...)
Reply(n, s, resp) ==
    txresp' = [txresp EXCEPT ![<<n, s>>] = Append(@, resp)]

\* dmq_pop_nb took the request of s.
Popped(n, s) == [txreq EXCEPT ![<<s, n>>] = Tail(@)]

Broadcast(r, msg) ==
    [p \in Links |-> IF p[1] = r THEN Append(txreq[p], msg) ELSE txreq[p]]

Received(r, s) == [txresp EXCEPT ![<<s, r>>] = Tail(@)]

-----------------------------------------------------------------------------
(* check_status_requests: what the monitor of n does with the request of s *)

\* MTReq_Status for a transaction n has no entry of.  If n finished it,
\* the answer says how; if n never saw it, the answer carries the term.
\* The entry GlobalTxAcquire made for the request is taken to go when
\* GlobalTxRelease gives it back (global_tx.c is not in the tree; the
\* Assert on the term would fail at the next request if it stayed), and
\* the term GlobalTxSaveInTable writes is read by nothing in the tree:
\* neither is kept.
StatusOfFinished(n, s, msg) ==
    /\ gtx[n].status = "GTXInvalid"
    /\ LET logged == GetLoggedPreparedXactState(n)
           state  == CASE logged = "committed" ->
                            [NoGtx EXCEPT !.status = "GTXCommitted"]
                       [] logged = "aborted" ->
                            [NoGtx EXCEPT !.status = "GTXAborted"]
                       [] logged = "notfound" ->
                            [NoGtx EXCEPT !.proposal = msg.term]
       IN  /\ logged \in {"committed", "aborted", "notfound"}
           /\ Reply(n, s, [tag |-> "MtmTxStatusResponse", node_id |-> n,
                           state |-> state])
    /\ UNCHANGED <<gtx, pxact, promised, broken>>

\* StatusLogged with the serialization of the 2A branch.
StatusLogged_AsAccepted(n, msg) ==
    serialize_gtx_state(gtx[n].status, msg.term, msg.term)

\* What the status branch writes to the log: the term as the proposal.
StatusLogged(n, msg) ==
    serialize_gtx_state(gtx[n].status, msg.term, gtx[n].accepted)

\* StatusPromise as the other two branches that take a term do it.
StatusPromise_Remembered(n, msg) ==
    [gtx EXCEPT ![n].proposal = msg.term]

\* What the status branch does to the entry in memory: nothing.
StatusPromise(n, msg) == gtx

\* MTReq_Status for a prepared transaction and a term above the proposal:
\* the term is written to the log with the transaction; the entry in
\* memory, which the answer carries, keeps its proposal.
StatusOfPrepared(n, s, msg) ==
    /\ gtx[n].status \in {"GTXPrepared", "GTXPreCommitted", "GTXPreAborted"}
    /\ term_cmp(msg.term, gtx[n].proposal) > 0
    /\ pxact' = SetPreparedTransactionState(n, StatusLogged(n, msg))
    /\ gtx' = StatusPromise(n, msg)
    /\ Reply(n, s, [tag |-> "MtmTxStatusResponse", node_id |-> n,
                    state |-> gtx'[n]])
    /\ promised' = [promised EXCEPT ![n] = MaxTerm(@, msg.term)]
    /\ UNCHANGED broken

\* MTReq_Status with a term that is not above the proposal: no answer.
StatusRefused(n, msg) ==
    /\ gtx[n].status \in {"GTXPrepared", "GTXPreCommitted", "GTXPreAborted"}
    /\ term_cmp(msg.term, gtx[n].proposal) <= 0
    /\ UNCHANGED <<gtx, pxact, txresp, promised, broken>>

StatusRequest(n, s, msg) ==
    /\ msg.type = "MTReq_Status"
    /\ \/ StatusOfFinished(n, s, msg)
       \/ StatusOfPrepared(n, s, msg)
       \/ StatusRefused(n, msg)

\* MTReq_Abort, MTReq_Commit: the decision of a resolver.
FinishRequest(n, msg) ==
    /\ msg.type \in {"MTReq_Abort", "MTReq_Commit"}
    /\ gtx[n].status # "GTXInvalid"
    /\ FinishPreparedTransaction(n, msg.type = "MTReq_Commit")
    /\ UNCHANGED <<txresp, promised, broken>>

TwoAGuard(n, msg) == term_cmp(msg.term, gtx[n].proposal) >= 0

\* TwoAStatus with the two statuses exchanged.
TwoAStatus_Swapped(msg) ==
    IF msg.type = "MTReq_Precommit" THEN "GTXPreAborted" ELSE "GTXPreCommitted"

TwoAStatus(msg) ==
    IF msg.type = "MTReq_Precommit" THEN "GTXPreCommitted" ELSE "GTXPreAborted"

\* TwoAState with the answer made before the entry is changed.
TwoAState_Stale(n, msg, new_status) == gtx[n]

TwoAState(n, msg, new_status) ==
    [status |-> new_status, proposal |-> msg.term, accepted |-> msg.term]

\* MTReq_Preabort, MTReq_Precommit with a term that is not below the
\* proposal: accepted, logged, remembered and answered.
TwoAAccepted(n, s, msg) ==
    /\ msg.type \in {"MTReq_Preabort", "MTReq_Precommit"}
    /\ gtx[n].status # "GTXInvalid"
    /\ TwoAGuard(n, msg)
    /\ LET new_status == TwoAStatus(msg)
           state      == TwoAState(n, msg, new_status)
       IN  /\ pxact' = SetPreparedTransactionState(n,
                           serialize_gtx_state(new_status, msg.term, msg.term))
           /\ gtx' = [gtx EXCEPT ![n] = state]
           /\ Reply(n, s, [tag |-> "Mtm2AResponse", node_id |-> n,
                           status |-> state.status,
                           accepted |-> state.accepted])
    /\ broken' = IF term_cmp(msg.term, promised[n]) < 0
                   THEN broken \cup {n} ELSE broken
    /\ UNCHANGED promised

\* A request other than MTReq_Status for a transaction n has no entry of,
\* and a 2A request below the proposal: nothing is done, nothing is said.
\* (Without an entry the loop goes on with "continue", past the
\* CommitTransactionCommand of the turn; the engine's transaction is not
\* part of this module.)
RequestIgnored(n, msg) ==
    /\ msg.type # "MTReq_Status"
    /\ \/ gtx[n].status = "GTXInvalid"
       \/ /\ msg.type \in {"MTReq_Preabort", "MTReq_Precommit"}
          /\ ~TwoAGuard(n, msg)
    /\ UNCHANGED <<gtx, pxact, txresp, promised, broken>>

\* T_MtmLastTermRequest
LastTermRequest(n, s) ==
    /\ Reply(n, s, [tag |-> "MtmLastTermResponse",
                    term |-> GlobalTxGetMaxProposal(n)])
    /\ UNCHANGED <<gtx, pxact, promised, broken>>

check_status_requests(n) ==
    \E s \in Peers(n) :
        /\ txreq[<<s, n>>] # <<>>
        /\ txreq' = Popped(n, s)
        /\ LET msg == Head(txreq[<<s, n>>])
           IN  \/ /\ msg.tag = "MtmTxRequest"
                  /\ \/ StatusRequest(n, s, msg)
                     \/ FinishRequest(n, msg)
                     \/ TwoAAccepted(n, s, msg)
                     \/ RequestIgnored(n, msg)
               \/ /\ msg.tag = "MtmLastTermRequest"
                  /\ LastTermRequest(n, s)
        /\ UNCHANGED <<res, restarts>>

-----------------------------------------------------------------------------
(* The resolver of r, after section 4.8 of the specification               *)

Idle == [stage |-> "idle", term |-> InvalidGTxTerm, seen |-> InvalidGTxTerm,
         promises |-> {}, acks |-> {}, value |-> "MTReq_Status"]

Promise == [node_id : Nodes, state : GTxState]

\* The value of the highest accepted term among the promises; where nobody
\* accepted anything, abort unless everybody is precommitted.
HighestAccepted(P) ==
    CHOOSE p \in P : \A q \in P :
        term_cmp(p.state.accepted, q.state.accepted) >= 0

ValueToPropose(P) ==
    LET top       == HighestAccepted(P)
        precommit == IF top.state.accepted # InvalidGTxTerm
                       THEN top.state.status = "GTXPreCommitted"
                       ELSE \A p \in P : p.state.status = "GTXPreCommitted"
    IN  IF precommit THEN "MTReq_Precommit" ELSE "MTReq_Preabort"

\* The resolver finds the orphan and asks the peers for their last term.
Discover(r) ==
    /\ res[r].stage = "idle"
    /\ gtx[r].status # "GTXInvalid"
    /\ res' = [res EXCEPT ![r] = [Idle EXCEPT !.stage = "lastterm",
                                              !.acks = {r}]]
    /\ txreq' = Broadcast(r, [tag |-> "MtmLastTermRequest"])
    /\ UNCHANGED <<gtx, pxact, txresp, promised, broken, restarts>>

\* Phase 1: the ballot after the highest one seen, promised at r itself
\* and sent to the peers.
Phase1(r, seen) ==
    LET term == [ballot |-> seen.ballot + 1, node_id |-> r]
    IN  /\ gtx' = [gtx EXCEPT ![r].proposal = term]
        /\ pxact' = SetPreparedTransactionState(r, gtx'[r])
        /\ promised' = [promised EXCEPT ![r] = MaxTerm(@, term)]
        /\ res' = [res EXCEPT ![r] = [Idle EXCEPT
                     !.stage = "phase1", !.term = term,
                     !.promises = {[node_id |-> r, state |-> gtx'[r]]}]]
        /\ txreq' = Broadcast(r, [tag |-> "MtmTxRequest",
                                  type |-> "MTReq_Status", term |-> term])
        /\ UNCHANGED broken

\* Phase 2: r accepts the value itself, if it has promised nothing higher
\* meanwhile, and asks the peers to.
Phase2(r, P) ==
    LET value  == ValueToPropose(P)
        status == IF value = "MTReq_Precommit"
                    THEN "GTXPreCommitted" ELSE "GTXPreAborted"
        term   == res[r].term
        mine   == /\ gtx[r].status # "GTXInvalid"
                  /\ term_cmp(term, gtx[r].proposal) >= 0
    IN  /\ gtx' = IF mine
                    THEN [gtx EXCEPT ![r] =
                            serialize_gtx_state(status, term, term)]
                    ELSE gtx
        /\ pxact' = IF mine THEN SetPreparedTransactionState(r, gtx'[r])
                            ELSE pxact
        /\ res' = [res EXCEPT ![r] = [Idle EXCEPT
                     !.stage = "phase2", !.term = term, !.value = value,
                     !.acks = IF mine THEN {r} ELSE {}]]
        /\ txreq' = Broadcast(r, [tag |-> "MtmTxRequest", type |-> value,
                                  term |-> term])
        /\ broken' = IF mine /\ term_cmp(term, promised[r]) < 0
                       THEN broken \cup {r} ELSE broken
        /\ UNCHANGED promised

\* The decision: the transaction is finished at r, unless a peer's
\* decision has finished it already, and the peers are told.
Decide(r) ==
    LET commit == res[r].value = "MTReq_Precommit"
    IN  /\ IF gtx[r].status # "GTXInvalid"
             THEN FinishPreparedTransaction(r, commit)
             ELSE UNCHANGED <<gtx, pxact>>
        /\ res' = [res EXCEPT ![r] = [Idle EXCEPT !.stage = "done"]]
        /\ txreq' = Broadcast(r, [tag |-> "MtmTxRequest",
                        type |-> IF commit THEN "MTReq_Commit"
                                           ELSE "MTReq_Abort",
                        term |-> res[r].term])
        /\ UNCHANGED <<promised, broken>>

\* An answer the resolver no longer waits for.
Dropped == UNCHANGED <<gtx, pxact, txreq, res, promised, broken>>

\* With the last terms of a quorum, itself included, r starts its ballot,
\* if the bound on the ballots leaves it one.
OnLastTermResponse(r, s, msg) ==
    /\ msg.tag = "MtmLastTermResponse"
    /\ LET heard == res[r].acks \cup {s}
           seen  == MaxTerm(MaxTerm(res[r].seen, msg.term), gtx[r].proposal)
           start == /\ Cardinality(heard) >= Quorum
                    /\ gtx[r].status # "GTXInvalid"
                    /\ seen.ballot < MaxBallot
       IN  \/ /\ res[r].stage = "lastterm" /\ start
              /\ Phase1(r, seen)
           \/ /\ res[r].stage = "lastterm" /\ ~start
              /\ res' = [res EXCEPT ![r].acks = heard, ![r].seen = seen]
              /\ UNCHANGED <<gtx, pxact, txreq, promised, broken>>
           \/ /\ res[r].stage # "lastterm"
              /\ Dropped

\* A peer that has finished the transaction tells how, and r does the
\* same.  Any other answer is a promise, and a quorum of them, the one of
\* r included, begins phase 2.
OnTxStatusResponse(r, msg) ==
    /\ msg.tag = "MtmTxStatusResponse"
    /\ LET finished == msg.state.status \in {"GTXCommitted", "GTXAborted"}
           mine     == gtx[r].status # "GTXInvalid"
           P        == res[r].promises \cup
                         {[node_id |-> msg.node_id, state |-> msg.state]}
           waiting  == res[r].stage = "phase1"
       IN  \/ /\ waiting /\ finished /\ mine
              /\ FinishPreparedTransaction(r,
                                           msg.state.status = "GTXCommitted")
              /\ res' = [res EXCEPT ![r] = [Idle EXCEPT !.stage = "done"]]
              /\ UNCHANGED <<txreq, promised, broken>>
           \/ /\ waiting /\ ~finished
              /\ Cardinality({p.node_id : p \in P}) >= Quorum
              /\ Phase2(r, P)
           \/ /\ waiting /\ ~finished
              /\ Cardinality({p.node_id : p \in P}) < Quorum
              /\ res' = [res EXCEPT ![r].promises = P]
              /\ UNCHANGED <<gtx, pxact, txreq, promised, broken>>
           \/ /\ ~waiting \/ (finished /\ ~mine)
              /\ Dropped

\* An accept of the term of r counts, and a quorum of them decides.
On2AResponse(r, msg) ==
    /\ msg.tag = "Mtm2AResponse"
    /\ LET acks  == res[r].acks \cup {msg.node_id}
           counts == res[r].stage = "phase2" /\ msg.accepted = res[r].term
       IN  \/ /\ counts /\ Cardinality(acks) >= Quorum
              /\ Decide(r)
           \/ /\ counts /\ Cardinality(acks) < Quorum
              /\ res' = [res EXCEPT ![r].acks = acks]
              /\ UNCHANGED <<gtx, pxact, txreq, promised, broken>>
           \/ /\ ~counts
              /\ Dropped

ResolverReceive(r) ==
    \E s \in Peers(r) :
        /\ txresp[<<s, r>>] # <<>>
        /\ txresp' = Received(r, s)
        /\ LET msg == Head(txresp[<<s, r>>])
           IN  \/ OnLastTermResponse(r, s, msg)
               \/ OnTxStatusResponse(r, msg)
               \/ On2AResponse(r, msg)
        /\ UNCHANGED restarts

-----------------------------------------------------------------------------
(* A node goes down and comes back                                         *)

\* GlobalTxLoadAll at the start of the monitor: the entry is what the log
\* holds of the prepared transaction.  What was on its way to the node or
\* from it is lost with the connections, and so is what the resolver knew.
GlobalTxLoadAll(n) ==
    IF pxact[n].state = "prepared" THEN pxact[n].state_3pc ELSE NoGtx

Restart(n) ==
    /\ n \in Restartable
    /\ restarts < MaxRestarts
    /\ restarts' = restarts + 1
    /\ gtx' = [gtx EXCEPT ![n] = GlobalTxLoadAll(n)]
    /\ res' = IF n \in Resolvers THEN [res EXCEPT ![n] = Idle] ELSE res
    /\ txreq' = [p \in Links |-> IF n \in {p[1], p[2]} THEN <<>> ELSE txreq[p]]
    /\ txresp' = [p \in Links |->
                    IF n \in {p[1], p[2]} THEN <<>> ELSE txresp[p]]
    /\ UNCHANGED <<pxact, promised, broken>>

-----------------------------------------------------------------------------
Init ==
    /\ \E f \in InitialStatuses :
         /\ gtx = [n \in Nodes |-> [NoGtx EXCEPT !.status = f[n]]]
         /\ pxact = [n \in Nodes |->
                       [state |-> IF f[n] = "GTXInvalid" THEN "notfound"
                                                         ELSE "prepared",
                        state_3pc |-> [NoGtx EXCEPT !.status = f[n]]]]
    /\ txreq = [p \in Links |-> <<>>]
    /\ txresp = [p \in Links |-> <<>>]
    /\ res = [r \in Resolvers |-> Idle]
    /\ promised = [n \in Nodes |-> InvalidGTxTerm]
    /\ broken = {}
    /\ restarts = 0

ResolverMain(r) == Discover(r) \/ ResolverReceive(r)

Next ==
    \/ \E n \in Nodes : check_status_requests(n) \/ Restart(n)
    \/ \E r \in Resolvers : ResolverMain(r)

Spec == Init /\ [][Next]_vars

-----------------------------------------------------------------------------
TypeOK ==
    /\ gtx \in [Nodes -> GTxState]
    /\ pxact \in [Nodes -> [state : {"notfound", "prepared", "committed",
                                     "aborted"},
                            state_3pc : GTxState]]
    /\ \A p \in Links :
         /\ txreq[p] \in Seq(MtmTxRequest \cup MtmLastTermRequest)
         /\ txresp[p] \in Seq(MtmTxStatusResponse \cup Mtm2AResponse
                                \cup MtmLastTermResponse)
    /\ res \in [Resolvers ->
                  [stage : {"idle", "lastterm", "phase1", "phase2", "done"},
                   term : GlobalTxTerm, seen : GlobalTxTerm,
                   promises : SUBSET Promise, acks : SUBSET Nodes,
                   value : MtmTxRequestType]]
    /\ promised \in [Nodes -> GlobalTxTerm]
    /\ broken \subseteq Nodes
    /\ restarts \in 0..MaxRestarts

\* No two members finish the transaction differently: what one resolver
\* commits through check_status_requests no other resolver aborts.
Agreement ==
    \A m, n \in Nodes :
        ~(pxact[m].state = "committed" /\ pxact[n].state = "aborted")

\* The members can only come to finish the transaction differently after
\* one of them accepted, in the 2A branch of check_status_requests, a term
\* below one it had answered a status request for.
AgreementUnlessPromiseBroken == broken = {} => Agreement

\* What a member has accepted is in the log before it is answered, and
\* the log never holds a lower proposal than the memory: a restart, which
\* reads the entry back (GlobalTxLoadAll), takes no promise and no accepted
\* value away from the entry check_status_requests worked with.
LogCoversMemory ==
    \A n \in Nodes :
        gtx[n].status # "GTXInvalid" =>
            /\ pxact[n].state_3pc.status = gtx[n].status
            /\ pxact[n].state_3pc.accepted = gtx[n].accepted
            /\ term_cmp(pxact[n].state_3pc.proposal, gtx[n].proposal) >= 0
=============================================================================
