----------------------------- MODULE MCResolver -----------------------------
(* Three members; the coordinator, a fourth node, is gone.  The resolvers  *)
(* of nodes 1 and 3 take the transaction up; node 2 only answers them.     *)
EXTENDS Resolver, TLC

ThreeNodes == {1, 2, 3}
OneAndThree == {1, 3}
NodeTwo == {2}

\* The coordinator reached the precommit at nodes 1 and 2 and not at 3.
Precommitting ==
    { (1 :> "GTXPreCommitted" @@ 2 :> "GTXPreCommitted" @@ 3 :> "GTXPrepared") }

\* Or it got as far as the prepare at nodes 1 and 3: node 2 never saw the
\* transaction.
LeftBehind ==
    Precommitting \cup
    { (1 :> "GTXPrepared" @@ 2 :> "GTXInvalid" @@ 3 :> "GTXPrepared") }

\* The members come to the same end as long as no member without a resolver
\* has accepted a term below its promise.  Such a member takes every request
\* in check_status_requests, so that a counterexample rests on the test of
\* the 2A branch and on what the status branch left in gtx->state.proposal,
\* and on nothing the resolver does at its own node.
AgreementUnlessAcceptorBreaks ==
    (broken # {} /\ broken \subseteq Nodes \ Resolvers) => Agreement
=============================================================================
