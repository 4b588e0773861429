------------------------------- MODULE MCHubProxy -------------------------------
(* Instances of HubProxy for TLC.                                           *)
EXTENDS HubProxy

CONSTANTS p, h1, r1, e1, a1, a2

MCTypes == {"push"}
MCRepositories == {""}
MCSenders == {""}
MCTimes == {1}

Genuine ==
    [method |-> "POST", type |-> "push", ip |-> a1, body |-> TRUE,
     signed |-> TRUE, id |-> e1, repository |-> "", sender |-> ""]

MCRequests == {Genuine}

MCApiRequests == {[api |-> "graphql", kind |-> "single", id |-> e1]}

\* GitHub moves its hooks to another address.
MCDocuments == {{a2}, {a1, a2}}
=================================================================================
