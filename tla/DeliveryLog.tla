------------------------------ MODULE DeliveryLog ------------------------------
(***************************************************************************)
(* What forwarding promises to the target and to a reader of the events    *)
(* table, without queue, passes, requests or processes that come and go.   *)
(*                                                                         *)
(* Every event that is stored, every replay of it and every attempt whose  *)
(* success was not recorded gives each process the right to one delivery;  *)
(* a delivery uses it up; only what the target has been given can be       *)
(* accepted, and only what it has accepted is recorded.                    *)
(***************************************************************************)
EXTENDS Naturals

CONSTANTS
    Nodes,          \* processes that deliver
    Ids             \* events

VARIABLES
    stored,         \* the events there are
    credit,         \* credit[n][id]: deliveries of the event n may still make
    given,          \* events the target has been given
    accepted,       \* events it has accepted
    recorded        \* events a reader sees as forwarded

vars == <<stored, credit, given, accepted, recorded>>

Init ==
    /\ stored = {}
    /\ credit = [n \in Nodes |-> [id \in Ids |-> 0]]
    /\ given = {}
    /\ accepted = {}
    /\ recorded = {}

\* Every process may deliver the event once more.
Entitle(id) == credit' = [n \in Nodes |-> [credit[n] EXCEPT ![id] = @ + 1]]

Store(id) ==
    /\ id \notin stored
    /\ stored' = stored \cup {id}
    /\ Entitle(id)
    /\ UNCHANGED <<given, accepted, recorded>>

Give(n, id) ==
    /\ id \in stored
    /\ credit[n][id] > 0
    /\ credit' = [credit EXCEPT ![n][id] = @ - 1]
    /\ given' = given \cup {id}
    /\ UNCHANGED <<stored, accepted, recorded>>

Accept(id) ==
    /\ id \in given
    /\ accepted' = accepted \cup {id}
    /\ UNCHANGED <<stored, credit, given, recorded>>

\* The success of a delivery, if it was one, is lost.
Lose(id) ==
    /\ id \in given
    /\ Entitle(id)
    /\ UNCHANGED <<stored, given, accepted, recorded>>

Record(id) ==
    /\ id \in stored \cap accepted
    /\ recorded' = recorded \cup {id}
    /\ UNCHANGED <<stored, credit, given, accepted>>

Replay(id) ==
    /\ id \in stored
    /\ recorded' = recorded \ {id}
    /\ Entitle(id)
    /\ UNCHANGED <<stored, given, accepted>>

Next ==
    \E id \in Ids :
        \/ Store(id) \/ Accept(id) \/ Lose(id) \/ Record(id) \/ Replay(id)
        \/ \E n \in Nodes : Give(n, id)

Spec == Init /\ [][Next]_vars
================================================================================
