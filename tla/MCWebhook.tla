------------------------------- MODULE MCWebhook -------------------------------
(* Instances of Webhook for TLC.                                            *)
EXTENDS Webhook

CONSTANTS h1, h2, e1, e2, u1, u2, github, foreigner

MCTypes == {"push"}
MCRepositories == {"", "owner/repo"}
MCSenders == {""}
MCTimes == {1}
MCRangeSets == {{}, {github}}

\* A request GitHub sends, and those that differ from it where a check looks.
Genuine(id, repository) ==
    [method |-> "POST", type |-> "push", ip |-> github, body |-> TRUE,
     signed |-> TRUE, id |-> id, repository |-> repository, sender |-> ""]

MCGenuine == {Genuine(e1, ""), Genuine(NoId, "")}

MCRequests ==
    MCGenuine
    \cup {Genuine(e1, "owner/repo"),
          [Genuine(e2, "") EXCEPT !.method = "GET"],
          [Genuine(e2, "") EXCEPT !.type = ""],
          [Genuine(e2, "") EXCEPT !.ip = foreigner],
          [Genuine(e2, "") EXCEPT !.body = FALSE],
          [Genuine(e2, "") EXCEPT !.signed = FALSE]}
================================================================================
