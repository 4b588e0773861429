------------------------------ MODULE MCForwarder ------------------------------
(* Instances of Forwarder for TLC.                                          *)
EXTENDS Forwarder

CONSTANTS n1, n2, e1, e2, e3

\* One type, repository, sender and instant: the forwarder looks at none.
MCTypes == {"push"}
MCRepositories == {""}
MCSenders == {""}
MCTimes == {1}

FreshRow(parses) ==
    [type |-> "push", repository |-> "", sender |-> "", created |-> 1,
     headers |-> parses, forwarded |-> FALSE, replayed |-> FALSE]

\* Headers that parse, and none: the webhook handler stores an event without
\* headers when it cannot marshal them (handler.go:181).
MCNewRows == {FreshRow(TRUE), FreshRow(FALSE)}

\* Only headers that parse.
MCGoodRows == {FreshRow(TRUE)}
================================================================================
