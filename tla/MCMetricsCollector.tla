-------------------------- MODULE MCMetricsCollector --------------------------
(* Instances of MetricsCollector for TLC.                                   *)
EXTENDS MetricsCollector

CONSTANTS n1, h1, h2, e1, e2, e3

MCTypes == {"push", "issues"}
MCRepositories == {""}
MCSenders == {""}
MCTimes == {1}

FreshRow(type) ==
    [type |-> type, repository |-> "", sender |-> "", created |-> 1,
     headers |-> TRUE, forwarded |-> FALSE, replayed |-> FALSE]

MCNewRows == {FreshRow(type) : type \in MCTypes}
===============================================================================
