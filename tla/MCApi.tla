---------------------------------- MODULE MCApi ----------------------------------
(* Instances of Api for TLC.                                             *)
EXTENDS Api, TLC

CONSTANTS r1, r2, e1, e2, e3

MCTypes == {"push", "issues"}
MCRepositories == {"owner/repo"}
MCSenders == {"octocat"}
MCTimes == {1, 2, 3}

FreshRow(type, created) ==
    [type |-> type, repository |-> "owner/repo", sender |-> "octocat",
     created |-> created, headers |-> TRUE, forwarded |-> FALSE,
     replayed |-> FALSE]

MCNewRows == {FreshRow("push", 1), FreshRow("issues", 3)}

Within(since, until, types) ==
    [AnyEvent EXCEPT !.since = since, !.until = until, !.types = types]

RangeOf(api, opts, limit) ==
    [api |-> api, kind |-> "range", opts |-> opts, ends |-> TRUE, limit |-> limit]

List(api, opts, limit, offset) ==
    [api |-> api, kind |-> "list", opts |-> opts, limit |-> limit, offset |-> offset]

Single(id) == [api |-> "graphql", kind |-> "single", id |-> id]

Posted(path) == [api |-> "rest", kind |-> "single", path |-> path]

\* Ranges that the limit cuts, that it does not cut and without an upper end, a
\* single replay, queries of every kind, and everything that is refused.
MCRequests ==
    {RangeOf("rest", Within(1, 2, {}), NoLimit),
     RangeOf("rest", Within(1, 3, {}), 0),
     RangeOf("graphql", Within(2, 0, {}), 2),
     [RangeOf("graphql", Within(0, 3, {}), NoLimit) EXCEPT !.ends = FALSE],
     List("rest", Within(0, 0, {"push"}), 0, 0),
     List("rest", Within(0, 0, {}), -1, 1),
     List("graphql", Within(0, 0, {}), 0, 1),
     Single(e1), Single(""),
     [api |-> "graphql", kind |-> "event", id |-> e1],
     [api |-> "rest", kind |-> "stats", since |-> 2],
     Posted(<<"api", "events", e1>>),
     Posted(<<"api", "events", "replay">>)}

MCSymmetry == Permutations(Replayers)

MCDocumented == {Posted(<<"api", "events", id, "replay">>) : id \in Ids}
=================================================================================
