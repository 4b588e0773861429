---------------------------------- MODULE Api ----------------------------------
(***************************************************************************)
(* The requests of the API server: the handlers of internal/api/handler.go *)
(* and the resolvers of internal/graphql/resolvers.go.  A listing is a     *)
(* COUNT and then a SELECT; a replay is a read of the rows and then one    *)
(* UPDATE per row that writes every column back.  There is no transaction  *)
(* around them: other requests, the webhook handler and the forwarder      *)
(* write in between, a failure leaves the rows before it replayed, and a   *)
(* crash takes every request with it.                                      *)
(***************************************************************************)
EXTENDS EventStore, Integers, Sequences

CONSTANTS
    Replayers,      \* API requests served at the same time
    Requests,       \* the requests that can come in
    NewRows,        \* the rows the webhook handler inserts
    NoRequest,      \* the replayer serves no request
    NoLimit,        \* a request without a limit
    DefaultLimit,   \* the limit of a range replay without one (100)
    PageLimit,      \* the limit of a listing without one (50)
    OffsetNeedsLimit,  \* SQLite and MySQL: OFFSET without LIMIT is an error
    MaxRequests,    \* bound on the requests of a behaviour
    MaxFaults       \* bound on failing SQL statements and on crashes

Apis == {"rest", "graphql"}
\* POST of a path below the API server, the part before the query.
RestSingle == [api : {"rest"}, kind : {"single"}, path : Seq(STRING \cup Ids)]
\* mutation { replayEvent(id: ...) } and query { event(id: ...) }
GraphqlSingle == [api : {"graphql"}, kind : {"single", "event"}, id : Ids \cup {""}]
\* POST /api/replay and mutation { replayRange(...) }; "ends" is TRUE if both
\* ends of the range are given and parse.  An end of 0 is Go's zero time.
ReplayRange == [api : Apis, kind : {"range"}, opts : QueryOptions, ends : BOOLEAN,
                limit : Int \cup {NoLimit}]
\* GET /api/events and query { events(...) }
Listing == [api : Apis, kind : {"list"}, opts : QueryOptions,
            limit : Int \cup {NoLimit}, offset : Int]
\* GET /api/stats and query { stats(...) }
Statistics == [api : Apis, kind : {"stats"}, since : Times \cup {0}]

ASSUME IdsAssumption == IsFiniteSet(Ids)    \* the column has a maximal length
ASSUME RequestsAssumption ==
    \A req \in Requests :
        /\ req \in RestSingle \cup GraphqlSingle \cup ReplayRange \cup Listing \cup Statistics
        /\ req.kind \in {"range", "list"} => ~ req.opts.onlyNonForwarded
ASSUME NewRowsAssumption ==
    NewRows \subseteq {row \in Row : ~ row.forwarded /\ ~ row.replayed}
ASSUME SentinelAssumption == NoRequest \notin Requests /\ NoLimit \notin Int
ASSUME BoundsAssumption ==
    /\ DefaultLimit \in Nat \ {0} /\ PageLimit \in Nat \ {0}
    /\ OffsetNeedsLimit \in BOOLEAN
    /\ MaxRequests \in Nat /\ MaxFaults \in Nat

VARIABLES
    table,          \* the events table
    pc,             \* pc[r]: where the handler or resolver is
    request,        \* request[r]: what it was asked
    events,         \* events[r]: the rows it has read, by id
    left,           \* left[r]: those it has not written back yet
    total,          \* total[r]: the COUNT of a listing
    answer,         \* answer[r]: "none" while there is none
    requests,       \* requests so far
    faults,         \* faults so far
    \* history, for the properties only
    written,        \* written[r]: the events this request has replayed
    known           \* known[r]: the events in the table when it came in

locals == <<events, left, total, written, known>>
vars == <<table, pc, request, locals, answer, requests, faults>>

Answers == {"none", "ok", "notFound", "badRequest", "error"}

NoEvents == [id \in {} |-> NoRow]

Init ==
    /\ table = EmptyTable
    /\ pc = [r \in Replayers |-> "idle"]
    /\ request = [r \in Replayers |-> NoRequest]
    /\ events = [r \in Replayers |-> NoEvents]
    /\ left = [r \in Replayers |-> {}]
    /\ total = [r \in Replayers |-> 0]
    /\ answer = [r \in Replayers |-> "none"]
    /\ requests = 0
    /\ faults = 0
    /\ written = [r \in Replayers |-> {}]
    /\ known = [r \in Replayers |-> {}]

Fault == faults < MaxFaults /\ faults' = faults + 1

Goto(r, label) == pc' = [pc EXCEPT ![r] = label]

Answer(r, what) ==
    /\ Goto(r, "answered")
    /\ answer' = [answer EXCEPT ![r] = what]

-------------------------------------------------------------------------------
(* What the routers and the argument checks make of a request.              *)

\* apiRouter.Post("/api/events/{id}", ...): {id} is one segment.
Routed(path) == Len(path) = 3 /\ path[1] = "api" /\ path[2] = "events"

\* ReplayEvent wants "replay" last and takes the segment before it for the id.
ReplayPath(path) == Len(path) >= 3 /\ path[Len(path)] = "replay"
PathId(path) == path[Len(path) - 1]

\* Both ends of the range are required; only REST refuses a bad limit.
ValidRange(req) ==
    /\ req.ends
    /\ req.api = "rest" => req.limit = NoLimit \/ req.limit > 0

\* The limit of the SELECT, none when it is not positive: GraphQL ignores such
\* a limit, GET /api/events hands it on.
LimitOf(req) ==
    IF req.limit # NoLimit /\ (req.limit > 0 \/ req.api = "rest") THEN req.limit
    ELSE IF req.kind = "list" THEN PageLimit ELSE DefaultLimit

\* The offset of the SELECT; one that is not positive is left out.
OffsetOf(req) == IF req.kind = "list" /\ req.offset > 0 THEN req.offset ELSE 0

\* How many of n rows are on the page.
PageSize(n, req) ==
    LET rest == IF OffsetOf(req) < n THEN n - OffsetOf(req) ELSE 0
    IN  IF LimitOf(req) \in 1 .. rest THEN LimitOf(req) ELSE rest

\* The first answer to a request, "none" when the storage is asked.
Refusal(req) ==
    CASE req.kind = "range" -> IF ValidRange(req) THEN "none" ELSE "badRequest"
      [] req.kind = "single" /\ req.api = "rest" ->
            IF ~ Routed(req.path) THEN "notFound"
            ELSE IF ReplayPath(req.path) THEN "none" ELSE "badRequest"
      [] req.kind \in {"single", "event"} /\ req.api = "graphql" ->
            IF req.id = "" THEN "badRequest" ELSE "none"
      [] req.kind \in {"list", "stats"} -> "none"

IdOf(req) == IF req.api = "rest" THEN PathId(req.path) ELSE req.id

-------------------------------------------------------------------------------
(* The handlers and resolvers.                                              *)

Receive(r, req) ==
    /\ pc[r] = "idle"
    /\ requests < MaxRequests
    /\ requests' = requests + 1
    /\ request' = [request EXCEPT ![r] = req]
    /\ \/ /\ Refusal(req) = "none"
          /\ Goto(r, IF req.kind \in {"range", "list"} THEN "count" ELSE "read")
          /\ UNCHANGED answer
       \/ Refusal(req) # "none" /\ Answer(r, Refusal(req))
    /\ known' = [known EXCEPT ![r] = Stored(table)]
    /\ UNCHANGED <<table, events, left, total, written, faults>>

\* The rows of the page are read: a replay goes on to write them, a query is
\* answered with them.
Read(r, page) ==
    /\ events' = [events EXCEPT ![r] = [id \in page |-> table[id]]]
    /\ \/ /\ request[r].kind \in {"single", "range"}
          /\ left' = [left EXCEPT ![r] = page]
          /\ Goto(r, "update")
          /\ UNCHANGED answer
       \/ /\ request[r].kind \in {"event", "list"}
          /\ Answer(r, "ok")
          /\ UNCHANGED left

\* GetEvent: the row, or nil.
GetEvent(r) ==
    /\ pc[r] = "read"
    /\ request[r].kind \in {"single", "event"}
    /\ LET id == IdOf(request[r])
       IN  \/ id \in Stored(table) /\ Read(r, {id})
           \/ id \notin Stored(table) /\ Answer(r, "notFound") /\ UNCHANGED <<events, left>>
    /\ UNCHANGED <<table, request, total, requests, faults, written, known>>

\* Mutant of CountEvents: the conditions are put on the page's query only.
CountWithoutConditions(r) ==
    /\ pc[r] = "count"
    /\ total' = [total EXCEPT ![r] = Cardinality(Stored(table))]
    /\ Goto(r, "read")
    /\ UNCHANGED <<table, request, events, left, answer, requests, faults, written, known>>

\* The first statement of ListEvents; a range replay throws its result away.
CountEvents(r) ==
    /\ pc[r] = "count"
    /\ total' = [total EXCEPT ![r] = Cardinality(Matching(table, request[r].opts))]
    /\ Goto(r, "read")
    /\ UNCHANGED <<table, request, events, left, answer, requests, faults, written, known>>

\* The second: as many of the rows that match as the limit and the offset
\* leave, any of them for want of an ORDER BY.
ListEvents(r) ==
    /\ pc[r] = "read"
    /\ request[r].kind \in {"range", "list"}
    /\ LET req == request[r]
           all == Matching(table, req.opts)
       IN  \/ /\ OffsetNeedsLimit /\ OffsetOf(req) > 0 /\ LimitOf(req) <= 0
              /\ Answer(r, "error")
              /\ UNCHANGED <<events, left>>
           \/ /\ OffsetNeedsLimit => OffsetOf(req) = 0 \/ LimitOf(req) > 0
              /\ req.kind = "range" => all # {}
              /\ \E page \in SUBSET all :
                    Cardinality(page) = PageSize(Cardinality(all), req) /\ Read(r, page)
           \/ /\ req.kind = "range" /\ all = {}
              /\ Answer(r, "notFound")
              /\ UNCHANGED <<events, left>>
    /\ UNCHANGED <<table, request, total, requests, faults, written, known>>

\* The statistics: one statement, whatever it counts.
GetStats(r) ==
    /\ pc[r] = "read"
    /\ request[r].kind = "stats"
    /\ Answer(r, "ok")
    /\ UNCHANGED <<table, request, locals, requests, faults>>

\* Mutant of UpdateEvent: ForwardedAt is copied along with the other columns.
UpdateKeepsForwarded(r, id) ==
    /\ pc[r] = "update"
    /\ id \in left[r]
    /\ table' = Update(table, id, [events[r][id] EXCEPT !.replayed = TRUE])
    /\ left' = [left EXCEPT ![r] = @ \ {id}]
    /\ written' = [written EXCEPT ![r] = @ \cup {id}]
    /\ UNCHANGED <<pc, request, events, total, answer, requests, faults, known>>

\* UpdateEvent writes back the row that was read, with the replay's marks.
UpdateEvent(r, id) ==
    /\ pc[r] = "update"
    /\ id \in left[r]
    /\ table' = Update(table, id, ReplayOf(events[r][id]))
    /\ left' = [left EXCEPT ![r] = @ \ {id}]
    /\ written' = [written EXCEPT ![r] = @ \cup {id}]
    /\ UNCHANGED <<pc, request, events, total, answer, requests, faults, known>>

\* Mutant of StatementFails: the loop goes on with the next event.
FailureSkipsEvent(r) ==
    /\ pc[r] = "update"
    /\ Fault
    /\ \E id \in left[r] : left' = [left EXCEPT ![r] = @ \ {id}]
    /\ UNCHANGED <<table, pc, request, events, total, answer, requests, written, known>>

\* A statement fails, or the client leaves and cancels it: an internal server
\* error, whatever has been written.
StatementFails(r) ==
    /\ \/ pc[r] \in {"count", "read"}
       \/ pc[r] = "update" /\ left[r] # {}
    /\ Fault
    /\ Answer(r, "error")
    /\ UNCHANGED <<table, request, locals, requests>>

\* The response with the replayed events and their number.
Respond(r) ==
    /\ pc[r] = "update"
    /\ left[r] = {}
    /\ Answer(r, "ok")
    /\ UNCHANGED <<table, request, locals, requests, faults>>

\* Mutant of Finish: the request outlives its answer.
FinishKeepsRequest(r) ==
    /\ pc[r] = "answered"
    /\ Goto(r, "idle")
    /\ answer' = [answer EXCEPT ![r] = "none"]
    /\ UNCHANGED <<table, request, locals, requests, faults>>

\* The handler has returned; its locals are gone.
Finish(r) ==
    /\ pc[r] = "answered"
    /\ Goto(r, "idle")
    /\ request' = [request EXCEPT ![r] = NoRequest]
    /\ events' = [events EXCEPT ![r] = NoEvents]
    /\ left' = [left EXCEPT ![r] = {}]
    /\ total' = [total EXCEPT ![r] = 0]
    /\ answer' = [answer EXCEPT ![r] = "none"]
    /\ written' = [written EXCEPT ![r] = {}]
    /\ known' = [known EXCEPT ![r] = {}]
    /\ UNCHANGED <<table, requests, faults>>

\* The process dies with every request it serves; the table stays as it is.
Crash ==
    /\ Fault
    /\ pc' = [r \in Replayers |-> "idle"]
    /\ request' = [r \in Replayers |-> NoRequest]
    /\ events' = [r \in Replayers |-> NoEvents]
    /\ left' = [r \in Replayers |-> {}]
    /\ total' = [r \in Replayers |-> 0]
    /\ answer' = [r \in Replayers |-> "none"]
    /\ written' = [r \in Replayers |-> {}]
    /\ known' = [r \in Replayers |-> {}]
    /\ UNCHANGED <<table, requests>>

-------------------------------------------------------------------------------
(* The other parts of the process, and the other writers of the table.      *)

FaultElsewhere ==
    /\ Fault
    /\ UNCHANGED <<table, pc, request, locals, answer, requests>>

Store(id, row) ==
    /\ table' = Insert(table, id, row)
    /\ UNCHANGED <<pc, request, locals, answer, requests, faults>>

ForwarderMarks(id) ==
    /\ id \in Stored(table)
    /\ table' = MarkForwarded(table, id)
    /\ UNCHANGED <<pc, request, locals, answer, requests, faults>>

-------------------------------------------------------------------------------
\* What a handler does without changing the table.
Reader(r) ==
    \/ GetEvent(r) \/ CountEvents(r) \/ ListEvents(r) \/ GetStats(r)
    \/ StatementFails(r) \/ Respond(r)

Replayer(r) == Reader(r) \/ \E id \in Ids : UpdateEvent(r, id)

Next ==
    \/ \E r \in Replayers :
          (\E req \in Requests : Receive(r, req)) \/ Replayer(r) \/ Finish(r)
    \/ \E id \in Ids :
          ForwarderMarks(id) \/ \E row \in NewRows : Store(id, row)
    \/ Crash \/ FaultElsewhere

Spec == Init /\ [][Next]_vars

-------------------------------------------------------------------------------
\* Every variable has its type, and a replayer's rows belong to its request.
TypeOK ==
    /\ table \in Table
    /\ pc \in [Replayers -> {"idle", "count", "read", "update", "answered"}]
    /\ request \in [Replayers -> Requests \cup {NoRequest}]
    /\ left \in [Replayers -> SUBSET Ids]
    /\ total \in [Replayers -> Nat]
    /\ answer \in [Replayers -> Answers]
    /\ requests \in 0 .. MaxRequests
    /\ faults \in 0 .. MaxFaults
    /\ written \in [Replayers -> SUBSET Ids]
    /\ known \in [Replayers -> SUBSET Ids]
    /\ DOMAIN events = Replayers
    /\ \A r \in Replayers :
          /\ DOMAIN events[r] \subseteq Stored(table)
          /\ events[r] \in [DOMAIN events[r] -> Row]
          /\ left[r] \cup written[r] \subseteq DOMAIN events[r]
          /\ pc[r] = "idle" <=> request[r] = NoRequest
          /\ pc[r] = "answered" <=> answer[r] # "none"
          /\ pc[r] = "count" => request[r].kind \in {"range", "list"}
          /\ pc[r] = "update" => request[r].kind \in {"single", "range"}

\* A replay writes every column of a row it read some time ago, and yet loses
\* nothing of the event, whoever wrote in between: rows neither go nor come,
\* and what the event is does not change.
EventsSurviveReplay ==
    [][\A id \in Stored(table) :
          /\ id \in Stored(table')
          /\ \A column \in {"type", "repository", "sender", "created", "headers"} :
                table'[id][column] = table[id][column]]_vars

\* The events a request is about: its id, or what its range and its filters say.
\* The zero time, wherever it comes from, bounds nothing.
InQuery(opts, id) ==
    /\ opts.since # 0 => opts.since <= table[id].created
    /\ opts.until # 0 => table[id].created <= opts.until
    /\ table[id].type \in opts.types \/ opts.types = {}
    /\ opts.repository \in {"", table[id].repository}
    /\ opts.sender \in {"", table[id].sender}

Wanted(req, id) ==
    CASE req.kind \in {"single", "event"} -> IdOf(req) = id
      [] req.kind \in {"range", "list"} -> InQuery(req.opts, id)
      [] req.kind = "stats" -> req.since <= table[id].created

\* An event that was forwarded becomes unforwarded only by a replay that asked
\* for it: by its id, or by a range and filters it lies in.  No query resets.
OnlyWantedAreReset ==
    [][\A id \in Stored(table) :
          table[id].forwarded /\ ~ table'[id].forwarded =>
              \E r \in Replayers :
                  /\ pc[r] = "update" /\ request[r].kind \in {"single", "range"}
                  /\ Wanted(request[r], id)]_vars

\* Only a page that the limit has cut misses an event that was in the table,
\* and wanted, when the request came in.
Complete(r) ==
    \/ \A id \in known[r] : Wanted(request[r], id) => id \in DOMAIN events[r]
    \/ /\ request[r].kind \in {"range", "list"}
       /\ \/ OffsetOf(request[r]) > 0
          \/ Cardinality(DOMAIN events[r]) = LimitOf(request[r])

\* The answer "ok" to a replay means that every event in it has been written,
\* that there is at least one and no more than the limit, and that only a full
\* page can miss an event.
OkIsComplete ==
    \A r \in Replayers :
        answer[r] = "ok" /\ request[r].kind \in {"single", "range"} =>
            /\ written[r] = DOMAIN events[r]
            /\ written[r] # {}
            /\ \A id \in written[r] : Wanted(request[r], id) /\ table[id].replayed
            /\ Complete(r)
            /\ request[r].kind = "range" => Cardinality(written[r]) <= LimitOf(request[r])

\* The COUNT and the SELECT of a listing see different tables, but the page is
\* never smaller than the total promises, the total counts every event that
\* was there when the request came in, and the page is made of wanted events.
PageKeepsPromise ==
    \A r \in Replayers :
        answer[r] = "ok" /\ request[r].kind = "list" =>
            /\ Cardinality({id \in known[r] : Wanted(request[r], id)}) <= total[r]
            /\ PageSize(total[r], request[r]) <= Cardinality(DOMAIN events[r])
            /\ \A id \in DOMAIN events[r] : Wanted(request[r], id)
            /\ Complete(r)

\* POST /api/events/{id}/replay of a stored event finds it.
DocumentedReplayWorks ==
    \A r \in Replayers : \A id \in known[r] :
        request[r] = [api |-> "rest", kind |-> "single",
                      path |-> <<"api", "events", id, "replay">>]
        => answer[r] # "notFound"
=================================================================================
