-------------------------------- MODULE Webhook --------------------------------
(***************************************************************************)
(* internal/webhook/handler.go: the requests GitHub (or anybody) sends to  *)
(* /webhook, served concurrently by one hubproxy process.                  *)
(*                                                                         *)
(* A request goes through the checks of ServeHTTP in their order, is       *)
(* stored, announced to the metrics collector and answered.  Between any   *)
(* two of these other requests are served, the IP ranges are replaced, the *)
(* client can go away and the process can die.                             *)
(***************************************************************************)
EXTENDS EventStore

CONSTANTS
    Handlers,       \* requests served at the same time
    IPs,            \* client addresses, after the RealIP and Funnel middlewares
    RangeSets,      \* the address sets the IP validator can hold
    Requests,       \* the requests that can come in
    Uuids,          \* ids uuid.New() can return, none of them a delivery id;
                    \* MaxRequests of them are enough never to run out
    NoId,           \* the X-GitHub-Delivery header is missing
    NoRequest,      \* the handler serves no request
    ValidateIP,     \* the validate-ip flag
    MaxRequests,    \* bound on the requests of a behaviour
    MaxFaults       \* bound on restarts, clients that leave and SQL errors

\* A request, as far as ServeHTTP looks at it: body says that it can be read,
\* signed that X-Hub-Signature-256 is the HMAC of the body under the secret.
Request == [method : {"POST", "GET"}, type : Types \cup {""}, ip : IPs,
            body : BOOLEAN, signed : BOOLEAN, id : (Ids \ Uuids) \cup {NoId},
            repository : Repositories, sender : Senders]

\* Where a row comes from: a request, and the ranges it was checked against.
Origin == [request : Request, ranges : SUBSET IPs]

ASSUME RequestsAssumption == Requests \subseteq Request
ASSUME RangesAssumption == RangeSets \subseteq SUBSET IPs /\ {} \in RangeSets
ASSUME UuidsAssumption == Uuids \subseteq Ids
ASSUME SentinelAssumption == NoId \notin Ids /\ NoRequest \notin Request \cup Origin
ASSUME ValidateIPAssumption == ValidateIP \in BOOLEAN
ASSUME NonEmptyAssumption == "" \notin Types
ASSUME BoundsAssumption == MaxRequests \in Nat /\ MaxFaults \in Nat

VARIABLES
    table,          \* the events table
    serving,        \* webhookSrv accepts requests
    githubIPs,      \* the ranges the IP validator holds
    gatherQ,        \* the metrics collector's queue holds a token
    pc,             \* pc[h]: where ServeHTTP is
    request,        \* request[h]: the request being served
    gone,           \* gone[h]: its client has left, r.Context() is done
    status,         \* status[h]: the answer, 0 while there is none
    storedEvents,   \* hubproxy_webhook_stored_events_total
    blockedIPs,     \* hubproxy_webhook_blocked_ips_total
    signatureErrors,\* hubproxy_webhook_signature_errors_total
    requests,       \* requests so far
    faults,         \* faults so far
    \* history, for the properties only
    seen,           \* seen[h]: the ranges when the request was validated
    key,            \* key[h]: the id StoreEvent succeeded with
    origin          \* origin[id]: the request behind the row, NoRequest for none

process == <<serving, githubIPs>>
counters == <<storedEvents, blockedIPs, signatureErrors>>
vars == <<table, process, gatherQ, pc, request, gone, status, counters,
          requests, faults, seen, key, origin>>

Pcs == {"idle", "method", "validate", "body", "store", "enqueue", "answered"}
Statuses == {0, 200, 400, 401, 405, 500}

Init ==
    /\ table = EmptyTable
    /\ serving = FALSE
    /\ githubIPs = {}
    /\ gatherQ = FALSE
    /\ pc = [h \in Handlers |-> "idle"]
    /\ request = [h \in Handlers |-> NoRequest]
    /\ gone = [h \in Handlers |-> FALSE]
    /\ status = [h \in Handlers |-> 0]
    /\ storedEvents = 0
    /\ blockedIPs = 0
    /\ signatureErrors = 0
    /\ requests = 0
    /\ faults = 0
    /\ seen = [h \in Handlers |-> {}]
    /\ key = [h \in Handlers |-> NoId]
    /\ origin = [id \in Ids |-> NoRequest]

Fault == faults < MaxFaults /\ faults' = faults + 1

Goto(h, label) == pc' = [pc EXCEPT ![h] = label]

Answer(h, code) ==
    /\ Goto(h, "answered")
    /\ status' = [status EXCEPT ![h] = code]

\* Mutant of EventOf: the event counts as forwarded from the start.
EventOfForwarded(req, created) ==
    [type |-> req.type, repository |-> req.repository, sender |-> req.sender,
     created |-> created, headers |-> TRUE, forwarded |-> TRUE,
     replayed |-> FALSE]

\* The event ServeHTTP builds from a request; created is time.Now().  An
\* http.Header can always be marshalled, so the headers are there.
EventOf(req, created) ==
    [type |-> req.type, repository |-> req.repository, sender |-> req.sender,
     created |-> created, headers |-> TRUE, forwarded |-> FALSE,
     replayed |-> FALSE]

-------------------------------------------------------------------------------
(* ServeHTTP.                                                               *)

Receive(h, req) ==
    /\ serving
    /\ pc[h] = "idle"
    /\ requests < MaxRequests
    /\ requests' = requests + 1
    /\ request' = [request EXCEPT ![h] = req]
    /\ Goto(h, "method")
    /\ UNCHANGED <<table, process, gatherQ, gone, status, counters, faults,
                   seen, key, origin>>

CheckMethod(h) ==
    /\ pc[h] = "method"
    /\ IF request[h].method = "POST"
       THEN Goto(h, "validate") /\ UNCHANGED status
       ELSE Answer(h, 405)
    /\ UNCHANGED <<table, process, gatherQ, request, gone, counters,
                   requests, faults, seen, key, origin>>

\* Mutant of Valid: without ranges every address passes.
ValidWithoutRanges(req, ranges) ==
    /\ req.type # ""
    /\ ValidateIP => req.ip \in ranges \/ ranges = {}

\* ValidateGitHubEvent lets the request pass.  A foreign address is only
\* logged unless validate-ip is set.
Valid(req, ranges) ==
    /\ req.type # ""
    /\ ValidateIP => req.ip \in ranges

\* ValidateGitHubEvent; both of its errors count as a blocked IP.
ValidateGitHubEvent(h) ==
    /\ pc[h] = "validate"
    /\ seen' = [seen EXCEPT ![h] = githubIPs]
    /\ IF Valid(request[h], githubIPs)
       THEN Goto(h, "body") /\ UNCHANGED <<status, blockedIPs>>
       ELSE Answer(h, 400) /\ blockedIPs' = blockedIPs + 1
    /\ UNCHANGED <<table, process, gatherQ, request, gone, storedEvents,
                   signatureErrors, requests, faults, key, origin>>

\* Mutant of VerifyBody: the return after the 401 is missing.
VerifyBodyFallsThrough(h) ==
    /\ pc[h] = "body"
    /\ IF request[h].body
       THEN Goto(h, "store") /\ UNCHANGED status
       ELSE Answer(h, 500)
    /\ UNCHANGED <<table, process, gatherQ, request, gone, counters,
                   requests, faults, seen, key, origin>>

\* io.ReadAll, then VerifySignature.
VerifyBody(h) ==
    /\ pc[h] = "body"
    /\ \/ /\ ~ request[h].body
          /\ Answer(h, 500)
          /\ UNCHANGED signatureErrors
       \/ /\ request[h].body
          /\ ~ request[h].signed
          /\ Answer(h, 401)
          /\ signatureErrors' = signatureErrors + 1
       \/ /\ request[h].body
          /\ request[h].signed
          /\ Goto(h, "store")
          /\ UNCHANGED <<status, signatureErrors>>
    /\ UNCHANGED <<table, process, gatherQ, request, gone, storedEvents,
                   blockedIPs, requests, faults, seen, key, origin>>

\* The id StoreEvent inserts under: GitHub's, or a new one when it is missing.
Keys(req) == IF req.id = NoId THEN {id \in Uuids : table[id] = NoRow} ELSE {req.id}

\* StoreEvent succeeds: also when the id is known and the row is left alone.
StoreEvent(h, id, created) ==
    /\ pc[h] = "store"
    /\ ~ gone[h]
    /\ id \in Keys(request[h])
    /\ table' = Insert(table, id, EventOf(request[h], created))
    /\ storedEvents' = storedEvents + 1
    /\ key' = [key EXCEPT ![h] = id]
    /\ origin' = IF table[id] = NoRow
                 THEN [origin EXCEPT ![id] =
                          [request |-> request[h], ranges |-> seen[h]]]
                 ELSE origin
    /\ Goto(h, "enqueue")
    /\ UNCHANGED <<process, gatherQ, request, gone, status, blockedIPs,
                   signatureErrors, requests, faults, seen>>

\* StoreEvent fails, always once the client has left: "Continue even if
\* storage fails".
StoreEventFails(h) ==
    /\ pc[h] = "store"
    /\ \/ gone[h] /\ UNCHANGED faults
       \/ ~ gone[h] /\ Fault
    /\ Goto(h, "enqueue")
    /\ UNCHANGED <<table, process, gatherQ, request, gone, status, counters,
                   requests, seen, key, origin>>

\* Mutant of EnqueueAndAnswer: the send to the queue blocks.
EnqueueBlocks(h) ==
    /\ pc[h] = "enqueue"
    /\ ~ gatherQ
    /\ gatherQ' = TRUE
    /\ Answer(h, 200)
    /\ UNCHANGED <<table, process, request, gone, counters, requests, faults,
                   seen, key, origin>>

\* Mutant of EnqueueAndAnswer: the collector is not told.
AnswerOnly(h) ==
    /\ pc[h] = "enqueue"
    /\ Answer(h, 200)
    /\ UNCHANGED <<table, process, gatherQ, request, gone, counters, requests,
                   faults, seen, key, origin>>

\* EnqueueGatherMetrics and WriteHeader(200).
EnqueueAndAnswer(h) ==
    /\ pc[h] = "enqueue"
    /\ gatherQ' = TRUE
    /\ Answer(h, 200)
    /\ UNCHANGED <<table, process, request, gone, counters, requests, faults,
                   seen, key, origin>>

\* Mutant of Finish: the next request inherits the status.
FinishKeepsStatus(h) ==
    /\ pc[h] = "answered"
    /\ Goto(h, "idle")
    /\ request' = [request EXCEPT ![h] = NoRequest]
    /\ UNCHANGED <<table, process, gatherQ, gone, status, counters, requests,
                   faults, seen, key, origin>>

\* ServeHTTP has returned; the goroutine's state is gone.
Finish(h) ==
    /\ pc[h] = "answered"
    /\ Goto(h, "idle")
    /\ request' = [request EXCEPT ![h] = NoRequest]
    /\ gone' = [gone EXCEPT ![h] = FALSE]
    /\ status' = [status EXCEPT ![h] = 0]
    /\ seen' = [seen EXCEPT ![h] = {}]
    /\ key' = [key EXCEPT ![h] = NoId]
    /\ UNCHANGED <<table, process, gatherQ, counters, requests, faults, origin>>

-------------------------------------------------------------------------------
(* What goes on around the handlers.                                        *)

ClientLeaves(h) ==
    /\ pc[h] # "idle"
    /\ ~ gone[h]
    /\ Fault
    /\ gone' = [gone EXCEPT ![h] = TRUE]
    /\ UNCHANGED <<table, process, gatherQ, pc, request, status, counters,
                   requests, seen, key, origin>>

\* The IP validator replaces the ranges, at start-up and every hour.
UpdateRanges(ranges) ==
    /\ githubIPs' = ranges
    /\ UNCHANGED <<table, serving, gatherQ, pc, request, gone, status, counters,
                   requests, faults, seen, key, origin>>

\* The collector or the forwarder sends a token, the collector takes it.
EnqueueGather ==
    /\ gatherQ' = TRUE
    /\ UNCHANGED <<table, process, pc, request, gone, status, counters,
                   requests, faults, seen, key, origin>>

TakeGather ==
    /\ gatherQ
    /\ gatherQ' = FALSE
    /\ UNCHANGED <<table, process, pc, request, gone, status, counters,
                   requests, faults, seen, key, origin>>

\* The forwarder marks the event, or a replay takes the mark off again.
ForwarderMarks(id) ==
    /\ table[id] # NoRow
    /\ table' = MarkForwarded(table, id)
    /\ UNCHANGED <<process, gatherQ, pc, request, gone, status, counters,
                   requests, faults, seen, key, origin>>

Replay(id) ==
    /\ table[id] # NoRow
    /\ table' = Update(table, id, ReplayOf(table[id]))
    /\ UNCHANGED <<process, gatherQ, pc, request, gone, status, counters,
                   requests, faults, seen, key, origin>>

\* webhookSrv.Serve.
Serve ==
    /\ ~ serving
    /\ serving' = TRUE
    /\ UNCHANGED <<table, githubIPs, gatherQ, pc, request, gone, status, counters,
                   requests, faults, seen, key, origin>>

\* The process dies; requests, ranges and counters are lost.
Crash ==
    /\ Fault
    /\ serving' = FALSE
    /\ githubIPs' = {}
    /\ gatherQ' = FALSE
    /\ pc' = [h \in Handlers |-> "idle"]
    /\ request' = [h \in Handlers |-> NoRequest]
    /\ gone' = [h \in Handlers |-> FALSE]
    /\ status' = [h \in Handlers |-> 0]
    /\ storedEvents' = 0
    /\ blockedIPs' = 0
    /\ signatureErrors' = 0
    /\ seen' = [h \in Handlers |-> {}]
    /\ key' = [h \in Handlers |-> NoId]
    /\ UNCHANGED <<table, requests, origin>>

\* Something fails that no handler notices.
FaultElsewhere ==
    /\ Fault
    /\ UNCHANGED <<table, process, gatherQ, pc, request, gone, status, counters,
                   requests, seen, key, origin>>

-------------------------------------------------------------------------------
ServeHTTP(h) ==
    \/ CheckMethod(h) \/ ValidateGitHubEvent(h) \/ VerifyBody(h)
    \/ \E id \in Ids, created \in Times : StoreEvent(h, id, created)
    \/ StoreEventFails(h) \/ EnqueueAndAnswer(h)

Next ==
    \/ \E h \in Handlers :
          \/ \E req \in Requests : Receive(h, req)
          \/ ServeHTTP(h) \/ Finish(h) \/ ClientLeaves(h)
    \/ \E ranges \in RangeSets : UpdateRanges(ranges)
    \/ EnqueueGather \/ TakeGather
    \/ \E id \in Ids : ForwarderMarks(id) \/ Replay(id)
    \/ Serve \/ Crash \/ FaultElsewhere

Spec == Init /\ [][Next]_vars

\* The scheduler runs every request's goroutine and statements return.
FairSpec == Spec /\ \A h \in Handlers : WF_vars(ServeHTTP(h))

-------------------------------------------------------------------------------
\* Every variable has its type, and a handler has a request while it is busy.
TypeOK ==
    /\ table \in Table
    /\ serving \in BOOLEAN /\ gatherQ \in BOOLEAN
    /\ githubIPs \in RangeSets
    /\ pc \in [Handlers -> Pcs]
    /\ request \in [Handlers -> Request \cup {NoRequest}]
    /\ gone \in [Handlers -> BOOLEAN]
    /\ status \in [Handlers -> Statuses]
    /\ storedEvents \in Nat /\ blockedIPs \in Nat /\ signatureErrors \in Nat
    /\ requests \in 0 .. MaxRequests
    /\ faults \in 0 .. MaxFaults
    /\ seen \in [Handlers -> SUBSET IPs]
    /\ key \in [Handlers -> Ids \cup {NoId}]
    /\ origin \in [Ids -> Origin \cup {NoRequest}]
    /\ \A h \in Handlers :
          /\ pc[h] = "idle" <=> request[h] = NoRequest
          /\ pc[h] = "answered" <=> status[h] # 0

\* What ServeHTTP asks of a request before it stores it.
Admissible(req, ranges) ==
    /\ req.method = "POST"
    /\ req.type # ""
    /\ ValidateIP => req.ip \in ranges
    /\ req.body /\ req.signed

\* Every row comes from a signed POST with an event type, and with validate-ip
\* from an address that was GitHub's when it was looked at; the row is what
\* that request said.  No other request, nor one served beside it, gets into
\* the table or into a row.
StoredWasAdmitted ==
    \A id \in Stored(table) :
        /\ origin[id] # NoRequest
        /\ Admissible(origin[id].request, origin[id].ranges)
        /\ origin[id].request.id \in {id, NoId}
        /\ table[id].type = origin[id].request.type
        /\ table[id].repository = origin[id].request.repository
        /\ table[id].sender = origin[id].request.sender

\* A delivery that comes again, at the same time or later, changes nothing of
\* the row it finds: in particular an event that was forwarded stays so until
\* it is replayed.
RowsAreKept ==
    [][\A id \in Stored(table) :
          table'[id] \in {table[id], [table[id] EXCEPT !.forwarded = TRUE],
                         ReplayOf(table[id])}]_vars

\* Every request whose client stays is answered, also when storing fails.
EveryRequestIsAnswered ==
    \A h \in Handlers :
        pc[h] = "method" ~> (status[h] # 0 \/ pc[h] = "idle")

\* An event that was answered with 200 to a client that is still there is in
\* the database.
AnsweredIsStored ==
    \A h \in Handlers :
        status[h] = 200 /\ ~ gone[h] => key[h] \in Stored(table)
================================================================================
