-------------------------------- MODULE HubProxy --------------------------------
(***************************************************************************)
(* One hubproxy process: what run() of cmd/hubproxy/main.go puts together. *)
(* The webhook handlers, the forwarder, the metrics collector, the API and *)
(* the IP validator are the modules of those names.  They share the events *)
(* table, the collector's queue, the ranges, and the process that dies     *)
(* with all of them.                                                       *)
(*                                                                         *)
(* A step of the process is a step of one component.  What it means to the *)
(* others is not written here: that each of them sees only what its own    *)
(* module lets its surroundings do is what WebhookPart, ForwarderPart,     *)
(* MetricsPart and ApiPart say.                                            *)
(***************************************************************************)
EXTENDS EventStore, Integers, Sequences

CONSTANTS
    Process,        \* this process
    Handlers, IPs, Requests, Uuids, NoId, NoRequest, ValidateIP, MaxRequests,
    Replayers, ApiRequests, NoLimit, DefaultLimit, PageLimit,
    OffsetNeedsLimit, MaxApiRequests,
    Periodic, Documents, MaxRotations, MaxFaults,
    MaxReplays      \* bound on the rows that replays write

VARIABLES
    table, queue, githubIPs, faults,
    \* Webhook
    serving, pc, request, gone, status, storedEvents, blockedIPs, signatureErrors,
    requests, seen, key, origin,
    \* Forwarder
    fproc, jobs, fpc, todo, cur, received, accepted, replays, allowed, owed,
    \* MetricsCollector
    mproc, mpc, stats, eventCount, read, counted, failed,
    \* Api
    apc, arequest, events, left, total, answer, arequests, written, known,
    \* IPValidator
    vpc, fetched, ready, published, rotations, everPublished

webhook == <<serving, pc, request, gone, status, storedEvents, blockedIPs,
             signatureErrors, requests, seen, key, origin>>
reasons == <<replays, allowed, owed>>
forwarder == <<fproc, jobs, fpc, todo, cur, received, accepted>>
metrics == <<mproc, mpc, stats, eventCount, read, counted, failed>>
api == <<apc, arequest, events, left, total, answer, arequests, written, known>>
validator == <<vpc, fetched, ready, published, rotations, everPublished>>
vars == <<table, queue, githubIPs, faults, webhook, reasons, forwarder, metrics,
          api, validator>>

Processes == {Process}
FreshRows == {row \in Row : ~ row.forwarded /\ ~ row.replayed}
Queues == [n \in Processes |-> queue]

\* The collector counts rows by type and does not see the marks.
Unmarked == [id \in Ids |-> IF table[id] = NoRow THEN NoRow
                            ELSE [table[id] EXCEPT !.forwarded = FALSE, !.replayed = FALSE]]

\* The events that handlers have stored and not announced.
Unannounced == [n \in Processes |->
    [h \in Handlers |-> IF pc[h] = "enqueue" THEN key[h] ELSE NoId]]

W == INSTANCE Webhook WITH gatherQ <- queue, RangeSets <- Documents \cup {{}}
F == INSTANCE Forwarder WITH
        Nodes <- Processes, NewRows <- FreshRows, proc <- fproc, pc <- fpc,
        gatherQ <- Queues
M == INSTANCE MetricsCollector WITH
        Nodes <- Processes, NewRows <- FreshRows, proc <- mproc, pc <- mpc,
        table <- Unmarked, queue <- Queues, handler <- Unannounced,
        own <- [n \in Processes |-> Stored(table)]
A == INSTANCE Api WITH
        Requests <- ApiRequests, NewRows <- FreshRows, pc <- apc,
        request <- arequest, requests <- arequests, MaxRequests <- MaxApiRequests
V == INSTANCE IPValidator WITH webhookCIDR <- githubIPs, pc <- vpc

\* The values of the constants are what the modules of the components assume.
ASSUME IdsAssumption == IsFiniteSet(Ids) /\ Uuids \subseteq Ids
ASSUME TypesAssumption == "" \notin Types
ASSUME RequestsAssumption == Requests \subseteq W!Request
ASSUME ApiRequestsAssumption ==
    \A req \in ApiRequests :
        /\ req \in A!RestSingle \cup A!GraphqlSingle \cup A!ReplayRange
                      \cup A!Listing \cup A!Statistics
        /\ req.kind \in {"range", "list"} => ~ req.opts.onlyNonForwarded
ASSUME DocumentsAssumption == Documents \subseteq SUBSET IPs
ASSUME PeriodicAssumption == Periodic \subseteq Processes
ASSUME SentinelAssumption ==
    /\ NoId \notin Ids /\ NoLimit \notin Int
    /\ NoRequest \notin W!Request \cup W!Origin \cup ApiRequests
ASSUME FlagsAssumption == ValidateIP \in BOOLEAN /\ OffsetNeedsLimit \in BOOLEAN
ASSUME LimitsAssumption == DefaultLimit \in Nat \ {0} /\ PageLimit \in Nat \ {0}
ASSUME BoundsAssumption ==
    /\ MaxRequests \in Nat /\ MaxApiRequests \in Nat
    /\ MaxRotations \in Nat /\ MaxFaults \in Nat /\ MaxReplays \in Nat

Init ==
    /\ queue = FALSE
    /\ mproc = [n \in Processes |-> "down"]
    /\ W!Init /\ F!Init /\ M!Init /\ A!Init /\ V!Init

-------------------------------------------------------------------------------
(* run(), up to the two Serve calls.                                        *)

StartMetricsCollection ==
    /\ UNCHANGED <<table, githubIPs, webhook, reasons, forwarder, api, validator>>
    /\ queue' \in BOOLEAN
    /\ M!StartMetricsCollection(Process)

\* NewHandler waits for the validator's first Update.
NewHandler ==
    /\ mproc[Process] = "up"
    /\ V!NewIPValidator
    /\ UNCHANGED <<table, queue, webhook, reasons, forwarder, metrics, api>>

\* Only with a target URL.
StartForwarder ==
    /\ ready
    /\ queue' = queue
    /\ F!StartForwarder(Process)
    /\ UNCHANGED <<githubIPs, webhook, metrics, api, validator>>

Serve ==
    /\ ready
    /\ W!Serve
    /\ UNCHANGED <<reasons, forwarder, metrics, api, validator>>

-------------------------------------------------------------------------------
(* What runs from then on.                                                  *)

\* A handler, or its client.  A new event is owed to the target.
ServeWebhook(h) ==
    /\ \/ /\ \/ \E req \in Requests : W!Receive(h, req)
             \/ W!CheckMethod(h) \/ W!ValidateGitHubEvent(h) \/ W!VerifyBody(h)
             \/ W!StoreEventFails(h) \/ W!EnqueueAndAnswer(h)
             \/ W!Finish(h) \/ W!ClientLeaves(h)
          /\ UNCHANGED reasons
       \/ \E id \in Ids, created \in Times :
             /\ W!StoreEvent(h, id, created)
             /\ IF table[id] = NoRow THEN F!Owe(id) ELSE UNCHANGED <<allowed, owed>>
             /\ UNCHANGED replays
    /\ UNCHANGED <<forwarder, metrics, api, validator>>

Forward ==
    /\ queue' \in BOOLEAN
    /\ F!Worker(Process) \/ F!Target(Process)
    /\ UNCHANGED <<githubIPs, webhook, metrics, api, validator>>

CollectMetrics ==
    /\ UNCHANGED <<table, githubIPs, webhook, reasons, forwarder, api, validator>>
    /\ queue' \in BOOLEAN
    /\ M!Collector(Process) \/ M!Tick(Process)

\* A request to the API.  A replay gives a reason to deliver once more.
ServeApi(r) ==
    /\ \/ /\ \/ serving /\ \E req \in ApiRequests : A!Receive(r, req)
             \/ A!Reader(r) \/ A!Finish(r)
          /\ UNCHANGED reasons
       \/ /\ replays < MaxReplays
          /\ replays' = replays + 1
          /\ \E id \in Ids : A!UpdateEvent(r, id) /\ F!Owe(id)
    /\ UNCHANGED <<queue, githubIPs, webhook, forwarder, metrics, validator>>

UpdateRanges ==
    /\ V!Update \/ V!Tick \/ \E ranges \in Documents : V!Rotate(ranges)
    /\ UNCHANGED <<table, queue, webhook, reasons, forwarder, metrics, api>>

Crash ==
    /\ W!Crash
    /\ F!Crash(Process)
    /\ M!Crash(Process)
    /\ A!Crash
    /\ V!Crash

Next ==
    \/ StartMetricsCollection \/ NewHandler \/ StartForwarder \/ Serve
    \/ \E h \in Handlers : ServeWebhook(h)
    \/ Forward \/ CollectMetrics \/ UpdateRanges
    \/ \E r \in Replayers : ServeApi(r)
    \/ Crash

Spec == Init /\ [][Next]_vars

\* What IPValidator assumes of the scheduler, the timer and GitHub, and that
\* the process is started when it is down.
Fairness ==
    /\ WF_vars(StartMetricsCollection) /\ WF_vars(NewHandler)
    /\ WF_vars(UpdateRanges /\ V!Update) /\ WF_vars(UpdateRanges /\ V!Tick)

FairSpec == Spec /\ Fairness

-------------------------------------------------------------------------------
\* Each component does in the process what its module says, and the other
\* components do to it what its module lets its surroundings do: nothing that
\* was checked or proved of it alone is lost when they run together.
WebhookPart == W!Spec
ForwarderPart == F!Spec
MetricsPart == M!Spec
ApiPart == A!Spec

\* What the target is given was once a signed POST to /webhook, with
\* validate-ip from an address that GitHub had published: no check can be got
\* around by a crash, a replay, a redelivery or a change of the ranges.
DeliveredWasAdmitted ==
    \A id \in Ids : received[Process][id] > 0 =>
        /\ origin[id] # NoRequest
        /\ W!Admissible(origin[id].request, UNION everPublished)

\* The ranges requests are checked against are those of one document, whole,
\* that GitHub has published at some time, or none at all.
RangesArePublished == V!RangesArePublished

\* Once nothing fails any more the ranges become what GitHub publishes, also
\* when the first update failed or an error document was installed.
RangesCatchUp == V!RangesCatchUp
================================================================================
