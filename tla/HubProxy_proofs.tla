---------------------------- MODULE HubProxy_proofs ----------------------------
(***************************************************************************)
(* Theorems about HubProxy, for every value of its constants: each of the  *)
(* components does in the process what its own module says, and sees of    *)
(* the others only what that module lets its surroundings do.  What was    *)
(* proved of a component alone so holds in the process, and from several   *)
(* of these properties together follows what no component can promise.     *)
(***************************************************************************)
EXTENDS HubProxy, EventStore_proofs

\* The proved modules of the components, for their lemmas.
WP == INSTANCE Webhook_proofs WITH gatherQ <- queue, RangeSets <- Documents \cup {{}}
FP == INSTANCE Forwarder_proofs WITH
        Nodes <- Processes, NewRows <- FreshRows, proc <- fproc, pc <- fpc,
        gatherQ <- Queues
MP == INSTANCE MetricsCollector_proofs WITH
        Nodes <- Processes, NewRows <- FreshRows, proc <- mproc, pc <- mpc,
        table <- Unmarked, queue <- Queues, handler <- Unannounced,
        own <- [n \in Processes |-> Stored(table)]
AP == INSTANCE Api_proofs WITH
        Requests <- ApiRequests, NewRows <- FreshRows, pc <- apc,
        request <- arequest, requests <- arequests, MaxRequests <- MaxApiRequests
VP == INSTANCE IPValidator_proofs WITH webhookCIDR <- githubIPs, pc <- vpc

-------------------------------------------------------------------------------
(* What the modules of the components assume of their constants follows     *)
(* from what HubProxy assumes of its own.                                   *)

LEMMA WebhookAssumptions ==
    /\ WP!TimesAssumption /\ WP!NoRowAssumption
    /\ WP!RequestsAssumption /\ WP!RangesAssumption /\ WP!UuidsAssumption
    /\ WP!SentinelAssumption /\ WP!ValidateIPAssumption /\ WP!NonEmptyAssumption
    /\ WP!BoundsAssumption
<1>1. WP!Row = Row
  BY DEF WP!Row, Row
<1>2. WP!Request = W!Request
  BY DEF WP!Request, W!Request
<1>3. WP!Origin = W!Origin
  BY <1>2 DEF WP!Origin, W!Origin
<1>. QED
  BY <1>1, <1>2, <1>3, TimesAssumption, NoRowAssumption, RequestsAssumption,
     DocumentsAssumption, IdsAssumption, SentinelAssumption, FlagsAssumption,
     TypesAssumption, BoundsAssumption

LEMMA ForwarderAssumptions ==
    /\ FP!TimesAssumption /\ FP!NoRowAssumption
    /\ FP!NewRowsAssumption /\ FP!NoIdAssumption /\ FP!BoundsAssumption
<1>1. FP!Row = Row
  BY DEF FP!Row, Row
<1>2. FP!NewRowsAssumption
  BY <1>1 DEF FreshRows
<1>. QED
  BY <1>1, <1>2, TimesAssumption, NoRowAssumption, SentinelAssumption, BoundsAssumption

LEMMA MetricsAssumptions ==
    /\ MP!TimesAssumption /\ MP!NoRowAssumption
    /\ MP!NewRowsAssumption /\ MP!NoIdAssumption /\ MP!PeriodicAssumption
    /\ MP!BoundsAssumption
<1>1. MP!Row = Row
  BY DEF MP!Row, Row
<1>2. MP!NewRowsAssumption
  BY <1>1 DEF FreshRows
<1>. QED
  BY <1>1, <1>2, TimesAssumption, NoRowAssumption, SentinelAssumption,
     PeriodicAssumption, BoundsAssumption

LEMMA ApiAssumptions ==
    /\ AP!TimesAssumption /\ AP!NoRowAssumption
    /\ AP!IdsAssumption /\ AP!RequestsAssumption /\ AP!NewRowsAssumption
    /\ AP!SentinelAssumption /\ AP!BoundsAssumption
<1>1. AP!Row = Row
  BY DEF AP!Row, Row
<1>2. /\ AP!RestSingle = A!RestSingle /\ AP!GraphqlSingle = A!GraphqlSingle
      /\ AP!ReplayRange = A!ReplayRange /\ AP!Listing = A!Listing
      /\ AP!Statistics = A!Statistics
  BY Zenon DEF AP!RestSingle, A!RestSingle, AP!GraphqlSingle, A!GraphqlSingle,
     AP!ReplayRange, A!ReplayRange, AP!Listing, A!Listing, AP!Statistics, A!Statistics,
     AP!Apis, A!Apis, AP!QueryOptions, A!QueryOptions
<1>3. AP!RequestsAssumption
  BY <1>2, ApiRequestsAssumption, Zenon
<1>4. AP!NewRowsAssumption /\ AP!NoRowAssumption
  BY <1>1, NoRowAssumption DEF FreshRows
<1>5. AP!IsFiniteSet(Ids)
  BY IdsAssumption, Zenon DEF IsFiniteSet, AP!IsFiniteSet
<1>6. AP!TimesAssumption /\ AP!IdsAssumption /\ AP!BoundsAssumption
  BY <1>5, TimesAssumption, FlagsAssumption, LimitsAssumption, BoundsAssumption
<1>7. AP!SentinelAssumption
  BY SentinelAssumption
<1>. QED
  BY <1>3, <1>4, <1>6, <1>7

-------------------------------------------------------------------------------
(* A module and its proofs are two instances with the same definitions.     *)

LEMMA SameWebhook ==
    /\ W!Init => WP!Init
    /\ [W!Next]_(W!vars) => [WP!Next]_(WP!vars)
<1>1. W!Init => WP!Init
  BY Zenon DEF W!Init, W!EmptyTable, WP!Init, WP!EmptyTable
<1>2. [W!Next]_(W!vars) => [WP!Next]_(WP!vars)
  BY Zenon DEF W!Next, W!vars, W!process, W!counters, W!ServeHTTP, W!Receive,
     W!CheckMethod, W!ValidateGitHubEvent, W!VerifyBody, W!StoreEvent,
     W!StoreEventFails, W!EnqueueAndAnswer, W!Finish, W!ClientLeaves,
     W!UpdateRanges, W!EnqueueGather, W!TakeGather, W!ForwarderMarks, W!Replay,
     W!Serve, W!Crash, W!FaultElsewhere, W!Fault, W!Goto, W!Answer, W!Keys,
     W!EventOf, W!Valid, W!Insert, W!Update, W!MarkForwarded, W!ReplayOf,
     WP!Next, WP!vars, WP!process, WP!counters, WP!ServeHTTP, WP!Receive,
     WP!CheckMethod, WP!ValidateGitHubEvent, WP!VerifyBody, WP!StoreEvent,
     WP!StoreEventFails, WP!EnqueueAndAnswer, WP!Finish, WP!ClientLeaves,
     WP!UpdateRanges, WP!EnqueueGather, WP!TakeGather, WP!ForwarderMarks, WP!Replay,
     WP!Serve, WP!Crash, WP!FaultElsewhere, WP!Fault, WP!Goto, WP!Answer, WP!Keys,
     WP!EventOf, WP!Valid, WP!Insert, WP!Update, WP!MarkForwarded, WP!ReplayOf
<1>. QED
  BY <1>1, <1>2

LEMMA SameForwarder ==
    /\ F!Init => FP!Init
    /\ [F!Next]_(F!vars) => [FP!Next]_(FP!vars)
<1>1. F!Init => FP!Init
  BY Zenon DEF F!Init, F!EmptyTable, FP!Init, FP!EmptyTable
<1>2. [F!Next]_(F!vars) => [FP!Next]_(FP!vars)
  BY Zenon DEF F!Next, F!vars, F!worker, F!history, F!Worker, F!Target, F!StartForwarder,
     F!TakeJob, F!StopForwarder, F!List, F!ListFails, F!SkipUnparsable, F!Post,
     F!Deliver, F!Accept, F!Reject, F!Mark, F!MarkFails, F!FinishPass, F!Store,
     F!Replay, F!EnqueueGather, F!TakeGather, F!Cancel, F!Crash, F!FaultElsewhere,
     F!Fault, F!StatementFails, F!Allow, F!Owe, F!Matching, F!Matches, F!NonForwarded,
     F!Stored, F!Insert, F!Update, F!MarkForwarded, F!ReplayOf,
     FP!Next, FP!vars, FP!worker, FP!history, FP!Worker, FP!Target, FP!StartForwarder,
     FP!TakeJob, FP!StopForwarder, FP!List, FP!ListFails, FP!SkipUnparsable, FP!Post,
     FP!Deliver, FP!Accept, FP!Reject, FP!Mark, FP!MarkFails, FP!FinishPass, FP!Store,
     FP!Replay, FP!EnqueueGather, FP!TakeGather, FP!Cancel, FP!Crash, FP!FaultElsewhere,
     FP!Fault, FP!StatementFails, FP!Allow, FP!Owe, FP!Matching, FP!Matches,
     FP!NonForwarded, FP!Stored, FP!Insert, FP!Update, FP!MarkForwarded, FP!ReplayOf
<1>. QED
  BY <1>1, <1>2

LEMMA SameMetrics ==
    /\ M!Init => MP!Init
    /\ [M!Next]_(M!vars) => [MP!Next]_(MP!vars)
<1>1. M!Init => MP!Init
  BY Zenon DEF M!Init, M!EmptyTable, M!NoStats, M!NoCounts,
     MP!Init, MP!EmptyTable, MP!NoStats, MP!NoCounts
<1>2. [M!Next]_(M!vars) => [MP!Next]_(MP!vars)
  BY Zenon DEF M!Next, M!vars, M!collector, M!Collector, M!StartMetricsCollection,
     M!TakeJob, M!StopCollector, M!GetStats, M!GetStatsFails, M!SetGauge,
     M!GatherReturns, M!Tick, M!Enqueue, M!StoreEvent, M!StoreElsewhere, M!Announce, M!Cancel, M!Crash,
     M!FaultElsewhere, M!Fault, M!EnqueueGatherMetrics, M!NoStats, M!NoCounts, M!Stats,
     M!Cardinality, M!Stored, M!Insert,
     MP!Next, MP!vars, MP!collector, MP!Collector, MP!StartMetricsCollection,
     MP!TakeJob, MP!StopCollector, MP!GetStats, MP!GetStatsFails, MP!SetGauge,
     MP!GatherReturns, MP!Tick, MP!Enqueue, MP!StoreEvent, MP!StoreElsewhere, MP!Announce, MP!Cancel, MP!Crash,
     MP!FaultElsewhere, MP!Fault, MP!EnqueueGatherMetrics, MP!NoStats, MP!NoCounts,
     MP!Stats, MP!Cardinality, MP!Stored, MP!Insert
<1>. QED
  BY <1>1, <1>2

LEMMA SameApi ==
    /\ A!Init => AP!Init
    /\ [A!Next]_(A!vars) => [AP!Next]_(AP!vars)
<1>1. A!Init => AP!Init
  BY Zenon DEF A!Init, A!EmptyTable, A!NoEvents, AP!Init, AP!EmptyTable, AP!NoEvents
<1>2. \A req : /\ A!Refusal(req) = AP!Refusal(req)
               /\ A!LimitOf(req) = AP!LimitOf(req)
               /\ A!OffsetOf(req) = AP!OffsetOf(req)
               /\ A!IdOf(req) = AP!IdOf(req)
  BY Zenon DEF A!Refusal, A!Routed, A!ReplayPath, A!PathId, A!IdOf, A!ValidRange,
     A!LimitOf, A!OffsetOf, AP!Refusal, AP!Routed, AP!ReplayPath, AP!PathId, AP!IdOf,
     AP!ValidRange, AP!LimitOf, AP!OffsetOf
<1>3. /\ \A S : A!Cardinality(S) = AP!Cardinality(S)
      /\ \A n, req : A!PageSize(n, req) = AP!PageSize(n, req)
  BY <1>2, Zenon DEF A!PageSize, AP!PageSize, A!Cardinality, AP!Cardinality
<1>4. \A t, opts : A!Matching(t, opts) = AP!Matching(t, opts)
  BY Zenon DEF A!Matching, A!Matches, A!Stored, AP!Matching, AP!Matches, AP!Stored
<1>5. ASSUME NEW r, NEW req, A!Receive(r, req) PROVE AP!Receive(r, req)
  BY <1>2, <1>5, Zenon DEF A!Receive, A!Goto, A!Answer, A!Stored,
     AP!Receive, AP!Goto, AP!Answer, AP!Stored
<1>6. ASSUME NEW r, A!GetEvent(r) PROVE AP!GetEvent(r)
  BY <1>2, <1>6, Zenon DEF A!GetEvent, A!Read, A!Goto, A!Answer, A!Stored,
     AP!GetEvent, AP!Read, AP!Goto, AP!Answer, AP!Stored
<1>7. ASSUME NEW r, A!ListEvents(r) PROVE AP!ListEvents(r)
  BY <1>2, <1>3, <1>4, <1>7, Zenon DEF A!ListEvents, A!Read, A!Goto, A!Answer,
     AP!ListEvents, AP!Read, AP!Goto, AP!Answer
<1>8. ASSUME NEW r, A!CountEvents(r) PROVE AP!CountEvents(r)
  BY <1>3, <1>4, <1>8, Zenon DEF A!CountEvents, A!Goto, AP!CountEvents, AP!Goto
<1>9. ASSUME NEW r, A!GetStats(r) \/ A!StatementFails(r) \/ A!Respond(r)
      PROVE  AP!GetStats(r) \/ AP!StatementFails(r) \/ AP!Respond(r)
  BY <1>9, Zenon DEF A!GetStats, A!StatementFails, A!Respond, A!Fault, A!Goto, A!Answer,
     A!locals, AP!GetStats, AP!StatementFails, AP!Respond, AP!Fault, AP!Goto,
     AP!Answer, AP!locals
<1>10. ASSUME NEW r, NEW id, A!UpdateEvent(r, id) PROVE AP!UpdateEvent(r, id)
  BY <1>10, Zenon DEF A!UpdateEvent, A!Update, A!ReplayOf, AP!UpdateEvent, AP!Update,
     AP!ReplayOf
<1>11. ASSUME NEW r, A!Finish(r) PROVE AP!Finish(r)
  BY <1>11, Zenon DEF A!Finish, A!Goto, A!NoEvents, AP!Finish, AP!Goto, AP!NoEvents
<1>12. ASSUME A!Crash \/ A!FaultElsewhere PROVE AP!Crash \/ AP!FaultElsewhere
  BY <1>12, Zenon DEF A!Crash, A!FaultElsewhere, A!Fault, A!NoEvents, A!locals,
     AP!Crash, AP!FaultElsewhere, AP!Fault, AP!NoEvents, AP!locals
<1>13. ASSUME NEW id, NEW row, A!Store(id, row) PROVE AP!Store(id, row)
  BY <1>13, Zenon DEF A!Store, A!Insert, A!locals, AP!Store, AP!Insert, AP!locals
<1>14. ASSUME NEW id, A!ForwarderMarks(id) PROVE AP!ForwarderMarks(id)
  BY <1>14, Zenon DEF A!ForwarderMarks, A!MarkForwarded, A!Stored, A!locals,
     AP!ForwarderMarks, AP!MarkForwarded, AP!Stored, AP!locals
<1>15. ASSUME UNCHANGED A!vars PROVE UNCHANGED AP!vars
  BY <1>15, Zenon DEF A!vars, A!locals, AP!vars, AP!locals
<1>16. [A!Next]_(A!vars) => [AP!Next]_(AP!vars)
  BY <1>5, <1>6, <1>7, <1>8, <1>9, <1>10, <1>11, <1>12, <1>13, <1>14, <1>15, Zenon
     DEF A!Next, A!Replayer, A!Reader, AP!Next, AP!Replayer, AP!Reader
<1>. QED
  BY <1>1, <1>16

LEMMA SameValidator ==
    /\ V!Init => VP!Init
    /\ [V!Next]_(V!vars) => [VP!Next]_(VP!vars)
  BY DEF V!Init, VP!Init,
     V!Next, V!vars, V!github, V!NewIPValidator, V!Update, V!Get, V!GetErrorDocument,
     V!UpdateFails, V!Install, V!Return, V!Tick, V!Rotate, V!Crash, V!FaultElsewhere,
     V!Fault,
     VP!Next, VP!vars, VP!github, VP!NewIPValidator, VP!Update, VP!Get,
     VP!GetErrorDocument, VP!UpdateFails, VP!Install, VP!Return, VP!Tick, VP!Rotate,
     VP!Crash, VP!FaultElsewhere, VP!Fault

-------------------------------------------------------------------------------
(* What a step of one component does to what it shares with the others.     *)

Silent == UNCHANGED <<table, queue, githubIPs, faults>>

Fails ==
    /\ faults < MaxFaults
    /\ faults' = faults + 1
    /\ UNCHANGED <<table, queue, githubIPs>>

\* The collector's token is sent, or taken.
Wakes == queue' = TRUE /\ UNCHANGED <<table, githubIPs, faults>>
Takes == queue /\ queue' = FALSE /\ UNCHANGED <<table, githubIPs, faults>>

Installs ==
    /\ githubIPs' \in Documents \cup {{}}
    /\ UNCHANGED <<table, queue, faults>>

Stores(id, row) ==
    /\ table' = Insert(table, id, row)
    /\ UNCHANGED <<queue, githubIPs, faults>>

Marks(id) ==
    /\ id \in Stored(table)
    /\ table' = MarkForwarded(table, id)
    /\ UNCHANGED <<queue, githubIPs, faults>>

Resets(id) ==
    /\ id \in Stored(table)
    /\ table' = Update(table, id, ReplayOf(table[id]))
    /\ UNCHANGED <<queue, githubIPs, faults>>

-------------------------------------------------------------------------------
(* Each module lets its surroundings do these things.                       *)

LEMMA AroundWebhook ==
    ASSUME UNCHANGED webhook,
           \/ Silent \/ Fails \/ Wakes \/ Takes \/ Installs
           \/ \E id \in Ids : Marks(id) \/ Resets(id)
    PROVE  [W!Next]_(W!vars)
<1>. USE DEF webhook, W!process, W!counters, W!Next
<1>1. CASE Silent
  BY <1>1 DEF Silent, W!vars
<1>2. CASE Fails
  BY <1>2 DEF Fails, W!FaultElsewhere, W!Fault
<1>3. CASE Wakes
  BY <1>3, Zenon DEF Wakes, W!EnqueueGather
<1>4. CASE Takes
  BY <1>4, Zenon DEF Takes, W!TakeGather
<1>5. CASE Installs
  BY <1>5 DEF Installs, W!UpdateRanges
<1>6. CASE \E id \in Ids : Marks(id)
  BY <1>6 DEF Marks, Stored, MarkForwarded, W!ForwarderMarks, W!MarkForwarded
<1>7. CASE \E id \in Ids : Resets(id)
  BY <1>7 DEF Resets, Stored, Update, ReplayOf, W!Replay, W!Update, W!ReplayOf
<1>. QED
  BY <1>1, <1>2, <1>3, <1>4, <1>5, <1>6, <1>7

\* Queues is the queue of the one process.
LEMMA QueueIs ==
    /\ queue' = queue => Queues' = Queues
    /\ queue' = TRUE => Queues' = [Queues EXCEPT ![Process] = TRUE]
    /\ queue' = FALSE => Queues' = [Queues EXCEPT ![Process] = FALSE]
    /\ Queues[Process] = queue
<1>1. Queues[Process] = queue
  BY DEF Queues, Processes
<1>2. ASSUME NEW b, queue' = b PROVE Queues' = [Queues EXCEPT ![Process] = b]
  BY <1>2 DEF Queues, Processes
<1>3. queue' = queue => Queues' = Queues
  BY DEF Queues, Processes
<1>. QED
  BY <1>1, <1>2, <1>3, Zenon

LEMMA AroundForwarder ==
    ASSUME UNCHANGED <<forwarder, reasons>>,
           Silent \/ Fails \/ Wakes \/ Takes \/ Installs
    PROVE  [F!Next]_(F!vars)
<1>. USE DEF forwarder, reasons, F!worker, F!history
<1>1. CASE Silent \/ Installs
  <2>1. Queues' = Queues
    BY <1>1, QueueIs DEF Silent, Installs
  <2>. QED
    BY <1>1, <2>1 DEF Silent, Installs, F!vars
<1>2. CASE Fails
  <2>1. Queues' = Queues
    BY <1>2, QueueIs DEF Fails
  <2>. QED
    BY <1>2, <2>1 DEF Fails, F!Next, F!FaultElsewhere, F!Fault
<1>3. CASE Wakes
  <2>1. Queues' = [Queues EXCEPT ![Process] = TRUE]
    BY <1>3, QueueIs, Zenon DEF Wakes
  <2>. QED
    BY <1>3, <2>1, Zenon DEF Wakes, Processes, F!Next, F!EnqueueGather
<1>4. CASE Takes
  <2>1. Queues' = [Queues EXCEPT ![Process] = FALSE] /\ Queues[Process]
    BY <1>4, QueueIs, Zenon DEF Takes
  <2>. QED
    BY <1>4, <2>1, Zenon DEF Takes, Processes, F!Next, F!TakeGather
<1>. QED
  BY <1>1, <1>2, <1>3, <1>4

\* With a reason to deliver come the events that are new or replayed.
LEMMA StoreForForwarder ==
    ASSUME UNCHANGED forwarder, UNCHANGED replays,
           NEW id \in Ids, NEW row \in FreshRows, Stores(id, row),
           IF table[id] = NoRow THEN F!Owe(id) ELSE UNCHANGED <<allowed, owed>>
    PROVE  F!Next
<1>1. Queues' = Queues
  BY QueueIs DEF Stores
<1>. QED
  BY <1>1 DEF Stores, Insert, forwarder, F!worker, F!Next, F!Store, F!Insert

LEMMA ReplayForForwarder ==
    ASSUME UNCHANGED forwarder,
           NEW id \in Ids, Resets(id), F!Owe(id),
           replays < MaxReplays, replays' = replays + 1
    PROVE  F!Next
<1>1. Queues' = Queues
  BY QueueIs DEF Resets
<1>. QED
  BY <1>1 DEF Resets, Stored, Update, ReplayOf, forwarder, F!worker, F!Next, F!Replay,
     F!Update, F!ReplayOf

\* To the API a step of the others is an insert, a mark, a failure or nothing.
LEMMA AroundApi ==
    ASSUME UNCHANGED api,
           \/ Silent \/ Fails \/ Wakes \/ Takes \/ Installs
           \/ \E id \in Ids : Marks(id) \/ \E row \in FreshRows : Stores(id, row)
    PROVE  [A!Next]_(A!vars)
<1>. USE DEF api, A!locals
<1>1. CASE Silent \/ Wakes \/ Takes \/ Installs
  BY <1>1 DEF Silent, Wakes, Takes, Installs, A!vars
<1>2. CASE Fails
  BY <1>2 DEF Fails, A!Next, A!FaultElsewhere, A!Fault
<1>3. CASE \E id \in Ids : Marks(id)
  BY <1>3 DEF Marks, Stored, MarkForwarded, A!Next, A!ForwarderMarks, A!Stored,
     A!MarkForwarded
<1>4. CASE \E id \in Ids, row \in FreshRows : Stores(id, row)
  BY <1>4 DEF Stores, Insert, A!Next, A!Store, A!Insert
<1>. QED
  BY <1>1, <1>2, <1>3, <1>4

\* To the validator it is a failure or nothing.
LEMMA AroundValidator ==
    ASSUME UNCHANGED validator,
           \/ Silent \/ Fails \/ Wakes \/ Takes
           \/ \E id \in Ids : Marks(id) \/ Resets(id) \/ \E row \in FreshRows : Stores(id, row)
    PROVE  [V!Next]_(V!vars)
<1>1. UNCHANGED githubIPs
  BY DEF Silent, Fails, Wakes, Takes, Marks, Resets, Stores
<1>2. UNCHANGED faults \/ (faults < MaxFaults /\ faults' = faults + 1)
  BY DEF Silent, Fails, Wakes, Takes, Marks, Resets, Stores
<1>. QED
  BY <1>1, <1>2 DEF validator, V!Next, V!vars, V!github, V!FaultElsewhere, V!Fault

-------------------------------------------------------------------------------
(* The collector sees the rows without their marks.                         *)

Bare(row) == [row EXCEPT !.forwarded = FALSE, !.replayed = FALSE]

LEMMA BareRows ==
    ASSUME NEW row \in Row
    PROVE  /\ Bare(row) \in Row
           /\ Bare([row EXCEPT !.forwarded = TRUE]) = Bare(row)
           /\ Bare(ReplayOf(row)) = Bare(row)
           /\ row \in FreshRows => Bare(row) = row
BY DEF Bare, Row, ReplayOf, FreshRows

LEMMA UnmarkedIs ==
    Unmarked = [id \in Ids |-> IF table[id] = NoRow THEN NoRow ELSE Bare(table[id])]
BY DEF Unmarked, Bare

LEMMA UnmarkedStays ==
    ASSUME table \in Table, NEW id \in Ids, Marks(id) \/ Resets(id)
    PROVE  Unmarked' = Unmarked /\ Stored(table') = Stored(table)
<1>1. table[id] \in Row /\ table[id] # NoRow
  BY DEF Marks, Resets, Stored, Table
<1>2. /\ Stored(table') = Stored(table)
      /\ \A i \in Ids \ {id} : table'[i] = table[i]
      /\ table'[id] \in {[table[id] EXCEPT !.forwarded = TRUE], ReplayOf(table[id])}
  <2>1. CASE Marks(id)
    <3>1. table' = MarkForwarded(table, id) /\ id \in Stored(table)
      BY <2>1 DEF Marks
    <3>2. table'[id] = [table[id] EXCEPT !.forwarded = TRUE]
      BY <3>1 DEF MarkForwarded, Table
    <3>. QED
      BY <3>1, <3>2, MarkLemma
  <2>2. CASE Resets(id)
    <3>1. table' = Update(table, id, ReplayOf(table[id])) /\ id \in Stored(table)
      BY <2>2 DEF Resets
    <3>. QED
      BY <1>1, <3>1, ReplayRow, UpdateLemma
  <2>. QED
    BY <2>1, <2>2
<1>3. Bare(table'[id]) = Bare(table[id])
  BY <1>1, <1>2, BareRows
<1>4. \A i \in Ids : table'[i] = NoRow <=> table[i] = NoRow
  BY <1>2 DEF Stored
<1>5. \A i \in Ids : Bare(table'[i]) = Bare(table[i])
  BY <1>2, <1>3
<1>6. Unmarked' = [i \in Ids |-> IF table'[i] = NoRow THEN NoRow ELSE Bare(table'[i])]
  BY DEF Unmarked, Bare
<1>. QED
  BY <1>2, <1>4, <1>5, <1>6, UnmarkedIs

LEMMA UnmarkedGrows ==
    ASSUME table \in Table, NEW id \in Ids, NEW row \in FreshRows, Stores(id, row)
    PROVE  /\ Unmarked' = M!Insert(Unmarked, id, row)
           /\ Stored(table') = Stored(table) \cup {id}
<1>1. row \in Row /\ table' = Insert(table, id, row)
  BY DEF FreshRows, Stores
<1>2. Stored(table') = Stored(table) \cup {id}
  BY <1>1, InsertLemma
<1>3. Unmarked' = [i \in Ids |-> IF table'[i] = NoRow THEN NoRow ELSE Bare(table'[i])]
  BY DEF Unmarked, Bare
<1>4. Bare(row) = row /\ row # NoRow
  BY <1>1, BareRows, NoRowAssumption
<1>5. CASE table[id] = NoRow
  <2>1. table' = [table EXCEPT ![id] = row]
    BY <1>1, <1>5 DEF Insert
  <2>2. \A i \in Ids : table'[i] = IF i = id THEN row ELSE table[i]
    BY <2>1 DEF Table
  <2>3. Unmarked' = [Unmarked EXCEPT ![id] = row]
    BY <1>3, <1>4, <2>2, UnmarkedIs
  <2>4. Unmarked[id] = NoRow
    BY <1>5, UnmarkedIs
  <2>. QED
    BY <1>2, <2>3, <2>4 DEF M!Insert
<1>6. CASE table[id] # NoRow
  <2>1. table' = table
    BY <1>1, <1>6 DEF Insert
  <2>2. Bare(table[id]) \in Row
    BY <1>6, BareRows DEF Table
  <2>3. Unmarked[id] # NoRow
    BY <1>6, <2>2, UnmarkedIs, NoRowAssumption
  <2>4. Unmarked' = Unmarked
    BY <1>3, <2>1, UnmarkedIs
  <2>. QED
    BY <1>2, <2>3, <2>4 DEF M!Insert
<1>. QED
  BY <1>5, <1>6

\* It must be running to be woken.
LEMMA AroundMetrics ==
    ASSUME table \in Table, UNCHANGED metrics, UNCHANGED Unannounced,
           \/ Silent \/ Fails \/ Installs \/ (Wakes /\ mproc[Process] # "down")
           \/ \E id \in Ids : Marks(id) \/ Resets(id)
    PROVE  [M!Next]_(M!vars)
<1>. DEFINE own == [n \in Processes |-> Stored(table)]
<1>. USE DEF metrics, M!collector
<1>1. Stored(table') = Stored(table) /\ Unmarked' = Unmarked
  <2>1. CASE UNCHANGED table
    BY <2>1 DEF Stored, Unmarked
  <2>. QED
    BY <2>1, UnmarkedStays DEF Silent, Fails, Installs, Wakes
<1>2. own' = own
  BY <1>1
<1>3. CASE Fails
  <2>1. Queues' = Queues
    BY <1>3, QueueIs DEF Fails
  <2>. QED
    BY <1>1, <1>2, <1>3, <2>1 DEF Fails, M!Next, M!FaultElsewhere, M!Fault
<1>4. CASE Wakes /\ mproc[Process] # "down"
  <2>1. Queues' = [Queues EXCEPT ![Process] = TRUE]
    BY <1>4, QueueIs, Zenon DEF Wakes
  <2>2. UNCHANGED faults
    BY <1>4 DEF Wakes
  <2>3. M!Enqueue(Process)
    BY <1>1, <1>2, <1>4, <2>1, <2>2, Zenon DEF M!Enqueue, M!EnqueueGatherMetrics
  <2>. QED
    BY <2>3, Zenon DEF Processes, M!Next
<1>5. CASE Silent \/ Installs \/ \E id \in Ids : Marks(id) \/ Resets(id)
  <2>1. queue' = queue /\ UNCHANGED faults
    BY <1>5 DEF Silent, Installs, Marks, Resets
  <2>2. Queues' = Queues
    BY <2>1, QueueIs
  <2>. QED
    BY <1>1, <1>2, <2>1, <2>2 DEF M!vars
<1>. QED
  BY <1>3, <1>4, <1>5

-------------------------------------------------------------------------------
(* The invariant of the process: those of its components, and what none of  *)
(* them knows.  The parts of run() are up one after the other and go down   *)
(* together, so a handler or the forwarder never finds the collector down;  *)
(* no ctx is ever cancelled.  What AP!Inv says of the rows a replay holds   *)
(* makes its write a reset of the row that is there.                        *)

LifeInv ==
    /\ mproc \in [Processes -> {"down", "up"}]
    /\ fproc \in [Processes -> {"down", "up"}]
    /\ fproc[Process] = "up" => ready
    /\ ready \/ vpc # "off" => mproc[Process] = "up"
    /\ serving => ready
    /\ \A h \in Handlers : pc[h] # "idle" => serving

KeyInv == \A h \in Handlers : key[h] # NoId => pc[h] \in {"enqueue", "answered"}

RangeInv == published \in Documents /\ fetched \in Documents \cup {{}}

Inv ==
    /\ WP!AdmittedInv /\ FP!TypeOK /\ AP!Inv
    /\ LifeInv /\ KeyInv /\ RangeInv

LEMMA TableTyped == WP!AdmittedInv => table \in Table
BY DEF WP!AdmittedInv, WP!TypeOK, WP!Table, WP!Row, Table, Row

\* What the process does to each component is a step of that component.
Steps ==
    /\ [W!Next]_(W!vars) /\ [F!Next]_(F!vars) /\ [M!Next]_(M!vars)
    /\ [A!Next]_(A!vars) /\ [V!Next]_(V!vars)

LEMMA StartMetricsSteps ==
    ASSUME Inv, StartMetricsCollection
    PROVE  Steps
<1>1. /\ UNCHANGED <<table, githubIPs, webhook, reasons, forwarder, api, validator>>
      /\ M!StartMetricsCollection(Process)
  BY Zenon DEF StartMetricsCollection
<1>2. Queues' = [Queues EXCEPT ![Process] = TRUE] /\ UNCHANGED faults
  BY <1>1, Zenon DEF M!StartMetricsCollection, M!EnqueueGatherMetrics
<1>3. queue'
  BY <1>2 DEF Queues, Processes
<1>4. Wakes
  <2>1. queue' = TRUE
    BY <1>3, Zenon DEF StartMetricsCollection
  <2>. QED
    BY <1>1, <1>2, <2>1 DEF Wakes
<1>5. [M!Next]_(M!vars)
  BY <1>1, Zenon DEF Processes, M!Next
<1>. QED
  BY <1>1, <1>4, <1>5, AroundWebhook, AroundForwarder, AroundApi, AroundValidator DEF Steps

LEMMA NewHandlerSteps ==
    ASSUME Inv, NewHandler
    PROVE  Steps
<1>1. /\ UNCHANGED <<table, queue, webhook, reasons, forwarder, metrics, api>>
      /\ V!NewIPValidator
  BY DEF NewHandler
<1>2. Silent
  BY <1>1 DEF V!NewIPValidator, Silent
<1>3. UNCHANGED Unannounced
  BY <1>1 DEF Unannounced, webhook
<1>4. [V!Next]_(V!vars)
  BY <1>1 DEF V!Next
<1>5. table \in Table
  BY TableTyped DEF Inv
<1>. QED
  BY <1>1, <1>2, <1>3, <1>4, <1>5, AroundWebhook, AroundForwarder, AroundMetrics,
     AroundApi DEF Steps

LEMMA StartForwarderSteps ==
    ASSUME Inv, StartForwarder
    PROVE  Steps
<1>1. /\ UNCHANGED <<githubIPs, webhook, metrics, api, validator>>
      /\ queue' = queue
      /\ F!StartForwarder(Process)
  BY DEF StartForwarder
<1>2. Silent
  BY <1>1 DEF F!StartForwarder, Silent
<1>3. UNCHANGED Unannounced
  BY <1>1 DEF Unannounced, webhook
<1>4. [F!Next]_(F!vars)
  BY <1>1 DEF Processes, F!Next
<1>5. table \in Table
  BY TableTyped DEF Inv
<1>. QED
  BY <1>1, <1>2, <1>3, <1>4, <1>5, AroundWebhook, AroundMetrics, AroundApi,
     AroundValidator DEF Steps

LEMMA ServeSteps ==
    ASSUME Inv, Serve
    PROVE  Steps
<1>1. /\ UNCHANGED <<reasons, forwarder, metrics, api, validator>>
      /\ W!Serve
  BY DEF Serve
<1>2. Silent /\ UNCHANGED <<pc, key>>
  BY <1>1 DEF W!Serve, Silent
<1>3. UNCHANGED Unannounced
  BY <1>2 DEF Unannounced
<1>4. [W!Next]_(W!vars)
  BY <1>1 DEF W!Next
<1>5. table \in Table
  BY TableTyped DEF Inv
<1>. QED
  BY <1>1, <1>2, <1>3, <1>4, <1>5, AroundForwarder, AroundMetrics, AroundApi,
     AroundValidator DEF Steps

LEMMA UpdateRangesSteps ==
    ASSUME Inv, UpdateRanges
    PROVE  Steps
<1>1. /\ UNCHANGED <<table, queue, webhook, reasons, forwarder, metrics, api>>
      /\ V!Update \/ V!Tick \/ \E ranges \in Documents : V!Rotate(ranges)
  BY DEF UpdateRanges
<1>2. Silent \/ Fails \/ Installs
  BY <1>1 DEF V!Update, V!Get, V!GetErrorDocument, V!UpdateFails, V!Install, V!Tick,
     V!Rotate, V!Return, V!Fault, Silent, Fails, Installs, Inv, RangeInv
<1>3. UNCHANGED Unannounced
  BY <1>1 DEF Unannounced, webhook
<1>4. [V!Next]_(V!vars)
  BY <1>1 DEF V!Next
<1>5. table \in Table
  BY TableTyped DEF Inv
<1>. QED
  BY <1>1, <1>2, <1>3, <1>4, <1>5, AroundWebhook, AroundForwarder, AroundMetrics,
     AroundApi DEF Steps

LEMMA CrashSteps == Crash => Steps
BY DEF Crash, Steps, Processes, W!Next, F!Next, M!Next, A!Next, V!Next

LEMMA CollectSteps ==
    ASSUME Inv, CollectMetrics
    PROVE  Steps
<1>1. /\ UNCHANGED <<table, githubIPs, webhook, reasons, forwarder, api, validator>>
      /\ M!Collector(Process) \/ M!Tick(Process)
  BY Zenon DEF CollectMetrics
<1>2. queue' \in BOOLEAN
  BY Zenon DEF CollectMetrics
<1>3. Silent \/ Fails \/ Wakes \/ Takes
  <2>1. CASE M!TakeJob(Process)
    <3>1. Queues[Process] /\ Queues' = [Queues EXCEPT ![Process] = FALSE] /\ UNCHANGED faults
      BY <2>1, Zenon DEF M!TakeJob
    <3>2. queue /\ ~ queue'
      BY <3>1 DEF Queues, Processes
    <3>3. queue' = FALSE
      BY <1>2, <3>2, Zenon
    <3>. QED
      BY <1>1, <3>1, <3>2, <3>3, Zenon DEF Takes
  <2>2. CASE M!Tick(Process)
    <3>1. Queues' = [Queues EXCEPT ![Process] = TRUE] /\ UNCHANGED faults
      BY <2>2, Zenon DEF M!Tick, M!EnqueueGatherMetrics
    <3>2. queue'
      BY <3>1 DEF Queues, Processes
    <3>3. queue' = TRUE
      BY <1>2, <3>2, Zenon
    <3>. QED
      BY <1>1, <3>1, <3>3, Zenon DEF Wakes
  <2>3. CASE \/ M!StopCollector(Process) \/ M!GetStats(Process)
             \/ M!GetStatsFails(Process) \/ M!GatherReturns(Process)
             \/ \E type \in Types : M!SetGauge(Process, type)
    <3>1. Queues' = Queues
      BY <2>3 DEF M!StopCollector, M!GetStats, M!GetStatsFails, M!SetGauge,
         M!GatherReturns
    <3>2. queue' = queue
      BY <3>1 DEF Queues, Processes
    <3>3. UNCHANGED faults \/ M!Fault
      BY <2>3 DEF M!StopCollector, M!GetStats, M!GetStatsFails, M!SetGauge,
         M!GatherReturns
    <3>. QED
      BY <1>1, <3>2, <3>3 DEF M!Fault, Silent, Fails
  <2>. QED
    BY <1>1, <2>1, <2>2, <2>3 DEF M!Collector
<1>4. [M!Next]_(M!vars)
  BY <1>1, Zenon DEF Processes, M!Next
<1>. QED
  BY <1>1, <1>3, <1>4, AroundWebhook, AroundForwarder, AroundApi, AroundValidator DEF Steps

\* A pass that ends wakes the collector, which is up as long as the forwarder.
LEMMA ForwardSteps ==
    ASSUME Inv, Forward
    PROVE  Steps
<1>1. /\ UNCHANGED <<githubIPs, webhook, metrics, api, validator>>
      /\ F!Worker(Process) \/ F!Target(Process)
  BY Zenon DEF Forward
<1>2. queue' \in BOOLEAN
  BY Zenon DEF Forward
<1>3. UNCHANGED Unannounced
  BY <1>1 DEF Unannounced, webhook
<1>4. \/ Silent \/ Fails
      \/ Wakes /\ mproc[Process] # "down"
      \/ \E id \in Ids : Marks(id)
  <2>1. CASE F!FinishPass(Process)
    <3>1. /\ Queues' = [Queues EXCEPT ![Process] = TRUE]
          /\ UNCHANGED <<table, faults>> /\ fpc[Process] = "loop"
      BY <2>1, Zenon DEF F!FinishPass
    <3>2. queue'
      BY <3>1 DEF Queues, Processes
    <3>3. queue' = TRUE
      BY <1>2, <3>2, Zenon
    <3>4. fproc[Process] # "down"
      BY <3>1 DEF Inv, FP!TypeOK, Processes
    <3>5. mproc[Process] # "down"
      BY <3>4 DEF Inv, LifeInv, Processes
    <3>. QED
      BY <1>1, <3>1, <3>3, <3>5, Zenon DEF Wakes
  <2>2. CASE F!Mark(Process)
    <3>1. /\ fpc[Process] = "mark"
          /\ table' = F!MarkForwarded(table, cur[Process])
          /\ UNCHANGED <<Queues, faults>>
      BY <2>2 DEF F!Mark
    <3>2. queue' = queue
      BY <3>1 DEF Queues, Processes
    <3>3. cur[Process] \in Stored(table)
      BY <3>1 DEF Inv, FP!TypeOK, FP!InFlight, FP!Stored, Stored, Processes
    <3>4. table' = MarkForwarded(table, cur[Process])
      BY <3>1 DEF F!MarkForwarded, MarkForwarded
    <3>. QED
      BY <1>1, <3>1, <3>2, <3>3, <3>4 DEF Marks, Stored
  <2>3. CASE \/ F!TakeJob(Process) \/ F!StopForwarder(Process)
             \/ F!List(Process) \/ F!ListFails(Process)
             \/ \E id \in Ids : F!SkipUnparsable(Process, id) \/ F!Post(Process, id)
             \/ F!MarkFails(Process) \/ F!Target(Process)
    <3>1. UNCHANGED <<table, Queues>>
      BY <2>3 DEF F!TakeJob, F!StopForwarder, F!List, F!ListFails, F!SkipUnparsable,
         F!Post, F!MarkFails, F!Target, F!Deliver, F!Accept, F!Reject
    <3>2. UNCHANGED faults \/ F!Fault
      BY <2>3 DEF F!TakeJob, F!StopForwarder, F!List, F!ListFails, F!SkipUnparsable,
         F!Post, F!MarkFails, F!Target, F!Deliver, F!Accept, F!Reject, F!StatementFails
    <3>3. queue' = queue
      BY <3>1 DEF Queues, Processes
    <3>. QED
      BY <1>1, <3>1, <3>2, <3>3 DEF F!Fault, Silent, Fails
  <2>. QED
    BY <1>1, <2>1, <2>2, <2>3 DEF F!Worker
<1>5. [F!Next]_(F!vars)
  BY <1>1, Zenon DEF Processes, F!Next
<1>6. table \in Table
  BY TableTyped DEF Inv
<1>. QED
  BY <1>1, <1>3, <1>4, <1>5, <1>6, AroundWebhook, AroundMetrics, AroundApi,
     AroundValidator DEF Steps

LEMMA SameReplay ==
    ASSUME NEW a \in Row, NEW b \in Row, AP!SameEvent(a, b)
    PROVE  ReplayOf(a) = ReplayOf(b)
BY DEF Row, ReplayOf, AP!SameEvent

\* A replay writes back a row that has not changed but for its marks.
LEMMA ServeApiSteps ==
    ASSUME Inv, NEW r \in Replayers, ServeApi(r)
    PROVE  Steps
<1>1. UNCHANGED <<queue, githubIPs, webhook, forwarder, metrics, validator>>
  BY DEF ServeApi
<1>2. UNCHANGED Unannounced
  BY <1>1 DEF Unannounced, webhook
<1>3. table \in Table
  BY TableTyped DEF Inv
<1>4. CASE /\ (\E req \in ApiRequests : A!Receive(r, req)) \/ A!Reader(r) \/ A!Finish(r)
           /\ UNCHANGED reasons
  <2>1. Silent \/ Fails
    BY <1>1, <1>4 DEF A!Receive, A!Finish, A!Reader, A!GetEvent, A!CountEvents,
       A!ListEvents, A!GetStats, A!StatementFails, A!Respond, A!Fault, Silent, Fails
  <2>2. [A!Next]_(A!vars)
    BY <1>4 DEF A!Next, A!Replayer
  <2>. QED
    BY <1>1, <1>2, <1>3, <1>4, <2>1, <2>2, AroundWebhook, AroundForwarder,
       AroundMetrics, AroundValidator DEF Steps
<1>5. ASSUME NEW id \in Ids, A!UpdateEvent(r, id), F!Owe(id),
             replays < MaxReplays, replays' = replays + 1
      PROVE  Steps
  <2>1. /\ table' = A!Update(table, id, A!ReplayOf(events[r][id]))
        /\ id \in left[r] /\ UNCHANGED faults
    BY <1>5 DEF A!UpdateEvent
  <2>2. /\ id \in DOMAIN events[r] /\ id \in AP!Stored(table)
        /\ events[r][id] \in AP!Row
        /\ AP!SameEvent(events[r][id], table[id])
    BY <2>1 DEF Inv, AP!Inv, AP!TypeOK, AP!Fresh
  <2>3. id \in Stored(table) /\ events[r][id] \in Row /\ table[id] \in Row
    BY <1>3, <2>2 DEF AP!Stored, AP!Row, Stored, Row, Table
  <2>4. ReplayOf(events[r][id]) = ReplayOf(table[id])
    BY <2>2, <2>3, SameReplay
  <2>5. table' = Update(table, id, ReplayOf(events[r][id]))
    BY <2>1, Zenon DEF A!Update, A!ReplayOf, Update, ReplayOf
  <2>6. Resets(id)
    BY <1>1, <2>1, <2>3, <2>4, <2>5 DEF Resets
  <2>7. [A!Next]_(A!vars)
    BY <1>5 DEF A!Next, A!Replayer
  <2>. QED
    BY <1>1, <1>2, <1>3, <1>5, <2>6, <2>7, AroundWebhook, ReplayForForwarder,
       AroundMetrics, AroundValidator DEF Steps
<1>. QED
  BY <1>4, <1>5 DEF ServeApi

\* The insert of a request that has passed every check puts in a fresh row.
LEMMA StoreSteps ==
    ASSUME Inv, NEW h \in Handlers, NEW id \in Ids, NEW created \in Times,
           W!StoreEvent(h, id, created),
           IF table[id] = NoRow THEN F!Owe(id) ELSE UNCHANGED <<allowed, owed>>,
           UNCHANGED replays,
           UNCHANGED <<forwarder, metrics, api, validator>>
    PROVE  Steps
<1>. DEFINE row == W!EventOf(request[h], created)
            own == [n \in Processes |-> Stored(table)]
<1>1. pc[h] = "store" /\ table' = W!Insert(table, id, row)
  BY DEF W!StoreEvent
<1>2. row \in FreshRows
  <2>1. WP!Valid(request[h], seen[h]) /\ request[h] \in WP!Request
    BY <1>1 DEF Inv, WP!AdmittedInv, WP!TypeOK, WP!Passed
  <2>. QED
    BY <2>1 DEF WP!Valid, WP!Request, W!EventOf, FreshRows, Row
<1>. HIDE DEF row
<1>3. UNCHANGED <<serving, githubIPs, queue, faults>>
  BY DEF W!StoreEvent, W!process
<1>4. Stores(id, row)
  BY <1>1, <1>3 DEF Stores, Insert, W!Insert
<1>5. table \in Table
  BY TableTyped DEF Inv
<1>6. /\ Unmarked' = M!Insert(Unmarked, id, row)
      /\ Stored(table') = Stored(table) \cup {id}
  BY <1>2, <1>4, <1>5, UnmarkedGrows
<1>7. Unannounced' = [Unannounced EXCEPT ![Process][h] = id]
  <2>1. pc' = [pc EXCEPT ![h] = "enqueue"] /\ key' = [key EXCEPT ![h] = id]
    BY DEF W!StoreEvent, W!Goto
  <2>2. pc \in [Handlers -> WP!Pcs] /\ key \in [Handlers -> Ids \cup {NoId}]
    BY DEF Inv, WP!AdmittedInv, WP!TypeOK
  <2>3. \A g \in Handlers : /\ pc'[g] = IF g = h THEN "enqueue" ELSE pc[g]
                            /\ key'[g] = IF g = h THEN id ELSE key[g]
    BY <2>1, <2>2
  <2>. QED
    BY <2>3 DEF Unannounced, Processes
<1>8. Unannounced[Process][h] = NoId
  BY <1>1 DEF Unannounced, Processes
<1>9. own' = [own EXCEPT ![Process] = @ \cup {id}]
  BY <1>6 DEF Processes
<1>10. mproc[Process] # "down"
  BY <1>1 DEF Inv, LifeInv
<1>11. [M!Next]_(M!vars)
  <2>1. M!StoreEvent(Process, h, id, row)
    <3>1. Queues' = Queues
      BY <1>3, QueueIs
    <3>. QED
      BY <1>3, <1>6, <1>7, <1>8, <1>9, <1>10, <3>1
         DEF M!StoreEvent, M!collector, metrics
  <2>. QED
    BY <1>2, <2>1 DEF Processes, M!Next
<1>12. [W!Next]_(W!vars)
  BY DEF W!Next, W!ServeHTTP
<1>. QED
  BY <1>2, <1>4, <1>11, <1>12, StoreForForwarder, AroundApi, AroundValidator DEF Steps

\* After the insert comes the announcement, if there was one.
LEMMA AnnounceSteps ==
    ASSUME Inv, NEW h \in Handlers, W!EnqueueAndAnswer(h),
           UNCHANGED <<reasons, forwarder, metrics, api, validator>>
    PROVE  Steps
<1>1. Wakes
  BY Zenon DEF W!EnqueueAndAnswer, W!process, Wakes
<1>2. /\ pc[h] = "enqueue" /\ pc' = [pc EXCEPT ![h] = "answered"]
      /\ UNCHANGED <<table, key, faults>>
  BY DEF W!EnqueueAndAnswer, W!Answer, W!Goto
<1>3. pc \in [Handlers -> WP!Pcs]
  BY DEF Inv, WP!AdmittedInv, WP!TypeOK
<1>4. Unannounced' = [Unannounced EXCEPT ![Process][h] = NoId]
  BY <1>2, <1>3 DEF Unannounced, Processes
<1>5. mproc[Process] # "down"
  BY <1>2 DEF Inv, LifeInv
<1>6. table \in Table
  BY TableTyped DEF Inv
<1>7. [M!Next]_(M!vars)
  <2>1. CASE key[h] = NoId
    <3>1. Unannounced' = Unannounced
      BY <1>2, <1>3, <2>1 DEF Unannounced, Processes
    <3>. QED
      BY <1>1, <1>5, <1>6, <3>1, AroundMetrics
  <2>2. CASE key[h] # NoId
    <3>1. Unannounced[Process][h] # NoId
      BY <1>2, <2>2 DEF Unannounced, Processes
    <3>2. Queues' = [Queues EXCEPT ![Process] = TRUE]
      BY <1>1, QueueIs, Zenon DEF Wakes
    <3>3. UNCHANGED <<Unmarked, mproc, M!collector, faults, Stored(table)>>
      BY <1>2 DEF Unmarked, Stored, M!collector, metrics
    <3>4. UNCHANGED [n \in Processes |-> Stored(table)]
      BY <3>3
    <3>5. M!Announce(Process, h)
      BY <1>4, <3>1, <3>2, <3>3, <3>4, Zenon DEF M!Announce, M!EnqueueGatherMetrics
    <3>. QED
      BY <3>5, Zenon DEF Processes, M!Next
  <2>. QED
    BY <2>1, <2>2
<1>8. [W!Next]_(W!vars)
  BY Zenon DEF W!Next, W!ServeHTTP
<1>. QED
  BY <1>1, <1>7, <1>8, AroundForwarder, AroundApi, AroundValidator DEF Steps

\* The other steps of a handler and its client do not touch what is shared, and
\* nothing is unannounced before or after them that was not.
LEMMA HandlerSteps ==
    ASSUME Inv, NEW h \in Handlers,
           \/ \E req \in Requests : W!Receive(h, req)
           \/ W!CheckMethod(h) \/ W!ValidateGitHubEvent(h) \/ W!VerifyBody(h)
           \/ W!StoreEventFails(h) \/ W!Finish(h) \/ W!ClientLeaves(h),
           UNCHANGED <<reasons, forwarder, metrics, api, validator>>
    PROVE  Steps
<1>1. Silent \/ Fails
  BY DEF W!Receive, W!CheckMethod, W!ValidateGitHubEvent, W!VerifyBody,
     W!StoreEventFails, W!Finish, W!ClientLeaves, W!Fault, W!process, Silent, Fails
<1>2. pc \in [Handlers -> WP!Pcs] /\ key \in [Handlers -> Ids \cup {NoId}]
  BY DEF Inv, WP!AdmittedInv, WP!TypeOK
<1>3. \A g \in Handlers :
         IF g = h THEN \/ pc[h] # "enqueue" /\ pc'[h] # "enqueue"
                       \/ key[h] = NoId /\ key'[h] = NoId
                       \/ UNCHANGED <<pc, key>>
         ELSE pc'[g] = pc[g] /\ key'[g] = key[g]
  <2>1. CASE W!StoreEventFails(h)
    <3>1. pc[h] = "store" /\ pc' = [pc EXCEPT ![h] = "enqueue"] /\ key' = key
      BY <2>1 DEF W!StoreEventFails, W!Goto
    <3>2. key[h] = NoId
      BY <3>1 DEF Inv, KeyInv
    <3>. QED
      BY <1>2, <3>1, <3>2
  <2>2. CASE W!Finish(h)
    BY <1>2, <2>2 DEF W!Finish, W!Goto
  <2>3. CASE \/ \E req \in Requests : W!Receive(h, req)
             \/ W!CheckMethod(h) \/ W!ValidateGitHubEvent(h) \/ W!VerifyBody(h)
             \/ W!ClientLeaves(h)
    BY <1>2, <2>3 DEF W!Receive, W!CheckMethod, W!ValidateGitHubEvent, W!VerifyBody,
       W!ClientLeaves, W!Answer, W!Goto
  <2>. QED
    BY <2>1, <2>2, <2>3
<1>4. UNCHANGED Unannounced
  BY <1>3 DEF Unannounced
<1>5. table \in Table
  BY TableTyped DEF Inv
<1>6. [W!Next]_(W!vars)
  BY Zenon DEF W!Next, W!ServeHTTP
<1>. QED
  BY <1>1, <1>4, <1>5, <1>6, AroundForwarder, AroundMetrics, AroundApi, AroundValidator
     DEF Steps

LEMMA ServeWebhookSteps ==
    ASSUME Inv, NEW h \in Handlers, ServeWebhook(h)
    PROVE  Steps
BY StoreSteps, AnnounceSteps, HandlerSteps, Zenon DEF ServeWebhook

LEMMA NextSteps == Inv /\ [Next]_vars => Steps
<1>. SUFFICES ASSUME Inv, [Next]_vars PROVE Steps
  OBVIOUS
<1>1. CASE UNCHANGED vars
  <2>1. Silent /\ UNCHANGED Unannounced
    BY <1>1 DEF vars, webhook, Silent, Unannounced
  <2>2. table \in Table
    BY TableTyped DEF Inv
  <2>. QED
    BY <1>1, <2>1, <2>2, AroundWebhook, AroundForwarder, AroundMetrics, AroundApi,
       AroundValidator DEF vars, Steps
<1>2. CASE Next
  BY <1>2, StartMetricsSteps, NewHandlerSteps, StartForwarderSteps, ServeSteps,
     ServeWebhookSteps, ForwardSteps, CollectSteps, UpdateRangesSteps, ServeApiSteps,
     CrashSteps, Zenon DEF Next
<1>. QED
  BY <1>1, <1>2

-------------------------------------------------------------------------------
(* The invariant holds.                                                     *)

LEMMA InvInit == Init => Inv
<1>. SUFFICES ASSUME Init PROVE Inv
  OBVIOUS
<1>1. WP!AdmittedInv
  BY WebhookAssumptions, SameWebhook, WP!AdmittedInit DEF Init
<1>2. FP!TypeOK
  BY ForwarderAssumptions, SameForwarder, FP!TypeInit DEF Init
<1>3. AP!Inv
  BY ApiAssumptions, SameApi, AP!InvInit DEF Init
<1>4. LifeInv /\ KeyInv /\ RangeInv
  BY DEF Init, W!Init, F!Init, V!Init, LifeInv, KeyInv, RangeInv, Processes
<1>. QED
  BY <1>1, <1>2, <1>3, <1>4 DEF Inv

\* A handler is served only after Serve, the rest of run() is in its order.
LEMMA LifeNext == Inv /\ [Next]_vars => LifeInv'
<1>. SUFFICES ASSUME Inv, [Next]_vars PROVE LifeInv'
  OBVIOUS
<1>. USE DEF LifeInv, Inv, Processes
<1>1. CASE StartMetricsCollection
  BY <1>1 DEF StartMetricsCollection, M!StartMetricsCollection, webhook, forwarder, validator
<1>2. CASE NewHandler
  BY <1>2 DEF NewHandler, V!NewIPValidator, webhook, forwarder, metrics
<1>3. CASE StartForwarder
  BY <1>3 DEF StartForwarder, F!StartForwarder, webhook, metrics, validator
<1>4. CASE Serve
  BY <1>4 DEF Serve, W!Serve, forwarder, metrics, validator
<1>5. ASSUME NEW h \in Handlers, ServeWebhook(h) PROVE LifeInv'
  <2>1. UNCHANGED <<forwarder, metrics, validator>>
    BY <1>5 DEF ServeWebhook
  <2>2. /\ UNCHANGED serving
        /\ pc[h] # "idle" \/ serving
        /\ \A g \in Handlers : g # h => pc'[g] = pc[g]
    <3>1. pc \in [Handlers -> WP!Pcs]
      BY DEF WP!AdmittedInv, WP!TypeOK
    <3>. QED
      BY <1>5, <3>1 DEF ServeWebhook, W!Receive, W!CheckMethod, W!ValidateGitHubEvent,
         W!VerifyBody, W!StoreEvent, W!StoreEventFails, W!EnqueueAndAnswer, W!Finish,
         W!ClientLeaves, W!Goto, W!Answer, W!process
  <2>. QED
    BY <2>1, <2>2 DEF forwarder, metrics, validator
<1>6. CASE Forward
  <2>1. UNCHANGED fproc
    BY <1>6 DEF Forward, F!Worker, F!Target, F!TakeJob, F!StopForwarder, F!List,
       F!ListFails, F!SkipUnparsable, F!Post, F!Mark, F!MarkFails, F!FinishPass,
       F!Deliver, F!Accept, F!Reject
  <2>. QED
    BY <1>6, <2>1 DEF Forward, webhook, metrics, validator
<1>7. CASE CollectMetrics
  <2>1. UNCHANGED mproc
    BY <1>7 DEF CollectMetrics, M!Collector, M!Tick, M!TakeJob, M!StopCollector,
       M!GetStats, M!GetStatsFails, M!SetGauge, M!GatherReturns
  <2>. QED
    BY <1>7, <2>1 DEF CollectMetrics, webhook, forwarder, validator
<1>8. CASE UpdateRanges
  <2>1. vpc # "off" \/ UNCHANGED <<ready, vpc>>
    BY <1>8 DEF UpdateRanges, V!Update, V!Get, V!GetErrorDocument, V!UpdateFails,
       V!Install, V!Return, V!Tick, V!Rotate
  <2>2. ready => ready'
    BY <1>8 DEF UpdateRanges, V!Update, V!Get, V!GetErrorDocument, V!UpdateFails,
       V!Install, V!Return, V!Tick, V!Rotate
  <2>. QED
    BY <1>8, <2>1, <2>2 DEF UpdateRanges, webhook, forwarder, metrics
<1>9. CASE \E r \in Replayers : ServeApi(r)
  BY <1>9 DEF ServeApi, webhook, forwarder, metrics, validator
<1>10. CASE Crash
  BY <1>10 DEF Crash, W!Crash, F!Crash, M!Crash, V!Crash
<1>11. CASE UNCHANGED vars
  BY <1>11 DEF vars, webhook, forwarder, metrics, validator
<1>. QED
  BY <1>1, <1>2, <1>3, <1>4, <1>5, <1>6, <1>7, <1>8, <1>9, <1>10, <1>11 DEF Next

LEMMA KeyNext == Inv /\ [W!Next]_(W!vars) => KeyInv'
<1>. SUFFICES ASSUME Inv, [W!Next]_(W!vars) PROVE KeyInv'
  OBVIOUS
<1>1. /\ pc \in [Handlers -> WP!Pcs] /\ key \in [Handlers -> Ids \cup {NoId}]
      /\ KeyInv
  BY DEF Inv, WP!AdmittedInv, WP!TypeOK
<1>. USE <1>1 DEF KeyInv, W!Goto, W!Answer
<1>2. CASE W!Crash
  BY <1>2 DEF W!Crash
<1>3. ASSUME NEW h \in Handlers,
             \/ \E req \in Requests : W!Receive(h, req)
             \/ W!CheckMethod(h) \/ W!ValidateGitHubEvent(h) \/ W!VerifyBody(h)
             \/ W!StoreEventFails(h)
      PROVE  KeyInv'
  BY <1>3 DEF W!Receive, W!CheckMethod, W!ValidateGitHubEvent, W!VerifyBody,
     W!StoreEventFails
<1>4. ASSUME NEW h \in Handlers,
             \/ \E id \in Ids, created \in Times : W!StoreEvent(h, id, created)
             \/ W!EnqueueAndAnswer(h) \/ W!Finish(h) \/ W!ClientLeaves(h)
      PROVE  KeyInv'
  BY <1>4 DEF W!StoreEvent, W!EnqueueAndAnswer, W!Finish, W!ClientLeaves
<1>5. CASE \/ \E ranges \in Documents \cup {{}} : W!UpdateRanges(ranges)
           \/ W!EnqueueGather \/ W!TakeGather
           \/ \E id \in Ids : W!ForwarderMarks(id) \/ W!Replay(id)
           \/ W!Serve \/ W!FaultElsewhere \/ UNCHANGED W!vars
  <2>1. UNCHANGED <<pc, key>>
    BY <1>5 DEF W!UpdateRanges, W!EnqueueGather, W!TakeGather, W!ForwarderMarks,
       W!Replay, W!Serve, W!FaultElsewhere, W!vars
  <2>. QED
    BY <2>1
<1>. QED
  BY <1>2, <1>3, <1>4, <1>5 DEF W!Next, W!ServeHTTP

LEMMA RangeNext == RangeInv /\ [V!Next]_(V!vars) => RangeInv'
BY DEF RangeInv, V!Next, V!vars, V!github, V!NewIPValidator, V!Update, V!Get,
   V!GetErrorDocument, V!UpdateFails, V!Install, V!Return, V!Tick, V!Rotate, V!Crash,
   V!FaultElsewhere

LEMMA InvNext == Inv /\ [Next]_vars => Inv'
<1>. SUFFICES ASSUME Inv, [Next]_vars PROVE Inv'
  OBVIOUS
<1>1. Steps
  BY NextSteps
<1>2. WP!AdmittedInv'
  BY <1>1, WebhookAssumptions, SameWebhook, WP!AdmittedNext DEF Steps, Inv
<1>3. FP!TypeOK'
  BY <1>1, ForwarderAssumptions, SameForwarder, FP!TypeNext DEF Steps, Inv
<1>4. AP!Inv'
  BY <1>1, ApiAssumptions, SameApi, AP!InvNext DEF Steps, Inv
<1>5. LifeInv' /\ KeyInv' /\ RangeInv'
  BY <1>1, LifeNext, KeyNext, RangeNext DEF Steps, Inv
<1>. QED
  BY <1>2, <1>3, <1>4, <1>5 DEF Inv

LEMMA InvAlways == Spec => []Inv
BY InvInit, InvNext, PTL DEF Spec

-------------------------------------------------------------------------------
(* The components.                                                          *)

\* In the process the webhook handlers are what Webhook says: the forwarder,
\* the collector, the replays and the validator do to the table, the queue and
\* the ranges only what the handlers reckon with.
THEOREM WebhookHolds == Spec => WebhookPart
<1>1. Init => W!Init
  BY DEF Init
<1>2. Inv /\ [Next]_vars => [W!Next]_(W!vars)
  BY NextSteps DEF Steps
<1>. QED
  BY <1>1, <1>2, InvAlways, PTL DEF Spec, WebhookPart, W!Spec

\* The forwarder finds the events the handlers store and the replays reset, at
\* any moment of its pass, and delivers as Forwarder says.
THEOREM ForwarderHolds == Spec => ForwarderPart
<1>1. Init => F!Init
  BY DEF Init
<1>2. Inv /\ [Next]_vars => [F!Next]_(F!vars)
  BY NextSteps DEF Steps
<1>. QED
  BY <1>1, <1>2, InvAlways, PTL DEF Spec, ForwarderPart, F!Spec

\* The collector is only woken while it runs, and the rows it counts change in
\* nothing it sees.
THEOREM MetricsHolds == Spec => MetricsPart
<1>1. Init => M!Init
  <2>. SUFFICES ASSUME Init PROVE M!Init
    OBVIOUS
  <2>1. Unmarked = M!EmptyTable /\ [n \in Processes |-> Stored(table)] = [n \in Processes |-> {}]
    BY DEF Init, W!Init, W!EmptyTable, Unmarked, M!EmptyTable, Stored
  <2>. QED
    BY DEF Init
<1>2. Inv /\ [Next]_vars => [M!Next]_(M!vars)
  BY NextSteps DEF Steps
<1>. QED
  BY <1>1, <1>2, InvAlways, PTL DEF Spec, MetricsPart, M!Spec

\* Every row a replay or a listing reads, and every write in between, is as Api
\* says.
THEOREM ApiHolds == Spec => ApiPart
<1>1. Init => A!Init
  BY DEF Init
<1>2. Inv /\ [Next]_vars => [A!Next]_(A!vars)
  BY NextSteps DEF Steps
<1>. QED
  BY <1>1, <1>2, InvAlways, PTL DEF Spec, ApiPart, A!Spec

\* In the process the validator is what IPValidator says: no request, pass,
\* gathering or replay has a hand in the ranges.
THEOREM ValidatorHolds == Spec => V!Spec
<1>1. Init => V!Init
  BY DEF Init
<1>2. Inv /\ [Next]_vars => [V!Next]_(V!vars)
  BY NextSteps DEF Steps
<1>. QED
  BY <1>1, <1>2, InvAlways, PTL DEF Spec, V!Spec

\* So what the process checks the addresses of requests against is always one
\* whole document of GitHub's, or nothing.
THEOREM RangesArePublishedHolds == Spec => []RangesArePublished
<1>1. Init => VP!FetchedWhole
  BY DEF Init, V!Init, VP!FetchedWhole, VP!RangesArePublished
<1>2. Inv /\ VP!FetchedWhole /\ [Next]_vars => VP!FetchedWhole'
  BY NextSteps, SameValidator, VP!FetchedWholeInductive DEF Steps
<1>3. VP!FetchedWhole => RangesArePublished
  BY DEF VP!FetchedWhole, VP!RangesArePublished, RangesArePublished, V!RangesArePublished
<1>. QED
  BY <1>1, <1>2, <1>3, InvAlways, PTL DEF Spec

-------------------------------------------------------------------------------
(* What is delivered was admitted.  The handlers know the ranges a request  *)
(* was checked against, the validator that GitHub published them, and the   *)
(* forwarder that it delivers rows of the table; the invariant carries the  *)
(* one to the other, over the steps in between and the crashes.             *)

GivenIsStored == \A id \in Ids : received[Process][id] > 0 => id \in Stored(table)

RangesSeen ==
    /\ \A h \in Handlers : seen[h] \subseteq UNION everPublished
    /\ \A id \in Stored(table) : origin[id].ranges \subseteq UNION everPublished

DeliveredInv == VP!FetchedWhole /\ GivenIsStored /\ RangesSeen

LEMMA DeliveredInit == Init => DeliveredInv
<1>1. Init => VP!FetchedWhole
  BY DEF Init, V!Init, VP!FetchedWhole, VP!RangesArePublished
<1>2. Init => GivenIsStored
  BY DEF Init, F!Init, GivenIsStored, Processes
<1>3. Init => RangesSeen
  BY DEF Init, W!Init, W!EmptyTable, RangesSeen, Stored
<1>. QED
  BY <1>1, <1>2, <1>3 DEF DeliveredInv

\* No row is ever removed.
LEMMA StoredGrows == Inv /\ [A!Next]_(A!vars) => Stored(table) \subseteq Stored(table')
<1>. SUFFICES ASSUME Inv, [A!Next]_(A!vars) PROVE Stored(table) \subseteq Stored(table')
  OBVIOUS
<1>1. AP!Survive(table, table')
  BY ApiAssumptions, SameApi, AP!InvNext DEF Inv
<1>. QED
  BY <1>1 DEF AP!Survive, AP!Stored, Stored

LEMMA GivenNext ==
    ASSUME Inv, GivenIsStored, Steps
    PROVE  GivenIsStored'
<1>1. Stored(table) \subseteq Stored(table')
  BY StoredGrows DEF Steps
<1>2. received \in [Processes -> [Ids -> Nat]]
  BY DEF Inv, FP!TypeOK
<1>3. CASE F!Deliver(Process)
  <2>1. /\ received' = [received EXCEPT ![Process][cur[Process]] = @ + 1]
        /\ fpc[Process] = "posted"
    BY <1>3 DEF F!Deliver
  <2>2. cur[Process] \in Stored(table)
    BY <2>1 DEF Inv, FP!TypeOK, FP!InFlight, FP!Stored, Stored, Processes
  <2>3. \A id \in Ids : id # cur[Process] => received'[Process][id] = received[Process][id]
    BY <1>2, <2>1 DEF Processes
  <2>. QED
    BY <1>1, <2>2, <2>3 DEF GivenIsStored
<1>4. CASE UNCHANGED received
  BY <1>1, <1>4 DEF GivenIsStored
<1>5. F!Deliver(Process) \/ UNCHANGED received
  BY DEF Steps, Processes, F!Next, F!vars, F!history, F!Worker, F!Target, F!StartForwarder,
     F!TakeJob, F!StopForwarder, F!List, F!ListFails, F!SkipUnparsable, F!Post, F!Mark,
     F!MarkFails, F!FinishPass, F!Accept, F!Reject, F!EnqueueGather, F!TakeGather,
     F!Cancel, F!Crash, F!Replay, F!Store, F!FaultElsewhere
<1>. QED
  BY <1>3, <1>4, <1>5

LEMMA RangesSeenNext ==
    ASSUME Inv, DeliveredInv, Steps
    PROVE  RangesSeen'
<1>1. UNION everPublished \subseteq UNION everPublished'
  BY DEF Steps, V!Next, V!vars, V!github, V!NewIPValidator, V!Update, V!Get,
     V!GetErrorDocument, V!UpdateFails, V!Install, V!Return, V!Tick, V!Rotate, V!Crash,
     V!FaultElsewhere
<1>2. githubIPs \subseteq UNION everPublished
  BY DEF DeliveredInv, VP!FetchedWhole, VP!RangesArePublished
<1>3. /\ pc \in [Handlers -> WP!Pcs] /\ seen \in [Handlers -> SUBSET IPs]
      /\ origin \in [Ids -> WP!Origin \cup {NoRequest}]
  BY DEF Inv, WP!AdmittedInv, WP!TypeOK
<1>4. \A h \in Handlers : seen'[h] \in {seen[h], githubIPs, {}}
  BY <1>3 DEF Steps, W!Next, W!vars, W!ServeHTTP, W!Receive,
     W!CheckMethod, W!ValidateGitHubEvent, W!VerifyBody, W!StoreEvent,
     W!StoreEventFails, W!EnqueueAndAnswer, W!Finish, W!ClientLeaves,
     W!UpdateRanges, W!EnqueueGather, W!TakeGather, W!ForwarderMarks, W!Replay,
     W!Serve, W!Crash, W!FaultElsewhere
<1>5. ASSUME NEW id \in Stored(table')
      PROVE  origin'[id].ranges \subseteq UNION everPublished
  <2>1. CASE UNCHANGED origin /\ id \in Stored(table)
    BY <2>1 DEF DeliveredInv, RangesSeen
  <2>2. CASE \E h \in Handlers, i \in Ids, created \in Times : W!StoreEvent(h, i, created)
    <3>1. PICK h \in Handlers, i \in Ids, created \in Times : W!StoreEvent(h, i, created)
      BY <2>2
    <3>2. CASE table[i] = NoRow
      <4>1. origin' = [origin EXCEPT ![i] = [request |-> request[h], ranges |-> seen[h]]]
        BY <3>1, <3>2 DEF W!StoreEvent
      <4>2. id = i \/ (id \in Stored(table) /\ origin'[id] = origin[id])
        BY <1>3, <3>1, <4>1 DEF W!StoreEvent, W!Insert, Stored, Inv
      <4>. QED
        BY <1>3, <4>1, <4>2 DEF DeliveredInv, RangesSeen
    <3>3. CASE table[i] # NoRow
      BY <3>1, <3>3 DEF W!StoreEvent, W!Insert, DeliveredInv, RangesSeen
    <3>. QED
      BY <3>2, <3>3
  <2>3. CASE \E i \in Ids : W!ForwarderMarks(i) \/ W!Replay(i)
    <3>1. table \in Table
      BY TableTyped DEF Inv
    <3>2. Stored(table') \subseteq Stored(table)
      BY <2>3, <3>1 DEF W!ForwarderMarks, W!Replay, W!MarkForwarded, W!Update, Table, Stored
    <3>. QED
      BY <2>1, <2>3, <3>2 DEF W!ForwarderMarks, W!Replay
  <2>4. CASE UNCHANGED <<table, origin>>
    BY <2>1, <2>4 DEF Stored
  <2>5. \/ UNCHANGED <<table, origin>>
        \/ \E h \in Handlers, i \in Ids, created \in Times : W!StoreEvent(h, i, created)
        \/ \E i \in Ids : W!ForwarderMarks(i) \/ W!Replay(i)
    BY DEF Steps, W!Next, W!vars, W!ServeHTTP, W!Receive, W!CheckMethod,
       W!ValidateGitHubEvent, W!VerifyBody, W!StoreEventFails, W!EnqueueAndAnswer,
       W!Finish, W!ClientLeaves, W!UpdateRanges, W!EnqueueGather, W!TakeGather, W!Serve,
       W!Crash, W!FaultElsewhere
  <2>. QED
    BY <2>2, <2>3, <2>4, <2>5
<1>. QED
  BY <1>1, <1>2, <1>4, <1>5 DEF DeliveredInv, RangesSeen

LEMMA DeliveredNext ==
    ASSUME Inv, DeliveredInv, [Next]_vars
    PROVE  DeliveredInv'
<1>1. Steps
  BY NextSteps
<1>2. VP!FetchedWhole'
  BY <1>1, SameValidator, VP!FetchedWholeInductive DEF Steps, DeliveredInv
<1>. QED
  BY <1>1, <1>2, GivenNext, RangesSeenNext DEF DeliveredInv

\* No crash, replay, redelivery or change of the ranges ever gets to the target
\* an event that was not a signed POST, with validate-ip from an address GitHub
\* had published.
THEOREM DeliveredWasAdmittedHolds == Spec => []DeliveredWasAdmitted
<1>1. Inv /\ DeliveredInv => DeliveredWasAdmitted
  <2>. SUFFICES ASSUME Inv, DeliveredInv, NEW id \in Ids, received[Process][id] > 0
                PROVE  /\ origin[id] # NoRequest
                       /\ W!Admissible(origin[id].request, UNION everPublished)
    BY DEF DeliveredWasAdmitted
  <2>1. id \in Stored(table)
    BY DEF DeliveredInv, GivenIsStored
  <2>2. /\ origin[id] # NoRequest
        /\ WP!Admissible(origin[id].request, origin[id].ranges)
    BY <2>1 DEF Inv, WP!AdmittedInv, WP!StoredWasAdmitted, WP!Stored, Stored
  <2>3. origin[id].ranges \subseteq UNION everPublished
    BY <2>1 DEF DeliveredInv, RangesSeen
  <2>. QED
    BY <2>2, <2>3 DEF WP!Admissible, W!Admissible
<1>2. Inv /\ DeliveredInv /\ [Next]_vars => DeliveredInv'
  BY DeliveredNext
<1>. QED
  BY <1>1, <1>2, DeliveredInit, InvAlways, PTL DEF Spec

-------------------------------------------------------------------------------
(* What was proved of a component alone holds in the process.               *)

\* While handlers store, replays reset rows in the middle of a pass and the
\* process restarts, the forwarder marks nothing that was not accepted and
\* gives the target nothing once more than there was a reason to.
THEOREM ForwarderKeepsWord ==
    Spec => /\ [](F!MarkedWasAccepted /\ F!NoSpuriousDuplicate)
            /\ FP!ImplementsDeliveryLog
<1>1. F!Spec => FP!Spec
  BY SameForwarder, PTL DEF F!Spec, FP!Spec
<1>2. FP!Spec => []FP!MarkedWasAccepted
  BY ForwarderAssumptions, FP!MarkedWasAcceptedHolds
<1>3. FP!Spec => []FP!NoSpuriousDuplicate
  BY ForwarderAssumptions, FP!NoSpuriousDuplicateHolds
<1>4. FP!Spec => FP!ImplementsDeliveryLog
  BY ForwarderAssumptions, FP!Implements
<1>5. FP!MarkedWasAccepted /\ FP!NoSpuriousDuplicate
      => F!MarkedWasAccepted /\ F!NoSpuriousDuplicate
  BY DEF FP!MarkedWasAccepted, FP!NoSpuriousDuplicate, FP!Stored,
     F!MarkedWasAccepted, F!NoSpuriousDuplicate, F!Stored
<1>. QED
  BY <1>1, <1>2, <1>3, <1>4, <1>5, ForwarderHolds, PTL DEF ForwarderPart

\* Every row the forwarder, the replays and the collector work on is what an
\* admitted request said, and a redelivery changes nothing of it.
THEOREM WebhookKeepsWord ==
    Spec => [](W!StoredWasAdmitted) /\ W!RowsAreKept
<1>1. W!Spec => WP!Spec
  BY SameWebhook, PTL DEF W!Spec, WP!Spec
<1>2. WP!Spec => []WP!StoredWasAdmitted
  BY WebhookAssumptions, WP!StoredWasAdmittedHolds
<1>3. WP!Spec => WP!RowsAreKept
  BY WebhookAssumptions, WP!RowsAreKeptHolds
<1>4. WP!StoredWasAdmitted => W!StoredWasAdmitted
  BY DEF WP!StoredWasAdmitted, WP!Admissible, WP!Stored,
     W!StoredWasAdmitted, W!Admissible, W!Stored
<1>5. WP!RowsAreKept => W!RowsAreKept
  BY PTL DEF WP!RowsAreKept, WP!Stored, WP!ReplayOf, WP!vars, WP!process, WP!counters,
     W!RowsAreKept, W!Stored, W!ReplayOf, W!vars, W!process, W!counters
<1>. QED
  BY <1>1, <1>2, <1>3, <1>4, <1>5, WebhookHolds, PTL DEF WebhookPart

\* The collector misses no event of the process, its gauges are of whole reads
\* and none goes down, although forwarder and replays rewrite the rows it counts.
THEOREM MetricsKeepsWord ==
    Spec => [](M!NoLostWakeup /\ M!GaugesAreOfARead) /\ M!GaugesNeverDrop
<1>1. M!Spec => MP!Spec
  BY SameMetrics, PTL DEF M!Spec, MP!Spec
<1>2. MP!Spec => []MP!NoLostWakeup
  BY MetricsAssumptions, MP!NoLostWakeupHolds
<1>3. MP!Spec => []MP!GaugesAreOfARead
  BY MetricsAssumptions, MP!GaugesAreOfAReadHolds
<1>4. MP!Spec => MP!GaugesNeverDrop
  BY MetricsAssumptions, MP!GaugesNeverDropHolds
<1>5. MP!NoLostWakeup /\ MP!GaugesAreOfARead => M!NoLostWakeup /\ M!GaugesAreOfARead
  BY Zenon DEF MP!NoLostWakeup, MP!GaugesAreOfARead, MP!CountOf, MP!Cardinality,
     M!NoLostWakeup, M!GaugesAreOfARead, M!CountOf, M!Cardinality
<1>6. MP!GaugesNeverDrop => M!GaugesNeverDrop
  BY PTL DEF MP!GaugesNeverDrop, MP!vars, MP!collector,
     M!GaugesNeverDrop, M!vars, M!collector
<1>. QED
  BY <1>1, <1>2, <1>3, <1>4, <1>5, <1>6, MetricsHolds, PTL DEF MetricsPart

\* A replay that is answered "ok" has written all it read, and a page is as
\* large as its total, while handlers insert and the forwarder marks.
THEOREM ApiKeepsWord ==
    Spec => /\ [](A!OkIsComplete /\ A!PageKeepsPromise)
            /\ A!EventsSurviveReplay /\ A!OnlyWantedAreReset
<1>1. A!Spec => AP!Spec
  BY SameApi, PTL DEF A!Spec, AP!Spec
<1>2. AP!Spec => []AP!OkIsComplete
  BY ApiAssumptions, AP!OkIsCompleteHolds
<1>3. AP!Spec => []AP!PageKeepsPromise
  BY ApiAssumptions, AP!PageKeepsPromiseHolds
<1>4. AP!Spec => AP!EventsSurviveReplay
  BY ApiAssumptions, AP!EventsSurviveReplayHolds
<1>5. AP!Spec => AP!OnlyWantedAreReset
  BY ApiAssumptions, AP!OnlyWantedAreResetHolds
<1>6. AP!OkIsComplete /\ AP!PageKeepsPromise => A!OkIsComplete /\ A!PageKeepsPromise
  BY Zenon DEF AP!OkIsComplete, AP!PageKeepsPromise, AP!Complete, AP!Wanted, AP!InQuery,
     AP!IdOf, AP!PathId, AP!OffsetOf, AP!LimitOf, AP!PageSize, AP!Cardinality,
     A!OkIsComplete, A!PageKeepsPromise, A!Complete, A!Wanted, A!InQuery,
     A!IdOf, A!PathId, A!OffsetOf, A!LimitOf, A!PageSize, A!Cardinality
<1>7. AP!EventsSurviveReplay => A!EventsSurviveReplay
  BY PTL DEF AP!EventsSurviveReplay, AP!Stored, AP!vars, AP!locals,
     A!EventsSurviveReplay, A!Stored, A!vars, A!locals
<1>8. AP!OnlyWantedAreReset => A!OnlyWantedAreReset
  BY PTL DEF AP!OnlyWantedAreReset, AP!Wanted, AP!InQuery, AP!IdOf, AP!PathId,
     AP!Stored, AP!vars, AP!locals,
     A!OnlyWantedAreReset, A!Wanted, A!InQuery, A!IdOf, A!PathId,
     A!Stored, A!vars, A!locals
<1>. QED
  BY <1>1, <1>2, <1>3, <1>4, <1>5, <1>6, <1>7, <1>8, ApiHolds, PTL DEF ApiPart
=================================================================================
