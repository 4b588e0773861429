------------------------------- MODULE Forwarder -------------------------------
(***************************************************************************)
(* internal/webhook/forwarder.go: the goroutine that POSTs the stored,     *)
(* unforwarded events to the target, in every hubproxy process that shares *)
(* one database.                                                           *)
(*                                                                         *)
(* A pass is: take the token from the queue channel, list the unforwarded  *)
(* events, POST each in turn, and mark the ones the target answered with a *)
(* status below 400.  The POST is three steps (the request leaves, the     *)
(* target has it, the answer is back), because a process can die, the      *)
(* network can fail and an operator can replay the event between any two.  *)
(*                                                                         *)
(* A request that is still on the wire when its sender gives up or dies    *)
(* either has arrived by then or never does: no one waits for its answer,  *)
(* and counting it early is the worse case for NoSpuriousDuplicate.        *)
(***************************************************************************)
EXTENDS EventStore

CONSTANTS
    Nodes,          \* hubproxy processes with a target URL and a common database
    NewRows,        \* the rows the webhook handler inserts
    NoId,           \* no event is being forwarded
    MaxFaults,      \* bound on crashes, cancellations, refusals and SQL errors
    MaxReplays      \* bound on replays

ASSUME NewRowsAssumption ==
    NewRows \subseteq {row \in Row : ~ row.forwarded /\ ~ row.replayed}
ASSUME NoIdAssumption == NoId \notin Ids
ASSUME BoundsAssumption == MaxFaults \in Nat /\ MaxReplays \in Nat

VARIABLES
    table,          \* the events table
    proc,           \* proc[n]: "down", "up", or "cancelled" (its ctx is done)
    jobs,           \* jobs[n]: the queue channel (capacity 1) holds a token
    gatherQ,        \* gatherQ[n]: so does the metrics collector's queue
    pc,             \* pc[n]: where the forwarder goroutine is
    todo,           \* todo[n]: listed events the pass has not come to yet
    cur,            \* cur[n]: the event forwardEvent is working on
    faults,         \* faults so far
    replays,        \* replays so far
    \* history, for the properties only
    received,       \* received[n][id]: how often n gave the event to the target
    allowed,        \* allowed[id]: how often there was a reason to give it
    accepted,       \* events the target has answered with a status below 400
    owed            \* events not given to the target since stored or replayed

worker == <<pc, todo, cur>>
history == <<received, allowed, accepted, owed>>
vars == <<table, proc, jobs, gatherQ, worker, faults, replays, history>>

Pcs == {"off", "select", "list", "loop", "posted", "arrived", "mark"}
InFlight == {"posted", "arrived", "mark"}

Init ==
    /\ table = EmptyTable
    /\ proc = [n \in Nodes |-> "down"]
    /\ jobs = [n \in Nodes |-> FALSE]
    /\ gatherQ = [n \in Nodes |-> FALSE]
    /\ pc = [n \in Nodes |-> "off"]
    /\ todo = [n \in Nodes |-> {}]
    /\ cur = [n \in Nodes |-> NoId]
    /\ faults = 0
    /\ replays = 0
    /\ received = [n \in Nodes |-> [id \in Ids |-> 0]]
    /\ allowed = [id \in Ids |-> 0]
    /\ accepted = {}
    /\ owed = {}

Fault == faults < MaxFaults /\ faults' = faults + 1

\* A statement run with the forwarder's ctx fails: always once the ctx is
\* done, and else when the database does.
StatementFails(n) ==
    \/ proc[n] = "cancelled" /\ UNCHANGED faults
    \/ proc[n] = "up" /\ Fault

Allow(id) == allowed' = [allowed EXCEPT ![id] = @ + 1]

\* The event is to be given to the target, once more or for the first time.
Owe(id) == Allow(id) /\ owed' = owed \cup {id}

-------------------------------------------------------------------------------
(* The process and its goroutine.                                           *)

\* StartForwarder starts the goroutine and enqueues the only processing job it
\* will ever get.
StartForwarder(n) ==
    /\ proc[n] = "down"
    /\ proc' = [proc EXCEPT ![n] = "up"]
    /\ pc' = [pc EXCEPT ![n] = "select"]
    /\ jobs' = [jobs EXCEPT ![n] = TRUE]
    /\ UNCHANGED <<table, gatherQ, todo, cur, faults, replays, history>>

\* case <-f.queue.  Go picks either ready case, so a done ctx does not keep
\* the goroutine from taking the token.
TakeJob(n) ==
    /\ pc[n] = "select"
    /\ jobs[n]
    /\ jobs' = [jobs EXCEPT ![n] = FALSE]
    /\ pc' = [pc EXCEPT ![n] = "list"]
    /\ UNCHANGED <<table, proc, gatherQ, todo, cur, faults, replays, history>>

\* case <-ctx.Done().
StopForwarder(n) ==
    /\ pc[n] = "select"
    /\ proc[n] = "cancelled"
    /\ pc' = [pc EXCEPT ![n] = "off"]
    /\ UNCHANGED <<table, proc, jobs, gatherQ, todo, cur, faults, replays,
                   history>>

\* The SELECT of ProcessEvents; an empty result ends the pass at once.
List(n) ==
    /\ pc[n] = "list"
    /\ proc[n] = "up"
    /\ LET events == Matching(table, NonForwarded)
       IN  /\ todo' = [todo EXCEPT ![n] = events]
           /\ pc' = [pc EXCEPT ![n] = IF events = {} THEN "select" ELSE "loop"]
    /\ UNCHANGED <<table, proc, jobs, gatherQ, cur, faults, replays, history>>

\* ProcessEvents returns the error, the goroutine logs it: the job is gone.
ListFails(n) ==
    /\ pc[n] = "list"
    /\ StatementFails(n)
    /\ pc' = [pc EXCEPT ![n] = "select"]
    /\ UNCHANGED <<table, proc, jobs, gatherQ, todo, cur, replays, history>>

\* Mutant of SkipUnparsable: the error ends the whole pass.
SkipEndsPass(n, id) ==
    /\ pc[n] = "loop"
    /\ id \in todo[n]
    /\ ~ table[id].headers
    /\ todo' = [todo EXCEPT ![n] = {}]
    /\ pc' = [pc EXCEPT ![n] = "select"]
    /\ UNCHANGED <<table, proc, jobs, gatherQ, cur, faults, replays, history>>

\* forwardEvent gives up on an event whose headers do not parse.  The headers
\* come from the listing; no statement of the program ever changes them.
SkipUnparsable(n, id) ==
    /\ pc[n] = "loop"
    /\ id \in todo[n]
    /\ ~ table[id].headers
    /\ todo' = [todo EXCEPT ![n] = @ \ {id}]
    /\ UNCHANGED <<table, proc, jobs, gatherQ, pc, cur, faults, replays,
                   history>>

\* httpClient.Do sends the request.  It does not carry the ctx.
Post(n, id) ==
    /\ pc[n] = "loop"
    /\ id \in todo[n]
    /\ table[id].headers
    /\ todo' = [todo EXCEPT ![n] = @ \ {id}]
    /\ cur' = [cur EXCEPT ![n] = id]
    /\ pc' = [pc EXCEPT ![n] = "posted"]
    /\ UNCHANGED <<table, proc, jobs, gatherQ, faults, replays, history>>

\* The target has the request.
Deliver(n) ==
    /\ pc[n] = "posted"
    /\ pc' = [pc EXCEPT ![n] = "arrived"]
    /\ received' = [received EXCEPT ![n][cur[n]] = @ + 1]
    /\ owed' = owed \ {cur[n]}
    /\ UNCHANGED <<table, proc, jobs, gatherQ, todo, cur, faults, replays,
                   allowed, accepted>>

\* The target's answer, a status below 400, is back.
Accept(n) ==
    /\ pc[n] = "arrived"
    /\ pc' = [pc EXCEPT ![n] = "mark"]
    /\ accepted' = accepted \cup {cur[n]}
    /\ UNCHANGED <<table, proc, jobs, gatherQ, todo, cur, faults, replays,
                   received, allowed, owed>>

\* Mutant of Reject: the status of the answer is not looked at.
RejectUnchecked(n) ==
    /\ pc[n] = "arrived"
    /\ Fault
    /\ pc' = [pc EXCEPT ![n] = "mark"]
    /\ UNCHANGED <<table, proc, jobs, gatherQ, todo, cur, replays, history>>

\* Do fails, before or after the target had the request, or the status is 400
\* or more: forwardEvent returns and the loop goes on with the next event.
Reject(n) ==
    /\ pc[n] \in {"posted", "arrived"}
    /\ Fault
    /\ pc' = [pc EXCEPT ![n] = "loop"]
    /\ cur' = [cur EXCEPT ![n] = NoId]
    /\ IF pc[n] = "arrived" THEN Allow(cur[n]) ELSE UNCHANGED allowed
    /\ UNCHANGED <<table, proc, jobs, gatherQ, todo, replays, received,
                   accepted, owed>>

\* Mutant of Mark: the event stays the current one.
MarkKeepsCur(n) ==
    /\ pc[n] = "mark"
    /\ proc[n] = "up"
    /\ table' = MarkForwarded(table, cur[n])
    /\ pc' = [pc EXCEPT ![n] = "loop"]
    /\ UNCHANGED <<proc, jobs, gatherQ, todo, cur, faults, replays, history>>

\* Mutant of Mark: the row is written back as it was before a replay.
MarkForgetsReplay(n) ==
    /\ pc[n] = "mark"
    /\ proc[n] = "up"
    /\ table' = [table EXCEPT ![cur[n]].forwarded = TRUE, ![cur[n]].replayed = FALSE]
    /\ pc' = [pc EXCEPT ![n] = "loop"]
    /\ cur' = [cur EXCEPT ![n] = NoId]
    /\ UNCHANGED <<proc, jobs, gatherQ, todo, faults, replays, history>>

\* MarkForwarded succeeds.
Mark(n) ==
    /\ pc[n] = "mark"
    /\ proc[n] = "up"
    /\ table' = MarkForwarded(table, cur[n])
    /\ pc' = [pc EXCEPT ![n] = "loop"]
    /\ cur' = [cur EXCEPT ![n] = NoId]
    /\ UNCHANGED <<proc, jobs, gatherQ, todo, faults, replays, history>>

\* The UPDATE had no effect; forwardEvent logs the error and returns.
MarkFails(n) ==
    /\ pc[n] = "mark"
    /\ StatementFails(n)
    /\ pc' = [pc EXCEPT ![n] = "loop"]
    /\ cur' = [cur EXCEPT ![n] = NoId]
    /\ Allow(cur[n])
    /\ UNCHANGED <<table, proc, jobs, gatherQ, todo, replays, received,
                   accepted, owed>>

\* The range over the events is done: EnqueueGatherMetrics, back to select.
FinishPass(n) ==
    /\ pc[n] = "loop"
    /\ todo[n] = {}
    /\ gatherQ' = [gatherQ EXCEPT ![n] = TRUE]
    /\ pc' = [pc EXCEPT ![n] = "select"]
    /\ UNCHANGED <<table, proc, jobs, todo, cur, faults, replays, history>>

-------------------------------------------------------------------------------
(* The rest of the system, as the forwarder sees it.                        *)

\* The webhook handler stores a delivery; one with a known id changes nothing.
Store(id, row) ==
    /\ table' = Insert(table, id, row)
    /\ IF table[id] = NoRow
       THEN Owe(id)
       ELSE UNCHANGED <<allowed, owed>>
    /\ UNCHANGED <<proc, jobs, gatherQ, worker, faults, replays, received,
                   accepted>>

\* A replay handler's UPDATE of a row it has read.
Replay(id) ==
    /\ table[id] # NoRow
    /\ replays < MaxReplays
    /\ replays' = replays + 1
    /\ table' = Update(table, id, ReplayOf(table[id]))
    /\ Owe(id)
    /\ UNCHANGED <<proc, jobs, gatherQ, worker, faults, received, accepted>>

\* The collector's start-up, its ticker or a webhook handler sends a token.
EnqueueGather(n) ==
    /\ gatherQ' = [gatherQ EXCEPT ![n] = TRUE]
    /\ UNCHANGED <<table, proc, jobs, worker, faults, replays, history>>

\* The collector's goroutine takes its token.
TakeGather(n) ==
    /\ gatherQ[n]
    /\ gatherQ' = [gatherQ EXCEPT ![n] = FALSE]
    /\ UNCHANGED <<table, proc, jobs, worker, faults, replays, history>>

\* The ctx given to StartForwarder is cancelled.
Cancel(n) ==
    /\ proc[n] = "up"
    /\ Fault
    /\ proc' = [proc EXCEPT ![n] = "cancelled"]
    /\ UNCHANGED <<table, jobs, gatherQ, worker, replays, history>>

\* The process dies with everything it had in memory, before or after it came
\* to start the forwarder.
Crash(n) ==
    /\ Fault
    /\ proc' = [proc EXCEPT ![n] = "down"]
    /\ jobs' = [jobs EXCEPT ![n] = FALSE]
    /\ gatherQ' = [gatherQ EXCEPT ![n] = FALSE]
    /\ pc' = [pc EXCEPT ![n] = "off"]
    /\ todo' = [todo EXCEPT ![n] = {}]
    /\ cur' = [cur EXCEPT ![n] = NoId]
    /\ IF pc[n] \in {"arrived", "mark"} THEN Allow(cur[n]) ELSE UNCHANGED allowed
    /\ UNCHANGED <<table, replays, received, accepted, owed>>

\* Something fails that the forwarder does not notice.
FaultElsewhere ==
    /\ Fault
    /\ UNCHANGED <<table, proc, jobs, gatherQ, worker, replays, history>>

-------------------------------------------------------------------------------
\* What the goroutine of node n does by itself.
Worker(n) ==
    \/ TakeJob(n) \/ StopForwarder(n)
    \/ List(n) \/ ListFails(n)
    \/ \E id \in Ids : SkipUnparsable(n, id) \/ Post(n, id)
    \/ Mark(n) \/ MarkFails(n)
    \/ FinishPass(n)

\* What the network and the target do with a request of node n.
Target(n) == Deliver(n) \/ Accept(n) \/ Reject(n)

Next ==
    \/ \E n \in Nodes :
          StartForwarder(n) \/ Worker(n) \/ Target(n)
            \/ EnqueueGather(n) \/ TakeGather(n) \/ Cancel(n) \/ Crash(n)
    \/ \E id \in Ids : Replay(id) \/ \E row \in NewRows : Store(id, row)
    \/ FaultElsewhere

Spec == Init /\ [][Next]_vars

\* The scheduler runs every goroutine, the process is (re)started when it is
\* down, and a target that has a request answers it: httpClient has no timeout,
\* so a target that never answers stops the pass for good.
Fairness == \A n \in Nodes :
    /\ WF_vars(StartForwarder(n))
    /\ WF_vars(Worker(n))
    /\ WF_vars(Target(n))

FairSpec == Spec /\ Fairness

-------------------------------------------------------------------------------
\* Every variable has its type, and the goroutine's locals agree with its
\* place in forwardEvent and in the loop of ProcessEvents.
TypeOK ==
    /\ table \in Table
    /\ proc \in [Nodes -> {"down", "up", "cancelled"}]
    /\ jobs \in [Nodes -> BOOLEAN]
    /\ gatherQ \in [Nodes -> BOOLEAN]
    /\ pc \in [Nodes -> Pcs]
    /\ todo \in [Nodes -> SUBSET Ids]
    /\ cur \in [Nodes -> Ids \cup {NoId}]
    /\ faults \in 0 .. MaxFaults
    /\ replays \in 0 .. MaxReplays
    /\ received \in [Nodes -> [Ids -> Nat]]
    /\ allowed \in [Ids -> Nat]
    /\ accepted \subseteq Ids
    /\ owed \subseteq Ids
    /\ \A n \in Nodes :
          /\ pc[n] \in InFlight <=> cur[n] # NoId
          /\ todo[n] # {} => pc[n] \in InFlight \cup {"loop"}
          /\ proc[n] = "down" => pc[n] = "off" /\ ~ jobs[n]
          /\ todo[n] \cup {cur[n]} \subseteq Stored(table) \cup {NoId}

\* An event is marked as forwarded only if the target has at some time
\* answered a request that carried it with a status below 400, whatever
\* fails, restarts or runs beside it (the early returns of forwardEvent).
MarkedWasAccepted ==
    \A id \in Stored(table) : table[id].forwarded => id \in accepted

\* No process gives the target an event once more than there was a reason for:
\* the event was stored, it was replayed, or an attempt ended so that hubproxy
\* could not record its success (refused, crashed, or not marked).
NoSpuriousDuplicate ==
    \A n \in Nodes, id \in Ids : received[n][id] <= allowed[id]

\* Nor do two processes on one database between them: what one of them is
\* delivering, the other leaves alone.
NoDuplicateAcrossNodes ==
    \A m, n \in Nodes, id \in Ids :
        m # n => received[m][id] + received[n][id] <= allowed[id]

\* An event marked as forwarded has been given to the target since it was last
\* stored or replayed: MarkForwarded does not hide a replay.
ReplayHonoured ==
    \A id \in Stored(table) : table[id].forwarded => id \notin owed

\* The delivery log of all processes together.
Credit == [n \in Nodes |-> [id \in Ids |-> allowed[id] - received[n][id]]]
Given == {id \in Ids : \E n \in Nodes : received[n][id] > 0}
Recorded == {id \in Stored(table) : table[id].forwarded}

DL == INSTANCE DeliveryLog WITH
    stored <- Stored(table), credit <- Credit, given <- Given, recorded <- Recorded

\* The forwarders implement it: a process delivers only what it is entitled
\* to, and what the table shows as forwarded was stored, given to the target
\* and accepted, one event at a time.
ImplementsDeliveryLog == DL!Spec

Forwarded(id) == table[id] # NoRow /\ table[id].forwarded

Forwardable(id) == table[id] # NoRow /\ table[id].headers

\* Once nothing fails any more, a process with a job in its queue gets every
\* event that is stored by then forwarded, whatever else is in the table:
\* an event that cannot be sent does not hold up the ones listed after it.
JobDrainsBacklog ==
    \A n \in Nodes, id \in Ids :
        (/\ faults = MaxFaults
         /\ proc[n] = "up"
         /\ jobs[n]
         /\ Forwardable(id)) ~> Forwarded(id)

\* Every event that is stored and can be sent is in the end forwarded.
StoredIsForwarded == \A id \in Ids : Forwardable(id) ~> Forwarded(id)
===============================================================================
