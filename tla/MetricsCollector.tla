--------------------------- MODULE MetricsCollector ---------------------------
(***************************************************************************)
(* internal/storage/metrics.go: the goroutine that copies the event counts *)
(* of the database into the hubproxy_db_events_count gauges.               *)
(*                                                                         *)
(* It is woken through a channel of capacity 1 whose senders never block:  *)
(* a request to gather that finds a token in the channel is dropped.  The  *)
(* webhook handlers send after their StoreEvent, the ticker sends every    *)
(* metrics-interval, when there is one.  A drop is harmless only if the    *)
(* token is taken out before the database is read; that is what the        *)
(* properties are about.  Gauges live in the process, the table does not.  *)
(***************************************************************************)
EXTENDS EventStore

CONSTANTS
    Nodes,          \* hubproxy processes with a common database
    Handlers,       \* webhook requests a process serves at the same time
    NewRows,        \* the rows the webhook handlers insert
    NoId,           \* the handler is not between its insert and its enqueue
    Periodic,       \* processes whose metrics-interval is positive
    MaxFaults       \* bound on crashes, cancellations and failed GetStats

ASSUME NewRowsAssumption == NewRows \subseteq Row
ASSUME NoIdAssumption == NoId \notin Ids
ASSUME PeriodicAssumption == Periodic \subseteq Nodes
ASSUME BoundsAssumption == MaxFaults \in Nat

VARIABLES
    table,          \* the events table
    proc,           \* proc[n]: "down", "up", or "cancelled" (its ctx is done)
    queue,          \* queue[n]: the collector's channel holds a token
    pc,             \* pc[n]: where the collector goroutine is
    stats,          \* stats[n]: what is left to publish of a result of GetStats
    eventCount,     \* eventCount[n][type]: the gauge, 0 before its first Set
    handler,        \* handler[n][h]: the event h has stored but not announced
    faults,         \* faults so far
    \* history, for the properties only
    own,            \* own[n]: events that handlers of n have stored
    read,           \* read[n]: the events of the read that is being published
    counted,        \* counted[n]: those of the last one that was, to the end
    failed          \* failed[n]: no gathering since the last failed one

collector == <<pc, stats, eventCount, read, counted, failed>>
vars == <<table, proc, queue, collector, handler, faults, own>>

NoCounts == [type \in Types |-> 0]

NoStats == [type \in {} |-> 0]

Init ==
    /\ table = EmptyTable
    /\ proc = [n \in Nodes |-> "down"]
    /\ queue = [n \in Nodes |-> FALSE]
    /\ pc = [n \in Nodes |-> "off"]
    /\ stats = [n \in Nodes |-> NoStats]
    /\ eventCount = [n \in Nodes |-> NoCounts]
    /\ handler = [n \in Nodes |-> [h \in Handlers |-> NoId]]
    /\ faults = 0
    /\ own = [n \in Nodes |-> {}]
    /\ read = [n \in Nodes |-> {}]
    /\ counted = [n \in Nodes |-> {}]
    /\ failed = [n \in Nodes |-> FALSE]

Fault == faults < MaxFaults /\ faults' = faults + 1

\* Mutant of EnqueueGatherMetrics: the channel has no buffer.
EnqueueUnbuffered(n) == queue' = [queue EXCEPT ![n] = @ \/ pc[n] = "select"]

\* select { case queue <- token: default: }
EnqueueGatherMetrics(n) == queue' = [queue EXCEPT ![n] = TRUE]

-------------------------------------------------------------------------------
(* The collector.                                                           *)

\* StartMetricsCollection of a new process: the goroutine, and a first job.
StartMetricsCollection(n) ==
    /\ proc[n] = "down"
    /\ proc' = [proc EXCEPT ![n] = "up"]
    /\ pc' = [pc EXCEPT ![n] = "select"]
    /\ EnqueueGatherMetrics(n)
    /\ UNCHANGED <<table, stats, eventCount, read, counted, failed, handler,
                   faults, own>>

TakeJob(n) ==
    /\ pc[n] = "select"
    /\ queue[n]
    /\ queue' = [queue EXCEPT ![n] = FALSE]
    /\ pc' = [pc EXCEPT ![n] = "gather"]
    /\ UNCHANGED <<table, proc, stats, eventCount, read, counted, failed,
                   handler, faults, own>>

StopCollector(n) ==
    /\ pc[n] = "select"
    /\ proc[n] = "cancelled"
    /\ pc' = [pc EXCEPT ![n] = "off"]
    /\ UNCHANGED <<table, proc, queue, stats, eventCount, read, counted,
                   failed, handler, faults, own>>

\* GatherMetrics: GetStats with the zero time counts every row.
GetStats(n) ==
    /\ pc[n] = "gather"
    /\ proc[n] = "up"
    /\ stats' = [stats EXCEPT ![n] = Stats(table, 0)]
    /\ read' = [read EXCEPT ![n] = Stored(table)]
    /\ failed' = [failed EXCEPT ![n] = FALSE]
    /\ pc' = [pc EXCEPT ![n] = "publish"]
    /\ UNCHANGED <<table, proc, queue, eventCount, counted, handler, faults,
                   own>>

\* GatherMetrics returns the error, the goroutine logs it: the job is gone.
GetStatsFails(n) ==
    /\ pc[n] = "gather"
    /\ \/ proc[n] = "cancelled" /\ UNCHANGED faults
       \/ proc[n] = "up" /\ Fault
    /\ failed' = [failed EXCEPT ![n] = TRUE]
    /\ pc' = [pc EXCEPT ![n] = "select"]
    /\ UNCHANGED <<table, proc, queue, stats, eventCount, read, counted,
                   handler, own>>

\* Mutant of SetGauge: Add instead of Set.
AddToGauge(n, type) ==
    /\ pc[n] = "publish"
    /\ type \in DOMAIN stats[n]
    /\ eventCount' = [eventCount EXCEPT ![n][type] = @ + stats[n][type]]
    /\ stats' = [stats EXCEPT
          ![n] = [other \in DOMAIN stats[n] \ {type} |-> stats[n][other]]]
    /\ UNCHANGED <<table, proc, queue, pc, read, counted, failed, handler, faults, own>>

\* The range over the result, in any order; it can be scraped between two Sets.
\* The gauges of types that are absent from the result are left alone.
SetGauge(n, type) ==
    /\ pc[n] = "publish"
    /\ type \in DOMAIN stats[n]
    /\ eventCount' = [eventCount EXCEPT ![n][type] = stats[n][type]]
    /\ stats' = [stats EXCEPT
          ![n] = [other \in DOMAIN stats[n] \ {type} |-> stats[n][other]]]
    /\ UNCHANGED <<table, proc, queue, pc, read, counted, failed, handler, faults, own>>

\* Mutant of GatherReturns: the channel is drained when the gauges are set.
ReturnDrains(n) ==
    /\ pc[n] = "publish"
    /\ DOMAIN stats[n] = {}
    /\ counted' = [counted EXCEPT ![n] = read[n]]
    /\ queue' = [queue EXCEPT ![n] = FALSE]
    /\ read' = [read EXCEPT ![n] = {}]
    /\ pc' = [pc EXCEPT ![n] = "select"]
    /\ UNCHANGED <<table, proc, stats, eventCount, failed, handler, faults, own>>

\* The end of the range.
GatherReturns(n) ==
    /\ pc[n] = "publish"
    /\ DOMAIN stats[n] = {}
    /\ counted' = [counted EXCEPT ![n] = read[n]]
    /\ read' = [read EXCEPT ![n] = {}]
    /\ pc' = [pc EXCEPT ![n] = "select"]
    /\ UNCHANGED <<table, proc, queue, stats, eventCount, failed, handler, faults, own>>

\* Mutant of Tick: the test of the interval is the wrong way round.
TickWithoutInterval(n) ==
    /\ n \notin Periodic
    /\ proc[n] = "up"
    /\ EnqueueGatherMetrics(n)
    /\ UNCHANGED <<table, proc, collector, handler, faults, own>>

\* The second goroutine; it ends with the ctx.
Tick(n) ==
    /\ n \in Periodic
    /\ proc[n] = "up"
    /\ EnqueueGatherMetrics(n)
    /\ UNCHANGED <<table, proc, collector, handler, faults, own>>

-------------------------------------------------------------------------------
(* The webhook handlers and the forwarder, as the collector sees them.      *)

\* The forwarder sends at the end of every pass that had events, a handler also
\* when it could not store.
Enqueue(n) ==
    /\ proc[n] # "down"
    /\ EnqueueGatherMetrics(n)
    /\ UNCHANGED <<table, proc, collector, handler, faults, own>>

\* Mutant of StoreEvent: handlers are served before the process has started.
StoreEventUnstarted(n, h, id, row) ==
    /\ handler[n][h] = NoId
    /\ handler' = [handler EXCEPT ![n][h] = id]
    /\ table' = Insert(table, id, row)
    /\ own' = [own EXCEPT ![n] = @ \cup {id}]
    /\ UNCHANGED <<proc, queue, collector, faults>>

StoreEvent(n, h, id, row) ==
    /\ proc[n] # "down"
    /\ handler[n][h] = NoId
    /\ handler' = [handler EXCEPT ![n][h] = id]
    /\ table' = Insert(table, id, row)
    /\ own' = [own EXCEPT ![n] = @ \cup {id}]
    /\ UNCHANGED <<proc, queue, collector, faults>>

\* Another process stores an event in the common database.
StoreElsewhere(id, row) ==
    /\ table' = Insert(table, id, row)
    /\ UNCHANGED <<proc, queue, collector, handler, faults, own>>

Announce(n, h) ==
    /\ handler[n][h] # NoId
    /\ handler' = [handler EXCEPT ![n][h] = NoId]
    /\ EnqueueGatherMetrics(n)
    /\ UNCHANGED <<table, proc, collector, faults, own>>

-------------------------------------------------------------------------------
(* The process.                                                             *)

Cancel(n) ==
    /\ proc[n] = "up"
    /\ Fault
    /\ proc' = [proc EXCEPT ![n] = "cancelled"]
    /\ UNCHANGED <<table, queue, collector, handler, own>>

Crash(n) ==
    /\ proc[n] # "down"
    /\ Fault
    /\ proc' = [proc EXCEPT ![n] = "down"]
    /\ queue' = [queue EXCEPT ![n] = FALSE]
    /\ pc' = [pc EXCEPT ![n] = "off"]
    /\ stats' = [stats EXCEPT ![n] = NoStats]
    /\ eventCount' = [eventCount EXCEPT ![n] = NoCounts]
    /\ handler' = [handler EXCEPT ![n] = [h \in Handlers |-> NoId]]
    /\ read' = [read EXCEPT ![n] = {}]
    /\ counted' = [counted EXCEPT ![n] = {}]
    /\ failed' = [failed EXCEPT ![n] = FALSE]
    /\ UNCHANGED <<table, own>>

\* Something fails that the collector does not notice.
FaultElsewhere ==
    /\ Fault
    /\ UNCHANGED <<table, proc, queue, collector, handler, own>>

-------------------------------------------------------------------------------
Collector(n) ==
    \/ TakeJob(n) \/ StopCollector(n) \/ GetStats(n) \/ GetStatsFails(n)
    \/ \E type \in Types : SetGauge(n, type)
    \/ GatherReturns(n)

Next ==
    \/ \E n \in Nodes :
          \/ StartMetricsCollection(n) \/ Collector(n) \/ Tick(n)
          \/ Enqueue(n)
          \/ Cancel(n) \/ Crash(n)
          \/ \E h \in Handlers :
                \/ Announce(n, h)
                \/ \E id \in Ids, row \in NewRows : StoreEvent(n, h, id, row)
    \/ \E id \in Ids, row \in NewRows : StoreElsewhere(id, row)
    \/ FaultElsewhere

Spec == Init /\ [][Next]_vars

\* The scheduler runs every goroutine, and the process is (re)started when it
\* is down.  The timer is an assumption of the property that needs it.
Fairness == \A n \in Nodes :
    /\ WF_vars(StartMetricsCollection(n))
    /\ WF_vars(Collector(n))
    /\ \A h \in Handlers : WF_vars(Announce(n, h))

FairSpec == Spec /\ Fairness

-------------------------------------------------------------------------------
\* Every variable has its type, and a collector that is down has no state.
TypeOK ==
    /\ table \in Table
    /\ proc \in [Nodes -> {"down", "up", "cancelled"}]
    /\ queue \in [Nodes -> BOOLEAN]
    /\ pc \in [Nodes -> {"off", "select", "gather", "publish"}]
    /\ DOMAIN stats = Nodes
    /\ eventCount \in [Nodes -> [Types -> Nat]]
    /\ handler \in [Nodes -> [Handlers -> Ids \cup {NoId}]]
    /\ faults \in 0 .. MaxFaults
    /\ own \in [Nodes -> SUBSET Ids]
    /\ read \in [Nodes -> SUBSET Ids]
    /\ counted \in [Nodes -> SUBSET Ids]
    /\ failed \in [Nodes -> BOOLEAN]
    /\ \A n \in Nodes :
          /\ DOMAIN stats[n] \subseteq Types
          /\ stats[n] \in [DOMAIN stats[n] -> Nat]
          /\ own[n] \cup read[n] \cup counted[n] \subseteq Stored(table)
          /\ pc[n] = "publish" => counted[n] \subseteq read[n]
          /\ proc[n] = "down" =>
                /\ pc[n] = "off" /\ ~ queue[n]
                /\ \A h \in Handlers : handler[n][h] = NoId

\* No event of a process is missing from its gauges unless something will
\* still make the collector count it: a token in the queue, a gathering that
\* has not read the database yet or has read the event, or the handler that
\* is about to announce it.  Only a failed GetStats loses the wake-up.
NoLostWakeup ==
    \A n \in Nodes : proc[n] = "up" => \A id \in own[n] :
        \/ id \in counted[n]
        \/ queue[n]
        \/ pc[n] = "gather"
        \/ pc[n] = "publish" /\ id \in read[n]
        \/ \E h \in Handlers : handler[n][h] = id
        \/ failed[n]

CountOf(ids, type) == Cardinality({id \in ids : table[id].type = type})

\* A scrape of /metrics between two Sets sees new gauges and old ones, but every
\* gauge is the count of a read, whole: of the read being published or of the
\* one published before it.  Between gatherings all gauges are of the same read
\* (also those of types that were absent from its result).
GaugesAreOfARead ==
    \A n \in Nodes, type \in Types :
        \/ eventCount[n][type] = CountOf(counted[n], type)
        \/ pc[n] = "publish" /\ eventCount[n][type] = CountOf(read[n], type)

\* What was scraped is never taken back while the process runs: whatever other
\* events, types and gatherings come between, no gauge ever goes down.
GaugesNeverDrop ==
    [][\A n \in Nodes, type \in Types :
          eventCount'[n][type] >= eventCount[n][type] \/ proc'[n] = "down"]_vars

\* Without a failure of GetStats after it, an event of a running process gets
\* into the gauges of that process, also when no timer ever fires again.
OwnEventsAreCounted ==
    \A n \in Nodes, id \in Ids :
        (/\ faults = MaxFaults
         /\ proc[n] = "up"
         /\ ~ failed[n]
         /\ id \in own[n]) ~> id \in counted[n]

\* Every event in the database gets into the gauges of every running process
\* with a metrics-interval, if its timer fires, whichever process stored it and
\* whatever failed.
AllEventsAreCounted ==
    \A n \in Periodic : WF_vars(Tick(n)) =>
        \A id \in Ids :
            (/\ faults = MaxFaults
             /\ proc[n] = "up"
             /\ id \in Stored(table)) ~> id \in counted[n]
===============================================================================
