------------------------ MODULE MetricsCollector_proofs ------------------------
(***************************************************************************)
(* Theorems about MetricsCollector, for any number of processes, handlers, *)
(* events and faults, with or without a metrics-interval.                  *)
(***************************************************************************)
EXTENDS MetricsCollector, EventStore_proofs, FiniteSetTheorems

-------------------------------------------------------------------------------
(* Type correctness.  GetStats returns numbers because a table that started *)
(* empty holds finitely many rows, so that is part of the invariant.        *)

Inv == TypeOK /\ IsFiniteSet(Stored(table))

\* GetStats of a finite table maps the types it holds to numbers.
LEMMA StatsLemma ==
    ASSUME NEW t \in Table, IsFiniteSet(Stored(t))
    PROVE  /\ DOMAIN Stats(t, 0) = {t[id].type : id \in Stored(t)}
           /\ DOMAIN Stats(t, 0) \subseteq Types
           /\ \A type \in DOMAIN Stats(t, 0) :
                 Stats(t, 0)[type] = Cardinality({id \in Stored(t) : t[id].type = type})
           /\ Stats(t, 0) \in [DOMAIN Stats(t, 0) -> Nat]
<1>. DEFINE dom == {t[id].type : id \in Stored(t)}
            count(type) == Cardinality({id \in Stored(t) : t[id].type = type})
<1>1. Stats(t, 0) = [type \in dom |-> count(type)]
  <2>1. {id \in Stored(t) : 0 # 0 => t[id].created >= 0} = Stored(t)
    OBVIOUS
  <2>. QED
    BY <2>1, Zenon DEF Stats
<1>2. dom \subseteq Types
  BY DEF Stored, Table, Row
<1>3. ASSUME NEW type PROVE count(type) \in Nat
  <2>1. IsFiniteSet({id \in Stored(t) : t[id].type = type})
    BY FS_Subset
  <2>. QED
    BY <2>1, FS_CardinalityType
<1>. HIDE DEF count, dom
<1>4. Stats(t, 0) \in [dom -> Nat] /\ DOMAIN Stats(t, 0) = dom
  BY <1>1, <1>3
<1>5. \A type \in dom : Stats(t, 0)[type] = count(type)
  BY <1>1
<1>. QED
  BY <1>2, <1>4, <1>5 DEF count, dom

LEMMA TypeInit == Init => Inv
<1>1. Stored(EmptyTable) = {}
  BY DEF Stored, EmptyTable
<1>2. Init => IsFiniteSet(Stored(table))
  BY <1>1, FS_EmptySet DEF Init
<1>3. Init => TypeOK
  BY <1>1, BoundsAssumption DEF Init, TypeOK, Table, EmptyTable, NoCounts, NoStats
<1>. QED
  BY <1>2, <1>3 DEF Inv

LEMMA TypeNext == Inv /\ [Next]_vars => Inv'
<1>. SUFFICES ASSUME Inv, [Next]_vars PROVE Inv'
  OBVIOUS
<1>. USE NoIdAssumption, BoundsAssumption DEF Inv, TypeOK, collector
<1>1. ASSUME NEW n \in Nodes, StartMetricsCollection(n) PROVE Inv'
  BY <1>1 DEF StartMetricsCollection, EnqueueGatherMetrics, Stored
<1>2. ASSUME NEW n \in Nodes, TakeJob(n) PROVE Inv'
  BY <1>2 DEF TakeJob, Stored
<1>3. ASSUME NEW n \in Nodes, StopCollector(n) PROVE Inv'
  BY <1>3 DEF StopCollector, Stored
<1>4. ASSUME NEW n \in Nodes, GetStats(n) PROVE Inv'
  <2>. DEFINE result == Stats(table, 0)
  <2>1. DOMAIN result \subseteq Types /\ result \in [DOMAIN result -> Nat]
    BY StatsLemma
  <2>2. stats' = [stats EXCEPT ![n] = result] /\ UNCHANGED table
    BY <1>4 DEF GetStats
  <2>. HIDE DEF result
  <2>3. /\ DOMAIN stats' = Nodes
        /\ \A m \in Nodes : /\ DOMAIN stats'[m] \subseteq Types
                            /\ stats'[m] \in [DOMAIN stats'[m] -> Nat]
    BY <2>1, <2>2
  <2>4. Stored(table) \subseteq Ids
    BY DEF Stored
  <2>. QED
    BY <1>4, <2>3, <2>4 DEF GetStats
<1>5. ASSUME NEW n \in Nodes, GetStatsFails(n) PROVE Inv'
  BY <1>5 DEF GetStatsFails, Fault, Stored
<1>6. ASSUME NEW n \in Nodes, NEW type \in Types, SetGauge(n, type) PROVE Inv'
  <2>. DEFINE rest == [other \in DOMAIN stats[n] \ {type} |-> stats[n][other]]
  <2>1. /\ type \in DOMAIN stats[n]
        /\ eventCount' = [eventCount EXCEPT ![n][type] = stats[n][type]]
        /\ stats' = [stats EXCEPT ![n] = rest]
    BY <1>6 DEF SetGauge
  <2>2. eventCount' \in [Nodes -> [Types -> Nat]]
    BY <2>1
  <2>3. /\ DOMAIN rest \subseteq DOMAIN stats[n]
        /\ rest \in [DOMAIN rest -> Nat]
    OBVIOUS
  <2>. HIDE DEF rest
  <2>4. /\ DOMAIN stats' = Nodes
        /\ \A m \in Nodes : /\ DOMAIN stats'[m] \subseteq Types
                            /\ stats'[m] \in [DOMAIN stats'[m] -> Nat]
    BY <2>1, <2>3
  <2>. QED
    BY <1>6, <2>2, <2>4 DEF SetGauge, Stored
<1>16. ASSUME NEW n \in Nodes, GatherReturns(n) PROVE Inv'
  BY <1>16 DEF GatherReturns, Stored
<1>7. ASSUME NEW n \in Nodes, Tick(n) PROVE Inv'
  BY <1>7 DEF Tick, EnqueueGatherMetrics, Stored
<1>8. ASSUME NEW n \in Nodes, Cancel(n) PROVE Inv'
  BY <1>8 DEF Cancel, Fault, Stored
<1>9. ASSUME NEW n \in Nodes, Crash(n) PROVE Inv'
  BY <1>9 DEF Crash, Fault, NoCounts, NoStats, Stored
<1>10. ASSUME NEW n \in Nodes, NEW h \in Handlers, Announce(n, h) PROVE Inv'
  <2>1. handler' \in [Nodes -> [Handlers -> Ids \cup {NoId}]]
    BY <1>10 DEF Announce
  <2>2. queue' \in [Nodes -> BOOLEAN]
    BY <1>10 DEF Announce, EnqueueGatherMetrics
  <2>3. \A m \in Nodes : queue'[m] => queue[m] \/ proc[m] # "down"
    BY <1>10 DEF Announce, EnqueueGatherMetrics
  <2>. QED
    BY <1>10, <2>1, <2>2, <2>3 DEF Announce, Stored
<1>11. ASSUME NEW n \in Nodes, NEW h \in Handlers, NEW id \in Ids,
              NEW row \in NewRows, StoreEvent(n, h, id, row)
       PROVE Inv'
  <2>1. /\ table' \in Table
        /\ Stored(table') = Stored(table) \cup {id}
    BY <1>11, NewRowsAssumption, InsertLemma DEF StoreEvent
  <2>2. IsFiniteSet(Stored(table'))
    <3>1. IsFiniteSet(Stored(table) \cup {id})
      BY FS_AddElement
    <3>. QED
      BY <2>1, <3>1
  <2>. QED
    BY <1>11, <2>1, <2>2 DEF StoreEvent
<1>12. ASSUME NEW n \in Nodes, Enqueue(n) PROVE Inv'
  BY <1>12 DEF Enqueue, EnqueueGatherMetrics, Stored
<1>13. CASE UNCHANGED vars
  BY <1>13 DEF vars, Stored
<1>14. ASSUME FaultElsewhere PROVE Inv'
  BY <1>14 DEF FaultElsewhere, Fault, Stored
<1>15. ASSUME NEW id \in Ids, NEW row \in NewRows, StoreElsewhere(id, row)
       PROVE Inv'
  <2>1. /\ table' \in Table
        /\ Stored(table') = Stored(table) \cup {id}
    BY <1>15, NewRowsAssumption, InsertLemma DEF StoreElsewhere
  <2>2. IsFiniteSet(Stored(table) \cup {id})
    BY FS_AddElement
  <2>. QED
    BY <1>15, <2>1, <2>2 DEF StoreElsewhere
<1>. QED
  BY <1>1, <1>2, <1>3, <1>4, <1>5, <1>6, <1>7, <1>8, <1>9, <1>10, <1>11, <1>12, <1>13,
     <1>14, <1>15, <1>16
     DEF Next, Collector

\* The variables of the collector and the ghosts about it keep their types.
THEOREM TypeCorrect == Spec => []TypeOK
<1>1. Inv => TypeOK
  BY DEF Inv
<1>. QED
  BY TypeInit, TypeNext, <1>1, PTL DEF Spec

-------------------------------------------------------------------------------
(* No wake-up is lost.  NoLostWakeup speaks of running processes only and   *)
(* is inductive together with the types: a process that starts has a token, *)
(* and a read covers every row, so also the events of the process.          *)

LEMMA WakeupInit == Init => NoLostWakeup
BY DEF Init, NoLostWakeup

LEMMA WakeupNext == Inv /\ NoLostWakeup /\ [Next]_vars => NoLostWakeup'
<1>. SUFFICES ASSUME Inv, NoLostWakeup, [Next]_vars PROVE NoLostWakeup'
  OBVIOUS
<1>. USE NoIdAssumption DEF Inv, TypeOK, NoLostWakeup, collector
<1>1. ASSUME NEW n \in Nodes, StartMetricsCollection(n) PROVE NoLostWakeup'
  BY <1>1 DEF StartMetricsCollection, EnqueueGatherMetrics
<1>2. ASSUME NEW n \in Nodes, TakeJob(n) PROVE NoLostWakeup'
  BY <1>2 DEF TakeJob
<1>3. ASSUME NEW n \in Nodes, StopCollector(n) PROVE NoLostWakeup'
  BY <1>3 DEF StopCollector
<1>4. ASSUME NEW n \in Nodes, GetStats(n) PROVE NoLostWakeup'
  BY <1>4 DEF GetStats
<1>5. ASSUME NEW n \in Nodes, GetStatsFails(n) PROVE NoLostWakeup'
  BY <1>5 DEF GetStatsFails
<1>6. ASSUME NEW n \in Nodes, GatherReturns(n) PROVE NoLostWakeup'
  <2>1. /\ pc[n] = "publish" /\ counted'[n] = read[n]
        /\ \A m \in Nodes \ {n} : pc'[m] = pc[m] /\ counted'[m] = counted[m]
        /\ \A m \in Nodes \ {n} : read'[m] = read[m]
        /\ pc'[n] = "select"
        /\ UNCHANGED <<proc, queue, handler, own, failed>>
    BY <1>6 DEF GatherReturns
  <2>2. ASSUME NEW m \in Nodes, proc[m] = "up", NEW id \in own[m]
        PROVE  \/ id \in counted'[m]
               \/ queue[m]
               \/ pc'[m] = "gather"
               \/ pc'[m] = "publish" /\ id \in read'[m]
               \/ \E h \in Handlers : handler[m][h] = id
               \/ failed[m]
    <3>1. CASE m = n
      BY <2>1, <2>2, <3>1
    <3>2. CASE m # n
      BY <2>1, <2>2, <3>2
    <3>. QED
      BY <3>1, <3>2
  <2>. QED
    BY <2>1, <2>2
<1>7. ASSUME NEW n \in Nodes, Tick(n) PROVE NoLostWakeup'
  BY <1>7 DEF Tick, EnqueueGatherMetrics
<1>8. ASSUME NEW n \in Nodes, Cancel(n) PROVE NoLostWakeup'
  BY <1>8 DEF Cancel
<1>9. ASSUME NEW n \in Nodes, Crash(n) PROVE NoLostWakeup'
  BY <1>9 DEF Crash
<1>10. ASSUME NEW n \in Nodes, NEW h \in Handlers, Announce(n, h)
       PROVE NoLostWakeup'
  BY <1>10 DEF Announce, EnqueueGatherMetrics
<1>11. ASSUME NEW n \in Nodes, NEW h \in Handlers, NEW id \in Ids,
              NEW row \in NewRows, StoreEvent(n, h, id, row)
       PROVE NoLostWakeup'
  BY <1>11 DEF StoreEvent
<1>12. ASSUME NEW n \in Nodes, Enqueue(n) PROVE NoLostWakeup'
  BY <1>12 DEF Enqueue, EnqueueGatherMetrics
<1>13. CASE FaultElsewhere \/ UNCHANGED vars
  BY <1>13 DEF FaultElsewhere, vars
<1>14. ASSUME NEW id \in Ids, NEW row \in NewRows, StoreElsewhere(id, row)
       PROVE NoLostWakeup'
  BY <1>14 DEF StoreElsewhere
<1>15. ASSUME NEW n \in Nodes, NEW type \in Types, SetGauge(n, type)
       PROVE NoLostWakeup'
  BY <1>15 DEF SetGauge
<1>. QED
  BY <1>1, <1>2, <1>3, <1>4, <1>5, <1>6, <1>7, <1>8, <1>9, <1>10, <1>11, <1>12, <1>13,
     <1>14, <1>15
     DEF Next, Collector

\* The channel of capacity 1 loses no request to gather that matters, for any
\* number of concurrent handlers and processes.
THEOREM NoLostWakeupHolds == Spec => []NoLostWakeup
BY TypeInit, TypeNext, WakeupInit, WakeupNext, PTL DEF Spec

-------------------------------------------------------------------------------
(* Each gauge is the count of a read.  Between GetStats and the last Set what *)
(* is left of the result has to stay the counts of the rows that were read,  *)
(* although rows come in.  The gauges still to be set are of the read before; *)
(* the others are of the new one, and so are those of the types it lacks,    *)
(* because the rows counted before are among the rows read.                  *)

OfType(ids, type) == {id \in ids : table[id].type = type}

StatsAreRead(n) ==
    pc[n] = "publish" => \A type \in DOMAIN stats[n] :
        stats[n][type] = Cardinality(OfType(read[n], type))

IsSet(n, type) == pc[n] = "publish" /\ type \notin DOMAIN stats[n]

GaugesAreCounted(n) ==
    \A type \in Types :
        IF IsSet(n, type) THEN eventCount[n][type] = Cardinality(OfType(read[n], type))
        ELSE eventCount[n][type] = Cardinality(OfType(counted[n], type))

Snapshot(n) == StatsAreRead(n) /\ GaugesAreCounted(n)

SnapInv == Inv /\ \A n \in Nodes : Snapshot(n)

LEMMA SnapInit == Init => SnapInv
<1>. SUFFICES ASSUME Init, NEW n \in Nodes PROVE Snapshot(n)
  BY TypeInit DEF SnapInv
<1>1. ASSUME NEW type \in Types PROVE OfType(counted[n], type) = {}
  BY DEF Init, OfType
<1>. QED
  BY <1>1, FS_EmptySet DEF Init, Snapshot, StatsAreRead, GaugesAreCounted, IsSet, NoCounts

\* What a step leaves alone of node n keeps n's part of the invariant.
LEMMA SnapFrame ==
    ASSUME NEW n \in Nodes, Snapshot(n), table' = table,
           counted'[n] = counted[n], eventCount'[n] = eventCount[n],
           read'[n] = read[n], stats'[n] = stats[n],
           pc'[n] = "publish" <=> pc[n] = "publish"
    PROVE  Snapshot(n)'
BY DEF Snapshot, StatsAreRead, GaugesAreCounted, IsSet, OfType

LEMMA SnapNext == SnapInv /\ [Next]_vars => SnapInv'
<1>. SUFFICES ASSUME SnapInv, [Next]_vars, NEW n \in Nodes PROVE Snapshot(n)'
  BY TypeNext DEF SnapInv
<1>. USE DEF SnapInv
<1>t. Inv /\ TypeOK /\ Inv' /\ Snapshot(n)
  BY TypeNext DEF Inv
<1>1. ASSUME NEW m \in Nodes, GetStats(m) PROVE Snapshot(n)'
  <2>1. CASE m # n
    BY <1>1, <1>t, <2>1, SnapFrame DEF GetStats, TypeOK
  <2>2. CASE m = n
    <3>. DEFINE s == Stats(table, 0)
    <3>1. /\ pc[n] = "gather" /\ pc'[n] = "publish"
          /\ stats'[n] = s
          /\ read'[n] = Stored(table)
          /\ UNCHANGED <<table, eventCount, counted>>
      BY <1>1, <1>t, <2>2 DEF GetStats, TypeOK
    <3>2. table \in Table /\ IsFiniteSet(Stored(table)) /\ counted[n] \subseteq Stored(table)
      BY <1>t DEF Inv, TypeOK
    <3>3. /\ DOMAIN s = {table[id].type : id \in Stored(table)}
          /\ \A type \in DOMAIN s :
                s[type] = Cardinality(OfType(Stored(table), type))
      BY <3>2, StatsLemma DEF OfType
    <3>. HIDE DEF s
    <3>4. \A type : /\ OfType(read[n], type)' = OfType(Stored(table), type)
                    /\ OfType(counted[n], type)' = OfType(counted[n], type)
      BY <3>1 DEF OfType
    <3>5. \A type \in Types :
              eventCount[n][type] = Cardinality(OfType(counted[n], type))
      BY <1>t, <3>1 DEF Snapshot, GaugesAreCounted, IsSet
    <3>6. ASSUME NEW type \in Types, type \notin DOMAIN s
          PROVE  OfType(counted[n], type) = {} /\ OfType(Stored(table), type) = {}
      BY <3>2, <3>3, <3>6 DEF OfType
    <3>7. StatsAreRead(n)'
      BY <3>1, <3>3, <3>4 DEF StatsAreRead
    <3>8. ASSUME NEW type \in Types
          PROVE  IF IsSet(n, type)'
                   THEN eventCount'[n][type] = Cardinality(OfType(Stored(table), type))
                   ELSE eventCount'[n][type] = Cardinality(OfType(counted[n], type))
      BY <3>1, <3>5, <3>6 DEF IsSet
    <3>9. GaugesAreCounted(n)'
      BY <3>4, <3>8 DEF GaugesAreCounted
    <3>. QED
      BY <3>7, <3>9 DEF Snapshot
  <2>. QED
    BY <2>1, <2>2
<1>2. ASSUME NEW m \in Nodes, NEW type \in Types, SetGauge(m, type) PROVE Snapshot(n)'
  <2>1. CASE m # n
    BY <1>2, <1>t, <2>1, SnapFrame DEF SetGauge, TypeOK
  <2>2. CASE m = n
    <3>1. /\ pc[n] = "publish" /\ type \in DOMAIN stats[n]
          /\ eventCount'[n] = [eventCount[n] EXCEPT ![type] = stats[n][type]]
          /\ DOMAIN stats'[n] = DOMAIN stats[n] \ {type}
          /\ \A other \in DOMAIN stats'[n] : stats'[n][other] = stats[n][other]
          /\ UNCHANGED <<table, pc, read, counted>>
      BY <1>2, <1>t, <2>2 DEF SetGauge, TypeOK
    <3>2. \A other : /\ OfType(read[n], other)' = OfType(read[n], other)
                     /\ OfType(counted[n], other)' = OfType(counted[n], other)
      BY <3>1 DEF OfType
    <3>3. eventCount[n] \in [Types -> Nat]
      BY <1>t DEF TypeOK
    <3>4. StatsAreRead(n)'
      BY <1>t, <3>1, <3>2 DEF Snapshot, StatsAreRead
    <3>5. ASSUME NEW other \in Types
          PROVE  IF IsSet(n, other)'
                   THEN eventCount'[n][other] = Cardinality(OfType(read[n], other))
                   ELSE eventCount'[n][other] = Cardinality(OfType(counted[n], other))
      <4>1. CASE other = type
        BY <1>t, <3>1, <3>3, <4>1 DEF Snapshot, StatsAreRead, IsSet
      <4>2. CASE other # type
        <5>1. /\ eventCount'[n][other] = eventCount[n][other]
              /\ IsSet(n, other)' <=> IsSet(n, other)
          BY <3>1, <3>3, <4>2 DEF IsSet
        <5>. QED
          BY <1>t, <5>1 DEF Snapshot, GaugesAreCounted
      <4>. QED
        BY <4>1, <4>2
    <3>. QED
      BY <3>2, <3>4, <3>5 DEF Snapshot, GaugesAreCounted
  <2>. QED
    BY <2>1, <2>2
<1>8. ASSUME NEW m \in Nodes, GatherReturns(m) PROVE Snapshot(n)'
  <2>1. CASE m # n
    BY <1>8, <1>t, <2>1, SnapFrame DEF GatherReturns, TypeOK
  <2>2. CASE m = n
    <3>1. /\ pc[n] = "publish" /\ DOMAIN stats[n] = {} /\ pc'[n] = "select"
          /\ counted'[n] = read[n]
          /\ UNCHANGED <<table, eventCount>>
      BY <1>8, <1>t, <2>2 DEF GatherReturns, TypeOK
    <3>2. \A type : OfType(counted[n], type)' = OfType(read[n], type)
      BY <3>1 DEF OfType
    <3>3. \A type \in Types : eventCount[n][type] = Cardinality(OfType(read[n], type))
      BY <1>t, <3>1 DEF Snapshot, GaugesAreCounted, IsSet
    <3>. QED
      BY <3>1, <3>2, <3>3 DEF Snapshot, StatsAreRead, GaugesAreCounted, IsSet
  <2>. QED
    BY <2>1, <2>2
<1>3. ASSUME NEW m \in Nodes, Crash(m) PROVE Snapshot(n)'
  <2>1. CASE m # n
    BY <1>3, <1>t, <2>1, SnapFrame DEF Crash, TypeOK
  <2>2. CASE m = n
    <3>1. /\ pc'[n] = "off" /\ counted'[n] = {} /\ eventCount'[n] = NoCounts
      BY <1>3, <1>t, <2>2 DEF Crash, TypeOK
    <3>2. ASSUME NEW type \in Types PROVE OfType(counted[n], type)' = {}
      BY <3>1 DEF OfType
    <3>. QED
      BY <3>1, <3>2, FS_EmptySet
         DEF Snapshot, StatsAreRead, GaugesAreCounted, IsSet, NoCounts
  <2>. QED
    BY <2>1, <2>2
<1>4. ASSUME NEW id \in Ids, NEW row \in NewRows,
             \/ StoreElsewhere(id, row)
             \/ \E m \in Nodes, h \in Handlers : StoreEvent(m, h, id, row)
      PROVE  Snapshot(n)'
  <2>1. /\ table \in Table
        /\ read[n] \subseteq Stored(table) /\ counted[n] \subseteq Stored(table)
    BY <1>t DEF TypeOK
  <2>2. \A i \in Stored(table) : table'[i] = table[i]
    BY <1>4, <2>1, NewRowsAssumption, InsertLemma DEF StoreEvent, StoreElsewhere
  <2>3. UNCHANGED <<pc, stats, eventCount, read, counted>>
    BY <1>4 DEF StoreEvent, StoreElsewhere, collector
  <2>4. ASSUME NEW type
        PROVE  /\ OfType(read[n], type)' = OfType(read[n], type)
               /\ OfType(counted[n], type)' = OfType(counted[n], type)
    BY <2>1, <2>2, <2>3 DEF OfType
  <2>. QED
    BY <1>t, <2>3, <2>4 DEF Snapshot, StatsAreRead, GaugesAreCounted, IsSet
<1>5. ASSUME NEW m \in Nodes,
             \/ StartMetricsCollection(m) \/ TakeJob(m) \/ StopCollector(m)
             \/ GetStatsFails(m)
      PROVE  Snapshot(n)'
  BY <1>5, <1>t, SnapFrame
     DEF StartMetricsCollection, TakeJob, StopCollector, GetStatsFails, TypeOK
<1>6. ASSUME NEW m \in Nodes,
             \/ Tick(m) \/ Enqueue(m) \/ Cancel(m)
             \/ \E h \in Handlers : Announce(m, h)
      PROVE  Snapshot(n)'
  BY <1>6, <1>t, SnapFrame DEF Tick, Enqueue, Cancel, Announce, collector
<1>7. CASE FaultElsewhere \/ UNCHANGED vars
  BY <1>7, <1>t, SnapFrame DEF FaultElsewhere, vars, collector
<1>. QED
  BY <1>1, <1>2, <1>3, <1>4, <1>5, <1>6, <1>7, <1>8 DEF Next, Collector

\* Whatever is stored while the counts are read and published one by one, and
\* whatever fails in between, every gauge of a process is the count of a whole
\* read, and between gatherings all of them are of the same.
THEOREM GaugesAreOfAReadHolds == Spec => []GaugesAreOfARead
<1>1. SnapInv => GaugesAreOfARead
  BY DEF SnapInv, Snapshot, GaugesAreCounted, IsSet, GaugesAreOfARead, CountOf, OfType
<1>. QED
  BY SnapInit, SnapNext, <1>1, PTL DEF Spec

-------------------------------------------------------------------------------
(* Only Set and a crash change a gauge, and Set replaces a count of the read *)
(* before by one of a read that has all its rows.                            *)

LEMMA NeverDropNext ==
    ASSUME SnapInv, [Next]_vars, NEW n \in Nodes, NEW type \in Types
    PROVE  eventCount'[n][type] >= eventCount[n][type] \/ proc'[n] = "down"
<1>t. TypeOK /\ Snapshot(n) /\ IsFiniteSet(Stored(table))
  BY DEF SnapInv, Inv
<1>1. eventCount[n][type] \in Nat
  BY <1>t DEF TypeOK
<1>2. ASSUME NEW m \in Nodes, NEW other \in Types, SetGauge(m, other)
      PROVE  eventCount'[n][type] >= eventCount[n][type]
  <2>1. CASE m = n /\ other = type
    <3>1. /\ pc[n] = "publish" /\ type \in DOMAIN stats[n]
          /\ eventCount'[n][type] = stats[n][type]
      BY <1>2, <1>t, <2>1 DEF SetGauge, TypeOK
    <3>2. /\ eventCount'[n][type] = Cardinality(OfType(read[n], type))
          /\ eventCount[n][type] = Cardinality(OfType(counted[n], type))
      BY <1>t, <3>1 DEF Snapshot, StatsAreRead, GaugesAreCounted, IsSet
    <3>3. counted[n] \subseteq read[n] /\ read[n] \subseteq Stored(table)
      BY <1>t, <3>1 DEF TypeOK
    <3>4. OfType(counted[n], type) \subseteq OfType(read[n], type)
      BY <3>3 DEF OfType
    <3>5. OfType(read[n], type) \subseteq Stored(table)
      BY <3>3 DEF OfType
    <3>6. IsFiniteSet(OfType(read[n], type))
      BY <1>t, <3>5, FS_Subset
    <3>7. Cardinality(OfType(counted[n], type)) <= Cardinality(OfType(read[n], type))
      BY <3>4, <3>6, FS_Subset
    <3>8. Cardinality(OfType(read[n], type)) \in Nat
      BY <3>6, FS_CardinalityType
    <3>. QED
      BY <1>1, <3>2, <3>7, <3>8
  <2>2. CASE ~ (m = n /\ other = type)
    <3>1. eventCount'[n][type] = eventCount[n][type]
      BY <1>2, <1>t, <2>2 DEF SetGauge, TypeOK
    <3>. QED
      BY <1>1, <3>1
  <2>. QED
    BY <2>1, <2>2
<1>3. ASSUME NEW m \in Nodes, Crash(m)
      PROVE  eventCount'[n][type] >= eventCount[n][type] \/ proc'[n] = "down"
  <2>1. CASE m = n
    BY <1>3, <1>t, <2>1 DEF Crash, TypeOK
  <2>2. CASE m # n
    BY <1>1, <1>3, <1>t, <2>2 DEF Crash, TypeOK
  <2>. QED
    BY <2>1, <2>2
<1>4. ASSUME eventCount' = eventCount PROVE eventCount'[n][type] >= eventCount[n][type]
  BY <1>1, <1>4
<1>5. \/ eventCount' = eventCount
      \/ \E m \in Nodes : Crash(m) \/ \E other \in Types : SetGauge(m, other)
  BY DEF Next, Collector, StartMetricsCollection, TakeJob, StopCollector, GetStats,
     GetStatsFails, GatherReturns, Tick, Enqueue, Cancel, Announce, StoreEvent,
     StoreElsewhere, FaultElsewhere, vars, collector
<1>. QED
  BY <1>2, <1>3, <1>4, <1>5

\* A gauge goes down with its process only, for any number of processes,
\* handlers and events.
THEOREM GaugesNeverDropHolds == Spec => GaugesNeverDrop
<1>1. SnapInv /\ [Next]_vars =>
          \A n \in Nodes, type \in Types :
              eventCount'[n][type] >= eventCount[n][type] \/ proc'[n] = "down"
  BY NeverDropNext
<1>. QED
  BY <1>1, SnapInit, SnapNext, PTL DEF Spec, GaugesNeverDrop
================================================================================
