----------------------------- MODULE Webhook_proofs -----------------------------
(***************************************************************************)
(* Theorems about Webhook, for any number of concurrent requests, address  *)
(* ranges and faults, with and without validate-ip.                        *)
(***************************************************************************)
EXTENDS Webhook, EventStore_proofs

-------------------------------------------------------------------------------
(* Type correctness.  A handler is busy exactly while it has a request, and *)
(* at the end of ServeHTTP exactly when there is an answer.                 *)

LEMMA TypeInit == Init => TypeOK
<1>. SUFFICES ASSUME Init PROVE TypeOK
  OBVIOUS
<1>1. serving \in BOOLEAN /\ gatherQ \in BOOLEAN
  BY Zenon DEF Init
<1>2. table \in Table /\ githubIPs \in RangeSets
  BY RangesAssumption DEF Init, Table, EmptyTable
<1>. QED
  BY <1>1, <1>2, SentinelAssumption, BoundsAssumption DEF Init, TypeOK, Pcs, Statuses

\* The steps of a request, without StoreEvent.
LEMMA TypeHandler ==
    ASSUME TypeOK, NEW h \in Handlers
    PROVE  \/ \E req \in Requests : Receive(h, req)
           \/ CheckMethod(h) \/ ValidateGitHubEvent(h) \/ VerifyBody(h)
           \/ StoreEventFails(h) \/ EnqueueAndAnswer(h) \/ Finish(h) \/ ClientLeaves(h)
           => TypeOK'
<1>. USE SentinelAssumption, RequestsAssumption, RangesAssumption, BoundsAssumption
     DEF TypeOK, Goto, Answer, Fault, Pcs, Statuses, counters, process
<1>1. ASSUME NEW req \in Requests, Receive(h, req) PROVE TypeOK'
  <2>1. req \in Request /\ req # NoRequest
    OBVIOUS
  <2>. QED
    BY <1>1, <2>1 DEF Receive
<1>2. ASSUME CheckMethod(h) PROVE TypeOK'
  BY <1>2 DEF CheckMethod
<1>3. ASSUME ValidateGitHubEvent(h) PROVE TypeOK'
  BY <1>3 DEF ValidateGitHubEvent
<1>4. ASSUME VerifyBody(h) PROVE TypeOK'
  BY <1>4 DEF VerifyBody
<1>5. ASSUME StoreEventFails(h) PROVE TypeOK'
  BY <1>5 DEF StoreEventFails
<1>6. ASSUME EnqueueAndAnswer(h) PROVE TypeOK'
  BY <1>6 DEF EnqueueAndAnswer
<1>7. ASSUME Finish(h) PROVE TypeOK'
  BY <1>7 DEF Finish
<1>8. ASSUME ClientLeaves(h) PROVE TypeOK'
  BY <1>8 DEF ClientLeaves
<1>. QED
  BY <1>1, <1>2, <1>3, <1>4, <1>5, <1>6, <1>7, <1>8

\* What goes on around the handlers without a statement.
LEMMA TypeAround ==
    ASSUME TypeOK
    PROVE  \/ \E ranges \in RangeSets : UpdateRanges(ranges)
           \/ EnqueueGather \/ TakeGather
           \/ Serve \/ Crash \/ FaultElsewhere
           \/ UNCHANGED vars
           => TypeOK'
<1>. USE RangesAssumption, BoundsAssumption
     DEF TypeOK, Fault, Pcs, Statuses, counters, process
<1>1. ASSUME NEW ranges \in RangeSets, UpdateRanges(ranges) PROVE TypeOK'
  BY <1>1 DEF UpdateRanges
<1>2. ASSUME EnqueueGather \/ TakeGather \/ Serve PROVE TypeOK'
  <2>1. serving' \in BOOLEAN /\ gatherQ' \in BOOLEAN
    BY <1>2, Zenon DEF EnqueueGather, TakeGather, Serve
  <2>2. UNCHANGED <<table, githubIPs, pc, request, gone, status, counters,
                    requests, faults, seen, key, origin>>
    BY <1>2 DEF EnqueueGather, TakeGather, Serve
  <2>. QED
    BY <2>1, <2>2
<1>3. ASSUME Crash PROVE TypeOK'
  <2>1. serving' \in BOOLEAN /\ gatherQ' \in BOOLEAN
    BY <1>3, Zenon DEF Crash
  <2>. QED
    BY <1>3, <2>1 DEF Crash
<1>4. ASSUME FaultElsewhere \/ UNCHANGED vars PROVE TypeOK'
  BY <1>4 DEF FaultElsewhere, vars
<1>. QED
  BY <1>1, <1>2, <1>3, <1>4

\* The statements that write the table: the forwarder's and a replay's.
LEMMA TypeOthersWrite ==
    ASSUME TypeOK, NEW id \in Ids, ForwarderMarks(id) \/ Replay(id)
    PROVE  /\ TypeOK'
           /\ Stored(table') = Stored(table)
           /\ \A i \in Ids \ {id} : table'[i] = table[i]
           /\ id \in Stored(table) /\ table[id] \in Row
           /\ table'[id] \in {[table[id] EXCEPT !.forwarded = TRUE],
                              ReplayOf(table[id])}
<1>1. table \in Table /\ id \in Stored(table) /\ table[id] \in Row
  BY DEF TypeOK, ForwarderMarks, Replay, Stored, Table
<1>2. /\ table' \in Table
      /\ Stored(table') = Stored(table)
      /\ \A i \in Ids \ {id} : table'[i] = table[i]
      /\ table'[id] \in {[table[id] EXCEPT !.forwarded = TRUE], ReplayOf(table[id])}
  <2>1. CASE ForwarderMarks(id)
    <3>1. table' = MarkForwarded(table, id)
      BY <2>1 DEF ForwarderMarks
    <3>2. MarkForwarded(table, id)[id] = [table[id] EXCEPT !.forwarded = TRUE]
      BY <1>1 DEF MarkForwarded, Table
    <3>. QED
      BY <1>1, <3>1, <3>2, MarkLemma
  <2>2. CASE Replay(id)
    BY <1>1, <2>2, ReplayRow, UpdateLemma DEF Replay
  <2>. QED
    BY <2>1, <2>2
<1>3. UNCHANGED <<process, gatherQ, pc, request, gone, status, counters,
                  requests, faults, seen, key, origin>>
  BY DEF ForwarderMarks, Replay
<1>. QED
  BY <1>1, <1>2, <1>3 DEF TypeOK, process, counters, Pcs, Statuses

\* StoreEvent writes a row.
LEMMA TypeStore ==
    ASSUME TypeOK, NEW h \in Handlers, NEW id \in Ids, NEW created \in Times,
           Valid(request[h], seen[h]),
           StoreEvent(h, id, created)
    PROVE  /\ TypeOK'
           /\ Stored(table') = Stored(table) \cup {id}
           /\ \A i \in Stored(table) : table'[i] = table[i]
           /\ id \notin Stored(table) => table'[id] = EventOf(request[h], created)
<1>. DEFINE row == EventOf(request[h], created)
<1>1. request[h] \in Request
  BY DEF TypeOK, StoreEvent
<1>2. row \in Row
  BY <1>1 DEF EventOf, Row, Request, Valid
<1>3. table' = Insert(table, id, row)
  BY DEF StoreEvent
<1>4. [request |-> request[h], ranges |-> seen[h]] \in Origin
  BY <1>1 DEF Origin, TypeOK
<1>. DEFINE from == [request |-> request[h], ranges |-> seen[h]]
<1>. HIDE DEF row, from
<1>5. origin' = origin \/ origin' = [origin EXCEPT ![id] = from]
  BY DEF StoreEvent, from
<1>6. from \in Origin
  BY <1>4 DEF from
<1>7. table \in Table
  BY DEF TypeOK
<1>8. /\ table' \in Table
      /\ Stored(table') = Stored(table) \cup {id}
      /\ \A i \in Stored(table) : table'[i] = table[i]
      /\ id \notin Stored(table) => table'[id] = row
  BY <1>2, <1>3, <1>7, InsertLemma
<1>9. TypeOK'
  <2>1. origin' \in [Ids -> Origin \cup {NoRequest}]
    BY <1>5, <1>6 DEF TypeOK
  <2>2. /\ pc' = [pc EXCEPT ![h] = "enqueue"] /\ pc[h] = "store"
        /\ key' = [key EXCEPT ![h] = id]
        /\ storedEvents' = storedEvents + 1
        /\ UNCHANGED <<process, gatherQ, request, gone, status, blockedIPs,
                       signatureErrors, requests, faults, seen>>
    BY DEF StoreEvent, Goto
  <2>3. serving' \in BOOLEAN /\ gatherQ' \in BOOLEAN
    BY <2>2 DEF TypeOK, process
  <2>4. pc' \in [Handlers -> Pcs] /\ key' \in [Handlers -> Ids \cup {NoId}]
    <3>1. pc \in [Handlers -> Pcs] /\ key \in [Handlers -> Ids \cup {NoId}]
      BY DEF TypeOK
    <3>. QED
      BY <2>2, <3>1 DEF Pcs
  <2>5. storedEvents' \in Nat
    <3>1. storedEvents \in Nat
      BY DEF TypeOK
    <3>2. storedEvents' = storedEvents + 1
      BY DEF StoreEvent
    <3>. QED
      BY <3>1, <3>2
  <2>6. ASSUME NEW g \in Handlers
        PROVE  /\ pc'[g] = "idle" <=> request'[g] = NoRequest
               /\ pc'[g] = "answered" <=> status'[g] # 0
    BY <2>2 DEF TypeOK
  <2>. QED
    BY <1>8, <2>1, <2>2, <2>3, <2>4, <2>5, <2>6 DEF TypeOK, process
<1>. QED
  BY <1>8, <1>9 DEF row

-------------------------------------------------------------------------------
(* What is in the table was admitted.  The checks are spread over several   *)
(* steps, so the invariant says for each place in ServeHTTP which of them   *)
(* the request being served has passed.  That a row can be made of a        *)
(* request also is one of the checks: TypeOK needs them too.                *)

Passed(h) ==
    /\ pc[h] \in {"validate", "body", "store"} => request[h].method = "POST"
    /\ pc[h] \in {"body", "store"} => Valid(request[h], seen[h])
    /\ pc[h] = "store" => request[h].body /\ request[h].signed

AdmittedInv ==
    /\ TypeOK
    /\ \A h \in Handlers : Passed(h)
    /\ StoredWasAdmitted

LEMMA AdmittedInit == Init => AdmittedInv
BY TypeInit DEF Init, AdmittedInv, Passed, StoredWasAdmitted, EmptyTable, Stored

\* A step that leaves the table and its origins alone and keeps what the
\* requests have passed keeps the invariant.
LEMMA Quiet ==
    ASSUME AdmittedInv, TypeOK', \A h \in Handlers : Passed(h)',
           UNCHANGED <<table, origin>>
    PROVE  AdmittedInv'
BY DEF AdmittedInv, StoredWasAdmitted, Stored

\* The steps of a request, without StoreEvent.
LEMMA AdmittedChecks ==
    ASSUME AdmittedInv, NEW h \in Handlers
    PROVE  \/ \E req \in Requests : Receive(h, req)
           \/ CheckMethod(h) \/ ValidateGitHubEvent(h) \/ VerifyBody(h)
           \/ StoreEventFails(h) \/ EnqueueAndAnswer(h) \/ Finish(h) \/ ClientLeaves(h)
           => AdmittedInv' /\ table' = table
<1>. USE DEF AdmittedInv, TypeOK, Passed, Goto, Answer, Pcs
<1>1. ASSUME NEW req \in Requests, Receive(h, req) PROVE AdmittedInv' /\ table' = table
  <2>1. TypeOK'
    BY <1>1, TypeHandler
  <2>2. ASSUME NEW g \in Handlers PROVE Passed(g)'
    BY <1>1 DEF Receive, Valid
  <2>. QED
    BY <1>1, <2>1, <2>2, Quiet DEF Receive
<1>2. ASSUME CheckMethod(h) PROVE AdmittedInv' /\ table' = table
  <2>1. TypeOK'
    BY <1>2, TypeHandler
  <2>2. ASSUME NEW g \in Handlers PROVE Passed(g)'
    <3>1. UNCHANGED <<request, seen>> /\ pc[h] = "method"
      BY <1>2 DEF CheckMethod
    <3>2. CASE g # h
      <4>1. pc'[g] = pc[g]
        BY <1>2, <3>2 DEF CheckMethod
      <4>. QED
        BY <3>1, <4>1 DEF Valid
    <3>3. CASE g = h
      BY <1>2, <3>1, <3>3 DEF CheckMethod
    <3>. QED
      BY <3>2, <3>3
  <2>. QED
    BY <1>2, <2>1, <2>2, Quiet DEF CheckMethod
<1>3. ASSUME ValidateGitHubEvent(h) PROVE AdmittedInv' /\ table' = table
  <2>1. TypeOK'
    BY <1>3, TypeHandler
  <2>2. /\ UNCHANGED request /\ pc[h] = "validate"
        /\ \A g \in Handlers \ {h} : pc'[g] = pc[g] /\ seen'[g] = seen[g]
        /\ \/ pc'[h] = "answered"
           \/ pc'[h] = "body" /\ Valid(request[h], seen'[h])
    BY <1>3 DEF ValidateGitHubEvent
  <2>3. ASSUME NEW g \in Handlers PROVE Passed(g)'
    BY <2>2 DEF Valid
  <2>. QED
    BY <1>3, <2>1, <2>3, Quiet DEF ValidateGitHubEvent
<1>4. ASSUME VerifyBody(h) PROVE AdmittedInv' /\ table' = table
  <2>1. UNCHANGED <<table, request, seen, origin>>
    BY <1>4 DEF VerifyBody
  <2>2. \A g \in Handlers \ {h} : pc'[g] = pc[g]
    BY <1>4 DEF VerifyBody
  <2>3. /\ pc[h] = "body"
        /\ \/ pc'[h] = "answered"
           \/ pc'[h] = "store" /\ request[h].body /\ request[h].signed
    BY <1>4 DEF VerifyBody
  <2>4. ASSUME NEW g \in Handlers PROVE Passed(g)'
    <3>1. CASE g # h
      BY <2>1, <2>2, <3>1 DEF Valid
    <3>2. CASE g = h
      BY <2>1, <2>3, <3>2 DEF Valid
    <3>. QED
      BY <3>1, <3>2
  <2>5. TypeOK'
    BY <1>4, TypeHandler
  <2>. QED
    BY <2>1, <2>4, <2>5, Quiet
<1>5. ASSUME StoreEventFails(h) \/ EnqueueAndAnswer(h) \/ Finish(h) \/ ClientLeaves(h)
      PROVE  AdmittedInv' /\ table' = table
  <2>1. TypeOK'
    BY <1>5, TypeHandler
  <2>2. ASSUME NEW g \in Handlers PROVE Passed(g)'
    <3>1. /\ pc'[g] = pc[g] /\ request'[g] = request[g] /\ seen'[g] = seen[g]
          \/ pc'[g] \in {"enqueue", "answered", "idle"}
      BY <1>5 DEF StoreEventFails, EnqueueAndAnswer, Finish, ClientLeaves
    <3>. QED
      BY <3>1 DEF Valid
  <2>. QED
    BY <1>5, <2>1, <2>2, Quiet
       DEF StoreEventFails, EnqueueAndAnswer, Finish, ClientLeaves
<1>. QED
  BY <1>1, <1>2, <1>3, <1>4, <1>5

\* What goes on around the handlers without a statement.
LEMMA AdmittedAround ==
    ASSUME AdmittedInv
    PROVE  \/ \E ranges \in RangeSets : UpdateRanges(ranges)
           \/ EnqueueGather \/ TakeGather
           \/ Serve \/ Crash \/ FaultElsewhere
           \/ UNCHANGED vars
           => AdmittedInv' /\ table' = table
<1>1. ASSUME NEW ranges \in RangeSets, UpdateRanges(ranges)
      PROVE  \A h \in Handlers : Passed(h)'
  BY <1>1 DEF UpdateRanges, AdmittedInv, Passed, Valid
<1>2. ASSUME EnqueueGather \/ TakeGather \/ Serve \/ FaultElsewhere \/ UNCHANGED vars
      PROVE  \A h \in Handlers : Passed(h)'
  BY <1>2 DEF EnqueueGather, TakeGather, Serve, FaultElsewhere, vars, AdmittedInv,
     Passed, Valid
<1>3. ASSUME Crash PROVE \A h \in Handlers : Passed(h)'
  BY <1>3 DEF Crash, Passed
<1>4. ASSUME \/ \E ranges \in RangeSets : UpdateRanges(ranges)
             \/ EnqueueGather \/ TakeGather
             \/ Serve \/ Crash \/ FaultElsewhere
             \/ UNCHANGED vars
      PROVE  UNCHANGED <<table, origin>>
  BY <1>4 DEF UpdateRanges, EnqueueGather, TakeGather, Serve, Crash, FaultElsewhere, vars
<1>. QED
  BY <1>1, <1>2, <1>3, <1>4, TypeAround, Quiet DEF AdmittedInv

\* The INSERT of a request that has passed every check.
LEMMA AdmittedStore ==
    ASSUME AdmittedInv, NEW h \in Handlers, NEW id \in Ids, NEW created \in Times,
           StoreEvent(h, id, created)
    PROVE  AdmittedInv' /\ \A i \in Stored(table) : table'[i] = table[i]
<1>. DEFINE req == request[h]
            row == EventOf(req, created)
            from == [request |-> req, ranges |-> seen[h]]
<1>1. /\ req \in Request
      /\ Admissible(req, seen[h])
      /\ req.id \in {id, NoId}
  BY DEF StoreEvent, AdmittedInv, TypeOK, Passed, Valid, Admissible, Keys
<1>2. /\ TypeOK'
      /\ Stored(table') = Stored(table) \cup {id}
      /\ \A i \in Stored(table) : table'[i] = table[i]
      /\ id \notin Stored(table) => table'[id] = row
  BY TypeStore DEF AdmittedInv, Passed, StoreEvent
<1>3. /\ row.type = req.type
      /\ row.repository = req.repository
      /\ row.sender = req.sender
  BY DEF EventOf
<1>. HIDE DEF row
<1>4. ASSUME NEW g \in Handlers PROVE Passed(g)'
  BY DEF StoreEvent, Goto, AdmittedInv, TypeOK, Passed, Valid
<1>5. StoredWasAdmitted'
  <2>1. CASE table[id] = NoRow
    <3>1. origin' = [origin EXCEPT ![id] = from]
      BY <2>1 DEF StoreEvent
    <3>2. origin'[id] = from /\ id \notin Stored(table)
      BY <2>1, <3>1 DEF AdmittedInv, TypeOK, Stored
    <3>3. origin'[id] # NoRequest
      <4>1. origin'[id] \in Origin
        BY <1>1, <3>2 DEF Origin, AdmittedInv, TypeOK
      <4>. QED
        BY <4>1, SentinelAssumption
    <3>4. ASSUME NEW i \in Stored(table)
          PROVE  i # id /\ i \in Ids /\ origin'[i] = origin[i] /\ table'[i] = table[i]
      BY <1>2, <3>1, <3>2 DEF Stored, AdmittedInv, TypeOK
    <3>. QED
      BY <1>1, <1>2, <1>3, <3>2, <3>3, <3>4 DEF StoredWasAdmitted, AdmittedInv
  <2>2. CASE table[id] # NoRow
    <3>1. origin' = origin /\ id \in Stored(table)
      BY <2>2 DEF StoreEvent, Stored
    <3>. QED
      BY <1>2, <3>1 DEF StoredWasAdmitted, AdmittedInv
  <2>. QED
    BY <2>1, <2>2
<1>. QED
  BY <1>2, <1>4, <1>5 DEF AdmittedInv

\* The statements of the forwarder and of a replay.
LEMMA AdmittedOthersWrite ==
    ASSUME AdmittedInv, NEW id \in Ids, ForwarderMarks(id) \/ Replay(id)
    PROVE  AdmittedInv'
<1>1. /\ TypeOK'
      /\ Stored(table') = Stored(table)
      /\ \A i \in Ids \ {id} : table'[i] = table[i]
      /\ id \in Stored(table) /\ table[id] \in Row
      /\ table'[id] \in {[table[id] EXCEPT !.forwarded = TRUE], ReplayOf(table[id])}
  BY TypeOthersWrite DEF AdmittedInv
<1>2. /\ table'[id].type = table[id].type
      /\ table'[id].repository = table[id].repository
      /\ table'[id].sender = table[id].sender
  BY <1>1 DEF Row, ReplayOf
<1>3. StoredWasAdmitted'
  <2>1. UNCHANGED origin
    BY DEF ForwarderMarks, Replay
  <2>2. ASSUME NEW i \in Stored(table)
        PROVE  /\ table'[i].type = table[i].type
               /\ table'[i].repository = table[i].repository
               /\ table'[i].sender = table[i].sender
    BY <1>1, <1>2 DEF Stored
  <2>. QED
    BY <1>1, <2>1, <2>2 DEF StoredWasAdmitted, AdmittedInv
<1>4. \A h \in Handlers : Passed(h)'
  BY DEF ForwarderMarks, Replay, AdmittedInv, Passed, Valid
<1>. QED
  BY <1>1, <1>3, <1>4 DEF AdmittedInv

LEMMA AdmittedNext == AdmittedInv /\ [Next]_vars => AdmittedInv'
BY AdmittedChecks, AdmittedAround, AdmittedStore, AdmittedOthersWrite
   DEF Next, ServeHTTP

\* The variables have their types, and a handler has a request exactly while it
\* is busy and a status exactly when it has answered.
THEOREM TypeCorrect == Spec => []TypeOK
<1>1. AdmittedInv => TypeOK
  BY DEF AdmittedInv
<1>. QED
  BY AdmittedInit, AdmittedNext, <1>1, PTL DEF Spec

\* Only what a signed POST from an admitted address said is ever in the table,
\* for any interleaving of requests and of updates of the address ranges.
THEOREM StoredWasAdmittedHolds == Spec => []StoredWasAdmitted
<1>1. AdmittedInv => StoredWasAdmitted
  BY DEF AdmittedInv
<1>. QED
  BY AdmittedInit, AdmittedNext, <1>1, PTL DEF Spec

-------------------------------------------------------------------------------
(* A row that is there is not touched by a later delivery.                  *)

Keeps ==
    \A id \in Stored(table) :
        table'[id] \in {table[id], [table[id] EXCEPT !.forwarded = TRUE],
                       ReplayOf(table[id])}

LEMMA StepKeeps == AdmittedInv /\ [Next]_vars => [Keeps]_vars
<1>. SUFFICES ASSUME AdmittedInv, [Next]_vars PROVE Keeps
  OBVIOUS
<1>1. CASE UNCHANGED table
  BY <1>1 DEF Keeps
<1>2. ASSUME NEW h \in Handlers, NEW id \in Ids, NEW created \in Times,
             StoreEvent(h, id, created)
      PROVE  Keeps
  BY <1>2, AdmittedStore DEF Keeps
<1>3. ASSUME NEW id \in Ids, ForwarderMarks(id) \/ Replay(id) PROVE Keeps
  <2>1. /\ \A i \in Ids \ {id} : table'[i] = table[i]
        /\ table'[id] \in {[table[id] EXCEPT !.forwarded = TRUE], ReplayOf(table[id])}
    BY <1>3, TypeOthersWrite DEF AdmittedInv
  <2>. QED
    BY <2>1 DEF Keeps, Stored
<1>. QED
  BY <1>1, <1>2, <1>3, AdmittedChecks, AdmittedAround DEF Next, ServeHTTP

\* Redelivering an event, once or many times, never changes its row and never
\* makes a forwarded event unforwarded.
THEOREM RowsAreKeptHolds == Spec => RowsAreKept
<1>1. AdmittedInv /\ [Next]_vars => [Keeps]_vars
  BY StepKeeps
<1>2. Spec => [][Keeps]_vars
  BY AdmittedInit, AdmittedNext, <1>1, PTL DEF Spec
<1>. QED
  BY <1>2 DEF RowsAreKept, Keeps
================================================================================
