---------------------------- MODULE Forwarder_proofs ----------------------------
(***************************************************************************)
(* Theorems about Forwarder, for any number of processes, events, faults   *)
(* and replays.                                                            *)
(***************************************************************************)
EXTENDS Forwarder, EventStore_proofs

-------------------------------------------------------------------------------
(* Type correctness.  The lemmas below are about one step each; the three   *)
(* actions that write the table are taken apart from the others.            *)

LEMMA NewRowsAreRows ==
    \A row \in NewRows : row \in Row /\ ~ row.forwarded
BY NewRowsAssumption

LEMMA TypeInit == Init => TypeOK
BY NoIdAssumption, BoundsAssumption
   DEF Init, TypeOK, Table, EmptyTable, Stored, Pcs, InFlight

\* The steps of the goroutine that leave the table alone.
LEMMA TypeWorker ==
    ASSUME TypeOK, NEW n \in Nodes
    PROVE  TakeJob(n) \/ StopForwarder(n) \/ List(n) \/ ListFails(n)
             \/ (\E id \in Ids : SkipUnparsable(n, id) \/ Post(n, id))
             \/ MarkFails(n) \/ FinishPass(n)
           => TypeOK'
<1>. USE NoIdAssumption, BoundsAssumption DEF TypeOK, worker, history, Pcs, InFlight
<1>1. ASSUME TakeJob(n) PROVE TypeOK'
  BY <1>1 DEF TakeJob, Stored
<1>2. ASSUME StopForwarder(n) PROVE TypeOK'
  BY <1>2 DEF StopForwarder, Stored
<1>3. ASSUME List(n) PROVE TypeOK'
  <2>1. Matching(table, NonForwarded) \subseteq Stored(table)
    BY MatchingLemma
  <2>2. Stored(table) \subseteq Ids
    BY DEF Stored
  <2>. QED
    BY <1>3, <2>1, <2>2 DEF List
<1>4. ASSUME ListFails(n) PROVE TypeOK'
  BY <1>4 DEF ListFails, StatementFails, Fault, Stored
<1>5. ASSUME NEW id \in Ids, SkipUnparsable(n, id) PROVE TypeOK'
  BY <1>5 DEF SkipUnparsable, Stored
<1>6. ASSUME NEW id \in Ids, Post(n, id) PROVE TypeOK'
  BY <1>6 DEF Post, Stored
<1>7. ASSUME MarkFails(n) PROVE TypeOK'
  BY <1>7 DEF MarkFails, StatementFails, Fault, Allow, Stored
<1>8. ASSUME FinishPass(n) PROVE TypeOK'
  BY <1>8 DEF FinishPass, Stored
<1>. QED
  BY <1>1, <1>2, <1>3, <1>4, <1>5, <1>6, <1>7, <1>8

\* The steps of the target, of the process and of the collector.
LEMMA TypeOthers ==
    ASSUME TypeOK, NEW n \in Nodes
    PROVE  \/ StartForwarder(n) \/ Target(n) \/ EnqueueGather(n) \/ TakeGather(n)
           \/ Cancel(n) \/ Crash(n)
           => TypeOK'
<1>. USE NoIdAssumption, BoundsAssumption DEF TypeOK, worker, history, Pcs, InFlight
<1>1. ASSUME StartForwarder(n) PROVE TypeOK'
  BY <1>1 DEF StartForwarder, Stored
<1>2. ASSUME Deliver(n) PROVE TypeOK'
  BY <1>2 DEF Deliver, Stored
<1>3. ASSUME Accept(n) PROVE TypeOK'
  BY <1>3 DEF Accept, Stored
<1>4. ASSUME Reject(n) PROVE TypeOK'
  BY <1>4 DEF Reject, Fault, Allow, Stored
<1>5. ASSUME EnqueueGather(n) \/ TakeGather(n) PROVE TypeOK'
  BY <1>5 DEF EnqueueGather, TakeGather, Stored
<1>6. ASSUME Cancel(n) PROVE TypeOK'
  BY <1>6 DEF Cancel, Fault, Stored
<1>7. ASSUME Crash(n) PROVE TypeOK'
  <2>1. allowed' \in [Ids -> Nat]
    BY <1>7 DEF Crash, Allow
  <2>2. faults' \in 0 .. MaxFaults
    BY <1>7 DEF Crash, Fault
  <2>. QED
    BY <1>7, <2>1, <2>2 DEF Crash, Stored
<1>. QED
  BY <1>1, <1>2, <1>3, <1>4, <1>5, <1>6, <1>7 DEF Target

\* The statements that write the table: MarkForwarded, StoreEvent, UpdateEvent.
LEMMA TypeWrites ==
    ASSUME TypeOK
    PROVE  \/ \E n \in Nodes : Mark(n)
           \/ \E id \in Ids : Replay(id) \/ \E row \in NewRows : Store(id, row)
           => TypeOK'
<1>. USE NoIdAssumption, BoundsAssumption DEF TypeOK, worker, history, Pcs, InFlight
<1>1. ASSUME NEW n \in Nodes, Mark(n) PROVE TypeOK'
  <2>1. cur[n] \in Stored(table)
    BY <1>1 DEF Mark
  <2>2. table' \in Table /\ Stored(table') = Stored(table)
    BY <1>1, <2>1, MarkLemma DEF Mark
  <2>. QED
    BY <1>1, <2>2 DEF Mark
<1>2. ASSUME NEW id \in Ids, Replay(id) PROVE TypeOK'
  <2>1. ReplayOf(table[id]) \in Row
    BY <1>2, ReplayRow DEF Replay, Table
  <2>2. table' \in Table /\ Stored(table') = Stored(table)
    BY <1>2, <2>1, UpdateLemma DEF Replay
  <2>. QED
    BY <1>2, <2>2 DEF Replay, Owe, Allow
<1>3. ASSUME NEW id \in Ids, NEW row \in NewRows, Store(id, row) PROVE TypeOK'
  <2>1. table' \in Table /\ Stored(table) \subseteq Stored(table')
    BY <1>3, NewRowsAreRows, InsertLemma DEF Store
  <2>. QED
    BY <1>3, <2>1 DEF Store, Owe, Allow
<1>. QED
  BY <1>1, <1>2, <1>3

\* Every step keeps TypeOK.
LEMMA TypeNext == TypeOK /\ [Next]_vars => TypeOK'
<1>. SUFFICES ASSUME TypeOK, [Next]_vars PROVE TypeOK'
  OBVIOUS
<1>1. CASE FaultElsewhere
  BY <1>1, BoundsAssumption
     DEF FaultElsewhere, Fault, worker, history, TypeOK, Stored, Pcs, InFlight
<1>2. CASE UNCHANGED vars
  BY <1>2 DEF vars, worker, history, TypeOK, Stored, Pcs, InFlight
<1>3. CASE Next
  BY <1>1, <1>3, TypeWorker, TypeOthers, TypeWrites DEF Next, Worker
<1>. QED
  BY <1>2, <1>3

\* The variables have their types, and the goroutine's locals agree with its
\* place in the code, in every reachable state.
THEOREM TypeCorrect == Spec => []TypeOK
<1>. QED
  BY TypeInit, TypeNext, PTL DEF Spec

-------------------------------------------------------------------------------
(* An event is marked only after the target accepted it.  On its own that   *)
(* is not inductive: between Accept and Mark only the local variables of    *)
(* forwardEvent know that the answer was below 400.                         *)

AcceptedInv ==
    /\ TypeOK
    /\ MarkedWasAccepted
    /\ \A n \in Nodes : pc[n] = "mark" => cur[n] \in accepted

LEMMA AcceptedInit == Init => AcceptedInv
BY TypeInit DEF Init, AcceptedInv, MarkedWasAccepted, EmptyTable, Stored

LEMMA AcceptedNext == AcceptedInv /\ [Next]_vars => AcceptedInv'
<1>. SUFFICES ASSUME AcceptedInv, [Next]_vars PROVE AcceptedInv'
  OBVIOUS
<1>. DEFINE LocalInv == \A n \in Nodes : pc[n] = "mark" => cur[n] \in accepted
<1>t. TypeOK /\ TypeOK'
  BY TypeNext DEF AcceptedInv
<1>s. SUFFICES MarkedWasAccepted' /\ LocalInv'
  BY <1>t DEF AcceptedInv
<1>. USE DEF AcceptedInv, MarkedWasAccepted, TypeOK, worker, history
<1>1. ASSUME NEW n \in Nodes, Mark(n) PROVE MarkedWasAccepted' /\ LocalInv'
  <2>1. cur[n] \in Stored(table) /\ cur[n] \in accepted
    BY <1>1, NoIdAssumption DEF Mark, InFlight
  <2>2. /\ Stored(table') = Stored(table)
        /\ \A i \in Ids \ {cur[n]} : table'[i] = table[i]
    BY <1>1, <2>1, MarkLemma DEF Mark
  <2>. QED
    BY <1>1, <2>1, <2>2 DEF Mark, Stored
<1>2. ASSUME NEW id \in Ids, Replay(id) PROVE MarkedWasAccepted' /\ LocalInv'
  <2>1. table[id] \in Row /\ id \in Stored(table)
    BY <1>2 DEF Replay, Table, Stored
  <2>2. /\ Stored(table') = Stored(table)
        /\ \A i \in Ids \ {id} : table'[i] = table[i]
        /\ ~ table'[id].forwarded
    BY <1>2, <2>1, ReplayRow, UpdateLemma DEF Replay
  <2>. QED
    BY <1>2, <2>2 DEF Replay, Stored
<1>3. ASSUME NEW id \in Ids, NEW row \in NewRows, Store(id, row)
      PROVE MarkedWasAccepted' /\ LocalInv'
  <2>1. /\ Stored(table') = Stored(table) \cup {id}
        /\ \A i \in Stored(table) : table'[i] = table[i]
        /\ id \notin Stored(table) => ~ table'[id].forwarded
    BY <1>3, NewRowsAreRows, InsertLemma DEF Store
  <2>. QED
    BY <1>3, <2>1 DEF Store
<1>4. ASSUME UNCHANGED table, accepted \subseteq accepted', LocalInv'
      PROVE MarkedWasAccepted' /\ LocalInv'
  BY <1>4 DEF Stored
<1>5. ASSUME NEW n \in Nodes,
             \/ StartForwarder(n) \/ TakeJob(n) \/ StopForwarder(n) \/ List(n)
             \/ ListFails(n) \/ MarkFails(n) \/ FinishPass(n)
             \/ \E id \in Ids : SkipUnparsable(n, id) \/ Post(n, id)
      PROVE MarkedWasAccepted' /\ LocalInv'
  BY <1>4, <1>5 DEF StartForwarder, TakeJob, StopForwarder, List, ListFails,
     MarkFails, FinishPass, SkipUnparsable, Post
<1>6. ASSUME NEW n \in Nodes,
             \/ Target(n) \/ EnqueueGather(n) \/ TakeGather(n)
             \/ Cancel(n) \/ Crash(n)
      PROVE MarkedWasAccepted' /\ LocalInv'
  BY <1>4, <1>6 DEF Target, Deliver, Accept, Reject, EnqueueGather, TakeGather,
     Cancel, Crash
<1>7. CASE FaultElsewhere \/ UNCHANGED vars
  BY <1>4, <1>7 DEF FaultElsewhere, vars
<1>. QED
  BY <1>1, <1>2, <1>3, <1>5, <1>6, <1>7 DEF Next, Worker

\* Whatever fails, restarts or runs beside it, a forwarder never records as
\* forwarded an event the target has not answered with a status below 400.
THEOREM MarkedWasAcceptedHolds == Spec => []MarkedWasAccepted
<1>1. AcceptedInv => MarkedWasAccepted
  BY DEF AcceptedInv
<1>. QED
  BY AcceptedInit, AcceptedNext, <1>1, PTL DEF Spec

-------------------------------------------------------------------------------
(* No process gives the target an event without a reason.  The count alone  *)
(* is not inductive: a listed event must still have an unused reason when   *)
(* its turn comes, and an unforwarded one when it is listed.                *)

Due(n, id) == received[n][id] < allowed[id]

Answering(n) == pc[n] \in {"arrived", "mark"}

NodeInv(n) ==
    /\ \A id \in todo[n] : Due(n, id)
    /\ pc[n] = "posted" => Due(n, cur[n])
    /\ cur[n] \notin todo[n]
    /\ \A id \in Stored(table) :
          \/ table[id].forwarded
          \/ Due(n, id)
          \/ Answering(n) /\ cur[n] = id

DuplicateInv == NoSpuriousDuplicate /\ \A n \in Nodes : NodeInv(n)

LEMMA DuplicateInit == Init => DuplicateInv
BY NoIdAssumption DEF Init, DuplicateInv, NodeInv, NoSpuriousDuplicate, EmptyTable, Stored

\* The steps that neither list, nor write the table, nor count.
LEMMA DuplicateQuiet ==
    ASSUME TypeOK, DuplicateInv, NEW n \in Nodes
    PROVE  StartForwarder(n) \/ TakeJob(n) \/ StopForwarder(n) \/ ListFails(n)
             \/ (\E id \in Ids : SkipUnparsable(n, id) \/ Post(n, id))
             \/ FinishPass(n) \/ Accept(n) \/ EnqueueGather(n) \/ TakeGather(n)
             \/ Cancel(n)
           => DuplicateInv'
<1>. USE NoIdAssumption DEF TypeOK, DuplicateInv, NodeInv, NoSpuriousDuplicate, Due,
     Answering, InFlight, Pcs, worker, history, Stored
<1>1. ASSUME StartForwarder(n) PROVE DuplicateInv'
  BY <1>1 DEF StartForwarder
<1>2. ASSUME TakeJob(n) PROVE DuplicateInv'
  BY <1>2 DEF TakeJob
<1>3. ASSUME StopForwarder(n) PROVE DuplicateInv'
  BY <1>3 DEF StopForwarder
<1>4. ASSUME ListFails(n) PROVE DuplicateInv'
  BY <1>4 DEF ListFails
<1>5. ASSUME NEW id \in Ids, SkipUnparsable(n, id) PROVE DuplicateInv'
  BY <1>5 DEF SkipUnparsable
<1>6. ASSUME NEW id \in Ids, Post(n, id) PROVE DuplicateInv'
  BY <1>6 DEF Post
<1>7. ASSUME FinishPass(n) PROVE DuplicateInv'
  BY <1>7 DEF FinishPass
<1>8. ASSUME Accept(n) PROVE DuplicateInv'
  BY <1>8 DEF Accept
<1>9. ASSUME EnqueueGather(n) \/ TakeGather(n) \/ Cancel(n) PROVE DuplicateInv'
  BY <1>9 DEF EnqueueGather, TakeGather, Cancel
<1>. QED
  BY <1>1, <1>2, <1>3, <1>4, <1>5, <1>6, <1>7, <1>8, <1>9

\* The steps that list or count.
LEMMA DuplicateCounts ==
    ASSUME TypeOK, DuplicateInv, NEW n \in Nodes
    PROVE  List(n) \/ Deliver(n) \/ Reject(n) \/ MarkFails(n) \/ Crash(n)
           => DuplicateInv'
<1>. USE NoIdAssumption DEF TypeOK, DuplicateInv, NodeInv, NoSpuriousDuplicate, Due,
     Answering, InFlight, Pcs, worker, history, Stored
<1>1. ASSUME List(n) PROVE DuplicateInv'
  <2>1. \A id \in Matching(table, NonForwarded) :
           id \in Stored(table) /\ ~ table[id].forwarded
    BY MatchingLemma
  <2>2. ~ Answering(n)
    BY <1>1 DEF List
  <2>3. \A id \in Matching(table, NonForwarded) : Due(n, id)
    BY <2>1, <2>2
  <2>4. NoId \notin Matching(table, NonForwarded)
    BY <2>1
  <2>5. cur[n] = NoId
    BY <1>1 DEF List
  <2>. QED
    BY <1>1, <2>3, <2>4, <2>5 DEF List
<1>2. ASSUME Deliver(n) PROVE DuplicateInv'
  BY <1>2 DEF Deliver
<1>3. ASSUME Reject(n) \/ MarkFails(n) \/ Crash(n) PROVE DuplicateInv'
  <2>1. /\ \A m \in Nodes, id \in Ids : Due(m, id) => Due(m, id)'
        /\ NoSpuriousDuplicate'
        /\ \A id \in Ids : Answering(n) /\ cur[n] = id => Due(n, id)'
    <3>1. CASE Answering(n)
      <4>1. cur[n] \in Ids /\ Allow(cur[n]) /\ UNCHANGED received
        BY <1>3, <3>1 DEF Reject, MarkFails, Crash
      <4>. QED
        BY <4>1 DEF Allow
    <3>2. CASE ~ Answering(n)
      <4>1. UNCHANGED <<received, allowed>>
        BY <1>3, <3>2 DEF Reject, MarkFails, Crash
      <4>. QED
        BY <3>2, <4>1
    <3>. QED
      BY <3>1, <3>2
  <2>2. /\ UNCHANGED table
        /\ ~ Answering(n)' /\ pc'[n] # "posted"
        /\ cur'[n] = NoId /\ todo'[n] \subseteq todo[n]
        /\ \A m \in Nodes \ {n} : pc'[m] = pc[m] /\ cur'[m] = cur[m] /\ todo'[m] = todo[m]
    BY <1>3 DEF Reject, MarkFails, Crash
  <2>. HIDE DEF Due, NoSpuriousDuplicate
  <2>3. ASSUME NEW m \in Nodes PROVE NodeInv(m)'
    <3>1. CASE m = n
      BY <2>1, <2>2, <3>1
    <3>2. CASE m # n
      BY <2>1, <2>2, <3>2
    <3>. QED
      BY <3>1, <3>2
  <2>. QED
    BY <2>1, <2>3
<1>. QED
  BY <1>1, <1>2, <1>3

\* The statements that write the table.
LEMMA DuplicateWrites ==
    ASSUME TypeOK, DuplicateInv
    PROVE  \/ \E n \in Nodes : Mark(n)
           \/ \E id \in Ids : Replay(id) \/ \E row \in NewRows : Store(id, row)
           => DuplicateInv'
<1>. USE NoIdAssumption DEF TypeOK, DuplicateInv, NodeInv, Answering, InFlight,
     worker, history
<1>1. ASSUME NEW n \in Nodes, Mark(n) PROVE DuplicateInv'
  <2>1. cur[n] \in Stored(table)
    BY <1>1 DEF Mark
  <2>2. /\ Stored(table') = Stored(table)
        /\ \A i \in Ids \ {cur[n]} : table'[i] = table[i]
        /\ table'[cur[n]].forwarded
    BY <1>1, <2>1, MarkLemma DEF Mark
  <2>3. /\ \A m \in Nodes, id \in Ids : Due(m, id) => Due(m, id)'
        /\ NoSpuriousDuplicate'
    BY <1>1 DEF Mark, Due, NoSpuriousDuplicate
  <2>4. /\ pc[n] = "mark" /\ pc'[n] = "loop" /\ cur'[n] = NoId
        /\ UNCHANGED todo
        /\ \A m \in Nodes \ {n} : pc'[m] = pc[m] /\ cur'[m] = cur[m]
    BY <1>1 DEF Mark
  <2>5. Stored(table) \subseteq Ids
    BY DEF Stored
  <2>6. ASSUME NEW m \in Nodes PROVE NodeInv(m)'
    <3>1. CASE m = n
      BY <2>1, <2>2, <2>3, <2>4, <2>5, <3>1
    <3>2. CASE m # n
      BY <2>1, <2>2, <2>3, <2>4, <2>5, <3>2
    <3>. QED
      BY <3>1, <3>2
  <2>. QED
    BY <2>3, <2>6
<1>2. ASSUME NEW id \in Ids, Replay(id) PROVE DuplicateInv'
  <2>1. table[id] \in Row /\ id \in Stored(table)
    BY <1>2 DEF Replay, Table, Stored
  <2>2. /\ Stored(table') = Stored(table)
        /\ \A i \in Ids \ {id} : table'[i] = table[i]
    BY <1>2, <2>1, ReplayRow, UpdateLemma DEF Replay
  <2>3. /\ \A m \in Nodes, i \in Ids : Due(m, i) => Due(m, i)'
        /\ \A m \in Nodes : Due(m, id)'
        /\ NoSpuriousDuplicate'
    BY <1>2 DEF Replay, Owe, Allow, Due, NoSpuriousDuplicate
  <2>. QED
    BY <1>2, <2>2, <2>3 DEF Replay, Stored
<1>3. ASSUME NEW id \in Ids, NEW row \in NewRows, Store(id, row)
      PROVE DuplicateInv'
  <2>1. /\ Stored(table') = Stored(table) \cup {id}
        /\ \A i \in Stored(table) : table'[i] = table[i]
    BY <1>3, NewRowsAreRows, InsertLemma DEF Store
  <2>2. /\ \A m \in Nodes, i \in Ids : Due(m, i) => Due(m, i)'
        /\ id \notin Stored(table) => \A m \in Nodes : Due(m, id)'
        /\ NoSpuriousDuplicate'
    <3>. USE DEF Due, NoSpuriousDuplicate
    <3>1. CASE table[id] = NoRow
      <4>1. Allow(id) /\ UNCHANGED received
        BY <1>3, <3>1 DEF Store, Owe
      <4>. QED
        BY <4>1 DEF Allow
    <3>2. CASE table[id] # NoRow
      <4>1. UNCHANGED <<received, allowed>> /\ id \in Stored(table)
        BY <1>3, <3>2 DEF Store, Stored
      <4>. QED
        BY <4>1
    <3>. QED
      BY <3>1, <3>2
  <2>3. pc' = pc /\ todo' = todo /\ cur' = cur
    BY <1>3 DEF Store
  <2>4. Stored(table) \subseteq Ids
    BY DEF Stored
  <2>5. ASSUME NEW m \in Nodes PROVE NodeInv(m)'
    <3>1. ASSUME NEW i \in todo'[m] PROVE Due(m, i)'
      BY <2>2, <2>3
    <3>2. pc'[m] = "posted" => Due(m, cur[m])'
      BY <2>2, <2>3 DEF Due
    <3>3. ASSUME NEW i \in Stored(table')
          PROVE  \/ table'[i].forwarded
                 \/ Due(m, i)'
                 \/ Answering(m)' /\ cur'[m] = i
      BY <2>1, <2>2, <2>3, <2>4
    <3>. QED
      BY <2>3, <3>1, <3>2, <3>3
  <2>. QED
    BY <2>2, <2>5
<1>. QED
  BY <1>1, <1>2, <1>3

LEMMA DuplicateNext ==
    ASSUME TypeOK, DuplicateInv, [Next]_vars
    PROVE  DuplicateInv'
<1>1. CASE FaultElsewhere \/ UNCHANGED vars
  BY <1>1 DEF FaultElsewhere, vars, worker, history, DuplicateInv, NodeInv,
     NoSpuriousDuplicate, Due, Answering, Stored
<1>2. CASE Next
  BY <1>1, <1>2, DuplicateQuiet, DuplicateCounts, DuplicateWrites
     DEF Next, Worker, Target
<1>. QED
  BY <1>1, <1>2

\* A process gives the target an event again only after a replay, or after an
\* attempt hubproxy could not record as successful, whatever the others do.
THEOREM NoSpuriousDuplicateHolds == Spec => []NoSpuriousDuplicate
<1>1. DuplicateInv => NoSpuriousDuplicate
  BY DEF DuplicateInv
<1>2. TypeOK /\ DuplicateInv /\ [Next]_vars => DuplicateInv'
  BY DuplicateNext
<1>. QED
  BY DuplicateInit, <1>1, <1>2, TypeCorrect, PTL DEF Spec

-------------------------------------------------------------------------------
(* The forwarders implement the delivery log.  What is accepted, or lost,   *)
(* must have been given, so the invariant also says that a request the      *)
(* target has is counted in received.                                       *)

GivenInv == \A n \in Nodes : Answering(n) => received[n][cur[n]] > 0

LogInv == AcceptedInv /\ DuplicateInv /\ GivenInv

LEMMA GivenNext ==
    ASSUME TypeOK, GivenInv, [Next]_vars
    PROVE  GivenInv'
<1>. USE DEF GivenInv, Answering, TypeOK, InFlight, worker, history
<1>1. ASSUME UNCHANGED received,
             \A n \in Nodes : Answering(n)' => Answering(n) /\ cur'[n] = cur[n]
      PROVE  GivenInv'
  BY <1>1
<1>2. ASSUME NEW n \in Nodes, Deliver(n) PROVE GivenInv'
  <2>1. cur[n] \in Ids
    BY <1>2, NoIdAssumption DEF Deliver
  <2>2. /\ received'[n][cur[n]] = received[n][cur[n]] + 1
        /\ \A m \in Nodes \ {n} : received'[m] = received[m]
        /\ cur' = cur /\ \A m \in Nodes \ {n} : pc'[m] = pc[m]
    BY <1>2, <2>1 DEF Deliver
  <2>. QED
    BY <2>1, <2>2
<1>3. ASSUME NEW n \in Nodes,
             \/ StartForwarder(n) \/ TakeJob(n) \/ StopForwarder(n) \/ List(n)
             \/ ListFails(n) \/ MarkFails(n) \/ FinishPass(n) \/ Mark(n)
             \/ \E id \in Ids : SkipUnparsable(n, id) \/ Post(n, id)
      PROVE  GivenInv'
  BY <1>1, <1>3 DEF StartForwarder, TakeJob, StopForwarder, List, ListFails,
     MarkFails, FinishPass, Mark, SkipUnparsable, Post
<1>4. ASSUME NEW n \in Nodes,
             \/ Accept(n) \/ Reject(n) \/ EnqueueGather(n) \/ TakeGather(n)
             \/ Cancel(n) \/ Crash(n)
      PROVE  GivenInv'
  BY <1>1, <1>4 DEF Accept, Reject, EnqueueGather, TakeGather, Cancel, Crash
<1>5. CASE FaultElsewhere \/ UNCHANGED vars
  BY <1>1, <1>5 DEF FaultElsewhere, vars
<1>6. ASSUME NEW id \in Ids, Replay(id) \/ \E row \in NewRows : Store(id, row)
      PROVE  GivenInv'
  BY <1>1, <1>6 DEF Replay, Store
<1>. QED
  BY <1>2, <1>3, <1>4, <1>5, <1>6 DEF Next, Worker, Target

LEMMA LogInit == Init => LogInv /\ DL!Init
<1>1. Init => GivenInv
  BY DEF Init, GivenInv, Answering
<1>2. Init => DL!Init
  BY DEF Init, DL!Init, Credit, Given, Recorded, EmptyTable, Stored
<1>. QED
  BY <1>1, <1>2, AcceptedInit, DuplicateInit DEF LogInv

LEMMA LogNext == LogInv /\ [Next]_vars => LogInv'
BY AcceptedNext, DuplicateNext, GivenNext DEF LogInv, AcceptedInv

\* What a step leaves alone of the log.
LEMMA LogSame ==
    /\ UNCHANGED <<received, allowed>> => UNCHANGED Credit
    /\ UNCHANGED received => UNCHANGED Given
    /\ UNCHANGED table => UNCHANGED <<Stored(table), Recorded>>
BY DEF Credit, Given, Recorded, Stored

LEMMA AllowEntitles ==
    ASSUME TypeOK, NEW id \in Ids, Allow(id), UNCHANGED received
    PROVE  DL!Entitle(id)
<1>1. allowed' = [allowed EXCEPT ![id] = allowed[id] + 1]
  BY DEF Allow
<1>2. \A n \in Nodes, i \in Ids : received[n][i] \in Nat /\ allowed[i] \in Nat
  BY DEF TypeOK
<1>3. \A n \in Nodes, i \in Ids :
         allowed'[i] - received'[n][i] =
            IF i = id THEN (allowed[i] - received[n][i]) + 1
            ELSE allowed[i] - received[n][i]
  <2>1. \A i \in Ids : allowed'[i] = IF i = id THEN allowed[i] + 1 ELSE allowed[i]
    BY <1>1 DEF TypeOK
  <2>2. received' = received
    OBVIOUS
  <2>. QED
    BY <1>2, <2>1, <2>2
<1>. QED
  BY <1>3 DEF DL!Entitle, Credit

\* The steps of forwardEvent and of the writers, each the step of the log
\* with the same meaning.
LEMMA DeliverGives ==
    ASSUME LogInv, NEW n \in Nodes, Deliver(n)
    PROVE  DL!Next
<1>. DEFINE id == cur[n]
<1>1. TypeOK /\ id \in Ids /\ id \in Stored(table)
  BY NoIdAssumption DEF LogInv, AcceptedInv, TypeOK, Deliver, InFlight
<1>2. Due(n, id)
  BY DEF LogInv, DuplicateInv, NodeInv, Deliver
<1>3. /\ received[n][id] \in Nat /\ allowed[id] \in Nat
      /\ received \in [Nodes -> [Ids -> Nat]] /\ allowed \in [Ids -> Nat]
  BY <1>1 DEF TypeOK
<1>4. received' = [received EXCEPT ![n][id] = received[n][id] + 1] /\ UNCHANGED allowed
  BY DEF Deliver
<1>. HIDE DEF id
<1>5. \A m \in Nodes, i \in Ids :
         received'[m][i] = IF m = n /\ i = id THEN received[m][i] + 1 ELSE received[m][i]
  BY <1>1, <1>3, <1>4
<1>6. Credit' = [Credit EXCEPT ![n][id] = Credit[n][id] - 1]
  <2>1. \A m \in Nodes, i \in Ids : received[m][i] \in Nat /\ allowed[i] \in Nat
    BY <1>3
  <2>2. \A m \in Nodes, i \in Ids :
           allowed'[i] - received'[m][i] =
              IF m = n /\ i = id THEN (allowed[i] - received[m][i]) - 1
              ELSE allowed[i] - received[m][i]
    BY <1>4, <1>5, <2>1
  <2>. QED
    BY <1>1, <2>2 DEF Credit
<1>7. Given' = Given \cup {id}
  BY <1>1, <1>3, <1>5 DEF Given
<1>8. Credit[n][id] > 0
  BY <1>1, <1>2, <1>3 DEF Credit, Due
<1>9. UNCHANGED <<Stored(table), accepted, Recorded>>
  BY LogSame DEF Deliver
<1>10. DL!Give(n, id)
  BY <1>1, <1>6, <1>7, <1>8, <1>9 DEF DL!Give
<1>. QED
  BY <1>1, <1>10 DEF DL!Next

\* An event in an attempt the target has answered, or could.
LEMMA AnsweringIsGiven ==
    ASSUME LogInv, NEW n \in Nodes, Answering(n)
    PROVE  TypeOK /\ cur[n] \in Ids \cap Stored(table) /\ cur[n] \in Given
BY NoIdAssumption DEF LogInv, AcceptedInv, TypeOK, GivenInv, Given, Answering, InFlight

LEMMA AcceptAccepts ==
    ASSUME LogInv, NEW n \in Nodes, Accept(n)
    PROVE  DL!Next
<1>1. cur[n] \in Ids /\ cur[n] \in Given
  BY AnsweringIsGiven DEF Accept, Answering
<1>2. UNCHANGED <<Stored(table), Credit, Given, Recorded>>
  BY LogSame DEF Accept
<1>3. DL!Accept(cur[n])
  BY <1>1, <1>2 DEF Accept, DL!Accept
<1>. QED
  BY <1>1, <1>3 DEF DL!Next

LEMMA FailureLoses ==
    ASSUME LogInv, NEW n \in Nodes, Reject(n) \/ MarkFails(n) \/ Crash(n)
    PROVE  DL!Next \/ UNCHANGED DL!vars
<1>1. UNCHANGED <<table, received, accepted>>
  BY DEF Reject, MarkFails, Crash
<1>2. UNCHANGED <<Stored(table), Given, Recorded>>
  BY <1>1, LogSame
<1>3. CASE Answering(n)
  <2>1. TypeOK /\ cur[n] \in Ids /\ cur[n] \in Given
    BY <1>3, AnsweringIsGiven
  <2>2. Allow(cur[n])
    BY <1>3 DEF Reject, MarkFails, Crash, Answering
  <2>3. DL!Lose(cur[n])
    BY <1>1, <1>2, <2>1, <2>2, AllowEntitles DEF DL!Lose
  <2>. QED
    BY <2>1, <2>3 DEF DL!Next
<1>4. CASE ~ Answering(n)
  <2>1. UNCHANGED allowed
    BY <1>4 DEF Reject, MarkFails, Crash, Answering
  <2>. QED
    BY <1>1, <1>2, <2>1, LogSame DEF DL!vars
<1>. QED
  BY <1>3, <1>4

LEMMA MarkRecords ==
    ASSUME LogInv, NEW n \in Nodes, Mark(n)
    PROVE  DL!Next
<1>1. TypeOK /\ cur[n] \in Ids \cap Stored(table) /\ cur[n] \in accepted
  BY AnsweringIsGiven DEF Mark, Answering, LogInv, AcceptedInv
<1>2. /\ Stored(table') = Stored(table)
      /\ \A i \in Ids \ {cur[n]} : table'[i] = table[i]
      /\ table'[cur[n]].forwarded
  BY <1>1, MarkLemma DEF Mark, TypeOK
<1>3. Recorded' = Recorded \cup {cur[n]}
  BY <1>1, <1>2 DEF Recorded, Stored
<1>4. UNCHANGED <<Credit, Given, accepted>>
  BY LogSame DEF Mark, history
<1>5. DL!Record(cur[n])
  BY <1>1, <1>2, <1>3, <1>4 DEF DL!Record
<1>. QED
  BY <1>1, <1>5 DEF DL!Next

LEMMA ReplayReplays ==
    ASSUME LogInv, NEW id \in Ids, Replay(id)
    PROVE  DL!Next
<1>1. TypeOK /\ id \in Stored(table) /\ table[id] \in Row
  BY DEF Replay, LogInv, AcceptedInv, TypeOK, Table, Stored
<1>2. /\ Stored(table') = Stored(table)
      /\ \A i \in Ids \ {id} : table'[i] = table[i]
      /\ ~ table'[id].forwarded
  BY <1>1, ReplayRow, UpdateLemma DEF Replay, TypeOK
<1>3. Recorded' = Recorded \ {id}
  BY <1>1, <1>2 DEF Recorded, Stored
<1>4. DL!Entitle(id) /\ UNCHANGED <<Given, accepted>>
  BY <1>1, AllowEntitles, LogSame DEF Replay, Owe
<1>5. DL!Replay(id)
  BY <1>1, <1>2, <1>3, <1>4 DEF DL!Replay
<1>. QED
  BY <1>5 DEF DL!Next

LEMMA StoreStores ==
    ASSUME LogInv, NEW id \in Ids, NEW row \in NewRows, Store(id, row)
    PROVE  DL!Next \/ UNCHANGED DL!vars
<1>1. TypeOK /\ table \in Table
  BY DEF LogInv, AcceptedInv, TypeOK
<1>2. CASE table[id] = NoRow
  <2>1. /\ id \notin Stored(table)
        /\ Stored(table') = Stored(table) \cup {id}
        /\ \A i \in Stored(table) : table'[i] = table[i]
        /\ ~ table'[id].forwarded
    BY <1>1, <1>2, NewRowsAreRows, InsertLemma DEF Store, Stored
  <2>2. Recorded' = Recorded
    BY <2>1 DEF Recorded
  <2>3. DL!Entitle(id) /\ UNCHANGED <<Given, accepted>>
    BY <1>1, <1>2, AllowEntitles, LogSame DEF Store, Owe
  <2>4. DL!Store(id)
    BY <2>1, <2>2, <2>3 DEF DL!Store
  <2>. QED
    BY <2>4 DEF DL!Next
<1>3. CASE table[id] # NoRow
  <2>1. UNCHANGED <<table, received, allowed, accepted>>
    BY <1>3 DEF Store, Insert
  <2>. QED
    BY <2>1, LogSame DEF DL!vars
<1>. QED
  BY <1>2, <1>3

\* Every run of the forwarders, with whatever crashes, refusals, replays and
\* number of processes, is a run of the delivery log.
THEOREM Implements == Spec => ImplementsDeliveryLog
<1>1. LogInv /\ [Next]_vars => [DL!Next]_(DL!vars)
  <2>. SUFFICES ASSUME LogInv, [Next]_vars PROVE DL!Next \/ UNCHANGED DL!vars
    OBVIOUS
  <2>1. ASSUME UNCHANGED <<table, received, allowed, accepted>>
        PROVE  UNCHANGED DL!vars
    BY <2>1, LogSame DEF DL!vars
  <2>2. ASSUME NEW n \in Nodes,
               \/ StartForwarder(n) \/ TakeJob(n) \/ StopForwarder(n) \/ List(n)
               \/ ListFails(n) \/ FinishPass(n)
               \/ EnqueueGather(n) \/ TakeGather(n) \/ Cancel(n)
               \/ \E id \in Ids : SkipUnparsable(n, id) \/ Post(n, id)
        PROVE  UNCHANGED DL!vars
    BY <2>1, <2>2 DEF StartForwarder, TakeJob, StopForwarder, List, ListFails,
       FinishPass, EnqueueGather, TakeGather, Cancel, SkipUnparsable, Post, history
  <2>3. CASE FaultElsewhere \/ UNCHANGED vars
    BY <2>1, <2>3 DEF FaultElsewhere, vars, history
  <2>. QED
    BY <2>2, <2>3, DeliverGives, AcceptAccepts, FailureLoses, MarkRecords,
       ReplayReplays, StoreStores DEF Next, Worker, Target
<1>. QED
  BY LogInit, LogNext, <1>1, PTL DEF Spec, ImplementsDeliveryLog, DL!Spec
================================================================================
