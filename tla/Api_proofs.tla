------------------------------ MODULE Api_proofs ------------------------------
(***************************************************************************)
(* Theorems about Api, for any number of concurrent requests, of whatever  *)
(* kind, and of events.                                                    *)
(***************************************************************************)
EXTENDS Api, EventStore_proofs, FiniteSetTheorems

-------------------------------------------------------------------------------
(* What the statements that write the table do to the rows that are there.  *)

SameEvent(a, b) ==
    /\ a.type = b.type
    /\ a.repository = b.repository
    /\ a.sender = b.sender
    /\ a.created = b.created
    /\ a.headers = b.headers

Survive(t, u) ==
    \A id \in Stored(t) : /\ id \in Stored(u) /\ SameEvent(u[id], t[id])
                          /\ t[id].replayed => u[id].replayed

\* The marks of the forwarder and of a replay leave the event as it is.
LEMMA MarkedRow ==
    ASSUME NEW row \in Row
    PROVE  /\ SameEvent([row EXCEPT !.forwarded = TRUE], row)
           /\ [row EXCEPT !.forwarded = TRUE].replayed = row.replayed
           /\ SameEvent(ReplayOf(row), row) /\ ReplayOf(row).replayed
BY DEF Row, ReplayOf, SameEvent

LEMMA InsertSurvives ==
    ASSUME NEW t \in Table, NEW id \in Ids, NEW row \in Row
    PROVE  Survive(t, Insert(t, id, row))
BY InsertLemma DEF Survive, SameEvent

LEMMA MarkSurvives ==
    ASSUME NEW t \in Table, NEW id \in Stored(t)
    PROVE  Survive(t, MarkForwarded(t, id))
<1>. DEFINE marked == [t[id] EXCEPT !.forwarded = TRUE]
<1>1. id \in Ids /\ t[id] \in Row
  BY DEF Stored, Table
<1>2. SameEvent(marked, t[id]) /\ marked.replayed = t[id].replayed
  BY <1>1, MarkedRow
<1>3. MarkForwarded(t, id)[id] = marked
  BY <1>1 DEF MarkForwarded, Table
<1>. HIDE DEF marked
<1>4. /\ SameEvent(MarkForwarded(t, id)[id], t[id])
      /\ MarkForwarded(t, id)[id].replayed = t[id].replayed
  BY <1>2, <1>3
<1>. QED
  BY <1>4, MarkLemma DEF Survive, SameEvent, Stored

\* UpdateEvent with a row read earlier: it is harmless if that row still is
\* the event in the table.
LEMMA UpdateSurvives ==
    ASSUME NEW t \in Table, NEW id \in Stored(t), NEW row \in Row,
           SameEvent(row, t[id])
    PROVE  Survive(t, Update(t, id, ReplayOf(row)))
<1>1. id \in Ids /\ ReplayOf(row) \in Row
  BY ReplayRow DEF Stored
<1>2. SameEvent(ReplayOf(row), t[id]) /\ ReplayOf(row).replayed
  BY MarkedRow DEF SameEvent
<1>. QED
  BY <1>1, <1>2, UpdateLemma DEF Survive, SameEvent, Stored

-------------------------------------------------------------------------------
(* A write-back is as old as its read, so the invariant says of every row   *)
(* in the hands of a replayer that it still is the event in the table.      *)

Fresh == \A r \in Replayers : \A id \in DOMAIN events[r] :
            SameEvent(events[r][id], table[id])

\* Before it has read, a replayer has no rows.
Clean == \A r \in Replayers :
            pc[r] \in {"idle", "count", "read"} => DOMAIN events[r] = {}

Inv == TypeOK /\ Fresh /\ Clean

LEMMA InvInit == Init => Inv
BY SentinelAssumption, BoundsAssumption
   DEF Init, Inv, TypeOK, Fresh, Clean, EmptyTable, Table, Stored, NoEvents, Answers

\* As long as the rows survive, those that have been read stay fresh.
LEMMA StaysFresh ==
    ASSUME Inv, Survive(table, table'), UNCHANGED events
    PROVE  Fresh' /\ \A r \in Replayers : DOMAIN events'[r] \subseteq Stored(table')
BY DEF Inv, TypeOK, Fresh, Survive, SameEvent

LEMMA SurviveSelf == ASSUME NEW t PROVE Survive(t, t)
BY DEF Survive, SameEvent

\* What the routers and the argument checks can answer.
LEMMA RefusalType ==
    ASSUME NEW req \in Requests
    PROVE  Refusal(req) \in {"none", "notFound", "badRequest"}
<1>1. CASE req \in RestSingle
  BY <1>1 DEF Refusal, RestSingle
<1>2. CASE req \in GraphqlSingle
  BY <1>2 DEF Refusal, GraphqlSingle
<1>3. CASE req \in ReplayRange
  <2>1. req.kind = "range"
    BY <1>3 DEF ReplayRange
  <2>. QED
    BY <2>1 DEF Refusal
<1>4. CASE req \in Listing
  <2>1. req.kind = "list"
    BY <1>4 DEF Listing
  <2>. QED
    BY <2>1 DEF Refusal
<1>5. CASE req \in Statistics
  <2>1. req.kind = "stats"
    BY <1>5 DEF Statistics
  <2>. QED
    BY <2>1 DEF Refusal
<1>. QED
  BY <1>1, <1>2, <1>3, <1>4, <1>5, RequestsAssumption

LEMMA ReceiveInv ==
    ASSUME Inv, NEW r \in Replayers, NEW req \in Requests, Receive(r, req)
    PROVE  Inv' /\ table' = table
<1>1. Refusal(req) \in Answers
  BY RefusalType DEF Answers
<1>2. req # NoRequest
  BY SentinelAssumption
<1>3. /\ UNCHANGED <<table, events, left, total, written, faults>>
      /\ requests' \in 0 .. MaxRequests
      /\ request' = [request EXCEPT ![r] = req]
      /\ known' \in [Replayers -> SUBSET Ids]
  BY BoundsAssumption DEF Receive, Inv, TypeOK, Stored
<1>4. /\ pc' \in [Replayers -> {"idle", "count", "read", "update", "answered"}]
      /\ answer' \in [Replayers -> Answers]
      /\ \A s \in Replayers \ {r} : pc'[s] = pc[s] /\ answer'[s] = answer[s]
      /\ pc'[r] # "idle" /\ (pc'[r] = "answered" <=> answer'[r] # "none")
      /\ pc'[r] = "count" => req.kind \in {"range", "list"}
      /\ pc'[r] # "update"
  <2>1. CASE Refusal(req) = "none"
    BY <2>1 DEF Receive, Goto, Inv, TypeOK
  <2>2. CASE Refusal(req) # "none"
    BY <1>1, <2>2 DEF Receive, Goto, Answer, Inv, TypeOK
  <2>. QED
    BY <2>1, <2>2
<1>5. pc[r] = "idle" /\ pc'[r] \in {"count", "read", "answered"}
  BY DEF Receive, Goto, Answer, Inv, TypeOK
<1>6. TypeOK'
  <2>1. request'[r] = req /\ \A s \in Replayers \ {r} : request'[s] = request[s]
    BY <1>3 DEF Inv, TypeOK
  <2>2. request' \in [Replayers -> Requests \cup {NoRequest}]
    BY <1>3 DEF Inv, TypeOK
  <2>. QED
    BY <1>2, <1>3, <1>4, <1>5, <2>1, <2>2 DEF Inv, TypeOK
<1>7. Fresh' /\ Clean'
  BY <1>3, <1>4, <1>5 DEF Inv, TypeOK, Fresh, Clean
<1>. QED
  BY <1>3, <1>6, <1>7 DEF Inv

\* The rows that are read are those of the table.
LEMMA ReadInv ==
    ASSUME Inv, NEW r \in Replayers, NEW page \in SUBSET Stored(table),
           pc[r] = "read", Read(r, page),
           UNCHANGED <<table, request, total, requests, faults, written, known>>
    PROVE  Inv'
<1>1. page \subseteq Ids /\ [i \in page |-> table[i]] \in [page -> Row]
  BY DEF Inv, TypeOK, Table, Stored
<1>2. written[r] = {} /\ left[r] = {}
  BY DEF Inv, TypeOK, Clean
<1>. DEFINE rows == [i \in page |-> table[i]]
<1>3. DOMAIN rows = page /\ rows \in [page -> Row]
  BY <1>1
<1>4. \A i \in page : SameEvent(rows[i], table[i])
  BY DEF SameEvent
<1>5. events' = [events EXCEPT ![r] = rows]
  BY DEF Read
<1>. HIDE DEF rows
<1>6. /\ events'[r] = rows
      /\ \A s \in Replayers \ {r} : events'[s] = events[s]
      /\ DOMAIN events' = Replayers
  BY <1>5 DEF Inv, TypeOK
<1>7. /\ left' \in [Replayers -> SUBSET Ids]
      /\ left'[r] \subseteq page \cup left[r]
      /\ \A s \in Replayers \ {r} : left'[s] = left[s]
      /\ pc' \in [Replayers -> {"idle", "count", "read", "update", "answered"}]
      /\ pc'[r] \in {"update", "answered"}
      /\ pc'[r] = "update" => request[r].kind \in {"single", "range"}
      /\ \A s \in Replayers \ {r} : pc'[s] = pc[s]
      /\ answer' \in [Replayers -> Answers]
      /\ pc'[r] = "answered" <=> answer'[r] # "none"
      /\ \A s \in Replayers \ {r} : answer'[s] = answer[s]
  BY <1>1 DEF Read, Goto, Answer, Answers, Inv, TypeOK
<1>8. left[r] = {}
  BY <1>2
<1>9. TypeOK'
  <2>1. ASSUME NEW s \in Replayers
        PROVE  /\ DOMAIN events'[s] \subseteq Stored(table')
               /\ events'[s] \in [DOMAIN events'[s] -> Row]
               /\ left'[s] \cup written'[s] \subseteq DOMAIN events'[s]
               /\ pc'[s] = "idle" <=> request'[s] = NoRequest
               /\ pc'[s] = "answered" <=> answer'[s] # "none"
               /\ pc'[s] = "count" => request'[s].kind \in {"range", "list"}
               /\ pc'[s] = "update" => request'[s].kind \in {"single", "range"}
    <3>1. CASE s = r
      BY <1>2, <1>3, <1>6, <1>7, <1>8, <3>1 DEF Inv, TypeOK
    <3>2. CASE s # r
      BY <1>6, <1>7, <3>2 DEF Inv, TypeOK
    <3>. QED
      BY <3>1, <3>2
  <2>. QED
    BY <1>6, <1>7, <2>1 DEF Inv, TypeOK
<1>10. Fresh' /\ Clean'
  BY <1>3, <1>4, <1>6, <1>7 DEF Inv, TypeOK, Fresh, Clean
<1>. QED
  BY <1>9, <1>10 DEF Inv

\* A step of a replayer that only gets to an answer.
LEMMA AnswerInv ==
    ASSUME Inv, NEW r \in Replayers, pc[r] \in {"count", "read", "update"},
           NEW what \in Answers \ {"none"}, Answer(r, what),
           faults' \in 0 .. MaxFaults,
           UNCHANGED <<table, request, locals, requests>>
    PROVE  Inv'
BY DEF Answer, Goto, locals, Inv, TypeOK, Fresh, Clean

LEMMA GetEventInv ==
    ASSUME Inv, NEW r \in Replayers, GetEvent(r)
    PROVE  Inv' /\ table' = table
<1>. DEFINE id == IdOf(request[r])
<1>1. CASE id \in Stored(table) /\ Read(r, {id})
  BY <1>1, ReadInv DEF GetEvent
<1>2. CASE id \notin Stored(table) /\ Answer(r, "notFound") /\ UNCHANGED <<events, left>>
  <2>1. faults' \in 0 .. MaxFaults
    BY DEF GetEvent, Inv, TypeOK
  <2>. QED
    BY <1>2, <2>1, AnswerInv DEF GetEvent, Answers, locals
<1>. QED
  BY <1>1, <1>2 DEF GetEvent

\* A COUNT is a natural number: the column of the ids has a maximal length.
LEMMA CountType ==
    ASSUME NEW S \in SUBSET Ids
    PROVE  IsFiniteSet(S) /\ Cardinality(S) \in Nat
BY IdsAssumption, FS_Subset, FS_CardinalityType

LEMMA CountEventsInv ==
    ASSUME Inv, NEW r \in Replayers, CountEvents(r)
    PROVE  Inv' /\ table' = table
<1>1. Matching(table, request[r].opts) \in SUBSET Ids
  BY DEF Matching, Stored
<1>2. Cardinality(Matching(table, request[r].opts)) \in Nat
  BY <1>1, CountType
<1>3. total' \in [Replayers -> Nat]
  BY <1>2 DEF CountEvents, Inv, TypeOK
<1>. QED
  BY <1>3 DEF CountEvents, Goto, Inv, TypeOK, Fresh, Clean

LEMMA ListEventsInv ==
    ASSUME Inv, NEW r \in Replayers, ListEvents(r)
    PROVE  Inv' /\ table' = table
<1>. DEFINE all == Matching(table, request[r].opts)
<1>1. all \subseteq Stored(table)
  BY DEF Matching
<1>2. faults' \in 0 .. MaxFaults
  BY DEF ListEvents, Inv, TypeOK
<1>3. CASE Answer(r, "error") /\ UNCHANGED <<events, left>>
  BY <1>2, <1>3, AnswerInv DEF ListEvents, Answers, locals
<1>4. CASE Answer(r, "notFound") /\ UNCHANGED <<events, left>>
  BY <1>2, <1>4, AnswerInv DEF ListEvents, Answers, locals
<1>5. ASSUME NEW page \in SUBSET all, Read(r, page)
      PROVE  Inv' /\ table' = table
  BY <1>1, <1>5, ReadInv DEF ListEvents
<1>. QED
  BY <1>3, <1>4, <1>5 DEF ListEvents

LEMMA GetStatsInv ==
    ASSUME Inv, NEW r \in Replayers, GetStats(r)
    PROVE  Inv' /\ table' = table
<1>1. faults' \in 0 .. MaxFaults
  BY DEF GetStats, Inv, TypeOK
<1>. QED
  BY <1>1, AnswerInv DEF GetStats, Answers

LEMMA UpdateEventInv ==
    ASSUME Inv, NEW r \in Replayers, NEW id \in Ids, UpdateEvent(r, id)
    PROVE  Inv' /\ Survive(table, table')
<1>1. /\ id \in DOMAIN events[r] /\ id \in Stored(table)
      /\ events[r][id] \in Row
      /\ SameEvent(events[r][id], table[id])
  BY DEF UpdateEvent, Inv, TypeOK, Fresh
<1>2. table \in Table /\ table' = Update(table, id, ReplayOf(events[r][id]))
  BY DEF UpdateEvent, Inv, TypeOK
<1>3. table' \in Table /\ Survive(table, table')
  BY <1>1, <1>2, ReplayRow, UpdateLemma, UpdateSurvives
<1>4. Fresh' /\ \A s \in Replayers : DOMAIN events'[s] \subseteq Stored(table')
  BY <1>3, StaysFresh DEF UpdateEvent
<1>5. /\ left' \in [Replayers -> SUBSET Ids]
      /\ written' \in [Replayers -> SUBSET Ids]
      /\ \A s \in Replayers : left'[s] \cup written'[s] \subseteq DOMAIN events'[s]
  BY <1>1 DEF UpdateEvent, Inv, TypeOK
<1>6. UNCHANGED <<pc, request, events, total, answer, requests, faults, known>>
  BY DEF UpdateEvent
<1>7. Clean'
  BY DEF UpdateEvent, Inv, TypeOK, Clean
<1>8. TypeOK'
  BY <1>3, <1>4, <1>5, <1>6 DEF Inv, TypeOK
<1>. QED
  BY <1>3, <1>4, <1>7, <1>8 DEF Inv

LEMMA StatementFailsInv ==
    ASSUME Inv, NEW r \in Replayers, StatementFails(r)
    PROVE  Inv' /\ table' = table
<1>1. faults' \in 0 .. MaxFaults
  BY BoundsAssumption DEF StatementFails, Fault, Inv, TypeOK
<1>. QED
  BY <1>1, AnswerInv DEF StatementFails, Answers

LEMMA RespondInv ==
    ASSUME Inv, NEW r \in Replayers, Respond(r)
    PROVE  Inv' /\ table' = table
<1>1. faults' \in 0 .. MaxFaults
  BY DEF Respond, Inv, TypeOK
<1>. QED
  BY <1>1, AnswerInv DEF Respond, Answers

LEMMA FinishInv ==
    ASSUME Inv, NEW r \in Replayers, Finish(r)
    PROVE  Inv' /\ table' = table
<1>1. NoEvents \in [{} -> Row] /\ DOMAIN NoEvents = {}
  BY DEF NoEvents
<1>2. Fresh' /\ Clean'
  BY <1>1 DEF Finish, Goto, Inv, TypeOK, Fresh, Clean
<1>3. TypeOK'
  BY <1>1, SentinelAssumption DEF Finish, Goto, Inv, TypeOK, Answers
<1>. QED
  BY <1>2, <1>3 DEF Inv, Finish

LEMMA CrashInv ==
    ASSUME Inv, Crash
    PROVE  Inv' /\ table' = table
<1>1. faults' \in 0 .. MaxFaults
  BY BoundsAssumption DEF Crash, Fault, Inv, TypeOK
<1>2. NoEvents \in [{} -> Row] /\ DOMAIN NoEvents = {}
  BY DEF NoEvents
<1>. QED
  BY <1>1, <1>2, SentinelAssumption DEF Crash, Inv, TypeOK, Fresh, Clean, Answers

LEMMA FaultElsewhereInv ==
    ASSUME Inv, FaultElsewhere
    PROVE  Inv' /\ table' = table
<1>1. faults' \in 0 .. MaxFaults
  BY BoundsAssumption DEF FaultElsewhere, Fault, Inv, TypeOK
<1>. QED
  BY <1>1 DEF FaultElsewhere, locals, Inv, TypeOK, Fresh, Clean

\* The webhook handler and the forwarder.
LEMMA OthersInv ==
    ASSUME Inv, NEW id \in Ids,
           ForwarderMarks(id) \/ \E row \in NewRows : Store(id, row)
    PROVE  Inv' /\ Survive(table, table')
<1>1. table' \in Table /\ Survive(table, table')
  <2>1. CASE ForwarderMarks(id)
    BY <2>1, MarkLemma, MarkSurvives DEF ForwarderMarks, Inv, TypeOK
  <2>2. ASSUME NEW row \in NewRows, Store(id, row)
        PROVE  table' \in Table /\ Survive(table, table')
    BY <2>2, NewRowsAssumption, InsertLemma, InsertSurvives DEF Store, Inv, TypeOK
  <2>. QED
    BY <2>1, <2>2
<1>2. UNCHANGED <<pc, request, locals, answer, requests, faults>>
  BY DEF ForwarderMarks, Store
<1>3. Fresh' /\ \A r \in Replayers : DOMAIN events'[r] \subseteq Stored(table')
  BY <1>1, <1>2, StaysFresh DEF locals
<1>. QED
  BY <1>1, <1>2, <1>3 DEF Inv, TypeOK, Clean, locals

LEMMA InvNext == Inv /\ [Next]_vars => Inv' /\ Survive(table, table')
<1>. SUFFICES ASSUME Inv, [Next]_vars PROVE Inv' /\ Survive(table, table')
  OBVIOUS
<1>1. CASE UNCHANGED vars
  BY <1>1, SurviveSelf DEF vars, locals, Inv, TypeOK, Fresh, Clean
<1>2. CASE Next
  BY <1>2, SurviveSelf, ReceiveInv, GetEventInv, CountEventsInv, ListEventsInv,
     GetStatsInv, UpdateEventInv, StatementFailsInv, RespondInv, FinishInv,
     OthersInv, CrashInv, FaultElsewhereInv DEF Next, Reader, Replayer
<1>. QED
  BY <1>1, <1>2

-------------------------------------------------------------------------------
(* What an answer says: of each request, what it has to show for itself so  *)
(* far.  The page and the total are about tables of the past, so they are   *)
(* compared through what every later table still holds.                     *)

Accepted(r) == pc[r] \in {"count", "read", "update"} \/ answer[r] = "ok"
HasRead(r) == pc[r] = "update" \/ (answer[r] = "ok" /\ request[r].kind # "stats")
IsReplay(r) == request[r].kind \in {"single", "range"}
IsList(r) == request[r].kind = "list"

WantedOf(r) == {id \in known[r] : Wanted(request[r], id)}

ReplayServed(r) ==
    /\ pc[r] = "update" => left[r] \cup written[r] = DOMAIN events[r]
    /\ answer[r] = "ok" /\ IsReplay(r) => written[r] = DOMAIN events[r]
    /\ HasRead(r) /\ IsReplay(r) => DOMAIN events[r] # {}
    /\ HasRead(r) /\ request[r].kind = "range" =>
          Cardinality(DOMAIN events[r]) <= LimitOf(request[r])

ListServed(r) ==
    /\ IsList(r) /\ (pc[r] = "read" \/ answer[r] = "ok") =>
          Cardinality(WantedOf(r)) <= total[r]
    /\ IsList(r) /\ pc[r] = "read" =>
          total[r] <= Cardinality(Matching(table, request[r].opts))
    /\ IsList(r) /\ answer[r] = "ok" =>
          PageSize(total[r], request[r]) <= Cardinality(DOMAIN events[r])

Served(r) ==
    /\ known[r] \subseteq Stored(table)
    /\ Accepted(r) => Refusal(request[r]) = "none"
    /\ \A id \in DOMAIN events[r] : Wanted(request[r], id)
    /\ \A id \in written[r] : table[id].replayed
    /\ HasRead(r) => Complete(r)
    /\ ReplayServed(r)
    /\ ListServed(r)

ServedInv == Inv /\ \A r \in Replayers : Served(r)

\* The request of a replayer is as it was.
Same(r) ==
    /\ pc'[r] = pc[r] /\ request'[r] = request[r] /\ events'[r] = events[r]
    /\ left'[r] = left[r] /\ total'[r] = total[r] /\ answer'[r] = answer[r]
    /\ written'[r] = written[r] /\ known'[r] = known[r]

\* An event is wanted by a request as long as it is stored, or never.
LEMMA WantedStable ==
    ASSUME Survive(table, table'), NEW id \in Stored(table), NEW req
    PROVE  Wanted(req, id)' <=> Wanted(req, id)
BY DEF Survive, SameEvent, Wanted, InQuery

\* A listing's conditions never look at what changes, so it only gets longer.
LEMMA MatchingGrows ==
    ASSUME Survive(table, table'), NEW opts, ~ opts.onlyNonForwarded
    PROVE  Matching(table, opts) \subseteq Matching(table', opts)
BY DEF Survive, SameEvent, Matching, Matches

LEMMA Keeps ==
    ASSUME Inv, Inv', Survive(table, table'), NEW r \in Replayers, Served(r), Same(r)
    PROVE  Served(r)'
<1>1. /\ known[r] \subseteq Stored(table) /\ known[r] \subseteq Stored(table')
      /\ DOMAIN events[r] \subseteq Stored(table)
      /\ written[r] \subseteq DOMAIN events[r]
  BY DEF Served, Survive, Inv, TypeOK
<1>2. \A id \in known[r] \cup DOMAIN events[r] :
         Wanted(request[r], id)' <=> Wanted(request[r], id)
  <2>1. ASSUME NEW id \in known[r] \cup DOMAIN events[r]
        PROVE  Wanted(request[r], id)' <=> Wanted(request[r], id)
    <3>1. id \in Stored(table)
      BY <1>1
    <3>. QED
      BY <3>1, WantedStable DEF Same, Wanted, InQuery, Survive, SameEvent
  <2>. QED
    BY <2>1
<1>3. Complete(r) => Complete(r)'
  BY <1>2 DEF Complete, Same
<1>4. WantedOf(r)' = WantedOf(r)
  BY <1>2 DEF WantedOf, Same
<1>5. \A id \in written[r] : table[id].replayed => table'[id].replayed
  BY <1>1 DEF Survive
<1>6. ReplayServed(r)'
  BY DEF Served, ReplayServed, HasRead, IsReplay, Same
<1>7. ASSUME IsList(r), pc[r] = "read"
      PROVE  total[r] <= Cardinality(Matching(table', request[r].opts))
  <2>. DEFINE old == Matching(table, request[r].opts)
              new == Matching(table', request[r].opts)
  <2>1. ~ request[r].opts.onlyNonForwarded
    BY <1>7, RequestsAssumption DEF IsList, Inv, TypeOK
  <2>2. old \subseteq new
    BY <2>1, MatchingGrows
  <2>3. old \subseteq Ids /\ new \subseteq Ids
    BY DEF Matching, Stored
  <2>. HIDE DEF old, new
  <2>4. Cardinality(old) <= Cardinality(new)
    BY <2>2, <2>3, CountType, FS_Subset
  <2>5. Cardinality(old) \in Nat /\ Cardinality(new) \in Nat /\ total[r] \in Nat
    BY <2>3, CountType DEF Inv, TypeOK
  <2>6. total[r] <= Cardinality(old)
    BY <1>7 DEF Served, ListServed, old
  <2>. QED
    BY <2>4, <2>5, <2>6 DEF new
<1>8. ListServed(r)'
  BY <1>4, <1>7 DEF Served, ListServed, IsList, Same
<1>9. Accepted(r)' => Refusal(request'[r]) = "none"
  BY DEF Served, Accepted, Same
<1>10. HasRead(r)' => Complete(r)'
  BY <1>3 DEF Served, HasRead, Same
<1>. QED
  BY <1>1, <1>2, <1>5, <1>6, <1>8, <1>9, <1>10 DEF Served, Same

\* The limit and the offset that the SELECT gets.
LEMMA LimitType ==
    ASSUME NEW req \in Requests, req.kind \in {"range", "list"}
    PROVE  /\ LimitOf(req) \in Int /\ OffsetOf(req) \in Nat
           /\ req.kind = "range" => OffsetOf(req) = 0
           /\ req.kind = "range" /\ Refusal(req) = "none" => LimitOf(req) > 0
<1>1. req \in ReplayRange \/ req \in Listing
  <2>1. req \notin Statistics
    BY DEF Statistics
  <2>2. req \notin RestSingle /\ req \notin GraphqlSingle
    BY DEF RestSingle, GraphqlSingle
  <2>. QED
    BY <2>1, <2>2, RequestsAssumption
<1>2. /\ req.limit \in Int \cup {NoLimit} /\ req.api \in Apis
      /\ req.kind = "list" => req.offset \in Int
  BY <1>1 DEF ReplayRange, Listing
<1>3. LimitOf(req) \in Int /\ OffsetOf(req) \in Nat
  BY <1>2, BoundsAssumption DEF LimitOf, OffsetOf
<1>4. req.kind = "range" => OffsetOf(req) = 0
  BY DEF OffsetOf
<1>5. ASSUME req.kind = "range", Refusal(req) = "none"
      PROVE  LimitOf(req) > 0
  <2>1. ValidRange(req)
    BY <1>5 DEF Refusal
  <2>. QED
    BY <1>2, <1>5, <2>1, BoundsAssumption DEF ValidRange, LimitOf
<1>. QED
  BY <1>3, <1>4, <1>5

\* A page is no larger than what it is cut from, nor than the limit, and the
\* page of a longer listing is at least as large.
LEMMA PageSizeLemma ==
    ASSUME NEW req, LimitOf(req) \in Int, OffsetOf(req) \in Nat,
           NEW n \in Nat, NEW m \in Nat, m <= n
    PROVE  /\ PageSize(n, req) \in 0 .. n
           /\ PageSize(m, req) <= PageSize(n, req)
           /\ LimitOf(req) > 0 => PageSize(n, req) <= LimitOf(req)
           /\ OffsetOf(req) = 0 /\ PageSize(n, req) # n => PageSize(n, req) = LimitOf(req)
           /\ OffsetOf(req) = 0 /\ n > 0 => PageSize(n, req) > 0
BY DEF PageSize

\* The others have their requests as they were.
LEMMA OthersKeep ==
    ASSUME ServedInv, Inv', Survive(table, table'), NEW r \in Replayers, Served(r)',
           \A s \in Replayers \ {r} : Same(s)
    PROVE  ServedInv'
BY Keeps DEF ServedInv

LEMMA ReceiveServed ==
    ASSUME ServedInv, NEW r \in Replayers, NEW req \in Requests, Receive(r, req)
    PROVE  ServedInv'
<1>1. Inv' /\ table' = table /\ Survive(table, table')
  BY ReceiveInv, SurviveSelf DEF ServedInv
<1>2. \A s \in Replayers \ {r} : Same(s)
  BY DEF Receive, Goto, Answer, Same, ServedInv, Inv, TypeOK
<1>3. /\ pc[r] = "idle" /\ request'[r] = req /\ known'[r] = Stored(table)
      /\ DOMAIN events'[r] = {} /\ written'[r] = {}
  BY DEF Receive, ServedInv, Inv, TypeOK, Clean
<1>4. \/ /\ Refusal(req) = "none" /\ answer'[r] = "none"
         /\ pc'[r] = IF req.kind \in {"range", "list"} THEN "count" ELSE "read"
      \/ /\ answer'[r] \in {"notFound", "badRequest"}
         /\ pc'[r] = "answered"
  <2>1. CASE Refusal(req) = "none"
    BY <1>3, <2>1 DEF Receive, Goto, ServedInv, Inv, TypeOK
  <2>2. CASE Refusal(req) # "none"
    <3>1. Refusal(req) \in Answers /\ Refusal(req) # "ok" /\ Refusal(req) # "error"
      BY RefusalType DEF Answers
    <3>. QED
      BY <2>2, <3>1 DEF Receive, Goto, Answer, Answers, ServedInv, Inv, TypeOK
  <2>. QED
    BY <2>1, <2>2
<1>5. Served(r)'
  BY <1>1, <1>3, <1>4
     DEF Served, Accepted, HasRead, ReplayServed, ListServed, IsReplay, IsList
<1>. QED
  BY <1>1, <1>2, <1>5, OthersKeep

\* A step to an answer other than "ok".
LEMMA NotOkServed ==
    ASSUME ServedInv, Inv', NEW r \in Replayers, NEW what \in Answers \ {"none", "ok"},
           Answer(r, what), UNCHANGED <<table, request, locals>>
    PROVE  ServedInv'
<1>1. \A s \in Replayers \ {r} : Same(s)
  BY DEF Answer, Goto, locals, Same, ServedInv, Inv, TypeOK
<1>2. /\ pc'[r] = "answered" /\ answer'[r] \notin {"none", "ok"}
      /\ UNCHANGED <<table, request, known, events, written>>
  BY DEF Answer, Goto, locals, ServedInv, Inv, TypeOK
<1>3. Served(r)'
  BY <1>2 DEF ServedInv, Served, Accepted, HasRead, ReplayServed, ListServed,
              Wanted, InQuery
<1>. QED
  BY <1>1, <1>2, <1>3, SurviveSelf, OthersKeep

LEMMA CountEventsServed ==
    ASSUME ServedInv, NEW r \in Replayers, CountEvents(r)
    PROVE  ServedInv'
<1>1. Inv' /\ table' = table /\ Survive(table, table')
  BY CountEventsInv, SurviveSelf DEF ServedInv
<1>2. \A s \in Replayers \ {r} : Same(s)
  BY DEF CountEvents, Goto, Same, ServedInv, Inv, TypeOK
<1>. DEFINE all == Matching(table, request[r].opts)
<1>3. /\ pc[r] = "count" /\ pc'[r] = "read" /\ total'[r] = Cardinality(all)
      /\ UNCHANGED <<table, request, known, events, written, answer>>
      /\ answer[r] = "none"
  BY DEF CountEvents, Goto, ServedInv, Inv, TypeOK
<1>4. all \subseteq Ids /\ WantedOf(r) \subseteq all
  <2>1. request[r] \in Requests /\ request[r].kind \in {"range", "list"}
    BY <1>3 DEF ServedInv, Inv, TypeOK
  <2>2. ~ request[r].opts.onlyNonForwarded
    BY <2>1, RequestsAssumption
  <2>3. known[r] \subseteq Stored(table)
    BY DEF ServedInv, Served
  <2>4. \A id \in known[r] : Wanted(request[r], id) => Matches(table[id], request[r].opts)
    BY <2>1, <2>2 DEF Wanted, InQuery, Matches
  <2>. QED
    BY <2>3, <2>4 DEF WantedOf, Matching, Stored
<1>. HIDE DEF all
<1>5. /\ Cardinality(WantedOf(r)) <= Cardinality(all)
      /\ Cardinality(all) \in Nat
  BY <1>4, CountType, FS_Subset
<1>6. WantedOf(r)' = WantedOf(r) /\ Matching(table, request[r].opts)' = all
  BY <1>3 DEF WantedOf, Wanted, InQuery, all, Matching, Matches, Stored
<1>7. ListServed(r)'
  BY <1>3, <1>5, <1>6 DEF ListServed, IsList
<1>8. Served(r)'
  BY <1>3, <1>7 DEF ServedInv, Served, Accepted, HasRead, ReplayServed, Wanted,
                    InQuery, Stored
<1>. QED
  BY <1>1, <1>2, <1>8, OthersKeep

\* The rows of a page that is complete, not empty and within the limit.
LEMMA ReadServed ==
    ASSUME ServedInv, Inv', NEW r \in Replayers, NEW page \in SUBSET Stored(table),
           pc[r] = "read", Read(r, page),
           UNCHANGED <<table, request, total, written, known>>,
           \A id \in page : Wanted(request[r], id),
           \/ \A id \in known[r] : Wanted(request[r], id) => id \in page
           \/ /\ request[r].kind \in {"range", "list"}
              /\ \/ OffsetOf(request[r]) > 0
                 \/ Cardinality(page) = LimitOf(request[r]),
           IsReplay(r) => page # {},
           request[r].kind = "range" => Cardinality(page) <= LimitOf(request[r]),
           IsList(r) => PageSize(total[r], request[r]) <= Cardinality(page)
    PROVE  ServedInv'
<1>1. \A s \in Replayers \ {r} : Same(s)
  BY DEF Read, Goto, Answer, Same, ServedInv, Inv, TypeOK
<1>2. /\ events'[r] = [id \in page |-> table[id]]
      /\ UNCHANGED <<table, request, total, written, known>>
      /\ written[r] = {}
      /\ \/ IsReplay(r) /\ pc'[r] = "update" /\ answer'[r] = "none" /\ left'[r] = page
         \/ /\ request[r].kind \in {"event", "list"}
            /\ pc'[r] = "answered" /\ answer'[r] = "ok"
  BY DEF Read, Goto, Answer, IsReplay, ServedInv, Inv, TypeOK, Clean
<1>3. DOMAIN events'[r] = page
  BY <1>2
<1>4. \A id \in Ids : Wanted(request[r], id)' <=> Wanted(request[r], id)
  BY <1>2 DEF Wanted, InQuery
<1>5. Complete(r)'
  BY <1>2, <1>3 DEF Complete, Wanted, InQuery
<1>6. ReplayServed(r)'
  BY <1>2, <1>3 DEF ReplayServed, HasRead, IsReplay
<1>7. ListServed(r)'
  <2>1. WantedOf(r)' = WantedOf(r)
    BY <1>2 DEF WantedOf, Wanted, InQuery
  <2>. QED
    BY <1>2, <1>3, <2>1 DEF ServedInv, Served, ListServed, IsList, IsReplay
<1>8. Served(r)'
  <2>1. Refusal(request[r]) = "none" /\ known[r] \subseteq Stored(table)
    BY DEF ServedInv, Served, Accepted
  <2>2. (\A id \in DOMAIN events[r] : Wanted(request[r], id))'
    BY <1>2, <1>3, <1>4 DEF Wanted, InQuery
  <2>. QED
    BY <1>2, <1>5, <1>6, <1>7, <2>1, <2>2 DEF Served, Stored
<1>. QED
  BY <1>1, <1>8, SurviveSelf, OthersKeep

LEMMA GetEventServed ==
    ASSUME ServedInv, NEW r \in Replayers, GetEvent(r)
    PROVE  ServedInv'
<1>. DEFINE id == IdOf(request[r])
<1>1. Inv'
  BY GetEventInv DEF ServedInv
<1>2. CASE id \in Stored(table) /\ Read(r, {id})
  <2>1. /\ pc[r] = "read" /\ request[r].kind \in {"single", "event"}
        /\ UNCHANGED <<table, request, total, written, known>>
    BY DEF GetEvent
  <2>2. \A i : Wanted(request[r], i) <=> i = id
    BY <2>1 DEF Wanted
  <2>. HIDE DEF id
  <2>3. {id} \in SUBSET Stored(table) /\ {id} # {}
    BY <1>2
  <2>. QED
    BY <1>1, <1>2, <2>1, <2>2, <2>3, ReadServed DEF IsList
<1>3. CASE id \notin Stored(table) /\ Answer(r, "notFound") /\ UNCHANGED <<events, left>>
  BY <1>1, <1>3, NotOkServed DEF GetEvent, Answers, locals
<1>. QED
  BY <1>2, <1>3 DEF GetEvent

LEMMA ListEventsServed ==
    ASSUME ServedInv, NEW r \in Replayers, ListEvents(r)
    PROVE  ServedInv'
<1>. DEFINE req == request[r]
            all == Matching(table, req.opts)
<1>1. Inv'
  BY ListEventsInv DEF ServedInv
<1>2. CASE \E what \in {"error", "notFound"} : Answer(r, what) /\ UNCHANGED <<events, left>>
  BY <1>1, <1>2, NotOkServed DEF ListEvents, Answers, locals
<1>3. ASSUME NEW page \in SUBSET all, req.kind = "range" => all # {},
             Cardinality(page) = PageSize(Cardinality(all), req), Read(r, page)
      PROVE  ServedInv'
  <2>1. /\ pc[r] = "read" /\ req \in Requests /\ req.kind \in {"range", "list"}
        /\ UNCHANGED <<table, request, total, written, known>>
        /\ Refusal(req) = "none" /\ known[r] \subseteq Stored(table)
    BY DEF ListEvents, ServedInv, Served, Accepted, Inv, TypeOK
  <2>2. ~ req.opts.onlyNonForwarded
    BY <2>1, RequestsAssumption
  <2>3. /\ LimitOf(req) \in Int /\ OffsetOf(req) \in Nat
        /\ req.kind = "range" => OffsetOf(req) = 0 /\ LimitOf(req) > 0
    BY <2>1, LimitType
  <2>4. all \subseteq Stored(table) /\ all \subseteq Ids /\ page \subseteq Stored(table)
    BY DEF Matching, Stored
  <2>5. /\ IsFiniteSet(all) /\ Cardinality(all) \in Nat
        /\ Cardinality(page) \in Nat /\ IsFiniteSet(page)
    BY <2>4, CountType
  <2>6. \A id \in Stored(table) : Wanted(req, id) <=> id \in all
    BY <2>1, <2>2 DEF Wanted, InQuery, Matching, Matches
  <2>. HIDE DEF req, all
  <2>7. \A id \in page : Wanted(req, id)
    BY <2>4, <2>6
  <2>8. OffsetOf(req) > 0 \/ Cardinality(page) = LimitOf(req) \/ page = all
    <3>1. ASSUME OffsetOf(req) = 0, Cardinality(page) = Cardinality(all)
          PROVE  page = all
      BY <2>5, <3>1, FS_Subset
    <3>2. OffsetOf(req) = 0 /\ Cardinality(page) # Cardinality(all)
             => Cardinality(page) = LimitOf(req)
      BY <1>3, <2>3, <2>5, PageSizeLemma
    <3>. QED
      BY <2>3, <3>1, <3>2
  <2>9. req.kind = "range" => page # {}
    <3>1. req.kind = "range" => Cardinality(all) > 0
      BY <1>3, <2>5, FS_EmptySet
    <3>2. req.kind = "range" => Cardinality(page) > 0
      BY <1>3, <2>3, <2>5, <3>1, PageSizeLemma
    <3>. QED
      BY <3>2, FS_EmptySet
  <2>10. req.kind = "range" => Cardinality(page) <= LimitOf(req)
    BY <1>3, <2>3, <2>5, PageSizeLemma
  <2>11. ASSUME req.kind = "list"
         PROVE  PageSize(total[r], req) <= Cardinality(page)
    <3>1. total[r] \in Nat /\ total[r] <= Cardinality(all)
      BY <2>1, <2>11 DEF ServedInv, Served, ListServed, IsList, Inv, TypeOK, req, all
    <3>. QED
      BY <1>3, <2>3, <2>5, <3>1, PageSizeLemma
  <2>12. \/ \A id \in known[r] : Wanted(req, id) => id \in page
         \/ OffsetOf(req) > 0 \/ Cardinality(page) = LimitOf(req)
    BY <2>1, <2>6, <2>8
  <2>. QED
    BY <1>1, <1>3, <2>1, <2>4, <2>7, <2>9, <2>10, <2>11, <2>12, ReadServed
       DEF req, IsReplay, IsList
<1>. QED
  BY <1>2, <1>3 DEF ListEvents

LEMMA GetStatsServed ==
    ASSUME ServedInv, NEW r \in Replayers, GetStats(r)
    PROVE  ServedInv'
<1>1. Inv'
  BY GetStatsInv DEF ServedInv
<1>2. \A s \in Replayers \ {r} : Same(s)
  BY DEF GetStats, Answer, Goto, locals, Same, ServedInv, Inv, TypeOK
<1>3. /\ pc[r] = "read" /\ pc'[r] = "answered" /\ answer'[r] = "ok"
      /\ request[r].kind = "stats"
      /\ UNCHANGED <<table, request, locals>>
  BY DEF GetStats, Answer, Goto, ServedInv, Inv, TypeOK
<1>4. Served(r)'
  BY <1>3 DEF ServedInv, Served, Accepted, HasRead, ReplayServed, ListServed,
              IsReplay, IsList, locals, Wanted, InQuery, Stored
<1>. QED
  BY <1>1, <1>2, <1>3, <1>4, SurviveSelf, OthersKeep

LEMMA UpdateEventServed ==
    ASSUME ServedInv, NEW r \in Replayers, NEW id \in Ids, UpdateEvent(r, id)
    PROVE  ServedInv'
<1>1. Inv' /\ Survive(table, table')
  BY UpdateEventInv DEF ServedInv
<1>2. \A s \in Replayers \ {r} : Same(s)
  BY DEF UpdateEvent, Same, ServedInv, Inv, TypeOK
<1>3. /\ pc[r] = "update" /\ answer[r] = "none" /\ id \in left[r]
      /\ left'[r] = left[r] \ {id} /\ written'[r] = written[r] \cup {id}
      /\ UNCHANGED <<pc, request, events, total, answer, known>>
  BY DEF UpdateEvent, ServedInv, Inv, TypeOK
<1>4. /\ known[r] \subseteq Stored(table) /\ DOMAIN events[r] \subseteq Stored(table)
      /\ written[r] \cup left[r] \subseteq Stored(table)
      /\ known[r] \subseteq Stored(table')
  BY <1>1 DEF ServedInv, Served, Inv, TypeOK, Survive
<1>5. \A i \in Stored(table) : Wanted(request[r], i)' <=> Wanted(request[r], i)
  BY <1>1, <1>3 DEF Wanted, InQuery, Survive, SameEvent
<1>6. Complete(r)' <=> Complete(r)
  BY <1>3, <1>4, <1>5 DEF Complete
<1>7. table'[id].replayed
  <2>1. id \in Stored(table) /\ events[r][id] \in Row
    BY <1>3, <1>4 DEF ServedInv, Inv, TypeOK
  <2>2. table' = Update(table, id, ReplayOf(events[r][id])) /\ table \in Table
    BY DEF UpdateEvent, ServedInv, Inv, TypeOK
  <2>3. ReplayOf(events[r][id]).replayed /\ ReplayOf(events[r][id]) \in Row
    BY <2>1, MarkedRow, ReplayRow
  <2>. QED
    BY <2>1, <2>2, <2>3, UpdateLemma
<1>8. \A i \in written'[r] : table'[i].replayed
  BY <1>1, <1>3, <1>4, <1>7 DEF ServedInv, Served, Survive
<1>9. ReplayServed(r)'
  BY <1>3 DEF ServedInv, Served, ReplayServed, HasRead, IsReplay
<1>10. ListServed(r)'
  BY <1>3 DEF ListServed
<1>11. Served(r)'
  BY <1>3, <1>4, <1>5, <1>6, <1>8, <1>9, <1>10 DEF ServedInv, Served, Accepted, HasRead
<1>. QED
  BY <1>1, <1>2, <1>11, OthersKeep

LEMMA StatementFailsServed ==
    ASSUME ServedInv, NEW r \in Replayers, StatementFails(r)
    PROVE  ServedInv'
BY StatementFailsInv, NotOkServed DEF ServedInv, StatementFails, Answers

LEMMA RespondServed ==
    ASSUME ServedInv, NEW r \in Replayers, Respond(r)
    PROVE  ServedInv'
<1>1. Inv'
  BY RespondInv DEF ServedInv
<1>2. \A s \in Replayers \ {r} : Same(s)
  BY DEF Respond, Answer, Goto, locals, Same, ServedInv, Inv, TypeOK
<1>3. /\ pc[r] = "update" /\ pc'[r] = "answered" /\ answer'[r] = "ok"
      /\ left[r] = {} /\ IsReplay(r)
      /\ UNCHANGED <<table, request, locals>>
  BY DEF Respond, Answer, Goto, IsReplay, ServedInv, Inv, TypeOK
<1>4. Served(r)'
  BY <1>3 DEF ServedInv, Served, Accepted, HasRead, ReplayServed, ListServed,
              IsReplay, IsList, Complete, locals, Wanted, InQuery, Stored
<1>. QED
  BY <1>1, <1>2, <1>3, <1>4, SurviveSelf, OthersKeep

\* A replayer that serves nobody has nothing to show.
LEMMA IdleServed ==
    ASSUME NEW r \in Replayers, pc[r] = "idle", answer[r] = "none",
           known[r] = {}, written[r] = {}, DOMAIN events[r] = {}
    PROVE  Served(r)
BY DEF Served, Accepted, HasRead, ReplayServed, ListServed

LEMMA FinishServed ==
    ASSUME ServedInv, NEW r \in Replayers, Finish(r)
    PROVE  ServedInv'
<1>1. Inv' /\ table' = table
  BY FinishInv DEF ServedInv
<1>2. \A s \in Replayers \ {r} : Same(s)
  BY DEF Finish, Goto, Same, ServedInv, Inv, TypeOK
<1>3. /\ pc'[r] = "idle" /\ answer'[r] = "none" /\ known'[r] = {}
      /\ written'[r] = {} /\ DOMAIN events'[r] = {}
  BY DEF Finish, Goto, NoEvents, ServedInv, Inv, TypeOK
<1>4. Served(r)'
  BY <1>3 DEF Served, Accepted, HasRead, ReplayServed, ListServed
<1>. QED
  BY <1>1, <1>2, <1>4, SurviveSelf, OthersKeep

LEMMA CrashServed ==
    ASSUME ServedInv, Crash
    PROVE  ServedInv'
<1>1. Inv'
  BY CrashInv DEF ServedInv
<1>2. ASSUME NEW r \in Replayers
      PROVE  Served(r)'
  <2>1. /\ pc'[r] = "idle" /\ answer'[r] = "none" /\ known'[r] = {}
        /\ written'[r] = {} /\ DOMAIN events'[r] = {}
    BY DEF Crash, NoEvents
  <2>. QED
    BY <2>1 DEF Served, Accepted, HasRead, ReplayServed, ListServed
<1>. QED
  BY <1>1, <1>2 DEF ServedInv

\* What the rest of the process and the other writers do.
LEMMA AroundServed ==
    ASSUME ServedInv, Inv', Survive(table, table'),
           UNCHANGED <<pc, request, locals, answer>>
    PROVE  ServedInv'
BY Keeps DEF ServedInv, Same, locals

LEMMA ServedNext == ServedInv /\ [Next]_vars => ServedInv'
<1>. SUFFICES ASSUME ServedInv, [Next]_vars PROVE ServedInv'
  OBVIOUS
<1>1. Inv' /\ Survive(table, table')
  BY InvNext DEF ServedInv
<1>2. CASE UNCHANGED vars
  BY <1>1, <1>2, AroundServed DEF vars
<1>3. CASE \E id \in Ids : ForwarderMarks(id) \/ \E row \in NewRows : Store(id, row)
  BY <1>1, <1>3, AroundServed DEF ForwarderMarks, Store
<1>4. CASE FaultElsewhere
  BY <1>1, <1>4, AroundServed DEF FaultElsewhere
<1>5. CASE \E r \in Replayers :
              (\E req \in Requests : Receive(r, req)) \/ Replayer(r) \/ Finish(r)
  BY <1>5, ReceiveServed, GetEventServed, CountEventsServed, ListEventsServed,
     GetStatsServed, UpdateEventServed, StatementFailsServed, RespondServed,
     FinishServed DEF Reader, Replayer
<1>. QED
  BY <1>2, <1>3, <1>4, <1>5, CrashServed DEF Next

LEMMA ServedInit == Init => ServedInv
<1>. SUFFICES ASSUME Init PROVE ServedInv
  OBVIOUS
<1>1. Inv
  BY InvInit
<1>2. \A r \in Replayers : Served(r)
  BY IdleServed DEF Init, NoEvents
<1>. QED
  BY <1>1, <1>2 DEF ServedInv

-------------------------------------------------------------------------------
\* The variables have their types, and a replayer only ever holds rows that
\* are still in the table.
THEOREM TypeCorrect == Spec => []TypeOK
<1>1. Inv => TypeOK
  BY DEF Inv
<1>. QED
  BY InvInit, InvNext, <1>1, PTL DEF Spec

\* An "ok" to a replay is complete: whoever writes between its SELECT and its
\* last UPDATE, every event it names is wanted, written and marked, and it
\* misses none that was there before, unless the limit cut the page.
THEOREM OkIsCompleteHolds == Spec => []OkIsComplete
<1>1. ServedInv => OkIsComplete
  <2>. SUFFICES ASSUME ServedInv, NEW r \in Replayers,
                       answer[r] = "ok", IsReplay(r)
                PROVE  /\ written[r] = DOMAIN events[r] /\ written[r] # {}
                       /\ \A id \in written[r] :
                             Wanted(request[r], id) /\ table[id].replayed
                       /\ Complete(r)
                       /\ request[r].kind = "range" =>
                             Cardinality(written[r]) <= LimitOf(request[r])
    BY DEF OkIsComplete, IsReplay
  <2>1. HasRead(r)
    BY DEF HasRead, IsReplay
  <2>. QED
    BY <2>1 DEF ServedInv, Served, ReplayServed
<1>. QED
  BY ServedInit, ServedNext, <1>1, PTL DEF Spec

\* The page of a listing is as large as its total promises, although rows are
\* inserted between the COUNT and the SELECT, and the total counts whatever
\* was there when the request came in.
THEOREM PageKeepsPromiseHolds == Spec => []PageKeepsPromise
<1>1. ServedInv => PageKeepsPromise
  BY DEF ServedInv, Served, ListServed, IsList, HasRead, WantedOf, PageKeepsPromise
<1>. QED
  BY ServedInit, ServedNext, <1>1, PTL DEF Spec

\* However old the read behind an UpdateEvent is, and whoever writes in
\* between, no event is lost or changed by a replay.
THEOREM EventsSurviveReplayHolds == Spec => EventsSurviveReplay
<1>. DEFINE Step == \A id \in Stored(table) :
        /\ id \in Stored(table')
        /\ \A column \in {"type", "repository", "sender", "created", "headers"} :
              table'[id][column] = table[id][column]
<1>1. Survive(table, table') => [Step]_vars
  BY DEF Survive, SameEvent
<1>2. Inv /\ [Next]_vars => [Step]_vars
  BY <1>1, InvNext
<1>. QED
  BY InvInit, InvNext, <1>2, PTL DEF Spec, EventsSurviveReplay

\* Only the UPDATE of a replay takes a mark back, and only of an event its
\* request wanted.
THEOREM OnlyWantedAreResetHolds == Spec => OnlyWantedAreReset
<1>. DEFINE Wants(id) == \E r \in Replayers :
        /\ pc[r] = "update" /\ request[r].kind \in {"single", "range"}
        /\ Wanted(request[r], id)
            Step == \A id \in Stored(table) :
        table[id].forwarded /\ ~ table'[id].forwarded => Wants(id)
<1>1. ServedInv /\ [Next]_vars => [Step]_vars
  <2>. SUFFICES ASSUME ServedInv, Next PROVE Step
    BY DEF vars
  <2>1. CASE table' = table
    BY <2>1
  <2>2. ASSUME NEW i \in Ids, ForwarderMarks(i)
        PROVE  Step
    BY <2>2, MarkLemma DEF ForwarderMarks, ServedInv, Inv, TypeOK, Stored
  <2>3. ASSUME NEW i \in Ids, NEW row \in NewRows, Store(i, row)
        PROVE  Step
    BY <2>3, NewRowsAssumption, InsertLemma DEF Store, ServedInv, Inv, TypeOK
  <2>4. ASSUME NEW r \in Replayers, NEW i \in Ids, UpdateEvent(r, i)
        PROVE  Step
    <3>1. /\ pc[r] = "update" /\ request[r].kind \in {"single", "range"}
          /\ i \in DOMAIN events[r] /\ events[r][i] \in Row
      BY <2>4 DEF UpdateEvent, ServedInv, Inv, TypeOK
    <3>2. Wanted(request[r], i)
      BY <3>1 DEF ServedInv, Served
    <3>3. Wants(i)
      BY <3>1, <3>2
    <3>. HIDE DEF Wants
    <3>4. \A id \in Stored(table) \ {i} : table'[id] = table[id]
      BY <2>4, <3>1, ReplayRow, UpdateLemma DEF UpdateEvent, ServedInv, Inv, TypeOK, Stored
    <3>. QED
      BY <3>3, <3>4
  <2>. QED
    BY <2>1, <2>2, <2>3, <2>4, ReceiveInv, GetEventInv, CountEventsInv, ListEventsInv,
       GetStatsInv, StatementFailsInv, RespondInv, FinishInv, CrashInv,
       FaultElsewhereInv DEF Next, Reader, Replayer, ServedInv
<1>. QED
  BY ServedInit, ServedNext, <1>1, PTL DEF Spec, OnlyWantedAreReset
================================================================================
