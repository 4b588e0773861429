--------------------------- MODULE EventStore_proofs ---------------------------
(* What the statements of the storage layer preserve, for every table.      *)
EXTENDS EventStore, TLAPS

\* INSERT OR IGNORE leaves a table, loses no row and overwrites none: it adds
\* at most the one row (StoreEvent of internal/storage/sql/base.go).
LEMMA InsertLemma ==
    ASSUME NEW t \in Table, NEW id \in Ids, NEW row \in Row
    PROVE  /\ Insert(t, id, row) \in Table
           /\ Stored(Insert(t, id, row)) = Stored(t) \cup {id}
           /\ \A i \in Stored(t) : Insert(t, id, row)[i] = t[i]
           /\ id \notin Stored(t) => Insert(t, id, row)[id] = row
BY NoRowAssumption DEF Insert, Table, Stored

\* UPDATE ... WHERE id neither adds nor removes a row, and touches one row
\* only (UpdateEvent of internal/storage/sql/base.go).
LEMMA UpdateLemma ==
    ASSUME NEW t \in Table, NEW id \in Ids, NEW row \in Row
    PROVE  /\ Update(t, id, row) \in Table
           /\ Stored(Update(t, id, row)) = Stored(t)
           /\ \A i \in Ids \ {id} : Update(t, id, row)[i] = t[i]
           /\ id \in Stored(t) => Update(t, id, row)[id] = row
BY NoRowAssumption DEF Update, Table, Stored

\* A row with its forwarded_at set is a row, and forwarded.
LEMMA ForwardedRow ==
    ASSUME NEW row \in Row
    PROVE  /\ [row EXCEPT !.forwarded = TRUE] \in Row
           /\ [row EXCEPT !.forwarded = TRUE].forwarded
BY DEF Row

\* MarkForwarded of a stored event keeps the rows and sets the one column of
\* the one row (MarkForwarded of internal/storage/sql/storage.go).
LEMMA MarkLemma ==
    ASSUME NEW t \in Table, NEW id \in Stored(t)
    PROVE  /\ MarkForwarded(t, id) \in Table
           /\ Stored(MarkForwarded(t, id)) = Stored(t)
           /\ \A i \in Ids \ {id} : MarkForwarded(t, id)[i] = t[i]
           /\ MarkForwarded(t, id)[id].forwarded
<1>1. id \in Ids /\ t[id] \in Row
  BY DEF Stored, Table
<1>2. MarkForwarded(t, id) = [t EXCEPT ![id] = [t[id] EXCEPT !.forwarded = TRUE]]
  BY <1>1 DEF MarkForwarded
<1>3. [t[id] EXCEPT !.forwarded = TRUE] \in Row
  BY <1>1, ForwardedRow
<1>4. [t[id] EXCEPT !.forwarded = TRUE].forwarded
  BY <1>1, ForwardedRow
<1>. DEFINE marked == [t[id] EXCEPT !.forwarded = TRUE]
<1>. HIDE DEF marked
<1>5. MarkForwarded(t, id) = [t EXCEPT ![id] = marked] /\ marked \in Row
  BY <1>2, <1>3 DEF marked
<1>6. MarkForwarded(t, id)[id].forwarded
  BY <1>1, <1>4, <1>5 DEF Table, marked
<1>. QED
  BY <1>1, <1>5, <1>6, NoRowAssumption DEF Table, Stored

\* What a replay writes back is a row, and not forwarded.
LEMMA ReplayRow ==
    ASSUME NEW row \in Row
    PROVE  ReplayOf(row) \in Row /\ ~ ReplayOf(row).forwarded
BY DEF Row, ReplayOf

\* A listing returns stored events that satisfy its conditions.
LEMMA MatchingLemma ==
    ASSUME NEW t \in Table
    PROVE  /\ Matching(t, NonForwarded) \subseteq Stored(t)
           /\ \A id \in Matching(t, NonForwarded) : ~ t[id].forwarded
BY DEF Matching, Matches, NonForwarded, Stored
================================================================================
