------------------------------ MODULE EventStore ------------------------------
(***************************************************************************)
(* The events table of internal/storage/sql: what each statement of the    *)
(* storage layer does to the table, or reads from it, as an operator.  A   *)
(* statement is atomic (one SQL statement in autocommit mode), so a module *)
(* that uses the table gives every statement a step of its own.            *)
(*                                                                         *)
(* A row keeps the columns the program decides on.  The payload and the    *)
(* text of the headers are left out: nothing but the parse of the headers  *)
(* looks at them.  forwarded stands for "forwarded_at IS NOT NULL",        *)
(* replayed for a non-empty replayed_from, headers for "the headers column *)
(* holds a JSON object of string lists".                                   *)
(***************************************************************************)
EXTENDS Naturals, FiniteSets

CONSTANTS
    Ids,            \* delivery ids that can be a row's primary key
    Types,          \* GitHub event types
    Repositories,   \* repository full names, "" when the payload has none
    Senders,        \* sender logins, "" when the payload has none
    Times,          \* instants of created_at
    NoRow           \* "there is no row with this id"

Row == [type : Types, repository : Repositories, sender : Senders,
        created : Times, headers : BOOLEAN, forwarded : BOOLEAN,
        replayed : BOOLEAN]

ASSUME TimesAssumption == Times \subseteq Nat \ {0}
ASSUME NoRowAssumption == NoRow \notin Row

Table == [Ids -> Row \cup {NoRow}]

EmptyTable == [id \in Ids |-> NoRow]

Stored(t) == {id \in Ids : t[id] # NoRow}

-------------------------------------------------------------------------------
(* Statements that write.                                                   *)

\* Mutant of Insert: INSERT OR REPLACE.
InsertOrReplace(t, id, row) == [t EXCEPT ![id] = row]

\* INSERT OR IGNORE / ON CONFLICT DO NOTHING: the first row of an id stays.
Insert(t, id, row) == IF t[id] = NoRow THEN [t EXCEPT ![id] = row] ELSE t

\* UPDATE ... WHERE id = ?, every column but the key, no row is no error.
Update(t, id, row) == IF t[id] = NoRow THEN t ELSE [t EXCEPT ![id] = row]

\* Mutant of MarkForwarded: the UPDATE has no WHERE.
MarkEverything(t, id) ==
    [i \in Ids |-> IF t[i] = NoRow THEN NoRow ELSE [t[i] EXCEPT !.forwarded = TRUE]]

\* UPDATE ... SET forwarded_at = now WHERE id = ?
MarkForwarded(t, id) == [t EXCEPT ![id].forwarded = TRUE]

\* Mutant of ReplayOf: the handler's literal forgets to copy the repository.
ReplayWithoutRepository(row) ==
    [row EXCEPT !.forwarded = FALSE, !.replayed = TRUE, !.repository = ""]

\* What the replay handlers write back over a row they have read.
ReplayOf(row) == [row EXCEPT !.forwarded = FALSE, !.replayed = TRUE]

-------------------------------------------------------------------------------
(* Statements that read.                                                    *)

\* The options of a listing; 0, "" and {} are Go's zero values: no condition.
QueryOptions == [types : SUBSET Types, repository : Repositories \cup {""},
                 sender : Senders \cup {""}, since : Times \cup {0},
                 until : Times \cup {0}, onlyNonForwarded : BOOLEAN]

\* Mutant of NonForwarded: the pass lists without OnlyNonForwarded.
AnyEvent == [types |-> {}, repository |-> "", sender |-> "",
             since |-> 0, until |-> 0, onlyNonForwarded |-> FALSE]

NonForwarded == [types |-> {}, repository |-> "", sender |-> "",
                 since |-> 0, until |-> 0, onlyNonForwarded |-> TRUE]

\* Mutant of Matches: the condition on until is missing.
MatchesWithoutUntil(row, opts) ==
    /\ opts.types # {} => row.type \in opts.types
    /\ opts.since # 0 => row.created >= opts.since
    /\ opts.repository # "" => row.repository = opts.repository
    /\ opts.sender # "" => row.sender = opts.sender
    /\ opts.onlyNonForwarded => ~ row.forwarded

Matches(row, opts) ==
    /\ opts.types # {} => row.type \in opts.types
    /\ opts.since # 0 => row.created >= opts.since
    /\ opts.until # 0 => row.created <= opts.until
    /\ opts.repository # "" => row.repository = opts.repository
    /\ opts.sender # "" => row.sender = opts.sender
    /\ opts.onlyNonForwarded => ~ row.forwarded

\* The rows of a listing without limit; the query has no ORDER BY.
Matching(t, opts) == {id \in Stored(t) : Matches(t[id], opts)}

\* SELECT type, COUNT(*) ... GROUP BY type WHERE created_at >= since.
Stats(t, since) ==
    LET counted == {id \in Stored(t) : since # 0 => t[id].created >= since}
    IN  [type \in {t[id].type : id \in counted} |->
            Cardinality({id \in counted : t[id].type = type})]
===============================================================================
