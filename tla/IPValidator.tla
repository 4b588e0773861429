------------------------------ MODULE IPValidator ------------------------------
(***************************************************************************)
(* internal/security/ipvalidator.go: the address ranges of GitHub's hooks, *)
(* fetched from its /meta document at start-up and then every hour.        *)
(*                                                                         *)
(* GitHub changes the ranges now and then, also between the moment it      *)
(* answers and the moment the answer is installed.  An Update that fails   *)
(* leaves the ranges alone; but the status of the answer is not looked at, *)
(* so an error that comes as a JSON object counts as a document without    *)
(* hooks, and no address is GitHub's until the next hour.                  *)
(***************************************************************************)
EXTENDS Naturals

CONSTANTS
    IPs,            \* addresses; a CIDR is one of them
    Documents,      \* the sets of ranges GitHub publishes
    MaxRotations,   \* bound on the changes of the published ranges
    MaxFaults       \* bound on failing updates and on crashes

VARIABLES
    webhookCIDR,    \* the ranges the validator holds
    pc,             \* where the goroutine that updates them is
    fetched,        \* the ranges Update has parsed but not installed
    ready,          \* NewIPValidator has returned
    published,      \* what GitHub publishes now
    rotations,      \* changes so far
    faults,         \* faults so far
    everPublished   \* history: what GitHub has ever published

vars == <<webhookCIDR, pc, fetched, ready, published, rotations, faults, everPublished>>

github == <<published, rotations, everPublished>>

Init ==
    /\ webhookCIDR = {}
    /\ pc = "off"
    /\ fetched = {}
    /\ ready = FALSE
    /\ published \in Documents
    /\ rotations = 0
    /\ faults = 0
    /\ everPublished = {published}

Fault == faults < MaxFaults /\ faults' = faults + 1

\* NewIPValidator, called by NewHandler, begins with an Update of its own.
NewIPValidator ==
    /\ pc = "off"
    /\ ~ ready
    /\ pc' = "get"
    /\ UNCHANGED <<webhookCIDR, fetched, ready, github, faults>>

\* GitHub answers with what it publishes at the moment.
Get ==
    /\ pc = "get"
    /\ fetched' = published
    /\ pc' = "swap"
    /\ UNCHANGED <<webhookCIDR, ready, github, faults>>

\* An error of GitHub or of a proxy, as a JSON object that has no hooks.
GetErrorDocument ==
    /\ pc = "get"
    /\ Fault
    /\ fetched' = {}
    /\ pc' = "swap"
    /\ UNCHANGED <<webhookCIDR, ready, github>>

\* Update returns to NewIPValidator, which starts backgroundUpdate, or to the
\* loop of the latter.
Return ==
    /\ pc' = "wait"
    /\ ready' = TRUE
    /\ fetched' = {}

\* Mutant of UpdateFails: CIDRs are installed as they are parsed.
UpdateFailsHalfway ==
    /\ pc = "get"
    /\ Fault
    /\ webhookCIDR' \in SUBSET published
    /\ Return
    /\ UNCHANGED github

\* Mutant of UpdateFails: the error ends backgroundUpdate.
UpdateFailsForGood ==
    /\ pc = "get"
    /\ Fault
    /\ pc' = IF ready THEN "off" ELSE "wait"
    /\ ready' = TRUE
    /\ fetched' = {}
    /\ UNCHANGED <<webhookCIDR, github>>

\* No answer, no JSON, or a CIDR that does not parse: the error is logged.
UpdateFails ==
    /\ pc = "get"
    /\ Fault
    /\ Return
    /\ UNCHANGED <<webhookCIDR, github>>

\* The assignment under the lock.
Install ==
    /\ pc = "swap"
    /\ webhookCIDR' = fetched
    /\ Return
    /\ UNCHANGED <<github, faults>>

\* range ticker.C
Tick ==
    /\ pc = "wait"
    /\ pc' = "get"
    /\ UNCHANGED <<webhookCIDR, fetched, ready, github, faults>>

\* GitHub publishes other ranges.
Rotate(ranges) ==
    /\ rotations < MaxRotations
    /\ ranges # published
    /\ rotations' = rotations + 1
    /\ published' = ranges
    /\ everPublished' = everPublished \cup {ranges}
    /\ UNCHANGED <<webhookCIDR, pc, fetched, ready, faults>>

Crash ==
    /\ Fault
    /\ webhookCIDR' = {}
    /\ pc' = "off"
    /\ fetched' = {}
    /\ ready' = FALSE
    /\ UNCHANGED github

\* Something fails that the validator does not notice.
FaultElsewhere ==
    /\ Fault
    /\ UNCHANGED <<webhookCIDR, pc, fetched, ready, github>>

Update == Get \/ GetErrorDocument \/ UpdateFails \/ Install

Next ==
    \/ NewIPValidator \/ Update \/ Tick
    \/ \E ranges \in Documents : Rotate(ranges)
    \/ Crash \/ FaultElsewhere

Spec == Init /\ [][Next]_vars

\* The scheduler runs the goroutines, the timer fires, GitHub answers (the
\* request has no timeout), and the process is started when it is down.
Fairness ==
    WF_vars(NewIPValidator) /\ WF_vars(Update) /\ WF_vars(Tick)

-------------------------------------------------------------------------------
\* The ranges are those of one document, whole, that GitHub has published at
\* some time, or none at all: whatever fails, requests are never checked
\* against a part of a document or a mix of two.
RangesArePublished == webhookCIDR \in everPublished \cup {{}}

\* Once nothing fails any more the validator gets to what GitHub publishes,
\* also when the first update failed or an error document was installed.
RangesCatchUp ==
    faults = MaxFaults /\ rotations = MaxRotations ~> webhookCIDR = published
================================================================================
