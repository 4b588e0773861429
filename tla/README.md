# HubProxy in TLA+

A verification project for HubProxy: TLA+ modules of its components, TLC
configurations that check them on small instances, and TLAPS proofs of the
properties that matter most. Line numbers refer to the commit under `src/`.

Check a run with `tlc -config MCForwarder.cfg MCForwarder`, a proof with
`tlapm Forwarder_proofs.tla`. `PROJECT.json` lists the runs, the mutants each
property is tried against, the source lines behind every definition, the
hazards and the findings.

## The system

| part | source | state | operations |
|---|---|---|---|
| Webhook handler | `internal/webhook/handler.go` | none of its own; three counters | `ServeHTTP`, one goroutine per request |
| Events table | `internal/storage/sql` | the rows, in SQLite, MySQL or PostgreSQL | `StoreEvent`, `UpdateEvent`, `MarkForwarded`, `GetEvent`, `ListEvents`, `CountEvents`, `GetStats` |
| Forwarder | `internal/webhook/forwarder.go` | a channel of capacity 1, the list of the pass under way | `StartForwarder`, `EnqueueProcessEvents`, `ProcessEvents`, `forwardEvent` |
| Metrics collector | `internal/storage/metrics.go` | a channel of capacity 1, the gauges | `StartMetricsCollection`, `EnqueueGatherMetrics`, `GatherMetrics` |
| API, REST and GraphQL | `internal/api/handler.go`, `internal/graphql/resolvers.go` | none | replay of one event and of a range, listing, single event, statistics |
| IP validator | `internal/security/ipvalidator.go` | the address ranges, under a lock | `Update` at start-up and every hour, `IsGitHubIP` |
| Start-up | `cmd/hubproxy/main.go` | the configuration | flags, environment, config file, `run` |
| Middlewares, tools | `internal/metrics`, `internal/security/tailscale_funnel_ip.go`, `internal/cmd/dev` | counters | not modelled |

How they interact:

```
GitHub --/meta--> IP validator
                       | ranges
                       v
GitHub --POST /webhook--> Webhook handler --INSERT OR IGNORE--> events table
                               |                                 ^  |  ^
                    send, never blocks                    UPDATE |  |  | read, UPDATE
                               v                                 |  v  |
                        Metrics collector <--GetStats---         |  API (REST, GraphQL)
                               ^                        Forwarder --POST--> target
                               +---- send, never blocks ----+
```

All sharing between the parts is through the table (one SQL statement at a
time, no transactions), the ranges and the two channels. Several processes can
use one database; each has its own channels, ranges, gauges and goroutines.

What is hard, and what makes each part correct:

* **Forwarder**: a POST and the mark that records it are two steps, with
  crashes, refusals, failing UPDATEs, replays and other processes between
  them. Correct is: a mark means an accepted request; a second delivery has a
  reason; a job gets the whole backlog out; everything stored gets out; a
  replay gets out; processes do not duplicate each other's work. The last
  three do not hold (see Findings).
* **Metrics collector**: a wake-up that finds the channel full is dropped.
  The gauges are set one by one while `/metrics` is scraped. Correct is: no
  wake-up is lost that mattered, a gauge is always the count of a whole read and
  never goes down, and every event is counted in the end.
* **Webhook handler**: concurrent requests, redeliveries of one id, ranges that
  change, clients that leave. Correct is: only what passed every check is
  stored, as it was sent; a redelivery changes nothing; every request is
  answered; what is answered 200 is stored (it is not).
* **API**: rows are read, then written back whole, one by one; a total and its
  page are two statements. Correct is: nothing but the marks changes however
  old the read was, an answer of success is complete, a page is as large as its
  total says, and only what was asked for is reset.
* **IP validator**: the document is fetched without a lock and installed later;
  fetching fails in several ways. Correct is: the ranges are always one whole
  document, and catch up with GitHub's.
* **Start-up**: five sources of settings and references to files, resolved in
  the order of the calls; parts that are started one after the other. Correct
  is: the documented source wins, the secret is never empty or a file's name
  (it can be), and the parts together do to each other what each was written
  for.

## Modules

| module | models |
|---|---|
| `EventStore` | the table as a function from ids to rows, and each SQL statement as an operator on it. No variables: every module that uses the table has its own `table`. |
| `Forwarder` | `StartForwarder`, `ProcessEvents` and `forwardEvent` in `Nodes` processes. `pc` is the place of the goroutine, `todo` the events the `range` has not reached, `cur` the `event` of `forwardEvent`. |
| `DeliveryLog` | what forwarding promises, without queues, passes or processes that come and go: rights to deliver that storing, replaying and lost successes give and deliveries use up. `Forwarder` implements it. |
| `MetricsCollector` | the collector's two goroutines in `Nodes` processes, with `Handlers` webhook handlers between their INSERT and their send. |
| `Webhook` | `Handlers` concurrent calls of `ServeHTTP` in one process; one action per check. |
| `Api` | `Replayers` concurrent API requests, REST and GraphQL: routing and argument checks, defaults, the read or the COUNT and the page, one UPDATE per replayed event. |
| `IPValidator` | `NewIPValidator`, `Update` (the answer and the swap are two steps) and the hourly loop, with GitHub changing what it publishes. |
| `Config` | `RunE` of the root command, one action per call that decides where settings come from, and what `run` refuses. `Get` is viper's order of precedence. |
| `HubProxy` | one process: the five parts over one table, queue, set of ranges and fault budget, started in the order of `run`, dying together. |
| `EventStore_proofs`, `Forwarder_proofs`, `MetricsCollector_proofs`, `Webhook_proofs`, `Api_proofs`, `IPValidator_proofs`, `Config_proofs`, `HubProxy_proofs` | lemmas and theorems |
| `MCForwarder`, `MCMetricsCollector`, `MCWebhook`, `MCApi`, `MCConfig`, `MCHubProxy` | the inputs TLC enumerates |

What a component module needs of the others is in it as an action of its
surroundings, free to happen at any time: `Store`, `Replay`, `EnqueueGather`
and `TakeGather` in `Forwarder`; `Enqueue` and `StoreElsewhere` in
`MetricsCollector`; `ForwarderMarks`, `Replay`, `UpdateRanges`,
`EnqueueGather` and `TakeGather` in `Webhook`; `Store` and `ForwarderMarks` in
`Api`; and a `FaultElsewhere` in each. In `HubProxy` there are none of these.
There the statement of one part is the surroundings of another, and that no
part does to another what its module did not foresee is `WebhookPart`,
`ForwarderPart`, `MetricsPart`, `ApiPart` and the theorems about them.

Conventions. A row keeps the columns decisions depend on; `forwarded` is
`forwarded_at IS NOT NULL`, `headers` is "the headers parse". A fault (crash,
cancelled context, SQL error, refusal, client that leaves, error document)
consumes one of `MaxFaults`; a statement under a done context fails without
one. Variables below "history" in a module are not in the program; the
properties are stated over them and no guard reads them. The operators whose
comment begins "Mutant of" are plausible mistakes in the code that the
properties are tried against; nothing uses them.

Abstractions worth knowing:

* The order of a listing is free: the SELECT has no ORDER BY. `Api` has the
  COUNT before it; in `Forwarder`, which ignores its result, it is left out.
* A POST is three steps, `Post`, `Deliver` and `Accept` or `Reject`. A request
  still on the wire when its sender gives up has either arrived or never will.
* `Forwarder.Replay` is the UPDATE alone. The row it writes was read earlier,
  and `Api` shows (`EventsSurviveReplay`) that the age of that read does not
  matter to anything but `forwarded` and `replayed`.
* A scrape of `/metrics` reads the gauges and nothing else, so it is not an
  action: what it can see is what the properties say of every state. The gauges
  are set one type at a time, in any order, and one never set counts as 0.
* A CIDR is one address, a document the set of them. The loop that parses the
  CIDRs is one step: it has no effect but its result or its error.
* `Config` looks at the keys by the role they play in the order of the calls:
  the secret, a key with a `TS_` variable, and those `run` checks.
* The `Cancel` actions cancel the context the goroutines got. `run` passes
  `context.Background()`, which is never cancelled, so in the program this is
  the same as never taking them; the tests do cancel. `HubProxy` has none.
* HMAC, JSON, time parsing and the contents of payloads are a Boolean or a
  model value of the request.

## Runs

| run | instance | checks |
|---|---|---|
| `forwarder` | 1 process, 2 events with good or no headers, 3 faults, 2 replays, fair | `TypeOK`, `MarkedWasAccepted`, `NoSpuriousDuplicate`, `JobDrainsBacklog`, `ImplementsDeliveryLog` |
| `forwarder_stored` | 1 process, 1 event, no fault, fair | `StoredIsForwarded`, violated |
| `forwarder_duplicate` | 2 processes, 1 event, no fault | `NoDuplicateAcrossNodes`, violated |
| `forwarder_replay` | 1 process, 1 event, 1 replay, no fault | `ReplayHonoured`, violated |
| `collector` | 1 process with an interval, 2 handlers, 3 events of 2 types, other processes that store, 1 fault, fair | `TypeOK`, `NoLostWakeup`, `GaugesAreOfARead`, `GaugesNeverDrop`, `OwnEventsAreCounted`, `AllEventsAreCounted` |
| `webhook` | 2 handlers, 2 requests of 8 kinds, 1 fault, validate-ip, fair | `TypeOK`, `StoredWasAdmitted`, `RowsAreKept`, `EveryRequestIsAnswered` |
| `webhook_lost` | 1 handler, 1 request, 1 fault | `AnsweredIsStored`, violated |
| `api` | 2 requests at once of 12 kinds, one a range of at most 2 events, 2 events at two instants, both default limits 1, 1 fault | `TypeOK`, `OkIsComplete`, `PageKeepsPromise`, `EventsSurviveReplay`, `OnlyWantedAreReset` |
| `replay_documented` | 1 request | `DocumentedReplayWorks`, violated |
| `config` | 7200 starts: secret and auth key in every source, plain, in a file or in an unreadable one | `TypeOK`, `SecretOfTheEnvironment`, `FlagsBeatTheFile` |
| `config_secret` | the same | `SecretFilesAreRead`, violated |
| `hubproxy` | all five parts, 1 webhook, 1 replay, 1 change of the ranges, 1 fault anywhere, fair | `DeliveredWasAdmitted`, `RangesArePublished`, `WebhookPart`, `ForwarderPart`, `MetricsPart`, `ApiPart`, `RangesCatchUp` |

Why the bounds are enough. Two events make a pass that is interrupted between
two of them, and one that is stored while the other is sent. Three faults make
a crash, a refusal and a failed mark on one event. One process is enough for
`forwarder`: its properties are about each process by itself, and the theorems
have any number. Two handlers make one that
announces while the other has stored; three events make one that is stored
after the wake-up of the second was dropped. Two requests make a redelivery
beside its original, and a replay beside a listing. The default limits are 1
rather than 100 and 50 so that two events exceed them, and one range has the
limit 2, so that a replay can fail between its two events and a page need not be
full. One fault is enough for `collector`: the next gathering starts from the
table after any of them, and it can hit every place there is. `config` has each
relevant pair of sources disagree. In `hubproxy` requests of one kind do not
meet each other, which they do in the runs of their own modules; what is new
there is each part against every other, and one of each, with one fault, makes
every such pair. The fault can be a first update that fails, an error document,
or a crash. Two published documents are enough for an old one to be installed
after a change. `MaxReplays`, the bound on the rows that replays write, is 1 and never
binds: one replay of one event writes one row. The theorems below have none of these bounds.

Only the runs of `Config` end, so only they are checked without deadlock.

Fairness. `Forwarder`, `MetricsCollector`: weak fairness of the goroutines'
steps (the Go scheduler), of starting a process that is down (the deployment
restarts it), and, in `Forwarder`, of the target: it answers a request that it
has. The last is an assumption about the target and not about HubProxy: the
HTTP client has no timeout (`forwarder.go:78`), so a target that never answers
stops forwarding for good. `Webhook`: weak fairness of each request's steps,
and nothing else; in particular the collector need not take its token.
`HubProxy`: of starting, of the validator's steps and of its timer, with
GitHub answering what it is asked (`http.Get` has no timeout either); nothing is
assumed of the other parts. Liveness is stated from the moment the faults are
used up; that is when "nothing fails any more" can be said of a bounded model.

The ticker of the metrics is an assumption of `AllEventsAreCounted` alone, as
`WF_vars(Tick(n)) => ...`: without `metrics-interval` (the default) a process
that stores nothing never looks at the database again. `OwnEventsAreCounted`
holds if it never fires.

## Findings

Six statements of the documentation or of comments that the code does not
keep; each is the property of a run that ends in a counterexample.

1. *Events stored after start-up are not forwarded* (`forwarder_stored`).
   `EnqueueProcessEvents` is called in `StartForwarder` only
   (`forwarder.go:214`); README 732, "the webhook is forwarded to your
   application", and 34, "Queue and retry failed deliveries automatically".
2. *Processes duplicate deliveries* (`forwarder_duplicate`). Nothing claims an
   event before it is sent; README 60 and 750.
3. *A replay during a POST is lost* (`forwarder_replay`). `MarkForwarded` is
   unconditional; README 386.
4. *An event that could not be stored is answered 200* (`webhook_lost`).
   `handler.go:213`; README 32 and 731.
5. *The documented route of a single replay does not exist*
   (`replay_documented`). `main.go:276` against README 383. The tests call the
   handler and not the router.
6. *The documented secret file in the config file is not read*
   (`config_secret`). `main.go:55` resolves `file:` values before `ReadInConfig`;
   README 629 and 630. The process runs, with the reference itself as the secret.

Smaller ones, visible in the models and without a run of their own: an end of a
replay's range that is Go's zero time counts as given and then bounds nothing
(`api/handler.go:254`, `base.go:259`), the blocked counter counts a missing event type (`handler.go:159` against the help
text in line 41), the stored counter counts ignored redeliveries (line 215
against line 34), a range replay without a limit stops at 100 events
(`api/handler.go:213` against README 432), the `forwarded` filter of the REST
listing (README 321) and the `status` argument of the GraphQL one
(`schema.go:144`) are not read, statistics without `since` count everything and
not 24 hours (README 369), the hourly update of the ranges cannot be
configured (README 687), and `TS_AUTHKEY=file:...` beats `--ts-authkey`, which
is the exception in `FlagsBeatTheFile`.

## Proofs

All theorems are for every value of the constants that satisfies the `ASSUME`s
of the modules: the sets of rows are rows, sentinels are not values, bounds are
natural numbers. TLC evaluates these assumptions in every run.

* `EventStore_proofs`: what `Insert`, `Update`, `MarkForwarded` and `ReplayOf`
  do to the type and the domain of the table, and that a listing is a set of
  stored ids that match. Every other proof uses the table through these lemmas.
* `Forwarder_proofs!TypeCorrect`. `TypeOK` is inductive with its last conjunct:
  the goroutine works on an event exactly in the three places between `Post`
  and `Mark`, and on none that is not stored.
* `Forwarder_proofs!MarkedWasAcceptedHolds`. The strengthening says that a
  goroutine that is about to mark has an accepted event in its hands; `Reject`
  is where a goroutine leaves without one.
* `Forwarder_proofs!NoSpuriousDuplicateHolds`. The invariant counts per process
  and event: deliveries never exceed the reasons there were; an event that is
  listed, or posted and not arrived, has a reason left over; and so has a
  stored event that is not marked, unless its delivery is between `Deliver` and
  `Mark`. The filter `NonForwarded` of `List` is what keeps a marked event, which may have
  no reason left, from being listed.
* `Forwarder_proofs!Implements`, the refinement of `DeliveryLog`. The mapping:
  the credit of a process is the reasons minus its deliveries, given is what any
  process has delivered, recorded is the stored rows that are marked. `Deliver`
  is `Give`, `Accept` is `Accept`, `Mark` is `Record`, `Replay` is `Replay`, the
  first `Store` is `Store`; `Reject`, `MarkFails` and `Crash` with an event in
  flight that has arrived are `Lose`, and all other steps stutter. The
  invariant is that of the two theorems above with one more conjunct: an event
  whose answer is awaited or known has been given.
* `MetricsCollector_proofs!TypeCorrect` and `NoLostWakeupHolds`. `TypeOK` needs
  that only finitely many rows are stored for the counts to be numbers.
  `NoLostWakeup` is inductive given `TypeOK`: the token is taken before the
  database is read, so an event stored after the read finds the channel empty
  or a token that is newer than the read.
* `MetricsCollector_proofs!GaugesAreOfAReadHolds` and `GaugesNeverDropHolds`.
  The strengthening says which of the two reads a gauge is of: while a result is
  being published, the gauges it has still to set are of the read before, all
  others of the new one; and what is left of the result stays the counts of the
  rows that were read, although rows come in. A type the result lacks has no row
  among those counted before either, so that the gauge nobody sets is right as
  it is. A gauge never goes down because a read has all rows of the read before.
* `Webhook_proofs!TypeCorrect`, `StoredWasAdmittedHolds` and `RowsAreKeptHolds`.
  The strengthening says how much of `Admissible` a handler has established at
  each `pc`, relative to the ranges it saw when it validated.
* `Api_proofs!TypeCorrect`, `EventsSurviveReplayHolds` and
  `OnlyWantedAreResetHolds`. The invariant says that every row in the hands of a
  replayer still is, but for the marks, the row in the table; no statement of
  the system changes more than marks, so the write-back of an old row is
  harmless. That a replayer has written nothing before it has read makes
  `TypeOK` inductive.
* `Api_proofs!OkIsCompleteHolds` and `PageKeepsPromiseHolds`. The invariant is
  per request: what it knew is still stored, what it holds it wants, what it has
  written is marked as replayed, what is left and what is written make up the
  page, and the total of a listing lies between what was wanted when it came in
  and what matches now. The last is kept because conditions look only at columns
  that never change and no row is ever deleted, so what matches only grows; it is
  why a page read after its total is never smaller than the total promises.
* `Config_proofs!TypeCorrect`, `SecretOfTheEnvironmentHolds`,
  `FlagsBeatTheFileHolds`. The invariant says what viper knows after each call of
  `RunE`; what `viperReadFile` has set is the content of what the environment
  alone had said, because no flag and no file was known to viper by then.
* `IPValidator_proofs!RangesArePublishedHolds`. Inductive with what `Update` has
  fetched and not installed: that too is a whole document or none.
* `HubProxy_proofs!WebhookHolds`, `ForwarderHolds`, `MetricsHolds`, `ApiHolds`,
  `ValidatorHolds`: the process implements each of its five parts. See below.
* `HubProxy_proofs!ForwarderKeepsWord`, `WebhookKeepsWord`, `MetricsKeepsWord`,
  `ApiKeepsWord`, `RangesArePublishedHolds`: with them, what is proved of a part
  alone, the refinement of `DeliveryLog` included, is true in the process.
* `HubProxy_proofs!DeliveredWasAdmittedHolds`, which no part can promise by
  itself. The handlers know by which ranges a request was admitted
  (`StoredWasAdmitted`), the validator that GitHub published them
  (`FetchedWhole`), the forwarder that it delivers stored rows only; the
  strengthening says that ranges a handler has seen, or that a row was admitted
  by, are addresses GitHub has published, and that what the target has received
  is still stored.

How the parts are put together. A step of one part is a step of another's
surroundings only while both keep what was proved of them, so the five theorems
share one invariant, `Inv`: the invariants of `Webhook`, `Forwarder` and `Api`
from their own proof modules, and what none of them can say.

* `LifeInv`: the order of `run`. The forwarder runs, the server serves and a
  handler is busy only if what was started before is up. Without it a handler
  could announce an event to a collector that is down, which `MetricsCollector`
  does not allow. The proof fails when `StartForwarder` drops its guard `ready`.
* `KeyInv`: a handler holds the id of a row only between its INSERT and the end
  of the request. `MetricsCollector` sees that id as what is stored and not yet
  announced.
* `RangeInv`: the ranges are a value that `Webhook` expects of its surroundings.
* `Api`'s invariant, that a row a replay has read is the row in the table but for
  the marks, is why its write-back is a `Replay` to `Forwarder` and to `Webhook`.

A step of the process that is not a crash has one of eight effects on what the
parts share: nothing, a fault, a wake-up sent or taken, a row stored, marked or
reset, ranges installed. One lemma per part (`AroundWebhook`, `AroundForwarder`,
...) says that each effect is a step of its surroundings or none; one lemma per
action of the process says which effect it has, and that it is a step of its own
part. `NextSteps` combines them, and with it the components' inductive steps
preserve `Inv`. `HubProxy` assumes of its constants only what the parts assume
of theirs; the lemmas `WebhookAssumptions` and so on prove that.

Checked by TLC only: liveness (`JobDrainsBacklog`, `OwnEventsAreCounted`,
`AllEventsAreCounted`, `EveryRequestIsAnswered`, `RangesCatchUp`), which rests on
fairness and ENABLED and is beyond the prover, and the six runs that end in a
counterexample. Every other property of a run is a theorem.

## Not modelled

* Differences between the SQL dialects but for an OFFSET without a LIMIT: what
  INSERT IGNORE swallows in MySQL, widths of columns; schema creation; the
  connection pool of `database/sql`, and that each connection to
  `sqlite::memory:` is a database of its own.
* That the client of the forwarder follows redirects, and that it and the
  validator's have no timeout: `Accept` is the final answer, and there is one.
* That one of the two servers can end while the process goes on with the other
  (`main.go:330`).
* How a request comes to its address (`trusted-proxy`, Tailscale Funnel): `ip` is
  what the middlewares have made of it by the time the handler looks.
* The two Prometheus counters of the forwarder, HTTP metrics, logging.
* The GraphQL schema, the Tailscale listeners and their address middleware:
  declarations for, and calls of, external libraries without state here.
* Development tools and test helpers: outside the proxy.

## Plan

Done: all components that keep state or take decisions, their composition, and
a theorem for every property that is not about liveness. What would add most
from here:

1. `MemPool`: `database/sql` connections on `sqlite::memory:`, against
   `EventStore` as its abstraction.
2. Several processes of `HubProxy` on one table. `Forwarder` and
   `MetricsCollector` have them already; `Api` and `Webhook` would need the other
   processes' inserts and marks, which their surroundings already allow.
